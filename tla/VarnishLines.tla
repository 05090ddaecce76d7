---------------------------- MODULE VarnishLines ----------------------------
(***************************************************************************)
(* The lines varnishd writes, as vsl(7) lists them and the examples show,  *)
(* and what the constructors of Records must make of them.  The table is   *)
(* not taken from the constructors: it says what is printed for each tag,  *)
(* they say what is read.                                                  *)
(***************************************************************************)
EXTENDS Records

\* What varnishd prints in a field: "count" is an unsigned integer, "whole" a time
\* in seconds without a fraction (%.0f), "secs" and "epoch" one with it.
Printed(what) ==
  CASE what = "vxid"  -> {"id"}
    [] what = "count" -> {"id", "long"}
    [] what = "whole" -> {"id", "minus"}
    [] what \in {"secs", "epoch"} -> {"frac"}
    [] what = "streams" -> {"stream", "-"}
    [] OTHER -> {what}

Formats ==
  LET conn == <<"ip", "count">>
      msePersisted == <<"secs", "secs", "secs">>
  IN [Begin |-> {<<"word", "vxid", "word">>, <<"word", "vxid", "esi", "count">>},
      Link  |-> {<<"word", "vxid", "word">>, <<"word", "vxid", "esi", "count">>},
      Header |-> {<<"name:">>, <<"name:", "word">>, <<"name:", "name:", "word">>},
      Unset  |-> {<<"name:">>, <<"name:", "word">>},
      BackendOpen  |-> {<<"count", "word">> \o conn \o conn,
                        <<"count", "word">> \o conn \o conn \o <<"word">>},
      BackendStart |-> {conn},
      BackendClose |-> {<<"count", "word">>, <<"count", "word", "word">>,
                        <<"count", "word", "word", "word">>},
      BackendReuse |-> {<<"count", "word">>},
      Brotli   |-> {<<"op", "dir", "count", "count">>},
      Acct     |-> {<<"count", "count", "count", "count", "count", "count">>},
      PipeAcct |-> {<<"count", "count", "count", "count">>},
      Timestamp |-> {<<"name:", "epoch", "secs", "secs">>},
      ReqStart |-> {conn \o <<"word">>, conn \o <<"word", "word">>},
      URL     |-> {<<"word">>},
      Filters |-> {<< >>, <<"word">>, <<"word", "word">>},
      Status  |-> {<<"count">>},
      Length  |-> {<<"count">>},
      MSE4_NewObject |-> {<<"count", "count", "secs", "secs", "secs">>,
                          <<"count", "count", "secs", "secs", "secs">> \o msePersisted},
      MSE4_ObjIter |-> {<<"secs", "count", "secs", "secs">>,
                        <<"secs", "count", "secs", "secs", "count", "secs">>},
      MSE4_ChunkFault |-> {<<"count", "count", "secs", "secs", "secs">>},
      Hit |-> {<<"vxid", "secs", "secs", "secs">>,
               <<"vxid", "secs", "secs", "secs", "count">>,
               <<"vxid", "secs", "secs", "secs", "count", "count">>},
      HitMiss |-> {<<"vxid", "secs">>},
      HitPass |-> {<<"vxid", "secs">>},
      TTL |-> {<<"word", "whole", "whole", "whole", "whole", "word">>,
               <<"word", "whole", "whole", "whole", "whole", "whole", "whole", "whole",
                 "count", "word">>},
      VCL_Log  |-> {<< >>, <<"word">>, <<"name:", "word">>, <<"word", "name:", "word">>},
      Storage  |-> {<<"word", "word">>},
      Fetch_Body |-> {<<"count", "word", "streams">>},
      SessOpen  |-> {conn \o <<"word">> \o conn \o <<"epoch", "count">>},
      SessClose |-> {<<"word", "secs">>},
      Gzip |-> {<<"op", "dir", "-", "count", "count", "count", "count", "count">>,
                <<"word", "name:", "minus", "word">>},
      VCL_call |-> {<<"word">>}]

WrittenByVarnish(l) ==
  /\ l.tag \in DOMAIN Formats
  /\ \E f \in Formats[l.tag] :
       /\ Len(f) = Len(l.fields)
       /\ \A i \in DOMAIN f : l.fields[i] \in Printed(f[i])

\* One line that is not understood fails the whole log: a line varnishd writes must
\* give a record, and every field of it must be in the record, by its own name or
\* in the value of the whole line.  VXIDs are below 2^32 and URLs are well formed.
VarnishLinesAreKept ==
  WrittenByVarnish(line) =>
    /\ outcome \notin {"error", "panic"}
    /\ outcome = "record" /\ record # {} =>
         \A i \in DOMAIN line.fields : \E r \in record : r[2] \in {0, i}
=============================================================================
