--------------------------- MODULE MCParserHeaders ---------------------------
(* One transaction with every order of header records, unsets, statuses and  *)
(* VCL calls: a header Varnish may change itself (Via, in two spellings), an *)
(* ordinary one (X) and Host.                                                *)
EXTENDS MergeLoop

MCSpellings == {"via", "Via", "X", "Host"}
MCCanonical == [s \in MCSpellings |-> IF s = "via" THEN "Via" ELSE s]

HeaderLine(tag, name, value) == [tag |-> tag, name |-> name, value |-> value]

MCLines ==
  {[tag |-> t] : t \in {"VCL_call", "Status"}}
  \cup {[tag |-> "start", vxid |-> 1], [tag |-> "Begin", parent |-> 1]}
  \cup {HeaderLine("ReqHeader", "Via", "a"), HeaderLine("ReqHeader", "via", "empty"),
        HeaderLine("ReqHeader", "X", "a"), HeaderLine("ReqHeader", "X", "empty"),
        HeaderLine("ReqHeader", "Host", "a"),
        HeaderLine("ReqUnset", "via", "a"), HeaderLine("BereqUnset", "X", "a"),
        HeaderLine("RespHeader", "X", "a"), HeaderLine("RespUnset", "Via", "a")}

=============================================================================
