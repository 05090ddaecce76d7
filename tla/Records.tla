------------------------------ MODULE Records ------------------------------
(***************************************************************************)
(* The record constructors of vsl/records.go and their dispatch in         *)
(* processRecord (vsl/parser.go).  A constructor is the sequence of        *)
(* conversions it makes of the fields of a line, in the order of the code; *)
(* each one may reject the line, and a field that is not there is an index *)
(* out of range.  A field is the class of its text: what ParseUint, Atoi,  *)
(* ParseFloat, ParseIP and the comparisons of the code tell apart.         *)
(***************************************************************************)
EXTENDS Naturals, Sequences

CONSTANT Lines  \* the lines that may be read: [tag |-> ..., fields |-> ...]

\* "id" is an integer below 2^32, "long" one from 2^32 on, "minus" a negative
\* one, "frac" a decimal fraction, "op" one of B, U and u, "dir" one of F and D,
\* "name:" a text with a colon, "%" one that no URL may hold.
Integers64 == {"id", "long", "minus"}
Tokens == Integers64 \cup
  {"frac", "ip", "word", "name:", "%", "esi", "stream", "-", "op", "dir"}

ASSUME LinesAssumption == \A l \in Lines : l.fields \in Seq(Tokens)

\* A conversion: the field it reads, from 1, or 0 for the value of the whole
\* line; the function that converts it; the field of the record it fills.
Read(at, as, into) == [at |-> at, as |-> as, into |-> into]

\* The texts a conversion accepts; parseVXID reads 32 bits, Atoi 64.
Accepts(as, text) ==
  CASE as = "text"     -> TRUE
    [] as = "url"      -> \A i \in DOMAIN text : text[i] # "%"
    [] as = "int"      -> Len(text) = 1 /\ text[1] \in Integers64
    [] as = "vxid"     -> Len(text) = 1 /\ text[1] = "id"
    [] as = "float"    -> Len(text) = 1 /\ text[1] \in Integers64 \cup {"frac"}
    [] as = "streamed" -> Len(text) = 1 /\ text[1] \in {"stream", "-"}
    [] as \in {"ip", "esi", "op", "dir"} -> Len(text) = 1 /\ text[1] = as
    [] as = "nothing"  -> FALSE

\* An early return with an error, before any field is converted.
Reject == <<Read(0, "nothing", "error")>>

HasColon(f) == \E i \in DOMAIN f : f[i] = "name:"

-----------------------------------------------------------------------------
(* The constructors, on the fields f of the value of a line.               *)

NewBeginRecord(f) ==
  CASE Len(f) = 4 -> <<Read(3, "esi", "Reason"), Read(4, "int", "ESILevel"),
                       Read(2, "vxid", "Parent"), Read(1, "text", "RecordType")>>
    [] Len(f) = 3 -> <<Read(2, "vxid", "Parent"), Read(1, "text", "RecordType"),
                       Read(3, "text", "Reason")>>
    [] OTHER -> Reject

NewLinkRecord(f) ==
  CASE Len(f) = 4 -> <<Read(3, "esi", "Reason"), Read(4, "int", "ESILevel"),
                       Read(2, "vxid", "VXID"), Read(1, "text", "TXType")>>
    [] Len(f) = 3 -> <<Read(2, "vxid", "VXID"), Read(1, "text", "TXType"),
                       Read(3, "text", "Reason")>>
    [] OTHER -> Reject

\* NewHeaderUnsetRecord is the same.
NewHeaderRecord(f) ==
  IF HasColon(f) THEN <<Read(0, "text", "Name"), Read(0, "text", "Value")>> ELSE Reject

NewBackendOpenRecord(f) ==
  IF Len(f) < 6 THEN Reject
  ELSE <<Read(1, "int", "FileDescriptor"), Read(3, "ip", "RemoteAddr"),
         Read(4, "int", "RemotePort"), Read(5, "ip", "LocalAddr"),
         Read(6, "int", "LocalPort")>>
       \o (IF Len(f) >= 7 THEN <<Read(7, "text", "Reason")>> ELSE << >>)
       \o <<Read(2, "text", "Name")>>

NewBackendStartRecord(f) ==
  IF Len(f) < 2 THEN Reject
  ELSE <<Read(1, "ip", "RemoteAddr"), Read(2, "int", "RemotePort")>>

\* Mutant of NewBackendCloseRecord: the reason is read from the field after it.
BackendCloseShifted(f) ==
  IF Len(f) < 2 THEN Reject
  ELSE <<Read(1, "int", "FileDescriptor")>>
       \o (IF Len(f) >= 4 THEN <<Read(4, "text", "Reason")>> ELSE << >>)
       \o <<Read(2, "text", "Name")>>

NewBackendCloseRecord(f) ==
  IF Len(f) < 2 THEN Reject
  ELSE <<Read(1, "int", "FileDescriptor")>>
       \o (IF Len(f) >= 3 THEN <<Read(3, "text", "Reason")>> ELSE << >>)
       \o (IF Len(f) >= 4 THEN <<Read(4, "text", "OptionalReason")>> ELSE << >>)
       \o <<Read(2, "text", "Name")>>

\* A reuse that is too short is an empty record, not an error.
NewBackendReuseRecord(f) ==
  IF Len(f) < 2 THEN << >>
  ELSE <<Read(1, "int", "FileDescriptor"), Read(2, "text", "Name")>>

NewAcctRecord(f) ==
  IF Len(f) # 6 THEN Reject
  ELSE <<Read(1, "int", "HeaderTx"), Read(2, "int", "BodyTx"), Read(3, "int", "TotalTx"),
         Read(4, "int", "HeaderRx"), Read(5, "int", "BodyRx"), Read(6, "int", "TotalRx")>>

NewPipeAcctRecord(f) ==
  IF Len(f) # 4 THEN Reject
  ELSE <<Read(1, "int", "ClientReqHeaders"), Read(2, "int", "BackendReqHeaders"),
         Read(3, "int", "PipedFrom"), Read(4, "int", "PipedTo")>>

NewTimestampRecord(f) ==
  IF Len(f) # 4 THEN Reject
  ELSE <<Read(2, "float", "AbsoluteTime"), Read(3, "float", "SinceStart"),
         Read(4, "float", "SinceLast"), Read(1, "text", "EventLabel")>>

NewReqStartRecord(f) ==
  IF Len(f) < 3 THEN Reject
  ELSE <<Read(1, "ip", "ClientIP"), Read(2, "int", "ClientPort"), Read(3, "text", "Listener")>>
       \o (IF Len(f) >= 4 THEN <<Read(4, "text", "Scheme")>> ELSE << >>)

NewURLRecord(f) == <<Read(0, "url", "URL")>>

NewFiltersRecord(f) == <<Read(0, "text", "Filters")>>

NewStatusRecord(f) == <<Read(0, "int", "Status")>>

NewLengthRecord(f) == <<Read(0, "int", "Size")>>

\* Mutant of NewHitRecord: four fields or more, as a plain hit has.
HitFromFour(f) ==
  IF Len(f) \notin 4..6 THEN Reject
  ELSE <<Read(1, "vxid", "ObjVXID"), Read(2, "float", "TTL"),
         Read(3, "float", "Grace"), Read(4, "float", "Keep")>>
       \o (IF Len(f) > 4 THEN <<Read(5, "int", "Fetched")>> ELSE << >>)
       \o (IF Len(f) > 5 THEN <<Read(6, "int", "ContentLength")>> ELSE << >>)

\* With three fields the code goes on to the fourth.
NewHitRecord(f) ==
  IF Len(f) \notin 2..6 THEN Reject
  ELSE <<Read(1, "vxid", "ObjVXID"), Read(2, "float", "TTL")>>
       \o (IF Len(f) > 2 THEN <<Read(3, "float", "Grace"), Read(4, "float", "Keep")>> ELSE << >>)
       \o (IF Len(f) > 4 THEN <<Read(5, "int", "Fetched")>> ELSE << >>)
       \o (IF Len(f) > 5 THEN <<Read(6, "int", "ContentLength")>> ELSE << >>)

\* Mutant of NewTTLRecord: without the check of the length after the common fields.
TTLSixOrMore(f) ==
  IF Len(f) < 6 THEN Reject
  ELSE <<Read(1, "text", "Source"), Read(2, "int", "TTL"), Read(3, "int", "Grace"),
         Read(4, "int", "Keep"), Read(5, "float", "Reference")>>
       \o (IF Len(f) = 6 THEN <<Read(6, "text", "CacheStatus")>>
           ELSE <<Read(6, "float", "Age"), Read(7, "float", "Date"),
                  Read(8, "float", "Expires"), Read(9, "int", "MaxAge"),
                  Read(10, "text", "CacheStatus")>>)

NewTTLRecord(f) ==
  IF Len(f) < 6 THEN Reject
  ELSE <<Read(1, "text", "Source"), Read(2, "int", "TTL"), Read(3, "int", "Grace"),
         Read(4, "int", "Keep"), Read(5, "float", "Reference")>>
       \o (CASE Len(f) = 6  -> <<Read(6, "text", "CacheStatus")>>
             [] Len(f) = 10 -> <<Read(6, "float", "Age"), Read(7, "float", "Date"),
                                 Read(8, "float", "Expires"), Read(9, "int", "MaxAge"),
                                 Read(10, "text", "CacheStatus")>>
             [] OTHER -> Reject)

NewVCLLogRecord(f) ==
  IF HasColon(f) THEN <<Read(0, "text", "Key"), Read(0, "text", "Value")>>
  ELSE <<Read(0, "text", "Value")>>

NewStorageRecord(f) ==
  IF Len(f) < 2 THEN Reject
  ELSE <<Read(1, "text", "StorageType"), Read(2, "text", "Name")>>

NewFetchBodyRecord(f) ==
  IF Len(f) # 3 THEN Reject
  ELSE <<Read(1, "int", "Mode"), Read(3, "streamed", "Stream"), Read(2, "text", "Description")>>

NewSessOpenRecord(f) ==
  IF Len(f) # 7 THEN Reject
  ELSE <<Read(1, "ip", "RemoteAddr"), Read(2, "int", "RemotePort"), Read(4, "ip", "LocalAddr"),
         Read(5, "int", "LocalPort"), Read(6, "float", "SessionStart"),
         Read(7, "int", "FileDescriptor"), Read(3, "text", "SocketName")>>

NewSessCloseRecord(f) ==
  IF Len(f) # 2 THEN Reject
  ELSE <<Read(2, "float", "Duration"), Read(1, "text", "Reason")>>

\* Any other number of fields is taken for the text of a gzip error.
NewGzipRecord(f) ==
  IF Len(f) # 8 THEN <<Read(0, "text", "Error")>>
  ELSE <<Read(1, "text", "Action"), Read(2, "text", "When"), Read(3, "text", "Object"),
         Read(4, "int", "InputBytes"), Read(5, "int", "OutputBytes"),
         Read(6, "int", "BitLocFirst"), Read(7, "int", "BitLocLast"),
         Read(8, "int", "BitLengthOfCompressedData")>>

NewMSE4NewObjectRecord(f) ==
  IF Len(f) \notin {5, 8} THEN Reject
  ELSE <<Read(1, "int", "AllocationChunks"), Read(2, "int", "BytesProcessed"),
         Read(3, "float", "TimeElapsed"), Read(4, "float", "TimeMSE4Processing"),
         Read(5, "float", "TimeMemoryAllocation")>>
       \o (IF Len(f) = 8
           THEN <<Read(6, "float", "TimeResourceWait"), Read(7, "float", "TimeDiskIOFetch"),
                  Read(8, "float", "TimeDiskIOFinalize")>>
           ELSE << >>)

NewMSE4ObjIterRecord(f) ==
  IF Len(f) \notin {4, 6} THEN Reject
  ELSE <<Read(1, "float", "TimeElapsed"), Read(2, "int", "BytesProcessed"),
         Read(3, "float", "TimeProcessing"), Read(4, "float", "TimeBackendWait")>>
       \o (IF Len(f) = 6
           THEN <<Read(5, "int", "DiskIOBytes"), Read(6, "float", "TimeDiskIOProcessing")>>
           ELSE << >>)

NewMSE4ChunkFaultRecord(f) ==
  IF Len(f) # 5 THEN Reject
  ELSE <<Read(1, "int", "ChunksProcessed"), Read(2, "int", "BytesProcessed"),
         Read(3, "float", "TimeProcessing"), Read(4, "float", "TimeMemoryAllocation"),
         Read(5, "float", "TimeDiskIOWait")>>

NewBrotliRecord(f) ==
  IF Len(f) # 4 THEN Reject
  ELSE <<Read(1, "op", "Operation"), Read(2, "dir", "Direction"),
         Read(3, "int", "BytesInput"), Read(4, "int", "BytesOutput")>>

-----------------------------------------------------------------------------
\* processRecord: the constructor of a tag; End, Reason, Method, VCL_call and the
\* like, and unknown tags, keep the line and convert nothing.  NewBaseRecord fails
\* on a line without a tag.
Conversions(tag, f) ==
  CASE tag = "none" -> Reject
    [] tag = "Begin" -> NewBeginRecord(f)
    [] tag = "Link" -> NewLinkRecord(f)
    [] tag \in {"Header", "Unset"} -> NewHeaderRecord(f)
    [] tag = "BackendOpen" -> NewBackendOpenRecord(f)
    [] tag = "BackendStart" -> NewBackendStartRecord(f)
    [] tag = "BackendClose" -> NewBackendCloseRecord(f)
    [] tag = "BackendReuse" -> NewBackendReuseRecord(f)
    [] tag = "Brotli" -> NewBrotliRecord(f)
    [] tag = "Acct" -> NewAcctRecord(f)
    [] tag = "PipeAcct" -> NewPipeAcctRecord(f)
    [] tag = "Timestamp" -> NewTimestampRecord(f)
    [] tag = "ReqStart" -> NewReqStartRecord(f)
    [] tag = "URL" -> NewURLRecord(f)
    [] tag = "Filters" -> NewFiltersRecord(f)
    [] tag = "Status" -> NewStatusRecord(f)
    [] tag = "Length" -> NewLengthRecord(f)
    [] tag = "MSE4_NewObject" -> NewMSE4NewObjectRecord(f)
    [] tag = "MSE4_ObjIter" -> NewMSE4ObjIterRecord(f)
    [] tag = "MSE4_ChunkFault" -> NewMSE4ChunkFaultRecord(f)
    [] tag \in {"Hit", "HitMiss", "HitPass"} -> NewHitRecord(f)
    [] tag = "TTL" -> NewTTLRecord(f)
    [] tag = "VCL_Log" -> NewVCLLogRecord(f)
    [] tag = "Storage" -> NewStorageRecord(f)
    [] tag = "Fetch_Body" -> NewFetchBodyRecord(f)
    [] tag = "SessOpen" -> NewSessOpenRecord(f)
    [] tag = "SessClose" -> NewSessCloseRecord(f)
    [] tag = "Gzip" -> NewGzipRecord(f)
    [] OTHER -> << >>

VARIABLES
  line,     \* the line processRecord is called with
  next,     \* the next conversion
  record,   \* the fields of the record that are filled: <<name, field read>>
  outcome   \* "running", or how the call ends: "record", "error", "panic"

vars == <<line, next, record, outcome>>

Conversion == Conversions(line.tag, line.fields)[next]

\* The text the next conversion reads.
Text == IF Conversion.at = 0 THEN line.fields
        ELSE SubSeq(line.fields, Conversion.at, Conversion.at)

HasNext == next <= Len(Conversions(line.tag, line.fields))

Init ==
  /\ line \in Lines
  /\ next = 1
  /\ record = {}
  /\ outcome = "running"

Convert ==
  /\ outcome = "running" /\ HasNext
  /\ Conversion.at <= Len(line.fields)
  /\ Accepts(Conversion.as, Text)
  /\ record' = record \cup {<<Conversion.into, Conversion.at>>}
  /\ next' = next + 1
  /\ UNCHANGED <<line, outcome>>

\* The constructor returns an error, and with it processRecord and Parse.
Fail ==
  /\ outcome = "running" /\ HasNext
  /\ Conversion.at <= Len(line.fields)
  /\ ~Accepts(Conversion.as, Text)
  /\ outcome' = "error"
  /\ UNCHANGED <<line, next, record>>

\* parts[i] with i >= len(parts): a panic.
ReadPastEnd ==
  /\ outcome = "running" /\ HasNext
  /\ Conversion.at > Len(line.fields)
  /\ outcome' = "panic"
  /\ UNCHANGED <<line, next, record>>

Return ==
  /\ outcome = "running" /\ ~HasNext
  /\ outcome' = "record"
  /\ UNCHANGED <<line, next, record>>

Next == Convert \/ Fail \/ ReadPastEnd \/ Return

Spec == Init /\ [][Next]_vars

-----------------------------------------------------------------------------
\* No constructor reads past the fields of a line, whatever their number: the checks
\* of the length before the conversions cover every index after them.  The one case
\* that they miss is a hit with three fields (records.go:790).
IndexesInRange ==
  outcome = "panic" => line.tag \in {"Hit", "HitMiss", "HitPass"} /\ Len(line.fields) = 3

\* What a record keeps of a line has no holes: the fields that were read are the first
\* ones, each name is filled from one field, and no two names from the same field.
\* An index that is off by one breaks it: a field is skipped or read twice.  Two names
\* that are swapped, each filled from the field of the other, do not.
RecordHasNoHoles ==
  LET fieldsRead == {r[2] : r \in record} \ {0}
  IN outcome = "record" =>
       /\ \A i \in fieldsRead : \A j \in 1..i : j \in fieldsRead
       /\ \A r, s \in record : (r[1] = s[1] \/ (r[2] = s[2] /\ r[2] # 0)) => r = s
=============================================================================
