-------------------------- MODULE TransactionParser --------------------------
(***************************************************************************)
(* TransactionParser.Parse of vsl/parser.go: the loop that reads a         *)
(* varnishlog line by line and builds the transaction set.  Every action   *)
(* is one iteration of the outer loop ("outer"), the read of the line that *)
(* must hold the Begin tag ("begin") or one iteration of the loop over the *)
(* records of a transaction ("inner"); "done" and "failed" are the return  *)
(* without and with an error.  A line is what processRecord and the header *)
(* test make of it: a tag and the fields the parser uses.                  *)
(***************************************************************************)
EXTENDS Headers

CONSTANTS
  Lines,            \* the lines a log may hold
  VXIDs,            \* transaction identifiers
  VarnishModified,  \* the names listed in isVarnishModifiedHeader
  MaxLines          \* bound on the lines that are read

HeaderTags == {"ReqHeader", "BereqHeader", "ObjHeader", "RespHeader", "BerespHeader"}
UnsetTags  == {"ReqUnset", "BereqUnset", "ObjUnset", "RespUnset", "BerespUnset"}

\* "start": a transaction header such as **  << Request  >> 4; "badstart": one
\* NewTransaction rejects; "short": fewer than two fields; "malformed": a known
\* tag whose constructor fails; "Status": any of the three status tags; "other":
\* a record Parse only stores.
Tags == {"start", "badstart", "short", "malformed", "other", "Begin", "End",
         "VCL_call", "Status", "Link"} \cup HeaderTags \cup UnsetTags

IsRespTag(tag) == tag \in {"RespHeader", "BerespHeader", "RespUnset", "BerespUnset"}

ASSUME LinesAssumption ==
  \A l \in Lines :
    /\ l.tag \in Tags
    /\ l.tag \in {"start", "Link"} => l.vxid \in VXIDs
    /\ l.tag = "Begin" => l.parent \in VXIDs \cup {0}
    /\ l.tag \in HeaderTags \cup UnsetTags =>
         l \in [tag : HeaderTags \cup UnsetTags, name : Spellings, value : Values]

ASSUME VarnishModifiedAssumption ==
  VarnishModified \subseteq Spellings /\ HdrNameHost \notin VarnishModified

ASSUME MaxLinesAssumption == MaxLines \in Nat

VARIABLES
  pc,             \* where in Parse the next line is read
  txs,            \* ts.txs, the set that is returned
  tx,             \* the transaction being read
  clientHeaders,  \* still reading received headers
  lastHeader,     \* lastHeaderRecord: "none", or the side of the last one
  tempHeaders,    \* headers Varnish itself may have changed
  lines           \* lines read so far

vars == <<pc, txs, tx, clientHeaders, lastHeader, tempHeaders, lines>>
locals == <<clientHeaders, lastHeader, tempHeaders>>

-----------------------------------------------------------------------------
\* isVarnishModifiedHeader: only for ReqHeader and ReqUnset.
IsVarnishModifiedHeader(name, tag) ==
  tag \in {"ReqHeader", "ReqUnset"} /\ CanonicalHeaderName[name] \in VarnishModified

\* Mutant of AddProcessedHeaders: the header is not looked up first.
AlwaysAdded(h, name, value) == Add(h, name, value, "Added")

\* addProcessedHeaders: a header whose first value is not empty is Modified.
AddProcessedHeaders(h, name, value) ==
  Add(h, name, value, IF Get(h, name) = Empty THEN "Added" ELSE "Modified")

\* Mutant of MergedValues: a deleted value is dropped without deleting the header.
MergedWithoutDelete(values, temp) ==
  values \o [i \in DOMAIN temp.receivedValues |->
                [value |-> temp.receivedValues[i], state |-> "Received"]]
         \o Live(temp.values)

\* mergeTempHeaders for one name: the received values are added; then a
\* Deleted value deletes what is there and any other one is added, a Modified
\* one alone.  Deleted values come first (WellFormedValues).
MergedValues(values, temp) ==
  LET received == [i \in DOMAIN temp.receivedValues |->
                     [value |-> temp.receivedValues[i], state |-> "Received"]]
      base     == values \o received
      kept     == Live(temp.values)
  IN  IF kept # <<>> /\ kept[1].state = "Modified" THEN kept
      ELSE (IF NDeleted(temp.values) > 0 THEN MarkDeleted(base) ELSE base) \o kept

\* mergeTempHeaders: a name is created when the merge has a value to add, and
\* the new names are numbered in the order of their temp ids.
MergeTempHeaders(h, temp) ==
  LET new   == {n \in Present(temp) \ Present(h) :
                  temp[n].receivedValues # <<>> \/ Live(temp[n].values) # <<>>}
      id(n) == IF n \notin new THEN h[n].id
               ELSE Cardinality(Present(h))
                    + Cardinality({m \in new : temp[m].id <= temp[n].id})
  IN  [n \in Names |->
         IF n \notin Present(temp) \cap (Present(h) \cup new) THEN h[n]
         ELSE [id             |-> id(n),
               values         |-> MergedValues(h[n].values, temp[n]),
               receivedValues |-> h[n].receivedValues \o temp[n].receivedValues]]

\* processRecord: header names are stored in their canonical form.
ProcessRecord(l) ==
  IF l.tag \in HeaderTags \cup UnsetTags
  THEN [l EXCEPT !.name = CanonicalHeaderName[l.name]]
  ELSE l

\* Mutant of NewTransaction: the VXID of the line is not kept.
NewWithoutVXID(vxid) ==
  [vxid |-> 0, parent |-> 0, records |-> <<>>, children |-> <<>>,
   reqHeaders |-> NoHeaders, respHeaders |-> NoHeaders]

\* NewTransaction: the zero value of Parent, no records, no headers.
NewTransaction(vxid) ==
  [vxid |-> vxid, parent |-> 0, records |-> <<>>, children |-> <<>>,
   reqHeaders |-> NoHeaders, respHeaders |-> NoHeaders]

\* The map a record of this tag is about, and the transaction with it replaced.
HeadersOf(t, tag) == IF IsRespTag(tag) THEN t.respHeaders ELSE t.reqHeaders

WithHeaders(t, tag, h) ==
  IF IsRespTag(tag) THEN [t EXCEPT !.respHeaders = h] ELSE [t EXCEPT !.reqHeaders = h]

\* tx.Records = append(tx.Records, r)
WithRecord(t, l) == [t EXCEPT !.records = Append(t.records, ProcessRecord(l))]

-----------------------------------------------------------------------------
Init ==
  /\ pc = "outer"
  /\ txs = [v \in {} |-> {}]
  /\ tx = NewTransaction(0)
  /\ clientHeaders = TRUE
  /\ lastHeader = "none"
  /\ tempHeaders = NoHeaders
  /\ lines = 0

\* scanner.Scan() succeeds with a line while Parse is at this point.
Scan(at) ==
  /\ pc = at
  /\ lines < MaxLines
  /\ lines' = lines + 1

\* Outer loop: anything that is not a transaction header is skipped.
SkipOuter(l) ==
  /\ Scan("outer")
  /\ l.tag \notin {"start", "badstart"}
  /\ UNCHANGED <<pc, txs, tx, locals>>

\* Mutant of StartTransaction: the transaction is put into the set at once.
StartStores(l) ==
  /\ Scan("outer")
  /\ l.tag = "start"
  /\ tx' = NewTransaction(l.vxid)
  /\ txs' = [v \in DOMAIN txs \cup {l.vxid} |-> IF v = l.vxid THEN tx' ELSE txs[v]]
  /\ pc' = "begin"
  /\ UNCHANGED locals

\* A transaction header.
StartTransaction(l) ==
  /\ Scan("outer")
  /\ l.tag = "start"
  /\ tx' = NewTransaction(l.vxid)
  /\ pc' = "begin"
  /\ UNCHANGED <<txs, locals>>

BadTransaction(l) ==
  /\ Scan("outer")
  /\ l.tag = "badstart"
  /\ pc' = "failed"
  /\ UNCHANGED <<txs, tx, locals>>

\* The Begin record: the fields it sets, then the locals of the inner loop.
ReadBegin(l) ==
  /\ Scan("begin")
  /\ l.tag = "Begin"
  /\ tx' = [WithRecord(tx, l) EXCEPT !.parent = l.parent]
  /\ clientHeaders' = TRUE
  /\ lastHeader' = "none"
  /\ tempHeaders' = NoHeaders
  /\ pc' = "inner"
  /\ UNCHANGED txs

\* An empty line, a record that does not parse, or another tag.
MissingBegin(l) ==
  /\ Scan("begin")
  /\ l.tag # "Begin"
  /\ pc' = "failed"
  /\ UNCHANGED <<txs, tx, locals>>

\* Inner loop: lines of fewer than two fields are skipped.
SkipShort(l) ==
  /\ Scan("inner")
  /\ l.tag = "short"
  /\ UNCHANGED <<pc, txs, tx, locals>>

BadRecord(l) ==
  /\ Scan("inner")
  /\ l.tag = "malformed"
  /\ pc' = "failed"
  /\ UNCHANGED <<txs, tx, locals>>

\* The inner loop does not look for transaction headers: such a line is a
\* record of an unknown tag.
StoreRecord(l) ==
  /\ Scan("inner")
  /\ l.tag \in {"other", "start", "badstart"}
  /\ tx' = WithRecord(tx, l)
  /\ UNCHANGED <<pc, txs, locals>>

DuplicateBegin(l) ==
  /\ Scan("inner")
  /\ l.tag = "Begin"
  /\ tx' = WithRecord(tx, l)
  /\ pc' = "failed"
  /\ UNCHANGED <<txs, locals>>

\* Mutant of VCLCall: the headers kept aside are merged and not cleared.
VCLCallKeepsTemp(l) ==
  /\ Scan("inner")
  /\ l.tag = "VCL_call"
  /\ clientHeaders' = FALSE
  /\ LET t == WithRecord(tx, l)
     IN  tx' = IF ~clientHeaders \/ lastHeader # "req" THEN t
               ELSE [t EXCEPT !.reqHeaders = MergeTempHeaders(t.reqHeaders, tempHeaders)]
  /\ UNCHANGED <<pc, txs, lastHeader, tempHeaders>>

\* case VCLCallRecord: the first call after the received headers.
VCLCall(l) ==
  /\ Scan("inner")
  /\ l.tag = "VCL_call"
  /\ clientHeaders' = FALSE
  /\ LET t == WithRecord(tx, l)
     IN  IF ~clientHeaders
         THEN tx' = t /\ UNCHANGED tempHeaders
         ELSE /\ tempHeaders' = NoHeaders
              /\ tx' = CASE lastHeader = "none" -> t
                         [] lastHeader = "resp" ->
                              [t EXCEPT !.respHeaders = MergeTempHeaders(t.respHeaders, tempHeaders)]
                         [] lastHeader = "req" ->
                              [t EXCEPT !.reqHeaders = MergeTempHeaders(t.reqHeaders, tempHeaders)]
  /\ UNCHANGED <<pc, txs, lastHeader>>

\* Mutant of Status: a status does not begin another set of received headers.
StatusIgnored(l) ==
  /\ Scan("inner")
  /\ l.tag = "Status"
  /\ tx' = WithRecord(tx, l)
  /\ UNCHANGED <<pc, txs, locals>>

\* case StatusRecord
Status(l) ==
  /\ Scan("inner")
  /\ l.tag = "Status"
  /\ tx' = WithRecord(tx, l)
  /\ clientHeaders' = TRUE
  /\ UNCHANGED <<pc, txs, lastHeader, tempHeaders>>

\* Mutant of Link: a child is added every time.
LinkEveryTime(l) ==
  /\ Scan("inner")
  /\ l.tag = "Link"
  /\ tx' = [WithRecord(tx, l) EXCEPT !.children = Append(tx.children, l.vxid)]
  /\ UNCHANGED <<pc, txs, locals>>

\* case LinkRecord: a child is only added once.
Link(l) ==
  /\ Scan("inner")
  /\ l.tag = "Link"
  /\ tx' = IF \E i \in DOMAIN tx.children : tx.children[i] = l.vxid
           THEN WithRecord(tx, l)
           ELSE [WithRecord(tx, l) EXCEPT !.children = Append(tx.children, l.vxid)]
  /\ UNCHANGED <<pc, txs, locals>>

\* case HeaderRecord
HeaderRecord(l) ==
  /\ Scan("inner")
  /\ l.tag \in HeaderTags
  /\ lastHeader' = IF IsRespTag(l.tag) THEN "resp" ELSE "req"
  /\ LET t == WithRecord(tx, l)
         h == HeadersOf(tx, l.tag)
     IN  IF clientHeaders /\ IsVarnishModifiedHeader(l.name, l.tag)
         THEN /\ tempHeaders' = AddProcessedHeaders(tempHeaders, l.name, l.value)
              /\ tx' = t
         ELSE /\ tx' = WithHeaders(t, l.tag,
                         IF clientHeaders THEN Add(h, l.name, l.value, "Received")
                         ELSE AddProcessedHeaders(h, l.name, l.value))
              /\ UNCHANGED tempHeaders
  /\ UNCHANGED <<pc, txs, clientHeaders>>

\* Mutant of HeaderUnset: the value Varnish's own code removes is not kept.
UnsetNotReceived(l) ==
  /\ Scan("inner")
  /\ l.tag \in UnsetTags
  /\ tx' = WithHeaders(WithRecord(tx, l), l.tag, Delete(HeadersOf(tx, l.tag), l.name))
  /\ tempHeaders' = Delete(tempHeaders, l.name)
  /\ UNCHANGED <<pc, txs, clientHeaders, lastHeader>>

\* Mutant of HeaderUnset: only the headers of the transaction are deleted.
UnsetNotTemp(l) ==
  /\ Scan("inner")
  /\ l.tag \in UnsetTags
  /\ tx' = WithHeaders(WithRecord(tx, l), l.tag, Delete(HeadersOf(tx, l.tag), l.name))
  /\ tempHeaders' = IF clientHeaders /\ IsVarnishModifiedHeader(l.name, l.tag)
                    THEN Add(tempHeaders, l.name, l.value, "Received")
                    ELSE tempHeaders
  /\ UNCHANGED <<pc, txs, clientHeaders, lastHeader>>

\* case HeaderUnsetRecord: both maps lose the header, whatever the tag.
HeaderUnset(l) ==
  /\ Scan("inner")
  /\ l.tag \in UnsetTags
  /\ tx' = WithHeaders(WithRecord(tx, l), l.tag, Delete(HeadersOf(tx, l.tag), l.name))
  /\ tempHeaders' =
       Delete(IF clientHeaders /\ IsVarnishModifiedHeader(l.name, l.tag)
              THEN Add(tempHeaders, l.name, l.value, "Received")
              ELSE tempHeaders,
              l.name)
  /\ UNCHANGED <<pc, txs, clientHeaders, lastHeader>>

\* The End record: ts.txs[tx.VXID] = tx, and back to the outer loop.
End(l) ==
  /\ Scan("inner")
  /\ l.tag = "End"
  /\ LET t == WithRecord(tx, l)
     IN  /\ tx' = t
         /\ txs' = [v \in DOMAIN txs \cup {tx.vxid} |-> IF v = tx.vxid THEN t ELSE txs[v]]
  /\ pc' = "outer"
  /\ UNCHANGED locals

\* Mutant of EndOfInput: a transaction that is cut off is not noticed.
EndOfInputAnywhere ==
  /\ pc \in {"outer", "begin", "inner"}
  /\ pc' = "done"
  /\ UNCHANGED <<txs, tx, locals, lines>>

\* Scan() returns false at the end of the input: an error inside a transaction.
EndOfInput ==
  /\ pc \in {"outer", "begin", "inner"}
  /\ pc' = IF pc = "outer" THEN "done" ELSE "failed"
  /\ UNCHANGED <<txs, tx, locals, lines>>

\* Scan() returns false with scanner.Err() set (a line too long, a read error).
ScanError ==
  /\ pc \in {"outer", "begin", "inner"}
  /\ pc' = "failed"
  /\ UNCHANGED <<txs, tx, locals, lines>>

ReadLine(l) ==
  \/ SkipOuter(l) \/ StartTransaction(l) \/ BadTransaction(l)
  \/ ReadBegin(l) \/ MissingBegin(l)
  \/ SkipShort(l) \/ BadRecord(l) \/ StoreRecord(l) \/ DuplicateBegin(l)
  \/ VCLCall(l) \/ Status(l) \/ Link(l) \/ HeaderRecord(l) \/ HeaderUnset(l) \/ End(l)

Next ==
  \/ \E l \in Lines : ReadLine(l)
  \/ EndOfInput
  \/ ScanError

Spec == Init /\ [][Next]_vars

-----------------------------------------------------------------------------
Records == {ProcessRecord(l) : l \in Lines}

TxType == [vxid : VXIDs \cup {0}, parent : VXIDs \cup {0}, records : Seq(Records),
           children : Seq(VXIDs), reqHeaders : HeadersType, respHeaders : HeadersType]

\* Type invariant: what Parse's locals and the set it builds may hold.
TypeOK ==
  /\ pc \in {"outer", "begin", "inner", "done", "failed"}
  /\ \E stored \in SUBSET VXIDs : txs \in [stored -> TxType]
  /\ tx \in TxType
  /\ pc \in {"begin", "inner"} => tx.vxid \in VXIDs
  /\ clientHeaders \in BOOLEAN
  /\ lastHeader \in {"none", "req", "resp"}
  /\ tempHeaders \in HeadersType
  /\ lines \in 0..MaxLines

\* The links of a transaction and the list SortedChildren and the renderers
\* follow agree: every Link record's target is a child, every child has a Link
\* record, no child is there twice.
ChildrenAreLinks(t) ==
  /\ \A i \in DOMAIN t.records : t.records[i].tag = "Link" =>
       \E c \in DOMAIN t.children : t.children[c] = t.records[i].vxid
  /\ \A c \in DOMAIN t.children : \E i \in DOMAIN t.records :
       t.records[i].tag = "Link" /\ t.records[i].vxid = t.children[c]
  /\ \A c, d \in DOMAIN t.children : t.children[c] = t.children[d] => c = d

\* The records of a transaction that is being read: the Begin record, whose
\* parent it has, and then records that are neither Begin nor End.
FramedByBegin(t) ==
  /\ t.records # <<>>
  /\ t.records[1].tag = "Begin" /\ t.records[1].parent = t.parent
  /\ \A i \in 2..Len(t.records) : t.records[i].tag # "Begin"

\* A transaction that was read to its end: from its only Begin record to its only
\* End record, with the targets of its Link records for children.
Whole(t) ==
  /\ FramedByBegin(t)
  /\ \A i \in DOMAIN t.records : t.records[i].tag = "End" <=> i = Len(t.records)
  /\ ChildrenAreLinks(t)

\* Parse only hands out whole transactions, also when it fails half way
\* through the log: every transaction of the set is stored under its own VXID,
\* runs from its only Begin record to its only End record, and its children are
\* exactly the targets of its Link records (parser.go, 54-84, 126-137, 199-214).
StoredAreComplete == \A v \in DOMAIN txs : txs[v].vxid = v /\ Whole(txs[v])

\* Headers Varnish may have changed are only kept aside until the first VCL
\* call: while VCL runs there are none, so nothing of one phase is merged into
\* the headers of a later one (parser.go, 104-124, 158-193).
NoTempAfterVCLCall == pc = "inner" /\ ~clientHeaders => tempHeaders = NoHeaders

\* A header's values are what the renderers rely on in every map: a header
\* that is there, and no other, has one, the deleted ones come first, only the first can be
\* Modified; and the ids that order the headers are 1..n without a gap or a
\* repetition (header.go, 123-180; parser.go, 369-384).
HeadersWellFormed(h) ==
  /\ \A n \in Names : WellFormedValues(h[n].values)
  /\ \A n \in Names : n \in Present(h) <=> h[n].values # <<>>
  /\ {h[n].id : n \in Present(h)} = 1..Cardinality(Present(h))

AllHeadersWellFormed ==
  /\ HeadersWellFormed(tx.reqHeaders)
  /\ HeadersWellFormed(tx.respHeaders)
  /\ HeadersWellFormed(tempHeaders)

\* clientHeaders before record i: no VCL call since the start or the last status.
InClientPhase(records, i) ==
  \A j \in 1..(i - 1) : records[j].tag = "VCL_call" =>
    \E k \in (j + 1)..(i - 1) : records[k].tag = "Status"

\* Where the header records of n, on the side resp says, are that were read as received.
ReceivedRecords(records, n, resp) ==
  {i \in DOMAIN records : /\ records[i].tag \in HeaderTags
                          /\ IsRespTag(records[i].tag) = resp
                          /\ records[i].name = n
                          /\ InClientPhase(records, i)}

\* received holds the values of these records, each one once and in their order.
AsLogged(records, received, n, resp) ==
  LET logged == ReceivedRecords(records, n, resp)
  IN  /\ Len(received) = Cardinality(logged)
      /\ \A i \in logged :
           received[Cardinality({j \in logged : j <= i})] = records[i].value

\* For a name Varnish does not change itself, the received values are those of
\* the header records before the first VCL call and between a status and the
\* next VCL call, all of them, in the order of the log (parser.go, 158-168).
ReceivedAsLogged ==
  \A n \in Names \ VarnishModified :
    /\ AsLogged(tx.records, tx.reqHeaders[n].receivedValues, n, FALSE)
    /\ AsLogged(tx.records, tx.respHeaders[n].receivedValues, n, TRUE)

\* s is an initial part of t.
StartsWith(t, s) == Len(s) <= Len(t) /\ \A i \in DOMAIN s : t[i] = s[i]

\* While a transaction is read, its received values are never changed nor
\* removed, not even by an unset, and nothing is received while VCL runs: the
\* map only grows by a record read as received or by the merge at the first
\* VCL call ("The receivedValues slice is immutable", header.go, 174).
ReceivedOnlyGrow(h, g) ==
  \A n \in Names :
    /\ StartsWith(g[n].receivedValues, h[n].receivedValues)
    /\ ~clientHeaders => g[n].receivedValues = h[n].receivedValues

ReceivedAreImmutable ==
  [][pc = "inner" =>
       /\ ReceivedOnlyGrow(tx.reqHeaders, tx'.reqHeaders)
       /\ ReceivedOnlyGrow(tx.respHeaders, tx'.respHeaders)]_vars

\* The set changes only by an End record, and only at the transaction that is read: a
\* step that puts a transaction into the set, under a new VXID or in place of another
\* one, has just read its End record, and the transaction is whole with it.  Starting
\* a transaction, reading on, or failing neither adds nor replaces one, and nothing
\* takes one away (parser.go, 54-69, 199-214).
StoredOnlyByEnd ==
  [][/\ DOMAIN txs \subseteq DOMAIN txs'
     /\ \A v \in DOMAIN txs' :
          \/ v \in DOMAIN txs /\ txs'[v] = txs[v]
          \/ /\ pc = "inner" /\ v = tx.vxid
             /\ Len(txs'[v].records) = Len(tx.records) + 1
             /\ txs'[v].records[Len(txs'[v].records)].tag = "End"
             /\ Whole(txs'[v])]_vars

\* Parse as a whole: it starts a transaction, stores it when it is complete or fails,
\* and the end of the input is only a success between two transactions
\* (parser.go, 31-38, 195-222).
Parsed == INSTANCE ParsedLog
  WITH set <- txs,
       reading <- IF pc \in {"begin", "inner"} THEN {tx.vxid} ELSE {},
       result <- IF pc \in {"done", "failed"} THEN pc ELSE "none"

ImplementsParsedLog == Parsed!Spec

=============================================================================
