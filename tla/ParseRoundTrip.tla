--------------------------- MODULE ParseRoundTrip ----------------------------
(***************************************************************************)
(* The parser composed with the program whose log it reads.  A Varnish     *)
(* worker handles one client or backend request and logs every change of   *)
(* its headers (external: what varnishd logs, as parser.go 139-168 and     *)
(* 353-368 and the logs of assets/examples show it); the parser reads each *)
(* line as it is logged.  The headers Varnish really has are the ground    *)
(* truth the parser's reconstruction is compared with.                     *)
(***************************************************************************)
EXTENDS TransactionParser

CONSTANTS
  ReceivedValues,    \* values a client or a backend may send
  SetValues,         \* values Varnish may set
  RepeatedCoreNames, \* may a client repeat a header Varnish changes itself
  VCLSetsStatus      \* may VCL set resp.status

Sides == {"req", "resp"}

\* The lines the worker below writes, whatever its kind.
WorkerLines ==
  [tag : {"start"}, vxid : {1}] \cup [tag : {"Begin"}, parent : {0}]
    \cup [tag : {"VCL_call", "Status", "End"}]
    \cup [tag : {"ReqHeader", "RespHeader", "BereqHeader", "BerespHeader",
                 "ReqUnset", "RespUnset", "BereqUnset", "BerespUnset"},
          name : Names, value : ReceivedValues \cup SetValues]

ASSUME WorkerAssumption == WorkerLines \subseteq Lines

VARIABLES
  kind,     \* "client" or "backend" request
  phase,    \* what the worker does next
  removing, \* the header being unset, one log line for each of its values
  sent,     \* [side -> [name -> values]]: as received, before Varnish and VCL
  live,     \* the values Varnish has now
  origin,   \* where the present or last value of a header comes from
  replaced  \* received headers the worker's own code removed or replaced

writer == <<kind, phase, removing, sent, live, origin, replaced>>
allVars == <<vars, writer>>

HeaderTag(side) ==
  IF kind = "client" THEN IF side = "req" THEN "ReqHeader" ELSE "RespHeader"
  ELSE IF side = "req" THEN "BereqHeader" ELSE "BerespHeader"

UnsetTag(side) ==
  IF kind = "client" THEN IF side = "req" THEN "ReqUnset" ELSE "RespUnset"
  ELSE IF side = "req" THEN "BereqUnset" ELSE "BerespUnset"

\* Names the worker's own code changes before the first VCL call.
CoreName(side, n) == kind = "client" /\ side = "req" /\ n \in VarnishModified

WriterInit ==
  /\ Init
  /\ kind \in {"client", "backend"}
  /\ phase = "start"
  /\ removing = <<>>
  /\ sent = [s \in Sides |-> [n \in Names |-> <<>>]]
  /\ live = sent
  /\ origin = [s \in Sides |-> [n \in Names |-> "none"]]
  /\ replaced = {}

Log(l) == ReadLine(l)

LogStart ==
  /\ phase = "start"
  /\ Log([tag |-> "start", vxid |-> 1])
  /\ phase' = "begin"
  /\ UNCHANGED <<kind, removing, sent, live, origin, replaced>>

LogBegin ==
  /\ phase = "begin"
  /\ Log([tag |-> "Begin", parent |-> 0])
  /\ phase' = "recv"
  /\ UNCHANGED <<kind, removing, sent, live, origin, replaced>>

\* A header of the request, or of the response before VCL sees it.
Receive(side, n, v) ==
  /\ phase = IF side = "req" THEN "recv" ELSE "resp"
  /\ sent[side][n] # <<>> =>
       n # HdrNameHost /\ (CoreName(side, n) => RepeatedCoreNames)
  /\ Log([tag |-> HeaderTag(side), name |-> n, value |-> v])
  /\ sent' = [sent EXCEPT ![side][n] = Append(@, v)]
  /\ live' = [live EXCEPT ![side][n] = Append(@, v)]
  /\ origin' = [origin EXCEPT ![side][n] = "received"]
  /\ UNCHANGED <<kind, phase, removing, replaced>>

\* Varnish removes a header value by value.
RemoveValue(side, n) ==
  /\ live[side][n] # <<>>
  /\ removing \in {<<>>, <<side, n>>}
  /\ Log([tag |-> UnsetTag(side), name |-> n, value |-> Head(live[side][n])])
  /\ live' = [live EXCEPT ![side][n] = Tail(@)]
  /\ removing' = IF Tail(live[side][n]) = <<>> THEN <<>> ELSE <<side, n>>
  /\ UNCHANGED <<kind, sent, origin>>

\* It sets one that is not there; a set of a header that is there is both.
SetValue(side, n, v) ==
  /\ live[side][n] = <<>>
  /\ removing = <<>>
  /\ Log([tag |-> HeaderTag(side), name |-> n, value |-> v])
  /\ live' = [live EXCEPT ![side][n] = <<v>>]
  /\ origin' = [origin EXCEPT ![side][n] = IF @ = "none" THEN "first" ELSE "again"]
  /\ UNCHANGED <<kind, removing, sent>>

\* The worker's own changes, after the request headers and before VCL: it only
\* removes what the client sent.
CoreUnset(n) ==
  /\ phase \in {"recv", "core"} /\ CoreName("req", n)
  /\ origin["req"][n] = "received"
  /\ RemoveValue("req", n)
  /\ phase' = "core"
  /\ replaced' = replaced \cup {n}

CoreSet(n, v) ==
  /\ phase \in {"recv", "core"} /\ CoreName("req", n)
  /\ SetValue("req", n, v)
  /\ phase' = "core"
  /\ UNCHANGED replaced

CallVCL ==
  /\ phase \in {"recv", "core", "vcl", "resp", "vclresp"}
  /\ removing = <<>>
  /\ Log([tag |-> "VCL_call"])
  /\ phase' = IF phase \in {"resp", "vclresp"} THEN "vclresp" ELSE "vcl"
  /\ UNCHANGED <<kind, removing, sent, live, origin, replaced>>

\* VCL changes the request, and the response once there is one.
InVCL(side) == phase \in IF side = "req" THEN {"vcl", "vclresp"} ELSE {"vclresp"}

VCLUnset(side, n) == InVCL(side) /\ RemoveValue(side, n) /\ UNCHANGED <<phase, replaced>>

VCLSet(side, n, v) ==
  /\ InVCL(side)
  /\ SetValue(side, n, v)
  /\ UNCHANGED <<phase, replaced>>

\* The status of the response the worker is about to log; a set resp.status in
\* VCL is logged with the same tag.
LogStatus ==
  /\ phase = "vcl" \/ (VCLSetsStatus /\ phase = "vclresp")
  /\ removing = <<>>
  /\ Log([tag |-> "Status"])
  /\ phase' = IF phase = "vcl" THEN "resp" ELSE phase
  /\ UNCHANGED <<kind, removing, sent, live, origin, replaced>>

LogEnd ==
  /\ phase \in {"vcl", "vclresp"} /\ removing = <<>>
  /\ Log([tag |-> "End"])
  /\ phase' = "ended"
  /\ UNCHANGED <<kind, removing, sent, live, origin, replaced>>

WriterNext ==
  \/ LogStart \/ LogBegin \/ CallVCL \/ LogStatus \/ LogEnd
  \/ \E n \in Names :
       \/ CoreUnset(n)
       \/ \E v \in SetValues : CoreSet(n, v)
       \/ \E side \in Sides :
            \/ \E v \in ReceivedValues : Receive(side, n, v)
            \/ VCLUnset(side, n)
            \/ \E v \in SetValues : VCLSet(side, n, v)

WriterSpec == WriterInit /\ [][WriterNext]_allVars

-----------------------------------------------------------------------------
ParsedHeader(side, n) == IF side = "req" THEN tx.reqHeaders[n] ELSE tx.respHeaders[n]

Texts(values) == [i \in DOMAIN values |-> values[i].value]

\* Headers.Get: the first value of a header, whatever its state.
FirstValue(h, received) ==
  LET values == IF received THEN h.receivedValues ELSE Texts(h.values)
  IN  IF values = <<>> THEN Empty ELSE Head(values)

\* Mutant of NewHTTPRequest: deleted values are sent as well.
NewHTTPRequestWithDeleted(received) ==
  [host    |-> FirstValue(tx.reqHeaders[HdrNameHost], received),
   headers |-> [n \in Names \ {HdrNameHost} |->
                  IF received THEN tx.reqHeaders[n].receivedValues
                  ELSE Texts(tx.reqHeaders[n].values)]]

\* The loop over the values of a header: those that are not deleted.
NotDeleted(values) ==
  LET kept[i \in 0..Len(values)] ==
        IF i = 0 THEN <<>>
        ELSE IF values[i].state = "Deleted" THEN kept[i - 1]
        ELSE Append(kept[i - 1], values[i].value)
  IN  kept[Len(values)]

\* NewHTTPRequest with no header excluded: the Host in whatever state, and the
\* values of the other headers that are not deleted.
NewHTTPRequest(received) ==
  [host    |-> FirstValue(tx.reqHeaders[HdrNameHost], received),
   headers |-> [n \in Names \ {HdrNameHost} |->
                  IF received THEN tx.reqHeaders[n].receivedValues
                  ELSE NotDeleted(tx.reqHeaders[n].values)]]

-----------------------------------------------------------------------------
\* The request headers are parsed once the first VCL call is; a header is only
\* compared between two changes of the worker.
Settled == removing = <<>> /\ phase \in {"vcl", "resp", "vclresp", "ended"}

\* What the page shows as the headers after VCL is what Varnish has: the values
\* that are not deleted are exactly the live ones, in order, whatever was
\* received, changed by Varnish's own code, unset and set again ("it adds all
\* the headers that have not been deleted, at the end it should only contain
\* real client headers", parser.go, 354).
EffectiveHeaders ==
  Settled => \A side \in Sides, n \in Names :
    Texts(Live(ParsedHeader(side, n).values)) = live[side][n]

\* The received headers are those that were sent, also when Varnish's own code
\* replaced or removed one before any VCL ran ("all unsets of headers ... that
\* happen before a VCL_call are client-sent/received headers", parser.go, 145).
\* A header of that kind that it left alone is not among them.
ReceivedAreSent ==
  Settled => \A side \in Sides, n \in Names :
    ParsedHeader(side, n).receivedValues =
      IF CoreName(side, n) /\ n \notin replaced THEN <<>> ELSE sent[side][n]

\* The request that is built to be sent again is the one Varnish received, or
\* the one it had after VCL ("initial (received) headers are used; otherwise,
\* headers after VCL processing", httpmodel.go, 28).  A received header Varnish
\* may change itself and left alone is not sent, and a Host that VCL unset is.
RequestIsReplayed ==
  Settled =>
    /\ live["req"][HdrNameHost] # <<>> =>
         NewHTTPRequest(FALSE).host = live["req"][HdrNameHost][1]
    /\ sent["req"][HdrNameHost] # <<>> =>
         NewHTTPRequest(TRUE).host = sent["req"][HdrNameHost][1]
    /\ \A n \in Names \ {HdrNameHost} :
         /\ NewHTTPRequest(FALSE).headers[n] = live["req"][n]
         /\ (CoreName("req", n) => n \in replaced) =>
              NewHTTPRequest(TRUE).headers[n] = sent["req"][n]

\* The state of a live value tells where it comes from: Received as it was
\* received, Added when the header never had a value before, Modified when it
\* had one (the states of header.go, 21-26).  Headers Varnish may change itself
\* and did not change count as added.
StatesTellOrigin ==
  Settled => \A side \in Sides, n \in Names :
    \A i \in DOMAIN live[side][n] :
      Live(ParsedHeader(side, n).values)[i].state =
        CASE origin[side][n] = "first" -> "Added"
          [] origin[side][n] = "again" -> "Modified"
          [] origin[side][n] = "received" -> IF CoreName(side, n) THEN "Added" ELSE "Received"

\* "Headers present before any VCL processing, as originally received"
\* (headers_view.html, 19): a Received value was received.
ReceivedWasSent ==
  Settled => \A side \in Sides, n \in Names :
    \A i \in DOMAIN ParsedHeader(side, n).receivedValues :
      \E j \in DOMAIN sent[side][n] :
        sent[side][n][j] = ParsedHeader(side, n).receivedValues[i]

=============================================================================
