---------------------------- MODULE SequenceView ----------------------------
(***************************************************************************)
(* The steps addTransactionLogs of render/sequence.go draws for the        *)
(* records of one transaction, one action for each case of its switch.     *)
(* The walk to the child transactions and the sections are in LinkWalk:    *)
(* here a Link record adds the step of a child that is missing, or none.   *)
(***************************************************************************)
EXTENDS Naturals, Sequences

CONSTANTS
  Configs,  \* the SequenceConfig options that may be chosen
  BadHosts  \* the Host headers with a colon that ParseBackend rejects, such as
            \* an IPv6 address without a port (RequestBuilder tells which)

NoRecord == [tag |-> "none", value |-> "none"]

VARIABLES
  records,  \* tx.Records: [tag |-> ..., value |-> ...]
  txtype,   \* tx.TXType, "req" or "bereq"
  cfg,      \* options: a set of "calls", "returns", "logs", "track"
  index,    \* i, the record the loop is at; 0 before the loop
  steps,    \* the steps that were added: [kind |-> ..., shows |-> ...]
  reqReceived,  \* the request as it was received: <<method, URL>>
  reqProcessed  \* the request as VCL left it

drawVars == <<index, steps, reqReceived, reqProcessed>>

-----------------------------------------------------------------------------
Indexes(tag) == {j \in DOMAIN records : records[j].tag = tag}

\* Mutant of LastRecordByTag: the first record from the start.
LastRecordFromStart(tag, i) ==
  LET found == {j \in Indexes(tag) : j <= i}
  IN IF found = {} THEN NoRecord
     ELSE records[CHOOSE j \in found : \A k \in found : k >= j]

\* Backwards from i, that record included.
LastRecordByTag(tag, i) ==
  LET found == {j \in Indexes(tag) : j <= i}
  IN IF found = {} THEN NoRecord
     ELSE records[CHOOSE j \in found : \A k \in found : k <= j]

\* Forwards from i, that record excluded.
NextRecordByTag(tag, i) ==
  LET found == {j \in Indexes(tag) : j > i}
  IN IF found = {} THEN NoRecord
     ELSE records[CHOOSE j \in found : \A k \in found : k >= j]

\* Mutant of RecordValueByTag: always the last one.
RecordValueAlwaysLast(tag, first) == LastRecordByTag(tag, Len(records)).value

RecordValueByTag(tag, first) ==
  IF first THEN NextRecordByTag(tag, 0).value ELSE LastRecordByTag(tag, Len(records)).value

\* tx.ReqHeaders.Get("host", received).  Of the received values it is the first one: the
\* first Host of a log whose request has one.  Otherwise Host has one value, the last one
\* that was logged, which an unset leaves there.
GetHost(received) ==
  IF received THEN NextRecordByTag("Host", 0).value
  ELSE LastRecordByTag("Host", Len(records)).value

\* The zero value of HTTPRequest: no method and no URL.
EmptyRequest == <<"", "">>

\* Mutant of NewHTTPRequestFails: the Host header VCL left decides for both requests.
FailsForProcessed(received) == GetHost(FALSE) \in BadHosts

\* The error of NewHTTPRequest: ParseBackend finds no host and port in Host.
NewHTTPRequestFails(received) == GetHost(received) \in BadHosts

\* The method and URL of NewHTTPRequest; the headers are in ParseRoundTrip.
NewHTTPRequest(received) ==
  IF txtype = "req"
  THEN <<RecordValueByTag("ReqMethod", received), RecordValueByTag("ReqURL", received)>>
  ELSE <<RecordValueByTag("BereqMethod", received), RecordValueByTag("BereqURL", received)>>

getLastHitRecord(i) ==
  LET tags == <<"Hit", "HitMiss", "HitPass">>
      found == {n \in DOMAIN tags : LastRecordByTag(tags[n], i) # NoRecord}
  IN IF found = {} THEN NoRecord
     ELSE LastRecordByTag(tags[CHOOSE n \in found : \A m \in found : n <= m], i)

Step(kind, shows) == <<[kind |-> kind, shows |-> shows]>>

\* A step that is there only with an option of the form.
Option(option, kind, value) == IF option \in cfg THEN Step(kind, value) ELSE << >>

Answer(status, reason) == <<status.value, reason.value>>

-----------------------------------------------------------------------------
Record == records[index]

At(tag) == index \in DOMAIN records /\ Record.tag = tag

\* The steps of this record, and on to the next one.
Draw(added) ==
  /\ steps' = steps \o added
  /\ index' = index + 1
  /\ UNCHANGED <<reqReceived, reqProcessed>>

\* An empty request takes the place of one that NewHTTPRequest fails for.
RequestToDraw(received) ==
  IF NewHTTPRequestFails(received) THEN EmptyRequest ELSE NewHTTPRequest(received)

\* Both requests are made before the loop.
StartDrawing ==
  /\ index = 0
  /\ reqReceived' = RequestToDraw(TRUE)
  /\ reqProcessed' = RequestToDraw(FALSE)
  /\ index' = 1
  /\ UNCHANGED steps

Call(added) == At("VCL_call") /\ Draw(Option("calls", "call", Record.value) \o added)

DrawRecv ==
  /\ Call(Step("RECV", reqReceived))
  /\ Record.value = "RECV"

\* HASH, MISS and PASS are steps of their name.
DrawLookup ==
  /\ Call(Step("lookup", Record.value))
  /\ Record.value \in {"HASH", "MISS", "PASS"}

DrawHit ==
  /\ Call(Step("HIT", getLastHitRecord(index).value))
  /\ Record.value = "HIT"

DrawSynth ==
  /\ Call(Step("SYNTH", Answer(LastRecordByTag("RespStatus", index),
                               LastRecordByTag("RespReason", index))))
  /\ Record.value = "SYNTH"

DrawPipe ==
  /\ Call(Step("pipe", "open") \o Step("pipe", "forward"))
  /\ Record.value = "PIPE"

DrawBackendFetch ==
  /\ Call(Step("BACKEND_FETCH", reqProcessed))
  /\ Record.value = "BACKEND_FETCH"

\* BACKEND_RESPONSE waits for the return; DELIVER and the others have no step.
DrawOtherCall ==
  /\ Call(<< >>)
  /\ Record.value \notin {"RECV", "HASH", "MISS", "PASS", "HIT", "SYNTH", "PIPE", "BACKEND_FETCH"}

Return(added) == At("VCL_return") /\ Draw(Option("returns", "return", Record.value) \o added)

\* Mutant of Delivered: without the status after the return.
DeliveredOnce(i) ==
  LET status == LastRecordByTag("RespStatus", i)
  IN IF status = NoRecord THEN << >>
     ELSE Step("DELIVER", Answer(status, LastRecordByTag("RespReason", i)))

\* Mutant of Delivered: the reason before the return for the status after it.
DeliveredStaleReason(i) ==
  LET later == NextRecordByTag("RespStatus", i)
  IN DeliveredOnce(i)
     \o (IF later = NoRecord THEN << >>
         ELSE Step("DELIVER", Answer(later, LastRecordByTag("RespReason", i))))

\* The status so far, if there is one (not before a hit is delivered), and then the
\* next one, which partial content (206) has after the return.
Delivered(i) ==
  LET status == LastRecordByTag("RespStatus", i)
      later == NextRecordByTag("RespStatus", i)
  IN (IF status = NoRecord THEN << >>
      ELSE Step("DELIVER", Answer(status, LastRecordByTag("RespReason", i))))
     \o (IF later = NoRecord THEN << >>
         ELSE Step("DELIVER", Answer(later, NextRecordByTag("RespReason", i))))

DrawDeliver ==
  /\ Return(Delivered(index))
  /\ Record.value = "deliver"
  /\ txtype = "req"

DrawBackendResponse ==
  /\ Return(Step("BACKEND_RESPONSE", Answer(LastRecordByTag("BerespStatus", index),
                                            LastRecordByTag("BerespReason", index))))
  /\ Record.value = "deliver"
  /\ txtype = "bereq"

DrawOtherReturn ==
  /\ Return(<< >>)
  /\ Record.value # "deliver"

DrawBackend ==
  /\ index \in DOMAIN records
  /\ Record.tag \in {"BackendOpen", "BackendClose", "BackendReuse", "FetchError"}
  /\ Draw(Step(Record.tag, Record.value))

\* A URL, or a header of the name Host.
DrawTracked ==
  /\ index \in DOMAIN records
  /\ Record.tag \in {"ReqURL", "BereqURL", "Host"}
  /\ Draw(Option("track", "URL", Record.value))

DrawVCLLog ==
  /\ At("VCL_Log")
  /\ Draw(Option("logs", "log", Record.value))

\* A child that is not in the set; LinkWalk follows the others.
DrawLink ==
  /\ At("Link")
  /\ Draw(IF Record.value = "missing" THEN Step("missing", Record.value) ELSE << >>)

SkipRecord ==
  /\ index \in DOMAIN records
  /\ Record.tag \notin {"VCL_call", "VCL_return", "BackendOpen", "BackendClose", "BackendReuse",
                        "FetchError", "ReqURL", "BereqURL", "Host", "VCL_Log", "Link"}
  /\ Draw(<< >>)

DrawNext ==
  \/ StartDrawing \/ DrawRecv \/ DrawLookup \/ DrawHit \/ DrawSynth \/ DrawPipe
  \/ DrawBackendFetch \/ DrawOtherCall \/ DrawDeliver \/ DrawBackendResponse \/ DrawOtherReturn
  \/ DrawBackend \/ DrawTracked \/ DrawVCLLog \/ DrawLink \/ SkipRecord

Drawn == index = Len(records) + 1
=============================================================================
