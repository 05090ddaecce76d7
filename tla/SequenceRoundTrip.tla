-------------------------- MODULE SequenceRoundTrip --------------------------
(***************************************************************************)
(* A Varnish worker handles one request, of a client or to a backend, and  *)
(* logs what it does; then SequenceView draws the log.  The worker is      *)
(* external: its states and the records of each are those of the logs in   *)
(* assets/examples (a hit, a pass, a synthetic answer, a restart, a retry).*)
(* What really happened is kept beside the log and compared with the steps.*)
(***************************************************************************)
EXTENDS SequenceView

CONSTANTS
  Requests,  \* <<method, URL, Host>>
  Answers    \* <<status, reason>> a backend, a cached object or VCL may give

ASSUME RequestsAssumption == \A r \in Requests : r = <<r[1], r[2], r[3]>>

ASSUME AnswersAssumption == \A a \in Answers : a = <<a[1], a[2]>>

NoAnswer == <<"none", "none">>
OK       == <<"200", "OK">>
Partial  == <<"206", "Partial Content">>

VARIABLES
  at,       \* where the worker is; "end" when the log is complete
  request,  \* the request as it is now
  answer,   \* the response as it is now: resp, or beresp
  truth     \* what happened: requests received and sent, the object that was hit, the
            \* answer a synth was entered with, the answers resp had around VCL calls,
            \* the one the client got, and the one a backend object was made of

workerVars == <<at, request, answer, truth>>
vars ==
  <<records, txtype, cfg, index, steps, reqReceived, reqProcessed, at, request, answer, truth>>

-----------------------------------------------------------------------------
R(tag, value) == <<[tag |-> tag, value |-> value]>>

VCL(sub, changes, result) == R("VCL_call", sub) \o changes \o R("VCL_return", result)

AnswerRecords(a) ==
  IF txtype = "req" THEN R("RespStatus", a[1]) \o R("RespReason", a[2])
  ELSE R("BerespStatus", a[1]) \o R("BerespReason", a[2])

ReasonRecord(a) == R(IF txtype = "req" THEN "RespReason" ELSE "BerespReason", a[2])

URLRecord(r) == R(IF txtype = "req" THEN "ReqURL" ELSE "BereqURL", r[2])

HostRecord(r) == R("Host", r[3])

\* VCL sets what of the request becomes that of r: the URL, the Host header or both.
\* The unset a set of Host is logged with is left out: the view skips it.
Rewrite(r) ==
  (IF r[2] = request[2] THEN << >> ELSE URLRecord(r))
    \o (IF r[3] = request[3] THEN << >> ELSE HostRecord(r))

\* What VCL may do to a response: nothing, set its status, set its reason.
Changes ==
  {[to |-> answer, by |-> << >>]}
    \cup {[to |-> a, by |-> AnswerRecords(a)] : a \in Answers}
    \cup {[to |-> <<answer[1], a[2]>>, by |-> ReasonRecord(a)] : a \in Answers}

Log(more) == records' = records \o more

Init ==
  /\ records = << >> /\ txtype \in {"req", "bereq"} /\ cfg \in Configs
  /\ index = 0 /\ steps = << >>
  /\ reqReceived = EmptyRequest /\ reqProcessed = EmptyRequest
  /\ at = "start" /\ request \in Requests /\ answer = NoAnswer
  /\ truth = [received |-> request, sent |-> request, hit |-> "none", synth |-> NoAnswer,
              had |-> {}, got |-> NoAnswer, object |-> NoAnswer]

Start ==
  /\ at = "start"
  /\ Log(R("Begin", txtype)
         \o R(IF txtype = "req" THEN "ReqMethod" ELSE "BereqMethod", request[1])
         \o URLRecord(request) \o HostRecord(request))
  /\ at' = IF txtype = "req" THEN "recv" ELSE "fetch"
  /\ UNCHANGED <<request, answer, truth>>

\* vcl_recv may change the URL and the Host header, vcl_hash runs after every return but restart.
Recv ==
  /\ at = "recv"
  /\ \E r \in {q \in Requests : q[1] = request[1]}, result \in {"hash", "pass", "synth", "pipe"} :
       /\ Log(VCL("RECV", IF r = request THEN R("VCL_Log", "text") ELSE Rewrite(r), result)
              \o VCL("HASH", << >>, "lookup"))
       /\ request' = r
       /\ at' = result
  /\ UNCHANGED <<answer, truth>>

Pipe ==
  /\ at = "pipe"
  /\ Log(VCL("PIPE", << >>, "pipe") \o R("End", ""))
  /\ at' = "end"
  /\ UNCHANGED <<request, answer, truth>>

Hit ==
  /\ at = "hit"
  /\ \E object \in {"cached", "streaming"}, result \in {"deliver", "pass", "synth"} :
       /\ Log(R("Hit", object) \o VCL("HIT", << >>, result))
       /\ truth' = [truth EXCEPT !.hit = object]
       /\ at' = IF result = "deliver" THEN "respond" ELSE result
  /\ UNCHANGED <<request, answer>>

\* A plain miss, or one that was hit for a miss.
Miss ==
  /\ at = "hit"
  /\ \E found \in {<< >>, R("HitMiss", "object")}, result \in {"fetch", "pass", "synth"} :
       /\ Log(found \o VCL("MISS", << >>, result))
       /\ at' = IF result = "fetch" THEN "wait" ELSE result
  /\ UNCHANGED <<request, answer, truth>>

HitForPass ==
  /\ at = "hit"
  /\ Log(R("HitPass", "object"))
  /\ at' = "pass"
  /\ UNCHANGED <<request, answer, truth>>

Lookup ==
  /\ at = "hash"
  /\ at' = "hit"
  /\ UNCHANGED <<records, request, answer, truth>>

Pass ==
  /\ at = "pass"
  /\ \E result \in {"fetch", "synth"} :
       /\ Log(VCL("PASS", << >>, result))
       /\ at' = IF result = "fetch" THEN "wait" ELSE result
  /\ UNCHANGED <<request, answer, truth>>

\* The backend request is another transaction; it may be missing from the log.
Wait ==
  /\ at = "wait"
  /\ \E child \in {"child", "missing"} : Log(R("Link", child))
  /\ at' = "respond"
  /\ UNCHANGED <<request, answer, truth>>

Respond ==
  /\ at = "respond"
  /\ \E a \in Answers : Log(AnswerRecords(a)) /\ answer' = a
  /\ at' = "deliver"
  /\ UNCHANGED <<request, truth>>

Deliver ==
  /\ at = "deliver"
  /\ \E change \in Changes, result \in {"deliver", "synth", "restart"} :
       /\ Log(VCL("DELIVER", change.by, result))
       /\ answer' = change.to
       /\ truth' = [truth EXCEPT !.had = @ \cup {answer, change.to}]
       /\ at' = IF result = "deliver" THEN "transmit" ELSE result
  /\ UNCHANGED request

Synth ==
  /\ at = "synth"
  /\ \E a \in Answers : Log(AnswerRecords(a)) /\ answer' = a
                        /\ truth' = [truth EXCEPT !.synth = a, !.had = @ \cup {a}]
  /\ at' = "vcl_synth"
  /\ UNCHANGED request

VCLSynth ==
  /\ at = "vcl_synth"
  /\ \E change \in Changes, result \in {"deliver", "restart"} :
       /\ Log(VCL("SYNTH", change.by, result))
       /\ answer' = change.to
       /\ truth' = [truth EXCEPT !.had = @ \cup {change.to}]
       /\ at' = IF result = "deliver" THEN "transmit" ELSE result
  /\ UNCHANGED request

Restart ==
  /\ at = "restart"
  /\ Log(R("Link", "child") \o R("End", ""))
  /\ at' = "end"
  /\ UNCHANGED <<request, answer, truth>>

\* The status becomes 206 after VCL has returned, when the client asked for a range.
Transmit ==
  /\ at = "transmit"
  /\ \E sent \in {answer} \cup (IF answer[1] = OK[1] THEN {Partial} ELSE {}) :
       /\ Log((IF sent = answer THEN << >> ELSE AnswerRecords(sent)) \o R("End", ""))
       /\ answer' = sent
       /\ truth' = [truth EXCEPT !.had = @ \cup {sent}, !.got = sent]
  /\ at' = "end"
  /\ UNCHANGED request

\* vcl_backend_fetch may change the URL and the Host header.
BackendFetch ==
  /\ at = "fetch"
  /\ \E r \in {q \in Requests : q[1] = request[1]}, result \in {"fetch", "error"} :
       /\ Log(VCL("BACKEND_FETCH", Rewrite(r), result))
       /\ request' = r
       /\ truth' = [truth EXCEPT !.sent = r]
       /\ at' = IF result = "fetch" THEN "connect" ELSE "error"
  /\ UNCHANGED answer

Connect ==
  /\ at = "connect"
  /\ \E a \in Answers, tag \in {"BackendOpen", "BackendReuse"} :
       /\ Log(R(tag, "backend") \o AnswerRecords(a))
       /\ answer' = a
  /\ at' = "response"
  /\ UNCHANGED <<request, truth>>

ConnectFails ==
  /\ at = "connect"
  /\ Log(R("FetchError", "text"))
  /\ at' = "error"
  /\ UNCHANGED <<request, answer, truth>>

\* The end of vcl_backend_response or vcl_backend_error.
BackendResult(sub, results) ==
  \E change \in Changes, result \in results :
    /\ Log(VCL(sub, change.by, result)
           \o (IF result = "error" THEN R("BackendClose", "backend")
               ELSE IF result = "retry" THEN R("Link", "child") \o R("End", "")
               ELSE R("End", "")))
    /\ answer' = change.to
    /\ truth' = IF result = "deliver" THEN [truth EXCEPT !.object = change.to] ELSE truth
    /\ at' = IF result = "error" THEN "error" ELSE "end"

BackendResponse ==
  /\ at = "response"
  /\ BackendResult("BACKEND_RESPONSE", {"deliver", "retry", "error", "abandon"})
  /\ UNCHANGED request

BackendError ==
  /\ at = "error"
  /\ \E a \in Answers : Log(AnswerRecords(a)) /\ answer' = a
  /\ at' = "backend_error"
  /\ UNCHANGED <<request, truth>>

VCLBackendError ==
  /\ at = "backend_error"
  /\ BackendResult("BACKEND_ERROR", {"deliver", "retry"})
  /\ UNCHANGED request

WorkerNext ==
  \/ Start \/ Recv \/ Pipe \/ Lookup \/ Hit \/ Miss \/ HitForPass \/ Pass \/ Wait \/ Respond
  \/ Deliver \/ Synth \/ VCLSynth \/ Restart \/ Transmit
  \/ BackendFetch \/ Connect \/ ConnectFails \/ BackendResponse \/ BackendError \/ VCLBackendError

Next ==
  /\ UNCHANGED <<txtype, cfg>>
  /\ \/ WorkerNext /\ UNCHANGED drawVars
     \/ at = "end" /\ DrawNext /\ UNCHANGED <<records, at, request, answer, truth>>

Spec == Init /\ [][Next]_vars

-----------------------------------------------------------------------------
Shown(kind) == {n \in DOMAIN steps : steps[n].kind = kind}

\* A request is shown by its method and URL, or by neither when its Host header is one
\* that ParseBackend rejects.
ShownAs(r) == IF r[3] \in BadHosts THEN EmptyRequest ELSE <<r[1], r[2]>>

\* The step into Varnish shows the request as the client sent it, the step to the
\* backend the one that was sent there, whatever VCL changed between the two.  A Host
\* header that cannot be parsed empties the step of its own moment and no other: one that
\* VCL set does not hide what the client sent, nor the client's what was sent to the
\* backend (sequence.go, 100-118, 143-190; httpmodel.go, 35-47).
RequestsAreShown ==
  /\ \A n \in Shown("RECV") : steps[n].shows = ShownAs(truth.received)
  /\ \A n \in Shown("BACKEND_FETCH") : steps[n].shows = ShownAs(truth.sent)

\* The last answer of the diagram is the one the client got: with the status VCL set
\* last, its reason, and 206 when a range was sent.
LastAnswerIsTheClients ==
  Drawn /\ truth.got # NoAnswer =>
    \E n \in Shown("DELIVER") :
      steps[n].shows = truth.got /\ \A m \in Shown("DELIVER") : m <= n

\* No step to the client shows an answer that never was: a status with the reason of
\* another one, or one from before a synthetic answer took its place.
AnswersWereReal ==
  \A n \in Shown("DELIVER") : steps[n].shows \in truth.had

\* A hit, a synthetic answer and a backend's answer are shown as they were when they
\* happened, although the record that says so is looked for from another one.
StepsShowTheirMoment ==
  /\ \A n \in Shown("HIT") : steps[n].shows = truth.hit
  /\ \A n \in Shown("SYNTH") : steps[n].shows = truth.synth
  /\ \A n \in Shown("BACKEND_RESPONSE") : steps[n].shows = truth.object

\* A comment of sequence.go says what the second step of a delivery is for:
\* "Handle 200 --> 206 (partial content) by checking the next status".
SecondAnswerIsPartial ==
  \A m, n \in Shown("DELIVER") : m < n => steps[n].shows = Partial
=============================================================================
