---------------------------- MODULE SequenceProofs ----------------------------
(***************************************************************************)
(* Theorems about SequenceRoundTrip, for any requests, answers and options *)
(* of the form.  The searches of the code are backwards and forwards from  *)
(* an index of a log that has grown since: the argument is which of them a *)
(* later record can still change.                                          *)
(***************************************************************************)
EXTENDS SequenceRoundTrip, SequenceTheorems, SetInduction

-----------------------------------------------------------------------------
(* Searches in any log *)

Entry(tag, value) == [tag |-> tag, value |-> value]

\* LastRecordByTag and NextRecordByTag in the log s.
LastIn(s, tag, i) ==
  LET found == {j \in {k \in DOMAIN s : s[k].tag = tag} : j <= i}
  IN IF found = {} THEN NoRecord
     ELSE s[CHOOSE j \in found : \A k \in found : k <= j]

NextIn(s, tag, i) ==
  LET found == {j \in {k \in DOMAIN s : s[k].tag = tag} : j > i}
  IN IF found = {} THEN NoRecord
     ELSE s[CHOOSE j \in found : \A k \in found : k >= j]

\* The values of the log, and its records.
Tags ==
  {"Begin", "End", "Link", "ReqMethod", "ReqURL", "BereqMethod", "BereqURL", "Host",
   "VCL_call", "VCL_return", "VCL_Log", "Hit", "HitMiss", "HitPass",
   "RespStatus", "RespReason", "BerespStatus", "BerespReason",
   "BackendOpen", "BackendReuse", "BackendClose", "FetchError"}
Words ==
  {"req", "bereq", "text", "object", "cached", "streaming", "child", "missing",
   "backend", "", "none", "200", "OK", "206", "Partial Content",
   "RECV", "HASH", "HIT", "MISS", "PASS", "PIPE", "DELIVER", "SYNTH",
   "BACKEND_FETCH", "BACKEND_RESPONSE", "BACKEND_ERROR",
   "hash", "lookup", "fetch", "pass", "pipe", "deliver", "synth", "restart",
   "error", "retry", "abandon"}
Values ==
  Words \cup {p[1] : p \in Requests \cup Answers}
        \cup {p[2] : p \in Requests \cup Answers} \cup {r[3] : r \in Requests}
Entries == [tag : Tags, value : Values]
Pairs == Values \X Values
Triples == Values \X Values \X Values

\* The last record of a tag, and the last answer of a response.
EndIn(s, tag) == LastIn(s, tag, Len(s))

LastPair(s, status, reason, i) ==
  <<LastIn(s, status, i).value, LastIn(s, reason, i).value>>
NextPair(s, i) == <<NextIn(s, "RespStatus", i).value, NextIn(s, "RespReason", i).value>>

NoneAfter(s, i) == NextIn(s, "RespStatus", i) = NoRecord /\ NextIn(s, "RespReason", i) = NoRecord

SomeAfter(s, i) == NextIn(s, "RespStatus", i) # NoRecord /\ NextIn(s, "RespReason", i) # NoRecord

ReturnDeliver == Entry("VCL_return", "deliver")

-----------------------------------------------------------------------------
(* The invariant *)

StatusTag(type) == IF type = "req" THEN "RespStatus" ELSE "BerespStatus"
ReasonTag(type) == IF type = "req" THEN "RespReason" ELSE "BerespReason"
MethodTag(type) == IF type = "req" THEN "ReqMethod" ELSE "BereqMethod"
URLTag(type)    == IF type = "req" THEN "ReqURL" ELSE "BereqURL"

\* The log ends with the answer a, with none, with the request r.
AnswerNow(s, type, a) ==
  /\ EndIn(s, StatusTag(type)) = Entry(StatusTag(type), a[1])
  /\ EndIn(s, ReasonTag(type)) = Entry(ReasonTag(type), a[2])

NoAnswerNow(s, type) ==
  EndIn(s, StatusTag(type)) = NoRecord /\ EndIn(s, ReasonTag(type)) = NoRecord

RequestNow(s, type, r) ==
  /\ EndIn(s, MethodTag(type)).value = r[1]
  /\ EndIn(s, URLTag(type)).value = r[2]
  /\ EndIn(s, "Host").value = r[3]

AnswerEntries(type, a) == {Entry(StatusTag(type), a[1]), Entry(ReasonTag(type), a[2])}

\* What the searches from record j must find, whatever follows it in the log.
Kept(s, j, type, hit, synth, had, object) ==
  /\ s[j] = Entry("VCL_call", "RECV") => type = "req"
  /\ s[j] = Entry("VCL_call", "BACKEND_FETCH") => type = "bereq"
  /\ s[j].tag = "Hit" => s[j].value = hit
  /\ s[j] = Entry("VCL_call", "HIT") => LastIn(s, "Hit", j) # NoRecord
  /\ s[j] = Entry("VCL_call", "SYNTH") => LastPair(s, "RespStatus", "RespReason", j) = synth
  /\ s[j] = ReturnDeliver /\ type = "bereq" => LastPair(s, "BerespStatus", "BerespReason", j) = object
  /\ s[j] = ReturnDeliver /\ type = "req" =>
       /\ \/ LastIn(s, "RespStatus", j) = NoRecord
          \/ LastPair(s, "RespStatus", "RespReason", j) \in had
       /\ NoneAfter(s, j) \/ (SomeAfter(s, j) /\ NextPair(s, j) \in had)

AllKept(s, type, hit, synth, had, object) ==
  \A j \in DOMAIN s : Kept(s, j, type, hit, synth, had, object)

\* No return of deliver is without an answer after it.
Settled(s) == \A j \in DOMAIN s : s[j] = ReturnDeliver => SomeAfter(s, j)

NoHit(s) == \A j \in DOMAIN s : s[j].tag # "Hit"

Lacks(s, entry) == \A j \in DOMAIN s : s[j] # entry

\* The answers resp has had, and the one it has when vcl_deliver is about to be called.
Had == truth.had \cup (IF at = "deliver" THEN {answer} ELSE {})

Answered == {"deliver", "vcl_synth", "transmit", "response", "backend_error"}
Unanswered ==
  {"start", "recv", "hash", "hit", "pipe", "pass", "wait", "respond", "fetch", "connect"}

TypesOK ==
  /\ txtype \in {"req", "bereq"}
  /\ at \in IF txtype = "req"
            THEN {"start", "recv", "hash", "pass", "synth", "pipe", "hit", "wait", "respond",
                  "deliver", "transmit", "restart", "vcl_synth", "end"}
            ELSE {"start", "fetch", "connect", "error", "response", "backend_error", "end"}
  /\ records \in Seq(Entries)
  /\ request \in Triples /\ answer \in Pairs
  /\ truth \in [received : Triples, sent : Triples, hit : Values, synth : Pairs, had : SUBSET Pairs,
                got : Pairs, object : Pairs]

\* The log ends with the request and the answer as they are now, and the request
\* that was received is the first one in it.
RequestLogged ==
  /\ at = "start" => records = <<>> /\ request = truth.received
  /\ at # "start" => RequestNow(records, txtype, request)
  /\ txtype = "bereq" => request = truth.sent
  /\ at # "start" /\ txtype = "req" =>
       /\ NextIn(records, "ReqMethod", 0) = Entry("ReqMethod", truth.received[1])
       /\ NextIn(records, "ReqURL", 0) = Entry("ReqURL", truth.received[2])
       /\ NextIn(records, "Host", 0) = Entry("Host", truth.received[3])

AnswerLogged ==
  /\ at \in Answered => AnswerNow(records, txtype, answer)
  /\ at \in Unanswered => NoAnswerNow(records, txtype)

\* What is done once is not done again.
Once ==
  /\ at \in {"start", "recv", "hash", "hit"} => NoHit(records)
  /\ at \notin {"transmit", "restart", "end"} => Lacks(records, Entry("VCL_call", "SYNTH"))
  /\ txtype = "bereq" /\ at # "end" => Lacks(records, ReturnDeliver)
  /\ at \notin {"respond", "transmit", "end"} => Settled(records)

AnswerHeld ==
  /\ at = "vcl_synth" => answer = truth.synth
  /\ at \in {"vcl_synth", "transmit"} => answer \in truth.had
  /\ at = "transmit" => Len(records) # 0 /\ records[Len(records)] = ReturnDeliver

LogKept == AllKept(records, txtype, truth.hit, truth.synth, Had, truth.object)

\* The return after which the client got its answer.
GotAt(j) ==
  /\ records[j] = ReturnDeliver
  /\ \A k \in DOMAIN records : k > j => records[k] # ReturnDeliver
  /\ \/ /\ NoneAfter(records, j)
        /\ LastIn(records, "RespStatus", j) # NoRecord
        /\ LastPair(records, "RespStatus", "RespReason", j) = truth.got
     \/ SomeAfter(records, j) /\ NextPair(records, j) = truth.got

Got == truth.got # NoAnswer =>
         at = "end" /\ txtype = "req" /\ \E j \in DOMAIN records : GotAt(j)

WorkerInv ==
  TypesOK /\ RequestLogged /\ AnswerLogged /\ Once /\ AnswerHeld /\ LogKept /\ Got

\* What a step of a kind shows.
TrueStep(step) ==
  /\ step.kind = "RECV" => step.shows = ShownAs(truth.received)
  /\ step.kind = "BACKEND_FETCH" => step.shows = ShownAs(truth.sent)
  /\ step.kind = "HIT" => step.shows = truth.hit
  /\ step.kind = "SYNTH" => step.shows = truth.synth
  /\ step.kind = "BACKEND_RESPONSE" => step.shows = truth.object
  /\ step.kind = "DELIVER" => step.shows \in truth.had

Kinds ==
  Tags \cup {"RECV", "BACKEND_FETCH", "HIT", "SYNTH", "BACKEND_RESPONSE", "DELIVER", "lookup",
             "pipe", "call", "return", "log", "URL", "missing"}

Steps == [kind : Kinds, shows : Values \cup Pairs \cup {"open", "forward"}]

\* The last step to the client shows the answer it got.
EndsWithGot ==
  \E n \in Shown("DELIVER") : steps[n].shows = truth.got /\ \A m \in Shown("DELIVER") : m <= n

DrawInv ==
  /\ index \in Nat /\ steps \in Seq(Steps)
  /\ index <= Len(records) + 1
  /\ index = 0 => steps = <<>>
  /\ at # "end" => index = 0
  /\ index # 0 /\ txtype = "req" => reqReceived = ShownAs(truth.received)
  /\ index # 0 /\ txtype = "bereq" => reqProcessed = ShownAs(truth.sent)
  /\ \A n \in DOMAIN steps : TrueStep(steps[n])
  /\ \A j \in DOMAIN records : truth.got # NoAnswer /\ GotAt(j) /\ index > j => EndsWithGot

IInv == WorkerInv /\ DrawInv
-----------------------------------------------------------------------------
(* The searches, and what one more record does to them *)

\* A set of numbers up to i that is not empty has a greatest element.
LEMMA Greatest ==
  ASSUME NEW i \in Nat, NEW S \in SUBSET (0..i), S # {}
  PROVE  \E n \in S : \A m \in S : m <= n
<1> DEFINE T == {i - n : n \in S}
<1>1. T \in SUBSET Nat /\ T # {}
  <2>1. \A n \in S : n \in 0..i
    OBVIOUS
  <2>2. \A n \in S : i - n \in Nat
    BY <2>1
  <2> QED BY <2>2
<1>2. PICK t \in T : \A m \in T : t <= m
  <2> HIDE DEF T
  <2> QED BY <1>1, LeastElement
<1>3. PICK n \in S : t = i - n
  OBVIOUS
<1>4. ASSUME NEW m \in S PROVE m <= n
  <2>1. i - m \in T
    OBVIOUS
  <2>2. t <= i - m
    BY <1>2, <2>1
  <2> QED BY <2>2, <1>3
<1> QED BY <1>4

\* The search backwards finds the last record of the tag, or none.
LEMMA LastFound ==
  ASSUME NEW S, NEW s \in Seq(S), NEW tag, NEW i, NEW k \in DOMAIN s,
         s[k].tag = tag, k <= i, \A m \in DOMAIN s : s[m].tag = tag /\ m <= i => m <= k
  PROVE  LastIn(s, tag, i) = s[k]
<1> DEFINE found == {j \in {m \in DOMAIN s : s[m].tag = tag} : j <= i}
           last == CHOOSE j \in found : \A m \in found : m <= j
<1>1. k \in found /\ \A m \in found : m <= k /\ m \in Nat
  OBVIOUS
<1>2. last \in found /\ \A m \in found : m <= last
  <2> HIDE DEF found
  <2> QED BY <1>1
<1>3. last = k
  <2> HIDE DEF found, last
  <2> QED BY <1>1, <1>2
<1>4. found # {}
  BY <1>1
<1> QED BY <1>3, <1>4 DEF LastIn

\* Nothing is found backwards when no record of the tag is that early.
LEMMA LastNone ==
  ASSUME NEW s, NEW tag, NEW i, \A m \in DOMAIN s : s[m].tag = tag => ~(m <= i)
  PROVE  LastIn(s, tag, i) = NoRecord
BY DEF LastIn

\* A backward search finds nothing or the last record of the tag.
LEMMA LastCases ==
  ASSUME NEW S, NEW s \in Seq(S), NEW tag, NEW i \in Nat
  PROVE  \/ LastIn(s, tag, i) = NoRecord /\ \A m \in DOMAIN s : s[m].tag = tag => ~(m <= i)
         \/ \E k \in DOMAIN s : /\ s[k].tag = tag /\ k <= i
                                /\ \A m \in DOMAIN s : s[m].tag = tag /\ m <= i => m <= k
                                /\ LastIn(s, tag, i) = s[k]
<1> DEFINE found == {j \in DOMAIN s : s[j].tag = tag /\ j <= i}
<1>1. CASE found = {}
  <2>1. \A m \in DOMAIN s : s[m].tag = tag => ~(m <= i)
    BY <1>1
  <2> QED BY <2>1, LastNone
<1>2. CASE found # {}
  <2>1. found \in SUBSET (0..i)
    OBVIOUS
  <2>2. PICK k \in found : \A m \in found : m <= k
    <3> HIDE DEF found
    <3> QED BY <1>2, <2>1, Greatest
  <2>3. /\ k \in DOMAIN s /\ s[k].tag = tag /\ k <= i
        /\ \A m \in DOMAIN s : s[m].tag = tag /\ m <= i => m <= k
    BY <2>2
  <2>4. LastIn(s, tag, i) = s[k]
    <3> HIDE DEF found
    <3> QED BY <2>3, LastFound
  <2> QED BY <2>3, <2>4
<1> QED BY <1>1, <1>2

\* The search forwards finds the first record of the tag after i, or none.
LEMMA NextFound ==
  ASSUME NEW S, NEW s \in Seq(S), NEW tag, NEW i, NEW k \in DOMAIN s,
         s[k].tag = tag, k > i, \A m \in DOMAIN s : s[m].tag = tag /\ m > i => m >= k
  PROVE  NextIn(s, tag, i) = s[k]
<1> DEFINE found == {j \in {m \in DOMAIN s : s[m].tag = tag} : j > i}
           first == CHOOSE j \in found : \A m \in found : m >= j
<1>1. k \in found /\ \A m \in found : m >= k /\ m \in Nat
  OBVIOUS
<1>2. first \in found /\ \A m \in found : m >= first
  <2> HIDE DEF found
  <2> QED BY <1>1
<1>3. first = k
  <2> HIDE DEF found, first
  <2> QED BY <1>1, <1>2
<1>4. found # {}
  BY <1>1
<1> QED BY <1>3, <1>4 DEF NextIn

\* Nothing is found forwards when no record of the tag is that late.
LEMMA NextNone ==
  ASSUME NEW s, NEW tag, NEW i, \A m \in DOMAIN s : s[m].tag = tag => ~(m > i)
  PROVE  NextIn(s, tag, i) = NoRecord
BY DEF NextIn

\* A forward search finds nothing or the next record of the tag.
LEMMA NextCases ==
  ASSUME NEW S, NEW s \in Seq(S), NEW tag, NEW i \in Nat
  PROVE  \/ NextIn(s, tag, i) = NoRecord /\ \A m \in DOMAIN s : s[m].tag = tag => ~(m > i)
         \/ \E k \in DOMAIN s : /\ s[k].tag = tag /\ k > i
                                /\ \A m \in DOMAIN s : s[m].tag = tag /\ m > i => m >= k
                                /\ NextIn(s, tag, i) = s[k]
<1> DEFINE found == {j \in DOMAIN s : s[j].tag = tag /\ j > i}
<1>1. CASE found = {}
  <2>1. \A m \in DOMAIN s : s[m].tag = tag => ~(m > i)
    BY <1>1
  <2> QED BY <2>1, NextNone
<1>2. CASE found # {}
  <2>1. found \in SUBSET Nat
    OBVIOUS
  <2>2. PICK k \in found : \A m \in found : k <= m
    <3> HIDE DEF found
    <3> QED BY <1>2, <2>1, LeastElement
  <2>3. /\ k \in DOMAIN s /\ s[k].tag = tag /\ k > i
        /\ \A m \in DOMAIN s : s[m].tag = tag /\ m > i => m >= k
    BY <2>2
  <2>4. NextIn(s, tag, i) = s[k]
    <3> HIDE DEF found
    <3> QED BY <2>3, NextFound
  <2> QED BY <2>3, <2>4
<1> QED BY <1>1, <1>2

\* A log with one more record.
LEMMA OneMore ==
  ASSUME NEW s \in Seq(Entries), NEW tag \in Tags, NEW value \in Values
  PROVE  LET t == s \o R(tag, value)
         IN  /\ t \in Seq(Entries) /\ Len(t) = Len(s) + 1 /\ Len(s) \in Nat
             /\ DOMAIN s = 1..Len(s) /\ DOMAIN t = 1..(Len(s) + 1)
             /\ \A j \in DOMAIN s : t[j] = s[j]
             /\ t[Len(s) + 1] = Entry(tag, value)
<1>1. R(tag, value) \in Seq(Entries) /\ Len(R(tag, value)) = 1
      /\ R(tag, value)[1] = Entry(tag, value)
  <2> DEFINE e == Entry(tag, value)
  <2>1. e \in Entries
    BY DEF Entry, Entries
  <2>2. R(tag, value) = <<e>>
    BY DEF R, Entry
  <2>3. e = Entry(tag, value)
    OBVIOUS
  <2> HIDE DEF e
  <2>4. <<e>> \in Seq(Entries) /\ Len(<<e>>) = 1 /\ <<e>>[1] = e
    BY <2>1
  <2> QED BY <2>2, <2>3, <2>4
<1> DEFINE r == R(tag, value)
<1> HIDE DEF r
<1>2. r \in Seq(Entries) /\ Len(r) = 1 /\ r[1] = Entry(tag, value)
  BY <1>1 DEF r
<1>3. /\ s \o r \in Seq(Entries)
      /\ Len(s \o r) = Len(s) + Len(r)
      /\ \A i \in 1 .. Len(s) + Len(r) : (s \o r)[i] = IF i <= Len(s) THEN s[i] ELSE r[i - Len(s)]
  BY <1>2, ConcatProperties
<1>4. Len(s) \in Nat /\ DOMAIN s = 1..Len(s) /\ DOMAIN (s \o r) = 1..Len(s \o r)
  BY <1>3, LenProperties
<1>5. (s \o r)[Len(s) + 1] = Entry(tag, value)
  <2>1. /\ Len(s) + 1 \in 1 .. Len(s) + Len(r) /\ ~(Len(s) + 1 <= Len(s))
        /\ (Len(s) + 1) - Len(s) = 1
    BY <1>2, <1>4
  <2>2. (s \o r)[Len(s) + 1] = r[(Len(s) + 1) - Len(s)]
    BY <1>3, <2>1
  <2> QED BY <1>2, <2>1, <2>2
<1>6. \A j \in DOMAIN s : (s \o r)[j] = s[j]
  BY <1>2, <1>3, <1>4
<1> QED BY <1>2, <1>3, <1>4, <1>5, <1>6 DEF r

\* What has been found backwards from a record stays found.
LEMMA LastStays ==
  ASSUME NEW s \in Seq(Entries), NEW tag \in Tags, NEW value \in Values,
         NEW i \in DOMAIN s, NEW wanted
  PROVE  LastIn(s \o R(tag, value), wanted, i) = LastIn(s, wanted, i)
<1> DEFINE t == s \o R(tag, value)
<1>1. /\ t \in Seq(Entries) /\ Len(t) = Len(s) + 1 /\ Len(s) \in Nat
      /\ DOMAIN s = 1..Len(s) /\ DOMAIN t = 1..(Len(s) + 1)
      /\ \A j \in DOMAIN s : t[j] = s[j]
  BY OneMore
<1> HIDE DEF t
<1>2. i \in Nat
  BY <1>1
<1>3. CASE LastIn(s, wanted, i) = NoRecord /\ \A m \in DOMAIN s : s[m].tag = wanted => ~(m <= i)
  <2>1. \A m \in DOMAIN t : t[m].tag = wanted => ~(m <= i)
    BY <1>1, <1>3
  <2> QED BY <2>1, <1>3, LastNone DEF t
<1>4. ASSUME NEW k \in DOMAIN s, s[k].tag = wanted, k <= i,
             \A m \in DOMAIN s : s[m].tag = wanted /\ m <= i => m <= k,
             LastIn(s, wanted, i) = s[k]
      PROVE  LastIn(t, wanted, i) = s[k]
  <2>1. k \in DOMAIN t /\ t[k] = s[k] /\ t[k].tag = wanted
    BY <1>1, <1>4
  <2>2. \A m \in DOMAIN t : t[m].tag = wanted /\ m <= i => m <= k
    BY <1>1, <1>4
  <2>3. LastIn(t, wanted, i) = t[k]
    BY SMTT(30), <1>1, <1>4, <2>1, <2>2, LastFound
  <2> QED BY <2>1, <2>3
<1> QED BY <1>2, <1>3, <1>4, LastCases DEF t

\* The last record of a tag is the new one, or the one it was.
LEMMA EndMoves ==
  ASSUME NEW s \in Seq(Entries), NEW tag \in Tags, NEW value \in Values, NEW wanted
  PROVE  /\ EndIn(s \o R(tag, value), wanted)
              = IF wanted = tag THEN Entry(tag, value) ELSE EndIn(s, wanted)
         /\ EndIn(s \o R(tag, value), wanted) = LastIn(s \o R(tag, value), wanted, Len(s) + 1)
<1> DEFINE t == s \o R(tag, value)
<1>1. /\ t \in Seq(Entries) /\ Len(t) = Len(s) + 1 /\ Len(s) \in Nat
      /\ DOMAIN s = 1..Len(s) /\ DOMAIN t = 1..(Len(s) + 1)
      /\ \A j \in DOMAIN s : t[j] = s[j]
      /\ t[Len(s) + 1] = Entry(tag, value)
  BY OneMore
<1> HIDE DEF t
<1>2. EndIn(t, wanted) = LastIn(t, wanted, Len(s) + 1)
  BY <1>1 DEF EndIn
<1>3. CASE wanted = tag
  <2>1. t[Len(s) + 1].tag = wanted
    BY <1>1, <1>3 DEF Entry
  <2>2. Len(s) + 1 \in DOMAIN t /\ Len(s) + 1 <= Len(s) + 1
        /\ \A m \in DOMAIN t : t[m].tag = wanted /\ m <= Len(s) + 1 => m <= Len(s) + 1
    BY <1>1
  <2>3. LastIn(t, wanted, Len(s) + 1) = t[Len(s) + 1]
    BY <1>1, <2>1, <2>2, LastFound
  <2> QED BY <1>1, <1>2, <1>3, <2>3 DEF t
<1>4. CASE wanted # tag
  <2>1. t[Len(s) + 1].tag # wanted
    BY <1>1, <1>4 DEF Entry
  <2>2. CASE LastIn(s, wanted, Len(s)) = NoRecord
             /\ \A m \in DOMAIN s : s[m].tag = wanted => ~(m <= Len(s))
    <3>1. \A m \in DOMAIN t : t[m].tag = wanted => ~(m <= Len(s) + 1)
      BY <1>1, <2>1, <2>2
    <3>2. LastIn(t, wanted, Len(s) + 1) = NoRecord
      BY <3>1, LastNone
    <3> QED BY <1>2, <1>4, <2>2, <3>2 DEF t, EndIn
  <2>3. ASSUME NEW k \in DOMAIN s, s[k].tag = wanted, k <= Len(s),
               \A m \in DOMAIN s : s[m].tag = wanted /\ m <= Len(s) => m <= k,
               LastIn(s, wanted, Len(s)) = s[k]
        PROVE  LastIn(t, wanted, Len(s) + 1) = s[k]
    <3>1. k \in DOMAIN t /\ t[k] = s[k] /\ t[k].tag = wanted /\ k <= Len(s) + 1
      BY <1>1, <2>3
    <3>2. \A m \in DOMAIN t : t[m].tag = wanted /\ m <= Len(s) + 1 => m <= k
      BY <1>1, <2>1, <2>3
    <3>3. LastIn(t, wanted, Len(s) + 1) = t[k]
      BY <1>1, <3>1, <3>2, LastFound
    <3> QED BY <3>1, <3>3
  <2>4. LastIn(t, wanted, Len(s) + 1) = LastIn(s, wanted, Len(s))
    BY <1>1, <1>2, <1>4, <2>2, <2>3, LastCases DEF EndIn, t
  <2> QED BY <1>2, <1>4, <2>4 DEF EndIn, t
<1> QED BY <1>3, <1>4

\* What has been found forwards stays found; otherwise the new record may be it.
LEMMA NextMoves ==
  ASSUME NEW s \in Seq(Entries), NEW tag \in Tags, NEW value \in Values,
         NEW i \in 0..Len(s), NEW wanted
  PROVE  NextIn(s \o R(tag, value), wanted, i)
           = IF NextIn(s, wanted, i) # NoRecord \/ wanted # tag THEN NextIn(s, wanted, i)
             ELSE Entry(tag, value)
<1> DEFINE t == s \o R(tag, value)
<1>1. /\ t \in Seq(Entries) /\ Len(t) = Len(s) + 1 /\ Len(s) \in Nat
      /\ DOMAIN s = 1..Len(s) /\ DOMAIN t = 1..(Len(s) + 1)
      /\ \A j \in DOMAIN s : t[j] = s[j]
      /\ t[Len(s) + 1] = Entry(tag, value)
  BY OneMore
<1> HIDE DEF t
<1>2. i \in Nat /\ i <= Len(s)
  BY <1>1
<1>3. ASSUME NEW k \in DOMAIN s, s[k].tag = wanted, k > i,
             \A m \in DOMAIN s : s[m].tag = wanted /\ m > i => m >= k,
             NextIn(s, wanted, i) = s[k]
      PROVE  NextIn(t, wanted, i) = s[k]
  <2>1. k \in DOMAIN t /\ t[k] = s[k] /\ t[k].tag = wanted
    BY <1>1, <1>3
  <2>2. \A m \in DOMAIN t : t[m].tag = wanted /\ m > i => m >= k
    BY <1>1, <1>3
  <2>3. NextIn(t, wanted, i) = t[k]
    BY <1>1, <1>3, <2>1, <2>2, NextFound
  <2> QED BY <2>1, <2>3
<1>4. ASSUME NextIn(s, wanted, i) = NoRecord, \A m \in DOMAIN s : s[m].tag = wanted => ~(m > i)
      PROVE  NextIn(t, wanted, i) = IF wanted = tag THEN Entry(tag, value) ELSE NoRecord
  <2>1. CASE wanted = tag
    <3>1. t[Len(s) + 1].tag = wanted /\ Len(s) + 1 \in DOMAIN t /\ Len(s) + 1 > i
      BY <1>1, <1>2, <2>1 DEF Entry
    <3>2. \A m \in DOMAIN t : t[m].tag = wanted /\ m > i => m >= Len(s) + 1
      BY <1>1, <1>4
    <3>3. NextIn(t, wanted, i) = t[Len(s) + 1]
      BY <1>1, <3>1, <3>2, NextFound
    <3> QED BY <1>1, <2>1, <3>3
  <2>2. CASE wanted # tag
    <3>1. \A m \in DOMAIN t : t[m].tag = wanted => ~(m > i)
      BY <1>1, <1>4, <2>2 DEF Entry
    <3> QED BY <2>2, <3>1, NextNone
  <2> QED BY <2>1, <2>2
<1>5. ASSUME NEW k \in DOMAIN s, s[k].tag = wanted, wanted = tag
      PROVE  s[k] # NoRecord
  BY <1>5 DEF NoRecord, Tags
<1>6. \/ NextIn(s, wanted, i) = NoRecord /\ \A m \in DOMAIN s : s[m].tag = wanted => ~(m > i)
      \/ \E k \in DOMAIN s : /\ s[k].tag = wanted /\ k > i
                             /\ \A m \in DOMAIN s : s[m].tag = wanted /\ m > i => m >= k
                             /\ NextIn(s, wanted, i) = s[k]
  BY <1>2, NextCases
<1>7. CASE NextIn(s, wanted, i) = NoRecord /\ \A m \in DOMAIN s : s[m].tag = wanted => ~(m > i)
  BY <1>4, <1>7 DEF t
<1>8. ASSUME NEW k \in DOMAIN s, s[k].tag = wanted, k > i,
             \A m \in DOMAIN s : s[m].tag = wanted /\ m > i => m >= k,
             NextIn(s, wanted, i) = s[k]
      PROVE  NextIn(t, wanted, i)
               = IF NextIn(s, wanted, i) # NoRecord \/ wanted # tag THEN NextIn(s, wanted, i)
                 ELSE Entry(tag, value)
  <2>1. NextIn(t, wanted, i) = s[k]
    BY <1>8, <1>3
  <2> QED BY <2>1, <1>8, <1>5
<1> QED BY <1>6, <1>7, <1>8 DEF t

\* Nothing is after the last record.
LEMMA NoneAtEnd ==
  ASSUME NEW s \in Seq(Entries), NEW i, i = Len(s), NEW wanted
  PROVE  NextIn(s, wanted, i) = NoRecord
<1>1. DOMAIN s = 1..Len(s) /\ Len(s) \in Nat
  BY LenProperties
<1> QED BY <1>1, NextNone
-----------------------------------------------------------------------------
(* What one more record leaves as it was *)

Grown(s, t, entry) ==
  /\ t \in Seq(Entries) /\ Len(t) # 0 /\ t[Len(t)] = entry
  /\ \A w : EndIn(t, w) = IF w = entry.tag THEN entry ELSE EndIn(s, w)
  /\ \A w : NextIn(s, w, 0) # NoRecord => NextIn(t, w, 0) = NextIn(s, w, 0)
  /\ \A e : e # entry /\ Lacks(s, e) => Lacks(t, e)
  /\ entry.tag # "Hit" /\ NoHit(s) => NoHit(t)
  /\ entry # ReturnDeliver /\ Settled(s) => Settled(t)

\* One more record changes only the searches for its own tag, and of the forward
\* ones only those that found nothing yet.
LEMMA Grow ==
  ASSUME NEW s \in Seq(Entries), NEW tag \in Tags, NEW value \in Values
  PROVE  Grown(s, s \o R(tag, value), Entry(tag, value))
<1> DEFINE t == s \o R(tag, value)
           entry == Entry(tag, value)
<1>1. /\ t \in Seq(Entries) /\ Len(t) = Len(s) + 1 /\ Len(s) \in Nat
      /\ DOMAIN s = 1..Len(s) /\ DOMAIN t = 1..(Len(s) + 1)
      /\ \A j \in DOMAIN s : t[j] = s[j]
      /\ t[Len(s) + 1] = entry
  BY OneMore
<1>2. \A w : EndIn(t, w) = IF w = tag THEN entry ELSE EndIn(s, w)
  BY EndMoves
<1>3. ASSUME NEW w, NEW i \in 0..Len(s), NextIn(s, w, i) # NoRecord
      PROVE  NextIn(t, w, i) = NextIn(s, w, i)
  BY <1>3, NextMoves DEF Tags
<1>4. entry.tag = tag
  BY DEF Entry
<1> HIDE DEF t, entry
<1>5. \A w : NextIn(s, w, 0) # NoRecord => NextIn(t, w, 0) = NextIn(s, w, 0)
  BY <1>1, <1>3
<1>6. \A e : e # entry /\ Lacks(s, e) => Lacks(t, e)
  BY <1>1 DEF Lacks
<1>7. entry.tag # "Hit" /\ NoHit(s) => NoHit(t)
  BY <1>1 DEF NoHit
<1>8. ASSUME entry # ReturnDeliver, Settled(s), NEW j \in DOMAIN t, t[j] = ReturnDeliver
      PROVE  SomeAfter(t, j)
  <2>1. j \in DOMAIN s /\ s[j] = ReturnDeliver /\ j \in 0..Len(s)
    BY <1>1, <1>8
  <2>2. SomeAfter(s, j)
    BY <2>1, <1>8 DEF Settled
  <2> QED BY <2>1, <2>2, <1>3 DEF SomeAfter
<1>9. Len(t) # 0 /\ t[Len(t)] = entry
  BY <1>1
<1>10. entry # ReturnDeliver /\ Settled(s) => Settled(t)
  BY <1>8 DEF Settled
<1>11. Grown(s, t, entry)
  BY <1>1, <1>2, <1>4, <1>5, <1>6, <1>7, <1>9, <1>10 DEF Grown
<1> QED BY <1>11 DEF t, entry

\* A record kept stays so, if the new one is no answer of a response.
LEMMA KeptStays ==
  ASSUME NEW s \in Seq(Entries), NEW tag \in Tags \ {"RespStatus", "RespReason"},
         NEW value \in Values, NEW j \in DOMAIN s,
         NEW type, NEW hit, NEW synth, NEW had, NEW object,
         Kept(s, j, type, hit, synth, had, object)
  PROVE  Kept(s \o R(tag, value), j, type, hit, synth, had, object)
<1> DEFINE t == s \o R(tag, value)
<1>1. t[j] = s[j] /\ j \in 0..Len(s)
  BY OneMore
<1>2. \A w : LastIn(t, w, j) = LastIn(s, w, j)
  BY LastStays
<1>3. \A w \in {"RespStatus", "RespReason"} : NextIn(t, w, j) = NextIn(s, w, j)
  BY <1>1, NextMoves
<1> HIDE DEF t
<1>4. /\ NextPair(t, j) = NextPair(s, j)
      /\ NoneAfter(t, j) <=> NoneAfter(s, j)
      /\ SomeAfter(t, j) <=> SomeAfter(s, j)
  BY <1>3 DEF NextPair, NoneAfter, SomeAfter
<1>5. \A a, b : LastPair(t, a, b, j) = LastPair(s, a, b, j)
  BY <1>2 DEF LastPair
<1>6. Kept(t, j, type, hit, synth, had, object)
  BY <1>1, <1>2, <1>4, <1>5 DEF Kept
<1> QED BY <1>6 DEF t

\* What has to be so of a record that is added.
MayAdd(s, tag, value, type, hit, synth, had, object) ==
  /\ tag = "VCL_call" /\ value = "RECV" => type = "req"
  /\ tag = "VCL_call" /\ value = "BACKEND_FETCH" => type = "bereq"
  /\ tag = "Hit" => value = hit
  /\ tag = "VCL_call" /\ value = "HIT" => EndIn(s, "Hit") # NoRecord
  /\ tag = "VCL_call" /\ value = "SYNTH" =>
       <<EndIn(s, "RespStatus").value, EndIn(s, "RespReason").value>> = synth
  /\ tag = "VCL_return" /\ value = "deliver" /\ type = "bereq" =>
       <<EndIn(s, "BerespStatus").value, EndIn(s, "BerespReason").value>> = object
  /\ tag = "VCL_return" /\ value = "deliver" /\ type = "req" =>
       \/ EndIn(s, "RespStatus") = NoRecord
       \/ <<EndIn(s, "RespStatus").value, EndIn(s, "RespReason").value>> \in had

\* A record that may be added satisfies what is kept of every record.
LEMMA KeptNew ==
  ASSUME NEW s \in Seq(Entries), NEW tag \in Tags, NEW value \in Values,
         NEW type, NEW hit, NEW synth, NEW had, NEW object,
         MayAdd(s, tag, value, type, hit, synth, had, object)
  PROVE  Kept(s \o R(tag, value), Len(s) + 1, type, hit, synth, had, object)
<1> DEFINE t == s \o R(tag, value)
           n == Len(s) + 1
<1>1. t \in Seq(Entries) /\ Len(t) = n /\ t[n] = Entry(tag, value)
  BY OneMore
<1>2. ASSUME NEW w
      PROVE  LastIn(t, w, n) = IF w = tag THEN Entry(tag, value) ELSE EndIn(s, w)
  <2>1. EndIn(t, w) = IF w = tag THEN Entry(tag, value) ELSE EndIn(s, w)
    BY EndMoves
  <2>2. EndIn(t, w) = LastIn(t, w, n)
    BY EndMoves
  <2> QED BY <2>1, <2>2
<1>3. NoneAfter(t, n)
  <2> HIDE DEF t, n
  <2> QED BY <1>1, NoneAtEnd DEF NoneAfter
<1> HIDE DEF t, n
<1>4. \A a, b : a # tag /\ b # tag => LastPair(t, a, b, n) = <<EndIn(s, a).value, EndIn(s, b).value>>
  BY <1>2 DEF LastPair
<1>5. /\ t[n].tag = tag /\ t[n].value = value
      /\ \A a, b : t[n] = Entry(a, b) => a = tag /\ b = value
      /\ t[n] = ReturnDeliver => tag = "VCL_return" /\ value = "deliver"
  BY <1>1 DEF Entry, ReturnDeliver
<1>6. t[n] = Entry("VCL_call", "RECV") => type = "req"
  BY <1>5 DEF MayAdd
<1>7. t[n] = Entry("VCL_call", "BACKEND_FETCH") => type = "bereq"
  BY <1>5 DEF MayAdd
<1>8. t[n].tag = "Hit" => t[n].value = hit
  BY <1>5 DEF MayAdd
<1>9. t[n] = Entry("VCL_call", "HIT") => LastIn(t, "Hit", n) # NoRecord
  BY <1>2, <1>5 DEF MayAdd
<1>10. t[n] = Entry("VCL_call", "SYNTH") => LastPair(t, "RespStatus", "RespReason", n) = synth
  BY <1>4, <1>5 DEF MayAdd
<1>11. t[n] = ReturnDeliver /\ type = "bereq" =>
         LastPair(t, "BerespStatus", "BerespReason", n) = object
  BY <1>4, <1>5 DEF MayAdd
<1>12. t[n] = ReturnDeliver /\ type = "req" =>
         \/ LastIn(t, "RespStatus", n) = NoRecord
         \/ LastPair(t, "RespStatus", "RespReason", n) \in had
  BY <1>2, <1>4, <1>5 DEF MayAdd
<1>13. Kept(t, n, type, hit, synth, had, object)
  BY <1>3, <1>6, <1>7, <1>8, <1>9, <1>10, <1>11, <1>12 DEF Kept
<1> QED BY <1>13 DEF t, n

\* What is kept of every record is kept when one that may be added follows.
LEMMA KeepOne ==
  ASSUME NEW s \in Seq(Entries), NEW tag \in Tags \ {"RespStatus", "RespReason"},
         NEW value \in Values, NEW type, NEW hit, NEW synth, NEW had, NEW object,
         AllKept(s, type, hit, synth, had, object),
         MayAdd(s, tag, value, type, hit, synth, had, object)
  PROVE  AllKept(s \o R(tag, value), type, hit, synth, had, object)
<1> DEFINE t == s \o R(tag, value)
<1>1. DOMAIN t = DOMAIN s \cup {Len(s) + 1}
  BY OneMore
<1>2. \A j \in DOMAIN s : Kept(t, j, type, hit, synth, had, object)
  BY KeptStays DEF AllKept
<1>3. Kept(t, Len(s) + 1, type, hit, synth, had, object)
  BY KeptNew
<1> HIDE DEF t
<1>4. AllKept(t, type, hit, synth, had, object)
  BY <1>1, <1>2, <1>3 DEF AllKept
<1> QED BY <1>4 DEF t

\* A new reason, where every delivery has its second answer already.
LEMMA KeepReason ==
  ASSUME NEW s \in Seq(Entries), NEW value \in Values,
         NEW type, NEW hit, NEW synth, NEW had, NEW object,
         AllKept(s, type, hit, synth, had, object), Settled(s)
  PROVE  AllKept(s \o R("RespReason", value), type, hit, synth, had, object)
<1> DEFINE tag == "RespReason"
<1>0. tag \in Tags \ {"VCL_call", "VCL_return", "Hit"}
  BY DEF Tags
<1> HIDE DEF tag
<1> DEFINE t == s \o R(tag, value)
<1>1. /\ DOMAIN t = DOMAIN s \cup {Len(s) + 1}
      /\ \A j \in DOMAIN s : t[j] = s[j] /\ j \in 0..Len(s)
  BY <1>0, OneMore
<1>2. \A w : \A j \in DOMAIN s : LastIn(t, w, j) = LastIn(s, w, j)
  BY <1>0, LastStays
<1>3. \A w : \A i \in 0..Len(s) : NextIn(s, w, i) # NoRecord => NextIn(t, w, i) = NextIn(s, w, i)
  BY <1>0, NextMoves
<1>4. Kept(t, Len(s) + 1, type, hit, synth, had, object)
  <2>1. MayAdd(s, tag, value, type, hit, synth, had, object)
    BY <1>0 DEF MayAdd
  <2> QED BY <1>0, <2>1, KeptNew
<1> HIDE DEF t
<1>5. ASSUME NEW j \in DOMAIN s
      PROVE  Kept(t, j, type, hit, synth, had, object)
  <2>1. Kept(s, j, type, hit, synth, had, object) /\ t[j] = s[j]
    BY <1>1 DEF AllKept
  <2>2. \A a, b : LastPair(t, a, b, j) = LastPair(s, a, b, j)
    BY <1>2 DEF LastPair
  <2>3. t[j] = ReturnDeliver => SomeAfter(s, j)
    BY <2>1 DEF Settled
  <2>4. SomeAfter(s, j) => SomeAfter(t, j) /\ NextPair(t, j) = NextPair(s, j)
    BY <1>1, <1>3 DEF SomeAfter, NextPair
  <2>5. t[j] = ReturnDeliver /\ type = "req" =>
          /\ \/ LastIn(t, "RespStatus", j) = NoRecord
             \/ LastPair(t, "RespStatus", "RespReason", j) \in had
          /\ NoneAfter(t, j) \/ (SomeAfter(t, j) /\ NextPair(t, j) \in had)
    BY <1>2, <2>1, <2>2, <2>3, <2>4 DEF Kept, NoneAfter, SomeAfter
  <2> QED BY <1>2, <2>1, <2>2, <2>5 DEF Kept
<1>6. AllKept(t, type, hit, synth, had, object)
  BY <1>1, <1>4, <1>5 DEF AllKept
<1> QED BY <1>6 DEF t, tag

\* A whole answer is the second one of every delivery that has none.
LEMMA KeepAnswer ==
  ASSUME NEW s \in Seq(Entries), NEW a \in Pairs,
         NEW hit, NEW synth, NEW had, NEW object,
         AllKept(s, "req", hit, synth, had, object), a \in had
  PROVE  LET t == (s \o R("RespStatus", a[1])) \o R("RespReason", a[2])
         IN  AllKept(t, "req", hit, synth, had, object) /\ Settled(t)
<1> DEFINE status == "RespStatus"
           reason == "RespReason"
<1>0. /\ {status, reason} \subseteq Tags \ {"VCL_call", "VCL_return", "Hit"}
      /\ status = "RespStatus" /\ reason = "RespReason" /\ status # reason
  BY DEF Tags
<1> HIDE DEF status, reason
<1> DEFINE u == s \o R(status, a[1])
           t == u \o R(reason, a[2])
<1>1. a[1] \in Values /\ a[2] \in Values /\ a = <<a[1], a[2]>>
  BY DEF Pairs
<1>2. /\ u \in Seq(Entries) /\ Len(u) = Len(s) + 1 /\ DOMAIN u = DOMAIN s \cup {Len(s) + 1}
      /\ \A j \in DOMAIN s : u[j] = s[j] /\ j \in 0..Len(s)
      /\ u[Len(s) + 1] = Entry(status, a[1])
      /\ Len(s) \in Nat
  BY <1>0, <1>1, OneMore
<1>3. \A w : \A j \in DOMAIN s : LastIn(u, w, j) = LastIn(s, w, j)
  BY <1>0, <1>1, LastStays
<1>4. \A w : \A i \in 0..Len(s) :
        NextIn(u, w, i) = IF NextIn(s, w, i) # NoRecord \/ w # status THEN NextIn(s, w, i)
                          ELSE Entry(status, a[1])
  BY <1>0, <1>1, NextMoves
<1>5. Kept(u, Len(s) + 1, "req", hit, synth, had, object)
  <2>1. MayAdd(s, status, a[1], "req", hit, synth, had, object)
    BY <1>0 DEF MayAdd
  <2> QED BY <1>0, <1>1, <2>1, KeptNew
<1> HIDE DEF u
<1>6. /\ t \in Seq(Entries) /\ Len(t) = Len(u) + 1 /\ DOMAIN t = DOMAIN u \cup {Len(u) + 1}
      /\ \A j \in DOMAIN u : t[j] = u[j] /\ j \in 0..Len(u)
      /\ t[Len(u) + 1] = Entry(reason, a[2])
  BY <1>0, <1>1, <1>2, OneMore
<1>7. \A w : \A j \in DOMAIN u : LastIn(t, w, j) = LastIn(u, w, j)
  <2>1. reason \in Tags /\ a[2] \in Values
    BY <1>0, <1>1
  <2> QED BY SMTT(60), <2>1, <1>2, LastStays
<1>8. \A w : \A i \in 0..Len(u) :
        NextIn(t, w, i) = IF NextIn(u, w, i) # NoRecord \/ w # reason THEN NextIn(u, w, i)
                          ELSE Entry(reason, a[2])
  BY <1>0, <1>1, <1>2, NextMoves
<1>9. \A v : Entry("RespStatus", v) # NoRecord /\ Entry("RespReason", v) # NoRecord
             /\ Entry("RespStatus", v).value = v /\ Entry("RespReason", v).value = v
             /\ Entry("RespStatus", v) # ReturnDeliver /\ Entry("RespReason", v) # ReturnDeliver
             /\ Entry("RespStatus", v).tag = "RespStatus"
             /\ Entry("RespReason", v).tag = "RespReason"
             /\ \A x : /\ Entry("RespReason", v) # Entry("VCL_call", x)
                       /\ Entry("RespStatus", v) # Entry("VCL_call", x)
  BY DEF Entry, NoRecord, ReturnDeliver
<1> HIDE DEF t
<1>10. ASSUME NEW j \in DOMAIN s
       PROVE  /\ Kept(t, j, "req", hit, synth, had, object)
              /\ t[j] = ReturnDeliver => SomeAfter(t, j)
  <2>1. /\ Kept(s, j, "req", hit, synth, had, object) /\ t[j] = s[j]
        /\ j \in DOMAIN u /\ j \in 0..Len(s) /\ j \in 0..Len(u)
    BY <1>2, <1>6 DEF AllKept
  <2>2. \A w : LastIn(t, w, j) = LastIn(s, w, j)
    BY <2>1, <1>3, <1>7
  <2>3. \A x, y : LastPair(t, x, y, j) = LastPair(s, x, y, j)
    BY <2>2 DEF LastPair
  <2>4. NoneAfter(s, j) => SomeAfter(t, j) /\ NextPair(t, j) = a
    BY <2>1, <1>0, <1>1, <1>4, <1>8, <1>9 DEF NoneAfter, SomeAfter, NextPair
  <2>5. SomeAfter(s, j) => SomeAfter(t, j) /\ NextPair(t, j) = NextPair(s, j)
    BY <2>1, <1>0, <1>4, <1>8 DEF SomeAfter, NextPair
  <2>6. t[j] = ReturnDeliver =>
          /\ \/ LastIn(t, "RespStatus", j) = NoRecord
             \/ LastPair(t, "RespStatus", "RespReason", j) \in had
          /\ SomeAfter(t, j) /\ NextPair(t, j) \in had
    BY <2>1, <2>2, <2>3, <2>4, <2>5 DEF Kept
  <2> QED BY <2>1, <2>2, <2>3, <2>6 DEF Kept
<1>11. ASSUME NEW j \in {Len(s) + 1, Len(u) + 1}
       PROVE  /\ Kept(t, j, "req", hit, synth, had, object)
              /\ t[j] # ReturnDeliver
  <2>1. /\ t[j].tag # "Hit" /\ t[j] # ReturnDeliver /\ \A x : t[j] # Entry("VCL_call", x)
    BY <1>0, <1>2, <1>6, <1>9
  <2> QED BY <2>1 DEF Kept
<1>12. AllKept(t, "req", hit, synth, had, object) /\ Settled(t)
  BY <1>2, <1>6, <1>10, <1>11 DEF AllKept, Settled
<1> QED BY <1>12 DEF t, u, status, reason
-----------------------------------------------------------------------------
(* What several more records leave as it was *)

\* t is s and, behind it, some of the entries E and no others.
Longer(s, t, E) ==
  /\ t \in Seq(Entries)
  /\ \A w : (\A e \in E : e.tag # w) => EndIn(t, w) = EndIn(s, w)
  /\ \A w : NextIn(s, w, 0) # NoRecord => NextIn(t, w, 0) = NextIn(s, w, 0)
  /\ \A e : e \notin E /\ Lacks(s, e) => Lacks(t, e)
  /\ (\A e \in E : e.tag # "Hit") /\ NoHit(s) => NoHit(t)
  /\ ReturnDeliver \notin E /\ Settled(s) => Settled(t)

\* No more records: nothing changes.
LEMMA LongerNone ==
  ASSUME NEW s \in Seq(Entries)
  PROVE  Longer(s, s, {})
BY DEF Longer

\* One more record is a case of several more.
LEMMA LongerOne ==
  ASSUME NEW s, NEW t, NEW e, Grown(s, t, e)
  PROVE  Longer(s, t, {e})
BY DEF Longer, Grown

\* More records, and more behind them.
LEMMA LongerMore ==
  ASSUME NEW s, NEW t, NEW u, NEW E, NEW F, Longer(s, t, E), Longer(t, u, F)
  PROVE  Longer(s, u, E \cup F)
<1>1. \A w : (\A e \in E \cup F : e.tag # w) => EndIn(u, w) = EndIn(s, w)
  BY DEF Longer
<1>2. \A w : NextIn(s, w, 0) # NoRecord => NextIn(u, w, 0) = NextIn(s, w, 0)
  BY DEF Longer
<1>3. \A e : e \notin E \cup F /\ Lacks(s, e) => Lacks(u, e)
  BY DEF Longer
<1>4. (\A e \in E \cup F : e.tag # "Hit") /\ NoHit(s) => NoHit(u)
  BY DEF Longer
<1>5. ReturnDeliver \notin E \cup F /\ Settled(s) => Settled(u)
  BY DEF Longer
<1>6. u \in Seq(Entries)
  BY DEF Longer
<1> QED BY <1>1, <1>2, <1>3, <1>4, <1>5, <1>6 DEF Longer

\* A record that is logged is a sequence of one entry.
LEMMA OneRecord ==
  ASSUME NEW tag \in Tags, NEW value \in Values
  PROVE  R(tag, value) \in Seq(Entries)
<1>1. Entry(tag, value) \in Entries
  BY DEF Entry, Entries
<1>2. R(tag, value) = <<Entry(tag, value)>>
  BY DEF R, Entry
<1> QED BY <1>1, <1>2

\* The records of a VCL call: the call, what VCL does, its return.
LEMMA CallRecords ==
  ASSUME NEW s \in Seq(Entries), NEW sub \in Values, NEW result \in Values,
         NEW c \in Seq(Entries)
  PROVE  /\ VCL(sub, c, result) \in Seq(Entries)
         /\ s \o VCL(sub, c, result)
              = ((s \o R("VCL_call", sub)) \o c) \o R("VCL_return", result)
<1>1. {"VCL_call", "VCL_return"} \subseteq Tags
  BY DEF Tags
<1> DEFINE a == R("VCL_call", sub)
           b == R("VCL_return", result)
<1>2. a \in Seq(Entries) /\ b \in Seq(Entries)
  <2>1. \A tag \in Tags : \A value \in Values : R(tag, value) \in Seq(Entries)
    BY OneRecord
  <2> QED BY <1>1, <2>1
<1>3. VCL(sub, c, result) = (a \o c) \o b
  BY DEF VCL
<1> HIDE DEF a, b
<1> DEFINE d == a \o c
<1>4. d \in Seq(Entries)
  BY <1>2, ConcatProperties
<1>5. (s \o a) \o c = s \o d
  BY SMTT(30), <1>2, ConcatAssociative
<1>6. VCL(sub, c, result) = d \o b
  BY <1>3
<1> HIDE DEF d
<1>7. d \o b \in Seq(Entries)
  BY <1>2, <1>4, ConcatProperties
<1>8. (s \o d) \o b = s \o (d \o b)
  BY SMTT(30), <1>2, <1>4, ConcatAssociative
<1>9. s \o VCL(sub, c, result) = ((s \o a) \o c) \o b
  BY <1>5, <1>6, <1>8
<1> QED BY <1>6, <1>7, <1>9 DEF a, b

\* A VCL subroutine that changes nothing logs nothing between call and return.
LEMMA NoChange ==
  ASSUME NEW s \in Seq(Entries)
  PROVE  s \o << >> = s /\ << >> \in Seq(Entries) /\ << >> \o s = s
BY ConcatEmptySeq, EmptySeq

\* More entries may be allowed than were added.
LEMMA LongerWider ==
  ASSUME NEW s, NEW t, NEW E, NEW F, Longer(s, t, E), E \subseteq F
  PROVE  Longer(s, t, F)
BY DEF Longer

\* Answers are pairs of values.
LEMMA PairParts ==
  ASSUME NEW a \in Pairs
  PROVE  a[1] \in Values /\ a[2] \in Values /\ a = <<a[1], a[2]>>
BY DEF Pairs

\* Requests are a method, a URL and a host.
LEMMA TripleParts ==
  ASSUME NEW r \in Triples
  PROVE  r[1] \in Values /\ r[2] \in Values /\ r[3] \in Values
BY DEF Triples

\* The tags that log an answer, by the type of the transaction.
LEMMA AnswerTags ==
  ASSUME NEW type \in {"req", "bereq"}
  PROVE  /\ {StatusTag(type), ReasonTag(type)} \subseteq Tags \ {"VCL_call", "VCL_return", "Hit"}
         /\ StatusTag(type) # ReasonTag(type)
         /\ type = "req" => StatusTag(type) = "RespStatus" /\ ReasonTag(type) = "RespReason"
         /\ type = "bereq" => StatusTag(type) = "BerespStatus" /\ ReasonTag(type) = "BerespReason"
BY DEF StatusTag, ReasonTag, Tags

\* A whole answer is logged, of a response or of a backend's.
LEMMA WholeAnswer ==
  ASSUME NEW s \in Seq(Entries), NEW type \in {"req", "bereq"}, NEW a \in Pairs,
         NEW hit, NEW synth, NEW had, NEW object,
         AllKept(s, type, hit, synth, had, object), type = "req" => a \in had
  PROVE  LET c == R(StatusTag(type), a[1]) \o R(ReasonTag(type), a[2])
         IN  /\ c \in Seq(Entries) /\ Longer(s, s \o c, AnswerEntries(type, a))
             /\ AllKept(s \o c, type, hit, synth, had, object)
             /\ type = "req" => Settled(s \o c)
             /\ AnswerNow(s \o c, type, a)
<1> DEFINE status == StatusTag(type)
           reason == ReasonTag(type)
<1>1. /\ {status, reason} \subseteq Tags \ {"VCL_call", "VCL_return", "Hit"} /\ status # reason
      /\ type = "req" => status = "RespStatus" /\ reason = "RespReason"
      /\ type = "bereq" => status = "BerespStatus" /\ reason = "BerespReason"
  BY AnswerTags
<1>2. a[1] \in Values /\ a[2] \in Values
  BY PairParts
<1> DEFINE x == R(status, a[1])
           y == R(reason, a[2])
<1> HIDE DEF status, reason
<1>3. x \in Seq(Entries) /\ y \in Seq(Entries)
  BY <1>1, <1>2, OneRecord
<1> DEFINE u == s \o x
           t == u \o y
<1>4. Grown(s, u, Entry(status, a[1])) /\ u \in Seq(Entries)
  BY <1>1, <1>2, Grow, OneMore
<1>5. ASSUME type = "bereq"
      PROVE  AllKept(u, type, hit, synth, had, object)
  <2>1. MayAdd(s, status, a[1], type, hit, synth, had, object)
    BY <1>1 DEF MayAdd
  <2>2. status \in Tags \ {"RespStatus", "RespReason"}
    BY <1>1, <1>5
  <2> QED BY <2>1, <2>2, <1>2, KeepOne
<1>6. ASSUME type = "req"
      PROVE  AllKept(t, type, hit, synth, had, object) /\ Settled(t)
  <2>1. AllKept(s, "req", hit, synth, had, object) /\ a \in had
    BY <1>6
  <2> QED BY <2>1, <1>1, <1>6, KeepAnswer
<1>7. t = s \o (x \o y) /\ x \o y \in Seq(Entries)
  <2> HIDE DEF x, y
  <2> QED BY <1>3, ConcatAssociative, ConcatProperties
<1> HIDE DEF u
<1>8. Grown(u, t, Entry(reason, a[2]))
  BY <1>1, <1>2, <1>4, Grow
<1>9. ASSUME type = "bereq"
      PROVE  AllKept(t, type, hit, synth, had, object)
  <2>1. MayAdd(u, reason, a[2], type, hit, synth, had, object)
    BY <1>1 DEF MayAdd
  <2>2. reason \in Tags \ {"RespStatus", "RespReason"}
    BY <1>1, <1>9
  <2> QED BY <2>1, <2>2, <1>2, <1>4, <1>5, <1>9, KeepOne
<1> HIDE DEF t, x, y
<1>10. Longer(s, u, {Entry(status, a[1])}) /\ Longer(u, t, {Entry(reason, a[2])})
  BY <1>4, <1>8, LongerOne
<1>11. Longer(s, t, {Entry(status, a[1])} \cup {Entry(reason, a[2])})
  BY <1>10, LongerMore
<1>12. Longer(s, t, {Entry(status, a[1]), Entry(reason, a[2])})
  BY <1>11, LongerWider
<1>13. EndIn(t, status) = Entry(status, a[1]) /\ EndIn(t, reason) = Entry(reason, a[2])
  <2>1. Entry(status, a[1]).tag = status /\ Entry(reason, a[2]).tag = reason
    BY DEF Entry
  <2> QED BY <2>1, <1>1, <1>4, <1>8 DEF Grown
<1>14. AllKept(t, type, hit, synth, had, object) /\ (type = "req" => Settled(t))
  BY <1>6, <1>9
<1>15. Longer(s, t, AnswerEntries(type, a)) /\ AnswerNow(t, type, a)
  BY <1>12, <1>13 DEF AnswerEntries, AnswerNow, status, reason
<1> QED BY <1>7, <1>14, <1>15 DEF x, y, status, reason

\* c are the records of a change of the answer a to b.
ChangeOf(type, a, b, c) ==
  \/ c = << >> /\ b = a
  \/ c = R(ReasonTag(type), b[2]) /\ b[1] = a[1]
  \/ c = R(StatusTag(type), b[1]) \o R(ReasonTag(type), b[2])

\* What VCL does to an answer: nothing, a new reason, or another one.
LEMMA ChangedAnswer ==
  ASSUME NEW s \in Seq(Entries), NEW type \in {"req", "bereq"}, NEW a \in Pairs, NEW b \in Pairs,
         NEW hit, NEW synth, NEW had, NEW object, NEW c,
         ChangeOf(type, a, b, c),
         AnswerNow(s, type, a),
         AllKept(s, type, hit, synth, had, object),
         type = "req" => b \in had /\ Settled(s)
  PROVE  /\ c \in Seq(Entries) /\ Longer(s, s \o c, AnswerEntries(type, b))
         /\ AllKept(s \o c, type, hit, synth, had, object)
         /\ AnswerNow(s \o c, type, b)
<1> DEFINE status == StatusTag(type)
           reason == ReasonTag(type)
           t == s \o c
           E == AnswerEntries(type, b)
<1>1. /\ {status, reason} \subseteq Tags \ {"VCL_call", "VCL_return", "Hit"} /\ status # reason
      /\ type = "req" => status = "RespStatus" /\ reason = "RespReason"
      /\ type = "bereq" => status = "BerespStatus" /\ reason = "BerespReason"
  BY AnswerTags
<1>2. b[2] \in Values
  BY PairParts
<1>3. CASE c = << >> /\ b = a
  <2>1. t = s /\ c \in Seq(Entries)
    BY <1>3, NoChange
  <2> HIDE DEF t, status, reason
  <2>2. Longer(s, s, E)
    BY LongerNone, LongerWider
  <2>3. AnswerNow(s, type, b)
    BY <1>3
  <2> QED BY <2>1, <2>2, <2>3 DEF t
<1>4. CASE c = R(reason, b[2]) /\ b[1] = a[1]
  <2>1. MayAdd(s, reason, b[2], type, hit, synth, had, object)
    BY <1>1 DEF MayAdd
  <2> HIDE DEF status, reason
  <2>2. Grown(s, t, Entry(reason, b[2])) /\ c \in Seq(Entries)
    BY <1>1, <1>2, <1>4, Grow, OneRecord
  <2>3. AllKept(t, type, hit, synth, had, object)
    <3>1. CASE type = "req"
      <4>1. AllKept(s \o R("RespReason", b[2]), type, hit, synth, had, object)
        BY <3>1, <1>2, KeepReason
      <4> QED BY <4>1, <3>1, <1>1, <1>4
    <3>2. CASE type = "bereq"
      <4>1. reason \in Tags \ {"RespStatus", "RespReason"}
        BY <1>1, <3>2
      <4>2. AllKept(s \o R(reason, b[2]), type, hit, synth, had, object)
        BY <4>1, <1>2, <2>1, KeepOne
      <4> QED BY <4>2, <1>4
    <3> QED BY <3>1, <3>2
  <2> HIDE DEF t
  <2>4. Longer(s, t, E)
    <3>1. Longer(s, t, {Entry(reason, b[2])})
      BY <2>2, LongerOne
    <3>2. {Entry(reason, b[2])} \subseteq E
      BY DEF AnswerEntries, reason
    <3> HIDE DEF E
    <3> QED BY <3>1, <3>2, LongerWider
  <2>5. Entry(reason, b[2]).tag = reason
    BY DEF Entry
  <2>6. EndIn(s, status) = Entry(status, a[1])
    BY DEF AnswerNow, status
  <2>7. EndIn(t, status) = Entry(status, b[1]) /\ EndIn(t, reason) = Entry(reason, b[2])
    BY <1>1, <1>4, <2>2, <2>5, <2>6 DEF Grown
  <2> QED BY <2>2, <2>3, <2>4, <2>7 DEF t, status, reason, AnswerNow
<1>5. CASE c = R(status, b[1]) \o R(reason, b[2])
  <2> HIDE DEF t
  <2>1. /\ c \in Seq(Entries) /\ Longer(s, t, E)
        /\ AllKept(t, type, hit, synth, had, object)
        /\ AnswerNow(t, type, b)
    <3>1. type = "req" => b \in had
      OBVIOUS
    <3> QED BY <3>1, <1>5, WholeAnswer DEF t
  <2> QED BY <2>1 DEF t
<1> QED BY <1>3, <1>4, <1>5 DEF ChangeOf

CallEntries(type, b, sub, result) ==
  AnswerEntries(type, b) \cup {Entry("VCL_call", sub), Entry("VCL_return", result)}

EndsWith(s, entry) == Len(s) # 0 /\ s[Len(s)] = entry

\* What has to be so for a VCL call that may change the answer a of the log s to b.
MayCall(s, type, a, b, hit, synth, had, object, c, sub, result, u) ==
  /\ s \in Seq(Entries) /\ type \in {"req", "bereq"} /\ a \in Pairs /\ b \in Pairs
  /\ sub \in Values /\ result \in Values
  /\ ChangeOf(type, a, b, c)
  /\ AnswerNow(s, type, a)
  /\ AllKept(s, type, hit, synth, had, object)
  /\ type = "req" => b \in had /\ Settled(s)
  /\ MayAdd(s, "VCL_call", sub, type, hit, synth, had, object)
  /\ result = "deliver" /\ type = "bereq" => object = b
  /\ u = s \o VCL(sub, c, result)

\* A VCL call that may change the answer: what the searches find behind it is the
\* answer as VCL left it, and its return is the last record.
LEMMA ChangingCall ==
  ASSUME NEW s, NEW type, NEW a, NEW b, NEW hit, NEW synth, NEW had, NEW object,
         NEW c, NEW sub, NEW result, NEW u,
         MayCall(s, type, a, b, hit, synth, had, object, c, sub, result, u)
  PROVE  /\ Longer(s, u, CallEntries(type, b, sub, result))
         /\ AllKept(u, type, hit, synth, had, object)
         /\ AnswerNow(u, type, b)
         /\ EndsWith(u, Entry("VCL_return", result))
<1>0. /\ s \in Seq(Entries) /\ type \in {"req", "bereq"} /\ a \in Pairs /\ b \in Pairs
      /\ sub \in Values /\ result \in Values
      /\ ChangeOf(type, a, b, c)
      /\ AnswerNow(s, type, a)
      /\ AllKept(s, type, hit, synth, had, object)
      /\ type = "req" => b \in had /\ Settled(s)
      /\ MayAdd(s, "VCL_call", sub, type, hit, synth, had, object)
      /\ result = "deliver" /\ type = "bereq" => object = b
      /\ u = s \o VCL(sub, c, result)
  BY DEF MayCall
<1> USE <1>0
<1> DEFINE call == "VCL_call"
           return == "VCL_return"
           status == StatusTag(type)
           reason == ReasonTag(type)
<1>1. /\ {call, return} \subseteq Tags \ {"RespStatus", "RespReason", "Hit"}
      /\ call # return /\ call = "VCL_call" /\ return = "VCL_return"
      /\ status # call /\ reason # call /\ status # return /\ reason # return
      /\ type = "req" => status = "RespStatus" /\ reason = "RespReason"
      /\ type = "bereq" => status = "BerespStatus" /\ reason = "BerespReason"
  BY AnswerTags DEF Tags
<1> HIDE DEF call, return, status, reason
<1>2. /\ MayAdd(s, call, sub, type, hit, synth, had, object)
      /\ EndIn(s, status) = Entry(status, a[1]) /\ EndIn(s, reason) = Entry(reason, a[2])
  BY <1>1 DEF status, reason, AnswerNow
<1> DEFINE p == s \o R(call, sub)
           q == p \o c
           t == q \o R(return, result)
<1>3. Grown(s, p, Entry(call, sub)) /\ AllKept(p, type, hit, synth, had, object)
  BY <1>1, <1>2, Grow, KeepOne
<1> HIDE DEF p
<1>4. /\ p \in Seq(Entries) /\ EndIn(p, status) = Entry(status, a[1])
      /\ EndIn(p, reason) = Entry(reason, a[2])
      /\ type = "req" => b \in had /\ Settled(p)
  <2>1. Entry(call, sub).tag = call /\ Entry(call, sub) # ReturnDeliver
    BY <1>1 DEF Entry, ReturnDeliver
  <2> QED BY <1>1, <1>2, <1>3, <2>1 DEF Grown
<1>5. /\ c \in Seq(Entries) /\ Longer(p, q, AnswerEntries(type, b))
      /\ AllKept(q, type, hit, synth, had, object) /\ AnswerNow(q, type, b)
  <2>1. AnswerNow(p, type, a)
    BY <1>4 DEF AnswerNow, status, reason
  <2> QED BY <2>1, <1>3, <1>4, ChangedAnswer
<1> HIDE DEF q
<1>6. q \in Seq(Entries)
  BY <1>5 DEF Longer
<1>7. MayAdd(q, return, result, type, hit, synth, had, object)
  <2>1. /\ <<EndIn(q, status).value, EndIn(q, reason).value>> = <<b[1], b[2]>>
    BY <1>5 DEF Entry, AnswerNow, status, reason
  <2>2. <<EndIn(q, status).value, EndIn(q, reason).value>> = b
    BY <2>1, PairParts
  <2> QED BY <1>1, <2>2 DEF MayAdd
<1>8. Grown(q, t, Entry(return, result)) /\ AllKept(t, type, hit, synth, had, object)
  BY <1>1, <1>5, <1>6, <1>7, Grow, KeepOne
<1>9. t = u
  <2>1. \A d \in Seq(Entries) :
            /\ VCL(sub, d, result) \in Seq(Entries)
            /\ s \o VCL(sub, d, result)
                 = ((s \o R("VCL_call", sub)) \o d) \o R("VCL_return", result)
    <3> HIDE DEF t
    <3> QED BY CallRecords, Zenon
  <2>2. t = ((s \o R("VCL_call", sub)) \o c) \o R("VCL_return", result)
    BY <1>1 DEF p, q
  <2> QED BY <2>1, <2>2, <1>5
<1> HIDE DEF t
<1>10. Longer(s, p, {Entry(call, sub)}) /\ Longer(q, t, {Entry(return, result)})
  BY <1>3, <1>8, LongerOne
<1>11. Longer(s, t, ({Entry(call, sub)} \cup AnswerEntries(type, b)) \cup {Entry(return, result)})
  BY <1>5, <1>10, LongerMore
<1>12. Longer(s, t, CallEntries(type, b, sub, result))
  <2>1. ({Entry(call, sub)} \cup AnswerEntries(type, b)) \cup {Entry(return, result)}
          \subseteq CallEntries(type, b, sub, result)
    BY <1>1 DEF CallEntries
  <2> QED BY <1>11, <2>1, LongerWider
<1>13. AnswerNow(t, type, b)
  <2>1. Entry(return, result).tag = return
    BY DEF Entry
  <2> QED BY <1>1, <1>5, <1>8, <2>1 DEF Grown, AnswerNow, status, reason
<1>14. EndsWith(t, Entry(return, result))
  BY <1>8 DEF Grown, EndsWith
<1> QED BY <1>1, <1>8, <1>9, <1>12, <1>13, <1>14
-----------------------------------------------------------------------------
(* What happens to the worker *)

\* Requests are triples and answers are pairs, those of the code too.
LEMMA PairsOK ==
  /\ Requests \subseteq Triples /\ Answers \subseteq Pairs
  /\ {NoAnswer, OK, Partial} \subseteq Pairs
<1>1. ASSUME NEW a \in Answers
      PROVE  a \in Pairs
  <2>1. a[1] \in Values /\ a[2] \in Values /\ a = <<a[1], a[2]>>
    BY AnswersAssumption DEF Values
  <2> QED BY <2>1 DEF Pairs
<1>3. ASSUME NEW r \in Requests
      PROVE  r \in Triples
  <2>1. r[1] \in Values /\ r[2] \in Values /\ r[3] \in Values /\ r = <<r[1], r[2], r[3]>>
    BY RequestsAssumption DEF Values
  <2> QED BY <2>1 DEF Triples
<1>2. {NoAnswer, OK, Partial} \subseteq Pairs
  <2>1. {"none", "200", "OK", "206", "Partial Content"} \subseteq Values
    BY DEF Values, Words
  <2>2. \A a, b \in Values : <<a, b>> \in Pairs
    BY DEF Pairs
  <2> QED BY <2>1, <2>2 DEF NoAnswer, OK, Partial
<1> QED BY <1>1, <1>2, <1>3

\* What happened may be more, or what has not happened yet.
LEMMA KeptMore ==
  ASSUME NEW s, NEW type, NEW hit, NEW synth, NEW had, NEW object, NEW more,
         AllKept(s, type, hit, synth, had, object), had \subseteq more
  PROVE  AllKept(s, type, hit, synth, more, object)
BY DEF AllKept, Kept

\* Before a hit is logged the log says nothing of the object that was hit.
LEMMA KeptHit ==
  ASSUME NEW s, NEW type, NEW hit, NEW synth, NEW had, NEW object, NEW other,
         AllKept(s, type, hit, synth, had, object), NoHit(s)
  PROVE  AllKept(s, type, other, synth, had, object)
BY DEF AllKept, Kept, NoHit

\* Before a synth is logged the log says nothing of the answer it was entered with.
LEMMA KeptSynth ==
  ASSUME NEW s, NEW type, NEW hit, NEW synth, NEW had, NEW object, NEW other,
         AllKept(s, type, hit, synth, had, object), Lacks(s, Entry("VCL_call", "SYNTH"))
  PROVE  AllKept(s, type, hit, other, had, object)
BY DEF AllKept, Kept, Lacks

\* Before a fetch returns deliver the log says nothing of the object it made.
LEMMA KeptObject ==
  ASSUME NEW s, NEW type, NEW hit, NEW synth, NEW had, NEW object, NEW other,
         AllKept(s, type, hit, synth, had, object), type = "bereq" => Lacks(s, ReturnDeliver)
  PROVE  AllKept(s, type, hit, synth, had, other)
BY DEF AllKept, Kept, Lacks

\* A change VCL makes is one of the answer.
LEMMA ChangesAreChanges ==
  ASSUME TypesOK, NEW change \in Changes
  PROVE  change.to \in Pairs /\ ChangeOf(txtype, answer, change.to, change.by)
<1>1. CASE change = [to |-> answer, by |-> << >>]
  BY <1>1 DEF TypesOK, ChangeOf
<1>2. ASSUME NEW a \in Answers, change = [to |-> a, by |-> AnswerRecords(a)]
      PROVE  change.to \in Pairs /\ ChangeOf(txtype, answer, change.to, change.by)
  <2>1. AnswerRecords(a) = R(StatusTag(txtype), a[1]) \o R(ReasonTag(txtype), a[2])
    BY DEF AnswerRecords, StatusTag, ReasonTag
  <2> QED BY <1>2, <2>1, PairsOK DEF ChangeOf
<1>3. ASSUME NEW a \in Answers, change = [to |-> <<answer[1], a[2]>>, by |-> ReasonRecord(a)]
      PROVE  change.to \in Pairs /\ ChangeOf(txtype, answer, change.to, change.by)
  <2>1. ReasonRecord(a) = R(ReasonTag(txtype), a[2])
    BY DEF ReasonRecord, ReasonTag
  <2>2. answer[1] \in Values /\ a[2] \in Values
    BY PairsOK, PairParts DEF TypesOK
  <2>3. <<answer[1], a[2]>> \in Pairs /\ <<answer[1], a[2]>>[1] = answer[1]
        /\ <<answer[1], a[2]>>[2] = a[2]
    BY <2>2 DEF Pairs
  <2> QED BY <1>3, <2>1, <2>3 DEF ChangeOf
<1> QED BY <1>1, <1>2, <1>3 DEF Changes

\* Records that name neither the request nor the answer leave them as they were.
RequestTags == {"ReqMethod", "ReqURL", "BereqMethod", "BereqURL", "Host"}
AllAnswerTags == {"RespStatus", "RespReason", "BerespStatus", "BerespReason"}

\* Records of other tags leave the answer a search finds.
LEMMA SameAnswer ==
  ASSUME NEW s, NEW t, NEW E, Longer(s, t, E), \A e \in E : e.tag \notin AllAnswerTags,
         NEW type, NEW a
  PROVE  /\ AnswerNow(s, type, a) => AnswerNow(t, type, a)
         /\ NoAnswerNow(s, type) => NoAnswerNow(t, type)
<1>1. \A w \in {StatusTag(type), ReasonTag(type)} : EndIn(t, w) = EndIn(s, w)
  BY DEF Longer, StatusTag, ReasonTag, AllAnswerTags
<1> QED BY <1>1 DEF AnswerNow, NoAnswerNow

\* Records of other tags leave the request a search finds.
LEMMA SameRequest ==
  ASSUME NEW s, NEW t, NEW E, Longer(s, t, E), \A e \in E : e.tag \notin RequestTags,
         NEW type, NEW r
  PROVE  RequestNow(s, type, r) => RequestNow(t, type, r)
<1>1. \A w \in {MethodTag(type), URLTag(type), "Host"} : EndIn(t, w) = EndIn(s, w)
  BY DEF Longer, MethodTag, URLTag, RequestTags
<1> QED BY <1>1 DEF RequestNow

\* A step of a worker that has started and not ended.
LEMMA Advance ==
  ASSUME WorkerInv, at \notin {"start", "end"}, TypesOK', at' # "start",
         txtype' = txtype, truth'.received = truth.received, truth'.got = truth.got,
         NEW E, Longer(records, records', E),
         RequestNow(records, txtype, request)
           => RequestNow(records', txtype, request'),
         txtype = "bereq" => request' = truth'.sent,
         AnswerLogged', AnswerHeld', LogKept',
         at' \in {"recv", "hash", "hit"} =>
           at \in {"recv", "hash", "hit"} /\ \A e \in E : e.tag # "Hit",
         at' \notin {"transmit", "restart", "end"} =>
           at \notin {"transmit", "restart", "end"} /\ Entry("VCL_call", "SYNTH") \notin E,
         txtype = "bereq" /\ at' # "end" => ReturnDeliver \notin E,
         at' \notin {"respond", "transmit", "end"} => Settled(records')
  PROVE  WorkerInv'
<1>1. RequestLogged'
  <2>1. RequestNow(records, txtype, request) /\ RequestNow(records', txtype, request')
    BY DEF WorkerInv, RequestLogged
  <2>2. ASSUME txtype = "req"
        PROVE  /\ NextIn(records', "ReqMethod", 0) = Entry("ReqMethod", truth.received[1])
               /\ NextIn(records', "ReqURL", 0) = Entry("ReqURL", truth.received[2])
               /\ NextIn(records', "Host", 0) = Entry("Host", truth.received[3])
    <3>1. /\ NextIn(records, "ReqMethod", 0) = Entry("ReqMethod", truth.received[1])
          /\ NextIn(records, "ReqURL", 0) = Entry("ReqURL", truth.received[2])
          /\ NextIn(records, "Host", 0) = Entry("Host", truth.received[3])
      BY <2>2 DEF WorkerInv, RequestLogged
    <3>2. \A v : /\ Entry("ReqMethod", v) # NoRecord /\ Entry("ReqURL", v) # NoRecord
                 /\ Entry("Host", v) # NoRecord
      BY DEF Entry, NoRecord
    <3> QED BY <3>1, <3>2 DEF Longer
  <2> QED BY <2>1, <2>2 DEF RequestLogged
<1>2. Once'
  <2>1. at' \in {"start", "recv", "hash", "hit"} => NoHit(records')
    BY DEF WorkerInv, Once, Longer
  <2>2. at' \notin {"transmit", "restart", "end"} => Lacks(records', Entry("VCL_call", "SYNTH"))
    BY DEF WorkerInv, Once, Longer
  <2>3. txtype = "bereq" /\ at' # "end" => Lacks(records', ReturnDeliver)
    BY DEF WorkerInv, Once, Longer
  <2> QED BY <2>1, <2>2, <2>3 DEF Once
<1>3. Got'
  BY DEF WorkerInv, Got
<1> QED BY <1>1, <1>2, <1>3 DEF WorkerInv
-----------------------------------------------------------------------------
(* The invariant is kept by every step of the worker *)

\* A call whose sub shows nothing, with a result that is no delivery, may always be added.
LEMMA QuietRecord ==
  ASSUME NEW s, NEW tag, NEW value, NEW type, NEW hit, NEW synth, NEW had, NEW object,
         tag # "Hit",
         tag = "VCL_call" => value \notin {"RECV", "BACKEND_FETCH", "HIT", "SYNTH"},
         tag = "VCL_return" => value # "deliver"
  PROVE  MayAdd(s, tag, value, type, hit, synth, had, object)
BY DEF MayAdd

\* What the invariant says, as the lemmas about calls take it.
LEMMA InvFacts ==
  ASSUME WorkerInv
  PROVE  /\ records \in Seq(Entries) /\ txtype \in {"req", "bereq"}
         /\ AllKept(records, txtype, truth.hit, truth.synth, Had, truth.object)
         /\ request \in Triples /\ answer \in Pairs /\ truth.had \subseteq Pairs
         /\ at \notin {"respond", "transmit", "end"} => Settled(records)
BY DEF WorkerInv, TypesOK, LogKept, Once

\* A log of one record holds nothing of another tag.
LEMMA FirstRecord ==
  ASSUME NEW tag \in Tags, NEW value \in Values, NEW wanted, wanted # tag
  PROVE  NextIn(<< >> \o R(tag, value), wanted, 0) = NoRecord
<1> DEFINE s == << >>
           t == s \o R(tag, value)
<1>1. s \in Seq(Entries) /\ Len(s) = 0
  OBVIOUS
<1> HIDE DEF s
<1>2. DOMAIN t = 1..(Len(s) + 1) /\ t[Len(s) + 1] = Entry(tag, value)
  BY <1>1, OneMore
<1>3. \A m \in DOMAIN t : m = 1 /\ t[m] = Entry(tag, value)
  BY <1>1, <1>2
<1>4. \A m \in DOMAIN t : t[m].tag # wanted
  BY <1>3 DEF Entry
<1> HIDE DEF t
<1>5. NextIn(t, wanted, 0) = NoRecord
  BY <1>4, NextNone
<1> QED BY <1>5 DEF t, s

\* Start logs the first records of the transaction.
LEMMA StartKeeps ==
  ASSUME WorkerInv, Start, txtype' = txtype
  PROVE  WorkerInv'
<1>1. /\ records = << >> /\ request = truth.received /\ at = "start" /\ txtype \in {"req", "bereq"}
      /\ request \in Triples
  BY DEF WorkerInv, RequestLogged, TypesOK, Start
<1>2. request[1] \in Values /\ request[2] \in Values /\ request[3] \in Values
  BY <1>1, TripleParts
<1> DEFINE method == MethodTag(txtype)
           url == URLTag(txtype)
           begin == "Begin"
           host == "Host"
<1>3. /\ {method, url, begin, host}
           \subseteq Tags \ (AllAnswerTags \cup {"VCL_call", "VCL_return", "Hit"})
      /\ method # url /\ begin \notin {method, url} /\ host \notin {begin, method, url}
      /\ method \notin {"RespStatus", "RespReason"}
      /\ txtype = "req" => method = "ReqMethod" /\ url = "ReqURL"
      /\ txtype \in Values /\ host = "Host"
  BY <1>1 DEF MethodTag, URLTag, Tags, AllAnswerTags, Values, Words
<1>4. records' = << >> \o (((R(begin, txtype) \o R(method, request[1]))
                              \o R(url, request[2])) \o R(host, request[3]))
  BY <1>1 DEF Start, Log, MethodTag, URLTag, URLRecord, HostRecord
<1> HIDE DEF method, url, begin, host
<1> DEFINE e == << >>
           a == e \o R(begin, txtype)
           b == a \o R(method, request[1])
           c == b \o R(url, request[2])
           d == c \o R(host, request[3])
<1>5. e \in Seq(Entries) /\ Len(e) = 0
  OBVIOUS
<1>6. /\ \A w : EndIn(e, w) = NoRecord /\ NextIn(e, w, 0) = NoRecord
      /\ NoHit(e) /\ Settled(e) /\ \A x : Lacks(e, x)
      /\ AllKept(e, txtype, truth.hit, truth.synth, Had', truth.object)
  BY DEF EndIn, LastIn, NextIn, NoHit, Settled, Lacks, AllKept
<1>7. records' = d
  <2>1. /\ R(begin, txtype) \in Seq(Entries) /\ R(method, request[1]) \in Seq(Entries)
        /\ R(url, request[2]) \in Seq(Entries) /\ R(host, request[3]) \in Seq(Entries)
    BY <1>2, <1>3, OneRecord
  <2> DEFINE x == R(begin, txtype)
             y == R(method, request[1])
             z == R(url, request[2])
             v == R(host, request[3])
  <2> HIDE DEF x, y, z, v
  <2>2. << >> \o ((x \o y) \o z) \o v = (((<< >> \o x) \o y) \o z) \o v
    <3>1. << >> \o x = x
      BY <2>1, NoChange DEF x
    <3>2. ((x \o y) \o z) \o v \in Seq(Entries)
      BY <2>1, ConcatProperties DEF x, y, z, v
    <3>3. << >> \o (((x \o y) \o z) \o v) = ((x \o y) \o z) \o v
      BY <3>2, NoChange
    <3> QED BY <3>1, <3>3
  <2> QED BY <1>4, <2>2 DEF x, y, z, v
<1> HIDE DEF e
<1> DEFINE Ok(s) == AllKept(s, txtype, truth.hit, truth.synth, Had', truth.object)
<1>8. \A s \in Seq(Entries) : \A tag \in {method, url, begin, host} : \A value \in Values :
        Ok(s) => Grown(s, s \o R(tag, value), Entry(tag, value)) /\ Ok(s \o R(tag, value))
  <2> SUFFICES ASSUME NEW s \in Seq(Entries), NEW tag \in {method, url, begin, host},
                      NEW value \in Values, Ok(s)
               PROVE  Grown(s, s \o R(tag, value), Entry(tag, value)) /\ Ok(s \o R(tag, value))
    OBVIOUS
  <2>1. tag \in Tags \ {"RespStatus", "RespReason"} /\ tag \notin {"VCL_call", "VCL_return", "Hit"}
    BY <1>3 DEF AllAnswerTags
  <2>2. MayAdd(s, tag, value, txtype, truth.hit, truth.synth, Had', truth.object)
    BY <2>1, QuietRecord
  <2> QED BY <2>1, <2>2, Grow, KeepOne
<1>9. /\ Grown(e, a, Entry(begin, txtype)) /\ Ok(a)
      /\ \A w : w # begin => NextIn(a, w, 0) = NoRecord
  <2>1. begin \in Tags /\ txtype \in Values
    BY <1>3
  <2>2. ASSUME NEW w, w # begin
        PROVE  NextIn(e \o R(begin, txtype), w, 0) = NoRecord
    BY <2>1, <2>2, FirstRecord DEF e
  <2>3. Ok(e) /\ begin \in {method, url, begin, host}
    BY <1>6
  <2> QED BY <1>5, <1>8, <2>1, <2>2, <2>3
<1> HIDE DEF a
<1>10. a \in Seq(Entries)
  BY <1>9 DEF Grown
<1>11. /\ Grown(a, b, Entry(method, request[1])) /\ Ok(b)
       /\ NextIn(b, method, 0) = Entry(method, request[1]) /\ NextIn(b, url, 0) = NoRecord
       /\ NextIn(b, host, 0) = NoRecord
  <2>1. 0 \in 0..Len(a)
    BY <1>10, LenProperties
  <2>2. /\ NextIn(b, method, 0) = IF NextIn(a, method, 0) # NoRecord \/ method # method
                                  THEN NextIn(a, method, 0) ELSE Entry(method, request[1])
        /\ NextIn(b, url, 0) = IF NextIn(a, url, 0) # NoRecord \/ url # method
                                  THEN NextIn(a, url, 0) ELSE Entry(method, request[1])
        /\ NextIn(b, host, 0) = IF NextIn(a, host, 0) # NoRecord \/ host # method
                                  THEN NextIn(a, host, 0) ELSE Entry(method, request[1])
    BY <1>2, <1>3, <1>10, <2>1, NextMoves
  <2>3. NextIn(a, method, 0) = NoRecord /\ NextIn(a, url, 0) = NoRecord /\ NextIn(a, host, 0) = NoRecord
    BY <1>3, <1>9
  <2>4. Grown(a, b, Entry(method, request[1])) /\ Ok(b)
    BY <1>2, <1>3, <1>8, <1>9, <1>10
  <2> HIDE DEF b, Ok
  <2> QED BY <1>3, <2>2, <2>3, <2>4
<1> HIDE DEF b
<1>12. b \in Seq(Entries)
  BY <1>11 DEF Grown
<1>13. /\ Grown(b, c, Entry(url, request[2])) /\ Ok(c)
       /\ NextIn(c, url, 0) = Entry(url, request[2]) /\ NextIn(c, host, 0) = NoRecord
  <2>1. 0 \in 0..Len(b)
    BY <1>12, LenProperties
  <2>2. /\ NextIn(c, url, 0) = IF NextIn(b, url, 0) # NoRecord \/ url # url
                               THEN NextIn(b, url, 0) ELSE Entry(url, request[2])
        /\ NextIn(c, host, 0) = IF NextIn(b, host, 0) # NoRecord \/ host # url
                                THEN NextIn(b, host, 0) ELSE Entry(url, request[2])
    BY <1>2, <1>3, <1>12, <2>1, NextMoves
  <2> QED BY <1>2, <1>3, <1>8, <1>11, <1>12, <2>2
<1> HIDE DEF c
<1>14. c \in Seq(Entries)
  BY <1>13 DEF Grown
<1>15. /\ Grown(c, d, Entry(host, request[3])) /\ Ok(d)
       /\ NextIn(d, host, 0) = Entry(host, request[3])
  <2>1. 0 \in 0..Len(c)
    BY <1>14, LenProperties
  <2>2. NextIn(d, host, 0) = IF NextIn(c, host, 0) # NoRecord \/ host # host
                             THEN NextIn(c, host, 0) ELSE Entry(host, request[3])
    BY <1>2, <1>3, <1>14, <2>1, NextMoves
  <2> QED BY <1>2, <1>3, <1>8, <1>13, <1>14, <2>2
<1> HIDE DEF d, Ok
<1>16. \A x, y : Entry(x, y).tag = x /\ Entry(x, y).value = y
  BY DEF Entry
<1>17. /\ EndIn(d, method) = Entry(method, request[1]) /\ EndIn(d, url) = Entry(url, request[2])
       /\ EndIn(d, host) = Entry(host, request[3])
       /\ \A w \in AllAnswerTags : EndIn(d, w) = NoRecord
       /\ NoHit(d) /\ Settled(d) /\ \A x : x.tag \notin {begin, method, url, host} => Lacks(d, x)
  <2>1. /\ EndIn(d, method) = Entry(method, request[1]) /\ EndIn(d, url) = Entry(url, request[2])
        /\ EndIn(d, host) = Entry(host, request[3])
    BY <1>3, <1>11, <1>13, <1>15, <1>16 DEF Grown
  <2>2. \A w \in AllAnswerTags : EndIn(d, w) = NoRecord
    <3> SUFFICES ASSUME NEW w \in AllAnswerTags
                 PROVE  EndIn(d, w) = NoRecord
      OBVIOUS
    <3>1. w \notin {begin, method, url, host}
      BY <1>3
    <3> QED BY <3>1, <1>6, <1>9, <1>11, <1>13, <1>15, <1>16 DEF Grown
  <2>3. NoHit(d)
    BY <1>3, <1>6, <1>9, <1>11, <1>13, <1>15, <1>16 DEF Grown
  <2>4. ReturnDeliver.tag = "VCL_return"
    BY DEF ReturnDeliver, Entry
  <2>5. Settled(d)
    BY <1>3, <1>6, <1>9, <1>11, <1>13, <1>15, <1>16, <2>4 DEF Grown
  <2>6. \A x : x.tag \notin {begin, method, url, host} => Lacks(d, x)
    BY ZenonT(60), <1>6, <1>9, <1>11, <1>13, <1>15, <1>16 DEF Grown
  <2> QED BY <2>1, <2>2, <2>3, <2>5, <2>6
<1>18. txtype = "req" => /\ NextIn(d, "ReqMethod", 0) = Entry("ReqMethod", request[1])
                         /\ NextIn(d, "ReqURL", 0) = Entry("ReqURL", request[2])
                         /\ NextIn(d, "Host", 0) = Entry("Host", request[3])
  <2>1. Entry(method, request[1]) # NoRecord /\ Entry(url, request[2]) # NoRecord
    BY <1>3 DEF Entry, NoRecord, Tags
  <2>2. NextIn(d, method, 0) = Entry(method, request[1]) /\ NextIn(d, url, 0) = Entry(url, request[2])
    BY <1>11, <1>13, <1>15, <2>1 DEF Grown
  <2> QED BY <1>3, <1>15, <2>2
<1>19. /\ at' = IF txtype = "req" THEN "recv" ELSE "fetch"
       /\ request' = request /\ answer' = answer /\ truth' = truth
  BY DEF Start
<1>20. TypesOK'
  BY <1>7, <1>15, <1>19 DEF WorkerInv, TypesOK, Grown
<1>21. RequestLogged'
  <2>1. RequestNow(records', txtype', request')
    BY <1>3, <1>7, <1>16, <1>17, <1>19 DEF RequestNow, method, url
  <2>2. txtype = "bereq" => request' = truth'.sent
    BY <1>19 DEF WorkerInv, RequestLogged
  <2> QED BY <1>1, <1>7, <1>18, <1>19, <2>1, <2>2 DEF RequestLogged
<1>22. AnswerLogged'
  <2>1. NoAnswerNow(records', txtype')
    BY <1>1, <1>7, <1>17 DEF NoAnswerNow, StatusTag, ReasonTag, AllAnswerTags
  <2>2. at' \notin Answered
    BY <1>19 DEF Answered
  <2> QED BY <2>1, <2>2 DEF AnswerLogged
<1>23. Once'
  <2>1. Lacks(records', Entry("VCL_call", "SYNTH")) /\ Lacks(records', ReturnDeliver)
    BY <1>3, <1>7, <1>16, <1>17 DEF ReturnDeliver
  <2> QED BY <1>7, <1>17, <2>1 DEF Once
<1>24. AnswerHeld'
  BY <1>19 DEF AnswerHeld
<1>25. LogKept'
  BY <1>7, <1>15, <1>19 DEF LogKept, Ok
<1>26. Got'
  BY <1>1, <1>19 DEF WorkerInv, Got
<1> QED BY <1>20, <1>21, <1>22, <1>23, <1>24, <1>25, <1>26 DEF WorkerInv
-----------------------------------------------------------------------------
(* Records that say nothing of the request, the answer or the object *)

QuietEntries ==
  {e \in Entries : /\ e.tag \notin RequestTags \cup AllAnswerTags \cup {"Hit"}
                   /\ e.tag = "VCL_call" => e.value \notin {"RECV", "BACKEND_FETCH", "HIT", "SYNTH"}
                   /\ e.tag = "VCL_return" => e.value # "deliver"}

QuietChunk(c) ==
  /\ c \in Seq(Entries)
  /\ \A s \in Seq(Entries) :
       /\ Longer(s, s \o c, QuietEntries)
       /\ \A type, hit, synth, had, object :
            AllKept(s, type, hit, synth, had, object) => AllKept(s \o c, type, hit, synth, had, object)

\* No records are quiet ones.
LEMMA QuietNone == QuietChunk(<< >>)
<1> DEFINE c == << >>
<1>1. c \in Seq(Entries) /\ \A s \in Seq(Entries) : s \o c = s
  BY NoChange, EmptySeq
<1> HIDE DEF c
<1>2. \A s \in Seq(Entries) : Longer(s, s, QuietEntries)
  BY LongerNone, LongerWider
<1>3. QuietChunk(c)
  BY <1>1, <1>2 DEF QuietChunk
<1> QED BY <1>3 DEF c

\* One record that no answer, no request and no hit is read from.
LEMMA QuietOne ==
  ASSUME NEW tag, NEW value, Entry(tag, value) \in QuietEntries
  PROVE  QuietChunk(R(tag, value))
<1>1. tag \in Tags /\ value \in Values
  BY DEF QuietEntries, Entry, Entries
<1>2. /\ tag \notin {"RespStatus", "RespReason", "Hit"}
      /\ tag = "VCL_call" => value \notin {"RECV", "BACKEND_FETCH", "HIT", "SYNTH"}
      /\ tag = "VCL_return" => value # "deliver"
  BY DEF QuietEntries, Entry, AllAnswerTags
<1>3. ASSUME NEW s \in Seq(Entries)
      PROVE  Longer(s, s \o R(tag, value), QuietEntries)
  BY <1>1, Grow, LongerOne, LongerWider
<1>4. ASSUME NEW s \in Seq(Entries), NEW type, NEW hit, NEW synth, NEW had, NEW object,
             AllKept(s, type, hit, synth, had, object)
      PROVE  AllKept(s \o R(tag, value), type, hit, synth, had, object)
  <2>1. MayAdd(s, tag, value, type, hit, synth, had, object)
    BY <1>2, QuietRecord
  <2> QED BY <1>1, <1>2, <1>4, <2>1, KeepOne
<1>5. R(tag, value) \in Seq(Entries)
  BY <1>1, OneRecord
<1> QED BY <1>3, <1>4, <1>5 DEF QuietChunk

\* Quiet records and more of them.
LEMMA QuietMore ==
  ASSUME NEW c, NEW d, QuietChunk(c), QuietChunk(d)
  PROVE  QuietChunk(c \o d)
<1>1. c \in Seq(Entries) /\ d \in Seq(Entries) /\ c \o d \in Seq(Entries)
  BY ConcatProperties DEF QuietChunk
<1>2. ASSUME NEW s \in Seq(Entries)
      PROVE  s \o (c \o d) = (s \o c) \o d /\ s \o c \in Seq(Entries)
  <2>1. s \o (c \o d) = (s \o c) \o d
    BY <1>1, ConcatAssociative
  <2>2. s \o c \in Seq(Entries)
    BY <1>1, ConcatProperties
  <2> QED BY <2>1, <2>2
<1>3. ASSUME NEW s \in Seq(Entries)
      PROVE  Longer(s, s \o (c \o d), QuietEntries)
  <2>1. Longer(s, s \o c, QuietEntries) /\ Longer(s \o c, (s \o c) \o d, QuietEntries)
    BY <1>2 DEF QuietChunk
  <2>2. Longer(s, (s \o c) \o d, QuietEntries \cup QuietEntries)
    BY <2>1, LongerMore
  <2>3. QuietEntries \cup QuietEntries = QuietEntries
    OBVIOUS
  <2> QED BY <1>2, <2>2, <2>3
<1>4. ASSUME NEW s \in Seq(Entries), NEW type, NEW hit, NEW synth, NEW had, NEW object,
             AllKept(s, type, hit, synth, had, object)
      PROVE  AllKept(s \o (c \o d), type, hit, synth, had, object)
  BY <1>2, <1>4 DEF QuietChunk
<1> QED BY <1>1, <1>3, <1>4 DEF QuietChunk

\* The call of a sub, and what follows it, when none of it is shown by a later search.
LEMMA QuietCall ==
  ASSUME NEW sub \in Words \ {"RECV", "BACKEND_FETCH", "HIT", "SYNTH"}, NEW result \in Words \ {"deliver"}
  PROVE  QuietChunk(VCL(sub, << >>, result))
<1>1. Entry("VCL_call", sub) \in QuietEntries /\ Entry("VCL_return", result) \in QuietEntries
  BY DEF QuietEntries, Entry, Entries, Tags, Values, RequestTags, AllAnswerTags
<1> DEFINE a == R("VCL_call", sub)
           b == << >>
           c == R("VCL_return", result)
<1>2. QuietChunk(a) /\ QuietChunk(b) /\ QuietChunk(c)
  BY <1>1, QuietOne, QuietNone
<1> HIDE DEF a, b, c
<1>3. QuietChunk((a \o b) \o c)
  <2>1. QuietChunk(a \o b)
    BY <1>2, QuietMore
  <2> QED BY <1>2, <2>1, QuietMore
<1> QED BY <1>3 DEF VCL, a, b, c

\* The steps of a worker that log such records only, and change nothing else.
QuietMoves ==
  {<<"hash", "hit">>, <<"pipe", "end">>, <<"hit", "wait">>, <<"hit", "pass">>, <<"hit", "synth">>,
   <<"pass", "wait">>, <<"pass", "synth">>, <<"wait", "respond">>, <<"restart", "end">>,
   <<"connect", "error">>}

\* A step that logs only quiet records keeps the invariant.
LEMMA QuietStep ==
  ASSUME WorkerInv, txtype' = txtype, request' = request, answer' = answer, truth' = truth,
         <<at, at'>> \in QuietMoves,
         NEW c, QuietChunk(c), records' = records \o c
  PROVE  WorkerInv'
<1>1. /\ at \notin {"start", "end", "deliver", "respond"} /\ at' \notin {"start", "deliver", "vcl_synth", "transmit"}
      /\ at' \notin Answered
      /\ at' \in Unanswered => at \in Unanswered
      /\ at' \in {"recv", "hash", "hit"} => at \in {"recv", "hash", "hit"}
      /\ at' \notin {"transmit", "restart", "end"} => at \notin {"transmit", "restart", "end"}
      /\ at' \notin {"respond", "transmit", "end"} => at \notin {"respond", "transmit", "end"}
  BY DEF QuietMoves, Answered, Unanswered
<1>2. /\ records \in Seq(Entries) /\ txtype \in {"req", "bereq"}
      /\ AllKept(records, txtype, truth.hit, truth.synth, Had, truth.object)
      /\ at \notin {"respond", "transmit", "end"} => Settled(records)
  BY InvFacts
<1>3. /\ Longer(records, records', QuietEntries)
      /\ AllKept(records', txtype, truth.hit, truth.synth, Had, truth.object)
  BY <1>2 DEF QuietChunk
<1>4. /\ \A e \in QuietEntries : e.tag \notin RequestTags /\ e.tag \notin AllAnswerTags /\ e.tag # "Hit"
      /\ Entry("VCL_call", "SYNTH") \notin QuietEntries /\ ReturnDeliver \notin QuietEntries
  BY DEF QuietEntries, Entry, ReturnDeliver
<1>5. TypesOK'
  <2>1. records' \in Seq(Entries)
    BY <1>3 DEF Longer
  <2>2. at' \in IF txtype = "req"
                THEN {"start", "recv", "hash", "pass", "synth", "pipe", "hit", "wait", "respond",
                      "deliver", "transmit", "restart", "vcl_synth", "end"}
                ELSE {"start", "fetch", "connect", "error", "response", "backend_error", "end"}
    BY DEF WorkerInv, TypesOK, QuietMoves
  <2> QED BY <2>1, <2>2 DEF WorkerInv, TypesOK
<1>6. RequestNow(records, txtype, request) => RequestNow(records', txtype, request')
  BY <1>3, <1>4, SameRequest
<1>7. AnswerLogged'
  <2>1. NoAnswerNow(records, txtype) => NoAnswerNow(records', txtype)
    BY <1>3, <1>4, SameAnswer
  <2> QED BY <1>1, <2>1 DEF WorkerInv, AnswerLogged
<1>8. AnswerHeld'
  BY <1>1 DEF AnswerHeld
<1>9. LogKept'
  <2>1. Had = truth.had /\ Had' = truth.had
    BY <1>1 DEF Had
  <2> QED BY <1>3, <2>1 DEF LogKept
<1>10. txtype = "bereq" => request' = truth'.sent
  BY DEF WorkerInv, RequestLogged
<1>11. at' \notin {"respond", "transmit", "end"} => Settled(records')
  BY <1>1, <1>2, <1>3, <1>4 DEF Longer
<1> QED BY <1>1, <1>3, <1>4, <1>5, <1>6, <1>7, <1>8, <1>9, <1>10, <1>11, Advance

\* The steps that log only quiet records.
LEMMA QuietStepsKeep ==
  ASSUME WorkerInv, txtype' = txtype,
         Pipe \/ Lookup \/ Miss \/ HitForPass \/ Pass \/ Wait \/ Restart \/ ConnectFails
  PROVE  WorkerInv'
<1> DEFINE Quiet(tag, value) == Entry(tag, value) \in QuietEntries
<1>1. /\ Quiet("End", "") /\ Quiet("HitMiss", "object") /\ Quiet("HitPass", "object")
      /\ Quiet("Link", "child") /\ Quiet("Link", "missing") /\ Quiet("FetchError", "text")
  BY DEF QuietEntries, Entry, Entries, Tags, Values, Words, RequestTags, AllAnswerTags
<1>2. /\ QuietChunk(R("End", "")) /\ QuietChunk(R("HitMiss", "object"))
      /\ QuietChunk(R("HitPass", "object")) /\ QuietChunk(R("Link", "child"))
      /\ QuietChunk(R("Link", "missing")) /\ QuietChunk(R("FetchError", "text"))
  BY <1>1, QuietOne
<1>3. /\ QuietChunk(VCL("PIPE", << >>, "pipe"))
      /\ \A result \in {"fetch", "pass", "synth"} :
           QuietChunk(VCL("MISS", << >>, result)) /\ QuietChunk(VCL("PASS", << >>, result))
  <2>1. /\ {"PIPE", "MISS", "PASS"} \subseteq Words \ {"RECV", "BACKEND_FETCH", "HIT", "SYNTH"}
        /\ {"pipe", "fetch", "pass", "synth"} \subseteq Words \ {"deliver"}
    BY DEF Words
  <2> QED BY <2>1, QuietCall
<1>4. ASSUME Pipe PROVE WorkerInv'
  <2>1. QuietChunk(VCL("PIPE", << >>, "pipe") \o R("End", ""))
    BY <1>2, <1>3, QuietMore
  <2>2. <<at, at'>> \in QuietMoves
    BY <1>4 DEF Pipe, QuietMoves
  <2> QED BY <1>4, <2>1, <2>2, QuietStep DEF Pipe, Log
<1>5. ASSUME Lookup PROVE WorkerInv'
  <2>1. records' = records \o << >>
    BY <1>5, InvFacts, NoChange DEF Lookup
  <2>2. <<at, at'>> \in QuietMoves
    BY <1>5 DEF Lookup, QuietMoves
  <2> QED BY <1>5, <2>1, <2>2, QuietNone, QuietStep DEF Lookup
<1>6. ASSUME Miss PROVE WorkerInv'
  <2>1. PICK found \in {<< >>, R("HitMiss", "object")}, result \in {"fetch", "pass", "synth"} :
          /\ Log(found \o VCL("MISS", << >>, result))
          /\ at' = IF result = "fetch" THEN "wait" ELSE result
    BY <1>6 DEF Miss
  <2>2. QuietChunk(found \o VCL("MISS", << >>, result))
    <3>1. QuietChunk(found) /\ QuietChunk(VCL("MISS", << >>, result))
      BY <1>2, <1>3, QuietNone
    <3> QED BY <3>1, QuietMore
  <2>3. <<at, at'>> \in QuietMoves
    BY <1>6, <2>1 DEF Miss, QuietMoves
  <2> QED BY <1>6, <2>1, <2>2, <2>3, QuietStep DEF Miss, Log
<1>7. ASSUME HitForPass PROVE WorkerInv'
  <2>1. <<at, at'>> \in QuietMoves
    BY <1>7 DEF HitForPass, QuietMoves
  <2> QED BY <1>2, <1>7, <2>1, QuietStep DEF HitForPass, Log
<1>8. ASSUME Pass PROVE WorkerInv'
  <2>1. PICK result \in {"fetch", "synth"} :
          /\ Log(VCL("PASS", << >>, result))
          /\ at' = IF result = "fetch" THEN "wait" ELSE result
    BY <1>8 DEF Pass
  <2>2. <<at, at'>> \in QuietMoves
    BY <1>8, <2>1 DEF Pass, QuietMoves
  <2> QED BY <1>3, <1>8, <2>1, <2>2, QuietStep DEF Pass, Log
<1>9. ASSUME Wait PROVE WorkerInv'
  <2>1. PICK child \in {"child", "missing"} : Log(R("Link", child))
    BY <1>9 DEF Wait
  <2>2. <<at, at'>> \in QuietMoves
    BY <1>9 DEF Wait, QuietMoves
  <2> QED BY <1>2, <1>9, <2>1, <2>2, QuietStep DEF Wait, Log
<1>10. ASSUME Restart PROVE WorkerInv'
  <2>1. QuietChunk(R("Link", "child") \o R("End", ""))
    BY <1>2, QuietMore
  <2>2. <<at, at'>> \in QuietMoves
    BY <1>10 DEF Restart, QuietMoves
  <2> QED BY <1>10, <2>1, <2>2, QuietStep DEF Restart, Log
<1>11. ASSUME ConnectFails PROVE WorkerInv'
  <2>1. <<at, at'>> \in QuietMoves
    BY <1>11 DEF ConnectFails, QuietMoves
  <2> QED BY <1>2, <1>11, <2>1, QuietStep DEF ConnectFails, Log
<1> QED BY <1>4, <1>5, <1>6, <1>7, <1>8, <1>9, <1>10, <1>11

-----------------------------------------------------------------------------
(* Steps that log an answer *)

\* An answer that is logged is the one the searches find.
LEMMA LogsAnswer ==
  ASSUME NEW s \in Seq(Entries), txtype \in {"req", "bereq"}, NEW a \in Pairs,
         NEW hit, NEW synth, NEW had, NEW object,
         AllKept(s, txtype, hit, synth, had, object), txtype = "req" => a \in had,
         NEW t, t = s \o AnswerRecords(a)
  PROVE  /\ t \in Seq(Entries) /\ Longer(s, t, AnswerEntries(txtype, a))
         /\ AllKept(t, txtype, hit, synth, had, object)
         /\ txtype = "req" => Settled(t)
         /\ AnswerNow(t, txtype, a)
<1> DEFINE c == R(StatusTag(txtype), a[1]) \o R(ReasonTag(txtype), a[2])
<1>1. AnswerRecords(a) = c
  BY DEF AnswerRecords, StatusTag, ReasonTag
<1>2. /\ c \in Seq(Entries) /\ Longer(s, s \o c, AnswerEntries(txtype, a))
      /\ AllKept(s \o c, txtype, hit, synth, had, object)
      /\ txtype = "req" => Settled(s \o c)
      /\ AnswerNow(s \o c, txtype, a)
  BY WholeAnswer
<1> HIDE DEF c
<1>3. t = s \o c /\ s \o c \in Seq(Entries)
  BY <1>1, <1>2 DEF Longer
<1> QED BY <1>2, <1>3

\* The records of an answer are no calls, no returns and no hit.
LEMMA AnswerEntriesAre ==
  ASSUME NEW type \in {"req", "bereq"}, NEW a
  PROVE  /\ \A e \in AnswerEntries(type, a) : /\ e.tag \notin RequestTags
                                              /\ e.tag \notin {"Hit", "VCL_call", "VCL_return"}
         /\ Entry("VCL_call", "SYNTH") \notin AnswerEntries(type, a)
         /\ ReturnDeliver \notin AnswerEntries(type, a)
<1>1. \A e \in AnswerEntries(type, a) : e.tag \in AllAnswerTags
  BY DEF AnswerEntries, Entry, StatusTag, ReasonTag, AllAnswerTags
<1>2. AllAnswerTags \cap (RequestTags \cup {"Hit", "VCL_call", "VCL_return"}) = {}
  BY DEF AllAnswerTags, RequestTags
<1>3. Entry("VCL_call", "SYNTH").tag = "VCL_call" /\ ReturnDeliver.tag = "VCL_return"
  BY DEF Entry, ReturnDeliver
<1> QED BY <1>1, <1>2, <1>3

\* None of them is of the request, a hit or a VCL call.
NoCalls(E) == \A e \in E : e.tag \notin RequestTags \cup {"Hit", "VCL_call", "VCL_return"}

\* The common part of these steps: what is logged, and what is left alone.
LEMMA AnswerStep ==
  ASSUME WorkerInv, txtype' = txtype, request' = request,
         truth'.received = truth.received, truth'.got = truth.got, truth'.sent = truth.sent,
         truth' \in [received : Triples, sent : Triples, hit : Values, synth : Pairs, had : SUBSET Pairs,
                     got : Pairs, object : Pairs],
         <<at, at'>> \in {<<"respond", "deliver">>, <<"synth", "vcl_synth">>,
                          <<"connect", "response">>, <<"error", "backend_error">>},
         NEW a \in Pairs, answer' = a,
         NEW s, NEW E, Longer(records, s, E),
         NoCalls(E),
         AllKept(s, txtype, truth'.hit, truth'.synth, Had', truth'.object),
         txtype = "req" => a \in Had',
         records' = s \o AnswerRecords(a),
         AnswerHeld'
  PROVE  WorkerInv'
<1>1. txtype \in {"req", "bereq"} /\ s \in Seq(Entries)
  BY DEF WorkerInv, TypesOK, Longer
<1> DEFINE F == E \cup AnswerEntries(txtype, a)
<1>2. /\ Longer(records, records', F) /\ records' \in Seq(Entries)
      /\ AllKept(records', txtype, truth'.hit, truth'.synth, Had', truth'.object)
      /\ txtype = "req" => Settled(records')
      /\ AnswerNow(records', txtype, a)
  <2>1. /\ records' \in Seq(Entries) /\ Longer(s, records', AnswerEntries(txtype, a))
        /\ AllKept(records', txtype, truth'.hit, truth'.synth, Had', truth'.object)
        /\ txtype = "req" => Settled(records')
        /\ AnswerNow(records', txtype, a)
    <3> DEFINE hit == truth'.hit
               synth == truth'.synth
               had == Had'
               object == truth'.object
               t == records'
    <3>1. AllKept(s, txtype, hit, synth, had, object) /\ (txtype = "req" => a \in had)
          /\ t = s \o AnswerRecords(a)
      OBVIOUS
    <3> HIDE DEF hit, synth, had, object, t
    <3>2. /\ t \in Seq(Entries) /\ Longer(s, t, AnswerEntries(txtype, a))
          /\ AllKept(t, txtype, hit, synth, had, object)
          /\ txtype = "req" => Settled(t)
          /\ AnswerNow(t, txtype, a)
      BY <1>1, <3>1, LogsAnswer
    <3> QED BY <3>2 DEF hit, synth, had, object, t
  <2> QED BY <2>1, LongerMore
<1>3. \A e \in F : e.tag \notin RequestTags /\ e.tag \notin {"Hit", "VCL_call", "VCL_return"}
  BY <1>1, AnswerEntriesAre DEF NoCalls
<1>4. Entry("VCL_call", "SYNTH") \notin F /\ ReturnDeliver \notin F
  <2>1. Entry("VCL_call", "SYNTH").tag = "VCL_call" /\ ReturnDeliver.tag = "VCL_return"
    BY DEF Entry, ReturnDeliver
  <2> QED BY <1>3, <2>1
<1> HIDE DEF F
<1>5. /\ at \notin {"start", "end", "transmit", "restart"}
      /\ at' \notin {"start", "recv", "hash", "hit", "respond", "transmit", "end"}
      /\ at' \in Answered /\ at' \notin Unanswered
      /\ at \in {"connect", "error"} => txtype = "bereq"
      /\ at \in {"respond", "synth"} => txtype = "req"
  BY DEF Answered, Unanswered, WorkerInv, TypesOK
<1>6. TypesOK'
  <2>1. at' \in IF txtype = "req"
                THEN {"start", "recv", "hash", "pass", "synth", "pipe", "hit", "wait", "respond",
                      "deliver", "transmit", "restart", "vcl_synth", "end"}
                ELSE {"start", "fetch", "connect", "error", "response", "backend_error", "end"}
    BY <1>1, <1>5
  <2> QED BY <1>2, <2>1 DEF WorkerInv, TypesOK
<1>7. RequestNow(records, txtype, request) => RequestNow(records', txtype, request')
  BY <1>2, <1>3, SameRequest
<1>8. AnswerLogged'
  BY <1>2, <1>5 DEF AnswerLogged
<1>9. LogKept'
  BY <1>2 DEF LogKept
<1>10. txtype = "bereq" => request' = truth'.sent
  BY DEF WorkerInv, RequestLogged
<1>11. Settled(records')
  <2>1. ASSUME txtype = "bereq" PROVE Settled(records')
    <3>1. Lacks(records, ReturnDeliver)
      BY <1>5, <2>1 DEF WorkerInv, Once
    <3>2. Lacks(records', ReturnDeliver)
      BY <1>2, <1>4, <3>1 DEF Longer
    <3> QED BY <3>2 DEF Lacks, Settled
  <2> QED BY <1>1, <1>2, <2>1
<1> QED BY <1>2, <1>3, <1>4, <1>5, <1>6, <1>7, <1>8, <1>9, <1>10, <1>11, Advance

\* Respond takes the cached or fetched answer as resp.
LEMMA RespondKeeps ==
  ASSUME WorkerInv, Respond, txtype' = txtype
  PROVE  WorkerInv'
<1>1. PICK a \in Answers : Log(AnswerRecords(a)) /\ answer' = a
  BY DEF Respond
<1>2. a \in Pairs /\ Had = truth.had /\ Had' = truth.had \cup {a}
  BY <1>1, PairsOK DEF Respond, Had
<1>3. AllKept(records, txtype, truth.hit, truth.synth, truth.had \cup {a}, truth.object)
  <2>1. truth.had \subseteq truth.had \cup {a}
    OBVIOUS
  <2> QED BY <1>2, <2>1, InvFacts, KeptMore
<1>4. Longer(records, records, {})
  BY InvFacts, LongerNone
<1>5. AnswerHeld' /\ <<at, at'>> = <<"respond", "deliver">> /\ truth' = truth /\ request' = request
  BY DEF AnswerHeld, Respond
<1>6. /\ truth' \in [received : Triples, sent : Triples, hit : Values, synth : Pairs, had : SUBSET Pairs,
                     got : Pairs, object : Pairs]
      /\ truth'.received = truth.received /\ truth'.got = truth.got /\ truth'.sent = truth.sent
      /\ AllKept(records, txtype, truth'.hit, truth'.synth, Had', truth'.object)
      /\ a \in Had' /\ records' = records \o AnswerRecords(a)
  BY <1>1, <1>2, <1>3, <1>5 DEF WorkerInv, TypesOK, Log
<1>7. NoCalls({})
  BY DEF NoCalls
<1> QED BY <1>1, <1>2, <1>4, <1>5, <1>6, <1>7, AnswerStep

\* Synth makes the synthetic answer as resp.
LEMMA SynthKeeps ==
  ASSUME WorkerInv, Synth, txtype' = txtype
  PROVE  WorkerInv'
<1>1. PICK a \in Answers : /\ Log(AnswerRecords(a)) /\ answer' = a
                           /\ truth' = [truth EXCEPT !.synth = a, !.had = @ \cup {a}]
  BY DEF Synth
<1>2. truth \in [received : Triples, sent : Triples, hit : Values, synth : Pairs, had : SUBSET Pairs,
                 got : Pairs, object : Pairs]
  BY DEF WorkerInv, TypesOK
<1>3. a \in Pairs /\ Had = truth.had /\ Had' = truth.had \cup {a}
  BY <1>1, <1>2, PairsOK DEF Synth, Had
<1>4. /\ truth'.received = truth.received /\ truth'.got = truth.got /\ truth'.sent = truth.sent
      /\ truth'.hit = truth.hit /\ truth'.object = truth.object
      /\ truth'.synth = a /\ truth'.had = truth.had \cup {a}
      /\ truth' \in [received : Triples, sent : Triples, hit : Values, synth : Pairs, had : SUBSET Pairs,
                     got : Pairs, object : Pairs]
  BY <1>1, <1>2, <1>3
<1>5. AllKept(records, txtype, truth'.hit, truth'.synth, Had', truth'.object)
  <2>1. truth.had \subseteq truth.had \cup {a}
    OBVIOUS
  <2>2. AllKept(records, txtype, truth.hit, truth.synth, Had', truth.object)
    BY <1>3, <2>1, InvFacts, KeptMore
  <2>3. Lacks(records, Entry("VCL_call", "SYNTH"))
    BY DEF WorkerInv, Once, Synth
  <2> QED BY <1>4, <2>2, <2>3, KeptSynth
<1>6. Longer(records, records, {})
  BY InvFacts, LongerNone
<1>7. /\ <<at, at'>> = <<"synth", "vcl_synth">> /\ request' = request
      /\ AnswerHeld'
  BY <1>1, <1>4 DEF AnswerHeld, Synth
<1>8. a \in Had' /\ records' = records \o AnswerRecords(a)
  BY <1>1, <1>3 DEF Log
<1>9. NoCalls({})
  BY DEF NoCalls
<1> QED BY <1>1, <1>3, <1>4, <1>5, <1>6, <1>7, <1>8, <1>9, AnswerStep

\* Connect sends the request and logs the backend's answer.
LEMMA ConnectKeeps ==
  ASSUME WorkerInv, Connect, txtype' = txtype
  PROVE  WorkerInv'
<1>1. PICK a \in Answers, tag \in {"BackendOpen", "BackendReuse"} :
        /\ Log(R(tag, "backend") \o AnswerRecords(a)) /\ answer' = a
  BY DEF Connect
<1>2. a \in Pairs /\ Had' = Had /\ txtype = "bereq" /\ records \in Seq(Entries)
  BY <1>1, PairsOK DEF Connect, Had, WorkerInv, TypesOK
<1> DEFINE s == records \o R(tag, "backend")
<1>3. Entry(tag, "backend") \in QuietEntries
  BY DEF QuietEntries, Entry, Entries, Tags, Values, Words, RequestTags, AllAnswerTags
<1>4. QuietChunk(R(tag, "backend"))
  BY <1>3, QuietOne
<1>5. AllKept(s, txtype, truth.hit, truth.synth, Had, truth.object)
  BY <1>2, <1>4, InvFacts DEF QuietChunk
<1>6. Longer(records, s, {Entry(tag, "backend")})
  <2>1. tag \in Tags /\ "backend" \in Values
    BY DEF Tags, Values, Words
  <2> QED BY <1>2, <2>1, Grow, LongerOne
<1>7. records' = s \o AnswerRecords(a)
  <2>1. R(tag, "backend") \in Seq(Entries)
    BY <1>4 DEF QuietChunk
  <2>2. AnswerRecords(a) \in Seq(Entries)
    <3>1. a[1] \in Values /\ a[2] \in Values
      BY <1>2, PairParts
    <3>2. \A x \in {"RespStatus", "RespReason", "BerespStatus", "BerespReason"} : x \in Tags
      BY DEF Tags
    <3>3. /\ R("RespStatus", a[1]) \in Seq(Entries) /\ R("RespReason", a[2]) \in Seq(Entries)
          /\ R("BerespStatus", a[1]) \in Seq(Entries) /\ R("BerespReason", a[2]) \in Seq(Entries)
      BY <3>1, <3>2, OneRecord
    <3> QED BY <3>3, ConcatProperties DEF AnswerRecords
  <2> QED BY <1>1, <1>2, <2>1, <2>2, ConcatAssociative DEF Log
<1>8. NoCalls({Entry(tag, "backend")})
  BY DEF NoCalls, Entry, RequestTags
<1> HIDE DEF s
<1>9. AnswerHeld' /\ <<at, at'>> = <<"connect", "response">> /\ truth' = truth /\ request' = request
  BY DEF AnswerHeld, Connect
<1> QED BY <1>1, <1>2, <1>5, <1>6, <1>7, <1>8, <1>9, AnswerStep DEF WorkerInv, TypesOK

\* BackendError makes the synthetic answer as beresp.
LEMMA BackendErrorKeeps ==
  ASSUME WorkerInv, BackendError, txtype' = txtype
  PROVE  WorkerInv'
<1>1. PICK a \in Answers : Log(AnswerRecords(a)) /\ answer' = a
  BY DEF BackendError
<1>2. a \in Pairs /\ Had' = Had /\ txtype = "bereq"
  BY <1>1, PairsOK DEF BackendError, Had, WorkerInv, TypesOK
<1>3. Longer(records, records, {})
  BY InvFacts, LongerNone
<1>4. AnswerHeld' /\ <<at, at'>> = <<"error", "backend_error">> /\ truth' = truth /\ request' = request
  BY DEF AnswerHeld, BackendError
<1>5. AllKept(records, txtype, truth'.hit, truth'.synth, Had', truth'.object)
  BY <1>2, <1>4, InvFacts
<1>6. truth' \in [received : Triples, sent : Triples, hit : Values, synth : Pairs, had : SUBSET Pairs,
                   got : Pairs, object : Pairs]
  BY <1>4 DEF WorkerInv, TypesOK
<1>7. records' = records \o AnswerRecords(a) /\ NoCalls({})
  BY <1>1 DEF Log, NoCalls
<1> QED BY <1>1, <1>2, <1>3, <1>4, <1>5, <1>6, <1>7, AnswerStep

-----------------------------------------------------------------------------
(* Calls of VCL that may change the answer *)

\* Where they are made, and where the worker is then.
CallMoves ==
  {<<"deliver", "transmit">>, <<"deliver", "synth">>, <<"deliver", "restart">>,
   <<"vcl_synth", "transmit">>, <<"vcl_synth", "restart">>,
   <<"response", "error">>, <<"response", "end">>, <<"backend_error", "end">>}

\* The call of sub with its result, the change c of the answer to b, and d behind it.
CallMade(sub, result, b, c, d) ==
  /\ txtype' = txtype /\ request' = request /\ answer' = b
  /\ truth'.received = truth.received /\ truth'.got = truth.got /\ truth'.sent = truth.sent
  /\ truth' \in [received : Triples, sent : Triples, hit : Values, synth : Pairs, had : SUBSET Pairs,
                 got : Pairs, object : Pairs]
  /\ <<at, at'>> \in CallMoves
  /\ sub \in Values /\ result \in Values /\ b \in Pairs
  /\ ChangeOf(txtype, answer, b, c)
  /\ QuietChunk(d)
  /\ records' = (records \o VCL(sub, c, result)) \o d
  /\ AllKept(records, txtype, truth'.hit, truth'.synth, Had', truth'.object)
  /\ txtype = "req" => b \in Had'
  /\ MayAdd(records, "VCL_call", sub, txtype, truth'.hit, truth'.synth, Had', truth'.object)
  /\ result = "deliver" /\ txtype = "bereq" => truth'.object = b
  /\ result = "deliver" => at' \in {"transmit", "end"}
  /\ sub = "SYNTH" => at' \in {"transmit", "restart", "end"}
  /\ at' = "transmit" => b \in truth'.had /\ d = << >> /\ result = "deliver"

\* A VCL call that may change the answer keeps the invariant.
LEMMA CallStep ==
  ASSUME WorkerInv, NEW sub, NEW result, NEW b, NEW c, NEW d, CallMade(sub, result, b, c, d)
  PROVE  WorkerInv'
<1> DEFINE s == records \o VCL(sub, c, result)
<1>0. /\ txtype' = txtype /\ request' = request /\ answer' = b
      /\ truth'.received = truth.received /\ truth'.got = truth.got /\ truth'.sent = truth.sent
      /\ truth' \in [received : Triples, sent : Triples, hit : Values, synth : Pairs, had : SUBSET Pairs,
                     got : Pairs, object : Pairs]
      /\ <<at, at'>> \in CallMoves
      /\ sub \in Values /\ result \in Values /\ b \in Pairs
      /\ ChangeOf(txtype, answer, b, c)
      /\ QuietChunk(d)
      /\ records' = s \o d
      /\ AllKept(records, txtype, truth'.hit, truth'.synth, Had', truth'.object)
      /\ txtype = "req" => b \in Had'
      /\ MayAdd(records, "VCL_call", sub, txtype, truth'.hit, truth'.synth, Had', truth'.object)
      /\ result = "deliver" /\ txtype = "bereq" => truth'.object = b
      /\ result = "deliver" => at' \in {"transmit", "end"}
      /\ sub = "SYNTH" => at' \in {"transmit", "restart", "end"}
      /\ at' = "transmit" => b \in truth'.had /\ d = << >> /\ result = "deliver"
      /\ s = records \o VCL(sub, c, result)
  BY DEF CallMade
<1> USE <1>0
<1> HIDE DEF s
<1>1. /\ records \in Seq(Entries) /\ txtype \in {"req", "bereq"} /\ answer \in Pairs
      /\ at \notin {"start", "end", "transmit", "restart", "respond"} /\ at \in Answered
      /\ at' \notin {"start", "recv", "hash", "hit", "respond", "deliver", "vcl_synth"}
      /\ at' \in Answered => at' = "transmit"
      /\ at' \notin Unanswered
      /\ Settled(records) /\ AnswerNow(records, txtype, answer)
  BY DEF CallMoves, Answered, Unanswered, WorkerInv, TypesOK, Once, AnswerLogged
<1> DEFINE E == CallEntries(txtype, b, sub, result)
           F == E \cup QuietEntries
<1>2. /\ Longer(records, s, E) /\ AllKept(s, txtype, truth'.hit, truth'.synth, Had', truth'.object)
      /\ AnswerNow(s, txtype, b)
      /\ EndsWith(s, Entry("VCL_return", result))
  <2>1. MayCall(records, txtype, answer, b, truth'.hit, truth'.synth, Had', truth'.object,
                c, sub, result, s)
    BY <1>1 DEF MayCall
  <2> QED BY <2>1, ChangingCall
<1>3. s \in Seq(Entries)
  BY <1>2 DEF Longer
<1> HIDE DEF E
<1>4. /\ Longer(s, records', QuietEntries)
      /\ AllKept(records', txtype, truth'.hit, truth'.synth, Had', truth'.object)
  BY <1>2, <1>3 DEF QuietChunk
<1>5. Longer(records, records', F)
  BY <1>2, <1>4, LongerMore
<1>6. /\ \A e \in QuietEntries : /\ e.tag \notin RequestTags \cup AllAnswerTags \cup {"Hit"}
                                 /\ e # ReturnDeliver /\ e # Entry("VCL_call", "SYNTH")
      /\ \A e \in AnswerEntries(txtype, b) : /\ e.tag \notin RequestTags
                                              /\ e # ReturnDeliver /\ e # Entry("VCL_call", "SYNTH")
  <2>1. \A e \in QuietEntries : /\ e.tag \notin RequestTags \cup AllAnswerTags \cup {"Hit"}
                                /\ e # ReturnDeliver /\ e # Entry("VCL_call", "SYNTH")
    BY DEF QuietEntries, ReturnDeliver, Entry
  <2> QED BY <1>1, <2>1, AnswerEntriesAre
<1>7. /\ \A e \in F : e.tag \notin RequestTags
      /\ result # "deliver" => ReturnDeliver \notin F
      /\ sub # "SYNTH" => Entry("VCL_call", "SYNTH") \notin F
  <2>1. /\ Entry("VCL_call", sub).tag \notin RequestTags /\ Entry("VCL_return", result).tag \notin RequestTags
        /\ Entry("VCL_call", sub) # ReturnDeliver
        /\ result # "deliver" => Entry("VCL_return", result) # ReturnDeliver
        /\ Entry("VCL_return", result) # Entry("VCL_call", "SYNTH")
        /\ sub # "SYNTH" => Entry("VCL_call", sub) # Entry("VCL_call", "SYNTH")
    BY DEF Entry, ReturnDeliver, RequestTags
  <2> QED BY <1>6, <2>1 DEF E, CallEntries
<1> HIDE DEF F
<1>8. TypesOK'
  <2>1. records' \in Seq(Entries)
    BY <1>5 DEF Longer
  <2>2. at' \in IF txtype = "req"
                THEN {"start", "recv", "hash", "pass", "synth", "pipe", "hit", "wait", "respond",
                      "deliver", "transmit", "restart", "vcl_synth", "end"}
                ELSE {"start", "fetch", "connect", "error", "response", "backend_error", "end"}
    BY DEF WorkerInv, TypesOK, CallMoves
  <2> QED BY <2>1, <2>2 DEF WorkerInv, TypesOK
<1>9. RequestNow(records, txtype, request) => RequestNow(records', txtype, request')
  BY <1>5, <1>7, SameRequest
<1>10. AnswerLogged'
  <2>1. AnswerNow(records', txtype, b)
    BY <1>2, <1>4, <1>6, SameAnswer
  <2> QED BY <1>1, <2>1 DEF AnswerLogged
<1>11. AnswerHeld'
  <2>1. ASSUME at' = "transmit"
        PROVE  b \in truth'.had /\ Len(records') # 0 /\ records'[Len(records')] = ReturnDeliver
    <3>1. records' = s /\ b \in truth'.had /\ result = "deliver"
      BY <1>3, <2>1, NoChange
    <3> QED BY <1>2, <3>1 DEF ReturnDeliver, EndsWith
  <2> QED BY <1>1, <2>1 DEF AnswerHeld
<1>12. LogKept'
  BY <1>4 DEF LogKept
<1>13. txtype = "bereq" => request' = truth'.sent
  BY DEF WorkerInv, RequestLogged
<1>14. at' \notin {"transmit", "restart", "end"} => Entry("VCL_call", "SYNTH") \notin F
  BY <1>7
<1>15. at' \notin {"respond", "transmit", "end"} => Settled(records')
  BY <1>1, <1>5, <1>7 DEF Longer
<1>16. txtype = "bereq" /\ at' # "end" => ReturnDeliver \notin F
  <2>1. txtype = "bereq" => at' # "transmit"
    BY <1>8 DEF TypesOK
  <2> QED BY <1>7, <2>1
<1> QED BY <1>1, <1>5, <1>8, <1>9, <1>10, <1>11, <1>12, <1>13, <1>14, <1>15, <1>16, Advance

\* Deliver calls vcl_deliver on resp.
LEMMA DeliverKeeps ==
  ASSUME WorkerInv, Deliver, txtype' = txtype
  PROVE  WorkerInv'
<1>1. PICK change \in Changes, result \in {"deliver", "synth", "restart"} :
        /\ Log(VCL("DELIVER", change.by, result)) /\ answer' = change.to
        /\ truth' = [truth EXCEPT !.had = @ \cup {answer, change.to}]
        /\ at' = IF result = "deliver" THEN "transmit" ELSE result
  BY DEF Deliver
<1> DEFINE b == change.to
           c == change.by
           sub == "DELIVER"
           d == << >>
           s == records \o VCL(sub, c, result)
<1>2. /\ truth \in [received : Triples, sent : Triples, hit : Values, synth : Pairs, had : SUBSET Pairs,
                    got : Pairs, object : Pairs]
      /\ records \in Seq(Entries) /\ answer \in Pairs /\ txtype = "req" /\ at = "deliver"
      /\ request' = request /\ TypesOK
  BY DEF WorkerInv, TypesOK, Deliver
<1>3. b \in Pairs /\ ChangeOf(txtype, answer, b, c)
  BY <1>2, ChangesAreChanges
<1>4. /\ truth'.received = truth.received /\ truth'.got = truth.got /\ truth'.sent = truth.sent
      /\ truth'.hit = truth.hit /\ truth'.object = truth.object /\ truth'.synth = truth.synth
      /\ truth'.had = truth.had \cup {answer, b}
      /\ truth' \in [received : Triples, sent : Triples, hit : Values, synth : Pairs, had : SUBSET Pairs,
                     got : Pairs, object : Pairs]
  BY <1>1, <1>2, <1>3
<1>5. at' # "deliver" /\ Had' = truth'.had /\ Had \subseteq Had' /\ b \in Had'
  BY <1>1, <1>2, <1>4 DEF Had
<1>6. AllKept(records, txtype, truth'.hit, truth'.synth, Had', truth'.object)
  BY <1>4, <1>5, InvFacts, KeptMore
<1>7. MayAdd(records, "VCL_call", sub, txtype, truth'.hit, truth'.synth, Had', truth'.object)
  BY DEF MayAdd
<1>8. {sub, result} \subseteq Values /\ QuietChunk(d)
  BY QuietNone DEF Values, Words
<1>9. records' = s \o d
  <2>1. records' = s
    BY <1>1 DEF Log
  <2>2. MayCall(records, txtype, answer, b, truth'.hit, truth'.synth, Had', truth'.object,
                c, sub, result, s)
    BY <1>2, <1>3, <1>5, <1>6, <1>7, <1>8 DEF MayCall, WorkerInv, AnswerLogged, Once, Answered
  <2> HIDE DEF s, c, b, d, sub
  <2>3. s \in Seq(Entries)
    BY <2>2, ChangingCall DEF Longer
  <2> QED BY <2>1, <2>3, NoChange DEF d
<1>10. <<at, at'>> \in CallMoves /\ sub # "SYNTH"
       /\ (result = "deliver" => at' = "transmit") /\ (at' = "transmit" => result = "deliver")
  BY <1>1, <1>2 DEF CallMoves
<1>11. s = records \o VCL(sub, c, result) /\ d = << >> /\ answer' = b
  BY <1>1
<1>12. CallMade(sub, result, b, c, d)
  BY <1>1, <1>2, <1>3, <1>4, <1>5, <1>6, <1>7, <1>8, <1>9, <1>10, <1>11 DEF CallMade
<1> HIDE DEF s, c, b, d, sub
<1> QED BY <1>12, CallStep
\* VCLSynth calls vcl_synth on resp.
LEMMA VCLSynthKeeps ==
  ASSUME WorkerInv, VCLSynth, txtype' = txtype
  PROVE  WorkerInv'
<1>1. PICK change \in Changes, result \in {"deliver", "restart"} :
        /\ Log(VCL("SYNTH", change.by, result)) /\ answer' = change.to
        /\ truth' = [truth EXCEPT !.had = @ \cup {change.to}]
        /\ at' = IF result = "deliver" THEN "transmit" ELSE result
  BY DEF VCLSynth
<1> DEFINE b == change.to
           c == change.by
           sub == "SYNTH"
           d == << >>
           s == records \o VCL(sub, c, result)
<1>2. /\ truth \in [received : Triples, sent : Triples, hit : Values, synth : Pairs, had : SUBSET Pairs,
                    got : Pairs, object : Pairs]
      /\ records \in Seq(Entries) /\ answer \in Pairs /\ txtype = "req" /\ at = "vcl_synth"
      /\ request' = request /\ TypesOK
  BY DEF WorkerInv, TypesOK, VCLSynth
<1>3. b \in Pairs /\ ChangeOf(txtype, answer, b, c)
  BY <1>2, ChangesAreChanges
<1>4. /\ truth'.received = truth.received /\ truth'.got = truth.got /\ truth'.sent = truth.sent
      /\ truth'.hit = truth.hit /\ truth'.object = truth.object /\ truth'.synth = truth.synth
      /\ truth'.had = truth.had \cup {b}
      /\ truth' \in [received : Triples, sent : Triples, hit : Values, synth : Pairs, had : SUBSET Pairs,
                     got : Pairs, object : Pairs]
  BY <1>1, <1>2, <1>3
<1>5. at' # "deliver" /\ Had' = truth'.had /\ Had \subseteq Had' /\ b \in Had'
  BY <1>1, <1>2, <1>4 DEF Had
<1>6. AllKept(records, txtype, truth'.hit, truth'.synth, Had', truth'.object)
  BY <1>4, <1>5, InvFacts, KeptMore
<1>7. MayAdd(records, "VCL_call", sub, txtype, truth'.hit, truth'.synth, Had', truth'.object)
  <2>1. EndIn(records, "RespStatus").value = answer[1] /\ EndIn(records, "RespReason").value = answer[2]
    BY <1>2 DEF WorkerInv, AnswerLogged, Answered, AnswerNow, StatusTag, ReasonTag, Entry
  <2>2. answer = <<answer[1], answer[2]>> /\ answer = truth.synth
    BY <1>2, PairParts DEF WorkerInv, AnswerHeld
  <2> QED BY <1>4, <2>1, <2>2 DEF MayAdd
<1>8. {sub, result} \subseteq Values /\ QuietChunk(d)
  BY QuietNone DEF Values, Words
<1>9. records' = s \o d
  <2>1. records' = s
    BY <1>1 DEF Log
  <2>2. MayCall(records, txtype, answer, b, truth'.hit, truth'.synth, Had', truth'.object,
                c, sub, result, s)
    BY <1>2, <1>3, <1>5, <1>6, <1>7, <1>8 DEF MayCall, WorkerInv, AnswerLogged, Once, Answered
  <2> HIDE DEF s, c, b, d, sub
  <2>3. s \in Seq(Entries)
    BY <2>2, ChangingCall DEF Longer
  <2> QED BY <2>1, <2>3, NoChange DEF d
<1>10. <<at, at'>> \in CallMoves /\ (sub = "SYNTH" => at' \in {"transmit", "restart", "end"})
       /\ (result = "deliver" => at' = "transmit") /\ (at' = "transmit" => result = "deliver")
  BY <1>1, <1>2 DEF CallMoves
<1>11. s = records \o VCL(sub, c, result) /\ d = << >> /\ answer' = b
  BY <1>1
<1>12. CallMade(sub, result, b, c, d)
  BY <1>1, <1>2, <1>3, <1>4, <1>5, <1>6, <1>7, <1>8, <1>9, <1>10, <1>11 DEF CallMade
<1> HIDE DEF s, c, b, d, sub
<1> QED BY <1>12, CallStep

\* A VCL call on beresp, whatever it returns.
LEMMA BackendResultKeeps ==
  ASSUME WorkerInv, txtype' = txtype, request' = request,
         NEW sub \in {"BACKEND_RESPONSE", "BACKEND_ERROR"}, NEW results,
         BackendResult(sub, results),
         \/ at = "response" /\ results = {"deliver", "retry", "error", "abandon"}
         \/ at = "backend_error" /\ results = {"deliver", "retry"}
  PROVE  WorkerInv'
<1>1. PICK change \in Changes, result \in results :
        /\ Log(VCL(sub, change.by, result)
               \o (IF result = "error" THEN R("BackendClose", "backend")
                   ELSE IF result = "retry" THEN R("Link", "child") \o R("End", "")
                   ELSE R("End", "")))
        /\ answer' = change.to
        /\ truth' = IF result = "deliver" THEN [truth EXCEPT !.object = change.to] ELSE truth
        /\ at' = IF result = "error" THEN "error" ELSE "end"
  BY DEF BackendResult
<1> DEFINE b == change.to
           c == change.by
           d == IF result = "error" THEN R("BackendClose", "backend")
                ELSE IF result = "retry" THEN R("Link", "child") \o R("End", "")
                ELSE R("End", "")
<1>2. /\ truth \in [received : Triples, sent : Triples, hit : Values, synth : Pairs, had : SUBSET Pairs,
                    got : Pairs, object : Pairs]
      /\ records \in Seq(Entries) /\ answer \in Pairs /\ txtype = "bereq"
      /\ at \in {"response", "backend_error"} /\ request' = request /\ TypesOK
      /\ result \in {"deliver", "retry", "error", "abandon"}
      /\ at = "backend_error" => result # "error"
  BY DEF WorkerInv, TypesOK
<1>3. b \in Pairs /\ ChangeOf(txtype, answer, b, c)
  BY <1>2, ChangesAreChanges
<1>4. /\ truth'.received = truth.received /\ truth'.got = truth.got /\ truth'.sent = truth.sent
      /\ truth'.hit = truth.hit /\ truth'.synth = truth.synth /\ truth'.had = truth.had
      /\ truth'.object = IF result = "deliver" THEN b ELSE truth.object
      /\ truth' \in [received : Triples, sent : Triples, hit : Values, synth : Pairs, had : SUBSET Pairs,
                     got : Pairs, object : Pairs]
  BY <1>1, <1>2, <1>3
<1>5. Had' = Had
  BY <1>1, <1>2, <1>4 DEF Had
<1>6. AllKept(records, txtype, truth'.hit, truth'.synth, Had', truth'.object)
  <2>1. Lacks(records, ReturnDeliver)
    BY <1>2 DEF WorkerInv, Once
  <2> QED BY <1>4, <1>5, <2>1, InvFacts, KeptObject
<1>7. MayAdd(records, "VCL_call", sub, txtype, truth'.hit, truth'.synth, Had', truth'.object)
  BY DEF MayAdd
<1>8. {sub, result} \subseteq Values
  BY <1>2 DEF Values, Words
<1>9. QuietChunk(d)
  <2> DEFINE Quiet(tag, value) == Entry(tag, value) \in QuietEntries
  <2>1. Quiet("End", "") /\ Quiet("Link", "child") /\ Quiet("BackendClose", "backend")
    BY DEF QuietEntries, Entry, Entries, Tags, Values, Words, RequestTags, AllAnswerTags
  <2>2. /\ QuietChunk(R("End", "")) /\ QuietChunk(R("Link", "child"))
        /\ QuietChunk(R("BackendClose", "backend"))
    BY <2>1, QuietOne
  <2>3. QuietChunk(R("Link", "child") \o R("End", ""))
    BY <2>2, QuietMore
  <2> QED BY <2>2, <2>3
<1>10. records' = (records \o VCL(sub, c, result)) \o d
  <2>1. records' = records \o (VCL(sub, c, result) \o d)
    BY <1>1 DEF Log
  <2>2. c \in Seq(Entries)
    <3>1. /\ ChangeOf(txtype, answer, b, c) /\ AnswerNow(records, txtype, answer)
          /\ AllKept(records, txtype, truth'.hit, truth'.synth, Had', truth'.object)
          /\ txtype = "req" => b \in Had' /\ Settled(records)
      BY <1>2, <1>3, <1>6 DEF WorkerInv, AnswerLogged, Answered
    <3> HIDE DEF b, c, d
    <3> QED BY <1>2, <1>3, <3>1, ChangedAnswer
  <2> HIDE DEF b, c, d
  <2>3. VCL(sub, c, result) \in Seq(Entries)
    BY <1>2, <1>8, <2>2, CallRecords
  <2>4. d \in Seq(Entries)
    BY <1>9 DEF QuietChunk
  <2> QED BY <1>2, <2>1, <2>3, <2>4, ConcatAssociative
<1>11. /\ <<at, at'>> \in CallMoves /\ sub # "SYNTH" /\ at' # "transmit"
       /\ result = "deliver" => at' = "end"
  BY <1>1, <1>2 DEF CallMoves
<1>12. answer' = b
  BY <1>1
<1> HIDE DEF c, b, d
<1>13. CallMade(sub, result, b, c, d)
  BY <1>2, <1>3, <1>4, <1>6, <1>7, <1>8, <1>9, <1>10, <1>11, <1>12 DEF CallMade
<1> QED BY <1>13, CallStep

\* The two VCL calls on beresp.
LEMMA BackendCallsKeep ==
  ASSUME WorkerInv, BackendResponse \/ VCLBackendError, txtype' = txtype
  PROVE  WorkerInv'
<1>1. ASSUME BackendResponse PROVE WorkerInv'
  BY <1>1, BackendResultKeeps DEF BackendResponse
<1>2. ASSUME VCLBackendError PROVE WorkerInv'
  BY <1>2, BackendResultKeeps DEF VCLBackendError
<1> QED BY <1>1, <1>2

-----------------------------------------------------------------------------
(* Calls of VCL that may change the request *)

\* c are the records of a change of the request r to q.
RequestChange(type, r, q, c) ==
  \/ c = R("VCL_Log", "text") /\ q = r
  \/ /\ q[1] = r[1]
     /\ c = (IF q[2] = r[2] THEN << >> ELSE R(URLTag(type), q[2]))
              \o (IF q[3] = r[3] THEN << >> ELSE R("Host", q[3]))

RequestEntries(sub, type, q) ==
  {Entry("VCL_call", sub), Entry("VCL_Log", "text"), Entry(URLTag(type), q[2]), Entry("Host", q[3])}
    \cup QuietEntries

\* A call of the first sub of a request, and d behind it.
RequestCalled(s, type, r, q, c, sub, d, hit, synth, had, object, u) ==
  /\ s \in Seq(Entries) /\ type \in {"req", "bereq"} /\ r \in Triples /\ q \in Triples
  /\ sub = IF type = "req" THEN "RECV" ELSE "BACKEND_FETCH"
  /\ RequestChange(type, r, q, c) /\ RequestNow(s, type, r)
  /\ QuietChunk(d)
  /\ AllKept(s, type, hit, synth, had, object)
  /\ u = ((s \o R("VCL_call", sub)) \o c) \o d

\* Three sequences, one behind the other.
LEMMA ThreeParts ==
  ASSUME NEW a \in Seq(Entries), NEW b \in Seq(Entries), NEW c \in Seq(Entries)
  PROVE  a \o (b \o c) = (a \o b) \o c
BY SMTT(30), ConcatAssociative

\* A part of the request, old, is logged as c when it changes to value.
PartChanged(s, tag, old, value, c, type, hit, synth, had, object) ==
  /\ s \in Seq(Entries) /\ value \in Values
  /\ tag \in Tags \ {"RespStatus", "RespReason", "Hit", "VCL_call", "VCL_return"}
  /\ EndIn(s, tag).value = old
  /\ c = IF value = old THEN << >> ELSE R(tag, value)
  /\ AllKept(s, type, hit, synth, had, object)

\* Logged only when it changes, a part of the request is the last one of the log.
LEMMA PartSet ==
  ASSUME NEW s, NEW tag, NEW old, NEW value, NEW c,
         NEW type, NEW hit, NEW synth, NEW had, NEW object,
         PartChanged(s, tag, old, value, c, type, hit, synth, had, object)
  PROVE  /\ c \in Seq(Entries) /\ s \o c \in Seq(Entries)
         /\ Longer(s, s \o c, {Entry(tag, value)})
         /\ AllKept(s \o c, type, hit, synth, had, object)
         /\ EndIn(s \o c, tag).value = value
<1> USE DEF PartChanged
<1>1. CASE value = old
  <2>1. s \o c = s /\ c \in Seq(Entries)
    BY <1>1, NoChange
  <2>2. Longer(s, s, {Entry(tag, value)})
    BY LongerNone, LongerWider
  <2> QED BY <1>1, <2>1, <2>2
<1>2. CASE value # old
  <2>1. MayAdd(s, tag, value, type, hit, synth, had, object)
    BY QuietRecord
  <2>2. /\ Grown(s, s \o R(tag, value), Entry(tag, value))
        /\ AllKept(s \o R(tag, value), type, hit, synth, had, object)
        /\ R(tag, value) \in Seq(Entries)
    BY <2>1, Grow, KeepOne, OneRecord
  <2>3. Longer(s, s \o R(tag, value), {Entry(tag, value)})
    BY <2>2, LongerOne
  <2>4. Entry(tag, value).tag = tag /\ Entry(tag, value).value = value
    BY DEF Entry
  <2>5. /\ s \o R(tag, value) \in Seq(Entries)
        /\ EndIn(s \o R(tag, value), tag).value = value
    BY <2>2, <2>4 DEF Grown
  <2> QED BY <1>2, <2>2, <2>3, <2>5
<1> QED BY <1>1, <1>2

\* A VCL call that may change the URL and the host: the first request stays the received
\* one, the last is as VCL left it.
LEMMA ChangingRequest ==
  ASSUME NEW s, NEW type, NEW r, NEW q, NEW c, NEW sub, NEW d,
         NEW hit, NEW synth, NEW had, NEW object, NEW u,
         RequestCalled(s, type, r, q, c, sub, d, hit, synth, had, object, u)
  PROVE  /\ Longer(s, u, RequestEntries(sub, type, q))
         /\ AllKept(u, type, hit, synth, had, object)
         /\ RequestNow(u, type, q)
<1>0. /\ s \in Seq(Entries) /\ type \in {"req", "bereq"} /\ r \in Triples /\ q \in Triples
      /\ sub = IF type = "req" THEN "RECV" ELSE "BACKEND_FETCH"
      /\ RequestChange(type, r, q, c) /\ RequestNow(s, type, r)
      /\ QuietChunk(d)
      /\ AllKept(s, type, hit, synth, had, object)
      /\ u = ((s \o R("VCL_call", sub)) \o c) \o d
  BY DEF RequestCalled
<1> USE <1>0
<1> DEFINE call == "VCL_call"
           log == "VCL_Log"
           text == "text"
           url == URLTag(type)
           method == MethodTag(type)
           host == "Host"
<1>1. /\ {call, log, url, host} \subseteq Tags \ {"RespStatus", "RespReason", "Hit", "VCL_return"}
      /\ url # call /\ log # call /\ method # call /\ method # url /\ method # log /\ url # log
      /\ host \notin {call, log, url, method}
      /\ {text, sub, q[2], q[3]} \subseteq Values /\ call = "VCL_call"
  <2>1. {call, log, url, host} \subseteq Tags \ {"RespStatus", "RespReason", "Hit", "VCL_return"}
    BY DEF URLTag, Tags
  <2>2. /\ url # call /\ log # call /\ method # call /\ method # url /\ method # log /\ url # log
        /\ host \notin {call, log, url, method}
    BY DEF URLTag, MethodTag
  <2>3. sub \in Values /\ text \in Values
    BY DEF Values, Words
  <2>4. q[2] \in Values /\ q[3] \in Values
    BY TripleParts
  <2> QED BY <2>1, <2>2, <2>3, <2>4
<1>2. MayAdd(s, call, sub, type, hit, synth, had, object)
  BY DEF MayAdd
<1> HIDE DEF call, log, text, url, method, host
<1> DEFINE p == s \o R(call, sub)
           w == p \o c
<1>3. Grown(s, p, Entry(call, sub)) /\ AllKept(p, type, hit, synth, had, object)
  BY <1>1, <1>2, Grow, KeepOne
<1> HIDE DEF p
<1>4. p \in Seq(Entries)
  BY <1>3 DEF Grown
<1>5. \A x, y : Entry(x, y).tag = x /\ Entry(x, y).value = y
  BY DEF Entry
<1>6. EndIn(p, method).value = r[1] /\ EndIn(p, url).value = r[2] /\ EndIn(p, host).value = r[3]
  <2>1. EndIn(s, method).value = r[1] /\ EndIn(s, url).value = r[2] /\ EndIn(s, host).value = r[3]
    BY DEF RequestNow, method, url, host
  <2> QED BY <1>1, <1>3, <1>5, <2>1 DEF Grown
<1> DEFINE F == {Entry(log, text), Entry(url, q[2]), Entry(host, q[3])}
           Done == /\ Longer(p, w, F) /\ AllKept(w, type, hit, synth, had, object)
                   /\ EndIn(w, method).value = q[1] /\ EndIn(w, url).value = q[2]
                   /\ EndIn(w, host).value = q[3]
<1>8. ASSUME c = R("VCL_Log", "text"), q = r PROVE Done
  <2>1. w = p \o R(log, text)
    BY <1>8 DEF log, text
  <2>2. MayAdd(p, log, text, type, hit, synth, had, object)
    BY <1>1, QuietRecord
  <2>3. Grown(p, w, Entry(log, text)) /\ AllKept(w, type, hit, synth, had, object)
    BY <1>1, <1>3, <1>4, <2>1, <2>2, Grow, KeepOne
  <2> HIDE DEF w
  <2>4. Longer(p, w, F)
    <3>1. Longer(p, w, {Entry(log, text)})
      BY <2>3, LongerOne
    <3>2. {Entry(log, text)} \subseteq F
      OBVIOUS
    <3> HIDE DEF F
    <3> QED BY <3>1, <3>2, LongerWider
  <2>5. EndIn(w, method).value = q[1] /\ EndIn(w, url).value = q[2] /\ EndIn(w, host).value = q[3]
    BY <1>1, <1>5, <1>6, <1>8, <2>3 DEF Grown
  <2> QED BY <2>3, <2>4, <2>5
<1> DEFINE x == IF q[2] = r[2] THEN << >> ELSE R(url, q[2])
           y == IF q[3] = r[3] THEN << >> ELSE R(host, q[3])
<1>9. ASSUME c = x \o y, q[1] = r[1] PROVE Done
  <2>1. url \in Tags \ {"RespStatus", "RespReason", "Hit", "VCL_call", "VCL_return"}
    BY <1>1
  <2>2. host \in Tags \ {"RespStatus", "RespReason", "Hit", "VCL_call", "VCL_return"}
    BY <1>1
  <2>3. q[2] \in Values /\ q[3] \in Values
    BY <1>1
  <2> DEFINE v == p \o x
  <2>4. /\ x \in Seq(Entries) /\ v \in Seq(Entries) /\ Longer(p, v, {Entry(url, q[2])})
        /\ AllKept(v, type, hit, synth, had, object) /\ EndIn(v, url).value = q[2]
    <3>1. x = IF q[2] = r[2] THEN << >> ELSE R(url, q[2])
      OBVIOUS
    <3> HIDE DEF w, x, v, F, Done
    <3>2. PartChanged(p, url, r[2], q[2], x, type, hit, synth, had, object)
      BY <3>1, <1>3, <1>4, <1>6, <2>1, <2>3 DEF PartChanged
    <3>3. /\ x \in Seq(Entries) /\ p \o x \in Seq(Entries) /\ Longer(p, p \o x, {Entry(url, q[2])})
          /\ AllKept(p \o x, type, hit, synth, had, object) /\ EndIn(p \o x, url).value = q[2]
      BY <3>2, PartSet
    <3> QED BY <3>3 DEF v
  <2> HIDE DEF v, x
  <2>5. EndIn(v, method).value = r[1] /\ EndIn(v, host).value = r[3]
    BY <1>1, <1>5, <1>6, <2>4 DEF Longer
  <2> DEFINE t == v \o y
  <2>6. /\ y \in Seq(Entries) /\ t \in Seq(Entries) /\ Longer(v, t, {Entry(host, q[3])})
        /\ AllKept(t, type, hit, synth, had, object) /\ EndIn(t, host).value = q[3]
    <3>1. y = IF q[3] = r[3] THEN << >> ELSE R(host, q[3])
      OBVIOUS
    <3> HIDE DEF w, y, t, F, Done
    <3>2. PartChanged(v, host, r[3], q[3], y, type, hit, synth, had, object)
      BY <3>1, <2>2, <2>3, <2>4, <2>5 DEF PartChanged
    <3>3. /\ y \in Seq(Entries) /\ v \o y \in Seq(Entries) /\ Longer(v, v \o y, {Entry(host, q[3])})
          /\ AllKept(v \o y, type, hit, synth, had, object) /\ EndIn(v \o y, host).value = q[3]
      BY SMTT(30), <3>2, PartSet
    <3> QED BY <3>3 DEF t
  <2> HIDE DEF t, y
  <2>7. EndIn(t, method).value = q[1] /\ EndIn(t, url).value = q[2]
    BY <1>1, <1>5, <1>9, <2>4, <2>5, <2>6 DEF Longer
  <2>8. w = t
    <3>1. p \in Seq(Entries) /\ x \in Seq(Entries) /\ y \in Seq(Entries)
      BY <1>4, <2>4, <2>6
    <3> HIDE DEF p
    <3>2. p \o (x \o y) = (p \o x) \o y
      BY SMTT(30), <3>1, ThreeParts
    <3>3. t = (p \o x) \o y
      BY DEF t, v
    <3>4. w = p \o (x \o y)
      BY <1>9
    <3> QED BY <3>2, <3>3, <3>4
  <2>9. Longer(p, t, {Entry(url, q[2])} \cup {Entry(host, q[3])})
    BY <2>4, <2>6, LongerMore
  <2>10. Longer(p, t, F)
    <3>1. {Entry(url, q[2])} \cup {Entry(host, q[3])} \subseteq F
      OBVIOUS
    <3> HIDE DEF F
    <3> QED BY <2>9, <3>1, LongerWider
  <2> HIDE DEF w, F
  <2> QED BY <2>6, <2>7, <2>8, <2>10
<1>10. Done
  <2>1. \/ c = R("VCL_Log", "text") /\ q = r
        \/ c = x \o y /\ q[1] = r[1]
    BY DEF RequestChange, url, host
  <2> HIDE DEF w, F, x, y
  <2> QED BY <2>1, <1>8, <1>9
<1> HIDE DEF x, y
<1> HIDE DEF w
<1>11. w \in Seq(Entries) /\ u = w \o d
  BY <1>10 DEF Longer, w, p, call
<1>12. Longer(w, u, QuietEntries) /\ AllKept(u, type, hit, synth, had, object)
  BY <1>10, <1>11 DEF QuietChunk
<1>13. Longer(s, u, RequestEntries(sub, type, q))
  <2>1. Longer(s, p, {Entry(call, sub)})
    BY <1>3, LongerOne
  <2>2. Longer(s, w, {Entry(call, sub)} \cup F)
    BY <2>1, <1>10, LongerMore
  <2>3. Longer(s, u, ({Entry(call, sub)} \cup F) \cup QuietEntries)
    BY <2>2, <1>12, LongerMore
  <2>4. ({Entry(call, sub)} \cup F) \cup QuietEntries \subseteq RequestEntries(sub, type, q)
    BY DEF RequestEntries, call, log, text, url, host
  <2> QED BY <2>3, <2>4, LongerWider
<1>14. RequestNow(u, type, q)
  <2>1. \A e \in QuietEntries : e.tag \notin RequestTags
    BY DEF QuietEntries
  <2>2. RequestNow(w, type, q)
    BY <1>10 DEF RequestNow, method, url, host
  <2> QED BY <2>1, <2>2, <1>12, SameRequest
<1> QED BY <1>12, <1>13, <1>14

\* A worker that makes such a call.
RequestMade(q, c, sub, d) ==
  /\ txtype' = txtype /\ request' = q /\ answer' = answer
  /\ truth' \in [received : Triples, sent : Triples, hit : Values, synth : Pairs, had : SUBSET Pairs,
                 got : Pairs, object : Pairs]
  /\ truth' = [truth EXCEPT !.sent = truth'.sent]
  /\ txtype = "bereq" => truth'.sent = q
  /\ <<at, at'>> \in {<<"recv", "hash">>, <<"recv", "pass">>, <<"recv", "synth">>, <<"recv", "pipe">>,
                      <<"fetch", "connect">>, <<"fetch", "error">>}
  /\ RequestCalled(records, txtype, request, q, c, sub, d,
                   truth.hit, truth.synth, Had, truth.object, records')

\* A VCL call that may change the URL keeps the invariant.
LEMMA RequestStep ==
  ASSUME WorkerInv, NEW q, NEW c, NEW sub, NEW d, RequestMade(q, c, sub, d)
  PROVE  WorkerInv'
<1>0. /\ txtype' = txtype /\ request' = q /\ answer' = answer
      /\ truth' \in [received : Triples, sent : Triples, hit : Values, synth : Pairs, had : SUBSET Pairs,
                     got : Pairs, object : Pairs]
      /\ txtype = "bereq" => truth'.sent = q
      /\ <<at, at'>> \in {<<"recv", "hash">>, <<"recv", "pass">>, <<"recv", "synth">>, <<"recv", "pipe">>,
                          <<"fetch", "connect">>, <<"fetch", "error">>}
      /\ RequestCalled(records, txtype, request, q, c, sub, d,
                       truth.hit, truth.synth, Had, truth.object, records')
  BY DEF RequestMade
<1>1. /\ truth'.received = truth.received /\ truth'.got = truth.got /\ truth'.hit = truth.hit
      /\ truth'.synth = truth.synth /\ truth'.had = truth.had /\ truth'.object = truth.object
  BY DEF RequestMade, WorkerInv, TypesOK
<1>2. /\ at \in {"recv", "fetch"} /\ at' \in {"hash", "pass", "synth", "pipe", "connect", "error"}
      /\ at' # "hash" => at' \notin {"recv", "hash", "hit"}
      /\ at' = "hash" => at = "recv"
      /\ at' \notin Answered /\ at \in Unanswered
  BY <1>0 DEF Answered, Unanswered
<1> DEFINE E == RequestEntries(sub, txtype, q)
<1>3. /\ Longer(records, records', E)
      /\ AllKept(records', txtype, truth.hit, truth.synth, Had, truth.object)
      /\ RequestNow(records', txtype, q)
  BY <1>0, ChangingRequest
<1>4. /\ \A e \in E : e.tag \notin AllAnswerTags /\ e.tag # "Hit"
      /\ Entry("VCL_call", "SYNTH") \notin E /\ ReturnDeliver \notin E
  <2>1. sub # "SYNTH" /\ txtype \in {"req", "bereq"}
    BY <1>0 DEF RequestCalled
  <2>2. \A e \in QuietEntries : /\ e.tag \notin AllAnswerTags \cup {"Hit"}
                                /\ e # Entry("VCL_call", "SYNTH") /\ e # ReturnDeliver
    BY DEF QuietEntries, Entry, ReturnDeliver
  <2>3. \A e \in {Entry("VCL_call", sub), Entry("VCL_Log", "text"), Entry(URLTag(txtype), q[2]),
                Entry("Host", q[3])} :
          /\ e.tag \notin AllAnswerTags \cup {"Hit"}
          /\ e # Entry("VCL_call", "SYNTH") /\ e # ReturnDeliver
    BY <2>1 DEF Entry, URLTag, AllAnswerTags, ReturnDeliver
  <2> QED BY <2>2, <2>3 DEF RequestEntries
<1> HIDE DEF E
<1>5. TypesOK'
  <2>1. records' \in Seq(Entries) /\ q \in Triples
    BY <1>0, <1>3 DEF Longer, RequestCalled
  <2>2. at' \in IF txtype = "req"
                THEN {"start", "recv", "hash", "pass", "synth", "pipe", "hit", "wait", "respond",
                      "deliver", "transmit", "restart", "vcl_synth", "end"}
                ELSE {"start", "fetch", "connect", "error", "response", "backend_error", "end"}
    BY <1>0 DEF WorkerInv, TypesOK
  <2> QED BY <1>0, <2>1, <2>2 DEF WorkerInv, TypesOK
<1>6. AnswerLogged'
  <2>1. NoAnswerNow(records, txtype)
    BY <1>2 DEF WorkerInv, AnswerLogged
  <2>2. NoAnswerNow(records', txtype)
    BY <1>3, <1>4, <2>1, SameAnswer
  <2> QED BY <1>0, <1>2, <2>2 DEF AnswerLogged
<1>7. AnswerHeld'
  BY <1>2 DEF AnswerHeld
<1>8. LogKept'
  <2>1. Had' = Had
    BY <1>1, <1>2 DEF Had
  <2> QED BY <1>0, <1>1, <1>3, <2>1 DEF LogKept
<1>9. Settled(records')
  BY <1>2, <1>3, <1>4 DEF Longer, WorkerInv, Once
<1>10. RequestNow(records', txtype, request')
  BY <1>0, <1>3
<1>11. /\ txtype' = txtype /\ at \notin {"start", "end"} /\ at' # "start"
       /\ txtype = "bereq" => request' = truth'.sent
       /\ at' \in {"recv", "hash", "hit"} => at \in {"recv", "hash", "hit"} /\ \A e \in E : e.tag # "Hit"
       /\ at' \notin {"transmit", "restart", "end"} =>
            at \notin {"transmit", "restart", "end"} /\ Entry("VCL_call", "SYNTH") \notin E
  BY <1>0, <1>2, <1>4
<1> QED BY <1>1, <1>3, <1>4, <1>5, <1>6, <1>7, <1>8, <1>9, <1>10, <1>11, Advance

\* What VCL sets of a request is logged, and is a change of it.
LEMMA RewriteChanges ==
  ASSUME txtype \in {"req", "bereq"}, request \in Triples, NEW r \in Triples, r[1] = request[1]
  PROVE  Rewrite(r) \in Seq(Entries) /\ RequestChange(txtype, request, r, Rewrite(r))
<1>1. Rewrite(r) = (IF r[2] = request[2] THEN << >> ELSE R(URLTag(txtype), r[2]))
                     \o (IF r[3] = request[3] THEN << >> ELSE R("Host", r[3]))
  BY DEF Rewrite, URLRecord, HostRecord, URLTag
<1>2. R(URLTag(txtype), r[2]) \in Seq(Entries) /\ R("Host", r[3]) \in Seq(Entries)
  <2>1. {URLTag(txtype), "Host"} \subseteq Tags
    BY DEF URLTag, Tags
  <2> QED BY <2>1, OneRecord, TripleParts
<1>3. Rewrite(r) \in Seq(Entries)
  BY <1>1, <1>2, EmptySeq, ConcatProperties
<1> QED BY <1>1, <1>3 DEF RequestChange

\* Recv calls vcl_recv on req.
LEMMA RecvKeeps ==
  ASSUME WorkerInv, Recv, txtype' = txtype
  PROVE  WorkerInv'
<1>1. PICK r \in {q \in Requests : q[1] = request[1]}, result \in {"hash", "pass", "synth", "pipe"} :
        /\ Log(VCL("RECV", IF r = request THEN R("VCL_Log", "text") ELSE Rewrite(r), result)
               \o VCL("HASH", << >>, "lookup"))
        /\ request' = r /\ at' = result
  BY DEF Recv
<1> DEFINE sub == "RECV"
           c == IF r = request THEN R("VCL_Log", "text") ELSE Rewrite(r)
           return == R("VCL_return", result)
           hash == VCL("HASH", << >>, "lookup")
           d == return \o hash
<1>2. /\ at = "recv" /\ txtype = "req" /\ records \in Seq(Entries) /\ r \in Triples /\ request \in Triples
      /\ answer' = answer /\ truth' = truth
      /\ truth \in [received : Triples, sent : Triples, hit : Values, synth : Pairs, had : SUBSET Pairs,
                    got : Pairs, object : Pairs]
  BY <1>1, PairsOK DEF Recv, WorkerInv, TypesOK
<1>3. QuietChunk(return) /\ QuietChunk(hash) /\ QuietChunk(d)
  <2>1. Entry("VCL_return", result) \in QuietEntries
    BY DEF QuietEntries, Entry, Entries, Tags, Values, Words, RequestTags, AllAnswerTags
  <2>2. "HASH" \in Words \ {"RECV", "BACKEND_FETCH", "HIT", "SYNTH"} /\ "lookup" \in Words \ {"deliver"}
    BY DEF Words
  <2> QED BY <2>1, <2>2, QuietOne, QuietCall, QuietMore
<1>4. RequestChange(txtype, request, r, c)
  BY <1>1, <1>2, RewriteChanges DEF RequestChange
<1>5. RequestNow(records, txtype, request)
  BY <1>2 DEF WorkerInv, RequestLogged
<1>6. c \in Seq(Entries) /\ R("VCL_call", sub) \in Seq(Entries)
  <2>1. /\ {"VCL_Log", "VCL_call"} \subseteq Tags /\ {"text", sub} \subseteq Values
    BY DEF Tags, Values, Words
  <2>2. R("VCL_Log", "text") \in Seq(Entries) /\ R("VCL_call", sub) \in Seq(Entries)
    BY <2>1, OneRecord
  <2> QED BY <1>2, <2>2, RewriteChanges
<1>7. records' = ((records \o R("VCL_call", sub)) \o c) \o d
  <2> DEFINE v == VCL(sub, c, result)
             y == (records \o R("VCL_call", sub)) \o c
  <2>1. records' = records \o (v \o hash)
    BY <1>1 DEF Log
  <2>2. sub \in Values /\ result \in Values
    BY DEF Values, Words
  <2>3. /\ return \in Seq(Entries) /\ hash \in Seq(Entries) /\ d = return \o hash
    BY <1>3 DEF QuietChunk
  <2> HIDE DEF sub, c, return, hash, d
  <2>4. v \in Seq(Entries) /\ records \o v = y \o return
    <3>1. \A s, change \in Seq(Entries) : \A w, z \in Values :
            /\ VCL(w, change, z) \in Seq(Entries)
            /\ s \o VCL(w, change, z) = ((s \o R("VCL_call", w)) \o change) \o R("VCL_return", z)
      BY CallRecords, Zenon
    <3>2. records \in Seq(Entries) /\ c \in Seq(Entries) /\ sub \in Values /\ result \in Values
      BY <1>2, <1>6, <2>2
    <3>3. /\ v \in Seq(Entries)
          /\ records \o v = ((records \o R("VCL_call", sub)) \o c) \o R("VCL_return", result)
      BY <3>1, <3>2
    <3> QED BY <3>3 DEF return
  <2>5. y \in Seq(Entries)
    <3>1. records \o R("VCL_call", sub) \in Seq(Entries)
      BY <1>2, <1>6, ConcatProperties
    <3> QED BY <1>6, <3>1, ConcatProperties
  <2> HIDE DEF v, y
  <2>6. records \o (v \o hash) = (records \o v) \o hash
    BY <1>2, <2>3, <2>4, ThreeParts
  <2>7. y \o (return \o hash) = (y \o return) \o hash
    BY <2>3, <2>5, ThreeParts
  <2> QED BY <2>1, <2>3, <2>4, <2>6, <2>7 DEF y
<1>8. RequestCalled(records, txtype, request, r, c, sub, d,
                    truth.hit, truth.synth, Had, truth.object, records')
  BY <1>2, <1>3, <1>4, <1>5, <1>7, InvFacts DEF RequestCalled
<1>9. <<at, at'>> \in {<<"recv", "hash">>, <<"recv", "pass">>, <<"recv", "synth">>, <<"recv", "pipe">>,
                       <<"fetch", "connect">>, <<"fetch", "error">>}
  BY <1>1, <1>2
<1> HIDE DEF c, sub, d
<1>10. RequestMade(r, c, sub, d)
  <2>1. truth' = [truth EXCEPT !.sent = truth'.sent]
    BY <1>2
  <2> QED BY <1>1, <1>2, <1>8, <1>9, <2>1 DEF RequestMade
<1> QED BY <1>10, RequestStep

\* BackendFetch calls vcl_backend_fetch on bereq; what it leaves is sent.
LEMMA BackendFetchKeeps ==
  ASSUME WorkerInv, BackendFetch, txtype' = txtype
  PROVE  WorkerInv'
<1>1. PICK r \in {q \in Requests : q[1] = request[1]}, result \in {"fetch", "error"} :
        /\ Log(VCL("BACKEND_FETCH", Rewrite(r), result))
        /\ request' = r
        /\ truth' = [truth EXCEPT !.sent = r]
        /\ at' = IF result = "fetch" THEN "connect" ELSE "error"
  BY DEF BackendFetch
<1> DEFINE sub == "BACKEND_FETCH"
           c == Rewrite(r)
           d == R("VCL_return", result)
<1>2. /\ at = "fetch" /\ txtype = "bereq" /\ records \in Seq(Entries) /\ r \in Triples /\ request \in Triples
      /\ answer' = answer
      /\ truth \in [received : Triples, sent : Triples, hit : Values, synth : Pairs, had : SUBSET Pairs,
                    got : Pairs, object : Pairs]
  BY <1>1, PairsOK DEF BackendFetch, WorkerInv, TypesOK
<1>3. QuietChunk(d)
  <2>1. Entry("VCL_return", result) \in QuietEntries
    BY DEF QuietEntries, Entry, Entries, Tags, Values, Words, RequestTags, AllAnswerTags
  <2> QED BY <2>1, QuietOne
<1>4. RequestChange(txtype, request, r, c)
  BY <1>1, <1>2, RewriteChanges
<1>5. RequestNow(records, txtype, request)
  BY <1>2 DEF WorkerInv, RequestLogged
<1>6. c \in Seq(Entries)
  BY <1>2, RewriteChanges
<1>7. records' = ((records \o R("VCL_call", sub)) \o c) \o d
  <2>1. sub \in Values /\ result \in Values
    BY DEF Values, Words
  <2>2. records' = records \o VCL(sub, c, result)
    BY <1>1 DEF Log
  <2>3. \A s, change \in Seq(Entries) : \A x, y \in Values :
          s \o VCL(x, change, y) = ((s \o R("VCL_call", x)) \o change) \o R("VCL_return", y)
    BY CallRecords, Zenon
  <2> HIDE DEF c, sub
  <2> QED BY SMTT(30), <1>2, <1>6, <2>1, <2>2, <2>3
<1>8. RequestCalled(records, txtype, request, r, c, sub, d,
                    truth.hit, truth.synth, Had, truth.object, records')
  BY <1>2, <1>3, <1>4, <1>5, <1>7, InvFacts DEF RequestCalled
<1>9. <<at, at'>> \in {<<"recv", "hash">>, <<"recv", "pass">>, <<"recv", "synth">>, <<"recv", "pipe">>,
                       <<"fetch", "connect">>, <<"fetch", "error">>}
  BY <1>1, <1>2
<1> HIDE DEF c, sub, d
<1>10. RequestMade(r, c, sub, d)
  <2>1. /\ truth' = [truth EXCEPT !.sent = truth'.sent] /\ truth'.sent = r
        /\ truth' \in [received : Triples, sent : Triples, hit : Values, synth : Pairs, had : SUBSET Pairs,
                       got : Pairs, object : Pairs]
    BY <1>1, <1>2
  <2> QED BY <1>1, <1>2, <1>8, <1>9, <2>1 DEF RequestMade
<1> QED BY <1>10, RequestStep

\* Hit logs the object that was hit, then calls vcl_hit.
LEMMA HitKeeps ==
  ASSUME WorkerInv, Hit, txtype' = txtype
  PROVE  WorkerInv'
<1>1. PICK object \in {"cached", "streaming"}, result \in {"deliver", "pass", "synth"} :
        /\ Log(R("Hit", object) \o VCL("HIT", << >>, result))
        /\ truth' = [truth EXCEPT !.hit = object]
        /\ at' = IF result = "deliver" THEN "respond" ELSE result
  BY DEF Hit
<1> DEFINE hit == "Hit"
           call == "VCL_call"
           return == "VCL_return"
           sub == "HIT"
           none == << >>
           p == records \o R(hit, object)
           q == p \o R(call, sub)
           t == q \o R(return, result)
<1>2. /\ at = "hit" /\ txtype = "req" /\ records \in Seq(Entries)
      /\ request' = request /\ answer' = answer /\ request \in Triples /\ answer \in Pairs
      /\ truth \in [received : Triples, sent : Triples, hit : Values, synth : Pairs, had : SUBSET Pairs,
                    got : Pairs, object : Pairs]
      /\ NoAnswerNow(records, txtype) /\ NoHit(records) /\ Settled(records)
  BY DEF Hit, WorkerInv, TypesOK, AnswerLogged, Unanswered, Once
<1>3. /\ {hit, call, return} \subseteq Tags \ {"RespStatus", "RespReason"}
      /\ hit = "Hit" /\ call = "VCL_call" /\ return = "VCL_return" /\ sub = "HIT"
      /\ hit # call /\ hit # return /\ call # return
      /\ {object, result, sub} \subseteq Values
  <2>1. {hit, call, return} \subseteq Tags \ {"RespStatus", "RespReason"}
    BY DEF Tags
  <2>2. {object, result, sub} \subseteq Values
    BY DEF Values, Words
  <2> QED BY <2>1, <2>2
<1>4. /\ truth'.received = truth.received /\ truth'.got = truth.got /\ truth'.sent = truth.sent
      /\ truth'.hit = object /\ truth'.synth = truth.synth /\ truth'.had = truth.had
      /\ truth'.object = truth.object
      /\ truth' \in [received : Triples, sent : Triples, hit : Values, synth : Pairs, had : SUBSET Pairs,
                     got : Pairs, object : Pairs]
  BY <1>1, <1>2, <1>3
<1>5. AllKept(records, txtype, object, truth.synth, Had, truth.object)
  BY <1>2, InvFacts, KeptHit
<1> HIDE DEF hit, call, return, sub
<1>6. Grown(records, p, Entry(hit, object)) /\ AllKept(p, txtype, object, truth.synth, Had, truth.object)
  <2>1. MayAdd(records, hit, object, txtype, object, truth.synth, Had, truth.object)
    BY <1>3 DEF MayAdd
  <2> QED BY <1>2, <1>3, <1>5, <2>1, Grow, KeepOne
<1> HIDE DEF p
<1>7. p \in Seq(Entries) /\ EndIn(p, "Hit") # NoRecord
  <2>1. Entry(hit, object).tag = hit /\ Entry(hit, object) # NoRecord
    BY <1>3 DEF Entry, NoRecord
  <2> QED BY <1>3, <1>6, <2>1 DEF Grown
<1>8. Grown(p, q, Entry(call, sub)) /\ AllKept(q, txtype, object, truth.synth, Had, truth.object)
  <2>1. MayAdd(p, call, sub, txtype, object, truth.synth, Had, truth.object)
    BY <1>2, <1>3, <1>7 DEF MayAdd
  <2> QED BY <1>3, <1>6, <1>7, <2>1, Grow, KeepOne
<1> HIDE DEF q
<1>9. q \in Seq(Entries) /\ EndIn(q, "RespStatus") = NoRecord
  <2>1. \A x, y : Entry(x, y).tag = x
    BY DEF Entry
  <2>2. EndIn(records, "RespStatus") = NoRecord
    BY <1>2 DEF NoAnswerNow, StatusTag
  <2> QED BY <1>3, <1>6, <1>8, <2>1, <2>2 DEF Grown
<1>10. Grown(q, t, Entry(return, result)) /\ AllKept(t, txtype, object, truth.synth, Had, truth.object)
  <2>1. MayAdd(q, return, result, txtype, object, truth.synth, Had, truth.object)
    BY <1>2, <1>3, <1>9 DEF MayAdd
  <2> QED BY <1>3, <1>8, <1>9, <2>1, Grow, KeepOne
<1>11. records' = t
  <2> DEFINE x == R("Hit", object)
             v == VCL("HIT", << >>, result)
  <2>1. records' = records \o (x \o v)
    BY <1>1 DEF Log
  <2>2. /\ x \in Seq(Entries) /\ none \in Seq(Entries) /\ "HIT" \in Values /\ result \in Values
        /\ q \o none = q
    BY <1>3, <1>9, OneRecord, NoChange, EmptySeq DEF hit, sub
  <2>3. /\ \A s, change \in Seq(Entries) : \A w, z \in Values :
             /\ VCL(w, change, z) \in Seq(Entries)
             /\ s \o VCL(w, change, z) = ((s \o R("VCL_call", w)) \o change) \o R("VCL_return", z)
    BY CallRecords, Zenon
  <2>4. v \in Seq(Entries) /\ p \o v = ((p \o R("VCL_call", "HIT")) \o none) \o R("VCL_return", result)
    BY <1>7, <2>2, <2>3
  <2> HIDE DEF none, x, v
  <2>5. records \o (x \o v) = (records \o x) \o v
    BY <1>2, <2>2, <2>4, ThreeParts
  <2> QED BY <2>1, <2>2, <2>4, <2>5 DEF t, q, p, x, call, return, sub, hit
<1> HIDE DEF t
<1> DEFINE E == ({Entry(hit, object)} \cup {Entry(call, sub)}) \cup {Entry(return, result)}
<1>12. Longer(records, t, E)
  <2>1. Longer(records, p, {Entry(hit, object)}) /\ Longer(p, q, {Entry(call, sub)})
        /\ Longer(q, t, {Entry(return, result)})
    BY <1>6, <1>8, <1>10, LongerOne
  <2>2. Longer(records, q, {Entry(hit, object)} \cup {Entry(call, sub)})
    BY <2>1, LongerMore
  <2> QED BY <2>1, <2>2, LongerMore
<1>13. /\ \A e \in E : e.tag \notin RequestTags \cup AllAnswerTags
       /\ Entry("VCL_call", "SYNTH") \notin E
       /\ result # "deliver" => ReturnDeliver \notin E
  BY <1>3 DEF Entry, RequestTags, AllAnswerTags, ReturnDeliver
<1> HIDE DEF E
<1>14. Had' = Had /\ at' \in {"respond", "pass", "synth"} /\ (at' # "respond" => result # "deliver")
  BY <1>1, <1>2, <1>4 DEF Had
<1>15. TypesOK'
  <2>1. records' \in Seq(Entries)
    BY <1>11, <1>12 DEF Longer
  <2> QED BY <1>2, <1>4, <1>14, <2>1 DEF TypesOK
<1>16. RequestNow(records, txtype, request) => RequestNow(records', txtype, request')
  BY <1>2, <1>11, <1>12, <1>13, SameRequest
<1>17. AnswerLogged'
  <2>1. NoAnswerNow(records', txtype)
    BY <1>2, <1>11, <1>12, <1>13, SameAnswer
  <2> QED BY <1>14, <2>1 DEF AnswerLogged, Answered
<1>18. AnswerHeld'
  BY <1>14 DEF AnswerHeld
<1>19. LogKept'
  BY <1>4, <1>10, <1>11, <1>14 DEF LogKept
<1>20. at' \notin {"respond", "transmit", "end"} => Settled(records')
  BY <1>2, <1>11, <1>12, <1>13, <1>14 DEF Longer
<1>21. /\ at \notin {"start", "end"} /\ at' # "start" /\ Longer(records, records', E)
       /\ txtype = "bereq" => request' = truth'.sent
       /\ at' \in {"recv", "hash", "hit"} => at \in {"recv", "hash", "hit"} /\ \A e \in E : e.tag # "Hit"
       /\ at' \notin {"transmit", "restart", "end"} =>
            at \notin {"transmit", "restart", "end"} /\ Entry("VCL_call", "SYNTH") \notin E
       /\ txtype = "bereq" /\ at' # "end" => ReturnDeliver \notin E
  BY <1>2, <1>11, <1>12, <1>13, <1>14
<1> QED BY <1>4, <1>15, <1>16, <1>17, <1>18, <1>19, <1>20, <1>21, Advance

-----------------------------------------------------------------------------
(* The client gets its answer *)

\* t is s with more records behind it, none of them a return of deliver.
After(s, t) ==
  /\ t \in Seq(Entries) /\ Len(s) \in DOMAIN t /\ t[Len(s)] = s[Len(s)]
  /\ \A w : LastIn(t, w, Len(s)) = EndIn(s, w)
  /\ \A k \in DOMAIN t : k > Len(s) => t[k] # ReturnDeliver

\* Behind the last record there is nothing to find.
LEMMA AfterNone ==
  ASSUME NEW s \in Seq(Entries), Len(s) # 0
  PROVE  After(s, s) /\ \A w : NextIn(s, w, Len(s)) = NoRecord
<1>1. Len(s) \in Nat /\ DOMAIN s = 1..Len(s)
  BY LenProperties
<1>2. Len(s) \in DOMAIN s /\ \A k \in DOMAIN s : ~(k > Len(s))
  BY <1>1
<1>3. \A w : NextIn(s, w, Len(s)) = NoRecord
  BY <1>2, NextNone
<1> QED BY <1>2, <1>3 DEF After, EndIn

\* One more record is the first found behind s when none of its tag was.
LEMMA AfterOne ==
  ASSUME NEW s \in Seq(Entries), NEW t, After(s, t), NEW tag \in Tags, NEW value \in Values,
         tag # "VCL_return"
  PROVE  /\ After(s, t \o R(tag, value))
         /\ \A w : NextIn(t \o R(tag, value), w, Len(s))
                     = IF NextIn(t, w, Len(s)) # NoRecord \/ w # tag THEN NextIn(t, w, Len(s))
                       ELSE Entry(tag, value)
<1> DEFINE u == t \o R(tag, value)
           i == Len(s)
<1>1. t \in Seq(Entries) /\ i \in DOMAIN t
  BY DEF After
<1>2. /\ u \in Seq(Entries) /\ Len(t) \in Nat /\ DOMAIN t = 1..Len(t) /\ DOMAIN u = 1..(Len(t) + 1)
      /\ \A j \in DOMAIN t : u[j] = t[j]
      /\ u[Len(t) + 1] = Entry(tag, value)
  BY <1>1, OneMore
<1>3. \A w : LastIn(u, w, i) = LastIn(t, w, i)
  BY <1>1, LastStays
<1>4. \A k \in DOMAIN u : k > i => u[k] # ReturnDeliver
  <2>1. Entry(tag, value) # ReturnDeliver
    BY DEF Entry, ReturnDeliver
  <2>2. \A k \in DOMAIN u : k \in DOMAIN t \/ k = Len(t) + 1
    BY <1>2
  <2>3. \A k \in DOMAIN t : k > i => t[k] # ReturnDeliver
    BY DEF After
  <2> QED BY <1>2, <2>1, <2>2, <2>3
<1>5. i \in 0..Len(t) /\ i \in DOMAIN u
  BY <1>1, <1>2
<1>6. \A w : NextIn(u, w, i) = IF NextIn(t, w, i) # NoRecord \/ w # tag THEN NextIn(t, w, i)
                               ELSE Entry(tag, value)
  BY <1>1, <1>5, NextMoves
<1>7. u[i] = s[i] /\ \A w : LastIn(u, w, i) = EndIn(s, w)
  BY <1>1, <1>2, <1>3 DEF After
<1>8. After(s, u)
  BY <1>2, <1>4, <1>5, <1>7 DEF After
<1> QED BY <1>6, <1>8

\* Where the client got the answer a.
GotIn(s, j, a) ==
  /\ s[j] = ReturnDeliver
  /\ \A k \in DOMAIN s : k > j => s[k] # ReturnDeliver
  /\ \/ /\ NoneAfter(s, j)
        /\ LastIn(s, "RespStatus", j) # NoRecord
        /\ LastPair(s, "RespStatus", "RespReason", j) = a
     \/ SomeAfter(s, j) /\ NextPair(s, j) = a

\* With no answer logged behind deliver, the client got the last one before it.
LEMMA GotNow ==
  ASSUME NEW s \in Seq(Entries), EndsWith(s, ReturnDeliver), NEW a \in Pairs, AnswerNow(s, "req", a)
  PROVE  Len(s) \in DOMAIN (s \o R("End", "")) /\ GotIn(s \o R("End", ""), Len(s), a)
<1> DEFINE end == "End"
           no == ""
           t == s \o R(end, no)
           i == Len(s)
<1>1. /\ end \in Tags /\ no \in Values /\ end \notin {"VCL_return", "RespStatus", "RespReason"}
      /\ Len(s) # 0 /\ s[i] = ReturnDeliver
  BY DEF Tags, Values, Words, EndsWith
<1> HIDE DEF end, no
<1>2. After(s, s) /\ \A w : NextIn(s, w, i) = NoRecord
  BY <1>1, AfterNone
<1>3. /\ After(s, t)
      /\ \A w : NextIn(t, w, i) = IF NextIn(s, w, i) # NoRecord \/ w # end THEN NextIn(s, w, i)
                                  ELSE Entry(end, no)
  BY <1>1, <1>2, AfterOne
<1> HIDE DEF t
<1>4. NoneAfter(t, i)
  BY <1>1, <1>2, <1>3 DEF NoneAfter
<1>5. /\ LastIn(t, "RespStatus", i) = Entry("RespStatus", a[1])
      /\ LastIn(t, "RespReason", i) = Entry("RespReason", a[2])
  BY <1>3 DEF After, AnswerNow, StatusTag, ReasonTag
<1>6. LastIn(t, "RespStatus", i) # NoRecord /\ LastPair(t, "RespStatus", "RespReason", i) = a
  <2>1. Entry("RespStatus", a[1]) # NoRecord
    BY DEF Entry, NoRecord
  <2>2. LastIn(t, "RespStatus", i).value = a[1] /\ LastIn(t, "RespReason", i).value = a[2]
    BY <1>5 DEF Entry
  <2>3. a = <<a[1], a[2]>>
    BY PairParts
  <2> QED BY <1>5, <2>1, <2>2, <2>3 DEF LastPair
<1>7. i \in DOMAIN t /\ GotIn(t, i, a)
  BY <1>1, <1>3, <1>4, <1>6 DEF After, GotIn
<1> QED BY <1>7 DEF t, end, no

\* With an answer logged behind deliver, the client got that one.
LEMMA GotLater ==
  ASSUME NEW s \in Seq(Entries), EndsWith(s, ReturnDeliver), NEW a \in Pairs
  PROVE  LET t == ((s \o R("RespStatus", a[1])) \o R("RespReason", a[2])) \o R("End", "")
         IN  Len(s) \in DOMAIN t /\ GotIn(t, Len(s), a)
<1> DEFINE end == "End"
           no == ""
           status == "RespStatus"
           reason == "RespReason"
           p == s \o R(status, a[1])
           q == p \o R(reason, a[2])
           t == q \o R(end, no)
           i == Len(s)
<1>1. /\ {end, status, reason} \subseteq Tags /\ {no, a[1], a[2]} \subseteq Values
      /\ end # "VCL_return" /\ status # "VCL_return" /\ reason # "VCL_return"
      /\ end # status /\ end # reason /\ status # reason
      /\ status = "RespStatus" /\ reason = "RespReason"
      /\ Len(s) # 0 /\ s[i] = ReturnDeliver
  BY PairParts DEF Tags, Values, Words, EndsWith
<1> HIDE DEF end, no, status, reason
<1>2. After(s, s) /\ \A w : NextIn(s, w, i) = NoRecord
  BY <1>1, AfterNone
<1>3. /\ After(s, p)
      /\ \A w : NextIn(p, w, i) = IF NextIn(s, w, i) # NoRecord \/ w # status THEN NextIn(s, w, i)
                                  ELSE Entry(status, a[1])
  BY <1>1, <1>2, AfterOne
<1> HIDE DEF p
<1>4. /\ After(s, q)
      /\ \A w : NextIn(q, w, i) = IF NextIn(p, w, i) # NoRecord \/ w # reason THEN NextIn(p, w, i)
                                  ELSE Entry(reason, a[2])
  BY <1>1, <1>3, AfterOne
<1> HIDE DEF q
<1>5. /\ After(s, t)
      /\ \A w : NextIn(t, w, i) = IF NextIn(q, w, i) # NoRecord \/ w # end THEN NextIn(q, w, i)
                                  ELSE Entry(end, no)
  BY <1>1, <1>4, AfterOne
<1> HIDE DEF t
<1>6. NextIn(t, status, i) = Entry(status, a[1]) /\ NextIn(t, reason, i) = Entry(reason, a[2])
  <2>1. \A v : Entry(status, v) # NoRecord /\ Entry(reason, v) # NoRecord
    BY <1>1 DEF Entry, NoRecord
  <2> QED BY <1>1, <1>2, <1>3, <1>4, <1>5, <2>1
<1>7. SomeAfter(t, i) /\ NextPair(t, i) = a
  <2>1. Entry("RespStatus", a[1]) # NoRecord /\ Entry("RespReason", a[2]) # NoRecord
    BY DEF Entry, NoRecord
  <2>2. Entry("RespStatus", a[1]).value = a[1] /\ Entry("RespReason", a[2]).value = a[2]
    BY DEF Entry
  <2>3. a = <<a[1], a[2]>>
    BY PairParts
  <2> QED BY <1>1, <1>6, <2>1, <2>2, <2>3 DEF SomeAfter, NextPair
<1>8. i \in DOMAIN t /\ GotIn(t, i, a)
  BY <1>1, <1>5, <1>7 DEF After, GotIn
<1> QED BY <1>8 DEF t, q, p, end, no, status, reason

\* Transmit ends the log; the answer the client got is the one found from deliver.
LEMMA TransmitLogs ==
  ASSUME WorkerInv, Transmit, txtype' = txtype,
         NEW sent \in Pairs,
         sent = answer \/ sent = Partial,
         records' = records \o ((IF sent = answer THEN << >> ELSE AnswerRecords(sent)) \o R("End", "")),
         NEW had, Had \subseteq had, sent \in had
  PROVE  /\ Longer(records, records', AnswerEntries(txtype, sent) \cup QuietEntries)
         /\ AllKept(records', txtype, truth.hit, truth.synth, had, truth.object)
         /\ Len(records) \in DOMAIN records' /\ GotIn(records', Len(records), sent)
<1> DEFINE end == R("End", "")
           E == AnswerEntries(txtype, sent)
<1>1. /\ records \in Seq(Entries) /\ txtype = "req" /\ at = "transmit" /\ answer \in Pairs
      /\ AnswerNow(records, "req", answer) /\ EndsWith(records, ReturnDeliver)
  BY DEF Transmit, WorkerInv, TypesOK, AnswerLogged, Answered, AnswerHeld, EndsWith
<1>2. AllKept(records, txtype, truth.hit, truth.synth, had, truth.object)
  BY InvFacts, KeptMore
<1>3. QuietChunk(end)
  <2>1. Entry("End", "") \in QuietEntries
    BY DEF QuietEntries, Entry, Entries, Tags, Values, Words, RequestTags, AllAnswerTags
  <2> QED BY <2>1, QuietOne
<1>4. ASSUME sent = answer
      PROVE  /\ Longer(records, records', E \cup QuietEntries)
             /\ AllKept(records', txtype, truth.hit, truth.synth, had, truth.object)
             /\ Len(records) \in DOMAIN records' /\ GotIn(records', Len(records), sent)
  <2>1. records' = records \o end
    <3>1. end \in Seq(Entries)
      BY <1>3 DEF QuietChunk
    <3>2. records' = records \o (<< >> \o end)
      BY <1>4
    <3> HIDE DEF end
    <3> QED BY <3>1, <3>2, NoChange
  <2>2. Len(records) \in DOMAIN records' /\ GotIn(records', Len(records), sent)
    BY <1>1, <1>4, <2>1, GotNow
  <2> HIDE DEF end
  <2>3. /\ Longer(records, records', QuietEntries)
        /\ AllKept(records', txtype, truth.hit, truth.synth, had, truth.object)
    BY <1>1, <1>2, <1>3, <2>1 DEF QuietChunk
  <2>4. QuietEntries \subseteq E \cup QuietEntries
    OBVIOUS
  <2> HIDE DEF E
  <2>5. Longer(records, records', E \cup QuietEntries)
    BY <2>3, <2>4, LongerWider
  <2> QED BY <2>2, <2>3, <2>5
<1>5. ASSUME sent # answer
      PROVE  /\ Longer(records, records', E \cup QuietEntries)
             /\ AllKept(records', txtype, truth.hit, truth.synth, had, truth.object)
             /\ Len(records) \in DOMAIN records' /\ GotIn(records', Len(records), sent)
  <2> DEFINE status == R("RespStatus", sent[1])
             reason == R("RespReason", sent[2])
             s == records \o AnswerRecords(sent)
  <2>1. AnswerRecords(sent) = status \o reason
    BY <1>1 DEF AnswerRecords
  <2>2. status \in Seq(Entries) /\ reason \in Seq(Entries) /\ end \in Seq(Entries)
    <3>1. /\ sent[1] \in Values /\ sent[2] \in Values
          /\ \A x \in {"RespStatus", "RespReason"} : x \in Tags
      BY PairParts DEF Tags
    <3> QED BY <1>3, <3>1, OneRecord DEF QuietChunk
  <2>3. /\ Len(records) \in DOMAIN (((records \o status) \o reason) \o end)
        /\ GotIn(((records \o status) \o reason) \o end, Len(records), sent)
    BY <1>1, GotLater
  <2>4. records' = records \o (AnswerRecords(sent) \o end)
    BY <1>5
  <2> HIDE DEF status, reason, end
  <2>5. status \o reason \in Seq(Entries)
    BY <2>2, ConcatProperties
  <2>6. records \o (AnswerRecords(sent) \o end) = s \o end
    <3> DEFINE c == AnswerRecords(sent)
    <3>1. c \in Seq(Entries)
      BY <2>1, <2>5
    <3> HIDE DEF c
    <3>2. records \o (c \o end) = (records \o c) \o end
      BY <1>1, <2>2, <3>1, ThreeParts
    <3> QED BY <3>2 DEF c
  <2>7. s = (records \o status) \o reason
    <3>1. records \o (status \o reason) = (records \o status) \o reason
      BY <1>1, <2>2, ThreeParts
    <3> QED BY <2>1, <3>1
  <2>8. records' = s \o end
    BY <2>4, <2>6
  <2> DEFINE t == s
  <2>9. /\ s \in Seq(Entries) /\ Longer(records, s, E)
        /\ AllKept(s, txtype, truth.hit, truth.synth, had, truth.object)
    <3>1. t = records \o AnswerRecords(sent) /\ txtype \in {"req", "bereq"}
      BY <1>1
    <3> HIDE DEF t, E
    <3>2. /\ t \in Seq(Entries) /\ Longer(records, t, AnswerEntries(txtype, sent))
          /\ AllKept(t, txtype, truth.hit, truth.synth, had, truth.object)
      BY <1>1, <1>2, <3>1, LogsAnswer
    <3> QED BY <3>2 DEF t, E
  <2> HIDE DEF s, E
  <2>10. /\ Longer(s, records', QuietEntries)
         /\ AllKept(records', txtype, truth.hit, truth.synth, had, truth.object)
    BY <1>3, <2>8, <2>9 DEF QuietChunk
  <2>11. Longer(records, records', E \cup QuietEntries)
    BY <2>9, <2>10, LongerMore
  <2>12. Len(records) \in DOMAIN records' /\ GotIn(records', Len(records), sent)
    BY <2>3, <2>7, <2>8
  <2> QED BY <2>10, <2>11, <2>12
<1> QED BY <1>4, <1>5

\* Transmit sends resp, or the part of it that was asked for.
LEMMA TransmitKeeps ==
  ASSUME WorkerInv, Transmit, txtype' = txtype
  PROVE  WorkerInv'
<1>1. PICK sent \in {answer} \cup (IF answer[1] = OK[1] THEN {Partial} ELSE {}) :
        /\ Log((IF sent = answer THEN << >> ELSE AnswerRecords(sent)) \o R("End", ""))
        /\ answer' = sent
        /\ truth' = [truth EXCEPT !.had = @ \cup {sent}, !.got = sent]
  BY DEF Transmit
<1>2. /\ records \in Seq(Entries) /\ txtype = "req" /\ at = "transmit" /\ at' = "end"
      /\ request' = request /\ request \in Triples /\ answer \in Pairs /\ sent \in Pairs
      /\ sent = answer \/ sent = Partial
      /\ truth \in [received : Triples, sent : Triples, hit : Values, synth : Pairs, had : SUBSET Pairs,
                    got : Pairs, object : Pairs]
  BY <1>1, PairsOK DEF Transmit, WorkerInv, TypesOK
<1>3. /\ truth'.received = truth.received /\ truth'.got = sent /\ truth'.sent = truth.sent
      /\ truth'.hit = truth.hit /\ truth'.synth = truth.synth /\ truth'.had = truth.had \cup {sent}
      /\ truth'.object = truth.object
      /\ truth' \in [received : Triples, sent : Triples, hit : Values, synth : Pairs, had : SUBSET Pairs,
                     got : Pairs, object : Pairs]
  <2> DEFINE new == [truth EXCEPT !.had = @ \cup {sent}]
  <2>1. truth' = [new EXCEPT !.got = sent]
    BY <1>1, <1>2
  <2>2. /\ new \in [received : Triples, sent : Triples, hit : Values, synth : Pairs, had : SUBSET Pairs,
                    got : Pairs, object : Pairs]
        /\ new.received = truth.received /\ new.sent = truth.sent /\ new.hit = truth.hit
        /\ new.synth = truth.synth /\ new.had = truth.had \cup {sent} /\ new.object = truth.object
    BY <1>2
  <2> HIDE DEF new
  <2> QED BY <1>2, <2>1, <2>2
<1>4. Had' = truth'.had /\ Had \subseteq truth'.had /\ sent \in truth'.had
  BY <1>2, <1>3 DEF Had
<1> DEFINE E == AnswerEntries(txtype, sent) \cup QuietEntries
<1>5. /\ Longer(records, records', E)
      /\ AllKept(records', txtype, truth.hit, truth.synth, truth'.had, truth.object)
      /\ Len(records) \in DOMAIN records' /\ GotIn(records', Len(records), sent)
  <2>1. records' = records \o ((IF sent = answer THEN << >> ELSE AnswerRecords(sent)) \o R("End", ""))
    BY <1>1 DEF Log
  <2> DEFINE had == truth'.had
  <2>2. Had \subseteq had /\ sent \in had
    BY <1>4
  <2> HIDE DEF had
  <2>3. /\ Longer(records, records', AnswerEntries(txtype, sent) \cup QuietEntries)
        /\ AllKept(records', txtype, truth.hit, truth.synth, had, truth.object)
        /\ Len(records) \in DOMAIN records' /\ GotIn(records', Len(records), sent)
    BY <1>2, <2>1, <2>2, TransmitLogs
  <2> QED BY <2>3 DEF had
<1>6. \A e \in E : e.tag \notin RequestTags
  <2>1. \A e \in QuietEntries : e.tag \notin RequestTags
    BY DEF QuietEntries
  <2> QED BY <1>2, <2>1, AnswerEntriesAre
<1> HIDE DEF E
<1>7. TypesOK'
  <2>1. records' \in Seq(Entries)
    BY <1>5 DEF Longer
  <2> QED BY <1>1, <1>2, <1>3, <2>1 DEF TypesOK
<1>8. RequestLogged'
  <2>1. RequestNow(records', txtype, request')
    <3>1. RequestNow(records, txtype, request)
      BY <1>2 DEF WorkerInv, RequestLogged
    <3> QED BY <1>2, <1>5, <1>6, <3>1, SameRequest
  <2>2. /\ NextIn(records', "ReqMethod", 0) = Entry("ReqMethod", truth.received[1])
        /\ NextIn(records', "ReqURL", 0) = Entry("ReqURL", truth.received[2])
        /\ NextIn(records', "Host", 0) = Entry("Host", truth.received[3])
    <3>1. /\ NextIn(records, "ReqMethod", 0) = Entry("ReqMethod", truth.received[1])
          /\ NextIn(records, "ReqURL", 0) = Entry("ReqURL", truth.received[2])
          /\ NextIn(records, "Host", 0) = Entry("Host", truth.received[3])
      BY <1>2 DEF WorkerInv, RequestLogged
    <3>2. \A v : /\ Entry("ReqMethod", v) # NoRecord /\ Entry("ReqURL", v) # NoRecord
                 /\ Entry("Host", v) # NoRecord
      BY DEF Entry, NoRecord
    <3> QED BY <1>5, <3>1, <3>2 DEF Longer
  <2> QED BY <1>2, <1>3, <2>1, <2>2 DEF RequestLogged
<1>9. AnswerLogged' /\ Once' /\ AnswerHeld'
  BY <1>2 DEF AnswerLogged, Answered, Unanswered, Once, AnswerHeld
<1>10. LogKept'
  BY <1>3, <1>4, <1>5 DEF LogKept
<1>11. Got'
  <2>1. PICK j : j = Len(records)
    OBVIOUS
  <2>2. j \in DOMAIN records' /\ GotIn(records', j, truth'.got)
    BY <1>3, <1>5, <2>1
  <2>3. GotAt(j)'
    BY <2>2 DEF GotAt, GotIn
  <2> QED BY <1>2, <2>2, <2>3 DEF Got
<1> QED BY <1>7, <1>8, <1>9, <1>10, <1>11 DEF WorkerInv

-----------------------------------------------------------------------------
(* All the steps of the worker *)

\* Nothing is logged and nothing found before the worker starts.
LEMMA InitWorker ==
  ASSUME Init
  PROVE  WorkerInv
<1> DEFINE e == << >>
<1>1. /\ records = e /\ txtype \in {"req", "bereq"} /\ at = "start" /\ request \in Triples
      /\ answer = NoAnswer /\ NoAnswer \in Pairs
      /\ truth = [received |-> request, sent |-> request, hit |-> "none", synth |-> NoAnswer,
                  had |-> {}, got |-> NoAnswer, object |-> NoAnswer]
  BY PairsOK DEF Init
<1>2. e \in Seq(Entries) /\ "none" \in Values /\ {} \in SUBSET Pairs
  BY EmptySeq DEF Values, Words
<1>3. /\ \A w : EndIn(e, w) = NoRecord
      /\ NoHit(e) /\ Settled(e) /\ \A x : Lacks(e, x)
      /\ AllKept(e, txtype, truth.hit, truth.synth, Had, truth.object)
  BY DEF EndIn, LastIn, NoHit, Settled, Lacks, AllKept
<1> HIDE DEF e
<1>4. TypesOK
  BY <1>1, <1>2 DEF TypesOK
<1>5. RequestLogged
  <2>1. records = << >>
    BY DEF Init
  <2> QED BY <1>1, <2>1 DEF RequestLogged
<1>6. AnswerLogged
  BY <1>1, <1>3 DEF AnswerLogged, NoAnswerNow, Answered
<1>7. Once /\ AnswerHeld /\ LogKept /\ Got
  BY <1>1, <1>3 DEF Once, AnswerHeld, LogKept, Got
<1> QED BY <1>4, <1>5, <1>6, <1>7 DEF WorkerInv

\* Every step of the worker keeps what its log says.
LEMMA WorkerKeeps ==
  ASSUME WorkerInv, WorkerNext, txtype' = txtype
  PROVE  WorkerInv'
<1>1. ASSUME Pipe \/ Lookup \/ Miss \/ HitForPass \/ Pass \/ Wait \/ Restart \/ ConnectFails
      PROVE  WorkerInv'
  BY <1>1, QuietStepsKeep
<1>2. ASSUME BackendResponse \/ VCLBackendError
      PROVE  WorkerInv'
  BY <1>2, BackendCallsKeep
<1> QED BY <1>1, <1>2, StartKeeps, RecvKeeps, HitKeeps, RespondKeeps, DeliverKeeps, SynthKeeps,
           VCLSynthKeeps, TransmitKeeps, BackendFetchKeeps, ConnectKeeps, BackendErrorKeeps
        DEF WorkerNext

-----------------------------------------------------------------------------
(* The steps that are drawn *)

Fine(added) == added \in Seq(Steps) /\ \A n \in DOMAIN added : TrueStep(added[n])

NoDeliver(added) == \A n \in DOMAIN added : added[n].kind # "DELIVER"

EndsIn(added, got) ==
  \E n \in DOMAIN added : /\ added[n].kind = "DELIVER" /\ added[n].shows = got
                          /\ \A m \in DOMAIN added : added[m].kind = "DELIVER" => m <= n

\* Step is a sequence of one step.
LEMMA OneStep ==
  ASSUME NEW kind \in Kinds, NEW shows \in Values \cup Pairs \cup {"open", "forward"}
  PROVE  /\ Step(kind, shows) \in Seq(Steps) /\ DOMAIN Step(kind, shows) = {1}
         /\ Step(kind, shows)[1] = [kind |-> kind, shows |-> shows]
<1> DEFINE s == [kind |-> kind, shows |-> shows]
<1>1. s \in Steps
  BY DEF Steps
<1> HIDE DEF s
<1>2. Step(kind, shows) = << s >>
  BY DEF Step, s
<1>3. << s >> \in Seq(Steps) /\ DOMAIN << s >> = {1} /\ << s >>[1] = s
  BY <1>1
<1> QED BY <1>2, <1>3 DEF s

\* No steps are fine.
LEMMA FineNone == Fine(<< >>) /\ NoDeliver(<< >>)
<1> DEFINE e == << >>
<1>1. e \in Seq(Steps) /\ DOMAIN e = {}
  OBVIOUS
<1> HIDE DEF e
<1>2. Fine(e) /\ NoDeliver(e)
  BY <1>1 DEF Fine, NoDeliver
<1> QED BY <1>2 DEF e

\* A step that shows something true is fine.
LEMMA FineStep ==
  ASSUME NEW kind \in Kinds, NEW shows \in Values \cup Pairs \cup {"open", "forward"},
         TrueStep([kind |-> kind, shows |-> shows])
  PROVE  /\ Fine(Step(kind, shows))
         /\ kind # "DELIVER" => NoDeliver(Step(kind, shows))
<1> DEFINE t == Step(kind, shows)
           s == [kind |-> kind, shows |-> shows]
<1>1. t \in Seq(Steps) /\ DOMAIN t = {1} /\ t[1] = s
  BY OneStep
<1>2. s.kind = kind /\ TrueStep(s)
  OBVIOUS
<1> HIDE DEF t, s
<1>3. Fine(t) /\ (kind # "DELIVER" => NoDeliver(t))
  BY <1>1, <1>2 DEF Fine, NoDeliver
<1> QED BY <1>3 DEF t

\* The steps of two sequences, one behind the other.
LEMMA ConcatSteps ==
  ASSUME NEW a \in Seq(Steps), NEW b \in Seq(Steps)
  PROVE  /\ a \o b \in Seq(Steps) /\ Len(a) \in Nat
         /\ \A n \in DOMAIN a : n \in DOMAIN (a \o b) /\ (a \o b)[n] = a[n] /\ n \in Nat /\ n <= Len(a)
         /\ \A n \in DOMAIN b : Len(a) + n \in DOMAIN (a \o b) /\ (a \o b)[Len(a) + n] = b[n]
                                /\ n \in Nat /\ n >= 1
         /\ \A n \in DOMAIN (a \o b) :
              \/ n \in DOMAIN a /\ (a \o b)[n] = a[n]
              \/ \E m \in DOMAIN b : n = Len(a) + m /\ (a \o b)[n] = b[m]
<1> DEFINE t == a \o b
<1>1. /\ t \in Seq(Steps) /\ Len(t) = Len(a) + Len(b) /\ Len(a) \in Nat /\ Len(b) \in Nat
      /\ DOMAIN a = 1..Len(a) /\ DOMAIN b = 1..Len(b)
      /\ \A n \in 1..(Len(a) + Len(b)) : t[n] = IF n <= Len(a) THEN a[n] ELSE b[n - Len(a)]
  BY ConcatProperties, LenProperties
<1>2. DOMAIN t = 1..(Len(a) + Len(b))
  BY <1>1, LenProperties
<1> HIDE DEF t
<1>3. \A n \in DOMAIN a : n \in DOMAIN t /\ t[n] = a[n] /\ n \in Nat /\ n <= Len(a)
  BY <1>1, <1>2
<1>4. ASSUME NEW n \in DOMAIN b
      PROVE  Len(a) + n \in DOMAIN t /\ t[Len(a) + n] = b[n] /\ n \in Nat /\ n >= 1
  <2>1. /\ n \in Nat /\ n >= 1 /\ Len(a) + n \in 1..(Len(a) + Len(b))
        /\ ~(Len(a) + n <= Len(a)) /\ (Len(a) + n) - Len(a) = n
    BY <1>1
  <2> QED BY <1>1, <1>2, <2>1
<1>5. ASSUME NEW n \in DOMAIN t
      PROVE  \/ n \in DOMAIN a /\ t[n] = a[n]
             \/ \E m \in DOMAIN b : n = Len(a) + m /\ t[n] = b[m]
  <2>1. CASE n <= Len(a)
    BY <1>1, <1>2, <2>1
  <2>2. CASE ~(n <= Len(a))
    <3>1. n - Len(a) \in DOMAIN b /\ n = Len(a) + (n - Len(a)) /\ t[n] = b[n - Len(a)]
      BY <1>1, <1>2, <2>2
    <3> QED BY <3>1
  <2> QED BY <2>1, <2>2
<1>6. t \in Seq(Steps) /\ Len(a) \in Nat
  BY <1>1
<1> QED BY <1>3, <1>4, <1>5, <1>6 DEF t

\* Fine steps and more of them.
LEMMA FineMore ==
  ASSUME NEW a, NEW b, Fine(a), Fine(b)
  PROVE  /\ Fine(a \o b)
         /\ NoDeliver(a) /\ NoDeliver(b) => NoDeliver(a \o b)
         /\ \A got : EndsIn(b, got) => EndsIn(a \o b, got)
         /\ \A got : EndsIn(a, got) /\ NoDeliver(b) => EndsIn(a \o b, got)
<1> DEFINE t == a \o b
<1>1. a \in Seq(Steps) /\ b \in Seq(Steps)
  BY DEF Fine
<1>2. /\ t \in Seq(Steps) /\ Len(a) \in Nat
      /\ \A n \in DOMAIN a : n \in DOMAIN t /\ t[n] = a[n] /\ n \in Nat /\ n <= Len(a)
      /\ \A n \in DOMAIN b : Len(a) + n \in DOMAIN t /\ t[Len(a) + n] = b[n] /\ n \in Nat /\ n >= 1
      /\ \A n \in DOMAIN t : \/ n \in DOMAIN a /\ t[n] = a[n]
                             \/ \E m \in DOMAIN b : n = Len(a) + m /\ t[n] = b[m]
  BY <1>1, ConcatSteps
<1> HIDE DEF t
<1>3. Fine(t)
  BY <1>2 DEF Fine
<1>4. NoDeliver(a) /\ NoDeliver(b) => NoDeliver(t)
  BY <1>2 DEF NoDeliver
<1>5. ASSUME NEW got, EndsIn(b, got)
      PROVE  EndsIn(t, got)
  <2>1. PICK n \in DOMAIN b : /\ b[n].kind = "DELIVER" /\ b[n].shows = got
                              /\ \A m \in DOMAIN b : b[m].kind = "DELIVER" => m <= n
    BY <1>5 DEF EndsIn
  <2>2. /\ Len(a) + n \in DOMAIN t /\ t[Len(a) + n].kind = "DELIVER" /\ t[Len(a) + n].shows = got
        /\ n \in Nat /\ n >= 1
    BY <1>2, <2>1
  <2>3. ASSUME NEW m \in DOMAIN t, t[m].kind = "DELIVER"
        PROVE  m <= Len(a) + n
    <3>1. CASE m \in DOMAIN a
      BY <1>2, <2>2, <3>1
    <3>2. ASSUME NEW k \in DOMAIN b, m = Len(a) + k, t[m] = b[k]
          PROVE  m <= Len(a) + n
      <4>1. k <= n /\ k \in Nat
        BY <1>2, <2>1, <2>3, <3>2
      <4> QED BY <1>2, <2>2, <3>2, <4>1
    <3> QED BY <1>2, <3>1, <3>2
  <2> QED BY <2>2, <2>3 DEF EndsIn
<1>6. ASSUME NEW got, EndsIn(a, got), NoDeliver(b)
      PROVE  EndsIn(t, got)
  <2>1. PICK n \in DOMAIN a : /\ a[n].kind = "DELIVER" /\ a[n].shows = got
                              /\ \A m \in DOMAIN a : a[m].kind = "DELIVER" => m <= n
    BY <1>6 DEF EndsIn
  <2>2. n \in DOMAIN t /\ t[n].kind = "DELIVER" /\ t[n].shows = got
    BY <1>2, <2>1
  <2>3. ASSUME NEW m \in DOMAIN t, t[m].kind = "DELIVER"
        PROVE  m <= n
    <3>1. ~ \E k \in DOMAIN b : m = Len(a) + k /\ t[m] = b[k]
      BY <1>6, <2>3 DEF NoDeliver
    <3> QED BY <1>2, <2>1, <2>3, <3>1
  <2> QED BY <2>2, <2>3 DEF EndsIn
<1> QED BY <1>3, <1>4, <1>5, <1>6 DEF t

\* A step of a kind that says nothing of what happened.
PlainKinds == Kinds \ {"RECV", "BACKEND_FETCH", "HIT", "SYNTH", "BACKEND_RESPONSE", "DELIVER"}

\* A step of a kind that makes no claim is fine.
LEMMA PlainStep ==
  ASSUME NEW kind \in PlainKinds, NEW shows \in Values \cup {"open", "forward"}
  PROVE  Fine(Step(kind, shows)) /\ NoDeliver(Step(kind, shows))
<1>1. TrueStep([kind |-> kind, shows |-> shows])
  BY DEF TrueStep, PlainKinds
<1>2. kind \in Kinds /\ kind # "DELIVER" /\ shows \in Values \cup Pairs \cup {"open", "forward"}
  BY DEF PlainKinds
<1> QED BY <1>1, <1>2, FineStep

\* So is one that an option shows or hides.
LEMMA FineOption ==
  ASSUME NEW option, NEW kind \in PlainKinds, NEW value \in Values
  PROVE  Fine(Option(option, kind, value)) /\ NoDeliver(Option(option, kind, value))
BY PlainStep, FineNone DEF Option

\* The searches of SequenceView, with the log they search as a parameter.
LEMMA SearchesAre ==
  /\ \A tag, i : LastRecordByTag(tag, i) = LastIn(records, tag, i)
  /\ \A tag, i : NextRecordByTag(tag, i) = NextIn(records, tag, i)
  /\ \A j : GotAt(j) = GotIn(records, j, truth.got)
BY DEF LastRecordByTag, NextRecordByTag, LastIn, NextIn, Indexes, GotAt, GotIn

\* What a search finds has a value, the empty one of no record too.
LEMMA FoundIsFine ==
  ASSUME NEW s \in Seq(Entries), NEW tag, NEW i \in Nat
  PROVE  LastIn(s, tag, i).value \in Values /\ NextIn(s, tag, i).value \in Values
<1>1. "none" \in Values /\ NoRecord.value = "none"
  BY DEF Values, Words, NoRecord
<1>2. ASSUME NEW k \in DOMAIN s
      PROVE  s[k].value \in Values
  <2>1. k \in 1..Len(s)
    BY LenProperties
  <2>2. s[k] \in Entries
    BY <2>1, ElementOfSeq
  <2> QED BY <2>2 DEF Entries
<1>3. LastIn(s, tag, i).value \in Values
  BY <1>1, <1>2, LastCases
<1>4. NextIn(s, tag, i).value \in Values
  BY <1>1, <1>2, NextCases
<1> QED BY <1>3, <1>4

-----------------------------------------------------------------------------
(* What is drawn was so *)

\* The record the loop is at, when the log is complete.
LEMMA RecordFacts ==
  ASSUME WorkerInv, at = "end", index \in DOMAIN records
  PROVE  /\ records \in Seq(Entries) /\ index \in Nat /\ Record \in Entries
         /\ Record = Entry(Record.tag, Record.value) /\ Record.tag \in Tags /\ Record.value \in Values
         /\ Kept(records, index, txtype, truth.hit, truth.synth, truth.had, truth.object)
         /\ Fine(Option("calls", "call", Record.value)) /\ NoDeliver(Option("calls", "call", Record.value))
         /\ Fine(Option("returns", "return", Record.value))
         /\ NoDeliver(Option("returns", "return", Record.value))
<1>1. records \in Seq(Entries) /\ Had = truth.had
  BY DEF WorkerInv, TypesOK, Had
<1>2. index \in Nat /\ Record \in Entries
  BY <1>1, ElementOfSeq, LenProperties DEF Record
<1>3. Record = Entry(Record.tag, Record.value) /\ Record.tag \in Tags /\ Record.value \in Values
  BY <1>2 DEF Entries, Entry
<1>4. Kept(records, index, txtype, truth.hit, truth.synth, truth.had, truth.object)
  BY <1>1 DEF WorkerInv, LogKept, AllKept
<1>5. {"call", "return"} \subseteq PlainKinds
  BY DEF PlainKinds, Kinds
<1> QED BY <1>1, <1>2, <1>3, <1>4, <1>5, FineOption

\* The types of what really happened.
LEMMA TruthTypes ==
  ASSUME WorkerInv
  PROVE  /\ truth.received \in Triples /\ truth.sent \in Triples /\ truth.hit \in Values
         /\ truth.synth \in Pairs /\ truth.had \subseteq Pairs /\ truth.object \in Pairs
BY DEF WorkerInv, TypesOK

\* A request is shown by two values.
LEMMA ShownPair ==
  ASSUME NEW r \in Triples
  PROVE  ShownAs(r) \in Pairs
<1>1. "" \in Values /\ r[1] \in Values /\ r[2] \in Values
  BY TripleParts DEF Values, Words
<1> QED BY <1>1 DEF ShownAs, EmptyRequest, Pairs

\* The records of a step go on to the next one.
LEMMA DrawMore ==
  ASSUME DrawInv, NEW added, Fine(added), Draw(added),
         index \in DOMAIN records, records \in Seq(Entries), at = "end",
         records' = records, truth' = truth, at' = at, txtype' = txtype,
         \/ NoDeliver(added) /\ ~(truth.got # NoAnswer /\ GotAt(index))
         \/ /\ Record = ReturnDeliver
            /\ truth.got # NoAnswer /\ GotAt(index) => EndsIn(added, truth.got)
  PROVE  DrawInv'
<1>1. index' = index + 1 /\ steps' = steps \o added /\ index \in Nat /\ steps \in Seq(Steps)
      /\ DOMAIN records = 1..Len(records) /\ Len(records) \in Nat
  BY LenProperties DEF Draw, DrawInv
<1>2. Fine(steps)
  BY <1>1 DEF DrawInv, Fine
<1>3. Fine(steps')
  BY <1>1, <1>2, FineMore
<1>4. (\A n \in DOMAIN steps : TrueStep(steps[n]))'
  BY <1>3 DEF Fine, TrueStep, ShownAs, EmptyRequest
<1>5. \A got : EndsIn(steps', got) /\ truth.got = got => EndsWithGot'
  BY DEF EndsIn, EndsWithGot, Shown
<1>6. EndsWithGot => EndsIn(steps, truth.got)
  BY DEF EndsIn, EndsWithGot, Shown
<1>7. \A j : GotAt(j)' = GotAt(j)
  BY DEF GotAt
<1>8. ASSUME NEW j \in DOMAIN records, truth.got # NoAnswer, GotAt(j), index + 1 > j
      PROVE  EndsWithGot'
  <2>1. j <= index /\ j \in Nat
    BY <1>1, <1>8
  <2>2. CASE j = index
    <3>1. EndsIn(added, truth.got)
      BY <1>8, <2>2
    <3> QED BY <1>1, <1>2, <1>5, <3>1, FineMore
  <2>3. CASE j # index
    <3>1. index > j
      BY <1>1, <2>1, <2>3
    <3>2. EndsWithGot
      BY <1>8, <3>1 DEF DrawInv
    <3>3. Record # ReturnDeliver
      BY <1>8, <3>1 DEF GotAt, Record
    <3>4. EndsIn(steps, truth.got) /\ NoDeliver(added)
      BY <1>6, <3>2, <3>3
    <3> QED BY <1>1, <1>2, <1>5, <3>4, FineMore
  <2> QED BY <2>2, <2>3
<1>9. index + 1 \in Nat /\ index + 1 <= Len(records) + 1 /\ index + 1 # 0
  BY <1>1
<1>10. steps' \in Seq(Steps)
  BY <1>3 DEF Fine
<1>11. \A j \in DOMAIN records' : (truth.got # NoAnswer /\ GotAt(j) /\ index > j)' => EndsWithGot'
  BY <1>1, <1>7, <1>8
<1>12. /\ txtype' = "req" => reqReceived' = ShownAs(truth'.received)
       /\ txtype' = "bereq" => reqProcessed' = ShownAs(truth'.sent)
  <2>1. index # 0 /\ reqReceived' = reqReceived /\ reqProcessed' = reqProcessed
    BY <1>1 DEF Draw
  <2> QED BY <2>1 DEF DrawInv
<1> QED BY <1>1, <1>4, <1>9, <1>10, <1>11, <1>12 DEF DrawInv

\* A step of the drawing, from a state of the invariant.
Drawing ==
  /\ WorkerInv /\ DrawInv /\ at = "end"
  /\ UNCHANGED <<records, txtype, at, request, answer, truth>>

\* A record drawn by fine steps, none of them an answer to the client.
LEMMA DrawPlain ==
  ASSUME Drawing, NEW added, Fine(added), NoDeliver(added), Draw(added),
         index \in DOMAIN records, Record # ReturnDeliver
  PROVE  DrawInv'
<1>1. ~GotAt(index)
  BY DEF GotAt, Record
<1>2. records \in Seq(Entries)
  BY DEF Drawing, WorkerInv, TypesOK
<1> QED BY <1>1, <1>2, DrawMore DEF Drawing

\* The records that are drawn without a search.
LEMMA PlainDrawsKeep ==
  ASSUME Drawing,
         \/ DrawLookup \/ DrawPipe \/ DrawOtherCall \/ DrawOtherReturn \/ DrawBackend
         \/ DrawTracked \/ DrawVCLLog \/ DrawLink \/ SkipRecord
  PROVE  DrawInv'
<1> DEFINE call == Option("calls", "call", Record.value)
           return == Option("returns", "return", Record.value)
<1>1. index \in DOMAIN records
  BY DEF DrawLookup, DrawPipe, DrawOtherCall, DrawOtherReturn, DrawBackend, DrawTracked,
         DrawVCLLog, DrawLink, SkipRecord, Call, Return, At
<1>2. /\ Record = Entry(Record.tag, Record.value) /\ Record.tag \in Tags /\ Record.value \in Values
      /\ Fine(call) /\ NoDeliver(call) /\ Fine(return) /\ NoDeliver(return)
  BY <1>1, RecordFacts DEF Drawing
<1> HIDE DEF call, return
<1>3. /\ Record.tag # "VCL_return" => Record # ReturnDeliver
      /\ Record.value # "deliver" => Record # ReturnDeliver
  BY DEF ReturnDeliver, Entry
<1>4. Tags \cup {"lookup", "pipe", "log", "URL", "missing"} \subseteq PlainKinds
  BY DEF Tags, PlainKinds, Kinds
<1>5. ASSUME DrawLookup PROVE DrawInv'
  <2>1. Draw(call \o Step("lookup", Record.value)) /\ Record.tag = "VCL_call"
    BY <1>5 DEF DrawLookup, Call, At, call
  <2>2. Fine(Step("lookup", Record.value)) /\ NoDeliver(Step("lookup", Record.value))
    BY <1>2, <1>4, PlainStep
  <2>3. Fine(call \o Step("lookup", Record.value)) /\ NoDeliver(call \o Step("lookup", Record.value))
    BY <1>2, <2>2, FineMore
  <2> QED BY <1>1, <1>3, <2>1, <2>3, DrawPlain
<1>6. ASSUME DrawPipe PROVE DrawInv'
  <2> DEFINE open == Step("pipe", "open")
             forward == Step("pipe", "forward")
  <2>1. Draw(call \o (open \o forward)) /\ Record.tag = "VCL_call"
    BY <1>6 DEF DrawPipe, Call, At, call
  <2>2. Fine(open) /\ NoDeliver(open) /\ Fine(forward) /\ NoDeliver(forward)
    BY <1>4, PlainStep
  <2> HIDE DEF open, forward
  <2>3. Fine(open \o forward) /\ NoDeliver(open \o forward)
    BY <2>2, FineMore
  <2>4. Fine(call \o (open \o forward)) /\ NoDeliver(call \o (open \o forward))
    BY <1>2, <2>3, FineMore
  <2> QED BY <1>1, <1>3, <2>1, <2>4, DrawPlain
<1>7. ASSUME DrawOtherCall PROVE DrawInv'
  <2>1. Draw(call \o << >>) /\ Record.tag = "VCL_call"
    BY <1>7 DEF DrawOtherCall, Call, At, call
  <2>2. Fine(call \o << >>) /\ NoDeliver(call \o << >>)
    BY <1>2, FineNone, FineMore
  <2> QED BY <1>1, <1>3, <2>1, <2>2, DrawPlain
<1>8. ASSUME DrawOtherReturn PROVE DrawInv'
  <2>1. Draw(return \o << >>) /\ Record.value # "deliver"
    BY <1>8 DEF DrawOtherReturn, Return, At, return
  <2>2. Fine(return \o << >>) /\ NoDeliver(return \o << >>)
    BY <1>2, FineNone, FineMore
  <2> QED BY <1>1, <1>3, <2>1, <2>2, DrawPlain
<1>9. ASSUME DrawBackend PROVE DrawInv'
  <2>1. Draw(Step(Record.tag, Record.value)) /\ Record.tag # "VCL_return"
    BY <1>9 DEF DrawBackend
  <2>2. Fine(Step(Record.tag, Record.value)) /\ NoDeliver(Step(Record.tag, Record.value))
    BY <1>2, <1>4, PlainStep
  <2> QED BY <1>1, <1>3, <2>1, <2>2, DrawPlain
<1>10. ASSUME DrawTracked PROVE DrawInv'
  <2>1. Draw(Option("track", "URL", Record.value)) /\ Record.tag # "VCL_return"
    BY <1>10 DEF DrawTracked
  <2>2. Fine(Option("track", "URL", Record.value)) /\ NoDeliver(Option("track", "URL", Record.value))
    BY <1>2, <1>4, FineOption
  <2> QED BY <1>1, <1>3, <2>1, <2>2, DrawPlain
<1>11. ASSUME DrawVCLLog PROVE DrawInv'
  <2>1. Draw(Option("logs", "log", Record.value)) /\ Record.tag # "VCL_return"
    BY <1>11 DEF DrawVCLLog, At
  <2>2. Fine(Option("logs", "log", Record.value)) /\ NoDeliver(Option("logs", "log", Record.value))
    BY <1>2, <1>4, FineOption
  <2> QED BY <1>1, <1>3, <2>1, <2>2, DrawPlain
<1>12. ASSUME DrawLink PROVE DrawInv'
  <2> DEFINE added == IF Record.value = "missing" THEN Step("missing", Record.value) ELSE << >>
  <2>1. Draw(added) /\ Record.tag # "VCL_return"
    BY <1>12 DEF DrawLink, At
  <2>2. Fine(added) /\ NoDeliver(added)
    BY <1>2, <1>4, PlainStep, FineNone
  <2> HIDE DEF added
  <2> QED BY <1>1, <1>3, <2>1, <2>2, DrawPlain
<1>13. ASSUME SkipRecord PROVE DrawInv'
  <2>1. Draw(<< >>) /\ Record.tag # "VCL_return"
    BY <1>13 DEF SkipRecord
  <2> QED BY <1>1, <1>3, <2>1, FineNone, DrawPlain
<1> QED BY <1>5, <1>6, <1>7, <1>8, <1>9, <1>10, <1>11, <1>12, <1>13

\* A VCL call that adds one step about what happened.
LEMMA DrawCallKeeps ==
  ASSUME Drawing, NEW kind \in Kinds \ {"DELIVER"}, NEW shows \in Values \cup Pairs,
         TrueStep([kind |-> kind, shows |-> shows]), Call(Step(kind, shows))
  PROVE  DrawInv'
<1> DEFINE call == Option("calls", "call", Record.value)
           step == Step(kind, shows)
<1>1. index \in DOMAIN records /\ Record.tag = "VCL_call" /\ Draw(call \o step)
  BY DEF Call, At
<1>2. Fine(call) /\ NoDeliver(call)
  BY <1>1, RecordFacts DEF Drawing
<1>3. Fine(step) /\ NoDeliver(step)
  BY FineStep
<1>4. Record # ReturnDeliver
  BY <1>1 DEF ReturnDeliver, Entry
<1> HIDE DEF call, step
<1>5. Fine(call \o step) /\ NoDeliver(call \o step)
  BY <1>2, <1>3, FineMore
<1> QED BY <1>1, <1>4, <1>5, DrawPlain

\* RECV shows the request that was received.
LEMMA DrawRecvKeeps ==
  ASSUME Drawing, DrawRecv
  PROVE  DrawInv'
<1>1. index \in DOMAIN records /\ Record.tag = "VCL_call" /\ Record.value = "RECV"
  BY DEF DrawRecv, Call, At
<1>2. txtype = "req"
  <2>1. records[index] = Entry("VCL_call", "RECV")
    BY <1>1, RecordFacts DEF Drawing, Record
  <2> QED BY <1>1, <2>1, RecordFacts DEF Drawing, Kept
<1>3. reqReceived = ShownAs(truth.received)
  <2>1. index # 0
    BY <1>1, RecordFacts, LenProperties DEF Drawing
  <2> QED BY <1>2, <2>1 DEF Drawing, DrawInv
<1> DEFINE kind == "RECV"
           shows == reqReceived
<1>4. /\ kind \in Kinds \ {"DELIVER"} /\ shows \in Values \cup Pairs
      /\ TrueStep([kind |-> kind, shows |-> shows]) /\ Call(Step(kind, shows))
  BY <1>3, TruthTypes, ShownPair DEF Kinds, TrueStep, DrawRecv, Drawing
<1> HIDE DEF kind, shows
<1> QED BY <1>4, DrawCallKeeps

\* BACKEND_FETCH shows the request that is sent.
LEMMA DrawBackendFetchKeeps ==
  ASSUME Drawing, DrawBackendFetch
  PROVE  DrawInv'
<1>1. index \in DOMAIN records /\ Record.tag = "VCL_call" /\ Record.value = "BACKEND_FETCH"
  BY DEF DrawBackendFetch, Call, At
<1>2. txtype = "bereq"
  <2>1. records[index] = Entry("VCL_call", "BACKEND_FETCH")
    BY <1>1, RecordFacts DEF Drawing, Record
  <2> QED BY <1>1, <2>1, RecordFacts DEF Drawing, Kept
<1>3. reqProcessed = ShownAs(truth.sent)
  <2>1. index # 0
    BY <1>1, RecordFacts, LenProperties DEF Drawing
  <2> QED BY <1>2, <2>1 DEF Drawing, DrawInv
<1> DEFINE kind == "BACKEND_FETCH"
           shows == reqProcessed
<1>4. /\ kind \in Kinds \ {"DELIVER"} /\ shows \in Values \cup Pairs
      /\ TrueStep([kind |-> kind, shows |-> shows]) /\ Call(Step(kind, shows))
  BY <1>3, TruthTypes, ShownPair DEF Kinds, TrueStep, DrawBackendFetch, Drawing
<1> HIDE DEF kind, shows
<1> QED BY <1>4, DrawCallKeeps

\* The hit is the first of the three tags that getLastHitRecord looks for.
LEMMA HitIsFirst ==
  ASSUME NEW i, LastRecordByTag("Hit", i) # NoRecord
  PROVE  getLastHitRecord(i) = LastRecordByTag("Hit", i)
<1> DEFINE tags == <<"Hit", "HitMiss", "HitPass">>
           found == {n \in DOMAIN tags : LastRecordByTag(tags[n], i) # NoRecord}
           first == CHOOSE n \in found : \A m \in found : n <= m
<1>1. DOMAIN tags = 1..3 /\ tags[1] = "Hit"
  OBVIOUS
<1> HIDE DEF tags
<1>2. 1 \in found /\ \A m \in found : 1 <= m
  BY <1>1
<1>3. first \in found /\ \A m \in found : first <= m
  <2> HIDE DEF found
  <2> QED BY <1>2
<1>4. first = 1
  <2>1. first \in 1..3 /\ first <= 1
    BY <1>1, <1>2, <1>3
  <2> HIDE DEF first
  <2> QED BY <2>1
<1>5. found # {}
  BY <1>2
<1>6. getLastHitRecord(i) = LastRecordByTag(tags[first], i)
  BY <1>5 DEF getLastHitRecord, tags
<1> QED BY <1>1, <1>4, <1>6

\* HIT shows the object that was hit.
LEMMA DrawHitKeeps ==
  ASSUME Drawing, DrawHit
  PROVE  DrawInv'
<1>1. index \in DOMAIN records /\ Record.tag = "VCL_call" /\ Record.value = "HIT"
  BY DEF DrawHit, Call, At
<1>2. records \in Seq(Entries) /\ index \in Nat
  BY <1>1, RecordFacts DEF Drawing
<1>3. LastIn(records, "Hit", index) # NoRecord
  <2>1. records[index] = Entry("VCL_call", "HIT")
    BY <1>1, RecordFacts DEF Drawing, Record
  <2> QED BY <1>1, <2>1, RecordFacts DEF Drawing, Kept
<1>4. LastIn(records, "Hit", index).value = truth.hit
  <2>1. PICK k \in DOMAIN records : records[k].tag = "Hit" /\ LastIn(records, "Hit", index) = records[k]
    BY <1>2, <1>3, LastCases
  <2>2. Kept(records, k, txtype, truth.hit, truth.synth, Had, truth.object)
    BY InvFacts DEF Drawing, AllKept
  <2> QED BY <2>1, <2>2 DEF Kept
<1>5. getLastHitRecord(index).value = truth.hit
  BY <1>3, <1>4, SearchesAre, HitIsFirst
<1> DEFINE kind == "HIT"
           shows == getLastHitRecord(index).value
<1>6. /\ kind \in Kinds \ {"DELIVER"} /\ shows \in Values \cup Pairs
      /\ TrueStep([kind |-> kind, shows |-> shows]) /\ Call(Step(kind, shows))
  BY <1>5, TruthTypes DEF Kinds, TrueStep, DrawHit, Drawing
<1> HIDE DEF kind, shows
<1> QED BY <1>6, DrawCallKeeps

\* SYNTH shows the answer vcl_synth was entered with.
LEMMA DrawSynthKeeps ==
  ASSUME Drawing, DrawSynth
  PROVE  DrawInv'
<1>1. index \in DOMAIN records /\ Record.tag = "VCL_call" /\ Record.value = "SYNTH"
  BY DEF DrawSynth, Call, At
<1>2. LastPair(records, "RespStatus", "RespReason", index) = truth.synth
  <2>1. records[index] = Entry("VCL_call", "SYNTH")
    BY <1>1, RecordFacts DEF Drawing, Record
  <2> QED BY <1>1, <2>1, RecordFacts DEF Drawing, Kept
<1> DEFINE kind == "SYNTH"
           shows == Answer(LastRecordByTag("RespStatus", index), LastRecordByTag("RespReason", index))
<1>3. shows = truth.synth
  BY <1>2, SearchesAre DEF LastPair, Answer
<1>4. /\ kind \in Kinds \ {"DELIVER"} /\ shows \in Values \cup Pairs
      /\ TrueStep([kind |-> kind, shows |-> shows]) /\ Call(Step(kind, shows))
  BY <1>3, TruthTypes DEF Kinds, TrueStep, DrawSynth, Drawing
<1> HIDE DEF kind, shows
<1> QED BY <1>4, DrawCallKeeps

\* BACKEND_RESPONSE shows the answer its object is made of.
LEMMA DrawBackendResponseKeeps ==
  ASSUME Drawing, DrawBackendResponse
  PROVE  DrawInv'
<1> DEFINE return == Option("returns", "return", Record.value)
           kind == "BACKEND_RESPONSE"
           shows == Answer(LastRecordByTag("BerespStatus", index), LastRecordByTag("BerespReason", index))
           step == Step(kind, shows)
<1>1. /\ index \in DOMAIN records /\ Record.tag = "VCL_return" /\ Record.value = "deliver"
      /\ txtype = "bereq" /\ Draw(return \o step)
  BY DEF DrawBackendResponse, Return, At
<1>2. Record = ReturnDeliver /\ records \in Seq(Entries) /\ Fine(return) /\ NoDeliver(return)
  BY <1>1, RecordFacts DEF Drawing, ReturnDeliver
<1>3. shows = truth.object
  <2>1. LastPair(records, "BerespStatus", "BerespReason", index) = truth.object
    BY <1>1, <1>2, RecordFacts DEF Drawing, Kept, Record
  <2> QED BY <2>1, SearchesAre DEF LastPair, Answer
<1>4. /\ kind \in Kinds /\ kind # "DELIVER" /\ shows \in Values \cup Pairs
      /\ TrueStep([kind |-> kind, shows |-> shows])
  BY <1>3, TruthTypes DEF Kinds, TrueStep, Drawing
<1> HIDE DEF kind, shows, return
<1>5. Fine(step) /\ NoDeliver(step)
  BY <1>4, FineStep
<1> HIDE DEF step
<1>6. Fine(return \o step) /\ NoDeliver(return \o step)
  BY <1>2, <1>5, FineMore
<1>7. ~(truth.got # NoAnswer /\ GotAt(index))
  BY <1>1 DEF Drawing, WorkerInv, Got
<1> QED BY <1>1, <1>2, <1>6, <1>7, DrawMore DEF Drawing

\* The steps of deliver are true, and the last shows what the client got.
LEMMA DeliveredIsFine ==
  ASSUME Drawing, index \in DOMAIN records, Record = ReturnDeliver, txtype = "req"
  PROVE  /\ Fine(Delivered(index))
         /\ GotAt(index) => EndsIn(Delivered(index), truth.got)
<1> DEFINE kind == "DELIVER"
           status == LastIn(records, "RespStatus", index)
           later == NextIn(records, "RespStatus", index)
           so == LastPair(records, "RespStatus", "RespReason", index)
           then == NextPair(records, index)
           a == IF status = NoRecord THEN << >> ELSE Step(kind, so)
           b == IF later = NoRecord THEN << >> ELSE Step(kind, then)
<1>1. Delivered(index) = a \o b
  BY SearchesAre DEF Delivered, Answer, LastPair, NextPair
<1>2. /\ status = NoRecord \/ so \in truth.had
      /\ NoneAfter(records, index) \/ (SomeAfter(records, index) /\ then \in truth.had)
  BY RecordFacts DEF Drawing, Kept, Record
<1>3. /\ NoneAfter(records, index) => later = NoRecord
      /\ SomeAfter(records, index) => later # NoRecord
  BY DEF NoneAfter, SomeAfter
<1>4. /\ kind \in Kinds /\ kind = "DELIVER" /\ truth.had \subseteq Pairs
      /\ \A pair \in truth.had : TrueStep([kind |-> kind, shows |-> pair])
  BY TruthTypes DEF Kinds, TrueStep, Drawing
<1>5. GotAt(index) => \/ NoneAfter(records, index) /\ status # NoRecord /\ so = truth.got
                      \/ SomeAfter(records, index) /\ then = truth.got
  BY SearchesAre DEF GotIn
<1> HIDE DEF kind, status, later, so, then
<1>6. ASSUME NEW pair \in truth.had
      PROVE  Fine(Step(kind, pair)) /\ EndsIn(Step(kind, pair), pair)
  <2> DEFINE s == Step(kind, pair)
             r == [kind |-> kind, shows |-> pair]
  <2>1. pair \in Pairs /\ TrueStep(r)
    BY <1>4
  <2>2. Fine(s) /\ DOMAIN s = {1} /\ s[1] = r
    BY <1>4, <2>1, FineStep, OneStep
  <2>3. r.kind = "DELIVER" /\ r.shows = pair
    BY <1>4
  <2> HIDE DEF s, r
  <2>4. EndsIn(s, pair)
    BY <2>2, <2>3 DEF EndsIn
  <2> QED BY <2>2, <2>4 DEF s
<1>7. Fine(a)
  BY <1>2, <1>6, FineNone
<1>8. Fine(b)
  BY <1>2, <1>3, <1>6, FineNone
<1>9. ASSUME GotAt(index)
      PROVE  EndsIn(a \o b, truth.got)
  <2>1. CASE NoneAfter(records, index) /\ status # NoRecord /\ so = truth.got
    <3>1. a = Step(kind, so) /\ b = << >> /\ so \in truth.had
      BY <1>2, <1>3, <2>1
    <3>2. EndsIn(a, truth.got) /\ NoDeliver(b)
      BY <1>6, <2>1, <3>1, FineNone
    <3> HIDE DEF a, b
    <3> QED BY <1>7, <1>8, <3>2, FineMore
  <2>2. CASE SomeAfter(records, index) /\ then = truth.got
    <3>1. b = Step(kind, then) /\ then \in truth.had
      BY <1>2, <1>3, <2>2
    <3>2. EndsIn(b, truth.got)
      BY <1>6, <2>2, <3>1
    <3> HIDE DEF a, b
    <3> QED BY <1>7, <1>8, <3>2, FineMore
  <2> QED BY <1>5, <1>9, <2>1, <2>2
<1> HIDE DEF a, b
<1> QED BY <1>1, <1>7, <1>8, <1>9, FineMore

\* The return of deliver is drawn by the steps of Delivered.
LEMMA DrawDeliverKeeps ==
  ASSUME Drawing, DrawDeliver
  PROVE  DrawInv'
<1> DEFINE return == Option("returns", "return", Record.value)
           step == Delivered(index)
<1>1. /\ index \in DOMAIN records /\ Record.tag = "VCL_return" /\ Record.value = "deliver"
      /\ txtype = "req" /\ Draw(return \o step)
  BY DEF DrawDeliver, Return, At
<1>2. Record = ReturnDeliver /\ records \in Seq(Entries) /\ Fine(return)
  BY <1>1, RecordFacts DEF Drawing, ReturnDeliver
<1>3. Fine(step) /\ (GotAt(index) => EndsIn(step, truth.got))
  BY <1>1, <1>2, DeliveredIsFine
<1> HIDE DEF return, step
<1>4. Fine(return \o step) /\ (GotAt(index) => EndsIn(return \o step, truth.got))
  BY <1>2, <1>3, FineMore
<1> QED BY <1>1, <1>2, <1>4, DrawMore DEF Drawing

\* The request that is read from the first records of the complete log is the received one.
LEMMA ReceivedIsRead ==
  ASSUME WorkerInv, at = "end", txtype = "req"
  PROVE  RequestToDraw(TRUE) = ShownAs(truth.received)
<1>1. /\ NextIn(records, "ReqMethod", 0) = Entry("ReqMethod", truth.received[1])
      /\ NextIn(records, "ReqURL", 0) = Entry("ReqURL", truth.received[2])
      /\ NextIn(records, "Host", 0) = Entry("Host", truth.received[3])
  BY DEF WorkerInv, RequestLogged
<1>2. GetHost(TRUE) = truth.received[3]
  BY <1>1, SearchesAre DEF GetHost, Entry
<1>3. NewHTTPRequest(TRUE) = <<truth.received[1], truth.received[2]>>
  BY <1>1, SearchesAre DEF NewHTTPRequest, RecordValueByTag, Entry
<1> QED BY <1>2, <1>3 DEF RequestToDraw, NewHTTPRequestFails, ShownAs

\* The request that is read from the last records of the complete log is the one sent.
LEMMA SentIsRead ==
  ASSUME WorkerInv, at = "end", txtype = "bereq"
  PROVE  RequestToDraw(FALSE) = ShownAs(truth.sent)
<1>1. /\ EndIn(records, "BereqMethod").value = request[1]
      /\ EndIn(records, "BereqURL").value = request[2]
      /\ EndIn(records, "Host").value = request[3]
      /\ request = truth.sent
  BY DEF WorkerInv, RequestLogged, RequestNow, MethodTag, URLTag
<1>2. GetHost(FALSE) = truth.sent[3]
  BY <1>1, SearchesAre DEF GetHost, EndIn
<1>3. NewHTTPRequest(FALSE) = <<truth.sent[1], truth.sent[2]>>
  BY <1>1, SearchesAre DEF NewHTTPRequest, RecordValueByTag, EndIn
<1> QED BY <1>2, <1>3 DEF RequestToDraw, NewHTTPRequestFails, ShownAs

\* Drawing starts with the complete log.
LEMMA StartDrawingKeeps ==
  ASSUME Drawing, StartDrawing
  PROVE  DrawInv'
<1>1. index = 0 /\ index' = 1 /\ steps' = steps /\ records' = records /\ truth' = truth /\ at' = "end"
  BY DEF StartDrawing, Drawing
<1>2. records \in Seq(Entries) /\ DOMAIN records = 1..Len(records) /\ Len(records) \in Nat
  BY LenProperties DEF Drawing, WorkerInv, TypesOK
<1>3. \A j \in DOMAIN records : ~(1 > j)
  BY <1>2
<1>4. (\A n \in DOMAIN steps : TrueStep(steps[n]))'
  BY <1>1 DEF Drawing, DrawInv, TrueStep, ShownAs, EmptyRequest
<1>5. steps' \in Seq(Steps) /\ 1 \in Nat /\ 1 <= Len(records) + 1
  BY <1>1, <1>2 DEF Drawing, DrawInv
<1>6. /\ txtype' = "req" => reqReceived' = ShownAs(truth'.received)
      /\ txtype' = "bereq" => reqProcessed' = ShownAs(truth'.sent)
  BY ReceivedIsRead, SentIsRead DEF StartDrawing, Drawing
<1> QED BY <1>1, <1>3, <1>4, <1>5, <1>6 DEF DrawInv

\* Every record that is drawn keeps the steps true.
LEMMA DrawKeeps ==
  ASSUME Drawing, DrawNext
  PROVE  DrawInv'
BY StartDrawingKeeps, PlainDrawsKeep, DrawRecvKeeps, DrawBackendFetchKeeps, DrawHitKeeps,
   DrawSynthKeeps, DrawBackendResponseKeeps, DrawDeliverKeeps DEF DrawNext

-----------------------------------------------------------------------------
(* The theorems *)

\* The invariant holds at first ...
LEMMA InitIInv == Init => IInv
<1> SUFFICES ASSUME Init PROVE IInv
  OBVIOUS
<1>1. WorkerInv
  BY InitWorker
<1>2. DrawInv
  <2> DEFINE e == << >>
  <2>1. e \in Seq(Steps) /\ DOMAIN e = {}
    OBVIOUS
  <2>2. index = 0 /\ steps = e /\ records = << >> /\ truth.got = NoAnswer
    BY DEF Init
  <2>3. Len(records) = 0
    BY <2>2
  <2> HIDE DEF e
  <2>4. steps = << >>
    BY DEF Init
  <2> QED BY <2>1, <2>2, <2>3, <2>4 DEF DrawInv
<1> QED BY <1>1, <1>2 DEF IInv

\* Before the log is complete nothing is drawn.
LEMMA WorkerLeavesDrawing ==
  ASSUME WorkerInv, DrawInv, WorkerNext, UNCHANGED drawVars, WorkerInv'
  PROVE  DrawInv'
<1>1. at # "end"
  BY DEF WorkerNext, Start, Recv, Pipe, Lookup, Hit, Miss, HitForPass, Pass, Wait, Respond, Deliver,
         Synth, VCLSynth, Restart, Transmit, BackendFetch, Connect, ConnectFails, BackendResponse,
         BackendError, VCLBackendError, WorkerInv, TypesOK, Answered
<1>2. index' = 0 /\ steps' = << >>
  BY <1>1 DEF DrawInv, drawVars
<1>3. records' \in Seq(Entries) /\ DOMAIN (records') = 1..Len(records') /\ Len(records') \in Nat
  BY LenProperties DEF WorkerInv, TypesOK
<1>4. \A j \in DOMAIN (records') : ~(0 > j)
  BY <1>3
<1> DEFINE e == << >>
<1>5. e \in Seq(Steps) /\ DOMAIN e = {}
  OBVIOUS
<1>6. steps' = e
  BY <1>2
<1> HIDE DEF e
<1> QED BY <1>2, <1>3, <1>4, <1>5, <1>6 DEF DrawInv

\* ... and is kept by every step, of the worker and of the view.
LEMMA NextIInv == IInv /\ [Next]_vars => IInv'
<1> SUFFICES ASSUME IInv, [Next]_vars PROVE IInv'
  OBVIOUS
<1>1. ASSUME UNCHANGED <<records, txtype, at, request, answer, truth>>
      PROVE  WorkerInv'
  BY <1>1 DEF IInv, WorkerInv, TypesOK, RequestLogged, AnswerLogged, Once, AnswerHeld, LogKept, Got,
              GotAt, Had
<1>2. CASE UNCHANGED vars
  <2>1. DrawInv'
    BY <1>2 DEF vars, IInv, DrawInv, TrueStep, ShownAs, EmptyRequest, GotAt, EndsWithGot, Shown
  <2> QED BY <1>1, <1>2, <2>1 DEF vars, IInv
<1>3. ASSUME txtype' = txtype, WorkerNext, UNCHANGED drawVars
      PROVE  IInv'
  <2>1. WorkerInv'
    BY <1>3, WorkerKeeps DEF IInv
  <2> QED BY <1>3, <2>1, WorkerLeavesDrawing DEF IInv
<1>4. ASSUME txtype' = txtype, at = "end", DrawNext, UNCHANGED <<records, at, request, answer, truth>>
      PROVE  IInv'
  <2>1. Drawing
    BY <1>4 DEF Drawing, IInv
  <2>2. DrawInv'
    BY <1>4, <2>1, DrawKeeps
  <2>3. WorkerInv'
    BY <1>1, <1>4
  <2> QED BY <2>2, <2>3 DEF IInv
<1> QED BY <1>2, <1>3, <1>4 DEF Next

\* The log and the steps agree with what happened, in every state.
THEOREM LogAndStepsAgree == Spec => []IInv
<1>1. Init => IInv
  BY InitIInv
<1>2. IInv /\ [Next]_vars => IInv'
  BY NextIInv
<1> QED BY <1>1, <1>2, PTL DEF Spec

\* The steps into Varnish and to the backend show the request as it was there, whatever VCL
\* changed, or no request at all, which is so exactly when the Host header it had there is
\* one that ParseBackend rejects (addTransactionLogs, NewHTTPRequest).
THEOREM RequestsAreShownAlways == Spec => []RequestsAreShown
<1>1. IInv => RequestsAreShown
  BY DEF IInv, DrawInv, TrueStep, RequestsAreShown, Shown
<1> QED BY <1>1, LogAndStepsAgree, PTL

\* No step to the client shows an answer that never was: the searches backwards and
\* forwards from a return of deliver find a status and a reason of the same answer.
THEOREM AnswersWereRealAlways == Spec => []AnswersWereReal
<1>1. IInv => AnswersWereReal
  BY DEF IInv, DrawInv, TrueStep, AnswersWereReal, Shown
<1> QED BY <1>1, LogAndStepsAgree, PTL

\* A hit, a synthetic answer and a backend's answer are shown as they were, although the
\* record is looked for from a later one.
THEOREM StepsShowTheirMomentAlways == Spec => []StepsShowTheirMoment
<1>1. IInv => StepsShowTheirMoment
  BY DEF IInv, DrawInv, TrueStep, StepsShowTheirMoment, Shown
<1> QED BY <1>1, LogAndStepsAgree, PTL

\* The last answer of a drawn diagram is the one the client got, 206 or not.
THEOREM LastAnswerIsTheClientsAlways == Spec => []LastAnswerIsTheClients
<1>1. ASSUME IInv, Drawn, truth.got # NoAnswer
      PROVE  EndsWithGot
  <2>1. PICK j \in DOMAIN records : GotAt(j)
    BY <1>1 DEF IInv, WorkerInv, Got
  <2>2. records \in Seq(Entries) /\ DOMAIN records = 1..Len(records) /\ Len(records) \in Nat
    BY <1>1, LenProperties DEF IInv, WorkerInv, TypesOK
  <2>3. index > j
    BY <1>1, <2>2 DEF Drawn
  <2> QED BY <1>1, <2>1, <2>3 DEF IInv, DrawInv
<1>2. IInv => LastAnswerIsTheClients
  BY <1>1 DEF LastAnswerIsTheClients, EndsWithGot
<1> QED BY <1>2, LogAndStepsAgree, PTL
=============================================================================
