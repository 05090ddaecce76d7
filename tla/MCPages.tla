------------------------------- MODULE MCPages -------------------------------
EXTENDS Pages, HostPort

CONSTANTS MaxTime, FewVXIDs  \* times, and the transactions of timeline and summary

(* Groups: every assignment of parents to up to four transactions, loops and  *)
(* parents that are not in the set included; the Link records mirror them.    *)
Below(begins, v) == Sorted({w \in DOMAIN begins : begins[w].parent = v})

WithLinks(begins) ==
  [v \in DOMAIN begins |->
     [type   |-> begins[v].type,
      parent |-> begins[v].parent,
      links  |-> Below(begins, v)]]

GroupBegins == [parent : VXIDs \cup {0}, type : {"Session", "Request"}]

MirroredSets == {WithLinks(b) : b \in UNION {[D -> GroupBegins] : D \in SUBSET VXIDs}}

ForestBegins(D, begins) == {b \in [D -> begins] : Forest(WithLinks(b))}

(* Timeline: every forest of up to three transactions: sessions that may not  *)
(* be closed, requests with the timestamps of their start and their end, or   *)
(* none at all.                                                               *)
DrawBegins == [parent : FewVXIDs \cup {0}, type : {"Request"}]
              \cup [parent : {0}, type : {"Session"}]

Record(tag, start, end) == [tag |-> tag, start |-> start, end |-> end]

Spans == {s \in (1..MaxTime) \X (1..MaxTime) : s[1] <= s[2]} \cup {<<0, 0>>}

Linked(begins, v) ==
  [i \in DOMAIN Below(begins, v) |-> [tag |-> "Link", vxid |-> Below(begins, v)[i]]]

\* varnishd logs the first timestamp before any link.
Records(begins, v, span) ==
  IF begins[v].type = "Session"
  THEN <<Record("SessOpen", 1, 1)>> \o Linked(begins, v)
       \o IF span = <<0, 0>> THEN <<>> ELSE <<Record("SessClose", 0, span[2])>>
  ELSE IF span = <<0, 0>> THEN Linked(begins, v)
  ELSE <<Record("Timestamp", span[1], span[1])>> \o Linked(begins, v)
       \o <<Record("Timestamp", span[1], span[2])>>

WithRecords(begins, spans) ==
  [v \in DOMAIN begins |->
     WithLinks(begins)[v] @@ [records |-> Records(begins, v, spans[v])]]

SpannedSets ==
  {WithRecords(p[1], p[2]) :
     p \in UNION {ForestBegins(D, DrawBegins) \X [D -> Spans] : D \in (SUBSET FewVXIDs) \ {{}}}}

(* Latency: the same forests, with backend requests, and none, one or two     *)
(* timestamps that count in each transaction.                                 *)
TimeBegins == [parent : FewVXIDs \cup {0}, type : {"Request", "BeReq"}]
              \cup [parent : {0}, type : {"Session"}]

Stamp(label, d) == [label |-> label, sinceLast |-> d]

Timestamps == {<<>>, <<Stamp("Resp", 3), Stamp("Start", 0)>>,
               <<Stamp("Resp", 20), Stamp("Resp", 7)>>}

WithTimestamps(begins, times) ==
  [v \in DOMAIN begins |-> WithLinks(begins)[v] @@ [timestamps |-> times[v]]]

StampedSets ==
  {WithTimestamps(p[1], p[2]) :
     p \in UNION {ForestBegins(D, TimeBegins) \X [D -> Timestamps] : D \in SUBSET FewVXIDs}}

(* Requests: every Host, every backend of the log, every form.                *)
MCForms ==
  [connectTo : {"backend", "custom", "other"}, backend : {"none", "auto", "given"},
   address : {Text("v4", 0, "80"), Text("v6", 1, "443")}, custom : Texts,
   scheme : {"auto", "http://"}, excluded : {{}, {"A"}}]

MCTransactions ==
  [type : {"Request", "BeReq"}, host : Texts, headers : {{"A", "B"}},
   conn : {NoText, Text("v4", 0, "80"), Text("v6", 0, "443")}]
    \cup [type : {"Session"}, host : {NoText}, headers : {{}}, conn : {NoText}]

\* What is not read by a choice of the form is one value.
FewForms == {f \in MCForms :
               /\ f.connectTo # "custom" => f.custom = NoText
               /\ f.connectTo # "backend" => f.backend = "none"
               /\ f.backend # "given" => f.address = Text("v4", 0, "80")}
=============================================================================
