------------------------------- MODULE Timeline -------------------------------
(***************************************************************************)
(* The rows of the timeline (render/timeline.go): the Begin and Timestamp  *)
(* records below a root, by start time, are put on rows one after another. *)
(* The records of a transaction are those that matter here: its Timestamp  *)
(* records with their start and end, the session's SessOpen and SessClose, *)
(* and the links.  Times are natural numbers; 0 is the zero time.          *)
(***************************************************************************)
EXTENDS TxSet

CONSTANT TransactionSets  \* sets of transactions with their records

VARIABLES
  ts,            \* the set
  events,        \* the events that have not been put on a row
  rows,          \* the rows, each with the events on it
  currentIndex,  \* row indexes start at 0, -1 before the first event
  txRows,        \* the row of a transaction's timestamps
  lastTx         \* the last transaction with a Begin, 0: none

vars == <<ts, events, rows, currentIndex, txRows, lastTx>>

-----------------------------------------------------------------------------
(* Transactions *)

\* RecordByTag: the first or the last record, a record without times if none.
RecordByTag(v, tag, first) ==
  LET tagged == {i \in DOMAIN ts[v].records : ts[v].records[i].tag = tag}
  IN  IF tagged = {} THEN [tag |-> "none", start |-> 0, end |-> 0]
      ELSE ts[v].records[IF first THEN Min(tagged) ELSE Max(tagged)]

\* StartTime: SessOpen, or the start of the first timestamp.
StartTime(v) ==
  RecordByTag(v, IF ts[v].type = "Session" THEN "SessOpen" ELSE "Timestamp", TRUE).start

\* EndTime: SessClose (its end is the start of the session and its duration), or
\* the end of the last timestamp.
EndTime(v) ==
  RecordByTag(v, IF ts[v].type = "Session" THEN "SessClose" ELSE "Timestamp", FALSE).end

\* The events collectAndSortRecords comes by, on links that form no loop (LinkWalk).
Collected(root) ==
  LET event(v, what, start, end) == [tx |-> v, what |-> what, start |-> start, end |-> end]
      collect[depth \in 0..Cardinality(DOMAIN ts)] == [v \in DOMAIN ts |->
        IF depth = 0 THEN <<>>
        ELSE <<event(v, "Begin", StartTime(v), EndTime(v))>>
             \o FlattenSeq([i \in DOMAIN ts[v].records |->
                  LET r == ts[v].records[i]
                  IN  IF r.tag = "Timestamp" THEN <<event(v, "Timestamp", r.start, r.end)>>
                      ELSE IF r.tag = "Link" /\ Found(ts, r.vxid)
                      THEN collect[depth - 1][r.vxid] ELSE <<>>])]
  IN  collect[Cardinality(DOMAIN ts)][root]

\* The next event of the sorted ones. Every call sorts its events and those of its
\* children by their start, stably: that is one stable sort of all of them.
NextEvent ==
  CHOOSE i \in DOMAIN events : \A j \in DOMAIN events :
    events[i].start < events[j].start \/ (events[i].start = events[j].start /\ i <= j)

LogRecords ==
  [tag : {"Timestamp"}, start : Nat \ {0}, end : Nat \ {0}]
  \cup [tag : {"SessOpen", "SessClose"}, start : Nat, end : Nat]
  \cup [tag : {"Link"}, vxid : VXIDs]

\* A log as varnishd writes it: links that form trees, each of them logged once and
\* none to a session; the first timestamp of a request before its other records and
\* no later than its other timestamps.
LoggedInOrder(s) ==
  /\ Forest(s)
  /\ \A v \in DOMAIN s :
       LET records == s[v].records
       IN  /\ v \in VXIDs /\ records \in Seq(LogRecords)
           /\ \A i \in DOMAIN records : records[i].tag = "Link" =>
                /\ records[i].vxid \in Children(s, v)
                /\ records[i].vxid \in DOMAIN s => s[records[i].vxid].type # "Session"
                /\ \A j \in DOMAIN records : records[j] = records[i] => i = j
           /\ \A i \in DOMAIN records : records[i].tag = "Timestamp" =>
                /\ s[v].type # "Session" /\ records[1].tag = "Timestamp"
                /\ records[1].start <= records[i].start

-----------------------------------------------------------------------------
(* svgtimeline *)

\* GetRowByIndex finds the row.
HasRow(index) == index \in 0..(Len(rows) - 1)

\* The end of what is on a row.
RowEnd(index) == Max({rows[index + 1][i].end : i \in DOMAIN rows[index + 1]})

\* AddEvent on the row with that index or, if there is none, on a row AddRow appends.
AddEvent(index, e) ==
  rows' = IF HasRow(index) THEN [rows EXCEPT ![index + 1] = Append(@, e)]
          ELSE Append(rows, <<e>>)

-----------------------------------------------------------------------------
(* Timeline *)

Init ==
  /\ ts \in TransactionSets
  /\ \E root \in {v \in DOMAIN ts : ~Found(ts, ts[v].parent)} : events = Collected(root)
  /\ rows = <<>>
  /\ currentIndex = -1
  /\ txRows = [v \in {} |-> 0]
  /\ lastTx = 0

\* A transaction without a start or an end.
SkipBegin ==
  /\ events # <<>> /\ events[NextEvent].what = "Begin"
  /\ events[NextEvent].start = 0 \/ events[NextEvent].end = 0
  /\ events' = RemoveAt(events, NextEvent)
  /\ UNCHANGED <<ts, rows, currentIndex, txRows, lastTx>>

\* The next row, or the last one if all that is on it has ended.
NextIndex(e) ==
  IF HasRow(currentIndex) /\ e.start > RowEnd(currentIndex)
  THEN currentIndex ELSE currentIndex + 1

\* The request e is of another request than the one before it.
OtherRequest(e) ==
  /\ lastTx # 0
  /\ RootParent(ts, e.tx, FALSE) # 0 /\ RootParent(ts, lastTx, FALSE) # 0
  /\ RootParent(ts, e.tx, FALSE) # RootParent(ts, lastTx, FALSE)

\* Mutant of EraIndex: the row of the session is not spared.
EraIndexFromZero(e) == IF OtherRequest(e) THEN 0 ELSE NextIndex(e)

\* The row of a transaction: another request starts again from the top, below
\* the row of the session if there is one.
EraIndex(e) ==
  IF ~OtherRequest(e) THEN NextIndex(e)
  ELSE IF ts[RootParent(ts, e.tx, TRUE)].type = "Session" THEN 1 ELSE 0

\* The timestamps of a transaction that is no session are expected below it.
DrawBegin ==
  LET e == events[NextEvent]
  IN  /\ events # <<>> /\ e.what = "Begin" /\ e.start # 0 /\ e.end # 0
      /\ AddEvent(EraIndex(e), e)
      /\ currentIndex' = EraIndex(e) + IF ts[e.tx].type = "Session" THEN 0 ELSE 1
      /\ lastTx' = e.tx
      /\ events' = RemoveAt(events, NextEvent)
      /\ UNCHANGED <<ts, txRows>>

\* Mutant of DrawTimestamp: the row of the other timestamps is not looked up.
DrawTimestampHere ==
  LET e == events[NextEvent]
  IN  /\ events # <<>> /\ e.what = "Timestamp"
      /\ AddEvent(currentIndex, e)
      /\ events' = RemoveAt(events, NextEvent)
      /\ UNCHANGED <<ts, currentIndex, txRows, lastTx>>

\* The first timestamp of a transaction decides on the row of all of them.
DrawTimestamp ==
  LET e   == events[NextEvent]
      row == IF e.tx \in DOMAIN txRows THEN txRows[e.tx] ELSE currentIndex
  IN  /\ events # <<>> /\ e.what = "Timestamp"
      /\ AddEvent(row, e)
      /\ txRows' = [v \in DOMAIN txRows \cup {e.tx} |-> IF v = e.tx THEN row ELSE txRows[v]]
      /\ events' = RemoveAt(events, NextEvent)
      /\ UNCHANGED <<ts, currentIndex, lastTx>>

Next == SkipBegin \/ DrawBegin \/ DrawTimestamp

Spec == Init /\ [][Next]_vars

-----------------------------------------------------------------------------
\* The rows that hold an event of a transaction.
RowsOf(v, what) ==
  {r \in DOMAIN rows : \E i \in DOMAIN rows[r] : rows[r][i].tx = v /\ rows[r][i].what = what}

\* However the transactions overlap, and however often the index starts again
\* from the top, a transaction is on one row and all its timestamps are on the
\* row below it: the indexes the loop keeps are those of the rows AddRow made
\* (timeline.go, 73-110).
TimestampsBelowTransaction ==
  \A v \in DOMAIN ts :
    /\ Cardinality(RowsOf(v, "Begin")) <= 1
    /\ RowsOf(v, "Timestamp") \subseteq {r + 1 : r \in RowsOf(v, "Begin")}

\* "If the root tx is a session, no further events should share its row"
\* (timeline.go, 65), when all of the session starts while it is open, and no
\* deeper than RootParent goes.
SessionRowIsItsOwn ==
  \A v \in DOMAIN ts :
    (/\ ts[v].type = "Session"
     /\ \A w \in Reachable(ts, v) :
          StartTime(w) \in {0} \cup (StartTime(v)..EndTime(v)) /\ RootParent(ts, w, TRUE) = v) =>
      \A r \in RowsOf(v, "Begin") : Len(rows[r]) = 1

=============================================================================
