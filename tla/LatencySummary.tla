---------------------------- MODULE LatencySummary ---------------------------
(***************************************************************************)
(* TimestampEventsSummary of vsl/summary/latency.go: the walk from every   *)
(* root adds the elapsed time of each Timestamp record to the counter of   *)
(* its transaction type and label.  Times are natural numbers of           *)
(* nanoseconds and percentiles are taken at whole percents, so the floats  *)
(* of the code are exact here but for the fraction that is cut off.        *)
(***************************************************************************)
EXTENDS TxSet

CONSTANT TransactionSets  \* sets whose transactions also have their timestamps

VARIABLES
  ts,       \* the set
  roots,    \* the roots that have not been walked
  events,   \* the timestamps the walk of the present root has not reached
  tsEvents  \* the counters, by type and label

vars == <<ts, roots, events, tsEvents>>

-----------------------------------------------------------------------------
(* LatencyCounter: its values are sorted. *)

\* A sort of numbers: the i-th of them stands behind all that are less or, being
\* equal, before it.
Ascending(values) ==
  LET upTo(i) == {j \in DOMAIN values : values[j] < values[i] \/ (values[j] = values[i] /\ j <= i)}
  IN  [k \in DOMAIN values |-> values[CHOOSE i \in DOMAIN values : Cardinality(upTo(i)) = k]]

\* LatencyCounter.Add
AddLatency(values, sinceLast) == Ascending(Append(values, sinceLast))

Lowest(values) == IF values = <<>> THEN 0 ELSE values[1]
Highest(values) == IF values = <<>> THEN 0 ELSE values[Len(values)]

SumOf(values) ==
  LET sum[i \in 0..Len(values)] == IF i = 0 THEN 0 ELSE sum[i - 1] + values[i]
  IN  sum[Len(values)]

Average(values) == IF values = <<>> THEN 0 ELSE SumOf(values) \div Len(values)

\* Mutant of Percentile: the rank is a share of the count.
PercentileOfCount(values, p) ==
  LET n     == Len(values)
      rank  == p * n
      lower == rank \div 100 + 1
  IN  IF n = 0 THEN 0
      ELSE IF lower >= n THEN values[n]
      ELSE values[lower] + ((rank % 100) * (values[lower + 1] - values[lower])) \div 100

\* LatencyCounter.Percentile: between the two closest ranks; rank in hundredths.
Percentile(values, p) ==
  LET n     == Len(values)
      rank  == p * (n - 1)
      lower == rank \div 100 + 1
  IN  IF n = 0 THEN 0
      ELSE IF lower + 1 > n THEN values[lower]
      ELSE values[lower] + ((rank % 100) * (values[lower + 1] - values[lower])) \div 100

-----------------------------------------------------------------------------
(* The summary *)

\* The timestamps processEvents comes by from root, on links that form no loop
\* (LinkWalk); a counter does not depend on their order.
Walked(root) ==
  LET own(v) == [i \in DOMAIN ts[v].timestamps |->
                   [type |-> ts[v].type, label |-> ts[v].timestamps[i].label,
                    sinceLast |-> ts[v].timestamps[i].sinceLast]]
      walk[depth \in 0..Cardinality(DOMAIN ts)] == [v \in DOMAIN ts |->
        IF depth = 0 THEN <<>>
        ELSE own(v) \o FlattenSeq([i \in DOMAIN ts[v].links |->
                         IF FoundChild(ts, v, ts[v].links[i])
                         THEN walk[depth - 1][ts[v].links[i]] ELSE <<>>])]
  IN  walk[Cardinality(DOMAIN ts)][root]

\* UniqueRootParents(false) gives the roots in ascending order.
Init ==
  /\ ts \in TransactionSets
  /\ roots = Sorted({RootParent(ts, v, FALSE) : v \in DOMAIN ts} \ {0})
  /\ events = <<>>
  /\ tsEvents = [name \in {} |-> <<>>]

\* The next root.
ProcessRoot ==
  /\ events = <<>> /\ roots # <<>>
  /\ events' = Walked(Head(roots))
  /\ roots' = Tail(roots)
  /\ UNCHANGED <<ts, tsEvents>>

\* A timestamp that took no time is left out.
SkipZero ==
  /\ events # <<>> /\ Head(events).sinceLast = 0
  /\ events' = Tail(events)
  /\ UNCHANGED <<ts, roots, tsEvents>>

\* Any other is added to the counter of its name, a new one if there is none.
CountTimestamp ==
  LET name == <<Head(events).type, Head(events).label>>
      old  == IF name \in DOMAIN tsEvents THEN tsEvents[name] ELSE <<>>
  IN  /\ events # <<>> /\ Head(events).sinceLast # 0
      /\ tsEvents' = [n \in DOMAIN tsEvents \cup {name} |->
                        IF n = name THEN AddLatency(old, Head(events).sinceLast)
                        ELSE tsEvents[n]]
      /\ events' = Tail(events)
      /\ UNCHANGED <<ts, roots>>

Next == ProcessRoot \/ SkipZero \/ CountTimestamp

Spec == Init /\ [][Next]_vars

-----------------------------------------------------------------------------
Summarised == events = <<>> /\ roots = <<>>

\* The number of timestamps of the log that took time d under a name.
Logged(name, d) ==
  LET logged == UNION {{v} \X DOMAIN ts[v].timestamps : v \in DOMAIN ts}
  IN  Cardinality({s \in logged :
        /\ ts[s[1]].type = name[1]
        /\ ts[s[1]].timestamps[s[2]] = [label |-> name[2], sinceLast |-> d]})

\* No chain is deeper than RootParent goes: what it ends at is on top.
RootsOnTop ==
  \A v \in DOMAIN ts :
    LET r == RootParent(ts, v, FALSE)
    IN  r # 0 /\ Found(ts, ts[r].parent) => ts[ts[r].parent].type = "Session"

\* Every timestamp of every transaction that is no session is counted exactly
\* once under its own type and label, in whichever transaction of a tree it is,
\* also where the parent is missing from the log or a session on top is left
\* out: the roots go by the parents, the walk by the links (latency.go, 126-155).
\* Only in a chain deeper than RootParent goes one root is below another.
CountedOnce ==
  Summarised /\ LinksMirrorParents(ts) /\ SessionsOnTop(ts) /\ Forest(ts) /\ RootsOnTop =>
    \A v \in DOMAIN ts : \A i \in DOMAIN ts[v].timestamps :
      LET name == <<ts[v].type, ts[v].timestamps[i].label>>
          d    == ts[v].timestamps[i].sinceLast
      IN  IF ts[v].type = "Session" \/ d = 0
          THEN name \notin DOMAIN tsEvents \/ d \notin Range(tsEvents[name])
          ELSE /\ name \in DOMAIN tsEvents
               /\ Cardinality({k \in DOMAIN tsEvents[name] : tsEvents[name][k] = d})
                    = Logged(name, d)

\* The same counter seen from above: c minus each value.
Mirrored(values, c) == [i \in DOMAIN values |-> c - values[Len(values) + 1 - i]]

\* What the table shows of a counter is consistent: from the minimum over the
\* percentiles to the maximum nothing decreases, the average is between the two,
\* and a percentile taken from below and the opposite one taken from above are
\* the same time, but for the fraction of a nanosecond that is cut off
\* (latency.go, 49-119).
PercentilesConsistent ==
  \A name \in DOMAIN tsEvents :
    LET values == tsEvents[name]
        c      == Lowest(values) + Highest(values)
    IN  /\ Lowest(values) <= Average(values) /\ Average(values) <= Highest(values)
        /\ \A p \in {0, 50, 90, 99, 100} :
             /\ \A q \in {0, 50, 90, 99, 100} :
                  p <= q => Percentile(values, p) <= Percentile(values, q)
             /\ Percentile(values, p) + Percentile(Mirrored(values, c), 100 - p) \in {c - 1, c}
        /\ Percentile(values, 0) = Lowest(values)
        /\ Percentile(values, 100) = Highest(values)

=============================================================================
