------------------------------- MODULE LinkWalk ------------------------------
(***************************************************************************)
(* The recursive walks over the Link records of a transaction set, one per *)
(* view of the page:                                                       *)
(*   "tree"      renderTxTree           render/vcltree.go                  *)
(*   "headers"   headersView            render/headers.go                  *)
(*   "timeline"  collectAndSortRecords  render/timeline.go                 *)
(*   "sequence"  addTransactionLogs     render/sequence.go                 *)
(*   "collect"   collectAllChildren     vsl/transaction_utils.go           *)
(*   "summary"   processEvents          vsl/summary/latency.go             *)
(* A frame of stack is a call that has not returned: the transaction it is *)
(* about and the number of links it has left behind.  Links may form       *)
(* loops; all walks but the summary's keep a visited set against them.     *)
(***************************************************************************)
EXTENDS TxSet

CONSTANTS
  Walkers,            \* the walks that are made
  TransactionSets(_)  \* the sets each of them is made on

ASSUME WalksAssumption ==
  \A w \in Walkers :
    /\ w \in {"tree", "headers", "timeline", "sequence", "collect", "summary"}
    /\ \A s \in TransactionSets(w) :
         DOMAIN s \subseteq VXIDs /\ \A v \in DOMAIN s : s[v].links \in Seq(VXIDs)

VARIABLES
  ts,       \* the set
  walker,   \* the walk
  root,     \* the transaction it starts from
  stack,    \* the calls that are active, innermost last
  visited,  \* the visited map, with the key 0 of missing transactions
  out,      \* what is written: the begin and the end of a transaction's box,
            \* a link that is struck through, the box of a missing transaction
  open      \* the sections of the sequence diagram that are open

vars == <<ts, walker, root, stack, visited, out, open>>

\* The Link records a call goes through, or the sorted children it collects.
LinksOf(v) == IF walker = "collect" THEN SortedChildren(ts, v) ELSE ts[v].links

Write(what, v) == [what |-> what, tx |-> v]

Top == Last(stack)
Advance(frames) == [frames EXCEPT ![Len(frames)].links = @ + 1]

\* The sequence and the summary are not asked for a session.
Init ==
  /\ walker \in Walkers
  /\ ts \in TransactionSets(walker)
  /\ root \in DOMAIN ts
  /\ walker \in {"sequence", "summary"} => ts[root].type # "Session"
  /\ stack = <<[tx |-> root, links |-> 0]>>
  /\ visited = {root}
  /\ out = <<Write("begin", root)>>
  /\ open = IF walker = "sequence" THEN <<root>> ELSE <<>>

\* The link the innermost call is at.
AtLink(v) ==
  /\ stack # <<>>
  /\ Top.links < Len(LinksOf(Top.tx))
  /\ v = LinksOf(Top.tx)[Top.links + 1]

\* Mutant of FollowLink: a missing target is walked.
FollowMissing(v) ==
  /\ AtLink(v)
  /\ v \notin visited
  /\ stack' = Append(Advance(stack), [tx |-> v, links |-> 0])
  /\ visited' = visited \cup {v}
  /\ out' = Append(out, Write("begin", v))
  /\ UNCHANGED <<ts, walker, root, open>>

\* Mutant of FollowLink: visited is not looked at.
FollowAgain(v) ==
  /\ AtLink(v)
  /\ Found(ts, v)
  /\ stack' = Append(Advance(stack), [tx |-> v, links |-> 0])
  /\ visited' = visited \cup {v}
  /\ out' = Append(out, Write("begin", v))
  /\ UNCHANGED <<ts, walker, root, open>>

\* The target is present and has not been visited: its records are walked.
\* The sequence closes the section of the parent and the child opens its own.
FollowLink(v) ==
  /\ AtLink(v)
  /\ IF walker = "summary" THEN FoundChild(ts, Top.tx, v)
     ELSE Found(ts, v) /\ v \notin visited
  /\ stack' = Append(Advance(stack), [tx |-> v, links |-> 0])
  /\ visited' = IF walker = "summary" THEN visited ELSE visited \cup {v}
  /\ out' = Append(out, Write("begin", v))
  /\ open' = IF walker = "sequence" THEN Append(Front(open), v) ELSE open
  /\ UNCHANGED <<ts, walker, root>>

\* Mutant of SkipVisited: a loop ends the walk of the whole transaction.
BreakAtVisited(v) ==
  /\ AtLink(v)
  /\ Found(ts, v) /\ v \in visited
  /\ stack' = [stack EXCEPT ![Len(stack)].links = Len(LinksOf(Top.tx))]
  /\ UNCHANGED <<ts, walker, root, visited, out, open>>

\* Mutant of SkipVisited: the walk stays at the link.
StayAtVisited(v) ==
  /\ AtLink(v)
  /\ Found(ts, v) /\ v \in visited
  /\ UNCHANGED vars

\* Loop detected: the call returns at once.  collectAllChildren has added the
\* child before it looks; the sequence closes and reopens the same section.
SkipVisited(v) ==
  /\ AtLink(v)
  /\ walker # "summary"
  /\ Found(ts, v) /\ v \in visited
  /\ stack' = Advance(stack)
  /\ out' = IF walker = "collect" THEN Append(out, Write("begin", v)) ELSE out
  /\ UNCHANGED <<ts, walker, root, visited, open>>

\* The target is not in the set.  The tree strikes the link through and walks a
\* NewMissingTransaction, whose VXID is 0; the sequence adds a step; the others
\* do nothing.
SkipMissing(v) ==
  /\ AtLink(v)
  /\ ~Found(ts, v)
  /\ stack' = Advance(stack)
  /\ IF walker = "tree"
     THEN /\ visited' = visited \cup {0}
          /\ out' = out \o <<Write("struck", v)>>
                        \o IF 0 \in visited THEN <<>> ELSE <<Write("missing", v)>>
     ELSE /\ out' = IF walker = "sequence" THEN Append(out, Write("struck", v)) ELSE out
          /\ UNCHANGED visited
  /\ UNCHANGED <<ts, walker, root, open>>

\* Mutant of Return: the caller does not open its section again.
ReturnClosed ==
  /\ stack # <<>>
  /\ Top.links = Len(LinksOf(Top.tx))
  /\ stack' = Front(stack)
  /\ out' = Append(out, Write("end", Top.tx))
  /\ open' = IF walker # "sequence" THEN open ELSE Front(open)
  /\ UNCHANGED <<ts, walker, root, visited>>

\* The End record and the return; the sequence closes the section and the
\* caller opens one for itself again.
Return ==
  /\ stack # <<>>
  /\ Top.links = Len(LinksOf(Top.tx))
  /\ stack' = Front(stack)
  /\ out' = Append(out, Write("end", Top.tx))
  /\ open' = IF walker # "sequence" THEN open
             ELSE IF Len(stack) = 1 THEN Front(open)
             ELSE Append(Front(open), stack[Len(stack) - 1].tx)
  /\ UNCHANGED <<ts, walker, root, visited>>

Walk ==
  \/ \E v \in VXIDs : FollowLink(v) \/ SkipVisited(v) \/ SkipMissing(v)
  \/ Return

\* The six functions: what differs between them is where the actions name them.
RenderTxTree == walker = "tree" /\ Walk
HeadersView == walker = "headers" /\ Walk
CollectAndSortRecords == walker = "timeline" /\ Walk
AddTransactionLogs == walker = "sequence" /\ Walk
CollectAllChildren == walker = "collect" /\ Walk
ProcessEvents == walker = "summary" /\ Walk

Next ==
  \/ RenderTxTree \/ HeadersView \/ CollectAndSortRecords
  \/ AddTransactionLogs \/ CollectAllChildren \/ ProcessEvents

\* The program is a single goroutine that runs until it returns.
Spec == Init /\ [][Next]_vars /\ WF_vars(Next)

-----------------------------------------------------------------------------
Returned == stack = <<>>

\* Type invariant.
TypeOK ==
  /\ walker \in Walkers /\ root \in DOMAIN ts /\ DOMAIN ts \subseteq VXIDs
  /\ \A i \in DOMAIN stack :
       /\ stack[i].tx \in DOMAIN ts
       /\ stack[i].links \in 0..Len(LinksOf(stack[i].tx))
  /\ visited \subseteq DOMAIN ts \cup {0}
  /\ \A i \in DOMAIN out : out[i].tx \in VXIDs
  /\ \A i \in DOMAIN open : open[i] \in DOMAIN ts

\* Whatever loops and shared children the links form, a view shows no
\* transaction twice (the loop checks of vcltree.go 24-30, headers.go 23-29,
\* timeline.go 144-150, sequence.go 93-99).  A group has none twice either when
\* the links form a forest, as varnishd writes them.
ShownOnce ==
  (walker \in {"collect", "summary"} => Forest(ts)) =>
    \A i, j \in DOMAIN out :
      out[i] = out[j] /\ out[i].what = "begin" => i = j

\* and when it returns it has shown all that the links lead to: the loop checks
\* cut no transaction off.
ShowsAllReachable ==
  Returned => {v \in DOMAIN ts : Write("begin", v) \in Range(out)} = Reachable(ts, root)

\* The sequence diagram has exactly one open section while it is drawn, that of
\* the transaction whose records are being added, and none is left open nor
\* closed twice (OpenSection and CloseSection, sequence.go 130-135, 327-335).
StepsInOwnSection ==
  walker = "sequence" => open = IF Returned THEN <<>> ELSE <<Top.tx>>

\* No walk enters a transaction it is still inside of: links that form a loop
\* are a log the parser and the views accept (TestLinkLoop, sequence_test.go 34).
NotReentered ==
  \A i, j \in DOMAIN stack : stack[i].tx = stack[j].tx => i = j

\* Every walk comes to an end.
Terminates == <>Returned

=============================================================================
