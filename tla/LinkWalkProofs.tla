--------------------------- MODULE LinkWalkProofs ----------------------------
(* Theorems about the walks that keep a visited set, on sets of any size with *)
(* links of any shape: loops, shared children, missing targets.               *)
EXTENDS LinkWalk, TxSetProofs

\* The walks the theorems are about.  collectAllChildren sorts the children, and the
\* summary keeps no visited set.
Views == {"tree", "headers", "timeline", "sequence"}

Frames == [tx : DOMAIN ts, links : Nat]

Writings == [what : {"begin", "end", "struck", "missing"}, tx : VXIDs]

\* The type invariant, with the types of the sequences spelled out.
Types ==
  /\ walker \in Walkers \cap Views /\ root \in DOMAIN ts /\ DOMAIN ts \subseteq VXIDs
  /\ \A v \in DOMAIN ts : ts[v].links \in Seq(VXIDs)
  /\ stack \in Seq(Frames)
  /\ \A i \in DOMAIN stack : stack[i].links <= Len(ts[stack[i].tx].links)
  /\ visited \subseteq DOMAIN ts \cup {0}
  /\ out \in Seq(Writings)
  /\ open \in Seq(DOMAIN ts)

\* What has been written is visited, and nothing has been written twice.
Once ==
  /\ \A i \in DOMAIN out : out[i].what = "begin" => out[i].tx \in visited
  /\ \A i, j \in DOMAIN out : out[i] = out[j] /\ out[i].what = "begin" => i = j

Inv == Types /\ Once /\ StepsInOwnSection

-----------------------------------------------------------------------------
(* Sequences *)

\* The innermost frame, and the stack without it.
LEMMA TopOfStack ==
  ASSUME Types, stack # <<>>
  PROVE  /\ Len(stack) \in Nat \ {0} /\ DOMAIN stack = 1..Len(stack)
         /\ Top = stack[Len(stack)] /\ Top \in Frames /\ Len(stack) \in DOMAIN stack
         /\ Front(stack) \in Seq(Frames) /\ Len(Front(stack)) = Len(stack) - 1
         /\ DOMAIN Front(stack) = 1..(Len(stack) - 1)
         /\ \A i \in 1..(Len(stack) - 1) : Front(stack)[i] = stack[i]
<1>1. Len(stack) \in Nat \ {0} /\ DOMAIN stack = 1..Len(stack)
  BY EmptySeq, LenProperties DEF Types
<1>2. Top = stack[Len(stack)] /\ Top \in Frames
  BY <1>1, ElementOfSeq DEF Types, Top, Last
<1>3. /\ Front(stack) \in Seq(Frames) /\ Len(Front(stack)) = Len(stack) - 1
      /\ \A i \in 1..(Len(stack) - 1) : Front(stack)[i] = stack[i]
  BY <1>1, SubSeqProperties DEF Types, Front
<1>4. DOMAIN Front(stack) = 1..(Len(stack) - 1)
  BY <1>3, LenProperties
<1> QED BY <1>1, <1>2, <1>3, <1>4

\* The caller goes on behind the link it is at.
LEMMA AdvanceStack ==
  ASSUME Types, NEW v, AtLink(v)
  PROVE  /\ Advance(stack) \in Seq(Frames) /\ Len(Advance(stack)) = Len(stack)
         /\ \A i \in DOMAIN Advance(stack) :
              /\ Advance(stack)[i].tx = stack[i].tx
              /\ Advance(stack)[i].links <= Len(ts[stack[i].tx].links)
         /\ v \in VXIDs
<1>1. stack # <<>> /\ Top.links < Len(ts[Top.tx].links) /\ v = ts[Top.tx].links[Top.links + 1]
  BY DEF AtLink, LinksOf, Types, Views
<1>2. /\ Len(stack) \in Nat \ {0} /\ DOMAIN stack = 1..Len(stack)
      /\ Top = stack[Len(stack)] /\ Top \in Frames /\ Len(stack) \in 1..Len(stack)
  BY <1>1, TopOfStack
<1> DEFINE frame == [Top EXCEPT !.links = @ + 1]
<1>3. frame \in Frames /\ frame.tx = Top.tx /\ frame.links = Top.links + 1
  BY <1>2 DEF Frames
<1>4. Advance(stack) = [stack EXCEPT ![Len(stack)] = frame]
  BY <1>2 DEF Advance
<1>5. /\ Advance(stack) \in Seq(Frames) /\ Len(Advance(stack)) = Len(stack)
      /\ \A j \in 1..Len(stack) :
           Advance(stack)[j] = IF j = Len(stack) THEN frame ELSE stack[j]
  BY <1>2, <1>3, <1>4, ExceptSeq DEF Types
<1>6. DOMAIN Advance(stack) = 1..Len(stack)
  BY <1>5, LenProperties
<1>7. /\ ts[Top.tx].links \in Seq(VXIDs) /\ Len(ts[Top.tx].links) \in Nat /\ Top.links \in Nat
  BY <1>2, LenProperties DEF Types, Frames
<1>8. v \in VXIDs
  BY <1>1, <1>7, ElementOfSeq
<1>9. ASSUME NEW i \in 1..Len(stack)
      PROVE  /\ Advance(stack)[i].tx = stack[i].tx
             /\ Advance(stack)[i].links <= Len(ts[stack[i].tx].links)
  <2>1. CASE i = Len(stack)
    <3>1. Advance(stack)[i] = frame /\ stack[i] = Top
      BY <2>1, <1>2, <1>5
    <3>2. frame.links <= Len(ts[Top.tx].links)
      BY <1>1, <1>3, <1>7
    <3> QED BY <1>3, <3>1, <3>2
  <2>2. CASE i # Len(stack)
    BY <2>2, <1>2, <1>5 DEF Types
  <2> QED BY <2>1, <2>2
<1> QED BY <1>5, <1>6, <1>8, <1>9

-----------------------------------------------------------------------------
(* The invariant *)

LEMMA InitInv ==
  ASSUME Walkers \subseteq Views, Init
  PROVE  Inv
<1>1. /\ walker \in Walkers \cap Views /\ root \in DOMAIN ts /\ DOMAIN ts \subseteq VXIDs
      /\ \A v \in DOMAIN ts : ts[v].links \in Seq(VXIDs)
  BY WalksAssumption DEF Init
<1>2. /\ stack = <<[tx |-> root, links |-> 0]>> /\ visited = {root}
      /\ out = <<Write("begin", root)>>
      /\ open = IF walker = "sequence" THEN <<root>> ELSE <<>>
  BY DEF Init
<1>3. stack \in Seq(Frames) /\ out \in Seq(Writings) /\ open \in Seq(DOMAIN ts)
  <2>1. [tx |-> root, links |-> 0] \in Frames /\ Write("begin", root) \in Writings
    BY <1>1 DEF Frames, Write, Writings
  <2>2. /\ <<[tx |-> root, links |-> 0]>> \in Seq(Frames)
        /\ <<Write("begin", root)>> \in Seq(Writings)
    BY <2>1
  <2>3. <<root>> \in Seq(DOMAIN ts) /\ <<>> \in Seq(DOMAIN ts)
    BY <1>1
  <2> QED BY <1>2, <2>2, <2>3
<1>4. Len(ts[root].links) \in Nat
  BY <1>1, LenProperties
<1>5. Types
  BY <1>1, <1>2, <1>3, <1>4 DEF Types
<1>6. Once
  BY <1>2 DEF Once, Write
<1>7. StepsInOwnSection
  BY <1>2 DEF StepsInOwnSection, Returned, Top, Last
<1> QED BY <1>5, <1>6, <1>7 DEF Inv

\* A child is walked: it was not visited, so it is not in what is written.
LEMMA FollowLinkInv ==
  ASSUME Inv, NEW v, FollowLink(v)
  PROVE  Inv'
<1> USE DEF Inv
<1>1. /\ AtLink(v) /\ v \in DOMAIN ts /\ v \notin visited
      /\ stack' = Append(Advance(stack), [tx |-> v, links |-> 0])
      /\ visited' = visited \cup {v}
      /\ out' = Append(out, Write("begin", v))
      /\ open' = IF walker = "sequence" THEN Append(Front(open), v) ELSE open
      /\ UNCHANGED <<ts, walker, root>>
  BY DEF FollowLink, Found, Types, Views
<1>2. /\ Advance(stack) \in Seq(Frames) /\ Len(Advance(stack)) = Len(stack) /\ v \in VXIDs
      /\ \A i \in DOMAIN Advance(stack) :
           /\ Advance(stack)[i].tx = stack[i].tx
           /\ Advance(stack)[i].links <= Len(ts[stack[i].tx].links)
  BY <1>1, AdvanceStack
<1>3. [tx |-> v, links |-> 0] \in Frames /\ Frames' = Frames
  BY <1>1 DEF Frames
<1>4. /\ stack' \in Seq(Frames) /\ Len(stack') = Len(stack) + 1
      /\ DOMAIN stack' = 1..(Len(stack) + 1) /\ Len(stack) \in Nat
      /\ \A i \in 1..Len(stack) : stack'[i] = Advance(stack)[i]
      /\ stack'[Len(stack) + 1] = [tx |-> v, links |-> 0]
      /\ DOMAIN Advance(stack) = 1..Len(stack)
  BY <1>1, <1>2, <1>3, AppendProperties, LenProperties
<1>5. \A i \in DOMAIN stack' : stack'[i].links <= Len(ts[stack'[i].tx].links)
  <2> SUFFICES ASSUME NEW i \in 1..(Len(stack) + 1)
               PROVE  stack'[i].links <= Len(ts[stack'[i].tx].links)
    BY <1>4
  <2>1. CASE i = Len(stack) + 1
    <3>1. stack'[i].links = 0 /\ stack'[i].tx = v /\ Len(ts[v].links) \in Nat
      BY <2>1, <1>1, <1>4, LenProperties DEF Types
    <3> QED BY <3>1
  <2>2. CASE i \in 1..Len(stack)
    BY <2>2, <1>2, <1>4
  <2> QED BY <2>1, <2>2, <1>4
<1>6. /\ out' \in Seq(Writings) /\ Len(out) \in Nat /\ DOMAIN out = 1..Len(out)
      /\ DOMAIN out' = 1..(Len(out) + 1)
      /\ \A i \in 1..Len(out) : out'[i] = out[i]
      /\ out'[Len(out) + 1] = Write("begin", v)
  <2>1. Write("begin", v) \in Writings
    BY <1>2 DEF Write, Writings
  <2> QED BY <1>1, <2>1, AppendProperties, LenProperties DEF Types
<1>7. walker = "sequence" => open' = <<v>>
  <2>1. stack # <<>>
    BY <1>1 DEF AtLink
  <2>2. walker = "sequence" => open = <<Top.tx>>
    BY <2>1 DEF StepsInOwnSection, Returned
  <2>3. Append(<<>>, v) = <<v>> /\ SubSeq(<<Top.tx>>, 1, 0) = <<>> /\ Len(<<Top.tx>>) = 1
    OBVIOUS
  <2>4. Front(<<Top.tx>>) = <<>>
    BY <2>3 DEF Front
  <2> QED BY <1>1, <2>2, <2>3, <2>4
<1>8. open' \in Seq(DOMAIN ts)
  <2>1. open \in Seq(DOMAIN ts) /\ <<v>> \in Seq(DOMAIN ts)
    BY <1>1 DEF Types
  <2>2. walker # "sequence" => open' = open
    BY <1>1
  <2> QED BY <1>7, <2>1, <2>2
<1>9. Types'
  BY <1>1, <1>3, <1>4, <1>5, <1>6, <1>8 DEF Types
<1>10. Once'
  <2>1. \A i \in DOMAIN out : out[i].what = "begin" => out[i].tx # v
    BY <1>1 DEF Once
  <2>2. Write("begin", v).what = "begin" /\ Write("begin", v).tx = v
    BY DEF Write
  <2> QED BY <1>1, <1>6, <2>1, <2>2 DEF Once
<1>11. StepsInOwnSection'
  <2>1. stack' # <<>> /\ stack'[Len(stack')].tx = v
    BY <1>4
  <2> QED BY <1>1, <1>7, <2>1 DEF StepsInOwnSection, Returned, Top, Last
<1> QED BY <1>9, <1>10, <1>11

\* The link is left behind, and nothing that begins is written.
LEMMA StayInv ==
  ASSUME Inv, NEW v, AtLink(v),
         stack' = Advance(stack), UNCHANGED <<ts, walker, root, open>>,
         visited \subseteq visited', visited' \subseteq visited \cup {0},
         out' \in Seq(Writings),
         DOMAIN out \subseteq DOMAIN out',
         \A i \in DOMAIN out : out'[i] = out[i],
         \A i \in DOMAIN out' \ DOMAIN out : out'[i].what # "begin"
  PROVE  Inv'
<1> USE DEF Inv
<1>1. /\ stack' \in Seq(Frames) /\ Len(stack') = Len(stack) /\ v \in VXIDs
      /\ \A i \in DOMAIN stack' :
           stack'[i].tx = stack[i].tx /\ stack'[i].links <= Len(ts[stack[i].tx].links)
  BY AdvanceStack
<1>2. Frames' = Frames
  BY DEF Frames
<1>3. Types'
  BY <1>1, <1>2 DEF Types
<1>4. Once'
  <2>1. \A i \in DOMAIN out' : out'[i].what = "begin" => i \in DOMAIN out /\ out'[i] = out[i]
    OBVIOUS
  <2> QED BY <2>1 DEF Once
<1>5. StepsInOwnSection'
  <2>1. stack # <<>>
    BY DEF AtLink
  <2>2. Len(stack) \in Nat \ {0} /\ Top = stack[Len(stack)]
    BY <2>1, TopOfStack
  <2>3. DOMAIN stack' = 1..Len(stack) /\ stack' # <<>>
    BY <1>1, <2>2, LenProperties, EmptySeq
  <2>4. Top'.tx = Top.tx
    BY <1>1, <2>2, <2>3 DEF Top, Last
  <2> QED BY <2>1, <2>3, <2>4 DEF StepsInOwnSection, Returned
<1> QED BY <1>3, <1>4, <1>5

LEMMA SkipVisitedInv ==
  ASSUME Inv, NEW v, SkipVisited(v)
  PROVE  Inv'
<1>1. AtLink(v) /\ stack' = Advance(stack) /\ UNCHANGED <<ts, walker, root, visited, out, open>>
  BY DEF SkipVisited, Inv, Types, Views
<1>2. out \in Seq(Writings)
  BY DEF Inv, Types
<1> QED BY <1>1, <1>2, StayInv

\* A missing target is noted behind what is written, and nothing begins.
LEMMA SkipMissingWrites ==
  ASSUME Types, NEW v \in VXIDs, SkipMissing(v)
  PROVE  /\ out' \in Seq(Writings) /\ DOMAIN out \subseteq DOMAIN out'
         /\ \A i \in DOMAIN out : out'[i] = out[i]
         /\ \A i \in DOMAIN out' \ DOMAIN out : out'[i].what # "begin"
<1>1. PICK more \in Seq(Writings) :
        out' = out \o more /\ \A i \in DOMAIN more : more[i].what # "begin"
  <2>1. /\ Write("struck", v) \in Writings /\ Write("missing", v) \in Writings
        /\ Write("struck", v).what = "struck" /\ Write("missing", v).what = "missing"
    BY DEF Write, Writings
  <2>2. out \in Seq(Writings)
    BY DEF Types
  <2>3. CASE walker = "tree"
    <3> DEFINE box == IF 0 \in visited THEN <<>> ELSE <<Write("missing", v)>>
    <3>1. out' = (out \o <<Write("struck", v)>>) \o box
      BY <2>3 DEF SkipMissing
    <3>2. box \in Seq(Writings) /\ <<Write("struck", v)>> \in Seq(Writings)
      BY <2>1
    <3>3. out' = out \o (<<Write("struck", v)>> \o box)
      BY <2>2, <3>1, <3>2, ConcatAssociative
    <3>4. <<Write("struck", v)>> \o box \in Seq(Writings)
      BY <3>2, ConcatProperties
    <3>5. \A i \in DOMAIN (<<Write("struck", v)>> \o box) :
            (<<Write("struck", v)>> \o box)[i].what # "begin"
      <4>1. CASE 0 \in visited
        BY <2>1, <4>1
      <4>2. CASE 0 \notin visited
        BY <2>1, <4>2
      <4> QED BY <4>1, <4>2
    <3> QED BY <3>3, <3>4, <3>5
  <2>4. CASE walker = "sequence"
    <3>1. out' = Append(out, Write("struck", v))
      BY <2>4 DEF SkipMissing
    <3>2. out' = out \o <<Write("struck", v)>> /\ <<Write("struck", v)>> \in Seq(Writings)
      BY <2>1, <2>2, <3>1, AppendIsConcat
    <3>3. \A i \in DOMAIN <<Write("struck", v)>> : <<Write("struck", v)>>[i].what # "begin"
      BY <2>1
    <3> QED BY <3>2, <3>3
  <2>5. CASE walker \notin {"tree", "sequence"}
    <3>1. out' = out /\ <<>> \in Seq(Writings) /\ out \o <<>> = out
      BY <2>2, <2>5, ConcatEmptySeq DEF SkipMissing
    <3>2. \A i \in DOMAIN <<>> : <<>>[i].what # "begin"
      OBVIOUS
    <3> QED BY <3>1, <3>2
  <2> QED BY <2>3, <2>4, <2>5
<1>2. /\ out' \in Seq(Writings) /\ Len(out) \in Nat /\ Len(more) \in Nat
      /\ DOMAIN out = 1..Len(out) /\ DOMAIN more = 1..Len(more)
      /\ DOMAIN out' = 1..(Len(out) + Len(more))
      /\ \A i \in 1..(Len(out) + Len(more)) :
           out'[i] = IF i <= Len(out) THEN out[i] ELSE more[i - Len(out)]
  <2>1. out \in Seq(Writings)
    BY DEF Types
  <2> QED BY <1>1, <2>1, ConcatProperties, LenProperties
<1>3. \A i \in DOMAIN out : i \in DOMAIN out' /\ out'[i] = out[i]
  BY <1>2
<1>4. ASSUME NEW i \in DOMAIN out' \ DOMAIN out
      PROVE  out'[i].what # "begin"
  <2>1. i - Len(out) \in DOMAIN more /\ out'[i] = more[i - Len(out)]
    BY <1>2
  <2> QED BY <1>1, <2>1
<1> QED BY <1>2, <1>3, <1>4

LEMMA SkipMissingInv ==
  ASSUME Inv, NEW v, SkipMissing(v)
  PROVE  Inv'
<1>1. /\ AtLink(v) /\ stack' = Advance(stack) /\ UNCHANGED <<ts, walker, root, open>>
      /\ visited \subseteq visited' /\ visited' \subseteq visited \cup {0}
  BY DEF SkipMissing
<1>2. v \in VXIDs
  BY <1>1, AdvanceStack DEF Inv
<1>3. /\ out' \in Seq(Writings) /\ DOMAIN out \subseteq DOMAIN out'
      /\ \A i \in DOMAIN out : out'[i] = out[i]
      /\ \A i \in DOMAIN out' \ DOMAIN out : out'[i].what # "begin"
  BY <1>2, SkipMissingWrites DEF Inv
<1> QED BY <1>1, <1>3, StayInv

\* The caller is innermost again; the sequence opens its section again.
LEMMA ReturnInv ==
  ASSUME Inv, Return
  PROVE  Inv'
<1> USE DEF Inv
<1>1. /\ stack # <<>> /\ stack' = Front(stack)
      /\ out' = Append(out, Write("end", Top.tx))
      /\ open' = IF walker # "sequence" THEN open
                 ELSE IF Len(stack) = 1 THEN Front(open)
                 ELSE Append(Front(open), stack[Len(stack) - 1].tx)
      /\ UNCHANGED <<ts, walker, root, visited>>
  BY DEF Return
<1>2. /\ Len(stack) \in Nat \ {0} /\ DOMAIN stack = 1..Len(stack)
      /\ Top \in Frames /\ stack' \in Seq(Frames) /\ Len(stack') = Len(stack) - 1
      /\ DOMAIN stack' = 1..(Len(stack) - 1)
      /\ \A i \in 1..(Len(stack) - 1) : stack'[i] = stack[i]
  BY <1>1, TopOfStack
<1>3. Frames' = Frames
  BY <1>1 DEF Frames
<1>4. /\ out' \in Seq(Writings) /\ Len(out) \in Nat /\ DOMAIN out = 1..Len(out)
      /\ DOMAIN out' = 1..(Len(out) + 1)
      /\ \A i \in 1..Len(out) : out'[i] = out[i]
      /\ out'[Len(out) + 1].what = "end"
  <2>1. Write("end", Top.tx) \in Writings /\ Write("end", Top.tx).what = "end"
    BY <1>2 DEF Write, Writings, Frames, Types
  <2> QED BY <1>1, <2>1, AppendProperties, LenProperties DEF Types
<1>5. walker = "sequence" => open = <<Top.tx>> /\ Front(open) = <<>>
  BY <1>1 DEF StepsInOwnSection, Returned, Front
<1>6. walker = "sequence" =>
        open' = IF Len(stack) = 1 THEN <<>> ELSE <<stack[Len(stack) - 1].tx>>
  BY <1>1, <1>5
<1>7. Len(stack) # 1 => stack[Len(stack) - 1] \in Frames /\ Len(stack) - 1 \in DOMAIN stack'
  BY <1>2, ElementOfSeq DEF Types
<1>8. open' \in Seq(DOMAIN ts)
  <2>1. open \in Seq(DOMAIN ts) /\ <<>> \in Seq(DOMAIN ts)
    BY DEF Types
  <2>2. Len(stack) # 1 => <<stack[Len(stack) - 1].tx>> \in Seq(DOMAIN ts)
    BY <1>7 DEF Frames
  <2>3. walker # "sequence" => open' = open
    BY <1>1
  <2> QED BY <1>6, <2>1, <2>2, <2>3
<1>9. Types'
  <2>1. \A i \in DOMAIN stack' : stack'[i].links <= Len(ts[stack'[i].tx].links)
    <3>1. \A i \in DOMAIN stack' : i \in DOMAIN stack /\ stack'[i] = stack[i]
      BY <1>2
    <3> QED BY <3>1 DEF Types
  <2> QED BY <1>1, <1>2, <1>3, <1>4, <1>8, <2>1 DEF Types
<1>10. Once'
  <2>1. \A i \in DOMAIN out' : out'[i].what = "begin" => i \in DOMAIN out /\ out'[i] = out[i]
    BY <1>4
  <2> QED BY <1>1, <2>1 DEF Once
<1>11. StepsInOwnSection'
  <2>1. CASE Len(stack) = 1
    <3>1. stack' = <<>>
      BY <1>2, <2>1, EmptySeq
    <3> QED BY <1>1, <1>6, <2>1, <3>1 DEF StepsInOwnSection, Returned
  <2>2. CASE Len(stack) # 1
    <3>1. stack' # <<>> /\ stack'[Len(stack')] = stack[Len(stack) - 1]
      BY <1>2, <2>2
    <3> QED BY <1>1, <1>6, <2>2, <3>1 DEF StepsInOwnSection, Returned, Top, Last
  <2> QED BY <2>1, <2>2
<1> QED BY <1>9, <1>10, <1>11

LEMMA StepInv ==
  ASSUME Inv, [Next]_vars
  PROVE  Inv'
<1>1. CASE Next
  <2>1. Walk
    BY <1>1 DEF Next, RenderTxTree, HeadersView, CollectAndSortRecords,
       AddTransactionLogs, CollectAllChildren, ProcessEvents
  <2> QED BY <2>1, FollowLinkInv, SkipVisitedInv, SkipMissingInv, ReturnInv DEF Walk
<1>2. CASE UNCHANGED vars
  BY <1>2 DEF vars, Inv, Types, Once, StepsInOwnSection, Returned, Top, Frames
<1> QED BY <1>1, <1>2

-----------------------------------------------------------------------------
(* What is shown *)

\* The first n links of v have been visited, as far as their targets are present.
Followed(seen, v, n) ==
  \A j \in 1..n : ts[v].links[j] \in DOMAIN ts => ts[v].links[j] \in seen

\* What has been visited is shown and can be reached; a call has visited the targets
\* of the links behind it, and a transaction whose call has returned those of all.
Covered ==
  /\ root \in visited
  /\ \A w \in visited \cap DOMAIN ts :
       /\ \E i \in DOMAIN out : out[i] = Write("begin", w)
       /\ w \in Reachable(ts, root)
       /\ \/ \E k \in DOMAIN stack : stack[k].tx = w
          \/ Followed(visited, w, Len(ts[w].links))
  /\ \A k \in DOMAIN stack :
       /\ stack[k].tx \in visited
       /\ Followed(visited, stack[k].tx, stack[k].links)

\* A set has finitely many transactions, so that what is reachable is a closure.
LEMMA ReachableFromRoot ==
  ASSUME Types
  PROVE  /\ 0 \notin DOMAIN ts
         /\ Closure(Reachable(ts, root), DOMAIN ts, {root}, Below(ts))
<1>1. IsFiniteSet(DOMAIN ts) /\ 0 \notin DOMAIN ts
  BY VXIDsAssumption, FS_Subset DEF Types
<1> QED BY <1>1, ReachableIsClosure DEF Types

\* A link leads from what is reachable to what is.
LEMMA LinkReaches ==
  ASSUME Types, NEW v \in Reachable(ts, root), NEW j \in 1..Len(ts[v].links),
         ts[v].links[j] \in DOMAIN ts
  PROVE  ts[v].links[j] \in Reachable(ts, root)
<1>1. v \in DOMAIN ts /\ Below(ts)[v] \subseteq Reachable(ts, root)
  BY ReachableFromRoot DEF Closure
<1>2. j \in DOMAIN ts[v].links
  BY <1>1, LenProperties DEF Types
<1>3. ts[v].links[j] \in Children(ts, v)
  BY <1>2 DEF Children, Range
<1> QED BY <1>1, <1>3 DEF Below

\* Behind a link whose target has been visited, if it is present, the calls have still
\* visited what is behind them.
LEMMA AdvanceFollowed ==
  ASSUME Types, Covered, NEW v, AtLink(v), NEW seen, visited \subseteq seen,
         v \in DOMAIN ts => v \in seen
  PROVE  \A k \in DOMAIN Advance(stack) :
           /\ k \in DOMAIN stack /\ Advance(stack)[k].tx = stack[k].tx
           /\ Advance(stack)[k].tx \in seen
           /\ Followed(seen, Advance(stack)[k].tx, Advance(stack)[k].links)
<1>1. stack # <<>> /\ v = ts[Top.tx].links[Top.links + 1]
  BY DEF AtLink, LinksOf, Types, Views
<1>2. /\ Len(stack) \in Nat \ {0} /\ DOMAIN stack = 1..Len(stack)
      /\ Top = stack[Len(stack)] /\ Top \in Frames /\ Len(stack) \in 1..Len(stack)
  BY <1>1, TopOfStack
<1>3. Len(Advance(stack)) = Len(stack) /\ DOMAIN Advance(stack) = 1..Len(stack)
  BY AdvanceStack, LenProperties
<1>4. \A k \in 1..Len(stack) :
        Advance(stack)[k] = IF k = Len(stack) THEN [Top EXCEPT !.links = @ + 1] ELSE stack[k]
  BY <1>2 DEF Advance
<1> SUFFICES ASSUME NEW k \in 1..Len(stack)
             PROVE  /\ Advance(stack)[k].tx = stack[k].tx
                    /\ Advance(stack)[k].tx \in seen
                    /\ Followed(seen, Advance(stack)[k].tx, Advance(stack)[k].links)
  BY <1>2, <1>3
<1>5. stack[k].tx \in seen /\ Followed(seen, stack[k].tx, stack[k].links)
  BY <1>2 DEF Covered, Followed
<1>6. CASE k = Len(stack)
  <2>1. Advance(stack)[k].tx = Top.tx /\ Advance(stack)[k].links = Top.links + 1
    BY <1>2, <1>4, <1>6 DEF Frames
  <2>2. Followed(seen, Top.tx, Top.links)
    BY <1>2, <1>5, <1>6
  <2>3. \A j \in 1..(Top.links + 1) : j # Top.links + 1 => j \in 1..Top.links
    BY <1>2 DEF Frames
  <2>4. Followed(seen, Top.tx, Top.links + 1)
    BY <1>1, <2>2, <2>3 DEF Followed
  <2> QED BY <1>2, <1>5, <1>6, <2>1, <2>4
<1>7. CASE k # Len(stack)
  BY <1>4, <1>5, <1>7
<1> QED BY <1>6, <1>7

LEMMA InitCovered ==
  ASSUME Types, Init
  PROVE  Covered
<1>1. /\ stack = <<[tx |-> root, links |-> 0]>> /\ visited = {root}
      /\ out = <<Write("begin", root)>>
  BY DEF Init
<1>2. root \in Reachable(ts, root)
  BY ReachableFromRoot DEF Closure
<1>3. 1 \in DOMAIN out /\ out[1] = Write("begin", root)
  BY <1>1
<1>4. DOMAIN stack = {1} /\ stack[1].tx = root /\ stack[1].links = 0
  BY <1>1
<1>5. Followed(visited, root, 0)
  BY DEF Followed
<1> QED BY <1>1, <1>2, <1>3, <1>4, <1>5 DEF Covered

\* The child is one of the reachable, shown, and its call has nothing behind it.
LEMMA FollowLinkCovered ==
  ASSUME Inv, Covered, NEW v, FollowLink(v)
  PROVE  Covered'
<1> USE DEF Inv
<1>1. /\ AtLink(v) /\ v \in DOMAIN ts
      /\ stack' = Append(Advance(stack), [tx |-> v, links |-> 0])
      /\ visited' = visited \cup {v}
      /\ out' = Append(out, Write("begin", v))
      /\ UNCHANGED <<ts, root>>
  BY DEF FollowLink, Found, Types, Views
<1>2. /\ Advance(stack) \in Seq(Frames) /\ v \in VXIDs
      /\ Len(Advance(stack)) \in Nat /\ DOMAIN Advance(stack) = 1..Len(Advance(stack))
  BY <1>1, AdvanceStack, LenProperties
<1>3. /\ DOMAIN stack' = 1..(Len(Advance(stack)) + 1)
      /\ \A k \in DOMAIN Advance(stack) : stack'[k] = Advance(stack)[k]
      /\ stack'[Len(Advance(stack)) + 1] = [tx |-> v, links |-> 0]
  <2>1. [tx |-> v, links |-> 0] \in Frames
    BY <1>1 DEF Frames
  <2> QED BY <1>1, <1>2, <2>1, AppendProperties, LenProperties
<1>4. /\ \A i \in DOMAIN out : i \in DOMAIN out' /\ out'[i] = out[i]
      /\ \E i \in DOMAIN out' : out'[i] = Write("begin", v)
  <2>1. Write("begin", v) \in Writings
    BY <1>2 DEF Write, Writings
  <2>2. /\ Len(out) \in Nat /\ DOMAIN out = 1..Len(out) /\ DOMAIN out' = 1..(Len(out) + 1)
        /\ \A i \in 1..Len(out) : out'[i] = out[i]
        /\ out'[Len(out) + 1] = Write("begin", v)
    BY <1>1, <2>1, AppendProperties, LenProperties DEF Types
  <2> QED BY <2>2
<1>5. \A k \in DOMAIN Advance(stack) :
        /\ k \in DOMAIN stack /\ Advance(stack)[k].tx = stack[k].tx
        /\ Advance(stack)[k].tx \in visited'
        /\ Followed(visited', Advance(stack)[k].tx, Advance(stack)[k].links)
  <2> DEFINE seen == visited'
  <2>1. visited \subseteq seen /\ v \in seen /\ Types
    BY <1>1
  <2> HIDE DEF seen
  <2>2. \A k \in DOMAIN Advance(stack) :
          /\ k \in DOMAIN stack /\ Advance(stack)[k].tx = stack[k].tx
          /\ Advance(stack)[k].tx \in seen
          /\ Followed(seen, Advance(stack)[k].tx, Advance(stack)[k].links)
    BY <1>1, <2>1, AdvanceFollowed
  <2> QED BY <2>2 DEF seen
<1>6. v \in Reachable(ts, root)
  <2>1. /\ stack # <<>> /\ Top.links < Len(ts[Top.tx].links)
        /\ v = ts[Top.tx].links[Top.links + 1]
    BY <1>1 DEF AtLink, LinksOf, Types, Views
  <2>2. Top = stack[Len(stack)] /\ Top \in Frames /\ Len(stack) \in DOMAIN stack
    BY <2>1, TopOfStack
  <2>3. Top.tx \in Reachable(ts, root)
    BY <2>2 DEF Covered, Frames
  <2>4. Top.links + 1 \in 1..Len(ts[Top.tx].links)
    <3>1. Len(ts[Top.tx].links) \in Nat /\ Top.links \in Nat
      BY <2>2, LenProperties DEF Types, Frames
    <3> QED BY <2>1, <3>1
  <2> QED BY <1>1, <2>1, <2>3, <2>4, LinkReaches
<1>7. ASSUME NEW k \in DOMAIN stack'
      PROVE  stack'[k].tx \in visited' /\ Followed(visited', stack'[k].tx, stack'[k].links)
  <2>1. CASE k = Len(Advance(stack)) + 1
    <3>1. stack'[k].tx = v /\ stack'[k].links = 0
      BY <1>3, <2>1
    <3>2. Followed(visited', v, 0)
      BY DEF Followed
    <3> QED BY <1>1, <3>1, <3>2
  <2>2. CASE k # Len(Advance(stack)) + 1
    <3>1. k \in DOMAIN Advance(stack)
      BY <1>2, <1>3, <2>2
    <3> QED BY <1>3, <1>5, <3>1
  <2> QED BY <2>1, <2>2
<1>8. ASSUME NEW w \in visited' \cap DOMAIN ts
      PROVE  /\ \E i \in DOMAIN out' : out'[i] = Write("begin", w)
             /\ w \in Reachable(ts, root)
             /\ \/ \E k \in DOMAIN stack' : stack'[k].tx = w
                \/ Followed(visited', w, Len(ts[w].links))
  <2>1. CASE w = v
    <3>1. Len(Advance(stack)) + 1 \in DOMAIN stack'
      BY <1>2, <1>3
    <3> QED BY <1>3, <1>4, <1>6, <2>1, <3>1
  <2>2. CASE w \in visited
    <3>1. ASSUME NEW k \in DOMAIN stack, stack[k].tx = w
          PROVE  \E j \in DOMAIN stack' : stack'[j].tx = w
      <4>1. Len(Advance(stack)) = Len(stack) /\ DOMAIN stack = 1..Len(stack)
        BY <1>1, AdvanceStack, LenProperties DEF Types
      <4>2. k \in DOMAIN Advance(stack) /\ k \in DOMAIN stack'
        BY <1>2, <1>3, <4>1
      <4> QED BY <1>3, <1>5, <3>1, <4>2
    <3>2. Followed(visited, w, Len(ts[w].links)) => Followed(visited', w, Len(ts[w].links))
      BY <1>1 DEF Followed
    <3> QED BY <1>4, <2>2, <3>1, <3>2 DEF Covered
  <2> QED BY <1>1, <2>1, <2>2
<1>9. root \in visited'
  BY <1>1 DEF Covered
<1>10. (\A k \in DOMAIN stack : /\ stack[k].tx \in visited
                              /\ Followed(visited, stack[k].tx, stack[k].links))'
  BY <1>1, <1>7 DEF Followed
<1>11. (\A w \in visited \cap DOMAIN ts :
          /\ \E i \in DOMAIN out : out[i] = Write("begin", w)
          /\ w \in Reachable(ts, root)
          /\ \/ \E k \in DOMAIN stack : stack[k].tx = w
             \/ Followed(visited, w, Len(ts[w].links)))'
  BY <1>1, <1>8 DEF Followed, Write
<1> HIDE DEF Inv
<1> QED BY <1>1, <1>9, <1>10, <1>11 DEF Covered

\* The link is left behind: its target has been visited, or is missing.
LEMMA StayCovered ==
  ASSUME Inv, Covered, NEW v, AtLink(v), v \in DOMAIN ts => v \in visited,
         stack' = Advance(stack), UNCHANGED <<ts, root>>,
         visited \subseteq visited', visited' \subseteq visited \cup {0},
         DOMAIN out \subseteq DOMAIN out',
         \A i \in DOMAIN out : out'[i] = out[i]
  PROVE  Covered'
<1> USE DEF Inv
<1>1. \A k \in DOMAIN stack' :
        /\ stack'[k].tx = stack[k].tx
        /\ stack'[k].tx \in visited' /\ Followed(visited', stack'[k].tx, stack'[k].links)
  BY AdvanceFollowed
<1>2. DOMAIN stack' = DOMAIN stack
  BY AdvanceStack, LenProperties DEF Types
<1>3. visited' \cap DOMAIN ts = visited \cap DOMAIN ts
  BY ReachableFromRoot
<1>4. ASSUME NEW w \in visited' \cap DOMAIN ts
      PROVE  /\ \E i \in DOMAIN out' : out'[i] = Write("begin", w)
             /\ w \in Reachable(ts, root)
             /\ \/ \E k \in DOMAIN stack' : stack'[k].tx = w
                \/ Followed(visited', w, Len(ts[w].links))
  <2>1. \E i \in DOMAIN out' : out'[i] = Write("begin", w)
    BY <1>3 DEF Covered
  <2>2. Followed(visited, w, Len(ts[w].links)) => Followed(visited', w, Len(ts[w].links))
    BY DEF Followed
  <2>3. /\ w \in Reachable(ts, root)
        /\ \/ \E k \in DOMAIN stack : stack[k].tx = w
           \/ Followed(visited, w, Len(ts[w].links))
    BY <1>3 DEF Covered
  <2>4. \A k \in DOMAIN stack : stack[k].tx = w => k \in DOMAIN stack' /\ stack'[k].tx = w
    BY <1>1, <1>2
  <2> QED BY <2>1, <2>2, <2>3, <2>4
<1>5. root \in visited'
  BY DEF Covered
<1> QED BY <1>1, <1>4, <1>5 DEF Covered, Followed, Write

\* The transaction of the call that returns has all its links behind it.
LEMMA ReturnCovered ==
  ASSUME Inv, Covered, Return
  PROVE  Covered'
<1> USE DEF Inv
<1>1. /\ stack # <<>> /\ stack' = Front(stack) /\ out' = Append(out, Write("end", Top.tx))
      /\ Top.links = Len(ts[Top.tx].links)
      /\ UNCHANGED <<ts, root, visited>>
  BY DEF Return, LinksOf, Types, Views
<1>2. /\ Len(stack) \in Nat \ {0} /\ DOMAIN stack = 1..Len(stack)
      /\ Top = stack[Len(stack)] /\ Top \in Frames
      /\ DOMAIN stack' = 1..(Len(stack) - 1)
      /\ \A k \in 1..(Len(stack) - 1) : stack'[k] = stack[k]
  BY <1>1, TopOfStack
<1>3. \A i \in DOMAIN out : i \in DOMAIN out' /\ out'[i] = out[i]
  <2>1. Write("end", Top.tx) \in Writings
    BY <1>2 DEF Write, Writings, Frames, Types
  <2>2. /\ Len(out) \in Nat /\ DOMAIN out = 1..Len(out) /\ DOMAIN out' = 1..(Len(out) + 1)
        /\ \A i \in 1..Len(out) : out'[i] = out[i]
    BY <1>1, <2>1, AppendProperties, LenProperties DEF Types
  <2> QED BY <2>2
<1>4. Followed(visited, Top.tx, Len(ts[Top.tx].links))
  BY <1>1, <1>2 DEF Covered
<1>5. ASSUME NEW w \in visited \cap DOMAIN ts
      PROVE  /\ \E i \in DOMAIN out' : out'[i] = Write("begin", w)
             /\ w \in Reachable(ts, root)
             /\ \/ \E k \in DOMAIN stack' : stack'[k].tx = w
                \/ Followed(visited, w, Len(ts[w].links))
  <2>1. /\ \E i \in DOMAIN out : out[i] = Write("begin", w)
        /\ w \in Reachable(ts, root)
        /\ \/ \E k \in DOMAIN stack : stack[k].tx = w
           \/ Followed(visited, w, Len(ts[w].links))
    BY DEF Covered
  <2>2. ASSUME NEW k \in DOMAIN stack, stack[k].tx = w, w # Top.tx
        PROVE  k \in DOMAIN stack' /\ stack'[k].tx = w
    <3>1. k # Len(stack)
      BY <1>2, <2>2
    <3> QED BY <1>2, <2>2, <3>1
  <2> QED BY <1>3, <1>4, <2>1, <2>2
<1>6. \A k \in DOMAIN stack' :
        stack'[k].tx \in visited /\ Followed(visited, stack'[k].tx, stack'[k].links)
  <2>1. \A k \in DOMAIN stack' : k \in DOMAIN stack /\ stack'[k] = stack[k]
    BY <1>2
  <2> QED BY <2>1 DEF Covered
<1>7. root \in visited
  BY DEF Covered
<1> QED BY <1>1, <1>5, <1>6, <1>7 DEF Covered, Followed, Write

LEMMA StepCovered ==
  ASSUME Inv, Covered, [Next]_vars
  PROVE  Covered'
<1>1. ASSUME NEW v, SkipVisited(v)
      PROVE  Covered'
  <2>1. /\ AtLink(v) /\ v \in visited /\ stack' = Advance(stack)
        /\ UNCHANGED <<ts, root, visited, out>>
    BY <1>1 DEF SkipVisited, Inv, Types, Views
  <2> QED BY <2>1, StayCovered
<1>2. ASSUME NEW v, SkipMissing(v)
      PROVE  Covered'
  <2>1. /\ AtLink(v) /\ v \notin DOMAIN ts /\ stack' = Advance(stack)
        /\ UNCHANGED <<ts, root>>
        /\ visited \subseteq visited' /\ visited' \subseteq visited \cup {0}
    BY <1>2 DEF SkipMissing, Found
  <2>2. v \in VXIDs
    BY <2>1, AdvanceStack DEF Inv
  <2>3. DOMAIN out \subseteq DOMAIN out' /\ \A i \in DOMAIN out : out'[i] = out[i]
    BY <1>2, <2>2, SkipMissingWrites DEF Inv
  <2> QED BY <2>1, <2>3, StayCovered
<1>3. CASE Next
  <2>1. Walk
    BY <1>3 DEF Next, RenderTxTree, HeadersView, CollectAndSortRecords,
       AddTransactionLogs, CollectAllChildren, ProcessEvents
  <2> QED BY <1>1, <1>2, <2>1, FollowLinkCovered, ReturnCovered DEF Walk
<1>4. CASE UNCHANGED vars
  BY <1>4 DEF vars, Covered, Followed, Write
<1> QED BY <1>3, <1>4

\* Once all calls have returned, what has been visited is closed under the links, so
\* that it is all that can be reached.
LEMMA AllShown ==
  ASSUME Inv, Covered
  PROVE  ShowsAllReachable
<1> SUFFICES ASSUME Returned
             PROVE  {v \in DOMAIN ts : Write("begin", v) \in Range(out)} = Reachable(ts, root)
  BY DEF ShowsAllReachable
<1> DEFINE seen == visited \cap DOMAIN ts
<1>1. Types /\ Once
  BY DEF Inv
<1>2. ASSUME NEW w \in seen
      PROVE  Below(ts)[w] \subseteq seen
  <2>1. Followed(visited, w, Len(ts[w].links))
    BY <1>2 DEF Covered, Returned
  <2>2. ts[w].links \in Seq(VXIDs) /\ DOMAIN ts[w].links = 1..Len(ts[w].links)
    BY <1>1, LenProperties DEF Types
  <2>3. \A c \in Children(ts, w) : \E j \in DOMAIN ts[w].links : c = ts[w].links[j]
    BY DEF Children, Range
  <2>4. Below(ts)[w] = Children(ts, w) \cap DOMAIN ts
    BY DEF Below
  <2> QED BY <2>1, <2>2, <2>3, <2>4 DEF Followed
<1>3. Reachable(ts, root) \subseteq seen
  <2>1. {root} \subseteq seen
    BY <1>1 DEF Covered, Types
  <2> QED BY <1>1, <1>2, <2>1, ReachableFromRoot DEF Closure
<1>4. seen \subseteq Reachable(ts, root)
  BY DEF Covered
<1>5. \A v \in seen : Write("begin", v) \in Range(out)
  BY DEF Covered, Range
<1>6. ASSUME NEW v \in DOMAIN ts, Write("begin", v) \in Range(out)
      PROVE  v \in seen
  <2>1. PICK i \in DOMAIN out : out[i] = Write("begin", v)
    BY <1>6 DEF Range
  <2> QED BY <1>1, <2>1 DEF Once, Write
<1> QED BY <1>3, <1>4, <1>5, <1>6

-----------------------------------------------------------------------------
LEMMA Invariance ==
  ASSUME Walkers \subseteq Views
  PROVE  Spec => []Inv
<1>1. Init => Inv
  BY InitInv
<1>2. Inv /\ [Next]_vars => Inv'
  BY StepInv
<1> QED BY <1>1, <1>2, PTL DEF Spec

\* The stack, the visited map and the output of a walk keep their types on a set of
\* any size (the recursion of vcltree.go, headers.go, timeline.go and sequence.go).
THEOREM WalkTypeCorrect ==
  ASSUME Walkers \subseteq Views
  PROVE  Spec => []TypeOK
<1>1. Inv => TypeOK
  <2> SUFFICES ASSUME Inv PROVE TypeOK
    OBVIOUS
  <2>1. ASSUME NEW i \in DOMAIN stack
        PROVE  /\ stack[i].tx \in DOMAIN ts
               /\ stack[i].links \in 0..Len(LinksOf(stack[i].tx))
    <3>1. stack[i] \in Frames /\ stack[i].links <= Len(ts[stack[i].tx].links)
      BY LenProperties, ElementOfSeq DEF Inv, Types
    <3>2. Len(ts[stack[i].tx].links) \in Nat
      BY <3>1, LenProperties DEF Frames, Inv, Types
    <3> QED BY <3>1, <3>2 DEF Frames, LinksOf, Inv, Types, Views
  <2>2. \A i \in DOMAIN out : out[i].tx \in VXIDs
    <3>1. out \in Seq(Writings)
      BY DEF Inv, Types
    <3>2. \A i \in DOMAIN out : out[i] \in Writings
      BY <3>1, LenProperties, ElementOfSeq
    <3> QED BY <3>2 DEF Writings
  <2>3. \A i \in DOMAIN open : open[i] \in DOMAIN ts
    <3>1. open \in Seq(DOMAIN ts)
      BY DEF Inv, Types
    <3> QED BY <3>1, LenProperties, ElementOfSeq
  <2> QED BY <2>1, <2>2, <2>3 DEF TypeOK, Inv, Types
<1> QED BY <1>1, Invariance, PTL

\* No loop, no shared child and no repeated link makes a view show a transaction twice,
\* whatever the size of the set (the loop checks of the four recursive functions).
THEOREM ShownOnceCorrect ==
  ASSUME Walkers \subseteq Views
  PROVE  Spec => []ShownOnce
<1>1. Inv => ShownOnce
  BY DEF Inv, Once, ShownOnce
<1> QED BY <1>1, Invariance, PTL

\* However deep the recursion, the sequence diagram has one section open, that of the
\* transaction it is at, and none when it returns (sequence.go 130-135, 327-335).
THEOREM StepsInOwnSectionCorrect ==
  ASSUME Walkers \subseteq Views
  PROVE  Spec => []StepsInOwnSection
<1>1. Inv => StepsInOwnSection
  BY DEF Inv
<1> QED BY <1>1, Invariance, PTL

\* A view that returns has shown all that the links lead to from its root, and nothing
\* else: no loop, no missing target and no transaction that another branch has shown
\* makes it leave one out (vcltree.go 24-30, headers.go 23-29, timeline.go 144-150,
\* sequence.go 93-99).
THEOREM ShowsAllReachableCorrect ==
  ASSUME Walkers \subseteq Views
  PROVE  Spec => []ShowsAllReachable
<1>1. Init => Inv /\ Covered
  BY InitInv, InitCovered DEF Inv
<1>2. Inv /\ Covered /\ [Next]_vars => (Inv /\ Covered)'
  BY StepInv, StepCovered
<1>3. Inv /\ Covered => ShowsAllReachable
  BY AllShown
<1> QED BY <1>1, <1>2, <1>3, PTL DEF Spec
=============================================================================
