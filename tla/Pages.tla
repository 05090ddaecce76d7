-------------------------------- MODULE Pages --------------------------------
(***************************************************************************)
(* The handlers of internal/server/html: each one parses the log it is     *)
(* sent and renders views of the set, and none of them keeps anything.     *)
(* The views do not touch each other, so a behaviour is that of one view:  *)
(* the list of groups, the timeline, the latency summary, or the request   *)
(* that is built for one transaction (ReqBuild).                           *)
(***************************************************************************)
EXTENDS TxSet

CONSTANTS
  GroupedSets,    \* what the groups are made of
  DrawnSets,      \* what the timeline is drawn of
  TimedSets,      \* what the latency summary is made of
  Forms,          \* what the request builder is asked for
  Transactions    \* for which transaction

\* A parsed log is a set of transactions under their VXIDs.
ASSUME SetsAssumption == \A s \in GroupedSets : DOMAIN s \subseteq VXIDs

\* The Timestamp records of a log, and the links.
ASSUME TimesAssumption ==
  \A s \in TimedSets : \A v \in DOMAIN s :
    /\ v \in VXIDs /\ s[v].links \in Seq(VXIDs)
    /\ s[v].timestamps \in Seq([label : STRING, sinceLast : Nat])

VARIABLES
  view,                                              \* the view that is rendered
  ts,                                                \* the parsed set
  includeSession, pending, uniqueParents, groups,    \* TxGroups
  events, rows, currentIndex, txRows, lastTx,        \* Timeline
  roots, stamps, tsEvents,                           \* LatencySummary
  form, tx, pc, backend, request, text               \* RequestBuilder

groupVars == <<includeSession, pending, uniqueParents, groups>>
drawVars  == <<events, rows, currentIndex, txRows, lastTx>>
timeVars  == <<roots, stamps, tsEvents>>
buildVars == <<form, tx, pc, backend, request, text>>
vars == <<view, ts, groupVars, drawVars, timeVars, buildVars>>

G == INSTANCE TxGroups WITH TransactionSets <- GroupedSets
T == INSTANCE Timeline WITH TransactionSets <- DrawnSets
L == INSTANCE LatencySummary WITH TransactionSets <- TimedSets, events <- stamps
B == INSTANCE RequestBuilder

\* What the timeline is drawn of are logs as varnishd writes them.
ASSUME DrawnAssumption == \A s \in DrawnSets : T!LoggedInOrder(s)

\* The form and the log name hosts and ports in the forms HostPort tells apart; the
\* address of a BackendOpen record has no brackets.
ASSUME TextsAssumption ==
  /\ \A f \in Forms : f.custom \in B!Texts /\ f.address \in B!Texts
  /\ \A t \in Transactions :
       t.host \in B!Texts /\ t.conn \in B!Texts /\ t.conn.brackets = 0

\* The variables of the views that are not rendered.
NoGroups == includeSession = FALSE /\ pending = <<>> /\ uniqueParents = {} /\ groups = <<>>
NoRows   == events = <<>> /\ rows = <<>> /\ currentIndex = -1 /\ txRows = <<>> /\ lastTx = 0
NoTimes  == roots = <<>> /\ stamps = <<>> /\ tsEvents = <<>>
NoBuild  == /\ form = <<>> /\ tx = <<>> /\ pc = "none" /\ backend = B!NoText
            /\ request = <<>> /\ text = <<>>

Init ==
  \/ view = "groups"   /\ G!Init /\ NoRows /\ NoTimes /\ NoBuild
  \/ view = "timeline" /\ T!Init /\ NoGroups /\ NoTimes /\ NoBuild
  \/ view = "latency"  /\ L!Init /\ NoGroups /\ NoRows /\ NoBuild
  \/ view = "request"  /\ ts = <<>> /\ B!Init /\ NoGroups /\ NoRows /\ NoTimes

RenderGroups   == view = "groups"   /\ G!Next /\ UNCHANGED <<view, drawVars, timeVars, buildVars>>
RenderTimeline == view = "timeline" /\ T!Next /\ UNCHANGED <<view, groupVars, timeVars, buildVars>>
RenderLatency  == view = "latency"  /\ L!Next /\ UNCHANGED <<view, groupVars, drawVars, buildVars>>
ReqBuild       == view = "request"  /\ B!Next /\ UNCHANGED <<view, ts, groupVars, drawVars, timeVars>>

Next == RenderGroups \/ RenderTimeline \/ RenderLatency \/ ReqBuild

Spec == Init /\ [][Next]_vars

-----------------------------------------------------------------------------
(* What each view promises, as it is stated and explained in its module.   *)

\* Type invariant of the groups (TxGroups).
TypeOK == view = "groups" => G!TypeOK

\* Every transaction is in the group of some root (TxGroups).
EveryTransactionGrouped == view = "groups" => G!EveryTransactionGrouped

\* No transaction is in two groups (TxGroups).
GroupsDisjoint == view = "groups" => G!GroupsDisjoint

\* The roots have no parent but a session that is left out (TxGroups).
RootsHaveNoParent == view = "groups" => G!RootsHaveNoParent

\* The timestamps of a transaction are on the row below its own (Timeline).
TimestampsBelowTransaction == view = "timeline" => T!TimestampsBelowTransaction

\* A session shares its row with nothing (Timeline).
SessionRowIsItsOwn == view = "timeline" => T!SessionRowIsItsOwn

\* Every timestamp is counted once, under its own name (LatencySummary).
CountedOnce == view = "latency" => L!CountedOnce

\* Minimum, average, percentiles and maximum agree (LatencySummary).
PercentilesConsistent == view = "latency" => L!PercentilesConsistent

\* The URL of the request is the one the client asked for (RequestBuilder).
AuthorityIsHost == view = "request" => B!AuthorityIsHost

\* The command connects to the backend that was asked for (RequestBuilder).
ConnectsWhereAsked == view = "request" => B!ConnectsWhereAsked
=============================================================================
