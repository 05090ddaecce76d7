# A TLA+ verification project for varnishlog-parser

varnishlog-parser reads the text `varnishlog` prints, rebuilds the transactions
in it (sessions, client requests, backend requests) with the headers each of
them received and ended up with, and shows them on a page: a log tree, header
tables, a timeline, a sequence diagram, latency figures, a request builder and a
history of the logs that were parsed.

This directory holds TLA+ models of the parts with state or control worth
checking, TLC configurations, and theorems checked by TLAPS. `PROJECT.json`
lists components, runs, mutants, theorems and hazards, and the source lines each
definition stands for. All paths below are relative to `src/`.

    tlc -config MCParserHeaders.cfg MCParserHeaders.tla      # one run
    tlapm ParserProofs.tla                                   # the proofs of one module

## The system

| Part | Code | State | Operations | What makes it correct |
|---|---|---|---|---|
| Transaction parser | `vsl/parser.go` | the scanner, the transaction being read, `clientHeaders`, `lastHeaderRecord`, `tempHeaders`, the set | one line of the log at a time | only whole transactions are stored; links and children agree; headers are reconstructed as Varnish has them |
| Header map | `vsl/header.go` | name → id, values with a state, received values | Add, Delete, Get, Values, Clear, GetSortedHeaders | deleted values first, at most one Modified, ids 1..n, received values immutable |
| Record constructors | `vsl/records.go`, `processRecord` of `vsl/parser.go` | none | text → record | no field is read that is not there; what varnishd prints is understood, and kept field by field |
| Transaction set | `vsl/transaction.go`, `vsl/transaction_utils.go` | VXID → transaction | GetTX, GetChildTX, SortedChildren, RootParent, UniqueRootParents, GroupRelatedTransactions, RawLogForTx | every transaction in a group, groups disjoint, no loop without end |
| Views | `render/vcltree.go`, `headers.go`, `timeline.go`, `sequence.go`, `vsl/summary/latency.go` | visited set, output, rows, counters | recursive walks over Link records; rows of the timeline, steps of the diagram, percentiles | everything reachable shown, once; the walk returns; what is shown of a record is what happened at that moment |
| Request builder | `render/httpmodel.go`, `render/helpers.go`, `internal/server/html/helpers.go` | none | form and transaction → backend, request → curl or hurl text | the request is the one Varnish received or sent, and goes where the user asked |
| Pages and server | `internal/server/`, `cmd/` | none kept between requests | parse, render | each request parses its own log |
| History | `assets/static/history.js` | IndexedDB store, table | add, rename, delete, load, render | no stale table, no lost name |

Interaction: the server hands the text of a form to `Parse`; the set it returns
is read by every view and never changed afterwards. Views find the
transactions only through `GetTX`, `GetChildTX`, `SortedChildren` and
`UniqueRootParents`. The page that comes back runs `history.js`, which saves the
text in a database that all open pages share.

What is hard here: the order of header records (the parser infers from it who
changed a header and when), logs that are cut off, malformed, or joined from
several runs, links that form loops or lead nowhere, two relations between
transactions (parents of Begin records, children of Link records) that need not
agree, and, in the browser, asynchronous database operations of several pages,
page reloads in the middle of them and failing writes. The Go program itself has
no concurrency beyond one goroutine for each HTTP request, without shared state.

## Modules

    Headers  <-  TransactionParser  <-  MergeLoop       <-  MCParserHeaders
                                    <-  ParseRoundTrip  <-  MCParseRoundTrip
                                    <-  MCParserFraming
    ParsedLog                  TransactionParser implements it
    Records  <-  VarnishLines  <-  MCRecords

    TxSet    <-  LinkWalk  <-  MCLinkWalk
             <-  TxGroups, Timeline, LatencySummary      HostPort  <-  RequestBuilder
                              |                                             |
                              +---->  Pages  <-  MCPages  <-----------------+
    SequenceView  <-  SequenceRoundTrip  <-  MCSequence

    History  <-  MCHistory
    LogStore                   History implements it

The proofs (TLAPS) are in modules of their own:

    MergeLoop, ParseRoundTrip  <-  ParserProofs  ->  SetInduction
    Records, VarnishLines      <-  RecordsProofs
    SequenceRoundTrip          <-  SequenceProofs  ->  SetInduction
    LinkWalk                   <-  LinkWalkProofs  ->  TxSetProofs  ->  SetInduction
    Pages                      <-  PagesProofs     ->  TxSetProofs
    History                    <-  HistoryProofs

### Reading a log

**Headers** (`vsl/header.go`). A Go map is a function on all canonical names in
which an absent name has id 0. `Add`, `Delete`, `Get` return the new map.
`CanonicalHeaderName` is a constant function from spellings to names, so two
spellings of one name are really two log lines about one header. Received values
always carry the state Received, so only their text is kept.

**TransactionParser** (`vsl/parser.go`). `Parse` is two nested loops over lines;
every action is what the code does with one line: `SkipOuter`,
`StartTransaction`, `BadTransaction` in the outer loop, `ReadBegin` or
`MissingBegin` on the line after it, and one action for each case of the switch
of the inner loop, with the append to `Records` before it and the test for End
after it. `EndOfInput` and `ScanError` are the two ways `Scan` returns false. A
line is a record of its tag and of the fields the parser uses; "malformed" stands
for a known tag whose constructor fails, "short" for fewer than two fields,
"badstart" for a header `NewTransaction` rejects, "other" for every record the
parser only stores. A log is any sequence of lines, so truncation, repeated VXIDs and
records in an order Varnish would not write are all included.
`MergeTempHeaders` is a closed form of the merge loop, which keeps it fit
for proofs; **MergeLoop** has the loop itself, as recursive functions over the headers
sorted by id and over the values of each, and `MergeIsTheLoop` states that they agree.

**ParsedLog** is what the callers of `Parse` rely on, without lines: whole
transactions are put into the set one after the other, nothing in it is touched
afterwards but by another transaction of the same VXID, and success never comes in the
middle of a transaction. TransactionParser implements it (`ImplementsParsedLog`): the
set is the set, `reading` is the VXID while `pc` is inside a transaction.

**ParseRoundTrip** composes the parser with the program whose log it reads. A
Varnish worker receives headers, changes some in its own code, calls VCL, changes
more, receives a status and response headers, and so on. Each of its steps
changes its headers and logs the lines for it, and the parser reads each line at
once (a joint action: `Log(l) == ReadLine(l)`). The worker is external: it is
modelled from what the comments of `parser.go` (139-168, 353-368) and the logs in
`assets/examples` show. `NewHTTPRequest` (`render/httpmodel.go`) is an operator on
the headers parsed so far. `sent`, `live`, `origin` and `replaced` are the ground truth
the parser's result is compared with.

**Records** (`vsl/records.go`, and the dispatch in `parser.go`) is the call of
`processRecord` with one line. A constructor is the sequence of conversions it makes, in the order of
the code: which field it reads, which function converts it, where the result goes.
The actions run that sequence: `Convert`, `Fail` (the conversion returns an error),
`ReadPastEnd` (the index is out of range, a panic in Go), `Return`. A field is not a text but the
class of texts its conversions tell apart: an integer below 2^32 or above, a fraction, an
address, a word with a colon. **VarnishLines** is the other side: what varnishd prints for each
tag, taken from vsl(7) as `vsl/tags` names it and from the example logs, and not
from the constructors; it is external.

### Showing it

**TxSet** has the lookups of a transaction set on the two relations, parents of
Begin records and children of Link records. **LinkWalk**
is the recursion of the views as an explicit stack of calls; `walker` says which
of the six walks it is, and the differences between them (what they do on a
missing child, where they look at `visited`, whether they have it at all) are in the
actions. Records between two links do not change the walk and are left out. The sequence diagram's
open sections are a sequence, as the drawing library keeps them. **TxGroups** is
`UniqueRootParents` and then one group for each root.

**Timeline** (`render/timeline.go`) takes the Begin and Timestamp records below a root,
in the order of their start time (the sorts of all recursive calls are one stable sort; `NextEvent` is the
least event that is left), and puts them on rows one at a time: `DrawBegin` moves
`currentIndex` as the code does (to the next row, back to a row that has
ended, or to the top for another request of a session) and `DrawTimestamp` keeps
the row of a transaction in `txRows`. The drawing library is external: rows are
numbered from 0 in the order AddRow made them. **LatencySummary**
(`vsl/summary/latency.go`) has the counters: one step for each timestamp of the walk
from each root; a counter is sorted whenever a value is added, as in the code. Both take the walk itself from its result on links that form a
forest; how the walk behaves on others is LinkWalk's matter.

**SequenceView** (`render/sequence.go`) is the loop over the records of one
transaction, one action for each case of its switch, with the searches forwards and
backwards (`LastRecordByTag`, `NextRecordByTag`) each case starts from the record it is
at. A step is its kind and what it shows. Before the loop `StartDrawing` makes both requests, the received one and the one
VCL left, with `NewHTTPRequest`. That fails when the Host header it gets has a colon and `ParseBackend`
rejects it (`BadHosts`, a constant; RequestBuilder tells which they are), and then an empty request takes its place.
**SequenceRoundTrip** composes it with
a worker: a client request or a backend request goes through its VCL subroutines, with
rewrites of the URL and of the Host header, hits, hits for a miss or a pass, fetches, synthetic answers, status and reason changes in VCL,
restarts, retries, errors and pipes, and logs it; when the log is complete the diagram
is drawn of it. `truth` is what happened. The worker is external.

**HostPort** has the texts `<host>:<port>` and what Go's package net does with them
(external). **RequestBuilder** is `processReqBuildForm`, `ParseBackend`, `NewHTTPRequest` and the
writing of the curl or hurl command, one step each, with the branches in which each of
them fails. **Pages** composes TxGroups, Timeline, LatencySummary and
RequestBuilder: a request to the server parses its log and renders views of the set that do not touch
each other, so a behaviour is that of one view.

### The browser

**History** (`history.js`). Each operation is split where the code awaits. `queue`
is the database: its transactions on the one object store run one at a time in
the order in which they were created. A request of the queue runs together with
the callback after it. `LoadPage` replaces a page: of the writes it has queued
any number may still run, but nothing goes on after them.

**LogStore** is the history without its database: a log is saved once, a name is
changed, an entry is deleted, and (this the code cannot exclude) a rename that was overtaken by
a delete brings back the entry it had read. History implements it (`ImplementsLogStore`) for
any interleaving of pages, reloads and failing writes.

## Runs

| Run | States | What it asks |
|---|---|---|
| parser_framing | 384,000 | whole transactions only, also on failure, in every log of 8 lines; ParsedLog is implemented |
| parser_headers | 617,000 | header maps, received values and the merge in every order of 7 lines |
| round_trip | 511,000 | are the reconstructed headers, and the request built from them, those Varnish has and received |
| records | 122,000 | every constructor on the lines varnishd writes and on lines it does not |
| link_walk | 244,000 | the six walks on every small set |
| pages | 455,000 | groups, timeline, latency summary and built request, of every small set and every form |
| sequence | 2,829,000 | is what the diagram shows what the worker did |
| history | 286,000 | two pages, two logs, four user actions; LogStore is implemented |
| received_was_sent, repeated_header, second_answer, summary_loop | | one counterexample each, see Findings |

Bounds, and why they are enough:

- `MaxLines = 8` (framing): two whole transactions with three lines each, or one with five
  records and a rest; a repeated VXID that replaces a stored transaction needs six.
  Two VXIDs give a link to itself, to another and a repeated one.
- `MaxLines = 7` (headers): two lines open the transaction, five records follow.
  Every rule about a header depends on at most received, changed, unset, VCL call
  and status, which is five. A tracked header in two spellings, an ordinary one, Host
  (which is always alone) and the empty value (which counts as absent in
  `addProcessedHeaders`) are the kinds the code tells apart; response records
  and request records exercise both maps.
- `MaxLines = 9` (round trip): start, Begin, then seven lines: a header received,
  removed and set by Varnish, a VCL call, a change in VCL, a status or a further call.
  The client does not repeat a header of Varnish's own list and VCL does not set the
  status in the passing run; the two violation runs lift one restriction each.
- records: the constructors have no state, so a behaviour is one call. Each format of
  each tag, cut at every field or lengthened by one or two, with every single field replaced by every other
  class, and all lines of up to two fields. A constructor decides by the number of fields and by
  one field at a time, so replacing two at once reaches no further branch.
- three transactions with two links each (walks): a loop of every length up to
  three, a diamond, a repeated link, a link to itself, a missing child twice. The
  summary, which has no visited set, is only started on forests in the passing run.
- pages. Groups: four transactions and `MaxDepth = 2`: chains deeper than the limit, loops,
  missing parents, sessions anywhere; the code's limit is 100. Timeline: three
  transactions, times 1 to 3: a session with two requests, a request with
  two backend requests, a chain; before, after and overlapping in any order.
  Latency: three transactions with up to two timestamps that count, hence counters of up
  to six values, a time that occurs more than once, and a zero. Request: every
  shape of Host header and of backend address (name, IPv4, IPv6 with and without
  brackets, no port, an empty one, a number, a word) with every choice of the form.
- sequence: two URLs with a name as Host and one of them with an IPv6 address without a port, which `ParseBackend`
  rejects; VCL may go from each to each. Two answers (200, 503) and 206, every option of the form on or off
  together. One lookup, one pass or fetch and one delivery or synthetic answer are all the
  searches can confuse; a restart or a retry ends the transaction in the log, as in the examples.
- two pages, two hashes, `MaxOps = 4` (history): two pages on one entry need an
  operation each, one to create it and one more to disturb. `created` is
  the number of user actions so far.

Deadlock checking is off where the system really stops: a parser that has
returned or whose input has no further line within the bound, a walk, a constructor or a
view that has returned, a user who does nothing more.

Fairness: `LinkWalk` assumes that the one goroutine of a walk goes on (`WF_vars(Next)`);
it is a sequential program. `History` assumes that the browser runs queued
transactions, digests and timers in the end, one weak fairness condition for each; the
user is not assumed to do anything. The properties of the other modules are about
safety only: each of their behaviours is a loop over a finite input.

Properties worth a word:

- `EffectiveHeaders`, `ReceivedAreSent`, `StatesTellOrigin`: the reason for the parser's
  two maps. They relate the parser's headers to those of the worker at every point between two of
  its changes, not only at the end.
- `StoredOnlyByEnd` is about every entry of the set after a step, a new one and a replaced one alike: it is
  the one that was there, or the transaction that is read, whole, with the End record of this step as its last.
- `ReceivedAsLogged` gives the received values of a name directly from the record
  list, without the parser's flags: `ReceivedRecords` are the header records of the client's
  phases, the i-th of them holds the i-th received value, and there are no others.
- `AllHeadersWellFormed` is what the renderers rely on in all three maps: a header has values
  exactly when it is present, the deleted ones first, at most one Modified and that the first live one;
  the ids are 1..n.
- `IndexesInRange` has one exception, which is in the code: a Hit record with three
  fields passes the length check, and the fourth is read (`records.go:790`). varnishd does not write such a line.
- `RecordHasNoHoles` and `VarnishLinesAreKept` bound the constructors from two sides: a record
  that is made has read the first fields, each for one name; and a line varnishd writes
  does make a record, with every field in it. A field read at the wrong index is the same Go type and passes every
  test that does not look at that field. Two names that are swapped, each filled from the field of the other, pass both
  properties. `VarnishLinesAreKept` leaves out VXIDs from 2^32 on and URLs that do not parse: both are
  rejected, in the code and in the model.
- `ShownOnce` and `ShowsAllReachable` together: the loop check neither lets a
  transaction through twice nor cuts one off. `collectAllChildren` adds a child before it
  looks, so a group may hold one twice where links are not a forest; `ShownOnce` leaves that case out. It does
  not see either that a second missing child has no box: it is about the transactions in the set.
- `GroupsDisjoint` needs that Link records mirror Begin records, that sessions are
  on top and that chains are not deeper than the limit: these are the conditions under which
  "grouped by their parent tx" means anything. `EveryTransactionGrouped` needs only the
  first, and holds for loops and chains of any depth.
- `RequestIsReplayed` compares the request that is built with the one Varnish
  received or had after VCL. Where VCL unset Host and did not set it again, the
  builder still sends the old one; the property leaves that case out.
- `AuthorityIsHost` and `ConnectsWhereAsked` say where the built command goes: the Host header
  survives being split and joined, and the connection is to the address of the log or of the
  user, or to nothing else when none was asked for. The first does not cover IPv6 addresses, see below.
- `TimestampsBelowTransaction`: the loop keeps row numbers while rows are made
  as they are needed; the property ties both together. It needs the first
  timestamp of a transaction to stand before its links, as varnishd logs it.
  `SessionRowIsItsOwn` needs that nothing of a session starts after it was
  closed; else the first request of it is put on the session's row.
- `CountedOnce` goes from the log, `tsEvents` from the roots by parents and the walk
  by links; it leaves out chains deeper than RootParent goes, where one root is below another (see Proofs).
  `PercentilesConsistent` compares a counter with its mirror image, in which a
  percentile becomes the opposite one. Percents are whole and times nanoseconds, so the floats
  of the code are exact but for the fraction that is cut off.
- `RequestsAreShown`: the steps into Varnish and to the backend show method and URL of the request
  of their moment, or neither, exactly when its Host header is one `ParseBackend` rejects: one that VCL set does
  not empty the step of what the client sent, nor the other way round. In the log a Host that VCL unset and did not
  set again still counts (`Headers.Get` does not look at the state); the worker has no such step.
- `RequestsAreShown`, `StepsShowTheirMoment`, `LastAnswerIsTheClients`, `AnswersWereReal`: the
  diagram looks for the record that tells a step's text before or after the record the step is for. The properties
  compare what it found with `truth`: the request that was received and the one that was sent, the hit, the
  synthetic answer and the backend's as they were then, the client's answer last, and no status with the
  reason of another.
- `ShownIsStored` speaks of the page that changed the store last; another page shows what it
  last rendered, since nothing tells it of the change.
- `ImplementsLogStore` allows an entry to come back only where the code lets it: the put of a
  rename, with the creation time of an entry that was deleted.

Every property has a mutant in `PROJECT.json`: a plausible bug in one definition with which
TLC finds it violated. The mutants stand in the modules, before the definition they change.

## Findings

1. `ReceivedWasSent` (`vsl/parser.go:124`). Every status record starts another
   set of received headers, also one that `set resp.status` in VCL writes, so what VCL
   sets after it counts as received (`assets/examples/esi-synth.txt`, 40-43, is such a
   log). The headers view says "Headers present before any VCL processing, as originally received".
2. `EffectiveHeaders` with `RepeatedCoreNames` (`vsl/parser.go:164`). A client that sends
   a header of Varnish's own list twice: the second one is read as a modification of the first.
3. `SecondAnswerIsPartial` (`render/sequence.go:222`). The second answer step is meant for
   "200 --> 206 (partial content)", but it is drawn whenever a status follows the return: a
   hit that is delivered shows 200 twice.
4. `NotReentered` (`vsl/summary/latency.go:142`). The summary has no visited set; request 2 of
   `assets/examples/link-loop.txt` links to itself.

Seen while modelling, with no run of their own:

- Connection or Via that Varnish leaves alone is
  shown as Added (`parser.go`, 145 admits the simplification; `ReceivedAreSent` and
  `StatesTellOrigin` state exactly this); a header VCL sets twice is shown as Modified without having been received
  (395-397); "should be empty already" (110) does not hold after an unset that comes
  before any header.
- All missing transactions have VXID 0, so the tree takes the second one for the first and draws
  no box for it (`vcltree.go:89`).
- A Hit record with three fields is a panic (`records.go:790`); a VXID from 2^32 on
  (`transaction_utils.go:121`) or a URL with a bad escape (`records.go:674`) fails the whole log.
- An IPv6 Host header with a port gets two pairs of brackets (`httpmodel.go:141` joins what
  `ParseBackend` has put brackets around), and one without a port is not accepted: nothing can be built of such a request, and the diagram shows it
  with neither method nor URL (`sequence.go`, 106-118); the backend "auto" of a
  backend request without a BackendOpen record is an empty text `ParseBackend` rejects, so the form fails.
- `renameEntry` reads and writes in two transactions, so it can bring
  back an entry that was deleted in between (LogStore's `BringBack`).

## Proofs

Proved by TLAPS, for every value of the constants:

| Module | Theorem | Says |
|---|---|---|
| ParserProofs | `TypeCorrect` | `Spec => []TypeOK` |
| | `NoTempCorrect` | `Spec => []NoTempAfterVCLCall` |
| | `StoredCompleteCorrect` | `Spec => []StoredAreComplete` |
| | `ReceivedImmutableCorrect` | `Spec => ReceivedAreImmutable` |
| | `ParserImplementsParsedLog` | `Spec => ImplementsParsedLog` |
| | `StoredOnlyByEndCorrect` | `Spec => StoredOnlyByEnd` |
| | `HeadersWellFormedCorrect` | `Spec => []AllHeadersWellFormed` |
| | `ReceivedAsLoggedCorrect` | `Spec => []ReceivedAsLogged` |
| | `MergeIsTheLoopCorrect` | `Spec => []MergeIsTheLoop` |
| | `EffectiveHeadersCorrect`, `ReceivedAreSentCorrect`, `RequestIsReplayedCorrect` | `WriterSpec => []EffectiveHeaders`, `[]ReceivedAreSent`, `[]RequestIsReplayed`, if no header of Varnish's own list is repeated and VCL sets no status |
| | `StatesTellOriginCorrect` | `WriterSpec => []StatesTellOrigin`, if moreover no value is empty |
| RecordsProofs | `IndexesInRangeAlways`, `RecordHasNoHolesAlways`, `VarnishLinesAreKeptAlways` | `Spec => []IndexesInRange`, `[]RecordHasNoHoles`, `[]VarnishLinesAreKept` |
| LinkWalkProofs | `WalkTypeCorrect`, `ShownOnceCorrect`, `StepsInOwnSectionCorrect`, `ShowsAllReachableCorrect` | `Spec => []TypeOK`, `[]ShownOnce`, `[]StepsInOwnSection`, `[]ShowsAllReachable`, of the four views' walks |
| PagesProofs | `PagesTypeCorrect`, `PagesEveryTransactionGrouped`, `PagesRootsHaveNoParent`, `PagesGroupsDisjoint` | the invariants of the groups |
| | `PagesAuthorityIsHost`, `PagesConnectsWhereAsked` | the invariants of the request builder |
| | `PagesTimestampsBelowTransaction`, `PagesSessionRowIsItsOwn` | the invariants of the timeline, for logs in the order varnishd writes them |
| | `PagesCountedOnce`, `PagesPercentilesConsistent` | the invariants of the latency summary |
| SequenceProofs | `RequestsAreShownAlways`, `AnswersWereRealAlways`, `StepsShowTheirMomentAlways`, `LastAnswerIsTheClientsAlways` | `Spec => []RequestsAreShown`, `[]AnswersWereReal`, `[]StepsShowTheirMoment`, `[]LastAnswerIsTheClients` |
| HistoryProofs | `HistoryTypeCorrect` | `Spec => []TypeOK` |
| | `HistoryImplementsLogStore` | `Spec => ImplementsLogStore` |
| | `OnlyRenameChangesCorrect` | `Spec => OnlyRenameChanges` |
| | `HistoryShownIsStored` | `Spec => []ShownIsStored` |

`SetInduction` and `TxSetProofs` hold lemmas the others share.

**Induction.** Nothing here is proved by an induction theorem about an arbitrary operator. `SetInduction`
gets the least element of a set of natural numbers from the library's order of finite sets,
and from it induction stated about a set (`UpTo`), the existence of a recursive function
(`Recursion`) and the closure that rounds of successors reach (`RoundsClose`: a round that adds
nothing is the last, and there are no more rounds than elements). A recursive function of a model is
first shown to exist, then to satisfy its equations, then reasoned about by `UpTo`.

**The parser.** Assumed: finitely many spellings,
`CanonicalHeaderName` maps into them and is idempotent, a line of a header tag has a name and a value,
one of "start" or "Link" a VXID, one of "Begin" a parent, and Host is not on Varnish's list.
`TypeOK` is inductive. Its lemmas are one for each operator: `AddType`,
`DeleteType`, `MergeTempHeadersType` and so on; the merge needs that cardinalities of
sets of names are natural numbers. `NoTempAfterVCLCall` is inductive by itself:
an unset while VCL runs deletes from an empty map (`DeleteNone`).
`StoredAreComplete` is not: it says nothing of the transaction that is being
read. The strengthening `Reading` says that before the Begin record there are no records
and no children, and that after it the records begin with the only Begin, hold no End
and agree with the children. The lemmas `FrameGrows`, `ChildrenStay` and `ChildrenGrow` carry that
over the append of one record; `End` turns it into the invariant.
`ReceivedAreImmutable` is an action property; it follows from `TypeOK` and
`NoTempAfterVCLCall` in the state before the step, since the merge is the only place
outside `Add` that touches received values. `StoredOnlyByEnd` goes through the actions: only `End` touches the set
(`OnlyEndStores`), and by `Reading` what it stores is whole (`EndStoresWhole`). The refinement needs `Reading` too: an End
record must store a whole transaction, and every other line is a start, a failure or a stutter
(`Unseen`).

**The header maps.** `AllHeadersWellFormed` is inductive with `TypeOK`, but not obviously so. That the deleted
values come first makes `Live` the rest of the sequence without one of them (`DeletedFirst`: a set of
indices with every smaller one in it is an interval, by counting). The merge then only puts together what keeps the
order: received values, deleted ones marked, live ones. For the ids, that they are 1..n for n headers makes them different
(`IdsDiffer`: a surjection between finite sets of one size is an injection), so the ranks of the
merged headers are different too, and as many as there are (`RanksAreEnumerated`): the merge numbers
them on without a gap.

`ReceivedAsLogged` is read off the records, so the invariant must tell in which phase the parser is
from the records too (`PhaseIsKnown`), and that only values of Varnish's own list are received
aside (`AsideAreModified`). Appending one record then adds the last received record of its name or none, which counting
turns into the last received value.

`MergeIsTheLoop` justifies the closed form all of these theorems use. The loop is followed header by
header: what it does to its own header is an append, a marking or nothing, elsewhere it changes
nothing, and it gives a new header the next id. After i rounds the map is the closed form for the i headers with the
smallest ids; after all of them, for all. It needs `Aside`: Host and values in state Received are never kept aside, or the loop
would do something else with them than with the rest.

**The round trip.** The state of the worker and the one of the parser are two programs that run in step.
The invariant (`WorkerInv`, with those above) has three parts: the types of the worker; `Control`, which says where in `Parse`
the reader is for each phase of the worker and what its flags are; and one `Cell` for each side and
header. A header is either `InPlace`, in the map of its side with the values the worker has, or `HeldBack`, kept
aside until VCL is called, as what was sent and what Varnish made of it. There is one lemma for each action
of the worker: it shows the cell of the header it is about, and `CellStays` takes care of the rest.
At the first VCL call all headers held back go in place at once (`MergedInPlace`). The
hypotheses are the two restrictions the violation runs lift (see Findings), and no more: any names,
values, repeated ordinary headers, and logs of any length. `StatesTellOrigin` leaves out empty values, as an empty first
value counts as an absent header in `addProcessedHeaders`. Assumed of the worker: its
lines are lines of logs.

**The record constructors.** Assumed: the fields of a line are a sequence of texts (`LinesAssumption`). A
line is read one conversion at a time, so the invariant (`ReadInv`) says that the record holds exactly what the
conversions so far have read, and which conversion an error or a panic stopped at. What remains is about the
constructors alone, for a number of fields that is not bounded: a constructor decides by that number,
and for each decision the set of its conversions is written down (`Reads`, two lemmas for each of them: what is
converted, and that it has no hole and goes no further than the last field). On the other side there is one lemma
for each tag varnishd writes: each format fixes the number of fields, hence the conversions, and each of these accepts
what is printed there.

**The sequence diagram.** Assumed: requests are triples and answers pairs (`RequestsAssumption`,
`AnswersAssumption`); `BadHosts` may be any set. The worker writes its log,
then the diagram is drawn of all of it, with searches backwards and forwards from the record it is at. The
properties are about the drawing, but what makes them true is decided when the log is written: each record
a search will start from (`VCL_call`, `VCL_return`) is written at a moment at which the worker's state is known, and the
question is whether a record written later can come between. A search backwards never sees it; a search
forwards does until it has found something. Hence the invariant of the worker (`WorkerInv`): of every
call and return in the log, what a search from it finds is what happened (`Kept`, for all records: `LogKept`); the
last request and the last answer of the log are those the worker has now, its Host header included, and the first request is the
client's (`RequestLogged`, `AnswerLogged`, `AnswerHeld`); there is one hit and one call of synth at most, and a return of
deliver has an answer after it or is the last record before one (`Once`); and when the client has its answer, some return of deliver
is the last one and finds it (`Got`). `Grow`, `KeptStays` and `KeptNew` say what one more record changes of
these, so each action is a sequence of records each of which may be added (`MayAdd`, `MayCall`). While
the diagram is drawn, the two requests are those of the log, or empty (`ReceivedIsRead`, `SentIsRead`), every step is true of what happened (`TrueStep`), and once the index has passed that last
return, the last answer drawn is the one the client got (`DrawInv`). TLC checked the whole invariant first.

**The walks.** Assumed: the sets have VXIDs for keys and sequences of VXIDs for links
(`WalksAssumption`), and, in the theorems, that the walk is one of the four that keep a visited set
and follow the Link records in order. `ShownOnce` is not inductive: that a transaction is written for
the second time can only be excluded by what `visited` holds. The invariant is
`Types` (the type invariant with the stack as a sequence of frames), `Once` (what was written
is visited, and nothing was written twice) and `StepsInOwnSection`. Links may form any
graph; nothing is assumed of the depth. `ShowsAllReachable` needs more: `Covered` says that what is visited was written and
is reachable, and that each visited transaction either still has a call on the stack, whose links
up to the one it is at have been followed, or has had all of them followed. When the stack is empty,
what is visited is closed under links and holds the root, so it holds the closure.

**The groups.** Assumed: a set has VXIDs for keys (`SetsAssumption`). Parents and links may be anything. `RootParent` is a
search of bounded depth and `Reachable` a closure, both recursive functions; TxSetProofs
shows that the first ends at a transaction with no parent in the set whenever there is a top within
the depth (`SearchSettles`: each step upwards leaves one ancestor fewer), that it finds the same
root from a parent and its child, and that where links mirror parents what is reachable from a root has that root (`RootOfReachable`).
From the last, two groups with a transaction in common have one root. The invariant of the loops
(`GroupsInv`) says that each transaction is still pending, is an excluded session, or has its root among the parents.

**The request builder.** Assumed: the texts of the form and of the log are of the forms HostPort has, and
the address of a BackendOpen record has no brackets (`TextsAssumption`). The invariant follows the
steps of one form: the backend that is asked for, then the request, then the text, each determined by the form and the
transaction. `AuthorityIsHost` is that `ParseBackend` and the join are inverse on everything but IPv6 (`HostJoined`).

**The timeline.** Assumed: logs are in the order varnishd writes them (`DrawnAssumption`). Links form a
forest, each is logged once and leads to no session; only requests have Timestamp records, the first of them before
the other records and no later than the other timestamps. There is no bound on anything. First, what the walk
collects: by induction on the depth, the events below a transaction are those of transactions reachable from it, each of which
begins at most once, with its first timestamp right behind it and the others further on
(`WellCollected`, `CollectedWell`). That the parts do not mix is `SubtreesApart`: in a forest, nothing is reachable from two
children of a transaction. Then the rows. `TimestampsBelowTransaction` is about rows that were made at different times, so the invariant
(`TimelineInv`) ties both ends together: `EventsInv` says what is left to draw (a timestamp has its Begin before it, or its
row in `txRows`, or is the one `Awaiting`: its transaction was drawn last and it is the next event), `RowsInv` that
`txRows` names the rows of the Begins, that `currentIndex` is the row below `lastTx` while its
timestamp is awaited, and that it is no further than the end of the rows, whatever it was reset to. It is in these terms that AddRow's
appending is no surprise: a row that is not there is the next one. `SessionInv` follows the session on top: nothing that is
drawn comes before it, its end is the end of its row, so no event that starts while it is open may stay on the row,
and another request starts at row 1. TLC checked the invariant first.

**The latency summary.** Assumed: the timestamps of a transaction are labels with natural numbers (`TimesAssumption`); links may
lead anywhere. The invariant (`LatencyInv`) is that what has been walked is of the set and every counter is sorted and not empty. The
sort goes by rank: the ranks of n values are 1..n, each of one value (`AscendingSorts`), so they permute. A percentile is an
interpolation between two neighbours of a sorted sequence, which grows with the share, also across a
neighbour's place, and taken from the other side is the same but for what the division cuts off.

`CountedOnce` adds up: `CountInv` says that what a counter has of a value and what the present walk has still to bring
of it are together the timestamps logged below the roots walked so far (`LoggedBelow`). The timestamps are counted as
a set of places in the log, so that no sum over transactions is needed: a walk in a forest comes by each place once
(`WalkCounts`, by induction on the depth, for transactions with no more below them than there is depth left;
`TimesFlattened` adds up the children, `SubtreesApart` keeps them apart), the sort moves values
and loses none (`TimesMoved`), and no two roots have anything below them in common (`RootsApart`). The last is where the
property needs `RootsOnTop`: in a chain deeper than `MaxDepth` the search for a root ends half way up, that
root is below another one, and both walks count what is below it.

**The history.** Assumed: `MaxOps` is a natural number, and the names of users are not the name a log
is saved with, nor the value for no entry an entry. The invariant is `TypeOK` and `PutsWereRead`: a put that is under way carries an entry
that was in the store, with the time of the one that is there or of one that is gone. It
is what makes a rename that was overtaken a `BringBack` and not an arbitrary write. It needs the
queue's elements, hence the lemmas on `Elements` of concatenations, tails and filtered
queues. For `ShownIsStored` the invariant says that the page that changed the store last either
shows it or has its reading of the store in the queue (`ShownOrRedrawn`), and that a write a page left
behind when it was replaced is followed in the queue by the first rendering of the new page
(`OrphansAreFollowed`): nobody else would draw what such a write does.

Only model-checked:

- liveness (`Terminates`, `SettlesDown`), which is beyond the prover, and with it the `summary` walk of
  LinkWalk; the sorted children of the `collect` walk.

## Not modelled

The wording, sizes, durations and colours of what is shown (`String` methods, HTML, SVG, quoting of
curl and hurl texts, distances in the diagrams); the templates; the tag constants; the server's
handlers beyond what they call, as they keep no state between requests; the command line, which
reads two flags. The order of the rows of the latency table: it is not determined between equal averages, and
nothing says what it should be. Pagination of the history. The drawing libraries, package net, IndexedDB and
varnishd are external: modelled from how the code uses them.

## Plan

In the order of what matters most; all of it is done.

1. Headers and TransactionParser with framing and header runs, then the
   composition with the worker; theorems on types, framing and received values.
2. TxSet, LinkWalk: the walks.
3. TxGroups: the division.
4. History.
5. Timeline: the sort and the choice of rows.
6. Request builder: `NewHTTPRequest` on the parsed headers, then the form and the address.
7. Latency counters; the pages that put the views together.
8. The sequence diagram's steps, composed with a worker.
9. The record constructors against what varnishd prints.
10. Abstract specifications of the parser and of the history, and the refinements.
11. Theorems: the refinements, `StoredOnlyByEnd`, `OnlyRenameChanges`, `ShownOnce`, `StepsInOwnSection`.
12. `AllHeadersWellFormed` (ids as an enumeration), `ReceivedAsLogged`, `MergeIsTheLoop`, then the round trip.
13. Theorems on the other views: `ShowsAllReachable`, the groups, the request builder; `ShownIsStored`.
14. Theorems on the sequence diagram and on the record constructors.
15. Theorems on the timeline and on the latency summary.
