------------------------------- MODULE History -------------------------------
(***************************************************************************)
(* The log history of the page (assets/static/history.js): entries in the  *)
(* browser's IndexedDB, one per distinct log, keyed by its digest.  Every  *)
(* operation is asynchronous; it goes on when the database has answered.   *)
(* queue is the database (external): its transactions on the one object    *)
(* store run one at a time in the order they were created, from whichever  *)
(* tab.  A request of queue runs together with the callback that follows   *)
(* it: between them nothing else can be added to queue that would run      *)
(* before what the callback adds.  The content of an entry is its hash.    *)
(***************************************************************************)
EXTENDS Naturals, Sequences, FiniteSets

CONSTANTS
  Tabs,       \* the open pages
  Hashes,     \* the digests of the logs that are parsed
  NewNames,   \* names the user types
  ParsedName, \* the name addEntry makes of the count and the host
  NoEntry,    \* get returned undefined
  MaxOps      \* bound on what the user does

ASSUME NamesAssumption == ParsedName \notin NewNames
ASSUME MaxOpsAssumption == MaxOps \in Nat

Entry == [name : NewNames \cup {ParsedName}, created : 0..MaxOps]

ASSUME NoEntryAssumption == NoEntry \notin Entry

Store == [Hashes -> Entry \cup {NoEntry}]

VARIABLES
  store,     \* the object store "entries"
  queue,     \* its transactions that have not run
  digesting, \* calls of addEntry that wait for the digest
  timers,    \* loadEntry's clicks on the parse button that are due
  shown,     \* the history table of each tab
  ops,       \* what the user has done so far, the clock of created
  changedBy, \* the tab whose transaction changed the store last, for ShownIsStored
  gone       \* the creation times of the entries that were removed, for LogStore

vars == <<store, queue, digesting, timers, shown, ops, changedBy, gone>>
ghosts == <<changedBy, gone>>

\* A transaction of a tab; page tells whether that page is still there to go on
\* when it has run.
Request(tab, kind, hash, entry) ==
  [tab |-> tab, kind |-> kind, hash |-> hash, entry |-> entry, page |-> TRUE]

GetAll(tab) == [tab |-> tab, kind |-> "getAll", page |-> TRUE]

Init ==
  /\ store = [h \in Hashes |-> NoEntry]
  /\ queue = <<>>
  /\ digesting = {}
  /\ timers = {}
  /\ shown = [t \in Tabs |-> store]
  /\ ops = 0
  /\ changedBy \in Tabs
  /\ gone = [h \in Hashes |-> {}]

UserOp == ops < MaxOps /\ ops' = ops + 1

-----------------------------------------------------------------------------
(* The page *)

\* A transaction when the page of that tab is gone.
Orphaned(r, tab) == IF r.tab = tab THEN [r EXCEPT !.page = FALSE] ELSE r

\* onreadystatechange of a new page with the log h, after the form was posted:
\* the table is rendered and the log saved.  The page it replaces is gone: none of
\* its transactions goes on, its reads come to nothing, and of its writes any number
\* still run (RunPut, RunDelete or WriteFails).
LoadPage(tab, h) ==
  /\ queue' = Append([i \in DOMAIN queue |-> Orphaned(queue[i], tab)], GetAll(tab))
  /\ digesting' = {d \in digesting : d.tab # tab}
                  \cup {[tab |-> tab, hash |-> h, created |-> ops']}
  /\ timers' = {t \in timers : t.tab # tab}
  /\ UNCHANGED <<store, shown, ghosts>>

\* The user parses a log.
ParseLog(tab, h) == UserOp /\ LoadPage(tab, h)

\* addEntry goes on after digestMessage: one transaction of a get and a put.
AddEntry(d) ==
  /\ d \in digesting
  /\ digesting' = digesting \ {d}
  /\ queue' = Append(queue,
       Request(d.tab, "add", d.hash, [name |-> ParsedName, created |-> d.created]))
  /\ UNCHANGED <<store, timers, shown, ops, ghosts>>

\* renameEntry: get the entry first, the name is set on what was got.
RenameEntry(tab, h, newName) ==
  /\ UserOp
  /\ shown[tab][h] # NoEntry
  /\ queue' = Append(queue, Request(tab, "rename", h, newName))
  /\ UNCHANGED <<store, digesting, timers, shown, ghosts>>

\* deleteEntry, confirmed.
DeleteEntry(tab, h) ==
  /\ UserOp
  /\ shown[tab][h] # NoEntry
  /\ queue' = Append(queue, Request(tab, "delete", h, NoEntry))
  /\ UNCHANGED <<store, digesting, timers, shown, ghosts>>

\* loadEntry: get the entry, then parse its content.
LoadEntry(tab, h) ==
  /\ UserOp
  /\ shown[tab][h] # NoEntry
  /\ queue' = Append(queue, Request(tab, "load", h, NoEntry))
  /\ UNCHANGED <<store, digesting, timers, shown, ghosts>>

\* setTimeout(() => button.click(), 100)
ClickParse(t) ==
  /\ t \in timers
  /\ ops' = ops
  /\ LoadPage(t.tab, t.hash)

-----------------------------------------------------------------------------
(* The database runs the first transaction, and its page goes on. *)

Runs(kind) == queue # <<>> /\ Head(queue).kind = kind

\* The entry f is e, or e with another name.
SameLog(e, f) == f # NoEntry /\ f = [e EXCEPT !.name = f.name]

\* A write that runs.
Write(r, new) ==
  /\ store' = new
  /\ changedBy' = IF new = store THEN changedBy ELSE r.tab
  /\ gone' = [h \in Hashes |->
                IF store[h] # NoEntry /\ ~SameLog(store[h], new[h])
                THEN gone[h] \cup {store[h].created} ELSE gone[h]]

\* What is left of queue when the page of r goes on with these transactions.
Continue(r, next) == queue' = Tail(queue) \o IF r.page THEN next ELSE <<>>

\* Mutant of RunAdd: an entry that exists is overwritten.
RunAddOverwrites ==
  LET r == Head(queue)
  IN  /\ Runs("add")
      /\ Write(r, IF r.page THEN [store EXCEPT ![r.hash] = r.entry] ELSE store)
      /\ Continue(r, <<GetAll(r.tab)>>)
      /\ UNCHANGED <<digesting, timers, shown, ops>>

\* Mutant of RunAdd: the table is not rendered afterwards.
RunAddSilently ==
  LET r == Head(queue)
  IN  /\ Runs("add")
      /\ Write(r, IF store[r.hash] = NoEntry /\ r.page
                  THEN [store EXCEPT ![r.hash] = r.entry] ELSE store)
      /\ Continue(r, <<>>)
      /\ UNCHANGED <<digesting, timers, shown, ops>>

\* addEntry's transaction: an entry that exists is left alone; then the table is
\* rendered.  A page that is gone cannot put after its get.
RunAdd ==
  LET r == Head(queue)
  IN  /\ Runs("add")
      /\ Write(r, IF store[r.hash] = NoEntry /\ r.page
                  THEN [store EXCEPT ![r.hash] = r.entry] ELSE store)
      /\ Continue(r, <<GetAll(r.tab)>>)
      /\ UNCHANGED <<digesting, timers, shown, ops>>

\* Mutant of RunRename: the entry is not looked at; its creation time is lost.
RunRenameBlindly ==
  LET r == Head(queue)
  IN  /\ Runs("rename")
      /\ Continue(r, <<Request(r.tab, "put", r.hash, [name |-> r.entry])>>)
      /\ UNCHANGED <<store, ghosts, digesting, timers, shown, ops>>

\* Mutant of RunRename: an entry that is not there is made.
RunRenameOrMake ==
  LET r == Head(queue)
      old == IF store[r.hash] = NoEntry THEN [name |-> ParsedName, created |-> ops]
             ELSE store[r.hash]
  IN  /\ Runs("rename")
      /\ Continue(r, <<Request(r.tab, "put", r.hash, [old EXCEPT !.name = r.entry])>>)
      /\ UNCHANGED <<store, ghosts, digesting, timers, shown, ops>>

\* getEntry for renameEntry: updateEntry is a transaction of its own.
RunRename ==
  LET r == Head(queue)
  IN  /\ Runs("rename")
      /\ Continue(r, IF store[r.hash] = NoEntry THEN <<>>
                     ELSE <<Request(r.tab, "put", r.hash,
                                    [store[r.hash] EXCEPT !.name = r.entry])>>)
      /\ UNCHANGED <<store, ghosts, digesting, timers, shown, ops>>

\* updateEntry: a put.
RunPut ==
  LET r == Head(queue)
  IN  /\ Runs("put")
      /\ Write(r, [store EXCEPT ![r.hash] = r.entry])
      /\ Continue(r, <<GetAll(r.tab)>>)
      /\ UNCHANGED <<digesting, timers, shown, ops>>

RunDelete ==
  LET r == Head(queue)
  IN  /\ Runs("delete")
      /\ Write(r, [store EXCEPT ![r.hash] = NoEntry])
      /\ Continue(r, <<GetAll(r.tab)>>)
      /\ UNCHANGED <<digesting, timers, shown, ops>>

RunLoad ==
  LET r == Head(queue)
  IN  /\ Runs("load")
      /\ Continue(r, <<>>)
      /\ timers' = IF ~r.page \/ store[r.hash] = NoEntry THEN timers
                   ELSE timers \cup {[tab |-> r.tab, hash |-> r.hash]}
      /\ UNCHANGED <<store, ghosts, digesting, shown, ops>>

\* Mutant of RunGetAll: a rendering starts the next one.
RunGetAllAgain ==
  LET r == Head(queue)
  IN  /\ Runs("getAll")
      /\ shown' = [shown EXCEPT ![r.tab] = store]
      /\ Continue(r, <<GetAll(r.tab)>>)
      /\ UNCHANGED <<store, ghosts, digesting, timers, ops>>

\* renderHistory
RunGetAll ==
  LET r == Head(queue)
  IN  /\ Runs("getAll")
      /\ shown' = IF r.page THEN [shown EXCEPT ![r.tab] = store] ELSE shown
      /\ Continue(r, <<>>)
      /\ UNCHANGED <<store, ghosts, digesting, timers, ops>>

IsWrite(r) == r.kind \in {"add", "put", "delete"}

\* A write that fails (the quota is used up, or its page is gone) changes nothing; the callback
\* rejects and the table is not rendered.
WriteFails ==
  /\ queue # <<>> /\ IsWrite(Head(queue))
  /\ queue' = Tail(queue)
  /\ UNCHANGED <<store, ghosts, digesting, timers, shown, ops>>

RunRequest ==
  \/ RunAdd \/ RunRename \/ RunPut \/ RunDelete \/ RunLoad \/ RunGetAll \/ WriteFails

Next ==
  \/ \E tab \in Tabs, h \in Hashes :
       \/ ParseLog(tab, h) \/ DeleteEntry(tab, h) \/ LoadEntry(tab, h)
       \/ \E n \in NewNames : RenameEntry(tab, h, n)
  \/ \E d \in digesting : AddEntry(d)
  \/ \E t \in timers : ClickParse(t)
  \/ RunRequest

\* The browser runs every callback, timer and database transaction in the end;
\* the user need not do anything.
Fairness ==
  /\ WF_vars(RunRequest)
  /\ WF_vars(\E d \in digesting : AddEntry(d))
  /\ WF_vars(\E t \in timers : ClickParse(t))

Spec == Init /\ [][Next]_vars /\ Fairness

-----------------------------------------------------------------------------
\* What a transaction carries: the entry to add or put, a name, or nothing.
Saved == [name : {ParsedName}, created : 0..MaxOps]
Renamed == [name : NewNames, created : 0..MaxOps]

Requests ==
  [tab : Tabs, kind : {"getAll"}, page : BOOLEAN]
    \cup [tab : Tabs, kind : {"add"}, hash : Hashes, entry : Saved, page : BOOLEAN]
    \cup [tab : Tabs, kind : {"rename"}, hash : Hashes, entry : NewNames, page : BOOLEAN]
    \cup [tab : Tabs, kind : {"put"}, hash : Hashes, entry : Renamed, page : BOOLEAN]
    \cup [tab : Tabs, kind : {"delete", "load"}, hash : Hashes, entry : {NoEntry}, page : BOOLEAN]

\* Type invariant.
TypeOK ==
  /\ store \in Store
  /\ shown \in [Tabs -> Store]
  /\ queue \in Seq(Requests)
  /\ digesting \subseteq [tab : Tabs, hash : Hashes, created : 0..MaxOps]
  /\ timers \subseteq [tab : Tabs, hash : Hashes]
  /\ ops \in 0..MaxOps
  /\ changedBy \in Tabs
  /\ gone \in [Hashes -> SUBSET (0..MaxOps)]

Quiet == queue = <<>> /\ digesting = {} /\ timers = {}

\* The page that changed the store last shows what the store holds whenever
\* nothing is under way: no operation, in whatever order the answers come,
\* failing or cut off by a new page, leaves a stale or a missing row behind there
\* (renderHistory after each write, history.js 147-150, 179-181, 290-291, 299).
ShownIsStored == Quiet => shown[changedBy] = store

\* Parsing the same log again, in any tab and at any time, leaves the entry and
\* the name the user gave it alone: an entry that is there only changes by a
\* rename (the get and the put of addEntry are one transaction, 62-91).
OnlyRenameChanges ==
  [][\A h \in Hashes :
       store[h] # NoEntry /\ store'[h] \notin {NoEntry, store[h]} =>
         queue # <<>> /\ Head(queue).kind = "put"]_vars

\* h has had an entry that was created then.
Known(h, time) ==
  time \in gone[h] \/ (store[h] # NoEntry /\ store[h].created = time)

\* What makes LogStore hold: a put that is under way carries an entry that was there.
PutsWereRead ==
  \A i \in DOMAIN queue :
    queue[i].kind = "put" => Known(queue[i].hash, queue[i].entry.created)

\* What makes ShownIsStored hold: the page that changed the store last shows it, or
\* is about to; a transaction of a page that is gone is followed by the first
\* rendering of the page that replaced it.
Redraws(i, tab) == queue[i] = GetAll(tab)

ShownOrRedrawn ==
  \/ shown[changedBy] = store
  \/ \E i \in DOMAIN queue : Redraws(i, changedBy)

OrphansAreFollowed ==
  \A i \in DOMAIN queue :
    queue[i].page \/ \E j \in DOMAIN queue : i < j /\ Redraws(j, queue[i].tab)

\* The abstract history (LogStore) is what the transactions of all pages amount to:
\* a save, a rename, a delete, or a rename that brings back the entry it has read
\* before a delete (renameEntry gets and puts in two transactions, 112-134, 174-186).
Logs == INSTANCE LogStore WITH Times <- 0..MaxOps

ImplementsLogStore == Logs!Spec

\* A save starts no rendering, and a rendering no save, without end: everything
\* the user starts is over at some time.
SettlesDown == []<>Quiet

=============================================================================
