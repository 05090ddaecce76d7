---------------------------- MODULE HistoryProofs ----------------------------
(* Theorems about History, for any number of pages, logs, names and operations. *)
EXTENDS History, SequenceTheorems, TLAPS

-----------------------------------------------------------------------------
(* Types *)

\* The elements of a sequence.
Elements(s) == {s[i] : i \in DOMAIN s}

LEMMA ElementsConcat ==
  ASSUME NEW S, NEW s \in Seq(S), NEW t \in Seq(S)
  PROVE  s \o t \in Seq(S) /\ Elements(s \o t) \subseteq Elements(s) \cup Elements(t)
<1>1. /\ s \o t \in Seq(S) /\ Len(s) \in Nat /\ Len(t) \in Nat
      /\ DOMAIN s = 1..Len(s) /\ DOMAIN t = 1..Len(t) /\ DOMAIN (s \o t) = 1..(Len(s) + Len(t))
      /\ \A i \in 1..(Len(s) + Len(t)) :
           (s \o t)[i] = IF i <= Len(s) THEN s[i] ELSE t[i - Len(s)]
  BY ConcatProperties, LenProperties
<1> SUFFICES ASSUME NEW i \in 1..(Len(s) + Len(t))
             PROVE  (s \o t)[i] \in Elements(s) \cup Elements(t)
  BY <1>1 DEF Elements
<1>2. CASE i <= Len(s)
  BY <1>1, <1>2 DEF Elements
<1>3. CASE ~(i <= Len(s))
  <2>1. i - Len(s) \in DOMAIN t /\ (s \o t)[i] = t[i - Len(s)]
    BY <1>1, <1>3
  <2> QED BY <2>1 DEF Elements
<1> QED BY <1>2, <1>3

LEMMA ElementsTail ==
  ASSUME NEW S, NEW s \in Seq(S), s # <<>>
  PROVE  Tail(s) \in Seq(S) /\ Elements(Tail(s)) \subseteq Elements(s)
<1>1. /\ Tail(s) \in Seq(S) /\ Len(Tail(s)) = Len(s) - 1 /\ Len(s) \in Nat
      /\ \A i \in 1..Len(Tail(s)) : Tail(s)[i] = s[i + 1]
      /\ DOMAIN s = 1..Len(s) /\ DOMAIN Tail(s) = 1..Len(Tail(s))
  BY HeadTailProperties, LenProperties
<1> SUFFICES ASSUME NEW i \in 1..Len(Tail(s)) PROVE Tail(s)[i] \in Elements(s)
  BY <1>1 DEF Elements
<1>2. i + 1 \in DOMAIN s /\ Tail(s)[i] = s[i + 1]
  BY <1>1
<1> QED BY <1>2 DEF Elements

LEMMA ElementsAppend ==
  ASSUME NEW S, NEW s \in Seq(S), NEW e \in S
  PROVE  Append(s, e) \in Seq(S) /\ Elements(Append(s, e)) \subseteq Elements(s) \cup {e}
<1>1. /\ Append(s, e) \in Seq(S) /\ Len(Append(s, e)) = Len(s) + 1 /\ Len(s) \in Nat
      /\ \A i \in 1..Len(s) : Append(s, e)[i] = s[i]
      /\ Append(s, e)[Len(s) + 1] = e
      /\ DOMAIN s = 1..Len(s) /\ DOMAIN Append(s, e) = 1..(Len(s) + 1)
  BY AppendProperties, LenProperties
<1> SUFFICES ASSUME NEW i \in 1..(Len(s) + 1) PROVE Append(s, e)[i] \in Elements(s) \cup {e}
  BY <1>1 DEF Elements
<1>2. i \in DOMAIN s \/ i = Len(s) + 1
  BY <1>1
<1> QED BY <1>1, <1>2 DEF Elements

\* What goes on after a transaction: the rest of the queue and what the callback adds
\* (history.js, the onsuccess and oncomplete of every request).
LEMMA ContinueQueue ==
  ASSUME queue \in Seq(Requests), queue # <<>>, NEW r, NEW next \in Seq(Requests),
         Continue(r, next)
  PROVE  queue' \in Seq(Requests) /\ Elements(queue') \subseteq Elements(queue) \cup Elements(next)
<1>1. CASE r.page
  BY <1>1, ElementsTail, ElementsConcat DEF Continue
<1>2. CASE ~r.page
  <2>1. queue' = Tail(queue) \o <<>> /\ <<>> \in Seq(Requests) /\ Elements(<<>>) = {}
    BY <1>2 DEF Continue, Elements
  <2>2. Tail(queue) \in Seq(Requests) /\ Elements(Tail(queue)) \subseteq Elements(queue)
    BY ElementsTail
  <2>3. Tail(queue) \o <<>> = Tail(queue)
    BY <2>2, ConcatEmptySeq
  <2> QED BY <2>1, <2>2, <2>3
<1> QED BY <1>1, <1>2

\* The first transaction is one, and has the fields of its kind.
LEMMA HeadRequest ==
  ASSUME queue \in Seq(Requests), queue # <<>>
  PROVE  LET r == Head(queue)
         IN  /\ r \in Requests /\ r.tab \in Tabs /\ r.page \in BOOLEAN
             /\ r = queue[1] /\ 1 \in DOMAIN queue
             /\ r.kind # "getAll" => r.hash \in Hashes
             /\ r.kind = "add" => r.entry \in Saved
             /\ r.kind = "rename" => r.entry \in NewNames
             /\ r.kind = "put" => r.entry \in Renamed
<1>1. Head(queue) \in Requests /\ Head(queue) = queue[1] /\ 1 \in DOMAIN queue
  OBVIOUS
<1> QED BY <1>1 DEF Requests

\* An entry is not NoEntry, and the entries of saves and renames are entries.
LEMMA EntryType ==
  /\ NoEntry \notin Entry
  /\ Saved \subseteq Entry /\ Renamed \subseteq Entry
  /\ \A e \in Entry, name \in NewNames : [e EXCEPT !.name = name] \in Renamed
BY NoEntryAssumption DEF Entry, Saved, Renamed

-----------------------------------------------------------------------------
(* The store *)

\* An entry under the name it has is the entry it was.
LEMMA SameLogSelf ==
  ASSUME NEW e \in Entry
  PROVE  SameLog(e, e)
BY NoEntryAssumption DEF SameLog, Entry

\* A write keeps what is known of every log: an entry that is not only renamed is gone
\* (history.js, 66-91, 124-134, 145-156).
LEMMA WriteKnown ==
  ASSUME store \in Store, gone \in [Hashes -> SUBSET (0..MaxOps)],
         NEW r, NEW new \in Store, Write(r, new)
  PROVE  /\ store' = new /\ gone' \in [Hashes -> SUBSET (0..MaxOps)]
         /\ \A h \in Hashes, time \in 0..MaxOps : Known(h, time) => Known(h, time)'
<1>1. /\ store' = new /\ gone' \in [Hashes -> SUBSET (0..MaxOps)]
      /\ \A h \in Hashes :
           gone'[h] = IF store[h] # NoEntry /\ ~SameLog(store[h], new[h])
                      THEN gone[h] \cup {store[h].created} ELSE gone[h]
  BY EntryType DEF Write, Store, Entry
<1> SUFFICES ASSUME NEW h \in Hashes, NEW time \in 0..MaxOps, Known(h, time)
             PROVE  Known(h, time)'
  BY <1>1
<1>2. CASE time \in gone[h]
  BY <1>1, <1>2 DEF Known
<1>3. CASE store[h] # NoEntry /\ store[h].created = time /\ SameLog(store[h], new[h])
  <2>1. new[h] # NoEntry /\ new[h].created = store[h].created
    BY <1>3 DEF SameLog, Store, Entry
  <2> QED BY <1>1, <1>3, <2>1 DEF Known
<1>4. CASE store[h] # NoEntry /\ store[h].created = time /\ ~SameLog(store[h], new[h])
  BY <1>1, <1>4 DEF Known
<1> QED BY <1>2, <1>3, <1>4 DEF Known

-----------------------------------------------------------------------------
(* The invariant *)

\* A put under way carries an entry that was there, said of the elements of the queue.
LEMMA PutsOfElements ==
  PutsWereRead <=> \A r \in Elements(queue) : r.kind = "put" => Known(r.hash, r.entry.created)
BY DEF PutsWereRead, Elements

\* What is left when only transactions are added that are no puts, or puts of what is
\* known, and what is known stays known.
LEMMA PutsStay ==
  ASSUME PutsWereRead, queue \in Seq(Requests),
         \A r \in Elements(queue') :
           r \in Elements(queue) \/ (r.kind = "put" => Known(r.hash, r.entry.created)'),
         \A h \in Hashes, time \in 0..MaxOps : Known(h, time) => Known(h, time)'
  PROVE  PutsWereRead'
<1>1. \A r \in Elements(queue') : r.kind = "put" => Known(r.hash, r.entry.created)'
  <2> SUFFICES ASSUME NEW r \in Elements(queue), r.kind = "put"
               PROVE  Known(r.hash, r.entry.created)'
    OBVIOUS
  <2>1. r \in Requests
    BY LenProperties DEF Elements
  <2>2. r.hash \in Hashes /\ r.entry.created \in 0..MaxOps
    BY <2>1 DEF Requests, Renamed
  <2> QED BY <2>2, PutsOfElements
<1> QED BY <1>1 DEF PutsWereRead, Elements

Inv == TypeOK /\ PutsWereRead

\* A transaction of a page that is gone is the same one without its page.
LEMMA OrphanType ==
  ASSUME NEW r \in Requests, NEW tab
  PROVE  LET o == Orphaned(r, tab)
         IN  /\ o \in Requests /\ o.kind = r.kind
             /\ r.kind = "put" => o.hash = r.hash /\ o.entry = r.entry
BY DEF Requests, Orphaned

\* A new page: the transactions that were under way stay what they were
\* (history.js, 275-312).
LEMMA LoadPageInv ==
  ASSUME Inv, NEW tab \in Tabs, NEW h \in Hashes, ops' \in 0..MaxOps, LoadPage(tab, h)
  PROVE  Inv'
<1> DEFINE q == [i \in DOMAIN queue |-> Orphaned(queue[i], tab)]
<1>1. /\ queue \in Seq(Requests) /\ Len(queue) \in Nat /\ DOMAIN queue = 1..Len(queue)
      /\ \A i \in DOMAIN queue : queue[i] \in Requests
  BY LenProperties DEF Inv, TypeOK
<1>2. \A i \in DOMAIN queue :
        /\ Orphaned(queue[i], tab) \in Requests
        /\ Orphaned(queue[i], tab).kind = queue[i].kind
        /\ queue[i].kind = "put" =>
             /\ Orphaned(queue[i], tab).hash = queue[i].hash
             /\ Orphaned(queue[i], tab).entry = queue[i].entry
  BY <1>1, OrphanType
<1>3. queue' = Append(q, GetAll(tab))
  BY DEF LoadPage
<1>4. q \in Seq(Requests) /\ DOMAIN q = DOMAIN queue /\ \A i \in DOMAIN q : q[i] = Orphaned(queue[i], tab)
  <2>1. q \in [1..Len(queue) -> Requests]
    BY <1>1, <1>2
  <2> QED BY <1>1, <2>1, SeqDef
<1>5. GetAll(tab) \in Requests /\ GetAll(tab).kind = "getAll"
  BY DEF GetAll, Requests
<1> HIDE DEF q
<1>6. queue' \in Seq(Requests) /\ Elements(queue') \subseteq Elements(q) \cup {GetAll(tab)}
  BY <1>3, <1>4, <1>5, ElementsAppend
<1>7. TypeOK'
  <2>1. digesting' \subseteq [tab : Tabs, hash : Hashes, created : 0..MaxOps]
    BY DEF Inv, TypeOK, LoadPage
  <2>2. timers' \subseteq [tab : Tabs, hash : Hashes]
    BY DEF Inv, TypeOK, LoadPage
  <2>3. UNCHANGED <<store, shown, changedBy, gone>>
    BY DEF LoadPage, ghosts
  <2> QED BY <1>6, <2>1, <2>2, <2>3 DEF Inv, TypeOK
<1>8. \A r \in Elements(q) : r.kind = "put" => Known(r.hash, r.entry.created)
  BY <1>2, <1>4 DEF Elements, Inv, PutsWereRead
<1>9. UNCHANGED <<store, gone>>
  BY DEF LoadPage, ghosts
<1>10. \A r \in Elements(queue') : r.kind = "put" => Known(r.hash, r.entry.created)'
  BY <1>5, <1>6, <1>8, <1>9 DEF Known
<1>11. PutsWereRead'
  BY <1>10 DEF PutsWereRead, Elements
<1> QED BY <1>7, <1>11 DEF Inv

\* A transaction that is added by the page and is no put (history.js, 28-64, 136-145,
\* 159-164, 174-178).
LEMMA AddedInv ==
  ASSUME Inv, NEW r \in Requests, r.kind # "put", queue' = Append(queue, r),
         UNCHANGED <<store, timers, shown, ghosts>>,
         ops' \in 0..MaxOps, digesting' \subseteq digesting
  PROVE  Inv'
<1>1. queue \in Seq(Requests)
  BY DEF Inv, TypeOK
<1>2. queue' \in Seq(Requests) /\ Elements(queue') \subseteq Elements(queue) \cup {r}
  BY <1>1, ElementsAppend
<1>3. TypeOK'
  BY <1>2 DEF Inv, TypeOK, ghosts
<1>4. \A h \in Hashes, time \in 0..MaxOps : Known(h, time) => Known(h, time)'
  BY DEF Known, ghosts
<1>5. \A x \in Elements(queue') : x \in Elements(queue) \/ x.kind # "put"
  BY <1>2
<1>6. PutsWereRead'
  BY <1>1, <1>4, <1>5, PutsStay DEF Inv
<1> QED BY <1>3, <1>6 DEF Inv

LEMMA PageInv ==
  ASSUME Inv, NEW tab \in Tabs, NEW h \in Hashes,
         \/ ParseLog(tab, h) \/ DeleteEntry(tab, h) \/ LoadEntry(tab, h)
         \/ \E n \in NewNames : RenameEntry(tab, h, n)
  PROVE  Inv'
<1>1. ASSUME UserOp PROVE ops' \in 0..MaxOps
  BY <1>1, MaxOpsAssumption DEF UserOp, Inv, TypeOK
<1>2. CASE ParseLog(tab, h)
  BY <1>1, <1>2, LoadPageInv DEF ParseLog
<1>3. CASE DeleteEntry(tab, h)
  <2>1. Request(tab, "delete", h, NoEntry) \in Requests
    BY DEF Request, Requests
  <2> QED BY <1>1, <1>3, <2>1, AddedInv DEF DeleteEntry, Request
<1>4. CASE LoadEntry(tab, h)
  <2>1. Request(tab, "load", h, NoEntry) \in Requests
    BY DEF Request, Requests
  <2> QED BY <1>1, <1>4, <2>1, AddedInv DEF LoadEntry, Request
<1>5. ASSUME NEW n \in NewNames, RenameEntry(tab, h, n) PROVE Inv'
  <2>1. Request(tab, "rename", h, n) \in Requests
    BY DEF Request, Requests
  <2> QED BY <1>1, <1>5, <2>1, AddedInv DEF RenameEntry, Request
<1> QED BY <1>2, <1>3, <1>4, <1>5

LEMMA AddEntryInv ==
  ASSUME Inv, NEW d \in digesting, AddEntry(d)
  PROVE  Inv'
<1> DEFINE r == Request(d.tab, "add", d.hash, [name |-> ParsedName, created |-> d.created])
<1>1. d \in [tab : Tabs, hash : Hashes, created : 0..MaxOps]
  BY DEF Inv, TypeOK
<1>2. r \in Requests /\ r.kind = "add"
  BY <1>1 DEF Request, Requests, Saved
<1>3. queue' = Append(queue, r) /\ ops' = ops /\ digesting' \subseteq digesting
  BY DEF AddEntry
<1>4. UNCHANGED <<store, timers, shown, ghosts>> /\ ops \in 0..MaxOps
  BY DEF AddEntry, Inv, TypeOK
<1> HIDE DEF r
<1> QED BY <1>2, <1>3, <1>4, AddedInv

LEMMA ClickParseInv ==
  ASSUME Inv, NEW t \in timers, ClickParse(t)
  PROVE  Inv'
BY LoadPageInv DEF ClickParse, Inv, TypeOK

\* A write of a transaction that runs: the types stay, what is known stays known, and
\* what is queued is no put (history.js, 66-91, 124-134, 145-156).
LEMMA WriteInv ==
  ASSUME Inv, queue # <<>>, NEW new \in Store, Write(Head(queue), new),
         Continue(Head(queue), <<GetAll(Head(queue).tab)>>),
         UNCHANGED <<digesting, timers, shown, ops>>
  PROVE  Inv'
<1> DEFINE r == Head(queue)
<1>1. queue \in Seq(Requests) /\ r \in Requests /\ r.tab \in Tabs
  BY HeadRequest DEF Inv, TypeOK
<1>2. GetAll(r.tab) \in Requests /\ GetAll(r.tab).kind = "getAll"
  BY <1>1 DEF GetAll, Requests
<1>3. <<GetAll(r.tab)>> \in Seq(Requests) /\ Elements(<<GetAll(r.tab)>>) = {GetAll(r.tab)}
  BY <1>2 DEF Elements
<1>4. queue' \in Seq(Requests) /\ Elements(queue') \subseteq Elements(queue) \cup {GetAll(r.tab)}
  BY <1>1, <1>3, ContinueQueue
<1>5. /\ store' = new /\ gone' \in [Hashes -> SUBSET (0..MaxOps)]
      /\ \A h \in Hashes, time \in 0..MaxOps : Known(h, time) => Known(h, time)'
  BY WriteKnown DEF Inv, TypeOK
<1>6. changedBy' \in Tabs
  BY <1>1 DEF Write, Inv, TypeOK
<1>7. TypeOK'
  BY <1>4, <1>5, <1>6 DEF Inv, TypeOK
<1>8. \A x \in Elements(queue') : x \in Elements(queue) \/ x.kind # "put"
  BY <1>2, <1>4
<1>9. PutsWereRead'
  BY <1>1, <1>5, <1>8, PutsStay DEF Inv
<1> QED BY <1>7, <1>9 DEF Inv

\* What the writes make of the store is a store.
LEMMA Writes ==
  ASSUME Inv, queue # <<>>
  PROVE  LET r == Head(queue)
         IN  /\ r.kind = "add" => [store EXCEPT ![r.hash] = r.entry] \in Store
             /\ r.kind = "put" => [store EXCEPT ![r.hash] = r.entry] \in Store
             /\ [store EXCEPT ![r.hash] = NoEntry] \in Store
             /\ store \in Store
BY HeadRequest, EntryType DEF Inv, TypeOK, Store

\* A transaction that only reads, and what goes on after it.
LEMMA ReadInv ==
  ASSUME Inv, queue # <<>>, NEW next \in Seq(Requests), Continue(Head(queue), next),
         \A x \in Elements(next) : x.kind = "put" => Known(x.hash, x.entry.created),
         UNCHANGED <<store, ghosts, digesting, ops>>,
         timers' \subseteq [tab : Tabs, hash : Hashes], shown' \in [Tabs -> Store]
  PROVE  Inv'
<1>1. queue \in Seq(Requests)
  BY DEF Inv, TypeOK
<1>2. queue' \in Seq(Requests) /\ Elements(queue') \subseteq Elements(queue) \cup Elements(next)
  BY <1>1, ContinueQueue
<1>3. TypeOK'
  BY <1>2 DEF Inv, TypeOK, ghosts
<1>4. \A h \in Hashes, time \in 0..MaxOps : Known(h, time) => Known(h, time)'
  BY DEF Known, ghosts
<1>5. \A x \in Elements(next) : x.kind = "put" => Known(x.hash, x.entry.created)'
  BY DEF Known, ghosts
<1>6. PutsWereRead'
  BY <1>1, <1>2, <1>4, <1>5, PutsStay DEF Inv
<1> QED BY <1>3, <1>6 DEF Inv

\* The entry a rename puts is the one it has read, under the new name
\* (history.js, 112-122, 174-181).
LEMMA RenameInv ==
  ASSUME Inv, RunRename
  PROVE  Inv'
<1> DEFINE r == Head(queue)
           put == Request(r.tab, "put", r.hash, [store[r.hash] EXCEPT !.name = r.entry])
<1>1. /\ queue # <<>> /\ r.kind = "rename" /\ r.tab \in Tabs /\ r.hash \in Hashes
      /\ r.entry \in NewNames
  BY HeadRequest DEF RunRename, Runs, Inv, TypeOK
<1>2. UNCHANGED <<store, ghosts, digesting, ops, timers, shown>>
  BY DEF RunRename
<1>3. timers \subseteq [tab : Tabs, hash : Hashes] /\ shown \in [Tabs -> Store]
  BY DEF Inv, TypeOK
<1>4. CASE store[r.hash] = NoEntry
  <2>1. Continue(r, <<>>) /\ <<>> \in Seq(Requests) /\ Elements(<<>>) = {}
    BY <1>4 DEF RunRename, Elements
  <2> QED BY <1>1, <1>2, <1>3, <2>1, ReadInv
<1>5. CASE store[r.hash] # NoEntry
  <2>1. store[r.hash] \in Entry
    BY <1>1, <1>5 DEF Inv, TypeOK, Store
  <2>2. /\ [store[r.hash] EXCEPT !.name = r.entry] \in Renamed
        /\ [store[r.hash] EXCEPT !.name = r.entry].created = store[r.hash].created
    BY <1>1, <2>1 DEF Entry, Renamed
  <2>3. put \in Requests /\ put.hash = r.hash /\ put.entry.created = store[r.hash].created
    BY <1>1, <2>2 DEF Request, Requests
  <2>4. Known(put.hash, put.entry.created)
    BY <1>5, <2>3 DEF Known
  <2>5. Continue(r, <<put>>)
    BY <1>5 DEF RunRename
  <2> HIDE DEF put
  <2>6. <<put>> \in Seq(Requests) /\ Elements(<<put>>) = {put}
    BY <2>3 DEF Elements
  <2>7. \A x \in Elements(<<put>>) : x.kind = "put" => Known(x.hash, x.entry.created)
    BY <2>4, <2>6
  <2> QED BY <1>1, <1>2, <1>3, <2>5, <2>6, <2>7, ReadInv
<1> QED BY <1>4, <1>5

LEMMA RunInv ==
  ASSUME Inv, RunRequest
  PROVE  Inv'
<1>0. /\ <<>> \in Seq(Requests) /\ Elements(<<>>) = {}
      /\ timers \subseteq [tab : Tabs, hash : Hashes] /\ shown \in [Tabs -> Store]
  BY DEF Elements, Inv, TypeOK
<1>1. CASE RunAdd
  BY <1>1, Writes, WriteInv DEF RunAdd, Runs
<1>2. CASE RunPut
  BY <1>2, Writes, WriteInv DEF RunPut, Runs
<1>3. CASE RunDelete
  BY <1>3, Writes, WriteInv DEF RunDelete, Runs
<1>4. CASE RunLoad
  <2>1. queue # <<>> /\ Head(queue).kind = "load" /\ Continue(Head(queue), <<>>)
    BY <1>4 DEF RunLoad, Runs
  <2>2. Head(queue).tab \in Tabs /\ Head(queue).hash \in Hashes
    BY <2>1, HeadRequest DEF Inv, TypeOK
  <2>3. timers' \subseteq [tab : Tabs, hash : Hashes]
    BY <1>0, <1>4, <2>2 DEF RunLoad
  <2>4. UNCHANGED <<store, ghosts, digesting, ops, shown>>
    BY <1>4 DEF RunLoad
  <2> QED BY <1>0, <2>1, <2>3, <2>4, ReadInv
<1>5. CASE RunGetAll
  <2>1. queue # <<>> /\ Continue(Head(queue), <<>>)
    BY <1>5 DEF RunGetAll, Runs
  <2>2. shown' \in [Tabs -> Store]
    BY <1>0, <1>5 DEF RunGetAll, Inv, TypeOK
  <2>3. UNCHANGED <<store, ghosts, digesting, ops, timers>>
    BY <1>5 DEF RunGetAll
  <2> QED BY <1>0, <2>1, <2>2, <2>3, ReadInv
<1>6. CASE WriteFails
  <2>1. queue # <<>> /\ Tail(queue) \in Seq(Requests)
        /\ Elements(Tail(queue)) \subseteq Elements(queue)
    BY <1>6, ElementsTail DEF WriteFails, Inv, TypeOK
  <2>2. TypeOK'
    BY <1>6, <2>1 DEF WriteFails, Inv, TypeOK, ghosts
  <2>3. \A h \in Hashes, time \in 0..MaxOps : Known(h, time) => Known(h, time)'
    BY <1>6 DEF WriteFails, Known, ghosts
  <2>4. PutsWereRead'
    BY <1>6, <2>1, <2>3, PutsStay DEF WriteFails, Inv, TypeOK
  <2> QED BY <2>2, <2>4 DEF Inv
<1>7. CASE RunRename
  BY <1>7, RenameInv
<1> QED BY <1>1, <1>2, <1>3, <1>4, <1>5, <1>6, <1>7 DEF RunRequest

\* No step leaves the invariant.
LEMMA NextInv ==
  ASSUME Inv, [Next]_vars
  PROVE  Inv'
<1>1. CASE \E tab \in Tabs, h \in Hashes :
             \/ ParseLog(tab, h) \/ DeleteEntry(tab, h) \/ LoadEntry(tab, h)
             \/ \E n \in NewNames : RenameEntry(tab, h, n)
  BY <1>1, PageInv
<1>2. CASE \E d \in digesting : AddEntry(d)
  BY <1>2, AddEntryInv
<1>3. CASE \E t \in timers : ClickParse(t)
  BY <1>3, ClickParseInv
<1>4. CASE RunRequest
  BY <1>4, RunInv
<1>5. CASE UNCHANGED vars
  BY <1>5 DEF vars, Inv, TypeOK, PutsWereRead, Known
<1> QED BY <1>1, <1>2, <1>3, <1>4, <1>5 DEF Next

LEMMA InvCorrect == Spec => []Inv
<1>1. Init => Inv
  <2> SUFFICES ASSUME Init PROVE Inv
    OBVIOUS
  <2>1. queue \in Seq(Requests) /\ DOMAIN queue = {}
    BY DEF Init
  <2> QED BY <2>1, MaxOpsAssumption DEF Init, Inv, TypeOK, PutsWereRead, Store
<1> QED BY <1>1, NextInv, PTL DEF Spec

\* Whatever the pages do, the store, the queue and the tables keep their types.
THEOREM HistoryTypeCorrect == Spec => []TypeOK
<1>1. Inv => TypeOK
  BY DEF Inv
<1> QED BY <1>1, InvCorrect, PTL

-----------------------------------------------------------------------------
(* The abstract history *)

\* A write that leaves the store alone leaves what is gone alone.
LEMMA WriteNothing ==
  ASSUME Inv, NEW r, Write(r, store)
  PROVE  UNCHANGED <<store, gone>>
<1>1. \A h \in Hashes : store[h] # NoEntry => SameLog(store[h], store[h])
  BY SameLogSelf DEF Inv, TypeOK, Store
<1> QED BY <1>1 DEF Write, Inv, TypeOK

\* A write of one entry: what happens to that entry is all that happens.
LEMMA WriteOne ==
  ASSUME Inv, NEW r, NEW h \in Hashes, NEW e \in Entry \cup {NoEntry},
         Write(r, [store EXCEPT ![h] = e])
  PROVE  /\ store' = [store EXCEPT ![h] = e]
         /\ gone' = [gone EXCEPT ![h] = IF store[h] # NoEntry /\ ~SameLog(store[h], e)
                                        THEN gone[h] \cup {store[h].created} ELSE gone[h]]
<1>1. \A x \in Hashes : store[x] # NoEntry => SameLog(store[x], store[x])
  BY SameLogSelf DEF Inv, TypeOK, Store
<1>2. store \in [Hashes -> Entry \cup {NoEntry}] /\ gone \in [Hashes -> SUBSET (0..MaxOps)]
  BY DEF Inv, TypeOK, Store
<1>3. /\ store' = [store EXCEPT ![h] = e]
      /\ gone' = [x \in Hashes |->
                    IF store[x] # NoEntry /\ ~SameLog(store[x], [store EXCEPT ![h] = e][x])
                    THEN gone[x] \cup {store[x].created} ELSE gone[x]]
  BY DEF Write
<1> QED BY <1>1, <1>2, <1>3

\* The steps of the writes are steps of LogStore.
LEMMA AddStep ==
  ASSUME Inv, RunAdd
  PROVE  [Logs!Next]_(Logs!vars)
<1> DEFINE r == Head(queue)
<1>1. r.hash \in Hashes /\ r.entry \in Saved /\ r.entry \in Entry
  BY HeadRequest, EntryType DEF RunAdd, Runs, Inv, TypeOK
<1>2. CASE store[r.hash] = NoEntry /\ r.page
  <2>1. /\ store' = [store EXCEPT ![r.hash] = r.entry]
        /\ gone' = [gone EXCEPT ![r.hash] = gone[r.hash]]
    <3>1. Write(r, [store EXCEPT ![r.hash] = r.entry])
      BY <1>2 DEF RunAdd
    <3> HIDE DEF r
    <3>2. /\ store' = [store EXCEPT ![r.hash] = r.entry]
          /\ gone' = [gone EXCEPT ![r.hash] =
                        IF store[r.hash] # NoEntry /\ ~SameLog(store[r.hash], r.entry)
                        THEN gone[r.hash] \cup {store[r.hash].created} ELSE gone[r.hash]]
      BY <1>1, <3>1, WriteOne
    <3> QED BY <1>2, <3>2
  <2>2. gone' = gone
    BY <2>1 DEF Inv, TypeOK
  <2>3. r.entry.created \in 0..MaxOps
        /\ r.entry = [name |-> ParsedName, created |-> r.entry.created]
    BY <1>1 DEF Saved
  <2>4. Logs!Save(r.hash, r.entry.created)
    BY <1>2, <2>1, <2>2, <2>3 DEF Logs!Save
  <2> QED BY <1>1, <2>3, <2>4 DEF Logs!Next
<1>3. CASE ~(store[r.hash] = NoEntry /\ r.page)
  BY <1>3, WriteNothing DEF RunAdd, Logs!vars
<1> QED BY <1>2, <1>3

LEMMA PutStep ==
  ASSUME Inv, RunPut
  PROVE  [Logs!Next]_(Logs!vars)
<1> DEFINE r == Head(queue)
           h == r.hash
           old == store[h]
<1>1. /\ h \in Hashes /\ r.entry \in Renamed /\ r.entry \in Entry
      /\ r = queue[1] /\ 1 \in DOMAIN queue /\ r.kind = "put"
  BY HeadRequest, EntryType DEF RunPut, Runs, Inv, TypeOK
<1>2. /\ r.entry.name \in NewNames /\ r.entry.created \in 0..MaxOps
      /\ r.entry = [name |-> r.entry.name, created |-> r.entry.created]
      /\ r.entry # NoEntry
  BY <1>1, EntryType DEF Renamed
<1>3. Known(h, r.entry.created)
  BY <1>1 DEF Inv, PutsWereRead
<1>4. /\ store' = [store EXCEPT ![h] = r.entry]
      /\ gone' = [gone EXCEPT ![h] = IF old # NoEntry /\ ~SameLog(old, r.entry)
                                     THEN gone[h] \cup {old.created} ELSE gone[h]]
  BY <1>1, WriteOne DEF RunPut
<1>5. old \in Entry \cup {NoEntry} /\ gone \in [Hashes -> SUBSET (0..MaxOps)]
  BY <1>1 DEF Inv, TypeOK, Store
<1> HIDE DEF r, h, old
<1>6. CASE old # NoEntry /\ old.created = r.entry.created
  <2>1. r.entry = [old EXCEPT !.name = r.entry.name]
    BY <1>2, <1>5, <1>6 DEF Entry
  <2>2. SameLog(old, r.entry)
    BY <1>2, <2>1 DEF SameLog
  <2>3. gone' = gone
    BY <1>4, <1>5, <2>2
  <2>4. Logs!Rename(h, r.entry.name)
    BY <1>4, <1>6, <2>1, <2>3 DEF Logs!Rename, old
  <2> QED BY <1>1, <1>2, <2>4 DEF Logs!Next
<1>7. CASE old = NoEntry \/ old.created # r.entry.created
  <2>1. r.entry.created \in gone[h]
    BY <1>3, <1>7 DEF Known, old
  <2>2. old # NoEntry => ~SameLog(old, r.entry)
    BY <1>5, <1>7 DEF SameLog, Entry
  <2>3. gone' = IF old = NoEntry THEN gone
                ELSE [gone EXCEPT ![h] = gone[h] \cup {old.created}]
    BY <1>4, <1>5, <2>2
  <2>4. Logs!BringBack(h, r.entry.name, r.entry.created)
    BY <1>2, <1>4, <2>1, <2>3 DEF Logs!BringBack, old
  <2> QED BY <1>1, <1>2, <2>4 DEF Logs!Next
<1> QED BY <1>6, <1>7

LEMMA DeleteStep ==
  ASSUME Inv, RunDelete
  PROVE  [Logs!Next]_(Logs!vars)
<1> DEFINE h == Head(queue).hash
<1>1. h \in Hashes
  BY HeadRequest DEF RunDelete, Runs, Inv, TypeOK
<1>2. /\ store' = [store EXCEPT ![h] = NoEntry]
      /\ gone' = [gone EXCEPT ![h] = IF store[h] # NoEntry /\ ~SameLog(store[h], NoEntry)
                                     THEN gone[h] \cup {store[h].created} ELSE gone[h]]
  BY <1>1, WriteOne DEF RunDelete
<1> HIDE DEF h
<1>3. ~SameLog(store[h], NoEntry) /\ DOMAIN store = Hashes /\ DOMAIN gone = Hashes
      /\ store = [x \in Hashes |-> store[x]] /\ gone = [x \in Hashes |-> gone[x]]
  BY DEF SameLog, Inv, TypeOK, Store
<1>4. CASE store[h] = NoEntry
  BY <1>2, <1>3, <1>4 DEF Logs!vars
<1>5. CASE store[h] # NoEntry
  <2>1. Logs!Delete(h)
    BY <1>2, <1>3, <1>5 DEF Logs!Delete
  <2> QED BY <1>1, <2>1 DEF Logs!Next
<1> QED BY <1>4, <1>5

\* The history implements LogStore: whatever pages do and in whatever order the
\* database answers, a log is saved once, a rename changes the name only, and an entry
\* that comes back is one that was there (history.js, 28-186).
THEOREM HistoryImplementsLogStore == Spec => ImplementsLogStore
<1>1. Init => Logs!Init
  BY DEF Init, Logs!Init
<1>2. Inv /\ [Next]_vars => [Logs!Next]_(Logs!vars)
  <2> SUFFICES ASSUME Inv, [Next]_vars PROVE [Logs!Next]_(Logs!vars)
    OBVIOUS
  <2>1. CASE UNCHANGED <<store, gone>>
    BY <2>1 DEF Logs!vars
  <2>2. CASE RunAdd \/ RunPut \/ RunDelete
    BY <2>2, AddStep, PutStep, DeleteStep
  <2>3. ASSUME ~(RunAdd \/ RunPut \/ RunDelete)
        PROVE  UNCHANGED <<store, gone>>
    BY <2>3 DEF Next, ParseLog, DeleteEntry, LoadEntry, RenameEntry, AddEntry, ClickParse,
                LoadPage, RunRequest, RunRename, RunLoad, RunGetAll, WriteFails, ghosts, vars
  <2> QED BY <2>1, <2>2, <2>3
<1> QED BY <1>1, <1>2, InvCorrect, PTL DEF Spec, Logs!Spec, ImplementsLogStore

\* Saving a log that is there leaves its entry and the name the user gave it alone
\* (addEntry gets and puts in one transaction, history.js, 62-91).
THEOREM OnlyRenameChangesCorrect == Spec => OnlyRenameChanges
<1>1. Inv /\ [Next]_vars =>
        \A h \in Hashes :
          store[h] # NoEntry /\ store'[h] \notin {NoEntry, store[h]} =>
            queue # <<>> /\ Head(queue).kind = "put"
  <2> SUFFICES ASSUME Inv, [Next]_vars, NEW h \in Hashes, store[h] # NoEntry,
                      store'[h] \notin {NoEntry, store[h]}
               PROVE  queue # <<>> /\ Head(queue).kind = "put"
    OBVIOUS
  <2>1. store \in [Hashes -> Entry \cup {NoEntry}]
    BY DEF Inv, TypeOK, Store
  <2>2. CASE RunAdd
    BY <2>1, <2>2 DEF RunAdd, Write
  <2>3. CASE RunDelete
    BY <2>1, <2>3 DEF RunDelete, Write
  <2>4. CASE RunPut
    BY <2>4 DEF RunPut, Runs
  <2>5. ASSUME ~(RunAdd \/ RunPut \/ RunDelete)
        PROVE  UNCHANGED store
    BY <2>5 DEF Next, ParseLog, DeleteEntry, LoadEntry, RenameEntry, AddEntry, ClickParse,
                LoadPage, RunRequest, RunRename, RunLoad, RunGetAll, WriteFails, ghosts, vars
  <2> QED BY <2>2, <2>3, <2>4, <2>5
<1> QED BY <1>1, InvCorrect, PTL DEF Spec, OnlyRenameChanges
-----------------------------------------------------------------------------
(* What is shown *)

\* The first transaction runs and transactions of a page that is there are added: the
\* others move up, and those of pages that are gone stay followed.
LEMMA QueueMoves ==
  ASSUME queue \in Seq(Requests), queue # <<>>, NEW next \in Seq(Requests),
         \A x \in Elements(next) : x.page, queue' = Tail(queue) \o next
  PROVE  /\ \A i \in DOMAIN queue : i # 1 => i - 1 \in DOMAIN queue' /\ queue'[i - 1] = queue[i]
         /\ \A i \in DOMAIN next : \E j \in DOMAIN queue' : queue'[j] = next[i]
         /\ OrphansAreFollowed => OrphansAreFollowed'
<1> DEFINE t == Tail(queue)
<1>1. /\ t \in Seq(Requests) /\ Len(t) = Len(queue) - 1 /\ Len(queue) \in Nat
      /\ \A i \in 1..Len(t) : t[i] = queue[i + 1]
      /\ DOMAIN queue = 1..Len(queue)
  BY HeadTailProperties, LenProperties
<1> HIDE DEF t
<1>2. /\ DOMAIN next = 1..Len(next) /\ Len(next) \in Nat
      /\ DOMAIN queue' = 1..(Len(t) + Len(next))
      /\ \A i \in 1..(Len(t) + Len(next)) :
           queue'[i] = IF i <= Len(t) THEN t[i] ELSE next[i - Len(t)]
  BY <1>1, ConcatProperties, LenProperties DEF t
<1>3. \A i \in DOMAIN queue : i # 1 => i - 1 \in DOMAIN queue' /\ queue'[i - 1] = queue[i]
  <2> SUFFICES ASSUME NEW i \in DOMAIN queue, i # 1
               PROVE  i - 1 \in DOMAIN queue' /\ queue'[i - 1] = queue[i]
    OBVIOUS
  <2>1. i - 1 \in 1..Len(t) /\ i - 1 \in 1..(Len(t) + Len(next)) /\ (i - 1) + 1 = i
    BY <1>1, <1>2
  <2> QED BY <1>1, <1>2, <2>1
<1>4. \A i \in DOMAIN next : \E j \in DOMAIN queue' : queue'[j] = next[i]
  <2> SUFFICES ASSUME NEW i \in DOMAIN next PROVE \E j \in DOMAIN queue' : queue'[j] = next[i]
    OBVIOUS
  <2>1. /\ Len(t) + i \in 1..(Len(t) + Len(next)) /\ ~(Len(t) + i <= Len(t))
        /\ (Len(t) + i) - Len(t) = i
    BY <1>1, <1>2
  <2> QED BY <1>2, <2>1
<1>5. ASSUME OrphansAreFollowed, NEW k \in DOMAIN queue', ~queue'[k].page
      PROVE  \E j \in DOMAIN queue' : k < j /\ queue'[j] = GetAll(queue'[k].tab)
  <2>1. k <= Len(t)
    <3> SUFFICES ASSUME ~(k <= Len(t)) PROVE FALSE
      OBVIOUS
    <3>1. k - Len(t) \in DOMAIN next /\ queue'[k] = next[k - Len(t)]
      BY <1>1, <1>2
    <3> QED BY <1>5, <3>1 DEF Elements
  <2>2. k + 1 \in DOMAIN queue /\ queue'[k] = queue[k + 1] /\ k \in Nat
    BY <1>1, <1>2, <2>1
  <2>3. PICK j \in DOMAIN queue : k + 1 < j /\ queue[j] = GetAll(queue[k + 1].tab)
    BY <1>5, <2>2 DEF OrphansAreFollowed, Redraws
  <2>4. j \in Nat /\ j # 1 /\ k < j - 1
    BY <1>1, <2>2, <2>3
  <2>5. j - 1 \in DOMAIN queue' /\ queue'[j - 1] = queue[j]
    BY <1>3, <2>4
  <2> QED BY <2>2, <2>3, <2>4, <2>5
<1>6. OrphansAreFollowed => OrphansAreFollowed'
  BY <1>5 DEF OrphansAreFollowed, Redraws
<1> QED BY <1>3, <1>4, <1>6

\* What is shown, said of the queue.
ShownInv == ShownOrRedrawn /\ OrphansAreFollowed

\* A transaction of a page that is there is added at the end (history.js, 62-64,
\* 112-114, 136-145, 159-164).
LEMMA AddedShown ==
  ASSUME Inv, ShownInv, NEW r \in Requests, r.page, queue' = Append(queue, r),
         UNCHANGED <<store, shown, ghosts>>
  PROVE  ShownInv'
<1>1. /\ queue \in Seq(Requests) /\ Len(queue) \in Nat /\ DOMAIN queue = 1..Len(queue)
      /\ DOMAIN queue' = 1..(Len(queue) + 1) /\ queue'[Len(queue) + 1] = r
      /\ \A i \in 1..Len(queue) : queue'[i] = queue[i]
  BY AppendProperties, LenProperties DEF Inv, TypeOK
<1>2. \A i \in DOMAIN queue : i \in DOMAIN queue' /\ queue'[i] = queue[i]
  BY <1>1
<1>3. \A i \in DOMAIN queue' : i \in DOMAIN queue \/ queue'[i] = r
  BY <1>1
<1>4. ShownOrRedrawn'
  BY <1>2 DEF ShownInv, ShownOrRedrawn, Redraws, ghosts
<1>5. OrphansAreFollowed'
  BY <1>2, <1>3 DEF ShownInv, OrphansAreFollowed, Redraws
<1> QED BY <1>4, <1>5 DEF ShownInv

\* A new page: what it leaves behind is followed by its first rendering
\* (history.js, 275-312).
LEMMA LoadPageShown ==
  ASSUME Inv, ShownInv, NEW tab \in Tabs, NEW h \in Hashes, LoadPage(tab, h)
  PROVE  ShownInv'
<1> DEFINE q == [i \in DOMAIN queue |-> Orphaned(queue[i], tab)]
           n == Len(queue) + 1
<1>1. /\ queue \in Seq(Requests) /\ Len(queue) \in Nat /\ DOMAIN queue = 1..Len(queue)
      /\ \A i \in DOMAIN queue : queue[i] \in Requests
  BY LenProperties DEF Inv, TypeOK
<1>2. \A i \in DOMAIN queue : Orphaned(queue[i], tab) \in Requests
  BY <1>1, OrphanType
<1>3. /\ q \in Seq(Requests) /\ Len(q) = Len(queue)
      /\ \A i \in DOMAIN queue : q[i] = Orphaned(queue[i], tab)
  <2>1. q \in [1..Len(queue) -> Requests]
    BY <1>1, <1>2
  <2>2. q \in Seq(Requests) /\ DOMAIN q = 1..Len(queue)
    BY <1>1, <2>1, SeqDef
  <2> QED BY <1>1, <2>2, LenProperties
<1>4. queue' = Append(q, GetAll(tab)) /\ UNCHANGED <<store, shown, ghosts>>
  BY DEF LoadPage
<1>5. GetAll(tab) \in Requests /\ GetAll(tab).page
  BY DEF GetAll, Requests
<1> HIDE DEF q
<1>6. /\ DOMAIN queue' = 1..n /\ queue'[n] = GetAll(tab)
      /\ \A i \in DOMAIN queue : queue'[i] = q[i]
  BY <1>1, <1>3, <1>4, <1>5, AppendProperties, LenProperties
<1>7. /\ n \in DOMAIN queue'
      /\ \A i \in DOMAIN queue :
           i \in DOMAIN queue' /\ i < n /\ queue'[i] = Orphaned(queue[i], tab)
      /\ \A i \in DOMAIN queue' : i \in DOMAIN queue \/ queue'[i] = GetAll(tab)
  BY <1>1, <1>3, <1>6
<1> HIDE DEF n
<1>8. /\ \A i \in DOMAIN queue : Orphaned(queue[i], tab).tab = queue[i].tab
      /\ \A i \in DOMAIN queue : queue[i].tab # tab => queue'[i] = queue[i]
      /\ \A t : GetAll(t).tab = t
  BY <1>1, <1>7 DEF Orphaned, Requests, GetAll
<1>9. ShownOrRedrawn'
  <2>1. CASE changedBy = tab
    BY <1>4, <1>6, <1>7, <2>1 DEF ShownOrRedrawn, Redraws, ghosts
  <2>2. CASE changedBy # tab
    <3>1. \A i \in DOMAIN queue : queue[i] = GetAll(changedBy) => queue'[i] = queue[i]
      BY <1>8, <2>2
    <3> QED BY <1>4, <1>7, <3>1 DEF ShownInv, ShownOrRedrawn, Redraws, ghosts
  <2> QED BY <2>1, <2>2
<1>10. ASSUME NEW i \in DOMAIN queue', ~queue'[i].page
       PROVE  \E j \in DOMAIN queue' : i < j /\ queue'[j] = GetAll(queue'[i].tab)
  <2>1. i \in DOMAIN queue /\ queue'[i] = Orphaned(queue[i], tab) /\ i < n
    BY <1>5, <1>7, <1>10
  <2>2. CASE queue[i].tab = tab
    BY <1>6, <1>7, <1>8, <2>1, <2>2
  <2>3. CASE queue[i].tab # tab
    <3>1. queue'[i] = queue[i] /\ ~queue[i].page
      BY <1>10, <2>1, <2>3 DEF Orphaned
    <3>2. PICK j \in DOMAIN queue : i < j /\ queue[j] = GetAll(queue[i].tab)
      BY <2>1, <3>1 DEF ShownInv, OrphansAreFollowed, Redraws
    <3>3. j \in DOMAIN queue' /\ queue'[j] = queue[j]
      BY <1>7, <1>8, <2>3, <3>2
    <3> QED BY <3>1, <3>2, <3>3
  <2> QED BY <2>2, <2>3
<1>11. OrphansAreFollowed'
  BY <1>10 DEF OrphansAreFollowed, Redraws
<1> QED BY <1>9, <1>11 DEF ShownInv

\* The first transaction runs and no write and no rendering happens.
LEMMA QuietShown ==
  ASSUME Inv, ShownInv, queue # <<>>, NEW next \in Seq(Requests),
         \A x \in Elements(next) : x.page, queue' = Tail(queue) \o next,
         Head(queue) # GetAll(changedBy), UNCHANGED <<store, shown, ghosts>>
  PROVE  ShownInv'
<1>1. queue \in Seq(Requests) /\ Head(queue) = queue[1]
  BY HeadRequest DEF Inv, TypeOK
<1>2. /\ \A i \in DOMAIN queue : i # 1 => i - 1 \in DOMAIN queue' /\ queue'[i - 1] = queue[i]
      /\ OrphansAreFollowed'
  BY <1>1, QueueMoves DEF ShownInv
<1>3. ShownOrRedrawn'
  BY <1>1, <1>2 DEF ShownInv, ShownOrRedrawn, Redraws, ghosts
<1> QED BY <1>2, <1>3 DEF ShownInv

\* Whatever goes on after a transaction, it is the rest of the queue and transactions
\* of a page that is there.
LEMMA ContinueMoves ==
  ASSUME NEW r, NEW next \in Seq(Requests), \A x \in Elements(next) : x.page,
         Continue(r, next)
  PROVE  \E added \in Seq(Requests) :
           /\ \A x \in Elements(added) : x.page
           /\ queue' = Tail(queue) \o added
           /\ r.page => added = next
<1>1. <<>> \in Seq(Requests) /\ Elements(<<>>) = {}
  BY DEF Elements
<1> QED BY <1>1 DEF Continue

\* A write: the page that made it renders the table next, or is gone, and then the
\* page that replaced it has not rendered its table yet (history.js, 66-91, 124-134,
\* 147-156, 179-186).
LEMMA WriteShown ==
  ASSUME Inv, ShownInv, queue # <<>>, NEW new, Write(Head(queue), new),
         Continue(Head(queue), <<GetAll(Head(queue).tab)>>),
         Head(queue).kind # "getAll", UNCHANGED shown
  PROVE  ShownInv'
<1> DEFINE r == Head(queue)
           all == GetAll(r.tab)
           next == <<all>>
<1>1. queue \in Seq(Requests) /\ r \in Requests /\ r.tab \in Tabs /\ r = queue[1] /\ 1 \in DOMAIN queue
  BY HeadRequest DEF Inv, TypeOK
<1>2. all \in Requests /\ all.page /\ all.kind = "getAll"
  BY <1>1 DEF GetAll, Requests
<1> HIDE DEF all
<1>3. next \in Seq(Requests) /\ Elements(next) = {all} /\ 1 \in DOMAIN next /\ next[1] = all
  BY <1>2 DEF Elements
<1>4. Continue(r, next)
  BY DEF all
<1> HIDE DEF next
<1>5. PICK added \in Seq(Requests) :
        /\ \A x \in Elements(added) : x.page
        /\ queue' = Tail(queue) \o added
        /\ r.page => added = next
  BY <1>2, <1>3, <1>4, ContinueMoves
<1>6. /\ \A i \in DOMAIN queue : i # 1 => i - 1 \in DOMAIN queue' /\ queue'[i - 1] = queue[i]
      /\ \A i \in DOMAIN added : \E j \in DOMAIN queue' : queue'[j] = added[i]
      /\ OrphansAreFollowed'
  BY <1>1, <1>5, QueueMoves DEF ShownInv
<1>7. CASE new = store
  <2>1. UNCHANGED <<store, changedBy>>
    BY <1>7 DEF Write
  <2>2. r # GetAll(changedBy)
    BY DEF GetAll
  <2>3. ShownOrRedrawn'
    BY <1>1, <1>6, <2>1, <2>2 DEF ShownInv, ShownOrRedrawn, Redraws
  <2> QED BY <1>6, <2>3 DEF ShownInv
<1>8. CASE new # store
  <2>1. changedBy' = r.tab
    BY <1>8 DEF Write
  <2>2. \E j \in DOMAIN queue' : queue'[j] = all
    <3>1. CASE r.page
      <4>1. 1 \in DOMAIN added /\ added[1] = all
        BY <1>3, <1>5, <3>1
      <4> QED BY <1>6, <4>1
    <3>2. CASE ~r.page
      <4>1. PICK j \in DOMAIN queue : 1 < j /\ queue[j] = all
        BY <1>1, <3>2 DEF ShownInv, OrphansAreFollowed, Redraws, all
      <4> QED BY <1>6, <4>1
    <3> QED BY <3>1, <3>2
  <2>3. ShownOrRedrawn'
    BY <2>1, <2>2 DEF ShownOrRedrawn, Redraws, all
  <2> QED BY <1>6, <2>3 DEF ShownInv
<1> QED BY <1>7, <1>8

\* The table of a page that is there is rendered from the store (history.js, 188-272).
LEMMA GetAllShown ==
  ASSUME Inv, ShownInv, RunGetAll
  PROVE  ShownInv'
<1> DEFINE r == Head(queue)
<1>1. queue # <<>> /\ Continue(r, <<>>) /\ UNCHANGED <<store, changedBy, ghosts>>
  BY DEF RunGetAll, Runs, ghosts
<1>2. <<>> \in Seq(Requests) /\ Elements(<<>>) = {} /\ queue \in Seq(Requests)
      /\ r.tab \in Tabs /\ shown \in [Tabs -> Store] /\ changedBy \in Tabs
  BY <1>1, HeadRequest DEF Elements, Inv, TypeOK
<1>3. queue' = Tail(queue) \o <<>>
  BY <1>1 DEF Continue
<1>4. CASE r = GetAll(changedBy)
  <2>1. shown'[changedBy] = store
    BY <1>2, <1>4 DEF RunGetAll, GetAll
  <2>2. OrphansAreFollowed'
    BY <1>1, <1>2, <1>3, QueueMoves DEF ShownInv
  <2> QED BY <1>1, <2>1, <2>2 DEF ShownInv, ShownOrRedrawn
<1>5. CASE r # GetAll(changedBy)
  <2>1. CASE UNCHANGED shown
    BY <1>1, <1>2, <1>3, <1>5, <2>1, QuietShown
  <2>2. CASE shown' # shown
    <3>1. r.page /\ r.kind = "getAll" /\ shown' = [shown EXCEPT ![r.tab] = store]
      BY <2>2 DEF RunGetAll, Runs
    <3>2. r.tab # changedBy
      <4>1. r \in [tab : Tabs, kind : {"getAll"}, page : BOOLEAN]
        BY <1>1, <1>2, <3>1, HeadRequest DEF Requests
      <4>2. r = GetAll(r.tab)
        BY <3>1, <4>1 DEF GetAll
      <4> QED BY <1>5, <4>2
    <3>3. shown'[changedBy] = shown[changedBy]
      BY <1>2, <3>1, <3>2
    <3>4. /\ \A i \in DOMAIN queue : i # 1 => i - 1 \in DOMAIN queue' /\ queue'[i - 1] = queue[i]
          /\ OrphansAreFollowed'
      BY <1>1, <1>2, <1>3, QueueMoves DEF ShownInv
    <3>5. r = queue[1]
      BY <1>1, <1>2, HeadRequest
    <3>6. ShownOrRedrawn'
      BY <1>1, <1>5, <3>3, <3>4, <3>5 DEF ShownInv, ShownOrRedrawn, Redraws
    <3> QED BY <3>4, <3>6 DEF ShownInv
  <2> QED BY <2>1, <2>2
<1> QED BY <1>4, <1>5

\* A rename reads the entry and puts it afterwards, in a transaction of its own
\* (history.js, 112-122, 174-181).
LEMMA RenameShown ==
  ASSUME Inv, ShownInv, RunRename
  PROVE  ShownInv'
<1> DEFINE r == Head(queue)
           put == Request(r.tab, "put", r.hash, [store[r.hash] EXCEPT !.name = r.entry])
<1>1. queue # <<>> /\ r.kind = "rename" /\ UNCHANGED <<store, shown, ghosts>>
  BY DEF RunRename, Runs
<1>2. r # GetAll(changedBy)
  BY <1>1 DEF GetAll
<1>3. \E added \in Seq(Requests) :
        (\A x \in Elements(added) : x.page) /\ queue' = Tail(queue) \o added
  <2>1. <<>> \in Seq(Requests) /\ Elements(<<>>) = {}
    BY DEF Elements
  <2>2. CASE store[r.hash] = NoEntry \/ ~r.page
    <3>1. queue' = Tail(queue) \o <<>>
      BY <2>2 DEF RunRename, Continue
    <3> QED BY <2>1, <3>1
  <2>3. CASE store[r.hash] # NoEntry /\ r.page
    <3>1. r.tab \in Tabs /\ r.hash \in Hashes /\ r.entry \in NewNames
      BY <1>1, HeadRequest DEF Inv, TypeOK
    <3>2. store[r.hash] \in Entry
      BY <2>3, <3>1 DEF Inv, TypeOK, Store
    <3>3. [store[r.hash] EXCEPT !.name = r.entry] \in Renamed
      BY <3>1, <3>2, EntryType
    <3>4. put \in Requests /\ put.page
      BY <3>1, <3>3 DEF Request, Requests
    <3>5. queue' = Tail(queue) \o <<put>>
      BY <2>3 DEF RunRename, Continue
    <3> HIDE DEF put
    <3>6. <<put>> \in Seq(Requests) /\ \A x \in Elements(<<put>>) : x.page
      BY <3>4 DEF Elements
    <3> QED BY <3>5, <3>6
  <2> QED BY <2>2, <2>3
<1> QED BY <1>1, <1>2, <1>3, QuietShown

LEMMA NextShown ==
  ASSUME Inv, ShownInv, [Next]_vars
  PROVE  ShownInv'
<1>0. <<>> \in Seq(Requests) /\ Elements(<<>>) = {}
  BY DEF Elements
<1>1. ASSUME NEW tab \in Tabs, NEW h \in Hashes, ParseLog(tab, h) PROVE ShownInv'
  BY <1>1, LoadPageShown DEF ParseLog
<1>2. ASSUME NEW tab \in Tabs, NEW h \in Hashes, DeleteEntry(tab, h) PROVE ShownInv'
  <2>1. Request(tab, "delete", h, NoEntry) \in Requests /\ Request(tab, "delete", h, NoEntry).page
    BY DEF Request, Requests
  <2> QED BY <1>2, <2>1, AddedShown DEF DeleteEntry
<1>3. ASSUME NEW tab \in Tabs, NEW h \in Hashes, LoadEntry(tab, h) PROVE ShownInv'
  <2>1. Request(tab, "load", h, NoEntry) \in Requests /\ Request(tab, "load", h, NoEntry).page
    BY DEF Request, Requests
  <2> QED BY <1>3, <2>1, AddedShown DEF LoadEntry
<1>4. ASSUME NEW tab \in Tabs, NEW h \in Hashes, NEW n \in NewNames, RenameEntry(tab, h, n)
      PROVE  ShownInv'
  <2>1. Request(tab, "rename", h, n) \in Requests /\ Request(tab, "rename", h, n).page
    BY DEF Request, Requests
  <2> QED BY <1>4, <2>1, AddedShown DEF RenameEntry
<1>5. ASSUME NEW d \in digesting, AddEntry(d) PROVE ShownInv'
  <2> DEFINE r == Request(d.tab, "add", d.hash, [name |-> ParsedName, created |-> d.created])
  <2>1. d \in [tab : Tabs, hash : Hashes, created : 0..MaxOps]
    BY DEF Inv, TypeOK
  <2>2. r \in Requests /\ r.page
    BY <2>1 DEF Request, Requests, Saved
  <2>3. queue' = Append(queue, r) /\ UNCHANGED <<store, shown, ghosts>>
    BY <1>5 DEF AddEntry
  <2> HIDE DEF r
  <2> QED BY <2>2, <2>3, AddedShown
<1>6. ASSUME NEW t \in timers, ClickParse(t) PROVE ShownInv'
  BY <1>6, LoadPageShown DEF ClickParse, Inv, TypeOK
<1>7. CASE RunAdd
  BY <1>7, WriteShown DEF RunAdd, Runs
<1>8. CASE RunPut
  BY <1>8, WriteShown DEF RunPut, Runs
<1>9. CASE RunDelete
  BY <1>9, WriteShown DEF RunDelete, Runs
<1>10. CASE RunRename
  BY <1>10, RenameShown
<1>11. CASE RunGetAll
  BY <1>11, GetAllShown
<1>12. CASE RunLoad
  <2>1. queue # <<>> /\ Head(queue) # GetAll(changedBy) /\ UNCHANGED <<store, shown, ghosts>>
    BY <1>12 DEF RunLoad, Runs, GetAll
  <2>2. queue' = Tail(queue) \o <<>>
    BY <1>12 DEF RunLoad, Continue
  <2> QED BY <1>0, <2>1, <2>2, QuietShown
<1>13. CASE WriteFails
  <2>1. queue # <<>> /\ Head(queue) # GetAll(changedBy) /\ UNCHANGED <<store, shown, ghosts>>
    BY <1>13 DEF WriteFails, IsWrite, GetAll
  <2>2. queue' = Tail(queue) \o <<>>
    BY <1>13, <2>1, ElementsTail, ConcatEmptySeq DEF WriteFails, Inv, TypeOK
  <2> QED BY <1>0, <2>1, <2>2, QuietShown
<1>14. CASE UNCHANGED vars
  BY <1>14 DEF vars, ShownInv, ShownOrRedrawn, OrphansAreFollowed, Redraws
<1> QED BY <1>1, <1>2, <1>3, <1>4, <1>5, <1>6, <1>7, <1>8, <1>9, <1>10, <1>11, <1>12,
           <1>13, <1>14 DEF Next, RunRequest

\* When nothing is under way the page that changed the store last shows what the store
\* holds, however many pages read, write, fail or are replaced (history.js, 147-150,
\* 179-181, 290-291, 299).
THEOREM HistoryShownIsStored == Spec => []ShownIsStored
<1>1. Init => ShownInv
  <2> SUFFICES ASSUME Init PROVE ShownInv
    OBVIOUS
  <2>1. DOMAIN queue = {} /\ shown[changedBy] = store
    BY DEF Init
  <2> QED BY <2>1 DEF ShownInv, ShownOrRedrawn, OrphansAreFollowed
<1>2. Inv /\ ShownInv /\ [Next]_vars => ShownInv'
  BY NextShown
<1>3. ShownInv => ShownIsStored
  <2>1. queue = <<>> => DOMAIN queue = {}
    OBVIOUS
  <2> QED BY <2>1 DEF ShownInv, ShownOrRedrawn, ShownIsStored, Quiet
<1> QED BY <1>1, <1>2, <1>3, InvCorrect, PTL DEF Spec
=============================================================================
