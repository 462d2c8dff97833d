-------------------------------- MODULE Store --------------------------------
(***************************************************************************)
(* src/internal/store/store.go: the SQLite store and its one connection,   *)
(* called by any number of request handlers in any order.                  *)
(*                                                                         *)
(* A call is a sequence of steps, and a step is what runs without giving   *)
(* the connection away: SetMaxOpenConns(1) makes every statement wait for  *)
(* it.  A statement outside a transaction takes the connection, runs and   *)
(* gives it back (one step); a transaction keeps it from BEGIN to COMMIT   *)
(* or ROLLBACK; a query keeps it until its rows are read to the end or     *)
(* closed.  Every step can fail (a cancelled context, an I/O error), which *)
(* ends the call with an error, rolls a transaction back and gives the     *)
(* connection up.                                                          *)
(***************************************************************************)
EXTENDS Integers, Sequences, FiniteSets, EntryTable, DeviceTable

CONSTANTS
    Dataset,      \* datasets, one per token
    Device,       \* device identifiers
    Name,         \* device names
    Blob,         \* payloads
    Handler,      \* goroutines that call the store
    None,         \* no handler, no value
    Cursor,       \* the cursors a caller may present
    Limit,        \* the page sizes a caller may ask for
    Time,         \* clock readings
    MaxBatch,     \* the longest batch of a call (BOUND)
    MaxLimit,     \* store.MaxLimit
    MaxSequence   \* the largest rowid: an INSERT beyond it fails (BOUND)

ASSUME NoneAssumption == None \notin Handler
ASSUME LimitAssumption == MaxLimit \in Nat \ {0} /\ Limit \subseteq Int
ASSUME CursorAssumption == Cursor \subseteq Nat
ASSUME BoundAssumption == MaxBatch \in Nat /\ MaxSequence \in Nat

VARIABLES
    entries,       \* committed rows of `entries`
    lastSequence,  \* the number AUTOINCREMENT keeps in sqlite_sequence
    devices,       \* committed rows of `devices`
    connection,    \* the handler that holds the connection, or None
    txEntries,     \* rows inserted by the open transaction
    txSequence,    \* sqlite_sequence inside the open transaction
    pc,            \* where each handler is in its call
    args,          \* the arguments of the call
    scanned,       \* Page: the rows of the query being read
    page,          \* Page: what it returns
    assigned,      \* Append: the sequence it returns
    listing,       \* Devices: what it returns
    removed,       \* RemoveDevice: what it returns
    offered        \* HISTORY: lastSequence when Page's query ran

tables  == <<entries, lastSequence, devices>>
txVars  == <<connection, txEntries, txSequence>>
results == <<scanned, page, assigned, listing, removed, offered>>
vars    == <<tables, txVars, pc, args, results>>

-----------------------------------------------------------------------------

Batches == UNION {[1..n -> Blob] : n \in 0..MaxBatch}

Entry == [sequence : Nat, dataset : Dataset, device : Device, blob : Blob]

Listing == [dataset : Dataset, device : Device, name : Name,
            firstSeen : Time, lastSeen : Time]

Args == [dataset : Dataset \cup {None}, device : Device \cup {None},
         name : Name \cup {None}, blobs : Batches,
         after : Cursor \cup {0}, limit : Limit \cup {0}, at : Time \cup {None}]

NoArgs == [dataset |-> None, device |-> None, name |-> None,
           blobs |-> <<>>, after |-> 0, limit |-> 0, at |-> None]

Page == [entries : SUBSET Entry, cursor : Nat, hasMore : BOOLEAN]

NoPage == [entries |-> {}, cursor |-> 0, hasMore |-> FALSE]

Returned == {"appended", "paged", "touched", "listed", "removed", "failed"}

Running == {"begin", "insert", "query", "scan", "highWater", "upsert", "list", "delete"}

Init ==
    /\ entries = {}
    /\ lastSequence = 0
    /\ devices = {}
    /\ connection = None
    /\ txEntries = {}
    /\ txSequence = 0
    /\ pc = [h \in Handler |-> "idle"]
    /\ args = [h \in Handler |-> NoArgs]
    /\ scanned = [h \in Handler |-> {}]
    /\ page = [h \in Handler |-> NoPage]
    /\ assigned = [h \in Handler |-> 0]
    /\ listing = [h \in Handler |-> {}]
    /\ removed = [h \in Handler |-> FALSE]
    /\ offered = [h \in Handler |-> 0]

-----------------------------------------------------------------------------
(* Calls and returns.  The results of a call last until the handler's next *)
(* call or until it lets them go.                                          *)

ClearResults(h) ==
    /\ scanned' = [scanned EXCEPT ![h] = {}]
    /\ page' = [page EXCEPT ![h] = NoPage]
    /\ assigned' = [assigned EXCEPT ![h] = 0]
    /\ listing' = [listing EXCEPT ![h] = {}]
    /\ removed' = [removed EXCEPT ![h] = FALSE]
    /\ offered' = [offered EXCEPT ![h] = 0]

Call(h, label, a) ==
    /\ pc[h] \notin Running
    /\ pc' = [pc EXCEPT ![h] = label]
    /\ args' = [args EXCEPT ![h] = a]
    /\ ClearResults(h)
    /\ UNCHANGED <<tables, txVars>>

\* An empty batch returns before the transaction begins.
CallAppend(h, dataset, device, blobs) ==
    Call(h, IF blobs = <<>> THEN "appended" ELSE "begin",
         [NoArgs EXCEPT !.dataset = dataset, !.device = device, !.blobs = blobs])

CallPage(h, dataset, device, after, limit) ==
    Call(h, "query",
         [NoArgs EXCEPT !.dataset = dataset, !.device = device,
                        !.after = after, !.limit = limit])

CallTouchDevice(h, dataset, device, name, at) ==
    Call(h, "upsert",
         [NoArgs EXCEPT !.dataset = dataset, !.device = device,
                        !.name = name, !.at = at])

CallDevices(h, dataset) ==
    Call(h, "list", [NoArgs EXCEPT !.dataset = dataset])

CallRemoveDevice(h, dataset, device) ==
    Call(h, "delete", [NoArgs EXCEPT !.dataset = dataset, !.device = device])

Return(h) ==
    /\ pc[h] \in Returned
    /\ pc' = [pc EXCEPT ![h] = "idle"]
    /\ args' = [args EXCEPT ![h] = NoArgs]
    /\ ClearResults(h)
    /\ UNCHANGED <<tables, txVars>>

-----------------------------------------------------------------------------
(* Append: one transaction for the whole batch.                            *)

\* WRONG: numbers from below the last number used.
BeginAppendBelow(h) ==
    /\ pc[h] = "begin"
    /\ connection = None
    /\ connection' = h
    /\ txEntries' = {}
    /\ txSequence' = lastSequence - 1
    /\ pc' = [pc EXCEPT ![h] = "insert"]
    /\ UNCHANGED <<tables, args, results>>

BeginAppend(h) ==
    /\ pc[h] = "begin"
    /\ connection = None
    /\ connection' = h
    /\ txEntries' = {}
    /\ txSequence' = lastSequence
    /\ pc' = [pc EXCEPT ![h] = "insert"]
    /\ UNCHANGED <<tables, args, results>>

Inserted == txSequence - lastSequence

Rest(h) == Len(args[h].blobs) - Inserted

\* WRONG: inserts the batch from its end.
InsertEntryFromEnd(h) ==
    /\ pc[h] = "insert"
    /\ Rest(h) > 0
    /\ txSequence < MaxSequence
    /\ txSequence' = txSequence + 1
    /\ txEntries' = txEntries \cup
          {Row(txSequence + 1, args[h].dataset, args[h].device, args[h].blobs[Rest(h)])}
    /\ assigned' = [assigned EXCEPT ![h] = txSequence + 1]
    /\ UNCHANGED <<tables, connection, pc, args, scanned, page, listing, removed, offered>>

InsertEntry(h) ==
    /\ pc[h] = "insert"
    /\ Inserted < Len(args[h].blobs)
    /\ txSequence < MaxSequence
    /\ txSequence' = txSequence + 1
    /\ txEntries' = txEntries \cup
          {Row(txSequence + 1, args[h].dataset, args[h].device, args[h].blobs[Inserted + 1])}
    /\ assigned' = [assigned EXCEPT ![h] = txSequence + 1]
    /\ UNCHANGED <<tables, connection, pc, args, scanned, page, listing, removed, offered>>

\* WRONG: without AUTOINCREMENT's memory, numbers are used again.
CommitAppendForgetting(h) ==
    /\ pc[h] = "insert"
    /\ Inserted = Len(args[h].blobs)
    /\ entries' = entries \cup txEntries
    /\ connection' = None
    /\ txEntries' = {}
    /\ txSequence' = 0
    /\ pc' = [pc EXCEPT ![h] = "appended"]
    /\ UNCHANGED <<lastSequence, devices, args, results>>

CommitAppend(h) ==
    /\ pc[h] = "insert"
    /\ Inserted = Len(args[h].blobs)
    /\ entries' = entries \cup txEntries
    /\ lastSequence' = txSequence
    /\ connection' = None
    /\ txEntries' = {}
    /\ txSequence' = 0
    /\ pc' = [pc EXCEPT ![h] = "appended"]
    /\ UNCHANGED <<devices, args, results>>

-----------------------------------------------------------------------------
(* Page: the query, its rows, and for an empty page a second statement.    *)

PageSize(h) == ClampLimit(args[h].limit, MaxLimit)

QueryPage(h) ==
    /\ pc[h] = "query"
    /\ connection = None
    /\ connection' = h
    /\ scanned' = [scanned EXCEPT ![h] =
          ScanPage(entries, args[h].dataset, args[h].device, args[h].after, PageSize(h))]
    /\ offered' = [offered EXCEPT ![h] = lastSequence]
    /\ pc' = [pc EXCEPT ![h] = "scan"]
    /\ UNCHANGED <<tables, txEntries, txSequence, args, page, assigned, listing, removed>>

PageRead(h, kept, cursor) ==
    /\ page' = [page EXCEPT ![h] =
          [entries |-> kept,
           cursor  |-> cursor,
           hasMore |-> PageHasMore(scanned[h], PageSize(h))]]
    /\ pc' = [pc EXCEPT ![h] = IF kept = {} THEN "highWater" ELSE "paged"]
    /\ scanned' = [scanned EXCEPT ![h] = {}]
    /\ UNCHANGED <<tables, txEntries, txSequence, args, assigned, listing, removed, offered>>

CursorAfter(h, rows) == IF rows = {} THEN args[h].after ELSE LastSequence(rows)

\* WRONG: the cursor is taken before the extra row is cut off.
ReadPageCursorFirst(h) ==
    LET kept == PageEntries(scanned[h], PageSize(h))
    IN  /\ pc[h] = "scan"
        /\ connection' = None
        /\ PageRead(h, kept, CursorAfter(h, scanned[h]))

\* WRONG: the rows stay open while the high-water mark is read.
ReadPageRowsOpen(h) ==
    LET kept == PageEntries(scanned[h], PageSize(h))
    IN  /\ pc[h] = "scan"
        /\ connection' = IF kept = {} THEN connection ELSE None
        /\ PageRead(h, kept, CursorAfter(h, kept))

\* rows.Next answers false: the rows close and the connection is free.
ReadPage(h) ==
    LET kept == PageEntries(scanned[h], PageSize(h))
    IN  /\ pc[h] = "scan"
        /\ connection' = None
        /\ PageRead(h, kept, CursorAfter(h, kept))

\* WRONG: the cursor follows the high-water mark wherever it is.
ReadHighWaterAlways(h) ==
    /\ pc[h] = "highWater"
    /\ connection = None
    /\ page' = [page EXCEPT ![h].cursor = HighWater(entries, args[h].dataset)]
    /\ pc' = [pc EXCEPT ![h] = "paged"]
    /\ UNCHANGED <<tables, txVars, args, scanned, assigned, listing, removed, offered>>

\* The connection was given up since the query: other calls may have committed.
ReadHighWater(h) ==
    LET high == HighWater(entries, args[h].dataset)
    IN  /\ pc[h] = "highWater"
        /\ connection = None
        /\ page' = [page EXCEPT ![h].cursor = IF high > @ THEN high ELSE @]
        /\ pc' = [pc EXCEPT ![h] = "paged"]
        /\ UNCHANGED <<tables, txVars, args, scanned, assigned, listing, removed, offered>>

-----------------------------------------------------------------------------
(* The devices table: one statement for each call.                         *)

TouchDevice(h) ==
    /\ pc[h] = "upsert"
    /\ connection = None
    /\ devices' = Upsert(devices, args[h].dataset, args[h].device, args[h].name, args[h].at)
    /\ pc' = [pc EXCEPT ![h] = "touched"]
    /\ UNCHANGED <<entries, lastSequence, txVars, args, results>>

ListDevices(h) ==
    /\ pc[h] = "list"
    /\ connection = None
    /\ listing' = [listing EXCEPT ![h] = Listings(devices, args[h].dataset)]
    /\ pc' = [pc EXCEPT ![h] = "listed"]
    /\ UNCHANGED <<tables, txVars, args, scanned, page, assigned, removed, offered>>

RemoveDevice(h) ==
    /\ pc[h] = "delete"
    /\ connection = None
    /\ devices' = Delete(devices, args[h].dataset, args[h].device)
    /\ removed' = [removed EXCEPT ![h] = Listed(devices, args[h].dataset, args[h].device) # {}]
    /\ pc' = [pc EXCEPT ![h] = "removed"]
    /\ UNCHANGED <<entries, lastSequence, txVars, args, scanned, page, assigned, listing, offered>>

-----------------------------------------------------------------------------
(* A step fails: the deferred Rollback or rows.Close frees the connection, *)
(* and the call's results are the zero values beside the error.            *)

\* WRONG: the batch was not one transaction; what was inserted stays.
AbortKeepingRows(h) ==
    /\ pc' = [pc EXCEPT ![h] = "failed"]
    /\ IF connection = h
       THEN /\ connection' = None /\ txEntries' = {} /\ txSequence' = 0
            /\ entries' = entries \cup txEntries
            /\ lastSequence' = lastSequence + Cardinality(txEntries)
       ELSE UNCHANGED <<txVars, entries, lastSequence>>
    /\ ClearResults(h)
    /\ UNCHANGED <<devices, args>>

Abort(h) ==
    /\ pc' = [pc EXCEPT ![h] = "failed"]
    /\ IF connection = h
       THEN connection' = None /\ txEntries' = {} /\ txSequence' = 0
       ELSE UNCHANGED txVars
    /\ ClearResults(h)
    /\ UNCHANGED <<tables, args>>

FailCall(h) == pc[h] \in Running /\ Abort(h)

\* A statement on the devices that ran, and whose result could not be had.
FailAfterwards(h) ==
    /\ connection = None
    /\ \/ /\ pc[h] = "upsert"
          /\ devices' = Upsert(devices, args[h].dataset, args[h].device, args[h].name, args[h].at)
       \/ /\ pc[h] = "delete"
          /\ devices' = Delete(devices, args[h].dataset, args[h].device)
    /\ pc' = [pc EXCEPT ![h] = "failed"]
    /\ ClearResults(h)
    /\ UNCHANGED <<entries, lastSequence, txVars, args>>

Fails(h) == FailCall(h) \/ FailAfterwards(h)

\* SQLITE_FULL: AUTOINCREMENT has no number left.
SequencesExhausted(h) ==
    /\ pc[h] = "insert"
    /\ Inserted < Len(args[h].blobs)
    /\ txSequence = MaxSequence
    /\ Abort(h)

-----------------------------------------------------------------------------

EntryCalls(h) ==
    \/ \E dataset \in Dataset, device \in Device, blobs \in Batches :
          CallAppend(h, dataset, device, blobs)
    \/ \E dataset \in Dataset, device \in Device, after \in Cursor, limit \in Limit :
          CallPage(h, dataset, device, after, limit)

DeviceCalls(h) ==
    \/ \E dataset \in Dataset, device \in Device, name \in Name, at \in Time :
          CallTouchDevice(h, dataset, device, name, at)
    \/ \E dataset \in Dataset : CallDevices(h, dataset)
    \/ \E dataset \in Dataset, device \in Device : CallRemoveDevice(h, dataset, device)

\* The steps that wait for the connection, and those that do not.
Acquires(h) ==
    \/ BeginAppend(h)
    \/ QueryPage(h)
    \/ ReadHighWater(h)
    \/ TouchDevice(h)
    \/ ListDevices(h)
    \/ RemoveDevice(h)

Proceeds(h) ==
    \/ InsertEntry(h)
    \/ CommitAppend(h)
    \/ ReadPage(h)
    \/ SequencesExhausted(h)

Step(h) == Acquires(h) \/ Proceeds(h) \/ Fails(h)

Next == \E h \in Handler : EntryCalls(h) \/ DeviceCalls(h) \/ Return(h) \/ Step(h)

Spec == Init /\ [][Next]_vars

-----------------------------------------------------------------------------
(* Properties.                                                             *)

\* Every variable has its type.
TypeOK ==
    /\ entries \subseteq Entry
    /\ lastSequence \in Nat
    /\ devices \subseteq Listing
    /\ connection \in Handler \cup {None}
    /\ txEntries \subseteq Entry
    /\ txSequence \in Nat
    /\ pc \in [Handler -> {"idle"} \cup Running \cup Returned]
    /\ args \in [Handler -> Args]
    /\ scanned \in [Handler -> SUBSET Entry]
    /\ page \in [Handler -> Page]
    /\ assigned \in [Handler -> Nat]
    /\ listing \in [Handler -> SUBSET Listing]
    /\ removed \in [Handler -> BOOLEAN]
    /\ offered \in [Handler -> Nat]

\* No two entries share a sequence and none is above the number AUTOINCREMENT
\* remembers, although batches are numbered inside transactions that may fail
\* (schema.go:21-25).
EntriesNumbered ==
    /\ \A r \in entries : r.sequence \in 1..lastSequence
    /\ \A r, q \in entries : r.sequence = q.sequence => r = q

\* The connection is held exactly by the handler that is inside a transaction
\* or reading rows: never by a handler that is about to wait for it, which
\* with one connection would wait for itself (store.go:75-80, 220, 247).
ConnectionHeldOnlyWhileUsed ==
    \A h \in Handler : connection = h <=> pc[h] \in {"insert", "scan"}

\* When Append has returned, its batch is stored whole, in the order given and
\* in consecutive sequences that end with the one returned, whatever was
\* committed before and after it (store.go:155-160).
AppendStoresItsBatch ==
    \A h \in Handler : pc[h] = "appended" =>
        \A i \in 1..Len(args[h].blobs) :
            Row(assigned[h] - Len(args[h].blobs) + i, args[h].dataset,
                args[h].device, args[h].blobs[i]) \in entries

\* What the caller of Page was to be given up to the cursor it got.
UpTo(h, cursor) ==
    {r \in Matching(entries, args[h].dataset, args[h].device, args[h].after) :
        r.sequence <= cursor}

\* A page with entries holds every entry of another device of the dataset from
\* the caller's cursor to the new one and nothing else, and so it stays
\* whatever is committed while the response is on its way: to resume at the
\* new cursor skips nothing (store.go:196-199, 239-242).
PageSkipsNothing ==
    \A h \in Handler : (pc[h] = "paged" /\ page[h].entries # {}) =>
        UpTo(h, page[h].cursor) = page[h].entries

\* An empty page's cursor passes over nothing that was stored when the page's
\* query ran (store.go:244-246).
EmptyPageSkipsNothingOld ==
    \A h \in Handler : (pc[h] = "paged" /\ page[h].entries = {}) =>
        \A r \in UpTo(h, page[h].cursor) : r.sequence > offered[h]

\* The cursor of a page is not below the caller's, and when it is above it is
\* the sequence of an entry of the dataset (PROTOCOL.md:147-153).
CursorIsAnEntry ==
    \A h \in Handler : pc[h] = "paged" =>
        /\ page[h].cursor >= args[h].after
        /\ page[h].cursor > args[h].after =>
              \E r \in entries : /\ r.dataset = args[h].dataset
                                 /\ r.sequence = page[h].cursor

\* A page is no longer than the clamped limit, and as long as that when more is
\* to come: an entry is held back only for want of room.
PageIsFull(h) ==
    /\ Cardinality(page[h].entries) <= PageSize(h)
    /\ page[h].hasMore => Cardinality(page[h].entries) = PageSize(h)

\* hasMore says whether more was stored above the page when its query ran, and
\* only a full page says so (store.go:201-210, 234-237; PROTOCOL.md:155).
HasMoreIsHonest ==
    \A h \in Handler : pc[h] = "paged" =>
        /\ page[h].hasMore <=>
              \E r \in Matching(entries, args[h].dataset, args[h].device, page[h].cursor) :
                  r.sequence <= offered[h]
        /\ PageIsFull(h)

\* A device has one listing in a dataset, and no contact changes when it was
\* first seen: only a removal between two contacts does (store.go:271-289).
FirstSeenIsKept ==
    [][\A d \in devices, e \in devices' :
          (d.dataset = e.dataset /\ d.device = e.device) => d.firstSeen = e.firstSeen]_vars

-----------------------------------------------------------------------------
(* What holds inside a call, which the properties above rest on.  With     *)
(* TypeOK it is inductive: see Store_proofs.                               *)

\* A call that writes has all its arguments.
ArgumentsGiven ==
    \A h \in Handler :
        /\ pc[h] \in {"begin", "insert"} =>
              /\ args[h].dataset \in Dataset
              /\ args[h].device \in Device
              /\ Len(args[h].blobs) > 0
        /\ pc[h] = "upsert" =>
              /\ args[h].dataset \in Dataset
              /\ args[h].device \in Device
              /\ args[h].name \in Name
              /\ args[h].at \in Time

\* The rows of an open transaction are the first of the batch, numbered from
\* the last number committed.
TransactionFollowsLog ==
    /\ lastSequence <= MaxSequence
    /\ \A h \in Handler : pc[h] = "insert" =>
          /\ txSequence \in lastSequence..lastSequence + Len(args[h].blobs)
          /\ txSequence <= MaxSequence
          /\ txEntries = {Row(lastSequence + i, args[h].dataset, args[h].device,
                              args[h].blobs[i]) : i \in 1..Inserted}
          /\ Inserted > 0 => assigned[h] = txSequence

\* The rows being read are still those of the table: the connection is held.
ScanIsCurrent ==
    \A h \in Handler : pc[h] = "scan" =>
        /\ scanned[h] = ScanPage(entries, args[h].dataset, args[h].device,
                                args[h].after, PageSize(h))
        /\ offered[h] = lastSequence

\* A page found empty was empty when the query ran: what matches now is newer.
EmptyPageWasEmpty ==
    \A h \in Handler :
        (pc[h] = "highWater" \/ (pc[h] = "paged" /\ page[h].entries = {})) =>
            /\ page[h].entries = {}
            /\ offered[h] <= lastSequence
            /\ \A r \in Matching(entries, args[h].dataset, args[h].device, args[h].after) :
                  r.sequence > offered[h]

\* A page that is not empty ends inside the log.
PageEndsInLog ==
    \A h \in Handler : (pc[h] = "paged" /\ page[h].entries # {}) =>
        page[h].cursor <= lastSequence

\* The inductive invariant.
StoreInvariant ==
    /\ TypeOK
    /\ IsFiniteSet(entries)
    /\ IsFiniteSet(txEntries)
    /\ EntriesNumbered
    /\ ConnectionHeldOnlyWhileUsed
    /\ ArgumentsGiven
    /\ TransactionFollowsLog
    /\ ScanIsCurrent
    /\ EmptyPageWasEmpty
    /\ PageEndsInLog
    /\ AppendStoresItsBatch
    /\ PageSkipsNothing

-----------------------------------------------------------------------------

\* What a handler waits to have added.
Appending(h) ==
    IF pc[h] \in {"begin", "insert"}
    THEN [dataset |-> args[h].dataset, device |-> args[h].device, batch |-> args[h].blobs]
    ELSE None

\* To its callers the store's entries are the log of EntryLog: a batch appears
\* whole, once and while its call lasts, or never, and no row is changed or
\* removed (store.go:155-160; PROTOCOL.md:91-93).
Log == INSTANCE EntryLog WITH
           log <- entries, last <- lastSequence, pending <- [h \in Handler |-> Appending(h)]

ImplementsEntryLog == Log!Spec

\* Every call comes back, with a result or an error: no handler waits for ever
\* for the connection.
EveryCallReturns ==
    \A h \in Handler : pc[h] \in Running ~> pc[h] \in Returned

\* How many steps a call still has before it: a batch is inserted row by row,
\* and an empty page takes one statement more.
StepsLeft(h) ==
    CASE pc[h] = "begin"  -> Len(args[h].blobs) + 2
      [] pc[h] = "insert" -> Rest(h) + 1
      [] pc[h] = "query"  -> 3
      [] pc[h] = "scan"   -> 2
      [] pc[h] \in {"highWater", "upsert", "list", "delete"} -> 1
      [] OTHER -> 0

\* A call comes nearer its end with every step of its own, and nobody else's
\* takes it further away: after MaxBatch + 3 steps it has returned.  What is
\* left of EveryCallReturns is that the connection comes round.
CallsGoForward ==
    [][\A h \in Handler : pc[h] \in Running =>
          /\ Step(h) => StepsLeft(h)' < StepsLeft(h)
          /\ ~Step(h) => StepsLeft(h)' = StepsLeft(h)]_vars

=============================================================================
