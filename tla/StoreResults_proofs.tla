-------------------------- MODULE StoreResults_proofs --------------------------
(***************************************************************************)
(* Proofs about what the store's callers are told: the cursor and hasMore  *)
(* of a page, and when a device was first seen.  They rest on the          *)
(* invariant of Store_proofs and on a second one, inductive relative to it.*)
(***************************************************************************)
EXTENDS Store_proofs

-----------------------------------------------------------------------------
(* The second invariant.                                                   *)

\* Until the high-water mark is read, an empty page is at the caller's cursor.
EmptyPageStays ==
    \A h \in Handler : pc[h] = "highWater" =>
        page[h].cursor = args[h].after /\ page[h].hasMore = FALSE

\* The log a query saw is a part of today's.
QueriesAreOld ==
    \A h \in Handler : pc[h] \in {"highWater", "paged"} => offered[h] <= lastSequence

ResultsInvariant ==
    /\ EmptyPageStays
    /\ QueriesAreOld
    /\ CursorIsAnEntry
    /\ HasMoreIsHonest

\* The primary key of `devices`: one listing for each (dataset, device).
OneListing ==
    \A d, e \in devices : (d.dataset = e.dataset /\ d.device = e.device) => d = e

-----------------------------------------------------------------------------
(* What a step of any handler does to the log and to a page.               *)

\* A step keeps every entry, and adds entries above the last sequence only.
LogGrows ==
    /\ entries \subseteq entries'
    /\ lastSequence <= lastSequence'
    /\ \A r \in entries' \ entries : r.sequence > lastSequence

\* A step leaves the result of k's page alone, or takes k where it has none.
PageLeftAlone(k) ==
    \/ pc'[k] \notin {"highWater", "paged"}
    \/ /\ pc'[k] = pc[k]
       /\ page'[k] = page[k]
       /\ args'[k] = args[k]
       /\ offered'[k] = offered[k]

Quiet == LogGrows /\ \A k \in Handler : PageLeftAlone(k)

LEMMA CallIsQuiet ==
    ASSUME StoreInvariant, NEW h \in Handler, NEW label, NEW a,
           label \notin {"highWater", "paged"}, Call(h, label, a)
    PROVE  Quiet /\ devices' = devices
<1>1. /\ pc' = [pc EXCEPT ![h] = label]
      /\ args' = [args EXCEPT ![h] = a]
      /\ page' = [page EXCEPT ![h] = NoPage]
      /\ offered' = [offered EXCEPT ![h] = 0]
      /\ entries' = entries /\ lastSequence' = lastSequence /\ devices' = devices
  BY DEF Call, ClearResults, tables
<1>2. TypeOK
  BY DEF StoreInvariant
<1> QED BY <1>1, <1>2 DEF Quiet, LogGrows, PageLeftAlone, TypeOK

LEMMA CallsAreQuiet ==
    ASSUME StoreInvariant, NEW h \in Handler, EntryCalls(h) \/ DeviceCalls(h)
    PROVE  Quiet /\ devices' = devices
<1>1. ASSUME NEW dataset, NEW device, NEW blobs, CallAppend(h, dataset, device, blobs)
      PROVE  Quiet /\ devices' = devices
  <2> DEFINE label == IF blobs = <<>> THEN "appended" ELSE "begin"
  <2>1. label \notin {"highWater", "paged"}
    OBVIOUS
  <2> HIDE DEF label
  <2> QED BY <1>1, <2>1, CallIsQuiet DEF CallAppend, label
<1>2. ASSUME NEW dataset, NEW device, NEW after, NEW limit,
             CallPage(h, dataset, device, after, limit)
      PROVE  Quiet /\ devices' = devices
  BY <1>2, CallIsQuiet DEF CallPage
<1>3. ASSUME NEW dataset, NEW device, NEW name, NEW at,
             CallTouchDevice(h, dataset, device, name, at)
      PROVE  Quiet /\ devices' = devices
  BY <1>3, CallIsQuiet DEF CallTouchDevice
<1>4. ASSUME NEW dataset, CallDevices(h, dataset)
      PROVE  Quiet /\ devices' = devices
  BY <1>4, CallIsQuiet DEF CallDevices
<1>5. ASSUME NEW dataset, NEW device, CallRemoveDevice(h, dataset, device)
      PROVE  Quiet /\ devices' = devices
  BY <1>5, CallIsQuiet DEF CallRemoveDevice
<1> QED BY <1>1, <1>2, <1>3, <1>4, <1>5 DEF EntryCalls, DeviceCalls

LEMMA CommitIsQuiet ==
    ASSUME StoreInvariant, NEW h \in Handler, CommitAppend(h)
    PROVE  Quiet
<1>1. /\ pc[h] = "insert"
      /\ entries' = entries \cup txEntries
      /\ lastSequence' = txSequence
      /\ pc' = [pc EXCEPT ![h] = "appended"]
      /\ page' = page /\ args' = args /\ offered' = offered
  BY DEF CommitAppend, results
<1>2. TypeOK /\ TransactionFollowsLog
  BY DEF StoreInvariant
<1>3. /\ lastSequence \in Nat /\ txSequence \in Nat /\ lastSequence <= txSequence
      /\ txEntries = {Row(lastSequence + i, args[h].dataset, args[h].device,
                          args[h].blobs[i]) : i \in 1..Inserted}
  BY <1>1, <1>2, BlobsAreSequence DEF TransactionFollowsLog, TypeOK
<1>4. \A r \in txEntries : r.sequence > lastSequence
  BY <1>3 DEF Row
<1> QED BY <1>1, <1>2, <1>3, <1>4 DEF Quiet, LogGrows, PageLeftAlone, TypeOK

\* All steps but the two that make a page leave the pages alone.
LEMMA StepIsQuiet ==
    ASSUME StoreInvariant, NEW h \in Handler, Return(h) \/ Step(h),
           ~ReadPage(h), ~ReadHighWater(h)
    PROVE  Quiet
<1>1. TypeOK
  BY DEF StoreInvariant
<1>2. CASE Return(h)
  BY <1>1, <1>2 DEF Return, ClearResults, Quiet, LogGrows, PageLeftAlone, TypeOK, tables
<1>3. CASE BeginAppend(h)
  BY <1>1, <1>3 DEF BeginAppend, Quiet, LogGrows, PageLeftAlone, TypeOK, tables, results
<1>4. CASE QueryPage(h)
  BY <1>1, <1>4 DEF QueryPage, Quiet, LogGrows, PageLeftAlone, TypeOK, tables
<1>5. CASE TouchDevice(h)
  BY <1>1, <1>5 DEF TouchDevice, Quiet, LogGrows, PageLeftAlone, TypeOK, results
<1>6. CASE ListDevices(h)
  BY <1>1, <1>6 DEF ListDevices, Quiet, LogGrows, PageLeftAlone, TypeOK, tables
<1>7. CASE RemoveDevice(h)
  BY <1>1, <1>7 DEF RemoveDevice, Quiet, LogGrows, PageLeftAlone, TypeOK
<1>8. CASE InsertEntry(h)
  BY <1>1, <1>8 DEF InsertEntry, Quiet, LogGrows, PageLeftAlone, TypeOK, tables
<1>9. CASE CommitAppend(h)
  BY <1>9, CommitIsQuiet
<1>10. CASE Abort(h)
  BY <1>1, <1>10 DEF Abort, ClearResults, Quiet, LogGrows, PageLeftAlone, TypeOK, tables
<1>11. CASE FailAfterwards(h)
  <2>1. /\ pc' = [pc EXCEPT ![h] = "failed"]
        /\ page' = [page EXCEPT ![h] = NoPage]
        /\ offered' = [offered EXCEPT ![h] = 0]
        /\ args' = args /\ entries' = entries /\ lastSequence' = lastSequence
    BY <1>11 DEF FailAfterwards, ClearResults
  <2> QED BY <1>1, <2>1 DEF Quiet, LogGrows, PageLeftAlone, TypeOK
<1> QED
  BY <1>2, <1>3, <1>4, <1>5, <1>6, <1>7, <1>8, <1>9, <1>10, <1>11
  DEF Step, Acquires, Proceeds, Fails, FailCall, SequencesExhausted

\* Whoever steps, the log grows at its end or stays.
LEMMA StepsGrowLog ==
    ASSUME StoreInvariant, [Next]_vars
    PROVE  LogGrows
<1>1. ASSUME NEW h \in Handler, EntryCalls(h) \/ DeviceCalls(h)
      PROVE  LogGrows
  BY <1>1, CallsAreQuiet DEF Quiet
<1>2. ASSUME NEW h \in Handler, Return(h) \/ Step(h)
      PROVE  LogGrows
  <2>1. CASE ReadPage(h) \/ ReadHighWater(h)
    BY <2>1
    DEF ReadPage, PageRead, ReadHighWater, LogGrows, tables, StoreInvariant, TypeOK
  <2> QED BY <1>2, <2>1, StepIsQuiet DEF Quiet
<1>3. CASE UNCHANGED vars
  BY <1>3 DEF vars, tables, LogGrows, StoreInvariant, TypeOK
<1> QED BY <1>1, <1>2, <1>3 DEF Next

-----------------------------------------------------------------------------
(* The second invariant is inductive relative to the first.                *)

\* What a page says stays true while the log grows above it.
LEMMA QuietPreserves ==
    ASSUME StoreInvariant, StoreInvariant', ResultsInvariant, Quiet
    PROVE  ResultsInvariant'
<1>1. /\ lastSequence \in Nat /\ lastSequence' \in Nat /\ lastSequence <= lastSequence'
      /\ \A r \in entries' : r.sequence \in Nat
      /\ \A h \in Handler : offered[h] \in Nat
  BY DEF StoreInvariant, TypeOK, Entry, Quiet, LogGrows
<1>2. entries \subseteq entries' /\ \A r \in entries' \ entries : r.sequence > lastSequence
  BY DEF Quiet, LogGrows
<1>3. ASSUME NEW h \in Handler, pc'[h] \in {"highWater", "paged"}
      PROVE  /\ pc'[h] = pc[h] /\ page'[h] = page[h]
             /\ args'[h] = args[h] /\ offered'[h] = offered[h]
             /\ offered[h] <= lastSequence
  BY <1>3 DEF ResultsInvariant, QueriesAreOld, Quiet, PageLeftAlone
<1>4. EmptyPageStays'
  BY <1>3 DEF ResultsInvariant, EmptyPageStays
<1>5. QueriesAreOld'
  BY <1>1, <1>3 DEF QueriesAreOld
<1>6. CursorIsAnEntry'
  BY <1>2, <1>3 DEF ResultsInvariant, CursorIsAnEntry
<1>7. ASSUME NEW h \in Handler, pc'[h] = "paged"
      PROVE  /\ page'[h].hasMore <=>
                   \E r \in Matching(entries', args'[h].dataset, args'[h].device, page'[h].cursor) :
                       r.sequence <= offered'[h]
             /\ PageIsFull(h)'
  <2> DEFINE Above(rows) ==
        {r \in Matching(rows, args[h].dataset, args[h].device, page[h].cursor) :
            r.sequence <= offered[h]}
  <2>1. \A r \in entries' \ entries : ~(r.sequence <= offered[h])
    BY <1>1, <1>2, <1>3, <1>7
  <2>2. Above(entries') = Above(entries)
    BY <1>2, <2>1 DEF Matching
  <2>3. page[h].hasMore <=> Above(entries) # {}
    BY <1>3, <1>7 DEF ResultsInvariant, HasMoreIsHonest
  <2>4. page[h].hasMore <=> Above(entries') # {}
    BY <2>2, <2>3
  <2>5. PageIsFull(h)'
    BY <1>3, <1>7 DEF ResultsInvariant, HasMoreIsHonest, PageIsFull, PageSize
  <2> QED BY <1>3, <1>7, <2>4, <2>5
<1>8. HasMoreIsHonest'
  BY <1>7 DEF HasMoreIsHonest
<1> QED BY <1>4, <1>5, <1>6, <1>8 DEF ResultsInvariant

\* A step that changes the page of one handler, and makes it right.
LEMMA PageStepPreserves ==
    ASSUME StoreInvariant, StoreInvariant', ResultsInvariant, NEW h \in Handler,
           entries' = entries, lastSequence' = lastSequence,
           args' = args, offered' = offered,
           \A k \in Handler \ {h} : pc'[k] = pc[k] /\ page'[k] = page[k],
           pc'[h] = "highWater" => page'[h].cursor = args[h].after /\ page'[h].hasMore = FALSE,
           pc'[h] \in {"highWater", "paged"} => offered[h] <= lastSequence,
           pc'[h] = "paged" =>
               /\ page'[h].cursor >= args[h].after
               /\ page'[h].cursor > args[h].after =>
                     \E r \in entries : /\ r.dataset = args[h].dataset
                                        /\ r.sequence = page'[h].cursor
               /\ page'[h].hasMore <=>
                     \E r \in Matching(entries, args[h].dataset, args[h].device,
                                       page'[h].cursor) : r.sequence <= offered[h]
               /\ PageIsFull(h)'
    PROVE  ResultsInvariant'
<1>1. EmptyPageStays'
  BY DEF ResultsInvariant, EmptyPageStays
<1>2. QueriesAreOld'
  BY DEF ResultsInvariant, QueriesAreOld
<1>3. CursorIsAnEntry'
  BY DEF ResultsInvariant, CursorIsAnEntry
<1>4. \A k \in Handler \ {h} : pc'[k] = "paged" => PageIsFull(k)'
  BY DEF ResultsInvariant, HasMoreIsHonest, PageIsFull, PageSize
<1>5. HasMoreIsHonest'
  BY <1>4 DEF ResultsInvariant, HasMoreIsHonest
<1> QED BY <1>1, <1>2, <1>3, <1>5 DEF ResultsInvariant

\* A page is cut: the extra row, if there is one, is above its last row.
LEMMA ReadPageTellsMore ==
    ASSUME StoreInvariant, StoreInvariant', ResultsInvariant, NEW h \in Handler, ReadPage(h)
    PROVE  ResultsInvariant'
<1> DEFINE match == Matching(entries, args[h].dataset, args[h].device, args[h].after)
<1> DEFINE rows == FirstRows(match, PageSize(h) + 1)
<1> DEFINE kept == FirstRows(rows, PageSize(h))
<1> DEFINE cursor == CursorAfter(h, kept)
<1>1. /\ scanned[h] = rows /\ offered[h] = lastSequence
      /\ page' = [page EXCEPT ![h] = [entries |-> kept, cursor |-> cursor,
                                     hasMore |-> PageHasMore(rows, PageSize(h))]]
      /\ pc' = [pc EXCEPT ![h] = IF kept = {} THEN "highWater" ELSE "paged"]
      /\ entries' = entries /\ lastSequence' = lastSequence
      /\ args' = args /\ offered' = offered
  BY DEF ReadPage, PageRead, PageEntries, StoreInvariant, ScanIsCurrent, ScanPage, tables
<1>2. PageSize(h) \in Nat /\ PageSize(h) > 0 /\ args[h].after \in Nat
  BY PageSizeIsPositive, AfterIsNatural DEF StoreInvariant
<1>3. kept \subseteq rows /\ rows \subseteq match /\ match \subseteq entries
  BY DEF FirstRows, Matching
<1>4. /\ lastSequence \in Nat
      /\ \A r \in match : r.sequence \in Nat /\ r.sequence <= lastSequence
      /\ \A r, q \in match : r.sequence = q.sequence => r = q
      /\ \A r \in match : r.sequence > args[h].after /\ r.dataset = args[h].dataset
      /\ IsFiniteSet(match)
  <2>1. IsFiniteSet(match)
    BY <1>3, FS_Subset DEF StoreInvariant
  <2> QED BY <1>3, <2>1 DEF StoreInvariant, EntriesNumbered, TypeOK, Matching
<1>5. Cardinality(rows) > PageSize(h) <=> \E r \in match : \A q \in kept : q.sequence < r.sequence
  <2> HIDE DEF match
  <2> QED BY <1>2, <1>4, ExtraRowMeansMore
<1>6. CASE kept = {}
  <2>1. match = {}
    <3>1. ASSUME match # {} PROVE rows # {}
      <4> HIDE DEF match
      <4> QED BY <1>2, <1>4, <3>1, FirstRowsNotEmpty
    <3>2. ASSUME rows # {} PROVE kept # {}
      <4>1. \A r \in rows : r.sequence \in Nat
        BY <1>3, <1>4
      <4> HIDE DEF rows
      <4> QED BY <1>2, <3>2, <4>1, FirstRowsNotEmpty
    <3> QED BY <1>6, <3>1, <3>2
  <2>2. PageHasMore(rows, PageSize(h)) = FALSE
    <3> HIDE DEF match, rows
    <3> QED BY <1>5, <2>1 DEF PageHasMore
  <2>3. cursor = args[h].after
    BY <1>6 DEF CursorAfter
  <2> HIDE DEF match, rows, kept, cursor
  <2>4. /\ pc'[h] = "highWater"
        /\ page'[h].cursor = args[h].after /\ page'[h].hasMore = FALSE
        /\ \A k \in Handler \ {h} : pc'[k] = pc[k] /\ page'[k] = page[k]
    BY <1>1, <1>6, <2>2, <2>3 DEF StoreInvariant, TypeOK
  <2>5. offered[h] <= lastSequence
    BY <1>1, <1>4
  <2> QED BY <1>1, <2>4, <2>5, PageStepPreserves
<1>7. CASE kept # {}
  <2>1. /\ \E r \in kept : r.sequence = cursor
        /\ \A r \in kept : r.sequence <= cursor
        /\ cursor \in Nat
    <3>1. cursor = LastSequence(kept)
      BY <1>7 DEF CursorAfter
    <3>2. \A r \in kept : r.sequence \in Nat /\ r.sequence <= lastSequence
      BY <1>3, <1>4
    <3> HIDE DEF kept, cursor
    <3> QED BY <1>4, <1>7, <3>1, <3>2, LastSequenceIsLargest
  <2>2. PICK last \in kept : last.sequence = cursor
    BY <2>1
  <2>3. last \in match /\ last \in entries
    BY <1>3
  <2>4. cursor > args[h].after /\ cursor >= args[h].after
    <3> HIDE DEF match, kept, cursor
    <3> QED BY <1>2, <1>4, <2>1, <2>2, <2>3
  <2>5. PageHasMore(rows, PageSize(h)) <=> \E r \in match : r.sequence > cursor
    <3>1. \A r \in match : r.sequence > cursor <=> \A q \in kept : q.sequence < r.sequence
      <4>1. \A q \in kept : q.sequence \in Nat
        BY <1>3, <1>4
      <4> HIDE DEF match, kept, cursor
      <4> QED BY <1>4, <2>1, <4>1
    <3> HIDE DEF match, rows, kept, cursor
    <3> QED BY <1>5, <3>1 DEF PageHasMore
  <2>6. (\E r \in match : r.sequence > cursor) <=>
            \E r \in Matching(entries, args[h].dataset, args[h].device, cursor) :
                r.sequence <= offered[h]
    <3>1. \A r : r \in Matching(entries, args[h].dataset, args[h].device, cursor)
                    <=> r \in match /\ r.sequence > cursor
      <4>1. \A r \in entries : r.sequence \in Nat
        BY DEF StoreInvariant, TypeOK, Entry
      <4> HIDE DEF kept, cursor
      <4> QED BY <1>2, <2>1, <2>4, <4>1 DEF Matching
    <3> HIDE DEF match, kept, cursor
    <3> QED BY <1>1, <1>4, <3>1
  <2>7. last.dataset = args[h].dataset
    <3> HIDE DEF match, kept
    <3> QED BY <1>4, <2>3
  <2> HIDE DEF match, rows, kept, cursor
  <2>8. /\ pc'[h] = "paged" /\ page'[h].cursor = cursor
        /\ page'[h].hasMore = PageHasMore(rows, PageSize(h))
        /\ \A k \in Handler \ {h} : pc'[k] = pc[k] /\ page'[k] = page[k]
    BY <1>1, <1>7 DEF StoreInvariant, TypeOK
  <2>9. offered[h] <= lastSequence
    BY <1>1, <1>4
  <2>10. PageIsFull(h)'
    <3>1. IsFiniteSet(rows) /\ \A r \in rows : r \in match
      BY <1>3, <1>4, FS_Subset
    <3>2. /\ Cardinality(kept) <= PageSize(h)
          /\ Cardinality(rows) > PageSize(h) => Cardinality(kept) = PageSize(h)
      BY <1>2, <1>4, <3>1, FirstRowsCount DEF kept
    <3>3. page'[h].entries = kept /\ PageSize(h)' = PageSize(h)
      BY <1>1 DEF StoreInvariant, TypeOK, PageSize
    <3> QED BY <2>8, <3>2, <3>3 DEF PageIsFull, PageHasMore
  <2> QED BY <1>1, <2>2, <2>3, <2>4, <2>5, <2>6, <2>7, <2>8, <2>9, <2>10, PageStepPreserves
<1> QED BY <1>6, <1>7

\* An empty page moves to the high-water mark: below it is nothing its query saw.
LEMMA ReadHighWaterTellsNoMore ==
    ASSUME StoreInvariant, StoreInvariant', ResultsInvariant, NEW h \in Handler,
           ReadHighWater(h)
    PROVE  ResultsInvariant'
<1> DEFINE own == {r \in entries : r.dataset = args[h].dataset}
<1> DEFINE high == HighWater(entries, args[h].dataset)
<1> DEFINE cursor == IF high > args[h].after THEN high ELSE args[h].after
<1>1. /\ pc[h] = "highWater"
      /\ page' = [page EXCEPT ![h].cursor = IF high > @ THEN high ELSE @]
      /\ pc' = [pc EXCEPT ![h] = "paged"]
      /\ entries' = entries /\ lastSequence' = lastSequence
      /\ args' = args /\ offered' = offered
  BY DEF ReadHighWater, tables
<1>2. page[h].cursor = args[h].after /\ page[h].hasMore = FALSE /\ offered[h] <= lastSequence
  BY <1>1 DEF ResultsInvariant, EmptyPageStays, QueriesAreOld
<1>3. /\ lastSequence \in Nat /\ args[h].after \in Nat /\ offered[h] \in Nat
      /\ \A r \in entries : r.sequence \in Nat /\ r.sequence <= lastSequence
  BY AfterIsNatural DEF StoreInvariant, TypeOK, EntriesNumbered
<1>4. own # {} => high \in Nat /\ \E r \in own : r.sequence = high
  <2>1. \A r \in own : r.sequence \in Nat /\ r.sequence <= lastSequence
    BY <1>3
  <2>2. own # {} => /\ \E r \in own : r.sequence = LastSequence(own)
                    /\ LastSequence(own) \in Nat
    <3> HIDE DEF own
    <3> QED BY <1>3, <2>1, LastSequenceIsLargest
  <2> QED BY <2>2 DEF HighWater
<1>5. own = {} => high = 0
  BY DEF HighWater
<1>6. high \in Nat /\ (high > args[h].after =>
          \E r \in entries : r.dataset = args[h].dataset /\ r.sequence = high)
  <2> HIDE DEF high
  <2> QED BY <1>3, <1>4, <1>5
<1>7. \A r \in Matching(entries, args[h].dataset, args[h].device, args[h].after) :
          r.sequence > offered[h]
  BY <1>1 DEF StoreInvariant, EmptyPageWasEmpty
<1> HIDE DEF high
<1>8. cursor >= args[h].after /\ cursor \in Nat
  BY <1>3, <1>6
<1>9. \A r \in Matching(entries, args[h].dataset, args[h].device, cursor) :
          ~(r.sequence <= offered[h])
  <2>1. \A r \in Matching(entries, args[h].dataset, args[h].device, cursor) :
            r \in Matching(entries, args[h].dataset, args[h].device, args[h].after)
    <3> HIDE DEF cursor
    <3> QED BY <1>3, <1>8 DEF Matching
  <2>2. \A r \in Matching(entries, args[h].dataset, args[h].device, cursor) :
            r.sequence \in Nat
    BY <1>3 DEF Matching
  <2> HIDE DEF cursor
  <2> QED BY <1>3, <1>7, <2>1, <2>2
<1>10. /\ pc'[h] = "paged" /\ page'[h].cursor = cursor /\ page'[h].hasMore = FALSE
       /\ \A k \in Handler \ {h} : pc'[k] = pc[k] /\ page'[k] = page[k]
  BY <1>1, <1>2 DEF StoreInvariant, TypeOK, Page
<1>11. cursor > args[h].after =>
          \E r \in entries : r.dataset = args[h].dataset /\ r.sequence = cursor
  BY <1>3, <1>6
<1>12. PageIsFull(h)'
  <2>1. page'[h].entries = {} /\ page'[h].hasMore = FALSE
    BY <1>1, <1>2 DEF StoreInvariant, TypeOK, Page, EmptyPageWasEmpty
  <2>2. PageSize(h)' \in Nat /\ PageSize(h)' > 0
    BY <1>1, PageSizeIsPositive DEF StoreInvariant, PageSize
  <2> QED BY <2>1, <2>2, FS_EmptySet DEF PageIsFull
<1> HIDE DEF cursor
<1> QED BY <1>1, <1>2, <1>8, <1>9, <1>10, <1>11, <1>12, PageStepPreserves

LEMMA ResultsInvariantNext ==
    StoreInvariant /\ StoreInvariant' /\ ResultsInvariant /\ [Next]_vars => ResultsInvariant'
<1> SUFFICES ASSUME StoreInvariant, StoreInvariant', ResultsInvariant, [Next]_vars
             PROVE  ResultsInvariant'
  OBVIOUS
<1>1. ASSUME NEW h \in Handler, EntryCalls(h) \/ DeviceCalls(h)
      PROVE  ResultsInvariant'
  BY <1>1, CallsAreQuiet, QuietPreserves
<1>2. ASSUME NEW h \in Handler, Return(h) \/ Step(h)
      PROVE  ResultsInvariant'
  BY <1>2, StepIsQuiet, QuietPreserves, ReadPageTellsMore, ReadHighWaterTellsNoMore
<1>3. CASE UNCHANGED vars
  <2>1. Quiet
    BY <1>3 DEF vars, tables, results, Quiet, LogGrows, PageLeftAlone, StoreInvariant, TypeOK
  <2> QED BY <2>1, QuietPreserves
<1> QED BY <1>1, <1>2, <1>3 DEF Next

\* What a page tells its caller is right when it is told, and stays right.
THEOREM ResultsInvariantHolds == Spec => []ResultsInvariant
<1>1. Init => ResultsInvariant
  BY DEF Init, ResultsInvariant, EmptyPageStays, QueriesAreOld, CursorIsAnEntry, HasMoreIsHonest
<1>2. StoreInvariant /\ StoreInvariant' /\ ResultsInvariant /\ [Next]_vars => ResultsInvariant'
  BY ResultsInvariantNext
<1> QED BY <1>1, <1>2, StoreInvariantHolds, PTL DEF Spec

\* A page never moves the caller's cursor back, nor to where no entry of the
\* dataset is.
THEOREM CursorsAreEntries == Spec => []CursorIsAnEntry
<1>1. ResultsInvariant => CursorIsAnEntry
  BY DEF ResultsInvariant
<1> QED BY ResultsInvariantHolds, <1>1, PTL

\* hasMore is right for every page size and every mix of datasets and devices.
THEOREM MoreIsHonest == Spec => []HasMoreIsHonest
<1>1. ResultsInvariant => HasMoreIsHonest
  BY DEF ResultsInvariant
<1> QED BY ResultsInvariantHolds, <1>1, PTL

-----------------------------------------------------------------------------
(* Devices.                                                                *)

\* Every step but a contact or a removal leaves the devices alone.
LEMMA DevicesChange ==
    ASSUME StoreInvariant, [Next]_vars
    PROVE  \/ devices' = devices
           \/ \E dataset, device, name, at :
                 devices' = Upsert(devices, dataset, device, name, at)
           \/ \E dataset, device : devices' = Delete(devices, dataset, device)
<1> DEFINE Contact == \E dataset, device, name, at :
                         devices' = Upsert(devices, dataset, device, name, at)
<1> DEFINE Removal == \E dataset, device : devices' = Delete(devices, dataset, device)
<1>1. ASSUME NEW h \in Handler, EntryCalls(h) \/ DeviceCalls(h)
      PROVE  devices' = devices
  BY <1>1, CallsAreQuiet
<1>2. ASSUME NEW h \in Handler, TouchDevice(h) PROVE Contact
  BY <1>2 DEF TouchDevice
<1>3. ASSUME NEW h \in Handler, RemoveDevice(h) PROVE Removal
  BY <1>3 DEF RemoveDevice
<1>4. ASSUME NEW h \in Handler, FailAfterwards(h) PROVE Contact \/ Removal
  BY <1>4 DEF FailAfterwards
<1>5. ASSUME NEW h \in Handler, Return(h) \/ Acquires(h) \/ Proceeds(h) \/ FailCall(h),
             ~TouchDevice(h), ~RemoveDevice(h)
      PROVE  devices' = devices
  BY <1>5
  DEF Acquires, Proceeds, FailCall, Return, BeginAppend, QueryPage, ReadHighWater, ListDevices,
      InsertEntry, CommitAppend, ReadPage, PageRead, SequencesExhausted, Abort, tables
<1>6. CASE UNCHANGED vars
  BY <1>6 DEF vars, tables
<1> HIDE DEF Contact, Removal
<1>7. ASSUME NEW h \in Handler, Return(h) \/ Step(h)
      PROVE  devices' = devices \/ Contact \/ Removal
  BY <1>2, <1>3, <1>4, <1>5, <1>7 DEF Step, Fails
<1>8. CASE Next
  <2>1. devices' = devices \/ Contact \/ Removal
    BY <1>1, <1>7, <1>8 DEF Next
  <2> QED BY <2>1 DEF Contact, Removal
<1> QED BY <1>6, <1>8

\* A contact keeps one listing, and keeps when the device was first seen.
LEMMA UpsertKeepsFirst ==
    ASSUME OneListing, NEW dataset, NEW device, NEW name, NEW at
    PROVE  LET after == Upsert(devices, dataset, device, name, at)
           IN  /\ \A d, e \in after :
                     (d.dataset = e.dataset /\ d.device = e.device) => d = e
               /\ \A d \in devices, e \in after :
                     (d.dataset = e.dataset /\ d.device = e.device) =>
                         d.firstSeen = e.firstSeen
<1> DEFINE old == Listed(devices, dataset, device)
<1> DEFINE first == IF old = {} THEN at ELSE (CHOOSE d \in old : TRUE).firstSeen
<1> DEFINE new == [dataset |-> dataset, device |-> device, name |-> name,
                   firstSeen |-> first, lastSeen |-> at]
<1>1. Upsert(devices, dataset, device, name, at) = (devices \ old) \cup {new}
  BY DEF Upsert
<1>2. \A d \in devices : d \in old <=> d.dataset = dataset /\ d.device = device
  BY DEF Listed, Listings
<1>3. \A d \in old : d \in devices /\ d.firstSeen = first
  <2>1. \A d, e \in old : d = e
    BY <1>2 DEF OneListing, Listed, Listings
  <2>2. old # {} => (CHOOSE d \in old : TRUE) \in old
    OBVIOUS
  <2>3. old \subseteq devices
    BY DEF Listed, Listings
  <2> HIDE DEF old
  <2> QED BY <2>1, <2>2, <2>3
<1>4. new.dataset = dataset /\ new.device = device /\ new.firstSeen = first
  OBVIOUS
<1> HIDE DEF old, first, new
<1> QED BY <1>1, <1>2, <1>3, <1>4 DEF OneListing

LEMMA ContactsKeepFirst ==
    ASSUME StoreInvariant, OneListing, [Next]_vars
    PROVE  /\ OneListing'
           /\ \A d \in devices, e \in devices' :
                 (d.dataset = e.dataset /\ d.device = e.device) => d.firstSeen = e.firstSeen
<1>1. CASE devices' = devices
  BY <1>1 DEF OneListing
<1>2. ASSUME NEW dataset, NEW device, NEW name, NEW at,
             devices' = Upsert(devices, dataset, device, name, at)
      PROVE  /\ OneListing'
             /\ \A d \in devices, e \in devices' :
                   (d.dataset = e.dataset /\ d.device = e.device) => d.firstSeen = e.firstSeen
  BY <1>2, UpsertKeepsFirst DEF OneListing
<1>3. ASSUME NEW dataset, NEW device, devices' = Delete(devices, dataset, device)
      PROVE  /\ OneListing'
             /\ \A d \in devices, e \in devices' :
                   (d.dataset = e.dataset /\ d.device = e.device) => d.firstSeen = e.firstSeen
  <2>1. devices' \subseteq devices
    BY <1>3 DEF Delete
  <2> QED BY <2>1 DEF OneListing
<1> QED BY <1>1, <1>2, <1>3, DevicesChange

\* A device has one listing in a dataset at any time.
THEOREM DevicesAreListedOnce == Spec => []OneListing
<1>1. Init => OneListing
  BY DEF Init, OneListing
<1>2. StoreInvariant /\ OneListing /\ [Next]_vars => OneListing'
  BY ContactsKeepFirst
<1> QED BY <1>1, <1>2, StoreInvariantHolds, PTL DEF Spec

\* No contact changes when a device was first seen.
THEOREM FirstContactsAreKept == Spec => FirstSeenIsKept
<1>1. StoreInvariant /\ OneListing /\ [Next]_vars =>
          [\A d \in devices, e \in devices' :
              (d.dataset = e.dataset /\ d.device = e.device) => d.firstSeen = e.firstSeen]_vars
  BY ContactsKeepFirst
<1> QED
  BY <1>1, StoreInvariantHolds, DevicesAreListedOnce, PTL DEF Spec, FirstSeenIsKept

-----------------------------------------------------------------------------
(* How long a call may take.                                               *)

LEMMA StepsLeftIsNatural ==
    ASSUME StoreInvariant, NEW h \in Handler
    PROVE  /\ StepsLeft(h) \in 0..MaxBatch + 3
           /\ StepsLeft(h) > 0 <=> pc[h] \in Running
<1>1. /\ Len(args[h].blobs) \in 0..MaxBatch
      /\ pc[h] = "insert" => Rest(h) \in 0..Len(args[h].blobs)
  <2>1. args[h].blobs \in Batches
    BY DEF StoreInvariant, TypeOK, Args
  <2>2. Len(args[h].blobs) \in 0..MaxBatch
    BY <2>1, BoundAssumption DEF Batches
  <2> QED BY <2>2 DEF StoreInvariant, TypeOK, TransactionFollowsLog, Rest, Inserted
<1>2. MaxBatch \in Nat /\ pc[h] \in {"idle"} \cup Running \cup Returned
  BY BoundAssumption DEF StoreInvariant, TypeOK
<1>3. CASE pc[h] = "begin"
  BY <1>1, <1>2, <1>3 DEF StepsLeft, Running, StoreInvariant, ArgumentsGiven
<1>4. CASE pc[h] = "insert"
  BY <1>1, <1>2, <1>4 DEF StepsLeft, Running
<1>5. CASE pc[h] \notin {"begin", "insert"}
  BY <1>2, <1>5 DEF StepsLeft, Running, Returned
<1> QED BY <1>3, <1>4, <1>5

LEMMA OwnStepCounts ==
    ASSUME StoreInvariant, NEW h \in Handler, Step(h)
    PROVE  StepsLeft(h)' \in Nat /\ StepsLeft(h)' < StepsLeft(h)
<1>1. /\ StepsLeft(h) \in Nat /\ TypeOK
      /\ pc[h] \in Running => StepsLeft(h) > 0
      /\ pc'[h] \notin Running => StepsLeft(h)' = 0
  <2>1. StepsLeft(h) \in Nat /\ (StepsLeft(h) > 0 <=> pc[h] \in Running)
    BY StepsLeftIsNatural, BoundAssumption
  <2>2. pc'[h] \notin Running => StepsLeft(h)' = 0
    BY DEF StepsLeft, Running
  <2> QED BY <2>1, <2>2 DEF StoreInvariant
<1>2. ASSUME pc[h] \in Running, pc'[h] \notin Running
      PROVE  StepsLeft(h)' \in Nat /\ StepsLeft(h)' < StepsLeft(h)
  BY <1>1, <1>2
<1>3. CASE BeginAppend(h)
  <2>1. /\ pc[h] = "begin" /\ pc'[h] = "insert"
        /\ Rest(h)' = Len(args[h].blobs) /\ Len(args[h].blobs) \in Nat
    <3>1. Len(args[h].blobs) \in Nat
      BY <1>1, BlobsAreSequence DEF TypeOK
    <3> QED BY <1>1, <1>3, <3>1 DEF BeginAppend, Rest, Inserted, TypeOK, tables
  <2> QED BY <2>1 DEF StepsLeft
<1>4. CASE InsertEntry(h)
  <2>1. /\ pc[h] = "insert" /\ pc'[h] = "insert"
        /\ Rest(h)' = Rest(h) - 1 /\ Rest(h) \in Nat /\ Rest(h) > 0
    <3>1. Len(args[h].blobs) \in Nat /\ lastSequence \in Nat /\ txSequence \in Nat
      BY <1>1, BlobsAreSequence DEF TypeOK
    <3>2. /\ pc[h] = "insert" /\ pc' = pc /\ args' = args /\ lastSequence' = lastSequence
          /\ txSequence' = txSequence + 1 /\ txSequence - lastSequence < Len(args[h].blobs)
      BY <1>4 DEF InsertEntry, Inserted, tables
    <3> QED BY <3>1, <3>2 DEF Rest, Inserted
  <2> QED BY <2>1 DEF StepsLeft
<1>5. CASE QueryPage(h)
  BY <1>1, <1>5 DEF QueryPage, StepsLeft, TypeOK
<1>6. CASE ReadPage(h)
  <2>1. pc[h] = "scan" /\ pc'[h] \in {"highWater", "paged"}
    BY <1>1, <1>6 DEF ReadPage, PageRead, TypeOK
  <2> QED BY <2>1 DEF StepsLeft
<1>7. CASE CommitAppend(h) \/ ReadHighWater(h)
  BY <1>1, <1>2, <1>7 DEF CommitAppend, ReadHighWater, Running, TypeOK
<1>8. CASE TouchDevice(h) \/ ListDevices(h) \/ RemoveDevice(h) \/ FailAfterwards(h)
  BY <1>1, <1>2, <1>8
  DEF TouchDevice, ListDevices, RemoveDevice, FailAfterwards, Running, TypeOK
<1>9. CASE FailCall(h) \/ SequencesExhausted(h)
  BY <1>1, <1>2, <1>9 DEF FailCall, SequencesExhausted, Abort, Running, TypeOK
<1> QED BY <1>3, <1>4, <1>5, <1>6, <1>7, <1>8, <1>9 DEF Step, Acquires, Proceeds, Fails

\* While a handler is inside a transaction nobody moves the numbers under it.
LEMMA OthersLeaveAlone ==
    ASSUME StoreInvariant, NEW h \in Handler, NEW k \in Handler, k # h,
           EntryCalls(k) \/ DeviceCalls(k) \/ Return(k) \/ Step(k)
    PROVE  /\ pc'[h] = pc[h] /\ args'[h] = args[h]
           /\ pc[h] = "insert" => txSequence' = txSequence /\ lastSequence' = lastSequence
<1>1. /\ TypeOK
      /\ pc[h] = "insert" => connection = h /\ pc[k] \notin {"insert", "scan"}
      /\ h # None
  BY NoneAssumption DEF StoreInvariant, ConnectionHeldOnlyWhileUsed
<1>2. ASSUME NEW label, NEW a, Call(k, label, a)
      PROVE  /\ pc'[h] = pc[h] /\ args'[h] = args[h]
             /\ txSequence' = txSequence /\ lastSequence' = lastSequence
  <2>1. pc' = [pc EXCEPT ![k] = label] /\ args' = [args EXCEPT ![k] = a]
    BY <1>2 DEF Call
  <2>2. tables' = tables /\ txVars' = txVars
    BY <1>2 DEF Call
  <2>3. txSequence' = txSequence
    BY <2>2 DEF txVars
  <2>4. lastSequence' = lastSequence
    BY <2>2 DEF tables
  <2> QED BY <1>1, <2>1, <2>3, <2>4 DEF TypeOK
<1>3. CASE EntryCalls(k) \/ DeviceCalls(k)
  BY <1>2, <1>3
  DEF EntryCalls, DeviceCalls, CallAppend, CallPage, CallTouchDevice, CallDevices,
      CallRemoveDevice
<1>4. CASE Return(k)
  BY <1>1, <1>4 DEF Return, TypeOK, tables, txVars
<1>5. CASE BeginAppend(k) \/ InsertEntry(k) \/ CommitAppend(k)
  BY <1>1, <1>5 DEF BeginAppend, InsertEntry, CommitAppend, TypeOK, tables
<1>6. CASE QueryPage(k) \/ ReadPage(k) \/ ReadHighWater(k)
  BY <1>1, <1>6 DEF QueryPage, ReadPage, PageRead, ReadHighWater, TypeOK, tables, txVars
<1>7. CASE TouchDevice(k) \/ ListDevices(k) \/ RemoveDevice(k) \/ FailAfterwards(k)
  BY <1>1, <1>7 DEF TouchDevice, ListDevices, RemoveDevice, FailAfterwards, TypeOK, tables, txVars
<1>8. CASE FailCall(k) \/ SequencesExhausted(k)
  BY <1>1, <1>8 DEF FailCall, SequencesExhausted, Abort, TypeOK, tables, txVars
<1> QED BY <1>3, <1>4, <1>5, <1>6, <1>7, <1>8 DEF Step, Acquires, Proceeds, Fails

\* Every call has a bound on its own steps, whatever the others do between them.
THEOREM CallsAreBounded ==
    Spec => CallsGoForward /\ [](\A h \in Handler : StepsLeft(h) \in 0..MaxBatch + 3)
<1>1. StoreInvariant => \A h \in Handler : StepsLeft(h) \in 0..MaxBatch + 3
  BY StepsLeftIsNatural
<1>2. StoreInvariant /\ [Next]_vars =>
          [\A h \in Handler : pc[h] \in Running =>
              /\ Step(h) => StepsLeft(h)' < StepsLeft(h)
              /\ ~Step(h) => StepsLeft(h)' = StepsLeft(h)]_vars
  <2> SUFFICES ASSUME StoreInvariant, Next,
                      NEW h \in Handler, pc[h] \in Running, ~Step(h)
               PROVE  StepsLeft(h)' = StepsLeft(h)
    BY OwnStepCounts
  <2>1. PICK k \in Handler : EntryCalls(k) \/ DeviceCalls(k) \/ Return(k) \/ Step(k)
    BY DEF Next
  <2>2. k # h
    <3>1. ~EntryCalls(h) /\ ~DeviceCalls(h)
      BY DEF EntryCalls, DeviceCalls, CallAppend, CallPage, CallTouchDevice, CallDevices,
             CallRemoveDevice, Call
    <3>2. ~Return(h)
      BY DEF Return, Returned, Running
    <3>3. ~(EntryCalls(h) \/ DeviceCalls(h) \/ Return(h) \/ Step(h))
      BY <3>1, <3>2
    <3> QED BY <2>1, <3>3
  <2>3. /\ pc'[h] = pc[h] /\ args'[h] = args[h]
        /\ pc[h] = "insert" => txSequence' = txSequence /\ lastSequence' = lastSequence
    BY <2>1, <2>2, OthersLeaveAlone
  <2>4. pc[h] = "insert" => Rest(h)' = Rest(h)
    BY <2>3 DEF Rest, Inserted
  <2> QED BY <2>3, <2>4 DEF StepsLeft
<1> QED BY <1>1, <1>2, StoreInvariantHolds, PTL DEF Spec, CallsGoForward

=============================================================================
