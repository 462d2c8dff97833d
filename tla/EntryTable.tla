----------------------------- MODULE EntryTable -----------------------------
(***************************************************************************)
(* The `entries` table of src/internal/store/schema.go as a set of rows,   *)
(* and the SELECTs of src/internal/store/store.go as operators on it.  A   *)
(* result ordered by sequence is a set of rows: the sequences, which are   *)
(* the primary key, give the order.                                        *)
(***************************************************************************)
EXTENDS Integers, FiniteSets

Row(sequence, dataset, device, blob) ==
    [sequence |-> sequence, dataset |-> dataset, device |-> device, blob |-> blob]

\* WHERE dataset = ? AND sequence > ? AND device_id != ?
Matching(rows, dataset, device, after) ==
    {r \in rows : /\ r.dataset = dataset
                  /\ r.sequence > after
                  /\ r.device # device}

\* ORDER BY sequence ASC LIMIT n
FirstRows(rows, n) ==
    {r \in rows : Cardinality({q \in rows : q.sequence < r.sequence}) < n}

\* The sequence of the last row of a result that is not empty.
LastSequence(rows) ==
    CHOOSE s \in {r.sequence : r \in rows} : \A r \in rows : r.sequence <= s

ClampLimit(limit, max) ==
    IF limit < 1 THEN 1 ELSE IF limit > max THEN max ELSE limit

\* WRONG: LIMIT counts the asking device's own rows too.
ScanPageOwnCounted(rows, dataset, device, after, limit) ==
    {r \in FirstRows({q \in rows : q.dataset = dataset /\ q.sequence > after}, limit + 1) :
        r.device # device}

\* WRONG: not a row more than the page holds.
ScanPageNoExtra(rows, dataset, device, after, limit) ==
    FirstRows(Matching(rows, dataset, device, after), limit)

\* WRONG: every dataset's rows.
ScanPageAnyDataset(rows, dataset, device, after, limit) ==
    FirstRows({r \in rows : r.sequence > after /\ r.device # device}, limit + 1)

\* The page's query asks for one row more than the page may hold.
ScanPage(rows, dataset, device, after, limit) ==
    FirstRows(Matching(rows, dataset, device, after), limit + 1)

PageEntries(scanned, limit) == FirstRows(scanned, limit)

PageHasMore(scanned, limit) == Cardinality(scanned) > limit

\* SELECT MAX(sequence) ... WHERE dataset = ?, or 0 when there is none.
HighWater(rows, dataset) ==
    LET own == {r \in rows : r.dataset = dataset}
    IN  IF own = {} THEN 0 ELSE LastSequence(own)

=============================================================================
