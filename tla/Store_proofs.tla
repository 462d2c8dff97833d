----------------------------- MODULE Store_proofs -----------------------------
(***************************************************************************)
(* Proofs about Store, for any number of handlers, devices and datasets,   *)
(* any sizes of batches and pages.                                         *)
(***************************************************************************)
EXTENDS Store, FiniteSetTheorems, NaturalsInduction, WellFoundedInduction, TLAPS

-----------------------------------------------------------------------------
(* What the SELECTs of EntryTable return, for every table.                 *)

\* Every set of numbers that is not empty and has a bound has a largest member.
LEMMA LargestExists ==
    ASSUME NEW T, T \subseteq Nat, T # {}, NEW b \in Nat, \A t \in T : t <= b
    PROVE  \E m \in T : \A t \in T : t <= m
<1> DEFINE Less == {p \in Nat \X Nat : p[1] < p[2]}
<1> DEFINE D == {n \in Nat : \E t \in T : n = b - t}
<1>1. IsWellFoundedOn(Less, Nat)
  BY NatLessThanWellFounded DEF OpToRel
<1>2. \A t \in T : t \in Nat /\ b - t \in D
  OBVIOUS
<1>3. PICK d \in D : \A y \in D : ~(<<y, d>> \in Less)
  <2>1. D \subseteq Nat /\ D # {}
    BY <1>2
  <2> HIDE DEF Less, D
  <2> QED BY <1>1, <2>1, WFMin
<1>4. PICK m \in T : d = b - m
  OBVIOUS
<1>5. ASSUME NEW t \in T PROVE t <= m
  <2>1. ~(b - t < d)
    BY <1>2, <1>3
  <2> QED BY <2>1, <1>2, <1>4
<1> QED BY <1>5

\* ... and every set of numbers that is not empty has a smallest one.
LEMMA SmallestExists ==
    ASSUME NEW T, T \subseteq Nat, T # {}
    PROVE  \E m \in T : \A t \in T : m <= t
<1> DEFINE Less == {p \in Nat \X Nat : p[1] < p[2]}
<1>1. IsWellFoundedOn(Less, Nat)
  BY NatLessThanWellFounded DEF OpToRel
<1>2. PICK m \in T : \A y \in T : ~(<<y, m>> \in Less)
  <2> HIDE DEF Less
  <2> QED BY <1>1, WFMin
<1>3. ASSUME NEW t \in T PROVE m <= t
  <2>1. ~(t < m)
    BY <1>2
  <2> QED BY <2>1
<1> QED BY <1>3

\* The rows of LIMIT n are an initial part of the result.
LEMMA FirstRowsInitial ==
    ASSUME NEW rows, IsFiniteSet(rows), \A r \in rows : r.sequence \in Nat,
           NEW n \in Nat, NEW r \in FirstRows(rows, n),
           NEW q \in rows, q.sequence <= r.sequence
    PROVE  q \in FirstRows(rows, n)
<1> DEFINE Below(x) == {p \in rows : p.sequence < x.sequence}
<1>1. r \in rows /\ Cardinality(Below(r)) < n
  BY DEF FirstRows
<1>2. Below(q) \subseteq Below(r)
  BY <1>1
<1>3. IsFiniteSet(Below(r)) /\ IsFiniteSet(Below(q))
  BY FS_Subset
<1>4. Cardinality(Below(q)) <= Cardinality(Below(r))
  BY <1>2, <1>3, FS_Subset
<1>5. Cardinality(Below(q)) \in Nat /\ Cardinality(Below(r)) \in Nat
  BY <1>3, FS_CardinalityType
<1>6. Cardinality(Below(q)) < n
  BY <1>1, <1>4, <1>5
<1> QED BY <1>6 DEF FirstRows

\* LIMIT n keeps at least one row of a result that has one.
LEMMA FirstRowsNotEmpty ==
    ASSUME NEW rows, \A r \in rows : r.sequence \in Nat, rows # {},
           NEW n \in Nat, n > 0
    PROVE  FirstRows(rows, n) # {}
<1> DEFINE T == {r.sequence : r \in rows}
<1>1. PICK m \in T : \A t \in T : m <= t
  <2>1. T \subseteq Nat /\ T # {}
    OBVIOUS
  <2> HIDE DEF T
  <2> QED BY <2>1, SmallestExists
<1>2. PICK r \in rows : r.sequence = m
  OBVIOUS
<1>3. {q \in rows : q.sequence < r.sequence} = {}
  BY <1>1, <1>2
<1>4. Cardinality({q \in rows : q.sequence < r.sequence}) = 0
  BY <1>3, FS_EmptySet
<1>5. r \in FirstRows(rows, n)
  BY <1>4 DEF FirstRows
<1> QED BY <1>5

\* LastSequence is the sequence of a row, and no row's is larger.
LEMMA LastSequenceIsLargest ==
    ASSUME NEW rows, rows # {}, NEW b \in Nat,
           \A r \in rows : r.sequence \in Nat /\ r.sequence <= b
    PROVE  /\ \E r \in rows : r.sequence = LastSequence(rows)
           /\ \A r \in rows : r.sequence <= LastSequence(rows)
           /\ LastSequence(rows) \in Nat
<1> DEFINE T == {r.sequence : r \in rows}
<1>1. \E m \in T : \A t \in T : t <= m
  <2>1. T \subseteq Nat /\ T # {} /\ \A t \in T : t <= b
    OBVIOUS
  <2> HIDE DEF T
  <2> QED BY <2>1, LargestExists
<1>2. \E s \in T : \A r \in rows : r.sequence <= s
  BY <1>1
<1>3. LastSequence(rows) \in T /\ \A r \in rows : r.sequence <= LastSequence(rows)
  BY <1>2 DEF LastSequence
<1> QED BY <1>3

\* LIMIT n gives no more than n rows, and n of them when there are more.
LEMMA FirstRowsCount ==
    ASSUME NEW rows, IsFiniteSet(rows), NEW b \in Nat,
           \A r \in rows : r.sequence \in Nat /\ r.sequence <= b,
           \A r, q \in rows : r.sequence = q.sequence => r = q,
           NEW n \in Nat
    PROVE  /\ Cardinality(FirstRows(rows, n)) <= n
           /\ Cardinality(rows) > n => Cardinality(FirstRows(rows, n)) = n
<1> DEFINE K == FirstRows(rows, n)
<1> DEFINE Below(x) == {p \in rows : p.sequence < x.sequence}
<1>1. K \subseteq rows /\ \A x \in rows : x \in K <=> Cardinality(Below(x)) < n
  BY DEF FirstRows
<1>2. /\ IsFiniteSet(K) /\ Cardinality(K) \in Nat /\ Cardinality(rows) \in Nat
      /\ \A x : IsFiniteSet(Below(x)) /\ Cardinality(Below(x)) \in Nat
  <2>1. \A x : Below(x) \subseteq rows
    OBVIOUS
  <2> QED BY <1>1, <2>1, FS_Subset, FS_CardinalityType
<1> HIDE DEF K
<1>3. Cardinality(K) <= n
  <2>1. CASE K = {}
    BY <2>1, FS_EmptySet
  <2>2. CASE K # {}
    <3>1. PICK m \in K : \A x \in K : x.sequence <= m.sequence
      <4>1. \A x \in K : x.sequence \in Nat /\ x.sequence <= b
        BY <1>1
      <4> QED BY <2>2, <4>1, LastSequenceIsLargest
    <3>2. K \ {m} \subseteq Below(m)
      BY <1>1, <3>1
    <3>3. Cardinality(K \ {m}) = Cardinality(K) - 1
      BY <1>2, <3>1, FS_RemoveElement
    <3>4. Cardinality(K \ {m}) <= Cardinality(Below(m))
      BY <1>2, <3>2, FS_Subset
    <3>5. Cardinality(Below(m)) < n
      BY <1>1, <3>1
    <3> HIDE DEF Below
    <3> QED BY <1>2, <3>3, <3>4, <3>5
  <2> QED BY <2>1, <2>2
<1>4. ASSUME Cardinality(rows) > n PROVE Cardinality(K) = n
  <2>1. rows \ K # {}
    <3>1. rows # K
      BY <1>2, <1>3, <1>4
    <3> QED BY <1>1, <3>1
  <2>2. PICK m \in {x.sequence : x \in rows \ K} :
            \A t \in {x.sequence : x \in rows \ K} : m <= t
    <3> DEFINE T == {x.sequence : x \in rows \ K}
    <3>1. T \subseteq Nat /\ T # {}
      BY <2>1
    <3> HIDE DEF T
    <3>2. \E t \in T : \A u \in T : t <= u
      BY <3>1, SmallestExists
    <3> QED BY <3>2 DEF T
  <2>3. PICK x \in rows \ K : x.sequence = m
    BY <2>2
  <2>4. ASSUME NEW p \in Below(x) PROVE p \in K
    <3>1. p \in rows /\ p.sequence \in Nat /\ x.sequence \in Nat /\ p.sequence < x.sequence
      OBVIOUS
    <3>2. p \in rows \ K => x.sequence <= p.sequence
      BY <2>2, <2>3
    <3> HIDE DEF Below
    <3> QED BY <3>1, <3>2
  <2>5. Cardinality(Below(x)) <= Cardinality(K)
    BY <1>2, <2>4, FS_Subset
  <2>6. ~(Cardinality(Below(x)) < n)
    BY <1>1, <2>3
  <2> HIDE DEF Below
  <2> QED BY <1>2, <1>3, <2>5, <2>6
<1> QED BY <1>3, <1>4 DEF K

\* The query of one row more than the page holds tells whether there is a row
\* above the page: the extra row is one, and without it the page is all there is.
LEMMA ExtraRowMeansMore ==
    ASSUME NEW rows, IsFiniteSet(rows), NEW b \in Nat,
           \A r \in rows : r.sequence \in Nat /\ r.sequence <= b,
           \A r, q \in rows : r.sequence = q.sequence => r = q,
           NEW n \in Nat
    PROVE  Cardinality(FirstRows(rows, n + 1)) > n <=>
               \E r \in rows : \A q \in FirstRows(FirstRows(rows, n + 1), n) :
                   q.sequence < r.sequence
<1> DEFINE S == FirstRows(rows, n + 1)
<1> DEFINE K == FirstRows(S, n)
<1> DEFINE BelowIn(set, x) == {p \in set : p.sequence < x.sequence}
<1>1. S \subseteq rows /\ K \subseteq S
  BY DEF FirstRows
<1>2. /\ IsFiniteSet(S) /\ Cardinality(S) \in Nat
      /\ \A x : IsFiniteSet(BelowIn(S, x)) /\ Cardinality(BelowIn(S, x)) \in Nat
      /\ \A x : IsFiniteSet(BelowIn(rows, x)) /\ Cardinality(BelowIn(rows, x)) \in Nat
  <2>1. \A x : BelowIn(S, x) \subseteq rows /\ BelowIn(rows, x) \subseteq rows
    BY <1>1
  <2> QED BY <1>1, <2>1, FS_Subset, FS_CardinalityType
<1>3. /\ \A x \in rows : x \in S <=> Cardinality(BelowIn(rows, x)) < n + 1
      /\ \A x \in S : x \in K <=> Cardinality(BelowIn(S, x)) < n
  BY DEF FirstRows
<1>4. \A x \in S : x.sequence \in Nat /\ x.sequence <= b
  BY <1>1
<1>5. ASSUME Cardinality(S) > n
      PROVE  \E r \in rows : \A q \in K : q.sequence < r.sequence
  <2>1. S # {}
    BY <1>5, FS_EmptySet
  <2>2. PICK m \in S : \A x \in S : x.sequence <= m.sequence
    <3> HIDE DEF S
    <3> QED BY <1>4, <2>1, LastSequenceIsLargest
  <2>3. BelowIn(S, m) = S \ {m}
    BY <1>1, <1>4, <2>2
  <2>4. Cardinality(S \ {m}) = Cardinality(S) - 1
    <3> HIDE DEF S
    <3> QED BY <1>2, <2>2, FS_RemoveElement
  <2>5. m \notin K
    <3> HIDE DEF S, K
    <3> QED BY <1>2, <1>3, <1>5, <2>2, <2>3, <2>4
  <2>6. ASSUME NEW q \in K, ~(q.sequence < m.sequence) PROVE FALSE
    <3>1. m.sequence <= q.sequence
      BY <1>1, <1>4, <2>2, <2>6
    <3>2. m \in K
      <4> HIDE DEF S
      <4> QED BY <1>2, <1>4, <2>2, <2>6, <3>1, FirstRowsInitial
    <3> QED BY <2>5, <3>2
  <2> QED BY <1>1, <2>2, <2>6
<1>6. ASSUME NEW r \in rows, \A q \in K : q.sequence < r.sequence
      PROVE  Cardinality(S) > n
  <2>1. CASE r \in S
    <3>1. r \notin K
      BY <1>6
    <3>2. Cardinality(BelowIn(S, r)) >= n
      <4>1. ~(Cardinality(BelowIn(S, r)) < n)
        <5> HIDE DEF S, K, BelowIn
        <5> QED BY <1>3, <2>1, <3>1
      <4>2. Cardinality(BelowIn(S, r)) \in Nat
        BY <1>2
      <4> HIDE DEF S, K, BelowIn
      <4> QED BY <4>1, <4>2
    <3>3. r \notin BelowIn(S, r) /\ BelowIn(S, r) \cup {r} \subseteq S
      BY <2>1
    <3>4. /\ Cardinality(BelowIn(S, r) \cup {r}) = Cardinality(BelowIn(S, r)) + 1
          /\ Cardinality(BelowIn(S, r) \cup {r}) <= Cardinality(S)
      <4> HIDE DEF BelowIn, S
      <4> QED BY <1>2, <3>3, FS_AddElement, FS_Subset
    <3> HIDE DEF BelowIn, S
    <3> QED BY <1>2, <3>2, <3>4
  <2>2. CASE r \notin S
    <3> DEFINE T == {x.sequence : x \in rows \ S}
    <3>1. PICK s \in T : \A t \in T : s <= t
      <4>1. T \subseteq Nat /\ T # {}
        BY <2>2
      <4> HIDE DEF T
      <4> QED BY <4>1, SmallestExists
    <3>2. PICK x \in rows \ S : x.sequence = s
      OBVIOUS
    <3>3. BelowIn(rows, x) \subseteq S
      BY <3>1, <3>2
    <3>4. Cardinality(BelowIn(rows, x)) <= Cardinality(S)
      <4> HIDE DEF BelowIn, S
      <4> QED BY <1>2, <3>3, FS_Subset
    <3>5. ~(Cardinality(BelowIn(rows, x)) < n + 1)
      BY <1>3, <3>2
    <3> HIDE DEF BelowIn, S
    <3> QED BY <1>2, <3>4, <3>5
  <2> QED BY <2>1, <2>2
<1> QED BY <1>5, <1>6

-----------------------------------------------------------------------------
(* Constants and types.                                                    *)

LEMMA BatchIsSequence ==
    ASSUME NEW b \in Batches
    PROVE  b \in Seq(Blob) /\ Len(b) \in 0..MaxBatch /\ b \in [1..Len(b) -> Blob]
  BY BoundAssumption DEF Batches

LEMMA BlobsAreSequence ==
    ASSUME TypeOK, NEW h \in Handler
    PROVE  /\ args[h].blobs \in Seq(Blob)
           /\ Len(args[h].blobs) \in Nat
           /\ \A i \in 1..Len(args[h].blobs) : args[h].blobs[i] \in Blob
<1>1. args[h] \in Args
  BY DEF TypeOK
<1>2. args[h].blobs \in Batches
  BY <1>1 DEF Args
<1> QED BY <1>2, BatchIsSequence

LEMMA EmptyBatch == <<>> \in Batches
<1>1. <<>> \in [1..0 -> Blob]
  OBVIOUS
<1>2. 0 \in 0..MaxBatch
  BY BoundAssumption
<1> QED BY <1>1, <1>2 DEF Batches

LEMMA NoArgsIsArgs == NoArgs \in Args
  BY EmptyBatch DEF NoArgs, Args

LEMMA AfterIsNatural ==
    ASSUME TypeOK, NEW h \in Handler
    PROVE  args[h].after \in Nat
<1>1. args[h] \in Args
  BY DEF TypeOK
<1>2. args[h].after \in Cursor \cup {0}
  BY <1>1 DEF Args
<1>3. Cursor \cup {0} \subseteq Nat
  BY CursorAssumption
<1> HIDE DEF TypeOK
<1> QED BY <1>2, <1>3

LEMMA PageSizeIsPositive ==
    ASSUME TypeOK, NEW h \in Handler
    PROVE  PageSize(h) \in Nat /\ PageSize(h) > 0
<1>1. args[h] \in Args
  BY DEF TypeOK
<1>2. args[h].limit \in Limit \cup {0}
  BY <1>1 DEF Args
<1>3. args[h].limit \in Int
  BY <1>2, LimitAssumption
<1> QED BY <1>3, LimitAssumption DEF PageSize, ClampLimit

-----------------------------------------------------------------------------
(* The initial state, and the actions one by one.                          *)

LEMMA InitEstablishes == Init => StoreInvariant
<1> SUFFICES ASSUME Init PROVE StoreInvariant
  OBVIOUS
<1>1. NoPage \in Page
  BY DEF NoPage, Page
<1>2. TypeOK
  BY <1>1, NoArgsIsArgs DEF Init, TypeOK
<1>3. IsFiniteSet(entries) /\ IsFiniteSet(txEntries)
  BY FS_EmptySet DEF Init
<1>4. EntriesNumbered
  BY DEF Init, EntriesNumbered
<1>5. ConnectionHeldOnlyWhileUsed
  BY NoneAssumption DEF Init, ConnectionHeldOnlyWhileUsed
<1>6. \A h \in Handler : pc[h] = "idle"
  BY DEF Init
<1>7. TransactionFollowsLog
  BY <1>6, BoundAssumption DEF Init, TransactionFollowsLog
<1> QED
  BY <1>2, <1>3, <1>4, <1>5, <1>6, <1>7
  DEF StoreInvariant, ArgumentsGiven, ScanIsCurrent, EmptyPageWasEmpty, PageEndsInLog,
      AppendStoresItsBatch, PageSkipsNothing

\* What a call needs of its arguments: those of Args, and all of them given.
Given(label, a) ==
    /\ a \in Args
    /\ label \in {"appended", "begin", "query", "upsert", "list", "delete"}
    /\ label = "appended" => a.blobs = <<>>
    /\ label = "begin" => a.dataset \in Dataset /\ a.device \in Device /\ Len(a.blobs) > 0
    /\ label = "upsert" => /\ a.dataset \in Dataset
                           /\ a.device \in Device
                           /\ a.name \in Name
                           /\ a.at \in Time

\* Nothing of the tables or of the connection changes: a handler enters a call.
LEMMA CallPreserves ==
    ASSUME StoreInvariant, NEW h \in Handler, NEW label, NEW a,
           Given(label, a), Call(h, label, a)
    PROVE  StoreInvariant'
<1> USE DEF StoreInvariant
<1>1. TypeOK'
  <2>1. NoPage \in Page
    BY DEF NoPage, Page
  <2> QED
    BY <2>1 DEF TypeOK, Call, ClearResults, Given, tables, txVars, Running, Returned
<1>2. IsFiniteSet(entries)' /\ IsFiniteSet(txEntries)' /\ EntriesNumbered'
  BY DEF Call, tables, txVars, EntriesNumbered
<1>3. ASSUME NEW k \in Handler, k # h
      PROVE  /\ pc'[k] = pc[k] /\ args'[k] = args[k] /\ scanned'[k] = scanned[k]
             /\ page'[k] = page[k] /\ assigned'[k] = assigned[k] /\ offered'[k] = offered[k]
  BY <1>3 DEF Call, ClearResults, TypeOK
<1>4. /\ pc'[h] = label /\ args'[h] = a /\ page'[h] = NoPage
      /\ entries' = entries /\ lastSequence' = lastSequence /\ connection' = connection
      /\ txEntries' = txEntries /\ txSequence' = txSequence
      /\ pc[h] \notin Running
  BY DEF Call, ClearResults, TypeOK, tables, txVars
<1>5. ConnectionHeldOnlyWhileUsed'
  BY <1>3, <1>4 DEF ConnectionHeldOnlyWhileUsed, Given, Running
<1>6. ArgumentsGiven'
  BY <1>3, <1>4 DEF ArgumentsGiven, Given
<1>7. TransactionFollowsLog'
  BY <1>3, <1>4 DEF TransactionFollowsLog, Given, Inserted
<1>8. ScanIsCurrent'
  BY <1>3, <1>4 DEF ScanIsCurrent, Given, PageSize
<1>9. EmptyPageWasEmpty' /\ PageEndsInLog'
  BY <1>3, <1>4 DEF EmptyPageWasEmpty, PageEndsInLog, Given
<1>10. AppendStoresItsBatch'
  <2>1. Len(<<>>) = 0
    OBVIOUS
  <2> QED
    BY <1>3, <1>4, <2>1 DEF AppendStoresItsBatch, Given
<1>11. PageSkipsNothing'
  BY <1>3, <1>4 DEF PageSkipsNothing, UpTo, Given
<1> QED
  BY <1>1, <1>2, <1>5, <1>6, <1>7, <1>8, <1>9, <1>10, <1>11

\* The results go; nothing else changes.
LEMMA ReturnPreserves ==
    ASSUME StoreInvariant, NEW h \in Handler, Return(h)
    PROVE  StoreInvariant'
<1> USE DEF StoreInvariant
<1>1. TypeOK'
  <2>1. NoPage \in Page
    BY DEF NoPage, Page
  <2> QED
    BY <2>1, NoArgsIsArgs DEF TypeOK, Return, ClearResults, tables, txVars
<1>2. IsFiniteSet(entries)' /\ IsFiniteSet(txEntries)' /\ EntriesNumbered'
  BY DEF Return, tables, txVars, EntriesNumbered
<1>3. ASSUME NEW k \in Handler, k # h
      PROVE  /\ pc'[k] = pc[k] /\ args'[k] = args[k] /\ scanned'[k] = scanned[k]
             /\ page'[k] = page[k] /\ assigned'[k] = assigned[k] /\ offered'[k] = offered[k]
  BY <1>3 DEF Return, ClearResults, TypeOK
<1>4. /\ pc[h] \in Returned /\ pc'[h] = "idle"
      /\ entries' = entries /\ lastSequence' = lastSequence /\ connection' = connection
      /\ txEntries' = txEntries /\ txSequence' = txSequence
  BY DEF Return, TypeOK, tables, txVars
<1>5. ConnectionHeldOnlyWhileUsed'
  BY <1>3, <1>4 DEF ConnectionHeldOnlyWhileUsed, Returned
<1>6. ArgumentsGiven' /\ TransactionFollowsLog' /\ ScanIsCurrent'
  BY <1>3, <1>4 DEF ArgumentsGiven, TransactionFollowsLog, ScanIsCurrent, Inserted, PageSize
<1>7. EmptyPageWasEmpty' /\ PageEndsInLog' /\ AppendStoresItsBatch' /\ PageSkipsNothing'
  BY <1>3, <1>4 DEF EmptyPageWasEmpty, PageEndsInLog, AppendStoresItsBatch, PageSkipsNothing, UpTo
<1> QED
  BY <1>1, <1>2, <1>5, <1>6, <1>7

\* A failing step gives the connection up, and with it the transaction, if it
\* was the handler's own.
LEMMA AbortPreserves ==
    ASSUME StoreInvariant, NEW h \in Handler, Abort(h)
    PROVE  StoreInvariant'
<1> USE DEF StoreInvariant
<1>1. TypeOK'
  <2>1. NoPage \in Page
    BY DEF NoPage, Page
  <2>2. "failed" \in Returned /\ {} \subseteq Entry
    BY DEF Returned
  <2> QED
    BY <2>1, <2>2 DEF TypeOK, Abort, ClearResults, tables, txVars
<1>2. IsFiniteSet(entries)' /\ IsFiniteSet(txEntries)' /\ EntriesNumbered'
  BY FS_EmptySet DEF Abort, tables, txVars, EntriesNumbered
<1>3. ASSUME NEW k \in Handler, k # h
      PROVE  /\ pc'[k] = pc[k] /\ args'[k] = args[k] /\ scanned'[k] = scanned[k]
             /\ page'[k] = page[k] /\ assigned'[k] = assigned[k] /\ offered'[k] = offered[k]
  BY <1>3 DEF Abort, ClearResults, TypeOK, tables
<1>4. /\ pc'[h] = "failed" /\ entries' = entries /\ lastSequence' = lastSequence
      /\ connection' = IF connection = h THEN None ELSE connection
      /\ connection # h => txEntries' = txEntries /\ txSequence' = txSequence
  BY DEF Abort, TypeOK, tables, txVars
<1>5. ConnectionHeldOnlyWhileUsed'
  BY <1>3, <1>4, NoneAssumption DEF ConnectionHeldOnlyWhileUsed
<1>6. ArgumentsGiven' /\ ScanIsCurrent'
  BY <1>3, <1>4 DEF ArgumentsGiven, ScanIsCurrent, PageSize
<1>7. TransactionFollowsLog'
  BY <1>3, <1>4 DEF TransactionFollowsLog, ConnectionHeldOnlyWhileUsed, Inserted
<1>8. EmptyPageWasEmpty' /\ PageEndsInLog' /\ AppendStoresItsBatch' /\ PageSkipsNothing'
  BY <1>3, <1>4 DEF EmptyPageWasEmpty, PageEndsInLog, AppendStoresItsBatch, PageSkipsNothing, UpTo
<1> QED
  BY <1>1, <1>2, <1>5, <1>6, <1>7, <1>8

LEMMA BeginAppendPreserves ==
    ASSUME StoreInvariant, NEW h \in Handler, BeginAppend(h)
    PROVE  StoreInvariant'
<1> USE DEF StoreInvariant
<1>1. TypeOK'
  BY DEF TypeOK, BeginAppend, tables, results, Running
<1>2. IsFiniteSet(entries)' /\ IsFiniteSet(txEntries)' /\ EntriesNumbered'
  BY FS_EmptySet DEF BeginAppend, tables, EntriesNumbered
<1>3. ASSUME NEW k \in Handler, k # h
      PROVE  pc'[k] = pc[k] /\ pc[k] \notin {"insert", "scan"}
  BY <1>3, NoneAssumption DEF BeginAppend, TypeOK, ConnectionHeldOnlyWhileUsed
<1>4. /\ pc[h] = "begin" /\ pc'[h] = "insert" /\ connection' = h /\ txEntries' = {}
      /\ txSequence' = lastSequence /\ lastSequence' = lastSequence /\ entries' = entries
      /\ UNCHANGED <<args, scanned, page, assigned, offered>>
  BY DEF BeginAppend, TypeOK, tables, results
<1>5. ConnectionHeldOnlyWhileUsed'
  BY <1>3, <1>4 DEF ConnectionHeldOnlyWhileUsed
<1>6. ArgumentsGiven' /\ ScanIsCurrent'
  BY <1>3, <1>4 DEF ArgumentsGiven, ScanIsCurrent, PageSize
<1>7. TransactionFollowsLog'
  <2>1. Len(args[h].blobs) \in Nat
    BY BlobsAreSequence
  <2>2. lastSequence \in Nat /\ lastSequence <= MaxSequence
    BY DEF TypeOK, TransactionFollowsLog
  <2>3. Inserted' = 0
    BY <1>4, <2>2 DEF Inserted
  <2>4. {Row(lastSequence' + i, args'[h].dataset, args'[h].device, args'[h].blobs[i]) :
            i \in 1..Inserted'} = {}
    BY <2>3
  <2> QED
    BY <1>3, <1>4, <2>1, <2>2, <2>3, <2>4 DEF TransactionFollowsLog
<1>8. EmptyPageWasEmpty' /\ PageEndsInLog' /\ AppendStoresItsBatch' /\ PageSkipsNothing'
  BY <1>3, <1>4 DEF EmptyPageWasEmpty, PageEndsInLog, AppendStoresItsBatch, PageSkipsNothing, UpTo
<1> QED
  BY <1>1, <1>2, <1>5, <1>6, <1>7, <1>8

LEMMA InsertEntryPreserves ==
    ASSUME StoreInvariant, NEW h \in Handler, InsertEntry(h)
    PROVE  StoreInvariant'
<1> USE DEF StoreInvariant
<1> DEFINE row == Row(txSequence + 1, args[h].dataset, args[h].device, args[h].blobs[Inserted + 1])
<1>1. /\ pc[h] = "insert" /\ txSequence' = txSequence + 1 /\ txEntries' = txEntries \cup {row}
      /\ Inserted < Len(args[h].blobs) /\ txSequence < MaxSequence
      /\ assigned' = [assigned EXCEPT ![h] = txSequence + 1]
      /\ UNCHANGED <<tables, connection, pc, args, scanned, page, listing, removed, offered>>
  BY DEF InsertEntry
<1>2. /\ txSequence \in Nat /\ lastSequence \in Nat /\ Inserted \in Nat
      /\ txSequence = lastSequence + Inserted
  BY <1>1, BlobsAreSequence DEF TypeOK, TransactionFollowsLog, Inserted
<1>3. row \in Entry
  <2>1. Inserted + 1 \in 1..Len(args[h].blobs)
    BY <1>1, <1>2, BlobsAreSequence
  <2>2. args[h].blobs[Inserted + 1] \in Blob
    BY <2>1, BlobsAreSequence
  <2> QED BY <1>1, <1>2, <2>2 DEF ArgumentsGiven, Row, Entry
<1>4. TypeOK'
  BY <1>1, <1>2, <1>3 DEF TypeOK, tables
<1>5. IsFiniteSet(entries)' /\ IsFiniteSet(txEntries)' /\ EntriesNumbered'
  BY <1>1, FS_AddElement DEF tables, EntriesNumbered
<1>6. /\ ConnectionHeldOnlyWhileUsed' /\ ArgumentsGiven' /\ ScanIsCurrent'
      /\ EmptyPageWasEmpty' /\ PageEndsInLog' /\ PageSkipsNothing'
  BY <1>1 DEF tables, ConnectionHeldOnlyWhileUsed, ArgumentsGiven, ScanIsCurrent, PageSize,
      EmptyPageWasEmpty, PageEndsInLog, PageSkipsNothing, UpTo
<1>7. TransactionFollowsLog'
  <2>1. ASSUME NEW k \in Handler, pc[k] = "insert" PROVE k = h
    BY <1>1, <2>1 DEF ConnectionHeldOnlyWhileUsed
  <2>2. Inserted' = Inserted + 1
    BY <1>1, <1>2 DEF Inserted, tables
  <2>3. txEntries' = {Row(lastSequence + i, args[h].dataset, args[h].device, args[h].blobs[i]) :
                        i \in 1..(Inserted + 1)}
    <3>1. txEntries = {Row(lastSequence + i, args[h].dataset, args[h].device, args[h].blobs[i]) :
                        i \in 1..Inserted}
      BY <1>1 DEF TransactionFollowsLog
    <3>2. row = Row(lastSequence + (Inserted + 1), args[h].dataset, args[h].device,
                    args[h].blobs[Inserted + 1])
      BY <1>2
    <3>3. 1..(Inserted + 1) = (1..Inserted) \cup {Inserted + 1}
      BY <1>2
    <3> HIDE DEF row
    <3> QED BY <1>1, <3>1, <3>2, <3>3
  <2>4. assigned'[h] = txSequence'
    BY <1>1 DEF TypeOK
  <2>5. txSequence' \in lastSequence..lastSequence + Len(args[h].blobs) /\ txSequence' <= MaxSequence
    BY <1>1, <1>2, BlobsAreSequence, BoundAssumption
  <2> QED
    BY <1>1, <2>1, <2>2, <2>3, <2>4, <2>5 DEF TransactionFollowsLog, tables
<1>8. AppendStoresItsBatch'
  BY <1>1 DEF AppendStoresItsBatch, tables, TypeOK
<1> QED
  BY <1>4, <1>5, <1>6, <1>7, <1>8

\* The step that adds to the table: what was true of every page stays true,
\* for the new rows are above every number used so far.
LEMMA CommitAppendPreserves ==
    ASSUME StoreInvariant, NEW h \in Handler, CommitAppend(h)
    PROVE  StoreInvariant'
<1> USE DEF StoreInvariant
<1>1. /\ pc[h] = "insert" /\ Inserted = Len(args[h].blobs)
      /\ entries' = entries \cup txEntries /\ lastSequence' = txSequence
      /\ connection' = None /\ txEntries' = {} /\ txSequence' = 0
      /\ pc' = [pc EXCEPT ![h] = "appended"] /\ UNCHANGED <<devices, args, results>>
  BY DEF CommitAppend
<1>2. /\ txSequence \in Nat /\ lastSequence \in Nat /\ Len(args[h].blobs) \in Nat
      /\ txSequence = lastSequence + Len(args[h].blobs) /\ txSequence <= MaxSequence
      /\ Len(args[h].blobs) > 0
  BY <1>1, BlobsAreSequence DEF TypeOK, TransactionFollowsLog, Inserted, ArgumentsGiven
<1>3. txEntries = {Row(lastSequence + i, args[h].dataset, args[h].device, args[h].blobs[i]) :
                     i \in 1..Len(args[h].blobs)}
  BY <1>1 DEF TransactionFollowsLog
<1>4. \A r \in txEntries : r.sequence \in lastSequence + 1..txSequence
  BY <1>2, <1>3 DEF Row
<1>5. ASSUME NEW k \in Handler, k # h
      PROVE  pc'[k] = pc[k] /\ pc[k] \notin {"insert", "scan"}
  BY <1>1, <1>5 DEF TypeOK, ConnectionHeldOnlyWhileUsed
<1>6. pc'[h] = "appended"
  BY <1>1 DEF TypeOK
<1>7. TypeOK'
  BY <1>1, <1>2 DEF TypeOK, results, Returned
<1>8. IsFiniteSet(entries)' /\ IsFiniteSet(txEntries)'
  BY <1>1, FS_Union, FS_EmptySet
<1>9. EntriesNumbered'
  <2>1. \A r, q \in txEntries : r.sequence = q.sequence => r = q
    BY <1>2, <1>3 DEF Row
  <2>2. \A r \in entries : r.sequence \in 1..lastSequence
    BY DEF EntriesNumbered
  <2> QED
    BY <1>1, <1>2, <1>4, <2>1, <2>2 DEF EntriesNumbered
<1>10. ConnectionHeldOnlyWhileUsed'
  BY <1>1, <1>5, <1>6, NoneAssumption DEF ConnectionHeldOnlyWhileUsed
<1>11. ArgumentsGiven' /\ TransactionFollowsLog' /\ ScanIsCurrent'
  BY <1>1, <1>2, <1>5, <1>6 DEF ArgumentsGiven, TransactionFollowsLog, ScanIsCurrent
<1>12. ASSUME NEW ds, NEW dev, NEW after
       PROVE  \A r \in Matching(entries', ds, dev, after) :
                 r \in Matching(entries, ds, dev, after) \/ r.sequence > lastSequence
  BY <1>1, <1>2, <1>4 DEF Matching
<1>13. EmptyPageWasEmpty'
  <2> SUFFICES ASSUME NEW k \in Handler,
                      (pc[k] = "highWater" \/ (pc[k] = "paged" /\ page[k].entries = {}))
               PROVE  /\ page[k].entries = {}
                      /\ offered[k] <= txSequence
                      /\ \A r \in Matching(entries', args[k].dataset, args[k].device, args[k].after) :
                            r.sequence > offered[k]
    BY <1>1, <1>5, <1>6 DEF EmptyPageWasEmpty, results
  <2>1. /\ page[k].entries = {} /\ offered[k] <= lastSequence /\ offered[k] \in Nat
        /\ \A r \in Matching(entries, args[k].dataset, args[k].device, args[k].after) :
              r.sequence > offered[k]
    BY DEF EmptyPageWasEmpty, TypeOK
  <2>2. \A r \in Matching(entries', args[k].dataset, args[k].device, args[k].after) : r.sequence \in Nat
    BY <1>7 DEF Matching, TypeOK, Entry
  <2> QED
    BY <1>2, <1>12, <2>1, <2>2
<1>14. PageEndsInLog'
  <2>1. \A k \in Handler : page[k].cursor \in Nat
    BY DEF TypeOK, Page
  <2> QED
    BY <1>1, <1>2, <1>5, <1>6, <2>1 DEF PageEndsInLog, results
<1>15. AppendStoresItsBatch'
  <2>1. ASSUME NEW i \in 1..Len(args[h].blobs)
        PROVE  Row(assigned[h] - Len(args[h].blobs) + i, args[h].dataset,
                   args[h].device, args[h].blobs[i]) \in entries'
    <3>1. assigned[h] - Len(args[h].blobs) = lastSequence
      BY <1>1, <1>2 DEF TransactionFollowsLog
    <3> QED BY <1>1, <1>3, <3>1
  <2> QED
    BY <1>1, <1>5, <1>6, <2>1 DEF AppendStoresItsBatch, results
<1>16. PageSkipsNothing'
  <2> SUFFICES ASSUME NEW k \in Handler, pc[k] = "paged", page[k].entries # {}
               PROVE  UpTo(k, page[k].cursor)' = page[k].entries
    BY <1>1, <1>5, <1>6 DEF PageSkipsNothing, results
  <2>1. UpTo(k, page[k].cursor) = page[k].entries /\ page[k].cursor <= lastSequence
    BY DEF PageSkipsNothing, PageEndsInLog
  <2>2. page[k].cursor \in Nat
    BY DEF TypeOK, Page
  <2>3. \A r \in entries' : r.sequence \in Nat
    BY <1>7 DEF TypeOK, Entry
  <2> QED
    BY <1>1, <1>2, <1>4, <2>1, <2>2, <2>3 DEF UpTo, Matching, results
<1> QED
  BY <1>7, <1>8, <1>9, <1>10, <1>11, <1>13, <1>14, <1>15, <1>16

LEMMA QueryPagePreserves ==
    ASSUME StoreInvariant, NEW h \in Handler, QueryPage(h)
    PROVE  StoreInvariant'
<1> USE DEF StoreInvariant
<1> DEFINE rows == ScanPage(entries, args[h].dataset, args[h].device, args[h].after, PageSize(h))
<1>1. /\ pc[h] = "query" /\ connection = None /\ connection' = h
      /\ scanned' = [scanned EXCEPT ![h] = rows]
      /\ offered' = [offered EXCEPT ![h] = lastSequence]
      /\ pc' = [pc EXCEPT ![h] = "scan"]
      /\ UNCHANGED <<tables, txEntries, txSequence, args, page, assigned, listing, removed>>
  BY DEF QueryPage
<1>2. rows \subseteq Entry
  BY DEF TypeOK, ScanPage, FirstRows, Matching
<1>3. TypeOK'
  <2> HIDE DEF rows
  <2> QED BY <1>1, <1>2 DEF TypeOK, tables, Running
<1>4. ASSUME NEW k \in Handler, k # h
      PROVE  /\ pc'[k] = pc[k] /\ pc[k] \notin {"insert", "scan"}
             /\ offered'[k] = offered[k]
  BY <1>1, <1>4, NoneAssumption DEF TypeOK, ConnectionHeldOnlyWhileUsed
<1>5. pc'[h] = "scan" /\ scanned'[h] = rows /\ offered'[h] = lastSequence
  BY <1>1 DEF TypeOK
<1>6. IsFiniteSet(entries)' /\ IsFiniteSet(txEntries)' /\ EntriesNumbered'
  BY <1>1 DEF tables, EntriesNumbered
<1>7. ConnectionHeldOnlyWhileUsed' /\ ArgumentsGiven'
  BY <1>1, <1>4, <1>5 DEF ConnectionHeldOnlyWhileUsed, ArgumentsGiven
<1>8. TransactionFollowsLog' /\ ScanIsCurrent'
  BY <1>1, <1>4, <1>5 DEF TransactionFollowsLog, ScanIsCurrent, PageSize, tables
<1>9. EmptyPageWasEmpty' /\ PageEndsInLog' /\ AppendStoresItsBatch' /\ PageSkipsNothing'
  BY <1>1, <1>4, <1>5
  DEF EmptyPageWasEmpty, PageEndsInLog, AppendStoresItsBatch, PageSkipsNothing, UpTo, tables
<1> QED
  BY <1>3, <1>6, <1>7, <1>8, <1>9

\* The page that is cut from the rows of the query, by what the lemmas on
\* FirstRows say: an initial part of what matched, up to its last row.
LEMMA ReadPagePreserves ==
    ASSUME StoreInvariant, NEW h \in Handler, ReadPage(h)
    PROVE  StoreInvariant'
<1> USE DEF StoreInvariant
<1> DEFINE match == Matching(entries, args[h].dataset, args[h].device, args[h].after)
<1> DEFINE rows == FirstRows(match, PageSize(h) + 1)
<1> DEFINE kept == FirstRows(rows, PageSize(h))
<1>1. /\ pc[h] = "scan" /\ connection = h /\ connection' = None
      /\ scanned[h] = rows /\ offered[h] = lastSequence
      /\ page' = [page EXCEPT ![h] = [entries |-> kept,
                                     cursor  |-> CursorAfter(h, kept),
                                     hasMore |-> PageHasMore(rows, PageSize(h))]]
      /\ pc' = [pc EXCEPT ![h] = IF kept = {} THEN "highWater" ELSE "paged"]
      /\ scanned' = [scanned EXCEPT ![h] = {}]
      /\ UNCHANGED <<tables, txEntries, txSequence, args, assigned, listing, removed, offered>>
  BY DEF ReadPage, PageRead, PageEntries, ScanIsCurrent, ScanPage, ConnectionHeldOnlyWhileUsed
<1>2. PageSize(h) \in Nat /\ PageSize(h) > 0
  BY PageSizeIsPositive
<1>3. kept \subseteq rows /\ rows \subseteq match /\ match \subseteq entries
  BY DEF FirstRows, Matching
<1>4. \A r \in entries : r.sequence \in Nat /\ r.sequence <= lastSequence
  BY DEF EntriesNumbered, TypeOK
<1>5. IsFiniteSet(match) /\ IsFiniteSet(rows)
  BY <1>3, FS_Subset
<1>6. kept = {} => match = {}
  <2>1. ASSUME match # {} PROVE rows # {}
    <3> HIDE DEF match
    <3> QED BY <1>2, <1>3, <1>4, <2>1, FirstRowsNotEmpty
  <2>2. ASSUME rows # {} PROVE kept # {}
    <3> HIDE DEF rows
    <3> QED BY <1>2, <1>3, <1>4, <2>2, FirstRowsNotEmpty
  <2> QED BY <2>1, <2>2
<1>7. ASSUME kept # {}
      PROVE  /\ \E r \in kept : r.sequence = LastSequence(kept)
             /\ \A r \in kept : r.sequence <= LastSequence(kept)
             /\ LastSequence(kept) \in Nat /\ LastSequence(kept) <= lastSequence
  <2>1. lastSequence \in Nat /\ \A r \in kept : r.sequence \in Nat /\ r.sequence <= lastSequence
    BY <1>3, <1>4 DEF TypeOK
  <2>2. /\ \E r \in kept : r.sequence = LastSequence(kept)
        /\ \A r \in kept : r.sequence <= LastSequence(kept)
        /\ LastSequence(kept) \in Nat
    <3> HIDE DEF kept
    <3> QED BY <1>7, <2>1, LastSequenceIsLargest
  <2> QED BY <2>1, <2>2
<1>8. ASSUME kept # {}, NEW r \in match, r.sequence <= LastSequence(kept)
      PROVE  r \in kept
  <2>1. PICK last \in kept : last.sequence = LastSequence(kept)
    BY <1>7, <1>8
  <2>2. r \in rows
    <3>1. last \in rows
      BY <1>3
    <3> HIDE DEF match
    <3> QED BY <1>2, <1>3, <1>4, <1>5, <1>8, <2>1, <3>1, FirstRowsInitial
  <2>3. \A x \in rows : x.sequence \in Nat
    BY <1>3, <1>4
  <2> HIDE DEF rows
  <2> QED BY <1>2, <1>5, <1>8, <2>1, <2>2, <2>3, FirstRowsInitial
<1> HIDE DEF rows, kept
<1>9. ASSUME NEW k \in Handler, k # h
      PROVE  /\ pc'[k] = pc[k] /\ pc[k] \notin {"insert", "scan"} /\ page'[k] = page[k]
  BY <1>1, <1>9 DEF TypeOK, ConnectionHeldOnlyWhileUsed
<1>10. /\ pc'[h] = IF kept = {} THEN "highWater" ELSE "paged"
       /\ page'[h].entries = kept
       /\ page'[h].cursor = CursorAfter(h, kept)
  BY <1>1 DEF TypeOK
<1>11. TypeOK'
  <2>1. args[h].after \in Nat
    BY AfterIsNatural
  <2>2. CursorAfter(h, kept) \in Nat
    BY <1>7, <2>1 DEF CursorAfter
  <2>3. kept \subseteq Entry
    BY <1>3 DEF TypeOK
  <2>4. page'[h] \in Page
    BY <1>1, <2>2, <2>3 DEF Page, PageHasMore, TypeOK
  <2>5. page' \in [Handler -> Page]
    BY <1>1, <2>4 DEF TypeOK
  <2> QED
    BY <1>1, <2>5 DEF TypeOK, tables, Running, Returned
<1>12. IsFiniteSet(entries)' /\ IsFiniteSet(txEntries)' /\ EntriesNumbered'
  BY <1>1 DEF tables, EntriesNumbered
<1>13. ConnectionHeldOnlyWhileUsed' /\ ArgumentsGiven'
  BY <1>1, <1>9, <1>10, NoneAssumption DEF ConnectionHeldOnlyWhileUsed, ArgumentsGiven
<1>14. TransactionFollowsLog' /\ ScanIsCurrent' /\ AppendStoresItsBatch'
  BY <1>1, <1>9, <1>10 DEF TransactionFollowsLog, ScanIsCurrent, AppendStoresItsBatch, tables
<1>15. EmptyPageWasEmpty'
  <2>1. UNCHANGED <<entries, lastSequence, args, offered>>
    BY <1>1 DEF tables
  <2>2. kept = {} => /\ page'[h].entries = {}
                     /\ offered'[h] <= lastSequence'
                     /\ Matching(entries', args'[h].dataset, args'[h].device, args'[h].after) = {}
    BY <1>1, <1>6, <1>10, <2>1 DEF TypeOK
  <2>3. (pc'[h] = "highWater" \/ (pc'[h] = "paged" /\ page'[h].entries = {})) => kept = {}
    BY <1>10
  <2> HIDE DEF match
  <2> QED
    BY <1>9, <2>1, <2>2, <2>3 DEF EmptyPageWasEmpty
<1>16. PageEndsInLog'
  BY <1>1, <1>7, <1>9, <1>10 DEF PageEndsInLog, tables, CursorAfter
<1>17. PageSkipsNothing'
  <2>1. ASSUME kept # {}
        PROVE  {r \in match : r.sequence <= LastSequence(kept)} = kept
    BY <1>3, <1>7, <1>8, <2>1
  <2> QED
    BY <1>1, <1>9, <1>10, <2>1 DEF PageSkipsNothing, UpTo, tables, CursorAfter
<1> QED
  BY <1>11, <1>12, <1>13, <1>14, <1>15, <1>16, <1>17

LEMMA ReadHighWaterPreserves ==
    ASSUME StoreInvariant, NEW h \in Handler, ReadHighWater(h)
    PROVE  StoreInvariant'
<1> USE DEF StoreInvariant
<1> DEFINE high == HighWater(entries, args[h].dataset)
<1>1. /\ pc[h] = "highWater" /\ connection = None
      /\ page' = [page EXCEPT ![h].cursor = IF high > @ THEN high ELSE @]
      /\ pc' = [pc EXCEPT ![h] = "paged"]
      /\ UNCHANGED <<tables, txVars, args, scanned, assigned, listing, removed, offered>>
  BY DEF ReadHighWater
<1>2. high \in Nat
  <2> DEFINE own == {r \in entries : r.dataset = args[h].dataset}
  <2>1. /\ lastSequence \in Nat
        /\ \A r \in own : r.sequence \in Nat /\ r.sequence <= lastSequence
    BY DEF EntriesNumbered, TypeOK
  <2>2. own # {} => LastSequence(own) \in Nat
    <3> HIDE DEF own
    <3> QED BY <2>1, LastSequenceIsLargest
  <2> QED BY <2>2 DEF HighWater
<1> HIDE DEF high
<1>3. TypeOK'
  <2>1. page' \in [Handler -> Page]
    BY <1>1, <1>2 DEF TypeOK, Page
  <2> QED
    BY <1>1, <2>1 DEF TypeOK, tables, txVars, Returned
<1>4. ASSUME NEW k \in Handler, k # h PROVE pc'[k] = pc[k] /\ page'[k] = page[k]
  BY <1>1, <1>4 DEF TypeOK
<1>5. pc'[h] = "paged" /\ page'[h].entries = page[h].entries /\ page[h].entries = {}
  BY <1>1 DEF TypeOK, Page, EmptyPageWasEmpty
<1>6. IsFiniteSet(entries)' /\ IsFiniteSet(txEntries)' /\ EntriesNumbered'
  BY <1>1 DEF tables, txVars, EntriesNumbered
<1>7. ConnectionHeldOnlyWhileUsed' /\ ArgumentsGiven' /\ AppendStoresItsBatch'
  BY <1>1, <1>4, <1>5
  DEF ConnectionHeldOnlyWhileUsed, ArgumentsGiven, AppendStoresItsBatch, tables, txVars
<1>8. TransactionFollowsLog' /\ ScanIsCurrent'
  BY <1>1, <1>4, <1>5
  DEF TransactionFollowsLog, ScanIsCurrent, Inserted, PageSize, tables, txVars
<1>9. EmptyPageWasEmpty' /\ PageEndsInLog' /\ PageSkipsNothing'
  BY <1>1, <1>4, <1>5 DEF EmptyPageWasEmpty, PageEndsInLog, PageSkipsNothing, UpTo, tables
<1> QED
  BY <1>3, <1>6, <1>7, <1>8, <1>9

\* The statements on the devices table: entries, transactions and pages are as
\* they were.
LEMMA UpsertYieldsListings ==
    ASSUME StoreInvariant, NEW h \in Handler, pc[h] = "upsert"
    PROVE  Upsert(devices, args[h].dataset, args[h].device, args[h].name, args[h].at) \subseteq Listing
<1> DEFINE old == Listed(devices, args[h].dataset, args[h].device)
<1>1. old \subseteq Listing /\ devices \subseteq Listing
  BY DEF StoreInvariant, TypeOK, Listed, Listings
<1>2. old # {} => (CHOOSE d \in old : TRUE) \in Listing
  BY <1>1
<1>3. /\ args[h].dataset \in Dataset /\ args[h].device \in Device
      /\ args[h].name \in Name /\ args[h].at \in Time
  BY DEF StoreInvariant, ArgumentsGiven
<1> DEFINE first == IF old = {} THEN args[h].at ELSE (CHOOSE d \in old : TRUE).firstSeen
<1>4. first \in Time
  <2> HIDE DEF old
  <2> QED BY <1>2, <1>3 DEF Listing
<1>5. Upsert(devices, args[h].dataset, args[h].device, args[h].name, args[h].at) =
         (devices \ old) \cup
         {[dataset |-> args[h].dataset, device |-> args[h].device, name |-> args[h].name,
           firstSeen |-> first, lastSeen |-> args[h].at]}
  BY DEF Upsert
<1> HIDE DEF first, old
<1> QED
  BY <1>1, <1>3, <1>4, <1>5 DEF Listing

LEMMA TouchDevicePreserves ==
    ASSUME StoreInvariant, NEW h \in Handler, TouchDevice(h)
    PROVE  StoreInvariant'
<1> USE DEF StoreInvariant
<1>1. /\ pc[h] = "upsert" /\ connection = None
      /\ devices' = Upsert(devices, args[h].dataset, args[h].device, args[h].name, args[h].at)
      /\ pc' = [pc EXCEPT ![h] = "touched"]
      /\ UNCHANGED <<entries, lastSequence, txVars, args, results>>
  BY DEF TouchDevice
<1>2. devices' \subseteq Listing
  BY <1>1, UpsertYieldsListings
<1>3. TypeOK'
  BY <1>1, <1>2 DEF TypeOK, txVars, results, Returned
<1>4. ASSUME NEW k \in Handler, k # h PROVE pc'[k] = pc[k]
  BY <1>1, <1>4 DEF TypeOK
<1>5. pc'[h] = "touched"
  BY <1>1 DEF TypeOK
<1>6. IsFiniteSet(entries)' /\ IsFiniteSet(txEntries)' /\ EntriesNumbered'
  BY <1>1 DEF txVars, EntriesNumbered
<1>7. ConnectionHeldOnlyWhileUsed' /\ ArgumentsGiven' /\ TransactionFollowsLog' /\ ScanIsCurrent'
  BY <1>1, <1>4, <1>5 DEF ConnectionHeldOnlyWhileUsed, ArgumentsGiven, TransactionFollowsLog,
      ScanIsCurrent, Inserted, PageSize, txVars, results
<1>8. EmptyPageWasEmpty' /\ PageEndsInLog' /\ AppendStoresItsBatch' /\ PageSkipsNothing'
  BY <1>1, <1>4, <1>5
  DEF EmptyPageWasEmpty, PageEndsInLog, AppendStoresItsBatch, PageSkipsNothing, UpTo, results
<1> QED
  BY <1>3, <1>6, <1>7, <1>8

LEMMA ListDevicesPreserves ==
    ASSUME StoreInvariant, NEW h \in Handler, ListDevices(h)
    PROVE  StoreInvariant'
<1> USE DEF StoreInvariant
<1>1. /\ pc[h] = "list" /\ connection = None
      /\ listing' = [listing EXCEPT ![h] = Listings(devices, args[h].dataset)]
      /\ pc' = [pc EXCEPT ![h] = "listed"]
      /\ UNCHANGED <<tables, txVars, args, scanned, page, assigned, removed, offered>>
  BY DEF ListDevices
<1>2. Listings(devices, args[h].dataset) \subseteq Listing
  BY DEF TypeOK, Listings
<1>3. TypeOK'
  BY <1>1, <1>2 DEF TypeOK, tables, txVars, Returned
<1>4. ASSUME NEW k \in Handler, k # h PROVE pc'[k] = pc[k]
  BY <1>1, <1>4 DEF TypeOK
<1>5. pc'[h] = "listed"
  BY <1>1 DEF TypeOK
<1>6. IsFiniteSet(entries)' /\ IsFiniteSet(txEntries)' /\ EntriesNumbered'
  BY <1>1 DEF tables, txVars, EntriesNumbered
<1>7. ConnectionHeldOnlyWhileUsed' /\ ArgumentsGiven' /\ TransactionFollowsLog' /\ ScanIsCurrent'
  BY <1>1, <1>4, <1>5 DEF ConnectionHeldOnlyWhileUsed, ArgumentsGiven, TransactionFollowsLog,
      ScanIsCurrent, Inserted, PageSize, tables, txVars
<1>8. EmptyPageWasEmpty' /\ PageEndsInLog' /\ AppendStoresItsBatch' /\ PageSkipsNothing'
  BY <1>1, <1>4, <1>5
  DEF EmptyPageWasEmpty, PageEndsInLog, AppendStoresItsBatch, PageSkipsNothing, UpTo, tables
<1> QED
  BY <1>3, <1>6, <1>7, <1>8

LEMMA RemoveDevicePreserves ==
    ASSUME StoreInvariant, NEW h \in Handler, RemoveDevice(h)
    PROVE  StoreInvariant'
<1> USE DEF StoreInvariant
<1>1. /\ pc[h] = "delete" /\ connection = None
      /\ devices' = Delete(devices, args[h].dataset, args[h].device)
      /\ removed' = [removed EXCEPT ![h] = Listed(devices, args[h].dataset, args[h].device) # {}]
      /\ pc' = [pc EXCEPT ![h] = "removed"]
      /\ UNCHANGED <<entries, lastSequence, txVars, args, scanned, page, assigned, listing, offered>>
  BY DEF RemoveDevice
<1>2. devices' \subseteq Listing
  BY <1>1 DEF TypeOK, Delete
<1>3. TypeOK'
  BY <1>1, <1>2 DEF TypeOK, txVars, Returned
<1>4. ASSUME NEW k \in Handler, k # h PROVE pc'[k] = pc[k]
  BY <1>1, <1>4 DEF TypeOK
<1>5. pc'[h] = "removed"
  BY <1>1 DEF TypeOK
<1>6. IsFiniteSet(entries)' /\ IsFiniteSet(txEntries)' /\ EntriesNumbered'
  BY <1>1 DEF txVars, EntriesNumbered
<1>7. ConnectionHeldOnlyWhileUsed' /\ ArgumentsGiven' /\ TransactionFollowsLog' /\ ScanIsCurrent'
  BY <1>1, <1>4, <1>5 DEF ConnectionHeldOnlyWhileUsed, ArgumentsGiven, TransactionFollowsLog,
      ScanIsCurrent, Inserted, PageSize, txVars
<1>8. EmptyPageWasEmpty' /\ PageEndsInLog' /\ AppendStoresItsBatch' /\ PageSkipsNothing'
  BY <1>1, <1>4, <1>5
  DEF EmptyPageWasEmpty, PageEndsInLog, AppendStoresItsBatch, PageSkipsNothing, UpTo
<1> QED
  BY <1>3, <1>6, <1>7, <1>8

\* A failure after the statement differs from one before it in `devices` alone.
LEMMA FailAfterwardsPreserves ==
    ASSUME StoreInvariant, NEW h \in Handler, FailAfterwards(h)
    PROVE  StoreInvariant'
<1> USE DEF StoreInvariant
<1>1. /\ pc[h] \in {"upsert", "delete"} /\ connection = None
      /\ pc' = [pc EXCEPT ![h] = "failed"]
      /\ ClearResults(h)
      /\ UNCHANGED <<entries, lastSequence, txVars, args>>
  BY DEF FailAfterwards
<1>2. devices' \subseteq Listing
  BY UpsertYieldsListings DEF FailAfterwards, Delete, TypeOK
<1>3. TypeOK'
  <2>1. NoPage \in Page
    BY DEF NoPage, Page
  <2>2. "failed" \in Returned /\ {} \subseteq Entry
    BY DEF Returned
  <2> QED
    BY <1>1, <1>2, <2>1, <2>2 DEF TypeOK, ClearResults, txVars
<1>4. ASSUME NEW k \in Handler, k # h
      PROVE  /\ pc'[k] = pc[k] /\ args'[k] = args[k] /\ scanned'[k] = scanned[k]
             /\ page'[k] = page[k] /\ assigned'[k] = assigned[k] /\ offered'[k] = offered[k]
  BY <1>1, <1>4 DEF ClearResults, TypeOK
<1>5. pc'[h] = "failed"
  BY <1>1 DEF TypeOK
<1>6. IsFiniteSet(entries)' /\ IsFiniteSet(txEntries)' /\ EntriesNumbered'
  BY <1>1 DEF txVars, EntriesNumbered
<1>7. ConnectionHeldOnlyWhileUsed' /\ ArgumentsGiven' /\ TransactionFollowsLog' /\ ScanIsCurrent'
  BY <1>1, <1>4, <1>5 DEF ConnectionHeldOnlyWhileUsed, ArgumentsGiven, TransactionFollowsLog,
      ScanIsCurrent, Inserted, PageSize, txVars
<1>8. EmptyPageWasEmpty' /\ PageEndsInLog' /\ AppendStoresItsBatch' /\ PageSkipsNothing'
  BY <1>1, <1>4, <1>5
  DEF EmptyPageWasEmpty, PageEndsInLog, AppendStoresItsBatch, PageSkipsNothing, UpTo
<1> QED
  BY <1>3, <1>6, <1>7, <1>8

-----------------------------------------------------------------------------
(* All the actions together, and the theorems.                             *)

LEMMA EntryCallsPreserve ==
    ASSUME StoreInvariant, NEW h \in Handler, EntryCalls(h)
    PROVE  StoreInvariant'
<1>1. ASSUME NEW dataset \in Dataset, NEW device \in Device, NEW blobs \in Batches,
             CallAppend(h, dataset, device, blobs)
      PROVE  StoreInvariant'
  <2> DEFINE a == [NoArgs EXCEPT !.dataset = dataset, !.device = device, !.blobs = blobs]
  <2> DEFINE label == IF blobs = <<>> THEN "appended" ELSE "begin"
  <2>1. a \in Args
    BY NoArgsIsArgs DEF NoArgs, Args
  <2>2. blobs # <<>> => Len(blobs) > 0
    BY BatchIsSequence
  <2>3. Given(label, a)
    BY <2>1, <2>2 DEF Given, NoArgs
  <2>4. Call(h, label, a)
    BY <1>1 DEF CallAppend
  <2> HIDE DEF a, label
  <2> QED BY <2>3, <2>4, CallPreserves
<1>2. ASSUME NEW dataset \in Dataset, NEW device \in Device, NEW after \in Cursor,
             NEW limit \in Limit, CallPage(h, dataset, device, after, limit)
      PROVE  StoreInvariant'
  <2> DEFINE a == [NoArgs EXCEPT !.dataset = dataset, !.device = device,
                                 !.after = after, !.limit = limit]
  <2>1. Given("query", a)
    BY NoArgsIsArgs DEF Given, NoArgs, Args
  <2>2. Call(h, "query", a)
    BY <1>2 DEF CallPage
  <2> HIDE DEF a
  <2> QED BY <2>1, <2>2, CallPreserves
<1> QED
  BY <1>1, <1>2 DEF EntryCalls

LEMMA DeviceCallsPreserve ==
    ASSUME StoreInvariant, NEW h \in Handler, DeviceCalls(h)
    PROVE  StoreInvariant'
<1>1. ASSUME NEW dataset \in Dataset, NEW device \in Device, NEW name \in Name, NEW at \in Time,
             CallTouchDevice(h, dataset, device, name, at)
      PROVE  StoreInvariant'
  <2> DEFINE a == [NoArgs EXCEPT !.dataset = dataset, !.device = device,
                                 !.name = name, !.at = at]
  <2>1. Given("upsert", a)
    BY NoArgsIsArgs DEF Given, NoArgs, Args
  <2>2. Call(h, "upsert", a)
    BY <1>1 DEF CallTouchDevice
  <2> HIDE DEF a
  <2> QED BY <2>1, <2>2, CallPreserves
<1>2. ASSUME NEW dataset \in Dataset, CallDevices(h, dataset)
      PROVE  StoreInvariant'
  <2> DEFINE a == [NoArgs EXCEPT !.dataset = dataset]
  <2>1. Given("list", a)
    BY NoArgsIsArgs DEF Given, NoArgs, Args
  <2>2. Call(h, "list", a)
    BY <1>2 DEF CallDevices
  <2> HIDE DEF a
  <2> QED BY <2>1, <2>2, CallPreserves
<1>3. ASSUME NEW dataset \in Dataset, NEW device \in Device, CallRemoveDevice(h, dataset, device)
      PROVE  StoreInvariant'
  <2> DEFINE a == [NoArgs EXCEPT !.dataset = dataset, !.device = device]
  <2>1. Given("delete", a)
    BY NoArgsIsArgs DEF Given, NoArgs, Args
  <2>2. Call(h, "delete", a)
    BY <1>3 DEF CallRemoveDevice
  <2> HIDE DEF a
  <2> QED BY <2>1, <2>2, CallPreserves
<1> QED
  BY <1>1, <1>2, <1>3 DEF DeviceCalls

LEMMA StepPreserves ==
    ASSUME StoreInvariant, NEW h \in Handler, Step(h)
    PROVE  StoreInvariant'
<1>1. CASE BeginAppend(h)
  BY <1>1, BeginAppendPreserves
<1>2. CASE QueryPage(h)
  BY <1>2, QueryPagePreserves
<1>3. CASE ReadHighWater(h)
  BY <1>3, ReadHighWaterPreserves
<1>4. CASE TouchDevice(h)
  BY <1>4, TouchDevicePreserves
<1>5. CASE ListDevices(h)
  BY <1>5, ListDevicesPreserves
<1>6. CASE RemoveDevice(h)
  BY <1>6, RemoveDevicePreserves
<1>7. CASE InsertEntry(h)
  BY <1>7, InsertEntryPreserves
<1>8. CASE CommitAppend(h)
  BY <1>8, CommitAppendPreserves
<1>9. CASE ReadPage(h)
  BY <1>9, ReadPagePreserves
<1>10. CASE SequencesExhausted(h) \/ FailCall(h)
  BY <1>10, AbortPreserves DEF SequencesExhausted, FailCall
<1>11. CASE FailAfterwards(h)
  BY <1>11, FailAfterwardsPreserves
<1> QED
  BY <1>1, <1>2, <1>3, <1>4, <1>5, <1>6, <1>7, <1>8, <1>9, <1>10, <1>11
  DEF Step, Acquires, Proceeds, Fails

LEMMA NextPreserves == StoreInvariant /\ [Next]_vars => StoreInvariant'
<1> SUFFICES ASSUME StoreInvariant, [Next]_vars PROVE StoreInvariant'
  OBVIOUS
<1>1. CASE Next
  BY <1>1, EntryCallsPreserve, DeviceCallsPreserve, ReturnPreserves, StepPreserves DEF Next
<1>2. CASE UNCHANGED vars
  <2>1. UNCHANGED <<tables, txVars, pc, args, results>>
    BY <1>2 DEF vars
  <2>2. TypeOK' /\ IsFiniteSet(entries)' /\ IsFiniteSet(txEntries)' /\ EntriesNumbered'
    BY <2>1 DEF StoreInvariant, TypeOK, EntriesNumbered, tables, txVars, results
  <2>3. /\ ConnectionHeldOnlyWhileUsed' /\ ArgumentsGiven' /\ TransactionFollowsLog'
        /\ ScanIsCurrent'
    BY <2>1 DEF StoreInvariant, ConnectionHeldOnlyWhileUsed, ArgumentsGiven,
        TransactionFollowsLog, ScanIsCurrent, Inserted, PageSize, tables, txVars, results
  <2>4. EmptyPageWasEmpty' /\ PageEndsInLog' /\ AppendStoresItsBatch' /\ PageSkipsNothing'
    BY <2>1 DEF StoreInvariant, EmptyPageWasEmpty, PageEndsInLog, AppendStoresItsBatch,
        PageSkipsNothing, UpTo, tables, results
  <2> QED
    BY <2>2, <2>3, <2>4 DEF StoreInvariant
<1> QED
  BY <1>1, <1>2

\* The invariant the others rest on: what holds of the tables, of an open
\* transaction, of a page being read and of the results of the calls.
THEOREM StoreInvariantHolds == Spec => []StoreInvariant
<1>1. StoreInvariant /\ [Next]_vars => StoreInvariant'
  BY NextPreserves
<1> QED
  BY InitEstablishes, <1>1, PTL DEF Spec

\* Every variable keeps its type, however many handlers call the store.
THEOREM TypeCorrect == Spec => []TypeOK
<1>1. StoreInvariant => TypeOK
  BY DEF StoreInvariant
<1> QED
  BY StoreInvariantHolds, <1>1, PTL

\* No sequence is given to two entries, in whatever order transactions commit
\* and fail.
THEOREM SequencesAreUnique == Spec => []EntriesNumbered
<1>1. StoreInvariant => EntriesNumbered
  BY DEF StoreInvariant
<1> QED
  BY StoreInvariantHolds, <1>1, PTL

\* No handler that is about to wait for the connection holds it.
THEOREM NoHandlerWaitsForItself == Spec => []ConnectionHeldOnlyWhileUsed
<1>1. StoreInvariant => ConnectionHeldOnlyWhileUsed
  BY DEF StoreInvariant
<1> QED
  BY StoreInvariantHolds, <1>1, PTL

\* A batch whose Append returned is stored whole, consecutively and in order.
THEOREM AppendIsAtomic == Spec => []AppendStoresItsBatch
<1>1. StoreInvariant => AppendStoresItsBatch
  BY DEF StoreInvariant
<1> QED
  BY StoreInvariantHolds, <1>1, PTL

\* A page with entries is without a gap from the caller's cursor to its own,
\* for any page size and whatever is committed after the page was read.
THEOREM PagesSkipNothing == Spec => []PageSkipsNothing
<1>1. StoreInvariant => PageSkipsNothing
  BY DEF StoreInvariant
<1> QED
  BY StoreInvariantHolds, <1>1, PTL

\* The cursor of an empty page passes over nothing that its query could see.
THEOREM EmptyPagesSkipNothingOld == Spec => []EmptyPageSkipsNothingOld
<1>1. StoreInvariant => EmptyPageSkipsNothingOld
  BY DEF StoreInvariant, EmptyPageWasEmpty, EmptyPageSkipsNothingOld, UpTo
<1> QED
  BY StoreInvariantHolds, <1>1, PTL

-----------------------------------------------------------------------------
(* The store is an EntryLog to its callers.                                *)

Pended == [h \in Handler |-> Appending(h)]

\* What a handler waits for, from what it was, when its own place changes.
LEMMA OneHandlerPends ==
    ASSUME NEW h \in Handler,
           \A k \in Handler : k # h => Appending(k)' = Appending(k)
    PROVE  Pended' = [Pended EXCEPT ![h] = Appending(h)']
  BY DEF Pended

\* A step that changes no entry and leaves a handler waiting for nothing, or for
\* what it waited for, is a failed call or no step at all.
LEMMA QuietStep ==
    ASSUME NEW h \in Handler,
           \A k \in Handler : k # h => Appending(k)' = Appending(k),
           UNCHANGED <<entries, lastSequence>>,
           Appending(h)' \in {None, Appending(h)}
    PROVE  [Log!Next]_(Log!logVars)
<1>1. CASE Appending(h)' = None
  <2>1. Log!Drop(h)
    BY <1>1, OneHandlerPends DEF Log!Drop, Pended
  <2> QED BY <2>1 DEF Log!Next
<1>2. CASE Appending(h)' = Appending(h)
  <2>1. Pended' = Pended
    BY <1>2, OneHandlerPends DEF Pended
  <2> QED BY <2>1 DEF Log!logVars, Pended
<1> QED
  BY <1>1, <1>2

\* The batch of a call that appends is one EntryLog knows.
LEMMA AppendingIsSubmission ==
    ASSUME StoreInvariant, NEW h \in Handler, pc[h] \in {"begin", "insert"}
    PROVE  Appending(h) \in Log!Submission
<1>1. /\ args[h].dataset \in Dataset /\ args[h].device \in Device /\ Len(args[h].blobs) > 0
  BY DEF StoreInvariant, ArgumentsGiven
<1>2. args[h].blobs \in Log!Batch
  <2>1. args[h] \in Args
    BY DEF StoreInvariant, TypeOK
  <2>2. args[h].blobs \in Batches
    BY <2>1 DEF Args
  <2>3. /\ args[h].blobs \in [1..Len(args[h].blobs) -> Blob]
        /\ Len(args[h].blobs) \in 1..MaxBatch
    BY <1>1, <2>2, BatchIsSequence
  <2> QED BY <2>3 DEF Log!Batch
<1> QED
  BY <1>1, <1>2 DEF Appending, Log!Submission

Submissions ==
    \A h \in Handler : pc[h] \in {"begin", "insert"} => Appending(h) \in Log!Submission

LEMMA AppendingsAreSubmissions == StoreInvariant => Submissions
  BY AppendingIsSubmission DEF Submissions

\* A commit adds the batch of its call, numbered from the last number used.
LEMMA CommitAppendsBatch ==
    ASSUME StoreInvariant, NEW h \in Handler, CommitAppend(h)
    PROVE  Log!Next
<1> DEFINE batch == args[h].blobs
<1>1. /\ pc[h] = "insert" /\ Inserted = Len(batch)
      /\ entries' = entries \cup txEntries /\ lastSequence' = txSequence
      /\ pc' = [pc EXCEPT ![h] = "appended"] /\ args' = args
  BY DEF CommitAppend
<1>2. /\ txEntries = {Row(lastSequence + i, args[h].dataset, args[h].device, batch[i]) :
                        i \in 1..Len(batch)}
      /\ txSequence <= MaxSequence
  BY <1>1 DEF StoreInvariant, TransactionFollowsLog
<1>3. lastSequence' = lastSequence + Len(batch) /\ lastSequence + Len(batch) <= MaxSequence
  BY <1>1, <1>2, BlobsAreSequence DEF StoreInvariant, TypeOK, Inserted
<1>4. /\ Appending(h) = [dataset |-> args[h].dataset, device |-> args[h].device, batch |-> batch]
      /\ Appending(h)' = None
  BY <1>1 DEF Appending, StoreInvariant, TypeOK
<1>5. \A k \in Handler : k # h => Appending(k)' = Appending(k)
  BY <1>1 DEF Appending, StoreInvariant, TypeOK
<1>6. Pended' = [Pended EXCEPT ![h] = None]
  BY <1>4, <1>5, OneHandlerPends
<1>7. Appending(h) \in Log!Submission
  BY <1>1, AppendingIsSubmission
<1>8. Log!AppendBatch(h)
  BY <1>1, <1>2, <1>3, <1>4, <1>6, <1>7 DEF Log!AppendBatch, Log!Row, Row, Pended
<1> QED
  BY <1>8 DEF Log!Next

\* To enter a call is to submit its batch, if it has one.
LEMMA CallSubmits ==
    ASSUME StoreInvariant, StoreInvariant', NEW h \in Handler, NEW label, NEW a, Call(h, label, a)
    PROVE  [Log!Next]_(Log!logVars)
<1>1. /\ pc[h] \notin Running /\ UNCHANGED <<entries, lastSequence>>
      /\ pc' = [pc EXCEPT ![h] = label] /\ args' = [args EXCEPT ![h] = a]
  BY DEF Call, tables
<1>2. \A k \in Handler : k # h => Appending(k)' = Appending(k)
  BY <1>1 DEF Appending, StoreInvariant, TypeOK
<1>3. Appending(h) = None
  BY <1>1 DEF Appending, Running
<1>4. CASE label \in {"begin", "insert"}
  <2>1. pc'[h] \in {"begin", "insert"}
    BY <1>1, <1>4 DEF StoreInvariant, TypeOK
  <2>2. Appending(h)' \in Log!Submission
    <3>1. Submissions'
      BY AppendingsAreSubmissions, PTL
    <3> QED BY <2>1, <3>1 DEF Submissions
  <2>3. Log!Submit(h)
    BY <1>1, <1>2, <1>3, <2>2, OneHandlerPends DEF Log!Submit, Pended
  <2> QED BY <2>3 DEF Log!Next
<1>5. CASE label \notin {"begin", "insert"}
  <2>1. Appending(h)' = None
    BY <1>1, <1>5 DEF Appending, StoreInvariant, TypeOK
  <2> QED BY <1>1, <1>2, <2>1, QuietStep
<1> QED
  BY <1>4, <1>5

\* Between its call and its return only a commit changes the entries.
LEMMA StepRefines ==
    ASSUME StoreInvariant, NEW h \in Handler, Step(h)
    PROVE  [Log!Next]_(Log!logVars)
<1>1. CASE CommitAppend(h)
  BY <1>1, CommitAppendsBatch
<1>2. CASE ~CommitAppend(h)
  <2>1. /\ UNCHANGED <<entries, lastSequence, args>>
        /\ \E label : /\ pc' = [pc EXCEPT ![h] = label]
                      /\ pc[h] = "begin" => label \in {"insert", "failed"}
                      /\ pc[h] = "insert" => label \in {"insert", "failed"}
                      /\ pc[h] \notin {"begin", "insert"} => label \notin {"begin", "insert"}
    <3>1. CASE InsertEntry(h)
      <4>1. pc' = [pc EXCEPT ![h] = "insert"]
        BY <3>1 DEF InsertEntry, StoreInvariant, TypeOK
      <4> QED BY <3>1, <4>1 DEF InsertEntry, tables
    <3>2. CASE Acquires(h)
      <4>1. \/ pc[h] = "begin" /\ pc' = [pc EXCEPT ![h] = "insert"]
            \/ /\ pc[h] \notin {"begin", "insert"}
               /\ \E label \in {"scan", "paged", "touched", "listed", "removed"} :
                     pc' = [pc EXCEPT ![h] = label]
        BY <3>2 DEF Acquires, BeginAppend, QueryPage, ReadHighWater, TouchDevice, ListDevices,
            RemoveDevice
      <4>2. UNCHANGED <<entries, lastSequence, args>>
        BY <3>2 DEF Acquires, BeginAppend, QueryPage, ReadHighWater, TouchDevice, ListDevices,
            RemoveDevice, tables
      <4> QED BY <4>1, <4>2
    <3>3. CASE ReadPage(h)
      <4>1. /\ pc[h] = "scan"
            /\ \E label \in {"highWater", "paged"} : pc' = [pc EXCEPT ![h] = label]
        BY <3>3 DEF ReadPage, PageRead
      <4>2. UNCHANGED <<entries, lastSequence, args>>
        BY <3>3 DEF ReadPage, PageRead, tables
      <4> QED BY <4>1, <4>2
    <3>4. CASE SequencesExhausted(h) \/ Fails(h)
      BY <3>4 DEF SequencesExhausted, Fails, FailCall, FailAfterwards, Abort, tables
    <3> QED
      BY <1>2, <3>1, <3>2, <3>3, <3>4 DEF Step, Proceeds
  <2>2. \A k \in Handler : k # h => Appending(k)' = Appending(k)
    BY <2>1 DEF Appending, StoreInvariant, TypeOK
  <2>3. Appending(h)' \in {None, Appending(h)}
    BY <2>1 DEF Appending, StoreInvariant, TypeOK
  <2> QED BY <2>1, <2>2, <2>3, QuietStep
<1> QED
  BY <1>1, <1>2

\* Whatever handlers do and in whatever order, a batch appears whole, once and
\* while its call lasts, or never, and no entry is changed, removed or numbered
\* again (store.go:155-194).
THEOREM StoreIsEntryLog == Spec => ImplementsEntryLog
<1>1. Init => Log!Init
  BY DEF Init, Log!Init, Appending
<1>2. StoreInvariant /\ StoreInvariant' /\ [Next]_vars => [Log!Next]_(Log!logVars)
  <2> SUFFICES ASSUME StoreInvariant, StoreInvariant', [Next]_vars
               PROVE  [Log!Next]_(Log!logVars)
    OBVIOUS
  <2>1. ASSUME NEW h \in Handler, EntryCalls(h) \/ DeviceCalls(h)
        PROVE  [Log!Next]_(Log!logVars)
    BY <2>1, CallSubmits
    DEF EntryCalls, DeviceCalls, CallAppend, CallPage, CallTouchDevice, CallDevices, CallRemoveDevice
  <2>2. ASSUME NEW h \in Handler, Return(h)
        PROVE  [Log!Next]_(Log!logVars)
    <3>1. /\ UNCHANGED <<entries, lastSequence>>
          /\ pc' = [pc EXCEPT ![h] = "idle"] /\ args' = [args EXCEPT ![h] = NoArgs]
      BY <2>2 DEF Return, tables
    <3>2. \A k \in Handler : k # h => Appending(k)' = Appending(k)
      BY <3>1 DEF Appending, StoreInvariant, TypeOK
    <3>3. Appending(h)' = None
      BY <3>1 DEF Appending, StoreInvariant, TypeOK
    <3> QED BY <3>1, <3>2, <3>3, QuietStep
  <2>3. CASE UNCHANGED vars
    BY <2>3 DEF vars, tables, Appending, Log!logVars
  <2> QED
    BY <2>1, <2>2, <2>3, StepRefines DEF Next
<1> QED
  BY StoreInvariantHolds, <1>1, <1>2, PTL DEF Spec, ImplementsEntryLog, Log!Spec

=============================================================================
