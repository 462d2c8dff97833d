---------------------------- MODULE MCSyncSystem ----------------------------
(* Small instances of SyncSystem for TLC. *)
EXTENDS SyncSystem, TLC

CONSTANTS d1, d2, d3, b1, b2, b3, n1, ds1, ds2

Cursors == 0..MaxSequence
Clock == 0..MaxTime
Exact == [d \in Device |-> d]
OneDataset == [d \in Device |-> ds1]
\* d3 is in a dataset of its own.
TwoDatasets == [d \in Device |-> IF d = d3 THEN ds2 ELSE ds1]
OneName == [d \in Device |-> n1]

\* d1 writes two entries and the others one or none; or every device writes one.
TwoAndOne == [d \in Device |-> IF d = d1 THEN <<b1, b2>> ELSE <<b3>>]
OnlyTwo == [d \in Device |-> IF d = d1 THEN <<b1, b2>> ELSE <<>>]
OneEach == [d \in Device |-> IF d = d1 THEN <<b1>> ELSE <<b3>>]

Interchangeable == Permutations(Handler)
=============================================================================
