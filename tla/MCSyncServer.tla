---------------------------- MODULE MCSyncServer ----------------------------
(* Small instances of SyncServer for TLC. *)
EXTENDS SyncServer, TLC

CONSTANTS d1, d2, spaced

Exact == [d \in Device |-> d]
\* One identifier has white space at an end; trimmed, it is another.
Spaced == [d \in Device |-> IF d = spaced THEN d1 ELSE d]

Clock == 0..MaxTime

Interchangeable == Permutations(Handler) \cup Permutations(Device)
=============================================================================
