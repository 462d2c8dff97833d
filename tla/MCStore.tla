------------------------------- MODULE MCStore -------------------------------
(* Small instances of Store for TLC. *)
EXTENDS Store, TLC

\* The calls on entries alone: the two tables share nothing but the connection,
\* which both kinds of calls compete for in the run of SyncServer.
EntryStep(h) == BeginAppend(h) \/ QueryPage(h) \/ ReadHighWater(h) \/ Proceeds(h) \/ FailCall(h)

EntryNext == \E h \in Handler : EntryCalls(h) \/ Return(h) \/ EntryStep(h)

EntrySpec == Init /\ [][EntryNext]_vars

Interchangeable == Permutations(Handler) \cup Permutations(Device) \cup Permutations(Blob)
=============================================================================
