------------------------------ MODULE PowerLoss ------------------------------
(***************************************************************************)
(* SyncSystem on a machine whose power can fail.  store.go:82-88 runs      *)
(* SQLite's write-ahead log with synchronous = NORMAL: a commit is written *)
(* to the log and not forced to the disk, a checkpoint forces it.  After a *)
(* power cut the database is that of some commit since the last            *)
(* checkpoint, sqlite_sequence included.                                   *)
(***************************************************************************)
EXTENDS SyncSystem

VARIABLE durable   \* the tables as they were last forced to the disk

powerVars == <<systemVars, durable>>

Tables == [entries |-> entries, lastSequence |-> lastSequence, devices |-> devices]

PowerInit == SystemInit /\ durable = Tables

Checkpoint ==
    /\ durable # Tables
    /\ durable' = Tables
    /\ UNCHANGED systemVars

\* A commit between the last checkpoint and the cut is reached by a checkpoint
\* right after it.  Since checkpoints come when they like, an older backup that
\* is put in the place of the database (README.md, "Restoring") is a cut too.
PowerCut ==
    /\ Fault
    /\ durable # Tables
    /\ Restarted
    /\ entries' = durable.entries
    /\ lastSequence' = durable.lastSequence
    /\ devices' = durable.devices
    /\ UNCHANGED durable

PowerNext ==
    \/ SystemNext /\ UNCHANGED durable
    \/ Checkpoint
    \/ PowerCut

PowerSpec == PowerInit /\ [][PowerNext]_powerVars

-----------------------------------------------------------------------------
(* Properties.                                                             *)

\* What is on the disk is the log up to some number.
DiskHasTheStart ==
    /\ durable.lastSequence <= lastSequence
    /\ durable.entries = {r \in entries : r.sequence <= durable.lastSequence}

\* A step adds to the log's end or takes its end off: what is below the end
\* before and after it stays as it is (store.go:82-88).
OnlyTheEndChanges ==
    [][\A r \in entries \cup entries' :
          (r.sequence <= lastSequence /\ r.sequence <= lastSequence') =>
              r \in entries /\ r \in entries']_powerVars

=============================================================================
