------------------------------ MODULE EntryLog ------------------------------
(***************************************************************************)
(* What the store promises of its entries, whoever calls it and however    *)
(* the calls interleave (schema.go, "The whole of storage"; PROTOCOL.md    *)
(* section 4): one log.  A batch that a caller asks to append is added at  *)
(* most once, whole and in order, numbered from the last number used, in   *)
(* one step between the call and its return; or it is not added at all.    *)
(* Nothing is taken from the log, and nothing else is added to it.         *)
(***************************************************************************)
EXTENDS Integers, Sequences, EntryTable

CONSTANTS
    Dataset,      \* what a token selects
    Device,       \* device identifiers
    Blob,         \* payloads, never looked into
    Handler,      \* callers
    None,         \* no batch
    MaxBatch,     \* the longest batch of one call
    MaxSequence   \* the largest sequence the table can assign

VARIABLES
    log,          \* rows, see EntryTable
    last,         \* the last number assigned
    pending       \* the batch each caller waits to have added, or None

logVars == <<log, last, pending>>

Batch == UNION {[1..n -> Blob] : n \in 1..MaxBatch}

Submission == [dataset : Dataset, device : Device, batch : Batch]

Init ==
    /\ log = {}
    /\ last = 0
    /\ pending = [h \in Handler |-> None]

Submit(h) ==
    /\ UNCHANGED <<log, last>>
    /\ pending[h] = None
    /\ \E s \in Submission : pending' = [pending EXCEPT ![h] = s]

AppendBatch(h) ==
    LET s == pending[h]
    IN  /\ s \in Submission
        /\ last + Len(s.batch) <= MaxSequence
        /\ last' = last + Len(s.batch)
        /\ log' = log \cup {Row(last + i, s.dataset, s.device, s.batch[i]) : i \in 1..Len(s.batch)}
        /\ pending' = [pending EXCEPT ![h] = None]

\* The call fails: its batch is not added, now or later.
Drop(h) ==
    /\ UNCHANGED <<log, last>>
    /\ pending' = [pending EXCEPT ![h] = None]

Next == \E h \in Handler : Submit(h) \/ AppendBatch(h) \/ Drop(h)

Spec == Init /\ [][Next]_logVars

=============================================================================
