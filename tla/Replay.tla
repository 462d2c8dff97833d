------------------------------- MODULE Replay -------------------------------
(***************************************************************************)
(* What the exchange promises a dataset's devices (PROTOCOL.md sections 4  *)
(* and 9): there is one log, each device has a position in it that only    *)
(* moves forward, and it goes forward by replaying the others' entries up  *)
(* to there, every one that was in the log when it asked.  A device that   *)
(* was given nothing may be sent past what was written since it asked:     *)
(* that is all that the server's two statements for an empty page leave of *)
(* "nothing skipped", and the only way in which two devices at one         *)
(* position may differ.                                                    *)
(***************************************************************************)
EXTENDS Integers, Sequences, EntryTable

CONSTANTS
    Device,       \* device identifiers
    Blob,         \* payloads, never looked into
    DatasetOf,    \* the dataset each device's token selects
    MaxBatch,     \* the longest batch of one push
    MaxSequence   \* the largest sequence the table can assign

VARIABLES
    log,          \* rows, see EntryTable
    last,         \* the last number assigned
    position,     \* how far each device has come in the log
    replayed,     \* the sequences each device has replayed
    asked         \* {where the log ended} when the device's page was looked up

replayVars == <<log, last, position, replayed, asked>>

Batch == UNION {[1..n -> Blob] : n \in 1..MaxBatch}

Init ==
    /\ log = {}
    /\ last = 0
    /\ position = [d \in Device |-> 0]
    /\ replayed = [d \in Device |-> {}]
    /\ asked = [d \in Device |-> {}]

\* The sequences of what the other devices of d's dataset have above p, up to q.
OthersBetween(d, p, q) ==
    {r.sequence : r \in {o \in Matching(log, DatasetOf[d], d, p) : o.sequence <= q}}

Push(d) ==
    /\ \E batch \in Batch :
          /\ last + Len(batch) <= MaxSequence
          /\ last' = last + Len(batch)
          /\ log' = log \cup {Row(last + i, DatasetOf[d], d, batch[i]) : i \in 1..Len(batch)}
    /\ UNCHANGED <<position, replayed, asked>>

\* d's page is looked up.
Ask(d) ==
    /\ asked[d] = {}
    /\ asked' = [asked EXCEPT ![d] = {last}]
    /\ UNCHANGED <<log, last, position, replayed>>

\* d is given all that the others have up to where it goes, ...
Deliver(d) ==
    /\ \E n \in asked[d] : \E p \in position[d]..n :
          /\ position' = [position EXCEPT ![d] = p]
          /\ replayed' = [replayed EXCEPT ![d] = @ \cup OthersBetween(d, position[d], p)]
    /\ asked' = [asked EXCEPT ![d] = {}]
    /\ UNCHANGED <<log, last>>

\* ... or nothing, because nobody had anything for it when it asked.
DeliverNothing(d) ==
    /\ \E n \in asked[d] : OthersBetween(d, position[d], n) = {}
    /\ \E p \in position[d]..last : position' = [position EXCEPT ![d] = p]
    /\ asked' = [asked EXCEPT ![d] = {}]
    /\ UNCHANGED <<log, last, replayed>>

\* Devices stop waiting, one or all of them.
Leave ==
    /\ UNCHANGED <<log, last, position, replayed>>
    /\ \E gone \in SUBSET Device :
          asked' = [d \in Device |-> IF d \in gone THEN {} ELSE asked[d]]

Next ==
    \/ Leave
    \/ \E d \in Device : Push(d) \/ Ask(d) \/ Deliver(d) \/ DeliverNothing(d)

Spec == Init /\ [][Next]_replayVars

=============================================================================
