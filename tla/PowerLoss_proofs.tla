--------------------------- MODULE PowerLoss_proofs ---------------------------
(***************************************************************************)
(* Proofs about PowerLoss: what the server goes on promising although the  *)
(* power can fail.                                                         *)
(***************************************************************************)
EXTENDS PowerLoss, SyncSystem_proofs

-----------------------------------------------------------------------------
(* The inductive invariant.                                                *)

DiskOK ==
    /\ durable.lastSequence \in Nat
    /\ durable.devices \subseteq Listing
    /\ DiskHasTheStart

\* A cut can leave the cursors above the end of the log, and so they are only
\* bounded by the largest number there is.
PowerInv == Served /\ DiskOK

\* What is on the disk is what could be.
LEMMA TablesOnDisk ==
    ASSUME ServerInv
    PROVE  /\ Tables.lastSequence = lastSequence /\ Tables.entries = entries
           /\ Tables.devices = devices /\ lastSequence \in Nat /\ devices \subseteq Listing
           /\ entries = {r \in entries : r.sequence <= lastSequence}
<1>1. lastSequence \in Nat /\ devices \subseteq Listing
      /\ \A r \in entries : r.sequence \in 1..lastSequence
  BY DEF ServerInv, StoreInvariant, TypeOK, EntriesNumbered
<1>2. \A r \in entries : r.sequence <= lastSequence
  BY <1>1
<1> QED BY <1>1, <1>2 DEF Tables

LEMMA PowerInitEstablishes == PowerInit => PowerInv
<1> SUFFICES ASSUME PowerInit PROVE PowerInv
  OBVIOUS
<1>1. Served
  BY SystemInitEstablishes, SystemIsServed DEF PowerInit
<1>2. DiskOK
  BY <1>1, TablesOnDisk DEF PowerInit, DiskOK, DiskHasTheStart, Served
<1> QED BY <1>1, <1>2 DEF PowerInv

-----------------------------------------------------------------------------
(* The steps.                                                              *)

\* The log goes on from what is on the disk.
LEMMA DiskKept ==
    ASSUME PowerInv, ServerInv', LogGrows, durable' = durable
    PROVE  DiskOK'
<1>1. /\ durable.lastSequence \in Nat /\ durable.devices \subseteq Listing
      /\ durable.lastSequence <= lastSequence
      /\ durable.entries = {r \in entries : r.sequence <= durable.lastSequence}
  BY DEF PowerInv, DiskOK, DiskHasTheStart
<1>2. /\ lastSequence \in Nat /\ lastSequence' \in Nat /\ lastSequence <= lastSequence'
      /\ entries \subseteq entries' /\ \A r \in entries' : r.sequence \in Nat
      /\ \A r \in entries' \ entries : r.sequence > lastSequence
  BY DEF PowerInv, Served, ServerInv, StoreInvariant, TypeOK, Entry, LogGrows
<1>3. \A r \in entries' \ entries : ~(r.sequence <= durable.lastSequence)
  BY <1>1, <1>2
<1>4. durable.entries = {r \in entries' : r.sequence <= durable.lastSequence}
  BY <1>1, <1>2, <1>3
<1>5. durable.lastSequence <= lastSequence'
  BY <1>1, <1>2
<1> QED BY <1>1, <1>4, <1>5 DEF DiskOK, DiskHasTheStart

LEMMA RunningKeeps ==
    ASSUME PowerInv, [SystemNext]_systemVars, durable' = durable
    PROVE  PowerInv' /\ LogGrows
<1>1. Served /\ MaxSequence \in Nat /\ Attended(MaxSequence)
  BY ServedIsAttended DEF PowerInv
<1>2. ServerInv' /\ LogGrows
  BY <1>1, SystemKeepsServer
<1>3. DevicesInv(MaxSequence)'
  BY <1>1, <1>2, AttendedStep
<1> QED BY <1>2, <1>3, DiskKept DEF PowerInv, Served

LEMMA CheckpointKeeps ==
    ASSUME PowerInv, Checkpoint
    PROVE  PowerInv'
<1>1. UNCHANGED systemVars /\ durable' = Tables
  BY DEF Checkpoint
<1>2. Served'
  <2>1. Served /\ MaxSequence \in Nat /\ Attended(MaxSequence)
    BY ServedIsAttended DEF PowerInv
  <2>2. ServerInv' /\ LogGrows
    BY <1>1, <2>1, SystemKeepsServer
  <2>3. DevicesInv(MaxSequence)'
    BY <1>1, <2>1, <2>2, AttendedStep
  <2> QED BY <2>2, <2>3 DEF Served
<1>3. entries' = entries /\ lastSequence' = lastSequence
  BY <1>1 DEF systemVars, allVars, vars, tables
<1>4. DiskOK'
  BY <1>1, <1>3, TablesOnDisk DEF DiskOK, DiskHasTheStart, PowerInv, Served
<1> QED BY <1>2, <1>4 DEF PowerInv

\* A cut puts the start of the log in its place and ends every request.
LEMMA CutMoves ==
    ASSUME PowerInv, PowerCut
    PROVE  /\ ServerInv' /\ DiskOK'
           /\ entries' = {r \in entries : r.sequence <= lastSequence'}
           /\ lastSequence' \in 0..lastSequence
<1>1. /\ durable.lastSequence \in Nat /\ durable.devices \subseteq Listing
      /\ durable.lastSequence <= lastSequence
      /\ durable.entries = {r \in entries : r.sequence <= durable.lastSequence}
  BY DEF PowerInv, DiskOK, DiskHasTheStart
<1>2. /\ entries' = durable.entries /\ lastSequence' = durable.lastSequence
      /\ devices' = durable.devices /\ durable' = durable /\ ServerReset
  BY DEF PowerCut, Restarted
<1>3. lastSequence' \in 0..lastSequence
  BY <1>1, <1>2 DEF PowerInv, Served, ServerInv, StoreInvariant, TypeOK
<1>4. ServerInv'
  BY <1>1, <1>2, <1>3, ResetKeepsServer DEF PowerInv, Served
<1>5. DiskOK'
  BY <1>1, <1>2 DEF DiskOK, DiskHasTheStart
<1> QED BY <1>1, <1>2, <1>3, <1>4, <1>5

\* ... and the devices keep what they had.
LEMMA CutKeepsDevices ==
    ASSUME PowerInv, PowerCut, NEW m \in Nat, \A d \in Device : cursor[d] <= m
    PROVE  DevicesInv(m)'
<1>1. /\ stage' = [h \in Handler |-> "free"] /\ server' = [d \in Device |-> None]
      /\ UNCHANGED <<written, pushed, cursor, applied>>
  BY DEF PowerCut, Restarted, ServerReset
<1>2. faults' \in 0..MaxFaults
  BY SystemAssumption DEF PowerCut, Fault, PowerInv, Served, DevicesInv, SystemTypeOK
<1>3. SystemTypeOK'
  BY <1>1, <1>2 DEF PowerInv, Served, DevicesInv, SystemTypeOK
<1>4. (\A h \in Handler : CursorOK(h, m)') /\ (\A d \in Device : WaitingOK(d)')
  BY <1>1 DEF CursorOK, Exchanged, WaitingOK
<1> QED BY <1>1, <1>3, <1>4 DEF DevicesInv

LEMMA CutKeeps ==
    ASSUME PowerInv, PowerCut
    PROVE  PowerInv'
<1>1. MaxSequence \in Nat /\ \A d \in Device : cursor[d] <= MaxSequence
  BY BoundAssumption DEF PowerInv, Served, DevicesInv
<1> QED BY <1>1, CutMoves, CutKeepsDevices DEF PowerInv, Served

LEMMA PowerNextPreserves == PowerInv /\ [PowerNext]_powerVars => PowerInv'
<1> SUFFICES ASSUME PowerInv, [PowerNext]_powerVars PROVE PowerInv'
  OBVIOUS
<1>1. CASE SystemNext /\ UNCHANGED durable
  BY <1>1, RunningKeeps
<1>2. CASE Checkpoint
  BY <1>2, CheckpointKeeps
<1>3. CASE PowerCut
  BY <1>3, CutKeeps
<1>4. CASE UNCHANGED powerVars
  BY <1>4, RunningKeeps DEF powerVars
<1> QED BY <1>1, <1>2, <1>3, <1>4 DEF PowerNext

-----------------------------------------------------------------------------
(* The theorems.                                                           *)

THEOREM PowerInvariant == PowerSpec => []PowerInv
<1>1. PowerInit => PowerInv
  BY PowerInitEstablishes
<1> QED BY <1>1, PowerNextPreserves, PTL DEF PowerSpec

\* Cut or not, sequences are unique, a sync answered 200 is stored at that
\* moment, and what it was given has no gap (schema.go:21-25; server.go:184-190).
THEOREM PowerKeepsAnswers ==
    PowerSpec => [](TypeOK /\ ServerTypeOK /\ SystemTypeOK /\ EntriesNumbered
                    /\ AcknowledgedPushIsStored /\ AnswerSkipsNothing)
<1>1. PowerInv => TypeOK /\ EntriesNumbered /\ SystemTypeOK
  BY DEF PowerInv, Served, ServerInv, StoreInvariant, DevicesInv
<1>2. PowerInv => ServerTypeOK /\ AcknowledgedPushIsStored /\ AnswerSkipsNothing
  BY DEF PowerInv, Served, ServerInv, ServerInvariant, ServerTypes, HandlerOK, ServerTypeOK,
         PushStored, BatchStored, AcknowledgedPushIsStored, PageKept, EmptyKept,
         AnswerSkipsNothing
<1> QED BY <1>1, <1>2, PowerInvariant, PTL

\* What a cut can bring back is the log up to some number.
THEOREM DiskHasAPrefix == PowerSpec => []DiskHasTheStart
<1>1. PowerInv => DiskHasTheStart
  BY DEF PowerInv, DiskOK
<1> QED BY <1>1, PowerInvariant, PTL

\* No row is changed, and none is taken out of the middle: a cut takes the end
\* off, everything else only adds to it (store.go:82-88).
THEOREM PowerChangesOnlyTheEnd == PowerSpec => OnlyTheEndChanges
<1>1. PowerInv /\ [PowerNext]_powerVars =>
          [\A r \in entries \cup entries' :
              (r.sequence <= lastSequence /\ r.sequence <= lastSequence') =>
                  r \in entries /\ r \in entries']_powerVars
  <2> SUFFICES ASSUME PowerInv, [PowerNext]_powerVars, NEW r \in entries \cup entries',
                      r.sequence <= lastSequence, r.sequence <= lastSequence'
               PROVE  r \in entries /\ r \in entries'
    OBVIOUS
  <2>1. CASE LogGrows
    <3>1. r.sequence \in Nat /\ lastSequence \in Nat
      BY PowerNextPreserves DEF PowerInv, Served, ServerInv, StoreInvariant, TypeOK, Entry
    <3> QED BY <2>1, <3>1 DEF LogGrows
  <2>2. CASE PowerCut
    BY <2>2, CutMoves
  <2>3. CASE Checkpoint \/ UNCHANGED powerVars
    BY <2>3 DEF Checkpoint, powerVars, systemVars, allVars, vars, tables
  <2> QED BY <2>1, <2>2, <2>3, RunningKeeps DEF PowerNext
<1> QED BY <1>1, PowerInvariant, PTL DEF PowerSpec, OnlyTheEndChanges

\* A cursor passes nothing that was there when the device asked, and never goes
\* back, in a log that cuts have shortened as in any other.
THEOREM PowerCursorsPassNothingOld == PowerSpec => CursorPassesNothingOld
<1>1. PowerInv /\ [PowerNext]_powerVars =>
          [\A d \in Device : cursor'[d] # cursor[d] =>
              /\ cursor[d] < cursor'[d]
              /\ \A r \in Others(d) : r.sequence \in (cursor[d] + 1)..cursor'[d] =>
                    \/ r.sequence \in applied'[d]
                    \/ /\ exchange[server[d]].entries = {}
                       /\ r.sequence > asOf[server[d]]]_systemVars
  <2> SUFFICES ASSUME PowerInv, [PowerNext]_powerVars, NEW d \in Device,
                      cursor'[d] # cursor[d]
               PROVE  /\ cursor[d] < cursor'[d]
                      /\ \A r \in Others(d) : r.sequence \in (cursor[d] + 1)..cursor'[d] =>
                            \/ r.sequence \in applied'[d]
                            \/ /\ exchange[server[d]].entries = {}
                               /\ r.sequence > asOf[server[d]]
    OBVIOUS
  <2>1. [SystemNext]_systemVars
    BY DEF PowerNext, Checkpoint, PowerCut, Restarted, ServerReset, powerVars, systemVars,
           deviceVars
  <2> QED BY <2>1, CursorPasses DEF PowerInv
<1> QED BY <1>1, PowerInvariant, PTL DEF PowerSpec, CursorPassesNothingOld

=============================================================================
