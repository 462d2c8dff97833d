-------------------------- MODULE SyncSystem_proofs --------------------------
(***************************************************************************)
(* Proofs about SyncSystem: the server keeps its promises when its process *)
(* is killed and its clients are unreliable, and a device's cursor stays   *)
(* inside the log, below everything that is still to be written to it.     *)
(***************************************************************************)
EXTENDS SyncSystem, SyncServer_proofs, SequenceTheorems

-----------------------------------------------------------------------------
(* The inductive invariant.                                                *)

\* A device waits for the sync it sent from the cursor it keeps, and what that
\* acknowledges was written.
WaitingOK(d) ==
    server[d] # None =>
        /\ stage[server[d]] \in {"append", "page", "touch", "answer"}
        /\ request[server[d]].dataset = DatasetOf[d]
        /\ request[server[d]].device = d
        /\ request[server[d]].name = NameOf[d]
        /\ request[server[d]].cursor = cursor[d]
        /\ pushed[d] + Len(request[server[d]].blobs) <= written[d]

\* The cursor a handler was given, and the one it answers, are not above m, and
\* the second is not below the first.
CursorOK(h, m) ==
    /\ stage[h] \in {"append", "page"} => request[h].cursor <= m
    /\ (stage[h] = "touch" \/ Exchanged(h)) =>
          exchange[h].cursor <= m /\ request[h].cursor <= exchange[h].cursor

\* No cursor kept or under way is above m.
DevicesInv(m) ==
    /\ SystemTypeOK
    /\ \A d \in Device : WaitingOK(d) /\ cursor[d] <= m
    /\ \A h \in Handler : CursorOK(h, m)

ServerInv == StoreInvariant /\ ResultsInvariant /\ ServerInvariant

\* What holds whatever becomes of the tables: cursors are those of requests.
Served == ServerInv /\ DevicesInv(MaxSequence)

\* The cursors are inside the log.
Logged == ServerInv /\ DevicesInv(lastSequence)

\* ... and what was replayed is in it.
SystemInv == ServerInv /\ DevicesInv(lastSequence) /\ OnlyOthersReplayed

\* A bound on the cursors may be raised.
LEMMA BoundRises ==
    ASSUME ServerInv, NEW m \in Nat, NEW n \in Nat, m <= n, DevicesInv(m)
    PROVE  DevicesInv(n)
<1>1. /\ cursor \in [Device -> Nat]
      /\ exchange \in [Handler -> Page] /\ request \in [Handler -> Request]
  BY DEF ServerInv, DevicesInv, SystemTypeOK, ServerInvariant, ServerTypes
<1>2. ASSUME NEW h \in Handler PROVE CursorOK(h, n)
  <2>1. exchange[h].cursor \in Nat /\ request[h].cursor \in Nat
    <3>1. Cursor \cup {0} \subseteq Nat
      BY CursorAssumption
    <3> QED BY <1>1, <3>1 DEF Page, Request
  <2> QED BY <1>1, <2>1 DEF DevicesInv, CursorOK
<1>3. ASSUME NEW d \in Device PROVE WaitingOK(d) /\ cursor[d] <= n
  BY <1>1 DEF DevicesInv
<1> QED BY <1>2, <1>3 DEF DevicesInv

LEMMA BoundRisesNext ==
    ASSUME ServerInv', NEW m \in Nat, NEW n \in Nat, m <= n, DevicesInv(m)'
    PROVE  DevicesInv(n)'
<1>1. /\ cursor' \in [Device -> Nat]
      /\ exchange' \in [Handler -> Page] /\ request' \in [Handler -> Request]
  BY DEF ServerInv, DevicesInv, SystemTypeOK, ServerInvariant, ServerTypes
<1>2. ASSUME NEW h \in Handler PROVE CursorOK(h, n)'
  <2>1. exchange'[h].cursor \in Nat /\ request'[h].cursor \in Nat
    <3>1. Cursor \cup {0} \subseteq Nat
      BY CursorAssumption
    <3> QED BY <1>1, <3>1 DEF Page, Request
  <2> QED BY <1>1, <2>1 DEF DevicesInv, CursorOK
<1>3. ASSUME NEW d \in Device PROVE WaitingOK(d)' /\ cursor'[d] <= n
  BY <1>1 DEF DevicesInv
<1> QED BY <1>2, <1>3 DEF DevicesInv

LEMMA LoggedIsServed ==
    ASSUME Logged
    PROVE  Served
<1>1. lastSequence \in Nat /\ lastSequence <= MaxSequence /\ MaxSequence \in Nat
  BY BoundAssumption DEF Logged, ServerInv, StoreInvariant, TypeOK, TransactionFollowsLog
<1> QED BY <1>1, BoundRises DEF Logged, Served

LEMMA SystemIsServed ==
    ASSUME SystemInv
    PROVE  Served
  BY LoggedIsServed DEF SystemInv, Logged

-----------------------------------------------------------------------------
(* The server's part of the invariant.                                     *)

\* What a device sends is a request the server lets in.
LEMMA OutboxIsRequest ==
    ASSUME Served, NEW d \in Device
    PROVE  /\ [dataset |-> DatasetOf[d], device |-> d, name |-> NameOf[d],
               blobs   |-> SubSeq(Writes[d], pushed[d] + 1, written[d]),
               cursor  |-> cursor[d], limit |-> 0] \in Requests
           /\ pushed[d] + Len(SubSeq(Writes[d], pushed[d] + 1, written[d])) = written[d]
<1> DEFINE out == SubSeq(Writes[d], pushed[d] + 1, written[d])
<1>1. /\ pushed[d] \in Nat /\ written[d] \in Nat /\ cursor[d] \in Nat
      /\ pushed[d] <= written[d] /\ written[d] <= Len(Writes[d])
      /\ cursor[d] <= MaxSequence
  BY DEF Served, DevicesInv, SystemTypeOK
<1>2. Writes[d] \in Seq(Blob) /\ Len(Writes[d]) <= MaxBatch
  BY SystemAssumption, OutboxAssumption
<1>3. \A i \in pushed[d] + 1 .. written[d] : Writes[d][i] \in Blob
  BY <1>1, <1>2, ElementOfSeq
<1>4. out \in Seq(Blob) /\ Len(out) = written[d] - pushed[d]
  BY <1>1, <1>3, SubSeqProperties
<1> HIDE DEF out
<1>5. out \in [1..Len(out) -> Blob] /\ Len(out) \in 0..MaxBatch
  BY <1>1, <1>2, <1>4, BoundAssumption, LenProperties
<1>6. out \in Batches
  BY <1>5 DEF Batches
<1>7. cursor[d] \in Cursor
  <2>1. cursor[d] \in 0..MaxSequence
    BY <1>1, BoundAssumption
  <2> QED BY <2>1, OutboxAssumption
<1>8. pushed[d] + Len(out) = written[d]
  BY <1>1, <1>4
<1> QED BY <1>6, <1>7, <1>8, SystemAssumption, OutboxAssumption DEF Requests, out

\* Whatever a device does to the server, any client may do.
LEMMA SystemStepIsServerStep ==
    ASSUME Served, [SystemNext]_systemVars, ~Restart
    PROVE  [ServerNext]_allVars
<1>0. SystemTypeOK
  BY DEF Served, DevicesInv
<1>1. ASSUME NEW d \in Device, NEW h \in Handler, Exchange(d, h)
      PROVE  ServerNext
  BY <1>1, OutboxIsRequest DEF Exchange, ServerNext
<1>2. ASSUME NEW d \in Device, Receive(d) \/ ReceiveAndDie(d)
      PROVE  ServerNext
  <2>1. server[d] \in Handler /\ Finish(server[d])
    BY <1>0, <1>2 DEF Receive, ReceiveAndDie, SystemTypeOK
  <2> QED BY <2>1 DEF ServerNext
<1>3. ASSUME NEW d \in Device, Write(d) \/ GiveUp(d)
      PROVE  UNCHANGED allVars
  BY <1>3 DEF Write, GiveUp
<1>4. ASSUME NEW h \in Handler, Manage(h)
      PROVE  ServerNext
  <2>1. PICK d \in Managed : StartDevices(h, DatasetOf[d]) \/ StartRemove(h, DatasetOf[d], d)
    BY <1>4 DEF Manage
  <2>2. d \in Device /\ DatasetOf[d] \in Dataset
    BY SystemAssumption
  <2> QED BY <2>1, <2>2 DEF ServerNext
<1>5. ASSUME NEW h \in Handler, Serve(h) \/ Unread(h) \/ CallFails(h)
      PROVE  ServerNext
  BY <1>5 DEF Serve, Unread, CallFails, ServerNext
<1>6. CASE Tick
  BY <1>6 DEF ServerNext
<1>7. CASE UNCHANGED systemVars
  BY <1>7 DEF systemVars
<1> QED BY <1>1, <1>2, <1>3, <1>4, <1>5, <1>6, <1>7 DEF SystemNext

\* A process that starts has no calls, and on tables cut off anywhere all is well.
LEMMA ResetKeepsServer ==
    ASSUME ServerInv, ServerReset, entries' \subseteq entries, devices' \subseteq Listing,
           lastSequence' \in 0..lastSequence, \A r \in entries' : r.sequence <= lastSequence'
    PROVE  ServerInv'
<1>1. /\ connection' = None /\ txEntries' = {} /\ txSequence' = 0
      /\ pc' = [h \in Handler |-> "idle"] /\ args' = [h \in Handler |-> NoArgs]
      /\ scanned' = [h \in Handler |-> {}] /\ page' = [h \in Handler |-> NoPage]
      /\ assigned' = [h \in Handler |-> 0] /\ listing' = [h \in Handler |-> {}]
      /\ removed' = [h \in Handler |-> FALSE] /\ offered' = [h \in Handler |-> 0]
      /\ stage' = [h \in Handler |-> "free"] /\ request' = [h \in Handler |-> NoRequest]
      /\ exchange' = [h \in Handler |-> NoPage] /\ status' = [h \in Handler |-> 0]
      /\ asOf' = [h \in Handler |-> 0] /\ clock' = clock
  BY DEF ServerReset
<1>2. NoPage \in Page /\ NoRequest \in Request /\ NoArgs \in Args
  BY NoArgsIsArgs, RequestTypes DEF NoPage, Page
<1>3. /\ entries \subseteq Entry /\ lastSequence \in Nat /\ lastSequence <= MaxSequence
      /\ IsFiniteSet(entries) /\ EntriesNumbered /\ MaxSequence \in Nat
  BY BoundAssumption DEF ServerInv, StoreInvariant, TypeOK, TransactionFollowsLog
<1>4. StoreInvariant'
  <2>1. TypeOK'
    BY <1>1, <1>2, <1>3 DEF TypeOK
  <2>2. IsFiniteSet(entries)' /\ IsFiniteSet(txEntries)'
    BY <1>1, <1>3, FS_EmptySet, FS_Subset
  <2>3. EntriesNumbered'
    BY <1>3 DEF EntriesNumbered
  <2>4. ConnectionHeldOnlyWhileUsed'
    BY <1>1, NoneAssumption DEF ConnectionHeldOnlyWhileUsed
  <2>5. /\ ArgumentsGiven' /\ ScanIsCurrent' /\ EmptyPageWasEmpty' /\ PageEndsInLog'
        /\ AppendStoresItsBatch' /\ PageSkipsNothing'
    BY <1>1 DEF ArgumentsGiven, ScanIsCurrent, EmptyPageWasEmpty, PageEndsInLog,
                AppendStoresItsBatch, PageSkipsNothing
  <2>6. TransactionFollowsLog'
    BY <1>1, <1>3 DEF TransactionFollowsLog
  <2> QED BY <2>1, <2>2, <2>3, <2>4, <2>5, <2>6 DEF StoreInvariant
<1>5. ResultsInvariant'
  BY <1>1 DEF ResultsInvariant, EmptyPageStays, QueriesAreOld, CursorIsAnEntry, HasMoreIsHonest
<1>6. ServerInvariant'
  <2>1. ServerTypes'
    BY <1>1, <1>2 DEF ServerInv, ServerInvariant, ServerTypes, Stages
  <2>2. ASSUME NEW h \in Handler PROVE HandlerOK(h)'
    BY <1>1 DEF HandlerOK, ArgumentsMatch, PushStored, PageKept, EmptyKept, Exchanged, CallsOf
  <2> QED BY <2>1, <2>2 DEF ServerInvariant
<1> QED BY <1>4, <1>5, <1>6 DEF ServerInv

\* A killed process leaves what was committed.
LEMMA RestartKeepsServer ==
    ASSUME ServerInv, ServerReset, UNCHANGED tables
    PROVE  ServerInv' /\ LogGrows
<1>1. /\ entries' = entries /\ lastSequence' = lastSequence /\ devices' = devices
      /\ lastSequence \in Nat /\ devices \subseteq Listing /\ entries \subseteq Entry
      /\ \A r \in entries : r.sequence <= lastSequence
  BY DEF tables, ServerInv, StoreInvariant, TypeOK, EntriesNumbered
<1>2. ServerInv'
  BY <1>1, ResetKeepsServer
<1>3. LogGrows
  BY <1>1 DEF LogGrows
<1> QED BY <1>2, <1>3

LEMMA SystemKeepsServer ==
    ASSUME Served, [SystemNext]_systemVars
    PROVE  ServerInv' /\ LogGrows
<1>1. CASE Restart
  BY <1>1, RestartKeepsServer DEF Restart, Restarted, Served
<1>2. CASE ~Restart
  <2>1. [ServerNext]_allVars
    BY <1>2, SystemStepIsServerStep
  <2>2. StoreInvariant /\ ResultsInvariant /\ ServerInvariant
    BY DEF Served, ServerInv
  <2>3. [Next]_vars
    BY <2>1, <2>2, ServerStepIsStoreStep
  <2>4. StoreInvariant' /\ ServerInvariant'
    BY <2>1, <2>2, ServerNextPreserves
  <2> QED BY <2>2, <2>3, <2>4, ResultsInvariantNext, StepsGrowLog DEF ServerInv
<1> QED BY <1>1, <1>2

-----------------------------------------------------------------------------
(* What a step leaves alone stays as it was.                               *)

\* The cursors are not above m, nor is the end of the log.
Attended(m) == ServerInv /\ DevicesInv(m) /\ m \in lastSequence..MaxSequence

LEMMA AttendedIsServed ==
    ASSUME NEW m \in Nat, Attended(m)
    PROVE  Served
  BY BoundAssumption, BoundRises DEF Attended, Served, ServerInv, StoreInvariant, TypeOK

LEMMA ServedIsAttended ==
    ASSUME Served
    PROVE  MaxSequence \in Nat /\ Attended(MaxSequence)
  BY BoundAssumption
  DEF Served, ServerInv, StoreInvariant, TypeOK, TransactionFollowsLog, Attended

LEMMA CursorKept ==
    ASSUME NEW m \in Nat, Attended(m), ServerInv', LogGrows, NEW k \in Handler,
           stage'[k] = stage[k], request'[k] = request[k],
           exchange'[k] = exchange[k], status'[k] = status[k]
    PROVE  CursorOK(k, m)'
<1>1. CursorOK(k, m)
  BY DEF Attended, DevicesInv
<1>2. lastSequence \in Nat /\ lastSequence' \in Nat /\ lastSequence <= lastSequence'
  BY DEF Attended, ServerInv, StoreInvariant, TypeOK, LogGrows
<1>3. exchange[k].cursor \in Nat
  BY DEF Attended, ServerInv, ServerInvariant, ServerTypes, Page
<1>4. request[k].cursor \in Nat
  <2>1. request[k].cursor \in Cursor \cup {0}
    BY DEF Attended, ServerInv, ServerInvariant, ServerTypes, Request
  <2>2. Cursor \cup {0} \subseteq Nat
    BY CursorAssumption
  <2> QED BY <2>1, <2>2
<1> QED BY <1>1, <1>2, <1>3, <1>4 DEF CursorOK, Exchanged, Syncing

LEMMA WaitingKept ==
    ASSUME NEW m \in Nat, Attended(m), NEW d \in Device,
           server'[d] = server[d], pushed'[d] = pushed[d], cursor'[d] = cursor[d],
           written'[d] \in Nat, written[d] <= written'[d],
           server[d] # None => /\ request'[server[d]] = request[server[d]]
                               /\ stage'[server[d]] \in {"append", "page", "touch", "answer"}
    PROVE  WaitingOK(d)'
<1>1. WaitingOK(d) /\ pushed[d] \in Nat /\ written[d] \in Nat /\ server[d] \in Handler \cup {None}
  BY DEF Attended, DevicesInv, SystemTypeOK
<1>2. CASE server[d] = None
  BY <1>2 DEF WaitingOK
<1>3. CASE server[d] # None
  <2>1. Len(request[server[d]].blobs) \in Nat
    <3>1. request[server[d]].blobs \in Batches
      BY <1>1, <1>3 DEF Attended, ServerInv, ServerInvariant, ServerTypes, Request
    <3> QED BY <3>1, BatchIsSequence
  <2> QED BY SMTT(30), <1>1, <1>3, <2>1 DEF WaitingOK
<1> QED BY <1>2, <1>3

\* What is left to show of a step: where it leaves the cursors.
LEMMA DevicesKept ==
    ASSUME NEW m \in Nat, Attended(m), SystemTypeOK',
           \A h \in Handler : CursorOK(h, m)',
           \A d \in Device : WaitingOK(d)',
           \A d \in Device : cursor'[d] = cursor[d] \/ cursor'[d] <= m
    PROVE  DevicesInv(m)'
<1>1. \A d \in Device : cursor[d] <= m
  BY DEF Attended, DevicesInv
<1> QED BY <1>1 DEF DevicesInv

\* The devices as they were, whatever the server does.
LEMMA QuietDevices ==
    ASSUME NEW m \in Nat, Attended(m), ServerInv', LogGrows,
           UNCHANGED <<written, pushed, cursor, applied, server>>, faults' \in 0..MaxFaults,
           NEW h \in Handler,
           \A k \in Handler \ {h} : /\ stage'[k] = stage[k] /\ request'[k] = request[k]
                                    /\ exchange'[k] = exchange[k] /\ status'[k] = status[k],
           CursorOK(h, m)',
           \A d \in Device : server[d] = h =>
               request'[h] = request[h] /\ stage'[h] \in {"append", "page", "touch", "answer"}
    PROVE  DevicesInv(m)'
<1>1. SystemTypeOK'
  BY DEF Attended, DevicesInv, SystemTypeOK
<1>2. \A k \in Handler : CursorOK(k, m)'
  BY CursorKept
<1>3. ASSUME NEW d \in Device PROVE WaitingOK(d)'
  <2>1. written[d] \in Nat /\ server[d] \in Handler \cup {None} /\ WaitingOK(d)
    BY DEF Attended, DevicesInv, SystemTypeOK
  <2>2. server[d] # None => /\ request'[server[d]] = request[server[d]]
                            /\ stage'[server[d]] \in {"append", "page", "touch", "answer"}
    BY <2>1 DEF WaitingOK
  <2> QED BY <2>1, <2>2, WaitingKept
<1> QED BY <1>1, <1>2, <1>3, DevicesKept

-----------------------------------------------------------------------------
(* The steps of a handler.                                                 *)

LEMMA HandleKeepsDevices ==
    ASSUME NEW m \in Nat, Attended(m), ServerInv', LogGrows,
           NEW h \in Handler, Handle(h), UNCHANGED deviceVars
    PROVE  DevicesInv(m)'
<1>0. /\ stage \in [Handler -> Stages] /\ exchange \in [Handler -> Page]
      /\ status \in [Handler -> {0, OK, NoContent, NotFound, InternalServerError}]
      /\ HandlerOK(h) /\ CursorOK(h, m)
  BY DEF Attended, ServerInv, ServerInvariant, ServerTypes, DevicesInv
<1>1. /\ request' = request /\ entries' = entries /\ lastSequence' = lastSequence
      /\ stage'[h] \in {"page", "touch", "answer"}
      /\ \A k \in Handler \ {h} : /\ stage'[k] = stage[k] /\ exchange'[k] = exchange[k]
                                  /\ status'[k] = status[k]
      /\ CursorOK(h, m)'
  <2>1. CASE Pull(h)
    <3>1. /\ request' = request /\ exchange' = exchange /\ status' = status
          /\ stage' = [stage EXCEPT ![h] = "page"] /\ stage[h] = "append"
          /\ entries' = entries /\ lastSequence' = lastSequence
      BY <2>1 DEF Pull, CallPage, Call, Enter, tables
    <3> QED BY <1>0, <3>1 DEF CursorOK, Exchanged
  <2>2. CASE Record(h)
    <3>1. /\ request' = request /\ exchange' = [exchange EXCEPT ![h] = page[h]] /\ status' = status
          /\ stage' = [stage EXCEPT ![h] = "touch"] /\ stage[h] = "page" /\ pc[h] = "paged"
          /\ entries' = entries /\ lastSequence' = lastSequence
      BY <2>2 DEF Record, CallTouchDevice, Call, Enter, tables
    <3>2. request[h].cursor <= m /\ args[h].after = request[h].cursor
      BY <1>0, <3>1 DEF CursorOK, HandlerOK, ArgumentsMatch
    <3>3. /\ page[h].cursor \in Nat /\ args[h].after \in Nat /\ lastSequence \in Nat
          /\ lastSequence <= m
      BY AfterIsNatural DEF Attended, ServerInv, StoreInvariant, TypeOK, Page
    <3>4. page[h].cursor <= m
      <4>1. CASE page[h].cursor > args[h].after
        <5>1. page[h].cursor \in 1..lastSequence
          BY <3>1, <4>1
          DEF Attended, ServerInv, ResultsInvariant, CursorIsAnEntry, StoreInvariant,
              EntriesNumbered
        <5> QED BY <3>3, <5>1
      <4>2. CASE ~(page[h].cursor > args[h].after)
        BY <3>2, <3>3, <4>2
      <4> QED BY <4>1, <4>2
    <3>5. request[h].cursor <= page[h].cursor
      <4>1. page[h].cursor >= args[h].after
        BY <3>1 DEF Attended, ServerInv, ResultsInvariant, CursorIsAnEntry
      <4> QED BY <3>2, <3>3, <4>1
    <3> QED BY <1>0, <3>1, <3>4, <3>5 DEF CursorOK, Exchanged
  <2>3. CASE AnswerSync(h) \/ AnswerDevices(h) \/ AnswerRemove(h) \/ AnswerFailure(h)
    <3>1. PICK code \in {OK, NoContent, NotFound, InternalServerError} :
             Answer(h, code) /\ (code = OK => stage[h] \in {"touch", "devices"})
      <4>1. CASE AnswerSync(h) \/ AnswerDevices(h) \/ AnswerFailure(h)
        BY <4>1 DEF AnswerSync, AnswerDevices, AnswerFailure, OK, InternalServerError
      <4>2. CASE AnswerRemove(h)
        BY <4>2 DEF AnswerRemove, OK, NoContent, NotFound
      <4> QED BY <2>3, <4>1, <4>2
    <3>2. /\ request' = request /\ exchange' = exchange
          /\ status' = [status EXCEPT ![h] = code]
          /\ stage' = [stage EXCEPT ![h] = "answer"]
          /\ entries' = entries /\ lastSequence' = lastSequence
      BY <3>1 DEF Answer, Enter, vars, tables
    <3>3. stage[h] = "devices" => request[h].name = None
      BY <1>0 DEF HandlerOK, ArgumentsMatch
    <3> QED BY <1>0, <3>1, <3>2, <3>3 DEF CursorOK, Exchanged, Syncing
  <2> QED BY <2>1, <2>2, <2>3 DEF Handle
<1>2. faults' \in 0..MaxFaults /\ UNCHANGED <<written, pushed, cursor, applied, server>>
  BY DEF deviceVars, Attended, DevicesInv, SystemTypeOK
<1> QED BY <1>1, <1>2, QuietDevices

\* A step of the store, and one that fails.
LEMMA StoreStepKeepsDevices ==
    ASSUME NEW m \in Nat, Attended(m), ServerInv', LogGrows,
           NEW h \in Handler, UNCHANGED serverVars,
           UNCHANGED <<written, pushed, cursor, applied, server>>, faults' \in 0..MaxFaults
    PROVE  DevicesInv(m)'
<1>1. stage' = stage /\ request' = request /\ exchange' = exchange /\ status' = status
  BY DEF serverVars
<1>2. CursorOK(h, m)'
  BY <1>1, CursorKept
<1>3. ASSUME NEW d \in Device, server[d] = h
      PROVE  stage[h] \in {"append", "page", "touch", "answer"}
  BY <1>3, NoneAssumption DEF Attended, DevicesInv, WaitingOK
<1> QED BY <1>1, <1>2, <1>3, QuietDevices

\* A goroutine that ends, with or without somebody reading its answer.
LEMMA FinishMoves ==
    ASSUME ServerInv, NEW h \in Handler, Finish(h)
    PROVE  /\ stage[h] = "answer" /\ entries' = entries /\ lastSequence' = lastSequence
           /\ stage'[h] = "free"
           /\ \A k \in Handler \ {h} : /\ stage'[k] = stage[k] /\ request'[k] = request[k]
                                       /\ exchange'[k] = exchange[k] /\ status'[k] = status[k]
           /\ \A m \in Nat : CursorOK(h, m)'
<1>1. /\ stage \in [Handler -> Stages] /\ exchange \in [Handler -> Page]
      /\ request \in [Handler -> Request]
      /\ status \in [Handler -> {0, OK, NoContent, NotFound, InternalServerError}]
  BY DEF ServerInv, ServerInvariant, ServerTypes
<1>2. /\ stage' = [stage EXCEPT ![h] = "free"] /\ stage[h] = "answer"
      /\ request' = [request EXCEPT ![h] = NoRequest]
      /\ exchange' = [exchange EXCEPT ![h] = NoPage]
      /\ status' = [status EXCEPT ![h] = 0]
      /\ entries' = entries /\ lastSequence' = lastSequence
  BY DEF Finish, Return, Enter, tables
<1> QED BY <1>1, <1>2 DEF CursorOK, Exchanged

\* A request is taken by a handler nobody waits for.
LEMMA StartMoves ==
    ASSUME NEW m \in Nat, Attended(m), NEW h \in Handler, NEW r, NEW s \in {"append", "devices", "remove"},
           stage[h] = "free", stage' = [stage EXCEPT ![h] = s],
           request' = [request EXCEPT ![h] = r], UNCHANGED <<exchange, status>>,
           s = "append" => r.cursor <= m
    PROVE  /\ stage'[h] = s /\ request'[h] = r
           /\ \A k \in Handler \ {h} : /\ stage'[k] = stage[k] /\ request'[k] = request[k]
                                       /\ exchange'[k] = exchange[k] /\ status'[k] = status[k]
           /\ CursorOK(h, m)'
           /\ \A d \in Device : server[d] # h
<1>1. stage \in [Handler -> Stages] /\ request \in [Handler -> Request]
  BY DEF Attended, ServerInv, ServerInvariant, ServerTypes
<1>2. \A d \in Device : server[d] # h
  BY NoneAssumption DEF Attended, DevicesInv, WaitingOK
<1> QED BY <1>1, <1>2 DEF CursorOK, Exchanged

LEMMA ManageKeepsDevices ==
    ASSUME NEW m \in Nat, Attended(m), ServerInv', LogGrows, NEW h \in Handler, Manage(h)
    PROVE  DevicesInv(m)'
<1>1. PICK d \in Managed : StartDevices(h, DatasetOf[d]) \/ StartRemove(h, DatasetOf[d], d)
  BY DEF Manage
<1>2. PICK s, r :
          /\ s \in {"devices", "remove"} /\ stage[h] = "free" /\ stage' = [stage EXCEPT ![h] = s]
          /\ request' = [request EXCEPT ![h] = r] /\ UNCHANGED <<exchange, status>>
  <2>1. CASE StartDevices(h, DatasetOf[d])
    BY <2>1 DEF StartDevices, CallDevices, Call, Enter, tables
  <2>2. CASE StartRemove(h, DatasetOf[d], d)
    BY <2>2 DEF StartRemove, CallRemoveDevice, Call, Enter, tables
  <2> QED BY <1>1, <2>1, <2>2
<1>3. faults' \in 0..MaxFaults /\ UNCHANGED <<written, pushed, cursor, applied, server>>
  BY DEF Manage, deviceVars, Attended, DevicesInv, SystemTypeOK
<1>4. /\ \A k \in Handler \ {h} : /\ stage'[k] = stage[k] /\ request'[k] = request[k]
                                  /\ exchange'[k] = exchange[k] /\ status'[k] = status[k]
      /\ CursorOK(h, m)'
      /\ \A e \in Device : server[e] # h
  BY <1>2, StartMoves
<1> QED BY <1>3, <1>4, QuietDevices

LEMMA UnreadKeepsDevices ==
    ASSUME NEW m \in Nat, Attended(m), ServerInv', LogGrows, NEW h \in Handler, Unread(h)
    PROVE  DevicesInv(m)'
<1>1. faults' \in 0..MaxFaults /\ UNCHANGED <<written, pushed, cursor, applied, server>>
  BY DEF Unread, deviceVars, Attended, DevicesInv, SystemTypeOK
<1>2. /\ \A k \in Handler \ {h} : /\ stage'[k] = stage[k] /\ request'[k] = request[k]
                                  /\ exchange'[k] = exchange[k] /\ status'[k] = status[k]
      /\ CursorOK(h, m)'
      /\ \A e \in Device : server[e] # h
  BY FinishMoves DEF Unread, Attended
<1> QED BY <1>1, <1>2, QuietDevices

-----------------------------------------------------------------------------
(* The steps of a device.                                                  *)

LEMMA WriteKeepsDevices ==
    ASSUME NEW m \in Nat, Attended(m), ServerInv', LogGrows,
           NEW d \in Device, Write(d) \/ GiveUp(d)
    PROVE  DevicesInv(m)'
<1>1. /\ stage' = stage /\ request' = request /\ exchange' = exchange /\ status' = status
      /\ pushed' = pushed /\ cursor' = cursor /\ applied' = applied
  BY DEF Write, GiveUp, allVars, serverVars
<1>2. /\ written' \in [Device -> Nat]
      /\ \A e \in Device : written[e] <= written'[e] /\ written'[e] <= Len(Writes[e])
  <2>1. written \in [Device -> Nat] /\ \A e \in Device : written[e] <= Len(Writes[e])
    BY DEF Attended, DevicesInv, SystemTypeOK
  <2>2. Len(Writes[d]) \in Nat
    BY SystemAssumption, LenProperties
  <2>3. CASE Write(d)
    BY <2>1, <2>2, <2>3 DEF Write
  <2>4. CASE GiveUp(d)
    BY <2>1, <2>4 DEF GiveUp
  <2> QED BY <2>3, <2>4
<1>3. /\ server' \in [Device -> Handler \cup {None}]
      /\ \A e \in Device : server'[e] = server[e] \/ server'[e] = None
  BY DEF Write, GiveUp, Attended, DevicesInv, SystemTypeOK
<1>4. faults' \in 0..MaxFaults
  BY SystemAssumption DEF Write, GiveUp, Fault, Attended, DevicesInv, SystemTypeOK
<1>5. SystemTypeOK'
  <2>1. \A e \in Device : pushed[e] <= written'[e]
    BY <1>2 DEF Attended, DevicesInv, SystemTypeOK
  <2> QED BY <1>1, <1>2, <1>3, <1>4, <2>1 DEF Attended, DevicesInv, SystemTypeOK
<1>6. ASSUME NEW e \in Device PROVE WaitingOK(e)'
  <2>1. CASE server'[e] = None
    BY <2>1 DEF WaitingOK
  <2>2. CASE server'[e] = server[e]
    <3>1. WaitingOK(e)
      BY DEF Attended, DevicesInv
    <3> QED BY <1>1, <1>2, <2>2, <3>1, WaitingKept DEF WaitingOK
  <2> QED BY <1>3, <2>1, <2>2
<1>7. \A h \in Handler : CursorOK(h, m)'
  BY <1>1, CursorKept
<1> QED BY <1>1, <1>5, <1>6, <1>7, DevicesKept

LEMMA ExchangeKeepsDevices ==
    ASSUME NEW m \in Nat, Attended(m), ServerInv', LogGrows,
           NEW d \in Device, NEW h \in Handler, Exchange(d, h)
    PROVE  DevicesInv(m)'
<1> DEFINE r == [dataset |-> DatasetOf[d], device |-> d, name |-> NameOf[d],
                 blobs   |-> SubSeq(Writes[d], pushed[d] + 1, written[d]),
                 cursor  |-> cursor[d], limit |-> 0]
<1>1. /\ r.dataset = DatasetOf[d] /\ r.device = d /\ r.name = NameOf[d] /\ r.cursor = cursor[d]
      /\ pushed[d] + Len(r.blobs) = written[d]
  BY AttendedIsServed, OutboxIsRequest
<1>2. StartSync(h, r) /\ server' = [server EXCEPT ![d] = h] /\ server[d] = None
      /\ UNCHANGED <<written, pushed, cursor, applied, faults>>
  BY DEF Exchange
<1> HIDE DEF r
<1>3. /\ stage[h] = "free" /\ stage' = [stage EXCEPT ![h] = "append"]
      /\ request' = [request EXCEPT ![h] = r] /\ UNCHANGED <<exchange, status>>
  BY <1>2 DEF StartSync, CallAppend, Call, Enter, tables
<1>4. r.cursor <= m
  BY <1>1 DEF Attended, DevicesInv
<1>5. /\ stage'[h] = "append" /\ request'[h] = r
      /\ \A k \in Handler \ {h} : /\ stage'[k] = stage[k] /\ request'[k] = request[k]
                                  /\ exchange'[k] = exchange[k] /\ status'[k] = status[k]
      /\ CursorOK(h, m)'
      /\ \A e \in Device : server[e] # h
  BY <1>3, <1>4, StartMoves
<1>6. server' \in [Device -> Handler \cup {None}] /\ server'[d] = h
      /\ \A e \in Device \ {d} : server'[e] = server[e]
  BY <1>2 DEF Attended, DevicesInv, SystemTypeOK
<1>7. SystemTypeOK'
  BY <1>2, <1>5, <1>6 DEF Attended, DevicesInv, SystemTypeOK
<1>8. \A k \in Handler : CursorOK(k, m)'
  BY <1>5, CursorKept
<1>9. ASSUME NEW e \in Device PROVE WaitingOK(e)'
  <2>1. CASE e = d
    <3>1. pushed[d] + Len(r.blobs) <= written[d]
      BY <1>1 DEF Attended, DevicesInv, SystemTypeOK
    <3> QED BY <1>1, <1>2, <1>5, <1>6, <2>1, <3>1 DEF WaitingOK
  <2>2. CASE e # d
    <3>1. WaitingOK(e) /\ server[e] \in Handler \cup {None} /\ written[e] \in Nat
      BY DEF Attended, DevicesInv, SystemTypeOK
    <3> QED BY <1>2, <1>5, <1>6, <2>2, <3>1 DEF WaitingOK
  <2> QED BY <2>1, <2>2
<1> QED BY <1>2, <1>7, <1>8, <1>9, DevicesKept

\* The answer a device reads is that of its own sync.
LEMMA AnswerIsForDevice ==
    ASSUME NEW m \in Nat, Attended(m), NEW d \in Device, server[d] # None, stage[server[d]] = "answer",
           status[server[d]] = OK
    PROVE  /\ exchange[server[d]].cursor \in Nat
           /\ exchange[server[d]].cursor <= m
           /\ exchange[server[d]].entries \subseteq Others(d)
           /\ pushed[d] + Len(request[server[d]].blobs) \in 0..written[d]
<1> DEFINE h == server[d]
<1>1. /\ h \in Handler /\ WaitingOK(d) /\ CursorOK(h, m) /\ HandlerOK(h)
      /\ pushed[d] \in Nat /\ written[d] \in Nat
  BY DEF Attended, DevicesInv, SystemTypeOK, ServerInv, ServerInvariant
<1>2. exchange[h] \in Page /\ request[h].blobs \in Batches
  BY <1>1 DEF Attended, ServerInv, ServerInvariant, ServerTypes, Request
<1>3. Exchanged(h)
  BY <1>1, SystemAssumption DEF WaitingOK, Exchanged, Syncing
<1>4. exchange[h].entries \subseteq Others(d)
  <2>1. CASE exchange[h].entries = {}
    BY <2>1
  <2>2. CASE exchange[h].entries # {}
    <3>1. exchange[h].entries = Pending(h)
      BY <1>1, <1>3, <2>2 DEF HandlerOK, PageKept
    <3>2. Pending(h) \subseteq Others(d)
      BY <1>1 DEF Pending, Matching, Others, WaitingOK
    <3> QED BY <3>1, <3>2
  <2> QED BY <2>1, <2>2
<1>5. pushed[d] + Len(request[h].blobs) \in 0..written[d]
  <2>1. Len(request[h].blobs) \in Nat
    BY <1>2, BatchIsSequence
  <2> QED BY <1>1, <2>1 DEF WaitingOK
<1> QED BY <1>1, <1>2, <1>3, <1>4, <1>5 DEF CursorOK, Page

\* Reading an answer, with the cursor kept or lost.
LEMMA ReceiveKeepsDevices ==
    ASSUME NEW m \in Nat, Attended(m), ServerInv', LogGrows,
           NEW d \in Device, Receive(d) \/ ReceiveAndDie(d)
    PROVE  DevicesInv(m)'
<1>0. PICK h \in Handler : h = server[d]
  BY DEF Receive, ReceiveAndDie, Attended, DevicesInv, SystemTypeOK
<1>1. Finish(h) /\ server' = [server EXCEPT ![d] = None] /\ written' = written
  BY <1>0 DEF Receive, ReceiveAndDie
<1>2. /\ stage[h] = "answer"
      /\ \A k \in Handler \ {h} : /\ stage'[k] = stage[k] /\ request'[k] = request[k]
                                  /\ exchange'[k] = exchange[k] /\ status'[k] = status[k]
      /\ CursorOK(h, m)'
  BY <1>1, FinishMoves DEF Attended
<1>3. server[d] # None
  BY DEF Receive, ReceiveAndDie
<1>4. /\ written \in [Device -> Nat] /\ pushed \in [Device -> Nat] /\ cursor \in [Device -> Nat]
      /\ applied \in [Device -> SUBSET Nat]
      /\ \A e \in Device : pushed[e] <= written[e] /\ written[e] <= Len(Writes[e])
      /\ server \in [Device -> Handler \cup {None}] /\ faults \in 0..MaxFaults
      /\ \A e \in Device \ {d} : server[e] # h
  BY <1>0, <1>3 DEF Attended, DevicesInv, SystemTypeOK
<1>5. faults' \in 0..MaxFaults
  BY <1>4, SystemAssumption DEF Receive, ReceiveAndDie, Fault
<1>6. /\ pushed' \in [Device -> Nat] /\ cursor' \in [Device -> Nat]
      /\ applied' \in [Device -> SUBSET Nat]
      /\ \A e \in Device : /\ pushed'[e] <= written[e]
                           /\ e # d => pushed'[e] = pushed[e] /\ cursor'[e] = cursor[e]
                           /\ cursor'[e] = cursor[e] \/ cursor'[e] <= m
  <2>1. CASE status[h] = OK
    <3>1. /\ exchange[h].cursor \in Nat /\ exchange[h].cursor <= m
          /\ exchange[h].entries \subseteq Others(d)
          /\ pushed[d] + Len(request[h].blobs) \in 0..written[d]
      BY <1>0, <1>2, <1>3, <2>1, AnswerIsForDevice
    <3>2. Others(d) \subseteq Entry
      BY DEF Others, Attended, ServerInv, StoreInvariant, TypeOK
    <3>3. Sequences(exchange[h].entries) \subseteq Nat
      BY <3>1, <3>2 DEF Sequences, Entry
    <3>4. /\ applied' = [applied EXCEPT ![d] = @ \cup Sequences(exchange[h].entries)]
          /\ cursor' = cursor \/ cursor' = [cursor EXCEPT ![d] = exchange[h].cursor]
          /\ pushed' = pushed \/ pushed' = [pushed EXCEPT ![d] = @ + Len(request[h].blobs)]
      BY <1>0, <2>1 DEF Receive, ReceiveAndDie
    <3>5. /\ pushed' \in [Device -> Nat]
          /\ \A e \in Device : pushed'[e] <= written[e] /\ (e # d => pushed'[e] = pushed[e])
      BY <1>4, <3>1, <3>4
    <3>6. /\ cursor' \in [Device -> Nat]
          /\ \A e \in Device : /\ cursor'[e] = cursor[e] \/ cursor'[e] <= m
                               /\ e # d => cursor'[e] = cursor[e]
      BY <1>4, <3>1, <3>4
    <3>7. applied' \in [Device -> SUBSET Nat]
      BY <1>4, <3>3, <3>4
    <3> QED BY <3>5, <3>6, <3>7
  <2>2. CASE status[h] # OK
    BY <1>0, <1>4, <2>2 DEF Receive, ReceiveAndDie
  <2> QED BY <2>1, <2>2
<1>7. server' \in [Device -> Handler \cup {None}] /\ server'[d] = None
      /\ \A e \in Device \ {d} : server'[e] = server[e]
  BY <1>1, <1>4
<1>8. SystemTypeOK'
  <2>1. \A e, f \in Device : server'[e] = server'[f] => e = f \/ server'[e] = None
    BY <1>7 DEF Attended, DevicesInv, SystemTypeOK
  <2> QED BY <1>1, <1>4, <1>5, <1>6, <1>7, <2>1 DEF SystemTypeOK
<1>9. \A k \in Handler : CursorOK(k, m)'
  BY <1>2, CursorKept
<1>10. ASSUME NEW e \in Device PROVE WaitingOK(e)'
  <2>1. CASE e = d
    BY <1>7, <2>1 DEF WaitingOK
  <2>2. CASE e # d
    <3>1. WaitingOK(e)
      BY DEF Attended, DevicesInv
    <3>2. server[e] # None => server[e] \in Handler \ {h}
      BY <1>4, <2>2
    <3>3. /\ server'[e] = server[e] /\ pushed'[e] = pushed[e] /\ cursor'[e] = cursor[e]
          /\ written'[e] \in Nat /\ written[e] <= written'[e]
          /\ server[e] # None =>
                /\ request'[server[e]] = request[server[e]]
                /\ stage'[server[e]] \in {"append", "page", "touch", "answer"}
      BY <1>1, <1>2, <1>4, <1>6, <1>7, <2>2, <3>1, <3>2 DEF WaitingOK
    <3> QED BY <3>3, WaitingKept
  <2> QED BY <2>1, <2>2
<1> QED BY <1>6, <1>8, <1>9, <1>10, DevicesKept

LEMMA RestartKeepsDevices ==
    ASSUME NEW m \in Nat, Attended(m), ServerInv', LogGrows, Restart
    PROVE  DevicesInv(m)'
<1>1. /\ stage' = [h \in Handler |-> "free"] /\ server' = [d \in Device |-> None]
      /\ UNCHANGED <<written, pushed, cursor, applied>>
  BY DEF Restart, Restarted, ServerReset
<1>2. faults' \in 0..MaxFaults
  BY SystemAssumption DEF Restart, Fault, Attended, DevicesInv, SystemTypeOK
<1>3. SystemTypeOK'
  BY <1>1, <1>2 DEF Attended, DevicesInv, SystemTypeOK
<1>4. (\A h \in Handler : CursorOK(h, m)') /\ (\A d \in Device : WaitingOK(d)')
  BY <1>1 DEF CursorOK, Exchanged, WaitingOK
<1> QED BY <1>1, <1>3, <1>4, DevicesKept

\* Time passes, or nothing happens.
LEMMA IdleKeepsDevices ==
    ASSUME NEW m \in Nat, Attended(m), ServerInv', LogGrows, UNCHANGED deviceVars,
           UNCHANGED <<stage, request, exchange, status>>
    PROVE  DevicesInv(m)'
<1>1. SystemTypeOK'
  BY DEF deviceVars, Attended, DevicesInv, SystemTypeOK
<1>2. \A h \in Handler : CursorOK(h, m)'
  BY CursorKept
<1>3. ASSUME NEW d \in Device PROVE WaitingOK(d)'
  BY DEF deviceVars, Attended, DevicesInv, WaitingOK
<1> QED BY <1>1, <1>2, <1>3, DevicesKept DEF deviceVars

\* Every step of the system but a power cut's.
LEMMA AttendedStep ==
    ASSUME NEW m \in Nat, Attended(m), [SystemNext]_systemVars, ServerInv', LogGrows
    PROVE  DevicesInv(m)'
<1>1. ServerInv' /\ LogGrows
  OBVIOUS
<1>2. ASSUME NEW d \in Device, Write(d) \/ GiveUp(d) PROVE DevicesInv(m)'
  BY <1>1, <1>2, WriteKeepsDevices
<1>3. ASSUME NEW d \in Device, NEW h \in Handler, Exchange(d, h) PROVE DevicesInv(m)'
  BY <1>1, <1>3, ExchangeKeepsDevices
<1>4. ASSUME NEW d \in Device, Receive(d) \/ ReceiveAndDie(d) PROVE DevicesInv(m)'
  BY <1>1, <1>4, ReceiveKeepsDevices
<1>5. ASSUME NEW h \in Handler, Serve(h) PROVE DevicesInv(m)'
  <2>1. CASE Handle(h)
    BY <1>1, <1>5, <2>1, HandleKeepsDevices DEF Serve
  <2>2. CASE StoreStep(h)
    <3>1. UNCHANGED <<written, pushed, cursor, applied, server>> /\ faults' \in 0..MaxFaults
      BY <1>5 DEF Serve, deviceVars, Attended, DevicesInv, SystemTypeOK
    <3> QED BY <1>1, <2>2, <3>1, StoreStepKeepsDevices DEF StoreStep
  <2> QED BY <1>5, <2>1, <2>2 DEF Serve
<1>6. ASSUME NEW h \in Handler, Unread(h) \/ Manage(h) PROVE DevicesInv(m)'
  BY <1>1, <1>6, UnreadKeepsDevices, ManageKeepsDevices
<1>7. ASSUME NEW h \in Handler, CallFails(h) PROVE DevicesInv(m)'
  <2>1. faults' \in 0..MaxFaults
    BY <1>7, SystemAssumption DEF CallFails, Fault, Attended, DevicesInv, SystemTypeOK
  <2> QED BY <1>1, <1>7, <2>1, StoreStepKeepsDevices DEF CallFails, StoreFailure
<1>8. ASSUME Tick, UNCHANGED deviceVars PROVE DevicesInv(m)'
  BY <1>1, <1>8, IdleKeepsDevices DEF Tick
<1>9. ASSUME Restart PROVE DevicesInv(m)'
  BY <1>1, <1>9, RestartKeepsDevices
<1>10. ASSUME UNCHANGED systemVars PROVE DevicesInv(m)'
  BY <1>1, <1>10, IdleKeepsDevices DEF systemVars, allVars, serverVars
<1> QED BY <1>2, <1>3, <1>4, <1>5, <1>6, <1>7, <1>8, <1>9, <1>10 DEF SystemNext

\* What a step adds to what a device replayed was written by the others.
LEMMA AppliedAreOthers ==
    ASSUME Served, [SystemNext]_systemVars, NEW d \in Device
    PROVE  applied'[d] \subseteq applied[d] \cup Sequences(Others(d))
<1>1. applied \in [Device -> SUBSET Nat] /\ server \in [Device -> Handler \cup {None}]
  BY DEF Served, DevicesInv, SystemTypeOK
<1>2. ASSUME NEW e \in Device, Receive(e) \/ ReceiveAndDie(e)
      PROVE  applied'[d] \subseteq applied[d] \cup Sequences(Others(d))
  <2> DEFINE h == server[e]
  <2>1. server[e] # None /\ Finish(h) /\ stage[h] = "answer"
    BY <1>2 DEF Receive, ReceiveAndDie, Finish
  <2>2. applied' = applied \/ (status[h] = OK /\
            applied' = [applied EXCEPT ![e] = @ \cup Sequences(exchange[h].entries)])
    BY <1>2 DEF Receive, ReceiveAndDie
  <2>3. status[h] = OK => exchange[h].entries \subseteq Others(e)
    BY <2>1, ServedIsAttended, AnswerIsForDevice DEF Served
  <2>4. status[h] = OK => Sequences(exchange[h].entries) \subseteq Sequences(Others(e))
    BY <2>3 DEF Sequences
  <2> QED BY <1>1, <2>2, <2>4
<1>3. ASSUME ~ \E e \in Device : Receive(e) \/ ReceiveAndDie(e)
      PROVE  applied' = applied
  BY <1>3
  DEF SystemNext, Write, Exchange, GiveUp, Serve, Unread, Manage, CallFails, Restart, Restarted,
      ServerReset, systemVars, deviceVars
<1> QED BY <1>2, <1>3

\* The log grows with what is written, and the cursors stay inside it.
LEMMA LoggedNext ==
    ASSUME Logged, [SystemNext]_systemVars
    PROVE  Logged'
<1>1. ServerInv' /\ LogGrows
  BY LoggedIsServed, SystemKeepsServer
<1>2. lastSequence \in Nat /\ lastSequence <= MaxSequence /\ MaxSequence \in Nat
  BY BoundAssumption DEF Logged, ServerInv, StoreInvariant, TypeOK, TransactionFollowsLog
<1>3. PICK m \in Nat : m = lastSequence
  BY <1>2
<1>4. Attended(m)
  BY <1>2, <1>3 DEF Logged, Attended
<1>5. DevicesInv(m)'
  BY <1>1, <1>4, AttendedStep
<1>6. PICK n \in Nat : n = lastSequence' /\ m <= n
  BY <1>1, <1>3 DEF LogGrows, ServerInv, StoreInvariant, TypeOK
<1>7. DevicesInv(n)'
  BY <1>1, <1>5, <1>6, BoundRisesNext
<1> QED BY <1>1, <1>6, <1>7 DEF Logged, DevicesInv, CursorOK

LEMMA SystemNextPreserves == SystemInv /\ [SystemNext]_systemVars => SystemInv'
<1> SUFFICES ASSUME SystemInv, [SystemNext]_systemVars PROVE SystemInv'
  OBVIOUS
<1>1. Logged /\ Logged'
  BY LoggedNext DEF SystemInv, Logged
<1>2. LogGrows
  BY SystemIsServed, SystemKeepsServer
<1>3. ASSUME NEW d \in Device PROVE applied'[d] \subseteq Sequences(Others(d))'
  <2>1. applied[d] \subseteq Sequences(Others(d))
    BY DEF SystemInv, OnlyOthersReplayed
  <2>2. Others(d) \subseteq Others(d)'
    BY <1>2 DEF Others, LogGrows
  <2>3. Sequences(Others(d)) \subseteq Sequences(Others(d))'
    BY <2>2 DEF Sequences
  <2> QED BY <2>1, <2>3, SystemIsServed, AppliedAreOthers
<1> QED BY <1>1, <1>3 DEF Logged, SystemInv, OnlyOthersReplayed

LEMMA SystemInitEstablishes == SystemInit => SystemInv
<1> SUFFICES ASSUME SystemInit PROVE SystemInv
  OBVIOUS
<1>1. Init /\ ServerInvariant
  BY ServerInitEstablishes DEF SystemInit
<1>2. ServerInv
  <2>1. ResultsInvariant
    BY <1>1 DEF Init, ResultsInvariant, EmptyPageStays, QueriesAreOld, CursorIsAnEntry,
                HasMoreIsHonest
  <2> QED BY <1>1, <2>1, InitEstablishes DEF ServerInv
<1>3. SystemTypeOK
  BY SystemAssumption, LenProperties DEF SystemInit, SystemTypeOK
<1>4. lastSequence = 0 /\ \A h \in Handler : CursorOK(h, 0)
  BY <1>1 DEF SystemInit, ServerInit, Init, CursorOK, Exchanged
<1>5. \A d \in Device : WaitingOK(d) /\ cursor[d] <= lastSequence /\ applied[d] = {}
  BY <1>4 DEF SystemInit, WaitingOK
<1> QED BY <1>2, <1>3, <1>4, <1>5 DEF SystemInv, DevicesInv, OnlyOthersReplayed

-----------------------------------------------------------------------------
(* The theorems.                                                           *)

\* The server and its devices together, through every fault of either.
THEOREM SystemInvariant == SystemSpec => []SystemInv
BY SystemInitEstablishes, SystemNextPreserves, PTL DEF SystemSpec

\* Every variable of a device has its type, and no handler answers two devices.
THEOREM SystemTypeCorrect == SystemSpec => []SystemTypeOK
<1>1. SystemInv => SystemTypeOK
  BY DEF SystemInv, DevicesInv
<1> QED BY <1>1, SystemInvariant, PTL

\* What an answered sync sent is stored and what it was given has no gap, also
\* when the process was killed before and clients come and go
\* (server.go:184-190; PROTOCOL.md:91-93).
THEOREM SystemKeepsAnswers ==
    SystemSpec => [](ServerTypeOK /\ AcknowledgedPushIsStored /\ AnswerSkipsNothing)
<1>1. SystemInv => ServerTypeOK /\ AcknowledgedPushIsStored /\ AnswerSkipsNothing
  BY DEF SystemInv, ServerInv, ServerInvariant, ServerTypes, HandlerOK, ServerTypeOK,
         PushStored, BatchStored, AcknowledgedPushIsStored, PageKept, EmptyKept, AnswerSkipsNothing
<1> QED BY <1>1, SystemInvariant, PTL

\* No device is ever given its own entries or another dataset's
\* (PROTOCOL.md:141-143).
THEOREM OnlyOthersAreReplayed == SystemSpec => []OnlyOthersReplayed
<1>1. SystemInv => OnlyOthersReplayed
  BY DEF SystemInv, DevicesInv
<1> QED BY <1>1, SystemInvariant, PTL

LEMMA NewEntriesAbove ==
    ASSUME Logged, [SystemNext]_systemVars, NEW r \in entries' \ entries, NEW d \in Device
    PROVE  r.sequence > cursor[d]
<1>1. r.sequence > lastSequence
  BY LoggedIsServed, SystemKeepsServer DEF LogGrows
<1>2. cursor[d] \in Nat /\ cursor[d] <= lastSequence /\ lastSequence \in Nat
  BY DEF Logged, DevicesInv, SystemTypeOK, ServerInv, StoreInvariant, TypeOK
<1>3. r.sequence \in Nat
  BY LoggedIsServed, SystemKeepsServer DEF ServerInv, StoreInvariant, TypeOK, Entry
<1> QED BY <1>1, <1>2, <1>3

\* As long as the tables are those that were committed, a new entry lands above
\* every cursor: PowerReuse shows what a power cut does (schema.go:22-25).
THEOREM NewEntriesAreAboveCursors == SystemSpec => NewEntriesAboveCursors
<1>1. SystemInv /\ [SystemNext]_systemVars
        => [\A r \in entries' \ entries : \A d \in Device :
              (r.dataset = DatasetOf[d] /\ r.device # d) => r.sequence > cursor[d]]_systemVars
  BY NewEntriesAbove DEF SystemInv, Logged
<1> QED BY <1>1, SystemInvariant, PTL DEF SystemSpec, NewEntriesAboveCursors

\* A cursor moves when an answer is read, ...
LEMMA CursorMoves ==
    ASSUME Served, [SystemNext]_systemVars, NEW d \in Device, cursor'[d] # cursor[d]
    PROVE  Receive(d) /\ status[server[d]] = OK
<1>0. cursor \in [Device -> Nat]
  BY DEF Served, DevicesInv, SystemTypeOK
<1>1. \A e \in Device : Receive(e) => e = d /\ status[server[d]] = OK
  BY <1>0 DEF Receive
<1>2. ASSUME UNCHANGED cursor PROVE FALSE
  BY <1>2
<1> QED
  BY <1>1, <1>2
  DEF SystemNext, Write, Exchange, ReceiveAndDie, GiveUp, Serve, Unread, Manage, CallFails,
      Restart, Restarted, ServerReset, systemVars, deviceVars

\* What was replayed stays so.
LEMMA AppliedGrows ==
    ASSUME Served, [SystemNext]_systemVars, NEW d \in Device
    PROVE  applied[d] \subseteq applied'[d]
<1>0. applied \in [Device -> SUBSET Nat]
  BY DEF Served, DevicesInv, SystemTypeOK
<1>1. ASSUME NEW e \in Device, Receive(e) \/ ReceiveAndDie(e)
      PROVE  applied[d] \subseteq applied'[d]
  BY <1>0, <1>1 DEF Receive, ReceiveAndDie
<1>2. CASE UNCHANGED applied
  BY <1>2
<1> QED
  BY <1>1, <1>2
  DEF SystemNext, Write, Exchange, GiveUp, Serve, Unread, Manage, CallFails, Restart, Restarted,
      ServerReset, systemVars, deviceVars

\* ... and then past nothing that was there
\* when the device asked, however many requests run at a time.
LEMMA CursorPasses ==
    ASSUME Served, [SystemNext]_systemVars, NEW d \in Device, cursor'[d] # cursor[d]
    PROVE  /\ cursor[d] < cursor'[d]
           /\ \A r \in Others(d) : r.sequence \in (cursor[d] + 1)..cursor'[d] =>
                 \/ r.sequence \in applied'[d]
                 \/ /\ exchange[server[d]].entries = {}
                    /\ r.sequence > asOf[server[d]]
<1> DEFINE h == server[d]
<1>0. /\ cursor \in [Device -> Nat] /\ applied \in [Device -> SUBSET Nat]
      /\ server \in [Device -> Handler \cup {None}] /\ WaitingOK(d)
  BY DEF Served, DevicesInv, SystemTypeOK
<1>1. Receive(d) /\ status[h] = OK
  BY CursorMoves
<1>2. /\ h \in Handler /\ stage[h] = "answer" /\ request[h].cursor = cursor[d]
      /\ request[h].dataset = DatasetOf[d] /\ request[h].device = d /\ request[h].name = NameOf[d]
      /\ cursor'[d] = exchange[h].cursor
      /\ applied'[d] = applied[d] \cup Sequences(exchange[h].entries)
  BY <1>0, <1>1 DEF Receive, Finish, WaitingOK
<1>3. Exchanged(h)
  BY <1>1, <1>2, SystemAssumption DEF Exchanged, Syncing
<1>4. request[h].cursor <= exchange[h].cursor /\ exchange[h].cursor \in Nat
  BY <1>2, <1>3
  DEF Served, DevicesInv, CursorOK, ServerInv, ServerInvariant, ServerTypes, Page
<1>5. PageKept(h) /\ EmptyKept(h)
  BY <1>2 DEF Served, ServerInv, ServerInvariant, HandlerOK
<1>6. ASSUME NEW r \in Others(d), r.sequence \in (cursor[d] + 1)..cursor'[d]
      PROVE  \/ r.sequence \in applied'[d]
             \/ exchange[h].entries = {} /\ r.sequence > asOf[h]
  <2>1. r \in Pending(h)
    BY <1>0, <1>2, <1>4, <1>6 DEF Others, Pending, Matching
  <2>2. CASE exchange[h].entries = {}
    BY <1>3, <1>5, <2>1, <2>2 DEF EmptyKept
  <2>3. CASE exchange[h].entries # {}
    BY <1>2, <1>3, <1>5, <2>1, <2>3 DEF PageKept, Sequences
  <2> QED BY <2>2, <2>3
<1> QED BY <1>0, <1>2, <1>4, <1>6

\* Of what was there when a device asked it misses nothing, through every fault,
\* and its cursor never goes back (store.go:208-210, 244-246).
THEOREM CursorsPassNothingOld == SystemSpec => CursorPassesNothingOld
<1>1. SystemInv /\ [SystemNext]_systemVars =>
          [\A d \in Device : cursor'[d] # cursor[d] =>
              /\ cursor[d] < cursor'[d]
              /\ \A r \in Others(d) : r.sequence \in (cursor[d] + 1)..cursor'[d] =>
                    \/ r.sequence \in applied'[d]
                    \/ /\ exchange[server[d]].entries = {}
                       /\ r.sequence > asOf[server[d]]]_systemVars
  BY SystemIsServed, CursorPasses
<1> QED BY <1>1, SystemInvariant, PTL DEF SystemSpec, CursorPassesNothingOld

\* Only an empty page can lose an entry: before the first one that a device has
\* passed over is missed, the device read a page that found nothing, and the entry
\* was stored after the page's query and below the page's cursor.
THEOREM OnlyTheGapSkips ==
    SystemSpec =>
        [][NoEntrySkipped =>
              \/ NoEntrySkipped'
              \/ \E d \in Device :
                    /\ Receive(d) /\ exchange[server[d]].entries = {}
                    /\ \E r \in Others(d) : /\ asOf[server[d]] < r.sequence
                                            /\ r.sequence <= cursor'[d]]_systemVars
<1>1. ASSUME SystemInv, [SystemNext]_systemVars, NoEntrySkipped, ~NoEntrySkipped'
      PROVE  \E d \in Device :
                /\ Receive(d) /\ exchange[server[d]].entries = {}
                /\ \E r \in Others(d) : asOf[server[d]] < r.sequence /\ r.sequence <= cursor'[d]
  <2>0. PICK d \in Device :
            \E r \in Others(d)' : r.sequence <= cursor'[d] /\ r.sequence \notin applied'[d]
    BY <1>1 DEF NoEntrySkipped
  <2>1. PICK r \in Others(d)' : r.sequence <= cursor'[d] /\ r.sequence \notin applied'[d]
    BY <2>0
  <2>2. /\ cursor[d] \in Nat /\ cursor'[d] \in Nat /\ r.sequence \in Nat
        /\ applied[d] \subseteq applied'[d]
    <3>1. SystemInv'
      BY <1>1, SystemNextPreserves
    <3>2. r.sequence \in Nat
      BY <3>1 DEF Others, SystemInv, ServerInv, StoreInvariant, TypeOK, Entry
    <3> QED BY <1>1, <3>1, <3>2, SystemIsServed, AppliedGrows DEF SystemInv, DevicesInv, SystemTypeOK
  <2>3. CASE cursor'[d] = cursor[d]
    <3>1. CASE r \in entries
      <4>1. r \in Others(d)
        BY <3>1 DEF Others
      <4> QED BY <1>1, <2>1, <2>2, <2>3, <4>1 DEF NoEntrySkipped
    <3>2. CASE r \notin entries
      <4>1. r.sequence > cursor[d]
        BY <1>1, <3>2, NewEntriesAbove DEF Others, SystemInv, Logged
      <4> QED BY <2>1, <2>2, <2>3, <4>1
    <3> QED BY <3>1, <3>2
  <2>4. CASE cursor'[d] # cursor[d]
    <3>1. Receive(d)
      BY <1>1, <2>4, SystemIsServed, CursorMoves
    <3>2. r \in Others(d)
      BY <3>1 DEF Receive, Finish, Return, tables, Others
    <3>3. r.sequence \in (cursor[d] + 1)..cursor'[d]
      BY <1>1, <2>1, <2>2, <3>2 DEF NoEntrySkipped
    <3>4. exchange[server[d]].entries = {} /\ r.sequence > asOf[server[d]]
      BY <1>1, <2>1, <2>4, <3>2, <3>3, SystemIsServed, CursorPasses
    <3>5. asOf[server[d]] \in Nat
      <4>1. server[d] \in Handler
        BY <1>1, <3>1 DEF Receive, SystemInv, DevicesInv, SystemTypeOK
      <4> QED BY <1>1, <4>1 DEF SystemInv, ServerInv, ServerInvariant, ServerTypes
    <3> QED BY <2>1, <2>2, <3>1, <3>2, <3>4, <3>5
  <2> QED BY <2>3, <2>4
<1>2. SystemInv /\ [SystemNext]_systemVars =>
        [NoEntrySkipped =>
              \/ NoEntrySkipped'
              \/ \E d \in Device :
                    /\ Receive(d) /\ exchange[server[d]].entries = {}
                    /\ \E r \in Others(d) : /\ asOf[server[d]] < r.sequence
                                            /\ r.sequence <= cursor'[d]]_systemVars
  BY <1>1
<1> QED BY <1>2, SystemInvariant, PTL DEF SystemSpec

-----------------------------------------------------------------------------
(* What a device pushed.                                                   *)

\* A device writes nothing twice: what is stored tells which write it was.
WritesDiffer ==
    \A d \in Device : \A i, j \in 1..Len(Writes[d]) : Writes[d][i] = Writes[d][j] => i = j

\* What h was sent is what its device wrote after the first a of its writes.
SentFrom(h, a) ==
    /\ request[h].device \in Device
    /\ a + Len(request[h].blobs) <= written[request[h].device]
    /\ \A i \in 1..Len(request[h].blobs) :
          request[h].blobs[i] = Writes[request[h].device][a + i]

\* A batch leaves no gap above what was acknowledged, and that of the sync a
\* device waits for begins right there.
OutboxInv ==
    /\ \A h \in Handler : Syncing(h) =>
          \E a \in Nat : SentFrom(h, a) /\ a <= pushed[request[h].device]
    /\ \A d \in Device : server[d] # None => SentFrom(server[d], pushed[d])

\* Every row of a device is one of its writes.
RowsWritten ==
    \A r \in entries : r.device \in Device /\ \E i \in 1..written[r.device] :
        r.blob = Writes[r.device][i]

StoredInv == OutboxInv /\ RowsWritten /\ StoredAsWritten

\* What a device wrote, and what was acknowledged of it, only grows.
LEMMA OutboxGrows ==
    ASSUME SystemInv, [SystemNext]_systemVars, NEW d \in Device
    PROVE  /\ pushed[d] \in Nat /\ pushed'[d] \in Nat /\ pushed[d] <= pushed'[d]
           /\ written[d] \in Nat /\ written'[d] \in Nat /\ written[d] <= written'[d]
           /\ \/ written' = written
              \/ \E e \in Device : Write(e)
           /\ server'[d] # None => pushed'[d] = pushed[d]
<1>0. /\ pushed \in [Device -> Nat] /\ written \in [Device -> Nat]
      /\ server \in [Device -> Handler \cup {None}]
  BY DEF SystemInv, DevicesInv, SystemTypeOK
<1>1. ASSUME NEW e \in Device, Receive(e)
      PROVE  /\ pushed[d] <= pushed'[d] /\ pushed'[d] \in Nat /\ written' = written
             /\ server'[d] # None => pushed'[d] = pushed[d]
  <2>1. server[e] \in Handler
    BY <1>0, <1>1 DEF Receive
  <2>2. Len(request[server[e]].blobs) \in Nat
    <3>1. request[server[e]].blobs \in Batches
      BY <2>1 DEF SystemInv, ServerInv, ServerInvariant, ServerTypes, Request
    <3> QED BY <3>1, BatchIsSequence
  <2>3. /\ pushed' = pushed \/ pushed' = [pushed EXCEPT ![e] = @ + Len(request[server[e]].blobs)]
        /\ server' = [server EXCEPT ![e] = None] /\ written' = written
    BY <1>1 DEF Receive
  <2> QED BY <1>0, <2>2, <2>3
<1>2. ASSUME NEW e \in Device, Write(e)
      PROVE  pushed' = pushed /\ written'[d] \in Nat /\ written[d] <= written'[d]
  <2>1. pushed' = pushed /\ written' = [written EXCEPT ![e] = @ + 1]
    BY <1>2 DEF Write
  <2> QED BY <1>0, <2>1
<1>3. \/ \E e \in Device : Receive(e) \/ Write(e)
      \/ UNCHANGED <<pushed, written>>
  BY DEF SystemNext, Exchange, ReceiveAndDie, GiveUp, Serve, Unread, Manage, CallFails, Restart,
         Restarted, ServerReset, deviceVars, systemVars
<1>4. written[d] \in Nat /\ pushed[d] \in Nat
  BY <1>0
<1>5. CASE \E e \in Device : Write(e)
  <2>1. pushed' = pushed /\ written'[d] \in Nat /\ written[d] <= written'[d]
    BY <1>2, <1>5
  <2> QED BY <1>4, <1>5, <2>1
<1>6. CASE UNCHANGED <<pushed, written>>
  BY <1>4, <1>6
<1> QED BY <1>1, <1>3, <1>4, <1>5, <1>6

\* A sync is served from when a device sends it until it is answered.
LEMMA SyncComes ==
    ASSUME SystemInv, [SystemNext]_systemVars, NEW h \in Handler, Syncing(h)'
    PROVE  \/ request'[h] = request[h] /\ Syncing(h)
           \/ \E d \in Device : Exchange(d, h)
<1>0. request \in [Handler -> Request] /\ request'[h].name # None
  BY DEF SystemInv, ServerInv, ServerInvariant, ServerTypes, Syncing
<1>1. CASE UNCHANGED request
  BY <1>1 DEF Syncing
<1>2. ASSUME NEW k \in Handler, NEW r, r.name = None, request' = [request EXCEPT ![k] = r]
      PROVE  request'[h] = request[h] /\ Syncing(h)
  BY <1>0, <1>2 DEF Syncing
<1>3. NoRequest.name = None
  BY DEF NoRequest
<1>4. ASSUME NEW k \in Handler, Manage(k)
      PROVE  request'[h] = request[h] /\ Syncing(h)
  <2>1. PICK r : r.name = None /\ request' = [request EXCEPT ![k] = r]
    BY <1>4 DEF Manage, StartDevices, StartRemove, NoRequest
  <2> QED BY <1>2, <2>1
<1>5. ASSUME NEW k \in Handler, Finish(k)
      PROVE  request'[h] = request[h] /\ Syncing(h)
  BY <1>2, <1>3, <1>5 DEF Finish
<1>6. ASSUME NEW d \in Device, NEW k \in Handler, Exchange(d, k), k # h
      PROVE  request'[h] = request[h] /\ Syncing(h)
  BY <1>0, <1>6 DEF Exchange, StartSync, Syncing
<1>7. CASE Restart
  BY <1>0, <1>3, <1>7 DEF Restart, Restarted, ServerReset
<1>8. ASSUME NEW d \in Device, Receive(d) \/ ReceiveAndDie(d)
      PROVE  request'[h] = request[h] /\ Syncing(h)
  <2>1. server[d] \in Handler /\ Finish(server[d])
    BY <1>8 DEF Receive, ReceiveAndDie, SystemInv, DevicesInv, SystemTypeOK
  <2> QED BY <1>5, <2>1
<1>9. ASSUME NEW k \in Handler, Serve(k) \/ CallFails(k)
      PROVE  request' = request
  BY <1>9
  DEF Serve, CallFails, Handle, StoreStep, StoreFailure, Pull, Record, AnswerSync,
      AnswerDevices, AnswerRemove, AnswerFailure, Answer, serverVars
<1> QED
  BY <1>1, <1>4, <1>5, <1>6, <1>7, <1>8, <1>9
  DEF SystemNext, Write, GiveUp, Unread, Tick, systemVars, allVars, serverVars

\* What a device sends follows what was acknowledged.
LEMMA ExchangeSends ==
    ASSUME SystemInv, [SystemNext]_systemVars, NEW d \in Device, NEW h \in Handler,
           Exchange(d, h)
    PROVE  /\ request'[h].device = d /\ server'[d] = h /\ written'[d] = written[d]
           /\ pushed[d] + Len(request'[h].blobs) = written[d]
           /\ \E a \in Nat : a = pushed[d] /\ a = pushed'[d] /\ SentFrom(h, a)'
<1> DEFINE out == SubSeq(Writes[d], pushed[d] + 1, written[d])
<1>0. /\ pushed[d] \in Nat /\ written[d] \in Nat /\ pushed[d] <= written[d]
      /\ written[d] <= Len(Writes[d]) /\ server \in [Device -> Handler \cup {None}]
      /\ request \in [Handler -> Request] /\ Writes[d] \in Seq(Blob)
  BY SystemAssumption
  DEF SystemInv, DevicesInv, SystemTypeOK, ServerInv, ServerInvariant, ServerTypes
<1>1. /\ pushed[d] + Len(out) = written[d]
      /\ \A i \in 1..Len(out) : out[i] = Writes[d][pushed[d] + i]
  <2>1. \A i \in pushed[d] + 1 .. written[d] : Writes[d][i] \in Blob
    BY <1>0, ElementOfSeq
  <2>2. /\ Len(out) = IF pushed[d] + 1 <= written[d] THEN written[d] - (pushed[d] + 1) + 1 ELSE 0
        /\ \A i \in 1..written[d] - (pushed[d] + 1) + 1 : out[i] = Writes[d][pushed[d] + 1 + i - 1]
    <3>1. pushed[d] + 1 \in Int /\ written[d] \in Int
      BY <1>0
    <3> QED BY <2>1, <3>1, SubSeqProperties
  <2> HIDE DEF out
  <2>3. Len(out) = written[d] - pushed[d]
    BY <1>0, <2>2
  <2>4. ASSUME NEW i \in 1..Len(out)
        PROVE  out[i] = Writes[d][pushed[d] + i]
    <3>1. i \in 1..written[d] - (pushed[d] + 1) + 1 /\ pushed[d] + 1 + i - 1 = pushed[d] + i
      BY <1>0, <2>3
    <3> QED BY <2>2, <3>1
  <2> QED BY <1>0, <2>3, <2>4
<1>2. /\ request'[h].device = d /\ request'[h].blobs = out /\ server'[d] = h
      /\ written' = written /\ pushed' = pushed
  BY <1>0 DEF Exchange, StartSync
<1> HIDE DEF out
<1>3. pushed[d] + Len(out) <= written'[d]
  BY <1>0, <1>1, <1>2
<1>4. ASSUME NEW a \in Nat, a = pushed[d] PROVE SentFrom(h, a)'
  BY <1>1, <1>2, <1>3, <1>4 DEF SentFrom
<1>5. pushed'[d] = pushed[d]
  BY <1>2
<1> QED BY <1>0, <1>1, <1>2, <1>4, <1>5

LEMMA OutboxKept ==
    ASSUME SystemInv, SystemInv', [SystemNext]_systemVars, OutboxInv
    PROVE  OutboxInv'
<1>1. ASSUME NEW h \in Handler, NEW a \in Nat, SentFrom(h, a), Syncing(h),
             request'[h] = request[h]
      PROVE  SentFrom(h, a)'
  <2>1. request[h].device \in Device
    BY <1>1 DEF SentFrom
  <2>2. Len(request[h].blobs) \in Nat
    <3>1. request[h].blobs \in Batches
      BY DEF SystemInv, ServerInv, ServerInvariant, ServerTypes, Request
    <3> QED BY <3>1, BatchIsSequence
  <2>3. a + Len(request[h].blobs) <= written'[request[h].device]
    BY <1>1, <2>1, <2>2, OutboxGrows DEF SentFrom
  <2> QED BY <1>1, <2>3 DEF SentFrom
<1>2. ASSUME NEW h \in Handler, Syncing(h)'
      PROVE  \E a \in Nat : SentFrom(h, a)' /\ a <= pushed'[request'[h].device]
  <2>1. CASE request'[h] = request[h] /\ Syncing(h)
    <3>1. PICK a \in Nat : SentFrom(h, a) /\ a <= pushed[request[h].device]
      BY <2>1 DEF OutboxInv
    <3>2. request[h].device \in Device
      BY <3>1 DEF SentFrom
    <3>3. a <= pushed'[request[h].device]
      BY <3>1, <3>2, OutboxGrows
    <3>4. SentFrom(h, a)'
      BY <1>1, <2>1, <3>1
    <3> QED BY <2>1, <3>3, <3>4
  <2>2. ASSUME NEW d \in Device, Exchange(d, h)
        PROVE  \E a \in Nat : SentFrom(h, a)' /\ a <= pushed'[request'[h].device]
    <3>1. PICK a \in Nat : a = pushed'[d] /\ SentFrom(h, a)' /\ request'[h].device = d
      BY <2>2, ExchangeSends
    <3> QED BY <3>1
  <2> QED BY <1>2, <2>1, <2>2, SyncComes
<1>3. ASSUME NEW d \in Device, server'[d] # None
      PROVE  SentFrom(server[d], pushed[d])'
  <2>0. /\ server \in [Device -> Handler \cup {None}] /\ server'[d] \in Handler
        /\ pushed'[d] = pushed[d] /\ pushed[d] \in Nat
    BY <1>3, OutboxGrows DEF SystemInv, DevicesInv, SystemTypeOK
  <2>1. PICK h \in Handler : h = server'[d]
    BY <2>0
  <2>2. Syncing(h)'
    BY <1>3, <2>1, SystemAssumption DEF Syncing, SystemInv, DevicesInv, WaitingOK
  <2>3. server'[d] = server[d] \/ \E k \in Handler : Exchange(d, k)
    <3>1. ASSUME NEW e \in Device, NEW k \in Handler, Exchange(e, k), e # d
          PROVE  server'[d] = server[d]
      BY <2>0, <3>1 DEF Exchange
    <3>2. ASSUME NEW e \in Device, Receive(e) \/ ReceiveAndDie(e) \/ GiveUp(e)
          PROVE  server'[d] = server[d]
      BY <1>3, <2>0, <3>2 DEF Receive, ReceiveAndDie, GiveUp
    <3>3. CASE Restart
      BY <1>3, <3>3 DEF Restart, Restarted
    <3> QED
      BY <3>1, <3>2, <3>3
      DEF SystemNext, Write, Serve, Unread, Manage, CallFails, deviceVars, systemVars
  <2>4. CASE \E e \in Device, k \in Handler : Exchange(e, k) /\ (k = h \/ e = d)
    <3>1. PICK e \in Device, k \in Handler : Exchange(e, k) /\ (k = h \/ e = d)
      BY <2>4
    <3>2. PICK a \in Nat : a = pushed[e] /\ a = pushed'[e] /\ SentFrom(k, a)' /\ server'[e] = k
      BY <3>1, ExchangeSends
    <3>3. e = d /\ k = h
      BY <1>3, <2>1, <3>1, <3>2 DEF SystemInv, DevicesInv, SystemTypeOK
    <3> QED BY <2>1, <3>2, <3>3 DEF SentFrom
  <2>5. CASE server'[d] = server[d] /\ request'[h] = request[h] /\ Syncing(h)
    <3>1. PICK a \in Nat : a = pushed[d] /\ SentFrom(h, a)
      BY <1>3, <2>0, <2>1, <2>5 DEF OutboxInv
    <3>2. SentFrom(h, a)'
      BY <1>1, <2>5, <3>1
    <3> QED BY <2>0, <2>1, <3>1, <3>2 DEF SentFrom
  <2> QED BY <2>2, <2>3, <2>4, <2>5, SyncComes
<1> QED BY <1>2, <1>3 DEF OutboxInv

\* Only a commit adds entries, and it does nothing else to a device.
LEMMA OnlyCommitsAdd ==
    ASSUME SystemInv, [SystemNext]_systemVars
    PROVE  \/ UNCHANGED <<entries, lastSequence>>
           \/ \E h \in Handler : CommitAppend(h)
<1>1. CASE Restart
  BY <1>1 DEF Restart, tables
<1>2. CASE ~Restart
  <2>1. [Next]_vars
    <3>1. [ServerNext]_allVars
      BY <1>2, SystemIsServed, SystemStepIsServerStep
    <3>2. ServerInvariant
      BY SMTT(30) DEF SystemInv, ServerInv
    <3> QED BY <3>1, <3>2, ServerStepIsStoreStep
  <2>2. ASSUME NEW h \in Handler, EntryCalls(h) \/ DeviceCalls(h)
        PROVE  UNCHANGED <<entries, lastSequence>>
    BY <2>2 DEF EntryCalls, DeviceCalls, CallAppend, CallPage, CallTouchDevice, CallDevices,
                CallRemoveDevice, Call, tables
  <2>3. ASSUME NEW h \in Handler, Acquires(h) PROVE UNCHANGED <<entries, lastSequence>>
    BY <2>3 DEF Acquires, BeginAppend, QueryPage, ReadHighWater, TouchDevice, ListDevices,
                RemoveDevice, tables
  <2>4. ASSUME NEW h \in Handler, Return(h) \/ InsertEntry(h) \/ ReadPage(h)
        PROVE  UNCHANGED <<entries, lastSequence>>
    BY <2>4 DEF Return, InsertEntry, ReadPage, PageRead, tables
  <2>5. ASSUME NEW h \in Handler, SequencesExhausted(h) \/ Fails(h)
        PROVE  UNCHANGED <<entries, lastSequence>>
    BY <2>5 DEF SequencesExhausted, Fails, FailCall, FailAfterwards, Abort, tables
  <2>6. CASE UNCHANGED vars
    BY <2>6 DEF vars, tables
  <2> QED BY <2>1, <2>2, <2>3, <2>4, <2>5, <2>6 DEF Next, Step, Proceeds
<1> QED BY <1>1, <1>2

LEMMA CommitAlone ==
    ASSUME SystemInv, [SystemNext]_systemVars, NEW h \in Handler, CommitAppend(h)
    PROVE  UNCHANGED <<written, pushed>>
<1>0. pc \in [Handler -> {"idle"} \cup Running \cup Returned]
  BY DEF SystemInv, ServerInv, StoreInvariant, TypeOK
<1>1. pc[h] = "insert" /\ pc'[h] = "appended"
  BY <1>0 DEF CommitAppend
<1>2. ASSUME NEW d \in Device, Receive(d) PROVE FALSE
  <2>1. Return(server[d])
    BY <1>2 DEF Receive, Finish
  <2>2. pc' = [pc EXCEPT ![server[d]] = "idle"]
    BY <2>1 DEF Return
  <2> QED BY <1>0, <1>1, <2>2
<1>3. ASSUME NEW d \in Device, Write(d) PROVE FALSE
  BY <1>1, <1>3 DEF Write, allVars, vars
<1> QED
  BY <1>2, <1>3
  DEF SystemNext, Exchange, ReceiveAndDie, GiveUp, Serve, Unread, Manage, CallFails, Restart,
      Restarted, ServerReset, deviceVars, systemVars

\* A commit of h stores what its device wrote after the first a of its writes.
CommitsFrom(h, a) ==
    LET d == request[h].device
        n == Len(request[h].blobs)
    IN  /\ a <= pushed[d] /\ a + n <= written[d]
        /\ entries' = entries \cup
              {Row(lastSequence + i, args[h].dataset, d, Writes[d][a + i]) : i \in 1..n}

\* A commit is the push of a sync.
LEMMA CommitIsOfSync ==
    ASSUME SystemInv, NEW h \in Handler, CommitAppend(h)
    PROVE  /\ Syncing(h) /\ stage[h] = "append"
           /\ args[h].device = request[h].device /\ args[h].blobs = request[h].blobs
<1>0. HandlerOK(h) /\ stage \in [Handler -> Stages]
  BY DEF SystemInv, ServerInv, ServerInvariant, ServerTypes
<1>1. pc[h] = "insert"
  BY DEF CommitAppend
<1>2. stage[h] = "append"
  BY <1>0, <1>1 DEF HandlerOK, Stages, CallsOf
<1> QED BY <1>0, <1>1, <1>2, SystemAssumption DEF HandlerOK, ArgumentsMatch, Requests, Syncing

\* What a commit stores, told from any place where its batch stands.
LEMMA CommitFollows ==
    ASSUME SystemInv, NEW h \in Handler, CommitAppend(h),
           NEW a \in Nat, SentFrom(h, a), a <= pushed[request[h].device]
    PROVE  CommitsFrom(h, a)
<1>0. StoreInvariant
  BY DEF SystemInv, ServerInv
<1>1. /\ pc[h] = "insert" /\ Inserted = Len(args[h].blobs) /\ entries' = entries \cup txEntries
  BY DEF CommitAppend
<1>2. args[h].device = request[h].device /\ args[h].blobs = request[h].blobs
  BY CommitIsOfSync
<1> DEFINE d == request[h].device
           n == Len(request[h].blobs)
<1>3. txEntries = {Row(lastSequence + i, args[h].dataset, d, request[h].blobs[i]) : i \in 1..n}
  BY SMTT(30), <1>0, <1>1, <1>2 DEF StoreInvariant, TransactionFollowsLog
<1>4. \A i \in 1..n : request[h].blobs[i] = Writes[d][a + i]
  BY DEF SentFrom
<1>5. txEntries = {Row(lastSequence + i, args[h].dataset, d, Writes[d][a + i]) : i \in 1..n}
  BY <1>3, <1>4
<1>6. a + n <= written[d]
  BY DEF SentFrom
<1> QED BY <1>1, <1>5, <1>6 DEF CommitsFrom

\* A commit stores a part of a device's writes that begins where nothing before
\* it is missing.
LEMMA CommitStores ==
    ASSUME SystemInv, OutboxInv, NEW h \in Handler, CommitAppend(h)
    PROVE  /\ request[h].device \in Device /\ Len(request[h].blobs) \in Nat
           /\ \E a \in Nat : SentFrom(h, a) /\ CommitsFrom(h, a)
<1>1. PICK a \in Nat : SentFrom(h, a) /\ a <= pushed[request[h].device]
  BY CommitIsOfSync DEF OutboxInv
<1>2. request[h].device \in Device /\ Len(request[h].blobs) \in Nat
  <2>1. request[h].blobs \in Batches
    BY DEF SystemInv, ServerInv, ServerInvariant, ServerTypes, Request
  <2> QED BY <1>1, <2>1, BatchIsSequence DEF SentFrom
<1> QED BY <1>1, <1>2, CommitFollows

\* Where a write comes to be stored by a commit.
LEMMA CommitPlaces ==
    ASSUME SystemInv, WritesDiffer, NEW h \in Handler, NEW a \in Nat, CommitsFrom(h, a),
           request[h].device \in Device, Len(request[h].blobs) \in Nat,
           NEW e \in Device, NEW j \in 1..Len(Writes[e])
    PROVE  Stored(e, j)' = Stored(e, j) \cup
              (IF e = request[h].device /\ j \in a + 1 .. a + Len(request[h].blobs)
               THEN {lastSequence + (j - a)} ELSE {})
<1> DEFINE d == request[h].device
           n == Len(request[h].blobs)
           new == {Row(lastSequence + i, args[h].dataset, d, Writes[d][a + i]) : i \in 1..n}
<1>1. entries' = entries \cup new /\ a + n <= written[d] /\ d \in Device /\ n \in Nat
  BY DEF CommitsFrom
<1>2. written[d] \in Nat /\ written[d] <= Len(Writes[d]) /\ Len(Writes[d]) \in Nat
  BY <1>1, SystemAssumption, LenProperties DEF SystemInv, DevicesInv, SystemTypeOK
<1> DEFINE here == {r \in new : r.device = e /\ r.blob = Writes[e][j]}
<1>3. Stored(e, j)' = Stored(e, j) \cup Sequences(here)
  <2> HIDE DEF new
  <2> QED BY <1>1 DEF Stored, Sequences, here
<1>4. CASE e = d /\ j \in a + 1 .. a + n
  <2>1. ASSUME NEW i \in 1..n, Writes[e][a + i] = Writes[e][j] PROVE i = j - a
    <3>1. a + i \in 1..Len(Writes[e])
      <4> HIDE DEF d, n
      <4>1. a + n <= Len(Writes[e])
        BY <1>1, <1>2, <1>4
      <4> QED BY <1>1, <1>2, <1>4, <4>1
    <3>2. a + i = j
      BY <2>1, <3>1 DEF WritesDiffer
    <3> QED BY <3>2
  <2>2. j - a \in 1..n /\ a + (j - a) = j
    BY <1>1, <1>4
  <2>3. here = {Row(lastSequence + (j - a), args[h].dataset, d, Writes[d][j])}
    <3>1. ASSUME NEW r \in here
          PROVE  r = Row(lastSequence + (j - a), args[h].dataset, d, Writes[d][j])
      <4>1. PICK i \in 1..n : r = Row(lastSequence + i, args[h].dataset, d, Writes[d][a + i])
        OBVIOUS
      <4>2. r.blob = Writes[d][a + i] /\ r.blob = Writes[e][j]
        BY <4>1 DEF Row
      <4> QED BY <1>4, <2>1, <2>2, <4>1, <4>2
    <3>2. Row(lastSequence + (j - a), args[h].dataset, d, Writes[d][j]) \in here
      BY <1>4, <2>2 DEF Row
    <3> HIDE DEF here
    <3> QED BY <3>1, <3>2
  <2>4. Sequences(here) = {lastSequence + (j - a)}
    <3> HIDE DEF here
    <3> QED BY <2>3 DEF Sequences, Row
  <2> HIDE DEF here, d, n
  <2> QED BY <1>3, <1>4, <2>4 DEF d, n
<1>5. CASE ~(e = d /\ j \in a + 1 .. a + n)
  <2>1. ASSUME NEW r \in here PROVE FALSE
    <3>1. PICK i \in 1..n : r = Row(lastSequence + i, args[h].dataset, d, Writes[d][a + i])
      OBVIOUS
    <3>2. e = d /\ Writes[e][a + i] = Writes[e][j]
      BY <3>1 DEF Row
    <3>3. a + i \in 1..Len(Writes[e]) /\ a + i \in a + 1 .. a + n
      <4> HIDE DEF d, n, new, here
      <4>1. i \in 1..n /\ a + n <= Len(Writes[d])
        BY <1>1, <1>2
      <4> QED BY SMTT(30), <1>1, <1>2, <3>2, <4>1
    <3>4. a + i = j
      BY <3>2, <3>3 DEF WritesDiffer
    <3> QED BY <1>5, <3>2, <3>3, <3>4
  <2>2. Sequences(here) = {}
    BY <2>1 DEF Sequences
  <2> HIDE DEF here, d, n
  <2> QED BY <1>3, <1>5, <2>2 DEF d, n
<1> QED BY <1>4, <1>5

LEMMA StoredInLog ==
    ASSUME SystemInv, NEW d, NEW i
    PROVE  Stored(d, i) \subseteq 1..lastSequence
  BY DEF Stored, Sequences, SystemInv, ServerInv, StoreInvariant, EntriesNumbered

\* A batch comes after all that is stored, and in the order it was written.
LEMMA CommitKeepsOrder ==
    ASSUME SystemInv, SystemInv', [SystemNext]_systemVars, WritesDiffer, StoredInv,
           NEW h \in Handler, CommitAppend(h)
    PROVE  RowsWritten' /\ StoredAsWritten'
<1> DEFINE d == request[h].device
           n == Len(request[h].blobs)
<1>1. d \in Device /\ n \in Nat /\ written' = written /\ pushed' = pushed
  BY CommitStores, CommitAlone DEF StoredInv
<1>2. PICK a \in Nat : CommitsFrom(h, a)
  BY CommitStores DEF StoredInv
<1>3. /\ a <= pushed[d] /\ a + n <= written[d] /\ lastSequence \in Nat
      /\ \A e \in Device : /\ pushed[e] \in Nat /\ written[e] \in Nat /\ pushed[e] <= written[e]
                           /\ written[e] <= Len(Writes[e]) /\ Len(Writes[e]) \in Nat
  BY <1>2, SystemAssumption, LenProperties
  DEF CommitsFrom, SystemInv, DevicesInv, SystemTypeOK, ServerInv, StoreInvariant, TypeOK
<1> HIDE DEF d, n
<1> DEFINE new(e, j) == IF e = d /\ j \in a + 1 .. a + n THEN {lastSequence + (j - a)} ELSE {}
<1>4. \A e \in Device : \A j \in 1..written[e] : Stored(e, j)' = Stored(e, j) \cup new(e, j)
  <2>1. \A e \in Device : \A j \in 1..written[e] : j \in 1..Len(Writes[e])
    BY <1>3
  <2> QED BY <1>1, <1>2, <2>1, CommitPlaces DEF d, n
<1>5. \A e, j : Stored(e, j) \subseteq 1..lastSequence
  BY StoredInLog
<1>6. RowsWritten'
  <2> SUFFICES ASSUME NEW r \in entries'
               PROVE  r.device \in Device /\ \E i \in 1..written[r.device] :
                         r.blob = Writes[r.device][i]
    BY <1>1 DEF RowsWritten
  <2>1. CASE r \in entries
    BY <2>1 DEF StoredInv, RowsWritten
  <2>2. CASE r \notin entries
    <3>1. PICK i \in 1..n : r = Row(lastSequence + i, args[h].dataset, d, Writes[d][a + i])
      BY <1>2, <2>2 DEF CommitsFrom, d, n
    <3>2. r.device = d /\ r.blob = Writes[d][a + i] /\ a + i \in 1..written[d]
      BY <1>1, <1>3, <3>1 DEF Row
    <3> QED BY <1>1, <3>2
  <2> QED BY <2>1, <2>2
<1>7. ASSUME NEW e \in Device, NEW i \in 1..pushed[e] PROVE Stored(e, i)' # {}
  <2>1. i \in 1..written[e] /\ Stored(e, i) # {}
    BY <1>3 DEF StoredInv, StoredAsWritten
  <2> QED BY <1>4, <2>1
<1>8. ASSUME NEW e \in Device, NEW i \in 1..written[e], NEW j \in 1..written[e],
             i < j, Stored(e, j)' # {}
      PROVE  \E s \in Stored(e, i)' : \A t \in Stored(e, j)' : s < t
  <2>1. /\ Stored(e, i)' = Stored(e, i) \cup new(e, i)
        /\ Stored(e, j)' = Stored(e, j) \cup new(e, j)
        /\ \A s \in Stored(e, i) \cup Stored(e, j) : s \in Nat /\ s <= lastSequence
        /\ \A t \in new(e, j) : t > lastSequence
    <3>1. Stored(e, i)' = Stored(e, i) \cup new(e, i) /\ Stored(e, j)' = Stored(e, j) \cup new(e, j)
      <4>1. i \in 1..Len(Writes[e]) /\ j \in 1..Len(Writes[e])
        BY <1>3
      <4> QED BY <1>4, <4>1
    <3>2. \A s \in Stored(e, i) \cup Stored(e, j) : s \in Nat /\ s <= lastSequence
      BY <1>3, <1>5
    <3>3. \A t \in new(e, j) : t > lastSequence
      BY <1>1, <1>3
    <3> QED BY <3>1, <3>2, <3>3
  <2>2. CASE Stored(e, j) # {}
    <3>1. PICK s \in Stored(e, i) : \A t \in Stored(e, j) : s < t
      BY <1>8, <2>2 DEF StoredInv, StoredAsWritten
    <3>2. \A t \in Stored(e, j)' : s < t
      BY <1>3, <2>1, <3>1
    <3> QED BY <2>1, <3>1, <3>2
  <2>3. CASE Stored(e, j) = {} /\ Stored(e, i) # {}
    BY <1>3, <2>1, <2>3
  <2>4. CASE Stored(e, j) = {} /\ Stored(e, i) = {}
    <3>1. e = d /\ j \in a + 1 .. a + n
      BY <1>8, <2>1, <2>4
    <3>2. ~(i \in 1..pushed[e])
      BY <2>4 DEF StoredInv, StoredAsWritten
    <3>3. i \in a + 1 .. a + n
      BY <1>1, <1>3, <1>8, <3>1, <3>2
    <3>4. /\ Stored(e, i)' = {lastSequence + (i - a)}
          /\ Stored(e, j)' = {lastSequence + (j - a)}
      BY <2>1, <2>4, <3>1, <3>3
    <3> QED BY <1>1, <1>3, <1>8, <3>3, <3>4
  <2> QED BY <2>2, <2>3, <2>4
<1>9. StoredAsWritten'
  BY <1>1, <1>7, <1>8 DEF StoredAsWritten
<1> QED BY <1>6, <1>9

\* What is acknowledged was stored when the device was answered.
LEMMA AcknowledgedIsStored ==
    ASSUME SystemInv, [SystemNext]_systemVars, StoredInv, entries' = entries,
           NEW d \in Device, NEW i \in 1..pushed'[d]
    PROVE  Stored(d, i)' # {}
<1>0. /\ pushed \in [Device -> Nat] /\ written[d] \in Nat /\ pushed[d] <= written[d]
      /\ server \in [Device -> Handler \cup {None}]
  BY DEF SystemInv, DevicesInv, SystemTypeOK
<1>1. Stored(d, i)' = Stored(d, i)
  BY DEF Stored
<1>2. CASE pushed'[d] = pushed[d]
  BY <1>0, <1>1, <1>2 DEF StoredInv, StoredAsWritten
<1>3. ASSUME NEW e \in Device, Receive(e), pushed'[d] # pushed[d]
      PROVE  Stored(d, i) # {}
  <2>1. PICK h \in Handler : h = server[d] /\ h # None /\ Finish(h) /\ status[h] = OK /\ e = d
    BY <1>0, <1>3 DEF Receive
  <2>2. pushed'[d] = pushed[d] + Len(request[h].blobs)
    BY <1>0, <1>3, <2>1 DEF Receive
  <2>3. Len(request[h].blobs) \in Nat
    <3>1. request[h].blobs \in Batches
      BY DEF SystemInv, ServerInv, ServerInvariant, ServerTypes, Request
    <3> QED BY <3>1, BatchIsSequence
  <2>4. CASE i <= pushed[d]
    BY <1>0, <2>4 DEF StoredInv, StoredAsWritten
  <2>5. CASE i > pushed[d]
    <3>1. i - pushed[d] \in 1..Len(request[h].blobs) /\ pushed[d] + (i - pushed[d]) = i
      BY <1>0, <2>2, <2>3, <2>5
    <3>2. /\ WaitingOK(d) /\ stage[h] = "answer" /\ request[h].device = d
          /\ HandlerOK(h) /\ request[h].name = NameOf[d]
      BY <2>1 DEF SystemInv, DevicesInv, WaitingOK, ServerInv, ServerInvariant, Finish
    <3>3. BatchStored(h)
      BY <2>1, <3>2, SystemAssumption DEF HandlerOK, PushStored, Exchanged, Syncing
    <3>4. PICK base \in 0..lastSequence :
              Row(base + (i - pushed[d]), request[h].dataset, d, request[h].blobs[i - pushed[d]])
                  \in entries
      BY <3>1, <3>2, <3>3 DEF BatchStored
    <3>5. request[h].blobs[i - pushed[d]] = Writes[d][i]
      BY <2>1, <3>1, <3>2 DEF StoredInv, OutboxInv, SentFrom
    <3>6. PICK r \in entries : r.device = d /\ r.blob = Writes[d][i]
      BY <3>4, <3>5 DEF Row
    <3> QED BY <3>6 DEF Stored, Sequences
  <2> QED BY <1>0, <2>4, <2>5, <2>2, <2>3
<1>4. pushed' = pushed \/ \E e \in Device : Receive(e)
  BY DEF SystemNext, Write, Exchange, ReceiveAndDie, GiveUp, Serve, Unread, Manage, CallFails,
         Restart, Restarted, ServerReset, deviceVars, systemVars
<1> QED BY <1>1, <1>2, <1>3, <1>4

\* What was just written is not stored yet.
LEMMA WriteKeepsOrder ==
    ASSUME SystemInv, SystemInv', [SystemNext]_systemVars, WritesDiffer, StoredInv,
           entries' = entries
    PROVE  RowsWritten' /\ StoredAsWritten'
<1>1. \A d \in Device :
          /\ written[d] \in Nat /\ written'[d] \in Nat /\ written[d] <= written'[d]
          /\ written'[d] <= Len(Writes[d]) /\ Len(Writes[d]) \in Nat
  BY OutboxGrows, SystemAssumption, LenProperties DEF SystemInv, DevicesInv, SystemTypeOK
<1>2. \A d, i : Stored(d, i)' = Stored(d, i)
  BY DEF Stored
<1>3. RowsWritten'
  <2> SUFFICES ASSUME NEW r \in entries
               PROVE  r.device \in Device /\ \E i \in 1..written'[r.device] :
                         r.blob = Writes[r.device][i]
    BY DEF RowsWritten
  <2>1. PICK i \in 1..written[r.device] : r.blob = Writes[r.device][i]
    BY DEF StoredInv, RowsWritten
  <2>2. r.device \in Device
    BY DEF StoredInv, RowsWritten
  <2>3. i \in 1..written'[r.device]
    BY <1>1, <2>1, <2>2
  <2> QED BY <2>1, <2>2, <2>3
<1>4. ASSUME NEW d \in Device, NEW i \in 1..written'[d], NEW j \in 1..written'[d],
             i < j, Stored(d, j) # {}
      PROVE  \E s \in Stored(d, i) : \A t \in Stored(d, j) : s < t
  <2>1. PICK r \in entries : r.device = d /\ r.blob = Writes[d][j]
    BY <1>4 DEF Stored, Sequences
  <2>2. PICK k \in 1..written[d] : r.blob = Writes[d][k]
    BY <2>1 DEF StoredInv, RowsWritten
  <2>3. j \in 1..Len(Writes[d]) /\ k \in 1..Len(Writes[d])
    BY <1>1
  <2>4. k = j
    BY <2>1, <2>2, <2>3 DEF WritesDiffer
  <2>5. i \in 1..written[d] /\ j \in 1..written[d]
    BY <1>1, <1>4, <2>4
  <2> QED BY <1>4, <2>5 DEF StoredInv, StoredAsWritten
<1>5. StoredAsWritten'
  BY <1>2, <1>4, AcknowledgedIsStored DEF StoredAsWritten
<1> QED BY <1>3, <1>5

LEMMA StoredInvariant ==
    ASSUME WritesDiffer
    PROVE  SystemSpec => []StoredInv
<1>1. SystemInit => StoredInv
  <2> SUFFICES ASSUME SystemInit PROVE StoredInv
    OBVIOUS
  <2>1. /\ entries = {} /\ written = [d \in Device |-> 0] /\ pushed = [d \in Device |-> 0]
        /\ server = [d \in Device |-> None] /\ request = [h \in Handler |-> NoRequest]
    BY DEF SystemInit, ServerInit, Init
  <2>2. OutboxInv
    BY <2>1 DEF OutboxInv, Syncing, NoRequest
  <2> QED BY <2>1, <2>2 DEF StoredInv, RowsWritten, StoredAsWritten
<1>2. SystemInv /\ SystemInv' /\ StoredInv /\ [SystemNext]_systemVars => StoredInv'
  <2> SUFFICES ASSUME SystemInv, SystemInv', StoredInv, [SystemNext]_systemVars
               PROVE  StoredInv'
    OBVIOUS
  <2>1. OutboxInv'
    BY OutboxKept DEF StoredInv
  <2>2. RowsWritten' /\ StoredAsWritten'
    BY OnlyCommitsAdd, CommitKeepsOrder, WriteKeepsOrder
  <2> QED BY <2>1, <2>2 DEF StoredInv
<1> QED BY <1>1, <1>2, SystemInvariant, PTL DEF SystemSpec

\* Every acknowledged write is stored, and the first copy of each in the order
\* of writing, with any number of handlers and whatever was sent twice, cut off
\* or killed (PROTOCOL.md:138-139, 229).
THEOREM WritesAreStored ==
    ASSUME WritesDiffer
    PROVE  SystemSpec => []StoredAsWritten
<1>1. StoredInv => StoredAsWritten
  BY DEF StoredInv
<1> QED BY <1>1, StoredInvariant, PTL

-----------------------------------------------------------------------------
(* The push that a device waits for.                                       *)

\* While d waits, nothing stored of it, and nothing on its way from it, is newer
\* than the last write of the push it waits for.
NothingNewer(d) ==
    LET end == pushed[d] + Len(request[server[d]].blobs)
    IN  server[d] # None =>
            /\ \A r \in entries : r.device = d => \E i \in 1..end : r.blob = Writes[d][i]
            /\ \A k \in Handler : (Syncing(k) /\ request[k].device = d) =>
                  \E a \in Nat : SentFrom(k, a) /\ a + Len(request[k].blobs) <= end

AwaitedInv == \A d \in Device : NothingNewer(d)

\* A batch is as long as a natural number.
LEMMA BatchLength ==
    ASSUME SystemInv, NEW h \in Handler
    PROVE  Len(request[h].blobs) \in Nat
<1>1. request[h].blobs \in Batches
  BY DEF SystemInv, ServerInv, ServerInvariant, ServerTypes, Request
<1> QED BY <1>1, BatchIsSequence

\* What was sent stays what it was.
LEMMA SentStays ==
    ASSUME SystemInv, [SystemNext]_systemVars, NEW h \in Handler, NEW a \in Nat,
           SentFrom(h, a), request'[h] = request[h]
    PROVE  SentFrom(h, a)'
<1>1. request[h].device \in Device /\ Len(request[h].blobs) \in Nat
  BY BatchLength DEF SentFrom
<1>2. a + Len(request[h].blobs) <= written'[request[h].device]
  BY <1>1, OutboxGrows DEF SentFrom
<1> QED BY <1>1, <1>2 DEF SentFrom

\* A device that sends has everything that it wrote on its way or stored.
LEMMA ExchangeIsNewest ==
    ASSUME SystemInv, SystemInv', [SystemNext]_systemVars, StoredInv, OutboxInv',
           NEW d \in Device, NEW h \in Handler, Exchange(d, h)
    PROVE  NothingNewer(d)'
<1>1. /\ server'[d] = h /\ pushed'[d] = pushed[d] /\ written'[d] = written[d]
      /\ pushed[d] + Len(request'[h].blobs) = written[d]
  BY ExchangeSends DEF Exchange
<1>2. entries' = entries
  BY DEF Exchange, StartSync, CallAppend, Call, tables
<1>3. ASSUME NEW r \in entries', r.device = d
      PROVE  \E i \in 1..written[d] : r.blob = Writes[d][i]
  BY <1>2, <1>3 DEF StoredInv, RowsWritten
<1>4. ASSUME NEW k \in Handler, Syncing(k)', request'[k].device = d
      PROVE  \E a \in Nat : SentFrom(k, a)' /\ a + Len(request'[k].blobs) <= written[d]
  <2>1. PICK a \in Nat : SentFrom(k, a)'
    BY <1>4 DEF OutboxInv
  <2> QED BY <1>1, <1>4, <2>1 DEF SentFrom
<1> QED BY <1>1, <1>3, <1>4 DEF NothingNewer

\* Whoever waits goes on waiting for the same push.
LEMMA WaitsOn ==
    ASSUME SystemInv, SystemInv', [SystemNext]_systemVars, NEW d \in Device,
           server'[d] # None, ~ \E h \in Handler : Exchange(d, h)
    PROVE  /\ server'[d] = server[d] /\ server[d] \in Handler
           /\ pushed'[d] = pushed[d] /\ request'[server[d]] = request[server[d]]
<1>0. /\ server \in [Device -> Handler \cup {None}] /\ server'[d] \in Handler
      /\ pushed'[d] = pushed[d]
  BY OutboxGrows DEF SystemInv, DevicesInv, SystemTypeOK
<1>1. server'[d] = server[d]
  <2>1. ASSUME NEW e \in Device, NEW k \in Handler, Exchange(e, k)
        PROVE  server'[d] = server[d]
    BY <1>0, <2>1 DEF Exchange
  <2>2. ASSUME NEW e \in Device, Receive(e) \/ ReceiveAndDie(e) \/ GiveUp(e)
        PROVE  server'[d] = server[d]
    BY <1>0, <2>2 DEF Receive, ReceiveAndDie, GiveUp
  <2>3. CASE Restart
    BY <2>3 DEF Restart, Restarted
  <2> QED
    BY <2>1, <2>2, <2>3
    DEF SystemNext, Write, Serve, Unread, Manage, CallFails, deviceVars, systemVars
<1>2. Syncing(server[d])'
  BY <1>0, <1>1, SystemAssumption DEF Syncing, SystemInv, DevicesInv, WaitingOK
<1>3. ASSUME NEW e \in Device, Exchange(e, server[d]) PROVE FALSE
  <2>1. server'[e] = server'[d]
    BY <1>0, <1>1, <1>3, ExchangeSends
  <2>2. e = d
    BY <2>1 DEF SystemInv, DevicesInv, SystemTypeOK
  <2> QED BY <1>0, <1>1, <1>3, <2>2
<1> QED BY <1>0, <1>1, <1>2, <1>3, SyncComes

\* Nothing newer comes while it waits: what others commit for it was sent before.
LEMMA NothingNewerKept ==
    ASSUME SystemInv, SystemInv', [SystemNext]_systemVars, StoredInv, OutboxInv', AwaitedInv,
           NEW d \in Device
    PROVE  NothingNewer(d)'
<1>1. CASE server'[d] = None
  BY <1>1 DEF NothingNewer
<1>2. CASE \E h \in Handler : Exchange(d, h)
  BY <1>2, ExchangeIsNewest
<1>3. CASE server'[d] # None /\ ~ \E h \in Handler : Exchange(d, h)
  <2>1. /\ server'[d] = server[d] /\ server[d] \in Handler
        /\ pushed'[d] = pushed[d] /\ request'[server[d]] = request[server[d]]
    BY <1>3, WaitsOn
  <2>2. PICK end : end = pushed[d] + Len(request[server[d]].blobs)
    OBVIOUS
  <2>3. /\ \A r \in entries : r.device = d => \E i \in 1..end : r.blob = Writes[d][i]
        /\ \A k \in Handler : (Syncing(k) /\ request[k].device = d) =>
              \E a \in Nat : SentFrom(k, a) /\ a + Len(request[k].blobs) <= end
    BY <2>1, <2>2, NoneAssumption DEF AwaitedInv, NothingNewer
  <2>4. end \in Nat
    BY <2>1, <2>2, BatchLength, OutboxGrows
  <2>5. ASSUME NEW k \in Handler, Syncing(k)', request'[k].device = d
        PROVE  \E a \in Nat : SentFrom(k, a)' /\ a + Len(request'[k].blobs) <= end
    <3>1. request'[k] = request[k] /\ Syncing(k)
      <4>1. ASSUME NEW e \in Device, Exchange(e, k) PROVE FALSE
        BY <1>3, <2>5, <4>1, ExchangeSends
      <4> QED BY <2>5, <4>1, SyncComes
    <3>2. PICK a \in Nat : SentFrom(k, a) /\ a + Len(request[k].blobs) <= end
      BY <2>3, <2>5, <3>1
    <3> QED BY <3>1, <3>2, SentStays
  <2>6. ASSUME NEW r \in entries', r.device = d
        PROVE  \E i \in 1..end : r.blob = Writes[d][i]
    <3>1. CASE r \in entries
      BY <2>3, <2>6, <3>1
    <3>2. ASSUME NEW k \in Handler, CommitAppend(k), r \notin entries
          PROVE  \E i \in 1..end : r.blob = Writes[d][i]
      <4>1. PICK b \in Nat : SentFrom(k, b) /\ CommitsFrom(k, b)
        BY <3>2, CommitStores DEF StoredInv
      <4>2. PICK i \in 1..Len(request[k].blobs) :
                r = Row(lastSequence + i, args[k].dataset, request[k].device,
                        Writes[request[k].device][b + i])
        BY <3>2, <4>1 DEF CommitsFrom
      <4>3. request[k].device = d /\ r.blob = Writes[d][b + i]
        BY <2>6, <4>2 DEF Row
      <4>4. r.blob = request[k].blobs[i]
        BY <4>1, <4>3 DEF SentFrom
      <4>5. Syncing(k)
        BY <3>2, CommitIsOfSync
      <4>6. PICK a \in Nat : SentFrom(k, a) /\ a + Len(request[k].blobs) <= end
        BY <2>3, <4>3, <4>5
      <4>7. r.blob = Writes[d][a + i]
        BY <4>3, <4>4, <4>6 DEF SentFrom
      <4>8. a + i \in 1..end
        BY <2>4, <4>6, BatchLength
      <4> QED BY <4>7, <4>8
    <3> QED BY <3>1, <3>2, OnlyCommitsAdd
  <2> QED BY <2>1, <2>2, <2>5, <2>6 DEF NothingNewer
<1> QED BY <1>1, <1>2, <1>3

\* What the awaited push stores ends up with its newest write on top.
LEMMA CommitEndsOnTop ==
    ASSUME SystemInv, [SystemNext]_systemVars, WritesDiffer, StoredInv, AwaitedInv,
           NEW d \in Device, Commits(d),
           NEW i \in 1..written[d], NEW j \in 1..written[d], i < j, Stored(d, j)' # {},
           Stored(d, i)' # Stored(d, i) \/ Stored(d, j)' # Stored(d, j),
           NEW s \in Stored(d, i)'
    PROVE  \E t \in Stored(d, j)' : s < t
<1>1. PICK h \in Handler : h = server[d] /\ h # None
  BY DEF Commits, SystemInv, DevicesInv, SystemTypeOK
<1>2. CommitAppend(h)
  <2>1. ~UNCHANGED entries
    BY DEF Stored
  <2>2. PICK k \in Handler : CommitAppend(k)
    BY <2>1, OnlyCommitsAdd
  <2>3. pc[k] = "insert" /\ pc[h] = "insert"
    BY <1>1, <2>2 DEF CommitAppend, Commits
  <2> QED BY <2>2, <2>3 DEF SystemInv, ServerInv, StoreInvariant, ConnectionHeldOnlyWhileUsed
<1>3. request[h].device = d
  BY <1>1 DEF SystemInv, DevicesInv, WaitingOK
<1>4. PICK p \in Nat, n \in Nat : p = pushed[d] /\ n = Len(request[h].blobs)
  BY BatchLength, OutboxGrows
<1>5. CommitsFrom(h, p)
  BY <1>1, <1>2, <1>3, <1>4, CommitFollows DEF StoredInv, OutboxInv
<1>6. /\ written[d] \in Nat /\ written[d] <= Len(Writes[d]) /\ Len(Writes[d]) \in Nat
      /\ lastSequence \in Nat
  BY SystemAssumption, LenProperties
  DEF SystemInv, DevicesInv, SystemTypeOK, ServerInv, StoreInvariant, TypeOK
<1>7. i \in 1..Len(Writes[d]) /\ j \in 1..Len(Writes[d]) /\ i \in Nat /\ j \in Nat
  BY <1>6
<1>8. \A m \in 1..Len(Writes[d]) : Stored(d, m)' = Stored(d, m) \cup
          (IF m \in p + 1 .. p + n THEN {lastSequence + (m - p)} ELSE {})
  BY SMTT(30), <1>3, <1>4, <1>5, CommitPlaces
<1>9. Stored(d, i) \subseteq 1..lastSequence
  BY StoredInLog
<1>10. CASE j \in p + 1 .. p + n
  <2>1. lastSequence + (j - p) \in Stored(d, j)'
    BY <1>7, <1>8, <1>10
  <2>2. s \in 1..lastSequence \/ s = lastSequence + (i - p)
    BY <1>7, <1>8, <1>9
  <2>3. s < lastSequence + (j - p)
    BY <1>4, <1>6, <1>7, <1>10, <2>2
  <2> QED BY <2>1, <2>3
<1>11. CASE j \notin p + 1 .. p + n
  <2>1. Stored(d, j)' = Stored(d, j)
    BY <1>7, <1>8, <1>11
  <2>2. i \in p + 1 .. p + n
    BY <1>7, <1>8, <2>1
  <2>3. j > p + n
    BY <1>4, <1>7, <1>11, <2>2
  <2>4. PICK r \in entries : r.device = d /\ r.blob = Writes[d][j]
    BY <2>1 DEF Stored, Sequences
  <2>5. PICK m \in 1..p + n : r.blob = Writes[d][m]
    BY <1>1, <1>4, <2>4 DEF AwaitedInv, NothingNewer
  <2>6. p + n <= written[d]
    BY <1>3, <1>4, <1>5 DEF CommitsFrom
  <2>7. m \in 1..Len(Writes[d]) /\ m # j
    BY SMTT(30), <1>4, <1>6, <1>7, <2>3, <2>6
  <2> QED BY <1>7, <2>4, <2>5, <2>7 DEF WritesDiffer
<1> QED BY <1>10, <1>11

\* A push that its device waits for leaves the device's newest entry on top,
\* whatever the requests it gave up before have stored meanwhile, with any number
\* of handlers: only a request that nobody waits for can put an older one there,
\* which SystemOvertaken shows (server.go:182-190; PROTOCOL.md:83-87).
THEOREM AwaitedPushesEndOnTop ==
    ASSUME WritesDiffer
    PROVE  SystemSpec => AwaitedPushEndsOnTop
<1>1. SystemInit => AwaitedInv
  BY DEF SystemInit, AwaitedInv, NothingNewer
<1>2. /\ SystemInv /\ SystemInv' /\ StoredInv /\ StoredInv' /\ AwaitedInv
      /\ [SystemNext]_systemVars
      => AwaitedInv'
  BY NothingNewerKept DEF AwaitedInv, StoredInv
<1>3. SystemInv /\ StoredInv /\ AwaitedInv /\ [SystemNext]_systemVars =>
        [\A d \in Device : Commits(d) =>
            \A i, j \in 1..written[d] :
                ( /\ i < j
                  /\ Stored(d, j)' # {}
                  /\ Stored(d, i)' # Stored(d, i) \/ Stored(d, j)' # Stored(d, j) )
                => \A s \in Stored(d, i)' : \E t \in Stored(d, j)' : s < t]_systemVars
  BY CommitEndsOnTop
<1>4. SystemSpec => []SystemInv
  BY SystemInvariant
<1>5. SystemSpec => []StoredInv
  BY StoredInvariant
<1> QED BY <1>1, <1>2, <1>3, <1>4, <1>5, PTL DEF SystemSpec, AwaitedPushEndsOnTop

=============================================================================
