---------------------------- MODULE Replay_proofs ----------------------------
(***************************************************************************)
(* The proof that the server and its devices implement Replay, with any    *)
(* number of requests at a time and through every fault: every step of the *)
(* system is a step of Replay's log, or none.                              *)
(***************************************************************************)
EXTENDS SyncSystem_proofs

-----------------------------------------------------------------------------
(* The position of a device.                                               *)

PositionOK(d) ==
    /\ Position(d) \in applied[d] \cup {cursor[d]}
    /\ \A q \in applied[d] \cup {cursor[d]} : q <= Position(d)
    /\ Position(d) \in Nat
    /\ Position(d) <= lastSequence

PositionsOK == \A d \in Device : PositionOK(d)

\* The position is the largest of what a device replayed and keeps, inside the log.
LEMMA PositionIsLargest == SystemInv => PositionsOK
<1> SUFFICES ASSUME SystemInv, NEW d \in Device PROVE PositionOK(d)
  BY DEF PositionsOK
<1> DEFINE T == applied[d] \cup {cursor[d]}
<1>1. /\ lastSequence \in Nat /\ cursor[d] \in Nat /\ cursor[d] <= lastSequence
      /\ applied[d] \subseteq Sequences(Others(d)) /\ T \subseteq Nat
  BY DEF SystemInv, ServerInv, DevicesInv, SystemTypeOK, OnlyOthersReplayed, StoreInvariant, TypeOK
<1>2. \A t \in T : t <= lastSequence
  <2>1. \A s \in Sequences(Others(d)) : s \in 1..lastSequence
    BY DEF Sequences, Others, SystemInv, ServerInv, StoreInvariant, EntriesNumbered
  <2> QED BY <1>1, <2>1
<1> HIDE DEF T
<1>3. \E p \in T : \A q \in T : q <= p
  <2>1. T # {}
    BY DEF T
  <2> QED BY <1>1, <1>2, <2>1, LargestExists
<1>4. Position(d) = CHOOSE p \in T : \A q \in T : q <= p
  BY DEF Position, T
<1>5. Position(d) \in T /\ \A q \in T : q <= Position(d)
  BY <1>3, <1>4
<1>6. Position(d) \in Nat /\ Position(d) <= lastSequence
  BY <1>1, <1>2, <1>5
<1> QED BY <1>5, <1>6 DEF PositionOK, T

-----------------------------------------------------------------------------
(* What a handler has of a page, and what a step leaves it.                *)

PageStates == {"scan", "highWater", "paged"}

\* What is asked for d is what the handler that it waits for has looked up.
AskedOK == \A d \in Device : \A n :
    n \in AskedAt(d) <=> server[d] \in Handler /\ LookedUp(server[d]) /\ n = LogEnd(server[d])

LEMMA AskedIs == AskedOK
BY DEF AskedOK, AskedAt

\* A step leaves all of k that a device could see.
Untouched(k) ==
    /\ pc'[k] = pc[k] /\ offered'[k] = offered[k]
    /\ stage'[k] = stage[k] /\ request'[k] = request[k] /\ asOf'[k] = asOf[k]
    /\ exchange'[k] = exchange[k] /\ status'[k] = status[k]

\* What k has looked up it has had since before.
Keeps(k) == LookedUp(k)' => LookedUp(k) /\ LogEnd(k)' = LogEnd(k)

LEMMA UntouchedKeeps ==
    ASSUME NEW k, Untouched(k)
    PROVE  LookedUp(k)' = LookedUp(k) /\ LogEnd(k)' = LogEnd(k)
BY DEF Untouched, LookedUp, LogEnd, Exchanged, Syncing

\* A call begins, or lets its results go, with nothing looked up.
LEMMA CallTouches ==
    ASSUME TypeOK, NEW h \in Handler, NEW label, NEW a,
           Call(h, label, a) \/ (Return(h) /\ label = "idle")
    PROVE  /\ UNCHANGED <<entries, lastSequence>> /\ pc'[h] = label
           /\ \A k \in Handler \ {h} : pc'[k] = pc[k] /\ offered'[k] = offered[k]
BY DEF Call, Return, ClearResults, tables, TypeOK

\* Of the steps of a call only the query looks a page up, and only a commit
\* changes the log.
LEMMA StepTouches ==
    ASSUME StoreInvariant, NEW h \in Handler, Step(h)
    PROVE  /\ \A k \in Handler \ {h} : pc'[k] = pc[k] /\ offered'[k] = offered[k]
           /\ \/ CommitAppend(h)
              \/ QueryPage(h) /\ UNCHANGED <<entries, lastSequence>>
              \/ /\ UNCHANGED <<entries, lastSequence>>
                 /\ pc'[h] \in PageStates => pc[h] \in PageStates /\ offered'[h] = offered[h]
<1>1. TypeOK
  BY DEF StoreInvariant
<1>2. CASE BeginAppend(h)
  BY <1>1, <1>2 DEF BeginAppend, TypeOK, tables, results, PageStates
<1>3. CASE QueryPage(h)
  BY <1>1, <1>3 DEF QueryPage, TypeOK, tables
<1>4. CASE ReadHighWater(h)
  BY <1>1, <1>4 DEF ReadHighWater, TypeOK, tables, PageStates
<1>5. CASE TouchDevice(h) \/ ListDevices(h) \/ RemoveDevice(h)
  BY <1>1, <1>5 DEF TouchDevice, ListDevices, RemoveDevice, TypeOK, tables, results, PageStates
<1>6. CASE InsertEntry(h)
  BY <1>1, <1>6 DEF InsertEntry, TypeOK, tables, PageStates
<1>7. CASE CommitAppend(h)
  BY <1>1, <1>7 DEF CommitAppend, TypeOK, results
<1>8. CASE ReadPage(h)
  BY <1>1, <1>8 DEF ReadPage, PageRead, TypeOK, tables, PageStates
<1>9. CASE SequencesExhausted(h) \/ FailCall(h)
  BY <1>1, <1>9 DEF SequencesExhausted, FailCall, Abort, ClearResults, TypeOK, tables, PageStates
<1>10. CASE FailAfterwards(h)
  BY <1>1, <1>10 DEF FailAfterwards, ClearResults, TypeOK, PageStates
<1> QED
  BY <1>2, <1>3, <1>4, <1>5, <1>6, <1>7, <1>8, <1>9, <1>10
  DEF Step, Acquires, Proceeds, Fails

\* A handler that takes a request, or ends, has no page.
LEMMA NoPageYet ==
    ASSUME NEW h, stage'[h] \notin {"page", "touch", "answer"}
    PROVE  ~LookedUp(h)'
BY DEF LookedUp, Exchanged

\* A request is taken.
LEMMA StartTouches ==
    ASSUME SystemInv, NEW h \in Handler,
           \/ \E r : StartSync(h, r)
           \/ \E dataset : StartDevices(h, dataset)
           \/ \E dataset, device : StartRemove(h, dataset, device)
    PROVE  /\ UNCHANGED <<entries, lastSequence>> /\ ~LookedUp(h)' /\ stage[h] = "free"
           /\ \A k \in Handler \ {h} : Untouched(k)
<1>1. TypeOK /\ stage \in [Handler -> Stages] /\ request \in [Handler -> Request]
  BY DEF SystemInv, ServerInv, StoreInvariant, ServerInvariant, ServerTypes
<1>2. PICK s, r, label, a :
          /\ s \in {"append", "devices", "remove"} /\ Call(h, label, a) /\ stage[h] = "free"
          /\ stage' = [stage EXCEPT ![h] = s] /\ request' = [request EXCEPT ![h] = r]
          /\ UNCHANGED <<exchange, asOf, status>>
  <2>1. ASSUME NEW r, StartSync(h, r)
        PROVE  \E label, a :
          /\ Call(h, label, a) /\ stage[h] = "free"
          /\ stage' = [stage EXCEPT ![h] = "append"] /\ request' = [request EXCEPT ![h] = r]
          /\ UNCHANGED <<exchange, asOf, status>>
    BY <2>1 DEF StartSync, CallAppend, Enter
  <2>2. ASSUME NEW dataset, StartDevices(h, dataset)
        PROVE  \E r, label, a :
          /\ Call(h, label, a) /\ stage[h] = "free"
          /\ stage' = [stage EXCEPT ![h] = "devices"] /\ request' = [request EXCEPT ![h] = r]
          /\ UNCHANGED <<exchange, asOf, status>>
    BY <2>2 DEF StartDevices, CallDevices, Enter
  <2>3. ASSUME NEW dataset, NEW device, StartRemove(h, dataset, device)
        PROVE  \E r, label, a :
          /\ Call(h, label, a) /\ stage[h] = "free"
          /\ stage' = [stage EXCEPT ![h] = "remove"] /\ request' = [request EXCEPT ![h] = r]
          /\ UNCHANGED <<exchange, asOf, status>>
    BY <2>3 DEF StartRemove, CallRemoveDevice, Enter
  <2> QED BY <2>1, <2>2, <2>3
<1>3. /\ UNCHANGED <<entries, lastSequence>>
      /\ \A k \in Handler \ {h} : pc'[k] = pc[k] /\ offered'[k] = offered[k]
  BY <1>1, <1>2, CallTouches
<1>4. stage'[h] = s /\ \A k \in Handler \ {h} : stage'[k] = stage[k] /\ request'[k] = request[k]
  BY <1>1, <1>2
<1>5. ~LookedUp(h)'
  BY <1>2, <1>4, NoPageYet
<1> QED BY <1>2, <1>3, <1>4, <1>5 DEF Untouched

\* A request is over.
LEMMA FinishTouches ==
    ASSUME SystemInv, NEW h \in Handler, Finish(h)
    PROVE  /\ UNCHANGED <<entries, lastSequence>> /\ ~LookedUp(h)' /\ stage[h] = "answer"
           /\ \A k \in Handler \ {h} : Untouched(k)
<1>1. /\ TypeOK /\ stage \in [Handler -> Stages] /\ request \in [Handler -> Request]
      /\ exchange \in [Handler -> Page] /\ asOf \in [Handler -> Nat]
      /\ status \in [Handler -> {0, OK, NoContent, NotFound, InternalServerError}]
  BY DEF SystemInv, ServerInv, StoreInvariant, ServerInvariant, ServerTypes
<1>2. /\ UNCHANGED <<entries, lastSequence>>
      /\ \A k \in Handler \ {h} : pc'[k] = pc[k] /\ offered'[k] = offered[k]
  BY <1>1, CallTouches DEF Finish
<1>3. /\ stage[h] = "answer" /\ stage'[h] = "free"
      /\ \A k \in Handler \ {h} : /\ stage'[k] = stage[k] /\ request'[k] = request[k]
                                  /\ exchange'[k] = exchange[k] /\ asOf'[k] = asOf[k]
                                  /\ status'[k] = status[k]
  BY <1>1 DEF Finish, Enter
<1>4. ~LookedUp(h)'
  BY <1>3, NoPageYet
<1> QED BY <1>2, <1>3, <1>4 DEF Untouched

\* A handler goes from call to call, and answers.
LEMMA HandleTouches ==
    ASSUME SystemInv, NEW h \in Handler, Handle(h)
    PROVE  /\ UNCHANGED <<entries, lastSequence>>
           /\ stage[h] \in {"append", "page", "touch"} => Keeps(h)
           /\ \A k \in Handler \ {h} : Untouched(k)
<1>1. /\ TypeOK /\ stage \in [Handler -> Stages]
      /\ exchange \in [Handler -> Page] /\ asOf \in [Handler -> Nat]
      /\ status \in [Handler -> {0, OK, NoContent, NotFound, InternalServerError}]
  BY DEF SystemInv, ServerInv, StoreInvariant, ServerInvariant, ServerTypes
<1>2. CASE Pull(h)
  <2>1. PICK a : /\ Call(h, "query", a) /\ stage' = [stage EXCEPT ![h] = "page"]
                 /\ UNCHANGED <<request, exchange, asOf, status>>
    BY <1>2 DEF Pull, CallPage, Enter
  <2>2. /\ UNCHANGED <<entries, lastSequence>> /\ pc'[h] = "query"
        /\ \A k \in Handler \ {h} : pc'[k] = pc[k] /\ offered'[k] = offered[k]
    BY <1>1, <2>1, CallTouches
  <2>3. ~LookedUp(h)'
    BY <1>1, <2>1, <2>2 DEF LookedUp, Exchanged
  <2> QED BY <1>1, <2>1, <2>2, <2>3 DEF Keeps, Untouched
<1>3. CASE Record(h)
  <2>1. PICK a : /\ Call(h, "upsert", a) /\ stage' = [stage EXCEPT ![h] = "touch"]
                 /\ exchange' = [exchange EXCEPT ![h] = page[h]]
                 /\ asOf' = [asOf EXCEPT ![h] = offered[h]]
                 /\ UNCHANGED <<request, status>> /\ stage[h] = "page" /\ pc[h] = "paged"
    BY <1>3 DEF Record, CallTouchDevice, Enter
  <2>2. /\ UNCHANGED <<entries, lastSequence>>
        /\ \A k \in Handler \ {h} : pc'[k] = pc[k] /\ offered'[k] = offered[k]
    BY <1>1, <2>1, CallTouches
  <2>3. LookedUp(h) /\ LogEnd(h)' = LogEnd(h)
    BY <1>1, <2>1 DEF LookedUp, LogEnd
  <2> QED BY <1>1, <2>1, <2>2, <2>3 DEF Keeps, Untouched
<1>4. ASSUME NEW code, Answer(h, code), code = OK => stage[h] \in {"touch", "devices"}
      PROVE  /\ UNCHANGED <<entries, lastSequence>>
             /\ stage[h] \in {"append", "page", "touch"} => Keeps(h)
             /\ \A k \in Handler \ {h} : Untouched(k)
  <2>1. /\ stage' = [stage EXCEPT ![h] = "answer"] /\ status' = [status EXCEPT ![h] = code]
        /\ UNCHANGED <<request, exchange, asOf>>
        /\ UNCHANGED <<pc, offered, entries, lastSequence>>
    BY <1>4 DEF Answer, Enter, vars, tables, results
  <2>2. ASSUME stage[h] \in {"append", "page", "touch"} PROVE Keeps(h)
    <3>1. stage'[h] = "answer" /\ status'[h] = code
      BY <1>1, <2>1
    <3> QED BY <1>4, <2>1, <2>2, <3>1 DEF Keeps, LookedUp, LogEnd, Exchanged
  <2> QED BY <1>1, <2>1, <2>2 DEF Untouched
<1>5. CASE AnswerSync(h) \/ AnswerDevices(h) \/ AnswerRemove(h) \/ AnswerFailure(h)
  <2>1. \E code : Answer(h, code) /\ (code = OK => stage[h] \in {"touch", "devices"})
    BY <1>5 DEF AnswerSync, AnswerDevices, AnswerRemove, AnswerFailure,
                OK, NoContent, NotFound, InternalServerError
  <2> QED BY <1>4, <2>1
<1> QED BY <1>2, <1>3, <1>5 DEF Handle

\* A step inside a call.
LEMMA CallStepTouches ==
    ASSUME SystemInv, NEW h \in Handler, StoreStep(h) \/ StoreFailure(h)
    PROVE  /\ \A k \in Handler \ {h} : Untouched(k)
           /\ \/ /\ CommitAppend(h) /\ stage[h] = "append" /\ stage'[h] = "append"
              \/ /\ QueryPage(h) /\ UNCHANGED <<entries, lastSequence>>
                 /\ ~LookedUp(h) /\ LookedUp(h)' /\ LogEnd(h)' = lastSequence
              \/ UNCHANGED <<entries, lastSequence>> /\ Keeps(h)
<1>1. StoreInvariant /\ HandlerOK(h) /\ stage \in [Handler -> Stages] /\ TypeOK
  BY DEF SystemInv, ServerInv, ServerInvariant, ServerTypes, StoreInvariant
<1>2. Step(h) /\ UNCHANGED <<stage, request, exchange, asOf, status>>
  BY DEF StoreStep, StoreFailure, Step, serverVars
<1>3. \A k \in Handler \ {h} : Untouched(k)
  BY <1>1, <1>2, StepTouches DEF Untouched
<1>4. CASE CommitAppend(h)
  BY <1>1, <1>2, <1>3, <1>4 DEF CommitAppend, HandlerOK, Stages, CallsOf
<1>5. CASE QueryPage(h) /\ UNCHANGED <<entries, lastSequence>>
  <2>1. /\ pc[h] = "query" /\ pc'[h] = "scan" /\ offered'[h] = lastSequence
    BY <1>1, <1>5 DEF QueryPage, TypeOK
  <2>2. stage[h] = "page"
    BY <1>1, <2>1 DEF HandlerOK, Stages, CallsOf
  <2> QED BY <1>2, <1>3, <1>5, <2>1, <2>2 DEF LookedUp, LogEnd, Exchanged
<1>6. CASE /\ UNCHANGED <<entries, lastSequence>>
           /\ pc'[h] \in PageStates => pc[h] \in PageStates /\ offered'[h] = offered[h]
  BY <1>2, <1>3, <1>6 DEF Keeps, LookedUp, LogEnd, Exchanged, Syncing, PageStates
<1> QED BY <1>1, <1>2, <1>4, <1>5, <1>6, StepTouches

-----------------------------------------------------------------------------
(* What a step of the system is to the devices.                            *)

\* d applies the page of h, and may keep its cursor.
TakesPage(d, h) ==
    /\ server[d] = h /\ stage[h] = "answer" /\ status[h] = OK
    /\ applied' = [applied EXCEPT ![d] = @ \cup Sequences(exchange[h].entries)]
    /\ \E c \in {cursor[d], exchange[h].cursor} : cursor' = [cursor EXCEPT ![d] = c]

Stays == UNCHANGED <<entries, lastSequence, cursor, applied>>

\* The four kinds of steps: of all that wait nobody is given anything, ...
Leaves == Stays /\ \A d \in Device : AskedAt(d)' \in {AskedAt(d), {}}

\* ... a page is looked up for d, ...
Asks(d) ==
    /\ Stays
    /\ AskedAt(d) = {} /\ AskedAt(d)' = {lastSequence}
    /\ \A e \in Device \ {d} : AskedAt(e)' = AskedAt(e)

\* ... it is given one, ...
Takes(d, h) ==
    /\ h \in Handler /\ TakesPage(d, h)
    /\ UNCHANGED <<entries, lastSequence>>
    /\ AskedAt(d) = {asOf[h]} /\ AskedAt(d)' = {}
    /\ \A e \in Device \ {d} : AskedAt(e)' = AskedAt(e)

\* ... or a batch is committed.
Pushes(h) ==
    /\ CommitAppend(h)
    /\ UNCHANGED <<cursor, applied>>
    /\ \A d \in Device : AskedAt(d)' = AskedAt(d)

\* What the handlers keep decides what is left of what was asked.
LEMMA AskedFollows ==
    ASSUME NEW d \in Device, server'[d] = server[d]
    PROVE  /\ (server[d] \in Handler => Keeps(server[d])) => AskedAt(d)' \in {AskedAt(d), {}}
           /\ (server[d] \in Handler => Untouched(server[d])) => AskedAt(d)' = AskedAt(d)
<1>0. AskedOK /\ AskedOK'
  <2>1. AskedOK'
    BY AskedIs, PTL
  <2> QED BY <2>1, AskedIs
<1>1. ASSUME server[d] \in Handler => Keeps(server[d])
      PROVE  AskedAt(d)' \in {AskedAt(d), {}}
  <2>1. CASE server[d] \in Handler /\ LookedUp(server[d])'
    <3>1. \A n : n \in AskedAt(d)' <=> n \in AskedAt(d)
      BY <1>0, <1>1, <2>1 DEF AskedOK, Keeps
    <3> QED BY <3>1
  <2>2. CASE ~(server[d] \in Handler /\ LookedUp(server[d])')
    <3>1. \A n : n \notin AskedAt(d)'
      BY <1>0, <2>2 DEF AskedOK
    <3> QED BY <3>1
  <2> QED BY <2>1, <2>2
<1>2. ASSUME server[d] \in Handler => Untouched(server[d])
      PROVE  AskedAt(d)' = AskedAt(d)
  <2>1. \A n : n \in AskedAt(d)' <=> n \in AskedAt(d)
    BY <1>0, <1>2, UntouchedKeeps DEF AskedOK
  <2> QED BY <2>1
<1> QED BY <1>1, <1>2

LEMMA NothingAsked ==
    ASSUME NEW d \in Device, server[d] \notin Handler \/ ~LookedUp(server[d])
    PROVE  AskedAt(d) = {}
<1>1. \A n : n \notin AskedAt(d)
  BY AskedIs DEF AskedOK
<1> QED BY <1>1

LEMMA NothingAskedNext ==
    ASSUME NEW d \in Device, (server[d] \notin Handler \/ ~LookedUp(server[d]))'
    PROVE  AskedAt(d)' = {}
<1>1. \A n : n \notin AskedAt(d)'
  <2>1. AskedOK'
    BY AskedIs, PTL
  <2> QED BY <2>1 DEF AskedOK
<1> QED BY <1>1

\* Of a handler that nobody waits for nobody notices anything.
LEMMA NobodyAsks ==
    ASSUME SystemInv, NEW h \in Handler, \A k \in Handler \ {h} : Untouched(k),
           Stays, server' = server,
           \A d \in Device : server[d] = h => Keeps(h)
    PROVE  Leaves
<1>1. ASSUME NEW d \in Device PROVE AskedAt(d)' \in {AskedAt(d), {}}
  <2>1. ASSUME server[d] \in Handler PROVE Keeps(server[d])
    BY <2>1, UntouchedKeeps DEF Keeps
  <2> QED BY <2>1, AskedFollows
<1> QED BY <1>1 DEF Leaves

\* A device reads an answer, and nothing else is left of the request.
LEMMA AnswerIsTaken ==
    ASSUME SystemInv, SystemInv', NEW d \in Device, Receive(d) \/ ReceiveAndDie(d)
    PROVE  Leaves \/ \E h \in Handler : Takes(d, h)
<1>0. /\ server \in [Device -> Handler \cup {None}] /\ cursor \in [Device -> Nat]
      /\ applied \in [Device -> SUBSET Nat]
  BY DEF SystemInv, DevicesInv, SystemTypeOK
<1>1. PICK h \in Handler : /\ h = server[d] /\ h # None /\ Finish(h)
                           /\ server' = [server EXCEPT ![d] = None]
  BY <1>0 DEF Receive, ReceiveAndDie
<1>2. /\ UNCHANGED <<entries, lastSequence>> /\ stage[h] = "answer"
      /\ \A k \in Handler \ {h} : Untouched(k)
  BY <1>1, FinishTouches
<1>3. AskedAt(d)' = {}
  BY <1>0, <1>1, NoneAssumption, NothingAskedNext
<1>4. ASSUME NEW e \in Device \ {d} PROVE AskedAt(e)' = AskedAt(e)
  <2>1. server'[e] = server[e] /\ server[e] # h
    BY <1>0, <1>1 DEF SystemInv, DevicesInv, SystemTypeOK
  <2> QED BY <1>2, <2>1, AskedFollows
<1>5. CASE status[h] = OK
  <2>1. TakesPage(d, h)
    <3>1. CASE Receive(d)
      BY <1>1, <1>2, <1>5, <3>1 DEF Receive, TakesPage
    <3>2. CASE ReceiveAndDie(d)
      BY <1>0, <1>1, <1>2, <1>5, <3>2 DEF ReceiveAndDie, TakesPage
    <3> QED BY <3>1, <3>2
  <2>2. AskedAt(d) = {asOf[h]}
    <3>1. WaitingOK(d) /\ NameOf[d] # None
      BY SystemAssumption DEF SystemInv, DevicesInv
    <3>2. LookedUp(h) /\ LogEnd(h) = asOf[h]
      BY <1>1, <1>2, <1>5, <3>1 DEF WaitingOK, LookedUp, LogEnd, Exchanged, Syncing
    <3>3. \A n : n \in AskedAt(d) <=> n = asOf[h]
      BY <1>1, <3>2, AskedIs DEF AskedOK
    <3> QED BY <3>3
  <2> QED BY <1>2, <1>3, <1>4, <2>1, <2>2 DEF Takes
<1>6. CASE status[h] # OK
  <2>1. UNCHANGED <<applied, cursor>>
    BY <1>1, <1>6 DEF Receive, ReceiveAndDie
  <2> QED BY <1>2, <1>3, <1>4, <2>1 DEF Leaves, Stays
<1> QED BY <1>5, <1>6

\* The handlers' steps.
LEMMA CallsAreKinds ==
    ASSUME SystemInv, SystemInv', NEW h \in Handler, StoreStep(h) \/ StoreFailure(h),
           UNCHANGED <<cursor, applied, server>>
    PROVE  Leaves \/ Pushes(h) \/ \E d \in Device : Asks(d)
<1>0. /\ server \in [Device -> Handler \cup {None}]
      /\ \A k \in Handler \ {h} : Untouched(k)
  BY CallStepTouches DEF SystemInv, DevicesInv, SystemTypeOK
<1>1. CASE CommitAppend(h) /\ stage[h] = "append" /\ stage'[h] = "append"
  <2>1. ~LookedUp(h) /\ ~LookedUp(h)'
    BY <1>1 DEF LookedUp, Exchanged
  <2>2. ASSUME NEW d \in Device PROVE AskedAt(d)' = AskedAt(d)
    <3>1. CASE server[d] = h
      <4>1. AskedAt(d) = {}
        BY <2>1, <3>1, NothingAsked
      <4>2. AskedAt(d)' = {}
        BY <2>1, <3>1, NothingAskedNext
      <4> QED BY <4>1, <4>2
    <3>2. CASE server[d] # h
      BY <1>0, <3>2, AskedFollows
    <3> QED BY <3>1, <3>2
  <2> QED BY <1>1, <2>2 DEF Pushes
<1>2. CASE /\ UNCHANGED <<entries, lastSequence>>
           /\ ~LookedUp(h) /\ LookedUp(h)' /\ LogEnd(h)' = lastSequence
  <2>1. ASSUME NEW d \in Device, server[d] = h PROVE Asks(d)
    <3>1. AskedAt(d) = {}
      BY <1>2, <2>1, NothingAsked
    <3>2. AskedAt(d)' = {lastSequence}
      <4>1. AskedOK'
        BY AskedIs, PTL
      <4>2. \A n : n \in AskedAt(d)' <=> n = lastSequence
        BY <1>2, <2>1, <4>1 DEF AskedOK
      <4> QED BY <4>2
    <3>3. ASSUME NEW e \in Device \ {d} PROVE AskedAt(e)' = AskedAt(e)
      <4>1. server[e] # h
        BY <2>1, NoneAssumption DEF SystemInv, DevicesInv, SystemTypeOK
      <4> QED BY <1>0, <4>1, AskedFollows
    <3> QED BY <1>2, <3>1, <3>2, <3>3 DEF Asks, Stays
  <2>2. ASSUME \A d \in Device : server[d] # h PROVE Leaves
    BY <1>0, <1>2, <2>2, NobodyAsks DEF Stays
  <2> QED BY <2>1, <2>2
<1>3. CASE UNCHANGED <<entries, lastSequence>> /\ Keeps(h)
  BY <1>0, <1>3, NobodyAsks DEF Stays
<1> QED BY <1>1, <1>2, <1>3, CallStepTouches

\* Every step of the system is of one of the four kinds.
LEMMA StepsAreKinds ==
    ASSUME SystemInv, SystemInv', [SystemNext]_systemVars
    PROVE  \/ Leaves
           \/ \E d \in Device : Asks(d)
           \/ \E d \in Device, h \in Handler : Takes(d, h)
           \/ \E h \in Handler : Pushes(h)
<1>0. server \in [Device -> Handler \cup {None}]
  BY DEF SystemInv, DevicesInv, SystemTypeOK
<1>1. ASSUME NEW d \in Device, Write(d) \/ GiveUp(d) PROVE Leaves
  <2>1. Stays /\ \A k \in Handler : Untouched(k)
    BY <1>1 DEF Write, GiveUp, allVars, vars, tables, results, serverVars, Stays, Untouched
  <2>2. ASSUME NEW e \in Device PROVE AskedAt(e)' \in {AskedAt(e), {}}
    <3>1. server'[e] = server[e] \/ server'[e] = None
      BY <1>0, <1>1 DEF Write, GiveUp
    <3> QED BY <2>1, <3>1, NoneAssumption, AskedFollows, NothingAskedNext
  <2> QED BY <2>1, <2>2 DEF Leaves
<1>2. ASSUME NEW d \in Device, NEW h \in Handler, Exchange(d, h) PROVE Leaves
  <2>1. /\ UNCHANGED <<entries, lastSequence>> /\ ~LookedUp(h)'
        /\ \A k \in Handler \ {h} : Untouched(k)
    BY <1>2, StartTouches DEF Exchange
  <2>2. UNCHANGED <<cursor, applied>> /\ server' = [server EXCEPT ![d] = h]
    BY <1>2 DEF Exchange
  <2>3. ASSUME NEW e \in Device PROVE AskedAt(e)' \in {AskedAt(e), {}}
    <3>1. CASE server'[e] = h
      BY <2>1, <3>1, NothingAskedNext
    <3>2. CASE server'[e] # h
      BY <1>0, <2>1, <2>2, <3>2, AskedFollows
    <3> QED BY <3>1, <3>2
  <2> QED BY <2>1, <2>2, <2>3 DEF Leaves, Stays
<1>3. ASSUME NEW h \in Handler, Handle(h), UNCHANGED deviceVars PROVE Leaves
  <2>1. /\ UNCHANGED <<entries, lastSequence>> /\ \A k \in Handler \ {h} : Untouched(k)
        /\ stage[h] \in {"append", "page", "touch"} => Keeps(h)
    BY <1>3, HandleTouches
  <2>2. ASSUME NEW d \in Device, server[d] = h PROVE Keeps(h)
    <3>1. stage[h] \in {"append", "page", "touch", "answer"}
      BY <2>2, NoneAssumption DEF SystemInv, DevicesInv, WaitingOK
    <3>2. stage[h] # "answer"
      BY <1>3 DEF Handle, Pull, Record, AnswerSync, AnswerDevices, AnswerRemove, AnswerFailure
    <3> QED BY <2>1, <3>1, <3>2
  <2> QED BY <1>3, <2>1, <2>2, NobodyAsks DEF deviceVars, Stays
<1>4. ASSUME NEW h \in Handler, Unread(h) \/ Manage(h) PROVE Leaves
  <2>1. /\ UNCHANGED <<entries, lastSequence>> /\ ~LookedUp(h)'
        /\ \A k \in Handler \ {h} : Untouched(k)
    BY <1>4, FinishTouches, StartTouches DEF Unread, Manage
  <2>2. UNCHANGED <<cursor, applied, server>>
    BY <1>4 DEF Unread, Manage, deviceVars
  <2> QED BY <2>1, <2>2, NobodyAsks DEF Keeps, Stays
<1>5. CASE Restart
  <2>1. server' = [d \in Device |-> None] /\ Stays
    BY <1>5 DEF Restart, Restarted, ServerReset, tables, Stays
  <2> QED BY <2>1, NoneAssumption, NothingAskedNext DEF Leaves
<1>6. CASE (Tick /\ UNCHANGED deviceVars) \/ UNCHANGED systemVars
  <2>1. /\ \A k \in Handler : Untouched(k)
        /\ Stays /\ server' = server
    BY <1>6
    DEF Tick, systemVars, deviceVars, allVars, vars, tables, results, serverVars, Stays, Untouched
  <2> QED BY <2>1, AskedFollows DEF Leaves
<1>7. ASSUME NEW h \in Handler, (StoreStep(h) /\ UNCHANGED deviceVars) \/ CallFails(h)
      PROVE  Leaves \/ Pushes(h) \/ \E d \in Device : Asks(d)
  BY <1>7, CallsAreKinds DEF CallFails, deviceVars
<1> QED
  BY <1>1, <1>2, <1>3, <1>4, <1>5, <1>6, <1>7, AnswerIsTaken DEF SystemNext, Serve

-----------------------------------------------------------------------------
(* The pages that are asked for.                                           *)

HasPage(h) == stage[h] = "touch" \/ Exchanged(h)

\* A page with entries ends where the log ended when it was looked up, or below.
WithinOK(h) ==
    (pc[h] = "paged" /\ page[h].entries # {}) => page[h].cursor <= offered[h]

\* So does the one that is answered, and when that is empty there was nothing to be
\* given then.
AnswerOK(h) == HasPage(h) =>
    /\ exchange[h].entries # {} => exchange[h].cursor <= asOf[h]
    /\ exchange[h].entries = {} =>
          \A r \in Matching(entries, request[h].dataset, request[h].device, request[h].cursor) :
              r.sequence > asOf[h]

\* A sync goes to the dataset of the device that it is from.
OwnOK(h) == Syncing(h) => request[h].dataset = DatasetOf[request[h].device]

PagesInv == \A h \in Handler : WithinOK(h) /\ AnswerOK(h) /\ OwnOK(h)

\* How a page is made.
LEMMA PagedWithin ==
    ASSUME SystemInv, SystemInv', [SystemNext]_systemVars, PagesInv, NEW h \in Handler,
           pc'[h] = "paged", page'[h].entries # {}
    PROVE  page'[h].cursor <= offered'[h]
<1>0. StoreInvariant /\ StoreInvariant' /\ TypeOK
  BY DEF SystemInv, ServerInv, StoreInvariant
<1>1. CASE PageLeftAlone(h)
  BY <1>1 DEF PageLeftAlone, PagesInv, WithinOK
<1>2. ASSUME NEW k \in Handler, ReadPage(k), ~PageLeftAlone(h)
      PROVE  page'[h].cursor <= offered'[h]
  <2>1. k = h
    BY <1>0, <1>2 DEF ReadPage, PageRead, PageLeftAlone, TypeOK
  <2>2. pc[h] = "scan" /\ lastSequence' = lastSequence /\ offered' = offered
    BY <1>2, <2>1 DEF ReadPage, PageRead, tables
  <2>3. offered[h] = lastSequence
    BY <1>0, <2>2 DEF StoreInvariant, ScanIsCurrent
  <2>4. page'[h].cursor <= lastSequence'
    BY <1>0 DEF StoreInvariant, PageEndsInLog
  <2> QED BY <2>2, <2>3, <2>4
<1>3. ASSUME NEW k \in Handler, ReadHighWater(k), ~PageLeftAlone(h)
      PROVE  FALSE
  <2>1. k = h
    BY <1>0, <1>3 DEF ReadHighWater, PageLeftAlone, TypeOK
  <2>2. page'[h].entries = page[h].entries /\ pc[h] = "highWater"
    BY <1>0, <1>3, <2>1 DEF ReadHighWater, TypeOK, Page
  <2> QED BY <1>0, <2>2 DEF StoreInvariant, EmptyPageWasEmpty
<1>4. CASE Restart
  BY <1>4 DEF Restart, Restarted, ServerReset
<1>5. CASE ~Restart
  <2>1. [Next]_vars
    <3>1. [ServerNext]_allVars
      BY <1>5, SystemIsServed, SystemStepIsServerStep
    <3>2. ServerInvariant
      BY SMTT(30) DEF SystemInv, ServerInv
    <3> QED BY <3>1, <3>2, ServerStepIsStoreStep
  <2>2. ASSUME NEW k \in Handler, EntryCalls(k) \/ DeviceCalls(k) PROVE PageLeftAlone(h)
    BY <1>0, <2>2, CallsAreQuiet DEF Quiet
  <2>3. ASSUME NEW k \in Handler, Return(k) \/ Step(k), ~ReadPage(k), ~ReadHighWater(k)
        PROVE  PageLeftAlone(h)
    BY <1>0, <2>3, StepIsQuiet DEF Quiet
  <2>4. ASSUME UNCHANGED vars PROVE PageLeftAlone(h)
    BY <2>4 DEF vars, results, PageLeftAlone
  <2> QED BY <1>1, <1>2, <1>3, <2>1, <2>2, <2>3, <2>4 DEF Next
<1> QED BY <1>4, <1>5

\* How a handler comes to have a page to answer.
LEMMA PageComes ==
    ASSUME SystemInv, [SystemNext]_systemVars, NEW h \in Handler, HasPage(h)'
    PROVE  \/ Record(h)
           \/ HasPage(h) /\ request'[h] = request[h] /\ exchange'[h] = exchange[h]
                         /\ asOf'[h] = asOf[h]
<1> DEFINE Kept == /\ HasPage(h) /\ request'[h] = request[h]
                   /\ exchange'[h] = exchange[h] /\ asOf'[h] = asOf[h]
<1>0. /\ HandlerOK(h) /\ stage \in [Handler -> Stages]
      /\ status \in [Handler -> {0, OK, NoContent, NotFound, InternalServerError}]
  BY DEF SystemInv, ServerInv, ServerInvariant, ServerTypes
<1>1. ASSUME Untouched(h) PROVE Kept
  BY <1>1 DEF Untouched, HasPage, Exchanged, Syncing
<1>2. ASSUME stage'[h] \notin {"touch", "answer"} PROVE FALSE
  BY <1>2 DEF HasPage, Exchanged
<1>3. ASSUME NEW k \in Handler,
             \/ \E r : StartSync(k, r)
             \/ \E dataset : StartDevices(k, dataset)
             \/ \E dataset, device : StartRemove(k, dataset, device)
      PROVE  Kept
  <2>1. stage'[h] = stage[h] \/ stage'[h] \in {"append", "devices", "remove"}
    BY <1>0, <1>3 DEF StartSync, StartDevices, StartRemove, Enter
  <2>2. k # h
    <3>1. k = h => stage'[h] \in {"append", "devices", "remove"}
      BY <1>0, <1>3 DEF StartSync, StartDevices, StartRemove, Enter
    <3> QED BY <1>2, <3>1
  <2> QED BY <1>1, <1>3, <2>2, StartTouches
<1>4. ASSUME NEW k \in Handler, Finish(k) PROVE Kept
  <2>1. k # h
    BY <1>0, <1>2, <1>4 DEF Finish, Enter
  <2> QED BY <1>1, <1>4, <2>1, FinishTouches
<1>5. ASSUME NEW k \in Handler, Handle(k), k # h PROVE Kept
  BY <1>1, <1>5, HandleTouches
<1>6. ASSUME NEW k \in Handler, StoreStep(k) \/ StoreFailure(k) PROVE Kept
  BY <1>6 DEF StoreStep, StoreFailure, serverVars, HasPage, Exchanged, Syncing
<1>7. CASE Pull(h)
  BY <1>0, <1>2, <1>7 DEF Pull, Enter
<1>8. ASSUME NEW code, Answer(h, code), code = OK => stage[h] \in {"touch", "devices"}
      PROVE  Kept
  <2>1. request' = request /\ exchange' = exchange /\ asOf' = asOf
        /\ stage'[h] = "answer" /\ status'[h] = code
    BY <1>0, <1>8 DEF Answer, Enter
  <2>2. code = OK /\ request[h].name # None
    BY <2>1 DEF HasPage, Exchanged, Syncing
  <2>3. stage[h] = "devices" => request[h].name = None
    BY <1>0 DEF HandlerOK, ArgumentsMatch
  <2> QED BY <1>8, <2>1, <2>2, <2>3 DEF HasPage
<1>9. CASE AnswerSync(h) \/ AnswerDevices(h) \/ AnswerRemove(h) \/ AnswerFailure(h)
  <2>1. \E code : Answer(h, code) /\ (code = OK => stage[h] \in {"touch", "devices"})
    BY <1>9 DEF AnswerSync, AnswerDevices, AnswerRemove, AnswerFailure,
                OK, NoContent, NotFound, InternalServerError
  <2> QED BY <1>8, <2>1
<1>10. CASE Restart
  BY <1>0, <1>2, <1>10 DEF Restart, Restarted, ServerReset
<1>11. CASE [ServerNext]_allVars
  <2>1. CASE Tick \/ UNCHANGED allVars
    BY <1>1, <2>1 DEF Tick, allVars, vars, results, serverVars, Untouched
  <2> QED
    BY <1>3, <1>4, <1>5, <1>6, <1>7, <1>9, <1>11, <2>1 DEF ServerNext, Handle
<1> QED BY <1>10, <1>11, SystemIsServed, SystemStepIsServerStep

LEMMA PagesStep ==
    ASSUME SystemInv, SystemInv', [SystemNext]_systemVars, PagesInv
    PROVE  PagesInv'
<1>1. ASSUME NEW h \in Handler PROVE WithinOK(h)'
  BY PagedWithin DEF WithinOK
<1>2. ASSUME NEW h \in Handler PROVE AnswerOK(h)'
  <2> SUFFICES ASSUME HasPage(h)' PROVE AnswerOK(h)'
    BY DEF AnswerOK
  <2>1. CASE Record(h)
    <3>1. /\ exchange'[h] = page[h] /\ asOf'[h] = offered[h] /\ request' = request
          /\ entries' = entries /\ stage[h] = "page" /\ pc[h] = "paged"
      BY <2>1
      DEF Record, CallTouchDevice, Call, tables, SystemInv, ServerInv, ServerInvariant, ServerTypes
    <3>2. /\ args[h].dataset = request[h].dataset /\ args[h].device = request[h].device
          /\ args[h].after = request[h].cursor
      BY <3>1 DEF SystemInv, ServerInv, ServerInvariant, HandlerOK, ArgumentsMatch
    <3>3. page[h].entries # {} => page[h].cursor <= offered[h]
      BY <3>1 DEF PagesInv, WithinOK
    <3>4. page[h].entries = {} =>
              \A r \in Matching(entries, args[h].dataset, args[h].device, args[h].after) :
                  r.sequence > offered[h]
      BY <3>1 DEF SystemInv, ServerInv, StoreInvariant, EmptyPageWasEmpty
    <3> QED BY <3>1, <3>2, <3>3, <3>4 DEF AnswerOK
  <2>2. CASE /\ HasPage(h) /\ request'[h] = request[h] /\ exchange'[h] = exchange[h]
             /\ asOf'[h] = asOf[h]
    <3>1. AnswerOK(h)
      BY DEF PagesInv
    <3>2. exchange[h].entries = {} =>
              asOf[h] \in Nat /\ asOf[h] <= lastSequence /\ lastSequence \in Nat
      BY <2>2
      DEF HasPage, SystemInv, ServerInv, ServerInvariant, ServerTypes, HandlerOK, EmptyKept,
          StoreInvariant, TypeOK
    <3>3. \A r \in entries' : r \in entries \/ (r.sequence > lastSequence /\ r.sequence \in Nat)
      BY SystemIsServed, SystemKeepsServer
      DEF LogGrows, SystemInv, ServerInv, StoreInvariant, TypeOK, Entry
    <3>4. ASSUME exchange[h].entries = {}
          PROVE  \A r \in Matching(entries', request[h].dataset, request[h].device,
                                   request[h].cursor) : r.sequence > asOf[h]
      BY <2>2, <3>1, <3>2, <3>3, <3>4 DEF AnswerOK, Matching
    <3> QED BY <2>2, <3>1, <3>4 DEF AnswerOK
  <2> QED BY <2>1, <2>2, PageComes
<1>3. ASSUME NEW h \in Handler PROVE OwnOK(h)'
  <2> SUFFICES ASSUME Syncing(h)' PROVE request'[h].dataset = DatasetOf[request'[h].device]
    BY DEF OwnOK
  <2>1. ASSUME NEW d \in Device, Exchange(d, h)
        PROVE  request'[h].dataset = DatasetOf[request'[h].device]
    <3>1. server'[d] = h /\ request'[h].device = d
      BY <2>1, ExchangeSends
    <3> QED BY <3>1, NoneAssumption DEF SystemInv, DevicesInv, WaitingOK
  <2> QED BY <2>1, SyncComes DEF PagesInv, OwnOK
<1> QED BY <1>1, <1>2, <1>3 DEF PagesInv

-----------------------------------------------------------------------------
(* The devices.                                                            *)

\* A device has replayed all between the cursor it keeps and its position, which
\* was in the log when it asked.
ComeInv == \A d \in Device :
    /\ \A r \in Others(d) :
          (cursor[d] < r.sequence /\ r.sequence <= Position(d)) => r.sequence \in applied[d]
    /\ \A n \in AskedAt(d) : Position(d) <= n

ReplayInv == PagesInv /\ ComeInv


\* A device that is given nothing stays where it is.
LEMMA DeviceStays ==
    ASSUME SystemInv, SystemInv', LogGrows, ComeInv, NEW d \in Device,
           cursor'[d] = cursor[d], applied'[d] = applied[d]
    PROVE  /\ Position(d)' = Position(d)
           /\ \A r \in Others(d)' :
                 (cursor'[d] < r.sequence /\ r.sequence <= Position(d)')
                 => r.sequence \in applied'[d]
<1>1. Position(d)' = Position(d)
  BY DEF Position
<1>2. PositionOK(d)
  BY PositionIsLargest DEF PositionsOK
<1>3. /\ lastSequence \in Nat
      /\ \A r \in entries' : r.sequence \in Nat
      /\ \A r \in entries' \ entries : r.sequence > lastSequence
  BY DEF SystemInv, ServerInv, StoreInvariant, TypeOK, Entry, LogGrows
<1>4. ASSUME NEW r \in Others(d)', r.sequence <= Position(d)
      PROVE  r \in Others(d)
  BY <1>2, <1>3, <1>4 DEF PositionOK, Others
<1> QED BY <1>1, <1>4 DEF ComeInv

\* What a device goes on to when it is given a page, kept or not, is above where
\* it was, and nothing that the page was to have is missing up to there.
LEMMA PageAdvances ==
    ASSUME SystemInv, SystemInv', PagesInv, ComeInv,
           NEW d \in Device, NEW h \in Handler, Takes(d, h)
    PROVE  /\ Position(d) <= Position(d)' /\ Position(d) <= asOf[h]
           /\ \A r \in Others(d)' :
                 (cursor'[d] < r.sequence /\ r.sequence <= Position(d)')
                 => r.sequence \in applied'[d]
           /\ exchange[h].entries # {} =>
                 /\ Position(d)' <= asOf[h]
                 /\ applied'[d] = applied[d] \cup
                       {r.sequence : r \in {o \in Others(d) : /\ o.sequence > Position(d)
                                                              /\ o.sequence <= Position(d)'}}
           /\ exchange[h].entries = {} =>
                 /\ applied'[d] = applied[d]
                 /\ \A r \in Others(d) : r.sequence > Position(d) => r.sequence > asOf[h]
<1>1. PositionOK(d) /\ PositionOK(d)'
  <2>1. PositionsOK'
    BY PositionIsLargest, PTL
  <2> QED BY <2>1, PositionIsLargest DEF PositionsOK
<1>2. /\ WaitingOK(d) /\ HandlerOK(h) /\ CursorOK(h, lastSequence) /\ h # None
      /\ cursor \in [Device -> Nat] /\ applied \in [Device -> SUBSET Nat]
      /\ exchange[h].cursor \in Nat /\ asOf[h] \in Nat /\ lastSequence \in Nat
      /\ \A r \in entries : r.sequence \in Nat
  BY NoneAssumption
  DEF SystemInv, DevicesInv, SystemTypeOK, ServerInv, ServerInvariant, ServerTypes, Page,
      StoreInvariant, TypeOK, Entry
<1>3. /\ server[d] = h /\ Exchanged(h) /\ request[h].dataset = DatasetOf[d]
      /\ request[h].device = d /\ request[h].cursor = cursor[d]
      /\ UNCHANGED <<entries, lastSequence>> /\ AskedAt(d) = {asOf[h]}
      /\ applied'[d] = applied[d] \cup Sequences(exchange[h].entries)
      /\ cursor'[d] \in {cursor[d], exchange[h].cursor}
  BY <1>2, SystemAssumption DEF Takes, TakesPage, WaitingOK, Exchanged, Syncing
<1>4. /\ cursor[d] <= exchange[h].cursor
      /\ exchange[h].entries # {} =>
            /\ exchange[h].cursor <= asOf[h]
            /\ exchange[h].entries = {r \in Others(d) : /\ r.sequence > cursor[d]
                                                        /\ r.sequence <= exchange[h].cursor}
      /\ exchange[h].entries = {} =>
            \A r \in Others(d) : r.sequence > cursor[d] => r.sequence > asOf[h]
  <2>1. cursor[d] <= exchange[h].cursor
    BY <1>2, <1>3 DEF CursorOK
  <2>2. ASSUME exchange[h].entries # {}
        PROVE  /\ exchange[h].cursor <= asOf[h]
               /\ exchange[h].entries = {r \in Others(d) : /\ r.sequence > cursor[d]
                                                           /\ r.sequence <= exchange[h].cursor}
    <3>1. Pending(h) = exchange[h].entries
      BY <1>2, <1>3, <2>2 DEF HandlerOK, PageKept
    <3>2. Pending(h) = {r \in Others(d) : /\ r.sequence > cursor[d]
                                          /\ r.sequence <= exchange[h].cursor}
      BY <1>3 DEF Pending, Matching, Others
    <3>3. exchange[h].cursor <= asOf[h]
      BY <1>3, <2>2 DEF PagesInv, AnswerOK, HasPage
    <3> QED BY <3>1, <3>2, <3>3
  <2>3. ASSUME exchange[h].entries = {}
        PROVE  \A r \in Others(d) : r.sequence > cursor[d] => r.sequence > asOf[h]
    BY <1>3, <2>3 DEF PagesInv, AnswerOK, HasPage, Matching, Others
  <2> QED BY <2>1, <2>2, <2>3
<1>5. cursor[d] <= Position(d) /\ cursor[d] <= cursor'[d] /\ cursor[d] \in Nat /\ cursor'[d] \in Nat
  BY <1>1, <1>2, <1>3, <1>4 DEF PositionOK
<1>6. Position(d) <= Position(d)' /\ Position(d) \in Nat /\ Position(d)' \in Nat
  <2>1. \A q \in applied[d] : q <= Position(d)'
    BY <1>1, <1>3 DEF PositionOK
  <2>2. cursor[d] <= Position(d)'
    BY <1>1, <1>5 DEF PositionOK
  <2> QED BY <1>1, <2>1, <2>2 DEF PositionOK
<1>7. ASSUME NEW s \in Sequences(exchange[h].entries)
      PROVE  s \in Nat /\ s <= exchange[h].cursor /\ exchange[h].entries # {}
  BY <1>2, <1>4 DEF Sequences, Others
<1>8. Position(d)' > Position(d) =>
          Position(d)' \in Sequences(exchange[h].entries) \/ Position(d)' = cursor'[d]
  <2> SUFFICES ASSUME Position(d)' > Position(d)
               PROVE  Position(d)' \in Sequences(exchange[h].entries) \cup {cursor'[d]}
    OBVIOUS
  <2>1. Position(d)' \notin applied[d]
    BY <1>1, <1>6 DEF PositionOK
  <2> QED BY <1>1, <1>3, <2>1 DEF PositionOK
<1>9. Position(d) <= asOf[h]
  BY <1>3 DEF ComeInv
<1>10. ASSUME exchange[h].entries # {} PROVE Position(d)' <= asOf[h]
  <2>1. CASE Position(d)' = Position(d)
    BY <1>9, <2>1
  <2>2. CASE Position(d)' > Position(d)
    <3>1. Position(d)' <= exchange[h].cursor
      <4>1. Position(d)' # cursor[d]
        BY <1>5, <1>6, <2>2
      <4> QED BY <1>2, <1>3, <1>7, <1>8, <2>2, <4>1
    <3> QED BY <1>2, <1>4, <1>6, <1>10, <3>1
  <2> QED BY <1>6, <2>1, <2>2
<1>11. ASSUME NEW r \in Others(d), r.sequence > Position(d), r.sequence <= Position(d)',
              cursor'[d] < r.sequence \/ exchange[h].entries # {}
       PROVE  r.sequence \in Sequences(exchange[h].entries)
  <2>1. r.sequence \in Nat /\ r.sequence > cursor[d]
    BY <1>2, <1>5, <1>6, <1>11 DEF Others
  <2>2. Position(d)' > Position(d) /\ Position(d)' # cursor[d]
    BY <1>5, <1>6, <1>11, <2>1
  <2>3. exchange[h].entries # {}
    <3>1. ASSUME cursor'[d] < r.sequence PROVE Position(d)' # cursor'[d]
      BY <1>5, <1>6, <1>11, <2>1, <3>1
    <3> QED BY <1>7, <1>8, <1>11, <2>2, <3>1
  <2>4. r.sequence <= exchange[h].cursor
    <3>1. Position(d)' <= exchange[h].cursor
      BY <1>2, <1>3, <1>7, <1>8, <2>2
    <3> QED BY <1>2, <1>6, <1>11, <2>1, <3>1
  <2>5. r \in exchange[h].entries
    BY <1>4, <2>1, <2>3, <2>4
  <2> QED BY <2>5 DEF Sequences
<1>12. ASSUME NEW r \in exchange[h].entries
       PROVE  /\ r \in Others(d) /\ r.sequence \in Nat /\ r.sequence <= Position(d)'
              /\ r.sequence <= Position(d) => r.sequence \in applied[d]
  <2>1. r \in Others(d) /\ r.sequence > cursor[d] /\ r.sequence \in Nat
    BY <1>2, <1>4 DEF Others
  <2>2. r.sequence <= Position(d)'
    BY <1>1, <1>3 DEF PositionOK, Sequences
  <2> QED BY <2>1, <2>2 DEF ComeInv
<1> DEFINE between == {o \in Others(d) : o.sequence > Position(d) /\ o.sequence <= Position(d)'}
<1>13. ASSUME exchange[h].entries # {}
       PROVE  applied'[d] = applied[d] \cup {r.sequence : r \in between}
  <2>1. ASSUME NEW s \in Sequences(exchange[h].entries)
        PROVE  s \in applied[d] \cup {r.sequence : r \in between}
    <3>1. PICK r \in exchange[h].entries : s = r.sequence
      BY DEF Sequences
    <3> QED BY <1>6, <1>12, <3>1
  <2>2. ASSUME NEW r \in between
        PROVE  r.sequence \in applied'[d]
    BY <1>3, <1>11, <1>13
  <2> QED BY <1>3, <2>1, <2>2
<1>14. ASSUME NEW r \in Others(d)', cursor'[d] < r.sequence, r.sequence <= Position(d)'
       PROVE  r.sequence \in applied'[d]
  <2>1. r \in Others(d) /\ r.sequence \in Nat
    BY <1>2, <1>3 DEF Others
  <2>2. CASE r.sequence > Position(d)
    BY <1>3, <1>11, <1>14, <2>1, <2>2
  <2>3. CASE r.sequence <= Position(d)
    <3>1. cursor[d] < r.sequence
      BY <1>5, <1>14, <2>1
    <3> QED BY <1>3, <2>1, <2>3, <3>1 DEF ComeInv
  <2> QED BY <1>6, <2>1, <2>2, <2>3
<1>15. ASSUME exchange[h].entries = {}
       PROVE  /\ applied'[d] = applied[d]
              /\ \A r \in Others(d) : r.sequence > Position(d) => r.sequence > asOf[h]
  <2>1. Sequences({}) = {}
    BY DEF Sequences
  <2>2. ASSUME NEW r \in Others(d), r.sequence > Position(d) PROVE r.sequence > cursor[d]
    BY <1>2, <1>5, <1>6, <2>2 DEF Others
  <2> QED BY <1>3, <1>4, <1>15, <2>1, <2>2
<1> HIDE DEF between
<1> QED BY <1>6, <1>9, <1>10, <1>13, <1>14, <1>15 DEF between

LEMMA ComeStep ==
    ASSUME SystemInv, SystemInv', [SystemNext]_systemVars, ReplayInv
    PROVE  ComeInv'
<1>0. /\ LogGrows /\ PositionsOK /\ lastSequence \in Nat
      /\ cursor \in [Device -> Nat] /\ applied \in [Device -> SUBSET Nat]
  BY SystemIsServed, SystemKeepsServer, PositionIsLargest
  DEF SystemInv, DevicesInv, SystemTypeOK, ServerInv, StoreInvariant, TypeOK
<1>1. ASSUME NEW d \in Device, cursor'[d] = cursor[d], applied'[d] = applied[d],
             AskedAt(d)' \in {AskedAt(d), {}, {lastSequence}}
      PROVE  /\ \A r \in Others(d)' :
                   (cursor'[d] < r.sequence /\ r.sequence <= Position(d)')
                   => r.sequence \in applied'[d]
             /\ \A n \in AskedAt(d)' : Position(d)' <= n
  <2>1. Position(d)' = Position(d) /\ Position(d) <= lastSequence
    BY <1>0, <1>1, DeviceStays DEF PositionsOK, PositionOK, ReplayInv
  <2>2. \A n \in AskedAt(d)' : Position(d)' <= n
    BY <1>1, <2>1 DEF ReplayInv, ComeInv
  <2> QED BY <1>0, <1>1, <2>2, DeviceStays DEF ReplayInv
<1>2. CASE Leaves
  BY <1>1, <1>2 DEF Leaves, Stays, ComeInv
<1>3. ASSUME NEW e \in Device, Asks(e) PROVE ComeInv'
  <2>1. \A d \in Device : AskedAt(d)' \in {AskedAt(d), {}, {lastSequence}}
    BY <1>3 DEF Asks
  <2> QED BY <1>1, <1>3, <2>1 DEF Asks, Stays, ComeInv
<1>4. ASSUME NEW h \in Handler, Pushes(h) PROVE ComeInv'
  BY <1>1, <1>4 DEF Pushes, ComeInv
<1>5. ASSUME NEW e \in Device, NEW h \in Handler, Takes(e, h) PROVE ComeInv'
  <2>1. ASSUME NEW d \in Device, d # e
        PROVE  /\ cursor'[d] = cursor[d] /\ applied'[d] = applied[d]
               /\ AskedAt(d)' \in {AskedAt(d), {}, {lastSequence}}
    BY <1>0, <1>5, <2>1 DEF Takes, TakesPage
  <2>2. /\ \A r \in Others(e)' :
              (cursor'[e] < r.sequence /\ r.sequence <= Position(e)') => r.sequence \in applied'[e]
        /\ AskedAt(e)' = {}
    BY <1>5, PageAdvances DEF ReplayInv, Takes
  <2> QED BY <1>1, <2>1, <2>2 DEF ComeInv
<1> QED BY <1>2, <1>3, <1>4, <1>5, StepsAreKinds

LEMMA ReplayStep ==
    ASSUME SystemInv, SystemInv', [SystemNext]_systemVars, ReplayInv
    PROVE  ReplayInv'
BY PagesStep, ComeStep DEF ReplayInv

-----------------------------------------------------------------------------
(* The refinement.                                                         *)


Positions == [d \in Device |-> Position(d)]

Asked == [d \in Device |-> AskedAt(d)]

\* What nobody has to do with a device leaves its position.
LEMMA PositionsStay ==
    ASSUME NEW d \in Device, \A e \in Device \ {d} : cursor'[e] = cursor[e] /\ applied'[e] = applied[e]
    PROVE  Positions' = [Positions EXCEPT ![d] = Position(d)']
<1>1. \A e \in Device \ {d} : Position(e)' = Position(e)
  BY DEF Position
<1> QED BY <1>1 DEF Positions

\* A commit is a push of the device whose request it serves.
LEMMA CommitPushes ==
    ASSUME SystemInv, ReplayInv, NEW h \in Handler, Pushes(h)
    PROVE  \E d \in Device : View!Push(d)
<1> DEFINE d == args[h].device
           batch == args[h].blobs
<1>0. StoreInvariant /\ HandlerOK(h)
  BY DEF SystemInv, ServerInv, ServerInvariant
<1>1. /\ pc[h] = "insert" /\ Inserted = Len(batch) /\ UNCHANGED <<cursor, applied>>
      /\ entries' = entries \cup txEntries /\ lastSequence' = txSequence
  BY DEF Pushes, CommitAppend
<1>2. stage[h] = "append" /\ Syncing(h)
  BY CommitIsOfSync DEF Pushes
<1>3. d \in Device /\ args[h].dataset = DatasetOf[d]
  BY <1>0, <1>2 DEF HandlerOK, ArgumentsMatch, ReplayInv, PagesInv, OwnOK, Requests
<1>4. /\ txEntries = {Row(lastSequence + i, DatasetOf[d], d, batch[i]) : i \in 1..Len(batch)}
      /\ txSequence <= MaxSequence
  BY <1>0, <1>1, <1>3 DEF StoreInvariant, TransactionFollowsLog
<1>5. lastSequence' = lastSequence + Len(batch) /\ lastSequence + Len(batch) <= MaxSequence
  <2>1. Len(batch) \in Nat
    BY <1>0, BlobsAreSequence DEF StoreInvariant
  <2>2. txSequence - lastSequence = Len(batch)
    BY <1>1 DEF Inserted
  <2>3. txSequence \in Nat /\ lastSequence \in Nat
    BY <1>0 DEF StoreInvariant, TypeOK
  <2> HIDE DEF batch
  <2> QED BY <1>1, <1>4, <2>1, <2>2, <2>3
<1>6. batch \in View!Batch
  <2>1. /\ args[h] \in Args /\ Len(batch) > 0
    BY <1>0, <1>1 DEF StoreInvariant, TypeOK, ArgumentsGiven
  <2>2. batch \in [1..Len(batch) -> Blob] /\ Len(batch) \in 1..MaxBatch
    BY <2>1, BatchIsSequence DEF Args
  <2> QED BY <2>2 DEF View!Batch
<1>7. Positions' = Positions /\ Asked' = Asked
  BY <1>1 DEF Positions, Position, Asked, Pushes
<1>8. View!Push(d)
  BY <1>1, <1>4, <1>5, <1>6, <1>7 DEF View!Push, View!Row, Row, Positions, Asked
<1> QED BY <1>3, <1>8

\* To be given a page is to be delivered what the others have up to its end.
LEMMA PageDelivers ==
    ASSUME SystemInv, SystemInv', ReplayInv, NEW d \in Device, NEW h \in Handler, Takes(d, h)
    PROVE  View!Deliver(d) \/ View!DeliverNothing(d)
<1> DEFINE p == Position(d)
           q == Position(d)'
           n == asOf[h]
<1>1. /\ UNCHANGED <<entries, lastSequence>> /\ Asked[d] = {n}
      /\ applied \in [Device -> SUBSET Nat] /\ cursor \in [Device -> Nat] /\ n \in Nat
      /\ \A e \in Device \ {d} : cursor'[e] = cursor[e] /\ applied'[e] = applied[e]
      /\ applied' = [applied EXCEPT ![d] = applied'[d]]
  BY DEF Takes, TakesPage, Asked, SystemInv, DevicesInv, SystemTypeOK, ServerInv, ServerInvariant,
         ServerTypes
<1>2. Asked' = [Asked EXCEPT ![d] = {}]
  BY DEF Takes, Asked
<1>3. Positions' = [Positions EXCEPT ![d] = q] /\ Positions[d] = p
  BY <1>1, PositionsStay DEF Positions
<1>4. p \in Nat /\ q \in Nat /\ p <= q /\ q <= lastSequence /\ lastSequence \in Nat
  <2>1. PositionsOK'
    BY PositionIsLargest, PTL
  <2>2. PositionOK(d) /\ PositionOK(d)'
    BY <2>1, PositionIsLargest DEF PositionsOK
  <2>3. p <= q
    BY PageAdvances DEF ReplayInv
  <2> QED
    BY <1>1, <2>2, <2>3 DEF PositionOK, SystemInv, ServerInv, StoreInvariant, TypeOK
<1>5. ASSUME NEW k
      PROVE  View!OthersBetween(d, p, k)
                = {r.sequence : r \in {o \in Others(d) : o.sequence > p /\ o.sequence <= k}}
  <2>1. {o \in View!Matching(entries, DatasetOf[d], d, p) : o.sequence <= k}
          = {o \in Others(d) : o.sequence > p /\ o.sequence <= k}
    BY DEF View!Matching, Others
  <2> QED BY <2>1 DEF View!OthersBetween
<1>6. CASE exchange[h].entries # {}
  <2>1. /\ q <= n
        /\ applied'[d] = applied[d] \cup
              {r.sequence : r \in {o \in Others(d) : o.sequence > p /\ o.sequence <= q}}
    BY <1>6, PageAdvances DEF ReplayInv
  <2>2. q \in p..n
    BY <1>1, <1>4, <2>1
  <2>3. applied' = [applied EXCEPT ![d] = @ \cup View!OthersBetween(d, p, q)]
    BY <1>1, <1>5, <2>1
  <2> HIDE DEF p, q, n
  <2>4. View!Deliver(d)
    BY <1>1, <1>2, <1>3, <2>2, <2>3 DEF View!Deliver, Positions, Asked
  <2> QED BY <2>4
<1>7. CASE exchange[h].entries = {}
  <2>1. /\ applied'[d] = applied[d]
        /\ \A r \in Others(d) : r.sequence > p => r.sequence > n
    BY <1>7, PageAdvances DEF ReplayInv
  <2>2. View!OthersBetween(d, p, n) = {}
    <3>1. \A r \in Others(d) : r.sequence \in Nat
      BY DEF Others, SystemInv, ServerInv, StoreInvariant, TypeOK, Entry
    <3>2. {o \in Others(d) : o.sequence > p /\ o.sequence <= n} = {}
      BY <1>1, <2>1, <3>1
    <3> QED BY <1>5, <3>2
  <2>3. q \in p..lastSequence /\ applied' = applied
    BY <1>1, <1>4, <2>1
  <2> HIDE DEF p, q, n
  <2>4. View!DeliverNothing(d)
    BY <1>1, <1>2, <1>3, <2>2, <2>3 DEF View!DeliverNothing, Positions, Asked
  <2> QED BY <2>4
<1> QED BY <1>6, <1>7

LEMMA StepReplays ==
    ASSUME SystemInv, SystemInv', [SystemNext]_systemVars, ReplayInv
    PROVE  View!Next
<1>1. CASE Leaves
  <2>1. UNCHANGED <<entries, lastSequence, applied>> /\ Positions' = Positions
    BY <1>1 DEF Leaves, Stays, Positions, Position
  <2>2. Asked' = [d \in Device |-> IF d \in {e \in Device : AskedAt(e)' = {}} THEN {} ELSE Asked[d]]
    BY <1>1 DEF Leaves, Asked
  <2>3. View!Leave
    BY <2>1, <2>2 DEF View!Leave, Positions, Asked
  <2> QED BY <2>3 DEF View!Next
<1>2. ASSUME NEW d \in Device, Asks(d) PROVE View!Next
  <2>1. UNCHANGED <<entries, lastSequence, applied>> /\ Positions' = Positions
    BY <1>2 DEF Asks, Stays, Positions, Position
  <2>2. Asked[d] = {} /\ Asked' = [Asked EXCEPT ![d] = {lastSequence}]
    BY <1>2 DEF Asks, Asked
  <2>3. View!Ask(d)
    BY <2>1, <2>2 DEF View!Ask, Positions, Asked
  <2> QED BY <2>3 DEF View!Next
<1>3. ASSUME NEW d \in Device, NEW h \in Handler, Takes(d, h) PROVE View!Next
  BY <1>3, PageDelivers DEF View!Next
<1>4. ASSUME NEW h \in Handler, Pushes(h) PROVE View!Next
  BY <1>4, CommitPushes DEF View!Next
<1> QED BY <1>1, <1>2, <1>3, <1>4, StepsAreKinds

LEMMA ReplayInitEstablishes == SystemInit => ReplayInv /\ View!Init
<1> SUFFICES ASSUME SystemInit PROVE ReplayInv /\ View!Init
  OBVIOUS
<1>1. /\ entries = {} /\ lastSequence = 0 /\ applied = [d \in Device |-> {}]
      /\ cursor = [d \in Device |-> 0] /\ stage = [h \in Handler |-> "free"]
      /\ server = [d \in Device |-> None] /\ pc = [h \in Handler |-> "idle"]
      /\ request = [h \in Handler |-> NoRequest]
  BY DEF SystemInit, ServerInit, Init
<1>2. \A d \in Device : Position(d) = 0 /\ AskedAt(d) = {}
  BY <1>1, NoneAssumption, NothingAsked DEF Position
<1>3. PagesInv
  BY <1>1 DEF PagesInv, WithinOK, AnswerOK, OwnOK, HasPage, Exchanged, Syncing, NoRequest
<1>4. ComeInv
  BY <1>1, <1>2 DEF ComeInv, Others
<1>5. View!Init
  BY <1>1, <1>2 DEF View!Init
<1> QED BY <1>3, <1>4, <1>5 DEF ReplayInv

\* With its unreliable devices around it the server is the log of Replay, whatever
\* number of requests run at a time and whatever is lost, repeated or killed: a
\* position never goes back, a page has all of the others' entries up to where it
\* ends, and an empty one is sent past nothing that was there when it was asked for
\* (PROTOCOL.md:257-258; store.go:244-246).
THEOREM SystemIsReplay == SystemSpec => ImplementsReplay
<1>1. SystemInit => ReplayInv /\ View!Init
  BY ReplayInitEstablishes
<1>2. SystemInv /\ SystemInv' /\ ReplayInv /\ [SystemNext]_systemVars => ReplayInv' /\ View!Next
  BY ReplayStep, StepReplays
<1> QED BY <1>1, <1>2, SystemInvariant, PTL DEF SystemSpec, ImplementsReplay, View!Spec

=============================================================================
