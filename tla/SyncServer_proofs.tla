--------------------------- MODULE SyncServer_proofs ---------------------------
(***************************************************************************)
(* Proofs about SyncServer: its handlers use the store as any caller may,  *)
(* so that what is proved of the store holds behind them; and what they    *)
(* answer is what the store gave them.                                     *)
(***************************************************************************)
EXTENDS SyncServer, StoreResults_proofs

-----------------------------------------------------------------------------
(* The inductive invariant: what holds of each handler by itself.          *)

\* The arguments of the call are those of the request.
ArgumentsMatch(h) ==
    /\ stage[h] \in {"append", "page", "touch"} =>
          /\ request[h] \in Requests
          /\ args[h].dataset = request[h].dataset
          /\ args[h].device = request[h].device
    /\ stage[h] = "append" => args[h].blobs = request[h].blobs
    /\ stage[h] = "page" => args[h].after = request[h].cursor
    /\ stage[h] \in {"devices", "remove"} => request[h].name = None

BatchStored(h) ==
    \E base \in 0..lastSequence : \A i \in 1..Len(request[h].blobs) :
        Row(base + i, request[h].dataset, request[h].device, request[h].blobs[i]) \in entries

\* From the pull on, what was pushed is in the log.
PushStored(h) == (stage[h] = "page" \/ Exchanged(h) \/ stage[h] = "touch") => BatchStored(h)

\* The page to be answered ends inside the log and has no gap.
PageKept(h) ==
    ((stage[h] = "touch" \/ Exchanged(h)) /\ exchange[h].entries # {}) =>
        exchange[h].cursor <= lastSequence /\ Pending(h) = exchange[h].entries

\* An empty one passes over nothing that was stored when its query ran.
EmptyKept(h) ==
    ((stage[h] = "touch" \/ Exchanged(h)) /\ exchange[h].entries = {}) =>
        asOf[h] <= lastSequence /\ \A r \in Pending(h) : r.sequence > asOf[h]

HandlerOK(h) ==
    /\ pc[h] \in CallsOf[stage[h]]
    /\ status[h] = 0 <=> stage[h] # "answer"
    /\ ArgumentsMatch(h)
    /\ PushStored(h)
    /\ PageKept(h)
    /\ EmptyKept(h)

ServerTypes ==
    /\ stage \in [Handler -> Stages]
    /\ request \in [Handler -> Request]
    /\ exchange \in [Handler -> Page]
    /\ asOf \in [Handler -> Nat]
    /\ status \in [Handler -> {0, OK, NoContent, NotFound, InternalServerError}]
    /\ clock \in Time

ServerInvariant == ServerTypes /\ \A h \in Handler : HandlerOK(h)

-----------------------------------------------------------------------------
(* Every step of the server is a step of the store or leaves it alone.     *)

LEMMA EffectiveLimitIsLimit ==
    ASSUME NEW limit \in Limit
    PROVE  EffectiveLimit(limit) \in Limit
  BY ServerAssumption DEF EffectiveLimit

\* What a handler does to the store: it calls, returns, steps or leaves it alone.
Uses(h) == EntryCalls(h) \/ DeviceCalls(h) \/ Return(h) \/ Step(h)

LEMMA HandlerUsesStore ==
    ASSUME ServerInvariant, NEW h \in Handler
    PROVE  /\ \A r \in Requests : StartSync(h, r) => Uses(h)
           /\ \A dataset \in Dataset : StartDevices(h, dataset) => Uses(h)
           /\ \A dataset \in Dataset, device \in Device : StartRemove(h, dataset, device) => Uses(h)
           /\ OwnStep(h) => Uses(h) \/ UNCHANGED vars
<1>1. ASSUME NEW r \in Requests, StartSync(h, r)
      PROVE  EntryCalls(h)
  <2>1. r.dataset \in Dataset /\ r.device \in Device /\ r.blobs \in Batches
    BY DEF Requests
  <2> QED BY <1>1, <2>1 DEF StartSync, EntryCalls
<1>2. ASSUME NEW dataset \in Dataset, StartDevices(h, dataset)
      PROVE  DeviceCalls(h)
  BY <1>2 DEF StartDevices, DeviceCalls
<1>3. ASSUME NEW dataset \in Dataset, NEW device \in Device, StartRemove(h, dataset, device)
      PROVE  DeviceCalls(h)
  <2>1. Trim[device] \in Device
    BY ServerAssumption
  <2> QED BY <1>3, <2>1 DEF StartRemove, DeviceCalls
<1>4. ASSUME stage[h] \in {"append", "page"}
      PROVE  /\ request[h].dataset \in Dataset /\ request[h].device \in Device
             /\ request[h].name \in Name /\ request[h].cursor \in Cursor
             /\ request[h].limit \in Limit
  BY <1>4 DEF ServerInvariant, HandlerOK, ArgumentsMatch, Requests
<1>5. ASSUME Pull(h) PROVE EntryCalls(h)
  BY <1>4, <1>5, EffectiveLimitIsLimit DEF Pull, EntryCalls
<1>6. ASSUME Record(h) PROVE DeviceCalls(h)
  BY <1>4, <1>6 DEF Record, DeviceCalls, ServerInvariant, ServerTypes
<1>7. ASSUME AnswerSync(h) \/ AnswerDevices(h) \/ AnswerRemove(h) \/ AnswerFailure(h)
      PROVE  UNCHANGED vars
  BY <1>7 DEF AnswerSync, AnswerDevices, AnswerRemove, AnswerFailure, Answer
<1>8. ASSUME StoreStep(h) \/ StoreFailure(h) \/ Finish(h)
      PROVE  Step(h) \/ Return(h)
  BY <1>8 DEF StoreStep, StoreFailure, Finish, Step
<1> QED BY <1>1, <1>2, <1>3, <1>5, <1>6, <1>7, <1>8 DEF OwnStep, Handle, Uses

LEMMA ServerStepIsStoreStep ==
    ASSUME ServerInvariant, [ServerNext]_allVars
    PROVE  [Next]_vars
<1>1. ASSUME NEW h \in Handler, Uses(h) PROVE Next
  BY <1>1 DEF Uses, Next
<1>2. CASE Tick
  BY <1>2 DEF Tick
<1>3. CASE UNCHANGED allVars
  BY <1>3 DEF allVars
<1> QED BY <1>1, <1>2, <1>3, HandlerUsesStore DEF ServerNext, OwnStep

-----------------------------------------------------------------------------
(* What a handler has, it keeps while others step.                         *)

LEMMA HandlerKept ==
    ASSUME StoreInvariant, StoreInvariant', LogGrows, ServerInvariant, NEW k \in Handler,
           stage'[k] = stage[k], request'[k] = request[k],
           exchange'[k] = exchange[k], asOf'[k] = asOf[k],
           status'[k] = status[k], args'[k] = args[k], pc'[k] \in CallsOf[stage[k]]
    PROVE  HandlerOK(k)'
<1>1. HandlerOK(k)
  BY DEF ServerInvariant
<1>2. /\ lastSequence \in Nat /\ lastSequence' \in Nat /\ lastSequence <= lastSequence'
      /\ entries \subseteq entries'
      /\ \A r \in entries' \ entries : r.sequence > lastSequence
      /\ \A r \in entries' : r.sequence \in Nat
  BY DEF StoreInvariant, TypeOK, Entry, LogGrows
<1>3. exchange[k].cursor \in Nat
  BY DEF ServerInvariant, ServerTypes, Page
<1>4. pc'[k] \in CallsOf[stage'[k]] /\ (status'[k] = 0 <=> stage'[k] # "answer")
  BY <1>1 DEF HandlerOK
<1>5. ArgumentsMatch(k)'
  BY <1>1 DEF HandlerOK, ArgumentsMatch
<1>6. BatchStored(k) => BatchStored(k)'
  <2> SUFFICES ASSUME BatchStored(k) PROVE BatchStored(k)'
    OBVIOUS
  <2>1. PICK base \in 0..lastSequence : \A i \in 1..Len(request[k].blobs) :
            Row(base + i, request[k].dataset, request[k].device, request[k].blobs[i]) \in entries
    BY DEF BatchStored
  <2>2. base \in 0..lastSequence'
    BY <1>2
  <2>3. \A i \in 1..Len(request'[k].blobs) :
            Row(base + i, request'[k].dataset, request'[k].device, request'[k].blobs[i]) \in entries'
    BY <1>2, <2>1
  <2> QED BY <2>2, <2>3 DEF BatchStored
<1>7. PushStored(k)'
  BY <1>1, <1>6 DEF HandlerOK, PushStored, Exchanged, Syncing
<1>8. exchange[k].cursor <= lastSequence => Pending(k)' = Pending(k)
  <2> SUFFICES ASSUME exchange[k].cursor <= lastSequence PROVE Pending(k)' = Pending(k)
    OBVIOUS
  <2>1. \A r \in entries' \ entries : ~(r.sequence <= exchange[k].cursor)
    BY <1>2, <1>3
  <2> QED BY <1>2, <2>1 DEF Pending, Matching
<1>9. PageKept(k)'
  BY <1>1, <1>2, <1>3, <1>8 DEF HandlerOK, PageKept, Exchanged, Syncing
<1>10. \A r \in Pending(k)' : r \in Pending(k) \/ r.sequence > lastSequence
  BY <1>2 DEF Pending, Matching
<1>11. asOf[k] \in Nat
  BY DEF ServerInvariant, ServerTypes
<1>12. EmptyKept(k)'
  <2> SUFFICES ASSUME (stage[k] = "touch" \/ Exchanged(k)), exchange[k].entries = {}
               PROVE  /\ asOf'[k] <= lastSequence'
                      /\ \A r \in Pending(k)' : r.sequence > asOf'[k]
    BY DEF EmptyKept, Exchanged, Syncing
  <2>1. asOf[k] <= lastSequence /\ \A r \in Pending(k) : r.sequence > asOf[k]
    BY <1>1 DEF HandlerOK, EmptyKept
  <2>2. \A r \in Pending(k)' : r.sequence \in Nat
    BY <1>2 DEF Pending, Matching
  <2> QED BY <1>2, <1>10, <1>11, <2>1, <2>2
<1> QED BY <1>4, <1>5, <1>7, <1>9, <1>12 DEF HandlerOK

\* Only the handler that calls the store, or leaves it, changes its place.
LEMMA CallMoves ==
    ASSUME TypeOK, NEW h \in Handler, NEW label, NEW a, Call(h, label, a)
    PROVE  /\ pc'[h] = label /\ args'[h] = a
           /\ \A k \in Handler \ {h} : pc'[k] = pc[k] /\ args'[k] = args[k]
  BY DEF Call, TypeOK

\* A step of the store keeps a handler in the call it is in.
LEMMA StepMoves ==
    ASSUME StoreInvariant, NEW h \in Handler, Step(h)
    PROVE  /\ args' = args
           /\ \A k \in Handler \ {h} : pc'[k] = pc[k]
           /\ \A s \in Stages : pc[h] \in CallsOf[s] => pc'[h] \in CallsOf[s]
<1>1. TypeOK
  BY DEF StoreInvariant
<1>2. PICK label : args' = args /\ pc' = [pc EXCEPT ![h] = label] /\
          \/ pc[h] \in {"begin", "insert"} /\ label \in {"insert", "appended", "failed"}
          \/ pc[h] \in {"query", "scan", "highWater"} /\ label \in {"scan", "highWater", "paged", "failed"}
          \/ pc[h] = "upsert" /\ label \in {"touched", "failed"}
          \/ pc[h] = "list" /\ label \in {"listed", "failed"}
          \/ pc[h] = "delete" /\ label \in {"removed", "failed"}
  <2>1. CASE BeginAppend(h)
    BY <2>1 DEF BeginAppend
  <2>2. CASE QueryPage(h)
    BY <2>2 DEF QueryPage
  <2>3. CASE ReadHighWater(h)
    BY <2>3 DEF ReadHighWater
  <2>4. CASE TouchDevice(h)
    BY <2>4 DEF TouchDevice
  <2>5. CASE ListDevices(h)
    BY <2>5 DEF ListDevices
  <2>6. CASE RemoveDevice(h)
    BY <2>6 DEF RemoveDevice
  <2>7. CASE InsertEntry(h)
    <3>1. args' = args /\ pc' = [pc EXCEPT ![h] = "insert"] /\ pc[h] = "insert"
      BY <1>1, <2>7 DEF InsertEntry, TypeOK
    <3> QED BY <3>1
  <2>8. CASE CommitAppend(h)
    BY <2>8 DEF CommitAppend
  <2>9. CASE ReadPage(h)
    <3> DEFINE label == IF PageEntries(scanned[h], PageSize(h)) = {} THEN "highWater" ELSE "paged"
    <3>1. args' = args /\ pc' = [pc EXCEPT ![h] = label] /\ pc[h] = "scan"
      BY <2>9 DEF ReadPage, PageRead
    <3>2. label \in {"highWater", "paged"}
      OBVIOUS
    <3> HIDE DEF label
    <3> QED BY <3>1, <3>2
  <2>10. CASE SequencesExhausted(h) \/ FailCall(h)
    <3>1. args' = args /\ pc' = [pc EXCEPT ![h] = "failed"] /\ pc[h] \in Running
      BY <2>10 DEF SequencesExhausted, FailCall, Abort, Running
    <3> QED BY <3>1 DEF Running
  <2>11. CASE FailAfterwards(h)
    BY <2>11 DEF FailAfterwards
  <2> QED
    BY <2>1, <2>2, <2>3, <2>4, <2>5, <2>6, <2>7, <2>8, <2>9, <2>10, <2>11
    DEF Step, Acquires, Proceeds, Fails
<1>3. pc'[h] = label /\ \A k \in Handler \ {h} : pc'[k] = pc[k]
  BY <1>1, <1>2 DEF TypeOK
<1>4. ASSUME NEW s \in Stages, pc[h] \in CallsOf[s]
      PROVE  label \in CallsOf[s]
  BY <1>2, <1>4 DEF Stages, CallsOf
<1> QED BY <1>2, <1>3, <1>4

-----------------------------------------------------------------------------
(* The actions one by one.                                                 *)

\* An action of h that calls the store or answers: the others keep what they
\* have, and what is left to show is about h.
LEMMA OthersKept ==
    ASSUME StoreInvariant, StoreInvariant', LogGrows, ServerInvariant, NEW h \in Handler,
           NEW s \in Stages, stage' = [stage EXCEPT ![h] = s],
           \A k \in Handler \ {h} : /\ pc'[k] = pc[k] /\ args'[k] = args[k]
                                    /\ request'[k] = request[k]
                                    /\ exchange'[k] = exchange[k] /\ asOf'[k] = asOf[k]
                                    /\ status'[k] = status[k],
           request' \in [Handler -> Request],
           exchange' \in [Handler -> Page], asOf' \in [Handler -> Nat],
           status' \in [Handler -> {0, OK, NoContent, NotFound, InternalServerError}],
           clock' \in Time,
           HandlerOK(h)'
    PROVE  ServerInvariant'
<1>1. stage' \in [Handler -> Stages] /\ \A k \in Handler \ {h} : stage'[k] = stage[k]
  BY DEF ServerInvariant, ServerTypes
<1>2. ASSUME NEW k \in Handler, k # h
      PROVE  HandlerOK(k)'
  <2>1. pc'[k] \in CallsOf[stage[k]]
    BY <1>2 DEF ServerInvariant, HandlerOK
  <2> QED BY <1>1, <1>2, <2>1, HandlerKept
<1>3. ASSUME NEW k \in Handler PROVE HandlerOK(k)'
  BY <1>2
<1> QED BY <1>1, <1>3 DEF ServerInvariant, ServerTypes

LEMMA RequestTypes ==
    /\ NoRequest \in Request
    /\ Requests \subseteq Request
    /\ \A dataset \in Dataset : [NoRequest EXCEPT !.dataset = dataset] \in Request
    /\ \A dataset \in Dataset, device \in Device :
          [NoRequest EXCEPT !.dataset = dataset, !.device = device] \in Request
  BY EmptyBatch DEF NoRequest, Request, Requests

LEMMA StartSyncPreserves ==
    ASSUME StoreInvariant, StoreInvariant', LogGrows, ServerInvariant, NEW h \in Handler,
           NEW r \in Requests, StartSync(h, r)
    PROVE  ServerInvariant'
<1> DEFINE label == IF r.blobs = <<>> THEN "appended" ELSE "begin"
<1> DEFINE a == [NoArgs EXCEPT !.dataset = r.dataset, !.device = r.device, !.blobs = r.blobs]
<1>1. /\ request' = [request EXCEPT ![h] = r]
      /\ stage' = [stage EXCEPT ![h] = "append"]
      /\ exchange' = exchange /\ asOf' = asOf /\ status' = status /\ clock' = clock
      /\ stage[h] = "free" /\ Call(h, label, a)
  BY DEF StartSync, CallAppend, Enter
<1>2. label \in {"appended", "begin"} /\ a.dataset = r.dataset /\ a.device = r.device
      /\ a.blobs = r.blobs
  BY DEF NoArgs
<1> HIDE DEF label, a
<1>3. /\ pc'[h] = label /\ args'[h] = a
      /\ \A k \in Handler \ {h} : pc'[k] = pc[k] /\ args'[k] = args[k]
  BY <1>1, CallMoves DEF StoreInvariant
<1>4. /\ stage'[h] = "append" /\ request'[h] = r /\ status'[h] = 0
      /\ request' \in [Handler -> Request]
      /\ \A k \in Handler \ {h} : request'[k] = request[k]
  BY <1>1, RequestTypes DEF ServerInvariant, ServerTypes, HandlerOK
<1>5. HandlerOK(h)'
  BY <1>2, <1>3, <1>4
  DEF HandlerOK, ArgumentsMatch, PushStored, PageKept, EmptyKept, Exchanged, CallsOf
<1>6. "append" \in Stages
  BY DEF Stages
<1> QED BY <1>1, <1>3, <1>4, <1>5, <1>6, OthersKept DEF ServerInvariant, ServerTypes

LEMMA StartDevicesPreserves ==
    ASSUME StoreInvariant, StoreInvariant', LogGrows, ServerInvariant, NEW h \in Handler,
           NEW dataset \in Dataset, StartDevices(h, dataset)
    PROVE  ServerInvariant'
<1> DEFINE a == [NoArgs EXCEPT !.dataset = dataset]
<1> DEFINE r == [NoRequest EXCEPT !.dataset = dataset]
<1>1. /\ request' = [request EXCEPT ![h] = r]
      /\ stage' = [stage EXCEPT ![h] = "devices"]
      /\ exchange' = exchange /\ asOf' = asOf /\ status' = status /\ clock' = clock
      /\ stage[h] = "free" /\ Call(h, "list", a)
  BY DEF StartDevices, CallDevices, Enter
<1>2. r \in Request /\ r.name = None
  BY RequestTypes DEF NoRequest
<1> HIDE DEF a, r
<1>3. /\ pc'[h] = "list" /\ args'[h] = a
      /\ \A k \in Handler \ {h} : pc'[k] = pc[k] /\ args'[k] = args[k]
  BY <1>1, CallMoves DEF StoreInvariant
<1>4. /\ stage'[h] = "devices" /\ request'[h] = r /\ status'[h] = 0
      /\ request' \in [Handler -> Request]
      /\ \A k \in Handler \ {h} : request'[k] = request[k]
  BY <1>1, <1>2 DEF ServerInvariant, ServerTypes, HandlerOK
<1>5. HandlerOK(h)'
  BY <1>2, <1>3, <1>4
  DEF HandlerOK, ArgumentsMatch, PushStored, PageKept, EmptyKept, Exchanged, CallsOf
<1>6. "devices" \in Stages
  BY DEF Stages
<1> QED BY <1>1, <1>3, <1>4, <1>5, <1>6, OthersKept DEF ServerInvariant, ServerTypes

LEMMA StartRemovePreserves ==
    ASSUME StoreInvariant, StoreInvariant', LogGrows, ServerInvariant, NEW h \in Handler,
           NEW dataset \in Dataset, NEW device \in Device, StartRemove(h, dataset, device)
    PROVE  ServerInvariant'
<1> DEFINE a == [NoArgs EXCEPT !.dataset = dataset, !.device = Trim[device]]
<1> DEFINE r == [NoRequest EXCEPT !.dataset = dataset, !.device = device]
<1>1. /\ request' = [request EXCEPT ![h] = r]
      /\ stage' = [stage EXCEPT ![h] = "remove"]
      /\ exchange' = exchange /\ asOf' = asOf /\ status' = status /\ clock' = clock
      /\ stage[h] = "free" /\ Call(h, "delete", a)
  BY DEF StartRemove, CallRemoveDevice, Enter
<1>2. r \in Request /\ r.name = None
  BY RequestTypes DEF NoRequest
<1> HIDE DEF a, r
<1>3. /\ pc'[h] = "delete" /\ args'[h] = a
      /\ \A k \in Handler \ {h} : pc'[k] = pc[k] /\ args'[k] = args[k]
  BY <1>1, CallMoves DEF StoreInvariant
<1>4. /\ stage'[h] = "remove" /\ request'[h] = r /\ status'[h] = 0
      /\ request' \in [Handler -> Request]
      /\ \A k \in Handler \ {h} : request'[k] = request[k]
  BY <1>1, <1>2 DEF ServerInvariant, ServerTypes, HandlerOK
<1>5. HandlerOK(h)'
  BY <1>2, <1>3, <1>4
  DEF HandlerOK, ArgumentsMatch, PushStored, PageKept, EmptyKept, Exchanged, CallsOf
<1>6. "remove" \in Stages
  BY DEF Stages
<1> QED BY <1>1, <1>3, <1>4, <1>5, <1>6, OthersKept DEF ServerInvariant, ServerTypes

\* The pull starts when Append has returned: its batch is stored.
LEMMA PullPreserves ==
    ASSUME StoreInvariant, StoreInvariant', LogGrows, ServerInvariant, NEW h \in Handler,
           Pull(h)
    PROVE  ServerInvariant'
<1> DEFINE a == [NoArgs EXCEPT !.dataset = request[h].dataset, !.device = request[h].device,
                               !.after = request[h].cursor,
                               !.limit = EffectiveLimit(request[h].limit)]
<1> DEFINE blobs == request[h].blobs
<1>1. /\ stage' = [stage EXCEPT ![h] = "page"]
      /\ request' = request /\ exchange' = exchange /\ asOf' = asOf /\ status' = status /\ clock' = clock
      /\ stage[h] = "append" /\ pc[h] = "appended" /\ Call(h, "query", a)
      /\ entries' = entries /\ lastSequence' = lastSequence
  BY DEF Pull, CallPage, Call, Enter, tables
<1>2. a.dataset = request[h].dataset /\ a.device = request[h].device
      /\ a.after = request[h].cursor
  BY DEF NoArgs
<1>3. /\ request[h] \in Requests /\ args[h].dataset = request[h].dataset
      /\ args[h].device = request[h].device /\ args[h].blobs = blobs
      /\ status[h] = 0
  BY <1>1 DEF ServerInvariant, HandlerOK, ArgumentsMatch
<1>4. Len(blobs) \in Nat
  BY <1>3, BlobsAreSequence DEF StoreInvariant
<1>5. \A i \in 1..Len(blobs) :
          Row(assigned[h] - Len(blobs) + i, request[h].dataset, request[h].device, blobs[i])
              \in entries
  BY <1>1, <1>3 DEF StoreInvariant, AppendStoresItsBatch
<1>6. BatchStored(h)
  <2>1. lastSequence \in Nat /\ assigned[h] \in Nat
        /\ \A r \in entries : r.sequence \in 1..lastSequence
    BY DEF StoreInvariant, TypeOK, EntriesNumbered
  <2>2. CASE Len(blobs) = 0
    <3>1. 0 \in 0..lastSequence /\ 1..Len(blobs) = {}
      BY <2>1, <2>2
    <3> QED BY <3>1 DEF BatchStored
  <2>3. CASE Len(blobs) > 0
    <3> DEFINE base == assigned[h] - Len(blobs)
    <3>1. 1 \in 1..Len(blobs)
      BY <1>4, <2>3
    <3>2. base + 1 \in 1..lastSequence
      BY <1>5, <2>1, <3>1 DEF Row
    <3>3. base \in 0..lastSequence
      <4>1. base \in Int
        BY <1>4, <2>1
      <4> HIDE DEF base
      <4> QED BY <2>1, <3>2, <4>1
    <3> QED BY <1>5, <3>3 DEF BatchStored
  <2> QED BY <1>4, <2>2, <2>3
<1> HIDE DEF a
<1>7. /\ pc'[h] = "query" /\ args'[h] = a
      /\ \A k \in Handler \ {h} : pc'[k] = pc[k] /\ args'[k] = args[k]
  BY <1>1, CallMoves DEF StoreInvariant
<1>8. stage'[h] = "page" /\ request'[h] = request[h] /\ status'[h] = 0
  BY <1>1, <1>3 DEF ServerInvariant, ServerTypes
<1>9. BatchStored(h)'
  BY <1>1, <1>6, <1>8 DEF BatchStored
<1>10. HandlerOK(h)'
  BY <1>2, <1>3, <1>7, <1>8, <1>9
  DEF HandlerOK, ArgumentsMatch, PushStored, PageKept, EmptyKept, Exchanged, CallsOf
<1>11. "page" \in Stages
  BY DEF Stages
<1> QED BY <1>1, <1>7, <1>10, <1>11, OthersKept DEF ServerInvariant, ServerTypes

\* The page is kept while the device is recorded.
LEMMA RecordPreserves ==
    ASSUME StoreInvariant, StoreInvariant', LogGrows, ServerInvariant, NEW h \in Handler,
           Record(h)
    PROVE  ServerInvariant'
<1> DEFINE a == [NoArgs EXCEPT !.dataset = request[h].dataset, !.device = request[h].device,
                               !.name = request[h].name, !.at = clock]
<1>1. /\ stage' = [stage EXCEPT ![h] = "touch"]
      /\ exchange' = [exchange EXCEPT ![h] = page[h]]
      /\ asOf' = [asOf EXCEPT ![h] = offered[h]]
      /\ request' = request /\ status' = status /\ clock' = clock
      /\ stage[h] = "page" /\ pc[h] = "paged" /\ Call(h, "upsert", a)
      /\ entries' = entries /\ lastSequence' = lastSequence
  BY DEF Record, CallTouchDevice, Call, Enter, tables
<1>2. a.dataset = request[h].dataset /\ a.device = request[h].device
  BY DEF NoArgs
<1>3. /\ request[h] \in Requests /\ args[h].dataset = request[h].dataset
      /\ args[h].device = request[h].device /\ args[h].after = request[h].cursor
      /\ status[h] = 0 /\ BatchStored(h)
  BY <1>1 DEF ServerInvariant, HandlerOK, ArgumentsMatch, PushStored
<1> HIDE DEF a
<1>4. /\ pc'[h] = "upsert" /\ args'[h] = a
      /\ \A k \in Handler \ {h} : pc'[k] = pc[k] /\ args'[k] = args[k]
  BY <1>1, CallMoves DEF StoreInvariant
<1>5. page[h] \in Page /\ offered[h] \in Nat
  BY DEF StoreInvariant, TypeOK
<1>6. /\ stage'[h] = "touch" /\ request'[h] = request[h] /\ status'[h] = 0
      /\ exchange'[h] = page[h] /\ exchange' \in [Handler -> Page]
      /\ asOf'[h] = offered[h] /\ asOf' \in [Handler -> Nat]
      /\ \A k \in Handler \ {h} : exchange'[k] = exchange[k] /\ asOf'[k] = asOf[k]
  BY <1>1, <1>3, <1>5 DEF ServerInvariant, ServerTypes
<1>7. BatchStored(h)'
  BY <1>1, <1>3, <1>6 DEF BatchStored
<1>8. page[h].entries # {} => /\ page[h].cursor <= lastSequence
                              /\ UpTo(h, page[h].cursor) = page[h].entries
  BY <1>1 DEF StoreInvariant, PageEndsInLog, PageSkipsNothing
<1>9. Pending(h)' = UpTo(h, page[h].cursor)
  BY <1>1, <1>3, <1>6 DEF Pending, UpTo
<1>10. PageKept(h)'
  BY <1>1, <1>6, <1>8, <1>9 DEF PageKept
<1>11. EmptyKept(h)'
  <2> SUFFICES ASSUME page[h].entries = {}
               PROVE  /\ asOf'[h] <= lastSequence'
                      /\ \A r \in Pending(h)' : r.sequence > asOf'[h]
    BY <1>6 DEF EmptyKept
  <2>1. /\ offered[h] <= lastSequence
        /\ \A r \in UpTo(h, page[h].cursor) : r.sequence > offered[h]
    BY <1>1 DEF StoreInvariant, EmptyPageWasEmpty, UpTo
  <2> QED BY <1>1, <1>6, <1>9, <2>1
<1>12. HandlerOK(h)'
  BY <1>2, <1>3, <1>4, <1>6, <1>7, <1>10, <1>11
  DEF HandlerOK, ArgumentsMatch, PushStored, CallsOf
<1>13. "touch" \in Stages
  BY DEF Stages
<1>14. /\ request' \in [Handler -> Request] /\ clock' \in Time
       /\ status' \in [Handler -> {0, OK, NoContent, NotFound, InternalServerError}]
  BY <1>1 DEF ServerInvariant, ServerTypes
<1>15. \A k \in Handler \ {h} : request'[k] = request[k] /\ status'[k] = status[k]
  BY <1>1
<1> QED BY <1>1, <1>4, <1>6, <1>12, <1>13, <1>14, <1>15, OthersKept

\* An answer changes nothing but the stage and the status; 200 after a sync
\* comes from AnswerSync alone.
LEMMA AnswersPreserve ==
    ASSUME StoreInvariant, StoreInvariant', LogGrows, ServerInvariant, NEW h \in Handler,
           AnswerSync(h) \/ AnswerDevices(h) \/ AnswerRemove(h) \/ AnswerFailure(h)
    PROVE  ServerInvariant'
<1>1. PICK code \in {OK, NoContent, NotFound, InternalServerError} :
          /\ Answer(h, code)
          /\ pc[h] \in {"touched", "listed", "removed", "failed"}
          /\ code = OK => stage[h] \in {"touch", "devices"}
  <2>1. CASE AnswerSync(h)
    BY <2>1 DEF AnswerSync
  <2>2. CASE AnswerDevices(h)
    BY <2>2 DEF AnswerDevices
  <2>3. CASE AnswerRemove(h)
    <3> DEFINE code == IF removed[h] THEN NoContent ELSE NotFound
    <3>1. Answer(h, code) /\ code \in {NoContent, NotFound} /\ pc[h] = "removed"
      BY <2>3 DEF AnswerRemove
    <3> HIDE DEF code
    <3> QED BY <3>1 DEF NoContent, NotFound, OK
  <2>4. CASE AnswerFailure(h)
    BY <2>4 DEF AnswerFailure, InternalServerError, OK
  <2> QED BY <2>1, <2>2, <2>3, <2>4
<1>2. /\ stage' = [stage EXCEPT ![h] = "answer"]
      /\ status' = [status EXCEPT ![h] = code]
      /\ request' = request /\ exchange' = exchange /\ asOf' = asOf /\ clock' = clock
      /\ pc' = pc /\ args' = args
      /\ entries' = entries /\ lastSequence' = lastSequence
  BY <1>1 DEF Answer, Enter, vars, tables, results
<1>3. /\ stage'[h] = "answer" /\ status'[h] = code /\ code # 0
      /\ status' \in [Handler -> {0, OK, NoContent, NotFound, InternalServerError}]
      /\ \A k \in Handler \ {h} : status'[k] = status[k]
  BY <1>1, <1>2
  DEF ServerInvariant, ServerTypes, OK, NoContent, NotFound, InternalServerError
<1>4. HandlerOK(h)
  BY DEF ServerInvariant
<1>5. Exchanged(h)' => stage[h] = "touch"
  BY <1>1, <1>2, <1>3, <1>4 DEF Exchanged, Syncing, HandlerOK, ArgumentsMatch
<1>6. PushStored(h)'
  BY <1>2, <1>3, <1>4, <1>5 DEF HandlerOK, PushStored, BatchStored
<1>7. PageKept(h)'
  BY <1>2, <1>3, <1>4, <1>5 DEF HandlerOK, PageKept, Pending
<1>8. EmptyKept(h)'
  BY <1>2, <1>3, <1>4, <1>5 DEF HandlerOK, EmptyKept, Pending
<1>9. HandlerOK(h)'
  BY <1>1, <1>2, <1>3, <1>6, <1>7, <1>8 DEF HandlerOK, ArgumentsMatch, CallsOf
<1>10. "answer" \in Stages
  BY DEF Stages
<1> QED BY <1>2, <1>3, <1>9, <1>10, OthersKept DEF ServerInvariant, ServerTypes

LEMMA FinishPreserves ==
    ASSUME StoreInvariant, StoreInvariant', LogGrows, ServerInvariant, NEW h \in Handler,
           Finish(h)
    PROVE  ServerInvariant'
<1>1. /\ stage' = [stage EXCEPT ![h] = "free"]
      /\ request' = [request EXCEPT ![h] = NoRequest]
      /\ exchange' = [exchange EXCEPT ![h] = NoPage]
      /\ status' = [status EXCEPT ![h] = 0]
      /\ clock' = clock
      /\ pc' = [pc EXCEPT ![h] = "idle"]
      /\ args' = [args EXCEPT ![h] = NoArgs]
      /\ asOf' = [asOf EXCEPT ![h] = 0]
  BY DEF Finish, Enter, Return
<1>2. NoPage \in Page /\ NoRequest \in Request
  BY RequestTypes DEF NoPage, Page
<1>3. /\ stage'[h] = "free" /\ status'[h] = 0 /\ pc'[h] = "idle"
      /\ request' \in [Handler -> Request] /\ exchange' \in [Handler -> Page] /\ asOf' \in [Handler -> Nat]
      /\ status' \in [Handler -> {0, OK, NoContent, NotFound, InternalServerError}]
      /\ \A k \in Handler \ {h} :
            /\ pc'[k] = pc[k] /\ args'[k] = args[k] /\ request'[k] = request[k]
            /\ exchange'[k] = exchange[k] /\ asOf'[k] = asOf[k] /\ status'[k] = status[k]
  BY <1>1, <1>2 DEF StoreInvariant, TypeOK, ServerInvariant, ServerTypes
<1>4. HandlerOK(h)'
  BY <1>3 DEF HandlerOK, ArgumentsMatch, PushStored, PageKept, EmptyKept, Exchanged, CallsOf
<1>5. "free" \in Stages
  BY DEF Stages
<1> QED BY <1>1, <1>3, <1>4, <1>5, OthersKept DEF ServerInvariant, ServerTypes

\* A step of the store: every handler keeps what it has.
LEMMA StoreStepsPreserve ==
    ASSUME StoreInvariant, StoreInvariant', LogGrows, ServerInvariant, NEW h \in Handler,
           Step(h), UNCHANGED serverVars
    PROVE  ServerInvariant'
<1>1. stage' = stage /\ request' = request /\ exchange' = exchange /\ asOf' = asOf /\ status' = status
      /\ clock' = clock
  BY DEF serverVars
<1>2. ASSUME NEW k \in Handler
      PROVE  pc'[k] \in CallsOf[stage[k]]
  <2>1. pc[k] \in CallsOf[stage[k]] /\ stage[k] \in Stages
    BY DEF ServerInvariant, HandlerOK, ServerTypes
  <2> QED BY <2>1, StepMoves
<1>3. ASSUME NEW k \in Handler
      PROVE  HandlerOK(k)'
  <2>1. args' = args
    BY StepMoves
  <2> QED BY <1>1, <1>2, <2>1, HandlerKept
<1> QED BY <1>1, <1>3 DEF ServerInvariant, ServerTypes

LEMMA QuietTimePreserves ==
    ASSUME StoreInvariant, StoreInvariant', LogGrows, ServerInvariant,
           UNCHANGED <<vars, stage, request, exchange, asOf, status>>, clock' \in Time
    PROVE  ServerInvariant'
<1>1. stage' = stage /\ request' = request /\ exchange' = exchange /\ asOf' = asOf /\ status' = status
      /\ pc' = pc /\ args' = args
  BY DEF vars, results
<1>2. ASSUME NEW k \in Handler
      PROVE  HandlerOK(k)'
  <2>1. pc'[k] \in CallsOf[stage[k]]
    BY <1>1 DEF ServerInvariant, HandlerOK
  <2> QED BY <1>1, <2>1, HandlerKept
<1> QED BY <1>1, <1>2 DEF ServerInvariant, ServerTypes

LEMMA ServerNextPreserves ==
    StoreInvariant /\ ServerInvariant /\ [ServerNext]_allVars =>
        StoreInvariant' /\ ServerInvariant'
<1> SUFFICES ASSUME StoreInvariant, ServerInvariant, [ServerNext]_allVars
             PROVE  StoreInvariant' /\ ServerInvariant'
  OBVIOUS
<1>1. [Next]_vars
  BY ServerStepIsStoreStep
<1>2. StoreInvariant'
  BY <1>1, NextPreserves
<1>3. LogGrows
  BY <1>1, StepsGrowLog
<1>4. ASSUME NEW h \in Handler, NEW r \in Requests, StartSync(h, r)
      PROVE  ServerInvariant'
  BY <1>2, <1>3, <1>4, StartSyncPreserves
<1>5. ASSUME NEW h \in Handler, NEW dataset \in Dataset, StartDevices(h, dataset)
      PROVE  ServerInvariant'
  BY <1>2, <1>3, <1>5, StartDevicesPreserves
<1>6. ASSUME NEW h \in Handler, NEW dataset \in Dataset, NEW device \in Device,
             StartRemove(h, dataset, device)
      PROVE  ServerInvariant'
  BY <1>2, <1>3, <1>6, StartRemovePreserves
<1>7. ASSUME NEW h \in Handler, Handle(h)
      PROVE  ServerInvariant'
  BY <1>2, <1>3, <1>7, PullPreserves, RecordPreserves, AnswersPreserve DEF Handle
<1>8. ASSUME NEW h \in Handler, StoreStep(h) \/ StoreFailure(h)
      PROVE  ServerInvariant'
  BY <1>2, <1>3, <1>8, StoreStepsPreserve DEF StoreStep, StoreFailure, Step
<1>9. ASSUME NEW h \in Handler, Finish(h)
      PROVE  ServerInvariant'
  BY <1>2, <1>3, <1>9, FinishPreserves
<1>10. CASE Tick
  <2>1. clock' \in Time
    BY <1>10, ServerAssumption DEF Tick, ServerInvariant, ServerTypes
  <2> QED BY <1>2, <1>3, <1>10, <2>1, QuietTimePreserves DEF Tick
<1>11. CASE UNCHANGED allVars
  <2>1. clock' \in Time /\ UNCHANGED <<vars, stage, request, exchange, asOf, status>>
    BY <1>11 DEF allVars, serverVars, ServerInvariant, ServerTypes
  <2> QED BY <1>2, <1>3, <2>1, QuietTimePreserves
<1>12. ServerInvariant'
  BY <1>4, <1>5, <1>6, <1>7, <1>8, <1>9, <1>10, <1>11 DEF ServerNext
<1> QED BY <1>2, <1>12

-----------------------------------------------------------------------------
(* The theorems.                                                           *)

LEMMA ServerInitEstablishes == ServerInit => Init /\ ServerInvariant
<1> SUFFICES ASSUME ServerInit PROVE Init /\ ServerInvariant
  OBVIOUS
<1>1. ServerTypes
  <2>1. NoPage \in Page
    BY DEF NoPage, Page
  <2>2. NoRequest \in Request
    BY RequestTypes
  <2>3. 0 \in Time
    BY ServerAssumption
  <2> QED BY <2>1, <2>2, <2>3 DEF ServerInit, ServerTypes, Stages
<1>2. ASSUME NEW h \in Handler PROVE HandlerOK(h)
  BY DEF ServerInit, Init, HandlerOK, ArgumentsMatch, PushStored, PageKept, EmptyKept, Exchanged, CallsOf
<1> QED BY <1>1, <1>2 DEF ServerInvariant, ServerInit

\* What each handler has, from the request it took to the answer it gives.
THEOREM ServerInvariantHolds == ServerSpec => [](StoreInvariant /\ ServerInvariant)
<1>1. ServerInit => StoreInvariant /\ ServerInvariant
  BY ServerInitEstablishes, InitEstablishes
<1>2. StoreInvariant /\ ServerInvariant /\ [ServerNext]_allVars =>
          StoreInvariant' /\ ServerInvariant'
  BY ServerNextPreserves
<1> QED BY <1>1, <1>2, PTL DEF ServerSpec

\* The handlers use the store as its specification lets any caller: what is
\* proved of Spec holds of the server.
THEOREM ServerUsesStore == ServerSpec => Spec
<1>1. ServerInit => Init
  BY DEF ServerInit
<1>2. ServerInvariant /\ [ServerNext]_allVars => [Next]_vars
  BY ServerStepIsStoreStep
<1> QED BY <1>1, <1>2, ServerInvariantHolds, PTL DEF ServerSpec, Spec

\* Every variable of the server has its type, and a handler's place in its
\* function agrees with the place of its call in the store.
THEOREM ServerTypeCorrect == ServerSpec => []ServerTypeOK
<1>1. ServerInvariant => ServerTypeOK
  BY DEF ServerInvariant, ServerTypes, HandlerOK, ServerTypeOK
<1> QED BY <1>1, ServerInvariantHolds, PTL

\* A sync that was acknowledged is stored, however many requests run beside it
\* and whatever failed before.
THEOREM AcknowledgedPushesAreStored == ServerSpec => []AcknowledgedPushIsStored
<1>1. ServerInvariant => AcknowledgedPushIsStored
  BY DEF ServerInvariant, HandlerOK, PushStored, BatchStored, AcknowledgedPushIsStored
<1> QED BY <1>1, ServerInvariantHolds, PTL

\* A page with entries has no gap when it is answered, whatever was pushed
\* since it was read, and an empty one none among what was stored by then.
THEOREM AnswersSkipNothing == ServerSpec => []AnswerSkipsNothing
<1>1. ServerInvariant => AnswerSkipsNothing
  BY DEF ServerInvariant, HandlerOK, PageKept, EmptyKept, AnswerSkipsNothing
<1> QED BY <1>1, ServerInvariantHolds, PTL

-----------------------------------------------------------------------------
(* How long a request may take.                                            *)

LEMMA RequestStepsAreNatural ==
    ASSUME StoreInvariant, ServerInvariant, NEW h \in Handler
    PROVE  /\ RequestStepsLeft(h) \in 0..MaxBatch + 11
           /\ RequestStepsLeft(h) > 0 <=> stage[h] # "free"
<1>1. StepsLeft(h) \in 0..MaxBatch + 3 /\ (StepsLeft(h) > 0 <=> pc[h] \in Running)
  BY StepsLeftIsNatural
<1>2. stage[h] \in Stages /\ pc[h] \in CallsOf[stage[h]] /\ MaxBatch \in Nat
  BY BoundAssumption DEF ServerInvariant, ServerTypes, HandlerOK
<1>3. StepsAfterCall[stage[h]] \in 0..8 /\ (StepsAfterCall[stage[h]] > 0 <=> stage[h] # "free")
  BY <1>2 DEF StepsAfterCall, Stages
<1>4. stage[h] = "free" => pc[h] = "idle"
  BY <1>2 DEF CallsOf
<1>5. stage[h] = "free" => StepsLeft(h) = 0
  BY <1>4 DEF StepsLeft
<1> QED BY <1>1, <1>2, <1>3, <1>5 DEF RequestStepsLeft

LEMMA OwnStepsCount ==
    ASSUME StoreInvariant, ServerInvariant, NEW h \in Handler, OwnStep(h)
    PROVE  RequestStepsLeft(h)' < RequestStepsLeft(h)
<1>1. TypeOK /\ ServerTypes
  BY DEF StoreInvariant, ServerInvariant
<1>2. ASSUME NEW label, NEW a, Call(h, label, a)
      PROVE  pc'[h] = label
  BY <1>1, <1>2, CallMoves
<1>3. CASE StoreStep(h) \/ StoreFailure(h)
  <2>1. Step(h) /\ stage' = stage
    BY <1>3 DEF StoreStep, StoreFailure, Step, serverVars
  <2>2. StepsLeft(h)' \in Nat /\ StepsLeft(h)' < StepsLeft(h)
    BY <2>1, OwnStepCounts
  <2>3. StepsAfterCall[stage[h]] \in Nat /\ StepsLeft(h) \in Nat
    <3>1. stage[h] \in Stages
      BY <1>1 DEF ServerTypes
    <3>2. StepsLeft(h) \in Nat
      BY StepsLeftIsNatural, BoundAssumption
    <3> QED BY <3>1, <3>2 DEF StepsAfterCall, Stages
  <2> QED BY <2>1, <2>2, <2>3 DEF RequestStepsLeft
<1>4. CASE Pull(h)
  <2>1. pc[h] = "appended" /\ stage[h] = "append" /\ pc'[h] = "query" /\ stage'[h] = "page"
    BY <1>1, <1>2, <1>4 DEF Pull, CallPage, Enter, ServerTypes
  <2> QED BY <2>1 DEF RequestStepsLeft, StepsLeft, StepsAfterCall
<1>5. CASE Record(h)
  <2>1. pc[h] = "paged" /\ stage[h] = "page" /\ pc'[h] = "upsert" /\ stage'[h] = "touch"
    BY <1>1, <1>2, <1>5 DEF Record, CallTouchDevice, Enter, ServerTypes
  <2> QED BY <2>1 DEF RequestStepsLeft, StepsLeft, StepsAfterCall
<1>6. CASE AnswerSync(h) \/ AnswerDevices(h) \/ AnswerRemove(h) \/ AnswerFailure(h)
  <2>1. /\ pc[h] \in {"touched", "listed", "removed", "failed"} /\ pc'[h] = pc[h]
        /\ stage[h] \in {"append", "page", "touch", "devices", "remove"}
        /\ stage'[h] = "answer"
    BY <1>1, <1>6
    DEF AnswerSync, AnswerDevices, AnswerRemove, AnswerFailure, Answer, Enter, ServerTypes, vars
  <2>2. StepsLeft(h) = 0 /\ StepsLeft(h)' = 0
    BY <2>1 DEF StepsLeft
  <2>3. StepsAfterCall[stage[h]] \in 2..8 /\ StepsAfterCall[stage'[h]] = 1
    BY <2>1 DEF StepsAfterCall
  <2> QED BY <2>2, <2>3 DEF RequestStepsLeft
<1>7. CASE Finish(h)
  <2>1. stage[h] = "answer" /\ pc[h] \in Returned /\ pc'[h] = "idle" /\ stage'[h] = "free"
    BY <1>1, <1>7 DEF Finish, Return, Enter, TypeOK, ServerTypes
  <2>2. StepsLeft(h) = 0 /\ StepsLeft(h)' = 0
    BY <2>1 DEF StepsLeft, Returned
  <2> QED BY <2>1, <2>2 DEF RequestStepsLeft, StepsAfterCall
<1> QED BY <1>3, <1>4, <1>5, <1>6, <1>7 DEF OwnStep, Handle

\* What the others do adds no step to a request.
LEMMA OthersAddNothing ==
    ASSUME StoreInvariant, NEW h \in Handler, NEW k \in Handler, k # h,
           Uses(k) \/ UNCHANGED vars, stage'[h] = stage[h]
    PROVE  RequestStepsLeft(h)' = RequestStepsLeft(h)
<1>1. /\ pc'[h] = pc[h] /\ args'[h] = args[h]
      /\ pc[h] = "insert" => txSequence' = txSequence /\ lastSequence' = lastSequence
  BY OthersLeaveAlone DEF Uses, vars, tables, txVars
<1>2. pc[h] = "insert" => Rest(h)' = Rest(h)
  BY <1>1 DEF Rest, Inserted
<1>3. StepsLeft(h)' = StepsLeft(h)
  BY <1>1, <1>2 DEF StepsLeft
<1> QED BY <1>3 DEF RequestStepsLeft

\* Every request has a bound on its own steps, whatever else is served beside
\* it: what only TLC checks is that each of them is taken (server.go:152-215).
THEOREM RequestsAreBounded ==
    ServerSpec => /\ RequestsGoForward
                  /\ [](\A h \in Handler : RequestStepsLeft(h) \in 0..MaxBatch + 11)
<1>1. StoreInvariant /\ ServerInvariant =>
          \A h \in Handler : RequestStepsLeft(h) \in 0..MaxBatch + 11
  BY RequestStepsAreNatural
<1>2. StoreInvariant /\ ServerInvariant /\ [ServerNext]_allVars =>
          [\A h \in Handler : stage[h] # "free" =>
              /\ OwnStep(h) => RequestStepsLeft(h)' < RequestStepsLeft(h)
              /\ ~OwnStep(h) => RequestStepsLeft(h)' = RequestStepsLeft(h)]_allVars
  <2> SUFFICES ASSUME StoreInvariant, ServerInvariant, ServerNext,
                      NEW h \in Handler, stage[h] # "free", ~OwnStep(h)
               PROVE  RequestStepsLeft(h)' = RequestStepsLeft(h)
    BY OwnStepsCount
  <2>1. ServerTypes
    BY DEF ServerInvariant
  <2>2. CASE Tick
    BY <2>2 DEF Tick, vars, tables, txVars, RequestStepsLeft, StepsLeft, Rest, Inserted
  <2>3. ASSUME NEW k \in Handler, NEW r \in Requests, StartSync(k, r)
        PROVE  RequestStepsLeft(h)' = RequestStepsLeft(h)
    <3>1. k # h /\ Uses(k) /\ stage'[h] = stage[h]
      BY <2>1, <2>3, HandlerUsesStore DEF StartSync, Enter, ServerTypes
    <3> QED BY <3>1, OthersAddNothing
  <2>4. ASSUME NEW k \in Handler, NEW dataset \in Dataset, StartDevices(k, dataset)
        PROVE  RequestStepsLeft(h)' = RequestStepsLeft(h)
    <3>1. k # h /\ Uses(k) /\ stage'[h] = stage[h]
      BY <2>1, <2>4, HandlerUsesStore DEF StartDevices, Enter, ServerTypes
    <3> QED BY <3>1, OthersAddNothing
  <2>5. ASSUME NEW k \in Handler, NEW dataset \in Dataset, NEW device \in Device,
               StartRemove(k, dataset, device)
        PROVE  RequestStepsLeft(h)' = RequestStepsLeft(h)
    <3>1. k # h /\ Uses(k) /\ stage'[h] = stage[h]
      BY <2>1, <2>5, HandlerUsesStore DEF StartRemove, Enter, ServerTypes
    <3> QED BY <3>1, OthersAddNothing
  <2>6. ASSUME NEW k \in Handler, OwnStep(k)
        PROVE  RequestStepsLeft(h)' = RequestStepsLeft(h)
    <3>1. k # h /\ (Uses(k) \/ UNCHANGED vars)
      BY <2>6, HandlerUsesStore
    <3>2. stage'[h] = stage[h]
      BY <2>1, <2>6, <3>1
      DEF OwnStep, Handle, Pull, Record, AnswerSync, AnswerDevices, AnswerRemove, AnswerFailure,
          Answer, Enter, StoreStep, StoreFailure, Finish, serverVars, ServerTypes
    <3> QED BY <3>1, <3>2, OthersAddNothing
  <2> QED BY <2>2, <2>3, <2>4, <2>5, <2>6 DEF ServerNext, OwnStep
<1> QED BY <1>1, <1>2, ServerInvariantHolds, PTL DEF ServerSpec, RequestsGoForward

=============================================================================
