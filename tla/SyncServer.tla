----------------------------- MODULE SyncServer -----------------------------
(***************************************************************************)
(* The handlers of src/internal/api/server.go that reach the store: a      *)
(* request that was let in (version, token, body: all without effect) runs *)
(* on its own goroutine as a sequence of calls of the store, each of which *)
(* interleaves with those of the other requests.                           *)
(***************************************************************************)
EXTENDS Store

CONSTANTS
    DefaultLimit,   \* api.DefaultLimit
    MaxTime,        \* the last reading of the clock (BOUND)
    ClockSetBack,   \* whether the wall clock may be set back
    Trim            \* strings.TrimSpace on device identifiers

ASSUME ServerAssumption ==
    /\ DefaultLimit \in Limit
    /\ MaxTime \in Nat
    /\ Time = 0..MaxTime
    /\ ClockSetBack \in BOOLEAN
    /\ Trim \in [Device -> Device]

VARIABLES
    stage,      \* how far each handler's function has come
    request,    \* the request it serves
    exchange,   \* handleSync's local `page`
    asOf,       \* HISTORY: lastSequence when that page's query ran
    status,     \* the status of its answer, 0 before there is one
    clock       \* s.now()

serverVars == <<stage, request, exchange, asOf, status, clock>>
allVars    == <<vars, serverVars>>

Stages == {"free", "append", "page", "touch", "devices", "remove", "answer"}

Request == [dataset : Dataset \cup {None}, device : Device \cup {None},
            name : Name \cup {None}, blobs : Batches,
            cursor : Cursor \cup {0}, limit : Limit \cup {0}]

NoRequest == [dataset |-> None, device |-> None, name |-> None,
              blobs |-> <<>>, cursor |-> 0, limit |-> 0]

OK == 200
NoContent == 204
NotFound == 404
InternalServerError == 500

ServerInit ==
    /\ Init
    /\ stage = [h \in Handler |-> "free"]
    /\ request = [h \in Handler |-> NoRequest]
    /\ exchange = [h \in Handler |-> NoPage]
    /\ asOf = [h \in Handler |-> 0]
    /\ status = [h \in Handler |-> 0]
    /\ clock = 0

\* limit absent or not positive means the default; the store clamps the rest.
EffectiveLimit(limit) == IF limit <= 0 THEN DefaultLimit ELSE limit

Enter(h, label) == stage' = [stage EXCEPT ![h] = label]

Answer(h, code) ==
    /\ Enter(h, "answer")
    /\ status' = [status EXCEPT ![h] = code]
    /\ UNCHANGED <<vars, request, exchange, asOf, clock>>

-----------------------------------------------------------------------------
(* handleSync: push, then pull, then record the device.                    *)

StartSync(h, r) ==
    /\ stage[h] = "free"
    /\ request' = [request EXCEPT ![h] = r]
    /\ CallAppend(h, r.dataset, r.device, r.blobs)
    /\ Enter(h, "append")
    /\ UNCHANGED <<exchange, asOf, status, clock>>

\* WRONG: the error of Append is not looked at.
PullRegardless(h) ==
    /\ stage[h] = "append"
    /\ pc[h] \in {"appended", "failed"}
    /\ CallPage(h, request[h].dataset, request[h].device,
                request[h].cursor, EffectiveLimit(request[h].limit))
    /\ Enter(h, "page")
    /\ UNCHANGED <<request, exchange, asOf, status, clock>>

\* WRONG: the pull starts after the device's own push.
PullAfterOwn(h) ==
    /\ stage[h] = "append"
    /\ pc[h] = "appended"
    /\ CallPage(h, request[h].dataset, request[h].device,
                IF assigned[h] = 0 THEN request[h].cursor ELSE assigned[h],
                EffectiveLimit(request[h].limit))
    /\ Enter(h, "page")
    /\ UNCHANGED <<request, exchange, asOf, status, clock>>

Pull(h) ==
    /\ stage[h] = "append"
    /\ pc[h] = "appended"
    /\ CallPage(h, request[h].dataset, request[h].device,
                request[h].cursor, EffectiveLimit(request[h].limit))
    /\ Enter(h, "page")
    /\ UNCHANGED <<request, exchange, asOf, status, clock>>

\* s.now() is read here, before TouchDevice waits for the connection.
Record(h) ==
    /\ stage[h] = "page"
    /\ pc[h] = "paged"
    /\ exchange' = [exchange EXCEPT ![h] = page[h]]
    /\ asOf' = [asOf EXCEPT ![h] = offered[h]]
    /\ CallTouchDevice(h, request[h].dataset, request[h].device, request[h].name, clock)
    /\ Enter(h, "touch")
    /\ UNCHANGED <<request, status, clock>>

AnswerSync(h) ==
    /\ stage[h] = "touch"
    /\ pc[h] = "touched"
    /\ Answer(h, OK)

-----------------------------------------------------------------------------
(* handleDevices and handleRemoveDevice: one call each.  The identifier in *)
(* the path is trimmed; the one in a sync request is not.                  *)

StartDevices(h, dataset) ==
    /\ stage[h] = "free"
    /\ request' = [request EXCEPT ![h] = [NoRequest EXCEPT !.dataset = dataset]]
    /\ CallDevices(h, dataset)
    /\ Enter(h, "devices")
    /\ UNCHANGED <<exchange, asOf, status, clock>>

AnswerDevices(h) ==
    /\ stage[h] = "devices"
    /\ pc[h] = "listed"
    /\ Answer(h, OK)

\* WRONG: the two texts exchanged.
StartRemoveExchanged(h, dataset, device) ==
    /\ stage[h] = "free"
    /\ request' = [request EXCEPT ![h] = [NoRequest EXCEPT !.dataset = dataset, !.device = device]]
    /\ CallRemoveDevice(h, Trim[device], dataset)
    /\ Enter(h, "remove")
    /\ UNCHANGED <<exchange, asOf, status, clock>>

StartRemove(h, dataset, device) ==
    /\ stage[h] = "free"
    /\ request' = [request EXCEPT ![h] = [NoRequest EXCEPT !.dataset = dataset, !.device = device]]
    /\ CallRemoveDevice(h, dataset, Trim[device])
    /\ Enter(h, "remove")
    /\ UNCHANGED <<exchange, asOf, status, clock>>

AnswerRemove(h) ==
    /\ stage[h] = "remove"
    /\ pc[h] = "removed"
    /\ Answer(h, IF removed[h] THEN NoContent ELSE NotFound)

-----------------------------------------------------------------------------

\* WRONG: answers without waiting for the call to come back.
AnswerFailureEarly(h) ==
    /\ stage[h] \in {"append", "page", "touch", "devices", "remove"}
    /\ pc[h] \in Running
    /\ Answer(h, InternalServerError)

\* internalError: whichever call failed, the handler answers 500 and stops.
AnswerFailure(h) ==
    /\ stage[h] \in {"append", "page", "touch", "devices", "remove"}
    /\ pc[h] = "failed"
    /\ Answer(h, InternalServerError)

\* The answer is written and the goroutine ends.
Finish(h) ==
    /\ stage[h] = "answer"
    /\ Return(h)
    /\ Enter(h, "free")
    /\ request' = [request EXCEPT ![h] = NoRequest]
    /\ exchange' = [exchange EXCEPT ![h] = NoPage]
    /\ asOf' = [asOf EXCEPT ![h] = 0]
    /\ status' = [status EXCEPT ![h] = 0]
    /\ UNCHANGED clock

\* What is stored is the wall clock's reading (UnixNano drops the monotonic one):
\* between two readings any time may pass, and somebody may set it back.
Tick ==
    /\ \E now \in Time \ {clock} : (now < clock => ClockSetBack) /\ clock' = now
    /\ UNCHANGED <<vars, stage, request, exchange, asOf, status>>

\* A step of the call the handler is in.
StoreStep(h) == (Acquires(h) \/ Proceeds(h)) /\ UNCHANGED serverVars

\* The request's context ends, or SQLite reports an error.
StoreFailure(h) == Fails(h) /\ UNCHANGED serverVars

Handle(h) ==
    \/ Pull(h)
    \/ Record(h)
    \/ AnswerSync(h)
    \/ AnswerDevices(h)
    \/ AnswerRemove(h)
    \/ AnswerFailure(h)

Requests == [dataset : Dataset, device : Device, name : Name,
             blobs : Batches, cursor : Cursor, limit : Limit]

ServerNext ==
    \/ \E h \in Handler :
          \/ \E r \in Requests : StartSync(h, r)
          \/ \E dataset \in Dataset : StartDevices(h, dataset)
          \/ \E dataset \in Dataset, device \in Device : StartRemove(h, dataset, device)
          \/ Handle(h)
          \/ StoreStep(h)
          \/ StoreFailure(h)
          \/ Finish(h)
    \/ Tick

ServerSpec == ServerInit /\ [][ServerNext]_allVars

\* A goroutine that can run does; a call that holds the connection is never
\* blocked.  Of the calls that wait for it database/sql picks one at random (go.mod
\* asks for Go 1.26): one that can have it again and again is passed over for ever
\* with probability zero.
ServerFairness ==
    \A h \in Handler :
        /\ WF_allVars(Handle(h))
        /\ WF_allVars(Finish(h))
        /\ WF_allVars(Proceeds(h) /\ UNCHANGED serverVars)
        /\ SF_allVars(Acquires(h) /\ UNCHANGED serverVars)

FairServerSpec == ServerSpec /\ ServerFairness

-----------------------------------------------------------------------------
(* Properties.                                                             *)

\* Where a store call can be at each stage of a handler's function.
CallsOf ==
    [free    |-> {"idle"},
     append  |-> {"begin", "insert", "appended", "failed"},
     page    |-> {"query", "scan", "highWater", "paged", "failed"},
     touch   |-> {"upsert", "touched", "failed"},
     devices |-> {"list", "listed", "failed"},
     remove  |-> {"delete", "removed", "failed"},
     answer  |-> {"failed", "touched", "listed", "removed"}]

\* Every variable of the server has its type, and the handler's place in its
\* function is one the call it is in allows.
ServerTypeOK ==
    /\ stage \in [Handler -> Stages]
    /\ request \in [Handler -> Request]
    /\ exchange \in [Handler -> Page]
    /\ asOf \in [Handler -> Nat]
    /\ status \in [Handler -> {0, OK, NoContent, NotFound, InternalServerError}]
    /\ clock \in Time
    /\ \A h \in Handler : /\ pc[h] \in CallsOf[stage[h]]
                          /\ status[h] = 0 <=> stage[h] # "answer"

Syncing(h) == request[h].name # None

Exchanged(h) == Syncing(h) /\ (stage[h] = "touch" \/ (stage[h] = "answer" /\ status[h] = OK))

\* A sync answered 200 has its whole batch in the log, in consecutive places
\* and in the order sent, after every other request's steps that came between
\* (server.go:184-190).
AcknowledgedPushIsStored ==
    \A h \in Handler : Exchanged(h) =>
        \E base \in 0..lastSequence : \A i \in 1..Len(request[h].blobs) :
            Row(base + i, request[h].dataset, request[h].device, request[h].blobs[i]) \in entries

Pending(h) ==
    {r \in Matching(entries, request[h].dataset, request[h].device, request[h].cursor) :
        r.sequence <= exchange[h].cursor}

\* A page with entries is still without a gap when it is answered, although the
\* device was recorded, and anything may have been pushed, in between; and an
\* empty one passes over nothing that was stored when its query ran
\* (store.go:239-246).
AnswerSkipsNothing ==
    \A h \in Handler : Exchanged(h) =>
        IF exchange[h].entries = {}
        THEN \A r \in Pending(h) : r.sequence > asOf[h]
        ELSE Pending(h) = exchange[h].entries

\* A contact moves last-seen forward, and leaves it after first-seen: it is what
\* tells which device is the one no longer used (store_test.go:306-307, 323).
LastSeenAdvances ==
    [][\A d \in devices, e \in devices' :
          (d.dataset = e.dataset /\ d.device = e.device) =>
              d.lastSeen <= e.lastSeen /\ e.firstSeen <= e.lastSeen]_allVars

\* DELETE answers 404 only when no such device is listed (PROTOCOL.md:193).
NotFoundMeansNotListed ==
    \A h \in Handler : status[h] = NotFound =>
        Listed(devices, request[h].dataset, request[h].device) = {}

\* A request is answered, whatever fails and whatever else is served.
EveryRequestIsAnswered ==
    \A h \in Handler : stage[h] # "free" ~> stage[h] = "free"

\* The steps a handler's function has before it once its store call is back.
StepsAfterCall ==
    [free |-> 0, append |-> 8, page |-> 4, touch |-> 2, devices |-> 2, remove |-> 2,
     answer |-> 1]

RequestStepsLeft(h) == StepsLeft(h) + StepsAfterCall[stage[h]]

OwnStep(h) == Handle(h) \/ StoreStep(h) \/ StoreFailure(h) \/ Finish(h)

\* A request comes nearer its answer with every step of its own goroutine, and
\* nobody else's takes it further away: after MaxBatch + 11 steps it is over.
RequestsGoForward ==
    [][\A h \in Handler : stage[h] # "free" =>
          /\ OwnStep(h) => RequestStepsLeft(h)' < RequestStepsLeft(h)
          /\ ~OwnStep(h) => RequestStepsLeft(h)' = RequestStepsLeft(h)]_allVars

=============================================================================
