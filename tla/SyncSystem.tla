----------------------------- MODULE SyncSystem -----------------------------
(***************************************************************************)
(* The server together with the devices of a dataset: each device writes,  *)
(* pushes what it wrote, and replays what the others wrote.  A device is   *)
(* not code of this repository; it does what PROTOCOL.md sections 6 and 9  *)
(* ask of a client and what server.go relies on, and it is as unreliable   *)
(* as a phone: it gives up waiting, loses an answer, dies between applying *)
(* a page and keeping its cursor.  The server process can be killed and    *)
(* started again at any point.                                             *)
(***************************************************************************)
EXTENDS SyncServer

CONSTANTS
    DatasetOf,   \* the dataset each device's token selects
    NameOf,      \* each device's name
    Writes,      \* the blobs each device will write, in order (BOUND)
    Managed,     \* the devices that somebody lists and removes (BOUND)
    MaxFaults    \* how many faults a behavior has (BOUND)

ASSUME SystemAssumption ==
    /\ DatasetOf \in [Device -> Dataset]
    /\ NameOf \in [Device -> Name]
    /\ Writes \in [Device -> Seq(Blob)]
    /\ Managed \subseteq Device
    /\ MaxFaults \in Nat
    /\ None \notin Name

\* What a device sends is let in: its outbox fits a request, its cursor is one.
ASSUME OutboxAssumption ==
    /\ \A d \in Device : Len(Writes[d]) <= MaxBatch
    /\ 0..MaxSequence \subseteq Cursor
    /\ 0 \in Limit

VARIABLES
    written,   \* how many of Writes[d] device d has written
    pushed,    \* how many of them were acknowledged
    cursor,    \* the cursor it keeps
    applied,   \* the sequences it has replayed
    server,    \* the handler it waits for, or None
    faults     \* faults so far

deviceVars == <<written, pushed, cursor, applied, server, faults>>
systemVars == <<allVars, deviceVars>>

SystemInit ==
    /\ ServerInit
    /\ written = [d \in Device |-> 0]
    /\ pushed = [d \in Device |-> 0]
    /\ cursor = [d \in Device |-> 0]
    /\ applied = [d \in Device |-> {}]
    /\ server = [d \in Device |-> None]
    /\ faults = 0

-----------------------------------------------------------------------------
(* A device.                                                               *)

Write(d) ==
    /\ written[d] < Len(Writes[d])
    /\ written' = [written EXCEPT ![d] = @ + 1]
    /\ UNCHANGED <<allVars, pushed, cursor, applied, server, faults>>

\* Everything written and not acknowledged is sent, with the cursor it keeps.
Exchange(d, h) ==
    /\ server[d] = None
    /\ StartSync(h, [dataset |-> DatasetOf[d], device |-> d, name |-> NameOf[d],
                     blobs   |-> SubSeq(Writes[d], pushed[d] + 1, written[d]),
                     cursor  |-> cursor[d], limit |-> 0])
    /\ server' = [server EXCEPT ![d] = h]
    /\ UNCHANGED <<written, pushed, cursor, applied, faults>>

Sequences(rows) == {r.sequence : r \in rows}

\* A page is applied and its cursor kept; what was pushed is acknowledged.
Receive(d) ==
    /\ server[d] # None
    /\ LET h == server[d]
       IN  /\ Finish(h)
           /\ IF status[h] = OK
              THEN /\ applied' = [applied EXCEPT ![d] = @ \cup Sequences(exchange[h].entries)]
                   /\ cursor' = [cursor EXCEPT ![d] = exchange[h].cursor]
                   /\ pushed' = [pushed EXCEPT ![d] = @ + Len(request[h].blobs)]
              ELSE UNCHANGED <<applied, cursor, pushed>>
    /\ server' = [server EXCEPT ![d] = None]
    /\ UNCHANGED <<written, faults>>

\* Whoever has the token may look at the list of devices and take one off it.
Manage(h) ==
    /\ \E d \in Managed : \/ StartDevices(h, DatasetOf[d])
                         \/ StartRemove(h, DatasetOf[d], d)
    /\ UNCHANGED deviceVars

-----------------------------------------------------------------------------
(* Faults.                                                                 *)

Fault == faults < MaxFaults /\ faults' = faults + 1

\* The device dies when the page is applied and the cursor not yet kept.
ReceiveAndDie(d) ==
    /\ Fault
    /\ server[d] # None
    /\ status[server[d]] = OK
    /\ Finish(server[d])
    /\ applied' = [applied EXCEPT ![d] = @ \cup Sequences(exchange[server[d]].entries)]
    /\ server' = [server EXCEPT ![d] = None]
    /\ UNCHANGED <<written, pushed, cursor>>

\* The device stops waiting; its request runs on, and nobody reads the answer.
GiveUp(d) ==
    /\ Fault
    /\ server[d] # None
    /\ server' = [server EXCEPT ![d] = None]
    /\ UNCHANGED <<allVars, written, pushed, cursor, applied>>

Unread(h) ==
    /\ \A d \in Device : server[d] # h
    /\ Finish(h)
    /\ UNCHANGED deviceVars

CallFails(h) ==
    /\ Fault
    /\ StoreFailure(h)
    /\ UNCHANGED <<written, pushed, cursor, applied, server>>

\* The process is killed and started again: SQLite's log has what was committed
\* and nothing of an open transaction, and every connection is cut.
ServerReset ==
    /\ connection' = None
    /\ txEntries' = {}
    /\ txSequence' = 0
    /\ pc' = [h \in Handler |-> "idle"]
    /\ args' = [h \in Handler |-> NoArgs]
    /\ scanned' = [h \in Handler |-> {}]
    /\ page' = [h \in Handler |-> NoPage]
    /\ assigned' = [h \in Handler |-> 0]
    /\ listing' = [h \in Handler |-> {}]
    /\ removed' = [h \in Handler |-> FALSE]
    /\ offered' = [h \in Handler |-> 0]
    /\ stage' = [h \in Handler |-> "free"]
    /\ request' = [h \in Handler |-> NoRequest]
    /\ exchange' = [h \in Handler |-> NoPage]
    /\ asOf' = [h \in Handler |-> 0]
    /\ status' = [h \in Handler |-> 0]
    /\ UNCHANGED <<clock, written, pushed, cursor, applied>>

\* WRONG: a device goes on waiting for an answer that cannot come.
RestartedUnnoticed == ServerReset /\ UNCHANGED server

Restarted == ServerReset /\ server' = [d \in Device |-> None]

Restart ==
    /\ Fault
    /\ \E h \in Handler : stage[h] # "free"
    /\ Restarted
    /\ UNCHANGED tables

-----------------------------------------------------------------------------

Serve(h) == (Handle(h) \/ StoreStep(h)) /\ UNCHANGED deviceVars

SystemNext ==
    \/ \E d \in Device :
          \/ Write(d)
          \/ \E h \in Handler : Exchange(d, h)
          \/ Receive(d)
          \/ ReceiveAndDie(d)
          \/ GiveUp(d)
    \/ \E h \in Handler :
          \/ Serve(h)
          \/ Unread(h)
          \/ Manage(h)
          \/ CallFails(h)
    \/ Tick /\ UNCHANGED deviceVars
    \/ Restart

SystemSpec == SystemInit /\ [][SystemNext]_systemVars

\* A device syncs again and again (PROTOCOL.md section 6), and reads its
\* answers; goroutines run, and none waits for the connection for ever (almost
\* surely: see ServerFairness).
SystemFairness ==
    /\ \A d \in Device :
          /\ WF_systemVars(Write(d))
          /\ SF_systemVars(\E h \in Handler : Exchange(d, h))
          /\ WF_systemVars(Receive(d))
    /\ \A h \in Handler :
          /\ WF_systemVars(Handle(h) /\ UNCHANGED deviceVars)
          /\ WF_systemVars(Unread(h))
          /\ WF_systemVars(Proceeds(h) /\ UNCHANGED <<serverVars, deviceVars>>)
          /\ SF_systemVars(Acquires(h) /\ UNCHANGED <<serverVars, deviceVars>>)

FairSystemSpec == SystemSpec /\ SystemFairness

-----------------------------------------------------------------------------
(* Properties.                                                             *)

Others(d) == {r \in entries : r.dataset = DatasetOf[d] /\ r.device # d}

\* Every variable of a device has its type, and no handler answers two devices.
SystemTypeOK ==
    /\ written \in [Device -> Nat]
    /\ pushed \in [Device -> Nat]
    /\ cursor \in [Device -> Nat]
    /\ applied \in [Device -> SUBSET Nat]
    /\ \A d \in Device : pushed[d] <= written[d] /\ written[d] <= Len(Writes[d])
    /\ server \in [Device -> Handler \cup {None}]
    /\ faults \in 0..MaxFaults
    /\ \A d, e \in Device : server[d] = server[e] => d = e \/ server[d] = None

\* A device has replayed every entry of the others up to the cursor it keeps:
\* to go on from there loses nothing (store.go:42-44; PROTOCOL.md:257-260).
NoEntrySkipped ==
    \A d \in Device : \A r \in Others(d) :
        r.sequence <= cursor[d] => r.sequence \in applied[d]

\* However many requests run at a time, a cursor never goes back, and what it
\* passes over was replayed, or was stored after the query of a page that found
\* nothing: of what was there when a device asked it misses nothing
\* (store.go:208-210, 244-246; PROTOCOL.md:147-153).
CursorPassesNothingOld ==
    [][\A d \in Device : cursor'[d] # cursor[d] =>
          /\ cursor[d] < cursor'[d]
          /\ \A r \in Others(d) : r.sequence \in (cursor[d] + 1)..cursor'[d] =>
                \/ r.sequence \in applied'[d]
                \/ /\ exchange[server[d]].entries = {}
                   /\ r.sequence > asOf[server[d]]]_systemVars

\* A device never gets its own entries back, nor those of another dataset
\* (PROTOCOL.md:141-143).
OnlyOthersReplayed ==
    \A d \in Device : applied[d] \subseteq Sequences(Others(d))

\* Where the i-th blob that d writes is in the log.
Stored(d, i) == Sequences({r \in entries : r.device = d /\ r.blob = Writes[d][i]})

\* What was acknowledged is stored, and what is stored of a device is what it
\* wrote, first in the order it wrote it, whatever was sent twice or cut off
\* (PROTOCOL.md:138-139, 229).
StoredAsWritten ==
    \A d \in Device :
        /\ \A i \in 1..pushed[d] : Stored(d, i) # {}
        /\ \A i, j \in 1..written[d] : (i < j /\ Stored(d, j) # {}) =>
              \E s \in Stored(d, i) : \A t \in Stored(d, j) : s < t

\* The last entry of a device in the log is the newest that it got stored: what
\* arrived first is not numbered on top of what came later (README.md:6-7;
\* PROTOCOL.md:80, 99).
NewestWriteIsLast ==
    \A d \in Device : \A i, j \in 1..written[d] : i < j =>
        (Stored(d, j) # {} => \A s \in Stored(d, i) : \E t \in Stored(d, j) : s < t)

\* The push that d waits for is committed.
Commits(d) == server[d] # None /\ pc[server[d]] = "insert" /\ pc'[server[d]] = "appended"

\* Only a request that its device gave up puts an old write on top of a newer
\* one: what the push that a device waits for stores ends up with the newest on
\* top, over all that requests given up before it have stored meanwhile
\* (server.go:182-190; PROTOCOL.md:83-87).
AwaitedPushEndsOnTop ==
    [][\A d \in Device : Commits(d) =>
          \A i, j \in 1..written[d] :
              ( /\ i < j
                /\ Stored(d, j)' # {}
                /\ Stored(d, i)' # Stored(d, i) \/ Stored(d, j)' # Stored(d, j) )
              => \A s \in Stored(d, i)' : \E t \in Stored(d, j)' : s < t]_systemVars

\* A new entry lands above the cursor of every device that is to be given it: a
\* sequence used again would land below one already handed out, and the entry
\* would never be delivered (schema.go:22-25; PROTOCOL.md:73-77).
NewEntriesAboveCursors ==
    [][\A r \in entries' \ entries : \A d \in Device :
          (r.dataset = DatasetOf[d] /\ r.device # d) => r.sequence > cursor[d]]_systemVars

\* How far a device has come: what it applied counts when it died before it
\* kept the cursor.
Position(d) ==
    CHOOSE p \in applied[d] \cup {cursor[d]} : \A q \in applied[d] \cup {cursor[d]} : q <= p

\* The handlers that have looked a page up, and where the log ended then.
LookedUp(h) ==
    \/ stage[h] = "page" /\ pc[h] \in {"scan", "highWater", "paged"}
    \/ stage[h] = "touch"
    \/ Exchanged(h)

LogEnd(h) == IF stage[h] = "page" THEN offered[h] ELSE asOf[h]

\* Where the log ended when the page was looked up that d waits for.
AskedAt(d) == {LogEnd(h) : h \in {k \in Handler : server[d] = k /\ LookedUp(k)}}

\* With the devices around it the server is the log of Replay, however many
\* requests run at a time and whatever is lost, repeated or killed: each device
\* replays the others' entries without a gap below the end of the log as it was
\* when it asked (PROTOCOL.md:257-258; store.go:244-246).
View == INSTANCE Replay WITH
            log <- entries, last <- lastSequence,
            position <- [d \in Device |-> Position(d)], replayed <- applied,
            asked <- [d \in Device |-> AskedAt(d)]

ImplementsReplay == View!Spec

\* Everything a device writes reaches every other device of its dataset.
EveryEntryArrives ==
    \A d, e \in Device : (d # e /\ DatasetOf[d] = DatasetOf[e]) =>
        \A i \in 1..Len(Writes[d]) :
            written[d] >= i ~>
                \E r \in entries : /\ r.device = d
                                   /\ r.blob = Writes[d][i]
                                   /\ r.sequence \in applied[e]

=============================================================================
