------------------------------ MODULE Process ------------------------------
(***************************************************************************)
(* The processes of main.go around one database: the server, which Docker  *)
(* starts, stops and starts again when it ends by itself, and the commands *)
(* that write a backup and probe the server's health.  What a request does *)
(* to the tables is Store's and SyncServer's matter; here it is in one of  *)
(* a few stages, and the log is the set of requests that have committed.   *)
(*                                                                         *)
(* Time is counted only between docker stop and the end of the process, in *)
(* a unit of which the server's own steps need a negligible part.          *)
(***************************************************************************)
EXTENDS Integers

CONSTANTS
    Request,      \* pushes, each made once (BOUND)
    Statements,   \* how many statements migrate has
    Host,         \* CMDV_SYNC_HOST: all interfaces, the loopback one, or another
    Grace,        \* how long Shutdown waits
    MaxFaults,    \* faults and changes of the environment (BOUND)
    MaxStops      \* docker stop (BOUND)

ASSUME ProcessAssumption ==
    /\ Statements \in Nat \ {0}
    /\ Grace \in Nat
    /\ MaxFaults \in Nat /\ MaxStops \in Nat

VARIABLES
    phase,        \* where each process is, see Phase
    exit,         \* how it ended the last time
    signalled,    \* SIGTERM was delivered to NotifyContext
    request,      \* the stage of each request
    probe,        \* what became of the health check
    statement,    \* the statement of migrate that each process runs next
    schema,       \* the statements of migrate that have taken effect
    log,          \* the requests whose transaction committed
    destination,  \* the file that the backup is written to
    before,       \* the requests answered before the backup was asked for
    environment,  \* what the processes find: configuration, directory, port
    wanted,       \* Docker is to keep the server running
    elapsed,      \* time since docker stop
    faults,
    stops

runVars == <<phase, exit, signalled, request, probe>>
databaseVars == <<statement, schema, log>>
backupVars == <<destination, before>>
worldVars == <<environment, wanted, elapsed, faults, stops>>
allVars == <<runVars, databaseVars, backupVars, worldVars>>

Process == {"server", "backup"}

Phase == {"off", "loading", "preparing", "opening", "migrating", "opened",
          "starting", "listening", "deaf", "draining", "closing",   \* the server's
          "checked", "copying"}                                     \* the backup's

\* NotifyContext is told of signals.
Notified == {"starting", "listening", "deaf"}

Exit == {"none", "done", "config", "io", "killed"}   \* 0, 78, 74, by a signal

Stage == {"none", "received", "writing", "stored", "answered", "failed", "severed"}
Active == {"received", "writing", "stored"}

Environment ==
    [config : {"good", "refused"}, directory : {"missing", "ready", "unusable"},
     port : {"free", "taken"}]

NoFile == [kind |-> "absent", holds |-> {}]

\* A new volume, and nothing wrong: see Change.
Init ==
    /\ phase = [p \in Process |-> "off"]
    /\ exit = [p \in Process |-> "none"]
    /\ signalled = FALSE
    /\ request = [r \in Request |-> "none"]
    /\ probe = "idle"
    /\ statement = [p \in Process |-> 1]
    /\ schema = {}
    /\ log = {}
    /\ destination = NoFile
    /\ before = {}
    /\ environment = [config |-> "good", directory |-> "missing", port |-> "free"]
    /\ wanted = TRUE
    /\ elapsed = 0
    /\ faults = 0
    /\ stops = 0

Enter(p, where) ==
    /\ phase' = [phase EXCEPT ![p] = where]
    /\ UNCHANGED <<exit, signalled, request, probe>>

\* The process is gone, and the server's connections with it.
End(p, how) ==
    /\ phase' = [phase EXCEPT ![p] = "off"]
    /\ exit' = [exit EXCEPT ![p] = how]
    /\ signalled' = (signalled /\ p # "server")
    /\ request' = [r \in Request |-> IF p = "server" /\ request[r] \in Active
                                     THEN "severed" ELSE request[r]]
    /\ probe' = IF p = "server" /\ probe = "asked" THEN "unwell" ELSE probe

Fault ==
    /\ faults < MaxFaults
    /\ faults' = faults + 1
    /\ UNCHANGED <<wanted, elapsed, stops>>

-----------------------------------------------------------------------------
(* What the server and the backup both do: load the configuration, open    *)
(* and migrate the database.                                               *)

Load(p) ==
    /\ phase[p] = "loading"
    /\ IF environment.config = "refused"
       THEN End(p, "config")
       ELSE Enter(p, IF p = "server" THEN "preparing" ELSE "opening")
    /\ UNCHANGED <<databaseVars, backupVars, worldVars>>

\* A missing directory is created, and one that cannot be used is reported.
PrepareDatabaseDirectory ==
    /\ phase["server"] = "preparing"
    /\ IF environment.directory = "unusable"
       THEN End("server", "config") /\ UNCHANGED environment
       ELSE /\ Enter("server", "opening")
            /\ environment' = [environment EXCEPT !.directory = "ready"]
    /\ UNCHANGED <<databaseVars, backupVars, wanted, elapsed, faults, stops>>

\* The pragmas make SQLite open the file, or create it.
Open(p) ==
    /\ phase[p] = "opening"
    /\ IF environment.directory = "ready" THEN Enter(p, "migrating") ELSE End(p, "io")
    /\ statement' = [statement EXCEPT ![p] = 1]
    /\ UNCHANGED <<schema, log, backupVars, worldVars>>

NextStatement(p) ==
    /\ statement' = [statement EXCEPT ![p] = @ + 1]
    /\ Enter(p, IF statement[p] = Statements THEN "opened" ELSE "migrating")

\* WRONG: CREATE without IF NOT EXISTS.
CreateAnew(p) ==
    IF statement[p] \in schema
    THEN End(p, "io") /\ UNCHANGED <<schema, statement>>
    ELSE schema' = schema \cup {statement[p]} /\ NextStatement(p)

\* WRONG: a database that has the first table is taken for up to date.
CreateIfNew(p) ==
    IF statement[p] = 1 /\ 1 \in schema
    THEN Enter(p, "opened") /\ UNCHANGED <<schema, statement>>
    ELSE schema' = schema \cup {statement[p]} /\ NextStatement(p)

\* One statement, committed by itself; it does nothing where it was run before.
Create(p) == schema' = schema \cup {statement[p]} /\ NextStatement(p)

Migrate(p) ==
    /\ phase[p] = "migrating"
    /\ Create(p)
    /\ UNCHANGED <<log, backupVars, worldVars>>

\* The disk is full, or the file is no database: an error of a pragma or statement.
OpenFails(p) ==
    /\ Fault
    /\ phase[p] \in {"opening", "migrating"}
    /\ End(p, "io")
    /\ UNCHANGED <<databaseVars, backupVars, environment>>

-----------------------------------------------------------------------------
(* The server: run, after Open.                                            *)

ServerMoves(from, to) ==
    /\ phase["server"] = from
    /\ Enter("server", to)
    /\ UNCHANGED <<databaseVars, backupVars, worldVars>>

ServerEnds(from, how) ==
    /\ phase["server"] = from
    /\ End("server", how)
    /\ UNCHANGED <<databaseVars, backupVars, worldVars>>

Register == ServerMoves("opened", "starting")

\* ListenAndServe, in a goroutine of its own.
Listen == ServerMoves("starting", IF environment.port = "free" THEN "listening" ELSE "deaf")

\* os.Exit: nothing that was deferred runs.
ListenFailed == ServerEnds("deaf", "io")

\* Shutdown closes the listener, also one that is not open yet.
BeginShutdown == signalled /\ \E from \in Notified : ServerMoves(from, "draining")

Busy == (\E r \in Request : request[r] \in Active) \/ probe = "asked"

\* WRONG: http.Server.Close, which waits for nobody.
CloseReturns == TRUE

\* WRONG: Shutdown without a deadline.
ShutdownWaits == ~Busy

ShutdownReturns == ~Busy \/ elapsed >= Grace

EndShutdown == ShutdownReturns /\ ServerMoves("draining", "closing")

\* The database was closed and run returns, whatever the handlers still do.
Leave == ServerEnds("closing", "done")

-----------------------------------------------------------------------------
(* Requests.  Nothing makes a client go on, or finish.                     *)

Becomes(r, stage) ==
    /\ request' = [request EXCEPT ![r] = stage]
    /\ UNCHANGED <<phase, exit, signalled, probe, statement, schema, backupVars, worldVars>>

Receive(r) ==
    /\ phase["server"] = "listening"
    /\ request[r] = "none"
    /\ Becomes(r, "received")
    /\ UNCHANGED log

Writing == \E r \in Request : request[r] = "writing"

\* The transaction takes the connection; after Close there is none to be had.
BeginTransaction(r) ==
    /\ request[r] = "received"
    /\ IF phase["server"] = "closing"
       THEN Becomes(r, "failed")
       ELSE ~Writing /\ Becomes(r, "writing")
    /\ UNCHANGED log

\* A transaction that Close found under way may still commit.
Commit(r) ==
    /\ request[r] = "writing"
    /\ Becomes(r, "stored")
    /\ log' = log \cup {r}

Answer(r) ==
    /\ request[r] = "stored"
    /\ Becomes(r, "answered")
    /\ UNCHANGED log

-----------------------------------------------------------------------------
(* The backup command.                                                     *)

AskBackup ==
    /\ phase["backup"] = "off"
    /\ exit["backup"] = "none"
    /\ Enter("backup", "loading")
    /\ before' = {r \in Request : request[r] = "answered"}
    /\ UNCHANGED <<databaseVars, destination, worldVars>>

CheckDestination ==
    /\ phase["backup"] = "opened"
    /\ IF destination.kind = "absent" THEN Enter("backup", "checked") ELSE End("backup", "io")
    /\ UNCHANGED <<databaseVars, backupVars, worldVars>>

\* WRONG: copies the database file, which lacks what no checkpoint moved there,
\* and can be torn by a transaction that is under way.
BeginCopyOfFile ==
    \E moved \in SUBSET (log \cup {r \in Request : request[r] = "writing"}) :
        destination' = [kind |-> "partial", holds |-> moved]

\* One read transaction: what has committed when it begins.
BeginCopy == destination' = [kind |-> "partial", holds |-> log]

\* VACUUM INTO refuses a file that came to be since it was looked for.
VacuumInto ==
    /\ phase["backup"] = "checked"
    /\ IF destination.kind = "absent"
       THEN BeginCopy /\ Enter("backup", "copying")
       ELSE End("backup", "io") /\ UNCHANGED destination
    /\ UNCHANGED <<databaseVars, before, worldVars>>

EndCopy ==
    /\ phase["backup"] = "copying"
    /\ destination' = [destination EXCEPT !.kind = "copy"]
    /\ End("backup", "done")
    /\ UNCHANGED <<databaseVars, before, worldVars>>

\* Five minutes are over, or the disk is full: the part that was written stays.
CopyFails ==
    /\ Fault
    /\ phase["backup"] = "copying"
    /\ End("backup", "io")
    /\ UNCHANGED <<databaseVars, backupVars, environment>>

\* The operator moves the file away, and may ask again.
TakeFile ==
    /\ phase["backup"] = "off"
    /\ exit["backup"] # "none"
    /\ exit' = [exit EXCEPT !["backup"] = "none"]
    /\ destination' = NoFile
    /\ before' = {}
    /\ UNCHANGED <<phase, signalled, request, probe, databaseVars, worldVars>>

-----------------------------------------------------------------------------
(* The health check.  A probe that exits 0 is idle again.                  *)

\* 127.0.0.1, and the port that the configuration gives.
ProbeAddress == "loopback"

Reached(address) == phase["server"] = "listening" /\ Host \in {"any", address}

ProbeBecomes(outcome) ==
    /\ probe' = outcome
    /\ UNCHANGED <<phase, exit, signalled, request, databaseVars, backupVars, worldVars>>

\* The configuration is loaded again for it, with the file of tokens.
Probe ==
    /\ probe = "idle"
    /\ CASE environment.config = "refused" -> ProbeBecomes("unwell")
         [] Reached(ProbeAddress)          -> ProbeBecomes("asked")
         [] OTHER                          -> ProbeBecomes("refused")

\* Ping waits for the connection, and fails on a database that was closed.
AnswerProbe ==
    /\ probe = "asked"
    /\ IF phase["server"] = "closing" THEN ProbeBecomes("unwell")
                                      ELSE ~Writing /\ ProbeBecomes("idle")

\* Three seconds are over, and the connection is held.
ProbeTimesOut == probe = "asked" /\ Writing /\ ProbeBecomes("unwell")

ProbeExits == probe \in {"refused", "unwell"} /\ ProbeBecomes("idle")

-----------------------------------------------------------------------------
(* Docker, the operator, and faults.                                       *)

\* restart: unless-stopped, and docker start.
Launch == wanted /\ ServerMoves("off", "loading")

\* docker stop sends SIGTERM, which kills a process that is not told of it.
StopContainer ==
    /\ wanted
    /\ stops < MaxStops
    /\ wanted' = FALSE
    /\ elapsed' = 0
    /\ stops' = stops + 1
    /\ CASE phase["server"] = "off" ->
                UNCHANGED runVars
         [] phase["server"] \in Notified ->
                signalled' = TRUE /\ UNCHANGED <<phase, exit, request, probe>>
         [] OTHER ->
                End("server", "killed")
    /\ UNCHANGED <<databaseVars, backupVars, environment, faults>>

StartContainer ==
    /\ ~wanted
    /\ phase["server"] = "off"
    /\ wanted' = TRUE
    /\ UNCHANGED <<runVars, databaseVars, backupVars, environment, elapsed, faults, stops>>

\* Time passes where the server waits for others.
Tick ==
    /\ phase["server"] = "draining"
    /\ ~ShutdownReturns
    /\ elapsed < Grace
    /\ elapsed' = elapsed + 1
    /\ UNCHANGED <<runVars, databaseVars, backupVars, environment, wanted, faults, stops>>

Crash(p) ==
    /\ Fault
    /\ phase[p] # "off"
    /\ End(p, "killed")
    /\ UNCHANGED <<databaseVars, backupVars, environment>>

\* Somebody changes the configuration, the volume or who has the port, or
\* writes a file where the backup is to go.
Change ==
    /\ Fault
    /\ \/ /\ environment' \in
                {[environment EXCEPT !.config = c] : c \in {"good", "refused"}}
                \cup {[environment EXCEPT !.directory = d] : d \in {"ready", "unusable"}}
                \cup {[environment EXCEPT !.port = t] : t \in {"free", "taken"}}
          /\ environment' # environment
          /\ UNCHANGED destination
       \/ /\ destination.kind = "absent"
          /\ destination' = [NoFile EXCEPT !.kind = "foreign"]
          /\ UNCHANGED environment
    /\ UNCHANGED <<runVars, databaseVars, before>>

-----------------------------------------------------------------------------

Starts == \/ Launch \/ Load("server") \/ PrepareDatabaseDirectory \/ Open("server")
          \/ Migrate("server") \/ Register \/ Listen \/ ListenFailed

Stops == BeginShutdown \/ EndShutdown \/ Leave

Serves(r) == Receive(r) \/ BeginTransaction(r) \/ Commit(r) \/ Answer(r)

BacksUp == \/ AskBackup \/ Load("backup") \/ Open("backup") \/ Migrate("backup")
           \/ CheckDestination \/ VacuumInto \/ EndCopy \/ CopyFails \/ TakeFile

ChecksHealth == Probe \/ AnswerProbe \/ ProbeTimesOut \/ ProbeExits

Next ==
    \/ Starts
    \/ Stops
    \/ \E r \in Request : Serves(r)
    \/ BacksUp
    \/ ChecksHealth
    \/ StopContainer \/ StartContainer \/ Tick
    \/ \E p \in Process : OpenFails(p) \/ Crash(p)
    \/ Change

Spec == Init /\ [][Next]_allVars

\* The server's own steps are taken, and time passes.  Clients and the operator
\* owe nothing.
Fairness == WF_allVars(Starts) /\ WF_allVars(Stops) /\ WF_allVars(Tick)

FairSpec == Spec /\ Fairness

-----------------------------------------------------------------------------
(* Properties.                                                             *)

\* Every variable has its type, only a server that has listened has a request
\* or a probe, and only what has committed is ever copied.
ProcessTypeOK ==
    /\ phase \in [Process -> Phase]
    /\ exit \in [Process -> Exit]
    /\ signalled \in BOOLEAN
    /\ request \in [Request -> Stage]
    /\ probe \in {"idle", "asked", "refused", "unwell"}
    /\ statement \in [Process -> 1..Statements + 1]
    /\ schema \subseteq 1..Statements
    /\ log \subseteq Request
    /\ destination \in [kind : {"absent", "foreign", "partial", "copy"}, holds : SUBSET log]
    /\ before \subseteq Request
    /\ environment \in Environment
    /\ wanted \in BOOLEAN
    /\ elapsed \in 0..Grace
    /\ faults \in 0..MaxFaults
    /\ stops \in 0..MaxStops
    /\ Busy => phase["server"] \in {"listening", "draining", "closing"}

\* Whoever is let in finds the whole schema, whatever interrupted the starts
\* before this one and whichever process ran which statement (main.go:119-121,
\* schema.go:14-16).
ServingMeansReady ==
    (phase["server"] = "listening" \/ Busy) => schema = 1..Statements

\* A stop lets requests finish: one is cut off, or told that the database is
\* closed, only when Shutdown's time is over or the process was killed
\* (main.go:148-149).
StopFinishesRequests ==
    [][\A r \in Request :
          (request[r] \in Active /\ request'[r] \in {"severed", "failed"}) =>
              elapsed >= Grace \/ exit'["server"] = "killed"]_allVars

\* A stop ends, also when a client never finishes (main.go:169).
StopEnds == ~wanted ~> phase["server"] = "off"

\* When the environment is and stays as it has to be, the server comes to serve:
\* no interrupted start leaves a database it cannot start with again
\* (schema.go:14-16).
Usable == /\ environment.config = "good" /\ environment.port = "free"
          /\ environment.directory # "unusable"

StartRecovers == <>[](wanted /\ Usable) => <>[](phase["server"] = "listening")

\* A backup that reports success has everything that was answered before it
\* was asked for, and is whole (store.go:125-129).
BackupHasAcknowledged ==
    exit["backup"] = "done" => destination.kind = "copy" /\ before \subseteq destination.holds

\* The health check finds a server that listens (main.go:49-50).
ProbeReachesServer ==
    [][probe' = "refused" => phase["server"] # "listening"]_probe

=============================================================================
