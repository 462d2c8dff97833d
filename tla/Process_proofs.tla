--------------------------- MODULE Process_proofs ---------------------------
(***************************************************************************)
(* Proofs about Process, for any number of requests, faults and stops, any *)
(* schema, and any grace.                                                  *)
(***************************************************************************)
EXTENDS Process, TLAPS

-----------------------------------------------------------------------------
(* The inductive invariant.                                                *)

Ready == {"opened", "starting", "listening", "deaf", "draining", "closing", "checked", "copying"}

\* What a process has run of migrate is there, whoever ran it.
Migrated ==
    \A p \in Process :
        /\ phase[p] = "migrating" =>
              statement[p] \in 1..Statements /\ 1..(statement[p] - 1) \subseteq schema
        /\ phase[p] \in Ready => schema = 1..Statements

\* What was answered is in the log.
Committed ==
    /\ \A r \in Request : request[r] \in {"stored", "answered"} => r \in log
    /\ before \subseteq log

\* The copy has what it has to have from its beginning.
Copied ==
    /\ phase["backup"] # "off" => exit["backup"] = "none"
    /\ phase["backup"] = "copying" => destination.kind = "partial" /\ before \subseteq destination.holds
    /\ exit["backup"] = "done" => destination.kind = "copy" /\ before \subseteq destination.holds

\* Shutdown does not give up early.
Drained ==
    (phase["server"] = "closing" /\ Busy) => elapsed >= Grace

ProcessInv == ProcessTypeOK /\ Migrated /\ Committed /\ Copied /\ Drained

-----------------------------------------------------------------------------
LEMMA InitInv == Init => ProcessInv
<1> SUFFICES ASSUME Init PROVE ProcessInv
  OBVIOUS
<1> USE DEF Init
<1>1. ~Busy
  BY DEF Busy, Active
<1>2. environment \in Environment /\ destination \in [kind : {"absent", "foreign", "partial", "copy"}, holds : SUBSET log]
  BY DEF Environment, NoFile
<1>3. ProcessTypeOK
  <2>1. phase \in [Process -> Phase]
    BY ProcessAssumption DEF Process, Phase, Exit, Stage
  <2>2. exit \in [Process -> Exit]
    BY ProcessAssumption DEF Process, Phase, Exit, Stage
  <2>3. request \in [Request -> Stage]
    BY ProcessAssumption DEF Process, Phase, Exit, Stage
  <2>4. statement \in [Process -> 1..Statements + 1]
    BY ProcessAssumption DEF Process, Phase, Exit, Stage
  <2>5. elapsed \in 0..Grace /\ faults \in 0..MaxFaults /\ stops \in 0..MaxStops
    BY ProcessAssumption DEF Process, Phase, Exit, Stage
  <2>6. schema \subseteq 1..Statements
    BY ProcessAssumption DEF Process, Phase, Exit, Stage
  <2> QED BY <1>1, <1>2, <2>1, <2>2, <2>3, <2>4, <2>5, <2>6 DEF ProcessTypeOK
<1>4. Migrated /\ Committed /\ Copied /\ Drained
  BY <1>1, ProcessAssumption DEF Migrated, Committed, Copied, Drained, Ready, Process
<1> QED BY <1>3, <1>4 DEF ProcessInv

-----------------------------------------------------------------------------
(* Each action keeps the invariant.                                        *)

LEMMA OpeningKeepsInv ==
    ASSUME ProcessInv, NEW p \in Process
    PROVE  /\ Load(p) => ProcessInv'
           /\ PrepareDatabaseDirectory => ProcessInv'
           /\ Open(p) => ProcessInv'
           /\ Migrate(p) => ProcessInv'
           /\ OpenFails(p) => ProcessInv'
<1> USE ProcessAssumption
    DEF ProcessInv, ProcessTypeOK, Migrated, Committed, Copied, Drained, Ready, Process, Phase,
        Exit, Stage, Active, Busy, databaseVars, backupVars, worldVars
<1>1. ASSUME Load(p) PROVE ProcessInv'
  <2>1. CASE environment.config = "refused"
    BY <1>1, <2>1 DEF Load, End
  <2>2. CASE environment.config # "refused"
    BY <1>1, <2>2 DEF Load, Enter
  <2> QED BY <2>1, <2>2
<1>2. ASSUME PrepareDatabaseDirectory PROVE ProcessInv'
  <2>1. CASE environment.directory = "unusable"
    BY <1>2, <2>1 DEF PrepareDatabaseDirectory, End
  <2>2. CASE environment.directory # "unusable"
    <3>1. environment' \in Environment
      BY <1>2, <2>2 DEF PrepareDatabaseDirectory, Environment
    <3> QED BY <1>2, <2>2, <3>1 DEF PrepareDatabaseDirectory, Enter
  <2> QED BY <2>1, <2>2
<1>3. ASSUME Open(p) PROVE ProcessInv'
  <2>1. CASE environment.directory = "ready"
    BY <1>3, <2>1 DEF Open, Enter
  <2>2. CASE environment.directory # "ready"
    BY <1>3, <2>2 DEF Open, End
  <2> QED BY <2>1, <2>2
<1>4. ASSUME Migrate(p) PROVE ProcessInv'
  <2> DEFINE k == statement[p]
             next == IF k = Statements THEN "opened" ELSE "migrating"
  <2>1. k \in 1..Statements /\ 1..(k - 1) \subseteq schema
    BY <1>4 DEF Migrate
  <2>2. /\ phase[p] = "migrating"
        /\ schema' = schema \cup {k}
        /\ statement' = [statement EXCEPT ![p] = k + 1]
        /\ phase' = [phase EXCEPT ![p] = next]
        /\ UNCHANGED <<exit, signalled, request, probe, log, destination, before,
                      environment, wanted, elapsed, faults, stops>>
    BY <1>4 DEF Migrate, Create, NextStatement, Enter
  <2> HIDE <1>4 DEF k
  <2>3. schema' \subseteq 1..Statements /\ schema \subseteq schema' /\ 1..k \subseteq schema'
    BY <2>1, <2>2
  <2>4. Busy' => phase'["server"] \in {"listening", "draining", "closing"}
    BY <2>2
  <2>5. statement' \in [Process -> 1..Statements + 1]
    BY <2>1, <2>2
  <2>6. ProcessTypeOK'
    BY <2>2, <2>3, <2>4, <2>5
  <2>7. Migrated'
    <3> SUFFICES ASSUME NEW q \in Process
                 PROVE  /\ phase'[q] = "migrating" =>
                              statement'[q] \in 1..Statements /\ 1..(statement'[q] - 1) \subseteq schema'
                        /\ phase'[q] \in Ready => schema' = 1..Statements
      BY DEF Migrated
    <3>1. CASE q # p
      BY <2>2, <2>3, <3>1
    <3>2. CASE q = p
      <4>1. statement'[p] = k + 1 /\ phase'[p] = next
        BY <2>2
      <4>2. CASE k = Statements
        BY <2>3, <3>2, <4>1, <4>2
      <4>3. CASE k # Statements
        <5>1. k + 1 \in 1..Statements /\ 1..((k + 1) - 1) = 1..k
          BY <2>1, <4>3
        <5> QED BY <2>3, <3>2, <4>1, <4>3, <5>1
      <4> QED BY <4>2, <4>3
    <3> QED BY <3>1, <3>2
  <2>8. Committed' /\ Copied' /\ Drained'
    BY <2>2
  <2> QED BY <2>6, <2>7, <2>8
<1>5. ASSUME OpenFails(p) PROVE ProcessInv'
  BY <1>5 DEF OpenFails, Fault, End
<1> QED BY <1>1, <1>2, <1>3, <1>4, <1>5

LEMMA ServingKeepsInv ==
    ASSUME ProcessInv
    PROVE  /\ Launch => ProcessInv'
           /\ Register => ProcessInv'
           /\ Listen => ProcessInv'
           /\ ListenFailed => ProcessInv'
           /\ BeginShutdown => ProcessInv'
           /\ EndShutdown => ProcessInv'
           /\ Leave => ProcessInv'
<1> USE ProcessAssumption
    DEF ProcessInv, ProcessTypeOK, Migrated, Committed, Copied, Drained, Ready, Process, Phase,
        Exit, Stage, Active, Busy, databaseVars, backupVars, worldVars
<1>1. ASSUME Launch PROVE ProcessInv'
  BY <1>1 DEF Launch, ServerMoves, Enter
<1>2. ASSUME Register PROVE ProcessInv'
  BY <1>2 DEF Register, ServerMoves, Enter
<1>3. ASSUME Listen PROVE ProcessInv'
  BY <1>3 DEF Listen, ServerMoves, Enter
<1>4. ASSUME ListenFailed PROVE ProcessInv'
  BY <1>4 DEF ListenFailed, ServerEnds, End
<1>5. ASSUME BeginShutdown PROVE ProcessInv'
  BY <1>5 DEF BeginShutdown, Notified, ServerMoves, Enter
<1>6. ASSUME EndShutdown PROVE ProcessInv'
  BY <1>6 DEF EndShutdown, ShutdownReturns, ServerMoves, Enter
<1>7. ASSUME Leave PROVE ProcessInv'
  BY <1>7 DEF Leave, ServerEnds, End
<1> QED BY <1>1, <1>2, <1>3, <1>4, <1>5, <1>6, <1>7

LEMMA RequestKeepsInv ==
    ASSUME ProcessInv, NEW r \in Request
    PROVE  /\ Receive(r) => ProcessInv'
           /\ BeginTransaction(r) => ProcessInv'
           /\ Commit(r) => ProcessInv'
           /\ Answer(r) => ProcessInv'
<1> USE ProcessAssumption
    DEF ProcessInv, ProcessTypeOK, Migrated, Committed, Copied, Drained, Ready, Process, Phase,
        Exit, Stage, Active, Busy, databaseVars, backupVars, worldVars
<1>1. ASSUME Receive(r) PROVE ProcessInv'
  BY <1>1 DEF Receive, Becomes
<1>2. ASSUME BeginTransaction(r) PROVE ProcessInv'
  BY <1>2 DEF BeginTransaction, Becomes
<1>3. ASSUME Commit(r) PROVE ProcessInv'
  BY <1>3 DEF Commit, Becomes
<1>4. ASSUME Answer(r) PROVE ProcessInv'
  BY <1>4 DEF Answer, Becomes
<1> QED BY <1>1, <1>2, <1>3, <1>4

LEMMA BackupKeepsInv ==
    ASSUME ProcessInv
    PROVE  /\ AskBackup => ProcessInv'
           /\ CheckDestination => ProcessInv'
           /\ VacuumInto => ProcessInv'
           /\ EndCopy => ProcessInv'
           /\ CopyFails => ProcessInv'
           /\ TakeFile => ProcessInv'
<1> USE ProcessAssumption
    DEF ProcessInv, ProcessTypeOK, Migrated, Committed, Copied, Drained, Ready, Process, Phase,
        Exit, Stage, Active, Busy, databaseVars, backupVars, worldVars
<1>1. ASSUME AskBackup PROVE ProcessInv'
  BY <1>1 DEF AskBackup, Enter
<1>2. ASSUME CheckDestination PROVE ProcessInv'
  BY <1>2 DEF CheckDestination, Enter, End
<1>3. ASSUME VacuumInto PROVE ProcessInv'
  BY <1>3 DEF VacuumInto, BeginCopy, Enter, End
<1>4. ASSUME EndCopy PROVE ProcessInv'
  BY <1>4 DEF EndCopy, End
<1>5. ASSUME CopyFails PROVE ProcessInv'
  BY <1>5 DEF CopyFails, Fault, End
<1>6. ASSUME TakeFile PROVE ProcessInv'
  BY <1>6 DEF TakeFile, NoFile
<1> QED BY <1>1, <1>2, <1>3, <1>4, <1>5, <1>6

LEMMA ProbeKeepsInv ==
    ASSUME ProcessInv
    PROVE  /\ Probe => ProcessInv'
           /\ AnswerProbe => ProcessInv'
           /\ ProbeTimesOut => ProcessInv'
           /\ ProbeExits => ProcessInv'
<1> USE ProcessAssumption
    DEF ProcessInv, ProcessTypeOK, Migrated, Committed, Copied, Drained, Ready, Process, Phase,
        Exit, Stage, Active, Busy, databaseVars, backupVars, worldVars
<1>1. ASSUME Probe PROVE ProcessInv'
  BY <1>1 DEF Probe, ProbeBecomes, Reached
<1>2. ASSUME AnswerProbe PROVE ProcessInv'
  BY <1>2 DEF AnswerProbe, ProbeBecomes
<1>3. ASSUME ProbeTimesOut PROVE ProcessInv'
  BY <1>3 DEF ProbeTimesOut, ProbeBecomes
<1>4. ASSUME ProbeExits PROVE ProcessInv'
  BY <1>4 DEF ProbeExits, ProbeBecomes
<1> QED BY <1>1, <1>2, <1>3, <1>4

LEMMA StopActs ==
    ASSUME StopContainer
    PROVE  /\ wanted' = FALSE /\ elapsed' = 0 /\ stops < MaxStops /\ stops' = stops + 1
           /\ UNCHANGED <<databaseVars, backupVars, environment, faults>>
           /\ \/ phase["server"] = "off" /\ UNCHANGED runVars
              \/ /\ phase["server"] \in Notified
                 /\ signalled' = TRUE /\ UNCHANGED <<phase, exit, request, probe>>
              \/ End("server", "killed")
<1>1. CASE phase["server"] = "off"
  BY <1>1 DEF StopContainer, Notified
<1>2. CASE phase["server"] \in Notified
  BY <1>2 DEF StopContainer, Notified
<1>3. CASE phase["server"] \notin Notified /\ phase["server"] # "off"
  BY <1>3 DEF StopContainer
<1> QED BY <1>1, <1>2, <1>3

LEMMA WorldKeepsInv ==
    ASSUME ProcessInv
    PROVE  /\ StopContainer => ProcessInv'
           /\ StartContainer => ProcessInv'
           /\ Tick => ProcessInv'
           /\ \A p \in Process : Crash(p) => ProcessInv'
           /\ Change => ProcessInv'
           /\ UNCHANGED allVars => ProcessInv'
<1> USE ProcessAssumption
    DEF ProcessInv, ProcessTypeOK, Migrated, Committed, Copied, Drained, Ready, Process, Phase,
        Exit, Stage, Active, Busy, databaseVars, backupVars, worldVars
<1>1. ASSUME StopContainer PROVE ProcessInv'
  <2>1. /\ wanted' \in BOOLEAN /\ elapsed' = 0 /\ elapsed' \in 0..Grace
        /\ stops' \in 0..MaxStops
        /\ UNCHANGED <<databaseVars, backupVars, environment, faults>>
    BY <1>1, StopActs
  <2>2. CASE phase["server"] = "off" /\ UNCHANGED runVars
    BY <2>1, <2>2 DEF runVars
  <2>3. CASE End("server", "killed")
    BY <2>1, <2>3 DEF End
  <2>4. CASE /\ phase["server"] \in Notified
             /\ signalled' = TRUE /\ UNCHANGED <<phase, exit, request, probe>>
    BY <2>1, <2>4 DEF Notified
  <2> QED BY <1>1, <2>2, <2>3, <2>4, StopActs
<1>2. ASSUME StartContainer PROVE ProcessInv'
  BY <1>2 DEF StartContainer, runVars
<1>3. ASSUME Tick PROVE ProcessInv'
  BY <1>3 DEF Tick, runVars, ShutdownReturns
<1>4. ASSUME NEW p \in Process, Crash(p) PROVE ProcessInv'
  BY <1>4 DEF Crash, Fault, End
<1>5. ASSUME Change PROVE ProcessInv'
  <2>1. /\ UNCHANGED <<runVars, databaseVars, before, wanted, elapsed, stops>>
        /\ faults' \in 0..MaxFaults
    BY <1>5 DEF Change, Fault
  <2>2. environment' \in Environment
    BY <1>5 DEF Change, Environment
  <2>3. \/ UNCHANGED destination
        \/ destination.kind = "absent" /\ destination' = [kind |-> "foreign", holds |-> {}]
    BY <1>5 DEF Change, NoFile
  <2> QED BY <2>1, <2>2, <2>3 DEF runVars
<1>6. ASSUME UNCHANGED allVars PROVE ProcessInv'
  BY <1>6 DEF allVars, runVars
<1> QED BY <1>1, <1>2, <1>3, <1>4, <1>5, <1>6

LEMMA StepKeepsInv == ProcessInv /\ [Next]_allVars => ProcessInv'
<1> SUFFICES ASSUME ProcessInv, [Next]_allVars PROVE ProcessInv'
  OBVIOUS
<1>0. "server" \in Process /\ "backup" \in Process
  BY DEF Process
<1>1. CASE Starts
  BY <1>0, <1>1, OpeningKeepsInv, ServingKeepsInv DEF Starts
<1>2. CASE Stops
  BY <1>2, ServingKeepsInv DEF Stops
<1>3. CASE \E r \in Request : Serves(r)
  BY <1>3, RequestKeepsInv DEF Serves
<1>4. CASE BacksUp
  BY <1>0, <1>4, OpeningKeepsInv, BackupKeepsInv DEF BacksUp
<1>5. CASE ChecksHealth
  BY <1>5, ProbeKeepsInv DEF ChecksHealth
<1>6. CASE StopContainer \/ StartContainer \/ Tick \/ Change \/ UNCHANGED allVars
  BY <1>6, WorldKeepsInv
<1>7. CASE \E p \in Process : OpenFails(p) \/ Crash(p)
  BY <1>7, OpeningKeepsInv, WorldKeepsInv
<1> QED BY <1>1, <1>2, <1>3, <1>4, <1>5, <1>6, <1>7 DEF Next

-----------------------------------------------------------------------------
(* The theorems.                                                           *)

\* In every state a process has run of migrate what its phase says, what was
\* answered is committed, a copy under way has what it owes, and Shutdown
\* does not give up early.
THEOREM ProcessInvariant == Spec => []ProcessInv
BY InitInv, StepKeepsInv, PTL DEF Spec

\* Every variable has its type, and only a server that has listened has a
\* request or a probe.
THEOREM ProcessTypes == Spec => []ProcessTypeOK
<1>1. ProcessInv => ProcessTypeOK
  BY DEF ProcessInv
<1> QED BY <1>1, ProcessInvariant, PTL

\* However starts and the backup command were interrupted and interleaved, a
\* server that lets anybody in has the whole schema (schema.go:14-16).
THEOREM ServersAreReady == Spec => []ServingMeansReady
<1>1. ProcessInv => ServingMeansReady
  BY DEF ProcessInv, ProcessTypeOK, Migrated, Ready, ServingMeansReady, Process
<1> QED BY <1>1, ProcessInvariant, PTL

\* A backup that reports success has everything answered before it was asked
\* for (store.go:125-129).
THEOREM BackupsHaveAcknowledged == Spec => []BackupHasAcknowledged
<1>1. ProcessInv => BackupHasAcknowledged
  BY DEF ProcessInv, Copied, BackupHasAcknowledged
<1> QED BY <1>1, ProcessInvariant, PTL

-----------------------------------------------------------------------------
(* What a step may not do.                                                 *)

Unfinished(r) == request[r] \in Active /\ request'[r] \in {"severed", "failed"}

Excused == elapsed >= Grace \/ exit'["server"] = "killed"

\* Only a process that ends, and Close, leave a request unfinished.
LEMMA EndExcused ==
    ASSUME ProcessInv, NEW p \in Process, NEW how \in Exit, End(p, how), NEW r \in Request,
           Unfinished(r)
    PROVE  p = "server" /\ exit'["server"] = how /\ phase["server"] \in {"listening", "draining", "closing"}
<1> USE DEF ProcessInv, ProcessTypeOK, Process, Stage, Active, Busy, Unfinished, End
<1>1. p = "server" /\ exit'["server"] = how
  OBVIOUS
<1> QED BY <1>1

LEMMA StepExcused ==
    ASSUME ProcessInv, Next, NEW r \in Request, Unfinished(r)
    PROVE  Excused
<1> USE ProcessAssumption
    DEF ProcessInv, ProcessTypeOK, Process, Unfinished, Excused, Exit
<1>0. request'[r] # request[r] /\ ~UNCHANGED request
  BY DEF Stage, Active
<1>1. CASE Starts
  <2>1. ASSUME NEW p \in Process, Load(p) \/ Open(p)
        PROVE  Excused
    BY <1>0, <2>1, EndExcused DEF Load, Open, Enter
  <2>2. ASSUME PrepareDatabaseDirectory \/ ListenFailed
        PROVE  Excused
    BY <1>0, <2>2, EndExcused DEF PrepareDatabaseDirectory, ListenFailed, ServerEnds, Enter
  <2>3. ASSUME Launch \/ Register \/ Listen \/ Migrate("server")
        PROVE  Excused
    BY <1>0, <2>3 DEF Launch, Register, Listen, ServerMoves, Migrate, Create, NextStatement, Enter
  <2> QED BY <1>1, <2>1, <2>2, <2>3 DEF Starts
<1>2. CASE Stops
  <2>1. CASE Leave
    <3>1. Busy /\ phase["server"] = "closing"
      BY <2>1 DEF Leave, ServerEnds, Busy
    <3> QED BY <3>1 DEF Drained
  <2>2. CASE BeginShutdown \/ EndShutdown
    BY <1>0, <2>2 DEF BeginShutdown, EndShutdown, ServerMoves, Enter
  <2> QED BY <1>2, <2>1, <2>2 DEF Stops
<1>3. ASSUME NEW q \in Request, Serves(q) PROVE Excused
  <2>1. CASE BeginTransaction(q)
    <3>1. CASE phase["server"] = "closing"
      <4>1. Busy
        BY DEF Busy
      <4> QED BY <3>1, <4>1 DEF Drained
    <3>2. CASE phase["server"] # "closing"
      BY <2>1, <3>2 DEF BeginTransaction, Becomes, Active
    <3> QED BY <3>1, <3>2
  <2>2. CASE Receive(q) \/ Commit(q) \/ Answer(q)
    BY <2>2 DEF Receive, Commit, Answer, Becomes, Active
  <2> QED BY <1>3, <2>1, <2>2 DEF Serves
<1>4. CASE BacksUp
  <2>1. ASSUME Load("backup") \/ Open("backup") \/ CheckDestination \/ VacuumInto \/ EndCopy \/ CopyFails
        PROVE  Excused
    BY <1>0, <2>1, EndExcused
       DEF Load, Open, Enter, CheckDestination, VacuumInto, EndCopy, CopyFails
  <2>2. ASSUME AskBackup \/ Migrate("backup") \/ TakeFile
        PROVE  Excused
    BY <1>0, <2>2 DEF AskBackup, Migrate, Create, NextStatement, TakeFile, Enter
  <2> QED BY <1>4, <2>1, <2>2 DEF BacksUp
<1>5. CASE ChecksHealth
  BY <1>0, <1>5 DEF ChecksHealth, Probe, AnswerProbe, ProbeTimesOut, ProbeExits, ProbeBecomes
<1>6. CASE StopContainer
  BY <1>0, <1>6, StopActs, EndExcused DEF runVars
<1>7. CASE StartContainer \/ Tick \/ Change
  BY <1>0, <1>7 DEF StartContainer, Tick, Change, runVars
<1>8. ASSUME NEW p \in Process, OpenFails(p) \/ Crash(p) PROVE Excused
  BY <1>8, EndExcused DEF OpenFails, Crash
<1> QED BY <1>1, <1>2, <1>3, <1>4, <1>5, <1>6, <1>7, <1>8 DEF Next

\* A stop cuts a request off, or takes the database from it, only when the grace
\* is over or the process was killed (main.go:148-149).
THEOREM StopsFinishRequests == Spec => StopFinishesRequests
<1>1. ProcessInv /\ [Next]_allVars
        => [\A r \in Request : Unfinished(r) => Excused]_allVars
  BY StepExcused
<1> QED BY <1>1, ProcessInvariant, PTL DEF Spec, StopFinishesRequests, Unfinished, Excused

=============================================================================
