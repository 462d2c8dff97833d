\* Two pushes around one docker stop and one fault, a backup and a probe.
SPECIFICATION FairSpec
CONSTANTS
    r1 = r1
    r2 = r2
    Request = {r1, r2}
    Statements = 3
    Host = "any"
    Grace = 1
    MaxFaults = 1
    MaxStops = 1
INVARIANTS
    ProcessTypeOK
    ServingMeansReady
    BackupHasAcknowledged
PROPERTIES
    StopFinishesRequests
    StopEnds
    StartRecovers
