\* The server listens on one address that is not the loopback one.
SPECIFICATION Spec
CONSTANTS
    r1 = r1
    r2 = r2
    Request = {r1}
    Statements = 3
    Host = "other"
    Grace = 1
    MaxFaults = 0
    MaxStops = 0
PROPERTIES
    ProbeReachesServer
