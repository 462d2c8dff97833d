---------------------------- MODULE MCPowerLoss -----------------------------
(* A small instance of PowerLoss for TLC. *)
EXTENDS PowerLoss, TLC

CONSTANTS d1, d2, b1, b2, n1, ds1

Cursors == 0..MaxSequence
Clock == 0..MaxTime
Exact == [d \in Device |-> d]
OneDataset == [d \in Device |-> ds1]
OneName == [d \in Device |-> n1]
OneEach == [d \in Device |-> IF d = d1 THEN <<b1>> ELSE <<b2>>]
=============================================================================
