------------------------------ MODULE MCChaos ------------------------------
(***************************************************************************)
(* The instance of Chaos that the test program is: four servers, a         *)
(* DRWMutex for each client, and the ids that the tests pass.              *)
(***************************************************************************)
EXTENDS Chaos, MCDRWMutex

ChaosUid == {"test", "test-stale"}
ChaosUidOf == [p \in Proc |-> IF p \in {"dm", "dm2"} THEN "test" ELSE "test-stale"]
=============================================================================
