------------------------------- MODULE Dsync -------------------------------
(***************************************************************************)
(* The client object of dsync.go: the number of lock servers taking part   *)
(* and the two quorums derived from it.  One lock server is one NetLocker  *)
(* of restClnts; servers are named by their index, because the release     *)
(* loops of drwmutex.go visit them in index order.                         *)
(***************************************************************************)
EXTENDS Integers

CONSTANT dNodeCount         \* len(restClnts)

(***************************************************************************)
(* New refuses fewer than 2 and more than 32 nodes.                        *)
(***************************************************************************)
ASSUME NewAssumption == dNodeCount \in 2..32

Node == 1..dNodeCount

(***************************************************************************)
(* int(n/2) + 1, and int(math.Ceil(float64(n) / 2.0)): for n up to 32 the  *)
(* float division is exact, so the ceiling is (n + 1) div 2.               *)
(***************************************************************************)
dquorum_Half == dNodeCount \div 2           \* mutant: + 1 left out
dquorum_All == dNodeCount                   \* mutant: every node is needed
dquorum == dNodeCount \div 2 + 1

dquorumReads_Floor == dNodeCount \div 2     \* mutant: rounded down
dquorumReads == (dNodeCount + 1) \div 2

(***************************************************************************)
(* The number of crashed servers from which the README ("Known             *)
(* deficiencies") expects two write locks at once: two if the number of    *)
(* nodes is even.  With an odd number two write quorums may share a single *)
(* node, and so do a read and a write quorum for every number of nodes.    *)
(***************************************************************************)
CrashMargin == 2 - (dNodeCount % 2)
=============================================================================
