----------------------------- MODULE MCDRWMutex -----------------------------
(***************************************************************************)
(* Small instances of DRWMutex for TLC.  A configuration names its callers *)
(* and chooses whether each has a DRWMutex of its own (processes on        *)
(* different machines) or all share one (goroutines of one process).       *)
(***************************************************************************)
EXTENDS DRWMutex, TLC

CONSTANT Overlap    \* callers whose next attempt may overlap with the last one

OwnUid == Proc
MCReq == (Proc \X {1}) \cup (Overlap \X {2})
MCOwnerOf == [r \in MCReq |-> r[1]]

\* Every caller has its own DRWMutex and its own id.
OwnMutex == Proc
OwnMutexOf == [p \in Proc |-> p]
OwnUidOf == [p \in Proc |-> p]

\* All callers use one DRWMutex and pass the same id.
SharedMutex == {"dm"}
SharedMutexOf == [p \in Proc |-> "dm"]
SharedUid == {"uid"}
SharedUidOf == [p \in Proc |-> "uid"]

\* Writers that share mutex and uid are interchangeable.
WriterSymmetry == Permutations(Proc \ Reader)

\* Narrows a search for a counterexample: writers start when a reader is in.
ReaderFirst ==
    \A p \in Proc \ Reader : pc[p] # "idle" => \E q \in Reader : pc[q] = "held"
=============================================================================
