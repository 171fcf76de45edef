---------------------------- MODULE LockService ----------------------------
(***************************************************************************)
(* What a lock server promises: for every resource a LockTable, changed by *)
(* one atomic operation at a time and answered from the table alone.  A    *)
(* restart empties all tables.                                             *)
(***************************************************************************)
EXTENDS LockTable

CONSTANT Resource

VARIABLES tables,       \* the table of each resource
          request,      \* the last operation and its arguments
          answer        \* it was granted, or removed a lock

Init ==
    /\ tables = [x \in Resource |-> NoLock]
    /\ request = <<"start">>
    /\ answer = FALSE

Acquire(x, uid, isReadLock) ==
    /\ request' = <<IF isReadLock THEN "RLock" ELSE "Lock", x, uid>>
    /\ answer' = Grants(tables[x], isReadLock)
    /\ tables' = [tables EXCEPT ![x] = AfterLock(@, uid, isReadLock)]

Release(x, uid, isReadLock) ==
    /\ request' = <<IF isReadLock THEN "RUnlock" ELSE "Unlock", x, uid>>
    /\ tables' = [tables EXCEPT ![x] = AfterUnlock(@, uid, isReadLock)]
    /\ answer' = (tables' # tables)

Restart ==
    /\ tables' = [x \in Resource |-> NoLock]
    /\ request' = <<"start">>
    /\ answer' = FALSE

Next ==
    \/ \E x \in Resource, uid \in Uid, isReadLock \in BOOLEAN :
          Acquire(x, uid, isReadLock) \/ Release(x, uid, isReadLock)
    \/ Restart

Spec == Init /\ [][Next]_<<tables, request, answer>>
=============================================================================
