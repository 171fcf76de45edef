---------------------------- MODULE MCLockServer ----------------------------
(* A small instance of LockServers for TLC. *)
EXTENDS LockServers

MCUid == {"u1", "u2"}
MCResource == {"x", "y"}
=============================================================================
