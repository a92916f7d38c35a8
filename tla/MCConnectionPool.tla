-------------------------- MODULE MCConnectionPool --------------------------
(***************************************************************************)
(* The instance of MCJobLifecycle, on a pool of two connections: the two   *)
(* requests of one user can hold both, one of them waiting for the row,    *)
(* while the other user has a request, a callback or a refund to run.      *)
(***************************************************************************)
EXTENDS ConnectionPool, MCJobLifecycle
=============================================================================
