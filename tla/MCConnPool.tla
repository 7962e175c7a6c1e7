----------------------------- MODULE MCConnPool -----------------------------
(* The instance of ConnPool for TLC. *)
EXTENDS ConnPool, TLC
=============================================================================
