--------------------------- MODULE MCAuthSessions ---------------------------
(* The instance of AuthSessions for TLC.  Tokens and challenges are drawn  *)
(* at random, so they are interchangeable.                                 *)
EXTENDS AuthSessions, TLC

MCSymmetry == Permutations(Tokens) \cup Permutations(Requests)
=============================================================================
