--------------------------- MODULE MCConsoleStore ---------------------------
(* Instances of ConsoleStore for TLC. *)
EXTENDS ConsoleStore, TLC
=============================================================================
