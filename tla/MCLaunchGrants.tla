--------------------------- MODULE MCLaunchGrants ---------------------------
(* Instances of LaunchGrants for TLC. *)
EXTENDS LaunchGrants, TLC

MCSymmetry == Permutations(Users) \cup Permutations(Procs)
              \cup Permutations(Grants) \cup Permutations(Sessions)
=============================================================================
