--------------------------- MODULE MCUserAccounts ---------------------------
(* Instances of UserAccounts for TLC.  Threads, names and passwords are      *)
(* model values; each of the three sets is symmetric.                        *)
EXTENDS UserAccounts, TLC

Symmetry ==
  Permutations(Workers) \cup Permutations(Names) \cup Permutations(Passwords)
=============================================================================
