--------------------------- MODULE MCEC2Purchase ---------------------------
(* Small instances of EC2Purchase: all recommendations ask for the same    *)
(* attributes, so that reconciliation has to tell their RIs apart.         *)
EXTENDS EC2Purchase, TLC

SameShape == [t \in AllTokens |-> "m5"]

TokenSymmetry == Permutations(Calls) \union Permutations(Tokens)
=============================================================================
