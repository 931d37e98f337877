--------------------------- MODULE MCAutoExchange ---------------------------
(* Small instances of AutoExchange: a standalone and a ladder run in auto  *)
(* mode over the same RIs, or two standalone runs, manual and then manual, *)
(* a dry run or switched off.                                              *)
EXTENDS AutoExchange, TLC

CONSTANTS r1, r2, x1, x2

Run(mode, origin, dryRun) == [mode |-> mode, origin |-> origin, dryRun |-> dryRun]

Auto(origin) == Run("auto", origin, FALSE)
Manual == Run("manual", "standalone", FALSE)

Instances ==
    {r1 :> Auto("standalone") @@ r2 :> Auto("ladder")}
      \cup {r1 :> Manual @@ r2 :> second :
               second \in {Manual, Run("auto", "standalone", TRUE), Run("off", "standalone", FALSE)}}
=============================================================================
