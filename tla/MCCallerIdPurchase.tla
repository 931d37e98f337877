------------------------ MODULE MCCallerIdPurchase ------------------------
(* Small instances of CallerIdPurchase, given in the configuration.        *)
EXTENDS CallerIdPurchase
=============================================================================
