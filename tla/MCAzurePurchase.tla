-------------------------- MODULE MCAzurePurchase --------------------------
(* Small instances of AzurePurchase, given in the configurations.          *)
EXTENDS AzurePurchase
=============================================================================
