----------------------------- MODULE AzureScope -----------------------------
(* What AzureAccounts resolves and AzureSweep asks.                        *)

CONSTANT Subscriptions
=============================================================================
