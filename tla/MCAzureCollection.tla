------------------------- MODULE MCAzureCollection -------------------------
(* Small instances of AzureCollection: one caller of each kind, a          *)
(* credential that sees two subscriptions and others that see one or none, *)
(* with a credential from the start and a pinned subscription or none, and *)
(* without a credential and with AZURE_SUBSCRIPTION_ID.                    *)
EXTENDS AzureCollection, TLC

CONSTANTS c1, c2, c3, k1, k2, ambient, fake, s1, s2, s3

Calling == [c \in Callers |-> CASE c = c1 -> "recs" [] c = c2 -> "service" [] c = c3 -> "accounts"]
Sees == (k1 :> {s1, s2} @@ k2 :> {s2} @@ ambient :> {s1} @@ fake :> {})

Config(pinned, env, with) == [pinned |-> pinned, env |-> env, cred |-> with]

Configured == {Config(None, None, k1), Config(s1, None, k1)}
Lazy == {Config(None, s1, None)}
All == Configured \cup Lazy

Request(accounts, services) == [accounts |-> accounts, services |-> services]

Asked == {Request({}, {"compute"}), Request({}, {"savingsplans"}),
          Request({s1, s3}, {"compute", "database", "savingsplans"}), Request({s3}, {"compute"})}
=============================================================================
