----------------------------- MODULE MCGateway -----------------------------
(***************************************************************************)
(* One user, who sends one image three times, under one key or with one of *)
(* the three sent without a key.                                           *)
(***************************************************************************)
EXTENDS Gateway, TLC

CONSTANTS user, key, absent, row, none, r1, r2, r3

MCOwner == [r \in {r1, r2, r3} |-> user]
MCPlan == user :> "basic"
\* Credits for every request to be charged, and two slots: the third request
\* is refused, unless an earlier job has ended.
MCConcurrencyLimits == [basic |-> 2]
MCInitialCredits == user :> 3
NoSeed == [j \in {} |-> "queued"]

MCKeyChoices == {[r \in {r1, r2, r3} |-> key],
                 [r \in {r1, r2} |-> key] @@ (r3 :> absent)}
MCBody == [r \in {r1, r2, r3} |-> [imageUrl |-> "a", webhookUrl |-> "hook"]]
NoSeedBody == [k \in {} |-> [imageUrl |-> "a"]]
Configured == {"shared-secret"}

\* r1 and r2 differ in nothing.
Twins == Permutations({r1, r2})
=============================================================================
