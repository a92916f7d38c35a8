--------------------------- MODULE MCJobLifecycle ---------------------------
(***************************************************************************)
(* Small instances of JobLifecycle.  Two users share the process: basic    *)
(* has one slot and no jobs; pro has two slots, of which a job of the      *)
(* seed, which nothing will ever finish, holds one.                        *)
(***************************************************************************)
EXTENDS JobLifecycle, TLC

CONSTANTS basic, pro, r1, r2, r3, seededActive, seededDone, none

MCSeedJobs == {seededActive, seededDone}

SeedOwner == (seededActive :> pro) @@ (seededDone :> basic)

\* Two requests of pro compete for its last slot while basic has one too.
MCOwner == SeedOwner @@ (r1 :> basic) @@ (r2 :> pro) @@ (r3 :> pro)

\* Two requests of basic, for the runs about a single failure.
PairOwner == SeedOwner @@ (r1 :> basic) @@ (r2 :> basic)

MCPlan == (basic :> "basic") @@ (pro :> "pro")

\* 1 and 5 in the code; 2 is enough for the second plan to differ.
MCConcurrencyLimits == [basic |-> 1, pro |-> 2]

\* pro can afford one of its two jobs.
MCInitialCredits == (basic :> 2) @@ (pro :> 1)

MCSeedStatus == (seededActive :> "processing") @@ (seededDone :> "failed")

Configured == {"shared-secret"}
NotConfigured == {NotSet}
Either == Configured \cup NotConfigured
=============================================================================
