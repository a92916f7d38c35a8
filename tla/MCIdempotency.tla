--------------------------- MODULE MCIdempotency ---------------------------
(***************************************************************************)
(* Small instances of Idempotency.                                         *)
(***************************************************************************)
EXTENDS Idempotency, TLC

CONSTANTS key, long, seeded, stale, absent, r1, r2, r3, r4, r5, r6, none, row

Image(url, style) ==
    [imageUrl |-> url, webhookUrl |-> "hook", options |-> [style |-> style]]

\* The body of the seeder: no webhook.
Raw == [imageUrl |-> "a"]
MCSeedBody == [k \in {seeded, stale} |-> Raw]

\* Under one key: two requests may create a job, and two may replay one.  r5
\* asks for another image, r6 for what the seeder did, under that key, without
\* a key, or under one that no row can hold or that the seeder has used.
MCKeyChoices ==
    {[r \in {r1, r2, r3, r4} |-> key] @@ (r5 :> ks[1]) @@ (r6 :> ks[2]) :
        ks \in {<<key, seeded>>, <<long, key>>, <<absent, seeded>>, <<stale, key>>,
                <<seeded, seeded>>}}
MCBody == [r \in {r1, r2, r3, r4} |-> Image("a", "x")] @@ (r5 :> Image("b", "x")) @@ (r6 :> Raw)

\* r1 to r4 differ in nothing.
Twins == Permutations({r1, r2, r3, r4})

\* Two requests under one key, with the same body or with another option.
PairKeys == {[r \in {r1, r2} |-> key]}
SameBody == [r \in {r1, r2} |-> Image("a", "x")]
OtherOption == (r1 :> Image("a", "x")) @@ (r2 :> Image("a", "y"))
=============================================================================
