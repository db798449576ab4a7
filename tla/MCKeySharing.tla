----------------------------- MODULE MCKeySharing -----------------------------
(* KeySharing on small instances. *)
EXTENDS KeySharing, FiniteSets, TLC

CONSTANTS ann, bob, d1, d2, d3

Logins == (d1 :> ann) @@ (d2 :> ann) @@ (d3 :> bob)

(* The two devices of one account are interchangeable. *)
Interchangeable ==
  Permutations(Seeds) \cup Permutations(Draws) \cup Permutations(Keys \ {NetworkKey})
    \cup Permutations({d1, d2})

(* Bounds: a state in which more than MaxActive devices have handles, or    *)
(* more than MaxRows rows are stored, is not explored further.             *)
MaxActive == 2
MaxRows   == 3
Bounds ==
  /\ Cardinality({d \in Devices : keypair[d] # NoKeypair \/ held[d] # {}}) <= MaxActive
  /\ Cardinality(rows) <= MaxRows
=============================================================================
