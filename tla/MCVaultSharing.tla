----------------------------- MODULE MCVaultSharing -----------------------------
(* Instances of VaultSharing for TLC. *)
EXTENDS VaultSharing, FiniteSets, TLC

CONSTANTS
  ann, bob, eve, k1, k2, k3,
  MaxUploads, MaxOpen    \* bounds: states beyond them are not expanded

MCUsers == {ann, bob, eve}
MCKeys  == {k1, k2, k3}

Bounds ==
  /\ Cardinality(uploaded) <= MaxUploads
  /\ Cardinality({u \in Users : handle[u] # NoHandle}) <= MaxOpen

Interchangeable == Permutations({bob, eve}) \cup Permutations({k2, k3})
=============================================================================
