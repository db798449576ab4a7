---------------------------- MODULE MCVaultHistory ----------------------------
(* VaultHistory on small instances.  No key, text or vault is treated      *)
(* differently from another one, so each set is symmetric.                 *)
EXTENDS VaultHistory, TLC, FiniteSets

CONSTANTS a1, a2, d1, d2

OneAccount  == [d \in Devices |-> a1]
TwoAccounts == (d1 :> a1) @@ (d2 :> a2)

Interchangeable ==
  Permutations(Keys) \cup Permutations(Texts) \cup Permutations(Vaults)

(* Bound of the run with a faulty server, which may serve any upload:      *)
(* states with more uploads are not explored further.                      *)
FewUploads == Cardinality(sealed) <= 2
=============================================================================
