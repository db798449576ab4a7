------------------------------ MODULE MCSrpLogin ------------------------------
(* SrpLogin on small instances. *)
EXTENDS SrpLogin, TLC

CONSTANTS ann, Ann, bob

(* Ann is ann, spelt differently; bob is another account. *)
Lowercase == (ann :> ann) @@ (Ann :> ann) @@ (bob :> bob)

Interchangeable ==
  Permutations(Passwords) \cup Permutations(Salts) \cup Permutations(Ephemerals)
    \cup Permutations(Sessions) \cup Permutations(Logins)
=============================================================================
