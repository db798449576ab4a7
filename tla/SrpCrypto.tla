------------------------------- MODULE SrpCrypto -------------------------------
(***************************************************************************)
(* The SRP-6a arithmetic of srp.rs over symbolic terms.                    *)
(*                                                                         *)
(* A session secret is the record of the client's ephemeral, the server's  *)
(* public value and the exponent x it was computed from.  The client's     *)
(* (B - k*g^x)^(a+u*x) equals the server's (A*v^u)^b exactly when B was    *)
(* built from the verifier g^x, so the two sides hold one term exactly     *)
(* when they agree on a, B and x.  M1 and M2 are hashes of that secret, A  *)
(* and B: each is identified by the secret it is computed from.            *)
(***************************************************************************)

(* What the SRP client is given besides the group: the identity, the       *)
(* derived password and the salt.                                          *)
ExponentWithoutEmail(email, password, salt) ==                       \* mutant
  [email |-> "none", password |-> password, salt |-> salt]
Exponent(email, password, salt) ==
  [email |-> email, password |-> password, salt |-> salt]

(* kdf.rs: Argon2id under a tag of its own; the password itself is only    *)
(* ever used through it.                                                   *)
derive_srp_passwordRaw(password, srp_salt) == password                \* mutant
derive_srp_password(password, srp_salt) == <<password, srp_salt>>

(* v = g^x, as the exponent it determines. *)
compute_verifier(email, srp_password, srp_salt) == Exponent(email, srp_password, srp_salt)

(* B = k*v + g^b, as the server side of the srp crate computes it. *)
ServerPublic(verifier, b) == [verifier |-> verifier, b |-> b]

SessionSecret(a, B, x) == [a |-> a, B |-> B, x |-> x]

(* compute_client_proof: no proof for a B that is zero (in bytes, checked  *)
(* here; modulo N, checked in the srp crate).  The proof handle keeps the  *)
(* secret to check M2 with.                                                *)
compute_client_proof(email, srp_password, srp_salt, B, a, ZeroB) ==
  IF B = ZeroB
  THEN [ok |-> FALSE, val |-> "Srp"]
  ELSE [ok |-> TRUE,
        val |-> SessionSecret(a, B, Exponent(email, srp_password, srp_salt))]

(* verify_server_proof: M2 is the one of the secret the handle holds. *)
verify_server_proofAny(m2, proof) == TRUE                             \* mutant
verify_server_proof(m2, proof) == m2 = proof
=============================================================================
