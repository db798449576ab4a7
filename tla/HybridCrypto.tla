------------------------------ MODULE HybridCrypto ------------------------------
(***************************************************************************)
(* The operations of keypair.rs - key pairs derived from one seed, and the *)
(* hybrid X25519 + ML-KEM-768 wrap of a vault key - over symbolic terms.   *)
(*                                                                         *)
(* Public and private keys are named by what they are derived from.  A     *)
(* random draw r stands for both secrets a wrap draws: the ephemeral       *)
(* X25519 key and the ML-KEM message.                                      *)
(***************************************************************************)
EXTENDS VaultCrypto, Naturals, Sequences

CONSTANTS
  Zero,       \* the all-zero secret; also any low-order point, which leads to it
  Malformed   \* 1184 bytes that encode no ML-KEM encapsulation key

-----------------------------------------------------------------------------
(* X25519.  A point has two encodings with one meaning (bit 255 is         *)
(* ignored), so the secret does not tell them apart.                       *)
Point(private, alias)   == [of |-> private, alias |-> alias]
X25519Public(private)   == Point(private, FALSE)
diffie_hellman(private, point) == IF point = Zero THEN Zero ELSE {private, point.of}

was_contributory(shared) == shared # Zero

(* ML-KEM.  Decapsulation never fails: with the wrong key, or a ciphertext *)
(* made otherwise, it returns a secret nobody else has, here the one named *)
(* by the key and the ciphertext.  It is the sender's exactly when the     *)
(* ciphertext was made for this key.                                       *)
KemSecret(dk, ct) == [dk |-> dk, ct |-> ct]
KemCiphertext(ek, m) == [to |-> ek, m |-> m]

mlkem_encapsulate(ek, m) ==
  LET ct == KemCiphertext(ek, m)
  IN  IF ek = Malformed
      THEN Err("InvalidPublicKey")
      ELSE Ok([ct |-> ct, secret |-> KemSecret(ek, ct)])

mlkem_decapsulate(dk, ct) == KemSecret(dk, ct)

-----------------------------------------------------------------------------
(* One sealed seed is the whole identity: both other keys are derived from *)
(* it, at generation and again at every login.                             *)
derive_x25519_from_ed25519_seed(seed) == hkdf_subkey(seed, "evnx-x25519-from-ed25519-v1")
derive_mlkem_from_ed25519_seed(seed)  == hkdf_subkey(seed, "evnx/mlkem768/v1")

UserKeypair(seed, x25519_private, mlkem_decap) ==
  [seed |-> seed, x25519 |-> x25519_private, mlkem |-> mlkem_decap]

generate_keypair(seed) ==
  UserKeypair(seed, derive_x25519_from_ed25519_seed(seed),
                    derive_mlkem_from_ed25519_seed(seed))

public_keys(keypair) == [x25519 |-> X25519Public(keypair.x25519), mlkem |-> keypair.mlkem]

decrypt_private_key(enc, master_key) ==
  IF enc.intact /\ enc.under = hkdf_subkey(master_key, HKDF_INFO_PRIVATE_KEY_ENC)
  THEN Ok(UserKeypair(enc.msg, derive_x25519_from_ed25519_seed(enc.msg),
                               derive_mlkem_from_ed25519_seed(enc.msg)))
  ELSE Err("KeyUnwrap")

-----------------------------------------------------------------------------
HKDF_INFO_VAULT_KEY_WRAP == "evnx-vault-key-wrap-v2"

(* Mutants: the secrets without the transcript; no ML-KEM secret. *)
hybrid_wrap_keyNoTranscript(ss_mlkem, ss_x25519, mlkem_ct, eph_pub, recipient_pub) ==
  hkdf_subkey(<<ss_mlkem, ss_x25519>>, HKDF_INFO_VAULT_KEY_WRAP)
hybrid_wrap_keyClassical(ss_mlkem, ss_x25519, mlkem_ct, eph_pub, recipient_pub) ==
  hkdf_subkey(<<Zero, ss_x25519, mlkem_ct, eph_pub, recipient_pub>>, HKDF_INFO_VAULT_KEY_WRAP)

hybrid_wrap_key(ss_mlkem, ss_x25519, mlkem_ct, eph_pub, recipient_pub) ==
  hkdf_subkey(<<ss_mlkem, ss_x25519, mlkem_ct, eph_pub, recipient_pub>>,
              HKDF_INFO_VAULT_KEY_WRAP)

(* Both public keys or no wrap: a low-order or malformed one is refused. *)
wrap_vault_key_for_user(vault_key, recipient, r) ==
  LET shared  == diffie_hellman(r, recipient.x25519)
      kem     == mlkem_encapsulate(recipient.mlkem, r)
      eph_pub == X25519Public(r)
      key     == hybrid_wrap_key(kem.val.secret, shared, kem.val.ct, eph_pub,
                                 recipient.x25519)
  IN  IF ~ was_contributory(shared) THEN Err("InvalidPublicKey")
      ELSE IF ~ kem.ok THEN kem
      ELSE Ok([eph_pub_key         |-> eph_pub,
               mlkem_ciphertext    |-> kem.val.ct,
               encrypted_vault_key |-> SealedRow(key, vault_key)])

(* Mutant: a low-order ephemeral is not refused. *)
unwrap_vault_keyAnyPoint(wrapped, keypair) ==
  LET key    == hybrid_wrap_key(mlkem_decapsulate(keypair.mlkem, wrapped.mlkem_ciphertext),
                                diffie_hellman(keypair.x25519, wrapped.eph_pub_key),
                                wrapped.mlkem_ciphertext, wrapped.eph_pub_key,
                                public_keys(keypair).x25519)
      sealed == wrapped.encrypted_vault_key
  IN  IF sealed.intact /\ sealed.under = key THEN Ok(sealed.msg) ELSE Err("KeyUnwrap")

(* Nothing but the tag tells a wrong part: the transcript is the one       *)
(* received, the recipient's point is our own.                             *)
unwrap_vault_key(wrapped, keypair) ==
  LET shared == diffie_hellman(keypair.x25519, wrapped.eph_pub_key)
      key    == hybrid_wrap_key(mlkem_decapsulate(keypair.mlkem, wrapped.mlkem_ciphertext),
                                shared, wrapped.mlkem_ciphertext, wrapped.eph_pub_key,
                                public_keys(keypair).x25519)
      sealed == wrapped.encrypted_vault_key
  IN  IF ~ was_contributory(shared) THEN Err("InvalidPublicKey")
      ELSE IF sealed.intact /\ sealed.under = key THEN Ok(sealed.msg)
      ELSE Err("KeyUnwrap")
=============================================================================
