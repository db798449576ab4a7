------------------------------ MODULE VaultCrypto ------------------------------
(***************************************************************************)
(* The symmetric operations of evnx-crypto (vault.rs, kdf.rs, and the      *)
(* private-key envelope of keypair.rs) as pure operators over symbolic     *)
(* terms.                                                                  *)
(*                                                                         *)
(* An AEAD ciphertext is the record of what went into it: the key it was   *)
(* sealed under, its associated data and its plaintext, with a flag        *)
(* `intact` that is FALSE for a copy whose stored bytes were altered.      *)
(* Opening compares those parts and nothing else, which is what            *)
(* AES-256-GCM and XChaCha20-Poly1305 promise.  Random keys and nonces are *)
(* taken never to collide, so nonces leave no trace in a term.             *)
(***************************************************************************)

(* Result<T, CryptoError>: `val` is the value, or the error variant's name. *)
Ok(x)  == [ok |-> TRUE,  val |-> x]
Err(e) == [ok |-> FALSE, val |-> e]

-----------------------------------------------------------------------------
(* kdf.rs: every purpose has a subkey of its own, because `info` is an     *)
(* input of the derivation.                                                *)
hkdf_subkeyWithoutInfo(ikm, info) == [ikm |-> ikm, info |-> "none"]   \* mutant
hkdf_subkey(ikm, info) == [ikm |-> ikm, info |-> info]

(* The two info strings used with a MasterKey (vault.rs:31, keypair.rs:80). *)
HKDF_INFO_VAULT_KEY_WRAP_MK == "evnx-vault-key-wrap-mk-v1"
HKDF_INFO_PRIVATE_KEY_ENC   == "evnx-private-key-enc-v1"

-----------------------------------------------------------------------------
(* vault.rs: blobs.  The associated data is an injective encoding of the   *)
(* vault id and the version, so the pair itself stands for its bytes.      *)
vault_aadWithoutVersion(vault_id, version) == <<vault_id, 1>>          \* mutant
vault_aad(vault_id, version) == <<vault_id, version>>

encrypt_vault(plaintext, vault_key, aad) ==
  [key |-> vault_key, aad |-> aad, text |-> plaintext, intact |-> TRUE]

(* One error for a wrong key, a wrong vault or version, or altered bytes.  *)
decrypt_vault(blob, vault_key, aad) ==
  IF blob.intact /\ blob.key = vault_key /\ blob.aad = aad
  THEN Ok(blob.text)
  ELSE Err("Decryption")

(* Mutants: the blob sealed with empty associated data; sealed under the   *)
(* key it was to leave; sealed from a plaintext that was not recovered.    *)
reencrypt_vaultEmptyAad(blob, old_key, new_key, aad) ==
  LET plaintext == decrypt_vault(blob, old_key, aad)
  IN  IF plaintext.ok
      THEN Ok(encrypt_vault(plaintext.val, new_key, <<>>))
      ELSE Err(plaintext.val)

reencrypt_vaultOldKey(blob, old_key, new_key, aad) ==
  LET plaintext == decrypt_vault(blob, old_key, aad)
  IN  IF plaintext.ok
      THEN Ok(encrypt_vault(plaintext.val, old_key, aad))
      ELSE Err(plaintext.val)

reencrypt_vaultUnrecovered(blob, old_key, new_key, aad) ==
  LET plaintext == decrypt_vault(blob, old_key, aad)
  IN  Ok(encrypt_vault(plaintext.val, new_key, aad))

(* The same `aad` on both sides; a failure to open returns before anything *)
(* is sealed.                                                              *)
reencrypt_vault(blob, old_key, new_key, aad) ==
  LET plaintext == decrypt_vault(blob, old_key, aad)
  IN  IF plaintext.ok
      THEN Ok(encrypt_vault(plaintext.val, new_key, aad))
      ELSE Err(plaintext.val)

-----------------------------------------------------------------------------
(* The 72-byte rows sealed under a subkey of the MasterKey: 24-byte nonce, *)
(* 32-byte payload, 16-byte tag, no associated data.  A wrapped vault key  *)
(* and an encrypted Ed25519 seed have the same shape.                      *)
SealedRow(subkey, msg) == [under |-> subkey, msg |-> msg, intact |-> TRUE]

wrap_vault_key_with_master_key(vault_key, master_key) ==
  SealedRow(hkdf_subkey(master_key, HKDF_INFO_VAULT_KEY_WRAP_MK), vault_key)

(* Rows of another length fail before or after the tag check; either way   *)
(* the caller gets no key, so they count as altered rows here.             *)
unwrap_vault_key_with_master_key(wrapped, master_key) ==
  IF /\ wrapped.intact
     /\ wrapped.under = hkdf_subkey(master_key, HKDF_INFO_VAULT_KEY_WRAP_MK)
  THEN Ok(wrapped.msg)
  ELSE Err("KeyUnwrap")

(* keypair.rs:340: the other row a MasterKey seals. *)
encrypt_private_key(seed, master_key) ==
  SealedRow(hkdf_subkey(master_key, HKDF_INFO_PRIVATE_KEY_ENC), seed)

(* What a damaged disk or transfer turns a blob or a row into. *)
Altered(sealed) == [sealed EXCEPT !.intact = FALSE]
=============================================================================
