--------------------------- MODULE KeySharing_proofs ---------------------------
(***************************************************************************)
(* Proofs about KeySharing, for any sets of accounts, devices, seeds, keys *)
(* and draws.  The argument is one lemma, OpensOnlyWhole: the wrap key     *)
(* determines every input of its derivation, so a tag that verifies says   *)
(* that all parts belong together.                                         *)
(***************************************************************************)
EXTENDS KeySharing, TLAPS

SharingInv ==
  /\ TypeOK
  /\ RowsAreSealed
  /\ KeypairsAreOwn
  /\ PublishedAreSealed
  /\ WrapsUsePublished

(* Derivation from a seed is injective: a public key names its seed. *)
LEMMA KeypairFacts ==
  ASSUME NEW kp \in Keypairs
  PROVE  /\ kp.seed \in Seeds /\ kp = generate_keypair(kp.seed) /\ kp # NoKeypair
         /\ public_keys(kp) \in Publics
         /\ public_keys(kp).x25519 = X25519Public(kp.x25519)
         /\ public_keys(kp).mlkem = kp.mlkem
BY ConstantsAssumption DEF Keypairs, Publics, generate_keypair, UserKeypair, public_keys

LEMMA SeedFacts ==
  ASSUME NEW s \in Seeds
  PROVE  /\ generate_keypair(s) \in Keypairs
         /\ generate_keypair(s).seed = s
         /\ public_keys(generate_keypair(s)) \in Publics
         /\ \A kp \in Keypairs :
              kp.mlkem = generate_keypair(s).mlkem => kp = generate_keypair(s)
BY DEF Keypairs, Publics, generate_keypair, UserKeypair, derive_mlkem_from_ed25519_seed,
   derive_x25519_from_ed25519_seed, hkdf_subkey

LEMMA PublicFacts ==
  ASSUME NEW pk \in Publics
  PROVE  /\ \E kp \in Keypairs : pk = public_keys(kp)
         /\ pk = [x25519 |-> pk.x25519, mlkem |-> pk.mlkem]
         /\ pk.x25519 = X25519Public(pk.x25519.of)
<1>1. PICK kp \in Keypairs : pk = public_keys(kp)
  BY DEF Publics
<1>2. pk.x25519 = X25519Public(kp.x25519) /\ pk.mlkem = kp.mlkem
  BY <1>1 DEF public_keys
<1>3. X25519Public(kp.x25519).of = kp.x25519
  BY DEF X25519Public, Point
<1> QED BY <1>1, <1>2, <1>3 DEF public_keys

LEMMA PairingFacts ==
  ASSUME NEW pks \in SUBSET Publics, NEW to \in Pairings(pks)
  PROVE  /\ to = [x25519 |-> to.x25519, mlkem |-> to.mlkem]
         /\ \E pk \in pks : to.mlkem = pk.mlkem
         /\ \E pk \in pks : to.x25519.of = pk.x25519.of
         /\ to.x25519 \in BothEncodings({pk.x25519 : pk \in pks})
BY DEF Pairings, BothEncodings, Point

(* A successful call, and what it returned. *)
LEMMA WrapFacts ==
  ASSUME NEW k \in Keys, NEW to \in Pairings(Publics), NEW r \in Draws
  PROVE  LET ct  == KemCiphertext(to.mlkem, r)
             key == hybrid_wrap_key(KemSecret(to.mlkem, ct), {r, to.x25519.of}, ct,
                                    X25519Public(r), to.x25519)
         IN  /\ wrap_vault_key_for_user(k, to, r) =
                  Ok([eph_pub_key         |-> X25519Public(r),
                      mlkem_ciphertext    |-> ct,
                      encrypted_vault_key |-> SealedRow(key, k)])
             /\ KemSecret(to.mlkem, ct) # Zero
             /\ {r, to.x25519.of} # Zero
<1>1. PICK pm \in Publics : to.mlkem = pm.mlkem
  BY PairingFacts
<1>2. to.mlkem # Malformed /\ KemSecret(to.mlkem, KemCiphertext(to.mlkem, r)) # Zero
  BY <1>1, ConstantsAssumption
<1>3. PICK px \in Publics : to.x25519.of = px.x25519.of
  BY PairingFacts
<1>4. to.x25519 # Zero
  <2>1. to.x25519 \in BothEncodings({pk.x25519 : pk \in Publics})
    BY PairingFacts
  <2> QED BY <2>1, ConstantsAssumption DEF BothEncodings
<1>6. px.x25519 # Zero
  BY ConstantsAssumption DEF BothEncodings
<1>5. diffie_hellman(r, to.x25519) = {r, to.x25519.of} /\ {r, to.x25519.of} # Zero
  BY <1>3, <1>4, <1>6, ConstantsAssumption DEF diffie_hellman
<1> QED BY <1>2, <1>5 DEF wrap_vault_key_for_user, mlkem_encapsulate, was_contributory, Ok

LEMMA WrappedFacts ==
  ASSUME NEW w \in Wrap
  PROVE  LET ct == KemCiphertext(w.to.mlkem, w.draw)
         IN  /\ w.key \in Keys /\ w.draw \in Draws /\ w.to \in Pairings(Publics)
             /\ WrappedVaultKey(w).eph_pub_key = X25519Public(w.draw)
             /\ WrappedVaultKey(w).mlkem_ciphertext = ct
             /\ WrappedVaultKey(w).encrypted_vault_key =
                  SealedRow(hybrid_wrap_key(KemSecret(w.to.mlkem, ct),
                                            {w.draw, w.to.x25519.of}, ct,
                                            X25519Public(w.draw), w.to.x25519), w.key)
             /\ WrappedVaultKey(w) =
                  [eph_pub_key |-> X25519Public(w.draw), mlkem_ciphertext |-> ct,
                   encrypted_vault_key |-> WrappedVaultKey(w).encrypted_vault_key]
             /\ KemSecret(w.to.mlkem, ct) # Zero
             /\ {w.draw, w.to.x25519.of} # Zero
<1>1. w.key \in Keys /\ w.draw \in Draws /\ w.to \in Pairings(Publics)
  BY DEF Wrap
<1> QED BY <1>1, WrapFacts DEF WrappedVaultKey, Ok
-----------------------------------------------------------------------------
(* A row that verifies was sealed and not altered since. *)
LEMMA IntactIsSealed ==
  ASSUME NEW S, NEW s \in OrDamaged(S), s.intact,
         \A t \in S : t = SealedRow(t.under, t.msg)
  PROVE  s \in S
<1>1. ASSUME NEW t \in S, s = Altered(t)
      PROVE  FALSE
  <2>1. t = [under |-> t.under, msg |-> t.msg, intact |-> TRUE]
    BY DEF SealedRow
  <2>2. PICK u, m : t = [under |-> u, msg |-> m, intact |-> TRUE]
    BY <2>1
  <2>3. t \in [under : {u}, msg : {m}, intact : BOOLEAN]
    BY <2>2
  <2>4. Altered(t).intact = FALSE
    BY <2>3 DEF Altered
  <2> QED BY <1>1, <2>4
<1> QED BY <1>1 DEF OrDamaged

LEMMA RowFacts ==
  ASSUME RowsAreSealed, NEW row \in rows
  PROVE  /\ row = SealedRow(row.under, row.msg)
         /\ row.under.info # HKDF_INFO_VAULT_KEY_WRAP
         /\ row.under.info = HKDF_INFO_PRIVATE_KEY_ENC =>
              \E s \in Seeds : /\ seedBy[s] \in Accounts
                               /\ row = encrypt_private_key(s, seedBy[s])
         /\ row.under.info = HKDF_INFO_VAULT_KEY_WRAP_MK =>
              \E k \in Keys, a \in Accounts : row = wrap_vault_key_with_master_key(k, a)
BY DEF RowsAreSealed, encrypt_private_key, wrap_vault_key_with_master_key, SealedRow,
   hkdf_subkey, HKDF_INFO_VAULT_KEY_WRAP, HKDF_INFO_VAULT_KEY_WRAP_MK,
   HKDF_INFO_PRIVATE_KEY_ENC

LEMMA SealedFacts ==
  ASSUME wraps \subseteq Wrap, NEW s \in Sealed
  PROVE  /\ s = SealedRow(s.under, s.msg)
         /\ s.under.info = HKDF_INFO_VAULT_KEY_WRAP
         /\ s.under.ikm[1] # Zero /\ s.under.ikm[2] # Zero
<1>1. PICK w \in wraps : s = WrappedVaultKey(w).encrypted_vault_key
  BY DEF Sealed
<1>2. w \in Wrap
  OBVIOUS
<1>3. PICK ct : ct = KemCiphertext(w.to.mlkem, w.draw)
  OBVIOUS
<1>4. PICK key : key = hybrid_wrap_key(KemSecret(w.to.mlkem, ct), {w.draw, w.to.x25519.of}, ct,
                                       X25519Public(w.draw), w.to.x25519)
  OBVIOUS
<1>5. /\ s = SealedRow(key, w.key)
      /\ KemSecret(w.to.mlkem, ct) # Zero /\ {w.draw, w.to.x25519.of} # Zero
  BY <1>1, <1>2, <1>3, <1>4, WrappedFacts
<1>6. /\ key.info = HKDF_INFO_VAULT_KEY_WRAP
      /\ key.ikm[1] = KemSecret(w.to.mlkem, ct) /\ key.ikm[2] = {w.draw, w.to.x25519.of}
  BY <1>4 DEF hybrid_wrap_key, hkdf_subkey
<1> QED BY <1>5, <1>6 DEF SealedRow

(* decrypt_private_key opens sealed seeds of the account and nothing else. *)
LEMMA OpensOwnSeed ==
  ASSUME TypeOK, RowsAreSealed, NEW row \in ServedRows, NEW a \in Accounts,
         decrypt_private_key(row, a).ok
  PROVE  \E s \in Seeds : /\ seedBy[s] = a
                          /\ decrypt_private_key(row, a) = Ok(generate_keypair(s))
<1>1. row.intact /\ row.under = hkdf_subkey(a, HKDF_INFO_PRIVATE_KEY_ENC)
  BY DEF decrypt_private_key, Err
<1>2. wraps \subseteq Wrap
  BY DEF TypeOK
<1>3. row \in rows \cup Sealed
  <2>1. \A t \in rows \cup Sealed : t = SealedRow(t.under, t.msg)
    BY <1>2, RowFacts, SealedFacts
  <2>2. row \in OrDamaged(rows \cup Sealed)
    BY DEF ServedRows
  <2> QED BY <1>1, <2>1, <2>2, IntactIsSealed
<1>4. row.under.info = HKDF_INFO_PRIVATE_KEY_ENC
  BY <1>1 DEF hkdf_subkey
<1>5. row \in rows
  BY <1>2, <1>3, <1>4, SealedFacts DEF HKDF_INFO_VAULT_KEY_WRAP, HKDF_INFO_PRIVATE_KEY_ENC
<1>6. PICK s \in Seeds : row = encrypt_private_key(s, seedBy[s])
  BY <1>4, <1>5, RowFacts
<1>7. row.msg = s /\ seedBy[s] = a
  BY <1>1, <1>6 DEF encrypt_private_key, SealedRow, hkdf_subkey
<1> QED BY <1>1, <1>7 DEF decrypt_private_key, generate_keypair

(* unwrap_vault_key_with_master_key opens keys the account kept and        *)
(* nothing else.                                                           *)
LEMMA OpensOwnKey ==
  ASSUME TypeOK, RowsAreSealed, NEW row \in ServedRows, NEW a \in Accounts,
         unwrap_vault_key_with_master_key(row, a).ok
  PROVE  \E k \in Keys : /\ wrap_vault_key_with_master_key(k, a) \in rows
                         /\ unwrap_vault_key_with_master_key(row, a) = Ok(k)
<1>1. row.intact /\ row.under = hkdf_subkey(a, HKDF_INFO_VAULT_KEY_WRAP_MK)
  BY DEF unwrap_vault_key_with_master_key, Err
<1>2. wraps \subseteq Wrap
  BY DEF TypeOK
<1>3. row \in rows \cup Sealed
  <2>1. \A t \in rows \cup Sealed : t = SealedRow(t.under, t.msg)
    BY <1>2, RowFacts, SealedFacts
  <2>2. row \in OrDamaged(rows \cup Sealed)
    BY DEF ServedRows
  <2> QED BY <1>1, <2>1, <2>2, IntactIsSealed
<1>4. row.under.info = HKDF_INFO_VAULT_KEY_WRAP_MK
  BY <1>1 DEF hkdf_subkey
<1>5. row \in rows
  BY <1>2, <1>3, <1>4, SealedFacts DEF HKDF_INFO_VAULT_KEY_WRAP, HKDF_INFO_VAULT_KEY_WRAP_MK
<1>6. PICK k \in Keys, b \in Accounts : row = wrap_vault_key_with_master_key(k, b)
  BY <1>4, <1>5, RowFacts
<1>7. row.msg = k /\ b = a
  BY <1>1, <1>6 DEF wrap_vault_key_with_master_key, SealedRow, hkdf_subkey
<1> QED BY <1>1, <1>5, <1>6, <1>7 DEF unwrap_vault_key_with_master_key

(* The wrap key names both secrets and the transcript. *)
LEMMA WrapKeyInjective ==
  ASSUME NEW a1, NEW b1, NEW c1, NEW d1, NEW e1, NEW a2, NEW b2, NEW c2, NEW d2, NEW e2,
         hybrid_wrap_key(a1, b1, c1, d1, e1) = hybrid_wrap_key(a2, b2, c2, d2, e2)
  PROVE  a1 = a2 /\ b1 = b2 /\ c1 = c2 /\ d1 = d2 /\ e1 = e2
<1>1. <<a1, b1, c1, d1, e1>> = <<a2, b2, c2, d2, e2>>
  BY DEF hybrid_wrap_key, hkdf_subkey
<1> QED BY <1>1

(* Fields that unwrap are those of one wrap, made for both keys of the     *)
(* key pair that opens it.                                                 *)
LEMMA OpensOnlyWhole ==
  ASSUME TypeOK, RowsAreSealed, NEW fields \in ServedFields, NEW kp \in Keypairs,
         unwrap_vault_key(fields, kp).ok
  PROVE  \E w \in wraps : /\ fields = WrappedVaultKey(w)
                          /\ unwrap_vault_key(fields, kp) = Ok(w.key)
                          /\ w.to = public_keys(kp)
<1>1. PICK shared : shared = diffie_hellman(kp.x25519, fields.eph_pub_key)
  OBVIOUS
<1>2. PICK sealed : sealed = fields.encrypted_vault_key
  OBVIOUS
<1>3. PICK key : key = hybrid_wrap_key(KemSecret(kp.mlkem, fields.mlkem_ciphertext), shared,
                                       fields.mlkem_ciphertext, fields.eph_pub_key,
                                       public_keys(kp).x25519)
  OBVIOUS
<1>4. shared # Zero /\ sealed.intact /\ sealed.under = key
      /\ unwrap_vault_key(fields, kp) = Ok(sealed.msg)
  BY <1>1, <1>2, <1>3 DEF unwrap_vault_key, was_contributory, mlkem_decapsulate, Err
<1>5. key.info = HKDF_INFO_VAULT_KEY_WRAP /\ key.ikm[2] = shared
  BY <1>3 DEF hybrid_wrap_key, hkdf_subkey
<1>6. wraps \subseteq Wrap
  BY DEF TypeOK
<1>7. PICK S : S = Sealed \cup rows \cup {NetworkSeal(pk) : pk \in published}
  OBVIOUS
<1>8. sealed \in S
  <2>1. sealed \in OrDamaged(S)
    BY <1>2, <1>7 DEF ServedFields
  <2>2. \A t \in S : t = SealedRow(t.under, t.msg)
    BY <1>6, <1>7, RowFacts, SealedFacts DEF NetworkSeal, SealedRow
  <2> QED BY <1>4, <2>1, <2>2, IntactIsSealed
<1>9. sealed \notin rows
  BY <1>4, <1>5, RowFacts
<1>10. ASSUME NEW pk \in published
       PROVE  sealed # NetworkSeal(pk)
  <2>1. NetworkSeal(pk).under.ikm[2] = Zero
    BY DEF NetworkSeal, SealedRow, hybrid_wrap_key, hkdf_subkey
  <2> QED BY <1>4, <1>5, <2>1
<1>11. PICK w \in wraps : sealed = WrappedVaultKey(w).encrypted_vault_key
  BY <1>7, <1>8, <1>9, <1>10 DEF Sealed
<1>12. w \in Wrap
  BY <1>6
<1>13. PICK ct : ct = KemCiphertext(w.to.mlkem, w.draw)
  OBVIOUS
<1>14. /\ sealed.msg = w.key
       /\ key = hybrid_wrap_key(KemSecret(w.to.mlkem, ct), {w.draw, w.to.x25519.of}, ct,
                                X25519Public(w.draw), w.to.x25519)
  <2>1. sealed = SealedRow(hybrid_wrap_key(KemSecret(w.to.mlkem, ct),
                                           {w.draw, w.to.x25519.of}, ct,
                                           X25519Public(w.draw), w.to.x25519), w.key)
    BY <1>11, <1>12, <1>13, WrappedFacts
  <2> QED BY <1>4, <2>1 DEF SealedRow
<1>15. /\ KemSecret(w.to.mlkem, ct) = KemSecret(kp.mlkem, fields.mlkem_ciphertext)
       /\ fields.mlkem_ciphertext = ct
       /\ fields.eph_pub_key = X25519Public(w.draw)
       /\ w.to.x25519 = public_keys(kp).x25519
  <2>1. hybrid_wrap_key(KemSecret(w.to.mlkem, ct), {w.draw, w.to.x25519.of}, ct,
                        X25519Public(w.draw), w.to.x25519)
          = hybrid_wrap_key(KemSecret(kp.mlkem, fields.mlkem_ciphertext), shared,
                            fields.mlkem_ciphertext, fields.eph_pub_key,
                            public_keys(kp).x25519)
    BY <1>3, <1>14
  <2> QED BY ONLY <2>1, WrapKeyInjective
<1>16. w.to.mlkem = kp.mlkem
  BY <1>15 DEF KemSecret
<1>17. w.to = public_keys(kp)
  <2>1. w.to \in Pairings(Publics)
    BY <1>12, WrappedFacts
  <2>2. w.to = [x25519 |-> w.to.x25519, mlkem |-> w.to.mlkem]
    BY <2>1, PairingFacts
  <2> QED BY <1>15, <1>16, <2>2 DEF public_keys
<1>18. fields = WrappedVaultKey(w)
  <2>1. fields = [eph_pub_key |-> fields.eph_pub_key,
                  mlkem_ciphertext |-> fields.mlkem_ciphertext,
                  encrypted_vault_key |-> fields.encrypted_vault_key]
    BY DEF ServedFields
  <2> QED BY <1>2, <1>11, <1>12, <1>13, <1>15, <2>1, WrappedFacts
<1> QED BY <1>4, <1>14, <1>17, <1>18

-----------------------------------------------------------------------------
(* What the steps that call a partial operation come to. *)
LEMMA ShareFacts ==
  ASSUME TypeOK, NEW d \in Devices, NEW k \in Keys, NEW r \in Draws, Share(d, k, r)
  PROVE  \E w \in Wrap : /\ w.key = k /\ w.to \in Pairings(published)
                         /\ wraps' = wraps \cup {w}
<1>1. PICK pk \in ServedKeys : /\ wrap_vault_key_for_user(k, pk, r).ok
                               /\ wraps' = wraps \cup {[key |-> k, to |-> pk, draw |-> r]}
  BY DEF Share
<1>2. pk.x25519 # Zero /\ pk.mlkem # Malformed
  BY <1>1 DEF wrap_vault_key_for_user, diffie_hellman, was_contributory, mlkem_encapsulate,
     Err, Ok
<1>3. pk \in Pairings(published)
  BY <1>2 DEF ServedKeys, Pairings
<1>4. Pairings(published) \subseteq Pairings(Publics)
  BY DEF TypeOK, Pairings, BothEncodings
<1>5. [key |-> k, to |-> pk, draw |-> r] \in Wrap
  BY <1>3, <1>4 DEF Wrap
<1> QED BY <1>1, <1>3, <1>5

LEMMA OpenSeedFacts ==
  ASSUME TypeOK, RowsAreSealed, NEW d \in Devices, OpenSeed(d)
  PROVE  \E s \in Seeds : /\ seedBy[s] = AccountOf[d]
                          /\ keypair' = [keypair EXCEPT ![d] = generate_keypair(s)]
<1>1. PICK row \in ServedRows :
        /\ decrypt_private_key(row, AccountOf[d]).ok
        /\ keypair' = [keypair EXCEPT ![d] = decrypt_private_key(row, AccountOf[d]).val]
  BY DEF OpenSeed
<1>2. AccountOf[d] \in Accounts
  BY ConstantsAssumption
<1>3. PICK s \in Seeds : /\ seedBy[s] = AccountOf[d]
                         /\ decrypt_private_key(row, AccountOf[d]) = Ok(generate_keypair(s))
  BY <1>1, <1>2, OpensOwnSeed
<1>4. decrypt_private_key(row, AccountOf[d]).val = generate_keypair(s)
  BY <1>3 DEF Ok
<1> QED BY <1>1, <1>3, <1>4

LEMMA OpenSharedFacts ==
  ASSUME TypeOK, RowsAreSealed, NEW d \in Devices, OpenShared(d)
  PROVE  /\ keypair[d] \in Keypairs
         /\ \E w \in wraps :
              /\ w \in Wrap /\ w.to = public_keys(keypair[d])
              /\ held' = [held EXCEPT ![d] = @ \cup {w.key}]
              /\ opened' = [by |-> keypair[d].seed, fields |-> WrappedVaultKey(w),
                            key |-> w.key]
<1>1. keypair[d] \in Keypairs
  BY DEF OpenShared, TypeOK
<1>2. PICK fields \in ServedFields :
        /\ unwrap_vault_key(fields, keypair[d]).ok
        /\ held' = [held EXCEPT ![d] = @ \cup {unwrap_vault_key(fields, keypair[d]).val}]
        /\ opened' = [by |-> keypair[d].seed, fields |-> fields,
                      key |-> unwrap_vault_key(fields, keypair[d]).val]
  BY DEF OpenShared
<1>3. PICK w \in wraps : /\ fields = WrappedVaultKey(w)
                         /\ unwrap_vault_key(fields, keypair[d]) = Ok(w.key)
                         /\ w.to = public_keys(keypair[d])
  BY <1>1, <1>2, OpensOnlyWhole
<1>4. w \in Wrap /\ unwrap_vault_key(fields, keypair[d]).val = w.key
  BY <1>3 DEF TypeOK, Ok
<1> QED BY <1>1, <1>2, <1>3, <1>4

LEMMA OpenKeptFacts ==
  ASSUME TypeOK, RowsAreSealed, NEW d \in Devices, OpenKept(d)
  PROVE  \E k \in Keys : /\ wrap_vault_key_with_master_key(k, AccountOf[d]) \in rows
                         /\ held' = [held EXCEPT ![d] = @ \cup {k}]
<1>1. PICK row \in ServedRows :
        LET key == unwrap_vault_key_with_master_key(row, AccountOf[d])
        IN  key.ok /\ held' = [held EXCEPT ![d] = @ \cup {key.val}]
  BY DEF OpenKept
<1>2. AccountOf[d] \in Accounts
  BY ConstantsAssumption
<1>3. PICK k \in Keys : /\ wrap_vault_key_with_master_key(k, AccountOf[d]) \in rows
                       /\ unwrap_vault_key_with_master_key(row, AccountOf[d]) = Ok(k)
  BY <1>1, <1>2, OpensOwnKey
<1>4. unwrap_vault_key_with_master_key(row, AccountOf[d]).val = k
  BY <1>3 DEF Ok
<1> QED BY <1>1, <1>3, <1>4

LEMMA SharingStepTypes ==
  ASSUME TypeOK, RowsAreSealed, [Next]_vars
  PROVE  TypeOK'
<1>1. ASSUME NEW d \in Devices, NEW s \in Seeds, GenerateKeypair(d, s)
      PROVE  TypeOK'
  <2>1. AccountOf[d] \in Accounts /\ generate_keypair(s) \in Keypairs
    BY ConstantsAssumption, SeedFacts
  <2> QED BY <1>1, <2>1 DEF GenerateKeypair, TypeOK
<1>2. ASSUME NEW d \in Devices, Publish(d)
      PROVE  TypeOK'
  <2>1. keypair[d] \in Keypairs
    BY <1>2 DEF Publish, TypeOK
  <2>2. AccountOf[d] \in Accounts /\ keypair[d].seed \in Seeds
        /\ public_keys(keypair[d]) \in Publics
    BY <2>1, ConstantsAssumption, KeypairFacts
  <2>3. encrypt_private_key(keypair[d].seed, AccountOf[d]) \in MasterRows
    BY <2>2 DEF encrypt_private_key, SealedRow, hkdf_subkey, MasterRows
  <2> QED BY <1>2, <2>2, <2>3 DEF Publish, TypeOK
<1>3. ASSUME NEW d \in Devices, OpenSeed(d)
      PROVE  TypeOK'
  <2>1. PICK s \in Seeds : keypair' = [keypair EXCEPT ![d] = generate_keypair(s)]
    BY <1>3, OpenSeedFacts
  <2> QED BY <1>3, <2>1, SeedFacts DEF OpenSeed, TypeOK
<1>4. ASSUME NEW d \in Devices, NEW k \in Keys, CreateKey(d, k)
      PROVE  TypeOK'
  <2>1. AccountOf[d] \in Accounts
    BY ConstantsAssumption
  <2> QED BY <1>4, <2>1 DEF CreateKey, TypeOK
<1>9. ASSUME NEW d \in Devices, NEW k \in Keys, KeepKey(d, k)
      PROVE  TypeOK'
  <2>1. AccountOf[d] \in Accounts
    BY ConstantsAssumption
  <2>2. wrap_vault_key_with_master_key(k, AccountOf[d]) \in MasterRows
    BY <2>1 DEF wrap_vault_key_with_master_key, SealedRow, hkdf_subkey, MasterRows
  <2> QED BY <1>9, <2>2 DEF KeepKey, TypeOK
<1>10. ASSUME NEW d \in Devices, OpenKept(d)
       PROVE  TypeOK'
  <2>1. PICK k \in Keys : held' = [held EXCEPT ![d] = @ \cup {k}]
    BY <1>10, OpenKeptFacts
  <2> QED BY <1>10, <2>1 DEF OpenKept, TypeOK
<1>5. ASSUME NEW d \in Devices, NEW k \in Keys, NEW r \in Draws, Share(d, k, r)
      PROVE  TypeOK'
  <2>1. PICK w \in Wrap : wraps' = wraps \cup {w}
    BY <1>5, ShareFacts
  <2> QED BY <1>5, <2>1 DEF Share, TypeOK
<1>6. ASSUME NEW d \in Devices, OpenShared(d)
      PROVE  TypeOK'
  <2>1. keypair[d].seed \in Seeds
    BY <1>6, OpenSharedFacts, KeypairFacts
  <2>2. PICK w \in Wrap :
          /\ held' = [held EXCEPT ![d] = @ \cup {w.key}]
          /\ opened' = [by |-> keypair[d].seed, fields |-> WrappedVaultKey(w), key |-> w.key]
    BY <1>6, OpenSharedFacts
  <2>3. w.key \in Keys
    BY WrappedFacts
  <2> QED BY <1>6, <2>1, <2>2, <2>3 DEF OpenShared, TypeOK
<1>7. ASSUME NEW d \in Devices,
             DestroyKeypair(d) \/ (\E k \in Keys : DestroyKey(d, k)) \/ Exit(d)
      PROVE  TypeOK'
  BY <1>7 DEF DestroyKeypair, DestroyKey, Exit, TypeOK
<1>8. CASE UNCHANGED vars
  BY <1>8 DEF vars, TypeOK
<1> QED BY <1>1, <1>2, <1>3, <1>4, <1>5, <1>6, <1>7, <1>8, <1>9, <1>10 DEF Next

(* What no step changes. *)
LEMMA SharingStepsKeep ==
  ASSUME TypeOK, [Next]_vars
  PROVE  /\ rows \subseteq rows' /\ wraps \subseteq wraps' /\ published \subseteq published'
         /\ \A s \in Seeds : seedBy[s] \in Accounts => seedBy'[s] = seedBy[s]
<1>1. \A s \in Seeds : seedBy[s] \in Accounts => seedBy'[s] = seedBy[s]
  BY ConstantsAssumption DEF TypeOK, Next, vars, GenerateKeypair, Publish, OpenSeed, CreateKey,
     KeepKey, OpenKept, Share, OpenShared, DestroyKeypair, DestroyKey, Exit
<1>2. rows \subseteq rows' /\ wraps \subseteq wraps' /\ published \subseteq published'
  BY DEF Next, vars, GenerateKeypair, Publish, OpenSeed, CreateKey,
     KeepKey, OpenKept, Share, OpenShared, DestroyKeypair, DestroyKey, Exit
<1> QED BY <1>1, <1>2

LEMMA RowsStaySealed ==
  ASSUME SharingInv, [Next]_vars
  PROVE  RowsAreSealed'
<1>1. TypeOK /\ RowsAreSealed /\ KeypairsAreOwn
  BY DEF SharingInv
<1>2. \A s \in Seeds : seedBy[s] \in Accounts => seedBy'[s] = seedBy[s]
  BY <1>1, SharingStepsKeep
<1>3. ASSUME NEW row \in rows
      PROVE  \/ \E s \in Seeds : /\ seedBy'[s] \in Accounts
                                 /\ row = encrypt_private_key(s, seedBy'[s])
             \/ \E k \in Keys, a \in Accounts : row = wrap_vault_key_with_master_key(k, a)
  BY <1>1, <1>2 DEF RowsAreSealed
<1>4. ASSUME NEW d \in Devices, Publish(d)
      PROVE  RowsAreSealed'
  <2>1. PICK s \in Seeds : s = keypair[d].seed /\ seedBy[s] = AccountOf[d]
    BY <1>1, <1>4, KeypairFacts DEF Publish, TypeOK, KeypairsAreOwn
  <2>2. AccountOf[d] \in Accounts
    BY ConstantsAssumption
  <2>3. rows' = rows \cup {encrypt_private_key(s, seedBy'[s])} /\ seedBy'[s] \in Accounts
    BY <1>2, <1>4, <2>1, <2>2 DEF Publish
  <2> QED BY <1>3, <2>3 DEF RowsAreSealed
<1>5. ASSUME NEW d \in Devices, NEW k \in Keys, KeepKey(d, k)
      PROVE  RowsAreSealed'
  <2>1. AccountOf[d] \in Accounts
    BY ConstantsAssumption
  <2>2. rows' = rows \cup {wrap_vault_key_with_master_key(k, AccountOf[d])}
    BY <1>5 DEF KeepKey
  <2> QED BY <1>3, <2>1, <2>2 DEF RowsAreSealed
<1>6. CASE rows' = rows
  BY <1>3, <1>6 DEF RowsAreSealed
<1> QED
  BY <1>4, <1>5, <1>6 DEF Next, vars, GenerateKeypair, OpenSeed, CreateKey, OpenKept, Share,
     OpenShared, DestroyKeypair, DestroyKey, Exit

LEMMA KeypairsStayOwn ==
  ASSUME SharingInv, [Next]_vars
  PROVE  KeypairsAreOwn'
<1>1. TypeOK /\ RowsAreSealed /\ KeypairsAreOwn
  BY DEF SharingInv
<1>2. \A d \in Devices : AccountOf[d] \in Accounts
  BY ConstantsAssumption
<1>3. \A d \in Devices : keypair[d] # NoKeypair => /\ keypair[d].seed \in Seeds
                                                  /\ seedBy'[keypair[d].seed] = AccountOf[d]
  BY <1>1, <1>2, SharingStepsKeep, KeypairFacts DEF TypeOK, KeypairsAreOwn
<1>4. ASSUME NEW d \in Devices, NEW s \in Seeds, GenerateKeypair(d, s)
      PROVE  KeypairsAreOwn'
  <2>1. generate_keypair(s) # NoKeypair /\ generate_keypair(s).seed = s
    BY SeedFacts, KeypairFacts
  <2>2. keypair' = [keypair EXCEPT ![d] = generate_keypair(s)] /\ seedBy'[s] = AccountOf[d]
    BY <1>1, <1>4 DEF GenerateKeypair, TypeOK
  <2> QED BY <1>1, <1>3, <2>1, <2>2 DEF TypeOK, KeypairsAreOwn
<1>5. ASSUME NEW d \in Devices, OpenSeed(d)
      PROVE  KeypairsAreOwn'
  <2>1. PICK s \in Seeds : /\ seedBy[s] = AccountOf[d]
                           /\ keypair' = [keypair EXCEPT ![d] = generate_keypair(s)]
    BY <1>1, <1>5, OpenSeedFacts
  <2>2. generate_keypair(s) # NoKeypair /\ generate_keypair(s).seed = s
    BY SeedFacts, KeypairFacts
  <2>3. seedBy' = seedBy
    BY <1>5 DEF OpenSeed
  <2> QED BY <1>1, <1>3, <2>1, <2>2, <2>3 DEF TypeOK, KeypairsAreOwn
<1>6. ASSUME NEW d \in Devices, DestroyKeypair(d) \/ Exit(d)
      PROVE  KeypairsAreOwn'
  BY <1>1, <1>3, <1>6 DEF DestroyKeypair, Exit, TypeOK, KeypairsAreOwn
<1>7. CASE keypair' = keypair
  BY <1>1, <1>3, <1>7 DEF KeypairsAreOwn
<1> QED
  BY <1>4, <1>5, <1>6, <1>7 DEF Next, vars, Publish, CreateKey, KeepKey, OpenKept, Share,
     OpenShared, DestroyKey

LEMMA PublishedStaySealed ==
  ASSUME SharingInv, [Next]_vars
  PROVE  PublishedAreSealed'
<1>1. TypeOK /\ RowsAreSealed /\ KeypairsAreOwn /\ PublishedAreSealed
  BY DEF SharingInv
<1>2. rows \subseteq rows' /\ \A s \in Seeds : seedBy[s] \in Accounts => seedBy'[s] = seedBy[s]
  BY <1>1, SharingStepsKeep
<1>3. ASSUME NEW s \in Seeds, encrypt_private_key(s, seedBy[s]) \in rows
      PROVE  encrypt_private_key(s, seedBy'[s]) \in rows'
  <2>1. PICK row \in rows : row = encrypt_private_key(s, seedBy[s])
    BY <1>3
  <2>2. row.under = hkdf_subkey(seedBy[s], HKDF_INFO_PRIVATE_KEY_ENC) /\ row.msg = s
    BY <2>1 DEF encrypt_private_key, SealedRow
  <2>3. row.under.info = HKDF_INFO_PRIVATE_KEY_ENC /\ row.under.ikm = seedBy[s]
    BY <2>2 DEF hkdf_subkey
  <2>4. PICK t \in Seeds : seedBy[t] \in Accounts /\ row = encrypt_private_key(t, seedBy[t])
    BY <1>1, <2>3, RowFacts
  <2>5. t = s
    BY <2>2, <2>4 DEF encrypt_private_key, SealedRow
  <2> QED BY <1>2, <1>3, <2>4, <2>5
<1>4. ASSUME NEW d \in Devices, Publish(d)
      PROVE  PublishedAreSealed'
  <2>1. keypair[d] \in Keypairs
    BY <1>1, <1>4 DEF Publish, TypeOK
  <2>2. ASSUME NEW s \in Seeds,
               public_keys(generate_keypair(s)) = public_keys(keypair[d])
        PROVE  s = keypair[d].seed
    BY <2>1, <2>2, SeedFacts, KeypairFacts
  <2>3. /\ published' = published \cup {public_keys(keypair[d])}
        /\ encrypt_private_key(keypair[d].seed, AccountOf[d]) \in rows'
        /\ seedBy' = seedBy /\ seedBy[keypair[d].seed] = AccountOf[d]
    BY <1>1, <1>4 DEF Publish, KeypairsAreOwn
  <2> QED BY <1>1, <1>3, <2>2, <2>3 DEF PublishedAreSealed
<1>5. CASE published' = published
  BY <1>1, <1>3, <1>5 DEF PublishedAreSealed
<1> QED
  BY <1>4, <1>5 DEF Next, vars, GenerateKeypair, OpenSeed, CreateKey, KeepKey, OpenKept, Share,
     OpenShared, DestroyKeypair, DestroyKey, Exit

LEMMA WrapsStayPublished ==
  ASSUME SharingInv, [Next]_vars
  PROVE  WrapsUsePublished'
<1>1. TypeOK /\ WrapsUsePublished
  BY DEF SharingInv
<1>2. Pairings(published) \subseteq Pairings(published')
  BY <1>1, SharingStepsKeep DEF Pairings, BothEncodings
<1>3. ASSUME NEW d \in Devices, NEW k \in Keys, NEW r \in Draws, Share(d, k, r)
      PROVE  WrapsUsePublished'
  BY <1>1, <1>2, <1>3, ShareFacts DEF WrapsUsePublished
<1>4. CASE wraps' = wraps
  BY <1>1, <1>2, <1>4 DEF WrapsUsePublished
<1> QED
  BY <1>3, <1>4 DEF Next, vars, GenerateKeypair, Publish, OpenSeed, CreateKey, KeepKey,
     OpenKept, OpenShared, DestroyKeypair, DestroyKey, Exit

-----------------------------------------------------------------------------
LEMMA SharingInitial ==
  ASSUME Init
  PROVE  SharingInv
<1>1. TypeOK
  BY DEF Init, TypeOK
<1>2. KeypairsAreOwn
  BY DEF Init, KeypairsAreOwn
<1> QED BY <1>1, <1>2 DEF Init, SharingInv, RowsAreSealed, PublishedAreSealed, WrapsUsePublished

LEMMA SharingPreserved ==
  ASSUME SharingInv, [Next]_vars
  PROVE  SharingInv'
<1>1. TypeOK'
  BY SharingStepTypes DEF SharingInv
<1> QED BY <1>1, RowsStaySealed, KeypairsStayOwn, PublishedStaySealed, WrapsStayPublished
        DEF SharingInv

(* Where rows, wraps and published keys come from, in every state. *)
THEOREM SharingHolds == Spec => []SharingInv
BY SharingInitial, SharingPreserved, PTL DEF Spec

(* The variables keep their types: no vault-key row is opened as a seed,   *)
(* and every wrap is for keys somebody published.                          *)
THEOREM SharingTypeCorrect == Spec => []TypeOK
<1>1. SharingInv => TypeOK
  BY DEF SharingInv
<1> QED BY <1>1, SharingHolds, PTL

(* Fields that unwrap are those of one wrap made for this very key pair,   *)
(* whatever parts and encodings the server combines.                       *)
THEOREM OpenedWhole == Spec => []OpenedIsWhole
<1>1. Init => OpenedIsWhole
  BY DEF Init, OpenedIsWhole
<1>2. ASSUME SharingInv, OpenedIsWhole, [Next]_vars
      PROVE  OpenedIsWhole'
  <2>1. TypeOK /\ RowsAreSealed
    BY <1>2 DEF SharingInv
  <2>2. wraps \subseteq wraps'
    BY <1>2, <2>1, SharingStepsKeep
  <2>3. ASSUME NEW d \in Devices, OpenShared(d)
        PROVE  OpenedIsWhole'
    <3>1. PICK w \in wraps :
            /\ w.to = public_keys(keypair[d])
            /\ opened' = [by |-> keypair[d].seed, fields |-> WrappedVaultKey(w),
                          key |-> w.key]
      BY <2>1, <2>3, OpenSharedFacts
    <3>2. keypair[d] = generate_keypair(keypair[d].seed)
      BY <2>1, <2>3, OpenSharedFacts, KeypairFacts
    <3>3. w \in wraps'
      BY <2>2
    <3>4. /\ opened'.fields = WrappedVaultKey(w) /\ opened'.key = w.key
          /\ w.to = public_keys(generate_keypair(opened'.by))
      BY <3>1, <3>2
    <3> QED BY <3>3, <3>4 DEF OpenedIsWhole
  <2>4. CASE opened' = opened
    BY <1>2, <2>2, <2>4 DEF OpenedIsWhole
  <2> QED
    BY <1>2, <2>3, <2>4 DEF Next, vars, GenerateKeypair, Publish, OpenSeed, CreateKey, KeepKey,
       OpenKept, Share, DestroyKeypair, DestroyKey, Exit
<1> QED BY <1>1, <1>2, SharingHolds, PTL DEF Spec

(* Both secrets enter every wrap key: breaking one primitive gives none.   *)
THEOREM EitherSuffices == Spec => []EitherPrimitiveSuffices
<1>1. TypeOK => EitherPrimitiveSuffices
  <2> SUFFICES ASSUME TypeOK, NEW s \in Sealed, NEW broken \in {"ML-KEM", "X25519"}
               PROVE  ~ Computable(s.under, broken)
    BY DEF EitherPrimitiveSuffices
  <2>1. s.under.ikm[1] # Zero /\ s.under.ikm[2] # Zero
    BY SealedFacts DEF TypeOK
  <2> QED BY <2>1 DEF Computable
<1> QED BY <1>1, SharingTypeCorrect, PTL

(* A wrap made for published keys opens for a key pair recovered from the  *)
(* sealed seed.                                                            *)
LEMMA RecoveredOpens ==
  ASSUME NEW w \in Wrap, NEW s \in Seeds, w.to = public_keys(generate_keypair(s))
  PROVE  unwrap_vault_key(WrappedVaultKey(w), generate_keypair(s)) = Ok(w.key)
<1>1. PICK kp : kp = generate_keypair(s)
  OBVIOUS
<1>2. PICK ct : ct = KemCiphertext(kp.mlkem, w.draw)
  OBVIOUS
<1>3. kp \in Keypairs /\ w.to.mlkem = kp.mlkem /\ w.to.x25519 = X25519Public(kp.x25519)
      /\ w.to = public_keys(kp)
  BY <1>1, SeedFacts, KeypairFacts
<1>4. w.to.x25519.of = kp.x25519
  BY <1>3 DEF X25519Public, Point
<1>5. X25519Public(w.draw) # Zero /\ X25519Public(w.draw).of = w.draw
  <2>1. w.draw \in Draws
    BY WrappedFacts
  <2>2. X25519Public(w.draw) # Zero
    BY <2>1, ConstantsAssumption DEF BothEncodings
  <2> QED BY <2>2 DEF X25519Public, Point
<1>6. diffie_hellman(kp.x25519, X25519Public(w.draw)) = {w.draw, kp.x25519}
  BY <1>5 DEF diffie_hellman
<1>7. PICK key : key = hybrid_wrap_key(KemSecret(kp.mlkem, ct), {w.draw, kp.x25519}, ct,
                                       X25519Public(w.draw), X25519Public(kp.x25519))
  OBVIOUS
<1>8. PICK wrapped : wrapped = WrappedVaultKey(w)
  OBVIOUS
<1>9. /\ wrapped.eph_pub_key = X25519Public(w.draw) /\ wrapped.mlkem_ciphertext = ct
      /\ wrapped.encrypted_vault_key = SealedRow(key, w.key)
      /\ {w.draw, kp.x25519} # Zero
  BY <1>2, <1>3, <1>4, <1>7, <1>8, WrappedFacts
<1>10. /\ wrapped.encrypted_vault_key.intact
       /\ wrapped.encrypted_vault_key.under = key
       /\ wrapped.encrypted_vault_key.msg = w.key
  BY <1>9 DEF SealedRow
<1>11. public_keys(kp).x25519 = X25519Public(kp.x25519)
  BY <1>3, KeypairFacts
<1> QED BY <1>1, <1>6, <1>7, <1>8, <1>9, <1>10, <1>11
        DEF unwrap_vault_key, mlkem_decapsulate, was_contributory

(* What was shared with published keys stays readable from what is stored, *)
(* on any device, under the MasterKey.                                     *)
THEOREM SharesReadable == Spec => []SharesStayReadable
<1>1. ASSUME SharingInv, NEW w \in wraps, NEW s \in Seeds,
             w.to = public_keys(generate_keypair(s))
      PROVE  \E row \in rows :
               LET kp == decrypt_private_key(row, seedBy[s])
               IN  kp.ok /\ unwrap_vault_key(WrappedVaultKey(w), kp.val) = Ok(w.key)
  <2>1. /\ w \in Wrap /\ published \subseteq Publics /\ w.to \in Pairings(published)
        /\ PublishedAreSealed
    BY <1>1 DEF SharingInv, TypeOK, WrapsUsePublished
  <2>2. PICK pk \in published : w.to.mlkem = pk.mlkem
    BY <2>1, PairingFacts
  <2>3. PICK kp \in Keypairs : pk = public_keys(kp)
    BY <2>1, PublicFacts
  <2>4. kp = generate_keypair(s)
    <3>1. kp.mlkem = generate_keypair(s).mlkem
      BY <1>1, <2>2, <2>3, SeedFacts, KeypairFacts
    <3> QED BY <3>1, SeedFacts
  <2>5. encrypt_private_key(s, seedBy[s]) \in rows
    BY <2>1, <2>3, <2>4 DEF PublishedAreSealed
  <2>6. decrypt_private_key(encrypt_private_key(s, seedBy[s]), seedBy[s])
          = Ok(generate_keypair(s))
    BY DEF decrypt_private_key, encrypt_private_key, SealedRow, generate_keypair
  <2>7. unwrap_vault_key(WrappedVaultKey(w), generate_keypair(s)) = Ok(w.key)
    BY <1>1, <2>1, RecoveredOpens
  <2>8. Ok(generate_keypair(s)).ok /\ Ok(generate_keypair(s)).val = generate_keypair(s)
    BY DEF Ok
  <2> QED BY <2>5, <2>6, <2>7, <2>8
<1>2. SharingInv => SharesStayReadable
  BY <1>1 DEF SharesStayReadable
<1> QED BY <1>2, SharingHolds, PTL

-----------------------------------------------------------------------------
(* The refinement.  Generating a key, sharing it, opening a wrap and       *)
(* dropping handles are the four steps of KeyGrants; the rest is not seen. *)
LEMMA KnowsMember ==
  ASSUME NEW a \in Accounts
  PROVE  \A k : k \in knowsBar[a] <=>
                  /\ k \in Keys
                  /\ \/ wrap_vault_key_with_master_key(k, a) \in rows
                     \/ \E d \in Devices : AccountOf[d] = a /\ k \in held[d]
BY DEF knowsBar

LEMMA KnowsMemberNext ==
  ASSUME NEW a \in Accounts
  PROVE  \A k : k \in knowsBar'[a] <=>
                  /\ k \in Keys
                  /\ \/ wrap_vault_key_with_master_key(k, a) \in rows'
                     \/ \E d \in Devices : AccountOf[d] = a /\ k \in held'[d]
BY DEF knowsBar

LEMMA KnowsFunction ==
  /\ knowsBar = [a \in Accounts |-> knowsBar[a]]
  /\ knowsBar' = [a \in Accounts |-> knowsBar'[a]]
BY DEF knowsBar

LEMMA PairsMember ==
  ASSUME NEW W, NEW by
  PROVE  \A g : g \in {[key |-> h[1].key, to |-> by[h[2]]] :
                         h \in {p \in W \X Seeds :
                                 /\ by[p[2]] # Nobody
                                 /\ p[1].to = public_keys(generate_keypair(p[2]))}} <=>
           \E w \in W, s \in Seeds :
             /\ by[s] # Nobody /\ w.to = public_keys(generate_keypair(s))
             /\ g = [key |-> w.key, to |-> by[s]]
<1> DEFINE Made == {p \in W \X Seeds : /\ by[p[2]] # Nobody
                                       /\ p[1].to = public_keys(generate_keypair(p[2]))}
<1>1. ASSUME NEW h \in Made
      PROVE  /\ h[1] \in W /\ h[2] \in Seeds /\ by[h[2]] # Nobody
             /\ h[1].to = public_keys(generate_keypair(h[2]))
  OBVIOUS
<1>2. ASSUME NEW w \in W, NEW s \in Seeds,
             by[s] # Nobody, w.to = public_keys(generate_keypair(s))
      PROVE  <<w, s>> \in Made /\ <<w, s>>[1] = w /\ <<w, s>>[2] = s
  BY <1>2
<1> HIDE DEF Made
<1>3. ASSUME NEW g, g \in {[key |-> h[1].key, to |-> by[h[2]]] : h \in Made}
      PROVE  \E w \in W, s \in Seeds :
               /\ by[s] # Nobody /\ w.to = public_keys(generate_keypair(s))
               /\ g = [key |-> w.key, to |-> by[s]]
  <2>1. PICK h \in Made : g = [key |-> h[1].key, to |-> by[h[2]]]
    BY <1>3
  <2> QED BY <1>1, <2>1
<1>4. ASSUME NEW g, NEW w \in W, NEW s \in Seeds,
             by[s] # Nobody, w.to = public_keys(generate_keypair(s)),
             g = [key |-> w.key, to |-> by[s]]
      PROVE  g \in {[key |-> h[1].key, to |-> by[h[2]]] : h \in Made}
  <2>1. PICK h \in Made : h[1] = w /\ h[2] = s
    BY <1>2, <1>4
  <2> QED BY <1>4, <2>1
<1> QED BY <1>3, <1>4 DEF Made

LEMMA GrantsMember ==
  \A g : g \in grantsBar <=>
           \E w \in wraps, s \in Seeds :
             /\ seedBy[s] # Nobody /\ w.to = public_keys(generate_keypair(s))
             /\ g = [key |-> w.key, to |-> seedBy[s]]
BY PairsMember DEF grantsBar

LEMMA GrantsMemberNext ==
  \A g : g \in grantsBar' <=>
           \E w \in wraps', s \in Seeds :
             /\ seedBy'[s] # Nobody /\ w.to = public_keys(generate_keypair(s))
             /\ g = [key |-> w.key, to |-> seedBy'[s]]
BY PairsMember DEF grantsBar

(* Rows that hold what the account knows already teach it nothing. *)
LEMMA KeptIsKnown ==
  ASSUME UNCHANGED held, rows \subseteq rows',
         \A a \in Accounts, k \in Keys :
           wrap_vault_key_with_master_key(k, a) \in rows'
             => wrap_vault_key_with_master_key(k, a) \in rows \/ k \in knowsBar[a]
  PROVE  UNCHANGED knowsBar
<1>1. ASSUME NEW a \in Accounts
      PROVE  knowsBar'[a] = knowsBar[a]
  <2>1. \A k : k \in knowsBar'[a] <=>
                 /\ k \in Keys
                 /\ \/ wrap_vault_key_with_master_key(k, a) \in rows'
                    \/ \E d \in Devices : AccountOf[d] = a /\ k \in held[d]
    BY KnowsMemberNext
  <2>2. \A k : k \in knowsBar'[a] <=> k \in knowsBar[a]
    BY <2>1, KnowsMember
  <2> QED BY <2>2 DEF knowsBar
<1> QED BY <1>1, KnowsFunction

(* A device that gains a key gains it for its account. *)
LEMMA GainIsKnown ==
  ASSUME NEW d \in Devices, NEW k \in Keys, held \in [Devices -> SUBSET Keys],
         UNCHANGED rows, held' = [held EXCEPT ![d] = @ \cup {k}]
  PROVE  knowsBar' = [knowsBar EXCEPT ![AccountOf[d]] = @ \cup {k}]
<1>1. ASSUME NEW a \in Accounts
      PROVE  knowsBar'[a] = IF a = AccountOf[d] THEN knowsBar[a] \cup {k} ELSE knowsBar[a]
  <2>1. \A e \in Devices : held'[e] = IF e = d THEN held[e] \cup {k} ELSE held[e]
    OBVIOUS
  <2>2. \A j : j \in knowsBar'[a] <=>
                 /\ j \in Keys
                 /\ \/ wrap_vault_key_with_master_key(j, a) \in rows
                    \/ \E e \in Devices : AccountOf[e] = a /\ j \in held'[e]
    BY KnowsMemberNext
  <2>3. \A j : j \in knowsBar'[a] <=> j \in knowsBar[a] \/ (AccountOf[d] = a /\ j = k)
    BY <2>1, <2>2, KnowsMember
  <2> QED BY <2>3
<1> QED BY <1>1, KnowsFunction

(* A device that loses keys loses them for its account, except for those   *)
(* kept in rows or on its other devices.                                   *)
LEMMA LossIsForget ==
  ASSUME NEW d \in Devices, UNCHANGED <<rows, createdBar, grantsBar>>,
         \A e \in Devices : /\ held'[e] \subseteq held[e]
                            /\ e # d => held'[e] = held[e]
  PROVE  Grants!Forget(AccountOf[d])
<1>1. ASSUME NEW a \in Accounts
      PROVE  /\ knowsBar'[a] \subseteq knowsBar[a]
             /\ a # AccountOf[d] => knowsBar'[a] = knowsBar[a]
  <2>1. \A k : k \in knowsBar'[a] <=>
                 /\ k \in Keys
                 /\ \/ wrap_vault_key_with_master_key(k, a) \in rows
                    \/ \E e \in Devices : AccountOf[e] = a /\ k \in held'[e]
    BY KnowsMemberNext
  <2>2. \A k : k \in knowsBar'[a] => k \in knowsBar[a]
    BY <2>1, KnowsMember
  <2>3. a # AccountOf[d] => \A k : k \in knowsBar[a] => k \in knowsBar'[a]
    BY <2>1, KnowsMember
  <2> QED BY <2>2, <2>3
<1>2. AccountOf[d] \in Accounts
  BY ConstantsAssumption
<1>3. knowsBar' = [knowsBar EXCEPT ![AccountOf[d]] = knowsBar'[AccountOf[d]]]
  BY <1>1, KnowsFunction
<1> QED BY <1>1, <1>2, <1>3 DEF Grants!Forget

(* The seed a wrap was made for belongs to an account: its public keys     *)
(* were published together with the sealed seed.                           *)
LEMMA WrappedSeedIsOwned ==
  ASSUME SharingInv, NEW w \in wraps, NEW s \in Seeds,
         w.to = public_keys(generate_keypair(s))
  PROVE  seedBy[s] \in Accounts
<1>1. /\ published \subseteq Publics /\ w.to \in Pairings(published)
      /\ PublishedAreSealed /\ RowsAreSealed
  BY DEF SharingInv, TypeOK, WrapsUsePublished
<1>2. PICK pk \in published : w.to.mlkem = pk.mlkem
  BY <1>1, PairingFacts
<1>3. PICK kp \in Keypairs : pk = public_keys(kp)
  BY <1>1, PublicFacts
<1>4. kp = generate_keypair(s)
  <2>1. kp.mlkem = generate_keypair(s).mlkem
    BY <1>2, <1>3, SeedFacts, KeypairFacts
  <2> QED BY <2>1, SeedFacts
<1>5. PICK row \in rows : row = encrypt_private_key(s, seedBy[s])
  BY <1>1, <1>3, <1>4 DEF PublishedAreSealed
<1>6. row.under.info = HKDF_INFO_PRIVATE_KEY_ENC /\ row.msg = s
  BY <1>5 DEF encrypt_private_key, SealedRow, hkdf_subkey
<1>7. PICK t \in Seeds : seedBy[t] \in Accounts /\ row = encrypt_private_key(t, seedBy[t])
  BY <1>1, <1>6, RowFacts
<1>8. t = s
  BY <1>6, <1>7 DEF encrypt_private_key, SealedRow
<1> QED BY <1>7, <1>8

LEMMA CreateIsCreate ==
  ASSUME SharingInv, NEW d \in Devices, NEW k \in Keys, CreateKey(d, k)
  PROVE  Grants!Create(AccountOf[d], k)
<1>1. held \in [Devices -> SUBSET Keys] /\ keyBy \in [Keys -> Accounts \cup {Nobody}]
  BY DEF SharingInv, TypeOK
<1>2. knowsBar' = [knowsBar EXCEPT ![AccountOf[d]] = @ \cup {k}]
  BY <1>1, GainIsKnown DEF CreateKey
<1>3. k \notin createdBar
  BY DEF CreateKey, createdBar
<1>4. createdBar' = createdBar \cup {k}
  <2>1. AccountOf[d] # Nobody
    BY ConstantsAssumption
  <2>2. \A j \in Keys : keyBy'[j] = IF j = k THEN AccountOf[d] ELSE keyBy[j]
    BY <1>1 DEF CreateKey
  <2>3. createdBar' = {j \in Keys : keyBy'[j] # Nobody}
    BY DEF createdBar
  <2> QED BY <2>1, <2>2, <2>3 DEF createdBar
<1>5. UNCHANGED grantsBar
  BY DEF CreateKey, grantsBar
<1> QED BY <1>2, <1>3, <1>4, <1>5 DEF Grants!Create

LEMMA ShareIsGrant ==
  ASSUME SharingInv, NEW d \in Devices, NEW k \in Keys, NEW r \in Draws, Share(d, k, r)
  PROVE  \/ \E j \in Accounts : Grants!Grant(AccountOf[d], j, k)
         \/ UNCHANGED <<createdBar, knowsBar, grantsBar>>
<1>1. TypeOK /\ AccountOf[d] \in Accounts
  BY ConstantsAssumption DEF SharingInv
<1>2. k \in knowsBar[AccountOf[d]]
  BY <1>1, KnowsMember DEF Share
<1>3. PICK w \in Wrap : w.key = k /\ wraps' = wraps \cup {w}
  BY <1>1, ShareFacts
<1>4. UNCHANGED <<createdBar, knowsBar, seedBy>>
  BY DEF Share, createdBar, knowsBar
<1>5. CASE \E s \in Seeds : seedBy[s] # Nobody /\ w.to = public_keys(generate_keypair(s))
  <2>1. PICK s \in Seeds : seedBy[s] # Nobody /\ w.to = public_keys(generate_keypair(s))
    BY <1>5
  <2>2. seedBy[s] \in Accounts
    BY <1>1, <2>1 DEF TypeOK
  <2>3. ASSUME NEW t \in Seeds, w.to = public_keys(generate_keypair(t))
        PROVE  t = s
    <3>1. /\ w.to.mlkem = generate_keypair(t).mlkem
          /\ w.to.mlkem = generate_keypair(s).mlkem
      BY <2>1, <2>3 DEF public_keys
    <3>2. generate_keypair(t) = generate_keypair(s)
      BY <3>1, SeedFacts
    <3> QED BY <3>2, SeedFacts
  <2>4. \A g : g \in grantsBar' <=>
                 \E v \in wraps \cup {w}, t \in Seeds :
                   /\ seedBy[t] # Nobody /\ v.to = public_keys(generate_keypair(t))
                   /\ g = [key |-> v.key, to |-> seedBy[t]]
    BY <1>3, <1>4, GrantsMemberNext
  <2>5. \A g : g \in grantsBar' <=> g \in grantsBar \/ g = [key |-> k, to |-> seedBy[s]]
    BY <1>3, <2>1, <2>3, <2>4, GrantsMember
  <2>6. grantsBar' = grantsBar \cup {[key |-> k, to |-> seedBy[s]]}
    BY <2>5
  <2>7. Grants!Grant(AccountOf[d], seedBy[s], k)
    BY <1>2, <1>4, <2>6 DEF Grants!Grant
  <2> QED BY <2>2, <2>7
<1>6. CASE ~ \E s \in Seeds : seedBy[s] # Nobody /\ w.to = public_keys(generate_keypair(s))
  <2>1. \A g : g \in grantsBar' <=> g \in grantsBar
    BY <1>3, <1>4, <1>6, GrantsMember, GrantsMemberNext
  <2>2. grantsBar' = grantsBar
    BY <2>1 DEF grantsBar
  <2> QED BY <1>4, <2>2
<1> QED BY <1>5, <1>6

LEMMA OpenIsLearn ==
  ASSUME SharingInv, NEW d \in Devices, OpenShared(d)
  PROVE  \E k \in Keys : Grants!Learn(AccountOf[d], k)
<1>1. TypeOK /\ RowsAreSealed /\ KeypairsAreOwn /\ held \in [Devices -> SUBSET Keys]
  BY DEF SharingInv, TypeOK
<1>2. keypair[d] \in Keypairs
  BY <1>1, OpenSharedFacts
<1>3. PICK w \in wraps : /\ w \in Wrap /\ w.to = public_keys(keypair[d])
                         /\ held' = [held EXCEPT ![d] = @ \cup {w.key}]
  BY <1>1, OpenSharedFacts
<1>4. PICK s \in Seeds : s = keypair[d].seed /\ keypair[d] = generate_keypair(s)
  BY <1>2, KeypairFacts
<1>5. seedBy[s] = AccountOf[d] /\ AccountOf[d] # Nobody
  <2>1. keypair[d] # NoKeypair
    BY <1>2, KeypairFacts
  <2>2. AccountOf[d] \in Accounts /\ Nobody \notin Accounts
    BY ConstantsAssumption
  <2> QED BY <1>1, <1>4, <2>1, <2>2 DEF KeypairsAreOwn
<1>6. w.key \in Keys
  BY <1>3, WrappedFacts
<1>7. [key |-> w.key, to |-> AccountOf[d]] \in grantsBar
  BY <1>3, <1>4, <1>5, GrantsMember
<1>8. knowsBar' = [knowsBar EXCEPT ![AccountOf[d]] = @ \cup {w.key}]
  BY <1>1, <1>3, <1>6, GainIsKnown DEF OpenShared
<1>9. UNCHANGED <<createdBar, grantsBar>>
  BY DEF OpenShared, createdBar, grantsBar
<1> QED BY <1>6, <1>7, <1>8, <1>9 DEF Grants!Learn

LEMMA DropIsForget ==
  ASSUME SharingInv, NEW d \in Devices, (\E k \in Keys : DestroyKey(d, k)) \/ Exit(d)
  PROVE  Grants!Forget(AccountOf[d])
<1>1. held \in [Devices -> SUBSET Keys]
  BY DEF SharingInv, TypeOK
<1>2. \A e \in Devices : /\ held'[e] \subseteq held[e]
                         /\ e # d => held'[e] = held[e]
  BY <1>1 DEF DestroyKey, Exit
<1>3. UNCHANGED <<rows, createdBar, grantsBar>>
  BY DEF DestroyKey, Exit, createdBar, grantsBar
<1> QED BY <1>2, <1>3, LossIsForget

(* A fresh seed has no wraps yet, and a kept or recovered key is known.    *)
LEMMA RestIsStutter ==
  ASSUME SharingInv, NEW d \in Devices,
         \/ \E s \in Seeds : GenerateKeypair(d, s)
         \/ Publish(d) \/ OpenSeed(d) \/ OpenKept(d) \/ DestroyKeypair(d)
         \/ \E k \in Keys : KeepKey(d, k)
  PROVE  UNCHANGED <<createdBar, knowsBar, grantsBar>>
<1>1. /\ TypeOK /\ RowsAreSealed /\ held \in [Devices -> SUBSET Keys]
      /\ AccountOf[d] \in Accounts
  BY ConstantsAssumption DEF SharingInv, TypeOK
<1>2. ASSUME NEW s \in Seeds, GenerateKeypair(d, s)
      PROVE  UNCHANGED <<createdBar, knowsBar, grantsBar>>
  <2>1. UNCHANGED <<keyBy, held, rows, wraps>>
    BY <1>2 DEF GenerateKeypair
  <2>2. /\ seedBy[s] = Nobody /\ Nobody \notin Accounts
        /\ \A t \in Seeds : t # s => seedBy'[t] = seedBy[t]
    BY <1>1, <1>2, ConstantsAssumption DEF GenerateKeypair, TypeOK
  <2>3. \A w \in wraps : w.to # public_keys(generate_keypair(s))
    BY <2>2, WrappedSeedIsOwned
  <2>4. \A g : g \in grantsBar' <=> g \in grantsBar
    BY <2>1, <2>2, <2>3, GrantsMember, GrantsMemberNext
  <2>5. grantsBar' = grantsBar
    BY <2>4 DEF grantsBar
  <2> QED BY <2>1, <2>5 DEF createdBar, knowsBar
<1>3. ASSUME Publish(d)
      PROVE  UNCHANGED <<createdBar, knowsBar, grantsBar>>
  <2>1. rows' = rows \cup {encrypt_private_key(keypair[d].seed, AccountOf[d])}
        /\ UNCHANGED <<seedBy, keyBy, held, wraps>>
    BY <1>3 DEF Publish
  <2>2. \A a \in Accounts, k \in Keys :
          wrap_vault_key_with_master_key(k, a)
            # encrypt_private_key(keypair[d].seed, AccountOf[d])
    BY DEF wrap_vault_key_with_master_key, encrypt_private_key, SealedRow, hkdf_subkey,
       HKDF_INFO_VAULT_KEY_WRAP_MK, HKDF_INFO_PRIVATE_KEY_ENC
  <2>3. UNCHANGED knowsBar
    BY <2>1, <2>2, KeptIsKnown
  <2> QED BY <2>1, <2>3 DEF createdBar, grantsBar
<1>4. ASSUME NEW k \in Keys, KeepKey(d, k)
      PROVE  UNCHANGED <<createdBar, knowsBar, grantsBar>>
  <2>1. rows' = rows \cup {wrap_vault_key_with_master_key(k, AccountOf[d])}
        /\ UNCHANGED <<seedBy, keyBy, held, wraps>>
    BY <1>4 DEF KeepKey
  <2>2. k \in knowsBar[AccountOf[d]]
    BY <1>1, <1>4, KnowsMember DEF KeepKey
  <2>3. \A a \in Accounts, j \in Keys :
          wrap_vault_key_with_master_key(j, a) = wrap_vault_key_with_master_key(k, AccountOf[d])
            => j = k /\ a = AccountOf[d]
    BY DEF wrap_vault_key_with_master_key, SealedRow, hkdf_subkey
  <2>4. UNCHANGED knowsBar
    BY <2>1, <2>2, <2>3, KeptIsKnown
  <2> QED BY <2>1, <2>4 DEF createdBar, grantsBar
<1>5. ASSUME OpenKept(d)
      PROVE  UNCHANGED <<createdBar, knowsBar, grantsBar>>
  <2>1. PICK k \in Keys : /\ wrap_vault_key_with_master_key(k, AccountOf[d]) \in rows
                          /\ held' = [held EXCEPT ![d] = @ \cup {k}]
    BY <1>1, <1>5, OpenKeptFacts
  <2>2. UNCHANGED <<seedBy, keyBy, rows, wraps>>
    BY <1>5 DEF OpenKept
  <2>3. knowsBar' = [knowsBar EXCEPT ![AccountOf[d]] = @ \cup {k}]
    BY <1>1, <2>1, <2>2, GainIsKnown
  <2>4. k \in knowsBar[AccountOf[d]]
    BY <1>1, <2>1, KnowsMember
  <2>5. [knowsBar EXCEPT ![AccountOf[d]] = @ \cup {k}] = knowsBar
    BY <2>4, KnowsFunction
  <2> QED BY <2>2, <2>3, <2>5 DEF createdBar, grantsBar
<1>6. CASE OpenSeed(d) \/ DestroyKeypair(d)
  BY <1>6 DEF OpenSeed, DestroyKeypair, createdBar, knowsBar, grantsBar
<1> QED BY <1>2, <1>3, <1>4, <1>5, <1>6

(* Keys spread only from accounts that know them to accounts they were     *)
(* wrapped for, whatever the server serves and whichever handles live on.  *)
THEOREM SharingImplementsKeyGrants == Spec => ImplementsKeyGrants
<1>1. Init => Grants!Init
  <2> SUFFICES ASSUME Init PROVE Grants!Init
    OBVIOUS
  <2>1. createdBar = {} /\ grantsBar = {}
    BY DEF Init, createdBar, grantsBar
  <2>2. \A a \in Accounts : knowsBar[a] = {}
    BY KnowsMember DEF Init
  <2> QED BY <2>1, <2>2, KnowsFunction DEF Grants!Init
<1>2. ASSUME SharingInv, [Next]_vars
      PROVE  [Grants!Next]_<<createdBar, knowsBar, grantsBar>>
  <2> \A d \in Devices : AccountOf[d] \in Accounts
    BY ConstantsAssumption
  <2>1. ASSUME NEW d \in Devices, NEW k \in Keys, CreateKey(d, k)
        PROVE  Grants!Next
    BY <1>2, <2>1, CreateIsCreate DEF Grants!Next
  <2>2. ASSUME NEW d \in Devices, NEW k \in Keys, NEW r \in Draws, Share(d, k, r)
        PROVE  [Grants!Next]_<<createdBar, knowsBar, grantsBar>>
    BY <1>2, <2>2, ShareIsGrant DEF Grants!Next
  <2>3. ASSUME NEW d \in Devices, OpenShared(d)
        PROVE  Grants!Next
    BY <1>2, <2>3, OpenIsLearn DEF Grants!Next
  <2>4. ASSUME NEW d \in Devices, (\E k \in Keys : DestroyKey(d, k)) \/ Exit(d)
        PROVE  Grants!Next
    BY <1>2, <2>4, DropIsForget DEF Grants!Next
  <2>5. CASE UNCHANGED vars
    BY <2>5 DEF vars, createdBar, knowsBar, grantsBar
  <2> QED BY <1>2, <2>1, <2>2, <2>3, <2>4, <2>5, RestIsStutter DEF Next
<1> QED BY <1>1, <1>2, SharingHolds, PTL DEF Spec, ImplementsKeyGrants, Grants!Spec

-----------------------------------------------------------------------------
(* Where the keys an account knows are from.  None is the server's own.    *)
From(a, k) ==
  /\ keyBy[k] # Nobody
  /\ \/ keyBy[k] = a
     \/ \E w \in wraps, s \in Seeds : /\ w.key = k /\ seedBy[s] = a
                                      /\ w.to = public_keys(generate_keypair(s))

KeysHaveOrigin ==
  /\ keyBy[NetworkKey] = Nobody
  /\ \A w \in wraps : keyBy[w.key] # Nobody
  /\ \A a \in Accounts : \A k \in knowsBar[a] : From(a, k)

(* A generated key keeps its generator. *)
LEMMA GeneratorsStay ==
  ASSUME TypeOK, [Next]_vars
  PROVE  /\ \A k \in Keys : keyBy[k] # Nobody => keyBy'[k] = keyBy[k]
         /\ keyBy'[NetworkKey] = keyBy[NetworkKey]
BY ConstantsAssumption DEF TypeOK, Next, vars, GenerateKeypair, Publish, OpenSeed, CreateKey,
   KeepKey, OpenKept, Share, OpenShared, DestroyKeypair, DestroyKey, Exit

LEMMA StepOrigin ==
  ASSUME SharingInv, KeysHaveOrigin, [Next]_vars
  PROVE  KeysHaveOrigin'
<1>1. /\ TypeOK /\ RowsAreSealed /\ KeypairsAreOwn
      /\ held \in [Devices -> SUBSET Keys] /\ wraps \subseteq Wrap
      /\ \A d \in Devices : AccountOf[d] \in Accounts
  BY ConstantsAssumption DEF SharingInv, TypeOK
<1>2. /\ \A k \in Keys : keyBy[k] # Nobody => keyBy'[k] = keyBy[k]
      /\ \A s \in Seeds : seedBy[s] \in Accounts => seedBy'[s] = seedBy[s]
      /\ keyBy'[NetworkKey] = Nobody /\ wraps \subseteq wraps'
  BY <1>1, GeneratorsStay, SharingStepsKeep DEF KeysHaveOrigin
<1>3. \A w \in wraps : w.key \in Keys /\ keyBy'[w.key] # Nobody
  BY <1>1, <1>2 DEF KeysHaveOrigin, Wrap
<1>4. ASSUME NEW a \in Accounts, NEW k \in Keys, From(a, k)
      PROVE  From(a, k)'
  BY <1>2, <1>4 DEF From
<1>5. \A a \in Accounts : \A k \in knowsBar[a] : k \in Keys /\ From(a, k)'
  BY <1>4, KnowsMember DEF KeysHaveOrigin
<1>6. CASE /\ \A a \in Accounts : knowsBar'[a] \subseteq knowsBar[a]
           /\ wraps' = wraps
  BY <1>2, <1>3, <1>5, <1>6 DEF KeysHaveOrigin
<1>7. ASSUME NEW d \in Devices, NEW k \in Keys, CreateKey(d, k)
      PROVE  KeysHaveOrigin'
  <2>1. wraps' = wraps /\ knowsBar' = [knowsBar EXCEPT ![AccountOf[d]] = @ \cup {k}]
    BY <1>1, <1>7, GainIsKnown DEF CreateKey
  <2>2. keyBy'[k] = AccountOf[d] /\ AccountOf[d] # Nobody
    BY <1>1, <1>7, ConstantsAssumption DEF CreateKey, TypeOK
  <2>3. From(AccountOf[d], k)'
    BY <2>2 DEF From
  <2>4. \A a \in Accounts : \A j \in knowsBar'[a] :
          j \in knowsBar[a] \/ (a = AccountOf[d] /\ j = k)
    BY <1>1, <2>1, KnowsFunction
  <2> QED BY <1>2, <1>3, <1>5, <2>1, <2>3, <2>4 DEF KeysHaveOrigin
<1>8. ASSUME NEW d \in Devices, NEW k \in Keys, NEW r \in Draws, Share(d, k, r)
      PROVE  KeysHaveOrigin'
  <2>1. PICK w : w.key = k /\ wraps' = wraps \cup {w}
    BY <1>1, <1>8, ShareFacts
  <2>2. UNCHANGED <<knowsBar, keyBy>> /\ k \in held[d]
    BY <1>8 DEF Share, knowsBar
  <2>3. k \in knowsBar[AccountOf[d]]
    BY <1>1, <2>2, KnowsMember
  <2>4. keyBy'[w.key] # Nobody
    BY <1>1, <2>1, <2>2, <2>3 DEF KeysHaveOrigin, From
  <2> QED BY <1>2, <1>3, <1>5, <2>1, <2>2, <2>4 DEF KeysHaveOrigin
<1>9. ASSUME NEW d \in Devices, OpenShared(d)
      PROVE  KeysHaveOrigin'
  <2>1. PICK w \in wraps : /\ w.to = public_keys(keypair[d])
                           /\ held' = [held EXCEPT ![d] = @ \cup {w.key}]
    BY <1>1, <1>9, OpenSharedFacts
  <2>2. UNCHANGED <<keyBy, seedBy, rows, wraps>>
    BY <1>9 DEF OpenShared
  <2>3. w.key \in Keys
    BY <1>3
  <2>4. knowsBar' = [knowsBar EXCEPT ![AccountOf[d]] = @ \cup {w.key}]
    BY <1>1, <2>1, <2>2, <2>3, GainIsKnown
  <2>5. PICK s \in Seeds : /\ seedBy[s] = AccountOf[d]
                           /\ w.to = public_keys(generate_keypair(s))
    BY <1>1, <1>9, <2>1, OpenSharedFacts, KeypairFacts DEF KeypairsAreOwn
  <2>6. From(AccountOf[d], w.key)'
    BY <1>3, <2>2, <2>5 DEF From
  <2>7. \A a \in Accounts : \A j \in knowsBar'[a] :
          j \in knowsBar[a] \/ (a = AccountOf[d] /\ j = w.key)
    BY <1>1, <2>4, KnowsFunction
  <2> QED BY <1>2, <1>3, <1>5, <2>2, <2>6, <2>7 DEF KeysHaveOrigin
<1>10. ASSUME NEW d \in Devices, (\E k \in Keys : DestroyKey(d, k)) \/ Exit(d)
       PROVE  KeysHaveOrigin'
  <2>1. Grants!Forget(AccountOf[d]) /\ wraps' = wraps
    BY <1>10, DropIsForget DEF DestroyKey, Exit
  <2>2. \A a \in Accounts : knowsBar'[a] \subseteq knowsBar[a]
    BY <1>1, <2>1, KnowsFunction DEF Grants!Forget
  <2> QED BY <1>6, <2>1, <2>2
<1>11. ASSUME NEW d \in Devices,
              \/ \E s \in Seeds : GenerateKeypair(d, s)
              \/ Publish(d) \/ OpenSeed(d) \/ OpenKept(d) \/ DestroyKeypair(d)
              \/ \E k \in Keys : KeepKey(d, k)
       PROVE  KeysHaveOrigin'
  <2>1. knowsBar' = knowsBar
    BY <1>11, RestIsStutter
  <2>2. wraps' = wraps
    BY <1>11 DEF GenerateKeypair, Publish, OpenSeed, OpenKept, DestroyKeypair, KeepKey
  <2> QED BY <1>6, <2>1, <2>2
<1>12. CASE UNCHANGED vars
  BY <1>6, <1>12 DEF vars, knowsBar
<1> QED BY <1>7, <1>8, <1>9, <1>10, <1>11, <1>12 DEF Next

(* Every key an account has on a device, or keeps in a row, was generated  *)
(* by one of its devices or wrapped for both keys of one of its key pairs; *)
(* the key the server sealed for low-order ephemerals is never among them  *)
(* (keypair.rs:705).                                                       *)
THEOREM KnownKeysHaveOrigin == Spec => []KeysHaveOrigin
<1>1. Init => KeysHaveOrigin
  BY ConstantsAssumption, KnowsMember DEF Init, KeysHaveOrigin
<1>2. SharingInv /\ KeysHaveOrigin /\ [Next]_vars => KeysHaveOrigin'
  BY StepOrigin
<1> QED BY <1>1, <1>2, SharingHolds, PTL DEF Spec
=============================================================================
