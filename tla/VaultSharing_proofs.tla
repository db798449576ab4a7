-------------------------- MODULE VaultSharing_proofs --------------------------
(***************************************************************************)
(* Proofs about VaultSharing, for any sets of users and keys and any       *)
(* number of versions.  The argument: a row opens for one user and to one  *)
(* key (RowFacts); the key of a re-key in progress has left the device in  *)
(* no row yet (WalksAreFresh); so the re-key, when it is taken, moves the  *)
(* vault to a key that nobody but its roster can get.                      *)
(***************************************************************************)
EXTENDS VaultSharing, TLAPS

Opens(row, u, k) == open_row(row, u) = Ok(k)

(* One key for all members and all versions. *)
OneKey ==
  /\ Roster # {}
  /\ \E k \in Keys : /\ \A u \in Roster : Opens(members[u], u, k)
                     /\ \A n \in DOMAIN store : store[n] = Sealed(n, k)

MembersUploaded == \A u \in Roster : members[u] \in uploaded

HandlesOpened ==
  \A u \in Users : handle[u] # NoHandle =>
    /\ handle[u].row \in uploaded
    /\ Opens(handle[u].row, u, handle[u].key)

KeysAreDrawn ==
  \A row \in uploaded, u \in Users, k \in Keys : Opens(row, u, k) => keyBy[k] # Nobody

(* The key of a re-key in progress is the owner's secret. *)
WalksAreFresh ==
  \A a \in Users : walk[a] # NoWalk =>
    /\ handle[a] # NoHandle
    /\ keyBy[walk[a].new] = a
    /\ \A row \in uploaded, u \in Users : ~ Opens(row, u, walk[a].new)

WalksAreInOrder ==
  \A a \in Users : walk[a] # NoWalk =>
    /\ walk[a].upto <= Len(store)
    /\ Len(walk[a].batch) <= walk[a].upto
    /\ \A n \in DOMAIN walk[a].batch : walk[a].batch[n] = Sealed(n, walk[a].new)

SharingInv ==
  /\ TypeOK
  /\ OneKey
  /\ MembersUploaded
  /\ HandlesOpened
  /\ KeysAreDrawn
  /\ WalksAreFresh
  /\ WalksAreInOrder

-----------------------------------------------------------------------------
LEMMA OkFacts ==
  ASSUME NEW a, NEW b
  PROVE  /\ Ok(a).ok /\ Ok(a).val = a
         /\ Ok(a) = Ok(b) => a = b
         /\ ~ Err(a).ok
BY DEF Ok, Err

LEMMA OwnRowOpens ==
  ASSUME NEW k \in Keys, NEW u \in Users, NEW v \in Users
  PROVE  open_row(OwnRow(k, u), v) = IF v = u THEN Ok(k) ELSE Err("KeyUnwrap")
BY DEF open_row, OwnRow, unwrap_vault_key_with_master_key, wrap_vault_key_with_master_key,
   SealedRow, hkdf_subkey

(* The fields of a shared row. *)
LEMMA SharedRowFacts ==
  ASSUME NEW k \in Keys, NEW u \in Users
  PROVE  LET r   == Draw(k, u)
             pk  == PublicsOf(u)
             ct  == KemCiphertext(pk.mlkem, r)
         IN  SharedRow(k, u) =
               [eph_pub_key         |-> X25519Public(r),
                mlkem_ciphertext    |-> ct,
                encrypted_vault_key |->
                  SealedRow(hybrid_wrap_key(KemSecret(pk.mlkem, ct),
                                            diffie_hellman(r, pk.x25519), ct,
                                            X25519Public(r), pk.x25519), k)]
<1>1. PublicsOf(u).mlkem # Malformed /\ diffie_hellman(Draw(k, u), PublicsOf(u).x25519) # Zero
  BY ConstantsAssumption
<1> QED BY <1>1 DEF SharedRow, wrap_vault_key_for_user, mlkem_encapsulate, was_contributory, Ok

(* A login recovers the key pair of the registration. *)
LEMMA KeypairFacts ==
  ASSUME NEW u \in Users
  PROVE  /\ KeypairOf(u) = generate_keypair(u)
         /\ public_keys(KeypairOf(u)) = PublicsOf(u)
         /\ KeypairOf(u).mlkem = hkdf_subkey(u, "evnx/mlkem768/v1")
         /\ PublicsOf(u).mlkem = hkdf_subkey(u, "evnx/mlkem768/v1")
         /\ PublicsOf(u).x25519 = X25519Public(KeypairOf(u).x25519)
<1>1. KeypairOf(u) = generate_keypair(u)
  BY DEF KeypairOf, decrypt_private_key, encrypt_private_key, SealedRow, Ok, generate_keypair
<1> QED
  BY <1>1 DEF PublicsOf, public_keys, generate_keypair, UserKeypair,
     derive_mlkem_from_ed25519_seed

(* Both sides of the exchange get the same secret. *)
LEMMA SecretsAgree ==
  ASSUME NEW k \in Keys, NEW u \in Users
  PROVE  /\ diffie_hellman(KeypairOf(u).x25519, X25519Public(Draw(k, u)))
              = diffie_hellman(Draw(k, u), PublicsOf(u).x25519)
         /\ diffie_hellman(Draw(k, u), PublicsOf(u).x25519) # Zero
<1>1. /\ X25519Public(Draw(k, u)) # Zero /\ PublicsOf(u).x25519 # Zero
      /\ diffie_hellman(Draw(k, u), PublicsOf(u).x25519) # Zero
  BY ConstantsAssumption
<1>2. PublicsOf(u).x25519 = X25519Public(KeypairOf(u).x25519)
  BY KeypairFacts
<1>3. X25519Public(Draw(k, u)).of = Draw(k, u)
      /\ X25519Public(KeypairOf(u).x25519).of = KeypairOf(u).x25519
  BY DEF X25519Public, Point
<1> QED BY <1>1, <1>2, <1>3 DEF diffie_hellman

LEMMA WrapKeyNamesSecret ==
  ASSUME NEW a1, NEW b1, NEW c1, NEW d1, NEW e1, NEW a2, NEW b2, NEW c2, NEW d2, NEW e2,
         hybrid_wrap_key(a1, b1, c1, d1, e1) = hybrid_wrap_key(a2, b2, c2, d2, e2)
  PROVE  a1 = a2
<1>1. <<a1, b1, c1, d1, e1>> = <<a2, b2, c2, d2, e2>>
  BY DEF hybrid_wrap_key, hkdf_subkey
<1> QED BY <1>1

LEMMA SharedRowOpens ==
  ASSUME NEW k \in Keys, NEW u \in Users, NEW v \in Users
  PROVE  /\ v = u => open_row(SharedRow(k, u), v) = Ok(k)
         /\ v # u => ~ open_row(SharedRow(k, u), v).ok
<1>1. PICK r, pk, ct, kp : r = Draw(k, u) /\ pk = PublicsOf(u) /\ ct = KemCiphertext(pk.mlkem, r)
                           /\ kp = KeypairOf(v)
  OBVIOUS
<1>2. PICK key, row :
        /\ key = hybrid_wrap_key(KemSecret(pk.mlkem, ct), diffie_hellman(r, pk.x25519), ct,
                                 X25519Public(r), pk.x25519)
        /\ row = SharedRow(k, u)
  OBVIOUS
<1>3. row = [eph_pub_key |-> X25519Public(r), mlkem_ciphertext |-> ct,
             encrypted_vault_key |-> SealedRow(key, k)]
  BY <1>1, <1>2, SharedRowFacts
<1>4. X25519Public(r) # Null
  BY <1>1, ConstantsAssumption
<1>5. open_row(row, v) = unwrap_vault_key(row, kp)
  BY <1>1, <1>3, <1>4 DEF open_row
<1>6. PICK shared, again :
        /\ shared = diffie_hellman(kp.x25519, X25519Public(r))
        /\ again = hybrid_wrap_key(KemSecret(kp.mlkem, ct), shared, ct, X25519Public(r),
                                   public_keys(kp).x25519)
  OBVIOUS
<1>7. unwrap_vault_key(row, kp) =
        IF shared = Zero THEN Err("InvalidPublicKey")
        ELSE IF key = again THEN Ok(k) ELSE Err("KeyUnwrap")
  BY <1>3, <1>6 DEF unwrap_vault_key, was_contributory, mlkem_decapsulate, SealedRow
<1>8. CASE v = u
  <2>1. /\ shared = diffie_hellman(r, pk.x25519) /\ shared # Zero
        /\ public_keys(kp) = pk /\ kp.mlkem = pk.mlkem
    BY <1>1, <1>6, <1>8, SecretsAgree, KeypairFacts
  <2> QED BY <1>2, <1>5, <1>6, <1>7, <1>8, <2>1
<1>9. CASE v # u
  <2>1. kp.mlkem # pk.mlkem
    <3>1. kp.mlkem = hkdf_subkey(v, "evnx/mlkem768/v1")
          /\ pk.mlkem = hkdf_subkey(u, "evnx/mlkem768/v1")
      BY <1>1, KeypairFacts
    <3>2. hkdf_subkey(v, "evnx/mlkem768/v1").ikm = v /\ hkdf_subkey(u, "evnx/mlkem768/v1").ikm = u
      BY DEF hkdf_subkey
    <3> QED BY <1>9, <3>1, <3>2
  <2>2. KemSecret(kp.mlkem, ct) # KemSecret(pk.mlkem, ct)
    BY <2>1 DEF KemSecret
  <2>3. key # again
    <3>1. ASSUME hybrid_wrap_key(KemSecret(pk.mlkem, ct), diffie_hellman(r, pk.x25519), ct,
                                 X25519Public(r), pk.x25519)
                 = hybrid_wrap_key(KemSecret(kp.mlkem, ct), shared, ct, X25519Public(r),
                                   public_keys(kp).x25519)
          PROVE  FALSE
      <4>1. KemSecret(pk.mlkem, ct) = KemSecret(kp.mlkem, ct)
        BY ONLY <3>1, WrapKeyNamesSecret
      <4> QED BY <2>2, <4>1
    <3> QED BY <1>2, <1>6, <3>1
  <2> QED BY <1>2, <1>5, <1>7, <1>9, <2>3, OkFacts
<1> QED BY <1>8, <1>9, <1>2

(* A wrap that is made is made for the keys the user published. *)
LEMMA WrapForFacts ==
  ASSUME NEW k \in Keys, NEW u \in Users, NEW spoilt \in SUBSET Columns,
         WrapFor(k, u, spoilt).ok
  PROVE  WrapFor(k, u, spoilt).val = SharedRow(k, u)
<1>1. PICK pk : pk = ServedFor(u, spoilt)
  OBVIOUS
<1>2. WrapFor(k, u, spoilt) = wrap_vault_key_for_user(k, pk, Draw(k, u))
  BY <1>1 DEF WrapFor
<1>3. "x25519" \notin spoilt
  <2>1. ASSUME pk.x25519 = Zero
        PROVE  ~ wrap_vault_key_for_user(k, pk, Draw(k, u)).ok
    BY <2>1 DEF wrap_vault_key_for_user, diffie_hellman, was_contributory, Err
  <2> QED BY <1>1, <1>2, <2>1 DEF ServedFor
<1>4. "mlkem" \notin spoilt
  <2>1. ASSUME pk.mlkem = Malformed
        PROVE  ~ wrap_vault_key_for_user(k, pk, Draw(k, u)).ok
    BY <2>1 DEF wrap_vault_key_for_user, mlkem_encapsulate, Err
  <2> QED BY <1>1, <1>2, <2>1 DEF ServedFor
<1>5. pk = PublicsOf(u)
  BY <1>1, <1>3, <1>4 DEF ServedFor, PublicsOf, public_keys
<1> QED BY <1>2, <1>5 DEF SharedRow

(* Every row opens for one user, to one key. *)
LEMMA RowFacts ==
  ASSUME NEW row \in Row
  PROVE  \E k \in Keys, u \in Users :
           /\ Opens(row, u, k)
           /\ \A v \in Users : \A other : Opens(row, v, other) => v = u /\ other = k
<1>1. ASSUME NEW k \in Keys, NEW u \in Users, row = OwnRow(k, u)
      PROVE  /\ Opens(row, u, k)
             /\ \A v \in Users : \A other : Opens(row, v, other) => v = u /\ other = k
  BY <1>1, OwnRowOpens, OkFacts DEF Opens
<1>2. ASSUME NEW k \in Keys, NEW u \in Users, row = SharedRow(k, u)
      PROVE  /\ Opens(row, u, k)
             /\ \A v \in Users : \A other : Opens(row, v, other) => v = u /\ other = k
  BY <1>2, SharedRowOpens, OkFacts DEF Opens
<1> QED BY <1>1, <1>2 DEF Row

LEMMA NewRowFacts ==
  ASSUME NEW k \in Keys, NEW u \in Users, NEW row, row = OwnRow(k, u) \/ row = SharedRow(k, u)
  PROVE  /\ row \in Row
         /\ Opens(row, u, k)
         /\ \A v \in Users : \A other : Opens(row, v, other) => v = u /\ other = k
<1>1. row \in Row
  BY DEF Row
<1>2. Opens(row, u, k)
  BY OwnRowOpens, SharedRowOpens DEF Opens
<1> QED BY <1>1, <1>2, RowFacts
LEMMA OpenedFacts ==
  ASSUME NEW row \in Row, NEW u \in Users, open_row(row, u).ok
  PROVE  open_row(row, u).val \in Keys /\ Opens(row, u, open_row(row, u).val)
<1>1. ASSUME NEW k \in Keys, NEW v \in Users, row = OwnRow(k, v)
      PROVE  open_row(row, u) = Ok(k)
  BY <1>1, OwnRowOpens, OkFacts
<1>2. ASSUME NEW k \in Keys, NEW v \in Users, row = SharedRow(k, v)
      PROVE  open_row(row, u) = Ok(k)
  BY <1>2, SharedRowOpens
<1>3. PICK k \in Keys : open_row(row, u) = Ok(k)
  BY <1>1, <1>2 DEF Row
<1> QED BY <1>3, OkFacts DEF Opens

(* What a set of rows, each in its user's hands, gives. *)
LEMMA LockFacts ==
  ASSUME NEW us \in SUBSET Users, NEW rowOf, \A u \in us : rowOf[u] \in Row,
         NEW k \in Keys, \A u \in us : Opens(rowOf[u], u, k), us # {}
  PROVE  KeysIn({open_row(rowOf[u], u) : u \in us}) = {k}
<1>1. \A u \in us : open_row(rowOf[u], u) = Ok(k)
  BY DEF Opens
<1>2. {open_row(rowOf[u], u) : u \in us} = {Ok(k)}
  BY <1>1
<1> QED BY <1>2, OkFacts DEF KeysIn

LEMMA ReaderFacts ==
  ASSUME NEW rows \in SUBSET Row, NEW by, NEW k \in Keys, NEW u \in Users
  PROVE  ({other \in Keys : by[other] = u} \cup KeysIn({open_row(row, u) : row \in rows}))
            \cap {k} # {}
         <=> by[k] = u \/ \E row \in rows : Opens(row, u, k)
<1>1. k \in KeysIn({open_row(row, u) : row \in rows}) <=> \E row \in rows : Opens(row, u, k)
  <2>1. ASSUME k \in KeysIn({open_row(row, u) : row \in rows})
        PROVE  \E row \in rows : Opens(row, u, k)
    <3>1. PICK row \in rows : open_row(row, u).ok /\ open_row(row, u).val = k
      BY <2>1 DEF KeysIn
    <3> QED BY <3>1, OpenedFacts
  <2>2. ASSUME NEW row \in rows, Opens(row, u, k)
        PROVE  k \in KeysIn({open_row(r, u) : r \in rows})
    BY <2>2, OkFacts DEF KeysIn, Opens
  <2> QED BY <2>1, <2>2
<1> QED BY <1>1

(* Blobs. *)
LEMMA BlobFacts ==
  ASSUME NEW n \in Versions, NEW k \in Keys
  PROVE  /\ Sealed(n, k) \in Blob
         /\ \A other \in Keys :
              /\ Opened(Sealed(n, k), n, other) = IF other = k THEN Ok(Text) ELSE Err("Decryption")
              /\ reencrypt_vault(Sealed(n, k), k, other, vault_aad(Vault, n)) = Ok(Sealed(n, other))
BY OkFacts DEF Sealed, Opened, Blob, encrypt_vault, decrypt_vault, vault_aad, reencrypt_vault

(* Re-sealing a stored blob can only give the next one of the batch. *)
LEMMA MovedFacts ==
  ASSUME NEW n \in Versions, NEW k \in Keys, NEW old, NEW new,
         reencrypt_vault(Sealed(n, k), old, new, vault_aad(Vault, n)).ok
  PROVE  reencrypt_vault(Sealed(n, k), old, new, vault_aad(Vault, n)).val = Sealed(n, new)
BY OkFacts DEF Sealed, Blob, encrypt_vault, decrypt_vault, vault_aad, reencrypt_vault

-----------------------------------------------------------------------------
LEMMA WalkFacts ==
  ASSUME TypeOK, NEW a \in Users, walk[a] # NoWalk
  PROVE  /\ walk[a] \in Walk
         /\ walk[a].new \in Keys /\ walk[a].roster \in SUBSET Users
         /\ walk[a].upto \in 0..MaxVersion /\ walk[a].batch \in Seq(Blob)
BY DEF TypeOK, Walk

LEMMA HandleFacts ==
  ASSUME TypeOK, NEW a \in Users, handle[a] # NoHandle
  PROVE  handle[a] \in Handle /\ handle[a].key \in Keys /\ handle[a].row \in Row
BY DEF TypeOK, Handle

LEMMA MemberFacts ==
  ASSUME TypeOK
  PROVE  /\ Roster \subseteq Users
         /\ \A u \in Roster : members[u] \in Row
BY DEF TypeOK, Roster

(* A handle whose row is the present one holds the members' key. *)
LEMMA CurrentFacts ==
  ASSUME SharingInv, NEW a \in Users, handle[a] # NoHandle, IsCurrent(a), NEW k \in Keys,
         \A u \in Roster : Opens(members[u], u, k)
  PROVE  a \in Roster /\ handle[a].key = k
<1>1. TypeOK /\ HandlesOpened
  BY DEF SharingInv
<1>2. a \in Roster /\ handle[a].row = members[a]
  BY DEF IsCurrent, Roster
<1>3. Opens(members[a], a, handle[a].key)
  BY <1>1, <1>2 DEF HandlesOpened
<1> QED BY <1>2, <1>3, OkFacts DEF Opens

(* The key of a walk is in nobody's handle. *)
LEMMA WalkKeyIsNew ==
  ASSUME HandlesOpened, WalksAreFresh, NEW a \in Users, walk[a] # NoWalk,
         NEW u \in Users, handle[u] # NoHandle
  PROVE  handle[u].key # walk[a].new
BY DEF HandlesOpened, WalksAreFresh

(* The rows of a finished re-key. *)
NewRow(a, u) == IF u = a THEN OwnRow(walk[a].new, u) ELSE SharedRow(walk[a].new, u)

LEMMA NewRowsOpen ==
  ASSUME TypeOK, NEW a \in Users, walk[a] # NoWalk, NEW u \in walk[a].roster
  PROVE  /\ NewRow(a, u) \in Row
         /\ Opens(NewRow(a, u), u, walk[a].new)
         /\ \A v \in Users : \A other :
              Opens(NewRow(a, u), v, other) => v = u /\ other = walk[a].new
<1>1. walk[a].new \in Keys /\ u \in Users
  BY WalkFacts
<1>2. NewRow(a, u) = OwnRow(walk[a].new, u) \/ NewRow(a, u) = SharedRow(walk[a].new, u)
  BY DEF NewRow
<1> QED BY <1>1, <1>2, NewRowFacts

LEMMA RowsForFacts ==
  ASSUME TypeOK, NEW a \in Users, walk[a] # NoWalk, NEW spoilt \in Answers(a),
         Made(RowsFor(a, spoilt))
  PROVE  /\ DOMAIN RowsFor(a, spoilt) = walk[a].roster
         /\ \A u \in walk[a].roster : RowsFor(a, spoilt)[u].val = NewRow(a, u)
<1>1. DOMAIN RowsFor(a, spoilt) = walk[a].roster
  BY DEF RowsFor
<1>2. ASSUME NEW u \in walk[a].roster
      PROVE  RowsFor(a, spoilt)[u].val = NewRow(a, u)
  <2>1. u \in Users /\ walk[a].new \in Keys /\ spoilt[u] \in SUBSET Columns
    BY WalkFacts DEF Answers
  <2>2. RowsFor(a, spoilt)[u].ok
    BY <1>1 DEF Made
  <2>3. CASE u = a
    BY <2>3, OkFacts DEF RowsFor, NewRow
  <2>4. CASE u # a
    <3>1. RowsFor(a, spoilt)[u] = WrapFor(walk[a].new, u, spoilt[u])
      BY <2>4 DEF RowsFor
    <3> QED BY <2>1, <2>2, <2>4, <3>1, WrapForFacts DEF NewRow
  <2> QED BY <2>3, <2>4
<1> QED BY <1>1, <1>2

-----------------------------------------------------------------------------
LEMMA ShareFacts ==
  ASSUME TypeOK, NEW a \in Users, NEW u \in Users, Share(a, u)
  PROVE  /\ handle[a] # NoHandle /\ handle[a].key \in Keys
         /\ \E row \in Row :
              /\ Opens(row, u, handle[a].key)
              /\ \A v \in Users : \A other :
                   Opens(row, v, other) => v = u /\ other = handle[a].key
              /\ uploaded' = uploaded \cup {row}
              /\ \/ members' = members
                 \/ IsCurrent(a) /\ members' = [members EXCEPT ![u] = row]
         /\ UNCHANGED <<store, handle, walk, keyBy>>
<1>1. handle[a] # NoHandle /\ handle[a].key \in Keys
  BY HandleFacts DEF Share
<1>2. PICK row : row = SharedRow(handle[a].key, u)
  OBVIOUS
<1>3. PICK spoilt \in SUBSET Columns :
        LET made == WrapFor(handle[a].key, u, spoilt)
        IN  /\ made.ok
            /\ uploaded' = uploaded \cup {made.val}
            /\ members' = IF IsCurrent(a) /\ members[u] = NoRow
                          THEN [members EXCEPT ![u] = made.val]
                          ELSE members
  BY DEF Share
<1>4. WrapFor(handle[a].key, u, spoilt).val = row
  BY <1>1, <1>2, <1>3, WrapForFacts
<1>5. /\ row \in Row /\ Opens(row, u, handle[a].key)
      /\ \A v \in Users : \A other : Opens(row, v, other) => v = u /\ other = handle[a].key
  BY <1>1, <1>2, NewRowFacts
<1>6. UNCHANGED <<store, handle, walk, keyBy>>
  BY DEF Share
<1> QED BY <1>1, <1>3, <1>4, <1>5, <1>6

(* A re-key that is taken, and one that is not: refused, or given up for   *)
(* want of a wrap, when nothing was sent.                                  *)
LEMMA SubmitFacts ==
  ASSUME TypeOK, NEW a \in Users, SubmitRekey(a)
  PROVE  \E sent \in SUBSET walk[a].roster :
           /\ walk[a] # NoWalk /\ Len(walk[a].batch) = walk[a].upto
           /\ uploaded' = uploaded \cup {NewRow(a, u) : u \in sent}
           /\ walk' = [walk EXCEPT ![a] = NoWalk]
           /\ UNCHANGED keyBy
           /\ \/ /\ TakesRekey(a) /\ sent = walk[a].roster
                 /\ store' = walk[a].batch
                 /\ members' = [u \in Users |-> IF u \in walk[a].roster THEN NewRow(a, u)
                                                                       ELSE NoRow]
                 /\ \/ UNCHANGED handle
                    \/ handle' = [handle EXCEPT ![a] =
                                    [key |-> walk[a].new, row |-> NewRow(a, a)]]
              \/ UNCHANGED <<store, members, handle>>
<1>1. /\ walk[a] # NoWalk /\ Len(walk[a].batch) = walk[a].upto
      /\ walk' = [walk EXCEPT ![a] = NoWalk] /\ UNCHANGED keyBy
  BY DEF SubmitRekey
<1>2. CASE UNCHANGED <<store, members, handle, uploaded>>
  BY <1>1, <1>2
<1>3. ASSUME NEW spoilt \in Answers(a), Made(RowsFor(a, spoilt)), Uploads(RowsFor(a, spoilt)),
             \/ /\ TakesRekey(a)
                /\ Replaces(a, RowsFor(a, spoilt))
                /\ handle' \in {handle, [handle EXCEPT ![a] =
                                [key |-> walk[a].new, row |-> RowsFor(a, spoilt)[a].val]]}
             \/ UNCHANGED <<store, members, handle>>
      PROVE  /\ uploaded' = uploaded \cup {NewRow(a, u) : u \in walk[a].roster}
             /\ \/ /\ TakesRekey(a)
                   /\ store' = walk[a].batch
                   /\ members' = [u \in Users |-> IF u \in walk[a].roster THEN NewRow(a, u)
                                                                         ELSE NoRow]
                   /\ \/ UNCHANGED handle
                      \/ handle' = [handle EXCEPT ![a] =
                                      [key |-> walk[a].new, row |-> NewRow(a, a)]]
                \/ UNCHANGED <<store, members, handle>>
  <2>1. /\ DOMAIN RowsFor(a, spoilt) = walk[a].roster
        /\ \A u \in walk[a].roster : RowsFor(a, spoilt)[u].val = NewRow(a, u)
    BY <1>1, <1>3, RowsForFacts
  <2>2. uploaded' = uploaded \cup {NewRow(a, u) : u \in walk[a].roster}
    BY <1>3, <2>1 DEF Uploads
  <2>3. TakesRekey(a) => a \in walk[a].roster
    BY DEF TakesRekey, IsCurrent, Roster
  <2> QED BY <1>3, <2>1, <2>2, <2>3 DEF Replaces
<1>4. CASE \E spoilt \in Answers(a) :
             /\ Made(RowsFor(a, spoilt)) /\ Uploads(RowsFor(a, spoilt))
             /\ \/ /\ TakesRekey(a)
                   /\ Replaces(a, RowsFor(a, spoilt))
                   /\ handle' \in {handle, [handle EXCEPT ![a] =
                                   [key |-> walk[a].new, row |-> RowsFor(a, spoilt)[a].val]]}
                \/ UNCHANGED <<store, members, handle>>
  <2>1. PICK sent : sent = walk[a].roster
    OBVIOUS
  <2> QED BY <1>1, <1>3, <1>4, <2>1
<1> QED BY <1>2, <1>4 DEF SubmitRekey

LEMMA RekeyVersionFacts ==
  ASSUME SharingInv, NEW a \in Users, RekeyVersion(a)
  PROVE  LET n == Len(walk[a].batch) + 1
         IN  /\ walk[a] # NoWalk
             /\ n \in Versions /\ n <= walk[a].upto
             /\ \/ walk' = [walk EXCEPT ![a].batch = Append(@, Sealed(n, walk[a].new))]
                \/ walk' = [walk EXCEPT ![a] = NoWalk]
             /\ UNCHANGED <<store, members, handle, keyBy, uploaded>>
<1>1. TypeOK /\ WalksAreInOrder /\ OneKey
  BY DEF SharingInv
<1>2. PICK n : n = Len(walk[a].batch) + 1
  OBVIOUS
<1>3. /\ walk[a] # NoWalk /\ Len(walk[a].batch) < walk[a].upto
      /\ UNCHANGED <<store, members, handle, keyBy, uploaded>>
  BY DEF RekeyVersion
<1>4. walk[a].batch \in Seq(Blob) /\ walk[a].upto \in 0..MaxVersion /\ walk[a].upto <= Len(store)
  BY <1>1, <1>3, WalkFacts DEF WalksAreInOrder
<1>5. n \in Versions /\ n <= walk[a].upto /\ n \in DOMAIN store
  BY <1>1, <1>2, <1>3, <1>4, ConstantsAssumption DEF Versions, TypeOK
<1>6. PICK k \in Keys : store[n] = Sealed(n, k)
  BY <1>1, <1>5 DEF OneKey
<1>7. PICK moved : moved = reencrypt_vault(store[n], handle[a].key, walk[a].new,
                                           vault_aad(Vault, n))
  OBVIOUS
<1>8. moved.ok => moved.val = Sealed(n, walk[a].new)
  BY <1>5, <1>6, <1>7, MovedFacts
<1>9. walk' = IF moved.ok
              THEN [walk EXCEPT ![a].batch = Append(@, moved.val)]
              ELSE [walk EXCEPT ![a] = NoWalk]
  BY <1>2, <1>7 DEF RekeyVersion
<1> QED BY <1>2, <1>3, <1>5, <1>8, <1>9

-----------------------------------------------------------------------------
LEMMA InitHolds ==
  ASSUME Init
  PROVE  SharingInv
<1> PICK row : row = OwnRow(FirstKey, Creator)
  OBVIOUS
<1>1. /\ row \in Row /\ Opens(row, Creator, FirstKey)
      /\ \A v \in Users : \A other : Opens(row, v, other) => v = Creator /\ other = FirstKey
  BY ConstantsAssumption, NewRowFacts
<1>2. uploaded = {row} /\ store = <<>> /\ Creator \in Users /\ FirstKey \in Keys
  BY ConstantsAssumption DEF Init
<1>3. TypeOK
  BY <1>1, <1>2, ConstantsAssumption DEF Init, TypeOK
<1>4. row # NoRow /\ Roster = {Creator} /\ members[Creator] = row
  BY <1>1, <1>2, ConstantsAssumption DEF Init, Roster
<1>5. OneKey
  BY <1>1, <1>2, <1>4 DEF OneKey
<1>6. MembersUploaded
  BY <1>2, <1>4 DEF MembersUploaded
<1>7. KeysAreDrawn
  <2>1. keyBy[FirstKey] = Creator /\ Creator # Nobody
    BY <1>2, ConstantsAssumption DEF Init
  <2> QED BY <1>1, <1>2, <2>1 DEF KeysAreDrawn
<1>8. HandlesOpened /\ WalksAreFresh /\ WalksAreInOrder
  BY DEF Init, HandlesOpened, WalksAreFresh, WalksAreInOrder
<1> QED BY <1>3, <1>5, <1>6, <1>7, <1>8 DEF SharingInv

LEMMA TypesKeep ==
  ASSUME SharingInv, [Next]_vars
  PROVE  TypeOK'
<1> USE ConstantsAssumption
<1>0. TypeOK
  BY DEF SharingInv
<1>1. ASSUME NEW u \in Users, OpenVault(u)
      PROVE  TypeOK'
  <2>1. members[u] \in Row
    BY <1>0, <1>1 DEF OpenVault, TypeOK
  <2>2. open_row(members[u], u).val \in Keys
    BY <1>1, <2>1, OpenedFacts DEF OpenVault
  <2>3. [key |-> open_row(members[u], u).val, row |-> members[u]] \in Handle
    BY <2>1, <2>2 DEF Handle
  <2> QED BY <1>0, <1>1, <2>3 DEF OpenVault, TypeOK
<1>2. ASSUME NEW u \in Users, Push(u)
      PROVE  TypeOK'
  <2>1. handle[u].key \in Keys
    BY <1>0, <1>2, HandleFacts DEF Push
  <2>2. Len(store) \in Nat /\ Len(store) + 1 \in Versions
    BY <1>0, <1>2 DEF Push, TypeOK, Versions
  <2>3. Sealed(Len(store) + 1, handle[u].key) \in Blob
    BY <2>1, <2>2, BlobFacts
  <2>4. store' \in Seq(Blob) /\ Len(store') = Len(store) + 1
    BY <1>0, <1>2, <2>3 DEF Push, TypeOK
  <2> QED BY <1>0, <1>2, <2>2, <2>4 DEF Push, TypeOK
<1>3. ASSUME NEW a \in Users, NEW u \in Users, Share(a, u)
      PROVE  TypeOK'
  <2>1. PICK row \in Row : /\ uploaded' = uploaded \cup {row}
                           /\ \/ members' = members
                              \/ members' = [members EXCEPT ![u] = row]
    BY <1>0, <1>3, ShareFacts
  <2> QED BY <1>0, <1>3, <2>1 DEF Share, TypeOK
<1>4. ASSUME NEW a \in Users, NEW u \in Users, Remove(a, u)
      PROVE  TypeOK'
  BY <1>0, <1>4 DEF Remove, TypeOK
<1>5. ASSUME NEW a \in Users, NEW k \in Keys, StartRekey(a, k)
      PROVE  TypeOK'
  <2>1. <<>> \in Seq(Blob) /\ Len(store) \in 0..MaxVersion /\ Roster \in SUBSET Users
    BY <1>0 DEF TypeOK, Roster
  <2>2. [new |-> k, roster |-> Roster, upto |-> Len(store), batch |-> <<>>] \in Walk
    BY <2>1 DEF Walk
  <2> QED BY <1>0, <1>5, <2>2 DEF StartRekey, TypeOK
<1>6. ASSUME NEW a \in Users, RekeyVersion(a)
      PROVE  TypeOK'
  <2>1. PICK n : n = Len(walk[a].batch) + 1
    OBVIOUS
  <2>2. /\ walk[a] # NoWalk /\ n \in Versions
        /\ \/ walk' = [walk EXCEPT ![a].batch = Append(@, Sealed(n, walk[a].new))]
           \/ walk' = [walk EXCEPT ![a] = NoWalk]
        /\ UNCHANGED <<store, members, handle, keyBy, uploaded>>
    BY <1>6, <2>1, RekeyVersionFacts
  <2>3. walk[a] \in Walk /\ walk[a].new \in Keys /\ walk[a].batch \in Seq(Blob)
    BY <1>0, <2>2, WalkFacts
  <2>4. Append(walk[a].batch, Sealed(n, walk[a].new)) \in Seq(Blob)
    BY <2>2, <2>3, BlobFacts
  <2>5. [walk[a] EXCEPT !.batch = Append(@, Sealed(n, walk[a].new))] \in Walk
    BY <2>3, <2>4 DEF Walk
  <2>6. walk' \in [Users -> Walk \cup {NoWalk}]
    BY <1>0, <2>2, <2>5 DEF TypeOK
  <2> QED BY <1>0, <2>2, <2>6 DEF TypeOK
<1>7. ASSUME NEW a \in Users, SubmitRekey(a)
      PROVE  TypeOK'
  <2>1. PICK sent \in SUBSET walk[a].roster :
           /\ walk[a] # NoWalk /\ Len(walk[a].batch) = walk[a].upto
           /\ uploaded' = uploaded \cup {NewRow(a, u) : u \in sent}
           /\ walk' = [walk EXCEPT ![a] = NoWalk]
           /\ UNCHANGED keyBy
           /\ \/ /\ TakesRekey(a) /\ sent = walk[a].roster
                 /\ store' = walk[a].batch
                 /\ members' = [u \in Users |-> IF u \in walk[a].roster THEN NewRow(a, u)
                                                                       ELSE NoRow]
                 /\ \/ UNCHANGED handle
                    \/ handle' = [handle EXCEPT ![a] =
                                    [key |-> walk[a].new, row |-> NewRow(a, a)]]
              \/ UNCHANGED <<store, members, handle>>
    BY <1>0, <1>7, SubmitFacts
  <2>2. \A u \in walk[a].roster : NewRow(a, u) \in Row
    BY <1>0, <2>1, NewRowsOpen
  <2>3. uploaded' \subseteq Row
    BY <1>0, <2>1, <2>2 DEF TypeOK
  <2>4. walk' \in [Users -> Walk \cup {NoWalk}] /\ keyBy' \in [Keys -> Users \cup {Nobody}]
    BY <1>0, <2>1 DEF TypeOK
  <2>5. CASE UNCHANGED <<store, members, handle>>
    BY <1>0, <2>3, <2>4, <2>5 DEF TypeOK
  <2>6. CASE /\ TakesRekey(a)
             /\ store' = walk[a].batch
             /\ members' = [u \in Users |-> IF u \in walk[a].roster THEN NewRow(a, u) ELSE NoRow]
             /\ \/ UNCHANGED handle
                \/ handle' = [handle EXCEPT ![a] = [key |-> walk[a].new, row |-> NewRow(a, a)]]
    <3>1. a \in walk[a].roster /\ walk[a].upto = Len(store)
      BY <2>6 DEF TakesRekey, IsCurrent, Roster
    <3>2. [key |-> walk[a].new, row |-> NewRow(a, a)] \in Handle
      BY <1>0, <2>1, <2>2, <3>1, WalkFacts DEF Handle
    <3>3. handle' \in [Users -> Handle \cup {NoHandle}]
      BY <1>0, <2>6, <3>2 DEF TypeOK
    <3>4. members' \in [Users -> Row \cup {NoRow}]
      BY <2>2, <2>6
    <3>5. store' \in Seq(Blob) /\ Len(store') <= MaxVersion
      BY <1>0, <2>1, <2>6, <3>1, WalkFacts DEF TypeOK
    <3> QED BY <2>3, <2>4, <3>3, <3>4, <3>5 DEF TypeOK
  <2> QED BY <2>1, <2>5, <2>6
<1>8. ASSUME NEW u \in Users, Exit(u)
      PROVE  TypeOK'
  BY <1>0, <1>8 DEF Exit, TypeOK
<1>9. CASE UNCHANGED vars
  BY <1>0, <1>9 DEF vars, TypeOK
<1> QED BY <1>1, <1>2, <1>3, <1>4, <1>5, <1>6, <1>7, <1>8, <1>9 DEF Next

-----------------------------------------------------------------------------
(* What a taken re-key leaves. *)
LEMMA TakenFacts ==
  ASSUME SharingInv, NEW a \in Users, SubmitRekey(a), ~ UNCHANGED <<store, members, handle>>
  PROVE  /\ a \in Roster /\ Roster' = Roster /\ walk[a].roster = Roster
         /\ uploaded' = uploaded \cup {NewRow(a, u) : u \in Roster}
         /\ \A u \in Roster : members'[u] \in Row /\ Opens(members'[u], u, walk[a].new)
         /\ \A u \in Roster : members'[u] \in uploaded'
         /\ store' = walk[a].batch /\ Len(store') = Len(store)
         /\ \/ UNCHANGED handle
            \/ /\ handle'[a].row = members'[a] /\ handle'[a].key = walk[a].new
               /\ \A u \in Users \ {a} : handle'[u] = handle[u]
<1>0. TypeOK
  BY DEF SharingInv
<1>1. /\ walk[a] # NoWalk /\ Len(walk[a].batch) = walk[a].upto
      /\ uploaded' = uploaded \cup {NewRow(a, u) : u \in walk[a].roster}
      /\ TakesRekey(a)
      /\ store' = walk[a].batch
      /\ members' = [u \in Users |-> IF u \in walk[a].roster THEN NewRow(a, u) ELSE NoRow]
      /\ \/ UNCHANGED handle
         \/ handle' = [handle EXCEPT ![a] = [key |-> walk[a].new, row |-> NewRow(a, a)]]
  BY <1>0, SubmitFacts
<1>2. walk[a].roster = Roster /\ walk[a].upto = Len(store) /\ a \in Roster
  BY <1>1 DEF TakesRekey, IsCurrent, Roster
<1>3. \A u \in Roster : NewRow(a, u) \in Row /\ Opens(NewRow(a, u), u, walk[a].new)
  BY <1>0, <1>1, <1>2, NewRowsOpen
<1>4. \A u \in Users : members'[u] = IF u \in Roster THEN NewRow(a, u) ELSE NoRow
  BY <1>1, <1>2
<1>5. Roster' = Roster
  BY <1>3, <1>4, ConstantsAssumption DEF Roster
<1>6. \/ UNCHANGED handle
      \/ /\ handle'[a] = [key |-> walk[a].new, row |-> NewRow(a, a)]
         /\ \A u \in Users \ {a} : handle'[u] = handle[u]
  BY <1>0, <1>1 DEF TypeOK
<1>7. Roster \subseteq Users
  BY DEF Roster
<1> QED BY <1>1, <1>2, <1>3, <1>4, <1>5, <1>6, <1>7

LEMMA UploadedGrows ==
  ASSUME SharingInv, [Next]_vars
  PROVE  uploaded \subseteq uploaded'
<1>1. TypeOK
  BY DEF SharingInv
<1>2. \A a \in Users : SubmitRekey(a) => uploaded \subseteq uploaded'
  BY <1>1, SubmitFacts
<1>3. \A a \in Users, u \in Users : Share(a, u) => uploaded \subseteq uploaded'
  BY <1>1, ShareFacts
<1> QED
  BY <1>2, <1>3 DEF Next, vars, OpenVault, Push, Remove, StartRekey, RekeyVersion, Exit

LEMMA OneKeyKeeps ==
  ASSUME SharingInv, [Next]_vars
  PROVE  OneKey'
<1>0. TypeOK /\ OneKey /\ WalksAreInOrder
  BY DEF SharingInv
<1>1. PICK k \in Keys : /\ \A u \in Roster : Opens(members[u], u, k)
                        /\ \A n \in DOMAIN store : store[n] = Sealed(n, k)
  BY <1>0 DEF OneKey
<1>2. Roster # {} /\ members \in [Users -> Row \cup {NoRow}]
  BY <1>0 DEF OneKey, TypeOK
<1>3. CASE UNCHANGED <<members, store>>
  BY <1>0, <1>3 DEF OneKey, Roster
<1>4. ASSUME NEW u \in Users, Push(u)
      PROVE  OneKey'
  <2>1. handle[u].key = k
    BY <1>1, <1>4, CurrentFacts DEF Push
  <2>2. store \in Seq(Blob) /\ store' = Append(store, Sealed(Len(store) + 1, k))
    BY <1>0, <1>4, <2>1 DEF Push, TypeOK
  <2>3. \A n \in DOMAIN store' : store'[n] = Sealed(n, k)
    BY <1>1, <2>2
  <2> QED BY <1>1, <1>2, <1>4, <2>3 DEF OneKey, Push, Roster
<1>5. ASSUME NEW a \in Users, NEW u \in Users, Share(a, u)
      PROVE  OneKey'
  <2>1. PICK row \in Row :
           /\ Opens(row, u, handle[a].key)
           /\ handle[a] # NoHandle
           /\ \/ members' = members
              \/ IsCurrent(a) /\ members' = [members EXCEPT ![u] = row]
           /\ store' = store
    BY <1>0, <1>5, ShareFacts
  <2>2. CASE members' = members
    BY <1>3, <2>1, <2>2
  <2>3. CASE IsCurrent(a) /\ members' = [members EXCEPT ![u] = row]
    <3>1. Opens(row, u, k)
      BY <1>1, <2>1, <2>3, CurrentFacts
    <3>2. Roster' = Roster \cup {u} /\ \A v \in Roster' : Opens(members'[v], v, k)
      BY <1>1, <1>2, <2>3, <3>1, ConstantsAssumption DEF Roster
    <3> QED BY <1>1, <1>2, <2>1, <3>2 DEF OneKey
  <2> QED BY <2>1, <2>2, <2>3
<1>6. ASSUME NEW a \in Users, NEW u \in Users, Remove(a, u)
      PROVE  OneKey'
  <2>1. /\ members' = [members EXCEPT ![u] = NoRow] /\ store' = store
        /\ a \in Roster /\ u # a
    BY <1>6 DEF Remove, IsCurrent, Roster
  <2>2. a \in Roster' /\ \A v \in Roster' : v \in Roster /\ members'[v] = members[v]
    BY <1>2, <2>1 DEF Roster
  <2> QED BY <1>1, <2>1, <2>2 DEF OneKey
<1>7. ASSUME NEW a \in Users, SubmitRekey(a), ~ UNCHANGED <<store, members, handle>>
      PROVE  OneKey'
  <2>1. /\ Roster' = Roster
        /\ \A u \in Roster : Opens(members'[u], u, walk[a].new)
        /\ store' = walk[a].batch
    BY <1>7, TakenFacts
  <2>2. walk[a] # NoWalk
    BY <1>7 DEF SubmitRekey
  <2>3. walk[a].new \in Keys /\ \A n \in DOMAIN walk[a].batch :
                                   walk[a].batch[n] = Sealed(n, walk[a].new)
    BY <1>0, <2>2, WalkFacts DEF WalksAreInOrder
  <2> QED BY <1>2, <2>1, <2>3 DEF OneKey
<1> QED
  BY <1>3, <1>4, <1>5, <1>6, <1>7 DEF Next, vars, OpenVault, StartRekey, RekeyVersion, Exit

LEMMA MembersUploadedKeeps ==
  ASSUME SharingInv, [Next]_vars
  PROVE  MembersUploaded'
<1>0. TypeOK /\ MembersUploaded /\ members \in [Users -> Row \cup {NoRow}]
  BY DEF SharingInv, TypeOK
<1>1. CASE UNCHANGED members
  BY <1>0, <1>1, UploadedGrows DEF MembersUploaded, Roster
<1>2. ASSUME NEW a \in Users, NEW u \in Users, Share(a, u)
      PROVE  MembersUploaded'
  <2>1. PICK row \in Row : /\ uploaded' = uploaded \cup {row}
                           /\ \/ members' = members
                              \/ members' = [members EXCEPT ![u] = row]
    BY <1>0, <1>2, ShareFacts
  <2> QED BY <1>0, <2>1 DEF MembersUploaded, Roster
<1>3. ASSUME NEW a \in Users, NEW u \in Users, Remove(a, u)
      PROVE  MembersUploaded'
  BY <1>0, <1>3 DEF Remove, MembersUploaded, Roster
<1>4. ASSUME NEW a \in Users, SubmitRekey(a), ~ UNCHANGED <<store, members, handle>>
      PROVE  MembersUploaded'
  BY <1>4, TakenFacts DEF MembersUploaded
<1> QED
  BY <1>1, <1>2, <1>3, <1>4
     DEF Next, vars, OpenVault, Push, StartRekey, RekeyVersion, Exit

LEMMA HandlesOpenedKeeps ==
  ASSUME SharingInv, [Next]_vars
  PROVE  HandlesOpened'
<1>0. TypeOK /\ HandlesOpened /\ MembersUploaded /\ uploaded \subseteq uploaded'
  BY UploadedGrows DEF SharingInv
<1>1. CASE UNCHANGED handle
  BY <1>0, <1>1 DEF HandlesOpened
<1>2. ASSUME NEW u \in Users, OpenVault(u)
      PROVE  HandlesOpened'
  <2>1. members[u] \in Row /\ u \in Roster
    BY <1>0, <1>2 DEF OpenVault, TypeOK, Roster
  <2>2. Opens(members[u], u, open_row(members[u], u).val)
    BY <1>2, <2>1, OpenedFacts DEF OpenVault
  <2>3. handle' = [handle EXCEPT ![u] =
                     [key |-> open_row(members[u], u).val, row |-> members[u]]]
    BY <1>2 DEF OpenVault
  <2> QED BY <1>0, <2>1, <2>2, <2>3 DEF HandlesOpened, MembersUploaded, TypeOK
<1>3. ASSUME NEW a \in Users, SubmitRekey(a), ~ UNCHANGED <<store, members, handle>>
      PROVE  HandlesOpened'
  <2>1. CASE UNCHANGED handle
    BY <1>1, <2>1
  <2>2. CASE ~ UNCHANGED handle
    <3>1. /\ handle'[a].row \in uploaded' /\ Opens(handle'[a].row, a, handle'[a].key)
          /\ \A u \in Users \ {a} : handle'[u] = handle[u]
      BY <1>3, <2>2, TakenFacts
    <3> QED BY <1>0, <3>1 DEF HandlesOpened
  <2> QED BY <2>1, <2>2
<1>4. ASSUME NEW u \in Users, Exit(u)
      PROVE  HandlesOpened'
  BY <1>0, <1>4 DEF HandlesOpened, Exit, TypeOK
<1> QED
  BY <1>1, <1>2, <1>3, <1>4
     DEF Next, vars, Push, Share, Remove, StartRekey, RekeyVersion

LEMMA KeysAreDrawnKeeps ==
  ASSUME SharingInv, [Next]_vars
  PROVE  KeysAreDrawn'
<1>0. TypeOK /\ HandlesOpened /\ KeysAreDrawn /\ WalksAreFresh
  BY DEF SharingInv
<1>1. CASE UNCHANGED <<uploaded, keyBy>>
  BY <1>0, <1>1 DEF KeysAreDrawn
<1>2. ASSUME NEW a \in Users, NEW u \in Users, Share(a, u)
      PROVE  KeysAreDrawn'
  <2>1. PICK row \in Row :
           /\ \A v \in Users : \A other : Opens(row, v, other) => v = u /\ other = handle[a].key
           /\ uploaded' = uploaded \cup {row} /\ keyBy' = keyBy
           /\ handle[a] # NoHandle /\ handle[a].key \in Keys
    BY <1>0, <1>2, ShareFacts
  <2>2. keyBy[handle[a].key] # Nobody
    BY <1>0, <2>1 DEF HandlesOpened, KeysAreDrawn
  <2> QED BY <1>0, <2>1, <2>2 DEF KeysAreDrawn
<1>3. ASSUME NEW a \in Users, NEW k \in Keys, StartRekey(a, k)
      PROVE  KeysAreDrawn'
  <2>1. \A other \in Keys : keyBy[other] # Nobody => keyBy'[other] # Nobody
    BY <1>0, <1>3 DEF StartRekey, TypeOK
  <2>2. uploaded' = uploaded
    BY <1>3 DEF StartRekey
  <2> QED BY <1>0, <2>1, <2>2 DEF KeysAreDrawn
<1>4. ASSUME NEW a \in Users, SubmitRekey(a)
      PROVE  KeysAreDrawn'
  <2>1. PICK sent \in SUBSET walk[a].roster :
           /\ walk[a] # NoWalk /\ keyBy' = keyBy
           /\ uploaded' = uploaded \cup {NewRow(a, u) : u \in sent}
    BY <1>0, <1>4, SubmitFacts
  <2>2. \A u \in sent, v \in Users : \A other :
           Opens(NewRow(a, u), v, other) => other = walk[a].new
    BY <1>0, <2>1, NewRowsOpen
  <2>3. keyBy[walk[a].new] # Nobody
    BY <1>0, <2>1, ConstantsAssumption DEF WalksAreFresh
  <2> QED BY <1>0, <2>1, <2>2, <2>3 DEF KeysAreDrawn
<1> QED
  BY <1>1, <1>2, <1>3, <1>4 DEF Next, vars, OpenVault, Push, Remove, RekeyVersion, Exit

LEMMA WalksAreFreshKeeps ==
  ASSUME SharingInv, [Next]_vars
  PROVE  WalksAreFresh'
<1>0. /\ TypeOK /\ HandlesOpened /\ KeysAreDrawn /\ WalksAreFresh
      /\ walk \in [Users -> Walk \cup {NoWalk}] /\ handle \in [Users -> Handle \cup {NoHandle}]
  BY DEF SharingInv, TypeOK
<1>1. CASE UNCHANGED <<walk, handle, keyBy, uploaded>>
  BY <1>0, <1>1 DEF WalksAreFresh
<1>2. ASSUME NEW u \in Users, OpenVault(u)
      PROVE  WalksAreFresh'
  <2>1. /\ UNCHANGED <<walk, keyBy, uploaded>>
        /\ \A v \in Users \ {u} : handle'[v] = handle[v]
    BY <1>0, <1>2 DEF OpenVault
  <2>2. walk[u] = NoWalk
    BY <1>0, <1>2 DEF OpenVault, WalksAreFresh
  <2> QED BY <1>0, <2>1, <2>2 DEF WalksAreFresh
<1>3. ASSUME NEW a \in Users, NEW u \in Users, Share(a, u)
      PROVE  WalksAreFresh'
  <2>1. PICK row \in Row :
           /\ \A v \in Users : \A other : Opens(row, v, other) => v = u /\ other = handle[a].key
           /\ uploaded' = uploaded \cup {row} /\ UNCHANGED <<keyBy, walk, handle>>
           /\ handle[a] # NoHandle
    BY <1>0, <1>3, ShareFacts
  <2>2. ASSUME NEW b \in Users, walk[b] # NoWalk, NEW v \in Users
        PROVE  ~ Opens(row, v, walk[b].new)
    BY <1>0, <2>1, <2>2, WalkKeyIsNew
  <2> QED BY <1>0, <2>1, <2>2 DEF WalksAreFresh
<1>4. ASSUME NEW a \in Users, NEW k \in Keys, StartRekey(a, k)
      PROVE  WalksAreFresh'
  <2>1. /\ handle[a] # NoHandle /\ keyBy[k] = Nobody
        /\ keyBy' = [keyBy EXCEPT ![k] = a] /\ UNCHANGED <<handle, uploaded>>
        /\ walk' = [walk EXCEPT ![a] =
             [new |-> k, roster |-> Roster, upto |-> Len(store), batch |-> <<>>]]
    BY <1>4 DEF StartRekey
  <2>2. /\ walk'[a].new = k /\ keyBy'[k] = a
        /\ \A b \in Users \ {a} : walk'[b] = walk[b]
    BY <1>0, <2>1 DEF TypeOK
  <2>3. \A row \in uploaded, u \in Users : ~ Opens(row, u, k)
    BY <1>0, <2>1 DEF KeysAreDrawn
  <2>4. ASSUME NEW b \in Users \ {a}, walk[b] # NoWalk
        PROVE  keyBy'[walk[b].new] = b
    <3>1. keyBy[walk[b].new] = b /\ b # Nobody /\ walk[b].new \in Keys
      BY <1>0, <2>4, ConstantsAssumption, WalkFacts DEF WalksAreFresh
    <3> QED BY <1>0, <2>1, <3>1 DEF TypeOK
  <2> QED BY <1>0, <2>1, <2>2, <2>3, <2>4 DEF WalksAreFresh
<1>5. ASSUME NEW a \in Users, RekeyVersion(a)
      PROVE  WalksAreFresh'
  <2>1. PICK n : n = Len(walk[a].batch) + 1
    OBVIOUS
  <2>2. /\ walk[a] # NoWalk /\ UNCHANGED <<handle, keyBy, uploaded>>
        /\ \/ walk' = [walk EXCEPT ![a].batch = Append(@, Sealed(n, walk[a].new))]
           \/ walk' = [walk EXCEPT ![a] = NoWalk]
    BY <1>5, <2>1, RekeyVersionFacts
  <2>3. walk[a] \in Walk
    BY <1>0, <2>2, WalkFacts
  <2>4. walk'[a] = NoWalk \/ walk'[a].new = walk[a].new
    BY <1>0, <2>2, <2>3 DEF Walk
  <2>5. \A b \in Users \ {a} : walk'[b] = walk[b]
    BY <1>0, <2>2
  <2> QED BY <1>0, <2>2, <2>4, <2>5 DEF WalksAreFresh
<1>6. ASSUME NEW a \in Users, SubmitRekey(a)
      PROVE  WalksAreFresh'
  <2>1. PICK sent \in SUBSET walk[a].roster :
           /\ walk[a] # NoWalk /\ keyBy' = keyBy
           /\ uploaded' = uploaded \cup {NewRow(a, u) : u \in sent}
           /\ walk' = [walk EXCEPT ![a] = NoWalk]
           /\ \/ UNCHANGED handle
              \/ handle' = [handle EXCEPT ![a] = [key |-> walk[a].new, row |-> NewRow(a, a)]]
    BY <1>0, <1>6, SubmitFacts
  <2>2. \A u \in sent, v \in Users : \A other :
           Opens(NewRow(a, u), v, other) => other = walk[a].new
    BY <1>0, <2>1, NewRowsOpen
  <2>3. walk'[a] = NoWalk /\ \A b \in Users \ {a} : walk'[b] = walk[b] /\ handle'[b] = handle[b]
    BY <1>0, <2>1
  <2>4. ASSUME NEW b \in Users, walk'[b] # NoWalk
        PROVE  /\ handle'[b] # NoHandle
               /\ keyBy'[walk'[b].new] = b
               /\ \A row \in uploaded', u \in Users : ~ Opens(row, u, walk'[b].new)
    <3>1. b # a /\ walk'[b] = walk[b] /\ handle'[b] = handle[b] /\ walk[b] # NoWalk
      BY <2>3, <2>4
    <3>2. walk[b].new # walk[a].new
      BY <1>0, <2>1, <3>1 DEF WalksAreFresh
    <3>3. \A u \in sent, v \in Users : ~ Opens(NewRow(a, u), v, walk[b].new)
      BY <2>2, <3>2
    <3>4. \A row \in uploaded, v \in Users : ~ Opens(row, v, walk[b].new)
      BY <1>0, <3>1 DEF WalksAreFresh
    <3> QED BY <1>0, <2>1, <3>1, <3>3, <3>4 DEF WalksAreFresh
  <2> QED BY <2>4 DEF WalksAreFresh
<1>7. ASSUME NEW u \in Users, Exit(u)
      PROVE  WalksAreFresh'
  BY <1>0, <1>7 DEF WalksAreFresh, Exit
<1> QED
  BY <1>1, <1>2, <1>3, <1>4, <1>5, <1>6, <1>7 DEF Next, vars, Push, Remove

(* A push adds a version, and a re-key that is taken has as many as there  *)
(* are.                                                                    *)
LEMMA HistoryGrows ==
  ASSUME SharingInv, [Next]_vars
  PROVE  Len(store') >= Len(store) /\ Len(store') \in Nat
<1>0. store \in Seq(Blob) /\ Len(store) \in Nat
  BY DEF SharingInv, TypeOK
<1>1. ASSUME NEW a \in Users, SubmitRekey(a)
      PROVE  Len(store') = Len(store)
  BY <1>1, TakenFacts
<1>2. ASSUME NEW u \in Users, Push(u)
      PROVE  Len(store') = Len(store) + 1
  BY <1>0, <1>2 DEF Push
<1> QED
  BY <1>0, <1>1, <1>2 DEF Next, vars, OpenVault, Share, Remove, StartRekey, RekeyVersion, Exit

LEMMA WalksAreInOrderKeeps ==
  ASSUME SharingInv, [Next]_vars
  PROVE  WalksAreInOrder'
<1>0. /\ TypeOK /\ WalksAreInOrder /\ walk \in [Users -> Walk \cup {NoWalk}]
      /\ store \in Seq(Blob) /\ Len(store) \in Nat
  BY DEF SharingInv, TypeOK
<1>1. Len(store') >= Len(store) /\ Len(store') \in Nat
  BY HistoryGrows
<1>2. CASE UNCHANGED walk
  <2>1. \A a \in Users : walk[a] # NoWalk => walk[a].upto \in Nat
    BY <1>0, WalkFacts, ConstantsAssumption
  <2> QED BY <1>0, <1>1, <1>2, <2>1 DEF WalksAreInOrder
<1>3. ASSUME NEW a \in Users, walk'[a] = NoWalk, \A b \in Users \ {a} : walk'[b] = walk[b]
      PROVE  WalksAreInOrder'
  <2>1. \A b \in Users : walk[b] # NoWalk => walk[b].upto \in Nat
    BY <1>0, WalkFacts, ConstantsAssumption
  <2> QED BY <1>0, <1>1, <1>3, <2>1 DEF WalksAreInOrder
<1>4. ASSUME NEW a \in Users, NEW k \in Keys, StartRekey(a, k)
      PROVE  WalksAreInOrder'
  <2>1. /\ walk'[a] = [new |-> k, roster |-> Roster, upto |-> Len(store), batch |-> <<>>]
        /\ \A b \in Users \ {a} : walk'[b] = walk[b]
        /\ store' = store
    BY <1>0, <1>4 DEF StartRekey
  <2> QED BY <1>0, <2>1 DEF WalksAreInOrder
<1>5. ASSUME NEW a \in Users, RekeyVersion(a)
      PROVE  WalksAreInOrder'
  <2>1. PICK n : n = Len(walk[a].batch) + 1
    OBVIOUS
  <2>2. /\ walk[a] # NoWalk /\ store' = store /\ n \in Versions /\ n <= walk[a].upto
        /\ \/ walk' = [walk EXCEPT ![a].batch = Append(@, Sealed(n, walk[a].new))]
           \/ walk' = [walk EXCEPT ![a] = NoWalk]
    BY <1>5, <2>1, RekeyVersionFacts
  <2>3. /\ walk[a] \in Walk /\ walk[a].batch \in Seq(Blob) /\ walk[a].new \in Keys
        /\ Sealed(n, walk[a].new) \in Blob
    BY <1>0, <2>2, WalkFacts, BlobFacts
  <2>4. \A b \in Users \ {a} : walk'[b] = walk[b]
    BY <1>0, <2>2
  <2>5. CASE walk' = [walk EXCEPT ![a] = NoWalk]
    BY <1>0, <1>3, <2>4, <2>5
  <2>6. CASE walk' = [walk EXCEPT ![a].batch = Append(@, Sealed(n, walk[a].new))]
    <3>1. /\ walk'[a].new = walk[a].new /\ walk'[a].upto = walk[a].upto
          /\ walk'[a].batch = Append(walk[a].batch, Sealed(n, walk[a].new))
      BY <1>0, <2>3, <2>6 DEF Walk
    <3>2. /\ \A i \in DOMAIN walk'[a].batch : walk'[a].batch[i] = Sealed(i, walk'[a].new)
          /\ Len(walk'[a].batch) = n
      BY <1>0, <2>1, <2>2, <2>3, <3>1 DEF WalksAreInOrder
    <3> QED BY <1>0, <2>2, <2>4, <3>1, <3>2 DEF WalksAreInOrder
  <2> QED BY <2>2, <2>5, <2>6
<1>6. ASSUME NEW a \in Users, SubmitRekey(a) \/ Exit(a)
      PROVE  WalksAreInOrder'
  <2>1. walk' = [walk EXCEPT ![a] = NoWalk]
    BY <1>6 DEF SubmitRekey, Exit
  <2> QED BY <1>0, <1>3, <2>1
<1> QED
  BY <1>2, <1>4, <1>5, <1>6 DEF Next, vars, OpenVault, Push, Share, Remove

(* The inductive invariant. *)
THEOREM VaultSharingHolds == Spec => []SharingInv
<1>1. Init => SharingInv
  BY InitHolds
<1>2. SharingInv /\ [Next]_vars => SharingInv'
  BY TypesKeep, OneKeyKeeps, MembersUploadedKeeps, HandlesOpenedKeeps, KeysAreDrawnKeeps,
     WalksAreFreshKeeps, WalksAreInOrderKeeps DEF SharingInv
<1> QED BY <1>1, <1>2, PTL DEF Spec

(* Every variable of VaultSharing keeps its type: a re-key never stores    *)
(* what it did not recover, nor a row of another shape.                    *)
THEOREM SharingTypesHold == Spec => []TypeOK
<1>1. SharingInv => TypeOK
  BY DEF SharingInv
<1> QED BY <1>1, VaultSharingHolds, PTL

(* Every member can open the whole history, whoever was added, removed or  *)
(* re-keyed meanwhile (keypair.rs:445, vault.rs:219).                      *)
THEOREM MembersRead == Spec => []MembersOpenHistory
<1>1. SharingInv => MembersOpenHistory
  <2> SUFFICES ASSUME SharingInv PROVE MembersOpenHistory
    OBVIOUS
  <2>1. TypeOK /\ OneKey
    BY DEF SharingInv
  <2>2. PICK k \in Keys : /\ \A u \in Roster : Opens(members[u], u, k)
                          /\ \A n \in DOMAIN store : store[n] = Sealed(n, k)
    BY <2>1 DEF OneKey
  <2>3. DOMAIN store \subseteq Versions
    BY <2>1, ConstantsAssumption DEF TypeOK, Versions
  <2>4. \A n \in DOMAIN store, other \in Keys :
          Opened(store[n], n, other) = IF other = k THEN Ok(Text) ELSE Err("Decryption")
    BY <2>2, <2>3, BlobFacts
  <2> QED BY <2>2, <2>4 DEF MembersOpenHistory, Opens
<1> QED BY <1>1, VaultSharingHolds, PTL

-----------------------------------------------------------------------------
(* The abstract state, in the terms of the invariant. *)
KeyOfVault(k) ==
  /\ VaultKeys = {k}
  /\ keyBy[k] # Nobody
  /\ \A u \in Roster : Opens(members[u], u, k)
  /\ Readers = {u \in Users : keyBy[k] = u \/ \E row \in uploaded : Opens(row, u, k)}

LEMMA BarFacts == SharingInv => \E k \in Keys : KeyOfVault(k)
<1> SUFFICES ASSUME SharingInv PROVE \E k \in Keys : KeyOfVault(k)
  OBVIOUS
<1>1. TypeOK /\ OneKey /\ MembersUploaded /\ KeysAreDrawn
  BY DEF SharingInv
<1>2. PICK k \in Keys : \A u \in Roster : Opens(members[u], u, k)
  BY <1>1 DEF OneKey
<1>3. VaultKeys = {k}
  <2>1. /\ Roster \in SUBSET Users /\ Roster # {}
        /\ \A u \in Roster : members[u] \in Row
    BY <1>1, MemberFacts DEF OneKey
  <2> QED BY <1>2, <2>1, LockFacts DEF VaultKeys
<1>4. \A u \in Users : Reach(u) \cap {k} # {} <=>
                         keyBy[k] = u \/ \E row \in uploaded : Opens(row, u, k)
  BY <1>1, ReaderFacts DEF Reach, TypeOK
<1>5. Readers = {u \in Users : keyBy[k] = u \/ \E row \in uploaded : Opens(row, u, k)}
  BY <1>3, <1>4 DEF Readers
<1>6. keyBy[k] # Nobody
  BY <1>1, <1>2 DEF OneKey, MembersUploaded, KeysAreDrawn, Roster
<1> QED BY <1>2, <1>3, <1>5, <1>6 DEF KeyOfVault

LEMMA BarFactsNext == SharingInv' => (\E k \in Keys : KeyOfVault(k))'
BY BarFacts, PTL

LEMMA InitRefines ==
  ASSUME Init
  PROVE  Access!Init
<1>1. SharingInv
  BY InitHolds
<1>2. PICK k \in Keys : KeyOfVault(k)
  BY <1>1, BarFacts
<1>3. PICK row : row = OwnRow(FirstKey, Creator)
  OBVIOUS
<1>4. /\ row \in Row /\ Opens(row, Creator, FirstKey)
      /\ \A v \in Users : \A other : Opens(row, v, other) => v = Creator /\ other = FirstKey
  BY <1>3, ConstantsAssumption, NewRowFacts
<1>5. uploaded = {row} /\ Roster = {Creator} /\ members[Creator] = row
  BY <1>3, <1>4, ConstantsAssumption DEF Init, Roster
<1>6. k = FirstKey
  BY <1>2, <1>4, <1>5, ConstantsAssumption DEF KeyOfVault
<1>7. keyBy[k] = Creator
  BY <1>6, ConstantsAssumption DEF Init
<1>8. Readers = {Creator}
  BY <1>2, <1>4, <1>5, <1>6, <1>7, ConstantsAssumption DEF KeyOfVault
<1> QED BY <1>2, <1>5, <1>8 DEF Access!Init, KeyOfVault

(* Nothing of the abstract state moves. *)
LEMMA SameBars ==
  ASSUME UNCHANGED <<members, uploaded, keyBy>>
  PROVE  UNCHANGED <<Roster, Readers, VaultKeys>>
BY DEF Roster, Readers, Reach, VaultKeys

LEMMA StepRefines ==
  ASSUME SharingInv, SharingInv', [Next]_vars
  PROVE  [Access!Next]_<<Roster, Readers, VaultKeys>>
<1>0. /\ TypeOK /\ HandlesOpened /\ KeysAreDrawn /\ WalksAreFresh /\ MembersUploaded
      /\ members \in [Users -> Row \cup {NoRow}]
  BY DEF SharingInv, TypeOK
<1>1. PICK k \in Keys : KeyOfVault(k)
  BY BarFacts
<1>2. PICK j \in Keys : /\ VaultKeys' = {j}
                        /\ \A u \in Roster' : Opens(members'[u], u, j)
                        /\ Readers' = {u \in Users : keyBy'[j] = u \/
                                                     \E row \in uploaded' : Opens(row, u, j)}
  BY BarFactsNext DEF KeyOfVault
<1>3. Roster # {} /\ Roster' # {}
  BY DEF SharingInv, OneKey
<1>4. ASSUME NEW u \in Roster, u \in Roster', members'[u] = members[u]
      PROVE  j = k
  BY <1>1, <1>2, <1>4, OkFacts DEF KeyOfVault, Opens
<1>5. CASE UNCHANGED <<members, uploaded, keyBy>>
  BY <1>5, SameBars
<1>6. ASSUME NEW a \in Users, NEW u \in Users, Share(a, u)
      PROVE  [Access!Next]_<<Roster, Readers, VaultKeys>>
  <2>1. PICK row \in Row :
           /\ handle[a] # NoHandle
           /\ Opens(row, u, handle[a].key)
           /\ \A v \in Users : \A other : Opens(row, v, other) => v = u /\ other = handle[a].key
           /\ uploaded' = uploaded \cup {row} /\ keyBy' = keyBy
           /\ \/ members' = members
              \/ IsCurrent(a) /\ members' = [members EXCEPT ![u] = row]
    BY <1>0, <1>6, ShareFacts
  <2>2. Roster' \in {Roster, Roster \cup {u}}
    BY <1>0, <2>1, ConstantsAssumption DEF Roster
  <2>3. j = k
    <3>1. CASE members' = members
      BY <1>3, <1>4, <3>1 DEF Roster
    <3>2. CASE IsCurrent(a) /\ members' = [members EXCEPT ![u] = row]
      <4>1. a \in Roster /\ a # u
        BY <1>6, <3>2 DEF IsCurrent, Roster, Share
      <4>2. members'[a] = members[a] /\ a \in Roster'
        BY <1>0, <3>2, <4>1 DEF Roster
      <4> QED BY <1>4, <4>1, <4>2
    <3> QED BY <2>1, <3>1, <3>2
  <2>4. CASE handle[a].key = k
    <3>1. Readers' = Readers \cup {u}
      BY <1>1, <1>2, <2>1, <2>3, <2>4 DEF KeyOfVault
    <3> QED BY <1>1, <1>2, <2>2, <2>3, <3>1 DEF Access!Next, Access!Share, KeyOfVault
  <2>5. CASE handle[a].key # k
    <3>1. Readers' = Readers
      BY <1>1, <1>2, <2>1, <2>3, <2>5 DEF KeyOfVault
    <3>2. ~ IsCurrent(a)
      BY <1>1, <2>1, <2>5, CurrentFacts DEF KeyOfVault
    <3>3. Roster' = Roster
      BY <2>1, <3>2 DEF Roster
    <3> QED BY <1>1, <1>2, <2>3, <3>1, <3>3 DEF KeyOfVault
  <2> QED BY <2>4, <2>5
<1>7. ASSUME NEW a \in Users, NEW u \in Users, Remove(a, u)
      PROVE  [Access!Next]_<<Roster, Readers, VaultKeys>>
  <2>1. /\ members' = [members EXCEPT ![u] = NoRow] /\ UNCHANGED <<uploaded, keyBy>>
        /\ a \in Roster /\ u # a
    BY <1>7 DEF Remove, IsCurrent, Roster
  <2>2. Roster' = Roster \ {u} /\ a \in Roster' /\ members'[a] = members[a]
    BY <1>0, <2>1 DEF Roster
  <2>3. j = k
    BY <1>4, <2>1, <2>2
  <2>4. Readers' = Readers /\ VaultKeys' = VaultKeys
    BY <1>1, <1>2, <2>1, <2>3 DEF KeyOfVault
  <2> QED BY <1>3, <2>2, <2>4 DEF Access!Next, Access!Remove
<1>8. ASSUME NEW a \in Users, NEW new \in Keys, StartRekey(a, new)
      PROVE  [Access!Next]_<<Roster, Readers, VaultKeys>>
  <2>1. /\ UNCHANGED <<members, uploaded>> /\ keyBy[new] = Nobody
        /\ keyBy' = [keyBy EXCEPT ![new] = a]
    BY <1>8 DEF StartRekey
  <2>2. Roster' = Roster /\ j = k
    BY <1>3, <1>4, <2>1 DEF Roster
  <2>3. keyBy'[k] = keyBy[k]
    BY <1>0, <1>1, <2>1 DEF TypeOK, KeyOfVault
  <2> QED BY <1>1, <1>2, <2>1, <2>2, <2>3 DEF KeyOfVault
<1>9. ASSUME NEW a \in Users, SubmitRekey(a)
      PROVE  [Access!Next]_<<Roster, Readers, VaultKeys>>
  <2>1. PICK sent \in SUBSET walk[a].roster :
           /\ walk[a] # NoWalk /\ keyBy' = keyBy
           /\ uploaded' = uploaded \cup {NewRow(a, u) : u \in sent}
    BY <1>0, <1>9, SubmitFacts
  <2>2. \A u \in walk[a].roster, v \in Users : \A other :
           Opens(NewRow(a, u), v, other) => v = u /\ other = walk[a].new
    BY <1>0, <2>1, NewRowsOpen
  <2>3. /\ k # walk[a].new
        /\ keyBy[walk[a].new] = a
        /\ \A row \in uploaded, u \in Users : ~ Opens(row, u, walk[a].new)
    BY <1>0, <1>1, <1>3, <2>1 DEF KeyOfVault, WalksAreFresh, MembersUploaded, Roster
  <2>4. CASE UNCHANGED <<store, members, handle>>
    <3>1. Roster' = Roster /\ j = k
      BY <1>3, <1>4, <2>4 DEF Roster
    <3>2. Readers' = Readers
      BY <1>1, <1>2, <2>1, <2>2, <2>3, <3>1 DEF KeyOfVault
    <3> QED BY <1>1, <1>2, <3>1, <3>2 DEF KeyOfVault
  <2>5. CASE ~ UNCHANGED <<store, members, handle>>
    <3>1. /\ a \in Roster /\ Roster' = Roster /\ Roster \subseteq Users
          /\ \A u \in Roster : Opens(members'[u], u, walk[a].new) /\ members'[u] \in uploaded'
          /\ uploaded' = uploaded \cup {NewRow(a, u) : u \in Roster}
      BY <1>9, <2>5, TakenFacts DEF Roster
    <3>2. j = walk[a].new
      BY <1>2, <1>3, <3>1, OkFacts DEF Opens
    <3>3. walk[a].roster = Roster
      BY <1>9, <2>5, TakenFacts
    <3>4. ASSUME NEW u \in Users
          PROVE  u \in Readers' <=> u \in Roster
      <4>1. u \in Readers' <=> a = u \/ \E row \in uploaded' : Opens(row, u, walk[a].new)
        BY <1>2, <2>1, <2>3, <3>2
      <4>2. ASSUME NEW row \in uploaded', Opens(row, u, walk[a].new)
            PROVE  u \in Roster
        <5>1. row \notin uploaded
          BY <2>3, <4>2
        <5>2. PICK v \in walk[a].roster : row = NewRow(a, v)
          BY <3>1, <3>3, <4>2, <5>1
        <5> QED BY <2>2, <3>3, <4>2, <5>2
      <4>3. ASSUME u \in Roster
            PROVE  \E row \in uploaded' : Opens(row, u, walk[a].new)
        BY <3>1, <4>3
      <4> QED BY <3>1, <4>1, <4>2, <4>3
    <3>5. Readers' = Roster
      BY <1>2, <3>1, <3>4
    <3>6. VaultKeys' \in (SUBSET Keys) \ {VaultKeys}
      BY <1>1, <1>2, <2>3, <3>2 DEF KeyOfVault
    <3> QED BY <3>1, <3>5, <3>6 DEF Access!Next, Access!Rekey
  <2> QED BY <2>4, <2>5
<1> QED
  BY <1>5, <1>6, <1>7, <1>8, <1>9 DEF Next, vars, OpenVault, Push, RekeyVersion, Exit

(* Removal and re-key together revoke, for any number of users, keys and   *)
(* versions (vault.rs:239, CHANGELOG.md:16-20).                            *)
THEOREM SharingImplementsAccessList == Spec => ImplementsAccessList
<1>1. Init => Access!Init
  BY InitRefines
<1>2. SharingInv /\ SharingInv' /\ [Next]_vars => [Access!Next]_<<Roster, Readers, VaultKeys>>
  BY StepRefines
<1> QED
  BY <1>1, <1>2, VaultSharingHolds, PTL DEF Spec, ImplementsAccessList, Access!Spec

(* Every member can read; and what a new key for the vault means. *)
MembersIn == Roster \subseteq Readers

NewLockRevokes == [][VaultKeys' # VaultKeys => Readers' = Roster']_vars

(* What the refinement gives: who is a member can read, at every moment,   *)
(* also in the middle of somebody's re-key (vault.rs:219).                 *)
THEOREM MembersAreReaders == Spec => []MembersIn
<1>1. Access!Init => MembersIn
  BY DEF Access!Init, MembersIn
<1>2. MembersIn /\ [Access!Next]_<<Roster, Readers, VaultKeys>>
        => MembersIn'
  BY DEF MembersIn, Access!Next, Access!Share, Access!Remove, Access!Rekey
<1>3. Access!Spec => []MembersIn
  BY <1>1, <1>2, PTL DEF Access!Spec
<1> QED BY <1>3, SharingImplementsAccessList, PTL DEF ImplementsAccessList

(* Whenever the key of the vault changes, exactly the members of that      *)
(* moment can get the new one, out of everything anybody ever uploaded or  *)
(* kept (vault.rs:239).                                                    *)
THEOREM RekeyRevokes == Spec => NewLockRevokes
<1>1. ASSUME SharingInv, SharingInv', [Next]_vars
      PROVE  VaultKeys' # VaultKeys => Readers' = Roster'
  <2>1. [Access!Next]_<<Roster, Readers, VaultKeys>>
    BY <1>1, StepRefines
  <2> QED BY <2>1 DEF Access!Next, Access!Share, Access!Remove, Access!Rekey
<1> QED BY <1>1, VaultSharingHolds, PTL DEF Spec, NewLockRevokes
=============================================================================
