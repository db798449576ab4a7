-------------------------- MODULE VaultHistory_proofs --------------------------
(***************************************************************************)
(* Proofs about VaultHistory, for any sets of accounts, devices, vaults,   *)
(* keys and texts and any bound on versions.                               *)
(***************************************************************************)
EXTENDS VaultHistory, TLAPS

(* What the crate's operations return. *)
LEMMA DecryptFacts ==
  ASSUME NEW blob \in Blob, NEW key, NEW aad, decrypt_vault(blob, key, aad).ok
  PROVE  /\ blob.intact /\ blob.key = key /\ blob.aad = aad
         /\ decrypt_vault(blob, key, aad).val = blob.text
BY DEF decrypt_vault, Ok, Err, Blob

LEMMA EncryptType ==
  ASSUME NEW key \in Keys, NEW v \in Vaults, NEW n \in Versions, NEW text \in Texts
  PROVE  encrypt_vault(text, key, vault_aad(v, n)) \in Blob
BY DEF encrypt_vault, vault_aad, Blob

LEMMA ReencryptFacts ==
  ASSUME NEW blob \in Blob, NEW old, NEW new, NEW aad,
         reencrypt_vault(blob, old, new, aad).ok
  PROVE  /\ blob.key = old /\ blob.aad = aad
         /\ reencrypt_vault(blob, old, new, aad).val
              = [key |-> new, aad |-> aad, text |-> blob.text, intact |-> TRUE]
BY DEF reencrypt_vault, decrypt_vault, encrypt_vault, Ok, Err

LEMMA UnwrapFacts ==
  ASSUME NEW row \in Row, NEW mk, unwrap_vault_key_with_master_key(row, mk).ok
  PROVE  /\ row.intact
         /\ row.under.ikm = mk /\ row.under.info = HKDF_INFO_VAULT_KEY_WRAP_MK
         /\ unwrap_vault_key_with_master_key(row, mk).val = row.msg
BY DEF unwrap_vault_key_with_master_key, hkdf_subkey, Ok, Err, Row

LEMMA WrapFacts ==
  ASSUME NEW k \in Keys, NEW a \in Accounts
  PROVE  /\ wrap_vault_key_with_master_key(k, a) \in Row
         /\ wrap_vault_key_with_master_key(k, a).msg = k
         /\ wrap_vault_key_with_master_key(k, a).under.ikm = a
BY DEF wrap_vault_key_with_master_key, SealedRow, hkdf_subkey, Row, Subkey

(* Records of the declared types. *)
LEMMA RecordTypes ==
  /\ \A v \in Vaults, k \in Keys, h \in 0..MaxVersion, row \in Row :
       /\ [vault |-> v, key |-> k, head |-> h, row |-> row] \in Handle
       /\ [vault |-> v, key |-> k, head |-> h, row |-> row] # NoHandle
  /\ \A h \in Handle : /\ h.vault \in Vaults /\ h.key \in Keys
                       /\ h.head \in 0..MaxVersion /\ h.row \in Row
  /\ \A k \in Keys, n \in 0..MaxVersion, b \in Seq(Blob) :
       /\ [new |-> k, upto |-> n, batch |-> b] \in Walk
       /\ [new |-> k, upto |-> n, batch |-> b] # NoWalk
  /\ \A w \in Walk : w.new \in Keys /\ w.upto \in 0..MaxVersion /\ w.batch \in Seq(Blob)
  /\ \A row \in Row : row.under.ikm \in Accounts /\ row.msg \in Keys \cup Accounts
  /\ \A b \in Blob : /\ b.key \in Keys /\ b.text \in Texts
                     /\ b.aad[1] \in Vaults /\ b.aad[2] \in Versions
BY ConstantsAssumption DEF Handle, Walk, Blob, Row, Subkey

(* What the server serves has the right shape; an undamaged copy was       *)
(* uploaded, and a faithful server's is the one it stores.                 *)
LEMMA ServedRowFacts ==
  ASSUME TypeOK, WrappedRowsAreOwn, NEW v \in Vaults, NEW row \in ServedRows(v)
  PROVE  row \in Row /\ (row.intact => row \in wrapped)
<1> DEFINE S == IF Faithful THEN {member[v]} \ {NoRow} ELSE wrapped
<1>1. S \subseteq wrapped /\ wrapped \subseteq Row
  BY DEF TypeOK, WrappedRowsAreOwn
<1>2. row \in S \/ \E s \in S : row = Altered(s)
  BY DEF ServedRows, OrDamaged
<1>3. CASE row \in S
  BY <1>1, <1>3
<1>4. CASE \E s \in S : row = Altered(s)
  BY <1>1, <1>4 DEF Altered, Row
<1> QED BY <1>2, <1>3, <1>4

LEMMA ServedBlobFacts ==
  ASSUME TypeOK, BlobsWerePushed, NEW v \in Vaults, NEW n \in Versions,
         NEW blob \in ServedBlobs(v, n)
  PROVE  /\ blob \in Blob
         /\ WasPushed(blob)
         /\ Faithful => n \in DOMAIN store[v] /\ blob.text = store[v][n].text
<1> DEFINE S == IF Faithful THEN {store[v][i] : i \in DOMAIN store[v] \cap {n}} ELSE sealed
<1>1. /\ S \subseteq sealed /\ sealed \subseteq Blob
      /\ Faithful => \A s \in S : n \in DOMAIN store[v] /\ s = store[v][n]
  BY DEF TypeOK, BlobsWerePushed
<1>2. PICK s \in S : blob = s \/ blob = Altered(s)
  BY DEF ServedBlobs, OrDamaged
<1>3. /\ blob \in Blob /\ blob.key = s.key /\ blob.aad = s.aad /\ blob.text = s.text
  BY <1>1, <1>2 DEF Altered, Blob
<1> QED BY <1>1, <1>3 DEF BlobsWerePushed, WasPushed

(* No step takes back an upload, a push or the account of a key. *)
LEMMA StepsOnlyAdd ==
  ASSUME TypeOK, [Next]_vars
  PROVE  /\ sealed \subseteq sealed' /\ wrapped \subseteq wrapped'
         /\ pushed \subseteq pushed'
         /\ \A k \in Keys : keyBy[k] # Nobody => keyBy'[k] = keyBy[k]
BY DEF TypeOK, Next, vars, CreateVault, OpenVault, SealNext, PushStored, PushRefused,
       Pull, StartRekey, RekeyVersion, SubmitRekey, Exit, generate, server, device

-----------------------------------------------------------------------------
(* The first inductive invariant: types, and where keys and texts come     *)
(* from.  The type of a handle's key rests on Provenance: a row of the     *)
(* right shape that holds the account's seed must fail to unwrap.          *)
ProvenanceInv == TypeOK /\ Provenance

LEMMA BlobTypes ==
  ASSUME TypeOK
  PROVE  /\ \A blob \in sealed : blob \in Blob
         /\ \A v \in Vaults : \A n \in DOMAIN store[v] : store[v][n] \in Blob
         /\ \A d \in Devices : walk[d] # NoWalk =>
              \A i \in DOMAIN walk[d].batch : walk[d].batch[i] \in Blob
<1>1. ASSUME NEW d \in Devices, walk[d] # NoWalk, NEW i \in DOMAIN walk[d].batch
      PROVE  walk[d].batch[i] \in Blob
  BY <1>1, RecordTypes DEF TypeOK
<1>2. ASSUME NEW v \in Vaults, NEW n \in DOMAIN store[v]
      PROVE  store[v][n] \in Blob
  <2>1. store[v] \in Seq(Blob)
    BY DEF TypeOK, History
  <2> QED BY <2>1
<1> QED BY <1>1, <1>2 DEF TypeOK

(* What was known of a key or a blob before a step is still known after.   *)
LEMMA KnowledgeStays ==
  ASSUME ProvenanceInv, [Next]_vars
  PROVE  /\ \A row \in wrapped : RowIsOwn(row)'
         /\ \A blob \in Blob : WasPushed(blob) => WasPushed(blob)'
         /\ \A d \in Devices : handle[d] # NoHandle =>
              handle[d].key \in Keys /\ keyBy'[handle[d].key] = AccountOf[d]
         /\ \A d \in Devices : walk[d] # NoWalk =>
              walk[d].new \in Keys /\ keyBy'[walk[d].new] = AccountOf[d]
<1>1. /\ TypeOK /\ pushed \subseteq pushed'
      /\ \A k \in Keys : keyBy[k] \in Accounts => keyBy'[k] = keyBy[k]
  BY StepsOnlyAdd, ConstantsAssumption DEF ProvenanceInv
<1>2. ASSUME NEW row \in wrapped PROVE RowIsOwn(row)'
  <2>1. row \in Row /\ RowIsOwn(row) /\ row.under.ikm \in Accounts
    BY RecordTypes DEF ProvenanceInv, Provenance, WrappedRowsAreOwn, TypeOK
  <2> QED BY <1>1, <2>1 DEF RowIsOwn
<1>3. ASSUME NEW blob \in Blob, WasPushed(blob) PROVE WasPushed(blob)'
  <2>1. blob.key \in Keys /\ keyBy[blob.key] \in Accounts
    BY <1>1, <1>3, RecordTypes DEF WasPushed, TypeOK, Pushed
  <2> QED BY <1>1, <1>3, <2>1 DEF WasPushed
<1>4. \A d \in Devices : AccountOf[d] \in Accounts
  BY ConstantsAssumption
<1>5. ASSUME NEW d \in Devices, handle[d] # NoHandle
      PROVE  handle[d].key \in Keys /\ keyBy'[handle[d].key] = AccountOf[d]
  BY <1>1, <1>4, <1>5 DEF ProvenanceInv, Provenance, HandleKeyIsOwn
<1>6. ASSUME NEW d \in Devices, walk[d] # NoWalk
      PROVE  walk[d].new \in Keys /\ keyBy'[walk[d].new] = AccountOf[d]
  <2>1. walk[d] \in Walk
    BY <1>1, <1>6 DEF TypeOK
  <2> QED BY <1>1, <1>4, <1>6, <2>1, RecordTypes DEF ProvenanceInv, Provenance, WalkIsOwn
<1> QED BY <1>2, <1>3, <1>5, <1>6

LEMMA InitProvenance == Init => ProvenanceInv
<1> SUFFICES ASSUME Init PROVE ProvenanceInv
  OBVIOUS
<1>1. \A a \in Accounts :
        /\ encrypt_private_key(a, a) \in Row
        /\ encrypt_private_key(a, a).under.info # HKDF_INFO_VAULT_KEY_WRAP_MK
  BY DEF encrypt_private_key, SealedRow, hkdf_subkey, Row, Subkey,
         HKDF_INFO_VAULT_KEY_WRAP_MK, HKDF_INFO_PRIVATE_KEY_ENC
<1>2. <<>> \in History
  BY ConstantsAssumption DEF History
<1>3. TypeOK
  BY <1>1, <1>2, ConstantsAssumption DEF Init, TypeOK
<1>4. WrappedRowsAreOwn
  BY <1>1 DEF Init, WrappedRowsAreOwn, RowIsOwn
<1>5. HandleKeyIsOwn /\ WalkIsOwn /\ BlobsWerePushed
  BY DEF Init, HandleKeyIsOwn, WalkIsOwn, BlobsWerePushed
<1> QED BY <1>3, <1>4, <1>5 DEF ProvenanceInv, Provenance

LEMMA CreateVaultKeepsProvenance ==
  ASSUME ProvenanceInv, NEW d \in Devices, NEW v \in Vaults, NEW k \in Keys,
         CreateVault(d, v, k)
  PROVE  ProvenanceInv'
<1> DEFINE row == wrap_vault_key_with_master_key(k, AccountOf[d])
           h   == [vault |-> v, key |-> k, head |-> 0, row |-> row]
<1>1. /\ AccountOf[d] \in Accounts
      /\ row \in Row /\ row.msg = k /\ row.under.ikm = AccountOf[d]
  BY ConstantsAssumption, WrapFacts
<1>2. h \in Handle /\ h # NoHandle /\ h.key = k
  <2>1. 0 \in 0..MaxVersion
    BY ConstantsAssumption
  <2>2. h \in Handle
    BY <1>1, <2>1, RecordTypes
  <2>3. h # NoHandle
    BY <2>2, ConstantsAssumption
  <2> QED BY <2>2, <2>3
<1>3. /\ keyBy[k] = Nobody /\ keyBy' = [keyBy EXCEPT ![k] = AccountOf[d]]
      /\ member' = [member EXCEPT ![v] = row]
      /\ wrapped' = wrapped \cup {row}
      /\ handle[d] = NoHandle /\ handle' = [handle EXCEPT ![d] = h]
      /\ UNCHANGED <<store, walk, sealed, pushed, got>>
  BY DEF CreateVault, generate
<1> HIDE DEF row, h
<1>4. TypeOK'
  BY <1>1, <1>2, <1>3 DEF ProvenanceInv, TypeOK
<1>5. [Next]_vars
  BY DEF Next
<1>6. WrappedRowsAreOwn'
  <2>1. RowIsOwn(row)'
    BY <1>1, <1>3 DEF RowIsOwn, ProvenanceInv, TypeOK
  <2> QED BY <1>3, <1>5, <2>1, KnowledgeStays
          DEF ProvenanceInv, Provenance, TypeOK, WrappedRowsAreOwn
<1>7. HandleKeyIsOwn'
  BY <1>2, <1>3, <1>5, KnowledgeStays DEF ProvenanceInv, TypeOK, HandleKeyIsOwn
<1>8. WalkIsOwn'
  BY <1>2, <1>3, <1>5, KnowledgeStays DEF ProvenanceInv, Provenance, TypeOK, WalkIsOwn
<1>9. BlobsWerePushed'
  BY <1>3, <1>5, BlobTypes, KnowledgeStays DEF ProvenanceInv, Provenance, BlobsWerePushed
<1> QED BY <1>4, <1>6, <1>7, <1>8, <1>9 DEF ProvenanceInv, Provenance

LEMMA OpenVaultKeepsProvenance ==
  ASSUME ProvenanceInv, NEW d \in Devices, NEW v \in Vaults, OpenVault(d, v)
  PROVE  ProvenanceInv'
<1>1. PICK row \in ServedRows(v), n \in ServedHeads(v) :
        LET key == unwrap_vault_key_with_master_key(row, AccountOf[d])
        IN  /\ key.ok
            /\ handle' = [handle EXCEPT ![d] =
                 [vault |-> v, key |-> key.val, head |-> n, row |-> row]]
  BY DEF OpenVault
<1> DEFINE key == unwrap_vault_key_with_master_key(row, AccountOf[d])
           h   == [vault |-> v, key |-> key.val, head |-> n, row |-> row]
<1>2. row \in Row /\ (row.intact => row \in wrapped)
  BY ServedRowFacts DEF ProvenanceInv, Provenance
<1>3. /\ row.intact /\ key.val = row.msg
      /\ row.under.ikm = AccountOf[d] /\ row.under.info = HKDF_INFO_VAULT_KEY_WRAP_MK
  BY <1>1, <1>2, UnwrapFacts
<1>4. key.val \in Keys /\ keyBy[key.val] = AccountOf[d]
  BY <1>2, <1>3 DEF ProvenanceInv, Provenance, WrappedRowsAreOwn, RowIsOwn
<1>5. n \in 0..MaxVersion
  <2>1. store[v] \in Seq(Blob) /\ Len(store[v]) <= MaxVersion
    BY DEF ProvenanceInv, TypeOK, History
  <2> QED BY <2>1, ConstantsAssumption DEF ServedHeads
<1>6. h \in Handle /\ h # NoHandle /\ h.key = key.val
  BY <1>2, <1>4, <1>5, RecordTypes
<1>7. /\ handle' = [handle EXCEPT ![d] = h] /\ handle[d] = NoHandle
      /\ UNCHANGED <<store, member, walk, keyBy, sealed, wrapped, pushed, got>>
  BY <1>1 DEF OpenVault, server
<1> HIDE DEF key, h
<1>8. TypeOK'
  BY <1>6, <1>7 DEF ProvenanceInv, TypeOK
<1>9. HandleKeyIsOwn'
  BY <1>4, <1>6, <1>7 DEF ProvenanceInv, Provenance, TypeOK, HandleKeyIsOwn
<1>10. WalkIsOwn'
  BY <1>6, <1>7 DEF ProvenanceInv, Provenance, TypeOK, WalkIsOwn
<1>11. WrappedRowsAreOwn' /\ BlobsWerePushed'
  BY <1>7 DEF ProvenanceInv, Provenance, WrappedRowsAreOwn, RowIsOwn, BlobsWerePushed,
              WasPushed
<1> QED BY <1>8, <1>9, <1>10, <1>11 DEF ProvenanceInv, Provenance

(* Both outcomes of a push: the new blob is what its key's account pushed. *)
LEMMA PushKeepsProvenance ==
  ASSUME ProvenanceInv, NEW d \in Devices, NEW t \in Texts,
         PushStored(d, t) \/ PushRefused(d, t)
  PROVE  ProvenanceInv'
<1>0. PICK h, blob, what :
        /\ h = handle[d] /\ blob = NextBlob(h, t)
        /\ what = [by |-> AccountOf[d], vault |-> h.vault, version |-> h.head + 1,
                   text |-> t]
  OBVIOUS
<1>1. /\ h # NoHandle /\ h.head < MaxVersion
      /\ sealed' = sealed \cup {blob} /\ pushed' = pushed \cup {what}
      /\ UNCHANGED <<member, walk, keyBy, wrapped, got>>
  BY <1>0 DEF PushStored, PushRefused, SealNext
<1>2. h \in Handle /\ h.vault \in Vaults /\ h.key \in Keys /\ h.head \in 0..MaxVersion
  BY <1>0, <1>1, RecordTypes DEF ProvenanceInv, TypeOK
<1>3. h.head + 1 \in Versions /\ h.head + 1 \in 0..MaxVersion
  BY <1>1, <1>2, ConstantsAssumption DEF Versions
<1>4. blob \in Blob /\ blob = [key |-> h.key, aad |-> <<h.vault, h.head + 1>>,
                               text |-> t, intact |-> TRUE]
  BY <1>0, <1>2, <1>3, EncryptType DEF NextBlob, encrypt_vault, vault_aad
<1>5. AccountOf[d] = keyBy[h.key] /\ AccountOf[d] \in Accounts
  BY <1>0, <1>1, ConstantsAssumption DEF ProvenanceInv, Provenance, HandleKeyIsOwn
<1>6. what \in Pushed /\ WasPushed(blob)'
  BY <1>0, <1>1, <1>2, <1>3, <1>4, <1>5 DEF Pushed, WasPushed
<1>7. /\ store' \in [Vaults -> History]
      /\ \A v \in Vaults : \A n \in DOMAIN store'[v] :
           store'[v][n] = blob \/ (n \in DOMAIN store[v] /\ store'[v][n] = store[v][n])
  <2>1. CASE UNCHANGED store
    BY <2>1 DEF ProvenanceInv, TypeOK
  <2>2. CASE /\ TakesPush(h) /\ store' = [store EXCEPT ![h.vault] = Append(@, blob)]
    <3>1. store[h.vault] \in Seq(Blob) /\ Len(store[h.vault]) = h.head
      BY <1>2, <2>2 DEF TakesPush, ProvenanceInv, TypeOK, History
    <3>2. Append(store[h.vault], blob) \in History
      BY <1>1, <1>2, <1>4, <3>1, ConstantsAssumption DEF History
    <3>3. store'[h.vault] = Append(store[h.vault], blob)
      BY <1>2, <2>2 DEF ProvenanceInv, TypeOK
    <3>4. \A n \in DOMAIN store'[h.vault] :
            \/ store'[h.vault][n] = blob
            \/ n \in DOMAIN store[h.vault] /\ store'[h.vault][n] = store[h.vault][n]
      BY <3>1, <3>3
    <3> QED BY <1>2, <2>2, <3>2, <3>4 DEF ProvenanceInv, TypeOK
  <2> QED BY <1>0, <2>1, <2>2 DEF PushStored, PushRefused
<1>8. /\ handle' \in [Devices -> Handle \cup {NoHandle}]
      /\ \A e \in Devices : /\ handle'[e] # NoHandle <=> handle[e] # NoHandle
                            /\ handle[e] # NoHandle => handle'[e].key = handle[e].key
  <2>1. CASE UNCHANGED handle
    BY <2>1 DEF ProvenanceInv, TypeOK
  <2>2. CASE handle' = [handle EXCEPT ![d].head = @ + 1]
    <3>1. [h EXCEPT !.head = @ + 1] \in Handle /\ [h EXCEPT !.head = @ + 1].key = h.key
      BY <1>2, <1>3 DEF Handle
    <3> QED BY <1>0, <1>1, <2>2, <3>1, ConstantsAssumption DEF ProvenanceInv, TypeOK
  <2> QED BY <1>0, <2>1, <2>2 DEF PushStored, PushRefused
<1>9. [Next]_vars /\ TypeOK /\ WalkIsOwn /\ BlobsWerePushed
  BY DEF Next, ProvenanceInv, Provenance
<1>10. TypeOK'
  BY <1>1, <1>4, <1>6, <1>7, <1>8 DEF ProvenanceInv, TypeOK
<1>11. WrappedRowsAreOwn'
  BY <1>1, <1>9, KnowledgeStays DEF ProvenanceInv, Provenance, WrappedRowsAreOwn
<1>12. HandleKeyIsOwn'
  BY <1>8, <1>9, KnowledgeStays DEF HandleKeyIsOwn
<1>13. WalkIsOwn'
  BY <1>1, <1>8, <1>9, KnowledgeStays DEF WalkIsOwn
<1>14. BlobsWerePushed'
  BY <1>1, <1>6, <1>7, <1>9, BlobTypes, KnowledgeStays DEF BlobsWerePushed
<1> QED BY <1>10, <1>11, <1>12, <1>13, <1>14 DEF ProvenanceInv, Provenance

LEMMA PullKeepsProvenance ==
  ASSUME ProvenanceInv, NEW d \in Devices, NEW n \in Versions, Pull(d, n)
  PROVE  ProvenanceInv' /\ PulledTextWasPushed'
<1>0. PICK h : h = handle[d]
  OBVIOUS
<1>1. PICK blob \in ServedBlobs(h.vault, n) :
        LET text == decrypt_vault(blob, h.key, vault_aad(h.vault, n))
        IN  got' = IF text.ok
                   THEN [to |-> d, vault |-> h.vault, version |-> n, text |-> text.val]
                   ELSE NoText
  BY <1>0 DEF Pull
<1>2. /\ h # NoHandle
      /\ UNCHANGED <<store, member, handle, walk, keyBy, sealed, wrapped, pushed>>
  BY <1>0 DEF Pull, server, device
<1>3. /\ h.vault \in Vaults /\ h.key \in Keys /\ keyBy[h.key] = AccountOf[d]
  BY <1>0, <1>2, RecordTypes DEF ProvenanceInv, Provenance, TypeOK, HandleKeyIsOwn
<1>4. blob \in Blob /\ WasPushed(blob)
  BY <1>3, ServedBlobFacts DEF ProvenanceInv, Provenance
<1> DEFINE text == decrypt_vault(blob, h.key, vault_aad(h.vault, n))
<1>5. ASSUME text.ok
      PROVE  /\ got' = [to |-> d, vault |-> h.vault, version |-> n, text |-> blob.text]
             /\ got' \in Read
             /\ [by |-> AccountOf[d], vault |-> h.vault, version |-> n,
                 text |-> blob.text] \in pushed
  <2>1. /\ blob.key = h.key /\ blob.aad = vault_aad(h.vault, n) /\ text.val = blob.text
    BY <1>4, <1>5, DecryptFacts
  <2>2. blob.aad[1] = h.vault /\ blob.aad[2] = n
    BY <2>1 DEF vault_aad
  <2>3. got' = [to |-> d, vault |-> h.vault, version |-> n, text |-> blob.text]
    BY <1>1, <1>5, <2>1
  <2>4. got' \in Read
    BY <1>3, <1>4, <2>3, RecordTypes DEF Read
  <2> QED BY <1>3, <1>4, <2>1, <2>2, <2>3, <2>4 DEF WasPushed
<1>6. ~ text.ok => got' = NoText
  BY <1>1
<1> HIDE DEF text
<1>7. TypeOK'
  BY <1>2, <1>5, <1>6 DEF ProvenanceInv, TypeOK
<1>8. Provenance'
  BY <1>2 DEF ProvenanceInv, Provenance, WrappedRowsAreOwn, RowIsOwn, HandleKeyIsOwn,
              WalkIsOwn, BlobsWerePushed, WasPushed
<1>9. PulledTextWasPushed'
  BY <1>2, <1>5, <1>6 DEF PulledTextWasPushed
<1> QED BY <1>7, <1>8, <1>9 DEF ProvenanceInv

LEMMA StartRekeyKeepsProvenance ==
  ASSUME ProvenanceInv, NEW d \in Devices, NEW k \in Keys, StartRekey(d, k)
  PROVE  ProvenanceInv'
<1>0. PICK n \in ServedHeads(handle[d].vault) :
        walk' = [walk EXCEPT ![d] = [new |-> k, upto |-> n, batch |-> <<>>]]
  BY DEF StartRekey
<1>1. /\ handle[d] # NoHandle /\ walk[d] = NoWalk
      /\ keyBy[k] = Nobody /\ keyBy' = [keyBy EXCEPT ![k] = AccountOf[d]]
      /\ UNCHANGED <<store, member, handle, sealed, wrapped, pushed, got>>
  BY DEF StartRekey, generate, server
<1>2. AccountOf[d] \in Accounts /\ handle[d].vault \in Vaults
  BY <1>1, RecordTypes, ConstantsAssumption DEF ProvenanceInv, TypeOK
<1>3. n \in 0..MaxVersion
  <2>1. store[handle[d].vault] \in Seq(Blob) /\ Len(store[handle[d].vault]) <= MaxVersion
    BY <1>2 DEF ProvenanceInv, TypeOK, History
  <2> QED BY <2>1, ConstantsAssumption DEF ServedHeads
<1>4. PICK w : w = [new |-> k, upto |-> n, batch |-> <<>>]
  OBVIOUS
<1>5. w \in Walk /\ w # NoWalk /\ w.new = k /\ Len(w.batch) <= w.upto /\ w.batch = <<>>
  <2>1. <<>> \in Seq(Blob) /\ Len(<<>>) = 0 /\ n >= 0
    BY <1>3
  <2> QED BY <1>3, <1>4, <2>1, RecordTypes
<1>6. walk' = [walk EXCEPT ![d] = w] /\ walk' \in [Devices -> Walk \cup {NoWalk}]
  BY <1>0, <1>4, <1>5 DEF ProvenanceInv, TypeOK
<1>7. [Next]_vars /\ TypeOK /\ WalkIsOwn /\ BlobsWerePushed /\ WrappedRowsAreOwn
  BY DEF Next, ProvenanceInv, Provenance
<1>8. TypeOK'
  BY <1>1, <1>2, <1>6 DEF ProvenanceInv, TypeOK
<1>9. WrappedRowsAreOwn'
  BY <1>1, <1>7, KnowledgeStays DEF WrappedRowsAreOwn
<1>10. HandleKeyIsOwn'
  BY <1>1, <1>7, KnowledgeStays DEF HandleKeyIsOwn
<1>11. WalkIsOwn'
  <2>1. keyBy'[k] = AccountOf[d]
    BY <1>1, <1>7 DEF TypeOK
  <2>2. \A e \in Devices : walk'[e] = IF e = d THEN w ELSE walk[e]
    BY <1>6, <1>7 DEF TypeOK
  <2> QED BY <1>1, <1>5, <1>7, <2>1, <2>2, KnowledgeStays DEF WalkIsOwn
<1>12. BlobsWerePushed'
  <2>1. \A e \in Devices : walk'[e] = IF e = d THEN w ELSE walk[e]
    BY <1>6, <1>7 DEF TypeOK
  <2> QED BY <1>1, <1>5, <1>7, <2>1, BlobTypes, KnowledgeStays DEF BlobsWerePushed
<1> QED BY <1>8, <1>9, <1>10, <1>11, <1>12 DEF ProvenanceInv, Provenance

(* The re-encrypted blob says what the served one said, under a key of the *)
(* same account.                                                           *)
LEMMA RekeyVersionKeepsProvenance ==
  ASSUME ProvenanceInv, NEW d \in Devices, RekeyVersion(d)
  PROVE  ProvenanceInv'
<1>0. PICK w, h, n, v : w = walk[d] /\ h = handle[d] /\ n = Len(w.batch) + 1 /\ v = h.vault
  OBVIOUS
<1>1. /\ w # NoWalk /\ Len(w.batch) < w.upto
      /\ UNCHANGED <<store, member, handle, keyBy, sealed, wrapped, pushed, got>>
  BY <1>0 DEF RekeyVersion, server
<1>2. PICK blob \in ServedBlobs(v, n) :
        LET moved == reencrypt_vault(blob, h.key, w.new, vault_aad(v, n))
        IN  walk' = IF moved.ok
                    THEN [walk EXCEPT ![d].batch = Append(@, moved.val)]
                    ELSE [walk EXCEPT ![d] = NoWalk]
  BY <1>0 DEF RekeyVersion
<1>3. /\ h # NoHandle /\ v \in Vaults /\ keyBy[h.key] = AccountOf[d]
  BY <1>0, <1>1, RecordTypes
  DEF ProvenanceInv, Provenance, TypeOK, HandleKeyIsOwn, WalkIsOwn
<1>4. /\ w \in Walk /\ w.new \in Keys /\ w.upto \in 0..MaxVersion /\ w.batch \in Seq(Blob)
      /\ keyBy[w.new] = AccountOf[d]
  BY <1>0, <1>1, RecordTypes DEF ProvenanceInv, Provenance, TypeOK, WalkIsOwn
<1>5. n \in Versions
  BY <1>0, <1>1, <1>4, ConstantsAssumption DEF Versions
<1>6. blob \in Blob /\ WasPushed(blob) /\ blob.text \in Texts
  BY <1>3, <1>5, ServedBlobFacts, RecordTypes DEF ProvenanceInv, Provenance
<1> DEFINE moved == reencrypt_vault(blob, h.key, w.new, vault_aad(v, n))
<1>7. CASE ~ moved.ok
  <2>1. \A e \in Devices : walk'[e] = IF e = d THEN NoWalk ELSE walk[e]
    BY <1>2, <1>7 DEF ProvenanceInv, TypeOK
  <2>2. TypeOK'
    BY <1>1, <1>2, <1>7 DEF ProvenanceInv, TypeOK
  <2> QED BY <1>1, <2>1, <2>2
          DEF ProvenanceInv, Provenance, WrappedRowsAreOwn, RowIsOwn, HandleKeyIsOwn,
              WalkIsOwn, BlobsWerePushed, WasPushed
<1>8. CASE moved.ok
  <2>1. PICK b : b = [key |-> w.new, aad |-> vault_aad(v, n), text |-> blob.text,
                      intact |-> TRUE]
    OBVIOUS
  <2>2. /\ moved.val = b /\ blob.key = h.key /\ blob.aad = vault_aad(v, n)
    BY <1>6, <1>8, <2>1, ReencryptFacts
  <2>3. b \in Blob
    BY <1>3, <1>4, <1>5, <1>6, <2>1, EncryptType DEF encrypt_vault
  <2>4. WasPushed(b)
    BY <1>3, <1>4, <1>6, <2>1, <2>2 DEF WasPushed, vault_aad
  <2>5. PICK x : x = [w EXCEPT !.batch = Append(w.batch, b)]
    OBVIOUS
  <2>6. /\ x.new = w.new /\ x.upto = w.upto /\ x.batch = Append(w.batch, b)
        /\ x \in Walk
    BY <1>4, <2>3, <2>5 DEF Walk
  <2>7. walk' = [walk EXCEPT ![d] = x]
    BY <1>0, <1>2, <1>8, <2>2, <2>5 DEF ProvenanceInv, TypeOK
  <2>8. TypeOK' /\ \A e \in Devices : walk'[e] = IF e = d THEN x ELSE walk[e]
    BY <1>1, <2>6, <2>7 DEF ProvenanceInv, TypeOK
  <2>9. Len(x.batch) <= x.upto
    BY <1>1, <1>4, <2>3, <2>6
  <2>10. WrappedRowsAreOwn' /\ HandleKeyIsOwn'
    BY <1>1 DEF ProvenanceInv, Provenance, WrappedRowsAreOwn, RowIsOwn, HandleKeyIsOwn
  <2>11. WalkIsOwn'
    BY <1>0, <1>1, <1>3, <1>4, <2>6, <2>8, <2>9 DEF ProvenanceInv, Provenance, WalkIsOwn
  <2>12. \A i \in DOMAIN x.batch : WasPushed(x.batch[i])
    <3>1. \A i \in DOMAIN w.batch : WasPushed(w.batch[i])
      BY <1>0, <1>1 DEF ProvenanceInv, Provenance, BlobsWerePushed
    <3> QED BY <1>4, <2>3, <2>4, <2>6, <3>1
  <2>13. BlobsWerePushed'
    BY <1>1, <2>8, <2>12 DEF ProvenanceInv, Provenance, BlobsWerePushed, WasPushed
  <2> QED BY <2>8, <2>10, <2>11, <2>13 DEF ProvenanceInv, Provenance
<1> QED BY <1>7, <1>8

(* An accepted re-key moves the batch, whose blobs were pushed, and the    *)
(* freshly wrapped key into the server; a refused one only uploads them.   *)
LEMMA SubmitRekeyKeepsProvenance ==
  ASSUME ProvenanceInv, NEW d \in Devices, SubmitRekey(d)
  PROVE  ProvenanceInv'
<1>0. PICK w, h, row : /\ w = walk[d] /\ h = handle[d]
                       /\ row = wrap_vault_key_with_master_key(w.new, AccountOf[d])
  OBVIOUS
<1> DEFINE moved == {w.batch[i] : i \in DOMAIN w.batch}
<1>1. /\ w # NoWalk /\ Len(w.batch) = w.upto
      /\ sealed' = sealed \cup moved /\ wrapped' = wrapped \cup {row}
      /\ walk' = [walk EXCEPT ![d] = NoWalk]
      /\ UNCHANGED <<keyBy, pushed, got>>
  BY <1>0 DEF SubmitRekey
<1>2. /\ h # NoHandle /\ h \in Handle /\ h.vault \in Vaults
  BY <1>0, <1>1, RecordTypes DEF ProvenanceInv, Provenance, TypeOK, WalkIsOwn
<1>3. /\ w \in Walk /\ w.new \in Keys /\ w.upto \in 0..MaxVersion /\ w.batch \in Seq(Blob)
      /\ keyBy[w.new] = AccountOf[d] /\ AccountOf[d] \in Accounts
  BY <1>0, <1>1, RecordTypes, ConstantsAssumption
  DEF ProvenanceInv, Provenance, TypeOK, WalkIsOwn
<1>4. /\ row \in Row /\ row.msg = w.new /\ row.under.ikm = AccountOf[d] /\ row # NoRow
  BY <1>0, <1>3, WrapFacts, ConstantsAssumption
<1>5. /\ moved \subseteq Blob
      /\ \A blob \in moved : WasPushed(blob)
  BY <1>0, <1>1, <1>3 DEF ProvenanceInv, Provenance, BlobsWerePushed
<1>6. \A e \in Devices : walk'[e] = IF e = d THEN NoWalk ELSE walk[e]
  BY <1>1 DEF ProvenanceInv, TypeOK
<1>7. /\ store' \in [Vaults -> History] /\ member' \in [Vaults -> Row \cup {NoRow}]
      /\ handle' \in [Devices -> Handle \cup {NoHandle}]
      /\ \A v \in Vaults : member'[v] \in wrapped' \cup {NoRow}
      /\ \A v \in Vaults : \A n \in DOMAIN store'[v] : store'[v][n] \in sealed'
      /\ \A e \in Devices :
           \/ handle'[e] = handle[e]
           \/ e = d /\ handle'[e] # NoHandle /\ handle'[e].key = w.new
  <2>1. CASE UNCHANGED <<server, handle>>
    BY <1>1, <2>1
    DEF server, ProvenanceInv, Provenance, TypeOK, WrappedRowsAreOwn, BlobsWerePushed
  <2>2. CASE /\ store' = [store EXCEPT ![h.vault] = w.batch]
             /\ member' = [member EXCEPT ![h.vault] = row]
             /\ \/ handle' = [handle EXCEPT ![d] =
                     [vault |-> h.vault, key |-> w.new, head |-> w.upto, row |-> row]]
                \/ UNCHANGED handle
    <3>1. w.batch \in History
      BY <1>1, <1>3, ConstantsAssumption DEF History
    <3>2. PICK g : g = [vault |-> h.vault, key |-> w.new, head |-> w.upto, row |-> row]
      OBVIOUS
    <3>3. g \in Handle /\ g # NoHandle /\ g.key = w.new
      BY <1>2, <1>3, <1>4, <3>2, RecordTypes
    <3>4. /\ store' \in [Vaults -> History] /\ member' \in [Vaults -> Row \cup {NoRow}]
          /\ handle' \in [Devices -> Handle \cup {NoHandle}]
      <4>1. handle' = handle \/ handle' = [handle EXCEPT ![d] = g]
        BY <2>2, <3>2
      <4> QED BY <1>4, <2>2, <3>1, <3>3, <4>1 DEF ProvenanceInv, TypeOK
    <3>5. \A v \in Vaults : member'[v] \in wrapped' \cup {NoRow}
      BY <1>1, <2>2 DEF ProvenanceInv, Provenance, TypeOK, WrappedRowsAreOwn
    <3>6. \A v \in Vaults : store'[v] = IF v = h.vault THEN w.batch ELSE store[v]
      BY <2>2 DEF ProvenanceInv, TypeOK
    <3>7. \A v \in Vaults : \A n \in DOMAIN store'[v] : store'[v][n] \in sealed'
      BY <1>1, <3>6 DEF ProvenanceInv, Provenance, BlobsWerePushed
    <3>8. \A e \in Devices :
            \/ handle'[e] = handle[e]
            \/ e = d /\ handle'[e] # NoHandle /\ handle'[e].key = w.new
      <4>1. handle' = handle \/ handle' = [handle EXCEPT ![d] = g]
        BY <2>2, <3>2
      <4> QED BY <3>3, <4>1 DEF ProvenanceInv, TypeOK
    <3> QED BY <3>4, <3>5, <3>7, <3>8
  <2> QED BY <1>0, <2>1, <2>2 DEF SubmitRekey
<1>8. /\ [Next]_vars /\ TypeOK /\ WalkIsOwn /\ BlobsWerePushed /\ WrappedRowsAreOwn
      /\ HandleKeyIsOwn
  BY DEF Next, ProvenanceInv, Provenance
<1>9. TypeOK'
  BY <1>1, <1>4, <1>5, <1>7, <1>8 DEF TypeOK
<1>10. WrappedRowsAreOwn'
  <2>1. RowIsOwn(row)'
    BY <1>1, <1>3, <1>4 DEF RowIsOwn
  <2> QED BY <1>1, <1>7, <1>8, <2>1, KnowledgeStays DEF WrappedRowsAreOwn
<1>11. HandleKeyIsOwn'
  BY <1>1, <1>3, <1>7, <1>8 DEF HandleKeyIsOwn
<1>12. WalkIsOwn'
  BY <1>1, <1>6, <1>7, <1>8 DEF WalkIsOwn
<1>13. BlobsWerePushed'
  <2>1. \A blob : WasPushed(blob) => WasPushed(blob)'
    BY <1>1 DEF WasPushed
  <2> QED BY <1>1, <1>5, <1>6, <1>7, <1>8, <2>1 DEF BlobsWerePushed
<1> QED BY <1>9, <1>10, <1>11, <1>12, <1>13 DEF ProvenanceInv, Provenance

LEMMA ExitKeepsProvenance ==
  ASSUME ProvenanceInv, NEW d \in Devices, Exit(d)
  PROVE  ProvenanceInv'
<1>1. /\ handle' = [handle EXCEPT ![d] = NoHandle] /\ walk' = [walk EXCEPT ![d] = NoWalk]
      /\ UNCHANGED <<store, member, keyBy, sealed, wrapped, pushed, got>>
  BY DEF Exit, server
<1>2. \A e \in Devices : /\ handle'[e] = IF e = d THEN NoHandle ELSE handle[e]
                         /\ walk'[e] = IF e = d THEN NoWalk ELSE walk[e]
  BY <1>1 DEF ProvenanceInv, TypeOK
<1>3. TypeOK'
  BY <1>1 DEF ProvenanceInv, TypeOK
<1>4. WrappedRowsAreOwn' /\ HandleKeyIsOwn' /\ WalkIsOwn'
  BY <1>1, <1>2
  DEF ProvenanceInv, Provenance, WrappedRowsAreOwn, RowIsOwn, HandleKeyIsOwn, WalkIsOwn
<1>5. BlobsWerePushed'
  <2>1. \A blob : WasPushed(blob) => WasPushed(blob)'
    BY <1>1 DEF WasPushed
  <2> QED BY <1>1, <1>2, <2>1 DEF ProvenanceInv, Provenance, BlobsWerePushed
<1> QED BY <1>3, <1>4, <1>5 DEF ProvenanceInv, Provenance

-----------------------------------------------------------------------------
(* Types, the provenance of keys and texts, and every pull returning what  *)
(* its own account pushed there, hold whatever the server serves.          *)
LEMMA StepProvenance ==
  ProvenanceInv /\ PulledTextWasPushed /\ [Next]_vars
    => ProvenanceInv' /\ PulledTextWasPushed'
<1> SUFFICES ASSUME ProvenanceInv, PulledTextWasPushed, [Next]_vars
             PROVE  ProvenanceInv' /\ PulledTextWasPushed'
  OBVIOUS
<1>1. got' = got => PulledTextWasPushed'
  BY StepsOnlyAdd DEF PulledTextWasPushed, ProvenanceInv
<1>2. ASSUME NEW d \in Devices, NEW v \in Vaults, NEW k \in Keys, CreateVault(d, v, k)
      PROVE  ProvenanceInv' /\ PulledTextWasPushed'
  BY <1>1, <1>2, CreateVaultKeepsProvenance DEF CreateVault
<1>3. ASSUME NEW d \in Devices, NEW v \in Vaults, OpenVault(d, v)
      PROVE  ProvenanceInv' /\ PulledTextWasPushed'
  BY <1>1, <1>3, OpenVaultKeepsProvenance DEF OpenVault
<1>4. ASSUME NEW d \in Devices, NEW t \in Texts, PushStored(d, t) \/ PushRefused(d, t)
      PROVE  ProvenanceInv' /\ PulledTextWasPushed'
  BY <1>1, <1>4, PushKeepsProvenance DEF PushStored, PushRefused, SealNext
<1>5. ASSUME NEW d \in Devices, NEW n \in Versions, Pull(d, n)
      PROVE  ProvenanceInv' /\ PulledTextWasPushed'
  BY <1>5, PullKeepsProvenance
<1>6. ASSUME NEW d \in Devices, NEW k \in Keys, StartRekey(d, k)
      PROVE  ProvenanceInv' /\ PulledTextWasPushed'
  BY <1>1, <1>6, StartRekeyKeepsProvenance DEF StartRekey
<1>7. ASSUME NEW d \in Devices, RekeyVersion(d)
      PROVE  ProvenanceInv' /\ PulledTextWasPushed'
  BY <1>1, <1>7, RekeyVersionKeepsProvenance DEF RekeyVersion
<1>8. ASSUME NEW d \in Devices, SubmitRekey(d)
      PROVE  ProvenanceInv' /\ PulledTextWasPushed'
  BY <1>1, <1>8, SubmitRekeyKeepsProvenance DEF SubmitRekey
<1>9. ASSUME NEW d \in Devices, Exit(d)
      PROVE  ProvenanceInv' /\ PulledTextWasPushed'
  BY <1>1, <1>9, ExitKeepsProvenance DEF Exit
<1>10. CASE UNCHANGED vars
  BY <1>1, <1>10
  DEF vars, ProvenanceInv, TypeOK, Provenance, WrappedRowsAreOwn, RowIsOwn,
      HandleKeyIsOwn, WalkIsOwn, BlobsWerePushed, WasPushed
<1> QED BY <1>2, <1>3, <1>4, <1>5, <1>6, <1>7, <1>8, <1>9, <1>10 DEF Next

THEOREM ProvenanceHolds == Spec => [](ProvenanceInv /\ PulledTextWasPushed)
<1>1. Init => ProvenanceInv /\ PulledTextWasPushed
  BY InitProvenance DEF Init, PulledTextWasPushed
<1> QED BY <1>1, StepProvenance, PTL DEF Spec

(* Every variable keeps its type in every reachable state. *)
THEOREM TypeCorrect == Spec => []TypeOK
BY ProvenanceHolds, PTL DEF ProvenanceInv

(* A pull returns only what the same account pushed as that version of     *)
(* that vault, for a server that may serve anything it ever received.      *)
THEOREM PullsAreAuthentic == Spec => []PulledTextWasPushed
BY ProvenanceHolds, PTL

(* A handle never holds a seed or another account's key. *)
THEOREM HandlesAreOwn == Spec => []HandleKeyIsOwn
BY ProvenanceHolds, PTL DEF ProvenanceInv, Provenance

=============================================================================
