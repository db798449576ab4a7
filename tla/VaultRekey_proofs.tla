-------------------------- MODULE VaultRekey_proofs ---------------------------
(***************************************************************************)
(* What a re-key preserves.  With a server that checks epochs the wrapped  *)
(* key it stores is the one and only key of the whole history.  With a     *)
(* faithful server the history is an append-only log of texts.             *)
(***************************************************************************)
EXTENDS VaultHistory_proofs

AlignedInv == ProvenanceInv /\ SlotsAreAligned /\ KeysFollowRows

LEMMA InitAligned == Init => SlotsAreAligned /\ KeysFollowRows
BY DEF Init, SlotsAreAligned, KeysFollowRows

LEMMA CreateVaultAligned ==
  ASSUME AlignedInv, NEW d \in Devices, NEW v \in Vaults, NEW k \in Keys,
         CreateVault(d, v, k)
  PROVE  SlotsAreAligned' /\ KeysFollowRows'
<1>1. PICK row : row = wrap_vault_key_with_master_key(k, AccountOf[d])
  OBVIOUS
<1>2. row.msg = k
  BY <1>1, WrapFacts, ConstantsAssumption
<1>3. PICK h : h = [vault |-> v, key |-> k, head |-> 0, row |-> row]
  OBVIOUS
<1>4. /\ handle[d] = NoHandle /\ member[v] = NoRow
      /\ member' = [member EXCEPT ![v] = row] /\ wrapped' = wrapped \cup {row}
      /\ handle' = [handle EXCEPT ![d] = h]
      /\ UNCHANGED <<store, walk>>
  BY <1>1, <1>3 DEF CreateVault
<1>5. \A e \in Devices : handle'[e] = IF e = d THEN h ELSE handle[e]
  BY <1>4 DEF AlignedInv, ProvenanceInv, TypeOK
<1>6. \A u \in Vaults : member'[u] = IF u = v THEN row ELSE member[u]
  BY <1>4 DEF AlignedInv, ProvenanceInv, TypeOK
<1>7. walk[d] = NoWalk
  BY <1>4 DEF AlignedInv, ProvenanceInv, Provenance, WalkIsOwn
<1>8. SlotsAreAligned'
  BY <1>4, <1>5, <1>7 DEF AlignedInv, SlotsAreAligned
<1>9. KeysFollowRows'
  BY <1>2, <1>3, <1>4, <1>5, <1>6 DEF AlignedInv, KeysFollowRows
<1> QED BY <1>8, <1>9

LEMMA OpenVaultAligned ==
  ASSUME AlignedInv, NEW d \in Devices, NEW v \in Vaults, OpenVault(d, v)
  PROVE  SlotsAreAligned' /\ KeysFollowRows'
<1>1. PICK row \in ServedRows(v), n \in ServedHeads(v) :
        LET key == unwrap_vault_key_with_master_key(row, AccountOf[d])
        IN  /\ key.ok
            /\ handle' = [handle EXCEPT ![d] =
                 [vault |-> v, key |-> key.val, head |-> n, row |-> row]]
  BY DEF OpenVault
<1>2. row \in Row /\ (row.intact => row \in wrapped)
  BY ServedRowFacts DEF AlignedInv, ProvenanceInv, Provenance
<1>3. /\ row.intact
      /\ unwrap_vault_key_with_master_key(row, AccountOf[d]).val = row.msg
  BY <1>1, <1>2, UnwrapFacts
<1>4. PICK h : h = [vault |-> v, key |-> row.msg, head |-> n, row |-> row]
  OBVIOUS
<1>5. /\ handle[d] = NoHandle /\ handle' = [handle EXCEPT ![d] = h]
      /\ UNCHANGED <<store, member, walk, wrapped>>
  BY <1>1, <1>3, <1>4 DEF OpenVault, server
<1>6. \A e \in Devices : handle'[e] = IF e = d THEN h ELSE handle[e]
  BY <1>5 DEF AlignedInv, ProvenanceInv, TypeOK
<1>7. walk[d] = NoWalk
  BY <1>5 DEF AlignedInv, ProvenanceInv, Provenance, WalkIsOwn
<1>8. SlotsAreAligned'
  BY <1>5, <1>6, <1>7 DEF AlignedInv, SlotsAreAligned
<1>9. KeysFollowRows'
  BY <1>2, <1>3, <1>4, <1>5, <1>6 DEF AlignedInv, KeysFollowRows
<1> QED BY <1>8, <1>9

(* The version a push is stored as is the one its blob was sealed for. *)
LEMMA PushAligned ==
  ASSUME AlignedInv, NEW d \in Devices, NEW t \in Texts,
         PushStored(d, t) \/ PushRefused(d, t)
  PROVE  SlotsAreAligned' /\ KeysFollowRows'
<1>0. PICK h, blob : h = handle[d] /\ blob = NextBlob(h, t)
  OBVIOUS
<1>1. /\ h # NoHandle /\ walk[d] = NoWalk
      /\ UNCHANGED <<member, walk, wrapped>>
  BY <1>0 DEF PushStored, PushRefused, SealNext
<1>2. /\ h.vault \in Vaults /\ h.head \in 0..MaxVersion /\ h \in Handle
      /\ h.row \in wrapped /\ h.key = h.row.msg /\ h.row # NoRow
  BY <1>0, <1>1, RecordTypes, ConstantsAssumption
  DEF AlignedInv, ProvenanceInv, TypeOK, KeysFollowRows
<1>3. blob.key = h.key /\ FitsSlot(blob, h.vault, h.head + 1)
  BY <1>0 DEF NextBlob, encrypt_vault, FitsSlot
<1>4. \A e \in Devices : /\ handle'[e] = NoHandle <=> handle[e] = NoHandle
                         /\ handle[e] # NoHandle =>
                              /\ handle'[e].vault = handle[e].vault
                              /\ handle'[e].key = handle[e].key
                              /\ handle'[e].row = handle[e].row
  <2>1. CASE UNCHANGED handle
    BY <2>1
  <2>2. CASE handle' = [handle EXCEPT ![d].head = @ + 1]
    <3>1. PICK g : g = [h EXCEPT !.head = @ + 1]
      OBVIOUS
    <3>2. g.vault = h.vault /\ g.key = h.key /\ g.row = h.row /\ g \in Handle
      <4>1. h.head + 1 \in 0..MaxVersion
        BY <1>0, <1>2, <2>2, ConstantsAssumption DEF PushStored, PushRefused, SealNext
      <4> QED BY <1>2, <3>1, <4>1 DEF Handle
    <3>3. \A e \in Devices : handle'[e] = IF e = d THEN g ELSE handle[e]
      BY <1>0, <2>2, <3>1 DEF AlignedInv, ProvenanceInv, TypeOK
    <3> QED BY <1>0, <1>1, <3>2, <3>3, ConstantsAssumption
  <2> QED BY <2>1, <2>2 DEF PushStored, PushRefused
<1>5. \/ UNCHANGED store
      \/ /\ h.head = Len(store[h.vault]) /\ (EpochCheck => h.row = member[h.vault])
         /\ \A v \in Vaults : \A n \in DOMAIN store'[v] :
              \/ n \in DOMAIN store[v] /\ store'[v][n] = store[v][n]
              \/ v = h.vault /\ n = h.head + 1 /\ store'[v][n] = blob
  <2>1. CASE PushRefused(d, t)
    BY <2>1 DEF PushRefused
  <2>2. CASE PushStored(d, t)
    <3>1. /\ h.head = Len(store[h.vault]) /\ (EpochCheck => h.row = member[h.vault])
          /\ store' = [store EXCEPT ![h.vault] = Append(@, blob)]
      BY <1>0, <2>2 DEF PushStored, TakesPush, CurrentEpoch
    <3>2. store[h.vault] \in Seq(Blob)
      BY <1>2 DEF AlignedInv, ProvenanceInv, TypeOK, History
    <3>3. \A v \in Vaults : store'[v] = IF v = h.vault THEN Append(store[v], blob)
                                        ELSE store[v]
      BY <3>1 DEF AlignedInv, ProvenanceInv, TypeOK
    <3>4. \A n \in DOMAIN Append(store[h.vault], blob) :
            \/ n \in DOMAIN store[h.vault] /\ Append(store[h.vault], blob)[n] = store[h.vault][n]
            \/ n = h.head + 1 /\ Append(store[h.vault], blob)[n] = blob
      BY <3>1, <3>2
    <3> QED BY <3>1, <3>3, <3>4
  <2> QED BY <2>1, <2>2
<1>6. SlotsAreAligned'
  <2>1. \A v \in Vaults : \A n \in DOMAIN store'[v] : FitsSlot(store'[v][n], v, n)
    BY <1>3, <1>5 DEF AlignedInv, SlotsAreAligned
  <2>2. ASSUME NEW e \in Devices, walk[e] # NoWalk, NEW i \in DOMAIN walk[e].batch
        PROVE  /\ FitsSlot(walk[e].batch[i], handle'[e].vault, i)
               /\ walk[e].batch[i].key = walk[e].new
    <3>1. handle[e] # NoHandle
      BY <2>2 DEF AlignedInv, ProvenanceInv, Provenance, WalkIsOwn
    <3> QED BY <1>4, <2>2, <3>1 DEF AlignedInv, SlotsAreAligned
  <2> QED BY <1>1, <2>1, <2>2 DEF SlotsAreAligned, FitsSlot
<1>7. KeysFollowRows'
  <2>1. EpochCheck => \A v \in Vaults : \A n \in DOMAIN store'[v] :
          member[v] # NoRow /\ store'[v][n].key = member[v].msg
    BY <1>2, <1>3, <1>5 DEF AlignedInv, KeysFollowRows
  <2> QED BY <1>1, <1>4, <2>1 DEF AlignedInv, KeysFollowRows
<1> QED BY <1>6, <1>7

LEMMA StartRekeyAligned ==
  ASSUME AlignedInv, NEW d \in Devices, NEW k \in Keys, StartRekey(d, k)
  PROVE  SlotsAreAligned' /\ KeysFollowRows'
<1>1. PICK n : walk' = [walk EXCEPT ![d] = [new |-> k, upto |-> n, batch |-> <<>>]]
  BY DEF StartRekey
<1>2. UNCHANGED <<store, member, handle, wrapped>>
  BY DEF StartRekey, server
<1>3. \A e \in Devices :
        walk'[e] = IF e = d THEN [new |-> k, upto |-> n, batch |-> <<>>] ELSE walk[e]
  BY <1>1 DEF AlignedInv, ProvenanceInv, TypeOK
<1>4. SlotsAreAligned'
  BY <1>2, <1>3 DEF AlignedInv, SlotsAreAligned
<1>5. KeysFollowRows'
  BY <1>2 DEF AlignedInv, KeysFollowRows
<1> QED BY <1>4, <1>5

(* reencrypt_vault keeps the associated data of the version it moves. *)
LEMMA RekeyVersionAligned ==
  ASSUME AlignedInv, NEW d \in Devices, RekeyVersion(d)
  PROVE  SlotsAreAligned' /\ KeysFollowRows'
<1>0. PICK w, h, n, v : w = walk[d] /\ h = handle[d] /\ n = Len(w.batch) + 1 /\ v = h.vault
  OBVIOUS
<1>1. /\ w # NoWalk /\ Len(w.batch) < w.upto
      /\ UNCHANGED <<store, member, handle, wrapped>>
  BY <1>0 DEF RekeyVersion, server
<1>2. PICK blob \in ServedBlobs(v, n) :
        LET moved == reencrypt_vault(blob, h.key, w.new, vault_aad(v, n))
        IN  walk' = IF moved.ok
                    THEN [walk EXCEPT ![d].batch = Append(@, moved.val)]
                    ELSE [walk EXCEPT ![d] = NoWalk]
  BY <1>0 DEF RekeyVersion
<1>3. w \in Walk /\ w.batch \in Seq(Blob) /\ w.upto \in 0..MaxVersion
  BY <1>0, <1>1, RecordTypes DEF AlignedInv, ProvenanceInv, TypeOK
<1>4. blob \in Blob
  <2>1. v \in Vaults
    BY <1>0, <1>1, RecordTypes DEF AlignedInv, ProvenanceInv, Provenance, TypeOK, WalkIsOwn
  <2>2. n \in Versions
    BY <1>0, <1>1, <1>3, ConstantsAssumption DEF Versions
  <2> QED BY <2>1, <2>2, ServedBlobFacts DEF AlignedInv, ProvenanceInv, Provenance
<1> DEFINE moved == reencrypt_vault(blob, h.key, w.new, vault_aad(v, n))
<1>5. KeysFollowRows'
  BY <1>1 DEF AlignedInv, KeysFollowRows
<1>6. CASE ~ moved.ok
  <2>1. \A e \in Devices : walk'[e] = IF e = d THEN NoWalk ELSE walk[e]
    BY <1>2, <1>6 DEF AlignedInv, ProvenanceInv, TypeOK
  <2> QED BY <1>1, <1>5, <2>1 DEF AlignedInv, SlotsAreAligned
<1>7. CASE moved.ok
  <2>1. PICK b : b = [key |-> w.new, aad |-> vault_aad(v, n), text |-> blob.text,
                      intact |-> TRUE]
    OBVIOUS
  <2>2. moved.val = b /\ b.key = w.new /\ FitsSlot(b, v, n)
    <3>1. moved.val = b
      BY <1>4, <1>7, <2>1, ReencryptFacts
    <3> QED BY <2>1, <3>1 DEF FitsSlot
  <2>3. PICK x : x = [w EXCEPT !.batch = Append(w.batch, b)]
    OBVIOUS
  <2>4. x.new = w.new /\ x.batch = Append(w.batch, b)
    BY <1>3, <2>3 DEF Walk
  <2>5. \A e \in Devices : walk'[e] = IF e = d THEN x ELSE walk[e]
    BY <1>0, <1>2, <1>7, <2>2, <2>3 DEF AlignedInv, ProvenanceInv, TypeOK
  <2>6. \A i \in DOMAIN x.batch : FitsSlot(x.batch[i], v, i) /\ x.batch[i].key = x.new
    <3>1. \A i \in DOMAIN w.batch : FitsSlot(w.batch[i], v, i) /\ w.batch[i].key = w.new
      BY <1>0, <1>1 DEF AlignedInv, SlotsAreAligned
    <3> QED BY <1>0, <1>3, <2>2, <2>4, <3>1
  <2>7. SlotsAreAligned'
    BY <1>0, <1>1, <2>5, <2>6 DEF AlignedInv, SlotsAreAligned
  <2> QED BY <1>5, <2>7
<1> QED BY <1>6, <1>7

LEMMA SubmitRekeyAligned ==
  ASSUME AlignedInv, NEW d \in Devices, SubmitRekey(d)
  PROVE  SlotsAreAligned' /\ KeysFollowRows'
<1>0. PICK w, h, row : /\ w = walk[d] /\ h = handle[d]
                       /\ row = wrap_vault_key_with_master_key(w.new, AccountOf[d])
  OBVIOUS
<1>1. /\ w # NoWalk /\ wrapped' = wrapped \cup {row}
      /\ walk' = [walk EXCEPT ![d] = NoWalk]
  BY <1>0 DEF SubmitRekey
<1>2. w.new \in Keys /\ row.msg = w.new /\ row # NoRow
  <2>1. w.new \in Keys
    BY <1>0, <1>1, RecordTypes DEF AlignedInv, ProvenanceInv, TypeOK
  <2> QED BY <1>0, <2>1, WrapFacts, ConstantsAssumption
<1>3. \A e \in Devices : walk'[e] = IF e = d THEN NoWalk ELSE walk[e]
  BY <1>1 DEF AlignedInv, ProvenanceInv, TypeOK
<1>4. \A i \in DOMAIN w.batch : FitsSlot(w.batch[i], h.vault, i) /\ w.batch[i].key = w.new
  BY <1>0, <1>1 DEF AlignedInv, SlotsAreAligned
<1>5. CASE UNCHANGED <<server, handle>>
  <2>1. UNCHANGED <<store, member, handle>>
    BY <1>5 DEF server
  <2> QED BY <1>1, <1>3, <2>1 DEF AlignedInv, SlotsAreAligned, KeysFollowRows
<1>6. CASE /\ store' = [store EXCEPT ![h.vault] = w.batch]
           /\ member' = [member EXCEPT ![h.vault] = row]
           /\ \/ handle' = [handle EXCEPT ![d] =
                   [vault |-> h.vault, key |-> w.new, head |-> w.upto, row |-> row]]
              \/ UNCHANGED handle
  <2>1. PICK g : g = [vault |-> h.vault, key |-> w.new, head |-> w.upto, row |-> row]
    OBVIOUS
  <2>2. /\ \A e \in Devices : handle'[e] = handle[e] \/ (e = d /\ handle'[e] = g)
        /\ \A v \in Vaults : /\ store'[v] = IF v = h.vault THEN w.batch ELSE store[v]
                             /\ member'[v] = IF v = h.vault THEN row ELSE member[v]
    BY <1>6, <2>1 DEF AlignedInv, ProvenanceInv, TypeOK
  <2>3. SlotsAreAligned'
    BY <1>3, <1>4, <2>2 DEF AlignedInv, SlotsAreAligned
  <2>4. KeysFollowRows'
    BY <1>1, <1>2, <1>4, <2>1, <2>2 DEF AlignedInv, KeysFollowRows
  <2> QED BY <2>3, <2>4
<1> QED BY <1>0, <1>5, <1>6 DEF SubmitRekey

LEMMA ExitAligned ==
  ASSUME AlignedInv, NEW d \in Devices, Exit(d)
  PROVE  SlotsAreAligned' /\ KeysFollowRows'
<1>1. /\ handle' = [handle EXCEPT ![d] = NoHandle] /\ walk' = [walk EXCEPT ![d] = NoWalk]
      /\ UNCHANGED <<store, member, wrapped>>
  BY DEF Exit, server
<1>2. \A e \in Devices : /\ handle'[e] = IF e = d THEN NoHandle ELSE handle[e]
                         /\ walk'[e] = IF e = d THEN NoWalk ELSE walk[e]
  BY <1>1 DEF AlignedInv, ProvenanceInv, TypeOK
<1> QED BY <1>1, <1>2 DEF AlignedInv, SlotsAreAligned, KeysFollowRows

LEMMA StepAligned == AlignedInv /\ [Next]_vars => SlotsAreAligned' /\ KeysFollowRows'
<1> SUFFICES ASSUME AlignedInv, [Next]_vars PROVE SlotsAreAligned' /\ KeysFollowRows'
  OBVIOUS
<1>1. CASE UNCHANGED vars
  BY <1>1 DEF vars, AlignedInv, SlotsAreAligned, KeysFollowRows
<1>2. ASSUME NEW d \in Devices, NEW n \in Versions, Pull(d, n)
      PROVE  SlotsAreAligned' /\ KeysFollowRows'
  BY <1>2 DEF Pull, server, device, AlignedInv, SlotsAreAligned, KeysFollowRows
<1> QED BY <1>1, <1>2, CreateVaultAligned, OpenVaultAligned, PushAligned,
           StartRekeyAligned, RekeyVersionAligned, SubmitRekeyAligned, ExitAligned
        DEF Next

THEOREM AlignmentHolds == Spec => []AlignedInv
<1>1. Init => SlotsAreAligned /\ KeysFollowRows
  BY InitAligned
<1>2. ProvenanceInv /\ SlotsAreAligned /\ KeysFollowRows /\ [Next]_vars
        => SlotsAreAligned' /\ KeysFollowRows'
  BY StepAligned DEF AlignedInv
<1>3. ProvenanceInv /\ SlotsAreAligned /\ KeysFollowRows => AlignedInv
  BY DEF AlignedInv
<1> QED BY <1>1, <1>2, <1>3, ProvenanceHolds, PTL DEF Spec

(* If the server refuses work based on a replaced wrapped key, then the    *)
(* wrapped key it stores opens every stored version, and no other key ever *)
(* generated opens any, at every moment between two requests.              *)
THEOREM OneKeyForTheHistory ==
  ASSUME EpochCheck
  PROVE  Spec => []StoredKeyAloneOpensHistory
<1>1. AlignedInv => StoredKeyAloneOpensHistory
  BY DEF AlignedInv, SlotsAreAligned, KeysFollowRows, FitsSlot,
         StoredKeyAloneOpensHistory, decrypt_vault, Ok, Err
<1> QED BY <1>1, AlignmentHolds, PTL
=============================================================================
