---------------------------- MODULE VaultLog_proofs ----------------------------
(***************************************************************************)
(* With a faithful server the encrypted, re-keyed history implements the   *)
(* append-only log of VaultLog, whether or not the server checks epochs.   *)
(***************************************************************************)
EXTENDS VaultHistory_proofs, SequenceTheorems

TextOf(s) == [n \in DOMAIN s |-> s[n].text]

CopyInv == ProvenanceInv /\ PulledTextWasPushed /\ BatchCopiesHistory

LEMMA StoreFacts ==
  ASSUME TypeOK, NEW v \in Vaults
  PROVE  /\ store[v] \in Seq(Blob) /\ Len(store[v]) \in Nat
         /\ DOMAIN store[v] = 1..Len(store[v])
<1>1. store[v] \in Seq(Blob)
  BY DEF TypeOK, History
<1> QED BY <1>1

LEMMA TextOfAppend ==
  ASSUME NEW s \in Seq(Blob), NEW b \in Blob
  PROVE  TextOf(Append(s, b)) = Append(TextOf(s), b.text)
<1>1. DOMAIN s = 1..Len(s) /\ Len(s) \in Nat /\ b.text \in Texts
  BY RecordTypes
<1>2. TextOf(s) = [n \in 1..Len(s) |-> s[n].text]
  BY <1>1 DEF TextOf
<1>3. \A n \in 1..Len(s) : s[n].text \in Texts
  BY <1>1, RecordTypes
<1>4. TextOf(s) \in Seq(Texts) /\ Len(TextOf(s)) = Len(s)
  BY <1>1, <1>2, <1>3
<1> DEFINE long  == Append(s, b)
           texts == Append(TextOf(s), b.text)
<1>5. /\ long \in Seq(Blob) /\ Len(long) = Len(s) + 1 /\ long[Len(s) + 1] = b
      /\ \A i \in 1..Len(s) : long[i] = s[i]
  BY AppendProperties
<1>6. /\ texts \in Seq(Texts) /\ Len(texts) = Len(s) + 1 /\ texts[Len(s) + 1] = b.text
      /\ \A i \in 1..Len(s) : texts[i] = TextOf(s)[i]
  BY <1>1, <1>4, AppendProperties
<1> HIDE DEF long, texts
<1>7. TextOf(long) = [i \in 1..(Len(s) + 1) |-> long[i].text]
  BY <1>5 DEF TextOf
<1>8. texts = [i \in 1..(Len(s) + 1) |-> texts[i]]
  BY <1>6
<1>9. \A i \in 1..(Len(s) + 1) : long[i].text = texts[i]
  BY <1>1, <1>2, <1>5, <1>6
<1>10. TextOf(long) = texts
  BY <1>7, <1>8, <1>9
<1> QED BY <1>10 DEF long, texts

(* What a faithful server is given back by a re-key is the texts it had:   *)
(* an accepted batch is as long as the history and copies it.              *)
LEMMA SubmitKeepsTexts ==
  ASSUME Faithful, CopyInv, NEW d \in Devices, SubmitRekey(d), NEW v \in Vaults
  PROVE  TextOf(store'[v]) = TextOf(store[v])
<1>0. PICK w, h : w = walk[d] /\ h = handle[d]
  OBVIOUS
<1>1. w # NoWalk /\ Len(w.batch) = w.upto
  BY <1>0 DEF SubmitRekey
<1>2. h.vault \in Vaults /\ w.batch \in Seq(Blob)
  BY <1>0, <1>1, RecordTypes DEF CopyInv, ProvenanceInv, Provenance, TypeOK, WalkIsOwn
<1>3. \/ UNCHANGED store
      \/ /\ w.upto = Len(store[h.vault])
         /\ store' = [store EXCEPT ![h.vault] = w.batch]
  BY <1>0 DEF SubmitRekey, TakesRekey, server
<1>4. CASE v # h.vault \/ UNCHANGED store
  BY <1>3, <1>4 DEF CopyInv, ProvenanceInv, TypeOK
<1>5. CASE v = h.vault /\ w.upto = Len(store[v]) /\ store' = [store EXCEPT ![v] = w.batch]
  <2>1. store'[v] = w.batch
    BY <1>5 DEF CopyInv, ProvenanceInv, TypeOK
  <2>2. DOMAIN w.batch = DOMAIN store[v]
    BY <1>1, <1>2, <1>5, StoreFacts DEF CopyInv, ProvenanceInv
  <2>3. \A i \in DOMAIN w.batch : w.batch[i].text = store[v][i].text
    BY <1>0, <1>1, <1>5 DEF CopyInv, BatchCopiesHistory
  <2> QED BY <2>1, <2>2, <2>3 DEF TextOf
<1> QED BY <1>3, <1>4, <1>5

LEMMA PushAppends ==
  ASSUME CopyInv, NEW d \in Devices, NEW t \in Texts, PushStored(d, t)
  PROVE  /\ handle[d] # NoHandle /\ handle[d].vault \in Vaults
         /\ \A v \in Vaults : TextOf(store'[v]) =
              IF v = handle[d].vault THEN Append(TextOf(store[v]), t)
                                     ELSE TextOf(store[v])
<1>0. PICK h, blob : h = handle[d] /\ blob = NextBlob(h, t)
  OBVIOUS
<1>1. /\ h # NoHandle /\ h.head < MaxVersion
      /\ store' = [store EXCEPT ![h.vault] = Append(@, blob)]
  BY <1>0 DEF PushStored, SealNext
<1>2. h.vault \in Vaults /\ h.key \in Keys /\ h.head \in 0..MaxVersion
  BY <1>0, <1>1, RecordTypes DEF CopyInv, ProvenanceInv, TypeOK
<1>3. blob \in Blob /\ blob.text = t
  <2>1. h.head + 1 \in Versions
    BY <1>1, <1>2, ConstantsAssumption DEF Versions
  <2>2. blob \in Blob
    BY <1>0, <1>2, <2>1, EncryptType DEF NextBlob
  <2> QED BY <1>0, <2>2 DEF NextBlob, encrypt_vault
<1>4. \A v \in Vaults : store'[v] = IF v = h.vault THEN Append(store[v], blob) ELSE store[v]
  BY <1>1 DEF CopyInv, ProvenanceInv, TypeOK
<1>5. TextOf(Append(store[h.vault], blob)) = Append(TextOf(store[h.vault]), t)
  BY <1>2, <1>3, TextOfAppend, StoreFacts DEF CopyInv, ProvenanceInv
<1>6. ASSUME NEW v \in Vaults
      PROVE  TextOf(store'[v]) = IF v = h.vault THEN Append(TextOf(store[v]), t)
                                                ELSE TextOf(store[v])
  <2>1. CASE v = h.vault
    BY <1>4, <1>5, <2>1
  <2>2. CASE v # h.vault
    BY <1>4, <2>2
  <2> QED BY <2>1, <2>2
<1> QED BY <1>0, <1>1, <1>2, <1>6

(* No step shortens a history or changes a text in it. *)
LEMMA TextsStay ==
  ASSUME Faithful, CopyInv, [Next]_vars, NEW v \in Vaults
  PROVE  /\ Len(store[v]) <= Len(store'[v])
         /\ \A i \in 1..Len(store[v]) : store'[v][i].text = store[v][i].text
<1> DEFINE Grows == /\ Len(store[v]) <= Len(store'[v])
                    /\ \A i \in 1..Len(store[v]) : store'[v][i].text = store[v][i].text
<1>0. TypeOK /\ TypeOK'
  BY StepProvenance DEF CopyInv, ProvenanceInv
<1>1. /\ store[v] \in Seq(Blob) /\ Len(store[v]) \in Nat
      /\ DOMAIN store[v] = 1..Len(store[v])
  BY <1>0, StoreFacts
<1>2. /\ store'[v] \in Seq(Blob) /\ Len(store'[v]) \in Nat
      /\ DOMAIN store'[v] = 1..Len(store'[v])
  <2>1. store'[v] \in Seq(Blob)
    BY <1>0 DEF TypeOK, History
  <2> QED BY <2>1
<1>3. CASE UNCHANGED store
  BY <1>1, <1>3
<1>4. ASSUME NEW d \in Devices, SubmitRekey(d)
      PROVE  Grows
  <2>1. TextOf(store'[v]) = TextOf(store[v])
    BY <1>4, SubmitKeepsTexts
  <2> QED BY <1>1, <1>2, <2>1 DEF TextOf
<1>5. ASSUME NEW d \in Devices, NEW t \in Texts, PushStored(d, t)
      PROVE  Grows
  <2>1. PICK b : store' = [store EXCEPT ![handle[d].vault] = Append(@, b)]
    BY <1>5 DEF PushStored
  <2>2. store'[v] = store[v] \/ store'[v] = Append(store[v], b)
    BY <1>0, <2>1 DEF TypeOK
  <2> QED BY <1>1, <1>2, <2>2
<1> QED BY <1>3, <1>4, <1>5
        DEF Next, vars, CreateVault, OpenVault, PushRefused, Pull, StartRekey,
            RekeyVersion, Exit, server

(* A walk no action of the step touched still copies the history. *)
LEMMA OldWalksCopy ==
  ASSUME Faithful, CopyInv, [Next]_vars, NEW d \in Devices, walk[d] # NoWalk,
         walk'[d] = walk[d], handle'[d].vault = handle[d].vault
  PROVE  /\ walk'[d].upto <= Len(store'[handle'[d].vault])
         /\ \A i \in DOMAIN walk'[d].batch :
              walk'[d].batch[i].text = store'[handle'[d].vault][i].text
<1>0. PICK w, v : w = walk[d] /\ v = handle[d].vault
  OBVIOUS
<1>1. TypeOK /\ TypeOK' /\ Provenance
  BY StepProvenance DEF CopyInv, ProvenanceInv
<1>2. /\ v \in Vaults /\ w.batch \in Seq(Blob) /\ w.upto \in 0..MaxVersion
      /\ Len(w.batch) <= w.upto
  BY <1>0, <1>1, RecordTypes DEF Provenance, WalkIsOwn, TypeOK
<1>3. /\ Len(store[v]) \in Nat /\ w.upto <= Len(store[v])
      /\ \A i \in DOMAIN w.batch : w.batch[i].text = store[v][i].text
  BY <1>0, <1>1, <1>2, StoreFacts DEF CopyInv, BatchCopiesHistory
<1>4. Len(store'[v]) \in Nat
  <2>1. store'[v] \in Seq(Blob)
    BY <1>1, <1>2 DEF TypeOK, History
  <2> QED BY <2>1
<1>5. \A i \in DOMAIN w.batch : i \in 1..Len(store[v])
  BY <1>2, <1>3, ConstantsAssumption
<1>6. /\ Len(store[v]) <= Len(store'[v])
      /\ \A i \in 1..Len(store[v]) : store'[v][i].text = store[v][i].text
  BY <1>2, TextsStay
<1>7. w.upto <= Len(store'[v])
  BY <1>2, <1>3, <1>4, <1>6, ConstantsAssumption
<1>8. \A i \in DOMAIN w.batch : w.batch[i].text = store'[v][i].text
  BY <1>3, <1>5, <1>6
<1> QED BY <1>0, <1>7, <1>8

(* The text that was moved is the one the server stores. *)
LEMMA RekeyVersionCopies ==
  ASSUME Faithful, CopyInv, NEW d \in Devices, RekeyVersion(d), walk'[d] # NoWalk
  PROVE  /\ walk'[d].upto <= Len(store'[handle'[d].vault])
         /\ \A i \in DOMAIN walk'[d].batch :
              walk'[d].batch[i].text = store'[handle'[d].vault][i].text
<1>0. PICK w, h, n, v : w = walk[d] /\ h = handle[d] /\ n = Len(w.batch) + 1 /\ v = h.vault
  OBVIOUS
<1>1. w # NoWalk /\ Len(w.batch) < w.upto /\ UNCHANGED <<store, handle>>
  BY <1>0 DEF RekeyVersion, server
<1>2. PICK blob \in ServedBlobs(v, n) :
        LET moved == reencrypt_vault(blob, h.key, w.new, vault_aad(v, n))
        IN  walk' = IF moved.ok
                    THEN [walk EXCEPT ![d].batch = Append(@, moved.val)]
                    ELSE [walk EXCEPT ![d] = NoWalk]
  BY <1>0 DEF RekeyVersion
<1>3. TypeOK /\ BlobsWerePushed /\ WalkIsOwn
  BY DEF CopyInv, ProvenanceInv, Provenance
<1>4. /\ v \in Vaults /\ w \in Walk /\ w.new \in Keys
      /\ w.batch \in Seq(Blob) /\ w.upto \in 0..MaxVersion
  BY <1>0, <1>1, <1>3, RecordTypes DEF WalkIsOwn, TypeOK
<1>5. n \in Versions
  BY <1>0, <1>1, <1>4, ConstantsAssumption DEF Versions
<1>6. blob \in Blob /\ blob.text = store[v][n].text
  BY <1>3, <1>4, <1>5, ServedBlobFacts
<1> DEFINE moved == reencrypt_vault(blob, h.key, w.new, vault_aad(v, n))
<1>7. moved.ok
  BY <1>2, <1>3 DEF TypeOK
<1>8. PICK b : b = [key |-> w.new, aad |-> vault_aad(v, n), text |-> blob.text,
                    intact |-> TRUE]
  OBVIOUS
<1>9. moved.val = b
  BY <1>6, <1>7, <1>8, ReencryptFacts
<1>10. b \in Blob /\ b.text = store[v][n].text
  <2>1. b \in Blob
    BY <1>4, <1>5, <1>6, <1>8, RecordTypes, EncryptType DEF encrypt_vault
  <2> QED BY <1>6, <1>8, <2>1
<1>11. walk'[d] = [w EXCEPT !.batch = Append(w.batch, b)]
  BY <1>0, <1>2, <1>3, <1>7, <1>9 DEF TypeOK
<1>12. walk'[d].upto = w.upto /\ walk'[d].batch = Append(w.batch, b)
  BY <1>4, <1>11 DEF Walk
<1>13. w.upto <= Len(store[v]) /\ \A i \in DOMAIN w.batch : w.batch[i].text = store[v][i].text
  BY <1>0, <1>1 DEF CopyInv, BatchCopiesHistory
<1>14. \A i \in DOMAIN Append(w.batch, b) : Append(w.batch, b)[i].text = store[v][i].text
  BY <1>0, <1>4, <1>10, <1>13
<1> QED BY <1>0, <1>1, <1>12, <1>13, <1>14

(* The vault of a device with a walk in progress does not change. *)
LEMMA StepCopies ==
  ASSUME Faithful, CopyInv, [Next]_vars
  PROVE  BatchCopiesHistory'
<1> SUFFICES ASSUME NEW e \in Devices, walk'[e] # NoWalk
             PROVE  /\ walk'[e].upto <= Len(store'[handle'[e].vault])
                    /\ \A i \in DOMAIN walk'[e].batch :
                         walk'[e].batch[i].text = store'[handle'[e].vault][i].text
  BY DEF BatchCopiesHistory
<1> DEFINE Copies == /\ walk'[e].upto <= Len(store'[handle'[e].vault])
                     /\ \A i \in DOMAIN walk'[e].batch :
                          walk'[e].batch[i].text = store'[handle'[e].vault][i].text
<1>0. TypeOK /\ Provenance
  BY DEF CopyInv, ProvenanceInv
<1>1. CASE walk[e] # NoWalk /\ walk'[e] = walk[e] /\ handle'[e].vault = handle[e].vault
  BY <1>1, OldWalksCopy
<1>2. CASE UNCHANGED <<walk, handle>>
  BY <1>1, <1>2
<1>3. ASSUME NEW d \in Devices, UNCHANGED walk, handle[d] = NoHandle,
             \A f \in Devices : f # d => handle'[f] = handle[f]
      PROVE  Copies
  BY <1>0, <1>1, <1>3 DEF Provenance, WalkIsOwn
<1>4. ASSUME NEW d \in Devices, NEW v \in Vaults, NEW k \in Keys, CreateVault(d, v, k)
      PROVE  Copies
  BY <1>0, <1>3, <1>4 DEF CreateVault, TypeOK
<1>5. ASSUME NEW d \in Devices, NEW v \in Vaults, OpenVault(d, v)
      PROVE  Copies
  BY <1>0, <1>3, <1>5 DEF OpenVault, TypeOK
<1>6. ASSUME NEW d \in Devices, NEW t \in Texts, PushStored(d, t) \/ PushRefused(d, t)
      PROVE  Copies
  <2>1. walk[d] = NoWalk /\ UNCHANGED walk
    BY <1>6 DEF PushStored, PushRefused, SealNext
  <2>2. \A f \in Devices : f # d => handle'[f] = handle[f]
    BY <1>0, <1>6 DEF PushStored, PushRefused, TypeOK
  <2> QED BY <1>1, <2>1, <2>2
<1>7. ASSUME NEW d \in Devices, NEW n \in Versions, Pull(d, n)
      PROVE  Copies
  BY <1>2, <1>7 DEF Pull, device
<1>8. ASSUME NEW d \in Devices, NEW k \in Keys, StartRekey(d, k)
      PROVE  Copies
  <2>1. PICK n \in ServedHeads(handle[d].vault) :
          walk' = [walk EXCEPT ![d] = [new |-> k, upto |-> n, batch |-> <<>>]]
    BY <1>8 DEF StartRekey
  <2>2. UNCHANGED <<store, handle>> /\ n = Len(store[handle[d].vault])
    BY <1>8 DEF StartRekey, server, ServedHeads
  <2>3. \A f \in Devices : walk'[f] =
          IF f = d THEN [new |-> k, upto |-> n, batch |-> <<>>] ELSE walk[f]
    BY <1>0, <2>1 DEF TypeOK
  <2>4. CASE e = d
    <3>1. handle[d] # NoHandle
      BY <1>8 DEF StartRekey
    <3>2. Len(store[handle[d].vault]) \in Nat
      BY <1>0, <3>1, RecordTypes, StoreFacts DEF TypeOK
    <3> QED BY <2>2, <2>3, <2>4, <3>2
  <2>5. CASE e # d
    BY <1>1, <2>2, <2>3, <2>5
  <2> QED BY <2>4, <2>5
<1>9. ASSUME NEW d \in Devices, RekeyVersion(d)
      PROVE  Copies
  <2>1. CASE e # d
    BY <1>0, <1>1, <1>9, <2>1 DEF RekeyVersion, TypeOK
  <2>2. CASE e = d
    BY <1>9, <2>2, RekeyVersionCopies
  <2> QED BY <2>1, <2>2
<1>10. ASSUME NEW d \in Devices, SubmitRekey(d)
       PROVE  Copies
  BY <1>0, <1>1, <1>10 DEF SubmitRekey, TypeOK
<1>11. ASSUME NEW d \in Devices, Exit(d)
       PROVE  Copies
  BY <1>0, <1>1, <1>11 DEF Exit, TypeOK
<1>12. CASE UNCHANGED vars
  BY <1>2, <1>12 DEF vars
<1> QED BY <1>4, <1>5, <1>6, <1>7, <1>8, <1>9, <1>10, <1>11, <1>12 DEF Next


THEOREM CopiesHold ==
  ASSUME Faithful
  PROVE  Spec => []CopyInv
<1>1. Init => BatchCopiesHistory
  BY DEF Init, BatchCopiesHistory
<1>2. ProvenanceInv /\ PulledTextWasPushed /\ BatchCopiesHistory /\ [Next]_vars
        => BatchCopiesHistory'
  BY StepCopies DEF CopyInv
<1>3. ProvenanceInv /\ PulledTextWasPushed /\ BatchCopiesHistory => CopyInv
  BY DEF CopyInv
<1> QED BY <1>1, <1>2, <1>3, ProvenanceHolds, PTL DEF Spec

-----------------------------------------------------------------------------
(* The refinement mapping of ImplementsLog, by name. *)
logBar  == [v \in Vaults |-> [n \in DOMAIN store[v] |-> store[v][n].text]]
readBar == IF got = NoText THEN NoText
           ELSE [vault |-> got.vault, version |-> got.version, text |-> got.text]

LEMMA LogBarIsTexts == \A v \in Vaults : logBar[v] = TextOf(store[v])
BY DEF logBar, TextOf

LEMMA PushIsAppend ==
  ASSUME CopyInv, NEW d \in Devices, NEW t \in Texts, PushStored(d, t)
  PROVE  \E v \in Vaults : logBar' = [logBar EXCEPT ![v] = Append(@, t)]
                        /\ UNCHANGED <<got, readBar>>
<1>1. UNCHANGED got
  BY DEF PushStored, SealNext
<1>2. PICK v \in Vaults : v = handle[d].vault
  BY PushAppends
<1>3. \A u \in Vaults : TextOf(store'[u]) =
        IF u = v THEN Append(TextOf(store[u]), t) ELSE TextOf(store[u])
  BY <1>2, PushAppends
<1>4. logBar' = [u \in Vaults |-> TextOf(store'[u])]
  BY DEF logBar, TextOf
<1>5. logBar = [u \in Vaults |-> TextOf(store[u])]
  BY DEF logBar, TextOf
<1>6. logBar' = [logBar EXCEPT ![v] = Append(@, t)]
  BY <1>3, <1>4, <1>5
<1> QED BY <1>1, <1>6 DEF readBar

LEMMA PullGives ==
  ASSUME Faithful, CopyInv, NEW d \in Devices, NEW n \in Versions, Pull(d, n)
  PROVE  /\ UNCHANGED logBar
         /\ \/ got' = NoText
            \/ \E v \in Vaults : \E i \in DOMAIN logBar[v] :
                 got'.vault = v /\ got'.version = i /\ got'.text = logBar[v][i]
<1>0. PICK h : h = handle[d]
  OBVIOUS
<1>1. PICK blob \in ServedBlobs(h.vault, n) :
        LET text == decrypt_vault(blob, h.key, vault_aad(h.vault, n))
        IN  got' = IF text.ok
                   THEN [to |-> d, vault |-> h.vault, version |-> n, text |-> text.val]
                   ELSE NoText
  BY <1>0 DEF Pull
<1>2. UNCHANGED logBar /\ h # NoHandle
  BY <1>0 DEF Pull, server, logBar
<1>3. TypeOK /\ BlobsWerePushed
  BY DEF CopyInv, ProvenanceInv, Provenance
<1>4. h.vault \in Vaults
  BY <1>0, <1>2, <1>3, RecordTypes DEF TypeOK
<1>5. /\ blob \in Blob /\ n \in DOMAIN store[h.vault]
      /\ blob.text = store[h.vault][n].text
  BY <1>3, <1>4, ServedBlobFacts
<1> DEFINE text == decrypt_vault(blob, h.key, vault_aad(h.vault, n))
<1>6. CASE ~ text.ok
  BY <1>1, <1>2, <1>6
<1>7. CASE text.ok
  <2>1. text.val = blob.text
    BY <1>5, <1>7, DecryptFacts
  <2>2. got' = [to |-> d, vault |-> h.vault, version |-> n, text |-> blob.text]
    BY <1>1, <1>7, <2>1
  <2>3. n \in DOMAIN logBar[h.vault] /\ blob.text = logBar[h.vault][n]
    BY <1>4, <1>5 DEF logBar
  <2> QED BY <1>2, <1>4, <2>2, <2>3
<1> QED BY <1>6, <1>7

LEMMA PullIsRead ==
  ASSUME Faithful, CopyInv, NEW d \in Devices, NEW n \in Versions, Pull(d, n)
  PROVE  /\ UNCHANGED logBar
         /\ \/ readBar' = NoText
            \/ \E v \in Vaults : \E i \in DOMAIN logBar[v] :
                 readBar' = [vault |-> v, version |-> i, text |-> logBar[v][i]]
BY PullGives DEF readBar

LEMMA OthersStutter ==
  ASSUME Faithful, CopyInv, [Next]_vars,
         ~ \E d \in Devices : \/ \E t \in Texts : PushStored(d, t)
                              \/ \E n \in Versions : Pull(d, n)
  PROVE  UNCHANGED <<logBar, got, readBar>>
<1>1. UNCHANGED got
  BY DEF Next, vars, CreateVault, OpenVault, PushRefused, SealNext, StartRekey,
         RekeyVersion, SubmitRekey, Exit
<1>2. UNCHANGED store \/ \E d \in Devices : SubmitRekey(d)
  BY DEF Next, vars, CreateVault, OpenVault, PushRefused, StartRekey, RekeyVersion,
         Exit, server
<1>3. \A v \in Vaults : TextOf(store'[v]) = TextOf(store[v])
  BY <1>2, SubmitKeepsTexts
<1>4. logBar' = [v \in Vaults |-> TextOf(store'[v])]
  BY DEF logBar, TextOf
<1>5. logBar = [v \in Vaults |-> TextOf(store[v])]
  BY DEF logBar, TextOf
<1> QED BY <1>1, <1>3, <1>4, <1>5 DEF readBar

(* With a faithful server the history of encrypted versions, under however *)
(* many keys and re-keys, implements the append-only log of texts.         *)
THEOREM HistoryImplementsLog ==
  ASSUME Faithful
  PROVE  Spec => ImplementsLog
<1>1. Init => Log!Init
  BY DEF Init, Log!Init
<1>2. CopyInv /\ [Next]_vars => [Log!Next]_<<logBar, readBar>>
  <2> SUFFICES ASSUME CopyInv, [Next]_vars
               PROVE  Log!Next \/ UNCHANGED <<logBar, readBar>>
    OBVIOUS
  <2>1. ASSUME NEW d \in Devices, NEW t \in Texts, PushStored(d, t)
        PROVE  Log!Next
    <3>1. PICK v \in Vaults : /\ logBar' = [logBar EXCEPT ![v] = Append(@, t)]
                              /\ UNCHANGED readBar
      BY <2>1, PushIsAppend
    <3>2. Log!AppendText(v, t)
      BY <3>1 DEF Log!AppendText, logBar, readBar
    <3> QED BY <3>2 DEF Log!Next
  <2>2. ASSUME NEW d \in Devices, NEW n \in Versions, Pull(d, n)
        PROVE  Log!Next
    <3>1. UNCHANGED logBar
      BY <2>2, PullIsRead
    <3>2. CASE readBar' = NoText
      <4>1. Log!ReadFails
        BY <3>1, <3>2 DEF Log!ReadFails, logBar, readBar
      <4> QED BY <4>1 DEF Log!Next
    <3>3. CASE \E v \in Vaults : \E i \in DOMAIN logBar[v] :
                 readBar' = [vault |-> v, version |-> i, text |-> logBar[v][i]]
      <4>0. PICK v \in Vaults : \E i \in DOMAIN logBar[v] :
              readBar' = [vault |-> v, version |-> i, text |-> logBar[v][i]]
        BY <3>3
      <4>1. PICK i \in DOMAIN logBar[v] :
              readBar' = [vault |-> v, version |-> i, text |-> logBar[v][i]]
        BY <4>0
      <4>2. Log!ReadText(v, i)
        BY <3>1, <4>1 DEF Log!ReadText, logBar, readBar
      <4> QED BY <4>1, <4>2 DEF Log!Next, logBar
    <3> QED BY <2>2, <3>2, <3>3, PullIsRead
  <2> QED BY <2>1, <2>2, OthersStutter
<1> QED BY <1>1, <1>2, CopiesHold, PTL DEF Spec, ImplementsLog, Log!Spec, logBar, readBar

-----------------------------------------------------------------------------
(* What was read is in the log. *)
ReadIsLogged ==
  \/ got = NoText
  \/ \E v \in Vaults : \E i \in DOMAIN logBar[v] :
       got.vault = v /\ got.version = i /\ got.text = logBar[v][i]

(* What a caller was given is what the server has, under whatever key. *)
ReadsStay ==
  got # NoText =>
    /\ got.version \in DOMAIN store[got.vault]
    /\ store[got.vault][got.version].text = got.text

LEMMA TextOfHistory ==
  ASSUME CopyInv, NEW v \in Vaults
  PROVE  TextOf(store[v]) \in Seq(Texts)
<1>1. TypeOK
  BY DEF CopyInv, ProvenanceInv
<1>2. PICK s : s = store[v]
  OBVIOUS
<1>3. s \in Seq(Blob) /\ Len(s) \in Nat /\ DOMAIN s = 1..Len(s)
  BY <1>1, <1>2, StoreFacts
<1>4. \A n \in 1..Len(s) : s[n].text \in Texts
  BY <1>3, RecordTypes
<1>5. TextOf(s) = [n \in 1..Len(s) |-> s[n].text]
  BY <1>3 DEF TextOf
<1> QED BY <1>2, <1>3, <1>4, <1>5

LEMMA StepLogged ==
  ASSUME Faithful, CopyInv, ReadIsLogged, [Next]_vars
  PROVE  ReadIsLogged'
<1>1. ASSUME NEW d \in Devices, NEW t \in Texts, PushStored(d, t)
      PROVE  ReadIsLogged'
  <2>1. PICK v \in Vaults : logBar' = [logBar EXCEPT ![v] = Append(@, t)]
                            /\ UNCHANGED got
    BY <1>1, PushIsAppend
  <2>2. DOMAIN logBar = Vaults
    BY DEF logBar
  <2>3. logBar[v] \in Seq(Texts)
    <3>1. logBar[v] = TextOf(store[v])
      BY LogBarIsTexts
    <3> QED BY <3>1, TextOfHistory
  <2>4. \A u \in Vaults : \A i \in DOMAIN logBar[u] :
           i \in DOMAIN logBar'[u] /\ logBar'[u][i] = logBar[u][i]
    BY <2>1, <2>2, <2>3, AppendProperties
  <2> QED BY <2>1, <2>4 DEF ReadIsLogged
<1>2. ASSUME NEW d \in Devices, NEW n \in Versions, Pull(d, n)
      PROVE  ReadIsLogged'
  <2>1. /\ UNCHANGED logBar
        /\ \/ got' = NoText
           \/ \E v \in Vaults : \E i \in DOMAIN logBar[v] :
                got'.vault = v /\ got'.version = i /\ got'.text = logBar[v][i]
    BY <1>2, PullGives
  <2> QED BY <2>1 DEF ReadIsLogged
<1>3. CASE UNCHANGED <<logBar, got>>
  BY <1>3 DEF ReadIsLogged
<1> QED BY <1>1, <1>2, <1>3, OthersStutter

(* Nothing un-says a read: with a faithful server, the text the last pull  *)
(* of anybody gave is the text of that version ever after, whatever was    *)
(* pushed and however often the vault was re-keyed since (vault.rs:219).   *)
THEOREM ReadsStayTrue ==
  ASSUME Faithful
  PROVE  Spec => []ReadsStay
<1>1. Init => ReadIsLogged
  BY DEF Init, ReadIsLogged
<1>2. CopyInv /\ ReadIsLogged /\ [Next]_vars => ReadIsLogged'
  BY StepLogged
<1>3. ASSUME CopyInv, ReadIsLogged, got # NoText
      PROVE  /\ got.version \in DOMAIN store[got.vault]
             /\ store[got.vault][got.version].text = got.text
  <2>1. PICK v \in Vaults : \E i \in DOMAIN logBar[v] :
          got.vault = v /\ got.version = i /\ got.text = logBar[v][i]
    BY <1>3 DEF ReadIsLogged
  <2> QED BY <2>1 DEF logBar
<1>4. CopyInv /\ ReadIsLogged => ReadsStay
  BY <1>3 DEF ReadsStay
<1> QED BY <1>1, <1>2, <1>4, CopiesHold, PTL DEF Spec
=============================================================================
