----------------------------- MODULE VaultHistory -----------------------------
(***************************************************************************)
(* The life of a vault: devices of several accounts create vaults, unwrap  *)
(* their keys, push and pull versions, and move a whole history to a new   *)
(* key with reencrypt_vault, version by version.                           *)
(*                                                                         *)
(* The crate is a library of pure functions; its callers (CLI, dashboard)  *)
(* and the server are not in the repository.  Every action below is one    *)
(* caller step of the flows that tests/readme_flows.rs, tests/vault.rs and *)
(* wasm.rs spell out, around one or two calls of the crate.  What the      *)
(* server does is an assumption, stated by two constants:                  *)
(*                                                                         *)
(*   Faithful    TRUE: the server returns what it stores, or a damaged     *)
(*               copy of it.  FALSE: it returns any blob, wrapped key or   *)
(*               version number it ever received - stale, swapped between  *)
(*               vaults, columns or accounts - or a damaged copy.          *)
(*   EpochCheck  TRUE: it refuses a push or a re-key whose author based it *)
(*               on a wrapped key that has since been replaced.            *)
(***************************************************************************)
EXTENDS Naturals, Sequences, VaultCrypto

CONSTANTS
  Accounts,     \* accounts; the name also stands for its MasterKey and its seed
  Devices,      \* client processes
  AccountOf,    \* the account each device is logged in to
  Vaults,       \* vault ids
  Keys,         \* the keys VaultKey::generate can return
  Texts,        \* .env contents
  MaxVersion,   \* bound on the versions of one vault
  Faithful,
  EpochCheck,
  Nobody, NoRow, NoHandle, NoWalk, NoText     \* absence of a value

Versions == 1..MaxVersion
Blob     == [key : Keys, aad : Vaults \X Versions, text : Texts, intact : BOOLEAN]
Subkey   == [ikm : Accounts,
             info : {HKDF_INFO_VAULT_KEY_WRAP_MK, HKDF_INFO_PRIVATE_KEY_ENC}]
Row      == [under : Subkey, msg : Keys \cup Accounts, intact : BOOLEAN]
Handle   == [vault : Vaults, key : Keys, head : 0..MaxVersion, row : Row]
History  == {s \in Seq(Blob) : Len(s) <= MaxVersion}
Walk     == [new : Keys, upto : 0..MaxVersion, batch : Seq(Blob)]
Pushed   == [by : Accounts, vault : Vaults, version : Versions, text : Texts]
Read     == [to : Devices, vault : Vaults, version : Versions, text : Texts]

ASSUME ConstantsAssumption ==
  /\ AccountOf \in [Devices -> Accounts]
  /\ MaxVersion \in Nat
  /\ Faithful \in BOOLEAN
  /\ EpochCheck \in BOOLEAN
  /\ Accounts \cap Keys = {}
  /\ Nobody \notin Accounts
  /\ NoRow \notin Row
  /\ NoHandle \notin Handle
  /\ NoWalk \notin Walk
  /\ NoText \notin Read

VARIABLES
  store,      \* server: store[v][n] is the blob of version n of vault v
  member,     \* server: member[v] is the vault key of v, wrapped for its owner
  handle,     \* handle[d]: the VaultKey device d holds, and what it knows of its vault
  walk,       \* walk[d]: the re-key in progress on device d, kept in its memory
  keyBy,      \* keyBy[k]: the account whose device generated k
  sealed,     \* every blob any device ever uploaded
  wrapped,    \* every wrapped key or seed any device ever uploaded
  pushed,     \* history variable: who pushed what, as which version of which vault
  got         \* the text the last pull returned to its caller

server == <<store, member>>
device == <<handle, walk>>
vars   == <<store, member, handle, walk, keyBy, sealed, wrapped, pushed, got>>

TypeOK ==
  /\ store \in [Vaults -> History]
  /\ member \in [Vaults -> Row \cup {NoRow}]
  /\ handle \in [Devices -> Handle \cup {NoHandle}]
  /\ walk \in [Devices -> Walk \cup {NoWalk}]
  /\ keyBy \in [Keys -> Accounts \cup {Nobody}]
  /\ sealed \subseteq Blob
  /\ wrapped \subseteq Row
  /\ pushed \subseteq Pushed
  /\ got \in Read \cup {NoText}

-----------------------------------------------------------------------------
(* What the server hands out.                                              *)

OrDamaged(S) == S \cup {Altered(s) : s \in S}

ServedRows(v) ==
  OrDamaged(IF Faithful THEN {member[v]} \ {NoRow} ELSE wrapped)

ServedBlobs(v, n) ==
  OrDamaged(IF Faithful THEN {store[v][i] : i \in DOMAIN store[v] \cap {n}} ELSE sealed)

ServedHeads(v) == IF Faithful THEN {Len(store[v])} ELSE 0..MaxVersion

(* What it accepts: the version it assigns is base_version + 1, and a      *)
(* re-key replaces every version or none.                                  *)
CurrentEpoch(h) == EpochCheck => h.row = member[h.vault]

TakesPush(h)        == h.head = Len(store[h.vault]) /\ CurrentEpoch(h)
TakesRekey(h, upto) == upto = Len(store[h.vault]) /\ CurrentEpoch(h)

-----------------------------------------------------------------------------
(* VaultKey::generate: a key no one generated before. *)
generate(d, k) ==
  /\ keyBy[k] = Nobody
  /\ keyBy' = [keyBy EXCEPT ![k] = AccountOf[d]]

Init ==
  /\ store = [v \in Vaults |-> <<>>]
  /\ member = [v \in Vaults |-> NoRow]
  /\ handle = [d \in Devices |-> NoHandle]
  /\ walk = [d \in Devices |-> NoWalk]
  /\ keyBy = [k \in Keys |-> Nobody]
  /\ sealed = {}
  /\ wrapped = {encrypt_private_key(a, a) : a \in Accounts}   \* from registration
  /\ pushed = {}
  /\ got = NoText

(* createVaultKey, wrapVaultKey, upload of the creator's own copy. *)
CreateVault(d, v, k) ==
  LET row == wrap_vault_key_with_master_key(k, AccountOf[d])
  IN  /\ handle[d] = NoHandle
      /\ member[v] = NoRow
      /\ generate(d, k)
      /\ member' = [member EXCEPT ![v] = row]
      /\ wrapped' = wrapped \cup {row}
      /\ handle' = [handle EXCEPT ![d] = [vault |-> v, key |-> k, head |-> 0, row |-> row]]
      /\ UNCHANGED <<store, walk, sealed, pushed, got>>

(* Download of the wrapped key and the current version, unwrapVaultKey.    *)
(* A row that does not open leaves the device without a handle.            *)
OpenVault(d, v) ==
  /\ handle[d] = NoHandle
  /\ \E row \in ServedRows(v), h \in ServedHeads(v) :
       LET key == unwrap_vault_key_with_master_key(row, AccountOf[d])
       IN  /\ key.ok
           /\ handle' = [handle EXCEPT ![d] =
                [vault |-> v, key |-> key.val, head |-> h, row |-> row]]
  /\ UNCHANGED <<server, walk, keyBy, sealed, wrapped, pushed, got>>

(* encryptVault at base_version + 1.  The blob leaves the device whether or *)
(* not the server keeps it.                                                *)
NextBlob(h, text) == encrypt_vault(text, h.key, vault_aad(h.vault, h.head + 1))

SealNext(d, text) ==
  /\ handle[d] # NoHandle
  /\ walk[d] = NoWalk
  /\ handle[d].head < MaxVersion
  /\ sealed' = sealed \cup {NextBlob(handle[d], text)}
  /\ pushed' = pushed \cup
       {[by |-> AccountOf[d], vault |-> handle[d].vault,
         version |-> handle[d].head + 1, text |-> text]}
  /\ UNCHANGED <<member, walk, keyBy, wrapped, got>>

(* The reply to an accepted push may be lost: the device then still counts *)
(* from the old base version.                                              *)
PushStored(d, text) ==
  /\ SealNext(d, text)
  /\ TakesPush(handle[d])
  /\ store' = [store EXCEPT ![handle[d].vault] = Append(@, NextBlob(handle[d], text))]
  /\ \/ handle' = [handle EXCEPT ![d].head = @ + 1]
     \/ UNCHANGED handle

PushRefused(d, text) ==
  /\ SealNext(d, text)
  /\ ~ TakesPush(handle[d])
  /\ UNCHANGED <<store, handle>>

(* decryptVault of whatever the server returned for version n. *)
Pull(d, n) ==
  /\ handle[d] # NoHandle
  /\ \E blob \in ServedBlobs(handle[d].vault, n) :
       LET text == decrypt_vault(blob, handle[d].key, vault_aad(handle[d].vault, n))
       IN  got' = IF text.ok
                  THEN [to |-> d, vault |-> handle[d].vault, version |-> n,
                        text |-> text.val]
                  ELSE NoText
  /\ UNCHANGED <<server, device, keyBy, sealed, wrapped, pushed>>

-----------------------------------------------------------------------------
(* A re-key (tests/vault.rs, a_whole_history_rekeys_version_by_version):   *)
(* every version is re-encrypted under one new key, each under its own     *)
(* associated data, and the result replaces the history in one request.    *)

StartRekey(d, k) ==
  /\ handle[d] # NoHandle
  /\ walk[d] = NoWalk
  /\ generate(d, k)
  /\ \E n \in ServedHeads(handle[d].vault) :
       walk' = [walk EXCEPT ![d] = [new |-> k, upto |-> n, batch |-> <<>>]]
  /\ UNCHANGED <<server, handle, sealed, wrapped, pushed, got>>

(* One version: download, reencrypt_vault.  An error ends the re-key, and  *)
(* nothing was written for it.                                             *)
RekeyVersion(d) ==
  /\ walk[d] # NoWalk
  /\ Len(walk[d].batch) < walk[d].upto
  /\ LET n == Len(walk[d].batch) + 1
         v == handle[d].vault
     IN  \E blob \in ServedBlobs(v, n) :
           LET moved == reencrypt_vault(blob, handle[d].key, walk[d].new, vault_aad(v, n))
           IN  walk' = IF moved.ok
                       THEN [walk EXCEPT ![d].batch = Append(@, moved.val)]
                       ELSE [walk EXCEPT ![d] = NoWalk]
  /\ UNCHANGED <<server, handle, keyBy, sealed, wrapped, pushed, got>>

(* Upload of the new history and of the new key, wrapped.  The reply to an *)
(* accepted re-key may be lost: the device goes on with the key it had.    *)
SubmitRekey(d) ==
  LET h   == handle[d]
      w   == walk[d]
      row == wrap_vault_key_with_master_key(w.new, AccountOf[d])
  IN  /\ w # NoWalk
      /\ Len(w.batch) = w.upto
      /\ sealed' = sealed \cup {w.batch[i] : i \in DOMAIN w.batch}
      /\ wrapped' = wrapped \cup {row}
      /\ walk' = [walk EXCEPT ![d] = NoWalk]
      /\ \/ /\ TakesRekey(h, w.upto)
            /\ store' = [store EXCEPT ![h.vault] = w.batch]
            /\ member' = [member EXCEPT ![h.vault] = row]
            /\ \/ handle' = [handle EXCEPT ![d] =
                    [vault |-> h.vault, key |-> w.new, head |-> w.upto, row |-> row]]
               \/ UNCHANGED handle
         \/ /\ ~ TakesRekey(h, w.upto)
            /\ UNCHANGED <<server, handle>>
      /\ UNCHANGED <<keyBy, pushed, got>>

(* The process ends, at any point: its keys and its batch are gone. *)
Exit(d) ==
  /\ handle[d] # NoHandle
  /\ handle' = [handle EXCEPT ![d] = NoHandle]
  /\ walk' = [walk EXCEPT ![d] = NoWalk]
  /\ UNCHANGED <<server, keyBy, sealed, wrapped, pushed, got>>

Next ==
  \E d \in Devices :
    \/ \E v \in Vaults, k \in Keys : CreateVault(d, v, k)
    \/ \E v \in Vaults : OpenVault(d, v)
    \/ \E t \in Texts : PushStored(d, t) \/ PushRefused(d, t)
    \/ \E n \in Versions : Pull(d, n)
    \/ \E k \in Keys : StartRekey(d, k)
    \/ RekeyVersion(d)
    \/ SubmitRekey(d)
    \/ Exit(d)

Spec == Init /\ [][Next]_vars

-----------------------------------------------------------------------------
(* A pull never returns anything but a text that some device of the same   *)
(* account sealed as that very version of that very vault, whatever blobs, *)
(* wrapped keys and version numbers the server serves and however often    *)
(* the vault was re-keyed in between.                                      *)
PulledTextWasPushed ==
  got # NoText =>
    [by |-> AccountOf[got.to], vault |-> got.vault,
     version |-> got.version, text |-> got.text] \in pushed

(* A handle only ever holds a vault key generated by a device of its own   *)
(* account: never another account's, never the sealed Ed25519 seed, which  *)
(* is stored in a row of the same shape.                                   *)
HandleKeyIsOwn ==
  \A d \in Devices : handle[d] # NoHandle =>
    handle[d].key \in Keys /\ keyBy[handle[d].key] = AccountOf[d]

(* The wrapped key on the server opens every stored version under that     *)
(* version's own associated data, and no other key opens any, between any  *)
(* two requests, whichever devices push, re-key or fail meanwhile: a       *)
(* re-key strands no version, and a key it replaced reads nothing that is  *)
(* stored or pushed later (vault.rs:239).                                  *)
StoredKeyAloneOpensHistory ==
  \A v \in Vaults : \A n \in DOMAIN store[v] :
    /\ member[v] # NoRow
    /\ \A k \in Keys :
         decrypt_vault(store[v][n], k, vault_aad(v, n)).ok <=> k = member[v].msg

(* The texts of a vault, seen through the encryption. *)
Log == INSTANCE VaultLog WITH
         log  <- [v \in Vaults |-> [n \in DOMAIN store[v] |-> store[v][n].text]],
         read <- IF got = NoText THEN NoText
                 ELSE [vault |-> got.vault, version |-> got.version, text |-> got.text]

(* With a faithful server the encrypted history behaves as an append-only  *)
(* log of texts: only a push adds a text, a re-key - finished, refused,    *)
(* abandoned or racing another - changes none, and a pull of version n     *)
(* returns the text stored as version n or nothing.                        *)
ImplementsLog == Log!Spec

-----------------------------------------------------------------------------
(* The inductive strengthenings of the proofs.                             *)

(* Where a key comes from: what is in a vault-key row, a handle or a walk  *)
(* was generated by the account it belongs to.                             *)
RowIsOwn(row) ==
  row.under.info = HKDF_INFO_VAULT_KEY_WRAP_MK =>
    row.msg \in Keys /\ keyBy[row.msg] = row.under.ikm

WrappedRowsAreOwn ==
  /\ \A row \in wrapped : RowIsOwn(row)
  /\ \A v \in Vaults : member[v] \in wrapped \cup {NoRow}

WalkIsOwn ==
  \A d \in Devices : walk[d] # NoWalk =>
    /\ handle[d] # NoHandle
    /\ keyBy[walk[d].new] = AccountOf[d]
    /\ Len(walk[d].batch) <= walk[d].upto

(* Where a text comes from: whatever a blob says was pushed by the account *)
(* that generated its key.                                                 *)
WasPushed(blob) ==
  [by |-> keyBy[blob.key], vault |-> blob.aad[1], version |-> blob.aad[2],
   text |-> blob.text] \in pushed

BlobsWerePushed ==
  /\ \A blob \in sealed : WasPushed(blob)
  /\ \A v \in Vaults : \A n \in DOMAIN store[v] : store[v][n] \in sealed
  /\ \A d \in Devices : walk[d] # NoWalk =>
       \A i \in DOMAIN walk[d].batch : WasPushed(walk[d].batch[i])

(* Where a blob belongs: slot n of vault v holds a blob sealed for it.     *)
FitsSlot(blob, v, n) == blob.intact /\ blob.aad = vault_aad(v, n)

SlotsAreAligned ==
  /\ \A v \in Vaults : \A n \in DOMAIN store[v] : FitsSlot(store[v][n], v, n)
  /\ \A d \in Devices : walk[d] # NoWalk =>
       \A i \in DOMAIN walk[d].batch :
         /\ FitsSlot(walk[d].batch[i], handle[d].vault, i)
         /\ walk[d].batch[i].key = walk[d].new

(* A handle's key is the one in the row it was unwrapped from, and an      *)
(* epoch-checking server stores only blobs under the member row's key.     *)
KeysFollowRows ==
  /\ \A d \in Devices : handle[d] # NoHandle =>
       handle[d].row \in wrapped /\ handle[d].key = handle[d].row.msg
  /\ EpochCheck => \A v \in Vaults : \A n \in DOMAIN store[v] :
       member[v] # NoRow /\ store[v][n].key = member[v].msg

(* A faithful server's history is what a re-key is made of.                *)
BatchCopiesHistory ==
  Faithful => \A d \in Devices : walk[d] # NoWalk =>
    /\ walk[d].upto <= Len(store[handle[d].vault])
    /\ \A i \in DOMAIN walk[d].batch :
         walk[d].batch[i].text = store[handle[d].vault][i].text

Provenance == WrappedRowsAreOwn /\ HandleKeyIsOwn /\ WalkIsOwn /\ BlobsWerePushed
=============================================================================
