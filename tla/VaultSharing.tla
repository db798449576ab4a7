------------------------------ MODULE VaultSharing ------------------------------
(***************************************************************************)
(* A shared vault: its members wrap the vault key for others, remove each  *)
(* other, and re-key - one reencrypt_vault per version and one wrap per    *)
(* remaining member - while others push, share, remove or re-key.  It puts *)
(* the vault operations of vault.rs and the wraps of keypair.rs together.  *)
(*                                                                         *)
(* Who may do what is the server's business; here any member may do        *)
(* anything.  The server returns what it stores, and refuses a request of  *)
(* one whose wrapped key has been replaced or removed since it was opened, *)
(* and a re-key whose versions or members are not the present ones.        *)
(* Against reading there is no trust in it at all: whoever has a key is    *)
(* taken to see every row and blob that was ever uploaded.                 *)
(***************************************************************************)
EXTENDS HybridCrypto

CONSTANTS
  Users,        \* a name also stands for the user's MasterKey and seed
  Creator,      \* who created the vault,
  FirstKey,     \* under this key
  Keys,         \* the keys VaultKey::generate can return
  Vault,        \* the id of the vault
  MaxVersion,   \* bound on its versions
  Text,         \* the content of the .env file
  Null,         \* SQL NULL
  Nobody, NoRow, NoHandle, NoWalk

Versions == 1..MaxVersion

(* One content for all versions: a version that opens is told apart by its *)
(* associated data; what it says is VaultHistory's subject.                *)
Sealed(n, key) == encrypt_vault(Text, key, vault_aad(Vault, n))
Opened(blob, n, key) == decrypt_vault(blob, key, vault_aad(Vault, n))

(* A row of vault_members: a user's own copy, sealed under the MasterKey   *)
(* with eph_pub_key NULL, or a wrap made by another member.  Every wrap    *)
(* draws anew; the draw is named by what it is used for.                   *)
Draw(k, u) == hkdf_subkey(<<k, u>>, "draw")
PublicsOf(u) == public_keys(generate_keypair(u))                 \* at registration
KeypairOf(u) == decrypt_private_key(encrypt_private_key(u, u), u).val   \* at a login

OwnRow(k, u) ==
  [eph_pub_key         |-> Null,
   mlkem_ciphertext    |-> Null,
   encrypted_vault_key |-> wrap_vault_key_with_master_key(k, u)]
SharedRow(k, u) == wrap_vault_key_for_user(k, PublicsOf(u), Draw(k, u)).val

(* The public keys the server has for u, some columns spoilt: a low-order  *)
(* point, 1184 bytes that are no key.  There is no wrap for such keys.     *)
Columns == {"x25519", "mlkem"}
ServedFor(u, spoilt) ==
  [x25519 |-> IF "x25519" \in spoilt THEN Zero ELSE PublicsOf(u).x25519,
   mlkem  |-> IF "mlkem" \in spoilt THEN Malformed ELSE PublicsOf(u).mlkem]
WrapFor(k, u, spoilt) == wrap_vault_key_for_user(k, ServedFor(u, spoilt), Draw(k, u))

open_row(row, u) ==
  IF row.eph_pub_key = Null
  THEN unwrap_vault_key_with_master_key(row.encrypted_vault_key, u)
  ELSE unwrap_vault_key(row, KeypairOf(u))

Blob   == [key : Keys, aad : {Vault} \X Versions, text : {Text}, intact : BOOLEAN]
Row    == {OwnRow(k, u) : k \in Keys, u \in Users} \cup
          {SharedRow(k, u) : k \in Keys, u \in Users}
Handle == [key : Keys, row : Row]
Walk   == [new : Keys, roster : SUBSET Users, upto : 0..MaxVersion, batch : Seq(Blob)]

ASSUME ConstantsAssumption ==
  /\ Creator \in Users
  /\ FirstKey \in Keys
  /\ MaxVersion \in Nat
  /\ Nobody \notin Users
  /\ NoRow \notin Row
  /\ NoHandle \notin Handle
  /\ NoWalk \notin Walk
  /\ \A k \in Keys, u \in Users :
       /\ X25519Public(Draw(k, u)) \notin {Zero, Null}
       /\ PublicsOf(u).x25519 # Zero
       /\ PublicsOf(u).mlkem # Malformed
       /\ diffie_hellman(Draw(k, u), PublicsOf(u).x25519) # Zero

VARIABLES
  store,      \* server: store[n] is the blob of version n
  members,    \* server: members[u] is the row of member u
  handle,     \* handle[u]: the VaultKeyHandle of user u, and the row it is from
  walk,       \* walk[u]: the re-key user u is in the middle of
  keyBy,      \* who generated each key
  uploaded    \* every row any user ever uploaded

vars == <<store, members, handle, walk, keyBy, uploaded>>

TypeOK ==
  /\ store \in Seq(Blob) /\ Len(store) <= MaxVersion
  /\ members \in [Users -> Row \cup {NoRow}]
  /\ handle \in [Users -> Handle \cup {NoHandle}]
  /\ walk \in [Users -> Walk \cup {NoWalk}]
  /\ keyBy \in [Keys -> Users \cup {Nobody}]
  /\ uploaded \subseteq Row

Roster == {u \in Users : members[u] # NoRow}

(* What the server asks of a request: the caller's key is the present one. *)
IsCurrent(u) == members[u] # NoRow /\ handle[u].row = members[u]

-----------------------------------------------------------------------------
Init ==
  /\ store = <<>>
  /\ members = [u \in Users |-> IF u = Creator THEN OwnRow(FirstKey, u) ELSE NoRow]
  /\ handle = [u \in Users |-> NoHandle]
  /\ walk = [u \in Users |-> NoWalk]
  /\ keyBy = [k \in Keys |-> IF k = FirstKey THEN Creator ELSE Nobody]
  /\ uploaded = {OwnRow(FirstKey, Creator)}

(* unwrapVaultKey or unwrapSharedVaultKey of the row the server has. *)
OpenVault(u) ==
  /\ handle[u] = NoHandle
  /\ members[u] # NoRow
  /\ LET key == open_row(members[u], u)
     IN  /\ key.ok
         /\ handle' = [handle EXCEPT ![u] = [key |-> key.val, row |-> members[u]]]
  /\ UNCHANGED <<store, members, walk, keyBy, uploaded>>

(* encryptVault at the next version.  A refused push changes nothing. *)
Push(u) ==
  /\ handle[u] # NoHandle
  /\ IsCurrent(u)
  /\ Len(store) < MaxVersion
  /\ store' = Append(store, Sealed(Len(store) + 1, handle[u].key))
  /\ UNCHANGED <<members, handle, walk, keyBy, uploaded>>

(* wrapVaultKeyForUser.  The wrap leaves the device, accepted or not; one  *)
(* that fails does nothing.                                                *)
Share(a, u) ==
  /\ handle[a] # NoHandle /\ u # a
  /\ \E spoilt \in SUBSET Columns :
       LET row == WrapFor(handle[a].key, u, spoilt)
       IN  /\ row.ok
           /\ uploaded' = uploaded \cup {row.val}
           /\ members' = IF IsCurrent(a) /\ members[u] = NoRow
                         THEN [members EXCEPT ![u] = row.val]
                         ELSE members
  /\ UNCHANGED <<store, handle, walk, keyBy>>

(* The server drops the row; keys in memory are not its to drop. *)
Remove(a, u) ==
  /\ handle[a] # NoHandle
  /\ IsCurrent(a)
  /\ u # a /\ members[u] # NoRow
  /\ members' = [members EXCEPT ![u] = NoRow]
  /\ UNCHANGED <<store, handle, walk, keyBy, uploaded>>

-----------------------------------------------------------------------------
(* A re-key under a fresh key, for the versions and members of the moment, *)
(* which the server tells to members only.                                 *)
StartRekey(a, k) ==
  /\ handle[a] # NoHandle
  /\ walk[a] = NoWalk
  /\ members[a] # NoRow
  /\ keyBy[k] = Nobody
  /\ keyBy' = [keyBy EXCEPT ![k] = a]
  /\ walk' = [walk EXCEPT ![a] =
       [new |-> k, roster |-> Roster, upto |-> Len(store), batch |-> <<>>]]
  /\ UNCHANGED <<store, members, handle, uploaded>>

(* One reencrypt_vault.  An error ends the re-key. *)
RekeyVersion(a) ==
  /\ walk[a] # NoWalk
  /\ Len(walk[a].batch) < walk[a].upto
  /\ LET n     == Len(walk[a].batch) + 1
         moved == reencrypt_vault(store[n], handle[a].key, walk[a].new, vault_aad(Vault, n))
     IN  walk' = IF moved.ok
                 THEN [walk EXCEPT ![a].batch = Append(@, moved.val)]
                 ELSE [walk EXCEPT ![a] = NoWalk]
  /\ UNCHANGED <<store, members, handle, keyBy, uploaded>>

(* The new key, wrapped for everybody on the roster, oneself included; any *)
(* of the wraps may fail.                                                  *)
Answers(a) == [walk[a].roster -> SUBSET Columns]
RowsFor(a, spoilt) ==
  [u \in walk[a].roster |-> IF u = a THEN Ok(OwnRow(walk[a].new, u))
                                     ELSE WrapFor(walk[a].new, u, spoilt[u])]

TakesRekey(a) ==
  /\ IsCurrent(a)
  /\ walk[a].roster = Roster
  /\ walk[a].upto = Len(store)

Made(rows)    == \A u \in DOMAIN rows : rows[u].ok
Uploads(rows) == uploaded' = uploaded \cup {rows[u].val : u \in DOMAIN rows}
Replaces(a, rows) ==
  /\ store' = walk[a].batch
  /\ members' = [u \in Users |-> IF u \in DOMAIN rows THEN rows[u].val ELSE NoRow]

SubmitRekeyRetry(a) ==                                                \* mutant
  /\ walk[a] # NoWalk
  /\ Len(walk[a].batch) = walk[a].upto
  /\ \E spoilt \in Answers(a) :
       LET rows == RowsFor(a, spoilt)
       IN  /\ Made(rows)
           /\ Uploads(rows)
           /\ IF TakesRekey(a)
              THEN Replaces(a, rows) /\ walk' = [walk EXCEPT ![a] = NoWalk]
              ELSE walk' = [walk EXCEPT ![a].roster = Roster] /\ UNCHANGED <<store, members>>
  /\ UNCHANGED <<handle, keyBy>>

SubmitRekeyPartial(a) ==    \* mutant: a member whose wrap fails keeps the old row
  /\ walk[a] # NoWalk
  /\ Len(walk[a].batch) = walk[a].upto
  /\ TakesRekey(a)
  /\ \E spoilt \in Answers(a) :
       LET rows == RowsFor(a, spoilt)
           made == {u \in DOMAIN rows : rows[u].ok}
       IN  /\ uploaded' = uploaded \cup {rows[u].val : u \in made}
           /\ members' = [u \in Users |-> IF u \in made THEN rows[u].val ELSE members[u]]
  /\ store' = walk[a].batch
  /\ walk' = [walk EXCEPT ![a] = NoWalk]
  /\ UNCHANGED <<handle, keyBy>>

(* Without all the rows nothing is uploaded.  History and rows are         *)
(* replaced in one request, or nothing is; the reply to a request that was *)
(* taken may be lost.  In every case the re-key is over: another attempt   *)
(* starts from the beginning, with another key.                            *)
SubmitRekey(a) ==
  /\ walk[a] # NoWalk
  /\ Len(walk[a].batch) = walk[a].upto
  /\ walk' = [walk EXCEPT ![a] = NoWalk]
  /\ \/ \E spoilt \in Answers(a) :
          LET rows == RowsFor(a, spoilt)
          IN  /\ Made(rows)
              /\ Uploads(rows)
              /\ IF TakesRekey(a)
                 THEN /\ Replaces(a, rows)
                      /\ handle' \in {handle, [handle EXCEPT ![a] =
                                      [key |-> walk[a].new, row |-> rows[a].val]]}
                 ELSE UNCHANGED <<store, members, handle>>
     \/ /\ ~ \A spoilt \in Answers(a) : Made(RowsFor(a, spoilt))
        /\ UNCHANGED <<store, members, handle, uploaded>>
  /\ UNCHANGED keyBy

(* destroy on the handle or the end of the process. *)
Exit(u) ==
  /\ handle[u] # NoHandle
  /\ handle' = [handle EXCEPT ![u] = NoHandle]
  /\ walk' = [walk EXCEPT ![u] = NoWalk]
  /\ UNCHANGED <<store, members, keyBy, uploaded>>

Next ==
  \E a \in Users :
    \/ OpenVault(a) \/ Push(a) \/ RekeyVersion(a) \/ SubmitRekey(a) \/ Exit(a)
    \/ \E u \in Users : Share(a, u) \/ Remove(a, u)
    \/ \E k \in Keys : StartRekey(a, k)

Spec == Init /\ [][Next]_vars

-----------------------------------------------------------------------------
(* Every member's row, alone with that member's MasterKey and sealed seed, *)
(* gives the one key that opens the stored versions, at every moment:      *)
(* whoever was added, removed or re-keyed while others did the same        *)
(* (keypair.rs:445, vault.rs:219).                                         *)
MembersOpenHistory ==
  \A u \in Roster : \E k \in Keys :
    /\ open_row(members[u], u) = Ok(k)
    /\ \A n \in DOMAIN store, other \in Keys :
         Opened(store[n], n, other) = IF other = k THEN Ok(Text) ELSE Err("Decryption")

(* The keys user u can ever get: those u generated, and whatever opens in  *)
(* u's hands of all that was ever uploaded.  A reader can get the one the  *)
(* members have.                                                           *)
KeysIn(opened) == {key.val : key \in {o \in opened : o.ok}}

Reach(u)  == {k \in Keys : keyBy[k] = u} \cup KeysIn({open_row(row, u) : row \in uploaded})
VaultKeys == KeysIn({open_row(members[u], u) : u \in Roster})
Readers   == LET current == VaultKeys IN {u \in Users : Reach(u) \cap current # {}}

Access == INSTANCE AccessList WITH
            Locks <- SUBSET Keys, members <- Roster, readers <- Readers, lock <- VaultKeys

(* Removal and re-key together revoke: after a re-key exactly the members  *)
(* can get at the key that opens the history.  Those who were removed      *)
(* before it, or while it was in progress, cannot, whatever they kept and  *)
(* whatever was uploaded, and only a share adds a reader again             *)
(* (vault.rs:239, CHANGELOG.md:16-20).                                     *)
ImplementsAccessList == Access!Spec
=============================================================================
