------------------------------- MODULE KeySharing -------------------------------
(***************************************************************************)
(* Sharing vault keys (keypair.rs and its wasm wrapper): devices generate  *)
(* or recover their account's key pair, wrap vault keys for the public     *)
(* keys the server names, and unwrap what the server hands them.  A device *)
(* is one process signed in to one account, whose MasterKey it has.  Its   *)
(* handles live and go one by one: a vault key does not need the key pair  *)
(* it came through, and stays when that is destroyed.                      *)
(*                                                                         *)
(* The server answers every request with any combination of the parts it   *)
(* ever received: public keys of two users side by side, the three fields  *)
(* of different wraps, one column's row for another's.  It also re-encodes *)
(* points, offers low-order ones, and seals a key of its own for low-order *)
(* ephemerals, where it knows the secret.  A wrap does not name its        *)
(* sender: anybody can make one from the public keys.  Here that is any    *)
(* account, one of which may be the server's.                              *)
(***************************************************************************)
EXTENDS HybridCrypto

CONSTANTS
  Accounts,      \* the name also stands for the account's MasterKey
  Devices, AccountOf,
  Seeds,         \* Ed25519 seeds: what generate_keypair can draw
  Keys,          \* vault keys
  Draws,         \* the randomness of wraps
  NetworkKey,    \* a vault key drawn by the server
  NetworkDraw,   \* the randomness of its ciphertexts
  Nobody, NoKeypair, Nothing

Keypairs   == {generate_keypair(s) : s \in Seeds}
Publics    == {public_keys(kp) : kp \in Keypairs}
MasterRows == [under : [ikm : Accounts,
                        info : {HKDF_INFO_VAULT_KEY_WRAP_MK, HKDF_INFO_PRIVATE_KEY_ENC}],
               msg : Seeds \cup Keys, intact : {TRUE}]

BothEncodings(points) == points \cup {Point(p.of, TRUE) : p \in points}

(* Public keys two users published, in any pairing and encoding. *)
Pairings(pks) == [x25519 : BothEncodings({pk.x25519 : pk \in pks}),
                  mlkem  : {pk.mlkem : pk \in pks}]

(* A call of wrap_vault_key_for_user that succeeded, and what it returned. *)
Wrap == [key : Keys, to : Pairings(Publics), draw : Draws]
WrappedVaultKey(w) == wrap_vault_key_for_user(w.key, w.to, w.draw).val

ASSUME ConstantsAssumption ==
  /\ AccountOf \in [Devices -> Accounts]
  /\ Nobody \notin Accounts
  /\ NetworkKey \in Keys
  /\ NoKeypair \notin Keypairs
  /\ Malformed \notin {pk.mlkem : pk \in Publics}
  /\ Zero \notin BothEncodings({pk.x25519 : pk \in Publics} \cup {X25519Public(r) : r \in Draws})
  /\ \A pk \in Publics, r \in Draws :
       /\ Zero # KemSecret(pk.mlkem, KemCiphertext(pk.mlkem, r))
       /\ Zero # diffie_hellman(r, pk.x25519)

VARIABLES
  seedBy,     \* the account whose device generated each seed
  keyBy,      \* the account whose device generated each vault key
  keypair,    \* keypair[d]: the KeypairHandle of device d
  held,       \* held[d]: the VaultKeyHandles of device d
  published,  \* every pair of public keys uploaded
  rows,       \* every row sealed under a MasterKey and uploaded
  wraps,      \* every wrap made; its fields are uploaded
  opened      \* the last fields that unwrapped, with whose seed, and the key they gave

vars == <<seedBy, keyBy, keypair, held, published, rows, wraps, opened>>

TypeOK ==
  /\ seedBy \in [Seeds -> Accounts \cup {Nobody}]
  /\ keyBy \in [Keys -> Accounts \cup {Nobody}]
  /\ keypair \in [Devices -> Keypairs \cup {NoKeypair}]
  /\ held \in [Devices -> SUBSET Keys]
  /\ published \subseteq Publics
  /\ rows \subseteq MasterRows
  /\ wraps \subseteq Wrap
  /\ opened # Nothing => opened.by \in Seeds /\ opened.key \in Keys

-----------------------------------------------------------------------------
(* What the server hands out.                                              *)
OrDamaged(S) == S \cup {Altered(s) : s \in S}

ServedKeys == [x25519 : BothEncodings({pk.x25519 : pk \in published}) \cup {Zero},
               mlkem  : {pk.mlkem : pk \in published} \cup {Malformed}]

NetworkCiphertext(pk) == KemCiphertext(pk.mlkem, NetworkDraw)
NetworkSeal(pk) ==
  LET ct == NetworkCiphertext(pk)
  IN  SealedRow(hybrid_wrap_key(KemSecret(pk.mlkem, ct), Zero, ct, Zero, pk.x25519),
                NetworkKey)

Sealed == {WrappedVaultKey(w).encrypted_vault_key : w \in wraps}

ServedRows == OrDamaged(rows \cup Sealed)

ServedFields ==
  [eph_pub_key : BothEncodings({WrappedVaultKey(w).eph_pub_key : w \in wraps}) \cup {Zero},
   mlkem_ciphertext : {WrappedVaultKey(w).mlkem_ciphertext : w \in wraps}
                        \cup {NetworkCiphertext(pk) : pk \in published},
   encrypted_vault_key : OrDamaged(Sealed \cup rows \cup {NetworkSeal(pk) : pk \in published})]

-----------------------------------------------------------------------------
Init ==
  /\ seedBy = [s \in Seeds |-> Nobody]
  /\ keyBy = [k \in Keys |-> Nobody]
  /\ keypair = [d \in Devices |-> NoKeypair]
  /\ held = [d \in Devices |-> {}]
  /\ published = {}
  /\ rows = {}
  /\ wraps = {}
  /\ opened = Nothing

(* generate_keypair at registration, or when an account starts over. *)
GenerateKeypair(d, s) ==
  /\ keypair[d] = NoKeypair
  /\ seedBy[s] = Nobody
  /\ seedBy' = [seedBy EXCEPT ![s] = AccountOf[d]]
  /\ keypair' = [keypair EXCEPT ![d] = generate_keypair(s)]
  /\ UNCHANGED <<keyBy, held, published, rows, wraps, opened>>

(* Registration uploads the public keys together with the sealed seed. *)
PublishUnsealed(d) ==                                                 \* mutant
  /\ keypair[d] # NoKeypair
  /\ published' = published \cup {public_keys(keypair[d])}
  /\ UNCHANGED <<seedBy, keyBy, keypair, held, rows, wraps, opened>>
Publish(d) ==
  /\ keypair[d] # NoKeypair
  /\ published' = published \cup {public_keys(keypair[d])}
  /\ rows' = rows \cup {encrypt_private_key(keypair[d].seed, AccountOf[d])}
  /\ UNCHANGED <<seedBy, keyBy, keypair, held, wraps, opened>>

(* decrypt_private_key at login, on whatever row comes back. *)
OpenSeed(d) ==
  /\ keypair[d] = NoKeypair
  /\ \E row \in ServedRows :
       LET kp == decrypt_private_key(row, AccountOf[d])
       IN  kp.ok /\ keypair' = [keypair EXCEPT ![d] = kp.val]
  /\ UNCHANGED <<seedBy, keyBy, held, published, rows, wraps, opened>>

(* VaultKey::generate: no other handle is needed. *)
CreateKey(d, k) ==
  /\ keyBy[k] = Nobody /\ k # NetworkKey
  /\ keyBy' = [keyBy EXCEPT ![k] = AccountOf[d]]
  /\ held' = [held EXCEPT ![d] = @ \cup {k}]
  /\ UNCHANGED <<seedBy, keypair, published, rows, wraps, opened>>

(* wrap_vault_key_with_master_key: the account's own copy of any key it    *)
(* has, generated or received.                                             *)
KeepKey(d, k) ==
  /\ k \in held[d]
  /\ rows' = rows \cup {wrap_vault_key_with_master_key(k, AccountOf[d])}
  /\ UNCHANGED <<seedBy, keyBy, keypair, held, published, wraps, opened>>

(* unwrap_vault_key_with_master_key, on whatever row comes back. *)
OpenKept(d) ==
  /\ \E row \in ServedRows :
       LET key == unwrap_vault_key_with_master_key(row, AccountOf[d])
       IN  key.ok /\ held' = [held EXCEPT ![d] = @ \cup {key.val}]
  /\ UNCHANGED <<seedBy, keyBy, keypair, published, rows, wraps, opened>>

(* wrap_vault_key_for_user for the keys the server names. *)
Share(d, k, r) ==
  /\ k \in held[d]
  /\ \A w \in wraps : w.draw # r
  /\ \E pk \in ServedKeys :
       /\ wrap_vault_key_for_user(k, pk, r).ok
       /\ wraps' = wraps \cup {[key |-> k, to |-> pk, draw |-> r]}
  /\ UNCHANGED <<seedBy, keyBy, keypair, held, published, rows, opened>>

(* unwrap_vault_key.  A failure leaves everything as it is. *)
OpenShared(d) ==
  /\ keypair[d] # NoKeypair
  /\ \E fields \in ServedFields :
       LET key == unwrap_vault_key(fields, keypair[d])
       IN  /\ key.ok
           /\ held' = [held EXCEPT ![d] = @ \cup {key.val}]
           /\ opened' = [by |-> keypair[d].seed, fields |-> fields, key |-> key.val]
  /\ UNCHANGED <<seedBy, keyBy, keypair, published, rows, wraps>>

(* KeypairHandle::destroy drops the key pair and nothing else. *)
DestroyKeypair(d) ==
  /\ keypair[d] # NoKeypair
  /\ keypair' = [keypair EXCEPT ![d] = NoKeypair]
  /\ UNCHANGED <<seedBy, keyBy, held, published, rows, wraps, opened>>

(* VaultKeyHandle::destroy on one key. *)
DestroyKey(d, k) ==
  /\ k \in held[d]
  /\ held' = [held EXCEPT ![d] = @ \ {k}]
  /\ UNCHANGED <<seedBy, keyBy, keypair, published, rows, wraps, opened>>

(* The process ends, with all its handles. *)
Exit(d) ==
  /\ keypair[d] # NoKeypair \/ held[d] # {}
  /\ keypair' = [keypair EXCEPT ![d] = NoKeypair]
  /\ held' = [held EXCEPT ![d] = {}]
  /\ UNCHANGED <<seedBy, keyBy, published, rows, wraps, opened>>

Next ==
  \E d \in Devices :
    \/ \E s \in Seeds : GenerateKeypair(d, s)
    \/ Publish(d) \/ OpenSeed(d) \/ OpenShared(d) \/ OpenKept(d)
    \/ \E k \in Keys : \/ CreateKey(d, k) \/ KeepKey(d, k) \/ DestroyKey(d, k)
                       \/ \E r \in Draws : Share(d, k, r)
    \/ DestroyKeypair(d) \/ Exit(d)

Spec == Init /\ [][Next]_vars

-----------------------------------------------------------------------------
(* Fields that unwrap are the three fields of one wrap, byte for byte, and *)
(* that wrap was made for both public keys of the one who unwraps: parts   *)
(* of two wraps, another encoding of the ephemeral point, a wrap for a     *)
(* mixed pair of keys or a forged one open for nobody.                     *)
OpenedIsWhole ==
  opened # Nothing =>
    \E w \in wraps : /\ opened.fields = WrappedVaultKey(w)
                     /\ opened.key = w.key
                     /\ w.to = public_keys(generate_keypair(opened.by))

(* Neither primitive is trusted alone: who can compute every X25519 secret *)
(* or every ML-KEM secret, but not both, can compute no wrap key, whatever *)
(* public keys the sender was given.                                       *)
Computable(wrap_key, broken) ==
  /\ wrap_key.ikm[1] = Zero \/ broken = "ML-KEM"
  /\ wrap_key.ikm[2] = Zero \/ broken = "X25519"

EitherPrimitiveSuffices ==
  \A sealed \in Sealed : \A broken \in {"ML-KEM", "X25519"} :
    ~ Computable(sealed.under, broken)

(* A key shared with published keys is never lost: what is stored - the    *)
(* sealed seed and the wrap - is enough to open it on a new machine, under *)
(* the MasterKey alone (keypair.rs:445).                                   *)
SharesStayReadable ==
  \A w \in wraps, s \in Seeds :
    w.to = public_keys(generate_keypair(s)) =>
      \E row \in rows :
        LET kp == decrypt_private_key(row, seedBy[s])
        IN  kp.ok /\ unwrap_vault_key(WrappedVaultKey(w), kp.val) = Ok(w.key)

-----------------------------------------------------------------------------
(* What makes the above inductive.                                         *)

(* Rows hold either a seed of their account or a vault key. *)
RowsAreSealed ==
  \A row \in rows :
    \/ \E s \in Seeds : /\ seedBy[s] \in Accounts
                        /\ row = encrypt_private_key(s, seedBy[s])
    \/ \E k \in Keys, a \in Accounts : row = wrap_vault_key_with_master_key(k, a)

(* A key pair is open on devices of its account only. *)
KeypairsAreOwn ==
  \A d \in Devices :
    keypair[d] # NoKeypair => seedBy[keypair[d].seed] = AccountOf[d]

(* Published keys can be recovered. *)
PublishedAreSealed ==
  \A s \in Seeds : public_keys(generate_keypair(s)) \in published
                      => encrypt_private_key(s, seedBy[s]) \in rows

WrapsUsePublished == \A w \in wraps : w.to \in Pairings(published)

-----------------------------------------------------------------------------
(* What KeyGrants sees: an account knows what its devices hold and what it *)
(* keeps under its MasterKey; a grant is a wrap for both public keys of    *)
(* one of its key pairs.                                                   *)
createdBar == {k \in Keys : keyBy[k] # Nobody}
knowsBar   == [a \in Accounts |->
                 {k \in Keys : \/ wrap_vault_key_with_master_key(k, a) \in rows
                              \/ \E d \in Devices : AccountOf[d] = a /\ k \in held[d]}]
grantsBar  == {[key |-> g[1].key, to |-> seedBy[g[2]]] :
                 g \in {h \in wraps \X Seeds : /\ seedBy[h[2]] # Nobody
                                              /\ h[1].to = public_keys(generate_keypair(h[2]))}}

Grants == INSTANCE KeyGrants WITH
            Identities <- Accounts, created <- createdBar, knows <- knowsBar, grants <- grantsBar

(* Whatever the server serves and whichever handles are left, an account   *)
(* comes to know a key only by generating it or by a wrap that an account  *)
(* which knew the key made for both keys of one of its key pairs.          *)
ImplementsKeyGrants == Grants!Spec
=============================================================================
