------------------------------- MODULE WireFormat -------------------------------
(***************************************************************************)
(* What the crate sends and what it makes of what comes back: base64 of    *)
(* encoding.rs, the codecs of keypair.rs and kdf.rs, the splits at a nonce *)
(* and the length checks around every seal.  A device uploads its columns; *)
(* what it is later served may be cut, replaced by other bytes of any      *)
(* length, taken from another column or sealed by a stranger.              *)
(*                                                                         *)
(* A column is so many bytes of some origin; which bytes they are is left  *)
(* out.  Cutting a value at an index outside of it, and copying into an    *)
(* array of another length, panic in Rust: here they return Err("panic").  *)
(***************************************************************************)
EXTENDS AssociatedData

CONSTANTS
  Ids,        \* vault ids, as bytes
  Versions,   \* versions that are pushed and asked for
  Lengths,    \* lengths, in bytes, of what may be served instead of a column
  Cuts,       \* lengths, in characters, to which a text may be cut
  Foreign     \* lengths of what a stranger may have sealed for the device

ASSUME WireAssumption ==
  /\ Ids \subseteq Seq(Byte) /\ Versions \subseteq U32
  /\ Lengths \subseteq Nat /\ Cuts \subseteq Nat /\ Foreign \subseteq Nat \ {32}

NONCE_LEN               == 12
XCHACHA_NONCE_LEN       == 24
TAG_LEN                 == 16      \* of AES-GCM and of Poly1305
KEY_LEN                 == 32      \* of salts, seeds, vault keys and X25519 keys
MLKEM768_PUBLIC_LEN     == 1184
MLKEM768_CIPHERTEXT_LEN == 1088

WrapColumns == {"encrypted_vault_key", "eph_pub_key", "mlkem_ciphertext"}
Texts       == {"argon2_salt", "x25519_public_key", "mlkem_public_key",
                "encrypted_private_key"} \cup WrapColumns
PublicKeys  == {"x25519_public_key", "mlkem_public_key", "eph_pub_key"}
Columns     == Texts \cup {"own_vault_key", "blob"}   \* these two are raw bytes

-----------------------------------------------------------------------------
(* Results, and what can panic. *)
Ok(x)  == [ok |-> TRUE,  val |-> x]
Err(e) == [ok |-> FALSE, err |-> e]
Then(r, F(_)) == IF r.ok THEN F(r.val) ELSE r          \* the ? operator

split_at(b, n) == IF n <= b.len THEN Ok([len |-> b.len - n, of |-> b.of])
                                ELSE Err("panic")
copy_from_slice(b, n) == IF b.len = n THEN Ok(b) ELSE Err("panic")

(* Where bytes come from: a column as its writer made it - sealed around a *)
(* content of some length, with associated data - or anything else.        *)
Made(column, content, aad) == [column |-> column, content |-> content, aad |-> aad]
Garbage    == Made("none", 0, <<>>)
Degenerate == Made("degenerate", 0, <<>>)   \* a low-order point, no ML-KEM key
NotBase64  == Made("not base64", 0, <<>>)

Bytes(n, origin) == [len |-> n, of |-> origin]

-----------------------------------------------------------------------------
(* Base64: four characters for every three bytes, padded. *)
b64_encodeUnpadded(b) ==                                              \* mutant
  [chars |-> (4 * b.len + 2) \div 3, pad |-> 0, of |-> b.of]
b64_encode(b) == [chars |-> 4 * ((b.len + 2) \div 3),
                  pad   |-> (3 - (b.len % 3)) % 3, of |-> b.of]

b64_decode(t) ==
  IF t.chars % 4 = 0 /\ t.of # NotBase64
  THEN Ok(Bytes(3 * (t.chars \div 4) - t.pad, t.of))
  ELSE Err("InvalidInput")

b64_decode_array(t, n) ==
  Then(b64_decode(t), LAMBDA b : IF b.len # n THEN Err("InvalidInput")
                                              ELSE copy_from_slice(b, n))

salt_from_base64(t) == b64_decode_array(t, KEY_LEN)

UserPublicKeys_from_base64(x25519, mlkem) ==
  Then(b64_decode_array(x25519, KEY_LEN), LAMBDA x :
    Then(b64_decode_array(mlkem, MLKEM768_PUBLIC_LEN), LAMBDA k :
      Ok([x25519 |-> x, mlkem |-> k])))

(* The nonce is cut off here; decrypt_private_key opens the rest. *)
EncryptedPrivateKey_from_base64WholeSeal(t) ==                        \* mutant
  Then(b64_decode(t), LAMBDA b :
    IF b.len <= XCHACHA_NONCE_LEN + KEY_LEN + TAG_LEN THEN Err("InvalidInput")
    ELSE split_at(b, XCHACHA_NONCE_LEN))
EncryptedPrivateKey_from_base64(t) ==
  Then(b64_decode(t), LAMBDA b :
    IF b.len < XCHACHA_NONCE_LEN + TAG_LEN THEN Err("InvalidInput")
    ELSE split_at(b, XCHACHA_NONCE_LEN))

(* The three fields of a share; the ciphertext is looked at first. *)
WrappedVaultKey_from_base64(key, eph, kem) ==
  Then(b64_decode(kem), LAMBDA c :
    IF c.len # MLKEM768_CIPHERTEXT_LEN THEN Err("InvalidInput") ELSE
    Then(b64_decode_array(eph, KEY_LEN), LAMBDA e :
      Then(b64_decode(key), LAMBDA k :
        Ok([eph_pub_key |-> e, mlkem_ciphertext |-> c, encrypted_vault_key |-> k]))))

-----------------------------------------------------------------------------
(* Seals.  What was made as the column, under this key, opens to its       *)
(* content; everything else, and every cut, fails the tag.                 *)
decrypt(b, column, right, error) ==
  IF right /\ b.of.column = column THEN Ok(Bytes(b.of.content, b.of)) ELSE Err(error)

(* Every opened key is checked to have 32 bytes before it is copied. *)
TakeKey(r) ==
  Then(r, LAMBDA p : IF p.len # KEY_LEN THEN Err("InvalidInput")
                                        ELSE copy_from_slice(p, KEY_LEN))

Salt == Bytes(KEY_LEN, Made("argon2_salt", 0, <<>>))

decrypt_private_key(enc, mk) ==
  TakeKey(decrypt(enc, "encrypted_private_key", mk = Salt, "KeyUnwrap"))

unwrap_vault_key_with_master_key(wrapped, mk) ==
  IF wrapped.len < XCHACHA_NONCE_LEN + KEY_LEN THEN Err("InvalidInput")
  ELSE Then(split_at(wrapped, XCHACHA_NONCE_LEN), LAMBDA c :
         TakeKey(decrypt(c, "own_vault_key", mk = Salt, "KeyUnwrap")))

mlkem_decapsulate(c) ==
  IF c.len # MLKEM768_CIPHERTEXT_LEN THEN Err("InvalidInput") ELSE Ok(c)

(* The three fields make the wrap key only together: of one wrap (one      *)
(* content).                                                               *)
unwrap_vault_key(w) ==
  IF w.eph_pub_key.of = Degenerate THEN Err("InvalidPublicKey") ELSE
  Then(mlkem_decapsulate(w.mlkem_ciphertext), LAMBDA c :
    IF w.encrypted_vault_key.len < XCHACHA_NONCE_LEN THEN Err("InvalidInput") ELSE
    Then(split_at(w.encrypted_vault_key, XCHACHA_NONCE_LEN), LAMBDA k :
      LET content == k.of.content
          right   == /\ c.of = Made("mlkem_ciphertext", content, <<>>)
                     /\ w.eph_pub_key.of = Made("eph_pub_key", content, <<>>)
      IN  TakeKey(decrypt(k, "encrypted_vault_key", right, "KeyUnwrap"))))

decrypt_vaultUnchecked(blob, id, version) ==                          \* mutant
  Then(split_at(blob, NONCE_LEN), LAMBDA c :
    decrypt(c, "blob", c.of.aad = vault_aad(id, version), "Decryption"))
decrypt_vault(blob, id, version) ==
  IF blob.len < NONCE_LEN THEN Err("shorter than a nonce")
  ELSE Then(split_at(blob, NONCE_LEN), LAMBDA c :
         decrypt(c, "blob", c.of.aad = vault_aad(id, version), "Decryption"))

-----------------------------------------------------------------------------
(* What is written, as bytes. *)
Wrap(content) ==
  [c \in WrapColumns |->
    Bytes(CASE c = "encrypted_vault_key" -> XCHACHA_NONCE_LEN + content + TAG_LEN
            [] c = "eph_pub_key"         -> KEY_LEN
            [] c = "mlkem_ciphertext"    -> MLKEM768_CIPHERTEXT_LEN,
          Made(c, content, <<>>))]

Sealed(column) == Bytes(XCHACHA_NONCE_LEN + KEY_LEN + TAG_LEN, Made(column, KEY_LEN, <<>>))
X25519Public   == Bytes(KEY_LEN, Made("x25519_public_key", 0, <<>>))
MlkemPublic    == Bytes(MLKEM768_PUBLIC_LEN, Made("mlkem_public_key", 0, <<>>))

encrypt_vault(id, version) ==
  Bytes(NONCE_LEN + KEY_LEN + TAG_LEN, Made("blob", KEY_LEN, vault_aad(id, version)))

(* A wrap for keys that are not ours opens for somebody else, or nobody.   *)
wrap_vault_key_for_user(keys) ==
  IF Degenerate \in {keys.x25519.of, keys.mlkem.of} THEN Err("InvalidPublicKey")
  ELSE Ok(IF keys = [x25519 |-> X25519Public, mlkem |-> MlkemPublic] THEN Wrap(KEY_LEN)
          ELSE [c \in WrapColumns |-> Bytes(Wrap(KEY_LEN)[c].len, Garbage)])

AsServed(c, b) == IF c \in Texts THEN b64_encode(b) ELSE b

(* Lengths the server insists on, in characters. *)
server_validates(c, t) ==
  CASE c \in {"argon2_salt", "x25519_public_key", "eph_pub_key"} -> t.chars = 44
    [] c = "mlkem_public_key"      -> t.chars = 1580
    [] c = "mlkem_ciphertext"      -> t.chars = 1452
    [] c = "encrypted_private_key" -> t.chars \in 60..300
    [] OTHER -> TRUE

-----------------------------------------------------------------------------
VARIABLES
  stored,      \* columns as last uploaded
  served,      \* columns as a device is served them
  sealed,      \* <<id, version>> the stored blob is sealed to
  mk, kp, vk,  \* the device: its master key, whether it has its key pair, a vault key
  last         \* the last call and its result

vars == <<stored, served, sealed, mk, kp, vk, last>>

NoKey == Bytes(0, Garbage)
Call(op, at, r) ==
  [op |-> op, at |-> at, ok |-> r.ok, err |-> IF r.ok THEN "none" ELSE r.err]
Start == Call("none", <<>>, Ok(0))

Init ==
  /\ stored = <<>> /\ served = <<>> /\ sealed = <<>>
  /\ mk = NoKey /\ kp = FALSE /\ vk = FALSE
  /\ last = Start

With(f, cells) ==
  [c \in DOMAIN f \cup DOMAIN cells |-> IF c \in DOMAIN cells THEN cells[c] ELSE f[c]]

Upload(op, values) ==
  LET cells == [c \in DOMAIN values |-> AsServed(c, values[c])]
  IN  IF \A c \in DOMAIN cells : server_validates(c, cells[c])
      THEN /\ stored' = With(stored, cells) /\ served' = With(served, cells)
           /\ last' = Call(op, <<>>, Ok(0))
      ELSE /\ last' = Call(op, <<>>, Err("refused"))
           /\ UNCHANGED <<stored, served>>

Complete == Columns \subseteq DOMAIN served

Register ==
  /\ stored = <<>>
  /\ Upload("register",
       [c \in {"argon2_salt", "x25519_public_key", "mlkem_public_key",
               "encrypted_private_key"} |->
         CASE c = "argon2_salt"           -> Salt
           [] c = "x25519_public_key"     -> X25519Public
           [] c = "mlkem_public_key"      -> MlkemPublic
           [] c = "encrypted_private_key" -> Sealed(c)])
  /\ mk' = Salt /\ kp' = TRUE
  /\ UNCHANGED <<sealed, vk>>

(* createVaultKey and wrapVaultKey under the account's own master key. *)
CreateVault ==
  /\ mk = Salt /\ "own_vault_key" \notin DOMAIN stored
  /\ Upload("create", [c \in {"own_vault_key"} |-> Sealed(c)])
  /\ vk' = TRUE
  /\ UNCHANGED <<sealed, mk, kp>>

Push(id, version) ==
  /\ vk
  /\ Upload("push", [c \in {"blob"} |-> encrypt_vault(id, version)])
  /\ sealed' = <<id, version>>
  /\ UNCHANGED <<mk, kp, vk>>

(* A member wraps for the keys the directory serves. *)
Share ==
  /\ "blob" \in DOMAIN stored
  /\ LET keys == UserPublicKeys_from_base64(served["x25519_public_key"],
                                            served["mlkem_public_key"])
          wrap == Then(keys, LAMBDA k : wrap_vault_key_for_user(k))
      IN  IF wrap.ok THEN Upload("share", wrap.val)
          ELSE last' = Call("share", <<>>, wrap) /\ UNCHANGED <<stored, served>>
  /\ UNCHANGED <<sealed, mk, kp, vk>>

-----------------------------------------------------------------------------
(* What a device may be served instead.  The result of an earlier call is  *)
(* forgotten: last is always of the columns as they are.                   *)
Alter(cells) ==
  /\ Complete
  /\ served' = With(served, cells)
  /\ last' = Start
  /\ UNCHANGED <<stored, sealed, mk, kp, vk>>

Cut(c) ==
  /\ c \in Texts /\ Complete
  /\ \E n \in Cuts :
       n < served[c].chars /\ Alter([x \in {c} |-> [chars |-> n, pad |-> 0, of |-> Garbage]])

Replace(c) ==
  \E n \in Lengths, o \in {Garbage} \cup IF c \in PublicKeys THEN {Degenerate} ELSE {} :
    Alter([x \in {c} |-> AsServed(c, Bytes(n, o))])

Scramble(c) ==
  /\ c \in Texts /\ Complete
  /\ Alter([x \in {c} |-> [served[c] EXCEPT !.of = NotBase64]])

(* A column served in the place of another one. *)
Swap(c, d) ==
  /\ c # d /\ Complete
  /\ LET b == IF d \in Texts THEN b64_decode(stored[d]).val ELSE stored[d]
      IN  Alter([x \in {c} |-> AsServed(c, b)])

(* A stranger can seal anything for public keys, with code of its own.     *)
Forge == \E n \in Foreign : Alter([c \in WrapColumns |-> b64_encode(Wrap(n)[c])])

-----------------------------------------------------------------------------
(* The reading calls. *)
Read(op, at, r) == last' = Call(op, at, r) /\ UNCHANGED <<stored, served, sealed>>

DeriveMasterKey ==
  /\ Complete
  /\ LET salt == salt_from_base64(served["argon2_salt"])
      IN  /\ Read("deriveMasterKey", <<>>, salt)
          /\ mk' = IF salt.ok THEN salt.val ELSE mk
  /\ UNCHANGED <<kp, vk>>

DecryptPrivateKey ==
  /\ Complete /\ mk # NoKey
  /\ LET keypair == Then(EncryptedPrivateKey_from_base64(served["encrypted_private_key"]),
                         LAMBDA enc : decrypt_private_key(enc, mk))
      IN  /\ Read("decryptPrivateKey", <<>>, keypair)
          /\ kp' = (kp \/ keypair.ok)
  /\ UNCHANGED <<mk, vk>>

UnwrapVaultKey ==
  /\ Complete /\ mk # NoKey
  /\ LET key == unwrap_vault_key_with_master_key(served["own_vault_key"], mk)
      IN  /\ Read("unwrapVaultKey", <<>>, key)
          /\ vk' = (vk \/ key.ok)
  /\ UNCHANGED <<mk, kp>>

UnwrapSharedVaultKey ==
  /\ Complete /\ kp
  /\ LET key == Then(WrappedVaultKey_from_base64(served["encrypted_vault_key"],
                       served["eph_pub_key"], served["mlkem_ciphertext"]),
                     LAMBDA w : unwrap_vault_key(w))
      IN  /\ Read("unwrapSharedVaultKey", <<>>, key)
          /\ vk' = (vk \/ key.ok)
  /\ UNCHANGED <<mk, kp>>

DecryptVault(id, version) ==
  /\ Complete /\ vk
  /\ Read("decryptVault", <<id, version>>, decrypt_vault(served["blob"], id, version))
  /\ UNCHANGED <<mk, kp, vk>>

AadSelfTest(id, version) ==
  /\ Read("aadSelfTest", <<id, version>>,
          IF aad_self_test(id, version) THEN Ok(0) ELSE Err("false"))
  /\ UNCHANGED <<mk, kp, vk>>

(* destroy, of every handle. *)
Exit ==
  /\ mk' = NoKey /\ kp' = FALSE /\ vk' = FALSE
  /\ last' = Start
  /\ UNCHANGED <<stored, served, sealed>>

Next ==
  \/ Register
  \/ CreateVault
  \/ \E id \in Ids, n \in Versions :
       Push(id, n) \/ DecryptVault(id, n) \/ AadSelfTest(id, n)
  \/ Share
  \/ \E c \in Columns : Cut(c) \/ Replace(c) \/ Scramble(c)
  \/ \E c, d \in Columns : Swap(c, d)
  \/ Forge
  \/ DeriveMasterKey
  \/ DecryptPrivateKey
  \/ UnwrapVaultKey
  \/ UnwrapSharedVaultKey
  \/ Exit

Spec == Init /\ [][Next]_vars

-----------------------------------------------------------------------------
Reads(op) ==
  CASE op = "share"                -> {"x25519_public_key", "mlkem_public_key"}
    [] op = "deriveMasterKey"      -> {"argon2_salt"}
    [] op = "decryptPrivateKey"    -> {"encrypted_private_key"}
    [] op = "unwrapVaultKey"       -> {"own_vault_key"}
    [] op = "unwrapSharedVaultKey" -> WrapColumns
    [] op = "decryptVault"         -> {"blob"}
    [] OTHER                       -> {}

Intact == \A c \in Reads(last.op) : served[c] = stored[c]

Shape(cell) == [cell EXCEPT !.of = Garbage]
WellFormed(c) == Shape(served[c]) = Shape(stored[c]) /\ served[c].of # NotBase64

(* No call that reads what the server stores - salts, wrapped keys, the    *)
(* sealed seed, public keys, blobs - panics, whatever it is served: every  *)
(* split and every copy into an array comes after a check of the length,   *)
(* in the same function or in the codec that made its argument             *)
(* (keypair.rs:724, vault.rs:297, wasm.rs:171, keypair.rs:1000).           *)
NeverPanics == last.err # "panic"

(* Every text the crate writes has the length the server insists on        *)
(* (encoding.rs:15): no upload is ever refused.                            *)
UploadsAccepted == last.err # "refused"

(* InvalidInput is for malformed values (errors.rs:48).  A value with the  *)
(* shape of what was written never gives it, however wrong the password    *)
(* or the bytes: a user with a wrong password is not told that the account *)
(* is damaged (wasm.rs:500).                                               *)
OnlyMalformedIsInvalid ==
  last.err = "InvalidInput" => \E c \in Reads(last.op) : ~WellFormed(c)

(* A sealed value opens exactly when all that was read is as it was        *)
(* written, the salt behind the master key too, and a blob only under the  *)
(* vault id and the version it was pushed with; a share only if it was     *)
(* wrapped for the device's own two keys.  Cut, padded, swapped or foreign *)
(* columns never open to anything, and nothing written is lost in the      *)
(* encodings.                                                              *)
ReadsBack ==
  /\ last.op \in {"decryptPrivateKey", "unwrapVaultKey"} =>
       (last.ok <=> Intact /\ mk = Salt)
  /\ last.op = "unwrapSharedVaultKey" =>
       (last.ok <=> \A c \in WrapColumns : served[c] = b64_encode(Wrap(KEY_LEN)[c]))
  /\ last.op = "decryptVault" => (last.ok <=> Intact /\ last.at = sealed)

(* The browser's self-test of the associated data passes for every vault   *)
(* id and every version, the last one too, whose successor wraps to 0      *)
(* (wasm.rs:207), and ids longer than their length field.                  *)
SelfTestPasses == last.op = "aadSelfTest" => last.ok

(* vault.rs:291 documents InvalidInput for a wrapped key "too short to be  *)
(* well-formed".  Rows of 56 to 71 bytes hold no nonce, key and tag, and   *)
(* fail in the cipher with KeyUnwrap.                                      *)
ShortRowsAreInvalid ==
  /\ last.op = "unwrapVaultKey"
  /\ served["own_vault_key"].len < XCHACHA_NONCE_LEN + KEY_LEN + TAG_LEN
  => last.err = "InvalidInput"
=============================================================================
