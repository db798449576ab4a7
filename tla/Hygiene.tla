--------------------------------- MODULE Hygiene ---------------------------------
(***************************************************************************)
(* Where secrets are held in memory, and what stays behind when a holder   *)
(* goes: the containers of zeroize.rs and every function that makes,       *)
(* derives, opens or uses a secret, as its wasm wrapper calls it.  A       *)
(* function is the list of the holders it binds, in order, with the places *)
(* where it may return early; what it computes is left to other modules.   *)
(*                                                                         *)
(* A local array or Vec without a wiping container stays in memory when    *)
(* its scope ends, also when it was copied into a key (arrays are Copy).   *)
(* An optimiser may do better: "left" is what may be left.  Types of other *)
(* crates (dalek, ml-kem with its zeroize feature) wipe themselves.  Left  *)
(* out is the state inside ciphers and hashes, and what JavaScript gives   *)
(* or is given: passwords, and the texts it encrypts or reads.             *)
(*                                                                         *)
(* What a decryption returns on the heap is named apart from the key that  *)
(* is made of it: "opened vault key", "opened seed".                       *)
(***************************************************************************)
EXTENDS Naturals, Sequences

(* Containers that overwrite what they hold when they are dropped. *)
Wipes(kind) == kind \in {"SecretBytes", "SecretArray", "Zeroizing", "ZeroizeOnDrop"}

(* Statements.  let binds a holder; into moves a Vec into a container; try *)
(* may return early; wipe overwrites; leave ends the scope of holders;     *)
(* give returns a handle.                                                  *)
Let(x, kind, secret) == [op |-> "let", x |-> x, kind |-> kind, secret |-> secret]
Into(x, kind)        == [op |-> "into", x |-> x, kind |-> kind]
Try(err)             == [op |-> "try", err |-> err]
Wipe(x)              == [op |-> "wipe", x |-> x]
Leave(xs)            == [op |-> "leave", xs |-> xs]
Give(handle)         == [op |-> "give", handle |-> handle]

(* into_inner wipes the container and returns a plain copy. *)
into_inner(x, out, secret) == <<Let(out, "array", secret), Wipe(x), Leave({x})>>

-----------------------------------------------------------------------------
(* kdf.rs *)
derive_master_key ==
  <<Try("InvalidInput"), Try("Kdf"), Let("key", "Zeroizing", "master key"), Try("Kdf"),
    Give("mk")>>

derive_srp_password ==
  <<Try("InvalidInput"), Try("Kdf"), Let("output", "Zeroizing", "SRP password"), Try("Kdf")>>

hkdf_subkeyPlain(key, secret) == <<Let(key, "array", secret), Try("Kdf")>>    \* mutant
hkdf_subkey(key, secret) == <<Let(key, "SecretArray", secret), Try("Kdf")>>

(* vault.rs *)
generate == <<Let("key", "array", "vault key"), Give("vk")>>

wrap_vault_key_with_master_key == hkdf_subkey("subkey", "subkey") \o <<Try("KeyWrap")>>

unwrap_vault_key_with_master_key ==
  <<Try("InvalidInput")>> \o hkdf_subkey("subkey", "subkey") \o
  <<Try("KeyUnwrap"), Let("plaintext", "Vec", "opened vault key"), Try("InvalidInput"),
    Let("key", "array", "vault key"), Give("vk")>>

encrypt_vault == <<Try("Encryption")>>

decrypt_vault == <<Try("InvalidInput"), Try("Decryption")>>

(* The key it seals with is its own, and so is the text; what it sealed    *)
(* itself opens, so that the other ? returns nothing.                      *)
aad_self_test ==
  <<Let("key", "array", "vault key"), Let("vk", "ZeroizeOnDrop", "vault key"),
    Leave({"key"}), Try("Encryption")>>

reencrypt_vaultByHand ==                                              \* mutant
  <<Try("Decryption"), Let("plaintext", "Vec", "text"), Try("Encryption"),
    Wipe("plaintext")>>
reencrypt_vault ==
  <<Try("Decryption"), Let("plaintext", "SecretBytes", "text"), Try("Encryption")>>

-----------------------------------------------------------------------------
(* keypair.rs.  A cipher is made with a key derived for the purpose, or    *)
(* with a copy of a key that has one already.                              *)
new_xchacha_cipher(err) ==
  hkdf_subkey("key_bytes", "subkey") \o <<Try(err), Leave({"key_bytes"})>>
new_xchacha_cipher_raw(err) ==
  <<Let("key_bytes", "SecretArray", "wrap key"), Try(err), Leave({"key_bytes"})>>

derive_x25519_from_ed25519_seed ==
  <<Let("x25519_expand", "SecretArray", "X25519 key"), Try("Kdf")>> \o
  into_inner("x25519_expand", "x25519_private", "X25519 key")

derive_mlkem_from_ed25519_seed ==
  <<Let("mlkem_seed", "SecretArray", "ML-KEM seed"), Try("Kdf"),
    Let("seed_array", "array", "ML-KEM seed"),
    Let("mlkem_decap", "ZeroizeOnDrop", "ML-KEM key"), Try("InvalidInput"),
    Leave({"mlkem_seed", "seed_array"})>>

(* Both panic where decrypt_private_key returns an error: the same drops.  *)
generate_keypair ==
  <<Let("signing_key", "ZeroizeOnDrop", "seed"), Let("seed", "array", "seed")>> \o
  derive_x25519_from_ed25519_seed \o
  <<Let("x25519_static", "ZeroizeOnDrop", "X25519 key"),
    Let("x25519_bytes", "array", "X25519 key")>> \o
  derive_mlkem_from_ed25519_seed \o <<Give("kp")>>

encrypt_private_key == new_xchacha_cipher("KeyWrap") \o <<Try("KeyWrap")>>

decrypt_private_key ==
  <<Try("InvalidInput")>> \o new_xchacha_cipher("KeyUnwrap") \o
  <<Try("KeyUnwrap"), Let("seed_bytes", "Vec", "opened seed"), Try("InvalidInput"),
    Let("seed", "array", "seed"), Let("signing_key", "ZeroizeOnDrop", "seed")>> \o
  derive_x25519_from_ed25519_seed \o
  <<Let("x25519_static", "ZeroizeOnDrop", "X25519 key")>> \o
  derive_mlkem_from_ed25519_seed \o <<Give("kp")>>

mlkem_encapsulate ==
  <<Try("InvalidPublicKey"), Let("m", "array", "randomness"),
    Let("shared", "array", "ML-KEM secret"), Let("ss_mlkem", "array", "ML-KEM secret"),
    Leave({"m", "shared"})>>

mlkem_decapsulate ==
  <<Try("InvalidInput"), Let("shared", "array", "ML-KEM secret"),
    Let("ss_mlkem", "array", "ML-KEM secret"), Leave({"shared"})>>

(* The KDF's input is wiped before its result is looked at. *)
hybrid_wrap_key ==
  <<Let("ikm", "Vec", "wrap input"), Let("wrap_key", "SecretArray", "wrap key"),
    Wipe("ikm"), Leave({"ikm"}), Try("Kdf")>>

wrap_vault_key_for_user ==
  <<Try("InvalidInput"), Let("eph_secret", "ZeroizeOnDrop", "ephemeral key"),
    Leave({"eph_secret"}), Let("shared_secret", "ZeroizeOnDrop", "X25519 secret"),
    Try("InvalidPublicKey")>> \o
  mlkem_encapsulate \o hybrid_wrap_key \o new_xchacha_cipher_raw("KeyWrap") \o
  <<Try("KeyWrap")>>

unwrap_vault_keyByBytes ==                                            \* mutant
  <<Try("InvalidInput"), Let("my_private", "array", "X25519 key"),
    Let("my_static", "ZeroizeOnDrop", "X25519 key"),
    Let("shared_secret", "ZeroizeOnDrop", "X25519 secret"), Try("InvalidPublicKey")>> \o
  mlkem_decapsulate \o hybrid_wrap_key \o
  <<Try("InvalidInput")>> \o new_xchacha_cipher_raw("KeyUnwrap") \o
  <<Try("KeyUnwrap"), Let("vault_key_bytes", "Vec", "opened vault key"),
    Try("InvalidInput"), Let("key", "array", "vault key"), Give("vk")>>
unwrap_vault_key ==
  <<Try("InvalidInput"), Let("my_static", "ZeroizeOnDrop", "X25519 key"),
    Let("shared_secret", "ZeroizeOnDrop", "X25519 secret"), Try("InvalidPublicKey")>> \o
  mlkem_decapsulate \o hybrid_wrap_key \o
  <<Try("InvalidInput")>> \o new_xchacha_cipher_raw("KeyUnwrap") \o
  <<Try("KeyUnwrap"), Let("vault_key_bytes", "Vec", "opened vault key"),
    Try("InvalidInput"), Let("key", "array", "vault key"), Give("vk")>>

-----------------------------------------------------------------------------
(* srp.rs.  The wrapper decodes the password into a plain Vec, and only    *)
(* wraps it once the other arguments are decoded.                          *)
compute_verifier ==
  <<Try("InvalidInput"), Let("pw", "Vec", "SRP password"), Try("InvalidInput"),
    Into("pw", "Zeroizing"), Leave({"pw"})>>

generate_client_ephemeral ==
  <<Let("private_a", "Vec", "SRP exponent"), Try("Srp"),
    Into("private_a", "ZeroizeOnDrop"), Give("ephemeral")>>

compute_client_proof ==
  <<Try("InvalidInput"), Let("pw", "Vec", "SRP password"), Try("InvalidInput"),
    Into("pw", "Zeroizing"), Try("Srp"), Give("proof")>>

verify_server_proof == <<Try("InvalidInput"), Try("Srp")>>

(* The functions by name, and the handles they borrow. *)
Body == [
  derive_master_key         |-> derive_master_key,
  derive_srp_password       |-> derive_srp_password,
  create_vault_key          |-> generate,
  wrap_vault_key            |-> wrap_vault_key_with_master_key,
  unwrap_vault_key          |-> unwrap_vault_key_with_master_key,
  encrypt_vault             |-> encrypt_vault,
  decrypt_vault             |-> decrypt_vault,
  reencrypt_vault           |-> reencrypt_vault,
  aad_self_test             |-> aad_self_test,
  generate_keypair          |-> generate_keypair,
  encrypt_private_key       |-> encrypt_private_key,
  decrypt_private_key       |-> decrypt_private_key,
  wrap_vault_key_for_user   |-> wrap_vault_key_for_user,
  unwrap_shared_vault_key   |-> unwrap_vault_key,
  compute_verifier          |-> compute_verifier,
  generate_client_ephemeral |-> generate_client_ephemeral,
  compute_client_proof      |-> compute_client_proof,
  verify_server_proof       |-> verify_server_proof]

Borrows(f) ==
  CASE f = "wrap_vault_key"                               -> {"mk", "vk"}
    [] f \in {"unwrap_vault_key", "decrypt_private_key"}  -> {"mk"}
    [] f = "encrypt_private_key"                          -> {"mk", "kp"}
    [] f \in {"encrypt_vault", "decrypt_vault", "reencrypt_vault",
             "wrap_vault_key_for_user"}                   -> {"vk"}
    [] f = "unwrap_shared_vault_key"                      -> {"kp"}
    [] f = "compute_client_proof"                         -> {"ephemeral"}
    [] f = "verify_server_proof"                          -> {"proof"}
    [] OTHER                                              -> {}

(* What a handle holds.  The session key is in a field that the derived    *)
(* ZeroizeOnDrop skips.                                                    *)
Holder(kind, secret) == [x |-> "inner", kind |-> kind, secret |-> secret]
Inner(handle) ==
  CASE handle = "mk"        -> {Holder("ZeroizeOnDrop", "master key")}
    [] handle = "vk"        -> {Holder("ZeroizeOnDrop", "vault key")}
    [] handle = "kp"        -> {Holder("ZeroizeOnDrop", s) : s \in {"seed", "X25519 key", "ML-KEM key"}}
    [] handle = "ephemeral" -> {Holder("ZeroizeOnDrop", "SRP exponent")}
    [] handle = "proof"     -> {Holder("skipped", "session key")}

Secrets(handle) == {h.secret : h \in Inner(handle)}

-----------------------------------------------------------------------------
VARIABLES
  handles,  \* the kinds of handle JavaScript has
  call,     \* the function that runs, or that ran last, and how far it is
  locals,   \* the holders in scope: name, container, secret
  left,     \* secrets of this call in memory that nobody holds any more
  result    \* "runs", or how the last call ended

vars == <<handles, call, locals, left, result>>

Init ==
  /\ handles = {} /\ locals = {} /\ left = {}
  /\ call = [fn |-> "none", pc |-> 1] /\ result = "ok"

Runs == result = "runs"
Statement == Body[call.fn][call.pc]
At(op) == Runs /\ call.pc <= Len(Body[call.fn]) /\ Statement.op = op
Advance == call' = [call EXCEPT !.pc = @ + 1]

Unwiped(holders) == {h.secret : h \in {g \in holders : ~Wipes(g.kind)}}

Call(f) ==
  /\ ~Runs /\ Borrows(f) \subseteq handles
  /\ call' = [fn |-> f, pc |-> 1] /\ result' = "runs" /\ left' = {}
  /\ UNCHANGED <<handles, locals>>

Bind ==
  /\ At("let")
  /\ locals' = locals \cup
       {[x |-> Statement.x, kind |-> Statement.kind, secret |-> Statement.secret]}
  /\ Advance /\ UNCHANGED <<handles, left, result>>

MoveInto ==
  /\ At("into")
  /\ locals' = {IF h.x = Statement.x THEN [h EXCEPT !.kind = Statement.kind] ELSE h : h \in locals}
  /\ Advance /\ UNCHANGED <<handles, left, result>>

Overwrite ==
  /\ At("wipe")
  /\ locals' = {h \in locals : h.x # Statement.x}
  /\ Advance /\ UNCHANGED <<handles, left, result>>

LeaveScope ==
  /\ At("leave")
  /\ LET gone == {h \in locals : h.x \in Statement.xs}
      IN  locals' = locals \ gone /\ left' = left \cup Unwiped(gone)
  /\ Advance /\ UNCHANGED <<handles, result>>

Proceed ==
  /\ At("try")
  /\ Advance /\ UNCHANGED <<handles, locals, left, result>>

(* Every return drops all that is in scope. *)
Return(how) ==
  /\ result' = how /\ locals' = {} /\ left' = left \cup Unwiped(locals)
  /\ UNCHANGED call

Fail == At("try") /\ Return(Statement.err) /\ UNCHANGED handles

GiveHandle ==
  /\ At("give") /\ Return("ok") /\ handles' = handles \cup {Statement.handle}

End ==
  /\ Runs /\ call.pc > Len(Body[call.fn])
  /\ Return("ok") /\ UNCHANGED handles

Destroy(handle) ==
  /\ ~Runs /\ handle \in handles
  /\ handles' = handles \ {handle} /\ left' = Unwiped(Inner(handle))
  /\ call' = [fn |-> "destroy", pc |-> 1] /\ result' = "ok"
  /\ UNCHANGED locals

Step ==
  \/ Bind
  \/ MoveInto
  \/ Overwrite
  \/ LeaveScope
  \/ Proceed
  \/ Fail
  \/ GiveHandle
  \/ End

Next ==
  \/ \E f \in DOMAIN Body : Call(f)
  \/ \E handle \in handles : Destroy(handle)
  \/ Step

(* A function that was called runs to its end: none of them waits. *)
Spec == Init /\ [][Next]_vars /\ WF_vars(Step)

-----------------------------------------------------------------------------
(* Secrets that live only as long as a call. *)
Passing == {"text", "subkey", "wrap key", "wrap input", "X25519 secret", "ephemeral key"}

InMemory(secret) == secret \in left \/ \E h \in locals : h.secret = secret

(* The plaintext of a re-keyed version (vault.rs:229), the input of the    *)
(* hybrid KDF (keypair.rs:599), subkeys, wrap keys and X25519 secrets are  *)
(* soon nowhere in memory, whichever way the call returns.                 *)
PassingSecretsGo == \A secret \in Passing : InMemory(secret) ~> ~InMemory(secret)

(* To use a key is not to copy it: no call leaves a secret of a handle it  *)
(* borrows outside that handle, whichever way it returns (keypair.rs:695,  *)
(* wasm.rs:223).  Nor does the master key stay where it is derived         *)
(* (kdf.rs:118), or the ML-KEM key where a key pair is made; and once its  *)
(* arguments are well formed, an SRP step wipes the password (srp.rs:134). *)
UsesLeaveNoCopy ==
  /\ \A handle \in Borrows(call.fn) : left \cap Secrets(handle) = {}
  /\ left \cap {"master key", "ML-KEM key"} = {}
  /\ "SRP password" \in left => result = "InvalidInput"

(* A row, a seed or a blob that does not open leaves nothing of the keys   *)
(* it was tried with, besides the ML-KEM secret of a share: a wrong        *)
(* password adds nothing to memory (vault.rs:307, keypair.rs:374).         *)
RefusalsLeaveNothing ==
  result \in {"KeyUnwrap", "Decryption"} => left \subseteq {"ML-KEM secret"}

(* README.md:383: "Key material erased from heap", by "ZeroizeOnDrop on    *)
(* MasterKey, VaultKey, UserKeypair, proof types": of a key that a call     *)
(* opens nothing stays but the handle it returns, and of what a handle     *)
(* held nothing stays once JavaScript destroys it.                         *)
KeysAreErased ==
  /\ call.fn = "destroy" => left = {}
  /\ result = "ok" => left \cap {"opened vault key", "opened seed"} = {}

(* keypair.rs:607: "Both ephemeral secrets are zeroized after use."        *)
EphemeralsAreWiped ==
  call.fn = "wrap_vault_key_for_user" => left \cap {"ephemeral key", "randomness"} = {}
=============================================================================
