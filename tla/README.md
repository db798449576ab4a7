# Verification of evnx-crypto

evnx-crypto is the client-side cryptography of evnx: a Rust library (and a
WebAssembly binding of it) that derives keys from a password, logs in with
SRP-6a, seals `.env` files in versioned vaults, and wraps vault keys for their
owner and for other members. The server is treated as hostile and is not in the
repository.

This directory holds TLA+ models of the library, TLC configurations that check
them, and TLAPS proofs. (The last sections say what is proved and what is left.)

## Inventory

| Component | Source | State | Operations | What makes it correct |
|---|---|---|---|---|
| Vault blobs | `src/vault.rs` | none in the crate; the caller keeps a `VaultKey`, the server the blobs | `encrypt_vault`, `decrypt_vault`, `reencrypt_vault`, `vault_aad`, `blob_hash` | a blob opens only as the vault and version it was sealed for; a re-key moves every version and no text changes |
| Wrapped keys of the owner | `src/vault.rs` | rows on the server | `wrap_`/`unwrap_vault_key_with_master_key` | a row opens only for its account and only as a vault key |
| Key derivation | `src/kdf.rs` | none | Argon2id (`derive_master_key`, `derive_srp_password`), `hkdf_subkey`, salts | one subkey per purpose |
| Keypairs | `src/keypair.rs` | `UserKeypair`, sealed seed on the server | generate, seal/open seed, re-derive X25519 and ML-KEM keys | the same keys come back from the seed |
| Hybrid wrap | `src/keypair.rs` | `WrappedVaultKey` rows on the server | `wrap_vault_key_for_user`, `unwrap_vault_key`, codecs | only the recipient opens a wrap, whole and unmixed; low-order points are refused |
| SRP client | `src/srp.rs` | `SrpClientEphemeral`, `SrpClientProof` | verifier, ephemeral, proof M1, check of M2 | M2 accepted only from a holder of the verifier, for this very login |
| WebAssembly handles | `src/wasm.rs` | handles in linear memory | wrappers of all of the above, `destroy` | JS never holds key bytes; handles used in the right order |
| Secret containers | `src/zeroize.rs` | `SecretBytes`, `SecretString`, `SecretArray` | construct, borrow, drop | every copy of a secret is wiped on every path |
| Encoding, errors | `src/encoding.rs`, `src/errors.rs` | none | base64 with exact lengths, `CryptoError` | round trips; the documented variant per failure |
| Server, CLI, dashboard | not in the repository | accounts, vaults, versions, sessions | store and serve what clients upload | assumptions, stated as constants of the models |

Components interact by calls (wasm.rs to the other modules, vault.rs and
keypair.rs to kdf.rs) and through what the caller stores on the server and gets
back from it later: blobs, wrapped rows, sealed seeds, public keys, SRP
messages. The crate has no threads and no I/O. Its hard behaviours come from
several devices and accounts driving it at once, against a server that loses
replies, serves stale or foreign data, or is damaged.

## Modules

* `VaultCrypto` - the operations of `vault.rs` and `kdf.rs` as pure operators on
  symbolic terms. A ciphertext is the record of the key, the associated data and
  the text that went into it, and a flag that is false for an altered copy.
* `VaultLog` - the abstract specification: an append-only log of texts per vault.
* `VaultHistory` - accounts, devices, vaults and the server. A device is one
  client process: `handle[d]` is its `VaultKeyHandle` with what the caller must
  remember next to it (vault, base version, the row it came from), `walk[d]` is a
  re-key in progress. `store` and `member` are the server's; `sealed`, `wrapped`
  are everything any device ever uploaded, which a faulty server may serve.
  `keyBy`, `pushed` and `got` record who generated which key, who pushed what,
  and the last text returned to a caller; no action but their writers reads them
  (`generate` reads `keyBy` for freshness).

  | Action | Code |
  |---|---|
  | `CreateVault` | `createVaultKey`, `wrapVaultKey` (wasm.rs:101-117) and the upload of the row |
  | `OpenVault` | `unwrapVaultKey` (wasm.rs:119-124) of a downloaded row |
  | `PushStored`, `PushRefused` | `encryptVault` at base_version + 1 (wasm.rs:139-158), accepted (the reply may be lost) or refused |
  | `Pull` | `decryptVault` (wasm.rs:160-183) of whatever came back |
  | `StartRekey`, `RekeyVersion`, `SubmitRekey` | a whole history through `reencrypt_vault`, one version at a time (tests/vault.rs:595-631), then one upload, accepted (the reply may be lost) or refused |
  | `Exit` | `destroy` or the end of the process, at any moment |

* `SrpCrypto` - SRP-6a over symbolic terms: a secret is the record of the
  client's ephemeral, the B it was given and the exponent x it computed with.
  The client's and the server's powers are the same group element exactly when
  these agree, and M1 and M2 are hashes of it.
* `MutualAuth` - the abstract specification of a login: a session commits to one
  login, no two sessions to the same, and a login completes after a session
  committed to it.
* `SrpLogin` - clients, server sessions and a network that keeps every message
  ever sent and delivers any of them, any number of times, to anybody, together
  with salts and public values of its own. `ephemeral[a]` and `login[l]` are the
  two handles of wasm.rs; `account` and `session` are the server's.

  | Action | Code |
  |---|---|
  | `Register` | `computeVerifier` (wasm.rs:418) over `derive_srp_password` and a fresh salt |
  | `generate_client_ephemeral` | srp.rs:168 |
  | `ServerInit`, `ServerVerify` | the server's half, as tests/readme_flows.rs runs it with the srp crate |
  | `Prove` | `computeClientProof` (wasm.rs:445) with the salt and B received; B = 0 is refused |
  | `Accept` | `verifyServerProof` (wasm.rs:474); a failed check changes nothing, so only success is a step |
  | `DropProof`, `DropEphemeral` | `destroy` on either handle |

  `SingleUse` is what wasm.rs:349 asks of callers. The API does not enforce it,
  so it is a constant: runs and theorems say which of the two they assume.
* `HybridCrypto` - keypair.rs over symbolic terms. Keys derived from a seed are
  named by it; a point is its private key and one of its two encodings; the
  ML-KEM secret of a ciphertext under a key is the term of both, so that a wrong
  key or a foreign ciphertext gives a secret nobody else has, and no error.
* `KeyGrants` - the abstract specification of sharing: an identity (an account)
  knows what it created and what a knowing identity granted it, until it forgets.
* `KeySharing` - accounts, devices and the server as a directory and a store.
  `keypair[d]` and `held[d]` are the handles of device `d`; `published`, `rows`
  and `wraps` are everything uploaded, of which the server serves any parts in any
  combination, next to points and seals of its own; `seedBy`, `keyBy` and
  `opened` record who generated what and what was last unwrapped. A key pair and
  each vault key are handles of their own: any of them may be destroyed while the
  others are used on. What an account knows is what its devices hold and what it
  keeps under its MasterKey.

  | Action | Code |
  |---|---|
  | `GenerateKeypair`, `Publish` | `generateKeypair` (wasm.rs:484), then `encryptPrivateKey` and the public-key getters for the registration upload |
  | `OpenSeed` | `decryptPrivateKey` (wasm.rs:502) of a downloaded row |
  | `CreateKey` | `createVaultKey` (wasm.rs:102), which needs no other handle |
  | `KeepKey`, `OpenKept` | `wrapVaultKey` (wasm.rs:114) of any key held, and `unwrapVaultKey` (wasm.rs:120) of whatever row comes back |
  | `Share` | `wrapVaultKeyForUser` (wasm.rs:334) for the two keys the server names |
  | `OpenShared` | `unwrapSharedVaultKey` (wasm.rs:272); a failure changes nothing, so only success is a step |
  | `DestroyKeypair` | `destroy` on the `KeypairHandle` (wasm.rs:289); vault keys stay |
  | `DestroyKey` | `destroy` on one `VaultKeyHandle` (wasm.rs:59) |
  | `Exit` | the end of the process, with all its handles |

  A wrap does not say who made it: anybody with the public keys can make one. A
  server that wants to share a key of its own is an account of the model, and
  `KeyGrants` allows it that. What the low-order check adds, and what the
  properties state, is that no key arrives outside of `wrap_vault_key_for_user`.
* `AccessList` - the abstract specification of removing a member: membership and
  the ability to read are two things, and only a re-key makes them one again.
* `VaultSharing` - one shared vault, composed of the blobs of `vault.rs` and the
  wraps of `keypair.rs` (it EXTENDS `HybridCrypto`, which extends
  `VaultCrypto`). `store` and `members` are the server's, `handle[u]` and
  `walk[u]` a member's open key and re-key in progress; `uploaded` is every row
  that ever left a device, against which confidentiality is stated.

  | Action | Code |
  |---|---|
  | `OpenVault` | `unwrapVaultKey` or `unwrapSharedVaultKey` of the member's row, as its `eph_pub_key` says (wasm.rs:119, 272) |
  | `Push` | `encryptVault` at the next version |
  | `Share` | `wrapVaultKeyForUser` with the handle that is open, for a user who is made a member, or was uploaded and refused; for public keys that were served spoilt it fails and nothing happens |
  | `Remove` | the server drops a row; the removed user keeps handle and rows |
  | `StartRekey`, `RekeyVersion`, `SubmitRekey` | a new key, one `reencrypt_vault` per version, one wrap per member of the start, one request; if any of the wraps fails (keypair.rs:643, 534) nothing is sent, and the reply to a request that was taken may be lost |
  | `Exit` | `destroy`, or the end of the process |

* `AssociatedData` - the bytes of `vault_aad`, with both fixed-width numbers and
  their wrap-around, and `aad_self_test`. The other modules take `vault_aad` for
  an injective term; `AadIsInjective` justifies that.
* `WireFormat` - nine columns as a device uploads them and is served them again.
  A column is a length and an origin; base64, the codecs, the splits at a nonce and
  the checks of lengths are the code's, in its order, and a split or copy that
  does not fit returns `panic`.

  | Action | Code |
  |---|---|
  | `Register`, `CreateVault`, `Push`, `Share` | what is encoded and uploaded, and the server's checks of lengths (encoding.rs:7-18) |
  | `Cut`, `Replace`, `Scramble`, `Swap`, `Forge` | the server, or a stranger who seals something for the public keys |
  | `DeriveMasterKey`, `DecryptPrivateKey`, `UnwrapVaultKey`, `UnwrapSharedVaultKey`, `DecryptVault`, `AadSelfTest` | the functions of these names in wasm.rs, from decoding to the result |
  | `Exit` | `destroy` on every handle |

* `Hygiene` - each of the eighteen functions of wasm.rs that makes, derives, opens
  or uses a secret, as the list of the holders it
  binds, in order, and of the places where it may return early; a small machine
  executes such a list for any function whose handles exist, and `Destroy` drops
  a handle. `left` is what may remain in memory: named arrays and `Vec`s whose
  scope ended without a container of zeroize.rs. What a decryption returned on the
  heap has a name of its own ("opened vault key", "opened seed"). A value that is passed on without
  a name is not counted, and neither is what a compiler may copy by itself.
* `MCVaultHistory`, `MCSrpLogin`, `MCKeySharing`, `MCVaultSharing`,
  `MCWireFormat` - instances, symmetry and bounds for TLC.
* `VaultHistory_proofs`, `VaultRekey_proofs`, `VaultLog_proofs`,
  `SrpLogin_proofs`, `KeySharing_proofs`, `VaultSharing_proofs`,
  `WireFormat_proofs`, `Hygiene_proofs` - the proofs.

What the server does is an assumption, made explicit by two constants.
`Faithful` says it returns what it stores (or a damaged copy of it); otherwise
it returns anything it ever received. `EpochCheck` says it refuses a push or a
re-key based on a wrapped key that has since been replaced. The crate itself has
no notion of epoch: without the check, a device that opened the vault before a
re-key pushes under the retired key, and the new version cannot be read with the
new one (TLC shows it at once with `EpochCheck = FALSE`). vault.rs:239 promises
that an old key reads nothing in future, so the check is what its callers need.

## Runs

| Run | Question | Instance |
|---|---|---|
| `epoch` | Is the stored key always the one key of the whole history while two devices push, re-key, crash and lose replies, and does that history implement the append-only log? | 1 account, 2 devices, 1 vault, 3 keys, 2 texts, 2 versions, faithful, epoch check (the theorem about the log needs no epoch check) |
| `faulty` | What can a server that serves anything make a client believe? | 2 accounts, 2 devices, 2 vaults, 3 keys, 1 text, 2 versions, at most 2 uploads before a state is no longer expanded |
| `srp_reuse` | Are both ends of an accepted proof who they claim to be, whatever is delivered and however ephemerals are used? | 2 accounts, one of them with 2 spellings of its address, 1 password, 2 salts, 2 ephemerals, 2 sessions, 2 logins |
| `srp_single` | Does the login implement mutual authentication when ephemerals are used once? | the same |
| `srp_replay` | (violated) Is an ephemeral single-use, as wasm.rs:349 says? | the same as `srp_reuse` |
| `sharing` | Do exactly the whole wraps for one's own two keys open, do they rest on both primitives, and does sharing implement `KeyGrants`? | 2 accounts, one of them with 2 devices, 2 seeds, 2 vault keys and the server's, 2 wraps; states with handles on 3 devices or with 4 rows are not expanded |
| `sharing_revoke` | Can every member always read everything, also when wraps of a re-key fail or its reply is lost, and do removal and re-key together revoke? | 3 users, 3 keys, 2 versions; states with more than 4 uploaded rows or 2 open handles are not expanded |
| `wire` | Does anything panic, open, be refused or be called malformed that should not, whatever is served? | bytes of 1 bit, 4 ids (one longer than its length field), 3 versions (the last one too), 17 lengths, 9 cuts, any one column altered at a time or the three of a share |
| `wire_short` | (violated) Is a wrapped key too short to be well-formed `InvalidInput`, as vault.rs:292 says? | the same |
| `hygiene` | Does using a key leave a copy of it, does a refusal leave anything, and do passing secrets always go? | everything: the model is finite |
| `hygiene_wrap` | (violated) Are both ephemeral secrets of a wrap wiped, as keypair.rs:607 says? | the same |
| `hygiene_erase` | (violated) Is key material erased from the heap, when it was opened and when its handle is destroyed, as src/README.md:383 says? | the same |

`srp_replay` is a disagreement of doc and code: `compute_client_proof` borrows
the ephemeral, so two proofs can be made from it, and with one server reply they
are the same proof, which one M2 completes twice. `srp_reuse` shows that nothing
else is lost by it, and `DistinctLogins` that callers who follow the doc are safe.
`wire_short` is one too: `unwrap_vault_key_with_master_key` asks for a nonce and a
key, not for the tag, so rows of 56 to 71 bytes fail in the cipher with the error
of a wrong password; `ReadsBack` shows that nothing opens by it. Two are about
memory. `hygiene_wrap`: `mlkem_encapsulate` leaves its randomness `m` in a plain
array. `hygiene_erase`: `SrpClientProof` derives `ZeroizeOnDrop`, but the field
with the session key is skipped (srp.rs:89), so that destroying a proof wipes the
public M1 only, which is the counterexample TLC prints; and each conjunct of
`KeysAreErased` is violated by itself, the second by an opened vault key or seed,
which lands in a plain `Vec` (vault.rs:304, keypair.rs:372, 736), is copied into its
container and dropped unwiped. What does hold is in `hygiene`: no call copies a key out of a handle it
borrows, and neither a wrong password nor a damaged row leaves anything of a key.
Named arrays that are copied into a key while it is made (`VaultKey::generate`,
the seed of `generate_keypair`) stay as well; no document promises otherwise of
the stack, so no property speaks of them, and `Stays` in the proofs lists them.

Bounds. Three keys allow a vault's first key and two competing or successive
re-keys. Two versions are the least for a blob to sit in the wrong slot, for a
re-key to stop in the middle, and for two pushers to disagree on the base
version. Two texts tell versions apart where a run compares texts; in `faulty`
texts are told apart by vault and version, so one is enough. Two vaults and two
accounts are the least for a swap. Two wraps and two key pairs are the least for
parts to be mixed; two seeds also cover an account that starts over with a second
identity. In `sharing`, a state that stores a fourth row or gives a third device a
handle is checked, but nothing is done from it: two devices at a time are enough
for a sender and a recipient, each device may be either, and since key pairs, kept
keys and wraps stay on the server, all three devices take part one after the other;
three rows are two sealed seeds and a kept key. Its theorems need no bound. Three
users are the least for one to be removed by a second while a
third re-keys or is added; four rows are the creator's, two shares and one of a
re-key that was refused or retried, and the proof of the same properties needs no
bound. Keys, texts, vaults, seeds and draws are symmetric, and so are the two
devices of one account, and users and
keys that are not the creator's and the first: no definition distinguishes two of
them. In `wire`, the lengths are those at which some check changes its mind, on
either side of it: 12 and 24 (nonces), 32 (keys), 40, 56 and 72 (sealed rows),
1088 and 1184 (ML-KEM); a text is cut to a multiple of four characters or not, on
either side of the same checks. One column altered at a time is enough because
every call but one reads one column, and the one of three (a share) looks at each
by itself until the tag. Bytes of one bit make a length field wrap at 4 and a
version at 16; the theorems hold for any base. Deadlock is checked in all runs
but those of logins and of `sharing`, which really stop when no session, seed,
key or draw is left.

Fairness: `Hygiene` assumes `WF_vars(Step)`: a function that was called runs to
its end, because all of them are synchronous and none waits, locks or loops on
input. Nothing else is fair: JavaScript need not call anything, nor call
`destroy`, and the server need not answer. So the only thing that must eventually
happen is that a call returns and takes its passing secrets with it
(`PassingSecretsGo`); in the other modules nothing must, and no fairness is
assumed.

## Proofs

All theorems hold for any sets of accounts, devices, users, vaults, keys and texts
and any `MaxVersion`, any sets of seeds, draws, sessions and so on, and any base
of bytes, ids, versions and lengths, from the modules' assumptions on their
constants only (`ConstantsAssumption`, `BytesAssumption`, `WireAssumption`).

* `ProvenanceInv` is the first inductive invariant. A handle's key has the type
  of a vault key only because a row that opens was made by
  `wrap_vault_key_with_master_key` of the same account (`WrappedRowsAreOwn`), and
  what a blob says was pushed by the account of its key (`BlobsWerePushed`), also
  for the blobs of a re-key in progress, so types and provenance are proved
  together. `TypeCorrect`, `PullsAreAuthentic` and `HandlesAreOwn` follow; none
  assumes anything about the server.
* `AlignedInv` adds that every stored or re-keyed blob is sealed for the slot it
  is in (`SlotsAreAligned`) and under the key of the row next to it
  (`KeysFollowRows`). `OneKeyForTheHistory` follows for an epoch-checking server.
* `CopyInv` adds that a re-key in progress copies a prefix of what a faithful
  server stores (`BatchCopiesHistory`): with it an accepted re-key is a stutter
  of `VaultLog`, a push is an append and a pull a read (`HistoryImplementsLog`).
  `ReadsStayTrue` adds what a reader of the log would ask for: a text that was once
  returned is the text of its version ever after, under whatever key.
* `AuthInv` says where every proof comes from: verifiers stay where they were
  filed (`AccountsAreFiled`, `SessionsHoldVerifiers`), every M1 is some login's
  and bound to its address (`ProofsAreSent`), a session verifies only what was
  sent (`VerifiedWereSent`) and every M2 is a verifying session's
  (`AnswersWereVerified`). `ServersAreGenuine` and `ClientsAreGenuine` follow
  without any assumption on ephemerals. `EphemeralsAreSpent`, inductive only
  under `SingleUse`, identifies a login by its ephemeral and gives
  `DistinctLogins`, `LoginImplementsMutualAuth` and, since a server's public value
  names its session, injective agreement (`LoginsAgreeOneToOne`): one session per
  accepted login and one login per session.
* `SharingInv` says that rows are seeds or keys of their account
  (`RowsAreSealed`), that a key pair is open only on devices of its account
  (`KeypairsAreOwn`), that published keys have their seed sealed
  (`PublishedAreSealed`) and that wraps are for published keys in some pairing
  (`WrapsUsePublished`). The heart is `OpensOnlyWhole`: a tag that verifies makes
  the wrap keys equal, hence every input of their derivation; rows of a MasterKey
  have other info strings, seals of the server have the all-zero secret that
  `was_contributory` refuses. The properties of `sharing` follow, and
  with `GainIsKnown` the refinement of `KeyGrants`. Nothing ties a vault key to the
  key pair that is open next to it, because nothing in the code does: the
  argument is about what the account knows, on any device or under its MasterKey.
  `KeysHaveOrigin` is inductive next to it: every key an account knows was
  generated by it or wrapped for both keys of one of its key pairs, and never is
  the one the server seals (`KnownKeysHaveOrigin`).
  The assumption on constants says that the all-zero secret is no honest one and
  malformed bytes no key.
* `VaultSharing_proofs` has its own `SharingInv`: one key opens every stored
  version and is what every member's row opens to (`OneKey`); a row opens for one
  user and to one key only (`RowFacts`); a handle, however stale, came from a row
  that was uploaded (`HandlesOpened`); and the key of a re-key in progress is in no
  row that ever left a device (`WalksAreFresh`). That last part is what makes a
  refused re-key harmless, whose rows did leave it: a retry draws a new key.
  `MembersOpenHistory` and the refinement of `AccessList` follow: an accepted re-key
  changes the lock and makes the readers the members, and no other step takes a
  reader away or adds one without a wrap. Two consequences are stated by themselves:
  members are readers at every moment (`MembersAreReaders`), and whenever the lock
  changes the readers are the members (`RekeyRevokes`).
* `WireFormat_proofs` starts with numbers: `DivUnique`, the injectivity of `Be2`
  below its width and of `Be4` on `u32`, and from the two ends of the encoding
  `AadIsInjective` - the length of the whole fixes the length of the id, so the
  wrapping length field does no harm. `RoundTrip` is base64. One lemma per
  function (`PrivateKeyReads`, `OwnKeyReads`, `SharedReads`, `BlobReads`,
  `KeysRead`) gives its result for any lengths in one conditional, in which no
  panic is left. `WireInv` says that what is stored is as written, and that a
  served cell which still names its column is the stored one or a stranger's
  share (`Serves`), and that nothing is read before the account is there
  (`Registered`): it is needed because a result depends on what was stored, and
  not only on lengths. The five properties of `wire` follow action by action.
* `Hygiene_proofs` explains what TLC's complete check of that finite model only
  enumerates. Its first part is about bodies as sequences: `Leaves(b, S)` says that
  every plain local of body `b` that nothing overwrites holds a secret of the set
  `S`, `Quiet(b)` that no ciphertext is refused once such a local is there (but for
  the ML-KEM secret). Both are composed: what `s \o t` leaves is what `s` and `t`
  leave (`LeavesBoth`), and it is quiet if both are and either `t` refuses nothing or
  `s` leaves nothing else (`QuietBoth`, with `TameTame`, `CarefulTame` and
  `CarefulCareful` for the three cases), so that each helper of the source is looked
  at once, as it is called, and the eighteen functions follow (`Bodies`, where
  `Stays(f)` is what function `f` may leave). The second part is the machine: `HoldInv`
  says that a local was bound by a `let` of the running body which no `wipe`,
  `into` or `leave` before the present statement ended, and that what was left was
  such a local at an exit that was taken. A bound on `left` alone would not be
  inductive: what will stay depends on what is still held. `UsesAreClean` (what
  a function may leave is disjoint from what the handles it borrows hold) and
  `RefusalsAreClean` follow, and `NothingPassingStays`, the safety half of
  `PassingSecretsGo`: when no call runs, no passing secret is in memory.

Every invariant and action property of a passing run is stated by a theorem. Only
model-checked: liveness, which like `ENABLED` is out of the prover's reach. It is one
property, `PassingSecretsGo`; what is left of it next to `NothingPassingStays` is
that a call which runs returns. `KeysHaveOrigin`, `OneSessionEach`, `ReadsStay`, `MembersIn`
and `NewLockRevokes` are stated and proved in the proof modules and are in no run:
they follow from properties that are, or from the same invariants, and the instances
of those runs satisfy the first three too. Of the four properties that are violated,
`LoginsAreDistinct` is proved for callers who use an ephemeral once. Not expressible here:
that AEAD, HKDF and the random generators are as strong as assumed; they are the
symbolic rules of `VaultCrypto`, `SrpCrypto`, `HybridCrypto` and `WireFormat` (a tag
verifies for what was sealed under the key and for nothing else).

## Not modelled

* `blob_hash`, `generate_salt`, `session_key` and the getters of public values:
  they return a function of their argument or a random value and keep nothing.
* `Debug` and `Display`, error messages, and the mapping of `CryptoError` to a
  JavaScript string: wording.
* `SecretString`, and `Clone` of `SecretArray`: nothing in the crate uses them.
* What Argon2id, HKDF, AES-GCM, XChaCha20-Poly1305, X25519 and ML-KEM compute, and
  the state they keep while they do; the alphabet of base64.
* Copies a compiler makes when it moves a value, and the heap of JavaScript.
* The server beyond what the crate's docs and tests say of it, the CLI and the
  dashboard: not in the repository.
* Build files, packaging, tests, examples: no state or control flow of the program.

## Plan

1. `VaultCrypto`, `VaultHistory`, `VaultLog` and their proofs (done).
2. `SrpLogin`, `MutualAuth` and their proofs (done).
3. `HybridCrypto`, `KeySharing`, `KeyGrants` and their proofs (done).
4. `VaultSharing`, `AccessList` and their proofs (done).
5. `AssociatedData`, `WireFormat` and their proofs (done).
6. `Hygiene` and its proofs (done; finite, so checked completely too).
7. Open: nothing of the crate that keeps or changes state. A server with concurrent
   requests, or the CLI, would be next once their code is at hand.
