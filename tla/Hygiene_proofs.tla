------------------------------ MODULE Hygiene_proofs ------------------------------
(***************************************************************************)
(* Proofs about Hygiene, for the bodies of all eighteen functions.  The    *)
(* first part is about bodies as sequences of statements: what each piece  *)
(* may leave in memory, and that putting pieces together leaves no more    *)
(* than they do.  The second is the invariant: whatever is held in a plain *)
(* local, or was left, was bound by a let of the body that nothing wiped   *)
(* or moved before the exit it was left at.                                *)
(***************************************************************************)
EXTENDS Hygiene, SequenceTheorems, TLAPS

Errors ==
  {"InvalidInput", "InvalidPublicKey", "Kdf", "KeyWrap", "KeyUnwrap", "Encryption",
   "Decryption", "Srp"}
Refusals == {"KeyUnwrap", "Decryption"}
Handles  == {"mk", "vk", "kp", "ephemeral", "proof"}

(* What every statement has. *)
WellFormed(st) ==
  /\ st.op = "into" => Wipes(st.kind)
  /\ st.op = "try" => st.err \in Errors
  /\ st.op = "give" => st.handle \in Handles

(* A local that no container wipes; and one that the statements after its  *)
(* let overwrite before any of them may return.                            *)
Plain(st) == st.op = "let" /\ ~ Wipes(st.kind)
Settled(b, i) ==
  \E k \in 1..Len(b) : /\ i < k /\ b[k].op = "wipe" /\ b[k].x = b[i].x
                       /\ \A j \in 1..Len(b) : i < j /\ j < k => b[j].op = "let"

(* The secrets a body may leave are all in S. *)
Leaves(b, S) ==
  \A i \in 1..Len(b) : Plain(b[i]) /\ ~ Settled(b, i) => b[i].secret \in S

(* No statement refuses a ciphertext; or none does after a plain local     *)
(* other than the ML-KEM secret.                                           *)
Refuses(st) == st.op = "try" /\ st.err \in Refusals
Agrees(b)   == \A j \in 1..Len(b) : ~ Refuses(b[j])
Quiet(b)    ==
  \A i, j \in 1..Len(b) :
    Plain(b[i]) /\ ~ Settled(b, i) /\ i < j /\ Refuses(b[j])
      => b[i].secret = "ML-KEM secret"

IsSeq(b)  == b \in Seq({b[i] : i \in 1..Len(b)})
IsBody(b) ==
  /\ IsSeq(b)
  /\ \A i \in 1..Len(b) : WellFormed(b[i])

Tame(b, S)    == IsBody(b) /\ Leaves(b, S) /\ Agrees(b)
Careful(b, S) == IsBody(b) /\ Leaves(b, S) /\ Quiet(b)

-----------------------------------------------------------------------------
(* Bodies put together. *)
LEMMA IsSequence ==
  ASSUME NEW S, NEW b \in Seq(S)
  PROVE  IsSeq(b)
BY DEF IsSeq

(* Where the statements of a concatenation come from.                      *)
LEMMA Parts ==
  ASSUME NEW s, NEW t, IsBody(s), IsBody(t)
  PROVE  /\ Len(s) \in Nat /\ Len(t) \in Nat /\ Len(s \o t) = Len(s) + Len(t)
         /\ \A i \in 1..Len(s) : i \in 1..Len(s \o t) /\ (s \o t)[i] = s[i]
         /\ \A i \in 1..Len(t) : /\ i + Len(s) \in 1..Len(s \o t)
                                 /\ (s \o t)[i + Len(s)] = t[i]
<1> DEFINE S == {s[i] : i \in 1..Len(s)} \cup {t[i] : i \in 1..Len(t)}
<1>1. s \in Seq(S) /\ t \in Seq(S)
  BY DEF IsBody, IsSeq
<1> HIDE DEF S
<1> QED BY <1>1

LEMMA Split ==
  ASSUME NEW s, NEW t, IsBody(s), IsBody(t), NEW i \in 1..Len(s \o t)
  PROVE  \/ i \in 1..Len(s) /\ (s \o t)[i] = s[i]
         \/ \E h \in 1..Len(t) : i = h + Len(s) /\ (s \o t)[i] = t[h]
<1>1. Len(s) \in Nat /\ Len(t) \in Nat /\ i \in 1..(Len(s) + Len(t))
  BY Parts
<1>2. CASE i <= Len(s)
  BY <1>1, <1>2, Parts
<1>3. CASE i > Len(s)
  <2>1. PICK h \in 1..Len(t) : i = h + Len(s)
    <3>1. i - Len(s) \in 1..Len(t) /\ i = (i - Len(s)) + Len(s)
      BY <1>1, <1>3
    <3> QED BY <3>1
  <2> QED BY <2>1, Parts
<1> QED BY <1>1, <1>2, <1>3

LEMMA BodyBoth ==
  ASSUME NEW s, NEW t, IsBody(s), IsBody(t)
  PROVE  IsBody(s \o t)
<1> DEFINE S == {s[i] : i \in 1..Len(s)} \cup {t[i] : i \in 1..Len(t)}
<1>1. s \in Seq(S) /\ t \in Seq(S)
  BY DEF IsBody, IsSeq
<1> HIDE DEF S
<1>2. s \o t \in Seq(S)
  BY <1>1
<1>3. ASSUME NEW i \in 1..Len(s \o t) PROVE WellFormed((s \o t)[i])
  BY Split DEF IsBody
<1> QED BY <1>2, <1>3, IsSequence DEF IsBody

LEMMA SettledFirst ==
  ASSUME NEW s, NEW t, IsBody(s), IsBody(t), NEW i \in 1..Len(s), Settled(s, i)
  PROVE  Settled(s \o t, i)
<1>1. PICK k \in 1..Len(s) :
        /\ i < k /\ s[k].op = "wipe" /\ s[k].x = s[i].x
        /\ \A j \in 1..Len(s) : i < j /\ j < k => s[j].op = "let"
  BY DEF Settled
<1>2. k \in 1..Len(s \o t) /\ (s \o t)[k] = s[k] /\ (s \o t)[i] = s[i]
  BY Parts
<1>3. ASSUME NEW j \in 1..Len(s \o t), i < j, j < k
      PROVE  (s \o t)[j].op = "let"
  <2>1. j \in 1..Len(s)
    BY <1>3, Parts
  <2> QED BY <2>1, <1>1, <1>3, Parts
<1> QED BY <1>1, <1>2, <1>3 DEF Settled

LEMMA SettledSecond ==
  ASSUME NEW s, NEW t, IsBody(s), IsBody(t), NEW i \in 1..Len(t), Settled(t, i)
  PROVE  Settled(s \o t, i + Len(s))
<1>1. PICK k \in 1..Len(t) :
        /\ i < k /\ t[k].op = "wipe" /\ t[k].x = t[i].x
        /\ \A j \in 1..Len(t) : i < j /\ j < k => t[j].op = "let"
  BY DEF Settled
<1>2. /\ k + Len(s) \in 1..Len(s \o t) /\ (s \o t)[k + Len(s)] = t[k]
      /\ (s \o t)[i + Len(s)] = t[i] /\ i + Len(s) < k + Len(s)
  BY Parts, <1>1
<1>3. ASSUME NEW j \in 1..Len(s \o t), i + Len(s) < j, j < k + Len(s)
      PROVE  (s \o t)[j].op = "let"
  <2> Len(s) \in Nat
    BY Parts
  <2>1. ~ (j \in 1..Len(s))
    BY <1>3
  <2>2. ASSUME NEW h \in 1..Len(t), j = h + Len(s), (s \o t)[j] = t[h]
        PROVE  (s \o t)[j].op = "let"
    <3>1. i < h /\ h < k
      BY <2>2, <1>3
    <3> QED BY <3>1, <2>2, <1>1
  <2> QED BY <2>1, <2>2, Split
<1> QED BY <1>1, <1>2, <1>3 DEF Settled

LEMMA LeavesBoth ==
  ASSUME NEW s, NEW t, IsBody(s), IsBody(t), NEW S, NEW T, Leaves(s, S), Leaves(t, T)
  PROVE  Leaves(s \o t, S \cup T)
<1> SUFFICES ASSUME NEW i \in 1..Len(s \o t), Plain((s \o t)[i]), ~ Settled(s \o t, i)
             PROVE  (s \o t)[i].secret \in S \cup T
  BY DEF Leaves
<1>1. CASE i \in 1..Len(s) /\ (s \o t)[i] = s[i]
  <2>1. ~ Settled(s, i)
    BY <1>1, SettledFirst
  <2> QED BY <2>1, <1>1 DEF Leaves
<1>2. ASSUME NEW h \in 1..Len(t), i = h + Len(s), (s \o t)[i] = t[h]
      PROVE  (s \o t)[i].secret \in S \cup T
  <2>1. ~ Settled(t, h)
    BY <1>2, SettledSecond
  <2> QED BY <2>1, <1>2 DEF Leaves
<1> QED BY <1>1, <1>2, Split

LEMMA AgreesBoth ==
  ASSUME NEW s, NEW t, IsBody(s), IsBody(t), Agrees(s), Agrees(t)
  PROVE  Agrees(s \o t)
<1> SUFFICES ASSUME NEW j \in 1..Len(s \o t)
             PROVE  ~ Refuses((s \o t)[j])
  BY DEF Agrees
<1> QED BY Split DEF Agrees

LEMMA QuietFirst ==
  ASSUME NEW s, NEW t, IsBody(s), IsBody(t), Quiet(s),
         Leaves(s, {"ML-KEM secret"}) \/ Agrees(t),
         NEW i \in 1..Len(s), Plain(s[i]), ~ Settled(s \o t, i),
         NEW j \in 1..Len(s \o t), i < j, Refuses((s \o t)[j])
  PROVE  s[i].secret = "ML-KEM secret"
<1>1. ~ Settled(s, i)
  BY SettledFirst
<1>2. CASE Leaves(s, {"ML-KEM secret"})
  BY <1>1, <1>2 DEF Leaves
<1>3. CASE j \in 1..Len(s) /\ (s \o t)[j] = s[j]
  BY <1>1, <1>3 DEF Quiet
<1>4. ASSUME Agrees(t), NEW g \in 1..Len(t), (s \o t)[j] = t[g]
      PROVE  FALSE
  BY <1>4 DEF Agrees
<1> QED BY <1>2, <1>3, <1>4, Split

LEMMA QuietSecond ==
  ASSUME NEW s, NEW t, IsBody(s), IsBody(t), Quiet(t),
         NEW h \in 1..Len(t), Plain(t[h]), ~ Settled(s \o t, h + Len(s)),
         NEW j \in 1..Len(s \o t), h + Len(s) < j, Refuses((s \o t)[j])
  PROVE  t[h].secret = "ML-KEM secret"
<1>1. ~ Settled(t, h) /\ Len(s) \in Nat
  BY SettledSecond, Parts
<1>2. ~ (j \in 1..Len(s))
  BY ONLY <1>1, h \in 1..Len(t), h + Len(s) < j
<1>3. PICK g \in 1..Len(t) : j = g + Len(s) /\ (s \o t)[j] = t[g]
  BY <1>2, Split
<1>4. h < g
  BY ONLY <1>1, <1>3, h \in 1..Len(t), h + Len(s) < j
<1> QED BY <1>1, <1>3, <1>4 DEF Quiet

(* If the first piece leaves nothing but the ML-KEM secret, or the second   *)
(* does not refuse, no refusal comes too late.                             *)
LEMMA QuietBoth ==
  ASSUME NEW s, NEW t, IsBody(s), IsBody(t), Quiet(s), Quiet(t),
         Leaves(s, {"ML-KEM secret"}) \/ Agrees(t)
  PROVE  Quiet(s \o t)
<1> SUFFICES ASSUME NEW i \in 1..Len(s \o t), NEW j \in 1..Len(s \o t),
                    Plain((s \o t)[i]), ~ Settled(s \o t, i), i < j,
                    Refuses((s \o t)[j])
             PROVE  (s \o t)[i].secret = "ML-KEM secret"
  BY DEF Quiet
<1>1. CASE i \in 1..Len(s) /\ (s \o t)[i] = s[i]
  BY <1>1, QuietFirst
<1>2. ASSUME NEW h \in 1..Len(t), i = h + Len(s), (s \o t)[i] = t[h]
      PROVE  (s \o t)[i].secret = "ML-KEM secret"
  <2>1. Plain(t[h]) /\ ~ Settled(s \o t, h + Len(s)) /\ h + Len(s) < j
    BY <1>2
  <2>2. t[h].secret = "ML-KEM secret"
    BY <2>1, QuietSecond
  <2> QED BY <2>2, <1>2
<1>3. \/ i \in 1..Len(s) /\ (s \o t)[i] = s[i]
      \/ \E h \in 1..Len(t) : i = h + Len(s) /\ (s \o t)[i] = t[h]
  BY ONLY Split, IsBody(s), IsBody(t), i \in 1..Len(s \o t)
<1> QED BY ONLY <1>1, <1>2, <1>3

LEMMA TameIsCareful ==
  ASSUME NEW b, NEW S, Tame(b, S)
  PROVE  Careful(b, S)
BY DEF Tame, Careful, Quiet, Agrees

LEMMA NothingIsCareful ==
  ASSUME NEW b, IsBody(b), Leaves(b, {})
  PROVE  Careful(b, {})
BY DEF Careful, Leaves, Quiet

LEMMA TameTame ==
  ASSUME NEW s, NEW t, NEW S, NEW T, Tame(s, S), Tame(t, T)
  PROVE  Tame(s \o t, S \cup T)
BY LeavesBoth, AgreesBoth, BodyBoth DEF Tame

LEMMA CarefulTame ==
  ASSUME NEW s, NEW t, NEW S, NEW T, Careful(s, S), Tame(t, T)
  PROVE  Careful(s \o t, S \cup T)
<1>1. Careful(t, T)
  BY TameIsCareful
<1> QED BY <1>1, LeavesBoth, QuietBoth, BodyBoth DEF Tame, Careful

LEMMA CarefulCareful ==
  ASSUME NEW s, NEW t, NEW S, NEW T, Careful(s, S), Careful(t, T),
         S \subseteq {"ML-KEM secret"}
  PROVE  Careful(s \o t, S \cup T)
<1>1. Leaves(s, {"ML-KEM secret"})
  BY DEF Careful, Leaves
<1> QED BY <1>1, LeavesBoth, QuietBoth, BodyBoth DEF Careful

-----------------------------------------------------------------------------
(* Sequences written out. *)
LEMMA Tuple1 ==
  ASSUME NEW a
  PROVE  IsSeq(<<a>>)
<1>1. <<a>> \in Seq({a})
  OBVIOUS
<1> QED BY ONLY <1>1, IsSequence

LEMMA Tuple2 ==
  ASSUME NEW a, NEW b
  PROVE  IsSeq(<<a, b>>)
<1>1. <<a, b>> \in Seq({a, b})
  OBVIOUS
<1> QED BY ONLY <1>1, IsSequence

LEMMA Tuple3 ==
  ASSUME NEW a, NEW b, NEW c
  PROVE  IsSeq(<<a, b, c>>)
<1>1. <<a, b, c>> \in Seq({a, b, c})
  OBVIOUS
<1> QED BY ONLY <1>1, IsSequence

LEMMA Tuple4 ==
  ASSUME NEW a, NEW b, NEW c, NEW d
  PROVE  IsSeq(<<a, b, c, d>>)
<1>1. <<a, b, c, d>> \in Seq({a, b, c, d})
  OBVIOUS
<1> QED BY ONLY <1>1, IsSequence

LEMMA Tuple5 ==
  ASSUME NEW a, NEW b, NEW c, NEW d, NEW e
  PROVE  IsSeq(<<a, b, c, d, e>>)
<1>1. <<a, b, c, d, e>> \in Seq({a, b, c, d, e})
  OBVIOUS
<1> QED BY ONLY <1>1, IsSequence

LEMMA Tuple6 ==
  ASSUME NEW a, NEW b, NEW c, NEW d, NEW e, NEW f
  PROVE  IsSeq(<<a, b, c, d, e, f>>)
<1>1. <<a, b, c, d, e, f>> \in Seq({a, b, c, d, e, f})
  OBVIOUS
<1> QED BY ONLY <1>1, IsSequence

(* The pieces written out: kdf.rs, vault.rs. *)
LEMMA MasterKeyPiece == Tame(derive_master_key, {})
<1> DEFINE b == derive_master_key
<1>1. IsSeq(b)
  BY Tuple5 DEF derive_master_key
<1>2. Len(b) = 5
  BY DEF derive_master_key
<1>3. /\ b[1].op = "try" /\ b[1].err = "InvalidInput"
      /\ b[2].op = "try" /\ b[2].err = "Kdf"
      /\ b[3].op = "let" /\ b[3].kind = "Zeroizing"
      /\ b[4].op = "try" /\ b[4].err = "Kdf"
      /\ b[5].op = "give" /\ b[5].handle = "mk"
  BY DEF derive_master_key, Try, Let, Give
<1>4. \A i \in 1..Len(b) : i \in {1, 2, 3, 4, 5}
  BY <1>2
<1> HIDE DEF b
<1>5. \A i \in 1..Len(b) : WellFormed(b[i])
  BY <1>3, <1>4 DEF WellFormed, Errors, Handles, Wipes
<1>6. Leaves(b, {})
  BY <1>3, <1>4 DEF Leaves, Plain, Wipes
<1>7. Agrees(b)
  BY <1>3, <1>4 DEF Agrees, Refuses, Refusals
<1> QED BY <1>1, <1>5, <1>6, <1>7 DEF Tame, IsBody, b

LEMMA SrpPasswordPiece == Tame(derive_srp_password, {})
<1> DEFINE b == derive_srp_password
<1>1. IsSeq(b)
  BY Tuple4 DEF derive_srp_password
<1>2. Len(b) = 4
  BY DEF derive_srp_password
<1>3. /\ b[1].op = "try" /\ b[1].err = "InvalidInput"
      /\ b[2].op = "try" /\ b[2].err = "Kdf"
      /\ b[3].op = "let" /\ b[3].kind = "Zeroizing"
      /\ b[4].op = "try" /\ b[4].err = "Kdf"
  BY DEF derive_srp_password, Try, Let
<1>4. \A i \in 1..Len(b) : i \in {1, 2, 3, 4}
  BY <1>2
<1> HIDE DEF b
<1>5. \A i \in 1..Len(b) : WellFormed(b[i])
  BY <1>3, <1>4 DEF WellFormed, Errors, Handles, Wipes
<1>6. Leaves(b, {})
  BY <1>3, <1>4 DEF Leaves, Plain, Wipes
<1>7. Agrees(b)
  BY <1>3, <1>4 DEF Agrees, Refuses, Refusals
<1> QED BY <1>1, <1>5, <1>6, <1>7 DEF Tame, IsBody, b

LEMMA HkdfPiece ==
  ASSUME NEW key, NEW secret
  PROVE  Tame(hkdf_subkey(key, secret), {})
<1> DEFINE b == hkdf_subkey(key, secret)
<1>1. IsSeq(b)
  BY Tuple2 DEF hkdf_subkey
<1>2. Len(b) = 2
  BY DEF hkdf_subkey
<1>3. /\ b[1].op = "let" /\ b[1].kind = "SecretArray"
      /\ b[2].op = "try" /\ b[2].err = "Kdf"
  BY DEF hkdf_subkey, Let, Try
<1>4. \A i \in 1..Len(b) : i \in {1, 2}
  BY <1>2
<1> HIDE DEF b
<1>5. \A i \in 1..Len(b) : WellFormed(b[i])
  BY <1>3, <1>4 DEF WellFormed, Errors, Handles, Wipes
<1>6. Leaves(b, {})
  BY <1>3, <1>4 DEF Leaves, Plain, Wipes
<1>7. Agrees(b)
  BY <1>3, <1>4 DEF Agrees, Refuses, Refusals
<1> QED BY <1>1, <1>5, <1>6, <1>7 DEF Tame, IsBody, b

LEMMA GeneratePiece == Tame(generate, {"vault key"})
<1> DEFINE b == generate
<1>1. IsSeq(b)
  BY Tuple2 DEF generate
<1>2. Len(b) = 2
  BY DEF generate
<1>3. /\ b[1].op = "let" /\ b[1].secret = "vault key"
      /\ b[2].op = "give" /\ b[2].handle = "vk"
  BY DEF generate, Let, Give
<1>4. \A i \in 1..Len(b) : i \in {1, 2}
  BY <1>2
<1> HIDE DEF b
<1>5. \A i \in 1..Len(b) : WellFormed(b[i])
  BY <1>3, <1>4 DEF WellFormed, Errors, Handles, Wipes
<1>6. Leaves(b, {"vault key"})
  BY <1>3, <1>4 DEF Leaves, Plain, Wipes
<1>7. Agrees(b)
  BY <1>3, <1>4 DEF Agrees, Refuses, Refusals
<1> QED BY <1>1, <1>5, <1>6, <1>7 DEF Tame, IsBody, b

LEMMA TryPiece ==
  ASSUME NEW err \in Errors \ Refusals
  PROVE  Tame(<<Try(err)>>, {})
<1> DEFINE b == <<Try(err)>>
<1>1. IsSeq(b)
  BY Tuple1
<1>2. Len(b) = 1
  OBVIOUS
<1>3. /\ b[1].op = "try" /\ b[1].err = err
  BY DEF Try
<1>4. \A i \in 1..Len(b) : i \in {1}
  BY <1>2
<1> HIDE DEF b
<1>5. \A i \in 1..Len(b) : WellFormed(b[i])
  BY <1>3, <1>4 DEF WellFormed, Errors, Handles, Wipes
<1>6. Leaves(b, {})
  BY <1>3, <1>4 DEF Leaves, Plain, Wipes
<1>7. Agrees(b)
  BY <1>3, <1>4 DEF Agrees, Refuses, Refusals
<1> QED BY <1>1, <1>5, <1>6, <1>7 DEF Tame, IsBody, b

LEMMA TwoTries ==
  ASSUME NEW err1 \in Errors \ Refusals, NEW err2 \in Errors
  PROVE  Careful(<<Try(err1), Try(err2)>>, {})
<1> DEFINE b == <<Try(err1), Try(err2)>>
<1>1. IsSeq(b)
  BY Tuple2
<1>2. Len(b) = 2
  OBVIOUS
<1>3. b[1].op = "try" /\ b[1].err = err1 /\ b[2].op = "try" /\ b[2].err = err2
  BY DEF Try
<1>4. \A i \in 1..Len(b) : i \in {1, 2}
  BY <1>2
<1> HIDE DEF b
<1>5. \A i \in 1..Len(b) : WellFormed(b[i])
  BY <1>3, <1>4 DEF WellFormed
<1>6. Leaves(b, {})
  BY <1>3, <1>4 DEF Leaves, Plain
<1> QED BY <1>1, <1>5, <1>6, NothingIsCareful DEF IsBody, b

LEMMA EncryptPiece == Careful(encrypt_vault, {})
BY TryPiece, TameIsCareful DEF encrypt_vault, Errors, Refusals

LEMMA DecryptPiece == Careful(decrypt_vault, {})
BY TwoTries DEF decrypt_vault, Errors, Refusals

LEMMA ServerProofPiece == Careful(verify_server_proof, {})
BY TwoTries DEF verify_server_proof, Errors, Refusals

LEMMA SelfTestPiece == Tame(aad_self_test, {"vault key"})
<1> DEFINE b == aad_self_test
<1>1. IsSeq(b)
  BY Tuple4 DEF aad_self_test
<1>2. Len(b) = 4
  BY DEF aad_self_test
<1>3. /\ b[1].op = "let" /\ b[1].secret = "vault key"
      /\ b[2].op = "let" /\ b[2].kind = "ZeroizeOnDrop"
      /\ b[3].op = "leave"
      /\ b[4].op = "try" /\ b[4].err = "Encryption"
  BY DEF aad_self_test, Try, Let, Leave
<1>4. \A i \in 1..Len(b) : i \in {1, 2, 3, 4}
  BY <1>2
<1> HIDE DEF b
<1>5. \A i \in 1..Len(b) : WellFormed(b[i])
  BY <1>3, <1>4 DEF WellFormed, Errors, Handles, Wipes
<1>6. Leaves(b, {"vault key"})
  BY <1>3, <1>4 DEF Leaves, Plain, Wipes
<1>7. Agrees(b)
  BY <1>3, <1>4 DEF Agrees, Refuses, Refusals
<1> QED BY <1>1, <1>5, <1>6, <1>7 DEF Tame, IsBody, b

LEMMA ReencryptPiece == Careful(reencrypt_vault, {})
<1> DEFINE b == reencrypt_vault
<1>1. IsSeq(b)
  BY Tuple3 DEF reencrypt_vault
<1>2. Len(b) = 3
  BY DEF reencrypt_vault
<1>3. /\ b[1].op = "try" /\ b[1].err = "Decryption"
      /\ b[2].op = "let" /\ b[2].kind = "SecretBytes"
      /\ b[3].op = "try" /\ b[3].err = "Encryption"
  BY DEF reencrypt_vault, Try, Let
<1>4. \A i \in 1..Len(b) : i \in {1, 2, 3}
  BY <1>2
<1> HIDE DEF b
<1>5. \A i \in 1..Len(b) : WellFormed(b[i])
  BY <1>3, <1>4 DEF WellFormed, Errors, Handles, Wipes
<1>6. Leaves(b, {})
  BY <1>3, <1>4 DEF Leaves, Plain, Wipes
<1> QED BY <1>1, <1>5, <1>6, NothingIsCareful DEF IsBody, b
(* keypair.rs. *)
LEMMA RawCipherPiece ==
  ASSUME NEW err \in Errors \ Refusals
  PROVE  Tame(new_xchacha_cipher_raw(err), {})
<1> DEFINE b == new_xchacha_cipher_raw(err)
<1>1. IsSeq(b)
  BY Tuple3 DEF new_xchacha_cipher_raw
<1>2. Len(b) = 3
  BY DEF new_xchacha_cipher_raw
<1>3. /\ b[1].op = "let" /\ b[1].kind = "SecretArray"
      /\ b[2].op = "try" /\ b[2].err = err /\ b[3].op = "leave"
  BY DEF new_xchacha_cipher_raw, Let, Try, Leave
<1>4. \A i \in 1..Len(b) : i \in {1, 2, 3}
  BY <1>2
<1> HIDE DEF b
<1>5. \A i \in 1..Len(b) : WellFormed(b[i])
  BY <1>3, <1>4 DEF WellFormed, Errors, Handles, Wipes
<1>6. Leaves(b, {})
  BY <1>3, <1>4 DEF Leaves, Plain, Wipes
<1>7. Agrees(b)
  BY <1>3, <1>4 DEF Agrees, Refuses, Refusals
<1> QED BY <1>1, <1>5, <1>6, <1>7 DEF Tame, IsBody, b

LEMMA ClientProofPiece == Tame(compute_client_proof, {"SRP password"})
<1> DEFINE b == compute_client_proof
<1>1. IsSeq(b)
  BY Tuple6 DEF compute_client_proof
<1>2. Len(b) = 6
  BY DEF compute_client_proof
<1>3. /\ b[1].op = "try" /\ b[1].err = "InvalidInput"
      /\ b[2].op = "let" /\ b[2].secret = "SRP password"
      /\ b[3].op = "try" /\ b[3].err = "InvalidInput"
      /\ b[4].op = "into" /\ b[4].kind = "Zeroizing"
      /\ b[5].op = "try" /\ b[5].err = "Srp"
      /\ b[6].op = "give" /\ b[6].handle = "proof"
  BY DEF compute_client_proof, Try, Let, Into, Give
<1>4. \A i \in 1..Len(b) : i \in {1, 2, 3, 4, 5, 6}
  BY <1>2
<1> HIDE DEF b
<1>5. \A i \in 1..Len(b) : WellFormed(b[i])
  BY <1>3, <1>4 DEF WellFormed, Errors, Handles, Wipes
<1>6. Leaves(b, {"SRP password"})
  BY <1>3, <1>4 DEF Leaves, Plain, Wipes
<1>7. Agrees(b)
  BY <1>3, <1>4 DEF Agrees, Refuses, Refusals
<1> QED BY <1>1, <1>5, <1>6, <1>7 DEF Tame, IsBody, b

LEMMA MlkemPiece == Tame(derive_mlkem_from_ed25519_seed, {"ML-KEM seed"})
<1> DEFINE b == derive_mlkem_from_ed25519_seed
<1>1. IsSeq(b)
  BY Tuple6 DEF derive_mlkem_from_ed25519_seed
<1>2. Len(b) = 6
  BY DEF derive_mlkem_from_ed25519_seed
<1>3. /\ b[1].op = "let" /\ b[1].kind = "SecretArray"
      /\ b[2].op = "try" /\ b[2].err = "Kdf"
      /\ b[3].op = "let" /\ b[3].secret = "ML-KEM seed"
      /\ b[4].op = "let" /\ b[4].kind = "ZeroizeOnDrop"
      /\ b[5].op = "try" /\ b[5].err = "InvalidInput" /\ b[6].op = "leave"
  BY DEF derive_mlkem_from_ed25519_seed, Let, Try, Leave
<1>4. \A i \in 1..Len(b) : i \in {1, 2, 3, 4, 5, 6}
  BY <1>2
<1> HIDE DEF b
<1>5. \A i \in 1..Len(b) : WellFormed(b[i])
  BY <1>3, <1>4 DEF WellFormed, Errors, Handles, Wipes
<1>6. Leaves(b, {"ML-KEM seed"})
  BY <1>3, <1>4 DEF Leaves, Plain, Wipes
<1>7. Agrees(b)
  BY <1>3, <1>4 DEF Agrees, Refuses, Refusals
<1> QED BY <1>1, <1>5, <1>6, <1>7 DEF Tame, IsBody, b

(* The input of the KDF is overwritten before anything can return.         *)
LEMMA HybridPiece == Tame(hybrid_wrap_key, {})
<1> DEFINE b == hybrid_wrap_key
<1>1. IsSeq(b)
  BY Tuple5 DEF hybrid_wrap_key
<1>2. Len(b) = 5
  BY DEF hybrid_wrap_key
<1>3. /\ b[1].op = "let" /\ b[1].secret = "wrap input" /\ b[1].x = "ikm"
      /\ b[2].op = "let" /\ b[2].kind = "SecretArray"
      /\ b[3].op = "wipe" /\ b[3].x = "ikm" /\ b[4].op = "leave"
      /\ b[5].op = "try" /\ b[5].err = "Kdf"
  BY DEF hybrid_wrap_key, Let, Wipe, Leave, Try
<1>4. \A i \in 1..Len(b) : i \in {1, 2, 3, 4, 5}
  BY <1>2
<1> HIDE DEF b
<1>5. \A i \in 1..Len(b) : WellFormed(b[i])
  BY <1>3, <1>4 DEF WellFormed, Errors, Handles, Wipes
<1>6. Settled(b, 1)
  <2>1. 3 \in 1..Len(b)
    BY <1>2
  <2>2. b[3].op = "wipe" /\ b[3].x = b[1].x
    BY <1>3
  <2>3. ASSUME NEW j \in 1..Len(b), 1 < j, j < 3
        PROVE  b[j].op = "let"
    <3>1. j = 2
      BY <2>3
    <3> QED BY <3>1, <1>3
  <2>4. 1 < 3
    OBVIOUS
  <2> QED BY ONLY <2>1, <2>2, <2>3, <2>4 DEF Settled
<1>7. Leaves(b, {})
  BY <1>3, <1>4, <1>6 DEF Leaves, Plain, Wipes
<1>8. Agrees(b)
  BY <1>3, <1>4 DEF Agrees, Refuses, Refusals
<1> QED BY <1>1, <1>5, <1>7, <1>8 DEF Tame, IsBody, b

LEMMA EncapsulatePiece == Tame(mlkem_encapsulate, {"randomness", "ML-KEM secret"})
<1> DEFINE b == mlkem_encapsulate
<1>1. IsSeq(b)
  BY Tuple5 DEF mlkem_encapsulate
<1>2. Len(b) = 5
  BY DEF mlkem_encapsulate
<1>3. /\ b[1].op = "try" /\ b[1].err = "InvalidPublicKey"
      /\ b[2].op = "let" /\ b[2].secret = "randomness"
      /\ b[3].op = "let" /\ b[3].secret = "ML-KEM secret"
      /\ b[4].op = "let" /\ b[4].secret = "ML-KEM secret"
      /\ b[5].op = "leave"
  BY DEF mlkem_encapsulate, Try, Let, Leave
<1>4. \A i \in 1..Len(b) : i \in {1, 2, 3, 4, 5}
  BY <1>2
<1> HIDE DEF b
<1>5. \A i \in 1..Len(b) : WellFormed(b[i])
  BY <1>3, <1>4 DEF WellFormed, Errors, Handles, Wipes
<1>6. Leaves(b, {"randomness", "ML-KEM secret"})
  BY <1>3, <1>4 DEF Leaves, Plain, Wipes
<1>7. Agrees(b)
  BY <1>3, <1>4 DEF Agrees, Refuses, Refusals
<1> QED BY <1>1, <1>5, <1>6, <1>7 DEF Tame, IsBody, b

LEMMA DecapsulatePiece == Tame(mlkem_decapsulate, {"ML-KEM secret"})
<1> DEFINE b == mlkem_decapsulate
<1>1. IsSeq(b)
  BY Tuple4 DEF mlkem_decapsulate
<1>2. Len(b) = 4
  BY DEF mlkem_decapsulate
<1>3. /\ b[1].op = "try" /\ b[1].err = "InvalidInput"
      /\ b[2].op = "let" /\ b[2].secret = "ML-KEM secret"
      /\ b[3].op = "let" /\ b[3].secret = "ML-KEM secret"
      /\ b[4].op = "leave"
  BY DEF mlkem_decapsulate, Try, Let, Leave
<1>4. \A i \in 1..Len(b) : i \in {1, 2, 3, 4}
  BY <1>2
<1> HIDE DEF b
<1>5. \A i \in 1..Len(b) : WellFormed(b[i])
  BY <1>3, <1>4 DEF WellFormed, Errors, Handles, Wipes
<1>6. Leaves(b, {"ML-KEM secret"})
  BY <1>3, <1>4 DEF Leaves, Plain, Wipes
<1>7. Agrees(b)
  BY <1>3, <1>4 DEF Agrees, Refuses, Refusals
<1> QED BY <1>1, <1>5, <1>6, <1>7 DEF Tame, IsBody, b

LEMMA VerifierPiece == Tame(compute_verifier, {"SRP password"})
<1> DEFINE b == compute_verifier
<1>1. IsSeq(b)
  BY Tuple5 DEF compute_verifier
<1>2. Len(b) = 5
  BY DEF compute_verifier
<1>3. /\ b[1].op = "try" /\ b[1].err = "InvalidInput"
      /\ b[2].op = "let" /\ b[2].secret = "SRP password"
      /\ b[3].op = "try" /\ b[3].err = "InvalidInput"
      /\ b[4].op = "into" /\ b[4].kind = "Zeroizing" /\ b[5].op = "leave"
  BY DEF compute_verifier, Try, Let, Into, Leave
<1>4. \A i \in 1..Len(b) : i \in {1, 2, 3, 4, 5}
  BY <1>2
<1> HIDE DEF b
<1>5. \A i \in 1..Len(b) : WellFormed(b[i])
  BY <1>3, <1>4 DEF WellFormed, Errors, Handles, Wipes
<1>6. Leaves(b, {"SRP password"})
  BY <1>3, <1>4 DEF Leaves, Plain, Wipes
<1>7. Agrees(b)
  BY <1>3, <1>4 DEF Agrees, Refuses, Refusals
<1> QED BY <1>1, <1>5, <1>6, <1>7 DEF Tame, IsBody, b

LEMMA EphemeralPiece == Tame(generate_client_ephemeral, {"SRP exponent"})
<1> DEFINE b == generate_client_ephemeral
<1>1. IsSeq(b)
  BY Tuple4 DEF generate_client_ephemeral
<1>2. Len(b) = 4
  BY DEF generate_client_ephemeral
<1>3. /\ b[1].op = "let" /\ b[1].secret = "SRP exponent"
      /\ b[2].op = "try" /\ b[2].err = "Srp"
      /\ b[3].op = "into" /\ b[3].kind = "ZeroizeOnDrop"
      /\ b[4].op = "give" /\ b[4].handle = "ephemeral"
  BY DEF generate_client_ephemeral, Let, Try, Into, Give
<1>4. \A i \in 1..Len(b) : i \in {1, 2, 3, 4}
  BY <1>2
<1> HIDE DEF b
<1>5. \A i \in 1..Len(b) : WellFormed(b[i])
  BY <1>3, <1>4 DEF WellFormed, Errors, Handles, Wipes
<1>6. Leaves(b, {"SRP exponent"})
  BY <1>3, <1>4 DEF Leaves, Plain, Wipes
<1>7. Agrees(b)
  BY <1>3, <1>4 DEF Agrees, Refuses, Refusals
<1> QED BY <1>1, <1>5, <1>6, <1>7 DEF Tame, IsBody, b
(* The pieces that are not a function of their own. *)
LEMMA GivePiece ==
  ASSUME NEW handle \in Handles
  PROVE  Tame(<<Give(handle)>>, {})
<1> DEFINE b == <<Give(handle)>>
<1>1. IsSeq(b)
  BY Tuple1
<1>2. Len(b) = 1
  OBVIOUS
<1>3. /\ b[1].op = "give" /\ b[1].handle = handle
  BY DEF Give
<1>4. \A i \in 1..Len(b) : i \in {1}
  BY <1>2
<1> HIDE DEF b
<1>5. \A i \in 1..Len(b) : WellFormed(b[i])
  BY <1>3, <1>4 DEF WellFormed, Errors, Handles, Wipes
<1>6. Leaves(b, {})
  BY <1>3, <1>4 DEF Leaves, Plain, Wipes
<1>7. Agrees(b)
  BY <1>3, <1>4 DEF Agrees, Refuses, Refusals
<1> QED BY <1>1, <1>5, <1>6, <1>7 DEF Tame, IsBody, b

LEMMA InnerPiece ==
  ASSUME NEW x, NEW out, NEW secret
  PROVE  Tame(into_inner(x, out, secret), {secret})
<1> DEFINE b == into_inner(x, out, secret)
<1>1. IsSeq(b)
  BY Tuple3 DEF into_inner
<1>2. Len(b) = 3
  BY DEF into_inner
<1>3. /\ b[1].op = "let" /\ b[1].secret = secret /\ b[2].op = "wipe"
      /\ b[3].op = "leave"
  BY DEF into_inner, Let, Wipe, Leave
<1>4. \A i \in 1..Len(b) : i \in {1, 2, 3}
  BY <1>2
<1> HIDE DEF b
<1>5. \A i \in 1..Len(b) : WellFormed(b[i])
  BY <1>3, <1>4 DEF WellFormed, Errors, Handles, Wipes
<1>6. Leaves(b, {secret})
  BY <1>3, <1>4 DEF Leaves, Plain, Wipes
<1>7. Agrees(b)
  BY <1>3, <1>4 DEF Agrees, Refuses, Refusals
<1> QED BY <1>1, <1>5, <1>6, <1>7 DEF Tame, IsBody, b

LEMMA CipherTail ==
  ASSUME NEW err \in Errors, NEW xs
  PROVE  Careful(<<Try(err), Leave(xs)>>, {})
<1> DEFINE b == <<Try(err), Leave(xs)>>
<1>1. IsSeq(b)
  BY Tuple2
<1>2. Len(b) = 2
  OBVIOUS
<1>3. /\ b[1].op = "try" /\ b[1].err = err /\ b[2].op = "leave"
  BY DEF Try, Leave
<1>4. \A i \in 1..Len(b) : i \in {1, 2}
  BY <1>2
<1> HIDE DEF b
<1>5. \A i \in 1..Len(b) : WellFormed(b[i])
  BY <1>3, <1>4 DEF WellFormed, Errors, Handles, Wipes
<1>6. Leaves(b, {})
  BY <1>3, <1>4 DEF Leaves, Plain, Wipes
<1> QED BY <1>1, <1>5, <1>6, NothingIsCareful DEF IsBody, b

LEMMA RawCipherCareful ==
  ASSUME NEW err \in Errors
  PROVE  Careful(new_xchacha_cipher_raw(err), {})
<1> DEFINE b == new_xchacha_cipher_raw(err)
<1>1. IsSeq(b)
  BY Tuple3 DEF new_xchacha_cipher_raw
<1>2. Len(b) = 3
  BY DEF new_xchacha_cipher_raw
<1>3. /\ b[1].op = "let" /\ b[1].kind = "SecretArray"
      /\ b[2].op = "try" /\ b[2].err = err /\ b[3].op = "leave"
  BY DEF new_xchacha_cipher_raw, Let, Try, Leave
<1>4. \A i \in 1..Len(b) : i \in {1, 2, 3}
  BY <1>2
<1> HIDE DEF b
<1>5. \A i \in 1..Len(b) : WellFormed(b[i])
  BY <1>3, <1>4 DEF WellFormed, Errors, Handles, Wipes
<1>6. Leaves(b, {})
  BY <1>3, <1>4 DEF Leaves, Plain, Wipes
<1> QED BY <1>1, <1>5, <1>6, NothingIsCareful DEF IsBody, b

LEMMA OpenedKey ==
  ASSUME NEW x
  PROVE  Careful(<<Try("KeyUnwrap"), Let(x, "Vec", "opened vault key"), Try("InvalidInput"),
    Let("key", "array", "vault key"), Give("vk")>>, {"opened vault key", "vault key"})
<1> DEFINE b == <<Try("KeyUnwrap"), Let(x, "Vec", "opened vault key"), Try("InvalidInput"),
    Let("key", "array", "vault key"), Give("vk")>>
<1>1. IsSeq(b)
  BY Tuple5
<1>2. Len(b) = 5
  OBVIOUS
<1>3. /\ b[1].op = "try" /\ b[1].err = "KeyUnwrap"
      /\ b[2].op = "let" /\ b[2].secret = "opened vault key"
      /\ b[3].op = "try" /\ b[3].err = "InvalidInput"
      /\ b[4].op = "let" /\ b[4].secret = "vault key"
      /\ b[5].op = "give" /\ b[5].handle = "vk"
  BY DEF Try, Let, Give
<1>4. \A i \in 1..Len(b) : i \in {1, 2, 3, 4, 5}
  BY <1>2
<1> HIDE DEF b
<1>5. \A i \in 1..Len(b) : WellFormed(b[i])
  BY <1>3, <1>4 DEF WellFormed, Errors, Handles, Wipes
<1>6. Leaves(b, {"opened vault key", "vault key"})
  BY <1>3, <1>4 DEF Leaves, Plain, Wipes
<1>7. \A j \in 1..Len(b) : Refuses(b[j]) => j = 1
  BY <1>3, <1>4 DEF Refuses, Refusals
<1>8. ASSUME NEW i \in 1..Len(b), NEW j \in 1..Len(b), i < j, Refuses(b[j])
      PROVE  FALSE
  BY <1>7, <1>8
<1>9. Quiet(b)
  BY ONLY <1>8 DEF Quiet
<1> QED BY <1>1, <1>5, <1>6, <1>9 DEF Careful, IsBody, b

LEMMA OpenedSeed ==
  Careful(<<Try("KeyUnwrap"), Let("seed_bytes", "Vec", "opened seed"), Try("InvalidInput"),
            Let("seed", "array", "seed"), Let("signing_key", "ZeroizeOnDrop", "seed")>>,
          {"opened seed", "seed"})
<1> DEFINE b == <<Try("KeyUnwrap"), Let("seed_bytes", "Vec", "opened seed"), Try("InvalidInput"),
    Let("seed", "array", "seed"), Let("signing_key", "ZeroizeOnDrop", "seed")>>
<1>1. IsSeq(b)
  BY Tuple5
<1>2. Len(b) = 5
  OBVIOUS
<1>3. /\ b[1].op = "try" /\ b[1].err = "KeyUnwrap"
      /\ b[2].op = "let" /\ b[2].secret = "opened seed"
      /\ b[3].op = "try" /\ b[3].err = "InvalidInput"
      /\ b[4].op = "let" /\ b[4].secret = "seed"
      /\ b[5].op = "let" /\ b[5].kind = "ZeroizeOnDrop"
  BY DEF Try, Let
<1>4. \A i \in 1..Len(b) : i \in {1, 2, 3, 4, 5}
  BY <1>2
<1> HIDE DEF b
<1>5. \A i \in 1..Len(b) : WellFormed(b[i])
  BY <1>3, <1>4 DEF WellFormed, Errors, Handles, Wipes
<1>6. Leaves(b, {"opened seed", "seed"})
  BY <1>3, <1>4 DEF Leaves, Plain, Wipes
<1>7. \A j \in 1..Len(b) : Refuses(b[j]) => j = 1
  BY <1>3, <1>4 DEF Refuses, Refusals
<1>8. ASSUME NEW i \in 1..Len(b), NEW j \in 1..Len(b), i < j, Refuses(b[j])
      PROVE  FALSE
  BY <1>7, <1>8
<1>9. Quiet(b)
  BY ONLY <1>8 DEF Quiet
<1> QED BY <1>1, <1>5, <1>6, <1>9 DEF Careful, IsBody, b

LEMMA NewSeed ==
  Tame(<<Let("signing_key", "ZeroizeOnDrop", "seed"), Let("seed", "array", "seed")>>,
       {"seed"})
<1> DEFINE b == <<Let("signing_key", "ZeroizeOnDrop", "seed"), Let("seed", "array", "seed")>>
<1>1. IsSeq(b)
  BY Tuple2
<1>2. Len(b) = 2
  OBVIOUS
<1>3. /\ b[1].op = "let" /\ b[1].kind = "ZeroizeOnDrop"
      /\ b[2].op = "let" /\ b[2].secret = "seed"
  BY DEF Let
<1>4. \A i \in 1..Len(b) : i \in {1, 2}
  BY <1>2
<1> HIDE DEF b
<1>5. \A i \in 1..Len(b) : WellFormed(b[i])
  BY <1>3, <1>4 DEF WellFormed, Errors, Handles, Wipes
<1>6. Leaves(b, {"seed"})
  BY <1>3, <1>4 DEF Leaves, Plain, Wipes
<1>7. Agrees(b)
  BY <1>3, <1>4 DEF Agrees, Refuses, Refusals
<1> QED BY <1>1, <1>5, <1>6, <1>7 DEF Tame, IsBody, b

LEMMA StaticKey ==
  Tame(<<Let("x25519_static", "ZeroizeOnDrop", "X25519 key"),
         Let("x25519_bytes", "array", "X25519 key")>>, {"X25519 key"})
<1> DEFINE b == <<Let("x25519_static", "ZeroizeOnDrop", "X25519 key"),
    Let("x25519_bytes", "array", "X25519 key")>>
<1>1. IsSeq(b)
  BY Tuple2
<1>2. Len(b) = 2
  OBVIOUS
<1>3. /\ b[1].op = "let" /\ b[1].kind = "ZeroizeOnDrop"
      /\ b[2].op = "let" /\ b[2].secret = "X25519 key"
  BY DEF Let
<1>4. \A i \in 1..Len(b) : i \in {1, 2}
  BY <1>2
<1> HIDE DEF b
<1>5. \A i \in 1..Len(b) : WellFormed(b[i])
  BY <1>3, <1>4 DEF WellFormed, Errors, Handles, Wipes
<1>6. Leaves(b, {"X25519 key"})
  BY <1>3, <1>4 DEF Leaves, Plain, Wipes
<1>7. Agrees(b)
  BY <1>3, <1>4 DEF Agrees, Refuses, Refusals
<1> QED BY <1>1, <1>5, <1>6, <1>7 DEF Tame, IsBody, b

LEMMA StaticAlone == Tame(<<Let("x25519_static", "ZeroizeOnDrop", "X25519 key")>>, {})
<1> DEFINE b == <<Let("x25519_static", "ZeroizeOnDrop", "X25519 key")>>
<1>1. IsSeq(b)
  BY Tuple1
<1>2. Len(b) = 1
  OBVIOUS
<1>3. /\ b[1].op = "let" /\ b[1].kind = "ZeroizeOnDrop"
  BY DEF Let
<1>4. \A i \in 1..Len(b) : i \in {1}
  BY <1>2
<1> HIDE DEF b
<1>5. \A i \in 1..Len(b) : WellFormed(b[i])
  BY <1>3, <1>4 DEF WellFormed, Errors, Handles, Wipes
<1>6. Leaves(b, {})
  BY <1>3, <1>4 DEF Leaves, Plain, Wipes
<1>7. Agrees(b)
  BY <1>3, <1>4 DEF Agrees, Refuses, Refusals
<1> QED BY <1>1, <1>5, <1>6, <1>7 DEF Tame, IsBody, b

LEMMA Expand == Tame(<<Let("x25519_expand", "SecretArray", "X25519 key"), Try("Kdf")>>, {})
<1> DEFINE b == <<Let("x25519_expand", "SecretArray", "X25519 key"), Try("Kdf")>>
<1>1. IsSeq(b)
  BY Tuple2
<1>2. Len(b) = 2
  OBVIOUS
<1>3. /\ b[1].op = "let" /\ b[1].kind = "SecretArray"
      /\ b[2].op = "try" /\ b[2].err = "Kdf"
  BY DEF Let, Try
<1>4. \A i \in 1..Len(b) : i \in {1, 2}
  BY <1>2
<1> HIDE DEF b
<1>5. \A i \in 1..Len(b) : WellFormed(b[i])
  BY <1>3, <1>4 DEF WellFormed, Errors, Handles, Wipes
<1>6. Leaves(b, {})
  BY <1>3, <1>4 DEF Leaves, Plain, Wipes
<1>7. Agrees(b)
  BY <1>3, <1>4 DEF Agrees, Refuses, Refusals
<1> QED BY <1>1, <1>5, <1>6, <1>7 DEF Tame, IsBody, b

LEMMA WrapHead ==
  Tame(<<Try("InvalidInput"), Let("eph_secret", "ZeroizeOnDrop", "ephemeral key"),
         Leave({"eph_secret"}), Let("shared_secret", "ZeroizeOnDrop", "X25519 secret"),
         Try("InvalidPublicKey")>>, {})
<1> DEFINE b == <<Try("InvalidInput"), Let("eph_secret", "ZeroizeOnDrop", "ephemeral key"),
    Leave({"eph_secret"}), Let("shared_secret", "ZeroizeOnDrop", "X25519 secret"),
    Try("InvalidPublicKey")>>
<1>1. IsSeq(b)
  BY Tuple5
<1>2. Len(b) = 5
  OBVIOUS
<1>3. /\ b[1].op = "try" /\ b[1].err = "InvalidInput"
      /\ b[2].op = "let" /\ b[2].kind = "ZeroizeOnDrop" /\ b[3].op = "leave"
      /\ b[4].op = "let" /\ b[4].kind = "ZeroizeOnDrop"
      /\ b[5].op = "try" /\ b[5].err = "InvalidPublicKey"
  BY DEF Try, Let, Leave
<1>4. \A i \in 1..Len(b) : i \in {1, 2, 3, 4, 5}
  BY <1>2
<1> HIDE DEF b
<1>5. \A i \in 1..Len(b) : WellFormed(b[i])
  BY <1>3, <1>4 DEF WellFormed, Errors, Handles, Wipes
<1>6. Leaves(b, {})
  BY <1>3, <1>4 DEF Leaves, Plain, Wipes
<1>7. Agrees(b)
  BY <1>3, <1>4 DEF Agrees, Refuses, Refusals
<1> QED BY <1>1, <1>5, <1>6, <1>7 DEF Tame, IsBody, b

LEMMA UnwrapHead ==
  Tame(<<Try("InvalidInput"), Let("my_static", "ZeroizeOnDrop", "X25519 key"),
         Let("shared_secret", "ZeroizeOnDrop", "X25519 secret"), Try("InvalidPublicKey")>>, {})
<1> DEFINE b == <<Try("InvalidInput"), Let("my_static", "ZeroizeOnDrop", "X25519 key"),
    Let("shared_secret", "ZeroizeOnDrop", "X25519 secret"), Try("InvalidPublicKey")>>
<1>1. IsSeq(b)
  BY Tuple4
<1>2. Len(b) = 4
  OBVIOUS
<1>3. /\ b[1].op = "try" /\ b[1].err = "InvalidInput"
      /\ b[2].op = "let" /\ b[2].kind = "ZeroizeOnDrop"
      /\ b[3].op = "let" /\ b[3].kind = "ZeroizeOnDrop"
      /\ b[4].op = "try" /\ b[4].err = "InvalidPublicKey"
  BY DEF Try, Let
<1>4. \A i \in 1..Len(b) : i \in {1, 2, 3, 4}
  BY <1>2
<1> HIDE DEF b
<1>5. \A i \in 1..Len(b) : WellFormed(b[i])
  BY <1>3, <1>4 DEF WellFormed, Errors, Handles, Wipes
<1>6. Leaves(b, {})
  BY <1>3, <1>4 DEF Leaves, Plain, Wipes
<1>7. Agrees(b)
  BY <1>3, <1>4 DEF Agrees, Refuses, Refusals
<1> QED BY <1>1, <1>5, <1>6, <1>7 DEF Tame, IsBody, b
-----------------------------------------------------------------------------
(* The functions of Body, put together. *)
LEMMA WrapOwn == Tame(wrap_vault_key_with_master_key, {})
<1>1. Tame(hkdf_subkey("subkey", "subkey"), {})
  BY HkdfPiece
<1>2. Tame(<<Try("KeyWrap")>>, {})
  BY TryPiece DEF Errors, Refusals
<1>3. Tame(wrap_vault_key_with_master_key, {} \cup {})
  BY <1>1, <1>2, TameTame DEF wrap_vault_key_with_master_key
<1> QED BY <1>3

LEMMA UnwrapOwn ==
  Careful(unwrap_vault_key_with_master_key, {"opened vault key", "vault key"})
<1> DEFINE head == <<Try("InvalidInput")>> \o hkdf_subkey("subkey", "subkey")
           tail == <<Try("KeyUnwrap"), Let("plaintext", "Vec", "opened vault key"),
                     Try("InvalidInput"), Let("key", "array", "vault key"), Give("vk")>>
<1>1. Tame(<<Try("InvalidInput")>>, {})
  BY TryPiece DEF Errors, Refusals
<1>2. Tame(hkdf_subkey("subkey", "subkey"), {})
  BY HkdfPiece
<1>3. Tame(head, {} \cup {})
  BY ONLY <1>1, <1>2, TameTame
<1>4. Careful(tail, {"opened vault key", "vault key"})
  BY OpenedKey
<1>5. unwrap_vault_key_with_master_key = head \o tail
  BY DEF unwrap_vault_key_with_master_key
<1> HIDE DEF head, tail
<1>6. Careful(head, {})
  BY <1>3, TameIsCareful
<1>7. Careful(head \o tail, {} \cup {"opened vault key", "vault key"})
  BY <1>4, <1>6, CarefulCareful
<1> QED BY <1>5, <1>7

LEMMA Cipher ==
  ASSUME NEW err \in Errors
  PROVE  Careful(new_xchacha_cipher(err), {})
<1>1. Careful(hkdf_subkey("key_bytes", "subkey"), {})
  BY HkdfPiece, TameIsCareful
<1>2. Careful(<<Try(err), Leave({"key_bytes"})>>, {})
  BY CipherTail
<1>3. Careful(new_xchacha_cipher(err), {} \cup {})
  BY <1>1, <1>2, CarefulCareful DEF new_xchacha_cipher
<1> QED BY <1>3

LEMMA X25519Piece == Tame(derive_x25519_from_ed25519_seed, {"X25519 key"})
<1> DEFINE inner == into_inner("x25519_expand", "x25519_private", "X25519 key")
<1>1. Tame(inner, {"X25519 key"})
  BY InnerPiece
<1>2. Tame(derive_x25519_from_ed25519_seed, {} \cup {"X25519 key"})
  BY <1>1, Expand, TameTame DEF derive_x25519_from_ed25519_seed
<1> QED BY <1>2

LEMMA NewKeypair == Tame(generate_keypair, {"seed", "X25519 key", "ML-KEM seed"})
<1> DEFINE one   == <<Let("signing_key", "ZeroizeOnDrop", "seed"), Let("seed", "array", "seed")>>
           two   == derive_x25519_from_ed25519_seed
           three == <<Let("x25519_static", "ZeroizeOnDrop", "X25519 key"),
                      Let("x25519_bytes", "array", "X25519 key")>>
           four  == derive_mlkem_from_ed25519_seed
           five  == <<Give("kp")>>
<1>1. generate_keypair = (((one \o two) \o three) \o four) \o five
  BY DEF generate_keypair
<1>2. Tame(one, {"seed"}) /\ Tame(two, {"X25519 key"}) /\ Tame(three, {"X25519 key"})
  BY NewSeed, X25519Piece, StaticKey
<1>3. Tame(four, {"ML-KEM seed"})
  BY MlkemPiece
<1>4. Tame(five, {})
  BY GivePiece DEF Handles
<1> HIDE DEF one, two, three, four, five
<1>5. Tame(one \o two, {"seed"} \cup {"X25519 key"})
  BY <1>2, TameTame
<1>6. Tame((one \o two) \o three, ({"seed"} \cup {"X25519 key"}) \cup {"X25519 key"})
  BY <1>2, <1>5, TameTame
<1>7. Tame(((one \o two) \o three) \o four,
           (({"seed"} \cup {"X25519 key"}) \cup {"X25519 key"}) \cup {"ML-KEM seed"})
  BY <1>3, <1>6, TameTame
<1>8. Tame(generate_keypair,
           ((({"seed"} \cup {"X25519 key"}) \cup {"X25519 key"}) \cup {"ML-KEM seed"}) \cup {})
  BY <1>1, <1>4, <1>7, TameTame
<1>9. ((({"seed"} \cup {"X25519 key"}) \cup {"X25519 key"}) \cup {"ML-KEM seed"}) \cup {}
        = {"seed", "X25519 key", "ML-KEM seed"}
  OBVIOUS
<1> QED BY ONLY <1>8, <1>9

LEMMA SealSeed == Careful(encrypt_private_key, {})
<1>1. Careful(new_xchacha_cipher("KeyWrap"), {})
  BY Cipher DEF Errors
<1>2. Tame(<<Try("KeyWrap")>>, {})
  BY TryPiece DEF Errors, Refusals
<1>3. Careful(encrypt_private_key, {} \cup {})
  BY <1>1, <1>2, CarefulTame DEF encrypt_private_key
<1> QED BY <1>3

LEMMA OpenSeed ==
  Careful(decrypt_private_key, {"opened seed", "seed", "X25519 key", "ML-KEM seed"})
<1> DEFINE one   == <<Try("InvalidInput")>>
           two   == new_xchacha_cipher("KeyUnwrap")
           three == <<Try("KeyUnwrap"), Let("seed_bytes", "Vec", "opened seed"), Try("InvalidInput"),
                      Let("seed", "array", "seed"), Let("signing_key", "ZeroizeOnDrop", "seed")>>
           four  == derive_x25519_from_ed25519_seed
           five  == <<Let("x25519_static", "ZeroizeOnDrop", "X25519 key")>>
           six   == derive_mlkem_from_ed25519_seed
           seven == <<Give("kp")>>
<1>1. decrypt_private_key
        = (((((one \o two) \o three) \o four) \o five) \o six) \o seven
  BY DEF decrypt_private_key
<1>2. Careful(one, {})
  BY TryPiece, TameIsCareful DEF Errors, Refusals
<1>3. Careful(two, {})
  BY Cipher DEF Errors
<1>4. Careful(three, {"opened seed", "seed"}) /\ Tame(four, {"X25519 key"}) /\ Tame(five, {})
  BY OpenedSeed, X25519Piece, StaticAlone
<1>5. Tame(six, {"ML-KEM seed"})
  BY MlkemPiece
<1>6. Tame(seven, {})
  BY GivePiece DEF Handles
<1> HIDE DEF one, two, three, four, five, six, seven
<1>7. Careful(one \o two, {} \cup {})
  BY <1>2, <1>3, CarefulCareful
<1>8. Careful((one \o two) \o three, ({} \cup {}) \cup {"opened seed", "seed"})
  BY <1>4, <1>7, CarefulCareful
<1>9. Careful(((one \o two) \o three) \o four,
              (({} \cup {}) \cup {"opened seed", "seed"}) \cup {"X25519 key"})
  BY <1>4, <1>8, CarefulTame
<1>10. Careful((((one \o two) \o three) \o four) \o five,
               ((({} \cup {}) \cup {"opened seed", "seed"}) \cup {"X25519 key"}) \cup {})
  BY <1>4, <1>9, CarefulTame
<1>11. Careful(((((one \o two) \o three) \o four) \o five) \o six,
               (((({} \cup {}) \cup {"opened seed", "seed"}) \cup {"X25519 key"}) \cup {})
                  \cup {"ML-KEM seed"})
  BY <1>5, <1>10, CarefulTame
<1>12. Careful(decrypt_private_key,
               ((((({} \cup {}) \cup {"opened seed", "seed"}) \cup {"X25519 key"}) \cup {})
                  \cup {"ML-KEM seed"}) \cup {})
  BY <1>1, <1>6, <1>11, CarefulTame
<1>13. ((((({} \cup {}) \cup {"opened seed", "seed"}) \cup {"X25519 key"}) \cup {})
          \cup {"ML-KEM seed"}) \cup {}
         = {"opened seed", "seed", "X25519 key", "ML-KEM seed"}
  OBVIOUS
<1> QED BY ONLY <1>12, <1>13

LEMMA ShareKey == Tame(wrap_vault_key_for_user, {"randomness", "ML-KEM secret"})
<1> DEFINE one   == <<Try("InvalidInput"), Let("eph_secret", "ZeroizeOnDrop", "ephemeral key"),
                      Leave({"eph_secret"}),
                      Let("shared_secret", "ZeroizeOnDrop", "X25519 secret"),
                      Try("InvalidPublicKey")>>
           two   == mlkem_encapsulate
           three == hybrid_wrap_key
           four  == new_xchacha_cipher_raw("KeyWrap")
           five  == <<Try("KeyWrap")>>
<1>1. wrap_vault_key_for_user = (((one \o two) \o three) \o four) \o five
  BY DEF wrap_vault_key_for_user
<1>2. /\ Tame(one, {}) /\ Tame(two, {"randomness", "ML-KEM secret"}) /\ Tame(three, {})
  BY WrapHead, EncapsulatePiece, HybridPiece
<1>3. Tame(four, {})
  BY RawCipherPiece DEF Errors, Refusals
<1>4. Tame(five, {})
  BY TryPiece DEF Errors, Refusals
<1> HIDE DEF one, two, three, four, five
<1>5. Tame(one \o two, {} \cup {"randomness", "ML-KEM secret"})
  BY <1>2, TameTame
<1>6. Tame((one \o two) \o three, ({} \cup {"randomness", "ML-KEM secret"}) \cup {})
  BY <1>2, <1>5, TameTame
<1>7. Tame(((one \o two) \o three) \o four,
           (({} \cup {"randomness", "ML-KEM secret"}) \cup {}) \cup {})
  BY <1>3, <1>6, TameTame
<1>8. Tame(wrap_vault_key_for_user,
           ((({} \cup {"randomness", "ML-KEM secret"}) \cup {}) \cup {}) \cup {})
  BY <1>1, <1>4, <1>7, TameTame
<1>9. ((({} \cup {"randomness", "ML-KEM secret"}) \cup {}) \cup {}) \cup {}
        = {"randomness", "ML-KEM secret"}
  OBVIOUS
<1> QED BY ONLY <1>8, <1>9

LEMMA OpenShare ==
  Careful(unwrap_vault_key, {"ML-KEM secret", "opened vault key", "vault key"})
<1> DEFINE one   == <<Try("InvalidInput"), Let("my_static", "ZeroizeOnDrop", "X25519 key"),
                      Let("shared_secret", "ZeroizeOnDrop", "X25519 secret"),
                      Try("InvalidPublicKey")>>
           two   == mlkem_decapsulate
           three == hybrid_wrap_key
           four  == <<Try("InvalidInput")>>
           five  == new_xchacha_cipher_raw("KeyUnwrap")
           six   == <<Try("KeyUnwrap"), Let("vault_key_bytes", "Vec", "opened vault key"),
                      Try("InvalidInput"), Let("key", "array", "vault key"), Give("vk")>>
<1>1. unwrap_vault_key = ((((one \o two) \o three) \o four) \o five) \o six
  BY DEF unwrap_vault_key
<1>2. Careful(one, {}) /\ Tame(two, {"ML-KEM secret"}) /\ Tame(three, {})
  BY UnwrapHead, TameIsCareful, DecapsulatePiece, HybridPiece
<1>3. Tame(four, {})
  BY TryPiece DEF Errors, Refusals
<1>4. Careful(five, {})
  BY RawCipherCareful DEF Errors
<1>5. Careful(six, {"opened vault key", "vault key"})
  BY OpenedKey
<1> HIDE DEF one, two, three, four, five, six
<1>6. Careful(one \o two, {} \cup {"ML-KEM secret"})
  BY <1>2, CarefulTame
<1>7. Careful((one \o two) \o three, ({} \cup {"ML-KEM secret"}) \cup {})
  BY <1>2, <1>6, CarefulTame
<1>8. Careful(((one \o two) \o three) \o four, (({} \cup {"ML-KEM secret"}) \cup {}) \cup {})
  BY <1>3, <1>7, CarefulTame
<1>9. Careful((((one \o two) \o three) \o four) \o five,
              ((({} \cup {"ML-KEM secret"}) \cup {}) \cup {}) \cup {})
  BY <1>4, <1>8, CarefulCareful
<1>10. Careful(unwrap_vault_key,
               (((({} \cup {"ML-KEM secret"}) \cup {}) \cup {}) \cup {})
                  \cup {"opened vault key", "vault key"})
  BY <1>1, <1>5, <1>9, CarefulCareful
<1>11. (((({} \cup {"ML-KEM secret"}) \cup {}) \cup {}) \cup {})
          \cup {"opened vault key", "vault key"}
         = {"ML-KEM secret", "opened vault key", "vault key"}
  OBVIOUS
<1> QED BY ONLY <1>10, <1>11

(* What each function may leave, all of its exits together. *)
Stays(f) ==
  (IF f \in {"create_vault_key", "aad_self_test", "unwrap_vault_key",
             "unwrap_shared_vault_key"}
   THEN {"vault key"} ELSE {}) \cup
  (IF f \in {"unwrap_vault_key", "unwrap_shared_vault_key"}
   THEN {"opened vault key"} ELSE {}) \cup
  (IF f \in {"generate_keypair", "decrypt_private_key"}
   THEN {"seed", "X25519 key", "ML-KEM seed"} ELSE {}) \cup
  (IF f = "decrypt_private_key" THEN {"opened seed"} ELSE {}) \cup
  (IF f \in {"wrap_vault_key_for_user", "unwrap_shared_vault_key"}
   THEN {"ML-KEM secret"} ELSE {}) \cup
  (IF f = "wrap_vault_key_for_user" THEN {"randomness"} ELSE {}) \cup
  (IF f \in {"compute_verifier", "compute_client_proof"} THEN {"SRP password"} ELSE {}) \cup
  (IF f = "generate_client_ephemeral" THEN {"SRP exponent"} ELSE {})

LEMMA CarefulWithin ==
  ASSUME NEW b, NEW S, NEW T, Careful(b, S), S \subseteq T
  PROVE  Careful(b, T)
BY DEF Careful, Leaves

LEMMA TameWithin ==
  ASSUME NEW b, NEW S, NEW T, Tame(b, S), S \subseteq T
  PROVE  Careful(b, T)
<1>1. Careful(b, S)
  BY TameIsCareful
<1> QED BY <1>1, CarefulWithin

LEMMA NothingWithin ==
  ASSUME NEW b, NEW T, Careful(b, {})
  PROVE  Careful(b, T)
BY DEF Careful, Leaves

LEMMA FunctionNames ==
  DOMAIN Body =
    {"derive_master_key", "derive_srp_password", "create_vault_key", "wrap_vault_key",
     "unwrap_vault_key", "encrypt_vault", "decrypt_vault", "reencrypt_vault",
     "aad_self_test", "generate_keypair", "encrypt_private_key",
     "decrypt_private_key", "wrap_vault_key_for_user", "unwrap_shared_vault_key",
     "compute_verifier", "generate_client_ephemeral", "compute_client_proof",
     "verify_server_proof"}
BY DEF Body

(* Every function leaves what Stays says, and no more than the ML-KEM      *)
(* secret where it refuses a ciphertext.                                   *)
LEMMA Bodies ==
  ASSUME NEW f \in DOMAIN Body
  PROVE  Careful(Body[f], Stays(f))
<1>1. CASE f = "derive_master_key"
  <2>1. Body[f] = derive_master_key BY <1>1 DEF Body
  <2> QED BY <2>1, MasterKeyPiece, TameIsCareful, NothingWithin
<1>2. CASE f = "derive_srp_password"
  <2>1. Body[f] = derive_srp_password BY <1>2 DEF Body
  <2> QED BY <2>1, SrpPasswordPiece, TameIsCareful, NothingWithin
<1>3. CASE f = "create_vault_key"
  <2>1. Body[f] = generate BY <1>3 DEF Body
  <2>2. {"vault key"} \subseteq Stays(f) BY <1>3 DEF Stays
  <2> QED BY <2>1, <2>2, GeneratePiece, TameWithin
<1>4. CASE f = "wrap_vault_key"
  <2>1. Body[f] = wrap_vault_key_with_master_key BY <1>4 DEF Body
  <2> QED BY <2>1, WrapOwn, TameIsCareful, NothingWithin
<1>5. CASE f = "unwrap_vault_key"
  <2>1. Body[f] = unwrap_vault_key_with_master_key BY <1>5 DEF Body
  <2>2. {"opened vault key", "vault key"} \subseteq Stays(f) BY <1>5 DEF Stays
  <2> QED BY <2>1, <2>2, UnwrapOwn, CarefulWithin
<1>6. CASE f = "reencrypt_vault"
  <2>1. Body[f] = reencrypt_vault BY <1>6 DEF Body
  <2> QED BY <2>1, ReencryptPiece, NothingWithin
<1>7. CASE f = "generate_keypair"
  <2>1. Body[f] = generate_keypair BY <1>7 DEF Body
  <2>2. {"seed", "X25519 key", "ML-KEM seed"} \subseteq Stays(f) BY <1>7 DEF Stays
  <2> QED BY <2>1, <2>2, NewKeypair, TameWithin
<1>8. CASE f = "encrypt_private_key"
  <2>1. Body[f] = encrypt_private_key BY <1>8 DEF Body
  <2> QED BY <2>1, SealSeed, NothingWithin
<1>9. CASE f = "decrypt_private_key"
  <2>1. Body[f] = decrypt_private_key BY <1>9 DEF Body
  <2>2. {"opened seed", "seed", "X25519 key", "ML-KEM seed"} \subseteq Stays(f)
    BY <1>9 DEF Stays
  <2> QED BY <2>1, <2>2, OpenSeed, CarefulWithin
<1>10. CASE f = "wrap_vault_key_for_user"
  <2>1. Body[f] = wrap_vault_key_for_user BY <1>10 DEF Body
  <2>2. {"randomness", "ML-KEM secret"} \subseteq Stays(f) BY <1>10 DEF Stays
  <2> QED BY <2>1, <2>2, ShareKey, TameWithin
<1>11. CASE f = "unwrap_shared_vault_key"
  <2>1. Body[f] = unwrap_vault_key BY <1>11 DEF Body
  <2>2. {"ML-KEM secret", "opened vault key", "vault key"} \subseteq Stays(f)
    BY <1>11 DEF Stays
  <2> QED BY <2>1, <2>2, OpenShare, CarefulWithin
<1>12. CASE f = "compute_verifier"
  <2>1. Body[f] = compute_verifier BY <1>12 DEF Body
  <2>2. {"SRP password"} \subseteq Stays(f) BY <1>12 DEF Stays
  <2> QED BY <2>1, <2>2, VerifierPiece, TameWithin
<1>13. CASE f = "generate_client_ephemeral"
  <2>1. Body[f] = generate_client_ephemeral BY <1>13 DEF Body
  <2>2. {"SRP exponent"} \subseteq Stays(f) BY <1>13 DEF Stays
  <2> QED BY <2>1, <2>2, EphemeralPiece, TameWithin
<1>14. CASE f = "compute_client_proof"
  <2>1. Body[f] = compute_client_proof BY <1>14 DEF Body
  <2>2. {"SRP password"} \subseteq Stays(f) BY <1>14 DEF Stays
  <2> QED BY <2>1, <2>2, ClientProofPiece, TameWithin
<1>15. CASE f = "encrypt_vault"
  <2>1. Body[f] = encrypt_vault BY <1>15 DEF Body
  <2> QED BY <2>1, EncryptPiece, NothingWithin
<1>16. CASE f = "decrypt_vault"
  <2>1. Body[f] = decrypt_vault BY <1>16 DEF Body
  <2> QED BY <2>1, DecryptPiece, NothingWithin
<1>17. CASE f = "aad_self_test"
  <2>1. Body[f] = aad_self_test BY <1>17 DEF Body
  <2>2. {"vault key"} \subseteq Stays(f) BY <1>17 DEF Stays
  <2> QED BY <2>1, <2>2, SelfTestPiece, TameWithin
<1>18. CASE f = "verify_server_proof"
  <2>1. Body[f] = verify_server_proof BY <1>18 DEF Body
  <2> QED BY <2>1, ServerProofPiece, NothingWithin
<1> QED
  BY ONLY <1>1, <1>2, <1>3, <1>4, <1>5, <1>6, <1>7, <1>8, <1>9, <1>10, <1>11, <1>12,
          <1>13, <1>14, <1>15, <1>16, <1>17, <1>18, FunctionNames, f \in DOMAIN Body

-----------------------------------------------------------------------------
(* The invariant. *)
Code == Body[call.fn]

(* A statement that ends the hold of x; the local bound at i holds its     *)
(* secret when j is reached; and where scopes end.                         *)
Ends(st, x) ==
  \/ st.op \in {"wipe", "into"} /\ st.x = x
  \/ st.op = "leave" /\ x \in st.xs
Live(b, i, j) ==
  /\ i < j /\ Plain(b[i])
  /\ \A k \in 1..Len(b) : i < k /\ k < j => ~ Ends(b[k], b[i].x)
Exits(b, j) == j \in 1..Len(b) => b[j].op \in {"leave", "try", "give"}

CallInv ==
  /\ handles \subseteq Handles
  /\ call \in [fn : DOMAIN Body \cup {"none", "destroy"}, pc : Nat \ {0}]
  /\ result \in Errors \cup {"ok", "runs"}
  /\ Runs => call.fn \in DOMAIN Body
  /\ ~ Runs => locals = {}
  /\ ~ Runs /\ call.fn \in DOMAIN Body =>
       \/ result = "ok" /\ (call.pc \in 1..Len(Code) => Code[call.pc].op = "give")
       \/ call.pc \in 1..Len(Code) /\ Code[call.pc].op = "try" /\ result = Code[call.pc].err

(* A plain local was bound by a let that is still live.                    *)
HeldInv ==
  \A h \in locals : ~ Wipes(h.kind) =>
    \E i \in 1..Len(Code) :
      Live(Code, i, call.pc) /\ h.x = Code[i].x /\ h.secret = Code[i].secret

(* What was left was live where a scope ended or the call returned.        *)
Passed(j) ==
  \/ j = call.pc /\ ~ Runs
  \/ j < call.pc /\ j \in 1..Len(Code) /\ Code[j].op = "leave"
WasHeld(s) ==
  \E i \in 1..Len(Code), j \in 1..call.pc :
    Live(Code, i, j) /\ Exits(Code, j) /\ Passed(j) /\ s = Code[i].secret

LeftInv ==
  /\ call.fn = "none" => left = {} /\ result = "ok"
  /\ call.fn = "destroy" => left \subseteq {"session key"} /\ result = "ok"
  /\ call.fn \in DOMAIN Body => \A s \in left : WasHeld(s)

HoldInv == CallInv /\ HeldInv /\ LeftInv

LEMMA CodeFacts ==
  ASSUME NEW f \in DOMAIN Body
  PROVE  /\ Len(Body[f]) \in Nat
         /\ \A i \in 1..Len(Body[f]) : WellFormed(Body[f][i])
<1>1. IsBody(Body[f])
  BY Bodies DEF Careful
<1> QED BY <1>1 DEF IsBody, IsSeq

LEMMA HandleFacts ==
  ASSUME NEW handle \in Handles
  PROVE  Unwiped(Inner(handle)) \subseteq {"session key"}
<1> SUFFICES ASSUME NEW h \in Inner(handle), ~ Wipes(h.kind)
             PROVE  h.secret = "session key"
  BY DEF Unwiped
<1>1. Wipes("ZeroizeOnDrop")
  BY DEF Wipes
<1>2. CASE handle = "mk"
  <2>1. Inner("mk") = {Holder("ZeroizeOnDrop", "master key")}
    BY DEF Inner
  <2>2. h = Holder("ZeroizeOnDrop", "master key")
    BY <2>1, <1>2
  <2>3. h.kind = "ZeroizeOnDrop" /\ h.secret = "master key"
    BY <2>2 DEF Holder
  <2> QED BY <2>3, <1>1
<1>3. CASE handle = "vk"
  <2>1. Inner("vk") = {Holder("ZeroizeOnDrop", "vault key")}
    BY DEF Inner
  <2>2. h = Holder("ZeroizeOnDrop", "vault key")
    BY <2>1, <1>3
  <2>3. h.kind = "ZeroizeOnDrop" /\ h.secret = "vault key"
    BY <2>2 DEF Holder
  <2> QED BY <2>3, <1>1
<1>4. CASE handle = "kp"
  <2>1. Inner("kp") = {Holder("ZeroizeOnDrop", s) : s \in {"seed", "X25519 key", "ML-KEM key"}}
    BY DEF Inner
  <2>2. PICK s \in {"seed", "X25519 key", "ML-KEM key"} : h = Holder("ZeroizeOnDrop", s)
    BY <2>1, <1>4
  <2>3. h.kind = "ZeroizeOnDrop"
    BY <2>2 DEF Holder
  <2> QED BY <2>3, <1>1
<1>5. CASE handle = "ephemeral"
  <2>1. Inner("ephemeral") = {Holder("ZeroizeOnDrop", "SRP exponent")}
    BY DEF Inner
  <2>2. h = Holder("ZeroizeOnDrop", "SRP exponent")
    BY <2>1, <1>5
  <2>3. h.kind = "ZeroizeOnDrop" /\ h.secret = "SRP exponent"
    BY <2>2 DEF Holder
  <2> QED BY <2>3, <1>1
<1>6. CASE handle = "proof"
  <2>1. Inner("proof") = {Holder("skipped", "session key")}
    BY DEF Inner
  <2>2. h = Holder("skipped", "session key")
    BY <2>1, <1>6
  <2>3. h.kind = "skipped" /\ h.secret = "session key"
    BY <2>2 DEF Holder
  <2> QED BY <2>3, <1>1
<1> QED BY ONLY <1>2, <1>3, <1>4, <1>5, <1>6, handle \in Handles DEF Handles

LEMMA InitHold == Init => HoldInv
<1> SUFFICES ASSUME Init PROVE HoldInv
  OBVIOUS
<1>1. "none" \notin DOMAIN Body
  BY FunctionNames
<1>2. call = [fn |-> "none", pc |-> 1] /\ call.fn = "none" /\ result = "ok"
  BY DEF Init
<1>3. CallInv
  BY <1>1, <1>2 DEF Init, CallInv, Runs
<1> QED BY <1>1, <1>2, <1>3 DEF Init, HoldInv, HeldInv, LeftInv

(* A statement that runs is one of its body, and the call goes on behind   *)
(* it.                                                                     *)
LEMMA Running ==
  ASSUME HoldInv, Runs
  PROVE  /\ call.fn \in DOMAIN Body /\ call.pc \in Nat \ {0}
         /\ call.fn # "none" /\ call.fn # "destroy"
         /\ Len(Code) \in Nat
         /\ \A i \in 1..Len(Code) : WellFormed(Code[i])
<1>1. call.fn \in DOMAIN Body /\ call.pc \in Nat \ {0}
  BY DEF HoldInv, CallInv
<1> QED BY <1>1, CodeFacts, FunctionNames DEF Code

LEMMA Advancing ==
  ASSUME HoldInv, Runs, Advance, UNCHANGED <<handles, result>>
  PROVE  /\ CallInv' /\ Code' = Code /\ Runs'
         /\ call'.fn = call.fn /\ call'.pc = call.pc + 1
<1>1. call \in [fn : DOMAIN Body \cup {"none", "destroy"}, pc : Nat \ {0}]
  BY DEF HoldInv, CallInv
<1>2. call' = [fn |-> call.fn, pc |-> call.pc + 1]
  BY <1>1 DEF Advance
<1>3. call'.fn = call.fn /\ call'.pc = call.pc + 1
  BY <1>2
<1>4. call' \in [fn : DOMAIN Body \cup {"none", "destroy"}, pc : Nat \ {0}]
  BY <1>1, <1>2
<1> QED BY <1>3, <1>4 DEF HoldInv, CallInv, Runs, Code

(* Going on behind a statement keeps what it does not end. *)
LEMMA LiveOn ==
  ASSUME NEW b, NEW i \in 1..Len(b), NEW p \in Nat \ {0}, Live(b, i, p),
         p \in 1..Len(b) => ~ Ends(b[p], b[i].x)
  PROVE  Live(b, i, p + 1)
<1>1. i < p + 1 /\ Plain(b[i])
  BY DEF Live
<1>2. ASSUME NEW k \in 1..Len(b), i < k, k < p + 1
      PROVE  ~ Ends(b[k], b[i].x)
  <2>1. k < p \/ k = p
    BY <1>2
  <2> QED BY <2>1, <1>2 DEF Live
<1> QED BY <1>1, <1>2 DEF Live

LEMMA WasHeldOn ==
  ASSUME HoldInv, Runs, Advance, UNCHANGED <<handles, result>>, NEW s \in left
  PROVE  WasHeld(s)'
<1>1. call.fn \in DOMAIN Body /\ call.pc \in Nat \ {0}
  BY Running
<1>2. Code' = Code /\ call'.pc = call.pc + 1
  BY Advancing
<1>3. PICK i \in 1..Len(Code), j \in 1..call.pc :
        Live(Code, i, j) /\ Exits(Code, j) /\ Passed(j) /\ s = Code[i].secret
  BY <1>1 DEF HoldInv, LeftInv, WasHeld
<1>4. j \in 1..call'.pc /\ j < call'.pc
  BY <1>1, <1>2
<1>5. Passed(j)'
  BY <1>2, <1>3, <1>4 DEF Passed
<1> QED BY <1>2, <1>3, <1>4, <1>5 DEF WasHeld

LEMMA LeftOn ==
  ASSUME HoldInv, Runs, Advance, UNCHANGED <<handles, result>>, left' = left
  PROVE  LeftInv'
<1>1. call.fn # "none" /\ call.fn # "destroy" /\ call'.fn = call.fn
  BY Running, Advancing
<1>2. \A s \in left' : WasHeld(s)'
  BY WasHeldOn
<1> QED BY <1>1, <1>2 DEF LeftInv

LEMMA StepBind == HoldInv /\ Bind => HoldInv'
<1> SUFFICES ASSUME HoldInv, Bind PROVE HoldInv'
  OBVIOUS
<1>1. /\ Runs /\ Advance /\ UNCHANGED <<handles, result>> /\ left' = left
      /\ call.pc <= Len(Code) /\ Code[call.pc].op = "let"
      /\ locals' = locals \cup
           {[x |-> Code[call.pc].x, kind |-> Code[call.pc].kind,
             secret |-> Code[call.pc].secret]}
  BY DEF Bind, At, Statement, Code
<1>2. CallInv' /\ Code' = Code /\ call'.pc = call.pc + 1
  BY <1>1, Advancing
<1>3. call.pc \in Nat \ {0} /\ Len(Code) \in Nat
  BY <1>1, Running
<1>4. ASSUME NEW h \in locals', ~ Wipes(h.kind)
      PROVE  \E i \in 1..Len(Code) :
               Live(Code, i, call.pc + 1) /\ h.x = Code[i].x /\ h.secret = Code[i].secret
  <2>1. CASE h \in locals
    <3>1. PICK i \in 1..Len(Code) :
            Live(Code, i, call.pc) /\ h.x = Code[i].x /\ h.secret = Code[i].secret
      BY <1>4, <2>1 DEF HoldInv, HeldInv
    <3>2. ~ Ends(Code[call.pc], Code[i].x)
      BY <1>1 DEF Ends
    <3>3. Live(Code, i, call.pc + 1)
      BY <1>3, <3>1, <3>2, LiveOn
    <3> QED BY <3>1, <3>3
  <2>2. CASE h = [x |-> Code[call.pc].x, kind |-> Code[call.pc].kind,
                  secret |-> Code[call.pc].secret]
    <3>1. h.x = Code[call.pc].x /\ h.kind = Code[call.pc].kind
          /\ h.secret = Code[call.pc].secret
      BY <2>2
    <3>2. Plain(Code[call.pc])
      BY <1>1, <1>4, <3>1 DEF Plain
    <3>3. \A k \in 1..Len(Code) : ~ (call.pc < k /\ k < call.pc + 1)
      BY <1>3
    <3>4. call.pc < call.pc + 1 /\ call.pc \in 1..Len(Code)
      BY <1>1, <1>3
    <3>5. Live(Code, call.pc, call.pc + 1)
      BY <3>2, <3>3, <3>4 DEF Live
    <3> QED BY <3>1, <3>4, <3>5
  <2> QED BY <2>1, <2>2, <1>1
<1>5. HeldInv'
  BY <1>2, <1>4 DEF HeldInv
<1>6. LeftInv'
  BY <1>1, LeftOn
<1> QED BY <1>2, <1>5, <1>6 DEF HoldInv

(* A statement after which the plain locals are the ones it does not end.  *)
LEMMA HeldOn ==
  ASSUME HoldInv, Runs, Advance, UNCHANGED <<handles, result>>,
         \A h \in locals' : ~ Wipes(h.kind) =>
           h \in locals /\ (call.pc \in 1..Len(Code) => ~ Ends(Code[call.pc], h.x))
  PROVE  HeldInv'
<1>1. Code' = Code /\ call'.pc = call.pc + 1
  BY Advancing
<1>2. call.pc \in Nat \ {0}
  BY Running
<1>3. ASSUME NEW h \in locals', ~ Wipes(h.kind)
      PROVE  \E i \in 1..Len(Code) :
               Live(Code, i, call.pc + 1) /\ h.x = Code[i].x /\ h.secret = Code[i].secret
  <2>1. h \in locals /\ (call.pc \in 1..Len(Code) => ~ Ends(Code[call.pc], h.x))
    BY <1>3
  <2>2. PICK i \in 1..Len(Code) :
          Live(Code, i, call.pc) /\ h.x = Code[i].x /\ h.secret = Code[i].secret
    BY <1>3, <2>1 DEF HoldInv, HeldInv
  <2>3. Live(Code, i, call.pc + 1)
    BY <1>2, <2>1, <2>2, LiveOn
  <2> QED BY <2>2, <2>3
<1> QED BY <1>1, <1>3 DEF HeldInv

LEMMA StepMoveInto == HoldInv /\ MoveInto => HoldInv'
<1> SUFFICES ASSUME HoldInv, MoveInto PROVE HoldInv'
  OBVIOUS
<1>1. /\ Runs /\ Advance /\ UNCHANGED <<handles, result>> /\ left' = left
      /\ call.pc <= Len(Code) /\ Code[call.pc].op = "into"
      /\ locals' = {IF h.x = Code[call.pc].x THEN [h EXCEPT !.kind = Code[call.pc].kind] ELSE h
                      : h \in locals}
  BY DEF MoveInto, At, Statement, Code
<1>2. call.pc \in 1..Len(Code) /\ WellFormed(Code[call.pc])
  BY <1>1, Running
<1>3. Wipes(Code[call.pc].kind)
  BY <1>1, <1>2 DEF WellFormed
<1>4. ASSUME NEW g \in locals', ~ Wipes(g.kind)
      PROVE  g \in locals /\ ~ Ends(Code[call.pc], g.x)
  <2>1. PICK h \in locals :
          g = IF h.x = Code[call.pc].x THEN [h EXCEPT !.kind = Code[call.pc].kind] ELSE h
    BY <1>1
  <2>2. h.x # Code[call.pc].x
    BY <1>3, <1>4, <2>1
  <2>3. g = h
    BY <2>1, <2>2
  <2> QED BY <1>1, <2>2, <2>3 DEF Ends
<1>5. HeldInv'
  BY <1>1, <1>4, HeldOn
<1> QED BY <1>1, <1>5, LeftOn, Advancing DEF HoldInv

LEMMA StepOverwrite == HoldInv /\ Overwrite => HoldInv'
<1> SUFFICES ASSUME HoldInv, Overwrite PROVE HoldInv'
  OBVIOUS
<1>1. /\ Runs /\ Advance /\ UNCHANGED <<handles, result>> /\ left' = left
      /\ Code[call.pc].op = "wipe"
      /\ locals' = {h \in locals : h.x # Code[call.pc].x}
  BY DEF Overwrite, At, Statement, Code
<1>2. \A h \in locals' : h \in locals /\ ~ Ends(Code[call.pc], h.x)
  BY <1>1 DEF Ends
<1>3. HeldInv'
  BY <1>1, <1>2, HeldOn
<1> QED BY <1>1, <1>3, LeftOn, Advancing DEF HoldInv

LEMMA StepProceed == HoldInv /\ Proceed => HoldInv'
<1> SUFFICES ASSUME HoldInv, Proceed PROVE HoldInv'
  OBVIOUS
<1>1. /\ Runs /\ Advance /\ UNCHANGED <<handles, result>> /\ left' = left
      /\ Code[call.pc].op = "try" /\ locals' = locals
  BY DEF Proceed, At, Statement, Code
<1>2. \A h \in locals' : h \in locals /\ ~ Ends(Code[call.pc], h.x)
  BY <1>1 DEF Ends
<1>3. HeldInv'
  BY <1>1, <1>2, HeldOn
<1> QED BY <1>1, <1>3, LeftOn, Advancing DEF HoldInv

(* What an exit adds to what is left. *)
LEMMA LeavesAt ==
  ASSUME HoldInv, Runs, Exits(Code, call.pc), NEW h \in locals, ~ Wipes(h.kind)
  PROVE  \E i \in 1..Len(Code) :
           Live(Code, i, call.pc) /\ Exits(Code, call.pc) /\ h.secret = Code[i].secret
BY DEF HoldInv, HeldInv

LEMMA StepLeaveScope == HoldInv /\ LeaveScope => HoldInv'
<1> SUFFICES ASSUME HoldInv, LeaveScope PROVE HoldInv'
  OBVIOUS
<1>1. PICK gone : gone = {h \in locals : h.x \in Code[call.pc].xs}
  OBVIOUS
<1>2. /\ Runs /\ Advance /\ UNCHANGED <<handles, result>>
      /\ call.pc <= Len(Code) /\ Code[call.pc].op = "leave"
      /\ locals' = locals \ gone /\ left' = left \cup Unwiped(gone)
  BY <1>1 DEF LeaveScope, At, Statement, Code
<1>3. /\ call.fn \in DOMAIN Body /\ call.pc \in Nat \ {0}
      /\ call.fn # "none" /\ call.fn # "destroy"
  BY <1>2, Running
<1>4. CallInv' /\ Code' = Code /\ call'.fn = call.fn /\ call'.pc = call.pc + 1 /\ Runs'
  BY <1>2, Advancing
<1>5. \A h \in locals' : h \in locals /\ ~ Ends(Code[call.pc], h.x)
  BY <1>1, <1>2 DEF Ends
<1>6. HeldInv'
  BY <1>2, <1>5, HeldOn
<1>7. ASSUME NEW s \in left'
      PROVE  WasHeld(s)'
  <2>1. CASE s \in left
    BY <1>2, <2>1, WasHeldOn
  <2>2. CASE s \in Unwiped(gone)
    <3>1. PICK h \in gone : ~ Wipes(h.kind) /\ s = h.secret
      BY <2>2 DEF Unwiped
    <3>2. h \in locals
      BY <1>1
    <3>3. Exits(Code, call.pc)
      BY <1>2 DEF Exits
    <3>4. PICK i \in 1..Len(Code) :
            Live(Code, i, call.pc) /\ Exits(Code, call.pc) /\ h.secret = Code[i].secret
      BY <1>2, <3>1, <3>2, <3>3, LeavesAt
    <3>5. PICK p : p = call.pc
      OBVIOUS
    <3>6. p \in 1..call'.pc /\ p < call'.pc /\ p \in 1..Len(Code)
      BY <1>2, <1>3, <1>4, <3>5, Running
    <3>7. Passed(p)'
      BY <1>2, <1>4, <3>5, <3>6 DEF Passed
    <3> QED BY <1>4, <3>1, <3>4, <3>5, <3>6, <3>7 DEF WasHeld
  <2> QED BY <2>1, <2>2, <1>2
<1>8. LeftInv'
  BY <1>3, <1>4, <1>7 DEF LeftInv
<1> QED BY <1>4, <1>6, <1>8 DEF HoldInv

LEMMA StepReturn ==
  ASSUME HoldInv, Runs, Exits(Code, call.pc), NEW how \in Errors \cup {"ok"}, Return(how),
         handles' \subseteq Handles,
         \/ how = "ok" /\ (call.pc \in 1..Len(Code) => Code[call.pc].op = "give")
         \/ call.pc \in 1..Len(Code) /\ Code[call.pc].op = "try" /\ how = Code[call.pc].err
  PROVE  HoldInv'
<1>1. /\ result' = how /\ locals' = {} /\ left' = left \cup Unwiped(locals) /\ call' = call
  BY DEF Return
<1>2. /\ call.fn \in DOMAIN Body /\ call.pc \in Nat \ {0}
      /\ call.fn # "none" /\ call.fn # "destroy"
  BY Running
<1>3. how # "runs"
  BY DEF Errors
<1>4. Code' = Code /\ ~ Runs'
  BY <1>1, <1>3 DEF Code, Runs
<1>5. CallInv'
  BY <1>1, <1>3, <1>4 DEF CallInv, HoldInv, Runs
<1>6. HeldInv'
  BY <1>1 DEF HeldInv
<1>7. ASSUME NEW s \in left'
      PROVE  WasHeld(s)'
  <2>1. CASE s \in left
    <3>1. PICK i \in 1..Len(Code), j \in 1..call.pc :
            Live(Code, i, j) /\ Exits(Code, j) /\ Passed(j) /\ s = Code[i].secret
      BY <1>2, <2>1 DEF HoldInv, LeftInv, WasHeld
    <3>2. Passed(j)'
      BY <1>1, <1>4, <3>1 DEF Passed
    <3> QED BY <1>1, <1>4, <3>1, <3>2 DEF WasHeld
  <2>2. CASE s \in Unwiped(locals)
    <3>1. PICK h \in locals : ~ Wipes(h.kind) /\ s = h.secret
      BY <2>2 DEF Unwiped
    <3>2. PICK i \in 1..Len(Code) :
            Live(Code, i, call.pc) /\ Exits(Code, call.pc) /\ h.secret = Code[i].secret
      BY <3>1, LeavesAt
    <3>3. call.pc \in 1..call.pc
      BY <1>2
    <3>4. Passed(call.pc)'
      BY <1>1, <1>4 DEF Passed
    <3> QED BY <1>1, <1>4, <3>1, <3>2, <3>3, <3>4 DEF WasHeld
  <2> QED BY <2>1, <2>2, <1>1
<1>8. LeftInv'
  BY <1>1, <1>2, <1>7 DEF LeftInv
<1> QED BY <1>5, <1>6, <1>8 DEF HoldInv

LEMMA StepFail == HoldInv /\ Fail => HoldInv'
<1> SUFFICES ASSUME HoldInv, Fail PROVE HoldInv'
  OBVIOUS
<1>1. /\ Runs /\ call.pc <= Len(Code) /\ Code[call.pc].op = "try"
      /\ Return(Code[call.pc].err) /\ handles' = handles
  BY DEF Fail, At, Statement, Code
<1>2. call.pc \in 1..Len(Code) /\ WellFormed(Code[call.pc])
  BY <1>1, Running
<1>3. Code[call.pc].err \in Errors
  BY <1>1, <1>2 DEF WellFormed
<1>4. Exits(Code, call.pc) /\ handles' \subseteq Handles
  BY <1>1 DEF Exits, HoldInv, CallInv
<1> QED BY <1>1, <1>2, <1>3, <1>4, StepReturn

LEMMA StepGiveHandle == HoldInv /\ GiveHandle => HoldInv'
<1> SUFFICES ASSUME HoldInv, GiveHandle PROVE HoldInv'
  OBVIOUS
<1>1. /\ Runs /\ call.pc <= Len(Code) /\ Code[call.pc].op = "give" /\ Return("ok")
      /\ handles' = handles \cup {Code[call.pc].handle}
  BY DEF GiveHandle, At, Statement, Code
<1>2. call.pc \in 1..Len(Code) /\ WellFormed(Code[call.pc])
  BY <1>1, Running
<1>3. Code[call.pc].handle \in Handles
  BY <1>1, <1>2 DEF WellFormed
<1>4. Exits(Code, call.pc) /\ handles' \subseteq Handles
  BY <1>1, <1>3 DEF Exits, HoldInv, CallInv
<1> QED BY <1>1, <1>4, StepReturn

LEMMA StepEnd == HoldInv /\ End => HoldInv'
<1> SUFFICES ASSUME HoldInv, End PROVE HoldInv'
  OBVIOUS
<1>1. Runs /\ call.pc > Len(Code) /\ Return("ok") /\ handles' = handles
  BY DEF End, Code
<1>2. call.pc \in Nat \ {0} /\ Len(Code) \in Nat
  BY <1>1, Running
<1>3. Exits(Code, call.pc) /\ handles' \subseteq Handles
  BY <1>1, <1>2 DEF Exits, HoldInv, CallInv
<1> QED BY <1>1, <1>3, StepReturn

LEMMA StepCall ==
  ASSUME HoldInv, NEW f \in DOMAIN Body, Call(f)
  PROVE  HoldInv'
<1>1. /\ locals = {} /\ call' = [fn |-> f, pc |-> 1] /\ result' = "runs" /\ left' = {}
      /\ handles' = handles /\ locals' = locals
  BY DEF Call, HoldInv, CallInv
<1>2. call'.fn = f /\ f # "none" /\ f # "destroy"
  BY <1>1, FunctionNames
<1>3. call' \in [fn : DOMAIN Body \cup {"none", "destroy"}, pc : Nat \ {0}]
  BY <1>1
<1>4. CallInv'
  BY <1>1, <1>2, <1>3 DEF CallInv, HoldInv, Runs
<1> QED BY <1>1, <1>2, <1>4 DEF HoldInv, HeldInv, LeftInv

LEMMA StepDestroy ==
  ASSUME HoldInv, NEW handle \in handles, Destroy(handle)
  PROVE  HoldInv'
<1>1. /\ locals = {} /\ call' = [fn |-> "destroy", pc |-> 1] /\ result' = "ok"
      /\ left' = Unwiped(Inner(handle)) /\ handles' \subseteq handles /\ locals' = locals
  BY DEF Destroy, HoldInv, CallInv
<1>2. call'.fn = "destroy" /\ "destroy" \notin DOMAIN Body
  BY <1>1, FunctionNames
<1>3. handle \in Handles /\ handles' \subseteq Handles
  BY <1>1 DEF HoldInv, CallInv
<1>4. left' \subseteq {"session key"}
  BY <1>1, <1>3, HandleFacts
<1>5. call' \in [fn : DOMAIN Body \cup {"none", "destroy"}, pc : Nat \ {0}]
  BY <1>1
<1>6. CallInv'
  BY <1>1, <1>2, <1>3, <1>5 DEF CallInv, Runs
<1> QED BY <1>1, <1>2, <1>4, <1>6 DEF HoldInv, HeldInv, LeftInv

(* What is held and what is left comes from a let that is live there. *)
THEOREM HoldsFromLets == Spec => []HoldInv
<1>1. Init => HoldInv
  BY InitHold
<1>2. HoldInv /\ [Next]_vars => HoldInv'
  <2> SUFFICES ASSUME HoldInv, [Next]_vars PROVE HoldInv'
    OBVIOUS
  <2>1. CASE Step
    BY <2>1, StepBind, StepMoveInto, StepOverwrite, StepLeaveScope, StepProceed, StepFail,
       StepGiveHandle, StepEnd DEF Step
  <2>2. CASE \E f \in DOMAIN Body : Call(f)
    BY <2>2, StepCall
  <2>3. CASE \E handle \in handles : Destroy(handle)
    BY <2>3, StepDestroy
  <2>4. CASE UNCHANGED vars
    <3>1. /\ handles' = handles /\ call' = call /\ locals' = locals /\ left' = left
          /\ result' = result
      BY <2>4 DEF vars
    <3>2. Code' = Code /\ Runs' = Runs
      BY <3>1 DEF Code, Runs
    <3>3. CallInv' = CallInv
      BY <3>1, <3>2 DEF CallInv
    <3>4. HeldInv' = HeldInv
      BY <3>1, <3>2 DEF HeldInv
    <3>5. LeftInv' = LeftInv
      BY <3>1, <3>2 DEF LeftInv, WasHeld, Passed
    <3> QED BY <3>3, <3>4, <3>5 DEF HoldInv
  <2> QED BY <2>1, <2>2, <2>3, <2>4 DEF Next
<1> QED BY <1>1, <1>2, PTL DEF Spec

-----------------------------------------------------------------------------
(* What was left comes from a local that nothing settled, bound before the *)
(* place where the call returned.                                          *)
LEMMA WhereLeft ==
  ASSUME HoldInv, call.fn \in DOMAIN Body, NEW s \in left
  PROVE  \E i \in 1..Len(Code), j \in 1..call.pc :
           /\ Live(Code, i, j) /\ Exits(Code, j) /\ Passed(j)
           /\ ~ Settled(Code, i) /\ s = Code[i].secret
<1>1. PICK i \in 1..Len(Code), j \in 1..call.pc :
        Live(Code, i, j) /\ Exits(Code, j) /\ Passed(j) /\ s = Code[i].secret
  BY DEF HoldInv, LeftInv, WasHeld
<1>2. Len(Code) \in Nat /\ call.pc \in Nat \ {0}
  BY CodeFacts DEF Code, HoldInv, CallInv
<1>3. ASSUME Settled(Code, i) PROVE FALSE
  <2>1. PICK k \in 1..Len(Code) :
          /\ i < k /\ Code[k].op = "wipe" /\ Code[k].x = Code[i].x
          /\ \A g \in 1..Len(Code) : i < g /\ g < k => Code[g].op = "let"
    BY <1>3 DEF Settled
  <2>2. i < j
    BY <1>1 DEF Live
  <2>3. CASE k < j
    BY <1>1, <2>1, <2>3 DEF Live, Ends
  <2>4. CASE k = j
    BY <1>1, <2>1, <2>4 DEF Exits
  <2>5. CASE j < k
    <3>1. j \in 1..Len(Code)
      BY <1>2, <2>5
    <3>2. Code[j].op = "let"
      BY <2>1, <2>2, <2>5, <3>1
    <3> QED BY <1>1, <3>1, <3>2 DEF Exits
  <2>6. k < j \/ k = j \/ j < k
    BY <1>2
  <2> QED BY <2>3, <2>4, <2>5, <2>6
<1> QED BY <1>1, <1>3

(* Whichever way it returned, a function left no more than Stays says.     *)
LEMMA LeftWithin ==
  ASSUME HoldInv, call.fn \in DOMAIN Body
  PROVE  left \subseteq Stays(call.fn)
<1> SUFFICES ASSUME NEW s \in left PROVE s \in Stays(call.fn)
  OBVIOUS
<1>1. PICK i \in 1..Len(Code), j \in 1..call.pc :
        Live(Code, i, j) /\ ~ Settled(Code, i) /\ s = Code[i].secret
  BY WhereLeft
<1>2. Leaves(Code, Stays(call.fn))
  BY Bodies DEF Careful, Code
<1> QED BY <1>1, <1>2 DEF Leaves, Live

(* The SRP password waits in a plain Vec for one statement that may        *)
(* return, and the container is next.                                      *)
LEMMA PasswordExit ==
  ASSUME NEW b, b \in {compute_verifier, compute_client_proof},
         NEW i \in 1..Len(b), NEW j \in Nat, Live(b, i, j), Exits(b, j)
  PROVE  j = 3
<1>1. 4 \in 1..Len(b) /\ b[2].x = "pw" /\ b[4].op = "into" /\ b[4].x = "pw"
  <2>1. CASE b = compute_verifier
    <3>1. Len(b) = 5
      BY <2>1 DEF compute_verifier
    <3>2. b[2].x = "pw" /\ b[4].op = "into" /\ b[4].x = "pw"
      BY <2>1 DEF compute_verifier, Let, Try, Into, Leave
    <3> QED BY <3>1, <3>2
  <2>2. CASE b = compute_client_proof
    <3>1. Len(b) = 6
      BY <2>2 DEF compute_client_proof
    <3>2. b[2].x = "pw" /\ b[4].op = "into" /\ b[4].x = "pw"
      BY <2>2 DEF compute_client_proof, Let, Try, Into, Give
    <3> QED BY <3>1, <3>2
  <2> QED BY <2>1, <2>2
<1>3. \A k \in 1..Len(b) : b[k].op = "let" => k = 2
  <2>1. CASE b = compute_verifier
    <3>1. Len(b) = 5
      BY <2>1 DEF compute_verifier
    <3>2. /\ b[1].op = "try" /\ b[3].op = "try" /\ b[4].op = "into" /\ b[5].op = "leave"
      BY <2>1 DEF compute_verifier, Let, Try, Into, Leave
    <3>3. \A k \in 1..Len(b) : k \in {1, 2, 3, 4, 5}
      BY <3>1
    <3> QED BY <3>2, <3>3
  <2>2. CASE b = compute_client_proof
    <3>1. Len(b) = 6
      BY <2>2 DEF compute_client_proof
    <3>2. /\ b[1].op = "try" /\ b[3].op = "try" /\ b[4].op = "into" /\ b[5].op = "try"
          /\ b[6].op = "give"
      BY <2>2 DEF compute_client_proof, Let, Try, Into, Give
    <3>3. \A k \in 1..Len(b) : k \in {1, 2, 3, 4, 5, 6}
      BY <3>1
    <3> QED BY <3>2, <3>3
  <2> QED BY <2>1, <2>2
<1>4. i = 2 /\ i < j
  BY <1>3 DEF Live, Plain
<1>5. ~ (4 < j)
  <2> SUFFICES ASSUME 4 < j PROVE FALSE
    OBVIOUS
  <2>1. ~ Ends(b[4], b[2].x)
    BY <1>1, <1>4 DEF Live
  <2> QED BY <1>1, <2>1 DEF Ends
<1>6. j # 4
  BY <1>1 DEF Exits
<1> QED BY <1>4, <1>5, <1>6

(* What stays after a call is told by its function alone, and no subkey,   *)
(* wrap key, wrap input, X25519 secret, ephemeral key or text is among it: *)
(* when a call has returned, passing secrets are nowhere in memory.  With  *)
(* the loss of the other copies this is what PassingSecretsGo says, short  *)
(* of the progress it needs (zeroize.rs:32, keypair.rs:599).               *)
THEOREM NothingPassingStays ==
  Spec => [](/\ call.fn \in DOMAIN Body => left \subseteq Stays(call.fn)
             /\ ~ Runs => \A secret \in Passing : ~ InMemory(secret))
<1>1. ASSUME HoldInv
      PROVE  /\ call.fn \in DOMAIN Body => left \subseteq Stays(call.fn)
             /\ ~ Runs => \A secret \in Passing : ~ InMemory(secret)
  <2>1. call.fn \in DOMAIN Body => left \subseteq Stays(call.fn)
    BY <1>1, LeftWithin
  <2>2. left \cap Passing = {}
    <3>1. CASE call.fn \in DOMAIN Body
      BY <2>1, <3>1 DEF Stays, Passing
    <3>2. CASE call.fn = "none"
      BY <1>1, <3>2 DEF HoldInv, LeftInv
    <3>3. CASE call.fn = "destroy"
      BY <1>1, <3>3 DEF HoldInv, LeftInv, Passing
    <3> QED BY <1>1, <3>1, <3>2, <3>3 DEF HoldInv, CallInv
  <2>3. ~ Runs => locals = {}
    BY <1>1 DEF HoldInv, CallInv
  <2> QED BY <2>1, <2>2, <2>3 DEF InMemory
<1> QED BY <1>1, HoldsFromLets, PTL

LEMMA PasswordResult ==
  ASSUME HoldInv, call.fn \in DOMAIN Body, "SRP password" \in left
  PROVE  result = "InvalidInput"
<1>1. call.fn \in {"compute_verifier", "compute_client_proof"}
  BY LeftWithin DEF Stays
<1>2. PICK b : b = Code
  OBVIOUS
<1>3. b \in {compute_verifier, compute_client_proof}
  <2>1. CASE call.fn = "compute_verifier"
    <3>1. Body["compute_verifier"] = compute_verifier
      BY DEF Body
    <3> QED BY <1>2, <2>1, <3>1 DEF Code
  <2>2. CASE call.fn = "compute_client_proof"
    <3>1. Body["compute_client_proof"] = compute_client_proof
      BY DEF Body
    <3> QED BY <1>2, <2>2, <3>1 DEF Code
  <2> QED BY <1>1, <2>1, <2>2
<1>4. PICK i \in 1..Len(b), j \in 1..call.pc : Live(b, i, j) /\ Exits(b, j) /\ Passed(j)
  BY <1>2, WhereLeft
<1>5. j \in Nat
  <2>1. call.pc \in Nat
    BY DEF HoldInv, CallInv
  <2> QED BY ONLY <2>1, j \in 1..call.pc
<1>6. j = 3
  BY <1>3, <1>4, <1>5, PasswordExit
<1>7. 3 \in 1..Len(b) /\ b[3].op = "try" /\ b[3].err = "InvalidInput"
  <2>1. CASE b = compute_verifier
    <3>1. Len(b) = 5
      BY <2>1 DEF compute_verifier
    <3>2. b[3].op = "try" /\ b[3].err = "InvalidInput"
      BY <2>1 DEF compute_verifier, Let, Try, Into, Leave
    <3>3. 3 \in 1..Len(b)
      BY ONLY <3>1
    <3> QED BY <3>2, <3>3
  <2>2. CASE b = compute_client_proof
    <3>1. Len(b) = 6
      BY <2>2 DEF compute_client_proof
    <3>2. b[3].op = "try" /\ b[3].err = "InvalidInput"
      BY <2>2 DEF compute_client_proof, Let, Try, Into, Give
    <3>3. 3 \in 1..Len(b)
      BY ONLY <3>1
    <3> QED BY <3>2, <3>3
  <2> QED BY <1>3, <2>1, <2>2
<1>8. call.pc = 3 /\ ~ Runs
  BY <1>2, <1>4, <1>6, <1>7 DEF Passed
<1> QED BY <1>2, <1>7, <1>8 DEF HoldInv, CallInv

LEMMA OneSecret ==
  ASSUME NEW handle, NEW kind, NEW secret, Inner(handle) = {Holder(kind, secret)}
  PROVE  Secrets(handle) \subseteq {secret}
<1> SUFFICES ASSUME NEW h \in Inner(handle) PROVE h.secret = secret
  BY DEF Secrets
<1>1. h = Holder(kind, secret)
  OBVIOUS
<1> QED BY <1>1 DEF Holder

LEMMA SecretFacts ==
  /\ Secrets("mk") \subseteq {"master key"}
  /\ Secrets("vk") \subseteq {"vault key"}
  /\ Secrets("kp") \subseteq {"seed", "X25519 key", "ML-KEM key"}
  /\ Secrets("ephemeral") \subseteq {"SRP exponent"}
  /\ Secrets("proof") \subseteq {"session key"}
<1>1. Secrets("kp") \subseteq {"seed", "X25519 key", "ML-KEM key"}
  <2> SUFFICES ASSUME NEW h \in Inner("kp")
               PROVE  h.secret \in {"seed", "X25519 key", "ML-KEM key"}
    BY DEF Secrets
  <2>1. PICK s \in {"seed", "X25519 key", "ML-KEM key"} : h = Holder("ZeroizeOnDrop", s)
    BY DEF Inner
  <2>2. h.secret = s
    BY <2>1 DEF Holder
  <2> QED BY <2>2
<1>2. Secrets("mk") \subseteq {"master key"}
  <2>1. Inner("mk") = {Holder("ZeroizeOnDrop", "master key")}
    BY DEF Inner
  <2> QED BY ONLY <2>1, OneSecret
<1>3. Secrets("vk") \subseteq {"vault key"}
  <2>1. Inner("vk") = {Holder("ZeroizeOnDrop", "vault key")}
    BY DEF Inner
  <2> QED BY ONLY <2>1, OneSecret
<1>4. Secrets("ephemeral") \subseteq {"SRP exponent"}
  <2>1. Inner("ephemeral") = {Holder("ZeroizeOnDrop", "SRP exponent")}
    BY DEF Inner
  <2> QED BY ONLY <2>1, OneSecret
<1>5. Secrets("proof") \subseteq {"session key"}
  <2>1. Inner("proof") = {Holder("skipped", "session key")}
    BY DEF Inner
  <2> QED BY ONLY <2>1, OneSecret
<1> QED BY <1>1, <1>2, <1>3, <1>4, <1>5

(* What a function may leave is never in a handle it borrows.              *)
LEMMA BorrowsAreNotLeft ==
  ASSUME NEW f \in DOMAIN Body, NEW handle \in Borrows(f)
  PROVE  Stays(f) \cap Secrets(handle) = {}
<1>1. CASE f = "wrap_vault_key"
  BY <1>1, SecretFacts DEF Borrows, Stays
<1>2. CASE f \in {"unwrap_vault_key", "decrypt_private_key"}
  <2>1. handle = "mk"
    BY <1>2 DEF Borrows
  <2>2. "master key" \notin Stays(f)
    BY DEF Stays
  <2> QED BY <2>1, <2>2, SecretFacts
<1>3. CASE f = "encrypt_private_key"
  BY <1>3, SecretFacts DEF Borrows, Stays
<1>4. CASE f \in {"encrypt_vault", "decrypt_vault", "reencrypt_vault", "wrap_vault_key_for_user"}
  <2>1. handle = "vk"
    BY <1>4 DEF Borrows
  <2>2. "vault key" \notin Stays(f)
    BY <1>4 DEF Stays
  <2> QED BY <2>1, <2>2, SecretFacts
<1>5. CASE f = "unwrap_shared_vault_key"
  <2>1. handle = "kp"
    BY <1>5 DEF Borrows
  <2>2. Stays(f) = {"vault key", "opened vault key", "ML-KEM secret"}
    BY <1>5 DEF Stays
  <2> QED BY <2>1, <2>2, SecretFacts
<1>6. CASE f = "compute_client_proof"
  <2>1. handle = "ephemeral"
    BY <1>6 DEF Borrows
  <2>2. "SRP exponent" \notin Stays(f)
    BY <1>6 DEF Stays
  <2> QED BY <2>1, <2>2, SecretFacts
<1>7. CASE f = "verify_server_proof"
  <2>1. handle = "proof"
    BY <1>7 DEF Borrows
  <2>2. "session key" \notin Stays(f)
    BY DEF Stays
  <2> QED BY <2>1, <2>2, SecretFacts
<1>8. CASE f \in {"derive_master_key", "derive_srp_password", "create_vault_key",
                 "aad_self_test", "generate_keypair", "compute_verifier",
                 "generate_client_ephemeral"}
  BY <1>8 DEF Borrows
<1> QED BY <1>1, <1>2, <1>3, <1>4, <1>5, <1>6, <1>7, <1>8, FunctionNames

(* No call leaves a secret of a handle it borrows outside the handle, a    *)
(* master key where it derives it or an ML-KEM key where it makes one: for *)
(* each of the eighteen functions and each place where it can return       *)
(* (kdf.rs:118, keypair.rs:695, srp.rs:134).                               *)
THEOREM UsesAreClean == Spec => []UsesLeaveNoCopy
<1>1. ASSUME HoldInv PROVE UsesLeaveNoCopy
  <2>1. CASE call.fn \in DOMAIN Body
    <3>1. left \subseteq Stays(call.fn)
      BY <1>1, <2>1, LeftWithin
    <3>2. \A handle \in Borrows(call.fn) : left \cap Secrets(handle) = {}
      BY <2>1, <3>1, BorrowsAreNotLeft
    <3>3. "SRP password" \in left => result = "InvalidInput"
      BY <1>1, <2>1, PasswordResult
    <3>4. left \cap {"master key", "ML-KEM key"} = {}
      BY <3>1 DEF Stays
    <3> QED BY <3>2, <3>3, <3>4 DEF UsesLeaveNoCopy
  <2>2. CASE call.fn = "none"
    BY <1>1, <2>2 DEF HoldInv, LeftInv, UsesLeaveNoCopy
  <2>3. CASE call.fn = "destroy"
    <3>1. Borrows(call.fn) = {}
      BY <2>3 DEF Borrows
    <3>2. left \subseteq {"session key"}
      BY <1>1, <2>3 DEF HoldInv, LeftInv
    <3> QED BY <3>1, <3>2 DEF UsesLeaveNoCopy
  <2> QED BY <1>1, <2>1, <2>2, <2>3 DEF HoldInv, CallInv
<1> QED BY <1>1, HoldsFromLets, PTL

(* A row, seed or blob that does not open leaves nothing of the keys it    *)
(* was tried with, besides the ML-KEM secret of a share (vault.rs:307,     *)
(* keypair.rs:374).                                                        *)
THEOREM RefusalsAreClean == Spec => []RefusalsLeaveNothing
<1>1. ASSUME HoldInv PROVE RefusalsLeaveNothing
  <2> SUFFICES ASSUME result \in Refusals, NEW s \in left
               PROVE  s = "ML-KEM secret"
    BY DEF RefusalsLeaveNothing, Refusals
  <2>1. ~ Runs /\ result # "ok"
    BY DEF Runs, Refusals
  <2>2. call.fn \in DOMAIN Body
    BY <1>1, <2>1 DEF HoldInv, CallInv, LeftInv
  <2>3. call.pc \in 1..Len(Code) /\ Refuses(Code[call.pc])
    BY <1>1, <2>1, <2>2 DEF HoldInv, CallInv, Refuses
  <2>4. PICK i \in 1..Len(Code), j \in 1..call.pc :
          Live(Code, i, j) /\ ~ Settled(Code, i) /\ s = Code[i].secret
    BY <1>1, <2>2, WhereLeft
  <2>5. i < call.pc /\ Plain(Code[i])
    BY <2>3, <2>4 DEF Live
  <2>6. Quiet(Code)
    BY <2>2, Bodies DEF Careful, Code
  <2> QED BY <2>3, <2>4, <2>5, <2>6 DEF Quiet
<1> QED BY <1>1, HoldsFromLets, PTL
=============================================================================
