---------------------------- MODULE WireFormat_proofs ----------------------------
(***************************************************************************)
(* Proofs about WireFormat and AssociatedData, for bytes of any base, any  *)
(* vault ids and versions, and any lengths that are served.                *)
(***************************************************************************)
EXTENDS WireFormat, SequenceTheorems, TLAPS

-----------------------------------------------------------------------------
(* Numbers in bytes. *)
LEMMA DivMod ==
  ASSUME NEW n \in Nat, NEW b \in Nat, b > 0
  PROVE  /\ n = b * (n \div b) + (n % b)
         /\ n \div b \in Nat /\ n % b \in 0..(b-1)
OBVIOUS

LEMMA DivUnique ==
  ASSUME NEW b \in Nat, b > 0, NEW q \in Nat, NEW r \in 0..(b-1)
  PROVE  (b * q + r) \div b = q /\ (b * q + r) % b = r
<1> DEFINE n == b * q + r
<1>1. n \in Nat OBVIOUS
<1> DEFINE p == n \div b  s == n % b
<1>2. n = b * p + s /\ p \in Nat /\ s \in 0..(b-1) BY <1>1, DivMod
<1> HIDE DEF p, s
<1>3. ~(p < q)
  <2> SUFFICES ASSUME p < q PROVE FALSE OBVIOUS
  <2>1. PICK d \in Nat : q = p + 1 + d
    <3>1. q - p - 1 \in Nat BY <1>2
    <3> QED BY <3>1, <1>2
  <2>2. b * q = b * p + b + b * d BY <2>1, <1>2
  <2>3. b * d >= 0 OBVIOUS
  <2> QED BY <2>2, <2>3, <1>2
<1>4. ~(q < p)
  <2> SUFFICES ASSUME q < p PROVE FALSE OBVIOUS
  <2>1. PICK d \in Nat : p = q + 1 + d
    <3>1. p - q - 1 \in Nat BY <1>2
    <3> QED BY <3>1, <1>2
  <2>2. b * p = b * q + b + b * d BY <2>1, <1>2
  <2>3. b * d >= 0 OBVIOUS
  <2> QED BY <2>2, <2>3, <1>2
<1>5. p = q BY <1>2, <1>3, <1>4
<1>6. s = r BY <1>2, <1>5
<1> QED BY <1>5, <1>6 DEF p, s

LEMMA WordTypes ==
  /\ ByteBase \in Nat /\ ByteBase > 1
  /\ Word2 \in Nat /\ Word2 > 0 /\ Word4 \in Nat /\ Word4 > 1
BY BytesAssumption DEF Word2, Word4

LEMMA Be2Type == ASSUME NEW n \in Nat PROVE Be2(n) \in Seq(Byte) /\ Len(Be2(n)) = 2
BY DivMod, BytesAssumption DEF Be2, Byte

(* The bytes of n are those of n \div ByteBase and n % ByteBase. *)
LEMMA DivTwice ==
  ASSUME NEW n \in Nat
  PROVE  /\ n \div Word2 = (n \div ByteBase) \div ByteBase
         /\ n = Word2 * (n \div Word2) + (ByteBase * ((n \div ByteBase) % ByteBase)
                                           + (n % ByteBase))
<1>1. PICK q \in Nat, r \in 0..(ByteBase-1) :
        n \div ByteBase = q /\ n % ByteBase = r /\ n = ByteBase * q + r
  BY DivMod, WordTypes
<1>2. PICK q2 \in Nat, r2 \in 0..(ByteBase-1) :
        q \div ByteBase = q2 /\ q % ByteBase = r2 /\ q = ByteBase * q2 + r2
  BY DivMod, WordTypes
<1>3. n = Word2 * q2 + (ByteBase * r2 + r)
  BY <1>1, <1>2, WordTypes DEF Word2
<1>4. ByteBase * r2 + r \in 0..(Word2 - 1)
  <2>1. ByteBase * r2 + r \in Nat BY WordTypes
  <2>2. ByteBase * (ByteBase - 1 - r2) >= 0 BY WordTypes
  <2>3. ByteBase * (ByteBase - 1 - r2) = Word2 - ByteBase - ByteBase * r2
    BY WordTypes DEF Word2
  <2> QED BY <2>1, <2>2, <2>3, WordTypes
<1>5. n \div Word2 = q2 BY <1>3, <1>4, DivUnique, WordTypes
<1> QED BY <1>1, <1>2, <1>3, <1>5

LEMMA Be2Injective ==
  ASSUME NEW n \in Nat, NEW k \in Nat, n < Word2, k < Word2, Be2(n) = Be2(k)
  PROVE  n = k
<1>1. ASSUME NEW i \in Nat, i < Word2 PROVE i \div Word2 = 0
  <2>1. i = Word2 * 0 + i BY <1>1, WordTypes
  <2> QED BY <2>1, <1>1, DivUnique, WordTypes
<1>2. n \div Word2 = 0 /\ k \div Word2 = 0 BY <1>1
<1>3. /\ (n \div ByteBase) % ByteBase = (k \div ByteBase) % ByteBase
      /\ n % ByteBase = k % ByteBase
  BY DEF Be2
<1>4. /\ n = Word2 * 0 + (ByteBase * ((n \div ByteBase) % ByteBase) + (n % ByteBase))
      /\ k = Word2 * 0 + (ByteBase * ((k \div ByteBase) % ByteBase) + (k % ByteBase))
  BY DivTwice, <1>2
<1> QED BY <1>3, <1>4

LEMMA Cat ==
  ASSUME NEW s \in Seq(Byte), NEW t \in Seq(Byte)
  PROVE  /\ s \o t \in Seq(Byte) /\ Len(s \o t) = Len(s) + Len(t)
         /\ Len(s) \in Nat /\ Len(t) \in Nat
OBVIOUS

LEMMA CatSplit ==
  ASSUME NEW s \in Seq(Byte), NEW t \in Seq(Byte), NEW u \in Seq(Byte), NEW v \in Seq(Byte),
         s \o t = u \o v, Len(s) = Len(u)
  PROVE  s = u /\ t = v
<1>1. Len(t) = Len(v) BY Cat
<1>2. ASSUME NEW i \in 1..Len(s) PROVE s[i] = u[i]
  <2>1. (s \o t)[i] = s[i] BY Cat
  <2>2. (u \o v)[i] = u[i] BY Cat
  <2> QED BY <2>1, <2>2
<1>3. ASSUME NEW i \in 1..Len(t) PROVE t[i] = v[i]
  <2>1. (s \o t)[Len(s) + i] = t[i] BY Cat
  <2>2. (u \o v)[Len(u) + i] = v[i] BY Cat, <1>1
  <2> QED BY <2>1, <2>2
<1>4. s = u BY ONLY s \in Seq(Byte), u \in Seq(Byte), Len(s) = Len(u), <1>2, SeqEqual
<1>5. t = v BY ONLY t \in Seq(Byte), v \in Seq(Byte), <1>1, <1>3, SeqEqual
<1> QED BY <1>4, <1>5

LEMMA Be4Type == ASSUME NEW n \in Nat PROVE Be4(n) \in Seq(Byte) /\ Len(Be4(n)) = 4
<1>1. n \div Word2 \in Nat BY DivMod, WordTypes
<1>2. PICK s, t \in Seq(Byte) : s = Be2(n \div Word2) /\ t = Be2(n) /\ Len(s) = 2 /\ Len(t) = 2
  BY Be2Type, <1>1
<1>3. Be4(n) = s \o t BY <1>2 DEF Be4
<1>4. s \o t \in Seq(Byte) /\ Len(s \o t) = Len(s) + Len(t) BY Cat
<1> QED BY <1>2, <1>3, <1>4

LEMMA Be4Injective ==
  ASSUME NEW n \in U32, NEW k \in U32, Be4(n) = Be4(k)
  PROVE  n = k
<1>0. n \in Nat /\ k \in Nat /\ n < Word4 /\ k < Word4 BY WordTypes DEF U32
<1> DEFINE hn == n \div Word2  hk == k \div Word2
<1>1. hn \in Nat /\ hk \in Nat BY <1>0, DivMod, WordTypes
<1>2. hn < Word2 /\ hk < Word2
  <2>1. ASSUME NEW i \in Nat, i < Word4 PROVE i \div Word2 < Word2
    <3>1. PICK q \in Nat, r \in 0..(Word2-1) : i \div Word2 = q /\ i = Word2 * q + r
      BY DivMod, WordTypes
    <3>2. SUFFICES ASSUME q >= Word2 PROVE FALSE BY <3>1, WordTypes
    <3>3. PICK d \in Nat : q = Word2 + d
      <4>1. q - Word2 \in Nat BY <3>2, WordTypes
      <4> QED BY <4>1, WordTypes
    <3>4. Word2 * q = Word4 + Word2 * d BY <3>3, WordTypes DEF Word4
    <3>5. Word2 * d >= 0 BY WordTypes
    <3> QED BY <3>1, <3>4, <3>5, <2>1, WordTypes
  <2> QED BY <2>1, <1>0
<1>3. Be2(hn) = Be2(hk) /\ Be2(n) = Be2(k)
  <2> HIDE DEF hn, hk
  <2>2. Be4(n) = Be2(hn) \o Be2(n) /\ Be4(k) = Be2(hk) \o Be2(k) BY DEF Be4, hn, hk
  <2>3. PICK x, y, z, w \in Seq(Byte) :
          /\ x = Be2(hn) /\ y = Be2(n) /\ z = Be2(hk) /\ w = Be2(k)
          /\ Len(x) = 2 /\ Len(z) = 2
    BY Be2Type, <1>0, <1>1
  <2>4. x \o y = z \o w BY <2>2, <2>3
  <2>5. x = z /\ y = w BY <2>3, <2>4, CatSplit
  <2> QED BY <2>3, <2>5
<1>4. hn = hk BY <1>1, <1>2, <1>3, Be2Injective
<1>5. /\ (n \div ByteBase) % ByteBase = (k \div ByteBase) % ByteBase
      /\ n % ByteBase = k % ByteBase
  BY <1>3 DEF Be2
<1>6. /\ n = Word2 * hn + (ByteBase * ((n \div ByteBase) % ByteBase) + (n % ByteBase))
      /\ k = Word2 * hk + (ByteBase * ((k \div ByteBase) % ByteBase) + (k % ByteBase))
  BY DivTwice, <1>0
<1> QED BY <1>4, <1>5, <1>6

-----------------------------------------------------------------------------
(* The length of the whole gives the length of the id, whatever the length *)
(* field says: vault_aad never gives two pairs the same bytes, as          *)
(* vault.rs:126 promises.                                                  *)
THEOREM AadIsInjective ==
  \A id1, id2 \in Seq(Byte) : \A v1, v2 \in U32 :
    vault_aad(id1, v1) = vault_aad(id2, v2) => id1 = id2 /\ v1 = v2
<1> SUFFICES ASSUME NEW id1 \in Seq(Byte), NEW id2 \in Seq(Byte),
                    NEW v1 \in U32, NEW v2 \in U32,
                    vault_aad(id1, v1) = vault_aad(id2, v2)
             PROVE  id1 = id2 /\ v1 = v2
  OBVIOUS
<1>1. v1 \in Nat /\ v2 \in Nat BY WordTypes DEF U32
<1>2. Len(id1) \in Nat /\ Len(id2) \in Nat OBVIOUS
<1>3. PICK l1, l2, b1, b2 \in Seq(Byte) :
        /\ l1 = Be2(Len(id1)) /\ l2 = Be2(Len(id2)) /\ Len(l1) = 2 /\ Len(l2) = 2
        /\ b1 = Be4(v1) /\ b2 = Be4(v2) /\ Len(b1) = 4 /\ Len(b2) = 4
  BY Be2Type, Be4Type, <1>1, <1>2
<1>4. PICK m \in Seq(Byte) : m = Magic /\ Len(m) = 4 BY BytesAssumption
<1> DEFINE h1 == m \o l1  h2 == m \o l2  p1 == h1 \o id1  p2 == h2 \o id2
<1>5. h1 \in Seq(Byte) /\ h2 \in Seq(Byte) /\ Len(h1) = Len(h2) /\ Len(h1) \in Nat
  <2>1. h1 \in Seq(Byte) /\ Len(h1) = Len(m) + Len(l1) BY Cat
  <2>2. h2 \in Seq(Byte) /\ Len(h2) = Len(m) + Len(l2) BY Cat
  <2> QED BY <2>1, <2>2, <1>3, <1>4
<1> HIDE DEF h1, h2
<1>6. /\ p1 \in Seq(Byte) /\ Len(p1) = Len(h1) + Len(id1)
      /\ p2 \in Seq(Byte) /\ Len(p2) = Len(h2) + Len(id2)
  BY Cat, <1>5
<1>7. p1 \o b1 = p2 \o b2 BY <1>3, <1>4 DEF vault_aad, h1, h2
<1> HIDE DEF p1, p2
<1>8. Len(p1) = Len(p2)
  <2>1. Len(p1 \o b1) = Len(p1) + Len(b1) /\ Len(p2 \o b2) = Len(p2) + Len(b2)
    BY Cat, <1>6
  <2>2. Len(p1) \in Nat /\ Len(p2) \in Nat BY Cat, <1>6
  <2> QED BY <2>1, <2>2, <1>3, <1>7
<1>9. p1 = p2 /\ b1 = b2 BY <1>6, <1>7, <1>8, CatSplit
<1>10. id1 = id2
  <2>1. h1 \o id1 = h2 \o id2 BY <1>9 DEF p1, p2
  <2> QED BY <2>1, <1>5, CatSplit
<1>11. v1 = v2 BY <1>3, <1>9, Be4Injective
<1> QED BY <1>10, <1>11

(* No number of a fixed width is its own successor, wrapped or not: the    *)
(* browser's self-test passes for every id and version.                    *)
LEMMA SelfTest ==
  ASSUME NEW id \in Seq(Byte), NEW n \in U32
  PROVE  aad_self_test(id, n)
<1>1. n \in Nat /\ n < Word4 BY WordTypes DEF U32
<1>2. wrapping_add1(n) \in U32 /\ wrapping_add1(n) # n
  <2>0. n + 1 < Word4 \/ n + 1 = Word4 BY <1>1, WordTypes
  <2>1. CASE n + 1 < Word4
    <3>1. n + 1 = Word4 * 0 + (n + 1) BY <1>1, WordTypes
    <3>2. (n + 1) % Word4 = n + 1 BY <3>1, <2>1, <1>1, DivUnique, WordTypes
    <3> QED BY <3>2, <2>1, <1>1, WordTypes DEF wrapping_add1, U32
  <2>2. CASE n + 1 = Word4
    <3>1. n + 1 = Word4 * 1 + 0 BY <2>2, <1>1, WordTypes
    <3>2. (n + 1) % Word4 = 0 BY <3>1, <1>1, DivUnique, WordTypes
    <3> QED BY <3>2, <2>2, <1>1, WordTypes DEF wrapping_add1, U32
  <2> QED BY <2>0, <2>1, <2>2
<1> QED BY <1>2, AadIsInjective DEF aad_self_test, Opens

-----------------------------------------------------------------------------
(* What is served, and what the codecs and openings make of it. *)
Labels   == Columns \cup {"none", "degenerate", "not base64"}
Origins  == [column : Labels, content : Nat, aad : Seq(Byte)]
TextCell == [chars : Int, pad : Int, of : Origins]
RawCell  == [len : Int, of : Origins]
Cell(c)  == IF c \in Texts THEN TextCell ELSE RawCell

Decodes(t) == t.chars % 4 = 0 /\ t.of # NotBase64
Size(t)    == 3 * (t.chars \div 4) - t.pad

(* Base64 loses nothing: what was encoded is decoded again. *)
THEOREM RoundTrip ==
  ASSUME NEW n \in Nat, NEW o, o # NotBase64
  PROVE  b64_decode(b64_encode(Bytes(n, o))) = Ok(Bytes(n, o))
<1>1. PICK q \in Nat, r \in 0..2 : n = 3 * q + r
  <2>1. n = 3 * (n \div 3) + (n % 3) /\ n \div 3 \in Nat /\ n % 3 \in 0..2 OBVIOUS
  <2> QED BY <2>1
<1>2. (4 * ((n + 2) \div 3)) % 4 = 0 OBVIOUS
<1>3. 3 * ((4 * ((n + 2) \div 3)) \div 4) - ((3 - (n % 3)) % 3) = n
  <2>1. (4 * ((n + 2) \div 3)) \div 4 = (n + 2) \div 3 OBVIOUS
  <2>2. n % 3 = r BY <1>1
  <2>3. CASE r = 0 BY <2>1, <2>2, <2>3, <1>1
  <2>4. CASE r # 0 BY <2>1, <2>2, <2>4, <1>1
  <2> QED BY <2>3, <2>4
<1> QED BY <1>2, <1>3 DEF b64_decode, b64_encode, Bytes, Ok

LEMMA Decoding ==
  ASSUME NEW t \in TextCell
  PROVE  b64_decode(t) = IF Decodes(t) THEN Ok(Bytes(Size(t), t.of)) ELSE Err("InvalidInput")
BY DEF b64_decode, Decodes, Size

LEMMA Arrays ==
  ASSUME NEW t \in TextCell, NEW n \in Nat
  PROVE  b64_decode_array(t, n) = IF Decodes(t) /\ Size(t) = n THEN Ok(Bytes(n, t.of))
                                                               ELSE Err("InvalidInput")
<1>1. CASE Decodes(t)
  <2>1. b64_decode(t) = Ok(Bytes(Size(t), t.of)) BY <1>1, Decoding
  <2>2. b64_decode_array(t, n) =
          IF Size(t) # n THEN Err("InvalidInput") ELSE Ok(Bytes(Size(t), t.of))
    BY <2>1 DEF b64_decode_array, Then, copy_from_slice, Ok, Bytes
  <2> QED BY <2>2, <1>1
<1>2. CASE ~Decodes(t)
  <2>1. b64_decode(t) = Err("InvalidInput") BY <1>2, Decoding
  <2> QED BY <2>1, <1>2 DEF b64_decode_array, Then, Err
<1> QED BY <1>1, <1>2

(* Opening a seal never panics, and gives keys of the right length only. *)
LEMMA Taking ==
  ASSUME NEW n, NEW o, NEW e
  PROVE  /\ TakeKey(Err(e)) = Err(e)
         /\ TakeKey(Ok(Bytes(n, o))) =
              IF n # KEY_LEN THEN Err("InvalidInput") ELSE Ok(Bytes(n, o))
BY DEF TakeKey, Then, Ok, Err, Bytes, copy_from_slice

PrivateKeyRead(t, m) ==
  Then(EncryptedPrivateKey_from_base64(t), LAMBDA enc : decrypt_private_key(enc, m))

LEMMA PrivateKeyReads ==
  ASSUME NEW t \in TextCell, NEW m
  PROVE  PrivateKeyRead(t, m) =
           IF ~Decodes(t) \/ Size(t) < 40 THEN Err("InvalidInput")
           ELSE IF ~(m = Salt /\ t.of.column = "encrypted_private_key") THEN Err("KeyUnwrap")
           ELSE IF t.of.content # KEY_LEN THEN Err("InvalidInput")
           ELSE Ok(Bytes(KEY_LEN, t.of))
<1>1. Size(t) \in Int BY DEF TextCell, Size
<1>2. EncryptedPrivateKey_from_base64(t) =
        IF ~Decodes(t) \/ Size(t) < 40 THEN Err("InvalidInput")
        ELSE Ok(Bytes(Size(t) - 24, t.of))
  <2>1. CASE Decodes(t)
    <3>1. b64_decode(t) = Ok(Bytes(Size(t), t.of)) BY <2>1, Decoding
    <3>2. Size(t) >= 40 => split_at(Bytes(Size(t), t.of), 24) = Ok(Bytes(Size(t) - 24, t.of))
      BY <1>1 DEF split_at, Bytes
    <3>3. EncryptedPrivateKey_from_base64(t) =
            IF Size(t) < 40 THEN Err("InvalidInput") ELSE split_at(Bytes(Size(t), t.of), 24)
      BY <3>1 DEF EncryptedPrivateKey_from_base64, Then, Ok, Bytes, XCHACHA_NONCE_LEN, TAG_LEN
    <3> QED BY <3>2, <3>3, <2>1, <1>1
  <2>2. CASE ~Decodes(t)
    <3>1. b64_decode(t) = Err("InvalidInput") BY <2>2, Decoding
    <3> QED BY <3>1, <2>2 DEF EncryptedPrivateKey_from_base64, Then, Err
  <2> QED BY <2>1, <2>2
<1>3. decrypt_private_key(Bytes(Size(t) - 24, t.of), m) =
           IF ~(m = Salt /\ t.of.column = "encrypted_private_key") THEN Err("KeyUnwrap")
           ELSE IF t.of.content # KEY_LEN THEN Err("InvalidInput")
           ELSE Ok(Bytes(KEY_LEN, t.of))
  <2> DEFINE c == Bytes(Size(t) - 24, t.of)
  <2>1. c.of = t.of BY DEF Bytes
  <2>2. CASE m = Salt /\ t.of.column = "encrypted_private_key"
    <3>1. decrypt(c, "encrypted_private_key", m = Salt, "KeyUnwrap")
            = Ok(Bytes(t.of.content, t.of))
      BY <2>1, <2>2 DEF decrypt
    <3> QED BY <3>1, <2>2, Taking DEF decrypt_private_key
  <2>3. CASE ~(m = Salt /\ t.of.column = "encrypted_private_key")
    <3>1. decrypt(c, "encrypted_private_key", m = Salt, "KeyUnwrap") = Err("KeyUnwrap")
      BY <2>1, <2>3 DEF decrypt
    <3> QED BY <3>1, <2>3, Taking DEF decrypt_private_key
  <2> QED BY <2>2, <2>3
<1> QED BY <1>2, <1>3 DEF PrivateKeyRead, Then, Ok, Err

LEMMA OwnKeyReads ==
  ASSUME NEW b \in RawCell, NEW m
  PROVE  unwrap_vault_key_with_master_key(b, m) =
           IF b.len < 56 THEN Err("InvalidInput")
           ELSE IF ~(m = Salt /\ b.of.column = "own_vault_key") THEN Err("KeyUnwrap")
           ELSE IF b.of.content # KEY_LEN THEN Err("InvalidInput")
           ELSE Ok(Bytes(KEY_LEN, b.of))
<1>1. b.len \in Int BY DEF RawCell
<1>2. b.len >= 56 => split_at(b, 24) = Ok(Bytes(b.len - 24, b.of))
  BY <1>1 DEF split_at, Bytes
<1>3. TakeKey(decrypt(Bytes(b.len - 24, b.of), "own_vault_key", m = Salt, "KeyUnwrap")) =
           IF ~(m = Salt /\ b.of.column = "own_vault_key") THEN Err("KeyUnwrap")
           ELSE IF b.of.content # KEY_LEN THEN Err("InvalidInput")
           ELSE Ok(Bytes(KEY_LEN, b.of))
  <2> DEFINE c == Bytes(b.len - 24, b.of)
  <2>1. c.of = b.of BY DEF Bytes
  <2>2. CASE m = Salt /\ b.of.column = "own_vault_key"
    <3>1. decrypt(c, "own_vault_key", m = Salt, "KeyUnwrap") = Ok(Bytes(b.of.content, b.of))
      BY <2>1, <2>2 DEF decrypt
    <3> QED BY <3>1, <2>2, Taking
  <2>3. CASE ~(m = Salt /\ b.of.column = "own_vault_key")
    <3>1. decrypt(c, "own_vault_key", m = Salt, "KeyUnwrap") = Err("KeyUnwrap")
      BY <2>1, <2>3 DEF decrypt
    <3> QED BY <3>1, <2>3, Taking
  <2> QED BY <2>2, <2>3
<1> QED BY <1>1, <1>2, <1>3
        DEF unwrap_vault_key_with_master_key, Then, Ok, Err, XCHACHA_NONCE_LEN, KEY_LEN

LEMMA BlobReads ==
  ASSUME NEW b \in RawCell, NEW id, NEW n
  PROVE  decrypt_vault(b, id, n) =
           IF b.len < 12 THEN Err("shorter than a nonce")
           ELSE IF ~(b.of.aad = vault_aad(id, n) /\ b.of.column = "blob") THEN Err("Decryption")
           ELSE Ok(Bytes(b.of.content, b.of))
<1>1. b.len \in Int BY DEF RawCell
<1> DEFINE c == Bytes(b.len - 12, b.of)
<1>2. b.len >= 12 => split_at(b, 12) = Ok(c) BY <1>1 DEF split_at, Bytes
<1>3. c.of = b.of BY DEF Bytes
<1> HIDE DEF c
<1>4. CASE b.len >= 12
  <2>1. split_at(b, 12).ok /\ split_at(b, 12).val = c BY <1>2, <1>4 DEF Ok
  <2> QED BY <2>1, <1>1, <1>3, <1>4 DEF decrypt_vault, Then, NONCE_LEN, decrypt
<1>5. CASE b.len < 12 BY <1>1, <1>5 DEF decrypt_vault, Then, NONCE_LEN
<1>6. b.len >= 12 \/ b.len < 12 BY <1>1
<1> QED BY ONLY <1>4, <1>5, <1>6


Fits(t, n) == Decodes(t) /\ Size(t) = n

LEMMA FieldsRead ==
  ASSUME NEW k \in TextCell, NEW e \in TextCell, NEW c \in TextCell
  PROVE  WrappedVaultKey_from_base64(k, e, c) =
           IF Fits(c, MLKEM768_CIPHERTEXT_LEN) /\ Fits(e, KEY_LEN) /\ Decodes(k)
           THEN Ok([eph_pub_key |-> Bytes(KEY_LEN, e.of),
                    mlkem_ciphertext |-> Bytes(MLKEM768_CIPHERTEXT_LEN, c.of),
                    encrypted_vault_key |-> Bytes(Size(k), k.of)])
           ELSE Err("InvalidInput")
<1> DEFINE inner(b) ==
      Then(b64_decode_array(e, KEY_LEN), LAMBDA x :
        Then(b64_decode(k), LAMBDA y :
          Ok([eph_pub_key |-> x, mlkem_ciphertext |-> b, encrypted_vault_key |-> y])))
<1>1. ASSUME NEW b
      PROVE  inner(b) = IF Fits(e, KEY_LEN) /\ Decodes(k)
                        THEN Ok([eph_pub_key |-> Bytes(KEY_LEN, e.of), mlkem_ciphertext |-> b,
                                 encrypted_vault_key |-> Bytes(Size(k), k.of)])
                        ELSE Err("InvalidInput")
  <2>0. KEY_LEN \in Nat BY DEF KEY_LEN
  <2>1. CASE Fits(e, KEY_LEN)
    <3>1. b64_decode_array(e, KEY_LEN) = Ok(Bytes(KEY_LEN, e.of)) BY <2>0, <2>1, Arrays DEF Fits
    <3>2. inner(b) = Then(b64_decode(k), LAMBDA y :
            Ok([eph_pub_key |-> Bytes(KEY_LEN, e.of), mlkem_ciphertext |-> b,
                encrypted_vault_key |-> y]))
      BY <3>1 DEF Then, Ok
    <3>3. CASE Decodes(k)
      <4>1. b64_decode(k) = Ok(Bytes(Size(k), k.of)) BY <3>3, Decoding
      <4> QED BY <4>1, <3>2, <3>3, <2>1 DEF Then, Ok
    <3>4. CASE ~Decodes(k)
      <4>1. b64_decode(k) = Err("InvalidInput") BY <3>4, Decoding
      <4> QED BY <4>1, <3>2, <3>4 DEF Then, Err
    <3> QED BY <3>3, <3>4
  <2>2. CASE ~Fits(e, KEY_LEN)
    <3>1. b64_decode_array(e, KEY_LEN) = Err("InvalidInput") BY <2>0, <2>2, Arrays DEF Fits
    <3> QED BY <3>1, <2>2 DEF Then, Err
  <2> QED BY <2>1, <2>2
<1> HIDE DEF inner
<1>2. WrappedVaultKey_from_base64(k, e, c) =
        Then(b64_decode(c), LAMBDA b :
          IF b.len # MLKEM768_CIPHERTEXT_LEN THEN Err("InvalidInput") ELSE inner(b))
  BY DEF WrappedVaultKey_from_base64, inner
<1>3. CASE Decodes(c)
  <2>1. b64_decode(c) = Ok(Bytes(Size(c), c.of)) BY <1>3, Decoding
  <2>2. WrappedVaultKey_from_base64(k, e, c) =
          IF Size(c) # MLKEM768_CIPHERTEXT_LEN THEN Err("InvalidInput")
          ELSE inner(Bytes(Size(c), c.of))
    BY <1>2, <2>1 DEF Then, Ok, Bytes
  <2> QED BY <2>2, <1>1, <1>3 DEF Fits
<1>4. CASE ~Decodes(c)
  <2>1. b64_decode(c) = Err("InvalidInput") BY <1>4, Decoding
  <2> QED BY <2>1, <1>2, <1>4 DEF Then, Err, Fits
<1> QED BY <1>3, <1>4

OneWrap(k, e, c) ==
  /\ k.of.column = "encrypted_vault_key"
  /\ c.of = Made("mlkem_ciphertext", k.of.content, <<>>)
  /\ e.of = Made("eph_pub_key", k.of.content, <<>>)

SharedRead(k, e, c) ==
  Then(WrappedVaultKey_from_base64(k, e, c), LAMBDA w : unwrap_vault_key(w))

LEMMA SharedReads ==
  ASSUME NEW k \in TextCell, NEW e \in TextCell, NEW c \in TextCell
  PROVE  SharedRead(k, e, c) =
           IF ~(Fits(c, MLKEM768_CIPHERTEXT_LEN) /\ Fits(e, KEY_LEN) /\ Decodes(k))
           THEN Err("InvalidInput")
           ELSE IF e.of = Degenerate THEN Err("InvalidPublicKey")
           ELSE IF Size(k) < 24 THEN Err("InvalidInput")
           ELSE IF ~OneWrap(k, e, c) THEN Err("KeyUnwrap")
           ELSE IF k.of.content # KEY_LEN THEN Err("InvalidInput")
           ELSE Ok(Bytes(KEY_LEN, k.of))
<1>0. Size(k) \in Int BY DEF TextCell, Size
<1>1. CASE ~(Fits(c, MLKEM768_CIPHERTEXT_LEN) /\ Fits(e, KEY_LEN) /\ Decodes(k))
  <2>1. WrappedVaultKey_from_base64(k, e, c) = Err("InvalidInput") BY <1>1, FieldsRead
  <2> QED BY <2>1, <1>1 DEF SharedRead, Then, Err
<1>2. CASE Fits(c, MLKEM768_CIPHERTEXT_LEN) /\ Fits(e, KEY_LEN) /\ Decodes(k)
  <2> DEFINE w == [eph_pub_key |-> Bytes(KEY_LEN, e.of),
                   mlkem_ciphertext |-> Bytes(MLKEM768_CIPHERTEXT_LEN, c.of),
                   encrypted_vault_key |-> Bytes(Size(k), k.of)]
             d == Bytes(Size(k) - 24, k.of)
  <2>1. WrappedVaultKey_from_base64(k, e, c) = Ok(w) BY <1>2, FieldsRead
  <2>2. /\ w.eph_pub_key.of = e.of /\ w.mlkem_ciphertext.of = c.of
        /\ w.mlkem_ciphertext.len = MLKEM768_CIPHERTEXT_LEN
        /\ w.encrypted_vault_key.len = Size(k) /\ w.encrypted_vault_key.of = k.of
        /\ d.of = k.of
    BY DEF Bytes
  <2>3. Size(k) >= 24 => split_at(w.encrypted_vault_key, 24) = Ok(d)
    BY <1>0, <2>2 DEF split_at, Bytes
  <2>4. mlkem_decapsulate(w.mlkem_ciphertext) = Ok(w.mlkem_ciphertext)
    BY <2>2 DEF mlkem_decapsulate
  <2> HIDE DEF w, d
  <2>5. SharedRead(k, e, c) = unwrap_vault_key(w) BY <2>1 DEF SharedRead, Then, Ok
  <2>6. CASE e.of = Degenerate
    BY <2>2, <2>5, <2>6, <1>2 DEF unwrap_vault_key
  <2>7. CASE e.of # Degenerate /\ Size(k) < 24
    BY <2>2, <2>4, <2>5, <2>7, <1>2 DEF unwrap_vault_key, Then, Ok, XCHACHA_NONCE_LEN
  <2>8. CASE e.of # Degenerate /\ Size(k) >= 24
    <3>1. ~(Size(k) < 24) BY <1>0, <2>8
    <3>2. split_at(w.encrypted_vault_key, 24).ok /\ split_at(w.encrypted_vault_key, 24).val = d
      BY <2>3, <2>8 DEF Ok
    <3>3. mlkem_decapsulate(w.mlkem_ciphertext).ok
          /\ mlkem_decapsulate(w.mlkem_ciphertext).val = w.mlkem_ciphertext
      BY <2>4 DEF Ok
    <3>4. CASE OneWrap(k, e, c)
      <4>1. unwrap_vault_key(w) = TakeKey(Ok(Bytes(k.of.content, k.of)))
        BY <2>2, <2>8, <3>1, <3>2, <3>3, <3>4
           DEF unwrap_vault_key, Then, XCHACHA_NONCE_LEN, decrypt, OneWrap
      <4> QED BY <4>1, <3>1, <3>4, <2>5, <2>8, <1>2, Taking
    <3>5. CASE ~OneWrap(k, e, c)
      <4>1. unwrap_vault_key(w) = TakeKey(Err("KeyUnwrap"))
        BY <2>2, <2>8, <3>1, <3>2, <3>3, <3>5
           DEF unwrap_vault_key, Then, XCHACHA_NONCE_LEN, decrypt, OneWrap
      <4> QED BY <4>1, <3>1, <3>5, <2>5, <2>8, <1>2, Taking
    <3> QED BY <3>4, <3>5
  <2>9. Size(k) >= 24 \/ Size(k) < 24 BY <1>0
  <2> QED BY <2>6, <2>7, <2>8, <2>9
<1> QED BY <1>1, <1>2


LEMMA KeysRead ==
  ASSUME NEW x \in TextCell, NEW m \in TextCell
  PROVE  UserPublicKeys_from_base64(x, m) =
           IF Fits(x, KEY_LEN) /\ Fits(m, MLKEM768_PUBLIC_LEN)
           THEN Ok([x25519 |-> Bytes(KEY_LEN, x.of), mlkem |-> Bytes(MLKEM768_PUBLIC_LEN, m.of)])
           ELSE Err("InvalidInput")
<1>0. KEY_LEN \in Nat /\ MLKEM768_PUBLIC_LEN \in Nat BY DEF KEY_LEN, MLKEM768_PUBLIC_LEN
<1>1. CASE Fits(x, KEY_LEN)
  <2>1. b64_decode_array(x, KEY_LEN) = Ok(Bytes(KEY_LEN, x.of)) BY <1>0, <1>1, Arrays DEF Fits
  <2>2. UserPublicKeys_from_base64(x, m) =
          Then(b64_decode_array(m, MLKEM768_PUBLIC_LEN), LAMBDA k :
            Ok([x25519 |-> Bytes(KEY_LEN, x.of), mlkem |-> k]))
    BY <2>1 DEF UserPublicKeys_from_base64, Then, Ok
  <2>3. CASE Fits(m, MLKEM768_PUBLIC_LEN)
    <3>1. b64_decode_array(m, MLKEM768_PUBLIC_LEN) = Ok(Bytes(MLKEM768_PUBLIC_LEN, m.of))
      BY <1>0, <2>3, Arrays DEF Fits
    <3> QED BY <3>1, <2>2, <2>3, <1>1 DEF Then, Ok
  <2>4. CASE ~Fits(m, MLKEM768_PUBLIC_LEN)
    <3>1. b64_decode_array(m, MLKEM768_PUBLIC_LEN) = Err("InvalidInput")
      BY <1>0, <2>4, Arrays DEF Fits
    <3> QED BY <3>1, <2>2, <2>4 DEF Then, Err
  <2> QED BY <2>3, <2>4
<1>2. CASE ~Fits(x, KEY_LEN)
  <2>1. b64_decode_array(x, KEY_LEN) = Err("InvalidInput") BY <1>0, <1>2, Arrays DEF Fits
  <2> QED BY <2>1, <1>2 DEF UserPublicKeys_from_base64, Then, Err
<1> QED BY <1>1, <1>2

-----------------------------------------------------------------------------
(* What is written has the lengths the server wants. *)
LEMMA Chars ==
  ASSUME NEW o
  PROVE  /\ b64_encode(Bytes(32, o))   = [chars |-> 44,   pad |-> 1, of |-> o]
         /\ b64_encode(Bytes(72, o))   = [chars |-> 96,   pad |-> 0, of |-> o]
         /\ b64_encode(Bytes(1088, o)) = [chars |-> 1452, pad |-> 1, of |-> o]
         /\ b64_encode(Bytes(1184, o)) = [chars |-> 1580, pad |-> 1, of |-> o]
BY DEF b64_encode, Bytes

LEMMA EncodeType ==
  ASSUME NEW n \in Nat, NEW o \in Origins
  PROVE  b64_encode(Bytes(n, o)) \in TextCell /\ b64_encode(Bytes(n, o)).of = o
<1>1. 4 * ((n + 2) \div 3) \in Int /\ (3 - (n % 3)) % 3 \in Int OBVIOUS
<1> QED BY <1>1 DEF b64_encode, Bytes, TextCell

(* Every column as its writer makes it; of a blob with its version. *)
Written(c) ==
  CASE c = "argon2_salt"           -> b64_encode(Salt)
    [] c = "x25519_public_key"     -> b64_encode(X25519Public)
    [] c = "mlkem_public_key"      -> b64_encode(MlkemPublic)
    [] c = "encrypted_private_key" -> b64_encode(Sealed(c))
    [] c = "own_vault_key"         -> Sealed(c)

(* A share for the device, and one for somebody else. *)
Shares(c) == {b64_encode(Wrap(32)[c]), b64_encode(Bytes(Wrap(32)[c].len, Garbage))}

(* What may be stored in a column, and served for it. *)
Stores(c, cell, s) ==
  /\ cell \in Cell(c)
  /\ c \notin WrapColumns \cup {"blob"} => cell = Written(c)
  /\ c = "blob" => /\ s = <<s[1], s[2]>> /\ s[1] \in Seq(Byte) /\ s[2] \in U32
                   /\ cell = encrypt_vault(s[1], s[2])
  /\ c \in WrapColumns => cell \in Shares(c)

Serves(c, cell, st) ==
  /\ cell \in Cell(c)
  /\ cell.of.column = c =>
       \/ cell = st
       \/ c \in WrapColumns /\ \E n \in Foreign : cell = b64_encode(Wrap(n)[c])

(* The cells of the columns, stored and served. *)
CellInv ==
  /\ DOMAIN served = DOMAIN stored
  /\ \A c \in DOMAIN stored :
       /\ c \in Columns
       /\ Stores(c, stored[c], sealed)
       /\ Serves(c, served[c], stored[c])

LEMMA MadeType ==
  ASSUME NEW c \in Labels, NEW n \in Nat
  PROVE  Made(c, n, <<>>) \in Origins
<1>1. <<>> \in Seq(Byte) OBVIOUS
<1> QED BY <1>1 DEF Origins, Made

LEMMA OriginTypes ==
  /\ Garbage \in Origins /\ Degenerate \in Origins /\ NotBase64 \in Origins
  /\ \A c \in Columns : \A n \in Nat : Made(c, n, <<>>) \in Origins
<1>1. "none" \in Labels /\ "degenerate" \in Labels /\ "not base64" \in Labels
  BY DEF Labels
<1>2. Columns \subseteq Labels BY DEF Labels
<1> QED BY <1>1, <1>2, MadeType DEF Garbage, Degenerate, NotBase64

LEMMA AadType ==
  ASSUME NEW id \in Seq(Byte), NEW n \in U32
  PROVE  vault_aad(id, n) \in Seq(Byte)
<1>1. n \in Nat BY WordTypes DEF U32
<1>2. Len(id) \in Nat OBVIOUS
<1>3. PICK l, b, m \in Seq(Byte) : l = Be2(Len(id)) /\ b = Be4(n) /\ m = Magic
  BY Be2Type, Be4Type, BytesAssumption, <1>1, <1>2
<1>4. m \o l \in Seq(Byte) BY Cat
<1>5. (m \o l) \o id \in Seq(Byte) BY Cat, <1>4
<1>6. ((m \o l) \o id) \o b \in Seq(Byte) BY Cat, <1>5
<1> QED BY <1>3, <1>6 DEF vault_aad

LEMMA WrapParts ==
  ASSUME NEW n \in Nat
  PROVE  /\ Wrap(n)["encrypted_vault_key"] = Bytes(40 + n, Made("encrypted_vault_key", n, <<>>))
         /\ Wrap(n)["eph_pub_key"] = Bytes(32, Made("eph_pub_key", n, <<>>))
         /\ Wrap(n)["mlkem_ciphertext"] = Bytes(1088, Made("mlkem_ciphertext", n, <<>>))
         /\ DOMAIN Wrap(n) = WrapColumns
<1>1. 24 + n + 16 = 40 + n OBVIOUS
<1> QED BY <1>1 DEF Wrap, WrapColumns, XCHACHA_NONCE_LEN, TAG_LEN, KEY_LEN, MLKEM768_CIPHERTEXT_LEN


LEMMA OwnWrap ==
  /\ Wrap(32)["encrypted_vault_key"] = Bytes(72, Made("encrypted_vault_key", 32, <<>>))
  /\ Wrap(32)["eph_pub_key"] = Bytes(32, Made("eph_pub_key", 32, <<>>))
  /\ Wrap(32)["mlkem_ciphertext"] = Bytes(1088, Made("mlkem_ciphertext", 32, <<>>))
BY DEF Wrap, WrapColumns, XCHACHA_NONCE_LEN, TAG_LEN, KEY_LEN, MLKEM768_CIPHERTEXT_LEN

LEMMA WithType ==
  ASSUME NEW f, NEW cells
  PROVE  DOMAIN With(f, cells) = DOMAIN f \cup DOMAIN cells
BY DEF With

LEMMA WithNew ==
  ASSUME NEW f, NEW cells, NEW c \in DOMAIN cells
  PROVE  With(f, cells)[c] = cells[c]
BY DEF With

LEMMA WithOld ==
  ASSUME NEW f, NEW cells, NEW c \in DOMAIN f, c \notin DOMAIN cells
  PROVE  With(f, cells)[c] = f[c]
BY DEF With

LEMMA UploadStores ==
  ASSUME NEW op, NEW values,
         \A c \in DOMAIN values : server_validates(c, AsServed(c, values[c])),
         Upload(op, values)
  PROVE  \E cells :
           /\ cells = [c \in DOMAIN values |-> AsServed(c, values[c])]
           /\ stored' = With(stored, cells) /\ served' = With(served, cells)
           /\ last' = Call(op, <<>>, Ok(0))
BY DEF Upload

LEMMA UploadKeeps ==
  ASSUME CellInv, NEW cells, DOMAIN cells \subseteq Columns,
         \A c \in DOMAIN cells : Stores(c, cells[c], sealed'),
         "blob" \in DOMAIN cells \/ sealed' = sealed,
         stored' = With(stored, cells), served' = With(served, cells)
  PROVE  CellInv'
<1>0. PICK st, se : st = stored /\ se = served OBVIOUS
<1>a. stored' = With(st, cells) /\ served' = With(se, cells) BY <1>0
<1>1. /\ DOMAIN stored' = DOMAIN stored \cup DOMAIN cells
      /\ DOMAIN served' = DOMAIN stored'
  <2>1. DOMAIN With(st, cells) = DOMAIN st \cup DOMAIN cells BY WithType
  <2>2. DOMAIN With(se, cells) = DOMAIN se \cup DOMAIN cells BY WithType
  <2> QED BY <2>1, <2>2, <1>0, <1>a DEF CellInv
<1>2. ASSUME NEW c \in DOMAIN stored'
      PROVE  c \in Columns /\ Stores(c, stored'[c], sealed') /\ Serves(c, served'[c], stored'[c])
  <2>1. CASE c \in DOMAIN cells
    <3>0. With(st, cells)[c] = cells[c] /\ With(se, cells)[c] = cells[c] BY <2>1, WithNew
    <3>1. stored'[c] = cells[c] /\ served'[c] = cells[c] BY <3>0, <1>a
    <3>2. Serves(c, cells[c], cells[c]) BY <2>1 DEF Stores, Serves
    <3> QED BY <2>1, <3>1, <3>2
  <2>2. CASE c \notin DOMAIN cells
    <3>1. c \in DOMAIN stored /\ c \in DOMAIN served BY <1>1, <2>2 DEF CellInv
    <3>0. With(st, cells)[c] = st[c] /\ With(se, cells)[c] = se[c]
      BY <2>2, <3>1, <1>0, WithOld
    <3>2. stored'[c] = stored[c] /\ served'[c] = served[c] BY <3>0, <1>0, <1>a
    <3>3. c \in Columns /\ Stores(c, stored[c], sealed) /\ Serves(c, served[c], stored[c])
      BY <3>1 DEF CellInv
    <3>4. Stores(c, stored[c], sealed')
      <4>1. CASE sealed' = sealed BY <3>3, <4>1
      <4>2. CASE c # "blob" BY <3>3, <4>2 DEF Stores
      <4> QED BY <4>1, <4>2, <2>2
    <3> QED BY <3>2, <3>3, <3>4
  <2> QED BY <2>1, <2>2
<1> QED BY <1>1, <1>2 DEF CellInv

LEMMA AlterKeeps ==
  ASSUME CellInv, NEW cells, Alter(cells),
         \A c \in DOMAIN cells : c \in Columns /\ Serves(c, cells[c], stored[c])
  PROVE  CellInv'
<1>1. /\ stored' = stored /\ sealed' = sealed /\ served' = With(served, cells)
      /\ DOMAIN served = DOMAIN stored /\ DOMAIN cells \subseteq DOMAIN served
  BY DEF Alter, Complete, CellInv
<1>0. PICK se : se = served OBVIOUS
<1>a. served' = With(se, cells) BY <1>0, <1>1
<1>2. DOMAIN served' = DOMAIN stored
  <2>1. DOMAIN With(se, cells) = DOMAIN se \cup DOMAIN cells BY WithType
  <2> QED BY <2>1, <1>0, <1>1, <1>a
<1>3. ASSUME NEW c \in DOMAIN stored PROVE Serves(c, served'[c], stored[c])
  <2>1. CASE c \in DOMAIN cells
    <3>1. With(se, cells)[c] = cells[c] BY <2>1, WithNew
    <3> QED BY <2>1, <3>1, <1>a
  <2>2. CASE c \notin DOMAIN cells
    <3>0. With(se, cells)[c] = se[c] BY <1>0, <1>1, <2>2, WithOld
    <3>1. served'[c] = served[c] BY <3>0, <1>0, <1>a
    <3> QED BY <3>1 DEF CellInv
  <2> QED BY <2>1, <2>2
<1> QED BY <1>1, <1>2, <1>3 DEF CellInv

(* What each upload stores: right for the device, and taken by the server. *)
LEMMA ColumnSets ==
  /\ "argon2_salt" \in Columns /\ "x25519_public_key" \in Columns
  /\ "mlkem_public_key" \in Columns /\ "encrypted_private_key" \in Columns
  /\ "own_vault_key" \in Columns /\ "blob" \in Columns /\ WrapColumns \subseteq Columns
  /\ "encrypted_vault_key" \in WrapColumns /\ "eph_pub_key" \in WrapColumns
  /\ "mlkem_ciphertext" \in WrapColumns
BY DEF Columns, Texts, WrapColumns

LEMMA Uploads ==
  /\ Written("argon2_salt") = [chars |-> 44, pad |-> 1, of |-> Made("argon2_salt", 0, <<>>)]
  /\ Written("x25519_public_key")
       = [chars |-> 44, pad |-> 1, of |-> Made("x25519_public_key", 0, <<>>)]
  /\ Written("mlkem_public_key")
       = [chars |-> 1580, pad |-> 1, of |-> Made("mlkem_public_key", 0, <<>>)]
  /\ Written("encrypted_private_key")
       = [chars |-> 96, pad |-> 0, of |-> Made("encrypted_private_key", 32, <<>>)]
  /\ Written("own_vault_key") = [len |-> 72, of |-> Made("own_vault_key", 32, <<>>)]
<1>1. /\ Salt = Bytes(32, Made("argon2_salt", 0, <<>>))
      /\ X25519Public = Bytes(32, Made("x25519_public_key", 0, <<>>))
      /\ MlkemPublic = Bytes(1184, Made("mlkem_public_key", 0, <<>>))
      /\ \A c : Sealed(c) = Bytes(72, Made(c, 32, <<>>))
  BY DEF Salt, X25519Public, MlkemPublic, Sealed, KEY_LEN, MLKEM768_PUBLIC_LEN,
         XCHACHA_NONCE_LEN, TAG_LEN
<1>2. Written("argon2_salt") = b64_encode(Bytes(32, Made("argon2_salt", 0, <<>>)))
  BY <1>1 DEF Written
<1>3. Written("x25519_public_key") = b64_encode(Bytes(32, Made("x25519_public_key", 0, <<>>)))
  BY <1>1 DEF Written
<1>4. Written("mlkem_public_key") = b64_encode(Bytes(1184, Made("mlkem_public_key", 0, <<>>)))
  BY <1>1 DEF Written
<1>5. Written("encrypted_private_key")
        = b64_encode(Bytes(72, Made("encrypted_private_key", 32, <<>>)))
  BY <1>1 DEF Written
<1>6. Written("own_vault_key") = Bytes(72, Made("own_vault_key", 32, <<>>))
  BY <1>1 DEF Written
<1>7. Written("argon2_salt") = [chars |-> 44, pad |-> 1, of |-> Made("argon2_salt", 0, <<>>)]
  BY ONLY <1>2, Chars
<1>8. Written("x25519_public_key")
        = [chars |-> 44, pad |-> 1, of |-> Made("x25519_public_key", 0, <<>>)]
  BY ONLY <1>3, Chars
<1>9. Written("mlkem_public_key")
        = [chars |-> 1580, pad |-> 1, of |-> Made("mlkem_public_key", 0, <<>>)]
  BY ONLY <1>4, Chars
<1>10. Written("encrypted_private_key")
         = [chars |-> 96, pad |-> 0, of |-> Made("encrypted_private_key", 32, <<>>)]
  BY ONLY <1>5, Chars
<1> QED BY <1>6, <1>7, <1>8, <1>9, <1>10 DEF Bytes

LEMMA UploadTypes ==
  /\ \A c \in {"argon2_salt", "x25519_public_key", "mlkem_public_key",
               "encrypted_private_key"} :
       Written(c) \in TextCell /\ server_validates(c, Written(c))
  /\ Written("own_vault_key") \in RawCell
  /\ server_validates("own_vault_key", Written("own_vault_key"))
<1>1. /\ Made("argon2_salt", 0, <<>>) \in Origins
      /\ Made("x25519_public_key", 0, <<>>) \in Origins
      /\ Made("mlkem_public_key", 0, <<>>) \in Origins
      /\ Made("encrypted_private_key", 32, <<>>) \in Origins
      /\ Made("own_vault_key", 32, <<>>) \in Origins
  BY OriginTypes, ColumnSets
<1>2. Written("argon2_salt") \in TextCell /\ Written("argon2_salt").chars = 44
  BY <1>1, Uploads DEF TextCell
<1>3. Written("x25519_public_key") \in TextCell /\ Written("x25519_public_key").chars = 44
  BY <1>1, Uploads DEF TextCell
<1>4. Written("mlkem_public_key") \in TextCell /\ Written("mlkem_public_key").chars = 1580
  BY <1>1, Uploads DEF TextCell
<1>5. Written("encrypted_private_key") \in TextCell /\ Written("encrypted_private_key").chars = 96
  BY <1>1, Uploads DEF TextCell
<1>6. Written("own_vault_key") \in RawCell
  BY <1>1, Uploads DEF RawCell
<1> QED BY <1>2, <1>3, <1>4, <1>5, <1>6 DEF server_validates

(* A share has the length of its field, whoever can open it. *)
ShareChars(c) == IF c = "encrypted_vault_key" THEN 96
                 ELSE IF c = "eph_pub_key" THEN 44 ELSE 1452
SharePad(c)   == IF c = "encrypted_vault_key" THEN 0 ELSE 1
ShareLen(c) == IF c = "encrypted_vault_key" THEN 72
                 ELSE IF c = "eph_pub_key" THEN 32 ELSE 1088

LEMMA ShareShape ==
  ASSUME NEW c \in WrapColumns, NEW o
  PROVE  b64_encode(Bytes(Wrap(32)[c].len, o))
           = [chars |-> ShareChars(c), pad |-> SharePad(c), of |-> o]
<1>1. Wrap(32)[c].len = ShareLen(c)
  <2>2. CASE c = "encrypted_vault_key" BY <2>2, OwnWrap DEF ShareLen, Bytes
  <2>3. CASE c = "eph_pub_key" BY <2>3, OwnWrap DEF ShareLen, Bytes
  <2>4. CASE c = "mlkem_ciphertext" BY <2>4, OwnWrap DEF ShareLen, Bytes
  <2> QED BY <2>2, <2>3, <2>4 DEF WrapColumns
<1>2. CASE c = "encrypted_vault_key"
  <2>1. ShareLen(c) = 72 /\ ShareChars(c) = 96 /\ SharePad(c) = 0
    BY <1>2 DEF ShareLen, ShareChars, SharePad
  <2> QED BY ONLY <1>1, <2>1, Chars
<1>3. CASE c = "eph_pub_key"
  <2>1. ShareLen(c) = 32 /\ ShareChars(c) = 44 /\ SharePad(c) = 1
    BY <1>3 DEF ShareLen, ShareChars, SharePad
  <2> QED BY ONLY <1>1, <2>1, Chars
<1>4. CASE c = "mlkem_ciphertext"
  <2>1. ShareLen(c) = 1088 /\ ShareChars(c) = 1452 /\ SharePad(c) = 1
    BY <1>4 DEF ShareLen, ShareChars, SharePad
  <2> QED BY ONLY <1>1, <2>1, Chars
<1> QED BY <1>2, <1>3, <1>4 DEF WrapColumns

LEMMA OwnShare ==
  ASSUME NEW c \in WrapColumns
  PROVE  b64_encode(Wrap(32)[c])
           = [chars |-> ShareChars(c), pad |-> SharePad(c), of |-> Made(c, 32, <<>>)]
<1>1. Wrap(32)[c] = Bytes(Wrap(32)[c].len, Made(c, 32, <<>>))
  <2>2. CASE c = "encrypted_vault_key" BY <2>2, OwnWrap DEF Bytes
  <2>3. CASE c = "eph_pub_key" BY <2>3, OwnWrap DEF Bytes
  <2>4. CASE c = "mlkem_ciphertext" BY <2>4, OwnWrap DEF Bytes
  <2> QED BY <2>2, <2>3, <2>4 DEF WrapColumns
<1> QED BY ONLY <1>1, ShareShape, c \in WrapColumns

LEMMA ShareUploads ==
  ASSUME NEW c \in WrapColumns, NEW cell \in Shares(c)
  PROVE  /\ cell \in TextCell /\ server_validates(c, cell)
         /\ cell.chars = ShareChars(c) /\ cell.pad = SharePad(c)
         /\ cell.of = Garbage \/ cell.of = Made(c, 32, <<>>)
<1>1. c \in Columns /\ 32 \in Nat BY ColumnSets
<1>2. Made(c, 32, <<>>) \in Origins /\ Garbage \in Origins
  BY <1>1, OriginTypes
<1>3. PICK o \in Origins :
        /\ cell = [chars |-> ShareChars(c), pad |-> SharePad(c), of |-> o]
        /\ o = Garbage \/ o = Made(c, 32, <<>>)
  <2>1. CASE cell = b64_encode(Wrap(32)[c]) BY <2>1, <1>2, OwnShare
  <2>2. CASE cell = b64_encode(Bytes(Wrap(32)[c].len, Garbage)) BY <2>2, <1>2, ShareShape
  <2> QED BY <2>1, <2>2 DEF Shares
<1>4. ShareChars(c) \in Int /\ SharePad(c) \in Int
  BY DEF WrapColumns, ShareChars, SharePad
<1>5. cell \in TextCell BY <1>3, <1>4 DEF TextCell
<1>6. server_validates(c, cell)
  <2>1. cell.chars = ShareChars(c) BY <1>3
  <2> QED BY <2>1 DEF server_validates, ShareChars, WrapColumns
<1> QED BY <1>3, <1>5, <1>6


-----------------------------------------------------------------------------
(* Nothing is read before the account is there. *)
Account == {"argon2_salt", "x25519_public_key", "mlkem_public_key", "encrypted_private_key"}

Registered == (mk # NoKey \/ kp \/ vk \/ stored # <<>>) => Account \subseteq DOMAIN stored

WireInv == CellInv /\ Registered

(* What is stored is the encoding of some bytes of its own column, or of   *)
(* a share for somebody else.                                              *)
LEMMA StoredParts ==
  ASSUME CellInv, NEW d \in DOMAIN stored
  PROVE  \E n \in Nat, o \in Origins :
           /\ stored[d] = AsServed(d, Bytes(n, o))
           /\ o.column \in {d, "none"} /\ o # NotBase64
<1>0. d \in Columns /\ Stores(d, stored[d], sealed) BY DEF CellInv
<1>1. \A n \in Nat : Made(d, n, <<>>) \in Origins BY <1>0, OriginTypes
<1>2. \A n, a : Made(d, n, a).column = d /\ Made(d, n, a) # NotBase64
  <2>1. d # "not base64" BY <1>0 DEF Columns, Texts, WrapColumns
  <2> QED BY <2>1 DEF Made, NotBase64
<1>3. /\ 0 \in Nat /\ 32 \in Nat /\ 72 \in Nat /\ 60 \in Nat /\ 1088 \in Nat /\ 1184 \in Nat
  OBVIOUS
<1>4. CASE d = "argon2_salt"
  <2>1. stored[d] = b64_encode(Salt) BY <1>0, <1>4 DEF Stores, Written, WrapColumns
  <2>2. stored[d] = AsServed(d, Bytes(32, Made(d, 0, <<>>)))
    BY <2>1, <1>4 DEF AsServed, Texts, Salt, KEY_LEN
  <2> QED BY <2>2, <1>1, <1>2, <1>3
<1>5. CASE d = "x25519_public_key"
  <2>1. stored[d] = b64_encode(X25519Public) BY <1>0, <1>5 DEF Stores, Written, WrapColumns
  <2>2. stored[d] = AsServed(d, Bytes(32, Made(d, 0, <<>>)))
    BY <2>1, <1>5 DEF AsServed, Texts, X25519Public, KEY_LEN
  <2> QED BY <2>2, <1>1, <1>2, <1>3
<1>6. CASE d = "mlkem_public_key"
  <2>1. stored[d] = b64_encode(MlkemPublic) BY <1>0, <1>6 DEF Stores, Written, WrapColumns
  <2>2. stored[d] = AsServed(d, Bytes(1184, Made(d, 0, <<>>)))
    BY <2>1, <1>6 DEF AsServed, Texts, MlkemPublic, MLKEM768_PUBLIC_LEN
  <2> QED BY <2>2, <1>1, <1>2, <1>3
<1>7. CASE d = "encrypted_private_key"
  <2>1. stored[d] = b64_encode(Sealed(d)) BY <1>0, <1>7 DEF Stores, Written, WrapColumns
  <2>2. Sealed(d) = Bytes(72, Made(d, 32, <<>>))
    BY DEF Sealed, XCHACHA_NONCE_LEN, KEY_LEN, TAG_LEN
  <2>3. stored[d] = AsServed(d, Bytes(72, Made(d, 32, <<>>)))
    BY <2>1, <2>2, <1>7 DEF AsServed, Texts
  <2> QED BY <2>3, <1>1, <1>2, <1>3
<1>8. CASE d = "own_vault_key"
  <2>1. stored[d] = Sealed(d) BY <1>0, <1>8 DEF Stores, Written, WrapColumns
  <2>2. Sealed(d) = Bytes(72, Made(d, 32, <<>>))
    BY DEF Sealed, XCHACHA_NONCE_LEN, KEY_LEN, TAG_LEN
  <2>3. stored[d] = AsServed(d, Bytes(72, Made(d, 32, <<>>)))
    BY <2>1, <2>2, <1>8 DEF AsServed, Texts, WrapColumns
  <2> QED BY <2>3, <1>1, <1>2, <1>3
<1>9. CASE d = "blob"
  <2>1. PICK id \in Seq(Byte), v \in U32 : stored[d] = encrypt_vault(id, v)
    BY <1>0, <1>9 DEF Stores
  <2>2. vault_aad(id, v) \in Seq(Byte) BY AadType
  <2>3. d \in Labels BY <1>0 DEF Labels
  <2>4. Made(d, 32, vault_aad(id, v)) \in Origins BY <2>2, <2>3, <1>3 DEF Origins, Made
  <2>5. stored[d] = AsServed(d, Bytes(60, Made(d, 32, vault_aad(id, v))))
    BY <2>1, <1>9 DEF encrypt_vault, AsServed, Texts, WrapColumns, NONCE_LEN, KEY_LEN, TAG_LEN
  <2> QED BY <2>4, <2>5, <1>2, <1>3
<1>10. CASE d \in WrapColumns
  <2>1. stored[d] \in Shares(d) BY <1>0, <1>10 DEF Stores
  <2>2. d \in Texts BY <1>10 DEF Texts
  <2>3. PICK n \in Nat : Wrap(32)[d] = Bytes(n, Made(d, 32, <<>>))
    BY <1>3, <1>10, OwnWrap DEF WrapColumns
  <2>4. Wrap(32)[d].len = n BY <2>3 DEF Bytes
  <2>5. CASE stored[d] = b64_encode(Wrap(32)[d])
    <3>1. stored[d] = AsServed(d, Bytes(n, Made(d, 32, <<>>)))
      BY <2>2, <2>3, <2>5 DEF AsServed
    <3> QED BY <3>1, <1>1, <1>2, <1>3
  <2>6. CASE stored[d] = b64_encode(Bytes(Wrap(32)[d].len, Garbage))
    <3>1. stored[d] = AsServed(d, Bytes(n, Garbage)) BY <2>2, <2>4, <2>6 DEF AsServed
    <3>2. Garbage \in Origins /\ Garbage.column = "none" /\ Garbage # NotBase64
      BY OriginTypes DEF Garbage, NotBase64, Made
    <3> QED BY <3>1, <3>2
  <2> QED BY <2>1, <2>5, <2>6 DEF Shares
<1> QED BY <1>0, <1>4, <1>5, <1>6, <1>7, <1>8, <1>9, <1>10 DEF Columns, Texts

LEMMA ServedType ==
  ASSUME NEW c, NEW n \in Nat, NEW o \in Origins
  PROVE  AsServed(c, Bytes(n, o)) \in Cell(c) /\ AsServed(c, Bytes(n, o)).of = o
<1>1. CASE c \in Texts BY <1>1, EncodeType DEF AsServed, Cell
<1>2. CASE c \notin Texts BY <1>2 DEF AsServed, Cell, Bytes, RawCell
<1> QED BY <1>1, <1>2

-----------------------------------------------------------------------------
(* The uploads. *)
LEMMA RegisterKeeps ==
  ASSUME WireInv, Register
  PROVE  WireInv' /\ last' = Call("register", <<>>, Ok(0))
<1> DEFINE values == [c \in Account |->
         CASE c = "argon2_salt"           -> Salt
           [] c = "x25519_public_key"     -> X25519Public
           [] c = "mlkem_public_key"      -> MlkemPublic
           [] c = "encrypted_private_key" -> Sealed(c)]
<1>1. Upload("register", values) /\ sealed' = sealed BY DEF Register, Account
<1>2. ASSUME NEW c \in Account PROVE AsServed(c, values[c]) = Written(c)
  <2>1. CASE c = "argon2_salt"
    BY <2>1 DEF Account, AsServed, Texts, Written
  <2>2. CASE c = "x25519_public_key"
    BY <2>2 DEF Account, AsServed, Texts, Written
  <2>3. CASE c = "mlkem_public_key"
    BY <2>3 DEF Account, AsServed, Texts, Written
  <2>4. CASE c = "encrypted_private_key"
    BY <2>4 DEF Account, AsServed, Texts, Written
  <2> QED BY <2>1, <2>2, <2>3, <2>4 DEF Account
<1>3. DOMAIN values = Account OBVIOUS
<1> HIDE DEF values
<1>4. \A c \in Account : Written(c) \in TextCell /\ server_validates(c, Written(c))
  BY UploadTypes DEF Account
<1>5. \A c \in DOMAIN values : server_validates(c, AsServed(c, values[c]))
  BY <1>2, <1>3, <1>4
<1>6. PICK cells :
        /\ cells = [c \in DOMAIN values |-> AsServed(c, values[c])]
        /\ stored' = With(stored, cells) /\ served' = With(served, cells)
        /\ last' = Call("register", <<>>, Ok(0))
  BY <1>1, <1>5, UploadStores
<1>7. DOMAIN cells = Account /\ \A c \in Account : cells[c] = Written(c)
  BY <1>2, <1>3, <1>6
<1>8. Account \subseteq Columns /\ "blob" \notin Account /\ Account \cap WrapColumns = {}
      /\ Account \subseteq Texts
  BY DEF Account, Columns, Texts, WrapColumns
<1>9. \A c \in Account : Stores(c, cells[c], sealed')
  BY <1>4, <1>7, <1>8 DEF Stores, Cell
<1>10. CellInv
  BY DEF WireInv
<1>11. CellInv'
  BY <1>1, <1>6, <1>7, <1>8, <1>9, <1>10, UploadKeeps
<1>12. Account \subseteq DOMAIN stored'
  <2>1. PICK st : st = stored OBVIOUS
  <2>2. DOMAIN With(st, cells) = DOMAIN st \cup DOMAIN cells BY WithType
  <2> QED BY <2>1, <2>2, <1>6, <1>7
<1> QED BY <1>6, <1>11, <1>12 DEF WireInv, Registered

(* An upload into an account leaves it registered. *)
LEMMA StaysRegistered ==
  ASSUME Registered, mk # NoKey \/ kp \/ vk \/ stored # <<>>, NEW cells,
         stored' = With(stored, cells)
  PROVE  Registered'
<1>1. PICK st : st = stored OBVIOUS
<1>2. DOMAIN With(st, cells) = DOMAIN st \cup DOMAIN cells BY WithType
<1> QED BY <1>1, <1>2 DEF Registered

LEMMA CreateKeeps ==
  ASSUME WireInv, CreateVault
  PROVE  WireInv' /\ last' = Call("create", <<>>, Ok(0))
<1> DEFINE values == [c \in {"own_vault_key"} |-> Sealed(c)]
<1>1. Upload("create", values) /\ sealed' = sealed /\ mk = Salt BY DEF CreateVault
<1>2. /\ DOMAIN values = {"own_vault_key"}
      /\ AsServed("own_vault_key", values["own_vault_key"]) = Written("own_vault_key")
  BY DEF AsServed, Texts, WrapColumns, Written
<1> HIDE DEF values
<1>3. \A c \in DOMAIN values : server_validates(c, AsServed(c, values[c]))
  BY <1>2, UploadTypes
<1>4. PICK cells :
        /\ cells = [c \in DOMAIN values |-> AsServed(c, values[c])]
        /\ stored' = With(stored, cells) /\ served' = With(served, cells)
        /\ last' = Call("create", <<>>, Ok(0))
  BY <1>1, <1>3, UploadStores
<1>5. DOMAIN cells = {"own_vault_key"} /\ cells["own_vault_key"] = Written("own_vault_key")
  BY <1>2, <1>4
<1>6. Cell("own_vault_key") = RawCell BY DEF Cell, Texts, WrapColumns
<1>7. Stores("own_vault_key", Written("own_vault_key"), sealed')
  BY <1>6, UploadTypes DEF Stores, WrapColumns
<1>8. CellInv BY DEF WireInv
<1>9. CellInv' BY <1>1, <1>4, <1>5, <1>7, <1>8, ColumnSets, UploadKeeps
<1>10. mk # NoKey BY <1>1 DEF Salt, NoKey, Bytes, KEY_LEN
<1>11. Registered' BY <1>4, <1>10, StaysRegistered DEF WireInv
<1> QED BY <1>4, <1>9, <1>11 DEF WireInv

LEMMA PushKeeps ==
  ASSUME WireInv, NEW id \in Ids, NEW v \in Versions, Push(id, v)
  PROVE  WireInv' /\ last' = Call("push", <<>>, Ok(0))
<1>0. id \in Seq(Byte) /\ v \in U32 BY WireAssumption
<1> DEFINE values == [c \in {"blob"} |-> encrypt_vault(id, v)]
<1>1. Upload("push", values) /\ sealed' = <<id, v>> /\ vk BY DEF Push
<1>2. DOMAIN values = {"blob"} /\ AsServed("blob", values["blob"]) = encrypt_vault(id, v)
  BY DEF AsServed, Texts, WrapColumns
<1> HIDE DEF values
<1>3. \A c \in DOMAIN values : server_validates(c, AsServed(c, values[c]))
  BY <1>2 DEF server_validates
<1>4. PICK cells :
        /\ cells = [c \in DOMAIN values |-> AsServed(c, values[c])]
        /\ stored' = With(stored, cells) /\ served' = With(served, cells)
        /\ last' = Call("push", <<>>, Ok(0))
  BY <1>1, <1>3, UploadStores
<1>5. DOMAIN cells = {"blob"} /\ cells["blob"] = encrypt_vault(id, v) BY <1>2, <1>4
<1>6. encrypt_vault(id, v) \in RawCell
  <2>1. vault_aad(id, v) \in Seq(Byte) BY <1>0, AadType
  <2>2. "blob" \in Labels BY ColumnSets DEF Labels
  <2>3. Made("blob", 32, vault_aad(id, v)) \in Origins BY <2>1, <2>2 DEF Origins, Made
  <2>4. encrypt_vault(id, v) = Bytes(60, Made("blob", 32, vault_aad(id, v)))
    BY DEF encrypt_vault, NONCE_LEN, KEY_LEN, TAG_LEN
  <2> QED BY <2>3, <2>4 DEF RawCell, Bytes
<1>7. Cell("blob") = RawCell BY DEF Cell, Texts, WrapColumns
<1>8. sealed' = <<sealed'[1], sealed'[2]>> /\ sealed'[1] = id /\ sealed'[2] = v BY <1>1
<1>9. Stores("blob", cells["blob"], sealed')
  BY <1>0, <1>5, <1>6, <1>7, <1>8 DEF Stores, WrapColumns
<1>10. CellInv BY DEF WireInv
<1>11. CellInv' BY <1>4, <1>5, <1>9, <1>10, ColumnSets, UploadKeeps
<1>12. Registered' BY <1>1, <1>4, StaysRegistered DEF WireInv
<1> QED BY <1>4, <1>11, <1>12 DEF WireInv


(* What is wrapped for the keys the directory serves. *)
LEMMA WrapCells ==
  ASSUME NEW keys, NEW w, wrap_vault_key_for_user(keys) = Ok(w)
  PROVE  DOMAIN w = WrapColumns /\ \A c \in WrapColumns : AsServed(c, w[c]) \in Shares(c)
<1>1. KEY_LEN = 32 BY DEF KEY_LEN
<1>2. DOMAIN Wrap(32) = WrapColumns BY DEF Wrap
<1>3. w = Wrap(32) \/ w = [c \in WrapColumns |-> Bytes(Wrap(32)[c].len, Garbage)]
  BY <1>1 DEF wrap_vault_key_for_user, Ok, Err
<1>4. \A c \in WrapColumns : c \in Texts BY DEF Texts
<1> QED BY <1>2, <1>3, <1>4 DEF AsServed, Shares

LEMMA WrapResults ==
  ASSUME NEW keys
  PROVE  \/ wrap_vault_key_for_user(keys) = Err("InvalidPublicKey")
         \/ \E w : wrap_vault_key_for_user(keys) = Ok(w)
BY DEF wrap_vault_key_for_user

ShareRead(x, m) ==
  Then(UserPublicKeys_from_base64(x, m), LAMBDA k : wrap_vault_key_for_user(k))

LEMMA ShareReads ==
  ASSUME NEW x \in TextCell, NEW m \in TextCell
  PROVE  \/ /\ ShareRead(x, m) = Err("InvalidInput")
            /\ ~(Fits(x, KEY_LEN) /\ Fits(m, MLKEM768_PUBLIC_LEN))
         \/ ShareRead(x, m) = Err("InvalidPublicKey")
         \/ \E w : /\ ShareRead(x, m) = Ok(w)
                   /\ DOMAIN w = WrapColumns
                   /\ \A c \in WrapColumns : AsServed(c, w[c]) \in Shares(c)
<1>1. CASE ~(Fits(x, KEY_LEN) /\ Fits(m, MLKEM768_PUBLIC_LEN))
  <2>1. UserPublicKeys_from_base64(x, m) = Err("InvalidInput") BY <1>1, KeysRead
  <2> QED BY <2>1, <1>1 DEF ShareRead, Then, Err
<1>2. CASE Fits(x, KEY_LEN) /\ Fits(m, MLKEM768_PUBLIC_LEN)
  <2>1. PICK k : UserPublicKeys_from_base64(x, m) = Ok(k) BY <1>2, KeysRead
  <2>2. ShareRead(x, m) = wrap_vault_key_for_user(k) BY <2>1 DEF ShareRead, Then, Ok
  <2> QED BY <2>2, WrapResults, WrapCells
<1> QED BY <1>1, <1>2

LEMMA ShareKeeps ==
  ASSUME WireInv, Share
  PROVE  /\ WireInv'
         /\ \/ last' = Call("share", <<>>, Ok(0))
            \/ last' = Call("share", <<>>, Err("InvalidPublicKey"))
            \/ /\ last' = Call("share", <<>>, Err("InvalidInput"))
               /\ stored' = stored /\ served' = served
               /\ ~(/\ Fits(served["x25519_public_key"], KEY_LEN)
                    /\ Fits(served["mlkem_public_key"], MLKEM768_PUBLIC_LEN))
<1>1. stored # <<>> /\ "blob" \in DOMAIN stored
  <2>1. "blob" \in DOMAIN stored BY DEF Share
  <2>2. DOMAIN <<>> = {} OBVIOUS
  <2> QED BY <2>1, <2>2
<1>2. "x25519_public_key" \in DOMAIN stored /\ "mlkem_public_key" \in DOMAIN stored
  BY <1>1 DEF WireInv, Registered, Account
<1>3. served["x25519_public_key"] \in TextCell /\ served["mlkem_public_key"] \in TextCell
  BY <1>2 DEF WireInv, CellInv, Serves, Cell, Texts
<1>4. PICK wrap : wrap = ShareRead(served["x25519_public_key"], served["mlkem_public_key"])
  OBVIOUS
<1>5. /\ IF wrap.ok THEN Upload("share", wrap.val)
         ELSE last' = Call("share", <<>>, wrap) /\ stored' = stored /\ served' = served
      /\ sealed' = sealed /\ mk' = mk /\ kp' = kp /\ vk' = vk
  BY <1>4 DEF Share, ShareRead
<1>6. CASE wrap.ok
  <2>1. PICK w : /\ wrap = Ok(w) /\ DOMAIN w = WrapColumns
                 /\ \A c \in WrapColumns : AsServed(c, w[c]) \in Shares(c)
    BY <1>3, <1>4, <1>6, ShareReads DEF Err
  <2>2. Upload("share", w) BY <1>5, <1>6, <2>1 DEF Ok
  <2>3. \A c \in WrapColumns : AsServed(c, w[c]) \in TextCell
                               /\ server_validates(c, AsServed(c, w[c]))
    BY <2>1, ShareUploads
  <2>4. PICK cells :
          /\ cells = [c \in DOMAIN w |-> AsServed(c, w[c])]
          /\ stored' = With(stored, cells) /\ served' = With(served, cells)
          /\ last' = Call("share", <<>>, Ok(0))
    BY <2>1, <2>2, <2>3, UploadStores
  <2>5. DOMAIN cells = WrapColumns /\ \A c \in WrapColumns : cells[c] = AsServed(c, w[c])
    BY <2>1, <2>4
  <2>6. \A c \in WrapColumns : c \in Texts /\ c # "blob" BY DEF Texts, WrapColumns
  <2>7. \A c \in DOMAIN cells : Stores(c, cells[c], sealed')
    BY <2>1, <2>3, <2>5, <2>6 DEF Stores, Cell
  <2>8. CellInv BY DEF WireInv
  <2>9. CellInv' BY <1>5, <2>4, <2>5, <2>7, <2>8, ColumnSets, UploadKeeps
  <2>10. Registered' BY <1>1, <2>4, StaysRegistered DEF WireInv
  <2> QED BY <2>4, <2>9, <2>10 DEF WireInv
<1>7. CASE ~wrap.ok
  <2>1. WireInv' BY <1>5, <1>7 DEF WireInv, CellInv, Registered
  <2>2. last' = Call("share", <<>>, wrap) /\ stored' = stored /\ served' = served
    BY <1>5, <1>7
  <2>3. \/ /\ wrap = Err("InvalidInput")
           /\ ~(/\ Fits(served["x25519_public_key"], KEY_LEN)
                /\ Fits(served["mlkem_public_key"], MLKEM768_PUBLIC_LEN))
        \/ wrap = Err("InvalidPublicKey")
    BY <1>3, <1>4, <1>7, ShareReads DEF Ok
  <2> QED BY <2>1, <2>2, <2>3
<1> QED BY <1>6, <1>7

-----------------------------------------------------------------------------
(* What may be served instead. *)
LEMMA AlterInv ==
  ASSUME WireInv, NEW cells, Alter(cells),
         \A c \in DOMAIN cells : c \in Columns /\ Serves(c, cells[c], stored[c])
  PROVE  WireInv' /\ last' = Start
<1>1. CellInv' BY AlterKeeps DEF WireInv
<1>2. Registered' BY DEF WireInv, Registered, Alter
<1> QED BY <1>1, <1>2 DEF WireInv, Alter

(* A cell of no column's origin may be served anywhere. *)
LEMMA Nameless ==
  ASSUME NEW c \in Columns, NEW cell \in Cell(c), NEW st,
         cell.of \in {Garbage, Degenerate, NotBase64}
  PROVE  Serves(c, cell, st)
<1>1. c # "none" /\ c # "degenerate" /\ c # "not base64" BY DEF Columns, Texts, WrapColumns
<1>2. /\ Garbage.column = "none" /\ Degenerate.column = "degenerate"
      /\ NotBase64.column = "not base64"
  BY DEF Garbage, Degenerate, NotBase64, Made
<1>3. cell.of.column # c BY <1>1, <1>2
<1> QED BY <1>3 DEF Serves

LEMMA OneCell ==
  ASSUME WireInv, NEW c \in Columns, NEW cell, Serves(c, cell, stored[c]),
         Alter([x \in {c} |-> cell])
  PROVE  WireInv' /\ last' = Start
<1> DEFINE cells == [x \in {c} |-> cell]
<1>1. DOMAIN cells = {c} /\ cells[c] = cell OBVIOUS
<1>2. Alter(cells) OBVIOUS
<1> HIDE DEF cells
<1> QED BY <1>1, <1>2, AlterInv

LEMMA CutKeeps ==
  ASSUME WireInv, NEW c \in Columns, Cut(c)
  PROVE  WireInv' /\ last' = Start
<1>1. PICK n \in Cuts : Alter([x \in {c} |-> [chars |-> n, pad |-> 0, of |-> Garbage]])
  BY DEF Cut
<1>2. n \in Int /\ 0 \in Int /\ c \in Texts BY WireAssumption DEF Cut
<1>3. PICK cell : cell = [chars |-> n, pad |-> 0, of |-> Garbage] OBVIOUS
<1>4. cell \in Cell(c) /\ cell.of = Garbage BY <1>2, <1>3, OriginTypes DEF Cell, TextCell
<1>5. Serves(c, cell, stored[c]) BY <1>4, Nameless
<1> QED BY <1>1, <1>3, <1>5, OneCell

LEMMA ReplaceKeeps ==
  ASSUME WireInv, NEW c \in Columns, Replace(c)
  PROVE  WireInv' /\ last' = Start
<1>1. PICK n \in Lengths, o \in {Garbage, Degenerate} :
        Alter([x \in {c} |-> AsServed(c, Bytes(n, o))])
  BY DEF Replace
<1>2. n \in Nat /\ o \in Origins BY <1>1, WireAssumption, OriginTypes
<1>3. PICK cell : cell = AsServed(c, Bytes(n, o)) OBVIOUS
<1>4. cell \in Cell(c) /\ cell.of = o BY <1>2, <1>3, ServedType
<1>5. Serves(c, cell, stored[c]) BY <1>1, <1>4, Nameless
<1> QED BY <1>1, <1>3, <1>5, OneCell

LEMMA ScrambleKeeps ==
  ASSUME WireInv, NEW c \in Columns, Scramble(c)
  PROVE  WireInv' /\ last' = Start
<1>1. /\ Alter([x \in {c} |-> [served[c] EXCEPT !.of = NotBase64]]) /\ c \in Texts
      /\ c \in DOMAIN served
  BY DEF Scramble, Complete
<1>2. served[c] \in TextCell BY <1>1 DEF WireInv, CellInv, Serves, Cell
<1>3. PICK cell : cell = [served[c] EXCEPT !.of = NotBase64] OBVIOUS
<1>4. cell \in Cell(c) /\ cell.of = NotBase64
  BY <1>1, <1>2, <1>3, OriginTypes DEF Cell, TextCell
<1>5. Serves(c, cell, stored[c]) BY <1>4, Nameless
<1> QED BY <1>1, <1>3, <1>5, OneCell

LEMMA SwapKeeps ==
  ASSUME WireInv, NEW c \in Columns, NEW d \in Columns, Swap(c, d)
  PROVE  WireInv' /\ last' = Start
<1> DEFINE b == IF d \in Texts THEN b64_decode(stored[d]).val ELSE stored[d]
<1>1. c # d /\ d \in DOMAIN stored /\ Alter([x \in {c} |-> AsServed(c, b)])
  BY DEF Swap, Complete, WireInv, CellInv
<1>2. PICK n \in Nat, o \in Origins :
        stored[d] = AsServed(d, Bytes(n, o)) /\ o.column \in {d, "none"} /\ o # NotBase64
  BY <1>1, StoredParts DEF WireInv
<1>3. b = Bytes(n, o)
  <2>1. CASE d \in Texts
    <3>1. stored[d] = b64_encode(Bytes(n, o)) BY <1>2, <2>1 DEF AsServed
    <3>2. b64_decode(stored[d]) = Ok(Bytes(n, o)) BY <1>2, <3>1, RoundTrip
    <3> QED BY <2>1, <3>2 DEF Ok
  <2>2. CASE d \notin Texts BY <1>2, <2>2 DEF AsServed
  <2> QED BY <2>1, <2>2
<1> HIDE DEF b
<1>4. PICK cell : cell = AsServed(c, Bytes(n, o)) OBVIOUS
<1>5. cell \in Cell(c) /\ cell.of = o BY <1>4, ServedType
<1>6. c # "none" BY DEF Columns, Texts, WrapColumns
<1>7. Serves(c, cell, stored[c]) BY <1>1, <1>2, <1>5, <1>6 DEF Serves
<1> QED BY <1>1, <1>3, <1>4, <1>7, OneCell

LEMMA ForgeKeeps ==
  ASSUME WireInv, Forge
  PROVE  WireInv' /\ last' = Start
<1>1. PICK n \in Foreign : Alter([c \in WrapColumns |-> b64_encode(Wrap(n)[c])]) BY DEF Forge
<1>2. PICK cells : cells = [c \in WrapColumns |-> b64_encode(Wrap(n)[c])] OBVIOUS
<1>3. DOMAIN cells = WrapColumns /\ \A c \in WrapColumns : cells[c] = b64_encode(Wrap(n)[c])
  BY <1>2
<1>4. n \in Nat BY WireAssumption
<1>5. \A c \in WrapColumns : c \in Texts BY DEF Texts
<1>6. ASSUME NEW c \in WrapColumns PROVE Serves(c, cells[c], stored[c])
  <2>1. PICK k \in Nat : Wrap(n)[c] = Bytes(k, Made(c, n, <<>>))
    <3>1. 40 + n \in Nat /\ 32 \in Nat /\ 1088 \in Nat BY <1>4
    <3>2. CASE c = "encrypted_vault_key" BY <1>4, <3>1, <3>2, WrapParts
    <3>3. CASE c = "eph_pub_key" BY <1>4, <3>1, <3>3, WrapParts
    <3>4. CASE c = "mlkem_ciphertext" BY <1>4, <3>1, <3>4, WrapParts
    <3> QED BY <3>2, <3>3, <3>4 DEF WrapColumns
  <2>2. Made(c, n, <<>>) \in Origins BY <1>4, ColumnSets, OriginTypes
  <2>3. cells[c] \in TextCell BY <1>3, <2>1, <2>2, EncodeType
  <2> QED BY <1>3, <1>5, <2>3 DEF Serves, Cell
<1> QED BY <1>1, <1>2, <1>3, <1>6, ColumnSets, AlterInv


-----------------------------------------------------------------------------
(* What a reading call makes of cells as they were written. *)
FieldLen(c) == IF c = "mlkem_public_key" THEN MLKEM768_PUBLIC_LEN
               ELSE IF c = "mlkem_ciphertext" THEN MLKEM768_CIPHERTEXT_LEN
               ELSE IF c \in {"encrypted_private_key", "encrypted_vault_key", "own_vault_key"}
                    THEN 72 ELSE KEY_LEN

LEMMA Sizes ==
  ASSUME NEW t, t.of # NotBase64
  PROVE  /\ t.chars = 44 /\ t.pad = 1 => Fits(t, 32)
         /\ t.chars = 96 /\ t.pad = 0 => Fits(t, 72)
         /\ t.chars = 1452 /\ t.pad = 1 => Fits(t, 1088)
         /\ t.chars = 1580 /\ t.pad = 1 => Fits(t, 1184)
BY DEF Fits, Decodes, Size

LEMMA StoredText ==
  ASSUME CellInv, NEW c \in Texts \cap DOMAIN stored, NEW t, t.of # NotBase64,
         t.chars = stored[c].chars, t.pad = stored[c].pad
  PROVE  Fits(t, FieldLen(c))
<1>0. Stores(c, stored[c], sealed) BY DEF CellInv
<1>1. CASE c = "argon2_salt"
  <2>1. stored[c].chars = 44 /\ stored[c].pad = 1 BY <1>0, <1>1, Uploads DEF Stores, WrapColumns
  <2>2. FieldLen(c) = 32 BY <1>1 DEF FieldLen, KEY_LEN
  <2> QED BY ONLY <2>1, <2>2, Sizes, t.of # NotBase64, t.chars = stored[c].chars, t.pad = stored[c].pad
<1>2. CASE c = "x25519_public_key"
  <2>1. stored[c].chars = 44 /\ stored[c].pad = 1 BY <1>0, <1>2, Uploads DEF Stores, WrapColumns
  <2>2. FieldLen(c) = 32 BY <1>2 DEF FieldLen, KEY_LEN
  <2> QED BY ONLY <2>1, <2>2, Sizes, t.of # NotBase64, t.chars = stored[c].chars, t.pad = stored[c].pad
<1>3. CASE c = "mlkem_public_key"
  <2>1. stored[c].chars = 1580 /\ stored[c].pad = 1
    BY <1>0, <1>3, Uploads DEF Stores, WrapColumns
  <2>2. FieldLen(c) = 1184 BY <1>3 DEF FieldLen, MLKEM768_PUBLIC_LEN
  <2> QED BY ONLY <2>1, <2>2, Sizes, t.of # NotBase64, t.chars = stored[c].chars, t.pad = stored[c].pad
<1>4. CASE c = "encrypted_private_key"
  <2>1. stored[c].chars = 96 /\ stored[c].pad = 0 BY <1>0, <1>4, Uploads DEF Stores, WrapColumns
  <2>2. FieldLen(c) = 72 BY <1>4 DEF FieldLen
  <2> QED BY ONLY <2>1, <2>2, Sizes, t.of # NotBase64, t.chars = stored[c].chars, t.pad = stored[c].pad
<1>5. CASE c \in WrapColumns
  <2>0. stored[c] \in Shares(c) BY <1>0, <1>5 DEF Stores
  <2>1. stored[c].chars = ShareChars(c) /\ stored[c].pad = SharePad(c)
    BY <1>5, <2>0, ShareUploads
  <2>2. CASE c = "encrypted_vault_key"
    <3>1. FieldLen(c) = 72 /\ t.chars = 96 /\ t.pad = 0
      BY <2>1, <2>2 DEF FieldLen, ShareChars, SharePad
    <3> QED BY ONLY <3>1, Sizes, t.of # NotBase64
  <2>3. CASE c = "eph_pub_key"
    <3>1. FieldLen(c) = 32 /\ t.chars = 44 /\ t.pad = 1
      BY <2>1, <2>3 DEF FieldLen, ShareChars, SharePad, KEY_LEN
    <3> QED BY ONLY <3>1, Sizes, t.of # NotBase64
  <2>4. CASE c = "mlkem_ciphertext"
    <3>1. FieldLen(c) = 1088 /\ t.chars = 1452 /\ t.pad = 1
      BY <2>1, <2>4 DEF FieldLen, ShareChars, SharePad, MLKEM768_CIPHERTEXT_LEN
    <3> QED BY ONLY <3>1, Sizes, t.of # NotBase64
  <2> QED BY <1>5, <2>2, <2>3, <2>4 DEF WrapColumns
<1> QED BY <1>1, <1>2, <1>3, <1>4, <1>5 DEF Texts

LEMMA WellFormedFits ==
  ASSUME CellInv, NEW c \in Texts \cap DOMAIN stored, WellFormed(c)
  PROVE  Fits(served[c], FieldLen(c))
<1>1. served[c] \in TextCell /\ stored[c] \in TextCell
  BY DEF CellInv, Serves, Stores, Cell
<1>2. Shape(served[c]) = Shape(stored[c]) /\ served[c].of # NotBase64 BY DEF WellFormed
<1>3. \A t \in TextCell : Shape(t).chars = t.chars /\ Shape(t).pad = t.pad
  BY DEF Shape, TextCell
<1>4. served[c].chars = stored[c].chars /\ served[c].pad = stored[c].pad
  BY <1>1, <1>2, <1>3
<1> QED BY <1>2, <1>4, StoredText

(* The account's columns, served as they were written. *)
LEMMA PrivateKeyIntact ==
  ASSUME CellInv, "encrypted_private_key" \in DOMAIN stored,
         NEW t, t = served["encrypted_private_key"]
  PROVE  /\ t \in TextCell
         /\ t.of.column = "encrypted_private_key" => t = stored["encrypted_private_key"]
         /\ t = stored["encrypted_private_key"] =>
              /\ Fits(t, 72) /\ t.of.column = "encrypted_private_key" /\ t.of.content = 32
<1> DEFINE c == "encrypted_private_key"
<1>1. c \in Texts /\ c \notin WrapColumns /\ c # "blob" /\ FieldLen(c) = 72
  BY DEF Texts, WrapColumns, FieldLen
<1>2. Stores(c, stored[c], sealed) /\ Serves(c, served[c], stored[c]) BY DEF CellInv
<1>3. stored[c] = [chars |-> 96, pad |-> 0, of |-> Made(c, 32, <<>>)]
  BY <1>1, <1>2, Uploads DEF Stores
<1>4. /\ stored[c].of.column = c /\ stored[c].of.content = 32 /\ stored[c].of # NotBase64
      /\ stored[c].chars = 96 /\ stored[c].pad = 0
  <2>1. PICK o : o = Made(c, 32, <<>>) OBVIOUS
  <2>2. o.column = c /\ o.content = 32 /\ o # NotBase64
    <3>1. o.column = c /\ o.content = 32 BY <2>1 DEF Made
    <3>2. NotBase64.column = "not base64" BY DEF NotBase64, Made
    <3> QED BY <3>1, <3>2
  <2>3. stored[c] = [chars |-> 96, pad |-> 0, of |-> o] BY <1>3, <2>1
  <2> QED BY <2>2, <2>3
<1>5. Fits(stored[c], 72) BY ONLY <1>4, Sizes
<1>6. t \in TextCell BY <1>1, <1>2 DEF Serves, Cell
<1>7. t.of.column = c => t = stored[c] BY <1>1, <1>2 DEF Serves
<1> QED BY <1>4, <1>5, <1>6, <1>7

LEMMA OwnKeyIntact ==
  ASSUME CellInv, "own_vault_key" \in DOMAIN stored,
         NEW b, b = served["own_vault_key"]
  PROVE  /\ b \in RawCell
         /\ b.of.column = "own_vault_key" => b = stored["own_vault_key"]
         /\ stored["own_vault_key"].len = 72
         /\ b = stored["own_vault_key"] =>
              /\ b.of.column = "own_vault_key" /\ b.of.content = 32
<1> DEFINE c == "own_vault_key"
<1>1. c \notin Texts /\ c \notin WrapColumns /\ c # "blob"
  BY DEF Texts, WrapColumns
<1>2. Stores(c, stored[c], sealed) /\ Serves(c, served[c], stored[c]) BY DEF CellInv
<1>3. stored[c] = [len |-> 72, of |-> Made(c, 32, <<>>)]
  BY <1>1, <1>2, Uploads DEF Stores
<1>4. stored[c].of.column = c /\ stored[c].of.content = 32 /\ stored[c].len = 72
  BY <1>3 DEF Made
<1>5. b \in RawCell BY <1>1, <1>2 DEF Serves, Cell
<1>6. b.of.column = c => b = stored[c] BY <1>1, <1>2 DEF Serves
<1> QED BY <1>4, <1>5, <1>6

LEMMA BlobIntact ==
  ASSUME CellInv, "blob" \in DOMAIN stored, NEW b, b = served["blob"]
  PROVE  /\ b \in RawCell
         /\ b.of.column = "blob" => b = stored["blob"]
         /\ \E id \in Seq(Byte), v \in U32 :
              /\ sealed = <<id, v>> /\ stored["blob"].len = 60
              /\ stored["blob"].of = Made("blob", 32, vault_aad(id, v))
<1> DEFINE c == "blob"
<1>1. c \notin Texts /\ c \notin WrapColumns BY DEF Texts, WrapColumns
<1>2. Stores(c, stored[c], sealed) /\ Serves(c, served[c], stored[c]) BY DEF CellInv
<1>3. PICK id \in Seq(Byte), v \in U32 : sealed = <<id, v>> /\ stored[c] = encrypt_vault(id, v)
  BY <1>2 DEF Stores
<1>4. stored[c].len = 60 /\ stored[c].of = Made("blob", 32, vault_aad(id, v))
  BY <1>3 DEF encrypt_vault, Bytes, NONCE_LEN, KEY_LEN, TAG_LEN
<1>5. b \in RawCell BY <1>1, <1>2 DEF Serves, Cell
<1>6. b.of.column = c => b = stored[c] BY <1>1, <1>2 DEF Serves
<1> QED BY <1>3, <1>4, <1>5, <1>6

(* A share of the right content is the one the account was given. *)
LEMMA ShareIntact ==
  ASSUME CellInv, NEW c \in WrapColumns \cap DOMAIN stored
  PROVE  /\ served[c] \in TextCell
         /\ served[c].of.column = c /\ served[c].of.content = 32
              => served[c] = b64_encode(Wrap(32)[c])
         /\ served[c].of.column = c /\ Fits(served[c], 72) /\ c = "encrypted_vault_key"
              => served[c].of.content = 32
<1>1. c \in Texts BY DEF Texts
<1>2. Stores(c, stored[c], sealed) /\ Serves(c, served[c], stored[c]) BY DEF CellInv
<1>3. served[c] \in TextCell BY <1>1, <1>2 DEF Serves, Cell
<1>4. stored[c].of.column = c => stored[c] = b64_encode(Wrap(32)[c]) /\ stored[c].of.content = 32
  <2>1. stored[c] \in Shares(c) BY <1>2 DEF Stores
  <2>2. stored[c].of = Garbage \/ stored[c].of = Made(c, 32, <<>>) BY <2>1, ShareUploads
  <2>3. c # "none" BY DEF WrapColumns
  <2>4. CASE stored[c] = b64_encode(Wrap(32)[c])
    <3>0. stored[c] = [chars |-> ShareChars(c), pad |-> SharePad(c), of |-> Made(c, 32, <<>>)]
      BY <2>4, OwnShare
    <3>1. stored[c].of = Made(c, 32, <<>>) BY <3>0
    <3>2. Made(c, 32, <<>>).content = 32 BY DEF Made
    <3> QED BY <2>4, <3>1, <3>2
  <2>5. CASE stored[c] = b64_encode(Bytes(Wrap(32)[c].len, Garbage))
    <3>0. stored[c] = [chars |-> ShareChars(c), pad |-> SharePad(c), of |-> Garbage]
      BY <2>5, ShareShape
    <3>1. stored[c].of = Garbage BY <3>0
    <3> QED BY <3>1, <2>3, <2>5 DEF Garbage, Made
  <2> QED BY <2>1, <2>4, <2>5 DEF Shares
<1>5. ASSUME NEW n \in Foreign, served[c] = b64_encode(Wrap(n)[c])
      PROVE  /\ served[c].of.content # 32
             /\ c = "encrypted_vault_key" => ~Fits(served[c], 72)
  <2>1. n \in Nat /\ n # 32 BY WireAssumption
  <2>2. PICK k \in Nat : Wrap(n)[c] = Bytes(k, Made(c, n, <<>>))
                         /\ (c = "encrypted_vault_key" => k = 40 + n)
    <3>1. 40 + n \in Nat /\ 32 \in Nat /\ 1088 \in Nat BY <2>1
    <3>2. CASE c = "encrypted_vault_key" BY <2>1, <3>1, <3>2, WrapParts
    <3>3. CASE c = "eph_pub_key" BY <2>1, <3>1, <3>3, WrapParts
    <3>4. CASE c = "mlkem_ciphertext" BY <2>1, <3>1, <3>4, WrapParts
    <3> QED BY <3>2, <3>3, <3>4 DEF WrapColumns
  <2>3. PICK o : o = Made(c, n, <<>>) OBVIOUS
  <2>4. o.content = n /\ o # NotBase64
    <3>1. c # "not base64" BY DEF WrapColumns
    <3> QED BY <2>3, <3>1 DEF Made, NotBase64
  <2>5. served[c] = b64_encode(Bytes(k, o)) BY <1>5, <2>2, <2>3
  <2>6. served[c].of = o BY <2>5 DEF b64_encode, Bytes
  <2>7. b64_decode(served[c]) = Ok(Bytes(k, o)) BY <2>4, <2>5, RoundTrip
  <2>8. Fits(served[c], 72) => k = 72
    <3> SUFFICES ASSUME Fits(served[c], 72) PROVE k = 72 OBVIOUS
    <3>1. b64_decode(served[c]) = Ok(Bytes(72, served[c].of)) BY <1>3, Decoding DEF Fits
    <3>2. Ok(Bytes(72, served[c].of)).val.len = 72 /\ Ok(Bytes(k, o)).val.len = k
      BY DEF Ok, Bytes
    <3> QED BY <2>7, <3>1, <3>2
  <2> QED BY <2>1, <2>2, <2>4, <2>6, <2>8
<1>6. served[c].of.column = c =>
        \/ served[c] = stored[c]
        \/ \E n \in Foreign : served[c] = b64_encode(Wrap(n)[c])
  BY <1>2 DEF Serves
<1> QED BY <1>3, <1>4, <1>5, <1>6


-----------------------------------------------------------------------------
(* Every call, and what it returns. *)
LastInv == /\ NeverPanics /\ UploadsAccepted /\ ReadsBack
           /\ OnlyMalformedIsInvalid /\ SelfTestPasses

LEMMA Succeeds ==
  ASSUME NEW op, NEW at, NEW x, last' = Call(op, at, Ok(x))
  PROVE  last'.op = op /\ last'.at = at /\ last'.ok = TRUE /\ last'.err = "none"
BY DEF Call, Ok

LEMMA Fails ==
  ASSUME NEW op, NEW at, NEW e, last' = Call(op, at, Err(e))
  PROVE  last'.op = op /\ last'.at = at /\ last'.ok = FALSE /\ last'.err = e
BY DEF Call, Err

Openings == {"decryptPrivateKey", "unwrapVaultKey", "unwrapSharedVaultKey", "decryptVault"}

(* A call that returns something, or fails, and opens nothing. *)
LEMMA Returns ==
  ASSUME NEW op, NEW at, NEW x, op \notin Openings, last' = Call(op, at, Ok(x))
  PROVE  LastInv'
<1>1. last'.op = op /\ last'.ok = TRUE /\ last'.err = "none" BY Succeeds
<1> QED BY <1>1 DEF LastInv, NeverPanics, UploadsAccepted, ReadsBack, OnlyMalformedIsInvalid,
                    SelfTestPasses, Openings

LEMMA Refuses ==
  ASSUME NEW op, NEW at, NEW e, op \notin Openings, op # "aadSelfTest",
         e # "panic", e # "refused", last' = Call(op, at, Err(e)),
         e = "InvalidInput" => \E c \in Reads(op) : ~WellFormed(c)'
  PROVE  LastInv'
<1>1. last'.op = op /\ last'.err = e BY Fails
<1> QED BY <1>1 DEF LastInv, NeverPanics, UploadsAccepted, ReadsBack, OnlyMalformedIsInvalid,
                    SelfTestPasses, Openings

LEMMA SameCells ==
  ASSUME served' = served, stored' = stored, NEW c
  PROVE  WellFormed(c)' <=> WellFormed(c)
BY DEF WellFormed

LEMMA ShareResult ==
  ASSUME WireInv, Share
  PROVE  LastInv'
<1>1. CASE last' = Call("share", <<>>, Ok(0)) BY <1>1, Returns DEF Openings
<1>2. CASE last' = Call("share", <<>>, Err("InvalidPublicKey"))
  BY <1>2, Refuses DEF Openings
<1>3. CASE /\ last' = Call("share", <<>>, Err("InvalidInput"))
           /\ stored' = stored /\ served' = served
           /\ ~(/\ Fits(served["x25519_public_key"], KEY_LEN)
                /\ Fits(served["mlkem_public_key"], MLKEM768_PUBLIC_LEN))
  <2>0. "blob" \in DOMAIN stored /\ DOMAIN <<>> = {} BY DEF Share
  <2>1. /\ "x25519_public_key" \in DOMAIN stored /\ "x25519_public_key" \in Texts
        /\ "mlkem_public_key" \in DOMAIN stored /\ "mlkem_public_key" \in Texts
    BY <2>0 DEF WireInv, Registered, Account, Texts
  <2>2. /\ FieldLen("x25519_public_key") = KEY_LEN
        /\ FieldLen("mlkem_public_key") = MLKEM768_PUBLIC_LEN
    BY DEF FieldLen
  <2>3. ~(WellFormed("x25519_public_key") /\ WellFormed("mlkem_public_key"))
    BY <1>3, <2>1, <2>2, WellFormedFits DEF WireInv
  <2>4. ~(WellFormed("x25519_public_key")' /\ WellFormed("mlkem_public_key")')
    BY <1>3, <2>3, SameCells
  <2>5. Reads("share") = {"x25519_public_key", "mlkem_public_key"} BY DEF Reads
  <2>6. \E c \in Reads("share") : ~WellFormed(c)' BY <2>4, <2>5
  <2> QED BY <1>3, <2>6, Refuses DEF Openings
<1> QED BY <1>1, <1>2, <1>3, ShareKeeps

LEMMA DeriveResult ==
  ASSUME WireInv, DeriveMasterKey
  PROVE  LastInv'
<1> DEFINE c == "argon2_salt"
<1>1. c \in DOMAIN stored /\ c \in Texts
  BY DEF DeriveMasterKey, Complete, Columns, Texts, WireInv, CellInv
<1>2. PICK t : t = served[c] OBVIOUS
<1>3. t \in TextCell BY <1>1, <1>2 DEF WireInv, CellInv, Serves, Cell
<1>4. PICK r : r = salt_from_base64(t) OBVIOUS
<1>5. last' = Call("deriveMasterKey", <<>>, r) /\ served' = served /\ stored' = stored
  BY <1>2, <1>4 DEF DeriveMasterKey, Read
<1>6. r = IF Fits(t, KEY_LEN) THEN Ok(Bytes(KEY_LEN, t.of)) ELSE Err("InvalidInput")
  <2>1. KEY_LEN \in Nat BY DEF KEY_LEN
  <2> QED BY <1>3, <1>4, <2>1, Arrays DEF salt_from_base64, Fits
<1>7. CASE Fits(t, KEY_LEN)
  <2>1. last' = Call("deriveMasterKey", <<>>, Ok(Bytes(KEY_LEN, t.of))) BY <1>5, <1>6, <1>7
  <2> QED BY <2>1, Returns DEF Openings
<1>8. CASE ~Fits(t, KEY_LEN)
  <2>1. last' = Call("deriveMasterKey", <<>>, Err("InvalidInput")) BY <1>5, <1>6, <1>8
  <2>2. FieldLen(c) = KEY_LEN BY DEF FieldLen
  <2>3. ~WellFormed(c) BY <1>1, <1>2, <1>8, <2>2, WellFormedFits DEF WireInv
  <2>4. ~WellFormed(c)' BY <1>5, <2>3, SameCells
  <2>5. Reads("deriveMasterKey") = {c} BY DEF Reads
  <2>6. \E d \in Reads("deriveMasterKey") : ~WellFormed(d)' BY <2>4, <2>5
  <2> QED BY <2>1, <2>6, Refuses DEF Openings
<1> QED BY <1>7, <1>8

(* The result of opening one sealed column: right is what it takes. *)
LEMMA OneColumn ==
  ASSUME NEW op \in {"decryptPrivateKey", "unwrapVaultKey"}, NEW c, Reads(op) = {c},
         NEW r, last' = Call(op, <<>>, r), served' = served, stored' = stored, mk' = mk,
         \/ served[c] = stored[c] /\ mk = Salt /\ \E x : r = Ok(x)
         \/ /\ ~(served[c] = stored[c] /\ mk = Salt)
            /\ \/ r = Err("KeyUnwrap")
               \/ r = Err("InvalidInput") /\ ~WellFormed(c)
  PROVE  LastInv'
<1>1. CASE served[c] = stored[c] /\ mk = Salt /\ \E x : r = Ok(x)
  <2>1. PICK x : r = Ok(x) BY <1>1
  <2>2. last' = Call(op, <<>>, Ok(x)) BY <2>1
  <2>3. last'.op = op /\ last'.ok = TRUE /\ last'.err = "none" BY <2>2, Succeeds
  <2>4. Intact' /\ mk' = Salt BY <1>1, <2>3 DEF Intact
  <2>5. op # "unwrapSharedVaultKey" /\ op # "decryptVault" /\ op # "aadSelfTest" OBVIOUS
  <2> QED BY <2>3, <2>4, <2>5 DEF LastInv, NeverPanics, UploadsAccepted, ReadsBack,
                    OnlyMalformedIsInvalid, SelfTestPasses
<1>2. CASE /\ ~(served[c] = stored[c] /\ mk = Salt)
           /\ \/ r = Err("KeyUnwrap")
              \/ r = Err("InvalidInput") /\ ~WellFormed(c)
  <2>1. PICK e : /\ r = Err(e) /\ e \in {"KeyUnwrap", "InvalidInput"}
                 /\ e = "InvalidInput" => ~WellFormed(c)
    BY <1>2
  <2>2. last' = Call(op, <<>>, Err(e)) BY <2>1
  <2>3. last'.op = op /\ last'.ok = FALSE /\ last'.err = e BY <2>2, Fails
  <2>4. ~(Intact' /\ mk' = Salt) BY <1>2, <2>3 DEF Intact
  <2>5. op # "unwrapSharedVaultKey" /\ op # "decryptVault" /\ op # "aadSelfTest" OBVIOUS
  <2>6. e = "InvalidInput" => ~WellFormed(c)' BY <2>1, SameCells
  <2>7. ReadsBack' BY <2>3, <2>4, <2>5 DEF ReadsBack
  <2>8. OnlyMalformedIsInvalid' BY <2>3, <2>6 DEF OnlyMalformedIsInvalid
  <2>9. NeverPanics' /\ UploadsAccepted' /\ SelfTestPasses'
    BY <2>1, <2>3, <2>5 DEF NeverPanics, UploadsAccepted, SelfTestPasses
  <2> QED BY <2>7, <2>8, <2>9 DEF LastInv
<1> QED BY <1>1, <1>2

LEMMA PrivateKeyResult ==
  ASSUME WireInv, DecryptPrivateKey
  PROVE  LastInv'
<1> DEFINE c == "encrypted_private_key"
<1>1. c \in DOMAIN stored /\ c \in Texts
  BY DEF DecryptPrivateKey, Complete, Columns, Texts, WireInv, CellInv
<1>2. PICK t : t = served[c] OBVIOUS
<1>3. PICK m : m = mk OBVIOUS
<1>4. PICK r : r = PrivateKeyRead(t, m) OBVIOUS
<1>5. /\ last' = Call("decryptPrivateKey", <<>>, r) /\ served' = served /\ stored' = stored
      /\ mk' = mk
  BY <1>2, <1>3, <1>4 DEF DecryptPrivateKey, Read, PrivateKeyRead
<1>6. /\ t.of.column = c => t = stored[c]
      /\ t = stored[c] => Fits(t, 72) /\ t.of.column = c /\ t.of.content = 32
  BY <1>1, <1>2, PrivateKeyIntact DEF WireInv
<1>7. t \in TextCell BY <1>1, <1>2 DEF WireInv, CellInv, Serves, Cell
<1>8. r = IF ~Decodes(t) \/ Size(t) < 40 THEN Err("InvalidInput")
          ELSE IF ~(m = Salt /\ t.of.column = c) THEN Err("KeyUnwrap")
          ELSE IF t.of.content # KEY_LEN THEN Err("InvalidInput")
          ELSE Ok(Bytes(KEY_LEN, t.of))
  BY <1>4, <1>7, PrivateKeyReads
<1>9. WellFormed(c) => Fits(t, 72)
  <2>1. FieldLen(c) = 72 BY DEF FieldLen
  <2> QED BY <1>1, <1>2, <2>1, WellFormedFits DEF WireInv
<1>10. Fits(t, 72) => Decodes(t) /\ ~(Size(t) < 40) BY DEF Fits
<1>11. KEY_LEN = 32 BY DEF KEY_LEN
<1>12. \/ t = stored[c] /\ m = Salt /\ \E x : r = Ok(x)
       \/ /\ ~(t = stored[c] /\ m = Salt)
          /\ r = Err("KeyUnwrap") \/ (r = Err("InvalidInput") /\ ~WellFormed(c))
  BY <1>6, <1>7, <1>8, <1>9, <1>10, <1>11
<1>13. Reads("decryptPrivateKey") = {c} BY DEF Reads
<1> QED BY <1>2, <1>3, <1>5, <1>12, <1>13, OneColumn

LEMMA OwnKeyResult ==
  ASSUME WireInv, UnwrapVaultKey
  PROVE  LastInv'
<1> DEFINE c == "own_vault_key"
<1>1. c \in DOMAIN stored
  BY DEF UnwrapVaultKey, Complete, Columns, WireInv, CellInv
<1>2. PICK b : b = served[c] OBVIOUS
<1>3. PICK m : m = mk OBVIOUS
<1>4. PICK r : r = unwrap_vault_key_with_master_key(b, m) OBVIOUS
<1>5. /\ last' = Call("unwrapVaultKey", <<>>, r) /\ served' = served /\ stored' = stored
      /\ mk' = mk
  BY <1>2, <1>3, <1>4 DEF UnwrapVaultKey, Read
<1>6. /\ b.of.column = c => b = stored[c]
      /\ stored[c].len = 72
      /\ b = stored[c] => b.of.column = c /\ b.of.content = 32
  BY <1>1, <1>2, OwnKeyIntact DEF WireInv
<1>7. b \in RawCell BY <1>1, <1>2, OwnKeyIntact DEF WireInv
<1>8. r = IF b.len < 56 THEN Err("InvalidInput")
          ELSE IF ~(m = Salt /\ b.of.column = c) THEN Err("KeyUnwrap")
          ELSE IF b.of.content # KEY_LEN THEN Err("InvalidInput")
          ELSE Ok(Bytes(KEY_LEN, b.of))
  BY <1>4, <1>7, OwnKeyReads
<1>9. WellFormed(c) => b.len = 72
  <2>1. stored[c] \in RawCell
    <3>1. c \notin Texts BY DEF Texts, WrapColumns
    <3> QED BY <1>1, <3>1 DEF WireInv, CellInv, Stores, Cell
  <2>2. \A x \in RawCell : Shape(x).len = x.len BY DEF Shape, RawCell
  <2>3. Shape(b).len = b.len /\ Shape(stored[c]).len = stored[c].len BY <1>7, <2>1, <2>2
  <2> QED BY <1>2, <1>6, <2>3 DEF WellFormed
<1>10. KEY_LEN = 32 /\ (b.len = 72 => ~(b.len < 56)) BY DEF KEY_LEN
<1>11. \/ b = stored[c] /\ m = Salt /\ \E x : r = Ok(x)
       \/ /\ ~(b = stored[c] /\ m = Salt)
          /\ r = Err("KeyUnwrap") \/ (r = Err("InvalidInput") /\ ~WellFormed(c))
  BY <1>6, <1>8, <1>9, <1>10
<1>12. Reads("unwrapVaultKey") = {c} BY DEF Reads
<1> QED BY <1>2, <1>3, <1>5, <1>11, <1>12, OneColumn


LEMMA SharedResult ==
  ASSUME WireInv, UnwrapSharedVaultKey
  PROVE  LastInv'
<1> DEFINE cK == "encrypted_vault_key"
           cE == "eph_pub_key"
           cC == "mlkem_ciphertext"
           op == "unwrapSharedVaultKey"
<1>0. WrapColumns = {cK, cE, cC} BY DEF WrapColumns
<1>1. WrapColumns \subseteq DOMAIN stored /\ WrapColumns \subseteq Texts /\ CellInv
  BY DEF UnwrapSharedVaultKey, Complete, Columns, Texts, WireInv, CellInv
<1>2. PICK k, e, c : k = served[cK] /\ e = served[cE] /\ c = served[cC] OBVIOUS
<1>3. PICK r : r = SharedRead(k, e, c) OBVIOUS
<1>4. last' = Call(op, <<>>, r) /\ served' = served /\ stored' = stored
  BY <1>2, <1>3 DEF UnwrapSharedVaultKey, Read, SharedRead
<1>5. k \in TextCell /\ e \in TextCell /\ c \in TextCell BY <1>0, <1>1, <1>2, ShareIntact
<1>6. /\ k.of.column = cK /\ k.of.content = 32 => k = b64_encode(Wrap(32)[cK])
      /\ e.of.column = cE /\ e.of.content = 32 => e = b64_encode(Wrap(32)[cE])
      /\ c.of.column = cC /\ c.of.content = 32 => c = b64_encode(Wrap(32)[cC])
      /\ k.of.column = cK /\ Fits(k, 72) => k.of.content = 32
  BY <1>0, <1>1, <1>2, ShareIntact
<1>7. /\ WellFormed(cK) => Fits(k, 72)
      /\ WellFormed(cE) => Fits(e, KEY_LEN)
      /\ WellFormed(cC) => Fits(c, MLKEM768_CIPHERTEXT_LEN)
  <2>1. FieldLen(cK) = 72 /\ FieldLen(cE) = KEY_LEN /\ FieldLen(cC) = MLKEM768_CIPHERTEXT_LEN
    BY DEF FieldLen
  <2> QED BY <1>0, <1>1, <1>2, <2>1, WellFormedFits
<1>8. KEY_LEN = 32 /\ MLKEM768_CIPHERTEXT_LEN = 1088 BY DEF KEY_LEN, MLKEM768_CIPHERTEXT_LEN
<1> DEFINE fits   == Fits(c, MLKEM768_CIPHERTEXT_LEN) /\ Fits(e, KEY_LEN) /\ Decodes(k)
           opens  == /\ fits /\ e.of # Degenerate /\ ~(Size(k) < 24)
                     /\ OneWrap(k, e, c) /\ k.of.content = KEY_LEN
           intact == /\ k = b64_encode(Wrap(32)[cK]) /\ e = b64_encode(Wrap(32)[cE])
                     /\ c = b64_encode(Wrap(32)[cC])
<1>9. r = IF ~fits THEN Err("InvalidInput")
          ELSE IF e.of = Degenerate THEN Err("InvalidPublicKey")
          ELSE IF Size(k) < 24 THEN Err("InvalidInput")
          ELSE IF ~OneWrap(k, e, c) THEN Err("KeyUnwrap")
          ELSE IF k.of.content # KEY_LEN THEN Err("InvalidInput")
          ELSE Ok(Bytes(KEY_LEN, k.of))
  BY <1>3, <1>5, SharedReads
<1>10. opens => intact
  <2> SUFFICES ASSUME opens PROVE intact OBVIOUS
  <2>1. k.of.column = cK /\ k.of.content = 32 BY <1>8 DEF OneWrap
  <2>2. c.of = Made(cC, 32, <<>>) /\ e.of = Made(cE, 32, <<>>) BY <2>1 DEF OneWrap
  <2>3. c.of.column = cC /\ c.of.content = 32 /\ e.of.column = cE /\ e.of.content = 32
    BY <2>2 DEF Made
  <2> QED BY <1>6, <2>1, <2>3
<1>11. intact => opens
  <2> SUFFICES ASSUME intact PROVE opens OBVIOUS
  <2>1. k = [chars |-> 96, pad |-> 0, of |-> Made(cK, 32, <<>>)]
    BY <1>0, OwnShare DEF ShareChars, SharePad
  <2>2. e = [chars |-> 44, pad |-> 1, of |-> Made(cE, 32, <<>>)]
    BY <1>0, OwnShare DEF ShareChars, SharePad
  <2>3. c = [chars |-> 1452, pad |-> 1, of |-> Made(cC, 32, <<>>)]
    BY <1>0, OwnShare DEF ShareChars, SharePad
  <2>4. /\ k.of = Made(cK, 32, <<>>) /\ e.of = Made(cE, 32, <<>>) /\ c.of = Made(cC, 32, <<>>)
    BY <2>1, <2>2, <2>3
  <2>5. /\ k.of.column = cK /\ k.of.content = 32
        /\ e.of.column = cE /\ c.of.column = cC
    BY <2>4 DEF Made
  <2>6. NotBase64.column = "not base64" /\ Degenerate.column = "degenerate"
    BY DEF NotBase64, Degenerate, Made
  <2>7. k.of # NotBase64 /\ e.of # NotBase64 /\ c.of # NotBase64 /\ e.of # Degenerate
    BY <2>5, <2>6
  <2>8. Fits(k, 72) BY <2>1, <2>7, Sizes
  <2>9. Fits(e, 32) BY <2>2, <2>7, Sizes
  <2>10. Fits(c, 1088) BY <2>3, <2>7, Sizes
  <2>11. Decodes(k) /\ ~(Size(k) < 24) BY <2>8 DEF Fits
  <2>12. OneWrap(k, e, c) BY <2>4, <2>5 DEF OneWrap
  <2> QED BY <1>8, <2>5, <2>7, <2>9, <2>10, <2>11, <2>12
<1>12. r = Err("InvalidInput") => \E d \in WrapColumns : ~WellFormed(d)
  <2> SUFFICES ASSUME \A d \in WrapColumns : WellFormed(d), r = Err("InvalidInput")
               PROVE  FALSE
    OBVIOUS
  <2>1. Fits(k, 72) /\ fits BY <1>0, <1>7 DEF Fits
  <2>2. ~(Size(k) < 24) BY <2>1 DEF Fits
  <2>3. OneWrap(k, e, c) => k.of.content = KEY_LEN BY <1>6, <1>8, <2>1 DEF OneWrap
  <2>4. Err("InvalidInput") # Err("InvalidPublicKey") /\ Err("InvalidInput") # Err("KeyUnwrap")
    BY DEF Err
  <2>5. Err("InvalidInput") # Ok(Bytes(KEY_LEN, k.of)) BY DEF Err, Ok
  <2> QED BY <1>9, <2>1, <2>2, <2>3, <2>4, <2>5
<1>13. /\ opens => \E x : r = Ok(x)
       /\ ~opens => \E x \in {"InvalidInput", "InvalidPublicKey", "KeyUnwrap"} : r = Err(x)
  BY <1>9
<1>14. (\A d \in WrapColumns : served'[d] = b64_encode(Wrap(KEY_LEN)[d])) <=> intact
  BY <1>0, <1>2, <1>4, <1>8
<1> HIDE DEF opens, intact, fits
<1>15. CASE opens
  <2>1. PICK x : r = Ok(x) BY <1>13, <1>15
  <2>2. last' = Call(op, <<>>, Ok(x)) BY <1>4, <2>1
  <2>3. last'.op = op /\ last'.ok = TRUE /\ last'.err = "none" BY <2>2, Succeeds
  <2>4. ReadsBack' BY <1>10, <1>14, <1>15, <2>3 DEF ReadsBack
  <2> QED BY <2>3, <2>4 DEF LastInv, NeverPanics, UploadsAccepted,
                             OnlyMalformedIsInvalid, SelfTestPasses
<1>16. CASE ~opens
  <2>1. PICK x \in {"InvalidInput", "InvalidPublicKey", "KeyUnwrap"} : r = Err(x)
    BY <1>13, <1>16
  <2>2. last' = Call(op, <<>>, Err(x)) BY <1>4, <2>1
  <2>3. last'.op = op /\ last'.ok = FALSE /\ last'.err = x BY <2>2, Fails
  <2>4. ReadsBack' BY <1>11, <1>14, <1>16, <2>3 DEF ReadsBack
  <2>5. x = "InvalidInput" => \E d \in WrapColumns : ~WellFormed(d)'
    BY <1>4, <1>12, <2>1, SameCells
  <2>6. Reads(op) = WrapColumns BY DEF Reads
  <2>7. OnlyMalformedIsInvalid' BY <2>3, <2>5, <2>6 DEF OnlyMalformedIsInvalid
  <2> QED BY <2>1, <2>3, <2>4, <2>7 DEF LastInv, NeverPanics, UploadsAccepted, SelfTestPasses
<1> QED BY <1>15, <1>16

LEMMA BlobResult ==
  ASSUME WireInv, NEW id \in Ids, NEW v \in Versions, DecryptVault(id, v)
  PROVE  LastInv'
<1> DEFINE c == "blob"
           op == "decryptVault"
<1>0. id \in Seq(Byte) /\ v \in U32 BY WireAssumption
<1>1. c \in DOMAIN stored BY DEF DecryptVault, Complete, Columns, WireInv, CellInv
<1>2. PICK b : b = served[c] OBVIOUS
<1>3. PICK r : r = decrypt_vault(b, id, v) OBVIOUS
<1>4. /\ last' = Call(op, <<id, v>>, r) /\ served' = served /\ stored' = stored
      /\ sealed' = sealed
  BY <1>2, <1>3 DEF DecryptVault, Read
<1>5. b \in RawCell /\ (b.of.column = c => b = stored[c])
  BY <1>1, <1>2, BlobIntact DEF WireInv
<1>6. PICK id2 \in Seq(Byte), v2 \in U32 :
        /\ sealed = <<id2, v2>> /\ stored[c].len = 60
        /\ stored[c].of = Made(c, 32, vault_aad(id2, v2))
  BY <1>1, <1>2, BlobIntact DEF WireInv
<1>7. stored[c].of.column = c /\ stored[c].of.aad = vault_aad(id2, v2) BY <1>6 DEF Made
<1>8. r = IF b.len < 12 THEN Err("shorter than a nonce")
          ELSE IF ~(b.of.aad = vault_aad(id, v) /\ b.of.column = c) THEN Err("Decryption")
          ELSE Ok(Bytes(b.of.content, b.of))
  BY <1>3, <1>5, BlobReads
<1> DEFINE opens == ~(b.len < 12) /\ b.of.aad = vault_aad(id, v) /\ b.of.column = c
<1>9. opens <=> b = stored[c] /\ <<id, v>> = sealed
  <2>1. ASSUME opens PROVE b = stored[c] /\ <<id, v>> = sealed
    <3>1. b = stored[c] BY <1>5, <2>1
    <3>2. vault_aad(id, v) = vault_aad(id2, v2) BY <1>7, <2>1, <3>1
    <3>3. id = id2 /\ v = v2 BY <1>0, <3>2, AadIsInjective
    <3> QED BY <1>6, <3>1, <3>3
  <2>2. ASSUME b = stored[c], <<id, v>> = sealed PROVE opens
    <3>1. id = id2 /\ v = v2 BY <1>6, <2>2
    <3> QED BY <1>6, <1>7, <2>2, <3>1
  <2> QED BY <2>1, <2>2
<1>10. Reads(op) = {c} BY DEF Reads
<1>11. CASE opens
  <2>1. PICK x : r = Ok(x) BY <1>8, <1>11
  <2>2. last' = Call(op, <<id, v>>, Ok(x)) BY <1>4, <2>1
  <2>3. last'.op = op /\ last'.at = <<id, v>> /\ last'.ok = TRUE /\ last'.err = "none"
    BY <2>2, Succeeds
  <2>4. Intact' /\ last'.at = sealed' BY <1>2, <1>4, <1>9, <1>10, <1>11, <2>3 DEF Intact
  <2> QED BY <2>3, <2>4 DEF LastInv, NeverPanics, UploadsAccepted, ReadsBack,
                             OnlyMalformedIsInvalid, SelfTestPasses
<1>12. CASE ~opens
  <2>1. PICK x \in {"shorter than a nonce", "Decryption"} : r = Err(x) BY <1>8, <1>12
  <2>2. last' = Call(op, <<id, v>>, Err(x)) BY <1>4, <2>1
  <2>3. last'.op = op /\ last'.at = <<id, v>> /\ last'.ok = FALSE /\ last'.err = x
    BY <2>2, Fails
  <2>4. ~(Intact' /\ last'.at = sealed') BY <1>2, <1>4, <1>9, <1>10, <1>12, <2>3 DEF Intact
  <2>5. ReadsBack' BY <2>3, <2>4 DEF ReadsBack
  <2> QED BY <2>1, <2>3, <2>5 DEF LastInv, NeverPanics, UploadsAccepted,
                                   OnlyMalformedIsInvalid, SelfTestPasses
<1> QED BY <1>11, <1>12

LEMMA SelfTestResult ==
  ASSUME NEW id \in Ids, NEW v \in Versions, AadSelfTest(id, v)
  PROVE  LastInv'
<1>1. aad_self_test(id, v) BY WireAssumption, SelfTest
<1>2. last' = Call("aadSelfTest", <<id, v>>, Ok(0)) BY <1>1 DEF AadSelfTest, Read
<1> QED BY <1>2, Returns DEF Openings


-----------------------------------------------------------------------------
LEMMA StartResult ==
  ASSUME last' = Start
  PROVE  LastInv'
BY Returns DEF Start, Openings

LEMMA InitHolds ==
  Init => WireInv /\ LastInv
<1> SUFFICES ASSUME Init PROVE WireInv /\ LastInv OBVIOUS
<1>1. stored = <<>> /\ served = <<>> /\ mk = NoKey /\ ~kp /\ ~vk BY DEF Init
<1>2. DOMAIN <<>> = {} OBVIOUS
<1>3. WireInv BY <1>1, <1>2 DEF WireInv, CellInv, Registered
<1>4. last.op = "none" /\ last.err = "none" BY DEF Init, Start, Call, Ok
<1>5. LastInv BY <1>4 DEF LastInv, NeverPanics, UploadsAccepted, ReadsBack,
                          OnlyMalformedIsInvalid, SelfTestPasses
<1> QED BY <1>3, <1>5

(* A reading call changes no column, and is made of a registered account,  *)
(* the self-test apart, which changes nothing.                             *)
LEMMA ReadKeeps ==
  ASSUME WireInv, UNCHANGED <<stored, served, sealed>>,
         Complete \/ UNCHANGED <<mk, kp, vk>> \/ (mk' = NoKey /\ ~kp' /\ ~vk')
  PROVE  WireInv'
<1>1. CellInv' BY DEF WireInv, CellInv
<1>2. CASE Complete
  <2>1. Account \subseteq DOMAIN stored
    BY <1>2 DEF Complete, Account, Columns, Texts, WireInv, CellInv
  <2> QED BY <1>1, <2>1 DEF WireInv, Registered
<1>3. CASE UNCHANGED <<mk, kp, vk>> BY <1>1, <1>3 DEF WireInv, Registered
<1>4. CASE mk' = NoKey /\ ~kp' /\ ~vk' BY <1>1, <1>4 DEF WireInv, Registered
<1> QED BY <1>2, <1>3, <1>4

LEMMA NextHolds ==
  WireInv /\ LastInv /\ [Next]_vars => WireInv' /\ LastInv'
<1> SUFFICES ASSUME WireInv, LastInv, [Next]_vars PROVE WireInv' /\ LastInv' OBVIOUS
<1>1. CASE Register
  <2>1. WireInv' /\ last' = Call("register", <<>>, Ok(0)) BY <1>1, RegisterKeeps
  <2> QED BY <2>1, Returns DEF Openings
<1>2. CASE CreateVault
  <2>1. WireInv' /\ last' = Call("create", <<>>, Ok(0)) BY <1>2, CreateKeeps
  <2> QED BY <2>1, Returns DEF Openings
<1>3. ASSUME NEW id \in Ids, NEW n \in Versions, Push(id, n) PROVE WireInv' /\ LastInv'
  <2>1. WireInv' /\ last' = Call("push", <<>>, Ok(0)) BY <1>3, PushKeeps
  <2> QED BY <2>1, Returns DEF Openings
<1>4. ASSUME NEW id \in Ids, NEW n \in Versions, DecryptVault(id, n) PROVE WireInv' /\ LastInv'
  <2>1. UNCHANGED <<stored, served, sealed>> /\ Complete BY <1>4 DEF DecryptVault, Read
  <2> QED BY <1>4, <2>1, ReadKeeps, BlobResult
<1>5. ASSUME NEW id \in Ids, NEW n \in Versions, AadSelfTest(id, n) PROVE WireInv' /\ LastInv'
  <2>1. UNCHANGED <<stored, served, sealed>> /\ UNCHANGED <<mk, kp, vk>>
    BY <1>5 DEF AadSelfTest, Read
  <2> QED BY <1>5, <2>1, ReadKeeps, SelfTestResult
<1>6. CASE Share BY <1>6, ShareKeeps, ShareResult
<1>7. ASSUME NEW c \in Columns, Cut(c) \/ Replace(c) \/ Scramble(c) PROVE WireInv' /\ LastInv'
  <2>1. WireInv' /\ last' = Start BY <1>7, CutKeeps, ReplaceKeeps, ScrambleKeeps
  <2> QED BY <2>1, StartResult
<1>8. ASSUME NEW c \in Columns, NEW d \in Columns, Swap(c, d) PROVE WireInv' /\ LastInv'
  <2>1. WireInv' /\ last' = Start BY <1>8, SwapKeeps
  <2> QED BY <2>1, StartResult
<1>9. CASE Forge
  <2>1. WireInv' /\ last' = Start BY <1>9, ForgeKeeps
  <2> QED BY <2>1, StartResult
<1>10. CASE DeriveMasterKey
  <2>1. UNCHANGED <<stored, served, sealed>> /\ Complete BY <1>10 DEF DeriveMasterKey, Read
  <2> QED BY <1>10, <2>1, ReadKeeps, DeriveResult
<1>11. CASE DecryptPrivateKey
  <2>1. UNCHANGED <<stored, served, sealed>> /\ Complete BY <1>11 DEF DecryptPrivateKey, Read
  <2> QED BY <1>11, <2>1, ReadKeeps, PrivateKeyResult
<1>12. CASE UnwrapVaultKey
  <2>1. UNCHANGED <<stored, served, sealed>> /\ Complete BY <1>12 DEF UnwrapVaultKey, Read
  <2> QED BY <1>12, <2>1, ReadKeeps, OwnKeyResult
<1>13. CASE UnwrapSharedVaultKey
  <2>1. UNCHANGED <<stored, served, sealed>> /\ Complete
    BY <1>13 DEF UnwrapSharedVaultKey, Read
  <2> QED BY <1>13, <2>1, ReadKeeps, SharedResult
<1>14. CASE Exit
  <2>1. /\ UNCHANGED <<stored, served, sealed>> /\ last' = Start
        /\ mk' = NoKey /\ ~kp' /\ ~vk'
    BY <1>14 DEF Exit
  <2> QED BY <2>1, ReadKeeps, StartResult
<1>15. CASE UNCHANGED vars
  <2>1. UNCHANGED <<stored, served, sealed>> /\ UNCHANGED <<mk, kp, vk>> /\ last' = last
    BY <1>15 DEF vars
  <2>2. LastInv'
    BY <2>1 DEF LastInv, NeverPanics, UploadsAccepted, ReadsBack, OnlyMalformedIsInvalid,
                SelfTestPasses, Intact, WellFormed
  <2> QED BY <2>1, <2>2, ReadKeeps
<1>16. CASE Next
  BY <1>1, <1>2, <1>3, <1>4, <1>5, <1>6, <1>7, <1>8, <1>9, <1>10, <1>11, <1>12, <1>13,
     <1>14, <1>16 DEF Next
<1> QED BY <1>15, <1>16

LEMMA Holds == Spec => [](WireInv /\ LastInv)
BY InitHolds, NextHolds, PTL DEF Spec

(* The inductive invariant.  What is stored is as its writer made it,      *)
(* whatever was served; a served cell that still names its column is the   *)
(* stored one, or a stranger's share; and nothing is read before the       *)
(* account is there.                                                       *)
THEOREM StoredAsWritten == Spec => []WireInv
BY Holds, PTL

(* No split and no copy of the crate panics, whatever lengths it is        *)
(* served: every one of them comes after a check (keypair.rs:724,          *)
(* vault.rs:297, wasm.rs:171, keypair.rs:1000).                            *)
THEOREM NoCallPanics == Spec => []NeverPanics
<1>1. LastInv => NeverPanics BY DEF LastInv
<1> QED BY <1>1, Holds, PTL

(* Every text the crate writes has the length the server insists on: no    *)
(* upload is refused (encoding.rs:15).                                     *)
THEOREM NoUploadRefused == Spec => []UploadsAccepted
<1>1. LastInv => UploadsAccepted BY DEF LastInv
<1> QED BY <1>1, Holds, PTL

(* A sealed column opens exactly when all that is read is as it was        *)
(* written, under the right key and, for a blob, the right id and version, *)
(* for every base of bytes, ids, versions and served lengths.              *)
THEOREM WhatOpensWasWritten == Spec => []ReadsBack
<1>1. LastInv => ReadsBack BY DEF LastInv
<1> QED BY <1>1, Holds, PTL

(* A value with the shape of what was written never gives InvalidInput,    *)
(* whatever its bytes and whatever the password (errors.rs:48).            *)
THEOREM InvalidMeansMalformed == Spec => []OnlyMalformedIsInvalid
<1>1. LastInv => OnlyMalformedIsInvalid BY DEF LastInv
<1> QED BY <1>1, Holds, PTL

(* The browser's self-test passes for every id and every version, the last *)
(* one too, whose successor wraps to 0 (wasm.rs:207).                      *)
THEOREM SelfTestsPass == Spec => []SelfTestPasses
<1>1. LastInv => SelfTestPasses BY DEF LastInv
<1> QED BY <1>1, Holds, PTL
=============================================================================
