----------------------------- MODULE AssociatedData -----------------------------
(***************************************************************************)
(* The bytes of vault.rs's associated data.  The other modules take        *)
(* vault_aad to be an injective function of the vault id and the version;  *)
(* here it is the encoding itself, with its two fixed-width numbers, for   *)
(* bytes of any base (256 in the code, small in TLC's instances).          *)
(***************************************************************************)
EXTENDS Integers, Sequences

CONSTANTS
  ByteBase,   \* a byte is one of 0..ByteBase-1
  Magic       \* the four bytes every encoding starts with

Byte == 0..(ByteBase - 1)

ASSUME BytesAssumption ==
  /\ ByteBase \in Nat /\ ByteBase > 1
  /\ Magic \in Seq(Byte) /\ Len(Magic) = 4

Word2 == ByteBase * ByteBase     \* one more than u16::MAX
Word4 == Word2 * Word2           \* one more than u32::MAX

U32 == 0..(Word4 - 1)

(* (n as u16).to_be_bytes() and n.to_be_bytes(). *)
Be2(n) == <<(n \div ByteBase) % ByteBase, n % ByteBase>>
Be4(n) == Be2(n \div Word2) \o Be2(n)

(* An id longer than u16::MAX wraps in the length field. *)
vault_aadShortVersion(id, version) ==                                 \* mutant
  Magic \o Be2(Len(id)) \o id \o Be2(version)
vault_aad(id, version) == Magic \o Be2(Len(id)) \o id \o Be4(version)

(* u32 arithmetic of aad_self_test. *)
saturating_add1(n) == IF n = Word4 - 1 THEN n ELSE n + 1              \* for the mutant
wrapping_add1(n) == (n + 1) % Word4

(* A blob opens exactly under the associated data it was sealed with, and  *)
(* what comes out is the text that was sealed.                             *)
Opens(sealed, aad) == aad = sealed

(* Both halves: the right version opens, and the next one does not.        *)
aad_self_testSaturating(id, version) ==                               \* mutant
  LET aad == vault_aad(id, version)
  IN  Opens(aad, aad) /\ ~ Opens(aad, vault_aad(id, saturating_add1(version)))
aad_self_test(id, version) ==
  LET aad == vault_aad(id, version)
  IN  Opens(aad, aad) /\ ~ Opens(aad, vault_aad(id, wrapping_add1(version)))
=============================================================================
