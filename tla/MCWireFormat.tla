------------------------------ MODULE MCWireFormat ------------------------------
(* Instances of WireFormat for TLC. *)
EXTENDS WireFormat, FiniteSets

CONSTANT MaxAltered    \* bound on the columns served differently at once

(* Bytes are bits: an id length wraps at 4, a version at 16. *)
MCMagic    == <<1, 0, 1, 1>>
MCIds      == {<<>>, <<0>>, <<0, 0, 0, 0>>, <<0, 1, 0, 1, 0>>}
MCVersions == {0, 4, 15}
MCLengths  == {0, 11, 12, 23, 24, 31, 32, 33, 39, 40, 55, 56, 71, 72, 1087, 1088, 1184}
MCCuts     == {0, 30, 40, 43, 52, 56, 95, 1448, 1451}
MCForeign  == {0, 31, 33}

Altered == {c \in DOMAIN served : served[c] # stored[c]}

(* States beyond these bounds are not expanded.  Every id and version is   *)
(* pushed; columns are altered with one blob only, MaxAltered at once or   *)
(* the three of a share.  The self-test and decryptVault change nothing    *)
(* but last: their results are checked, and nothing follows them.          *)
Bounds ==
  /\ \/ Cardinality(Altered) <= MaxAltered
     \/ /\ Altered = WrapColumns
        /\ \E n \in Foreign : \A c \in WrapColumns : served[c] = b64_encode(Wrap(n)[c])
  /\ last.op \notin {"aadSelfTest", "decryptVault"}
  /\ Altered # {} => sealed = <<<<0>>, 4>>
=============================================================================
