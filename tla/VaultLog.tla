------------------------------- MODULE VaultLog -------------------------------
(***************************************************************************)
(* What a vault promises its users, without keys, blobs or servers: an     *)
(* append-only log of texts per vault.  Reading version n returns the text *)
(* appended as version n, or fails.                                        *)
(***************************************************************************)
EXTENDS Naturals, Sequences

CONSTANTS Vaults, Texts, NoText

VARIABLES
  log,      \* log[v]: the texts of vault v, oldest first
  read      \* the outcome of the last read

Init ==
  /\ log = [v \in Vaults |-> <<>>]
  /\ read = NoText

AppendText(v, t) ==
  /\ log' = [log EXCEPT ![v] = Append(@, t)]
  /\ UNCHANGED read

ReadText(v, n) ==
  /\ n \in DOMAIN log[v]
  /\ read' = [vault |-> v, version |-> n, text |-> log[v][n]]
  /\ UNCHANGED log

ReadFails ==
  /\ read' = NoText
  /\ UNCHANGED log

Next ==
  \/ \E v \in Vaults : \/ \E t \in Texts : AppendText(v, t)
                       \/ \E n \in DOMAIN log[v] : ReadText(v, n)
  \/ ReadFails

Spec == Init /\ [][Next]_<<log, read>>
=============================================================================
