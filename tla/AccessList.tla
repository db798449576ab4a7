------------------------------- MODULE AccessList -------------------------------
(***************************************************************************)
(* What removing a member promises (vault.rs:237-243): membership and the  *)
(* ability to read are two things.  Removal ends the first alone; the next *)
(* re-key makes the readers of the vault its members again.                *)
(***************************************************************************)
CONSTANTS Users, Creator, Locks

VARIABLES
  members,   \* who the vault is shared with
  readers,   \* who can open what is stored now
  lock       \* what the vault is locked with now

Init == members = {Creator} /\ readers = {Creator} /\ lock \in Locks

(* A reader gives the key away; a member may make the other one a member. *)
Share(u) ==
  /\ readers' = readers \cup {u}
  /\ members' \in {members, members \cup {u}}
  /\ UNCHANGED lock

(* Somebody else does it, so a member remains. *)
Remove(u) ==
  /\ members' = members \ {u}
  /\ members' # {}
  /\ UNCHANGED <<readers, lock>>

Rekey ==
  /\ lock' \in Locks \ {lock}
  /\ readers' = members
  /\ UNCHANGED members

Next == Rekey \/ \E u \in Users : Share(u) \/ Remove(u)

Spec == Init /\ [][Next]_<<members, readers, lock>>
=============================================================================
