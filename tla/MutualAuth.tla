------------------------------- MODULE MutualAuth -------------------------------
(***************************************************************************)
(* Mutual authentication as a login promises it: a server session commits  *)
(* to one login of one address, no two sessions to the same login, and a   *)
(* client completes a login only after some session committed to it.       *)
(***************************************************************************)
CONSTANTS Sessions, Attempts, Addresses, NoPeer

VARIABLES
  peer,        \* peer[s]: the login session s committed to, and its address
  completed    \* the logins whose client accepted the server

Init ==
  /\ peer = [s \in Sessions |-> NoPeer]
  /\ completed = {}

Commit(s, e, a) ==
  /\ peer[s] = NoPeer
  /\ \A r \in Sessions : peer[r] # NoPeer => peer[r].attempt # a
  /\ peer' = [peer EXCEPT ![s] = [address |-> e, attempt |-> a]]
  /\ UNCHANGED completed

Complete(e, a) ==
  /\ [address |-> e, attempt |-> a] \notin completed
  /\ \E s \in Sessions : peer[s] = [address |-> e, attempt |-> a]
  /\ completed' = completed \cup {[address |-> e, attempt |-> a]}
  /\ UNCHANGED peer

Next ==
  \E e \in Addresses, a \in Attempts :
    \/ \E s \in Sessions : Commit(s, e, a)
    \/ Complete(e, a)

Spec == Init /\ [][Next]_<<peer, completed>>
=============================================================================
