------------------------------- MODULE KeyGrants -------------------------------
(***************************************************************************)
(* What sharing promises: an account knows a key only if it created it or  *)
(* was granted it by an account that knew it.                              *)
(***************************************************************************)
CONSTANTS Identities, Keys

VARIABLES
  created,   \* keys that exist
  knows,     \* the keys each identity knows
  grants     \* which key was granted to whom

Init ==
  /\ created = {}
  /\ knows = [i \in Identities |-> {}]
  /\ grants = {}

Create(i, k) ==
  /\ k \notin created
  /\ created' = created \cup {k}
  /\ knows' = [knows EXCEPT ![i] = @ \cup {k}]
  /\ UNCHANGED grants

Grant(i, j, k) ==
  /\ k \in knows[i]
  /\ UNCHANGED <<created, knows>>
  /\ grants' = grants \cup {[key |-> k, to |-> j]}

Learn(i, k) ==
  /\ [key |-> k, to |-> i] \in grants
  /\ knows' = [knows EXCEPT ![i] = @ \cup {k}]
  /\ UNCHANGED <<created, grants>>

(* Any part is forgotten; a grant stands and may be used again. *)
Forget(i) ==
  /\ knows'[i] \subseteq knows[i]
  /\ knows' = [knows EXCEPT ![i] = knows'[i]]
  /\ UNCHANGED <<created, grants>>

Next ==
  \E i \in Identities :
    \/ \E k \in Keys : Create(i, k) \/ Learn(i, k) \/ \E j \in Identities : Grant(i, j, k)
    \/ Forget(i)

Spec == Init /\ [][Next]_<<created, knows, grants>>
=============================================================================
