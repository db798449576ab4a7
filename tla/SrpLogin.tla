-------------------------------- MODULE SrpLogin --------------------------------
(***************************************************************************)
(* Logins with SRP-6a: clients holding ephemeral and proof handles         *)
(* (srp.rs, wasm.rs), the server's sessions, and a network that loses,     *)
(* duplicates, reorders and misdelivers every message and offers values of *)
(* its own.                                                                *)
(*                                                                         *)
(* The server side is not in the repository: its sessions compute what the *)
(* srp crate's server computes in tests/readme_flows.rs.                   *)
(***************************************************************************)
EXTENDS SrpCrypto, Naturals

CONSTANTS
  Emails,       \* addresses as users type them
  Canonical,    \* Canonical[e]: the address the server files e under
  Passwords,
  Salts,
  Ephemerals,   \* what generate_client_ephemeral can draw
  Sessions,     \* server sessions; the name also stands for the session's b
  Logins,       \* login attempts, each with at most one proof handle
  SingleUse,    \* TRUE: callers use an ephemeral for one login, as wasm.rs:349 asks
  ZeroB,        \* a public value that is 0 modulo N
  ForeignB,     \* a public value of somebody who does not hold the verifier
  NoAccount, NoSession, NoLogin

Exponents  == [email : Emails, password : Passwords \X Salts, salt : Salts]
Publics    == [verifier : Exponents, b : Sessions] \cup {ForeignB, ZeroB}
Secrets    == [a : Ephemerals, B : Publics, x : Exponents]
Offers     == [salt : Salts, B : Publics]
Session    == [email : Emails, a : Ephemerals, verifier : Exponents, verified : BOOLEAN]
Login      == [email : Emails, proof : Secrets, phase : {"proved", "accepted", "dropped"}]

ASSUME ConstantsAssumption ==
  /\ Canonical \in [Emails -> Emails]
  /\ SingleUse \in BOOLEAN
  /\ NoAccount \notin Exponents
  /\ NoSession \notin Session
  /\ NoLogin \notin Login
  /\ ForeignB \notin [verifier : Exponents, b : Sessions]
  /\ ZeroB \notin [verifier : Exponents, b : Sessions]

VARIABLES
  account,     \* server: the verifier filed under each canonical address
  session,     \* server: one login in progress or done
  ephemeral,   \* client: the state of each SrpEphemeralHandle
  login,       \* client: each SrpProofHandle and what its caller made of it
  offers,      \* every reply to /auth/srp/init: a salt and a B
  m1s,         \* every M1 sent
  m2s          \* every M2 sent

server == <<account, session>>
vars   == <<account, session, ephemeral, login, offers, m1s, m2s>>

TypeOK ==
  /\ account \in [Emails -> Exponents \cup {NoAccount}]
  /\ session \in [Sessions -> Session \cup {NoSession}]
  /\ ephemeral \in [Ephemerals -> {"none", "fresh", "used", "destroyed"}]
  /\ login \in [Logins -> Login \cup {NoLogin}]
  /\ offers \subseteq Offers
  /\ m1s \subseteq Secrets
  /\ m2s \subseteq Secrets

Init ==
  /\ account = [e \in Emails |-> NoAccount]
  /\ session = [s \in Sessions |-> NoSession]
  /\ ephemeral = [a \in Ephemerals |-> "none"]
  /\ login = [l \in Logins |-> NoLogin]
  /\ offers = [salt : Salts, B : {ForeignB, ZeroB}]   \* made up on the way
  /\ m1s = {}
  /\ m2s = {}

(* Registration: generate_salt, derive_srp_password, compute_verifier.  A  *)
(* random salt is one no account has.                                      *)
Register(e, p, s) ==
  /\ account[Canonical[e]] = NoAccount
  /\ \A f \in Emails : account[f] # NoAccount => account[f].salt # s
  /\ account' = [account EXCEPT ![Canonical[e]] =
                   compute_verifier(e, derive_srp_password(p, s), s)]
  /\ UNCHANGED <<session, ephemeral, login, offers, m1s, m2s>>

generate_client_ephemeral(a) ==
  /\ ephemeral[a] = "none"
  /\ ephemeral' = [ephemeral EXCEPT ![a] = "fresh"]
  /\ UNCHANGED <<server, login, offers, m1s, m2s>>

(* /auth/srp/init: any A a client ever sent may arrive, for any address.   *)
ServerInit(s, e, a) ==
  LET v == account[Canonical[e]]
  IN  /\ session[s] = NoSession
      /\ v # NoAccount
      /\ ephemeral[a] # "none"
      /\ session' = [session EXCEPT ![s] =
           [email |-> Canonical[e], a |-> a, verifier |-> v, verified |-> FALSE]]
      /\ offers' = offers \cup {[salt |-> v.salt, B |-> ServerPublic(v, s)]}
      /\ UNCHANGED <<account, ephemeral, login, m1s, m2s>>

(* An ephemeral handle is borrowed by compute_client_proof, not consumed.  *)
UsableTwice(a) == ephemeral[a] \in {"fresh", "used"}                  \* mutant
Usable(a) == ephemeral[a] = "fresh" \/ (~SingleUse /\ ephemeral[a] = "used")

(* derive_srp_password with the salt received, compute_client_proof with   *)
(* the B received; M1 is sent.  The password may be mistyped.              *)
Prove(l, e, p, a) ==
  /\ login[l] = NoLogin
  /\ Usable(a)
  /\ \E o \in offers :
       LET proof == compute_client_proof(e, derive_srp_password(p, o.salt), o.salt,
                                         o.B, a, ZeroB)
       IN  /\ proof.ok
           /\ login' = [login EXCEPT ![l] =
                [email |-> e, proof |-> proof.val, phase |-> "proved"]]
           /\ m1s' = m1s \cup {proof.val}
  /\ ephemeral' = [ephemeral EXCEPT ![a] = "used"]
  /\ UNCHANGED <<server, offers, m2s>>

(* /auth/srp/verify: the session compares M1 with its own, once.           *)
ServerVerify(s, m1) ==
  LET h == session[s]
  IN  /\ h # NoSession
      /\ ~ h.verified
      /\ m1 = SessionSecret(h.a, ServerPublic(h.verifier, s), h.verifier)
      /\ session' = [session EXCEPT ![s].verified = TRUE]
      /\ m2s' = m2s \cup {m1}
      /\ UNCHANGED <<account, ephemeral, login, offers, m1s>>

(* verify_server_proof with any M2 ever sent.  A failure changes nothing:   *)
(* the handle is borrowed, and the caller may try the next answer.         *)
Accept(l, m2) ==
  /\ login[l] # NoLogin
  /\ login[l].phase = "proved"
  /\ verify_server_proof(m2, login[l].proof)
  /\ login' = [login EXCEPT ![l].phase = "accepted"]
  /\ UNCHANGED <<server, ephemeral, offers, m1s, m2s>>

(* destroy() on either handle, or the end of the page. *)
DropProof(l) ==
  /\ login[l] # NoLogin
  /\ login[l].phase = "proved"
  /\ login' = [login EXCEPT ![l].phase = "dropped"]
  /\ UNCHANGED <<server, ephemeral, offers, m1s, m2s>>

DropEphemeral(a) ==
  /\ ephemeral[a] \in {"fresh", "used"}
  /\ ephemeral' = [ephemeral EXCEPT ![a] = "destroyed"]
  /\ UNCHANGED <<server, login, offers, m1s, m2s>>

Next ==
  \/ \E e \in Emails, p \in Passwords, s \in Salts : Register(e, p, s)
  \/ \E a \in Ephemerals : generate_client_ephemeral(a) \/ DropEphemeral(a)
  \/ \E s \in Sessions, e \in Emails, a \in Ephemerals : ServerInit(s, e, a)
  \/ \E l \in Logins, e \in Emails, p \in Passwords, a \in Ephemerals : Prove(l, e, p, a)
  \/ \E s \in Sessions, m1 \in m1s : ServerVerify(s, m1)
  \/ \E l \in Logins : (\E m2 \in m2s : Accept(l, m2)) \/ DropProof(l)

Spec == Init /\ [][Next]_vars

-----------------------------------------------------------------------------
ServerSecret(s) ==
  SessionSecret(session[s].a, ServerPublic(session[s].verifier, s), session[s].verifier)

Verified(s) == session[s] # NoSession /\ session[s].verified
Accepted(l) == login[l] # NoLogin /\ login[l].phase = "accepted"

(* Where every proof comes from: the invariants the properties below rest  *)
(* on.  Verifiers stay where they were filed, every M1 is some login's,    *)
(* and M2s are those of the sessions that verified an M1.                  *)
AccountsAreFiled ==
  \A c \in Emails : account[c] # NoAccount => Canonical[account[c].email] = c

SessionsHoldVerifiers ==
  \A s \in Sessions : session[s] # NoSession =>
    session[s].verifier = account[session[s].email]

ProofsAreSent ==
  /\ \A l \in Logins : login[l] # NoLogin =>
       login[l].proof \in m1s /\ login[l].proof.x.email = login[l].email
  /\ \A m \in m1s : \E l \in Logins : login[l] # NoLogin /\ login[l].proof = m

VerifiedWereSent == \A s \in Sessions : Verified(s) => ServerSecret(s) \in m1s

AnswersWereVerified ==
  /\ \A m \in m2s : \E s \in Sessions : Verified(s) /\ m = ServerSecret(s)
  /\ \A l \in Logins : Accepted(l) => login[l].proof \in m2s

(* With single use, a login is known by its ephemeral. *)
EphemeralsAreSpent ==
  \A l \in Logins : login[l] # NoLogin =>
    /\ ephemeral[login[l].proof.a] \in {"used", "destroyed"}
    /\ \A k \in Logins :
         login[k] # NoLogin /\ login[k].proof.a = login[l].proof.a => k = l

(* A client that accepted M2 shares its secret with a server session that  *)
(* holds the verifier of the very address it logs in with, and that        *)
(* session has already verified this client's M1 - whatever salts, B and   *)
(* M2 of other sessions, other addresses or strangers were delivered to    *)
(* it, and also if its ephemeral served several logins.                    *)
ServerIsGenuine ==
  \A l \in Logins : Accepted(l) =>
    \E s \in Sessions :
      /\ Verified(s)
      /\ session[s].email = Canonical[login[l].email]
      /\ session[s].verifier = account[session[s].email]
      /\ login[l].proof = ServerSecret(s)

(* A server session that verified M1 shares its secret with a client that  *)
(* logs in to the session's own address, spelt as it was registered.       *)
ClientIsGenuine ==
  \A s \in Sessions : Verified(s) =>
    \E l \in Logins :
      /\ login[l] # NoLogin
      /\ login[l].proof = ServerSecret(s)
      /\ Canonical[login[l].email] = session[s].email
      /\ login[l].email = account[session[s].email].email

(* An ephemeral is single-use (wasm.rs:349): no two logins are ever        *)
(* completed with one server session, so an old M2 completes nothing.      *)
LoginsAreDistinct ==
  \A l, k \in Logins :
    Accepted(l) /\ Accepted(k) /\ login[l].proof = login[k].proof => l = k

(* What MutualAuth sees: the login each session committed to, named by its *)
(* ephemeral, and the logins whose client accepted.                        *)
peerBar == [s \in Sessions |->
              IF Verified(s)
              THEN [address |-> session[s].email, attempt |-> session[s].a]
              ELSE NoSession]
completedBar == {[address |-> Canonical[login[l].email], attempt |-> login[l].proof.a] :
                   l \in {k \in Logins : Accepted(k)}}

Auth == INSTANCE MutualAuth WITH
          Attempts <- Ephemerals, Addresses <- Emails, NoPeer <- NoSession,
          peer <- peerBar, completed <- completedBar

(* If callers use each ephemeral once, every session commits to one login, *)
(* no two to the same, and a client completes each login once, after some  *)
(* session committed to it for the same address.                           *)
ImplementsMutualAuth == Auth!Spec
=============================================================================
