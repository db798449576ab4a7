---------------------------- MODULE SrpLogin_proofs ----------------------------
(***************************************************************************)
(* Proofs about SrpLogin, for any sets of addresses, passwords, salts,     *)
(* ephemerals, sessions and logins.                                        *)
(***************************************************************************)
EXTENDS SrpLogin, TLAPS

AuthInv ==
  /\ TypeOK
  /\ AccountsAreFiled
  /\ SessionsHoldVerifiers
  /\ ProofsAreSent
  /\ VerifiedWereSent
  /\ AnswersWereVerified

(* Records of the declared types. *)
LEMMA SrpRecords ==
  /\ \A h \in Session : /\ h.email \in Emails /\ h.a \in Ephemerals
                        /\ h.verifier \in Exponents /\ h.verified \in BOOLEAN
                        /\ h # NoSession
  /\ \A r \in Login : /\ r.email \in Emails /\ r.proof \in Secrets /\ r # NoLogin
                      /\ r.phase \in {"proved", "accepted", "dropped"}
  /\ \A m \in Secrets : m.a \in Ephemerals /\ m.B \in Publics /\ m.x \in Exponents
  /\ \A x \in Exponents : x.email \in Emails /\ x.salt \in Salts /\ x # NoAccount
  /\ \A o \in Offers : o.salt \in Salts /\ o.B \in Publics
BY ConstantsAssumption DEF Session, Login, Secrets, Exponents, Offers

LEMMA ExponentType ==
  ASSUME NEW e \in Emails, NEW p \in Passwords, NEW s \in Salts
  PROVE  /\ Exponent(e, derive_srp_password(p, s), s) \in Exponents
         /\ Exponent(e, derive_srp_password(p, s), s).email = e
BY DEF Exponent, derive_srp_password, Exponents

LEMMA ServerPublicType ==
  ASSUME NEW x \in Exponents, NEW s \in Sessions
  PROVE  ServerPublic(x, s) \in Publics
BY DEF ServerPublic, Publics

LEMMA SecretType ==
  ASSUME NEW a \in Ephemerals, NEW B \in Publics, NEW x \in Exponents
  PROVE  /\ SessionSecret(a, B, x) \in Secrets
         /\ SessionSecret(a, B, x).a = a /\ SessionSecret(a, B, x).B = B
         /\ SessionSecret(a, B, x).x = x
BY DEF SessionSecret, Secrets

(* What a proof is made of, whoever made the offer. *)
LEMMA ProveFacts ==
  ASSUME TypeOK, NEW l \in Logins, NEW e \in Emails, NEW p \in Passwords,
         NEW a \in Ephemerals, Prove(l, e, p, a)
  PROVE  /\ login[l] = NoLogin
         /\ \E m \in Secrets :
              /\ m.a = a /\ m.x.email = e
              /\ login' = [login EXCEPT ![l] = [email |-> e, proof |-> m, phase |-> "proved"]]
              /\ m1s' = m1s \cup {m}
<1>1. PICK o \in offers :
        LET proof == compute_client_proof(e, derive_srp_password(p, o.salt), o.salt,
                                          o.B, a, ZeroB)
        IN  /\ proof.ok
            /\ login' = [login EXCEPT ![l] =
                 [email |-> e, proof |-> proof.val, phase |-> "proved"]]
            /\ m1s' = m1s \cup {proof.val}
  BY DEF Prove
<1>2. o.salt \in Salts /\ o.B \in Publics
  BY SrpRecords DEF TypeOK
<1>3. PICK x : x = Exponent(e, derive_srp_password(p, o.salt), o.salt)
  OBVIOUS
<1>4. x \in Exponents /\ x.email = e
  BY <1>2, <1>3, ExponentType
<1>5. PICK m : m = SessionSecret(a, o.B, x)
  OBVIOUS
<1>6. /\ login' = [login EXCEPT ![l] = [email |-> e, proof |-> m, phase |-> "proved"]]
      /\ m1s' = m1s \cup {m}
  BY <1>1, <1>3, <1>5 DEF compute_client_proof
<1>7. m \in Secrets /\ m.a = a /\ m.x.email = e
  BY <1>2, <1>4, <1>5, SecretType
<1> QED BY <1>6, <1>7 DEF Prove

(* A session's secret has the right type and names its session. *)
LEMMA ServerSecretFacts ==
  ASSUME TypeOK, NEW s \in Sessions, session[s] # NoSession
  PROVE  /\ session[s] \in Session
         /\ ServerSecret(s) \in Secrets
         /\ ServerSecret(s).a = session[s].a
         /\ ServerSecret(s).x = session[s].verifier
         /\ ServerSecret(s).B.b = s
<1>1. session[s] \in Session
  BY DEF TypeOK
<1>2. /\ session[s].a \in Ephemerals /\ session[s].verifier \in Exponents
      /\ ServerPublic(session[s].verifier, s) \in Publics
  BY <1>1, SrpRecords, ServerPublicType
<1>3. ServerPublic(session[s].verifier, s).b = s
  BY DEF ServerPublic
<1> QED BY <1>1, <1>2, <1>3, SecretType DEF ServerSecret

-----------------------------------------------------------------------------
LEMMA StepTypes ==
  ASSUME TypeOK, [Next]_vars
  PROVE  TypeOK'
<1>1. ASSUME NEW e \in Emails, NEW p \in Passwords, NEW s \in Salts, Register(e, p, s)
      PROVE  TypeOK'
  <2>1. compute_verifier(e, derive_srp_password(p, s), s) \in Exponents
    BY ExponentType DEF compute_verifier
  <2> QED BY <1>1, <2>1 DEF Register, TypeOK
<1>2. ASSUME NEW a \in Ephemerals, generate_client_ephemeral(a) \/ DropEphemeral(a)
      PROVE  TypeOK'
  BY <1>2 DEF generate_client_ephemeral, DropEphemeral, TypeOK, server
<1>3. ASSUME NEW s \in Sessions, NEW e \in Emails, NEW a \in Ephemerals, ServerInit(s, e, a)
      PROVE  TypeOK'
  <2>1. PICK v : v = account[Canonical[e]]
    OBVIOUS
  <2>2. v \in Exponents /\ v.salt \in Salts /\ Canonical[e] \in Emails
    BY <1>3, <2>1, ConstantsAssumption, SrpRecords DEF ServerInit, TypeOK
  <2>3. [email |-> Canonical[e], a |-> a, verifier |-> v, verified |-> FALSE] \in Session
    BY <2>2 DEF Session
  <2>4. [salt |-> v.salt, B |-> ServerPublic(v, s)] \in Offers
    BY <2>2, ServerPublicType DEF Offers
  <2> QED BY <1>3, <2>1, <2>3, <2>4 DEF ServerInit, TypeOK
<1>4. ASSUME NEW l \in Logins, NEW e \in Emails, NEW p \in Passwords, NEW a \in Ephemerals,
             Prove(l, e, p, a)
      PROVE  TypeOK'
  <2>1. PICK m \in Secrets :
          /\ login' = [login EXCEPT ![l] = [email |-> e, proof |-> m, phase |-> "proved"]]
          /\ m1s' = m1s \cup {m}
    BY <1>4, ProveFacts
  <2>2. [email |-> e, proof |-> m, phase |-> "proved"] \in Login
    BY DEF Login
  <2>3. /\ ephemeral' = [ephemeral EXCEPT ![a] = "used"]
        /\ UNCHANGED <<server, offers, m2s>>
    BY <1>4 DEF Prove
  <2> QED BY <2>1, <2>2, <2>3 DEF TypeOK, server
<1>5. ASSUME NEW s \in Sessions, NEW m1 \in m1s, ServerVerify(s, m1)
      PROVE  TypeOK'
  <2>1. session[s] \in Session
    BY <1>5 DEF ServerVerify, TypeOK
  <2>2. [session[s] EXCEPT !.verified = TRUE] \in Session
    BY <2>1 DEF Session
  <2> QED BY <1>5, <2>2 DEF ServerVerify, TypeOK
<1>6. ASSUME NEW l \in Logins, (\E m2 \in m2s : Accept(l, m2)) \/ DropProof(l)
      PROVE  TypeOK'
  <2>1. login[l] \in Login
    BY <1>6 DEF Accept, DropProof, TypeOK
  <2>2. /\ [login[l] EXCEPT !.phase = "accepted"] \in Login
        /\ [login[l] EXCEPT !.phase = "dropped"] \in Login
    BY <2>1 DEF Login
  <2> QED BY <1>6, <2>2 DEF Accept, DropProof, TypeOK, server
<1>7. CASE UNCHANGED vars
  BY <1>7 DEF vars, TypeOK
<1> QED BY <1>1, <1>2, <1>3, <1>4, <1>5, <1>6, <1>7 DEF Next
(* A step takes back no account, session, login or message, and changes    *)
(* nothing in them but `verified' and `phase'.                             *)
LEMMA StepsKeep ==
  ASSUME TypeOK, [Next]_vars
  PROVE  /\ \A c \in Emails : account[c] # NoAccount => account'[c] = account[c]
         /\ \A s \in Sessions : session[s] # NoSession =>
              /\ session'[s] # NoSession
              /\ ServerSecret(s)' = ServerSecret(s)
              /\ session'[s].email = session[s].email
              /\ session'[s].verifier = session[s].verifier
              /\ Verified(s) => Verified(s)'
         /\ \A l \in Logins : login[l] # NoLogin =>
              /\ login'[l] # NoLogin
              /\ login'[l].email = login[l].email
              /\ login'[l].proof = login[l].proof
         /\ m1s \subseteq m1s' /\ m2s \subseteq m2s'
<1>0. TypeOK'
  BY StepTypes
<1>1. \A c \in Emails : account[c] # NoAccount => account'[c] = account[c]
  BY ConstantsAssumption DEF TypeOK, Next, vars, server, Register, generate_client_ephemeral,
     DropEphemeral, ServerInit, Prove, ServerVerify, Accept, DropProof
<1>2. ASSUME NEW s \in Sessions, session[s] # NoSession
      PROVE  /\ session'[s] # NoSession
             /\ session'[s].email = session[s].email
             /\ session'[s].a = session[s].a
             /\ session'[s].verifier = session[s].verifier
             /\ session[s].verified => session'[s].verified
  <2>1. session[s] \in Session
    BY <1>2 DEF TypeOK
  <2>2. CASE \E r \in Sessions, m1 \in m1s : ServerVerify(r, m1)
    <3>1. session'[s] \in {session[s], [session[s] EXCEPT !.verified = TRUE]}
      BY <2>2 DEF ServerVerify, TypeOK
    <3>2. [session[s] EXCEPT !.verified = TRUE] \in Session
      BY <2>1 DEF Session
    <3>3. session'[s] # NoSession
      BY <2>1, <3>1, <3>2, SrpRecords
    <3> QED BY <2>1, <3>1, <3>3 DEF Session
  <2>3. CASE session'[s] = session[s]
    BY <1>2, <2>3
  <2>4. CASE \E r \in Sessions, e \in Emails, a \in Ephemerals : ServerInit(r, e, a)
    BY <1>2, <2>3, <2>4 DEF ServerInit, TypeOK
  <2> QED BY <2>2, <2>3, <2>4 DEF Next, vars, server, Register,
          generate_client_ephemeral, DropEphemeral, Prove, Accept, DropProof
<1>3. ASSUME NEW l \in Logins, login[l] # NoLogin
      PROVE  /\ login'[l] # NoLogin
             /\ login'[l].email = login[l].email
             /\ login'[l].proof = login[l].proof
  <2>1. login[l] \in Login
    BY <1>3 DEF TypeOK
  <2>2. CASE \E k \in Logins : (\E m2 \in m2s : Accept(k, m2)) \/ DropProof(k)
    <3>1. login'[l] \in {login[l], [login[l] EXCEPT !.phase = "accepted"],
                         [login[l] EXCEPT !.phase = "dropped"]}
      BY <2>2 DEF Accept, DropProof, TypeOK
    <3>2. login'[l] \in Login
      BY <2>1, <3>1 DEF Login
    <3>3. login'[l] # NoLogin
      BY <3>2, SrpRecords
    <3> QED BY <2>1, <3>1, <3>3 DEF Login
  <2>3. CASE login'[l] = login[l]
    BY <1>3, <2>3
  <2>4. CASE \E k \in Logins, e \in Emails, p \in Passwords, a \in Ephemerals : Prove(k, e, p, a)
    <3>1. PICK k \in Logins, e \in Emails, p \in Passwords, a \in Ephemerals : Prove(k, e, p, a)
      BY <2>4
    <3>2. login[k] = NoLogin /\ \E r : login' = [login EXCEPT ![k] = r]
      BY <3>1, ProveFacts
    <3> QED BY <1>3, <2>3, <3>2 DEF TypeOK
  <2> QED BY <2>2, <2>3, <2>4 DEF Next, vars, server, Register,
          generate_client_ephemeral, DropEphemeral, ServerInit, ServerVerify
<1>4. m1s \subseteq m1s' /\ m2s \subseteq m2s'
  BY DEF Next, vars, server, Register, generate_client_ephemeral, DropEphemeral,
         ServerInit, Prove, ServerVerify, Accept, DropProof
<1>5. \A s \in Sessions : session[s] # NoSession =>
        ServerSecret(s)' = ServerSecret(s) /\ (Verified(s) => Verified(s)')
  BY <1>2 DEF ServerSecret, Verified
<1> QED BY <1>1, <1>2, <1>3, <1>4, <1>5


-----------------------------------------------------------------------------
(* AuthInv, one part at a time. *)
LEMMA StepAccounts ==
  ASSUME AuthInv, [Next]_vars
  PROVE  AccountsAreFiled'
<1> SUFFICES ASSUME NEW c \in Emails, account'[c] # NoAccount
             PROVE  Canonical[account'[c].email] = c
  BY DEF AccountsAreFiled
<1>1. TypeOK
  BY DEF AuthInv
<1>2. CASE account'[c] = account[c]
  BY <1>2 DEF AuthInv, AccountsAreFiled
<1>3. ASSUME NEW e \in Emails, NEW p \in Passwords, NEW s \in Salts, Register(e, p, s),
             account'[c] # account[c]
      PROVE  Canonical[account'[c].email] = c
  <2>1. c = Canonical[e] /\ account'[c] = compute_verifier(e, derive_srp_password(p, s), s)
    BY <1>1, <1>3 DEF Register, TypeOK
  <2> QED BY <2>1, ExponentType DEF compute_verifier
<1> QED BY <1>2, <1>3 DEF Next, vars, server, generate_client_ephemeral,
        DropEphemeral, ServerInit, Prove, ServerVerify, Accept, DropProof

LEMMA StepSessions ==
  ASSUME AuthInv, [Next]_vars
  PROVE  SessionsHoldVerifiers'
<1> SUFFICES ASSUME NEW s \in Sessions, session'[s] # NoSession
             PROVE  session'[s].verifier = account'[session'[s].email]
  BY DEF SessionsHoldVerifiers
<1>1. TypeOK
  BY DEF AuthInv
<1>2. CASE session[s] # NoSession
  <2>1. session[s] \in Session /\ session[s].email \in Emails /\ session[s].verifier # NoAccount
    BY <1>1, <1>2, SrpRecords DEF TypeOK
  <2>2. session[s].verifier = account[session[s].email]
    BY <1>2 DEF AuthInv, SessionsHoldVerifiers
  <2> QED BY <1>1, <1>2, <2>1, <2>2, StepsKeep
<1>3. CASE session[s] = NoSession
  <2>1. PICK r \in Sessions, e \in Emails, a \in Ephemerals : ServerInit(r, e, a)
    <3>1. ASSUME NEW r \in Sessions, NEW m1 \in m1s, ServerVerify(r, m1)
          PROVE  FALSE
      BY <1>1, <1>3, <3>1 DEF ServerVerify, TypeOK
    <3> QED BY <1>3, <3>1 DEF Next, vars, server, Register, generate_client_ephemeral,
            DropEphemeral, Prove, Accept, DropProof
  <2>2. PICK v : v = account[Canonical[e]]
    OBVIOUS
  <2>3. session' = [session EXCEPT ![r] =
          [email |-> Canonical[e], a |-> a, verifier |-> v, verified |-> FALSE]]
        /\ UNCHANGED account
    BY <2>1, <2>2 DEF ServerInit
  <2>4. session'[s] = [email |-> Canonical[e], a |-> a, verifier |-> v, verified |-> FALSE]
    BY <1>1, <1>3, <2>3 DEF TypeOK
  <2> QED BY <2>2, <2>3, <2>4
<1> QED BY <1>2, <1>3

LEMMA StepProofs ==
  ASSUME AuthInv, [Next]_vars
  PROVE  ProofsAreSent'
<1>1. TypeOK /\ ProofsAreSent
  BY DEF AuthInv
<1>2. CASE \E l \in Logins, e \in Emails, p \in Passwords, a \in Ephemerals : Prove(l, e, p, a)
  <2>1. PICK l \in Logins, e \in Emails, p \in Passwords, a \in Ephemerals : Prove(l, e, p, a)
    BY <1>2
  <2>2. PICK m \in Secrets :
          /\ m.x.email = e
          /\ login' = [login EXCEPT ![l] = [email |-> e, proof |-> m, phase |-> "proved"]]
          /\ m1s' = m1s \cup {m}
    BY <1>1, <2>1, ProveFacts
  <2>3. [email |-> e, proof |-> m, phase |-> "proved"] # NoLogin
    <3>1. [email |-> e, proof |-> m, phase |-> "proved"] \in Login
      BY DEF Login
    <3> QED BY <3>1, SrpRecords
  <2>4. login'[l] = [email |-> e, proof |-> m, phase |-> "proved"]
    BY <1>1, <2>2 DEF TypeOK
  <2>5. \A k \in Logins : k # l => login'[k] = login[k]
    BY <1>1, <2>2 DEF TypeOK
  <2>6. \A k \in Logins : login'[k] # NoLogin =>
          login'[k].proof \in m1s' /\ login'[k].proof.x.email = login'[k].email
    BY <1>1, <2>2, <2>4, <2>5 DEF ProofsAreSent
  <2>7. ASSUME NEW n \in m1s'
        PROVE  \E k \in Logins : login'[k] # NoLogin /\ login'[k].proof = n
    <3>1. CASE n = m
      BY <2>3, <2>4, <3>1
    <3>2. CASE n \in m1s
      BY <1>1, <3>2, StepsKeep DEF ProofsAreSent
    <3> QED BY <2>2, <3>1, <3>2
  <2> QED BY <2>6, <2>7 DEF ProofsAreSent
<1>3. CASE UNCHANGED m1s /\ \A l \in Logins : login[l] = NoLogin => login'[l] = NoLogin
  BY <1>1, <1>3, StepsKeep DEF ProofsAreSent
<1>4. ASSUME NEW l \in Logins, (\E m2 \in m2s : Accept(l, m2)) \/ DropProof(l)
      PROVE  UNCHANGED m1s /\ \A k \in Logins : login[k] = NoLogin => login'[k] = NoLogin
  BY <1>1, <1>4 DEF Accept, DropProof, TypeOK
<1> QED BY <1>2, <1>3, <1>4 DEF Next, vars, server, Register, generate_client_ephemeral,
        DropEphemeral, ServerInit, ServerVerify

(* The M1 a session accepts is its own secret, and was sent. *)
LEMMA VerifyFacts ==
  ASSUME TypeOK, NEW s \in Sessions, NEW m1 \in m1s, ServerVerify(s, m1)
  PROVE  /\ session[s] # NoSession /\ ~ Verified(s) /\ Verified(s)'
         /\ m1 = ServerSecret(s) /\ ServerSecret(s)' = m1
         /\ m2s' = m2s \cup {m1}
         /\ \A r \in Sessions : r # s => session'[r] = session[r]
<1>1. session[s] \in Session /\ session[s] # NoSession /\ ~ session[s].verified
  BY DEF ServerVerify, TypeOK
<1>2. session'[s] = [session[s] EXCEPT !.verified = TRUE]
  BY DEF ServerVerify, TypeOK
<1>3. session'[s].verified
  BY <1>1, <1>2 DEF Session
<1>4. [Next]_vars
  BY DEF Next
<1>5. m1 = ServerSecret(s) /\ m2s' = m2s \cup {m1}
  BY DEF ServerVerify, ServerSecret
<1>6. session'[s] # NoSession /\ ServerSecret(s)' = ServerSecret(s)
  BY <1>1, <1>4, StepsKeep
<1>7. \A r \in Sessions : r # s => session'[r] = session[r]
  BY DEF ServerVerify, TypeOK
<1> QED BY <1>1, <1>3, <1>5, <1>6, <1>7 DEF Verified

LEMMA StepVerified ==
  ASSUME AuthInv, [Next]_vars
  PROVE  VerifiedWereSent'
<1> SUFFICES ASSUME NEW s \in Sessions, Verified(s)'
             PROVE  ServerSecret(s)' \in m1s'
  BY DEF VerifiedWereSent
<1>1. TypeOK
  BY DEF AuthInv
<1>2. CASE Verified(s)
  BY <1>1, <1>2, StepsKeep DEF AuthInv, VerifiedWereSent, Verified
<1>3. ASSUME NEW r \in Sessions, NEW m1 \in m1s, ServerVerify(r, m1)
      PROVE  ServerSecret(s)' \in m1s'
  BY <1>1, <1>2, <1>3, VerifyFacts, StepsKeep DEF Verified
<1>4. ASSUME NEW r \in Sessions, NEW e \in Emails, NEW a \in Ephemerals, ServerInit(r, e, a)
      PROVE  Verified(s)
  BY <1>1, <1>4 DEF ServerInit, TypeOK, Verified
<1>5. CASE UNCHANGED session
  BY <1>2, <1>5 DEF Verified
<1> QED BY <1>2, <1>3, <1>4, <1>5 DEF Next, vars, server, Register,
        generate_client_ephemeral, DropEphemeral, Prove, Accept, DropProof

LEMMA AcceptFacts ==
  ASSUME TypeOK, NEW l \in Logins, NEW m2 \in m2s, Accept(l, m2)
  PROVE  /\ login[l] # NoLogin /\ ~ Accepted(l) /\ Accepted(l)'
         /\ login[l].proof = m2 /\ UNCHANGED m2s
         /\ \A k \in Logins : k # l => login'[k] = login[k]
<1>1. login[l] \in Login /\ login[l] # NoLogin /\ login[l].phase = "proved"
  BY DEF Accept, TypeOK
<1>2. login'[l] = [login[l] EXCEPT !.phase = "accepted"]
  BY DEF Accept, TypeOK
<1>3. login'[l].phase = "accepted" /\ login'[l] \in Login
  BY <1>1, <1>2 DEF Login
<1>4. login[l].proof = m2 /\ UNCHANGED m2s
  BY DEF Accept, verify_server_proof
<1>5. \A k \in Logins : k # l => login'[k] = login[k]
  BY DEF Accept, TypeOK
<1> QED BY <1>1, <1>3, <1>4, <1>5, SrpRecords DEF Accepted

(* A step that is no Accept completes no login. *)
LEMMA NewlyAccepted ==
  ASSUME TypeOK, [Next]_vars, NEW l \in Logins, Accepted(l)', ~ Accepted(l)
  PROVE  \E m2 \in m2s : Accept(l, m2)
<1>1. ASSUME NEW k \in Logins, NEW e \in Emails, NEW p \in Passwords, NEW a \in Ephemerals,
             Prove(k, e, p, a)
      PROVE  FALSE
  <2>1. PICK m : login' = [login EXCEPT ![k] = [email |-> e, proof |-> m, phase |-> "proved"]]
    BY <1>1, ProveFacts
  <2>2. login'[l] = login[l] \/ login'[l].phase = "proved"
    BY <2>1 DEF TypeOK
  <2> QED BY <2>2 DEF Accepted
<1>2. ASSUME NEW k \in Logins, DropProof(k)
      PROVE  FALSE
  <2>1. login'[l] = login[l] \/ login'[l] = [login[k] EXCEPT !.phase = "dropped"]
    BY <1>2 DEF DropProof, TypeOK
  <2>2. [login[k] EXCEPT !.phase = "dropped"].phase = "dropped"
    BY <1>2 DEF DropProof, TypeOK, Login
  <2> QED BY <2>1, <2>2 DEF Accepted
<1>3. CASE UNCHANGED login
  BY <1>3 DEF Accepted
<1>4. ASSUME NEW k \in Logins, NEW m2 \in m2s, Accept(k, m2)
      PROVE  k = l
  BY <1>4, AcceptFacts DEF Accepted
<1> QED BY <1>1, <1>2, <1>3, <1>4 DEF Next, vars, server, Register,
        generate_client_ephemeral, DropEphemeral, ServerInit, ServerVerify

LEMMA StepAnswers ==
  ASSUME AuthInv, [Next]_vars
  PROVE  AnswersWereVerified'
<1>1. TypeOK /\ AnswersWereVerified
  BY DEF AuthInv
<1>2. ASSUME NEW m \in m2s'
      PROVE  \E s \in Sessions : Verified(s)' /\ m = ServerSecret(s)'
  <2>1. CASE m \in m2s
    BY <1>1, <2>1, StepsKeep DEF AnswersWereVerified, Verified
  <2>2. ASSUME NEW s \in Sessions, NEW m1 \in m1s, ServerVerify(s, m1)
        PROVE  \E r \in Sessions : Verified(r)' /\ m = ServerSecret(r)'
    BY <1>1, <2>1, <2>2, VerifyFacts
  <2>3. CASE UNCHANGED m2s
    BY <2>1, <2>3
  <2> QED BY <2>2, <2>3 DEF Next, vars, server, Register, generate_client_ephemeral,
          DropEphemeral, ServerInit, Prove, Accept, DropProof
<1>3. ASSUME NEW l \in Logins, Accepted(l)'
      PROVE  login'[l].proof \in m2s'
  <2>1. CASE Accepted(l)
    BY <1>1, <2>1, StepsKeep DEF AnswersWereVerified, Accepted
  <2>2. CASE ~ Accepted(l)
    <3>1. PICK m2 \in m2s : Accept(l, m2)
      BY <1>1, <1>3, <2>2, NewlyAccepted
    <3> QED BY <1>1, <3>1, AcceptFacts, StepsKeep
  <2> QED BY <2>1, <2>2
<1> QED BY <1>2, <1>3 DEF AnswersWereVerified

(* The inductive invariant holds, and with it types and authentication. *)
THEOREM AuthenticationHolds == Spec => []AuthInv
<1>1. Init => AuthInv
  BY ConstantsAssumption DEF Init, AuthInv, TypeOK, AccountsAreFiled,
     SessionsHoldVerifiers, ProofsAreSent, VerifiedWereSent, AnswersWereVerified,
     Verified, Accepted, Offers, Publics
<1>2. ASSUME AuthInv, [Next]_vars PROVE AuthInv'
  <2>1. TypeOK'
    BY <1>2, StepTypes DEF AuthInv
  <2>2. AccountsAreFiled' /\ SessionsHoldVerifiers'
    BY <1>2, StepAccounts, StepSessions
  <2>3. ProofsAreSent' /\ VerifiedWereSent' /\ AnswersWereVerified'
    BY <1>2, StepProofs, StepVerified, StepAnswers
  <2> QED BY <2>1, <2>2, <2>3 DEF AuthInv
<1> QED BY <1>1, <1>2, PTL DEF Spec

(* The types of SrpLogin are invariant: the password in an exponent is     *)
(* always one derived with derive_srp_password.                            *)
THEOREM SrpTypeCorrect == Spec => []TypeOK
<1>1. AuthInv => TypeOK
  BY DEF AuthInv
<1> QED BY <1>1, AuthenticationHolds, PTL

(* verify_server_proof accepts only the answer of a server session that    *)
(* holds this address's verifier and has verified this very login's M1.    *)
THEOREM ServersAreGenuine == Spec => []ServerIsGenuine
<1>1. ASSUME AuthInv PROVE ServerIsGenuine
  <2> SUFFICES ASSUME NEW l \in Logins, Accepted(l)
               PROVE  \E s \in Sessions :
                        /\ Verified(s)
                        /\ session[s].email = Canonical[login[l].email]
                        /\ session[s].verifier = account[session[s].email]
                        /\ login[l].proof = ServerSecret(s)
    BY DEF ServerIsGenuine
  <2>1. PICK s \in Sessions : Verified(s) /\ login[l].proof = ServerSecret(s)
    BY <1>1 DEF AuthInv, AnswersWereVerified
  <2>2. /\ session[s] # NoSession /\ session[s].email \in Emails
        /\ session[s].verifier # NoAccount /\ ServerSecret(s).x = session[s].verifier
    BY <1>1, <2>1, ServerSecretFacts, SrpRecords DEF AuthInv, Verified
  <2>3. session[s].verifier = account[session[s].email]
    BY <1>1, <2>2 DEF AuthInv, SessionsHoldVerifiers
  <2>4. login[l].email = account[session[s].email].email
    BY <1>1, <2>1, <2>2, <2>3 DEF AuthInv, ProofsAreSent, Accepted
  <2>5. Canonical[login[l].email] = session[s].email
    BY <1>1, <2>2, <2>3, <2>4 DEF AuthInv, AccountsAreFiled
  <2> QED BY <2>1, <2>3, <2>5
<1> QED BY <1>1, AuthenticationHolds, PTL

(* A server session verifies only the M1 of a login for its own address,   *)
(* under the spelling that was registered.                                 *)
THEOREM ClientsAreGenuine == Spec => []ClientIsGenuine
<1>1. ASSUME AuthInv PROVE ClientIsGenuine
  <2> SUFFICES ASSUME NEW s \in Sessions, Verified(s)
               PROVE  \E l \in Logins :
                        /\ login[l] # NoLogin
                        /\ login[l].proof = ServerSecret(s)
                        /\ Canonical[login[l].email] = session[s].email
                        /\ login[l].email = account[session[s].email].email
    BY DEF ClientIsGenuine
  <2>1. PICK l \in Logins : /\ login[l] # NoLogin /\ login[l].proof = ServerSecret(s)
                            /\ login[l].proof.x.email = login[l].email
    BY <1>1 DEF AuthInv, VerifiedWereSent, ProofsAreSent
  <2>2. /\ session[s] # NoSession /\ session[s].email \in Emails
        /\ session[s].verifier # NoAccount /\ ServerSecret(s).x = session[s].verifier
    BY <1>1, ServerSecretFacts, SrpRecords DEF AuthInv, Verified
  <2>3. session[s].verifier = account[session[s].email]
    BY <1>1, <2>2 DEF AuthInv, SessionsHoldVerifiers
  <2>4. login[l].email = account[session[s].email].email
    BY <2>1, <2>2, <2>3
  <2>5. Canonical[login[l].email] = session[s].email
    BY <1>1, <2>2, <2>3, <2>4 DEF AuthInv, AccountsAreFiled
  <2> QED BY <2>1, <2>4, <2>5
<1> QED BY <1>1, AuthenticationHolds, PTL

-----------------------------------------------------------------------------
(* Single use: the second inductive invariant.                             *)
SingleInv == AuthInv /\ EphemeralsAreSpent

LEMMA StepSpent ==
  ASSUME SingleUse, SingleInv, [Next]_vars
  PROVE  EphemeralsAreSpent'
<1>1. TypeOK /\ EphemeralsAreSpent
  BY DEF SingleInv, AuthInv
<1>2. \A l \in Logins : login[l] # NoLogin => login[l].proof.a \in Ephemerals
  BY <1>1, SrpRecords DEF TypeOK
<1>3. CASE \E l \in Logins, e \in Emails, p \in Passwords, a \in Ephemerals : Prove(l, e, p, a)
  <2>1. PICK l \in Logins, e \in Emails, p \in Passwords, a \in Ephemerals : Prove(l, e, p, a)
    BY <1>3
  <2>2. PICK m \in Secrets :
          /\ m.a = a
          /\ login' = [login EXCEPT ![l] = [email |-> e, proof |-> m, phase |-> "proved"]]
    BY <1>1, <2>1, ProveFacts
  <2>3. login[l] = NoLogin /\ ephemeral[a] = "fresh" /\ ephemeral' = [ephemeral EXCEPT ![a] = "used"]
    BY <2>1 DEF Prove, Usable
  <2>4. \A k \in Logins : login[k] # NoLogin => login[k].proof.a # a
    BY <1>1, <2>3 DEF EphemeralsAreSpent
  <2>5. /\ login'[l].proof.a = a
        /\ \A k \in Logins : k # l => login'[k] = login[k]
    BY <1>1, <2>2 DEF TypeOK
  <2>6. /\ ephemeral'[a] = "used"
        /\ \A b \in Ephemerals : b # a => ephemeral'[b] = ephemeral[b]
    BY <1>1, <2>3 DEF TypeOK
  <2> QED BY <1>1, <1>2, <2>1, <2>3, <2>4, <2>5, <2>6 DEF EphemeralsAreSpent
<1>4. CASE /\ \A l \in Logins : login[l] = NoLogin => login'[l] = NoLogin
           /\ \A a \in Ephemerals : ephemeral[a] \in {"used", "destroyed"} =>
                ephemeral'[a] \in {"used", "destroyed"}
  BY <1>1, <1>2, <1>4, StepsKeep DEF EphemeralsAreSpent
<1>5. ASSUME NEW a \in Ephemerals, generate_client_ephemeral(a) \/ DropEphemeral(a)
      PROVE  /\ UNCHANGED login
             /\ \A b \in Ephemerals : ephemeral[b] \in {"used", "destroyed"} =>
                  ephemeral'[b] \in {"used", "destroyed"}
  BY <1>1, <1>5 DEF generate_client_ephemeral, DropEphemeral, TypeOK
<1>6. ASSUME NEW l \in Logins, (\E m2 \in m2s : Accept(l, m2)) \/ DropProof(l)
      PROVE  /\ UNCHANGED ephemeral
             /\ \A k \in Logins : login[k] = NoLogin => login'[k] = NoLogin
  BY <1>1, <1>6 DEF Accept, DropProof, TypeOK
<1> QED BY <1>3, <1>4, <1>5, <1>6 DEF Next, vars, server, Register, ServerInit, ServerVerify

THEOREM SpentHolds ==
  ASSUME SingleUse
  PROVE  Spec => []SingleInv
<1>1. Init => EphemeralsAreSpent
  BY DEF Init, EphemeralsAreSpent
<1>2. AuthInv /\ EphemeralsAreSpent /\ [Next]_vars => EphemeralsAreSpent'
  BY StepSpent DEF SingleInv
<1>3. AuthInv /\ EphemeralsAreSpent => SingleInv
  BY DEF SingleInv
<1> QED BY <1>1, <1>2, <1>3, AuthenticationHolds, PTL DEF Spec

(* What the doc of SrpEphemeralHandle asks is enough: if every caller uses *)
(* its ephemeral once, no server session completes two logins.             *)
THEOREM DistinctLogins ==
  ASSUME SingleUse
  PROVE  Spec => []LoginsAreDistinct
<1>1. SingleInv => LoginsAreDistinct
  BY DEF SingleInv, EphemeralsAreSpent, LoginsAreDistinct, Accepted
<1> QED BY <1>1, SpentHolds, PTL

-----------------------------------------------------------------------------
LEMMA VerifyIsCommit ==
  ASSUME SingleInv, NEW s \in Sessions, NEW m1 \in m1s, ServerVerify(s, m1)
  PROVE  \E e \in Emails, a \in Ephemerals : Auth!Commit(s, e, a)
<1>1. TypeOK /\ VerifiedWereSent /\ ProofsAreSent /\ EphemeralsAreSpent
  BY DEF SingleInv, AuthInv
<1>2. PICK e, a : e = session[s].email /\ a = session[s].a
  OBVIOUS
<1>3. /\ session[s] # NoSession /\ ~ Verified(s) /\ Verified(s)'
      /\ m1 = ServerSecret(s) /\ ServerSecret(s)' = m1
      /\ \A r \in Sessions : r # s => session'[r] = session[r]
  BY <1>1, VerifyFacts
<1>4. e \in Emails /\ a \in Ephemerals
  BY <1>1, <1>2, <1>3, SrpRecords DEF TypeOK
<1>5. ASSUME NEW r \in Sessions, Verified(r)
      PROVE  session[r].a # a
  <2> SUFFICES ASSUME session[r].a = a PROVE FALSE
    OBVIOUS
  <2>1. PICK k \in Logins : login[k] # NoLogin /\ login[k].proof = ServerSecret(r)
    BY <1>1, <1>5 DEF VerifiedWereSent, ProofsAreSent
  <2>2. PICK l \in Logins : login[l] # NoLogin /\ login[l].proof = ServerSecret(s)
    BY <1>1, <1>3 DEF ProofsAreSent
  <2>3. ServerSecret(r).a = a /\ ServerSecret(s).a = a
    BY <1>1, <1>2, <1>3, <1>5, ServerSecretFacts DEF Verified
  <2>4. ServerSecret(r) = ServerSecret(s)
    BY <1>1, <2>1, <2>2, <2>3 DEF EphemeralsAreSpent
  <2>5. ServerSecret(r).B.b = r /\ ServerSecret(s).B.b = s
    BY <1>1, <1>3, <1>5, ServerSecretFacts DEF Verified
  <2> QED BY <1>3, <1>5, <2>4, <2>5
<1>6. session'[s].email = e /\ session'[s].a = a
  <2>1. [Next]_vars
    BY DEF Next
  <2>2. session'[s] # NoSession /\ session'[s].email = e /\ ServerSecret(s)' = ServerSecret(s)
    BY <1>1, <1>2, <1>3, <2>1, StepsKeep
  <2>3. session'[s].a = a
    BY <1>1, <1>2 DEF ServerVerify, TypeOK, Session
  <2> QED BY <2>2, <2>3
<1>7. peerBar' = [r \in Sessions |-> IF Verified(r)'
                    THEN [address |-> session'[r].email, attempt |-> session'[r].a]
                    ELSE NoSession]
  BY DEF peerBar
<1>8. peerBar' = [peerBar EXCEPT ![s] = [address |-> e, attempt |-> a]]
  BY <1>3, <1>6, <1>7 DEF peerBar, Verified
<1>9. peerBar[s] = NoSession
  BY <1>3 DEF peerBar
<1>10. \A r \in Sessions : peerBar[r] # NoSession => peerBar[r].attempt # a
  BY <1>5 DEF peerBar
<1>11. UNCHANGED completedBar
  BY DEF ServerVerify, completedBar, Accepted
<1> QED BY <1>4, <1>8, <1>9, <1>10, <1>11 DEF Auth!Commit

LEMMA AcceptIsComplete ==
  ASSUME SingleInv, NEW l \in Logins, NEW m2 \in m2s, Accept(l, m2)
  PROVE  \E e \in Emails, a \in Ephemerals : Auth!Complete(e, a)
<1>1. TypeOK /\ AuthInv /\ EphemeralsAreSpent
  BY DEF SingleInv, AuthInv
<1>2. /\ login[l] # NoLogin /\ ~ Accepted(l) /\ Accepted(l)' /\ login[l].proof = m2
      /\ \A k \in Logins : k # l => login'[k] = login[k]
  BY <1>1, AcceptFacts
<1>3. PICK e, a : e = Canonical[login[l].email] /\ a = login[l].proof.a
  OBVIOUS
<1>4. e \in Emails /\ a \in Ephemerals
  BY <1>1, <1>2, <1>3, SrpRecords, ConstantsAssumption DEF TypeOK
<1>5. PICK s \in Sessions : /\ Verified(s) /\ session[s].email = e
                            /\ login[l].proof = ServerSecret(s)
  <2>1. PICK s \in Sessions : Verified(s) /\ m2 = ServerSecret(s)
    BY <1>1 DEF AuthInv, AnswersWereVerified
  <2>2. /\ session[s] # NoSession /\ session[s].email \in Emails
        /\ session[s].verifier # NoAccount /\ m2.x = session[s].verifier
    BY <1>1, <2>1, ServerSecretFacts, SrpRecords DEF Verified
  <2>3. session[s].verifier = account[session[s].email]
    BY <1>1, <2>2 DEF AuthInv, SessionsHoldVerifiers
  <2>4. login[l].email = account[session[s].email].email
    BY <1>1, <1>2, <2>2, <2>3 DEF AuthInv, ProofsAreSent
  <2>5. session[s].email = e
    BY <1>1, <1>3, <2>2, <2>3, <2>4 DEF AuthInv, AccountsAreFiled
  <2> QED BY <1>2, <2>1, <2>5
<1>6. peerBar[s] = [address |-> e, attempt |-> a]
  BY <1>1, <1>3, <1>5, ServerSecretFacts DEF peerBar, Verified
<1>7. [address |-> e, attempt |-> a] \notin completedBar
  BY <1>1, <1>2, <1>3 DEF completedBar, EphemeralsAreSpent, Accepted
<1>8. /\ login'[l].email = login[l].email /\ login'[l].proof = login[l].proof
  BY <1>1, <1>2, StepsKeep DEF Next
<1>9. {k \in Logins : Accepted(k)'} = {k \in Logins : Accepted(k)} \cup {l}
  BY <1>2 DEF Accepted
<1>10. completedBar' = {[address |-> Canonical[login'[k].email],
                         attempt |-> login'[k].proof.a] : k \in {j \in Logins : Accepted(j)'}}
  BY DEF completedBar
<1>11. completedBar' = completedBar \cup {[address |-> e, attempt |-> a]}
  BY <1>2, <1>3, <1>8, <1>9, <1>10 DEF completedBar
<1>12. UNCHANGED peerBar
  BY DEF Accept, server, peerBar, Verified
<1> QED BY <1>4, <1>5, <1>6, <1>7, <1>11, <1>12 DEF Auth!Complete

LEMMA OtherStepsStutter ==
  ASSUME SingleInv, [Next]_vars,
         ~ \E s \in Sessions, m1 \in m1s : ServerVerify(s, m1),
         ~ \E l \in Logins, m2 \in m2s : Accept(l, m2)
  PROVE  UNCHANGED <<peerBar, completedBar>>
<1>1. TypeOK
  BY DEF SingleInv, AuthInv
<1>2. \A s \in Sessions : Verified(s)' => Verified(s)
  BY <1>1 DEF Next, vars, server, Register, generate_client_ephemeral, DropEphemeral,
     ServerInit, Prove, DropProof, Verified, TypeOK
<1>3. \A s \in Sessions : Verified(s) => session'[s] = session[s]
  BY <1>1 DEF Next, vars, server, Register, generate_client_ephemeral, DropEphemeral,
     ServerInit, Prove, DropProof, Verified, TypeOK
<1>4. peerBar' = peerBar
  <2>1. peerBar' = [s \in Sessions |-> IF Verified(s)'
                      THEN [address |-> session'[s].email, attempt |-> session'[s].a]
                      ELSE NoSession]
    BY DEF peerBar
  <2>2. \A s \in Sessions : Verified(s)' <=> Verified(s)
    BY <1>2, <1>3 DEF Verified
  <2> QED BY <1>3, <2>1, <2>2 DEF peerBar
<1>5. \A l \in Logins : Accepted(l)' => Accepted(l)
  BY <1>1, NewlyAccepted
<1>6. \A l \in Logins : Accepted(l) => login'[l] = login[l]
  <2>1. ASSUME NEW k \in Logins, NEW e \in Emails, NEW p \in Passwords, NEW a \in Ephemerals,
               Prove(k, e, p, a)
        PROVE  \A l \in Logins : Accepted(l) => login'[l] = login[l]
    <3>1. login[k] = NoLogin /\ \E r : login' = [login EXCEPT ![k] = r]
      BY <1>1, <2>1, ProveFacts
    <3> QED BY <1>1, <3>1 DEF TypeOK, Accepted
  <2>2. ASSUME NEW k \in Logins, DropProof(k)
        PROVE  \A l \in Logins : Accepted(l) => login'[l] = login[l]
    BY <1>1, <2>2 DEF DropProof, TypeOK, Accepted
  <2> QED BY <2>1, <2>2 DEF Next, vars, server, Register, generate_client_ephemeral,
          DropEphemeral, ServerInit
<1>7. completedBar' = completedBar
  <2>1. completedBar' = {[address |-> Canonical[login'[k].email],
                          attempt |-> login'[k].proof.a] : k \in {j \in Logins : Accepted(j)'}}
    BY DEF completedBar
  <2>2. {j \in Logins : Accepted(j)'} = {j \in Logins : Accepted(j)}
    BY <1>5, <1>6 DEF Accepted
  <2> QED BY <1>6, <2>1, <2>2 DEF completedBar
<1> QED BY <1>4, <1>7

(* If every caller uses its ephemeral once, the login implements mutual    *)
(* authentication: one session per login, and completion only after it.    *)
THEOREM LoginImplementsMutualAuth ==
  ASSUME SingleUse
  PROVE  Spec => ImplementsMutualAuth
<1>1. Init => Auth!Init
  BY DEF Init, Auth!Init, peerBar, completedBar, Verified, Accepted
<1>2. ASSUME SingleInv, [Next]_vars
      PROVE  [Auth!Next]_<<peerBar, completedBar>>
  <2>1. ASSUME NEW s \in Sessions, NEW m1 \in m1s, ServerVerify(s, m1)
        PROVE  Auth!Next
    BY <1>2, <2>1, VerifyIsCommit DEF Auth!Next
  <2>2. ASSUME NEW l \in Logins, NEW m2 \in m2s, Accept(l, m2)
        PROVE  Auth!Next
    BY <1>2, <2>2, AcceptIsComplete DEF Auth!Next
  <2> QED BY <1>2, <2>1, <2>2, OtherStepsStutter
<1> QED BY <1>1, <1>2, SpentHolds, PTL DEF Spec, ImplementsMutualAuth, Auth!Spec

(* One session and one login for each proof that was accepted. *)
OneSessionEach ==
  \A l \in Logins : Accepted(l) =>
    \E s \in Sessions :
      /\ Verified(s) /\ login[l].proof = ServerSecret(s)
      /\ \A r \in Sessions : Verified(r) /\ session[r].a = login[l].proof.a => r = s
      /\ \A k \in Logins : login[k] # NoLogin /\ login[k].proof.a = session[s].a => k = l

(* Injective agreement: with single-use ephemerals an accepted login has   *)
(* one server session that verified anything of this ephemeral, and that   *)
(* session has no other login, accepted or not (wasm.rs:349, srp.rs:262).  *)
THEOREM LoginsAgreeOneToOne ==
  ASSUME SingleUse
  PROVE  Spec => []OneSessionEach
<1>1. ASSUME SingleInv, NEW l \in Logins, Accepted(l)
      PROVE  \E s \in Sessions :
               /\ Verified(s) /\ login[l].proof = ServerSecret(s)
               /\ \A r \in Sessions : Verified(r) /\ session[r].a = login[l].proof.a => r = s
               /\ \A k \in Logins :
                    login[k] # NoLogin /\ login[k].proof.a = session[s].a => k = l
  <2>1. TypeOK /\ AuthInv /\ EphemeralsAreSpent /\ login[l] # NoLogin
    BY <1>1 DEF SingleInv, AuthInv, Accepted
  <2>2. PICK s \in Sessions : Verified(s) /\ login[l].proof = ServerSecret(s)
    BY <1>1, <2>1 DEF AuthInv, AnswersWereVerified
  <2>3. ServerSecret(s).a = session[s].a /\ ServerSecret(s).B.b = s
    BY <2>1, <2>2, ServerSecretFacts DEF Verified
  <2>4. ASSUME NEW k \in Logins, login[k] # NoLogin, login[k].proof.a = login[l].proof.a
        PROVE  k = l
    BY <2>1, <2>4 DEF EphemeralsAreSpent
  <2>5. ASSUME NEW r \in Sessions, Verified(r), session[r].a = login[l].proof.a
        PROVE  r = s
    <3>1. ServerSecret(r).a = session[r].a /\ ServerSecret(r).B.b = r
      BY <2>1, <2>5, ServerSecretFacts DEF Verified
    <3>2. PICK k \in Logins : login[k] # NoLogin /\ login[k].proof = ServerSecret(r)
      BY <2>1, <2>5 DEF AuthInv, VerifiedWereSent, ProofsAreSent
    <3>3. ServerSecret(r) = ServerSecret(s)
      BY <2>2, <2>4, <2>5, <3>1, <3>2
    <3> QED BY <2>3, <3>1, <3>3
  <2> QED BY <2>2, <2>3, <2>4, <2>5
<1>2. SingleInv => OneSessionEach
  BY <1>1 DEF OneSessionEach
<1> QED BY <1>2, SpentHolds, PTL
=============================================================================
