---------------------------- MODULE AccountsProofs ----------------------------
(***************************************************************************)
(* Proofs about Accounts, for any number of requests, users and base URLs. *)
(*                                                                         *)
(* Core is the inductive invariant everything rests on; FrameNext says     *)
(* which steps write which table, so that the proof of a property only     *)
(* looks at the steps that can disturb it. Spendable, Granted, SignedIn    *)
(* and Latest are the strengthenings of the single properties.             *)
(***************************************************************************)
EXTENDS Accounts, TLAPS

\* The user has an account.
Registered(u) == u \in Users /\ password[u] # None

\* The operations that claim a ceremony.
Finishes == {"finish_registration", "finish_authentication"}

\* What the requests in flight know is still so: they act for registered
\* users, a ceremony under way has a usable identity, and whoever finishes a
\* registration carries the handle of its own user.
Requesters ==
  \A r \in Requests :
    /\ req[r].op \in AuthedOps \cup {"login", "request"} => Registered(req[r].user)
    /\ req[r].op = "register" => req[r].user \in Users
    /\ req[r].at = "create" /\ req[r].op \in {"start_registration", "start_authentication"}
         => req[r].url \in Usable
    /\ req[r].at = "check" => req[r].op \notin Finishes
    /\ At(r, "apply", "finish_registration") => req[r].handle = req[r].user

\* Every row names a registered user.
Known ==
  /\ \A s \in DOMAIN sessions : Registered(sessions[s].user)
  /\ \A c \in DOMAIN credentials : Registered(credentials[c].user)
  /\ \A t \in DOMAIN tokens : tokens[t].kind # "invite" => Registered(tokens[t].user)
  /\ \A u \in Users : verifiedBy[u] # None => Registered(u)

\* The inductive invariant.
Core == TypeOK /\ Requesters /\ Known

USE DEF Maybe

\* The request records that do nothing.
LEMMA RecordFacts ==
  /\ New \in RequestRec /\ New.op = "none"
  /\ Ended \in RequestRec /\ Ended.op = "none" /\ Ended.at = "ended"
  BY DEF New, Ended, RequestRec, Steps

\* Inserting a well-formed row keeps a table well formed.
LEMMA TableWith ==
  ASSUME NEW t, NEW rec, Table(t, rec), NEW k \in Ids, NEW v \in rec
  PROVE  Table(With(t, k, v), rec)
  BY DEF Table, With

\* So does removing rows.
LEMMA TableWithout ==
  ASSUME NEW t, NEW rec, Table(t, rec), NEW S
  PROVE  Table(Without(t, S), rec)
  BY DEF Table, Without

\* Ending a request touches no other.
LEMMA EndTyped ==
  ASSUME req \in [Requests -> RequestRec], NEW r \in Requests, End(r)
  PROVE  /\ req' \in [Requests -> RequestRec]
         /\ req'[r] = Ended
         /\ \A q \in Requests \ {r} : req'[q] = req[q]
  BY RecordFacts DEF End

\* Counting a use keeps the counters natural numbers.
LEMMA SpendTyped ==
  ASSUME uses \in [Requests \cup {Invite} -> Nat], NEW t, Spend(t)
  PROVE  uses' \in [Requests \cup {Invite} -> Nat]
<1> DEFINE S == Requests \cup {Invite}
<1>1. CASE t \in S
  BY <1>1 DEF Spend
<1>2. CASE t \notin S
  <2>1. uses' = uses BY <1>2 DEF Spend
  <2> QED BY <2>1
<1> QED BY <1>1, <1>2

\* Nobody is ever unregistered.
KeepsUsers == \A u \in Users : password[u] # None => password'[u] # None

\* A step that ends its request keeps what the requests know.
LEMMA EndKeeps ==
  ASSUME Core, NEW r \in Requests, End(r), KeepsUsers
  PROVE  req' \in [Requests -> RequestRec] /\ Requesters'
<1>1. req \in [Requests -> RequestRec] BY DEF Core, TypeOK
<1>2. /\ req' \in [Requests -> RequestRec]
      /\ req'[r] = Ended
      /\ \A q \in Requests \ {r} : req'[q] = req[q]
  BY <1>1, EndTyped
<1>3. ASSUME NEW q \in Requests PROVE Requesters!(q)'
  <2>1. CASE q = r
    BY <2>1, <1>2, RecordFacts DEF At, AuthedOps
  <2>2. CASE q # r
    BY <2>2, <1>2 DEF Core, Requesters, At, Registered, KeepsUsers
  <2> QED BY <2>1, <2>2
<1> QED BY <1>2, <1>3 DEF Requesters

\* The inductive step, one lemma for each kind of step.
LEMMA CoreAuthenticate ==
  ASSUME Core, NEW r \in Requests, Authenticate(r)
  PROVE  Core'
<1>0. PICK op \in AuthedOps, s \in DOMAIN sessions :
        \E item \in Items(op, sessions[s].user) :
          req' = [req EXCEPT ![r] =
                      [New EXCEPT !.at = FirstStep(op), !.op = op, !.item = item,
                                  !.user = sessions[s].user, !.session = s]]
  BY DEF Authenticate
<1>1. PICK item \in Items(op, sessions[s].user) :
        req' = [req EXCEPT ![r] =
                      [New EXCEPT !.at = FirstStep(op), !.op = op, !.item = item,
                                  !.user = sessions[s].user, !.session = s]]
  BY <1>0
<1>2. FirstStep(op) \in Steps /\ FirstStep(op) # "create"
  BY DEF FirstStep, Steps
<1>3. item \in Maybe(Ids)
  BY DEF Items, Core, TypeOK, Table, SessionsOf
<1>4. s \in Ids /\ sessions[s].user \in Users /\ Registered(sessions[s].user)
  BY DEF Core, TypeOK, Table, SessionRec, Known
<1>5. DEFINE n == [New EXCEPT !.at = FirstStep(op), !.op = op, !.item = item,
                              !.user = sessions[s].user, !.session = s]
<1>6. /\ n \in RequestRec /\ n.op = op /\ n.at = FirstStep(op)
      /\ n.user = sessions[s].user
  BY <1>2, <1>3, <1>4 DEF RequestRec, New
<1>7. n.op \in Finishes => n.at = "claim"
  BY <1>6 DEF FirstStep, Finishes
<1> HIDE DEF n
<1>8. /\ req' \in [Requests -> RequestRec] /\ req'[r] = n
      /\ \A q \in Requests \ {r} : req'[q] = req[q]
  BY <1>1, <1>6 DEF Core, TypeOK, n
<1>9. UNCHANGED <<rows, config, history>> BY DEF Authenticate
<1>10. ASSUME NEW q \in Requests PROVE Requesters!(q)'
  <2>1. CASE q = r
    BY <2>1, <1>8, <1>6, <1>7, <1>2, <1>4, <1>9
       DEF At, AuthedOps, Registered, config, Finishes
  <2>2. CASE q # r
    BY <2>2, <1>8, <1>9 DEF Core, Requesters, At, Registered, config
  <2> QED BY <2>1, <2>2
<1> QED BY <1>8, <1>9, <1>10 DEF Core, TypeOK, Requesters, Known, Registered, rows, config, history

LEMMA CoreArrive ==
  ASSUME Core, NEW r \in Requests, Arrive(r)
  PROVE  Core'
<1>1. PICK op \in OpenOps, u \in Users :
        /\ op = "login" => password[u] # None
        /\ op = "request" => verifiedBy[u] # None
        /\ \E item \in Items(op, u),
              url \in IF op = "set_base_url" THEN Urls \cup {None} ELSE {None} :
             req' = [req EXCEPT ![r] =
                      [New EXCEPT !.at = FirstStep(op), !.op = op, !.item = item,
                                  !.user = u, !.url = url]]
  BY DEF Arrive
<1>2. PICK item \in Items(op, u), url \in Maybe(Urls) :
        req' = [req EXCEPT ![r] =
                      [New EXCEPT !.at = FirstStep(op), !.op = op, !.item = item,
                                  !.user = u, !.url = url]]
  BY <1>1
<1>3. FirstStep(op) \in Steps /\ FirstStep(op) # "create"
  BY DEF FirstStep, Steps
<1>4. item \in Maybe(Ids)
  BY DEF Items, Core, TypeOK, Table, SessionsOf
<1>5. DEFINE n == [New EXCEPT !.at = FirstStep(op), !.op = op, !.item = item,
                              !.user = u, !.url = url]
<1>6. n \in RequestRec /\ n.op = op /\ n.at = FirstStep(op) /\ n.user = u
  BY <1>3, <1>4 DEF RequestRec, New
<1>10. op # "finish_registration" /\ (n.op \in Finishes => n.at = "claim")
  BY <1>6 DEF OpenOps, FirstStep, Finishes
<1> HIDE DEF n
<1>7. /\ req' \in [Requests -> RequestRec] /\ req'[r] = n
      /\ \A q \in Requests \ {r} : req'[q] = req[q]
  BY <1>2, <1>6 DEF Core, TypeOK, n
<1>8. UNCHANGED <<rows, config, history>> BY DEF Arrive
<1>9. ASSUME NEW q \in Requests PROVE Requesters!(q)'
  <2>1. CASE q = r
    <3>1. op \in OpenOps => op \notin AuthedOps
      BY DEF OpenOps, AuthedOps
    <3> QED BY <2>1, <3>1, <1>7, <1>6, <1>1, <1>3, <1>8, <1>10
            DEF At, Registered, config, AuthedOps, Core, Known, Finishes
  <2>2. CASE q # r
    BY <2>2, <1>7, <1>8 DEF Core, Requesters, At, Registered, config
  <2> QED BY <2>1, <2>2
<1> QED BY <1>7, <1>8, <1>9
        DEF Core, TypeOK, Requesters, Known, Registered, rows, config, history

\* A request that only moves on keeps the tables.
LEMMA CoreMoves ==
  ASSUME Core, NEW r \in Requests, CheckPassword(r) \/ ReadIdentity(r)
  PROVE  Core'
<1>1. UNCHANGED <<rows, config, history>>
  BY DEF CheckPassword, ReadIdentity
<1>2. req[r] \in RequestRec /\ baseUrl \in Maybe(Urls)
  BY DEF Core, TypeOK
<1>3. /\ req' \in [Requests -> RequestRec]
      /\ req'[r].op = req[r].op /\ req'[r].user = req[r].user
      /\ req'[r].at \in {"identity", "create", "apply"}
      /\ req'[r].at = "apply" => req[r].at = "check"
      /\ req'[r].at = "create" => /\ req'[r].url = baseUrl
                                  /\ req[r].op \in {"start_registration", "start_authentication"}
                                       => baseUrl \in Usable
      /\ \A q \in Requests \ {r} : req'[q] = req[q]
  <2>1. CASE CheckPassword(r)
    BY <2>1, <1>2 DEF CheckPassword, Move, RequestRec, Steps, Core, TypeOK
  <2>2. CASE ReadIdentity(r)
    BY <2>2, <1>2 DEF ReadIdentity, RequestRec, Steps, Core, TypeOK
  <2> QED BY <2>1, <2>2
<1>4. ASSUME NEW q \in Requests PROVE Requesters!(q)'
  <2>1. CASE q = r
    <3>1. req'[r].at # "check"
      BY <1>3
    <3>2. req'[r].at = "apply" => req[r].op # "finish_registration"
      BY <1>3 DEF Core, Requesters, Finishes
    <3> QED BY <2>1, <3>1, <3>2, <1>1, <1>3 DEF Core, Requesters, At, Registered, config
  <2>2. CASE q # r
    BY <2>2, <1>1, <1>3 DEF Core, Requesters, At, Registered, config
  <2> QED BY <2>1, <2>2
<1> QED BY <1>1, <1>3, <1>4
        DEF Core, TypeOK, Requesters, Known, Registered, rows, config, history

\* The steps that make a ceremony or a token.
LEMMA CoreCreate ==
  ASSUME Core, NEW r \in Requests,
         \/ CreateRegistration(r) \/ CreateAuthentication(r)
         \/ CreateVerification(r) \/ CreateReset(r) \/ CreateInvite(r)
  PROVE  Core'
<1>1. End(r) /\ UNCHANGED <<sessions, credentials, config, uses>>
  BY DEF CreateRegistration, CreateAuthentication, CreateVerification, CreateReset,
         CreateInvite, history
<1>2. KeepsUsers BY <1>1 DEF KeepsUsers, config
<1>3. req' \in [Requests -> RequestRec] /\ Requesters'
  BY <1>1, <1>2, EndKeeps
<1>4. r \in Ids /\ req[r] \in RequestRec BY DEF Ids, Core, TypeOK
<1>5. Table(ceremonies', CeremonyRec)
  <2>1. CASE CreateRegistration(r)
    <3>1. Ceremony(r, req[r].user, req[r].session) \in CeremonyRec
      BY <2>1, <1>4 DEF CreateRegistration, Ceremony, CeremonyRec, RequestRec, Core,
                        Requesters, At
    <3> QED BY <2>1, <3>1, <1>4, TableWith DEF CreateRegistration, Core, TypeOK
  <2>2. CASE CreateAuthentication(r)
    <3>1. Ceremony(r, None, None) \in CeremonyRec
      BY <2>2, <1>4 DEF CreateAuthentication, Ceremony, CeremonyRec, RequestRec, Core,
                        Requesters, At
    <3> QED BY <2>2, <3>1, <1>4, TableWith DEF CreateAuthentication, Core, TypeOK
  <2>3. CASE CreateVerification(r) \/ CreateReset(r) \/ CreateInvite(r)
    BY <2>3 DEF CreateVerification, CreateReset, CreateInvite, Core, TypeOK
  <2> QED BY <2>1, <2>2, <2>3
<1>6. Table(tokens', TokenRec)
  <2>1. ASSUME NEW kind \in {"invite", "verification", "reset"}, NEW u \in Maybe(Users)
        PROVE  Token(kind, u) \in TokenRec
    BY DEF Token, TokenRec
  <2>2. CASE CreateVerification(r)
    <3>1. Table(Superseded(req[r].user), TokenRec)
      BY DEF Superseded, Table, TokenRec, Core, TypeOK
    <3>2. Token("verification", req[r].user) \in TokenRec
      BY <2>1, <1>4 DEF RequestRec
    <3> QED BY <2>2, <3>1, <3>2, <1>4, TableWith DEF CreateVerification
  <2>3. CASE CreateReset(r)
    <3>1. Token("reset", req[r].user) \in TokenRec
      BY <2>1, <1>4 DEF RequestRec
    <3> QED BY <2>3, <3>1, <1>4, TableWith DEF CreateReset, Core, TypeOK
  <2>4. CASE CreateInvite(r)
    <3>1. Token("invite", None) \in TokenRec
      BY <2>1
    <3> QED BY <2>4, <3>1, <1>4, TableWith DEF CreateInvite, Core, TypeOK
  <2>5. CASE CreateRegistration(r) \/ CreateAuthentication(r)
    BY <2>5 DEF CreateRegistration, CreateAuthentication, Core, TypeOK
  <2> QED BY <2>2, <2>3, <2>4, <2>5
<1>7. newest' \in [Users -> Maybe(Ids)]
  <2>1. CASE CreateVerification(r)
    BY <2>1, <1>4 DEF CreateVerification, Core, TypeOK
  <2>2. CASE ~CreateVerification(r)
    BY <2>2 DEF CreateRegistration, CreateAuthentication, CreateReset, CreateInvite,
                history, Core, TypeOK
  <2> QED BY <2>1, <2>2
<1>8. ASSUME NEW t \in DOMAIN tokens', tokens'[t].kind # "invite"
      PROVE  Registered(tokens'[t].user)
  <2>1. CASE CreateVerification(r)
    <3>1. Registered(req[r].user)
      BY <2>1 DEF CreateVerification, At, Core, Requesters, AuthedOps
    <3>2. tokens' = With(Superseded(req[r].user), r, Token("verification", req[r].user))
      BY <2>1 DEF CreateVerification
    <3>3. CASE t = r
      BY <3>1, <3>2, <3>3 DEF With, Token
    <3>4. CASE t # r
      <4>1. t \in DOMAIN tokens /\ tokens[t] \in TokenRec
        BY <3>2, <3>4 DEF With, Superseded, Core, TypeOK, Table
      <4>2. tokens'[t].kind = tokens[t].kind /\ tokens'[t].user = tokens[t].user
        BY <3>2, <3>4, <4>1 DEF With, Superseded, TokenRec
      <4> QED BY <4>1, <4>2, <1>8 DEF Core, Known
    <3> QED BY <3>3, <3>4
  <2>2. CASE CreateReset(r)
    BY <2>2, <1>8 DEF CreateReset, At, Core, Requesters, Known, With, Token
  <2>3. CASE CreateInvite(r)
    BY <2>3, <1>8 DEF CreateInvite, Core, Known, With, Token
  <2>4. CASE CreateRegistration(r) \/ CreateAuthentication(r)
    BY <2>4, <1>8 DEF CreateRegistration, CreateAuthentication, Core, Known
  <2> QED BY <2>1, <2>2, <2>3, <2>4
<1> QED BY <1>1, <1>3, <1>5, <1>6, <1>7, <1>8
        DEF Core, TypeOK, Known, Registered, config

\* The claim hands the ceremony's user and identity to its own user only.
LEMMA CoreClaim ==
  ASSUME Core, NEW r \in Requests, Claim(r)
  PROVE  Core'
<1> DEFINE c == req[r].item
           won == [req[r] EXCEPT !.at = "apply", !.url = ceremonies[c].url,
                                 !.handle = ceremonies[c].user]
<1>1. /\ c \in DOMAIN ceremonies /\ ceremonies' = [ceremonies EXCEPT ![c].open = FALSE]
      /\ UNCHANGED <<sessions, credentials, tokens, config, history>>
  BY DEF Claim, OpenCeremony
<1>2. ceremonies[c] \in CeremonyRec /\ req[r] \in RequestRec
  BY <1>1 DEF Core, TypeOK, Table
<1>3. Table(ceremonies', CeremonyRec)
  BY <1>1, <1>2 DEF Core, TypeOK, Table, CeremonyRec
<1>4. KeepsUsers BY <1>1 DEF KeepsUsers, config
<1>5. req' \in [Requests -> RequestRec] /\ Requesters'
  <2>1. CASE End(r)
    BY <2>1, <1>4, EndKeeps
  <2>2. CASE Bound(r, ceremonies[c]) /\ req' = [req EXCEPT ![r] = won]
    <3>1. /\ won \in RequestRec /\ won.at = "apply" /\ won.op = req[r].op
          /\ won.user = req[r].user /\ won.handle = ceremonies[c].user
      BY <1>2, AccountsAssumption DEF RequestRec, CeremonyRec, Steps
    <3> HIDE DEF won
    <3>2. /\ req' \in [Requests -> RequestRec] /\ req'[r] = won
          /\ \A q \in Requests \ {r} : req'[q] = req[q]
      BY <2>2, <3>1 DEF Core, TypeOK
    <3>3. ASSUME NEW q \in Requests PROVE Requesters!(q)'
      <4>1. CASE q = r
        BY <4>1, <3>1, <3>2, <2>2, <1>1 DEF Core, Requesters, At, Registered, config, Bound
      <4>2. CASE q # r
        BY <4>2, <3>2, <1>1 DEF Core, Requesters, At, Registered, config
      <4> QED BY <4>1, <4>2
    <3> QED BY <3>2, <3>3 DEF Requesters
  <2> QED BY <2>1, <2>2 DEF Claim
<1> QED BY <1>1, <1>3, <1>5 DEF Core, TypeOK, Known, Registered, config, history

\* The passkey is stored for a registered user.
LEMMA CoreEnrol ==
  ASSUME Core, NEW r \in Requests, Enrol(r)
  PROVE  Core'
<1>1. /\ End(r) /\ Spend(req[r].item)
      /\ UNCHANGED <<sessions, ceremonies, tokens, config, newest>>
  BY DEF Enrol
<1>2. KeepsUsers BY <1>1 DEF KeepsUsers, config
<1>3. req' \in [Requests -> RequestRec] /\ Requesters'
  BY <1>1, <1>2, EndKeeps
<1>4. uses' \in [Requests \cup {Invite} -> Nat]
  BY <1>1, SpendTyped DEF Core, TypeOK
<1> DEFINE new == [user |-> req[r].user, handle |-> req[r].handle,
                   host |-> HostOf[req[r].url]]
<1>5. Registered(req[r].user) /\ req[r].handle = req[r].user /\ req[r].url \in Urls
  BY AccountsAssumption DEF Enrol, At, Core, Requesters, AuthedOps, SameParty
<1>6. new \in CredentialRec /\ new.user = req[r].user
  BY <1>5 DEF CredentialRec, Registered
<1> HIDE DEF new
<1>7. credentials' = With(credentials, r, new) BY DEF Enrol, new
<1>8. Table(credentials', CredentialRec)
  BY <1>6, <1>7, TableWith DEF Core, TypeOK, Ids
<1>9. Known'
  BY <1>1, <1>5, <1>6, <1>7 DEF Core, Known, Registered, With, config
<1> QED BY <1>1, <1>3, <1>4, <1>8, <1>9 DEF Core, TypeOK, config

\* The session belongs to the passkey's registered user.
LEMMA CoreFinishAuthentication ==
  ASSUME Core, NEW r \in Requests, FinishAuthentication(r)
  PROVE  Core'
<1>1. /\ End(r) /\ Spend(req[r].item)
      /\ UNCHANGED <<credentials, ceremonies, tokens, config, newest>>
  BY DEF FinishAuthentication
<1>2. KeepsUsers BY <1>1 DEF KeepsUsers, config
<1>3. req' \in [Requests -> RequestRec] /\ Requesters'
  BY <1>1, <1>2, EndKeeps
<1>4. uses' \in [Requests \cup {Invite} -> Nat]
  BY <1>1, SpendTyped DEF Core, TypeOK
<1>5. PICK c \in DOMAIN credentials :
        sessions' = With(sessions, r, Session(credentials[c].user, "browser", c))
  BY DEF FinishAuthentication
<1>6. c \in Ids /\ Registered(credentials[c].user)
      /\ password[credentials[c].user] \in Nat
  BY DEF Core, TypeOK, Known, Table, Registered
<1> DEFINE new == Session(credentials[c].user, "browser", c)
<1>7. new \in SessionRec /\ new.user = credentials[c].user
  BY <1>6 DEF Session, SessionRec, Registered
<1> HIDE DEF new
<1>8. Table(sessions', SessionRec)
  BY <1>5, <1>7, TableWith DEF Core, TypeOK, Ids, new
<1>9. Known'
  BY <1>1, <1>5, <1>6, <1>7 DEF Core, Known, Registered, With, config, new
<1> QED BY <1>1, <1>3, <1>4, <1>8, <1>9 DEF Core, TypeOK, config

\* The session belongs to the registered user that asked.
LEMMA CoreOpenSession ==
  ASSUME Core, NEW r \in Requests, OpenSession(r)
  PROVE  Core'
<1>1. End(r) /\ UNCHANGED <<credentials, ceremonies, tokens, config, history>>
  BY DEF OpenSession
<1>2. KeepsUsers BY <1>1 DEF KeepsUsers, config
<1>3. req' \in [Requests -> RequestRec] /\ Requesters'
  BY <1>1, <1>2, EndKeeps
<1>4. PICK kind \in {"browser", "machine"} :
        sessions' = With(sessions, r, Session(req[r].user, kind, None))
  BY DEF OpenSession
<1>5. Registered(req[r].user) /\ password[req[r].user] \in Nat
  BY DEF OpenSession, Core, TypeOK, Requesters, AuthedOps, Registered
<1> DEFINE new == Session(req[r].user, kind, None)
<1>6. new \in SessionRec /\ new.user = req[r].user
  BY <1>5 DEF Session, SessionRec, Registered
<1> HIDE DEF new
<1>7. Table(sessions', SessionRec)
  BY <1>4, <1>6, TableWith DEF Core, TypeOK, Ids, new
<1>8. Known'
  BY <1>1, <1>4, <1>5, <1>6 DEF Core, Known, Registered, With, config, new
<1> QED BY <1>1, <1>3, <1>7, <1>8 DEF Core, TypeOK, config, history

\* Deleting sessions leaves the others as they were.
LEMMA DeleteTyped ==
  ASSUME Core, NEW gone, DeleteSessions(gone)
  PROVE  /\ Table(sessions', SessionRec) /\ Table(ceremonies', CeremonyRec)
         /\ \A s \in DOMAIN sessions' : s \in DOMAIN sessions /\ sessions'[s] = sessions[s]
<1>1. Table(sessions', SessionRec) /\ Table(ceremonies', CeremonyRec)
  BY TableWithout DEF DeleteSessions, Cascade, Core, TypeOK
<1> QED BY <1>1 DEF DeleteSessions, Without

\* The passkey goes, the kept session stays well formed.
LEMMA CoreDeletePasskey ==
  ASSUME Core, NEW r \in Requests, DeletePasskey(r)
  PROVE  Core'
<1>1. End(r) /\ UNCHANGED <<tokens, config, history>>
  BY DEF DeletePasskey
<1>2. KeepsUsers BY <1>1 DEF KeepsUsers, config
<1>3. req' \in [Requests -> RequestRec] /\ Requesters'
  BY <1>1, <1>2, EndKeeps
<1> DEFINE left == Without(sessions, Others(r))
<1>4. Table(left, SessionRec)
      /\ \A s \in DOMAIN left : s \in DOMAIN sessions /\ left[s] = sessions[s]
  <2>1. Table(left, SessionRec) BY TableWithout DEF Core, TypeOK
  <2> QED BY <2>1 DEF Without
<1>5. sessions' = [s \in DOMAIN left |->
        IF s = req[r].session THEN [left[s] EXCEPT !.grant = None] ELSE left[s]]
  BY DEF DeletePasskey
<1> HIDE DEF left
<1>6. ASSUME NEW s \in DOMAIN left
      PROVE  sessions'[s] \in SessionRec /\ sessions'[s].user = sessions[s].user
  BY <1>4, <1>5 DEF Table, SessionRec
<1>7. Table(sessions', SessionRec)
  BY <1>4, <1>5, <1>6 DEF Table
<1>8. Table(ceremonies', CeremonyRec)
  BY TableWithout DEF DeletePasskey, Cascade, Core, TypeOK
<1>9. Table(credentials', CredentialRec)
      /\ \A c \in DOMAIN credentials' : c \in DOMAIN credentials
                                        /\ credentials'[c] = credentials[c]
  <2>1. Table(credentials', CredentialRec)
    BY TableWithout DEF DeletePasskey, Core, TypeOK
  <2> QED BY <2>1 DEF DeletePasskey, Without
<1>10. Known'
  BY <1>1, <1>4, <1>5, <1>6, <1>9 DEF Core, Known, Registered, config
<1> QED BY <1>1, <1>3, <1>7, <1>8, <1>9, <1>10 DEF Core, TypeOK, config, history

\* A revocation only removes rows.
LEMMA CoreRevoke ==
  ASSUME Core, NEW r \in Requests, Revoke(r)
  PROVE  Core'
<1>1. End(r) /\ UNCHANGED <<credentials, tokens, config, history>>
  BY DEF Revoke
<1>2. KeepsUsers BY <1>1 DEF KeepsUsers, config
<1>3. req' \in [Requests -> RequestRec] /\ Requesters'
  BY <1>1, <1>2, EndKeeps
<1>4. PICK gone : DeleteSessions(gone) BY DEF Revoke
<1> QED BY <1>1, <1>3, <1>4, DeleteTyped
        DEF Core, TypeOK, Known, Registered, config, history

\* A step that only marks tokens leaves their kind and user alone.
SameTokens ==
  /\ DOMAIN tokens' \subseteq DOMAIN tokens
  /\ \A t \in DOMAIN tokens' : /\ tokens'[t].kind = tokens[t].kind
                               /\ tokens'[t].user = tokens[t].user

\* Marking a token used keeps it a token of its kind and user.
LEMMA UsedTyped ==
  ASSUME Core, NEW t \in DOMAIN tokens
  PROVE  /\ Table(Used(t), TokenRec)
         /\ tokens' = Used(t) => SameTokens
  BY DEF Used, Core, TypeOK, Table, TokenRec, SameTokens

\* A registration adds an account and its first session.
LEMMA CoreRegister ==
  ASSUME Core, NEW r \in Requests, Register(r)
  PROVE  Core'
<1> DEFINE u == req[r].user
           t == req[r].item
           new == [user |-> u, kind |-> "browser", idle |-> FALSE,
                   grant |-> None, born |-> 0]
<1>1. /\ End(r) /\ UNCHANGED <<credentials, ceremonies, baseUrl, verifiedBy, newest>>
      /\ password' = [password EXCEPT ![u] = 0]
      /\ sessions' = With(sessions, r, new)
  BY DEF Register
<1>2. u \in Users BY DEF Register, At, Core, Requesters
<1>3. /\ password' \in [Users -> Maybe(Nat)] /\ KeepsUsers /\ password'[u] # None
  BY <1>1, <1>2, AccountsAssumption DEF Core, TypeOK, KeepsUsers
<1>4. req' \in [Requests -> RequestRec] /\ Requesters'
  BY <1>1, <1>3, EndKeeps
<1>5. new \in SessionRec /\ new.user = u
  BY <1>2 DEF SessionRec
<1>6. Table(sessions', SessionRec)
  BY <1>1, <1>5, TableWith DEF Core, TypeOK, Ids
<1>7. Table(tokens', TokenRec)
  <2>1. CASE t = None BY <2>1 DEF Register, Core, TypeOK
  <2>2. CASE t # None
    BY <2>2 DEF Register, Claimable, Used, Core, TypeOK, Table, TokenRec
  <2> QED BY <2>1, <2>2
<1>8. uses' \in [Requests \cup {Invite} -> Nat]
  <2>1. CASE t = None BY <2>1 DEF Register, Core, TypeOK
  <2>2. CASE t # None
    BY <2>2, SpendTyped DEF Register, Spend, Core, TypeOK
  <2> QED BY <2>1, <2>2
<1>10. SameTokens
  <2>1. CASE t = None BY <2>1 DEF Register, SameTokens
  <2>2. CASE t # None BY <2>2, UsedTyped DEF Register, Claimable
  <2> QED BY <2>1, <2>2
<1> HIDE DEF new
<1>9. Known'
  BY <1>1, <1>2, <1>3, <1>5, <1>10 DEF Core, Known, Registered, KeepsUsers, With, SameTokens
<1> QED BY <1>1, <1>3, <1>4, <1>6, <1>7, <1>8, <1>9 DEF Core, TypeOK

\* A verification sets the address of a registered user.
LEMMA CoreVerifyEmail ==
  ASSUME Core, NEW r \in Requests, VerifyEmail(r)
  PROVE  Core'
<1> DEFINE t == req[r].item
<1>1. /\ End(r) /\ Spend(t) /\ t \in DOMAIN tokens /\ tokens' = Used(t)
      /\ UNCHANGED <<sessions, credentials, ceremonies, baseUrl, password, newest>>
      /\ verifiedBy' = [verifiedBy EXCEPT ![tokens[t].user] = t]
  BY DEF VerifyEmail, Claimable
<1>2. KeepsUsers BY <1>1 DEF KeepsUsers
<1>3. req' \in [Requests -> RequestRec] /\ Requesters'
  BY <1>1, <1>2, EndKeeps
<1>4. verifiedBy' \in [Users -> Maybe(Ids)]
  BY <1>1 DEF Core, TypeOK, Table
<1>5. Table(tokens', TokenRec) /\ uses' \in [Requests \cup {Invite} -> Nat]
  BY <1>1, UsedTyped, SpendTyped DEF Core, TypeOK
<1>6. tokens[t].kind # "invite" /\ SameTokens
  BY <1>1, UsedTyped DEF VerifyEmail, Claimable
<1>7. Known'
  BY <1>1, <1>6 DEF Core, TypeOK, Known, Registered, SameTokens
<1> QED BY <1>1, <1>3, <1>4, <1>5, <1>7 DEF Core, TypeOK

\* A reset raises the password version of a registered user.
LEMMA CoreConfirmReset ==
  ASSUME Core, NEW r \in Requests, ConfirmReset(r)
  PROVE  Core'
<1> DEFINE t == req[r].item
           u == tokens[t].user
<1>1. /\ End(r) /\ Spend(t) /\ t \in DOMAIN tokens /\ tokens' = Used(t)
      /\ UNCHANGED <<credentials, baseUrl, verifiedBy, newest>>
      /\ password' = [password EXCEPT ![u] = @ + 1]
      /\ DeleteSessions(Doomed(u))
  BY DEF ConfirmReset, Claimable
<1>6. SameTokens BY <1>1, UsedTyped
<1>7. u \in Users /\ password[u] \in Nat
  BY <1>1 DEF ConfirmReset, Claimable, Core, TypeOK, Known, Registered
<1>2. password' \in [Users -> Maybe(Nat)] /\ KeepsUsers
  BY <1>1, <1>7, AccountsAssumption DEF Core, TypeOK, KeepsUsers
<1>3. req' \in [Requests -> RequestRec] /\ Requesters'
  BY <1>1, <1>2, EndKeeps
<1>4. Table(tokens', TokenRec) /\ uses' \in [Requests \cup {Invite} -> Nat]
  BY <1>1, UsedTyped, SpendTyped DEF Core, TypeOK
<1>5. Known'
  BY <1>1, <1>2, <1>6, DeleteTyped DEF Core, Known, Registered, KeepsUsers, SameTokens
<1> QED BY <1>1, <1>2, <1>3, <1>4, <1>5, DeleteTyped DEF Core, TypeOK

\* The configuration stays a base URL or nothing.
LEMMA CoreSetBaseUrl ==
  ASSUME Core, NEW r \in Requests, SetBaseUrl(r)
  PROVE  Core'
<1>1. End(r) /\ UNCHANGED <<rows, password, verifiedBy, history>>
  BY DEF SetBaseUrl
<1>2. KeepsUsers BY <1>1 DEF KeepsUsers
<1>3. req' \in [Requests -> RequestRec] /\ Requesters'
  BY <1>1, <1>2, EndKeeps
<1>4. baseUrl' \in Maybe(Urls)
  BY DEF SetBaseUrl, Core, TypeOK, RequestRec
<1> QED BY <1>1, <1>3, <1>4 DEF Core, TypeOK, Known, Registered, rows, history

\* A failed request leaves nothing behind.
LEMMA CoreFails ==
  ASSUME Core, NEW r \in Requests, Fails(r)
  PROVE  Core'
<1>1. End(r) /\ UNCHANGED <<rows, config, history>>
  BY DEF Fails
<1>2. KeepsUsers BY <1>1 DEF KeepsUsers, config
<1>3. req' \in [Requests -> RequestRec] /\ Requesters'
  BY <1>1, <1>2, EndKeeps
<1> QED BY <1>1, <1>3 DEF Core, TypeOK, Known, Registered, rows, config, history

\* Expiry and cleanup only mark or remove rows.
LEMMA CoreTime ==
  ASSUME Core,
         \/ \E t \in DOMAIN tokens : ExpireToken(t) \/ PruneToken(t)
         \/ \E c \in DOMAIN ceremonies : ExpireCeremony(c) \/ PruneCeremony(c)
         \/ \E s \in DOMAIN sessions : IdleOut(s) \/ PruneSession(s)
  PROVE  Core'
<1>1. UNCHANGED <<credentials, config, history, req>>
  BY DEF ExpireToken, PruneToken, ExpireCeremony, PruneCeremony, IdleOut, PruneSession
<1>2. Requesters'
  BY <1>1 DEF Core, Requesters, At, Registered, config
<1>3. ASSUME NEW t \in DOMAIN tokens, ExpireToken(t) \/ PruneToken(t)
      PROVE  Core'
  <2>1. UNCHANGED <<sessions, ceremonies>>
    BY <1>3 DEF ExpireToken, PruneToken
  <2>2. Table(tokens', TokenRec) /\ SameTokens
    <3>1. CASE ExpireToken(t)
      BY <3>1 DEF ExpireToken, Core, TypeOK, Table, TokenRec, SameTokens
    <3>2. CASE PruneToken(t)
      BY <3>2, TableWithout DEF PruneToken, Core, TypeOK, Without, SameTokens
    <3> QED BY <1>3, <3>1, <3>2
  <2> QED BY <1>1, <1>2, <2>1, <2>2
          DEF Core, TypeOK, Known, Registered, SameTokens, config, history
<1>4. ASSUME NEW c \in DOMAIN ceremonies, ExpireCeremony(c) \/ PruneCeremony(c)
      PROVE  Core'
  <2>1. UNCHANGED <<sessions, tokens>>
    BY <1>4 DEF ExpireCeremony, PruneCeremony
  <2>2. Table(ceremonies', CeremonyRec)
    <3>1. CASE ExpireCeremony(c)
      BY <3>1 DEF ExpireCeremony, Core, TypeOK, Table, CeremonyRec
    <3>2. CASE PruneCeremony(c)
      BY <3>2, TableWithout DEF PruneCeremony, Core, TypeOK
    <3> QED BY <1>4, <3>1, <3>2
  <2> QED BY <1>1, <1>2, <2>1, <2>2
          DEF Core, TypeOK, Known, Registered, config, history
<1>5. ASSUME NEW s \in DOMAIN sessions, IdleOut(s) \/ PruneSession(s)
      PROVE  Core'
  <2>1. UNCHANGED tokens
    BY <1>5 DEF IdleOut, PruneSession
  <2>2. /\ Table(sessions', SessionRec) /\ Table(ceremonies', CeremonyRec)
        /\ \A x \in DOMAIN sessions' : x \in DOMAIN sessions
                                       /\ sessions'[x].user = sessions[x].user
    <3>1. CASE IdleOut(s)
      BY <3>1 DEF IdleOut, Core, TypeOK, Table, SessionRec
    <3>2. CASE PruneSession(s)
      BY <3>2, DeleteTyped DEF PruneSession
    <3> QED BY <1>5, <3>1, <3>2
  <2> QED BY <1>1, <1>2, <2>1, <2>2
          DEF Core, TypeOK, Known, Registered, config, history
<1> QED BY <1>3, <1>4, <1>5

\* The invariant holds initially.
LEMMA CoreInit == Init => Core
<1> SUFFICES ASSUME Init PROVE Core
  OBVIOUS
<1>1. req \in [Requests -> RequestRec] /\ \A r \in Requests : req[r] = New
  BY RecordFacts DEF Init
<1>2. Requesters
  BY <1>1, RecordFacts DEF Requesters, At, AuthedOps, New
<1>3. password[Owner] = 0 /\ Registered(Owner) /\ password \in [Users -> Maybe(Nat)]
  BY AccountsAssumption DEF Init, Registered
<1>4. /\ Table(sessions, SessionRec)
      /\ \A s \in DOMAIN sessions : Registered(sessions[s].user)
  BY <1>3 DEF Init, Table, Just, Session, SessionRec, Ids, Registered
<1>5. /\ Table(credentials, CredentialRec)
      /\ \A c \in DOMAIN credentials : Registered(credentials[c].user)
  <2>1. CASE credentials = [c \in {} |-> None]
    BY <2>1 DEF Table
  <2>2. CASE /\ baseUrl \in Usable
             /\ credentials = Just(Key, [user |-> Owner, handle |-> Owner,
                                         host |-> HostOf[baseUrl]])
    BY <2>2, <1>3, AccountsAssumption DEF Table, Just, CredentialRec, Ids, Registered
  <2> QED BY <2>1, <2>2 DEF Init
<1>6. Table(ceremonies, CeremonyRec)
  BY DEF Init, Table
<1>7. /\ Table(tokens, TokenRec) /\ \A t \in DOMAIN tokens : tokens[t].kind = "invite"
  BY DEF Init, Table, Just, Token, TokenRec, Ids
<1>8. /\ verifiedBy \in [Users -> Maybe(Ids)]
      /\ \A u \in Users : verifiedBy[u] # None => u = Owner
  BY DEF Init, Ids
<1>9. Known BY <1>3, <1>4, <1>5, <1>7, <1>8 DEF Known
<1> QED BY <1>1, <1>2, <1>3, <1>4, <1>5, <1>6, <1>7, <1>8, <1>9
        DEF Core, TypeOK, Init

\* Every step keeps the invariant.
LEMMA CoreNext == Core /\ [Next]_vars => Core'
<1> SUFFICES ASSUME Core, [Next]_vars PROVE Core'
  OBVIOUS
<1>1. ASSUME NEW r \in Requests, RequestStep(r) PROVE Core'
  BY <1>1, CoreAuthenticate, CoreArrive, CoreMoves, CoreCreate, CoreClaim, CoreEnrol,
     CoreFinishAuthentication, CoreDeletePasskey, CoreOpenSession, CoreRevoke,
     CoreRegister, CoreVerifyEmail, CoreConfirmReset, CoreSetBaseUrl, CoreFails
     DEF RequestStep
<1>2. CASE UNCHANGED vars
  BY <1>2 DEF Core, TypeOK, Requesters, Known, Registered, At, vars, rows, config, history
<1> QED BY <1>1, <1>2, CoreTime DEF Next

\* Every row and every request is well formed, whatever the requests do and
\* whichever commit is lost.
THEOREM AccountsTypes == Spec => []TypeOK
<1>1. Core => TypeOK BY DEF Core
<1> QED BY <1>1, CoreInit, CoreNext, PTL DEF Spec

-----------------------------------------------------------------------------
\* The steps that write each table.
BaseUrlSteps ==
  \E r \in Requests : SetBaseUrl(r)
PasswordSteps ==
  \E r \in Requests : Register(r) \/ ConfirmReset(r)
SessionSteps ==
  \/ \E r \in Requests : FinishAuthentication(r) \/ DeletePasskey(r)
         \/ OpenSession(r) \/ Revoke(r) \/ Register(r) \/ ConfirmReset(r)
  \/ \E s \in DOMAIN sessions : IdleOut(s) \/ PruneSession(s)
CredentialSteps ==
  \E r \in Requests : Enrol(r) \/ DeletePasskey(r)
CeremonySteps ==
  \/ \E r \in Requests : CreateRegistration(r) \/ CreateAuthentication(r)
         \/ Claim(r) \/ DeletePasskey(r) \/ Revoke(r) \/ ConfirmReset(r)
  \/ \E c \in DOMAIN ceremonies : ExpireCeremony(c) \/ PruneCeremony(c)
  \/ \E s \in DOMAIN sessions : PruneSession(s)
TokenSteps ==
  \/ \E r \in Requests : CreateVerification(r) \/ CreateReset(r)
         \/ CreateInvite(r) \/ Register(r) \/ VerifyEmail(r) \/ ConfirmReset(r)
  \/ \E t \in DOMAIN tokens : ExpireToken(t) \/ PruneToken(t)
UseSteps ==
  \E r \in Requests : Enrol(r) \/ FinishAuthentication(r) \/ Register(r)
         \/ VerifyEmail(r) \/ ConfirmReset(r)

Writers ==
  /\ UNCHANGED baseUrl \/ BaseUrlSteps
  /\ UNCHANGED password \/ PasswordSteps
  /\ UNCHANGED sessions \/ SessionSteps
  /\ UNCHANGED credentials \/ CredentialSteps
  /\ UNCHANGED ceremonies \/ CeremonySteps
  /\ UNCHANGED tokens \/ TokenSteps
  /\ UNCHANGED uses \/ UseSteps

\* Every step writes only what Writers allows it.
LEMMA FrameNext ==
  ASSUME [Next]_vars
  PROVE  Writers
<1>1. ASSUME NEW r \in Requests, RequestStep(r) PROVE Writers
  <2>1. CASE Authenticate(r) \/ Arrive(r) \/ CheckPassword(r) \/ ReadIdentity(r) \/ Fails(r)
    BY <2>1 DEF Writers, rows, config, history, Authenticate, Arrive, CheckPassword, ReadIdentity, Fails
  <2>2. CASE CreateRegistration(r)
    <3>1. UNCHANGED <<baseUrl, password, sessions, credentials, tokens, uses>>
      BY <2>2 DEF CreateRegistration, rows, config, history
    <3>2. CeremonySteps
      BY <2>2 DEF CeremonySteps
    <3> QED BY <3>1, <3>2 DEF Writers
  <2>3. CASE CreateAuthentication(r)
    <3>1. UNCHANGED <<baseUrl, password, sessions, credentials, tokens, uses>>
      BY <2>3 DEF CreateAuthentication, rows, config, history
    <3>2. CeremonySteps
      BY <2>3 DEF CeremonySteps
    <3> QED BY <3>1, <3>2 DEF Writers
  <2>4. CASE CreateVerification(r)
    <3>1. UNCHANGED <<baseUrl, password, sessions, credentials, ceremonies, uses>>
      BY <2>4 DEF CreateVerification, rows, config, history
    <3>2. TokenSteps
      BY <2>4 DEF TokenSteps
    <3> QED BY <3>1, <3>2 DEF Writers
  <2>5. CASE CreateReset(r)
    <3>1. UNCHANGED <<baseUrl, password, sessions, credentials, ceremonies, uses>>
      BY <2>5 DEF CreateReset, rows, config, history
    <3>2. TokenSteps
      BY <2>5 DEF TokenSteps
    <3> QED BY <3>1, <3>2 DEF Writers
  <2>6. CASE CreateInvite(r)
    <3>1. UNCHANGED <<baseUrl, password, sessions, credentials, ceremonies, uses>>
      BY <2>6 DEF CreateInvite, rows, config, history
    <3>2. TokenSteps
      BY <2>6 DEF TokenSteps
    <3> QED BY <3>1, <3>2 DEF Writers
  <2>7. CASE Claim(r)
    <3>1. UNCHANGED <<baseUrl, password, sessions, credentials, tokens, uses>>
      BY <2>7 DEF Claim, rows, config, history
    <3>2. CeremonySteps
      BY <2>7 DEF CeremonySteps
    <3> QED BY <3>1, <3>2 DEF Writers
  <2>8. CASE Enrol(r)
    <3>1. UNCHANGED <<baseUrl, password, sessions, ceremonies, tokens>>
      BY <2>8 DEF Enrol, rows, config, history
    <3>2. CredentialSteps /\ UseSteps
      BY <2>8 DEF CredentialSteps, UseSteps
    <3> QED BY <3>1, <3>2 DEF Writers
  <2>9. CASE FinishAuthentication(r)
    <3>1. UNCHANGED <<baseUrl, password, credentials, ceremonies, tokens>>
      BY <2>9 DEF FinishAuthentication, rows, config, history
    <3>2. SessionSteps /\ UseSteps
      BY <2>9 DEF SessionSteps, UseSteps
    <3> QED BY <3>1, <3>2 DEF Writers
  <2>10. CASE DeletePasskey(r)
    <3>1. UNCHANGED <<baseUrl, password, tokens, uses>>
      BY <2>10 DEF DeletePasskey, rows, config, history
    <3>2. CredentialSteps /\ SessionSteps /\ CeremonySteps
      BY <2>10 DEF CredentialSteps, SessionSteps, CeremonySteps
    <3> QED BY <3>1, <3>2 DEF Writers
  <2>11. CASE OpenSession(r)
    <3>1. UNCHANGED <<baseUrl, password, credentials, ceremonies, tokens, uses>>
      BY <2>11 DEF OpenSession, rows, config, history
    <3>2. SessionSteps
      BY <2>11 DEF SessionSteps
    <3> QED BY <3>1, <3>2 DEF Writers
  <2>12. CASE Revoke(r)
    <3>1. UNCHANGED <<baseUrl, password, credentials, tokens, uses>>
      BY <2>12 DEF Revoke, rows, config, history
    <3>2. SessionSteps /\ CeremonySteps
      BY <2>12 DEF SessionSteps, CeremonySteps
    <3> QED BY <3>1, <3>2 DEF Writers
  <2>13. CASE Register(r)
    <3>1. UNCHANGED <<baseUrl, credentials, ceremonies>>
      BY <2>13 DEF Register, rows, config, history
    <3>2. SessionSteps /\ TokenSteps /\ UseSteps /\ PasswordSteps
      BY <2>13 DEF SessionSteps, TokenSteps, UseSteps, PasswordSteps
    <3> QED BY <3>1, <3>2 DEF Writers
  <2>14. CASE VerifyEmail(r)
    <3>1. UNCHANGED <<baseUrl, password, sessions, credentials, ceremonies>>
      BY <2>14 DEF VerifyEmail, rows, config, history
    <3>2. TokenSteps /\ UseSteps
      BY <2>14 DEF TokenSteps, UseSteps
    <3> QED BY <3>1, <3>2 DEF Writers
  <2>15. CASE ConfirmReset(r)
    <3>1. UNCHANGED <<baseUrl, credentials>>
      BY <2>15 DEF ConfirmReset, rows, config, history
    <3>2. SessionSteps /\ CeremonySteps /\ TokenSteps /\ UseSteps /\ PasswordSteps
      BY <2>15 DEF SessionSteps, CeremonySteps, TokenSteps, UseSteps, PasswordSteps
    <3> QED BY <3>1, <3>2 DEF Writers
  <2>16. CASE SetBaseUrl(r)
    <3>1. UNCHANGED <<password, sessions, credentials, ceremonies, tokens, uses>>
      BY <2>16 DEF SetBaseUrl, rows, config, history
    <3>2. BaseUrlSteps
      BY <2>16 DEF BaseUrlSteps
    <3> QED BY <3>1, <3>2 DEF Writers
  <2> QED BY <1>1, <2>1, <2>2, <2>3, <2>4, <2>5, <2>6, <2>7, <2>8, <2>9, <2>10, <2>11, <2>12, <2>13, <2>14, <2>15, <2>16 DEF RequestStep
<1>2. ASSUME NEW t \in DOMAIN tokens, ExpireToken(t) PROVE Writers
  <2>1. UNCHANGED <<baseUrl, password, sessions, credentials, ceremonies, uses>>
    BY <1>2 DEF ExpireToken, config, history
  <2>2. TokenSteps
    BY <1>2 DEF TokenSteps
  <2> QED BY <2>1, <2>2 DEF Writers
<1>3. ASSUME NEW t \in DOMAIN tokens, PruneToken(t) PROVE Writers
  <2>1. UNCHANGED <<baseUrl, password, sessions, credentials, ceremonies, uses>>
    BY <1>3 DEF PruneToken, config, history
  <2>2. TokenSteps
    BY <1>3 DEF TokenSteps
  <2> QED BY <2>1, <2>2 DEF Writers
<1>4. ASSUME NEW c \in DOMAIN ceremonies, ExpireCeremony(c) PROVE Writers
  <2>1. UNCHANGED <<baseUrl, password, sessions, credentials, tokens, uses>>
    BY <1>4 DEF ExpireCeremony, config, history
  <2>2. CeremonySteps
    BY <1>4 DEF CeremonySteps
  <2> QED BY <2>1, <2>2 DEF Writers
<1>5. ASSUME NEW c \in DOMAIN ceremonies, PruneCeremony(c) PROVE Writers
  <2>1. UNCHANGED <<baseUrl, password, sessions, credentials, tokens, uses>>
    BY <1>5 DEF PruneCeremony, config, history
  <2>2. CeremonySteps
    BY <1>5 DEF CeremonySteps
  <2> QED BY <2>1, <2>2 DEF Writers
<1>6. ASSUME NEW s \in DOMAIN sessions, IdleOut(s) PROVE Writers
  <2>1. UNCHANGED <<baseUrl, password, credentials, ceremonies, tokens, uses>>
    BY <1>6 DEF IdleOut, config, history
  <2>2. SessionSteps
    BY <1>6 DEF SessionSteps
  <2> QED BY <2>1, <2>2 DEF Writers
<1>7. ASSUME NEW s \in DOMAIN sessions, PruneSession(s) PROVE Writers
  <2>1. UNCHANGED <<baseUrl, password, credentials, tokens, uses>>
    BY <1>7 DEF PruneSession, config, history
  <2>2. SessionSteps /\ CeremonySteps
    BY <1>7 DEF SessionSteps, CeremonySteps
  <2> QED BY <2>1, <2>2 DEF Writers
<1>8. CASE UNCHANGED vars
  BY <1>8 DEF Writers, vars, rows, config, history
<1> QED BY <1>1, <1>2, <1>3, <1>4, <1>5, <1>6, <1>7, <1>8 DEF Next

-----------------------------------------------------------------------------
\* A change of base URL and an enrolment both keep the passkeys on their host.
LEMMA HostNext == CredentialsMatchHost /\ [Next]_vars => CredentialsMatchHost'
<1> SUFFICES ASSUME CredentialsMatchHost, [Next]_vars PROVE CredentialsMatchHost'
  OBVIOUS
<1>1. ASSUME NEW r \in Requests, SetBaseUrl(r) PROVE CredentialsMatchHost'
  <2>1. UNCHANGED credentials /\ baseUrl' = req[r].url /\ HostKept(req[r].url)
    BY <1>1 DEF SetBaseUrl, rows
  <2> QED BY <2>1 DEF CredentialsMatchHost, HostKept
<1>2. ASSUME NEW r \in Requests, Enrol(r) PROVE CredentialsMatchHost'
  <2>1. /\ UNCHANGED baseUrl /\ baseUrl \in Usable /\ baseUrl # None
        /\ credentials' = With(credentials, r,
             [user |-> req[r].user, handle |-> req[r].handle, host |-> HostOf[baseUrl]])
    BY <1>2, AccountsAssumption DEF Enrol, SameParty, config
  <2> QED BY <2>1 DEF CredentialsMatchHost, With
<1>3. ASSUME NEW r \in Requests, DeletePasskey(r) PROVE CredentialsMatchHost'
  <2>1. UNCHANGED baseUrl /\ credentials' = Without(credentials, {req[r].item})
    BY <1>3 DEF DeletePasskey, config
  <2> QED BY <2>1 DEF CredentialsMatchHost, Without
<1>4. CASE UNCHANGED <<baseUrl, credentials>>
  BY <1>4 DEF CredentialsMatchHost
<1> QED BY <1>1, <1>2, <1>3, <1>4, FrameNext DEF Writers, BaseUrlSteps, CredentialSteps

\* While a passkey exists, site.base_url names the host it is bound to:
\* set_base_url_with_passkey_guard and the second identity check of
\* finish_registration exclude every interleaving that would part them.
THEOREM HostLocked == Spec => []CredentialsMatchHost
<1>1. Init => CredentialsMatchHost
  BY AccountsAssumption DEF Init, CredentialsMatchHost, Just
<1> QED BY <1>1, HostNext, PTL DEF Spec

\* Only an enrolment makes a passkey, and its request is bound.
LEMMA HandlesNext == Core /\ HandlesAgree /\ [Next]_vars => HandlesAgree'
<1> SUFFICES ASSUME Core, HandlesAgree, [Next]_vars PROVE HandlesAgree'
  OBVIOUS
<1>1. ASSUME NEW r \in Requests, Enrol(r) PROVE HandlesAgree'
  <2>1. /\ credentials' = With(credentials, r,
             [user |-> req[r].user, handle |-> req[r].handle,
              host |-> HostOf[req[r].url]])
        /\ req[r].handle = req[r].user
    BY <1>1 DEF Enrol, Core, Requesters
  <2> QED BY <2>1 DEF HandlesAgree, With
<1>2. ASSUME NEW r \in Requests, DeletePasskey(r) PROVE HandlesAgree'
  BY <1>2 DEF DeletePasskey, HandlesAgree, Without
<1> QED BY <1>1, <1>2, FrameNext DEF Writers, CredentialSteps, HandlesAgree

\* A passkey carries the account handle of the user it is stored for: the
\* claim of finish_registration refuses every other user's ceremony.
THEOREM HandlesBound == Spec => []HandlesAgree
<1>1. Init => HandlesAgree
  BY DEF Init, HandlesAgree, Just
<1> QED BY <1>1, CoreInit, CoreNext, HandlesNext, PTL DEF Spec

\* Whatever writes a session or a password keeps the two in step.
LEMMA ResetNext == Core /\ ResetEndsSessions /\ [Next]_vars => ResetEndsSessions'
<1> SUFFICES ASSUME Core, ResetEndsSessions, [Next]_vars PROVE ResetEndsSessions'
  OBVIOUS
<1>1. ASSUME NEW r \in Requests, Register(r) PROVE ResetEndsSessions'
  <2> DEFINE u == req[r].user
  <2>1. /\ u \in Users /\ password[u] = None
        /\ password' = [password EXCEPT ![u] = 0]
        /\ sessions' = With(sessions, r, [user |-> u, kind |-> "browser",
                              idle |-> FALSE, grant |-> None, born |-> 0])
    BY <1>1 DEF Register, At, Core, Requesters
  <2>2. \A s \in DOMAIN sessions : sessions[s].user # u /\ sessions[s].user \in Users
    BY <2>1 DEF Core, Known, Registered
  <2> QED BY <2>1, <2>2 DEF ResetEndsSessions, With, Core, TypeOK
<1>2. ASSUME NEW r \in Requests, ConfirmReset(r) PROVE ResetEndsSessions'
  <2> DEFINE u == tokens[req[r].item].user
  <2>1. /\ password' = [password EXCEPT ![u] = @ + 1]
        /\ sessions' = Without(sessions, SessionsOf(u))
    BY <1>2 DEF ConfirmReset, DeleteSessions, Doomed
  <2>2. ASSUME NEW s \in DOMAIN sessions'
        PROVE  /\ s \in DOMAIN sessions /\ sessions'[s] = sessions[s]
               /\ sessions[s].user # u /\ sessions[s].user \in Users
    BY <2>1 DEF Without, SessionsOf, Core, Known, Registered
  <2> QED BY <2>1, <2>2 DEF ResetEndsSessions, Core, TypeOK
<1>3. ASSUME NEW r \in Requests, FinishAuthentication(r) \/ OpenSession(r)
      PROVE  ResetEndsSessions'
  <2>1. PICK u, kind, grant : sessions' = With(sessions, r, Session(u, kind, grant))
    BY <1>3 DEF FinishAuthentication, OpenSession
  <2>2. UNCHANGED password
    BY <1>3 DEF FinishAuthentication, OpenSession, config
  <2> QED BY <2>1, <2>2 DEF ResetEndsSessions, With, Session
<1>4. ASSUME NEW r \in Requests, DeletePasskey(r) PROVE ResetEndsSessions'
  <2> DEFINE left == Without(sessions, Others(r))
  <2>1. /\ UNCHANGED password
        /\ sessions' = [s \in DOMAIN left |->
             IF s = req[r].session THEN [left[s] EXCEPT !.grant = None] ELSE left[s]]
    BY <1>4 DEF DeletePasskey, config
  <2>2. ASSUME NEW s \in DOMAIN left
        PROVE  s \in DOMAIN sessions /\ left[s] = sessions[s] /\ left[s] \in SessionRec
    BY DEF Without, Core, TypeOK, Table
  <2> HIDE DEF left
  <2>3. ASSUME NEW s \in DOMAIN sessions'
        PROVE  /\ s \in DOMAIN sessions /\ sessions'[s].born = sessions[s].born
               /\ sessions'[s].user = sessions[s].user
    BY <2>1, <2>2 DEF SessionRec
  <2> QED BY <2>1, <2>3 DEF ResetEndsSessions
<1>5. ASSUME NEW gone, DeleteSessions(gone), UNCHANGED password PROVE ResetEndsSessions'
  BY <1>5, DeleteTyped DEF ResetEndsSessions
<1>6. ASSUME NEW r \in Requests, Revoke(r) PROVE ResetEndsSessions'
  BY <1>6, <1>5 DEF Revoke, config
<1>7. ASSUME NEW s \in DOMAIN sessions, PruneSession(s) PROVE ResetEndsSessions'
  BY <1>7, <1>5 DEF PruneSession, config
<1>8. ASSUME NEW s \in DOMAIN sessions, IdleOut(s) PROVE ResetEndsSessions'
  BY <1>8 DEF IdleOut, ResetEndsSessions, config, Core, TypeOK, Table, SessionRec
<1>9. CASE UNCHANGED <<password, sessions>>
  BY <1>9 DEF ResetEndsSessions
<1> QED BY <1>1, <1>2, <1>3, <1>4, <1>6, <1>7, <1>8, <1>9, FrameNext
        DEF Writers, SessionSteps, PasswordSteps

\* No session made before its user's last password reset survives it:
\* confirm_password_reset leaves none, and none is made with an older version.
THEOREM ResetRevokes == Spec => []ResetEndsSessions
<1>1. Init => ResetEndsSessions
  BY AccountsAssumption DEF Init, ResetEndsSessions, Just, Session
<1> QED BY <1>1, CoreInit, CoreNext, ResetNext, PTL DEF Spec

-----------------------------------------------------------------------------
\* Request r has claimed ceremony c and not yet acted on it.
Holds(r, c) ==
  req[r].at = "apply" /\ req[r].op \in Finishes /\ req[r].item = c

\* A request ends once, and only a claim makes it a holder.
LEMMA RequestsMove ==
  ASSUME Core, [Next]_vars
  PROVE  /\ \A q \in Requests : req[q].at = "ended" => req'[q] = req[q]
         /\ \A q \in Requests : \A c :
              Holds(q, c)' => Holds(q, c) \/ (Claim(q) /\ c = req[q].item)
<1> DEFINE Good ==
         /\ \A q \in Requests : req[q].at = "ended" => req'[q] = req[q]
         /\ \A q \in Requests : \A c :
              Holds(q, c)' => Holds(q, c) \/ (Claim(q) /\ c = req[q].item)
<1>1. ASSUME NEW r \in Requests, NEW n, n.at # "apply" \/ n.op \notin Finishes,
             req[r].at # "ended", req' = [req EXCEPT ![r] = n]
      PROVE  Good
  BY <1>1 DEF Holds, Core, TypeOK
<1>2. ASSUME NEW r \in Requests, End(r), req[r].at # "ended" PROVE Good
  BY <1>1, <1>2, RecordFacts DEF End
<1>3. ASSUME NEW r \in Requests, RequestStep(r) PROVE Good
  <2>1. CASE Authenticate(r)
    <3>1. PICK op \in AuthedOps, s \in DOMAIN sessions :
            \E item \in Items(op, sessions[s].user) :
              req' = [req EXCEPT ![r] =
                      [New EXCEPT !.at = FirstStep(op), !.op = op, !.item = item,
                                  !.user = sessions[s].user, !.session = s]]
      BY <2>1 DEF Authenticate
    <3>2. PICK item : req' = [req EXCEPT ![r] =
                      [New EXCEPT !.at = FirstStep(op), !.op = op, !.item = item,
                                  !.user = sessions[s].user, !.session = s]]
      BY <3>1
    <3>3. req[r].at # "ended" BY <2>1 DEF Authenticate, New
    <3>4. FirstStep(op) # "apply" \/ op \notin Finishes BY DEF FirstStep, Finishes
    <3> QED BY <3>2, <3>3, <3>4, <1>1 DEF New
  <2>2. CASE Arrive(r)
    <3>0. PICK op \in OpenOps, u \in Users :
            \E item \in Items(op, u),
               url \in IF op = "set_base_url" THEN Urls \cup {None} ELSE {None} :
              req' = [req EXCEPT ![r] =
                      [New EXCEPT !.at = FirstStep(op), !.op = op, !.item = item,
                                  !.user = u, !.url = url]]
      BY <2>2 DEF Arrive
    <3>1. PICK item, url : req' = [req EXCEPT ![r] =
                      [New EXCEPT !.at = FirstStep(op), !.op = op, !.item = item,
                                  !.user = u, !.url = url]]
      BY <3>0
    <3>2. req[r].at # "ended" BY <2>2 DEF Arrive, New
    <3>3. FirstStep(op) # "apply" \/ op \notin Finishes BY DEF FirstStep, Finishes
    <3> QED BY <3>1, <3>2, <3>3, <1>1 DEF New
  <2>3. CASE CheckPassword(r)
    <3>1. PICK step : req' = [req EXCEPT ![r].at = step]
      BY <2>3 DEF CheckPassword, Move
    <3>2. req[r] \in RequestRec /\ req[r].at = "check" /\ req[r].op \notin Finishes
      BY <2>3 DEF CheckPassword, Core, TypeOK, Requesters
    <3> DEFINE n == [req[r] EXCEPT !.at = step]
    <3>3. n.op = req[r].op /\ req' = [req EXCEPT ![r] = n]
      BY <3>1, <3>2 DEF RequestRec, Core, TypeOK
    <3> QED BY <3>2, <3>3, <1>1
  <2>4. CASE ReadIdentity(r)
    <3> DEFINE n == [req[r] EXCEPT !.at = "create", !.url = baseUrl]
    <3>1. req[r] \in RequestRec /\ req[r].at = "identity"
      BY <2>4 DEF ReadIdentity, Core, TypeOK
    <3>2. n.at = "create" /\ req' = [req EXCEPT ![r] = n]
      BY <3>1, <2>4 DEF ReadIdentity, RequestRec, Core, TypeOK
    <3> QED BY <3>1, <3>2, <1>1
  <2>5. CASE Claim(r)
    <3>1. CASE End(r)
      BY <3>1, <2>5, <1>2 DEF Claim
    <3>2. CASE ~End(r)
      <4> DEFINE n == [req[r] EXCEPT !.at = "apply",
                         !.url = ceremonies[req[r].item].url,
                         !.handle = ceremonies[req[r].item].user]
      <4>1. req' = [req EXCEPT ![r] = n] /\ req[r].at = "claim" /\ req[r] \in RequestRec
        BY <3>2, <2>5 DEF Claim, Core, TypeOK
      <4>2. n.item = req[r].item
        BY <4>1 DEF RequestRec
      <4> HIDE DEF n
      <4> QED BY <4>1, <4>2, <2>5 DEF Holds, Core, TypeOK
    <3> QED BY <3>1, <3>2
  <2>6. CASE \/ CreateRegistration(r) \/ CreateAuthentication(r) \/ CreateVerification(r)
             \/ CreateReset(r) \/ CreateInvite(r) \/ Enrol(r) \/ FinishAuthentication(r)
             \/ DeletePasskey(r) \/ OpenSession(r) \/ Revoke(r) \/ Register(r)
             \/ VerifyEmail(r) \/ ConfirmReset(r) \/ SetBaseUrl(r) \/ Fails(r)
    <3>1. End(r) /\ req[r].at # "ended"
      BY <2>6 DEF CreateRegistration, CreateAuthentication, CreateVerification,
         CreateReset, CreateInvite, Enrol, FinishAuthentication, DeletePasskey,
         OpenSession, Revoke, Register, VerifyEmail, ConfirmReset, SetBaseUrl, Fails, At
    <3> QED BY <3>1, <1>2
  <2> QED BY <1>3, <2>1, <2>2, <2>3, <2>4, <2>5, <2>6 DEF RequestStep
<1>4. CASE UNCHANGED req
  BY <1>4 DEF Holds
<1> QED BY <1>3, <1>4 DEF Next, vars, ExpireToken, PruneToken, ExpireCeremony,
           PruneCeremony, IdleOut, PruneSession

\* The request that makes a row has not ended before and has ended after.
Ends(r) == r \in Requests /\ req[r].at # "ended" /\ req'[r].at = "ended"

\* A step that writes a row ends its request.
LEMMA WritersEnd ==
  ASSUME Core, NEW r \in Requests,
         \/ CreateRegistration(r) \/ CreateAuthentication(r) \/ CreateVerification(r)
         \/ CreateReset(r) \/ CreateInvite(r) \/ Enrol(r) \/ FinishAuthentication(r)
         \/ DeletePasskey(r) \/ OpenSession(r) \/ Revoke(r) \/ Register(r)
         \/ VerifyEmail(r) \/ ConfirmReset(r)
  PROVE  Ends(r)
<1>1. End(r) /\ req[r].at # "ended"
  BY DEF CreateRegistration, CreateAuthentication, CreateVerification,
     CreateReset, CreateInvite, Enrol, FinishAuthentication, DeletePasskey,
     OpenSession, Revoke, Register, VerifyEmail, ConfirmReset, At
<1> QED BY <1>1, EndTyped, RecordFacts DEF Ends, Core, TypeOK

\* A token is live only if it was, or if the ending request just made it, in a
\* step that leaves the ceremonies alone.
LEMMA TokensMove ==
  ASSUME Core, [Next]_vars
  PROVE  \A t \in DOMAIN tokens' :
           \/ t \in DOMAIN tokens /\ (tokens'[t].state = "live" => tokens[t].state = "live")
           \/ Ends(t) /\ UNCHANGED <<ceremonies, uses>>
<1> DEFINE Good == \A t \in DOMAIN tokens' :
           \/ t \in DOMAIN tokens /\ (tokens'[t].state = "live" => tokens[t].state = "live")
           \/ Ends(t) /\ UNCHANGED <<ceremonies, uses>>
<1>1. ASSUME NEW r \in Requests, CreateVerification(r) PROVE Good
  <2>1. /\ tokens' = With(Superseded(req[r].user), r, Token("verification", req[r].user))
        /\ UNCHANGED <<ceremonies, uses>> /\ Ends(r)
    BY <1>1, WritersEnd DEF CreateVerification
  <2> QED BY <2>1 DEF With, Superseded
<1>2. ASSUME NEW r \in Requests, CreateReset(r) \/ CreateInvite(r) PROVE Good
  <2>1. /\ \E v : tokens' = With(tokens, r, v)
        /\ UNCHANGED <<ceremonies, uses>> /\ Ends(r)
    BY <1>2, WritersEnd DEF CreateReset, CreateInvite, history
  <2> QED BY <2>1 DEF With
<1>3. ASSUME NEW t \in DOMAIN tokens, tokens' = Used(t) PROVE Good
  BY <1>3 DEF Used, Core, TypeOK, Table, TokenRec
<1>4. ASSUME NEW r \in Requests, Register(r) \/ VerifyEmail(r) \/ ConfirmReset(r) PROVE Good
  BY <1>4, <1>3 DEF Register, VerifyEmail, ConfirmReset, Claimable
<1>5. ASSUME NEW t \in DOMAIN tokens, ExpireToken(t) PROVE Good
  BY <1>5 DEF ExpireToken, Core, TypeOK, Table, TokenRec
<1>6. ASSUME NEW t \in DOMAIN tokens, PruneToken(t) PROVE Good
  BY <1>6 DEF PruneToken, Without
<1>7. CASE UNCHANGED tokens
  BY <1>7
<1> QED BY <1>1, <1>2, <1>4, <1>5, <1>6, <1>7, FrameNext DEF Writers, TokenSteps

\* A ceremony is open only if it was, or if the ending request just made it.
LEMMA CeremoniesMove ==
  ASSUME Core, [Next]_vars
  PROVE  \A c \in DOMAIN ceremonies' :
           \/ /\ c \in DOMAIN ceremonies
              /\ ceremonies'[c].open => ceremonies[c].open
              /\ ceremonies'[c].op = ceremonies[c].op
              /\ ceremonies'[c].user = ceremonies[c].user
              /\ ceremonies'[c].session = ceremonies[c].session
           \/ Ends(c) /\ UNCHANGED <<tokens, uses, sessions>>
<1> DEFINE Good == \A c \in DOMAIN ceremonies' :
           \/ /\ c \in DOMAIN ceremonies
              /\ ceremonies'[c].open => ceremonies[c].open
              /\ ceremonies'[c].op = ceremonies[c].op
              /\ ceremonies'[c].user = ceremonies[c].user
              /\ ceremonies'[c].session = ceremonies[c].session
           \/ Ends(c) /\ UNCHANGED <<tokens, uses, sessions>>
<1>1. ASSUME NEW r \in Requests, CreateRegistration(r) \/ CreateAuthentication(r) PROVE Good
  <2>1. /\ \E v : ceremonies' = With(ceremonies, r, v)
        /\ UNCHANGED <<tokens, uses, sessions>> /\ Ends(r)
    BY <1>1, WritersEnd DEF CreateRegistration, CreateAuthentication, history
  <2> QED BY <2>1 DEF With
<1>2. ASSUME NEW S, ceremonies' = Without(ceremonies, S) PROVE Good
  BY <1>2 DEF Without
<1>3. ASSUME NEW c \in DOMAIN ceremonies, ceremonies' = [ceremonies EXCEPT ![c].open = FALSE]
      PROVE  Good
  BY <1>3 DEF Core, TypeOK, Table, CeremonyRec
<1>4. ASSUME NEW r \in Requests, DeletePasskey(r) \/ Revoke(r) \/ ConfirmReset(r) PROVE Good
  BY <1>4, <1>2 DEF DeletePasskey, Revoke, ConfirmReset, DeleteSessions, Cascade
<1>5. ASSUME NEW s, PruneSession(s) PROVE Good
  BY <1>5, <1>2 DEF PruneSession, DeleteSessions, Cascade
<1>6. ASSUME NEW r \in Requests, Claim(r) PROVE Good
  BY <1>6, <1>3 DEF Claim, OpenCeremony
<1>7. ASSUME NEW c \in DOMAIN ceremonies, ExpireCeremony(c) \/ PruneCeremony(c) PROVE Good
  BY <1>7, <1>2, <1>3 DEF ExpireCeremony, PruneCeremony
<1>8. CASE UNCHANGED ceremonies
  BY <1>8
<1> QED BY <1>1, <1>4, <1>5, <1>6, <1>7, <1>8, FrameNext DEF Writers, CeremonySteps

\* A use counts for a ceremony whose holder ends, or for a live token that the
\* step uses up.
LEMMA UsesMove ==
  ASSUME Core, [Next]_vars
  PROVE  \A t \in DOMAIN uses :
           \/ uses'[t] = uses[t]
           \/ /\ uses'[t] = uses[t] + 1
              /\ \/ \E r \in Requests : Holds(r, t) /\ Ends(r)
                 \/ /\ t \in DOMAIN tokens /\ tokens[t].state = "live"
                    /\ t \in DOMAIN tokens' /\ tokens'[t].state = "used"
<1> DEFINE Good == \A t \in DOMAIN uses :
           \/ uses'[t] = uses[t]
           \/ /\ uses'[t] = uses[t] + 1
              /\ \/ \E r \in Requests : Holds(r, t) /\ Ends(r)
                 \/ /\ t \in DOMAIN tokens /\ tokens[t].state = "live"
                    /\ t \in DOMAIN tokens' /\ tokens'[t].state = "used"
<1>0. uses \in [Requests \cup {Invite} -> Nat] BY DEF Core, TypeOK
<1>1. ASSUME NEW r \in Requests, Enrol(r) \/ FinishAuthentication(r) PROVE Good
  <2>1. Holds(r, req[r].item) /\ Ends(r)
    BY <1>1, WritersEnd DEF Enrol, FinishAuthentication, At, Holds, Finishes
  <2>2. Spend(req[r].item) BY <1>1 DEF Enrol, FinishAuthentication
  <2> QED BY <1>0, <2>1, <2>2 DEF Spend
<1>2. ASSUME NEW x, Spend(x), x \in DOMAIN tokens, tokens[x].state = "live",
             tokens' = Used(x)
      PROVE  Good
  <2>1. x \in DOMAIN tokens' /\ tokens'[x].state = "used"
    BY <1>2 DEF Used, Core, TypeOK, Table, TokenRec
  <2> QED BY <1>0, <1>2, <2>1 DEF Spend
<1>3. ASSUME NEW r \in Requests, Register(r) \/ VerifyEmail(r) \/ ConfirmReset(r) PROVE Good
  BY <1>3, <1>2 DEF Register, VerifyEmail, ConfirmReset, Claimable, Spend
<1>4. CASE UNCHANGED uses
  BY <1>4
<1> QED BY <1>1, <1>3, <1>4, FrameNext DEF Writers, UseSteps

\* The rows are named by requests that have ended, the two tables share no
\* name, and whatever can still take effect has not done so: a live token, an
\* open ceremony, and a ceremony in the hands of the one request that claimed
\* it.
Spendable ==
  /\ DOMAIN ceremonies \subseteq Requests
  /\ DOMAIN tokens \subseteq Requests \cup {Invite}
  /\ DOMAIN ceremonies \cap DOMAIN tokens = {}
  /\ \A r \in Requests : req[r].at # "ended" =>
       r \notin DOMAIN ceremonies \cup DOMAIN tokens /\ uses[r] = 0
  /\ \A t \in DOMAIN tokens : tokens[t].state = "live" => uses[t] = 0
  /\ \A c \in DOMAIN ceremonies : ceremonies[c].open =>
       uses[c] = 0 /\ \A r \in Requests : ~Holds(r, c)
  /\ \A r \in Requests : \A c : Holds(r, c) =>
       /\ c \in Requests /\ req[c].at = "ended" /\ c \notin DOMAIN tokens
       /\ uses[c] = 0
       /\ \A q \in Requests : Holds(q, c) => q = r

\* Two requests do not claim in one step.
LEMMA ClaimAlone ==
  ASSUME Core, NEW q \in Requests, NEW r \in Requests, Claim(q), Claim(r)
  PROVE  q = r
<1>1. ASSUME NEW x \in Requests, NEW y \in Requests, x # y, Claim(x)
      PROVE  req'[y] = req[y]
  BY <1>1 DEF Claim, End, Core, TypeOK
<1>2. req'[q].at # "claim"
  <2>1. req[q] \in RequestRec BY DEF Core, TypeOK
  <2>2. CASE End(q) BY <2>2, EndTyped, RecordFacts DEF Core, TypeOK
  <2>3. CASE ~End(q)
    <3> DEFINE n == [req[q] EXCEPT !.at = "apply", !.url = ceremonies[req[q].item].url,
                                   !.handle = ceremonies[req[q].item].user]
    <3>1. n.at = "apply" BY <2>1 DEF RequestRec
    <3>2. req' = [req EXCEPT ![q] = n] BY <2>3 DEF Claim
    <3> HIDE DEF n
    <3> QED BY <3>1, <3>2 DEF Core, TypeOK
  <2> QED BY <2>2, <2>3
<1> QED BY <1>1, <1>2 DEF Claim

\* Every step keeps the strengthening.
LEMMA SpendableNext == Core /\ Spendable /\ [Next]_vars => Spendable'
<1> SUFFICES ASSUME Core, Spendable, [Next]_vars PROVE Spendable'
  OBVIOUS
<1>0. /\ uses \in [Requests \cup {Invite} -> Nat] /\ uses' \in [Requests \cup {Invite} -> Nat]
  BY CoreNext DEF Core, TypeOK
<1>1. \A q \in Requests : req[q].at = "ended" => req'[q] = req[q]
  BY RequestsMove
<1>2. ASSUME NEW q \in Requests, NEW c, Holds(q, c)'
      PROVE  Holds(q, c) \/ (Claim(q) /\ c = req[q].item)
  BY <1>2, RequestsMove
<1>3. ASSUME NEW c, NEW q \in Requests, Claim(q), c = req[q].item
      PROVE  /\ c \in DOMAIN ceremonies /\ ceremonies[c].open
             /\ c \in DOMAIN ceremonies' /\ ~ceremonies'[c].open
             /\ UNCHANGED <<tokens, uses>>
  <2>1. c \in DOMAIN ceremonies /\ ceremonies[c] \in CeremonyRec /\ ceremonies[c].open
    BY <1>3 DEF Claim, OpenCeremony, Core, TypeOK, Table
  <2> QED BY <1>3, <2>1 DEF Claim, history, CeremonyRec, Core, TypeOK, Table
<1>4. DOMAIN ceremonies' \subseteq Requests /\ DOMAIN tokens' \subseteq Requests \cup {Invite}
  BY CeremoniesMove, TokensMove DEF Spendable, Ends
<1>5. DOMAIN ceremonies' \cap DOMAIN tokens' = {}
  <2>1. ASSUME NEW x \in DOMAIN ceremonies', x \in DOMAIN tokens' PROVE FALSE
    <3>1. CASE x \in DOMAIN ceremonies
      BY <2>1, <3>1, TokensMove DEF Spendable, Ends
    <3>2. CASE x \notin DOMAIN ceremonies
      BY <2>1, <3>2, CeremoniesMove DEF Spendable, Ends
    <3> QED BY <3>1, <3>2
  <2> QED BY <2>1
<1>6. ASSUME NEW r \in Requests, req'[r].at # "ended"
      PROVE  r \notin DOMAIN ceremonies' \cup DOMAIN tokens' /\ uses'[r] = 0
  <2>1. req[r].at # "ended" BY <1>1, <1>6
  <2>2. r \notin DOMAIN ceremonies' BY <1>6, <2>1, CeremoniesMove DEF Spendable, Ends
  <2>3. r \notin DOMAIN tokens' BY <1>6, <2>1, TokensMove DEF Spendable, Ends
  <2>4. uses'[r] = uses[r] BY <1>0, <2>1, UsesMove DEF Spendable
  <2> QED BY <2>1, <2>2, <2>3, <2>4 DEF Spendable
<1>7. ASSUME NEW t \in DOMAIN tokens', tokens'[t].state = "live" PROVE uses'[t] = 0
  <2>1. CASE t \in DOMAIN tokens /\ tokens[t].state = "live"
    <3>1. t \in DOMAIN uses BY <2>1, <1>0 DEF Spendable
    <3>2. \A r \in Requests : ~Holds(r, t) BY <2>1 DEF Spendable
    <3> QED BY <3>1, <3>2, <2>1, <1>7, UsesMove DEF Spendable
  <2>2. CASE Ends(t) /\ UNCHANGED uses
    BY <2>2 DEF Spendable, Ends
  <2> QED BY <1>7, <2>1, <2>2, TokensMove
<1>8. ASSUME NEW c \in DOMAIN ceremonies', ceremonies'[c].open
      PROVE  uses'[c] = 0 /\ \A r \in Requests : ~Holds(r, c)'
  <2>1. CASE c \in DOMAIN ceremonies /\ ceremonies[c].open
    <3>1. uses[c] = 0 /\ c \in Requests /\ c \notin DOMAIN tokens
          /\ \A r \in Requests : ~Holds(r, c)
      BY <2>1 DEF Spendable
    <3>2. uses'[c] = uses[c] BY <3>1, <1>0, UsesMove
    <3>3. ASSUME NEW r \in Requests, Holds(r, c)' PROVE FALSE
      <4>1. Claim(r) /\ c = req[r].item BY <3>1, <3>3, <1>2
      <4> QED BY <4>1, <1>3, <1>8
    <3> QED BY <3>1, <3>2, <3>3
  <2>2. CASE Ends(c) /\ UNCHANGED uses
    <3>1. c \in Requests /\ uses'[c] = 0 /\ c \notin DOMAIN ceremonies
      BY <2>2 DEF Spendable, Ends
    <3>2. ASSUME NEW r \in Requests, Holds(r, c)' PROVE FALSE
      <4>1. CASE Holds(r, c) BY <4>1, <2>2 DEF Spendable, Ends
      <4>2. CASE Claim(r) /\ c = req[r].item BY <4>2, <1>3, <3>1
      <4> QED BY <3>2, <4>1, <4>2, <1>2
    <3> QED BY <3>1, <3>2
  <2> QED BY <1>8, <2>1, <2>2, CeremoniesMove
<1>9. ASSUME NEW r \in Requests, NEW c, Holds(r, c)'
      PROVE  /\ c \in Requests /\ req'[c].at = "ended" /\ c \notin DOMAIN tokens'
             /\ uses'[c] = 0
             /\ \A q \in Requests : Holds(q, c)' => q = r
  <2>1. /\ c \in Requests /\ req[c].at = "ended" /\ c \notin DOMAIN tokens /\ uses[c] = 0
    <3>1. CASE Holds(r, c) BY <3>1 DEF Spendable
    <3>2. CASE Claim(r) /\ c = req[r].item
      BY <3>2, <1>3 DEF Spendable
    <3> QED BY <1>9, <1>2, <3>1, <3>2
  <2>2. req'[c].at = "ended" BY <2>1, <1>1
  <2>3. c \notin DOMAIN tokens' BY <2>1, TokensMove DEF Ends
  <2>4. \A q \in Requests : Holds(q, c)' => q = r
    <3>1. ASSUME NEW q \in Requests, Holds(q, c)' PROVE q = r
      <4>1. CASE Holds(q, c) /\ Holds(r, c) BY <4>1 DEF Spendable
      <4>2. CASE Claim(q) /\ Claim(r) BY <4>2, ClaimAlone
      <4>3. CASE Holds(q, c) /\ Claim(r) /\ c = req[r].item
        BY <4>3, <1>3 DEF Spendable
      <4>4. CASE Holds(r, c) /\ Claim(q) /\ c = req[q].item
        BY <4>4, <1>3 DEF Spendable
      <4> QED BY <3>1, <1>9, <1>2, <4>1, <4>2, <4>3, <4>4
    <3> QED BY <3>1
  <2>5. uses'[c] = uses[c]
    <3>1. ASSUME NEW q \in Requests, Holds(q, c), Ends(q) PROVE FALSE
      <4>1. CASE Holds(r, c)
        <5>1. q = r BY <3>1, <4>1 DEF Spendable
        <5> QED BY <5>1, <3>1, <1>9 DEF Holds, Ends
      <4>2. CASE Claim(r) /\ c = req[r].item
        BY <3>1, <4>2, <1>3 DEF Spendable
      <4> QED BY <4>1, <4>2, <1>9, <1>2
    <3> QED BY <3>1, <2>1, <1>0, UsesMove
  <2> QED BY <2>1, <2>2, <2>3, <2>4, <2>5
<1> QED BY <1>4, <1>5, <1>6, <1>7, <1>8, <1>9 DEF Spendable

\* What is used up was unused.
LEMMA SpentNext == Core /\ Spendable /\ SpentOnce /\ [Next]_vars => SpentOnce'
<1> SUFFICES ASSUME Core, Spendable, SpentOnce, [Next]_vars, NEW t \in DOMAIN uses'
             PROVE  uses'[t] <= 1
  BY DEF SpentOnce
<1>1. /\ uses \in [Requests \cup {Invite} -> Nat] /\ uses' \in [Requests \cup {Invite} -> Nat]
  BY CoreNext DEF Core, TypeOK
<1>2. t \in DOMAIN uses /\ uses[t] \in Nat /\ uses[t] <= 1 BY <1>1 DEF SpentOnce
<1>3. CASE uses'[t] = uses[t] BY <1>2, <1>3
<1>4. CASE uses'[t] # uses[t]
  <2>1. uses[t] = 0 BY <1>2, <1>4, UsesMove DEF Spendable
  <2> QED BY <1>2, <1>4, <2>1, UsesMove
<1> QED BY <1>3, <1>4

\* An invitation, a mailed link and a passkey ceremony take effect at most once,
\* however many requests present them and whichever acknowledgement is lost.
THEOREM SpentAtMostOnce == Spec => []SpentOnce
<1>1. Init => Spendable /\ SpentOnce
  <2> SUFFICES ASSUME Init PROVE Spendable /\ SpentOnce
    OBVIOUS
  <2>1. /\ \A r \in Requests : req[r] = New /\ uses[r] = 0
        /\ \A t \in DOMAIN uses : uses[t] = 0
        /\ DOMAIN ceremonies = {} /\ DOMAIN tokens = {Invite} /\ uses[Invite] = 0
    BY DEF Init, Just
  <2>2. \A r \in Requests : \A c : ~Holds(r, c)
    BY <2>1 DEF Holds, New
  <2>3. Invite \notin Requests BY AccountsAssumption
  <2>4. Spendable BY <2>1, <2>2, <2>3 DEF Spendable
  <2> QED BY <2>1, <2>4 DEF SpentOnce
<1> QED BY <1>1, CoreInit, CoreNext, SpendableNext, SpentNext, PTL DEF Spec

-----------------------------------------------------------------------------
\* A session keeps its user; a new one is named by the ending request.
LEMMA SessionsMove ==
  ASSUME Core, [Next]_vars
  PROVE  \A s \in DOMAIN sessions' :
           \/ s \in DOMAIN sessions /\ sessions'[s].user = sessions[s].user
           \/ Ends(s)
<1> DEFINE Good == \A s \in DOMAIN sessions' :
           \/ s \in DOMAIN sessions /\ sessions'[s].user = sessions[s].user
           \/ Ends(s)
<1>1. ASSUME NEW r \in Requests, FinishAuthentication(r) \/ OpenSession(r) \/ Register(r)
      PROVE  Good
  <2>1. Ends(r) /\ \E v : sessions' = With(sessions, r, v)
    BY <1>1, WritersEnd DEF FinishAuthentication, OpenSession, Register
  <2> QED BY <2>1 DEF With
<1>2. ASSUME NEW gone, DeleteSessions(gone) PROVE Good
  BY <1>2, DeleteTyped
<1>3. ASSUME NEW r \in Requests, Revoke(r) \/ ConfirmReset(r) PROVE Good
  BY <1>3, <1>2 DEF Revoke, ConfirmReset
<1>4. ASSUME NEW s, PruneSession(s) PROVE Good
  BY <1>4, <1>2 DEF PruneSession
<1>5. ASSUME NEW r \in Requests, DeletePasskey(r) PROVE Good
  <2>1. \A s \in DOMAIN sessions : sessions[s] \in SessionRec
    BY DEF Core, TypeOK, Table
  <2> QED BY <1>5, <2>1 DEF DeletePasskey, Without, SessionRec
<1>6. ASSUME NEW s \in DOMAIN sessions, IdleOut(s) PROVE Good
  BY <1>6 DEF IdleOut, Core, TypeOK, Table, SessionRec
<1>7. CASE UNCHANGED sessions
  BY <1>7
<1> QED BY <1>1, <1>3, <1>4, <1>5, <1>6, <1>7, FrameNext DEF Writers, SessionSteps

\* A request that has not ended has made no session and no passkey yet, and
\* the passkey that granted a session belongs to the session's user.
Granted ==
  /\ DOMAIN sessions \subseteq Requests \cup {Root}
  /\ \A r \in Requests : req[r].at # "ended" =>
       r \notin DOMAIN sessions /\ r \notin DOMAIN credentials
  /\ \A s \in DOMAIN sessions : sessions[s].grant # None =>
       /\ sessions[s].grant \in DOMAIN credentials
       /\ credentials[sessions[s].grant].user = sessions[s].user

\* Every step keeps the strengthening.
LEMMA GrantedNext == Core /\ Granted /\ [Next]_vars => Granted'
<1> SUFFICES ASSUME Core, Granted, [Next]_vars PROVE Granted'
  OBVIOUS
<1> DEFINE Backed == \A s \in DOMAIN sessions : sessions[s].grant # None =>
              /\ sessions[s].grant \in DOMAIN credentials
              /\ credentials[sessions[s].grant].user = sessions[s].user
<1>1. DOMAIN sessions' \subseteq Requests \cup {Root}
  BY SessionsMove DEF Granted, Ends
<1>2. ASSUME NEW r \in Requests, req'[r].at # "ended"
      PROVE  r \notin DOMAIN sessions' /\ r \notin DOMAIN credentials'
  <2>1. req[r].at # "ended" BY <1>2, RequestsMove
  <2>2. r \notin DOMAIN sessions'
    BY <1>2, <2>1, SessionsMove DEF Granted, Ends
  <2>3. ASSUME NEW q \in Requests, Enrol(q) PROVE r \notin DOMAIN credentials'
    BY <2>3, <1>2, <2>1, WritersEnd DEF Enrol, With, Granted, Ends
  <2>4. ASSUME NEW q \in Requests, DeletePasskey(q) PROVE r \notin DOMAIN credentials'
    BY <2>4, <2>1 DEF DeletePasskey, Without, Granted
  <2>5. CASE UNCHANGED credentials
    BY <2>5, <2>1, <2>2 DEF Granted
  <2> QED BY <2>2, <2>3, <2>4, <2>5, FrameNext DEF Writers, CredentialSteps
<1>3. ASSUME NEW r \in Requests, Enrol(r) PROVE Backed'
  <2>1. r \notin DOMAIN credentials /\ UNCHANGED sessions
        /\ \E v : credentials' = With(credentials, r, v)
    <3>1. Ends(r) BY <1>3, WritersEnd
    <3> QED BY <1>3, <3>1 DEF Enrol, Granted, Ends
  <2> QED BY <2>1 DEF With, Granted
<1>4. ASSUME NEW r \in Requests, DeletePasskey(r) PROVE Backed'
  <2> DEFINE c == req[r].item
             left == Without(sessions, Others(r))
  <2>1. /\ credentials[c].user = req[r].user
        /\ credentials' = Without(credentials, {c})
        /\ sessions' = [s \in DOMAIN left |->
             IF s = req[r].session THEN [left[s] EXCEPT !.grant = None] ELSE left[s]]
    BY <1>4 DEF DeletePasskey
  <2>2. ASSUME NEW s \in DOMAIN left
        PROVE  /\ s \in DOMAIN sessions /\ left[s] = sessions[s] /\ left[s] \in SessionRec
               /\ s # req[r].session => sessions[s].user # req[r].user
    BY DEF Without, Core, TypeOK, Table, Others, SessionsOf
  <2> HIDE DEF left
  <2>3. ASSUME NEW s \in DOMAIN sessions', sessions'[s].grant # None
        PROVE  /\ sessions'[s].grant \in DOMAIN credentials'
               /\ credentials'[sessions'[s].grant].user = sessions'[s].user
    <3>1. s # req[r].session /\ sessions'[s] = sessions[s] /\ s \in DOMAIN sessions
      BY <2>1, <2>2, <2>3 DEF SessionRec
    <3>2. sessions[s].user # req[r].user BY <3>1, <2>1, <2>2, <2>3
    <3>3. sessions[s].grant # c
      BY <3>1, <3>2, <2>1, <2>3 DEF Granted
    <3> QED BY <3>1, <3>3, <2>1, <2>3 DEF Granted, Without
  <2> QED BY <2>3
<1>5. ASSUME NEW r \in Requests, FinishAuthentication(r) PROVE Backed'
  <2>1. PICK c \in DOMAIN credentials :
          sessions' = With(sessions, r, Session(credentials[c].user, "browser", c))
    BY <1>5 DEF FinishAuthentication
  <2>2. UNCHANGED credentials BY <1>5 DEF FinishAuthentication
  <2> QED BY <2>1, <2>2 DEF With, Session, Granted
<1>6. ASSUME NEW r \in Requests, OpenSession(r) \/ Register(r) PROVE Backed'
  <2>1. PICK v : v.grant = None /\ sessions' = With(sessions, r, v)
    BY <1>6 DEF OpenSession, Register, Session
  <2>2. UNCHANGED credentials BY <1>6 DEF OpenSession, Register
  <2> QED BY <2>1, <2>2 DEF With, Granted
<1>7. ASSUME NEW gone, DeleteSessions(gone), UNCHANGED credentials PROVE Backed'
  BY <1>7, DeleteTyped DEF Granted
<1>8. ASSUME NEW r \in Requests, Revoke(r) \/ ConfirmReset(r) PROVE Backed'
  BY <1>8, <1>7 DEF Revoke, ConfirmReset
<1>9. ASSUME NEW s \in DOMAIN sessions, PruneSession(s) PROVE Backed'
  BY <1>9, <1>7 DEF PruneSession
<1>10. ASSUME NEW s \in DOMAIN sessions, IdleOut(s) PROVE Backed'
  BY <1>10 DEF IdleOut, Granted, Core, TypeOK, Table, SessionRec
<1>11. ASSUME UNCHANGED <<sessions, credentials>> PROVE Backed'
  BY <1>11 DEF Granted
<1> HIDE DEF Backed
<1>12. Backed'
  BY <1>3, <1>4, <1>5, <1>6, <1>8, <1>9, <1>10, <1>11, FrameNext
     DEF Writers, SessionSteps, CredentialSteps
<1> QED BY <1>1, <1>2, <1>12 DEF Granted, Backed

\* It holds initially.
LEMMA GrantedInit == Init => Granted
<1> SUFFICES ASSUME Init PROVE Granted
  OBVIOUS
<1>1. DOMAIN sessions = {Root} /\ sessions[Root].grant = None
  BY DEF Init, Just, Session
<1>2. DOMAIN credentials \subseteq {Key}
  BY DEF Init, Just
<1> QED BY <1>1, <1>2, AccountsAssumption DEF Granted

\* A session opened by a passkey ends with that passkey, unless it is the one
\* that confirmed the deletion: delete_passkey_and_revoke_other_sessions leaves
\* none behind, whatever signed in or enrolled meanwhile.
THEOREM GrantsEnd == Spec => []GrantsStand
<1>1. Granted => GrantsStand BY DEF Granted, GrantsStand
<1> QED BY <1>1, CoreInit, CoreNext, GrantedInit, GrantedNext, PTL DEF Spec

-----------------------------------------------------------------------------
\* A signed-in request keeps the user and session it authenticated as.
LEMMA SignedInMove ==
  ASSUME Core, [Next]_vars
  PROVE  \A r \in Requests : req'[r].op \in AuthedOps =>
           \/ /\ req'[r].op = req[r].op /\ req'[r].user = req[r].user
              /\ req'[r].session = req[r].session
           \/ /\ req'[r].session \in DOMAIN sessions /\ UNCHANGED sessions
              /\ req'[r].user = sessions[req'[r].session].user
<1> DEFINE Good == \A r \in Requests : req'[r].op \in AuthedOps =>
           \/ /\ req'[r].op = req[r].op /\ req'[r].user = req[r].user
              /\ req'[r].session = req[r].session
           \/ /\ req'[r].session \in DOMAIN sessions /\ UNCHANGED sessions
              /\ req'[r].user = sessions[req'[r].session].user
<1>0. req \in [Requests -> RequestRec] BY DEF Core, TypeOK
<1>1. ASSUME NEW r \in Requests, End(r) PROVE Good
  <2>1. Ended.op \notin AuthedOps BY RecordFacts DEF AuthedOps
  <2> QED BY <1>0, <1>1, <2>1, EndTyped
<1>2. ASSUME NEW r \in Requests, NEW n, req' = [req EXCEPT ![r] = n],
             n.op = req[r].op, n.user = req[r].user, n.session = req[r].session
      PROVE  Good
  BY <1>0, <1>2
<1>3. ASSUME NEW r \in Requests, Authenticate(r) PROVE Good
  <2>1. PICK op \in AuthedOps, s \in DOMAIN sessions :
          \E item \in Items(op, sessions[s].user) :
            req' = [req EXCEPT ![r] =
                      [New EXCEPT !.at = FirstStep(op), !.op = op, !.item = item,
                                  !.user = sessions[s].user, !.session = s]]
    BY <1>3 DEF Authenticate
  <2>2. PICK item : req' = [req EXCEPT ![r] =
                      [New EXCEPT !.at = FirstStep(op), !.op = op, !.item = item,
                                  !.user = sessions[s].user, !.session = s]]
    BY <2>1
  <2> DEFINE n == [New EXCEPT !.at = FirstStep(op), !.op = op, !.item = item,
                              !.user = sessions[s].user, !.session = s]
  <2>3. n.user = sessions[s].user /\ n.session = s BY DEF New
  <2>4. UNCHANGED sessions BY <1>3 DEF Authenticate, rows
  <2> HIDE DEF n
  <2>5. req' = [req EXCEPT ![r] = n] BY <2>2 DEF n
  <2> QED BY <1>0, <2>3, <2>4, <2>5
<1>4. ASSUME NEW r \in Requests, Arrive(r) PROVE Good
  <2>1. PICK op \in OpenOps, u \in Users :
          \E item \in Items(op, u),
             url \in IF op = "set_base_url" THEN Urls \cup {None} ELSE {None} :
            req' = [req EXCEPT ![r] =
                      [New EXCEPT !.at = FirstStep(op), !.op = op, !.item = item,
                                  !.user = u, !.url = url]]
    BY <1>4 DEF Arrive
  <2>2. PICK item, url : req' = [req EXCEPT ![r] =
                      [New EXCEPT !.at = FirstStep(op), !.op = op, !.item = item,
                                  !.user = u, !.url = url]]
    BY <2>1
  <2> DEFINE n == [New EXCEPT !.at = FirstStep(op), !.op = op, !.item = item,
                              !.user = u, !.url = url]
  <2>3. n.op \notin AuthedOps BY DEF New, OpenOps, AuthedOps
  <2> HIDE DEF n
  <2>4. req' = [req EXCEPT ![r] = n] BY <2>2 DEF n
  <2> QED BY <1>0, <2>3, <2>4
<1>5. ASSUME NEW r \in Requests, CheckPassword(r) PROVE Good
  <2>1. PICK step : req' = [req EXCEPT ![r].at = step]
    BY <1>5 DEF CheckPassword, Move
  <2> QED BY <1>0, <2>1, <1>2 DEF RequestRec
<1>6. ASSUME NEW r \in Requests, ReadIdentity(r) PROVE Good
  <2>1. req' = [req EXCEPT ![r].at = "create", ![r].url = baseUrl]
    BY <1>6 DEF ReadIdentity
  <2> QED BY <1>0, <2>1, <1>2 DEF RequestRec
<1>7. ASSUME NEW r \in Requests, Claim(r) PROVE Good
  <2>1. CASE End(r) BY <2>1, <1>1
  <2>2. CASE ~End(r)
    <3> DEFINE n == [req[r] EXCEPT !.at = "apply", !.url = ceremonies[req[r].item].url,
                                   !.handle = ceremonies[req[r].item].user]
    <3>1. n.op = req[r].op /\ n.user = req[r].user /\ n.session = req[r].session
      BY <1>0 DEF RequestRec
    <3>2. req' = [req EXCEPT ![r] = n] BY <1>7, <2>2 DEF Claim
    <3> HIDE DEF n
    <3> QED BY <3>1, <3>2, <1>2
  <2> QED BY <2>1, <2>2
<1>8. ASSUME NEW r \in Requests, RequestStep(r) PROVE Good
  <2>1. CASE \/ CreateRegistration(r) \/ CreateAuthentication(r) \/ CreateVerification(r)
             \/ CreateReset(r) \/ CreateInvite(r) \/ Enrol(r) \/ FinishAuthentication(r)
             \/ DeletePasskey(r) \/ OpenSession(r) \/ Revoke(r) \/ Register(r)
             \/ VerifyEmail(r) \/ ConfirmReset(r) \/ SetBaseUrl(r) \/ Fails(r)
    <3>1. End(r)
      BY <2>1 DEF CreateRegistration, CreateAuthentication, CreateVerification,
         CreateReset, CreateInvite, Enrol, FinishAuthentication, DeletePasskey,
         OpenSession, Revoke, Register, VerifyEmail, ConfirmReset, SetBaseUrl, Fails
    <3> QED BY <3>1, <1>1
  <2> QED BY <1>8, <2>1, <1>3, <1>4, <1>5, <1>6, <1>7 DEF RequestStep
<1>9. CASE UNCHANGED req
  BY <1>9
<1> QED BY <1>8, <1>9 DEF Next, vars, ExpireToken, PruneToken, ExpireCeremony,
           PruneCeremony, IdleOut, PruneSession

\* The session of a signed-in request was made by an ended one, so that no
\* other session ever takes its name.
SignedIn ==
  \A r \in Requests : req[r].op \in AuthedOps =>
    /\ req[r].session \in Requests => req[req[r].session].at = "ended"
    /\ req[r].session \in DOMAIN sessions =>
         sessions[req[r].session].user = req[r].user

\* Every step keeps it.
LEMMA SignedInNext == Core /\ Granted /\ SignedIn /\ [Next]_vars => SignedIn'
<1> SUFFICES ASSUME Core, Granted, SignedIn, [Next]_vars,
                    NEW r \in Requests, req'[r].op \in AuthedOps
             PROVE  /\ req'[r].session \in Requests => req'[req'[r].session].at = "ended"
                    /\ req'[r].session \in DOMAIN sessions' =>
                         sessions'[req'[r].session].user = req'[r].user
  BY DEF SignedIn
<1>1. CASE /\ req'[r].op = req[r].op /\ req'[r].user = req[r].user
           /\ req'[r].session = req[r].session
  <2>1. req[r].session \in Requests =>
          req[req[r].session].at = "ended" /\ req'[req[r].session].at = "ended"
    BY <1>1, RequestsMove DEF SignedIn
  <2> QED BY <1>1, <2>1, SessionsMove DEF SignedIn, Ends
<1>2. CASE /\ req'[r].session \in DOMAIN sessions /\ UNCHANGED sessions
           /\ req'[r].user = sessions[req'[r].session].user
  <2>1. req'[r].session \in Requests => req[req'[r].session].at = "ended"
    BY <1>2 DEF Granted
  <2> QED BY <1>2, <2>1, RequestsMove
<1> QED BY <1>1, <1>2, SignedInMove

\* A session goes with the ceremonies bound to it.
LEMMA CeremoniesFollow ==
  ASSUME Core, [Next]_vars, NEW c \in DOMAIN ceremonies, c \in DOMAIN ceremonies',
         ceremonies[c].session \in DOMAIN sessions
  PROVE  ceremonies[c].session \in DOMAIN sessions'
<1> DEFINE Good == ceremonies[c].session \in DOMAIN sessions'
<1>1. ASSUME NEW r, NEW v, sessions' = With(sessions, r, v) PROVE Good
  BY <1>1 DEF With
<1>2. ASSUME NEW r \in Requests, FinishAuthentication(r) \/ OpenSession(r) \/ Register(r)
      PROVE  Good
  BY <1>2, <1>1 DEF FinishAuthentication, OpenSession, Register
<1>3. ASSUME NEW gone, ceremonies' = Cascade(gone) PROVE ceremonies[c].session \notin gone
  BY <1>3 DEF Cascade, Without
<1>4. ASSUME NEW gone, DeleteSessions(gone) PROVE Good
  BY <1>4, <1>3 DEF DeleteSessions, Without
<1>5. ASSUME NEW r \in Requests, Revoke(r) \/ ConfirmReset(r) PROVE Good
  BY <1>5, <1>4 DEF Revoke, ConfirmReset
<1>6. ASSUME NEW s, PruneSession(s) PROVE Good
  BY <1>6, <1>4 DEF PruneSession
<1>7. ASSUME NEW r \in Requests, DeletePasskey(r) PROVE Good
  <2>1. ceremonies[c].session \notin Others(r)
    BY <1>7, <1>3 DEF DeletePasskey
  <2> QED BY <1>7, <2>1 DEF DeletePasskey, Without
<1>8. ASSUME NEW s \in DOMAIN sessions, IdleOut(s) PROVE Good
  BY <1>8 DEF IdleOut, Core, TypeOK, Table
<1>9. CASE UNCHANGED sessions
  BY <1>9
<1> QED BY <1>2, <1>5, <1>6, <1>7, <1>8, <1>9, FrameNext DEF Writers, SessionSteps

\* Every step keeps the property.
LEMMA CeremonyNext ==
  Core /\ Granted /\ SignedIn /\ CeremonyHasSession /\ [Next]_vars => CeremonyHasSession'
<1> SUFFICES ASSUME Core, Granted, SignedIn, CeremonyHasSession, [Next]_vars,
                    NEW c \in DOMAIN ceremonies', ceremonies'[c].op = "start_registration"
             PROVE  /\ ceremonies'[c].session \in DOMAIN sessions'
                    /\ sessions'[ceremonies'[c].session].user = ceremonies'[c].user
  BY DEF CeremonyHasSession
<1>1. CASE /\ c \in DOMAIN ceremonies
           /\ ceremonies'[c].op = ceremonies[c].op
           /\ ceremonies'[c].user = ceremonies[c].user
           /\ ceremonies'[c].session = ceremonies[c].session
  <2> DEFINE s == ceremonies[c].session
  <2>1. s \in DOMAIN sessions /\ sessions[s].user = ceremonies[c].user
    BY <1>1 DEF CeremonyHasSession
  <2>2. s \in DOMAIN sessions' BY <1>1, <2>1, CeremoniesFollow
  <2>3. ~Ends(s) BY <2>1 DEF Ends, Granted
  <2> QED BY <1>1, <2>1, <2>2, <2>3, SessionsMove
<1>2. ASSUME NEW r \in Requests, CreateRegistration(r), c = r
      PROVE  /\ ceremonies'[c].session \in DOMAIN sessions'
             /\ sessions'[ceremonies'[c].session].user = ceremonies'[c].user
  <2>1. /\ ceremonies'[c] = Ceremony(r, req[r].user, req[r].session)
        /\ req[r].session \in DOMAIN sessions /\ UNCHANGED sessions
        /\ req[r].op \in AuthedOps
    BY <1>2 DEF CreateRegistration, With, At, AuthedOps
  <2> QED BY <2>1 DEF Ceremony, SignedIn
<1>3. ASSUME NEW r \in Requests, CreateRegistration(r) \/ CreateAuthentication(r)
      PROVE  c # r => c \in DOMAIN ceremonies /\ ceremonies'[c] = ceremonies[c]
  BY <1>3 DEF CreateRegistration, CreateAuthentication, With
<1>4. ASSUME NEW r \in Requests, CreateAuthentication(r)
      PROVE  c # r
  <2>1. ceremonies' = With(ceremonies, r, Ceremony(r, None, None))
        /\ req[r].op = "start_authentication"
    BY <1>4 DEF CreateAuthentication, At
  <2> QED BY <2>1 DEF With, Ceremony
<1>5. CASE \E r \in Requests : CreateRegistration(r) \/ CreateAuthentication(r)
  BY <1>1, <1>2, <1>3, <1>4, <1>5
<1>6. ASSUME NEW S, ceremonies' = Without(ceremonies, S)
      PROVE  c \in DOMAIN ceremonies /\ ceremonies'[c] = ceremonies[c]
  BY <1>6 DEF Without
<1>7. ASSUME NEW x \in DOMAIN ceremonies, ceremonies' = [ceremonies EXCEPT ![x].open = FALSE]
      PROVE  /\ c \in DOMAIN ceremonies
             /\ ceremonies'[c].op = ceremonies[c].op
             /\ ceremonies'[c].user = ceremonies[c].user
             /\ ceremonies'[c].session = ceremonies[c].session
  BY <1>7 DEF Core, TypeOK, Table, CeremonyRec
<1>8. CASE \E r \in Requests : DeletePasskey(r) \/ Revoke(r) \/ ConfirmReset(r)
  BY <1>8, <1>6, <1>1 DEF DeletePasskey, Revoke, ConfirmReset, DeleteSessions, Cascade
<1>9. CASE \E s \in DOMAIN sessions : PruneSession(s)
  BY <1>9, <1>6, <1>1 DEF PruneSession, DeleteSessions, Cascade
<1>10. CASE \E r \in Requests : Claim(r)
  BY <1>10, <1>7, <1>1 DEF Claim, OpenCeremony
<1>11. CASE \E x \in DOMAIN ceremonies : ExpireCeremony(x) \/ PruneCeremony(x)
  BY <1>11, <1>6, <1>7, <1>1 DEF ExpireCeremony, PruneCeremony
<1>12. CASE UNCHANGED ceremonies
  BY <1>12, <1>1
<1> QED BY <1>5, <1>8, <1>9, <1>10, <1>11, <1>12, FrameNext DEF Writers, CeremonySteps

\* A pending registration belongs to a session that still exists, of the user
\* who started it: revoking the session in any way takes the ceremony along.
THEOREM CeremoniesOwned == Spec => []CeremonyHasSession
<1>1. Init => SignedIn /\ CeremonyHasSession
  BY RecordFacts DEF Init, SignedIn, CeremonyHasSession, AuthedOps
<1> QED BY <1>1, CoreInit, CoreNext, GrantedInit, GrantedNext, SignedInNext, CeremonyNext,
        PTL DEF Spec

-----------------------------------------------------------------------------
\* A link that can still verify is its user's latest.
Latest ==
  \A t \in DOMAIN tokens :
    tokens[t].kind = "verification" /\ tokens[t].state = "live" =>
      newest[tokens[t].user] = t

\* Only a verification request moves the latest link, and only a verification
\* moves the verified address.
LEMMA AddressSteps ==
  ASSUME [Next]_vars
  PROVE  /\ UNCHANGED newest \/ \E r \in Requests : CreateVerification(r)
         /\ UNCHANGED verifiedBy \/ \E r \in Requests : VerifyEmail(r)
<1> DEFINE Good == /\ UNCHANGED newest \/ \E r \in Requests : CreateVerification(r)
                   /\ UNCHANGED verifiedBy \/ \E r \in Requests : VerifyEmail(r)
<1>1. ASSUME NEW r \in Requests, RequestStep(r) PROVE Good
  <2>1. CASE \/ Authenticate(r) \/ Arrive(r) \/ CheckPassword(r) \/ ReadIdentity(r)
             \/ CreateRegistration(r) \/ CreateAuthentication(r) \/ CreateReset(r)
             \/ CreateInvite(r) \/ Claim(r) \/ DeletePasskey(r) \/ OpenSession(r)
             \/ Revoke(r) \/ SetBaseUrl(r) \/ Fails(r)
    BY <2>1 DEF Authenticate, Arrive, CheckPassword, ReadIdentity, CreateRegistration,
       CreateAuthentication, CreateReset, CreateInvite, Claim, DeletePasskey,
       OpenSession, Revoke, SetBaseUrl, Fails, config, history
  <2>2. CASE Enrol(r) \/ FinishAuthentication(r) \/ Register(r) \/ ConfirmReset(r)
    BY <2>2 DEF Enrol, FinishAuthentication, Register, ConfirmReset, config
  <2>3. CASE CreateVerification(r)
    BY <2>3 DEF CreateVerification, config
  <2>4. CASE VerifyEmail(r)
    BY <2>4 DEF VerifyEmail
  <2> QED BY <1>1, <2>1, <2>2, <2>3, <2>4 DEF RequestStep
<1>2. CASE UNCHANGED <<config, history>>
  BY <1>2 DEF config, history
<1> QED BY <1>1, <1>2 DEF Next, vars, ExpireToken, PruneToken, ExpireCeremony,
           PruneCeremony, IdleOut, PruneSession

\* Every step keeps it.
LEMMA LatestNext == Core /\ Latest /\ [Next]_vars => Latest'
<1> SUFFICES ASSUME Core, Latest, [Next]_vars PROVE Latest'
  OBVIOUS
<1>1. ASSUME NEW r \in Requests, CreateVerification(r) PROVE Latest'
  <2> DEFINE u == req[r].user
  <2>1. /\ tokens' = With(Superseded(u), r, Token("verification", u))
        /\ newest' = [newest EXCEPT ![u] = r] /\ u \in Users
    BY <1>1 DEF CreateVerification, At, Core, Requesters, AuthedOps, Registered
  <2>2. newest \in [Users -> Maybe(Ids)] /\ tokens \in [DOMAIN tokens -> TokenRec]
    BY DEF Core, TypeOK, Table
  <2>3. ASSUME NEW t \in DOMAIN tokens', tokens'[t].kind = "verification",
               tokens'[t].state = "live"
        PROVE  newest'[tokens'[t].user] = t
    <3>1. CASE t = r
      BY <3>1, <2>1, <2>2 DEF With, Token
    <3>2. CASE t # r
      <4>1. t \in DOMAIN tokens /\ tokens'[t] = Superseded(u)[t]
        BY <3>2, <2>1 DEF With, Superseded
      <4>2. tokens'[t] = tokens[t] /\ tokens[t].user # u
        BY <4>1, <2>2, <2>3 DEF Superseded, TokenRec
      <4> QED BY <4>1, <4>2, <2>1, <2>2, <2>3 DEF Latest
    <3> QED BY <3>1, <3>2
  <2> QED BY <2>3 DEF Latest
<1>2. ASSUME UNCHANGED newest, SameTokens,
             \A t \in DOMAIN tokens' : tokens'[t].state = "live" => tokens[t].state = "live"
      PROVE  Latest'
  BY <1>2 DEF Latest, SameTokens
<1>3. ASSUME NEW r \in Requests, CreateReset(r) \/ CreateInvite(r) PROVE Latest'
  <2>1. PICK v : v.kind # "verification" /\ tokens' = With(tokens, r, v)
    BY <1>3 DEF CreateReset, CreateInvite, Token
  <2>2. UNCHANGED newest BY <1>3 DEF CreateReset, CreateInvite, history
  <2> QED BY <2>1, <2>2 DEF Latest, With
<1>4. ASSUME NEW t \in DOMAIN tokens, tokens' = Used(t), UNCHANGED newest PROVE Latest'
  <2>1. SameTokens BY <1>4, UsedTyped
  <2>2. \A x \in DOMAIN tokens' : tokens'[x].state = "live" => tokens[x].state = "live"
    BY <1>4 DEF Used, Core, TypeOK, Table, TokenRec
  <2> QED BY <1>4, <2>1, <2>2, <1>2
<1>5. ASSUME NEW r \in Requests, Register(r) \/ VerifyEmail(r) \/ ConfirmReset(r)
      PROVE  Latest'
  <2>1. UNCHANGED newest BY <1>5 DEF Register, VerifyEmail, ConfirmReset
  <2>2. CASE UNCHANGED tokens BY <2>1, <2>2 DEF Latest
  <2> QED BY <1>5, <1>4, <2>1, <2>2 DEF Register, VerifyEmail, ConfirmReset, Claimable
<1>6. ASSUME NEW t \in DOMAIN tokens, ExpireToken(t) PROVE Latest'
  BY <1>6 DEF ExpireToken, history, Latest, Core, TypeOK, Table, TokenRec
<1>7. ASSUME NEW t \in DOMAIN tokens, PruneToken(t) PROVE Latest'
  BY <1>7 DEF PruneToken, Without, history, Latest
<1>8. CASE UNCHANGED <<tokens, newest>>
  BY <1>8 DEF Latest
<1> QED BY <1>1, <1>3, <1>5, <1>6, <1>7, <1>8, FrameNext, AddressSteps
        DEF Writers, TokenSteps

\* A verified address is the one last asked for: use_email_verification never
\* accepts a link that create_email_verification superseded.
THEOREM AddressIsNewest == Spec => NewestVerifies
<1> DEFINE Step == \A u \in Users : verifiedBy'[u] # verifiedBy[u] => verifiedBy'[u] = newest[u]
<1>1. ASSUME Core, Latest, [Next]_vars PROVE [Step]_vars
  <2>1. ASSUME NEW r \in Requests, VerifyEmail(r) PROVE Step
    <3> DEFINE t == req[r].item
    <3>1. /\ t \in DOMAIN tokens /\ tokens[t].kind = "verification"
          /\ tokens[t].state = "live"
          /\ verifiedBy' = [verifiedBy EXCEPT ![tokens[t].user] = t]
      BY <2>1 DEF VerifyEmail, Claimable
    <3>2. newest[tokens[t].user] = t BY <1>1, <3>1 DEF Latest
    <3> QED BY <1>1, <3>1, <3>2 DEF Core, TypeOK
  <2> QED BY <1>1, <2>1, AddressSteps
<1>2. Init => Latest
  BY DEF Init, Latest, Just, Token
<1> QED BY <1>1, <1>2, CoreInit, CoreNext, LatestNext, PTL DEF Spec, NewestVerifies
=============================================================================
