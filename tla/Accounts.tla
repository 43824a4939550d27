------------------------------- MODULE Accounts -------------------------------
(***************************************************************************)
(* Accounts, sessions, single-use tokens and passkeys, as the web handlers *)
(* drive the storage crate on SQLite.                                      *)
(*                                                                         *)
(* A handler is a sequence of pool reads and write scopes. A write scope   *)
(* opens with BEGIN IMMEDIATE, so it is one step here; what interleaves is *)
(* the steps of different requests. Every scope can also roll back, or     *)
(* commit without an acknowledgement.                                      *)
(*                                                                         *)
(* A request makes at most one row of each table, so a row is named by the *)
(* request that made it. A password is its version; an assertion, a mailed *)
(* link and a typed password are whatever makes the check succeed, and a   *)
(* check that fails ends the request (Fails).                              *)
(***************************************************************************)
EXTENDS Naturals, FiniteSets

CONSTANTS
  Requests,   \* the requests of one behaviour (bound)
  Users,      \* the usernames
  Owner,      \* the user the instance starts with
  Root,       \* that user's first session
  Key,        \* a passkey the user may already own
  Invite,     \* an invitation already handed out
  Urls,       \* values of site.base_url, told apart by their origin
  HostOf,     \* the host of each of them, the relying-party id
  Usable,     \* those that webauthn_identity accepts
  None        \* SQL NULL

ASSUME AccountsAssumption ==
  /\ Owner \in Users
  /\ HostOf \in [Urls -> {HostOf[u] : u \in Urls}]
  /\ Usable \subseteq Urls
  /\ {Root, Key, Invite, None} \cap Requests = {}
  /\ Root # None /\ Key # None /\ Invite # None
  /\ None \notin Users \cup Urls \cup Nat

VARIABLES
  baseUrl,      \* site_config: site.base_url
  password,     \* users: the version of the password hash, None before registration
  verifiedBy,   \* users: the verification that set the verified address
  sessions,     \* the rows of sessions
  credentials,  \* the rows of passkey_credentials
  ceremonies,   \* the rows of the two ceremony tables
  tokens,       \* the rows of invites, email_verifications, password_resets
  req,          \* where each request is and what it holds
  newest,       \* history: each user's latest verification
  uses          \* history: how often each token or ceremony took effect

rows == <<sessions, credentials, ceremonies, tokens>>
config == <<baseUrl, password, verifiedBy>>
history == <<newest, uses>>
vars == <<rows, config, history, req>>

AuthedOps == {"start_registration", "finish_registration", "delete", "logout",
              "revoke", "create_app_password", "create_invite",
              "request_verification"}
OpenOps == {"start_authentication", "finish_authentication", "login",
            "register", "verify", "request", "confirm", "set_base_url"}

Steps == {"new", "check", "identity", "create", "claim", "apply", "ended"}
New == [at |-> "new", op |-> "none", user |-> None, session |-> None,
        item |-> None, url |-> None, handle |-> None]
Ended == [New EXCEPT !.at = "ended"]

Without(f, S) == [x \in DOMAIN f \ S |-> f[x]]
With(f, k, v) == [x \in DOMAIN f \cup {k} |-> IF x = k THEN v ELSE f[x]]
Just(k, v) == [x \in {k} |-> v]
-----------------------------------------------------------------------------
(* Storage: what the statements of a scope do to the tables. *)

\* create_session
Session(user, kind, grant) ==
  [user |-> user, kind |-> kind, idle |-> FALSE, grant |-> grant,
   born |-> password[user]]

\* Mutant: the ceremonies stay when their session goes.
CascadeNone(gone) == ceremonies

\* DELETE FROM sessions; a registration ceremony goes with its session.
Cascade(gone) ==
  Without(ceremonies, {c \in DOMAIN ceremonies : ceremonies[c].session \in gone})

DeleteSessions(gone) ==
  /\ sessions' = Without(sessions, gone)
  /\ ceremonies' = Cascade(gone)

SessionsOf(user) == {s \in DOMAIN sessions : sessions[s].user = user}

\* The one-statement claim of use_email_verification, use_password_reset and
\* claim_invite.
Claimable(t, kind) ==
  t \in DOMAIN tokens /\ tokens[t].kind = kind /\ tokens[t].state = "live"

Used(t) == [tokens EXCEPT ![t].state = "used"]

Token(kind, user) == [kind |-> kind, user |-> user, state |-> "live"]

\* Mutant: the pending links stay valid.
SupersededNone(user) == tokens

\* create_email_verification expires the user's pending tokens first.
Superseded(user) ==
  [t \in DOMAIN tokens |->
     IF tokens[t].kind = "verification" /\ tokens[t].user = user
        /\ tokens[t].state = "live"
     THEN [tokens[t] EXCEPT !.state = "dead"] ELSE tokens[t]]

\* set_base_url_with_passkey_guard and clear_base_url_with_passkey_guard
HostKept(url) ==
  \/ DOMAIN credentials = {}
  \/ baseUrl # None /\ url # None /\ HostOf[baseUrl] = HostOf[url]

\* Mutant: the identity the ceremony carries is trusted.
SamePartyCached(url) == url \in Usable

\* relying_party inside the scope that holds the relying-party lock
SameParty(url) == baseUrl \in Usable /\ url = baseUrl
-----------------------------------------------------------------------------
(* Requests *)

At(r, step, op) == req[r].at = step /\ req[r].op = op
Move(r, step) == req' = [req EXCEPT ![r].at = step]
End(r) == req' = [req EXCEPT ![r] = Ended]

FirstStep(op) ==
  CASE op \in {"start_registration", "delete", "login"} -> "check"
    [] op \in {"start_authentication", "request_verification", "request",
               "create_invite"} -> "identity"
    [] op \in {"finish_registration", "finish_authentication"} -> "claim"
    [] OTHER -> "apply"

\* What the caller may name: a handle, a link or a listed row it was given.
Items(op, user) ==
  CASE op \in {"finish_registration", "finish_authentication"}
         -> DOMAIN ceremonies
    [] op = "delete" -> DOMAIN credentials
    [] op = "revoke" -> SessionsOf(user)
    [] op \in {"verify", "confirm"} -> DOMAIN tokens
    [] op = "register" -> DOMAIN tokens \cup {None}
    [] OTHER -> {None}

\* require_auth: the request authenticates its session in a scope of its own.
Authenticate(r) ==
  /\ req[r] = New
  /\ \E op \in AuthedOps, s \in DOMAIN sessions :
       /\ ~sessions[s].idle
       /\ \E item \in Items(op, sessions[s].user) :
            req' = [req EXCEPT ![r] =
                      [New EXCEPT !.at = FirstStep(op), !.op = op, !.item = item,
                                  !.user = sessions[s].user, !.session = s]]
  /\ UNCHANGED <<rows, config, history>>

\* A request that carries no session. A reset needs a verified address.
Arrive(r) ==
  /\ req[r] = New
  /\ \E op \in OpenOps, u \in Users :
       /\ op \notin {"login", "register", "request"} => u = Owner
       /\ op = "login" => password[u] # None
       /\ op = "request" => verifiedBy[u] # None
       /\ \E item \in Items(op, u),
             url \in IF op = "set_base_url" THEN Urls \cup {None} ELSE {None} :
            req' = [req EXCEPT ![r] =
                      [New EXCEPT !.at = FirstStep(op), !.op = op, !.item = item,
                                  !.user = u, !.url = url]]
  /\ UNCHANGED <<rows, config, history>>

\* prepare_authentication: the password matches the hash the pool returns now.
CheckPassword(r) ==
  /\ req[r].at = "check"
  /\ Move(r, IF req[r].op = "start_registration" THEN "identity" ELSE "apply")
  /\ UNCHANGED <<rows, config, history>>

\* Mutant: the missing base URL goes unnoticed.
ReadIdentityUnchecked(r) ==
  /\ req[r].at = "identity"
  /\ req' = [req EXCEPT ![r].at = "create", ![r].url = baseUrl]
  /\ UNCHANGED <<rows, config, history>>

\* relying_party or require_base_url, before the scope opens
ReadIdentity(r) ==
  /\ req[r].at = "identity"
  /\ IF req[r].op \in {"start_registration", "start_authentication"}
     THEN baseUrl \in Usable ELSE baseUrl # None
  /\ req' = [req EXCEPT ![r].at = "create", ![r].url = baseUrl]
  /\ UNCHANGED <<rows, config, history>>

Ceremony(r, user, session) ==
  [op |-> req[r].op, user |-> user, session |-> session, url |-> req[r].url,
   open |-> TRUE]

\* start_registration: the ceremony row references the session row.
CreateRegistration(r) ==
  /\ At(r, "create", "start_registration")
  /\ req[r].session \in DOMAIN sessions
  /\ ceremonies' = With(ceremonies, r, Ceremony(r, req[r].user, req[r].session))
  /\ End(r)
  /\ UNCHANGED <<sessions, credentials, tokens, config, history>>

CreateAuthentication(r) ==
  /\ At(r, "create", "start_authentication")
  /\ ceremonies' = With(ceremonies, r, Ceremony(r, None, None))
  /\ End(r)
  /\ UNCHANGED <<sessions, credentials, tokens, config, history>>

CreateVerification(r) ==
  /\ At(r, "create", "request_verification")
  /\ tokens' = With(Superseded(req[r].user), r,
                    Token("verification", req[r].user))
  /\ newest' = [newest EXCEPT ![req[r].user] = r]
  /\ End(r)
  /\ UNCHANGED <<sessions, credentials, ceremonies, config, uses>>

CreateReset(r) ==
  /\ At(r, "create", "request")
  /\ tokens' = With(tokens, r, Token("reset", req[r].user))
  /\ End(r)
  /\ UNCHANGED <<sessions, credentials, ceremonies, config, history>>

\* The registration policy decides who may invite: anyone here.
CreateInvite(r) ==
  /\ At(r, "create", "create_invite")
  /\ tokens' = With(tokens, r, Token("invite", None))
  /\ End(r)
  /\ UNCHANGED <<sessions, credentials, ceremonies, config, history>>
-----------------------------------------------------------------------------
Purpose(op) ==
  IF op = "finish_registration" THEN "start_registration" ELSE "start_authentication"

\* Mutant: a claimed ceremony is claimed again.
OpenCeremonyReread(c, purpose) ==
  c \in DOMAIN ceremonies /\ ceremonies[c].op = purpose

\* The claim must be unclaimed, unexpired and of this purpose.
OpenCeremony(c, purpose) ==
  c \in DOMAIN ceremonies /\ ceremonies[c].op = purpose /\ ceremonies[c].open

\* Mutant: knowing the handle is enough.
BoundByHandle(r, c) == TRUE

\* A registration is finished by the user and session that started it.
Bound(r, c) ==
  req[r].op = "finish_registration" =>
    c.user = req[r].user /\ c.session = req[r].session

\* The claim commits. The request goes on only when the commit is acknowledged
\* and the ceremony is its own; otherwise the ceremony is spent for nothing.
Claim(r) ==
  LET c == req[r].item
      won == [req[r] EXCEPT !.at = "apply", !.url = ceremonies[c].url,
                            !.handle = ceremonies[c].user]
  IN /\ req[r].at = "claim"
     /\ OpenCeremony(c, Purpose(req[r].op))
     /\ ceremonies' = [ceremonies EXCEPT ![c].open = FALSE]
     /\ \/ Bound(r, ceremonies[c]) /\ req' = [req EXCEPT ![r] = won]
        \/ End(r)
     /\ UNCHANGED <<sessions, credentials, tokens, config, history>>

Spend(t) == uses' = [uses EXCEPT ![t] = @ + 1]

\* finish_registration, second scope. The authenticator stores the handle of
\* the user the ceremony was started for.
Enrol(r) ==
  /\ At(r, "apply", "finish_registration")
  /\ SameParty(req[r].url)
  /\ credentials' = With(credentials, r,
       [user |-> req[r].user, handle |-> req[r].handle, host |-> HostOf[req[r].url]])
  /\ Spend(req[r].item)
  /\ End(r)
  /\ UNCHANGED <<sessions, ceremonies, tokens, config, newest>>

\* finish_authentication, second scope: the credential row must still be there
\* and belong to the user whose handle came with the assertion.
FinishAuthentication(r) ==
  /\ At(r, "apply", "finish_authentication")
  /\ SameParty(req[r].url)
  /\ \E c \in DOMAIN credentials :
       /\ credentials[c].user = credentials[c].handle
       /\ sessions' = With(sessions, r, Session(credentials[c].user, "browser", c))
  /\ Spend(req[r].item)
  /\ End(r)
  /\ UNCHANGED <<credentials, ceremonies, tokens, config, newest>>

\* Mutant: only the app passwords are revoked.
OthersUnconfirmed(r) ==
  {s \in SessionsOf(req[r].user) \ {req[r].session} : sessions[s].kind = "machine"}

\* delete_passkey_and_revoke_other_sessions. The session kept was confirmed by
\* password, and stands on that from here on.
Others(r) == SessionsOf(req[r].user) \ {req[r].session}

DeletePasskey(r) ==
  LET c == req[r].item
      left == Without(sessions, Others(r))
  IN /\ At(r, "apply", "delete")
     /\ c \in DOMAIN credentials
     /\ credentials[c].user = req[r].user
     /\ credentials' = Without(credentials, {c})
     /\ sessions' = [s \in DOMAIN left |->
          IF s = req[r].session THEN [left[s] EXCEPT !.grant = None] ELSE left[s]]
     /\ ceremonies' = Cascade(Others(r))
     /\ End(r)
     /\ UNCHANGED <<tokens, config, history>>
-----------------------------------------------------------------------------
\* login and create_app_password: nothing read before the scope is read again.
OpenSession(r) ==
  /\ req[r].at = "apply" /\ req[r].op \in {"login", "create_app_password"}
  /\ sessions' = With(sessions, r,
       Session(req[r].user, IF req[r].op = "login" THEN "browser" ELSE "machine", None))
  /\ End(r)
  /\ UNCHANGED <<credentials, ceremonies, tokens, config, history>>

\* logout revokes the caller's session, revoke one of its user's.
Revoke(r) ==
  /\ req[r].at = "apply" /\ req[r].op \in {"logout", "revoke"}
  /\ DeleteSessions({IF req[r].op = "logout" THEN req[r].session ELSE req[r].item})
  /\ End(r)
  /\ UNCHANGED <<credentials, tokens, config, history>>

\* register: the policy read just before decides whether an invite is asked
\* for. The insert and the claim stand or fall together.
Register(r) ==
  LET u == req[r].user
      t == req[r].item
  IN /\ At(r, "apply", "register")
     /\ password[u] = None
     /\ t # None => Claimable(t, "invite")
     /\ password' = [password EXCEPT ![u] = 0]
     /\ tokens' = IF t = None THEN tokens ELSE Used(t)
     /\ uses' = IF t = None THEN uses ELSE [uses EXCEPT ![t] = @ + 1]
     /\ sessions' = With(sessions, r, [user |-> u, kind |-> "browser", idle |-> FALSE,
                                     grant |-> None, born |-> 0])
     /\ End(r)
     /\ UNCHANGED <<credentials, ceremonies, baseUrl, verifiedBy, newest>>

\* verify: use_email_verification, then set_email
VerifyEmail(r) ==
  LET t == req[r].item
  IN /\ At(r, "apply", "verify")
     /\ Claimable(t, "verification")
     /\ tokens' = Used(t)
     /\ verifiedBy' = [verifiedBy EXCEPT ![tokens[t].user] = t]
     /\ Spend(t)
     /\ End(r)
     /\ UNCHANGED <<sessions, credentials, ceremonies, baseUrl, password, newest>>

\* Mutant: a reset leaves the app passwords.
DoomedBrowsers(user) == {s \in SessionsOf(user) : sessions[s].kind = "browser"}

\* confirm_password_reset: the token, the password and every session
Doomed(user) == SessionsOf(user)

ConfirmReset(r) ==
  LET t == req[r].item
      u == tokens[t].user
  IN /\ At(r, "apply", "confirm")
     /\ Claimable(t, "reset")
     /\ tokens' = Used(t)
     /\ password' = [password EXCEPT ![u] = @ + 1]
     /\ DeleteSessions(Doomed(u))
     /\ Spend(t)
     /\ End(r)
     /\ UNCHANGED <<credentials, baseUrl, verifiedBy, newest>>

SetBaseUrl(r) ==
  /\ At(r, "apply", "set_base_url")
  /\ HostKept(req[r].url)
  /\ baseUrl' = req[r].url
  /\ End(r)
  /\ UNCHANGED <<rows, password, verifiedBy, history>>

\* A read or a scope fails, a check refuses, a row is missing, the caller goes
\* away, or the commit is lost: the transaction leaves nothing behind.
Fails(r) ==
  /\ req[r].at \notin {"new", "ended"}
  /\ End(r)
  /\ UNCHANGED <<rows, config, history>>
-----------------------------------------------------------------------------
(* Time, and the hourly cleanup *)

ExpireToken(t) ==
  /\ tokens[t].state = "live"
  /\ tokens' = [tokens EXCEPT ![t].state = "dead"]
  /\ UNCHANGED <<sessions, credentials, ceremonies, config, history, req>>

ExpireCeremony(c) ==
  /\ ceremonies[c].open
  /\ ceremonies' = [ceremonies EXCEPT ![c].open = FALSE]
  /\ UNCHANGED <<sessions, credentials, tokens, config, history, req>>

\* Thirty days without use: touch_and_load refuses the session from now on.
IdleOut(s) ==
  /\ sessions[s].kind = "browser" /\ ~sessions[s].idle
  /\ sessions' = [sessions EXCEPT ![s].idle = TRUE]
  /\ UNCHANGED <<credentials, ceremonies, tokens, config, history, req>>

PruneToken(t) ==
  /\ tokens[t].state # "live"
  /\ tokens' = Without(tokens, {t})
  /\ UNCHANGED <<sessions, credentials, ceremonies, config, history, req>>

PruneCeremony(c) ==
  /\ ~ceremonies[c].open
  /\ ceremonies' = Without(ceremonies, {c})
  /\ UNCHANGED <<sessions, credentials, tokens, config, history, req>>

PruneSession(s) ==
  /\ sessions[s].idle
  /\ DeleteSessions({s})
  /\ UNCHANGED <<credentials, tokens, config, history, req>>
-----------------------------------------------------------------------------
Init ==
  /\ baseUrl \in Urls \cup {None}
  /\ password = [u \in Users |-> IF u = Owner THEN 0 ELSE None]
  /\ \E old \in {None, Root} : verifiedBy = [u \in Users |-> IF u = Owner THEN old ELSE None]
  /\ sessions = Just(Root, Session(Owner, "browser", None))
  /\ \/ credentials = [c \in {} |-> None]
     \/ baseUrl \in Usable
        /\ credentials = Just(Key, [user |-> Owner, handle |-> Owner,
                                   host |-> HostOf[baseUrl]])
  /\ ceremonies = [c \in {} |-> None]
  /\ tokens = Just(Invite, Token("invite", None))
  /\ req = [r \in Requests |-> New]
  /\ newest = [u \in Users |-> None]
  /\ uses = [t \in Requests \cup {Invite} |-> 0]

RequestStep(r) ==
  \/ Authenticate(r) \/ Arrive(r) \/ CheckPassword(r) \/ ReadIdentity(r)
  \/ CreateRegistration(r) \/ CreateAuthentication(r) \/ CreateVerification(r)
  \/ CreateReset(r) \/ CreateInvite(r)
  \/ Claim(r) \/ Enrol(r) \/ FinishAuthentication(r) \/ DeletePasskey(r)
  \/ OpenSession(r) \/ Revoke(r) \/ Register(r) \/ VerifyEmail(r)
  \/ ConfirmReset(r) \/ SetBaseUrl(r) \/ Fails(r)

Next ==
  \/ \E r \in Requests : RequestStep(r)
  \/ \E t \in DOMAIN tokens : ExpireToken(t) \/ PruneToken(t)
  \/ \E c \in DOMAIN ceremonies : ExpireCeremony(c) \/ PruneCeremony(c)
  \/ \E s \in DOMAIN sessions : IdleOut(s) \/ PruneSession(s)

Spec == Init /\ [][Next]_vars
-----------------------------------------------------------------------------
(* Properties *)

Ids == Requests \cup {Root, Key, Invite}
Maybe(S) == S \cup {None}

RequestRec == [at : Steps, op : {"none"} \cup AuthedOps \cup OpenOps, user : Maybe(Users),
               session : Maybe(Ids), item : Maybe(Ids), url : Maybe(Urls),
               handle : Maybe(Users)]
SessionRec == [user : Users, kind : {"browser", "machine"}, idle : BOOLEAN,
               grant : Maybe(Ids), born : Nat]
CredentialRec == [user : Users, handle : Users, host : {HostOf[u] : u \in Urls}]
CeremonyRec == [op : {"start_registration", "start_authentication"},
                user : Maybe(Users), session : Maybe(Ids), url : Usable,
                open : BOOLEAN]
TokenRec == [kind : {"invite", "verification", "reset"}, user : Maybe(Users),
             state : {"live", "used", "dead"}]

Table(t, rec) == DOMAIN t \subseteq Ids /\ t \in [DOMAIN t -> rec]

\* The type invariant: every row and every request is well formed.
TypeOK ==
  /\ baseUrl \in Maybe(Urls)
  /\ password \in [Users -> Maybe(Nat)]
  /\ verifiedBy \in [Users -> Maybe(Ids)]
  /\ Table(sessions, SessionRec)
  /\ Table(credentials, CredentialRec)
  /\ Table(ceremonies, CeremonyRec)
  /\ Table(tokens, TokenRec)
  /\ req \in [Requests -> RequestRec]
  /\ newest \in [Users -> Maybe(Ids)]
  /\ uses \in [Requests \cup {Invite} -> Nat]

\* An invitation, a mailed link and a passkey ceremony take effect at most
\* once, however many requests present them, whichever commits lose their
\* acknowledgement and whenever the cleanup removes the row.
SpentOnce == \A t \in DOMAIN uses : uses[t] <= 1

\* While a passkey exists, site.base_url names the host it is bound to: neither
\* a configuration change between the start and the finish of a registration
\* nor a registration between two changes can leave a passkey behind.
CredentialsMatchHost ==
  \A c \in DOMAIN credentials :
    baseUrl # None /\ HostOf[baseUrl] = credentials[c].host

\* A passkey carries the account handle of the user it is stored for, or it
\* could never sign in: a ceremony is finished by the user who started it.
HandlesAgree ==
  \A c \in DOMAIN credentials : credentials[c].handle = credentials[c].user

\* A session opened by a passkey ends with that passkey, unless it is the one
\* that confirmed the deletion by password.
GrantsStand ==
  \A s \in DOMAIN sessions :
    sessions[s].grant # None => sessions[s].grant \in DOMAIN credentials

\* A pending registration belongs to a session that still exists.
CeremonyHasSession ==
  \A c \in DOMAIN ceremonies :
    ceremonies[c].op = "start_registration" =>
      /\ ceremonies[c].session \in DOMAIN sessions
      /\ sessions[ceremonies[c].session].user = ceremonies[c].user

\* No session made before its user's last password reset survives it.
ResetEndsSessions ==
  \A s \in DOMAIN sessions : sessions[s].born = password[sessions[s].user]

\* A verified address is the one last asked for: a link that a newer request
\* superseded never sets it.
NewestVerifies ==
  [][\A u \in Users : verifiedBy'[u] # verifiedBy[u] => verifiedBy'[u] = newest[u]]_vars
=============================================================================
