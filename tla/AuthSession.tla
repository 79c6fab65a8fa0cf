----------------------------- MODULE AuthSession -----------------------------
(***************************************************************************)
(* Login, session and logout: the requests of the identity HTTP API and of *)
(* the authorization boundary run concurrently against the tables          *)
(* auth_flows, user_sessions and authentication_audit_events.  A request   *)
(* is a sequence of SQL statements and provider calls; one action is one   *)
(* of them, with what the service does before the next.  A request reads   *)
(* the clock once and uses that reading in all its statements, however     *)
(* late they run.                                                          *)
(*                                                                         *)
(* A statement can fail, and a statement that fails may still have been    *)
(* committed: only the confirmation is lost.  Secrets and digests are the  *)
(* flow or the session they stand for; a request can only present what was *)
(* handed to a browser.  What the provider and the administrators of the   *)
(* control plane do is external.                                           *)
(***************************************************************************)
EXTENDS Integers, Authorization

CONSTANTS
  Calls,            \* requests in progress
  Flows, Sessions,  \* rows that can be created
  Principals,
  AccountType,      \* of each principal
  None,
  MaxTime,          \* bound of the clock
  LoginUntil,       \* bound: no login starts later
  FlowLifetime, IdleTimeout, AbsoluteTimeout, TouchInterval

ASSUME AuthAssumption ==
  /\ AccountType \in [Principals -> AccountTypes]
  /\ None \notin Flows \cup Sessions \cup Principals
  /\ {MaxTime, FlowLifetime, IdleTimeout, AbsoluteTimeout, TouchInterval} \subseteq Nat \ {0}
  /\ LoginUntil \in Nat
  /\ TouchInterval <= IdleTimeout /\ IdleTimeout <= AbsoluteTimeout

VARIABLES
  now,       \* the clock
  flows,     \* auth_flows
  sessions,  \* user_sessions
  active,    \* principals that are active, with their tenant and mailbox
  granted,   \* principals that hold portal.admin.access
  audit,     \* login and logout events of sessions
  calls,     \* the requests in progress
  answer,    \* the answer that this step has sent, if any
  watch      \* history: what was true of a request's session while it ran

authVars == <<now, flows, sessions, active, granted, audit, calls, answer, watch>>

-----------------------------------------------------------------------------
(* State.                                                                  *)

Times == 0 .. MaxTime + AbsoluteTimeout + FlowLifetime + IdleTimeout

\* handed: the browser was sent to the provider with this flow.
Flow == [status : {"none", "open", "consumed"}, expires : Times, handed : BOOLEAN]

\* flow and mfa are history: the login that made the session.
Session == [principal : Principals, created : Times, seen : Times, idle : Times,
            absolute : Times, revoked : {"no", "logout", "backchannel"},
            flow : Flows, mfa : BOOLEAN, handed : BOOLEAN]

ASSUME NoneAssumption == None \notin Session

\* session, Protect and logout begin alike, with ResolveSession; which of them a
\* request is for is told by its answer.
Kinds == {"none", "login", "callback", "reject", "session"}

Codes == {"INVALID_RETURN_TO", "AUTH_FLOW_INVALID", "AUTH_FORBIDDEN", "CSRF_INVALID",
          "AUTH_REQUIRED", "AUTH_SERVICE_UNAVAILABLE"}

\* at is what service.now() returned; cookie says whether the flow cookie is
\* missing, that of the flow or another's; due that the session wants a touch.
Call == [kind : Kinds,
         pc : {"idle", "consume", "exchange", "resolve", "create", "audit",
               "read", "permissions", "touch", "revoke"},
         at : Times, flow : Flows \cup {None}, cookie : {"none", "own", "other"},
         session : Sessions \cup {None}, principal : Principals \cup {None},
         mfa : BOOLEAN, due : BOOLEAN, permissions : SUBSET {PortalAdminAccess},
         cause : Codes \cup {"none"}]

Idle == [kind |-> "none", pc |-> "idle", at |-> 0, flow |-> None, cookie |-> "none",
         session |-> None, principal |-> None, mfa |-> FALSE, due |-> FALSE,
         permissions |-> {}, cause |-> "none"]

\* event is the category under which the request has put a failed login on
\* record; facts is the history of its session.
Answer == [kind : Kinds, cookie : {"none", "own", "other"}, session : Sessions \cup {None},
           result : {"redirect", "authenticated", "anonymous", "logged_out", "granted_mailbox",
                     "granted_administrator", "400", "401", "403", "503"},
           event : {"none", "access_denied", "provider_unavailable", "invalid_flow"},
           facts : SUBSET {"valid", "invalid"}]

AuthInit ==
  /\ now = 0
  /\ flows = [f \in Flows |-> [status |-> "none", expires |-> 0, handed |-> FALSE]]
  /\ sessions = [s \in Sessions |-> None]
  /\ active = Principals
  /\ granted = {p \in Principals : AccountType[p] = "administrator"}
  /\ audit = {}
  /\ calls = [c \in Calls |-> Idle]
  /\ answer = None
  /\ watch = [c \in Calls |-> {}]

Exists(s) == sessions[s] # None

\* A principal of this tenant, mailbox and permissions has a way into the product.
Usable(p) == p \in active /\ (AccountType[p] = "administrator" => p \in granted)

\* The part of the WHERE of GetActiveSessionByDigest and of TouchActiveSession
\* that is about the session itself.
Unexpired(s, at) ==
  /\ sessions[s].revoked = "no"
  /\ sessions[s].idle > at
  /\ sessions[s].absolute > at

\* GetActiveSessionByDigest finds a row.
Valid(s, at) == Exists(s) /\ Unexpired(s, at) /\ Usable(sessions[s].principal)

Busy(c) == calls[c].pc # "idle"

\* What is true now of the session that a request presents.
Facts(c) ==
  IF calls[c].session = None THEN {}
  ELSE {IF Valid(calls[c].session, calls[c].at) THEN "valid" ELSE "invalid"}

Watch ==
  watch' = [c \in Calls |-> IF Busy(c) /\ calls'[c].pc # "idle" THEN watch[c] \cup Facts(c) ELSE {}]

\* The request goes on.
Become(c, call) ==
  /\ calls' = [calls EXCEPT ![c] = call]
  /\ answer' = None
  /\ Watch

\* Something else than a request happens.
NoRequest == UNCHANGED calls /\ answer' = None /\ Watch

\* The request, or one that needs no statement, is answered.
Reply(c, call, result, event) ==
  /\ calls' = [calls EXCEPT ![c] = Idle]
  /\ answer' = [kind |-> call.kind, cookie |-> call.cookie, session |-> call.session,
                result |-> result, event |-> event, facts |-> watch[c] \cup Facts(c)]
  /\ Watch

Done(c, result, event) == Reply(c, calls[c], result, event)

-----------------------------------------------------------------------------
(* Failures.                                                               *)

\* The status of an error that the identity handlers answer with.
writeError(code) ==
  CASE code \in {"INVALID_RETURN_TO", "AUTH_FLOW_INVALID"} -> "400"
    [] code \in {"AUTH_FORBIDDEN", "CSRF_INVALID"} -> "403"
    [] code = "AUTH_REQUIRED" -> "401"
    [] OTHER -> "503"

failureCategory(code) ==
  CASE code = "AUTH_FORBIDDEN" -> "access_denied"
    [] code = "AUTH_SERVICE_UNAVAILABLE" -> "provider_unavailable"
    [] OTHER -> "invalid_flow"

\* loginFailure: the cause is answered once it is on record.
loginFailure(c, kind, cause) ==
  Become(c, [Idle EXCEPT !.kind = kind, !.pc = "audit", !.cause = cause])

Fail(c, cause) == loginFailure(c, calls[c].kind, cause)

RecordAuditUnchecked(c) ==
  /\ calls[c].pc = "audit"
  /\ \E event \in {failureCategory(calls[c].cause), "none"} :
        Done(c, writeError(calls[c].cause), event)
  /\ UNCHANGED <<now, flows, sessions, active, granted, audit>>

RecordAudit(c) ==
  /\ calls[c].pc = "audit"
  /\ LET category == failureCategory(calls[c].cause)
     IN \/ Done(c, writeError(calls[c].cause), category)
        \/ \E event \in {category, "none"} : Done(c, "503", event)
  /\ UNCHANGED <<now, flows, sessions, active, granted, audit>>

-----------------------------------------------------------------------------
(* Login.                                                                  *)

CreateAuthFlow(f, handed) ==
  /\ flows[f].status = "none"
  /\ flows' = [flows EXCEPT ![f] = [status |-> "open", expires |-> now + FlowLifetime,
                                    handed |-> handed]]

\* login: the return path is refused, or the flow is created and the browser
\* gets its cookie and the address of the provider.
StartLogin(c) ==
  /\ ~Busy(c)
  /\ now <= LoginUntil
  /\ \/ /\ \E cause \in {"INVALID_RETURN_TO", "AUTH_SERVICE_UNAVAILABLE"} :
             loginFailure(c, "login", cause)
        /\ UNCHANGED flows
     \/ \E f \in Flows :
          \/ /\ CreateAuthFlow(f, TRUE)
             /\ Reply(c, [Idle EXCEPT !.kind = "login"], "redirect", "none")
          \/ /\ CreateAuthFlow(f, FALSE)
             /\ loginFailure(c, "login", "AUTH_SERVICE_UNAVAILABLE")
  /\ UNCHANGED <<now, sessions, active, granted, audit>>

Handed == {f \in Flows : flows[f].handed} \cup {None}

\* callback: state names a flow or is missing; code says that the parameters are
\* well formed and carry a code.  A malformed callback and a refusal by the
\* provider go to RejectLogin.
Callback(c, state, cookie, code) ==
  /\ ~Busy(c)
  /\ LET call == [Idle EXCEPT !.kind = IF code /\ state # None THEN "callback" ELSE "reject",
                              !.at = now, !.flow = state, !.cookie = cookie]
     IN \/ /\ state # None /\ cookie # "none"
           /\ Become(c, [call EXCEPT !.pc = "consume"])
        \/ /\ state = None \/ cookie = "none"
           /\ IF call.kind = "reject"
              THEN loginFailure(c, "reject", "AUTH_FLOW_INVALID")
              ELSE Reply(c, call, writeError("AUTH_FLOW_INVALID"), "none")
  /\ UNCHANGED <<now, flows, sessions, active, granted, audit>>

ConsumableTwice(f, cookie, at) == cookie = "own" /\ flows[f].expires > at

\* The WHERE of ConsumeAuthFlow.
Consumable(f, cookie, at) ==
  /\ cookie = "own"
  /\ flows[f].status = "open"
  /\ flows[f].expires > at

ConsumeAuthFlow(c) ==
  LET call     == calls[c]
      found    == Consumable(call.flow, call.cookie, call.at)
      consumed == [flows EXCEPT ![call.flow].status = "consumed"]
  IN /\ call.pc = "consume"
     /\ \/ /\ found
           /\ flows' = consumed
           /\ IF call.kind = "callback"
              THEN Become(c, [call EXCEPT !.pc = "exchange"])
              ELSE Fail(c, "AUTH_FLOW_INVALID")
        \/ /\ ~found
           /\ Fail(c, "AUTH_FLOW_INVALID")
           /\ UNCHANGED flows
        \/ /\ flows' \in {flows, IF found THEN consumed ELSE flows}
           /\ Fail(c, "AUTH_SERVICE_UNAVAILABLE")
     /\ UNCHANGED <<now, sessions, active, granted, audit>>

\* The verifier is decrypted, the code exchanged, the ID token verified and its
\* nonce compared: an identity, perhaps of nobody here, or one of two causes.
Exchange(c) ==
  /\ calls[c].pc = "exchange"
  /\ \/ \E cause \in {"AUTH_FLOW_INVALID", "AUTH_SERVICE_UNAVAILABLE"} : Fail(c, cause)
     \/ \E subject \in Principals \cup {None}, mfa \in BOOLEAN :
          Become(c, [calls[c] EXCEPT !.pc = "resolve", !.principal = subject, !.mfa = mfa])
  /\ UNCHANGED <<now, flows, sessions, active, granted, audit>>

\* ResolvePrincipal finds the subject, and an administrator has used MFA.
Admitted(p, mfa) ==
  /\ p # None
  /\ Usable(p)
  /\ AccountType[p] = "administrator" => mfa

ResolvePrincipal(c) ==
  LET call == calls[c]
  IN /\ call.pc = "resolve"
     /\ \/ Admitted(call.principal, call.mfa) /\ Become(c, [call EXCEPT !.pc = "create"])
        \/ ~Admitted(call.principal, call.mfa) /\ Fail(c, "AUTH_FORBIDDEN")
        \/ Fail(c, "AUTH_SERVICE_UNAVAILABLE")
     /\ UNCHANGED <<now, flows, sessions, active, granted, audit>>

\* The row of a new session: its lifetimes count from the start of the callback.
NewSession(call, handed) ==
  [principal |-> call.principal, created |-> call.at, seen |-> call.at,
   idle |-> call.at + IdleTimeout, absolute |-> call.at + AbsoluteTimeout,
   revoked |-> "no", flow |-> call.flow, mfa |-> call.mfa, handed |-> handed]

StoreSession(s, row) ==
  /\ sessions' = [sessions EXCEPT ![s] = row]
  /\ audit' = audit \cup {<<"login", s>>}

\* One transaction for the session and its audit event.  When it fails, the
\* failure itself goes on no record.
CreateSessionWithAudit(c) ==
  /\ calls[c].pc = "create"
  /\ \/ \E s \in Sessions :
          /\ ~Exists(s)
          /\ \/ StoreSession(s, NewSession(calls[c], TRUE)) /\ Done(c, "redirect", "none")
             \/ StoreSession(s, NewSession(calls[c], FALSE)) /\ Done(c, "503", "none")
     \/ Done(c, "503", "none") /\ UNCHANGED <<sessions, audit>>
  /\ UNCHANGED <<now, flows, active, granted>>

-----------------------------------------------------------------------------
(* Sessions.                                                               *)

\* There is no session for the request, or none any more: session, Protect and
\* logout say so in their ways.
NoSession(c, call) ==
  \E result \in {"anonymous", WriteError("AUTH_REQUIRED"), "logged_out"} :
    Reply(c, call, result, "none")

\* A request that presents no session is answered at once, and a logout that
\* does not come from our pages is refused before it is looked at.
ResolveSession(c, s) ==
  /\ ~Busy(c)
  /\ LET call == [Idle EXCEPT !.kind = "session", !.session = s]
     IN \/ s # None /\ Become(c, [call EXCEPT !.pc = "read", !.at = now])
        \/ s = None /\ NoSession(c, call)
        \/ Reply(c, call, writeError("CSRF_INVALID"), "none")
  /\ UNCHANGED <<now, flows, sessions, active, granted, audit>>

GetActiveSessionOfAnyone(c) ==
  LET call == calls[c]
  IN /\ call.pc = "read"
     /\ IF Unexpired(call.session, call.at)
        THEN Become(c, [call EXCEPT !.pc = "permissions"])
        ELSE NoSession(c, call)
     /\ UNCHANGED <<now, flows, sessions, active, granted, audit>>

GetActiveSession(c) ==
  LET call == calls[c]
  IN /\ call.pc = "read"
     /\ \/ /\ Valid(call.session, call.at)
           /\ Become(c, [call EXCEPT !.pc = "permissions",
                 !.due = call.at >= sessions[call.session].seen + TouchInterval])
        \/ ~Valid(call.session, call.at) /\ NoSession(c, call)
        \/ Done(c, "503", "none")
     /\ UNCHANGED <<now, flows, sessions, active, granted, audit>>

\* What becomes of a protected request: its handler runs, or an error.
Outcome(context, request) ==
  LET code == Protect(context, request)
  IN IF code # "ok" THEN WriteError(code)
     ELSE IF request.accountType = "mailbox" THEN "granted_mailbox" ELSE "granted_administrator"

\* ResolveSession has a session: session shows it, Protect decides on the
\* request, logout compares the CSRF token.
Resolved(c, permissions) ==
  LET call        == calls[c]
      accountType == AccountType[sessions[call.session].principal]
  IN \/ Done(c, "authenticated", "none")
     \/ \E result \in {Outcome(Context(accountType, permissions), r) : r \in Request} :
          Done(c, result, "none")
     \/ Done(c, writeError("CSRF_INVALID"), "none")
     \/ Become(c, [call EXCEPT !.pc = "revoke", !.permissions = {}, !.due = FALSE])

PermissionsOf(p) == IF p \in granted THEN {PortalAdminAccess} ELSE {}

ListPrincipalPermissions(c) ==
  LET call        == calls[c]
      permissions == PermissionsOf(sessions[call.session].principal)
  IN /\ call.pc = "permissions"
     /\ \/ /\ call.due
           /\ Become(c, [call EXCEPT !.pc = "touch", !.due = FALSE, !.permissions = permissions])
        \/ ~call.due /\ Resolved(c, permissions)
        \/ Done(c, "503", "none")
     /\ UNCHANGED <<now, flows, sessions, active, granted, audit>>

TouchedPastAbsolute(s, at) ==
  [sessions EXCEPT ![s].seen = at, ![s].idle = at + IdleTimeout]

\* The SET of TouchActiveSession.
Touched(s, at) ==
  [sessions EXCEPT ![s].seen = at,
                   ![s].idle = IF at + IdleTimeout < sessions[s].absolute
                               THEN at + IdleTimeout ELSE sessions[s].absolute]

TouchActiveSession(c) ==
  LET call    == calls[c]
      touched == Touched(call.session, call.at)
  IN /\ call.pc = "touch"
     /\ \/ /\ Unexpired(call.session, call.at)
           /\ sessions' = touched
           /\ Resolved(c, call.permissions)
        \/ /\ ~Unexpired(call.session, call.at)
           /\ NoSession(c, call)
           /\ UNCHANGED sessions
        \/ /\ sessions' \in {sessions, IF Unexpired(call.session, call.at) THEN touched ELSE sessions}
           /\ Done(c, "503", "none")
     /\ UNCHANGED <<now, flows, active, granted, audit>>

RevokeAgain(group, reason) ==
  [s \in Sessions |-> IF s \in group /\ Exists(s)
                      THEN [sessions[s] EXCEPT !.revoked = reason] ELSE sessions[s]]

\* Sessions of a set are revoked, those that are not already.
Revoke(group, reason) ==
  [s \in Sessions |-> IF s \in group /\ Exists(s) /\ sessions[s].revoked = "no"
                      THEN [sessions[s] EXCEPT !.revoked = reason] ELSE sessions[s]]

RevokeSessionIfPossible(c) ==
  LET s == calls[c].session
  IN /\ calls[c].pc = "revoke"
     /\ \/ sessions' = Revoke({s}, "logout") /\ audit' = audit \cup {<<"logout", s>>}
        \/ UNCHANGED <<sessions, audit>>
     /\ Done(c, "logged_out", "none")
     /\ UNCHANGED <<now, flows, active, granted>>

\* One transaction for the revocation and its audit event.
RevokeSessionWithAudit(c) ==
  LET s      == calls[c].session
      commit == sessions' = Revoke({s}, "logout") /\ audit' = audit \cup {<<"logout", s>>}
  IN /\ calls[c].pc = "revoke"
     /\ \/ commit /\ Done(c, "logged_out", "none")
        \/ (commit \/ UNCHANGED <<sessions, audit>>) /\ Done(c, "503", "none")
     /\ UNCHANGED <<now, flows, active, granted>>

OfPrincipal(p) == {s \in Sessions : Exists(s) /\ sessions[s].principal = p}

\* Sessions of one subject that share a sid.
RevokeByOIDCSessionID(p, group) ==
  /\ group # {} /\ group \subseteq OfPrincipal(p)
  /\ sessions' = Revoke(group, "backchannel")
  /\ UNCHANGED <<now, flows, active, granted, audit>>
  /\ NoRequest

RevokeByOIDCSubject(p) ==
  /\ OfPrincipal(p) # {}
  /\ sessions' = Revoke(OfPrincipal(p), "backchannel")
  /\ UNCHANGED <<now, flows, active, granted, audit>>
  /\ NoRequest

-----------------------------------------------------------------------------
(* The world around.                                                       *)

\* Before that, nothing reads what the control plane knows of a principal.
Involved(p) ==
  \/ \E c \in Calls : calls[c].principal = p
  \/ OfPrincipal(p) # {}

\* The control plane suspends or reactivates a principal.  (An administrator
\* loses its way in with its permission as well as with its status; only the
\* former is taken for it.)
SetStatus(p) ==
  /\ AccountType[p] = "mailbox" /\ Involved(p)
  /\ active' = IF p \in active THEN active \ {p} ELSE active \cup {p}
  /\ UNCHANGED <<now, flows, sessions, granted, audit>>
  /\ NoRequest

\* The control plane revokes or grants the permission of an administrator.
SetPermission(p) ==
  /\ AccountType[p] = "administrator" /\ Involved(p)
  /\ granted' = IF p \in granted THEN granted \ {p} ELSE granted \cup {p}
  /\ UNCHANGED <<now, flows, sessions, active, audit>>
  /\ NoRequest

\* The process dies, or the client goes away, between two statements.
Abandon(c) ==
  /\ Busy(c)
  /\ Become(c, Idle)
  /\ UNCHANGED <<now, flows, sessions, active, granted, audit>>

Tick ==
  /\ now < MaxTime
  /\ now' = now + 1
  /\ UNCHANGED <<flows, sessions, active, granted, audit>>
  /\ NoRequest

HandedSessions == {s \in Sessions : Exists(s) /\ sessions[s].handed} \cup {None}

Serve(c) ==
  \/ StartLogin(c)
  \/ \E state \in Handed, cookie \in {"none", "own", "other"}, code \in BOOLEAN : Callback(c, state, cookie, code)
  \/ ConsumeAuthFlow(c) \/ Exchange(c) \/ ResolvePrincipal(c)
  \/ CreateSessionWithAudit(c) \/ RecordAudit(c)
  \/ \E s \in HandedSessions : ResolveSession(c, s)
  \/ GetActiveSession(c) \/ ListPrincipalPermissions(c) \/ TouchActiveSession(c)
  \/ RevokeSessionWithAudit(c)
  \/ Abandon(c)

AuthNext ==
  \/ \E c \in Calls : Serve(c)
  \/ \E p \in Principals :
       \/ SetStatus(p) \/ SetPermission(p) \/ RevokeByOIDCSubject(p)
       \/ \E group \in SUBSET Sessions : RevokeByOIDCSessionID(p, group)
  \/ Tick

AuthSpec == AuthInit /\ [][AuthNext]_authVars

-----------------------------------------------------------------------------
(* Properties.                                                             *)

\* Rows have their types and keep the CHECK constraints of user_sessions, for
\* whatever order concurrent touches with old readings of the clock come in: a
\* session is idle at most IdleTimeout after it was last seen, and never
\* outlives its absolute expiry.
AuthTypeOK ==
  /\ now \in 0 .. MaxTime
  /\ flows \in [Flows -> Flow]
  /\ sessions \in [Sessions -> Session \cup {None}]
  /\ active \subseteq Principals /\ granted \subseteq Principals
  /\ audit \subseteq {"login", "logout"} \X Sessions
  /\ calls \in [Calls -> Call]
  /\ answer \in Answer \cup {None}
  /\ watch \in [Calls -> SUBSET {"valid", "invalid"}]
  /\ \A s \in Sessions : Exists(s) =>
       /\ sessions[s].created <= sessions[s].seen
       /\ sessions[s].created < sessions[s].idle
       /\ sessions[s].idle <= sessions[s].seen + IdleTimeout
       /\ sessions[s].idle <= sessions[s].absolute
       /\ sessions[s].absolute = sessions[s].created + AbsoluteTimeout

\* Every session is earned by a login of its own: by a flow that is used up,
\* that had not expired when its callback came, and that made no other session
\* however often its callback was delivered; and an administrator's by MFA.
SessionsAreEarned ==
  \A s \in Sessions : Exists(s) =>
    /\ flows[sessions[s].flow].status = "consumed"
    /\ sessions[s].created < flows[sessions[s].flow].expires
    /\ AccountType[sessions[s].principal] = "administrator" => sessions[s].mfa
    /\ \A t \in Sessions : Exists(t) /\ sessions[t].flow = sessions[s].flow => t = s

Accepted == {"authenticated", "granted_mailbox", "granted_administrator"}

\* A request is accepted only if its session was valid at some moment while the
\* request ran (not revoked, not expired at its time, its principal usable), and
\* is turned away as anonymous only if it was invalid at some moment: the
\* statements of ResolveSession together answer as one.
AnswersWereTrue ==
  answer # None /\ answer.session # None =>
    /\ answer.result \in Accepted => "valid" \in answer.facts
    /\ answer.result \in {"anonymous", "401"} => "invalid" \in answer.facts
    /\ answer.result \in {"granted_mailbox", "granted_administrator"} =>
         (answer.result = "granted_administrator")
           <=> (AccountType[sessions[answer.session].principal] = "administrator")

\* The browser is told that it is logged out.
LoggedOut == answer # None /\ answer.session # None /\ answer.result = "logged_out"

\* When a browser is told that it is logged out, the session it presented is good
\* for nothing at that moment, whatever was touched, revoked, suspended or failed
\* between the statements of the logout.
LogoutIsFinal == LoggedOut => ~Valid(answer.session, now)

\* When a browser is told that it is logged out, its session is revoked or has
\* expired, as the contract of POST /auth/logout says.  (Logout does not look
\* further when ResolveSession finds no session, and it finds none while the
\* principal is suspended or without permission: such a session is left as it is.)
LogoutRevokes == LoggedOut => ~Unexpired(answer.session, now)

\* The audit trail is complete: every session has its login event, a logout
\* event means a revoked session and the other way round, and a login that is
\* refused with its reason (not as unavailable) is on record under the matching
\* category, unless the browser presented no flow cookie.
AuditTrail ==
  /\ \A s \in Sessions :
       /\ Exists(s) <=> <<"login", s>> \in audit
       /\ <<"logout", s>> \in audit => sessions[s].revoked # "no"
       /\ Exists(s) /\ sessions[s].revoked = "logout" => <<"logout", s>> \in audit
  /\ answer # None /\ answer.kind \in {"login", "callback", "reject"} =>
       /\ answer.result = "403" => answer.event = "access_denied"
       /\ answer.result = "400" =>
            \/ answer.event = "invalid_flow"
            \/ answer.kind = "callback" /\ answer.cookie = "none"

\* Nothing comes back: a flow that is used up stays used up, a revoked session
\* stays revoked with its first reason, and no session changes its principal or
\* has its absolute expiry moved, whatever a late touch or a second logout does.
NothingComesBack ==
  [][/\ \A f \in Flows : flows[f].status = "consumed" => flows'[f].status = "consumed"
     /\ \A s \in Sessions : Exists(s) =>
          /\ sessions'[s] # None
          /\ sessions'[s].principal = sessions[s].principal
          /\ sessions'[s].absolute = sessions[s].absolute
          /\ sessions[s].revoked # "no" => sessions'[s].revoked = sessions[s].revoked]_authVars
=============================================================================
