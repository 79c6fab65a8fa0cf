-------------------------- MODULE AuthSessionProofs --------------------------
(***************************************************************************)
(* Theorems about AuthSession, for any number of requests, flows, sessions *)
(* and principals and for all lifetimes.                                   *)
(***************************************************************************)
EXTENDS AuthSession, TLAPS

\* The request has used up its flow and may still make a session of it.
Owns(call) == call.pc \in {"exchange", "resolve", "create"}

\* What a request in progress may rely on.
CallOK(call) ==
  /\ call.at <= now
  /\ call.session # None => /\ Exists(call.session)
                            /\ sessions[call.session].created <= call.at
  /\ call.pc \in {"read", "permissions", "touch", "revoke"} => call.session # None
  /\ call.pc = "consume" => call.flow # None
  /\ Owns(call) => /\ call.flow # None
                   /\ flows[call.flow].status = "consumed"
                   /\ call.at < flows[call.flow].expires
                   /\ \A s \in Sessions : Exists(s) => sessions[s].flow # call.flow
  /\ call.pc = "create" => /\ call.principal # None
                           /\ AccountType[call.principal] = "administrator" => call.mfa

CallsOK == \A c \in Calls : CallOK(calls[c])

OneOwner ==
  \A c, d \in Calls : Owns(calls[c]) /\ Owns(calls[d]) /\ calls[c].flow = calls[d].flow => c = d

CreatedBefore == \A s \in Sessions : Exists(s) => sessions[s].created <= now

AuthInductive == AuthTypeOK /\ CallsOK /\ OneOwner /\ CreatedBefore /\ SessionsAreEarned

-----------------------------------------------------------------------------
(* Types.                                                                  *)

\* Sums of a reading of the clock and lifetimes are times.
LEMMA TimesClosed ==
  ASSUME NEW t \in 0 .. MaxTime
  PROVE  /\ t \in Times /\ 0 \in Times
         /\ t + IdleTimeout \in Times
         /\ t + AbsoluteTimeout \in Times
         /\ t + FlowLifetime \in Times
  BY AuthAssumption DEF Times

LEMMA IdleIsCall == Idle \in Call
  BY AuthAssumption DEF Idle, Call, Kinds, Times

LEMMA FactsTyped == ASSUME NEW c \in Calls PROVE Facts(c) \subseteq {"valid", "invalid"}
  BY DEF Facts

LEMMA WatchTyped ==
  ASSUME AuthTypeOK, Watch PROVE watch' \in [Calls -> SUBSET {"valid", "invalid"}]
  BY FactsTyped DEF AuthTypeOK, Watch

RequestsTyped ==
  /\ calls \in [Calls -> Call]
  /\ answer \in Answer \cup {None}
  /\ watch \in [Calls -> SUBSET {"valid", "invalid"}]

\* The rows have their types and keep the CHECK constraints.
RowsTyped ==
  /\ now \in 0 .. MaxTime
  /\ flows \in [Flows -> Flow]
  /\ sessions \in [Sessions -> Session \cup {None}]
  /\ active \subseteq Principals /\ granted \subseteq Principals
  /\ audit \subseteq {"login", "logout"} \X Sessions
  /\ \A s \in Sessions : Exists(s) =>
       /\ sessions[s].created <= sessions[s].seen
       /\ sessions[s].created < sessions[s].idle
       /\ sessions[s].idle <= sessions[s].seen + IdleTimeout
       /\ sessions[s].idle <= sessions[s].absolute
       /\ sessions[s].absolute = sessions[s].created + AbsoluteTimeout

LEMMA TypeOKParts == AuthTypeOK <=> RowsTyped /\ RequestsTyped
  BY DEF AuthTypeOK, RowsTyped, RequestsTyped

LEMMA TypeOKPartsNext == AuthTypeOK' <=> RowsTyped' /\ RequestsTyped'
  BY DEF AuthTypeOK, RowsTyped, RequestsTyped

Rows == <<now, flows, sessions, active, granted, audit>>

LEMMA RowsUnchanged == RowsTyped /\ UNCHANGED Rows => RowsTyped'
  BY DEF RowsTyped, Rows, Exists

\* A request that goes on with a well-typed record leaves the requests well typed.
LEMMA BecomeTyped ==
  ASSUME AuthTypeOK, NEW c \in Calls, NEW STATE call, call \in Call, Become(c, call)
  PROVE  RequestsTyped'
  BY WatchTyped DEF AuthTypeOK, Become, RequestsTyped

Results == {"redirect", "authenticated", "anonymous", "logged_out", "granted_mailbox",
            "granted_administrator", "400", "401", "403", "503"}

Events == {"none", "access_denied", "provider_unavailable", "invalid_flow"}

\* An answer leaves the requests well typed.
LEMMA ReplyTyped ==
  ASSUME AuthTypeOK, NEW c \in Calls, NEW STATE call, call \in Call,
         NEW STATE result, result \in Results, NEW STATE event, event \in Events,
         Reply(c, call, result, event)
  PROVE  RequestsTyped'
<1>1. watch[c] \cup Facts(c) \subseteq {"valid", "invalid"}
  BY FactsTyped DEF AuthTypeOK
<1>2. answer' \in Answer
  BY <1>1 DEF Reply, Answer, Call, Results, Events
<1> QED
  BY <1>2, IdleIsCall, WatchTyped DEF AuthTypeOK, Reply, RequestsTyped

\* The code of an error has a status and a category.
LEMMA ErrorsTyped ==
  ASSUME NEW code PROVE writeError(code) \in Results /\ failureCategory(code) \in Events
  BY DEF writeError, failureCategory, Results, Events

LEMMA OutcomeTyped ==
  ASSUME NEW context, NEW request PROVE Outcome(context, request) \in Results
  BY DEF Outcome, WriteError, Results

LEMMA FailTyped ==
  ASSUME AuthTypeOK, NEW c \in Calls, NEW kind \in Kinds, NEW cause \in Codes,
         loginFailure(c, kind, cause)
  PROVE  RequestsTyped'
<1>1. [Idle EXCEPT !.kind = kind, !.pc = "audit", !.cause = cause] \in Call
  BY IdleIsCall DEF Call, Kinds
<1> QED
  BY <1>1, BecomeTyped DEF loginFailure

\* Failing for a cause after the request has begun.
LEMMA FailsTyped ==
  ASSUME AuthTypeOK, NEW c \in Calls, NEW cause \in Codes, Fail(c, cause)
  PROVE  RequestsTyped'
<1>1. calls[c].kind \in Kinds
  BY DEF AuthTypeOK, Call
<1> QED
  BY <1>1, FailTyped DEF Fail

LEMMA DoneTyped ==
  ASSUME AuthTypeOK, NEW c \in Calls, NEW STATE result, result \in Results,
         NEW STATE event, event \in Events, Done(c, result, event)
  PROVE  RequestsTyped'
<1>1. calls[c] \in Call
  BY DEF AuthTypeOK
<1> QED
  BY <1>1, ReplyTyped DEF Done

LEMMA NoSessionTyped ==
  ASSUME AuthTypeOK, NEW c \in Calls, NEW STATE call, call \in Call, NoSession(c, call)
  PROVE  RequestsTyped'
<1>1. PICK result \in {"anonymous", WriteError("AUTH_REQUIRED"), "logged_out"} :
        Reply(c, call, result, "none")
  BY DEF NoSession
<1>2. result \in Results /\ "none" \in Events
  BY <1>1 DEF Results, Events, WriteError
<1> QED
  BY <1>1, <1>2, ReplyTyped

\* A statement that only reads, or that fails without a trace.
LEMMA QuietTyped ==
  ASSUME AuthTypeOK, UNCHANGED Rows, RequestsTyped' PROVE AuthTypeOK'
  BY TypeOKParts, TypeOKPartsNext, RowsUnchanged

LEMMA FlowsTyped ==
  ASSUME AuthTypeOK, flows' \in [Flows -> Flow],
         UNCHANGED <<now, sessions, active, granted, audit>>, RequestsTyped'
  PROVE  AuthTypeOK'
  BY TypeOKParts, TypeOKPartsNext DEF RowsTyped, Exists

LEMMA CreateTyped ==
  ASSUME AuthTypeOK, NEW f \in Flows, NEW handed \in BOOLEAN, CreateAuthFlow(f, handed)
  PROVE  flows' \in [Flows -> Flow]
<1>1. now + FlowLifetime \in Times
  BY TimesClosed DEF AuthTypeOK
<1> QED
  BY <1>1 DEF AuthTypeOK, CreateAuthFlow, Flow

LEMMA StartLoginTyped ==
  ASSUME AuthTypeOK, NEW c \in Calls, StartLogin(c) PROVE AuthTypeOK'
<1>1. {"INVALID_RETURN_TO", "AUTH_SERVICE_UNAVAILABLE"} \subseteq Codes /\ "login" \in Kinds
  BY DEF Codes, Kinds
<1>2. ASSUME NEW cause \in {"INVALID_RETURN_TO", "AUTH_SERVICE_UNAVAILABLE"},
             loginFailure(c, "login", cause), UNCHANGED flows
      PROVE  AuthTypeOK'
  <2>1. RequestsTyped'
    BY <1>1, <1>2, FailTyped
  <2> QED
    BY <1>2, <2>1, QuietTyped DEF StartLogin, Rows
<1>3. ASSUME NEW f \in Flows, CreateAuthFlow(f, TRUE),
             Reply(c, [Idle EXCEPT !.kind = "login"], "redirect", "none")
      PROVE  AuthTypeOK'
  <2>1. [Idle EXCEPT !.kind = "login"] \in Call /\ "redirect" \in Results /\ "none" \in Events
    BY IdleIsCall DEF Call, Kinds, Results, Events
  <2>2. RequestsTyped'
    BY <1>3, <2>1, ReplyTyped
  <2> QED
    BY <1>3, <2>2, CreateTyped, FlowsTyped DEF StartLogin
<1>4. ASSUME NEW f \in Flows, CreateAuthFlow(f, FALSE),
             loginFailure(c, "login", "AUTH_SERVICE_UNAVAILABLE")
      PROVE  AuthTypeOK'
  <2>1. RequestsTyped'
    BY <1>1, <1>4, FailTyped
  <2> QED
    BY <1>4, <2>1, CreateTyped, FlowsTyped DEF StartLogin
<1> QED
  BY <1>2, <1>3, <1>4 DEF StartLogin

LEMMA CallbackTyped ==
  ASSUME AuthTypeOK, NEW c \in Calls, NEW state \in Handed,
         NEW cookie \in {"none", "own", "other"}, NEW code \in BOOLEAN,
         Callback(c, state, cookie, code)
  PROVE  AuthTypeOK'
<1> DEFINE call == [Idle EXCEPT !.kind = IF code /\ state # None THEN "callback" ELSE "reject",
                                !.at = now, !.flow = state, !.cookie = cookie]
<1>1. now \in Times /\ state \in Flows \cup {None}
  BY TimesClosed DEF AuthTypeOK, Handed
<1>2. call \in Call /\ [call EXCEPT !.pc = "consume"] \in Call
  <2>1. (IF code /\ state # None THEN "callback" ELSE "reject") \in Kinds
    BY DEF Kinds
  <2>2. call \in Call
    BY <1>1, <2>1, IdleIsCall DEF Call
  <2> HIDE DEF call
  <2> QED
    BY <2>2 DEF Call
<1>3. \/ Become(c, [call EXCEPT !.pc = "consume"])
      \/ loginFailure(c, "reject", "AUTH_FLOW_INVALID")
      \/ Reply(c, call, writeError("AUTH_FLOW_INVALID"), "none")
  BY DEF Callback
<1>4. "AUTH_FLOW_INVALID" \in Codes /\ "reject" \in Kinds /\ "none" \in Events
  BY DEF Codes, Kinds, Events
<1>5. RequestsTyped'
  BY <1>2, <1>3, <1>4, BecomeTyped, FailTyped, ReplyTyped, ErrorsTyped
<1> QED
  BY <1>5, QuietTyped DEF Callback, Rows

LEMMA ConsumeTyped ==
  ASSUME AuthInductive, NEW c \in Calls, ConsumeAuthFlow(c) PROVE AuthTypeOK'
<1> DEFINE consumed == [flows EXCEPT ![calls[c].flow].status = "consumed"]
<1>1. AuthTypeOK /\ calls[c] \in Call /\ calls[c].flow \in Flows
  BY DEF AuthInductive, AuthTypeOK, CallsOK, CallOK, ConsumeAuthFlow, Call
<1>2. consumed \in [Flows -> Flow] /\ flows \in [Flows -> Flow]
  BY <1>1 DEF AuthTypeOK, Flow
<1>3. {"AUTH_FLOW_INVALID", "AUTH_SERVICE_UNAVAILABLE"} \subseteq Codes
  BY DEF Codes
<1>4. [calls[c] EXCEPT !.pc = "exchange"] \in Call
  BY <1>1 DEF Call
<1>5. flows' \in [Flows -> Flow]
  BY <1>2 DEF ConsumeAuthFlow
<1>6. \/ Become(c, [calls[c] EXCEPT !.pc = "exchange"])
      \/ Fail(c, "AUTH_FLOW_INVALID")
      \/ Fail(c, "AUTH_SERVICE_UNAVAILABLE")
  BY DEF ConsumeAuthFlow
<1>7. RequestsTyped'
  BY <1>1, <1>3, <1>4, <1>6, BecomeTyped, FailsTyped
<1> QED
  BY <1>1, <1>5, <1>7, FlowsTyped DEF ConsumeAuthFlow

LEMMA ExchangeTyped ==
  ASSUME AuthTypeOK, NEW c \in Calls, Exchange(c) PROVE AuthTypeOK'
<1>1. calls[c] \in Call
  BY DEF AuthTypeOK
<1>2. ASSUME NEW cause \in {"AUTH_FLOW_INVALID", "AUTH_SERVICE_UNAVAILABLE"}, Fail(c, cause)
      PROVE  RequestsTyped'
  BY <1>2, FailsTyped DEF Codes
<1>3. ASSUME NEW subject \in Principals \cup {None}, NEW mfa \in BOOLEAN,
             Become(c, [calls[c] EXCEPT !.pc = "resolve", !.principal = subject, !.mfa = mfa])
      PROVE  RequestsTyped'
  <2>1. [calls[c] EXCEPT !.pc = "resolve", !.principal = subject, !.mfa = mfa] \in Call
    BY <1>1 DEF Call
  <2> QED
    BY <1>3, <2>1, BecomeTyped
<1> QED
  BY <1>2, <1>3, QuietTyped DEF Exchange, Rows

LEMMA ResolvePrincipalTyped ==
  ASSUME AuthTypeOK, NEW c \in Calls, ResolvePrincipal(c) PROVE AuthTypeOK'
<1>1. [calls[c] EXCEPT !.pc = "create"] \in Call
  BY DEF AuthTypeOK, Call
<1>2. {"AUTH_FORBIDDEN", "AUTH_SERVICE_UNAVAILABLE"} \subseteq Codes
  BY DEF Codes
<1>3. RequestsTyped'
  BY <1>1, <1>2, BecomeTyped, FailsTyped DEF ResolvePrincipal
<1> QED
  BY <1>3, QuietTyped DEF ResolvePrincipal, Rows

LEMMA RecordAuditTyped ==
  ASSUME AuthTypeOK, NEW c \in Calls, RecordAudit(c) PROVE AuthTypeOK'
<1>1. failureCategory(calls[c].cause) \in Events /\ writeError(calls[c].cause) \in Results
  BY ErrorsTyped
<1>2. "none" \in Events /\ "503" \in Results
  BY DEF Events, Results
<1>3. ASSUME NEW event \in {failureCategory(calls[c].cause), "none"}, Done(c, "503", event)
      PROVE  RequestsTyped'
  <2>1. event \in Events
    BY <1>1, <1>2
  <2> QED
    BY <1>2, <1>3, <2>1, DoneTyped
<1>4. ASSUME Done(c, writeError(calls[c].cause), failureCategory(calls[c].cause))
      PROVE  RequestsTyped'
  BY <1>1, <1>4, DoneTyped
<1> QED
  BY <1>3, <1>4, QuietTyped DEF RecordAudit, Rows

\* A new row satisfies the constraints of user_sessions.
LEMMA NewSessionTyped ==
  ASSUME AuthInductive, NEW c \in Calls, calls[c].pc = "create", NEW handed \in BOOLEAN
  PROVE  LET row == NewSession(calls[c], handed)
         IN /\ row \in Session /\ row # None
            /\ row.created = calls[c].at /\ row.seen = calls[c].at
            /\ row.idle = calls[c].at + IdleTimeout
            /\ row.absolute = calls[c].at + AbsoluteTimeout
            /\ row.flow = calls[c].flow /\ row.mfa = calls[c].mfa
            /\ row.principal = calls[c].principal
            /\ row.revoked = "no"
<1>1. calls[c] \in Call /\ CallOK(calls[c]) /\ now \in 0 .. MaxTime
  BY DEF AuthInductive, AuthTypeOK, CallsOK
<1>2. calls[c].at \in 0 .. MaxTime /\ calls[c].principal \in Principals /\ calls[c].flow \in Flows
      /\ calls[c].mfa \in BOOLEAN
  BY <1>1, AuthAssumption DEF CallOK, Owns, Call, Times
<1>3. /\ calls[c].at \in Times /\ calls[c].at + IdleTimeout \in Times
      /\ calls[c].at + AbsoluteTimeout \in Times
  BY <1>2, TimesClosed
<1>4. NewSession(calls[c], handed) \in Session
  BY <1>2, <1>3 DEF NewSession, Session
<1> QED
  BY <1>4, NoneAssumption DEF NewSession

LEMMA StoreTyped ==
  ASSUME AuthInductive, NEW c \in Calls, calls[c].pc = "create", NEW s \in Sessions,
         NEW handed \in BOOLEAN, StoreSession(s, NewSession(calls[c], handed)),
         UNCHANGED <<now, flows, active, granted>>
  PROVE  RowsTyped'
<1> DEFINE row == NewSession(calls[c], handed)
<1>1. /\ row \in Session /\ row # None
      /\ row.created = calls[c].at /\ row.seen = calls[c].at
      /\ row.idle = calls[c].at + IdleTimeout
      /\ row.absolute = calls[c].at + AbsoluteTimeout
  BY NewSessionTyped
<1> HIDE DEF row
<1>2. AuthTypeOK /\ calls[c].at \in Nat
  BY AuthAssumption DEF AuthInductive, AuthTypeOK, Call, Times
<1>3. sessions' = [sessions EXCEPT ![s] = row] /\ audit' = audit \cup {<<"login", s>>}
  BY DEF StoreSession, row
<1>4. /\ row.created <= row.seen /\ row.created < row.idle
      /\ row.idle <= row.seen + IdleTimeout /\ row.idle <= row.absolute
      /\ row.absolute = row.created + AbsoluteTimeout
  BY <1>1, <1>2, AuthAssumption
<1> QED
  BY <1>1, <1>2, <1>3, <1>4 DEF AuthTypeOK, RowsTyped, Exists

LEMMA CreateSessionTyped ==
  ASSUME AuthInductive, NEW c \in Calls, CreateSessionWithAudit(c) PROVE AuthTypeOK'
<1>1. AuthTypeOK /\ RowsTyped
  BY TypeOKParts DEF AuthInductive
<1>2. {"redirect", "503"} \subseteq Results /\ "none" \in Events
  BY DEF Results, Events
<1>3. RequestsTyped'
  BY <1>1, <1>2, DoneTyped DEF CreateSessionWithAudit
<1>4. RowsTyped'
  <2>1. CASE UNCHANGED <<sessions, audit>>
    BY <1>1, <2>1, RowsUnchanged DEF CreateSessionWithAudit, Rows
  <2>2. ASSUME NEW s \in Sessions, NEW handed \in BOOLEAN,
               StoreSession(s, NewSession(calls[c], handed))
        PROVE  RowsTyped'
    BY <2>2, StoreTyped DEF CreateSessionWithAudit
  <2> QED
    BY <2>1, <2>2 DEF CreateSessionWithAudit
<1> QED
  BY <1>3, <1>4, TypeOKPartsNext

LEMMA ResolveSessionTyped ==
  ASSUME AuthTypeOK, NEW c \in Calls, NEW s \in HandedSessions, ResolveSession(c, s)
  PROVE  AuthTypeOK'
<1> DEFINE call == [Idle EXCEPT !.kind = "session", !.session = s]
<1>1. now \in Times /\ s \in Sessions \cup {None}
  BY TimesClosed DEF AuthTypeOK, HandedSessions
<1>2. call \in Call
  BY <1>1, IdleIsCall DEF Call, Kinds
<1>3. \/ Become(c, [call EXCEPT !.pc = "read", !.at = now])
      \/ NoSession(c, call)
      \/ Reply(c, call, writeError("CSRF_INVALID"), "none")
  BY DEF ResolveSession
<1> HIDE DEF call
<1>4. [call EXCEPT !.pc = "read", !.at = now] \in Call /\ "none" \in Events
  BY <1>1, <1>2 DEF Call, Events
<1>5. RequestsTyped'
  BY <1>2, <1>3, <1>4, BecomeTyped, NoSessionTyped, ReplyTyped, ErrorsTyped
<1> QED
  BY <1>5, QuietTyped DEF ResolveSession, Rows

\* The records with which ResolveSession goes on.
LEMMA CallGoesOn ==
  ASSUME NEW call \in Call, NEW permissions \in SUBSET {PortalAdminAccess}
  PROVE  /\ [call EXCEPT !.pc = "revoke", !.permissions = {}, !.due = FALSE] \in Call
         /\ [call EXCEPT !.pc = "touch", !.due = FALSE, !.permissions = permissions] \in Call
<1>1. PICK no \in BOOLEAN : no = FALSE
  OBVIOUS
<1>2. /\ [call EXCEPT !.pc = "revoke", !.permissions = {}, !.due = no] \in Call
      /\ [call EXCEPT !.pc = "touch", !.due = no, !.permissions = permissions] \in Call
  BY DEF Call
<1> QED
  BY <1>1, <1>2, Zenon

LEMMA DueTyped ==
  ASSUME NEW call \in Call, NEW a \in Int, NEW b \in Int
  PROVE  [call EXCEPT !.pc = "permissions", !.due = a >= b] \in Call
<1>1. PICK due \in BOOLEAN : due = (a >= b)
  <2>1. (a >= b) \in BOOLEAN
    BY SMT
  <2> QED
    BY <2>1, Zenon
<1>2. [call EXCEPT !.pc = "permissions", !.due = due] \in Call
  BY DEF Call
<1> QED
  BY <1>1, <1>2, Zenon

LEMMA GetActiveSessionTyped ==
  ASSUME AuthInductive, NEW c \in Calls, GetActiveSession(c) PROVE AuthTypeOK'
<1> USE DEF AuthInductive
<1>1. calls[c] \in Call
  BY DEF AuthTypeOK
<1>2. [calls[c] EXCEPT !.pc = "permissions",
         !.due = calls[c].at >= sessions[calls[c].session].seen + TouchInterval] \in Call
  <2>1. calls[c].session \in Sessions /\ Exists(calls[c].session)
    BY DEF AuthTypeOK, CallsOK, CallOK, Call, GetActiveSession
  <2>2. sessions[calls[c].session].seen \in Times /\ calls[c].at \in Times
    BY <2>1 DEF AuthTypeOK, Exists, Session, Call
  <2>3. sessions[calls[c].session].seen + TouchInterval \in Int /\ calls[c].at \in Int
    BY <2>2, AuthAssumption DEF Times
  <2> QED
    BY <1>1, <2>3, DueTyped
<1>3. "503" \in Results /\ "none" \in Events
  BY DEF Results, Events
<1>4. RequestsTyped'
  BY <1>1, <1>2, <1>3, BecomeTyped, NoSessionTyped, DoneTyped DEF GetActiveSession
<1> QED
  BY <1>4, QuietTyped DEF GetActiveSession, Rows

LEMMA ResolvedTyped ==
  ASSUME AuthTypeOK, NEW c \in Calls, NEW STATE permissions, Resolved(c, permissions)
  PROVE  RequestsTyped'
<1> DEFINE accountType == AccountType[sessions[calls[c].session].principal]
<1>1. "none" \in Events /\ "authenticated" \in Results /\ writeError("CSRF_INVALID") \in Results
  BY ErrorsTyped DEF Events, Results
<1>2. [calls[c] EXCEPT !.pc = "revoke", !.permissions = {}, !.due = FALSE] \in Call
  BY CallGoesOn DEF AuthTypeOK
<1>3. ASSUME NEW r \in Request,
             Done(c, Outcome(Context(accountType, permissions), r), "none")
      PROVE  RequestsTyped'
  BY <1>1, <1>3, OutcomeTyped, DoneTyped
<1>4. \/ Done(c, "authenticated", "none")
      \/ \E r \in Request : Done(c, Outcome(Context(accountType, permissions), r), "none")
      \/ Done(c, writeError("CSRF_INVALID"), "none")
      \/ Become(c, [calls[c] EXCEPT !.pc = "revoke", !.permissions = {}, !.due = FALSE])
  BY DEF Resolved
<1> QED
  BY <1>1, <1>2, <1>3, <1>4, DoneTyped, BecomeTyped

LEMMA ListPermissionsTyped ==
  ASSUME AuthTypeOK, NEW c \in Calls, ListPrincipalPermissions(c) PROVE AuthTypeOK'
<1> DEFINE permissions == PermissionsOf(sessions[calls[c].session].principal)
<1>1. permissions \subseteq {PortalAdminAccess}
  BY DEF PermissionsOf
<1>2. \/ Become(c, [calls[c] EXCEPT !.pc = "touch", !.due = FALSE, !.permissions = permissions])
      \/ Resolved(c, permissions)
      \/ Done(c, "503", "none")
  BY DEF ListPrincipalPermissions
<1> HIDE DEF permissions
<1>3. [calls[c] EXCEPT !.pc = "touch", !.due = FALSE, !.permissions = permissions] \in Call
  BY <1>1, CallGoesOn DEF AuthTypeOK
<1>4. "503" \in Results /\ "none" \in Events
  BY DEF Results, Events
<1>5. RequestsTyped'
  BY <1>2, <1>3, <1>4, BecomeTyped, ResolvedTyped, DoneTyped
<1> QED
  BY <1>5, QuietTyped DEF ListPrincipalPermissions, Rows

LEMMA SlidingExpiry ==
  ASSUME NEW created \in Nat, NEW at \in Nat, created <= at
  PROVE  LET absolute == created + AbsoluteTimeout
             idle     == IF at + IdleTimeout < absolute THEN at + IdleTimeout ELSE absolute
         IN created < idle /\ idle <= at + IdleTimeout /\ idle <= absolute
<1>1. IdleTimeout \in Nat \ {0} /\ AbsoluteTimeout \in Nat \ {0}
  BY AuthAssumption
<1> QED
  BY <1>1

\* A touch keeps the constraints of user_sessions: it moves the idle expiry, and
\* with an old reading of the clock even back, but never past the absolute one.
LEMMA TouchKeepsRows ==
  ASSUME AuthInductive, NEW c \in Calls, calls[c].pc = "touch",
         sessions' = Touched(calls[c].session, calls[c].at),
         UNCHANGED <<now, flows, active, granted, audit>>
  PROVE  RowsTyped'
<1> DEFINE t == calls[c].session
           at == calls[c].at
           idle == IF at + IdleTimeout < sessions[t].absolute
                   THEN at + IdleTimeout ELSE sessions[t].absolute
           row == [sessions[t] EXCEPT !.seen = at, !.idle = idle]
<1>1. AuthTypeOK /\ calls[c] \in Call /\ CallOK(calls[c])
  BY DEF AuthInductive, AuthTypeOK, CallsOK
<1>2. t \in Sessions /\ Exists(t) /\ sessions[t].created <= at /\ at <= now
  BY <1>1 DEF CallOK, Call
<1>3. sessions[t] \in Session /\ sessions[t].absolute = sessions[t].created + AbsoluteTimeout
  BY <1>1, <1>2 DEF AuthTypeOK, Exists
<1>4. at \in 0 .. MaxTime /\ at \in Times /\ at + IdleTimeout \in Times
  <2>1. at \in 0 .. MaxTime
    BY <1>1, <1>2, AuthAssumption DEF AuthTypeOK, Call, Times
  <2> QED
    BY <2>1, TimesClosed
<1>5. sessions[t].absolute \in Times /\ sessions[t].created \in Times /\ Times \subseteq Nat
  BY <1>3, AuthAssumption DEF Session, Times
<1>6. idle \in Times
  BY <1>4, <1>5
<1>7. /\ sessions[t].created < idle /\ idle <= at + IdleTimeout /\ idle <= sessions[t].absolute
  BY <1>2, <1>3, <1>4, <1>5, SlidingExpiry
<1>8. sessions' = [sessions EXCEPT ![t] = row]
  BY <1>1, <1>2 DEF Touched, AuthTypeOK
<1> HIDE DEF idle
<1>9. /\ row \in Session
      /\ row.seen = at /\ row.idle = idle
      /\ row.created = sessions[t].created /\ row.absolute = sessions[t].absolute
  BY <1>3, <1>4, <1>6 DEF Session
<1> HIDE DEF row
<1> QED
  BY <1>1, <1>2, <1>3, <1>7, <1>8, <1>9 DEF AuthTypeOK, RowsTyped, Exists

LEMMA TouchTyped ==
  ASSUME AuthInductive, NEW c \in Calls, TouchActiveSession(c) PROVE AuthTypeOK'
<1>1. AuthTypeOK /\ RowsTyped /\ calls[c] \in Call
  BY TypeOKParts DEF AuthInductive, AuthTypeOK
<1>2. "503" \in Results /\ "none" \in Events
  BY DEF Results, Events
<1>3. RequestsTyped'
  BY <1>1, <1>2, ResolvedTyped, NoSessionTyped, DoneTyped DEF TouchActiveSession
<1>4. sessions' \in {sessions, Touched(calls[c].session, calls[c].at)}
  BY DEF TouchActiveSession
<1>5. RowsTyped'
  BY <1>1, <1>4, RowsUnchanged, TouchKeepsRows DEF TouchActiveSession, Rows
<1> QED
  BY <1>3, <1>5, TypeOKPartsNext

\* Revoking keeps the constraints of user_sessions.
LEMMA RevokeKeepsRows ==
  ASSUME AuthTypeOK, NEW STATE group, NEW reason \in {"logout", "backchannel"},
         sessions' = Revoke(group, reason),
         UNCHANGED <<now, flows, active, granted>>,
         audit' \subseteq {"login", "logout"} \X Sessions
  PROVE  RowsTyped'
<1>1. ASSUME NEW s \in Sessions
      PROVE  /\ sessions'[s] \in Session \cup {None}
             /\ sessions'[s] # None =>
                  /\ sessions[s] # None
                  /\ sessions'[s].created = sessions[s].created
                  /\ sessions'[s].seen = sessions[s].seen
                  /\ sessions'[s].idle = sessions[s].idle
                  /\ sessions'[s].absolute = sessions[s].absolute
  <2>1. CASE sessions'[s] = sessions[s]
    BY <2>1 DEF AuthTypeOK
  <2>2. CASE Exists(s) /\ sessions'[s] = [sessions[s] EXCEPT !.revoked = reason]
    <3>1. sessions[s] \in Session
      BY <2>2 DEF AuthTypeOK, Exists
    <3> QED
      BY <2>2, <3>1 DEF Session, Exists
  <2> QED
    BY <2>1, <2>2 DEF Revoke
<1>2. sessions' \in [Sessions -> Session \cup {None}]
  BY <1>1 DEF Revoke
<1> QED
  BY <1>1, <1>2 DEF AuthTypeOK, RowsTyped, Exists

LEMMA RevokeSessionTyped ==
  ASSUME AuthInductive, NEW c \in Calls, RevokeSessionWithAudit(c) PROVE AuthTypeOK'
<1>1. AuthTypeOK /\ RowsTyped
  BY TypeOKParts DEF AuthInductive
<1>2. "503" \in Results /\ "logged_out" \in Results /\ "none" \in Events
  BY DEF Results, Events
<1>3. RequestsTyped'
  BY <1>1, <1>2, DoneTyped DEF RevokeSessionWithAudit
<1>4. calls[c].session \in Sessions
  BY DEF AuthInductive, AuthTypeOK, CallsOK, CallOK, Call, RevokeSessionWithAudit
<1>5. RowsTyped'
  <2>1. CASE UNCHANGED <<sessions, audit>>
    BY <1>1, <2>1, RowsUnchanged DEF RevokeSessionWithAudit, Rows
  <2>2. CASE /\ sessions' = Revoke({calls[c].session}, "logout")
             /\ audit' = audit \cup {<<"logout", calls[c].session>>}
    <3>1. audit' \subseteq {"login", "logout"} \X Sessions
      BY <1>1, <1>4, <2>2 DEF AuthTypeOK
    <3> QED
      BY <1>1, <2>2, <3>1, RevokeKeepsRows DEF RevokeSessionWithAudit
  <2> QED
    BY <2>1, <2>2 DEF RevokeSessionWithAudit
<1> QED
  BY <1>3, <1>5, TypeOKPartsNext

\* A step that is no request leaves the requests well typed.
LEMMA NoRequestTyped == AuthTypeOK /\ NoRequest => RequestsTyped'
  BY WatchTyped DEF AuthTypeOK, NoRequest, RequestsTyped

LEMMA BackchannelTyped ==
  ASSUME AuthTypeOK, NEW STATE group, sessions' = Revoke(group, "backchannel"),
         UNCHANGED <<now, flows, active, granted, audit>>, NoRequest
  PROVE  AuthTypeOK'
<1>1. RowsTyped'
  BY RevokeKeepsRows DEF AuthTypeOK
<1> QED
  BY <1>1, NoRequestTyped, TypeOKPartsNext

LEMMA WorldTyped ==
  ASSUME AuthTypeOK, NEW p \in Principals, SetStatus(p) \/ SetPermission(p)
  PROVE  AuthTypeOK'
<1>1. RowsTyped'
  BY AuthAssumption DEF AuthTypeOK, RowsTyped, Exists, SetStatus, SetPermission
<1> QED
  BY <1>1, NoRequestTyped, TypeOKPartsNext DEF SetStatus, SetPermission

LEMMA TickTyped == AuthTypeOK /\ Tick => AuthTypeOK'
<1>1. AuthTypeOK /\ Tick => RowsTyped'
  BY AuthAssumption DEF AuthTypeOK, RowsTyped, Exists, Tick
<1> QED
  BY <1>1, NoRequestTyped, TypeOKPartsNext DEF Tick

LEMMA AbandonTyped ==
  ASSUME AuthTypeOK, NEW c \in Calls, Abandon(c) PROVE AuthTypeOK'
<1>1. RequestsTyped'
  BY IdleIsCall, BecomeTyped DEF Abandon
<1> QED
  BY <1>1, QuietTyped DEF Abandon, Rows

LEMMA StutterTyped == AuthTypeOK /\ UNCHANGED authVars => AuthTypeOK'
  BY DEF AuthTypeOK, authVars, Exists

\* Every step keeps the types and the constraints.
LEMMA TypeStep == AuthInductive /\ [AuthNext]_authVars => AuthTypeOK'
<1> SUFFICES ASSUME AuthInductive, [AuthNext]_authVars PROVE AuthTypeOK'
  OBVIOUS
<1>0. AuthTypeOK
  BY DEF AuthInductive
<1>1. ASSUME NEW c \in Calls, Serve(c) PROVE AuthTypeOK'
  <2> USE <1>0
  <2>1. ASSUME NEW state \in Handed, NEW cookie \in {"none", "own", "other"},
               NEW code \in BOOLEAN, Callback(c, state, cookie, code)
        PROVE  AuthTypeOK'
    BY <2>1, CallbackTyped
  <2>2. ASSUME NEW s \in HandedSessions, ResolveSession(c, s) PROVE AuthTypeOK'
    BY <2>2, ResolveSessionTyped
  <2> QED
    BY <1>1, <2>1, <2>2, StartLoginTyped, ConsumeTyped, ExchangeTyped, ResolvePrincipalTyped,
       CreateSessionTyped, RecordAuditTyped, GetActiveSessionTyped, ListPermissionsTyped,
       TouchTyped, RevokeSessionTyped, AbandonTyped DEF Serve
<1>2. ASSUME NEW p \in Principals, SetStatus(p) \/ SetPermission(p) PROVE AuthTypeOK'
  BY <1>0, <1>2, WorldTyped
<1>3. ASSUME NEW p \in Principals, RevokeByOIDCSubject(p) PROVE AuthTypeOK'
  BY <1>0, <1>3, BackchannelTyped DEF RevokeByOIDCSubject
<1>4. ASSUME NEW p \in Principals, NEW group \in SUBSET Sessions, RevokeByOIDCSessionID(p, group)
      PROVE  AuthTypeOK'
  BY <1>0, <1>4, BackchannelTyped DEF RevokeByOIDCSessionID
<1> QED
  BY <1>0, <1>1, <1>2, <1>3, <1>4, TickTyped, StutterTyped DEF AuthNext

-----------------------------------------------------------------------------
(* What no step undoes.                                                    *)

FlowsKept ==
  \A f \in Flows : flows[f].status = "consumed" =>
    flows'[f].status = "consumed" /\ flows'[f].expires = flows[f].expires

SessionsKept ==
  \A s \in Sessions : Exists(s) =>
    /\ sessions'[s] # None
    /\ sessions'[s].principal = sessions[s].principal
    /\ sessions'[s].created = sessions[s].created
    /\ sessions'[s].absolute = sessions[s].absolute
    /\ sessions'[s].flow = sessions[s].flow
    /\ sessions'[s].mfa = sessions[s].mfa
    /\ sessions[s].revoked # "no" => sessions'[s].revoked = sessions[s].revoked

NoneAdded == \A s \in Sessions : sessions'[s] # None => Exists(s)

Kept == now <= now' /\ FlowsKept /\ SessionsKept

LEMMA TimeKept == AuthTypeOK /\ UNCHANGED now => now <= now'
  BY DEF AuthTypeOK

LEMMA SessionsUnchanged == UNCHANGED sessions => SessionsKept /\ NoneAdded
  BY DEF SessionsKept, NoneAdded, Exists

LEMMA FlowsUnchanged == UNCHANGED flows => FlowsKept
  BY DEF FlowsKept

LEMMA CreateKeepsFlows ==
  ASSUME AuthTypeOK, NEW f \in Flows, NEW handed \in BOOLEAN, CreateAuthFlow(f, handed)
  PROVE  FlowsKept
  BY DEF AuthTypeOK, CreateAuthFlow, FlowsKept

LEMMA ConsumeKeepsFlows ==
  ASSUME AuthInductive, NEW c \in Calls, ConsumeAuthFlow(c) PROVE FlowsKept
<1>1. flows \in [Flows -> Flow] /\ calls[c].flow \in Flows
  BY DEF AuthInductive, AuthTypeOK, CallsOK, CallOK, ConsumeAuthFlow, Call
<1>2. flows' \in {flows, [flows EXCEPT ![calls[c].flow].status = "consumed"]}
  BY DEF ConsumeAuthFlow
<1> QED
  BY <1>1, <1>2 DEF FlowsKept, Flow

LEMMA TouchKeepsSessions ==
  ASSUME AuthTypeOK, NEW s \in Sessions, Exists(s), NEW at \in 0 .. MaxTime,
         sessions' = Touched(s, at)
  PROVE  SessionsKept /\ NoneAdded
<1>1. sessions \in [Sessions -> Session \cup {None}] /\ sessions[s] \in Session
  BY DEF AuthTypeOK, Exists
<1>2. PICK idle \in Times :
        sessions' = [sessions EXCEPT ![s] = [sessions[s] EXCEPT !.seen = at, !.idle = idle]]
  <2>1. at + IdleTimeout \in Times /\ sessions[s].absolute \in Times
    BY <1>1, TimesClosed DEF Session
  <2> QED
    BY <1>1, <2>1 DEF Touched
<1>3. ASSUME NEW t \in Sessions, t # s PROVE sessions'[t] = sessions[t]
  BY <1>1, <1>2, <1>3
<1>4. /\ sessions'[s] \in Session
      /\ sessions'[s].principal = sessions[s].principal
      /\ sessions'[s].created = sessions[s].created
      /\ sessions'[s].absolute = sessions[s].absolute
      /\ sessions'[s].flow = sessions[s].flow
      /\ sessions'[s].mfa = sessions[s].mfa
      /\ sessions'[s].revoked = sessions[s].revoked
  <2>1. at \in Times
    BY TimesClosed
  <2> QED
    BY <1>1, <1>2, <2>1 DEF Session
<1> QED
  BY <1>3, <1>4, NoneAssumption DEF SessionsKept, NoneAdded, Exists

LEMMA RevokeKeepsSessions ==
  ASSUME AuthTypeOK, NEW STATE group, NEW reason \in {"logout", "backchannel"},
         sessions' = Revoke(group, reason)
  PROVE  SessionsKept /\ NoneAdded
<1>1. ASSUME NEW s \in Sessions
      PROVE  \/ sessions'[s] = sessions[s]
             \/ /\ Exists(s) /\ sessions[s].revoked = "no"
                /\ sessions'[s] = [sessions[s] EXCEPT !.revoked = reason]
  BY DEF Revoke
<1>2. ASSUME NEW s \in Sessions, Exists(s) PROVE sessions[s] \in Session
  BY <1>2 DEF AuthTypeOK, Exists
<1>3. ASSUME NEW s \in Sessions, Exists(s)
      PROVE  /\ sessions'[s] \in Session
             /\ sessions'[s].principal = sessions[s].principal
             /\ sessions'[s].created = sessions[s].created
             /\ sessions'[s].absolute = sessions[s].absolute
             /\ sessions'[s].flow = sessions[s].flow
             /\ sessions'[s].mfa = sessions[s].mfa
             /\ sessions[s].revoked # "no" => sessions'[s].revoked = sessions[s].revoked
  <2>1. CASE sessions'[s] = sessions[s]
    BY <1>2, <1>3, <2>1
  <2>2. CASE sessions[s].revoked = "no" /\ sessions'[s] = [sessions[s] EXCEPT !.revoked = reason]
    <3>1. sessions[s] \in Session
      BY <1>2, <1>3
    <3> QED
      BY <2>2, <3>1 DEF Session
  <2> QED
    BY <1>1, <2>1, <2>2
<1>4. NoneAdded
  BY <1>1 DEF NoneAdded, Exists
<1> QED
  BY <1>3, <1>4, NoneAssumption DEF SessionsKept

LEMMA StoreKeepsSessions ==
  ASSUME AuthTypeOK, NEW s \in Sessions, ~Exists(s), NEW STATE row, StoreSession(s, row)
  PROVE  SessionsKept
  BY DEF AuthTypeOK, Exists, StoreSession, SessionsKept

\* The statements of a request: what they leave alone, and that only the one
\* that creates a session adds a row.
LEMMA ServeKeeps ==
  ASSUME AuthInductive, NEW c \in Calls, Serve(c)
  PROVE  Kept /\ (NoneAdded \/ CreateSessionWithAudit(c))
<1>0. AuthTypeOK /\ calls[c] \in Call
  BY DEF AuthInductive, AuthTypeOK
<1>1. now <= now'
  BY <1>0, TimeKept DEF Serve, StartLogin, Callback, ConsumeAuthFlow, Exchange,
     ResolvePrincipal, CreateSessionWithAudit, RecordAudit, ResolveSession, GetActiveSession,
     ListPrincipalPermissions, TouchActiveSession, RevokeSessionWithAudit, Abandon
<1>2. CASE StartLogin(c)
  <2>1. UNCHANGED flows \/ \E f \in Flows, handed \in BOOLEAN : CreateAuthFlow(f, handed)
    BY <1>2 DEF StartLogin
  <2> QED
    BY <1>0, <1>1, <1>2, <2>1, FlowsUnchanged, CreateKeepsFlows, SessionsUnchanged
    DEF StartLogin, Kept
<1>3. CASE ConsumeAuthFlow(c)
  BY <1>1, <1>3, ConsumeKeepsFlows, SessionsUnchanged DEF ConsumeAuthFlow, Kept
<1>4. CASE CreateSessionWithAudit(c)
  <2>1. \/ UNCHANGED sessions
        \/ \E s \in Sessions, handed \in BOOLEAN :
             ~Exists(s) /\ StoreSession(s, NewSession(calls[c], handed))
    BY <1>4 DEF CreateSessionWithAudit
  <2>2. SessionsKept
    BY <1>0, <2>1, StoreKeepsSessions, SessionsUnchanged
  <2> QED
    BY <1>1, <1>4, <2>2, FlowsUnchanged DEF CreateSessionWithAudit, Kept
<1>5. CASE TouchActiveSession(c)
  <2>1. calls[c].session \in Sessions /\ Exists(calls[c].session) /\ calls[c].at \in 0 .. MaxTime
    BY <1>0, <1>5, AuthAssumption
    DEF AuthInductive, AuthTypeOK, CallsOK, CallOK, TouchActiveSession, Call, Times
  <2>2. sessions' = sessions \/ sessions' = Touched(calls[c].session, calls[c].at)
    BY <1>5 DEF TouchActiveSession
  <2>3. SessionsKept /\ NoneAdded
    BY <1>0, <2>1, <2>2, TouchKeepsSessions, SessionsUnchanged
  <2> QED
    BY <1>1, <1>5, <2>3, FlowsUnchanged DEF TouchActiveSession, Kept
<1>6. CASE RevokeSessionWithAudit(c)
  <2>1. sessions' = sessions \/ sessions' = Revoke({calls[c].session}, "logout")
    BY <1>6 DEF RevokeSessionWithAudit
  <2>2. SessionsKept /\ NoneAdded
    BY <1>0, <2>1, RevokeKeepsSessions, SessionsUnchanged
  <2> QED
    BY <1>1, <1>6, <2>2, FlowsUnchanged DEF RevokeSessionWithAudit, Kept
<1>7. CASE UNCHANGED <<flows, sessions>>
  BY <1>1, <1>7, FlowsUnchanged, SessionsUnchanged DEF Kept
<1> QED
  BY <1>2, <1>3, <1>4, <1>5, <1>6, <1>7
  DEF Serve, Callback, Exchange, ResolvePrincipal, RecordAudit, ResolveSession,
      GetActiveSession, ListPrincipalPermissions, Abandon

\* What the world around does, as for a request.
World ==
  \/ \E p \in Principals :
       \/ SetStatus(p) \/ SetPermission(p) \/ RevokeByOIDCSubject(p)
       \/ \E group \in SUBSET Sessions : RevokeByOIDCSessionID(p, group)
  \/ Tick
  \/ UNCHANGED authVars

LEMMA WorldKeeps ==
  ASSUME AuthInductive, World PROVE Kept /\ NoneAdded /\ UNCHANGED calls
<1>0. AuthTypeOK
  BY DEF AuthInductive
<1>1. UNCHANGED <<flows, calls>>
  BY DEF World, SetStatus, SetPermission, RevokeByOIDCSubject, RevokeByOIDCSessionID, Tick,
     NoRequest, authVars
<1>2. now <= now'
  BY <1>0 DEF World, SetStatus, SetPermission, RevokeByOIDCSubject, RevokeByOIDCSessionID, Tick,
     AuthTypeOK, authVars
<1>3. CASE UNCHANGED sessions
  BY <1>1, <1>2, <1>3, FlowsUnchanged, SessionsUnchanged DEF Kept
<1>4. ASSUME NEW group \in SUBSET Sessions, sessions' = Revoke(group, "backchannel")
      PROVE  Kept /\ NoneAdded
  BY <1>0, <1>1, <1>2, <1>4, FlowsUnchanged, RevokeKeepsSessions DEF Kept
<1>5. UNCHANGED sessions \/ \E group \in SUBSET Sessions : sessions' = Revoke(group, "backchannel")
  BY DEF World, SetStatus, SetPermission, RevokeByOIDCSubject, RevokeByOIDCSessionID, Tick,
     authVars, OfPrincipal
<1> QED
  BY <1>1, <1>3, <1>4, <1>5

-----------------------------------------------------------------------------
(* Ownership of flows.                                                     *)

\* The request moves on without gaining a flow.
Steady(c) ==
  /\ CallOK(calls[c])'
  /\ Owns(calls'[c]) => Owns(calls[c]) /\ calls'[c].flow = calls[c].flow

\* The request goes on, with the same reading of the clock, flow and session.
GoesOn(c) ==
  /\ calls'[c].at = calls[c].at
  /\ calls'[c].flow = calls[c].flow
  /\ calls'[c].session = calls[c].session
  /\ Owns(calls'[c]) => Owns(calls[c])
  /\ calls'[c].pc \in {"read", "permissions", "touch", "revoke"} => calls[c].session # None
  /\ calls'[c].pc = "consume" => calls[c].flow # None
  /\ calls'[c].pc = "create" => /\ calls'[c].principal # None
                                /\ AccountType[calls'[c].principal] = "administrator" => calls'[c].mfa

\* What a request relies on stays true whatever else moves.
LEMMA CallOKKept ==
  ASSUME AuthInductive, AuthTypeOK', Kept, NoneAdded, NEW c \in Calls, GoesOn(c)
  PROVE  CallOK(calls[c])'
<1> DEFINE call == calls[c]
<1>1. call \in Call /\ CallOK(call) /\ AuthTypeOK
  BY DEF AuthInductive, AuthTypeOK, CallsOK
<1>2. call.at \in Int /\ now \in Int /\ now' \in Int
  BY <1>1, AuthAssumption DEF AuthTypeOK, Call, Times
<1>3. call.session # None => call.session \in Sessions
  BY <1>1 DEF Call
<1>4. call.flow # None => call.flow \in Flows
  BY <1>1 DEF Call
<1>5. /\ calls'[c].at = call.at /\ calls'[c].flow = call.flow /\ calls'[c].session = call.session
      /\ Owns(calls'[c]) => Owns(call)
  BY DEF GoesOn
<1> HIDE DEF call
<1>6. calls'[c].at <= now'
  BY <1>1, <1>2, <1>5 DEF CallOK, Kept
<1>7. call.session # None => /\ sessions'[call.session] # None
                             /\ sessions'[call.session].created <= call.at
  BY <1>1, <1>3 DEF CallOK, Kept, SessionsKept, Exists
<1>8. Owns(call) => /\ call.flow # None
                    /\ flows'[call.flow].status = "consumed"
                    /\ call.at < flows'[call.flow].expires
                    /\ \A s \in Sessions : sessions'[s] # None => sessions'[s].flow # call.flow
  BY <1>1, <1>4 DEF CallOK, Kept, FlowsKept, SessionsKept, NoneAdded, Exists
<1> QED
  BY <1>5, <1>6, <1>7, <1>8 DEF CallOK, Owns, Exists, GoesOn, call

\* A request that is left alone goes on.
LEMMA OthersGoOn ==
  ASSUME AuthInductive, NEW c \in Calls, calls'[c] = calls[c] PROVE GoesOn(c)
<1>1. CallOK(calls[c])
  BY DEF AuthInductive, CallsOK
<1> QED
  BY <1>1 DEF GoesOn, CallOK

LEMMA EarnedKept ==
  ASSUME AuthInductive, AuthTypeOK', Kept, NoneAdded
  PROVE  CreatedBefore' /\ SessionsAreEarned'
<1>1. AuthTypeOK
  BY DEF AuthInductive
<1>2. CreatedBefore'
  <2>1. ASSUME NEW s \in Sessions, sessions'[s] # None PROVE sessions'[s].created <= now'
    <3>1. Exists(s) /\ sessions[s].created <= now /\ sessions'[s].created = sessions[s].created
      BY <2>1 DEF NoneAdded, AuthInductive, CreatedBefore, Kept, SessionsKept
    <3>2. sessions[s].created \in Int /\ now \in Int /\ now' \in Int
      BY <1>1, <3>1, AuthAssumption DEF AuthTypeOK, Session, Times, Exists
    <3> QED
      BY <3>1, <3>2 DEF Kept
  <2> QED
    BY <2>1 DEF CreatedBefore, Exists
<1>3. SessionsAreEarned'
  <2>1. ASSUME NEW s \in Sessions, sessions'[s] # None
        PROVE  Exists(s) /\ sessions[s].flow \in Flows
    BY <1>1, <2>1 DEF NoneAdded, AuthTypeOK, Exists, Session
  <2> QED
    BY <2>1 DEF AuthInductive, SessionsAreEarned, Kept, FlowsKept, SessionsKept, Exists
<1> QED
  BY <1>2, <1>3

\* A step that adds no session and in which no request gains a flow: request c
\* moves, and the others are left alone.
LEMMA SteadyStep ==
  ASSUME AuthInductive, AuthTypeOK', Kept, NoneAdded, NEW c \in Calls,
         \A d \in Calls \ {c} : calls'[d] = calls[d],
         GoesOn(c) \/ Steady(c)
  PROVE  AuthInductive'
<1>1. ASSUME NEW d \in Calls PROVE Steady(d)
  <2>1. GoesOn(d) \/ Steady(d)
    BY OthersGoOn
  <2> QED
    BY <2>1, CallOKKept DEF GoesOn, Steady
<1>2. CallsOK'
  BY <1>1 DEF CallsOK, Steady
<1>3. OneOwner'
  BY <1>1 DEF AuthInductive, OneOwner, Steady
<1> QED
  BY <1>2, <1>3, EarnedKept DEF AuthInductive

\* The request is over, or has only its failure to record.
Over(c) ==
  \E call \in Call :
    /\ call.pc \in {"idle", "audit"} /\ call.at = 0 /\ call.session = None
    /\ calls' = [calls EXCEPT ![c] = call]

LEMMA OverByFailure ==
  ASSUME NEW c \in Calls, NEW kind \in Kinds, NEW cause \in Codes, loginFailure(c, kind, cause)
  PROVE  Over(c)
<1> DEFINE call == [Idle EXCEPT !.kind = kind, !.pc = "audit", !.cause = cause]
<1>1. call \in Call /\ call.pc = "audit" /\ call.at = 0 /\ call.session = None
  BY IdleIsCall DEF Call, Kinds, Idle
<1> QED
  BY <1>1 DEF loginFailure, Become, Over

LEMMA OverByFail ==
  ASSUME AuthTypeOK, NEW c \in Calls, NEW cause \in Codes, Fail(c, cause) PROVE Over(c)
<1>1. calls[c].kind \in Kinds
  BY DEF AuthTypeOK, Call
<1> QED
  BY <1>1, OverByFailure DEF Fail

LEMMA OverByIdle ==
  ASSUME NEW c \in Calls, calls' = [calls EXCEPT ![c] = Idle] PROVE Over(c)
<1>1. Idle.pc = "idle" /\ Idle.at = 0 /\ Idle.session = None
  BY DEF Idle
<1> QED
  BY <1>1, IdleIsCall DEF Over

LEMMA OverStep ==
  ASSUME AuthInductive, AuthTypeOK', Kept, NoneAdded, NEW c \in Calls, Over(c)
  PROVE  AuthInductive'
<1>1. \A d \in Calls \ {c} : calls'[d] = calls[d]
  BY DEF Over, AuthInductive, AuthTypeOK
<1>2. calls'[c].pc \in {"idle", "audit"} /\ calls'[c].at = 0 /\ calls'[c].session = None
  BY DEF Over, AuthInductive, AuthTypeOK
<1>3. 0 <= now'
  BY DEF AuthTypeOK
<1>4. CallOK(calls[c])' /\ ~Owns(calls'[c])
  BY <1>2, <1>3 DEF CallOK, Owns
<1> QED
  BY <1>1, <1>4, SteadyStep DEF Steady

LEMMA BecomeStep ==
  ASSUME AuthTypeOK, NEW c \in Calls, NEW STATE call, Become(c, call)
  PROVE  calls'[c] = call /\ \A d \in Calls \ {c} : calls'[d] = calls[d]
  BY DEF Become, AuthTypeOK

LEMMA OverByAnswer ==
  ASSUME NEW c \in Calls, NEW STATE call, NEW STATE result, NEW STATE event,
         Reply(c, call, result, event)
  PROVE  Over(c)
  BY OverByIdle DEF Reply

LEMMA OverByNoSession ==
  ASSUME NEW c \in Calls, NEW STATE call, NoSession(c, call) PROVE Over(c)
  BY OverByAnswer DEF NoSession

\* A session is resolved: the request is over, or a logout that goes on.
LEMMA ResolvedStep ==
  ASSUME AuthInductive, AuthTypeOK', Kept, NoneAdded, NEW c \in Calls, NEW STATE permissions,
         calls[c].session # None, Resolved(c, permissions)
  PROVE  AuthInductive'
<1> DEFINE next == [calls[c] EXCEPT !.pc = "revoke", !.permissions = {}, !.due = FALSE]
<1>1. AuthTypeOK /\ calls[c] \in Call
  BY DEF AuthInductive, AuthTypeOK
<1>2. CASE Become(c, next)
  <2>1. calls'[c] = next /\ \A d \in Calls \ {c} : calls'[d] = calls[d]
    BY <1>1, <1>2, BecomeStep
  <2>2. /\ next.pc = "revoke" /\ next.at = calls[c].at /\ next.flow = calls[c].flow
        /\ next.session = calls[c].session
    BY <1>1 DEF Call
  <2> HIDE DEF next
  <2>3. GoesOn(c)
    BY <2>1, <2>2 DEF GoesOn, Owns
  <2> QED
    BY <2>1, <2>3, SteadyStep
<1>3. CASE \E result : Reply(c, calls[c], result, "none")
  <2>1. Over(c)
    BY <1>3, OverByIdle DEF Reply
  <2> QED
    BY <2>1, OverStep
<1>4. Become(c, next) \/ \E result : Reply(c, calls[c], result, "none")
  BY DEF Resolved, Done
<1> QED
  BY <1>2, <1>3, <1>4

LEMMA StartLoginStep ==
  ASSUME AuthInductive, AuthTypeOK', Kept, NoneAdded, NEW c \in Calls, StartLogin(c)
  PROVE  AuthInductive'
<1>1. {"INVALID_RETURN_TO", "AUTH_SERVICE_UNAVAILABLE"} \subseteq Codes /\ "login" \in Kinds
  BY DEF Codes, Kinds
<1>2. Over(c)
  BY <1>1, OverByFailure, OverByAnswer DEF StartLogin
<1> QED
  BY <1>2, OverStep

LEMMA CallbackStep ==
  ASSUME AuthInductive, AuthTypeOK', Kept, NoneAdded, NEW c \in Calls, NEW state \in Handed,
         NEW cookie \in {"none", "own", "other"}, NEW code \in BOOLEAN,
         Callback(c, state, cookie, code)
  PROVE  AuthInductive'
<1> DEFINE call == [Idle EXCEPT !.kind = IF code /\ state # None THEN "callback" ELSE "reject",
                                !.at = now, !.flow = state, !.cookie = cookie]
           next == [call EXCEPT !.pc = "consume"]
<1>0. AuthTypeOK
  BY DEF AuthInductive
<1>1. CASE state # None /\ Become(c, next)
  <2>1. calls'[c] = next /\ \A d \in Calls \ {c} : calls'[d] = calls[d]
    BY <1>0, <1>1, BecomeStep
  <2>2. next.pc = "consume" /\ next.at = now /\ next.flow = state /\ next.session = None
    BY DEF Idle
  <2> HIDE DEF next
  <2>3. now <= now'
    BY DEF Kept
  <2>4. Steady(c)
    BY <1>1, <2>1, <2>2, <2>3 DEF Steady, CallOK, Owns
  <2> QED
    BY <2>1, <2>4, SteadyStep
<1>2. CASE loginFailure(c, "reject", "AUTH_FLOW_INVALID")
  BY <1>2, OverByFailure, OverStep DEF Kinds, Codes
<1>3. CASE Reply(c, call, writeError("AUTH_FLOW_INVALID"), "none")
  BY <1>3, OverByAnswer, OverStep
<1> QED
  BY <1>1, <1>2, <1>3 DEF Callback

\* Whoever consumes a flow is the only one to have it: it was open, so no
\* request had it and no session was made of it.
LEMMA ConsumeStep ==
  ASSUME AuthInductive, AuthTypeOK', Kept, NoneAdded, NEW c \in Calls, ConsumeAuthFlow(c)
  PROVE  AuthInductive'
<1> DEFINE f == calls[c].flow
           next == [calls[c] EXCEPT !.pc = "exchange"]
<1>1. AuthTypeOK /\ calls[c] \in Call /\ f \in Flows /\ calls[c].pc = "consume" /\ CallOK(calls[c])
  BY DEF AuthInductive, AuthTypeOK, CallsOK, CallOK, ConsumeAuthFlow, Call
<1>2. CASE /\ Consumable(f, calls[c].cookie, calls[c].at)
           /\ flows' = [flows EXCEPT ![f].status = "consumed"]
           /\ Become(c, next)
  <2>1. calls'[c] = next /\ \A d \in Calls \ {c} : calls'[d] = calls[d]
    BY <1>1, <1>2, BecomeStep
  <2>2. /\ next.pc = "exchange" /\ next.at = calls[c].at /\ next.flow = f
        /\ next.session = calls[c].session
    BY <1>1 DEF Call
  <2> HIDE DEF next
  <2>3. flows[f].status = "open" /\ calls[c].at < flows[f].expires
    <3>1. flows[f].expires \in Int /\ calls[c].at \in Int
      BY <1>1, AuthAssumption DEF AuthTypeOK, Flow, Call, Times
    <3> QED
      BY <1>2, <3>1 DEF Consumable
  <2>4. flows'[f].status = "consumed" /\ flows'[f].expires = flows[f].expires
    BY <1>1, <1>2 DEF AuthTypeOK, Flow
  <2>5. \A s \in Sessions : sessions'[s] # None => sessions'[s].flow # f
    BY <2>3 DEF AuthInductive, SessionsAreEarned, NoneAdded, Kept, SessionsKept
  <2>6. ASSUME NEW d \in Calls \ {c} PROVE Owns(calls[d]) => calls[d].flow # f
    BY <2>3 DEF AuthInductive, CallsOK, CallOK
  <2>7. CallOK(calls[c])'
    <3>1. next.at <= now'
      <4>1. calls[c].at \in Int /\ now \in Int /\ now' \in Int /\ calls[c].at <= now /\ now <= now'
        BY <1>1, AuthAssumption DEF AuthTypeOK, Call, Times, CallOK, Kept
      <4> QED
        BY <2>2, <4>1
    <3>2. next.session # None => /\ sessions'[next.session] # None
                                 /\ sessions'[next.session].created <= next.at
      BY <1>1, <2>2 DEF CallOK, Call, Kept, SessionsKept, Exists
    <3>3. f # None
      BY <1>1, AuthAssumption
    <3> QED
      BY <2>1, <2>2, <2>3, <2>4, <2>5, <3>1, <3>2, <3>3 DEF CallOK, Owns, Exists
  <2>8. CallsOK'
    BY <2>1, <2>7, OthersGoOn, CallOKKept DEF CallsOK
  <2>9. OneOwner'
    BY <2>1, <2>2, <2>6 DEF AuthInductive, OneOwner
  <2> QED
    BY <2>8, <2>9, EarnedKept DEF AuthInductive
<1>3. CASE Fail(c, "AUTH_FLOW_INVALID") \/ Fail(c, "AUTH_SERVICE_UNAVAILABLE")
  BY <1>1, <1>3, OverByFail, OverStep DEF Codes
<1> QED
  BY <1>2, <1>3 DEF ConsumeAuthFlow

LEMMA ExchangeStep ==
  ASSUME AuthInductive, AuthTypeOK', Kept, NoneAdded, NEW c \in Calls, Exchange(c)
  PROVE  AuthInductive'
<1>1. AuthTypeOK /\ calls[c] \in Call /\ calls[c].pc = "exchange"
  BY DEF AuthInductive, AuthTypeOK, Exchange
<1>2. ASSUME NEW subject \in Principals \cup {None}, NEW mfa \in BOOLEAN,
             Become(c, [calls[c] EXCEPT !.pc = "resolve", !.principal = subject, !.mfa = mfa])
      PROVE  AuthInductive'
  <2> DEFINE next == [calls[c] EXCEPT !.pc = "resolve", !.principal = subject, !.mfa = mfa]
  <2>1. calls'[c] = next /\ \A d \in Calls \ {c} : calls'[d] = calls[d]
    BY <1>1, <1>2, BecomeStep
  <2>2. /\ next.pc = "resolve" /\ next.at = calls[c].at /\ next.flow = calls[c].flow
        /\ next.session = calls[c].session
    BY <1>1 DEF Call
  <2> HIDE DEF next
  <2>3. GoesOn(c)
    BY <1>1, <2>1, <2>2 DEF GoesOn, Owns
  <2> QED
    BY <2>1, <2>3, SteadyStep
<1>3. ASSUME NEW cause \in {"AUTH_FLOW_INVALID", "AUTH_SERVICE_UNAVAILABLE"}, Fail(c, cause)
      PROVE  AuthInductive'
  BY <1>1, <1>3, OverByFail, OverStep DEF Codes
<1> QED
  BY <1>2, <1>3 DEF Exchange

LEMMA ResolvePrincipalStep ==
  ASSUME AuthInductive, AuthTypeOK', Kept, NoneAdded, NEW c \in Calls, ResolvePrincipal(c)
  PROVE  AuthInductive'
<1> DEFINE next == [calls[c] EXCEPT !.pc = "create"]
<1>1. AuthTypeOK /\ calls[c] \in Call /\ calls[c].pc = "resolve"
  BY DEF AuthInductive, AuthTypeOK, ResolvePrincipal
<1>2. CASE Admitted(calls[c].principal, calls[c].mfa) /\ Become(c, next)
  <2>1. calls'[c] = next /\ \A d \in Calls \ {c} : calls'[d] = calls[d]
    BY <1>1, <1>2, BecomeStep
  <2>2. /\ next.pc = "create" /\ next.at = calls[c].at /\ next.flow = calls[c].flow
        /\ next.session = calls[c].session /\ next.principal = calls[c].principal
        /\ next.mfa = calls[c].mfa
    BY <1>1 DEF Call
  <2> HIDE DEF next
  <2>3. GoesOn(c)
    BY <1>1, <1>2, <2>1, <2>2 DEF GoesOn, Owns, Admitted
  <2> QED
    BY <2>1, <2>3, SteadyStep
<1>3. CASE Fail(c, "AUTH_FORBIDDEN") \/ Fail(c, "AUTH_SERVICE_UNAVAILABLE")
  BY <1>1, <1>3, OverByFail, OverStep DEF Codes
<1> QED
  BY <1>2, <1>3 DEF ResolvePrincipal

\* The new session takes over the flow of its request, which is then over: no
\* other session and no other request has that flow.
LEMMA StoreStep ==
  ASSUME AuthInductive, AuthTypeOK', Kept, NEW c \in Calls, calls[c].pc = "create",
         NEW s \in Sessions, ~Exists(s), NEW handed \in BOOLEAN,
         StoreSession(s, NewSession(calls[c], handed)),
         UNCHANGED <<now, flows>>, calls' = [calls EXCEPT ![c] = Idle]
  PROVE  AuthInductive'
<1> DEFINE row == NewSession(calls[c], handed)
<1>1. /\ row \in Session /\ row # None
      /\ row.created = calls[c].at /\ row.flow = calls[c].flow
      /\ row.mfa = calls[c].mfa /\ row.principal = calls[c].principal
  BY NewSessionTyped
<1> HIDE DEF row
<1>2. AuthTypeOK /\ calls[c] \in Call /\ CallOK(calls[c]) /\ Owns(calls[c])
  BY DEF AuthInductive, AuthTypeOK, CallsOK, Owns
<1>3. sessions'[s] = row /\ \A t \in Sessions \ {s} : sessions'[t] = sessions[t]
  BY <1>2 DEF StoreSession, row, AuthTypeOK
<1>4. calls'[c] = Idle /\ \A d \in Calls \ {c} : calls'[d] = calls[d]
  BY <1>2 DEF AuthTypeOK
<1>5. /\ flows[row.flow].status = "consumed" /\ row.created < flows[row.flow].expires
      /\ row.created <= now
      /\ AccountType[row.principal] = "administrator" => row.mfa
      /\ \A t \in Sessions : Exists(t) => sessions[t].flow # row.flow
  BY <1>1, <1>2 DEF CallOK
<1>6. SessionsAreEarned'
  <2>1. ASSUME NEW t \in Sessions, sessions'[t] # None
        PROVE  /\ flows[sessions'[t].flow].status = "consumed"
               /\ sessions'[t].created < flows[sessions'[t].flow].expires
               /\ AccountType[sessions'[t].principal] = "administrator" => sessions'[t].mfa
    BY <1>3, <1>5, <2>1 DEF AuthInductive, SessionsAreEarned, Exists
  <2>2. ASSUME NEW t \in Sessions, NEW u \in Sessions, sessions'[t] # None, sessions'[u] # None,
               sessions'[u].flow = sessions'[t].flow
        PROVE  u = t
    BY <1>3, <1>5, <2>2 DEF AuthInductive, SessionsAreEarned, Exists
  <2> QED
    BY <2>1, <2>2 DEF SessionsAreEarned, Exists
<1>7. CreatedBefore'
  BY <1>3, <1>5 DEF AuthInductive, CreatedBefore, Exists
<1>8. OneOwner'
  BY <1>4 DEF AuthInductive, OneOwner, Owns, Idle
<1>9. ASSUME NEW d \in Calls PROVE CallOK(calls[d])'
  <2>1. CASE d = c
    <3>1. Idle.pc = "idle" /\ Idle.at = 0 /\ Idle.session = None /\ 0 <= now'
      BY DEF Idle, AuthTypeOK
    <3> QED
      BY <1>4, <2>1, <3>1 DEF CallOK, Owns
  <2>2. CASE d # c
    <3>1. calls'[d] = calls[d] /\ calls[d] \in Call /\ CallOK(calls[d])
      BY <1>2, <1>4, <2>2 DEF AuthInductive, AuthTypeOK, CallsOK
    <3>2. Owns(calls[d]) => calls[d].flow # row.flow
      BY <1>1, <1>2, <2>2 DEF AuthInductive, OneOwner
    <3>3. Owns(calls[d]) => \A t \in Sessions : sessions'[t] # None => sessions'[t].flow # calls[d].flow
      BY <1>3, <3>1, <3>2 DEF CallOK, Exists
    <3>4. calls[d].session # None => /\ sessions'[calls[d].session] # None
                                     /\ sessions'[calls[d].session].created <= calls[d].at
      BY <3>1 DEF CallOK, Call, Kept, SessionsKept, Exists
    <3> QED
      BY <3>1, <3>3, <3>4 DEF CallOK, Owns, Exists
  <2> QED
    BY <2>1, <2>2
<1> QED
  BY <1>6, <1>7, <1>8, <1>9 DEF AuthInductive, CallsOK

LEMMA CreateSessionStep ==
  ASSUME AuthInductive, AuthTypeOK', Kept, NEW c \in Calls, CreateSessionWithAudit(c)
  PROVE  AuthInductive'
<1>1. calls' = [calls EXCEPT ![c] = Idle] /\ calls[c].pc = "create" /\ UNCHANGED <<now, flows>>
  BY DEF CreateSessionWithAudit, Done, Reply
<1>2. CASE UNCHANGED sessions
  BY <1>1, <1>2, SessionsUnchanged, OverByIdle, OverStep
<1>3. ASSUME NEW s \in Sessions, ~Exists(s), NEW handed \in BOOLEAN,
             StoreSession(s, NewSession(calls[c], handed))
      PROVE  AuthInductive'
  BY <1>1, <1>3, StoreStep
<1> QED
  BY <1>2, <1>3 DEF CreateSessionWithAudit

LEMMA ResolveSessionStep ==
  ASSUME AuthInductive, AuthTypeOK', Kept, NoneAdded, NEW c \in Calls, NEW s \in HandedSessions,
         ResolveSession(c, s)
  PROVE  AuthInductive'
<1> DEFINE call == [Idle EXCEPT !.kind = "session", !.session = s]
           next == [call EXCEPT !.pc = "read", !.at = now]
<1>0. AuthTypeOK
  BY DEF AuthInductive
<1>1. CASE s # None /\ Become(c, next)
  <2>1. calls'[c] = next /\ \A d \in Calls \ {c} : calls'[d] = calls[d]
    BY <1>0, <1>1, BecomeStep
  <2>2. next.pc = "read" /\ next.at = now /\ next.session = s
    BY DEF Idle
  <2> HIDE DEF next
  <2>3. s \in Sessions /\ Exists(s)
    BY <1>1 DEF HandedSessions
  <2>4. sessions'[s] # None /\ sessions'[s].created <= now /\ now <= now'
    BY <2>3 DEF AuthInductive, CreatedBefore, Kept, SessionsKept
  <2>5. Steady(c)
    BY <1>1, <2>1, <2>2, <2>4 DEF Steady, CallOK, Owns, Exists
  <2> QED
    BY <2>1, <2>5, SteadyStep
<1>2. CASE NoSession(c, call)
  BY <1>2, OverByNoSession, OverStep
<1>3. CASE Reply(c, call, writeError("CSRF_INVALID"), "none")
  BY <1>3, OverByAnswer, OverStep
<1> QED
  BY <1>1, <1>2, <1>3 DEF ResolveSession

LEMMA GetActiveSessionStep ==
  ASSUME AuthInductive, AuthTypeOK', Kept, NoneAdded, NEW c \in Calls, GetActiveSession(c)
  PROVE  AuthInductive'
<1>1. AuthTypeOK /\ calls[c] \in Call /\ calls[c].session # None
  BY DEF AuthInductive, AuthTypeOK, CallsOK, CallOK, GetActiveSession
<1>2. ASSUME NEW STATE due, Become(c, [calls[c] EXCEPT !.pc = "permissions", !.due = due])
      PROVE  AuthInductive'
  <2> DEFINE next == [calls[c] EXCEPT !.pc = "permissions", !.due = due]
  <2>1. calls'[c] = next /\ \A d \in Calls \ {c} : calls'[d] = calls[d]
    BY <1>1, <1>2, BecomeStep
  <2>2. /\ next.pc = "permissions" /\ next.at = calls[c].at /\ next.flow = calls[c].flow
        /\ next.session = calls[c].session
    BY <1>1 DEF Call
  <2> HIDE DEF next
  <2>3. GoesOn(c)
    BY <1>1, <2>1, <2>2 DEF GoesOn, Owns
  <2> QED
    BY <2>1, <2>3, SteadyStep
<1>3. CASE NoSession(c, calls[c]) \/ Done(c, "503", "none")
  BY <1>3, OverByNoSession, OverByAnswer, OverStep DEF Done
<1> QED
  BY <1>2, <1>3 DEF GetActiveSession

LEMMA ListPermissionsStep ==
  ASSUME AuthInductive, AuthTypeOK', Kept, NoneAdded, NEW c \in Calls, ListPrincipalPermissions(c)
  PROVE  AuthInductive'
<1> DEFINE permissions == PermissionsOf(sessions[calls[c].session].principal)
           next == [calls[c] EXCEPT !.pc = "touch", !.due = FALSE, !.permissions = permissions]
<1>1. AuthTypeOK /\ calls[c] \in Call /\ calls[c].session # None
  BY DEF AuthInductive, AuthTypeOK, CallsOK, CallOK, ListPrincipalPermissions
<1>2. CASE Become(c, next)
  <2>1. calls'[c] = next /\ \A d \in Calls \ {c} : calls'[d] = calls[d]
    BY <1>1, <1>2, BecomeStep
  <2>2. /\ next.pc = "touch" /\ next.at = calls[c].at /\ next.flow = calls[c].flow
        /\ next.session = calls[c].session
    BY <1>1 DEF Call
  <2> HIDE DEF next
  <2>3. GoesOn(c)
    BY <1>1, <2>1, <2>2 DEF GoesOn, Owns
  <2> QED
    BY <2>1, <2>3, SteadyStep
<1>3. CASE Resolved(c, permissions)
  BY <1>1, <1>3, ResolvedStep
<1>4. CASE Done(c, "503", "none")
  BY <1>4, OverByAnswer, OverStep DEF Done
<1> QED
  BY <1>2, <1>3, <1>4 DEF ListPrincipalPermissions

LEMMA TouchStep ==
  ASSUME AuthInductive, AuthTypeOK', Kept, NoneAdded, NEW c \in Calls, TouchActiveSession(c)
  PROVE  AuthInductive'
<1>1. calls[c].session # None
  BY DEF AuthInductive, CallsOK, CallOK, TouchActiveSession
<1>2. CASE Resolved(c, calls[c].permissions)
  BY <1>1, <1>2, ResolvedStep
<1>3. CASE NoSession(c, calls[c]) \/ Done(c, "503", "none")
  BY <1>3, OverByNoSession, OverByAnswer, OverStep DEF Done
<1> QED
  BY <1>2, <1>3 DEF TouchActiveSession

\* Steps with which a request ends.
LEMMA EndStep ==
  ASSUME AuthInductive, AuthTypeOK', Kept, NoneAdded, NEW c \in Calls,
         RecordAudit(c) \/ RevokeSessionWithAudit(c) \/ Abandon(c)
  PROVE  AuthInductive'
<1>1. calls' = [calls EXCEPT ![c] = Idle]
  BY DEF RecordAudit, RevokeSessionWithAudit, Abandon, Become, Done, Reply
<1> QED
  BY <1>1, OverByIdle, OverStep

LEMMA WorldStep ==
  ASSUME AuthInductive, AuthTypeOK', World PROVE AuthInductive'
<1>1. Kept /\ NoneAdded /\ UNCHANGED calls
  BY WorldKeeps
<1>2. CallsOK'
  BY <1>1, OthersGoOn, CallOKKept DEF CallsOK
<1>3. OneOwner'
  BY <1>1 DEF AuthInductive, OneOwner
<1> QED
  BY <1>1, <1>2, <1>3, EarnedKept DEF AuthInductive

-----------------------------------------------------------------------------
(* The theorems.                                                           *)

LEMMA InductiveInit == AuthInit => AuthInductive
<1> SUFFICES ASSUME AuthInit PROVE AuthInductive
  OBVIOUS
<1>1. 0 \in 0 .. MaxTime /\ 0 \in Times
  BY AuthAssumption DEF Times
<1>2. \A s \in Sessions : ~Exists(s)
  BY DEF AuthInit, Exists
<1>3. flows \in [Flows -> Flow]
  BY <1>1 DEF AuthInit, Flow
<1>4. AuthTypeOK
  BY <1>1, <1>2, <1>3, IdleIsCall DEF AuthInit, AuthTypeOK
<1>5. CallsOK /\ OneOwner
  BY DEF AuthInit, CallsOK, CallOK, OneOwner, Owns, Idle
<1> QED
  BY <1>2, <1>4, <1>5 DEF AuthInductive, CreatedBefore, SessionsAreEarned

\* A step is one of a request, or of the world around.
LEMMA StepCases == [AuthNext]_authVars => World \/ \E c \in Calls : Serve(c)
  BY DEF AuthNext, World

LEMMA InductiveStep == AuthInductive /\ [AuthNext]_authVars => AuthInductive'
<1> SUFFICES ASSUME AuthInductive, [AuthNext]_authVars PROVE AuthInductive'
  OBVIOUS
<1>1. AuthTypeOK'
  BY TypeStep
<1>2. CASE World
  BY <1>1, <1>2, WorldStep
<1>3. ASSUME NEW c \in Calls, Serve(c) PROVE AuthInductive'
  <2>1. Kept /\ (NoneAdded \/ CreateSessionWithAudit(c))
    BY <1>3, ServeKeeps
  <2>2. CASE CreateSessionWithAudit(c)
    BY <1>1, <2>1, <2>2, CreateSessionStep
  <2>3. CASE NoneAdded /\ ~CreateSessionWithAudit(c)
    <3>1. ASSUME NEW state \in Handed, NEW cookie \in {"none", "own", "other"},
                 NEW code \in BOOLEAN, Callback(c, state, cookie, code)
          PROVE  AuthInductive'
      BY <1>1, <2>1, <2>3, <3>1, CallbackStep
    <3>2. ASSUME NEW s \in HandedSessions, ResolveSession(c, s) PROVE AuthInductive'
      BY <1>1, <2>1, <2>3, <3>2, ResolveSessionStep
    <3> QED
      BY <1>1, <1>3, <2>1, <2>3, <3>1, <3>2, StartLoginStep, ConsumeStep, ExchangeStep,
         ResolvePrincipalStep, GetActiveSessionStep, ListPermissionsStep, TouchStep, EndStep
      DEF Serve
  <2> QED
    BY <2>1, <2>2, <2>3
<1> QED
  BY <1>2, <1>3, StepCases

\* The inductive invariant: a request past ConsumeAuthFlow owns a flow that is
\* used up, that no other request owns and that no session was made of.
THEOREM AuthInductiveHolds == AuthSpec => []AuthInductive
<1> QED
  BY InductiveInit, InductiveStep, PTL DEF AuthSpec

\* The rows keep their types and the CHECK constraints of user_sessions, however
\* late a request runs its statements: the idle expiry slides with every touch
\* and never passes the absolute one.
THEOREM AuthTypeCorrect == AuthSpec => []AuthTypeOK
<1>1. AuthInductive => AuthTypeOK
  BY DEF AuthInductive
<1> QED
  BY <1>1, AuthInductiveHolds, PTL

\* Every session is earned by an unexpired login of its own, however often and
\* however concurrently a callback is delivered and wherever a request dies.
THEOREM SessionsEarned == AuthSpec => []SessionsAreEarned
<1>1. AuthInductive => SessionsAreEarned
  BY DEF AuthInductive
<1> QED
  BY <1>1, AuthInductiveHolds, PTL

\* No statement of a request and nothing the world around does undoes a consumed
\* flow or a revocation, or moves a session to another principal or its absolute
\* expiry.
THEOREM NothingReturns == AuthSpec => NothingComesBack
<1> DEFINE Forward ==
      /\ \A f \in Flows : flows[f].status = "consumed" => flows'[f].status = "consumed"
      /\ \A s \in Sessions : Exists(s) =>
           /\ sessions'[s] # None
           /\ sessions'[s].principal = sessions[s].principal
           /\ sessions'[s].absolute = sessions[s].absolute
           /\ sessions[s].revoked # "no" => sessions'[s].revoked = sessions[s].revoked
<1>1. Kept => Forward
  BY DEF Kept, FlowsKept, SessionsKept
<1>2. AuthInductive /\ [AuthNext]_authVars => [Forward]_authVars
  BY <1>1, StepCases, ServeKeeps, WorldKeeps
<1> QED
  BY <1>2, AuthInductiveHolds, PTL DEF AuthSpec, NothingComesBack

-----------------------------------------------------------------------------
(* Answers and the audit trail.                                            *)

LoginCauses == {"INVALID_RETURN_TO", "AUTH_FLOW_INVALID", "AUTH_FORBIDDEN", "AUTH_SERVICE_UNAVAILABLE"}

\* A request past GetActiveSession has seen its session valid; which kind a
\* request is of, and why a login failed, is as its place says.
Remembers(c) ==
  /\ calls[c].pc \in {"read", "permissions", "touch", "revoke"} => calls[c].kind = "session"
  /\ calls[c].pc = "audit" => calls[c].cause \in LoginCauses
  /\ calls[c].pc \in {"permissions", "touch", "revoke"} => "valid" \in watch[c]

\* The events of a session, which a logout event implies to exist.
OnRecord(s) ==
  /\ Exists(s) <=> <<"login", s>> \in audit
  /\ <<"logout", s>> \in audit => Exists(s) /\ sessions[s].revoked # "no"
  /\ Exists(s) /\ sessions[s].revoked = "logout" => <<"logout", s>> \in audit

RefusalsOnRecord ==
  answer # None /\ answer.kind \in {"login", "callback", "reject"} =>
    /\ answer.result = "403" => answer.event = "access_denied"
    /\ answer.result = "400" =>
         \/ answer.event = "invalid_flow"
         \/ answer.kind = "callback" /\ answer.cookie = "none"

AnswerInductive ==
  /\ AuthInductive
  /\ \A c \in Calls : Remembers(c)
  /\ \A s \in Sessions : OnRecord(s)
  /\ AnswersWereTrue /\ LogoutIsFinal /\ RefusalsOnRecord

\* What an answer to a request may say.
\* After this step the session is good for nothing.
GoneAfter(s) ==
  \/ sessions'[s].revoked # "no"
  \/ ~(sessions'[s].idle > now')
  \/ ~(sessions'[s].absolute > now')
  \/ sessions'[s].principal \notin active'
  \/ /\ AccountType[sessions'[s].principal] = "administrator"
     /\ sessions'[s].principal \notin granted'

Truthful(c, call, result, event) ==
  /\ call.session # None =>
       /\ result \in Accepted => "valid" \in watch[c] \cup Facts(c)
       /\ result \in {"anonymous", "401"} => "invalid" \in watch[c] \cup Facts(c)
       /\ result \in {"granted_mailbox", "granted_administrator"} =>
            (result = "granted_administrator")
              <=> (AccountType[sessions'[call.session].principal] = "administrator")
       /\ result = "logged_out" => GoneAfter(call.session)
  /\ call.kind \in {"login", "callback", "reject"} =>
       /\ result = "403" => event = "access_denied"
       /\ result = "400" => event = "invalid_flow" \/ (call.kind = "callback" /\ call.cookie = "none")

AnswersOK == AnswersWereTrue /\ LogoutIsFinal /\ RefusalsOnRecord

RequestsOK == AnswersOK /\ \A c \in Calls : Remembers(c)

LEMMA OtherRemembers ==
  ASSUME AnswerInductive, Watch, NEW d \in Calls, calls'[d] = calls[d] PROVE Remembers(d)'
<1>1. Remembers(d) /\ watch'[d] = IF Busy(d) /\ calls'[d].pc # "idle" THEN watch[d] \cup Facts(d) ELSE {}
  BY DEF AnswerInductive, Watch
<1>2. calls[d].pc \in {"permissions", "touch", "revoke"} => "valid" \in watch'[d]
  BY <1>1 DEF Remembers, Busy
<1> QED
  BY <1>1, <1>2 DEF Remembers

\* A request is answered.
LEMMA ReplyAnswers ==
  ASSUME AnswerInductive, NEW c \in Calls, NEW STATE call, NEW STATE result, NEW STATE event,
         Reply(c, call, result, event), Truthful(c, call, result, event)
  PROVE  RequestsOK'
<1>1. answer' = [kind |-> call.kind, cookie |-> call.cookie, session |-> call.session,
                 result |-> result, event |-> event, facts |-> watch[c] \cup Facts(c)]
  BY DEF Reply
<1>2. /\ answer'.kind = call.kind /\ answer'.cookie = call.cookie /\ answer'.session = call.session
      /\ answer'.result = result /\ answer'.event = event
      /\ answer'.facts = watch[c] \cup Facts(c)
  BY <1>1
<1>3. AnswersOK'
  <2>1. LogoutIsFinal'
    BY <1>2 DEF LogoutIsFinal, LoggedOut, Truthful, GoneAfter, Valid, Unexpired, Usable
  <2>2. AnswersWereTrue' /\ RefusalsOnRecord'
    BY <1>2 DEF AnswersWereTrue, RefusalsOnRecord, Truthful
  <2> QED
    BY <2>1, <2>2 DEF AnswersOK
<1>4. calls'[c] = Idle /\ \A d \in Calls \ {c} : calls'[d] = calls[d]
  BY DEF Reply, AnswerInductive, AuthInductive, AuthTypeOK
<1>5. Remembers(c)'
  BY <1>4 DEF Remembers, Idle
<1>6. ASSUME NEW d \in Calls PROVE Remembers(d)'
  BY <1>4, <1>5, OtherRemembers DEF Reply
<1> QED
  BY <1>3, <1>6 DEF RequestsOK

LEMMA NoAnswer == answer' = None => AnswersOK'
  BY DEF AnswersOK, AnswersWereTrue, LogoutIsFinal, LoggedOut, RefusalsOnRecord

\* A request goes on.
LEMMA BecomeAnswers ==
  ASSUME AnswerInductive, NEW c \in Calls, NEW STATE call, Become(c, call),
         call.pc \in {"read", "permissions", "touch", "revoke"} => call.kind = "session",
         call.pc = "audit" => call.cause \in LoginCauses,
         call.pc \in {"permissions", "touch", "revoke"} =>
           Busy(c) /\ "valid" \in watch[c] \cup Facts(c)
  PROVE  RequestsOK'
<1>1. calls'[c] = call /\ \A d \in Calls \ {c} : calls'[d] = calls[d]
  BY BecomeStep DEF AnswerInductive, AuthInductive
<1>2. watch'[c] = IF Busy(c) /\ calls'[c].pc # "idle" THEN watch[c] \cup Facts(c) ELSE {}
  BY DEF Become, Watch
<1>3. Remembers(c)'
  BY <1>1, <1>2 DEF Remembers
<1>4. ASSUME NEW d \in Calls PROVE Remembers(d)'
  BY <1>1, <1>3, OtherRemembers DEF Become
<1> QED
  BY <1>4, NoAnswer DEF RequestsOK, Become

LEMMA FailureAnswers ==
  ASSUME AnswerInductive, NEW c \in Calls, NEW STATE kind, NEW cause \in LoginCauses,
         loginFailure(c, kind, cause)
  PROVE  RequestsOK'
<1> DEFINE call == [Idle EXCEPT !.kind = kind, !.pc = "audit", !.cause = cause]
<1>1. call.pc = "audit" /\ call.cause = cause /\ Become(c, call)
  BY DEF Idle, loginFailure
<1> HIDE DEF call
<1> QED
  BY <1>1, BecomeAnswers

LEMMA FailAnswers ==
  ASSUME AnswerInductive, NEW c \in Calls, NEW cause \in LoginCauses, Fail(c, cause)
  PROVE  RequestsOK'
  BY FailureAnswers DEF Fail

\* An answer that claims nothing.
LEMMA UnavailableAnswers ==
  ASSUME AnswerInductive, NEW c \in Calls, NEW result \in {"redirect", "503"}, NEW STATE event,
         NEW STATE call, Reply(c, call, result, event)
  PROVE  RequestsOK'
<1>1. Truthful(c, call, result, event)
  BY DEF Truthful, Accepted
<1> QED
  BY <1>1, ReplyAnswers

\* What the session of a request was seen to be.
LEMMA FactsOf ==
  ASSUME NEW c \in Calls, calls[c].session # None
  PROVE  /\ Valid(calls[c].session, calls[c].at) => "valid" \in Facts(c)
         /\ ~Valid(calls[c].session, calls[c].at) => "invalid" \in Facts(c)
  BY DEF Facts

\* A session that the request did not find at its own time is good for nothing
\* at this time.
LEMMA GoneStays ==
  ASSUME AnswerInductive, NEW c \in Calls, calls[c].session # None,
         ~Valid(calls[c].session, calls[c].at), UNCHANGED <<now, sessions, active, granted>>
  PROVE  GoneAfter(calls[c].session)
<1> DEFINE s == calls[c].session
           row == sessions[s]
<1>1. /\ calls[c].at <= now /\ Exists(s) /\ s \in Sessions
      /\ calls[c].at \in Int /\ now \in Int
  BY DEF AnswerInductive, AuthInductive, AuthTypeOK, CallsOK, CallOK, Call, Times
<1>2. row.idle \in Int /\ row.absolute \in Int
  BY <1>1 DEF AnswerInductive, AuthInductive, AuthTypeOK, Exists, Session, Times
<1>3. sessions'[s] = row /\ now' = now /\ active' = active /\ granted' = granted
  OBVIOUS
<1>4. \/ row.revoked # "no" \/ ~(row.idle > calls[c].at) \/ ~(row.absolute > calls[c].at)
      \/ ~Usable(row.principal)
  BY <1>1 DEF Valid, Unexpired
<1> HIDE DEF row, s
<1>5. \/ row.revoked # "no" \/ ~(row.idle > now) \/ ~(row.absolute > now) \/ ~Usable(row.principal)
  BY <1>1, <1>2, <1>4
<1> QED
  BY <1>3, <1>5 DEF GoneAfter, Usable, s

\* The session is gone: the request is turned away.
LEMMA NoSessionAnswers ==
  ASSUME AnswerInductive, NEW c \in Calls, NEW STATE call, NoSession(c, call),
         call.kind = "session",
         call.session # None => "invalid" \in Facts(c) /\ GoneAfter(call.session)
  PROVE  RequestsOK'
<1>1. PICK result \in {"anonymous", "401", "logged_out"} : Reply(c, call, result, "none")
  BY DEF NoSession, WriteError
<1>2. Truthful(c, call, result, "none")
  BY DEF Truthful, Accepted
<1> QED
  BY <1>1, <1>2, ReplyAnswers

-----------------------------------------------------------------------------
(* The actions of a request.                                               *)

LEMMA StartLoginAnswers ==
  ASSUME AnswerInductive, NEW c \in Calls, StartLogin(c) PROVE RequestsOK'
<1>1. ASSUME NEW cause \in {"INVALID_RETURN_TO", "AUTH_SERVICE_UNAVAILABLE"},
             loginFailure(c, "login", cause)
      PROVE  RequestsOK'
  BY <1>1, FailureAnswers DEF LoginCauses
<1>2. CASE Reply(c, [Idle EXCEPT !.kind = "login"], "redirect", "none")
  BY <1>2, UnavailableAnswers
<1> QED
  BY <1>1, <1>2 DEF StartLogin

LEMMA CallbackAnswers ==
  ASSUME AnswerInductive, NEW c \in Calls, NEW state \in Handed,
         NEW cookie \in {"none", "own", "other"}, NEW code \in BOOLEAN,
         Callback(c, state, cookie, code)
  PROVE  RequestsOK'
<1> DEFINE call == [Idle EXCEPT !.kind = IF code /\ state # None THEN "callback" ELSE "reject",
                                !.at = now, !.flow = state, !.cookie = cookie]
           next == [call EXCEPT !.pc = "consume"]
<1>1. CASE Become(c, next)
  <2>1. next.pc = "consume"
    BY DEF Idle
  <2> HIDE DEF next
  <2> QED
    BY <1>1, <2>1, BecomeAnswers
<1>2. CASE loginFailure(c, "reject", "AUTH_FLOW_INVALID")
  BY <1>2, FailureAnswers DEF LoginCauses
<1>3. CASE /\ state = None \/ cookie = "none"
           /\ call.kind # "reject"
           /\ Reply(c, call, writeError("AUTH_FLOW_INVALID"), "none")
  <2>1. call.session = None /\ call.cookie = cookie
        /\ call.kind = IF code /\ state # None THEN "callback" ELSE "reject"
    BY DEF Idle
  <2>2. call.kind = "callback" /\ call.cookie = "none"
    BY <1>3, <2>1
  <2> HIDE DEF call
  <2>3. Truthful(c, call, writeError("AUTH_FLOW_INVALID"), "none")
    BY <2>1, <2>2 DEF Truthful, writeError
  <2> QED
    BY <1>3, <2>3, ReplyAnswers
<1> QED
  BY <1>1, <1>2, <1>3 DEF Callback

LEMMA LoginAnswers ==
  ASSUME AnswerInductive, NEW c \in Calls,
         ConsumeAuthFlow(c) \/ Exchange(c) \/ ResolvePrincipal(c) \/ CreateSessionWithAudit(c)
  PROVE  RequestsOK'
<1>0. calls[c] \in Call
  BY DEF AnswerInductive, AuthInductive, AuthTypeOK
<1>1. ASSUME NEW cause \in LoginCauses, Fail(c, cause) PROVE RequestsOK'
  BY <1>1, FailAnswers
<1>2. ASSUME NEW pc_ \in {"exchange", "create"}, Become(c, [calls[c] EXCEPT !.pc = pc_])
      PROVE  RequestsOK'
  <2> DEFINE next == [calls[c] EXCEPT !.pc = pc_]
  <2>1. next.pc = pc_
    BY <1>0 DEF Call
  <2> HIDE DEF next
  <2> QED
    BY <1>2, <2>1, BecomeAnswers DEF next
<1>3. ASSUME NEW subject, NEW mfa,
             Become(c, [calls[c] EXCEPT !.pc = "resolve", !.principal = subject, !.mfa = mfa])
      PROVE  RequestsOK'
  <2> DEFINE next == [calls[c] EXCEPT !.pc = "resolve", !.principal = subject, !.mfa = mfa]
  <2>1. next.pc = "resolve"
    BY <1>0 DEF Call
  <2> HIDE DEF next
  <2> QED
    BY <1>3, <2>1, BecomeAnswers DEF next
<1>4. ASSUME NEW result \in {"redirect", "503"}, Done(c, result, "none") PROVE RequestsOK'
  BY <1>4, UnavailableAnswers DEF Done
<1>5. CASE ConsumeAuthFlow(c)
  BY <1>1, <1>2, <1>5 DEF ConsumeAuthFlow, LoginCauses
<1>6. CASE Exchange(c)
  BY <1>1, <1>3, <1>6 DEF Exchange, LoginCauses
<1>7. CASE ResolvePrincipal(c)
  BY <1>1, <1>2, <1>7 DEF ResolvePrincipal, LoginCauses
<1>8. CASE CreateSessionWithAudit(c)
  BY <1>4, <1>8 DEF CreateSessionWithAudit
<1> QED
  BY <1>5, <1>6, <1>7, <1>8

LEMMA RecordAuditAnswers ==
  ASSUME AnswerInductive, NEW c \in Calls, RecordAudit(c) PROVE RequestsOK'
<1> DEFINE code == calls[c].cause
<1>1. code \in LoginCauses
  BY DEF AnswerInductive, Remembers, RecordAudit
<1>2. CASE Done(c, writeError(code), failureCategory(code))
  <2>1. Truthful(c, calls[c], writeError(code), failureCategory(code))
    BY <1>1 DEF Truthful, writeError, failureCategory, LoginCauses, Accepted
  <2> QED
    BY <1>2, <2>1, ReplyAnswers DEF Done
<1>3. ASSUME NEW event, Done(c, "503", event) PROVE RequestsOK'
  BY <1>3, UnavailableAnswers DEF Done
<1> QED
  BY <1>2, <1>3 DEF RecordAudit

LEMMA ResolveSessionAnswers ==
  ASSUME AnswerInductive, NEW c \in Calls, NEW s \in HandedSessions, ResolveSession(c, s)
  PROVE  RequestsOK'
<1> DEFINE call == [Idle EXCEPT !.kind = "session", !.session = s]
           next == [call EXCEPT !.pc = "read", !.at = now]
<1>1. call.kind = "session" /\ call.session = s /\ next.pc = "read" /\ next.kind = "session"
  BY DEF Idle
<1>2. \/ Become(c, next)
      \/ s = None /\ NoSession(c, call)
      \/ Reply(c, call, writeError("CSRF_INVALID"), "none")
  BY DEF ResolveSession
<1> HIDE DEF call, next
<1>3. CASE Become(c, next)
  BY <1>1, <1>3, BecomeAnswers
<1>4. CASE s = None /\ NoSession(c, call)
  BY <1>1, <1>4, NoSessionAnswers
<1>5. CASE Reply(c, call, writeError("CSRF_INVALID"), "none")
  <2>1. Truthful(c, call, writeError("CSRF_INVALID"), "none")
    BY <1>1 DEF Truthful, writeError, Accepted
  <2> QED
    BY <1>5, <2>1, ReplyAnswers
<1> QED
  BY <1>2, <1>3, <1>4, <1>5

LEMMA GetActiveSessionAnswers ==
  ASSUME AnswerInductive, NEW c \in Calls, GetActiveSession(c) PROVE RequestsOK'
<1>1. /\ calls[c] \in Call /\ calls[c].session # None /\ calls[c].kind = "session"
      /\ calls[c].pc = "read" /\ Busy(c)
  BY DEF AnswerInductive, AuthInductive, AuthTypeOK, CallsOK, CallOK, Remembers, GetActiveSession, Busy
<1>2. ASSUME NEW STATE due, Valid(calls[c].session, calls[c].at),
             Become(c, [calls[c] EXCEPT !.pc = "permissions", !.due = due])
      PROVE  RequestsOK'
  <2> DEFINE next == [calls[c] EXCEPT !.pc = "permissions", !.due = due]
  <2>1. next.pc = "permissions" /\ next.kind = "session"
    BY <1>1 DEF Call
  <2>2. "valid" \in Facts(c)
    BY <1>1, <1>2, FactsOf
  <2> HIDE DEF next
  <2> QED
    BY <1>1, <1>2, <2>1, <2>2, BecomeAnswers DEF next
<1>3. CASE ~Valid(calls[c].session, calls[c].at) /\ NoSession(c, calls[c])
  BY <1>1, <1>3, FactsOf, GoneStays, NoSessionAnswers DEF GetActiveSession
<1>4. CASE Done(c, "503", "none")
  BY <1>4, UnavailableAnswers DEF Done
<1> QED
  BY <1>2, <1>3, <1>4 DEF GetActiveSession

\* Protect lets a request through only for the account type of its session, and
\* none of its errors says that there is no session.
LEMMA OutcomeFacts ==
  ASSUME NEW accountType \in AccountTypes, NEW permissions, NEW r \in Request
  PROVE  LET result == Outcome(Context(accountType, permissions), r)
         IN /\ result \notin {"anonymous", "401", "logged_out", "authenticated"}
            /\ result \in {"granted_mailbox", "granted_administrator"} =>
                 (result = "granted_administrator") <=> (accountType = "administrator")
<1> DEFINE context == Context(accountType, permissions)
<1>1. Protect(context, r) \in {"AUTH_FORBIDDEN", "INVALID_ARGUMENT", "CSRF_INVALID", "ok"}
  BY DEF Protect, ValidateMethod, boundJSONBody, ValidateMutationRequest, Request
<1>2. Protect(context, r) = "ok" => r.accountType = accountType
  BY DEF Protect, Context
<1>3. r.accountType \in {"mailbox", "administrator"}
  BY DEF Request, AccountTypes
<1> QED
  BY <1>1, <1>2, <1>3 DEF Outcome, WriteError, AccountTypes

LEMMA ResolvedAnswers ==
  ASSUME AnswerInductive, Kept, NEW c \in Calls, calls[c].pc \in {"permissions", "touch"},
         NEW STATE permissions, Resolved(c, permissions)
  PROVE  RequestsOK'
<1> DEFINE s == calls[c].session
           accountType == AccountType[sessions[s].principal]
<1>1. /\ calls[c] \in Call /\ s # None /\ calls[c].kind = "session" /\ Busy(c)
      /\ "valid" \in watch[c] \cup Facts(c) /\ CallOK(calls[c])
  BY DEF AnswerInductive, AuthInductive, AuthTypeOK, CallsOK, CallOK, Remembers, Busy
<1>2. s \in Sessions /\ Exists(s)
  BY <1>1 DEF CallOK, Call
<1>3. sessions'[s].principal = sessions[s].principal /\ accountType \in AccountTypes
  <2>1. sessions[s] \in Session
    BY <1>2 DEF AnswerInductive, AuthInductive, AuthTypeOK, Exists
  <2> QED
    BY <1>2, <2>1, AuthAssumption DEF Kept, SessionsKept, Session
<1>4. CASE Done(c, "authenticated", "none")
  <2>1. Truthful(c, calls[c], "authenticated", "none")
    BY <1>1 DEF Truthful
  <2> QED
    BY <1>4, <2>1, ReplyAnswers DEF Done
<1>5. ASSUME NEW r \in Request, Done(c, Outcome(Context(accountType, permissions), r), "none")
      PROVE  RequestsOK'
  <2> DEFINE result == Outcome(Context(accountType, permissions), r)
  <2>1. /\ result \notin {"anonymous", "401", "logged_out", "authenticated"}
        /\ result \in {"granted_mailbox", "granted_administrator"} =>
             (result = "granted_administrator") <=> (accountType = "administrator")
    BY <1>3, OutcomeFacts
  <2>2. Done(c, result, "none")
    BY <1>5
  <2> HIDE DEF result
  <2>3. Truthful(c, calls[c], result, "none")
    BY <1>1, <1>3, <2>1 DEF Truthful
  <2> QED
    BY <2>2, <2>3, ReplyAnswers DEF Done
<1>6. CASE Done(c, writeError("CSRF_INVALID"), "none")
  <2>1. Truthful(c, calls[c], writeError("CSRF_INVALID"), "none")
    BY <1>1 DEF Truthful, writeError, Accepted
  <2> QED
    BY <1>6, <2>1, ReplyAnswers DEF Done
<1>7. CASE Become(c, [calls[c] EXCEPT !.pc = "revoke", !.permissions = {}, !.due = FALSE])
  <2> DEFINE next == [calls[c] EXCEPT !.pc = "revoke", !.permissions = {}, !.due = FALSE]
  <2>1. next.pc = "revoke" /\ next.kind = "session"
    BY <1>1 DEF Call
  <2> HIDE DEF next
  <2> QED
    BY <1>1, <1>7, <2>1, BecomeAnswers DEF next
<1> QED
  BY <1>4, <1>5, <1>6, <1>7 DEF Resolved

LEMMA ListPermissionsAnswers ==
  ASSUME AnswerInductive, Kept, NEW c \in Calls, ListPrincipalPermissions(c) PROVE RequestsOK'
<1> DEFINE permissions == PermissionsOf(sessions[calls[c].session].principal)
           next == [calls[c] EXCEPT !.pc = "touch", !.due = FALSE, !.permissions = permissions]
<1>1. /\ calls[c] \in Call /\ calls[c].kind = "session" /\ Busy(c) /\ calls[c].pc = "permissions"
      /\ "valid" \in watch[c] \cup Facts(c)
  BY DEF AnswerInductive, AuthInductive, AuthTypeOK, Remembers, ListPrincipalPermissions, Busy
<1>2. next.pc = "touch" /\ next.kind = "session"
  BY <1>1 DEF Call
<1>3. Become(c, next) \/ Resolved(c, permissions) \/ Done(c, "503", "none")
  BY DEF ListPrincipalPermissions
<1> HIDE DEF next, permissions
<1>4. CASE Become(c, next)
  BY <1>1, <1>2, <1>4, BecomeAnswers
<1>5. CASE Resolved(c, permissions)
  BY <1>1, <1>5, ResolvedAnswers DEF permissions
<1>6. CASE Done(c, "503", "none")
  BY <1>6, UnavailableAnswers DEF Done
<1> QED
  BY <1>3, <1>4, <1>5, <1>6

LEMMA TouchAnswers ==
  ASSUME AnswerInductive, Kept, NEW c \in Calls, TouchActiveSession(c) PROVE RequestsOK'
<1>1. /\ calls[c].kind = "session" /\ calls[c].pc = "touch" /\ calls[c].session # None
  BY DEF AnswerInductive, AuthInductive, CallsOK, CallOK, Remembers, TouchActiveSession
<1>2. CASE Resolved(c, calls[c].permissions)
  BY <1>1, <1>2, ResolvedAnswers
<1>3. CASE ~Unexpired(calls[c].session, calls[c].at) /\ NoSession(c, calls[c]) /\ UNCHANGED sessions
  <2>1. ~Valid(calls[c].session, calls[c].at) /\ UNCHANGED <<now, sessions, active, granted>>
    BY <1>3 DEF Valid, TouchActiveSession
  <2> QED
    BY <1>1, <1>3, <2>1, FactsOf, GoneStays, NoSessionAnswers
<1>4. CASE Done(c, "503", "none")
  BY <1>4, UnavailableAnswers DEF Done
<1> QED
  BY <1>2, <1>3, <1>4 DEF TouchActiveSession

\* A session that exists is revoked by Revoke, or already was.
LEMMA RevokeFacts ==
  ASSUME AuthTypeOK, NEW STATE group, NEW reason \in {"logout", "backchannel"},
         sessions' = Revoke(group, reason), NEW s \in Sessions
  PROVE  /\ Exists(s)' <=> Exists(s)
         /\ ~Exists(s) => sessions'[s] = sessions[s]
         /\ s \in group /\ Exists(s) => sessions'[s].revoked # "no"
         /\ Exists(s) => \/ sessions'[s].revoked = sessions[s].revoked
                         \/ s \in group /\ sessions'[s].revoked = reason
<1>1. sessions[s] \in Session \cup {None}
  BY DEF AuthTypeOK
<1>2. CASE s \in group /\ Exists(s) /\ sessions[s].revoked = "no"
  <2>1. sessions'[s] = [sessions[s] EXCEPT !.revoked = reason] /\ sessions[s] \in Session
    BY <1>1, <1>2 DEF Revoke, Exists
  <2>2. sessions'[s] \in Session /\ sessions'[s].revoked = reason
    BY <2>1 DEF Session
  <2> QED
    BY <1>2, <2>2, NoneAssumption DEF Exists
<1>3. CASE ~(s \in group /\ Exists(s) /\ sessions[s].revoked = "no")
  <2>1. sessions'[s] = sessions[s]
    BY <1>3 DEF Revoke
  <2>2. Exists(s)' <=> Exists(s)
    BY <2>1 DEF Exists
  <2>3. s \in group /\ Exists(s) => sessions'[s].revoked # "no"
    BY <1>3, <2>1
  <2> QED
    BY <2>1, <2>2, <2>3
<1> QED
  BY <1>2, <1>3

LEMMA RevokeAnswers ==
  ASSUME AnswerInductive, NEW c \in Calls, RevokeSessionWithAudit(c) PROVE RequestsOK'
<1> DEFINE s == calls[c].session
<1>1. /\ calls[c].kind = "session" /\ s \in Sessions /\ Exists(s) /\ AuthTypeOK
  BY DEF AnswerInductive, AuthInductive, AuthTypeOK, CallsOK, CallOK, Call, Remembers,
     RevokeSessionWithAudit
<1>2. CASE sessions' = Revoke({s}, "logout") /\ Done(c, "logged_out", "none")
  <2>1. sessions'[s].revoked # "no"
    BY <1>1, <1>2, RevokeFacts
  <2>2. Truthful(c, calls[c], "logged_out", "none")
    BY <1>1, <2>1 DEF Truthful, Accepted, GoneAfter
  <2> QED
    BY <1>2, <2>2, ReplyAnswers DEF Done
<1>3. CASE Done(c, "503", "none")
  BY <1>3, UnavailableAnswers DEF Done
<1> QED
  BY <1>2, <1>3 DEF RevokeSessionWithAudit

LEMMA AbandonAnswers ==
  ASSUME AnswerInductive, NEW c \in Calls, Abandon(c) PROVE RequestsOK'
<1>1. Idle.pc = "idle" /\ Become(c, Idle)
  BY DEF Idle, Abandon
<1> QED
  BY <1>1, BecomeAnswers

LEMMA WorldAnswers ==
  ASSUME AnswerInductive, World PROVE RequestsOK'
<1>1. CASE NoRequest
  <2>1. answer' = None /\ Watch /\ calls' = calls
    BY <1>1 DEF NoRequest
  <2> QED
    BY <2>1, NoAnswer, OtherRemembers DEF RequestsOK
<1>2. CASE UNCHANGED authVars
  BY <1>2 DEF authVars, RequestsOK, AnswersOK, AnswersWereTrue, LogoutIsFinal, LoggedOut, Valid,
     Exists, Unexpired, Usable, RefusalsOnRecord, AnswerInductive, Remembers
<1> QED
  BY <1>1, <1>2 DEF World, SetStatus, SetPermission, RevokeByOIDCSubject, RevokeByOIDCSessionID, Tick

\* Every step keeps what requests and answers say.
LEMMA AnswersStep == AnswerInductive /\ [AuthNext]_authVars => RequestsOK'
<1> SUFFICES ASSUME AnswerInductive, [AuthNext]_authVars PROVE RequestsOK'
  OBVIOUS
<1>1. ASSUME NEW c \in Calls, Serve(c) PROVE RequestsOK'
  <2>1. Kept
    BY <1>1, ServeKeeps DEF AnswerInductive
  <2>2. ASSUME NEW state \in Handed, NEW cookie \in {"none", "own", "other"},
               NEW code \in BOOLEAN, Callback(c, state, cookie, code)
        PROVE  RequestsOK'
    BY <2>2, CallbackAnswers
  <2>3. ASSUME NEW s \in HandedSessions, ResolveSession(c, s) PROVE RequestsOK'
    BY <2>3, ResolveSessionAnswers
  <2> QED
    BY <1>1, <2>1, <2>2, <2>3, StartLoginAnswers, LoginAnswers, RecordAuditAnswers,
       GetActiveSessionAnswers, ListPermissionsAnswers, TouchAnswers, RevokeAnswers, AbandonAnswers
    DEF Serve
<1> QED
  BY <1>1, WorldAnswers, StepCases

\* The rows of the audit trail go with those of the sessions.
LEMMA RecordUnchanged ==
  ASSUME NEW s \in Sessions, OnRecord(s), UNCHANGED <<sessions, audit>> PROVE OnRecord(s)'
  BY DEF OnRecord, Exists

LEMMA StoreRecord ==
  ASSUME AnswerInductive, NEW c \in Calls, NEW handed \in BOOLEAN, NEW t \in Sessions, ~Exists(t),
         StoreSession(t, NewSession(calls[c], handed)), calls[c].pc = "create", NEW s \in Sessions
  PROVE  OnRecord(s)'
<1> DEFINE row == NewSession(calls[c], handed)
<1>1. sessions \in [Sessions -> Session \cup {None}] /\ OnRecord(s)
  BY DEF AnswerInductive, AuthInductive, AuthTypeOK
<1>2. row # None /\ row.revoked = "no"
  BY NewSessionTyped DEF AnswerInductive
<1> HIDE DEF row
<1>3. /\ sessions' = [sessions EXCEPT ![t] = row]
      /\ audit' = audit \cup {<<"login", t>>}
  BY DEF StoreSession, row
<1>4. <<"logout", s>> \in audit' <=> <<"logout", s>> \in audit
  BY <1>3
<1>5. CASE s = t
  <2>1. sessions'[s] = row /\ <<"login", s>> \in audit' /\ <<"logout", s>> \notin audit
    BY <1>1, <1>3, <1>5 DEF OnRecord
  <2> QED
    BY <1>2, <1>4, <2>1 DEF OnRecord, Exists
<1>6. CASE s # t
  <2>1. sessions'[s] = sessions[s] /\ (<<"login", s>> \in audit' <=> <<"login", s>> \in audit)
    BY <1>1, <1>3, <1>6
  <2> QED
    BY <1>1, <1>4, <2>1 DEF OnRecord, Exists
<1> QED
  BY <1>5, <1>6

LEMMA TouchRecord ==
  ASSUME AnswerInductive, NEW t \in Sessions, Exists(t), NEW at \in 0 .. MaxTime,
         sessions' = Touched(t, at), UNCHANGED audit, NEW s \in Sessions
  PROVE  OnRecord(s)'
<1>1. /\ AuthTypeOK /\ OnRecord(s)
      /\ sessions \in [Sessions -> Session \cup {None}] /\ sessions[t] \in Session
  BY DEF AnswerInductive, AuthInductive, AuthTypeOK, Exists
<1>2. SessionsKept /\ NoneAdded
  BY <1>1, TouchKeepsSessions
<1>3. Exists(s)' <=> Exists(s)
  BY <1>2 DEF SessionsKept, NoneAdded, Exists
<1>4. Exists(s) => sessions'[s].revoked = sessions[s].revoked
  BY <1>1 DEF Touched, Exists, Session
<1> QED
  BY <1>1, <1>3, <1>4 DEF OnRecord

LEMMA LogoutRecord ==
  ASSUME AnswerInductive, NEW t \in Sessions, Exists(t), sessions' = Revoke({t}, "logout"),
         audit' = audit \cup {<<"logout", t>>}, NEW s \in Sessions
  PROVE  OnRecord(s)'
<1>1. AuthTypeOK /\ OnRecord(s)
  BY DEF AnswerInductive, AuthInductive
<1> DEFINE group == {t}
<1>0. (s \in group <=> s = t) /\ sessions' = Revoke(group, "logout")
  OBVIOUS
<1> HIDE DEF group
<1>2. /\ Exists(s)' <=> Exists(s)
      /\ s = t => sessions'[s].revoked # "no"
      /\ Exists(s) => \/ sessions'[s].revoked = sessions[s].revoked
                      \/ s = t /\ sessions'[s].revoked = "logout"
  BY <1>0, <1>1, RevokeFacts
<1>3. /\ <<"login", s>> \in audit' <=> <<"login", s>> \in audit
      /\ <<"logout", s>> \in audit' <=> s = t \/ <<"logout", s>> \in audit
  OBVIOUS
<1> QED
  BY <1>1, <1>2, <1>3 DEF OnRecord

LEMMA BackchannelRecord ==
  ASSUME AnswerInductive, NEW group \in SUBSET Sessions, sessions' = Revoke(group, "backchannel"),
         UNCHANGED audit, NEW s \in Sessions
  PROVE  OnRecord(s)'
<1>1. AuthTypeOK /\ OnRecord(s)
  BY DEF AnswerInductive, AuthInductive
<1>2. SessionsKept
  BY <1>1, RevokeKeepsSessions
<1>3. /\ Exists(s)' <=> Exists(s)
      /\ Exists(s) => sessions'[s].revoked \in {sessions[s].revoked, "backchannel"}
      /\ Exists(s) /\ sessions[s].revoked # "no" => sessions'[s].revoked = sessions[s].revoked
  BY <1>1, <1>2, RevokeFacts DEF SessionsKept
<1> QED
  BY <1>1, <1>3 DEF OnRecord

\* Every step keeps sessions and audit trail in agreement.
LEMMA RecordStep ==
  ASSUME AnswerInductive, [AuthNext]_authVars, NEW s \in Sessions PROVE OnRecord(s)'
<1>0. AuthInductive /\ OnRecord(s)
  BY DEF AnswerInductive
<1>1. CASE UNCHANGED <<sessions, audit>>
  BY <1>0, <1>1, RecordUnchanged
<1>2. ASSUME NEW c \in Calls, CreateSessionWithAudit(c) PROVE OnRecord(s)'
  <2>1. calls[c].pc = "create"
    BY <1>2 DEF CreateSessionWithAudit
  <2>2. \/ UNCHANGED <<sessions, audit>>
        \/ \E t \in Sessions, handed \in BOOLEAN :
             ~Exists(t) /\ StoreSession(t, NewSession(calls[c], handed))
    BY <1>2 DEF CreateSessionWithAudit
  <2> QED
    BY <1>1, <2>1, <2>2, StoreRecord
<1>3. ASSUME NEW c \in Calls, TouchActiveSession(c) PROVE OnRecord(s)'
  <2>1. calls[c].session \in Sessions /\ Exists(calls[c].session) /\ calls[c].at \in 0 .. MaxTime
    BY <1>0, <1>3, AuthAssumption
    DEF AuthInductive, AuthTypeOK, CallsOK, CallOK, TouchActiveSession, Call, Times
  <2>2. UNCHANGED audit /\ (sessions' = sessions \/ sessions' = Touched(calls[c].session, calls[c].at))
    BY <1>3 DEF TouchActiveSession
  <2> QED
    BY <1>1, <2>1, <2>2, TouchRecord
<1>4. ASSUME NEW c \in Calls, RevokeSessionWithAudit(c) PROVE OnRecord(s)'
  <2>1. calls[c].session \in Sessions /\ Exists(calls[c].session)
    BY <1>0, <1>4 DEF AuthInductive, AuthTypeOK, CallsOK, CallOK, RevokeSessionWithAudit, Call
  <2>2. \/ UNCHANGED <<sessions, audit>>
        \/ /\ sessions' = Revoke({calls[c].session}, "logout")
           /\ audit' = audit \cup {<<"logout", calls[c].session>>}
    BY <1>4 DEF RevokeSessionWithAudit
  <2> QED
    BY <1>1, <2>1, <2>2, LogoutRecord
<1>5. CASE World
  <2>1. UNCHANGED audit
    BY <1>5 DEF World, SetStatus, SetPermission, RevokeByOIDCSubject, RevokeByOIDCSessionID, Tick,
       authVars
  <2>2. UNCHANGED sessions \/ \E group \in SUBSET Sessions : sessions' = Revoke(group, "backchannel")
    BY <1>5 DEF World, SetStatus, SetPermission, RevokeByOIDCSubject, RevokeByOIDCSessionID, Tick,
       authVars, OfPrincipal
  <2> QED
    BY <1>1, <2>1, <2>2, BackchannelRecord
<1>6. ASSUME NEW c \in Calls, Serve(c) PROVE OnRecord(s)'
  <2>1. \/ UNCHANGED <<sessions, audit>> \/ CreateSessionWithAudit(c)
        \/ TouchActiveSession(c) \/ RevokeSessionWithAudit(c)
    BY <1>6 DEF Serve, StartLogin, Callback, ConsumeAuthFlow, Exchange, ResolvePrincipal, RecordAudit,
       ResolveSession, GetActiveSession, ListPrincipalPermissions, Abandon
  <2> QED
    BY <1>1, <1>2, <1>3, <1>4, <2>1
<1> QED
  BY <1>5, <1>6, StepCases

LEMMA AnswerInit == AuthInit => AnswerInductive
<1> SUFFICES ASSUME AuthInit PROVE AnswerInductive
  OBVIOUS
<1>1. AuthInductive
  BY InductiveInit
<1>2. \A c \in Calls : Remembers(c)
  BY DEF AuthInit, Remembers, Idle
<1>3. \A s \in Sessions : OnRecord(s)
  BY DEF AuthInit, OnRecord, Exists
<1>4. AnswersWereTrue /\ LogoutIsFinal /\ RefusalsOnRecord
  BY DEF AuthInit, AnswersWereTrue, LogoutIsFinal, LoggedOut, RefusalsOnRecord
<1> QED
  BY <1>1, <1>2, <1>3, <1>4 DEF AnswerInductive

LEMMA AnswerStep == AnswerInductive /\ [AuthNext]_authVars => AnswerInductive'
<1> SUFFICES ASSUME AnswerInductive, [AuthNext]_authVars PROVE AnswerInductive'
  OBVIOUS
<1>1. AuthInductive'
  BY InductiveStep DEF AnswerInductive
<1>2. RequestsOK'
  BY AnswersStep
<1>3. ASSUME NEW s \in Sessions PROVE OnRecord(s)'
  BY RecordStep
<1> QED
  BY <1>1, <1>2, <1>3 DEF AnswerInductive, RequestsOK, AnswersOK

\* The inductive invariant of the answers: a request past GetActiveSession has
\* seen its session valid, and sessions and audit events agree row by row.
THEOREM AnswerInductiveHolds == AuthSpec => []AnswerInductive
<1> QED
  BY AnswerInit, AnswerStep, PTL DEF AuthSpec

\* ResolveSession answers as one statement would have at some moment while the
\* request ran, whatever was revoked, suspended or touched between its queries,
\* for any number of requests, sessions and principals.
THEOREM AnswersTrue == AuthSpec => []AnswersWereTrue
<1>1. AnswerInductive => AnswersWereTrue
  BY DEF AnswerInductive
<1> QED
  BY <1>1, AnswerInductiveHolds, PTL

\* When the handler confirms a logout, the session is accepted nowhere at that
\* moment, for any interleaving with touches, suspensions and back-channel
\* logouts.  (That it is revoked or has expired, as LogoutRevokes says, does not
\* hold.)
THEOREM LogoutFinal == AuthSpec => []LogoutIsFinal
<1>1. AnswerInductive => LogoutIsFinal
  BY DEF AnswerInductive
<1> QED
  BY <1>1, AnswerInductiveHolds, PTL

\* Sessions and their audit events, written in one transaction each, always
\* agree, and every reasoned refusal of a login is on record first.
THEOREM AuditComplete == AuthSpec => []AuditTrail
<1>1. AnswerInductive => AuditTrail
  BY DEF AnswerInductive, AuditTrail, OnRecord, RefusalsOnRecord
<1> QED
  BY <1>1, AnswerInductiveHolds, PTL
=============================================================================
