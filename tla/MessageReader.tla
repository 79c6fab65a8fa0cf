---------------------------- MODULE MessageReader ----------------------------
(***************************************************************************)
(* Reading mail: ListMessages and GetMessage of the Stalwart adapter.  A   *)
(* read is a sequence of HTTP requests, one per action, and the account,   *)
(* its owner and its mail change between them.  The reader keeps nothing   *)
(* itself: what one page knows of the page before is in the sealed cursor  *)
(* that the client brings back, and a message is named by a sealed         *)
(* reference.  Reads do not meet, so one at a time is enough.              *)
(*                                                                         *)
(* There is one address.  Its account belongs to a mailbox at a revision;  *)
(* credentials are derived from both, so the server accepts a request only *)
(* for the scope that the account has at that moment.  JMAP ids are names  *)
(* within one account and recur in another.  The server is external.       *)
(***************************************************************************)
EXTENDS Integers, Sequences, SequencesExt

CONSTANTS
  Mailboxes, Ids,
  None,
  MaxRevision,          \* bound of revisions
  MaxTime,              \* bound of the clock
  MaxChanges,           \* bound: changes of the account and of its mail
  maximumPageSize, maximumPagePosition, maximumTextBytes,
  cursorLifetime, referenceLifetime

ASSUME ReaderAssumption ==
  /\ {MaxRevision, maximumPageSize, maximumPagePosition, maximumTextBytes,
      cursorLifetime, referenceLifetime} \subseteq Nat \ {0}
  /\ {MaxTime, MaxChanges} \subseteq Nat
  /\ None \notin Ids \cup Mailboxes

VARIABLES
  now,        \* the adapter's clock
  account,    \* the scope of the account at the address, or None
  past,       \* of each mailbox, what it held at each query state, newest mail first
  changes,    \* changes so far
  token,      \* the cursor or reference that the client has kept, or None
  call,       \* the read in progress
  answer      \* the answer that this step has given, if any

readVars == <<now, account, past, changes, token, call, answer>>

-----------------------------------------------------------------------------
(* State.                                                                  *)

Scope == [mailbox : Mailboxes, revision : 1 .. MaxRevision]

ASSUME NoScopeAssumption == None \notin Scope

\* A query state is the number of contents that the mailbox has had.
QueryState(mailbox) == Len(past[mailbox])

Mail(mailbox) == Last(past[mailbox])

\* trail is history: the messages of the pages before the one at position.
ReadToken(purpose, scope, expires, message, state, position, trail) ==
  [purpose |-> purpose, scope |-> scope, expires |-> expires, message |-> message,
   state |-> state, position |-> position, trail |-> trail]

\* named is history: the scope that the reference was issued for.
NoCall == [pc |-> "idle", kind |-> "none", scope |-> None, limit |-> 0, position |-> 0,
           previous |-> 0, trail |-> <<>>, message |-> None, named |-> None, ids |-> <<>>, more |-> FALSE,
           state |-> 0]

\* items are the messages shown, each with the mailbox that it was read from.
NoAnswer == [result |-> "none", scope |-> None, items |-> <<>>, trail |-> <<>>, state |-> 0,
             last |-> FALSE, named |-> None]

ReadInit ==
  /\ now = 0
  /\ account \in [mailbox : Mailboxes, revision : {1}]
  /\ past \in [Mailboxes -> {<<s>> : s \in {t \in SeqOf(Ids, maximumPagePosition + 1) : IsInjective(t)}}]
  /\ changes = 0
  /\ token = None
  /\ call = NoCall
  /\ answer = NoAnswer

Answer(a) ==
  /\ answer' = a
  /\ call' = NoCall

\* An answer without mail: the code of an error.
Refuse(result) ==
  /\ Answer([NoAnswer EXCEPT !.result = result])
  /\ UNCHANGED <<now, account, past, changes, token>>

Proceed(c) ==
  /\ call' = c
  /\ answer' = NoAnswer
  /\ UNCHANGED <<now, account, past, changes, token>>

-----------------------------------------------------------------------------
(* Tokens.                                                                 *)

openReadTokenAnywhere(t, scope, purpose) ==
  t.purpose = purpose /\ now < t.expires

\* The token is one of ours, for this purpose and scope, and has not expired.
openReadToken(t, scope, purpose) ==
  /\ t.purpose = purpose
  /\ t.scope = scope
  /\ now < t.expires

tokenError(purpose) == IF purpose = "cursor" THEN "CURSOR_INVALID" ELSE "REFERENCE_INVALID"

-----------------------------------------------------------------------------
(* The reads.                                                              *)

\* ListMessages as far as the first request: a page of the given size, the first
\* one or the one at the token t.
ListMessages(scope, limit, t) ==
  LET position == IF t = None THEN 0 ELSE t.position
      allowed  == /\ t # None => /\ openReadToken(t, scope, "cursor")
                                 /\ t.position \in 1 .. maximumPagePosition
                                 /\ t.state # 0
                  /\ position + limit <= maximumPagePosition
  IN /\ call.pc = "idle"
     /\ \/ /\ allowed
           /\ Proceed([NoCall EXCEPT !.pc = "mapping", !.kind = "list", !.scope = scope,
                                     !.limit = limit, !.position = position,
                                     !.previous = IF t = None THEN 0 ELSE t.state,
                                     !.trail = IF t = None THEN <<>> ELSE t.trail])
        \/ ~allowed /\ Refuse(tokenError("cursor"))

\* GetMessage as far as the first request.
GetMessage(scope, t) ==
  LET opens == openReadToken(t, scope, "message") /\ t.message # None
  IN /\ call.pc = "idle"
     /\ \/ /\ opens
           /\ Proceed([NoCall EXCEPT !.pc = "mapping", !.kind = "message", !.scope = scope,
                                     !.message = t.message, !.named = t.scope])
        \/ ~opens /\ Refuse(tokenError("message"))

\* A request times out or fails, which is all UNAVAILABLE here, or its answer is
\* malformed.
requestFails ==
  /\ call.pc # "idle"
  /\ \E result \in {"UNAVAILABLE", "PROTOCOL_INVALID"} : Refuse(result)

\* openMailboxSession, as the administrator: domain and account are looked up and
\* the owner that the account's description names is compared.
checkMapping ==
  /\ call.pc = "mapping"
  /\ \/ account = call.scope /\ Proceed([call EXCEPT !.pc = "session"])
     \/ account = None /\ Refuse("MAILBOX_NOT_FOUND")
     \/ account \notin {None, call.scope} /\ Refuse("RESOURCE_CONFLICT")

\* A request with the credentials of the scope is let in.
Authenticated == account = call.scope

denied ==
  /\ call.pc \in {"session", "query", "get"}
  /\ ~Authenticated
  /\ Refuse("AUTHENTICATION_FAILED")

\* openMailboxSession, as the mailbox.
openMailboxSession ==
  /\ call.pc = "session"
  /\ Authenticated
  /\ Proceed([call EXCEPT !.pc = IF call.kind = "list" THEN "query" ELSE "get"])

\* The client gets a page: it keeps the token it has, or one that the page brings.
Page(items) ==
  LET scope == call.scope
      trail == call.trail \o items
      next  == ReadToken("cursor", scope, now + cursorLifetime, None, call.state,
                         call.position + Len(items), trail)
  IN /\ Answer([NoAnswer EXCEPT !.result = "page", !.scope = scope,
                  !.items = [i \in DOMAIN items |-> <<account.mailbox, items[i]>>],
                  !.trail = trail, !.state = call.state, !.last = ~call.more])
     /\ token' \in {token}
          \cup (IF call.more THEN {next} ELSE {})
          \cup {ReadToken("message", scope, now + referenceLifetime, m, 0, 0, <<>>) : m \in ToSet(items)}
     /\ UNCHANGED <<now, account, past, changes>>

QueryAnyState(state) == TRUE

\* The cursor's page belongs to the query that the pages before belong to.
SameQuery(state) == call.previous # 0 => call.previous = state

\* Email/query for one message more than the page has.
emailQuery ==
  LET mail  == Mail(account.mailbox)
      state == QueryState(account.mailbox)
      upto  == IF Len(mail) < call.position + call.limit + 1
               THEN Len(mail) ELSE call.position + call.limit + 1
      found == SubSeq(mail, call.position + 1, upto)
      more  == Len(found) > call.limit
      ids   == IF more THEN SubSeq(found, 1, call.limit) ELSE found
      next  == [call EXCEPT !.pc = "get", !.ids = ids, !.more = more, !.state = state]
  IN /\ call.pc = "query"
     /\ Authenticated
     /\ \/ ~SameQuery(state) /\ Refuse(tokenError("cursor"))
        \/ /\ SameQuery(state) /\ ids # <<>>
           /\ Proceed(next)
        \/ /\ SameQuery(state) /\ ids = <<>>
           /\ Answer([NoAnswer EXCEPT !.result = "page", !.scope = call.scope,
                        !.trail = call.trail, !.state = state, !.last = TRUE])
           /\ UNCHANGED <<now, account, past, changes, token>>

\* getEmails for a page: a page of one may be missing its message, a larger one not.
getPage ==
  LET missing == ToSet(call.ids) \ ToSet(Mail(account.mailbox))
  IN /\ call.pc = "get" /\ call.kind = "list"
     /\ Authenticated
     /\ \/ missing = {} /\ Page(call.ids)
        \/ missing # {} /\ Refuse(IF Len(call.ids) = 1 THEN tokenError("cursor") ELSE "PROTOCOL_INVALID")

\* getEmails for one message, with its attachments' references.
getDetail ==
  /\ call.pc = "get" /\ call.kind = "message"
  /\ Authenticated
  /\ IF call.message \notin ToSet(Mail(account.mailbox)) THEN Refuse("MESSAGE_NOT_FOUND")
     ELSE /\ Answer([NoAnswer EXCEPT !.result = "message", !.scope = call.scope, !.named = call.named,
                       !.items = <<<<account.mailbox, call.message>>>>])
          /\ token' \in {token, ReadToken("attachment", call.scope, now + referenceLifetime,
                                         call.message, 0, 0, <<>>)}
          /\ UNCHANGED <<now, account, past, changes>>

\* The text of a message from its text parts, each with its size and whether the
\* server has cut it; only sizes are kept, of a part cut in a character the most it
\* can have.
appendPart(text, part) ==
  LET joined    == IF text.size > 0 THEN text.size + 1 ELSE 0
      remaining == maximumTextBytes - joined
  IN CASE text.done -> text
       [] ~text.done /\ remaining <= 0 -> [size |-> joined, truncated |-> TRUE, done |-> TRUE]
       [] ~text.done /\ remaining > 0 /\ part.size > remaining ->
            [size |-> maximumTextBytes, truncated |-> TRUE, done |-> TRUE]
       [] OTHER -> [size |-> joined + part.size, truncated |-> text.truncated \/ part.cut, done |-> FALSE]

textOf(parts) ==
  LET text[n \in 0 .. Len(parts)] ==
        IF n = 0 THEN [size |-> 0, truncated |-> FALSE, done |-> FALSE]
        ELSE appendPart(text[n - 1], parts[n])
  IN  text[Len(parts)]

-----------------------------------------------------------------------------
(* The world around.                                                       *)

\* A message arrives, with any received time, or is deleted.
ChangeMail ==
  LET mailbox == account.mailbox
      mail    == Mail(mailbox)
  IN /\ changes < MaxChanges
     /\ account # None
     /\ \/ \E i \in 1 .. Len(mail) + 1, m \in Ids \ ToSet(mail) :
             past' = [past EXCEPT ![mailbox] = Append(@, InsertAt(mail, i, m))]
        \/ \E i \in DOMAIN mail :
             past' = [past EXCEPT ![mailbox] = Append(@, RemoveAt(mail, i))]
     /\ changes' = changes + 1
     /\ answer' = NoAnswer
     /\ UNCHANGED <<now, account, token, call>>

\* The account moves to the next revision, is deleted, or set up for a mailbox.
ChangeAccount(scope) ==
  /\ changes < MaxChanges
  /\ account # scope
  /\ account # None /\ scope # None =>
       account.mailbox = scope.mailbox /\ scope.revision = account.revision + 1
  /\ account' = scope
  /\ changes' = changes + 1
  /\ answer' = NoAnswer
  /\ UNCHANGED <<now, past, token, call>>

Tick ==
  /\ now < MaxTime
  /\ now' = now + 1
  /\ answer' = NoAnswer
  /\ UNCHANGED <<account, past, changes, token, call>>

ReadNext ==
  \/ \E scope \in Scope :
       \/ \E limit \in 1 .. maximumPageSize, t \in {None, token} : ListMessages(scope, limit, t)
       \/ token # None /\ GetMessage(scope, token)
       \/ ChangeAccount(scope)
  \/ ChangeAccount(None)
  \/ checkMapping \/ openMailboxSession \/ emailQuery \/ getPage \/ getDetail
  \/ denied \/ requestFails
  \/ ChangeMail \/ Tick

ReadSpec == ReadInit /\ [][ReadNext]_readVars

-----------------------------------------------------------------------------
(* Properties.                                                             *)

\* Pages that cursors chain are consecutive pieces of one and the same result:
\* together they are the beginning of what the mailbox held at the query state
\* they carry, in its order, with nothing missing and nothing twice, whatever
\* arrives or is deleted between and within the reads; and a page without a
\* cursor is the end of that result, also at maximumPagePosition.
PagesAreOneResult ==
  answer.result = "page" =>
    LET held == past[answer.scope.mailbox][answer.state]
    IN /\ IsPrefix(answer.trail, held)
       /\ answer.last => answer.trail = held
       /\ \A i \in DOMAIN answer.items :
            answer.items[i][2] = answer.trail[Len(answer.trail) - Len(answer.items) + i]

\* The size of all text parts put together.
Whole(parts) ==
  LET size[n \in 0 .. Len(parts)] ==
        IF n = 0 THEN 0
        ELSE IF size[n - 1] > 0 THEN size[n - 1] + 1 + parts[n].size ELSE parts[n].size
  IN  size[Len(parts)]

\* What MessageDetail documents: the text is bounded by the limit, and truncated
\* means that the body was larger, or that the server has cut a part of it.  The
\* code does not keep this: see TextNotAsDocumented in MessageReaderProofs.
TextAsDocumented(parts) ==
  LET text == textOf(parts)
  IN /\ text.size <= maximumTextBytes
     /\ text.truncated => \/ Whole(parts) > maximumTextBytes
                          \/ \E i \in DOMAIN parts : parts[i].cut

\* What GetMessage keeps: the text exceeds its limit by no more than the line break
\* before a part that no longer fits; when something is left out it is marked, and
\* it is marked only when the body reaches the limit, or the server has cut it.
TextWithinOneByte(parts) ==
  LET text == textOf(parts)
  IN /\ text.size <= maximumTextBytes + 1
     /\ Whole(parts) > maximumTextBytes => text.truncated
     /\ text.truncated => \/ Whole(parts) >= maximumTextBytes
                          \/ \E i \in DOMAIN parts : parts[i].cut

\* Mail is read from the mailbox that the request is authorised for, even when
\* the account at the address changes hands between the check and the read; and a
\* reference opens the message it was issued for, never one of another mailbox or
\* revision that has the same id.
MailIsTheirs ==
  /\ \A i \in DOMAIN answer.items : answer.items[i][1] = answer.scope.mailbox
  /\ answer.result = "message" => answer.named = answer.scope
=============================================================================
