---------------------------- MODULE Authorization ----------------------------
(***************************************************************************)
(* The decision that Boundary.Protect takes before a business handler      *)
(* runs, from the session it has resolved and the shape of the request.    *)
(* Headers, bodies and media types are reduced to whether they pass.       *)
(***************************************************************************)

AccountTypes == {"mailbox", "administrator"}

PortalAdminAccess == "portal.admin.access"

\* A request at the boundary: what its route requires of it, its method, and
\* whether its declared length is allowed, its origin trusted, its CSRF token the
\* session's, its content type and idempotency key acceptable, and its body,
\* once read, within the limit.
Request == [accountType : AccountTypes, method : {"read", "write", "other"},
            declared : BOOLEAN, trusted : BOOLEAN, csrf : BOOLEAN, formed : BOOLEAN,
            bounded : BOOLEAN]

\* NewContext: what Protect keeps of a session.
Context(accountType, permissions) ==
  [accountType |-> accountType, permissions |-> permissions]

RequireAdministrator(context) ==
  /\ context.accountType = "administrator"
  /\ PortalAdminAccess \in context.permissions

\* "ok" or the code of the first check that a writing request fails.
ValidateMutationRequest(request) ==
  IF ~request.declared THEN "INVALID_ARGUMENT"
  ELSE IF ~(request.trusted /\ request.csrf) THEN "CSRF_INVALID"
  ELSE IF ~request.formed THEN "INVALID_ARGUMENT" ELSE "ok"

\* The body is read last, and only of a request that may write.
boundJSONBody(request) ==
  LET code == ValidateMutationRequest(request)
  IN IF code = "ok" /\ ~request.bounded THEN "INVALID_ARGUMENT" ELSE code

\* A reading request has no body; "ok" or the code of the first check that fails.
ValidateMethod(request) ==
  CASE request.method = "read"  -> IF request.declared THEN "ok" ELSE "INVALID_ARGUMENT"
    [] request.method = "write" -> boundJSONBody(request)
    [] request.method = "other" -> "INVALID_ARGUMENT"

Protect(context, request) ==
  IF \/ request.accountType # context.accountType
     \/ request.accountType = "administrator" /\ ~RequireAdministrator(context)
  THEN "AUTH_FORBIDDEN"
  ELSE ValidateMethod(request)

\* The status of the answer, for the errors that Protect meets.
WriteError(code) ==
  CASE code = "AUTH_REQUIRED" -> "401"
    [] code \in {"AUTH_FORBIDDEN", "CSRF_INVALID"} -> "403"
    [] code = "INVALID_ARGUMENT" -> "400"
    [] OTHER -> "503"
=============================================================================
