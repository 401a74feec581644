----------------------------- MODULE HttpLayer ------------------------------
(***************************************************************************)
(* What surrounds a handler: the guard that reads the bearer token, and    *)
(* the filter that turns an exception into a status and an error code.     *)
(* Messages, details and logging are left out.                             *)
(***************************************************************************)
EXTENDS Integers

CONSTANT None  \* undefined

(* What verifyAsync finds in an Authorization header.  A refresh token is  *)
(* signed with the same secret and differs in typ.                         *)
Bearer(Users) ==
  [typ : {"missing", "blank", "invalid", "expired"}, sub : {None}]
    \cup [typ : {"access", "refresh"}, sub : Users]

(* JwtOptionalGuard lets everybody pass; only a valid access token names   *)
(* a user.                                                                 *)
OptionalUser(bearer) == IF bearer.typ = "access" THEN bearer.sub ELSE None

(* HttpExceptionFilter.  Statuses it does not name share the code of 500.  *)
ErrorCode(status) ==
  CASE status = 400 -> "BAD_REQUEST"
    [] status = 401 -> "UNAUTHORIZED"
    [] status = 403 -> "FORBIDDEN"
    [] status = 404 -> "NOT_FOUND"
    [] status = 409 -> "CONFLICT"
    [] OTHER        -> "INTERNAL_SERVER_ERROR"

ErrorReply(status) == [status |-> status, code |-> ErrorCode(status)]
=============================================================================
