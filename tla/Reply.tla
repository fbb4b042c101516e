------------------------------- MODULE Reply --------------------------------
(***************************************************************************)
(* What the server answers (serverhttp/reply.cpp) and what the client      *)
(* makes of it (handle_read_status_line, asynclienthttp/main.cpp).         *)
(*                                                                         *)
(* The wording of status lines and pages is left out.  A buffer of a reply *)
(* is a pair of what it is and its value; the client reads the first one,  *)
(* and the others only behind the code 200, which the server never sends.  *)
(***************************************************************************)
EXTENDS Naturals, Sequences

\* enum status_type.
Code ==
  [ok |-> 200, created |-> 201, accepted |-> 202, no_content |-> 204,
   multiple_choices |-> 300, moved_permanently |-> 301,
   moved_temporarily |-> 302, not_modified |-> 304, not_sync |-> 305,
   bad_request |-> 400, unauthorized |-> 401, forbidden |-> 403,
   not_found |-> 404, internal_server_error |-> 500, not_implemented |-> 501,
   bad_gateway |-> 502, service_unavailable |-> 503]

\* The cases of both switches; what is none of them is an internal error.
Cases == DOMAIN Code
CaseOf(status) == IF status \in Cases THEN status ELSE "internal_server_error"

\* Bug: the status that this project has added has no case of its own.
StatusLineStandard(status) ==
  <<"status", IF status = "not_sync" THEN Code["internal_server_error"]
              ELSE Code[CaseOf(status)]>>

StatusLine(status) == <<"status", Code[CaseOf(status)]>>

\* The page that goes with a status; the one of ok is empty.
StockContent(status) == IF status = "ok" THEN "" ELSE CaseOf(status)

StockReply(status) ==
  [status |-> status, headers |-> <<"Content-Length", "Content-Type">>,
   content |-> StockContent(status)]

\* A reply of which the handler has set the status only, and perhaps the content.
BareReply(status, content) ==
  [status |-> status, headers |-> <<>>, content |-> content]

ToBuffers(rep) ==
  <<StatusLine(rep.status)>>
    \o [i \in 1..Len(rep.headers) |-> <<"header", rep.headers[i]>>]
    \o <<<<"crlf", "">>, <<"content", rep.content>>>>

-----------------------------------------------------------------------------
(* The client.                                                             *)

Unset == 0

\* Only 401 sets autherror; 200 leaves both members as they are.
ReadStatusLine(buffers) ==
  LET code == buffers[1][2]
  IN [autherror  |-> code = 401,
      statuscode |-> IF code \in {200, 401} THEN Unset ELSE code]

=============================================================================
