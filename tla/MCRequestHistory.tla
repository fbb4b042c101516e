-------------------------- MODULE MCRequestHistory --------------------------
(* RequestHandler with a history variable, for TLC: what each request      *)
(* found when it came in.                                                  *)
EXTENDS MCRequestHandler

VARIABLE before     \* before[c]: the entry the request on c is for, then

Entry(p) == [kind |-> kind[p], content |-> content[p]]
NoEntry  == [kind |-> "absent", content |-> EmptyContent]

HistoryInit == Init /\ before = [c \in Conns |-> NoEntry]

HistoryNext ==
  /\ Next
  /\ before' = [c \in Conns |->
                  IF conn'[c].path = NoPath THEN NoEntry
                  ELSE IF conn[c].path = NoPath THEN Entry(conn'[c].path)
                  ELSE before[c]]

HistorySpec == HistoryInit /\ [][HistoryNext]_<<vars, before>>

-----------------------------------------------------------------------------
(* An error leaves the entry as it was (README.md:18: "In case of error,   *)
(* no change will happen on the server side").                             *)
ErrorChangesNothing ==
  \A c \in Conns :
    conn[c].stage = "reply" /\ conn[c].path # NoPath /\ conn[c].clean
      /\ conn[c].status \notin {"accepted", "created"}
      => Entry(conn[c].path) = before[c]

=============================================================================
