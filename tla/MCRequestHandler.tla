-------------------------- MODULE MCRequestHandler --------------------------
(* RequestHandler for TLC, on two trees.                                   *)
EXTENDS RequestHandler, TLC

CONSTANTS
  d,     \* a folder
  e, g,  \* entries of d
  f      \* an entry of e, or of d

\* d/f, and d/e/f beside d/g.
TwoLevels == (d :> {}) @@ (f :> {d})
Fork      == (d :> {}) @@ (e :> {d}) @@ (f :> {d, e}) @@ (g :> {d})

=============================================================================
