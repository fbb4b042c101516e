---------------------------- MODULE OverlapProofs ----------------------------
(***************************************************************************)
(* What brings the server down: the proof of DiesOnlyOnOverlap, on the     *)
(* invariant of ServerProofs.                                              *)
(***************************************************************************)
EXTENDS ServerProofs

\* No folder has an extension.
NamesTell == \A p \in Paths : Above[p] \cap HasExt = {}

FilesHaveExt == \A p \in Paths : kind[p] = "file" => p \in HasExt

\* What a request works on, however many others there are.
StageOK(c) ==
  /\ conn[c].stage = "idle" => conn[c].path = NoPath
  /\ conn[c].method = "GET" => conn[c].stage \in {"get", "read", "reply"}
  /\ conn[c].stage \in {"post", "open", "write"} => conn[c].path \in HasExt
  /\ conn[c].stage = "remove" => conn[c].todo \subseteq Subtree(conn[c].path)
  /\ conn[c].stage = "mkdir" => conn[c].todo \subseteq Wanted(c)

\* No other request changes anything near the entry of one that is clean.
Apart(c) ==
  conn[c].clean /\ Active(c) =>
    \A d \in Conns \ {c} :
      Active(d) /\ Related(conn[d].path, conn[c].path) => conn[d].method = "GET"

\* What it has looked up is still so: nothing is left but what it is to
\* remove, and nothing is missing but what it is to create.
CleanOK(c) ==
  conn[c].clean =>
    /\ conn[c].stage = "remove" =>
         \A q \in Subtree(conn[c].path) : Present(q) => q \in conn[c].todo
    /\ conn[c].stage = "mkdir" =>
         \A q \in Wanted(c) \ conn[c].todo : kind[q] = "dir"

OverlapInv ==
  FilesHaveExt /\ \A c \in Conns : StageOK(c) /\ Apart(c) /\ CleanOK(c)

(* What is below an entry below p is below p.                              *)
LEMMA SubtreeBelow ==
  ASSUME NEW p \in Paths, NEW q \in Subtree(p), NEW r \in Subtree(q)
  PROVE  q \in Paths /\ r \in Paths /\ r \in Subtree(p)
  BY TreeAssumption DEF Subtree, Below

(* A request lies below the folders it wants.                              *)
LEMMA WantedAbove ==
  ASSUME NEW c \in Conns, conn[c].path \in Paths, NEW q \in Wanted(c)
  PROVE  q \in Paths /\ conn[c].path \in Subtree(q)
  BY TreeAssumption DEF Wanted, Subtree, Below

(* A request that is worked on is one for an entry.                        *)
LEMMA RunningActive ==
  ASSUME HandlerInv, NEW c \in Conns, Running(c)
  PROVE  conn[c] \in Connection /\ conn[c].path \in Paths /\ Active(c)
  BY NoPathAssumption DEF HandlerInv, RequestsOK, Running, Active

(* A step of one request leaves the others' alone: what it creates lies    *)
(* above its entry and what it removes below.                              *)
LEMMA OthersStep ==
  ASSUME HandlerInv, OverlapInv, NEW c \in Conns,
         conn[c].path \in Paths, Active(c), FilesHaveExt',
         conn'[c].path = conn[c].path, conn'[c].clean = conn[c].clean,
         conn'[c].method = conn[c].method,
         conn[c].method # "GET" \/ kind' = kind,
         StageOK(c)', CleanOK(c)',
         \A d \in Conns \ {c} :
           /\ conn'[d].stage = conn[d].stage /\ conn'[d].path = conn[d].path
           /\ conn'[d].clean = conn[d].clean /\ conn'[d].todo = conn[d].todo
           /\ conn'[d].method = conn[d].method,
         \A q \in Paths : ~ Present(q) /\ Present(q)'
                            => conn[c].path \in Subtree(q),
         \A q \in Paths : kind[q] = "dir" /\ kind'[q] # "dir"
                            => q \in Subtree(conn[c].path)
  PROVE  OverlapInv'
<1>1. ASSUME NEW e \in Conns PROVE Active(e)' => Active(e)
  BY DEF Active
<1>2. ASSUME NEW e \in Conns
      PROVE  /\ conn'[e].path = conn[e].path /\ conn'[e].clean = conn[e].clean
             /\ conn'[e].method = conn[e].method
  OBVIOUS
<1>3. ASSUME NEW e \in Conns PROVE Apart(e)'
  BY <1>1, <1>2 DEF OverlapInv, Apart, Related, Subtree, Below
<1>4. ASSUME NEW d \in Conns, d # c PROVE StageOK(d)'
  BY <1>4 DEF OverlapInv, StageOK, Subtree, Below, Wanted
<1>5. ASSUME NEW d \in Conns, d # c PROVE CleanOK(d)'
  <2>5. CASE kind' = kind
    BY <1>5, <2>5 DEF OverlapInv, CleanOK, Present, Subtree, Below, Wanted
  <2> SUFFICES ASSUME conn[d].clean, Running(d), conn[c].method # "GET"
               PROVE  CleanOK(d)'
    BY <1>5, <2>5 DEF CleanOK, Running
  <2>1. conn[d].path \in Paths /\ Active(d)
    BY RunningActive
  <2>2. ~ Related(conn[c].path, conn[d].path)
    BY <1>5, <2>1 DEF OverlapInv, Apart
  <2>3. ASSUME conn[d].stage = "remove", NEW q \in Subtree(conn[d].path), Present(q)'
        PROVE  q \in conn[d].todo
    <3>1. conn[c].path \notin Subtree(q)
      BY <2>1, <2>2, <2>3, SubtreeBelow DEF Related
    <3>2. q \in Paths
      BY <2>1 DEF Subtree, Below
    <3>3. Present(q)
      BY <2>3, <3>1, <3>2
    <3> QED
      BY <2>3, <3>3 DEF OverlapInv, CleanOK
  <2>4. ASSUME conn[d].stage = "mkdir", NEW q \in Wanted(d) \ conn[d].todo
        PROVE  kind'[q] = "dir"
    <3>1. q \in Paths /\ conn[d].path \in Subtree(q)
      BY <2>1, WantedAbove
    <3>2. q \notin Subtree(conn[c].path)
      BY <2>2, <3>1, SubtreeBelow DEF Related
    <3>3. kind[q] = "dir"
      BY <2>4 DEF OverlapInv, CleanOK
    <3> QED
      BY <3>1, <3>2, <3>3
  <2> QED
    BY <1>5, <2>3, <2>4 DEF CleanOK, Subtree, Below, Wanted
<1> QED
  BY <1>3, <1>4, <1>5 DEF OverlapInv

(* A step of one request that leaves the folder alone.                     *)
LEMMA SameKindStep ==
  ASSUME HandlerInv, OverlapInv, NEW c \in Conns, Running(c), kind' = kind,
         NEW r, conn' = [conn EXCEPT ![c] = r],
         r.path = conn[c].path, r.clean = conn[c].clean,
         r.method = conn[c].method, StageOK(c)', CleanOK(c)'
  PROVE  OverlapInv'
<1>1. conn[c].path \in Paths /\ Active(c) /\ conn'[c] = r
  BY RunningActive DEF HandlerInv, RequestsOK
<1>2. \A d \in Conns \ {c} : conn'[d] = conn[d]
  BY DEF HandlerInv, RequestsOK
<1>3. FilesHaveExt'
  BY DEF OverlapInv, FilesHaveExt
<1>4. \A q \in Paths : Present(q)' = Present(q)
  BY DEF Present
<1> QED
  BY <1>1, <1>2, <1>3, <1>4, OthersStep

(* The request is answered.                                                *)
LEMMA AnswerStep ==
  ASSUME HandlerInv, OverlapInv, NEW c \in Conns, Running(c), kind' = kind,
         NEW s, Finish(c, s)
  PROVE  OverlapInv'
<1> DEFINE r == [conn[c] EXCEPT !.stage = "reply", !.status = s]
<1>1. conn' = [conn EXCEPT ![c] = r] /\ conn'[c] = r
  BY DEF Finish, HandlerInv, RequestsOK
<1>2. /\ r.stage = "reply" /\ r.path = conn[c].path
      /\ r.clean = conn[c].clean /\ r.method = conn[c].method
  BY RunningActive DEF Connection
<1>3. StageOK(c)' /\ CleanOK(c)'
  BY <1>1, <1>2 DEF StageOK, CleanOK
<1> QED
  BY <1>1, <1>2, <1>3, SameKindStep

(* The request goes on to another call.                                    *)
LEMMA GoOnStep ==
  ASSUME HandlerInv, OverlapInv, NEW c \in Conns, Running(c), kind' = kind,
         NEW s \in {"mkdirs", "open"}, Set(c, [conn[c] EXCEPT !.stage = s]),
         s = "open" => conn[c].path \in HasExt, conn[c].method # "GET"
  PROVE  OverlapInv'
<1> DEFINE r == [conn[c] EXCEPT !.stage = s]
<1>1. conn' = [conn EXCEPT ![c] = r] /\ conn'[c] = r
  BY DEF Set, HandlerInv, RequestsOK
<1>2. /\ r.stage = s /\ r.path = conn[c].path
      /\ r.clean = conn[c].clean /\ r.method = conn[c].method
  BY RunningActive DEF Connection
<1>3. StageOK(c)' /\ CleanOK(c)'
  BY <1>1, <1>2 DEF StageOK, CleanOK
<1> QED
  BY <1>1, <1>2, <1>3, SameKindStep

(* What is to be removed is looked up.                                     *)
LEMMA StartRemoveStep ==
  ASSUME HandlerInv, OverlapInv, NEW c \in Conns, Running(c), kind' = kind,
         StartRemove(c), conn[c].method # "GET"
  PROVE  OverlapInv'
<1> DEFINE T == {q \in Subtree(conn[c].path) : Present(q)}
           r == [conn[c] EXCEPT !.stage = "remove", !.todo = T]
<1>1. conn' = [conn EXCEPT ![c] = r] /\ conn'[c] = r
  BY DEF StartRemove, Set, HandlerInv, RequestsOK
<1>2. /\ r.stage = "remove" /\ r.todo = T
      /\ r.path = conn[c].path /\ r.clean = conn[c].clean
      /\ r.method = conn[c].method
  BY RunningActive DEF Connection
<1>3. StageOK(c)' /\ CleanOK(c)'
  BY <1>1, <1>2 DEF StageOK, CleanOK, Subtree, Below, Present
<1> QED
  BY <1>1, <1>2, <1>3, SameKindStep

(* Which folders are missing is looked up.                                 *)
LEMMA MkdirsStep ==
  ASSUME HandlerInv, OverlapInv, NEW c \in Conns, Mkdirs(c)
  PROVE  OverlapInv'
<1> DEFINE T == {q \in Wanted(c) : ~ Present(q)}
           r == [conn[c] EXCEPT !.stage = "mkdir", !.todo = T]
<1>1. Running(c) /\ kind' = kind
  BY DEF Mkdirs, Running
<1>2. conn' = [conn EXCEPT ![c] = r] /\ conn'[c] = r
  BY DEF Mkdirs, Set, HandlerInv, RequestsOK
<1>3. /\ r.stage = "mkdir" /\ r.todo = T
      /\ r.path = conn[c].path /\ r.clean = conn[c].clean
      /\ r.method = conn[c].method /\ conn[c].method # "GET"
  BY <1>1, RunningActive DEF Connection, Mkdirs, OverlapInv, StageOK
<1>4. Wanted(c)' = Wanted(c)
  BY <1>2, <1>3 DEF Wanted
<1>5. \A q \in Wanted(c) \ T : kind[q] = "dir"
  BY <1>1, RunningActive, WantedAbove
  DEF Mkdirs, Present, HandlerInv, FilesOK, Kinds
<1>6. StageOK(c)' /\ CleanOK(c)'
  BY <1>1, <1>2, <1>3, <1>4, <1>5 DEF StageOK, CleanOK
<1> QED
  BY <1>1, <1>2, <1>3, <1>6, SameKindStep

(* A folder is created.                                                    *)
LEMMA MkdirOverlap ==
  ASSUME HandlerInv, OverlapInv, NEW c \in Conns, Mkdir(c)
  PROVE  OverlapInv'
<1>1. PICK q \in conn[c].todo :
        /\ conn[c].stage = "mkdir"
        /\ kind[q] # "file"
        /\ kind' = [kind EXCEPT ![q] = "dir"]
        /\ conn' = [conn EXCEPT ![c] = [conn[c] EXCEPT !.todo = @ \ {q}]]
  BY DEF Mkdir, Set
<1> DEFINE r == [conn[c] EXCEPT !.todo = @ \ {q}]
<1>2. Running(c) /\ conn[c] \in Connection /\ conn[c].path \in Paths /\ Active(c)
  BY <1>1, RunningActive DEF Running
<1>3. /\ conn'[c] = r
      /\ r.stage = "mkdir" /\ r.todo = conn[c].todo \ {q}
      /\ r.path = conn[c].path /\ r.clean = conn[c].clean
      /\ r.method = conn[c].method
  BY <1>1, <1>2 DEF Connection, HandlerInv, RequestsOK
<1>4. q \in Wanted(c) /\ conn[c].method # "GET"
  BY <1>1 DEF OverlapInv, StageOK
<1>5. q \in Paths /\ conn[c].path \in Subtree(q)
  BY <1>2, <1>4, WantedAbove
<1>6. Wanted(c)' = Wanted(c)
  BY <1>3 DEF Wanted
<1>7. StageOK(c)'
  BY <1>1, <1>3, <1>6 DEF StageOK, OverlapInv
<1>8. CleanOK(c)'
  <2>1. ASSUME conn[c].clean, NEW p \in Wanted(c) \ (conn[c].todo \ {q})
        PROVE  kind'[p] = "dir"
    <3>1. p \in Paths
      BY <1>2, WantedAbove
    <3> QED
      BY <1>1, <1>5, <2>1, <3>1 DEF OverlapInv, CleanOK, HandlerInv, FilesOK
  <2> QED
    BY <1>3, <1>6, <2>1 DEF CleanOK
<1>9. FilesHaveExt'
  BY <1>1, <1>5 DEF OverlapInv, FilesHaveExt, HandlerInv, FilesOK
<1>10. \A p \in Paths : ~ Present(p) /\ Present(p)' => conn[c].path \in Subtree(p)
  BY <1>1, <1>5 DEF Present, HandlerInv, FilesOK
<1>11. \A p \in Paths : kind[p] = "dir" => kind'[p] = "dir"
  BY <1>1, <1>5 DEF HandlerInv, FilesOK
<1>12. \A d \in Conns \ {c} : conn'[d] = conn[d]
  BY <1>1 DEF HandlerInv, RequestsOK
<1> QED
  BY <1>2, <1>3, <1>4, <1>7, <1>8, <1>9, <1>10, <1>11, <1>12, OthersStep

(* A file is opened, under a name with an extension.                       *)
LEMMA OpenOverlap ==
  ASSUME HandlerInv, OverlapInv, NEW c \in Conns, OpenFile(c)
  PROVE  OverlapInv'
<1> DEFINE p == conn[c].path
           r == [conn[c] EXCEPT !.stage = "write", !.linked = TRUE]
<1>1. Running(c) /\ conn[c] \in Connection /\ p \in Paths /\ Active(c)
  BY RunningActive DEF Running, OpenFile
<1>2. CASE kind[p] = "dir" \/ ~ InPlace(p)
  BY <1>1, <1>2, AnswerStep DEF OpenFile
<1>3. CASE ~ (kind[p] = "dir" \/ ~ InPlace(p))
  <2>1. /\ kind' = [kind EXCEPT ![p] = "file"]
        /\ conn' = [conn EXCEPT ![c] = r]
    BY <1>3 DEF OpenFile, Set
  <2>2. /\ conn'[c] = r /\ r.stage = "write"
        /\ r.path = conn[c].path /\ r.clean = conn[c].clean
        /\ r.method = conn[c].method
    BY <1>1, <2>1 DEF Connection, HandlerInv, RequestsOK
  <2>3. p \in HasExt /\ conn[c].method # "GET"
    BY DEF OverlapInv, StageOK, OpenFile
  <2>4. StageOK(c)' /\ CleanOK(c)'
    BY <2>2, <2>3 DEF StageOK, CleanOK
  <2>5. FilesHaveExt'
    BY <1>1, <2>1, <2>3 DEF OverlapInv, FilesHaveExt, HandlerInv, FilesOK
  <2>6. \A q \in Paths : ~ Present(q) /\ Present(q)' => p \in Subtree(q)
    BY <1>1, <2>1 DEF Present, HandlerInv, FilesOK, Subtree
  <2>7. \A q \in Paths : kind[q] = "dir" => kind'[q] = "dir"
    BY <1>1, <1>3, <2>1 DEF HandlerInv, FilesOK
  <2>8. \A d \in Conns \ {c} : conn'[d] = conn[d]
    BY <2>1 DEF HandlerInv, RequestsOK
  <2> QED
    BY <1>1, <2>2, <2>3, <2>4, <2>5, <2>6, <2>7, <2>8, OthersStep
<1> QED
  BY <1>2, <1>3

(* An entry is removed; a request that has it open is told.                *)
LEMMA RemoveOverlap ==
  ASSUME HandlerInv, OverlapInv, NEW c \in Conns, RemoveOne(c)
  PROVE  OverlapInv'
<1>1. PICK q \in Removable(c) :
        /\ conn[c].stage = "remove"
        /\ kind' = [kind EXCEPT ![q] = "absent"]
        /\ conn' = [d \in Conns |->
             IF d = c THEN [conn[d] EXCEPT !.todo = @ \ {q}]
             ELSE [conn[d] EXCEPT !.linked = @ /\ conn[d].path # q]]
  BY DEF RemoveOne
<1>2. Running(c) /\ conn[c] \in Connection /\ conn[c].path \in Paths /\ Active(c)
  BY <1>1, RunningActive DEF Running
<1>3. /\ conn'[c].stage = "remove" /\ conn'[c].todo = conn[c].todo \ {q}
      /\ conn'[c].path = conn[c].path /\ conn'[c].clean = conn[c].clean
      /\ conn'[c].method = conn[c].method
  BY <1>1, <1>2 DEF Connection
<1>4. conn[c].method # "GET" /\ q \in conn[c].todo /\ q \in Subtree(conn[c].path) /\ q \in Paths
  BY <1>1, <1>2 DEF Removable, OverlapInv, StageOK, Connection
<1>5. ASSUME NEW d \in Conns \ {c}
      PROVE  /\ conn'[d].stage = conn[d].stage /\ conn'[d].path = conn[d].path
             /\ conn'[d].clean = conn[d].clean /\ conn'[d].todo = conn[d].todo
             /\ conn'[d].method = conn[d].method
  BY <1>1 DEF HandlerInv, RequestsOK, Connection
<1>6. StageOK(c)'
  BY <1>1, <1>3 DEF StageOK, OverlapInv, Subtree, Below
<1>7. \A p \in Paths : Present(p)' => Present(p) /\ p # q
  BY <1>1, <1>4 DEF Present, HandlerInv, FilesOK
<1>8. CleanOK(c)'
  <2>1. ASSUME conn[c].clean, NEW p \in Subtree(conn[c].path), Present(p)'
        PROVE  p \in conn[c].todo \ {q}
    <3>1. p \in Paths
      BY <1>2 DEF Subtree, Below
    <3> QED
      BY <1>1, <1>7, <2>1, <3>1 DEF OverlapInv, CleanOK
  <2> QED
    BY <1>3, <2>1 DEF CleanOK, Subtree, Below
<1>9. FilesHaveExt'
  BY <1>1, <1>4 DEF OverlapInv, FilesHaveExt, HandlerInv, FilesOK
<1>10. \A p \in Paths : kind[p] = "dir" /\ kind'[p] # "dir" => p \in Subtree(conn[c].path)
  BY <1>1, <1>4 DEF HandlerInv, FilesOK
<1> QED
  BY <1>2, <1>3, <1>4, <1>5, <1>6, <1>7, <1>8, <1>9, <1>10, OthersStep

(* A file is opened to be read.                                            *)
LEMMA GetOpenOverlap ==
  ASSUME HandlerInv, OverlapInv, NEW c \in Conns, GetOpen(c)
  PROVE  OverlapInv'
<1> DEFINE r == [conn[c] EXCEPT !.stage = "read", !.linked = TRUE]
<1>1. Running(c) /\ kind' = kind
  BY DEF GetOpen, Running
<1>2. CASE ~ Present(conn[c].path)
  BY <1>1, <1>2, AnswerStep DEF GetOpen
<1>3. CASE Present(conn[c].path)
  <2>1. conn' = [conn EXCEPT ![c] = r] /\ conn'[c] = r
    BY <1>3 DEF GetOpen, Set, HandlerInv, RequestsOK
  <2>2. /\ r.stage = "read" /\ r.path = conn[c].path
        /\ r.clean = conn[c].clean /\ r.method = conn[c].method
    BY <1>1, RunningActive DEF Connection
  <2>3. StageOK(c)' /\ CleanOK(c)'
    BY <2>1, <2>2 DEF StageOK, CleanOK
  <2> QED
    BY <1>1, <2>1, <2>2, <2>3, SameKindStep
<1> QED
  BY <1>2, <1>3

(* A request comes in: those that it disturbs are no longer clean.         *)
LEMMA ReceiveOverlap ==
  ASSUME HandlerInv, OverlapInv, NEW c \in Conns, Receive(c)
  PROVE  OverlapInv'
<1>1. PICK m \in {"GET", "POST", "DELETE"}, p \in Paths :
        \E b \in Bodies(m, p) : Admit(c, m, p, b)
  BY DEF Receive
<1>2. /\ conn'[c].stage = FirstStage(m, p) /\ conn'[c].path = p
      /\ conn'[c].method = m /\ conn'[c].clean = (Disturbing(p) = {})
  BY <1>1 DEF Admit, Request
<1>3. ASSUME NEW d \in Conns, d # c
      PROVE  /\ conn'[d].stage = conn[d].stage /\ conn'[d].path = conn[d].path
             /\ conn'[d].todo = conn[d].todo /\ conn'[d].method = conn[d].method
             /\ conn'[d].clean =
                  (conn[d].clean /\ (m = "GET" \/ d \notin Overlapping(p)))
  BY <1>1, <1>3 DEF Admit, HandlerInv, RequestsOK, Connection
<1>4. kind' = kind /\ conn[c].stage = "idle"
  BY <1>1 DEF Admit
<1>5. FilesHaveExt'
  BY <1>4 DEF OverlapInv, FilesHaveExt
<1>6. StageOK(c)' /\ CleanOK(c)'
  <2>1. /\ FirstStage(m, p) \in {"get", "delete", "post", "mkdirs"}
        /\ FirstStage(m, p) = "post" => p \in HasExt
        /\ m = "GET" => FirstStage(m, p) = "get"
    BY DEF FirstStage
  <2> QED
    BY <1>2, <2>1 DEF StageOK, CleanOK
<1>7. ASSUME NEW d \in Conns, d # c PROVE StageOK(d)' /\ CleanOK(d)'
  BY <1>3, <1>4, <1>7 DEF OverlapInv, StageOK, CleanOK, Subtree, Below, Wanted,
     Present
<1>8. ASSUME NEW d \in Conns, d # c PROVE Active(d)' = Active(d)
  BY <1>3, <1>8 DEF Active
<1>9. Apart(c)'
  <2> SUFFICES ASSUME Disturbing(p) = {}, NEW d \in Conns \ {c}, Active(d),
                      Related(conn[d].path, p)
               PROVE  conn[d].method = "GET"
    BY <1>2, <1>3, <1>8 DEF Apart, Related, Subtree, Below
  <2> QED
    BY DEF Disturbing, Overlapping
<1>10. ASSUME NEW d \in Conns, d # c PROVE Apart(d)'
  <2> SUFFICES ASSUME conn'[d].clean, Active(d)', NEW e \in Conns \ {d}, Active(e)',
                      Related(conn'[e].path, conn'[d].path)
               PROVE  conn'[e].method = "GET"
    BY <1>10 DEF Apart, Related, Subtree, Below
  <2>1. conn[d].clean /\ (m = "GET" \/ d \notin Overlapping(p)) /\ Active(d)
    BY <1>3, <1>8, <1>10
  <2>2. CASE e = c
    BY <1>2, <1>3, <1>10, <2>1, <2>2 DEF Overlapping, Related
  <2>3. CASE e # c
    BY <1>3, <1>8, <1>10, <2>1, <2>3 DEF OverlapInv, Apart
  <2> QED
    BY <2>2, <2>3
<1> QED
  BY <1>5, <1>6, <1>7, <1>9, <1>10 DEF OverlapInv

(* A connection that is not worked on is closed or answered.               *)
LEMMA IdleOverlap ==
  ASSUME HandlerInv, OverlapInv, NEW c \in Conns, Reply(c) \/ Dismiss(c)
  PROVE  OverlapInv'
<1>1. kind' = kind /\ \A d \in Conns \ {c} : conn'[d] = conn[d]
  BY DEF Reply, Dismiss, Set, Finish, HandlerInv, RequestsOK
<1>2. /\ conn'[c].stage \in {"idle", "reply"} /\ conn'[c].path = NoPath
      /\ conn'[c].stage = "idle" => conn'[c].method # "GET"
  <2>1. CASE Reply(c)
    BY <2>1 DEF Reply, Set, NoConnection, HandlerInv, RequestsOK
  <2>2. CASE Dismiss(c)
    BY <2>2 DEF Dismiss, Finish, OverlapInv, StageOK, HandlerInv, RequestsOK,
       Connection
  <2> QED
    BY <2>1, <2>2
<1>3. ~ Active(c)' /\ StageOK(c)' /\ CleanOK(c)' /\ Apart(c)'
  BY <1>2 DEF Active, StageOK, CleanOK, Apart
<1>4. ASSUME NEW d \in Conns, d # c
      PROVE  StageOK(d)' /\ CleanOK(d)' /\ Apart(d)'
  <2>1. StageOK(d)' /\ CleanOK(d)'
    BY <1>1, <1>4 DEF OverlapInv, StageOK, CleanOK, Subtree, Below, Wanted,
       Present
  <2>2. Apart(d)'
    BY <1>1, <1>3, <1>4 DEF OverlapInv, Apart, Active, Related, Subtree, Below
  <2> QED
    BY <2>1, <2>2
<1>5. FilesHaveExt'
  BY <1>1 DEF OverlapInv, FilesHaveExt
<1> QED
  BY <1>3, <1>4, <1>5 DEF OverlapInv

(* The end of the process and its next start leave no request.             *)
LEMMA EndOverlap ==
  ASSUME OverlapInv, Terminate \/ Restart PROVE OverlapInv'
<1>1. CASE Terminate
  BY <1>1 DEF Terminate, NoConnection, OverlapInv, FilesHaveExt, StageOK, Apart,
     CleanOK, Active
<1>2. CASE Restart
  BY <1>2 DEF Restart, OverlapInv, FilesHaveExt, StageOK, Apart, CleanOK, Active,
     Wanted, Present, Subtree, Below
<1> QED
  BY <1>1, <1>2

(* Every step keeps the invariant.                                         *)
LEMMA NextOverlapInv ==
  ASSUME HandlerInv, OverlapInv, [Next]_vars PROVE OverlapInv'
<1>1. CASE UNCHANGED vars
  BY <1>1 DEF vars, OverlapInv, FilesHaveExt, StageOK, Apart, CleanOK, Active,
     Wanted, Present, Subtree, Below
<1>2. CASE Stop \/ Restart \/ \E c \in Conns : MkdirThrows(c) \/ RemoveThrows(c)
  BY <1>2, EndOverlap DEF Stop, MkdirThrows, RemoveThrows
<1>3. ASSUME NEW c \in Conns, Receive(c) \/ Dismiss(c) \/ Reply(c)
      PROVE  OverlapInv'
  BY <1>3, ReceiveOverlap, IdleOverlap
<1>8. ASSUME NEW c \in Conns, conn[c].method = "GET"
      PROVE  conn[c].stage \in {"get", "read", "reply"}
  BY <1>8 DEF OverlapInv, StageOK
<1>4. ASSUME NEW c \in Conns, GetRead(c) \/ WriteFile(c) \/ WriteFails(c)
      PROVE  OverlapInv'
  BY <1>4, AnswerStep DEF GetRead, WriteFile, WriteFails, Running
<1>5. ASSUME NEW c \in Conns, PostOpen(c) \/ DeleteOpen(c) PROVE OverlapInv'
  BY <1>5, <1>8, AnswerStep, GoOnStep, StartRemoveStep
  DEF PostOpen, DeleteOpen, Running
<1>6. ASSUME NEW c \in Conns, MkdirDone(c) \/ RemoveDone(c) PROVE OverlapInv'
  BY <1>6, <1>8, AnswerStep, GoOnStep DEF MkdirDone, RemoveDone, Running
<1>7. ASSUME NEW c \in Conns,
             GetOpen(c) \/ Mkdirs(c) \/ Mkdir(c) \/ OpenFile(c) \/ RemoveOne(c)
      PROVE  OverlapInv'
  BY <1>7, GetOpenOverlap, MkdirsStep, MkdirOverlap, OpenOverlap, RemoveOverlap
<1> QED
  BY <1>1, <1>2, <1>3, <1>4, <1>5, <1>6, <1>7 DEF Next, HandleRequest

(* create_directories finds no file in its way and no folder gone, unless  *)
(* another request has overlapped the one it works for.                    *)
LEMMA MkdirThrowsOnOverlap ==
  ASSUME NamesTell, HandlerInv, OverlapInv, NEW c \in Conns, MkdirThrows(c)
  PROVE  Active(c) /\ ~ conn[c].clean
<1>1. Running(c) /\ conn[c].path \in Paths /\ Active(c)
  BY RunningActive DEF MkdirThrows, Running
<1>2. ASSUME NEW q \in Wanted(c) PROVE q \in Paths /\ kind[q] # "file"
  BY <1>1, <1>2, WantedAbove
  DEF NamesTell, Wanted, OverlapInv, FilesHaveExt
<1>3. PICK q \in conn[c].todo :
        /\ conn[c].stage = "mkdir"
        /\ Above[q] \cap conn[c].todo = {}
        /\ ~ InPlace(q) \/ kind[q] = "file"
  BY <1>2 DEF MkdirThrows
<1>4. q \in Wanted(c)
  BY <1>3 DEF OverlapInv, StageOK
<1>5. PICK a \in Above[q] : kind[a] # "dir"
  BY <1>2, <1>3, <1>4 DEF InPlace
<1>6. a \in Wanted(c)
  BY <1>1, <1>4, <1>5, TreeAssumption DEF Wanted
<1>7. a \notin conn[c].todo
  BY <1>3, <1>5
<1> QED
  BY <1>1, <1>3, <1>5, <1>6, <1>7 DEF OverlapInv, CleanOK

(* remove_all finds every folder empty, unless another request has         *)
(* overlapped the one it works for.                                        *)
LEMMA RemoveThrowsOnOverlap ==
  ASSUME HandlerInv, OverlapInv, NEW c \in Conns, RemoveThrows(c)
  PROVE  Active(c) /\ ~ conn[c].clean
<1>1. PICK q \in Removable(c) :
        conn[c].stage = "remove" /\ \E r \in Below(q) : Present(r)
  BY DEF RemoveThrows
<1>2. conn[c].path \in Paths /\ Active(c)
  BY <1>1, RunningActive DEF Running
<1>3. PICK r \in Below(q) : Present(r)
  BY <1>1
<1>4. q \in Subtree(conn[c].path) /\ r \notin conn[c].todo
  BY <1>1, <1>3 DEF Removable, OverlapInv, StageOK
<1>5. r \in Subtree(conn[c].path)
  BY <1>2, <1>3, <1>4, SubtreeBelow DEF Subtree
<1> QED
  BY <1>1, <1>2, <1>3, <1>4, <1>5 DEF OverlapInv, CleanOK

(* If no folder has an extension, only a request that overlaps another one *)
(* on a related entry ends the server in the middle of a request, whatever *)
(* the tree, the number of connections and the way their calls interleave  *)
(* (request_handler.cpp:108-140, server.cpp:45-47).                        *)
THEOREM ServerDiesOnlyOnOverlap ==
  ASSUME NamesTell PROVE Spec => DiesOnlyOnOverlap
<1> DEFINE Inv == HandlerIInv /\ OverlapInv
           Cause == \/ \E c \in Conns : Active(c) /\ ~ conn[c].clean
                    \/ \A c \in Conns : ~ Running(c)
<1>1. Init => Inv
  <2>1. Init => HandlerIInv
    BY InitHandlerIInv
  <2>2. Init => OverlapInv
    BY DEF Init, NoConnection, OverlapInv, FilesHaveExt, StageOK, Apart, CleanOK,
       Active
  <2> QED
    BY <2>1, <2>2
<1>2. Inv /\ [Next]_vars => Inv'
  BY NextHandlerIInv, NextOverlapInv DEF HandlerIInv
<1>3. Inv /\ [Next]_vars => [alive /\ ~ alive' => Cause]_vars
  <2> SUFFICES ASSUME Inv, Next, alive, ~ alive' PROVE Cause
    OBVIOUS
  <2>1. CASE Stop
    BY <2>1 DEF Stop
  <2>2. CASE \E c \in Conns : MkdirThrows(c) \/ RemoveThrows(c)
    BY <2>2, MkdirThrowsOnOverlap, RemoveThrowsOnOverlap DEF HandlerIInv
  <2>3. CASE UNCHANGED alive \/ Restart
    BY <2>3 DEF Restart
  <2> QED
    BY <2>1, <2>2, <2>3 DEF Next, HandleRequest, Receive, Admit, Dismiss, Reply,
       GetOpen, GetRead, PostOpen, Mkdirs, Mkdir, MkdirDone, OpenFile, WriteFile, WriteFails,
       DeleteOpen, RemoveOne, RemoveDone
<1> QED
  BY <1>1, <1>2, <1>3, PTL DEF Spec, DiesOnlyOnOverlap

=============================================================================
