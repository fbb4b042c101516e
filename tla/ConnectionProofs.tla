-------------------------- MODULE ConnectionProofs --------------------------
(***************************************************************************)
(* Proofs about Connection, for every text of a request, every way to cut  *)
(* it into pieces, all accounts and every size of the buffer: the types,   *)
(* what the handler gets, which path it looks for, whom it lets in, and    *)
(* what the client makes of the reply.                                     *)
(*                                                                         *)
(* What the parser makes of a text, what base64 and url_decode make of     *)
(* one, is shown by induction over a set of numbers (Induction).  The part *)
(* of a text that is left does not matter for what is read of the rest     *)
(* (ParseConcat), so the parts of a request are read one after the other.  *)
(***************************************************************************)
EXTENDS Connection, SequenceTheorems, WellFoundedInduction, TLAPS

-----------------------------------------------------------------------------
(* Induction, for a set of numbers.                                        *)

(* Every set of numbers but the empty one has a least element.             *)
LEMMA Least ==
  ASSUME NEW U \in SUBSET Nat, U # {}
  PROVE  \E m \in U : \A n \in U : m <= n
<1> DEFINE Less == OpToRel(<, Nat)
<1>1. \A k, m \in Nat : k < m => <<k, m>> \in Less
  BY DEF OpToRel
<1>2. IsWellFoundedOn(Less, Nat)
  BY NatLessThanWellFounded
<1> HIDE DEF Less
<1>3. PICK m \in U : \A n \in U : ~ (<<n, m>> \in Less)
  BY <1>2, WFMin
<1>4. ASSUME NEW n \in U PROVE m <= n
  <2>1. m \in Nat /\ n \in Nat /\ ~ (n < m)
    BY <1>1, <1>3
  <2> QED
    BY <2>1
<1> QED
  BY <1>3, <1>4

(* A set with 0 and the successor of each of its elements has all numbers. *)
LEMMA Induction ==
  ASSUME NEW T \in SUBSET Nat, 0 \in T, \A n \in T : n + 1 \in T
  PROVE  T = Nat
<1> SUFFICES ASSUME Nat \ T # {} PROVE FALSE
  OBVIOUS
<1>1. Nat \ T \in SUBSET Nat
  OBVIOUS
<1>2. PICK m \in Nat \ T : \A n \in Nat \ T : m <= n
  BY <1>1, Least
<1>3. m \in Nat /\ m # 0 /\ m - 1 \in Nat /\ ~ (m <= m - 1) /\ (m - 1) + 1 = m
  BY <1>2
<1>4. m - 1 \in T
  BY <1>2, <1>3
<1> QED
  BY <1>2, <1>3, <1>4

-----------------------------------------------------------------------------
(* Parse takes one character after the other.                              *)

\* What parse() does with the next character.
Step(p, c) == IF p.result = "indeterminate" THEN Consume(p, c) ELSE p

\* run goes through the parser's states on the first n characters of s.
Runs(run, p, s, n) ==
  /\ run[0] = p
  /\ \A i \in 0..(n - 1) : run[i + 1] = Step(run[i], s[i + 1])

\* One step of the fold: the last of the positions that are left.
FoldStep(f, p, s, S) ==
  IF S = {} THEN p ELSE Step(f[S \ {Max(S)}], s[Max(S)])

(* The largest of some numbers, if it is the bound of all.                 *)
LEMMA MaxOf ==
  ASSUME NEW k \in Nat, NEW S \in SUBSET (1..k), k \in S
  PROVE  Max(S) = k
<1>1. \A y \in S : k >= y
  OBVIOUS
<1>2. \A x \in S : (\A y \in S : x >= y) => x = k
  OBVIOUS
<1> QED
  BY <1>1, <1>2 DEF Max

(* Numbers up to a bound have a largest, if there are any.                 *)
LEMMA MaxIn ==
  ASSUME NEW n \in Nat, NEW S \in SUBSET (1..n), S # {}
  PROVE  Max(S) \in S
<1> DEFINE U == {j \in Nat : j <= n /\ n - j \in S}
<1>1. U \in SUBSET Nat
  OBVIOUS
<1>2. U # {}
  <2>1. PICK x \in S : TRUE
    OBVIOUS
  <2>2. n - x \in Nat /\ n - x <= n /\ n - (n - x) = x
    OBVIOUS
  <2>3. n - x \in U
    BY <2>2
  <2> QED
    BY <2>3
<1>3. PICK m \in U : \A j \in U : m <= j
  <2> HIDE DEF U
  <2> QED
    BY <1>1, <1>2, Least
<1>4. n - m \in S
  OBVIOUS
<1>5. ASSUME NEW y \in S PROVE n - m >= y
  <2>1. n - y \in Nat /\ n - y <= n /\ n - (n - y) = y
    OBVIOUS
  <2>2. n - y \in U
    BY <2>1
  <2>3. m <= n - y
    BY <1>3, <2>2
  <2> QED
    BY <2>3
<1>6. \E x \in S : \A y \in S : x >= y
  BY <1>4, <1>5
<1> QED
  BY <1>6 DEF Max

(* The recursion by which the fold is defined has a solution.              *)
LEMMA FoldExists ==
  ASSUME NEW p, NEW s, NEW n \in Nat
  PROVE  \E f : f = [S \in SUBSET (1..n) |-> FoldStep(f, p, s, S)]
<1> DEFINE T == {k \in Nat : \E f : f = [S \in SUBSET (1..k) |-> FoldStep(f, p, s, S)]}
<1>1. 0 \in T
  <2> DEFINE f == [S \in SUBSET (1..0) |-> p]
  <2>1. SUBSET (1..0) = {{}}
    OBVIOUS
  <2>2. \A S \in SUBSET (1..0) : FoldStep(f, p, s, S) = p
    BY <2>1 DEF FoldStep
  <2>3. f = [S \in SUBSET (1..0) |-> FoldStep(f, p, s, S)]
    BY <2>2
  <2> QED
    BY <2>3
<1>2. ASSUME NEW k \in T PROVE k + 1 \in T
  <2>1. PICK f : f = [S \in SUBSET (1..k) |-> FoldStep(f, p, s, S)]
    OBVIOUS
  <2> DEFINE g == [S \in SUBSET (1..(k + 1)) |->
                     IF k + 1 \in S THEN Step(f[S \ {k + 1}], s[k + 1]) ELSE f[S]]
  <2>2. ASSUME NEW S \in SUBSET (1..(k + 1)) PROVE g[S] = FoldStep(g, p, s, S)
    <3>1. CASE k + 1 \in S
      <4>1. Max(S) = k + 1
        BY <3>1, MaxOf
      <4>2. S \ {k + 1} \in SUBSET (1..(k + 1)) /\ k + 1 \notin S \ {k + 1}
        OBVIOUS
      <4>3. g[S \ {k + 1}] = f[S \ {k + 1}]
        BY <4>2
      <4>4. g[S] = Step(f[S \ {k + 1}], s[k + 1])
        BY <3>1
      <4> QED
        BY <3>1, <4>1, <4>3, <4>4 DEF FoldStep
    <3>2. CASE k + 1 \notin S
      <4>1. /\ S \in SUBSET (1..k) /\ S \ {Max(S)} \in SUBSET (1..(k + 1))
            /\ k + 1 \notin S \ {Max(S)}
        <5>1. \A i \in S : i \in 1..(k + 1) /\ i # k + 1
          BY <3>2
        <5>2. \A i \in S : i \in 1..k
          BY <5>1
        <5> QED
          BY <3>2, <5>2
      <4>2. g[S] = f[S] /\ g[S \ {Max(S)}] = f[S \ {Max(S)}]
        BY <3>2, <4>1
      <4>3. f[S] = FoldStep(f, p, s, S)
        BY <2>1, <4>1
      <4> QED
        BY <4>2, <4>3 DEF FoldStep
    <3> QED
      BY <3>1, <3>2
  <2>3. g = [S \in SUBSET (1..(k + 1)) |-> FoldStep(g, p, s, S)]
    BY <2>2
  <2> HIDE DEF g
  <2> QED
    BY <2>3
<1>3. T = Nat
  <2> HIDE DEF T
  <2>1. T \in SUBSET Nat
    BY DEF T
  <2> QED
    BY <1>1, <1>2, <2>1, Induction
<1> QED
  BY <1>3

(* Parse goes through the states of some run.                              *)
LEMMA ParseRuns ==
  ASSUME NEW p, NEW s, NEW n \in Nat, DOMAIN s = 1..n
  PROVE  \E run : Runs(run, p, s, n) /\ Parse(p, s) = run[n]
<1> DEFINE F(f) == [S \in SUBSET (1..n) |-> FoldStep(f, p, s, S)]
           f == CHOOSE x : x = F(x)
           run == [i \in 0..n |-> f[1..i]]
<1>1. f = F(f)
  BY FoldExists
<1>2. Parse(p, s) = f[1..n]
  BY DEF Parse, FoldLeft, MapThenFoldSet, FoldStep, Step
<1> HIDE DEF f
<1>3. \A S \in SUBSET (1..n) : f[S] = FoldStep(f, p, s, S)
  BY <1>1
<1>4. run[0] = p
  <2>1. 1..0 = {} /\ {} \in SUBSET (1..n) /\ 0 \in 0..n
    OBVIOUS
  <2>2. f[{}] = p
    BY <1>3, <2>1 DEF FoldStep
  <2> QED
    BY <2>1, <2>2
<1>5. ASSUME NEW i \in 0..(n - 1) PROVE run[i + 1] = Step(run[i], s[i + 1])
  <2>1. /\ 1..(i + 1) \in SUBSET (1..n) /\ i + 1 \in 1..(i + 1) /\ i + 1 \in Nat
        /\ i \in 0..n /\ i + 1 \in 0..n
    OBVIOUS
  <2>2. Max(1..(i + 1)) = i + 1
    BY <2>1, MaxOf
  <2>3. (1..(i + 1)) \ {i + 1} = 1..i
    OBVIOUS
  <2>4. f[1..(i + 1)] = Step(f[1..i], s[i + 1])
    BY <1>3, <2>1, <2>2, <2>3 DEF FoldStep
  <2> QED
    BY <2>1, <2>4
<1>6. Parse(p, s) = run[n]
  BY <1>2
<1> HIDE DEF run
<1> QED
  BY <1>4, <1>5, <1>6 DEF Runs

(* There is only one run.                                                  *)
LEMMA OneRun ==
  ASSUME NEW p, NEW s, NEW n \in Nat, NEW r1, NEW r2,
         Runs(r1, p, s, n), Runs(r2, p, s, n)
  PROVE  r1[n] = r2[n]
<1> DEFINE T == {i \in Nat : i <= n => r1[i] = r2[i]}
<1>1. 0 \in T
  BY DEF Runs
<1>2. ASSUME NEW i \in T PROVE i + 1 \in T
  BY DEF Runs
<1>3. T = Nat
  BY <1>1, <1>2, Induction
<1> QED
  BY <1>3

(* Parse returns where a run ends.                                         *)
LEMMA ParseIs ==
  ASSUME NEW p, NEW s, NEW n \in Nat, DOMAIN s = 1..n, NEW run, Runs(run, p, s, n)
  PROVE  Parse(p, s) = run[n]
BY ParseRuns, OneRun

(* What no character leads out of, no text leads out of.                   *)
LEMMA ParseStays ==
  ASSUME NEW Q, NEW p \in Q, NEW C, NEW s \in Seq(C),
         \A q \in Q, c \in C : Step(q, c) \in Q
  PROVE  Parse(p, s) \in Q
<1>1. Len(s) \in Nat /\ DOMAIN s = 1..Len(s) /\ \A i \in 1..Len(s) : s[i] \in C
  OBVIOUS
<1>2. PICK run : Runs(run, p, s, Len(s)) /\ Parse(p, s) = run[Len(s)]
  BY <1>1, ParseRuns
<1> DEFINE T == {i \in Nat : i <= Len(s) => run[i] \in Q}
<1>3. 0 \in T
  BY <1>2 DEF Runs
<1>4. ASSUME NEW i \in T PROVE i + 1 \in T
  BY <1>1, <1>2 DEF Runs
<1>5. T = Nat
  BY <1>3, <1>4, Induction
<1> QED
  BY <1>1, <1>2, <1>5

(* A text may be cut anywhere: the parser goes on where it has been left.  *)
LEMMA ParseConcat ==
  ASSUME NEW p, NEW C, NEW s \in Seq(C), NEW t \in Seq(C)
  PROVE  Parse(p, s \o t) = Parse(Parse(p, s), t)
<1> DEFINE m == Len(s)
           n == Len(t)
           u == s \o t
<1>1. /\ m \in Nat /\ DOMAIN s = 1..m /\ n \in Nat /\ DOMAIN t = 1..n
      /\ DOMAIN u = 1..(m + n) /\ m + n \in Nat
  OBVIOUS
<1>2. \A i \in 1..(m + n) : u[i] = IF i <= m THEN s[i] ELSE t[i - m]
  BY ConcatProperties
<1>21. \A k \in 1..(m + n) : ~ (k <= m) => u[k] = t[k - m]
  <2> HIDE DEF m, n, u
  <2> QED
    BY <1>2
<1>3. PICK r1 : Runs(r1, p, s, m) /\ Parse(p, s) = r1[m]
  BY <1>1, ParseRuns
<1>4. PICK r2 : Runs(r2, r1[m], t, n) /\ Parse(r1[m], t) = r2[n]
  BY <1>1, ParseRuns
<1> HIDE DEF m, n, u
<1> DEFINE run == [i \in 0..(m + n) |-> IF i <= m THEN r1[i] ELSE r2[i - m]]
<1>22. \A k \in 0..(m + n) : ~ (k <= m) => run[k] = r2[k - m]
  OBVIOUS
<1>5. run[0] = p
  BY <1>1, <1>3 DEF Runs
<1>6. ASSUME NEW i \in 0..(m + n - 1) PROVE run[i + 1] = Step(run[i], u[i + 1])
  <2>0. i \in 0..(m + n) /\ i + 1 \in 0..(m + n) /\ i + 1 \in 1..(m + n)
    BY <1>1
  <2>1. CASE i < m
    <3>1. i \in 0..(m - 1) /\ i <= m /\ i + 1 <= m
      BY <1>1, <2>1
    <3> QED
      BY <1>2, <1>3, <2>0, <3>1 DEF Runs
  <2>2. CASE i = m
    <3>1. /\ ~ (i + 1 <= m) /\ i + 1 - m = 0 + 1 /\ 0 \in 0..(n - 1) /\ i <= m
      BY <1>1, <2>2
    <3>2. run[i] = r1[m] /\ run[i + 1] = r2[0 + 1]
      BY <2>0, <2>2, <3>1
    <3>4. u[i + 1] = t[0 + 1]
      BY <1>1, <1>2, <2>0, <3>1
    <3>3. r2[0] = r1[m] /\ r2[0 + 1] = Step(r2[0], t[0 + 1])
      BY <1>4, <3>1 DEF Runs
    <3> QED
      BY <3>2, <3>3, <3>4
  <2>3. CASE i > m
    <3> DEFINE k == i + 1
               h == i - m
               j == (i - m) + 1
    <3>1. /\ k \in 0..(m + n) /\ k \in 1..(m + n) /\ ~ (k <= m) /\ j = k - m
          /\ ~ (i <= m) /\ h \in 0..(n - 1)
      BY <1>1, <2>0, <2>3
    <3>2. r2[j] = Step(r2[h], t[j])
      BY <1>4, <3>1 DEF Runs
    <3> HIDE DEF k, j, h
    <3>3. u[k] = t[j]
      BY <1>21, <3>1
    <3>4. run[i] = r2[i - m] /\ run[k] = r2[j]
      <4> HIDE DEF run
      <4> QED
        BY <1>22, <2>0, <3>1
    <3>5. run[k] = Step(run[i], u[k])
      <4> HIDE DEF run
      <4> QED
        BY <3>2, <3>3, <3>4 DEF h
    <3> QED
      BY <3>5 DEF k
  <2> QED
    BY <1>1, <2>1, <2>2, <2>3
<1>7. run[m + n] = r2[n]
  <2>1. CASE n = 0
    BY <1>1, <1>4, <2>1 DEF Runs
  <2>2. CASE n # 0
    BY <1>1, <2>2
  <2> QED
    BY <2>1, <2>2
<1> HIDE DEF run
<1>8. Runs(run, p, u, m + n)
  BY <1>1, <1>5, <1>6 DEF Runs
<1>9. Parse(p, u) = run[m + n]
  BY <1>1, <1>8, ParseIs
<1> QED
  BY <1>3, <1>4, <1>7, <1>9 DEF u

(* One character is one step.                                              *)
LEMMA ParseOne ==
  ASSUME NEW p, NEW c
  PROVE  Parse(p, <<c>>) = Step(p, c)
<1> DEFINE run == [i \in 0..1 |-> IF i = 0 THEN p ELSE Step(p, c)]
<1>1. Runs(run, p, <<c>>, 1)
  BY DEF Runs
<1>2. run[1] = Step(p, c)
  OBVIOUS
<1>3. DOMAIN <<c>> = 1..1 /\ 1 \in Nat
  OBVIOUS
<1> HIDE DEF run
<1> QED
  BY <1>1, <1>2, <1>3, ParseIs

(* A request that is complete or invalid stays so.                         *)
LEMMA ParseDone ==
  ASSUME NEW p, p.result # "indeterminate", NEW C, NEW s \in Seq(C)
  PROVE  Parse(p, s) = p
<1>1. \A q \in {p}, c \in C : Step(q, c) \in {p}
  BY DEF Step
<1>2. Parse(p, s) \in {p}
  BY <1>1, ParseStays
<1> QED
  BY <1>2

-----------------------------------------------------------------------------
(* The characters.                                                         *)

(* Every digit of base64 is at one place of the table only.                *)
LEMMA DigitsDiffer ==
  \A v, w \in 0..63 : Digits64[v + 1] = Digits64[w + 1] => v = w
BY DEF Digits64

(* No digit of base64 is a control character, a blank, or the padding.     *)
LEMMA DigitsPlain ==
  \A v \in 0..63 : Digits64[v + 1] \notin {"?", "CR", "LF", "SP", "TAB", "="}
BY DEF Digits64

(* What base64 writes is read as a value.                                  *)
LEMMA CharsAreText == Chars64 \subseteq Text
<1>1. \A i \in DOMAIN Digits64 : Digits64[i] \notin {"?", "CR", "LF", "TAB"}
  BY DEF Digits64
<1> QED
  BY <1>1 DEF Chars64, ToSet, Padding, Text, Ctl, Alphabet, CR, LF, TAB

(* Some of the letters.                                                    *)
LEMMA Letters == {"T", "P", "E", "z"} \subseteq Token
<1>1. Digits64[20] = "T" /\ Digits64[16] = "P" /\ Digits64[5] = "E" /\ Digits64[52] = "z"
  BY DEF Digits64
<1>2. {20, 16, 5, 52} \subseteq DOMAIN Digits64
  BY DEF Digits64
<1> QED
  BY <1>1, <1>2 DEF Chars64, ToSet, Token, Ctl, Special, Alphabet, CR, LF, TAB, SP

-----------------------------------------------------------------------------
(* The switch of consume(), up to the body.                                *)

Parsers ==
  [state : States, result : {"indeterminate", "true", "false"},
   method : Seq(Alphabet), uri : Seq(Alphabet), headers : Seq(Seq(Alphabet)),
   content : Seq(Alphabet)]

Reading == {p \in Parsers : p.result = "indeterminate"}

(* The switch is deterministic: no character has two cases in one state.   *)
LEMMA OneRow ==
  \A r1, r2 \in Rows : \A c \in r1.on : r1.at = r2.at /\ c \in r2.on => r1 = r2
BY DEF Rows, UriRows, RequestLine, HeaderLines, Row, Skip, Token, Text, Digit, Ctl, Special,
   CR, LF, SP, TAB

(* A character that a row is for is taken as the row says.                 *)
LEMMA RowStep ==
  ASSUME NEW p, p.result = "indeterminate", NEW row \in Rows, NEW c \in row.on,
         p.state = row.at, row.to = "header_lws" => p.headers # <<>>
  PROVE  Step(p, c) = Take(p, row, c)
<1> DEFINE rows == {r \in Rows : /\ r.at = p.state /\ c \in r.on
                                 /\ r.to = "header_lws" => p.headers # <<>>}
<1>1. rows = {row}
  BY OneRow
<1>2. p.state # "content_start"
  BY DEF Rows, UriRows, RequestLine, HeaderLines, Row, Skip
<1>3. (CHOOSE r \in rows : TRUE) = row
  BY <1>1
<1> QED
  BY <1>1, <1>2, <1>3 DEF Step, Consume

(* A text behind another one, one character longer.                        *)
LEMMA OneLonger ==
  ASSUME NEW C, NEW a \in Seq(C), NEW s \in Seq(C), NEW i \in 0..(Len(s) - 1)
  PROVE  a \o SubSeq(s, 1, i + 1) = Append(a \o SubSeq(s, 1, i), s[i + 1])
<1>1. /\ SubSeq(s, 1, i) \in Seq(C) /\ SubSeq(s, 1, i + 1) \in Seq(C) /\ s[i + 1] \in C
      /\ Len(SubSeq(s, 1, i)) = i /\ Len(SubSeq(s, 1, i + 1)) = i + 1
  OBVIOUS
<1> DEFINE l == a \o SubSeq(s, 1, i + 1)
           r == Append(a \o SubSeq(s, 1, i), s[i + 1])
<1>2. l \in Seq(C) /\ r \in Seq(C) /\ Len(l) = Len(a) + i + 1 /\ Len(r) = Len(a) + i + 1
  BY <1>1
<1>3. \A k \in 1..(Len(a) + i + 1) : l[k] = r[k]
  BY <1>1
<1> HIDE DEF l, r
<1>4. l = r
  BY <1>2, <1>3, SeqEqual
<1> QED
  BY <1>4 DEF l, r

(* The address is the text up to the question mark.                        *)
LEMMA ParseUri ==
  ASSUME NEW p \in Reading, p.state = "uri", NEW s \in Seq(Text)
  PROVE  Parse(p, s) = [p EXCEPT !.uri = @ \o s]
<1> DEFINE n == Len(s)
           run == [i \in 0..n |-> [p EXCEPT !.uri = @ \o SubSeq(s, 1, i)]]
<1>1. /\ n \in Nat /\ DOMAIN s = 1..n /\ s \in Seq(Alphabet)
      /\ \A i \in 1..n : s[i] \in Text
  BY DEF Text
<1>2. p \in Parsers /\ p.uri \in Seq(Alphabet) /\ p.result = "indeterminate"
  BY DEF Reading, Parsers
<1>3. run[0] = p
  <2>1. SubSeq(s, 1, 0) = <<>> /\ p.uri \o <<>> = p.uri
    BY <1>1, <1>2
  <2>2. [p EXCEPT !.uri = p.uri \o SubSeq(s, 1, 0)] = p
    BY <1>2, <2>1 DEF Parsers
  <2>3. 0 \in 0..n
    BY <1>1
  <2>4. run[0] = [p EXCEPT !.uri = p.uri \o SubSeq(s, 1, 0)]
    BY <2>3
  <2> QED
    BY <2>2, <2>4
<1>4. ASSUME NEW i \in 0..(n - 1) PROVE run[i + 1] = Step(run[i], s[i + 1])
  <2> DEFINE row == Row("uri", Text, "uri", "uri")
             q == [p EXCEPT !.uri = @ \o SubSeq(s, 1, i)]
  <2>1. row \in Rows
    BY DEF Rows, UriRows
  <2>2. q.result = "indeterminate" /\ q.state = "uri" /\ s[i + 1] \in Text
    BY <1>1, <1>2 DEF Parsers
  <2>3. Step(q, s[i + 1]) = Take(q, row, s[i + 1])
    BY <2>1, <2>2, RowStep, ZenonT(60) DEF Row
  <2>4. Take(q, row, s[i + 1]) = [q EXCEPT !.state = "uri", !.uri = Append(@, s[i + 1])]
    BY DEF Take, Row
  <2>5. p.uri \o SubSeq(s, 1, i + 1) = Append(p.uri \o SubSeq(s, 1, i), s[i + 1])
    BY <1>1, <1>2, OneLonger
  <2>6. [q EXCEPT !.state = "uri", !.uri = Append(@, s[i + 1])]
          = [p EXCEPT !.uri = @ \o SubSeq(s, 1, i + 1)]
    BY <1>2, <2>5 DEF Parsers
  <2>7. run[i] = q /\ run[i + 1] = [p EXCEPT !.uri = @ \o SubSeq(s, 1, i + 1)]
    BY <1>1
  <2> QED
    BY <2>3, <2>4, <2>6, <2>7
<1>5. run[n] = [p EXCEPT !.uri = @ \o s]
  <2>1. SubSeq(s, 1, n) = s /\ n \in 0..n
    BY <1>1, SubSeqFull
  <2>2. run[n] = [p EXCEPT !.uri = p.uri \o SubSeq(s, 1, n)]
    BY <2>1
  <2> QED
    BY <2>1, <2>2
<1> HIDE DEF run, n
<1>6. Runs(run, p, s, n)
  BY <1>3, <1>4 DEF Runs
<1> QED
  BY <1>1, <1>5, <1>6, ParseIs

\* p in another state, and with other headers.
At(p, state)   == [p EXCEPT !.state = state]
Holding(p, hs) == [p EXCEPT !.headers = hs]

(* A character that only leads to another state.                           *)
LEMMA SkipStep ==
  ASSUME NEW p \in Reading, NEW on, NEW to, to # "header_lws", NEW c \in on,
         Skip(p.state, on, to) \in Rows
  PROVE  Step(p, c) = At(p, to) /\ At(p, to) \in Reading
<1> DEFINE row == Skip(p.state, on, to)
<1>1. p \in Parsers /\ p.result = "indeterminate"
  BY DEF Reading
<1>2. row.at = p.state /\ row.on = on /\ row.to = to /\ row.into = "nothing"
  BY DEF Row, Skip
<1>3. Step(p, c) = Take(p, row, c)
  <2> HIDE DEF row
  <2> QED
    BY <1>1, <1>2, RowStep DEF row
<1>4. Take(p, row, c) = [p EXCEPT !.state = to]
  BY <1>2 DEF Take
<1>5. to \in States
  BY DEF States, Rows, UriRows, RequestLine, HeaderLines, Row, Skip
<1>6. [p EXCEPT !.state = to] \in Reading
  BY <1>1, <1>5 DEF Reading, Parsers
<1> QED
  BY <1>3, <1>4, <1>6 DEF At

\* The states that the end of the request line leads through.
VersionStates ==
  <<"uri", "http_version_h", "http_version_t_1", "http_version_t_2", "http_version_p",
    "http_version_slash", "http_version_major_start", "http_version_major",
    "http_version_minor_start", "http_version_minor", "expecting_newline_1",
    "header_line_start">>

Version == <<"?", "H", "T", "T", "P", "/", "1", ".", "1", CR, LF>>

\* The characters that lead on.
VersionOn ==
  <<{"?"}, {"H"}, {"T"}, {"T"}, {"P"}, {"/"}, Digit, {"."}, Digit, {CR}, {LF}>>

(* There is a row for each of these steps.                                 *)
LEMMA VersionRow ==
  ASSUME NEW i \in 1..11
  PROVE  Skip(VersionStates[i], VersionOn[i], VersionStates[i + 1]) \in Rows
<1> DEFINE row == Skip(VersionStates[i], VersionOn[i], VersionStates[i + 1])
<1>1. row \in UriRows \cup RequestLine
  <2>1. i \in {1, 2, 3, 4, 5, 6, 7, 8, 9, 10, 11}
    OBVIOUS
  <2>2. row \in UriRows \cup RequestLine
    <3>1. CASE i = 1
      BY <3>1 DEF VersionStates, VersionOn, UriRows, RequestLine
    <3>2. CASE i = 2
      BY <3>2 DEF VersionStates, VersionOn, UriRows, RequestLine
    <3>3. CASE i = 3
      BY <3>3 DEF VersionStates, VersionOn, UriRows, RequestLine
    <3>4. CASE i = 4
      BY <3>4 DEF VersionStates, VersionOn, UriRows, RequestLine
    <3>5. CASE i = 5
      BY <3>5 DEF VersionStates, VersionOn, UriRows, RequestLine
    <3>6. CASE i = 6
      BY <3>6 DEF VersionStates, VersionOn, UriRows, RequestLine
    <3>7. CASE i = 7
      BY <3>7 DEF VersionStates, VersionOn, UriRows, RequestLine
    <3>8. CASE i = 8
      BY <3>8 DEF VersionStates, VersionOn, UriRows, RequestLine
    <3>9. CASE i = 9
      BY <3>9 DEF VersionStates, VersionOn, UriRows, RequestLine
    <3>10. CASE i = 10
      BY <3>10 DEF VersionStates, VersionOn, UriRows, RequestLine
    <3>11. CASE i = 11
      BY <3>11 DEF VersionStates, VersionOn, UriRows, RequestLine
    <3> QED
      BY <2>1, <3>1, <3>2, <3>3, <3>4, <3>5, <3>6, <3>7, <3>8, <3>9, <3>10, <3>11
  <2> QED
    BY <2>2
<1> QED
  BY <1>1 DEF Rows

(* Each character of the version leads to the next of these states.        *)
LEMMA VersionStep ==
  ASSUME NEW p \in Reading, NEW i \in 1..11, p.state = VersionStates[i]
  PROVE  /\ Step(p, Version[i]) = [p EXCEPT !.state = VersionStates[i + 1]]
         /\ [p EXCEPT !.state = VersionStates[i + 1]] \in Reading
<1>1. Version[i] \in VersionOn[i] /\ VersionStates[i + 1] # "header_lws"
  <2>1. i \in {1, 2, 3, 4, 5, 6, 7, 8, 9, 10, 11}
    OBVIOUS
  <2> QED
    BY <2>1 DEF VersionOn, Version, VersionStates, Digit
<1> QED
  BY <1>1, VersionRow, SkipStep DEF At

(* The rest of the request line.                                           *)
LEMMA ParseVersion ==
  ASSUME NEW p \in Reading, p.state = "uri"
  PROVE  /\ Parse(p, Version) = [p EXCEPT !.state = "header_line_start"]
         /\ [p EXCEPT !.state = "header_line_start"] \in Reading
<1> DEFINE run == [i \in 0..11 |-> [p EXCEPT !.state = VersionStates[i + 1]]]
<1>0. p \in Parsers
  BY DEF Reading
<1>1. run[0] = p
  BY <1>0 DEF VersionStates, Parsers
<1>2. \A i \in 1..12 : [p EXCEPT !.state = VersionStates[i]] \in Reading
  <2>1. ASSUME NEW i \in 1..12 PROVE VersionStates[i] \in States
    <3>1. CASE i \in 1..11
      BY <3>1, VersionRow DEF States, Skip, Row
    <3>2. CASE i = 12
      <4>1. Skip("header_line_start", {CR}, "expecting_newline_3") \in Rows
        BY DEF Rows, HeaderLines
      <4>2. "header_line_start" \in States
        BY <4>1 DEF States, Skip, Row
      <4> QED
        BY <3>2, <4>2 DEF VersionStates
    <3> QED
      BY <3>1, <3>2
  <2> QED
    BY <1>0, <2>1 DEF Parsers, Reading
<1>3. ASSUME NEW i \in 0..10 PROVE run[i + 1] = Step(run[i], Version[i + 1])
  <2> DEFINE q == [p EXCEPT !.state = VersionStates[i + 1]]
  <2>0. i + 1 \in 1..11 /\ i + 1 \in 1..12
    OBVIOUS
  <2>1. q \in Reading /\ q.state = VersionStates[i + 1]
    BY <1>0, <1>2, <2>0 DEF Parsers
  <2>2. [q EXCEPT !.state = VersionStates[(i + 1) + 1]]
          = [p EXCEPT !.state = VersionStates[(i + 1) + 1]]
    BY <1>0 DEF Parsers
  <2>3. run[i] = q /\ run[i + 1] = [p EXCEPT !.state = VersionStates[(i + 1) + 1]]
    OBVIOUS
  <2> HIDE DEF q, run
  <2>4. Step(q, Version[i + 1]) = [q EXCEPT !.state = VersionStates[(i + 1) + 1]]
    BY <2>0, <2>1, VersionStep
  <2> QED
    BY <2>2, <2>3, <2>4
<1>4. run[11] = [p EXCEPT !.state = "header_line_start"]
  BY DEF VersionStates
<1>5. DOMAIN Version = 1..11 /\ 11 \in Nat
  BY DEF Version
<1>6. VersionStates[12] = "header_line_start"
  BY DEF VersionStates
<1> HIDE DEF run
<1>7. Runs(run, p, Version, 11)
  BY <1>1, <1>3 DEF Runs
<1>8. Parse(p, Version) = run[11]
  BY <1>5, <1>7, ParseIs, ZenonT(60)
<1> QED
  BY <1>2, <1>4, <1>6, <1>8

(* Two characters are two steps.                                           *)
LEMMA ParseTwo ==
  ASSUME NEW p, NEW a, NEW b
  PROVE  Parse(p, <<a, b>>) = Step(Step(p, a), b)
<1> DEFINE run == [i \in 0..2 |-> CASE i = 0 -> p [] i = 1 -> Step(p, a)
                                    [] i = 2 -> Step(Step(p, a), b)]
<1>1. run[0] = p /\ run[1] = Step(p, a) /\ run[2] = Step(Step(p, a), b)
  OBVIOUS
<1>2. DOMAIN <<a, b>> = 1..2 /\ 2 \in Nat /\ \A i \in 0..(2 - 1) : i \in {0, 1}
  OBVIOUS
<1> DEFINE s == <<a, b>>
<1> HIDE DEF run
<1>3. Runs(run, p, s, 2)
  BY <1>1, <1>2 DEF Runs
<1>4. DOMAIN s = 1..2
  BY <1>2
<1> HIDE DEF s
<1>5. Parse(p, s) = run[2]
  BY <1>2, <1>3, <1>4, ParseIs
<1> QED
  BY <1>1, <1>5 DEF s

(* Three characters are three steps.                                       *)
LEMMA ParseThree ==
  ASSUME NEW p, NEW a, NEW b, NEW c
  PROVE  Parse(p, <<a, b, c>>) = Step(Step(Step(p, a), b), c)
<1> DEFINE run == [i \in 0..3 |-> CASE i = 0 -> p [] i = 1 -> Step(p, a)
                                    [] i = 2 -> Step(Step(p, a), b)
                                    [] i = 3 -> Step(Step(Step(p, a), b), c)]
<1>1. /\ run[0] = p /\ run[1] = Step(p, a) /\ run[2] = Step(Step(p, a), b)
      /\ run[3] = Step(Step(Step(p, a), b), c)
  OBVIOUS
<1>2. DOMAIN <<a, b, c>> = 1..3 /\ 3 \in Nat /\ \A i \in 0..(3 - 1) : i \in {0, 1, 2}
  OBVIOUS
<1> DEFINE s == <<a, b, c>>
<1> HIDE DEF run
<1>3. Runs(run, p, s, 3)
  BY <1>1, <1>2 DEF Runs
<1>4. DOMAIN s = 1..3
  BY <1>2
<1> HIDE DEF s
<1>5. Parse(p, s) = run[3]
  BY <1>2, <1>3, <1>4, ParseIs
<1> QED
  BY <1>1, <1>5 DEF s

(* The last element of a sequence is replaced.                             *)
LEMMA LastReplaced ==
  ASSUME NEW C, NEW s \in Seq(C), NEW x \in C, NEW y \in C
  PROVE  [Append(s, x) EXCEPT ![Len(s) + 1] = y] = Append(s, y)
<1> DEFINE a == Append(s, x)
           l == [a EXCEPT ![Len(s) + 1] = y]
           r == Append(s, y)
<1>1. /\ a \in Seq(C) /\ Len(a) = Len(s) + 1 /\ \A k \in 1..Len(s) : a[k] = s[k]
      /\ r \in Seq(C) /\ Len(r) = Len(s) + 1 /\ \A k \in 1..Len(s) : r[k] = s[k]
      /\ r[Len(s) + 1] = y
  BY AppendProperties
<1>2. Len(s) \in Nat
  OBVIOUS
<1> HIDE DEF a, r
<1>3. /\ l \in Seq(C) /\ Len(l) = Len(s) + 1
      /\ \A k \in 1..Len(a) : l[k] = IF k = Len(s) + 1 THEN y ELSE a[k]
  BY <1>1, <1>2, ExceptSeq
<1> HIDE DEF l
<1>4. \A k \in 1..Len(l) : l[k] = r[k]
  BY <1>1, <1>2, <1>3
<1>5. l = r
  BY <1>1, <1>3, <1>4, SeqEqual
<1> QED
  BY <1>5 DEF a, l, r

(* A header is added with an empty value, to which its text is added.      *)
LEMMA ParseValue ==
  ASSUME NEW p \in Reading, NEW hs \in Seq(Seq(Alphabet)), p.headers = Append(hs, <<>>),
         p.state = "header_value", NEW s \in Seq(Text)
  PROVE  Parse(p, s) = Holding(p, Append(hs, s))
<1> DEFINE n == Len(s)
           run == [i \in 0..n |-> [p EXCEPT !.headers = Append(hs, SubSeq(s, 1, i))]]
<1>1. /\ n \in Nat /\ DOMAIN s = 1..n /\ s \in Seq(Alphabet)
      /\ \A i \in 1..n : s[i] \in Text
  BY DEF Text
<1>2. p \in Parsers /\ p.result = "indeterminate"
  BY DEF Reading
<1>3. run[0] = p
  <2>1. SubSeq(s, 1, 0) = <<>>
    BY <1>1
  <2>2. [p EXCEPT !.headers = Append(hs, SubSeq(s, 1, 0))] = p
    BY <1>2, <2>1 DEF Parsers
  <2>3. 0 \in 0..n
    BY <1>1
  <2>4. run[0] = [p EXCEPT !.headers = Append(hs, SubSeq(s, 1, 0))]
    BY <2>3
  <2> QED
    BY <2>2, <2>4
<1>4. ASSUME NEW i \in 0..(n - 1) PROVE run[i + 1] = Step(run[i], s[i + 1])
  <2> DEFINE row == Row("header_value", Text, "header_value", "value")
             x == SubSeq(s, 1, i)
             c == s[i + 1]
             q == [p EXCEPT !.headers = Append(hs, x)]
  <2>1. row \in Rows
    BY DEF Rows, HeaderLines
  <2>2. q.result = "indeterminate" /\ q.state = "header_value" /\ c \in Text
    BY <1>1, <1>2 DEF Parsers
  <2>3. x \in Seq(Alphabet) /\ c \in Alphabet /\ SubSeq(s, 1, i + 1) = Append(x, c)
    BY <1>1
  <2>4. q.headers = Append(hs, x)
    BY <1>2 DEF Parsers
  <2> HIDE DEF x, c
  <2>5. Step(q, c) = Take(q, row, c)
    <3> HIDE DEF q
    <3> QED
      BY <2>1, <2>2, RowStep DEF Row
  <2>6. Take(q, row, c)
          = [q EXCEPT !.state = "header_value", !.headers[Len(q.headers)] = Append(@, c)]
    BY <2>2 DEF Take, Row
  <2>7. [q.headers EXCEPT ![Len(q.headers)] = Append(@, c)] = Append(hs, Append(x, c))
    <3>1. Append(x, c) \in Seq(Alphabet)
      BY <2>3
    <3>2. Len(Append(hs, x)) = Len(hs) + 1 /\ Append(hs, x)[Len(hs) + 1] = x
      BY <2>3
    <3>3. [Append(hs, x) EXCEPT ![Len(hs) + 1] = Append(x, c)] = Append(hs, Append(x, c))
      <4> DEFINE D == Seq(Alphabet)
                 y == Append(x, c)
      <4>1. hs \in Seq(D) /\ x \in D /\ y \in D
        BY <2>3, <3>1
      <4> HIDE DEF D, y
      <4>2. [Append(hs, x) EXCEPT ![Len(hs) + 1] = y] = Append(hs, y)
        BY <4>1, LastReplaced
      <4> QED
        BY <4>2 DEF y
    <3> QED
      BY <2>4, <3>2, <3>3
  <2>8. [q EXCEPT !.state = "header_value", !.headers[Len(q.headers)] = Append(@, c)]
          = [p EXCEPT !.headers = Append(hs, Append(x, c))]
    BY <1>2, <2>4, <2>7 DEF Parsers
  <2>9. run[i] = q /\ run[i + 1] = [p EXCEPT !.headers = Append(hs, SubSeq(s, 1, i + 1))]
    BY <1>1 DEF x
  <2> QED
    BY <2>3, <2>5, <2>6, <2>8, <2>9 DEF c
<1>5. run[n] = [p EXCEPT !.headers = Append(hs, s)]
  <2>1. SubSeq(s, 1, n) = s /\ n \in 0..n
    BY <1>1, SubSeqFull
  <2>2. run[n] = [p EXCEPT !.headers = Append(hs, SubSeq(s, 1, n))]
    BY <2>1
  <2> QED
    BY <2>1, <2>2
<1> HIDE DEF run, n
<1>6. Runs(run, p, s, n)
  BY <1>3, <1>4 DEF Runs
<1> QED
  BY <1>1, <1>5, <1>6, ParseIs DEF Holding

(* The pieces of a text can be put together in any order.                  *)
LEMMA Regroup ==
  ASSUME NEW a \in Seq(Alphabet), NEW b \in Seq(Alphabet), NEW c \in Seq(Alphabet),
         NEW ab, ab = a \o b, NEW bc, bc = b \o c
  PROVE  ab \o c = a \o bc
BY ConcatAssociative, SMTT(60)

(* The text of a request is made of characters.                            *)
LEMMA HeaderText ==
  ASSUME NEW v \in Seq(Text)
  PROVE  Header(v) \in Seq(Alphabet)
<1>1. "z" \in Alphabet /\ {":", SP, CR, LF} \subseteq Alphabet /\ v \in Seq(Alphabet)
  BY Letters DEF Token, Text, Alphabet, Special, Ctl
<1>2. <<"z", ":", SP>> \in Seq(Alphabet) /\ <<CR, LF>> \in Seq(Alphabet)
  BY <1>1
<1> QED
  BY <1>1, <1>2, ConcatProperties DEF Header

(* The name of a header adds an empty value.                               *)
LEMMA ParseName ==
  ASSUME NEW p \in Reading, p.state = "header_line_start"
  PROVE  LET q == [p EXCEPT !.state = "header_value", !.headers = Append(@, <<>>)]
         IN /\ Parse(p, <<"z", ":", SP>>) = q /\ <<"z", ":", SP>> \in Seq(Alphabet)
            /\ q \in Reading /\ q.state = "header_value" /\ q.headers = Append(p.headers, <<>>)
<1> DEFINE hs == p.headers
           q0 == [p EXCEPT !.state = "header_name", !.headers = Append(@, <<>>)]
           q1 == [p EXCEPT !.state = "space_before_header_value",
                           !.headers = Append(@, <<>>)]
           q2 == [p EXCEPT !.state = "header_value", !.headers = Append(@, <<>>)]
<1>1. p \in Parsers /\ p.result = "indeterminate" /\ hs \in Seq(Seq(Alphabet))
  BY DEF Reading, Parsers
<1>2. /\ Skip("header_name", {":"}, "space_before_header_value") \in Rows
      /\ Skip("space_before_header_value", {SP}, "header_value") \in Rows
      /\ Skip("header_value", {CR}, "expecting_newline_2") \in Rows
  BY DEF Rows, HeaderLines
<1>3. {"header_name", "space_before_header_value", "header_value"} \subseteq States
  BY <1>2 DEF States, Skip, Row
<1>4. Append(hs, <<>>) \in Seq(Seq(Alphabet))
  BY <1>1
<1>5. q0 \in Reading /\ q1 \in Reading /\ q2 \in Reading
  BY <1>1, <1>3, <1>4 DEF Reading, Parsers
<1>6. /\ q0.state = "header_name" /\ q1.state = "space_before_header_value"
      /\ q2.state = "header_value" /\ q2.headers = Append(hs, <<>>)
  BY <1>1 DEF Parsers
<1>7. At(q0, "space_before_header_value") = q1 /\ At(q1, "header_value") = q2
  BY <1>1 DEF Parsers, At
<1>8. Step(p, "z") = q0
  <2> DEFINE row == Row("header_line_start", Token, "header_name", "headers")
  <2>1. row \in Rows /\ "z" \in Token
    BY Letters DEF Rows, HeaderLines
  <2>2. Step(p, "z") = Take(p, row, "z")
    BY <1>1, <2>1, RowStep DEF Row
  <2> QED
    BY <1>1, <2>2 DEF Take, Row, Parsers
<1>9. <<"z", ":", SP>> \in Seq(Alphabet)
  <2>1. {"z", ":", SP} \subseteq Alphabet
    BY Letters DEF Token, Alphabet, Special, Ctl
  <2> QED
    BY <2>1
<1> HIDE DEF q0, q1, q2
<1>10. Step(q0, ":") = q1
  BY <1>2, <1>5, <1>6, <1>7, SkipStep
<1>11. Step(q1, SP) = q2
  BY <1>2, <1>5, <1>6, <1>7, SkipStep DEF SP
<1>12. Parse(p, <<"z", ":", SP>>) = q2
  BY <1>8, <1>10, <1>11, ParseThree
<1> QED
  BY <1>5, <1>6, <1>9, <1>12 DEF q2

(* A line of the header adds its value, and nothing else.                  *)
LEMMA ParseHeader ==
  ASSUME NEW p \in Reading, p.state = "header_line_start", NEW v \in Seq(Text)
  PROVE  /\ Parse(p, Header(v)) = [p EXCEPT !.headers = Append(@, v)]
         /\ [p EXCEPT !.headers = Append(@, v)] \in Reading
<1> DEFINE hs == p.headers
           q2 == [p EXCEPT !.state = "header_value", !.headers = Append(@, <<>>)]
           q3 == [p EXCEPT !.state = "header_value", !.headers = Append(@, v)]
           q4 == [p EXCEPT !.state = "expecting_newline_2", !.headers = Append(@, v)]
           q5 == [p EXCEPT !.headers = Append(@, v)]
           a  == <<"z", ":", SP>>
           b  == <<CR, LF>>
<1>1. /\ p \in Parsers /\ p.result = "indeterminate" /\ hs \in Seq(Seq(Alphabet))
      /\ v \in Seq(Alphabet)
  BY DEF Reading, Parsers, Text
<1>2. /\ Skip("header_value", {CR}, "expecting_newline_2") \in Rows
      /\ Skip("expecting_newline_2", {LF}, "header_line_start") \in Rows
  BY DEF Rows, HeaderLines
<1>3. {"header_value", "expecting_newline_2"} \subseteq States
  BY <1>2 DEF States, Skip, Row
<1>4. Append(hs, v) \in Seq(Seq(Alphabet))
  BY <1>1
<1>5. q3 \in Reading /\ q4 \in Reading /\ q5 \in Reading
  BY <1>1, <1>3, <1>4 DEF Reading, Parsers
<1>6. q3.state = "header_value" /\ q4.state = "expecting_newline_2"
  BY <1>1 DEF Parsers
<1>7. /\ Holding(q2, Append(hs, v)) = q3 /\ At(q3, "expecting_newline_2") = q4
      /\ At(q4, "header_line_start") = q5
  BY <1>1 DEF Parsers, At, Holding
<1>8. /\ Parse(p, a) = q2 /\ a \in Seq(Alphabet) /\ q2 \in Reading
      /\ q2.state = "header_value" /\ q2.headers = Append(hs, <<>>)
  BY ParseName
<1>9. Header(v) = (a \o v) \o b
  BY DEF Header
<1>10. b \in Seq(Alphabet)
  BY DEF Alphabet, Ctl
<1> HIDE DEF q2, q3, q4, q5, hs
<1>11. Step(q3, CR) = q4
  <2>1. Skip(q3.state, {CR}, "expecting_newline_2") \in Rows /\ CR \in {CR}
    BY <1>2, <1>6
  <2>2. Step(q3, CR) = At(q3, "expecting_newline_2")
    BY <1>5, <2>1, SkipStep
  <2> QED
    BY <1>7, <2>2
<1>12. Step(q4, LF) = q5
  <2>1. Skip(q4.state, {LF}, "header_line_start") \in Rows /\ LF \in {LF}
    BY <1>2, <1>6
  <2>2. Step(q4, LF) = At(q4, "header_line_start")
    BY <1>5, <2>1, SkipStep
  <2> QED
    BY <1>7, <2>2
<1>13. Parse(q2, v) = q3
  BY <1>1, <1>7, <1>8, ParseValue DEF hs
<1>14. Parse(q3, b) = q5
  BY <1>11, <1>12, ParseTwo
<1> HIDE DEF a, b
<1>15. Parse(p, a \o v) = q3 /\ a \o v \in Seq(Alphabet)
  BY <1>1, <1>8, <1>13, ParseConcat, ConcatProperties
<1>16. Parse(p, (a \o v) \o b) = q5
  <2> DEFINE w == a \o v
  <2>1. w \in Seq(Alphabet) /\ Parse(p, w) = q3
    BY <1>15
  <2> HIDE DEF w
  <2>2. Parse(p, w \o b) = q5
    BY <1>10, <1>14, <2>1, ParseConcat
  <2> QED
    BY <2>2 DEF w
<1> QED
  BY <1>5, <1>9, <1>16 DEF q5

(* The seven headers, one behind the other.                                *)
LEMMA FlattenSeven ==
  ASSUME NEW h, DOMAIN h = 1..7, Len(h) = 7
  PROVE  \E g : /\ g[1] = h[1] /\ FlattenSeq(h) = g[7]
                /\ \A i \in 1..6 : g[i + 1] = g[i] \o h[i + 1]
<1> DEFINE F(x) == [i \in 1..7 |-> IF i = 1 THEN h[i] ELSE x[i - 1] \o h[i]]
           g == CHOOSE x : x = F(x)
           x2 == h[1] \o h[2]
           x3 == x2 \o h[3]
           x4 == x3 \o h[4]
           x5 == x4 \o h[5]
           x6 == x5 \o h[6]
           x7 == x6 \o h[7]
           w == <<h[1], x2, x3, x4, x5, x6, x7>>
<1>1. \A i \in 1..7 : w[i] = IF i = 1 THEN h[i] ELSE w[i - 1] \o h[i]
  <2>1. /\ w[1] = h[1] /\ w[2] = w[1] \o h[2] /\ w[3] = w[2] \o h[3]
        /\ w[4] = w[3] \o h[4] /\ w[5] = w[4] \o h[5] /\ w[6] = w[5] \o h[6]
        /\ w[7] = w[6] \o h[7]
    OBVIOUS
  <2> HIDE DEF w
  <2>2. SUFFICES ASSUME NEW i \in 1..7
                 PROVE  w[i] = IF i = 1 THEN h[i] ELSE w[i - 1] \o h[i]
    OBVIOUS
  <2>3. CASE i = 1
    BY <2>1, <2>3
  <2>4. CASE i = 2
    <3>1. i # 1 /\ i - 1 = 1
      BY <2>4
    <3> QED
      BY <2>1, <2>4, <3>1, Zenon
  <2>5. CASE i = 3
    <3>1. i # 1 /\ i - 1 = 2
      BY <2>5
    <3> QED
      BY <2>1, <2>5, <3>1, Zenon
  <2>6. CASE i = 4
    <3>1. i # 1 /\ i - 1 = 3
      BY <2>6
    <3> QED
      BY <2>1, <2>6, <3>1, Zenon
  <2>7. CASE i = 5
    <3>1. i # 1 /\ i - 1 = 4
      BY <2>7
    <3> QED
      BY <2>1, <2>7, <3>1, Zenon
  <2>8. CASE i = 6
    <3>1. i # 1 /\ i - 1 = 5
      BY <2>8
    <3> QED
      BY <2>1, <2>8, <3>1, Zenon
  <2>9. CASE i = 7
    <3>1. i # 1 /\ i - 1 = 6
      BY <2>9
    <3> QED
      BY <2>1, <2>9, <3>1, Zenon
  <2> QED
    BY <2>3, <2>4, <2>5, <2>6, <2>7, <2>8, <2>9
<1>2. w = F(w)
  <2>1. DOMAIN w = 1..7
    OBVIOUS
  <2>2. w = [i \in 1..7 |-> w[i]]
    BY <2>1
  <2> HIDE DEF w
  <2> QED
    BY <1>1, <2>2
<1> HIDE DEF w
<1>3. g = F(g)
  BY <1>2
<1>4. FlattenSeq(h) = g[7]
  BY DEF FlattenSeq
<1> HIDE DEF g
<1>5. \A i \in 1..7 : g[i] = IF i = 1 THEN h[i] ELSE g[i - 1] \o h[i]
  BY <1>3
<1>6. ASSUME NEW i \in 1..6 PROVE g[i + 1] = g[i] \o h[i + 1]
  <2>1. i + 1 \in 1..7 /\ i + 1 # 1 /\ (i + 1) - 1 = i
    OBVIOUS
  <2> QED
    BY <1>5, <2>1
<1>7. g[1] = h[1]
  BY <1>5
<1> QED
  BY <1>4, <1>6, <1>7

(* They are a text.                                                        *)
LEMMA FlattenText ==
  ASSUME NEW h, DOMAIN h = 1..7, Len(h) = 7, \A i \in 1..7 : h[i] \in Seq(Alphabet)
  PROVE  FlattenSeq(h) \in Seq(Alphabet)
<1>1. PICK g : /\ g[1] = h[1] /\ FlattenSeq(h) = g[7]
               /\ \A i \in 1..6 : g[i + 1] = g[i] \o h[i + 1]
  BY FlattenSeven
<1> DEFINE T == {k \in Nat : k <= 6 => g[k + 1] \in Seq(Alphabet)}
<1>2. 0 \in T
  <2>1. 1 \in 1..7 /\ 0 + 1 = 1
    OBVIOUS
  <2> QED
    BY <1>1, <2>1
<1>3. ASSUME NEW k \in T PROVE k + 1 \in T
  <2>1. SUFFICES ASSUME k + 1 <= 6 PROVE g[(k + 1) + 1] \in Seq(Alphabet)
    OBVIOUS
  <2>2. k + 1 \in 1..6 /\ (k + 1) + 1 \in 1..7
    BY <2>1
  <2> DEFINE a == g[k + 1]
             b == h[(k + 1) + 1]
  <2>3. a \in Seq(Alphabet)
    BY <2>1
  <2>4. b \in Seq(Alphabet)
    BY <2>2
  <2>5. g[(k + 1) + 1] = a \o b
    BY <1>1, <2>2
  <2> HIDE DEF a, b
  <2> QED
    BY <2>3, <2>4, <2>5, ConcatProperties
<1>4. T = Nat
  <2> HIDE DEF T
  <2>1. T \in SUBSET Nat
    BY DEF T
  <2> QED
    BY <1>2, <1>3, <2>1, Induction
<1>5. 6 \in T
  <2> HIDE DEF T
  <2> QED
    BY <1>4
<1>6. 6 <= 6 /\ 6 + 1 = 7
  OBVIOUS
<1> QED
  BY <1>1, <1>5, <1>6

(* The seven headers add their values in the order of their positions.     *)
LEMMA ParseHeaders ==
  ASSUME NEW p \in Reading, p.state = "header_line_start", p.headers = <<>>,
         NEW vs \in Seq(Seq(Text)), Len(vs) = 7
  PROVE  LET text == FlattenSeq([i \in 1..7 |-> Header(vs[i])])
         IN /\ text \in Seq(Alphabet)
            /\ Parse(p, text) = Holding(p, vs)
            /\ Holding(p, vs) \in Reading
<1> DEFINE h == [i \in 1..7 |-> Header(vs[i])]
           q(k) == Holding(p, SubSeq(vs, 1, k))
<1>1. DOMAIN h = 1..7 /\ Len(h) = 7 /\ \A i \in 1..7 : h[i] = Header(vs[i])
  OBVIOUS
<1>2. p \in Parsers /\ p.result = "indeterminate" /\ Seq(Text) \subseteq Seq(Alphabet)
  BY DEF Reading, Parsers, Text
<1>3. /\ \A k \in 0..7 : SubSeq(vs, 1, k) \in Seq(Seq(Text))
      /\ \A i \in 1..7 : vs[i] \in Seq(Text)
  <2> DEFINE D == Seq(Text)
  <2>1. vs \in Seq(D)
    OBVIOUS
  <2> HIDE DEF D
  <2>2. Len(vs) = 7 /\ DOMAIN vs = 1..7
    BY <2>1, LenProperties
  <2>3. \A i \in 1..7 : vs[i] \in D
    BY <2>1, <2>2, ElementOfSeq
  <2>4. ASSUME NEW k \in 0..7 PROVE SubSeq(vs, 1, k) \in Seq(D)
    <3>1. \A i \in 1..k : vs[i] \in D
      BY <2>3
    <3>2. k \in Nat /\ 1 \in Int /\ k \in Int
      OBVIOUS
    <3> QED
      BY <2>1, <2>2, <3>1, <3>2, SubSeqProperties
  <2> QED
    BY <2>3, <2>4 DEF D
<1>4. ASSUME NEW k \in 0..7
      PROVE  /\ q(k) \in Reading /\ q(k).state = "header_line_start"
             /\ q(k).headers = SubSeq(vs, 1, k)
  <2>1. SubSeq(vs, 1, k) \in Seq(Seq(Alphabet))
    BY <1>2, <1>3, SeqMonotonic
  <2> QED
    BY <1>2, <2>1 DEF Parsers, Reading, Holding
<1>5. ASSUME NEW k \in 0..6 PROVE Parse(q(k), h[k + 1]) = q(k + 1)
  <2>0. k \in 0..7 /\ k + 1 \in 1..7
    OBVIOUS
  <2>1. vs[k + 1] \in Seq(Text) /\ k \in 0..7 /\ k + 1 \in 1..7
    BY <1>3, <2>0
  <2>2. Append(SubSeq(vs, 1, k), vs[k + 1]) = SubSeq(vs, 1, k + 1)
    <3>1. SubSeq(vs, 1, k + 1) = SubSeq(vs, 1, (k + 1) - 1) \o <<vs[k + 1]>>
      BY <2>1, SubSeqRecursiveSecond
    <3>2. (k + 1) - 1 = k
      OBVIOUS
    <3> QED
      BY <1>3, <2>1, <3>1, <3>2, AppendIsConcat
  <2>3. Parse(q(k), Header(vs[k + 1]))
          = [q(k) EXCEPT !.headers = Append(@, vs[k + 1])]
    <3> HIDE DEF q
    <3> QED
      BY <1>4, <2>1, ParseHeader
  <2>4. [q(k) EXCEPT !.headers = Append(@, vs[k + 1])]
          = Holding(p, Append(SubSeq(vs, 1, k), vs[k + 1]))
    BY <1>2 DEF Holding, Parsers
  <2> QED
    BY <1>1, <2>1, <2>2, <2>3, <2>4
<1>6. q(0) = p
  BY <1>2 DEF Holding, Parsers
<1>7. q(7) = Holding(p, vs)
  BY SubSeqFull
<1>8. \A i \in 1..7 : h[i] \in Seq(Alphabet)
  BY <1>1, <1>3, HeaderText
<1> HIDE DEF h, q
<1>9. PICK g : /\ g[1] = h[1] /\ FlattenSeq(h) = g[7]
               /\ \A i \in 1..6 : g[i + 1] = g[i] \o h[i + 1]
  BY <1>1, FlattenSeven
<1> DEFINE T == {k \in Nat : k <= 6 => /\ g[k + 1] \in Seq(Alphabet)
                                       /\ Parse(p, g[k + 1]) = q(k + 1)}
<1>10. 0 \in T
  <2>1. 0 \in 0..6 /\ 1 \in 1..7 /\ 0 + 1 = 1
    OBVIOUS
  <2>2. Parse(q(0), h[0 + 1]) = q(0 + 1)
    BY <1>5, <2>1
  <2> QED
    BY <1>6, <1>8, <1>9, <2>1, <2>2
<1>11. ASSUME NEW k \in T PROVE k + 1 \in T
  <2>1. SUFFICES ASSUME k + 1 <= 6
                 PROVE  /\ g[(k + 1) + 1] \in Seq(Alphabet)
                        /\ Parse(p, g[(k + 1) + 1]) = q((k + 1) + 1)
    OBVIOUS
  <2>2. k + 1 \in 1..6 /\ k + 1 \in 0..6 /\ (k + 1) + 1 \in 1..7
    BY <2>1
  <2>3. g[k + 1] \in Seq(Alphabet) /\ Parse(p, g[k + 1]) = q(k + 1)
    BY <2>1
  <2>4. g[(k + 1) + 1] = g[k + 1] \o h[(k + 1) + 1]
    BY <1>9, <2>2
  <2>5. h[(k + 1) + 1] \in Seq(Alphabet) /\ Parse(q(k + 1), h[(k + 1) + 1]) = q((k + 1) + 1)
    BY <1>5, <1>8, <2>2
  <2> DEFINE a == g[k + 1]
             b == h[(k + 1) + 1]
  <2> HIDE DEF a, b
  <2>6. a \o b \in Seq(Alphabet) /\ Parse(p, a \o b) = Parse(Parse(p, a), b)
    BY <2>3, <2>5, ParseConcat, ConcatProperties DEF a, b
  <2> QED
    BY <2>3, <2>4, <2>5, <2>6 DEF a, b
<1>12. T = Nat
  <2> HIDE DEF T
  <2>1. T \in SUBSET Nat
    BY DEF T
  <2> QED
    BY <1>10, <1>11, <2>1, Induction
<1>13. 6 \in T
  BY <1>12
<1>14. g[7] \in Seq(Alphabet) /\ Parse(p, g[7]) = q(7)
  BY <1>13
<1>15. Holding(p, vs) \in Reading
  BY <1>4, <1>7
<1>16. FlattenSeq(h) \in Seq(Alphabet) /\ Parse(p, FlattenSeq(h)) = Holding(p, vs)
  BY <1>7, <1>9, <1>14
<1> QED
  BY <1>15, <1>16 DEF h

-----------------------------------------------------------------------------
(* The body.                                                               *)

(* A sequence of four, element by element.                                 *)
LEMMA FourElements ==
  ASSUME NEW C, NEW x \in Seq(C), Len(x) = 4
  PROVE  x = <<x[1], x[2], x[3], x[4]>>
<1> DEFINE y == <<x[1], x[2], x[3], x[4]>>
<1>1. x[1] \in C /\ x[2] \in C /\ x[3] \in C /\ x[4] \in C
  <2>1. \A i \in 1..4 : x[i] \in C
    BY ElementOfSeq
  <2>2. 1 \in 1..4 /\ 2 \in 1..4 /\ 3 \in 1..4 /\ 4 \in 1..4
    OBVIOUS
  <2> QED
    BY <2>1, <2>2
<1>2. y \in Seq(C) /\ Len(y) = 4
  BY <1>1
<1>3. y[1] = x[1] /\ y[2] = x[2] /\ y[3] = x[3] /\ y[4] = x[4]
  OBVIOUS
<1> HIDE DEF y
<1>4. \A i \in 1..4 : x[i] = y[i]
  BY <1>3
<1>5. x = y
  BY <1>2, <1>4, SeqEqual
<1> QED
  BY <1>5 DEF y

(* Where the marker is in a text.                                          *)
LEMMA MarkerAt ==
  ASSUME NEW s \in Seq(Alphabet), NEW i \in 0..(Len(s) - 4)
  PROVE  SubSeq(s, i + 1, i + 4) = Marker <=>
           s[i + 1] = "E" /\ s[i + 2] = "O" /\ s[i + 3] = "F" /\ s[i + 4] = "%"
<1> DEFINE x == SubSeq(s, i + 1, i + 4)
<1>1. Len(x) = 4 /\ x[1] = s[i + 1] /\ x[2] = s[i + 2] /\ x[3] = s[i + 3] /\ x[4] = s[i + 4]
  OBVIOUS
<1>2. x \in Seq(Alphabet)
  OBVIOUS
<1> HIDE DEF x
<1>4. x = <<x[1], x[2], x[3], x[4]>>
  BY <1>1, <1>2, FourElements
<1>3. x = Marker <=> x[1] = "E" /\ x[2] = "O" /\ x[3] = "F" /\ x[4] = "%"
  BY <1>4 DEF Marker
<1> QED
  BY <1>1, <1>3 DEF x

(* A text ends in the marker if its last four characters are the marker.   *)
LEMMA EndsIn ==
  ASSUME NEW s \in Seq(Alphabet)
  PROVE  EndsInMarker(s) <=>
           Len(s) >= 4 /\ SubSeq(s, (Len(s) - 4) + 1, (Len(s) - 4) + 4) = Marker
<1> DEFINE n == Len(s)
           rs == Reverse(s)
           rm == Reverse(Marker)
<1>1. n \in Nat
  OBVIOUS
<1>2. rm = <<"%", "F", "O", "E">> /\ Len(Marker) = 4
  BY DEF Reverse, Marker
<1>3. rs \in Seq(Alphabet) /\ Len(rs) = n /\ \A i \in 1..n : rs[i] = s[(n - i) + 1]
  BY DEF Reverse
<1>4. EndsInMarker(s) <=> 4 <= n /\ rm = SubSeq(rs, 1, 4)
  <2>1. rm \in Seq({"E", "O", "F", "%"}) /\ Len(rm) = 4
    BY <1>2
  <2>2. SubSeq(rm, 1, Len(rm)) = rm
    <3> HIDE DEF rm
    <3> QED
      BY <2>1, SubSeqFull
  <2> QED
    BY <1>3, <2>1, <2>2 DEF EndsInMarker, IsSuffix, IsPrefix
<1> HIDE DEF rs, rm
<1>5. CASE n >= 4
  <2>1. n - 4 \in 0..(n - 4)
    BY <1>1, <1>5
  <2>2. SubSeq(s, (n - 4) + 1, (n - 4) + 4) = Marker <=>
          /\ s[(n - 4) + 1] = "E" /\ s[(n - 4) + 2] = "O"
          /\ s[(n - 4) + 3] = "F" /\ s[(n - 4) + 4] = "%"
    BY <2>1, MarkerAt
  <2>3. SubSeq(rs, 1, 4) = <<rs[1], rs[2], rs[3], rs[4]>>
    <3> DEFINE x == SubSeq(rs, 1, 4)
    <3>1. x \in Seq(Alphabet) /\ Len(x) = 4
      BY <1>3, <1>5
    <3>2. x[1] = rs[1] /\ x[2] = rs[2] /\ x[3] = rs[3] /\ x[4] = rs[4]
      BY <1>3, <1>5
    <3> HIDE DEF x
    <3>3. x = <<x[1], x[2], x[3], x[4]>>
      BY <3>1, FourElements
    <3>4. x = <<rs[1], rs[2], rs[3], rs[4]>>
      BY <3>2, <3>3
    <3> QED
      BY <3>4 DEF x
  <2>4. /\ rs[1] = s[(n - 4) + 4] /\ rs[2] = s[(n - 4) + 3]
        /\ rs[3] = s[(n - 4) + 2] /\ rs[4] = s[(n - 4) + 1]
    BY <1>1, <1>3, <1>5, SMTT(60)
  <2>5. rm = SubSeq(rs, 1, 4) <=>
          rs[1] = "%" /\ rs[2] = "F" /\ rs[3] = "O" /\ rs[4] = "E"
    BY <1>2, <2>3
  <2> QED
    BY <1>4, <1>5, <2>2, <2>4, <2>5
<1>6. CASE ~ (n >= 4)
  BY <1>1, <1>4, <1>6
<1> QED
  BY <1>5, <1>6

(* The last four of the first characters of a text.                        *)
LEMMA EndsInAt ==
  ASSUME NEW t \in Seq(Alphabet), NEW k \in 0..Len(t)
  PROVE  EndsInMarker(SubSeq(t, 1, k)) <=>
           k >= 4 /\ SubSeq(t, (k - 4) + 1, (k - 4) + 4) = Marker
<1> DEFINE u == SubSeq(t, 1, k)
<1>1. u \in Seq(Alphabet) /\ Len(u) = k /\ \A j \in 1..k : u[j] = t[j]
  OBVIOUS
<1>2. k \in Nat /\ Len(t) \in Nat /\ k <= Len(t)
  OBVIOUS
<1> HIDE DEF u
<1>3. EndsInMarker(u) <=> k >= 4 /\ SubSeq(u, (k - 4) + 1, (k - 4) + 4) = Marker
  BY <1>1, EndsIn
<1>4. ASSUME k >= 4
      PROVE  SubSeq(u, (k - 4) + 1, (k - 4) + 4) = Marker
               <=> SubSeq(t, (k - 4) + 1, (k - 4) + 4) = Marker
  <2> DEFINE i == k - 4
  <2>1. i \in 0..(Len(u) - 4) /\ i \in 0..(Len(t) - 4)
    BY <1>1, <1>2, <1>4
  <2>2. i + 1 \in 1..k /\ i + 2 \in 1..k /\ i + 3 \in 1..k /\ i + 4 \in 1..k
    BY <1>2, <1>4
  <2> HIDE DEF i
  <2>3. SubSeq(u, i + 1, i + 4) = Marker <=>
          u[i + 1] = "E" /\ u[i + 2] = "O" /\ u[i + 3] = "F" /\ u[i + 4] = "%"
    BY <1>1, <2>1, MarkerAt
  <2>4. SubSeq(t, i + 1, i + 4) = Marker <=>
          t[i + 1] = "E" /\ t[i + 2] = "O" /\ t[i + 3] = "F" /\ t[i + 4] = "%"
    BY <2>1, MarkerAt
  <2> QED
    BY <1>1, <2>2, <2>3, <2>4 DEF i
<1> QED
  BY <1>3, <1>4 DEF u

(* The body is complete with the first marker in it, and no sooner.        *)
LEMMA ParseBody ==
  ASSUME NEW p \in Reading, p.state = "content_start", p.content = <<>>,
         NEW body \in Seq(Alphabet)
  PROVE  Parse(p, body \o Marker)
           = [p EXCEPT !.content = BeforeMarker(body), !.result = "true"]
<1> DEFINE t == body \o Marker
           l == Len(body)
           n == l + 4
           ends == {i \in 0..l : SubSeq(t, i + 1, i + 4) = Marker}
<1>1. Marker \in Seq(Alphabet) /\ Len(Marker) = 4
  <2>1. Digits64[5] = "E" /\ Digits64[15] = "O" /\ Digits64[6] = "F"
    BY DEF Digits64
  <2>2. {5, 15, 6} \subseteq DOMAIN Digits64
    BY DEF Digits64
  <2>3. {"E", "O", "F", "%"} \subseteq Alphabet
    BY <2>1, <2>2 DEF Chars64, ToSet, Alphabet
  <2> QED
    BY <2>3 DEF Marker
<1>2. /\ t \in Seq(Alphabet) /\ Len(t) = n /\ l \in Nat /\ n \in Nat /\ DOMAIN t = 1..n
      /\ \A j \in 1..l : t[j] = body[j]
      /\ \A j \in 1..4 : t[l + j] = Marker[j]
  <2>1. /\ t \in Seq(Alphabet) /\ Len(t) = n /\ l \in Nat
        /\ \A j \in 1..n : t[j] = IF j <= l THEN body[j] ELSE Marker[j - l]
    <3> DEFINE m == Marker
    <3>1. m \in Seq(Alphabet) /\ Len(m) = 4
      BY <1>1
    <3>2. l \in Nat
      OBVIOUS
    <3> HIDE DEF m
    <3>3. body \o m \in Seq(Alphabet) /\ Len(body \o m) = l + Len(m)
      BY <3>1, ConcatProperties
    <3>4. \A j \in 1..(l + Len(m)) :
            (body \o m)[j] = IF j <= l THEN body[j] ELSE m[j - l]
      BY <3>1, ConcatProperties
    <3> QED
      BY <3>1, <3>2, <3>3, <3>4 DEF m
  <2>2. DOMAIN t = 1..Len(t)
    BY <2>1, LenProperties
  <2> HIDE DEF t, l
  <2>3. \A j \in 1..4 : l + j \in 1..n /\ ~ (l + j <= l) /\ (l + j) - l = j
    BY <2>1
  <2> QED
    BY <2>1, <2>2, <2>3
<1> HIDE DEF t, l
<1>3. l \in ends
  <2>1. l \in 0..(Len(t) - 4)
    BY <1>2
  <2>2. t[l + 1] = "E" /\ t[l + 2] = "O" /\ t[l + 3] = "F" /\ t[l + 4] = "%"
    BY <1>2 DEF Marker
  <2>3. SubSeq(t, l + 1, l + 4) = Marker
    BY <1>2, <2>1, <2>2, MarkerAt
  <2>4. l \in 0..l
    BY <1>2
  <2> QED
    BY <2>3, <2>4
<1>4. PICK e \in ends : \A j \in ends : e <= j
  <2>1. ends \in SUBSET Nat
    BY <1>2
  <2>2. ends # {}
    <3> HIDE DEF ends
    <3> QED
      BY <1>3
  <2> HIDE DEF ends
  <2> QED
    BY <2>1, <2>2, Least
<1>5. e \in 0..l /\ e \in Nat /\ e <= l
  BY <1>2
<1>6. BeforeMarker(body) = SubSeq(body, 1, e)
  <2>1. ends \subseteq Nat
    BY <1>2
  <2>2. \A i \in ends : (\A j \in ends : i <= j) => i = e
    BY <1>4, <2>1
  <2>3. (CHOOSE i \in ends : \A j \in ends : i <= j) = e
    <3> HIDE DEF ends
    <3> QED
      BY <1>4, <2>2
  <2>4. BeforeMarker(body) = SubSeq(body, 1, CHOOSE i \in ends : \A j \in ends : i <= j)
    BY <1>1 DEF BeforeMarker, t, l
  <2> QED
    BY <2>3, <2>4
<1>7. SubSeq(body, 1, e) = SubSeq(t, 1, e)
  <2>1. /\ SubSeq(body, 1, e) \in Seq(Alphabet) /\ Len(SubSeq(body, 1, e)) = e
        /\ \A j \in 1..e : SubSeq(body, 1, e)[j] = body[j]
    BY <1>2, <1>5 DEF l
  <2>2. /\ SubSeq(t, 1, e) \in Seq(Alphabet) /\ Len(SubSeq(t, 1, e)) = e
        /\ \A j \in 1..e : SubSeq(t, 1, e)[j] = t[j]
    BY <1>2, <1>5
  <2>3. \A j \in 1..e : t[j] = body[j]
    BY <1>2, <1>5
  <2> DEFINE x == SubSeq(body, 1, e)
             y == SubSeq(t, 1, e)
  <2>4. /\ x \in Seq(Alphabet) /\ y \in Seq(Alphabet) /\ Len(x) = e /\ Len(y) = e
        /\ \A j \in 1..e : x[j] = y[j]
    BY <2>1, <2>2, <2>3
  <2> HIDE DEF x, y
  <2>5. x = y
    BY <2>4, SeqEqual
  <2> QED
    BY <2>5 DEF x, y
<1> DEFINE whole == [p EXCEPT !.content = SubSeq(t, 1, e), !.result = "true"]
           run == [i \in 0..n |-> IF i < e + 4 THEN [p EXCEPT !.content = SubSeq(t, 1, i)]
                                  ELSE whole]
<1>8. p \in Parsers /\ p.result = "indeterminate"
  BY DEF Reading
<1>9. run[0] = p
  <2>1. SubSeq(t, 1, 0) = <<>> /\ 0 \in 0..n /\ 0 < e + 4
    BY <1>2, <1>5
  <2>2. [p EXCEPT !.content = SubSeq(t, 1, 0)] = p
    BY <1>8, <2>1 DEF Parsers
  <2> QED
    BY <2>1, <2>2
<1>10. ASSUME NEW i \in 0..(n - 1) PROVE run[i + 1] = Step(run[i], t[i + 1])
  <2>0. i \in Nat /\ i \in 0..n /\ i + 1 \in 0..n /\ i + 1 \in 1..n /\ i + 1 \in 0..Len(t)
    BY <1>2
  <2>1. CASE i < e + 4
    <3> DEFINE q == [p EXCEPT !.content = SubSeq(t, 1, i)]
               u == SubSeq(t, 1, i + 1)
               c == t[i + 1]
    <3>1. /\ q.result = "indeterminate" /\ q.state = "content_start"
          /\ q.content = SubSeq(t, 1, i) /\ run[i] = q
      BY <1>8, <2>0, <2>1 DEF Parsers
    <3>2. Append(SubSeq(t, 1, i), c) = u /\ Len(u) = i + 1
      BY <1>2, <2>0
    <3>3. EndsInMarker(u) <=> i + 1 = e + 4
      <4>1. EndsInMarker(u) <=>
              i + 1 >= 4 /\ SubSeq(t, (i + 1 - 4) + 1, (i + 1 - 4) + 4) = Marker
        BY <1>2, <2>0, EndsInAt, SMTT(60)
      <4>2. i + 1 >= 4 => i + 1 - 4 \in 0..l
        BY <1>2, <1>5, <2>0, <2>1
      <4>3. EndsInMarker(u) <=> i + 1 >= 4 /\ i + 1 - 4 \in ends
        BY <4>1, <4>2
      <4>4. i + 1 >= 4 /\ i + 1 - 4 \in ends => i + 1 = e + 4
        BY <1>4, <1>5, <2>0, <2>1
      <4>5. i + 1 = e + 4 => i + 1 >= 4 /\ i + 1 - 4 = e
        BY <1>5, <2>0
      <4> QED
        BY <1>4, <4>3, <4>4, <4>5
    <3> HIDE DEF q, u, c, run
    <3>4. Step(q, c) = IF EndsInMarker(u)
                         THEN [q EXCEPT !.content = SubSeq(u, 1, Len(u) - Len(Marker)),
                                        !.result = "true"]
                         ELSE [q EXCEPT !.content = u]
      BY <3>1, <3>2 DEF Step, Consume, ConsumeContent
    <3>5. CASE i + 1 = e + 4
      <4>1. Len(u) - Len(Marker) = e
        BY <1>1, <1>5, <2>0, <3>2, <3>5
      <4>2. SubSeq(u, 1, e) = SubSeq(t, 1, e)
        <5> DEFINE x == SubSeq(u, 1, e)
                   y == SubSeq(t, 1, e)
        <5>1. u \in Seq(Alphabet) /\ Len(u) = e + 4 /\ \A j \in 1..(e + 4) : u[j] = t[j]
          BY <1>2, <1>5, <2>0, <3>5 DEF u
        <5>2. /\ x \in Seq(Alphabet) /\ Len(x) = e /\ \A j \in 1..e : x[j] = u[j]
              /\ y \in Seq(Alphabet) /\ Len(y) = e /\ \A j \in 1..e : y[j] = t[j]
          BY <1>2, <1>5, <5>1
        <5>3. \A j \in 1..e : j \in 1..(e + 4)
          BY <1>5
        <5> HIDE DEF x, y
        <5>4. x = y
          BY <5>1, <5>2, <5>3, SeqEqual
        <5> QED
          BY <5>4 DEF x, y
      <4>3. Step(q, c) = [q EXCEPT !.content = SubSeq(t, 1, e), !.result = "true"]
        BY <3>3, <3>4, <3>5, <4>1, <4>2
      <4>4. [q EXCEPT !.content = SubSeq(t, 1, e), !.result = "true"] = whole
        BY <1>8 DEF q, Parsers
      <4>5. run[i + 1] = whole
        BY <1>5, <2>0, <3>5 DEF run
      <4> QED
        BY <3>1, <4>3, <4>4, <4>5 DEF c
    <3>6. CASE i + 1 # e + 4
      <4>1. Step(q, c) = [q EXCEPT !.content = u]
        BY <3>3, <3>4, <3>6
      <4>2. [q EXCEPT !.content = u] = [p EXCEPT !.content = u]
        BY <1>8 DEF q, Parsers
      <4>3. run[i + 1] = [p EXCEPT !.content = u]
        BY <1>5, <2>0, <2>1, <3>6 DEF run, u
      <4> QED
        BY <3>1, <4>1, <4>2, <4>3 DEF c
    <3> QED
      BY <3>5, <3>6
  <2>2. CASE ~ (i < e + 4)
    <3>1. run[i] = whole /\ run[i + 1] = whole
      BY <1>5, <2>0, <2>2
    <3>2. whole.result = "true"
      BY <1>8 DEF Parsers
    <3> QED
      BY <3>1, <3>2 DEF Step
  <2> QED
    BY <2>1, <2>2
<1>11. run[n] = whole
  BY <1>2, <1>5
<1> HIDE DEF run, n, whole
<1>12. Runs(run, p, t, n)
  BY <1>9, <1>10 DEF Runs
<1>13. Parse(p, t) = whole
  BY <1>2, <1>11, <1>12, ParseIs
<1> QED
  BY <1>6, <1>7, <1>13 DEF t, whole

-----------------------------------------------------------------------------
(* A whole request.                                                        *)

(* What base64 writes for bytes is one of its characters.                  *)
LEMMA Base64Text ==
  ASSUME NEW s \in Seq(0..255)
  PROVE  Base64(s) \in Seq(Chars64) /\ Base64(s) \in Seq(Text)
<1> DEFINE m == 4 * ((Len(s) + 2) \div 3)
           f == Base64(s)
<1>1. m \in Nat /\ Len(s) \in Nat
  OBVIOUS
<1>2. ASSUME NEW g \in Nat PROVE Group(s, g) \in Nat
  <2> DEFINE byte(i) == IF i <= Len(s) THEN s[i] ELSE 0
  <2>1. \A i \in Nat \ {0} : byte(i) \in 0..255
    <3>1. \A i \in 1..Len(s) : s[i] \in 0..255
      BY ElementOfSeq, SMTT(60)
    <3>2. \A i \in Nat \ {0} : i <= Len(s) => i \in 1..Len(s)
      BY <1>1
    <3> QED
      BY <3>1, <3>2
  <2>2. 3*g + 1 \in Nat \ {0} /\ 3*g + 2 \in Nat \ {0} /\ 3*g + 3 \in Nat \ {0}
    OBVIOUS
  <2>3. byte(3*g + 1) \in 0..255 /\ byte(3*g + 2) \in 0..255 /\ byte(3*g + 3) \in 0..255
    BY <2>1, <2>2
  <2>4. Group(s, g) = 65536 * byte(3*g + 1) + 256 * byte(3*g + 2) + byte(3*g + 3)
    BY SMTT(60) DEF Group
  <2>5. PICK a \in 0..255, b \in 0..255, c \in 0..255 :
          a = byte(3*g + 1) /\ b = byte(3*g + 2) /\ c = byte(3*g + 3)
    BY <2>3, ZenonT(60)
  <2>6. Group(s, g) = 65536 * a + 256 * b + c
    BY <2>4, <2>5
  <2> QED
    BY <2>6
<1>3. ASSUME NEW x \in Nat, NEW k \in 0..3 PROVE ((x \div 64^(3 - k)) % 64) + 1 \in 1..64
  <2>1. 64^0 = 1 /\ 64^1 = 64 /\ 64^2 = 4096 /\ 64^3 = 262144
    OBVIOUS
  <2>2. CASE k = 0
    BY <2>1, <2>2
  <2>3. CASE k = 1
    BY <2>1, <2>3
  <2>4. CASE k = 2
    BY <2>1, <2>4
  <2>5. CASE k = 3
    BY <2>1, <2>5
  <2> QED
    BY <2>2, <2>3, <2>4, <2>5
<1>4. DOMAIN Digits64 = 1..64 /\ Padding \in Chars64
  BY DEF Digits64, Chars64
<1>5. \A j \in 1..64 : Digits64[j] \in Chars64
  BY <1>4 DEF Chars64, ToSet
<1>6. ASSUME NEW i \in 1..m PROVE f[i] \in Chars64
  <2> DEFINE g == (i - 1) \div 4
             k == (i - 1) % 4
             j == ((Group(s, g) \div 64^(3 - k)) % 64) + 1
  <2>1. g \in Nat /\ k \in 0..3
    BY <1>1
  <2>2. f[i] = IF 3*g + k > Len(s) THEN Padding ELSE Digits64[j]
    BY DEF Base64
  <2> HIDE DEF g, k, f
  <2>3. j \in 1..64
    BY <1>2, <1>3, <2>1
  <2> HIDE DEF j
  <2> QED
    BY <1>4, <1>5, <2>2, <2>3
<1>7. f = [i \in 1..m |-> f[i]]
  BY DEF Base64
<1> HIDE DEF f, m
<1>8. f \in Seq(Chars64)
  BY <1>1, <1>6, <1>7
<1>9. f \in Seq(Text)
  BY <1>8, CharsAreText
<1> QED
  BY <1>8, <1>9 DEF f

\* Requests without a control character in front of the body, which can have any:
\* else the text may read as another request.
Printable(r) ==
  /\ r.method \in {GET, POST, DELETE}
  /\ r.path \in Seq(Text) /\ r.client \in Seq(Text)
  /\ r.length \in Seq(Text) /\ r.type \in Seq(Text)
  /\ r.hash \in Seq(0..255) /\ r.body \in Seq(Alphabet)

(* The values that are the same in every request.                          *)
LEMMA PlainValues == Host \in Seq(Text) /\ AnyValue \in Seq(Text)
<1>1. {"1", "."} \subseteq Text /\ "z" \in Text
  <2>1. Digits64[54] = "1" /\ 54 \in DOMAIN Digits64
    BY DEF Digits64
  <2>2. "1" \in Chars64
    BY <2>1 DEF Chars64, ToSet
  <2> QED
    BY <2>2, CharsAreText, Letters
       DEF Text, Ctl, Token, Special, Alphabet, CR, LF, TAB, SP
<1> QED
  BY <1>1 DEF Host, AnyValue

(* The seven values of a request are texts.                                *)
LEMMA HeadersOfText ==
  ASSUME NEW r, Printable(r)
  PROVE  HeadersOf(r) \in Seq(Seq(Text)) /\ Len(HeadersOf(r)) = 7
<1>1. Host \in Seq(Text) /\ AnyValue \in Seq(Text)
  BY PlainValues
<1>2. Base64(r.hash) \in Seq(Text)
  BY Base64Text DEF Printable
<1> DEFINE D == Seq(Text)
<1>3. /\ Host \in D /\ AnyValue \in D /\ Base64(r.hash) \in D
      /\ r.client \in D /\ r.length \in D /\ r.type \in D
  BY <1>1, <1>2 DEF Printable
<1> HIDE DEF D
<1>4. HeadersOf(r) \in Seq(D) /\ Len(HeadersOf(r)) = 7
  BY <1>3 DEF HeadersOf
<1> QED
  BY <1>4 DEF D

(* The method is one character, and a blank ends it.                       *)
LEMMA ParseMethod ==
  ASSUME NEW m \in {GET, POST, DELETE}
  PROVE  LET q == [NewParser EXCEPT !.state = "uri", !.method = m]
         IN /\ m \in Seq(Alphabet) /\ q \in Reading
            /\ Parse(Parse(NewParser, m), <<SP>>) = q
<1> DEFINE c == m[1]
           q0 == [NewParser EXCEPT !.state = "method", !.method = m]
           q == [NewParser EXCEPT !.state = "uri", !.method = m]
           row == Row("method_start", Token, "method", "method")
<1>1. c \in Token /\ m = <<c>>
  BY Letters DEF GET, POST, DELETE
<1>2. c \in Alphabet
  BY <1>1 DEF Token
<1>3. m \in Seq(Alphabet)
  <2> HIDE DEF c
  <2>1. <<c>> \in Seq(Alphabet)
    BY <1>2
  <2> QED
    BY <1>1, <2>1, Zenon
<1>4. row \in Rows /\ Skip("method", {SP}, "uri") \in Rows
  BY DEF Rows, RequestLine
<1>5. {"method", "uri"} \subseteq States
  <2>1. Skip("uri", {"?"}, "http_version_h") \in Rows
    BY DEF Rows, UriRows
  <2> QED
    BY <1>4, <2>1 DEF States, Skip, Row
<1>6. q0 \in Reading /\ q \in Reading /\ q0.state = "method" /\ At(q0, "uri") = q
  <2>1. "method_start" \in States
    BY <1>4 DEF States, Row
  <2>2. NewParser \in Parsers
    <3> DEFINE D == Seq(Seq(Alphabet))
               C == Seq(Alphabet)
    <3>1. <<>> \in C /\ <<>> \in D
      OBVIOUS
    <3> HIDE DEF C, D
    <3>2. NewParser \in [state : States, result : {"indeterminate", "true", "false"},
                         method : C, uri : C, headers : D, content : C]
      BY <2>1, <3>1 DEF NewParser
    <3> QED
      BY <3>2 DEF Parsers, C, D
  <2>3. NewParser.result = "indeterminate"
    BY DEF NewParser
  <2> DEFINE n == NewParser
  <2> HIDE DEF n
  <2>4. LET a == [n EXCEPT !.state = "method", !.method = m]
            b == [n EXCEPT !.state = "uri", !.method = m]
        IN a \in Reading /\ b \in Reading /\ a.state = "method" /\ At(a, "uri") = b
    BY <1>3, <1>5, <2>2, <2>3 DEF Reading, Parsers, At, n
  <2> QED
    BY <2>4 DEF n
<1>7. Step(NewParser, c) = q0
  <2>1. Step(NewParser, c) = Take(NewParser, row, c)
    BY <1>1, <1>4, RowStep DEF NewParser, Row
  <2>2. Append(<<>>, c) = m
    BY <1>1
  <2> QED
    BY <2>1, <2>2 DEF Take, Row, NewParser
<1>8. Parse(NewParser, m) = q0
  <2>1. Parse(NewParser, <<c>>) = Step(NewParser, c)
    BY ParseOne
  <2> QED
    BY <1>1, <1>7, <2>1
<1> HIDE DEF q0, q, c, row
<1>9. Step(q0, SP) = q
  <2>1. Skip(q0.state, {SP}, "uri") \in Rows /\ SP \in {SP}
    BY <1>4, <1>6
  <2>2. Step(q0, SP) = At(q0, "uri")
    BY <1>6, <2>1, SkipStep
  <2> QED
    BY <1>6, <2>2
<1>10. Parse(q0, <<SP>>) = q
  BY <1>9, ParseOne
<1> QED
  BY <1>3, <1>6, <1>8, <1>10 DEF q

(* A text behind another one.                                              *)
LEMMA ThenParse ==
  ASSUME NEW a \in Seq(Alphabet), NEW b \in Seq(Alphabet), NEW p, NEW q,
         Parse(NewParser, a) = p, Parse(p, b) = q
  PROVE  a \o b \in Seq(Alphabet) /\ Parse(NewParser, a \o b) = q
BY ParseConcat, ConcatProperties

\* What the parser has put together when the request is complete.
Complete(p, r) ==
  /\ p.result = "true" /\ p.method = r.method /\ p.uri = r.path
  /\ p.headers = HeadersOf(r) /\ p.content = BeforeMarker(r.body)

(* The whole text of a request is read as what the client has put in.      *)
LEMMA ParseRequest ==
  ASSUME NEW r, Printable(r)
  PROVE  /\ RequestText(r) \in Seq(Alphabet)
         /\ Complete(Parse(NewParser, RequestText(r)), r)
<1> DEFINE m  == r.method
           s  == r.path
           hs == HeadersOf(r)
           body == r.body
           h  == FlattenSeq([i \in 1..7 |-> Header(hs[i])])
           nl == <<CR, LF>>
           x1 == m \o <<SP>>
           x2 == x1 \o s
           x3 == x2 \o Version
           x4 == x3 \o h
           x5 == x4 \o nl
           x6 == x5 \o body
           x7 == x6 \o Marker
           x8 == x7 \o <<LF>>
           q1 == [NewParser EXCEPT !.state = "uri", !.method = m]
           q2 == [q1 EXCEPT !.uri = @ \o s]
           q3 == [q2 EXCEPT !.state = "header_line_start"]
           q4 == Holding(q3, hs)
           q5 == At(q4, "expecting_newline_3")
           q6 == At(q5, "content_start")
           q7 == [q6 EXCEPT !.content = BeforeMarker(body), !.result = "true"]
<1>1. /\ m \in {GET, POST, DELETE} /\ s \in Seq(Text) /\ body \in Seq(Alphabet)
      /\ s \in Seq(Alphabet)
  BY DEF Printable, Text
<1>2. hs \in Seq(Seq(Text)) /\ Len(hs) = 7
  BY HeadersOfText
<1>3. RequestText(r) = x8
  BY DEF RequestText, Version
<1>4. /\ <<SP>> \in Seq(Alphabet) /\ <<LF>> \in Seq(Alphabet) /\ nl \in Seq(Alphabet)
      /\ Version \in Seq(Alphabet) /\ Marker \in Seq(Alphabet)
  <2>1. /\ Digits64[8] = "H" /\ Digits64[20] = "T" /\ Digits64[16] = "P"
        /\ Digits64[64] = "/" /\ Digits64[54] = "1" /\ Digits64[5] = "E"
        /\ Digits64[15] = "O" /\ Digits64[6] = "F"
    BY DEF Digits64
  <2>2. {8, 20, 16, 64, 54, 5, 15, 6} \subseteq DOMAIN Digits64
    BY DEF Digits64
  <2>3. {"H", "T", "P", "/", "1", "E", "O", "F", ".", "%", "?", SP, CR, LF} \subseteq Alphabet
    BY <2>1, <2>2 DEF Chars64, ToSet, Alphabet, Ctl, Special
  <2>4. <<SP>> \in Seq(Alphabet) /\ <<LF>> \in Seq(Alphabet) /\ nl \in Seq(Alphabet)
    BY <2>3
  <2>5. Version \in Seq(Alphabet)
    BY <2>3 DEF Version
  <2>6. Marker \in Seq(Alphabet)
    BY <2>3 DEF Marker
  <2> QED
    BY <2>4, <2>5, <2>6
<1>5. m \in Seq(Alphabet) /\ q1 \in Reading /\ Parse(Parse(NewParser, m), <<SP>>) = q1
  BY <1>1, ParseMethod
<1>6. /\ q1.state = "uri" /\ q1.method = m /\ q1.uri = <<>> /\ q1.headers = <<>>
      /\ q1.content = <<>> /\ q1 \in Parsers
  BY <1>5 DEF NewParser, Reading
<1> HIDE DEF m, s, hs, body, h, nl, q1
<1>7. Parse(q1, s) = q2
  BY <1>1, <1>5, <1>6, ParseUri
<1>8. q2 \in Reading /\ q2.state = "uri"
  <2>1. q1.uri \o s \in Seq(Alphabet)
    BY <1>1, <1>6, ConcatProperties
  <2> QED
    BY <1>5, <1>6, <2>1 DEF Reading, Parsers
<1>9. q2.method = m /\ q2.uri = s /\ q2.headers = <<>> /\ q2.content = <<>>
  <2>1. <<>> \o s = s
    BY <1>1, ConcatEmptySeq
  <2> QED
    BY <1>6, <2>1 DEF Parsers
<1> HIDE DEF q2
<1>10. Parse(q2, Version) = q3 /\ q3 \in Reading
  BY <1>8, ParseVersion
<1>11. /\ q3.state = "header_line_start" /\ q3.method = m /\ q3.uri = s
       /\ q3.headers = <<>> /\ q3.content = <<>>
  BY <1>8, <1>9 DEF Reading, Parsers
<1> HIDE DEF q3
<1>12. h \in Seq(Alphabet) /\ Parse(q3, h) = q4 /\ q4 \in Reading
  BY <1>2, <1>10, <1>11, ParseHeaders DEF h
<1>13. /\ q4.state = "header_line_start" /\ q4.method = m /\ q4.uri = s
       /\ q4.headers = hs /\ q4.content = <<>>
  BY <1>10, <1>11 DEF Reading, Parsers, Holding
<1> HIDE DEF q4
<1>14. Step(q4, CR) = q5 /\ q5 \in Reading
  <2>1. Skip(q4.state, {CR}, "expecting_newline_3") \in Rows /\ CR \in {CR}
    BY <1>13 DEF Rows, HeaderLines
  <2> QED
    BY <1>12, <2>1, SkipStep
<1>15. /\ q5.state = "expecting_newline_3" /\ q5.method = m /\ q5.uri = s
       /\ q5.headers = hs /\ q5.content = <<>>
  BY <1>12, <1>13 DEF Reading, Parsers, At
<1> HIDE DEF q5
<1>16. Step(q5, LF) = q6
  <2>1. Skip(q5.state, {LF}, "content_start") \in Rows /\ LF \in {LF}
    BY <1>15 DEF Rows, HeaderLines
  <2> QED
    BY <1>14, <2>1, SkipStep
<1>17. q6 \in Reading
  <2>1. "content_start" \in States
    BY DEF States
  <2> QED
    BY <1>14, <2>1 DEF Reading, Parsers, At
<1>18. /\ q6.state = "content_start" /\ q6.method = m /\ q6.uri = s
       /\ q6.headers = hs /\ q6.content = <<>>
  BY <1>14, <1>15 DEF Reading, Parsers, At
<1>19. Parse(q4, nl) = q6
  BY <1>14, <1>16, ParseTwo DEF nl
<1> HIDE DEF q6
<1>20. Parse(q6, body \o Marker) = q7
  BY <1>1, <1>17, <1>18, ParseBody
<1>21. Parse(Parse(q6, body), Marker) = q7
  BY <1>1, <1>4, <1>20, ParseConcat
<1>22. /\ q7.result = "true" /\ q7.method = m /\ q7.uri = s /\ q7.headers = hs
       /\ q7.content = BeforeMarker(body)
  BY <1>17, <1>18 DEF Reading, Parsers
<1> HIDE DEF q7
<1>23. Parse(q7, <<LF>>) = q7
  BY <1>4, <1>22, ParseDone
<1>24. x1 \in Seq(Alphabet) /\ Parse(NewParser, x1) = q1
  BY <1>4, <1>5, ThenParse, ZenonT(60)
<1> HIDE DEF x1
<1>25. x2 \in Seq(Alphabet) /\ Parse(NewParser, x2) = q2
  BY <1>1, <1>7, <1>24, ThenParse
<1> HIDE DEF x2
<1>26. x3 \in Seq(Alphabet) /\ Parse(NewParser, x3) = q3
  BY <1>4, <1>10, <1>25, ThenParse
<1> HIDE DEF x3
<1>27. x4 \in Seq(Alphabet) /\ Parse(NewParser, x4) = q4
  BY <1>12, <1>26, ThenParse
<1> HIDE DEF x4
<1>28. x5 \in Seq(Alphabet) /\ Parse(NewParser, x5) = q6
  BY <1>4, <1>19, <1>27, ThenParse
<1> HIDE DEF x5
<1>29. x6 \in Seq(Alphabet) /\ Parse(NewParser, x6) = Parse(q6, body)
  BY <1>1, <1>28, ThenParse
<1> HIDE DEF x6
<1>30. x7 \in Seq(Alphabet) /\ Parse(NewParser, x7) = q7
  BY <1>4, <1>21, <1>29, ThenParse
<1> HIDE DEF x7
<1>31. x8 \in Seq(Alphabet) /\ Parse(NewParser, x8) = q7
  <2> DEFINE e == <<LF>>
  <2>1. e \in Seq(Alphabet) /\ Parse(q7, e) = q7
    BY <1>4, <1>23
  <2> HIDE DEF e
  <2>2. x7 \o e \in Seq(Alphabet) /\ Parse(NewParser, x7 \o e) = q7
    BY <1>30, <2>1, ThenParse
  <2> QED
    BY <2>2 DEF e
<1> HIDE DEF x8
<1> QED
  BY <1>3, <1>22, <1>31 DEF Complete, m, s, hs, body

-----------------------------------------------------------------------------
(* Requests that are refused.                                              *)

\* s is a, c and b, one behind the other.
Split(s, a, c, b) ==
  /\ s = (a \o <<c>>) \o b /\ \E j \in 1..Len(s) : c = s[j]
  /\ \A i \in 1..Len(b) : \E j \in 1..Len(s) : b[i] = s[j]

(* The text up to the first character that is not of a kind.               *)
LEMMA FirstOther ==
  ASSUME NEW C, NEW D \in SUBSET C, NEW s \in Seq(C), s \notin Seq(D)
  PROVE  \E a \in Seq(D), c \in C \ D, b \in Seq(C) : Split(s, a, c, b)
<1> DEFINE n == Len(s)
           U == {i \in 1..n : s[i] \notin D}
<1>1. n \in Nat /\ \A i \in 1..n : s[i] \in C
  BY ElementOfSeq
<1>2. U # {}
  <2>1. SUFFICES ASSUME \A i \in 1..n : s[i] \in D PROVE FALSE
    OBVIOUS
  <2>2. s = [i \in 1..n |-> s[i]]
    OBVIOUS
  <2>3. s \in [1..n -> D]
    BY <2>1, <2>2
  <2> QED
    BY <1>1, <2>3
<1>3. PICK m \in U : \A i \in U : m <= i
  <2>1. U \in SUBSET Nat
    OBVIOUS
  <2> HIDE DEF U
  <2> QED
    BY <1>2, <2>1, Least
<1>4. m \in 1..n /\ s[m] \in C \ D
  BY <1>1
<1> DEFINE a == SubSeq(s, 1, m - 1)
           c == s[m]
           b == SubSeq(s, m + 1, n)
<1>5. ASSUME NEW i \in 1..(m - 1) PROVE s[i] \in D
  <2>1. i \in 1..n /\ ~ (m <= i)
    BY <1>1, <1>4
  <2> QED
    BY <1>3, <2>1
<1>6. a \in Seq(D) /\ a \in Seq(C) /\ Len(a) = m - 1 /\ \A i \in 1..(m - 1) : a[i] = s[i]
  <2>1. m - 1 \in Int /\ 1 \in Int /\ 1 <= m
    BY <1>4
  <2>2. a \in Seq(D) /\ Len(a) = m - 1
    BY <1>5, <2>1, SubSeqProperties
  <2>3. \A i \in 1..(m - 1) : a[i] = s[i]
    BY <1>1, <1>4
  <2>4. a \in Seq(C)
    BY <2>2
  <2> QED
    BY <2>2, <2>3, <2>4
<1>7. b \in Seq(C) /\ Len(b) = n - m /\ \A i \in 1..(n - m) : b[i] = s[m + i]
  BY <1>1, <1>4
<1> DEFINE x == a \o <<c>>
           y == x \o b
<1> HIDE DEF a, b
<1>8. x \in Seq(C) /\ Len(x) = m /\ \A i \in 1..m : x[i] = s[i]
  <2>1. x = Append(a, c) /\ c \in C
    BY <1>4, <1>6
  <2> HIDE DEF x, c
  <2>2. x \in Seq(C) /\ Len(x) = m /\ x[m] = c /\ \A i \in 1..(m - 1) : x[i] = a[i]
    BY <1>4, <1>6, <2>1, AppendProperties
  <2> QED
    BY <1>4, <1>6, <2>2 DEF c
<1> HIDE DEF x
<1>9. y \in Seq(C) /\ Len(y) = n /\ \A i \in 1..n : y[i] = s[i]
  <2>1. y \in Seq(C) /\ Len(y) = n
    <3>1. y \in Seq(C) /\ Len(y) = Len(x) + Len(b)
      BY <1>7, <1>8, ConcatProperties
    <3>2. m + (n - m) = n
      BY <1>1, <1>4
    <3> QED
      BY <1>7, <1>8, <3>1, <3>2
  <2>2. \A i \in 1..n : y[i] = IF i <= m THEN x[i] ELSE b[i - m]
    BY <1>1, <1>4, <1>7, <1>8, ConcatProperties
  <2> HIDE DEF y
  <2>3. ASSUME NEW i \in 1..n PROVE y[i] = s[i]
    <3>1. CASE i <= m
      BY <1>4, <1>8, <2>2, <3>1
    <3>2. CASE ~ (i <= m)
      <4>1. i - m \in 1..(n - m) /\ m + (i - m) = i
        BY <1>1, <1>4, <3>2
      <4> QED
        BY <1>7, <2>2, <3>2, <4>1
    <3> QED
      BY <3>1, <3>2
  <2> QED
    BY <2>1, <2>3
<1> HIDE DEF y
<1>10. s = y
  BY <1>1, <1>9, SeqEqual
<1>11. \A i \in 1..Len(b) : m + i \in 1..n /\ b[i] = s[m + i]
  BY <1>1, <1>4, <1>7
<1>12. s = (a \o <<c>>) \o b
  BY <1>10 DEF x, y
<1> HIDE DEF c
<1>13. Split(s, a, c, b)
  <2>1. c = s[m]
    BY DEF c
  <2> QED
    BY <1>4, <1>11, <1>12, <2>1 DEF Split
<1>14. a \in Seq(D) /\ c \in C \ D /\ b \in Seq(C)
  BY <1>4, <1>6, <1>7 DEF c
<1> QED
  BY <1>13, <1>14

(* A character that no row is for makes the request invalid.               *)
LEMMA NoRow ==
  ASSUME NEW p \in Reading, NEW c, p.state # "content_start",
         \A row \in Rows : row.at = p.state => c \notin row.on
  PROVE  Step(p, c) = [p EXCEPT !.result = "false"] /\ Step(p, c).result = "false"
<1>1. p \in Parsers /\ p.result = "indeterminate"
  BY DEF Reading
<1>2. {r \in Rows : /\ r.at = p.state /\ c \in r.on
                    /\ r.to = "header_lws" => p.headers # <<>>} = {}
  OBVIOUS
<1>3. Step(p, c) = [p EXCEPT !.result = "false"]
  BY <1>1, <1>2 DEF Step, Consume
<1> QED
  BY <1>1, <1>3 DEF Parsers

\* The states of the version, which only a line feed leads out of.
InVersion ==
  {"http_version_h", "http_version_t_1", "http_version_t_2", "http_version_p",
   "http_version_slash", "http_version_major_start", "http_version_major",
   "http_version_minor_start", "http_version_minor", "expecting_newline_1"}

\* Requests that are refused with the next question mark, if they are not yet.
Doomed ==
  {q \in Parsers : \/ q.result = "false"
                   \/ q.result = "indeterminate" /\ q.state \in InVersion}

(* The rows of the version lead on in it, and none is for a question mark. *)
LEMMA VersionRows ==
  /\ \A row \in Rows : row.at \in InVersion =>
       /\ row.into = "nothing" /\ "?" \notin row.on /\ row.to # "header_lws"
       /\ row.to \in InVersion \/ row.on = {LF}
  /\ InVersion \subseteq States /\ "content_start" \notin InVersion
<1>1. \A row \in Rows : row.at \in InVersion =>
        /\ row.into = "nothing" /\ "?" \notin row.on /\ row.to # "header_lws"
        /\ row.to \in InVersion \/ row.on = {LF}
  <2>1. \A row \in UriRows \cup HeaderLines : row.at \notin InVersion
    BY DEF UriRows, HeaderLines, InVersion, Row, Skip
  <2>2. \A row \in RequestLine : row.at \in InVersion =>
          /\ row.into = "nothing" /\ "?" \notin row.on /\ row.to # "header_lws"
          /\ row.to \in InVersion \/ row.on = {LF}
    BY DEF RequestLine, InVersion, Row, Skip, Digit, CR, LF
  <2> QED
    BY <2>1, <2>2 DEF Rows
<1>2. ASSUME NEW s \in InVersion PROVE s \in States
  <2>1. \E row \in RequestLine : row.at = s
    BY DEF RequestLine, InVersion, Row, Skip
  <2> QED
    BY <2>1 DEF States, Rows
<1> QED
  BY <1>1, <1>2 DEF InVersion

(* No text of one line saves it.                                           *)
LEMMA DoomedStays ==
  ASSUME NEW q \in Doomed, NEW c \in Alphabet \ {LF}
  PROVE  Step(q, c) \in Doomed /\ (c = "?" => Step(q, c).result = "false")
<1>1. q \in Parsers
  BY DEF Doomed
<1>2. CASE q.result = "false"
  BY <1>2 DEF Step
<1>3. CASE q.result = "indeterminate" /\ q.state \in InVersion
  <2>1. q \in Reading /\ q.state # "content_start"
    BY <1>1, <1>3, VersionRows DEF Reading
  <2>2. CASE \E row \in Rows : row.at = q.state /\ c \in row.on
    <3>1. PICK row \in Rows : row.at = q.state /\ c \in row.on
      BY <2>2
    <3>2. row.into = "nothing" /\ c # "?" /\ row.to # "header_lws" /\ row.to \in InVersion
      BY <1>3, <3>1, VersionRows
    <3>3. Step(q, c) = Take(q, row, c)
      BY <1>3, <3>1, <3>2, RowStep
    <3>4. Take(q, row, c) = [q EXCEPT !.state = row.to]
      BY <3>2 DEF Take
    <3>5. [q EXCEPT !.state = row.to] \in Doomed
      BY <1>1, <1>3, <3>2, VersionRows DEF Parsers, Doomed
    <3> QED
      BY <3>2, <3>3, <3>4, <3>5
  <2>3. CASE ~ \E row \in Rows : row.at = q.state /\ c \in row.on
    <3>1. Step(q, c) = [q EXCEPT !.result = "false"] /\ Step(q, c).result = "false"
      BY <2>1, <2>3, NoRow
    <3>2. [q EXCEPT !.result = "false"] \in Parsers
      BY <1>1 DEF Parsers
    <3> QED
      BY <3>1, <3>2 DEF Doomed
  <2> QED
    BY <2>2, <2>3
<1> QED
  BY <1>2, <1>3 DEF Doomed

(* What comes behind a text that the parser refuses.                       *)
LEMMA RefusedStays ==
  ASSUME NEW p, NEW s \in Seq(Alphabet), Parse(p, s).result = "false",
         NEW t \in Seq(Alphabet)
  PROVE  s \o t \in Seq(Alphabet) /\ Parse(p, s \o t).result = "false"
<1>1. Parse(p, s \o t) = Parse(Parse(p, s), t)
  BY ParseConcat
<1>2. Parse(Parse(p, s), t) = Parse(p, s)
  BY ParseDone
<1> QED
  BY <1>1, <1>2, ConcatProperties

(* The version begins with its question mark.                              *)
LEMMA VersionText ==
  \E t \in Seq(Alphabet) : Version = <<"?">> \o t /\ <<"?">> \in Seq(Alphabet)
<1> DEFINE t == <<"H", "T", "T", "P", "/", "1", ".", "1", CR, LF>>
<1>1. {"H", "T", "P", "/", "1", ".", "?", CR, LF} \subseteq Alphabet
  <2>1. /\ Digits64[8] = "H" /\ Digits64[20] = "T" /\ Digits64[16] = "P"
        /\ Digits64[64] = "/" /\ Digits64[54] = "1"
    BY DEF Digits64
  <2>2. {8, 20, 16, 64, 54} \subseteq DOMAIN Digits64
    BY DEF Digits64
  <2> QED
    BY <2>1, <2>2 DEF Chars64, ToSet, Alphabet, Ctl
<1>2. t \in Seq(Alphabet) /\ <<"?">> \in Seq(Alphabet)
  BY <1>1
<1>3. Version = <<"?">> \o t
  BY DEF Version
<1> QED
  BY <1>2, <1>3

(* A path with a control character is refused, if it is of one line.       *)
LEMMA UriRefused ==
  ASSUME NEW p \in Reading, p.state = "uri", NEW s \in Seq(Alphabet),
         s \notin Seq(Text), OneLine(s)
  PROVE  Parse(p, s \o Version).result = "false"
<1>1. PICK a \in Seq(Text), c \in Alphabet \ Text, b \in Seq(Alphabet) : Split(s, a, c, b)
  <2>1. Text \in SUBSET Alphabet
    BY DEF Text
  <2> QED
    BY <2>1, FirstOther
<1> DEFINE q == [p EXCEPT !.uri = @ \o a]
           x == a \o <<c>>
<1>2. a \in Seq(Alphabet) /\ <<c>> \in Seq(Alphabet) /\ c \in Ctl
  BY DEF Text
<1>3. Parse(p, a) = q
  BY ParseUri
<1>4. q \in Reading /\ q.state = "uri"
  <2>1. p.uri \o a \in Seq(Alphabet)
    BY <1>2, ConcatProperties DEF Reading, Parsers
  <2> QED
    BY <2>1 DEF Reading, Parsers
<1> HIDE DEF q
<1>5. x \in Seq(Alphabet) /\ Parse(p, x) = Step(q, c)
  <2> DEFINE e == <<c>>
  <2>1. e \in Seq(Alphabet) /\ Parse(q, e) = Step(q, c)
    BY <1>2, ParseOne
  <2> HIDE DEF e
  <2>2. a \o e \in Seq(Alphabet) /\ Parse(p, a \o e) = Step(q, c)
    BY <1>2, <1>3, <2>1, ParseConcat, ConcatProperties
  <2> QED
    BY <2>2 DEF e
<1> HIDE DEF x
<1>6. Parse(p, s) = Parse(Step(q, c), b)
  <2>1. Parse(p, x \o b) = Parse(Parse(p, x), b)
    BY <1>5, ParseConcat
  <2> QED
    BY <1>1, <1>5, <2>1 DEF x, Split
<1>7. PICK t \in Seq(Alphabet) : Version = <<"?">> \o t /\ <<"?">> \in Seq(Alphabet)
  BY VersionText
<1>8. Parse(Parse(p, s), <<"?">>).result = "false"
  <2>1. CASE c = "?"
    <3>1. ~ Contains(s, LF)
      BY <1>1, <2>1 DEF OneLine, Contains, Split
    <3>2. b \in Seq(Alphabet \ {LF})
      <4>1. \A i \in 1..Len(b) : b[i] \in Alphabet /\ b[i] # LF
        BY <1>1, <3>1, ElementOfSeq, ZenonT(60) DEF Contains, Split
      <4>2. Len(b) \in Nat /\ b = [i \in 1..Len(b) |-> b[i]]
        OBVIOUS
      <4> DEFINE D == Alphabet \ {LF}
      <4>3. \A i \in 1..Len(b) : b[i] \in D
        BY <4>1
      <4> HIDE DEF D
      <4>4. b \in [1..Len(b) -> D]
        BY <4>2, <4>3
      <4>5. b \in Seq(D)
        <5>1. PICK n \in Nat : b \in [1..n -> D]
          BY <4>2, <4>4
        <5> QED
          BY <5>1
      <4> QED
        BY <4>5 DEF D
    <3>3. Step(q, c) = At(q, "http_version_h") /\ At(q, "http_version_h") \in Reading
      <4>1. Skip(q.state, {"?"}, "http_version_h") \in Rows /\ c \in {"?"}
        BY <1>4, <2>1 DEF Rows, UriRows
      <4> QED
        BY <1>4, <4>1, SkipStep
    <3>4. Step(q, c) \in Doomed
      <4>1. At(q, "http_version_h").state = "http_version_h"
        BY <1>4 DEF Reading, Parsers, At
      <4> QED
        BY <3>3, <4>1 DEF Doomed, InVersion, Reading
    <3>5. Parse(p, s) \in Doomed
      <4>1. \A z \in Doomed, e \in Alphabet \ {LF} : Step(z, e) \in Doomed
        BY DoomedStays
      <4> QED
        BY <1>6, <3>2, <3>4, <4>1, ParseStays
    <3>6. "?" \in Alphabet \ {LF}
      BY DEF Alphabet, Ctl, LF
    <3>7. Step(Parse(p, s), "?").result = "false"
      BY <3>5, <3>6, DoomedStays
    <3> QED
      BY <3>7, ParseOne
  <2>2. CASE c # "?"
    <3>1. \A row \in Rows : row.at = q.state => c \notin row.on
      <4>1. \A row \in Rows : row.at = "uri" => row.on = {"?"} \/ row.on = Text
        BY DEF Rows, UriRows, RequestLine, HeaderLines, Row, Skip
      <4> QED
        BY <1>4, <2>2, <4>1
    <3>2. Step(q, c).result = "false"
      BY <1>4, <3>1, NoRow
    <3>3. Parse(p, s).result = "false"
      BY <1>6, <3>2, ParseDone
    <3> QED
      BY <1>7, <3>3, ParseDone
  <2> QED
    BY <2>1, <2>2
<1>9. s \o <<"?">> \in Seq(Alphabet) /\ Parse(p, s \o <<"?">>).result = "false"
  <2> DEFINE e == <<"?">>
  <2>1. e \in Seq(Alphabet) /\ Parse(Parse(p, s), e).result = "false"
    BY <1>7, <1>8
  <2> HIDE DEF e
  <2>2. s \o e \in Seq(Alphabet) /\ Parse(p, s \o e).result = "false"
    BY <2>1, ParseConcat, ConcatProperties
  <2> QED
    BY <2>2 DEF e
<1>10. Parse(p, (s \o <<"?">>) \o t).result = "false"
  <2> DEFINE y == s \o <<"?">>
  <2>1. y \in Seq(Alphabet) /\ Parse(p, y).result = "false"
    BY <1>9
  <2> HIDE DEF y
  <2>2. Parse(p, y \o t).result = "false"
    BY <2>1, RefusedStays
  <2> QED
    BY <2>2 DEF y
<1>11. (s \o <<"?">>) \o t = s \o (<<"?">> \o t)
  BY <1>7, ConcatAssociative
<1> QED
  BY <1>7, <1>10, <1>11

(* A header with a question mark in its value is refused.                  *)
LEMMA HeaderRefused ==
  ASSUME NEW p \in Reading, p.state = "header_line_start",
         NEW v \in Seq(Text \cup {"?"}), v \notin Seq(Text)
  PROVE  Header(v) \in Seq(Alphabet) /\ Parse(p, Header(v)).result = "false"
<1>1. PICK a \in Seq(Text), c \in {"?"}, b \in Seq(Text \cup {"?"}) : Split(v, a, c, b)
  <2> DEFINE C == Text \cup {"?"}
  <2>1. Text \in SUBSET C /\ v \in Seq(C)
    OBVIOUS
  <2>2. C \ Text \subseteq {"?"}
    OBVIOUS
  <2> HIDE DEF C
  <2>3. \E a \in Seq(Text), c \in C \ Text, b \in Seq(C) : Split(v, a, c, b)
    BY <2>1, FirstOther
  <2> QED
    BY <2>2, <2>3 DEF C
<1> DEFINE hs == p.headers
           n  == <<"z", ":", SP>>
           e  == <<c>>
           l  == <<CR, LF>>
           q  == [p EXCEPT !.state = "header_value", !.headers = Append(@, <<>>)]
           q1 == Holding(q, Append(hs, a))
<1>2. /\ n \in Seq(Alphabet) /\ e \in Seq(Alphabet) /\ l \in Seq(Alphabet)
      /\ a \in Seq(Alphabet) /\ b \in Seq(Alphabet) /\ v \in Seq(Alphabet)
  <2>1. Text \cup {"?"} \subseteq Alphabet /\ {CR, LF} \subseteq Alphabet
    BY DEF Text, Alphabet, Ctl
  <2>2. e \in Seq(Alphabet) /\ l \in Seq(Alphabet)
    BY <2>1
  <2>3. a \in Seq(Alphabet) /\ b \in Seq(Alphabet) /\ v \in Seq(Alphabet)
    BY <2>1, SeqMonotonic
  <2> QED
    BY <2>2, <2>3, ParseName
<1>3. hs \in Seq(Seq(Alphabet)) /\ Append(hs, a) \in Seq(Seq(Alphabet))
  BY <1>2 DEF Reading, Parsers
<1>4. /\ Parse(p, n) = q /\ q \in Reading /\ q.state = "header_value"
      /\ q.headers = Append(hs, <<>>)
  BY ParseName
<1>5. v = (a \o e) \o b
  BY <1>1 DEF Split
<1>6. Header(v) = (n \o v) \o l
  BY DEF Header
<1> HIDE DEF q, n, e, l
<1>7. Parse(q, a) = q1
  BY <1>3, <1>4, ParseValue
<1>8. q1 \in Reading /\ q1.state = "header_value"
  BY <1>3, <1>4 DEF Reading, Parsers, Holding
<1> HIDE DEF q1
<1>9. Step(q1, c).result = "false"
  <2>1. \A row \in Rows : row.at = "header_value" => row.on = {CR} \/ row.on = Text
    BY DEF Rows, UriRows, RequestLine, HeaderLines, Row, Skip
  <2>2. c \notin {CR} /\ c \notin Text
    BY DEF Text, Ctl, CR
  <2>3. \A row \in Rows : row.at = q1.state => c \notin row.on
    BY <1>8, <2>1, <2>2
  <2> QED
    BY <1>8, <2>3, NoRow
<1>10. Parse(q1, e).result = "false"
  BY <1>9, ParseOne DEF e
<1>11. a \o e \in Seq(Alphabet) /\ Parse(q, a \o e).result = "false"
  BY <1>2, <1>7, <1>10, ParseConcat, ConcatProperties
<1>12. Parse(q, v).result = "false"
  <2> DEFINE w == a \o e
  <2>1. w \in Seq(Alphabet) /\ Parse(q, w).result = "false"
    BY <1>11
  <2> HIDE DEF w
  <2>2. Parse(q, w \o b).result = "false"
    BY <1>2, <2>1, RefusedStays
  <2> QED
    BY <1>5, <2>2 DEF w
<1>13. n \o v \in Seq(Alphabet) /\ Parse(p, n \o v).result = "false"
  BY <1>2, <1>4, <1>12, ParseConcat, ConcatProperties
<1>14. (n \o v) \o l \in Seq(Alphabet) /\ Parse(p, (n \o v) \o l).result = "false"
  <2> DEFINE w == n \o v
  <2>1. w \in Seq(Alphabet) /\ Parse(p, w).result = "false"
    BY <1>13
  <2> HIDE DEF w
  <2>2. w \o l \in Seq(Alphabet) /\ Parse(p, w \o l).result = "false"
    BY <1>2, <2>1, RefusedStays
  <2> QED
    BY <2>2 DEF w
<1> QED
  BY <1>6, <1>14

(* So are the seven headers, if the second has one.                        *)
LEMMA HeadersRefused ==
  ASSUME NEW p \in Reading, p.state = "header_line_start",
         NEW v1 \in Seq(Text), NEW v2 \in Seq(Text \cup {"?"}), v2 \notin Seq(Text),
         NEW h, DOMAIN h = 1..7, Len(h) = 7,
         \A i \in 1..7 : h[i] \in Seq(Alphabet), h[1] = Header(v1), h[2] = Header(v2)
  PROVE  FlattenSeq(h) \in Seq(Alphabet) /\ Parse(p, FlattenSeq(h)).result = "false"
<1>1. PICK g : /\ g[1] = h[1] /\ FlattenSeq(h) = g[7]
               /\ \A i \in 1..6 : g[i + 1] = g[i] \o h[i + 1]
  BY FlattenSeven
<1> DEFINE T == {k \in Nat : k <= 5 => /\ g[k + 2] \in Seq(Alphabet)
                                       /\ Parse(p, g[k + 2]).result = "false"}
<1>2. 0 \in T
  <2>1. 1 \in 1..6 /\ 1 \in 1..7 /\ 2 \in 1..7 /\ 1 + 1 = 2 /\ 0 + 2 = 2
    OBVIOUS
  <2>2. g[2] = h[1] \o h[2]
    BY <1>1, <2>1
  <2> DEFINE q == [p EXCEPT !.headers = Append(@, v1)]
             a == h[1]
             b == h[2]
  <2>3. Parse(p, a) = q /\ q \in Reading
    BY ParseHeader
  <2>4. q.state = "header_line_start"
    BY DEF Reading, Parsers
  <2> HIDE DEF q
  <2>5. Parse(q, b).result = "false"
    BY <2>3, <2>4, HeaderRefused
  <2>6. a \in Seq(Alphabet) /\ b \in Seq(Alphabet)
    BY <2>1
  <2> HIDE DEF a, b
  <2>7. a \o b \in Seq(Alphabet) /\ Parse(p, a \o b).result = "false"
    <3>1. a \o b \in Seq(Alphabet)
      BY <2>6, ConcatProperties
    <3>2. Parse(p, a \o b) = Parse(Parse(p, a), b)
      BY <2>6, ParseConcat
    <3> QED
      BY <2>3, <2>5, <3>1, <3>2
  <2> QED
    BY <2>1, <2>2, <2>7 DEF a, b
<1>3. ASSUME NEW k \in T PROVE k + 1 \in T
  <2>1. SUFFICES ASSUME k + 1 <= 5
                 PROVE  /\ g[(k + 1) + 2] \in Seq(Alphabet)
                        /\ Parse(p, g[(k + 1) + 2]).result = "false"
    OBVIOUS
  <2>2. k + 2 \in 1..6 /\ (k + 2) + 1 = (k + 1) + 2 /\ (k + 2) + 1 \in 1..7
    BY <2>1, SMTT(60)
  <2> DEFINE a == g[k + 2]
             b == h[(k + 2) + 1]
  <2>3. a \in Seq(Alphabet) /\ Parse(p, a).result = "false"
    BY <2>1
  <2>4. b \in Seq(Alphabet) /\ g[(k + 1) + 2] = a \o b
    BY <1>1, <2>2
  <2> HIDE DEF a, b
  <2> QED
    BY <2>3, <2>4, RefusedStays, SMTT(60)
<1>4. T = Nat
  <2> HIDE DEF T
  <2>1. T \in SUBSET Nat
    BY DEF T
  <2> QED
    BY <1>2, <1>3, <2>1, Induction
<1>5. 5 \in T
  <2> HIDE DEF T
  <2> QED
    BY <1>4
<1>6. 5 <= 5 /\ 5 + 2 = 7
  OBVIOUS
<1>7. g[7] \in Seq(Alphabet) /\ Parse(p, g[7]).result = "false"
  BY <1>5, <1>6
<1> QED
  BY <1>1, <1>7

-----------------------------------------------------------------------------
(* Every request of the client.                                            *)

\* What is assumed of each request.
Sendable(r) ==
  /\ r.method \in {GET, POST, DELETE}
  /\ r.path \in Seq(Alphabet) /\ r.body \in Seq(Alphabet)
  /\ r.client \in Seq(Text \cup {"?"}) /\ r.hash \in Seq(1..255)
  /\ r.length \in Seq(Text) /\ r.type \in Seq(Text)

\* The lines of the headers of r.
HeaderText7(r) == FlattenSeq([i \in 1..7 |-> Header(HeadersOf(r)[i])])

(* The lines of the headers are texts.                                     *)
LEMMA HeaderTexts ==
  ASSUME NEW r, Sendable(r)
  PROVE  \A i \in 1..7 : [j \in 1..7 |-> Header(HeadersOf(r)[j])][i] \in Seq(Alphabet)
<1> DEFINE vs == HeadersOf(r)
<1>1. \A v \in Seq(Text \cup {"?"}) : Header(v) \in Seq(Alphabet)
  <2>1. {"z", ":", SP, CR, LF} \subseteq Alphabet
    BY Letters DEF Token, Alphabet, Special, Ctl
  <2>2. <<"z", ":", SP>> \in Seq(Alphabet) /\ <<CR, LF>> \in Seq(Alphabet)
    BY <2>1
  <2>3. Seq(Text \cup {"?"}) \subseteq Seq(Alphabet)
    BY SeqMonotonic DEF Text, Alphabet, Ctl
  <2> QED
    BY <2>2, <2>3, ConcatProperties DEF Header
<1> DEFINE D == Seq(Text \cup {"?"})
<1>2. /\ Host \in D /\ AnyValue \in D /\ Base64(r.hash) \in D
      /\ r.client \in D /\ r.length \in D /\ r.type \in D
  <2>1. Seq(Text) \subseteq D
    BY SeqMonotonic
  <2>2. r.hash \in Seq(0..255)
    BY SeqMonotonic DEF Sendable
  <2> HIDE DEF D
  <2>3. Base64(r.hash) \in D
    BY <2>1, <2>2, Base64Text
  <2>4. Host \in Seq(Text) /\ AnyValue \in Seq(Text)
    BY PlainValues
  <2>5. r.client \in D
    BY DEF Sendable, D
  <2> QED
    BY <2>1, <2>3, <2>4, <2>5 DEF Sendable
<1> HIDE DEF D
<1>3. vs \in Seq(D) /\ Len(vs) = 7
  BY <1>2 DEF HeadersOf
<1>4. \A i \in 1..7 : vs[i] \in D
  BY <1>3, ElementOfSeq
<1> HIDE DEF vs
<1>5. \A i \in 1..7 : Header(vs[i]) \in Seq(Alphabet)
  BY <1>1, <1>4 DEF D
<1> QED
  BY <1>5 DEF vs

(* The four pieces of a request.                                           *)
LEMMA RequestPieces ==
  ASSUME NEW r, Sendable(r)
  PROVE  /\ HeaderText7(r) \in Seq(Alphabet) /\ Version \in Seq(Alphabet)
         /\ <<SP>> \in Seq(Alphabet) /\ r.method \in Seq(Alphabet)
         /\ \E tail \in Seq(Alphabet) :
              RequestText(r) = (((r.method \o <<SP>>) \o r.path) \o Version)
                                 \o (HeaderText7(r) \o tail)
<1> DEFINE m  == r.method
           s  == r.path
           body == r.body
           vs == HeadersOf(r)
           hh == [i \in 1..7 |-> Header(vs[i])]
           h  == HeaderText7(r)
           nl == <<CR, LF>>
           lf == <<LF>>
           x3 == ((m \o <<SP>>) \o s) \o Version
           x4 == x3 \o h
           mk == Marker
<1>1. /\ m \in Seq(Alphabet) /\ s \in Seq(Alphabet) /\ body \in Seq(Alphabet)
  BY ParseMethod DEF Sendable
<1>2. /\ <<SP>> \in Seq(Alphabet) /\ lf \in Seq(Alphabet) /\ nl \in Seq(Alphabet)
      /\ mk \in Seq(Alphabet)
  <2>1. Digits64[5] = "E" /\ Digits64[15] = "O" /\ Digits64[6] = "F"
    BY DEF Digits64
  <2>2. {5, 15, 6} \subseteq DOMAIN Digits64
    BY DEF Digits64
  <2>3. {"E", "O", "F", "%", SP, CR, LF} \subseteq Alphabet
    BY <2>1, <2>2 DEF Chars64, ToSet, Alphabet, Ctl, Special
  <2>4. <<SP>> \in Seq(Alphabet) /\ lf \in Seq(Alphabet) /\ nl \in Seq(Alphabet)
    BY <2>3
  <2>5. mk \in Seq(Alphabet)
    BY <2>3 DEF Marker
  <2> QED
    BY <2>4, <2>5
<1>3. Version \in Seq(Alphabet)
  <2>1. PICK t \in Seq(Alphabet) : Version = <<"?">> \o t /\ <<"?">> \in Seq(Alphabet)
    BY VersionText
  <2> DEFINE e == <<"?">>
  <2>2. e \in Seq(Alphabet) /\ Version = e \o t
    BY <2>1
  <2> HIDE DEF e
  <2> QED
    BY <2>2, ConcatProperties
<1>4. \A i \in 1..7 : hh[i] \in Seq(Alphabet)
  BY HeaderTexts
<1>5. DOMAIN hh = 1..7 /\ Len(hh) = 7
  OBVIOUS
<1>6. h \in Seq(Alphabet)
  <2>1. h = FlattenSeq(hh)
    BY DEF HeaderText7
  <2> HIDE DEF hh, h
  <2>2. FlattenSeq(hh) \in Seq(Alphabet)
    BY <1>4, <1>5, FlattenText
  <2> QED
    BY <2>1, <2>2
<1>7. RequestText(r) = (((x4 \o nl) \o body) \o mk) \o lf
  BY DEF RequestText, Version, HeaderText7
<1> HIDE DEF m, s, body, h, nl, lf, mk
<1>8. x3 \in Seq(Alphabet)
  <2> DEFINE e == <<SP>>
             v == Version
  <2>1. e \in Seq(Alphabet) /\ v \in Seq(Alphabet)
    BY <1>2, <1>3
  <2> HIDE DEF e, v
  <2>2. m \o e \in Seq(Alphabet)
    BY <1>1, <2>1, ConcatProperties
  <2>3. (m \o e) \o s \in Seq(Alphabet)
    BY <1>1, <2>2, ConcatProperties
  <2>4. ((m \o e) \o s) \o v \in Seq(Alphabet)
    BY <2>1, <2>3, ConcatProperties
  <2> QED
    BY <2>4 DEF e, v
<1> HIDE DEF x3
<1> DEFINE t1 == mk \o lf
           t2 == body \o t1
           t3 == nl \o t2
<1>9. t1 \in Seq(Alphabet)
  BY <1>2, ConcatProperties
<1>10. t2 \in Seq(Alphabet)
  <2> HIDE DEF t1
  <2> QED
    BY <1>1, <1>9, ConcatProperties
<1>11. t3 \in Seq(Alphabet)
  <2> HIDE DEF t2
  <2> QED
    BY <1>2, <1>10, ConcatProperties
<1>12. x4 \in Seq(Alphabet)
  BY <1>6, <1>8, ConcatProperties
<1> DEFINE x5 == x4 \o nl
           x6 == x5 \o body
<1>13. x4 = x3 \o h
  OBVIOUS
<1> HIDE DEF x4
<1>14. x5 \in Seq(Alphabet)
  BY <1>2, <1>12, ConcatProperties
<1>15. x6 \in Seq(Alphabet)
  <2> HIDE DEF x5
  <2> QED
    BY <1>1, <1>14, ConcatProperties
<1> DEFINE x7 == x6 \o mk
<1>16. x7 \o lf = x6 \o t1
  <2>1. x7 = x6 \o mk /\ t1 = mk \o lf
    OBVIOUS
  <2> HIDE DEF x6, x7, t1
  <2> QED
    BY <1>2, <1>15, <2>1, Regroup, SMTT(60)
<1>17. x6 \o t1 = x5 \o t2
  <2>1. x6 = x5 \o body /\ t2 = body \o t1
    OBVIOUS
  <2> HIDE DEF x5, x6, t1, t2
  <2> QED
    BY <1>1, <1>9, <1>14, <2>1, Regroup, SMTT(60)
<1>18. x5 \o t2 = x4 \o t3
  <2>1. x5 = x4 \o nl /\ t3 = nl \o t2
    OBVIOUS
  <2> HIDE DEF x5, t2, t3
  <2> QED
    BY <1>2, <1>10, <1>12, <2>1, Regroup, SMTT(60)
<1>19. x4 \o t3 = x3 \o (h \o t3)
  <2> DEFINE t4 == h \o t3
  <2>1. t4 = h \o t3
    OBVIOUS
  <2> HIDE DEF t3, t4
  <2>2. x4 \o t3 = x3 \o t4
    BY <1>6, <1>8, <1>11, <1>13, <2>1, Regroup, SMTT(60)
  <2> QED
    BY <2>1, <2>2
<1> HIDE DEF t3
<1>20. RequestText(r) = x3 \o (h \o t3)
  BY <1>7, <1>16, <1>17, <1>18, <1>19
<1> QED
  BY <1>1, <1>2, <1>3, <1>6, <1>11, <1>20 DEF x3, h, m, s

(* The parser's variables keep their types.                                *)
LEMMA StepType ==
  ASSUME NEW q \in Parsers, NEW c \in Alphabet
  PROVE  Step(q, c) \in Parsers
<1>1. CASE q.result # "indeterminate"
  BY <1>1 DEF Step
<1>2. CASE q.result = "indeterminate" /\ q.state = "content_start"
  <2> DEFINE body == Append(q.content, c)
             cut  == SubSeq(body, 1, Len(body) - Len(Marker))
  <2>1. body \in Seq(Alphabet)
    BY DEF Parsers
  <2>2. cut \in Seq(Alphabet)
    <3>1. Len(Marker) = 4
      BY DEF Marker
    <3> HIDE DEF body
    <3>2. \A i \in 1..(Len(body) - 4) : body[i] \in Alphabet
      BY <2>1
    <3>3. 1 \in Int /\ Len(body) - 4 \in Int
      BY <2>1
    <3> QED
      BY <3>1, <3>2, <3>3, SubSeqProperties
  <2>3. Step(q, c) = IF EndsInMarker(body)
                       THEN [q EXCEPT !.content = cut, !.result = "true"]
                       ELSE [q EXCEPT !.content = body]
    BY <1>2 DEF Step, Consume, ConsumeContent
  <2> HIDE DEF body, cut
  <2>4. /\ [q EXCEPT !.content = cut, !.result = "true"] \in Parsers
        /\ [q EXCEPT !.content = body] \in Parsers
    BY <2>1, <2>2 DEF Parsers
  <2> QED
    BY <2>3, <2>4
<1>3. CASE q.result = "indeterminate" /\ q.state # "content_start"
  <2> DEFINE rows == {r \in Rows : /\ r.at = q.state /\ c \in r.on
                                   /\ r.to = "header_lws" => q.headers # <<>>}
             row  == CHOOSE r \in rows : TRUE
  <2>1. Step(q, c) = IF rows = {} THEN [q EXCEPT !.result = "false"] ELSE Take(q, row, c)
    BY <1>3 DEF Step, Consume
  <2>2. CASE rows = {}
    BY <2>1, <2>2 DEF Parsers
  <2>3. CASE rows # {}
    <3>1. row \in Rows
      BY <2>3
    <3> HIDE DEF row, rows
    <3>2. row.to \in States /\ row.into \in {"nothing", "method", "uri", "headers", "value"}
      BY <3>1 DEF Rows, UriRows, RequestLine, HeaderLines, Row, Skip, States
    <3> DEFINE t == At(q, row.to)
    <3>3. /\ t \in Parsers /\ t.method = q.method /\ t.uri = q.uri /\ t.headers = q.headers
      BY <3>2 DEF Parsers, At
    <3>4. Take(q, row, c) \in Parsers
      <4>1. CASE row.into = "nothing"
        BY <3>3, <4>1 DEF Take, At
      <4>2. CASE row.into = "method"
        <5>1. Append(q.method, c) \in Seq(Alphabet)
          BY DEF Parsers
        <5> QED
          BY <3>2, <4>2, <5>1 DEF Take, Parsers
      <4>3. CASE row.into = "uri"
        <5>1. Append(q.uri, c) \in Seq(Alphabet)
          BY DEF Parsers
        <5> QED
          BY <3>2, <4>3, <5>1 DEF Take, Parsers
      <4>4. CASE row.into = "headers"
        <5>1. Append(q.headers, <<>>) \in Seq(Seq(Alphabet))
          BY DEF Parsers
        <5> QED
          BY <3>2, <4>4, <5>1 DEF Take, Parsers
      <4>5. CASE row.into = "value"
        <5> DEFINE s == q.headers
                   l == Len(s)
                   v == [s EXCEPT ![l] = Append(@, c)]
        <5>1. v \in Seq(Seq(Alphabet))
          <6> DEFINE D == Seq(Alphabet)
          <6>1. s \in Seq(D) /\ \A x \in D : Append(x, c) \in D
            BY DEF Parsers
          <6> HIDE DEF D, s
          <6>2. CASE l \in 1..l
            <7>1. s[l] \in D
              BY <6>1, <6>2, ElementOfSeq
            <7>2. Append(s[l], c) \in D
              BY <6>1, <7>1
            <7>3. [s EXCEPT ![l] = Append(s[l], c)] \in Seq(D)
              BY <6>1, <6>2, <7>2, ExceptSeq
            <7> QED
              BY <7>3 DEF D
          <6>3. CASE l \notin 1..l
            <7>1. l = 0
              BY <6>1, <6>3
            <7>2. s = <<>>
              BY <6>1, <7>1
            <7>3. v = s
              BY <7>1, <7>2
            <7> QED
              BY <6>1, <7>3 DEF D
          <6> QED
            BY <6>2, <6>3
        <5>2. Take(q, row, c) = [q EXCEPT !.state = row.to, !.headers = v]
          BY <4>5 DEF Take, Parsers
        <5> HIDE DEF v
        <5> QED
          BY <3>2, <5>1, <5>2 DEF Parsers
      <4> QED
        BY <3>2, <4>1, <4>2, <4>3, <4>4, <4>5
    <3> QED
      BY <2>1, <2>3, <3>4
  <2> QED
    BY <2>2, <2>3
<1> QED
  BY <1>1, <1>2, <1>3

(* Whatever is read, the parser's variables have their types.              *)
LEMMA ParseType ==
  ASSUME NEW p \in Parsers, NEW s \in Seq(Alphabet)
  PROVE  Parse(p, s) \in Parsers
<1>1. \A q \in Parsers, c \in Alphabet : Step(q, c) \in Parsers
  BY StepType
<1> QED
  BY <1>1, ParseStays

\* The requests whose method is m, for good.
WithMethod(m) ==
  {q \in Parsers : q.method = m /\ q.state \notin {"method_start", "method"}}

(* Nothing behind the blank changes the method.                            *)
LEMMA MethodStays ==
  ASSUME NEW m, NEW q \in WithMethod(m), NEW c \in Alphabet
  PROVE  Step(q, c) \in WithMethod(m)
<1>1. q \in Parsers /\ q.method = m /\ q.state \notin {"method_start", "method"}
  BY DEF WithMethod
<1>2. Step(q, c) \in Parsers
  BY <1>1, StepType
<1>3. Step(q, c).method = m /\ Step(q, c).state \notin {"method_start", "method"}
  <2>1. CASE q.result # "indeterminate"
    BY <1>1, <2>1 DEF Step
  <2>2. CASE q.result = "indeterminate" /\ q.state = "content_start"
    BY <1>1, <2>2 DEF Step, Consume, ConsumeContent, Parsers
  <2>3. CASE q.result = "indeterminate" /\ q.state # "content_start"
    <3> DEFINE rows == {r \in Rows : /\ r.at = q.state /\ c \in r.on
                                     /\ r.to = "header_lws" => q.headers # <<>>}
               row  == CHOOSE r \in rows : TRUE
    <3>1. Step(q, c) = IF rows = {} THEN [q EXCEPT !.result = "false"] ELSE Take(q, row, c)
      BY <2>3 DEF Step, Consume
    <3>2. CASE rows = {}
      BY <1>1, <3>1, <3>2 DEF Parsers
    <3>3. CASE rows # {}
      <4>1. row \in Rows /\ row.at = q.state
        BY <3>3
      <4> HIDE DEF row, rows
      <4>2. /\ row.to \notin {"method_start", "method"}
            /\ row.into \in {"nothing", "uri", "headers", "value"}
        <5>1. \A r \in Rows : r.at \notin {"method_start", "method"} =>
                /\ r.to \notin {"method_start", "method"}
                /\ r.into \in {"nothing", "uri", "headers", "value"}
          BY DEF Rows, UriRows, RequestLine, HeaderLines, Row, Skip
        <5> QED
          BY <1>1, <4>1, <5>1
      <4>3. Take(q, row, c).method = m /\ Take(q, row, c).state = row.to
        <5>1. CASE row.into = "nothing"
          BY <1>1, <5>1 DEF Take, Parsers
        <5>2. CASE row.into = "uri"
          BY <1>1, <5>2 DEF Take, Parsers
        <5>3. CASE row.into = "headers"
          BY <1>1, <5>3 DEF Take, Parsers
        <5>4. CASE row.into = "value"
          BY <1>1, <5>4 DEF Take, Parsers
        <5> QED
          BY <4>2, <5>1, <5>2, <5>3, <5>4
      <4> QED
        BY <3>1, <3>3, <4>2, <4>3
    <3> QED
      BY <3>2, <3>3
  <2> QED
    BY <2>1, <2>2, <2>3
<1> QED
  BY <1>2, <1>3 DEF WithMethod

(* The method of a request is read as it is, whatever its path.            *)
LEMMA MethodRead ==
  ASSUME NEW r, Sendable(r)
  PROVE  /\ RequestText(r) \in Seq(Alphabet)
         /\ Parse(NewParser, RequestText(r)) \in WithMethod(r.method)
<1> DEFINE m == r.method
           e == <<SP>>
           s == r.path
           v == Version
           h == HeaderText7(r)
           q == [NewParser EXCEPT !.state = "uri", !.method = m]
           x1 == m \o e
<1>1. PICK tail \in Seq(Alphabet) : RequestText(r) = ((x1 \o s) \o v) \o (h \o tail)
  BY RequestPieces
<1>2. /\ m \in Seq(Alphabet) /\ e \in Seq(Alphabet) /\ s \in Seq(Alphabet)
      /\ v \in Seq(Alphabet) /\ h \in Seq(Alphabet)
  BY RequestPieces DEF Sendable
<1>3. q \in Reading /\ Parse(Parse(NewParser, m), e) = q
  BY ParseMethod DEF Sendable
<1>4. q \in WithMethod(m)
  BY <1>3 DEF WithMethod, Reading, NewParser
<1> HIDE DEF m, e, s, v, h, q
<1>5. x1 \in Seq(Alphabet) /\ Parse(NewParser, x1) = q
  BY <1>2, <1>3, ThenParse
<1> HIDE DEF x1
<1> DEFINE t1 == h \o tail
           x2 == x1 \o s
           x3 == x2 \o v
           t2 == v \o t1
           t3 == s \o t2
<1>6. t1 \in Seq(Alphabet)
  BY <1>2, ConcatProperties
<1>7. x2 \in Seq(Alphabet)
  BY <1>2, <1>5, ConcatProperties
<1> HIDE DEF t1
<1>8. t2 \in Seq(Alphabet)
  BY <1>2, <1>6, ConcatProperties
<1>9. x3 \o t1 = x2 \o t2
  <2>1. x3 = x2 \o v /\ t2 = v \o t1
    OBVIOUS
  <2> HIDE DEF x2, x3, t2
  <2>2. x2 \in Seq(Alphabet) /\ v \in Seq(Alphabet) /\ t1 \in Seq(Alphabet)
    BY <1>2, <1>6, <1>7
  <2> QED
    BY <2>1, <2>2, Regroup, SMTT(60)
<1> HIDE DEF t2
<1>10. t3 \in Seq(Alphabet)
  BY <1>2, <1>8, ConcatProperties
<1>11. x2 \o t2 = x1 \o t3
  <2>1. x2 = x1 \o s /\ t3 = s \o t2
    OBVIOUS
  <2> HIDE DEF x2, t3
  <2>2. x1 \in Seq(Alphabet) /\ s \in Seq(Alphabet) /\ t2 \in Seq(Alphabet)
    BY <1>2, <1>5, <1>8
  <2> QED
    BY <2>1, <2>2, Regroup, SMTT(60)
<1> HIDE DEF t3
<1>12. RequestText(r) = x1 \o t3
  BY <1>1, <1>9, <1>11 DEF t1
<1>13. x1 \o t3 \in Seq(Alphabet) /\ Parse(NewParser, x1 \o t3) = Parse(q, t3)
  BY <1>5, <1>10, ThenParse
<1>14. Parse(q, t3) \in WithMethod(m)
  <2>1. \A z \in WithMethod(m), c \in Alphabet : Step(z, c) \in WithMethod(m)
    BY MethodStays
  <2> QED
    BY <1>4, <1>10, <2>1, ParseStays
<1> QED
  BY <1>12, <1>13, <1>14 DEF m

\* Requests that no control character spoils.
Plain(r) == r.path \in Seq(Text) /\ r.client \in Seq(Text)

(* A request whose address has a control character is refused.             *)
LEMMA PathRefused ==
  ASSUME NEW r, Sendable(r), OneLine(r.path), r.path \notin Seq(Text)
  PROVE  Parse(NewParser, RequestText(r)).result = "false"
<1> DEFINE m == r.method
           e == <<SP>>
           s == r.path
           v == Version
           h == HeaderText7(r)
           q == [NewParser EXCEPT !.state = "uri", !.method = m]
           x1 == m \o e
<1>1. PICK tail \in Seq(Alphabet) : RequestText(r) = ((x1 \o s) \o v) \o (h \o tail)
  BY RequestPieces
<1>2. /\ m \in Seq(Alphabet) /\ e \in Seq(Alphabet) /\ s \in Seq(Alphabet)
      /\ v \in Seq(Alphabet) /\ h \in Seq(Alphabet) /\ s \notin Seq(Text) /\ OneLine(s)
  BY RequestPieces, ZenonT(60) DEF Sendable
<1>3. q \in Reading /\ Parse(Parse(NewParser, m), e) = q
  BY ParseMethod, ZenonT(60) DEF Sendable
<1>4. q.state = "uri"
  BY DEF NewParser
<1> HIDE DEF m, e, s, h, q
<1>5. x1 \in Seq(Alphabet) /\ Parse(NewParser, x1) = q
  BY <1>2, <1>3, ThenParse
<1>6. Parse(q, s \o v).result = "false"
  BY <1>2, <1>3, <1>4, UriRefused
<1> HIDE DEF x1, v
<1>7. (x1 \o s) \o v = x1 \o (s \o v)
  <2> DEFINE ab == x1 \o s
             bc == s \o v
  <2>1. ab = x1 \o s /\ bc = s \o v
    OBVIOUS
  <2> HIDE DEF ab, bc
  <2>2. x1 \in Seq(Alphabet) /\ s \in Seq(Alphabet) /\ v \in Seq(Alphabet)
    BY <1>2, <1>5
  <2>3. ab \o v = x1 \o bc
    BY <2>1, <2>2, Regroup, SMTT(60)
  <2> QED
    BY <2>1, <2>3
<1> DEFINE t == s \o v
           x == x1 \o t
           u == h \o tail
<1>8. t \in Seq(Alphabet) /\ u \in Seq(Alphabet)
  BY <1>2, ConcatProperties
<1>9. Parse(q, t).result = "false"
  BY <1>6
<1>10. RequestText(r) = x \o u
  BY <1>1, <1>7
<1> HIDE DEF t, u
<1>11. x \in Seq(Alphabet) /\ Parse(NewParser, x).result = "false"
  BY <1>5, <1>8, <1>9, ThenParse
<1> HIDE DEF x
<1>12. Parse(NewParser, x \o u).result = "false"
  BY <1>8, <1>11, RefusedStays
<1> QED
  BY <1>10, <1>12

(* A request whose account has a question mark is refused.                 *)
LEMMA ClientRefused ==
  ASSUME NEW r, Sendable(r), r.path \in Seq(Text), r.client \notin Seq(Text)
  PROVE  Parse(NewParser, RequestText(r)).result = "false"
<1> DEFINE m == r.method
           e == <<SP>>
           s == r.path
           v == Version
           hh == [i \in 1..7 |-> Header(HeadersOf(r)[i])]
           h == HeaderText7(r)
           q1 == [NewParser EXCEPT !.state = "uri", !.method = m]
           q2 == [q1 EXCEPT !.uri = @ \o s]
           q3 == [q2 EXCEPT !.state = "header_line_start"]
           x1 == m \o e
           x2 == x1 \o s
           x3 == x2 \o v
<1>1. PICK tail \in Seq(Alphabet) : RequestText(r) = x3 \o (h \o tail)
  BY RequestPieces
<1>2. /\ m \in Seq(Alphabet) /\ e \in Seq(Alphabet) /\ s \in Seq(Alphabet)
      /\ v \in Seq(Alphabet) /\ h \in Seq(Alphabet) /\ s \in Seq(Text)
  BY RequestPieces, ZenonT(60) DEF Sendable
<1>3. q1 \in Reading /\ Parse(Parse(NewParser, m), e) = q1
  BY ParseMethod, ZenonT(60) DEF Sendable
<1>4. q1.state = "uri"
  BY DEF NewParser
<1>5. h = FlattenSeq(hh)
  BY DEF HeaderText7
<1>6. DOMAIN hh = 1..7 /\ Len(hh) = 7
  OBVIOUS
<1>7. hh[1] = Header(Host) /\ hh[2] = Header(r.client)
  BY DEF HeadersOf
<1>8. \A i \in 1..7 : hh[i] \in Seq(Alphabet)
  BY HeaderTexts
<1> HIDE DEF m, e, s, h, hh, q1
<1>9. Parse(q1, s) = q2
  BY <1>2, <1>3, <1>4, ParseUri
<1>10. q2 \in Reading /\ q2.state = "uri"
  <2>1. q1.uri \o s \in Seq(Alphabet)
    BY <1>2, <1>3, ConcatProperties DEF Reading, Parsers
  <2> QED
    BY <1>3, <1>4, <2>1 DEF Reading, Parsers
<1> HIDE DEF q2
<1>11. Parse(q2, v) = q3 /\ q3 \in Reading
  BY <1>10, ParseVersion
<1>12. q3.state = "header_line_start"
  BY <1>10 DEF Reading, Parsers
<1> HIDE DEF q3, v
<1>13. Parse(q3, h).result = "false"
  <2>1. Host \in Seq(Text) /\ r.client \in Seq(Text \cup {"?"})
    BY PlainValues DEF Sendable
  <2>2. Parse(q3, FlattenSeq(hh)).result = "false"
    BY <1>6, <1>7, <1>8, <1>11, <1>12, <2>1, HeadersRefused, ZenonT(60)
  <2> QED
    BY <1>5, <2>2
<1>14. x1 \in Seq(Alphabet) /\ Parse(NewParser, x1) = q1
  BY <1>2, <1>3, ThenParse
<1> HIDE DEF x1
<1>15. x2 \in Seq(Alphabet) /\ Parse(NewParser, x2) = q2
  BY <1>2, <1>9, <1>14, ThenParse
<1> HIDE DEF x2
<1>16. x3 \in Seq(Alphabet) /\ Parse(NewParser, x3) = q3
  BY <1>2, <1>11, <1>15, ThenParse
<1> HIDE DEF x3
<1>17. h \o tail \in Seq(Alphabet) /\ Parse(q3, h \o tail).result = "false"
  BY <1>2, <1>13, RefusedStays
<1> DEFINE t == h \o tail
<1>18. t \in Seq(Alphabet) /\ Parse(q3, t).result = "false"
  BY <1>17
<1> HIDE DEF t
<1>19. Parse(NewParser, x3 \o t).result = "false"
  BY <1>16, <1>18, ThenParse
<1> QED
  BY <1>1, <1>19 DEF t

(* Every request is refused, or read as what the client has put in.        *)
LEMMA ReadOrRefused ==
  ASSUME NEW r, Sendable(r), OneLine(r.path)
  PROVE  LET p == Parse(NewParser, RequestText(r))
         IN IF Plain(r) THEN Complete(p, r) ELSE p.result = "false"
<1>1. CASE Plain(r)
  <2>1. r.hash \in Seq(0..255)
    BY SeqMonotonic DEF Sendable
  <2>2. Printable(r)
    BY <1>1, <2>1 DEF Printable, Plain, Sendable
  <2> QED
    BY <1>1, <2>2, ParseRequest
<1>2. CASE ~ Plain(r)
  BY <1>2, PathRefused, ClientRefused DEF Plain
<1> QED
  BY <1>1, <1>2

-----------------------------------------------------------------------------
(* The connection.                                                         *)

\* The parser has read the text of the request up to what is on the wire.
WireInv ==
  /\ sent \in Requests /\ wire \in Seq(Alphabet)
  /\ \E read \in Seq(Alphabet) :
       RequestText(sent) = read \o wire /\ parser = Parse(NewParser, read)

\* What is answered is what the parser has found, and the client has read it.
ReplyInv ==
  /\ stage \in Stages /\ gone \in BOOLEAN /\ parser \in Parsers
  /\ parser.result = "indeterminate" => reply = NoReply /\ stage # "handle_write"
  /\ parser.result = "false" => reply = StockReply("bad_request")
  /\ parser.result = "true" => reply \in HandleRequest(parser)
  /\ stage = "handle_read" => parser.result = "indeterminate"
  /\ answer # <<>> => answer = ToBuffers(reply) /\ parser.result # "indeterminate"
  /\ client # NothingYet =>
       client = ReadStatusLine(ToBuffers(reply)) /\ parser.result # "indeterminate"

ConnectionInv == WireInv /\ ReplyInv

(* The client's requests are as assumed.                                   *)
LEMMA RequestsSendable == \A r \in Requests : Sendable(r)
BY ConnectionAssumption DEF Sendable

(* A new request has the types.                                            *)
LEMMA NewParserType == NewParser \in Parsers
<1>1. Row("method_start", Token, "method", "method") \in Rows
  BY DEF Rows, RequestLine
<1>2. "method_start" \in States
  BY <1>1 DEF States, Row
<1> DEFINE D == Seq(Seq(Alphabet))
           C == Seq(Alphabet)
<1>3. <<>> \in C /\ <<>> \in D
  OBVIOUS
<1> HIDE DEF C, D
<1>4. NewParser \in [state : States, result : {"indeterminate", "true", "false"},
                     method : C, uri : C, headers : D, content : C]
  BY <1>2, <1>3, SMTT(60) DEF NewParser
<1> QED
  BY <1>4 DEF Parsers, C, D

(* What is read and what is left make up the text.                         *)
LEMMA CutAt ==
  ASSUME NEW s \in Seq(Alphabet), NEW n \in 1..Len(s)
  PROVE  /\ SubSeq(s, 1, n) \in Seq(Alphabet) /\ SubSeq(s, n + 1, Len(s)) \in Seq(Alphabet)
         /\ s = SubSeq(s, 1, n) \o SubSeq(s, n + 1, Len(s))
<1>1. SubSeq(s, 1, n) \in Seq(Alphabet) /\ SubSeq(s, n + 1, Len(s)) \in Seq(Alphabet)
  OBVIOUS
<1>2. SubSeq(s, 1, Len(s)) = s
  BY SubSeqFull
<1>3. SubSeq(s, 1, n) \o SubSeq(s, n + 1, Len(s)) = SubSeq(s, 1, Len(s))
  <2>1. 1 \in 1..(Len(s) + 1) /\ n \in (1 - 1)..Len(s) /\ Len(s) \in n..Len(s)
    OBVIOUS
  <2> QED
    BY <2>1, ConcatAdjacentSubSeq
<1> QED
  BY <1>1, <1>2, <1>3

(* A connection starts with nothing read and nothing answered.             *)
LEMMA ConnectionInit == Init => ConnectionInv
<1> SUFFICES ASSUME Init PROVE ConnectionInv
  OBVIOUS
<1>1. sent \in Requests /\ wire = RequestText(sent) /\ parser = NewParser
  BY DEF Init
<1>2. wire \in Seq(Alphabet)
  BY <1>1, RequestsSendable, MethodRead
<1>3. WireInv
  <2> DEFINE e == <<>>
  <2>1. e \in Seq(Alphabet) /\ RequestText(sent) = e \o wire
    BY <1>1, <1>2, ConcatEmptySeq
  <2>2. Parse(NewParser, e) = NewParser
    <3> DEFINE Q == {NewParser}
    <3>1. NewParser \in Q /\ e \in Seq({}) /\ \A q \in Q, c \in {} : Step(q, c) \in Q
      OBVIOUS
    <3> HIDE DEF Q, e
    <3>2. Parse(NewParser, e) \in Q
      BY <3>1, ParseStays
    <3> QED
      BY <3>2 DEF Q
  <2> HIDE DEF e
  <2> QED
    BY <1>1, <1>2, <2>1, <2>2 DEF WireInv
<1>4. NewParser.result = "indeterminate"
  BY DEF NewParser
<1>5. ReplyInv
  BY <1>1, <1>4, NewParserType DEF Init, ReplyInv, Stages
<1> QED
  BY <1>3, <1>5 DEF ConnectionInv

(* The parser goes on where it was, the handler answers what it has found, *)
(* and nothing else touches the request or the reply.                      *)
LEMMA ConnectionStep == ConnectionInv /\ [Next]_vars => ConnectionInv'
<1> SUFFICES ASSUME ConnectionInv, [Next]_vars PROVE ConnectionInv'
  OBVIOUS
<1> USE DEF ConnectionInv
<1>1. ASSUME NEW n \in 1..BufferSize, stage = "handle_read", n <= Len(wire),
             parser' = Parse(parser, SubSeq(wire, 1, n)),
             wire' = SubSeq(wire, n + 1, Len(wire)),
             reply' \in CASE parser'.result = "true"          -> HandleRequest(parser')
                          [] parser'.result = "false"         -> {StockReply("bad_request")}
                          [] parser'.result = "indeterminate" -> {NoReply},
             stage' = IF parser'.result = "indeterminate" THEN "handle_read"
                      ELSE "handle_write",
             UNCHANGED <<sent, gone, answer, client>>
      PROVE  ConnectionInv'
  <2> DEFINE a == SubSeq(wire, 1, n)
             b == SubSeq(wire, n + 1, Len(wire))
  <2>1. wire \in Seq(Alphabet)
    BY DEF WireInv
  <2>2. n \in 1..Len(wire)
    BY <1>1, <2>1
  <2>3. a \in Seq(Alphabet) /\ b \in Seq(Alphabet) /\ wire = a \o b
    BY <2>1, <2>2, CutAt
  <2>4. parser' = Parse(parser, a) /\ wire' = b
    BY <1>1
  <2> HIDE DEF a, b
  <2>5. PICK read \in Seq(Alphabet) :
               RequestText(sent) = read \o wire /\ parser = Parse(NewParser, read)
    BY DEF WireInv
  <2> DEFINE x == read \o a
  <2>6. x \in Seq(Alphabet) /\ parser' = Parse(NewParser, x)
    BY <2>3, <2>4, <2>5, ParseConcat, ConcatProperties
  <2>7. RequestText(sent) = x \o b
    BY <2>3, <2>5, Regroup, SMTT(60)
  <2> HIDE DEF x
  <2>8. WireInv'
    BY <1>1, <2>3, <2>4, <2>6, <2>7 DEF WireInv
  <2>9. parser' \in Parsers
    BY <2>3, <2>4, ParseType DEF ReplyInv
  <2>10. parser'.result \in {"indeterminate", "true", "false"}
    BY <2>9 DEF Parsers
  <2>11. parser.result = "indeterminate" /\ answer = <<>> /\ client = NothingYet
    BY <1>1 DEF ReplyInv
  <2>12. ReplyInv'
    BY <1>1, <2>9, <2>10, <2>11 DEF ReplyInv, Stages
  <2> QED
    BY <2>8, <2>12
<1>2. CASE HandleReadError
  BY <1>2 DEF HandleReadError, WireInv, ReplyInv, Stages
<1>3. CASE HandleWrite
  BY <1>3 DEF HandleWrite, WireInv, ReplyInv, Stages
<1>4. CASE ClientReads
  BY <1>4 DEF ClientReads, WireInv, ReplyInv
<1>5. CASE ClientExits
  BY <1>5 DEF ClientExits, WireInv, ReplyInv
<1>6. CASE UNCHANGED vars
  BY <1>6 DEF vars, WireInv, ReplyInv
<1>7. CASE HandleRead
  BY <1>1, <1>7 DEF HandleRead
<1> QED
  BY <1>2, <1>3, <1>4, <1>5, <1>6, <1>7 DEF Next, Server

(* The invariant is one.                                                   *)
LEMMA ConnectionHolds == Spec => []ConnectionInv
<1> QED
  BY ConnectionInit, ConnectionStep, PTL DEF Spec

(* All of the text leads the parser where what it has read has led it, if  *)
(* that has ended the request.                                             *)
LEMMA WholeText ==
  ASSUME ConnectionInv, parser.result # "indeterminate"
  PROVE  parser = Parse(NewParser, RequestText(sent)) /\ Sendable(sent)
<1>1. PICK read \in Seq(Alphabet) :
             RequestText(sent) = read \o wire /\ parser = Parse(NewParser, read)
  BY DEF ConnectionInv, WireInv
<1>2. wire \in Seq(Alphabet) /\ sent \in Requests
  BY DEF ConnectionInv, WireInv
<1>3. Parse(NewParser, read \o wire) = Parse(parser, wire)
  BY <1>1, <1>2, ParseConcat
<1>4. Parse(parser, wire) = parser
  BY <1>2, ParseDone
<1> QED
  BY <1>1, <1>2, <1>3, <1>4, RequestsSendable

(* However the text of a request is cut, the handler gets what the client  *)
(* has put in, unless the path is such that it can hold the rest of one.   *)
THEOREM TextsAreRead == Spec => []ReadsWhatWasSent
<1>1. ConnectionInv => ReadsWhatWasSent
  <2> SUFFICES ASSUME ConnectionInv, OneLine(sent.path), parser.result = "true"
               PROVE  /\ parser.method = sent.method /\ parser.uri = sent.path
                      /\ parser.headers = HeadersOf(sent)
                      /\ parser.content = BeforeMarker(sent.body)
    BY DEF ReadsWhatWasSent
  <2>1. parser = Parse(NewParser, RequestText(sent)) /\ Sendable(sent)
    BY WholeText
  <2>2. Complete(parser, sent)
    BY <2>1, ReadOrRefused
  <2> QED
    BY <2>2 DEF Complete
<1> QED
  BY <1>1, ConnectionHolds, PTL

-----------------------------------------------------------------------------
(* The replies.                                                            *)

\* The statuses that a request which is not refused can be answered with, and
\* those of all requests.
Granted == {"not_found", "accepted", "not_sync", "created", "internal_server_error"}
Said == Granted \cup {"bad_request", "unauthorized"}

\* The headers of a reply.
HeaderNames == {<<>>, <<"Content-Length", "Content-Type">>}

(* Every request has a case, and its result is never taken for a refusal.  *)
LEMMA GrantedReplies ==
  ASSUME NEW p, p.method \in {GET, POST, DELETE}, NEW x \in Results(p)
  PROVE  x.status \in Granted /\ x.headers \in HeaderNames
<1>1. GET # POST /\ GET # DELETE /\ POST # DELETE
  BY DEF GET, POST, DELETE
<1> DEFINE extension == Extension(CHOOSE path \in RequestPath(p.uri) : TRUE)
<1> HIDE DEF extension
<1>2. \A s \in Granted, c \in {"", "file"} :
        BareReply(s, c).status \in Granted /\ BareReply(s, c).headers \in HeaderNames
  BY DEF BareReply, HeaderNames
<1>3. CASE p.method = GET
  <2>1. Results(p) = {StockReply("not_found"), BareReply("accepted", "file"),
                      BareReply("not_sync", "file")}
    BY <1>1, <1>3 DEF Results
  <2>2. x = StockReply("not_found") \/ \E s \in Granted, c \in {"", "file"} : x = BareReply(s, c)
    BY <2>1 DEF Granted
  <2>3. /\ StockReply("not_found").status \in Granted
        /\ StockReply("not_found").headers \in HeaderNames
    BY DEF StockReply, HeaderNames, Granted
  <2> QED
    BY <1>2, <2>2, <2>3
<1>4. CASE p.method = DELETE
  <2>1. Results(p) = {BareReply("not_found", ""), BareReply("accepted", "")}
    BY <1>1, <1>4 DEF Results
  <2>2. \E s \in Granted, c \in {"", "file"} : x = BareReply(s, c)
    BY <2>1 DEF Granted
  <2> QED
    BY <1>2, <2>2
<1>5. CASE p.method = POST /\ extension # <<>>
  <2>1. Results(p) = {BareReply("created", ""), BareReply("internal_server_error", "")}
    BY <1>1, <1>5 DEF Results, extension
  <2>2. \E s \in Granted, c \in {"", "file"} : x = BareReply(s, c)
    BY <2>1 DEF Granted
  <2> QED
    BY <1>2, <2>2
<1>6. CASE p.method = POST /\ extension = <<>>
  <2>1. Results(p) = {BareReply(IF p.headers[6] = <<>> /\ p.headers[7] = <<>>
                                  THEN "accepted" ELSE "created", "")}
    BY <1>1, <1>6 DEF Results, extension
  <2>2. \E s \in Granted, c \in {"", "file"} : x = BareReply(s, c)
    BY <2>1 DEF Granted
  <2> QED
    BY <1>2, <2>2
<1> QED
  BY <1>3, <1>4, <1>5, <1>6

(* The answer to every request has one of these statuses.                  *)
LEMMA Answers ==
  ASSUME NEW p, p.method \in {GET, POST, DELETE}, NEW x \in HandleRequest(p)
  PROVE  x.status \in Said /\ x.headers \in HeaderNames
<1>1. x \in {StockReply("unauthorized"), StockReply("bad_request")} \/ x \in Results(p)
  BY DEF HandleRequest
<1>2. \A s \in {"unauthorized", "bad_request"} :
        StockReply(s).status = s /\ StockReply(s).headers \in HeaderNames
  BY DEF StockReply, HeaderNames
<1> QED
  BY <1>1, <1>2, GrantedReplies DEF Said

(* What is answered to a complete or invalid request.                      *)
LEMMA ReplySaid ==
  ASSUME ConnectionInv, parser.result # "indeterminate"
  PROVE  reply.status \in Said /\ reply.headers \in HeaderNames /\ reply # NoReply
<1>1. parser.result \in {"true", "false"}
  BY DEF ConnectionInv, ReplyInv, Parsers
<1>2. parser.method \in {GET, POST, DELETE}
  <2>1. Parse(NewParser, RequestText(sent)) \in WithMethod(sent.method)
    BY WholeText, MethodRead
  <2>2. parser.method = sent.method /\ Sendable(sent)
    BY <2>1, WholeText DEF WithMethod
  <2> QED
    BY <2>2 DEF Sendable
<1>3. reply.status \in Said /\ reply.headers \in HeaderNames
  <2>1. CASE parser.result = "true"
    BY <1>2, <2>1, Answers DEF ConnectionInv, ReplyInv
  <2>2. CASE parser.result = "false"
    BY <2>2 DEF ConnectionInv, ReplyInv, StockReply, Said, HeaderNames
  <2> QED
    BY <1>1, <2>1, <2>2
<1>4. NoReply.status = "none" /\ "none" \notin Said
  BY DEF NoReply, BareReply, Said, Granted
<1> QED
  BY <1>3, <1>4

(* The status line is the first of the buffers.                            *)
LEMMA FirstBuffer ==
  ASSUME NEW x, x.headers \in HeaderNames
  PROVE  ToBuffers(x)[1] = StatusLine(x.status)
<1>1. CASE x.headers = <<>>
  BY <1>1 DEF ToBuffers
<1>2. CASE x.headers = <<"Content-Length", "Content-Type">>
  BY <1>2 DEF ToBuffers
<1> QED
  BY <1>1, <1>2 DEF HeaderNames

(* What the client makes of the code of each status.                       *)
LEMMA CodeRead ==
  ASSUME NEW x, x.headers \in HeaderNames, x.status \in Said
  PROVE  LET c == ReadStatusLine(ToBuffers(x))
         IN /\ c.autherror \in BOOLEAN /\ c.statuscode \in Nat /\ c # NothingYet
            /\ c.autherror <=> x.status = "unauthorized"
            /\ c.statuscode \in {404, 305} <=> x.status \in {"not_found", "not_sync"}
<1> DEFINE code == Code[x.status]
<1>1. x.status \in Cases
  BY DEF Said, Granted, Cases, Code
<1>2. StatusLine(x.status)[2] = code
  BY <1>1 DEF StatusLine, CaseOf
<1>3. ToBuffers(x)[1][2] = code
  BY <1>2, FirstBuffer
<1>4. ReadStatusLine(ToBuffers(x))
        = [autherror |-> code = 401, statuscode |-> IF code \in {200, 401} THEN Unset ELSE code]
  BY <1>3 DEF ReadStatusLine
<1>5. \/ x.status = "bad_request" /\ code = 400
      \/ x.status = "unauthorized" /\ code = 401
      \/ x.status = "not_found" /\ code = 404
      \/ x.status = "accepted" /\ code = 202
      \/ x.status = "not_sync" /\ code = 305
      \/ x.status = "created" /\ code = 201
      \/ x.status = "internal_server_error" /\ code = 500
  BY DEF Said, Granted, Code
<1> DEFINE c == ReadStatusLine(ToBuffers(x))
<1> HIDE DEF code
<1>6. /\ c.autherror = (code = 401)
      /\ c.statuscode = IF code \in {200, 401} THEN 0 ELSE code
  BY <1>4 DEF Unset
<1> HIDE DEF c
<1>7. /\ c.autherror \in BOOLEAN
      /\ c.autherror <=> x.status = "unauthorized"
  <2>1. code = 401 <=> x.status = "unauthorized"
    BY <1>5
  <2> QED
    BY <1>6, <2>1
<1>8. /\ c.statuscode \in Nat
      /\ c.statuscode \in {404, 305} <=> x.status \in {"not_found", "not_sync"}
      /\ x.status # "unauthorized" => c.statuscode # 0
  BY <1>5, <1>6
<1>9. c # NothingYet
  <2>1. NothingYet.autherror = FALSE /\ NothingYet.statuscode = 0
    BY DEF NothingYet, Unset
  <2> QED
    BY <1>7, <1>8, <2>1
<1> QED
  BY <1>7, <1>8, <1>9 DEF c

(* What is left on the wire is the end of the text.                        *)
LEMMA WireIsEnd ==
  ASSUME NEW a \in Seq(Alphabet), NEW b \in Seq(Alphabet)
  PROVE  IsSuffix(b, a \o b)
<1> DEFINE m == Len(a)
           n == Len(b)
           t == a \o b
           rb == Reverse(b)
           rt == Reverse(t)
<1>1. /\ m \in Nat /\ n \in Nat /\ t \in Seq(Alphabet) /\ Len(t) = m + n
      /\ \A i \in 1..(m + n) : t[i] = IF i <= m THEN a[i] ELSE b[i - m]
  BY ConcatProperties
<1>2. rb \in Seq(Alphabet) /\ Len(rb) = n /\ \A i \in 1..n : rb[i] = b[(n - i) + 1]
  BY DEF Reverse
<1> HIDE DEF m, n, t
<1>3. /\ rt \in Seq(Alphabet) /\ Len(rt) = m + n
      /\ \A i \in 1..(m + n) : rt[i] = t[((m + n) - i) + 1]
  BY <1>1 DEF Reverse
<1> HIDE DEF rb, rt
<1> DEFINE x == SubSeq(rt, 1, n)
<1>4. x \in Seq(Alphabet) /\ Len(x) = n /\ \A i \in 1..n : x[i] = rt[i]
  BY <1>1, <1>3
<1> HIDE DEF x
<1>5. ASSUME NEW i \in 1..n PROVE x[i] = rb[i]
  <2>1. /\ i \in 1..(m + n) /\ ((m + n) - i) + 1 \in 1..(m + n)
        /\ ~ (((m + n) - i) + 1 <= m) /\ (((m + n) - i) + 1) - m = (n - i) + 1
    BY <1>1
  <2> QED
    BY <1>1, <1>2, <1>3, <1>4, <2>1, ZenonT(60)
<1>6. x = rb
  BY <1>2, <1>4, <1>5, SeqEqual
<1>7. SubSeq(rb, 1, n) = rb
  BY <1>2, SubSeqFull
<1>8. n <= m + n
  BY <1>1
<1> QED
  BY <1>2, <1>3, <1>6, <1>7, <1>8 DEF IsSuffix, IsPrefix, x, rb, rt, t

(* The types; the server answers exactly the requests that are at an end.  *)
THEOREM ConnectionTypeCorrect == Spec => []TypeOK
<1>1. ConnectionInv => TypeOK
  <2> SUFFICES ASSUME ConnectionInv PROVE TypeOK
    OBVIOUS
  <2>1. /\ sent \in Requests /\ parser.state \in States /\ stage \in Stages
        /\ gone \in BOOLEAN
        /\ stage = "handle_read" => reply = NoReply
        /\ parser.result = "indeterminate" => reply = NoReply
    BY DEF ConnectionInv, WireInv, ReplyInv, Parsers
  <2>2. parser.result # "indeterminate" => reply # NoReply /\ reply.status \in Cases
    <3>1. Said \subseteq Cases
      BY DEF Said, Granted, Cases, Code
    <3> QED
      BY <3>1, ReplySaid
  <2>3. client.autherror \in BOOLEAN /\ client.statuscode \in Nat
    <3>1. CASE client = NothingYet
      BY <3>1 DEF NothingYet, Unset
    <3>2. CASE client # NothingYet
      <4>1. /\ client = ReadStatusLine(ToBuffers(reply))
            /\ parser.result # "indeterminate"
        BY <3>2 DEF ConnectionInv, ReplyInv
      <4> QED
        BY <4>1, ReplySaid, CodeRead
    <3> QED
      BY <3>1, <3>2
  <2>4. IsSuffix(wire, RequestText(sent))
    BY WireIsEnd DEF ConnectionInv, WireInv
  <2> QED
    BY <2>1, <2>2, <2>3, <2>4 DEF TypeOK
<1> QED
  BY <1>1, ConnectionHolds, PTL

(* The client takes a reply for what it is.                                *)
THEOREM RepliesRead == Spec => RepliesUnderstood
<1>1. ConnectionInv /\ [Next]_vars =>
        [ClientReads =>
           /\ client'.autherror <=> reply.status = "unauthorized"
           /\ client'.statuscode \in {404, 305} <=>
                reply.status \in {"not_found", "not_sync"}
           /\ client' # NothingYet]_vars
  <2> SUFFICES ASSUME ConnectionInv, ClientReads
               PROVE  /\ client'.autherror <=> reply.status = "unauthorized"
                      /\ client'.statuscode \in {404, 305} <=>
                           reply.status \in {"not_found", "not_sync"}
                      /\ client' # NothingYet
    OBVIOUS
  <2>1. client' = ReadStatusLine(answer) /\ answer # <<>>
    BY DEF ClientReads
  <2>2. client' = ReadStatusLine(ToBuffers(reply)) /\ parser.result # "indeterminate"
    BY <2>1 DEF ConnectionInv, ReplyInv
  <2> QED
    BY <2>2, ReplySaid, CodeRead
<1> QED
  BY <1>1, ConnectionHolds, PTL DEF Spec, RepliesUnderstood

-----------------------------------------------------------------------------
(* The path.                                                               *)

(* A text without percent and plus signs is decoded to itself.             *)
LEMMA PlainDecode ==
  ASSUME NEW s \in Seq(Alphabet), \A i \in 1..Len(s) : s[i] \notin {"%", "+"}
  PROVE  UrlDecode(s) = {s}
<1> DEFINE n == Len(s)
           F(x) == [i \in 1..(n + 1) |->
             IF i > n THEN {<<>>}
             ELSE IF s[i] # "%" THEN
               {<<IF s[i] = "+" THEN SP ELSE s[i]>> \o t : t \in x[i + 1]}
             ELSE IF i + 2 <= n /\ ReadsAsHex(s[i + 1], s[i + 2]) THEN
               {<<Decoded(s[i + 1], s[i + 2])>> \o t : t \in x[i + 3]}
             ELSE {}]
           from == CHOOSE x : x = F(x)
           w == [i \in 1..(n + 1) |-> {SubSeq(s, i, n)}]
<1>1. n \in Nat
  OBVIOUS
<1>2. UrlDecode(s) = from[1]
  BY DEF UrlDecode
<1>3. ASSUME NEW x, NEW i \in 1..n PROVE F(x)[i] = {<<s[i]>> \o t : t \in x[i + 1]}
  <2>1. i \in 1..(n + 1) /\ ~ (i > n) /\ i <= n /\ s[i] # "%" /\ s[i] # "+"
    BY <1>1
  <2> QED
    BY <2>1
<1>4. ASSUME NEW x PROVE F(x)[n + 1] = {<<>>}
  <2>1. n + 1 \in 1..(n + 1) /\ n + 1 > n /\ ~ (n + 1 <= n)
    BY <1>1
  <2> QED
    BY <2>1
<1>5. \A i \in 1..n : SubSeq(s, i, n) = <<s[i]>> \o SubSeq(s, i + 1, n)
  <2>1. \A i \in 1..n : n \in i..n
    BY <1>1
  <2> QED
    BY <2>1, SubSeqRecursiveFirst
<1>6. SubSeq(s, n + 1, n) = <<>>
  <2>1. n < n + 1 /\ n + 1 \in Int /\ n \in Int
    BY <1>1
  <2> QED
    BY <2>1, SubSeqEmpty
<1>7. \A x : DOMAIN F(x) = 1..(n + 1) /\ F(x) = [i \in 1..(n + 1) |-> F(x)[i]]
  OBVIOUS
<1> HIDE DEF F, n
<1>8. w = F(w)
  <2>1. ASSUME NEW i \in 1..(n + 1) PROVE F(w)[i] = {SubSeq(s, i, n)}
    <3>1. CASE i = n + 1
      BY <1>4, <1>6, <3>1
    <3>2. CASE i # n + 1
      <4>1. i \in 1..n /\ i + 1 \in 1..(n + 1)
        BY <1>1, <3>2
      <4>2. F(w)[i] = {<<s[i]>> \o t : t \in w[i + 1]}
        <5> HIDE DEF w
        <5> QED
          BY <1>3, <4>1
      <4>3. w[i + 1] = {SubSeq(s, i + 1, n)}
        BY <4>1
      <4>4. F(w)[i] = {<<s[i]>> \o SubSeq(s, i + 1, n)}
        <5> HIDE DEF w
        <5> QED
          BY <4>2, <4>3
      <4> QED
        BY <1>5, <4>1, <4>4
    <3> QED
      BY <3>1, <3>2
  <2>2. F(w) = [i \in 1..(n + 1) |-> F(w)[i]]
    BY <1>7
  <2> QED
    BY <2>1, <2>2
<1>9. from = F(from)
  BY <1>8
<1> HIDE DEF from, w
<1> DEFINE T == {k \in Nat : k <= n => from[(n + 1) - k] = {SubSeq(s, (n + 1) - k, n)}}
<1>10. 0 \in T
  <2>1. (n + 1) - 0 = n + 1
    BY <1>1
  <2>2. from[n + 1] = {<<>>}
    BY <1>4, <1>9
  <2> QED
    BY <1>6, <2>1, <2>2
<1>11. ASSUME NEW k \in T PROVE k + 1 \in T
  <2>1. SUFFICES ASSUME k + 1 <= n
                 PROVE  from[(n + 1) - (k + 1)] = {SubSeq(s, (n + 1) - (k + 1), n)}
    OBVIOUS
  <2> DEFINE i == n - k
  <2>2. i \in 1..n /\ (n + 1) - (k + 1) = i /\ (n + 1) - k = i + 1 /\ k <= n
    BY <1>1, <2>1
  <2>3. from[(n + 1) - k] = {SubSeq(s, (n + 1) - k, n)}
    BY <2>2
  <2> HIDE DEF i
  <2>4. from[i + 1] = {SubSeq(s, i + 1, n)}
    BY <2>2, <2>3
  <2>5. from[i] = {<<s[i]>> \o t : t \in from[i + 1]}
    <3>1. F(from)[i] = {<<s[i]>> \o t : t \in from[i + 1]}
      BY <1>3, <2>2
    <3> QED
      BY <1>9, <3>1
  <2>6. from[i] = {SubSeq(s, i, n)}
    BY <1>5, <2>2, <2>4, <2>5, ZenonT(60)
  <2> QED
    BY <2>2, <2>6
<1>12. T = Nat
  <2> HIDE DEF T
  <2>1. T \in SUBSET Nat
    BY DEF T
  <2> QED
    BY <1>10, <1>11, <2>1, Induction
<1>13. n \in T
  <2> HIDE DEF T
  <2> QED
    BY <1>1, <1>12
<1>14. (n + 1) - n = 1 /\ n <= n
  BY <1>1
<1>15. from[1] = {SubSeq(s, 1, n)}
  BY <1>13, <1>14
<1> QED
  BY <1>2, <1>15, SubSeqFull DEF n

(* A plain path is the path of a request for it.                           *)
LEMMA PlainRequestPath ==
  ASSUME NEW s \in Seq(Alphabet), PlainPath(s)
  PROVE  RequestPath(s) = {s} /\ s \in Seq(Text) /\ OneLine(s)
<1>1. \A i \in 1..Len(s) : s[i] \in Text /\ s[i] \notin {"%", "+"}
  BY DEF PlainPath
<1>2. UrlDecode(s) = {s}
  BY <1>1, PlainDecode
<1>3. s \in Seq(Text)
  BY <1>1
<1>4. OneLine(s)
  <2>1. "?" \notin Text
    BY DEF Text, Ctl
  <2> QED
    BY <1>1, <2>1 DEF OneLine, Contains
<1>5. RequestPath(s) = {s}
  BY <1>2 DEF RequestPath, PlainPath
<1> QED
  BY <1>3, <1>4, <1>5

(* A path without a dot has no extension.                                  *)
LEMMA NoExtension ==
  ASSUME NEW s \in Seq(Alphabet), ~ Contains(s, ".")
  PROVE  Extension(s) = <<>>
<1> DEFINE I == {i \in 1..Len(s) : s[i] = "."}
           J == {i \in 1..Len(s) : s[i] = "/"}
           dot == SelectLastInSeq(s, LAMBDA c : c = ".")
           slash == SelectLastInSeq(s, LAMBDA c : c = "/")
<1>1. I = {}
  BY DEF Contains
<1>2. dot = 0
  BY <1>1 DEF SelectLastInSeq
<1>3. slash = IF J # {} THEN Max(J) ELSE 0
  BY DEF SelectLastInSeq
<1>4. J # {} => Max(J) \in J
  <2>1. J \in SUBSET (1..Len(s)) /\ Len(s) \in Nat
    OBVIOUS
  <2> HIDE DEF J
  <2> QED
    BY <2>1, MaxIn
<1>5. slash \in Nat
  <2>1. \A j \in J : j \in Nat
    OBVIOUS
  <2> HIDE DEF J, slash
  <2> QED
    BY <1>3, <1>4, <2>1
<1>6. ~ (dot > slash)
  <2> HIDE DEF dot, slash
  <2> QED
    BY <1>2, <1>5
<1> QED
  BY <1>6 DEF Extension

-----------------------------------------------------------------------------
(* The account.                                                            *)

\* The numbers of three bytes, the one that three bytes make up, and the one that
\* four digits to the base 64 do.
ThreeByteNumbers == {w \in Nat : w < 16777216}
OfBytes(a, b, c) == 65536 * a + 256 * b + c
OfDigits(c, d, e, f) == 262144 * c + 4096 * d + 64 * e + f

(* Four digits to the base 64 make up a number of three bytes.             *)
LEMMA FourDigits ==
  ASSUME NEW w \in ThreeByteNumbers
  PROVE  /\ OfDigits((w \div 64^3) % 64, (w \div 64^2) % 64,
                     (w \div 64^1) % 64, (w \div 64^0) % 64) = w
         /\ \A k \in 0..3 : (w \div 64^(3 - k)) % 64 \in 0..63
<1> USE SMT DEF ThreeByteNumbers
<1>1. PICK p \in Nat, i \in Nat : w = 64 * p + i /\ i < 64 /\ p < 262144
  <2>1. w = 64 * (w \div 64) + (w % 64) /\ w \div 64 \in Nat /\ w % 64 \in Nat /\ w % 64 < 64
    OBVIOUS
  <2>2. w \div 64 < 262144
    OBVIOUS
  <2> QED
    BY <2>1, <2>2
<1>2. PICK q \in Nat, j \in Nat : p = 64 * q + j /\ j < 64 /\ q < 4096
  <2>1. p = 64 * (p \div 64) + (p % 64) /\ p \div 64 \in Nat /\ p % 64 \in Nat /\ p % 64 < 64
    OBVIOUS
  <2>2. p \div 64 < 4096
    BY <1>1
  <2> QED
    BY <2>1, <2>2
<1>3. PICK t \in Nat, k \in Nat : q = 64 * t + k /\ k < 64 /\ t < 64
  <2>1. q = 64 * (q \div 64) + (q % 64) /\ q \div 64 \in Nat /\ q % 64 \in Nat /\ q % 64 < 64
    OBVIOUS
  <2>2. q \div 64 < 64
    BY <1>2
  <2> QED
    BY <2>1, <2>2
<1>4. w \div 1 = w /\ w % 64 = i
  BY <1>1
<1>5. w \div 64 = p /\ p % 64 = j
  BY <1>1, <1>2
<1>6. w \div 4096 = q /\ q % 64 = k
  <2>1. w = 4096 * q + (64 * j + i) /\ 64 * j + i < 4096
    BY <1>1, <1>2
  <2> QED
    BY <2>1, <1>1, <1>2, <1>3
<1>7. w \div 262144 = t /\ t % 64 = t
  <2>1. w = 262144 * t + (4096 * k + 64 * j + i) /\ 4096 * k + 64 * j + i < 262144
    BY <1>1, <1>2, <1>3
  <2> QED
    BY <2>1, <1>1, <1>2, <1>3
<1>8. 262144 * t + 4096 * k + 64 * j + i = w
  BY <1>1, <1>2, <1>3
<1>9. 64^0 = 1 /\ 64^1 = 64 /\ 64^2 = 4096 /\ 64^3 = 262144
  OBVIOUS
<1>10. /\ (w \div 64^3) % 64 = t /\ (w \div 64^2) % 64 = k
       /\ (w \div 64^1) % 64 = j /\ (w \div 64^0) % 64 = i
  BY <1>4, <1>5, <1>6, <1>7, <1>9
<1>11. ASSUME NEW l \in 0..3 PROVE (w \div 64^(3 - l)) % 64 \in 0..63
  <2>1. 3 - 0 = 3 /\ 3 - 1 = 2 /\ 3 - 2 = 1 /\ 3 - 3 = 0
    OBVIOUS
  <2>2. l = 0 \/ l = 1 \/ l = 2 \/ l = 3
    OBVIOUS
  <2>3. i \in 0..63 /\ j \in 0..63 /\ k \in 0..63 /\ t \in 0..63
    BY <1>1, <1>2, <1>3
  <2> QED
    BY <1>10, <2>1, <2>2, <2>3
<1> QED
  BY <1>8, <1>10, <1>11 DEF OfDigits

(* The bytes of such a number.                                             *)
LEMMA ThreeBytes ==
  ASSUME NEW a \in Nat, NEW b \in Nat, NEW c \in Nat, a < 256, b < 256, c < 256,
         NEW w, w = OfBytes(a, b, c)
  PROVE  /\ w \in ThreeByteNumbers
         /\ (w \div 256^2) % 256 = a
         /\ (w \div 256^1) % 256 = b
         /\ (w \div 256^0) % 256 = c
<1> USE SMT DEF ThreeByteNumbers, OfBytes
<1>1. w \in Nat /\ w < 16777216
  OBVIOUS
<1>2. w \div 65536 = a
  OBVIOUS
<1>3. w \div 256 = 256 * a + b
  OBVIOUS
<1>4. w \div 1 = w
  OBVIOUS
<1>5. (256 * a + b) % 256 = b
  OBVIOUS
<1>6. w % 256 = c
  OBVIOUS
<1>7. a % 256 = a
  OBVIOUS
<1>8. 256^0 = 1 /\ 256^1 = 256 /\ 256^2 = 65536
  OBVIOUS
<1> QED
  BY <1>1, <1>2, <1>3, <1>4, <1>5, <1>6, <1>7, <1>8

(* The digits that only stand for missing bytes are zero.                  *)
LEMMA ZeroDigits ==
  ASSUME NEW a \in Nat, NEW b \in Nat
  PROVE  /\ (OfBytes(a, 0, 0) \div 64^1) % 64 = 0
         /\ (OfBytes(a, b, 0) \div 64^0) % 64 = 0
<1> USE SMT
<1>1. 64^0 = 1 /\ 64^1 = 64
  OBVIOUS
<1>2. ASSUME NEW w, w = OfBytes(a, 0, 0) PROVE (w \div 64) % 64 = 0
  <2>1. w = 65536 * a + 256 * 0 + 0
    BY <1>2 DEF OfBytes
  <2>2. w \div 64 = 1024 * a
    BY <2>1
  <2>3. (1024 * a) % 64 = 0
    OBVIOUS
  <2> QED
    BY <2>2, <2>3
<1>3. ASSUME NEW w, w = OfBytes(a, b, 0) PROVE (w \div 1) % 64 = 0
  <2>1. w = 65536 * a + 256 * b + 0
    BY <1>3 DEF OfBytes
  <2>2. w \div 1 = w /\ w % 64 = 0
    BY <2>1
  <2> QED
    BY <2>2
<1> QED
  BY <1>1, <1>2, <1>3

(* A character of base64 has the value it was written for; the padding has *)
(* that of no bit at all.                                                  *)
LEMMA ValueRead ==
  /\ \A v \in 0..63 : Value(Digits64[v + 1]) = v
  /\ Value(Padding) = 0
<1>1. ASSUME NEW v \in 0..63 PROVE Value(Digits64[v + 1]) = v
  <2>1. Digits64[v + 1] # Padding
    BY DigitsPlain DEF Padding
  <2> DEFINE c == Digits64[v + 1]
  <2>2. Value(c) = CHOOSE u \in 0..63 : Digits64[u + 1] = c
    BY <2>1, SMTT(60) DEF Value
  <2>3. \A u \in 0..63 : Digits64[u + 1] = c => u = v
    BY DigitsDiffer
  <2>4. Digits64[v + 1] = c
    OBVIOUS
  <2> HIDE DEF c
  <2>5. (CHOOSE u \in 0..63 : Digits64[u + 1] = c) = v
    BY <2>3, <2>4
  <2> QED
    BY <2>2, <2>5 DEF c
<1> QED
  BY <1>1 DEF Value

(* A number is one quotient and one remainder only.                        *)
LEMMA Divided ==
  ASSUME NEW g \in Nat, NEW k \in Nat, NEW i \in Nat
  PROVE  /\ k < 3 /\ i = 3 * g + k => i \div 3 = g /\ i % 3 = k
         /\ k < 4 /\ i = 4 * g + k => i \div 4 = g /\ i % 4 = k
<1>1. ASSUME k < 3, i = 3 * g + k PROVE i \div 3 = g /\ i % 3 = k
  <2>1. i \div 3 = g
    BY <1>1
  <2>2. i = 3 * (i \div 3) + (i % 3) /\ i % 3 \in Nat
    OBVIOUS
  <2> QED
    BY <1>1, <2>1, <2>2
<1>2. ASSUME k < 4, i = 4 * g + k PROVE i \div 4 = g /\ i % 4 = k
  <2>1. i \div 4 = g
    BY <1>2
  <2>2. i = 4 * (i \div 4) + (i % 4) /\ i % 4 \in Nat
    OBVIOUS
  <2> QED
    BY <1>2, <2>1, <2>2
<1> QED
  BY <1>1, <1>2

\* The byte of a text at a place, zero behind its end.
ByteAt(s, i) == IF i <= Len(s) THEN s[i] ELSE 0

(* A text is made of bytes, and zeros behind its end.                      *)
LEMMA BytesOf ==
  ASSUME NEW s \in Seq(0..255), NEW i \in Nat \ {0}
  PROVE  ByteAt(s, i) \in Nat /\ ByteAt(s, i) < 256
<1>1. CASE i <= Len(s)
  <2>1. i \in 1..Len(s)
    BY <1>1
  <2>2. s[i] \in 0..255
    BY <2>1, ElementOfSeq
  <2>3. ByteAt(s, i) \in 0..255
    BY <1>1, <2>2 DEF ByteAt
  <2>4. \A x \in 0..255 : x \in Nat /\ x < 256
    OBVIOUS
  <2> QED
    BY <2>3, <2>4, Zenon
<1>2. CASE ~ (i <= Len(s))
  BY <1>2 DEF ByteAt
<1> QED
  BY <1>1, <1>2

(* What base64 writes for a group is read as that group.                   *)
LEMMA GroupRead ==
  ASSUME NEW s \in Seq(0..255), NEW g \in Nat, 3 * g < Len(s)
  PROVE  LET a == ByteAt(s, 3*g + 1)
             b == ByteAt(s, 3*g + 2)
             c == ByteAt(s, 3*g + 3)
             B == Base64(s)
         IN /\ a \in Nat /\ a < 256 /\ b \in Nat /\ b < 256 /\ c \in Nat /\ c < 256
            /\ Group(s, g) = OfBytes(a, b, c)
            /\ OfDigits(Value(B[4*g + 1]), Value(B[4*g + 2]),
                        Value(B[4*g + 3]), Value(B[4*g + 4])) = Group(s, g)
<1> DEFINE n == Len(s)
           m == 4 * ((n + 2) \div 3)
           a == ByteAt(s, 3*g + 1)
           b == ByteAt(s, 3*g + 2)
           c == ByteAt(s, 3*g + 3)
           w == Group(s, g)
           B == Base64(s)
           d(k) == (w \div 64^(3 - k)) % 64
<1>1. n \in Nat
  OBVIOUS
<1>2. /\ a \in Nat /\ a < 256 /\ b \in Nat /\ b < 256 /\ c \in Nat /\ c < 256
  <2>1. 3*g + 1 \in Nat \ {0} /\ 3*g + 2 \in Nat \ {0} /\ 3*g + 3 \in Nat \ {0}
    OBVIOUS
  <2> QED
    BY <2>1, BytesOf
<1>3. w = OfBytes(a, b, c)
  BY SMT DEF Group, ByteAt, OfBytes
<1>4. w \in ThreeByteNumbers
  <2> HIDE DEF a, b, c, w
  <2> QED
    BY <1>2, <1>3, ThreeBytes
<1>5. ASSUME NEW k \in 0..3
      PROVE  B[4*g + k + 1] = IF 3*g + k > n THEN Padding ELSE Digits64[d(k) + 1]
  <2> DEFINE i == 4*g + k + 1
  <2>1. i \in 1..m
    BY <1>1
  <2>2. (i - 1) \div 4 = g /\ (i - 1) % 4 = k
    <3>1. i - 1 = 4*g + k /\ k \in Nat /\ k < 4 /\ i - 1 \in Nat
      OBVIOUS
    <3> DEFINE j == i - 1
    <3> HIDE DEF i, j
    <3> QED
      BY <3>1, Divided DEF j
  <2>3. B[i] = IF 3*((i - 1) \div 4) + ((i - 1) % 4) > n THEN Padding
               ELSE Digits64[((Group(s, (i - 1) \div 4) \div 64^(3 - ((i - 1) % 4))) % 64) + 1]
    <3> HIDE DEF i
    <3> QED
      BY <2>1 DEF Base64
  <2> HIDE DEF i
  <2>4. B[i] = IF 3*g + k > n THEN Padding ELSE Digits64[d(k) + 1]
    <3> HIDE DEF B, n
    <3> QED
      BY <2>2, <2>3
  <2> QED
    BY <2>4 DEF i
<1>6. /\ OfDigits(d(0), d(1), d(2), d(3)) = w
      /\ \A k \in 0..3 : d(k) \in 0..63
  <2>1. 3 - 0 = 3 /\ 3 - 1 = 2 /\ 3 - 2 = 1 /\ 3 - 3 = 0
    OBVIOUS
  <2> HIDE DEF w
  <2>2. \A k \in 0..3 : d(k) \in 0..63
    BY <1>4, FourDigits
  <2>3. OfDigits((w \div 64^3) % 64, (w \div 64^2) % 64,
                 (w \div 64^1) % 64, (w \div 64^0) % 64) = w
    BY <1>4, FourDigits
  <2> QED
    BY <2>1, <2>2, <2>3
<1>7. 3*g + 2 > n => d(2) = 0
  <2> SUFFICES ASSUME 3*g + 2 > n PROVE d(2) = 0
    OBVIOUS
  <2>1. b = 0 /\ c = 0
    <3>1. ~ (3*g + 2 <= n) /\ ~ (3*g + 3 <= n)
      BY <1>1
    <3> QED
      BY <3>1 DEF ByteAt
  <2>2. w = OfBytes(a, 0, 0)
    BY <1>3, <2>1
  <2>3. 3 - 2 = 1
    OBVIOUS
  <2> HIDE DEF a, b, c, w
  <2> QED
    BY <1>2, <2>2, <2>3, ZeroDigits
<1>8. 3*g + 3 > n => d(3) = 0
  <2> SUFFICES ASSUME 3*g + 3 > n PROVE d(3) = 0
    OBVIOUS
  <2>1. c = 0
    <3>1. ~ (3*g + 3 <= n)
      BY <1>1
    <3> QED
      BY <3>1 DEF ByteAt
  <2>2. w = OfBytes(a, b, 0)
    BY <1>3, <2>1
  <2>3. 3 - 3 = 0
    OBVIOUS
  <2> HIDE DEF a, b, c, w
  <2> QED
    BY <1>2, <2>2, <2>3, ZeroDigits
<1> HIDE DEF a, b, c, w, d, B, n
<1>9. ASSUME NEW k \in 0..3 PROVE Value(B[4*g + k + 1]) = d(k)
  <2>1. Value(Digits64[d(k) + 1]) = d(k)
    BY <1>6, ValueRead
  <2>2. CASE 3*g + k > n
    <3>1. k # 0 /\ k # 1
      BY <1>1, <2>2 DEF n
    <3>2. k = 2 \/ k = 3
      BY <3>1
    <3>3. d(k) = 0
      BY <1>7, <1>8, <2>2, <3>2
    <3> QED
      BY <1>5, <2>2, <3>3, ValueRead
  <2>3. CASE ~ (3*g + k > n)
    BY <1>5, <2>1, <2>3
  <2> QED
    BY <2>2, <2>3
<1>10. /\ Value(B[4*g + 1]) = d(0) /\ Value(B[4*g + 2]) = d(1)
       /\ Value(B[4*g + 3]) = d(2) /\ Value(B[4*g + 4]) = d(3)
  <2>1. /\ 4*g + 0 + 1 = 4*g + 1 /\ 4*g + 1 + 1 = 4*g + 2
        /\ 4*g + 2 + 1 = 4*g + 3 /\ 4*g + 3 + 1 = 4*g + 4
    OBVIOUS
  <2>2. 0 \in 0..3 /\ 1 \in 0..3 /\ 2 \in 0..3 /\ 3 \in 0..3
    OBVIOUS
  <2> QED
    BY <1>9, <2>1, <2>2
<1> QED
  BY <1>2, <1>3, <1>6, <1>10 DEF a, b, c, w, B

(* The least number of a set is in it.                                     *)
LEMMA MinIs ==
  ASSUME NEW S \in SUBSET Nat, NEW m \in S, \A x \in S : m <= x
  PROVE  Min(S) = m
<1>1. \A x \in S : (\A y \in S : x <= y) <=> x = m
  OBVIOUS
<1> QED
  BY <1>1 DEF Min

(* What is decoded from the text of a hash: the hash, and zeros.           *)
LEMMA BytesRead ==
  ASSUME NEW s \in Seq(0..255)
  PROVE  /\ DOMAIN Decode64(Base64(s)) = 1..(3 * ((Len(s) + 2) \div 3) + 1)
         /\ \A i \in 1..(3 * ((Len(s) + 2) \div 3) + 1) :
              Decode64(Base64(s))[i] = ByteAt(s, i)
<1> DEFINE n == Len(s)
           m == (n + 2) \div 3
           B == Base64(s)
           D == Decode64(B)
<1>1. n \in Nat /\ m \in Nat /\ 3 * m <= n + 2 /\ n <= 3 * m
  BY SMT
<1>2. Len(B) = 4 * m
  <2>1. DOMAIN B = 1..(4 * m)
    BY DEF Base64
  <2>2. B \in Seq(Chars64)
    BY Base64Text
  <2>3. DOMAIN B = 1..Len(B) /\ Len(B) \in Nat
    BY <2>2
  <2> HIDE DEF B, m
  <2> QED
    BY <1>1, <2>1, <2>3
<1>3. \A i \in 1..(4 * m) : B[i] \in Chars64
  <2>1. B \in Seq(Chars64)
    BY Base64Text
  <2> HIDE DEF B, m
  <2> QED
    BY <1>2, <2>1
<1> DEFINE valid(g) == Len(B) % 4 = 0 /\ \A i \in 1..(4*g + 4) : B[i] \in Chars64
           word(g) == OfDigits(Value(B[4*g + 1]), Value(B[4*g + 2]),
                               Value(B[4*g + 3]), Value(B[4*g + 4]))
           last == 1 + (3 * Len(B)) \div 4
<1>4. D = [i \in 1..last |->
             IF 4 * ((i - 1) \div 3) < Len(B) /\ valid((i - 1) \div 3)
               THEN (word((i - 1) \div 3) \div 256^(2 - ((i - 1) % 3))) % 256 ELSE 0]
  BY SMT DEF Decode64, OfDigits
<1>5. last = 3 * m + 1
  <2> HIDE DEF B, m
  <2> QED
    BY <1>1, <1>2
<1>6. ASSUME NEW g \in Nat, g < m PROVE valid(g) /\ 3 * g < n /\ word(g) = Group(s, g)
  <2>1. 3 * g < n
    <3> HIDE DEF m, n
    <3> QED
      BY <1>1, <1>6
  <2>2. (4 * m) % 4 = 0
    BY <1>1
  <2>3. \A i \in 1..(4*g + 4) : i \in 1..(4 * m)
    <3> HIDE DEF m
    <3> QED
      BY <1>1, <1>6
  <2>4. valid(g)
    <3> HIDE DEF B, m
    <3> QED
      BY <1>2, <1>3, <2>2, <2>3
  <2>5. word(g) = Group(s, g)
    BY <2>1, GroupRead
  <2> QED
    BY <2>1, <2>4, <2>5
<1>7. 2 - 0 = 2 /\ 2 - 1 = 1 /\ 2 - 2 = 0
  OBVIOUS
<1> HIDE DEF valid, word, last, B, D, m, n
<1>8. ASSUME NEW i \in 1..(3 * m + 1) PROVE D[i] = ByteAt(s, i)
  <2> DEFINE g == (i - 1) \div 3
             r == (i - 1) % 3
  <2>1. /\ g \in Nat /\ r \in Nat /\ r < 3 /\ i - 1 = 3 * g + r
    <3> DEFINE j == i - 1
    <3>1. j \in Nat
      BY <1>1
    <3> HIDE DEF j
    <3>2. j \div 3 \in Nat
      BY <3>1
    <3>3. j % 3 \in Nat /\ j % 3 < 3
      BY <3>1
    <3>4. j = 3 * (j \div 3) + (j % 3)
      BY <3>1
    <3> QED
      BY <3>2, <3>3, <3>4 DEF j
  <2>2. D[i] = IF 4 * g < Len(B) /\ valid(g) THEN (word(g) \div 256^(2 - r)) % 256 ELSE 0
    BY <1>4, <1>5
  <2> HIDE DEF g, r
  <2>3. i \in Nat /\ i = 3 * g + r + 1
    BY <1>1, <2>1
  <2>4. CASE g < m
    <3> DEFINE a == ByteAt(s, 3*g + 1)
               b == ByteAt(s, 3*g + 2)
               c == ByteAt(s, 3*g + 3)
    <3>1. valid(g) /\ 3 * g < n /\ word(g) = Group(s, g)
      BY <1>6, <2>1, <2>4
    <3>2. 4 * g < Len(B)
      BY <1>1, <1>2, <2>1, <2>4
    <3>3. D[i] = (Group(s, g) \div 256^(2 - r)) % 256
      BY <2>2, <3>1, <3>2
    <3>4. /\ a \in Nat /\ a < 256 /\ b \in Nat /\ b < 256 /\ c \in Nat /\ c < 256
          /\ Group(s, g) = OfBytes(a, b, c)
      BY <2>1, <3>1, GroupRead DEF n
    <3> DEFINE w == Group(s, g)
    <3> HIDE DEF a, b, c, w
    <3>6. /\ (w \div 256^2) % 256 = a /\ (w \div 256^1) % 256 = b
          /\ (w \div 256^0) % 256 = c
      <4>1. w = OfBytes(a, b, c)
        BY <3>4 DEF w
      <4> QED
        BY <3>4, <4>1, ThreeBytes
    <3>7. CASE r = 0
      <4>1. D[i] = a
        BY <1>7, <3>3, <3>6, <3>7 DEF w
      <4>2. i = 3*g + 1
        BY <2>1, <2>3, <3>7
      <4> QED
        BY <4>1, <4>2 DEF a
    <3>8. CASE r = 1
      <4>1. D[i] = b
        BY <1>7, <3>3, <3>6, <3>8 DEF w
      <4>2. i = 3*g + 2
        BY <2>1, <2>3, <3>8
      <4> QED
        BY <4>1, <4>2 DEF b
    <3>9. CASE r = 2
      <4>1. D[i] = c
        BY <1>7, <3>3, <3>6, <3>9 DEF w
      <4>2. i = 3*g + 3
        BY <2>1, <2>3, <3>9
      <4> QED
        BY <4>1, <4>2 DEF c
    <3> QED
      BY <2>1, <3>7, <3>8, <3>9
  <2>5. CASE ~ (g < m)
    <3>1. ~ (4 * g < Len(B))
      BY <1>1, <1>2, <2>1, <2>5
    <3>2. D[i] = 0
      BY <2>2, <3>1
    <3>3. ~ (i <= n)
      BY <1>1, <2>1, <2>3, <2>5
    <3> QED
      BY <3>2, <3>3 DEF ByteAt, n
  <2> QED
    BY <2>4, <2>5
<1>9. DOMAIN D = 1..(3 * m + 1)
  BY <1>4, <1>5
<1> QED
  BY <1>8, <1>9 DEF D, B, m, n

(* What the client encodes, the server reads.                              *)
THEOREM HashRead ==
  ASSUME NEW s \in Seq(1..255)
  PROVE  CString(Decode64(Base64(s))) = s
<1> DEFINE n == Len(s)
           m == 3 * ((n + 2) \div 3) + 1
           D == Decode64(Base64(s))
           I == {i \in 1..Len(D) : D[i] = 0}
<1>1. n \in Nat /\ m \in Nat /\ n + 1 \in 1..m
  OBVIOUS
<1>2. s \in Seq(0..255)
  OBVIOUS
<1>3. DOMAIN D = 1..m /\ \A i \in 1..m : D[i] = ByteAt(s, i)
  BY <1>2, BytesRead, Zenon
<1> DEFINE K == 1..255
<1>4. s \in Seq(K) /\ \A x \in K : x \in Nat /\ x # 0
  OBVIOUS
<1> HIDE DEF K
<1>5. \A i \in 1..n : s[i] \in Nat /\ s[i] # 0
  BY <1>4, ElementOfSeq
<1>6. \A i \in 1..n : D[i] = s[i] /\ s[i] # 0
  <2>1. \A i \in 1..n : i <= n /\ i \in 1..m
    BY <1>1
  <2>2. \A i \in 1..n : ByteAt(s, i) = s[i]
    BY <2>1 DEF ByteAt
  <2> HIDE DEF D, m
  <2> QED
    BY <1>3, <1>5, <2>1, <2>2
<1>7. D[n + 1] = 0
  <2>1. ~ (n + 1 <= n)
    BY <1>1
  <2> HIDE DEF D, m
  <2> QED
    BY <1>1, <1>3, <2>1 DEF ByteAt
<1>8. D \in Seq(Nat) /\ Len(D) = m
  <2>1. \A i \in 1..m : D[i] \in Nat
    <3>1. ASSUME NEW i \in 1..m PROVE ByteAt(s, i) \in Nat
      <4>1. i <= n => i \in 1..n
        BY <1>1
      <4>2. i <= n => s[i] \in Nat
        BY <1>5, <4>1
      <4> HIDE DEF m
      <4> QED
        BY <4>2 DEF ByteAt
    <3> HIDE DEF D, m
    <3> QED
      BY <1>3, <3>1
  <2>2. D = [i \in 1..m |-> D[i]]
    <3>1. D = [i \in DOMAIN D |-> D[i]]
      BY SMT DEF Decode64
    <3> HIDE DEF D, m
    <3> QED
      BY <1>3, <3>1
  <2>3. D \in [1..m -> Nat]
    <3> HIDE DEF D, m
    <3> QED
      BY <2>1, <2>2
  <2> HIDE DEF D, m
  <2> QED
    BY <1>1, <2>3
<1> HIDE DEF D, m
<1>9. n + 1 \in I /\ \A i \in I : n + 1 <= i
  <2>1. n + 1 \in I
    BY <1>1, <1>7, <1>8
  <2>2. ASSUME NEW i \in I PROVE n + 1 <= i
    <3>1. i \in 1..m /\ D[i] = 0
      BY <1>8
    <3>2. i \notin 1..n
      BY <1>6, <3>1
    <3> QED
      BY <1>1, <3>1, <3>2
  <2> QED
    BY <2>1, <2>2
<1>10. SelectInSeq(D, LAMBDA b : b = 0) = n + 1
  <2>1. I \in SUBSET Nat
    BY <1>1, <1>8
  <2>2. SelectInSeq(D, LAMBDA b : b = 0) = IF I # {} THEN Min(I) ELSE 0
    BY DEF SelectInSeq
  <2> HIDE DEF I
  <2>3. Min(I) = n + 1
    BY <1>9, <2>1, MinIs
  <2> QED
    BY <1>9, <2>2, <2>3
<1>11. SubSeq(D, 1, n) = s
  <2>1. \A i \in 1..n : SubSeq(D, 1, n)[i] = s[i]
    BY <1>1, <1>6, <1>8
  <2>2. Len(SubSeq(D, 1, n)) = n /\ SubSeq(D, 1, n) \in Seq(Nat)
    BY <1>1, <1>8
  <2> QED
    BY <2>1, <2>2, SeqEqual
<1>12. (n + 1) - 1 = n
  BY <1>1
<1> QED
  BY <1>10, <1>11, <1>12 DEF CString, D

-----------------------------------------------------------------------------
(* Who is let in, and what for.                                            *)

(* An account is recognized by what was sent of it.                        *)
LEMMA SentRecognized ==
  ASSUME NEW r, Sendable(r), NEW p, Complete(p, r)
  PROVE  /\ Recognized(p.headers[3]) <=> r.hash \in Accounts
         /\ p.headers[6] = r.length /\ p.headers[7] = r.type
<1>1. p.headers = HeadersOf(r)
  BY DEF Complete
<1>2. p.headers[3] = Base64(r.hash) /\ p.headers[6] = r.length /\ p.headers[7] = r.type
  BY <1>1 DEF HeadersOf
<1>3. r.hash \in Seq(1..255)
  BY DEF Sendable
<1> DEFINE h == r.hash
<1>4. CString(Decode64(Base64(h))) = h
  <2> HIDE DEF h
  <2> QED
    BY <1>3, HashRead DEF h
<1> QED
  BY <1>2, <1>4 DEF Recognized

(* What is answered to a request that was read.                            *)
LEMMA AnswerTo ==
  ASSUME ConnectionInv, OneLine(sent.path), parser.result # "indeterminate"
  PROVE  IF Plain(sent)
           THEN /\ Complete(parser, sent) /\ Sendable(sent)
                /\ sent.hash \notin Accounts => reply.status = "unauthorized"
                /\ sent.hash \in Accounts /\ RequestPath(sent.path) = {} =>
                     reply.status = "bad_request"
                /\ sent.hash \in Accounts /\ RequestPath(sent.path) # {} =>
                     reply \in Results(parser) /\ reply.status \in Granted
           ELSE parser.result = "false" /\ reply.status = "bad_request"
<1>1. parser = Parse(NewParser, RequestText(sent)) /\ Sendable(sent)
  BY WholeText
<1>2. IF Plain(sent) THEN Complete(parser, sent) ELSE parser.result = "false"
  BY <1>1, ReadOrRefused
<1>3. \A s \in Said : StockReply(s).status = s
  BY DEF StockReply
<1>4. CASE Plain(sent)
  <2>1. parser.result = "true" /\ parser.uri = sent.path /\ parser.method = sent.method
    BY <1>2, <1>4 DEF Complete
  <2>2. reply \in HandleRequest(parser)
    BY <2>1 DEF ConnectionInv, ReplyInv
  <2>3. Recognized(parser.headers[3]) <=> sent.hash \in Accounts
    BY <1>1, <1>2, <1>4, SentRecognized
  <2>4. parser.method \in {GET, POST, DELETE}
    BY <1>1, <2>1 DEF Sendable
  <2>5. CASE sent.hash \notin Accounts
    <3>1. reply = StockReply("unauthorized")
      BY <2>2, <2>3, <2>5 DEF HandleRequest
    <3> QED
      BY <1>1, <1>2, <1>3, <1>4, <2>5, <3>1 DEF Said
  <2>6. CASE sent.hash \in Accounts /\ RequestPath(sent.path) = {}
    <3>1. reply = StockReply("bad_request")
      BY <2>1, <2>2, <2>3, <2>6 DEF HandleRequest
    <3> QED
      BY <1>1, <1>2, <1>3, <1>4, <2>6, <3>1 DEF Said
  <2>7. CASE sent.hash \in Accounts /\ RequestPath(sent.path) # {}
    <3>1. reply \in Results(parser)
      BY <2>1, <2>2, <2>3, <2>7 DEF HandleRequest
    <3>2. reply.status \in Granted
      BY <2>4, <3>1, GrantedReplies
    <3> QED
      BY <1>1, <1>2, <1>4, <2>7, <3>1, <3>2
  <2> QED
    BY <2>5, <2>6, <2>7
<1>5. CASE ~ Plain(sent)
  <2>1. parser.result = "false"
    BY <1>2, <1>5
  <2>2. reply = StockReply("bad_request")
    BY <2>1 DEF ConnectionInv, ReplyInv
  <2> QED
    BY <1>3, <1>5, <2>1, <2>2 DEF Said
<1> QED
  BY <1>4, <1>5

(* Exactly those who have an account are let in.                           *)
THEOREM AccountsAreRead == Spec => []AccountsRecognized
<1>1. ConnectionInv => AccountsRecognized
  <2> SUFFICES ASSUME ConnectionInv, OneLine(sent.path), parser.result = "true"
               PROVE  reply.status = "unauthorized" <=> sent.hash \notin Accounts
    BY DEF AccountsRecognized
  <2>1. "unauthorized" \notin Granted /\ "unauthorized" # "bad_request"
    BY DEF Granted
  <2>2. parser.result # "indeterminate" /\ parser.result # "false"
    OBVIOUS
  <2>3. Plain(sent)
    BY <2>2, AnswerTo
  <2> QED
    BY <2>1, <2>2, <2>3, AnswerTo
<1> QED
  BY <1>1, ConnectionHolds, PTL

(* What is not answered, or refused, is not granted.                       *)
LEMMA Unanswered ==
  ASSUME ConnectionInv, reply # NoReply
  PROVE  parser.result # "indeterminate"
BY DEF ConnectionInv, ReplyInv

(* A request for a plain path is carried out for that path, and one whose  *)
(* path has a question mark is refused.                                    *)
THEOREM PathsArrive == Spec => []PlainPathsArrive
<1>1. ConnectionInv => PlainPathsArrive
  <2> SUFFICES ASSUME ConnectionInv, reply # NoReply, sent.hash \in Accounts,
                      ~ Contains(sent.client, "?")
               PROVE  /\ PlainPath(sent.path) =>
                           /\ reply.status # "bad_request"
                           /\ RequestPath(parser.uri) = {sent.path}
                      /\ Contains(sent.path, "?") /\ ~ Contains(sent.path, LF) =>
                           reply.status = "bad_request"
    BY DEF PlainPathsArrive
  <2>1. parser.result # "indeterminate"
    BY Unanswered
  <2>2. Sendable(sent)
    BY <2>1, WholeText
  <2>3. ASSUME PlainPath(sent.path)
        PROVE  reply.status # "bad_request" /\ RequestPath(parser.uri) = {sent.path}
    <3>1. /\ RequestPath(sent.path) = {sent.path} /\ sent.path \in Seq(Text)
          /\ OneLine(sent.path)
      <4>1. sent.path \in Seq(Alphabet)
        BY <2>2 DEF Sendable
      <4> QED
        BY <2>3, <4>1, PlainRequestPath
    <3>2. sent.client \in Seq(Text)
      <4> DEFINE T == Text \cup {"?"}
                 c == sent.client
      <4>1. c \in Seq(T) /\ \A i \in 1..Len(c) : c[i] # "?"
        BY <2>2 DEF Sendable, Contains
      <4>2. \A x \in T : x # "?" => x \in Text
        OBVIOUS
      <4> HIDE DEF T, c
      <4>3. c \in Seq(Text)
        BY <4>1, <4>2
      <4> QED
        BY <4>3 DEF c
    <3>3. Plain(sent)
      BY <3>1, <3>2 DEF Plain
    <3>4. Complete(parser, sent) /\ reply.status \in Granted
      BY <2>1, <3>1, <3>3, AnswerTo
    <3> QED
      BY <3>1, <3>4 DEF Complete, Granted
  <2>4. ASSUME Contains(sent.path, "?"), ~ Contains(sent.path, LF)
        PROVE  reply.status = "bad_request"
    <3>1. OneLine(sent.path)
      BY <2>4 DEF OneLine
    <3>2. "?" \notin Text
      BY DEF Text, Ctl
    <3>3. ~ Plain(sent)
      BY <2>4, <3>2 DEF Plain, Contains
    <3> QED
      BY <2>1, <3>1, <3>3, AnswerTo
  <2> QED
    BY <2>3, <2>4
<1> QED
  BY <1>1, ConnectionHolds, PTL

(* A login is told from an upload by what it has not.                      *)
THEOREM SignInsAreTold == Spec => []UploadsAndSignIns
<1>1. ConnectionInv => UploadsAndSignIns
  <2> SUFFICES ASSUME ConnectionInv, OneLine(sent.path), sent.method = POST,
                      reply.status \in {"created", "accepted"}
               PROVE  reply.status = "accepted" <=> sent.length = <<>>
    BY DEF UploadsAndSignIns
  <2>1. parser.result # "indeterminate"
    <3>1. NoReply.status = "none"
      BY DEF NoReply, BareReply
    <3> QED
      BY <3>1, Unanswered
  <2>2. /\ Complete(parser, sent) /\ Sendable(sent) /\ reply \in Results(parser)
    BY <2>1, AnswerTo
  <2>3. /\ parser.method = POST /\ parser.uri = sent.path
        /\ parser.headers[6] = sent.length /\ parser.headers[7] = sent.type
    BY <2>2, SentRecognized DEF Complete
  <2>4. GET # POST /\ DELETE # POST
    BY DEF GET, POST, DELETE
  <2> DEFINE extension == Extension(CHOOSE path \in RequestPath(parser.uri) : TRUE)
             plain == IF sent.length = <<>> /\ sent.type = <<>> THEN "accepted" ELSE "created"
  <2>5. \A s, c : BareReply(s, c).status = s
    BY DEF BareReply
  <2>6. CASE sent.length = <<>>
    <3>1. sent.type = <<>> /\ PlainPath(sent.path) /\ ~ Contains(sent.path, ".")
      BY <2>6, ConnectionAssumption DEF ConnectionInv, WireInv
    <3>2. sent.path \in Seq(Alphabet)
      BY <2>2 DEF Sendable
    <3>3. RequestPath(parser.uri) = {sent.path}
      BY <2>3, <3>1, <3>2, PlainRequestPath
    <3>4. (CHOOSE path \in RequestPath(parser.uri) : TRUE) = sent.path
      BY <3>3
    <3>5. extension = <<>>
      BY <3>1, <3>2, <3>4, NoExtension
    <3> HIDE DEF extension
    <3>6. Results(parser) = {BareReply(plain, "")}
      BY <2>3, <2>4, <3>5 DEF Results, extension
    <3>7. plain = "accepted"
      BY <2>6, <3>1
    <3> QED
      BY <2>2, <2>5, <2>6, <3>6, <3>7
  <2>7. CASE sent.length # <<>>
    <3>1. CASE extension = <<>>
      <4>1. plain = "created"
        BY <2>7
      <4> HIDE DEF extension
      <4>2. Results(parser) = {BareReply(plain, "")}
        BY <2>3, <2>4, <3>1 DEF Results, extension
      <4> QED
        BY <2>2, <2>5, <2>7, <4>1, <4>2
    <3>2. CASE extension # <<>>
      <4> HIDE DEF extension
      <4>1. Results(parser) = {BareReply("created", ""), BareReply("internal_server_error", "")}
        BY <2>3, <2>4, <3>2 DEF Results, extension
      <4> QED
        BY <2>2, <2>5, <2>7, <4>1, ZenonT(60)
    <3> QED
      BY <3>1, <3>2
  <2> QED
    BY <2>6, <2>7
<1> QED
  BY <1>1, ConnectionHolds, PTL

=============================================================================
