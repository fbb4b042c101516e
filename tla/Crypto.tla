------------------------------- MODULE Crypto -------------------------------
(***************************************************************************)
(* The way of the credentials from client to server: crypto.cpp of either  *)
(* side.  The client sends base64 of a hash, a text of hexadecimal digits; *)
(* the server decodes it into a buffer, takes that for a C string, and     *)
(* compares.  Bytes are numbers, the characters of base64 are strings.     *)
(* The hash itself (CalcSha512) is taken to be injective.                  *)
(***************************************************************************)
EXTENDS Naturals, SequencesExt

Digits64 ==
  <<"A", "B", "C", "D", "E", "F", "G", "H", "I", "J", "K", "L", "M",
    "N", "O", "P", "Q", "R", "S", "T", "U", "V", "W", "X", "Y", "Z",
    "a", "b", "c", "d", "e", "f", "g", "h", "i", "j", "k", "l", "m",
    "n", "o", "p", "q", "r", "s", "t", "u", "v", "w", "x", "y", "z",
    "0", "1", "2", "3", "4", "5", "6", "7", "8", "9", "+", "/">>

Padding == "="
Chars64 == ToSet(Digits64) \cup {Padding}

\* Group number g, three bytes; those behind the end are 0.
Group(s, g) ==
  LET byte(i) == IF i <= Len(s) THEN s[i] ELSE 0
  IN 65536 * byte(3*g + 1) + 256 * byte(3*g + 2) + byte(3*g + 3)

Base64(s) ==
  [i \in 1..(4 * ((Len(s) + 2) \div 3)) |->
     LET g == (i - 1) \div 4
         k == (i - 1) % 4
     IN IF 3*g + k > Len(s) THEN Padding
        ELSE Digits64[((Group(s, g) \div 64^(3 - k)) % 64) + 1]]

\* Padding is decoded as if it were an "A".
Value(c) ==
  IF c = Padding THEN 0 ELSE CHOOSE v \in 0..63 : Digits64[v + 1] = c

\* The buffer, one zero longer than what the length of the text predicts.  A
\* text of another length than a multiple of four is not decoded at all,
\* otherwise the groups are decoded up to the first that is invalid.
Decode64(s) ==
  LET valid(g) == Len(s) % 4 = 0 /\ \A i \in 1..(4*g + 4) : s[i] \in Chars64
      word(g)  == 262144 * Value(s[4*g + 1]) + 4096 * Value(s[4*g + 2])
                    + 64 * Value(s[4*g + 3]) + Value(s[4*g + 4])
  IN [i \in 1..(1 + (3 * Len(s)) \div 4) |->
        LET g == (i - 1) \div 3
        IN IF 4*g < Len(s) /\ valid(g)
             THEN (word(g) \div 256^(2 - ((i - 1) % 3))) % 256 ELSE 0]

\* Bug: the decoded text is as long as the buffer.
WholeBuffer(bytes) == SubSeq(bytes, 1, Len(bytes) - 1)

\* A char* as a std::string: the bytes in front of the first zero.
CString(bytes) ==
  SubSeq(bytes, 1, SelectInSeq(bytes, LAMBDA b : b = 0) - 1)

=============================================================================
