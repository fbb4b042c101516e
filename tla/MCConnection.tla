---------------------------- MODULE MCConnection ----------------------------
(* Connection for TLC: the requests of the client on small texts.          *)
EXTENDS Connection

CONSTANTS
  PathLength,    \* the longest path, without its slash
  BodyLength     \* the longest body

\* A hash has 128 hexadecimal digits, two more than a multiple of three.
Hash      == <<97, 48, 102, 57, 98>>
OtherHash == <<48, 49, 97, 97, 49>>
BothUsers == {Hash, OtherHash}
User      == [client |-> <<"z", ".", "z">>, hash |-> Hash]
NearMisses == {[Hash EXCEPT ![i] = b] : i \in 1..Len(Hash), b \in {48, 57, 97, 102}}

Slash(s)   == <<"/">> \o s
PathChars  == {"z", ".", "%", "+", "?", SP, LF, "utf8"}

Bodies == BoundedSeq({"E", "O", "F", "%"}, BodyLength)
            \cup {Marker, Marker \o <<"z">>, <<"z">> \o Marker, <<"E">> \o Marker,
                  <<CR, LF, "?", "E", "O", "F">>}
Names  == BoundedSeq(PathChars, PathLength)
            \cup {<<"%", "2", "0">>, <<"%", "0", "E", "z">>, <<"%", "z", "0">>,
                  <<"%", "0", "x">>, <<"%", "-", "E">>, <<"%", "2", "e", ".", "z">>,
                  <<"?", "H", "T", "T", "P", "/", "1", ".", "1">>}

Entry == Slash(<<"z">>)

\* The other methods and extensions, other credentials, and an address with a
\* question mark.
Others ==
  {SignIn(User, Entry), Erase(User, Entry), Compare(User, Entry, ""),
   Post(User, Entry, "gif", <<"z">>), Post(User, Entry, "z", <<>>),
   Post(User, <<"/", ".", "/", "z">>, "", <<>>)}
    \cup {SignIn([User EXCEPT !.hash = h], Entry) : h \in {OtherHash} \cup NearMisses}
    \cup {Post([User EXCEPT !.hash = <<48, 48, 48, 48, 48>>], Entry, "", <<"z">>),
          Post([User EXCEPT !.client = <<"?">>], Entry, "", <<"z">>)}

AllRequests ==
  {Post(User, Entry, "txt", b) : b \in Bodies}
    \cup {Post(User, Slash(s), "", <<"z">>) : s \in Names} \cup Others

=============================================================================
