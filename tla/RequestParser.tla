--------------------------- MODULE RequestParser ----------------------------
(***************************************************************************)
(* request_parser (serverhttp/request_parser.cpp), the text that the       *)
(* client's constructor writes for it, and url_decode, which reads the     *)
(* path.                                                                   *)
(*                                                                         *)
(* A text is a sequence of characters.  Only those that the code tells     *)
(* apart are there and those of base64: the letters stand for any other    *)
(* one, "utf8" is a byte above 127, which is negative as a char, and       *)
(* "byte" what other percent codes stand for than those of the blank, the  *)
(* dot and the slash.                                                      *)
(***************************************************************************)
EXTENDS Naturals, SequencesExt, MimeTypes, Crypto

CR  == "CR"
LF  == "LF"
SP  == "SP"
TAB == "TAB"

Digit    == {"0", "1", "2", "3", "4", "5", "6", "7", "8", "9"}
Ctl      == {CR, LF, TAB, "?"}        \* "?" is 63, see is_ctl
Special  == {"/", ":", "?", "=", SP, TAB}
Alphabet == Chars64 \cup {".", "-", "%", "utf8"} \cup Ctl \cup Special
Token    == Alphabet \ ({"utf8"} \cup Ctl \cup Special)
Text     == Alphabet \ Ctl

Marker   == <<"E", "O", "F", "%">>

\* The three methods, told apart by their first characters.
GET    == <<"T">>
POST   == <<"P">>
DELETE == <<"E">>

-----------------------------------------------------------------------------
(* What the client sends.  Of the seven headers, the handler reads the     *)
(* third, the sixth and the seventh.                                       *)

\* An extension as part of a name.  Which one it is only matters for the type.
WithExtension(name, extension) ==
  IF extension = "" THEN name ELSE name \o <<".", "z">>

TypeText(type) == IF type = "" THEN <<>> ELSE <<"z", "/", "z">>

\* post_method: a file, or a folder, whose content is empty but has a length.
Post(user, name, extension, content) ==
  [method |-> POST, path |-> WithExtension(name, extension),
   client |-> user.client, hash |-> user.hash, length |-> <<"1">>,
   type |-> TypeText(ExtensionToType(extension)), body |-> content]

\* checksync sends the hash of the content for comparison.
Compare(user, name, extension) ==
  [Post(user, name, extension, <<"z">>) EXCEPT !.method = GET]

\* delete_method
Erase(user, name) ==
  [method |-> DELETE, path |-> name, client |-> user.client, hash |-> user.hash,
   length |-> <<>>, type |-> <<>>, body |-> <<SP>>]

\* The login and the ping of reconnection(), /login and /reconnect.
SignIn(user, name) == [Erase(user, name) EXCEPT !.method = POST, !.body = <<>>]

Host      == <<"1", ".", "1">>
AnyValue  == <<"z">>
Header(v) == <<"z", ":", SP>> \o v \o <<CR, LF>>

\* Bug: length and type come before the two constant headers.
HeadersMoved(r) ==
  <<Host, r.client, Base64(r.hash), r.length, r.type, AnyValue, AnyValue>>

HeadersOf(r) ==
  <<Host, r.client, Base64(r.hash), AnyValue, AnyValue, r.length, r.type>>

RequestText(r) ==
  r.method \o <<SP>> \o r.path
    \o <<"?", "H", "T", "T", "P", "/", "1", ".", "1", CR, LF>>
    \o FlattenSeq([i \in 1..7 |-> Header(HeadersOf(r)[i])]) \o <<CR, LF>>
    \o r.body \o Marker \o <<LF>>

-----------------------------------------------------------------------------
(* The states up to the body, as a table: in state at, a character of on   *)
(* leads to state to and is added to the part into of the request.  What   *)
(* no row is for makes the request invalid.                                *)

Row(at, on, to, into) == [at |-> at, on |-> on, to |-> to, into |-> into]
Skip(at, on, to)      == Row(at, on, to, "nothing")

\* Bug: an address is made of the characters of a token and of slashes.
UriRowsToken ==
  {Row("uri_start", Token, "uri", "uri"), Skip("uri", {"?"}, "http_version_h"),
   Row("uri", Token \cup {"/"}, "uri", "uri")}

\* No path leads to uri_start.
UriRows ==
  {Row("uri_start", Text, "uri", "uri"), Skip("uri", {"?"}, "http_version_h"),
   Row("uri", Text, "uri", "uri")}

RequestLine ==
  {Row("method_start", Token, "method", "method"),
   Row("method", Token, "method", "method"), Skip("method", {SP}, "uri"),
   Skip("http_version_h", {"H"}, "http_version_t_1"),
   Skip("http_version_t_1", {"T"}, "http_version_t_2"),
   Skip("http_version_t_2", {"T"}, "http_version_p"),
   Skip("http_version_p", {"P"}, "http_version_slash"),
   Skip("http_version_slash", {"/"}, "http_version_major_start"),
   Skip("http_version_major_start", Digit, "http_version_major"),
   Skip("http_version_major", Digit, "http_version_major"),
   Skip("http_version_major", {"."}, "http_version_minor_start"),
   Skip("http_version_minor_start", Digit, "http_version_minor"),
   Skip("http_version_minor", Digit, "http_version_minor"),
   Skip("http_version_minor", {CR}, "expecting_newline_1"),
   Skip("expecting_newline_1", {LF}, "header_line_start")}

HeaderLines ==
  {Skip("header_line_start", {CR}, "expecting_newline_3"),
   Skip("header_line_start", {SP, TAB}, "header_lws"),
   Row("header_line_start", Token, "header_name", "headers"),
   Skip("header_lws", {CR}, "expecting_newline_2"),
   Skip("header_lws", {SP, TAB}, "header_lws"),
   Row("header_lws", Text \ {SP}, "header_value", "value"),
   Skip("header_name", {":"}, "space_before_header_value"),
   Skip("header_name", Token, "header_name"),
   Skip("space_before_header_value", {SP}, "header_value"),
   Skip("header_value", {CR}, "expecting_newline_2"),
   Row("header_value", Text, "header_value", "value"),
   Skip("expecting_newline_2", {LF}, "header_line_start"),
   Skip("expecting_newline_3", {LF}, "content_start")}

\* Bug: the headers lead to a state that consume() has no case for.
RowsToContent2 ==
  UriRows \cup RequestLine
    \cup {IF r.to = "content_start" THEN [r EXCEPT !.to = "content_2"] ELSE r :
            r \in HeaderLines}

Rows == UriRows \cup RequestLine \cup HeaderLines
States == {r.at : r \in Rows} \cup {"content_start"}

\* headers holds the values; no header is looked up by its name.
NewParser ==
  [state |-> "method_start", result |-> "indeterminate", method |-> <<>>,
   uri |-> <<>>, headers |-> <<>>, content |-> <<>>]

Take(p, row, c) ==
  LET q == [p EXCEPT !.state = row.to]
  IN CASE row.into = "nothing" -> q
       [] row.into = "method"  -> [q EXCEPT !.method = Append(@, c)]
       [] row.into = "uri"     -> [q EXCEPT !.uri = Append(@, c)]
       [] row.into = "headers" -> [q EXCEPT !.headers = Append(@, <<>>)]
       [] row.into = "value"   ->
            [q EXCEPT !.headers[Len(p.headers)] = Append(@, c)]

\* Bug: only the first character that could start the marker is followed up.
EndsInFirstE(s) ==
  LET e == CHOOSE i \in 0..Len(s) : /\ i = 0 => ~ Contains(s, "E")
                                    /\ i > 0 => s[i] = "E"
                                    /\ \A j \in 1..(i - 1) : s[j] # "E"
  IN e > 0 /\ SubSeq(s, e, Len(s)) = Marker

\* find() looks everywhere, but an earlier marker has ended the request.
EndsInMarker(s) == IsSuffix(Marker, s)

\* A complete body ends the request: expecting_newline_4, which consume()
\* returns, is not 0.  The line end behind the marker is not waited for.
ConsumeContent(p, c) ==
  LET body == Append(p.content, c)
  IN IF EndsInMarker(body)
       THEN [p EXCEPT !.content = SubSeq(body, 1, Len(body) - Len(Marker)),
                      !.result = "true"]
       ELSE [p EXCEPT !.content = body]

Consume(p, c) ==
  IF p.state = "content_start" THEN ConsumeContent(p, c)
  ELSE LET rows == {r \in Rows : /\ r.at = p.state /\ c \in r.on
                                 /\ r.to = "header_lws" => p.headers # <<>>}
       IN IF rows = {} THEN [p EXCEPT !.result = "false"]
          ELSE Take(p, CHOOSE r \in rows : TRUE, c)

\* Bug: the buffer is read to its end.
ParseAll(p, buffer) == FoldLeft(Consume, p, buffer)

\* What lies behind the end of the request is not looked at.
Parse(p, buffer) ==
  FoldLeft(LAMBDA q, c : IF q.result = "indeterminate" THEN Consume(q, c)
                         ELSE q, p, buffer)

-----------------------------------------------------------------------------
(* The path of the request.                                                *)

\* Two characters behind "%" that the input stream reads as a number, in
\* full or in part: the blanks in front of it are skipped, a sign is allowed,
\* and "0x" is a prefix, for which there is no number left.
Hex == Digit \cup {"A", "B", "C", "D", "E", "F", "a", "b", "c", "d", "e", "f"}
ReadsAsHex(c, d) ==
  \/ c \in Hex /\ ~ (c = "0" /\ d \in {"x", "X"})
  \/ c \in {SP, TAB, CR, LF, "+", "-"} /\ d \in Hex
Decoded(c, d) == CASE c = "2" /\ d = "0"          -> SP
                   [] c = "2" /\ d \in {"E", "e"} -> "."
                   [] c = "2" /\ d \in {"F", "f"} -> "/"
                   [] OTHER                       -> "byte"

\* The set of the decoded text, or the empty set.
UrlDecode(in) ==
  LET from[i \in 1..(Len(in) + 1)] ==
        IF i > Len(in) THEN {<<>>}
        ELSE IF in[i] # "%" THEN
          {<<IF in[i] = "+" THEN SP ELSE in[i]>> \o s : s \in from[i + 1]}
        ELSE IF i + 2 <= Len(in) /\ ReadsAsHex(in[i + 1], in[i + 2]) THEN
          {<<Decoded(in[i + 1], in[i + 2])>> \o s : s \in from[i + 3]}
        ELSE {}
  IN from[1]

TwoDots(s) == \E i \in 1..(Len(s) - 1) : s[i] = "." /\ s[i + 1] = "."

\* Absolute, and without two dots in a row anywhere.
RequestPath(uri) ==
  {s \in UrlDecode(uri) : s # <<>> /\ s[1] = "/" /\ ~ TwoDots(s)}

\* What follows the last dot, if no slash follows it.
Extension(s) ==
  LET dot   == SelectLastInSeq(s, LAMBDA c : c = ".")
      slash == SelectLastInSeq(s, LAMBDA c : c = "/")
  IN IF dot > slash THEN SubSeq(s, dot + 1, Len(s)) ELSE <<>>

=============================================================================
