------------------------------- MODULE MCLog -------------------------------
(***************************************************************************)
(* A buffer of 64 bytes, 10-bit integers with a 5-bit half, doubles in     *)
(* hundredths, and fractions whose scale fits an integer, as 19 digits do. *)
(* Fillers of 46 to 58 bytes bring the end of the buffer to every place in *)
(* the directive that follows; 5 and 7 bring the limit of ngx_log_errno    *)
(* there.                                                                  *)
(***************************************************************************)
EXTENDS Log

Text(n) == [k \in 1..n |-> 97 + (k % 26)]
NginxBanner == <<110, 103, 105, 110, 120, 58, 32>>

NumberDirectives ==
  {Number(i, FALSE, FALSE, Space, 0, w) : i \in {-512, -7, 0, 12, 511}, w \in {0, 5}}
  \cup {Number(i, TRUE, FALSE, Zero, h, w) : i \in {0, 31, 32, 1023}, h \in {0, 1, 2}, w \in {0, 4}}
  \cup {Number(-10, FALSE, TRUE, Space, 1, 3), Number(-1, FALSE, FALSE, Space, 1, 0)}
  \cup {Milliseconds(1023), Milliseconds(200)}
Doubles ==
  {Double(k, Space, 3, f) : k \in {-1250, -4, 0, 99, 995, 1299}, f \in {0, 1, 2, 3}}
Strings ==
  {Str(<<171, 7, 0, 255>>, l, h) : l \in {NoLength, 0, 1, 4}, h \in {0, 1, 2}}
Directives == NumberDirectives \cup Doubles \cup Strings \cup {Plain(37)}

Fillers == {0, 5, 7, 40} \cup 46..58
Endings == {<<>>, <<Plain(33)>>, <<Number(3, FALSE, FALSE, Space, 0, 2)>>}

SmallFormats ==
  {<<Str(Text(n), NoLength, 0), d>> \o e : n \in Fillers, d \in Directives, e \in Endings}

TheUnknownError == Text(13)
OpenText == Text(30)
OpenEndText == Text(8)
MallocText == Text(7)
MallocEndText == Text(10)

\* The windows that are searched are 0..7 and 13..27.  Errors lie on the edges
\* of a window and inside, with gaps between them, and one (9) outside; a text
\* of 38 or 40 bytes fits the reserve just so, one of 48 does not.  The gaps
\* show all three ways not to know a number.
AllBuilds == {"np", "nerr", "large", "guess"}
SmallErrors == {2, 5, 7, 14}
TextLength == 0 :> 7 @@ 2 :> 38 @@ 4 :> 6 @@ 7 :> 40 @@ 9 :> 5 @@ 14 :> 48 @@ 20 :> 9 @@ 26 :> 4
SmallStrerror == [e \in 0..30 |->
  IF e \in DOMAIN TextLength THEN [text |-> Append(Text(TextLength[e] - 1), 64 + e), einval |-> FALSE]
  ELSE CASE e % 3 = 0 -> [text |-> Append(TheUnknownError, 64 + e), einval |-> TRUE]
         [] e % 3 = 1 -> [text |-> NoText, einval |-> FALSE]
         [] e % 3 = 2 -> [text |-> Append(TheUnknownError, 64 + e), einval |-> FALSE]]

\* "/", "/p", "/p/", "" and no argument; "/e", "e", "l/e", a long one, "" and none.
SomePrefixes == {<<47>>, <<47, 112>>, <<47, 112, 47>>, <<>>, NoText}
SomeLogs == {<<47, 101>>, <<101>>, <<108, 47, 101>>, Text(30), <<>>, NoText}
DefaultPrefix == <<47, 117, 47>>
DefaultLog == <<108, 47, 101>>

=============================================================================
