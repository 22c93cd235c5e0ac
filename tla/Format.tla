------------------------------- MODULE Format -------------------------------
(***************************************************************************)
(* src/core/ngx_string.c: the formatted output of nginx into a buffer of   *)
(* fixed size.  A buffer is the sequence of the bytes written so far (the  *)
(* code's `buf' is its end), `last' is how many bytes fit into it, and a   *)
(* format is a sequence of directives, a plain character being one.        *)
(*                                                                         *)
(* Bits and HalfBits stand for the 64 and the 32 bits of the integers.     *)
(* A double is a whole number of parts of 1 / Unit.                        *)
(***************************************************************************)
EXTENDS Integers, SequencesExt

CONSTANTS Bits, HalfBits, Unit

ASSUME FormatAssumption ==
  Bits \in Nat /\ HalfBits \in 1..Bits /\ Unit \in Nat \ {0}

Minus  == 45
Dot    == 46
Zero   == 48
Space  == 32
Nul    == 0

NoLength == -1     \* slen = (size_t) -1: a string that ends at its NUL

(***************************************************************************)
(* The directives.  `uns' is the u, x or X modifier, which makes a number  *)
(* unsigned unless its type is always signed (O, P, T, r); hex is 0, 1     *)
(* (lower case) or 2 (upper case).                                         *)
(***************************************************************************)
Plain(c) == [type |-> "char", c |-> c]
Number(i, uns, always, zero, hex, width) ==
  [type |-> "num", i |-> i, sign |-> always \/ ~(uns \/ hex # 0),
   zero |-> zero, hex |-> hex, width |-> width]
Milliseconds(ms) ==
  IF ms = 2^Bits - 1
  THEN Number(-1, FALSE, TRUE, Space, 0, 0) ELSE Number(ms, TRUE, FALSE, Space, 0, 0)
Double(k, zero, width, fracWidth) ==
  [type |-> "double", k |-> k, zero |-> zero, width |-> width, fracWidth |-> fracWidth]
Str(src, len, hex) == [type |-> "str", src |-> src, len |-> len, hex |-> hex]

\* A string of a given length has that many bytes.
AllDirectives ==
  [type : {"char"}, c : Nat]
  \cup [type : {"num"}, i : Int, sign : BOOLEAN, zero : Nat, hex : 0..2, width : Nat]
  \cup [type : {"double"}, k : Int, zero : Nat, width : Nat, fracWidth : Nat]
  \cup {d \in [type : {"str"}, src : Seq(Nat), len : Nat \cup {NoLength}, hex : 0..2] :
          d.len = NoLength \/ d.len <= Len(d.src)}

-----------------------------------------------------------------------------

\* hex[] and HEX[], and d + '0' for a decimal digit.
Character(d, hex) ==
  IF d < 10 THEN Zero + d ELSE (IF hex = 2 THEN 55 ELSE 87) + d

\* The loops that divide a number until nothing is left of it.
Divided(ui, base) ==
  LET digits[n \in 0..ui] ==
        IF n < base THEN <<n>> ELSE Append(digits[n \div base], n % base)
  IN  digits[ui]

Digits_AlwaysNarrow(ui64, hex) ==
  LET ds == Divided(IF hex = 0 THEN ui64 % 2^HalfBits ELSE ui64,
                    IF hex = 0 THEN 10 ELSE 16)
  IN  [k \in DOMAIN ds |-> Character(ds[k], hex)]

\* The characters of a number: the 32-bit division is only taken when the
\* number fits.
Digits(ui64, hex) ==
  LET narrow == hex = 0 /\ ui64 <= 2^HalfBits - 1
      ds == Divided(IF narrow THEN ui64 % 2^HalfBits ELSE ui64,
                    IF hex = 0 THEN 10 ELSE 16)
  IN  [k \in DOMAIN ds |-> Character(ds[k], hex)]

Repeat(c, n) == [k \in 1..n |-> c]
Least(a, b)  == IF a <= b THEN a ELSE b
Room(buf, last) == last - Len(buf)

\* Pads while there is room, then copies what still fits.
ngx_sprintf_num(buf, last, ui64, zero, hex, width) ==
  LET temp   == Digits(ui64, hex)
      padded == buf \o Repeat(zero, Least(width - Len(temp), Room(buf, last)))
  IN  padded \o SubSeq(temp, 1, Least(Len(temp), Room(padded, last)))

\* What a %s or %V argument holds: up to its NUL, or the given length.
Bytes(src, len) ==
  IF len # NoLength THEN SubSeq(src, 1, len)
  ELSE LET nul == SelectInSeq(src, LAMBDA c : c = Nul)
       IN  IF nul = 0 THEN src ELSE SubSeq(src, 1, nul - 1)

HexPairs(bytes, hex) ==
  [k \in 1..(2 * Len(bytes)) |->
     LET byte == bytes[(k + 1) \div 2]
     IN  Character(IF k % 2 = 1 THEN byte \div 16 ELSE byte % 16, hex)]

\* The guard written `buf < last'.
ngx_sprintf_str_HexOverruns(buf, last, src, len, hex) ==
  LET bytes == Bytes(src, len)
  IN  IF hex = 0
      THEN buf \o SubSeq(bytes, 1, Least(Room(buf, last), Len(bytes)))
      ELSE buf \o HexPairs(SubSeq(bytes, 1,
                             Least((Room(buf, last) + 1) \div 2, Len(bytes))), hex)

\* A plain string is clipped at the end of the buffer; a hexadecimal one at
\* the last pair for which `buf < last - 1'.
ngx_sprintf_str(buf, last, src, len, hex) ==
  LET bytes == Bytes(src, len)
  IN  IF hex = 0
      THEN buf \o SubSeq(bytes, 1, Least(Room(buf, last), Len(bytes)))
      ELSE buf \o HexPairs(SubSeq(bytes, 1,
                                  Least(Room(buf, last) \div 2, Len(bytes))), hex)

\* A sign is written before the padding.  The smallest integer negates to
\* itself in two's complement, which as an unsigned number is its size.
PrintNumber(buf, last, d) ==
  IF d.sign /\ d.i < 0
  THEN ngx_sprintf_num(Append(buf, Minus), last, (-d.i) % 2^Bits, d.zero, d.hex, d.width)
  ELSE ngx_sprintf_num(buf, last, d.i % 2^Bits, d.zero, d.hex, d.width)

\* 10 to the width of a fraction, as far as an integer holds it.
Scale(fracWidth) ==
  LET scale[n \in 0..fracWidth] == IF n = 0 THEN 1 ELSE (10 * scale[n - 1]) % 2^Bits
  IN  scale[fracWidth]

\* The fraction is rounded to its width and may carry into the whole part;
\* without a fraction the number is truncated.
PrintDouble(buf, last, d) ==
  LET signed == IF d.k < 0 THEN Append(buf, Minus) ELSE buf
      k      == IF d.k < 0 THEN -d.k ELSE d.k
      scale  == Scale(d.fracWidth)
      frac   == (2 * (k % Unit) * scale + Unit) \div (2 * Unit)
      carry  == d.fracWidth > 0 /\ frac = scale
      whole  == ngx_sprintf_num(signed, last, k \div Unit + (IF carry THEN 1 ELSE 0),
                                d.zero, 0, d.width)
      dotted == IF Len(whole) < last THEN Append(whole, Dot) ELSE whole
  IN  IF d.fracWidth = 0 THEN whole
      ELSE ngx_sprintf_num(dotted, last, IF carry THEN 0 ELSE frac, Zero, 0, d.fracWidth)

Convert(buf, last, d) ==
  CASE d.type = "char"   -> Append(buf, d.c)
    [] d.type = "num"    -> PrintNumber(buf, last, d)
    [] d.type = "double" -> PrintDouble(buf, last, d)
    [] d.type = "str"    -> ngx_sprintf_str(buf, last, d.src, d.len, d.hex)

\* while (*fmt && buf < last): written[k] is the buffer after k directives.
ngx_vslprintf(buf, last, fmt) ==
  LET written[k \in 0..Len(fmt)] ==
        IF k = 0 THEN buf
        ELSE LET b == written[k - 1]
             IN  IF Len(b) < last THEN Convert(b, last, fmt[k]) ELSE b
  IN  written[Len(fmt)]

-----------------------------------------------------------------------------
(***************************************************************************)
(* What a format promises, written without the code's loops: the text it   *)
(* stands for when there is no end to the buffer.                          *)
(***************************************************************************)
Power(b, n) ==
  LET power[k \in 0..n] == IF k = 0 THEN 1 ELSE b * power[k - 1] IN power[n]

\* The one numeral of n: its k-th digit from the right is n / base^(k - 1).
Numeral(n, hex) ==
  LET base == IF hex = 0 THEN 10 ELSE 16
      size == CHOOSE s \in 1..(n + 1) :
                n < Power(base, s) /\ (s = 1 \/ n >= Power(base, s - 1))
  IN  [k \in 1..size |-> Character((n \div Power(base, size - k)) % base, hex)]

Padded(c, width, digits) == Repeat(c, width - Len(digits)) \o digits

RenderedNumber(d) ==
  IF d.sign /\ d.i < 0
  THEN <<Minus>> \o Padded(d.zero, d.width, Numeral(-d.i, d.hex))
  ELSE Padded(d.zero, d.width,
              Numeral(IF d.i < 0 THEN 2^Bits + d.i ELSE d.i, d.hex))

\* The nearest multiple of 10^-fracWidth, with a point before its last digits.
RenderedDouble(d) ==
  LET k     == IF d.k < 0 THEN -d.k ELSE d.k
      scale == Power(10, d.fracWidth)
      all   == IF d.fracWidth = 0 THEN k \div Unit
               ELSE (2 * k * scale + Unit) \div (2 * Unit)
  IN  (IF d.k < 0 THEN <<Minus>> ELSE <<>>)
      \o Padded(d.zero, d.width, Numeral(all \div scale, 0))
      \o (IF d.fracWidth = 0 THEN <<>>
          ELSE <<Dot>> \o Padded(Zero, d.fracWidth, Numeral(all % scale, 0)))

Rendered(d) ==
  CASE d.type = "char"   -> <<d.c>>
    [] d.type = "num"    -> RenderedNumber(d)
    [] d.type = "double" -> RenderedDouble(d)
    [] d.type = "str"    -> IF d.hex = 0 THEN Bytes(d.src, d.len)
                            ELSE HexPairs(Bytes(d.src, d.len), d.hex)

\* The texts of the directives, one behind the other.
RenderedText(fmt) ==
  LET text[k \in 0..Len(fmt)] == IF k = 0 THEN <<>> ELSE text[k - 1] \o Rendered(fmt[k])
  IN  text[Len(fmt)]

\* What an argument of printf can hold: an integer has Bits bits, a double is
\* converted to one, and so is 10 to the width of its fraction.
Representable(d) ==
  /\ d.type = "num" => -(2^Bits) < d.i /\ d.i < 2^Bits
  /\ d.type = "double" => /\ -((2^Bits - 1) * Unit) < d.k /\ d.k < (2^Bits - 1) * Unit
                          /\ Power(10, d.fracWidth) < 2^Bits

=============================================================================
