---------------------------- MODULE FormUrlencoded ----------------------------
(***************************************************************************)
(* The form decoder of the captive portal. Text is a sequence of bytes, a    *)
(* body a sequence of key = value fields: a browser escapes every & and = in *)
(* a value, so cutting the body at them gives the fields back.               *)
(***************************************************************************)
EXTENDS Naturals, Sequences

Plus    == 43
Space   == 32
Percent == 37

\* hexValue: 16 stands for the code's -1.
HexValue(c) ==
  CASE c \in 48 .. 57  -> c - 48
    [] c \in 97 .. 102 -> c - 87
    [] c \in 65 .. 70  -> c - 55
    [] OTHER           -> 16

\* A % that is followed by two hex digits.
IsEscape(in, i) ==
  /\ in[i] = Percent /\ i + 2 <= Len(in)
  /\ HexValue(in[i + 1]) < 16 /\ HexValue(in[i + 2]) < 16

UrlDecode(in) ==
  LET from[i \in 1 .. Len(in) + 3] ==
        IF i > Len(in) THEN << >>
        ELSE IF IsEscape(in, i)
        THEN <<16 * HexValue(in[i + 1]) + HexValue(in[i + 2])>> \o from[i + 3]
        ELSE <<IF in[i] = Plus THEN Space ELSE in[i]>> \o from[i + 1]
  IN  from[1]

\* The value of the first field with this key; "missing" without one.
FormGet(body, key) ==
  LET hits == {i \in 1 .. Len(body) : body[i].key = key}
  IN  IF hits = {} THEN "missing"
      ELSE UrlDecode(body[CHOOSE i \in hits : \A j \in hits : i <= j].value)

----------------------------------------------------------------------------
(* What a browser sends: application/x-www-form-urlencoded.                 *)

HexDigit(n) == IF n < 10 THEN 48 + n ELSE 55 + n
Unreserved  == (48 .. 57) \cup (65 .. 90) \cup (97 .. 122) \cup {42, 45, 46, 95}

Escape(c) ==
  CASE c \in Unreserved -> <<c>>
    [] c = Space        -> <<Plus>>
    [] OTHER            -> <<Percent, HexDigit(c \div 16), HexDigit(c % 16)>>

UrlEncode(text) ==
  LET upto[i \in 0 .. Len(text)] == IF i = 0 THEN << >> ELSE upto[i - 1] \o Escape(text[i])
  IN  upto[Len(text)]
=============================================================================
