------------------------- MODULE FormUrlencoded_proofs -------------------------
(***************************************************************************)
(* The portal's decoder undoes the browser's encoder, for every text of bytes. *)
(* Both are recursive functions, so a first lemma for each shows that its       *)
(* recursion has a solution; induction is the choice of a least counterexample. *)
(***************************************************************************)
EXTENDS FormUrlencoded, SequenceTheorems, WellFoundedInduction, TLAPS

Byte == 0 .. 255

(* A set of naturals with an element has a least one.                            *)
LEMMA LeastExists ==
  ASSUME NEW T, T \subseteq Nat, T # {}
  PROVE  \E n \in T : \A k \in T : n <= k
<1> DEFINE Less == OpToRel(<, Nat)
<1>1. PICK n \in T : \A k \in T : <<k, n>> \notin Less BY NatLessThanWellFounded, WFMin
<1>2. ASSUME NEW k \in T PROVE n <= k
  <2>1. <<k, n>> \in Nat \X Nat /\ <<k, n>>[1] = k /\ <<k, n>>[2] = n OBVIOUS
  <2>2. ~ (k < n) BY <1>1, <2>1 DEF OpToRel
  <2> QED BY <2>2
<1> QED BY <1>2

----------------------------------------------------------------------------
(* One byte                                                                 *)

LEMMA HexInverse ==
  ASSUME NEW n \in 0 .. 15
  PROVE  HexDigit(n) \in Byte /\ HexValue(HexDigit(n)) = n
BY DEF HexDigit, HexValue, Byte

LEMMA EscapeCases ==
  ASSUME NEW c \in Byte
  PROVE  /\ c \in Unreserved => Escape(c) = <<c>>
         /\ c = Space => Escape(c) = <<Plus>>
         /\ c \notin Unreserved /\ c # Space
              => Escape(c) = <<Percent, HexDigit(c \div 16), HexDigit(c % 16)>>
BY DEF Escape, Unreserved, Space

(* An escaped byte is one byte other than %, or a % and two hex digits.           *)
LEMMA EscapeInverse ==
  ASSUME NEW c \in Byte
  PROVE  /\ Escape(c) \in Seq(Byte)
         /\ \/ /\ Len(Escape(c)) = 1 /\ Escape(c)[1] # Percent
               /\ c = IF Escape(c)[1] = Plus THEN Space ELSE Escape(c)[1]
            \/ /\ Len(Escape(c)) = 3 /\ Escape(c)[1] = Percent
               /\ HexValue(Escape(c)[2]) < 16 /\ HexValue(Escape(c)[3]) < 16
               /\ c = 16 * HexValue(Escape(c)[2]) + HexValue(Escape(c)[3])
<1>1. CASE c \in Unreserved
  <2>1. Escape(c) = <<c>> BY <1>1, EscapeCases
  <2>2. c # Percent /\ c # Plus BY <1>1 DEF Unreserved, Percent, Plus
  <2> QED BY <2>1, <2>2
<1>2. CASE c = Space
  <2>1. Escape(c) = <<Plus>> BY <1>2, EscapeCases
  <2>2. Plus \in Byte /\ Plus # Percent BY DEF Plus, Percent, Byte
  <2> QED BY <1>2, <2>1, <2>2
<1>3. CASE c \notin Unreserved /\ c # Space
  <2> DEFINE h == c \div 16
             l == c % 16
  <2>1. Escape(c) = <<Percent, HexDigit(h), HexDigit(l)>> BY <1>3, EscapeCases
  <2>2. h \in 0 .. 15 /\ l \in 0 .. 15 /\ c = 16 * h + l BY DEF Byte
  <2> HIDE DEF h, l
  <2>3. /\ HexDigit(h) \in Byte /\ HexDigit(l) \in Byte
        /\ HexValue(HexDigit(h)) = h /\ HexValue(HexDigit(l)) = l
    BY <2>2, HexInverse
  <2>4. Percent \in Byte BY DEF Percent, Byte
  <2> QED BY <2>1, <2>2, <2>3, <2>4
<1> QED BY <1>1, <1>2, <1>3

----------------------------------------------------------------------------
(* The encoder                                                              *)

Encoded(text, upto, i)  == IF i = 0 THEN << >> ELSE upto[i - 1] \o Escape(text[i])
IsEncoding(text, e, n)  == e = [i \in 0 .. n |-> Encoded(text, e, i)]

LEMMA EncodingExists == ASSUME NEW text PROVE \A n \in Nat : \E e : IsEncoding(text, e, n)
<1> DEFINE T == {n \in Nat : ~ \E e : IsEncoding(text, e, n)}
<1> SUFFICES ASSUME T # {} PROVE FALSE OBVIOUS
<1>1. PICK n \in T : \A k \in T : n <= k BY LeastExists
<1>2. CASE n = 0
  <2>1. IsEncoding(text, [i \in 0 .. 0 |-> << >>], 0) BY DEF IsEncoding, Encoded
  <2> QED BY <1>2, <2>1
<1>3. CASE n # 0
  <2>1. n \in Nat /\ n - 1 \in Nat /\ n - 1 \notin T BY <1>1, <1>3
  <2>2. PICK e : IsEncoding(text, e, n - 1) BY <2>1
  <2> DEFINE last == e[n - 1] \o Escape(text[n])
             g    == [i \in 0 .. n |-> IF i < n THEN e[i] ELSE last]
  <2> HIDE DEF last
  <2>3. ASSUME NEW i \in 0 .. n PROVE g[i] = Encoded(text, g, i)
    <3>1. CASE i < n
      <4>1. i \in 0 .. n - 1 /\ g[i] = e[i] BY <2>1, <3>1
      <4>2. e[i] = Encoded(text, e, i) BY <2>2, <4>1 DEF IsEncoding
      <4>3. i # 0 => i - 1 \in 0 .. n /\ g[i - 1] = e[i - 1] BY <2>1, <3>1
      <4> QED BY <4>1, <4>2, <4>3 DEF Encoded
    <3>2. CASE i = n
      <4>1. g[i] = last /\ g[n - 1] = e[n - 1] BY <2>1, <3>2
      <4> HIDE DEF g
      <4> QED BY <1>3, <3>2, <4>1 DEF Encoded, last
    <3> QED BY <2>1, <3>1, <3>2
  <2>4. g = [i \in 0 .. n |-> Encoded(text, g, i)]
    <3>1. g = [i \in 0 .. n |-> g[i]] OBVIOUS
    <3> QED BY <2>3, <3>1, Zenon
  <2>5. IsEncoding(text, g, n) BY <2>4 DEF IsEncoding
  <2> QED BY <2>1, <2>5
<1> QED BY <1>2, <1>3

----------------------------------------------------------------------------
(* The decoder                                                              *)

Decoded(in, from, i) ==
  IF i > Len(in) THEN << >>
  ELSE IF IsEscape(in, i)
  THEN <<16 * HexValue(in[i + 1]) + HexValue(in[i + 2])>> \o from[i + 3]
  ELSE <<IF in[i] = Plus THEN Space ELSE in[i]>> \o from[i + 1]
IsDecoding(in, d) == d = [i \in 1 .. Len(in) + 3 |-> Decoded(in, d, i)]

(* The decoder looks ahead only: its function is built from the end.                *)
LEMMA DecodingExists == ASSUME NEW in, Len(in) \in Nat PROVE \E d : IsDecoding(in, d)
<1> DEFINE N        == Len(in) + 3
           Dom      == 1 .. N
           Ends(d, k) == /\ d = [i \in Dom |-> d[i]]
                          /\ \A i \in Dom : i + k > N => d[i] = Decoded(in, d, i)
           T        == {k \in Nat : ~ \E d : Ends(d, k)}
<1>1. T = {}
  <2> SUFFICES ASSUME T # {} PROVE FALSE OBVIOUS
  <2>1. PICK k \in T : \A m \in T : k <= m BY LeastExists
  <2>2. CASE k = 0
    <3>1. Ends([i \in Dom |-> 0], 0) OBVIOUS
    <3> QED BY <2>2, <3>1
  <2>3. CASE k # 0
    <3>1. k \in Nat /\ k - 1 \in Nat /\ k - 1 \notin T BY <2>1, <2>3
    <3>2. PICK d : Ends(d, k - 1) BY <3>1
    <3> DEFINE p == N - k + 1
               g == [i \in Dom |-> IF i = p THEN Decoded(in, d, p) ELSE d[i]]
    <3>3. p \in Int BY <3>1
    <3> HIDE DEF p
    <3>4. ASSUME NEW i \in Dom, i >= p PROVE Decoded(in, g, i) = Decoded(in, d, i)
      <4>1. CASE i > Len(in) BY <4>1 DEF Decoded
      <4>2. CASE i <= Len(in)
        <5>1. i + 1 \in Dom /\ i + 3 \in Dom /\ i + 1 # p /\ i + 3 # p BY <3>3, <3>4, <4>2
        <5>2. g[i + 1] = d[i + 1] /\ g[i + 3] = d[i + 3] BY <5>1
        <5> HIDE DEF g, Dom, N
        <5> QED BY <5>2 DEF Decoded
      <4> QED BY <4>1, <4>2
    <3>5. ASSUME NEW i \in Dom, i + k > N PROVE g[i] = Decoded(in, g, i)
      <4>1. i >= p BY <3>1, <3>5 DEF p
      <4>2. Decoded(in, g, i) = Decoded(in, d, i) BY <3>4, <4>1
      <4>3. CASE i = p
        <5>1. g[i] = Decoded(in, d, p) BY <4>3
        <5> QED BY <4>2, <4>3, <5>1
      <4>4. CASE i # p
        <5>1. i + (k - 1) > N BY <3>1, <4>1, <4>4 DEF p
        <5>2. d[i] = Decoded(in, d, i) BY <3>2, <5>1
        <5>3. g[i] = d[i] BY <4>4
        <5> QED BY <4>2, <5>2, <5>3
      <4> QED BY <4>3, <4>4
    <3>6. Ends(g, k) BY <3>5
    <3> QED BY <3>1, <3>6
  <2> QED BY <2>2, <2>3
<1>2. PICK d : Ends(d, N)
  <2>1. N \in Nat OBVIOUS
  <2> HIDE DEF N, Dom, Ends
  <2> QED BY <1>1, <2>1
<1>3. \A i \in Dom : d[i] = Decoded(in, d, i) BY <1>2
<1>4. d = [i \in Dom |-> d[i]] BY <1>2
<1>5. d = [i \in Dom |-> Decoded(in, d, i)] BY <1>3, <1>4, Zenon
<1> QED BY <1>5 DEF IsDecoding

----------------------------------------------------------------------------
(* One undoes the other                                                     *)

Encoding(text) == CHOOSE e : IsEncoding(text, e, Len(text))
Decoding(in)   == CHOOSE d : IsDecoding(in, d)

(* The operators of the model are the last value of the one, the first of the other. *)
LEMMA UrlEncodeIs == ASSUME NEW text PROVE UrlEncode(text) = Encoding(text)[Len(text)]
BY Zenon DEF UrlEncode, Encoding, IsEncoding, Encoded

LEMMA UrlDecodeIs == ASSUME NEW in PROVE UrlDecode(in) = Decoding(in)[1]
BY Zenon DEF UrlDecode, Decoding, IsDecoding, Decoded

(* The encodings of a text's beginnings, each one the beginning of the next.           *)
LEMMA EncodingGrows ==
  ASSUME NEW text \in Seq(Byte)
  PROVE  LET e == Encoding(text)
             n == Len(text)
         IN  /\ e[0] = << >> /\ \A i \in 0 .. n : e[i] \in Seq(Byte)
             /\ \A i \in 1 .. n : e[i] = e[i - 1] \o Escape(text[i])
             /\ \A i \in 0 .. n : /\ Len(e[i]) <= Len(e[n])
                                  /\ \A p \in 1 .. Len(e[i]) : e[n][p] = e[i][p]
<1> DEFINE e == Encoding(text)
           n == Len(text)
<1>0. n \in Nat OBVIOUS
<1>1. IsEncoding(text, e, n) BY <1>0, EncodingExists DEF Encoding
<1>2. \A i \in 0 .. n : e[i] = Encoded(text, e, i) BY <1>1 DEF IsEncoding
<1>3. e[0] = << >> /\ \A i \in 1 .. n : e[i] = e[i - 1] \o Escape(text[i])
  <2>1. e[0] = << >>
    <3>1. e[0] = Encoded(text, e, 0) BY <1>0, <1>2
    <3> QED BY <3>1 DEF Encoded
  <2>2. ASSUME NEW i \in 1 .. n PROVE e[i] = e[i - 1] \o Escape(text[i])
    <3>1. i # 0 /\ e[i] = Encoded(text, e, i) BY <1>0, <1>2
    <3> HIDE DEF e
    <3> QED BY <3>1 DEF Encoded
  <2> QED BY <2>1, <2>2
<1>4. \A i \in 1 .. n : Escape(text[i]) \in Seq(Byte)
  <2> SUFFICES ASSUME NEW i \in 1 .. n PROVE Escape(text[i]) \in Seq(Byte) OBVIOUS
  <2>1. text[i] \in Byte OBVIOUS
  <2> QED BY <2>1, EscapeInverse
<1> HIDE DEF e, n
<1>5. \A i \in 0 .. n : e[i] \in Seq(Byte)
  <2> DEFINE T == {i \in 0 .. n : e[i] \notin Seq(Byte)}
  <2> SUFFICES ASSUME T # {} PROVE FALSE OBVIOUS
  <2>1. PICK i \in T : \A k \in T : i <= k
    <3>1. T \subseteq Nat BY <1>0
    <3> QED BY <3>1, LeastExists
  <2>2. i # 0
    <3>1. << >> \in Seq(Byte) OBVIOUS
    <3> QED BY <1>3, <2>1, <3>1
  <2>3. i \in 1 .. n /\ i - 1 \in 0 .. n /\ i - 1 \notin T BY <1>0, <2>1, <2>2
  <2>4. e[i - 1] \in Seq(Byte) BY <2>3
  <2>5. e[i] = e[i - 1] \o Escape(text[i]) /\ Escape(text[i]) \in Seq(Byte)
    BY <1>3, <1>4, <2>3
  <2>6. e[i - 1] \o Escape(text[i]) \in Seq(Byte) BY <2>4, <2>5, ConcatProperties
  <2> QED BY <2>1, <2>5, <2>6
<1>6. \A i \in 0 .. n : Len(e[i]) <= Len(e[n]) /\ \A p \in 1 .. Len(e[i]) : e[n][p] = e[i][p]
  <2> DEFINE Start(i) == Len(e[i]) <= Len(e[n]) /\ \A p \in 1 .. Len(e[i]) : e[n][p] = e[i][p]
             T        == {k \in 0 .. n : ~ Start(n - k)}
  <2>1. T = {}
    <3> SUFFICES ASSUME T # {} PROVE FALSE OBVIOUS
    <3>1. PICK k \in T : \A m \in T : k <= m
      <4>1. T \subseteq Nat BY <1>0
      <4> HIDE DEF T
      <4> QED BY <4>1, LeastExists
    <3>2. k # 0
      <4>1. n - 0 = n /\ Len(e[n]) \in Nat BY <1>0, <1>5
      <4>2. Start(n - 0) BY <4>1
      <4> QED BY <3>1, <4>2
    <3>3. k \in 1 .. n /\ k - 1 \in 0 .. n BY <1>0, <3>1, <3>2
    <3>n. k - 1 \notin T
      <4> HIDE DEF T
      <4> QED BY <1>0, <3>1, <3>3
    <3>4. n - (k - 1) = (n - k) + 1 /\ n - k \in 0 .. n /\ n - k + 1 \in 1 .. n
      BY <1>0, <3>3
    <3> DEFINE i == n - k + 1
    <3>5. Start(i) BY <3>3, <3>n, <3>4
    <3>6. i \in 1 .. n /\ i - 1 \in 0 .. n /\ i - 1 = n - k BY <1>0, <3>4
    <3> HIDE DEF i
    <3>7. e[i] = e[i - 1] \o Escape(text[i]) /\ e[i - 1] \in Seq(Byte) /\ Escape(text[i]) \in Seq(Byte)
      BY <1>3, <1>4, <1>5, <3>6
    <3>8. /\ Len(e[i - 1]) \in Nat /\ Len(e[i - 1]) <= Len(e[i])
          /\ \A p \in 1 .. Len(e[i - 1]) : p \in 1 .. Len(e[i]) /\ e[i][p] = e[i - 1][p]
      <4> DEFINE a == e[i - 1]
                 b == Escape(text[i])
      <4>0. a \in Seq(Byte) /\ b \in Seq(Byte) BY <3>7
      <4>3. e[i] = a \o b BY <3>7
      <4> HIDE DEF a, b
      <4>1. /\ Len(a \o b) = Len(a) + Len(b) /\ Len(a) \in Nat /\ Len(b) \in Nat
            /\ \A p \in 1 .. Len(a) + Len(b) : (a \o b)[p] = IF p <= Len(a) THEN a[p] ELSE b[p - Len(a)]
        BY <4>0, ConcatProperties, LenProperties
      <4>2. \A p \in 1 .. Len(a) : p \in 1 .. Len(a \o b) /\ (a \o b)[p] = a[p] BY <4>1
      <4> QED BY <4>1, <4>2, <4>3 DEF a
    <3>9. Len(e[i]) \in Nat /\ Len(e[n]) \in Nat BY <1>0, <1>5, <3>6
    <3>10. Start(i - 1) BY <3>5, <3>8, <3>9
    <3> QED BY <3>1, <3>6, <3>10
  <2>2. ASSUME NEW i \in 0 .. n PROVE Start(i)
    <3>1. n - i \in 0 .. n /\ n - (n - i) = i BY <1>0
    <3> HIDE DEF Start
    <3> QED BY <2>1, <3>1
  <2> QED BY <2>2
<1> QED BY <1>3, <1>5, <1>6 DEF e, n

(* From where the encoding of a byte starts, the decoder reads that byte and goes on    *)
(* where the next one starts.                                                          *)
LEMMA DecodesByte ==
  ASSUME NEW in \in Seq(Byte), NEW d, IsDecoding(in, d), NEW c \in Byte, NEW at \in Nat,
         at + Len(Escape(c)) <= Len(in),
         \A p \in 1 .. Len(Escape(c)) : in[at + p] = Escape(c)[p]
  PROVE  d[at + 1] = <<c>> \o d[at + Len(Escape(c)) + 1]
<1> DEFINE i == at + 1
           x == Escape(c)
<1>1. Len(in) \in Nat /\ x \in Seq(Byte) /\ Len(x) \in {1, 3} BY EscapeInverse
<1>2. i \in 1 .. Len(in) /\ i \in 1 .. Len(in) + 3
  <2>1. Len(x) >= 1 BY <1>1
  <2> HIDE DEF x
  <2> QED BY <1>1, <2>1 DEF x
<1>3. d[i] = Decoded(in, d, i) BY <1>2 DEF IsDecoding
<1>4. CASE Len(x) = 1
  <2>1. in[i] = x[1] /\ x[1] # Percent /\ c = IF x[1] = Plus THEN Space ELSE x[1]
    BY <1>4, EscapeInverse
  <2>2. ~ IsEscape(in, i) BY <2>1 DEF IsEscape
  <2>3. ~ (i > Len(in)) BY <1>1, <1>2
  <2>4. at + Len(x) + 1 = i + 1 BY <1>4
  <2> HIDE DEF i, x
  <2>5. d[i] = <<c>> \o d[i + 1] BY <1>3, <2>1, <2>2, <2>3 DEF Decoded
  <2> QED BY <2>4, <2>5 DEF i, x
<1>5. CASE Len(x) = 3
  <2>1. /\ x[1] = Percent /\ HexValue(x[2]) < 16 /\ HexValue(x[3]) < 16
        /\ c = 16 * HexValue(x[2]) + HexValue(x[3])
    <3>1. Len(x) # 1 BY <1>5
    <3> QED BY <3>1, EscapeInverse, Zenon
  <2>2. in[i] = x[1] /\ in[i + 1] = x[2] /\ in[i + 2] = x[3] /\ i + 2 <= Len(in)
    <3>1. /\ in[at + 1] = x[1] /\ in[at + 2] = x[2] /\ in[at + 3] = x[3]
      <4>1. 1 \in 1 .. Len(x) /\ 2 \in 1 .. Len(x) /\ 3 \in 1 .. Len(x) BY <1>5
      <4> HIDE DEF x
      <4> QED BY <4>1 DEF x
    <3>2. i + 1 = at + 2 /\ i + 2 = at + 3 OBVIOUS
    <3> QED BY <1>1, <1>5, <3>1, <3>2
  <2>3. IsEscape(in, i) BY <2>1, <2>2 DEF IsEscape
  <2>4. ~ (i > Len(in)) BY <1>1, <1>2
  <2>5. at + Len(x) + 1 = i + 3 BY <1>5
  <2> HIDE DEF i, x
  <2>6. d[i] = <<c>> \o d[i + 3] BY <1>3, <2>1, <2>2, <2>3, <2>4 DEF Decoded
  <2> QED BY <2>5, <2>6 DEF i, x
<1> QED BY <1>1, <1>4, <1>5

(* What the browser encodes is what the portal decodes, for every text of bytes          *)
(* (form_urlencoded.cpp:24-46).                                                          *)
THEOREM DecodeInvertsEncode ==
  ASSUME NEW text \in Seq(Byte)
  PROVE  UrlDecode(UrlEncode(text)) = text
<1> DEFINE n  == Len(text)
           e  == Encoding(text)
           in == e[n]
           d  == Decoding(in)
<1>0. n \in Nat OBVIOUS
<1>1. /\ e[0] = << >> /\ \A i \in 0 .. n : e[i] \in Seq(Byte)
      /\ \A i \in 1 .. n : e[i] = e[i - 1] \o Escape(text[i])
      /\ \A i \in 0 .. n : Len(e[i]) <= Len(e[n]) /\ \A p \in 1 .. Len(e[i]) : e[n][p] = e[i][p]
  BY EncodingGrows
<1>2. in \in Seq(Byte) /\ Len(in) \in Nat BY <1>0, <1>1, LenProperties
<1>3. IsDecoding(in, d) BY <1>2, DecodingExists DEF Decoding
<1>4. UrlDecode(UrlEncode(text)) = d[1] BY UrlEncodeIs, UrlDecodeIs
<1> HIDE DEF n, e, d
<1> DEFINE Rest(i) == d[Len(e[i]) + 1] = SubSeq(text, i + 1, n)
           T       == {k \in 0 .. n : ~ Rest(n - k)}
<1>5. Rest(n)
  <2>1. SubSeq(text, n + 1, n) = << >> BY <1>0 DEF n
  <2>2. Len(in) + 1 \in 1 .. Len(in) + 3 /\ Len(in) + 1 > Len(in) BY <1>2
  <2>3. d[Len(in) + 1] = << >> BY <1>3, <2>2 DEF IsDecoding, Decoded
  <2> QED BY <2>1, <2>3
<1>6. ASSUME NEW i \in 1 .. n, Rest(i) PROVE Rest(i - 1)
  <2>1. text[i] \in Byte /\ Escape(text[i]) \in Seq(Byte)
    <3>1. text[i] \in Byte BY <1>6 DEF n
    <3> QED BY <3>1, EscapeInverse
  <2>2. i \in 0 .. n /\ i - 1 \in 0 .. n BY <1>0
  <2> DEFINE a == e[i - 1]
             x == Escape(text[i])
             at == Len(a)
  <2>3. a \in Seq(Byte) /\ e[i] = a \o x BY <1>1, <2>2
  <2> HIDE DEF a, x
  <2>4. /\ at \in Nat /\ Len(x) \in Nat /\ Len(e[i]) = at + Len(x)
        /\ \A p \in 1 .. Len(x) : at + p \in 1 .. Len(e[i]) /\ e[i][at + p] = x[p]
    <3>1. x \in Seq(Byte) BY <2>1 DEF x
    <3>2. /\ Len(a \o x) = Len(a) + Len(x) /\ Len(a) \in Nat /\ Len(x) \in Nat
          /\ \A p \in 1 .. Len(a) + Len(x) : (a \o x)[p] = IF p <= Len(a) THEN a[p] ELSE x[p - Len(a)]
      BY <2>3, <3>1, ConcatProperties, LenProperties
    <3>3. \A p \in 1 .. Len(x) : at + p \in 1 .. Len(a) + Len(x) /\ ~ (at + p <= Len(a)) /\ at + p - Len(a) = p
      BY <3>2
    <3> QED BY <2>3, <3>2, <3>3
  <2>5. at + Len(x) <= Len(in) /\ \A p \in 1 .. Len(x) : in[at + p] = x[p]
    BY <1>1, <2>2, <2>4
  <2>6. d[at + 1] = <<text[i]>> \o d[at + Len(x) + 1]
    <3>1. /\ at \in Nat /\ at + Len(Escape(text[i])) <= Len(in)
          /\ \A p \in 1 .. Len(Escape(text[i])) : in[at + p] = Escape(text[i])[p]
      BY <2>4, <2>5 DEF x
    <3> DEFINE c == text[i]
    <3>2. c \in Byte /\ at + Len(Escape(c)) <= Len(in) /\ \A p \in 1 .. Len(Escape(c)) : in[at + p] = Escape(c)[p]
      BY <2>1, <3>1
    <3>3. at \in Nat BY <3>1
    <3> HIDE DEF at, in, c
    <3>4. d[at + 1] = <<c>> \o d[at + Len(Escape(c)) + 1]
      BY <1>2, <1>3, <3>2, <3>3, DecodesByte, Zenon
    <3> QED BY <3>4 DEF c, x
  <2>7. d[at + Len(x) + 1] = SubSeq(text, i + 1, n) BY <1>6, <2>4
  <2>8. <<text[i]>> \o SubSeq(text, i + 1, n) = SubSeq(text, i, n) BY <1>0, <1>6 DEF n
  <2>9. i - 1 + 1 = i BY <1>0
  <2> QED BY <2>6, <2>7, <2>8, <2>9 DEF a
<1>7. T = {}
  <2> SUFFICES ASSUME T # {} PROVE FALSE OBVIOUS
  <2>1. PICK k \in T : \A m \in T : k <= m
    <3>1. T \subseteq Nat BY <1>0
    <3> HIDE DEF T
    <3> QED BY <3>1, LeastExists
  <2>2. k \in 0 .. n /\ ~ Rest(n - k) BY <2>1
  <2> HIDE DEF Rest
  <2>3. k # 0
    <3>1. n - 0 = n BY <1>0
    <3> QED BY <1>5, <2>2, <3>1
  <2>4. k - 1 \in 0 .. n BY <1>0, <2>2, <2>3
  <2>5. k - 1 \notin T
    <3> HIDE DEF T
    <3> QED BY <1>0, <2>1, <2>2
  <2>6. Rest(n - (k - 1)) BY <2>4, <2>5
  <2>7. n - (k - 1) \in 1 .. n /\ n - (k - 1) - 1 = n - k BY <1>0, <2>2, <2>3
  <2> QED BY <1>6, <2>2, <2>6, <2>7
<1>8. Rest(0)
  <2>1. n \in 0 .. n /\ n - n = 0 BY <1>0
  <2> HIDE DEF Rest
  <2> QED BY <1>7, <2>1
<1>9. Len(e[0]) + 1 = 1 /\ SubSeq(text, 0 + 1, n) = text BY <1>1 DEF n
<1> QED BY <1>4, <1>8, <1>9

Separators == {38, 61}

(* An encoded text has no & and no =, so that cutting a body at them gives back its     *)
(* fields (form_urlencoded.cpp:12-22).                                                   *)
THEOREM EncodingHasNoSeparators ==
  ASSUME NEW text \in Seq(Byte)
  PROVE  \A p \in 1 .. Len(UrlEncode(text)) : UrlEncode(text)[p] \notin Separators
<1> DEFINE n == Len(text)
           e == Encoding(text)
           Clean(s) == \A p \in 1 .. Len(s) : s[p] \notin Separators
           T == {i \in 0 .. n : ~ Clean(e[i])}
<1>0. n \in Nat OBVIOUS
<1>1. /\ e[0] = << >> /\ \A i \in 0 .. n : e[i] \in Seq(Byte)
      /\ \A i \in 1 .. n : e[i] = e[i - 1] \o Escape(text[i])
  BY EncodingGrows
<1>2. ASSUME NEW c \in Byte PROVE Escape(c) \in Seq(Byte) /\ Clean(Escape(c))
  <2>1. \A h \in 0 .. 15 : HexDigit(h) \notin Separators BY DEF HexDigit, Separators
  <2>2. c \div 16 \in 0 .. 15 /\ c % 16 \in 0 .. 15 BY DEF Byte
  <2>3. {Plus, Percent} \cap Separators = {} BY DEF Plus, Percent, Separators
  <2>4. c \in Unreserved => c \notin Separators BY DEF Unreserved, Separators
  <2>5. Clean(Escape(c))
    <3>1. CASE c \in Unreserved
      <4>1. Escape(c) = <<c>> BY <3>1, EscapeCases
      <4> QED BY <2>4, <3>1, <4>1
    <3>2. CASE c = Space BY <2>3, <3>2, EscapeCases
    <3>3. CASE c \notin Unreserved /\ c # Space
      <4> DEFINE h == HexDigit(c \div 16)
                 l == HexDigit(c % 16)
      <4>1. Escape(c) = <<Percent, h, l>> BY <3>3, EscapeCases
      <4>2. h \notin Separators /\ l \notin Separators BY <2>1, <2>2
      <4> HIDE DEF h, l
      <4> QED BY <2>3, <4>1, <4>2
    <3> QED BY <3>1, <3>2, <3>3
  <2> QED BY <2>5, EscapeInverse
<1>3. \A i \in 1 .. n : text[i] \in Byte OBVIOUS
<1> HIDE DEF n, e
<1>4. T = {}
  <2> SUFFICES ASSUME T # {} PROVE FALSE OBVIOUS
  <2>1. PICK i \in T : \A k \in T : i <= k
    <3>1. T \subseteq Nat BY <1>0
    <3> HIDE DEF T
    <3> QED BY <3>1, LeastExists
  <2>2. i \in 0 .. n /\ ~ Clean(e[i]) BY <2>1
  <2>3. i # 0 BY <1>1, <2>2
  <2>4. i \in 1 .. n /\ i - 1 \in 0 .. n BY <1>0, <2>2, <2>3
  <2>5. i - 1 \notin T
    <3> HIDE DEF T
    <3> QED BY <1>0, <2>1, <2>2
  <2>6. Clean(e[i - 1]) BY <2>4, <2>5
  <2> DEFINE a == e[i - 1]
             x == Escape(text[i])
  <2>7. a \in Seq(Byte) /\ x \in Seq(Byte) /\ Clean(a) /\ Clean(x) /\ e[i] = a \o x
    BY <1>1, <1>2, <1>3, <2>4, <2>6
  <2> HIDE DEF a, x
  <2>8. /\ Len(a \o x) = Len(a) + Len(x) /\ Len(a) \in Nat /\ Len(x) \in Nat
        /\ \A p \in 1 .. Len(a) + Len(x) : (a \o x)[p] = IF p <= Len(a) THEN a[p] ELSE x[p - Len(a)]
    BY <2>7, ConcatProperties, LenProperties
  <2>9. ASSUME NEW p \in 1 .. Len(a) + Len(x) PROVE (a \o x)[p] \notin Separators
    <3>1. p <= Len(a) => p \in 1 .. Len(a) BY <2>8
    <3>2. ~ (p <= Len(a)) => p - Len(a) \in 1 .. Len(x) BY <2>8
    <3> QED BY <2>7, <2>8, <3>1, <3>2
  <2>10. Clean(e[i]) BY <2>7, <2>8, <2>9
  <2> QED BY <2>2, <2>10
<1>5. Clean(e[n])
  <2>1. n \in 0 .. n BY <1>0
  <2> HIDE DEF Clean
  <2> QED BY <1>4, <2>1
<1> QED BY <1>5, UrlEncodeIs DEF n, e

(* Whatever the body holds, escapes cut short or malformed included, the decoder yields  *)
(* bytes and no more of them than it read: the reserve of the output is enough           *)
(* (form_urlencoded.cpp:24-46).                                                          *)
THEOREM DecodeNeverGrows ==
  ASSUME NEW in \in Seq(Byte)
  PROVE  UrlDecode(in) \in Seq(Byte) /\ Len(UrlDecode(in)) <= Len(in)
<1> DEFINE L == Len(in)
           d == Decoding(in)
           Room(i) == IF i > L THEN 0 ELSE L + 1 - i
           Fits(i) == d[i] \in Seq(Byte) /\ Len(d[i]) <= Room(i)
           T == {k \in 0 .. L + 2 : ~ Fits(L + 3 - k)}
<1>0. L \in Nat BY LenProperties
<1>1. IsDecoding(in, d) BY <1>0, DecodingExists DEF Decoding
<1>2. \A i \in 1 .. L + 3 : d[i] = Decoded(in, d, i) BY <1>1 DEF IsDecoding
<1>3. \A i \in 1 .. L : in[i] \in Byte OBVIOUS
<1>4. UrlDecode(in) = d[1] BY UrlDecodeIs
<1> HIDE DEF d
<1>5. ASSUME NEW b \in Byte, NEW s \in Seq(Byte)
      PROVE  <<b>> \o s \in Seq(Byte) /\ Len(<<b>> \o s) = 1 + Len(s)
  <2>1. <<b>> \in Seq(Byte) /\ Len(<<b>>) = 1 OBVIOUS
  <2> QED BY <1>5, <2>1, ConcatProperties
<1>6. ASSUME NEW i \in 1 .. L + 3, i > L PROVE Fits(i)
  <2>1. ~ (i <= L) BY <1>0, <1>6
  <2>2. d[i] = << >> BY <1>2, <1>6 DEF Decoded
  <2>3. << >> \in Seq(Byte) /\ Len(<< >>) = 0 OBVIOUS
  <2> QED BY <1>6, <2>2, <2>3
<1>7. ASSUME NEW i \in 1 .. L, Fits(i + 1), Fits(i + 3) PROVE Fits(i)
  <2>0. i \in 1 .. L + 3 /\ ~ (i > L) BY <1>0
  <2>1. d[i] = Decoded(in, d, i) BY <1>2, <2>0
  <2>2. Room(i) = L + 1 - i /\ Room(i + 1) <= L - i /\ Room(i + 3) <= L - i BY <1>0
  <2>3. /\ Len(d[i + 1]) \in Nat /\ Len(d[i + 1]) <= L - i
        /\ Len(d[i + 3]) \in Nat /\ Len(d[i + 3]) <= L - i
    <3>1. Len(d[i + 1]) \in Nat /\ Len(d[i + 3]) \in Nat BY <1>7, LenProperties
    <3> QED BY <1>0, <1>7, <2>2, <3>1
  <2>4. CASE IsEscape(in, i)
    <3> DEFINE b == 16 * HexValue(in[i + 1]) + HexValue(in[i + 2])
    <3>1. b \in Byte
      <4>1. /\ i + 1 \in 1 .. L /\ i + 2 \in 1 .. L
            /\ HexValue(in[i + 1]) < 16 /\ HexValue(in[i + 2]) < 16
        BY <1>0, <2>4 DEF IsEscape
      <4>2. ASSUME NEW c \in Byte PROVE HexValue(c) \in Nat
        <5>1. CASE c \in 48 .. 57
          <6>1. c \notin 97 .. 102 /\ c \notin 65 .. 70 /\ c - 48 \in Nat BY <5>1
          <6>2. HexValue(c) = c - 48 BY <5>1, <6>1, Zenon DEF HexValue
          <6> QED BY <6>1, <6>2
        <5>2. CASE c \in 97 .. 102 BY <5>2 DEF HexValue
        <5>3. CASE c \in 65 .. 70 BY <5>3 DEF HexValue
        <5>4. CASE c \notin 48 .. 57 /\ c \notin 97 .. 102 /\ c \notin 65 .. 70
          <6>1. HexValue(c) = 16 BY <5>4 DEF HexValue
          <6> QED BY <6>1
        <5> QED BY <5>1, <5>2, <5>3, <5>4
      <4>3. in[i + 1] \in Byte /\ in[i + 2] \in Byte BY <1>3, <4>1
      <4>4. HexValue(in[i + 1]) \in 0 .. 15 /\ HexValue(in[i + 2]) \in 0 .. 15
        <5>1. HexValue(in[i + 1]) \in Nat /\ HexValue(in[i + 2]) \in Nat BY <4>2, <4>3
        <5> DEFINE h == HexValue(in[i + 1])
                   l == HexValue(in[i + 2])
        <5>2. h \in Nat /\ l \in Nat /\ h < 16 /\ l < 16 BY <4>1, <5>1
        <5> HIDE DEF h, l
        <5>3. h \in 0 .. 15 /\ l \in 0 .. 15 BY <5>2
        <5> QED BY <5>3 DEF h, l
      <4>5. \A h, l \in 0 .. 15 : 16 * h + l \in Byte BY DEF Byte
      <4> QED BY <4>4, <4>5
    <3>2. d[i] = <<b>> \o d[i + 3] BY <2>0, <2>1, <2>4 DEF Decoded
    <3> HIDE DEF b
    <3>3. d[i] \in Seq(Byte) /\ Len(d[i]) = 1 + Len(d[i + 3]) BY <1>5, <1>7, <3>1, <3>2
    <3> QED BY <1>0, <2>2, <2>3, <3>3
  <2>5. CASE ~ IsEscape(in, i)
    <3> DEFINE b == IF in[i] = Plus THEN Space ELSE in[i]
    <3>1. b \in Byte BY <1>3 DEF Byte, Space
    <3>2. d[i] = <<b>> \o d[i + 1] BY <2>0, <2>1, <2>5 DEF Decoded
    <3> HIDE DEF b
    <3>3. d[i] \in Seq(Byte) /\ Len(d[i]) = 1 + Len(d[i + 1]) BY <1>5, <1>7, <3>1, <3>2
    <3> QED BY <1>0, <2>2, <2>3, <3>3
  <2> QED BY <2>4, <2>5
<1>8. T = {}
  <2> SUFFICES ASSUME T # {} PROVE FALSE OBVIOUS
  <2>1. PICK k \in T : \A m \in T : k <= m
    <3>1. T \subseteq Nat BY <1>0
    <3> HIDE DEF T
    <3> QED BY <3>1, LeastExists
  <2>2. k \in 0 .. L + 2 /\ ~ Fits(L + 3 - k) BY <2>1
  <2>n. \A m \in 0 .. L + 2 : m < k => Fits(L + 3 - m)
    <3> HIDE DEF Fits
    <3> QED BY <1>0, <2>1, <2>2
  <2> DEFINE i == L + 3 - k
  <2>3. i \in 1 .. L + 3 BY <1>0, <2>2
  <2>4. i \in 1 .. L
    <3> HIDE DEF Fits, i
    <3>1. ~ (i > L) BY <1>6, <2>2, <2>3 DEF i
    <3> QED BY <1>0, <2>3, <3>1
  <2>5. k - 1 \in 0 .. L + 2 /\ k - 3 \in 0 .. L + 2 /\ k - 1 < k /\ k - 3 < k
    BY <1>0, <2>2, <2>4
  <2>6. L + 3 - (k - 1) = i + 1 /\ L + 3 - (k - 3) = i + 3 BY <1>0, <2>2
  <2> HIDE DEF Fits, i
  <2>7. Fits(i + 1) /\ Fits(i + 3) BY <2>n, <2>5, <2>6
  <2>8. Fits(i) BY <1>7, <2>4, <2>7
  <2> QED BY <2>2, <2>8 DEF i
<1>9. Fits(1)
  <2>1. L + 2 \in 0 .. L + 2 /\ L + 3 - (L + 2) = 1 BY <1>0
  <2> HIDE DEF Fits
  <2> QED BY <1>8, <2>1
<1> QED BY <1>0, <1>4, <1>9
=============================================================================
