------------------------------ MODULE Encodings ------------------------------
(***************************************************************************)
(* The encodings of Google Test's output: wide strings as UTF-8, strings   *)
(* as C++ literals in messages, and as text of the XML and JSON reports    *)
(* (gtest.cc, gtest-printers.cc).  A text is a sequence of codes; a char   *)
(* is a byte, signed as on Windows, and a wchar_t has 16 bits there.       *)
(***************************************************************************)
EXTENDS Integers, Sequences, SequencesExt, FiniteSetsExt

IsSigned(ch) == ch >= 128

-----------------------------------------------------------------------------
(* UTF-8. *)
kMaxCodePoint1 == 2^7 - 1
kMaxCodePoint2 == 2^11 - 1
kMaxCodePoint3 == 2^16 - 1

(* 0x80 with the six bits that are left after n of ChopLowBits. *)
Trail(code_point, n) == 128 + ((code_point \div 2^n) % 64)

(* More than 21 bits cannot come of two wchar_t, and are left out. *)
CodePointToUtf8(c) ==
  IF c <= kMaxCodePoint1 THEN <<c>>
  ELSE IF c <= kMaxCodePoint2 THEN <<192 + (c \div 2^6), Trail(c, 0)>>
  ELSE IF c <= kMaxCodePoint3
    THEN <<224 + (c \div 2^12), Trail(c, 6), Trail(c, 0)>>
  ELSE <<240 + (c \div 2^18), Trail(c, 12), Trail(c, 6), Trail(c, 0)>>

IsHigh(unit) == unit \div 2^10 = 54
IsLow(unit) == unit \div 2^10 = 55

IsUtf16SurrogatePair(first, second) == IsHigh(first) /\ IsLow(second)

CreateCodePointFromUtf16SurrogatePair(first, second) ==
  ((first % 2^10) * 2^10) + (second % 2^10) + 2^16

WideStringToUtf8(str) ==
  LET n == Len(str)
      stream[i \in 1 .. n + 1] ==
        IF i > n \/ str[i] = 0 THEN << >>
        ELSE IF i < n /\ IsUtf16SurrogatePair(str[i], str[i + 1])
          THEN CodePointToUtf8(
                 CreateCodePointFromUtf16SurrogatePair(str[i], str[i + 1]))
                 \o stream[i + 2]
        ELSE CodePointToUtf8(str[i]) \o stream[i + 1]
  IN  stream[1]

IsUTF8TrailByte(t) == t \in 128 .. 191

(* From i on; each alternative of the code is one of the disjuncts. *)
IsValidUTF8(str) ==
  LET n == Len(str)
      trails(i, k) == i + k <= n /\ \A j \in i + 1 .. i + k : IsUTF8TrailByte(str[j])
      valid[i \in 1 .. n + 1] ==
        \/ i > n
        \/ str[i] \in 0 .. 127 /\ valid[i + 1]
        \/ str[i] \in 194 .. 223 /\ trails(i, 1) /\ valid[i + 2]
        \/ /\ str[i] \in 224 .. 239 /\ trails(i, 2)
           /\ str[i] = 224 => str[i + 1] >= 160
           /\ str[i] = 237 => str[i + 1] < 160
           /\ valid[i + 3]
        \/ /\ str[i] \in 240 .. 244 /\ trails(i, 3)
           /\ str[i] = 240 => str[i + 1] >= 144
           /\ str[i] = 244 => str[i + 1] < 144
           /\ valid[i + 4]
  IN  valid[1]

-----------------------------------------------------------------------------
(* C++ literals. *)
Quote == 34
Backslash == 92
Space == 32

Digits == 48 .. 57
HexDigits == Digits \cup 65 .. 70 \cup 97 .. 102
HexDigit(n) == IF n < 10 THEN 48 + n ELSE 55 + n
Hex(n) == (IF n < 16 THEN << >> ELSE <<HexDigit(n \div 16)>>) \o <<HexDigit(n % 16)>>

(* \0 \' \\ \a \b \f \n \r \t \v, with the letter that stands for each. *)
SpecialEscapes ==
  {<<0, 48>>, <<Backslash, Backslash>>, <<7, 97>>, <<8, 98>>, <<12, 102>>,
   <<10, 110>>, <<13, 114>>, <<9, 116>>, <<11, 118>>, <<Quote, Quote>>}

IsPrintableAscii(c) == c \in 32 .. 126

IsHexEscaped(c) ==
  ~IsPrintableAscii(c) /\ \A escape \in SpecialEscapes : escape[1] # c

PrintAsStringLiteralTo(c) ==
  IF IsHexEscaped(c) THEN <<Backslash, 120>> \o Hex(c)
  ELSE IF \E escape \in SpecialEscapes : escape[1] = c
    THEN <<Backslash, (CHOOSE escape \in SpecialEscapes : escape[1] = c)[2]>>
  ELSE <<c>>

(* Mutant: the string is not broken after a hexadecimal escape. *)
PrintCharsUnbroken(s) ==
  <<Quote>> \o FlattenSeq([i \in DOMAIN s |-> PrintAsStringLiteralTo(s[i])])
    \o <<Quote>>

PrintCharsAsStringTo(s) ==
  LET broken(i) == i > 1 /\ IsHexEscaped(s[i - 1]) /\ s[i] \in HexDigits
      piece(i) == (IF broken(i) THEN <<Quote, Space, Quote>> ELSE << >>)
                    \o PrintAsStringLiteralTo(s[i])
  IN  <<Quote>> \o FlattenSeq([i \in DOMAIN s |-> piece(i)]) \o <<Quote>>

(* iscntrl in the C locale. *)
ContainsUnprintableControlCodes(s) ==
  \E i \in DOMAIN s : s[i] \in (0 .. 31 \cup {127}) \ {9, 10, 13}

(* The literal, and whether the string follows it once more as text. *)
PrintStringTo(s) ==
  <<PrintCharsAsStringTo(s),
    /\ \E i \in DOMAIN s : IsHexEscaped(s[i])
    /\ ~ContainsUnprintableControlCodes(s) /\ IsValidUTF8(s)>>

-----------------------------------------------------------------------------
(* XML. *)
Lt == <<38, 108, 116, 59>>                \* &lt;
Gt == <<38, 103, 116, 59>>                \* &gt;
Amp == <<38, 97, 109, 112, 59>>           \* &amp;
Apos == <<38, 97, 112, 111, 115, 59>>     \* &apos;
Quot == <<38, 113, 117, 111, 116, 59>>    \* &quot;

IsNormalizableWhitespace(c) == c \in {9, 10, 13}
IsValidXmlCharacter(c) == IsNormalizableWhitespace(c) \/ (c >= 32 /\ ~IsSigned(c))

EscapeXmlCharacter(ch, is_attribute) ==
  CASE ch = 60 -> Lt [] ch = 62 -> Gt [] ch = 38 -> Amp
    [] ch = 39 /\ is_attribute -> Apos
    [] ch = 34 /\ is_attribute -> Quot
    [] IsNormalizableWhitespace(ch) /\ is_attribute ->
         <<38, 35, 120, 48, HexDigit(ch), 59>>          \* &#x0D;
    [] ~IsValidXmlCharacter(ch) -> << >>
    [] OTHER -> <<ch>>

EscapeXml(s, is_attribute) ==
  FlattenSeq([i \in DOMAIN s |-> EscapeXmlCharacter(s[i], is_attribute)])

RemoveInvalidXmlCharacters(s) == SelectSeq(s, IsValidXmlCharacter)

Open == <<60, 33, 91, 67, 68, 65, 84, 65, 91>>          \* <![CDATA[
Close == <<93, 93, 62>>                                 \* ]]>

At(s, i, part) == IsPrefix(part, SubSeq(s, i, Len(s)))

(* strstr, or the place after the end. *)
FindNext(s, i, part) ==
  Min({j \in i .. Len(s) : At(s, j, part)} \cup {Len(s) + 1})

OutputXmlCDataSection(data) ==
  LET n == Len(data)
      segments[i \in 1 .. n + 1] ==
        LET next == FindNext(data, i, Close)
        IN  SubSeq(data, i, next - 1) \o
              IF next > n THEN << >>
              ELSE Close \o <<93, 93>> \o Gt \o Open \o segments[next + 3]
  IN  Open \o segments[1] \o Close

-----------------------------------------------------------------------------
(* JSON. *)
JsonEscapes == {<<8, 98>>, <<9, 116>>, <<10, 110>>, <<12, 102>>, <<13, 114>>,
                <<Backslash, Backslash>>, <<Quote, Quote>>, <<47, 47>>}

(* A byte above 127 is negative, and so less than a space. *)
EscapeJsonCharacter(ch) ==
  IF \E escape \in JsonEscapes : escape[1] = ch
    THEN <<Backslash, (CHOOSE escape \in JsonEscapes : escape[1] = ch)[2]>>
  ELSE IF ch < Space \/ IsSigned(ch)
    THEN <<Backslash, 117, 48, 48, HexDigit(ch \div 16), HexDigit(ch % 16)>>
  ELSE <<ch>>

EscapeJson(s) == FlattenSeq([i \in DOMAIN s |-> EscapeJsonCharacter(s[i])])

-----------------------------------------------------------------------------
(* What the readers of these formats make of a text.                       *)
Numeral(s) ==
  FoldLeft(LAMBDA n, d : 16 * n + IF d \in Digits THEN d - 48 ELSE (d % 32) + 9, 0, s)

(* UTF-8, by the length of an encoding: what its lead byte adds to the     *)
(* bits it carries, how many these can be, and the least code point.       *)
Base == <<0, 192, 224, 240>>
Leads == <<128, 32, 16, 8>>
Least == <<0, 128, 2048, 65536>>

Decoded(bytes) ==
  FoldLeft(LAMBDA x, t : x * 64 + t - 128, bytes[1] - Base[Len(bytes)], Tail(bytes))

IsEncoding(bytes) ==
  LET n == Len(bytes)
  IN  /\ bytes[1] - Base[n] \in 0 .. Leads[n] - 1
      /\ \A i \in 2 .. n : bytes[i] \in 128 .. 191
      /\ Decoded(bytes) >= Least[n]

ScalarValue(c) == c \in 0 .. 55295 \/ c \in 57344 .. 1114111

(* The ways to read bytes as UTF-8: none or one.                           *)
ReadUtf8(s) ==
  LET n == Len(s)
      read[i \in 1 .. n + 1] ==
        IF i > n THEN {<< >>}
        ELSE LET encodings == {k \in 1 .. 4 : i + k <= n + 1
                                              /\ IsEncoding(SubSeq(s, i, i + k - 1))}
             IN  UNION {{<<Decoded(SubSeq(s, i, i + k - 1))>> \o rest :
                          rest \in read[i + k]} : k \in encodings}
  IN  read[1]

IsUtf8Text(s) == \E points \in ReadUtf8(s) : \A i \in DOMAIN points : ScalarValue(points[i])

(* A surrogate without its partner is a code point by itself.              *)
CodePoints(str) ==
  LET n == Len(str)
      points[i \in 1 .. n + 1] ==
        IF i > n THEN << >>
        ELSE IF i < n /\ str[i] \in 55296 .. 56319 /\ str[i + 1] \in 56320 .. 57343
          THEN <<65536 + (str[i] - 55296) * 1024 + (str[i + 1] - 56320)>> \o points[i + 2]
        ELSE <<str[i]>> \o points[i + 1]
  IN  points[1]

(* A literal: pieces between quotes; \x takes all digits that follow.      *)
ReadLiteral(text) ==
  LET n == Len(text)
      read[i \in 1 .. n + 1, inside \in BOOLEAN] ==
        IF i > n THEN << >>
        ELSE IF text[i] = Quote THEN read[i + 1, ~inside]
        ELSE IF ~inside THEN read[i + 1, inside]
        ELSE IF text[i] # Backslash THEN <<text[i]>> \o read[i + 1, inside]
        ELSE IF text[i + 1] = 120
          THEN LET end == Min({j \in i + 2 .. n : text[j] \notin HexDigits})
               IN  <<Numeral(SubSeq(text, i + 2, end - 1))>> \o read[end, inside]
        ELSE <<(CHOOSE escape \in SpecialEscapes : escape[2] = text[i + 1])[1]>>
               \o read[i + 2, inside]
  IN  read[1, FALSE]

(* Content or the value of an attribute, whose whitespace is normalised.   *)
References == {<<Lt, 60>>, <<Gt, 62>>, <<Amp, 38>>, <<Apos, 39>>, <<Quot, 34>>}
                \cup {<<<<38, 35, 120, 48, HexDigit(c), 59>>, c>> : c \in {9, 10, 13}}

ReadXml(text, is_attribute) ==
  LET n == Len(text)
      read[i \in 1 .. n + 1] ==
        IF i > n THEN << >>
        ELSE IF ~is_attribute /\ At(text, i, Open)
          THEN LET end == FindNext(text, i, Close)
               IN  SubSeq(text, i + Len(Open), end - 1) \o read[end + 3]
        ELSE IF text[i] = 38
          THEN LET ref == CHOOSE r \in References : At(text, i, r[1])
               IN  <<ref[2]>> \o read[i + Len(ref[1])]
        ELSE <<IF is_attribute /\ IsNormalizableWhitespace(text[i])
                 THEN Space ELSE text[i]>> \o read[i + 1]
  IN  read[1]

ReadJson(text) ==
  LET n == Len(text)
      read[i \in 1 .. n + 1] ==
        IF i > n THEN << >>
        ELSE IF text[i] # Backslash THEN <<text[i]>> \o read[i + 1]
        ELSE IF text[i + 1] = 117
          THEN <<Numeral(SubSeq(text, i + 2, i + 5))>> \o read[i + 6]
        ELSE <<(CHOOSE escape \in JsonEscapes : escape[2] = text[i + 1])[1]>>
               \o read[i + 2]
  IN  read[1]
=============================================================================
