----------------------------- MODULE Assertions ------------------------------
(***************************************************************************)
(* What assertions decide and what they say when they fail (gtest.cc,      *)
(* gtest.h, gtest_pred_impl.h, gtest-internal.h): comparisons of C strings *)
(* and of integers, substrings, numbers that are near, Boolean results,    *)
(* predicates, statements that should throw, and the results of Windows    *)
(* calls.  The message of a failure is a record of what it claims and of   *)
(* the values that it shows.                                               *)
(***************************************************************************)
EXTENDS Encodings, Diffs

AssertionSuccess == [success |-> TRUE, message |-> << >>]
AssertionFailure(message) == [success |-> FALSE, message |-> message]

(* operator! keeps the message. *)
Negation(assertion_result) == [assertion_result EXCEPT !.success = ~@]

(* A null pointer, which no C string is: they hold no null character.      *)
NullPointer == <<0>>

(* How a null pointer is shown by PrintToString, and by Message.           *)
PrintedNull == <<78, 85, 76, 76>>
StreamedNull == <<40, 110, 117, 108, 108, 41>>

ShowCString(s) == IF s = NullPointer THEN PrintedNull ELSE PrintStringTo(s)[1]
StreamCString(s) == IF s = NullPointer THEN StreamedNull ELSE s

(* StringStreamToString, which Message::GetString returns: \0 for null.    *)
StringStreamToString(s) ==
  FlattenSeq([i \in DOMAIN s |-> IF s[i] = 0 THEN <<Backslash, 48>> ELSE <<s[i]>>])

AppendUserMessage(gtest_msg, user_msg) ==
  IF user_msg = << >> THEN gtest_msg ELSE gtest_msg \o <<10>> \o user_msg

-----------------------------------------------------------------------------
(* C strings. *)
ToLower(c) == IF c \in 65 .. 90 THEN c + 32 ELSE c
Lowered(s) == [i \in DOMAIN s |-> ToLower(s[i])]

CStringEquals(lhs, rhs) ==
  IF lhs = NullPointer THEN rhs = NullPointer ELSE rhs # NullPointer /\ lhs = rhs

CStringsEqualIgnoringCase(lhs, rhs) ==
  IF lhs = NullPointer THEN rhs = NullPointer
  ELSE rhs # NullPointer /\ Lowered(lhs) = Lowered(rhs)

EndsWithCaseInsensitive(str, suffix) ==
  /\ Len(str) >= Len(suffix)
  /\ CStringsEqualIgnoringCase(SubSeq(str, Len(str) - Len(suffix) + 1, Len(str)), suffix)

(* strstr, through FindNext. *)
IsSubstringPred(needle, haystack) ==
  IF needle = NullPointer \/ haystack = NullPointer THEN needle = haystack
  ELSE needle = << >> \/ FindNext(haystack, 1, needle) <= Len(haystack)

(* SplitEscapedString: at each \n of a printed text, without its quotes;   *)
(* the loop ends before the last character.                                *)
SplitEscapedString(str) ==
  LET quoted == Len(str) > 2 /\ str[1] = Quote /\ Last(str) = Quote
      start == IF quoted THEN 2 ELSE 1
      end == IF quoted THEN Len(str) - 1 ELSE Len(str)
      step(s, i) ==
        IF s.escaped
        THEN IF str[i] = 110
             THEN [escaped |-> FALSE, start |-> i + 1,
                   lines |-> Append(s.lines, SubSeq(str, s.start, i - 2))]
             ELSE [s EXCEPT !.escaped = FALSE]
        ELSE [s EXCEPT !.escaped = str[i] = Backslash]
      all == FoldLeft(step, [escaped |-> FALSE, start |-> start, lines |-> << >>],
                      [k \in 1 .. end - start |-> start + k - 1])
  IN  Append(all.lines, SubSeq(str, all.start, end))

(* EqFailure: a diff if either value has several lines. *)
EqFailure(lhs_value, rhs_value, ignoring_case) ==
  LET lhs_lines == SplitEscapedString(lhs_value)
      rhs_lines == SplitEscapedString(rhs_value)
      several == /\ lhs_value # << >> /\ rhs_value # << >>
                 /\ Len(lhs_lines) > 1 \/ Len(rhs_lines) > 1
  IN  AssertionFailure(
        [claims |-> "equal", shown |-> <<lhs_value, rhs_value>>,
         ignoring_case |-> ignoring_case,
         diff |-> IF several THEN CreateUnifiedDiff(lhs_lines, rhs_lines, 2) ELSE << >>])

(* The failures of the others, which show their values as they are. *)
PlainFailure(claims, x, y, ignoring_case) ==
  AssertionFailure([claims |-> claims, shown |-> <<StreamCString(x), StreamCString(y)>>,
                    ignoring_case |-> ignoring_case, diff |-> << >>])

CmpHelperSTREQ(lhs, rhs) ==
  IF CStringEquals(lhs, rhs) THEN AssertionSuccess
  ELSE EqFailure(ShowCString(lhs), ShowCString(rhs), FALSE)

CmpHelperSTRCASEEQ(lhs, rhs) ==
  IF CStringsEqualIgnoringCase(lhs, rhs) THEN AssertionSuccess
  ELSE EqFailure(ShowCString(lhs), ShowCString(rhs), TRUE)

CmpHelperSTRNE(s1, s2) ==
  IF ~CStringEquals(s1, s2) THEN AssertionSuccess
  ELSE PlainFailure("different", s1, s2, FALSE)

CmpHelperSTRCASENE(s1, s2) ==
  IF ~CStringsEqualIgnoringCase(s1, s2) THEN AssertionSuccess
  ELSE PlainFailure("different", s1, s2, TRUE)

IsSubstringImpl(expected_to_be_substring, needle, haystack) ==
  IF IsSubstringPred(needle, haystack) = expected_to_be_substring THEN AssertionSuccess
  ELSE PlainFailure(IF expected_to_be_substring THEN "part" ELSE "no part",
                    needle, haystack, FALSE)

StringAssertion(name, x, y) ==
  CASE name = "STREQ" -> CmpHelperSTREQ(x, y)
    [] name = "STRNE" -> CmpHelperSTRNE(x, y)
    [] name = "STRCASEEQ" -> CmpHelperSTRCASEEQ(x, y)
    [] name = "STRCASENE" -> CmpHelperSTRCASENE(x, y)
    [] name = "IsSubstring" -> IsSubstringImpl(TRUE, x, y)
    [] name = "IsNotSubstring" -> IsSubstringImpl(FALSE, x, y)

-----------------------------------------------------------------------------
(* Numbers that are near: <<0, n>> is finite, <<1, 0>> and <<-1, 0>> are   *)
(* the infinities and <<2, 0>> is NaN.                                     *)
NaN == <<2, 0>>
Infinity == <<1, 0>>
IsFinite(x) == x[1] = 0

(* fabs(val1 - val2): two equal infinities have no difference.             *)
FAbsDifference(x, y) ==
  IF IsFinite(x) /\ IsFinite(y) THEN <<0, IF x[2] < y[2] THEN y[2] - x[2] ELSE x[2] - y[2]>>
  ELSE IF x = NaN \/ y = NaN \/ x = y THEN NaN ELSE Infinity

IsNoMore(x, y) ==
  /\ x # NaN /\ y # NaN
  /\ IF IsFinite(x) /\ IsFinite(y) THEN x[2] <= y[2] ELSE y = Infinity \/ x[1] < y[1]

DoubleNearPredFormat(val1, val2, abs_error) ==
  LET diff == FAbsDifference(val1, val2)
  IN  IF IsNoMore(diff, abs_error) THEN AssertionSuccess
      ELSE AssertionFailure([difference |-> diff, values |-> <<val1, val2, abs_error>>])

(* EXPECT_TRUE and EXPECT_FALSE, of a result that may have a message of    *)
(* its own.                                                                *)
GetBoolAssertionFailureMessage(assertion_result, actual, expected) ==
  [actual |-> actual, because |-> assertion_result.message, expected |-> expected]

TestBoolean(expression, actual, expected) ==
  IF expression.success THEN AssertionSuccess
  ELSE AssertionFailure(GetBoolAssertionFailureMessage(expression, actual, expected))

ExpectTrue(result) == TestBoolean(result, "false", "true")
ExpectFalse(result) == TestBoolean(Negation(result), "true", "false")

(* EXPECT_PRED1 to EXPECT_PRED5: the predicate as the set of its values.   *)
AssertPredHelper(pred, values) ==
  IF values \in pred THEN AssertionSuccess ELSE AssertionFailure([evaluates_to |-> values])

(* A statement, by how it ends: it comes to its end, throws an exception of*)
(* the expected class or one derived from it, throws another, or returns   *)
(* from the function it is in, and then nothing is asserted.               *)
Endings == {"end", "expected class", "derived class", "another class", "return"}

TestThrow(ending) ==
  CASE ending \in {"expected class", "derived class", "return"} -> AssertionSuccess
    [] ending = "another class" -> AssertionFailure("it throws a different type")
    [] ending = "end" -> AssertionFailure("it throws nothing")

TestNoThrow(ending) ==
  IF ending \in {"end", "return"} THEN AssertionSuccess ELSE AssertionFailure("it throws")

TestAnyThrow(ending) ==
  IF ending = "end" THEN AssertionFailure("it doesn't") ELSE AssertionSuccess

StatementAssertion(name, ending) ==
  CASE name = "THROW" -> TestThrow(ending)
    [] name = "NO_THROW" -> TestNoThrow(ending)
    [] name = "ANY_THROW" -> TestAnyThrow(ending)

-----------------------------------------------------------------------------
(* Comparisons of integers, each with its type; int has IntBits.  The      *)
(* operators of C++ bring both to a common type first.                     *)
IntBits == 3
IntegralTypes == [bits : {2, 3, 4}, signed : BOOLEAN]

ValuesOfType(type) ==
  IF type.signed THEN -(2 ^ (type.bits - 1)) .. 2 ^ (type.bits - 1) - 1
  ELSE 0 .. 2 ^ type.bits - 1

Promoted(type) == IF type.bits < IntBits THEN [bits |-> IntBits, signed |-> TRUE] ELSE type

CommonType(x, y) ==
  LET s == Promoted(x.type)
      t == Promoted(y.type)
  IN  IF s.bits > t.bits THEN s ELSE IF t.bits > s.bits THEN t
      ELSE [bits |-> s.bits, signed |-> s.signed /\ t.signed]

ConvertedTo(type, value) ==
  LET n == value % 2 ^ type.bits
  IN  IF n \in ValuesOfType(type) THEN n ELSE n - 2 ^ type.bits

Related(op, m, n) ==
  CASE op = "==" -> m = n [] op = "!=" -> m # n [] op = "<=" -> m <= n
    [] op = "<" -> m < n [] op = ">=" -> m >= n [] op = ">" -> m > n

OperatorOf(op, x, y) ==
  LET type == CommonType(x, y)
  IN  Related(op, ConvertedTo(type, x.value), ConvertedTo(type, y.value))

(* The values are shown as they are, not as they were compared. *)
DecimalText(n) ==
  IF n < 0 THEN <<45, 48 - n>>
  ELSE IF n < 10 THEN <<48 + n>> ELSE <<48 + (n \div 10), 48 + (n % 10)>>

CmpHelperEQFailure(lhs, rhs) ==
  EqFailure(DecimalText(lhs.value), DecimalText(rhs.value), FALSE)

CmpHelperEQ(lhs, rhs) ==
  IF OperatorOf("==", lhs, rhs) THEN AssertionSuccess ELSE CmpHelperEQFailure(lhs, rhs)

CmpHelperOpFailure(val1, val2, op) ==
  AssertionFailure([claims |-> op, shown |-> <<DecimalText(val1.value), DecimalText(val2.value)>>,
                    ignoring_case |-> FALSE, diff |-> << >>])

CmpHelperOp(op, val1, val2) ==
  IF OperatorOf(op, val1, val2) THEN AssertionSuccess
  ELSE CmpHelperOpFailure(val1, val2, op)

IntegerAssertion(op, x, y) == IF op = "==" THEN CmpHelperEQ(x, y) ELSE CmpHelperOp(op, x, y)

-----------------------------------------------------------------------------
(* The result of a Windows call, a number of HResultBits of which the sign *)
(* tells that it failed, and the text that the system has for it, which    *)
(* ends in a line break or more.                                           *)
HResultBits == 8
HResults == -(2 ^ (HResultBits - 1)) .. 2 ^ (HResultBits - 1) - 1
Succeeded(hr) == hr >= 0
Failed(hr) == hr < 0

FormatHexInt(value) == Hex(value % 2 ^ HResultBits)

IsSpace(ch) == ch \in 9 .. 13 \cup {32}
Trimmed(text) == FoldRight(LAMBDA c, kept : IF kept = << >> /\ IsSpace(c) THEN << >>
                                           ELSE <<c>> \o kept, text, << >>)

HRESULTFailureHelper(expected, hr, text) ==
  AssertionFailure([expected |-> expected, error_hex |-> FormatHexInt(hr),
                    error_text |-> Trimmed(text)])

IsHRESULTSuccess(hr, text) ==
  IF Succeeded(hr) THEN AssertionSuccess ELSE HRESULTFailureHelper("succeeds", hr, text)

IsHRESULTFailure(hr, text) ==
  IF Failed(hr) THEN AssertionSuccess ELSE HRESULTFailureHelper("fails", hr, text)

-----------------------------------------------------------------------------
(* What the words of a message say of the texts that it shows. *)
SameText(x, y, ignoring_case) ==
  /\ Len(x) = Len(y)
  /\ \A i \in DOMAIN x :
       x[i] = y[i] \/ (ignoring_case /\ {x[i], y[i]} \in {{c, c + 32} : c \in 65 .. 90})

Within(x, y) == \E i \in 0 .. Len(y) - Len(x) : SubSeq(y, i + 1, i + Len(x)) = x

Claim(message) ==
  LET x == message.shown[1]
      y == message.shown[2]
      Value(s) == IF s = PrintedNull THEN NullPointer ELSE ReadLiteral(s)
  IN  CASE message.claims = "equal" -> SameText(Value(x), Value(y), message.ignoring_case)
        [] message.claims = "different" -> ~SameText(x, y, message.ignoring_case)
        [] message.claims = "part" -> Within(x, y)
        [] message.claims = "no part" -> ~Within(x, y)

(* What each assertion is for. *)
Wanted(name, x, y) ==
  LET Same(ignoring_case) == SameText(x, y, ignoring_case)
      Part == IF NullPointer \in {x, y} THEN x = y ELSE Within(x, y)
  IN  CASE name = "STREQ" -> Same(FALSE) [] name = "STRNE" -> ~Same(FALSE)
        [] name = "STRCASEEQ" -> Same(TRUE) [] name = "STRCASENE" -> ~Same(TRUE)
        [] name = "IsSubstring" -> Part [] name = "IsNotSubstring" -> ~Part

(* A number that is written in a base from 2 to 16. *)
NumberIn(base, digits) ==
  FoldLeft(LAMBDA n, c : base * n + (IF c <= 57 THEN c - 48 ELSE c - 55), 0, digits)
ReadDecimal(text) ==
  IF text[1] = 45 THEN -NumberIn(10, Tail(text)) ELSE NumberIn(10, text)

(* The lines of a literal, put together again. *)
LinesOf(lines) ==
  FoldLeft(LAMBDA text, line : text \o <<Backslash, 110>> \o line, lines[1], Tail(lines))
-----------------------------------------------------------------------------
(***************************************************************************)
(* The comparison of floating-point numbers in ASSERT_FLOAT_EQ and the     *)
(* like (gtest-internal.h:205-396, gtest.cc:1402-1451), on bit patterns of *)
(* any width: a sign, then the exponent, then the fraction.                *)
(***************************************************************************)
CONSTANTS ExponentCount, FractionCount    \* 2^kExponentBitCount, 2^kFractionBitCount

ASSUME CountsType ==
  /\ ExponentCount \in Nat /\ ExponentCount >= 2
  /\ FractionCount \in Nat /\ FractionCount >= 2

kMaxUlps == 4

kSignBit == ExponentCount * FractionCount
Bits == 0 .. 2 * kSignBit - 1

exponent_bits(bits) == (bits \div FractionCount) % ExponentCount
fraction_bits(bits) == bits % FractionCount
sign_bit(bits) == bits >= kSignBit

is_nan(bits) ==
  exponent_bits(bits) = ExponentCount - 1 /\ fraction_bits(bits) # 0

(* Mutant: the sign bit is kept, as for a two's complement number. *)
Unbiased(sam) == sam

(* ~sam + 1, or the sign bit set. *)
SignAndMagnitudeToBiased(sam) ==
  IF sign_bit(sam) THEN 2 * kSignBit - sam ELSE kSignBit + sam

DistanceBetweenSignAndMagnitudeNumbers(sam1, sam2) ==
  LET biased1 == SignAndMagnitudeToBiased(sam1)
      biased2 == SignAndMagnitudeToBiased(sam2)
  IN  IF biased1 >= biased2 THEN biased1 - biased2 ELSE biased2 - biased1

AlmostEquals(lhs, rhs) ==
  /\ ~is_nan(lhs) /\ ~is_nan(rhs)
  /\ DistanceBetweenSignAndMagnitudeNumbers(lhs, rhs) <= kMaxUlps

(* What a pattern stands for, in units of the least number; an infinity    *)
(* comes next to the greatest.                                             *)
Value(bits) ==
  LET e == exponent_bits(bits)
      f == fraction_bits(bits)
      magnitude == IF e = 0 THEN f ELSE (FractionCount + f) * 2^(e - 1)
  IN  IF sign_bit(bits) THEN -magnitude ELSE magnitude

LessThan(lhs, rhs) == ~is_nan(lhs) /\ ~is_nan(rhs) /\ Value(lhs) < Value(rhs)

FloatingPointLE(val1, val2) == LessThan(val1, val2) \/ AlmostEquals(val1, val2)

-----------------------------------------------------------------------------
(* How many different numbers one has to step over to come from one to the *)
(* other: +0 and -0 are the same, the infinities count.                    *)
Numbers == {Value(bits) : bits \in {b \in Bits : ~is_nan(b)}}

Ulps(lhs, rhs) ==
  LET a == Value(lhs)
      b == Value(rhs)
  IN  Cardinality({v \in Numbers : (a < v /\ v <= b) \/ (b < v /\ v <= a)})
=============================================================================
