------------------------------- MODULE Matchers ------------------------------
(***************************************************************************)
(* The matchers of Google Mock (gmock-matchers.h, gtest-matchers.h).  Each *)
(* class decides in MatchAndExplain whether a value matches, and says in   *)
(* DescribeTo and DescribeNegationTo which values do and which do not; a   *)
(* failed assertion prints one of the two.  A matcher is a record of its   *)
(* class and of what it was made from; a description is what the text      *)
(* says, not its wording.  Pointers, optionals and floating-point numbers  *)
(* are << >> for null, empty and NaN, and <<v>> otherwise.                 *)
(***************************************************************************)
EXTENDS Matchings, SimpleRegexes

Compare(op, lhs, rhs) ==
  CASE op = "eq" -> lhs = rhs [] op = "ne" -> lhs # rhs
    [] op = "lt" -> lhs < rhs [] op = "gt" -> lhs > rhs
    [] op = "le" -> lhs <= rhs [] op = "ge" -> lhs >= rhs

-----------------------------------------------------------------------------
(* Strings are sequences of codes, of which 0 ends what a C function sees. *)
Lower(c) == IF c \in 65 .. 90 THEN c + 32 ELSE c
IndexOfNul(s) == LET S == {i \in DOMAIN s : s[i] = 0} IN IF S = {} THEN 0 ELSE Min(S)
CStr(s) == IF IndexOfNul(s) = 0 THEN s ELSE SubSeq(s, 1, IndexOfNul(s) - 1)

CaseInsensitiveCStringEquals(s1, s2) ==
  /\ Len(CStr(s1)) = Len(CStr(s2))
  /\ \A i \in DOMAIN CStr(s1) : Lower(s1[i]) = Lower(s2[i])

RECURSIVE CaseInsensitiveStringEquals(_, _)

(* The heads up to a null character, and then the tails behind it. *)
CaseInsensitiveStringEquals(s1, s2) ==
  LET i1 == IndexOfNul(s1)
      i2 == IndexOfNul(s2)
  IN  /\ CaseInsensitiveCStringEquals(s1, s2)
      /\ IF i1 = 0 \/ i2 = 0 THEN i1 = i2
         ELSE CaseInsensitiveStringEquals(SubSeq(s1, i1 + 1, Len(s1)),
                                          SubSeq(s2, i2 + 1, Len(s2)))

(* Strings may come as null pointers. *)
StrEqualityMatches(m, p) ==
  IF p = << >> THEN ~m.expect_eq
  ELSE m.expect_eq = IF m.case_sensitive THEN p[1] = m.string
                     ELSE CaseInsensitiveStringEquals(p[1], m.string)

HasSubstrMatches(m, p) ==
  /\ p # << >>
  /\ \E i \in 1 .. Len(p[1]) + 1 : IsPrefix(m.string, SubSeq(p[1], i, Len(p[1])))

StartsWithMatches(m, p) ==
  /\ p # << >> /\ Len(p[1]) >= Len(m.string)
  /\ SubSeq(p[1], 1, Len(m.string)) = m.string

EndsWithMatches(m, p) ==
  /\ p # << >> /\ Len(p[1]) >= Len(m.string)
  /\ SubSeq(p[1], Len(p[1]) - Len(m.string) + 1, Len(p[1])) = m.string

-----------------------------------------------------------------------------
(* Numbers an instance has are further apart than AlmostEquals tolerates   *)
(* (module Assertions is about that); -1 stands for no error given.        *)
FloatingEqMatches(m, x) ==
  IF x = << >> \/ m.rhs = << >> THEN x = m.rhs /\ m.nan_eq_nan
  ELSE \/ x = m.rhs
       \/ /\ m.max_abs_error >= 0
          /\ x[1] - m.rhs[1] \in -m.max_abs_error .. m.max_abs_error

(* The first number of the pair is what the second one is compared with.   *)
FloatingEq2Matches(m, x) ==
  FloatingEqMatches([rhs |-> x[1], nan_eq_nan |-> m.nan_eq_nan,
                     max_abs_error |-> m.max_abs_error], x[2])

IsNullMatches(p) == p = << >>
NotNullMatches(p) == p # << >>

(* A reference is the object it refers to, with its value.                 *)
RefMatches(m, x) == x.object = m.object

MatchesRegexMatches(m, p) ==
  /\ p # << >>
  /\ IF m.full_match THEN FullMatch(p[1], RE(m.regex)) ELSE PartialMatch(p[1], RE(m.regex))

RECURSIVE Matches(_, _)

TrulyMatches(m, x) == x \in m.predicate

TuplesMatch(m, x) == Compare(m.op, x[1], x[2])

NotMatches(m, x) == ~Matches(m.of, x)

AllOfMatches(ms, x) == \A i \in DOMAIN ms : Matches(ms[i], x)

AnyOfMatches(ms, x) == \E i \in DOMAIN ms : Matches(ms[i], x)

(* The loop of Contains and Each, left at the first element that decides.  *)
QuantifierMatches(all_elements_should_match, m, x) ==
  IF \E i \in DOMAIN x : Matches(m, x[i]) # all_elements_should_match
    THEN ~all_elements_should_match
    ELSE all_elements_should_match

(* Mutant: elements behind the last matcher are not counted. *)
ElementsStartWithMatches(ms, x) ==
  /\ Len(x) >= Len(ms)
  /\ \A i \in DOMAIN ms : Matches(ms[i], x[i])

(* The first mismatch or the end of the shorter side; what is left of the  *)
(* container is still counted.                                             *)
ElementsAreMatches(ms, x) ==
  LET Mismatches == {i \in DOMAIN x \cap DOMAIN ms : ~Matches(ms[i], x[i])}
      exam_pos == IF Mismatches # {} THEN Min(Mismatches) - 1
                  ELSE Min({Len(x), Len(ms)})
      actual_count == exam_pos + (Len(x) - exam_pos)
  IN  actual_count = Len(ms) /\ Mismatches = {}

UnorderedElementsAreMatches(m, x) ==
  LET matrix == {<<l, r>> \in (DOMAIN x) \X (DOMAIN m.of) : Matches(m.of[r], x[l])}
  IN  MatchAndExplain(matrix, Len(x), Len(m.of), m.flags)

PointwiseMatches(m, x) ==
  Len(x) = Len(m.rhs) /\ \A i \in DOMAIN x : Matches(m.of, <<x[i], m.rhs[i]>>)

WhenSortedMatches(m, x) ==
  Matches(m.of, SortSeq(x, LAMBDA a, b : Compare(m.op, a, b)))

KeyMatches(m, x) == Matches(m.of, x[1])

PairMatches(m, x) == Matches(m.first, x[1]) /\ Matches(m.second, x[2])

SizeIsMatches(m, x) == Matches(m.of, Len(x))
BeginEndDistanceIsMatches(m, x) == Matches(m.of, Len(x))

(* Elements that are missing or unexpected are sought for the explanation  *)
(* only.                                                                   *)
ContainerEqMatches(m, x) == x = m.rhs

ContainsMatches(m, x) == QuantifierMatches(FALSE, m.of, x)
EachMatches(m, x) == QuantifierMatches(TRUE, m.of, x)

(* A field or a property, of an object or through a pointer that may be    *)
(* null.                                                                   *)
FieldMatches(m, p) == p # << >> /\ Matches(m.of, p[1][m.field])

PointeeMatches(m, p) == p # << >> /\ Matches(m.of, p[1])
OptionalMatches(m, x) == PointeeMatches(m, x)

ResultOfMatches(m, x) == Matches(m.of, m.callable[x])

(* A pointer to another type becomes null, and the inner matcher decides.  *)
WhenDynamicCastToMatches(m, p) ==
  Matches(m.of, IF p # << >> /\ p[1].type = m.type THEN p ELSE << >>)

VariantMatches(m, x) == x.type = m.type /\ Matches(m.of, x.value)
AnyCastMatches(m, x) == x.type = m.type /\ Matches(m.of, x.value)

ArgsMatches(m, x) == Matches(m.of, [i \in DOMAIN m.k |-> x[m.k[i]]])

(* A matcher of pairs whose second field is bound. *)
BoundSecondMatches(m, x) == Matches(m.of, <<x, m.second>>)

Matches(m, x) ==
  CASE m.class = "Comparison" -> Compare(m.op, x, m.rhs)
    [] m.class = "PairMatch" -> TuplesMatch(m, x)
    [] m.class = "Anything" -> TRUE
    [] m.class = "IsNull" -> IsNullMatches(x)
    [] m.class = "NotNull" -> NotNullMatches(x)
    [] m.class = "Ref" -> RefMatches(m, x)
    [] m.class = "MatchesRegex" -> MatchesRegexMatches(m, x)
    [] m.class = "Truly" -> TrulyMatches(m, x)
    [] m.class = "StrEquality" -> StrEqualityMatches(m, x)
    [] m.class = "HasSubstr" -> HasSubstrMatches(m, x)
    [] m.class = "StartsWith" -> StartsWithMatches(m, x)
    [] m.class = "EndsWith" -> EndsWithMatches(m, x)
    [] m.class = "FloatingEq" -> FloatingEqMatches(m, x)
    [] m.class = "FloatingEq2" -> FloatingEq2Matches(m, x)
    [] m.class = "Not" -> NotMatches(m, x)
    [] m.class = "AllOf" -> AllOfMatches(m.of, x)
    [] m.class = "AnyOf" -> AnyOfMatches(m.of, x)
    [] m.class = "Pointee" -> PointeeMatches(m, x)
    [] m.class = "Optional" -> OptionalMatches(m, x)
    [] m.class = "Field" -> FieldMatches(m, x)
    [] m.class = "ResultOf" -> ResultOfMatches(m, x)
    [] m.class = "WhenDynamicCastTo" -> WhenDynamicCastToMatches(m, x)
    [] m.class = "Variant" -> VariantMatches(m, x)
    [] m.class = "AnyCast" -> AnyCastMatches(m, x)
    [] m.class = "SizeIs" -> SizeIsMatches(m, x)
    [] m.class = "BeginEndDistanceIs" -> BeginEndDistanceIsMatches(m, x)
    [] m.class = "ContainerEq" -> ContainerEqMatches(m, x)
    [] m.class = "WhenSorted" -> WhenSortedMatches(m, x)
    [] m.class = "Pointwise" -> PointwiseMatches(m, x)
    [] m.class = "Contains" -> ContainsMatches(m, x)
    [] m.class = "Each" -> EachMatches(m, x)
    [] m.class = "Key" -> KeyMatches(m, x)
    [] m.class = "Pair" -> PairMatches(m, x)
    [] m.class = "ElementsAre" -> ElementsAreMatches(m.of, x)
    [] m.class = "UnorderedElementsAre" -> UnorderedElementsAreMatches(m, x)
    [] m.class = "BoundSecond" -> BoundSecondMatches(m, x)
    [] m.class = "Args" -> ArgsMatches(m, x)

-----------------------------------------------------------------------------
(* The functions that tests make matchers with.  Those that take iterators,*)
(* an array, a container or a list copy it, and are one here.              *)
Comparison(op, x) == [class |-> "Comparison", op |-> op, rhs |-> x]
PairComparison(op) == [class |-> "PairMatch", op |-> op]
A == [class |-> "Anything"]
IsNull == [class |-> "IsNull"]
NotNull == [class |-> "NotNull"]
Ref(object) == [class |-> "Ref", object |-> object]
Truly(predicate) == [class |-> "Truly", predicate |-> predicate]

FloatingEq(rhs, nan_eq_nan, max_abs_error) ==
  [class |-> "FloatingEq", rhs |-> rhs, nan_eq_nan |-> nan_eq_nan,
   max_abs_error |-> max_abs_error]
FloatingEq2(nan_eq_nan, max_abs_error) ==
  [class |-> "FloatingEq2", nan_eq_nan |-> nan_eq_nan, max_abs_error |-> max_abs_error]

StrEquality(str, expect_eq, case_sensitive) ==
  [class |-> "StrEquality", string |-> str, expect_eq |-> expect_eq,
   case_sensitive |-> case_sensitive]
SubstringMatcher(class, str) == [class |-> class, string |-> str]
MatchesRegex(regex) == [class |-> "MatchesRegex", regex |-> regex, full_match |-> TRUE]
ContainsRegex(regex) == [class |-> "MatchesRegex", regex |-> regex, full_match |-> FALSE]

Pointee(m) == [class |-> "Pointee", of |-> m]
Optional(m) == [class |-> "Optional", of |-> m]
FieldIs(field, m) == [class |-> "Field", field |-> field, of |-> m]
PropertyIs(property, m) == [class |-> "Field", field |-> property, of |-> m]
ResultOfCall(callable, m) == [class |-> "ResultOf", callable |-> callable, of |-> m]
WhenDynamicCastTo(type, m) == [class |-> "WhenDynamicCastTo", type |-> type, of |-> m]
VariantWith(type, m) == [class |-> "Variant", type |-> type, of |-> m]
AnyWith(type, m) == [class |-> "AnyCast", type |-> type, of |-> m]

Not(m) == [class |-> "Not", of |-> m]
AllOf(ms) == [class |-> "AllOf", of |-> ms]
AnyOf(ms) == [class |-> "AnyOf", of |-> ms]
AllOfArray(ms) == AllOf(ms)
AnyOfArray(ms) == AnyOf(ms)
Key(m) == [class |-> "Key", of |-> m]
Pair(first, second) == [class |-> "Pair", first |-> first, second |-> second]
ArgsAt(k, m) == [class |-> "Args", k |-> k, of |-> m]
AllArgs(m) == m

SizeIs(m) == [class |-> "SizeIs", of |-> m]
BeginEndDistanceIs(m) == [class |-> "BeginEndDistanceIs", of |-> m]
ContainerEq(rhs) == [class |-> "ContainerEq", rhs |-> rhs]
ContainsElement(m) == [class |-> "Contains", of |-> m]
Each(m) == [class |-> "Each", of |-> m]
WhenSortedBy(op, m) == [class |-> "WhenSorted", op |-> op, of |-> m]
WhenSorted(m) == WhenSortedBy("lt", m)
ElementsAre(ms) == [class |-> "ElementsAre", of |-> ms]
ElementsAreArray(ms) == ElementsAre(ms)
PointwiseOf(m, rhs) == [class |-> "Pointwise", of |-> m, rhs |-> rhs]

ExactMatch == {"Superset", "Subset"}
UnorderedElementsAreArrayMatcher(flags, ms) ==
  [class |-> "UnorderedElementsAre", flags |-> flags, of |-> ms]
UnorderedElementsAre(ms) == UnorderedElementsAreArrayMatcher(ExactMatch, ms)
UnorderedElementsAreArray(ms) == UnorderedElementsAreArrayMatcher(ExactMatch, ms)
IsSupersetOf(ms) == UnorderedElementsAreArrayMatcher({"Superset"}, ms)
IsSubsetOf(ms) == UnorderedElementsAreArrayMatcher({"Subset"}, ms)
MatcherBindSecond(m, second) == [class |-> "BoundSecond", of |-> m, second |-> second]
UnorderedPointwise(m, rhs) ==
  UnorderedElementsAreArray([i \in DOMAIN rhs |-> MatcherBindSecond(m, rhs[i])])

-----------------------------------------------------------------------------
(* Descriptions.  "not" of a phrase is the phrase with isn't, doesn't...   *)
Say(says, of) == [says |-> says, of |-> of]
Fact(says, m) == [says |-> says, m |-> m]
With(says, m, of) == [says |-> says, m |-> m, of |-> of]
NotSo(d) == Say("not", d)

(* The comparisons share their phrases: ne is the negation of eq, but for  *)
(* pairs, which are "an unequal pair" or are not.                          *)
ComparisonPhrase(m) ==
  IF m.class = "Comparison" /\ m.op = "ne" THEN NotSo(Fact("compares", [m EXCEPT !.op = "eq"]))
  ELSE Fact("compares", m)

ComparisonNegatedPhrase(m) ==
  IF m.class = "Comparison" /\ m.op = "ne" THEN Fact("compares", [m EXCEPT !.op = "eq"])
  ELSE NotSo(Fact("compares", m))

StrEqualityPhrase(m, expect_eq) ==
  IF expect_eq THEN Fact("equal string", m) ELSE NotSo(Fact("equal string", m))

FloatingEqPhrase(m) ==
  IF m.rhs # << >> THEN Fact("approximately", m)
  ELSE IF m.nan_eq_nan THEN Fact("is NaN", m)
  ELSE Fact("never matches", m)

FloatingEqNegatedPhrase(m) ==
  IF m.rhs # << >> THEN NotSo(Fact("approximately", m))
  ELSE IF m.nan_eq_nan THEN NotSo(Fact("is NaN", m))
  ELSE Fact("is anything", m)

(* The classes whose texts only differ in what they say of the inner one.  *)
Through == {"Optional", "Field", "ResultOf", "WhenDynamicCastTo", "SizeIs",
            "BeginEndDistanceIs", "WhenSorted", "Args"}

RECURSIVE DescribeTo(_), DescribeNegationTo(_)

DescribeAll(ms) == [i \in DOMAIN ms |-> DescribeTo(ms[i])]
DescribeNegations(ms) == [i \in DOMAIN ms |-> DescribeNegationTo(ms[i])]

ElementsArePhrase(ms) ==
  IF ms = << >> THEN Fact("is empty", ms) ELSE Say("elements", DescribeAll(ms))

ElementsAreNegatedPhrase(ms) ==
  IF ms = << >> THEN NotSo(Fact("is empty", ms))
  ELSE Say("other count or element", DescribeNegations(ms))

Requirement(flags) ==
  CASE flags = {"Superset", "Subset"} -> "permutation"
    [] flags = {"Superset"} -> "surjection"
    [] flags = {"Subset"} -> "injection"

UnorderedPhrase(m) ==
  IF Requirement(m.flags) = "permutation" /\ Len(m.of) <= 1
    THEN ElementsArePhrase(m.of)
    ELSE Say(Requirement(m.flags), DescribeAll(m.of))

UnorderedNegatedPhrase(m) ==
  IF Requirement(m.flags) = "permutation" /\ Len(m.of) <= 1
    THEN ElementsAreNegatedPhrase(m.of)
    ELSE NotSo(Say(Requirement(m.flags), DescribeAll(m.of)))

DescribeTo(m) ==
  CASE m.class \in {"Comparison", "PairMatch"} -> ComparisonPhrase(m)
    [] m.class = "Anything" -> Fact("is anything", m)
    [] m.class = "IsNull" -> Fact("is NULL", m)
    [] m.class = "NotNull" -> NotSo(Fact("is NULL", m))
    [] m.class \in {"Truly", "ContainerEq", "HasSubstr", "StartsWith", "EndsWith",
                    "Ref", "MatchesRegex", "FloatingEq2"} ->
         Fact(m.class, m)
    [] m.class = "StrEquality" -> StrEqualityPhrase(m, m.expect_eq)
    [] m.class = "FloatingEq" -> FloatingEqPhrase(m)
    [] m.class = "Not" -> DescribeNegationTo(m.of)
    [] m.class = "AllOf" -> Say("and", DescribeAll(m.of))
    [] m.class = "AnyOf" -> Say("or", DescribeAll(m.of))
    [] m.class = "Pointee" -> Say("points to", DescribeTo(m.of))
    [] m.class \in Through -> With(m.class, m, DescribeTo(m.of))
    [] m.class \in {"Variant", "AnyCast"} -> With("type and value", m, DescribeTo(m.of))
    [] m.class = "Pointwise" -> With("each pair", m, DescribeTo(m.of))
    [] m.class = "Contains" -> Say("some element", DescribeTo(m.of))
    [] m.class = "Each" -> Say("only elements", DescribeTo(m.of))
    [] m.class = "Key" -> Say("key", DescribeTo(m.of))
    [] m.class = "Pair" ->
         Say("fields", <<DescribeTo(m.first), DescribeTo(m.second)>>)
    [] m.class = "ElementsAre" -> ElementsArePhrase(m.of)
    [] m.class = "UnorderedElementsAre" -> UnorderedPhrase(m)
    [] m.class = "BoundSecond" -> With("and second", m, DescribeTo(m.of))

DescribeNegationTo(m) ==
  CASE m.class \in {"Comparison", "PairMatch"} -> ComparisonNegatedPhrase(m)
    [] m.class = "Anything" -> Fact("never matches", m)
    [] m.class = "NotNull" -> Fact("is NULL", m)
    [] m.class \in {"IsNull", "Truly", "ContainerEq", "HasSubstr", "StartsWith",
                    "EndsWith", "Ref", "MatchesRegex", "FloatingEq2", "BoundSecond"} ->
         NotSo(DescribeTo(m))
    [] m.class = "StrEquality" -> StrEqualityPhrase(m, ~m.expect_eq)
    [] m.class = "FloatingEq" -> FloatingEqNegatedPhrase(m)
    [] m.class = "Not" -> DescribeTo(m.of)
    [] m.class = "AllOf" -> Say("or", DescribeNegations(m.of))
    [] m.class = "AnyOf" -> Say("and", DescribeNegations(m.of))
    [] m.class = "Pointee" -> NotSo(Say("points to", DescribeTo(m.of)))
    [] m.class \in Through -> With(m.class, m, DescribeNegationTo(m.of))
    [] m.class \in {"Variant", "AnyCast"} ->
         With("other type or value", m, DescribeNegationTo(m.of))
    [] m.class = "Pointwise" ->
         With("other count or pair", m, DescribeNegationTo(m.of))
    [] m.class = "Contains" -> NotSo(Say("some element", DescribeTo(m.of)))
    [] m.class = "Each" -> Say("some element", DescribeNegationTo(m.of))
    [] m.class = "Key" -> NotSo(Say("key", DescribeTo(m.of)))
    [] m.class = "Pair" ->
         Say("either field",
             <<DescribeNegationTo(m.first), DescribeNegationTo(m.second)>>)
    [] m.class = "ElementsAre" -> ElementsAreNegatedPhrase(m.of)
    [] m.class = "UnorderedElementsAre" -> UnorderedNegatedPhrase(m)

DescribeMatcher(m, negation) ==
  IF negation THEN DescribeNegationTo(m) ELSE DescribeTo(m)

(* EXPECT_THAT: what the value had to be is said when it is not; the       *)
(* matcher then runs again, to explain.                                    *)
PredicateFormatterFromMatcher(m, x) ==
  [success |-> Matches(m, x),
   expected |-> IF Matches(m, x) THEN << >> ELSE <<DescribeTo(m)>>]

-----------------------------------------------------------------------------
(* What a reader takes a description to say of a value. *)
LowerAll(s) == [i \in DOMAIN s |-> Lower(s[i])]

FactHolds(says, m, x) ==
  CASE says = "compares" ->
         IF m.class = "PairMatch" THEN Compare(m.op, x[1], x[2])
         ELSE Compare(m.op, x, m.rhs)
    [] says = "is anything" -> TRUE
    [] says = "never matches" -> FALSE
    [] says \in {"is NULL", "is NaN", "is empty"} -> x = << >>
    [] says = "Truly" -> x \in m.predicate
    [] says = "ContainerEq" -> x = m.rhs
    [] says = "approximately" ->
         /\ x # << >>
         /\ x[1] \in {m.rhs[1] + e : e \in {0} \cup -m.max_abs_error .. m.max_abs_error}
    [] says = "FloatingEq2" ->
         IF << >> \in Range(x) THEN m.nan_eq_nan /\ x[1] = x[2]
         ELSE x[2][1] - x[1][1] \in {0} \cup -m.max_abs_error .. m.max_abs_error
    [] says = "Ref" -> x.object = m.object
    [] says = "MatchesRegex" ->
         \E s \in Range(x) : IF m.full_match THEN IsWord(m.regex, s, 0, Len(s))
                             ELSE IsFound(m.regex, s)
    [] says = "equal string" ->
         x # << >> /\ IF m.case_sensitive THEN x[1] = m.string
                      ELSE LowerAll(x[1]) = LowerAll(m.string)
    [] says = "HasSubstr" ->
         \E s \in Range(x) : \E i \in 1 .. Len(s) + 1, j \in 0 .. Len(s) :
           m.string = SubSeq(s, i, j)
    [] says = "StartsWith" -> \E s \in Range(x) : IsPrefix(m.string, s)
    [] says = "EndsWith" -> \E s \in Range(x) : IsSuffix(m.string, s)

RECURSIVE Says(_, _)

(* All elements, as many as wanted, or no two for one requirement. *)
Arrangement(says, ds, x) ==
  \E f \in [DOMAIN ds -> 0 .. Len(x)] :
    /\ \A i, j \in DOMAIN ds : i # j /\ f[i] = f[j] => f[i] = 0
    /\ \A i \in DOMAIN ds : f[i] # 0 => Says(ds[i], x[f[i]])
    /\ says # "injection" => 0 \notin Range(f)
    /\ says # "surjection" => DOMAIN x \subseteq Range(f)

Says(d, x) ==
  CASE d.says = "not" -> ~Says(d.of, x)
    [] d.says = "and" -> \A i \in DOMAIN d.of : Says(d.of[i], x)
    [] d.says = "or" -> \E i \in DOMAIN d.of : Says(d.of[i], x)
    [] d.says \in {"points to", "Optional"} -> x # << >> /\ Says(d.of, x[1])
    [] d.says = "Field" -> x # << >> /\ Says(d.of, x[1][d.m.field])
    [] d.says = "ResultOf" -> Says(d.of, d.m.callable[x])
    [] d.says = "WhenDynamicCastTo" ->
         Says(d.of, SelectSeq(x, LAMBDA obj : obj.type = d.m.type))
    [] d.says \in {"SizeIs", "BeginEndDistanceIs"} -> Says(d.of, Len(x))
    [] d.says = "WhenSorted" ->
         \E s \in SetToSeqs(DOMAIN x) :
           LET sorted == [i \in DOMAIN s |-> x[s[i]]]
           IN  /\ \A i \in 2 .. Len(s) : ~Compare(d.m.op, sorted[i], sorted[i - 1])
               /\ Says(d.of, sorted)
    [] d.says = "Args" -> Says(d.of, [i \in DOMAIN d.m.k |-> x[d.m.k[i]]])
    [] d.says = "type and value" -> x.type = d.m.type /\ Says(d.of, x.value)
    [] d.says = "other type or value" -> x.type # d.m.type \/ Says(d.of, x.value)
    [] d.says = "each pair" ->
         /\ Len(x) = Len(d.m.rhs)
         /\ \A i \in DOMAIN x : Says(d.of, <<x[i], d.m.rhs[i]>>)
    [] d.says = "other count or pair" ->
         \/ Len(x) # Len(d.m.rhs)
         \/ \E i \in DOMAIN x : Says(d.of, <<x[i], d.m.rhs[i]>>)
    [] d.says = "some element" -> \E i \in DOMAIN x : Says(d.of, x[i])
    [] d.says = "only elements" -> \A i \in DOMAIN x : Says(d.of, x[i])
    [] d.says = "key" -> Says(d.of, x[1])
    [] d.says = "fields" -> Says(d.of[1], x[1]) /\ Says(d.of[2], x[2])
    [] d.says = "either field" -> Says(d.of[1], x[1]) \/ Says(d.of[2], x[2])
    [] d.says = "elements" ->
         Len(x) = Len(d.of) /\ \A i \in DOMAIN x : Says(d.of[i], x[i])
    [] d.says = "other count or element" ->
         Len(x) # Len(d.of) \/ \E i \in DOMAIN x : Says(d.of[i], x[i])
    [] d.says \in {"permutation", "surjection", "injection"} ->
         Arrangement(d.says, d.of, x)
    [] d.says = "and second" -> Says(d.of, <<x, d.m.second>>)
    [] OTHER -> FactHolds(d.says, d.m, x)
=============================================================================
