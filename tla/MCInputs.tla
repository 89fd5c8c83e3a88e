------------------------------ MODULE MCInputs ------------------------------
(***************************************************************************)
(* The inputs of MCAlgorithms: types and values for Printing, matchers of  *)
(* each class of Matchers with values of the types they are for, statements*)
(* for Clauses, objects for MockRegistry and expressions for Actions.      *)
(***************************************************************************)
EXTENDS Printing, Matchers, Clauses, MockRegistry, Actions

(* Types and values of Printing. *)
(* Two places with one text and one number, and a third. *)
MCTextAt == <<"1", "1", "a">>
MCNumberAt == <<1, 1, 2>>

Plain(kind) == [kind |-> kind]
TypeOf(kind, type) == [kind |-> kind, of |-> type]
TypeOfTypes(kind, types) == [kind |-> kind, types |-> types]

Run1(n) == [i \in 1 .. n |-> 1]
Changed(seq) == {seq} \cup {[seq EXCEPT ![i] = 2] : i \in DOMAIN seq}
Lists(values) == UNION {[1 .. n -> values] : n \in 0 .. 2}

PlainValues(kind) ==
  CASE kind = "int" -> {0, 1, 11, -1}
    [] kind = "bool" -> BOOLEAN
    [] kind = "string" -> {"", "1", "NULL", "1, 1", "nullopt"}
    [] kind \in {"pointer", "cstring"} -> 0 .. 3
    [] kind = "reference" -> 1 .. 3

Vector(kind) == <<TypeOf("vector", Plain(kind)), Lists(PlainValues(kind))>>
Tuple(kinds, values) ==
  <<TypeOfTypes("tuple", [i \in DOMAIN kinds |-> Plain(kinds[i])]), values>>

(* Each type with values of it. *)
Samples ==
  {<<Plain(kind), PlainValues(kind)>> :
      kind \in {"int", "bool", "string", "pointer", "cstring"}}
  \cup {Vector(kind) : kind \in {"int", "string", "cstring"}}
  \cup {<<TypeOf("vector", Plain("int")),
          UNION {Changed(Run1(n)) : n \in 31 .. 34}>>,
        <<TypeOf("vector", TypeOf("vector", Plain("int"))), Lists(Lists({1, 2}))>>,
        <<TypeOf("vector", TypeOfTypes("tuple", << >>)), Lists({<< >>})>>,
        Tuple(<<"int", "string">>, PlainValues("int") \X PlainValues("string")),
        Tuple(<<"reference", "cstring">>, (1 .. 3) \X (0 .. 3)),
        <<TypeOf("optional", TypeOf("optional", Plain("int"))), {<< >>, <<<< >>>>, <<<<1>>>>}>>,
        <<TypeOf("optional", TypeOfTypes("tuple", << >>)), {<< >>, <<<< >>>>}>>,
        <<TypeOfTypes("variant", <<Plain("int"), Plain("string")>>),
          {<<1, 1>>, <<1, 2>>, <<2, "1">>}>>}
  \cup {<<TypeOf("array", Plain("int")), {1, 2} \X Changed(Run1(n))>> :
           n \in {1, 2, 17, 18, 19, 20}}
  \cup {<<TypeOf("array", TypeOf("array", Plain("int"))),
          {<<1, <<<<1, <<a, b>>>>, <<2, <<b, a>>>>>>>> : a, b \in {1, 2}}>>}

PrintInputs ==
  UNION {{<<s[1], s[1]>>} \X s[2] \X s[2] : s \in Samples}
  \cup {<<Plain("cstring"), Plain("string")>>} \X (0 .. 3) \X PlainValues("string")

-----------------------------------------------------------------------------
(* Matchers, one inside the other. *)
UpTo(n, S) == UNION {[1 .. k -> S] : k \in 0 .. n}

Operators == {"eq", "ne", "lt", "gt", "le", "ge"}
Comparisons(S) == {Comparison(op, n) : op \in Operators, n \in S}
PairComparisons == {AllArgs(PairComparison(op)) : op \in Operators}

Basic == Comparisons({0, 1}) \cup {A, Truly({0, 2})}
Few == {Comparison(op, 1) : op \in {"eq", "ne", "ge"}} \cup {Truly({0, 2})}
Combined == {AllOf(<<m1, m2>>) : m1, m2 \in Few} \cup {AnyOf(<<m1, m2>>) : m1, m2 \in Few}
Negated(S) == S \cup {Not(m) : m \in S}
IntMatchers ==
  Negated(Basic \cup Combined \cup {AllOfArray(<< >>), AnyOfArray(<< >>)})
    \cup {ResultOfCall(0 :> 2 @@ 1 :> 0 @@ 2 :> 1, m) : m \in Few}

TupleMatchers == PairComparisons \cup {Key(m) : m \in Few \cup Combined}
                   \cup {Pair(m1, m2) : m1, m2 \in Few}

Pointers == UpTo(1, 0 .. 2)
PointerMatchers == {IsNull, NotNull} \cup {Pointee(m) : m \in Few \cup Combined}
                     \cup {Optional(m) : m \in Few \cup Combined}

ObjectTypes == {"Base", "Derived"}
Objects == [type : ObjectTypes, value : 0 .. 2]
ObjectMatchers ==
  {FieldIs("value", m) : m \in Few} \cup {PropertyIs("value", m) : m \in Combined}
    \cup {WhenDynamicCastTo("Derived", m) :
            m \in {IsNull, NotNull, Pointee(Truly([type : ObjectTypes, value : {1}]))}}
AnyMatchers == {VariantWith("Derived", m) : m \in Few \cup Combined}
                 \cup {AnyWith("Derived", m) : m \in Few \cup Combined}

Text == UpTo(2, {0, 65, 97, 98})
StringMatchers ==
  {StrEquality(str, expect_eq, case_sensitive) :
     str \in Text, expect_eq \in BOOLEAN, case_sensitive \in BOOLEAN}
    \cup {SubstringMatcher(c, str) : c \in {"HasSubstr", "StartsWith", "EndsWith"}, str \in Text}
Strings == {<< >>} \cup {<<s>> : s \in UpTo(3, {0, 65, 97, 98})}

(* A matcher of an expression that is not valid has reported its failure.  *)
Valid == {r \in UpTo(3, {"a", ".", "*", "^", "$"}) : ValidateRegex(r)}
RegexMatchers == {MatchesRegex(r) : r \in Valid} \cup {ContainsRegex(r) : r \in Valid}

Errors == {-1, 0, 1}
Floats == UpTo(1, 0 .. 3)
FloatMatchers == {FloatingEq(rhs, nan_eq_nan, max_abs_error) :
                    rhs \in Floats, nan_eq_nan \in BOOLEAN, max_abs_error \in Errors}
FloatPairMatchers == {FloatingEq2(nan_eq_nan, max_abs_error) :
                        nan_eq_nan \in BOOLEAN, max_abs_error \in Errors}

ListMatchers ==
  {ContainsElement(m) : m \in Basic} \cup {Each(m) : m \in Basic}
    \cup {SizeIs(m) : m \in Basic} \cup {BeginEndDistanceIs(m) : m \in Basic}
    \cup {ElementsAre(ms) : ms \in UpTo(2, Few)}
    \cup {UnorderedElementsAre(ms) : ms \in UpTo(3, Few)}
    \cup {IsSupersetOf(ms) : ms \in UpTo(3, Few)} \cup {IsSubsetOf(ms) : ms \in UpTo(3, Few)}
    \cup {PointwiseOf(m, s) : m \in PairComparisons, s \in UpTo(2, {0, 1})}
    \cup {UnorderedPointwise(m, s) : m \in PairComparisons, s \in UpTo(2, {0, 1})}
    \cup {ContainerEq(s) : s \in UpTo(2, 0 .. 2)}
ContainerMatchers ==
  Negated(ListMatchers) \cup {WhenSorted(ElementsAreArray(ms)) : ms \in UpTo(2, Few)}
    \cup {WhenSortedBy("gt", ElementsAreArray(ms)) : ms \in UpTo(2, Few)}

MatcherInputs ==
  (IntMatchers \X (0 .. 2))
    \cup ((TupleMatchers \cup {ArgsAt(<<2, 1>>, m) : m \in TupleMatchers})
             \X ((0 .. 2) \X (0 .. 2)))
    \cup ({Ref(object) : object \in {"x", "y"}} \X [object : {"x", "y"}, value : {0}])
    \cup (PointerMatchers \X Pointers)
    \cup (ObjectMatchers \X UpTo(1, Objects))
    \cup (AnyMatchers \X Objects)
    \cup (StringMatchers \X Strings)
    \cup (RegexMatchers \X ({<< >>} \cup {<<s>> : s \in UpTo(2, {"a", "b"})}))
    \cup (FloatMatchers \X Floats)
    \cup (FloatPairMatchers \X (Floats \X Floats))
    \cup (ContainerMatchers \X UpTo(3, 0 .. 2))

-----------------------------------------------------------------------------
(* Statements of Clauses, objects of MockRegistry, courses of Actions. *)
Named(name) == [name |-> name]
TimesClause(cardinality) == [name |-> "Times", cardinality |-> cardinality]

ClauseSamples ==
  {Named(name) : name \in ToSet(ClauseOrder) \ {"none", "Times"}}
    \cup {TimesClause(c) : c \in {Exactly(0), Exactly(2), AtLeast(2), AtMost(1),
                            Between(1, 3), Between(2, 1), Exactly(-1)}}

ExpectCallInputs(length) == UNION {[1 .. n -> ClauseSamples] : n \in 0 .. length}

OnCallInputs ==
  UNION {[1 .. n -> {Named("With")}
                      \cup [name : {"WillByDefault"}, action : {"Return", "DoDefault"}]] :
           n \in 0 .. 3}

(* Tests of statements with their scopes well nested. *)
Statements ==
  {Named("open"), Named("close")}
    \cup [name : {"expect"}, sequences : {<< >>, <<<<"s">>>>, <<<<"s">>, <<"s">>>>,
                                         <<<<"s">>, <<"r">>>>}]

OrderInputs(length) ==
  {ops \in UNION {[1 .. n -> Statements] : n \in 0 .. length} :
     \A i \in DOMAIN ops : Depth(ops, i) >= 0}

(* Objects at two addresses, the first with two methods, and statements.   *)
MCMockable ==
  [at : {1}, kind : {"plain", "NiceMock", "StrictMock"}, methods : {{"f", "g"}}]
    \cup [at : {2}, kind : {"NaggyMock"}, methods : {{"f"}}]

MCMockUse ==
  {[at |-> 1, method |-> "f", line |-> "line 1"], [at |-> 1, method |-> "g", line |-> "line 2"],
   [at |-> 2, method |-> "f", line |-> "line 3"]}

(* Expressions of actions, for functions of an integer and a pointer.      *)
Kind(kind) == [kind |-> kind]
FromVariable(kind) == [kind |-> kind, from |-> 1]

Answering ==
  {FromVariable(kind) : kind \in {"Return", "ReturnByMove", "ReturnRefOfCopy", "ReturnNew",
                                  "InvokeArgument", "ACTION_P", "Throw"}}
    \cup {Kind(kind) : kind \in {"ReturnNull", "Invoke", "InvokeWithoutArgs"}}
    \cup {[kind |-> "ReturnRef", at |-> 1], [kind |-> "ReturnPointee", at |-> 1],
          [kind |-> "ReturnPointee", at |-> 2], [kind |-> "ReturnArg", k |-> 1],
          [kind |-> "SetErrnoAndReturn", from |-> 1, errno |-> 2]}

Ignoring(inner) == [kind |-> "IgnoreResult", inner |-> inner]
Selecting(ks, inner) == [kind |-> "WithArgs", ks |-> ks, inner |-> inner]
All(parts) == [kind |-> "DoAll", parts |-> parts]

Acting ==
  {[kind |-> "SaveArg", k |-> 1, at |-> 1], [kind |-> "SaveArgPointee", k |-> 2, at |-> 1],
   [kind |-> "SetArgPointee", k |-> 2, from |-> 1],
   [kind |-> "Assign", at |-> 2, from |-> 1],
   [kind |-> "SetArrayArgument", k |-> 2, first |-> 3, last |-> 5],
   [kind |-> "SetArrayArgument", k |-> 2, first |-> 1, last |-> 3],
   [kind |-> "DeleteArg", k |-> 2], Kind("DoDefault"),
   Ignoring(Kind("Invoke")), Ignoring(FromVariable("ReturnByMove")),
   Ignoring([kind |-> "SetErrnoAndReturn", from |-> 1, errno |-> 2]),
   Selecting(<<2, 1>>, [kind |-> "SaveArg", k |-> 2, at |-> 1])}

Recipes ==
  Answering \cup (Acting \ {Kind("DoDefault")})
    \cup {Selecting(<<2, 1>>, Kind("Invoke")), Selecting(<< >>, Kind("Invoke")),
          All(<<Ignoring(Kind("Invoke")), All(<<[kind |-> "SaveArg", k |-> 1, at |-> 1],
                [kind |-> "ReturnPointee", at |-> 1]>>)>>)}
    \cup {All(<<e, a>>) : e \in Acting \ {Ignoring(FromVariable("ReturnByMove"))}, a \in Answering}
    \cup {All(<<e, f>>) : e \in Acting \ {Ignoring(FromVariable("ReturnByMove"))}, f \in Acting}

Converts(ops) == Cardinality({i \in DOMAIN ops : ops[i].name = "convert"})

(* Calls are made of handles there are, with a pointer to cell 2 or 3.     *)
Courses(length) ==
  LET Step == {Named("convert"), [name |-> "assign", at |-> 1, value |-> 11],
               [name |-> "write through", value |-> 12]}
                \cup [name : {"perform"}, handle : {1, 2}, args : {<<5, 2>>, <<5, 3>>}]
  IN  {ops \in UNION {[1 .. n -> Step] : n \in 1 .. length} :
         \A i \in DOMAIN ops : ops[i].name = "perform" =>
           ops[i].handle <= Converts(SubSeq(ops, 1, i))}

Cells == <<10, 20, 30, 40>>

DefaultCourses(length) ==
  UNION {[1 .. n -> [name : {"ON_CALL"}, matcher : {{5}, {5, 6}}, value : {1, 2}]
                     \cup [name : {"Set"}, value : {3, 4}]
                     \cup {Named("Clear"), Named("VerifyAndClear")}] : n \in 0 .. length}

(* Tests of views of an array with two elements of a width.                *)
ArrayOf(width) == IF width = 1 THEN <<1, 2>> ELSE <<1, 2, 1, 3>>
ViewOps(width) ==
  [name : {"ConstReference", "Copy"}, array : {1}, size : {1, 2}]
    \cup [name : {"ConstReference", "Copy"}, array : {1 + width}, size : {1}]
    \cup [name : {"clone"}, view : 1 .. 2] \cup [name : {"destroy"}, view : 1 .. 3]
    \cup [name : {"write"}, at : {1, 2 * width}, value : {2}]
ViewInputs(length) ==
  UNION {{width} \X {ops \in UNION {[1 .. n -> ViewOps(width)] : n \in 0 .. length} :
                       IsLegal(ops)} : width \in {1, 2}}
=============================================================================
