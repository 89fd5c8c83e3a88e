------------------------------ MODULE Printing ------------------------------
(***************************************************************************)
(* How googletest prints the values that an assertion compares             *)
(* (gtest-printers.h).  A type is a record, a value is data of that type:  *)
(*   int, bool, string    itself                                           *)
(*   pointer, cstring, reference (to int)    an address, 0 for nullptr     *)
(*   vector, tuple, pair  the sequence of elements                         *)
(*   array                its address and its elements                     *)
(*   optional             a sequence of at most one value                  *)
(*   variant              the alternative it holds and the value           *)
(* The strings have no character that PrintStringTo escapes; Encodings is  *)
(* about those.                                                            *)
(***************************************************************************)
EXTENDS Integers, Sequences, SequencesExt, TLC

CONSTANTS TextAt, NumberAt        \* the memory, by address

kMaxCount == 32                   \* of a container
kThreshold == 18                  \* of an array
kChunkSize == 8

Quoted(text) == "\"" \o text \o "\""
Address(p) == "0x" \o ToString(p)

Joined(texts, separator) ==
  FoldLeft(\o, "", [i \in DOMAIN texts |->
                      IF i = 1 THEN texts[i] ELSE separator \o texts[i]])

FirstOf(seq, n) == SubSeq(seq, 1, IF Len(seq) < n THEN Len(seq) ELSE n)

DefaultPrintContainer(items) ==
  IF items = << >> THEN "{}"
  ELSE "{ " \o Joined(FirstOf(items, kMaxCount), ", ")
         \o (IF Len(items) > kMaxCount THEN ", ..." ELSE "") \o " }"

DefaultPrintPointer(p) == IF p = 0 THEN "NULL" ELSE Address(p)

PrintCString(p) ==
  IF p = 0 THEN "NULL" ELSE Address(p) \o " pointing to " \o Quoted(TextAt[p])

UniversalPrintArray(items) ==
  LET n == Len(items)
  IN  IF n = 0 THEN "{}"
      ELSE IF n <= kThreshold THEN "{ " \o Joined(items, ", ") \o " }"
      ELSE "{ " \o Joined(SubSeq(items, 1, kChunkSize), ", ") \o ", ..., "
             \o Joined(SubSeq(items, n - kChunkSize + 1, n), ", ") \o " }"

PrintTuple(items) == "(" \o Joined(items, ", ") \o ")"

PrintOptional(items) == "(" \o (IF items = << >> THEN "nullopt" ELSE items[1]) \o ")"

PrintVariant(name, item) == "('" \o name \o "' with value " \o item \o ")"

PrintReference(p) == "@" \o Address(p) \o " " \o ToString(NumberAt[p])

(* UniversalPrinter: the PrintTo that the type picks. *)
RECURSIVE UniversalPrint(_, _)
UniversalPrint(type, value) ==
  LET All(seq) == [i \in DOMAIN seq |-> UniversalPrint(type.of, seq[i])]
  IN  CASE type.kind = "int" -> ToString(value)
        [] type.kind = "bool" -> IF value THEN "true" ELSE "false"
        [] type.kind = "string" -> Quoted(value)
        [] type.kind = "pointer" -> DefaultPrintPointer(value)
        [] type.kind = "cstring" -> PrintCString(value)
        [] type.kind = "reference" -> PrintReference(value)
        [] type.kind = "vector" -> DefaultPrintContainer(All(value))
        [] type.kind = "array" -> UniversalPrintArray(All(value[2]))
        [] type.kind = "tuple" ->
             PrintTuple([i \in DOMAIN value |-> UniversalPrint(type.types[i], value[i])])
        [] type.kind = "optional" -> PrintOptional(All(value))
        [] type.kind = "variant" ->
             PrintVariant(type.types[value[1]].kind,
                          UniversalPrint(type.types[value[1]], value[2]))

(* UniversalTersePrinter: no addresses at the top. *)
PrintToString(type, value) ==
  CASE type.kind = "cstring" /\ value # 0 -> Quoted(TextAt[value])
    [] type.kind = "reference" -> ToString(NumberAt[value])
    [] OTHER -> UniversalPrint(type, value)

(* An operand of a comparison, by the type of the other operand. *)
FormatForComparison(type, other, value) ==
  CASE type.kind = "array" -> DefaultPrintPointer(value[1])
    [] type.kind = "cstring" /\ other.kind # "string" -> DefaultPrintPointer(value)
    [] OTHER -> PrintToString(type, value)

-----------------------------------------------------------------------------
(* What == says of two operands: C strings are compared by address, unless *)
(* the other is a string, and arrays always are.                           *)
RECURSIVE Equal(_, _, _)
Equal(type, x, y) ==
  CASE type.kind = "reference" -> NumberAt[x] = NumberAt[y]
    [] type.kind \in {"vector", "optional"} ->
         Len(x) = Len(y) /\ \A i \in DOMAIN x : Equal(type.of, x[i], y[i])
    [] type.kind = "tuple" -> \A i \in DOMAIN x : Equal(type.types[i], x[i], y[i])
    [] type.kind = "variant" -> x[1] = y[1] /\ Equal(type.types[x[1]], x[2], y[2])
    [] type.kind = "array" -> x[1] = y[1]
    [] OTHER -> x = y

Compares(type, other, x, y) ==
  CASE type.kind = "cstring" /\ other.kind = "string" -> x # 0 /\ TextAt[x] = y
    [] type.kind = "string" /\ other.kind = "cstring" -> y # 0 /\ x = TextAt[y]
    [] OTHER -> Equal(type, x, y)

(* What a reader is promised to see of a value: everything, but of a       *)
(* container the first 32 elements, and of an array the first and last 8.  *)
RECURSIVE Seen(_, _)
Seen(type, value) ==
  LET All(seq) == [i \in DOMAIN seq |-> Seen(type.of, seq[i])]
      n == Len(value[2])
  IN  CASE type.kind = "vector" ->
             <<All(FirstOf(value, kMaxCount)), Len(value) > kMaxCount>>
        [] type.kind = "array" ->
             IF n <= kThreshold THEN All(value[2])
             ELSE All(SubSeq(value[2], 1, kChunkSize)
                        \o SubSeq(value[2], n - kChunkSize + 1, n))
        [] type.kind = "tuple" -> [i \in DOMAIN value |-> Seen(type.types[i], value[i])]
        [] type.kind = "optional" -> All(value)
        [] type.kind = "variant" -> <<value[1], Seen(type.types[value[1]], value[2])>>
        [] OTHER -> value

(* Nothing of it is left out. *)
RECURSIVE IsSeen(_, _)
IsSeen(type, value) ==
  CASE type.kind = "vector" ->
         Len(value) <= kMaxCount /\ \A i \in DOMAIN value : IsSeen(type.of, value[i])
    [] type.kind = "tuple" -> \A i \in DOMAIN value : IsSeen(type.types[i], value[i])
    [] type.kind = "optional" -> \A i \in DOMAIN value : IsSeen(type.of, value[i])
    [] type.kind = "variant" -> IsSeen(type.types[value[1]], value[2])
    [] OTHER -> TRUE
=============================================================================
