---------------------------- MODULE SimpleRegexes ----------------------------
(***************************************************************************)
(* The regular expressions of death tests where there is no POSIX library, *)
(* as on Windows (gtest-port.cc, GTEST_USES_SIMPLE_RE).  Expressions and   *)
(* texts are sequences of characters; a pointer into one is an index.  Two *)
(* characters that TLA+ has no way to write go by their names.             *)
(***************************************************************************)
EXTENDS Naturals, Sequences, FiniteSets

Repeats == {"?", "*", "+"}
AsciiPunct ==
  {"^", "-", "!", "\"", "#", "$", "%", "&", "'", "(", ")", "*", "+", ",", ".", "/", ":",
   ";", "<", "=", ">", "?", "@", "[", "\\", "]", "_", "backquote", "{", "|", "}", "~"}
AsciiDigits == {"0", "1", "2", "3", "4", "5", "6", "7", "8", "9"}
AsciiWhiteSpace == {" ", "\f", "\n", "\r", "\t", "vertical tab"}
AsciiWordChars ==
  {"a", "b", "c", "d", "e", "f", "g", "h", "i", "j", "k", "l", "m", "n", "o", "p", "q", "r",
   "s", "t", "u", "v", "w", "x", "y", "z", "A", "B", "C", "D", "E", "F", "G", "H", "I", "J",
   "K", "L", "M", "N", "O", "P", "Q", "R", "S", "T", "U", "V", "W", "X", "Y", "Z", "_"}
  \cup AsciiDigits

EscapedClass(p) ==
  CASE p = "d" -> AsciiDigits
    [] p = "s" -> AsciiWhiteSpace
    [] p = "w" -> AsciiWordChars
    [] p = "f" -> {"\f"}
    [] p = "n" -> {"\n"}
    [] p = "r" -> {"\r"}
    [] p = "t" -> {"\t"}
    [] p = "v" -> {"vertical tab"}
    [] OTHER -> {p} \cap AsciiPunct

AtomMatchesChar(escaped, p, ch) ==
  IF ~escaped THEN (p = "." /\ ch # "\n") \/ p = ch
  ELSE CASE p = "D" -> ch \notin AsciiDigits
         [] p = "S" -> ch \notin AsciiWhiteSpace
         [] p = "W" -> ch \notin AsciiWordChars
         [] OTHER -> ch \in EscapedClass(p)

IsValidEscape(ch) ==
  ch \in AsciiPunct \cup {"d", "D", "f", "n", "r", "s", "S", "t", "v", "w", "W"}

Unsupported == {"(", ")", "[", "]", "{", "}", "|"}

(* Valid from i on; prev_repeatable: what precedes it can be repeated.     *)
ValidFrom(regex, valid, i, prev_repeatable) ==
  LET n == Len(regex)
  IN  IF i > n THEN TRUE
      ELSE IF regex[i] = "\\"
        THEN i < n /\ IsValidEscape(regex[i + 1]) /\ valid[i + 2][TRUE]
      ELSE /\ regex[i] = "^" => i = 1
           /\ regex[i] = "$" => i = n
           /\ regex[i] \notin Unsupported
           /\ regex[i] \in Repeats => prev_repeatable
           /\ valid[i + 1][regex[i] \notin {"^", "$"} \cup Repeats]

ValidateRegex(regex) ==
  LET valid[i \in 1 .. Len(regex) + 1] ==
        [prev_repeatable \in BOOLEAN |-> ValidFrom(regex, valid, i, prev_repeatable)]
  IN  valid[1][FALSE]

(* Mutant: a plus takes no character, too. *)
MinCountStar(repeat) == 0

MinCount(repeat) == IF repeat = "+" THEN 1 ELSE 0
MaxCount(repeat, length) == IF repeat = "?" THEN 1 ELSE length

(* The rest of the expression, from i, matches at the head of the rest of  *)
(* the text, from j; a repetition tries each count that its atom matches.  *)
MatchesFrom(regex, str, matches, i, j) ==
  LET n == Len(regex)
      length == Len(str)
  IN  IF i > n THEN TRUE
      ELSE IF regex[i] = "$" THEN j > length
      ELSE LET escaped == regex[i] = "\\"
               a == IF escaped THEN i + 1 ELSE i
               matched(k) == AtomMatchesChar(escaped, regex[a], str[k])
           IN  IF a < n /\ regex[a + 1] \in Repeats
                 THEN \E count \in MinCount(regex[a + 1]) .. MaxCount(regex[a + 1], length) :
                        /\ j + count <= length + 1
                        /\ \A k \in j .. j + count - 1 : matched(k)
                        /\ matches[a + 2][j + count]
                 ELSE j <= length /\ matched(j) /\ matches[a + 1][j + 1]

MatchRegexAtHead(regex, first, str, from) ==
  LET matches[i \in 1 .. Len(regex) + 2] ==
        [j \in 1 .. Len(str) + 1 |-> MatchesFrom(regex, str, matches, i, j)]
  IN  matches[first][from]

MatchRegexAnywhere(regex, str) ==
  IF regex # << >> /\ Head(regex) = "^" THEN MatchRegexAtHead(regex, 2, str, 1)
  ELSE \E from \in 1 .. Len(str) + 1 : MatchRegexAtHead(regex, 1, str, from)

(* The expression between a ^ and a $, if they are not there.              *)
FullPattern(regex) ==
  LET n == Len(regex)
      front == IF n > 0 /\ regex[1] = "^" THEN << >> ELSE <<"^">>
      back == IF n > 0 /\ regex[n] = "$" THEN << >> ELSE <<"$">>
  IN  front \o regex \o back

(* The object that Init makes of an expression; one that is not valid has  *)
(* reported its failure, and has no full pattern.                          *)
RE(regex) ==
  [pattern_ |-> regex, is_valid_ |-> ValidateRegex(regex),
   full_pattern_ |-> IF ValidateRegex(regex) THEN FullPattern(regex) ELSE << >>]

FullMatch(str, re) == re.is_valid_ /\ MatchRegexAnywhere(re.full_pattern_, str)

PartialMatch(str, re) == re.is_valid_ /\ MatchRegexAnywhere(re.pattern_, str)

-----------------------------------------------------------------------------
(* The meaning of an expression: its atoms with how often they may occur.  *)
AtomsFrom(regex, atoms, i) ==
  LET n == Len(regex)
  IN  IF i > n THEN << >>
      ELSE IF regex[i] \in {"^", "$"} THEN atoms[i + 1]
      ELSE LET a == IF regex[i] = "\\" THEN i + 1 ELSE i
               repeat == IF a < n /\ regex[a + 1] \in Repeats THEN regex[a + 1] ELSE "once"
               next == IF repeat = "once" THEN a + 1 ELSE a + 2
           IN  <<[escaped |-> regex[i] = "\\", ch |-> regex[a], repeat |-> repeat]>> \o atoms[next]

Atoms(regex) ==
  LET atoms[i \in 1 .. Len(regex) + 2] == AtomsFrom(regex, atoms, i)
  IN  atoms[1]

Times(repeat, count) ==
  CASE repeat = "once" -> count = 1 [] repeat = "?" -> count \in 0 .. 1
    [] repeat = "+" -> count >= 1 [] repeat = "*" -> TRUE

(* The text between from and to is a word of the atoms: it can be cut into *)
(* a piece for each.                                                       *)
IsPiece(atom, str, from, to) ==
  /\ from <= to
  /\ Times(atom.repeat, to - from)
  /\ \A k \in from + 1 .. to : AtomMatchesChar(atom.escaped, atom.ch, str[k])

AreWord(atoms, str, from, to) ==
  \E cut \in [0 .. Len(atoms) -> from .. to] :
    /\ cut[0] = from /\ cut[Len(atoms)] = to
    /\ \A i \in DOMAIN atoms : IsPiece(atoms[i], str, cut[i - 1], cut[i])

IsWord(regex, str, from, to) == AreWord(Atoms(regex), str, from, to)

(* A $ at the end that no backslash escapes. *)
BackslashesBefore(regex, i) ==
  {k \in 1 .. i - 1 : \A l \in k .. i - 1 : regex[l] = "\\"}

EndsInDollar(regex) ==
  LET n == Len(regex)
  IN  n > 0 /\ regex[n] = "$" /\ Cardinality(BackslashesBefore(regex, n)) % 2 = 0

IsFound(regex, str) ==
  \E from \in 0 .. Len(str), to \in 0 .. Len(str) :
    /\ from <= to /\ IsWord(regex, str, from, to)
    /\ (regex # << >> /\ regex[1] = "^") => from = 0
    /\ EndsInDollar(regex) => to = Len(str)
=============================================================================
