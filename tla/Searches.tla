------------------------------ MODULE Searches -------------------------------
(***************************************************************************)
(* What a test program finds with its patterns: the tests that             *)
(* --gtest_filter selects (gtest.cc), and the texts in which the regular   *)
(* expressions of its death tests occur.                                   *)
(***************************************************************************)
EXTENDS SimpleRegexes, FiniteSetsExt

CONSTANTS
  Character,      \* that texts are made of
  FilterTexts,    \* values of --gtest_filter
  FullNames,      \* of tests
  Expressions,    \* of death tests
  SearchedTexts   \* what the children wrote

ASSUME TextsHaveCharacters ==
  /\ AsciiPunct \subseteq Character
  /\ FilterTexts \cup FullNames \cup Expressions \cup SearchedTexts \subseteq Seq(Character)

VARIABLES
  gtest_filter,   \* the flag
  re,             \* the RE object, once it is constructed
  answer          \* of the last call

search_vars == <<gtest_filter, re, answer>>

-----------------------------------------------------------------------------
(* The rest of the pattern, from i to the next colon, matches the rest of  *)
(* the string, from j: a row for i, made from the next one.                *)
PatternMatchesFrom(pattern, str, row, next, i, j) ==
  IF i > Len(pattern) \/ pattern[i] = ":" THEN j > Len(str)
  ELSE IF pattern[i] = "*" THEN (j <= Len(str) /\ row[j + 1]) \/ next[j]
  ELSE j <= Len(str) /\ pattern[i] \in {"?", str[j]} /\ next[j + 1]

MatchesRow(pattern, str, next, i) ==
  LET row[j \in 1 .. Len(str) + 1] == PatternMatchesFrom(pattern, str, row, next, i, j)
  IN  row

PatternMatchesString(pattern, first, str) ==
  LET matches[i \in 1 .. Len(pattern) + 1] == MatchesRow(pattern, str, matches[i + 1], i)
  IN  matches[first][1]

(* A pattern begins with the filter, and behind every colon.               *)
MatchesFilter(name, filter) ==
  \E first \in {1} \cup {i + 1 : i \in {k \in DOMAIN filter : filter[k] = ":"}} :
    PatternMatchesString(filter, first, name)

(* The positive part ends at the first dash; if it is empty, it is "*".    *)
BeforeDash(filter) ==
  SubSeq(filter, 1, Min({i \in DOMAIN filter : filter[i] = "-"}
                          \cup {Len(filter) + 1}) - 1)
Positive(filter) ==
  IF BeforeDash(filter) = << >> /\ filter # << >> THEN <<"*">> ELSE BeforeDash(filter)
Negative(filter) == SubSeq(filter, Len(BeforeDash(filter)) + 2, Len(filter))

FilterMatchesTest(name, filter) ==
  MatchesFilter(name, Positive(filter)) /\ ~MatchesFilter(name, Negative(filter))

-----------------------------------------------------------------------------
NotConstructed == [pattern_ |-> << >>, is_valid_ |-> FALSE, full_pattern_ |-> << >>]
NoAnswer == [call |-> "none", text |-> << >>, says |-> FALSE]

SearchInit ==
  /\ gtest_filter \in FilterTexts
  /\ re = NotConstructed
  /\ answer = NoAnswer

Replies(call, text, says) ==
  /\ answer' = [call |-> call, text |-> text, says |-> says]
  /\ UNCHANGED <<gtest_filter, re>>

AskFilter(name) ==
  Replies("FilterMatchesTest", name, FilterMatchesTest(name, gtest_filter))

Construct(regex) ==
  /\ re = NotConstructed
  /\ re' = RE(regex)
  /\ UNCHANGED <<gtest_filter, answer>>

AskFullMatch(text) ==
  /\ re # NotConstructed
  /\ Replies("FullMatch", text, FullMatch(text, re))

AskPartialMatch(text) ==
  /\ re # NotConstructed
  /\ Replies("PartialMatch", text, PartialMatch(text, re))

SearchNext ==
  \/ \E name \in FullNames : AskFilter(name)
  \/ \E regex \in Expressions : Construct(regex)
  \/ \E text \in SearchedTexts : AskFullMatch(text) \/ AskPartialMatch(text)

SearchSpec == SearchInit /\ [][SearchNext]_search_vars

-----------------------------------------------------------------------------
(* The patterns of a filter are what is between its colons, an empty filter*)
(* being one empty pattern.  A pattern stands for a name if the name can be*)
(* cut into pieces that stand for its characters (docs/advanced.md).       *)
Patterns(filter) ==
  LET ends == {0, Len(filter) + 1} \cup {i \in DOMAIN filter : filter[i] = ":"}
      adjacent == {p \in ends \X ends :
                     p[1] < p[2] /\ \A k \in ends : k <= p[1] \/ k >= p[2]}
  IN  {SubSeq(filter, p[1] + 1, p[2] - 1) : p \in adjacent}

IsPieceFor(ch, str, from, to) ==
  IF ch = "*" THEN from <= to
  ELSE to = from + 1 /\ (ch = "?" \/ ch = str[to])

StandsFor(pattern, str) ==
  \E cut \in [0 .. Len(pattern) -> 0 .. Len(str)] :
    /\ cut[0] = 0 /\ cut[Len(pattern)] = Len(str)
    /\ \A i \in DOMAIN pattern : IsPieceFor(pattern[i], str, cut[i - 1], cut[i])

Selects(filter, name) == \E pattern \in Patterns(filter) : StandsFor(pattern, name)

(* Both languages of patterns mean what they say.  A filter selects a test *)
(* iff its name can be cut into pieces that stand for a positive pattern,  *)
(* and not for a negative one.  An expression that is valid is found in a  *)
(* text iff a part of the text is one of its words, and matches the text   *)
(* in full iff all of it is.  FullPattern takes an escaped dollar at the   *)
(* end for an anchor; what it then matches is not claimed.                 *)
EscapedDollarAtEnd(regex) ==
  regex # << >> /\ regex[Len(regex)] = "$" /\ ~EndsInDollar(regex)

PatternsFindTheirWords ==
  /\ answer.call = "FilterMatchesTest" =>
       (answer.says <=> /\ Selects(Positive(gtest_filter), answer.text)
                        /\ ~Selects(Negative(gtest_filter), answer.text))
  /\ answer.call = "PartialMatch" /\ re.is_valid_ =>
       (answer.says <=> IsFound(re.pattern_, answer.text))
  /\ answer.call = "FullMatch" /\ re.is_valid_ /\ ~EscapedDollarAtEnd(re.pattern_) =>
       (answer.says <=> IsWord(re.pattern_, answer.text, 0, Len(answer.text)))
=============================================================================
