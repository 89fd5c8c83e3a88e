----------------------------- MODULE CommandLines -----------------------------
(***************************************************************************)
(* The flags of Google Test (gtest.cc:5650-6032, gtest-port.cc:1290-1366): *)
(* their defaults from the environment, the command line, and the file of  *)
(* flags it may name.  An argument is a record of the sign it starts with, *)
(* the name after gtest_ (or after the sign, if it is no such flag) and    *)
(* what follows "=", if anything does.  There is one flag of each kind.    *)
(* Then what the tests do to the flags, and the flags of Google Mock       *)
(* (gmock.cc), which it takes from what Google Test leaves.                *)
(***************************************************************************)
EXTENDS Integers, Sequences, SequencesExt

NoValue == "(none)"
Null == [sign |-> "null", prefix |-> "", name |-> "", value |-> NoValue]

BoolFlags == {"shuffle"}
IntFlags == {"repeat"}
StringFlags == {"filter"}

(* The values, what strtol makes of them (a long has 32 bits on Windows),  *)
(* and whether it consumes them.                                           *)
LONG_MAX == 2147483647
strtol(value) ==
  CASE value = "2" -> 2 [] value = "-1" -> -1
    [] value \in {"2147483647", "3000000000"} -> LONG_MAX
    [] OTHER -> 0
Consumed(value) == value \in {"", "0", "2", "-1", "2147483647", "3000000000"}

(* The value, or the old one: an invalid one leaves *value as it was.      *)
ParsesInt32(value) == Consumed(value) /\ strtol(value) # LONG_MAX

IsFalse(value) == value \in {"0", "false"}

-----------------------------------------------------------------------------
(* BoolFromGTestEnv, Int32FromGTestEnv, StringFromGTestEnv. *)
FromGTestEnv(env) ==
  [shuffle |-> env.shuffle \notin {NoValue, "0"},
   repeat |-> IF env.repeat # NoValue /\ ParsesInt32(env.repeat)
                THEN strtol(env.repeat) ELSE 1,
   filter |-> IF env.filter = NoValue THEN "*" ELSE env.filter]

IsFlag(arg) == arg.sign = "--" /\ arg.prefix = "gtest_"

(* ParseGoogleTestFlag: whether it is one of the flags, with a value that  *)
(* this flag takes.                                                        *)
ParsesFlag(arg) ==
  /\ IsFlag(arg)
  /\ \/ arg.name \in BoolFlags
     \/ arg.name \in IntFlags /\ arg.value # NoValue /\ ParsesInt32(arg.value)
     \/ arg.name \in StringFlags /\ arg.value # NoValue

SetFlag(flags, arg) ==
  CASE ~ParsesFlag(arg) -> flags
    [] arg.name = "shuffle" -> [flags EXCEPT !.shuffle = ~IsFalse(arg.value)]
    [] arg.name = "repeat" -> [flags EXCEPT !.repeat = strtol(arg.value)]
    [] arg.name = "filter" -> [flags EXCEPT !.filter = arg.value]

HasGoogleTestFlagPrefix(arg) ==
  arg.sign \in {"--", "-", "/"} /\ arg.prefix \in {"gtest_", "gtest-"}

IsHelp(arg) ==
  arg.prefix = "" /\ <<arg.sign, arg.name>> \in
    {<<"--", "help">>, <<"-", "h">>, <<"-", "?">>, <<"/", "?">>}

IsFlagfile(arg) == IsFlag(arg) /\ arg.name = "flagfile" /\ arg.value # NoValue

(* A file that cannot be opened ends the program; `files` has the others.  *)
LoadFlagsFromFile(state, lines) ==
  [state EXCEPT
     !.flags = FoldLeft(SetFlag, state.flags, lines),
     !.help = @ \/ \E l \in DOMAIN lines : ~ParsesFlag(lines[l])]

(* Mutant: the null pointer is not shifted. *)
RemoveArgumentOnly(state, i) ==
  [state EXCEPT
     !.argv = [j \in DOMAIN @ |-> IF j \in i .. state.argc - 1 THEN @[j + 1] ELSE @[j]],
     !.argc = @ - 1]

(* Shifts what follows argument i, the null pointer too, by one.           *)
RemoveArgument(state, i) ==
  [state EXCEPT
     !.argv = [j \in DOMAIN @ |-> IF j \in i .. state.argc THEN @[j + 1] ELSE @[j]],
     !.argc = @ - 1]

RECURSIVE ParseFrom(_, _, _)

(* The loop of ParseGoogleTestFlagsOnlyImpl from argument i (counted from  *)
(* 1, so that the program's name is the first).                            *)
ParseFrom(state, i, files) ==
  IF i > state.argc \/ state.exited THEN state
  ELSE LET arg == state.argv[i]
           parsed == [RemoveArgument(state, i) EXCEPT !.flags = SetFlag(@, arg)]
       IN  IF ParsesFlag(arg) THEN ParseFrom(parsed, i, files)
           ELSE IF IsFlagfile(arg)
             THEN IF arg.value \in DOMAIN files
                    THEN ParseFrom(LoadFlagsFromFile(RemoveArgument(state, i),
                                                     files[arg.value]), i, files)
                    ELSE [state EXCEPT !.exited = TRUE]
           ELSE ParseFrom([state EXCEPT !.help = @ \/ IsHelp(arg)
                                                  \/ HasGoogleTestFlagPrefix(arg)],
                          i + 1, files)

(* The first call of InitGoogleTestImpl, with flags that the environment   *)
(* has set; without any argument it returns at once.  Later calls return   *)
(* when they find g_argvs filled, and are not modelled.                    *)
InitGoogleTest(argv, env, files) ==
  ParseFrom([argv |-> Append(argv, Null), argc |-> Len(argv),
             flags |-> FromGTestEnv(env), help |-> FALSE, exited |-> FALSE],
            2, files)
-----------------------------------------------------------------------------
(* GTestFlagSaver, which each Test object has, saves the flags but those of*)
(* which show_internal_stack_frames is one here, and restores them when the*)
(* object is destroyed.                                                    *)
SavedFlags == {"shuffle", "filter"}
AllFlags == SavedFlags \cup {"show_internal_stack_frames"}

SaveFlags(flags) == [f \in SavedFlags |-> flags[f]]

RestoreFlags(flags, saver) ==
  [f \in DOMAIN flags |-> IF f \in SavedFlags THEN saver[f] ELSE flags[f]]

(* Steps that set flags, and those that make and destroy a Test. *)
FlagStep(s, step) ==
  CASE step[1] = "new Test" -> [s EXCEPT !.saver = SaveFlags(s.flags)]
    [] step[1] = "delete Test" -> [s EXCEPT !.flags = RestoreFlags(s.flags, s.saver)]
    [] step[1] = "set" -> [s EXCEPT !.flags[step[2]] = step[3]]

FlagsAfter(steps) ==
  FoldLeft(FlagStep, [flags |-> [f \in AllFlags |-> 0], saver |-> [f \in SavedFlags |-> 0]],
           steps)

-----------------------------------------------------------------------------
(* The flags of Google Mock.  That of an integer may be given without a    *)
(* value, which is then empty.                                             *)
MockFlagDefaults ==
  [catch_leaked_mocks |-> TRUE, verbose |-> "warning", default_mock_behavior |-> 1]

OptionalValue(arg) == IF arg.value = NoValue THEN "" ELSE arg.value

ParsesMockFlag(arg) ==
  /\ arg.sign = "--" /\ arg.prefix = "gmock_"
  /\ \/ arg.name = "catch_leaked_mocks"
     \/ arg.name = "verbose" /\ arg.value # NoValue
     \/ arg.name = "default_mock_behavior" /\ ParsesInt32(OptionalValue(arg))

SetMockFlag(mock, arg) ==
  CASE ~ParsesMockFlag(arg) -> mock
    [] arg.name = "catch_leaked_mocks" -> [mock EXCEPT !.catch_leaked_mocks = ~IsFalse(arg.value)]
    [] arg.name = "verbose" -> [mock EXCEPT !.verbose = arg.value]
    [] arg.name = "default_mock_behavior" ->
         [mock EXCEPT !.default_mock_behavior = strtol(OptionalValue(arg))]

RECURSIVE ParseMockFlags(_, _)

(* The loop of InitGoogleMockImpl. *)
ParseMockFlags(state, i) ==
  IF i > state.init.argc THEN state
  ELSE LET arg == state.init.argv[i]
       IN  IF ParsesMockFlag(arg)
           THEN ParseMockFlags([init |-> RemoveArgument(state.init, i),
                                mock |-> SetMockFlag(state.mock, arg)], i)
           ELSE ParseMockFlags(state, i + 1)

InitGoogleMock(argv, env, files) ==
  LET init == InitGoogleTest(argv, env, files)
      state == [init |-> init, mock |-> MockFlagDefaults]
  IN  IF init.exited THEN state ELSE ParseMockFlags(state, 2)
=============================================================================
