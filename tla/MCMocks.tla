------------------------------ MODULE MCMocks -------------------------------
(* Instances of Mocks for TLC. *)
EXTENDS Mocks

MCObjects == [first |-> <<"f", "g">>, second |-> <<"h">>]

Expect(mocker, arguments, times, once, repeatedly, retires, sequences, after) ==
  [mocker |-> mocker, arguments |-> arguments, times |-> times, once |-> once,
   repeatedly |-> repeatedly, retires |-> retires, sequences |-> sequences,
   after |-> after, owns |-> {}]

(* f(1) once or more with one WillOnce; then, in sequence, g(any) twice;   *)
(* after f(1), f(1 or 2) between 0 and 1 times that retires on saturation, *)
(* whose action owns the second mock; after these, f(2) exactly once; and  *)
(* h of the second mock once.                                              *)
MCDeclared ==
  <<Expect("f", {1}, None, 1, TRUE, FALSE, {"s"}, {}),
    Expect("g", {1, 2}, None, 2, FALSE, FALSE, {"s", "r"}, {}),
    [Expect("f", {1, 2}, <<0, 1>>, 1, FALSE, TRUE, {"r"}, {1})
       EXCEPT !.owns = {"second"}],
    Expect("f", {2}, None, 1, FALSE, FALSE, {}, {3}),
    Expect("h", {1}, None, 0, FALSE, FALSE, {}, {})>>

(* The second action of g verifies and clears the mock of the test. *)
MCClearing == {<<2, 2>>}

=============================================================================
