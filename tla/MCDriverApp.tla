---------------------------- MODULE MCDriverApp -----------------------------
(***************************************************************************)
(* DriverApp on the lines of the repository's examples and on the ways a   *)
(* line can be cut short.                                                  *)
(***************************************************************************)
EXTENDS DriverApp, TLC

MCField ==
  {"", "Driver", "Trip", "Dan", "Bob", "Smith", "06:12", "07:15", "07:45", "17.3", "50.0", "60.0"}

(* atoi and stod read the longest numeric prefix; atoi of none is 0. *)
MCHours ==
  [f \in MCField |-> CASE f = "06:12" -> 6 [] f \in {"07:15", "07:45"} -> 7
                       [] f = "17.3" -> 17 [] f = "50.0" -> 50
                       [] f = "60.0" -> 60 [] OTHER -> 0]

MCMinutes ==
  [f \in MCField |-> CASE f = "06:12" -> 12 [] f = "07:15" -> 15
                       [] f = "07:45" -> 45 [] OTHER -> 0]

MCStod ==
  [f \in MCField |-> CASE f = "06:12" -> 60 [] f \in {"07:15", "07:45"} -> 70
                       [] f = "17.3" -> 173 [] f = "50.0" -> 500 [] f = "60.0" -> 600
                       [] OTHER -> NotANumber]

(* Dan at 34.6 mph, Bob at 100, at 120 and at 57 mph. *)
MCCleanLines ==
  {<<"Driver", "Dan">>, <<"Driver", "Bob">>,
   <<"Trip", "Dan", "07:15", "07:45", "17.3">>,
   <<"Trip", "Bob", "07:15", "07:45", "50.0">>,
   <<"Trip", "Bob", "07:15", "07:45", "60.0">>,
   <<"Trip", "Bob", "06:12", "07:15", "60.0">>}

(* The ways a line can be cut short or have a field too many; the empty line. *)
MCRaggedLines ==
  {<<"Driver", "Dan", "Smith">>, <<"Driver", "">>, <<"Driver">>,
   <<"Trip", "Dan", "07:15", "07:45">>,
   <<"Trip", "Dan", "", "07:15", "07:45", "17.3">>,
   <<"Trip", "Dan">>, <<"Trip">>, <<"">>}

MCLines == MCCleanLines \cup MCRaggedLines
=============================================================================
