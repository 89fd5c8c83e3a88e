----------------------------- MODULE BoxingKata -----------------------------
(***************************************************************************)
(* The entry point Boxing::Kata.report (boxing_kata.rb:9-25): one family,  *)
(* one scheduler, one load, one request for starter boxes and one for      *)
(* refills.  An exception of any of them ends the program.                 *)
(***************************************************************************)
EXTENDS BoxScheduler

CONSTANTS
  starWarsFamily,   \* the Family object of the report
  Terminal          \* standard input when it is not redirected

ASSUME StarWarsIsAFamily == starWarsFamily \in Family

ASSUME TerminalIsNoFile == Terminal \notin File /\ Nil \notin File

VARIABLES
  stage,            \* where report is
  stdin,            \* the file given as input, or Terminal
  fixture           \* spec/fixtures/family_preferences.csv, Nil if not readable

kataVars == <<vars, stage, stdin, fixture>>

KataInit ==
  /\ Init
  /\ stage = "start"
  /\ stdin \in File \cup {Terminal}
  /\ fixture \in File \cup {Nil}

Goto(from, to) == stage = from /\ stage' = to /\ UNCHANGED <<stdin, fixture>>

(* The usage message is printed or not; report goes on either way. *)
HasInputFile == Goto("start", "gets") /\ UNCHANGED vars

(* The line that was read is thrown away. *)
Gets == Goto("gets", "load") /\ UNCHANGED vars

LoadFixture ==
  \/ /\ fixture # Nil
     /\ LoadFamily(starWarsFamily, fixture)
     /\ Goto("load", "starter")
  \/ /\ fixture = Nil
     /\ LoadUnreadable(starWarsFamily)
     /\ Goto("load", "raised")

CallStarter == ShipStarterBox(starWarsFamily) /\ Goto("starter", "starter called")

CallRefill ==
  /\ answer # "raised"
  /\ ShipRefillBoxes(starWarsFamily)
  /\ Goto("starter called", "refill called")

Running == Continue /\ UNCHANGED <<stage, stdin, fixture>>

Finish ==
  /\ call = "none" /\ UNCHANGED vars
  /\ \/ answer # "raised" /\ Goto("refill called", "done")
     \/ answer = "raised" /\ \E s \in {"starter called", "refill called"} : Goto(s, "raised")

KataNext ==
  HasInputFile \/ Gets \/ LoadFixture \/ CallStarter \/ CallRefill \/ Running \/ Finish

KataSpec == KataInit /\ [][KataNext]_kataVars

(* The program runs on, but nobody has to type a line at a terminal. *)
KataFairSpec ==
  /\ KataSpec
  /\ WF_kataVars(KataNext /\ stage # "gets")
  /\ WF_kataVars(Gets /\ stdin # Terminal)

-----------------------------------------------------------------------------
(* The refusals of the scheduler are out of report's reach: whatever the
   fixture holds, a report that comes to its end ends with refills, and with
   one head for every member although the starter boxes counted the same
   preferences down before.                                                *)
ReportEndsWithRefills ==
  stage = "done" =>
    /\ answer = "refill boxes"
    /\ \A c \in Colour :
         Written(c) = HeadsIn(Colours(fixture), c)

(* With its input redirected, report ends: no gets, no loop holds it. *)
ReportEnds == stdin # Terminal => <>(stage \in {"done", "raised"})

=============================================================================
