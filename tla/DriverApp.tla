----------------------------- MODULE DriverApp ------------------------------
(***************************************************************************)
(* The program: main (main.cpp:5-12) makes one Driver, reads one input     *)
(* file into it with ReadFile (DriverApp.cpp:7-46) and exits.              *)
(*                                                                         *)
(* A text is modelled as its fields: a line, or the rest of one, is the    *)
(* sequence of strings between its spaces, so "Driver Dan Smith" is        *)
(* <<"Driver", "Dan", "Smith">>, "Driver " is <<"Driver", "">> and the     *)
(* empty line is <<"">>.  The content of the file is not fixed in advance: *)
(* each getline delivers any line, or the end of the file.                 *)
(***************************************************************************)
EXTENDS TripRules, Sequences

CONSTANTS
  Line,             \* the lines a file may contain
  Stod,             \* what stod returns for a field, in MilesUnit-ths
  NotANumber,       \* stod throws invalid_argument or out_of_range
  NoSpeed,          \* the "0 miles" line of a report gives no speed
  MaxLines          \* bounds the length of the file

ASSUME LineType ==
  /\ Line \subseteq Seq(Field)
  /\ << >> \notin Line
  /\ {"Driver", "Trip", ""} \subseteq Field

ASSUME StodType ==
  /\ NotANumber \notin Int
  /\ Stod \in [Field -> Int \cup {NotANumber}]
  /\ Stod["Trip"] = NotANumber

ASSUME MaxLinesType == MaxLines \in Nat

ASSUME NoSpeedIsNoSpeed == NoSpeed \notin Int /\ NoSpeed # IndeterminateInt

VARIABLES
  driverDatabase, result, report,   \* the Driver object
  driverName,       \* ReadFile's local: outlives the line that set it
  lines,            \* the lines read so far
  status            \* where the program is

driverVars == <<driverDatabase, result, report>>

vars == <<driverDatabase, result, report, driverName, lines, status>>

(* A text after the command word of a line; <<f>> if it has no space. *)
Rest(line) == SubSeq(line, 2, Len(line))

NoName == <<"">>

Name ==
  {<<f>> : f \in Field}
    \cup {Rest(line) : line \in {l \in Line : l[1] = "Driver" /\ Len(l) > 1}}

Distance == {Stod[f] : f \in Field} \ {NotANumber}

Trip == [startTime : Field, stopTime : Field, milesDriven : Distance]

Driver == INSTANCE DriverDatabase

TypeOK ==
  /\ Driver!TypeOK
  /\ driverName \in Name
  /\ lines \in Seq(Line)
  /\ Len(lines) <= MaxLines
  /\ status \in {"started", "reading", "read", "not opened", "exited", "terminated"}

Init ==
  /\ Driver!Init
  /\ driverName = NoName
  /\ lines = << >>
  /\ status = "started"

OpenFile ==
  /\ status = "started"
  /\ status' \in {"reading", "not opened"}
  /\ UNCHANGED <<driverVars, driverName, lines>>

NextLine(line) ==
  /\ status = "reading"
  /\ Len(lines) < MaxLines
  /\ lines' = Append(lines, line)

(***************************************************************************)
(* A getline on an exhausted line leaves its target as it was.  The target *)
(* of the command, of both times and of the distance is the one variable   *)
(* value; the target of the name is driverName.                            *)
(***************************************************************************)
NameAfterDriver(line) == IF Len(line) > 1 THEN Rest(line) ELSE driverName

(* Mutant: a Trip line does not set the name. *)
NameAfterTripKept(line) == driverName

NameAfterTrip(line) == IF Len(line) > 1 THEN <<line[2]>> ELSE driverName

StartTime(line) == IF Len(line) >= 3 THEN line[3] ELSE line[1]

StopTime(line) == IF Len(line) >= 4 THEN line[4] ELSE StartTime(line)

MilesText(line) == IF Len(line) >= 5 THEN line[5] ELSE StopTime(line)

DriverLine(line) ==
  /\ NextLine(line)
  /\ line[1] = "Driver"
  /\ driverName' = NameAfterDriver(line)
  /\ Driver!RegisterDriver(driverName')
  /\ UNCHANGED status

TripLine(line) ==
  /\ NextLine(line)
  /\ line[1] = "Trip"
  /\ driverName' = NameAfterTrip(line)
  /\ \/ /\ Stod[MilesText(line)] # NotANumber
        /\ Driver!AddTrip(driverName', [startTime   |-> StartTime(line),
                                        stopTime    |-> StopTime(line),
                                        milesDriven |-> Stod[MilesText(line)]])
        /\ UNCHANGED status
     \* nothing catches what stod throws
     \/ /\ Stod[MilesText(line)] = NotANumber
        /\ status' = "terminated"
        /\ UNCHANGED driverVars

InvalidLine(line) ==
  /\ NextLine(line)
  /\ line[1] \notin {"Driver", "Trip"}
  /\ UNCHANGED <<driverVars, driverName, status>>

(* The end of the file, or of what can be read of it: the report is printed. *)
EndOfFile ==
  /\ status = "reading"
  /\ Driver!GenerateReport
  /\ status' = "read"
  /\ UNCHANGED <<driverName, lines>>

(* main ignores what ReadFile returned, builds a report once more and exits 0. *)
Exit ==
  /\ status \in {"read", "not opened"}
  /\ Driver!GenerateReport
  /\ status' = "exited"
  /\ UNCHANGED <<driverName, lines>>

Next ==
  \/ OpenFile
  \/ \E line \in Line : DriverLine(line) \/ TripLine(line) \/ InvalidLine(line)
  \/ EndOfFile
  \/ Exit

Spec == Init /\ [][Next]_vars

(* Nothing can block a sequential program that reads a finite file. *)
FairSpec == Spec /\ WF_vars(Next)

-----------------------------------------------------------------------------
(***************************************************************************)
(* The documented meaning of a file (Problem Statement:6-16): line i names *)
(* a driver or gives one trip; a trip counts for its driver if a Driver    *)
(* line before it registered the name and its speed is admissible.         *)
(***************************************************************************)
Names(i, name) == lines[i][1] = "Driver" /\ Len(lines[i]) > 1 /\ Rest(lines[i]) = name

Complete(line) ==
  /\ line[1] = "Trip"
  /\ Len(line) = 5
  /\ Stod[line[5]] # NotANumber
  /\ ConvertTimeToMinutes(line[3]) < ConvertTimeToMinutes(line[4])

(* A Driver line without a name is an exception of LedgerCorrect, below. *)
WellFormed(line) == line[1] # "Trip" \/ Complete(line)

MinutesOf(i) == ConvertTimeToMinutes(lines[i][4]) - ConvertTimeToMinutes(lines[i][3])

MilesOf(i) == Stod[lines[i][5]]

(* Neither less than 5 nor greater than 100 mph, in tenths of a mile and
   minutes (Problem Statement:16).                                         *)
Admissible(i) ==
  50 * MinutesOf(i) <= 60 * MilesOf(i) /\ 60 * MilesOf(i) <= 1000 * MinutesOf(i)

AtALimit(i) == 60 * MilesOf(i) \in {50 * MinutesOf(i), 1000 * MinutesOf(i)}

TripOf(i, name) == lines[i][1] = "Trip" /\ Len(lines[i]) > 1 /\ <<lines[i][2]>> = name

Counted(name) ==
  {i \in DOMAIN lines :
     /\ Complete(lines[i])
     /\ <<lines[i][2]>> = name
     /\ Admissible(i)
     /\ \E j \in 1..(i - 1) : Names(j, name)}

(* The sum of a sequence of integers. *)
Total(amounts) ==
  LET sum[i \in 0..Len(amounts)] == IF i = 0 THEN 0 ELSE sum[i - 1] + amounts[i]
  IN  sum[Len(amounts)]

MilesCounted(name) ==
  Total([i \in DOMAIN lines |-> IF i \in Counted(name) THEN MilesOf(i) ELSE 0])

MinutesCounted(name) ==
  Total([i \in DOMAIN lines |-> IF i \in Counted(name) THEN MinutesOf(i) ELSE 0])

(* The lines whose effects the database holds: a line that made stod throw
   has none.                                                               *)
Processed == IF status = "terminated" THEN DOMAIN lines \ {Len(lines)} ELSE DOMAIN lines

(* A Driver line without a name meets one that no Driver line gave before
   it: the empty one the program starts with, or that of a Trip line.      *)
NameLeftOver(name) ==
  \E j \in DOMAIN lines :
    /\ lines[j] = <<"Driver">>
    /\ \A i \in 1..(j - 1) : ~ Names(i, name)
    /\ name = NoName \/ \E i \in 1..(j - 1) : TripOf(i, name)

OffTheLimits(name) ==
  \A i \in DOMAIN lines :
    Complete(lines[i]) /\ <<lines[i][2]>> = name => ~ AtALimit(i)

(***************************************************************************)
(* As long as no Trip line is cut, the database after every line, also     *)
(* when a later line then stops the program, holds exactly the drivers     *)
(* named so far and the sums of the trips that count: no trip before its   *)
(* driver, none twice, none lost to a second Driver line or to a Driver    *)
(* line without a name.                                                    *)
(* Two things are not claimed, because there the program departs from the  *)
(* problem statement: a Driver line without a name may enter a driver that *)
(* none names (DriverApp.cpp:16), and a trip at exactly 5 or 100 mph is    *)
(* discarded (DriverApp.cpp:135).  Nothing is said of such a driver, nor of*)
(* the sums of one who made such a trip.                                   *)
(***************************************************************************)
LedgerCorrect ==
  (\A i \in Processed : WellFormed(lines[i])) =>
    \A n \in Name :
      ~ NameLeftOver(n) =>
        /\ n \in Driver!Registered <=> \E i \in Processed : Names(i, n)
        /\ n \in Driver!Registered /\ OffTheLimits(n) =>
             /\ driverDatabase[n].totalMilesDriven = MilesCounted(n)
             /\ driverDatabase[n].totalTimeDriven = MinutesCounted(n)

(***************************************************************************)
(* A name that contains a space can be registered but never credited: the  *)
(* Driver command takes the rest of its line, the Trip command one field.  *)
(* It holds although driverName keeps such a name until the next line that *)
(* sets it, because a Trip line without a name has no distance either.     *)
(***************************************************************************)
SpacedNamesStayAtZero ==
  \A n \in Driver!Registered :
    Len(n) > 1 => driverDatabase[n].totalMilesDriven = 0
                    /\ driverDatabase[n].totalTimeDriven = 0

-----------------------------------------------------------------------------
(* DriverApp.cpp:29, "Get miles driven", and Problem Statement:12: the
   distance of a trip is its fifth field; nothing else adds to a total.    *)
MilesComeFromMilesField ==
  \A n \in Driver!Registered : driverDatabase[n].totalMilesDriven <= MilesCounted(n)
=============================================================================
