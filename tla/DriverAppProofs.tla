--------------------------- MODULE DriverAppProofs ---------------------------
(***************************************************************************)
(* Theorems about the program.  Each of its steps is a call of the Driver  *)
(* class or leaves the Driver object alone, so that what is proved of the  *)
(* class for any caller holds of the program; that the database is what    *)
(* the lines mean is proved line by line.                                  *)
(***************************************************************************)
EXTENDS DriverApp, Inductions, SequenceTheorems, TLAPS

DB == INSTANCE DriverDatabaseProofs

-----------------------------------------------------------------------------
(***************************************************************************)
(* The reader's own variables.                                             *)
(***************************************************************************)
ReaderTypeOK ==
  /\ driverName \in Name
  /\ lines \in Seq(Line)
  /\ Len(lines) <= MaxLines
  /\ status \in {"started", "reading", "read", "not opened", "exited", "terminated"}

(* Whatever a line lacks, the reader hands on fields of the line itself. *)
LEMMA PartsOfLine ==
  ASSUME NEW line \in Line, driverName \in Name
  PROVE  /\ line[1] = "Driver" => NameAfterDriver(line) \in Name
         /\ NameAfterTrip(line) \in Name
         /\ StartTime(line) \in Field
         /\ StopTime(line) \in Field
         /\ MilesText(line) \in Field
<1>1. line \in Seq(Field) /\ Len(line) \in Nat \ {0}
  BY LineType, EmptySeq
<1>2. \A i \in 1..Len(line) : line[i] \in Field
  BY <1>1, ElementOfSeq
<1>3. StartTime(line) \in Field /\ StopTime(line) \in Field /\ MilesText(line) \in Field
  BY <1>1, <1>2 DEF StartTime, StopTime, MilesText
<1>4. line[1] = "Driver" => NameAfterDriver(line) \in Name
  BY DEF NameAfterDriver, Name
<1>5. NameAfterTrip(line) \in Name
  BY <1>1, <1>2 DEF NameAfterTrip, Name
<1> QED
  BY <1>3, <1>4, <1>5

LEMMA ReaderTypeCorrect == Spec => []ReaderTypeOK
<1>1. Init => ReaderTypeOK
  <2>1. NoName \in Name
    BY LineType DEF NoName, Name
  <2>2. << >> \in Seq(Line) /\ Len(<< >>) = 0
    BY EmptySeq
  <2> QED
    BY <2>1, <2>2, MaxLinesType DEF Init, ReaderTypeOK
<1>2. ReaderTypeOK /\ [Next]_vars => ReaderTypeOK'
  <2> SUFFICES ASSUME ReaderTypeOK, [Next]_vars
               PROVE  ReaderTypeOK'
    OBVIOUS
  <2> USE DEF ReaderTypeOK
  <2>1. ASSUME NEW line \in Line, NextLine(line)
        PROVE  lines' \in Seq(Line) /\ Len(lines') <= MaxLines
    BY <2>1, MaxLinesType DEF NextLine
  <2>2. ASSUME NEW line \in Line, DriverLine(line)
        PROVE  ReaderTypeOK'
    BY <2>1, <2>2, PartsOfLine DEF DriverLine
  <2>3. ASSUME NEW line \in Line, TripLine(line)
        PROVE  ReaderTypeOK'
    BY <2>1, <2>3, PartsOfLine DEF TripLine
  <2>4. ASSUME NEW line \in Line, InvalidLine(line)
        PROVE  ReaderTypeOK'
    BY <2>1, <2>4 DEF InvalidLine
  <2>5. CASE OpenFile \/ EndOfFile \/ Exit
    BY <2>5 DEF OpenFile, EndOfFile, Exit
  <2>6. CASE UNCHANGED vars
    BY <2>6 DEF vars
  <2> QED
    BY <2>2, <2>3, <2>4, <2>5, <2>6 DEF Next
<1> QED
  BY <1>1, <1>2, PTL DEF Spec

-----------------------------------------------------------------------------
(***************************************************************************)
(* Refinement: ReadFile and main use the Driver object only through the    *)
(* public operations, on names and trips of the types they expect.         *)
(***************************************************************************)
DriverSpec == Driver!Spec

LEMMA StepUsesDriver ==
  ASSUME ReaderTypeOK, [Next]_vars
  PROVE  [Driver!Next]_(Driver!vars)
<1> USE DEF Driver!Next
<1>1. ASSUME NEW line \in Line, DriverLine(line)
      PROVE  Driver!Next
  <2>1. driverName' \in Name
    BY <1>1, PartsOfLine DEF DriverLine, ReaderTypeOK
  <2> QED
    BY <1>1, <2>1 DEF DriverLine
<1>2. ASSUME NEW line \in Line, TripLine(line)
      PROVE  Driver!Next \/ UNCHANGED driverVars
  <2> DEFINE trip == [startTime   |-> StartTime(line),
                      stopTime    |-> StopTime(line),
                      milesDriven |-> Stod[MilesText(line)]]
  <2>1. CASE Stod[MilesText(line)] = NotANumber
    BY <1>2, <2>1 DEF TripLine
  <2>2. CASE Stod[MilesText(line)] # NotANumber
    <3>1. driverName' \in Name
      BY <1>2, PartsOfLine DEF TripLine, ReaderTypeOK
    <3>2. trip \in Trip
      BY <2>2, PartsOfLine DEF ReaderTypeOK, Trip, Distance
    <3>3. Driver!AddTrip(driverName', trip)
      BY <1>2, <2>2 DEF TripLine
    <3> QED
      BY <3>1, <3>2, <3>3
  <2> QED
    BY <2>1, <2>2
<1>3. CASE EndOfFile \/ Exit
  BY <1>3 DEF EndOfFile, Exit
<1>4. ASSUME NEW line \in Line, InvalidLine(line)
      PROVE  UNCHANGED driverVars
  BY <1>4 DEF InvalidLine
<1>5. CASE OpenFile
  BY <1>5 DEF OpenFile, driverVars, Driver!vars
<1>6. CASE UNCHANGED vars
  BY <1>6 DEF vars, driverVars, Driver!vars
<1> QED
  BY <1>1, <1>2, <1>3, <1>4, <1>5, <1>6 DEF Next, driverVars, Driver!vars

(* Every run of the program is a run of the Driver class
   (DriverApp.cpp:17,33,44 and main.cpp:10 are its only uses).             *)
LEMMA ProgramUsesDriver == Spec => DriverSpec
<1>1. Init => Driver!Init
  BY DEF Init
<1>2. ReaderTypeOK /\ [Next]_vars => [Driver!Next]_(Driver!vars)
  BY StepUsesDriver
<1> QED
  BY <1>1, <1>2, ReaderTypeCorrect, PTL DEF Spec, DriverSpec, Driver!Spec

-----------------------------------------------------------------------------
(* DB names the same module as Driver, with its theorems. *)
LEMMA SameModule == DriverSpec => DB!Spec
<1>1. Driver!Init => DB!Init
  BY DEF Driver!Init, DB!Init
<1>2. [Driver!Next]_(Driver!vars) => [DB!Next]_(DB!vars)
  <2> USE DEF Driver!vars, DB!vars, Driver!Next, DB!Next, Driver!Registered, DB!Registered
  <2>1. ASSUME NEW n, Driver!RegisterDriver(n)
        PROVE  DB!RegisterDriver(n)
    BY <2>1 DEF Driver!RegisterDriver, DB!RegisterDriver, Driver!NewDriver, DB!NewDriver
  <2>2. ASSUME NEW n, NEW trip, Driver!AddTrip(n, trip)
        PROVE  DB!AddTrip(n, trip)
    BY <2>2, Zenon DEF Driver!AddTrip, DB!AddTrip,
         Driver!Credited, DB!Credited, Driver!Rejection, DB!Rejection,
         Driver!CalculateTripLength, DB!CalculateTripLength,
         Driver!ConvertTimeToMinutes, DB!ConvertTimeToMinutes,
         Driver!CalculateAverageSpeed, DB!CalculateAverageSpeed,
         Driver!Quotient, DB!Quotient, Driver!MilesUnit, DB!MilesUnit,
         Driver!IsTripValid, DB!IsTripValid, Driver!Above, DB!Above, Driver!Below, DB!Below
  <2>3. Driver!GenerateReport => DB!GenerateReport
    BY DEF Driver!GenerateReport, DB!GenerateReport, Driver!ReportLine, DB!ReportLine,
         Driver!CalculateAverageSpeed, DB!CalculateAverageSpeed,
         Driver!CastToInt, DB!CastToInt,
         Driver!Quotient, DB!Quotient, Driver!MilesUnit, DB!MilesUnit
  <2> QED
    BY <2>1, <2>2, <2>3
<1> QED
  BY <1>1, <1>2, PTL DEF DriverSpec, Driver!Spec, DB!Spec

(* Type correctness of the whole program. *)
THEOREM ProgramTypeCorrect == Spec => []TypeOK
<1>1. DB!TypeOK /\ ReaderTypeOK => TypeOK
  BY DEF DB!TypeOK, Driver!TypeOK, ReaderTypeOK, TypeOK,
         DB!Registered, Driver!Registered, DB!Driver_t, Driver!Driver_t,
         DB!Message, Driver!Message, DB!ReportLine_t, Driver!ReportLine_t
<1>2. DB!TimeTables /\ DB!IndeterminateIsNoInt
  BY TimeTables, IndeterminateIsNoInt DEF DB!TimeTables, DB!IndeterminateIsNoInt
<1>3. Trip \subseteq [startTime : Field, stopTime : Field, milesDriven : Int]
  BY StodType DEF Trip, Distance
<1>4. DB!Spec => []DB!TypeOK
  BY <1>2, <1>3, NoSpeedIsNoSpeed, DB!TypeCorrect
  DEF DB!TripType, DB!NoSpeedIsNoInt
<1> QED
  BY <1>1, <1>4, ReaderTypeCorrect, ProgramUsesDriver, SameModule, PTL

(* What the class promises of any caller holds of the program: no line, of *)
(* whatever file, changes the record of a known driver except by a trip    *)
(* that AddTrip accepts, and that one changes time and miles together.     *)
THEOREM ProgramKeepsRecords ==
  Spec => DB!KnownDriversKeepTheirTotals /\ DB!TimeAndMilesMoveTogether
<1>1. DB!TimeTables /\ DB!IndeterminateIsNoInt
  BY TimeTables, IndeterminateIsNoInt DEF DB!TimeTables, DB!IndeterminateIsNoInt
<1>2. Trip \subseteq [startTime : Field, stopTime : Field, milesDriven : Int]
  BY StodType DEF Trip, Distance
<1>3. DB!Spec => DB!KnownDriversKeepTheirTotals /\ DB!TimeAndMilesMoveTogether
  BY <1>1, <1>2, NoSpeedIsNoSpeed, DB!RecordsChangeOnlyByTrips, DB!NoDegenerateTripCounts
  DEF DB!TripType, DB!NoSpeedIsNoInt
<1> QED
  BY <1>3, ProgramUsesDriver, SameModule, PTL

-----------------------------------------------------------------------------
(***************************************************************************)
(* Names with spaces.                                                      *)
(***************************************************************************)

(* The only Trip line that hands on a name with a space is the bare word,
   and its distance is then the word itself.                               *)
LEMMA CreditedNameIsOneField ==
  ASSUME NEW line \in Line, TripLine(line), Stod[MilesText(line)] # NotANumber
  PROVE  Len(driverName') = 1
<1>1. line[1] = "Trip" /\ driverName' = NameAfterTrip(line)
  BY DEF TripLine
<1>2. Len(line) \in Nat \ {0}
  BY LineType, EmptySeq
<1>3. CASE Len(line) = 1
  BY <1>1, <1>3, StodType DEF MilesText, StopTime, StartTime
<1>4. CASE Len(line) > 1
  BY <1>1, <1>4 DEF NameAfterTrip
<1> QED
  BY <1>2, <1>3, <1>4

(* A driver registered under a name with a space never gains a minute or a
   mile, whatever the file holds (DriverApp.cpp:16 against 22).            *)
THEOREM SpacedNamesNeverCredited == Spec => []SpacedNamesStayAtZero
<1> USE DEF Driver!Registered
<1>1. Init => SpacedNamesStayAtZero
  BY DEF Init, Driver!Init, SpacedNamesStayAtZero
<1>2. TypeOK /\ SpacedNamesStayAtZero /\ [Next]_vars => SpacedNamesStayAtZero'
  <2> SUFFICES ASSUME TypeOK, SpacedNamesStayAtZero, [Next]_vars
               PROVE  SpacedNamesStayAtZero'
    OBVIOUS
  <2> USE DEF SpacedNamesStayAtZero
  <2>1. CASE UNCHANGED driverDatabase
    BY <2>1
  <2>2. ASSUME NEW line \in Line, DriverLine(line)
        PROVE  SpacedNamesStayAtZero'
    <3>1. Driver!RegisterDriver(driverName')
      BY <2>2 DEF DriverLine
    <3>2. CASE driverName' \in Driver!Registered
      BY <2>1, <3>1, <3>2 DEF Driver!RegisterDriver
    <3>3. CASE driverName' \notin Driver!Registered
      <4>1. driverDatabase' = [n \in DOMAIN driverDatabase \cup {driverName'} |->
                                 IF n = driverName' THEN Driver!NewDriver
                                 ELSE driverDatabase[n]]
        BY <3>1, <3>3 DEF Driver!RegisterDriver
      <4> QED
        BY <4>1 DEF Driver!NewDriver
    <3> QED
      BY <3>2, <3>3
  <2>3. ASSUME NEW line \in Line, TripLine(line)
        PROVE  SpacedNamesStayAtZero'
    <3>1. CASE Stod[MilesText(line)] = NotANumber
      BY <2>1, <2>3, <3>1 DEF TripLine, driverVars
    <3>2. CASE Stod[MilesText(line)] # NotANumber
      <4> DEFINE trip == [startTime   |-> StartTime(line),
                          stopTime    |-> StopTime(line),
                          milesDriven |-> Stod[MilesText(line)]]
      <4>1. Driver!AddTrip(driverName', trip)
        BY <2>3, <3>2 DEF TripLine
      <4>2. /\ DOMAIN driverDatabase' = DOMAIN driverDatabase
            /\ \A n \in DOMAIN driverDatabase \ {driverName'} :
                 driverDatabase'[n] = driverDatabase[n]
        BY <4>1 DEF Driver!AddTrip, TypeOK, Driver!TypeOK
      <4>3. Len(driverName') = 1
        BY <2>3, <3>2, CreditedNameIsOneField
      <4>4. ~ (Len(driverName') > 1)
        BY <4>3
      <4>5. \A n : Len(n) > 1 => n # driverName'
        BY <4>4, Zenon
      <4> HIDE DEF trip
      <4> QED
        BY <4>2, <4>5
    <3> QED
      BY <3>1, <3>2
  <2>4. ASSUME NEW line \in Line, InvalidLine(line)
        PROVE  UNCHANGED driverDatabase
    BY <2>4 DEF InvalidLine, driverVars
  <2>5. CASE OpenFile \/ EndOfFile \/ Exit \/ UNCHANGED vars
    BY <2>1, <2>5 DEF OpenFile, EndOfFile, Exit, vars, driverVars, Driver!GenerateReport
  <2> QED
    BY <2>1, <2>2, <2>3, <2>4, <2>5 DEF Next
<1> QED
  BY <1>1, <1>2, ProgramTypeCorrect, PTL DEF Spec

-----------------------------------------------------------------------------
(***************************************************************************)
(* Sums along a sequence.  Total is a recursive function, and all that is  *)
(* known of one before it is shown to exist is that it was chosen.  Its    *)
(* existence, and that no other function solves its equation, are proved   *)
(* by induction on the length.                                             *)
(***************************************************************************)

(* f adds up the first n of the amounts. *)
AddsUp(f, amounts, n) ==
  f = [i \in 0..n |-> IF i = 0 THEN 0 ELSE f[i - 1] + amounts[i]]

LEMMA SumsStep ==
  ASSUME NEW f, NEW amounts, NEW n \in Nat, AddsUp(f, amounts, n)
  PROVE  /\ f[0] = 0
         /\ \A i \in 0..n : i # n => f[i + 1] = f[i] + amounts[i + 1]
<1>1. \A i \in 0..n : f[i] = IF i = 0 THEN 0 ELSE f[i - 1] + amounts[i]
  BY Zenon DEF AddsUp
<1>2. f[0] = 0
  BY <1>1
<1>3. ASSUME NEW i \in 0..n, i # n
      PROVE  f[i + 1] = f[i] + amounts[i + 1]
  <2>1. i + 1 \in 0..n /\ i + 1 # 0 /\ (i + 1) - 1 = i
    BY <1>3
  <2> QED
    BY <1>1, <2>1
<1> QED
  BY <1>2, <1>3

LEMMA SumsExist ==
  ASSUME NEW amounts \in Seq(Int)
  PROVE  \E f : AddsUp(f, amounts, Len(amounts))
<1> DEFINE T == {n \in 0..Len(amounts) : \E f : AddsUp(f, amounts, n)}
<1>1. 0 \in T
  <2>1. AddsUp([i \in 0..0 |-> 0], amounts, 0)
    BY DEF AddsUp
  <2> QED
    BY <2>1
<1>2. ASSUME NEW n \in 0..Len(amounts), n # Len(amounts), n \in T
      PROVE  n + 1 \in T
  <2>1. PICK f : AddsUp(f, amounts, n)
    BY <1>2
  <2> DEFINE g == [i \in 0..(n + 1) |-> IF i = n + 1 THEN f[n] + amounts[n + 1] ELSE f[i]]
  <2>2. \A i \in 0..n : f[i] = IF i = 0 THEN 0 ELSE f[i - 1] + amounts[i]
    BY <2>1, Zenon DEF AddsUp
  <2>3. ASSUME NEW i \in 0..(n + 1)
        PROVE  g[i] = IF i = 0 THEN 0 ELSE g[i - 1] + amounts[i]
    <3>1. CASE i = n + 1
      BY <3>1
    <3>2. CASE i = 0
      BY <2>2, <3>2
    <3>3. CASE i \in 1..n
      BY <2>2, <3>3
    <3> QED
      BY <3>1, <3>2, <3>3
  <2>4. g = [i \in 0..(n + 1) |-> IF i = 0 THEN 0 ELSE g[i - 1] + amounts[i]]
    <3> DEFINE h == [i \in 0..(n + 1) |-> IF i = 0 THEN 0 ELSE g[i - 1] + amounts[i]]
    <3>1. \A i \in 0..(n + 1) : g[i] = h[i]
      BY <2>3
    <3> QED
      BY <3>1
  <2> HIDE DEF g
  <2>5. AddsUp(g, amounts, n + 1)
    BY <2>4 DEF AddsUp
  <2>6. n + 1 \in 0..Len(amounts)
    BY <1>2
  <2> QED
    BY <2>5, <2>6
<1>3. Len(amounts) \in Nat
  OBVIOUS
<1> HIDE DEF T
<1>4. \A n \in 0..Len(amounts) : n # Len(amounts) /\ n \in T => n + 1 \in T
  BY <1>2
<1>5. \A n \in 0..Len(amounts) : n \in T
  BY <1>1, <1>3, <1>4, UpwardInduction
<1>6. Len(amounts) \in T
  BY <1>3, <1>5
<1> QED
  BY <1>6 DEF T

LEMMA SumsAgree ==
  ASSUME NEW a \in Seq(Int), NEW b \in Seq(Int), NEW n \in Nat,
         n <= Len(a), n <= Len(b), \A i \in 1..n : a[i] = b[i],
         NEW f, NEW g, AddsUp(f, a, Len(a)), AddsUp(g, b, Len(b))
  PROVE  f[n] = g[n] /\ f[n] \in Int
<1> DEFINE T == {i \in 0..n : f[i] = g[i] /\ f[i] \in Int}
<1>1. 0 \in T
  BY SumsStep
<1>2. ASSUME NEW i \in 0..n, i # n, i \in T
      PROVE  i + 1 \in T
  <2>1. i \in 0..Len(a) /\ i # Len(a) /\ i \in 0..Len(b) /\ i # Len(b)
    BY <1>2
  <2>2. f[i + 1] = f[i] + a[i + 1] /\ g[i + 1] = g[i] + b[i + 1]
    BY <2>1, SumsStep
  <2>3. a[i + 1] \in Int /\ a[i + 1] = b[i + 1]
    BY <1>2
  <2> QED
    BY <1>2, <2>2, <2>3
<1> HIDE DEF T
<1>3. \A i \in 0..n : i # n /\ i \in T => i + 1 \in T
  BY <1>2
<1>4. \A i \in 0..n : i \in T
  BY <1>1, <1>3, UpwardInduction
<1>5. n \in T
  BY <1>4
<1> QED
  BY <1>5 DEF T

(* The total of a sequence is that of a function that adds it up. *)
LEMMA TotalAddsUp ==
  ASSUME NEW amounts \in Seq(Int)
  PROVE  \E f : AddsUp(f, amounts, Len(amounts)) /\ Total(amounts) = f[Len(amounts)]
<1> DEFINE sum == CHOOSE f : f = [i \in 0..Len(amounts) |->
                                    IF i = 0 THEN 0 ELSE f[i - 1] + amounts[i]]
<1>1. \E f : f = [i \in 0..Len(amounts) |-> IF i = 0 THEN 0 ELSE f[i - 1] + amounts[i]]
  BY SumsExist DEF AddsUp
<1>2. sum = [i \in 0..Len(amounts) |-> IF i = 0 THEN 0 ELSE sum[i - 1] + amounts[i]]
  BY <1>1
<1>3. Total(amounts) = sum[Len(amounts)]
  BY DEF Total
<1> HIDE DEF sum
<1>4. AddsUp(sum, amounts, Len(amounts))
  BY <1>2 DEF AddsUp
<1> QED
  BY <1>3, <1>4

LEMMA TotalOfAppended ==
  ASSUME NEW amounts \in Seq(Int), NEW x \in Int
  PROVE  /\ Total(amounts) \in Int
         /\ Total(Append(amounts, x)) = Total(amounts) + x
<1> DEFINE longer == Append(amounts, x)
           n == Len(amounts)
<1>1. /\ longer \in Seq(Int) /\ Len(longer) = n + 1 /\ longer[n + 1] = x
      /\ \A i \in 1..n : amounts[i] = longer[i]
      /\ n \in Nat
  OBVIOUS
<1> HIDE DEF longer
<1>2. PICK f : AddsUp(f, amounts, n) /\ Total(amounts) = f[n]
  BY TotalAddsUp
<1>3. PICK g : AddsUp(g, longer, n + 1) /\ Total(longer) = g[n + 1]
  BY <1>1, TotalAddsUp
<1>4. f[n] = g[n] /\ f[n] \in Int
  <2>1. AddsUp(g, longer, Len(longer)) /\ n <= Len(amounts) /\ n <= Len(longer)
    BY <1>1, <1>3
  <2> HIDE DEF n
  <2>2. AddsUp(f, amounts, Len(amounts))
    BY <1>2 DEF n
  <2> QED
    BY <1>1, <2>1, <2>2, SumsAgree
<1>5. g[n + 1] = g[n] + x
  BY <1>1, <1>3 DEF AddsUp
<1> QED
  BY <1>2, <1>3, <1>4, <1>5 DEF longer

LEMMA TotalOfNothing ==
  ASSUME NEW amounts \in Seq(Int), \A i \in 1..Len(amounts) : amounts[i] = 0
  PROVE  Total(amounts) = 0
<1> DEFINE zeros == [i \in 0..Len(amounts) |-> 0]
<1>1. AddsUp(zeros, amounts, Len(amounts))
  BY DEF AddsUp
<1>2. PICK f : AddsUp(f, amounts, Len(amounts)) /\ Total(amounts) = f[Len(amounts)]
  BY TotalAddsUp
<1>3. f[Len(amounts)] = zeros[Len(amounts)]
  <2> HIDE DEF zeros
  <2> QED
    BY <1>1, <1>2, SumsAgree
<1> QED
  BY <1>2, <1>3

-----------------------------------------------------------------------------
(***************************************************************************)
(* The ledger: what a line that is read adds to the meaning of the file,   *)
(* and that ReadFile adds the same to the database.                        *)
(***************************************************************************)
MinutesOfLine(line) == ConvertTimeToMinutes(line[4]) - ConvertTimeToMinutes(line[3])

AdmissibleLine(line) ==
  /\ 50 * MinutesOfLine(line) <= 60 * Stod[line[5]]
  /\ 60 * Stod[line[5]] <= 1000 * MinutesOfLine(line)

AtALimitLine(line) ==
  60 * Stod[line[5]] \in {50 * MinutesOfLine(line), 1000 * MinutesOfLine(line)}

Named(name) == \E j \in DOMAIN lines : Names(j, name)

(* The line counts for the name, when it comes after those read so far. *)
CountsFor(line, name) ==
  Complete(line) /\ <<line[2]>> = name /\ AdmissibleLine(line) /\ Named(name)

MilesAmounts(name) == [i \in DOMAIN lines |-> IF i \in Counted(name) THEN MilesOf(i) ELSE 0]

MinutesAmounts(name) ==
  [i \in DOMAIN lines |-> IF i \in Counted(name) THEN MinutesOf(i) ELSE 0]

LEMMA CompleteLine ==
  ASSUME NEW line \in Line, Complete(line)
  PROVE  /\ Stod[line[5]] \in Int
         /\ MinutesOfLine(line) \in Int /\ MinutesOfLine(line) > 0
         /\ \A i \in 1..5 : line[i] \in Field
<1>1. line \in Seq(Field) /\ Len(line) = 5
  BY LineType DEF Complete
<1>2. \A i \in 1..5 : line[i] \in Field
  BY <1>1, ElementOfSeq
<1>3. Stod[line[5]] \in Int
  BY <1>2, StodType DEF Complete
<1>4. Hours[line[3]] \in Int /\ Minutes[line[3]] \in Int /\ Hours[line[4]] \in Int /\ Minutes[line[4]] \in Int
  BY <1>2, TimeTables
<1> QED
  BY <1>2, <1>3, <1>4 DEF Complete, MinutesOfLine, ConvertTimeToMinutes

LEMMA AmountsType ==
  ASSUME lines \in Seq(Line), NEW name
  PROVE  /\ MilesAmounts(name) \in Seq(Int) /\ Len(MilesAmounts(name)) = Len(lines)
         /\ MinutesAmounts(name) \in Seq(Int) /\ Len(MinutesAmounts(name)) = Len(lines)
<1>1. DOMAIN lines = 1..Len(lines) /\ Len(lines) \in Nat
  OBVIOUS
<1>2. ASSUME NEW i \in DOMAIN lines, i \in Counted(name)
      PROVE  MilesOf(i) \in Int /\ MinutesOf(i) \in Int
  <2>1. lines[i] \in Line /\ Complete(lines[i])
    BY <1>2, ElementOfSeq DEF Counted
  <2> QED
    BY <2>1, CompleteLine DEF MilesOf, MinutesOf, MinutesOfLine
<1>3. /\ MilesAmounts(name) \in [1..Len(lines) -> Int]
      /\ MinutesAmounts(name) \in [1..Len(lines) -> Int]
  BY <1>1, <1>2 DEF MilesAmounts, MinutesAmounts
<1> QED
  BY <1>1, <1>3

(* One more line leaves what the earlier ones mean as it is. *)
LEMMA EarlierLinesKeep ==
  ASSUME lines \in Seq(Line), NEW line \in Line, lines' = Append(lines, line), NEW name
  PROVE  /\ DOMAIN lines' = 1..(Len(lines) + 1) /\ DOMAIN lines = 1..Len(lines)
         /\ \A i \in DOMAIN lines :
              lines'[i] = lines[i] /\ (Names(i, name)' <=> Names(i, name))
         /\ lines'[Len(lines) + 1] = line
         /\ \A i \in DOMAIN lines :
              /\ i \in Counted(name)' <=> i \in Counted(name)
              /\ MilesOf(i)' = MilesOf(i) /\ MinutesOf(i)' = MinutesOf(i)
<1>1. /\ DOMAIN lines' = 1..(Len(lines) + 1) /\ DOMAIN lines = 1..Len(lines)
      /\ \A i \in DOMAIN lines : lines'[i] = lines[i]
      /\ lines'[Len(lines) + 1] = line
      /\ Len(lines) \in Nat
  OBVIOUS
<1>2. \A i \in DOMAIN lines : Names(i, name)' <=> Names(i, name)
  BY <1>1 DEF Names
<1>3. ASSUME NEW i \in DOMAIN lines
      PROVE  /\ MilesOf(i)' = MilesOf(i) /\ MinutesOf(i)' = MinutesOf(i)
             /\ Admissible(i)' <=> Admissible(i)
  BY <1>1 DEF MilesOf, MinutesOf, Admissible
<1>4. ASSUME NEW i \in DOMAIN lines
      PROVE  i \in Counted(name)' <=> i \in Counted(name)
  <2>1. \A j \in 1..(i - 1) : j \in DOMAIN lines
    BY <1>1
  <2>2. i \in DOMAIN lines'
    BY <1>1
  <2> QED
    BY <1>1, <1>2, <1>3, <2>1, <2>2 DEF Counted
<1> QED
  BY <1>1, <1>2, <1>3, <1>4

LEMMA LineCounts ==
  ASSUME lines \in Seq(Line), NEW line \in Line, lines' = Append(lines, line), NEW name,
         NEW n, n = Len(lines) + 1
  PROVE  /\ n \in Counted(name)' <=> CountsFor(line, name)
         /\ MilesOf(n)' = Stod[line[5]] /\ MinutesOf(n)' = MinutesOfLine(line)
<1>1. /\ n \in DOMAIN lines' /\ DOMAIN lines = 1..(n - 1)
      /\ lines'[n] = line
      /\ \A j \in DOMAIN lines : Names(j, name)' <=> Names(j, name)
  <2>1. \A j \in DOMAIN lines : Names(j, name)' <=> Names(j, name)
    BY EarlierLinesKeep
  <2> QED
    BY <2>1
<1>2. MilesOf(n)' = Stod[line[5]] /\ MinutesOf(n)' = MinutesOfLine(line)
  BY <1>1 DEF MilesOf, MinutesOf, MinutesOfLine
<1>3. Admissible(n)' <=> AdmissibleLine(line)
  BY <1>2 DEF Admissible, AdmissibleLine
<1>4. (\E j \in 1..(n - 1) : Names(j, name))' <=> Named(name)
  BY <1>1 DEF Named
<1> QED
  BY <1>1, <1>2, <1>3, <1>4 DEF Counted, CountsFor

(* A name is credited with what the last line counts for it. *)
LEMMA LineAdds ==
  ASSUME lines \in Seq(Line), NEW line \in Line, lines' = Append(lines, line), NEW name
  PROVE  /\ MilesCounted(name)' =
              MilesCounted(name) + (IF CountsFor(line, name) THEN Stod[line[5]] ELSE 0)
         /\ MinutesCounted(name)' =
              MinutesCounted(name) + (IF CountsFor(line, name) THEN MinutesOfLine(line) ELSE 0)
         /\ MilesCounted(name) \in Int /\ MinutesCounted(name) \in Int
<1> DEFINE miles == IF CountsFor(line, name) THEN Stod[line[5]] ELSE 0
           minutes == IF CountsFor(line, name) THEN MinutesOfLine(line) ELSE 0
<1>1. miles \in Int /\ minutes \in Int
  BY CompleteLine DEF CountsFor
<1>2. /\ DOMAIN lines' = 1..(Len(lines) + 1) /\ DOMAIN lines = 1..Len(lines)
      /\ Len(lines) \in Nat
      /\ lines'[Len(lines) + 1] = line
      /\ \A i \in DOMAIN lines :
           /\ i \in Counted(name)' <=> i \in Counted(name)
           /\ MilesOf(i)' = MilesOf(i) /\ MinutesOf(i)' = MinutesOf(i)
  BY EarlierLinesKeep
<1>3. \A n : n = Len(lines) + 1 =>
        /\ n \in Counted(name)' <=> CountsFor(line, name)
        /\ MilesOf(n)' = Stod[line[5]] /\ MinutesOf(n)' = MinutesOfLine(line)
  BY LineCounts
<1>4. /\ MilesAmounts(name) \in Seq(Int) /\ Len(MilesAmounts(name)) = Len(lines)
      /\ MinutesAmounts(name) \in Seq(Int) /\ Len(MinutesAmounts(name)) = Len(lines)
  BY AmountsType
<1>5. MilesAmounts(name)' = Append(MilesAmounts(name), miles)
  <2>1. \A i \in DOMAIN lines' :
          MilesAmounts(name)'[i] = IF i = Len(lines) + 1 THEN miles ELSE MilesAmounts(name)[i]
    BY <1>2, <1>3 DEF MilesAmounts
  <2>2. Append(MilesAmounts(name), miles) =
          [i \in DOMAIN lines' |-> IF i = Len(lines) + 1 THEN miles ELSE MilesAmounts(name)[i]]
    BY <1>1, <1>2, <1>4
  <2>3. MilesAmounts(name)' = [i \in DOMAIN lines' |-> MilesAmounts(name)'[i]]
    BY DEF MilesAmounts
  <2> QED
    BY <2>1, <2>2, <2>3
<1>6. MinutesAmounts(name)' = Append(MinutesAmounts(name), minutes)
  <2>1. \A i \in DOMAIN lines' :
          MinutesAmounts(name)'[i] =
            IF i = Len(lines) + 1 THEN minutes ELSE MinutesAmounts(name)[i]
    BY <1>2, <1>3 DEF MinutesAmounts
  <2>2. Append(MinutesAmounts(name), minutes) =
          [i \in DOMAIN lines' |->
             IF i = Len(lines) + 1 THEN minutes ELSE MinutesAmounts(name)[i]]
    BY <1>1, <1>2, <1>4
  <2>3. MinutesAmounts(name)' = [i \in DOMAIN lines' |-> MinutesAmounts(name)'[i]]
    BY DEF MinutesAmounts
  <2> QED
    BY <2>1, <2>2, <2>3
<1>7. MilesCounted(name) = Total(MilesAmounts(name))
  BY DEF MilesCounted, MilesAmounts
<1>8. MinutesCounted(name) = Total(MinutesAmounts(name))
  BY DEF MinutesCounted, MinutesAmounts
<1>9. MilesCounted(name)' = Total(MilesAmounts(name)')
  BY DEF MilesCounted, MilesAmounts
<1>10. MinutesCounted(name)' = Total(MinutesAmounts(name)')
  BY DEF MinutesCounted, MinutesAmounts
<1> HIDE DEF miles, minutes
<1>11. /\ Total(MilesAmounts(name)) \in Int
       /\ Total(Append(MilesAmounts(name), miles)) = Total(MilesAmounts(name)) + miles
  BY <1>1, <1>4, TotalOfAppended
<1>12. /\ Total(MinutesAmounts(name)) \in Int
       /\ Total(Append(MinutesAmounts(name), minutes)) = Total(MinutesAmounts(name)) + minutes
  BY <1>1, <1>4, TotalOfAppended
<1> QED
  BY <1>5, <1>6, <1>7, <1>8, <1>9, <1>10, <1>11, <1>12 DEF miles, minutes

(* A name that no Driver line gave has nothing. *)
LEMMA UnnamedHasNothing ==
  ASSUME lines \in Seq(Line), NEW name, ~ Named(name)
  PROVE  MilesCounted(name) = 0 /\ MinutesCounted(name) = 0
<1>1. DOMAIN lines = 1..Len(lines) /\ Len(lines) \in Nat
  OBVIOUS
<1>2. \A i \in DOMAIN lines : i \notin Counted(name)
  <2>1. ASSUME NEW i \in DOMAIN lines, NEW j \in 1..(i - 1)
        PROVE  ~ Names(j, name)
    BY <1>1 DEF Named
  <2> QED
    BY <2>1 DEF Counted
<1>3. /\ MilesAmounts(name) \in Seq(Int) /\ Len(MilesAmounts(name)) = Len(lines)
      /\ MinutesAmounts(name) \in Seq(Int) /\ Len(MinutesAmounts(name)) = Len(lines)
  BY AmountsType
<1>4. \A i \in 1..Len(lines) : MilesAmounts(name)[i] = 0 /\ MinutesAmounts(name)[i] = 0
  BY <1>1, <1>2 DEF MilesAmounts, MinutesAmounts
<1>5. Total(MilesAmounts(name)) = 0 /\ Total(MinutesAmounts(name)) = 0
  BY <1>3, <1>4, TotalOfNothing
<1> QED
  BY <1>5 DEF MilesCounted, MinutesCounted, MilesAmounts, MinutesAmounts

(***************************************************************************)
(* What TripLine adds to a driver's record is what the line counts.        *)
(***************************************************************************)
LEMMA ValidMeansAdmissible ==
  ASSUME NEW line \in Line, Complete(line), ~ AtALimitLine(line)
  PROVE  Driver!IsTripValid(Driver!CalculateAverageSpeed(
           Driver!CalculateTripLength(line[3], line[4]), Stod[line[5]]))
           <=> AdmissibleLine(line)
<1> DEFINE minutes == MinutesOfLine(line)
           miles == Stod[line[5]]
<1>1. minutes \in Int /\ minutes > 0 /\ miles \in Int
  BY CompleteLine
<1>2. Driver!CalculateTripLength(line[3], line[4]) = minutes
  BY DEF Driver!CalculateTripLength, Driver!ConvertTimeToMinutes, ConvertTimeToMinutes,
         MinutesOfLine
<1> HIDE DEF minutes, miles
<1>3. Driver!IsTripValid(Driver!CalculateAverageSpeed(minutes, miles))
        <=> 50 * minutes < 60 * miles /\ 60 * miles < 1000 * minutes
  BY <1>1 DEF Driver!IsTripValid, Driver!CalculateAverageSpeed, Driver!Quotient,
       Driver!Above, Driver!Below, Driver!MilesUnit
<1>4. 60 * miles # 50 * minutes /\ 60 * miles # 1000 * minutes
  BY DEF AtALimitLine, minutes, miles
<1>5. /\ 50 * minutes < 60 * miles <=> 50 * minutes <= 60 * miles
      /\ 60 * miles < 1000 * minutes <=> 60 * miles <= 1000 * minutes
  BY <1>1, <1>4
<1> QED
  BY <1>2, <1>3, <1>5 DEF AdmissibleLine, minutes, miles

(* The database is what the lines read so far mean. *)
RecordIs(name, miles, minutes) ==
  /\ driverDatabase[name].totalMilesDriven = miles
  /\ driverDatabase[name].totalTimeDriven = minutes

Meant(name) ==
  /\ name \in Driver!Registered <=> Named(name)
  /\ name \in Driver!Registered /\ OffTheLimits(name) =>
       RecordIs(name, MilesCounted(name), MinutesCounted(name))

DatabaseIsMeaning == \A name \in Name : ~ NameLeftOver(name) => Meant(name)

(* The name the reader holds is none, or one of a line it has read. *)
NameHasASource ==
  \/ driverName = NoName
  \/ Named(driverName)
  \/ \E i \in DOMAIN lines : TripOf(i, driverName)

(* A driver of whom nothing is claimed stays one. *)
LEMMA ExceptionsStay ==
  ASSUME lines \in Seq(Line), NEW line \in Line, lines' = Append(lines, line), NEW name
  PROVE  /\ NameLeftOver(name) => NameLeftOver(name)'
         /\ OffTheLimits(name)' => OffTheLimits(name)
         /\ OffTheLimits(name)' /\ Complete(line) /\ <<line[2]>> = name => ~ AtALimitLine(line)
<1>1. /\ DOMAIN lines' = 1..(Len(lines) + 1) /\ DOMAIN lines = 1..Len(lines)
      /\ Len(lines) \in Nat
      /\ \A i \in DOMAIN lines : i \in DOMAIN lines' /\ lines'[i] = lines[i]
      /\ Len(lines) + 1 \in DOMAIN lines' /\ lines'[Len(lines) + 1] = line
  OBVIOUS
<1>2. ASSUME NEW i \in DOMAIN lines
      PROVE  /\ Names(i, name)' <=> Names(i, name)
             /\ TripOf(i, name)' <=> TripOf(i, name)
             /\ AtALimit(i)' <=> AtALimit(i)
  BY <1>1 DEF Names, TripOf, AtALimit, MilesOf, MinutesOf
<1>3. NameLeftOver(name) => NameLeftOver(name)'
  <2> SUFFICES ASSUME NameLeftOver(name)
               PROVE  NameLeftOver(name)'
    OBVIOUS
  <2>1. PICK j \in DOMAIN lines :
          /\ lines[j] = <<"Driver">>
          /\ \A i \in 1..(j - 1) : ~ Names(i, name)
          /\ name = NoName \/ \E i \in 1..(j - 1) : TripOf(i, name)
    BY DEF NameLeftOver
  <2>2. \A i \in 1..(j - 1) : i \in DOMAIN lines
    BY <1>1
  <2>3. j \in DOMAIN lines' /\ lines'[j] = <<"Driver">>
    BY <1>1, <2>1
  <2>4. \A i \in 1..(j - 1) : ~ Names(i, name)'
    BY <1>2, <2>1, <2>2
  <2>5. name = NoName \/ \E i \in 1..(j - 1) : TripOf(i, name)'
    BY <1>2, <2>1, <2>2
  <2> QED
    BY <2>3, <2>4, <2>5 DEF NameLeftOver, NoName
<1>4. OffTheLimits(name)' => OffTheLimits(name)
  BY <1>1, <1>2 DEF OffTheLimits
<1>5. \A n : n = Len(lines) + 1 => (AtALimit(n)' <=> AtALimitLine(line))
  BY <1>1 DEF AtALimit, AtALimitLine, MilesOf, MinutesOf, MinutesOfLine
<1>6. OffTheLimits(name)' /\ Complete(line) /\ <<line[2]>> = name => ~ AtALimitLine(line)
  BY <1>1, <1>5 DEF OffTheLimits
<1> QED
  BY <1>3, <1>4, <1>6

(* What stays so when a line neither enters a driver nor counts for one. *)
LEMMA MeantStays ==
  ASSUME TypeOK, DatabaseIsMeaning, NEW line \in Line, lines' = Append(lines, line),
         NEW name \in Name, ~ NameLeftOver(name)', ~ CountsFor(line, name),
         Named(name)' <=> Named(name),
         name \in DOMAIN driverDatabase' <=> name \in DOMAIN driverDatabase,
         name \in DOMAIN driverDatabase /\ OffTheLimits(name) =>
           driverDatabase'[name] = driverDatabase[name]
  PROVE  Meant(name)'
<1>1. lines \in Seq(Line)
  BY DEF TypeOK
<1>2. ~ NameLeftOver(name) /\ (OffTheLimits(name)' => OffTheLimits(name))
  BY <1>1, ExceptionsStay
<1>3. MilesCounted(name)' = MilesCounted(name) /\ MinutesCounted(name)' = MinutesCounted(name)
  BY <1>1, LineAdds
<1>4. Meant(name)
  BY <1>2 DEF DatabaseIsMeaning
<1> QED
  BY <1>2, <1>3, <1>4 DEF Meant, RecordIs, Driver!Registered

(* Lines that add nothing. *)
LEMMA IdleLineKeeps ==
  ASSUME TypeOK, DatabaseIsMeaning, NEW line \in Line, lines' = Append(lines, line),
         ~ Complete(line), line[1] # "Driver", UNCHANGED driverDatabase
  PROVE  DatabaseIsMeaning'
<1>1. lines \in Seq(Line)
  BY DEF TypeOK
<1>2. ASSUME NEW name
      PROVE  (Named(name)' <=> Named(name)) /\ ~ CountsFor(line, name)
  <2>1. ~ CountsFor(line, name)
    BY DEF CountsFor
  <2>2. Named(name)' <=> Named(name)
    BY <1>1, EarlierLinesKeep DEF Named, Names
  <2> QED
    BY <2>1, <2>2
<1>3. ASSUME NEW name \in Name, ~ NameLeftOver(name)'
      PROVE  Meant(name)'
  BY <1>2, <1>3, MeantStays
<1> QED
  BY <1>3 DEF DatabaseIsMeaning, Name

LEMMA DriverLineIsMeant ==
  ASSUME TypeOK, DatabaseIsMeaning, NEW line \in Line, DriverLine(line), Len(line) > 1
  PROVE  DatabaseIsMeaning'
<1> DEFINE given == Rest(line)
<1>1. /\ lines \in Seq(Line) /\ lines' = Append(lines, line) /\ line[1] = "Driver"
      /\ driverName' = given /\ Driver!RegisterDriver(driverName')
  BY DEF TypeOK, DriverLine, NextLine, NameAfterDriver
<1>2. given \in Name
  BY <1>1, PartsOfLine DEF TypeOK, NameAfterDriver
<1>3. ASSUME NEW name
      PROVE  /\ MilesCounted(name)' = MilesCounted(name)
             /\ MinutesCounted(name)' = MinutesCounted(name)
  <2>1. ~ CountsFor(line, name)
    BY <1>1 DEF CountsFor, Complete
  <2> QED
    BY <1>1, <2>1, LineAdds
<1>4. ASSUME NEW name
      PROVE  Named(name)' <=> Named(name) \/ name = given
  <2>1. /\ DOMAIN lines' = 1..(Len(lines) + 1) /\ DOMAIN lines = 1..Len(lines)
        /\ \A j \in DOMAIN lines : Names(j, name)' <=> Names(j, name)
    BY <1>1, EarlierLinesKeep
  <2>2. \A n : n = Len(lines) + 1 => (Names(n, name)' <=> name = given)
    BY <1>1, EarlierLinesKeep DEF Names
  <2>3. Len(lines) \in Nat
    BY <1>1
  <2> QED
    BY <2>1, <2>2, <2>3 DEF Named
<1> HIDE DEF given
<1>5. ASSUME NEW name \in Name, name # given, ~ NameLeftOver(name)'
      PROVE  Meant(name)'
  <2>1. /\ name \in DOMAIN driverDatabase' <=> name \in DOMAIN driverDatabase
        /\ name \in DOMAIN driverDatabase => driverDatabase'[name] = driverDatabase[name]
    BY <1>1, <1>5 DEF Driver!RegisterDriver, Driver!Registered
  <2>2. Named(name)' <=> Named(name)
    BY <1>4, <1>5
  <2>3. ~ CountsFor(line, name)
    BY <1>1 DEF CountsFor, Complete
  <2> QED
    BY <1>1, <1>5, <2>1, <2>2, <2>3, MeantStays
<1>6. ASSUME ~ NameLeftOver(given)'
      PROVE  Meant(given)'
  <2>1. Meant(given) /\ (OffTheLimits(given)' => OffTheLimits(given))
    BY <1>1, <1>2, <1>6, ExceptionsStay DEF DatabaseIsMeaning
  <2>2. Named(given)'
    BY <1>4
  <2>3. CASE given \in Driver!Registered
    <3>1. UNCHANGED driverDatabase
      BY <1>1, <2>3 DEF Driver!RegisterDriver
    <3> QED
      BY <1>3, <2>1, <2>2, <2>3, <3>1 DEF Meant, RecordIs, Driver!Registered
  <2>4. CASE given \notin Driver!Registered
    <3>1. given \in DOMAIN driverDatabase' /\ driverDatabase'[given] = Driver!NewDriver
      BY <1>1, <2>4 DEF Driver!RegisterDriver, Driver!Registered
    <3>2. MilesCounted(given) = 0 /\ MinutesCounted(given) = 0
      BY <1>1, <2>1, <2>4, UnnamedHasNothing DEF Meant
    <3> QED
      BY <1>3, <2>2, <3>1, <3>2 DEF Meant, RecordIs, Driver!NewDriver, Driver!Registered
  <2> QED
    BY <2>3, <2>4
<1>7. ASSUME NEW name \in Name, ~ NameLeftOver(name)'
      PROVE  Meant(name)'
  BY <1>5, <1>6, <1>7
<1> QED
  BY <1>7 DEF DatabaseIsMeaning, Name

(* A Driver line without a name enters nobody of whom the ledger speaks. *)
LEMMA NamelessLineIsMeant ==
  ASSUME TypeOK, DatabaseIsMeaning, NameHasASource, NEW line \in Line, DriverLine(line),
         Len(line) = 1
  PROVE  DatabaseIsMeaning'
<1>1. /\ lines \in Seq(Line) /\ lines' = Append(lines, line)
      /\ line[1] = "Driver" /\ driverName' = driverName /\ driverName \in Name
      /\ Driver!RegisterDriver(driverName)
  BY DEF TypeOK, DriverLine, NextLine, NameAfterDriver
<1>2. line = <<"Driver">>
  <2>1. line \in Seq(Field)
    BY LineType
  <2> QED
    BY <1>1, <2>1
<1>3. /\ DOMAIN lines' = 1..(Len(lines) + 1) /\ DOMAIN lines = 1..Len(lines)
      /\ lines'[Len(lines) + 1] = line /\ Len(lines) \in Nat
      /\ \A i \in DOMAIN lines : lines'[i] = lines[i]
  BY <1>1
<1>4. ASSUME NEW name
      PROVE  (Named(name)' <=> Named(name)) /\ ~ CountsFor(line, name)
  <2>1. \A j \in DOMAIN lines : Names(j, name)' <=> Names(j, name)
    BY <1>1, EarlierLinesKeep
  <2>2. ASSUME NEW n, n = Len(lines) + 1
        PROVE  ~ Names(n, name)'
    <3>1. lines'[n] = line
      BY <1>3, <2>2
    <3> HIDE DEF Names
    <3>2. Names(n, name)' => Len(lines'[n]) > 1
      BY Zenon DEF Names
    <3>3. Len(lines'[n]) = 1
      BY <3>1
    <3> QED
      BY <3>2, <3>3
  <2>3. Named(name)' <=> Named(name)
    BY <1>3, <2>1, <2>2 DEF Named
  <2>4. ~ CountsFor(line, name)
    BY <1>1 DEF CountsFor, Complete
  <2> QED
    BY <2>3, <2>4
<1>5. ASSUME NEW name \in Name, name = driverName, ~ NameLeftOver(name)'
      PROVE  name \in Driver!Registered
  <2> SUFFICES ASSUME name \notin Driver!Registered
               PROVE  FALSE
    OBVIOUS
  <2>1. ~ NameLeftOver(name)
    BY <1>1, <1>5, ExceptionsStay
  <2>2. ~ Named(name)
    BY <2>1 DEF DatabaseIsMeaning, Meant
  <2> DEFINE j == Len(lines) + 1
  <2>3. j \in DOMAIN lines' /\ lines'[j] = <<"Driver">> /\ 1..(j - 1) = DOMAIN lines
    BY <1>2, <1>3
  <2> HIDE DEF j
  <2>4. \A i \in 1..(j - 1) : ~ Names(i, name)'
    BY <1>3, <2>2, <2>3 DEF Named, Names
  <2>5. name = NoName \/ \E i \in 1..(j - 1) : TripOf(i, name)'
    BY <1>3, <1>5, <2>2, <2>3 DEF NameHasASource, TripOf
  <2>6. NameLeftOver(name)'
    BY <2>3, <2>4, <2>5 DEF NameLeftOver, NoName
  <2> QED
    BY <1>5, <2>6
<1>6. ASSUME NEW name \in Name, ~ NameLeftOver(name)'
      PROVE  Meant(name)'
  <2>1. CASE name # driverName
    <3>1. /\ name \in DOMAIN driverDatabase' <=> name \in DOMAIN driverDatabase
          /\ name \in DOMAIN driverDatabase => driverDatabase'[name] = driverDatabase[name]
      BY <1>1, <2>1 DEF Driver!RegisterDriver, Driver!Registered
    <3> QED
      BY <1>1, <1>4, <1>6, <3>1, MeantStays
  <2>2. CASE name = driverName
    <3>1. driverName \in Driver!Registered
      BY <1>5, <1>6, <2>2
    <3>2. UNCHANGED driverDatabase
      BY <1>1, <3>1 DEF Driver!RegisterDriver
    <3> QED
      BY <1>1, <1>4, <1>6, <3>2, MeantStays
  <2> QED
    BY <2>1, <2>2
<1> QED
  BY <1>6 DEF DatabaseIsMeaning, Name

LEMMA TripLineIsMeant ==
  ASSUME TypeOK, DatabaseIsMeaning, NEW line \in Line, TripLine(line), Complete(line)
  PROVE  DatabaseIsMeaning'
<1> DEFINE name == <<line[2]>>
           miles == Stod[line[5]]
           minutes == MinutesOfLine(line)
           trip == [startTime |-> line[3], stopTime |-> line[4], milesDriven |-> miles]
<1>1. /\ lines \in Seq(Line) /\ lines' = Append(lines, line) /\ line[1] = "Trip"
      /\ Len(line) = 5 /\ miles # NotANumber
  BY DEF TypeOK, TripLine, NextLine, Complete
<1>2. Driver!AddTrip(name, trip)
  BY <1>1 DEF TripLine, NameAfterTrip, StartTime, StopTime, MilesText
<1>3. miles \in Int /\ minutes \in Int /\ name \in Name
  <2>1. line[2] \in Field
    BY CompleteLine
  <2> QED
    BY <2>1, CompleteLine DEF Name
<1>4. ASSUME NEW n
      PROVE  Named(n)' <=> Named(n)
  <2>1. /\ DOMAIN lines' = 1..(Len(lines) + 1) /\ DOMAIN lines = 1..Len(lines)
        /\ lines'[Len(lines) + 1] = line
        /\ \A j \in DOMAIN lines : Names(j, n)' <=> Names(j, n)
    BY <1>1, EarlierLinesKeep
  <2>2. \A j : j = Len(lines) + 1 => ~ Names(j, n)'
    BY <1>1, <2>1 DEF Names
  <2>3. Len(lines) \in Nat
    BY <1>1
  <2> QED
    BY <2>1, <2>2, <2>3 DEF Named
<1>5. ASSUME NEW n
      PROVE  CountsFor(line, n) <=> n = name /\ AdmissibleLine(line) /\ Named(n)
  BY DEF CountsFor
<1>6. ASSUME NEW n
      PROVE  /\ MilesCounted(n)' = MilesCounted(n) + (IF CountsFor(line, n) THEN miles ELSE 0)
             /\ MinutesCounted(n)' =
                  MinutesCounted(n) + (IF CountsFor(line, n) THEN minutes ELSE 0)
             /\ MilesCounted(n) \in Int /\ MinutesCounted(n) \in Int
  BY <1>1, LineAdds
<1>7. ~ AtALimitLine(line) =>
        (Driver!IsTripValid(Driver!CalculateAverageSpeed(
           Driver!CalculateTripLength(trip.startTime, trip.stopTime), trip.milesDriven))
           <=> AdmissibleLine(line))
  BY ValidMeansAdmissible
<1>8. Driver!CalculateTripLength(trip.startTime, trip.stopTime) = minutes
  BY DEF Driver!CalculateTripLength, Driver!ConvertTimeToMinutes, ConvertTimeToMinutes,
         MinutesOfLine
<1>9. trip.milesDriven = miles
  OBVIOUS
<1> HIDE DEF name, miles, minutes, trip
<1>10. /\ DOMAIN driverDatabase' = DOMAIN driverDatabase
       /\ \A n \in DOMAIN driverDatabase : n # name => driverDatabase'[n] = driverDatabase[n]
  BY <1>2 DEF Driver!AddTrip, TypeOK, Driver!TypeOK, Driver!Registered
<1>11. ASSUME NEW n \in Name, n # name, ~ NameLeftOver(n)'
       PROVE  Meant(n)'
  BY <1>1, <1>4, <1>5, <1>10, <1>11, MeantStays
<1>12. ASSUME ~ NameLeftOver(name)'
       PROVE  Meant(name)'
  <2>1. Meant(name) /\ (OffTheLimits(name)' => OffTheLimits(name))
    BY <1>1, <1>3, <1>12, ExceptionsStay DEF DatabaseIsMeaning
  <2>2. name \in (Driver!Registered)' <=> Named(name)'
    BY <1>4, <1>10, <2>1 DEF Meant, Driver!Registered
  <2>3. ASSUME name \in Driver!Registered, OffTheLimits(name)'
        PROVE  RecordIs(name, MilesCounted(name), MinutesCounted(name))'
    <3>1. RecordIs(name, MilesCounted(name), MinutesCounted(name)) /\ Named(name)
      BY <2>1, <2>3 DEF Meant
    <3>2. ~ AtALimitLine(line)
      BY <1>1, <2>3, ExceptionsStay DEF name
    <3>3. CASE AdmissibleLine(line)
      <4>1. driverDatabase' =
              [driverDatabase EXCEPT ![name] = Driver!Credited(@, minutes, miles)]
        BY <1>2, <1>7, <1>8, <1>9, <2>3, <3>2, <3>3 DEF Driver!AddTrip
      <4>2. driverDatabase'[name] = Driver!Credited(driverDatabase[name], minutes, miles)
        BY <2>3, <4>1 DEF Driver!Registered
      <4>3. CountsFor(line, name)
        BY <1>5, <3>1, <3>3
      <4>4. /\ MilesCounted(name)' = MilesCounted(name) + miles
            /\ MinutesCounted(name)' = MinutesCounted(name) + minutes
        BY <1>6, <4>3
      <4> QED
        BY <3>1, <4>2, <4>4 DEF RecordIs, Driver!Credited
    <3>4. CASE ~ AdmissibleLine(line)
      <4>1. UNCHANGED driverDatabase
        BY <1>2, <1>7, <1>8, <1>9, <2>3, <3>2, <3>4 DEF Driver!AddTrip
      <4>2. ~ CountsFor(line, name)
        BY <1>5, <3>4
      <4>3. /\ MilesCounted(name)' = MilesCounted(name)
            /\ MinutesCounted(name)' = MinutesCounted(name)
        BY <1>6, <4>2
      <4> QED
        BY <3>1, <4>1, <4>3 DEF RecordIs
    <3> QED
      BY <3>3, <3>4
  <2> QED
    BY <1>10, <2>2, <2>3 DEF Meant, Driver!Registered
<1>13. ASSUME NEW n \in Name, ~ NameLeftOver(n)'
       PROVE  Meant(n)'
  BY <1>11, <1>12, <1>13
<1> QED
  BY <1>13 DEF DatabaseIsMeaning, Name

(* A line that names somebody is the source of the name that is then held. *)
LEMMA NameKeepsASource ==
  ASSUME TypeOK, NameHasASource, NEW line \in Line, lines' = Append(lines, line),
         \/ driverName' = driverName
         \/ line[1] = "Driver" /\ driverName' = NameAfterDriver(line)
         \/ line[1] = "Trip" /\ driverName' = NameAfterTrip(line)
  PROVE  NameHasASource'
<1>1. /\ DOMAIN lines' = 1..(Len(lines) + 1) /\ DOMAIN lines = 1..Len(lines)
      /\ Len(lines) + 1 \in DOMAIN lines' /\ lines'[Len(lines) + 1] = line
      /\ \A i \in DOMAIN lines : i \in DOMAIN lines' /\ lines'[i] = lines[i]
  <2>1. lines \in Seq(Line)
    BY DEF TypeOK
  <2> QED
    BY <2>1
<1>2. CASE driverName' = driverName
  BY <1>1, <1>2 DEF NameHasASource, Named, Names, TripOf, NoName
<1>3. CASE line[1] = "Driver" /\ Len(line) > 1 /\ driverName' = Rest(line)
  <2>1. Named(driverName)'
    BY <1>1, <1>3 DEF Named, Names
  <2> QED
    BY <2>1 DEF NameHasASource
<1>4. CASE line[1] = "Trip" /\ Len(line) > 1 /\ driverName' = <<line[2]>>
  <2>1. (\E i \in DOMAIN lines : TripOf(i, driverName))'
    BY <1>1, <1>4 DEF TripOf
  <2> QED
    BY <2>1 DEF NameHasASource
<1> QED
  BY <1>2, <1>3, <1>4 DEF NameAfterDriver, NameAfterTrip

(***************************************************************************)
(* The invariant: as long as what was processed is well formed, the        *)
(* database is the meaning of the lines read; the line that stopped the    *)
(* program, which is the last, named no driver; and the name the reader    *)
(* holds, which a Driver line without one takes over, is known.            *)
(***************************************************************************)
ProcessedWellFormed == \A i \in Processed : WellFormed(lines[i])

StoppedByTrip == status = "terminated" => lines # << >> /\ lines[Len(lines)][1] = "Trip"

LedgerInv ==
  /\ ProcessedWellFormed => DatabaseIsMeaning
  /\ StoppedByTrip
  /\ NameHasASource

(* While the program reads on, a further line is processed with the others,
   unless it stops the program.                                            *)
LEMMA ProcessedGrows ==
  ASSUME lines \in Seq(Line), NEW line \in Line, lines' = Append(lines, line),
         status = "reading", ProcessedWellFormed'
  PROVE  /\ ProcessedWellFormed
         /\ status' # "terminated" => WellFormed(line)
<1>1. /\ DOMAIN lines' = 1..(Len(lines) + 1) /\ DOMAIN lines = 1..Len(lines)
      /\ \A i \in DOMAIN lines : lines'[i] = lines[i]
      /\ lines'[Len(lines) + 1] = line
  BY EarlierLinesKeep
<1>2. Len(lines') = Len(lines) + 1 /\ Len(lines) \in Nat
  OBVIOUS
<1>3. Processed = DOMAIN lines
  BY DEF Processed
<1>4. DOMAIN lines \subseteq Processed'
  BY <1>1, <1>2 DEF Processed
<1>5. \A i \in Processed' : WellFormed(lines'[i])
  BY DEF ProcessedWellFormed
<1>6. \A i \in DOMAIN lines : WellFormed(lines[i])
  BY <1>1, <1>4, <1>5
<1>7. ASSUME status' # "terminated" PROVE WellFormed(line)
  <2>1. Processed' = DOMAIN lines'
    BY <1>7 DEF Processed
  <2>2. Len(lines) + 1 \in Processed'
    BY <1>1, <1>2, <2>1
  <2> QED
    BY <1>1, <1>5, <2>2
<1> QED
  BY <1>3, <1>6, <1>7 DEF ProcessedWellFormed

LEMMA LedgerInductive ==
  ASSUME TypeOK, LedgerInv, [Next]_vars
  PROVE  LedgerInv'
<1>0. lines \in Seq(Line)
  BY DEF TypeOK
<1>1. ASSUME NEW line \in Line, DriverLine(line)
      PROVE  LedgerInv'
  <2>1. /\ status = "reading" /\ status' = "reading" /\ lines' = Append(lines, line)
        /\ line[1] = "Driver"
    BY <1>1 DEF DriverLine, NextLine
  <2>2. ASSUME ProcessedWellFormed'
        PROVE  DatabaseIsMeaning'
    <3>1. DatabaseIsMeaning /\ WellFormed(line)
      BY <1>0, <2>1, <2>2, ProcessedGrows DEF LedgerInv
    <3>2. Len(line) \in Nat \ {0}
      BY LineType, EmptySeq
    <3>3. CASE Len(line) > 1
      BY <1>1, <3>1, <3>3, DriverLineIsMeant
    <3>4. CASE Len(line) = 1
      BY <1>1, <3>1, <3>4, NamelessLineIsMeant DEF LedgerInv
    <3>5. Len(line) > 1 \/ Len(line) = 1
      BY <3>2
    <3> QED
      BY <3>3, <3>4, <3>5
  <2>3. NameHasASource'
    BY <1>1, <2>1, NameKeepsASource DEF LedgerInv, DriverLine
  <2> QED
    BY <2>1, <2>2, <2>3 DEF LedgerInv, StoppedByTrip
<1>2. ASSUME NEW line \in Line, TripLine(line)
      PROVE  LedgerInv'
  <2>1. /\ status = "reading" /\ lines' = Append(lines, line)
        /\ line[1] = "Trip"
    BY <1>2 DEF TripLine, NextLine
  <2>2. StoppedByTrip'
    <3>1. lines' # << >> /\ lines'[Len(lines')] = line
      BY <1>0, <2>1
    <3> QED
      BY <2>1, <3>1 DEF StoppedByTrip
  <2>3. ASSUME ProcessedWellFormed', Stod[MilesText(line)] # NotANumber
        PROVE  DatabaseIsMeaning'
    <3>1. status' # "terminated"
      BY <1>2, <2>1, <2>3 DEF TripLine
    <3>2. DatabaseIsMeaning /\ WellFormed(line)
      BY <1>0, <2>1, <2>3, <3>1, ProcessedGrows DEF LedgerInv
    <3>3. Complete(line)
      BY <2>1, <3>2 DEF WellFormed
    <3> QED
      BY <1>2, <3>2, <3>3, TripLineIsMeant
  <2>4. ASSUME ProcessedWellFormed', Stod[MilesText(line)] = NotANumber
        PROVE  DatabaseIsMeaning'
    <3>1. DatabaseIsMeaning
      BY <1>0, <2>1, <2>4, ProcessedGrows DEF LedgerInv
    <3>2. UNCHANGED driverDatabase
      BY <1>2, <2>4 DEF TripLine, driverVars
    <3>3. ~ Complete(line)
      BY <2>4 DEF Complete, MilesText
    <3>4. line[1] # "Driver"
      BY <2>1
    <3> QED
      BY <2>1, <3>1, <3>2, <3>3, <3>4, IdleLineKeeps
  <2>5. NameHasASource'
    BY <1>2, <2>1, NameKeepsASource DEF LedgerInv, TripLine
  <2> QED
    BY <2>2, <2>3, <2>4, <2>5 DEF LedgerInv
<1>3. ASSUME NEW line \in Line, InvalidLine(line)
      PROVE  LedgerInv'
  <2>1. /\ status = "reading" /\ status' = "reading" /\ lines' = Append(lines, line)
        /\ line[1] \notin {"Driver", "Trip"} /\ UNCHANGED driverDatabase
    BY <1>3 DEF InvalidLine, NextLine, driverVars
  <2>2. ~ Complete(line) /\ line[1] # "Driver"
    BY <2>1 DEF Complete
  <2>3. ASSUME ProcessedWellFormed'
        PROVE  DatabaseIsMeaning'
    <3>1. DatabaseIsMeaning
      BY <1>0, <2>1, <2>3, ProcessedGrows DEF LedgerInv
    <3> QED
      BY <2>1, <2>2, <3>1, IdleLineKeeps
  <2>4. NameHasASource'
    BY <1>3, <2>1, NameKeepsASource DEF LedgerInv, InvalidLine
  <2> QED
    BY <2>1, <2>3, <2>4 DEF LedgerInv, StoppedByTrip
<1>4. CASE OpenFile \/ EndOfFile \/ Exit \/ UNCHANGED vars
  <2>1. /\ UNCHANGED <<lines, driverDatabase, driverName>>
        /\ status' = "terminated" <=> status = "terminated"
    BY <1>4 DEF OpenFile, EndOfFile, Exit, vars, driverVars, Driver!GenerateReport
  <2>2. Processed' = Processed
    BY <2>1 DEF Processed
  <2>3. ProcessedWellFormed' <=> ProcessedWellFormed
    BY <2>1, <2>2 DEF ProcessedWellFormed
  <2>4. \A name : /\ Named(name)' <=> Named(name)
                  /\ MilesCounted(name)' = MilesCounted(name)
                  /\ MinutesCounted(name)' = MinutesCounted(name)
    BY <2>1 DEF Named, Names, MilesCounted, MinutesCounted, Counted, Admissible, MilesOf,
         MinutesOf
  <2>5. \A name : /\ NameLeftOver(name)' <=> NameLeftOver(name)
                  /\ OffTheLimits(name)' <=> OffTheLimits(name)
    BY <2>1 DEF NameLeftOver, OffTheLimits, Names, TripOf, AtALimit, MilesOf, MinutesOf, NoName
  <2>6. \A name : Meant(name)' <=> Meant(name)
    BY <2>1, <2>4, <2>5 DEF Meant, RecordIs, Driver!Registered
  <2>7. DatabaseIsMeaning => DatabaseIsMeaning'
    BY <2>5, <2>6 DEF DatabaseIsMeaning, Name
  <2>8. StoppedByTrip' /\ NameHasASource'
    BY <2>1 DEF LedgerInv, StoppedByTrip, NameHasASource, Named, Names, TripOf, NoName
  <2> QED
    BY <2>3, <2>7, <2>8 DEF LedgerInv
<1> QED
  BY <1>1, <1>2, <1>3, <1>4 DEF Next

(* The database is exactly what the lines processed so far mean: the
   drivers that were named, and for each the sum of the trips that count,
   in any file, of any length, with any number of names, in which the Trip
   lines up to the one that stops the program are complete; with the two
   exceptions of LedgerCorrect.                                            *)
THEOREM LedgerIsCorrect == Spec => []LedgerCorrect
<1>1. Init => LedgerInv
  <2>1. ASSUME Init
        PROVE  DatabaseIsMeaning
    BY <2>1 DEF Init, Driver!Init, DatabaseIsMeaning, Meant, Driver!Registered, Named
  <2>2. Init => StoppedByTrip /\ NameHasASource
    BY DEF Init, StoppedByTrip, NameHasASource
  <2> QED
    BY <2>1, <2>2 DEF LedgerInv
<1>2. TypeOK /\ LedgerInv /\ [Next]_vars => LedgerInv'
  BY LedgerInductive
<1>3. TypeOK /\ LedgerInv => LedgerCorrect
  <2> SUFFICES ASSUME TypeOK, LedgerInv, ProcessedWellFormed,
                      NEW n \in Name, ~ NameLeftOver(n)
               PROVE  /\ n \in Driver!Registered <=> \E i \in Processed : Names(i, n)
                      /\ n \in Driver!Registered /\ OffTheLimits(n) =>
                           RecordIs(n, MilesCounted(n), MinutesCounted(n))
    BY DEF LedgerCorrect, ProcessedWellFormed, RecordIs
  <2>1. Meant(n) /\ StoppedByTrip
    BY DEF LedgerInv, DatabaseIsMeaning
  <2>2. Named(n) <=> \E i \in Processed : Names(i, n)
    <3>1. Processed \subseteq DOMAIN lines
      BY DEF Processed
    <3>2. ASSUME NEW i \in DOMAIN lines, Names(i, n)
          PROVE  i \in Processed
      <4>1. lines[i][1] = "Driver"
        BY <3>2 DEF Names
      <4> QED
        BY <2>1, <4>1 DEF Processed, StoppedByTrip
    <3> QED
      BY <3>1, <3>2 DEF Named
  <2> QED
    BY <2>1, <2>2 DEF Meant
<1> QED
  BY <1>1, <1>2, <1>3, ProgramTypeCorrect, PTL DEF Spec

=============================================================================
