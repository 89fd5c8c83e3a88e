-------------------------- MODULE TestRunnerProofs --------------------------
(***************************************************************************)
(* Theorems about the runner and about where failures go (TestRunner,      *)
(* ResultReporting) and what is told of the run (Reports): what RunAllTests*)
(* returns, that each selected test runs once in complete fixtures, that a *)
(* failure reaches the scope that asks for it, or else the current result, *)
(* and that the console, the XML file and the JSON file tell the run.      *)
(***************************************************************************)
EXTENDS TestRunner, ResultReporting, Reports, Inductions, SequenceTheorems,
        FiniteSetTheorems

-----------------------------------------------------------------------------
(***************************************************************************)
(* What Kept keeps of a sequence.                                          *)
(***************************************************************************)
KeepsUpTo(f, s, members, n) ==
  f = [i \in 0 .. n |-> IF i = 0 THEN << >>
                        ELSE IF s[i] \in members THEN Append(f[i - 1], s[i])
                        ELSE f[i - 1]]

LEMMA KeepsStep ==
  ASSUME NEW f, NEW s, NEW members, NEW n \in Nat, KeepsUpTo(f, s, members, n)
  PROVE  /\ f[0] = << >>
         /\ \A i \in 0 .. n : i # n =>
              f[i + 1] = IF s[i + 1] \in members THEN Append(f[i], s[i + 1]) ELSE f[i]
<1>1. \A i \in 0 .. n : f[i] = IF i = 0 THEN << >>
                               ELSE IF s[i] \in members THEN Append(f[i - 1], s[i])
                               ELSE f[i - 1]
  BY Zenon DEF KeepsUpTo
<1>2. f[0] = << >>
  BY <1>1
<1>3. ASSUME NEW i \in 0 .. n, i # n
      PROVE  f[i + 1] = IF s[i + 1] \in members THEN Append(f[i], s[i + 1]) ELSE f[i]
  <2>1. i + 1 \in 0 .. n /\ i + 1 # 0 /\ (i + 1) - 1 = i
    BY <1>3
  <2> QED
    BY <1>1, <2>1
<1> QED
  BY <1>2, <1>3

LEMMA KeptKeeps ==
  ASSUME NEW s, Len(s) \in Nat, NEW members
  PROVE  \E f : KeepsUpTo(f, s, members, Len(s)) /\ Kept(s, members) = f[Len(s)]
<1> DEFINE T == {n \in 0 .. Len(s) : \E f : KeepsUpTo(f, s, members, n)}
<1>1. 0 \in T
  <2>1. KeepsUpTo([i \in 0 .. 0 |-> << >>], s, members, 0)
    BY DEF KeepsUpTo
  <2> QED
    BY <2>1
<1>2. ASSUME NEW n \in 0 .. Len(s), n # Len(s), n \in T
      PROVE  n + 1 \in T
  <2>1. PICK f : KeepsUpTo(f, s, members, n)
    BY <1>2
  <2> DEFINE last1 == IF s[n + 1] \in members THEN Append(f[n], s[n + 1]) ELSE f[n]
             g == [i \in 0 .. (n + 1) |-> IF i = n + 1 THEN last1 ELSE f[i]]
             h == [i \in 0 .. (n + 1) |->
                     IF i = 0 THEN << >>
                     ELSE IF s[i] \in members THEN Append(g[i - 1], s[i]) ELSE g[i - 1]]
  <2>2. f[0] = << >> /\ \A i \in 0 .. n : i # n =>
          f[i + 1] = IF s[i + 1] \in members THEN Append(f[i], s[i + 1]) ELSE f[i]
    BY <2>1, KeepsStep
  <2>3. ASSUME NEW i \in 0 .. (n + 1)
        PROVE  g[i] = h[i]
    <3>1. CASE i = n + 1
      <4>1. h[i] = IF s[i] \in members THEN Append(g[i - 1], s[i]) ELSE g[i - 1]
        BY <3>1
      <4>2. i - 1 = n /\ g[n] = f[n]
        BY <3>1
      <4>3. g[i] = last1
        BY <3>1
      <4> QED
        BY <3>1, <4>1, <4>2, <4>3
    <3>2. CASE i = 0
      BY <2>2, <3>2
    <3>3. CASE i \in 1 .. n
      <4>1. i - 1 \in 0 .. n /\ i - 1 # n /\ (i - 1) + 1 = i
        BY <3>3
      <4>2. f[i] = IF s[i] \in members THEN Append(f[i - 1], s[i]) ELSE f[i - 1]
        BY <2>2, <4>1
      <4>3. g[i] = f[i] /\ g[i - 1] = f[i - 1]
        BY <3>3
      <4>4. h[i] = IF s[i] \in members THEN Append(g[i - 1], s[i]) ELSE g[i - 1]
        BY <3>3
      <4> QED
        BY <4>2, <4>3, <4>4
    <3> QED
      BY <3>1, <3>2, <3>3
  <2>4. g = h
    BY <2>3
  <2> HIDE DEF g, last1
  <2>5. KeepsUpTo(g, s, members, n + 1)
    BY <2>4 DEF KeepsUpTo
  <2>6. n + 1 \in 0 .. Len(s)
    BY <1>2
  <2> QED
    BY <2>5, <2>6
<1>3. \A n \in 0 .. Len(s) : n # Len(s) /\ n \in T => n + 1 \in T
  BY <1>2
<1> HIDE DEF T
<1>4. \A n \in 0 .. Len(s) : n \in T
  BY <1>1, <1>3, UpwardInduction
<1>5. Len(s) \in T
  BY <1>4
<1>6. \E f : KeepsUpTo(f, s, members, Len(s))
  BY <1>5 DEF T
<1> DEFINE kept == CHOOSE f : f = [n \in 0 .. Len(s) |->
                     IF n = 0 THEN << >>
                     ELSE IF s[n] \in members THEN Append(f[n - 1], s[n]) ELSE f[n - 1]]
<1>7. KeepsUpTo(kept, s, members, Len(s))
  BY <1>6, Zenon DEF KeepsUpTo
<1>8. Kept(s, members) = kept[Len(s)]
  BY DEF Kept
<1> HIDE DEF kept
<1> QED
  BY <1>7, <1>8

Elements(s) == {s[i] : i \in 1 .. Len(s)}

LEMMA ElementsAreRange ==
  ASSUME NEW T, NEW s \in Seq(T)
  PROVE  Range(s) = Elements(s)
BY DEF Range, Elements

NoneTwice(s) == \A i, j \in 1 .. Len(s) : s[i] = s[j] => i = j

LEMMA NoneTwiceIsInjective ==
  ASSUME NEW T, NEW s \in Seq(T)
  PROVE  IsInjective(s) <=> NoneTwice(s)
BY DEF IsInjective, NoneTwice

LEMMA AppendedElements ==
  ASSUME NEW T, NEW s \in Seq(T), NEW x \in T
  PROVE  /\ Append(s, x) \in Seq(T) /\ Len(Append(s, x)) = Len(s) + 1
         /\ Elements(Append(s, x)) = Elements(s) \cup {x}
         /\ NoneTwice(s) /\ x \notin Elements(s) => NoneTwice(Append(s, x))
<1>1. /\ Append(s, x) \in Seq(T) /\ Len(Append(s, x)) = Len(s) + 1
      /\ \A i \in 1 .. Len(s) : Append(s, x)[i] = s[i]
      /\ Append(s, x)[Len(s) + 1] = x
      /\ Len(s) \in Nat
  OBVIOUS
<1> DEFINE a == Append(s, x)
<1> HIDE DEF a
<1>2. Elements(a) = Elements(s) \cup {x}
  BY <1>1 DEF Elements, a
<1>3. ASSUME NoneTwice(s), x \notin Elements(s)
      PROVE  NoneTwice(a)
  BY <1>1, <1>3 DEF NoneTwice, Elements, a
<1> QED
  BY <1>1, <1>2, <1>3 DEF a

LEMMA KeptFacts ==
  ASSUME NEW T, NEW s \in Seq(T), NEW members
  PROVE  /\ Kept(s, members) \in Seq(T) /\ Len(Kept(s, members)) <= Len(s)
         /\ Elements(Kept(s, members)) = Elements(s) \cap members
         /\ NoneTwice(s) => NoneTwice(Kept(s, members))
<1>1. Len(s) \in Nat /\ \A i \in 1 .. Len(s) : s[i] \in T
  OBVIOUS
<1>2. PICK f : KeepsUpTo(f, s, members, Len(s)) /\ Kept(s, members) = f[Len(s)]
  BY <1>1, KeptKeeps
<1>3. /\ f[0] = << >>
      /\ \A i \in 0 .. Len(s) : i # Len(s) =>
           f[i + 1] = IF s[i + 1] \in members THEN Append(f[i], s[i + 1]) ELSE f[i]
  BY <1>1, <1>2, KeepsStep
<1> DEFINE Upto(n) == {s[i] : i \in 1 .. n}
           U == {n \in 0 .. Len(s) :
                   /\ f[n] \in Seq(T) /\ Len(f[n]) <= n
                   /\ Elements(f[n]) = Upto(n) \cap members
                   /\ NoneTwice(s) => NoneTwice(f[n])}
<1>4. 0 \in U
  <2>1. f[0] \in Seq(T) /\ Len(f[0]) = 0
    BY <1>3
  <2>2. Elements(f[0]) = {} /\ Upto(0) = {} /\ NoneTwice(f[0])
    BY <2>1 DEF Elements, NoneTwice
  <2> QED
    BY <1>1, <2>1, <2>2
<1>5. ASSUME NEW n \in 0 .. Len(s), n # Len(s), n \in U
      PROVE  n + 1 \in U
  <2> DEFINE x == s[n + 1]
  <2>1. /\ n + 1 \in 0 .. Len(s) /\ n + 1 \in 1 .. Len(s) /\ n \in Nat
        /\ f[n] \in Seq(T) /\ Len(f[n]) <= n /\ Len(f[n]) \in Nat
        /\ Elements(f[n]) = Upto(n) \cap members
        /\ NoneTwice(s) => NoneTwice(f[n])
        /\ x \in T
    BY <1>1, <1>5
  <2>2. Upto(n + 1) = Upto(n) \cup {x}
    <3>1. 1 .. (n + 1) = (1 .. n) \cup {n + 1}
      BY <2>1
    <3> QED
      BY <3>1
  <2>3. CASE x \notin members
    <3>1. f[n + 1] = f[n]
      BY <1>3, <1>5, <2>3
    <3>2. Upto(n + 1) \cap members = Upto(n) \cap members
      BY <2>2, <2>3
    <3> HIDE DEF Upto
    <3> QED
      BY <2>1, <3>1, <3>2
  <2>4. CASE x \in members
    <3>1. f[n + 1] = Append(f[n], x)
      BY <1>3, <1>5, <2>4
    <3>2. NoneTwice(s) => x \notin Elements(f[n])
      <4>1. ASSUME NoneTwice(s), NEW i \in 1 .. n PROVE s[i] # x
        BY <2>1, <4>1 DEF NoneTwice
      <4> QED
        BY <2>1, <4>1
    <3> HIDE DEF Upto, x
    <3>3. /\ Append(f[n], x) \in Seq(T) /\ Len(Append(f[n], x)) = Len(f[n]) + 1
          /\ Elements(Append(f[n], x)) = Elements(f[n]) \cup {x}
          /\ NoneTwice(f[n]) /\ x \notin Elements(f[n]) => NoneTwice(Append(f[n], x))
      BY <2>1, AppendedElements
    <3>4. Upto(n + 1) \cap members = (Upto(n) \cap members) \cup {x}
      BY <2>2, <2>4
    <3>5. f[n + 1] \in Seq(T) /\ Len(f[n + 1]) <= n + 1
      BY <2>1, <3>1, <3>3
    <3>6. Elements(f[n + 1]) = Upto(n + 1) \cap members
      BY <2>1, <3>1, <3>3, <3>4
    <3>7. NoneTwice(s) => NoneTwice(f[n + 1])
      BY <2>1, <3>1, <3>2, <3>3
    <3> QED
      BY <2>1, <3>5, <3>6, <3>7
  <2> QED
    BY <2>3, <2>4
<1>6. \A n \in 0 .. Len(s) : n # Len(s) /\ n \in U => n + 1 \in U
  BY <1>5
<1>7. Len(s) \in U
  <2> HIDE DEF U
  <2>1. \A n \in 0 .. Len(s) : n \in U
    BY <1>1, <1>4, <1>6, UpwardInduction
  <2> QED
    BY <1>1, <2>1
<1>8. Upto(Len(s)) = Elements(s)
  BY DEF Elements
<1> QED
  BY <1>2, <1>7, <1>8

(* Taking away what was put last, and only there, leaves the rest. *)
LEMMA WithoutTheLast ==
  ASSUME NEW T, NEW s \in Seq(T), NEW x \in T, x \notin Elements(s)
  PROVE  Without(Append(s, x), x) = s
<1> DEFINE a == Append(s, x)
           members == Range(a) \ {x}
<1>1. /\ a \in Seq(T) /\ Len(a) = Len(s) + 1 /\ Len(s) \in Nat
      /\ \A i \in 1 .. Len(s) : a[i] = s[i]
      /\ a[Len(s) + 1] = x
  OBVIOUS
<1>2. Range(a) = Elements(s) \cup {x}
  <2>1. Elements(Append(s, x)) = Elements(s) \cup {x}
    BY AppendedElements
  <2>2. Range(a) = Elements(a)
    BY <1>1, ElementsAreRange
  <2> QED
    BY <2>1, <2>2
<1>3. \A i \in 1 .. Len(s) : a[i] \in members
  BY <1>1, <1>2 DEF Elements
<1>4. Without(a, x) = Kept(a, members)
  BY DEF Without
<1> HIDE DEF a, members
<1>5. x \notin members
  BY DEF members
<1>6. PICK f : KeepsUpTo(f, a, members, Len(a)) /\ Kept(a, members) = f[Len(a)]
  BY <1>1, KeptKeeps
<1>7. /\ f[0] = << >>
      /\ \A i \in 0 .. Len(a) : i # Len(a) =>
           f[i + 1] = IF a[i + 1] \in members THEN Append(f[i], a[i + 1]) ELSE f[i]
  BY <1>1, <1>6, KeepsStep
<1> DEFINE U == {n \in 0 .. Len(s) : f[n] = SubSeq(s, 1, n)}
<1>8. 0 \in U
  <2>1. SubSeq(s, 1, 0) = << >>
    BY <1>1
  <2>2. f[0] = SubSeq(s, 1, 0)
    BY <1>7, <2>1
  <2>3. 0 \in 0 .. Len(s)
    BY <1>1
  <2> QED
    BY <2>2, <2>3
<1>9. ASSUME NEW n \in 0 .. Len(s), n # Len(s), n \in U
      PROVE  n + 1 \in U
  <2>1. n + 1 \in 1 .. Len(s) /\ n \in 0 .. Len(a) /\ n # Len(a) /\ n + 1 \in 0 .. Len(s)
    BY <1>1, <1>9
  <2>2. f[n + 1] = Append(SubSeq(s, 1, n), s[n + 1])
    BY <1>1, <1>3, <1>7, <1>9, <2>1
  <2>3. Append(SubSeq(s, 1, n), s[n + 1]) = SubSeq(s, 1, n + 1)
    BY <2>1
  <2> QED
    BY <2>1, <2>2, <2>3
<1>10. \A n \in 0 .. Len(s) : n # Len(s) /\ n \in U => n + 1 \in U
  BY <1>9
<1>11. Len(s) \in U
  <2> HIDE DEF U
  <2>1. \A n \in 0 .. Len(s) : n \in U
    BY <1>1, <1>8, <1>10, UpwardInduction
  <2> QED
    BY <1>1, <2>1
<1>12. f[Len(s)] = s
  BY <1>11
<1>13. f[Len(s) + 1] = f[Len(s)]
  BY <1>1, <1>5, <1>7
<1> QED
  BY <1>1, <1>4, <1>6, <1>12, <1>13 DEF a

-----------------------------------------------------------------------------
(***************************************************************************)
(* The suites and their tests.                                             *)
(***************************************************************************)
Has(s, t) == t \in Test /\ SuiteOf[t] = s

(* The tests of a suite, each once. *)
LEMMA TestsOfSuite ==
  ASSUME NEW s
  PROVE  /\ TestsOf(s) \in Seq(Test) /\ Len(TestsOf(s)) <= Len(Registered)
         /\ \A t : t \in Elements(TestsOf(s)) <=> Has(s, t)
         /\ NoneTwice(TestsOf(s))
<1> DEFINE members == {t \in Test : SuiteOf[t] = s}
<1>1. Registered \in Seq(Test) /\ NoneTwice(Registered)
  BY RegisteredOnce, NoneTwiceIsInjective
<1>2. Elements(Registered) = Test
  BY <1>1, ElementsAreRange DEF Test
<1>3. TestsOf(s) = Kept(Registered, members)
  BY DEF TestsOf
<1> HIDE DEF members
<1>4. /\ Kept(Registered, members) \in Seq(Test)
      /\ Len(Kept(Registered, members)) <= Len(Registered)
      /\ Elements(Kept(Registered, members)) = Elements(Registered) \cap members
      /\ NoneTwice(Kept(Registered, members))
  BY <1>1, KeptFacts
<1> QED
  BY <1>2, <1>3, <1>4 DEF Has, members

LEMMA RangeIsSmall ==
  ASSUME NEW T, NEW s \in Seq(T)
  PROVE  IsFiniteSet(Elements(s)) /\ Cardinality(Elements(s)) <= Len(s)
<1>1. Len(s) \in Nat /\ s \in [1 .. Len(s) -> Elements(s)]
  BY DEF Elements
<1>2. s \in Surjection(1 .. Len(s), Elements(s))
  BY <1>1 DEF Surjection, Elements
<1>3. IsFiniteSet(1 .. Len(s)) /\ Cardinality(1 .. Len(s)) = Len(s)
  BY <1>1, FS_Interval
<1> QED
  BY <1>2, <1>3, FS_Surjection

LEMMA Inserted ==
  ASSUME NEW T, NEW s \in Seq(T), NEW x \in T, NEW n \in 1 .. (Len(s) + 1),
         NoneTwice(s), x \notin Elements(s)
  PROVE  /\ InsertAt(s, n, x) \in Seq(T)
         /\ Elements(InsertAt(s, n, x)) = Elements(s) \cup {x}
         /\ NoneTwice(InsertAt(s, n, x))
<1> DEFINE a == InsertAt(s, n, x)
<1>1. Len(s) \in Nat /\ n \in Nat
  OBVIOUS
<1> DEFINE before == SubSeq(s, 1, n - 1)
           after == SubSeq(s, n, Len(s))
<1>2. /\ before \in Seq(T) /\ Len(before) = n - 1
      /\ \A i \in 1 .. (n - 1) : before[i] = s[i]
  BY <1>1
<1>3. /\ after \in Seq(T) /\ Len(after) = Len(s) - n + 1
      /\ \A i \in 1 .. (Len(s) - n + 1) : after[i] = s[i + n - 1]
  BY <1>1
<1>4. a = (before \o <<x>>) \o after
  BY DEF InsertAt
<1> HIDE DEF a, before, after
<1> DEFINE start == before \o <<x>>
<1>5. /\ start \in Seq(T) /\ Len(start) = n
      /\ \A i \in 1 .. n : start[i] = IF i < n THEN s[i] ELSE x
  BY <1>1, <1>2
<1>6. a \in Seq(T) /\ Len(a) = Len(s) + 1
  <2> HIDE DEF start
  <2>1. a = start \o after
    BY <1>4 DEF start
  <2>2. (start \o after) \in Seq(T) /\ Len(start \o after) = Len(start) + Len(after)
    BY <1>3, <1>5, ConcatProperties
  <2> QED
    BY <1>1, <1>3, <1>5, <2>1, <2>2
<1>7. ASSUME NEW i \in 1 .. (Len(s) + 1)
      PROVE  a[i] = IF i < n THEN s[i] ELSE IF i = n THEN x ELSE s[i - 1]
  <2> HIDE DEF start
  <2>1. a = start \o after
    BY <1>4 DEF start
  <2>2. CASE i <= n
    <3>1. a[i] = start[i]
      BY <1>1, <1>3, <1>5, <2>1, <2>2
    <3> QED
      BY <1>1, <1>5, <2>2, <3>1
  <2>3. CASE i > n
    <3>1. i - n \in 1 .. (Len(s) - n + 1)
      BY <1>1, <2>3
    <3>2. a[i] = after[i - n]
      BY <1>1, <1>3, <1>5, <2>1, <2>3
    <3>3. (i - n) + n - 1 = i - 1
      BY <1>1
    <3> QED
      BY <1>1, <1>3, <2>3, <3>1, <3>2, <3>3
  <2> QED
    BY <1>1, <2>2, <2>3
<1> HIDE DEF start
<1>8. Elements(a) = Elements(s) \cup {x}
  <2>1. ASSUME NEW y \in Elements(a) PROVE y \in Elements(s) \cup {x}
    <3>1. PICK i \in 1 .. (Len(s) + 1) : y = a[i]
      BY <1>6, <2>1 DEF Elements
    <3> QED
      BY <1>1, <1>7, <3>1 DEF Elements
  <2>2. ASSUME NEW y \in Elements(s) PROVE y \in Elements(a)
    <3>1. PICK i \in 1 .. Len(s) : y = s[i]
      BY <2>2 DEF Elements
    <3>2. CASE i < n
      <4>1. i \in 1 .. (Len(s) + 1) /\ a[i] = y
        BY <1>1, <1>7, <3>1, <3>2
      <4> QED
        BY <1>6, <4>1 DEF Elements
    <3>3. CASE ~ (i < n)
      <4>1. i + 1 \in 1 .. (Len(s) + 1) /\ a[i + 1] = y
        BY <1>1, <1>7, <3>1, <3>3
      <4> QED
        BY <1>6, <4>1 DEF Elements
    <3> QED
      BY <3>2, <3>3
  <2>3. x \in Elements(a)
    BY <1>1, <1>6, <1>7 DEF Elements
  <2> QED
    BY <2>1, <2>2, <2>3
<1>9. NoneTwice(a)
  <2>1. \A i \in 1 .. Len(s) : s[i] # x
    BY DEF Elements
  <2>2. \A i, j \in 1 .. Len(s) : s[i] = s[j] => i = j
    BY DEF NoneTwice
  <2>3. ASSUME NEW i \in 1 .. (Len(s) + 1), NEW j \in 1 .. (Len(s) + 1), a[i] = a[j]
        PROVE  i = j
    <3>1. i < n => i \in 1 .. Len(s)
      BY <1>1
    <3>2. i > n => i - 1 \in 1 .. Len(s)
      BY <1>1
    <3>3. j < n => j \in 1 .. Len(s)
      BY <1>1
    <3>4. j > n => j - 1 \in 1 .. Len(s)
      BY <1>1
    <3> QED
      BY <1>1, <1>7, <2>1, <2>2, <2>3, <3>1, <3>2, <3>3, <3>4
  <2> QED
    BY <1>6, <2>3 DEF NoneTwice
<1> QED
  BY <1>6, <1>8, <1>9 DEF a

(* A suite is added once, wherever it goes. *)
LEMMA AddSuiteFacts ==
  ASSUME NEW list \in Seq(Suite), NoneTwice(list), NEW t \in Test
  PROVE  /\ AddSuite(list, t) \in Seq(Suite) /\ NoneTwice(AddSuite(list, t))
         /\ Elements(AddSuite(list, t)) = Elements(list) \cup {SuiteOf[t]}
<1> DEFINE deaths == Cardinality(Range(list) \cap DeathSuites)
           s == SuiteOf[t]
<1>1. s \in Suite
  BY DEF Suite
<1>2. Range(list) = Elements(list)
  BY ElementsAreRange
<1>3. deaths \in Nat /\ deaths <= Len(list)
  <2>1. IsFiniteSet(Elements(list)) /\ Cardinality(Elements(list)) <= Len(list)
    BY RangeIsSmall
  <2>2. /\ IsFiniteSet(Elements(list) \cap DeathSuites)
        /\ Cardinality(Elements(list) \cap DeathSuites) <= Cardinality(Elements(list))
    BY <2>1, FS_Subset
  <2>3. /\ Cardinality(Elements(list) \cap DeathSuites) \in Nat
        /\ Cardinality(Elements(list)) \in Nat
    BY <2>1, <2>2, FS_CardinalityType
  <2>4. Len(list) \in Nat
    OBVIOUS
  <2> QED
    BY <1>2, <2>1, <2>2, <2>3, <2>4
<1>4. AddSuite(list, t) = IF s \in Elements(list) THEN list
                          ELSE IF s \in DeathSuites THEN InsertAt(list, deaths + 1, s)
                          ELSE Append(list, s)
  BY <1>2 DEF AddSuite
<1> HIDE DEF deaths, s
<1>5. CASE s \in Elements(list)
  BY <1>4, <1>5 DEF s
<1>6. CASE s \notin Elements(list) /\ s \in DeathSuites
  <2>1. deaths + 1 \in 1 .. (Len(list) + 1)
    BY <1>3
  <2> QED
    BY <1>1, <1>4, <1>6, <2>1, Inserted DEF s
<1>7. CASE s \notin Elements(list) /\ s \notin DeathSuites
  BY <1>1, <1>4, <1>7, AppendedElements DEF s
<1> QED
  BY <1>5, <1>6, <1>7

SuitesUpTo(f, n) ==
  f = [i \in 0 .. n |-> IF i = 0 THEN << >> ELSE AddSuite(f[i - 1], Registered[i])]

LEMMA SuitesStep ==
  ASSUME NEW f, NEW n \in Nat, SuitesUpTo(f, n)
  PROVE  /\ f[0] = << >>
         /\ \A i \in 0 .. n : i # n => f[i + 1] = AddSuite(f[i], Registered[i + 1])
<1>1. \A i \in 0 .. n : f[i] = IF i = 0 THEN << >> ELSE AddSuite(f[i - 1], Registered[i])
  BY Zenon DEF SuitesUpTo
<1>2. f[0] = << >>
  BY <1>1
<1>3. ASSUME NEW i \in 0 .. n, i # n
      PROVE  f[i + 1] = AddSuite(f[i], Registered[i + 1])
  <2>1. i + 1 \in 0 .. n /\ i + 1 # 0 /\ (i + 1) - 1 = i
    BY <1>3
  <2> QED
    BY <1>1, <2>1
<1> QED
  BY <1>2, <1>3

LEMMA SuitesAreAdded ==
  \E f : SuitesUpTo(f, Len(Registered)) /\ test_suites = f[Len(Registered)]
<1> DEFINE T == {n \in 0 .. Len(Registered) : \E f : SuitesUpTo(f, n)}
<1>0. Len(Registered) \in Nat
  BY RegisteredOnce
<1>1. 0 \in T
  <2>1. SuitesUpTo([i \in 0 .. 0 |-> << >>], 0)
    BY DEF SuitesUpTo
  <2> QED
    BY <1>0, <2>1
<1>2. ASSUME NEW n \in 0 .. Len(Registered), n # Len(Registered), n \in T
      PROVE  n + 1 \in T
  <2>1. PICK f : SuitesUpTo(f, n)
    BY <1>2
  <2> DEFINE more == AddSuite(f[n], Registered[n + 1])
             g == [i \in 0 .. (n + 1) |-> IF i = n + 1 THEN more ELSE f[i]]
             h == [i \in 0 .. (n + 1) |->
                     IF i = 0 THEN << >> ELSE AddSuite(g[i - 1], Registered[i])]
  <2>2. f[0] = << >> /\ \A i \in 0 .. n : i # n =>
          f[i + 1] = AddSuite(f[i], Registered[i + 1])
    BY <1>0, <2>1, SuitesStep
  <2>3. ASSUME NEW i \in 0 .. (n + 1)
        PROVE  g[i] = h[i]
    <3>1. CASE i = n + 1
      <4>1. h[i] = AddSuite(g[i - 1], Registered[i])
        BY <1>0, <3>1
      <4>2. i - 1 = n /\ g[n] = f[n]
        BY <1>0, <3>1
      <4>3. g[i] = more
        BY <3>1
      <4> QED
        BY <3>1, <4>1, <4>2, <4>3
    <3>2. CASE i = 0
      BY <1>0, <2>2, <3>2
    <3>3. CASE i \in 1 .. n
      <4>1. i - 1 \in 0 .. n /\ i - 1 # n /\ (i - 1) + 1 = i
        BY <1>0, <3>3
      <4>2. f[i] = AddSuite(f[i - 1], Registered[i])
        BY <2>2, <4>1
      <4>3. g[i] = f[i] /\ g[i - 1] = f[i - 1]
        BY <1>0, <3>3
      <4>4. h[i] = AddSuite(g[i - 1], Registered[i])
        BY <3>3
      <4> QED
        BY <4>2, <4>3, <4>4
    <3> QED
      BY <1>0, <3>1, <3>2, <3>3
  <2>4. g = h
    BY <2>3
  <2> HIDE DEF g, more
  <2>5. SuitesUpTo(g, n + 1)
    BY <2>4 DEF SuitesUpTo
  <2>6. n + 1 \in 0 .. Len(Registered)
    BY <1>0, <1>2
  <2> QED
    BY <2>5, <2>6
<1>3. \A n \in 0 .. Len(Registered) : n # Len(Registered) /\ n \in T => n + 1 \in T
  BY <1>2
<1> HIDE DEF T
<1>4. \A n \in 0 .. Len(Registered) : n \in T
  BY <1>0, <1>1, <1>3, UpwardInduction
<1>5. Len(Registered) \in T
  BY <1>0, <1>4
<1>6. \E f : SuitesUpTo(f, Len(Registered))
  BY <1>5 DEF T
<1> DEFINE suites == CHOOSE f : f = [n \in 0 .. Len(Registered) |->
                       IF n = 0 THEN << >> ELSE AddSuite(f[n - 1], Registered[n])]
<1>7. SuitesUpTo(suites, Len(Registered))
  BY <1>6, Zenon DEF SuitesUpTo
<1>8. test_suites = suites[Len(Registered)]
  BY DEF test_suites
<1> HIDE DEF suites
<1> QED
  BY <1>7, <1>8

(* The list of suites holds every suite once. *)
LEMMA SuitesOnce ==
  /\ test_suites \in Seq(Suite) /\ NoneTwice(test_suites)
  /\ Elements(test_suites) = Suite
<1>1. Len(Registered) \in Nat /\ \A i \in 1 .. Len(Registered) : Registered[i] \in Test
  BY RegisteredOnce
<1>2. PICK f : SuitesUpTo(f, Len(Registered)) /\ test_suites = f[Len(Registered)]
  BY SuitesAreAdded
<1>3. /\ f[0] = << >>
      /\ \A i \in 0 .. Len(Registered) : i # Len(Registered) =>
           f[i + 1] = AddSuite(f[i], Registered[i + 1])
  BY <1>1, <1>2, SuitesStep
<1> DEFINE Upto(n) == {SuiteOf[Registered[i]] : i \in 1 .. n}
           U == {n \in 0 .. Len(Registered) :
                   f[n] \in Seq(Suite) /\ NoneTwice(f[n]) /\ Elements(f[n]) = Upto(n)}
<1>4. 0 \in U
  <2>1. f[0] \in Seq(Suite) /\ Len(f[0]) = 0
    BY <1>3
  <2>2. Elements(f[0]) = {} /\ Upto(0) = {} /\ NoneTwice(f[0])
    BY <2>1 DEF Elements, NoneTwice
  <2>3. 0 \in 0 .. Len(Registered)
    BY <1>1
  <2> QED
    BY <2>1, <2>2, <2>3
<1>5. ASSUME NEW n \in 0 .. Len(Registered), n # Len(Registered), n \in U
      PROVE  n + 1 \in U
  <2>1. n + 1 \in 0 .. Len(Registered) /\ Registered[n + 1] \in Test /\ n \in Nat
    BY <1>1, <1>5
  <2>2. f[n] \in Seq(Suite) /\ NoneTwice(f[n]) /\ Elements(f[n]) = Upto(n)
    BY <1>5
  <2>3. f[n + 1] = AddSuite(f[n], Registered[n + 1])
    BY <1>3, <1>5
  <2>4. Upto(n + 1) = Upto(n) \cup {SuiteOf[Registered[n + 1]]}
    <3>1. 1 .. (n + 1) = (1 .. n) \cup {n + 1}
      BY <2>1
    <3> QED
      BY <3>1
  <2> HIDE DEF Upto
  <2>5. /\ f[n + 1] \in Seq(Suite) /\ NoneTwice(f[n + 1])
        /\ Elements(f[n + 1]) = Upto(n) \cup {SuiteOf[Registered[n + 1]]}
    BY <2>1, <2>2, <2>3, AddSuiteFacts
  <2> QED
    BY <2>1, <2>4, <2>5
<1>6. \A n \in 0 .. Len(Registered) : n # Len(Registered) /\ n \in U => n + 1 \in U
  BY <1>5
<1>7. Len(Registered) \in U
  <2> HIDE DEF U
  <2>1. \A n \in 0 .. Len(Registered) : n \in U
    BY <1>1, <1>4, <1>6, UpwardInduction
  <2> QED
    BY <1>1, <2>1
<1>8. Upto(Len(Registered)) = Suite
  <2>1. Test = {Registered[i] : i \in 1 .. Len(Registered)}
    BY RegisteredOnce, ElementsAreRange DEF Test, Elements
  <2> QED
    BY <2>1 DEF Suite
<1> QED
  BY <1>2, <1>7, <1>8

(* A permutation of 1..n leaves no number out. *)
LEMMA OrderIsOnto ==
  ASSUME NEW n \in Nat, NEW p \in Orders(n)
  PROVE  /\ p \in [1 .. n -> 1 .. n]
         /\ \A i, j \in 1 .. n : p[i] = p[j] => i = j
         /\ \A k \in 1 .. n : \E i \in 1 .. n : p[i] = k
<1>1. p \in [1 .. n -> 1 .. n] /\ \A i, j \in 1 .. n : p[i] = p[j] => i = j
  BY DEF Orders, IsInjective
<1>2. p \in Injection(1 .. n, 1 .. n)
  BY <1>1 DEF Injection, IsInjective
<1>3. IsFiniteSet(1 .. n)
  BY FS_Interval
<1>4. p \in Surjection(1 .. n, 1 .. n)
  BY <1>2, <1>3, FS_Injection
<1> QED
  BY <1>1, <1>4 DEF Surjection

LEMMA IdentityIsOrder ==
  ASSUME NEW n \in Nat
  PROVE  Identity(n) \in Orders(n)
BY DEF Identity, Orders, IsInjective

-----------------------------------------------------------------------------
(***************************************************************************)
(* Where the runner is: which suite and which test are current, and that   *)
(* the positions lie inside the lists.                                     *)
(***************************************************************************)
TestHook == {"construct", "setUp", "wrongFixture", "body", "tearDown",
             "destroy", "testEnd"}
SuiteHook == TestHook \cup {"suiteSetUp", "test", "suiteTearDown"}
Iterating == SuiteHook \cup {"envSetUp", "suite", "envTearDown", "iterationEnd"}

PlaceInv ==
  /\ pc \in Iterating => iteration # flags.repeat
  /\ pc \in Iterating \cup {"iteration"} =>
       should_run = FilterTests(flags) /\ ValidShards(flags)
  /\ pc \in SuiteHook =>
       /\ suite_pos <= Len(test_suites)
       /\ current_test_suite = SuiteAt(suite_pos)
  /\ pc \in TestHook =>
       /\ test_pos <= Len(TestsOf(current_test_suite))
       /\ current_test_info = TestAt(current_test_suite, test_pos)
       /\ current_test_info \in should_run
  /\ pc = "test" => test_pos <= Len(TestsOf(current_test_suite)) + 1
  /\ pc = "suiteTearDown" => test_pos = Len(TestsOf(current_test_suite)) + 1
  /\ pc \notin SuiteHook \cup {"terminated"} => current_test_suite = None
  /\ pc \notin TestHook \cup {"terminated"} => current_test_info = None

Lists ==
  /\ test_suites \in Seq(Suite) /\ Len(test_suites) \in Nat
  /\ Len(Registered) \in Nat
  /\ \A s : Len(TestsOf(s)) \in Nat /\ Len(TestsOf(s)) <= Len(Registered)

LEMMA ListsAreFinite == Lists
<1>1. test_suites \in Seq(Suite) /\ Len(test_suites) \in Nat
  BY SuitesOnce
<1>2. Len(Registered) \in Nat
  BY RegisteredOnce
<1>3. \A s : Len(TestsOf(s)) \in Nat /\ Len(TestsOf(s)) <= Len(Registered)
  <2> TAKE s
  <2>1. TestsOf(s) \in Seq(Test) /\ Len(TestsOf(s)) <= Len(Registered)
    BY TestsOfSuite
  <2> QED
    BY <2>1
<1> QED
  BY <1>1, <1>2, <1>3 DEF Lists

(* What a position stands for: every suite, and every test of a suite, has *)
(* exactly one position, however they were shuffled.                       *)
LEMMA PositionsStandForAll ==
  ASSUME suite_indices \in Orders(Len(test_suites)),
         \A s \in Suite : test_indices[s] \in Orders(Len(TestsOf(s)))
  PROVE  /\ \A k \in 1 .. Len(test_suites) : SuiteAt(k) \in Suite
         /\ \A k, l \in 1 .. Len(test_suites) : SuiteAt(k) = SuiteAt(l) => k = l
         /\ \A s \in Suite : \E k \in 1 .. Len(test_suites) : SuiteAt(k) = s
         /\ \A s \in Suite : \A k \in 1 .. Len(TestsOf(s)) : Has(s, TestAt(s, k))
         /\ \A s \in Suite : \A k, l \in 1 .. Len(TestsOf(s)) :
              TestAt(s, k) = TestAt(s, l) => k = l
         /\ \A s \in Suite : \A t : Has(s, t) =>
              \E k \in 1 .. Len(TestsOf(s)) : TestAt(s, k) = t
<1>1. /\ Len(test_suites) \in Nat /\ test_suites \in Seq(Suite)
      /\ NoneTwice(test_suites) /\ Elements(test_suites) = Suite
  BY SuitesOnce
<1>2. /\ suite_indices \in [1 .. Len(test_suites) -> 1 .. Len(test_suites)]
      /\ \A i, j \in 1 .. Len(test_suites) : suite_indices[i] = suite_indices[j] => i = j
      /\ \A k \in 1 .. Len(test_suites) :
           \E i \in 1 .. Len(test_suites) : suite_indices[i] = k
  BY <1>1, OrderIsOnto
<1>3. /\ \A k \in 1 .. Len(test_suites) : SuiteAt(k) \in Suite
      /\ \A k, l \in 1 .. Len(test_suites) : SuiteAt(k) = SuiteAt(l) => k = l
      /\ \A s \in Suite : \E k \in 1 .. Len(test_suites) : SuiteAt(k) = s
  <2> DEFINE n == Len(test_suites)
             p == suite_indices
  <2>1. /\ \A k \in 1 .. n : test_suites[k] \in Suite
        /\ \A k, l \in 1 .. n : test_suites[k] = test_suites[l] => k = l
        /\ \A s \in Suite : \E k \in 1 .. n : test_suites[k] = s
    BY <1>1 DEF NoneTwice, Elements
  <2>2. \A k : SuiteAt(k) = test_suites[p[k]]
    BY DEF SuiteAt
  <2>3. /\ p \in [1 .. n -> 1 .. n]
        /\ \A i, j \in 1 .. n : p[i] = p[j] => i = j
        /\ \A k \in 1 .. n : \E i \in 1 .. n : p[i] = k
    BY <1>2
  <2> HIDE DEF n, p
  <2>4. ASSUME NEW k \in 1 .. n
        PROVE  SuiteAt(k) \in Suite /\ p[k] \in 1 .. n
    <3>1. p[k] \in 1 .. n
      BY <2>3
    <3> QED
      BY <2>1, <2>2, <3>1
  <2>5. ASSUME NEW k \in 1 .. n, NEW l \in 1 .. n, SuiteAt(k) = SuiteAt(l)
        PROVE  k = l
    <3>1. p[k] \in 1 .. n /\ p[l] \in 1 .. n
      BY <2>4
    <3>2. test_suites[p[k]] = test_suites[p[l]]
      BY <2>2, <2>5
    <3>3. p[k] = p[l]
      BY <2>1, <3>1, <3>2
    <3> QED
      BY <2>3, <3>3
  <2>6. \A s \in Suite : \E k \in 1 .. n : SuiteAt(k) = s
    BY <2>1, <2>2, <2>3
  <2> QED
    BY <2>4, <2>5, <2>6 DEF n
<1>4. ASSUME NEW s \in Suite
      PROVE  /\ \A k \in 1 .. Len(TestsOf(s)) : Has(s, TestAt(s, k))
             /\ \A k, l \in 1 .. Len(TestsOf(s)) : TestAt(s, k) = TestAt(s, l) => k = l
             /\ \A t : Has(s, t) => \E k \in 1 .. Len(TestsOf(s)) : TestAt(s, k) = t
  <2>1. /\ Len(TestsOf(s)) \in Nat /\ NoneTwice(TestsOf(s))
        /\ \A t : t \in Elements(TestsOf(s)) <=> Has(s, t)
    BY TestsOfSuite
  <2>2. test_indices[s] \in Orders(Len(TestsOf(s)))
    BY <1>4
  <2> DEFINE p == test_indices[s]
             n == Len(TestsOf(s))
  <2>3. /\ p \in [1 .. n -> 1 .. n]
        /\ \A i, j \in 1 .. n : p[i] = p[j] => i = j
        /\ \A k \in 1 .. n : \E i \in 1 .. n : p[i] = k
    BY <2>1, <2>2, OrderIsOnto
  <2>4. \A k : TestAt(s, k) = TestsOf(s)[p[k]]
    BY DEF TestAt
  <2> HIDE DEF p
  <2>5. \A i \in 1 .. n : Has(s, TestsOf(s)[i])
    BY <2>1 DEF Elements
  <2>6. \A t : Has(s, t) => \E i \in 1 .. n : TestsOf(s)[i] = t
    BY <2>1 DEF Elements
  <2>7. \A i, j \in 1 .. n : TestsOf(s)[i] = TestsOf(s)[j] => i = j
    BY <2>1 DEF NoneTwice
  <2> HIDE DEF n
  <2>8. /\ \A k \in 1 .. n : Has(s, TestAt(s, k))
        /\ \A k, l \in 1 .. n : TestAt(s, k) = TestAt(s, l) => k = l
    <3>1. ASSUME NEW k \in 1 .. n
          PROVE  Has(s, TestAt(s, k)) /\ p[k] \in 1 .. n
      <4>1. p[k] \in 1 .. n
        BY <2>3
      <4> QED
        BY <2>4, <2>5, <4>1
    <3>2. ASSUME NEW k \in 1 .. n, NEW l \in 1 .. n, TestAt(s, k) = TestAt(s, l)
          PROVE  k = l
      <4>1. p[k] \in 1 .. n /\ p[l] \in 1 .. n
        BY <3>1
      <4>2. TestsOf(s)[p[k]] = TestsOf(s)[p[l]]
        BY <2>4, <3>2
      <4>3. p[k] = p[l]
        BY <2>7, <4>1, <4>2
      <4> QED
        BY <2>3, <4>3
    <3> QED
      BY <3>1, <3>2
  <2>9. \A t : Has(s, t) => \E k \in 1 .. n : TestAt(s, k) = t
    BY <2>3, <2>4, <2>6
  <2> QED
    BY <2>8, <2>9 DEF n
<1> QED
  BY <1>3, <1>4

LEMMA SelectedTests == \A f \in FlagSettings : FilterTests(f) \subseteq Test
BY FlagsType DEF FilterTests, Runnable

LEMMA PartsAreParts == \A o \in Outcome : PartsOf(o) \subseteq Part
BY DEF PartsOf, Part, Outcome

(* A report adds parts where the code is, and tells the listeners.         *)
LEMMA ReportAddsParts ==
  ASSUME TypeOK, NEW parts, parts \subseteq Part, Report(parts)
  PROVE  /\ result' \in [Test -> SUBSET Part]
         /\ suite_result' \in [Suite -> SUBSET Part]
         /\ ad_hoc' \subseteq Part /\ ad_hoc \subseteq ad_hoc'
         /\ heard' \subseteq {"test", "suite", "outside"}
<1>1. /\ current_test_info \in Test \cup {None}
      /\ current_test_suite \in Suite \cup {None}
      /\ result \in [Test -> SUBSET Part] /\ suite_result \in [Suite -> SUBSET Part]
      /\ ad_hoc \subseteq Part /\ heard \subseteq {"test", "suite", "outside"}
  BY DEF TypeOK
<1>2. Place = "test" => current_test_info \in Test
  BY <1>1 DEF Place
<1>3. Place = "suite" => current_test_suite \in Suite
  BY <1>1 DEF Place
<1>4. Place \in {"test", "suite", "outside"}
  BY DEF Place
<1>5. result' \in [Test -> SUBSET Part]
  BY <1>1, <1>2 DEF Report
<1>6. suite_result' \in [Suite -> SUBSET Part]
  BY <1>1, <1>3 DEF Report
<1>7. ad_hoc' \subseteq Part /\ ad_hoc \subseteq ad_hoc'
  BY <1>1 DEF Report
<1>8. heard' \subseteq {"test", "suite", "outside"}
  BY <1>1, <1>4 DEF Report
<1> QED
  BY <1>5, <1>6, <1>7, <1>8

(* What a hook does to the state, whichever hook it is. *)
LEMMA Called ==
  ASSUME TypeOK, NEW hook \in Hook, NEW o, NEW next, Call(hook, o, next)
  PROVE  /\ result' \in [Test -> SUBSET Part]
         /\ suite_result' \in [Suite -> SUBSET Part]
         /\ ad_hoc' \subseteq Part /\ ad_hoc \subseteq ad_hoc'
         /\ heard' \subseteq {"test", "suite", "outside"}
         /\ pc = hook /\ pc' \in {next, "terminated"}
         /\ UNCHANGED <<flags, order, should_run, failed, ended>>
<1>1. o \in Outcome
  BY OutcomesType DEF Call
<1> DEFINE parts == IF o = "throw" /\ ~flags.catch_exceptions THEN {} ELSE PartsOf(o)
<1>2. parts \subseteq Part
  BY <1>1, PartsAreParts
<1>3. Report(parts)
  BY DEF Call
<1> HIDE DEF parts
<1>4. /\ result' \in [Test -> SUBSET Part]
      /\ suite_result' \in [Suite -> SUBSET Part]
      /\ ad_hoc' \subseteq Part /\ ad_hoc \subseteq ad_hoc'
      /\ heard' \subseteq {"test", "suite", "outside"}
  BY <1>2, <1>3, ReportAddsParts
<1>5. /\ pc = hook /\ pc' \in {next, "terminated"}
      /\ UNCHANGED <<flags, order, should_run, failed, ended>>
  BY DEF Call, order
<1> QED
  BY <1>4, <1>5

Placed == TypeOK /\ PlaceInv

LEMMA PlacedAtFirst == Init => Placed
<1> SUFFICES ASSUME Init PROVE Placed
  OBVIOUS
<1>1. Lists
  BY ListsAreFinite
<1>2. suite_indices \in Orders(Len(test_suites))
  BY <1>1, IdentityIsOrder DEF Init, Lists
<1>3. \A s \in Suite : test_indices[s] \in Orders(Len(TestsOf(s)))
  BY <1>1, IdentityIsOrder DEF Init, Lists, Unshuffled
<1>4. flags.repeat \in Nat
  BY FlagsType DEF Init
<1>5. << >> \in Seq(Test) /\ << >> \in Seq(Environment \cup Suite \cup {"object", "fixture"})
  OBVIOUS
<1>6. TypeOK
  <2>1. /\ flags \in FlagSettings /\ pc = "start"
        /\ iteration \in 0 .. flags.repeat
    BY <1>4 DEF Init
  <2>2. suite_pos \in 1 .. Len(test_suites) + 1 /\ test_pos \in 1 .. Len(Registered) + 1
    BY <1>1 DEF Init, Lists
  <2>3. /\ result \in [Test -> SUBSET Part] /\ suite_result \in [Suite -> SUBSET Part]
        /\ ad_hoc \subseteq Part
    BY DEF Init
  <2>4. /\ should_run \subseteq Test
        /\ current_test_suite \in Suite \cup {None} /\ current_test_info \in Test \cup {None}
        /\ failed \in BOOLEAN /\ verdict \in BOOLEAN \cup {None}
        /\ heard \subseteq {"test", "suite", "outside"}
    BY DEF Init
  <2>5. ended \in Seq(Test) /\ standing \in Seq(Environment \cup Suite \cup {"object", "fixture"})
    BY <1>5 DEF Init
  <2> QED
    BY <1>2, <1>3, <2>1, <2>2, <2>3, <2>4, <2>5 DEF TypeOK
<1>7. PlaceInv
  BY DEF Init, PlaceInv, TestHook, SuiteHook, Iterating
<1> QED
  BY <1>6, <1>7 DEF Placed

LEMMA StaysPlaced ==
  ASSUME Placed, [Next]_vars
  PROVE  Placed'
<1> USE DEF Placed
<1>1. Lists
  BY ListsAreFinite
<1>a. /\ \A k \in 1 .. Len(test_suites) : SuiteAt(k) \in Suite
      /\ \A s \in Suite : \A k \in 1 .. Len(TestsOf(s)) : TestAt(s, k) \in Test
  BY PositionsStandForAll DEF TypeOK, Has
<1>b. flags.repeat \in Nat
  BY FlagsType DEF TypeOK
<1>2. CASE StartProgram
  BY <1>1, <1>2, SelectedTests
     DEF StartProgram, TypeOK, PlaceInv, TestHook, SuiteHook, Iterating, Lists, Hook,
         position, order, current, results, observed
<1>3. CASE BeginIteration
  BY <1>1, <1>3
     DEF BeginIteration, ShuffleTests, TypeOK, PlaceInv, TestHook, SuiteHook, Iterating, Lists, Hook,
         position, order, current, results, observed
<1>4. CASE EnvironmentsReady
  BY <1>1, <1>4
     DEF EnvironmentsReady, TypeOK, PlaceInv, TestHook, SuiteHook, Iterating, Lists, Hook,
         position, order, current, results, observed
<1>5. CASE BeginSuite
  <2>1. pc = "suite" /\ suite_pos \in 1 .. Len(test_suites)
    BY <1>1, <1>5 DEF BeginSuite, TypeOK, Lists
  <2>2. SuiteAt(suite_pos) \in Suite
    BY <1>a, <2>1
  <2>3. TypeOK'
    BY <1>1, <1>5, <2>1, <2>2
       DEF BeginSuite, TypeOK, Lists, Hook, order, current, results, observed
  <2>4. suite_indices' = suite_indices
    BY <1>5 DEF BeginSuite, order
  <2>5. PlaceInv'
    BY <1>5, <2>1, <2>4
       DEF BeginSuite, SuiteAt, PlaceInv, TestHook, SuiteHook, Iterating
  <2> QED
    BY <2>3, <2>5
<1>6. CASE BeginTest
  <2>1. /\ pc = "test" /\ current_test_suite \in Suite
        /\ test_pos \in 1 .. Len(TestsOf(current_test_suite)) + 1
    <3>1. pc = "test" /\ current_test_suite = SuiteAt(suite_pos) /\ suite_pos \in 1 .. Len(test_suites)
      BY <1>1, <1>6 DEF BeginTest, PlaceInv, TypeOK, Lists, SuiteHook
    <3>2. current_test_suite \in Suite
      BY <1>a, <3>1
    <3>3. test_pos \in 1 .. Len(TestsOf(current_test_suite)) + 1
      BY <1>1, <3>1 DEF PlaceInv, TypeOK, Lists
    <3> QED
      BY <3>1, <3>2, <3>3
  <2>2. test_pos <= Len(TestsOf(current_test_suite)) =>
          TestAt(current_test_suite, test_pos) \in Test
    BY <1>1, <1>a, <2>1 DEF Lists
  <2>3. /\ suite_indices' = suite_indices /\ test_indices' = test_indices
        /\ current_test_suite' = current_test_suite /\ suite_pos' = suite_pos
        /\ flags' = flags /\ iteration' = iteration /\ should_run' = should_run
    BY <1>6 DEF BeginTest, order
  <2>4. TypeOK'
    <3>1. test_pos' \in 1 .. Len(Registered) + 1
      BY <1>1, <1>6, <2>1 DEF BeginTest, Lists
    <3>2. current_test_info' \in Test \cup {None}
      BY <1>1, <1>6, <2>1, <2>2 DEF BeginTest, TypeOK, Lists
    <3>3. pc' \in {"suiteTearDown", "construct", "test"}
      BY <1>6, <2>1 DEF BeginTest
    <3> QED
      BY <1>6, <2>3, <3>1, <3>2, <3>3
         DEF BeginTest, TypeOK, Hook, results, observed
  <2>5. PlaceInv'
    BY <1>1, <1>6, <2>1, <2>3
       DEF BeginTest, SuiteAt, TestAt, PlaceInv, TestHook, SuiteHook, Iterating, Lists
  <2> QED
    BY <2>4, <2>5
<1>7. CASE WrongFixture
  <2>1. {"nonfatal"} \subseteq Part /\ Report({"nonfatal"})
    BY <1>7 DEF WrongFixture, Part
  <2>2. /\ result' \in [Test -> SUBSET Part]
        /\ suite_result' \in [Suite -> SUBSET Part]
        /\ ad_hoc' \subseteq Part /\ heard' \subseteq {"test", "suite", "outside"}
    BY <2>1, ReportAddsParts
  <2>3. pc' \in {"terminated", "destroy"} /\ pc = "wrongFixture"
    BY <1>7 DEF WrongFixture
  <2>4. TypeOK'
    BY <1>7, <2>2, <2>3
       DEF WrongFixture, TypeOK, Hook, position, order, current
  <2>5. PlaceInv'
    BY <1>7, <2>3
       DEF WrongFixture, SuiteAt, TestAt, PlaceInv, TestHook, SuiteHook, Iterating,
           position, order, current
  <2> QED
    BY <2>4, <2>5
<1>8. CASE EndTest
  BY <1>1, <1>8
     DEF EndTest, SuiteAt, TestAt, TypeOK, PlaceInv, TestHook, SuiteHook, Iterating, Lists, Hook,
         position, order, current, results, observed
<1>9. CASE SuitesDone
  BY <1>1, <1>9
     DEF SuitesDone, SuiteAt, TestAt, TypeOK, PlaceInv, TestHook, SuiteHook, Iterating, Lists, Hook,
         position, order, current, results, observed
<1>10. CASE EnvironmentsDone
  BY <1>1, <1>10
     DEF EnvironmentsDone, SuiteAt, TestAt, TypeOK, PlaceInv, TestHook, SuiteHook, Iterating, Lists, Hook,
         position, order, current, results, observed
<1>11. CASE EndIteration
  <2>1. pc = "iterationEnd" /\ iteration \in 0 .. flags.repeat /\ iteration # flags.repeat
    BY <1>11 DEF EndIteration, TypeOK, PlaceInv, Iterating
  <2>2. iteration' \in 0 .. flags'.repeat
    BY <1>11, <1>b, <2>1 DEF EndIteration
  <2>3. suite_indices' \in Orders(Len(test_suites))
    BY <1>1, <1>11, IdentityIsOrder DEF EndIteration, Lists
  <2>4. \A s \in Suite : test_indices'[s] \in Orders(Len(TestsOf(s)))
    BY <1>1, <1>11, IdentityIsOrder DEF EndIteration, Lists, Unshuffled
  <2>5. failed' \in BOOLEAN
    BY <1>11 DEF EndIteration
  <2>6. TypeOK'
    BY <1>11, <2>2, <2>3, <2>4, <2>5
       DEF EndIteration, TypeOK, current, results, observed
  <2>7. PlaceInv'
    BY <1>11, <2>1
       DEF EndIteration, PlaceInv, TestHook, SuiteHook, Iterating, current
  <2> QED
    BY <2>6, <2>7
<1>12. CASE Return
  BY <1>1, <1>12
     DEF Return, SuiteAt, TestAt, TypeOK, PlaceInv, TestHook, SuiteHook, Iterating, Lists, Hook,
         position, order, current, results, observed
<1>13. CASE UNCHANGED vars
  BY <1>13 DEF vars, SuiteAt, TestAt, TypeOK, PlaceInv, position, order, current, results, observed
<1> DEFINE Standable == Environment \cup Suite \cup {"object", "fixture"}
<1>14. ASSUME NEW o \in Outcome, SetUpEnvironment(o) PROVE Placed'
  <2> DEFINE n == Len(standing) + 1
  <2>1. Call("envSetUp", o, IF o = "throw" THEN "done" ELSE "envSetUp") /\ "envSetUp" \in Hook
    BY <1>14 DEF SetUpEnvironment, CallEnvironment, Hook
  <2>2. /\ result' \in [Test -> SUBSET Part]
        /\ suite_result' \in [Suite -> SUBSET Part]
        /\ ad_hoc' \subseteq Part /\ heard' \subseteq {"test", "suite", "outside"}
        /\ pc = "envSetUp"
        /\ pc' \in {IF o = "throw" THEN "done" ELSE "envSetUp", "terminated"}
        /\ UNCHANGED <<flags, order, should_run, failed, ended>>
    BY <2>1, Called
  <2>3. pc' \in {"envSetUp", "done", "terminated"}
    BY <2>2
  <2>4. verdict' \in BOOLEAN \cup {None} /\ UNCHANGED <<position, current>>
    BY <1>14 DEF SetUpEnvironment, CallEnvironment, TypeOK
  <2>5. standing' \in Seq(Standable)
    <3>1. standing \in Seq(Standable)
      BY DEF TypeOK
    <3>2. n \in Nat /\ n >= 1 /\ n <= Len(Environments)
      BY <1>14, <3>1 DEF SetUpEnvironment
    <3>3. Environments[n] \in Environment
      BY <3>2, EnvironmentsOnce
    <3>4. standing' = standing \/ standing' = Append(standing, Environments[n])
      BY <1>14 DEF SetUpEnvironment
    <3> HIDE DEF n
    <3> QED
      BY <3>1, <3>3, <3>4
  <2>6. TypeOK'
    BY <2>2, <2>3, <2>4, <2>5 DEF TypeOK, Hook, position, order, current
  <2>7. PlaceInv'
    BY <2>2, <2>3, <2>4
       DEF PlaceInv, TestHook, SuiteHook, Iterating, position, order, current
  <2> QED
    BY <2>6, <2>7
<1>16. ASSUME NEW o \in Outcome, SetUpTestSuite(o) PROVE Placed'
  <2>1. Call("suiteSetUp", o, "test") /\ "suiteSetUp" \in Hook
    BY <1>16 DEF SetUpTestSuite, Hook
  <2>2. /\ result' \in [Test -> SUBSET Part]
        /\ suite_result' \in [Suite -> SUBSET Part]
        /\ ad_hoc' \subseteq Part /\ heard' \subseteq {"test", "suite", "outside"}
        /\ pc = "suiteSetUp" /\ pc' \in {"test", "terminated"}
        /\ UNCHANGED <<flags, order, should_run, failed, ended>>
    BY <2>1, Called
  <2>3. /\ test_pos' = 1 /\ UNCHANGED <<iteration, suite_pos, current, verdict>>
        /\ standing' = Append(standing, current_test_suite)
    BY <1>16 DEF SetUpTestSuite
  <2>4. current_test_suite = SuiteAt(suite_pos) /\ suite_pos \in 1 .. Len(test_suites)
    BY <1>1, <2>2 DEF PlaceInv, SuiteHook, TypeOK, Lists
  <2>5. standing' \in Seq(Standable)
    <3>1. standing \in Seq(Standable) /\ current_test_suite \in Standable
      BY <1>a, <2>4 DEF TypeOK
    <3> QED
      BY <2>3, <3>1
  <2>6. TypeOK'
    BY <1>1, <2>2, <2>3, <2>5 DEF TypeOK, Hook, position, order, current, Lists
  <2>7. PlaceInv'
    BY <1>1, <2>2, <2>3
       DEF PlaceInv, SuiteAt, TestHook, SuiteHook, Iterating, position, order, current, Lists
  <2> QED
    BY <2>6, <2>7
<1>20. ASSUME NEW o \in Outcome, TestBody(o) PROVE Placed'
  <2>1. Call("body", o, "tearDown") /\ "body" \in Hook
    BY <1>20 DEF TestBody, Hook
  <2>2. /\ result' \in [Test -> SUBSET Part]
        /\ suite_result' \in [Suite -> SUBSET Part]
        /\ ad_hoc' \subseteq Part /\ heard' \subseteq {"test", "suite", "outside"}
        /\ pc = "body" /\ pc' \in {"tearDown", "terminated"}
        /\ UNCHANGED <<flags, order, should_run, failed, ended>>
    BY <2>1, Called
  <2>3. UNCHANGED <<position, current, verdict, standing>>
    BY <1>20 DEF TestBody
  <2>6. TypeOK'
    BY <2>2, <2>3 DEF TypeOK, Hook, position, order, current
  <2>7. PlaceInv'
    BY <2>2, <2>3
       DEF PlaceInv, SuiteAt, TestAt, TestHook, SuiteHook, Iterating, position, order, current
  <2> QED
    BY <2>6, <2>7
<1>18. ASSUME NEW o \in Outcome, Construct(o) PROVE Placed'
  <2>1. (\E next \in {"testEnd", "destroy", "setUp", "wrongFixture"} : Call("construct", o, next)) /\ "construct" \in Hook
    BY <1>18 DEF Construct, Hook
  <2>2. /\ result' \in [Test -> SUBSET Part]
        /\ suite_result' \in [Suite -> SUBSET Part]
        /\ ad_hoc' \subseteq Part /\ heard' \subseteq {"test", "suite", "outside"}
        /\ pc = "construct" /\ pc' \in {"testEnd", "destroy", "setUp", "wrongFixture", "terminated"}
        /\ UNCHANGED <<flags, order, should_run, failed, ended>>
    <3>1. PICK next \in {"testEnd", "destroy", "setUp", "wrongFixture"} : Call("construct", o, next)
      BY <2>1
    <3> QED
      BY <2>1, <3>1, Called
  <2>3. UNCHANGED <<position, current, verdict>>
    BY <1>18 DEF Construct
  <2>4. standing \in Seq(Standable)
    BY DEF TypeOK
  <2>5. standing' \in Seq(Standable)
    <3>1. Append(standing, "object") \in Seq(Standable)
      BY <2>4
    <3> QED
      BY <1>18, <2>4, <3>1 DEF Construct
  <2>6. TypeOK'
    BY <2>2, <2>3, <2>5 DEF TypeOK, Hook, position, order, current
  <2>7. PlaceInv'
    BY <2>2, <2>3
       DEF PlaceInv, SuiteAt, TestAt, TestHook, SuiteHook, Iterating, position, order, current
  <2> QED
    BY <2>6, <2>7
<1>19. ASSUME NEW o \in Outcome, SetUp(o) PROVE Placed'
  <2>1. (\E next \in {"tearDown", "body"} : Call("setUp", o, next)) /\ "setUp" \in Hook
    BY <1>19 DEF SetUp, Hook
  <2>2. /\ result' \in [Test -> SUBSET Part]
        /\ suite_result' \in [Suite -> SUBSET Part]
        /\ ad_hoc' \subseteq Part /\ heard' \subseteq {"test", "suite", "outside"}
        /\ pc = "setUp" /\ pc' \in {"tearDown", "body", "terminated"}
        /\ UNCHANGED <<flags, order, should_run, failed, ended>>
    <3>1. PICK next \in {"tearDown", "body"} : Call("setUp", o, next)
      BY <2>1
    <3> QED
      BY <2>1, <3>1, Called
  <2>3. UNCHANGED <<position, current, verdict>>
    BY <1>19 DEF SetUp
  <2>4. standing \in Seq(Standable)
    BY DEF TypeOK
  <2>5. standing' \in Seq(Standable)
    <3>1. Append(standing, "fixture") \in Seq(Standable)
      BY <2>4
    <3> QED
      BY <1>19, <2>4, <3>1 DEF SetUp
  <2>6. TypeOK'
    BY <2>2, <2>3, <2>5 DEF TypeOK, Hook, position, order, current
  <2>7. PlaceInv'
    BY <2>2, <2>3
       DEF PlaceInv, SuiteAt, TestAt, TestHook, SuiteHook, Iterating, position, order, current
  <2> QED
    BY <2>6, <2>7
<1>21. ASSUME NEW o \in Outcome, TearDown(o) PROVE Placed'
  <2>1. Call("tearDown", o, "destroy") /\ "tearDown" \in Hook
    BY <1>21 DEF TearDown, Hook
  <2>2. /\ result' \in [Test -> SUBSET Part]
        /\ suite_result' \in [Suite -> SUBSET Part]
        /\ ad_hoc' \subseteq Part /\ heard' \subseteq {"test", "suite", "outside"}
        /\ pc = "tearDown" /\ pc' \in {"destroy", "terminated"}
        /\ UNCHANGED <<flags, order, should_run, failed, ended>>
    BY <2>1, Called
  <2>3. UNCHANGED <<position, current, verdict>>
    BY <1>21 DEF TearDown
  <2>4. standing \in Seq(Standable)
    BY DEF TypeOK
  <2>5. standing' \in Seq(Standable)
    <3>1. Without(standing, "fixture") \in Seq(Standable)
      BY <2>4, KeptFacts DEF Without
    <3> QED
      BY <1>21, <3>1 DEF TearDown
  <2>6. TypeOK'
    BY <2>2, <2>3, <2>5 DEF TypeOK, Hook, position, order, current
  <2>7. PlaceInv'
    BY <2>2, <2>3
       DEF PlaceInv, SuiteAt, TestAt, TestHook, SuiteHook, Iterating, position, order, current
  <2> QED
    BY <2>6, <2>7
<1>22. ASSUME NEW o \in Outcome, Destroy(o) PROVE Placed'
  <2>1. Call("destroy", o, "testEnd") /\ "destroy" \in Hook
    BY <1>22 DEF Destroy, Hook
  <2>2. /\ result' \in [Test -> SUBSET Part]
        /\ suite_result' \in [Suite -> SUBSET Part]
        /\ ad_hoc' \subseteq Part /\ heard' \subseteq {"test", "suite", "outside"}
        /\ pc = "destroy" /\ pc' \in {"testEnd", "terminated"}
        /\ UNCHANGED <<flags, order, should_run, failed, ended>>
    BY <2>1, Called
  <2>3. UNCHANGED <<position, current, verdict>>
    BY <1>22 DEF Destroy
  <2>4. standing \in Seq(Standable)
    BY DEF TypeOK
  <2>5. standing' \in Seq(Standable)
    <3>1. Without(standing, "object") \in Seq(Standable)
      BY <2>4, KeptFacts DEF Without
    <3> QED
      BY <1>22, <3>1 DEF Destroy
  <2>6. TypeOK'
    BY <2>2, <2>3, <2>5 DEF TypeOK, Hook, position, order, current
  <2>7. PlaceInv'
    BY <2>2, <2>3
       DEF PlaceInv, SuiteAt, TestAt, TestHook, SuiteHook, Iterating, position, order, current
  <2> QED
    BY <2>6, <2>7
<1>15. ASSUME NEW o \in Outcome, TearDownEnvironment(o) PROVE Placed'
  <2>1. /\ Call("envTearDown", o, IF o = "throw" THEN "done" ELSE "envTearDown")
        /\ "envTearDown" \in Hook
    BY <1>15 DEF TearDownEnvironment, CallEnvironment, Hook
  <2>2. /\ result' \in [Test -> SUBSET Part]
        /\ suite_result' \in [Suite -> SUBSET Part]
        /\ ad_hoc' \subseteq Part /\ heard' \subseteq {"test", "suite", "outside"}
        /\ pc = "envTearDown"
        /\ pc' \in {IF o = "throw" THEN "done" ELSE "envTearDown", "terminated"}
        /\ UNCHANGED <<flags, order, should_run, failed, ended>>
    BY <2>1, Called
  <2>3. pc' \in {"envTearDown", "done", "terminated"}
    BY <2>2
  <2>4. verdict' \in BOOLEAN \cup {None} /\ UNCHANGED <<position, current>>
    BY <1>15 DEF TearDownEnvironment, CallEnvironment, TypeOK
  <2>5. standing' \in Seq(Standable)
    <3>1. standing \in Seq(Standable)
      BY DEF TypeOK
    <3>2. \A x : Without(standing, x) \in Seq(Standable)
      BY <3>1, KeptFacts DEF Without
    <3>3. \E x : standing' = Without(standing, x)
      BY <1>15 DEF TearDownEnvironment
    <3> QED
      BY <3>2, <3>3
  <2>6. TypeOK'
    BY <2>2, <2>3, <2>4, <2>5 DEF TypeOK, Hook, position, order, current
  <2>7. PlaceInv'
    BY <2>2, <2>3, <2>4
       DEF PlaceInv, TestHook, SuiteHook, Iterating, position, order, current
  <2> QED
    BY <2>6, <2>7
<1>17. ASSUME NEW o \in Outcome, TearDownTestSuite(o) PROVE Placed'
  <2>1. Call("suiteTearDown", o, "suite") /\ "suiteTearDown" \in Hook
    BY <1>17 DEF TearDownTestSuite, Hook
  <2>2. /\ result' \in [Test -> SUBSET Part]
        /\ suite_result' \in [Suite -> SUBSET Part]
        /\ ad_hoc' \subseteq Part /\ heard' \subseteq {"test", "suite", "outside"}
        /\ pc = "suiteTearDown" /\ pc' \in {"suite", "terminated"}
        /\ UNCHANGED <<flags, order, should_run, failed, ended>>
    BY <2>1, Called
  <2>3. /\ iteration' = iteration /\ test_pos' = test_pos /\ verdict' = verdict
        /\ suite_pos' = suite_pos + 1 /\ suite_pos \in 1 .. Len(test_suites)
        /\ current_test_info' = current_test_info
        /\ current_test_suite' = IF pc' = "terminated" THEN current_test_suite ELSE None
    BY <1>1, <1>17, <2>2
       DEF TearDownTestSuite, Call, current, PlaceInv, SuiteHook, TypeOK, Lists
  <2>4. standing \in Seq(Standable)
    BY DEF TypeOK
  <2>5. standing' \in Seq(Standable)
    <3>1. Without(standing, current_test_suite) \in Seq(Standable)
      BY <2>4, KeptFacts DEF Without
    <3> QED
      BY <1>17, <3>1 DEF TearDownTestSuite
  <2>6. TypeOK'
    BY <1>1, <2>2, <2>3, <2>5 DEF TypeOK, Hook, position, order, current, Lists
  <2>7. PlaceInv'
    BY <2>2, <2>3 DEF PlaceInv, TestHook, SuiteHook, Iterating, order
  <2> QED
    BY <2>6, <2>7
<1> QED
  BY <1>2, <1>3, <1>4, <1>5, <1>6, <1>7, <1>8, <1>9, <1>10, <1>11, <1>12, <1>13,
     <1>14, <1>15, <1>16, <1>17, <1>18, <1>19, <1>20, <1>21, <1>22
     DEF Next, RunHook
WithSuite == Append(Environments, current_test_suite)
WithObject == Append(WithSuite, "object")

StandingInv ==
  /\ pc \in {"start", "iteration", "iterationEnd"} => standing = << >>
  /\ pc \in {"envSetUp", "envTearDown"} =>
       /\ Len(standing) <= Len(Environments)
       /\ \A i \in 1 .. Len(standing) : standing[i] = Environments[i]
  /\ pc \in {"suite", "suiteSetUp"} => standing = Environments
  /\ pc \in {"test", "construct", "testEnd", "suiteTearDown"} =>
       standing = WithSuite
  /\ pc \in {"setUp", "wrongFixture", "destroy"} => standing = WithObject
  /\ pc \in {"body", "tearDown"} => standing = Append(WithObject, "fixture")

Reversed == Len(standing') < Len(standing) => standing' = Front(standing)

LEMMA LastUp ==
  ASSUME NEW T, NEW s \in Seq(T), NEW x \in T
  PROVE  Front(Append(s, x)) = s
<1>1. /\ Append(s, x) \in Seq(T) /\ Len(Append(s, x)) = Len(s) + 1 /\ Len(s) \in Nat
      /\ \A i \in 1 .. Len(s) : Append(s, x)[i] = s[i]
  OBVIOUS
<1>2. Front(Append(s, x)) = SubSeq(Append(s, x), 1, Len(s))
  BY <1>1 DEF Front
<1> QED
  BY <1>1, <1>2

(* The environments that a prefix of them holds. *)
LEMMA LeftStanding ==
  ASSUME Len(standing) <= Len(Environments),
         standing \in Seq(Environment \cup Suite \cup {"object", "fixture"}),
         \A i \in 1 .. Len(standing) : standing[i] = Environments[i]
  PROVE  {i \in DOMAIN Environments : Environments[i] \in Range(standing)}
           = 1 .. Len(standing)
<1>1. /\ Environments \in Seq(Environment) /\ Len(Environments) \in Nat
      /\ NoneTwice(Environments) /\ DOMAIN Environments = 1 .. Len(Environments)
      /\ Len(standing) \in Nat
  BY EnvironmentsOnce, NoneTwiceIsInjective
<1>2. Range(standing) = Elements(standing)
  BY ElementsAreRange
<1>3. ASSUME NEW i \in 1 .. Len(standing)
      PROVE  i \in 1 .. Len(Environments) /\ Environments[i] \in Range(standing)
  BY <1>1, <1>2 DEF Elements
<1>4. ASSUME NEW i \in 1 .. Len(Environments), Environments[i] \in Range(standing)
      PROVE  i \in 1 .. Len(standing)
  <2>1. PICK j \in 1 .. Len(standing) : Environments[i] = standing[j]
    BY <1>2, <1>4 DEF Elements
  <2>2. Environments[i] = Environments[j] /\ j \in 1 .. Len(Environments)
    BY <1>1, <2>1
  <2> QED
    BY <1>1, <2>2 DEF NoneTwice
<1> QED
  BY <1>1, <1>3, <1>4

LEMMA StandsAtFirst == Init => StandingInv
BY DEF Init, StandingInv

LEMMA EnvironmentTornDown ==
  ASSUME Placed, StandingInv, NEW o \in Outcome, TearDownEnvironment(o)
  PROVE  StandingInv' /\ Reversed
<1> DEFINE Standable == Environment \cup Suite \cup {"object", "fixture"}
           k == Len(standing)
           left == {i \in DOMAIN Environments : Environments[i] \in Range(standing)}
           n == CHOOSE i \in left : \A j \in left : j <= i
<1>1. pc = "envTearDown" /\ pc' \in {"envTearDown", "done", "terminated"}
  BY DEF TearDownEnvironment, CallEnvironment, Call
<1>2. /\ Environments \in Seq(Environment) /\ Len(Environments) \in Nat
      /\ NoneTwice(Environments)
  BY EnvironmentsOnce, NoneTwiceIsInjective
<1>3. /\ standing \in Seq(Standable) /\ k \in Nat /\ k <= Len(Environments)
      /\ \A i \in 1 .. k : standing[i] = Environments[i]
  BY <1>1 DEF Placed, TypeOK, StandingInv
<1>4. left = 1 .. k
  BY <1>3, LeftStanding
<1>5. left # {} /\ standing' = Without(standing, Environments[n])
  BY DEF TearDownEnvironment
<1>6. n = k /\ k \in 1 .. Len(Environments)
  <2> HIDE DEF left, k
  <2>1. k \in left /\ \A j \in left : j <= k
    BY <1>3, <1>4, <1>5
  <2>2. n \in left /\ \A j \in left : j <= n
    BY <2>1
  <2>3. n \in Nat
    BY <1>4, <2>2
  <2> HIDE DEF n
  <2> QED
    BY <1>3, <1>4, <2>1, <2>2, <2>3
<1> HIDE DEF n, left
<1> DEFINE s == SubSeq(standing, 1, k - 1)
           x == Environments[k]
<1>7. /\ s \in Seq(Standable) /\ Len(s) = k - 1 /\ s = Front(standing)
      /\ \A i \in 1 .. k - 1 : s[i] = Environments[i]
      /\ standing = Append(s, x) /\ x \in Standable
  <2>1. s \in Seq(Standable) /\ Len(s) = k - 1 /\ \A i \in 1 .. k - 1 : s[i] = standing[i]
    BY <1>3, <1>6
  <2>2. x \in Standable /\ standing[k] = x
    BY <1>2, <1>3, <1>6
  <2>3. s = Front(standing)
    BY DEF Front
  <2> HIDE DEF s, x
  <2>4. /\ Append(s, x) \in Seq(Standable) /\ Len(Append(s, x)) = k
        /\ \A i \in 1 .. k : Append(s, x)[i] = standing[i]
    BY <1>3, <1>6, <2>1, <2>2
  <2>5. standing = Append(s, x)
    BY <1>3, <2>4
  <2> QED
    BY <1>3, <1>6, <2>1, <2>2, <2>3, <2>5
<1>8. x \notin Elements(s)
  <2> HIDE DEF s
  <2>1. ASSUME NEW i \in 1 .. k - 1, s[i] = x PROVE FALSE
    BY <1>2, <1>3, <1>6, <1>7, <2>1 DEF NoneTwice
  <2> QED
    BY <1>7, <2>1 DEF Elements
<1>9. standing' = s
  <2> HIDE DEF s
  <2>1. Without(Append(s, x), x) = s
    BY <1>7, <1>8, WithoutTheLast
  <2> QED
    BY <1>5, <1>6, <1>7, <2>1
<1> HIDE DEF s
<1> QED
  BY <1>1, <1>3, <1>6, <1>7, <1>9 DEF StandingInv, Reversed

LEMMA StandsUp ==
  ASSUME Placed, StandingInv, [Next]_vars
  PROVE  StandingInv' /\ Reversed
<1> DEFINE Standable == Environment \cup Suite \cup {"object", "fixture"}
           c == current_test_suite
<1>1. /\ Environments \in Seq(Standable) /\ Len(Environments) \in Nat
      /\ Environments \in Seq(Environment)
      /\ \A x : x \notin Environment => x \notin Elements(Environments)
  BY EnvironmentsOnce DEF Elements
<1>2. /\ "object" \in Standable /\ "fixture" \in Standable /\ "object" # "fixture"
      /\ "object" \notin Environment \cup Suite /\ "fixture" \notin Environment \cup Suite
      /\ Suite \subseteq Standable /\ Environment \cap Suite = {}
  BY NamesDiffer
<1>3. standing \in Seq(Standable) /\ Len(standing) \in Nat
  BY DEF Placed, TypeOK
<1>4. pc \in SuiteHook => c \in Suite
  <2>1. pc \in SuiteHook => c = SuiteAt(suite_pos) /\ suite_pos \in 1 .. Len(test_suites)
    BY ListsAreFinite DEF Placed, PlaceInv, TypeOK, Lists
  <2> QED
    BY <2>1, PositionsStandForAll DEF Placed, TypeOK
<1>5. ASSUME pc \in SuiteHook
      PROVE  /\ c \notin Elements(Environments)
             /\ WithSuite \in Seq(Standable)
             /\ Elements(WithSuite) = Elements(Environments) \cup {c}
             /\ "object" \notin Elements(WithSuite)
             /\ WithObject \in Seq(Standable)
             /\ Elements(WithObject) = Elements(WithSuite) \cup {"object"}
             /\ "fixture" \notin Elements(WithObject)
  <2>1. c \in Suite /\ c \in Standable /\ c \notin Elements(Environments)
    BY <1>1, <1>2, <1>4, <1>5
  <2>2. /\ WithSuite \in Seq(Standable)
        /\ Elements(WithSuite) = Elements(Environments) \cup {c}
    BY <1>1, <2>1, AppendedElements DEF WithSuite
  <2>3. /\ WithObject \in Seq(Standable)
        /\ Elements(WithObject) = Elements(WithSuite) \cup {"object"}
    BY <1>2, <2>2, AppendedElements DEF WithObject
  <2>4. "object" \notin Elements(WithSuite) /\ "fixture" \notin Elements(WithObject)
    BY <1>1, <1>2, <2>1, <2>2, <2>3
  <2> QED
    BY <2>1, <2>2, <2>3, <2>4
<1>6. ASSUME standing' = standing PROVE Reversed
  BY <1>3, <1>6 DEF Reversed
<1>7. ASSUME NEW x, standing' = Append(standing, x), x \in Standable PROVE Reversed
  BY <1>3, <1>7 DEF Reversed
<1>8. ASSUME NEW s \in Seq(Standable), NEW x \in Standable, standing = Append(s, x),
             x \notin Elements(s), standing' = Without(standing, x)
      PROVE  standing' = s /\ Reversed
  <2>1. standing' = s
    BY <1>8, WithoutTheLast
  <2>2. Front(standing) = s
    BY <1>8, LastUp
  <2> QED
    BY <2>1, <2>2 DEF Reversed
<1> HIDE DEF Standable, c
<1>9. CASE StartProgram
  BY <1>6, <1>9 DEF StartProgram, StandingInv, observed
<1>10. CASE BeginIteration
  BY <1>1, <1>6, <1>10 DEF BeginIteration, StandingInv
<1>11. CASE EnvironmentsReady
  <2>1. pc = "envSetUp" /\ pc' \in {"envTearDown", "suite"} /\ standing' = standing
    BY <1>11 DEF EnvironmentsReady, observed
  <2>2. standing = Environments
    BY <1>1, <1>3, <1>11, <2>1 DEF EnvironmentsReady, StandingInv
  <2> QED
    BY <1>1, <1>6, <2>1, <2>2 DEF StandingInv
<1>12. CASE BeginSuite
  BY <1>6, <1>12 DEF BeginSuite, StandingInv, observed
<1>13. CASE BeginTest
  BY <1>6, <1>13 DEF BeginTest, StandingInv, WithSuite, observed
<1>14. CASE WrongFixture
  BY <1>6, <1>14 DEF WrongFixture, StandingInv, WithObject, WithSuite, current
<1>15. CASE EndTest
  BY <1>6, <1>15 DEF EndTest, StandingInv, WithSuite
<1>16. CASE SuitesDone
  BY <1>1, <1>6, <1>16 DEF SuitesDone, StandingInv, observed
<1>17. CASE EnvironmentsDone
  <2>1. pc = "envTearDown" /\ pc' = "iterationEnd" /\ standing' = standing
    BY <1>17 DEF EnvironmentsDone, observed
  <2>2. standing = << >>
    <3>1. /\ Len(standing) <= Len(Environments)
          /\ \A i \in 1 .. Len(standing) : standing[i] = Environments[i]
      BY <2>1 DEF StandingInv
    <3>2. {i \in DOMAIN Environments : Environments[i] \in Range(standing)}
            = 1 .. Len(standing)
      BY <1>3, <3>1, LeftStanding DEF Standable
    <3>3. 1 .. Len(standing) = {}
      BY <1>1, <1>17, <3>2 DEF EnvironmentsDone
    <3>4. Len(standing) = 0
      <4>1. Len(standing) \in 1 .. Len(standing) \/ Len(standing) = 0
        BY <1>3
      <4> QED
        BY <3>3, <4>1
    <3> QED
      BY <1>3, <3>4, EmptySeq
  <2> QED
    BY <1>6, <2>1, <2>2 DEF StandingInv
<1>18. CASE EndIteration
  BY <1>6, <1>18 DEF EndIteration, StandingInv, observed
<1>19. CASE Return
  BY <1>6, <1>19 DEF Return, StandingInv, observed
<1>20. CASE UNCHANGED vars
  BY <1>6, <1>20 DEF vars, StandingInv, WithObject, WithSuite, observed, current
<1>21. ASSUME NEW o \in Outcome, SetUpEnvironment(o) PROVE StandingInv' /\ Reversed
  <2> DEFINE n == Len(standing) + 1
  <2>1. /\ pc = "envSetUp" /\ n <= Len(Environments)
        /\ standing' = IF o = "throw" THEN standing ELSE Append(standing, Environments[n])
        /\ pc' \in {IF o = "throw" THEN "done" ELSE "envSetUp", "terminated"}
    BY <1>21 DEF SetUpEnvironment, CallEnvironment, Call
  <2>2. n \in 1 .. Len(Environments) /\ Environments[n] \in Standable
    BY <1>1, <1>3, <2>1
  <2>3. CASE o = "throw"
    BY <1>6, <2>1, <2>3 DEF StandingInv
  <2>4. CASE o # "throw"
    <3>1. standing' = Append(standing, Environments[n])
      BY <2>1, <2>4
    <3>2. /\ Len(standing') = n
          /\ \A i \in 1 .. Len(standing) : standing'[i] = standing[i]
          /\ standing'[n] = Environments[n]
      BY <1>3, <2>2, <3>1
    <3>3. \A i \in 1 .. n : standing'[i] = Environments[i]
      BY <1>3, <2>1, <3>2 DEF StandingInv
    <3>4. pc' \in {"envSetUp", "terminated"}
      BY <2>1, <2>4
    <3> QED
      BY <1>7, <2>1, <2>2, <3>1, <3>2, <3>3, <3>4 DEF StandingInv
  <2> QED
    BY <2>3, <2>4
<1>22. ASSUME NEW o \in Outcome, TearDownEnvironment(o) PROVE StandingInv' /\ Reversed
  BY <1>22, EnvironmentTornDown
<1>23. ASSUME NEW o \in Outcome, SetUpTestSuite(o) PROVE StandingInv' /\ Reversed
  <2>1. /\ pc = "suiteSetUp" /\ pc' \in {"test", "terminated"}
        /\ standing' = Append(standing, c) /\ c' = c
    BY <1>23 DEF SetUpTestSuite, Call, current, c
  <2>2. standing = Environments /\ c \in Standable
    BY <1>2, <1>4, <2>1 DEF StandingInv, SuiteHook
  <2> QED
    BY <1>7, <2>1, <2>2 DEF StandingInv, WithSuite, c
<1>24. ASSUME NEW o \in Outcome, TearDownTestSuite(o) PROVE StandingInv' /\ Reversed
  <2>1. /\ pc = "suiteTearDown" /\ pc' \in {"suite", "terminated"}
        /\ standing' = Without(standing, c)
    BY <1>24 DEF TearDownTestSuite, Call, c
  <2>2. /\ standing = Append(Environments, c) /\ c \notin Elements(Environments)
        /\ c \in Standable
    BY <1>2, <1>4, <1>5, <2>1 DEF StandingInv, SuiteHook, WithSuite, c
  <2>3. standing' = Environments /\ Reversed
    BY <1>1, <1>8, <2>1, <2>2
  <2> QED
    BY <2>1, <2>3 DEF StandingInv
<1>25. ASSUME NEW o \in Outcome, Construct(o) PROVE StandingInv' /\ Reversed
  <2>1. /\ pc = "construct" /\ c' = c
        /\ pc' \in IF o = "throw" THEN {"testEnd", "terminated"}
                   ELSE {"destroy", "setUp", "wrongFixture", "terminated"}
        /\ standing' = IF o = "throw" THEN standing ELSE Append(standing, "object")
    BY <1>25 DEF Construct, Call, current, c
  <2>2. standing = WithSuite /\ WithSuite' = WithSuite /\ WithObject' = WithObject
    BY <2>1 DEF StandingInv, WithSuite, WithObject, c
  <2>3. CASE o = "throw"
    BY <1>6, <2>1, <2>2, <2>3 DEF StandingInv
  <2>4. CASE o # "throw"
    <3>1. standing' = WithObject /\ Reversed
      BY <1>2, <1>7, <2>1, <2>2, <2>4 DEF WithObject
    <3>2. pc' \in {"destroy", "setUp", "wrongFixture", "terminated"}
      BY <2>1, <2>4
    <3> QED
      BY <2>2, <3>1, <3>2 DEF StandingInv
  <2> QED
    BY <2>3, <2>4
<1>26. ASSUME NEW o \in Outcome, SetUp(o) PROVE StandingInv' /\ Reversed
  <2>1. /\ pc = "setUp" /\ c' = c /\ pc' \in {"tearDown", "body", "terminated"}
        /\ standing' = Append(standing, "fixture")
    BY <1>26 DEF SetUp, Call, current, c
  <2>2. standing = WithObject /\ WithObject' = WithObject
    BY <2>1 DEF StandingInv, WithSuite, WithObject, c
  <2> QED
    BY <1>2, <1>7, <2>1, <2>2 DEF StandingInv
<1>27. ASSUME NEW o \in Outcome, TestBody(o) PROVE StandingInv' /\ Reversed
  BY <1>6, <1>27 DEF TestBody, Call, StandingInv, WithObject, WithSuite, current
<1>28. ASSUME NEW o \in Outcome, TearDown(o) PROVE StandingInv' /\ Reversed
  <2>1. /\ pc = "tearDown" /\ c' = c /\ pc' \in {"destroy", "terminated"}
        /\ standing' = Without(standing, "fixture")
    BY <1>28 DEF TearDown, Call, current, c
  <2>2. standing = Append(WithObject, "fixture") /\ WithObject' = WithObject
    BY <2>1 DEF StandingInv, WithSuite, WithObject, c
  <2>3. WithObject \in Seq(Standable) /\ "fixture" \notin Elements(WithObject)
    BY <1>5, <2>1 DEF SuiteHook, TestHook
  <2>4. standing' = WithObject /\ Reversed
    BY <1>2, <1>8, <2>1, <2>2, <2>3
  <2> QED
    BY <2>1, <2>2, <2>4 DEF StandingInv
<1>29. ASSUME NEW o \in Outcome, Destroy(o) PROVE StandingInv' /\ Reversed
  <2>1. /\ pc = "destroy" /\ c' = c /\ pc' \in {"testEnd", "terminated"}
        /\ standing' = Without(standing, "object")
    BY <1>29 DEF Destroy, Call, current, c
  <2>2. standing = Append(WithSuite, "object") /\ WithSuite' = WithSuite
    BY <2>1 DEF StandingInv, WithSuite, WithObject, c
  <2>3. WithSuite \in Seq(Standable) /\ "object" \notin Elements(WithSuite)
    BY <1>5, <2>1 DEF SuiteHook, TestHook
  <2>4. standing' = WithSuite /\ Reversed
    BY <1>2, <1>8, <2>1, <2>2, <2>3
  <2> QED
    BY <2>1, <2>2, <2>4 DEF StandingInv
<1> QED
  BY <1>9, <1>10, <1>11, <1>12, <1>13, <1>14, <1>15, <1>16, <1>17, <1>18, <1>19, <1>20,
     <1>21, <1>22, <1>23, <1>24, <1>25, <1>26, <1>27, <1>28, <1>29 DEF Next, RunHook

-----------------------------------------------------------------------------
(***************************************************************************)
(* Theorems on what is set up and torn down.                               *)
(***************************************************************************)

(* Every variable of the runner stays inside its type, which is what every *)
(* index into the lists of suites and of tests relies on.                  *)
THEOREM RunnerType == Spec => []TypeOK
<1>1. Placed /\ [Next]_vars => Placed'
  BY StaysPlaced
<1>2. Placed => TypeOK
  BY DEF Placed
<1> QED
  BY <1>1, <1>2, PlacedAtFirst, PTL DEF Spec

StoodInv == Placed /\ StandingInv

LEMMA Stands == Spec => []StoodInv
<1>1. Init => StoodInv
  BY PlacedAtFirst, StandsAtFirst DEF StoodInv
<1>2. StoodInv /\ [Next]_vars => StoodInv'
  BY StaysPlaced, StandsUp DEF StoodInv
<1> QED
  BY <1>1, <1>2, PTL DEF Spec

(* A body runs with everything set up, and nothing stays set up between    *)
(* two iterations.                                                         *)
THEOREM FixturesAreComplete == Spec => []FixturesComplete
<1>1. ASSUME StoodInv PROVE FixturesComplete
  <2>1. pc = "iteration" => standing = << >>
    BY <1>1 DEF StoodInv, StandingInv
  <2>2. ASSUME pc = "body"
        PROVE  standing = Environments \o <<current_test_suite, "object", "fixture">>
    <3>1. standing = Append(WithObject, "fixture")
      BY <1>1, <2>2 DEF StoodInv, StandingInv
    <3>2. Environments \in Seq(Environment) /\ current_test_suite \in Suite \cup {None}
      BY <1>1, EnvironmentsOnce DEF StoodInv, Placed, TypeOK
    <3> DEFINE T == Environment \cup Suite \cup {None, "object", "fixture"}
               c == current_test_suite
               s == Append(Append(Append(Environments, c), "object"), "fixture")
               u == <<c, "object", "fixture">>
               n == Len(Environments)
    <3>3. /\ Environments \in Seq(T) /\ n \in Nat
          /\ c \in T /\ "object" \in T /\ "fixture" \in T
      BY <3>2
    <3>4. s \in Seq(T) /\ Len(s) = n + 3
      BY <3>3
    <3>5. /\ \A i \in 1 .. n : s[i] = Environments[i]
          /\ s[n + 1] = c /\ s[n + 2] = "object" /\ s[n + 3] = "fixture"
      BY <3>3
    <3>6. /\ u \in Seq(T) /\ Len(u) = 3
          /\ u[1] = c /\ u[2] = "object" /\ u[3] = "fixture"
      BY <3>3
    <3> HIDE DEF s, u, T, n
    <3>7. /\ Environments \o u \in Seq(T) /\ Len(Environments \o u) = n + 3
          /\ \A i \in 1 .. n + 3 :
               (Environments \o u)[i] = IF i <= n THEN Environments[i] ELSE u[i - n]
      <4>1. /\ Environments \o u \in Seq(T)
            /\ Len(Environments \o u) = Len(Environments) + Len(u)
            /\ \A i \in 1 .. Len(Environments) + Len(u) :
                 (Environments \o u)[i] = IF i <= Len(Environments) THEN Environments[i]
                                          ELSE u[i - Len(Environments)]
        BY ONLY <3>3, <3>6, ConcatProperties
      <4>2. Len(Environments) = n /\ Len(u) = 3
        BY <3>6 DEF n
      <4> QED
        BY <4>1, <4>2
    <3>8. \A i \in 1 .. n + 3 : i <= n \/ i = n + 1 \/ i = n + 2 \/ i = n + 3
      BY <3>3
    <3>9. ASSUME NEW i \in 1 .. n + 3 PROVE s[i] = (Environments \o u)[i]
      <4>1. (Environments \o u)[i] = IF i <= n THEN Environments[i] ELSE u[i - n]
        BY <3>7
      <4>2. CASE i <= n
        BY <3>3, <3>5, <4>1, <4>2
      <4>3. CASE i = n + 1
        BY <3>3, <3>5, <3>6, <4>1, <4>3
      <4>4. CASE i = n + 2
        BY <3>3, <3>5, <3>6, <4>1, <4>4
      <4>5. CASE i = n + 3
        BY <3>3, <3>5, <3>6, <4>1, <4>5
      <4> QED
        BY <3>8, <4>2, <4>3, <4>4, <4>5
    <3>10. s = Environments \o u
      BY <3>4, <3>7, <3>9, SeqEqual
    <3> QED
      BY <3>1, <3>10 DEF s, u, WithObject, WithSuite
  <2> QED
    BY <2>1, <2>2 DEF FixturesComplete
<1> QED
  BY <1>1, Stands, PTL

(* Whatever comes down is the last that went up.                           *)
THEOREM TearDownIsReversed == Spec => TornDownInReverse
<1>1. StoodInv /\ [Next]_vars => [Reversed]_vars
  BY StandsUp DEF StoodInv
<1>2. Spec => [][Reversed]_vars
  BY <1>1, Stands, PTL DEF Spec
<1> QED
  BY <1>2, PTL DEF TornDownInReverse, Reversed

-----------------------------------------------------------------------------
(***************************************************************************)
(* The verdict and the failures that the listeners heard of.               *)
(***************************************************************************)
HeardOfFailure == heard \cap {"test", "outside"} # {}

VerdictInv ==
  /\ Failed(ad_hoc) <=> "outside" \in heard
  /\ pc = "start" => heard = {} /\ ~failed
  /\ pc = "iteration" => (failed <=> HeardOfFailure)
  /\ pc \in Iterating => (failed \/ AnyFailed <=> HeardOfFailure)
  /\ pc = "done" => (verdict <=> ~HeardOfFailure)

LEMMA FailedJoins == \A a, b : Failed(a \cup b) <=> Failed(a) \/ Failed(b)
BY DEF Failed

(* The agreement of results and listeners, while an iteration goes on.     *)
Agree ==
  /\ Failed(ad_hoc) <=> "outside" \in heard
  /\ failed \/ AnyFailed <=> HeardOfFailure

LEMMA ReportsAgree ==
  ASSUME Placed, pc \in Iterating, Agree,
         NEW parts, parts \subseteq Part, Report(parts),
         should_run' = should_run, failed' = failed
  PROVE  Agree'
<1>1. /\ current_test_info # None => current_test_info \in should_run
      /\ should_run \subseteq Test /\ result \in [Test -> SUBSET Part]
      /\ failed \in BOOLEAN
  BY DEF Placed, PlaceInv, TypeOK, TestHook, SuiteHook, Iterating
<1>2. /\ Place = "test" <=> current_test_info # None
      /\ Place \in {"test", "suite", "outside"}
  BY DEF Place
<1>3. heard' = IF Failed(parts) THEN heard \cup {Place} ELSE heard
  BY DEF Report
<1>4. ad_hoc' = IF Place = "outside" THEN ad_hoc \cup parts ELSE ad_hoc
  BY DEF Report
<1>5. result' = IF Place = "test"
                THEN [result EXCEPT ![current_test_info] = @ \cup parts] ELSE result
  BY DEF Report
<1>6. Failed(ad_hoc') <=> Failed(ad_hoc) \/ (Place = "outside" /\ Failed(parts))
  BY <1>4, FailedJoins
<1>7. (\E t \in should_run : Failed(result'[t]))
        <=> \/ \E t \in should_run : Failed(result[t])
            \/ Place = "test" /\ Failed(parts)
  <2>1. CASE Place # "test"
    BY <1>5, <2>1
  <2>2. CASE Place = "test"
    <3>1. /\ current_test_info \in should_run
          /\ result'[current_test_info] = result[current_test_info] \cup parts
          /\ \A t \in should_run : t # current_test_info => result'[t] = result[t]
      BY <1>1, <1>2, <1>5, <2>2
    <3>2. Failed(result'[current_test_info])
            <=> Failed(result[current_test_info]) \/ Failed(parts)
      BY <3>1, FailedJoins
    <3> QED
      BY <2>2, <3>1, <3>2
  <2> QED
    BY <2>1, <2>2
<1>8. AnyFailed' <=> AnyFailed \/ (Place \in {"test", "outside"} /\ Failed(parts))
  BY <1>6, <1>7 DEF AnyFailed
<1>9. HeardOfFailure'
        <=> HeardOfFailure \/ (Place \in {"test", "outside"} /\ Failed(parts))
  BY <1>3 DEF HeardOfFailure
<1>10. "outside" \in heard'
         <=> "outside" \in heard \/ (Place = "outside" /\ Failed(parts))
  BY <1>3
<1>11. (failed \/ AnyFailed <=> HeardOfFailure)'
  BY <1>8, <1>9 DEF Agree
<1> QED
  BY <1>6, <1>10, <1>11 DEF Agree

LEMMA HooksAgree ==
  ASSUME Placed, Agree, NEW hook \in Hook, NEW o \in Outcome, NEW next, Call(hook, o, next)
  PROVE  Agree'
<1> DEFINE parts == IF o = "throw" /\ ~flags.catch_exceptions THEN {} ELSE PartsOf(o)
<1>1. parts \subseteq Part
  BY PartsAreParts
<1>2. pc \in Iterating
  BY DEF Call, Hook, Iterating, SuiteHook, TestHook
<1>3. Report(parts) /\ should_run' = should_run /\ failed' = failed
  BY DEF Call
<1> HIDE DEF parts
<1> QED
  BY <1>1, <1>2, <1>3, ReportsAgree

LEMMA VerdictAtFirst == Init => VerdictInv
BY DEF Init, VerdictInv, Failed, Iterating, SuiteHook, TestHook

LEMMA VerdictKept ==
  ASSUME Placed, VerdictInv, [Next]_vars
  PROVE  VerdictInv'
<1>1. ASSUME UNCHANGED <<results, failed, heard, should_run, verdict>>
      PROVE  /\ (Failed(ad_hoc) <=> "outside" \in heard)'
             /\ AnyFailed' = AnyFailed /\ HeardOfFailure' = HeardOfFailure
             /\ failed' = failed /\ heard' = heard /\ verdict' = verdict
  BY <1>1 DEF VerdictInv, AnyFailed, HeardOfFailure, results
<1>2. ASSUME Agree', pc' \in Iterating \cup {"terminated"} PROVE VerdictInv'
  BY <1>2 DEF Agree, VerdictInv, Iterating, SuiteHook, TestHook
<1>3. ASSUME NEW hook \in Hook, NEW o \in Outcome, NEW next \in Iterating,
             Call(hook, o, next)
      PROVE  VerdictInv'
  <2>1. Agree /\ pc' \in {next, "terminated"}
    BY <1>3 DEF Call, Agree, VerdictInv, Hook, Iterating, SuiteHook, TestHook
  <2>2. Agree'
    BY <1>3, <2>1, HooksAgree
  <2> QED
    BY <1>2, <1>3, <2>1, <2>2
<1>4. CASE StartProgram
  <2>1. /\ heard = {} /\ failed = FALSE /\ ~Failed(ad_hoc) /\ pc = "start"
        /\ heard' = heard /\ failed' = failed /\ ad_hoc' = ad_hoc
        /\ pc' \in {"done", "iteration", "exited"}
        /\ pc' = "done" => verdict' = TRUE
    BY <1>4 DEF StartProgram, VerdictInv, Placed, TypeOK, results, observed
  <2>2. ~HeardOfFailure'
    BY <2>1 DEF HeardOfFailure
  <2> QED
    BY <2>1, <2>2 DEF VerdictInv, Iterating, SuiteHook, TestHook
<1>5. CASE BeginIteration
  <2>1. /\ result' = [t \in Test |-> {}] /\ should_run' \subseteq Test
        /\ ad_hoc' = ad_hoc /\ failed' = failed /\ heard' = heard
        /\ pc = "iteration" /\ pc' \in {"iterationEnd", "envSetUp"}
    BY <1>5 DEF BeginIteration, Placed, TypeOK
  <2>2. \A t \in should_run' : ~Failed(result'[t])
    BY <2>1 DEF Failed
  <2>3. AnyFailed' <=> Failed(ad_hoc)
    BY <2>1, <2>2 DEF AnyFailed
  <2>4. HeardOfFailure' = HeardOfFailure
    BY <2>1 DEF HeardOfFailure
  <2>5. (Failed(ad_hoc) <=> "outside" \in heard) /\ (failed <=> HeardOfFailure)
    BY <2>1 DEF VerdictInv
  <2>6. Failed(ad_hoc) => HeardOfFailure
    BY <2>5 DEF HeardOfFailure
  <2>7. Agree'
    BY <2>1, <2>3, <2>4, <2>5, <2>6 DEF Agree
  <2> QED
    BY <1>2, <2>1, <2>7 DEF Iterating
<1>6. CASE EnvironmentsReady
  BY <1>1, <1>6 DEF EnvironmentsReady, VerdictInv, Iterating, SuiteHook, TestHook, observed
<1>7. CASE BeginSuite
  BY <1>1, <1>7 DEF BeginSuite, VerdictInv, Iterating, SuiteHook, TestHook, observed
<1>8. CASE BeginTest
  BY <1>1, <1>8 DEF BeginTest, VerdictInv, Iterating, SuiteHook, TestHook, observed
<1>9. CASE WrongFixture
  <2>1. /\ Report({"nonfatal"}) /\ {"nonfatal"} \subseteq Part /\ pc = "wrongFixture"
        /\ should_run' = should_run /\ failed' = failed /\ pc' \in {"destroy", "terminated"}
    BY <1>9 DEF WrongFixture, Part
  <2>2. Agree /\ pc \in Iterating
    BY <2>1 DEF Agree, VerdictInv, Iterating, SuiteHook, TestHook
  <2>3. Agree'
    BY <2>1, <2>2, ReportsAgree
  <2> QED
    BY <1>2, <2>1, <2>3 DEF Iterating, SuiteHook, TestHook
<1>10. CASE EndTest
  BY <1>1, <1>10 DEF EndTest, VerdictInv, Iterating, SuiteHook, TestHook
<1>11. CASE SuitesDone
  BY <1>1, <1>11 DEF SuitesDone, VerdictInv, Iterating, SuiteHook, TestHook, observed
<1>12. CASE EnvironmentsDone
  BY <1>1, <1>12 DEF EnvironmentsDone, VerdictInv, Iterating, SuiteHook, TestHook, observed
<1>13. CASE EndIteration
  <2>1. /\ failed' = (failed \/ AnyFailed) /\ pc = "iterationEnd" /\ pc' = "iteration"
        /\ heard' = heard /\ ad_hoc' = ad_hoc
    BY <1>13 DEF EndIteration, observed, results
  <2>2. HeardOfFailure' = HeardOfFailure
    BY <2>1 DEF HeardOfFailure
  <2>3. (Failed(ad_hoc) <=> "outside" \in heard) /\ (failed \/ AnyFailed <=> HeardOfFailure)
    BY <2>1 DEF VerdictInv, Iterating
  <2> QED
    BY <2>1, <2>2, <2>3 DEF VerdictInv, Iterating, SuiteHook, TestHook
<1>14. CASE Return
  <2>1. /\ verdict' = ~failed /\ pc = "iteration" /\ pc' = "done"
        /\ heard' = heard /\ ad_hoc' = ad_hoc
    BY <1>14 DEF Return, observed, results
  <2>2. HeardOfFailure' = HeardOfFailure
    BY <2>1 DEF HeardOfFailure
  <2>3. (Failed(ad_hoc) <=> "outside" \in heard) /\ (failed <=> HeardOfFailure)
    BY <2>1 DEF VerdictInv
  <2>4. verdict' <=> ~HeardOfFailure'
    BY <2>1, <2>2, <2>3
  <2> QED
    BY <2>1, <2>3, <2>4 DEF VerdictInv, Iterating, SuiteHook, TestHook
<1>15. CASE UNCHANGED vars
  BY <1>1, <1>15 DEF vars, VerdictInv, observed
<1>16. ASSUME NEW hook \in {"envSetUp", "envTearDown"}, NEW o \in Outcome,
              CallEnvironment(hook, o, hook)
       PROVE  VerdictInv'
  <2>1. Call(hook, o, IF o = "throw" THEN "done" ELSE hook)
    BY <1>16 DEF CallEnvironment
  <2>2. CASE o # "throw"
    <3>1. Call(hook, o, hook) /\ hook \in Hook /\ hook \in Iterating
      BY <2>1, <2>2 DEF Hook, Iterating
    <3> QED
      BY <1>3, <3>1
  <2>3. CASE o = "throw"
    <3>1. Call(hook, o, "done") /\ hook \in Hook /\ pc = hook
      BY <2>1, <2>3 DEF Hook, Call
    <3>2. Agree
      BY <3>1 DEF Agree, VerdictInv, Iterating
    <3>3. Agree'
      BY <3>1, <3>2, HooksAgree
    <3>4. CASE Escapes(o)
      <4>1. pc' = "terminated"
        BY <3>1, <3>4 DEF Call
      <4> QED
        BY <1>2, <3>3, <4>1
    <3>5. CASE ~Escapes(o)
      <4>1. verdict' = FALSE /\ pc' = "done"
        BY <1>16, <2>3, <3>1, <3>5 DEF CallEnvironment, Call
      <4>2. Report(PartsOf(o)) /\ PartsOf(o) = {"fatal"}
        BY <2>3, <3>1, <3>5 DEF Call, Escapes, PartsOf
      <4>3. Place = "outside"
        BY <3>1 DEF Place, Placed, PlaceInv, SuiteHook, TestHook
      <4>4. HeardOfFailure'
        BY <4>2, <4>3 DEF Report, HeardOfFailure, Failed
      <4> QED
        BY <3>3, <4>1, <4>4 DEF VerdictInv, Agree, Iterating, SuiteHook, TestHook
    <3> QED
      BY <3>4, <3>5
  <2> QED
    BY <2>2, <2>3
<1>17. ASSUME NEW o \in Outcome,
              \/ SetUpTestSuite(o) \/ TearDownTestSuite(o) \/ Construct(o)
              \/ SetUp(o) \/ TestBody(o) \/ TearDown(o) \/ Destroy(o)
       PROVE  VerdictInv'
  <2>1. \E hook \in Hook, next \in Iterating : Call(hook, o, next)
    BY <1>17 DEF SetUpTestSuite, TearDownTestSuite, Construct, SetUp, TestBody, TearDown,
                 Destroy, Hook, Iterating, SuiteHook, TestHook
  <2> QED
    BY <1>3, <2>1
<1>18. ASSUME NEW o \in Outcome, SetUpEnvironment(o) \/ TearDownEnvironment(o)
       PROVE  VerdictInv'
  <2>1. \E hook \in {"envSetUp", "envTearDown"} : CallEnvironment(hook, o, hook)
    BY <1>18 DEF SetUpEnvironment, TearDownEnvironment
  <2> QED
    BY <1>16, <2>1
<1> QED
  BY <1>4, <1>5, <1>6, <1>7, <1>8, <1>9, <1>10, <1>11, <1>12, <1>13, <1>14, <1>15,
     <1>17, <1>18 DEF Next, RunHook

(* What RUN_ALL_TESTS returns covers every failure heard of in any         *)
(* iteration.                                                              *)
THEOREM VerdictIsComplete == Spec => []VerdictCoversAllIterations
<1> DEFINE Inv == Placed /\ VerdictInv
<1>1. Init => Inv
  BY PlacedAtFirst, VerdictAtFirst
<1>2. Inv /\ [Next]_vars => Inv'
  BY StaysPlaced, VerdictKept
<1>3. Inv => VerdictCoversAllIterations
  BY DEF VerdictInv, HeardOfFailure, VerdictCoversAllIterations
<1> QED
  BY <1>1, <1>2, <1>3, PTL DEF Spec

-----------------------------------------------------------------------------
(***************************************************************************)
(* Which tests have run.                                                   *)
(***************************************************************************)
InSuitesPast(t) == \E k \in 1 .. suite_pos - 1 : SuiteOf[t] = SuiteAt(k)
AmongTestsPast(t) == \E k \in 1 .. test_pos - 1 : t = TestAt(current_test_suite, k)

EndedInv ==
  /\ NoneTwice(ended)
  /\ pc = "envSetUp" => ended = << >> /\ suite_pos = 1
  /\ pc \in {"suite", "suiteSetUp"} =>
       \A t \in Test : t \in Elements(ended) <=> t \in should_run /\ InSuitesPast(t)
  /\ pc \in SuiteHook \ {"suiteSetUp"} =>
       \A t \in Test : t \in Elements(ended) <=>
                         t \in should_run /\ (InSuitesPast(t) \/ AmongTestsPast(t))
  /\ pc \in {"envTearDown", "iterationEnd"} =>
       \/ Elements(ended) = should_run
       \/ ended = << >> /\ HasFatalFailure(ad_hoc)

LEMMA NoneEndedAtFirst == Init => EndedInv
BY DEF Init, EndedInv, NoneTwice, SuiteHook, TestHook

LEMMA EndedKept ==
  ASSUME Placed, EndedInv, [Next]_vars
  PROVE  EndedInv'
<1>0. Lists
  BY ListsAreFinite
<1>1. /\ suite_pos \in 1 .. Len(test_suites) + 1 /\ test_pos \in 1 .. Len(Registered) + 1
      /\ ended \in Seq(Test) /\ should_run \subseteq Test /\ Len(test_suites) \in Nat
  BY <1>0 DEF Placed, TypeOK, Lists
<1>2. /\ \A k \in 1 .. Len(test_suites) : SuiteAt(k) \in Suite
      /\ \A k, l \in 1 .. Len(test_suites) : SuiteAt(k) = SuiteAt(l) => k = l
      /\ \A s \in Suite : \E k \in 1 .. Len(test_suites) : SuiteAt(k) = s
  BY PositionsStandForAll DEF Placed, TypeOK
<1>3. pc \in SuiteHook => /\ current_test_suite \in Suite
                          /\ current_test_suite = SuiteAt(suite_pos)
                          /\ suite_pos \in 1 .. Len(test_suites)
  BY <1>1, <1>2 DEF Placed, PlaceInv
<1>4. ASSUME pc \in SuiteHook
      PROVE  /\ \A k \in 1 .. Len(TestsOf(current_test_suite)) :
                  Has(current_test_suite, TestAt(current_test_suite, k))
             /\ \A k, l \in 1 .. Len(TestsOf(current_test_suite)) :
                  TestAt(current_test_suite, k) = TestAt(current_test_suite, l) => k = l
             /\ \A t : Has(current_test_suite, t) =>
                  \E k \in 1 .. Len(TestsOf(current_test_suite)) :
                    TestAt(current_test_suite, k) = t
             /\ Len(TestsOf(current_test_suite)) \in Nat
  <2>1. current_test_suite \in Suite
    BY <1>3, <1>4
  <2> QED
    BY <1>0, <2>1, PositionsStandForAll DEF Placed, TypeOK, Lists
<1>5. ASSUME pc \in SuiteHook \ {"suiteSetUp"},
             pc' \in (SuiteHook \ {"suiteSetUp"}) \cup {"terminated"},
             UNCHANGED <<ended, should_run, order, suite_pos, test_pos, current_test_suite>>
      PROVE  EndedInv'
  <2>1. \A k : SuiteAt(k)' = SuiteAt(k)
    BY <1>5 DEF SuiteAt, order
  <2>2. \A k : TestAt(current_test_suite, k)' = TestAt(current_test_suite, k)
    BY <1>5 DEF TestAt, order
  <2>3. \A t : /\ InSuitesPast(t)' <=> InSuitesPast(t)
               /\ AmongTestsPast(t)' <=> AmongTestsPast(t)
    BY <1>5, <2>1, <2>2 DEF InSuitesPast, AmongTestsPast
  <2>4. pc' \notin {"envSetUp", "suite", "suiteSetUp", "envTearDown", "iterationEnd"}
    BY <1>5 DEF SuiteHook, TestHook
  <2> QED
    BY <1>5, <2>3, <2>4 DEF EndedInv
<1>6. CASE StartProgram
  BY <1>6 DEF StartProgram, EndedInv, SuiteHook, TestHook, observed
<1>7. CASE BeginIteration
  BY <1>7 DEF BeginIteration, EndedInv, SuiteHook, TestHook, NoneTwice, Elements
<1>8. CASE EnvironmentsReady
  <2>1. /\ pc = "envSetUp" /\ ended = << >> /\ suite_pos = 1
        /\ ended' = ended /\ suite_pos' = suite_pos /\ ad_hoc' = ad_hoc
        /\ pc' = IF HasFatalFailure(ad_hoc) THEN "envTearDown" ELSE "suite"
    BY <1>8 DEF EnvironmentsReady, EndedInv, observed, position, results
  <2>2. \A t : t \notin Elements(ended') /\ ~InSuitesPast(t)'
    BY <2>1 DEF Elements, InSuitesPast
  <2>3. NoneTwice(ended')
    BY <2>1 DEF EndedInv
  <2> QED
    BY <2>1, <2>2, <2>3 DEF EndedInv, SuiteHook, TestHook
<1>9. CASE BeginSuite
  <2>1. /\ pc = "suite" /\ suite_pos \in 1 .. Len(test_suites)
        /\ ended' = ended /\ should_run' = should_run /\ suite_indices' = suite_indices
        /\ pc' \in {"suite", "suiteSetUp"}
    BY <1>1, <1>9 DEF BeginSuite, observed, order
  <2>2. ASSUME NEW t \in should_run PROVE InSuitesPast(t)' <=> InSuitesPast(t)
    <3>1. CASE suite_pos' = suite_pos
      BY <2>1, <3>1 DEF InSuitesPast, SuiteAt
    <3>2. CASE suite_pos' = suite_pos + 1 /\ SuiteOf[t] # SuiteAt(suite_pos)
      <4>1. suite_pos' - 1 = suite_pos
        BY <2>1, <3>2
      <4>2. InSuitesPast(t)' <=> \E k \in 1 .. suite_pos : SuiteOf[t] = SuiteAt(k)
        BY <2>1, <4>1 DEF InSuitesPast, SuiteAt
      <4>3. \A k \in 1 .. suite_pos : k = suite_pos \/ k \in 1 .. suite_pos - 1
        BY <2>1
      <4>4. \A k \in 1 .. suite_pos - 1 : k \in 1 .. suite_pos
        BY <2>1
      <4> QED
        BY <3>2, <4>2, <4>3, <4>4 DEF InSuitesPast
    <3> QED
      BY <1>9, <2>2, <3>1, <3>2 DEF BeginSuite
  <2> QED
    BY <2>1, <2>2 DEF EndedInv, SuiteHook, TestHook
<1>10. CASE BeginTest
  <2>1. /\ pc = "test" /\ ended' = ended /\ should_run' = should_run /\ order' = order
        /\ suite_pos' = suite_pos /\ current_test_suite' = current_test_suite
        /\ pc' \in {"suiteTearDown", "construct", "test"}
    BY <1>10 DEF BeginTest, observed
  <2>2. CASE test_pos' = test_pos
    BY <1>5, <2>1, <2>2 DEF SuiteHook, TestHook
  <2>3. CASE /\ test_pos' = test_pos + 1
             /\ TestAt(current_test_suite, test_pos) \notin should_run
    <3>1. \A k : SuiteAt(k)' = SuiteAt(k)
      BY <2>1 DEF SuiteAt, order
    <3>2. \A k : TestAt(current_test_suite, k)' = TestAt(current_test_suite, k)
      BY <2>1 DEF TestAt, order
    <3>3. \A t : InSuitesPast(t)' <=> InSuitesPast(t)
      BY <2>1, <3>1 DEF InSuitesPast
    <3>4. test_pos \in 1 .. Len(Registered) + 1 /\ test_pos' - 1 = test_pos
      BY <1>0, <1>1, <2>3 DEF Lists
    <3>5. ASSUME NEW t \in should_run PROVE AmongTestsPast(t)' <=> AmongTestsPast(t)
      <4>1. AmongTestsPast(t)' <=> \E k \in 1 .. test_pos : t = TestAt(current_test_suite, k)
        BY <2>1, <3>2, <3>4 DEF AmongTestsPast
      <4>2. \A k \in 1 .. test_pos : k = test_pos \/ k \in 1 .. test_pos - 1
        BY <1>0, <3>4 DEF Lists
      <4>3. \A k \in 1 .. test_pos - 1 : k \in 1 .. test_pos
        BY <1>0, <3>4 DEF Lists
      <4> QED
        BY <2>3, <4>1, <4>2, <4>3 DEF AmongTestsPast
    <3> QED
      BY <2>1, <3>3, <3>5 DEF EndedInv, SuiteHook, TestHook
  <2> QED
    BY <1>10, <2>2, <2>3 DEF BeginTest
<1>11. CASE WrongFixture
  BY <1>5, <1>11 DEF WrongFixture, position, current, SuiteHook, TestHook
<1>12. CASE EndTest
  <2> DEFINE c == current_test_suite
             n == test_pos
             i == current_test_info
  <2>1. /\ pc = "testEnd" /\ pc' = "test" /\ ended' = Append(ended, i)
        /\ should_run' = should_run /\ order' = order
        /\ suite_pos' = suite_pos /\ c' = c /\ test_pos' = n + 1
    BY <1>12 DEF EndTest
  <2>2. i = TestAt(c, n) /\ i \in should_run /\ n \in 1 .. Len(TestsOf(c)) /\ i \in Test
    BY <1>1, <1>4, <2>1 DEF Placed, PlaceInv, SuiteHook, TestHook
  <2>3. SuiteOf[i] = c
    BY <1>4, <2>1, <2>2 DEF Has, SuiteHook, TestHook
  <2>4. ~InSuitesPast(i)
    <3>1. c = SuiteAt(suite_pos) /\ suite_pos \in 1 .. Len(test_suites)
      BY <1>3, <2>1 DEF SuiteHook, TestHook
    <3>2. ASSUME NEW k \in 1 .. suite_pos - 1 PROVE SuiteAt(k) # c
      <4>1. k \in 1 .. Len(test_suites) /\ k # suite_pos
        BY <1>1, <3>1
      <4> QED
        BY <1>2, <3>1, <4>1
    <3> QED
      BY <2>3, <3>2 DEF InSuitesPast
  <2>5. ~AmongTestsPast(i)
    <3>1. ASSUME NEW k \in 1 .. n - 1 PROVE TestAt(c, k) # i
      <4>1. k \in 1 .. Len(TestsOf(c)) /\ k # n
        BY <1>4, <2>1, <2>2 DEF SuiteHook, TestHook
      <4> QED
        BY <1>4, <2>1, <2>2, <4>1 DEF SuiteHook, TestHook
    <3> QED
      BY <3>1 DEF AmongTestsPast
  <2>6. i \notin Elements(ended)
    BY <2>1, <2>2, <2>4, <2>5 DEF EndedInv, SuiteHook, TestHook
  <2>7. NoneTwice(ended') /\ Elements(ended') = Elements(ended) \cup {i}
    BY <1>1, <2>1, <2>2, <2>6, AppendedElements DEF EndedInv
  <2>8. \A k : SuiteAt(k)' = SuiteAt(k)
    BY <2>1 DEF SuiteAt, order
  <2>9. \A k : TestAt(c, k)' = TestAt(c, k)
    BY <2>1 DEF TestAt, order
  <2>10. \A t : InSuitesPast(t)' <=> InSuitesPast(t)
    BY <2>1, <2>8 DEF InSuitesPast
  <2>11. ASSUME NEW t PROVE AmongTestsPast(t)' <=> AmongTestsPast(t) \/ t = i
    <3>1. Len(TestsOf(c)) \in Nat
      BY <1>0 DEF Lists
    <3>0. test_pos' - 1 = n
      BY <2>1, <2>2, <3>1
    <3>2. AmongTestsPast(t)' <=> \E k \in 1 .. n : t = TestAt(c, k)
      BY <2>1, <2>9, <3>0 DEF AmongTestsPast
    <3>3. /\ \A k \in 1 .. n : k = n \/ k \in 1 .. n - 1
          /\ \A k \in 1 .. n - 1 : k \in 1 .. n
          /\ n \in 1 .. n
      BY <2>2, <3>1
    <3> QED
      BY <2>2, <3>2, <3>3 DEF AmongTestsPast
  <2> HIDE DEF i
  <2>12. ASSUME NEW t \in Test
         PROVE  t \in Elements(ended') <=>
                  t \in should_run /\ (InSuitesPast(t)' \/ AmongTestsPast(t)')
    <3>1. t \in Elements(ended) <=>
            t \in should_run /\ (InSuitesPast(t) \/ AmongTestsPast(t))
      BY <2>1 DEF EndedInv, SuiteHook, TestHook
    <3> QED
      BY <2>2, <2>7, <2>10, <2>11, <3>1
  <2> QED
    BY <2>1, <2>7, <2>12 DEF EndedInv, SuiteHook, TestHook
<1>13. CASE SuitesDone
  <2>1. /\ pc = "suite" /\ suite_pos > Len(test_suites) /\ pc' = "envTearDown"
        /\ ended' = ended /\ should_run' = should_run
    BY <1>13 DEF SuitesDone, observed
  <2>2. ASSUME NEW t \in should_run PROVE InSuitesPast(t)
    <3>1. SuiteOf[t] \in Suite
      BY <1>1 DEF Suite
    <3>2. PICK k \in 1 .. Len(test_suites) : SuiteAt(k) = SuiteOf[t]
      BY <1>2, <3>1
    <3>3. k \in 1 .. suite_pos - 1
      BY <1>1, <2>1
    <3> QED
      BY <3>2, <3>3 DEF InSuitesPast
  <2>3. Elements(ended) \subseteq Test
    BY <1>1 DEF Elements
  <2>4. Elements(ended) = should_run
    BY <1>1, <2>1, <2>2, <2>3 DEF EndedInv
  <2> QED
    BY <2>1, <2>4 DEF EndedInv, SuiteHook, TestHook
<1>14. CASE EnvironmentsDone
  BY <1>14 DEF EnvironmentsDone, EndedInv, SuiteHook, TestHook, observed, results
<1>15. CASE EndIteration
  BY <1>15 DEF EndIteration, EndedInv, SuiteHook, TestHook, observed
<1>16. CASE Return
  BY <1>16 DEF Return, EndedInv, SuiteHook, TestHook, observed
<1>17. CASE UNCHANGED vars
  <2>1. /\ pc' = pc /\ ended' = ended /\ should_run' = should_run /\ ad_hoc' = ad_hoc
        /\ suite_pos' = suite_pos /\ test_pos' = test_pos
        /\ current_test_suite' = current_test_suite /\ order' = order
    BY <1>17 DEF vars, observed, position, results, current
  <2>2. \A t : InSuitesPast(t)' <=> InSuitesPast(t)
    BY <2>1 DEF InSuitesPast, SuiteAt, order
  <2>3. \A t : AmongTestsPast(t)' <=> AmongTestsPast(t)
    BY <2>1 DEF AmongTestsPast, TestAt, order
  <2> QED
    BY <2>1, <2>2, <2>3 DEF EndedInv
<1>18. ASSUME NEW o \in Outcome, SetUpEnvironment(o) PROVE EndedInv'
  <2>1. /\ pc = "envSetUp" /\ pc' \in {"envSetUp", "done", "terminated"}
        /\ ended' = ended /\ suite_pos' = suite_pos
    BY <1>18 DEF SetUpEnvironment, CallEnvironment, Call, position
  <2> QED
    BY <2>1 DEF EndedInv, SuiteHook, TestHook
<1>19. ASSUME NEW o \in Outcome, TearDownEnvironment(o) PROVE EndedInv'
  <2>1. /\ pc = "envTearDown" /\ pc' \in {"envTearDown", "done", "terminated"}
        /\ ended' = ended /\ should_run' = should_run
    BY <1>19 DEF TearDownEnvironment, CallEnvironment, Call
  <2>2. PICK next : Call("envTearDown", o, next)
    BY <1>19 DEF TearDownEnvironment, CallEnvironment
  <2>3. ad_hoc \subseteq ad_hoc'
    BY <2>2, Called DEF Hook, Placed
  <2> QED
    BY <2>1, <2>3 DEF EndedInv, SuiteHook, TestHook, HasFatalFailure
<1>20. ASSUME NEW o \in Outcome, SetUpTestSuite(o) PROVE EndedInv'
  <2>1. /\ pc = "suiteSetUp" /\ pc' \in {"test", "terminated"}
        /\ ended' = ended /\ should_run' = should_run /\ order' = order
        /\ suite_pos' = suite_pos /\ test_pos' = 1
    BY <1>20 DEF SetUpTestSuite, Call
  <2>2. \A t : InSuitesPast(t)' <=> InSuitesPast(t)
    BY <2>1 DEF InSuitesPast, SuiteAt, order
  <2>3. \A t : ~AmongTestsPast(t)'
    BY <2>1 DEF AmongTestsPast
  <2> QED
    BY <2>1, <2>2, <2>3 DEF EndedInv, SuiteHook, TestHook
<1>21. ASSUME NEW o \in Outcome, TearDownTestSuite(o) PROVE EndedInv'
  <2> DEFINE c == current_test_suite
  <2>1. /\ pc = "suiteTearDown" /\ pc' \in {"suite", "terminated"}
        /\ ended' = ended /\ should_run' = should_run /\ order' = order
        /\ suite_pos' = suite_pos + 1
    BY <1>21 DEF TearDownTestSuite, Call
  <2>2. /\ c = SuiteAt(suite_pos) /\ suite_pos \in 1 .. Len(test_suites)
        /\ test_pos = Len(TestsOf(c)) + 1 /\ Len(TestsOf(c)) \in Nat
    BY <1>3, <1>4, <2>1 DEF Placed, PlaceInv, SuiteHook
  <2>3. ASSUME NEW t \in Test PROVE AmongTestsPast(t) <=> SuiteOf[t] = c
    <3>1. /\ \A k \in 1 .. Len(TestsOf(c)) : Has(c, TestAt(c, k))
          /\ Has(c, t) => \E k \in 1 .. Len(TestsOf(c)) : TestAt(c, k) = t
      BY <1>4, <2>1 DEF SuiteHook
    <3>2. test_pos - 1 = Len(TestsOf(c))
      BY <2>2
    <3> QED
      BY <3>1, <3>2 DEF AmongTestsPast, Has
  <2>4. ASSUME NEW t PROVE InSuitesPast(t)' <=> InSuitesPast(t) \/ SuiteOf[t] = c
    <3>1. \A k : SuiteAt(k)' = SuiteAt(k)
      BY <2>1 DEF SuiteAt, order
    <3>0. suite_pos' - 1 = suite_pos
      BY <1>1, <2>1
    <3>2. InSuitesPast(t)' <=> \E k \in 1 .. suite_pos : SuiteOf[t] = SuiteAt(k)
      BY <2>1, <3>0, <3>1 DEF InSuitesPast
    <3>3. /\ \A k \in 1 .. suite_pos : k = suite_pos \/ k \in 1 .. suite_pos - 1
          /\ \A k \in 1 .. suite_pos - 1 : k \in 1 .. suite_pos
          /\ suite_pos \in 1 .. suite_pos
      BY <1>1, <2>2
    <3> QED
      BY <2>2, <3>2, <3>3 DEF InSuitesPast
  <2>5. \A t \in Test : t \in Elements(ended') <=> t \in should_run' /\ InSuitesPast(t)'
    BY <2>1, <2>3, <2>4 DEF EndedInv, SuiteHook, TestHook
  <2> QED
    BY <2>1, <2>5 DEF EndedInv, SuiteHook, TestHook
<1>22. ASSUME NEW o \in Outcome,
              Construct(o) \/ SetUp(o) \/ TestBody(o) \/ TearDown(o) \/ Destroy(o)
       PROVE  EndedInv'
  <2>1. \E hook, next \in TestHook : Call(hook, o, next)
    BY <1>22 DEF Construct, SetUp, TestBody, TearDown, Destroy, TestHook
  <2>2. /\ pc \in TestHook /\ pc' \in TestHook \cup {"terminated"}
        /\ UNCHANGED <<ended, should_run, order>>
    BY <2>1 DEF Call, TestHook
  <2>3. UNCHANGED <<suite_pos, test_pos, current_test_suite>>
    BY <1>22 DEF Construct, SetUp, TestBody, TearDown, Destroy, position, current
  <2> QED
    BY <1>5, <2>2, <2>3 DEF SuiteHook, TestHook
<1> QED
  BY <1>6, <1>7, <1>8, <1>9, <1>10, <1>11, <1>12, <1>13, <1>14, <1>15, <1>16, <1>17,
     <1>18, <1>19, <1>20, <1>21, <1>22 DEF Next, RunHook

(* The processes that share the work by shards select each runnable test   *)
(* exactly once between them: the number of a test depends on the filter   *)
(* alone, which they have in common.                                       *)
LEMMA ShardsShare ==
  ASSUME NEW f \in FlagSettings, ValidShards(f), ShouldShard(f)
  PROVE  LET Peer(k) == [f EXCEPT !.shard_index = k]
             shards == 0 .. f.total_shards - 1
         IN  /\ \A t : Cardinality({k \in shards : ~InAnotherShard(Peer(k), t)}) = 1
             /\ FilterTests(f) = Runnable(f) \
                  UNION {FilterTests(Peer(k)) : k \in shards \ {f.shard_index}}
<1> DEFINE Peer(k) == [f EXCEPT !.shard_index = k]
           shards == 0 .. f.total_shards - 1
           id(t) == IdOf(f, t) % f.total_shards
<1>1. /\ f.filter \subseteq Test /\ f.total_shards \in Int /\ f.total_shards > 1
      /\ f.shard_index \in shards
  BY FlagsType DEF ValidShards, ShouldShard
<1>2. ASSUME NEW k
      PROVE  /\ Runnable(Peer(k)) = Runnable(f) /\ Peer(k).total_shards = f.total_shards
             /\ Peer(k).shard_index = k
  BY FlagsType DEF Runnable
<1>3. IsFiniteSet(Test)
  <2>1. Registered \in Seq(Test) /\ Test = Elements(Registered)
    BY RegisteredOnce, ElementsAreRange DEF Test
  <2> QED
    BY <2>1, RangeIsSmall
<1>4. ASSUME NEW t PROVE id(t) \in shards
  <2>1. {u \in Runnable(f) : LooksAtFirst(u, t)} \subseteq Test
    BY <1>1 DEF Runnable
  <2>2. IsFiniteSet({u \in Runnable(f) : LooksAtFirst(u, t)})
    BY <1>3, <2>1, FS_Subset
  <2>3. IdOf(f, t) \in Nat
    BY <2>2, FS_CardinalityType DEF IdOf
  <2> QED
    BY <1>1, <2>3
<1>5. ASSUME NEW k, NEW t PROVE InAnotherShard(Peer(k), t) <=> id(t) # k
  <2>1. IdOf(Peer(k), t) = IdOf(f, t)
    BY <1>2 DEF IdOf
  <2>2. ShouldShard(Peer(k))
    BY <1>1, <1>2 DEF ShouldShard
  <2> QED
    BY <1>2, <2>1, <2>2 DEF InAnotherShard, ShouldRunTestOnShard
<1>6. ASSUME NEW t
      PROVE  InAnotherShard(f, t) <=> id(t) # f.shard_index
  BY ShouldShard(f) DEF InAnotherShard, ShouldRunTestOnShard
<1> HIDE DEF Peer, shards, id
<1>7. ASSUME NEW t PROVE Cardinality({k \in shards : ~InAnotherShard(Peer(k), t)}) = 1
  <2>1. {k \in shards : ~InAnotherShard(Peer(k), t)} = {id(t)}
    BY <1>4, <1>5
  <2> QED
    BY <2>1, FS_Singleton
<1>8. FilterTests(f) = {t \in Runnable(f) : id(t) = f.shard_index}
  BY <1>6 DEF FilterTests
<1>9. \A k : FilterTests(Peer(k)) = {t \in Runnable(f) : id(t) = k}
  BY <1>2, <1>5 DEF FilterTests
<1>10. FilterTests(f) = Runnable(f) \
         UNION {FilterTests(Peer(k)) : k \in shards \ {f.shard_index}}
  BY <1>4, <1>8, <1>9
<1> QED
  BY <1>7, <1>10 DEF Peer, shards

(* Each iteration runs every selected test exactly once, or none because   *)
(* an environment failed fatally; the shards share the runnable tests.     *)
THEOREM SelectedRunOnce == Spec => []SelectedTestsRunOnce
<1> DEFINE Inv == Placed /\ EndedInv
<1>1. Init => Inv
  BY PlacedAtFirst, NoneEndedAtFirst
<1>2. Inv /\ [Next]_vars => Inv'
  BY StaysPlaced, EndedKept
<1>3. ASSUME Inv PROVE SelectedTestsRunOnce
  <2>1. ended \in Seq(Test) /\ flags \in FlagSettings
    BY <1>3 DEF Placed, TypeOK
  <2>2. Range(ended) = Elements(ended) /\ IsInjective(ended)
    BY <1>3, <2>1, ElementsAreRange, NoneTwiceIsInjective DEF EndedInv
  <2>3. pc = "iterationEnd" =>
          \/ IsInjective(ended) /\ Range(ended) = should_run
          \/ ended = << >> /\ HasFatalFailure(ad_hoc)
    BY <1>3, <2>2 DEF EndedInv
  <2>4. pc = "iteration" => should_run = FilterTests(flags) /\ ValidShards(flags)
    BY <1>3 DEF Placed, PlaceInv
  <2> QED
    BY <2>1, <2>3, <2>4, ShardsShare DEF SelectedTestsRunOnce
<1> QED
  BY <1>1, <1>2, <1>3, PTL DEF Spec
-----------------------------------------------------------------------------
(***************************************************************************)
(* Where failures go (ResultReporting).                                    *)
(***************************************************************************)

(* The lines of the traces, newest first.                                  *)
TracesUpTo(f, scopes, n) ==
  f = [i \in 0 .. n |->
         IF i = 0 THEN << >>
         ELSE IF scopes[i].class = "trace" THEN <<scopes[i].line>> \o f[i - 1]
         ELSE f[i - 1]]

LEMMA TracesStep ==
  ASSUME NEW f, NEW scopes, NEW n \in Nat, TracesUpTo(f, scopes, n)
  PROVE  /\ f[0] = << >>
         /\ \A i \in 1 .. n :
              f[i] = IF scopes[i].class = "trace" THEN <<scopes[i].line>> \o f[i - 1]
                     ELSE f[i - 1]
<1>1. \A i \in 0 .. n : f[i] = IF i = 0 THEN << >>
                               ELSE IF scopes[i].class = "trace"
                               THEN <<scopes[i].line>> \o f[i - 1]
                               ELSE f[i - 1]
  BY Zenon DEF TracesUpTo
<1>2. f[0] = << >>
  <2>1. 0 \in 0 .. n
    OBVIOUS
  <2> QED
    BY <1>1, <2>1, Zenon
<1>3. \A i \in 1 .. n : i \in 0 .. n /\ i # 0
  OBVIOUS
<1> QED
  BY <1>1, <1>2, <1>3

LEMMA TracesExist ==
  ASSUME NEW scopes, NEW n \in Nat
  PROVE  \E f : TracesUpTo(f, scopes, n)
<1> DEFINE T == {k \in 0 .. n : \E f : TracesUpTo(f, scopes, k)}
<1>1. 0 \in T
  <2>1. TracesUpTo([i \in 0 .. 0 |-> << >>], scopes, 0)
    BY DEF TracesUpTo
  <2> QED
    BY <2>1
<1>2. ASSUME NEW k \in 0 .. n, k # n, k \in T
      PROVE  k + 1 \in T
  <2>1. PICK f : TracesUpTo(f, scopes, k)
    BY <1>2
  <2> DEFINE last1 == IF scopes[k + 1].class = "trace" THEN <<scopes[k + 1].line>> \o f[k]
                      ELSE f[k]
             g == [i \in 0 .. (k + 1) |-> IF i = k + 1 THEN last1 ELSE f[i]]
             h == [i \in 0 .. (k + 1) |->
                     IF i = 0 THEN << >>
                     ELSE IF scopes[i].class = "trace" THEN <<scopes[i].line>> \o g[i - 1]
                     ELSE g[i - 1]]
  <2>2. f[0] = << >> /\ \A i \in 1 .. k :
          f[i] = IF scopes[i].class = "trace" THEN <<scopes[i].line>> \o f[i - 1]
                 ELSE f[i - 1]
    BY <2>1, TracesStep
  <2>3. ASSUME NEW i \in 0 .. (k + 1)
        PROVE  g[i] = h[i]
    <3>1. CASE i = k + 1
      <4>1. h[i] = IF scopes[i].class = "trace" THEN <<scopes[i].line>> \o g[i - 1]
                   ELSE g[i - 1]
        BY <3>1
      <4>2. i - 1 = k /\ g[k] = f[k]
        BY <3>1
      <4>3. g[i] = last1
        BY <3>1
      <4> QED
        BY <3>1, <4>1, <4>2, <4>3
    <3>2. CASE i = 0
      BY <2>2, <3>2
    <3>3. CASE i \in 1 .. k
      <4>1. f[i] = IF scopes[i].class = "trace" THEN <<scopes[i].line>> \o f[i - 1]
                   ELSE f[i - 1]
        BY <2>2, <3>3
      <4>2. g[i] = f[i] /\ g[i - 1] = f[i - 1]
        BY <3>3
      <4>3. h[i] = IF scopes[i].class = "trace" THEN <<scopes[i].line>> \o g[i - 1]
                   ELSE g[i - 1]
        BY <3>3
      <4> QED
        BY <4>1, <4>2, <4>3
    <3> QED
      BY <3>1, <3>2, <3>3
  <2>4. g = h
    BY <2>3
  <2> HIDE DEF g, last1
  <2>5. TracesUpTo(g, scopes, k + 1)
    BY <2>4 DEF TracesUpTo
  <2>6. k + 1 \in 0 .. n
    BY <1>2
  <2> QED
    BY <2>5, <2>6
<1>3. \A k \in 0 .. n : k # n /\ k \in T => k + 1 \in T
  BY <1>2
<1> HIDE DEF T
<1>4. n \in T
  BY <1>1, <1>3, UpwardInduction
<1> QED
  BY <1>4 DEF T

LEMMA OpenTracesAre ==
  ASSUME NEW scopes, Len(scopes) \in Nat
  PROVE  \E f : TracesUpTo(f, scopes, Len(scopes)) /\ OpenTraces(scopes) = f[Len(scopes)]
<1> DEFINE lines == CHOOSE f : f = [n \in 0 .. Len(scopes) |->
                       IF n = 0 THEN << >>
                       ELSE IF scopes[n].class = "trace" THEN <<scopes[n].line>> \o f[n - 1]
                       ELSE f[n - 1]]
<1>1. \E f : TracesUpTo(f, scopes, Len(scopes))
  BY TracesExist
<1>2. TracesUpTo(lines, scopes, Len(scopes))
  BY <1>1, Zenon DEF TracesUpTo
<1>3. OpenTraces(scopes) = lines[Len(scopes)]
  BY DEF OpenTraces
<1> HIDE DEF lines
<1> QED
  BY <1>2, <1>3

(* Two stacks that agree up to a place have the same traces up to there.   *)
LEMMA TracesAgree ==
  ASSUME NEW a, NEW b, NEW n \in Nat, NEW m \in Nat, NEW f, NEW g, TracesUpTo(f, a, n),
         TracesUpTo(g, b, m), NEW k \in Nat, k <= n, k <= m,
         \A i \in 1 .. k : a[i].class = b[i].class /\ a[i].line = b[i].line
  PROVE  f[k] = g[k]
<1> DEFINE T == {i \in 0 .. k : f[i] = g[i]}
<1>1. /\ f[0] = << >>
      /\ \A i \in 1 .. n : f[i] = IF a[i].class = "trace" THEN <<a[i].line>> \o f[i - 1]
                                  ELSE f[i - 1]
  BY TracesStep
<1>2. /\ g[0] = << >>
      /\ \A i \in 1 .. m : g[i] = IF b[i].class = "trace" THEN <<b[i].line>> \o g[i - 1]
                                  ELSE g[i - 1]
  BY TracesStep
<1>3. 0 \in T
  BY <1>1, <1>2
<1>4. ASSUME NEW i \in 0 .. k, i # k, i \in T PROVE i + 1 \in T
  <2>1. i + 1 \in 1 .. k /\ i + 1 \in 1 .. n /\ i + 1 \in 1 .. m /\ (i + 1) - 1 = i
    BY <1>4
  <2>2. f[i] = g[i]
    BY <1>4
  <2>3. f[i + 1] = IF a[i + 1].class = "trace" THEN <<a[i + 1].line>> \o f[i] ELSE f[i]
    BY <1>1, <2>1
  <2>4. g[i + 1] = IF b[i + 1].class = "trace" THEN <<b[i + 1].line>> \o g[i] ELSE g[i]
    BY <1>2, <2>1
  <2>5. a[i + 1].class = b[i + 1].class /\ a[i + 1].line = b[i + 1].line
    BY <2>1
  <2> QED
    BY <2>1, <2>2, <2>3, <2>4, <2>5
<1>5. \A i \in 0 .. k : i # k /\ i \in T => i + 1 \in T
  BY <1>4
<1> HIDE DEF T
<1>6. k \in T
  BY <1>3, <1>5, UpwardInduction
<1> QED
  BY <1>6 DEF T

LEMMA SameTraces ==
  ASSUME NEW a, NEW b, Len(a) \in Nat, Len(b) = Len(a),
         \A i \in 1 .. Len(a) : a[i].class = b[i].class /\ a[i].line = b[i].line
  PROVE  OpenTraces(a) = OpenTraces(b)
<1>1. PICK f : TracesUpTo(f, a, Len(a)) /\ OpenTraces(a) = f[Len(a)]
  BY OpenTracesAre
<1>2. PICK g : TracesUpTo(g, b, Len(b)) /\ OpenTraces(b) = g[Len(b)]
  BY OpenTracesAre
<1> DEFINE k == Len(a)
<1>3. TracesUpTo(f, a, k) /\ TracesUpTo(g, b, k) /\ OpenTraces(a) = f[k] /\ OpenTraces(b) = g[k]
      /\ k \in Nat /\ k <= k
  BY <1>1, <1>2
<1>4. \A i \in 1 .. k : a[i].class = b[i].class /\ a[i].line = b[i].line
  OBVIOUS
<1> HIDE DEF k
<1>5. f[k] = g[k]
  BY ONLY <1>3, <1>4, TracesAgree
<1> QED
  BY <1>3, <1>5

LEMMA NoTraces == OpenTraces(<< >>) = << >>
<1>1. Len(<< >>) = 0
  OBVIOUS
<1>2. PICK f : TracesUpTo(f, << >>, 0) /\ OpenTraces(<< >>) = f[0]
  BY <1>1, OpenTracesAre
<1> QED
  BY <1>2, TracesStep

(* The newest scope is the first to be told, if it is a trace.             *)
LEMMA NewestTrace ==
  ASSUME NEW a, NEW n \in Nat, Len(a) = n + 1, NEW b, Len(b) = n,
         \A i \in 1 .. n : a[i].class = b[i].class /\ a[i].line = b[i].line
  PROVE  OpenTraces(a) = IF a[n + 1].class = "trace" THEN <<a[n + 1].line>> \o OpenTraces(b)
                         ELSE OpenTraces(b)
<1>1. PICK f : TracesUpTo(f, a, n + 1) /\ OpenTraces(a) = f[n + 1]
  BY OpenTracesAre
<1>2. PICK g : TracesUpTo(g, b, n) /\ OpenTraces(b) = g[n]
  BY OpenTracesAre
<1> DEFINE m == n + 1
<1>3. m \in Nat /\ n <= m /\ n <= n /\ TracesUpTo(f, a, m)
  BY <1>1
<1> HIDE DEF m
<1>4. f[n] = g[n]
  BY ONLY <1>2, <1>3, TracesAgree, n \in Nat,
          \A i \in 1 .. n : a[i].class = b[i].class /\ a[i].line = b[i].line
<1>5. f[m] = IF a[m].class = "trace" THEN <<a[m].line>> \o f[m - 1] ELSE f[m - 1]
  <2>1. m \in 1 .. m
    BY <1>3 DEF m
  <2> QED
    BY <1>3, <2>1, TracesStep
<1>6. m - 1 = n /\ m = n + 1
  BY DEF m
<1> QED
  BY <1>1, <1>2, <1>4, <1>5, <1>6

-----------------------------------------------------------------------------
(* The types. *)
ResultRecord ==
  [type : {"success", "nonfatal", "fatal"}, message : {"the_text", "another"},
   trace : Seq(Nat)]

Scope ==
  [class : {"one_thread", "all_threads", "no_fatal", "trace"},
   asks : {"fatal", "nonfatal", "EXPECT", "ASSERT", "a_line"},
   line : Nat, open : BOOLEAN, old_reporter : Nat \X Nat,
   results : Seq(ResultRecord), has_new_fatal_failure : BOOLEAN, due : Seq(ResultRecord)]

Leaving == {"no", "return", "throw"}

ReportingTypeOK ==
  /\ xml_element \in Results
  /\ test_part_results \in Seq(ResultRecord) /\ due \in Seq(ResultRecord)
  /\ global_reporter \in Nat \X Nat
  /\ thread_reporter \in [ReportingThreads -> Nat \X Nat]
  /\ gtest_trace_stack \in [ReportingThreads -> Seq(Nat)]
  /\ frames \in [ReportingThreads -> Seq(Scope)]
  /\ leaving \in [ReportingThreads -> Leaving]

(* The scopes of one thread that have a reporter in the place of the       *)
(* thread's, and those that have one in the place of the global one.       *)
OfThread == {"one_thread", "no_fatal"}
OfAll == {"all_threads"}

(* The open scopes of these kinds of a stack, up to a place.               *)
OpenUpTo(scopes, n, classes) ==
  {i \in 1 .. n : scopes[i].class \in classes /\ scopes[i].open}

(* A link to the newest of them, or to a default.                          *)
LinksTo(reporter, t, places, default) ==
  \/ places = {} /\ reporter = default
  \/ \E m \in places : (\A k \in places : k <= m) /\ reporter = <<t, m>>

(* All but the last scope of a thread are open, only thread 1 has scopes   *)
(* for all, and each scope restores what was there before it.              *)
Linked(t, scopes, i) ==
  /\ scopes[i].class = "all_threads" => t = 1
  /\ scopes[i].class # "all_threads" =>
       LinksTo(scopes[i].old_reporter, t, OpenUpTo(scopes, i - 1, OfThread), DefaultPerThread)
  /\ scopes[i].class = "all_threads" =>
       LinksTo(scopes[i].old_reporter, t, OpenUpTo(scopes, i - 1, OfAll), DefaultGlobal)

Stacked(t, scopes) ==
  \A i \in 1 .. Len(scopes) :
    /\ i # Len(scopes) => scopes[i].open
    /\ scopes[i].class = "trace" => scopes[i].open
    /\ Linked(t, scopes, i)

ThreadChain(t, scopes, reporter, traces) ==
  /\ Stacked(t, scopes)
  /\ LinksTo(reporter, t, OpenUpTo(scopes, Len(scopes), OfThread), DefaultPerThread)
  /\ Reverse(traces) = OpenTraces(scopes)

GlobalChain(scopes, reporter) ==
  LinksTo(reporter, 1, OpenUpTo(scopes, Len(scopes), OfAll), DefaultGlobal)

ChainInv ==
  /\ \A t \in ReportingThreads :
       ThreadChain(t, frames[t], thread_reporter[t], gtest_trace_stack[t])
  /\ GlobalChain(frames[1], global_reporter)

-----------------------------------------------------------------------------
(* The route.                                                              *)
RoutesAre(f, G, next, keeps) ==
  f = [r \in G |-> IF r \in keeps THEN {r} ELSE {r} \cup f[next[r]]]

(* Along links within a set, each member has a route: all that no set      *)
(* closed under the links can leave out.                                   *)
LEMMA RoutesExist ==
  ASSUME NEW G, NEW next, NEW keeps, \A r \in G : r \notin keeps => next[r] \in G
  PROVE  \E f : RoutesAre(f, G, next, keeps)
<1> DEFINE Closed(C) == \A r \in C : r \notin keeps => next[r] \in C
           In(r, y) == \A C \in SUBSET G : Closed(C) /\ r \in C => y \in C
           f == [r \in G |-> {y \in G : In(r, y)}]
           g == [r \in G |-> IF r \in keeps THEN {r} ELSE {r} \cup f[next[r]]]
<1>1. ASSUME NEW r \in G, r \in keeps
      PROVE  f[r] = {r}
  <2>1. {r} \in SUBSET G /\ Closed({r}) /\ r \in {r}
    BY <1>1
  <2>2. In(r, r)
    OBVIOUS
  <2>3. \A y \in G : In(r, y) => y \in {r}
    BY <2>1
  <2> QED
    BY <2>2, <2>3
<1>2. ASSUME NEW r \in G, r \notin keeps
      PROVE  f[r] = {r} \cup f[next[r]]
  <2> DEFINE n == next[r]
             D == {r} \cup f[n]
  <2>1. n \in G
    BY <1>2
  <2>2. f[n] = {y \in G : In(n, y)} /\ f[r] = {y \in G : In(r, y)}
    BY <2>1
  <2>3. In(r, r) /\ In(n, n)
    OBVIOUS
  <2>4. ASSUME NEW y \in G, In(n, y)
        PROVE  In(r, y)
    <3> SUFFICES ASSUME NEW C \in SUBSET G, Closed(C), r \in C
                 PROVE  y \in C
      OBVIOUS
    <3>1. n \in C
      BY <1>2
    <3> QED
      BY <2>4, <3>1
  <2>5. D \in SUBSET G /\ r \in D
    BY <2>2
  <2>6. Closed(D)
    <3>1. ASSUME NEW x \in f[n], x \notin keeps
          PROVE  next[x] \in f[n]
      <4>1. x \in G /\ In(n, x)
        BY <2>2, <3>1
      <4>2. next[x] \in G
        BY <3>1, <4>1
      <4>3. In(n, next[x])
        <5> SUFFICES ASSUME NEW C \in SUBSET G, Closed(C), n \in C
                     PROVE  next[x] \in C
          OBVIOUS
        <5>1. x \in C
          BY <4>1
        <5> QED
          BY <3>1, <5>1
      <4> QED
        BY <2>2, <4>2, <4>3
    <3>2. n \in f[n]
      BY <2>1, <2>2, <2>3
    <3> QED
      BY <3>1, <3>2
  <2>7. ASSUME NEW y \in G, In(r, y)
        PROVE  y \in D
    BY <2>5, <2>6, <2>7
  <2>8. f[r] \subseteq D
    BY <2>2, <2>7
  <2>9. D \subseteq f[r]
    BY <2>2, <2>3, <2>4
  <2> QED
    BY <2>8, <2>9
<1>3. \A r \in G : f[r] = g[r]
  BY <1>1, <1>2
<1>4. f = g
  BY <1>3
<1> HIDE DEF f
<1>5. RoutesAre(f, G, next, keeps)
  BY <1>4 DEF RoutesAre
<1> QED
  BY <1>5

(* What the links and the keepers are.                                     *)
NextReporter(r) ==
  IF r = DefaultPerThread THEN global_reporter ELSE ScopeOf(r).old_reporter

Keeps(r) == r = DefaultGlobal \/ (r # DefaultPerThread /\ Takes(ScopeOf(r)))

LEMMA ReportersAre ==
  ASSUME ReportingTypeOK
  PROVE  /\ DefaultGlobal \in Reporters /\ DefaultPerThread \in Reporters
         /\ \A t \in ReportingThreads : \A i \in 1 .. Len(frames[t]) : <<t, i>> \in Reporters
         /\ \A r \in Reporters \ {DefaultGlobal, DefaultPerThread} :
              \E t \in ReportingThreads : \E i \in 1 .. Len(frames[t]) : r = <<t, i>>
         /\ \A t \in ReportingThreads, i \in Nat :
              <<t, i>> # DefaultGlobal /\ <<t, i>> # DefaultPerThread
<1>1. \A t \in ReportingThreads : DOMAIN frames[t] = 1 .. Len(frames[t])
  BY DEF ReportingTypeOK
<1>2. \A t \in ReportingThreads, i \in Nat :
              <<t, i>> # DefaultGlobal /\ <<t, i>> # DefaultPerThread
  BY ThreadsAreNumbered DEF DefaultGlobal, DefaultPerThread
<1> QED
  BY <1>1, <1>2 DEF Reporters

LEMMA LinkTarget ==
  ASSUME ReportingTypeOK, NEW t \in ReportingThreads, NEW n \in Int, n <= Len(frames[t]),
         NEW classes, NEW reporter, NEW default \in Reporters,
         LinksTo(reporter, t, OpenUpTo(frames[t], n, classes), default)
  PROVE  reporter \in Reporters
<1>1. CASE reporter = default
  BY <1>1
<1>2. ASSUME NEW m \in OpenUpTo(frames[t], n, classes), reporter = <<t, m>>
      PROVE  reporter \in Reporters
  <2>1. Len(frames[t]) \in Nat
    BY DEF ReportingTypeOK
  <2>2. m \in 1 .. Len(frames[t])
    BY <1>2, <2>1 DEF OpenUpTo
  <2> QED
    BY <1>2, <2>2, ReportersAre
<1> QED
  BY <1>1, <1>2 DEF LinksTo

LEMMA NextIsAReporter ==
  ASSUME ReportingTypeOK, ChainInv, NEW r \in Reporters, ~ Keeps(r)
  PROVE  NextReporter(r) \in Reporters
<1>2. CASE r = DefaultPerThread
  <2>1. Len(frames[1]) \in Nat /\ 1 \in ReportingThreads
    BY ThreadsAreNumbered DEF ReportingTypeOK
  <2>2. LinksTo(global_reporter, 1, OpenUpTo(frames[1], Len(frames[1]), OfAll), DefaultGlobal)
    BY DEF ChainInv, ThreadChain, GlobalChain
  <2>3. DefaultGlobal \in Reporters
    BY ReportersAre
  <2>4. Len(frames[1]) \in Int /\ Len(frames[1]) <= Len(frames[1])
    BY <2>1
  <2>5. global_reporter \in Reporters
    BY <2>1, <2>2, <2>3, <2>4, LinkTarget
  <2> QED
    BY <1>2, <2>5 DEF NextReporter
<1>3. CASE r # DefaultPerThread
  <2>1. r # DefaultGlobal
    BY DEF Keeps
  <2>2. PICK t \in ReportingThreads : \E i \in 1 .. Len(frames[t]) : r = <<t, i>>
    BY <1>3, <2>1, ReportersAre
  <2>2a. PICK i \in 1 .. Len(frames[t]) : r = <<t, i>>
    BY <2>2
  <2>3. ScopeOf(r) = frames[t][i] /\ NextReporter(r) = frames[t][i].old_reporter
    BY <1>3, <2>2a DEF ScopeOf, NextReporter
  <2>4. Stacked(t, frames[t])
    BY DEF ChainInv, ThreadChain, GlobalChain
  <2>5. frames[t][i].class # "all_threads"
    BY <1>3, <2>3 DEF Keeps, Takes
  <2>6. LinksTo(frames[t][i].old_reporter, t, OpenUpTo(frames[t], i - 1, OfThread),
                DefaultPerThread)
    BY <2>4, <2>5 DEF Stacked, Linked
  <2>7. i - 1 \in Int /\ i - 1 <= Len(frames[t])
    BY DEF ReportingTypeOK
  <2>8. frames[t][i].old_reporter \in Reporters
    BY <2>6, <2>7, ReportersAre, LinkTarget
  <2> QED
    BY <2>3, <2>8
<1> QED
  BY <1>2, <1>3

LEMMA RouteStep ==
  ASSUME ReportingTypeOK, ChainInv
  PROVE  \A r \in Reporters :
           Route[r] = IF Keeps(r) THEN {r} ELSE {r} \cup Route[NextReporter(r)]
<1> DEFINE Body(f) == [reporter \in Reporters |->
              CASE reporter = DefaultGlobal -> {reporter}
                [] reporter = DefaultPerThread -> {reporter} \cup f[global_reporter]
                [] OTHER -> IF Takes(ScopeOf(reporter)) THEN {reporter}
                            ELSE {reporter} \cup f[ScopeOf(reporter).old_reporter]]
           Is(f) == f = Body(f)
           keeps == {r \in Reporters : Keeps(r)}
           next == [r \in Reporters |-> NextReporter(r)]
<1>1. \A r \in Reporters : r \notin keeps => next[r] \in Reporters
  BY NextIsAReporter
<1>2. PICK f : RoutesAre(f, Reporters, next, keeps)
  BY ONLY <1>1, RoutesExist
<1>3. ASSUME NEW g, NEW r \in Reporters
      PROVE  Body(g)[r] = IF Keeps(r) THEN {r} ELSE {r} \cup g[NextReporter(r)]
  <2>1. DefaultGlobal # DefaultPerThread
    BY DEF DefaultGlobal, DefaultPerThread
  <2>2. CASE r = DefaultGlobal
    BY <2>1, <2>2 DEF Keeps
  <2>3. CASE r = DefaultPerThread
    BY <2>1, <2>3 DEF Keeps, NextReporter
  <2>4. CASE r # DefaultGlobal /\ r # DefaultPerThread
    BY <2>4 DEF Keeps, NextReporter
  <2> QED
    BY <2>2, <2>3, <2>4
<1>4. ASSUME NEW r \in Reporters
      PROVE  f[r] = Body(f)[r]
  <2>1. f[r] = IF r \in keeps THEN {r} ELSE {r} \cup f[next[r]]
    BY <1>2 DEF RoutesAre
  <2>2. (r \in keeps <=> Keeps(r)) /\ next[r] = NextReporter(r)
    OBVIOUS
  <2> QED
    BY <1>3, <2>1, <2>2
<1>5. Is(f)
  <2>1. f = [r \in Reporters |-> f[r]]
    BY <1>2 DEF RoutesAre
  <2>2. Body(f) = [r \in Reporters |-> Body(f)[r]]
    OBVIOUS
  <2> HIDE DEF Body
  <2> QED
    BY <1>4, <2>1, <2>2
<1>6. Route = CHOOSE g : Is(g)
  BY DEF Route
<1>7. Is(Route)
  <2> HIDE DEF Is
  <2> QED
    BY <1>5, <1>6
<1>8. \A r \in Reporters : Route[r] = Body(Route)[r]
  <2> HIDE DEF Body
  <2> QED
    BY <1>7
<1> HIDE DEF Body
<1> QED
  BY <1>3, <1>8

(* A scope that takes failures for all has no one to pass them to, nor has *)
(* the default.                                                            *)
LEMMA GlobalRoute ==
  ASSUME ReportingTypeOK, ChainInv
  PROVE  /\ global_reporter \in Reporters /\ Keeps(global_reporter)
         /\ Route[global_reporter] = {global_reporter}
         /\ Route[DefaultPerThread] = {DefaultPerThread, global_reporter}
         /\ \A t \in ReportingThreads : \A i \in 1 .. Len(frames[t]) :
              <<t, i>> = global_reporter =>
                frames[t][i].class = "all_threads" /\ frames[t][i].open
         /\ global_reporter # DefaultPerThread
<1>1. 1 \in ReportingThreads /\ Len(frames[1]) \in Nat
  BY ThreadsAreNumbered DEF ReportingTypeOK
<1> DEFINE A == OpenUpTo(frames[1], Len(frames[1]), OfAll)
<1>2. LinksTo(global_reporter, 1, A, DefaultGlobal)
  BY DEF ChainInv, ThreadChain, GlobalChain
<1>3. DefaultGlobal # DefaultPerThread
  BY DEF DefaultGlobal, DefaultPerThread
<1>4. CASE global_reporter = DefaultGlobal
  <2>1. global_reporter \in Reporters /\ Keeps(global_reporter)
    BY <1>4, ReportersAre DEF Keeps
  <2>2. \A t \in ReportingThreads : \A i \in 1 .. Len(frames[t]) : <<t, i>> # global_reporter
    BY <1>4, ReportersAre DEF ReportingTypeOK
  <2> QED
    BY <1>3, <1>4, <2>1, <2>2, RouteStep, ReportersAre DEF Keeps, NextReporter
<1>5. ASSUME NEW m \in A, global_reporter = <<1, m>>
      PROVE  /\ global_reporter \in Reporters /\ Keeps(global_reporter)
             /\ Route[global_reporter] = {global_reporter}
             /\ Route[DefaultPerThread] = {DefaultPerThread, global_reporter}
             /\ \A t \in ReportingThreads : \A i \in 1 .. Len(frames[t]) :
                  <<t, i>> = global_reporter =>
                    frames[t][i].class = "all_threads" /\ frames[t][i].open
             /\ global_reporter # DefaultPerThread
  <2>1. m \in 1 .. Len(frames[1]) /\ frames[1][m].class = "all_threads" /\ frames[1][m].open
    BY DEF OpenUpTo, OfAll
  <2>2. global_reporter \in Reporters /\ global_reporter # DefaultPerThread
    BY <1>1, <1>5, <2>1, ReportersAre
  <2>3. Keeps(global_reporter)
    BY <1>5, <2>1, <2>2 DEF Keeps, ScopeOf, Takes
  <2>4. Route[global_reporter] = {global_reporter}
    BY <2>2, <2>3, RouteStep
  <2>5. Route[DefaultPerThread] = {DefaultPerThread, global_reporter}
    <3>1. ~ Keeps(DefaultPerThread) /\ NextReporter(DefaultPerThread) = global_reporter
      BY <1>3 DEF Keeps, NextReporter
    <3> QED
      BY <2>4, <3>1, RouteStep, ReportersAre
  <2>6. \A t \in ReportingThreads : \A i \in 1 .. Len(frames[t]) :
          <<t, i>> = global_reporter => t = 1 /\ i = m
    BY <1>5
  <2> QED
    BY <2>1, <2>2, <2>3, <2>4, <2>5, <2>6
<1> HIDE DEF A
<1> QED
  BY <1>2, <1>4, <1>5 DEF LinksTo

(* From a scope of one thread on, a result passes the scopes that ask for  *)
(* no fatal failure down to one that takes it, or to the global reporter.  *)
PassedBy(t, i, y) ==
  LET places == OpenUpTo(frames[t], Len(frames[t]), OfThread)
      takers == OpenUpTo(frames[t], Len(frames[t]), {"one_thread"})
  IN  \/ \E j \in places : j <= i /\ y = <<t, j>> /\ \A k \in takers : k <= i => k <= j
      \/ (\A k \in takers : i < k) /\ y \in {DefaultPerThread, global_reporter}

LEMMA RouteFrom ==
  ASSUME ReportingTypeOK, ChainInv, NEW t \in ReportingThreads
  PROVE  \A i \in OpenUpTo(frames[t], Len(frames[t]), OfThread) :
           \A y : y \in Route[<<t, i>>] <=> PassedBy(t, i, y)
<1> DEFINE n == Len(frames[t])
           P == OpenUpTo(frames[t], n, OfThread)
           O == OpenUpTo(frames[t], n, {"one_thread"})
           T == {i \in 1 .. n : i \in P => \A y : y \in Route[<<t, i>>] <=> PassedBy(t, i, y)}
<1>1. n \in Nat /\ P \subseteq 1 .. n /\ O \subseteq P
  BY DEF ReportingTypeOK, OpenUpTo, OfThread
<1>2. \A i, y : PassedBy(t, i, y) <=>
        \/ \E j \in P : j <= i /\ y = <<t, j>> /\ \A k \in O : k <= i => k <= j
        \/ (\A k \in O : i < k) /\ y \in {DefaultPerThread, global_reporter}
  BY DEF PassedBy
<1>3. ASSUME NEW i \in 1 .. n, \A j \in 1 .. i - 1 : j \in T, i \in P
      PROVE  \A y : y \in Route[<<t, i>>] <=> PassedBy(t, i, y)
  <2> DEFINE s == frames[t][i]
  <2>1. /\ <<t, i>> \in Reporters /\ <<t, i>> # DefaultGlobal /\ <<t, i>> # DefaultPerThread
        /\ ScopeOf(<<t, i>>) = s
    BY <1>1, ReportersAre DEF ScopeOf
  <2>2. s.class \in OfThread
    BY <1>3 DEF OpenUpTo
  <2>3. CASE s.class = "one_thread"
    <3>1. i \in O
      BY <1>3, <2>3 DEF OpenUpTo
    <3>2. Route[<<t, i>>] = {<<t, i>>}
      BY <2>1, <2>3, RouteStep DEF Keeps, Takes
    <3>3. ASSUME NEW y PROVE PassedBy(t, i, y) <=> y = <<t, i>>
      <4> HIDE DEF P, O
      <4>1. \A j \in P : j <= i /\ (\A k \in O : k <= i => k <= j) <=> j = i
        BY <1>1, <3>1
      <4>2. ~ \A k \in O : i < k
        BY <1>1, <3>1
      <4> QED
        BY <1>2, <1>3, <4>1, <4>2
    <3> QED
      BY <3>2, <3>3
  <2>4. CASE s.class = "no_fatal"
    <3>1. i \notin O
      BY <2>4 DEF OpenUpTo
    <3>2. /\ ~ Keeps(<<t, i>>) /\ NextReporter(<<t, i>>) = s.old_reporter
      BY <2>1, <2>4 DEF Keeps, Takes, NextReporter
    <3>3. Route[<<t, i>>] = {<<t, i>>} \cup Route[s.old_reporter]
      BY <2>1, <3>2, RouteStep
    <3>4. Stacked(t, frames[t])
      BY DEF ChainInv, ThreadChain, GlobalChain
    <3> DEFINE Q == OpenUpTo(frames[t], i - 1, OfThread)
    <3>5. LinksTo(s.old_reporter, t, Q, DefaultPerThread)
      BY <2>4, <3>4 DEF Stacked, Linked
    <3>6. Q = {j \in P : j < i}
      BY <1>1 DEF OpenUpTo
    <3>7. CASE Q = {} /\ s.old_reporter = DefaultPerThread
      <4>1. Route[<<t, i>>] = {<<t, i>>, DefaultPerThread, global_reporter}
        BY <3>3, <3>7, GlobalRoute
      <4>2. ASSUME NEW y PROVE PassedBy(t, i, y) <=> y \in {<<t, i>>, DefaultPerThread, global_reporter}
        <5> HIDE DEF P, O, Q
        <5>1. \A j \in P : j <= i => j = i
          BY <1>1, <3>6, <3>7
        <5>2. \A k \in O : i < k
          BY <1>1, <3>1, <5>1
        <5> QED
          BY <1>1, <1>2, <1>3, <5>1, <5>2
      <4> QED
        BY <4>1, <4>2
    <3>8. ASSUME NEW m \in Q, \A k \in Q : k <= m, s.old_reporter = <<t, m>>
          PROVE  \A y : y \in Route[<<t, i>>] <=> PassedBy(t, i, y)
      <4> HIDE DEF P, O, Q
      <4>1. m \in 1 .. i - 1 /\ m \in P
        BY <1>1, <3>6
      <4>2. \A y : y \in Route[<<t, m>>] <=> PassedBy(t, m, y)
        BY <1>3, <4>1
      <4>3. \A j \in P : j <= i <=> j = i \/ j <= m
        BY <1>1, <1>3, <3>6, <3>8, <4>1
      <4>4. \A k \in O : (k <= i <=> k <= m) /\ (i < k <=> m < k)
        <5> SUFFICES ASSUME NEW k \in O
                     PROVE  (k <= i <=> k <= m) /\ (i < k <=> m < k)
          OBVIOUS
        <5>1. k \in P /\ k # i /\ k \in Int /\ i \in Int /\ m \in Int
          BY <1>1, <3>1, <4>1
        <5>2. k <= i <=> k <= m
          BY <4>3, <5>1
        <5> QED
          BY <5>1, <5>2
      <4>5. ASSUME NEW y PROVE PassedBy(t, i, y) <=> y = <<t, i>> \/ PassedBy(t, m, y)
        <5>1. \A k \in O : k <= i => k <= i
          OBVIOUS
        <5>2. i <= i
          OBVIOUS
        <5>3. (\E j \in P : j <= i /\ y = <<t, j>> /\ \A k \in O : k <= i => k <= j) <=>
                \/ y = <<t, i>>
                \/ \E j \in P : j <= m /\ y = <<t, j>> /\ \A k \in O : k <= m => k <= j
          BY <1>3, <4>3, <4>4, <5>2
        <5>4. (\A k \in O : i < k) <=> (\A k \in O : m < k)
          BY <4>4
        <5> QED
          BY <1>2, <5>3, <5>4
      <4> QED
        BY <3>3, <3>8, <4>2, <4>5
    <3> HIDE DEF Q
    <3> QED
      BY <3>5, <3>7, <3>8 DEF LinksTo
  <2> QED
    BY <2>2, <2>3, <2>4 DEF OfThread
<1>4. \A i \in 1 .. n : (\A j \in 1 .. i - 1 : j \in T) => i \in T
  BY <1>3
<1> HIDE DEF T
<1>5. \A i \in 1 .. n : i \in T
  BY <1>1, <1>4, StrongInduction
<1> QED
  BY <1>1, <1>5 DEF T

(* The route of a thread's results.                                        *)
LEMMA RouteOfThread ==
  ASSUME ReportingTypeOK, ChainInv, NEW t \in ReportingThreads, NEW y
  PROVE  LET places == OpenUpTo(frames[t], Len(frames[t]), OfThread)
             takers == OpenUpTo(frames[t], Len(frames[t]), {"one_thread"})
         IN  y \in Route[thread_reporter[t]] <=>
               \/ \E j \in places : y = <<t, j>> /\ \A k \in takers : k <= j
               \/ takers = {} /\ y \in {DefaultPerThread, global_reporter}
<1> DEFINE n == Len(frames[t])
           P == OpenUpTo(frames[t], n, OfThread)
           O == OpenUpTo(frames[t], n, {"one_thread"})
<1>0. SUFFICES y \in Route[thread_reporter[t]] <=>
                 \/ \E j \in P : y = <<t, j>> /\ \A k \in O : k <= j
                 \/ O = {} /\ y \in {DefaultPerThread, global_reporter}
  OBVIOUS
<1>1. n \in Nat /\ P \subseteq 1 .. n /\ O \subseteq P
  BY DEF ReportingTypeOK, OpenUpTo, OfThread
<1>2. LinksTo(thread_reporter[t], t, P, DefaultPerThread)
  BY DEF ChainInv, ThreadChain, GlobalChain
<1>3. CASE P = {} /\ thread_reporter[t] = DefaultPerThread
  <2>1. O = {}
    BY <1>1, <1>3
  <2> HIDE DEF P, O
  <2> QED
    BY <1>3, <2>1, GlobalRoute
<1>4. ASSUME NEW m \in P, \A k \in P : k <= m, thread_reporter[t] = <<t, m>>
      PROVE  y \in Route[thread_reporter[t]] <=>
               \/ \E j \in P : y = <<t, j>> /\ \A k \in O : k <= j
               \/ O = {} /\ y \in {DefaultPerThread, global_reporter}
  <2>1. y \in Route[<<t, m>>] <=> PassedBy(t, m, y)
    BY RouteFrom
  <2>2. PassedBy(t, m, y) <=>
          \/ \E j \in P : j <= m /\ y = <<t, j>> /\ \A k \in O : k <= m => k <= j
          \/ (\A k \in O : m < k) /\ y \in {DefaultPerThread, global_reporter}
    BY DEF PassedBy
  <2> HIDE DEF P, O
  <2>3. \A k \in O : k <= m /\ ~ (m < k)
    BY <1>1, <1>4
  <2> QED
    BY <1>4, <2>1, <2>2, <2>3
<1> HIDE DEF P, O
<1> QED
  BY <1>2, <1>3, <1>4 DEF LinksTo

-----------------------------------------------------------------------------
(* Who ought to take a result.                                             *)
LEMMA InnermostIs ==
  ASSUME ReportingTypeOK, NEW t \in ReportingThreads, NEW class
  PROVE  LET of == OpenUpTo(frames[t], Len(frames[t]), {class})
         IN  /\ of = {} => Innermost(t, class) = 0
             /\ of # {} => Innermost(t, class) \in of /\ \A j \in of : j <= Innermost(t, class)
<1> DEFINE n == Len(frames[t])
           of == OpenUpTo(frames[t], n, {class})
<1>1. n \in Nat /\ DOMAIN frames[t] = 1 .. n
  BY DEF ReportingTypeOK
<1> DEFINE those == {i \in DOMAIN frames[t] : frames[t][i].class = class /\ frames[t][i].open}
<1>2. of = those
  BY <1>1 DEF OpenUpTo
<1>3. Innermost(t, class) = IF those = {} THEN 0
                            ELSE CHOOSE i \in those : \A j \in those : j <= i
  BY DEF Innermost
<1>4. of \in SUBSET (1 .. n)
  BY DEF OpenUpTo
<1> SUFFICES /\ of = {} => Innermost(t, class) = 0
             /\ of # {} => Innermost(t, class) \in of /\ \A j \in of : j <= Innermost(t, class)
  OBVIOUS
<1> HIDE DEF of, those
<1>5. of # {} => \E m \in of : \A k \in of : k <= m
  BY <1>1, <1>4, GreatestInInterval
<1> QED
  BY <1>2, <1>3, <1>5

LEMMA TakerIs ==
  ASSUME ReportingTypeOK, ChainInv, NEW t \in ReportingThreads
  PROVE  LET takers == OpenUpTo(frames[t], Len(frames[t]), {"one_thread"})
         IN  \/ takers = {} /\ Taker(t) = global_reporter /\ Innermost(t, "one_thread") = 0
             \/ /\ Innermost(t, "one_thread") \in takers
                /\ \A k \in takers : k <= Innermost(t, "one_thread")
                /\ Taker(t) = <<t, Innermost(t, "one_thread")>>
<1> DEFINE O == OpenUpTo(frames[t], Len(frames[t]), {"one_thread"})
           A == OpenUpTo(frames[1], Len(frames[1]), {"all_threads"})
<1> SUFFICES \/ O = {} /\ Taker(t) = global_reporter /\ Innermost(t, "one_thread") = 0
             \/ /\ Innermost(t, "one_thread") \in O
                /\ \A k \in O : k <= Innermost(t, "one_thread")
                /\ Taker(t) = <<t, Innermost(t, "one_thread")>>
  OBVIOUS
<1>1. /\ O = {} => Innermost(t, "one_thread") = 0
      /\ O # {} => Innermost(t, "one_thread") \in O /\ \A j \in O : j <= Innermost(t, "one_thread")
  BY InnermostIs
<1>2. /\ A = {} => Innermost(1, "all_threads") = 0
      /\ A # {} => Innermost(1, "all_threads") \in A /\ \A j \in A : j <= Innermost(1, "all_threads")
  BY InnermostIs, ThreadsAreNumbered
<1>3. LinksTo(global_reporter, 1, A, DefaultGlobal)
  BY DEF ChainInv, ThreadChain, GlobalChain, OfAll
<1>4. A \subseteq 1 .. Len(frames[1]) /\ O \subseteq 1 .. Len(frames[t])
      /\ Len(frames[1]) \in Nat /\ Len(frames[t]) \in Nat
  BY ThreadsAreNumbered DEF OpenUpTo, ReportingTypeOK
<1> HIDE DEF O, A
<1>5. CASE O # {}
  <2>1. Innermost(t, "one_thread") # 0
    BY <1>1, <1>4, <1>5
  <2> QED
    BY <1>1, <1>5, <2>1 DEF Taker
<1>6. CASE O = {}
  <2>1. Taker(t) = IF Innermost(1, "all_threads") # 0 THEN <<1, Innermost(1, "all_threads")>>
                   ELSE DefaultGlobal
    BY <1>1, <1>6 DEF Taker
  <2>2. CASE A = {}
    BY <1>2, <1>3, <2>1, <2>2, <1>6, <1>1 DEF LinksTo
  <2>3. CASE A # {}
    <3>1. PICK m \in A : (\A k \in A : k <= m) /\ global_reporter = <<1, m>>
      BY <1>3, <2>3 DEF LinksTo
    <3> DEFINE J == Innermost(1, "all_threads")
    <3>2. J = m /\ m # 0
      <4>1. J \in A /\ (\A j \in A : j <= J) /\ m \in A /\ \A k \in A : k <= m
        BY <1>2, <2>3, <3>1
      <4> HIDE DEF J
      <4>2. J <= m /\ m <= J
        BY <4>1
      <4>3. \A j \in A : j \in Int /\ j # 0
        BY <1>4
      <4>4. J \in Int /\ m \in Int /\ m # 0
        BY <4>1, <4>3
      <4> QED
        BY <4>2, <4>4
    <3> QED
      BY <1>1, <1>6, <2>1, <3>1, <3>2
  <2> QED
    BY <2>2, <2>3
<1> QED
  BY <1>5, <1>6

(* The route ends where the result ought to go, and passes the scopes that *)
(* ought to know of it.                                                    *)
LEMMA RouteIsRight ==
  ASSUME ReportingTypeOK, ChainInv, NEW t \in ReportingThreads
  PROVE  /\ DefaultGlobal \in Route[thread_reporter[t]] <=> Taker(t) = DefaultGlobal
         /\ \A u \in ReportingThreads : \A i \in 1 .. Len(frames[u]) :
              /\ Takes(frames[u][i]) =>
                   (<<u, i>> \in Route[thread_reporter[t]] <=> Taker(t) = <<u, i>>)
              /\ frames[u][i].class = "no_fatal" =>
                   /\ Taker(t) # <<u, i>>
                   /\ <<u, i>> \in Route[thread_reporter[t]] <=>
                        frames[u][i].open /\ u = t /\ i > Innermost(t, "one_thread")
              /\ frames[u][i].class = "trace" => Taker(t) # <<u, i>>
<1> DEFINE n == Len(frames[t])
           P == OpenUpTo(frames[t], n, OfThread)
           O == OpenUpTo(frames[t], n, {"one_thread"})
           R == Route[thread_reporter[t]]
           I == Innermost(t, "one_thread")
<1>1. \A y : y \in R <=>
        \/ \E j \in P : y = <<t, j>> /\ \A k \in O : k <= j
        \/ O = {} /\ y \in {DefaultPerThread, global_reporter}
  BY RouteOfThread
<1>2. \/ O = {} /\ Taker(t) = global_reporter /\ I = 0
      \/ I \in O /\ (\A k \in O : k <= I) /\ Taker(t) = <<t, I>>
  BY TakerIs
<1>3. n \in Nat /\ P \subseteq 1 .. n /\ O \subseteq P
  BY DEF ReportingTypeOK, OpenUpTo, OfThread
<1>4. \A i \in 1 .. n : /\ i \in P <=> frames[t][i].class \in OfThread /\ frames[t][i].open
                        /\ i \in O <=> frames[t][i].class = "one_thread" /\ frames[t][i].open
  BY DEF OpenUpTo
<1>5. /\ \A u \in ReportingThreads : \A i \in 1 .. Len(frames[u]) :
           <<u, i>> = global_reporter => frames[u][i].class = "all_threads" /\ frames[u][i].open
      /\ global_reporter # DefaultPerThread
  BY GlobalRoute
<1>6. \A u \in ReportingThreads : \A i \in Nat :
        <<u, i>> # DefaultGlobal /\ <<u, i>> # DefaultPerThread
  BY ReportersAre
<1>7. DefaultGlobal # DefaultPerThread
  BY DEF DefaultGlobal, DefaultPerThread
<1> HIDE DEF P, O, R, I
<1>8. DefaultGlobal \in R <=> Taker(t) = DefaultGlobal
  <2>1. \A j \in P : <<t, j>> # DefaultGlobal
    BY <1>3, <1>6
  <2> QED
    BY <1>1, <1>2, <1>3, <1>7, <2>1
<1>9. ASSUME NEW u \in ReportingThreads, NEW i \in 1 .. Len(frames[u])
      PROVE  /\ Takes(frames[u][i]) => (<<u, i>> \in R <=> Taker(t) = <<u, i>>)
             /\ frames[u][i].class = "no_fatal" =>
                  /\ Taker(t) # <<u, i>>
                  /\ <<u, i>> \in R <=> frames[u][i].open /\ u = t /\ i > I
             /\ frames[u][i].class = "trace" => Taker(t) # <<u, i>>
  <2>0. i \in Nat
    BY DEF ReportingTypeOK
  <2>1. <<u, i>> \in R <=> \/ u = t /\ i \in P /\ \A k \in O : k <= i
                           \/ O = {} /\ <<u, i>> = global_reporter
    <3>1. <<u, i>> # DefaultPerThread
      BY <1>6, <2>0
    <3> QED
      BY <1>1, <3>1
  <2>2. Taker(t) = <<u, i>> <=> \/ O = {} /\ <<u, i>> = global_reporter
                                \/ u = t /\ i = I /\ O # {}
    <3>1. CASE O = {} /\ Taker(t) = global_reporter
      BY <3>1
    <3>2. CASE I \in O /\ Taker(t) = <<t, I>>
      BY <3>2
    <3> QED
      BY <1>2, <3>1, <3>2
  <2>2a. O # {} => I \in O /\ \A k \in O : k <= I
    BY <1>2
  <2>2b. \A k \in O : k \in Int
    BY <1>3
  <2>3. CASE frames[u][i].class = "one_thread"
    <3>1. <<u, i>> # global_reporter
      BY <1>5, <2>3
    <3>2. u = t => (i \in P <=> i \in O)
      BY <1>4, <2>3 DEF OfThread
    <3>3. u = t /\ i \in P /\ (\A k \in O : k <= i) <=> u = t /\ i = I /\ O # {}
      <4>1. ASSUME u = t, i \in P, \A k \in O : k <= i
            PROVE  i = I /\ O # {}
        <5>1. i \in O
          BY <3>2, <4>1
        <5>2. I \in O /\ i <= I /\ I <= i
          BY <2>2a, <4>1, <5>1
        <5> QED
          BY <2>2b, <5>1, <5>2
      <4>2. ASSUME u = t, i = I, O # {}
            PROVE  i \in P /\ \A k \in O : k <= i
        BY <2>2a, <3>2, <4>2
      <4> QED
        BY <4>1, <4>2
    <3> QED
      BY <2>1, <2>2, <2>3, <3>1, <3>3
  <2>4. CASE frames[u][i].class = "all_threads"
    <3>1. u = t => i \notin P /\ i \notin O
      BY <1>4, <2>4 DEF OfThread
    <3>2. ~ (u = t /\ i = I /\ O # {})
      BY <1>2, <3>1
    <3> QED
      BY <2>1, <2>2, <2>4, <3>1, <3>2
  <2>5. CASE frames[u][i].class = "no_fatal"
    <3>1. <<u, i>> # global_reporter
      BY <1>5, <2>5
    <3>2. u = t => (i \in P <=> frames[u][i].open) /\ i \notin O
      BY <1>4, <2>5 DEF OfThread
    <3>3. Taker(t) # <<u, i>>
      BY <1>2, <2>2, <3>1, <3>2
    <3>4. u = t => ((\A k \in O : k <= i) <=> i > I)
      <4>1. CASE O = {}
        <5>1. I = 0 /\ i > 0
          <6>1. I = 0
            BY <1>2, <4>1
          <6>2. i > 0
            BY <2>0
          <6> QED
            BY <6>1, <6>2
        <5> QED
          BY <4>1, <5>1
      <4>2. CASE O # {}
        <5>1. I \in O /\ I \in Int /\ \A k \in O : k <= I /\ k \in Int
          BY <2>2a, <2>2b, <4>2
        <5>2. u = t => i # I
          BY <3>2, <5>1
        <5>3. ASSUME u = t, \A k \in O : k <= i
              PROVE  i > I
          BY <2>0, <5>1, <5>2, <5>3
        <5>4. ASSUME i > I, NEW k \in O
              PROVE  k <= i
          BY <2>0, <5>1, <5>4
        <5> QED
          BY <5>3, <5>4
      <4> QED
        BY <4>1, <4>2
    <3>5. <<u, i>> \in R <=> frames[u][i].open /\ u = t /\ i > I
      BY <2>1, <3>1, <3>2, <3>4
    <3> QED
      BY <2>5, <3>3, <3>5 DEF Takes
  <2>6. CASE frames[u][i].class = "trace"
    <3>1. <<u, i>> # global_reporter
      BY <1>5, <2>6
    <3>2. u = t => i \notin O
      BY <1>4, <2>6
    <3> QED
      BY <1>2, <2>2, <2>6, <3>1, <3>2 DEF Takes
  <2>7. frames[u][i].class \in {"one_thread", "all_threads", "no_fatal", "trace"}
    <3>1. frames[u] \in Seq(Scope)
      BY DEF ReportingTypeOK
    <3>2. frames[u][i] \in Scope
      BY <3>1
    <3> QED
      BY <3>2 DEF Scope
  <2> QED
    BY <2>3, <2>4, <2>5, <2>6, <2>7
<1> QED
  BY <1>8, <1>9 DEF R, I

-----------------------------------------------------------------------------
(* What a result does to the scopes.                                       *)
Settled(s) ==
  IF s.class = "no_fatal" THEN s.has_new_fatal_failure <=> s.due # << >> ELSE s.results = s.due

Alike(a, b) ==
  /\ Len(a) = Len(b)
  /\ \A i \in 1 .. Len(a) :
       /\ a[i].class = b[i].class /\ a[i].line = b[i].line /\ a[i].open = b[i].open
       /\ a[i].old_reporter = b[i].old_reporter

ResultTypes == {"success", "nonfatal", "fatal"}
Messages == {"the_text", "another"}

LEMMA OpenTracesType ==
  ASSUME NEW scopes \in Seq(Scope)
  PROVE  OpenTraces(scopes) \in Seq(Nat)
<1> DEFINE n == Len(scopes)
<1>1. n \in Nat /\ \A i \in 1 .. n : scopes[i].line \in Nat
  <2>1. n \in Nat /\ \A i \in 1 .. n : scopes[i] \in Scope
    OBVIOUS
  <2> QED
    BY <2>1 DEF Scope
<1>2. PICK f : TracesUpTo(f, scopes, n) /\ OpenTraces(scopes) = f[n]
  BY <1>1, OpenTracesAre
<1> DEFINE T == {i \in 0 .. n : f[i] \in Seq(Nat)}
<1>3. /\ f[0] = << >>
      /\ \A i \in 1 .. n :
              f[i] = IF scopes[i].class = "trace" THEN <<scopes[i].line>> \o f[i - 1]
                     ELSE f[i - 1]
  BY <1>1, <1>2, TracesStep
<1>4. 0 \in T
  <2>1. << >> \in Seq(Nat) /\ 0 \in 0 .. n
    BY <1>1
  <2> QED
    BY <1>3, <2>1
<1>5. ASSUME NEW i \in 0 .. n, i # n, i \in T PROVE i + 1 \in T
  <2>1. i + 1 \in 1 .. n /\ (i + 1) - 1 = i /\ f[i] \in Seq(Nat) /\ i + 1 \in 0 .. n
    BY <1>1, <1>5
  <2>2. <<scopes[i + 1].line>> \in Seq(Nat)
    BY <1>1, <2>1
  <2>3. <<scopes[i + 1].line>> \o f[i] \in Seq(Nat)
    BY <2>1, <2>2, ConcatProperties
  <2>4. f[i + 1] \in Seq(Nat)
    BY <1>3, <2>1, <2>3
  <2> QED
    BY <2>1, <2>4
<1>6. \A i \in 0 .. n : i # n /\ i \in T => i + 1 \in T
  BY <1>5
<1>6a. n \in Nat /\ n \in 0 .. n
  BY <1>1
<1> HIDE DEF T, n
<1>7. \A i \in 0 .. n : i \in T
  BY ONLY <1>4, <1>6, <1>6a, UpwardInduction
<1> QED
  BY <1>2, <1>6a, <1>7 DEF T

LEMMA ResultIsAsked ==
  ASSUME ReportingTypeOK, ChainInv, NEW t \in ReportingThreads, NEW type \in ResultTypes,
         NEW message \in Messages
  PROVE  /\ Result(t, type, message) = Asked(t, type, message)
         /\ Asked(t, type, message) \in ResultRecord
<1>1. Reverse(gtest_trace_stack[t]) = OpenTraces(frames[t])
  BY DEF ChainInv, ThreadChain, GlobalChain
<1>2. OpenTraces(frames[t]) \in Seq(Nat)
  BY OpenTracesType DEF ReportingTypeOK
<1> QED
  BY <1>1, <1>2 DEF Result, Asked, ResultRecord, ResultTypes, Messages

LEMMA ReportedScopes ==
  ASSUME ReportingTypeOK, ChainInv, NEW t \in ReportingThreads, NEW type \in ResultTypes,
         NEW message \in Messages, NEW u \in ReportingThreads,
         \A i \in 1 .. Len(frames[u]) : Settled(frames[u][i])
  PROVE  LET after == Reported(t, type, message)[u]
         IN  /\ after \in Seq(Scope) /\ Alike(after, frames[u])
             /\ \A i \in 1 .. Len(after) : Settled(after[i])
<1> DEFINE R == Route[thread_reporter[t]]
           r == Asked(t, type, message)
           n == Len(frames[u])
           Ought(i) == \/ Taker(t) = <<u, i>>
                       \/ /\ frames[u][i].class = "no_fatal" /\ frames[u][i].open
                          /\ type = "fatal" /\ u = t /\ i > Innermost(t, "one_thread")
           Receive(i) == [frames[u][i] EXCEPT
               !.results = IF <<u, i>> \in R /\ Takes(frames[u][i])
                           THEN Append(@, r) ELSE @,
               !.has_new_fatal_failure = @ \/ (<<u, i>> \in R /\ type = "fatal"),
               !.due = IF Ought(i) THEN Append(@, r) ELSE @]
           after == Reported(t, type, message)[u]
<1> SUFFICES /\ after \in Seq(Scope) /\ Alike(after, frames[u])
             /\ \A i \in 1 .. Len(after) : Settled(after[i])
  OBVIOUS
<1>1. n \in Nat /\ DOMAIN frames[u] = 1 .. n /\ \A i \in 1 .. n : frames[u][i] \in Scope
  BY DEF ReportingTypeOK
<1>2. Result(t, type, message) = r /\ r \in ResultRecord
  BY ResultIsAsked
<1>3. after = [i \in 1 .. n |-> Receive(i)]
  BY <1>1, <1>2 DEF Reported
<1>4. ASSUME NEW i \in 1 .. n
      PROVE  /\ Receive(i) \in Scope /\ Settled(Receive(i))
             /\ Receive(i).class = frames[u][i].class /\ Receive(i).line = frames[u][i].line
             /\ Receive(i).open = frames[u][i].open
             /\ Receive(i).old_reporter = frames[u][i].old_reporter
  <2> DEFINE s == frames[u][i]
             passed == <<u, i>> \in R
             fatal == type = "fatal"
             ought == Ought(i)
             c == Receive(i)
  <2>1. s \in Scope /\ passed \in BOOLEAN /\ fatal \in BOOLEAN /\ ought \in BOOLEAN /\ Settled(s)
    BY <1>1
  <2>2. /\ Takes(s) => (passed <=> Taker(t) = <<u, i>>)
        /\ s.class = "no_fatal" =>
             /\ Taker(t) # <<u, i>>
             /\ passed <=> s.open /\ u = t /\ i > Innermost(t, "one_thread")
        /\ s.class = "trace" => Taker(t) # <<u, i>>
    BY RouteIsRight
  <2>3. /\ Takes(s) => (passed <=> ought)
        /\ s.class = "no_fatal" => (passed /\ fatal <=> ought)
        /\ s.class = "trace" => ~ ought
    BY <2>2 DEF Takes
  <2> DEFINE held == IF passed /\ Takes(s) THEN Append(s.results, r) ELSE s.results
             knows == s.has_new_fatal_failure \/ (passed /\ fatal)
             dues == IF ought THEN Append(s.due, r) ELSE s.due
  <2>4. c = [s EXCEPT !.results = held, !.has_new_fatal_failure = knows, !.due = dues]
    OBVIOUS
  <2>5. /\ held = IF passed /\ Takes(s) THEN Append(s.results, r) ELSE s.results
        /\ knows <=> s.has_new_fatal_failure \/ (passed /\ fatal)
        /\ dues = IF ought THEN Append(s.due, r) ELSE s.due
    OBVIOUS
  <2> HIDE DEF passed, fatal, ought, s, r, c
  <2>6. held \in Seq(ResultRecord) /\ dues \in Seq(ResultRecord) /\ knows \in BOOLEAN
    BY <1>2, <2>1 DEF Scope
  <2> HIDE DEF held, knows, dues
  <2>7. c \in Scope
    BY ONLY <2>1, <2>4, <2>6 DEF Scope
  <2>8. /\ c.class = s.class /\ c.line = s.line /\ c.open = s.open
        /\ c.old_reporter = s.old_reporter
        /\ c.results = held /\ c.has_new_fatal_failure = knows /\ c.due = dues
    BY ONLY <2>1, <2>4, <2>6 DEF Scope
  <2>9. Settled(c)
    <3>1. CASE s.class = "no_fatal"
      <4>1. Append(s.due, r) # << >>
        BY <1>2, <2>1 DEF Scope
      <4>2. dues # << >> <=> s.due # << >> \/ ought
        BY <2>5, <4>1
      <4>3. s.has_new_fatal_failure <=> s.due # << >>
        BY <2>1, <3>1 DEF Settled
      <4>4. knows <=> dues # << >>
        BY <2>3, <2>5, <3>1, <4>2, <4>3
      <4> QED
        BY <2>8, <3>1, <4>4 DEF Settled
    <3>2. CASE s.class = "trace"
      <4>1. ~ Takes(s) /\ ~ ought
        BY <2>3, <3>2 DEF Takes
      <4>2. s.results = s.due
        BY <2>1, <3>2 DEF Settled
      <4>3. held = dues
        BY <2>5, <4>1, <4>2
      <4> QED
        BY <2>8, <3>2, <4>3 DEF Settled
    <3>3. CASE s.class \in {"one_thread", "all_threads"}
      <4>1. Takes(s) /\ (passed <=> ought)
        BY <2>3, <3>3 DEF Takes
      <4>2. s.results = s.due
        BY <2>1, <3>3 DEF Settled
      <4>3. held = dues
        BY <2>5, <4>1, <4>2
      <4> QED
        BY <2>8, <3>3, <4>3 DEF Settled
    <3>4. s.class \in {"one_thread", "all_threads", "no_fatal", "trace"}
      BY <2>1 DEF Scope
    <3> QED
      BY <3>1, <3>2, <3>3, <3>4
  <2> QED
    BY <2>7, <2>8, <2>9 DEF s, c
<1> HIDE DEF Receive
<1>5. after \in [1 .. n -> Scope]
  BY <1>3, <1>4
<1>6. after \in Seq(Scope) /\ Len(after) = n
  BY <1>1, <1>5
<1>7. \A i \in 1 .. n : after[i] = Receive(i)
  BY <1>3
<1> HIDE DEF after
<1> QED
  BY <1>4, <1>6, <1>7 DEF Alike
-----------------------------------------------------------------------------
(* Stacks that change.                                                     *)
Sound(scopes) == scopes \in Seq(Scope) /\ \A i \in 1 .. Len(scopes) : Settled(scopes[i])

LEMMA SameOpen ==
  ASSUME NEW a, NEW b, NEW n \in Int, NEW classes,
         \A i \in 1 .. n : a[i].class = b[i].class /\ a[i].open = b[i].open
  PROVE  OpenUpTo(a, n, classes) = OpenUpTo(b, n, classes)
BY DEF OpenUpTo

LEMMA MoreOpen ==
  ASSUME NEW s, NEW n \in Nat, NEW classes, s[n + 1].class \in classes, s[n + 1].open
  PROVE  OpenUpTo(s, n + 1, classes) = OpenUpTo(s, n, classes) \cup {n + 1}
<1>1. \A i : i \in 1 .. (n + 1) <=> i \in 1 .. n \/ i = n + 1
  OBVIOUS
<1> QED
  BY <1>1 DEF OpenUpTo

LEMMA NoMoreOpen ==
  ASSUME NEW s, NEW n \in Nat, NEW classes, s[n + 1].class \notin classes \/ ~ s[n + 1].open
  PROVE  OpenUpTo(s, n + 1, classes) = OpenUpTo(s, n, classes)
<1>1. \A i : i \in 1 .. (n + 1) <=> i \in 1 .. n \/ i = n + 1
  OBVIOUS
<1> QED
  BY <1>1 DEF OpenUpTo

LEMMA LinkedAlike ==
  ASSUME NEW t, NEW a, NEW b, NEW i \in Int, a[i].class = b[i].class,
         a[i].old_reporter = b[i].old_reporter,
         \A j \in 1 .. i - 1 : a[j].class = b[j].class /\ a[j].open = b[j].open,
         Linked(t, a, i)
  PROVE  Linked(t, b, i)
<1>1. i - 1 \in Int
  OBVIOUS
<1>2. /\ OpenUpTo(a, i - 1, OfThread) = OpenUpTo(b, i - 1, OfThread)
      /\ OpenUpTo(a, i - 1, OfAll) = OpenUpTo(b, i - 1, OfAll)
  BY <1>1, SameOpen
<1> QED
  BY <1>2 DEF Linked

LEMMA AlikeChains ==
  ASSUME NEW t, NEW a, NEW b, Len(a) \in Nat, Alike(a, b)
  PROVE  /\ \A reporter, traces :
              ThreadChain(t, b, reporter, traces) => ThreadChain(t, a, reporter, traces)
         /\ \A reporter : GlobalChain(b, reporter) => GlobalChain(a, reporter)
<1> DEFINE n == Len(a)
<1>1. n \in Nat /\ n \in Int /\ Len(b) = n
      /\ \A i \in 1 .. n : /\ a[i].class = b[i].class /\ a[i].line = b[i].line
                           /\ a[i].open = b[i].open /\ a[i].old_reporter = b[i].old_reporter
  BY DEF Alike
<1>2. /\ OpenUpTo(a, n, OfThread) = OpenUpTo(b, n, OfThread)
      /\ OpenUpTo(a, n, OfAll) = OpenUpTo(b, n, OfAll)
  BY <1>1, SameOpen
<1>3. OpenTraces(a) = OpenTraces(b)
  BY <1>1, SameTraces
<1>4. ASSUME Stacked(t, b) PROVE Stacked(t, a)
  <2>1. ASSUME NEW i \in 1 .. n PROVE Linked(t, a, i)
    <3>1. Linked(t, b, i)
      BY <1>1, <1>4 DEF Stacked
    <3>2. \A j \in 1 .. i - 1 : b[j].class = a[j].class /\ b[j].open = a[j].open
      BY <1>1
    <3>3. b[i].class = a[i].class /\ b[i].old_reporter = a[i].old_reporter /\ i \in Int
      BY <1>1
    <3> QED
      BY ONLY <3>1, <3>2, <3>3, LinkedAlike
  <2> QED
    BY <1>1, <1>4, <2>1 DEF Stacked
<1> QED
  BY <1>1, <1>2, <1>3, <1>4 DEF ThreadChain, GlobalChain

(* The top of a stack. *)
LEMMA TopIs ==
  ASSUME NEW s \in Seq(Scope), s # << >>
  PROVE  \E n \in Nat :
           /\ Len(s) = n + 1 /\ Last(s) = s[n + 1] /\ s[n + 1] \in Scope
           /\ Front(s) \in Seq(Scope) /\ Len(Front(s)) = n
           /\ \A i \in 1 .. n : Front(s)[i] = s[i]
<1> DEFINE n == Len(s) - 1
<1>1. n \in Nat /\ Len(s) = n + 1
  OBVIOUS
<1>2. Last(s) = s[n + 1] /\ s[n + 1] \in Scope
  BY <1>1 DEF Last
<1>3. Front(s) = SubSeq(s, 1, n)
  BY DEF Front
<1>4. SubSeq(s, 1, n) \in Seq(Scope) /\ Len(SubSeq(s, 1, n)) = n
      /\ \A i \in 1 .. n : SubSeq(s, 1, n)[i] = s[i]
  BY <1>1, SubSeqProperties
<1> QED
  BY <1>1, <1>2, <1>3, <1>4

LEMMA SoundFront ==
  ASSUME NEW s, Sound(s), s # << >>
  PROVE  Sound(Front(s)) /\ Front(s) \in Seq(Scope)
<1>1. s \in Seq(Scope) /\ \A i \in 1 .. Len(s) : Settled(s[i])
  BY DEF Sound
<1>2. PICK n \in Nat :
        /\ Len(s) = n + 1 /\ Last(s) = s[n + 1] /\ s[n + 1] \in Scope
        /\ Front(s) \in Seq(Scope) /\ Len(Front(s)) = n
        /\ \A i \in 1 .. n : Front(s)[i] = s[i]
  BY <1>1, TopIs
<1> QED
  BY <1>1, <1>2 DEF Sound

LEMMA ReverseAppend ==
  ASSUME NEW s \in Seq(Nat), NEW x \in Nat
  PROVE  Reverse(Append(s, x)) = <<x>> \o Reverse(s)
<1> DEFINE n == Len(s)
           a == Reverse(Append(s, x))
           b == <<x>> \o Reverse(s)
<1>1. n \in Nat /\ Len(Append(s, x)) = n + 1
  OBVIOUS
<1>2. Reverse(s) \in Seq(Nat) /\ Len(Reverse(s)) = n
      /\ \A i \in 1 .. n : Reverse(s)[i] = s[(n - i) + 1]
  BY <1>1 DEF Reverse
<1>3. a = [i \in 1 .. (n + 1) |-> Append(s, x)[((n + 1) - i) + 1]]
  BY <1>1 DEF Reverse
<1>4. <<x>> \in Seq(Nat) /\ Len(<<x>>) = 1 /\ <<x>>[1] = x
  OBVIOUS
<1>5. b \in Seq(Nat) /\ Len(b) = n + 1
      /\ \A i \in 1 .. (n + 1) : b[i] = IF i <= 1 THEN <<x>>[i] ELSE Reverse(s)[i - 1]
  BY <1>1, <1>2, <1>4, ConcatProperties
<1>6. ASSUME NEW i \in 1 .. (n + 1) PROVE a[i] = b[i]
  <2>1. a[i] = Append(s, x)[((n + 1) - i) + 1]
    BY <1>3
  <2>2. CASE i = 1
    <3>1. ((n + 1) - i) + 1 = n + 1 /\ Append(s, x)[n + 1] = x
      BY <1>1, <2>2
    <3> QED
      BY <1>4, <1>5, <2>1, <2>2, <3>1
  <2>3. CASE i # 1
    <3>1. i - 1 \in 1 .. n /\ ((n + 1) - i) + 1 \in 1 .. n
      BY <1>1, <2>3
    <3>2. Append(s, x)[((n + 1) - i) + 1] = s[((n + 1) - i) + 1]
      BY <3>1
    <3>3. Reverse(s)[i - 1] = s[(n - (i - 1)) + 1]
      BY <1>2, <3>1
    <3>4. (n - (i - 1)) + 1 = ((n + 1) - i) + 1
      BY <1>1
    <3>5. b[i] = Reverse(s)[i - 1]
      BY <1>1, <1>5, <2>3
    <3> QED
      BY <2>1, <3>2, <3>3, <3>4, <3>5
  <2> QED
    BY <2>2, <2>3
<1>7. b = [i \in 1 .. (n + 1) |-> b[i]]
  BY <1>1, <1>5
<1>8. a = [i \in 1 .. (n + 1) |-> a[i]]
  BY <1>3
<1> HIDE DEF a, b
<1>9. a = b
  BY <1>6, <1>7, <1>8
<1> QED
  BY <1>9 DEF a, b

LEMMA ReverseFront ==
  ASSUME NEW s \in Seq(Nat), NEW x, NEW r \in Seq(Nat), Reverse(s) = <<x>> \o r
  PROVE  s # << >> /\ Front(s) \in Seq(Nat) /\ Reverse(Front(s)) = r
<1> DEFINE n == Len(s)
<1>1. n \in Nat
  OBVIOUS
<1>2. Reverse(s) = [i \in 1 .. n |-> s[(n - i) + 1]]
  BY DEF Reverse
<1>2a. Reverse(s) \in Seq(Nat) /\ Len(Reverse(s)) = n
  BY <1>1 DEF Reverse
<1>3. Len(<<x>> \o r) = 1 + Len(r) /\ \A i \in 1 .. (1 + Len(r)) :
        (<<x>> \o r)[i] = IF i <= 1 THEN <<x>>[i] ELSE r[i - 1]
  OBVIOUS
<1>4. n = Len(r) + 1 /\ Len(r) \in Nat
  BY <1>2a, <1>3
<1> DEFINE m == Len(r)
<1>5. s # << >>
  BY <1>4
<1>6. Front(s) = SubSeq(s, 1, m)
  BY <1>4 DEF Front
<1>7. SubSeq(s, 1, m) \in Seq(Nat) /\ Len(SubSeq(s, 1, m)) = m
      /\ \A i \in 1 .. m : SubSeq(s, 1, m)[i] = s[i]
  BY <1>4, SubSeqProperties
<1>8. Reverse(Front(s)) = [i \in 1 .. m |-> Front(s)[(m - i) + 1]]
  BY <1>6, <1>7 DEF Reverse
<1>9. ASSUME NEW i \in 1 .. m PROVE Front(s)[(m - i) + 1] = r[i]
  <2>1. (m - i) + 1 \in 1 .. m /\ i + 1 \in 1 .. n /\ ~ (i + 1 <= 1) /\ (i + 1) - 1 = i
        /\ (n - (i + 1)) + 1 = (m - i) + 1
    BY <1>4
  <2>2. Front(s)[(m - i) + 1] = s[(m - i) + 1]
    BY <1>6, <1>7, <2>1
  <2>3. Reverse(s)[i + 1] = s[(m - i) + 1]
    BY <1>2, <2>1
  <2>4. (<<x>> \o r)[i + 1] = r[i]
    BY <1>3, <1>4, <2>1
  <2> QED
    BY <2>2, <2>3, <2>4
<1>10. r = [i \in 1 .. m |-> r[i]]
  BY <1>4
<1> HIDE DEF m, n
<1> QED
  BY <1>5, <1>6, <1>7, <1>8, <1>9, <1>10
(* A closed scope goes. *)
LEMMA PopClosed ==
  ASSUME NEW t, NEW s \in Seq(Scope), s # << >>, ~ Last(s).open, Stacked(t, s)
  PROVE  /\ \A reporter, traces :
              ThreadChain(t, s, reporter, traces) => ThreadChain(t, Front(s), reporter, traces)
         /\ \A reporter : GlobalChain(s, reporter) => GlobalChain(Front(s), reporter)
<1>1. PICK n \in Nat :
        /\ Len(s) = n + 1 /\ Last(s) = s[n + 1] /\ s[n + 1] \in Scope
        /\ Front(s) \in Seq(Scope) /\ Len(Front(s)) = n
        /\ \A i \in 1 .. n : Front(s)[i] = s[i]
  BY TopIs
<1> DEFINE b == Front(s)
<1>2. b \in Seq(Scope) /\ Len(b) = n /\ \A i \in 1 .. n : b[i] = s[i]
  BY <1>1
<1> HIDE DEF b
<1>3. ~ s[n + 1].open /\ s[n + 1].class # "trace"
  BY <1>1 DEF Stacked
<1>4. Stacked(t, b)
  <2>1. ASSUME NEW i \in 1 .. n
        PROVE  /\ i # n => b[i].open
               /\ b[i].class = "trace" => b[i].open
               /\ Linked(t, b, i)
    <3>1. i \in 1 .. Len(s) /\ i # Len(s) /\ i \in Int
      BY <1>1
    <3>2. s[i].open /\ Linked(t, s, i)
      BY <3>1 DEF Stacked
    <3>3. b[i] = s[i] /\ \A j \in 1 .. i - 1 : b[j] = s[j]
      BY <1>2
    <3>4. /\ s[i].class = b[i].class /\ s[i].old_reporter = b[i].old_reporter
          /\ \A j \in 1 .. i - 1 : s[j].class = b[j].class /\ s[j].open = b[j].open
      BY <3>3
    <3>5. Linked(t, b, i)
      BY ONLY <3>1, <3>2, <3>4, LinkedAlike
    <3> QED
      BY <3>2, <3>3, <3>5
  <2> QED
    BY <1>2, <2>1 DEF Stacked
<1>5. ASSUME NEW classes
      PROVE  OpenUpTo(s, Len(s), classes) = OpenUpTo(b, Len(b), classes)
  <2>1. OpenUpTo(s, n + 1, classes) = OpenUpTo(s, n, classes)
    BY ONLY n \in Nat, <1>3, NoMoreOpen
  <2>2. \A i \in 1 .. n : s[i].class = b[i].class /\ s[i].open = b[i].open
    BY <1>2
  <2>3. OpenUpTo(s, n, classes) = OpenUpTo(b, n, classes)
    BY ONLY n \in Nat, n \in Int, <2>2, SameOpen
  <2> QED
    BY <1>1, <1>2, <2>1, <2>3
<1>6. OpenTraces(s) = OpenTraces(b)
  <2>1. \A i \in 1 .. n : s[i].class = b[i].class /\ s[i].line = b[i].line
    BY <1>2
  <2>2. Len(s) = n + 1 /\ Len(b) = n
    BY <1>1, <1>2
  <2> QED
    BY <1>3, <2>1, <2>2, NewestTrace
<1> QED
  BY <1>4, <1>5, <1>6 DEF b, ThreadChain, GlobalChain

(* An open scope is closed: what it replaced is back.                      *)
Closed(t, s) ==
  LET c == Append(Front(s), [Last(s) EXCEPT !.open = FALSE])
      old == Last(s).old_reporter
  IN  /\ c \in Seq(Scope) /\ c # << >> /\ ~ Last(c).open /\ Front(c) = Front(s)
      /\ Last(s).class \in OfThread =>
           /\ \A reporter, traces : ThreadChain(t, s, reporter, traces) =>
                ThreadChain(t, c, old, traces)
           /\ \A reporter : GlobalChain(s, reporter) => GlobalChain(c, reporter)
      /\ Last(s).class \in OfAll =>
           /\ t = 1
           /\ \A reporter, traces : ThreadChain(t, s, reporter, traces) =>
                ThreadChain(t, c, reporter, traces)
           /\ GlobalChain(c, old)
      /\ (\A i \in 1 .. Len(s) : Settled(s[i])) => \A i \in 1 .. Len(c) : Settled(c[i])

LEMMA CloseTop ==
  ASSUME NEW t, NEW s \in Seq(Scope), s # << >>, Last(s).open, Last(s).class # "trace",
         Stacked(t, s)
  PROVE  Closed(t, s)
<1> DEFINE c == Append(Front(s), [Last(s) EXCEPT !.open = FALSE])
<1>0. c = Append(Front(s), [Last(s) EXCEPT !.open = FALSE])
  OBVIOUS
<1> HIDE DEF c
<1>1. PICK n \in Nat :
        /\ Len(s) = n + 1 /\ Last(s) = s[n + 1] /\ s[n + 1] \in Scope
        /\ Front(s) \in Seq(Scope) /\ Len(Front(s)) = n
        /\ \A i \in 1 .. n : Front(s)[i] = s[i]
  BY TopIs
<1> DEFINE top == [s[n + 1] EXCEPT !.open = FALSE]
<1>2. /\ top \in Scope /\ ~ top.open /\ top.class = s[n + 1].class /\ top.line = s[n + 1].line
      /\ top.old_reporter = s[n + 1].old_reporter /\ top.results = s[n + 1].results
      /\ top.has_new_fatal_failure = s[n + 1].has_new_fatal_failure
      /\ top.due = s[n + 1].due
  BY <1>1 DEF Scope
<1>3. c = Append(Front(s), top)
  BY <1>0, <1>1
<1> HIDE DEF top
<1>4. /\ c \in Seq(Scope) /\ Len(c) = n + 1 /\ c[n + 1] = top
      /\ \A i \in 1 .. n : c[i] = s[i]
  BY <1>1, <1>2, <1>3, AppendProperties
<1>5. c # << >> /\ ~ Last(c).open
  BY <1>2, <1>4 DEF Last
<1>6. Front(c) = Front(s)
  <2>1. Front(Append(Front(s), top)) = Front(s)
    BY <1>1, <1>2 DEF Front
  <2> QED
    BY <1>3, <2>1
<1>7. \A i \in 1 .. (n + 1) : c[i].class = s[i].class /\ c[i].line = s[i].line
        /\ c[i].old_reporter = s[i].old_reporter
  <2>1. \A i \in 1 .. (n + 1) : i = n + 1 \/ i \in 1 .. n
    OBVIOUS
  <2> QED
    BY <1>2, <1>4, <2>1
<1>8. \A i \in 1 .. n : c[i].open = s[i].open
  BY <1>4
<1>9. \A i \in 1 .. (n + 1) : Linked(t, c, i)
  <2>1. ASSUME NEW i \in 1 .. (n + 1) PROVE Linked(t, c, i)
    <3>1. Linked(t, s, i) /\ i \in Int
      BY <1>1 DEF Stacked
    <3>2. /\ s[i].class = c[i].class /\ s[i].old_reporter = c[i].old_reporter
          /\ \A j \in 1 .. i - 1 : s[j].class = c[j].class /\ s[j].open = c[j].open
      <4>1. \A j \in 1 .. i - 1 : j \in 1 .. n
        BY <1>1
      <4>2. \A j \in 1 .. n : j \in 1 .. (n + 1)
        BY <1>1
      <4> QED
        BY <1>7, <1>8, <4>1, <4>2
    <3> QED
      BY ONLY <3>1, <3>2, LinkedAlike
  <2> QED
    BY <2>1
<1>10. Stacked(t, c)
  <2>1. ASSUME NEW i \in 1 .. (n + 1)
        PROVE  (i # n + 1 => c[i].open) /\ (c[i].class = "trace" => c[i].open)
    <3>1. CASE i = n + 1
      BY <1>1, <1>2, <1>4, <3>1
    <3>2. CASE i # n + 1
      <4>1. i # Len(s) /\ i \in 1 .. Len(s) /\ i \in 1 .. n
        BY <1>1, <3>2
      <4>2. s[i].open
        BY <4>1 DEF Stacked
      <4> QED
        BY <1>8, <3>2, <4>1, <4>2
    <3> QED
      BY <3>1, <3>2
  <2> QED
    BY <1>4, <1>9, <2>1 DEF Stacked
<1>11. OpenTraces(c) = OpenTraces(s)
  <2>1. Len(c) \in Nat /\ Len(s) = Len(c)
        /\ \A i \in 1 .. Len(c) : c[i].class = s[i].class /\ c[i].line = s[i].line
    BY <1>1, <1>4, <1>7
  <2> QED
    BY ONLY <2>1, SameTraces
<1>12. ASSUME NEW classes
       PROVE  /\ OpenUpTo(c, Len(c), classes) = OpenUpTo(s, n, classes)
              /\ s[n + 1].class \notin classes =>
                   OpenUpTo(s, Len(s), classes) = OpenUpTo(s, n, classes)
  <2>1. OpenUpTo(c, n + 1, classes) = OpenUpTo(c, n, classes)
    BY ONLY n \in Nat, <1>2, <1>4, NoMoreOpen
  <2>2. \A i \in 1 .. n : c[i].class = s[i].class /\ c[i].open = s[i].open
    BY <1>4
  <2>3. OpenUpTo(c, n, classes) = OpenUpTo(s, n, classes)
    BY ONLY n \in Nat, n \in Int, <2>2, SameOpen
  <2>4. ASSUME s[n + 1].class \notin classes
        PROVE  OpenUpTo(s, n + 1, classes) = OpenUpTo(s, n, classes)
    BY ONLY n \in Nat, <2>4, NoMoreOpen
  <2> QED
    BY <1>1, <1>4, <2>1, <2>3, <2>4
<1>13. Linked(t, s, n + 1) /\ (n + 1) - 1 = n
  BY <1>1 DEF Stacked
<1>14. ASSUME s[n + 1].class \in OfThread
       PROVE  /\ \A reporter, traces : ThreadChain(t, s, reporter, traces) =>
                   ThreadChain(t, c, Last(s).old_reporter, traces)
              /\ \A reporter : GlobalChain(s, reporter) => GlobalChain(c, reporter)
  <2>1. s[n + 1].class # "all_threads" /\ s[n + 1].class \notin OfAll
    BY <1>14 DEF OfThread, OfAll
  <2>2. LinksTo(s[n + 1].old_reporter, t, OpenUpTo(s, n, OfThread), DefaultPerThread)
    BY <1>13, <2>1 DEF Linked
  <2>3. LinksTo(Last(s).old_reporter, t, OpenUpTo(c, Len(c), OfThread), DefaultPerThread)
    BY <1>1, <1>12, <2>2
  <2>4. OpenUpTo(c, Len(c), OfAll) = OpenUpTo(s, Len(s), OfAll)
    BY <1>12, <2>1
  <2> QED
    BY <1>10, <1>11, <2>3, <2>4 DEF ThreadChain, GlobalChain
<1>15. ASSUME s[n + 1].class \in OfAll
       PROVE  /\ t = 1
              /\ \A reporter, traces : ThreadChain(t, s, reporter, traces) =>
                   ThreadChain(t, c, reporter, traces)
              /\ GlobalChain(c, Last(s).old_reporter)
  <2>1. s[n + 1].class = "all_threads" /\ s[n + 1].class \notin OfThread
    BY <1>15 DEF OfThread, OfAll
  <2>2. t = 1 /\ LinksTo(s[n + 1].old_reporter, t, OpenUpTo(s, n, OfAll), DefaultGlobal)
    BY <1>13, <2>1 DEF Linked
  <2>3. LinksTo(Last(s).old_reporter, 1, OpenUpTo(c, Len(c), OfAll), DefaultGlobal)
    BY <1>1, <1>12, <2>2
  <2>4. OpenUpTo(c, Len(c), OfThread) = OpenUpTo(s, Len(s), OfThread)
    BY <1>12, <2>1
  <2> QED
    BY <1>10, <1>11, <2>2, <2>3, <2>4 DEF ThreadChain, GlobalChain
<1>16. ASSUME \A i \in 1 .. Len(s) : Settled(s[i]), NEW i \in 1 .. Len(c)
       PROVE  Settled(c[i])
  <2>1. i \in 1 .. Len(s) /\ (i = n + 1 \/ i \in 1 .. n)
    BY <1>1, <1>4
  <2>2. Settled(s[i])
    BY <1>16, <2>1
  <2> QED
    BY <1>2, <1>4, <2>1, <2>2 DEF Settled
<1> QED
  BY <1>1, <1>4, <1>5, <1>6, <1>14, <1>15, <1>16 DEF Closed, c

(* A trace is popped.                                                      *)
LEMMA PopOfTrace ==
  ASSUME NEW t, NEW s \in Seq(Scope), s # << >>, Last(s).class = "trace", Stacked(t, s)
  PROVE  /\ \A reporter : \A traces \in Seq(Nat) : ThreadChain(t, s, reporter, traces) =>
              Front(traces) \in Seq(Nat) /\ ThreadChain(t, Front(s), reporter, Front(traces))
         /\ \A reporter : GlobalChain(s, reporter) => GlobalChain(Front(s), reporter)
<1>1. PICK n \in Nat :
        /\ Len(s) = n + 1 /\ Last(s) = s[n + 1] /\ s[n + 1] \in Scope
        /\ Front(s) \in Seq(Scope) /\ Len(Front(s)) = n
        /\ \A i \in 1 .. n : Front(s)[i] = s[i]
  BY TopIs
<1> DEFINE b == Front(s)
<1>2. b \in Seq(Scope) /\ Len(b) = n /\ \A i \in 1 .. n : b[i] = s[i]
  BY <1>1
<1> HIDE DEF b
<1>3. s[n + 1].class = "trace"
  BY <1>1
<1>4. Stacked(t, b)
  <2>1. ASSUME NEW i \in 1 .. n
        PROVE  /\ i # n => b[i].open
               /\ b[i].class = "trace" => b[i].open
               /\ Linked(t, b, i)
    <3>1. i \in 1 .. Len(s) /\ i # Len(s) /\ i \in Int
      BY <1>1
    <3>2. s[i].open /\ Linked(t, s, i)
      BY <3>1 DEF Stacked
    <3>3. b[i] = s[i] /\ \A j \in 1 .. i - 1 : b[j] = s[j]
      BY <1>2
    <3>4. /\ s[i].class = b[i].class /\ s[i].old_reporter = b[i].old_reporter
          /\ \A j \in 1 .. i - 1 : s[j].class = b[j].class /\ s[j].open = b[j].open
      BY <3>3
    <3>5. Linked(t, b, i)
      BY ONLY <3>1, <3>2, <3>4, LinkedAlike
    <3> QED
      BY <3>2, <3>3, <3>5
  <2> QED
    BY <1>2, <2>1 DEF Stacked
<1>5. ASSUME NEW classes, "trace" \notin classes
      PROVE  OpenUpTo(s, Len(s), classes) = OpenUpTo(b, Len(b), classes)
  <2>1. OpenUpTo(s, n + 1, classes) = OpenUpTo(s, n, classes)
    BY ONLY n \in Nat, <1>3, <1>5, NoMoreOpen
  <2>2. \A i \in 1 .. n : s[i].class = b[i].class /\ s[i].open = b[i].open
    BY <1>2
  <2>3. OpenUpTo(s, n, classes) = OpenUpTo(b, n, classes)
    BY ONLY n \in Nat, n \in Int, <2>2, SameOpen
  <2> QED
    BY <1>1, <1>2, <2>1, <2>3
<1>5a. "trace" \notin OfThread /\ "trace" \notin OfAll
  BY DEF OfThread, OfAll
<1>6. OpenTraces(s) = <<s[n + 1].line>> \o OpenTraces(b)
  <2>1. \A i \in 1 .. n : s[i].class = b[i].class /\ s[i].line = b[i].line
    BY <1>2
  <2>2. Len(s) = n + 1 /\ Len(b) = n
    BY <1>1, <1>2
  <2> QED
    BY <1>3, <2>1, <2>2, NewestTrace
<1>7. OpenTraces(b) \in Seq(Nat)
  BY <1>2, OpenTracesType
<1>8. ASSUME NEW reporter, NEW traces \in Seq(Nat), ThreadChain(t, s, reporter, traces)
      PROVE  Front(traces) \in Seq(Nat) /\ ThreadChain(t, b, reporter, Front(traces))
  <2>1. Reverse(traces) = <<s[n + 1].line>> \o OpenTraces(b)
    BY <1>6, <1>8 DEF ThreadChain
  <2>2. Front(traces) \in Seq(Nat) /\ Reverse(Front(traces)) = OpenTraces(b)
    BY <1>7, <2>1, ReverseFront
  <2>3. LinksTo(reporter, t, OpenUpTo(b, Len(b), OfThread), DefaultPerThread)
    BY <1>5, <1>5a, <1>8 DEF ThreadChain
  <2> QED
    BY <1>4, <2>2, <2>3 DEF ThreadChain
<1>9. ASSUME NEW reporter, GlobalChain(s, reporter)
      PROVE  GlobalChain(b, reporter)
  BY <1>5, <1>5a, <1>9 DEF GlobalChain
<1> QED
  BY <1>8, <1>9 DEF b

(* A scope is entered.                                                     *)
AllOpen(scopes) == \A i \in 1 .. Len(scopes) : scopes[i].open

Pushed(t, s, new, reporter, traces) ==
  LET c == Append(s, new)
      self == <<t, Len(s) + 1>>
  IN  /\ new.class \in OfThread /\ new.old_reporter = reporter =>
           /\ ThreadChain(t, c, self, traces)
           /\ \A global : GlobalChain(s, global) => GlobalChain(c, global)
      /\ new.class \in OfAll /\ t = 1 /\ GlobalChain(s, new.old_reporter) =>
           /\ ThreadChain(t, c, reporter, traces)
           /\ GlobalChain(c, self)
      /\ new.class = "trace" /\ new.old_reporter = reporter =>
           /\ ThreadChain(t, c, reporter, Append(traces, new.line))
           /\ \A global : GlobalChain(s, global) => GlobalChain(c, global)

LEMMA PushScope ==
  ASSUME NEW t, NEW s \in Seq(Scope), AllOpen(s), NEW new \in Scope, new.open, Stacked(t, s),
         NEW reporter, NEW traces \in Seq(Nat), ThreadChain(t, s, reporter, traces)
  PROVE  Pushed(t, s, new, reporter, traces)
<1> DEFINE c == Append(s, new)
           n == Len(s) + 1
<1> SUFFICES /\ new.class \in OfThread /\ new.old_reporter = reporter =>
                  /\ ThreadChain(t, c, <<t, n>>, traces)
                  /\ \A global : GlobalChain(s, global) => GlobalChain(c, global)
             /\ new.class \in OfAll /\ t = 1 /\ GlobalChain(s, new.old_reporter) =>
                  /\ ThreadChain(t, c, reporter, traces)
                  /\ GlobalChain(c, <<t, n>>)
             /\ new.class = "trace" /\ new.old_reporter = reporter =>
                  /\ ThreadChain(t, c, reporter, Append(traces, new.line))
                  /\ \A global : GlobalChain(s, global) => GlobalChain(c, global)
  BY DEF Pushed
<1> USE DEF AllOpen
<1> DEFINE m == Len(s)
<1>1. m \in Nat /\ n = m + 1
  OBVIOUS
<1>2. c \in Seq(Scope) /\ Len(c) = m + 1 /\ c[m + 1] = new /\ \A i \in 1 .. m : c[i] = s[i]
  BY AppendProperties
<1> HIDE DEF c, n
<1>3. \A i \in 1 .. m : Linked(t, c, i)
  <2>1. ASSUME NEW i \in 1 .. m PROVE Linked(t, c, i)
    <3>1. Linked(t, s, i) /\ i \in Int
      BY DEF Stacked
    <3>2. /\ s[i].class = c[i].class /\ s[i].old_reporter = c[i].old_reporter
          /\ \A j \in 1 .. i - 1 : s[j].class = c[j].class /\ s[j].open = c[j].open
      BY <1>2
    <3> QED
      BY ONLY <3>1, <3>2, LinkedAlike
  <2> QED
    BY <2>1
<1>3a. m = Len(s) /\ m \in Int
  OBVIOUS
<1>3b. n = m + 1 /\ m \in Nat
  BY <1>1
<1> HIDE DEF m
<1>4. ASSUME NEW classes
      PROVE  /\ OpenUpTo(c, m, classes) = OpenUpTo(s, m, classes)
             /\ OpenUpTo(c, Len(c), classes) =
                  IF new.class \in classes THEN OpenUpTo(s, m, classes) \cup {n}
                  ELSE OpenUpTo(s, m, classes)
  <2>1. \A i \in 1 .. m : c[i].class = s[i].class /\ c[i].open = s[i].open
    BY <1>2
  <2>2. OpenUpTo(c, m, classes) = OpenUpTo(s, m, classes)
    BY ONLY <1>3a, <2>1, SameOpen
  <2>3. CASE new.class \in classes
    <3>1. c[m + 1].class \in classes /\ c[m + 1].open
      BY <1>2, <2>3
    <3>2. OpenUpTo(c, m + 1, classes) = OpenUpTo(c, m, classes) \cup {m + 1}
      BY ONLY <1>1, <3>1, MoreOpen
    <3> QED
      BY <1>2, <1>3b, <2>2, <2>3, <3>2
  <2>4. CASE new.class \notin classes
    <3>1. c[m + 1].class \notin classes
      BY <1>2, <2>4
    <3>2. OpenUpTo(c, m + 1, classes) = OpenUpTo(c, m, classes)
      BY ONLY <1>1, <3>1, NoMoreOpen
    <3> QED
      BY <1>2, <2>2, <2>4, <3>2
  <2> QED
    BY <2>3, <2>4
<1>5. ASSUME Linked(t, c, n) PROVE Stacked(t, c)
  <2>1. \A i \in 1 .. (m + 1) : i = m + 1 \/ i \in 1 .. m
    BY <1>1
  <2>2. \A i \in 1 .. (m + 1) : c[i].open /\ Linked(t, c, i)
    BY <1>1, <1>2, <1>3, <1>3a, <1>5, <2>1
  <2> QED
    BY <1>2, <2>2 DEF Stacked
<1>6. ASSUME NEW classes, NEW default
      PROVE  new.class \in classes => LinksTo(<<t, n>>, t, OpenUpTo(c, Len(c), classes), default)
  <2>1. \A k \in OpenUpTo(s, m, classes) : k \in Int /\ k <= n
    BY <1>1 DEF OpenUpTo
  <2>2. n \in Int /\ n <= n
    BY <1>1
  <2> QED
    BY <1>4, <2>1, <2>2 DEF LinksTo
<1>7. OpenTraces(c) = IF new.class = "trace" THEN <<new.line>> \o OpenTraces(s)
                      ELSE OpenTraces(s)
  <2>1. \A i \in 1 .. m : c[i].class = s[i].class /\ c[i].line = s[i].line
    BY <1>2
  <2>2. Len(s) = m /\ Len(c) = m + 1 /\ m \in Nat
    BY <1>1, <1>2, <1>3a
  <2>3. OpenTraces(c) = IF c[m + 1].class = "trace" THEN <<c[m + 1].line>> \o OpenTraces(s)
                        ELSE OpenTraces(s)
    BY ONLY <2>1, <2>2, NewestTrace
  <2> QED
    BY <1>2, <2>3
<1>8. /\ LinksTo(reporter, t, OpenUpTo(s, m, OfThread), DefaultPerThread)
      /\ Reverse(traces) = OpenTraces(s)
  BY <1>3a DEF ThreadChain
<1>9. n - 1 = m
  BY <1>1
<1>10. ASSUME new.class \in OfThread, new.old_reporter = reporter
       PROVE  /\ ThreadChain(t, c, <<t, n>>, traces)
              /\ \A global : GlobalChain(s, global) => GlobalChain(c, global)
  <2>1. new.class # "all_threads" /\ new.class # "trace" /\ new.class \notin OfAll
    BY <1>10 DEF OfThread, OfAll
  <2>2. Linked(t, c, n)
    BY <1>1, <1>2, <1>4, <1>8, <1>9, <1>10, <2>1 DEF Linked
  <2>3. Stacked(t, c)
    BY <1>5, <2>2
  <2>4. LinksTo(<<t, n>>, t, OpenUpTo(c, Len(c), OfThread), DefaultPerThread)
    BY <1>6, <1>10
  <2>5. OpenUpTo(c, Len(c), OfAll) = OpenUpTo(s, Len(s), OfAll)
    BY <1>3a, <1>4, <2>1
  <2> QED
    BY <1>7, <1>8, <2>1, <2>3, <2>4, <2>5 DEF ThreadChain, GlobalChain
<1>11. ASSUME new.class \in OfAll, t = 1, GlobalChain(s, new.old_reporter)
       PROVE  /\ ThreadChain(t, c, reporter, traces)
              /\ GlobalChain(c, <<t, n>>)
  <2>1. new.class = "all_threads" /\ new.class \notin OfThread
    BY <1>11 DEF OfThread, OfAll
  <2>2. LinksTo(new.old_reporter, t, OpenUpTo(c, n - 1, OfAll), DefaultGlobal)
    BY <1>3a, <1>4, <1>9, <1>11 DEF GlobalChain
  <2>3. Linked(t, c, n)
    BY <1>1, <1>2, <1>11, <2>1, <2>2 DEF Linked
  <2>4. Stacked(t, c)
    BY <1>5, <2>3
  <2>5. LinksTo(<<t, n>>, t, OpenUpTo(c, Len(c), OfAll), DefaultGlobal)
    BY <1>6, <1>11
  <2>6. OpenUpTo(c, Len(c), OfThread) = OpenUpTo(s, Len(s), OfThread)
    BY <1>3a, <1>4, <2>1
  <2> QED
    BY <1>7, <1>8, <1>11, <2>1, <2>4, <2>5, <2>6 DEF ThreadChain, GlobalChain
<1>12. ASSUME new.class = "trace", new.old_reporter = reporter
       PROVE  /\ ThreadChain(t, c, reporter, Append(traces, new.line))
              /\ \A global : GlobalChain(s, global) => GlobalChain(c, global)
  <2>1. new.class # "all_threads" /\ new.class \notin OfThread /\ new.class \notin OfAll
    BY <1>12 DEF OfThread, OfAll
  <2>2. Linked(t, c, n)
    <3>1. LinksTo(reporter, t, OpenUpTo(c, n - 1, OfThread), DefaultPerThread)
      BY <1>4, <1>8, <1>9
    <3> QED
      BY <1>1, <1>2, <1>12, <3>1, <2>1 DEF Linked
  <2>3. Stacked(t, c)
    BY <1>5, <2>2
  <2>4. /\ OpenUpTo(c, Len(c), OfThread) = OpenUpTo(s, Len(s), OfThread)
        /\ OpenUpTo(c, Len(c), OfAll) = OpenUpTo(s, Len(s), OfAll)
    BY <1>3a, <1>4, <2>1
  <2>5. new.line \in Nat
    BY DEF Scope
  <2>6. Reverse(Append(traces, new.line)) = <<new.line>> \o Reverse(traces)
    BY <2>5, ReverseAppend
  <2> QED
    BY <1>7, <1>8, <1>12, <2>3, <2>4, <2>6 DEF ThreadChain, GlobalChain
<1> QED
  BY <1>10, <1>11, <1>12
-----------------------------------------------------------------------------
(* The invariant: the reporters are chained as the scopes are nested, and  *)
(* what each scope and the result hold is what they ought to.              *)
ReportingInv ==
  /\ ReportingTypeOK
  /\ ChainInv
  /\ test_part_results = due
  /\ \A t \in ReportingThreads : Sound(frames[t])

LEMMA ReportedKeeps ==
  ASSUME ReportingInv, NEW t \in ReportingThreads, NEW type \in ResultTypes,
         NEW message \in Messages
  PROVE  /\ Reported(t, type, message) \in [ReportingThreads -> Seq(Scope)]
         /\ \A u \in ReportingThreads :
              /\ Sound(Reported(t, type, message)[u])
              /\ Len(Reported(t, type, message)[u]) = Len(frames[u])
              /\ \A i \in 1 .. Len(frames[u]) :
                   Reported(t, type, message)[u][i].open = frames[u][i].open
              /\ ThreadChain(u, Reported(t, type, message)[u], thread_reporter[u],
                             gtest_trace_stack[u])
         /\ GlobalChain(Reported(t, type, message)[1], global_reporter)
<1> DEFINE F == Reported(t, type, message)
<1>1. ReportingTypeOK /\ ChainInv
      /\ \A u \in ReportingThreads : \A i \in 1 .. Len(frames[u]) : Settled(frames[u][i])
  BY DEF ReportingInv, Sound
<1>2. ASSUME NEW u \in ReportingThreads
      PROVE  /\ F[u] \in Seq(Scope) /\ Alike(F[u], frames[u])
             /\ \A i \in 1 .. Len(F[u]) : Settled(F[u][i])
  BY <1>1, ReportedScopes
<1>3. F = [u \in ReportingThreads |-> F[u]]
  BY DEF Reported
<1> HIDE DEF F
<1>4. F \in [ReportingThreads -> Seq(Scope)]
  BY <1>2, <1>3
<1>5. ASSUME NEW u \in ReportingThreads
      PROVE  /\ Sound(F[u]) /\ Len(F[u]) = Len(frames[u])
             /\ \A i \in 1 .. Len(frames[u]) : F[u][i].open = frames[u][i].open
             /\ ThreadChain(u, F[u], thread_reporter[u], gtest_trace_stack[u])
             /\ \A reporter : GlobalChain(frames[u], reporter) => GlobalChain(F[u], reporter)
  <2>1. /\ F[u] \in Seq(Scope) /\ Alike(F[u], frames[u])
        /\ \A i \in 1 .. Len(F[u]) : Settled(F[u][i])
    BY <1>2
  <2> DEFINE a == F[u]
             b == frames[u]
  <2>2. Len(a) \in Nat /\ Alike(a, b)
    BY <2>1
  <2>3. Sound(a)
    BY <2>1 DEF Sound
  <2>4. Len(a) = Len(b) /\ \A i \in 1 .. Len(b) : a[i].open = b[i].open
    BY <2>2 DEF Alike
  <2>5. ThreadChain(u, b, thread_reporter[u], gtest_trace_stack[u])
    BY <1>1 DEF ChainInv
  <2> HIDE DEF a, b
  <2>6. /\ \A reporter, traces :
             ThreadChain(u, b, reporter, traces) => ThreadChain(u, a, reporter, traces)
        /\ \A reporter : GlobalChain(b, reporter) => GlobalChain(a, reporter)
    BY ONLY <2>2, AlikeChains
  <2> QED
    BY <2>3, <2>4, <2>5, <2>6 DEF a, b
<1>6. GlobalChain(F[1], global_reporter)
  BY <1>1, <1>5, ThreadsAreNumbered DEF ChainInv
<1> QED
  BY <1>4, <1>5, <1>6 DEF F

LEMMA ResultsAgree ==
  ASSUME ReportingInv, NEW t \in ReportingThreads, NEW type \in ResultTypes,
         NEW message \in Messages, ReportToResults(t, type, message)
  PROVE  test_part_results' = due' /\ due' \in Seq(ResultRecord)
<1>1. ReportingTypeOK /\ ChainInv /\ test_part_results = due /\ due \in Seq(ResultRecord)
  BY DEF ReportingInv, ReportingTypeOK
<1>2. DefaultGlobal \in Route[thread_reporter[t]] <=> Taker(t) = DefaultGlobal
  BY <1>1, RouteIsRight
<1>3. /\ Result(t, type, message) = Asked(t, type, message)
      /\ Asked(t, type, message) \in ResultRecord
  BY <1>1, ResultIsAsked
<1>4. /\ test_part_results' =
           IF DefaultGlobal \in Route[thread_reporter[t]]
           THEN Append(test_part_results, Result(t, type, message)) ELSE test_part_results
      /\ due' = IF Taker(t) = DefaultGlobal THEN Append(due, Asked(t, type, message)) ELSE due
  BY DEF ReportToResults
<1>5. CASE Taker(t) = DefaultGlobal
  <2>1. due' = Append(due, Asked(t, type, message)) /\ test_part_results' = due'
    BY <1>1, <1>2, <1>3, <1>4, <1>5
  <2> QED
    BY <1>1, <1>3, <2>1
<1>6. CASE Taker(t) # DefaultGlobal
  BY <1>1, <1>2, <1>4, <1>6
<1> QED
  BY <1>5, <1>6

LEMMA AddTestPartResultKeeps ==
  ASSUME ReportingInv, NEW t \in ReportingThreads, NEW type \in ResultTypes,
         NEW message \in Messages, AddTestPartResult(t, type, message),
         UNCHANGED <<xml_element, global_reporter, thread_reporter, gtest_trace_stack>>,
         leaving' \in [ReportingThreads -> Leaving]
  PROVE  ReportingInv'
<1>1. frames' = Reported(t, type, message) /\ ReportToResults(t, type, message)
  BY DEF AddTestPartResult
<1>2. test_part_results' = due' /\ due' \in Seq(ResultRecord)
  BY <1>1, ResultsAgree
<1>3. /\ frames' \in [ReportingThreads -> Seq(Scope)]
      /\ \A u \in ReportingThreads :
           Sound(frames'[u]) /\ ThreadChain(u, frames'[u], thread_reporter[u], gtest_trace_stack[u])
      /\ GlobalChain(frames'[1], global_reporter)
  BY <1>1, ReportedKeeps
<1>4. ReportingTypeOK'
  BY <1>2, <1>3 DEF ReportingInv, ReportingTypeOK
<1>5. ChainInv'
  BY <1>3 DEF ChainInv
<1> QED
  BY <1>2, <1>3, <1>4, <1>5 DEF ReportingInv

(* One thread's stack changes, with its reporter and its traces.           *)
LEMMA StackChanges ==
  ASSUME ReportingInv, NEW t \in ReportingThreads, NEW c, Sound(c),
         NEW reporter \in Nat \X Nat, NEW traces \in Seq(Nat), NEW global \in Nat \X Nat,
         ThreadChain(t, c, reporter, traces),
         t = 1 => GlobalChain(c, global), t # 1 => global = global_reporter,
         frames' = [frames EXCEPT ![t] = c],
         thread_reporter' = [thread_reporter EXCEPT ![t] = reporter],
         gtest_trace_stack' = [gtest_trace_stack EXCEPT ![t] = traces],
         global_reporter' = global, leaving' \in [ReportingThreads -> Leaving],
         UNCHANGED <<xml_element, test_part_results, due>>
  PROVE  ReportingInv'
<1>1. /\ frames \in [ReportingThreads -> Seq(Scope)]
      /\ thread_reporter \in [ReportingThreads -> Nat \X Nat]
      /\ gtest_trace_stack \in [ReportingThreads -> Seq(Nat)]
      /\ xml_element \in Results /\ test_part_results = due /\ due \in Seq(ResultRecord)
  BY DEF ReportingInv, ReportingTypeOK
<1>2. ChainInv /\ \A u \in ReportingThreads : Sound(frames[u])
  BY DEF ReportingInv
<1>3. /\ frames'[t] = c /\ thread_reporter'[t] = reporter /\ gtest_trace_stack'[t] = traces
      /\ \A u \in ReportingThreads \ {t} :
           /\ frames'[u] = frames[u] /\ thread_reporter'[u] = thread_reporter[u]
           /\ gtest_trace_stack'[u] = gtest_trace_stack[u]
  BY <1>1
<1>4. c \in Seq(Scope)
  BY DEF Sound
<1>5. ReportingTypeOK'
  <2>1. frames' \in [ReportingThreads -> Seq(Scope)]
    BY <1>1, <1>4
  <2>2. thread_reporter' \in [ReportingThreads -> Nat \X Nat]
    BY <1>1
  <2>3. gtest_trace_stack' \in [ReportingThreads -> Seq(Nat)]
    BY <1>1
  <2> QED
    BY <1>1, <2>1, <2>2, <2>3 DEF ReportingTypeOK
<1>6. \A u \in ReportingThreads : Sound(frames'[u])
  BY <1>2, <1>3
<1>7. ASSUME NEW u \in ReportingThreads
      PROVE  ThreadChain(u, frames'[u], thread_reporter'[u], gtest_trace_stack'[u])
  <2>1. CASE u = t
    BY <1>3, <2>1
  <2>2. CASE u # t
    BY <1>2, <1>3, <2>2 DEF ChainInv
  <2> QED
    BY <2>1, <2>2
<1>8. GlobalChain(frames'[1], global_reporter')
  <2>1. CASE t = 1
    BY <1>3, <2>1
  <2>2. CASE t # 1
    BY <1>2, <1>3, <2>2, ThreadsAreNumbered DEF ChainInv
  <2> QED
    BY <2>1, <2>2
<1>9. ChainInv'
  BY <1>7, <1>8 DEF ChainInv
<1> QED
  BY <1>1, <1>5, <1>6, <1>9 DEF ReportingInv
-----------------------------------------------------------------------------
(* The steps.                                                              *)
LEMMA InvParts ==
  ASSUME ReportingInv, NEW t \in ReportingThreads
  PROVE  /\ frames[t] \in Seq(Scope) /\ Sound(frames[t]) /\ Stacked(t, frames[t])
         /\ ThreadChain(t, frames[t], thread_reporter[t], gtest_trace_stack[t])
         /\ GlobalChain(frames[1], global_reporter)
         /\ thread_reporter[t] \in Nat \X Nat /\ global_reporter \in Nat \X Nat
         /\ gtest_trace_stack[t] \in Seq(Nat) /\ leaving \in [ReportingThreads -> Leaving]
         /\ thread_reporter = [thread_reporter EXCEPT ![t] = thread_reporter[t]]
         /\ gtest_trace_stack = [gtest_trace_stack EXCEPT ![t] = gtest_trace_stack[t]]
BY DEF ReportingInv, ReportingTypeOK, ChainInv, ThreadChain

LEMMA AssertionKeeps ==
  ASSUME ReportingInv, NEW t \in ReportingThreads, MakeAssertion(t)
  PROVE  ReportingInv'
<1>1. PICK type \in {"success", "nonfatal", "fatal"}, message \in {"the_text", "another"} :
        /\ AddTestPartResult(t, type, message)
        /\ \/ UNCHANGED leaving
           \/ type = "fatal" /\ leaving' = [leaving EXCEPT ![t] = "return"]
  BY DEF MakeAssertion
<1>2. type \in ResultTypes /\ message \in Messages
  BY DEF ResultTypes, Messages
<1>3. leaving' \in [ReportingThreads -> Leaving]
  BY <1>1, InvParts DEF Leaving
<1>4. UNCHANGED <<xml_element, global_reporter, thread_reporter, gtest_trace_stack>>
  BY DEF MakeAssertion
<1> QED
  BY <1>1, <1>2, <1>3, <1>4, AddTestPartResultKeeps

LEMMA ArriveKeeps ==
  ASSUME ReportingInv, NEW t \in ReportingThreads, Arrive(t)
  PROVE  ReportingInv'
<1>1. leaving' \in [ReportingThreads -> Leaving]
  BY InvParts DEF Arrive, Leaving
<1>2. UNCHANGED <<xml_element, global_reporter, thread_reporter, gtest_trace_stack>>
  BY DEF Arrive
<1>3. CASE AddTestPartResult(t, "fatal", "another")
  <2>1. "fatal" \in ResultTypes /\ "another" \in Messages
    BY DEF ResultTypes, Messages
  <2> QED
    BY <1>1, <1>2, <1>3, <2>1, AddTestPartResultKeeps
<1>4. CASE UNCHANGED <<frames, test_part_results, due>>
  BY <1>1, <1>2, <1>4 DEF ReportingInv, ReportingTypeOK, ChainInv
<1> QED
  BY <1>3, <1>4 DEF Arrive

LEMMA RecordKeeps ==
  ASSUME ReportingInv, RecordProperty
  PROVE  ReportingInv'
<1>1. leaving' \in [ReportingThreads -> Leaving]
  BY ThreadsAreNumbered, InvParts DEF RecordProperty
<1>2. UNCHANGED <<xml_element, global_reporter, thread_reporter, gtest_trace_stack>>
  BY DEF RecordProperty
<1>3. CASE AddTestPartResult(1, "nonfatal", "another")
  <2>1. "nonfatal" \in ResultTypes /\ "another" \in Messages /\ 1 \in ReportingThreads
    BY ThreadsAreNumbered DEF ResultTypes, Messages
  <2> QED
    BY <1>1, <1>2, <1>3, <2>1, AddTestPartResultKeeps
<1>4. CASE UNCHANGED <<frames, test_part_results, due>>
  BY <1>1, <1>2, <1>4 DEF ReportingInv, ReportingTypeOK, ChainInv
<1> QED
  BY <1>3, <1>4 DEF RecordProperty

LEMMA ThrowKeeps ==
  ASSUME ReportingInv, Throw
  PROVE  ReportingInv'
<1>1. leaving' \in [ReportingThreads -> Leaving]
  BY ThreadsAreNumbered, InvParts DEF Throw, Leaving
<1>2. UNCHANGED <<xml_element, global_reporter, thread_reporter, gtest_trace_stack,
                  frames, test_part_results, due>>
  BY DEF Throw
<1> QED
  BY <1>1, <1>2 DEF ReportingInv, ReportingTypeOK, ChainInv

LEMMA EnterKeeps ==
  ASSUME ReportingInv, NEW t \in ReportingThreads, Enter(t)
  PROVE  ReportingInv'
<1> DEFINE s == frames[t]
           n == Len(s) + 1
           self == <<t, Len(frames[t]) + 1>>
           old(macro) ==
             IF macro.class = "all_threads" THEN global_reporter ELSE thread_reporter[t]
           new(macro) ==
             [class |-> macro.class, asks |-> macro.asks, line |-> Len(frames[t]),
              open |-> TRUE, old_reporter |-> old(macro), results |-> << >>,
              has_new_fatal_failure |-> FALSE, due |-> << >>]
<1>1. PICK macro \in Macros(t) :
        /\ frames' = [frames EXCEPT ![t] = Append(@, new(macro))]
        /\ global_reporter' = IF macro.class = "all_threads" THEN self ELSE global_reporter
        /\ thread_reporter' =
             IF macro.class \in {"one_thread", "no_fatal"}
             THEN [thread_reporter EXCEPT ![t] = self] ELSE thread_reporter
        /\ gtest_trace_stack' =
             IF macro.class = "trace" THEN PushTrace(t, Len(frames[t])) ELSE gtest_trace_stack
  BY DEF Enter
<1>2. /\ macro.class \in {"one_thread", "all_threads", "no_fatal", "trace"}
      /\ macro.asks \in {"fatal", "nonfatal", "EXPECT", "ASSERT", "a_line"}
      /\ macro.class = "all_threads" => t = 1
  BY DEF Macros, Macro
<1>3. /\ s \in Seq(Scope) /\ Sound(s) /\ Stacked(t, s)
      /\ ThreadChain(t, s, thread_reporter[t], gtest_trace_stack[t])
      /\ GlobalChain(frames[1], global_reporter)
      /\ thread_reporter[t] \in Nat \X Nat /\ global_reporter \in Nat \X Nat
      /\ gtest_trace_stack[t] \in Seq(Nat) /\ leaving \in [ReportingThreads -> Leaving]
      /\ thread_reporter = [thread_reporter EXCEPT ![t] = thread_reporter[t]]
      /\ gtest_trace_stack = [gtest_trace_stack EXCEPT ![t] = gtest_trace_stack[t]]
  BY InvParts
<1>4. UNCHANGED <<xml_element, test_part_results, due>> /\ leaving' = leaving /\ Running(t)
  BY DEF Enter
<1>5. AllOpen(s)
  <2>1. ASSUME NEW i \in 1 .. Len(s) PROVE s[i].open
    <3>1. CASE i = Len(s)
      <4>1. s # << >>
        BY <1>3
      <4> QED
        BY <1>4, <3>1, <4>1 DEF Running, Last
    <3>2. CASE i # Len(s)
      BY <1>3, <3>2 DEF Stacked
    <3> QED
      BY <3>1, <3>2
  <2> QED
    BY <2>1 DEF AllOpen
<1> DEFINE scope == new(macro)
<1>6. /\ scope \in Scope /\ scope.open /\ scope.class = macro.class /\ scope.line = Len(s)
      /\ scope.old_reporter =
           IF macro.class = "all_threads" THEN global_reporter ELSE thread_reporter[t]
      /\ scope.results = << >> /\ scope.due = << >> /\ ~ scope.has_new_fatal_failure
  <2>1. Len(s) \in Nat /\ << >> \in Seq(ResultRecord)
    BY <1>3
  <2> QED
    BY <1>2, <1>3, <2>1 DEF Scope
<1> DEFINE c == Append(s, scope)
<1>7. frames' = [frames EXCEPT ![t] = c] /\ n = Len(s) + 1 /\ self = <<t, n>>
      /\ n \in Nat /\ self \in Nat \X Nat
  <2>1. t \in Nat /\ Len(s) \in Nat
    BY <1>3, ThreadsAreNumbered
  <2> QED
    BY <1>1, <2>1
<1> HIDE DEF s, n, self, new, scope
<1>8. c = Append(s, scope)
  OBVIOUS
<1> HIDE DEF c
<1> DEFINE reporter == thread_reporter[t]
           traces == gtest_trace_stack[t]
<1>9. reporter = thread_reporter[t] /\ traces = gtest_trace_stack[t]
  OBVIOUS
<1>10. s \in Seq(Scope) /\ n = Len(s) + 1 /\ scope \in Scope /\ scope.open /\ Stacked(t, s)
       /\ traces \in Seq(Nat) /\ ThreadChain(t, s, reporter, traces)
  BY <1>3, <1>6, <1>7
<1> HIDE DEF reporter, traces
<1>11. /\ c \in Seq(Scope) /\ Len(c) = n /\ c[n] = scope
       /\ \A i \in 1 .. Len(s) : c[i] = s[i]
       /\ scope.class \in OfThread /\ scope.old_reporter = reporter =>
            /\ ThreadChain(t, c, <<t, n>>, traces)
            /\ \A global : GlobalChain(s, global) => GlobalChain(c, global)
       /\ scope.class \in OfAll /\ t = 1 /\ GlobalChain(s, scope.old_reporter) =>
            /\ ThreadChain(t, c, reporter, traces)
            /\ GlobalChain(c, <<t, n>>)
       /\ scope.class = "trace" /\ scope.old_reporter = reporter =>
            /\ ThreadChain(t, c, reporter, Append(traces, scope.line))
            /\ \A global : GlobalChain(s, global) => GlobalChain(c, global)
  <2>1. Pushed(t, s, scope, reporter, traces)
    BY ONLY <1>5, <1>10, PushScope
  <2>2. c \in Seq(Scope) /\ Len(c) = n /\ c[n] = scope /\ \A i \in 1 .. Len(s) : c[i] = s[i]
    BY ONLY <1>8, <1>10, AppendProperties
  <2> QED
    BY ONLY <1>8, <1>10, <2>1, <2>2 DEF Pushed
<1>12. Sound(c)
  <2>1. ASSUME NEW i \in 1 .. Len(c) PROVE Settled(c[i])
    <3>1. i = n \/ i \in 1 .. Len(s)
      BY <1>10, <1>11
    <3>2. Settled(scope)
      BY <1>6 DEF Settled
    <3> QED
      BY <1>3, <1>11, <3>1, <3>2 DEF Sound
  <2> QED
    BY <1>11, <2>1 DEF Sound
<1>13. t = 1 => GlobalChain(s, global_reporter)
  BY <1>3 DEF s
<1>14. CASE macro.class \in {"one_thread", "no_fatal"}
  <2>1. scope.class \in OfThread /\ scope.old_reporter = reporter
    BY <1>6, <1>9, <1>14 DEF OfThread
  <2>2. /\ thread_reporter' = [thread_reporter EXCEPT ![t] = self]
        /\ global_reporter' = global_reporter
        /\ gtest_trace_stack' = [gtest_trace_stack EXCEPT ![t] = traces]
    BY <1>1, <1>3, <1>9, <1>14
  <2>3. ThreadChain(t, c, self, traces) /\ (t = 1 => GlobalChain(c, global_reporter))
    BY <1>7, <1>11, <1>13, <2>1
  <2> QED
    BY <1>3, <1>4, <1>7, <1>10, <1>12, <2>2, <2>3, StackChanges
<1>15. CASE macro.class = "all_threads"
  <2>1. scope.class \in OfAll /\ t = 1 /\ scope.old_reporter = global_reporter
    BY <1>2, <1>6, <1>15 DEF OfAll
  <2>2. /\ thread_reporter' = [thread_reporter EXCEPT ![t] = reporter]
        /\ global_reporter' = self
        /\ gtest_trace_stack' = [gtest_trace_stack EXCEPT ![t] = traces]
    BY <1>1, <1>3, <1>9, <1>15
  <2>3. ThreadChain(t, c, reporter, traces) /\ GlobalChain(c, self)
    BY <1>7, <1>11, <1>13, <2>1
  <2>4. reporter \in Nat \X Nat
    BY <1>3, <1>9
  <2> QED
    BY <1>3, <1>4, <1>7, <1>10, <1>12, <2>1, <2>2, <2>3, <2>4, StackChanges
<1>16. CASE macro.class = "trace"
  <2>1. scope.class = "trace" /\ scope.old_reporter = reporter /\ scope.line = Len(s)
    BY <1>6, <1>9, <1>16
  <2> DEFINE more == Append(traces, Len(s))
  <2>2. /\ thread_reporter' = [thread_reporter EXCEPT ![t] = reporter]
        /\ global_reporter' = global_reporter
        /\ gtest_trace_stack' = [gtest_trace_stack EXCEPT ![t] = more]
    BY <1>1, <1>3, <1>9, <1>16 DEF PushTrace, s
  <2>3. ThreadChain(t, c, reporter, more) /\ (t = 1 => GlobalChain(c, global_reporter))
    BY <1>11, <1>13, <2>1
  <2>4. reporter \in Nat \X Nat /\ more \in Seq(Nat)
    BY <1>3, <1>9, <1>10
  <2> HIDE DEF more
  <2> QED
    BY <1>3, <1>4, <1>7, <1>12, <2>2, <2>3, <2>4, StackChanges
<1> QED
  BY <1>2, <1>14, <1>15, <1>16
LEMMA LeaveKeeps ==
  ASSUME ReportingInv, NEW t \in ReportingThreads, Leave(t)
  PROVE  ReportingInv'
<1> DEFINE s == frames[t]
           scope == Last(frames[t])
           closed == Append(Front(s), [scope EXCEPT !.open = FALSE])
           reporter == thread_reporter[t]
           traces == gtest_trace_stack[t]
           old == scope.old_reporter
<1>1. /\ s \in Seq(Scope) /\ Sound(s) /\ Stacked(t, s)
      /\ ThreadChain(t, s, reporter, traces)
      /\ GlobalChain(frames[1], global_reporter)
      /\ reporter \in Nat \X Nat /\ global_reporter \in Nat \X Nat
      /\ traces \in Seq(Nat) /\ leaving \in [ReportingThreads -> Leaving]
      /\ thread_reporter = [thread_reporter EXCEPT ![t] = reporter]
      /\ gtest_trace_stack = [gtest_trace_stack EXCEPT ![t] = traces]
  BY InvParts
<1>2. s # << >> /\ scope.open /\ UNCHANGED <<xml_element, test_part_results, due>>
  BY DEF Leave
<1>3. leaving' \in [ReportingThreads -> Leaving]
  BY <1>1 DEF Leave, Leaving
<1>4. \/ frames' = [frames EXCEPT ![t] = closed] /\ scope.class # "trace"
      \/ frames' = [frames EXCEPT ![t] = Front(s)] /\ ~ Takes(scope)
  <2>1. frames' = [frames EXCEPT ![t] =
          IF Takes(scope) \/ (scope.class = "no_fatal" /\ scope.has_new_fatal_failure
                                /\ leaving[t] = "no")
          THEN Append(Front(@), [scope EXCEPT !.open = FALSE]) ELSE Front(@)]
    BY DEF Leave
  <2> QED
    BY <2>1 DEF Takes
<1>5. /\ global_reporter' = IF scope.class = "all_threads" THEN old ELSE global_reporter
      /\ thread_reporter' = IF scope.class \in {"one_thread", "no_fatal"}
                            THEN [thread_reporter EXCEPT ![t] = old] ELSE thread_reporter
      /\ gtest_trace_stack' = IF scope.class = "trace"
                              THEN [gtest_trace_stack EXCEPT ![t] = Front(traces)]
                              ELSE gtest_trace_stack
  BY DEF Leave, OldReporter, PopTrace
<1>6. scope \in Scope /\ old \in Nat \X Nat
      /\ scope.class \in {"one_thread", "all_threads", "no_fatal", "trace"}
  <2>1. scope \in Scope
    BY <1>1, <1>2, TopIs
  <2> QED
    BY <2>1 DEF Scope
<1>7. t = 1 => GlobalChain(s, global_reporter)
  BY <1>1
<1>8. scope = Last(s)
  OBVIOUS
<1> HIDE DEF s, scope, reporter, traces, old
<1>9. ASSUME scope.class # "trace"
      PROVE  /\ closed \in Seq(Scope) /\ Sound(closed)
             /\ Front(closed) = Front(s) /\ closed # << >> /\ ~ Last(closed).open
             /\ scope.class \in OfThread =>
                  /\ ThreadChain(t, closed, old, traces)
                  /\ t = 1 => GlobalChain(closed, global_reporter)
             /\ scope.class \in OfAll =>
                  t = 1 /\ ThreadChain(t, closed, reporter, traces) /\ GlobalChain(closed, old)
  <2>1. Last(s).open /\ Last(s).class # "trace"
        /\ closed = Append(Front(s), [Last(s) EXCEPT !.open = FALSE])
    BY <1>2, <1>8, <1>9
  <2> HIDE DEF closed
  <2>2. /\ closed \in Seq(Scope) /\ closed # << >> /\ ~ Last(closed).open
        /\ Front(closed) = Front(s)
        /\ Last(s).class \in OfThread =>
             /\ \A rep, tr : ThreadChain(t, s, rep, tr) =>
                  ThreadChain(t, closed, Last(s).old_reporter, tr)
             /\ \A rep : GlobalChain(s, rep) => GlobalChain(closed, rep)
        /\ Last(s).class \in OfAll =>
             /\ t = 1
             /\ \A rep, tr : ThreadChain(t, s, rep, tr) => ThreadChain(t, closed, rep, tr)
             /\ GlobalChain(closed, Last(s).old_reporter)
        /\ (\A i \in 1 .. Len(s) : Settled(s[i])) =>
             \A i \in 1 .. Len(closed) : Settled(closed[i])
    <3>1. s \in Seq(Scope) /\ s # << >> /\ Stacked(t, s)
      BY <1>1, <1>2
    <3>2. Closed(t, s)
      BY ONLY <2>1, <3>1, CloseTop
    <3> QED
      BY ONLY <2>1, <3>2 DEF Closed
  <2>3. Sound(closed)
    BY <1>1, <2>2 DEF Sound
  <2> QED
    BY <1>1, <1>7, <1>8, <2>2, <2>3 DEF old
<1>10. CASE scope.class \in {"one_thread", "no_fatal"}
  <2>1. scope.class # "trace" /\ scope.class \in OfThread /\ scope.class # "all_threads"
    BY <1>10 DEF OfThread
  <2>2. /\ thread_reporter' = [thread_reporter EXCEPT ![t] = old]
        /\ global_reporter' = global_reporter
        /\ gtest_trace_stack' = [gtest_trace_stack EXCEPT ![t] = traces]
    BY <1>1, <1>5, <1>10, <2>1
  <2>3. /\ closed \in Seq(Scope) /\ Sound(closed) /\ Front(closed) = Front(s) /\ closed # << >>
        /\ ~ Last(closed).open /\ ThreadChain(t, closed, old, traces)
        /\ t = 1 => GlobalChain(closed, global_reporter)
    BY <1>9, <2>1
  <2> HIDE DEF closed
  <2>4. CASE frames' = [frames EXCEPT ![t] = closed]
    BY <1>1, <1>2, <1>3, <1>6, <2>2, <2>3, <2>4, StackChanges
  <2>5. CASE frames' = [frames EXCEPT ![t] = Front(s)]
    <3> DEFINE left == Front(closed)
    <3>1. Stacked(t, closed)
      BY <2>3 DEF ThreadChain
    <3>2. /\ \A rep, tr : ThreadChain(t, closed, rep, tr) => ThreadChain(t, left, rep, tr)
          /\ \A rep : GlobalChain(closed, rep) => GlobalChain(left, rep)
      BY ONLY <2>3, <3>1, PopClosed
    <3>3. Sound(left)
      BY <2>3, SoundFront
    <3>4. frames' = [frames EXCEPT ![t] = left]
      BY <2>3, <2>5
    <3> HIDE DEF left
    <3>5. ThreadChain(t, left, old, traces) /\ (t = 1 => GlobalChain(left, global_reporter))
      BY <2>3, <3>2
    <3> QED
      BY <1>1, <1>2, <1>3, <1>6, <2>2, <3>3, <3>4, <3>5, StackChanges
  <2> QED
    BY <1>4, <2>4, <2>5
<1>11. CASE scope.class = "all_threads"
  <2>1. scope.class # "trace" /\ scope.class \in OfAll /\ Takes(scope)
        /\ scope.class \notin {"one_thread", "no_fatal"}
    BY <1>11 DEF OfAll, Takes
  <2>2. /\ thread_reporter' = [thread_reporter EXCEPT ![t] = reporter]
        /\ global_reporter' = old
        /\ gtest_trace_stack' = [gtest_trace_stack EXCEPT ![t] = traces]
        /\ frames' = [frames EXCEPT ![t] = closed]
    BY <1>1, <1>4, <1>5, <1>11, <2>1
  <2>3. /\ Sound(closed) /\ t = 1
        /\ ThreadChain(t, closed, reporter, traces) /\ GlobalChain(closed, old)
    BY <1>9, <2>1
  <2> HIDE DEF closed
  <2> QED
    BY <1>1, <1>2, <1>3, <1>6, <2>2, <2>3, StackChanges
<1>12. CASE scope.class = "trace"
  <2> DEFINE left == Front(s)
             fewer == Front(traces)
  <2>1. /\ thread_reporter' = [thread_reporter EXCEPT ![t] = reporter]
        /\ global_reporter' = global_reporter
        /\ gtest_trace_stack' = [gtest_trace_stack EXCEPT ![t] = fewer]
        /\ frames' = [frames EXCEPT ![t] = left]
    BY <1>1, <1>4, <1>5, <1>12
  <2>2. /\ \A rep : \A tr \in Seq(Nat) : ThreadChain(t, s, rep, tr) =>
             Front(tr) \in Seq(Nat) /\ ThreadChain(t, Front(s), rep, Front(tr))
        /\ \A rep : GlobalChain(s, rep) => GlobalChain(Front(s), rep)
    <3>1. Last(s).class = "trace"
      BY <1>8, <1>12
    <3> QED
      BY ONLY <1>1, <1>2, <3>1, PopOfTrace
  <2>3. Sound(left)
    BY <1>1, <1>2, SoundFront
  <2>4. /\ fewer \in Seq(Nat) /\ ThreadChain(t, left, reporter, fewer)
        /\ t = 1 => GlobalChain(left, global_reporter)
    BY <1>1, <1>7, <2>2
  <2> HIDE DEF left, fewer
  <2> QED
    BY <1>1, <1>2, <1>3, <1>6, <2>1, <2>3, <2>4, StackChanges
<1> QED
  BY <1>6, <1>10, <1>11, <1>12

LEMMA CheckKeeps ==
  ASSUME ReportingInv, NEW t \in ReportingThreads, Check(t)
  PROVE  ReportingInv'
<1> DEFINE s == frames[t]
           scope == Last(frames[t])
           reporter == thread_reporter[t]
           traces == gtest_trace_stack[t]
<1>1. /\ s \in Seq(Scope) /\ Sound(s) /\ Stacked(t, s)
      /\ ThreadChain(t, s, reporter, traces)
      /\ GlobalChain(frames[1], global_reporter)
      /\ reporter \in Nat \X Nat /\ global_reporter \in Nat \X Nat
      /\ traces \in Seq(Nat) /\ leaving \in [ReportingThreads -> Leaving]
      /\ thread_reporter = [thread_reporter EXCEPT ![t] = reporter]
      /\ gtest_trace_stack = [gtest_trace_stack EXCEPT ![t] = traces]
  BY InvParts
<1>2. /\ s # << >> /\ ~ Last(s).open
      /\ UNCHANGED <<xml_element, global_reporter, thread_reporter, gtest_trace_stack>>
  BY DEF Check
<1>3. CASE /\ frames' = [frames EXCEPT ![t] = Front(@)]
           /\ UNCHANGED <<test_part_results, due, leaving>>
  <2> DEFINE left == Front(s)
  <2>1. /\ \A rep, tr : ThreadChain(t, s, rep, tr) => ThreadChain(t, left, rep, tr)
        /\ \A rep : GlobalChain(s, rep) => GlobalChain(left, rep)
    BY <1>1, <1>2, PopClosed
  <2>2. Sound(left)
    BY <1>1, <1>2, SoundFront
  <2>3. ThreadChain(t, left, reporter, traces) /\ (t = 1 => GlobalChain(left, global_reporter))
    BY <1>1, <2>1
  <2>4. /\ frames' = [frames EXCEPT ![t] = left]
        /\ thread_reporter' = [thread_reporter EXCEPT ![t] = reporter]
        /\ gtest_trace_stack' = [gtest_trace_stack EXCEPT ![t] = traces]
        /\ global_reporter' = global_reporter /\ leaving' \in [ReportingThreads -> Leaving]
        /\ UNCHANGED <<xml_element, test_part_results, due>>
    BY <1>1, <1>2, <1>3
  <2> HIDE DEF left, reporter, traces, s
  <2> QED
    BY <1>1, <2>2, <2>3, <2>4, StackChanges
<1>4. ASSUME NEW type \in ResultTypes,
             frames' = [Reported(t, type, "the_text") EXCEPT ![t] = Front(@)],
             ReportToResults(t, type, "the_text"),
             leaving' = IF type = "fatal" THEN [leaving EXCEPT ![t] = "return"] ELSE leaving
      PROVE  ReportingInv'
  <2> DEFINE F == Reported(t, type, "the_text")
  <2>1. "the_text" \in Messages
    BY DEF Messages
  <2>2. /\ F \in [ReportingThreads -> Seq(Scope)]
        /\ \A u \in ReportingThreads :
             /\ Sound(F[u]) /\ Len(F[u]) = Len(frames[u])
             /\ \A i \in 1 .. Len(frames[u]) : F[u][i].open = frames[u][i].open
             /\ ThreadChain(u, F[u], thread_reporter[u], gtest_trace_stack[u])
        /\ GlobalChain(F[1], global_reporter)
    BY <2>1, ReportedKeeps
  <2>3. test_part_results' = due' /\ due' \in Seq(ResultRecord)
    BY <1>4, <2>1, ResultsAgree
  <2>4. leaving' \in [ReportingThreads -> Leaving]
    BY <1>1, <1>4 DEF Leaving
  <2>5. frames' = [F EXCEPT ![t] = Front(F[t])]
    BY <1>4
  <2> HIDE DEF F
  <2> DEFINE f == F[t]
             left == Front(f)
  <2>6. f \in Seq(Scope) /\ f # << >> /\ ~ Last(f).open /\ Stacked(t, f) /\ Sound(f)
    <3>1. f \in Seq(Scope) /\ Sound(f) /\ Len(f) = Len(s) /\ Stacked(t, f)
          /\ \A i \in 1 .. Len(s) : f[i].open = s[i].open
      BY <2>2 DEF ThreadChain
    <3> HIDE DEF f, s
    <3>2. Len(s) \in Nat /\ Len(s) # 0 /\ Len(s) \in 1 .. Len(s)
      BY <1>1, <1>2
    <3>3. f # << >>
      BY <3>1, <3>2
    <3>4. Last(f) = f[Len(s)] /\ Last(s) = s[Len(s)]
      BY <3>1 DEF Last
    <3> QED
      BY <1>2, <3>1, <3>2, <3>3, <3>4
  <2> HIDE DEF f
  <2>7. /\ \A rep, tr : ThreadChain(t, f, rep, tr) => ThreadChain(t, left, rep, tr)
        /\ \A rep : GlobalChain(f, rep) => GlobalChain(left, rep)
    BY ONLY <2>6, PopClosed
  <2>8. Sound(left) /\ left \in Seq(Scope)
    BY <2>6, SoundFront
  <2> HIDE DEF left
  <2>9. /\ frames' \in [ReportingThreads -> Seq(Scope)] /\ frames'[t] = left
        /\ \A u \in ReportingThreads \ {t} : frames'[u] = F[u]
    BY <2>2, <2>5, <2>8 DEF left, f
  <2>10. ASSUME NEW u \in ReportingThreads
         PROVE  /\ Sound(frames'[u])
                /\ ThreadChain(u, frames'[u], thread_reporter'[u], gtest_trace_stack'[u])
    <3>1. CASE u = t
      <4>1. ThreadChain(t, f, thread_reporter[t], gtest_trace_stack[t])
        BY <2>2 DEF f
      <4> QED
        BY <1>2, <2>7, <2>8, <2>9, <3>1, <4>1
    <3>2. CASE u # t
      BY <1>2, <2>2, <2>9, <3>2
    <3> QED
      BY <3>1, <3>2
  <2>11. GlobalChain(frames'[1], global_reporter')
    <3>1. CASE t = 1
      BY <1>2, <2>2, <2>7, <2>9, <3>1 DEF f
    <3>2. CASE t # 1
      BY <1>2, <2>2, <2>9, <3>2, ThreadsAreNumbered
    <3> QED
      BY <3>1, <3>2
  <2>12. ChainInv'
    BY <2>10, <2>11 DEF ChainInv
  <2>13. ReportingTypeOK'
    BY <1>2, <2>3, <2>4, <2>9 DEF ReportingInv, ReportingTypeOK
  <2> QED
    BY <2>3, <2>10, <2>12, <2>13 DEF ReportingInv
<1>5. CASE ~ (Takes(scope) /\ HasOneFailure(scope))
  <2> DEFINE type == IF scope.asks = "ASSERT" THEN "fatal" ELSE "nonfatal"
  <2>1. /\ frames' = [Reported(t, type, "the_text") EXCEPT ![t] = Front(@)]
        /\ ReportToResults(t, type, "the_text")
        /\ leaving' = IF type = "fatal" THEN [leaving EXCEPT ![t] = "return"] ELSE leaving
    BY <1>5 DEF Check
  <2>2. type \in ResultTypes
    BY DEF ResultTypes
  <2> HIDE DEF type
  <2> QED
    BY <1>4, <2>1, <2>2
<1>6. CASE Takes(scope) /\ HasOneFailure(scope)
  BY <1>3, <1>6 DEF Check
<1> QED
  BY <1>5, <1>6

LEMMA ReportingStarts ==
  ASSUME ReportingInit
  PROVE  ReportingInv
<1>1. /\ << >> \in Seq(Scope) /\ << >> \in Seq(ResultRecord) /\ << >> \in Seq(Nat)
      /\ Len(<< >>) = 0 /\ 1 .. 0 = {}
  OBVIOUS
<1>2. ReportingTypeOK
  BY <1>1 DEF ReportingInit, ReportingTypeOK, DefaultGlobal, DefaultPerThread, Leaving
<1>3. Stacked(1, << >>) /\ \A t \in ReportingThreads : Stacked(t, << >>)
  BY <1>1 DEF Stacked
<1>4. \A classes : OpenUpTo(<< >>, Len(<< >>), classes) = {}
  BY <1>1 DEF OpenUpTo
<1>5. Reverse(<< >>) = << >>
  BY DEF Reverse
<1>6. \A t \in ReportingThreads : ThreadChain(t, << >>, DefaultPerThread, << >>)
  BY <1>3, <1>4, <1>5, NoTraces DEF ThreadChain, LinksTo
<1>7. GlobalChain(<< >>, DefaultGlobal)
  BY <1>4 DEF GlobalChain, LinksTo
<1>8. ChainInv
  BY <1>6, <1>7, ThreadsAreNumbered DEF ReportingInit, ChainInv
<1>9. Sound(<< >>)
  BY <1>1 DEF Sound
<1> QED
  BY <1>2, <1>8, <1>9 DEF ReportingInit, ReportingInv

LEMMA ReportingSteps ==
  ASSUME ReportingInv, [ReportingNext]_reporting_vars
  PROVE  ReportingInv'
<1>1. CASE UNCHANGED reporting_vars
  BY <1>1 DEF reporting_vars, ReportingInv, ReportingTypeOK, ChainInv
<1>2. ASSUME NEW t \in ReportingThreads,
             MakeAssertion(t) \/ Enter(t) \/ Leave(t) \/ Check(t) \/ Arrive(t)
      PROVE  ReportingInv'
  BY <1>2, AssertionKeeps, EnterKeeps, LeaveKeeps, CheckKeeps, ArriveKeeps
<1> QED
  BY <1>1, <1>2, ThrowKeeps, RecordKeeps DEF ReportingNext

(* The invariant holds of every run.                                       *)
THEOREM ReportersAreChained == ReportingSpec => []ReportingInv
<1>1. ReportingInit => ReportingInv
  BY ReportingStarts
<1>2. ReportingInv /\ [ReportingNext]_reporting_vars => ReportingInv'
  BY ReportingSteps
<1> QED
  BY <1>1, <1>2, PTL DEF ReportingSpec

(* Whatever the threads, their scopes and the ways they are left: each     *)
(* result reaches the scope or the current result it ought to, and each    *)
(* scope that asks for no fatal failure knows of exactly those within it.  *)
THEOREM FailuresGoWhereTheyShould == ReportingSpec => []FailuresReachTheirResult
<1>1. ReportingInv => FailuresReachTheirResult
  <2> SUFFICES ASSUME ReportingInv PROVE FailuresReachTheirResult
    OBVIOUS
  <2>1. \A t \in ReportingThreads : Sound(frames[t])
    BY DEF ReportingInv
  <2>2. test_part_results = due
    BY DEF ReportingInv
  <2>3. ASSUME NEW t \in ReportingThreads, NEW i \in DOMAIN frames[t]
        PROVE  Settled(frames[t][i])
    BY <2>1 DEF Sound
  <2> QED
    BY <2>2, <2>3 DEF FailuresReachTheirResult, Settled
<1> QED
  BY <1>1, ReportersAreChained, PTL

-----------------------------------------------------------------------------
(***************************************************************************)
(* Sequences one after another, sums and what is kept.                     *)
(***************************************************************************)
(* Induction over sequences, stated for the set of those with a property.  *)
LEMMA SequenceInduction ==
  ASSUME NEW S, NEW T, << >> \in T,
         \A s \in Seq(S), x \in S : s \in T => Append(s, x) \in T
  PROVE  \A s \in Seq(S) : s \in T
<1> SUFFICES ASSUME NEW s \in Seq(S) PROVE s \in T
  OBVIOUS
<1>1. Len(s) \in Nat /\ \A i \in 1 .. Len(s) : s[i] \in S
  OBVIOUS
<1> DEFINE U == {n \in 0 .. Len(s) : SubSeq(s, 1, n) \in T}
<1>2. 0 \in U
  <2>1. SubSeq(s, 1, 0) = << >>
    BY <1>1
  <2>2. SubSeq(s, 1, 0) \in T
    BY <2>1
  <2>3. 0 \in 0 .. Len(s)
    BY <1>1
  <2> QED
    BY <2>2, <2>3
<1>3. ASSUME NEW n \in 0 .. Len(s), n # Len(s), n \in U
      PROVE  n + 1 \in U
  <2>1. n + 1 \in 0 .. Len(s) /\ n + 1 \in 1 .. Len(s)
    BY <1>1, <1>3
  <2>2. SubSeq(s, 1, n + 1) = Append(SubSeq(s, 1, n), s[n + 1])
    BY <1>1, <2>1
  <2>3. SubSeq(s, 1, n) \in Seq(S) /\ s[n + 1] \in S
    BY <1>1, <1>3, <2>1
  <2> QED
    BY <1>3, <2>1, <2>2, <2>3
<1>4. \A n \in 0 .. Len(s) : n # Len(s) /\ n \in U => n + 1 \in U
  BY <1>3
<1>5. Len(s) \in U
  <2> HIDE DEF U
  <2>1. \A n \in 0 .. Len(s) : n \in U
    BY <1>1, <1>2, <1>4, UpwardInduction
  <2> QED
    BY <1>1, <2>1
<1>6. SubSeq(s, 1, Len(s)) = s
  BY <1>1
<1> QED
  BY <1>5, <1>6

(* What FlattenSeq has put together after n sequences. *)
FlattensUpTo(f, l, n) ==
  f = [i \in 1 .. n |-> IF i = 1 THEN l[i] ELSE f[i - 1] \o l[i]]

LEMMA FlattensStep ==
  ASSUME NEW f, NEW l, NEW n \in Nat, FlattensUpTo(f, l, n)
  PROVE  \A i \in 1 .. n : f[i] = IF i = 1 THEN l[i] ELSE f[i - 1] \o l[i]
BY Zenon DEF FlattensUpTo

LEMMA Flattens ==
  ASSUME NEW l, Len(l) \in Nat \ {0}
  PROVE  \E f : FlattensUpTo(f, l, Len(l)) /\ FlattenSeq(l) = f[Len(l)]
<1> DEFINE T == {n \in 0 .. Len(l) : \E f : FlattensUpTo(f, l, n)}
<1>1. 0 \in T
  <2>1. FlattensUpTo([i \in 1 .. 0 |-> << >>], l, 0)
    BY DEF FlattensUpTo
  <2> QED
    BY <2>1
<1>2. ASSUME NEW n \in 0 .. Len(l), n # Len(l), n \in T
      PROVE  n + 1 \in T
  <2>1. PICK f : FlattensUpTo(f, l, n)
    BY <1>2
  <2> DEFINE last == IF n = 0 THEN l[1] ELSE f[n] \o l[n + 1]
             g == [i \in 1 .. n + 1 |-> IF i = n + 1 THEN last ELSE f[i]]
             h == [i \in 1 .. n + 1 |-> IF i = 1 THEN l[i] ELSE g[i - 1] \o l[i]]
  <2>2. \A i \in 1 .. n : f[i] = IF i = 1 THEN l[i] ELSE f[i - 1] \o l[i]
    BY <2>1, FlattensStep
  <2>3. ASSUME NEW i \in 1 .. n + 1
        PROVE  g[i] = h[i]
    <3>1. CASE i = n + 1
      <4>1. g[i] = last /\ h[i] = IF i = 1 THEN l[i] ELSE g[i - 1] \o l[i]
        BY <3>1
      <4>2. n # 0 => i # 1 /\ g[i - 1] = f[n]
        BY <3>1
      <4> QED
        BY <3>1, <4>1, <4>2
    <3>2. CASE i \in 1 .. n
      <4>1. g[i] = f[i] /\ h[i] = IF i = 1 THEN l[i] ELSE g[i - 1] \o l[i]
        BY <3>2
      <4>2. i # 1 => g[i - 1] = f[i - 1]
        BY <3>2
      <4> QED
        BY <2>2, <3>2, <4>1, <4>2
    <3> QED
      BY <3>1, <3>2
  <2>4. g = h
    BY <2>3
  <2> HIDE DEF g, last
  <2>5. FlattensUpTo(g, l, n + 1)
    BY <2>4 DEF FlattensUpTo
  <2>6. n + 1 \in 0 .. Len(l)
    BY <1>2
  <2> QED
    BY <2>5, <2>6
<1>3. \A n \in 0 .. Len(l) : n # Len(l) /\ n \in T => n + 1 \in T
  BY <1>2
<1> HIDE DEF T
<1>4. \A n \in 0 .. Len(l) : n \in T
  BY <1>1, <1>3, UpwardInduction
<1>5. Len(l) \in T
  BY <1>4
<1>6. \E f : FlattensUpTo(f, l, Len(l))
  BY <1>5 DEF T
<1> DEFINE flatten == CHOOSE f : f = [i \in 1 .. Len(l) |->
                        IF i = 1 THEN l[i] ELSE f[i - 1] \o l[i]]
<1>7. FlattensUpTo(flatten, l, Len(l))
  BY <1>6, Zenon DEF FlattensUpTo
<1>8. FlattenSeq(l) = flatten[Len(l)]
  BY DEF FlattenSeq
<1> HIDE DEF flatten
<1> QED
  BY <1>7, <1>8

(* How FlattenSeq and Total go on. *)
LEMMA FlattenMore ==
  ASSUME NEW S, NEW l \in Seq(S), NEW x \in S
  PROVE  FlattenSeq(Append(l, x)) = IF l = << >> THEN x ELSE FlattenSeq(l) \o x
<1> DEFINE m == Append(l, x)
           n == Len(l)
<1>1. n \in Nat /\ Len(m) = n + 1 /\ m[n + 1] = x /\ \A i \in 1 .. n : m[i] = l[i]
  OBVIOUS
<1> HIDE DEF m
<1>2. PICK g : FlattensUpTo(g, m, n + 1) /\ FlattenSeq(m) = g[n + 1]
  BY <1>1, Flattens
<1>3. \A i \in 1 .. n + 1 : g[i] = IF i = 1 THEN m[i] ELSE g[i - 1] \o m[i]
  BY <1>1, <1>2, FlattensStep
<1>4. CASE l = << >>
  BY <1>1, <1>2, <1>3, <1>4 DEF m
<1>5. CASE l # << >>
  <2>1. n # 0
    BY <1>5
  <2>2. PICK f : FlattensUpTo(f, l, n) /\ FlattenSeq(l) = f[n]
    BY <1>1, <2>1, Flattens
  <2>3. \A i \in 1 .. n : f[i] = IF i = 1 THEN l[i] ELSE f[i - 1] \o l[i]
    BY <1>1, <2>2, FlattensStep
  <2> DEFINE T == {k \in 0 .. n : k # 0 => f[k] = g[k]}
  <2>4. 0 \in T
    BY <1>1
  <2>5. ASSUME NEW k \in 0 .. n, k # n, k \in T PROVE k + 1 \in T
    <3>1. k + 1 \in 1 .. n /\ k + 1 \in 1 .. n + 1 /\ k + 1 \in 0 .. n /\ (k + 1) - 1 = k
      BY <1>1, <2>5
    <3>2. /\ f[k + 1] = IF k + 1 = 1 THEN l[k + 1] ELSE f[k] \o l[k + 1]
          /\ g[k + 1] = IF k + 1 = 1 THEN m[k + 1] ELSE g[k] \o m[k + 1]
          /\ m[k + 1] = l[k + 1]
      BY <1>1, <1>3, <2>3, <3>1
    <3>3. k + 1 # 1 => f[k] = g[k]
      BY <2>5
    <3> QED
      BY <3>1, <3>2, <3>3
  <2>6. \A k \in 0 .. n : k # n /\ k \in T => k + 1 \in T
    BY <2>5
  <2>7. n \in T
    <3> HIDE DEF T
    <3>1. \A k \in 0 .. n : k \in T
      BY <1>1, <2>4, <2>6, UpwardInduction
    <3> QED
      BY <1>1, <3>1
  <2>8. f[n] = g[n]
    BY <2>1, <2>7
  <2>9. g[n + 1] = g[n] \o m[n + 1]
    <3>1. n + 1 \in 1 .. n + 1 /\ n + 1 # 1 /\ (n + 1) - 1 = n
      BY <1>1, <2>1
    <3> QED
      BY <1>3, <3>1
  <2> QED
    BY <1>1, <1>2, <1>5, <2>2, <2>8, <2>9 DEF m
<1> QED
  BY <1>4, <1>5

LEMMA FlattenNone == FlattenSeq(<< >>) = << >>
BY DEF FlattenSeq

LEMMA FlattenAppend ==
  ASSUME NEW T, NEW l \in Seq(Seq(T)), FlattenSeq(l) \in Seq(T), NEW x \in Seq(T)
  PROVE  FlattenSeq(Append(l, x)) = FlattenSeq(l) \o x
<1>1. FlattenSeq(Append(l, x)) = IF l = << >> THEN x ELSE FlattenSeq(l) \o x
  BY FlattenMore
<1>2. << >> \o x = x
  OBVIOUS
<1> QED
  BY <1>1, <1>2, FlattenNone

LEMMA FlattenType ==
  ASSUME NEW T
  PROVE  \A l \in Seq(Seq(T)) : FlattenSeq(l) \in Seq(T)
<1> DEFINE U == {l \in Seq(Seq(T)) : FlattenSeq(l) \in Seq(T)}
<1>1. << >> \in U
  BY FlattenNone, EmptySeq
<1>2. ASSUME NEW l \in Seq(Seq(T)), NEW x \in Seq(T), l \in U
      PROVE  Append(l, x) \in U
  <2>1. FlattenSeq(Append(l, x)) = FlattenSeq(l) \o x /\ FlattenSeq(l) \in Seq(T)
    BY <1>2, FlattenAppend
  <2>2. FlattenSeq(l) \o x \in Seq(T)
    BY <2>1
  <2>3. Append(l, x) \in Seq(Seq(T))
    BY AppendProperties
  <2> QED
    BY <2>1, <2>2, <2>3
<1> HIDE DEF U
<1>3. \A l \in Seq(Seq(T)) : l \in U
  BY <1>1, <1>2, SequenceInduction
<1> QED
  BY <1>3 DEF U

LEMMA FlattenConcat ==
  ASSUME NEW T, NEW a \in Seq(Seq(T))
  PROVE  \A b \in Seq(Seq(T)) : FlattenSeq(a \o b) = FlattenSeq(a) \o FlattenSeq(b)
<1> DEFINE S == Seq(T)
           U == {b \in Seq(S) : FlattenSeq(a \o b) = FlattenSeq(a) \o FlattenSeq(b)}
<1>1. \A l \in Seq(S) : FlattenSeq(l) \in Seq(T)
  BY FlattenType
<1>2. \A l \in Seq(S), x \in S : FlattenSeq(Append(l, x)) = FlattenSeq(l) \o x
  BY <1>1, FlattenAppend
<1>3. \A p, q, r \in Seq(T) : (p \o q) \o r = p \o (q \o r)
  BY ConcatAssociative
<1>4. \A p \in Seq(T) : p \o << >> = p
  BY ConcatEmptySeq
<1> HIDE DEF S
<1>5. << >> \in U
  <2>1. a \o << >> = a /\ << >> \in Seq(S)
    BY ConcatEmptySeq, EmptySeq DEF S
  <2> QED
    BY <1>1, <1>4, <2>1, FlattenNone DEF S
<1>6. ASSUME NEW b \in Seq(S), NEW x \in S, b \in U
      PROVE  Append(b, x) \in U
  <2>1. a \o Append(b, x) = Append(a \o b, x) /\ a \o b \in Seq(S) /\ Append(b, x) \in Seq(S)
    BY <1>6 DEF S
  <2>2. FlattenSeq(Append(a \o b, x)) = FlattenSeq(a \o b) \o x
    BY <1>2, <2>1
  <2>3. FlattenSeq(Append(b, x)) = FlattenSeq(b) \o x
    BY <1>2
  <2>4. (FlattenSeq(a) \o FlattenSeq(b)) \o x = FlattenSeq(a) \o (FlattenSeq(b) \o x)
    BY <1>1, <1>3 DEF S
  <2> QED
    BY <1>6, <2>1, <2>2, <2>3, <2>4
<1> HIDE DEF U
<1>7. \A b \in Seq(S) : b \in U
  BY <1>5, <1>6, SequenceInduction
<1> QED
  BY <1>7 DEF U, S

LEMMA FlattenOne ==
  ASSUME NEW x
  PROVE  FlattenSeq(<<x>>) = x
<1>1. FlattenSeq(Append(<< >>, x)) = x
  BY FlattenMore, EmptySeq, << >> \in Seq({x})
<1>2. Append(<< >>, x) = <<x>>
  OBVIOUS
<1> QED
  BY <1>1, <1>2

(* A function taken to each element. *)
MapOver(g, s) == [i \in DOMAIN s |-> g[s[i]]]

MapsOver(g, S, T) ==
  /\ MapOver(g, << >>) = << >>
  /\ \A s \in Seq(S) :
       /\ MapOver(g, s) \in Seq(T) /\ Len(MapOver(g, s)) = Len(s)
       /\ \A i \in 1 .. Len(s) : MapOver(g, s)[i] = g[s[i]]
       /\ \A x \in S : MapOver(g, Append(s, x)) = Append(MapOver(g, s), g[x])
       /\ \A r \in Seq(S) : MapOver(g, s \o r) = MapOver(g, s) \o MapOver(g, r)

LEMMA MapProperties ==
  ASSUME NEW S, NEW T, NEW g \in [S -> T]
  PROVE  MapsOver(g, S, T)
<1>1. MapOver(g, << >>) = << >>
  BY DEF MapOver
<1> SUFFICES ASSUME NEW s \in Seq(S)
             PROVE  /\ MapOver(g, s) \in Seq(T) /\ Len(MapOver(g, s)) = Len(s)
                    /\ \A i \in 1 .. Len(s) : MapOver(g, s)[i] = g[s[i]]
                    /\ \A x \in S : MapOver(g, Append(s, x)) = Append(MapOver(g, s), g[x])
                    /\ \A r \in Seq(S) : MapOver(g, s \o r) = MapOver(g, s) \o MapOver(g, r)
  BY <1>1 DEF MapsOver
<1>2. \A r \in Seq(S) : /\ MapOver(g, r) \in Seq(T) /\ Len(MapOver(g, r)) = Len(r)
                        /\ \A i \in 1 .. Len(r) : MapOver(g, r)[i] = g[r[i]]
  BY DEF MapOver
<1>3. ASSUME NEW x \in S PROVE MapOver(g, Append(s, x)) = Append(MapOver(g, s), g[x])
  <2> DEFINE m == MapOver(g, s)
             p == Append(s, x)
  <2>1. m \in Seq(T) /\ Len(m) = Len(s) /\ \A i \in 1 .. Len(s) : m[i] = g[s[i]]
    BY <1>2
  <2>2. p \in Seq(S) /\ Len(p) = Len(s) + 1 /\ p[Len(s) + 1] = x
        /\ \A i \in 1 .. Len(s) : p[i] = s[i]
    OBVIOUS
  <2>3. /\ MapOver(g, p) \in Seq(T) /\ Len(MapOver(g, p)) = Len(p)
        /\ \A i \in 1 .. Len(p) : MapOver(g, p)[i] = g[p[i]]
    BY <1>2, <2>2
  <2> HIDE DEF m, p
  <2>4. /\ Append(m, g[x]) \in Seq(T) /\ Len(Append(m, g[x])) = Len(s) + 1
        /\ \A i \in 1 .. Len(s) : Append(m, g[x])[i] = m[i]
        /\ Append(m, g[x])[Len(s) + 1] = g[x]
    BY <2>1
  <2>5. Len(s) \in Nat
    OBVIOUS
  <2>6. \A i \in 1 .. Len(s) + 1 : MapOver(g, p)[i] = Append(m, g[x])[i]
    BY <2>1, <2>2, <2>3, <2>4, <2>5
  <2>7. MapOver(g, p) = Append(m, g[x])
    BY <2>2, <2>3, <2>4, <2>6, SeqEqual
  <2> QED
    BY <2>7 DEF m, p
<1>4. ASSUME NEW r \in Seq(S) PROVE MapOver(g, s \o r) = MapOver(g, s) \o MapOver(g, r)
  <2> DEFINE m == MapOver(g, s)
             n == MapOver(g, r)
             p == s \o r
             q == m \o n
  <2>1. /\ m \in Seq(T) /\ Len(m) = Len(s) /\ \A i \in 1 .. Len(s) : m[i] = g[s[i]]
        /\ n \in Seq(T) /\ Len(n) = Len(r) /\ \A i \in 1 .. Len(r) : n[i] = g[r[i]]
    BY <1>2
  <2>2. /\ p \in Seq(S) /\ Len(p) = Len(s) + Len(r)
        /\ \A i \in 1 .. Len(s) + Len(r) : p[i] = IF i <= Len(s) THEN s[i] ELSE r[i - Len(s)]
    BY ConcatProperties
  <2>3. /\ MapOver(g, p) \in Seq(T) /\ Len(MapOver(g, p)) = Len(p)
        /\ \A i \in 1 .. Len(p) : MapOver(g, p)[i] = g[p[i]]
    BY <1>2, <2>2
  <2> HIDE DEF m, n, p
  <2>4. /\ q \in Seq(T) /\ Len(q) = Len(s) + Len(r)
        /\ \A i \in 1 .. Len(s) + Len(r) : q[i] = IF i <= Len(s) THEN m[i] ELSE n[i - Len(s)]
    <3>1. m \in Seq(T) /\ n \in Seq(T)
      BY <2>1
    <3>2. /\ q \in Seq(T) /\ Len(q) = Len(m) + Len(n)
          /\ \A i \in 1 .. Len(m) + Len(n) : q[i] = IF i <= Len(m) THEN m[i] ELSE n[i - Len(m)]
      BY <3>1, ConcatProperties
    <3> HIDE DEF q
    <3> QED
      BY <2>1, <3>2
  <2>5. Len(s) \in Nat /\ Len(r) \in Nat
    OBVIOUS
  <2> HIDE DEF q
  <2>6. ASSUME NEW i \in 1 .. Len(p) PROVE MapOver(g, p)[i] = q[i]
    <3>1. CASE i <= Len(s)
      BY <2>1, <2>2, <2>3, <2>4, <2>5, <3>1
    <3>2. CASE ~(i <= Len(s))
      <4>1. i - Len(s) \in 1 .. Len(r)
        BY <2>2, <2>5, <3>2
      <4> QED
        BY <2>1, <2>2, <2>3, <2>4, <2>5, <3>2, <4>1
    <3> QED
      BY <3>1, <3>2
  <2>7. MapOver(g, p) = q
    BY <2>2, <2>3, <2>4, <2>6, SeqEqual
  <2> QED
    BY <2>7 DEF m, n, p, q
<1> QED
  BY <1>2, <1>3, <1>4

(* A function taken to all elements of sequences one after another. *)
MapEach(g, l) == [i \in DOMAIN l |-> MapOver(g, l[i])]

MapsAcross(g, S, T) ==
  \A l \in Seq(Seq(S)) :
     /\ MapEach(g, l) \in Seq(Seq(T))
     /\ MapOver(g, FlattenSeq(l)) = FlattenSeq(MapEach(g, l))

LEMMA MapAcross ==
  ASSUME NEW S, NEW T, NEW g \in [S -> T]
  PROVE  MapsAcross(g, S, T)
<1> DEFINE R == Seq(S)
           Q == Seq(T)
           h == [s \in R |-> MapOver(g, s)]
           U == {l \in Seq(R) : MapOver(g, FlattenSeq(l)) = FlattenSeq(MapOver(h, l))}
<1>1. /\ MapOver(g, << >>) = << >>
      /\ \A s, r \in R : MapOver(g, s) \in Q /\ MapOver(g, s \o r) = MapOver(g, s) \o MapOver(g, r)
  BY MapProperties DEF MapsOver
<1>2. h \in [R -> Q]
  BY <1>1
<1>3. \A l \in Seq(R) : MapOver(h, l) = MapEach(g, l)
  BY DEF MapOver, MapEach
<1>4. \A l \in Seq(R) : FlattenSeq(l) \in R
  BY FlattenType
<1>5. \A l \in Seq(R), x \in R : FlattenSeq(Append(l, x)) = FlattenSeq(l) \o x
  BY <1>4, FlattenAppend
<1>6. \A l \in Seq(Q), x \in Q : FlattenSeq(Append(l, x)) = FlattenSeq(l) \o x
  BY FlattenType, FlattenAppend
<1>7. \A x \in R : h[x] = MapOver(g, x)
  OBVIOUS
<1> HIDE DEF h, R, Q
<1>13. MapsOver(h, R, Q)
  BY <1>2, MapProperties
<1>8. /\ MapOver(h, << >>) = << >>
      /\ \A l \in Seq(R) : /\ MapOver(h, l) \in Seq(Q)
                           /\ \A x \in R : MapOver(h, Append(l, x)) = Append(MapOver(h, l), h[x])
  BY <1>13 DEF MapsOver
<1>9. << >> \in U
  BY <1>1, <1>8, FlattenNone, EmptySeq
<1>10. ASSUME NEW l \in Seq(R), NEW x \in R, l \in U PROVE Append(l, x) \in U
  <2>1. Append(l, x) \in Seq(R)
    BY AppendProperties
  <2>2. MapOver(g, FlattenSeq(Append(l, x))) = MapOver(g, FlattenSeq(l)) \o MapOver(g, x)
    BY <1>1, <1>4, <1>5
  <2>3. FlattenSeq(MapOver(h, Append(l, x))) = FlattenSeq(MapOver(h, l)) \o h[x]
    <3>1. h[x] \in Q
      BY <1>2
    <3> QED
      BY <1>6, <1>8, <3>1
  <2> QED
    BY <1>7, <1>10, <2>1, <2>2, <2>3
<1>11. \A l \in Seq(R) : l \in U
  <2> HIDE DEF U
  <2> QED
    BY <1>9, <1>10, SequenceInduction
<1>12. \A l \in Seq(R) :
         MapEach(g, l) \in Seq(Q) /\ MapOver(g, FlattenSeq(l)) = FlattenSeq(MapEach(g, l))
  BY <1>3, <1>8, <1>11
<1> QED
  BY <1>12 DEF R, Q, MapsAcross

(* Sequences of one. *)
LEMMA FlattenSingles ==
  ASSUME NEW S
  PROVE  \A s \in Seq(S) : FlattenSeq([i \in DOMAIN s |-> <<s[i]>>]) = s
<1> DEFINE g == [x \in S |-> <<x>>]
           U == {s \in Seq(S) : FlattenSeq(MapOver(g, s)) = s}
<1>1. g \in [S -> Seq(S)]
  OBVIOUS
<1>2. \A s \in Seq(S) : MapOver(g, s) = [i \in DOMAIN s |-> <<s[i]>>]
  BY DEF MapOver
<1>3. \A x \in S : g[x] = <<x>>
  OBVIOUS
<1> HIDE DEF g
<1>8. MapsOver(g, S, Seq(S))
  BY <1>1, MapProperties
<1>4. /\ MapOver(g, << >>) = << >>
      /\ \A s \in Seq(S) : /\ MapOver(g, s) \in Seq(Seq(S))
                           /\ \A x \in S : MapOver(g, Append(s, x)) = Append(MapOver(g, s), g[x])
  BY <1>8 DEF MapsOver
<1>5. << >> \in U
  BY <1>4, FlattenNone, EmptySeq
<1>6. ASSUME NEW s \in Seq(S), NEW x \in S, s \in U PROVE Append(s, x) \in U
  <2>1. FlattenSeq(MapOver(g, Append(s, x))) = FlattenSeq(MapOver(g, s)) \o g[x]
    <3>1. g[x] \in Seq(S) /\ MapOver(g, s) \in Seq(Seq(S))
      BY <1>1, <1>4
    <3>2. FlattenSeq(Append(MapOver(g, s), g[x])) = FlattenSeq(MapOver(g, s)) \o g[x]
      BY <3>1, FlattenType, FlattenAppend
    <3> QED
      BY <1>4, <3>2
  <2>2. s \o <<x>> = Append(s, x) /\ Append(s, x) \in Seq(S)
    OBVIOUS
  <2> QED
    BY <1>3, <1>6, <2>1, <2>2
<1>7. \A s \in Seq(S) : s \in U
  <2> HIDE DEF U
  <2> QED
    BY <1>5, <1>6, SequenceInduction
<1> QED
  BY <1>2, <1>7

-----------------------------------------------------------------------------
(***************************************************************************)
(* Sums, and what is kept of lists put together.                           *)
(***************************************************************************)

(* What Total has added up after n numbers. *)
TotalsUpTo(f, l, n) == f = [i \in 0 .. n |-> IF i = 0 THEN 0 ELSE f[i - 1] + l[i]]

LEMMA TotalsStep ==
  ASSUME NEW f, NEW l, NEW n \in Nat, TotalsUpTo(f, l, n)
  PROVE  \A i \in 0 .. n : f[i] = IF i = 0 THEN 0 ELSE f[i - 1] + l[i]
BY Zenon DEF TotalsUpTo

LEMMA Totals ==
  ASSUME NEW l, Len(l) \in Nat
  PROVE  \E f : TotalsUpTo(f, l, Len(l)) /\ Total(l) = f[Len(l)]
<1> DEFINE T == {n \in 0 .. Len(l) : \E f : TotalsUpTo(f, l, n)}
<1>1. 0 \in T
  <2>1. TotalsUpTo([i \in 0 .. 0 |-> 0], l, 0)
    BY DEF TotalsUpTo
  <2> QED
    BY <2>1
<1>2. ASSUME NEW n \in 0 .. Len(l), n # Len(l), n \in T
      PROVE  n + 1 \in T
  <2>1. PICK f : TotalsUpTo(f, l, n)
    BY <1>2
  <2> DEFINE last == f[n] + l[n + 1]
             g == [i \in 0 .. n + 1 |-> IF i = n + 1 THEN last ELSE f[i]]
             h == [i \in 0 .. n + 1 |-> IF i = 0 THEN 0 ELSE g[i - 1] + l[i]]
  <2>2. \A i \in 0 .. n : f[i] = IF i = 0 THEN 0 ELSE f[i - 1] + l[i]
    BY <2>1, TotalsStep
  <2>3. ASSUME NEW i \in 0 .. n + 1
        PROVE  g[i] = h[i]
    <3>1. CASE i = n + 1
      <4>1. g[i] = last /\ h[i] = g[i - 1] + l[i] /\ g[i - 1] = f[n]
        BY <3>1
      <4> QED
        BY <3>1, <4>1
    <3>2. CASE i = 0
      BY <2>2, <3>2
    <3>3. CASE i \in 1 .. n
      <4>1. g[i] = f[i] /\ h[i] = g[i - 1] + l[i] /\ g[i - 1] = f[i - 1]
        BY <3>3
      <4>2. f[i] = f[i - 1] + l[i]
        BY <2>2, <3>3
      <4> QED
        BY <4>1, <4>2
    <3> QED
      BY <3>1, <3>2, <3>3
  <2>4. g = h
    BY <2>3
  <2> HIDE DEF g, last
  <2>5. TotalsUpTo(g, l, n + 1)
    BY <2>4 DEF TotalsUpTo
  <2>6. n + 1 \in 0 .. Len(l)
    BY <1>2
  <2> QED
    BY <2>5, <2>6
<1>3. \A n \in 0 .. Len(l) : n # Len(l) /\ n \in T => n + 1 \in T
  BY <1>2
<1> HIDE DEF T
<1>4. \A n \in 0 .. Len(l) : n \in T
  BY <1>1, <1>3, UpwardInduction
<1>5. Len(l) \in T
  BY <1>4
<1>6. \E f : TotalsUpTo(f, l, Len(l))
  BY <1>5 DEF T
<1> DEFINE total == CHOOSE f : f = [n \in 0 .. Len(l) |->
                      IF n = 0 THEN 0 ELSE f[n - 1] + l[n]]
<1>7. TotalsUpTo(total, l, Len(l))
  BY <1>6, Zenon DEF TotalsUpTo
<1>8. Total(l) = total[Len(l)]
  BY DEF Total
<1> HIDE DEF total
<1> QED
  BY <1>7, <1>8

LEMMA TotalNone == Total(<< >>) = 0
<1>1. PICK f : TotalsUpTo(f, << >>, Len(<< >>)) /\ Total(<< >>) = f[Len(<< >>)]
  BY Totals, Len(<< >>) = 0
<1>2. f[0] = 0
  BY <1>1, TotalsStep, Len(<< >>) = 0
<1> QED
  BY <1>1, <1>2

LEMMA TotalMore ==
  ASSUME NEW S, NEW l \in Seq(S), NEW x \in S
  PROVE  Total(Append(l, x)) = Total(l) + x
<1> DEFINE m == Append(l, x)
           n == Len(l)
<1>1. n \in Nat /\ Len(m) = n + 1 /\ m[n + 1] = x /\ \A i \in 1 .. n : m[i] = l[i]
  OBVIOUS
<1> HIDE DEF m
<1>2. PICK g : TotalsUpTo(g, m, n + 1) /\ Total(m) = g[n + 1]
  BY <1>1, Totals
<1>3. \A i \in 0 .. n + 1 : g[i] = IF i = 0 THEN 0 ELSE g[i - 1] + m[i]
  BY <1>1, <1>2, TotalsStep
<1>4. PICK f : TotalsUpTo(f, l, n) /\ Total(l) = f[n]
  BY <1>1, Totals
<1>5. \A i \in 0 .. n : f[i] = IF i = 0 THEN 0 ELSE f[i - 1] + l[i]
  BY <1>1, <1>4, TotalsStep
<1> DEFINE T == {k \in 0 .. n : f[k] = g[k]}
<1>6. 0 \in T
  BY <1>1, <1>3, <1>5
<1>7. ASSUME NEW k \in 0 .. n, k # n, k \in T PROVE k + 1 \in T
  <2>1. k + 1 \in 1 .. n /\ k + 1 \in 0 .. n + 1 /\ k + 1 \in 0 .. n /\ (k + 1) - 1 = k
    BY <1>1, <1>7
  <2>2. f[k + 1] = f[k] + l[k + 1] /\ g[k + 1] = g[k] + m[k + 1] /\ m[k + 1] = l[k + 1]
    BY <1>1, <1>3, <1>5, <2>1
  <2> QED
    BY <1>7, <2>1, <2>2
<1>8. \A k \in 0 .. n : k # n /\ k \in T => k + 1 \in T
  BY <1>7
<1>9. n \in T
  <2> HIDE DEF T
  <2>1. \A k \in 0 .. n : k \in T
    BY <1>1, <1>6, <1>8, UpwardInduction
  <2> QED
    BY <1>1, <2>1
<1>10. g[n + 1] = g[n] + m[n + 1]
  <2>1. n + 1 \in 0 .. n + 1 /\ n + 1 # 0 /\ (n + 1) - 1 = n
    BY <1>1
  <2> QED
    BY <1>3, <2>1
<1> QED
  BY <1>1, <1>2, <1>4, <1>9, <1>10 DEF m

LEMMA TotalType == \A l \in Seq(Nat) : Total(l) \in Nat
<1> DEFINE U == {l \in Seq(Nat) : Total(l) \in Nat}
<1>1. << >> \in U
  BY TotalNone
<1>2. ASSUME NEW l \in Seq(Nat), NEW x \in Nat, l \in U PROVE Append(l, x) \in U
  <2>1. Total(Append(l, x)) = Total(l) + x
    BY TotalMore
  <2> QED
    BY <1>2, <2>1
<1> HIDE DEF U
<1>3. \A l \in Seq(Nat) : l \in U
  BY <1>1, <1>2, SequenceInduction
<1> QED
  BY <1>3 DEF U

(* How Kept goes on. *)
LEMMA KeptNone == ASSUME NEW members PROVE Kept(<< >>, members) = << >>
<1>1. PICK f : KeepsUpTo(f, << >>, members, Len(<< >>)) /\ Kept(<< >>, members) = f[Len(<< >>)]
  BY KeptKeeps, Len(<< >>) = 0
<1>2. f[0] = << >>
  BY <1>1, KeepsStep, Len(<< >>) = 0
<1> QED
  BY <1>1, <1>2

LEMMA KeptMore ==
  ASSUME NEW S, NEW l \in Seq(S), NEW x \in S, NEW members
  PROVE  Kept(Append(l, x), members) =
           IF x \in members THEN Append(Kept(l, members), x) ELSE Kept(l, members)
<1> DEFINE m == Append(l, x)
           n == Len(l)
           Step(s, a) == IF a \in members THEN Append(s, a) ELSE s
<1>1. n \in Nat /\ Len(m) = n + 1 /\ m[n + 1] = x /\ \A i \in 1 .. n : m[i] = l[i]
  OBVIOUS
<1> HIDE DEF m
<1>2. PICK g : KeepsUpTo(g, m, members, n + 1) /\ Kept(m, members) = g[n + 1]
  BY <1>1, KeptKeeps
<1>3. g[0] = << >> /\ \A i \in 0 .. n + 1 : i # n + 1 => g[i + 1] = Step(g[i], m[i + 1])
  BY <1>1, <1>2, KeepsStep
<1>4. PICK f : KeepsUpTo(f, l, members, n) /\ Kept(l, members) = f[n]
  BY <1>1, KeptKeeps
<1>5. f[0] = << >> /\ \A i \in 0 .. n : i # n => f[i + 1] = Step(f[i], l[i + 1])
  BY <1>1, <1>4, KeepsStep
<1> HIDE DEF Step
<1> DEFINE T == {k \in 0 .. n : f[k] = g[k]}
<1>6. 0 \in T
  BY <1>1, <1>3, <1>5
<1>7. ASSUME NEW k \in 0 .. n, k # n, k \in T PROVE k + 1 \in T
  <2>1. k + 1 \in 1 .. n /\ k \in 0 .. n + 1 /\ k # n + 1 /\ k + 1 \in 0 .. n
    BY <1>1, <1>7
  <2>2. f[k + 1] = Step(f[k], l[k + 1]) /\ g[k + 1] = Step(g[k], m[k + 1]) /\ m[k + 1] = l[k + 1]
    BY <1>1, <1>3, <1>5, <1>7, <2>1
  <2> QED
    BY <1>7, <2>1, <2>2
<1>8. \A k \in 0 .. n : k # n /\ k \in T => k + 1 \in T
  BY <1>7
<1>9. n \in T
  <2> HIDE DEF T
  <2>1. \A k \in 0 .. n : k \in T
    BY <1>1, <1>6, <1>8, UpwardInduction
  <2> QED
    BY <1>1, <2>1
<1>10. g[n + 1] = Step(g[n], m[n + 1])
  <2>1. n \in 0 .. n + 1 /\ n # n + 1
    BY <1>1
  <2> QED
    BY <1>3, <2>1
<1> QED
  BY <1>1, <1>2, <1>4, <1>9, <1>10 DEF m, Step

-----------------------------------------------------------------------------
(* What two sequences have between them. *)
LEMMA ElementsOfConcat ==
  ASSUME NEW T, NEW a \in Seq(T), NEW b \in Seq(T)
  PROVE  /\ Elements(a \o b) = Elements(a) \cup Elements(b)
         /\ NoneTwice(a) /\ NoneTwice(b) /\ Elements(a) \cap Elements(b) = {}
              => NoneTwice(a \o b)
<1> DEFINE c == a \o b
<1>1. Len(a) \in Nat /\ Len(b) \in Nat
  OBVIOUS
<1>2. /\ Len(c) = Len(a) + Len(b)
      /\ \A i \in 1 .. Len(a) + Len(b) : c[i] = IF i <= Len(a) THEN a[i] ELSE b[i - Len(a)]
  BY ConcatProperties
<1> HIDE DEF c
<1>3. \A i \in 1 .. Len(a) : i \in 1 .. Len(c) /\ c[i] = a[i]
  BY <1>1, <1>2
<1>4. ASSUME NEW i \in 1 .. Len(b) PROVE i + Len(a) \in 1 .. Len(c) /\ c[i + Len(a)] = b[i]
  <2>1. i + Len(a) \in 1 .. Len(a) + Len(b) /\ ~(i + Len(a) <= Len(a)) /\ (i + Len(a)) - Len(a) = i
    BY <1>1
  <2> QED
    BY <1>2, <2>1
<1>5. ASSUME NEW i \in 1 .. Len(c)
      PROVE  \/ i \in 1 .. Len(a) /\ c[i] = a[i]
             \/ i - Len(a) \in 1 .. Len(b) /\ c[i] = b[i - Len(a)]
  BY <1>1, <1>2
<1>6. Elements(c) = Elements(a) \cup Elements(b)
  <2>1. ASSUME NEW x \in Elements(c) PROVE x \in Elements(a) \cup Elements(b)
    <3>1. PICK i \in 1 .. Len(c) : x = c[i]
      BY <2>1 DEF Elements
    <3> QED
      BY <1>5, <3>1 DEF Elements
  <2>2. ASSUME NEW x \in Elements(a) PROVE x \in Elements(c)
    BY <1>3 DEF Elements
  <2>3. ASSUME NEW x \in Elements(b) PROVE x \in Elements(c)
    <3>1. PICK i \in 1 .. Len(b) : x = b[i]
      BY <2>3 DEF Elements
    <3> QED
      BY <1>4, <3>1 DEF Elements
  <2> QED
    BY <2>1, <2>2, <2>3
<1>7. ASSUME NoneTwice(a), NoneTwice(b), Elements(a) \cap Elements(b) = {},
             NEW i \in 1 .. Len(c), NEW j \in 1 .. Len(c), c[i] = c[j]
      PROVE  i = j
  <2>1. \A k \in 1 .. Len(a), l \in 1 .. Len(b) : a[k] # b[l]
    BY <1>7 DEF Elements
  <2>2. CASE i \in 1 .. Len(a) /\ c[i] = a[i]
    <3>1. j \in 1 .. Len(a) /\ c[j] = a[j]
      BY <1>5, <1>7, <2>1, <2>2
    <3> QED
      BY <1>7, <2>2, <3>1 DEF NoneTwice
  <2>3. CASE i - Len(a) \in 1 .. Len(b) /\ c[i] = b[i - Len(a)]
    <3>1. j - Len(a) \in 1 .. Len(b) /\ c[j] = b[j - Len(a)]
      BY <1>5, <1>7, <2>1, <2>3
    <3>2. i - Len(a) = j - Len(a)
      BY <1>7, <2>3, <3>1 DEF NoneTwice
    <3> QED
      BY <1>1, <3>2
  <2> QED
    BY <1>5, <2>2, <2>3
<1> QED
  BY <1>6, <1>7 DEF NoneTwice, c

(* A sequence without repetitions is as long as it has elements. *)
LEMMA LengthIsCardinality ==
  ASSUME NEW T, NEW s \in Seq(T), NoneTwice(s)
  PROVE  IsFiniteSet(Elements(s)) /\ Cardinality(Elements(s)) = Len(s)
<1>1. Len(s) \in Nat /\ s \in [1 .. Len(s) -> Elements(s)]
  BY DEF Elements
<1>2. s \in Bijection(1 .. Len(s), Elements(s))
  BY <1>1 DEF Bijection, Injection, Surjection, Elements, NoneTwice, IsInjective
<1>3. IsFiniteSet(1 .. Len(s)) /\ Cardinality(1 .. Len(s)) = Len(s)
  BY <1>1, FS_Interval
<1>4. ExistsBijection(1 .. Len(s), Elements(s))
  BY <1>2 DEF ExistsBijection
<1> QED
  BY <1>3, <1>4, FS_Bijection

(* Lists that have nothing in common, one for each member of a sequence:   *)
(* what they hold together, and how long they are.                         *)
LEMMA ListsTogether ==
  ASSUME NEW S, NEW T, NEW h \in [S -> Seq(T)],
         \A s \in S : NoneTwice(h[s]),
         \A s, r \in S : s # r => Elements(h[s]) \cap Elements(h[r]) = {}
  PROVE  \A ss \in Seq(S) :
           /\ FlattenSeq(MapOver(h, ss)) \in Seq(T)
           /\ \A x : x \in Elements(FlattenSeq(MapOver(h, ss)))
                       <=> \E s \in Elements(ss) : x \in Elements(h[s])
           /\ NoneTwice(ss) => NoneTwice(FlattenSeq(MapOver(h, ss)))
<1> DEFINE F(ss) == FlattenSeq(MapOver(h, ss))
           U == {ss \in Seq(S) :
                   /\ \A x : x \in Elements(F(ss)) <=> \E s \in Elements(ss) : x \in Elements(h[s])
                   /\ NoneTwice(ss) => NoneTwice(F(ss))}
<1>1. MapsOver(h, S, Seq(T))
  BY MapProperties
<1>2. /\ MapOver(h, << >>) = << >>
      /\ \A s \in Seq(S) : /\ MapOver(h, s) \in Seq(Seq(T))
                           /\ \A x \in S : MapOver(h, Append(s, x)) = Append(MapOver(h, s), h[x])
  BY <1>1 DEF MapsOver
<1>3. \A ss \in Seq(S) : F(ss) \in Seq(T)
  BY <1>2, FlattenType
<1>4. \A ss \in Seq(S), x \in S : F(Append(ss, x)) = F(ss) \o h[x]
  <2> TAKE ss \in Seq(S), x \in S
  <2>1. h[x] \in Seq(T) /\ MapOver(h, ss) \in Seq(Seq(T))
    BY <1>2
  <2>2. FlattenSeq(Append(MapOver(h, ss), h[x])) = FlattenSeq(MapOver(h, ss)) \o h[x]
    BY <1>3, <2>1, FlattenAppend
  <2> QED
    BY <1>2, <2>2
<1>5. F(<< >>) = << >>
  BY <1>2, FlattenNone
<1> HIDE DEF F
<1>6. << >> \in U
  <2>1. Elements(<< >>) = {} /\ NoneTwice(<< >>) /\ << >> \in Seq(S)
    BY EmptySeq DEF Elements, NoneTwice
  <2> QED
    BY <1>5, <2>1
<1>7. ASSUME NEW ss \in Seq(S), NEW x \in S, ss \in U PROVE Append(ss, x) \in U
  <2> DEFINE a == Append(ss, x)
  <2>1. /\ a \in Seq(S) /\ Len(a) = Len(ss) + 1 /\ Len(ss) \in Nat
        /\ \A i \in 1 .. Len(ss) : a[i] = ss[i]
        /\ a[Len(ss) + 1] = x
        /\ Elements(a) = Elements(ss) \cup {x}
    BY AppendedElements
  <2>2. F(a) = F(ss) \o h[x] /\ F(ss) \in Seq(T) /\ h[x] \in Seq(T)
    BY <1>3, <1>4
  <2> HIDE DEF a
  <2>3. Elements(F(a)) = Elements(F(ss)) \cup Elements(h[x])
    BY <2>2, ElementsOfConcat
  <2>4. \A y : y \in Elements(F(a)) <=> \E s \in Elements(a) : y \in Elements(h[s])
    BY <1>7, <2>1, <2>3
  <2>5. ASSUME NoneTwice(a) PROVE NoneTwice(F(a))
    <3>1. NoneTwice(ss) /\ x \notin Elements(ss)
      BY <2>1, <2>5 DEF NoneTwice, Elements
    <3>2. Elements(ss) \subseteq S
      BY DEF Elements
    <3>3. Elements(F(ss)) \cap Elements(h[x]) = {}
      <4> SUFFICES ASSUME NEW y \in Elements(F(ss)), y \in Elements(h[x]) PROVE FALSE
        OBVIOUS
      <4>1. PICK s \in Elements(ss) : y \in Elements(h[s])
        BY <1>7
      <4> QED
        BY <3>1, <3>2, <4>1
    <3> QED
      BY <1>7, <2>2, <3>1, <3>3, ElementsOfConcat
  <2> QED
    BY <2>1, <2>4, <2>5 DEF a
<1>8. \A ss \in Seq(S) : ss \in U
  <2> HIDE DEF U
  <2> QED
    BY <1>6, <1>7, SequenceInduction
<1> QED
  BY <1>3, <1>8 DEF F

LEMMA LengthTogether ==
  ASSUME NEW S, NEW T, NEW h \in [S -> Seq(T)], NEW c \in [S -> Nat],
         \A s \in S : c[s] = Len(h[s])
  PROVE  \A ss \in Seq(S) : Total(MapOver(c, ss)) = Len(FlattenSeq(MapOver(h, ss)))
<1> DEFINE F(ss) == FlattenSeq(MapOver(h, ss))
           U == {ss \in Seq(S) : Total(MapOver(c, ss)) = Len(F(ss))}
<1>1. MapsOver(h, S, Seq(T)) /\ MapsOver(c, S, Nat)
  BY MapProperties
<1>2. /\ MapOver(h, << >>) = << >> /\ MapOver(c, << >>) = << >>
      /\ \A s \in Seq(S) : /\ MapOver(h, s) \in Seq(Seq(T)) /\ MapOver(c, s) \in Seq(Nat)
                           /\ \A x \in S : /\ MapOver(h, Append(s, x)) = Append(MapOver(h, s), h[x])
                                           /\ MapOver(c, Append(s, x)) = Append(MapOver(c, s), c[x])
  BY <1>1 DEF MapsOver
<1>3. \A ss \in Seq(S) : F(ss) \in Seq(T)
  BY <1>2, FlattenType
<1>4. \A ss \in Seq(S), x \in S : F(Append(ss, x)) = F(ss) \o h[x]
  <2> TAKE ss \in Seq(S), x \in S
  <2>1. h[x] \in Seq(T) /\ MapOver(h, ss) \in Seq(Seq(T))
    BY <1>2
  <2>2. FlattenSeq(Append(MapOver(h, ss), h[x])) = FlattenSeq(MapOver(h, ss)) \o h[x]
    BY <1>3, <2>1, FlattenAppend
  <2> QED
    BY <1>2, <2>2
<1>5. F(<< >>) = << >>
  BY <1>2, FlattenNone
<1> HIDE DEF F
<1>6. << >> \in U
  BY <1>2, <1>5, TotalNone, EmptySeq
<1>7. ASSUME NEW ss \in Seq(S), NEW x \in S, ss \in U PROVE Append(ss, x) \in U
  <2>1. Append(ss, x) \in Seq(S)
    BY AppendProperties
  <2>2. Len(F(ss) \o h[x]) = Len(F(ss)) + Len(h[x])
    <3>1. F(ss) \in Seq(T) /\ h[x] \in Seq(T)
      BY <1>3
    <3> QED
      BY <3>1
  <2>3. Total(Append(MapOver(c, ss), c[x])) = Total(MapOver(c, ss)) + c[x]
    <3>1. MapOver(c, ss) \in Seq(Nat) /\ c[x] \in Nat
      BY <1>2
    <3> QED
      BY <3>1, TotalMore
  <2> QED
    BY <1>2, <1>4, <1>7, <2>1, <2>2, <2>3
<1>8. \A ss \in Seq(S) : ss \in U
  <2> HIDE DEF U
  <2> QED
    BY <1>6, <1>7, SequenceInduction
<1> QED
  BY <1>8 DEF F

(* Lists and numbers that are nothing can be left out. *)
LEMMA LeavingOutLists ==
  ASSUME NEW S, NEW T, NEW h \in [S -> Seq(T)], NEW members,
         \A s \in S : s \notin members => h[s] = << >>
  PROVE  \A ss \in Seq(S) :
           FlattenSeq(MapOver(h, Kept(ss, members))) = FlattenSeq(MapOver(h, ss))
<1> DEFINE F(ss) == FlattenSeq(MapOver(h, ss))
           U == {ss \in Seq(S) : F(Kept(ss, members)) = F(ss)}
<1>1. MapsOver(h, S, Seq(T))
  BY MapProperties
<1>2. \A s \in Seq(S) : /\ MapOver(h, s) \in Seq(Seq(T))
                        /\ \A x \in S : MapOver(h, Append(s, x)) = Append(MapOver(h, s), h[x])
  BY <1>1 DEF MapsOver
<1>3. \A ss \in Seq(S) : F(ss) \in Seq(T)
  BY <1>2, FlattenType
<1>4. \A ss \in Seq(S), x \in S : F(Append(ss, x)) = F(ss) \o h[x]
  <2> TAKE ss \in Seq(S), x \in S
  <2>1. h[x] \in Seq(T) /\ MapOver(h, ss) \in Seq(Seq(T))
    BY <1>2
  <2>2. FlattenSeq(Append(MapOver(h, ss), h[x])) = FlattenSeq(MapOver(h, ss)) \o h[x]
    BY <1>3, <2>1, FlattenAppend
  <2> QED
    BY <1>2, <2>2
<1>5. \A ss \in Seq(S) : Kept(ss, members) \in Seq(S)
  BY KeptFacts
<1> HIDE DEF F
<1>6. << >> \in U
  BY KeptNone, EmptySeq
<1>7. ASSUME NEW ss \in Seq(S), NEW x \in S, ss \in U PROVE Append(ss, x) \in U
  <2>1. Append(ss, x) \in Seq(S)
    BY AppendProperties
  <2>2. Kept(Append(ss, x), members) =
          IF x \in members THEN Append(Kept(ss, members), x) ELSE Kept(ss, members)
    BY KeptMore
  <2>3. CASE x \in members
    BY <1>4, <1>5, <1>7, <2>1, <2>2, <2>3
  <2>4. CASE x \notin members
    <3>1. F(ss) \o << >> = F(ss)
      BY <1>3, ConcatEmptySeq
    <3> QED
      BY <1>4, <1>7, <2>1, <2>2, <2>4, <3>1
  <2> QED
    BY <2>3, <2>4
<1>8. \A ss \in Seq(S) : ss \in U
  <2> HIDE DEF U
  <2> QED
    BY <1>6, <1>7, SequenceInduction
<1> QED
  BY <1>8 DEF F

LEMMA LeavingOutNumbers ==
  ASSUME NEW S, NEW c \in [S -> Nat], NEW members,
         \A s \in S : s \notin members => c[s] = 0
  PROVE  \A ss \in Seq(S) : Total(MapOver(c, Kept(ss, members))) = Total(MapOver(c, ss))
<1> DEFINE F(ss) == Total(MapOver(c, ss))
           U == {ss \in Seq(S) : F(Kept(ss, members)) = F(ss)}
<1>1. MapsOver(c, S, Nat)
  BY MapProperties
<1>2. \A s \in Seq(S) : /\ MapOver(c, s) \in Seq(Nat)
                        /\ \A x \in S : MapOver(c, Append(s, x)) = Append(MapOver(c, s), c[x])
  BY <1>1 DEF MapsOver
<1>3. \A ss \in Seq(S) : F(ss) \in Nat
  BY <1>2, TotalType
<1>4. \A ss \in Seq(S), x \in S : F(Append(ss, x)) = F(ss) + c[x]
  <2> TAKE ss \in Seq(S), x \in S
  <2>1. c[x] \in Nat /\ MapOver(c, ss) \in Seq(Nat)
    BY <1>2
  <2>2. Total(Append(MapOver(c, ss), c[x])) = Total(MapOver(c, ss)) + c[x]
    BY <2>1, TotalMore
  <2> QED
    BY <1>2, <2>2
<1>5. \A ss \in Seq(S) : Kept(ss, members) \in Seq(S)
  BY KeptFacts
<1> HIDE DEF F
<1>6. << >> \in U
  BY KeptNone, EmptySeq
<1>7. ASSUME NEW ss \in Seq(S), NEW x \in S, ss \in U PROVE Append(ss, x) \in U
  <2>1. Append(ss, x) \in Seq(S)
    BY AppendProperties
  <2>2. Kept(Append(ss, x), members) =
          IF x \in members THEN Append(Kept(ss, members), x) ELSE Kept(ss, members)
    BY KeptMore
  <2>3. CASE x \in members
    BY <1>4, <1>5, <1>7, <2>1, <2>2, <2>3
  <2>4. CASE x \notin members
    <3>1. F(ss) + 0 = F(ss)
      BY <1>3
    <3> QED
      BY <1>4, <1>7, <2>1, <2>2, <2>4, <3>1
  <2> QED
    BY <2>3, <2>4
<1>8. \A ss \in Seq(S) : ss \in U
  <2> HIDE DEF U
  <2> QED
    BY <1>6, <1>7, SequenceInduction
<1> QED
  BY <1>8 DEF F

-----------------------------------------------------------------------------
(***************************************************************************)
(* What the reports tell of a run (Reports): the lists of suites and tests *)
(* and the numbers, as maps over the registered suites.                    *)
(***************************************************************************)

(* The suites and the tests of each suite are in some order, each once.    *)
InOrder == /\ suite_indices \in Orders(Len(test_suites))
           /\ \A s \in Suite : test_indices[s] \in Orders(Len(TestsOf(s)))

LEMMA ShownTests ==
  ASSUME InOrder, NEW s \in Suite
  PROVE  /\ Shown(s) \in Seq(Test) /\ NoneTwice(Shown(s))
         /\ Len(Shown(s)) = Len(TestsOf(s)) /\ Len(TestsOf(s)) \in Nat
         /\ Elements(Shown(s)) = {t \in Test : SuiteOf[t] = s}
         /\ Elements(TestsOf(s)) = {t \in Test : SuiteOf[t] = s}
<1> DEFINE n == Len(TestsOf(s))
<1>1. /\ TestsOf(s) \in Seq(Test) /\ n \in Nat
      /\ \A t : t \in Elements(TestsOf(s)) <=> Has(s, t)
  BY TestsOfSuite
<1>2. /\ \A k \in 1 .. n : Has(s, TestAt(s, k))
      /\ \A k, l \in 1 .. n : TestAt(s, k) = TestAt(s, l) => k = l
      /\ \A t : Has(s, t) => \E k \in 1 .. n : TestAt(s, k) = t
  BY PositionsStandForAll DEF InOrder
<1>3. DOMAIN TestsOf(s) = 1 .. n
  BY <1>1
<1> DEFINE f == [j \in 1 .. n |-> TestAt(s, j)]
<1>4. Shown(s) = f
  BY <1>3 DEF Shown
<1> HIDE DEF n
<1>5. \A j \in 1 .. n : TestAt(s, j) \in Test
  BY <1>2 DEF Has
<1>6. f \in [1 .. n -> Test]
  BY <1>5
<1>7. f \in Seq(Test) /\ Len(f) = n
  BY <1>1, <1>6
<1>8. \A j \in 1 .. n : f[j] = TestAt(s, j)
  OBVIOUS
<1> HIDE DEF f
<1>9. NoneTwice(f)
  BY <1>2, <1>7, <1>8 DEF NoneTwice
<1>10. \A t : t \in Elements(f) <=> Has(s, t)
  BY <1>2, <1>7, <1>8 DEF Elements
<1> QED
  BY <1>1, <1>4, <1>7, <1>9, <1>10 DEF Has, n

(* The tests of a suite that are members of a set, as they are shown.      *)
ShownOf(members) == [s \in Suite |-> Kept(Shown(s), members)]

LEMMA ShownOfSuite ==
  ASSUME InOrder, NEW members
  PROVE  /\ ShownOf(members) \in [Suite -> Seq(Test)]
         /\ \A s \in Suite :
              /\ ShownOf(members)[s] = Kept(Shown(s), members)
              /\ NoneTwice(ShownOf(members)[s])
              /\ Elements(ShownOf(members)[s]) = {t \in Test : SuiteOf[t] = s} \cap members
              /\ Len(ShownOf(members)[s]) \in Nat
              /\ CountIf(s, members) = Len(ShownOf(members)[s])
<1>1. ASSUME NEW s \in Suite
      PROVE  /\ Kept(Shown(s), members) \in Seq(Test)
             /\ NoneTwice(Kept(Shown(s), members))
             /\ Elements(Kept(Shown(s), members)) = {t \in Test : SuiteOf[t] = s} \cap members
             /\ Len(Kept(Shown(s), members)) \in Nat
             /\ CountIf(s, members) = Len(Kept(Shown(s), members))
  <2> DEFINE k == Kept(Shown(s), members)
  <2>1. /\ Shown(s) \in Seq(Test) /\ NoneTwice(Shown(s))
        /\ Elements(Shown(s)) = {t \in Test : SuiteOf[t] = s}
        /\ Elements(TestsOf(s)) = {t \in Test : SuiteOf[t] = s}
    BY ShownTests
  <2>2. k \in Seq(Test) /\ NoneTwice(k) /\ Elements(k) = {t \in Test : SuiteOf[t] = s} \cap members
    BY <2>1, KeptFacts
  <2>3. Range(TestsOf(s)) = {t \in Test : SuiteOf[t] = s}
    BY <2>1, TestsOfSuite, ElementsAreRange
  <2> HIDE DEF k
  <2>4. Cardinality(Elements(k)) = Len(k)
    BY <2>2, LengthIsCardinality
  <2>5. Len(k) \in Nat
    BY <2>2
  <2> QED
    BY <2>2, <2>3, <2>4, <2>5 DEF CountIf, k
<1> QED
  BY <1>1 DEF ShownOf

(* The tests that are members of a set, suite by suite, and their number.  *)
LEMMA ListedBySuite ==
  ASSUME InOrder, NEW members, members \subseteq Test
  PROVE  /\ ListBySuite(members) = FlattenSeq(MapOver(ShownOf(members), test_suites))
         /\ ListBySuite(members) \in Seq(Test)
         /\ NoneTwice(ListBySuite(members))
         /\ Elements(ListBySuite(members)) = members
         /\ IsFiniteSet(members)
         /\ Len(ListBySuite(members)) = Cardinality(members)
         /\ Cardinality(members) \in Nat
<1> DEFINE h == ShownOf(members)
           l == ListBySuite(members)
<1>1. test_suites \in Seq(Suite) /\ NoneTwice(test_suites) /\ Elements(test_suites) = Suite
  BY SuitesOnce
<1>2. /\ h \in [Suite -> Seq(Test)]
      /\ \A s \in Suite : /\ h[s] = Kept(Shown(s), members)
                          /\ NoneTwice(h[s])
                          /\ Elements(h[s]) = {t \in Test : SuiteOf[t] = s} \cap members
  BY ShownOfSuite
<1>3. l = FlattenSeq(MapOver(h, test_suites))
  <2>1. \A i \in DOMAIN test_suites : test_suites[i] \in Suite
    BY <1>1
  <2> QED
    BY <1>2, <2>1 DEF ListBySuite, MapOver
<1> HIDE DEF h
<1>4. \A s, r \in Suite : s # r => Elements(h[s]) \cap Elements(h[r]) = {}
  BY <1>2
<1>5. /\ l \in Seq(Test) /\ NoneTwice(l)
      /\ \A x : x \in Elements(l) <=> \E s \in Elements(test_suites) : x \in Elements(h[s])
  BY <1>1, <1>2, <1>3, <1>4, ListsTogether
<1>6. \A t \in Test : SuiteOf[t] \in Suite
  BY DEF Suite
<1>7. Elements(l) = members
  <2>1. \A x : x \in Elements(l) <=> \E s \in Suite : x \in Elements(h[s])
    BY <1>1, <1>5
  <2>2. \A x : (\E s \in Suite : x \in Elements(h[s])) <=> x \in members
    BY <1>2, <1>6
  <2> QED
    BY <2>1, <2>2
<1> HIDE DEF l
<1>8. IsFiniteSet(Elements(l)) /\ Cardinality(Elements(l)) = Len(l)
  BY <1>5, LengthIsCardinality
<1>9. Len(l) \in Nat
  BY <1>5
<1> QED
  BY <1>3, <1>5, <1>7, <1>8, <1>9 DEF h, l

Counts(members) == [s \in Suite |-> CountIf(s, members)]

LEMMA SumsAreNumbers ==
  ASSUME InOrder, NEW members, members \subseteq Test
  PROVE  /\ Counts(members) \in [Suite -> Nat]
         /\ SumOverTestSuiteList(Counts(members)) = Total(MapOver(Counts(members), test_suites))
         /\ SumOverTestSuiteList(Counts(members)) = Cardinality(members)
<1> DEFINE h == ShownOf(members)
           c == Counts(members)
<1>1. /\ h \in [Suite -> Seq(Test)]
      /\ \A s \in Suite : Len(h[s]) \in Nat /\ c[s] = Len(h[s])
  BY ShownOfSuite DEF Counts
<1>2. c \in [Suite -> Nat]
  <2>1. \A s \in Suite : CountIf(s, members) \in Nat
    BY ShownOfSuite
  <2> QED
    BY <2>1 DEF Counts
<1>3. ListBySuite(members) = FlattenSeq(MapOver(h, test_suites))
      /\ Len(ListBySuite(members)) = Cardinality(members)
  BY ListedBySuite
<1>4. SumOverTestSuiteList(c) = Total(MapOver(c, test_suites))
  BY DEF SumOverTestSuiteList, MapOver
<1> HIDE DEF h, c
<1>5. Total(MapOver(c, test_suites)) = Len(FlattenSeq(MapOver(h, test_suites)))
  BY <1>1, <1>2, SuitesOnce, LengthTogether
<1> QED
  BY <1>2, <1>3, <1>4, <1>5 DEF h, c

Listable == {t \in Test : TestReportable(t)}
RunPassed == {t \in Test : TestPassed(t)}
RunSkipped == {t \in Test : TestSkipped(t)}
RunFailed == {t \in Test : TestFailed(t)}

(* The test case of a test that is reported.                               *)
CaseOf(t) ==
  IF flags.list_tests THEN [name |-> t]
  ELSE [name |-> t, status |-> StatusOf(t), result |-> ResultOf(t),
        failures |-> FailedParts(t)]

Case == [t \in Test |-> CaseOf(t)]

LEMMA CountsAre ==
  /\ reportable_test_count = Counts(Listable)
  /\ successful_test_count = Counts(RunPassed)
  /\ skipped_test_count = Counts(RunSkipped)
  /\ failed_test_count = Counts(RunFailed)
  /\ test_to_run_count = Counts({t \in Test : ShouldRunTest(t)})
  /\ reportable_disabled_test_count = Counts({t \in Test : TestReportableDisabled(t)})
BY DEF reportable_test_count, successful_test_count, skipped_test_count, failed_test_count,
       test_to_run_count, reportable_disabled_test_count, Counts, Listable, RunPassed,
       RunSkipped, RunFailed

LEMMA ReportedTestsAre ==
  ASSUME NEW s \in Suite
  PROVE  ReportedTests(s) = ShownOf(Listable)[s]
BY DEF ReportedTests, ShownOf, Listable

(* The test cases of a suite are those of its reported tests.              *)
LEMMA XmlTestsAre ==
  ASSUME InOrder, NEW s \in Suite
  PROVE  /\ ReportedTests(s) \in Seq(Test)
         /\ XmlTests(s) = MapOver(Case, ReportedTests(s))
         /\ Len(XmlTests(s)) = reportable_test_count[s]
<1> DEFINE shown == ReportedTests(s)
           S == {Case[t] : t \in Test}
<1>1. /\ shown \in Seq(Test)
      /\ Elements(shown) \subseteq Listable
      /\ Len(shown) = CountIf(s, Listable)
  BY ShownOfSuite, ReportedTestsAre
<1>2. Case \in [Test -> S]
  BY DEF Case
<1> DEFINE cases == MapOver(Case, shown)
<1>3. /\ cases \in Seq(S) /\ Len(cases) = Len(shown)
      /\ \A j \in 1 .. Len(shown) : cases[j] = Case[shown[j]]
  <2>1. MapsOver(Case, Test, S)
    BY <1>2, MapProperties
  <2> QED
    BY <1>1, <2>1 DEF MapsOver
<1>4. DOMAIN cases = DOMAIN shown /\ DOMAIN shown = 1 .. Len(shown)
  BY <1>1 DEF MapOver
<1>5. ASSUME NEW j \in DOMAIN shown
      PROVE  OutputXmlTestInfo(shown[j]) = <<cases[j]>>
  <2>1. shown[j] \in Listable /\ shown[j] \in Test
    BY <1>1, <1>4, <1>5 DEF Elements
  <2>2. ~ InAnotherShard(flags, shown[j])
    BY <2>1 DEF Listable, TestReportable, IsReportable
  <2>3. OutputXmlTestInfo(shown[j]) = <<Case[shown[j]]>>
    <3> HIDE DEF shown
    <3> QED
      BY <2>1, <2>2 DEF OutputXmlTestInfo, Case, CaseOf
  <2> QED
    BY <1>3, <1>4, <2>3
<1>6. [j \in DOMAIN shown |-> OutputXmlTestInfo(shown[j])] = [j \in DOMAIN cases |-> <<cases[j]>>]
  BY <1>4, <1>5
<1>7. FlattenSeq([j \in DOMAIN cases |-> <<cases[j]>>]) = cases
  <2> HIDE DEF cases, S
  <2> QED
    BY <1>3, FlattenSingles
<1>8. XmlTests(s) = cases
  BY <1>6, <1>7 DEF XmlTests
<1>9. reportable_test_count[s] = CountIf(s, Listable)
  BY CountsAre DEF Counts
<1> QED
  BY <1>1, <1>3, <1>8, <1>9

(* The numbers and the test cases of the suites of a report.               *)
LEMMA XmlSuitesAre ==
  ASSUME InOrder, NEW suites \in Seq(Suite)
  PROVE  /\ DOMAIN XmlSuites(suites) = DOMAIN suites
         /\ \A i \in DOMAIN suites :
              /\ suites[i] \in Suite
              /\ XmlSuites(suites)[i].name = suites[i]
              /\ XmlSuites(suites)[i].tests = reportable_test_count[suites[i]]
              /\ XmlSuites(suites)[i].testcases = XmlTests(suites[i])
         /\ Field(XmlSuites(suites), "tests") = MapOver(Counts(Listable), suites)
         /\ ~ flags.list_tests =>
              Field(XmlSuites(suites), "failures") = MapOver(Counts(RunFailed), suites)
         /\ FlattenSeq(Field(XmlSuites(suites), "testcases"))
              = MapOver(Case, FlattenSeq(MapOver(ShownOf(Listable), suites)))
<1> DEFINE x == XmlSuites(suites)
           h == ShownOf(Listable)
           l == MapOver(h, suites)
           S == {Case[t] : t \in Test}
<1>1. DOMAIN x = DOMAIN suites /\ \A i \in DOMAIN suites : suites[i] \in Suite
  BY DEF XmlSuites
<1>2. \A i \in DOMAIN suites : x[i] = PrintXmlTestSuite(suites[i])
  BY DEF XmlSuites
<1>3. ASSUME NEW s \in Suite
      PROVE  /\ PrintXmlTestSuite(s).name = s
             /\ PrintXmlTestSuite(s).tests = reportable_test_count[s]
             /\ PrintXmlTestSuite(s).testcases = XmlTests(s)
             /\ ~ flags.list_tests => PrintXmlTestSuite(s).failures = failed_test_count[s]
  <2>1. CASE flags.list_tests
    BY <2>1 DEF PrintXmlTestSuite
  <2>2. CASE ~ flags.list_tests
    BY <2>2 DEF PrintXmlTestSuite
  <2> QED
    BY <2>1, <2>2
<1> HIDE DEF x
<1>4. Field(x, "tests") = MapOver(reportable_test_count, suites)
  BY <1>1, <1>2, <1>3 DEF Field, MapOver
<1>5. ~ flags.list_tests => Field(x, "failures") = MapOver(failed_test_count, suites)
  BY <1>1, <1>2, <1>3 DEF Field, MapOver
<1>6. h \in [Suite -> Seq(Test)] /\ \A s \in Suite : h[s] = ReportedTests(s)
  BY ShownOfSuite, ReportedTestsAre
<1> HIDE DEF h, S
<1>7. l \in Seq(Seq(Test)) /\ DOMAIN l = DOMAIN suites
      /\ \A i \in DOMAIN suites : l[i] = ReportedTests(suites[i])
  <2>1. MapsOver(h, Suite, Seq(Test))
    BY <1>6, MapProperties
  <2>2. l \in Seq(Seq(Test))
    BY <2>1 DEF MapsOver
  <2> QED
    BY <1>1, <1>6, <2>2 DEF MapOver
<1>8. Field(x, "testcases") = [i \in DOMAIN l |-> MapOver(Case, l[i])]
  <2>1. Field(x, "testcases") = [i \in DOMAIN suites |-> XmlTests(suites[i])]
    BY <1>1, <1>2, <1>3 DEF Field
  <2>2. \A i \in DOMAIN suites : XmlTests(suites[i]) = MapOver(Case, l[i])
    BY <1>1, <1>7, XmlTestsAre
  <2>3. DOMAIN l = DOMAIN suites
    BY <1>7
  <2> HIDE DEF l
  <2> QED
    BY <2>1, <2>2, <2>3
<1>9. Case \in [Test -> S]
  BY DEF Case, S
<1> HIDE DEF l
<1>10. MapOver(Case, FlattenSeq(l)) = FlattenSeq([i \in DOMAIN l |-> MapOver(Case, l[i])])
  <2>1. l \in Seq(Seq(Test))
    BY <1>7
  <2>2. MapsAcross(Case, Test, S)
    BY ONLY <1>9, MapAcross
  <2> QED
    BY <2>1, <2>2 DEF MapsAcross, MapEach
<1>11. FlattenSeq(Field(x, "testcases")) = MapOver(Case, FlattenSeq(l))
  BY <1>8, <1>10
<1>12. \A i \in DOMAIN suites :
         /\ x[i].name = suites[i]
         /\ x[i].tests = reportable_test_count[suites[i]]
         /\ x[i].testcases = XmlTests(suites[i])
  BY <1>1, <1>2, <1>3
<1> QED
  BY <1>1, <1>4, <1>5, <1>11, <1>12, CountsAre DEF h, l, x

(* Leaving out the suites without a reported test leaves out nothing.      *)
LEMMA ShownSuites ==
  ASSUME InOrder, NEW suites, suites \in {ReportedSuites, test_suites}
  PROVE  /\ suites \in Seq(Suite)
         /\ FlattenSeq(MapOver(ShownOf(Listable), suites)) = ListBySuite(Listable)
         /\ \A members \in SUBSET Listable :
              Total(MapOver(Counts(members), suites)) = Cardinality(members)
<1> DEFINE some == {s \in Suite : reportable_test_count[s] > 0}
           h == ShownOf(Listable)
<1>1. /\ test_suites \in Seq(Suite) /\ ReportedSuites = Kept(test_suites, some)
      /\ ReportedSuites \in Seq(Suite)
  BY SuitesOnce, KeptFacts DEF ReportedSuites
<1>2. Listable \subseteq Test
  BY DEF Listable
<1>3. /\ h \in [Suite -> Seq(Test)]
      /\ \A s \in Suite : Len(h[s]) \in Nat /\ reportable_test_count[s] = Len(h[s])
      /\ \A s \in Suite : Elements(h[s]) = {t \in Test : SuiteOf[t] = s} \cap Listable
  <2>1. \A s \in Suite : reportable_test_count[s] = CountIf(s, Listable)
    BY CountsAre DEF Counts
  <2> QED
    BY <2>1, ShownOfSuite
<1>4. ListBySuite(Listable) = FlattenSeq(MapOver(h, test_suites))
  BY <1>2, ListedBySuite
<1> HIDE DEF h
<1>5. \A s \in Suite : s \notin some => h[s] = << >>
  <2> TAKE s \in Suite
  <2>1. h[s] \in Seq(Test)
    BY <1>3
  <2>2. s \notin some => Len(h[s]) = 0
    BY <1>3
  <2> QED
    BY <2>1, <2>2, EmptySeq
<1>6. FlattenSeq(MapOver(h, Kept(test_suites, some))) = FlattenSeq(MapOver(h, test_suites))
  <2> HIDE DEF some
  <2> QED
    <3>1. h \in [Suite -> Seq(Test)] /\ test_suites \in Seq(Suite)
      BY <1>1, <1>3
    <3> QED
      BY ONLY <1>5, <3>1, LeavingOutLists
<1>7. ASSUME NEW members \in SUBSET Listable
      PROVE  Total(MapOver(Counts(members), suites)) = Cardinality(members)
  <2> DEFINE c == Counts(members)
  <2>1. /\ c \in [Suite -> Nat]
        /\ Total(MapOver(c, test_suites)) = Cardinality(members)
    BY <1>2, SumsAreNumbers
  <2>2. \A s \in Suite : s \notin some => c[s] = 0
    <3> TAKE s \in Suite
    <3> HAVE s \notin some
    <3>1. Elements(h[s]) = {}
      <4>1. h[s] = << >>
        BY <1>5
      <4> QED
        BY <4>1 DEF Elements
    <3>2. {t \in Test : SuiteOf[t] = s} \cap members = {}
      BY <1>3, <3>1
    <3>3. Range(TestsOf(s)) = {t \in Test : SuiteOf[t] = s}
      <4>1. TestsOf(s) \in Seq(Test) /\ Elements(TestsOf(s)) = {t \in Test : SuiteOf[t] = s}
        BY ShownTests, TestsOfSuite
      <4> QED
        BY <4>1, ElementsAreRange
    <3>4. CountIf(s, members) = Cardinality({})
      BY <3>2, <3>3 DEF CountIf
    <3> QED
      BY <3>4, FS_EmptySet DEF Counts
  <2> HIDE DEF c, some
  <2>3. Total(MapOver(c, Kept(test_suites, some))) = Total(MapOver(c, test_suites))
    BY <1>1, <2>1, <2>2, LeavingOutNumbers
  <2> QED
    BY <1>1, <2>1, <2>3 DEF c
<1> QED
  BY <1>1, <1>4, <1>6, <1>7 DEF h

(* What a report says of the suites it shows.                              *)
LEMMA XmlSays ==
  ASSUME InOrder, NEW suites, suites \in {ReportedSuites, test_suites}
  PROVE  /\ FlattenSeq(Field(XmlSuites(suites), "testcases")) = MapOver(Case, ListBySuite(Listable))
         /\ Total(Field(XmlSuites(suites), "tests")) = Cardinality(Listable)
         /\ RunFailed \subseteq Listable /\ ~ flags.list_tests =>
              Total(Field(XmlSuites(suites), "failures")) = Cardinality(RunFailed)
         /\ \A i \in DOMAIN XmlSuites(suites) :
              Len(XmlSuites(suites)[i].testcases) = XmlSuites(suites)[i].tests
<1>1. /\ suites \in Seq(Suite)
      /\ FlattenSeq(MapOver(ShownOf(Listable), suites)) = ListBySuite(Listable)
      /\ \A members \in SUBSET Listable :
           Total(MapOver(Counts(members), suites)) = Cardinality(members)
  BY ShownSuites
<1>2. /\ DOMAIN XmlSuites(suites) = DOMAIN suites
      /\ \A i \in DOMAIN suites :
           /\ suites[i] \in Suite
           /\ XmlSuites(suites)[i].tests = reportable_test_count[suites[i]]
           /\ XmlSuites(suites)[i].testcases = XmlTests(suites[i])
      /\ Field(XmlSuites(suites), "tests") = MapOver(Counts(Listable), suites)
      /\ ~ flags.list_tests =>
           Field(XmlSuites(suites), "failures") = MapOver(Counts(RunFailed), suites)
      /\ FlattenSeq(Field(XmlSuites(suites), "testcases"))
              = MapOver(Case, FlattenSeq(MapOver(ShownOf(Listable), suites)))
  BY <1>1, XmlSuitesAre
<1>3. \A s \in Suite : Len(XmlTests(s)) = reportable_test_count[s]
  BY XmlTestsAre
<1> QED
  BY <1>1, <1>2, <1>3

-----------------------------------------------------------------------------
(***************************************************************************)
(* What the reports need of the runner: ReportInv.                         *)
(***************************************************************************)

LEMMA FailedPartsAre ==
  ASSUME NEW t
  PROVE  /\ FailedParts(t) \in Seq({"nonfatal", "fatal"})
         /\ FailedParts(t) # << >> <=> Failed(result[t])
<1> DEFINE s == <<"nonfatal", "fatal">>
           k == Kept(s, result[t])
<1>1. s \in Seq({"nonfatal", "fatal"}) /\ Elements(s) = {"nonfatal", "fatal"}
  BY DEF Elements
<1>2. k \in Seq({"nonfatal", "fatal"}) /\ Elements(k) = {"nonfatal", "fatal"} \cap result[t]
  <2> HIDE DEF s
  <2> QED
    BY <1>1, KeptFacts
<1> HIDE DEF k
<1>3. k # << >> <=> Elements(k) # {}
  <2>1. k = << >> => Elements(k) = {}
    BY DEF Elements
  <2>2. k # << >> => Len(k) \in Nat /\ Len(k) # 0
    BY <1>2, EmptySeq
  <2>3. k # << >> => k[1] \in Elements(k)
    BY <2>2 DEF Elements
  <2> QED
    BY <2>1, <2>3
<1>4. FailedParts(t) = k
  BY DEF FailedParts, k
<1> QED
  BY <1>2, <1>3, <1>4 DEF Failed

(* A test that does not run has no results, and a listing runs none.       *)
ReportInv ==
  /\ pc = "start" => should_run = {}
  /\ pc \in Iterating \cup {"iteration"} => ~ flags.list_tests
  /\ \A t \in Test : t \notin should_run => result[t] = {}

LEMMA CallsReport ==
  ASSUME Placed, ReportInv, pc \in Iterating, NEW parts, Report(parts),
         UNCHANGED <<flags, should_run>>, pc' \in Iterating \cup {"iteration", "terminated", "done"}
  PROVE  ReportInv'
<1>1. \A t \in Test : t \notin should_run => result'[t] = result[t]
  <2>1. CASE Place # "test"
    BY <2>1 DEF Report
  <2>2. CASE Place = "test"
    <3>1. current_test_info # None
      BY <2>2 DEF Place
    <3>2. pc \in TestHook
      <4>1. pc # "terminated"
        BY DEF Iterating, SuiteHook, TestHook
      <4> QED
        BY <3>1, <4>1 DEF Placed, PlaceInv
    <3>3. current_test_info \in should_run
      BY <3>2 DEF Placed, PlaceInv
    <3>4. result' = [result EXCEPT ![current_test_info] = @ \cup parts]
      BY <2>2 DEF Report
    <3>5. result \in [Test -> SUBSET Part]
      BY DEF Placed, TypeOK
    <3> QED
      BY <3>3, <3>4, <3>5
  <2> QED
    BY <2>1, <2>2
<1>2. pc' # "start" /\ ~ flags.list_tests
  BY DEF ReportInv, Iterating, SuiteHook, TestHook
<1> QED
  BY <1>1, <1>2 DEF ReportInv

LEMMA ReportsAtFirst == Init => ReportInv
BY DEF Init, ReportInv, Iterating, SuiteHook, TestHook

LEMMA ReportsKept ==
  ASSUME Placed, ReportInv, [Next]_vars
  PROVE  ReportInv'
<1>1. ASSUME UNCHANGED <<flags, should_run, result>>,
             pc \in Iterating \cup {"iteration"},
             pc' \in Iterating \cup {"iteration", "done"}
      PROVE  ReportInv'
  <2>1. pc' # "start" /\ ~ flags.list_tests
    BY <1>1 DEF ReportInv, Iterating, SuiteHook, TestHook
  <2> QED
    BY <1>1, <2>1 DEF ReportInv
<1>2. CASE StartProgram
  BY <1>2 DEF StartProgram, ReportInv, Iterating, SuiteHook, TestHook, results
<1>3. CASE BeginIteration
  <2>1. /\ pc = "iteration" /\ result' = [t \in Test |-> {}]
        /\ UNCHANGED <<flags, should_run>> /\ pc' \in {"iterationEnd", "envSetUp"}
    BY <1>3 DEF BeginIteration
  <2> QED
    BY <2>1 DEF ReportInv
<1>4. CASE EnvironmentsReady
  BY <1>1, <1>4 DEF EnvironmentsReady, Iterating, results
<1>5. CASE BeginSuite
  BY <1>1, <1>5 DEF BeginSuite, Iterating, SuiteHook, results
<1>6. CASE BeginTest
  BY <1>1, <1>6 DEF BeginTest, Iterating, SuiteHook, TestHook, results
<1>7. CASE WrongFixture
  BY <1>7, CallsReport DEF WrongFixture, Iterating, SuiteHook, TestHook
<1>8. CASE EndTest
  BY <1>1, <1>8 DEF EndTest, Iterating, SuiteHook, TestHook, results
<1>9. CASE SuitesDone
  BY <1>1, <1>9 DEF SuitesDone, Iterating, results
<1>10. CASE EnvironmentsDone
  BY <1>1, <1>10 DEF EnvironmentsDone, Iterating, results
<1>11. CASE EndIteration
  BY <1>1, <1>11 DEF EndIteration, Iterating, results
<1>12. CASE Return
  BY <1>1, <1>12 DEF Return, results
<1>13. CASE RunHook
  <2>1. PICK o \in Outcome :
          \/ SetUpEnvironment(o) \/ TearDownEnvironment(o)
          \/ SetUpTestSuite(o) \/ TearDownTestSuite(o)
          \/ Construct(o) \/ SetUp(o) \/ TestBody(o) \/ TearDown(o) \/ Destroy(o)
    BY <1>13 DEF RunHook
  <2>2. ASSUME NEW hook \in Hook, NEW next \in Iterating \cup {"done"}, Call(hook, o, next)
        PROVE  ReportInv'
    <3>1. PICK parts : Report(parts)
      BY <2>2 DEF Call
    <3>2. pc \in Iterating
      BY <2>2 DEF Call, Hook, Iterating, SuiteHook, TestHook
    <3>3. pc' \in Iterating \cup {"iteration", "terminated", "done"}
      BY <2>2 DEF Call
    <3>4. UNCHANGED <<flags, should_run>>
      BY <2>2 DEF Call
    <3> QED
      BY <3>1, <3>2, <3>3, <3>4, CallsReport
  <2>3. \A h \in Hook : h \in Iterating
    BY DEF Hook, Iterating, SuiteHook, TestHook
  <2>4. {"test", "testEnd", "suite", "wrongFixture"} \subseteq Iterating
    BY DEF Iterating, SuiteHook, TestHook
  <2>5. CASE SetUpEnvironment(o)
    BY <2>2, <2>3, <2>5 DEF SetUpEnvironment, CallEnvironment, Hook
  <2>6. CASE TearDownEnvironment(o)
    BY <2>2, <2>3, <2>6 DEF TearDownEnvironment, CallEnvironment, Hook
  <2>7. CASE SetUpTestSuite(o)
    BY <2>2, <2>4, <2>7 DEF SetUpTestSuite, Hook
  <2>8. CASE TearDownTestSuite(o)
    BY <2>2, <2>4, <2>8 DEF TearDownTestSuite, Hook
  <2>9. CASE Construct(o)
    BY <2>2, <2>3, <2>4, <2>9 DEF Construct, Hook
  <2>10. CASE SetUp(o)
    BY <2>2, <2>3, <2>10 DEF SetUp, Hook
  <2>11. CASE TestBody(o)
    BY <2>2, <2>3, <2>11 DEF TestBody, Hook
  <2>12. CASE TearDown(o)
    BY <2>2, <2>3, <2>12 DEF TearDown, Hook
  <2>13. CASE Destroy(o)
    BY <2>2, <2>4, <2>13 DEF Destroy, Hook
  <2> QED
    BY <2>1, <2>5, <2>6, <2>7, <2>8, <2>9, <2>10, <2>11, <2>12, <2>13
<1>14. CASE UNCHANGED vars
  BY <1>14 DEF vars, ReportInv, results
<1> QED
  BY <1>2, <1>3, <1>4, <1>5, <1>6, <1>7, <1>8, <1>9, <1>10, <1>11, <1>12, <1>13, <1>14 DEF Next

-----------------------------------------------------------------------------
(***************************************************************************)
(* The XML report and the console tell the run.                            *)
(***************************************************************************)

Cases == MapOver(Case, ListBySuite(Listable))
NamesOf(some) == {c.name : c \in some}

LEMMA CaseFields ==
  ASSUME ~ flags.list_tests
  PROVE  \A t \in Test :
           /\ Case[t].name = t /\ Case[t].status = StatusOf(t)
           /\ Case[t].result = ResultOf(t) /\ Case[t].failures = FailedParts(t)
BY DEF Case, CaseOf

LEMMA CaseNames == \A t \in Test : Case[t].name = t
<1> TAKE t \in Test
<1>1. CASE flags.list_tests
  BY <1>1 DEF Case, CaseOf
<1>2. CASE ~ flags.list_tests
  BY <1>2, CaseFields
<1> QED
  BY <1>1, <1>2

(* The test cases of a report: one for each reported test.                 *)
LEMMA CasesAre ==
  ASSUME InOrder
  PROVE  /\ Range(Cases) = {Case[t] : t \in Listable}
         /\ IsInjective(Cases)
         /\ Len(Cases) = Cardinality(Listable)
         /\ Len(Field(Cases, "name")) = Len(Cases)
         /\ Range(Field(Cases, "name")) = Listable
<1> DEFINE l == ListBySuite(Listable)
           S == {Case[t] : t \in Test}
<1>1. Listable \subseteq Test
  BY DEF Listable
<1>2. /\ l \in Seq(Test) /\ NoneTwice(l) /\ Elements(l) = Listable
      /\ Len(l) = Cardinality(Listable)
  BY <1>1, ListedBySuite
<1>3. MapsOver(Case, Test, S)
  <2>1. Case \in [Test -> S]
    BY DEF Case
  <2> QED
    BY <2>1, MapProperties
<1> HIDE DEF l, S
<1>4. Cases = MapOver(Case, l)
  BY DEF Cases, l
<1>5. /\ Cases \in Seq(S) /\ Len(Cases) = Len(l)
      /\ \A i \in 1 .. Len(l) : Cases[i] = Case[l[i]]
  BY <1>2, <1>3, <1>4 DEF MapsOver
<1>6. DOMAIN Cases = 1 .. Len(l) /\ \A i \in 1 .. Len(l) : l[i] \in Test
  BY <1>2, <1>5
<1>7. Range(Cases) = {Case[t] : t \in Listable}
  <2>1. Range(Cases) = {Case[l[i]] : i \in 1 .. Len(l)}
    BY <1>5, <1>6 DEF Range
  <2> QED
    BY <1>2, <2>1 DEF Elements
<1>8. IsInjective(Cases)
  <2> SUFFICES ASSUME NEW i \in 1 .. Len(l), NEW j \in 1 .. Len(l), Cases[i] = Cases[j]
               PROVE  i = j
    BY <1>6 DEF IsInjective
  <2>1. l[i] = l[j]
    BY <1>5, <1>6, CaseNames
  <2> QED
    BY <1>2, <2>1 DEF NoneTwice
<1>9. Field(Cases, "name") = [i \in 1 .. Len(l) |-> l[i]]
  BY <1>5, <1>6, CaseNames DEF Field
<1>10. Field(Cases, "name") = l
  BY <1>2, <1>9
<1>11. Range(l) = Listable
  BY <1>2, ElementsAreRange
<1> QED
  BY <1>2, <1>5, <1>7, <1>8, <1>10, <1>11

LEMMA NamesAre ==
  ASSUME NEW tests, tests \subseteq Test
  PROVE  NamesOf({Case[t] : t \in tests}) = tests
BY CaseNames DEF NamesOf

(* The numbers at the head of a report.                                    *)
LEMMA XmlNumbers ==
  ASSUME InOrder
  PROVE  /\ SumOverTestSuiteList(reportable_test_count) = Cardinality(Listable)
         /\ SumOverTestSuiteList(failed_test_count) = Cardinality(RunFailed)
         /\ SumOverTestSuiteList(skipped_test_count) = Cardinality(RunSkipped)
         /\ SumOverTestSuiteList(successful_test_count) = Cardinality(RunPassed)
         /\ SumOverTestSuiteList(test_to_run_count) = Cardinality({t \in Test : ShouldRunTest(t)})
         /\ SumOverTestSuiteList(reportable_disabled_test_count)
              = Cardinality({t \in Test : TestReportableDisabled(t)})
<1>1. /\ Listable \subseteq Test /\ RunFailed \subseteq Test /\ RunSkipped \subseteq Test
      /\ RunPassed \subseteq Test /\ {t \in Test : ShouldRunTest(t)} \subseteq Test
      /\ {t \in Test : TestReportableDisabled(t)} \subseteq Test
  BY DEF Listable, RunFailed, RunSkipped, RunPassed
<1>2. \A members \in SUBSET Test :
        SumOverTestSuiteList(Counts(members)) = Cardinality(members)
  BY SumsAreNumbers
<1> QED
  BY <1>1, <1>2, CountsAre

(* Those that ran passed, were skipped or failed.                          *)
LEMMA RunsAreSorted ==
  ASSUME InOrder, should_run \subseteq Test
  PROVE  Cardinality({t \in Test : ShouldRunTest(t)})
           = Cardinality(RunPassed) + Cardinality(RunSkipped) + Cardinality(RunFailed)
<1> DEFINE ran == {t \in Test : ShouldRunTest(t)}
           two == RunPassed \cup RunSkipped
<1>1. /\ ran = two \cup RunFailed /\ two \cap RunFailed = {} /\ RunPassed \cap RunSkipped = {}
      /\ RunPassed \subseteq Test /\ RunSkipped \subseteq Test /\ RunFailed \subseteq Test
  BY DEF ShouldRunTest, RunPassed, RunSkipped, RunFailed, TestPassed, TestSkipped, TestFailed,
         Skipped
<1>2. /\ IsFiniteSet(RunPassed) /\ IsFiniteSet(RunSkipped) /\ IsFiniteSet(RunFailed)
      /\ Cardinality(RunPassed) \in Nat /\ Cardinality(RunSkipped) \in Nat
      /\ Cardinality(RunFailed) \in Nat
  BY <1>1, ListedBySuite
<1> HIDE DEF ran
<1>3. Cardinality({}) = 0
  BY FS_EmptySet
<1>4. /\ IsFiniteSet(two)
      /\ Cardinality(two) = Cardinality(RunPassed) + Cardinality(RunSkipped)
  <2>1. IsFiniteSet(two) /\ Cardinality(two) = Cardinality(RunPassed) + Cardinality(RunSkipped)
                             - Cardinality(RunPassed \cap RunSkipped)
    BY <1>2, FS_Union
  <2>2. Cardinality(RunPassed \cap RunSkipped) = 0
    BY <1>1, <1>3
  <2> HIDE DEF two
  <2> QED
    BY <1>2, <2>1, <2>2
<1>6. Cardinality(two \cap RunFailed) = 0
  BY <1>1, <1>3
<1>7. Cardinality(ran) = Cardinality(two \cup RunFailed)
  BY <1>1
<1> HIDE DEF two
<1>5. Cardinality(two \cup RunFailed) = Cardinality(two) + Cardinality(RunFailed)
                                          - Cardinality(two \cap RunFailed)
  BY <1>2, <1>4, FS_Union
<1> QED
  BY <1>2, <1>4, <1>5, <1>6, <1>7 DEF ran

(* Everything the report of an iteration says of the run, its JSON twin    *)
(* apart.                                                                  *)
LEMMA RunIsTold ==
  ASSUME Placed, EndedInv, ReportInv, pc = "iterationEnd",
         SaysTheSame(PrintJsonUnitTest, PrintXmlUnitTest)
  PROVE  TellsTheRun
<1> DEFINE xml == PrintXmlUnitTest
           cases == Testcases(xml)
           listed == Range(cases)
           failing == {c \in listed : c.failures # << >>}
           console == Summary
<1>1. InOrder /\ should_run \subseteq Test
  BY DEF InOrder, Placed, TypeOK
<1>2. ~ flags.list_tests /\ should_run = FilterTests(flags) /\ flags.filter \subseteq Test
  BY FlagsType DEF Placed, PlaceInv, ReportInv, Iterating, TypeOK
<1>3. \A t \in Test : t \notin should_run => result[t] = {}
  BY DEF ReportInv
<1>4. should_run \subseteq Listable /\ Listable \subseteq Test /\ RunFailed \subseteq Listable
      /\ Listable = {t \in flags.filter : ~ InAnotherShard(flags, t)}
  <2>1. Listable = {t \in flags.filter : ~ InAnotherShard(flags, t)}
    BY <1>2 DEF Listable, TestReportable, IsReportable
  <2>2. should_run \subseteq Listable
    BY <1>2, <2>1 DEF FilterTests, Runnable
  <2> QED
    BY <2>1, <2>2, <1>2 DEF RunFailed, TestFailed
<1>5. /\ xml.tests = Cardinality(Listable)
      /\ xml.failures = Cardinality(RunFailed)
      /\ xml.disabled = Cardinality({t \in Test : TestReportableDisabled(t)})
      /\ xml.testsuites = XmlSuites(ReportedSuites)
  BY <1>1, XmlNumbers DEF PrintXmlUnitTest
<1>6. cases = Cases
  BY <1>1, <1>5, XmlSays DEF Testcases, Cases
<1>7. /\ listed = {Case[t] : t \in Listable} /\ IsInjective(cases)
      /\ Len(cases) = Cardinality(Listable)
  BY <1>1, <1>6, CasesAre
<1>8. /\ Total(Field(xml.testsuites, "tests")) = Cardinality(Listable)
      /\ Total(Field(xml.testsuites, "failures")) = Cardinality(RunFailed)
      /\ \A i \in DOMAIN xml.testsuites :
           Len(xml.testsuites[i].testcases) = xml.testsuites[i].tests
  BY <1>1, <1>2, <1>4, <1>5, XmlSays
<1> HIDE DEF xml, cases
<1>9. NamesOf(listed) = Listable
  BY <1>4, <1>7, NamesAre
<1>10. \A t \in Test :
           /\ Case[t].name = t /\ Case[t].status = StatusOf(t)
           /\ Case[t].result = ResultOf(t) /\ Case[t].failures = FailedParts(t)
  BY <1>2, CaseFields
<1>11. {c \in listed : c.status = "run"} = {Case[t] : t \in should_run}
  <2>1. {c \in listed : c.status = "run"} = {Case[t] : t \in {r \in Listable : StatusOf(r) = "run"}}
    BY <1>4, <1>7, <1>10
  <2>2. {r \in Listable : StatusOf(r) = "run"} = should_run
    BY <1>4 DEF StatusOf
  <2> QED
    BY <2>1, <2>2
<1>12. {c \in listed : c.failures # << >>} = {Case[t] : t \in RunFailed}
  <2>1. {c \in listed : c.failures # << >>}
          = {Case[t] : t \in {r \in Listable : FailedParts(r) # << >>}}
    BY <1>4, <1>7, <1>10
  <2>2. {r \in Listable : FailedParts(r) # << >>} = RunFailed
    BY <1>3, <1>4, FailedPartsAre DEF RunFailed, TestFailed, Failed
  <2> QED
    BY <2>1, <2>2
<1>13. {c \in listed : c.result = "skipped"} = {Case[t] : t \in RunSkipped}
  <2>1. {c \in listed : c.result = "skipped"}
          = {Case[t] : t \in {r \in Listable : ResultOf(r) = "skipped"}}
    BY <1>4, <1>7, <1>10
  <2>2. {r \in Listable : ResultOf(r) = "skipped"} = RunSkipped
    BY <1>4 DEF RunSkipped, TestSkipped, ResultOf
  <2> QED
    BY <2>1, <2>2
<1>14. RunFailed \subseteq Test /\ RunSkipped \subseteq Test
  BY DEF RunFailed, RunSkipped
<1>15. /\ NamesOf({c \in listed : c.status = "run"}) = should_run
       /\ NamesOf(failing) = RunFailed
       /\ NamesOf({c \in listed : c.result = "skipped"}) = RunSkipped
  BY <1>1, <1>11, <1>12, <1>13, <1>14, NamesAre
<1>16. \/ should_run = Range(ended)
       \/ ended = << >> /\ HasFatalFailure(ad_hoc)
  <2>1. Range(ended) = Elements(ended)
    BY ElementsAreRange DEF Placed, TypeOK
  <2> QED
    BY <2>1 DEF EndedInv
<1>17. Disabled \cap Listable = {t \in Test : TestReportableDisabled(t)}
  BY <1>4 DEF TestReportableDisabled, Listable, TestReportable
<1>18. /\ Len(PrintFailedTests) = Cardinality(RunFailed) /\ Range(PrintFailedTests) = RunFailed
       /\ Len(PrintSkippedTests) = Cardinality(RunSkipped) /\ Range(PrintSkippedTests) = RunSkipped
  BY <1>1, <1>14, ListedBySuite, ElementsAreRange
     DEF PrintFailedTests, PrintSkippedTests, RunFailed, RunSkipped
<1>19. ~ AnyFailed => RunFailed = {}
  BY DEF AnyFailed, RunFailed, TestFailed
<1>20. /\ console.ran = Cardinality({t \in Test : ShouldRunTest(t)})
       /\ console.passed = Cardinality(RunPassed)
       /\ console.skipped = Cardinality(RunSkipped)
       /\ console.skipped_tests = PrintSkippedTests
  BY <1>1, XmlNumbers DEF Summary
<1>21. console.failed = Cardinality(RunFailed) /\ console.failed = Len(console.failed_tests)
       /\ Range(console.failed_tests) = RunFailed
  <2>1. CASE AnyFailed
    BY <1>1, <1>18, <2>1, XmlNumbers DEF Summary
  <2>2. CASE ~ AnyFailed
    <3>1. console.failed = 0 /\ console.failed_tests = << >>
      BY <2>2 DEF Summary
    <3>2. Range(<< >>) = {} /\ Cardinality({}) = 0
      BY FS_EmptySet DEF Range
    <3> QED
      BY <1>19, <2>2, <3>1, <3>2
  <2> QED
    BY <2>1, <2>2
<1> HIDE DEF console, listed, failing
<1>22. console.ran = console.passed + console.skipped + console.failed
  BY <1>1, <1>20, <1>21, RunsAreSorted
<1> QED
  BY <1>4, <1>5, <1>7, <1>8, <1>9, <1>15, <1>16, <1>17, <1>18, <1>20, <1>21, <1>22
     DEF TellsTheRun, xml, cases, listed, failing, console, NamesOf

-----------------------------------------------------------------------------
(***************************************************************************)
(* Texts of a JSON report: what goes from concatenations to concatenations.*)
(***************************************************************************)

(* What goes from concatenations to concatenations goes from flattened     *)
(* lists to flattened lists.                                               *)
Concatenates(h, S, T) ==
  /\ h \in [Seq(S) -> Seq(T)] /\ h[<< >>] = << >>
  /\ \A a, b \in Seq(S) : h[a \o b] = h[a] \o h[b]

FlattensAs(h, S) ==
  \A l \in Seq(Seq(S)) : h[FlattenSeq(l)] = FlattenSeq(MapOver(h, l))

LEMMA ConcatenatesFlattened ==
  ASSUME NEW S, NEW T, NEW h, Concatenates(h, S, T)
  PROVE  FlattensAs(h, S)
<1> DEFINE R == Seq(S)
           Q == Seq(T)
           U == {l \in Seq(R) : h[FlattenSeq(l)] = FlattenSeq(MapOver(h, l))}
<1>1. /\ h \in [R -> Q] /\ h[<< >>] = << >>
      /\ \A a, b \in R : h[a \o b] = h[a] \o h[b]
  BY DEF Concatenates
<1>2. \A l \in Seq(R) : FlattenSeq(l) \in R
  BY FlattenType
<1>3. \A l \in Seq(R), x \in R : FlattenSeq(Append(l, x)) = FlattenSeq(l) \o x
  BY <1>2, FlattenAppend
<1>4. \A l \in Seq(Q), x \in Q : FlattenSeq(Append(l, x)) = FlattenSeq(l) \o x
  BY FlattenType, FlattenAppend
<1> HIDE DEF R, Q
<1>5. MapsOver(h, R, Q)
  BY <1>1, MapProperties
<1>6. /\ MapOver(h, << >>) = << >>
      /\ \A l \in Seq(R) : /\ MapOver(h, l) \in Seq(Q)
                           /\ \A x \in R : MapOver(h, Append(l, x)) = Append(MapOver(h, l), h[x])
  BY <1>5 DEF MapsOver
<1>7. << >> \in U
  BY <1>1, <1>6, FlattenNone, EmptySeq
<1>8. ASSUME NEW l \in Seq(R), NEW x \in R, l \in U PROVE Append(l, x) \in U
  <2>1. Append(l, x) \in Seq(R)
    BY AppendProperties
  <2>2. h[FlattenSeq(Append(l, x))] = h[FlattenSeq(l)] \o h[x]
    BY <1>1, <1>2, <1>3
  <2>3. FlattenSeq(MapOver(h, Append(l, x))) = FlattenSeq(MapOver(h, l)) \o h[x]
    <3>1. h[x] \in Q
      BY <1>1
    <3> QED
      BY <1>4, <1>6, <3>1
  <2> QED
    BY <1>8, <2>1, <2>2, <2>3
<1>9. \A l \in Seq(R) : l \in U
  <2> HIDE DEF U
  <2> QED
    BY <1>7, <1>8, SequenceInduction
<1> QED
  BY <1>9 DEF R, FlattensAs

(* A map flattened goes from concatenations to concatenations.             *)
FlatMap(g, S) == [s \in Seq(S) |-> FlattenSeq(MapOver(g, s))]

LEMMA FlatMapConcatenates ==
  ASSUME NEW S, NEW T, NEW g \in [S -> Seq(T)]
  PROVE  Concatenates(FlatMap(g, S), S, T)
<1> DEFINE h == FlatMap(g, S)
<1>1. MapsOver(g, S, Seq(T))
  BY MapProperties
<1>2. /\ MapOver(g, << >>) = << >>
      /\ \A s \in Seq(S) : MapOver(g, s) \in Seq(Seq(T))
      /\ \A s, r \in Seq(S) : MapOver(g, s \o r) = MapOver(g, s) \o MapOver(g, r)
  BY <1>1 DEF MapsOver
<1>3. \A s \in Seq(S) : FlattenSeq(MapOver(g, s)) \in Seq(T)
  BY <1>2, FlattenType
<1>4. \A s \in Seq(S) : h[s] = FlattenSeq(MapOver(g, s))
  BY DEF FlatMap
<1>5. h \in [Seq(S) -> Seq(T)]
  BY <1>3 DEF FlatMap
<1> HIDE DEF h
<1>6. h[<< >>] = << >>
  BY <1>2, <1>4, FlattenNone, EmptySeq
<1>7. ASSUME NEW a \in Seq(S), NEW b \in Seq(S) PROVE h[a \o b] = h[a] \o h[b]
  <2>1. a \o b \in Seq(S)
    BY ConcatProperties
  <2>2. MapOver(g, a) \in Seq(Seq(T)) /\ MapOver(g, b) \in Seq(Seq(T))
    BY <1>2
  <2>3. FlattenSeq(MapOver(g, a) \o MapOver(g, b))
          = FlattenSeq(MapOver(g, a)) \o FlattenSeq(MapOver(g, b))
    BY <2>2, FlattenConcat
  <2>4. MapOver(g, a \o b) = MapOver(g, a) \o MapOver(g, b)
    BY <1>2
  <2> QED
    BY <1>4, <2>1, <2>3, <2>4
<1> QED
  BY <1>5, <1>6, <1>7 DEF Concatenates, h

(* A map to sequences of one.                                              *)
Singles(h, g, S) == \A x \in S : h[x] = <<g[x]>>

SinglesFlatten(h, g, S) ==
  \A s \in Seq(S) : FlattenSeq(MapOver(h, s)) = MapOver(g, s)

LEMMA FlatSingles ==
  ASSUME NEW S, NEW T, NEW g \in [S -> T], NEW h, Singles(h, g, S)
  PROVE  SinglesFlatten(h, g, S)
<1> SUFFICES ASSUME NEW s \in Seq(S) PROVE FlattenSeq(MapOver(h, s)) = MapOver(g, s)
  BY DEF SinglesFlatten
<1>1. MapsOver(g, S, T)
  BY MapProperties
<1>2. MapOver(g, s) \in Seq(T)
  BY <1>1 DEF MapsOver
<1> DEFINE m == MapOver(g, s)
<1>3. DOMAIN m = DOMAIN s /\ \A i \in DOMAIN s : m[i] = g[s[i]] /\ s[i] \in S
  BY DEF MapOver
<1>4. MapOver(h, s) = [i \in DOMAIN m |-> <<m[i]>>]
  BY <1>3 DEF MapOver, Singles
<1> HIDE DEF m
<1> QED
  BY <1>2, <1>4, FlattenSingles DEF m

(* A map to empty sequences.                                               *)
LEMMA FlatNothings ==
  ASSUME NEW S, NEW h \in [S -> {<< >>}]
  PROVE  \A s \in Seq(S) : FlattenSeq(MapOver(h, s)) = << >>
<1> DEFINE U == {s \in Seq(S) : FlattenSeq(MapOver(h, s)) = << >>}
<1>1. MapsOver(h, S, Seq({}))
  <2>1. h \in [S -> Seq({})]
    BY EmptySeq
  <2> QED
    BY <2>1, MapProperties
<1>2. /\ MapOver(h, << >>) = << >>
      /\ \A s \in Seq(S) : /\ MapOver(h, s) \in Seq(Seq({}))
                           /\ \A x \in S : MapOver(h, Append(s, x)) = Append(MapOver(h, s), h[x])
  BY <1>1 DEF MapsOver
<1>3. << >> \in U
  BY <1>2, FlattenNone, EmptySeq
<1>4. ASSUME NEW s \in Seq(S), NEW x \in S, s \in U PROVE Append(s, x) \in U
  <2>1. Append(s, x) \in Seq(S)
    BY AppendProperties
  <2>2. h[x] \in Seq({}) /\ h[x] = << >>
    BY EmptySeq
  <2>3. FlattenSeq(Append(MapOver(h, s), h[x])) = FlattenSeq(MapOver(h, s)) \o h[x]
    BY <1>2, <2>2, FlattenType, FlattenAppend
  <2>4. << >> \o << >> = << >>
    OBVIOUS
  <2> QED
    BY <1>2, <1>4, <2>1, <2>2, <2>3, <2>4
<1>5. \A s \in Seq(S) : s \in U
  <2> HIDE DEF U
  <2> QED
    BY <1>3, <1>4, SequenceInduction
<1> QED
  BY <1>5

Marks == {"{", "}", "[", "]", ",", "name", "tests", "failures", "disabled", "time", "line",
          "status", "result", "classname", "failure"}
Words == {"", "AllTests", "run", "notrun", "suppressed", "skipped", "completed", "nonfatal",
          "fatal"}
JsonValue == Words \cup Test \cup Suite \cup Nat
JsonToken == [mark : Marks, value : JsonValue]

(* A text between two marks, with its commas where they belong.            *)
Text(json, first, last) ==
  /\ json \in Seq(JsonToken) /\ Len(json) > 0
  /\ json[1].mark = first /\ json[Len(json)].mark = last
  /\ WellSeparated(json)

LEMMA TokenIsText ==
  ASSUME NEW mark \in Marks, NEW value \in JsonValue
  PROVE  Text(Token(mark, value), mark, mark)
<1> DEFINE r == [mark |-> mark, value |-> value]
<1>1. r \in JsonToken
  BY DEF JsonToken
<1>2. r.mark = mark
  OBVIOUS
<1> HIDE DEF r
<1>3. <<r>> \in Seq(JsonToken) /\ Len(<<r>>) = 1 /\ <<r>>[1] = r
  BY <1>1
<1>4. Token(mark, value) = <<r>>
  BY DEF Token, r
<1> QED
  BY <1>2, <1>3, <1>4 DEF Text, WellSeparated

LEMMA TextsJoin ==
  ASSUME NEW a, NEW b, NEW first, NEW last, NEW m, NEW n,
         Text(a, first, m), Text(b, n, last), MayFollow(m, n)
  PROVE  Text(a \o b, first, last)
<1> DEFINE c == a \o b
<1>1. a \in Seq(JsonToken) /\ b \in Seq(JsonToken) /\ Len(a) > 0 /\ Len(b) > 0
  BY DEF Text
<1>2. Len(a) \in Nat /\ Len(b) \in Nat
  BY <1>1
<1>3. /\ c \in Seq(JsonToken) /\ Len(c) = Len(a) + Len(b)
      /\ \A i \in 1 .. Len(a) : c[i] = a[i]
      /\ \A i \in 1 .. Len(b) : c[Len(a) + i] = b[i]
  <2> HIDE DEF JsonToken
  <2> QED
    BY <1>1, ConcatProperties
<1> HIDE DEF c
<1>4. c[1] = a[1] /\ c[Len(c)] = b[Len(b)]
  BY <1>1, <1>2, <1>3
<1>5. ASSUME NEW i \in 1 .. Len(c) - 1 PROVE MayFollow(c[i].mark, c[i + 1].mark)
  <2>1. CASE i < Len(a)
    <3>1. i \in 1 .. Len(a) - 1 /\ c[i] = a[i] /\ c[i + 1] = a[i + 1]
      BY <1>2, <1>3, <2>1
    <3> QED
      BY <3>1 DEF Text, WellSeparated
  <2>2. CASE i = Len(a)
    <3>1. c[i] = a[Len(a)] /\ c[i + 1] = b[1]
      BY <1>1, <1>2, <1>3, <2>2
    <3> QED
      BY <3>1 DEF Text
  <2>3. CASE i > Len(a)
    <3>1. PICK j \in 1 .. Len(b) - 1 : i = Len(a) + j
      <4>1. i - Len(a) \in 1 .. Len(b) - 1 /\ i = Len(a) + (i - Len(a))
        BY <1>2, <1>3, <2>3
      <4> QED
        BY <4>1
    <3>2. j \in 1 .. Len(b) /\ j + 1 \in 1 .. Len(b) /\ i + 1 = Len(a) + (j + 1)
      BY <1>2, <3>1
    <3>3. c[i] = b[j] /\ c[i + 1] = b[j + 1]
      BY <1>3, <3>1, <3>2
    <3> QED
      BY <3>1, <3>3 DEF Text, WellSeparated
  <2> QED
    BY <1>2, <2>1, <2>2, <2>3
<1> QED
  BY <1>1, <1>2, <1>3, <1>4, <1>5 DEF Text, WellSeparated, c

(* Texts one after another, where the first may differ.                    *)
LEMMA TextsFlatten ==
  ASSUME NEW first, NEW next, NEW last, MayFollow(last, next)
  PROVE  \A l \in Seq(Seq(JsonToken)) :
           (\A i \in 1 .. Len(l) : Text(l[i], IF i = 1 THEN first ELSE next, last)) =>
              l = << >> \/ Text(FlattenSeq(l), first, last)
<1> DEFINE R == Seq(JsonToken)
           Fit(l) == \A i \in 1 .. Len(l) : Text(l[i], IF i = 1 THEN first ELSE next, last)
           U == {l \in Seq(R) : Fit(l) => l = << >> \/ Text(FlattenSeq(l), first, last)}
<1>1. \A l \in Seq(R), x \in R :
        FlattenSeq(Append(l, x)) = IF l = << >> THEN x ELSE FlattenSeq(l) \o x
  BY FlattenMore
<1> HIDE DEF R
<1>2. << >> \in U
  BY EmptySeq
<1>3. ASSUME NEW l \in Seq(R), NEW x \in R, l \in U PROVE Append(l, x) \in U
  <2> DEFINE a == Append(l, x)
  <2>1. /\ a \in Seq(R) /\ Len(a) = Len(l) + 1 /\ Len(l) \in Nat
        /\ \A i \in 1 .. Len(l) : a[i] = l[i]
        /\ a[Len(l) + 1] = x
    BY AppendProperties
  <2>2. FlattenSeq(a) = IF l = << >> THEN x ELSE FlattenSeq(l) \o x
    BY <1>1
  <2> HIDE DEF a
  <2>3. ASSUME Fit(a) PROVE Text(FlattenSeq(a), first, last)
    <3>1. CASE l = << >>
      <4>1. Len(l) = 0 /\ 1 \in 1 .. Len(a) /\ a[1] = x
        BY <2>1, <3>1
      <4>2. Text(x, first, last)
        BY <2>3, <4>1
      <4> QED
        BY <2>2, <3>1, <4>2
    <3>2. CASE l # << >>
      <4>1. Len(l) # 0
        BY <3>2, EmptySeq
      <4>2. Fit(l)
        BY <2>1, <2>3
      <4>3. Text(FlattenSeq(l), first, last)
        BY <1>3, <3>2, <4>2
      <4>4. Text(x, next, last)
        <5>1. Len(l) + 1 \in 1 .. Len(a) /\ Len(l) + 1 # 1
          BY <2>1, <4>1
        <5> QED
          BY <2>1, <2>3, <5>1
      <4> QED
        BY <2>2, <3>2, <4>3, <4>4, TextsJoin
    <3> QED
      BY <3>1, <3>2
  <2> QED
    BY <2>1, <2>3 DEF a
<1>4. \A l \in Seq(R) : l \in U
  <2> HIDE DEF U
  <2> QED
    BY <1>2, <1>3, SequenceInduction
<1> QED
  BY <1>4 DEF R

-----------------------------------------------------------------------------
(* The values of a key, as a flattened map.                                *)
Lookup(key) ==
  [token \in JsonToken |-> IF token.mark = key THEN <<token.value>> ELSE << >>]

LEMMA LookupType == \A key : Lookup(key) \in [JsonToken -> Seq(JsonValue)]
<1> TAKE key
<1>1. ASSUME NEW token \in JsonToken
      PROVE  (IF token.mark = key THEN <<token.value>> ELSE << >>) \in Seq(JsonValue)
  <2>1. token.value \in JsonValue
    BY DEF JsonToken
  <2> HIDE DEF JsonValue
  <2> QED
    BY <2>1
<1> QED
  BY <1>1 DEF Lookup

ValuesAre(key) == FlatMap(Lookup(key), JsonToken)

LEMMA ValuesAreOf ==
  ASSUME NEW key
  PROVE  /\ \A json \in Seq(JsonToken) : ValuesOf(json, key) = ValuesAre(key)[json]
         /\ Concatenates(ValuesAre(key), JsonToken, JsonValue)
<1>1. ASSUME NEW json \in Seq(JsonToken) PROVE ValuesOf(json, key) = ValuesAre(key)[json]
  <2>1. \A i \in DOMAIN json : json[i] \in JsonToken
    <3> HIDE DEF JsonToken
    <3> QED
      OBVIOUS
  <2>2. MapOver(Lookup(key), json)
          = [i \in DOMAIN json |-> IF json[i].mark = key THEN <<json[i].value>> ELSE << >>]
    <3> HIDE DEF JsonToken
    <3> QED
      BY <2>1 DEF MapOver, Lookup
  <2> QED
    BY <2>2 DEF ValuesAre, ValuesOf, FlatMap
<1>2. Concatenates(ValuesAre(key), JsonToken, JsonValue)
  BY LookupType, FlatMapConcatenates DEF ValuesAre
<1> QED
  BY <1>1, <1>2

LEMMA ValuesJoin ==
  ASSUME NEW a \in Seq(JsonToken), NEW b \in Seq(JsonToken), NEW key
  PROVE  /\ ValuesOf(a \o b, key) = ValuesOf(a, key) \o ValuesOf(b, key)
         /\ ValuesOf(a, key) \in Seq(JsonValue)
         /\ ValuesOf(<< >>, key) = << >>
<1>1. a \o b \in Seq(JsonToken) /\ << >> \in Seq(JsonToken)
  BY ConcatProperties, EmptySeq
<1>2. /\ \A json \in Seq(JsonToken) : ValuesOf(json, key) = ValuesAre(key)[json]
      /\ Concatenates(ValuesAre(key), JsonToken, JsonValue)
  BY ValuesAreOf
<1> QED
  BY <1>1, <1>2 DEF Concatenates

LEMMA TokenValues ==
  ASSUME NEW mark \in Marks, NEW value \in JsonValue, NEW key
  PROVE  /\ Token(mark, value) \in Seq(JsonToken)
         /\ ValuesOf(Token(mark, value), key) = IF mark = key THEN <<value>> ELSE << >>
<1> DEFINE r == [mark |-> mark, value |-> value]
<1>1. r \in JsonToken
  BY DEF JsonToken
<1>2. r.mark = mark /\ r.value = value
  OBVIOUS
<1> DEFINE one == IF mark = key THEN <<value>> ELSE << >>
<1>3. <<r>> \in Seq(JsonToken) /\ Token(mark, value) = <<r>>
  <2> HIDE DEF JsonToken, JsonValue
  <2> QED
    BY <1>1 DEF Token
<1>4. [i \in DOMAIN <<r>> |-> IF <<r>>[i].mark = key THEN <<(<<r>>[i].value)>> ELSE << >>] = <<one>>
  <2>1. DOMAIN <<r>> = {1} /\ <<r>>[1] = r
    OBVIOUS
  <2>2. <<one>> = [i \in {1} |-> one]
    <3> HIDE DEF one
    <3> QED
      OBVIOUS
  <2> HIDE DEF r
  <2> QED
    BY <1>2, <2>1, <2>2
<1> HIDE DEF r, one
<1>5. ValuesOf(<<r>>, key) = FlattenSeq(<<one>>)
  BY <1>4 DEF ValuesOf
<1> QED
  BY <1>3, <1>5, FlattenOne DEF one

LEMMA ValuesFlatten ==
  ASSUME NEW key
  PROVE  \A l \in Seq(Seq(JsonToken)) :
           ValuesOf(FlattenSeq(l), key) = FlattenSeq([i \in DOMAIN l |-> ValuesOf(l[i], key)])
<1> TAKE l \in Seq(Seq(JsonToken))
<1>1. /\ \A json \in Seq(JsonToken) : ValuesOf(json, key) = ValuesAre(key)[json]
      /\ Concatenates(ValuesAre(key), JsonToken, JsonValue)
  BY ValuesAreOf
<1>2. ValuesAre(key)[FlattenSeq(l)] = FlattenSeq(MapOver(ValuesAre(key), l))
  BY <1>1, ConcatenatesFlattened DEF FlattensAs
<1>3. FlattenSeq(l) \in Seq(JsonToken) /\ \A i \in DOMAIN l : l[i] \in Seq(JsonToken)
  BY FlattenType
<1>4. MapOver(ValuesAre(key), l) = [i \in DOMAIN l |-> ValuesOf(l[i], key)]
  BY <1>1, <1>3 DEF MapOver
<1> QED
  BY <1>1, <1>2, <1>3, <1>4

-----------------------------------------------------------------------------
(***************************************************************************)
(* Pieces of a JSON report: a first mark, a last mark, the commas where they*)
(* belong, and what the piece says of each key.                            *)
(***************************************************************************)

(* The keys that are looked for, and what a text says of them.             *)
Keys == {"name", "tests", "failures", "status", "result", "failure"}

Piece(json, first, last, values) ==
  /\ Text(json, first, last)
  /\ \A key \in Keys : ValuesOf(json, key) = values[key]

Only(name, value) == [key \in Keys |-> IF key = name THEN <<value>> ELSE << >>]
Silent == [key \in Keys |-> << >>]

LEMMA SequenceFacts ==
  ASSUME NEW T, NEW s \in Seq(T)
  PROVE  DOMAIN s = 1 .. Len(s) /\ Len(s) \in Nat /\ \A i \in 1 .. Len(s) : s[i] \in T
OBVIOUS

LEMMA SequenceFrom ==
  ASSUME NEW T, NEW n \in Nat, NEW s \in [1 .. n -> T]
  PROVE  s \in Seq(T) /\ Len(s) = n
OBVIOUS

LEMMA NothingAdded ==
  ASSUME NEW T, NEW s \in Seq(T)
  PROVE  << >> \o s = s /\ s \o << >> = s
BY ConcatEmptySeq

LEMMA PiecesJoin ==
  ASSUME NEW a, NEW b, NEW first, NEW last, NEW m, NEW n, NEW u, NEW v, NEW w,
         Piece(a, first, m, v), Piece(b, n, last, w), MayFollow(m, n),
         \A key \in Keys : \/ u[key] = v[key] \o w[key]
                           \/ v[key] = << >> /\ u[key] = w[key]
                           \/ w[key] = << >> /\ u[key] = v[key]
  PROVE  Piece(a \o b, first, last, u)
<1>1. Text(a \o b, first, last)
  BY TextsJoin DEF Piece
<1>2. a \in Seq(JsonToken) /\ b \in Seq(JsonToken)
  BY DEF Piece, Text
<1>3. ASSUME NEW key \in Keys PROVE ValuesOf(a \o b, key) = u[key]
  <2>1. /\ ValuesOf(a \o b, key) = ValuesOf(a, key) \o ValuesOf(b, key)
        /\ ValuesOf(a, key) \in Seq(JsonValue) /\ ValuesOf(b, key) \in Seq(JsonValue)
    BY <1>2, ValuesJoin
  <2>2. ValuesOf(a, key) = v[key] /\ ValuesOf(b, key) = w[key]
    BY DEF Piece
  <2> HIDE DEF JsonValue
  <2>3. << >> \o w[key] = w[key] /\ v[key] \o << >> = v[key]
    BY <2>1, <2>2, NothingAdded
  <2> QED
    BY <2>1, <2>2, <2>3
<1> QED
  BY <1>1, <1>3 DEF Piece

(* Values that say something of different keys.                            *)
Apart(u, v, w) ==
  \A key \in Keys : \/ v[key] = << >> /\ u[key] = w[key]
                    \/ w[key] = << >> /\ u[key] = v[key]

LEMMA PiecesApart ==
  ASSUME NEW a, NEW b, NEW first, NEW last, NEW m, NEW n, NEW u, NEW v, NEW w,
         Piece(a, first, m, v), Piece(b, n, last, w), MayFollow(m, n), Apart(u, v, w)
  PROVE  Piece(a \o b, first, last, u)
<1>1. \A key \in Keys : \/ u[key] = v[key] \o w[key]
                        \/ v[key] = << >> /\ u[key] = w[key]
                        \/ w[key] = << >> /\ u[key] = v[key]
  BY DEF Apart
<1> QED
  BY ONLY <1>1, Piece(a, first, m, v), Piece(b, n, last, w), MayFollow(m, n), PiecesJoin

LEMMA SilentBefore ==
  ASSUME NEW a, NEW b, NEW first, NEW last, NEW m, NEW n, NEW w,
         Piece(a, first, m, Silent), Piece(b, n, last, w), MayFollow(m, n)
  PROVE  Piece(a \o b, first, last, w)
<1>1. \A key \in Keys : \/ w[key] = Silent[key] \o w[key]
                        \/ Silent[key] = << >> /\ w[key] = w[key]
                        \/ w[key] = << >> /\ w[key] = Silent[key]
  BY DEF Silent
<1> QED
  BY ONLY <1>1, Piece(a, first, m, Silent), Piece(b, n, last, w), MayFollow(m, n), PiecesJoin

LEMMA SilentAfter ==
  ASSUME NEW a, NEW b, NEW first, NEW last, NEW m, NEW n, NEW v,
         Piece(a, first, m, v), Piece(b, n, last, Silent), MayFollow(m, n)
  PROVE  Piece(a \o b, first, last, v)
<1>1. \A key \in Keys : \/ v[key] = v[key] \o Silent[key]
                        \/ v[key] = << >> /\ v[key] = Silent[key]
                        \/ Silent[key] = << >> /\ v[key] = v[key]
  BY DEF Silent
<1> QED
  BY ONLY <1>1, Piece(a, first, m, v), Piece(b, n, last, Silent), MayFollow(m, n), PiecesJoin

LEMMA TokenIsPiece ==
  ASSUME NEW mark \in Marks, NEW value \in JsonValue
  PROVE  Piece(Token(mark, value), mark, mark, Only(mark, value))
<1>1. Text(Token(mark, value), mark, mark)
  BY TokenIsText
<1>2. \A key \in Keys : ValuesOf(Token(mark, value), key) = Only(mark, value)[key]
  BY TokenValues DEF Only
<1> QED
  BY <1>1, <1>2 DEF Piece

LEMMA MarkIsPiece ==
  ASSUME NEW mark \in Marks \ Keys
  PROVE  Piece(Mark(mark), mark, mark, Silent)
<1>1. "" \in JsonValue /\ mark \in Marks
  BY DEF JsonValue, Words
<1>2. Only(mark, "") = Silent
  BY DEF Only, Silent
<1> QED
  BY <1>1, <1>2, TokenIsPiece DEF Mark

LEMMA CommaIsPiece == Piece(Comma, ",", ",", Silent)
<1>1. "," \in Marks \ Keys
  BY DEF Marks, Keys
<1> QED
  BY <1>1, MarkIsPiece DEF Comma

Names == {"name", "tests", "failures", "disabled", "time", "line", "status", "result",
          "classname", "failure"}

LEMMA KeyIsPiece ==
  ASSUME NEW name \in Names, NEW value \in JsonValue, NEW comma \in BOOLEAN
  PROVE  Piece(OutputJsonKey(name, value, comma), name, IF comma THEN "," ELSE name,
               Only(name, value))
<1>1. name \in Marks
  BY DEF Names, Marks
<1>2. Piece(Token(name, value), name, name, Only(name, value))
  BY <1>1, TokenIsPiece
<1>3. CASE comma
  <2>1. MayFollow(name, ",")
    BY DEF MayFollow, Names
  <2>2. Piece(Token(name, value) \o Comma, name, ",", Only(name, value))
    BY ONLY <1>2, <2>1, CommaIsPiece, SilentAfter
  <2> QED
    BY <1>3, <2>2 DEF OutputJsonKey
<1>4. CASE ~ comma
  <2>1. Token(name, value) \in Seq(JsonToken)
    BY <1>1, TokenValues
  <2>2. Token(name, value) \o << >> = Token(name, value)
    <3> HIDE DEF JsonToken
    <3> QED
      BY <2>1, NothingAdded
  <2> QED
    BY <1>2, <1>4, <2>2 DEF OutputJsonKey
<1> QED
  BY <1>3, <1>4

(* A list of texts, in brackets.                                           *)
LEMMA ListIsPiece ==
  ASSUME NEW items \in Seq(Seq(JsonToken)), \A i \in 1 .. Len(items) : Text(items[i], "{", "}")
  PROVE  Piece(Listed(items), "[", "]",
               [key \in Keys |-> FlattenSeq([i \in DOMAIN items |-> ValuesOf(items[i], key)])])
<1> DEFINE l == [i \in DOMAIN items |-> IF i = 1 THEN items[i] ELSE Comma \o items[i]]
           R == Seq(JsonToken)
           v == [key \in Keys |-> FlattenSeq([i \in DOMAIN items |-> ValuesOf(items[i], key)])]
<1>1. Text(Comma, ",", ",") /\ MayFollow(",", "{") /\ MayFollow("}", ",")
  BY CommaIsPiece DEF Piece, MayFollow
<1>2. Comma \in R /\ \A key \in Keys : ValuesOf(Comma, key) = << >>
  BY CommaIsPiece DEF Piece, Text, Silent
<1>3. DOMAIN items = 1 .. Len(items) /\ Len(items) \in Nat /\ \A i \in 1 .. Len(items) : items[i] \in R
  BY SequenceFacts
<1>4. ASSUME NEW i \in 1 .. Len(items)
      PROVE  /\ Text(IF i = 1 THEN items[i] ELSE Comma \o items[i], IF i = 1 THEN "{" ELSE ",", "}")
             /\ \A key \in Keys : ValuesOf(IF i = 1 THEN items[i] ELSE Comma \o items[i], key)
                                    = ValuesOf(items[i], key)
  <2>1. Text(items[i], "{", "}") /\ items[i] \in R
    BY <1>3
  <2>2. Text(Comma \o items[i], ",", "}")
    BY <1>1, <2>1, TextsJoin
  <2>3. ASSUME NEW key \in Keys PROVE ValuesOf(Comma \o items[i], key) = ValuesOf(items[i], key)
    <3>1. /\ ValuesOf(Comma \o items[i], key) = ValuesOf(Comma, key) \o ValuesOf(items[i], key)
          /\ ValuesOf(items[i], key) \in Seq(JsonValue)
      BY <1>2, <2>1, ValuesJoin
    <3>2. << >> \o ValuesOf(items[i], key) = ValuesOf(items[i], key)
      <4> HIDE DEF JsonValue
      <4> QED
        BY <3>1, NothingAdded
    <3> QED
      BY <1>2, <3>1, <3>2
  <2> QED
    BY <2>1, <2>2, <2>3
<1>5. /\ l \in [1 .. Len(items) -> R]
      /\ \A i \in 1 .. Len(items) :
           /\ Text(l[i], IF i = 1 THEN "{" ELSE ",", "}")
           /\ \A key \in Keys : ValuesOf(l[i], key) = ValuesOf(items[i], key)
  BY <1>3, <1>4 DEF Text
<1>6. l \in Seq(R) /\ Len(l) = Len(items) /\ DOMAIN l = DOMAIN items
  <2>1. DOMAIN l = DOMAIN items
    OBVIOUS
  <2> HIDE DEF l, R
  <2>2. l \in Seq(R) /\ Len(l) = Len(items)
    BY <1>3, <1>5, SequenceFrom
  <2> QED
    BY <2>1, <2>2
<1>7. Separated(items) = FlattenSeq(l)
  BY DEF Separated
<1>8. l = << >> \/ Text(FlattenSeq(l), "{", "}")
  <2>1. \A i \in 1 .. Len(l) : Text(l[i], IF i = 1 THEN "{" ELSE ",", "}")
    BY <1>5, <1>6
  <2> HIDE DEF l
  <2> QED
    BY <1>1, <1>6, <2>1, TextsFlatten
<1>9. ASSUME NEW key \in Keys PROVE ValuesOf(FlattenSeq(l), key) = v[key]
  <2>1. [i \in DOMAIN l |-> ValuesOf(l[i], key)] = [i \in DOMAIN items |-> ValuesOf(items[i], key)]
    <3> HIDE DEF l
    <3> QED
      BY <1>3, <1>5, <1>6
  <2> HIDE DEF l
  <2>2. ValuesOf(FlattenSeq(l), key) = FlattenSeq([i \in DOMAIN l |-> ValuesOf(l[i], key)])
    BY <1>6, ValuesFlatten
  <2> QED
    BY <2>1, <2>2
<1>10. /\ Piece(Mark("["), "[", "[", Silent) /\ Piece(Mark("]"), "]", "]", Silent)
       /\ MayFollow("[", "{") /\ MayFollow("}", "]") /\ MayFollow("[", "]")
  <2>1. {"[", "]"} \subseteq Marks \ Keys
    BY DEF Marks, Keys
  <2> QED
    BY <2>1, MarkIsPiece DEF MayFollow
<1> HIDE DEF l, v
<1>11. CASE l = << >>
  <2>1. FlattenSeq(l) = << >>
    BY <1>11, FlattenNone
  <2>2. Mark("[") \o << >> = Mark("[")
    <3>1. Mark("[") \in R
      BY <1>10 DEF Piece, Text
    <3> QED
      BY ONLY <3>1, NothingAdded
  <2>3. \A key \in Keys : v[key] = << >>
    <3>1. \A key \in Keys : ValuesOf(<< >>, key) = << >>
      BY EmptySeq, ValuesJoin
    <3> QED
      BY <1>9, <2>1, <3>1
  <2>4. Piece(Mark("[") \o Mark("]"), "[", "]", v)
    <3>1. Piece(Mark("[") \o Mark("]"), "[", "]", Silent)
      BY ONLY <1>10, SilentBefore
    <3> QED
      BY <2>3, <3>1 DEF Piece, Silent
  <2> QED
    BY <1>7, <2>1, <2>2, <2>4 DEF Listed, v
<1>12. CASE Text(FlattenSeq(l), "{", "}")
  <2>1. Piece(FlattenSeq(l), "{", "}", v)
    BY <1>9, <1>12 DEF Piece
  <2>2. Piece(Mark("[") \o FlattenSeq(l), "[", "}", v)
    BY ONLY <1>10, <2>1, SilentBefore
  <2>3. Piece(Mark("[") \o FlattenSeq(l) \o Mark("]"), "[", "]", v)
    BY ONLY <1>10, <2>2, SilentAfter
  <2> QED
    BY <1>7, <2>3 DEF Listed, v
<1> QED
  BY <1>8, <1>11, <1>12

(* What a test says of each key.                                           *)
TestValues(t) ==
  [key \in Keys |->
     CASE key = "name" -> <<t>>
       [] key = "status" /\ ~ flags.list_tests -> <<StatusOf(t)>>
       [] key = "result" /\ ~ flags.list_tests -> <<ResultOf(t)>>
       [] key = "failure" /\ ~ flags.list_tests -> FailedParts(t)
       [] OTHER -> << >>]

FailureValues(t) == [key \in Keys |-> IF key = "failure" THEN FailedParts(t) ELSE << >>]

LEMMA MarksArePieces ==
  \A mark \in {"{", "}", "[", "]", ","} : Piece(Mark(mark), mark, mark, Silent)
<1>1. {"{", "}", "[", "]", ","} \subseteq Marks \ Keys
  BY DEF Marks, Keys
<1> QED
  BY <1>1, MarkIsPiece

(* The failures of a test: none, or a list after a comma.                  *)
LEMMA FailuresArePiece ==
  ASSUME NEW t
  PROVE  \/ JsonFailures(t) = << >> /\ FailedParts(t) = << >>
         \/ Piece(JsonFailures(t), ",", "]", FailureValues(t))
<1> DEFINE parts == FailedParts(t)
           One(i) == Comma \o (IF i = 1 THEN Mark("[") ELSE << >>)
                     \o Mark("{") \o OutputJsonKey("failure", parts[i], FALSE) \o Mark("}")
           l == [i \in DOMAIN parts |-> One(i)]
           R == Seq(JsonToken)
           P == {"nonfatal", "fatal"}
<1>1. parts \in Seq(P)
  BY FailedPartsAre
<1>2. DOMAIN parts = 1 .. Len(parts) /\ Len(parts) \in Nat /\ \A i \in 1 .. Len(parts) : parts[i] \in P
  BY <1>1, SequenceFacts
<1>3. P \subseteq JsonValue
  BY DEF JsonValue, Words
<1>4. /\ Piece(Comma, ",", ",", Silent) /\ Piece(Mark("["), "[", "[", Silent)
      /\ Piece(Mark("{"), "{", "{", Silent) /\ Piece(Mark("}"), "}", "}", Silent)
      /\ Piece(Mark("]"), "]", "]", Silent)
  BY MarksArePieces DEF Comma
<1>5. /\ MayFollow(",", "[") /\ MayFollow(",", "{") /\ MayFollow("[", "{")
      /\ MayFollow("{", "failure") /\ MayFollow("failure", "}") /\ MayFollow("}", ",")
      /\ MayFollow("}", "]")
  BY DEF MayFollow
<1> HIDE DEF parts
<1>6. ASSUME NEW i \in 1 .. Len(parts)
      PROVE  Piece(One(i), ",", "}", Only("failure", parts[i]))
  <2> DEFINE k == OutputJsonKey("failure", parts[i], FALSE)
             head == Comma \o (IF i = 1 THEN Mark("[") ELSE << >>)
  <2>1. Piece(k, "failure", "failure", Only("failure", parts[i]))
    <3>1. "failure" \in Names /\ parts[i] \in JsonValue
      BY <1>2, <1>3 DEF Names
    <3> QED
      BY <3>1, KeyIsPiece
  <2>2. Piece(head, ",", IF i = 1 THEN "[" ELSE ",", Silent)
    <3>1. CASE i = 1
      BY <1>4, <1>5, <3>1, SilentBefore
    <3>2. CASE i # 1
      <4>1. Comma \in Seq(JsonToken)
        BY <1>4 DEF Piece, Text
      <4>2. Comma \o << >> = Comma
        BY ONLY <4>1, NothingAdded
      <4> QED
        BY <1>4, <3>2, <4>2
    <3> QED
      BY <3>1, <3>2
  <2> HIDE DEF k, head
  <2>3. Piece(head \o Mark("{"), ",", "{", Silent)
    BY <1>4, <1>5, <2>2, SilentBefore
  <2>4. Piece(head \o Mark("{") \o k, ",", "failure", Only("failure", parts[i]))
    BY ONLY <1>5, <2>1, <2>3, SilentBefore
  <2>5. Piece(head \o Mark("{") \o k \o Mark("}"), ",", "}", Only("failure", parts[i]))
    BY ONLY <1>4, <1>5, <2>4, SilentAfter
  <2> QED
    BY <2>5 DEF k, head
<1>7. \A i \in 1 .. Len(parts) : l[i] = One(i)
  BY <1>2
<1>8. l \in Seq(R) /\ Len(l) = Len(parts) /\ DOMAIN l = 1 .. Len(parts)
  <2>1. DOMAIN l = 1 .. Len(parts)
    BY <1>2
  <2>2. l = [i \in 1 .. Len(parts) |-> One(i)]
    BY <1>2
  <2>3. \A i \in 1 .. Len(parts) : One(i) \in R
    BY <1>6 DEF Piece, Text
  <2> HIDE DEF l, R, One
  <2>4. l \in [1 .. Len(parts) -> R]
    BY <2>2, <2>3
  <2> QED
    BY <1>2, <2>1, <2>4, SequenceFrom
<1>9. JsonFailures(t) = FlattenSeq(l) \o (IF parts = << >> THEN << >> ELSE Mark("]"))
  BY DEF JsonFailures, parts
<1> HIDE DEF One
<1>10. l = << >> \/ Text(FlattenSeq(l), ",", "}")
  <2>1. \A i \in 1 .. Len(l) : Text(l[i], IF i = 1 THEN "," ELSE ",", "}")
    BY <1>6, <1>7, <1>8 DEF Piece
  <2> HIDE DEF l
  <2> QED
    BY <1>5, <1>8, <2>1, TextsFlatten
<1>11. ASSUME NEW key \in Keys
       PROVE  ValuesOf(FlattenSeq(l), key) = FailureValues(t)[key]
  <2>1. [i \in DOMAIN l |-> ValuesOf(l[i], key)]
          = [i \in 1 .. Len(parts) |-> IF key = "failure" THEN <<parts[i]>> ELSE << >>]
    <3> HIDE DEF l
    <3> QED
      BY <1>6, <1>7, <1>8 DEF Piece, Only
  <2>2. ValuesOf(FlattenSeq(l), key) = FlattenSeq([i \in DOMAIN l |-> ValuesOf(l[i], key)])
    <3> HIDE DEF l
    <3> QED
      BY <1>8, ValuesFlatten
  <2>3. CASE key = "failure"
    <3>1. [i \in DOMAIN l |-> ValuesOf(l[i], key)] = [i \in DOMAIN parts |-> <<parts[i]>>]
      BY <1>2, <2>1, <2>3
    <3>2. FlattenSeq([i \in DOMAIN parts |-> <<parts[i]>>]) = parts
      BY <1>1, FlattenSingles
    <3> QED
      BY <2>2, <2>3, <3>1, <3>2 DEF FailureValues, parts
  <2>4. CASE key # "failure"
    <3> DEFINE h == [x \in P |-> << >>]
    <3>1. [i \in DOMAIN l |-> ValuesOf(l[i], key)] = MapOver(h, parts)
      BY <1>2, <2>1, <2>4 DEF MapOver
    <3>2. h \in [P -> {<< >>}]
      OBVIOUS
    <3> HIDE DEF h
    <3>3. FlattenSeq(MapOver(h, parts)) = << >>
      BY <1>1, <3>2, FlatNothings
    <3> QED
      BY <2>2, <2>4, <3>1, <3>3 DEF FailureValues
  <2> QED
    BY <2>3, <2>4
<1> HIDE DEF l
<1>12. CASE l = << >>
  <2>1. parts = << >>
    <3>1. Len(parts) = 0
      BY <1>8, <1>12
    <3> QED
      BY <1>1, <3>1, EmptySeq
  <2>2. << >> \o << >> = << >>
    OBVIOUS
  <2> QED
    BY <1>9, <1>12, <2>1, <2>2, FlattenNone DEF parts
<1>13. CASE Text(FlattenSeq(l), ",", "}")
  <2>1. Piece(FlattenSeq(l), ",", "}", FailureValues(t))
    BY <1>11, <1>13 DEF Piece
  <2>2. Piece(FlattenSeq(l) \o Mark("]"), ",", "]", FailureValues(t))
    BY ONLY <1>4, <1>5, <2>1, SilentAfter
  <2>3. CASE parts = << >>
    <3>1. l = << >>
      <4>1. Len(l) = 0
        BY <1>8, <2>3
      <4> QED
        BY <1>8, <4>1, EmptySeq
    <3> QED
      BY <1>12, <3>1
  <2> QED
    BY <1>9, <2>2, <2>3
<1> QED
  BY <1>10, <1>12, <1>13

(* The text of a test.                                                     *)
LEMMA TestIsPiece ==
  ASSUME NEW t \in Test
  PROVE  Piece(OutputJsonTestInfo(t), "{", "}", TestValues(t))
<1>1. /\ Piece(Mark("{"), "{", "{", Silent) /\ Piece(Mark("}"), "}", "}", Silent)
  BY MarksArePieces
<1>2. /\ t \in JsonValue /\ SuiteOf[t] \in JsonValue /\ "" \in JsonValue
      /\ StatusOf(t) \in JsonValue /\ ResultOf(t) \in JsonValue
  BY DEF JsonValue, Words, Suite, StatusOf, ResultOf
<1>3. \A name \in Names, value \in JsonValue :
        /\ Piece(OutputJsonKey(name, value, TRUE), name, ",", Only(name, value))
        /\ Piece(OutputJsonKey(name, value, FALSE), name, name, Only(name, value))
  BY KeyIsPiece
<1>4. {"name", "line", "status", "result", "classname"} \subseteq Names
  BY DEF Names
<1>5. /\ MayFollow("{", "name") /\ MayFollow(",", "line") /\ MayFollow("line", "}")
      /\ MayFollow(",", "status") /\ MayFollow(",", "result") /\ MayFollow(",", "classname")
      /\ MayFollow("classname", ",") /\ MayFollow("classname", "}") /\ MayFollow("]", "}")
  BY DEF MayFollow
<1> DEFINE head == Mark("{") \o OutputJsonKey("name", t, TRUE)
<1>6. Piece(head, "{", ",", Only("name", t))
  <2>1. Piece(OutputJsonKey("name", t, TRUE), "name", ",", Only("name", t))
    BY <1>2, <1>3, <1>4
  <2> QED
    BY ONLY <1>1, <1>5, <2>1, SilentBefore
<1> HIDE DEF head
<1>7. CASE flags.list_tests
  <2> DEFINE line == OutputJsonKey("line", "", FALSE)
  <2>1. Piece(line, "line", "line", Silent)
    <3>1. Only("line", "") = Silent
      BY DEF Only, Silent, Keys
    <3> QED
      BY <1>2, <1>3, <1>4, <3>1
  <2> HIDE DEF line
  <2>2. Piece(head \o line, "{", "line", Only("name", t))
    BY ONLY <1>5, <1>6, <2>1, SilentAfter
  <2>3. Piece(head \o line \o Mark("}"), "{", "}", Only("name", t))
    BY ONLY <1>1, <1>5, <2>2, SilentAfter
  <2>4. TestValues(t) = Only("name", t)
    BY <1>7 DEF TestValues, Only, Keys
  <2> QED
    BY <1>7, <2>3, <2>4 DEF OutputJsonTestInfo, head, line
<1>8. CASE ~ flags.list_tests
  <2> DEFINE status == OutputJsonKey("status", StatusOf(t), TRUE)
             outcome == OutputJsonKey("result", ResultOf(t), TRUE)
             class == OutputJsonKey("classname", SuiteOf[t], FALSE)
             two == [key \in Keys |-> CASE key = "status" -> <<StatusOf(t)>>
                                        [] key = "result" -> <<ResultOf(t)>>
                                        [] OTHER -> << >>]
             three == [key \in Keys |-> CASE key = "status" -> <<StatusOf(t)>>
                                          [] key = "result" -> <<ResultOf(t)>>
                                          [] key = "failure" -> FailedParts(t)
                                          [] OTHER -> << >>]
  <2>1. /\ Piece(status, "status", ",", Only("status", StatusOf(t)))
        /\ Piece(outcome, "result", ",", Only("result", ResultOf(t)))
        /\ Piece(class, "classname", "classname", Silent)
    <3>1. Only("classname", SuiteOf[t]) = Silent
      BY DEF Only, Silent, Keys
    <3> QED
      BY <1>2, <1>3, <1>4, <3>1
  <2> HIDE DEF status, outcome, class
  <2>2. Piece(status \o outcome, "status", ",", two)
    <3>1. Apart(two, Only("status", StatusOf(t)), Only("result", ResultOf(t)))
      <4>1. \A key \in Keys :
              /\ Only("status", StatusOf(t))[key] = IF key = "status" THEN <<StatusOf(t)>> ELSE << >>
              /\ Only("result", ResultOf(t))[key] = IF key = "result" THEN <<ResultOf(t)>> ELSE << >>
        BY DEF Only
      <4>2. \A key \in Keys : /\ key = "status" => two[key] = <<StatusOf(t)>>
                              /\ key = "result" => two[key] = <<ResultOf(t)>>
                              /\ key \notin {"status", "result"} => two[key] = << >>
        OBVIOUS
      <4> HIDE DEF two
      <4> QED
        BY <4>1, <4>2 DEF Apart
    <3> HIDE DEF two
    <3> QED
      BY ONLY <1>5, <2>1, <3>1, PiecesApart
  <2> HIDE DEF two
  <2>3. Piece(status \o outcome \o class, "status", "classname", two)
    BY ONLY <1>5, <2>1, <2>2, SilentAfter
  <2> DEFINE tail == status \o outcome \o class \o JsonFailures(t)
  <2>4. \E last \in {"classname", "]"} : Piece(tail, "status", last, three)
    <3>1. CASE JsonFailures(t) = << >> /\ FailedParts(t) = << >>
      <4>1. status \o outcome \o class \in Seq(JsonToken)
        BY <2>3 DEF Piece, Text
      <4>2. (status \o outcome \o class) \o << >> = status \o outcome \o class
        BY ONLY <4>1, NothingAdded
      <4>3. three = two
        BY <3>1 DEF two
      <4> QED
        BY <2>3, <3>1, <4>2, <4>3
    <3>2. CASE Piece(JsonFailures(t), ",", "]", FailureValues(t))
      <4>1. Apart(three, two, FailureValues(t))
        BY DEF two, FailureValues, Keys, Apart
      <4> HIDE DEF three
      <4>2. Piece(tail, "status", "]", three)
        BY ONLY <1>5, <2>3, <3>2, <4>1, PiecesApart
      <4> QED
        BY <4>2
    <3> QED
      BY <3>1, <3>2, FailuresArePiece
  <2> HIDE DEF three, tail
  <2>5. PICK last \in {"classname", "]"} : Piece(tail, "status", last, three)
    BY <2>4
  <2>6. Piece(head \o tail, "{", last, TestValues(t))
    <3>1. Apart(TestValues(t), Only("name", t), three)
      <4>1. \A key \in Keys :
              /\ key = "name" => Only("name", t)[key] = <<t>> /\ three[key] = << >>
              /\ key # "name" => Only("name", t)[key] = << >>
        BY DEF Only, three
      <4>2. TestValues(t)["name"] = <<t>>
        BY DEF TestValues, Keys
      <4>3. \A key \in Keys \ {"name"} : TestValues(t)[key] = three[key]
        BY <1>8 DEF TestValues, three
      <4> QED
        BY <4>1, <4>2, <4>3 DEF Apart
    <3> QED
      BY ONLY <1>5, <1>6, <2>5, <3>1, PiecesApart
  <2>7. MayFollow(last, "}")
    BY <1>5, <2>5
  <2>8. Piece(head \o tail \o Mark("}"), "{", "}", TestValues(t))
    BY ONLY <1>1, <2>6, <2>7, SilentAfter
  <2> QED
    BY <1>8, <2>8 DEF OutputJsonTestInfo, head, tail, status, outcome, class
<1> QED
  BY <1>7, <1>8

(* A list of what is written for each element.                             *)
SaysOf(v, S, key) == [x \in S |-> v[x][key]]
ListSays(v, S, s) == [key \in Keys |-> FlattenSeq(MapOver(SaysOf(v, S, key), s))]

LEMMA ListOfPieces ==
  ASSUME NEW S, NEW h, NEW v, \A x \in S : Piece(h[x], "{", "}", v[x])
  PROVE  \A s \in Seq(S) : Piece(Listed(MapOver(h, s)), "[", "]", ListSays(v, S, s))
<1> TAKE s \in Seq(S)
<1> DEFINE items == MapOver(h, s)
           R == Seq(JsonToken)
<1>1. DOMAIN s = 1 .. Len(s) /\ Len(s) \in Nat /\ \A i \in 1 .. Len(s) : s[i] \in S
  BY SequenceFacts
<1>2. \A i \in 1 .. Len(s) : items[i] = h[s[i]] /\ Piece(items[i], "{", "}", v[s[i]])
  BY <1>1 DEF MapOver
<1>3. items \in Seq(R) /\ Len(items) = Len(s) /\ DOMAIN items = 1 .. Len(s)
  <2>1. \A i \in 1 .. Len(s) : items[i] \in R
    BY <1>2 DEF Piece, Text
  <2>2. DOMAIN items = 1 .. Len(s) /\ items = [i \in 1 .. Len(s) |-> h[s[i]]]
    BY <1>1 DEF MapOver
  <2> HIDE DEF items, R
  <2>3. items \in [1 .. Len(s) -> R]
    BY <2>1, <2>2
  <2> QED
    BY <1>1, <2>2, <2>3, SequenceFrom
<1> HIDE DEF items
<1>4. \A i \in 1 .. Len(items) : Text(items[i], "{", "}")
  BY <1>2, <1>3 DEF Piece
<1>5. Piece(Listed(items), "[", "]",
            [key \in Keys |-> FlattenSeq([i \in DOMAIN items |-> ValuesOf(items[i], key)])])
  BY <1>3, <1>4, ListIsPiece
<1>6. ASSUME NEW key \in Keys
      PROVE  [i \in DOMAIN items |-> ValuesOf(items[i], key)] = MapOver(SaysOf(v, S, key), s)
  <2>1. \A i \in 1 .. Len(s) : ValuesOf(items[i], key) = v[s[i]][key]
    BY <1>2 DEF Piece
  <2>2. \A i \in 1 .. Len(s) : SaysOf(v, S, key)[s[i]] = v[s[i]][key]
    BY <1>1 DEF SaysOf
  <2> QED
    BY <1>1, <1>3, <2>1, <2>2 DEF MapOver
<1>7. [key \in Keys |-> FlattenSeq([i \in DOMAIN items |-> ValuesOf(items[i], key)])]
        = ListSays(v, S, s)
  BY <1>6 DEF ListSays
<1> QED
  BY <1>5, <1>7 DEF items

(* One more key of an object, with a comma after it.                       *)
LEMMA KeyAdded ==
  ASSUME NEW a, NEW u, NEW v, Piece(a, "{", ",", v), NEW name \in Names, NEW value \in JsonValue,
         Apart(u, v, Only(name, value))
  PROVE  Piece(a \o OutputJsonKey(name, value, TRUE), "{", ",", u)
<1>1. Piece(OutputJsonKey(name, value, TRUE), name, ",", Only(name, value))
  BY KeyIsPiece
<1>2. MayFollow(",", name)
  BY DEF MayFollow, Names
<1> QED
  BY ONLY <1>1, <1>2, Piece(a, "{", ",", v), Apart(u, v, Only(name, value)), PiecesApart

LEMMA SilentApart ==
  ASSUME NEW name, name \notin Keys, NEW value, NEW v
  PROVE  Apart(v, v, Only(name, value))
BY DEF Apart, Only

(* "time" has its comma written separately, and no key that is looked for. *)
LEMMA TimeAdded ==
  ASSUME NEW a, NEW v, Piece(a, "{", ",", v)
  PROVE  Piece(a \o OutputJsonKey("time", "", FALSE) \o Comma, "{", ",", v)
<1>1. Piece(OutputJsonKey("time", "", FALSE), "time", "time", Silent)
  <2>1. "time" \in Names /\ "" \in JsonValue
    BY DEF Names, JsonValue, Words
  <2>2. Only("time", "") = Silent
    BY DEF Only, Silent, Keys
  <2> QED
    BY <2>1, <2>2, KeyIsPiece
<1>2. MayFollow(",", "time") /\ MayFollow("time", ",")
  BY DEF MayFollow
<1>3. Piece(a \o OutputJsonKey("time", "", FALSE), "{", "time", v)
  BY ONLY <1>1, <1>2, Piece(a, "{", ",", v), SilentAfter
<1> QED
  BY ONLY <1>2, <1>3, CommaIsPiece, SilentAfter

(* An object that ends with a list.                                        *)
LEMMA ListAdded ==
  ASSUME NEW a, NEW b, NEW u, NEW v, NEW w, Piece(a, "{", ",", v), Piece(b, "[", "]", w),
         \A key \in Keys : u[key] = v[key] \o w[key]
  PROVE  Piece(a \o b \o Mark("}"), "{", "}", u)
<1>1. MayFollow(",", "[") /\ MayFollow("]", "}")
  BY DEF MayFollow
<1>2. Piece(a \o b, "{", "]", u)
  <2>1. \A key \in Keys : \/ u[key] = v[key] \o w[key]
                          \/ v[key] = << >> /\ u[key] = w[key]
                          \/ w[key] = << >> /\ u[key] = v[key]
    OBVIOUS
  <2>2. Piece(a, "{", ",", v) /\ Piece(b, "[", "]", w) /\ MayFollow(",", "[")
    BY <1>1
  <2> QED
    BY ONLY <2>1, <2>2, PiecesJoin
<1>3. Piece(Mark("}"), "}", "}", Silent)
  BY MarksArePieces
<1> QED
  BY ONLY <1>1, <1>2, <1>3, SilentAfter

-----------------------------------------------------------------------------
(* What a suite says of each key: its own values, then those of its tests. *)
TestSays == [t \in Test |-> TestValues(t)]

(* The values of an object: its name and its numbers.                      *)
HeadValues(name, tests, failures) ==
  [key \in Keys |-> CASE key = "name" -> <<name>>
                      [] key = "tests" -> <<tests>>
                      [] key = "failures" /\ ~ flags.list_tests -> <<failures>>
                      [] OTHER -> << >>]

SuiteValues(s) ==
  [key \in Keys |->
     HeadValues(s, reportable_test_count[s], failed_test_count[s])[key]
       \o ListSays(TestSays, Test, ReportedTests(s))[key]]

LEMMA TestListIsPiece ==
  ASSUME InOrder, NEW s \in Suite
  PROVE  Piece(Listed(JsonTests(ReportedTests(s))), "[", "]",
               ListSays(TestSays, Test, ReportedTests(s)))
<1> DEFINE h == [t \in Test |-> OutputJsonTestInfo(t)]
           tests == ReportedTests(s)
<1>1. tests \in Seq(Test)
  BY XmlTestsAre
<1>2. \A t \in Test : Piece(h[t], "{", "}", TestSays[t])
  BY TestIsPiece DEF TestSays
<1>3. JsonTests(tests) = MapOver(h, tests)
  <2>1. \A j \in DOMAIN tests : tests[j] \in Test
    BY <1>1
  <2> HIDE DEF tests
  <2> QED
    BY <2>1 DEF JsonTests, MapOver
<1> HIDE DEF h, tests
<1>4. Piece(Listed(MapOver(h, tests)), "[", "]", ListSays(TestSays, Test, tests))
  BY <1>1, <1>2, ListOfPieces
<1> QED
  BY <1>3, <1>4 DEF tests

LEMMA CountsAreNumbers ==
  ASSUME InOrder
  PROVE  /\ \A s \in Suite :
              /\ reportable_test_count[s] \in Nat /\ failed_test_count[s] \in Nat
              /\ reportable_disabled_test_count[s] \in Nat
         /\ SumOverTestSuiteList(reportable_test_count) \in Nat
         /\ SumOverTestSuiteList(failed_test_count) \in Nat
         /\ SumOverTestSuiteList(reportable_disabled_test_count) \in Nat
<1>1. /\ Listable \subseteq Test /\ RunFailed \subseteq Test
      /\ {t \in Test : TestReportableDisabled(t)} \subseteq Test
  BY DEF Listable, RunFailed
<1>2. \A members \in SUBSET Test :
        /\ Counts(members) \in [Suite -> Nat]
        /\ SumOverTestSuiteList(Counts(members)) = Cardinality(members)
        /\ Cardinality(members) \in Nat
  BY SumsAreNumbers, ListedBySuite
<1> QED
  BY <1>1, <1>2, CountsAre

LEMMA SuiteIsPiece ==
  ASSUME InOrder, NEW s \in Suite
  PROVE  Piece(PrintJsonTestSuite(s), "{", "}", SuiteValues(s))
<1> DEFINE n == reportable_test_count[s]
           f == failed_test_count[s]
           d == reportable_disabled_test_count[s]
           list == Listed(JsonTests(ReportedTests(s)))
           two == [key \in Keys |-> CASE key = "name" -> <<s>>
                                      [] key = "tests" -> <<n>>
                                      [] OTHER -> << >>]
           v == HeadValues(s, n, f)
<1>1. s \in JsonValue /\ n \in JsonValue /\ f \in JsonValue /\ d \in JsonValue
  BY CountsAreNumbers DEF JsonValue
<1>2. {"name", "tests", "failures", "disabled"} \subseteq Names
  BY DEF Names
<1>3. Piece(list, "[", "]", ListSays(TestSays, Test, ReportedTests(s)))
  BY TestListIsPiece
<1>4. \A key \in Keys :
        SuiteValues(s)[key] = v[key] \o ListSays(TestSays, Test, ReportedTests(s))[key]
  BY DEF SuiteValues
<1> HIDE DEF n, f, d, list
<1> DEFINE a == Mark("{") \o OutputJsonKey("name", s, TRUE)
           b == a \o OutputJsonKey("tests", n, TRUE)
           c == OutputJsonKey("failures", f, TRUE)
           e == OutputJsonKey("disabled", d, TRUE)
           g == OutputJsonKey("time", "", FALSE)
<1>5. Piece(a, "{", ",", Only("name", s))
  <2>1. Piece(Mark("{"), "{", "{", Silent)
    BY MarksArePieces
  <2>2. Piece(OutputJsonKey("name", s, TRUE), "name", ",", Only("name", s))
    BY <1>1, <1>2, KeyIsPiece
  <2>3. MayFollow("{", "name")
    BY DEF MayFollow
  <2> QED
    BY ONLY <2>1, <2>2, <2>3, SilentBefore
<1> HIDE DEF a
<1>6. Piece(b, "{", ",", two)
  <2>1. Apart(two, Only("name", s), Only("tests", n))
    <3>1. \A key \in Keys :
            /\ Only("name", s)[key] = IF key = "name" THEN <<s>> ELSE << >>
            /\ Only("tests", n)[key] = IF key = "tests" THEN <<n>> ELSE << >>
      BY DEF Only
    <3>2. \A key \in Keys : /\ key = "name" => two[key] = <<s>>
                            /\ key = "tests" => two[key] = <<n>>
                            /\ key \notin {"name", "tests"} => two[key] = << >>
      OBVIOUS
    <3> HIDE DEF two
    <3> QED
      BY <3>1, <3>2 DEF Apart
  <2> HIDE DEF two
  <2> QED
    BY <1>1, <1>2, <1>5, <2>1, KeyAdded
<1>7. CASE flags.list_tests
  <2>1. v = two
    BY <1>7 DEF HeadValues
  <2>2. b \o << >> = b
    <3>1. b \in Seq(JsonToken)
      BY <1>6 DEF Piece, Text
    <3> QED
      BY ONLY <3>1, NothingAdded
  <2> HIDE DEF two, v, b
  <2>3. Piece(b \o list \o Mark("}"), "{", "}", SuiteValues(s))
    BY <1>3, <1>4, <1>6, <2>1, ListAdded
  <2> QED
    BY <1>7, <2>2, <2>3 DEF PrintJsonTestSuite, a, b, n, f, d, list
<1>8. CASE ~ flags.list_tests
  <2>1. Apart(v, two, Only("failures", f))
    <3>1. \A key \in Keys : Only("failures", f)[key] = IF key = "failures" THEN <<f>> ELSE << >>
      BY DEF Only
    <3>2. \A key \in Keys : /\ key = "failures" => two[key] = << >> /\ v[key] = <<f>>
                            /\ key # "failures" => two[key] = v[key]
      BY <1>8 DEF HeadValues
    <3> HIDE DEF two, v
    <3> QED
      BY <3>1, <3>2 DEF Apart
  <2>2. Piece(c, "failures", ",", Only("failures", f)) /\ Piece(e, "disabled", ",", Silent)
        /\ Piece(g, "time", "time", Silent)
    <3>1. Only("disabled", d) = Silent /\ Only("time", "") = Silent
      BY DEF Only, Silent, Keys
    <3>2. "time" \in Names /\ "" \in JsonValue
      BY DEF Names, JsonValue, Words
    <3> QED
      BY <1>1, <1>2, <3>1, <3>2, KeyIsPiece
  <2> HIDE DEF two, v, b, c, e, g
  <2>3. /\ MayFollow(",", "failures") /\ MayFollow(",", "disabled") /\ MayFollow(",", "time")
        /\ MayFollow("time", ",")
    BY DEF MayFollow
  <2>4. Piece(c \o e, "failures", ",", Only("failures", f))
    BY ONLY <2>2, <2>3, SilentAfter
  <2>5. Piece(c \o e \o g, "failures", "time", Only("failures", f))
    BY ONLY <2>2, <2>3, <2>4, SilentAfter
  <2>6. Piece(c \o e \o g \o Comma, "failures", ",", Only("failures", f))
    BY ONLY <2>3, <2>5, CommaIsPiece, SilentAfter
  <2>7. Piece(b \o (c \o e \o g \o Comma), "{", ",", v)
    BY ONLY <1>6, <2>1, <2>3, <2>6, PiecesApart
  <2>8. Piece(b \o (c \o e \o g \o Comma) \o list \o Mark("}"), "{", "}", SuiteValues(s))
    BY <1>3, <1>4, <2>7, ListAdded
  <2> QED
    BY <1>8, <2>8 DEF PrintJsonTestSuite, a, b, c, e, g, n, f, d, list
<1> QED
  BY <1>7, <1>8

SuiteSays == [s \in Suite |-> SuiteValues(s)]

(* What a report says of each key.                                         *)
ReportValues(tests, failures, suites) ==
  [key \in Keys |-> HeadValues("AllTests", tests, failures)[key]
                      \o ListSays(SuiteSays, Suite, suites)[key]]

LEMMA SuiteListIsPiece ==
  ASSUME InOrder, NEW suites \in Seq(Suite)
  PROVE  Piece(Listed(JsonSuites(suites)), "[", "]", ListSays(SuiteSays, Suite, suites))
<1> DEFINE h == [s \in Suite |-> PrintJsonTestSuite(s)]
<1>1. \A s \in Suite : Piece(h[s], "{", "}", SuiteSays[s])
  BY SuiteIsPiece DEF SuiteSays
<1>2. JsonSuites(suites) = MapOver(h, suites)
  <2>1. \A j \in DOMAIN suites : suites[j] \in Suite
    OBVIOUS
  <2> QED
    BY <2>1 DEF JsonSuites, MapOver
<1> HIDE DEF h
<1>3. Piece(Listed(MapOver(h, suites)), "[", "]", ListSays(SuiteSays, Suite, suites))
  BY <1>1, ListOfPieces
<1> QED
  BY <1>2, <1>3

LEMMA FirstKey ==
  ASSUME NEW name \in Names, NEW value \in JsonValue
  PROVE  Piece(Mark("{") \o OutputJsonKey(name, value, TRUE), "{", ",", Only(name, value))
<1>1. Piece(Mark("{"), "{", "{", Silent)
  BY MarksArePieces
<1>2. Piece(OutputJsonKey(name, value, TRUE), name, ",", Only(name, value))
  BY KeyIsPiece
<1>3. MayFollow("{", name)
  BY DEF MayFollow, Names
<1> QED
  BY ONLY <1>1, <1>2, <1>3, SilentBefore

LEMMA UnitIsPiece ==
  ASSUME InOrder, ~ flags.list_tests
  PROVE  Piece(PrintJsonUnitTest, "{", "}",
               ReportValues(SumOverTestSuiteList(reportable_test_count),
                            SumOverTestSuiteList(failed_test_count), ReportedSuites))
<1> DEFINE n == SumOverTestSuiteList(reportable_test_count)
           f == SumOverTestSuiteList(failed_test_count)
           d == SumOverTestSuiteList(reportable_disabled_test_count)
           list == Listed(JsonSuites(ReportedSuites))
           a == Mark("{") \o OutputJsonKey("tests", n, TRUE)
           b == a \o OutputJsonKey("failures", f, TRUE)
           c == b \o OutputJsonKey("disabled", d, TRUE)
           e == c \o OutputJsonKey("time", "", FALSE) \o Comma
           g == e \o OutputJsonKey("name", "AllTests", TRUE)
           two == [key \in Keys |-> CASE key = "tests" -> <<n>>
                                      [] key = "failures" -> <<f>>
                                      [] OTHER -> << >>]
           v == HeadValues("AllTests", n, f)
           w == ListSays(SuiteSays, Suite, ReportedSuites)
<1>1. /\ n \in JsonValue /\ f \in JsonValue /\ d \in JsonValue /\ "AllTests" \in JsonValue
      /\ {"name", "tests", "failures", "disabled"} \subseteq Names
  BY CountsAreNumbers DEF JsonValue, Words, Names
<1>2. Piece(list, "[", "]", w)
  <2>1. ReportedSuites \in Seq(Suite)
    BY ShownSuites
  <2> QED
    BY <2>1, SuiteListIsPiece
<1>3. \A key \in Keys : ReportValues(n, f, ReportedSuites)[key] = v[key] \o w[key]
  BY DEF ReportValues
<1> HIDE DEF n, f, d, list, w
<1>4. Apart(two, Only("tests", n), Only("failures", f))
  <2>1. \A key \in Keys :
          /\ Only("tests", n)[key] = IF key = "tests" THEN <<n>> ELSE << >>
          /\ Only("failures", f)[key] = IF key = "failures" THEN <<f>> ELSE << >>
    BY DEF Only
  <2>2. \A key \in Keys : /\ key = "tests" => two[key] = <<n>>
                          /\ key = "failures" => two[key] = <<f>>
                          /\ key \notin {"tests", "failures"} => two[key] = << >>
    OBVIOUS
  <2> HIDE DEF two
  <2> QED
    BY <2>1, <2>2 DEF Apart
<1>5. Apart(v, two, Only("name", "AllTests"))
  <2>1. \A key \in Keys :
          Only("name", "AllTests")[key] = IF key = "name" THEN <<"AllTests">> ELSE << >>
    BY DEF Only
  <2>2. \A key \in Keys : /\ key = "name" => two[key] = << >> /\ v[key] = <<"AllTests">>
                          /\ key # "name" => two[key] = v[key]
    BY DEF HeadValues
  <2> HIDE DEF two, v
  <2> QED
    BY <2>1, <2>2 DEF Apart
<1> HIDE DEF two, v
<1>6. Piece(a, "{", ",", Only("tests", n))
  BY <1>1, FirstKey
<1> HIDE DEF a
<1>7. Piece(b, "{", ",", two)
  BY <1>1, <1>4, <1>6, KeyAdded
<1> HIDE DEF b
<1>8. Piece(c, "{", ",", two)
  <2>1. Apart(two, two, Only("disabled", d))
    <3>1. "disabled" \notin Keys
      BY DEF Keys
    <3> QED
      BY <3>1, SilentApart
  <2> QED
    BY <1>1, <1>7, <2>1, KeyAdded
<1> HIDE DEF c
<1>9. Piece(e, "{", ",", two)
  BY <1>8, TimeAdded
<1> HIDE DEF e
<1>10. Piece(g, "{", ",", v)
  BY <1>1, <1>5, <1>9, KeyAdded
<1> HIDE DEF g
<1>11. Piece(g \o list \o Mark("}"), "{", "}", ReportValues(n, f, ReportedSuites))
  BY <1>2, <1>3, <1>10, ListAdded
<1> QED
  BY <1>11 DEF PrintJsonUnitTest, a, b, c, e, g, n, f, d, list

LEMMA TestListReportIsPiece ==
  ASSUME InOrder, flags.list_tests, NEW failures,
         SumOverTestSuiteList(total_test_count) \in Nat
  PROVE  Piece(PrintJsonTestList, "{", "}",
               ReportValues(SumOverTestSuiteList(total_test_count), failures, test_suites))
<1> DEFINE n == SumOverTestSuiteList(total_test_count)
           list == Listed(JsonSuites(test_suites))
           a == Mark("{") \o OutputJsonKey("tests", n, TRUE)
           b == a \o OutputJsonKey("name", "AllTests", TRUE)
           v == HeadValues("AllTests", n, failures)
           w == ListSays(SuiteSays, Suite, test_suites)
<1>1. /\ n \in JsonValue /\ "AllTests" \in JsonValue /\ {"name", "tests"} \subseteq Names
  BY DEF JsonValue, Words, Names
<1>2. Piece(list, "[", "]", w)
  BY SuitesOnce, SuiteListIsPiece
<1>3. \A key \in Keys : ReportValues(n, failures, test_suites)[key] = v[key] \o w[key]
  BY DEF ReportValues
<1> HIDE DEF n, list, w
<1>4. Apart(v, Only("tests", n), Only("name", "AllTests"))
  <2>1. \A key \in Keys :
          /\ Only("tests", n)[key] = IF key = "tests" THEN <<n>> ELSE << >>
          /\ Only("name", "AllTests")[key] = IF key = "name" THEN <<"AllTests">> ELSE << >>
    BY DEF Only
  <2>2. \A key \in Keys : /\ key = "tests" => v[key] = <<n>>
                          /\ key = "name" => v[key] = <<"AllTests">>
                          /\ key \notin {"tests", "name"} => v[key] = << >>
    BY DEF HeadValues
  <2> HIDE DEF v
  <2> QED
    BY <2>1, <2>2 DEF Apart
<1> HIDE DEF v
<1>5. Piece(a, "{", ",", Only("tests", n))
  BY <1>1, FirstKey
<1> HIDE DEF a
<1>6. Piece(b, "{", ",", v)
  BY <1>1, <1>4, <1>5, KeyAdded
<1> HIDE DEF b
<1>7. Piece(b \o list \o Mark("}"), "{", "}", ReportValues(n, failures, test_suites))
  BY <1>2, <1>3, <1>6, ListAdded
<1> QED
  BY <1>7 DEF PrintJsonTestList, a, b, n, list

-----------------------------------------------------------------------------
(***************************************************************************)
(* The JSON report says what the XML report says.                          *)
(***************************************************************************)

(* What the tests of a suite say of each key.                              *)
LEMMA TestsSay ==
  ASSUME NEW key \in Keys
  PROVE  /\ key \in {"tests", "failures"} => SaysOf(TestSays, Test, key) \in [Test -> {<< >>}]
         /\ key = "name" => \A t \in Test : SaysOf(TestSays, Test, key)[t] = <<t>>
         /\ ~ flags.list_tests => \A t \in Test :
              /\ key = "status" => SaysOf(TestSays, Test, key)[t] = <<StatusOf(t)>>
              /\ key = "result" => SaysOf(TestSays, Test, key)[t] = <<ResultOf(t)>>
              /\ key = "failure" => SaysOf(TestSays, Test, key)[t] = FailedParts(t)
         /\ SaysOf(TestSays, Test, key) \in [Test -> Seq(JsonValue)]
<1>1. \A t \in Test : SaysOf(TestSays, Test, key)[t] = TestValues(t)[key]
  BY DEF SaysOf, TestSays
<1>2. \A t \in Test : key \in {"tests", "failures"} => TestValues(t)[key] = << >>
  BY DEF TestValues
<1>3. \A t \in Test : key = "name" => TestValues(t)[key] = <<t>>
  BY DEF TestValues
<1>4. ~ flags.list_tests => \A t \in Test :
        /\ key = "status" => TestValues(t)[key] = <<StatusOf(t)>>
        /\ key = "result" => TestValues(t)[key] = <<ResultOf(t)>>
        /\ key = "failure" => TestValues(t)[key] = FailedParts(t)
  BY DEF TestValues
<1>5. \A t \in Test : TestValues(t)[key] \in Seq(JsonValue)
  <2> TAKE t \in Test
  <2>1. OutputJsonTestInfo(t) \in Seq(JsonToken)
        /\ ValuesOf(OutputJsonTestInfo(t), key) = TestValues(t)[key]
    BY TestIsPiece DEF Piece, Text
  <2> QED
    BY <2>1, ValuesJoin
<1>6. SaysOf(TestSays, Test, key) = [t \in Test |-> SaysOf(TestSays, Test, key)[t]]
  BY DEF SaysOf
<1>7. SaysOf(TestSays, Test, key) \in [Test -> Seq(JsonValue)]
  BY <1>1, <1>5, <1>6
<1>8. key \in {"tests", "failures"} => SaysOf(TestSays, Test, key) \in [Test -> {<< >>}]
  BY <1>1, <1>2, <1>6
<1> QED
  BY <1>1, <1>3, <1>4, <1>7, <1>8

(* What a suite says of each key.                                          *)
LEMMA SuiteSaysOf ==
  ASSUME NEW key \in Keys
  PROVE  \A s \in Suite :
           SaysOf(SuiteSays, Suite, key)[s]
             = HeadValues(s, reportable_test_count[s], failed_test_count[s])[key]
                 \o FlattenSeq(MapOver(SaysOf(TestSays, Test, key), ReportedTests(s)))
BY DEF SaysOf, SuiteSays, SuiteValues, ListSays

(* The numbers.                                                            *)
LEMMA NumbersAreSaid ==
  ASSUME InOrder, NEW suites \in Seq(Suite)
  PROVE  /\ ListSays(SuiteSays, Suite, suites)["tests"] = MapOver(Counts(Listable), suites)
         /\ ~ flags.list_tests =>
              ListSays(SuiteSays, Suite, suites)["failures"] = MapOver(Counts(RunFailed), suites)
<1>1. Listable \subseteq Test /\ RunFailed \subseteq Test
  BY DEF Listable, RunFailed
<1>2. /\ Counts(Listable) \in [Suite -> Nat] /\ reportable_test_count = Counts(Listable)
      /\ Counts(RunFailed) \in [Suite -> Nat] /\ failed_test_count = Counts(RunFailed)
  BY <1>1, SumsAreNumbers, CountsAre
<1>3. "tests" \in Keys /\ "failures" \in Keys
  BY DEF Keys
<1>4. ASSUME NEW key \in {"tests", "failures"}
      PROVE  \A s \in Suite : SaysOf(SuiteSays, Suite, key)[s]
               = HeadValues(s, reportable_test_count[s], failed_test_count[s])[key] \o << >>
  <2> TAKE s \in Suite
  <2>1. ReportedTests(s) \in Seq(Test)
    BY XmlTestsAre
  <2>2. FlattenSeq(MapOver(SaysOf(TestSays, Test, key), ReportedTests(s))) = << >>
    <3>1. SaysOf(TestSays, Test, key) \in [Test -> {<< >>}]
      BY <1>3, TestsSay
    <3> QED
      BY <2>1, <3>1, FlatNothings
  <2> QED
    BY <1>3, <2>2, SuiteSaysOf
<1>5. \A x : <<x>> \o << >> = <<x>>
  <2> TAKE x
  <2>1. <<x>> \in Seq({x})
    OBVIOUS
  <2> QED
    BY ONLY <2>1, NothingAdded
<1>6. \A s \in Suite : SaysOf(SuiteSays, Suite, "tests")[s] = <<Counts(Listable)[s]>>
  <2> TAKE s \in Suite
  <2>1. HeadValues(s, reportable_test_count[s], failed_test_count[s])["tests"]
          = <<reportable_test_count[s]>>
    BY <1>3 DEF HeadValues
  <2> QED
    BY <1>2, <1>4, <1>5, <2>1
<1>7. ~ flags.list_tests =>
        \A s \in Suite : SaysOf(SuiteSays, Suite, "failures")[s] = <<Counts(RunFailed)[s]>>
  <2> HAVE ~ flags.list_tests
  <2> TAKE s \in Suite
  <2>1. HeadValues(s, reportable_test_count[s], failed_test_count[s])["failures"]
          = <<failed_test_count[s]>>
    BY <1>3 DEF HeadValues
  <2> QED
    BY <1>2, <1>4, <1>5, <2>1
<1>8. /\ ListSays(SuiteSays, Suite, suites)["tests"]
           = FlattenSeq(MapOver(SaysOf(SuiteSays, Suite, "tests"), suites))
      /\ ListSays(SuiteSays, Suite, suites)["failures"]
           = FlattenSeq(MapOver(SaysOf(SuiteSays, Suite, "failures"), suites))
  BY <1>3 DEF ListSays
<1>9. FlattenSeq(MapOver(SaysOf(SuiteSays, Suite, "tests"), suites))
        = MapOver(Counts(Listable), suites)
  <2>1. Singles(SaysOf(SuiteSays, Suite, "tests"), Counts(Listable), Suite)
    BY <1>6 DEF Singles
  <2>2. Counts(Listable) \in [Suite -> Nat]
    BY <1>2
  <2>3. SinglesFlatten(SaysOf(SuiteSays, Suite, "tests"), Counts(Listable), Suite)
    BY ONLY <2>1, <2>2, FlatSingles
  <2> QED
    BY <2>3 DEF SinglesFlatten
<1>10. ~ flags.list_tests =>
         FlattenSeq(MapOver(SaysOf(SuiteSays, Suite, "failures"), suites))
           = MapOver(Counts(RunFailed), suites)
  <2> HAVE ~ flags.list_tests
  <2>1. Singles(SaysOf(SuiteSays, Suite, "failures"), Counts(RunFailed), Suite)
    BY <1>7 DEF Singles
  <2>2. Counts(RunFailed) \in [Suite -> Nat]
    BY <1>2
  <2>3. SinglesFlatten(SaysOf(SuiteSays, Suite, "failures"), Counts(RunFailed), Suite)
    BY ONLY <2>1, <2>2, FlatSingles
  <2> QED
    BY <2>3 DEF SinglesFlatten
<1> QED
  BY <1>8, <1>9, <1>10

(* The names.                                                              *)
LEMMA NamesAreSaid ==
  ASSUME InOrder, NEW suites \in Seq(Suite)
  PROVE  ListSays(SuiteSays, Suite, suites)["name"]
           = FlattenSeq([i \in DOMAIN XmlSuites(suites) |->
                           <<XmlSuites(suites)[i].name>>
                             \o Field(XmlSuites(suites)[i].testcases, "name")])
<1> DEFINE k == SaysOf(TestSays, Test, "name")
           own == [t \in Test |-> t]
<1>1. "name" \in Keys
  BY DEF Keys
<1>2. \A t \in Test : k[t] = <<own[t]>>
  BY <1>1, TestsSay
<1>3. own \in [Test -> Test]
  OBVIOUS
<1> HIDE DEF k
<1>4. ASSUME NEW s \in Suite
      PROVE  SaysOf(SuiteSays, Suite, "name")[s] = <<s>> \o Field(XmlTests(s), "name")
  <2> DEFINE tests == ReportedTests(s)
  <2>1. tests \in Seq(Test) /\ XmlTests(s) = MapOver(Case, tests)
    BY XmlTestsAre
  <2>2. DOMAIN tests = 1 .. Len(tests) /\ \A j \in 1 .. Len(tests) : tests[j] \in Test
    BY <2>1, SequenceFacts
  <2> HIDE DEF tests
  <2>3. FlattenSeq(MapOver(k, tests)) = MapOver(own, tests)
    <3> HIDE DEF own
    <3>1. Singles(k, own, Test)
      BY <1>2 DEF Singles
    <3>2. SinglesFlatten(k, own, Test)
      BY ONLY <1>3, <3>1, FlatSingles
    <3> QED
      BY <2>1, <3>2 DEF SinglesFlatten
  <2>4. MapOver(own, tests) = [j \in 1 .. Len(tests) |-> tests[j]]
    BY <2>2 DEF MapOver
  <2>5. Field(XmlTests(s), "name") = [j \in 1 .. Len(tests) |-> tests[j]]
    <3>1. DOMAIN XmlTests(s) = 1 .. Len(tests)
      BY <2>1, <2>2 DEF MapOver
    <3>2. \A j \in 1 .. Len(tests) : XmlTests(s)[j]["name"] = tests[j]
      <4> TAKE j \in 1 .. Len(tests)
      <4>1. XmlTests(s)[j] = Case[tests[j]]
        BY <2>1, <2>2 DEF MapOver
      <4> QED
        BY <2>2, <4>1, CaseNames
    <3> QED
      BY <3>1, <3>2 DEF Field
  <2>6. HeadValues(s, reportable_test_count[s], failed_test_count[s])["name"] = <<s>>
    BY <1>1 DEF HeadValues
  <2> QED
    BY <1>1, <2>3, <2>4, <2>5, <2>6, SuiteSaysOf DEF k, tests
<1>5. /\ DOMAIN XmlSuites(suites) = DOMAIN suites
      /\ \A i \in DOMAIN suites :
              /\ suites[i] \in Suite
              /\ XmlSuites(suites)[i].name = suites[i]
              /\ XmlSuites(suites)[i].testcases = XmlTests(suites[i])
  BY XmlSuitesAre
<1>6. MapOver(SaysOf(SuiteSays, Suite, "name"), suites)
        = [i \in DOMAIN XmlSuites(suites) |->
             <<XmlSuites(suites)[i].name>> \o Field(XmlSuites(suites)[i].testcases, "name")]
  BY <1>4, <1>5 DEF MapOver
<1> QED
  BY <1>1, <1>6 DEF ListSays

(* What only a test says is said of the tests of all suites, one after     *)
(* another.                                                                *)
LEMMA TestsAreSaid ==
  ASSUME InOrder, ~ flags.list_tests, NEW suites, suites \in {ReportedSuites, test_suites},
         NEW key \in {"status", "result", "failure"}
  PROVE  ListSays(SuiteSays, Suite, suites)[key]
           = FlattenSeq(MapOver(SaysOf(TestSays, Test, key), ListBySuite(Listable)))
<1> DEFINE k == SaysOf(TestSays, Test, key)
           shown == ShownOf(Listable)
           h == FlatMap(k, Test)
           l == MapOver(shown, suites)
<1>1. key \in Keys
  BY DEF Keys
<1>2. k \in [Test -> Seq(JsonValue)]
  BY <1>1, TestsSay
<1>3. /\ suites \in Seq(Suite)
      /\ FlattenSeq(l) = ListBySuite(Listable)
  BY ShownSuites
<1>4. shown \in [Suite -> Seq(Test)] /\ \A s \in Suite : ReportedTests(s) = shown[s]
  BY ShownOfSuite, ReportedTestsAre
<1> HIDE DEF shown
<1>5. Concatenates(h, Test, JsonValue)
  <2> HIDE DEF k
  <2> QED
    BY <1>2, FlatMapConcatenates
<1>6. \A tests \in Seq(Test) : h[tests] = FlattenSeq(MapOver(k, tests))
  BY DEF FlatMap
<1>7. l \in Seq(Seq(Test))
  <2>1. MapsOver(shown, Suite, Seq(Test))
    BY <1>4, MapProperties
  <2> QED
    BY <1>3, <2>1 DEF MapsOver
<1> HIDE DEF h
<1>8. h[FlattenSeq(l)] = FlattenSeq(MapOver(h, l))
  <2>1. FlattensAs(h, Test)
    BY <1>5, ConcatenatesFlattened
  <2> QED
    BY <1>7, <2>1 DEF FlattensAs
<1>9. MapOver(SaysOf(SuiteSays, Suite, key), suites) = MapOver(h, l)
  <2>1. \A s \in Suite : SaysOf(SuiteSays, Suite, key)[s] = h[shown[s]]
    <3> TAKE s \in Suite
    <3>1. HeadValues(s, reportable_test_count[s], failed_test_count[s])[key] = << >>
      BY <1>1 DEF HeadValues
    <3>2. h[shown[s]] = FlattenSeq(MapOver(k, ReportedTests(s))) /\ h[shown[s]] \in Seq(JsonValue)
      BY <1>4, <1>5, <1>6 DEF Concatenates
    <3>3. << >> \o h[shown[s]] = h[shown[s]]
      BY ONLY <3>2, NothingAdded
    <3> QED
      BY <1>1, <3>1, <3>2, <3>3, SuiteSaysOf
  <2>2. \A i \in DOMAIN suites : suites[i] \in Suite
    BY <1>3
  <2>3. DOMAIN l = DOMAIN suites /\ \A i \in DOMAIN suites : l[i] = shown[suites[i]]
    BY DEF MapOver
  <2> HIDE DEF l
  <2> QED
    BY <2>1, <2>2, <2>3 DEF MapOver
<1>10. Listable \subseteq Test
  BY DEF Listable
<1>11. ListBySuite(Listable) \in Seq(Test)
  BY <1>10, ListedBySuite
<1> HIDE DEF l
<1>12. FlattenSeq(MapOver(SaysOf(SuiteSays, Suite, key), suites))
         = FlattenSeq(MapOver(k, ListBySuite(Listable)))
  BY <1>3, <1>6, <1>8, <1>9, <1>11
<1> QED
  BY <1>1, <1>12 DEF ListSays

LEMMA CaseKeys ==
  ASSUME InOrder, ~ flags.list_tests
  PROVE  LET say(key) == FlattenSeq(MapOver(SaysOf(TestSays, Test, key), ListBySuite(Listable)))
         IN  /\ say("status") = Field(Cases, "status")
             /\ say("result") = Field(Cases, "result")
             /\ say("failure") = FlattenSeq(Field(Cases, "failures"))
<1> DEFINE l == ListBySuite(Listable)
           k(key) == SaysOf(TestSays, Test, key)
<1>1. Listable \subseteq Test
  BY DEF Listable
<1>2. l \in Seq(Test)
  BY <1>1, ListedBySuite
<1>3. DOMAIN l = 1 .. Len(l) /\ \A i \in 1 .. Len(l) : l[i] \in Test
  BY <1>2, SequenceFacts
<1>4. Cases = MapOver(Case, l)
  BY DEF Cases
<1> HIDE DEF l
<1>5. DOMAIN Cases = 1 .. Len(l) /\ \A i \in 1 .. Len(l) : Cases[i] = Case[l[i]]
  BY <1>3, <1>4 DEF MapOver
<1>6. \A t \in Test :
        /\ Case[t]["status"] = StatusOf(t) /\ Case[t]["result"] = ResultOf(t)
        /\ Case[t]["failures"] = FailedParts(t)
  BY CaseFields
<1>7. \A t \in Test : /\ k("status")[t] = <<StatusOf(t)>>
                      /\ k("result")[t] = <<ResultOf(t)>>
                      /\ k("failure")[t] = FailedParts(t)
  BY TestsSay DEF Keys
<1> HIDE DEF k
<1>8. FlattenSeq(MapOver(k("status"), l)) = Field(Cases, "status")
  <2> DEFINE own == [t \in Test |-> StatusOf(t)]
  <2>1. Singles(k("status"), own, Test)
    BY <1>7 DEF Singles
  <2>2. own \in [Test -> {StatusOf(t) : t \in Test}]
    OBVIOUS
  <2>3. MapOver(own, l) = Field(Cases, "status")
    BY <1>3, <1>5, <1>6 DEF MapOver, Field
  <2> HIDE DEF own
  <2>4. SinglesFlatten(k("status"), own, Test)
    BY ONLY <2>1, <2>2, FlatSingles
  <2> QED
    BY <1>2, <2>3, <2>4 DEF SinglesFlatten
<1>9. FlattenSeq(MapOver(k("result"), l)) = Field(Cases, "result")
  <2> DEFINE own == [t \in Test |-> ResultOf(t)]
  <2>1. Singles(k("result"), own, Test)
    BY <1>7 DEF Singles
  <2>2. own \in [Test -> {ResultOf(t) : t \in Test}]
    OBVIOUS
  <2>3. MapOver(own, l) = Field(Cases, "result")
    BY <1>3, <1>5, <1>6 DEF MapOver, Field
  <2> HIDE DEF own
  <2>4. SinglesFlatten(k("result"), own, Test)
    BY ONLY <2>1, <2>2, FlatSingles
  <2> QED
    BY <1>2, <2>3, <2>4 DEF SinglesFlatten
<1>10. MapOver(k("failure"), l) = Field(Cases, "failures")
  BY <1>3, <1>5, <1>6, <1>7 DEF MapOver, Field
<1> QED
  BY <1>8, <1>9, <1>10 DEF k, l

(* The JSON report and the XML report say the same.                        *)
LEMMA SameIsSaid ==
  ASSUME InOrder, NEW suites, suites \in {ReportedSuites, test_suites}, NEW json, NEW xml,
         xml.testsuites = XmlSuites(suites), NEW failures,
         Piece(json, "{", "}", ReportValues(xml.tests, failures, suites)),
         ~ flags.list_tests => failures = xml.failures
  PROVE  SaysTheSame(json, xml)
<1> DEFINE x == XmlSuites(suites)
           v == HeadValues("AllTests", xml.tests, failures)
           w == ListSays(SuiteSays, Suite, suites)
<1>1. WellSeparated(json)
  BY DEF Piece, Text
<1>2. \A key \in Keys : ValuesOf(json, key) = v[key] \o w[key]
  BY DEF Piece, ReportValues
<1>3. suites \in Seq(Suite)
  BY ShownSuites
<1>4. Testcases(xml) = Cases
  BY XmlSays DEF Testcases, Cases
<1>5. /\ Field(x, "tests") = MapOver(Counts(Listable), suites)
      /\ ~ flags.list_tests => Field(x, "failures") = MapOver(Counts(RunFailed), suites)
  BY <1>3, XmlSuitesAre
<1>6. w["name"] = FlattenSeq([i \in DOMAIN x |-> <<x[i].name>> \o Field(x[i].testcases, "name")])
  BY <1>3, NamesAreSaid
<1>7. /\ w["tests"] = Field(x, "tests")
      /\ ~ flags.list_tests => w["failures"] = Field(x, "failures")
  BY <1>3, <1>5, NumbersAreSaid
<1>8. ~ flags.list_tests => /\ w["status"] = Field(Cases, "status")
                            /\ w["result"] = Field(Cases, "result")
                            /\ w["failure"] = FlattenSeq(Field(Cases, "failures"))
  BY TestsAreSaid, CaseKeys
<1>9. /\ v["name"] = <<"AllTests">> /\ v["tests"] = <<xml.tests>>
      /\ ~ flags.list_tests => v["failures"] = <<xml.failures>>
      /\ v["status"] = << >> /\ v["result"] = << >> /\ v["failure"] = << >>
  BY DEF HeadValues, Keys
<1>10. ~ flags.list_tests =>
         \A key \in {"status", "result", "failure"} : << >> \o w[key] = w[key]
  <2> HAVE ~ flags.list_tests
  <2> TAKE key \in {"status", "result", "failure"}
  <2>1. json \in Seq(JsonToken) /\ key \in Keys
    BY DEF Piece, Text, Keys
  <2>2. FlattenSeq(MapOver(SaysOf(TestSays, Test, key), ListBySuite(Listable))) \in Seq(JsonValue)
    <3> DEFINE k == SaysOf(TestSays, Test, key)
    <3>1. k \in [Test -> Seq(JsonValue)]
      BY <2>1, TestsSay
    <3>2. Listable \subseteq Test
      BY DEF Listable
    <3>3. ListBySuite(Listable) \in Seq(Test)
      BY <3>2, ListedBySuite
    <3> HIDE DEF k
    <3>4. MapsOver(k, Test, Seq(JsonValue))
      BY <3>1, MapProperties
    <3>5. MapOver(k, ListBySuite(Listable)) \in Seq(Seq(JsonValue))
      BY <3>3, <3>4 DEF MapsOver
    <3> QED
      BY <3>5, FlattenType DEF k
  <2>3. w[key] \in Seq(JsonValue)
    BY <2>2, TestsAreSaid
  <2> QED
    BY ONLY <2>3, NothingAdded
<1> HIDE DEF v, w, x
<1>11. /\ ValuesOf(json, "name") = <<"AllTests">> \o w["name"]
       /\ ValuesOf(json, "tests") = <<xml.tests>> \o w["tests"]
       /\ ~ flags.list_tests =>
            /\ ValuesOf(json, "failures") = <<xml.failures>> \o w["failures"]
            /\ ValuesOf(json, "status") = w["status"]
            /\ ValuesOf(json, "result") = w["result"]
            /\ ValuesOf(json, "failure") = w["failure"]
  <2>1. {"name", "tests", "failures", "status", "result", "failure"} \subseteq Keys
    BY DEF Keys
  <2> QED
    BY <1>2, <1>9, <1>10, <2>1
<1>12. xml.testsuites = x
  BY DEF x
<1> QED
  BY <1>1, <1>4, <1>6, <1>7, <1>8, <1>11, <1>12 DEF SaysTheSame

-----------------------------------------------------------------------------
(* A listing tells of every registered test.                               *)
LEMMA AllAreCounted ==
  ASSUME InOrder
  PROVE  SumOverTestSuiteList(total_test_count) = Len(Registered)
<1>1. Registered \in Seq(Test) /\ NoneTwice(Registered) /\ Elements(Registered) = Test
  BY RegisteredOnce, NoneTwiceIsInjective, ElementsAreRange DEF Test
<1>2. Cardinality(Test) = Len(Registered)
  BY <1>1, LengthIsCardinality
<1>3. total_test_count = Counts(Test)
  <2>1. ASSUME NEW s \in Suite PROVE Len(TestsOf(s)) = CountIf(s, Test)
    <3>1. TestsOf(s) \in Seq(Test) /\ NoneTwice(TestsOf(s))
      BY TestsOfSuite
    <3>2. Range(TestsOf(s)) = Elements(TestsOf(s)) /\ Elements(TestsOf(s)) \subseteq Test
      BY <3>1, ElementsAreRange, ShownTests
    <3>3. Range(TestsOf(s)) \cap Test = Elements(TestsOf(s))
      BY <3>2
    <3>4. Cardinality(Elements(TestsOf(s))) = Len(TestsOf(s))
      BY <3>1, LengthIsCardinality
    <3> QED
      BY <3>3, <3>4 DEF CountIf
  <2> QED
    BY <2>1 DEF total_test_count, Counts
<1> QED
  BY <1>2, <1>3, SumsAreNumbers

LEMMA ListingIsTold ==
  ASSUME InOrder, flags \in FlagSettings, flags.list_tests
  PROVE  ListsTheTests
<1> DEFINE listing == ListTestsMatchingFilter
           xml == PrintXmlTestsList
<1>1. flags.filter \subseteq Test
  BY FlagsType
<1>2. /\ listing.printed = ListBySuite(flags.filter)
      /\ listing.xml = xml /\ listing.json = PrintJsonTestList
  BY DEF ListTestsMatchingFilter
<1>3. IsInjective(listing.printed) /\ Range(listing.printed) = flags.filter
  BY <1>1, <1>2, ListedBySuite, ElementsAreRange, NoneTwiceIsInjective
<1>4. xml.tests = Len(Registered) /\ xml.testsuites = XmlSuites(test_suites)
  BY AllAreCounted DEF PrintXmlTestsList
<1>5. /\ FlattenSeq(Field(XmlSuites(test_suites), "testcases")) = MapOver(Case, ListBySuite(Listable))
      /\ \A i \in DOMAIN XmlSuites(test_suites) :
              Len(XmlSuites(test_suites)[i].testcases) = XmlSuites(test_suites)[i].tests
  BY XmlSays
<1>6. Testcases(xml) = Cases
  BY <1>4, <1>5 DEF Testcases, Cases
<1>7. Range(Field(Cases, "name")) = {t \in flags.filter : ~ InAnotherShard(flags, t)}
  <2>1. Listable = {t \in flags.filter : ~ InAnotherShard(flags, t)}
    BY <1>1 DEF Listable, TestReportable, IsReportable
  <2> QED
    BY <2>1, CasesAre
<1>8. SaysTheSame(PrintJsonTestList, xml)
  <2>1. /\ SumOverTestSuiteList(total_test_count) \in Nat
        /\ xml.tests = SumOverTestSuiteList(total_test_count)
    BY AllAreCounted, RegisteredOnce DEF PrintXmlTestsList
  <2>2. Piece(PrintJsonTestList, "{", "}", ReportValues(xml.tests, 0, test_suites))
    BY <2>1, TestListReportIsPiece
  <2> HIDE DEF xml
  <2> QED
    BY <1>4, <2>2, SameIsSaid
<1> HIDE DEF xml, listing
<1> QED
  BY <1>2, <1>3, <1>4, <1>5, <1>6, <1>7, <1>8 DEF ListsTheTests, listing

LEMMA ReportsSayTheSame ==
  ASSUME InOrder, ~ flags.list_tests
  PROVE  SaysTheSame(PrintJsonUnitTest, PrintXmlUnitTest)
<1> DEFINE xml == PrintXmlUnitTest
<1>1. /\ xml.tests = SumOverTestSuiteList(reportable_test_count)
      /\ xml.failures = SumOverTestSuiteList(failed_test_count)
      /\ xml.testsuites = XmlSuites(ReportedSuites)
  BY DEF PrintXmlUnitTest
<1> HIDE DEF xml
<1>2. Piece(PrintJsonUnitTest, "{", "}", ReportValues(xml.tests, xml.failures, ReportedSuites))
  BY <1>1, UnitIsPiece
<1>3. SaysTheSame(PrintJsonUnitTest, xml)
  BY <1>1, <1>2, SameIsSaid
<1> QED
  BY <1>3 DEF xml

(* The summary on the console, the XML file and the JSON file of each      *)
(* iteration tell the same and tell the truth, and so do those of a        *)
(* listing, for any tests, suites, flags and behaviour of the user code.   *)
THEOREM ReportsAreTrue == Spec => []ReportsTellTheRun
<1> DEFINE Inv == Placed /\ EndedInv /\ ReportInv
<1>1. Init => Inv
  BY PlacedAtFirst, NoneEndedAtFirst, ReportsAtFirst
<1>2. Inv /\ [Next]_vars => Inv'
  BY StaysPlaced, EndedKept, ReportsKept
<1>3. ASSUME Inv PROVE ReportsTellTheRun
  <2>1. InOrder /\ flags \in FlagSettings
    BY <1>3 DEF Placed, TypeOK, InOrder
  <2>2. ASSUME pc = "iterationEnd" PROVE TellsTheRun
    <3>1. ~ flags.list_tests
      BY <1>3, <2>2 DEF ReportInv, Iterating
    <3> QED
      BY <1>3, <2>1, <2>2, <3>1, ReportsSayTheSame, RunIsTold
  <2>3. ASSUME flags.list_tests PROVE ListsTheTests
    BY <2>1, <2>3, ListingIsTold
  <2> QED
    BY <2>2, <2>3 DEF ReportsTellTheRun
<1> QED
  BY <1>1, <1>2, <1>3, PTL DEF Spec
=============================================================================
