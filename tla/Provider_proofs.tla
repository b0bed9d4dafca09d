---------------------------- MODULE Provider_proofs ----------------------------
(***************************************************************************)
(* What is read from the provider, and what is sent to it.                 *)
(*                                                                         *)
(* Planning: for any objects, policies, sizes of a page and moves of       *)
(* others, a plan names each object once and no run that is protected when *)
(* it is taken; what it condemns has outlived its retention, counted in    *)
(* exact seconds and in business days one by one; no more is condemned     *)
(* with one more rule that only protects; and the latest are spared.       *)
(*                                                                         *)
(* Transport: for any number of concurrent requests and any timing,        *)
(* nothing but a read is sent twice, none before the provider allows it,   *)
(* the mutations of all callers are paced, and a read ends in time.        *)
(***************************************************************************)
EXTENDS Planning, Transport, FiniteSetTheorems, WellFoundedInduction, TLAPS


-----------------------------------------------------------------------------
(* Least and greatest *)

\* A set of numbers that is not empty has a least one.
LEMMA LeastOf ==
  ASSUME NEW T, T \subseteq Nat, T # {}
  PROVE  \E m \in T : \A n \in T : m <= n
<1> DEFINE R == {ss \in Nat \X Nat : ss[1] < ss[2]}
<1>1. IsWellFoundedOn(R, Nat)
  BY NatLessThanWellFounded DEF OpToRel
<1>2. \A x, y \in Nat : x < y => <<x, y>> \in R
  OBVIOUS
<1> HIDE DEF R
<1>3. PICK m \in T : \A n \in T : ~ (<<n, m>> \in R)
  BY <1>1, WFMin, Zenon
<1>4. ASSUME NEW n \in T PROVE m <= n
  <2>1. ~ (n < m)
    BY <1>2, <1>3
  <2>2. m \in Nat /\ n \in Nat
    OBVIOUS
  <2> QED
    BY <2>1, <2>2
<1> QED
  BY <1>4

\* Induction, for a property that is written as a set of numbers.
LEMMA AllNumbers ==
  ASSUME NEW S \in SUBSET Nat, 0 \in S, \A n \in S : n + 1 \in S
  PROVE  S = Nat
<1> SUFFICES ASSUME Nat \ S # {} PROVE FALSE
  OBVIOUS
<1>1. PICK m \in Nat \ S : \A n \in Nat \ S : m <= n
  BY LeastOf
<1>2. m # 0 /\ m - 1 \in Nat /\ m - 1 \notin Nat \ S
  BY <1>1
<1> QED
  BY <1>1, <1>2

-----------------------------------------------------------------------------
(* Business days *)

\* How many of the first n days that follow day d are not of a weekend.
Worked(d, n) == Cardinality({k \in 1..n : (d + k) % 7 \notin {2, 3}})

Workday(d, k) == IF (d + k) % 7 \in {2, 3} THEN 0 ELSE 1

\* Day after day: the next one counts or it does not.
LEMMA WorkedOneByOne ==
  ASSUME NEW d \in Nat
  PROVE  /\ Worked(d, 0) = 0
         /\ \A n \in Nat : Worked(d, n) \in Nat
         /\ \A n \in Nat : Worked(d, n + 1) = Worked(d, n) + Workday(d, n + 1)
<1>1. Worked(d, 0) = 0
  <2>1. {k \in 1..0 : (d + k) % 7 \notin {2, 3}} = {}
    OBVIOUS
  <2> QED
    BY <2>1, FS_EmptySet DEF Worked
<1>2. ASSUME NEW n \in Nat
      PROVE  Worked(d, n) \in Nat /\ Worked(d, n + 1) = Worked(d, n) + Workday(d, n + 1)
  <2> DEFINE W(m) == {k \in 1..m : (d + k) % 7 \notin {2, 3}}
  <2>1. IsFiniteSet(W(n))
    <3>1. IsFiniteSet(1..n) /\ W(n) \in SUBSET (1..n)
      BY FS_Interval
    <3> QED
      BY <3>1, FS_Subset
  <2>2. CASE (d + (n + 1)) % 7 \in {2, 3}
    <3>1. W(n + 1) = W(n)
      BY <2>2
    <3> HIDE DEF W
    <3>2. Cardinality(W(n + 1)) = Cardinality(W(n)) /\ Cardinality(W(n)) \in Nat
      BY <2>1, <3>1, FS_CardinalityType
    <3> QED
      BY <2>2, <3>2 DEF Worked, Workday, W
  <2>3. CASE (d + (n + 1)) % 7 \notin {2, 3}
    <3>1. W(n + 1) = W(n) \cup {n + 1} /\ n + 1 \notin W(n)
      BY <2>3
    <3> HIDE DEF W
    <3>2. Cardinality(W(n + 1)) = Cardinality(W(n)) + 1 /\ Cardinality(W(n)) \in Nat
      BY <2>1, <3>1, FS_AddElement, FS_CardinalityType
    <3> QED
      BY <2>3, <3>2 DEF Worked, Workday, W
  <2> QED
    BY <2>2, <2>3
<1> QED
  BY <1>1, <1>2

\* What is counted is a number.
LEMMA WorkedIsNat ==
  ASSUME NEW d \in Nat, NEW n \in Nat
  PROVE  Worked(d, n) \in Nat
BY WorkedOneByOne

\* Of seven days in a row, five.
LEMMA WorkedAWeek ==
  ASSUME NEW d \in Nat, NEW n \in Nat
  PROVE  Worked(d, n + 7) = Worked(d, n) + 5
<1> DEFINE w(m) == Workday(d, n + m)
<1>1. /\ Worked(d, n + 1) = Worked(d, n) + w(1) /\ Worked(d, n + 2) = Worked(d, n + 1) + w(2)
      /\ Worked(d, n + 3) = Worked(d, n + 2) + w(3) /\ Worked(d, n + 4) = Worked(d, n + 3) + w(4)
      /\ Worked(d, n + 5) = Worked(d, n + 4) + w(5) /\ Worked(d, n + 6) = Worked(d, n + 5) + w(6)
      /\ Worked(d, n + 7) = Worked(d, n + 6) + w(7)
  <2>1. \A m \in Nat : Worked(d, (n + m) + 1) = Worked(d, n + m) + Workday(d, (n + m) + 1)
    BY WorkedOneByOne
  <2>2. /\ n + 0 = n /\ (n + 0) + 1 = n + 1 /\ (n + 1) + 1 = n + 2 /\ (n + 2) + 1 = n + 3
        /\ (n + 3) + 1 = n + 4 /\ (n + 4) + 1 = n + 5 /\ (n + 5) + 1 = n + 6 /\ (n + 6) + 1 = n + 7
    OBVIOUS
  <2> QED
    BY <2>1, <2>2
<1>2. w(1) + w(2) + w(3) + w(4) + w(5) + w(6) + w(7) = 5
  <2> DEFINE e == d + n
  <2>1. e \in Nat /\ \A m \in Nat : d + (n + m) = e + m
    OBVIOUS
  <2> HIDE DEF e
  <2>2. e % 7 \in 0..6
    BY <2>1
  <2>3. \A m \in 1..7 : (e + m) % 7 = (IF (e % 7) + m < 7 THEN (e % 7) + m ELSE (e % 7) + m - 7)
    BY <2>1, SMTT(30)
  <2> QED
    BY <2>1, <2>2, <2>3, SMTT(60) DEF Workday
<1>3. Worked(d, n) \in Nat /\ \A m \in 1..7 : w(m) \in 0..1
  BY WorkedOneByOne DEF Workday
<1> HIDE DEF w
<1> QED
  BY <1>1, <1>2, <1>3

\* And of whole weeks and a rest.
LEMMA WorkedWeeks ==
  ASSUME NEW d \in Nat, NEW w \in Nat, NEW n \in Nat
  PROVE  Worked(d, 7 * w + n) = 5 * w + Worked(d, n)
<1> DEFINE S == {v \in Nat : Worked(d, 7 * v + n) = 5 * v + Worked(d, n)}
<1>1. 0 \in S
  BY WorkedOneByOne
<1>2. ASSUME NEW v \in S PROVE v + 1 \in S
  <2>1. Worked(d, (7 * v + n) + 7) = Worked(d, 7 * v + n) + 5
    BY WorkedAWeek
  <2>2. (7 * v + n) + 7 = 7 * (v + 1) + n
    OBVIOUS
  <2> QED
    BY <2>1, <2>2, WorkedOneByOne
<1>3. S = Nat
  BY <1>1, <1>2, AllNumbers
<1> QED
  BY <1>3

\* More days, no fewer business days.
LEMMA WorkedGrows ==
  ASSUME NEW d \in Nat, NEW n \in Nat, NEW m \in Nat, n <= m
  PROVE  Worked(d, n) <= Worked(d, m)
<1> DEFINE S == {k \in Nat : Worked(d, n) <= Worked(d, n + k)}
<1>1. 0 \in S
  <2>1. n + 0 = n
    OBVIOUS
  <2>2. Worked(d, n) \in Nat
    BY WorkedOneByOne
  <2>3. Worked(d, n) <= Worked(d, n + 0)
    BY <2>1, <2>2
  <2> QED
    BY <2>3
<1>2. ASSUME NEW k \in S PROVE k + 1 \in S
  <2>1. Worked(d, (n + k) + 1) = Worked(d, n + k) + Workday(d, (n + k) + 1)
    BY WorkedOneByOne
  <2>2. (n + k) + 1 = n + (k + 1) /\ n + k \in Nat
    OBVIOUS
  <2>3. Worked(d, n) \in Nat /\ Worked(d, n + k) \in Nat
    BY <2>2, WorkedIsNat
  <2> QED
    BY <2>1, <2>2, <2>3 DEF Workday
<1>3. S = Nat
  BY <1>1, <1>2, AllNumbers
<1>4. m - n \in Nat /\ n + (m - n) = m
  OBVIOUS
<1> QED
  BY <1>3, <1>4

\* Quotient and rest.
LEMMA Divided ==
  ASSUME NEW a \in Nat, NEW d \in Nat, d > 0
  PROVE  /\ a \div d \in Nat /\ a % d \in 0..(d - 1)
         /\ a = d * (a \div d) + (a % d)
BY Z3

\* There is one such quotient.
LEMMA Quotient ==
  ASSUME NEW q \in Nat, NEW d \in Nat, d > 0, NEW r \in 0..(d - 1)
  PROVE  (d * q + r) \div d = q /\ (d * q + r) % d = r
BY Z3

\* An instant whole days later is in the day as many days later.
LEMMA DaysLater ==
  ASSUME NEW a \in Nat, NEW k \in Nat
  PROVE  /\ a + k * Day \in Nat /\ (a + k * Day) \div Day = (a \div Day) + k
         /\ \A b \in Nat : b >= a => (b >= a + k * Day <=> (b - a) \div Day >= k)
<1>1. Day \in Nat /\ Day > 0
  BY PolicyAssumption
<1>2. PICK q \in Nat, r \in 0..(Day - 1) : a = Day * q + r /\ a \div Day = q
  BY <1>1, Divided
<1>3. a + k * Day = Day * (q + k) + r
  BY <1>1, <1>2, Z3
<1>4. (a + k * Day) \div Day = q + k
  BY <1>1, <1>2, <1>3, Quotient
<1>5. ASSUME NEW b \in Nat, b >= a
      PROVE  b >= a + k * Day <=> (b - a) \div Day >= k
  <2>1. PICK p \in Nat, s \in 0..(Day - 1) : b - a = Day * p + s /\ (b - a) \div Day = p
    BY <1>1, <1>5, Divided
  <2>2. CASE p >= k
    <3>1. Day * p >= k * Day
      BY <1>1, <2>2, Z3
    <3> QED
      BY <1>1, <1>5, <2>1, <2>2, <3>1
  <2>3. CASE p < k
    <3>1. Day * p + Day <= k * Day
      BY <1>1, <2>3, Z3
    <3> QED
      BY <1>1, <1>5, <2>1, <2>3, <3>1
  <2> QED
    BY <2>2, <2>3
<1>6. a + k * Day \in Nat
  BY <1>1
<1> QED
  BY <1>2, <1>4, <1>5, <1>6

\* Whether an instant is in a weekend depends on its day only.
LEMMA WeekendLater ==
  ASSUME NEW a \in Nat, NEW k \in Nat
  PROVE  Weekend(a + k * Day) <=> ((a \div Day) + k) % 7 \in {2, 3}
BY DaysLater DEF Weekend

\* BusinessDaysSince counts them.
LEMMA SinceIsWorked ==
  ASSUME NEW a \in Nat, NEW b \in Nat, a <= b
  PROVE  /\ (b - a) \div Day \in Nat
         /\ BusinessDaysSince(a, b) = Worked(a \div Day, (b - a) \div Day)
<1>1. Day \in Nat /\ Day > 0
  BY PolicyAssumption
<1> DEFINE m == (b - a) \div Day
<1>2. m \in Nat
  BY <1>1, Divided
<1> HIDE DEF m
<1>3. {k \in 1..m : ~Weekend(a + k * Day)} = {k \in 1..m : ((a \div Day) + k) % 7 \notin {2, 3}}
  <2>1. \A k \in 1..m : k \in Nat
    BY <1>2
  <2> QED
    BY <2>1, WeekendLater
<1> QED
  BY <1>2, <1>3 DEF BusinessDaysSince, Worked, m

\* business_day_deadline takes whole weeks, then the first day of the next that makes up
\* the rest.
LEMMA DeadlineIsRight ==
  ASSUME NEW a \in Nat, NEW b \in Nat, a <= b, b <= MaxDate, NEW days \in Nat, days > 0
  PROVE  BusinessDaysOver(a, b, days) <=> BusinessDaysSince(a, b) >= days
<1> DEFINE w == (days - 1) \div 5
           rest == ((days - 1) % 5) + 1
           d == a \div Day
           start == a + (w * 7) * Day
           Passed(n) == Cardinality({k \in 1..n : ~Weekend(start + k * Day)})
           Fits(n) == Passed(n) = rest /\ Passed(n - 1) < rest
           n == CHOOSE k \in 1..7 : Fits(k)
           m == (b - a) \div Day
<1>1. Day \in Nat /\ Day > 0 /\ MaxDate \in Nat
  BY PolicyAssumption
<1>2. w \in Nat /\ rest \in 1..5 /\ days = 5 * w + rest
  <2>1. /\ w \in Nat /\ (days - 1) % 5 \in 0..4
        /\ days - 1 = 5 * w + ((days - 1) % 5)
    BY Divided
  <2> HIDE DEF w
  <2> QED
    BY <2>1
<1>3. d \in Nat /\ m \in Nat
  BY <1>1, Divided
<1> HIDE DEF w, rest, d, m
<1>4. start \in Nat /\ \A k \in Nat : start + k * Day = a + (7 * w + k) * Day
  <2>1. (w * 7) * Day \in Nat
    BY <1>1, <1>2
  <2>2. \A k \in Nat : (w * 7) * Day + k * Day = (7 * w + k) * Day
    BY <1>1, <1>2, Z3
  <2>3. \A k \in Nat : k * Day \in Nat /\ (7 * w + k) * Day \in Nat
    BY <1>1, <1>2
  <2> QED
    BY <2>1, <2>2, <2>3
<1>5. \A k \in Nat : Passed(k) = Worked(d, k)
  <2> SUFFICES ASSUME NEW p \in Nat
               PROVE  {k \in 1..p : ~Weekend(start + k * Day)} = {k \in 1..p : (d + k) % 7 \notin {2, 3}}
    BY DEF Worked
  <2>1. ASSUME NEW k \in 1..p PROVE Weekend(start + k * Day) <=> (d + k) % 7 \in {2, 3}
    <3>1. Weekend(start + k * Day) <=> (d + (7 * w + k)) % 7 \in {2, 3}
      BY <1>2, <1>4, WeekendLater DEF d
    <3>2. (d + (7 * w + k)) % 7 = (d + k) % 7
      BY <1>2, <1>3, Z3
    <3> QED
      BY <3>1, <3>2
  <2> QED
    BY <2>1
<1>6. \A k \in 1..7 : Fits(k) <=> Worked(d, k) = rest /\ Worked(d, k - 1) < rest
  BY <1>5
<1> HIDE DEF Fits
<1>7. \E k \in 1..7 : Fits(k)
  <2>1. Worked(d, 0) = 0 /\ Worked(d, 0 + 7) = Worked(d, 0) + 5
    BY <1>3, WorkedOneByOne, WorkedAWeek
  <2>2. /\ Worked(d, 0 + 1) = Worked(d, 0) + Workday(d, 0 + 1)
        /\ Worked(d, 1 + 1) = Worked(d, 1) + Workday(d, 1 + 1)
        /\ Worked(d, 2 + 1) = Worked(d, 2) + Workday(d, 2 + 1)
        /\ Worked(d, 3 + 1) = Worked(d, 3) + Workday(d, 3 + 1)
        /\ Worked(d, 4 + 1) = Worked(d, 4) + Workday(d, 4 + 1)
        /\ Worked(d, 5 + 1) = Worked(d, 5) + Workday(d, 5 + 1)
        /\ Worked(d, 6 + 1) = Worked(d, 6) + Workday(d, 6 + 1)
    BY <1>3, WorkedOneByOne
  <2>3. \A k \in Nat : Worked(d, k) \in Nat
    BY <1>3, WorkedIsNat
  <2>4. \A k \in Nat : Workday(d, k) \in 0..1
    BY DEF Workday
  <2>5. \E k \in 1..7 : Worked(d, k) = rest /\ Worked(d, k - 1) < rest
    BY <1>2, <2>1, <2>2, <2>3, <2>4, SMTT(60)
  <2> QED
    BY <1>6, <2>5
<1>8. n \in 1..7 /\ Worked(d, n) = rest /\ Worked(d, n - 1) < rest
  BY <1>6, <1>7
<1>9. BusinessDaysOver(a, b, days) <=> b >= start + n * Day
  <2>1. BusinessDayDeadline(a, days)
          = IF start + n * Day > MaxDate THEN {} ELSE {start + n * Day}
    BY DEF BusinessDayDeadline, n, Fits, w, rest
  <2>2. start + n * Day \in Nat
    <3> HIDE DEF n, start
    <3>1. n * Day \in Nat /\ start \in Nat
      BY <1>1, <1>4, <1>8
    <3> QED
      BY <3>1
  <2> HIDE DEF n, start
  <2> QED
    BY <1>1, <2>1, <2>2 DEF BusinessDaysOver
<1> HIDE DEF n, start
<1>10. b >= start + n * Day <=> m >= 7 * w + n
  <2>1. 7 * w + n \in Nat /\ n \in Nat
    BY <1>2, <1>8
  <2> QED
    BY <1>4, <2>1, DaysLater DEF m
<1>11. BusinessDaysSince(a, b) = Worked(d, m)
  BY SinceIsWorked DEF d, m
<1>12. Worked(d, 7 * w + n) = days /\ Worked(d, 7 * w + (n - 1)) < days
  <2>1. n \in Nat /\ n - 1 \in Nat
    BY <1>8
  <2>2. /\ Worked(d, 7 * w + n) = 5 * w + Worked(d, n)
        /\ Worked(d, 7 * w + (n - 1)) = 5 * w + Worked(d, n - 1)
    BY <1>2, <1>3, <2>1, WorkedWeeks
  <2>3. Worked(d, n - 1) \in Nat
    BY <1>3, <2>1, WorkedIsNat
  <2> QED
    BY <1>2, <1>8, <2>2, <2>3
<1>13. m >= 7 * w + n <=> Worked(d, m) >= days
  <2>1. 7 * w + n \in Nat /\ 7 * w + (n - 1) \in Nat
    BY <1>2, <1>8
  <2>2. CASE m >= 7 * w + n
    <3>1. Worked(d, m) >= Worked(d, 7 * w + n)
      BY <1>3, <2>1, <2>2, WorkedGrows
    <3> QED
      BY <1>12, <2>2, <3>1
  <2>3. CASE m < 7 * w + n
    <3>1. m <= 7 * w + (n - 1)
      BY <1>2, <1>3, <1>8, <2>3
    <3>2. Worked(d, m) <= Worked(d, 7 * w + (n - 1))
      BY <1>3, <2>1, <3>1, WorkedGrows
    <3>3. Worked(d, m) \in Nat /\ Worked(d, 7 * w + (n - 1)) \in Nat
      BY <1>3, <2>1, WorkedOneByOne
    <3> QED
      BY <1>2, <1>3, <1>8, <1>12, <2>3, <3>2, <3>3
  <2> QED
    BY <1>2, <1>3, <1>8, <2>2, <2>3
<1> QED
  BY <1>9, <1>10, <1>11, <1>13

-----------------------------------------------------------------------------
(* Sorting *)

\* Elements that are ranked by how many are not after them: the ranks are all those
\* from one to the number of elements, each the rank of one.
LEMMA Ranked ==
  ASSUME NEW S, IsFiniteSet(S), NEW B \in [S -> SUBSET S], \A x \in S : x \in B[x],
         \A x, y \in S : x # y => \/ B[x] \subseteq B[y] /\ y \notin B[x]
                                  \/ B[y] \subseteq B[x] /\ x \notin B[y]
  PROVE  /\ \A x \in S : Cardinality(B[x]) \in 1..Cardinality(S)
         /\ \A x, y \in S : Cardinality(B[x]) = Cardinality(B[y]) => x = y
         /\ \A x, y \in S : Cardinality(B[x]) < Cardinality(B[y]) => y \notin B[x]
         /\ \A n \in 1..Cardinality(S) : \E x \in S : Cardinality(B[x]) = n
<1> DEFINE n == Cardinality(S)
           f == [x \in S |-> Cardinality(B[x])]
<1>1. n \in Nat
  BY FS_CardinalityType
<1>2. ASSUME NEW x \in S
      PROVE  /\ IsFiniteSet(B[x]) /\ Cardinality(B[x]) \in 1..n
  <2>1. B[x] \in SUBSET S /\ B[x] # {}
    OBVIOUS
  <2>2. IsFiniteSet(B[x]) /\ Cardinality(B[x]) <= n
    BY <2>1, FS_Subset
  <2>3. Cardinality(B[x]) \in Nat /\ Cardinality(B[x]) # 0
    BY <2>1, <2>2, FS_CardinalityType, FS_EmptySet
  <2> QED
    BY <1>1, <2>2, <2>3
<1>3. ASSUME NEW x \in S, NEW y \in S, x # y, B[x] \subseteq B[y], y \notin B[x]
      PROVE  Cardinality(B[x]) < Cardinality(B[y])
  <2>1. B[x] \in SUBSET B[y] /\ B[x] # B[y]
    BY <1>3
  <2>2. Cardinality(B[x]) <= Cardinality(B[y]) /\ Cardinality(B[x]) # Cardinality(B[y])
    BY <1>2, <2>1, FS_Subset
  <2> QED
    BY <1>2, <2>2
<1>4. \A x, y \in S : Cardinality(B[x]) = Cardinality(B[y]) => x = y
  BY <1>2, <1>3
<1>5. \A x, y \in S : Cardinality(B[x]) < Cardinality(B[y]) => y \notin B[x]
  <2> SUFFICES ASSUME NEW x \in S, NEW y \in S, Cardinality(B[x]) < Cardinality(B[y])
               PROVE  y \notin B[x]
    OBVIOUS
  <2>1. x # y /\ ~ (Cardinality(B[y]) < Cardinality(B[x]))
    BY <1>2
  <2> QED
    BY <1>3, <2>1
<1>6. IsFiniteSet(1..n) /\ Cardinality(1..n) = n
  BY <1>1, FS_Interval
<1>7. f \in Injection(S, 1..n)
  BY <1>2, <1>4 DEF Injection, IsInjective
<1>8. f \in Surjection(S, 1..n)
  BY <1>6, <1>7, FS_Injection
<1>9. \A m \in 1..n : \E x \in S : f[x] = m
  BY <1>8 DEF Surjection
<1> QED
  BY <1>2, <1>4, <1>5, <1>9

-----------------------------------------------------------------------------
(* The invariant *)

\* The values that an object of this kind is shown with.
Shown(id) == IF kind = "artifact" THEN IntoDomain(Values[kind][id]) ELSE Values[kind][id]

\* What the listing makes of an object, at whatever time.
Entry ==
  [kind : {kind}, id : Object, workflow : {Workflow[id] : id \in Object}, number : Object,
   values : {Shown(id) : id \in Object}, created : Instant, touched : Instant,
   attempt : Nat, completed : BOOLEAN]

\* Nothing is younger than the clock, and what is listed has been uploaded.
RemoteTyped ==
  /\ kind \in Kind /\ now \in Instant
  /\ store \in Seq(Object) /\ \A i, j \in DOMAIN store : store[i] = store[j] => i = j
  /\ live \in [Object -> State]
  /\ protection \in [Object -> Assessment]
  /\ moves \in 0..MaxMoves /\ shifts \in 0..moves
  /\ \A id \in InSeq(store) : live[id].attempt > 0
  /\ \A id \in Object : live[id].created <= now /\ live[id].touched <= now

\* The entries the command works with, and what it has not done yet.
CommandTyped ==
  /\ index \in [Object -> Assessment] /\ pc \in Pc /\ mode \in Mode
  /\ scanned \in 0..now
  /\ read \in Seq(Entry) /\ snapshot \in Seq(Entry)
  /\ chosen \in Seq(Entry) /\ targets \in Seq(Entry)
  /\ InSeq(chosen) \cup InSeq(targets) \subseteq InSeq(snapshot)
  /\ mode = "Policy" => config \in Configs[kind]
  /\ pc = "start" => read = <<>>
  /\ pc \in {"start", "list", "select"} => mode = "none" /\ chosen = <<>> /\ targets = <<>>
  /\ pc = "planned" => \A i, j \in DOMAIN targets : i < j => targets[i].id < targets[j].id

\* What an entry says of its object that never changes: two of one object agree in it.
IsOf(e) ==
  /\ live[e.id].attempt > 0 /\ e.created = live[e.id].created
  /\ e.workflow = Workflow[e.id] /\ e.values = Shown(e.id)

\* Nothing in the snapshot is younger than the scan.
Listed ==
  /\ \A e \in InSeq(read) : IsOf(e) /\ e.created <= now /\ e.touched <= now
  /\ \A e \in InSeq(snapshot) : IsOf(e) /\ e.created <= scanned /\ e.touched <= scanned

\* While the lease of a run is held, it is not protected.
Lease ==
  pc \in {"lookup", "artifacts"} =>
    kind = "workflow_run" /\ chosen # <<>> /\ protection[Head(chosen).id] = "NoEntry"

Condemns(policy, i) ==
  "Delete" = IF kind = "artifact" THEN ClassifyArtifact(policy, snapshot, i, scanned)
             ELSE IF kind = "cache" THEN ClassifyCache(policy, snapshot, i, scanned)
             ELSE ClassifyRun(policy, snapshot, i, scanned, "NoEntry")

\* What a policy has chosen it condemned, although the protections have been read again
\* since; runs are chosen by their ids.
Justified ==
  mode = "Policy" =>
    /\ kind = "cache" => pc = "classified"
    /\ \A e \in InSeq(chosen) \cup InSeq(targets) :
         \E i \in DOMAIN snapshot : snapshot[i].id = e.id /\ Condemns(config, i)

Ids(items) == {e.id : e \in InSeq(items)}

\* The entries of the pages to come, and those of them that have been read already.
Coming == {store[p] : p \in (Len(read) + 1)..Len(store)}
Again == Coming \cap Ids(read)

\* Each entry read twice, or still to be read twice, is one that was pushed down.
Paged ==
  /\ pc \in {"start", "list"} => Len(read) % PerPage = 0
  /\ Len(read) + Cardinality(Again) <= Cardinality(Ids(read)) + shifts
  /\ Len(snapshot) <= Cardinality(Ids(snapshot)) + shifts

PlanningInv == RemoteTyped /\ CommandTyped /\ Listed /\ Lease /\ Justified /\ Paged

\* The fields of an entry.
LEMMA Fields ==
  ASSUME NEW e \in Entry
  PROVE  /\ e.kind = kind /\ e.id \in Object /\ e.created \in Instant /\ e.touched \in Instant
         /\ e.attempt \in Nat /\ e.completed \in BOOLEAN /\ e.number \in Object
BY DEF Entry

\* Ids and instants are numbers.
LEMMA Numbers ==
  /\ \A id \in Object : id \in Nat
  /\ \A t \in Instant : t \in Nat
  /\ MaxDate \in Nat
BY PlanningAssumption, PolicyAssumption DEF Instant

\* Sorting loses nothing and adds nothing.
LEMMA SortedIsPermutation ==
  ASSUME NEW items \in Seq(Entry)
  PROVE  /\ Sorted(items) \in Seq(Entry)
         /\ Len(Sorted(items)) = Len(items)
         /\ InSeq(Sorted(items)) = InSeq(items)
<1> DEFINE S == DOMAIN items
           time(i) == SortTime(items[i])
           Earlier(i, j) == \/ time(i) > time(j)
                            \/ /\ time(i) = time(j)
                               /\ items[i].id <= items[j].id
                               /\ items[i].id = items[j].id => i < j
           Upto(i) == {j \in S : Earlier(j, i) \/ j = i}
           B == [i \in S |-> Upto(i)]
           place(i) == 1 + Cardinality({j \in S : Earlier(j, i)})
           p(n) == CHOOSE i \in S : place(i) = n
<1>1. /\ S = 1..Len(items) /\ Len(items) \in Nat
      /\ \A i \in S : items[i] \in Entry
  OBVIOUS
<1>2. IsFiniteSet(S) /\ Cardinality(S) = Len(items)
  BY <1>1, FS_Interval
<1>3. \A i \in S : time(i) \in Int /\ items[i].id \in Int /\ i \in Int
  BY <1>1, Fields, Numbers DEF SortTime
<1> HIDE DEF time
<1>4. \A i, j \in S : i # j => Earlier(i, j) \/ Earlier(j, i)
  BY <1>3
<1>5. \A i, j \in S : ~ (Earlier(i, j) /\ Earlier(j, i))
  BY <1>3
<1>6. \A i, j, k \in S : Earlier(i, j) /\ Earlier(j, k) => Earlier(i, k)
  <2> SUFFICES ASSUME NEW i \in S, NEW j \in S, NEW k \in S, Earlier(i, j), Earlier(j, k)
               PROVE  Earlier(i, k)
    OBVIOUS
  <2> QED
    BY <1>3
<1> HIDE DEF Earlier
<1>7. \A i \in S : B[i] = Upto(i)
  OBVIOUS
<1>8. \A i, j \in S : i # j => \/ B[i] \subseteq B[j] /\ j \notin B[i]
                               \/ B[j] \subseteq B[i] /\ i \notin B[j]
  BY <1>4, <1>5, <1>6, <1>7
<1>9. B \in [S -> SUBSET S] /\ \A i \in S : i \in B[i]
  OBVIOUS
<1>10. \A i \in S : place(i) = Cardinality(B[i])
  <2> SUFFICES ASSUME NEW i \in S PROVE place(i) = Cardinality(B[i])
    OBVIOUS
  <2> DEFINE E == {j \in S : Earlier(j, i)}
  <2>1. B[i] = E \cup {i} /\ i \notin E /\ E \in SUBSET S
    BY <1>5, <1>7
  <2> HIDE DEF B
  <2>2. IsFiniteSet(E) /\ Cardinality(E) \in Nat
    BY <1>2, <2>1, FS_Subset, FS_CardinalityType
  <2>3. Cardinality(E \cup {i}) = Cardinality(E) + 1
    <3> HIDE DEF E
    <3> QED
      BY <2>1, <2>2, FS_AddElement
  <2>4. place(i) = 1 + Cardinality(E)
    OBVIOUS
  <2> HIDE DEF E, place
  <2> QED
    BY <2>1, <2>2, <2>3, <2>4
<1> HIDE DEF B
<1>11. /\ \A i \in S : Cardinality(B[i]) \in 1..Cardinality(S)
       /\ \A n \in 1..Cardinality(S) : \E i \in S : Cardinality(B[i]) = n
       /\ \A i, j \in S : Cardinality(B[i]) = Cardinality(B[j]) => i = j
  BY <1>2, <1>8, <1>9, Ranked
<1> HIDE DEF place
<1>12. \A n \in S : p(n) \in S /\ place(p(n)) = n
  BY <1>1, <1>2, <1>10, <1>11
<1>13. \A i \in S : place(i) \in S /\ p(place(i)) = i
  BY <1>1, <1>2, <1>10, <1>11, <1>12
<1> HIDE DEF p
<1>14. Sorted(items) = [n \in S |-> items[p(n)]]
  BY DEF Sorted, p, place, Earlier, time
<1> HIDE DEF S
<1>15. Sorted(items) \in [S -> Entry]
  BY <1>1, <1>12, <1>14
<1>16. InSeq(Sorted(items)) = InSeq(items)
  BY <1>12, <1>13, <1>14 DEF InSeq, S
<1>17. Sorted(items) \in Seq(Entry) /\ Len(Sorted(items)) = Len(items)
  BY <1>1, <1>15
<1> QED
  BY <1>16, <1>17

\* What is picked is in the snapshot, at one of the places.
LEMMA PickIsPart ==
  ASSUME NEW places, places \subseteq DOMAIN snapshot, snapshot \in Seq(Entry)
  PROVE  /\ Pick(places) \in Seq(Entry)
         /\ \A e \in InSeq(Pick(places)) : \E i \in places : e = snapshot[i]
<1> DEFINE B == [i \in places |-> {j \in places : j <= i}]
           p(n) == CHOOSE i \in places : Cardinality({j \in places : j <= i}) = n
           N == Cardinality(places)
<1>1. /\ DOMAIN snapshot = 1..Len(snapshot) /\ Len(snapshot) \in Nat
      /\ \A i \in places : snapshot[i] \in Entry /\ i \in Int
  OBVIOUS
<1>2. IsFiniteSet(places)
  <2>1. IsFiniteSet(1..Len(snapshot)) /\ places \in SUBSET (1..Len(snapshot))
    BY <1>1, FS_Interval
  <2> QED
    BY <2>1, FS_Subset
<1>3. N \in Nat
  BY <1>2, FS_CardinalityType
<1>4. /\ B \in [places -> SUBSET places] /\ \A i \in places : i \in B[i]
      /\ \A i, j \in places : i # j => \/ B[i] \subseteq B[j] /\ j \notin B[i]
                                       \/ B[j] \subseteq B[i] /\ i \notin B[j]
  BY <1>1
<1>5. \A i \in places : B[i] = {j \in places : j <= i}
  OBVIOUS
<1> HIDE DEF B
<1>6. \A n \in 1..N : \E i \in places : Cardinality(B[i]) = n
  BY <1>2, <1>4, Ranked
<1>7. \A n \in 1..N : p(n) \in places
  <2> SUFFICES ASSUME NEW n \in 1..N
               PROVE  \E i \in places : Cardinality({j \in places : j <= i}) = n
    OBVIOUS
  <2> QED
    BY <1>5, <1>6
<1> HIDE DEF p
<1>8. Pick(places) = [n \in 1..N |-> snapshot[p(n)]]
  BY DEF Pick, p
<1> HIDE DEF N
<1>9. Pick(places) \in [1..N -> Entry]
  BY <1>1, <1>7, <1>8
<1>10. Pick(places) \in Seq(Entry)
  BY <1>3, <1>9
<1>11. \A n \in 1..N : Pick(places)[n] = snapshot[p(n)]
  BY <1>8
<1>12. \A e \in InSeq(Pick(places)) : \E i \in places : e = snapshot[i]
  BY <1>7, <1>9, <1>11 DEF InSeq
<1> QED
  BY <1>10, <1>12

\* A plan is sorted by id and keeps every target.
LEMMA ByIdIsSorted ==
  ASSUME NEW items \in Seq(Entry), ~Twice(items)
  PROVE  /\ ById(items) \in Seq(Entry)
         /\ Len(ById(items)) = Len(items)
         /\ InSeq(ById(items)) \subseteq InSeq(items)
         /\ \A i, j \in DOMAIN ById(items) : i < j => ById(items)[i].id < ById(items)[j].id
<1> DEFINE S == InSeq(items)
           D == DOMAIN items
           f == [i \in D |-> items[i]]
           B == [e \in S |-> {other \in S : other.id <= e.id}]
           p(n) == CHOOSE e \in S : Cardinality({other \in S : other.id <= e.id}) = n
<1>1. /\ D = 1..Len(items) /\ Len(items) \in Nat
      /\ \A i \in D : items[i] \in Entry
  OBVIOUS
<1>2. \A e \in S : e \in Entry /\ e.id \in Int
  BY <1>1, Fields, Numbers DEF InSeq
<1>3. \A x, y \in S : x.id = y.id => x = y
  BY <1>1 DEF InSeq, Twice
<1>4. IsFiniteSet(S) /\ Cardinality(S) = Len(items)
  <2>1. IsFiniteSet(D) /\ Cardinality(D) = Len(items)
    BY <1>1, FS_Interval
  <2>2. f \in Bijection(D, S)
    <3>1. f \in [D -> S]
      BY DEF InSeq
    <3>2. \A i, j \in D : f[i] = f[j] => i = j
      BY DEF Twice
    <3>3. \A e \in S : \E i \in D : f[i] = e
      BY DEF InSeq
    <3> QED
      BY <3>1, <3>2, <3>3 DEF Bijection, Injection, Surjection, IsInjective
  <2>3. ExistsBijection(D, S)
    BY <2>2 DEF ExistsBijection
  <2> QED
    BY <2>1, <2>3, FS_Bijection
<1> HIDE DEF S, f
<1>5. /\ B \in [S -> SUBSET S] /\ \A e \in S : e \in B[e]
      /\ \A x, y \in S : x # y => \/ B[x] \subseteq B[y] /\ y \notin B[x]
                                  \/ B[y] \subseteq B[x] /\ x \notin B[y]
  BY <1>2, <1>3
<1>6. \A e \in S : B[e] = {other \in S : other.id <= e.id}
  OBVIOUS
<1> HIDE DEF B
<1>7. /\ \A n \in 1..Cardinality(S) : \E e \in S : Cardinality(B[e]) = n
      /\ \A x, y \in S : Cardinality(B[x]) < Cardinality(B[y]) => y \notin B[x]
  BY <1>4, <1>5, Ranked
<1>8. \A n \in D : p(n) \in S /\ Cardinality(B[p(n)]) = n
  <2> SUFFICES ASSUME NEW n \in D
               PROVE  p(n) \in S /\ Cardinality(B[p(n)]) = n
    OBVIOUS
  <2>1. \E e \in S : Cardinality(B[e]) = n
    BY <1>1, <1>4, <1>7
  <2>2. \E e \in S : Cardinality({other \in S : other.id <= e.id}) = n
    BY <1>6, <2>1
  <2>3. p(n) \in S /\ Cardinality({other \in S : other.id <= p(n).id}) = n
    BY <2>2
  <2> HIDE DEF p
  <2> QED
    BY <1>6, <2>3
<1> HIDE DEF p
<1>9. ById(items) = [n \in D |-> p(n)]
  BY DEF ById, p, S
<1> HIDE DEF D
<1>10. ById(items) \in [D -> Entry]
  BY <1>2, <1>8, <1>9
<1>11. ById(items) \in Seq(Entry) /\ Len(ById(items)) = Len(items) /\ DOMAIN ById(items) = D
  BY <1>1, <1>10
<1>12. InSeq(ById(items)) \subseteq S
  BY <1>8, <1>9 DEF InSeq
<1>13. ASSUME NEW i \in D, NEW j \in D, i < j
       PROVE  ById(items)[i].id < ById(items)[j].id
  <2>1. p(j) \notin B[p(i)]
    BY <1>7, <1>8, <1>13
  <2>2. ~ (p(j).id <= p(i).id)
    BY <1>6, <1>8, <2>1
  <2> QED
    BY <1>2, <1>8, <1>9, <2>2
<1> QED
  BY <1>11, <1>12, <1>13 DEF S

-----------------------------------------------------------------------------
(* The first state, and the steps of others *)

\* The steps of others: what they leave of what the command has seen.
Moved ==
  /\ UNCHANGED command /\ now' >= now
  /\ \A id \in Object : live[id].attempt > 0
       => live'[id].attempt > 0 /\ live'[id].created = live[id].created
  /\ \A id \in Object : protection'[id] # protection[id] => ~Leased(id)
  /\ \/ shifts' = shifts /\ Coming' \subseteq Coming
     \/ shifts' = shifts + 1 /\ \E x : Coming' \subseteq Coming \cup {x}

\* Nothing is listed yet, and nothing is younger than the clock.
LEMMA InitPlanningInv == Init => PlanningInv
<1> SUFFICES ASSUME Init PROVE PlanningInv
  OBVIOUS
<1> DEFINE B == [id \in Initial |-> {other \in Initial : other >= id}]
           N == Cardinality(Initial)
           p(n) == CHOOSE id \in Initial : Cardinality({other \in Initial : other >= id}) = n
<1>1. IsFiniteSet(Initial) /\ N \in Nat /\ \A id \in Initial : id \in Object /\ id \in Nat
  BY PlanningAssumption, FS_CardinalityType
<1>2. /\ B \in [Initial -> SUBSET Initial] /\ \A id \in Initial : id \in B[id]
      /\ \A i, j \in Initial : i # j => \/ B[i] \subseteq B[j] /\ j \notin B[i]
                                        \/ B[j] \subseteq B[i] /\ i \notin B[j]
  BY <1>1
<1>3. \A id \in Initial : B[id] = {other \in Initial : other >= id}
  OBVIOUS
<1> HIDE DEF B
<1>4. \A n \in 1..N : \E id \in Initial : Cardinality(B[id]) = n
  BY <1>1, <1>2, Ranked
<1>5. \A n \in 1..N : p(n) \in Initial /\ Cardinality(B[p(n)]) = n
  <2> SUFFICES ASSUME NEW n \in 1..N PROVE p(n) \in Initial /\ Cardinality(B[p(n)]) = n
    OBVIOUS
  <2>1. \E id \in Initial : Cardinality({other \in Initial : other >= id}) = n
    BY <1>3, <1>4
  <2>2. p(n) \in Initial /\ Cardinality({other \in Initial : other >= p(n)}) = n
    BY <2>1
  <2> HIDE DEF p
  <2> QED
    BY <1>3, <2>2
<1>6. store = [n \in 1..N |-> p(n)]
  BY DEF Init
<1> HIDE DEF p, N
<1>7. store \in Seq(Object) /\ DOMAIN store = 1..N
  <2>1. store \in [1..N -> Object]
    BY <1>1, <1>5, <1>6
  <2> QED
    BY <1>1, <2>1
<1>8. \A i, j \in DOMAIN store : store[i] = store[j] => i = j
  BY <1>5, <1>6, <1>7
<1>9. \A id \in InSeq(store) : id \in Initial
  BY <1>5, <1>6, <1>7 DEF InSeq
<1>10. now \in Instant /\ now \in Nat /\ \A id \in Initial : Birth[id] \in Instant /\ Birth[id] <= now
  BY <1>1, PlanningAssumption, PolicyAssumption DEF Instant, Init
<1>11. \A id \in Object : /\ live[id] \in State /\ live[id].created <= now /\ live[id].touched <= now
                          /\ id \in Initial => live[id].attempt > 0
  BY <1>10, Numbers DEF State, Instant, Init
<1>12. RemoteTyped
  <2>1. live \in [Object -> State] /\ protection \in [Object -> Assessment]
    BY <1>11 DEF Assessment, Init
  <2>2. moves \in 0..MaxMoves /\ shifts \in 0..moves
    BY PlanningAssumption DEF Init
  <2>3. kind \in Kind
    BY DEF Init
  <2> QED
    BY <2>3, <1>1, <1>7, <1>8, <1>9, <1>10, <1>11, <2>1, <2>2 DEF RemoteTyped
<1>13. CommandTyped
  BY <1>10 DEF CommandTyped, Assessment, Pc, Mode, InSeq, Init
<1>14. Listed /\ Lease /\ Justified
  BY DEF Listed, Lease, Justified, InSeq, Init
<1>15. Paged
  <2>1. Ids(<<>>) = {} /\ Again = {}
    BY DEF Ids, InSeq, Again, Init
  <2>2. Len(read) = 0 /\ Len(snapshot) = 0 /\ shifts = 0
      /\ read = <<>> /\ snapshot = <<>>
    BY DEF Init
  <2>3. 0 % PerPage = 0
    BY PerPageAssumption, Divided
  <2> QED
    BY <2>1, <2>2, <2>3, FS_EmptySet DEF Paged
<1> QED
  BY <1>12, <1>13, <1>14, <1>15 DEF PlanningInv

\* The list without one object: the ones after it are a place further in front.
LEMMA WithoutIs ==
  ASSUME NEW s \in Seq(Object), NEW id \in InSeq(s),
         \A i, j \in DOMAIN s : s[i] = s[j] => i = j
  PROVE  /\ Without(s, id) \in Seq(Object) /\ Len(Without(s, id)) = Len(s) - 1
         /\ Len(s) \in Nat \ {0}
         /\ \E place \in 1..Len(s) :
              /\ s[place] = id
              /\ \A p \in 1..(Len(s) - 1) :
                   Without(s, id)[p] = IF p < place THEN s[p] ELSE s[p + 1]
<1> DEFINE place == CHOOSE i \in DOMAIN s : s[i] = id
           left == SubSeq(s, 1, place - 1)
           right == SubSeq(s, place + 1, Len(s))
<1>1. place \in 1..Len(s) /\ s[place] = id /\ Len(s) \in Nat
  <2>1. \E i \in DOMAIN s : s[i] = id
    BY DEF InSeq
  <2> QED
    BY <2>1
<1>2. Without(s, id) = left \o right
  BY DEF Without
<1> HIDE DEF place
<1>3. /\ left \in Seq(Object) /\ Len(left) = place - 1
      /\ \A p \in 1..(place - 1) : left[p] = s[p]
  BY <1>1
<1>4. /\ right \in Seq(Object) /\ Len(right) = Len(s) - place
      /\ \A p \in 1..(Len(s) - place) : right[p] = s[place + p]
  BY <1>1
<1> HIDE DEF left, right
<1>5. /\ left \o right \in Seq(Object) /\ Len(left \o right) = (place - 1) + (Len(s) - place)
      /\ \A p \in 1..(place - 1) : (left \o right)[p] = left[p]
      /\ \A p \in 1..(Len(s) - place) : (left \o right)[(place - 1) + p] = right[p]
  <2>1. left \in Seq(Object) /\ right \in Seq(Object)
    BY <1>3, <1>4
  <2>2. left \o right \in Seq(Object) /\ Len(left \o right) = Len(left) + Len(right)
    BY <2>1
  <2>3. \A p \in 1..Len(left) : (left \o right)[p] = left[p]
    BY <2>1
  <2>4. \A p \in 1..Len(right) : (left \o right)[Len(left) + p] = right[p]
    BY <2>1
  <2> QED
    BY <1>3, <1>4, <2>2, <2>3, <2>4, Zenon
<1>6. ASSUME NEW p \in 1..(Len(s) - 1)
      PROVE  (left \o right)[p] = IF p < place THEN s[p] ELSE s[p + 1]
  <2>1. CASE p < place
    <3>1. p \in 1..(place - 1)
      BY <1>1, <2>1
    <3> QED
      BY <1>3, <1>5, <2>1, <3>1
  <2>2. CASE ~ (p < place)
    <3> DEFINE q == p - (place - 1)
    <3>1. q \in 1..(Len(s) - place) /\ (place - 1) + q = p /\ place + q = p + 1
      BY <1>1, <2>2
    <3> HIDE DEF q
    <3>2. (left \o right)[p] = right[q] /\ right[q] = s[p + 1]
      BY <1>4, <1>5, <3>1
    <3> QED
      BY <2>2, <3>2
  <2> QED
    BY <2>1, <2>2
<1>7. (place - 1) + (Len(s) - place) = Len(s) - 1 /\ Len(s) \in Nat \ {0}
  BY <1>1
<1>8. Without(s, id) \in Seq(Object) /\ Len(Without(s, id)) = Len(s) - 1
  BY <1>2, <1>5, <1>7
<1> QED
  BY <1>1, <1>2, <1>6, <1>7, <1>8

\* A longer list: one in front, the others in their order.
LEMMA InFront ==
  ASSUME NEW id \in Object, NEW s \in Seq(Object)
  PROVE  /\ <<id>> \o s \in Seq(Object) /\ Len(<<id>> \o s) = Len(s) + 1
         /\ \A p \in 1..(Len(s) + 1) : (<<id>> \o s)[p] = IF p = 1 THEN id ELSE s[p - 1]
<1>1. <<id>> \in Seq(Object) /\ Len(<<id>>) = 1 /\ <<id>>[1] = id
  OBVIOUS
<1>2. <<id>> \o s \in Seq(Object) /\ Len(<<id>> \o s) = Len(s) + 1
  BY <1>1
<1>3. (<<id>> \o s)[1] = id
  BY <1>1
<1>4. \A p \in 1..Len(s) : (<<id>> \o s)[1 + p] = s[p]
  BY <1>1
<1>5. \A p \in 1..(Len(s) + 1) : p # 1 => p - 1 \in 1..Len(s) /\ 1 + (p - 1) = p
  OBVIOUS
<1> QED
  BY <1>2, <1>3, <1>4, <1>5, Zenon

\* The members of a sequence.
LEMMA InSeqOf ==
  ASSUME NEW D, NEW s \in Seq(D)
  PROVE  InSeq(s) \subseteq D
BY DEF InSeq

\* One is in front, and it is not one that was listed.
LEMMA UploadMoves ==
  ASSUME RemoteTyped, CommandTyped, NEW id \in Object, Upload(id)
  PROVE  RemoteTyped' /\ Moved
<1>1. /\ now' = now /\ kind' = kind /\ protection' = protection /\ UNCHANGED command
      /\ moves < MaxMoves /\ moves' = moves + 1 /\ shifts' = shifts + 1
      /\ live[id].attempt = 0 /\ \A other \in InSeq(store) : other < id
      /\ store' = <<id>> \o store
      /\ live' = [live EXCEPT ![id] = [created |-> now, touched |-> now, attempt |-> 1,
                                       completed |-> kind # "workflow_run"]]
  BY DEF Upload, Move, command
<1>2. /\ store \in Seq(Object) /\ live \in [Object -> State] /\ now \in Instant /\ kind \in Kind
      /\ \A i, j \in DOMAIN store : store[i] = store[j] => i = j
      /\ protection \in [Object -> Assessment] /\ moves \in 0..MaxMoves /\ shifts \in 0..moves
      /\ \A other \in InSeq(store) : live[other].attempt > 0
      /\ \A other \in Object : live[other].created <= now /\ live[other].touched <= now
  BY DEF RemoteTyped
<1>3. /\ store' \in Seq(Object) /\ Len(store') = Len(store) + 1
      /\ \A p \in 1..(Len(store) + 1) : store'[p] = IF p = 1 THEN id ELSE store[p - 1]
  BY <1>1, <1>2, InFront
<1>4. Len(store) \in Nat /\ DOMAIN store = 1..Len(store) /\ DOMAIN store' = 1..(Len(store) + 1)
  BY <1>2, <1>3
<1>5. id \notin InSeq(store)
  BY <1>1, Numbers
<1>6. \A i, j \in DOMAIN store' : store'[i] = store'[j] => i = j
  BY <1>2, <1>3, <1>4, <1>5 DEF InSeq
<1>7. InSeq(store)' = InSeq(store) \cup {id}
  <2>1. InSeq(store)' \subseteq InSeq(store) \cup {id}
    BY <1>3, <1>4 DEF InSeq
  <2> QED
    <3>1. \A i \in DOMAIN store : i + 1 \in DOMAIN store' /\ store'[i + 1] = store[i]
      BY <1>3, <1>4
    <3>2. 1 \in DOMAIN store' /\ store'[1] = id
      BY <1>3, <1>4
    <3> QED
      BY <2>1, <3>1, <3>2 DEF InSeq
<1>8. /\ live' \in [Object -> State]
      /\ \A other \in Object : live'[other].created <= now /\ live'[other].touched <= now
      /\ \A other \in Object : live[other].attempt > 0
           => live'[other].attempt > 0 /\ live'[other].created = live[other].created
      /\ live'[id].attempt > 0
  BY <1>1, <1>2, Numbers DEF State
<1>9. RemoteTyped'
  <2>1. moves' \in 0..MaxMoves /\ shifts' \in 0..moves'
    BY <1>1, <1>2, PlanningAssumption
  <2>2. InSeq(store) \subseteq Object
    BY <1>2, InSeqOf
  <2>3. \A other \in InSeq(store)' : live'[other].attempt > 0
    BY <1>2, <1>7, <1>8, <2>2
  <2> QED
    BY <1>1, <1>2, <1>3, <1>6, <1>8, <2>1, <2>3 DEF RemoteTyped
<1>10. Coming' \subseteq Coming \cup {store'[Len(read) + 1]}
  <2>1. read' = read /\ Len(read) \in Nat
    BY <1>1 DEF command, CommandTyped
  <2>2. ASSUME NEW p \in (Len(read) + 1)..(Len(store) + 1), p # Len(read) + 1
        PROVE  store'[p] = store[p - 1] /\ p - 1 \in (Len(read) + 1)..Len(store)
    BY <1>3, <1>4, <2>1, <2>2
  <2>3. Coming' = {store'[p] : p \in (Len(read) + 1)..(Len(store) + 1)}
    BY <1>3, <2>1 DEF Coming
  <2>4. Coming = {store[p] : p \in (Len(read) + 1)..Len(store)}
    BY DEF Coming
  <2> QED
    BY <2>2, <2>3, <2>4
<1>11. now' >= now
  BY <1>1, <1>2, Numbers
<1> QED
  BY <1>1, <1>8, <1>9, <1>10, <1>11 DEF Moved

\* The entries of the pages to come are no others than before.
LEMMA RemoveMoves ==
  ASSUME RemoteTyped, CommandTyped, NEW id \in Object, Remove(id)
  PROVE  RemoteTyped' /\ Moved
<1>1. /\ now' = now /\ kind' = kind /\ protection' = protection /\ UNCHANGED command
      /\ moves < MaxMoves /\ moves' = moves + 1 /\ shifts' = shifts
      /\ id \in InSeq(store) /\ store' = Without(store, id) /\ live' = live
  BY DEF Remove, Move, command
<1>2. /\ store \in Seq(Object) /\ live \in [Object -> State] /\ now \in Instant /\ kind \in Kind
      /\ \A i, j \in DOMAIN store : store[i] = store[j] => i = j
      /\ protection \in [Object -> Assessment] /\ moves \in 0..MaxMoves /\ shifts \in 0..moves
      /\ \A other \in InSeq(store) : live[other].attempt > 0
      /\ \A other \in Object : live[other].created <= now /\ live[other].touched <= now
  BY DEF RemoteTyped
<1>3. PICK place \in 1..Len(store) :
        /\ store[place] = id
        /\ \A p \in 1..(Len(store) - 1) : store'[p] = IF p < place THEN store[p] ELSE store[p + 1]
  BY <1>1, <1>2, WithoutIs
<1>4. store' \in Seq(Object) /\ Len(store') = Len(store) - 1 /\ Len(store) \in Nat \ {0}
  BY <1>1, <1>2, WithoutIs
<1>5. DOMAIN store = 1..Len(store) /\ DOMAIN store' = 1..(Len(store) - 1)
  BY <1>2, <1>4
<1>6. \A i, j \in DOMAIN store' : store'[i] = store'[j] => i = j
  <2> DEFINE at(p) == IF p < place THEN p ELSE p + 1
  <2>1. \A p \in 1..(Len(store) - 1) : at(p) \in 1..Len(store) /\ store'[p] = store[at(p)]
    BY <1>3, <1>4
  <2>2. \A p, q \in 1..(Len(store) - 1) : at(p) = at(q) => p = q
    <3> SUFFICES ASSUME NEW p \in 1..(Len(store) - 1), NEW q \in 1..(Len(store) - 1), at(p) = at(q)
                 PROVE  p = q
      OBVIOUS
    <3>1. p \in Int /\ q \in Int /\ place \in Int
      BY <1>4
    <3> QED
      BY <3>1
  <2> HIDE DEF at
  <2> QED
    BY <1>2, <1>5, <2>1, <2>2
<1>7. InSeq(store)' \subseteq InSeq(store)
  BY <1>3, <1>4, <1>5 DEF InSeq
<1>8. RemoteTyped'
  <2>1. moves' \in 0..MaxMoves /\ shifts' \in 0..moves'
    BY <1>1, <1>2, PlanningAssumption
  <2> QED
    BY <1>1, <1>2, <1>4, <1>6, <1>7, <2>1 DEF RemoteTyped
<1>9. Coming' \subseteq Coming
  <2>1. read' = read /\ Len(read) \in Nat
    BY <1>1 DEF command, CommandTyped
  <2>2. ASSUME NEW p \in (Len(read) + 1)..(Len(store) - 1)
        PROVE  \E q \in (Len(read) + 1)..Len(store) : store'[p] = store[q]
    <3>1. p \in (Len(read) + 1)..Len(store) /\ p + 1 \in (Len(read) + 1)..Len(store)
          /\ p \in 1..(Len(store) - 1)
      BY <1>4, <2>1
    <3> QED
      BY <1>3, <3>1
  <2> QED
    BY <1>4, <2>1, <2>2 DEF Coming
<1>10. now' >= now
  BY <1>1, <1>2, Numbers
<1> QED
  BY <1>1, <1>8, <1>9, <1>10 DEF Moved

\* One that is used may be listed again, or not at all.
LEMMA UseMoves ==
  ASSUME RemoteTyped, CommandTyped, NEW id \in Object, Use(id)
  PROVE  RemoteTyped' /\ Moved
<1> DEFINE rest == Without(store, id)
<1>1. /\ now' = now /\ kind' = kind /\ protection' = protection /\ UNCHANGED command
      /\ moves < MaxMoves /\ moves' = moves + 1 /\ shifts' = shifts + 1
      /\ id \in InSeq(store) /\ store' = <<id>> \o rest
      /\ live' = [live EXCEPT ![id].touched = now]
  BY DEF Use, Move, command
<1>2. /\ store \in Seq(Object) /\ live \in [Object -> State] /\ now \in Instant /\ kind \in Kind
      /\ \A i, j \in DOMAIN store : store[i] = store[j] => i = j
      /\ protection \in [Object -> Assessment] /\ moves \in 0..MaxMoves /\ shifts \in 0..moves
      /\ \A other \in InSeq(store) : live[other].attempt > 0
      /\ \A other \in Object : live[other].created <= now /\ live[other].touched <= now
  BY DEF RemoteTyped
<1>3. PICK place \in 1..Len(store) :
        /\ store[place] = id
        /\ \A p \in 1..(Len(store) - 1) : rest[p] = IF p < place THEN store[p] ELSE store[p + 1]
  BY <1>1, <1>2, WithoutIs
<1>4. rest \in Seq(Object) /\ Len(rest) = Len(store) - 1 /\ Len(store) \in Nat \ {0}
  BY <1>1, <1>2, WithoutIs
<1> HIDE DEF rest
<1>5. /\ store' \in Seq(Object) /\ Len(store') = Len(rest) + 1
      /\ \A p \in 1..(Len(rest) + 1) : store'[p] = IF p = 1 THEN id ELSE rest[p - 1]
  BY <1>1, <1>4, InFront
<1>6. Len(rest) + 1 = Len(store) /\ DOMAIN store = 1..Len(store) /\ DOMAIN store' = 1..Len(store)
  BY <1>2, <1>4, <1>5
<1>7. ASSUME NEW p \in 1..Len(store)
      PROVE  /\ p = 1 => store'[p] = store[place]
             /\ p # 1 /\ p - 1 < place => store'[p] = store[p - 1]
             /\ p # 1 /\ p - 1 >= place => store'[p] = store[p]
  <2>1. p # 1 => p - 1 \in 1..(Len(store) - 1) /\ (p - 1) + 1 = p
    BY <1>4
  <2>2. store'[p] = IF p = 1 THEN id ELSE rest[p - 1]
    BY <1>5, <1>6
  <2>3. p # 1 => rest[p - 1] = IF p - 1 < place THEN store[p - 1] ELSE store[p]
    BY <1>3, <2>1
  <2> QED
    BY <1>3, <1>4, <2>1, <2>2, <2>3
<1>8. \A i, j \in DOMAIN store' : store'[i] = store'[j] => i = j
  <2> DEFINE at(p) == IF p = 1 THEN place ELSE IF p - 1 < place THEN p - 1 ELSE p
  <2>1. \A p \in 1..Len(store) : at(p) \in 1..Len(store) /\ store'[p] = store[at(p)]
    BY <1>4, <1>7
  <2>2. \A p, q \in 1..Len(store) : at(p) = at(q) => p = q
    <3> SUFFICES ASSUME NEW p \in 1..Len(store), NEW q \in 1..Len(store), at(p) = at(q)
                 PROVE  p = q
      OBVIOUS
    <3>1. p \in Int /\ q \in Int /\ place \in Int /\ p >= 1 /\ q >= 1
      BY <1>4
    <3> QED
      BY <3>1
  <2> HIDE DEF at
  <2> QED
    BY <1>2, <1>6, <2>1, <2>2
<1>9. InSeq(store)' \subseteq InSeq(store)
  <2>1. \A p \in 1..Len(store) : \E q \in 1..Len(store) : store'[p] = store[q]
    BY <1>4, <1>7
  <2> QED
    BY <1>6, <2>1 DEF InSeq
<1>10. /\ live' \in [Object -> State]
       /\ \A other \in Object : live'[other].created <= now /\ live'[other].touched <= now
       /\ \A other \in Object : live'[other].attempt = live[other].attempt
                                /\ live'[other].created = live[other].created
  <2>1. /\ \A other \in Object : live[other] \in State /\ other # id => live'[other] = live[other]
        /\ live'[id] = [live[id] EXCEPT !.touched = now]
    BY <1>1, <1>2
  <2>2. live[id] \in State /\ now \in Nat
    BY <1>2, <2>1, Numbers
  <2>3. /\ live'[id] \in State /\ live'[id].touched = now /\ live'[id].attempt = live[id].attempt
        /\ live'[id].created = live[id].created
    BY <1>2, <2>1, <2>2 DEF State
  <2>4. live' \in [Object -> State]
    BY <1>1, <1>2, <2>1, <2>3
  <2>5. now <= now
    BY <2>2
  <2>6. /\ live'[id].created <= now /\ live'[id].touched <= now
    BY <1>2, <2>3, <2>5
  <2> QED
    BY <1>2, <2>1, <2>3, <2>4, <2>6
<1>11. RemoteTyped'
  <2>1. moves' \in 0..MaxMoves /\ shifts' \in 0..moves'
    BY <1>1, <1>2, PlanningAssumption
  <2>2. InSeq(store) \subseteq Object
    BY <1>2, InSeqOf
  <2>3. \A other \in InSeq(store)' : live'[other].attempt > 0
    BY <1>2, <1>9, <1>10, <2>2
  <2> QED
    BY <1>1, <1>2, <1>5, <1>8, <1>10, <2>1, <2>3 DEF RemoteTyped
<1>12. Coming' \subseteq Coming \cup {store'[Len(read) + 1]}
  <2>1. read' = read /\ Len(read) \in Nat
    BY <1>1 DEF command, CommandTyped
  <2>2. ASSUME NEW p \in (Len(read) + 1)..Len(store), p # Len(read) + 1
        PROVE  \E q \in (Len(read) + 1)..Len(store) : store'[p] = store[q]
    <3>1. /\ p \in 1..Len(store) /\ p # 1 /\ p \in (Len(read) + 1)..Len(store)
          /\ p - 1 \in (Len(read) + 1)..Len(store)
      BY <1>4, <2>1, <2>2
    <3>2. p - 1 < place \/ p - 1 >= place
      BY <3>1, <2>1, <1>4
    <3> QED
      BY <1>7, <3>1, <3>2
  <2> QED
    BY <1>5, <1>6, <2>1, <2>2 DEF Coming
<1>13. now' >= now
  BY <1>1, <1>2, Numbers
<1> QED
  BY <1>1, <1>2, <1>10, <1>11, <1>12, <1>13 DEF Moved, State

\* A run keeps its creation and its place.
LEMMA RerunMoves ==
  ASSUME RemoteTyped, CommandTyped, NEW id \in Object, Rerun(id)
  PROVE  RemoteTyped' /\ Moved
<1>1. /\ now' = now /\ kind' = kind /\ protection' = protection /\ UNCHANGED command
      /\ moves < MaxMoves /\ moves' = moves + 1 /\ shifts' = shifts /\ store' = store
      /\ live' = [live EXCEPT ![id].completed = ~@, ![id].touched = now,
                              ![id].attempt = IF live[id].completed THEN @ + 1 ELSE @]
  BY DEF Rerun, Move, command
<1>2. /\ store \in Seq(Object) /\ live \in [Object -> State] /\ now \in Instant
      /\ moves \in 0..MaxMoves /\ shifts \in 0..moves
      /\ \A other \in InSeq(store) : live[other].attempt > 0
      /\ \A other \in Object : live[other].created <= now /\ live[other].touched <= now
  BY DEF RemoteTyped
<1>3. /\ live' \in [Object -> State]
      /\ \A other \in Object : live'[other].created <= now /\ live'[other].touched <= now
      /\ \A other \in Object : live[other].attempt > 0
           => live'[other].attempt > 0 /\ live'[other].created = live[other].created
  <2> DEFINE run == live[id]
  <2>1. /\ \A other \in Object : live[other] \in State /\ other # id => live'[other] = live[other]
        /\ live'[id] = [run EXCEPT !.completed = ~@, !.touched = now,
                                    !.attempt = IF run.completed THEN @ + 1 ELSE @]
    BY <1>1, <1>2
  <2>2. run \in State /\ now \in Nat
    BY <1>2, <2>1, Numbers
  <2> HIDE DEF run
  <2>3. /\ live'[id] \in State /\ live'[id].touched = now /\ live'[id].created = run.created
        /\ run.attempt > 0 => live'[id].attempt > 0
    <3> DEFINE again == IF run.completed THEN run.attempt + 1 ELSE run.attempt
    <3>1. run.attempt \in Nat /\ run.completed \in BOOLEAN /\ run.created \in Instant
      BY <2>2 DEF State
    <3>2. again \in Nat /\ (run.attempt > 0 => again > 0)
      BY <3>1
    <3>3. live'[id] = [run EXCEPT !.completed = ~run.completed, !.touched = now, !.attempt = again]
      BY <2>1
    <3> HIDE DEF again
    <3>4. /\ live'[id] \in State /\ live'[id].touched = now /\ live'[id].created = run.created
          /\ live'[id].attempt = again
      BY <1>2, <2>2, <3>1, <3>2, <3>3 DEF State
    <3> QED
      BY <3>2, <3>4
  <2>4. live' \in [Object -> State]
    BY <1>1, <1>2, <2>1, <2>3
  <2>5. now <= now
    BY <2>2
  <2>6. live'[id].created <= now /\ live'[id].touched <= now
    BY <1>2, <2>3, <2>5 DEF run
  <2> QED
    BY <1>2, <2>1, <2>3, <2>4, <2>6 DEF run
<1>4. RemoteTyped'
  <2>1. moves' \in 0..MaxMoves /\ shifts' \in 0..moves'
    BY <1>1, <1>2, PlanningAssumption
  <2>2. \A other \in InSeq(store)' : other \in Object /\ live'[other].attempt > 0
    BY <1>1, <1>2, <1>3 DEF InSeq
  <2> QED
    BY <1>1, <1>3, <2>1, <2>2 DEF RemoteTyped
<1>5. Coming' \subseteq Coming
  BY <1>1 DEF Coming, command
<1>6. now' >= now
  BY <1>1, <1>2, Numbers
<1> QED
  BY <1>1, <1>3, <1>4, <1>5, <1>6 DEF Moved

\* protect and unprotect wait for the lease.
LEMMA ProtectMoves ==
  ASSUME RemoteTyped, CommandTyped, NEW id \in Object, Protect(id)
  PROVE  RemoteTyped' /\ Moved
<1>1. /\ UNCHANGED <<now, store, live, shifts>> /\ UNCHANGED command
      /\ moves < MaxMoves /\ moves' = moves + 1 /\ ~Leased(id)
  BY DEF Protect, Move
<1>2. PICK a \in Assessment : protection' = [protection EXCEPT ![id] = a]
  BY DEF Protect
<1>3. RemoteTyped'
  <2>1. moves' \in 0..MaxMoves /\ shifts' \in 0..moves'
    BY <1>1, PlanningAssumption DEF RemoteTyped
  <2>2. protection' \in [Object -> Assessment]
    BY <1>2 DEF RemoteTyped
  <2>3. kind' = kind
    BY <1>1 DEF command
  <2> QED
    BY <1>1, <2>1, <2>2, <2>3 DEF RemoteTyped, InSeq
<1>4. Coming' \subseteq Coming
  BY <1>1 DEF Coming, command
<1>5. \A other \in Object : protection'[other] # protection[other] => ~Leased(other)
  BY <1>1, <1>2 DEF RemoteTyped
<1>6. now' >= now
  BY <1>1, Numbers DEF RemoteTyped
<1> QED
  BY <1>1, <1>3, <1>4, <1>5, <1>6 DEF Moved

\* The clock goes forward.
LEMMA TickMoves ==
  ASSUME RemoteTyped, CommandTyped, Tick
  PROVE  RemoteTyped' /\ Moved
<1>1. /\ UNCHANGED <<store, live, protection, shifts>> /\ UNCHANGED command
      /\ moves < MaxMoves /\ moves' = moves + 1 /\ now < MaxDate /\ now' = now + 1
  BY DEF Tick, Move, remote
<1>2. RemoteTyped'
  <2>1. moves' \in 0..MaxMoves /\ shifts' \in 0..moves'
    BY <1>1, PlanningAssumption DEF RemoteTyped
  <2>2. now \in Nat /\ now' \in Instant
    BY <1>1, Numbers DEF RemoteTyped, Instant
  <2>3. kind' = kind
    BY <1>1 DEF command
  <2>4. \A id \in Object : live[id].created \in Nat /\ live[id].touched \in Nat
    BY Numbers DEF RemoteTyped, State
  <2>5. \A id \in Object : live'[id].created <= now' /\ live'[id].touched <= now'
    BY <1>1, <2>2, <2>4 DEF RemoteTyped
  <2> QED
    BY <1>1, <2>1, <2>2, <2>3, <2>5 DEF RemoteTyped, InSeq
<1>3. Coming' \subseteq Coming
  BY <1>1 DEF Coming, command
<1>4. now' >= now
  BY <1>1, Numbers DEF RemoteTyped
<1> QED
  BY <1>1, <1>2, <1>3, <1>4 DEF Moved

\* The entries are those of the kind.
LEMMA SameKind ==
  ASSUME kind' = kind
  PROVE  Entry' = Entry
BY DEF Entry, Shown

\* The ids of finitely many entries.
LEMMA IdsOf ==
  ASSUME NEW s \in Seq(Entry)
  PROVE  /\ Ids(s) = {s[i].id : i \in DOMAIN s} /\ Ids(s) \subseteq Object
         /\ IsFiniteSet(Ids(s)) /\ Cardinality(Ids(s)) \in Nat
<1> DEFINE f == [i \in DOMAIN s |-> s[i].id]
<1>1. DOMAIN s = 1..Len(s) /\ Len(s) \in Nat /\ \A i \in DOMAIN s : s[i].id \in Object
  <2>1. \A i \in DOMAIN s : s[i] \in Entry
    OBVIOUS
  <2> QED
    BY <2>1, Fields
<1>2. Ids(s) = {s[i].id : i \in DOMAIN s}
  BY DEF Ids, InSeq
<1>3. f \in Surjection(DOMAIN s, Ids(s))
  BY <1>2 DEF Surjection
<1>4. IsFiniteSet(DOMAIN s)
  BY <1>1, FS_Interval
<1>5. IsFiniteSet(Ids(s))
  BY <1>3, <1>4, FS_Surjection
<1> QED
  BY <1>1, <1>2, <1>5, FS_CardinalityType

\* Whatever others do, what has been seen was once so.
LEMMA OthersKeepInv ==
  ASSUME PlanningInv, RemoteTyped', Moved
  PROVE  PlanningInv'
<1>1. /\ RemoteTyped /\ CommandTyped /\ Listed /\ Lease /\ Justified /\ Paged
      /\ UNCHANGED command /\ now' >= now
  BY DEF PlanningInv, Moved
<1>2. /\ kind' = kind /\ pc' = pc /\ index' = index /\ read' = read /\ snapshot' = snapshot
      /\ scanned' = scanned /\ mode' = mode /\ config' = config /\ chosen' = chosen
      /\ targets' = targets
  BY <1>1 DEF command
<1>3. Entry' = Entry
  BY <1>2, SameKind
<1>4. now \in Nat /\ now' \in Nat
  BY <1>1, Numbers DEF RemoteTyped
<1>5. read \in Seq(Entry) /\ snapshot \in Seq(Entry) /\ chosen \in Seq(Entry)
  BY <1>1 DEF CommandTyped
<1>6. CommandTyped'
  <2>1. scanned' \in 0..now'
    BY <1>1, <1>2, <1>4 DEF CommandTyped
  <2>2. /\ InSeq(chosen)' = InSeq(chosen) /\ InSeq(targets)' = InSeq(targets)
        /\ InSeq(snapshot)' = InSeq(snapshot)
    BY <1>2 DEF InSeq
  <2>3. CommandTyped
    BY <1>1
  <2> QED
    BY <1>2, <1>3, <2>1, <2>2, <2>3 DEF CommandTyped
<1>7. Listed'
  <2>1. ASSUME NEW e \in Entry, IsOf(e) PROVE IsOf(e)'
    <3>1. e.id \in Object
      BY Fields
    <3> QED
      BY <1>2, <2>1, <3>1 DEF IsOf, Shown, Moved
  <2>2. InSeq(read) \subseteq Entry /\ InSeq(snapshot) \subseteq Entry
    BY <1>5, InSeqOf
  <2>3. InSeq(read)' = InSeq(read) /\ InSeq(snapshot)' = InSeq(snapshot)
    BY <1>2 DEF InSeq
  <2>4. ASSUME NEW e \in InSeq(read) PROVE e.created <= now' /\ e.touched <= now'
    <3>1. e.created \in Nat /\ e.touched \in Nat
      BY <2>2, Fields, Numbers
    <3> QED
      BY <1>1, <1>4, <3>1 DEF Listed
  <2> QED
    BY <1>1, <1>2, <2>1, <2>2, <2>3, <2>4 DEF Listed
<1>8. Lease'
  <2> SUFFICES ASSUME pc \in {"lookup", "artifacts"}
               PROVE  kind = "workflow_run" /\ chosen # <<>> /\ protection'[Head(chosen).id] = "NoEntry"
    BY <1>2 DEF Lease
  <2>1. kind = "workflow_run" /\ chosen # <<>> /\ protection[Head(chosen).id] = "NoEntry"
    BY <1>1 DEF Lease
  <2>2. Head(chosen) \in Entry
    BY <1>5, <2>1
  <2>3. Head(chosen).id \in Object
    BY <2>2, Fields
  <2> QED
    BY <2>1, <2>3 DEF Moved, Leased
<1>9. Justified'
  BY <1>1, <1>2 DEF Justified, Condemns, InSeq
<1>10. Paged'
  <2>1. Ids(read)' = Ids(read) /\ Ids(snapshot)' = Ids(snapshot)
    BY <1>2 DEF Ids, InSeq
  <2>2. Again \in SUBSET Ids(read)
    BY DEF Again
  <2>3. /\ IsFiniteSet(Ids(read)) /\ Cardinality(Ids(read)) \in Nat
        /\ Cardinality(Ids(snapshot)) \in Nat /\ Len(read) \in Nat /\ Len(snapshot) \in Nat
    BY <1>5, IdsOf
  <2>4. IsFiniteSet(Again) /\ Cardinality(Again) \in Nat
    BY <2>2, <2>3, FS_Subset, FS_CardinalityType
  <2>5. shifts \in Nat /\ shifts' \in Nat
    BY <1>1, PlanningAssumption DEF RemoteTyped
  <2>6. /\ Cardinality(Again') \in Nat
        /\ Cardinality(Again') - shifts' <= Cardinality(Again) - shifts
    <3>1. CASE shifts' = shifts /\ Coming' \subseteq Coming
      <4>1. Again' \in SUBSET Again
        BY <2>1, <3>1 DEF Again
      <4>2. Cardinality(Again') <= Cardinality(Again) /\ IsFiniteSet(Again')
        BY <2>4, <4>1, FS_Subset
      <4> QED
        BY <2>4, <2>5, <3>1, <4>2, FS_CardinalityType
    <3>2. ASSUME shifts' = shifts + 1, NEW x, Coming' \subseteq Coming \cup {x}
          PROVE  /\ Cardinality(Again') \in Nat
                 /\ Cardinality(Again') - shifts' <= Cardinality(Again) - shifts
      <4>1. Again' \in SUBSET (Again \cup {x})
        BY <2>1, <3>2 DEF Again
      <4>2. /\ IsFiniteSet(Again \cup {x})
            /\ Cardinality(Again \cup {x}) <= Cardinality(Again) + 1
            /\ Cardinality(Again \cup {x}) \in Nat
        BY <2>4, FS_AddElement, FS_CardinalityType
      <4>3. Cardinality(Again') <= Cardinality(Again \cup {x}) /\ IsFiniteSet(Again')
        BY <4>1, <4>2, FS_Subset
      <4>4. Cardinality(Again') \in Nat
        BY <4>3, FS_CardinalityType
      <4> QED
        BY <2>4, <2>5, <3>2, <4>2, <4>3, <4>4
    <3> QED
      BY <3>1, <3>2 DEF Moved
  <2>7. shifts' >= shifts
    BY <2>5 DEF Moved
  <2>8. Len(read') + Cardinality(Again') <= Cardinality(Ids(read)') + shifts'
    BY <1>1, <1>2, <2>1, <2>3, <2>4, <2>5, <2>6 DEF Paged
  <2>9. Len(snapshot') <= Cardinality(Ids(snapshot)') + shifts'
    BY <1>1, <1>2, <2>1, <2>3, <2>5, <2>7 DEF Paged
  <2> QED
    BY <1>1, <1>2, <2>8, <2>9 DEF Paged
<1> QED
  BY <1>1, <1>6, <1>7, <1>8, <1>9, <1>10 DEF PlanningInv

\* The steps of others preserve the invariant.
LEMMA EnvironmentKeepsInv ==
  ASSUME PlanningInv, Environment
  PROVE  PlanningInv'
<1>1. RemoteTyped /\ CommandTyped
  BY DEF PlanningInv
<1>2. RemoteTyped' /\ Moved
  BY <1>1, UploadMoves, RemoveMoves, RerunMoves, UseMoves, ProtectMoves, TickMoves DEF Environment
<1> QED
  BY <1>2, OthersKeepInv

-----------------------------------------------------------------------------
(* The pages *)

\* The next page begins where the last one ended, if the list has not moved.
LEMMA PageIsNext ==
  ASSUME NEW s \in Seq(Object), Len(read) \in Nat, Len(read) % PerPage = 0
  PROVE  /\ Page(s, Number) \in Seq(Object)
         /\ Len(Page(s, Number)) = IF Len(read) >= Len(s) THEN 0
              ELSE IF Len(read) + PerPage < Len(s) THEN PerPage ELSE Len(s) - Len(read)
         /\ \A i \in 1..Len(Page(s, Number)) :
              /\ Len(read) + i \in 1..Len(s)
              /\ Page(s, Number)[i] = s[Len(read) + i]
<1> DEFINE R == Len(read)
           L == Len(s)
           last == IF R + PerPage < L THEN R + PerPage ELSE L
           page == SubSeq(s, R + 1, last)
<1>1. PerPage \in Nat /\ PerPage > 0 /\ R \in Nat /\ L \in Nat
  BY PerPageAssumption
<1>2. PICK q \in Nat : R = PerPage * q
  <2>1. R \div PerPage \in Nat /\ R = PerPage * (R \div PerPage) + (R % PerPage)
    BY <1>1, Divided
  <2>2. PerPage * (R \div PerPage) \in Nat
    BY <1>1, <2>1
  <2>3. R = PerPage * (R \div PerPage)
    <3> HIDE DEF R
    <3>1. R % PerPage = 0
      BY DEF R
    <3> DEFINE w == PerPage * (R \div PerPage)
    <3>2. R = w + (R % PerPage) /\ w \in Nat
      BY <2>1, <2>2
    <3> HIDE DEF w
    <3>3. R = w
      BY <3>1, <3>2
    <3> QED
      BY <3>3 DEF w
  <2> QED
    BY <2>1, <2>3
<1>3. Number = q + 1
  <2>1. PerPage - 1 \in 0..(PerPage - 1) /\ R + PerPage - 1 = PerPage * q + (PerPage - 1)
    <3> DEFINE w == PerPage * q
    <3>1. R = w
      BY <1>2
    <3> HIDE DEF w
    <3>2. R + PerPage - 1 = w + (PerPage - 1) /\ PerPage - 1 \in 0..(PerPage - 1)
      BY <1>1, <3>1
    <3> QED
      BY <3>2 DEF w
  <2>2. (PerPage * q + (PerPage - 1)) \div PerPage = q
    BY <1>1, <2>1, Quotient
  <2> QED
    BY <2>1, <2>2 DEF Number
<1>4. (Number - 1) * PerPage + 1 = R + 1 /\ Number * PerPage = R + PerPage
  BY <1>1, <1>2, <1>3, Z3
<1>5. Page(s, Number) = page
  BY <1>4 DEF Page
<1>6. /\ \A i \in (R + 1)..last : s[i] \in Object
      /\ last \in Nat
  BY <1>1
<1> HIDE DEF R, L
<1>7. /\ page \in Seq(Object) /\ Len(page) = IF R + 1 <= last THEN last - R ELSE 0
      /\ \A i \in 1..(last - R) : page[i] = s[R + i]
  <2> HIDE DEF last
  <2> QED
    BY <1>1, <1>6
<1>8. Len(page) = IF R >= L THEN 0 ELSE IF R + PerPage < L THEN PerPage ELSE L - R
  BY <1>1, <1>7
<1>9. \A i \in 1..Len(page) : i \in 1..(last - R) /\ R + i \in 1..L
  BY <1>1, <1>8
<1> HIDE DEF page, last
<1>10. \A i \in 1..Len(page) : page[i] = s[R + i]
  BY <1>7, <1>9
<1> QED
  BY <1>5, <1>7, <1>8, <1>9, <1>10 DEF R, L

\* What a page adds to what has been read.
LEMMA ReadOn ==
  ASSUME RemoteTyped, NEW page \in Seq(Object), NEW before \in Seq(Entry), NEW all,
         all = before \o [i \in DOMAIN page |-> Item(page[i])]
  PROVE  /\ all \in Seq(Entry) /\ Len(all) = Len(before) + Len(page)
         /\ InSeq(all) = InSeq(before) \cup {Item(id) : id \in InSeq(page)}
         /\ Ids(all) = Ids(before) \cup InSeq(page)
<1> DEFINE more == [i \in DOMAIN page |-> Item(page[i])]
<1>1. ASSUME NEW id \in Object PROVE Item(id) \in Entry /\ Item(id).id = id
  <2>1. live[id] \in State
    BY DEF RemoteTyped
  <2> QED
    BY <2>1 DEF Item, Entry, Shown, State
<1>2. DOMAIN page = 1..Len(page) /\ Len(page) \in Nat /\ \A i \in DOMAIN page : page[i] \in Object
  OBVIOUS
<1>3. more \in [1..Len(page) -> Entry]
  BY <1>1, <1>2
<1>4. more \in Seq(Entry) /\ Len(more) = Len(page)
  BY <1>2, <1>3
<1>5. \A i \in 1..Len(page) : more[i] = Item(page[i])
  BY <1>2
<1> HIDE DEF more
<1>6. before \o more \in Seq(Entry) /\ Len(before \o more) = Len(before) + Len(more)
  BY <1>4
<1>7. \A p \in 1..Len(before) : (before \o more)[p] = before[p]
  BY <1>4
<1>8. \A p \in 1..Len(more) : (before \o more)[Len(before) + p] = more[p]
  BY <1>4
<1>9. all = before \o more
  BY DEF more
<1>10. DOMAIN all = 1..(Len(before) + Len(page)) /\ DOMAIN before = 1..Len(before) /\ Len(before) \in Nat
  BY <1>4, <1>6, <1>9
<1>11. \A p \in DOMAIN all : \/ p \in 1..Len(before)
                            \/ \E q \in 1..Len(page) : p = Len(before) + q
  <2> SUFFICES ASSUME NEW p \in DOMAIN all, p \notin 1..Len(before)
               PROVE  \E q \in 1..Len(page) : p = Len(before) + q
    OBVIOUS
  <2>1. p - Len(before) \in 1..Len(page) /\ p = Len(before) + (p - Len(before))
    BY <1>2, <1>10
  <2> QED
    BY <2>1
<1>12. InSeq(all) = InSeq(before) \cup {Item(id) : id \in InSeq(page)}
  <2>1. InSeq(all) \subseteq InSeq(before) \cup {Item(id) : id \in InSeq(page)}
    <3> SUFFICES ASSUME NEW p \in DOMAIN all
                 PROVE  all[p] \in InSeq(before) \cup {Item(id) : id \in InSeq(page)}
      BY DEF InSeq
    <3>1. CASE p \in 1..Len(before)
      <4>1. all[p] = before[p]
        BY <1>7, <1>9, <3>1
      <4> QED
        BY <1>10, <3>1, <4>1 DEF InSeq
    <3>2. ASSUME NEW q \in 1..Len(page), p = Len(before) + q
          PROVE  all[p] \in {Item(id) : id \in InSeq(page)}
      <4>1. all[p] = Item(page[q])
        BY <1>4, <1>5, <1>8, <1>9, <3>2
      <4> QED
        BY <1>2, <4>1 DEF InSeq
    <3> QED
      BY <1>11, <3>1, <3>2
  <2>2. InSeq(before) \subseteq InSeq(all)
    <3> SUFFICES ASSUME NEW p \in 1..Len(before) PROVE before[p] \in InSeq(all)
      BY <1>10 DEF InSeq
    <3>1. p \in DOMAIN all /\ all[p] = before[p]
      BY <1>2, <1>7, <1>9, <1>10
    <3> QED
      BY <3>1 DEF InSeq
  <2>3. {Item(id) : id \in InSeq(page)} \subseteq InSeq(all)
    <3> SUFFICES ASSUME NEW q \in 1..Len(page) PROVE Item(page[q]) \in InSeq(all)
      BY <1>2 DEF InSeq
    <3>1. Len(before) + q \in DOMAIN all /\ all[Len(before) + q] = Item(page[q])
      BY <1>2, <1>4, <1>5, <1>8, <1>9, <1>10
    <3> QED
      BY <3>1 DEF InSeq
  <2> QED
    BY <2>1, <2>2, <2>3
<1>13. Ids(all) = Ids(before) \cup InSeq(page)
  <2>1. InSeq(page) \subseteq Object
    BY InSeqOf
  <2>2. {e.id : e \in {Item(id) : id \in InSeq(page)}} = InSeq(page)
    BY <1>1, <2>1
  <2> QED
    BY <1>12, <2>2 DEF Ids
<1> QED
  BY <1>4, <1>6, <1>9, <1>12, <1>13

\* Reading a page counts what is in it a second time, and no more.
LEMMA PageCounts ==
  ASSUME PlanningInv, NEW page \in Seq(Object), NEW all \in Seq(Entry), NEW n \in Nat,
         n = Len(page), Len(all) = Len(read) + n, Ids(all) = Ids(read) \cup InSeq(page),
         n > 0 => Len(read) + n <= Len(store),
         \A i \in 1..n : Len(read) + i \in 1..Len(store) /\ page[i] = store[Len(read) + i]
  PROVE  Len(all) + Cardinality({store[p] : p \in (Len(all) + 1)..Len(store)} \cap Ids(all))
           <= Cardinality(Ids(all)) + shifts
<1> DEFINE R == Len(read)
           L == Len(store)
           I == Ids(read)
           P == InSeq(page)
           After == {store[p] : p \in (R + n + 1)..L}
           f == [i \in 1..n |-> page[i]]
<1>1. /\ store \in Seq(Object) /\ read \in Seq(Entry)
      /\ \A i, j \in DOMAIN store : store[i] = store[j] => i = j
      /\ R + Cardinality(Again) <= Cardinality(I) + shifts
      /\ shifts \in Nat
  BY PlanningAssumption DEF PlanningInv, RemoteTyped, CommandTyped, Paged
<1>2. R \in Nat /\ L \in Nat /\ DOMAIN store = 1..L /\ DOMAIN page = 1..n
  BY <1>1
<1>3. IsFiniteSet(I) /\ Cardinality(I) \in Nat
  BY <1>1, IdsOf
<1>4. IsFiniteSet(P) /\ Cardinality(P) = n
  <2>1. P = {page[i] : i \in 1..n}
    BY <1>2 DEF InSeq
  <2>2. f \in Surjection(1..n, P)
    BY <2>1 DEF Surjection
  <2>3. f \in Injection(1..n, P)
    <3>1. ASSUME NEW i \in 1..n, NEW j \in 1..n, page[i] = page[j] PROVE i = j
      <4>1. R + i \in DOMAIN store /\ R + j \in DOMAIN store /\ store[R + i] = store[R + j]
        BY <1>2, <3>1
      <4>2. R + i = R + j
        BY <1>1, <4>1
      <4> QED
        BY <1>2, <4>2
    <3> QED
      BY <2>2, <3>1 DEF Surjection, Injection, IsInjective
  <2>4. ExistsBijection(1..n, P)
    BY <2>2, <2>3 DEF ExistsBijection, Bijection
  <2> HIDE DEF f
  <2>5. n \in Int /\ 1 \in Int /\ (IF 1 > n THEN 0 ELSE n - 1 + 1) = n
    OBVIOUS
  <2>6. IsFiniteSet(1..n) /\ Cardinality(1..n) = n
    BY <2>5, FS_Interval
  <2> QED
    BY <2>4, <2>6, FS_Bijection
<1> HIDE DEF f
<1>5. After \cap P = {}
  <2> SUFFICES ASSUME NEW p \in (R + n + 1)..L, NEW i \in 1..n, store[p] = page[i] PROVE FALSE
    BY <1>2 DEF InSeq
  <2>1. p \in 1..L /\ R + i \in 1..L /\ store[p] = store[R + i] /\ p # R + i
    BY <1>2
  <2> QED
    BY <1>1, <1>2, <2>1
<1>6. Coming \cap I = (P \cap I) \cup (After \cap I)
  <2>1. P \subseteq Coming
    <3> SUFFICES ASSUME NEW i \in 1..n PROVE page[i] \in Coming
      BY <1>2 DEF InSeq
    <3>1. R + i \in (R + 1)..L /\ page[i] = store[R + i]
      BY <1>2
    <3> QED
      BY <3>1 DEF Coming
  <2>2. After \subseteq Coming
    <3>1. R \in Nat /\ n \in Nat /\ L \in Nat
      BY <1>2
    <3> HIDE DEF R, L
    <3>2. (R + n + 1)..L \subseteq (R + 1)..L
      BY <3>1
    <3> QED
      BY <3>2 DEF Coming, R, L
  <2>3. Coming \subseteq P \cup After
    <3> SUFFICES ASSUME NEW p \in (R + 1)..L, p \notin (R + n + 1)..L PROVE store[p] \in P
      BY DEF Coming
    <3>1. p - R \in 1..n /\ R + (p - R) = p
      <4>1. R \in Nat /\ n \in Nat /\ L \in Nat
        BY <1>2
      <4> HIDE DEF R, L
      <4> QED
        BY <4>1
    <3>2. page[p - R] = store[p]
      BY <3>1
    <3> QED
      BY <1>2, <3>1, <3>2 DEF InSeq
  <2> QED
    BY <2>1, <2>2, <2>3
<1>7. {store[p] : p \in (Len(all) + 1)..Len(store)} \cap Ids(all) = After \cap I
  <2>1. Len(all) + 1 = R + n + 1
    BY <1>2
  <2> QED
    BY <1>5, <2>1
<1> HIDE DEF R, L, I, P, After
<1>8. /\ IsFiniteSet(P \cap I) /\ IsFiniteSet(After \cap I)
      /\ Cardinality(P \cap I) \in Nat /\ Cardinality(After \cap I) \in Nat
  BY <1>3, FS_Intersection, FS_CardinalityType
<1>9. Cardinality(Coming \cap I) = Cardinality(P \cap I) + Cardinality(After \cap I)
  <2>1. (P \cap I) \cap (After \cap I) = {}
    BY <1>5
  <2>2. Cardinality((P \cap I) \cup (After \cap I))
          = Cardinality(P \cap I) + Cardinality(After \cap I) - Cardinality({})
    BY <1>8, <2>1, FS_Union
  <2>3. Cardinality(Coming \cap I) = Cardinality((P \cap I) \cup (After \cap I))
    BY <1>6
  <2> QED
    BY <1>8, <2>2, <2>3, FS_EmptySet
<1>10. Cardinality(I \cup P) = Cardinality(I) + n - Cardinality(P \cap I)
  <2>1. I \cap P = P \cap I
    OBVIOUS
  <2> QED
    BY <1>3, <1>4, <2>1, FS_Union
<1>11. Again = Coming \cap I /\ Ids(all) = I \cup P /\ Len(all) = R + n
  BY DEF Again, I, P, R
<1> DEFINE a == Cardinality(P \cap I)
           b == Cardinality(After \cap I)
           c == Cardinality(I)
<1>12. R + (a + b) <= c + shifts
  BY <1>1, <1>9, <1>11
<1>13. a \in Nat /\ b \in Nat /\ c \in Nat
  BY <1>3, <1>8
<1>14. (R + n) + b <= (c + n - a) + shifts
  <2> HIDE DEF a, b, c
  <2> QED
    BY <1>1, <1>2, <1>12, <1>13
<1> QED
  BY <1>7, <1>10, <1>11, <1>14 DEF L

\* A request reads on, and the last one sorts what has been read.
LEMMA FetchPageKeepsInv ==
  ASSUME PlanningInv, FetchPage
  PROVE  PlanningInv'
<1> DEFINE page == Page(store, Number)
           all == read \o [i \in DOMAIN page |-> Item(page[i])]
           n == Len(page)
<1>1. /\ RemoteTyped /\ CommandTyped /\ Listed /\ Paged /\ pc = "list"
      /\ UNCHANGED <<now, moves, store, live, protection, shifts, kind>>
      /\ UNCHANGED <<index, mode, config, chosen, targets>>
      /\ read' = all
      /\ \/ /\ ListingEnds(page, Len(all), Len(store))
            /\ pc' = "select" /\ snapshot' = Sorted(all) /\ scanned' = now
         \/ /\ ~ListingEnds(page, Len(all), Len(store))
            /\ UNCHANGED <<pc, snapshot, scanned>>
  BY DEF FetchPage, PlanningInv, EndScan, remote
<1>2. /\ store \in Seq(Object) /\ read \in Seq(Entry) /\ Len(read) \in Nat
      /\ Len(read) % PerPage = 0 /\ snapshot \in Seq(Entry) /\ now \in Nat /\ Len(store) \in Nat
  BY <1>1, Numbers DEF RemoteTyped, CommandTyped, Paged
<1>3. /\ page \in Seq(Object) /\ n \in Nat
      /\ n = IF Len(read) >= Len(store) THEN 0
             ELSE IF Len(read) + PerPage < Len(store) THEN PerPage ELSE Len(store) - Len(read)
      /\ \A i \in 1..n : /\ Len(read) + i \in 1..Len(store)
                         /\ page[i] = store[Len(read) + i]
  BY <1>2, PageIsNext
<1>4. /\ all \in Seq(Entry) /\ Len(all) = Len(read) + n
      /\ InSeq(all) = InSeq(read) \cup {Item(id) : id \in InSeq(page)}
      /\ Ids(all) = Ids(read) \cup InSeq(page)
  <2> HIDE DEF page
  <2> QED
    BY <1>1, <1>2, <1>3, ReadOn
<1>5. InSeq(page) \subseteq InSeq(store)
  <2>1. DOMAIN page = 1..n /\ DOMAIN store = 1..Len(store)
    BY <1>2, <1>3
  <2> HIDE DEF page, n
  <2> QED
    BY <1>3, <2>1 DEF InSeq
<1> HIDE DEF page, all
<1>6. Len(all) + Cardinality({store[p] : p \in (Len(all) + 1)..Len(store)} \cap Ids(all))
        <= Cardinality(Ids(all)) + shifts
  <2>1. n > 0 => Len(read) + n <= Len(store)
    BY <1>2, <1>3, PerPageAssumption
  <2> QED
    BY <1>3, <1>4, <2>1, PageCounts
<1>7. Entry' = Entry
  BY <1>1, SameKind
<1>8. RemoteTyped'
  BY <1>1 DEF RemoteTyped, InSeq
<1>9. Sorted(all) \in Seq(Entry) /\ Len(Sorted(all)) = Len(all) /\ InSeq(Sorted(all)) = InSeq(all)
  BY <1>4, SortedIsPermutation
<1>10. CommandTyped'
  <2>1. mode = "none" /\ chosen = <<>> /\ targets = <<>> /\ pc # "start"
    BY <1>1 DEF CommandTyped
  <2>2. InSeq(chosen) = {} /\ InSeq(targets) = {}
    BY <2>1 DEF InSeq
  <2>3. snapshot' \in Seq(Entry) /\ scanned' \in 0..now /\ pc' \in {"list", "select"}
    BY <1>1, <1>2, <1>9 DEF CommandTyped
  <2>4. /\ index' \in [Object -> Assessment] /\ pc' \in Pc /\ mode' = "none"
        /\ chosen' \in Seq(Entry) /\ targets' \in Seq(Entry) /\ read' \in Seq(Entry)
        /\ InSeq(chosen)' = {} /\ InSeq(targets)' = {}
    BY <1>1, <1>4, <2>1, <2>2, <2>3 DEF CommandTyped, Pc, InSeq
  <2> QED
    BY <1>1, <1>7, <2>1, <2>3, <2>4 DEF CommandTyped, Mode
<1>11. Listed'
  <2>1. ASSUME NEW id \in InSeq(page)
        PROVE  IsOf(Item(id)) /\ Item(id).created <= now /\ Item(id).touched <= now
    <3>1. id \in Object
      BY <1>3, InSeqOf
    <3>2. id \in InSeq(store)
      BY <1>5
    <3> QED
      BY <1>1, <3>1, <3>2 DEF RemoteTyped, IsOf, Item, Shown
  <2>2. \A e \in InSeq(all) : IsOf(e) /\ e.created <= now /\ e.touched <= now
    BY <1>1, <1>4, <2>1 DEF Listed
  <2>3. \A e : IsOf(e)' <=> IsOf(e)
    BY <1>1 DEF IsOf, Shown
  <2>4. InSeq(read)' = InSeq(all)
    BY <1>1 DEF InSeq
  <2>5. \/ snapshot' = snapshot /\ scanned' = scanned
        \/ InSeq(snapshot)' = InSeq(all) /\ scanned' = now
    BY <1>1, <1>9 DEF InSeq
  <2>6. \A e \in InSeq(snapshot)' : IsOf(e) /\ e.created <= scanned' /\ e.touched <= scanned'
    BY <1>1, <2>2, <2>5 DEF Listed, InSeq
  <2> QED
    BY <1>1, <2>2, <2>3, <2>4, <2>6 DEF Listed
<1>12. Lease' /\ Justified'
  <2>1. mode' = "none" /\ pc' \in {"list", "select"}
    BY <1>1 DEF CommandTyped
  <2> QED
    BY <2>1 DEF Lease, Justified
<1>13. Paged'
  <2>1. Again' = {store[p] : p \in (Len(all) + 1)..Len(store)} \cap Ids(all)
    BY <1>1 DEF Again, Coming, Ids, InSeq
  <2>2. Ids(read)' = Ids(all) /\ Len(read') = Len(all)
    BY <1>1 DEF Ids, InSeq
  <2>3. Len(read') + Cardinality(Again)' <= Cardinality(Ids(read))' + shifts'
    BY <1>1, <1>6, <2>1, <2>2
  <2>4. ASSUME pc' = "list" PROVE Len(read') % PerPage = 0
    <3>1. page # <<>> /\ Len(all) < Len(store)
      BY <1>1, <1>2, <1>4, <2>4 DEF ListingEnds
    <3>2. n # 0
      BY <1>3, <3>1
    <3>3. n = PerPage
      BY <1>2, <1>3, <1>4, <3>1, <3>2, PerPageAssumption
    <3>4. (Len(read) + PerPage) % PerPage = 0
      <4> DEFINE R == Len(read)
      <4> HIDE DEF R
      <4>1. R \in Nat /\ R % PerPage = 0
        BY <1>2 DEF R
      <4>2. PICK q \in Nat : R = PerPage * q + 0
        BY <4>1, PerPageAssumption, Divided
      <4>3. R + PerPage = PerPage * (q + 1) + 0
        BY <4>2, PerPageAssumption, Z3
      <4>4. (R + PerPage) % PerPage = 0
        BY <4>3, PerPageAssumption, Quotient
      <4> QED
        BY <4>4 DEF R
    <3> QED
      BY <1>4, <2>2, <3>3, <3>4
  <2>5. Len(snapshot') <= Cardinality(Ids(snapshot))' + shifts'
    <3>1. CASE snapshot' = snapshot
      BY <1>1, <3>1 DEF Paged, Ids, InSeq
    <3>2. CASE snapshot' = Sorted(all)
      <4>1. Ids(snapshot)' = Ids(all) /\ Len(snapshot') = Len(all)
        BY <1>9, <3>2 DEF Ids, InSeq
      <4> DEFINE A == {store[p] : p \in (Len(all) + 1)..Len(store)} \cap Ids(all)
      <4>2. IsFiniteSet(Ids(all)) /\ Cardinality(Ids(all)) \in Nat
        BY <1>4, IdsOf
      <4>3. A \in SUBSET Ids(all)
        OBVIOUS
      <4> HIDE DEF A
      <4>4. Cardinality(A) \in Nat
        BY <4>2, <4>3, FS_Subset, FS_CardinalityType
      <4>5. Len(all) + Cardinality(A) <= Cardinality(Ids(all)) + shifts
        BY <1>6 DEF A
      <4>6. shifts \in Nat /\ Len(all) \in Nat
        BY <1>1, <1>2, <1>3, <1>4, PlanningAssumption DEF RemoteTyped
      <4> QED
        BY <1>1, <4>1, <4>2, <4>4, <4>5, <4>6
    <3> QED
      BY <1>1, <3>1, <3>2
  <2>6. pc' # "start"
    BY <1>1
  <2> QED
    BY <2>3, <2>4, <2>5, <2>6 DEF Paged
<1> QED
  BY <1>8, <1>10, <1>11, <1>12, <1>13 DEF PlanningInv

-----------------------------------------------------------------------------
(* After the listing *)

\* What the steps of the command other than a request of the listing leave as it is.
Aside ==
  /\ UNCHANGED <<now, moves, remote, kind, read, snapshot, scanned>>
  /\ pc' # "start" /\ (pc' = "list" => pc \in {"start", "list"})

\* So these parts of the invariant stay.
LEMMA AsideKeeps ==
  ASSUME PlanningInv, Aside
  PROVE  /\ RemoteTyped' /\ Listed' /\ Paged'
         /\ Entry' = Entry /\ read' \in Seq(Entry) /\ snapshot' \in Seq(Entry)
         /\ scanned' \in 0..now' /\ kind' = kind /\ protection' = protection
         /\ InSeq(snapshot)' = InSeq(snapshot)
<1>1. /\ UNCHANGED <<now, moves, store, live, protection, shifts, kind, read, snapshot, scanned>>
      /\ pc' # "start" /\ (pc' = "list" => pc \in {"start", "list"})
      /\ RemoteTyped /\ CommandTyped /\ Listed /\ Paged
  BY DEF Aside, remote, PlanningInv
<1>2. RemoteTyped'
  BY <1>1 DEF RemoteTyped, InSeq
<1>3. Listed'
  BY <1>1 DEF Listed, IsOf, Shown, InSeq
<1>4. Paged'
  BY <1>1 DEF Paged, Ids, Again, Coming, InSeq
<1>5. Entry' = Entry
  BY <1>1, SameKind
<1>6. read' \in Seq(Entry) /\ snapshot' \in Seq(Entry) /\ scanned' \in 0..now'
  BY <1>1 DEF CommandTyped
<1>7. InSeq(snapshot)' = InSeq(snapshot)
  BY <1>1 DEF InSeq
<1> QED
  BY <1>1, <1>2, <1>3, <1>4, <1>5, <1>6, <1>7

\* Nothing is read before the protections.
LEMMA StartKeepsInv ==
  ASSUME PlanningInv, Start
  PROVE  PlanningInv'
<1>1. Aside /\ index' = protection /\ UNCHANGED <<mode, config, chosen, targets>>
      /\ pc = "start" /\ pc' = "list" /\ kind' = kind
  BY DEF Start, Aside
<1>2. CommandTyped /\ RemoteTyped
  BY DEF PlanningInv
<1>3. /\ RemoteTyped' /\ Listed' /\ Paged'
      /\ Entry' = Entry /\ read' \in Seq(Entry) /\ snapshot' \in Seq(Entry)
      /\ scanned' \in 0..now' /\ InSeq(snapshot)' = InSeq(snapshot)
  BY <1>1, AsideKeeps
<1>4. mode = "none" /\ chosen = <<>> /\ targets = <<>>
  BY <1>1, <1>2 DEF CommandTyped
<1>5. CommandTyped'
  <2>1. InSeq(chosen)' = {} /\ InSeq(targets)' = {}
    BY <1>1, <1>4 DEF InSeq
  <2>2. index' \in [Object -> Assessment] /\ pc' \in Pc /\ mode' \in Mode
    BY <1>1, <1>2, <1>4 DEF CommandTyped, RemoteTyped, Pc
  <2> QED
    BY <1>1, <1>3, <1>4, <2>1, <2>2 DEF CommandTyped
<1>6. Lease' /\ Justified'
  BY <1>1, <1>4 DEF Lease, Justified
<1> QED
  BY <1>3, <1>5, <1>6 DEF PlanningInv

\* A step that only ends the command.
LEMMA EndingKeepsInv ==
  ASSUME PlanningInv, pc' = "refused",
         UNCHANGED <<now, moves, remote, kind, index, read, snapshot, scanned, mode, config,
                     chosen, targets>>,
         mode = "Policy" => kind # "cache"
  PROVE  PlanningInv'
<1>1. Aside
  BY DEF Aside
<1>2. /\ RemoteTyped' /\ Listed' /\ Paged'
      /\ Entry' = Entry /\ read' \in Seq(Entry) /\ snapshot' \in Seq(Entry)
      /\ scanned' \in 0..now' /\ InSeq(snapshot)' = InSeq(snapshot)
  BY <1>1, AsideKeeps
<1>3. CommandTyped'
  BY <1>2 DEF PlanningInv, CommandTyped, Pc, InSeq
<1>4. Lease'
  BY DEF Lease
<1>5. Justified'
  BY DEF PlanningInv, Justified, Condemns, InSeq
<1> QED
  BY <1>2, <1>3, <1>4, <1>5 DEF PlanningInv

\* A refused plan has no targets to be sorted.
LEMMA RefuseKeepsInv ==
  ASSUME PlanningInv, Refuse
  PROVE  PlanningInv'
<1>1. mode = "Policy" => kind # "cache"
  BY DEF Refuse, PlanningInv, Justified
<1> QED
  BY <1>1, EndingKeepsInv DEF Refuse

\* The choice of some places of the snapshot.
LEMMA SelectKeepsInv ==
  ASSUME PlanningInv, pc = "select", NEW how \in {"Policy", "AllCompleted", "ExplicitIds"},
         NEW places, places \subseteq DOMAIN snapshot, Select(how, Pick(places)),
         how = "Policy" =>
           /\ config' \in Configs[kind] /\ kind # "cache"
           /\ \A i \in places : \E j \in DOMAIN snapshot :
                snapshot[j].id = snapshot[i].id /\ Condemns(config, j)'
  PROVE  PlanningInv'
<1>1. /\ mode' = how /\ chosen' = Pick(places) /\ index' = protection /\ pc' = "verify"
      /\ UNCHANGED <<now, moves, remote, kind, read, snapshot, scanned, targets>>
  BY DEF Select
<1>2. CommandTyped /\ RemoteTyped
  BY DEF PlanningInv
<1>3. Aside
  BY <1>1 DEF Aside
<1>4. /\ RemoteTyped' /\ Listed' /\ Paged'
      /\ Entry' = Entry /\ read' \in Seq(Entry) /\ snapshot' \in Seq(Entry)
      /\ scanned' \in 0..now' /\ InSeq(snapshot)' = InSeq(snapshot)
  BY <1>3, AsideKeeps
<1>5. targets = <<>> /\ snapshot \in Seq(Entry)
  BY <1>2 DEF CommandTyped
<1>6. /\ Pick(places) \in Seq(Entry)
      /\ \A e \in InSeq(Pick(places)) : \E i \in places : e = snapshot[i]
  BY <1>5, PickIsPart
<1>7. InSeq(chosen)' = InSeq(Pick(places)) /\ InSeq(targets)' = {}
  BY <1>1, <1>5 DEF InSeq
<1>8. InSeq(Pick(places)) \subseteq InSeq(snapshot)
  BY <1>6 DEF InSeq
<1>9. CommandTyped'
  <2>1. /\ index' \in [Object -> Assessment] /\ pc' \in Pc /\ mode' \in Mode
        /\ chosen' \in Seq(Entry') /\ targets' \in Seq(Entry')
        /\ mode' = "Policy" => config' \in Configs[kind']
    BY <1>1, <1>2, <1>4, <1>5, <1>6 DEF CommandTyped, RemoteTyped, Pc, Mode
  <2> QED
    BY <1>1, <1>4, <1>7, <1>8, <2>1 DEF CommandTyped
<1>10. Lease'
  BY <1>1 DEF Lease
<1>11. Justified'
  <2> SUFFICES ASSUME how = "Policy" PROVE Justified'
    BY <1>1 DEF Justified
  <2>1. \A e \in InSeq(Pick(places)) : \E j \in DOMAIN snapshot :
          snapshot[j].id = e.id /\ Condemns(config, j)'
    BY <1>6
  <2>2. kind' # "cache" /\ snapshot' = snapshot
    BY <1>1
  <2> QED
    BY <1>7, <2>1, <2>2 DEF Justified
<1> QED
  BY <1>4, <1>9, <1>10, <1>11 DEF PlanningInv

\* An object that Classify dooms is condemned whatever the protections.
LEMMA DoomedIsCondemned ==
  ASSUME kind \in Kind, NEW policy, NEW i \in Doomed(policy)
  PROVE  Condemns(policy, i)
<1>1. Classify(policy, i) = "Delete"
  BY DEF Doomed
<1>2. CASE kind = "artifact"
  BY <1>1, <1>2 DEF Classify, Condemns
<1>3. CASE kind = "cache"
  BY <1>1, <1>3 DEF Classify, Condemns
<1>4. CASE kind = "workflow_run"
  <2> DEFINE a == index[snapshot[i].id]
  <2>1. ClassifyRun(policy, snapshot, i, scanned, a) = "Delete"
    BY <1>1, <1>4 DEF Classify
  <2>2. a # "Protected" /\ a # "Review"
    BY <2>1 DEF ClassifyRun
  <2>3. ClassifyRun(policy, snapshot, i, scanned, "NoEntry") = "Delete"
    <3> HIDE DEF a
    <3> QED
      BY <2>1, <2>2 DEF ClassifyRun
  <2> QED
    BY <1>4, <2>3 DEF Condemns
<1> QED
  BY <1>2, <1>3, <1>4 DEF Kind

\* What a policy chooses it condemns; the index says of it that it has no entry.
LEMMA SelectRunsByPolicyKeepsInv ==
  ASSUME PlanningInv, SelectRunsByPolicy
  PROVE  PlanningInv'
<1>1. PICK policy \in Configs[kind] :
        /\ config' = policy
        /\ Select("Policy", Pick({i \in DOMAIN snapshot :
                                    snapshot[i].id \in {snapshot[j].id : j \in Doomed(policy)}}))
  BY DEF SelectRunsByPolicy
<1>2. pc = "select" /\ kind = "workflow_run" /\ kind \in Kind
  BY DEF SelectRunsByPolicy, PlanningInv, RemoteTyped
<1> DEFINE places == {i \in DOMAIN snapshot :
                        snapshot[i].id \in {snapshot[j].id : j \in Doomed(policy)}}
<1>3. UNCHANGED <<kind, snapshot, scanned>>
  BY <1>1 DEF Select
<1>4. \A i \in places : \E j \in DOMAIN snapshot :
        snapshot[j].id = snapshot[i].id /\ Condemns(config, j)'
  <2> SUFFICES ASSUME NEW i \in places
               PROVE  \E j \in DOMAIN snapshot : snapshot[j].id = snapshot[i].id /\ Condemns(config, j)'
    OBVIOUS
  <2>1. PICK j \in Doomed(policy) : snapshot[i].id = snapshot[j].id
    OBVIOUS
  <2>2. j \in DOMAIN snapshot
    BY DEF Doomed
  <2>3. Condemns(policy, j)
    BY <1>2, DoomedIsCondemned
  <2>4. Condemns(config, j)'
    BY <1>1, <1>3, <2>3 DEF Condemns
  <2> QED
    BY <2>1, <2>2, <2>4
<1>5. places \subseteq DOMAIN snapshot /\ Select("Policy", Pick(places)) /\ config' \in Configs[kind]
  BY <1>1
<1> HIDE DEF places
<1> QED
  BY <1>2, <1>4, <1>5, SelectKeepsInv

\* The other selections are no policies, and choose from the snapshot.
LEMMA SelectAllRunsKeepsInv ==
  ASSUME PlanningInv, SelectAllRuns
  PROVE  PlanningInv'
<1>1. PICK older \in Ages : Select("AllCompleted", Pick({i \in DOMAIN snapshot :
         snapshot[i].completed /\ \A age \in older : Since(snapshot[i].created, now) >= age}))
  BY DEF SelectAllRuns
<1> DEFINE places == {i \in DOMAIN snapshot :
         snapshot[i].completed /\ \A age \in older : Since(snapshot[i].created, now) >= age}
<1>2. pc = "select" /\ places \subseteq DOMAIN snapshot /\ Select("AllCompleted", Pick(places))
  BY <1>1 DEF SelectAllRuns
<1> HIDE DEF places
<1> QED
  BY <1>2, SelectKeepsInv

\* The same of caches.
LEMMA SelectAllCachesKeepsInv ==
  ASSUME PlanningInv, SelectAllCaches
  PROVE  PlanningInv'
<1>1. PICK older \in Ages, unused \in Ages :
        Select("AllCompleted", Pick({i \in DOMAIN snapshot :
          /\ \A age \in older : Since(snapshot[i].created, now) >= age
          /\ \A age \in unused : Since(snapshot[i].touched, now) >= age}))
  BY DEF SelectAllCaches
<1> DEFINE places == {i \in DOMAIN snapshot :
          /\ \A age \in older : Since(snapshot[i].created, now) >= age
          /\ \A age \in unused : Since(snapshot[i].touched, now) >= age}
<1>2. pc = "select" /\ places \subseteq DOMAIN snapshot /\ Select("AllCompleted", Pick(places))
  BY <1>1 DEF SelectAllCaches
<1> HIDE DEF places
<1> QED
  BY <1>2, SelectKeepsInv

\* The first entry of an id that is listed.
LEMMA FirstIsListed ==
  ASSUME PlanningInv, NEW id, \E i \in DOMAIN snapshot : snapshot[i].id = id
  PROVE  FirstOf(id) \in DOMAIN snapshot
<1>1. snapshot \in Seq(Entry)
  BY DEF PlanningInv, CommandTyped
<1> DEFINE S == {i \in DOMAIN snapshot : snapshot[i].id = id}
<1>2. S # {} /\ S \subseteq Nat /\ DOMAIN snapshot = 1..Len(snapshot) /\ Len(snapshot) \in Nat
  BY <1>1
<1>3. PICK m \in S : \A i \in S : m <= i
  BY <1>2, LeastOf
<1>4. \A j \in 1..(m - 1) : j \in DOMAIN snapshot /\ ~ (m <= j)
  BY <1>2
<1>5. \E i \in DOMAIN snapshot : snapshot[i].id = id /\ \A j \in 1..(i - 1) : snapshot[j].id # id
  BY <1>3, <1>4
<1> QED
  BY <1>5 DEF FirstOf

\* The ids asked for are listed, or the plan is refused.
LEMMA SelectRunIdsKeepsInv ==
  ASSUME PlanningInv, SelectRunIds
  PROVE  PlanningInv'
<1>1. PICK ids \in Requests :
        IF ids \subseteq {item.id : item \in InSeq(snapshot)}
           /\ \A id \in ids : snapshot[FirstOf(id)].completed
        THEN Select("ExplicitIds", Pick({FirstOf(id) : id \in ids}))
        ELSE /\ pc' = "refused"
             /\ UNCHANGED <<now, moves, remote, kind, index, read, snapshot, scanned,
                            mode, chosen, targets>>
  BY DEF SelectRunIds
<1>2. pc = "select" /\ kind = "workflow_run" /\ config' = config
  BY DEF SelectRunIds
<1>3. CASE ids \subseteq {item.id : item \in InSeq(snapshot)}
           /\ \A id \in ids : snapshot[FirstOf(id)].completed
  <2>1. Select("ExplicitIds", Pick({FirstOf(id) : id \in ids}))
    BY <1>1, <1>3
  <2>2. ASSUME NEW id \in ids PROVE FirstOf(id) \in DOMAIN snapshot
    BY <1>3, FirstIsListed DEF InSeq
  <2>3. {FirstOf(id) : id \in ids} \subseteq DOMAIN snapshot
    BY <2>2
  <2> QED
    BY <1>2, <2>1, <2>3, SelectKeepsInv
<1>4. CASE ~ (ids \subseteq {item.id : item \in InSeq(snapshot)}
              /\ \A id \in ids : snapshot[FirstOf(id)].completed)
  BY <1>1, <1>2, <1>4, EndingKeepsInv
<1> QED
  BY <1>3, <1>4

\* The same of caches, which are listed once.
LEMMA SelectCacheIdsKeepsInv ==
  ASSUME PlanningInv, SelectCacheIds
  PROVE  PlanningInv'
<1>1. PICK ids \in Requests :
        IF \A id \in ids : Cardinality({i \in DOMAIN snapshot : snapshot[i].id = id}) = 1
        THEN Select("ExplicitIds", Pick({FirstOf(id) : id \in ids}))
        ELSE /\ pc' = "refused"
             /\ UNCHANGED <<now, moves, remote, kind, index, read, snapshot, scanned,
                            mode, chosen, targets>>
  BY DEF SelectCacheIds
<1>2. pc = "select" /\ config' = config
  BY DEF SelectCacheIds
<1>3. mode = "none"
  BY <1>2 DEF PlanningInv, CommandTyped
<1>4. CASE \A id \in ids : Cardinality({i \in DOMAIN snapshot : snapshot[i].id = id}) = 1
  <2>1. Select("ExplicitIds", Pick({FirstOf(id) : id \in ids}))
    BY <1>1, <1>4
  <2>2. ASSUME NEW id \in ids PROVE FirstOf(id) \in DOMAIN snapshot
    <3>1. {i \in DOMAIN snapshot : snapshot[i].id = id} # {}
      <4>1. Cardinality({i \in DOMAIN snapshot : snapshot[i].id = id}) = 1
        BY <1>4
      <4>2. Cardinality({}) = 0
        BY FS_EmptySet
      <4> QED
        BY <4>1, <4>2
    <3> QED
      BY <3>1, FirstIsListed
  <2>3. {FirstOf(id) : id \in ids} \subseteq DOMAIN snapshot
    BY <2>2
  <2> QED
    BY <1>2, <2>1, <2>3, SelectKeepsInv
<1>5. CASE ~ \A id \in ids : Cardinality({i \in DOMAIN snapshot : snapshot[i].id = id}) = 1
  BY <1>1, <1>2, <1>3, <1>5, EndingKeepsInv
<1> QED
  BY <1>4, <1>5

\* A report on caches is a last step.
LEMMA ClassifyCachesKeepsInv ==
  ASSUME PlanningInv, ClassifyCaches
  PROVE  PlanningInv'
<1>1. /\ pc = "select" /\ kind = "cache" /\ config' \in Configs[kind] /\ mode' = "Policy"
      /\ pc' = "classified" /\ Aside /\ UNCHANGED <<index, chosen, targets>>
  BY DEF ClassifyCaches, Aside
<1>2. CommandTyped
  BY DEF PlanningInv
<1>3. /\ RemoteTyped' /\ Listed' /\ Paged'
      /\ Entry' = Entry /\ read' \in Seq(Entry) /\ snapshot' \in Seq(Entry)
      /\ scanned' \in 0..now' /\ InSeq(snapshot)' = InSeq(snapshot) /\ kind' = kind
  BY <1>1, AsideKeeps
<1>4. chosen' = <<>> /\ targets' = <<>>
  BY <1>1, <1>2 DEF CommandTyped
<1>5. InSeq(chosen)' = {} /\ InSeq(targets)' = {}
  BY <1>4 DEF InSeq
<1>6. CommandTyped'
  BY <1>1, <1>2, <1>3, <1>4, <1>5 DEF CommandTyped, Pc, Mode
<1>7. Lease' /\ Justified'
  BY <1>1, <1>5 DEF Lease, Justified
<1> QED
  BY <1>3, <1>6, <1>7 DEF PlanningInv

\* A plan of entries of the snapshot.
LEMMA PlanKeeps ==
  ASSUME PlanningInv, Aside, NEW items \in Seq(Entry), InSeq(items) \subseteq InSeq(snapshot),
         Plan(items), UNCHANGED <<index, chosen>>, mode' \in Mode,
         mode' = "Policy" => config' \in Configs[kind],
         InSeq(targets) \subseteq InSeq(items)
  PROVE  /\ RemoteTyped' /\ CommandTyped' /\ Listed' /\ Lease' /\ Paged'
         /\ InSeq(targets)' \subseteq InSeq(items)
<1>1. \/ pc' = "refused" /\ targets' = targets
      \/ pc' = "planned" /\ ~Twice(items) /\ targets' = ById(items)
  BY DEF Plan
<1>2. /\ RemoteTyped' /\ Listed' /\ Paged'
      /\ Entry' = Entry /\ read' \in Seq(Entry) /\ snapshot' \in Seq(Entry)
      /\ scanned' \in 0..now' /\ InSeq(snapshot)' = InSeq(snapshot) /\ kind' = kind
  BY AsideKeeps
<1>3. CommandTyped
  BY DEF PlanningInv
<1>4. /\ targets' \in Seq(Entry) /\ InSeq(targets)' \subseteq InSeq(items)
      /\ pc' = "planned" => \A i, j \in DOMAIN targets' : i < j => targets'[i].id < targets'[j].id
  <2>1. CASE pc' = "refused" /\ targets' = targets
    BY <1>3, <2>1 DEF CommandTyped, InSeq
  <2>2. CASE pc' = "planned" /\ ~Twice(items) /\ targets' = ById(items)
    <3>1. /\ ById(items) \in Seq(Entry) /\ InSeq(ById(items)) \subseteq InSeq(items)
          /\ \A i, j \in DOMAIN ById(items) : i < j => ById(items)[i].id < ById(items)[j].id
      BY <2>2, ByIdIsSorted
    <3>2. InSeq(targets)' = InSeq(ById(items))
      BY <2>2 DEF InSeq
    <3> QED
      BY <2>2, <3>1, <3>2
  <2> QED
    BY <1>1, <2>1, <2>2
<1>5. CommandTyped'
  <2>1. pc' \in {"refused", "planned"} /\ index' = index /\ chosen' = chosen
    BY <1>1
  <2>2. InSeq(chosen)' = InSeq(chosen)
    BY <2>1 DEF InSeq
  <2> QED
    BY <1>2, <1>3, <1>4, <2>1, <2>2 DEF CommandTyped, Pc
<1>6. Lease'
  BY <1>1 DEF Lease
<1> QED
  BY <1>2, <1>4, <1>5, <1>6

\* The plan of artifacts is what its policy condemns.
LEMMA PlanArtifactsKeepsInv ==
  ASSUME PlanningInv, PlanArtifacts
  PROVE  PlanningInv'
<1>1. PICK policy \in Configs[kind] : config' = policy /\ Plan(Pick(Doomed(policy)))
  BY DEF PlanArtifacts
<1>2. /\ pc = "select" /\ kind = "artifact" /\ mode' = "Policy"
      /\ UNCHANGED <<now, moves, remote, kind, index, read, snapshot, scanned, chosen>>
  BY DEF PlanArtifacts
<1>3. CommandTyped /\ RemoteTyped
  BY DEF PlanningInv
<1>4. targets = <<>> /\ chosen = <<>> /\ snapshot \in Seq(Entry)
  BY <1>2, <1>3 DEF CommandTyped
<1>5. InSeq(targets) = {} /\ InSeq(chosen)' = {}
  BY <1>2, <1>4 DEF InSeq
<1>6. Aside
  BY <1>1, <1>2 DEF Aside, Plan
<1> DEFINE places == Doomed(policy)
           items == Pick(places)
<1>7. places \subseteq DOMAIN snapshot
  BY DEF Doomed
<1> HIDE DEF places
<1>8. /\ items \in Seq(Entry)
      /\ \A e \in InSeq(items) : \E i \in places : e = snapshot[i]
  BY <1>4, <1>7, PickIsPart
<1>9. InSeq(items) \subseteq InSeq(snapshot)
  BY <1>7, <1>8 DEF InSeq
<1>10. Plan(items)
  BY <1>1 DEF places
<1> HIDE DEF items
<1>11. /\ RemoteTyped' /\ CommandTyped' /\ Listed' /\ Lease' /\ Paged'
       /\ InSeq(targets)' \subseteq InSeq(items)
  <2>1. mode' \in Mode /\ config' \in Configs[kind] /\ UNCHANGED <<index, chosen>>
    BY <1>1, <1>2 DEF Mode
  <2>2. InSeq(targets) \subseteq InSeq(items)
    BY <1>5
  <2> QED
    BY <1>6, <1>8, <1>9, <1>10, <2>1, <2>2, PlanKeeps
<1>12. Justified'
  <2>1. \A i \in places : Condemns(policy, i)
    BY <1>3, DoomedIsCondemned DEF places, RemoteTyped
  <2>2. \A e \in InSeq(targets)' : \E i \in DOMAIN snapshot : snapshot[i].id = e.id /\ Condemns(policy, i)
    BY <1>7, <1>8, <1>11, <2>1
  <2>3. \A i : Condemns(policy, i) => Condemns(config, i)'
    BY <1>1, <1>2 DEF Condemns
  <2> QED
    BY <1>2, <1>5, <2>2, <2>3 DEF Justified
<1> QED
  BY <1>11, <1>12 DEF PlanningInv

\* The verified ones are the targets.
LEMMA FinishPlanKeepsInv ==
  ASSUME PlanningInv, FinishPlan
  PROVE  PlanningInv'
<1>1. /\ pc = "verify" /\ chosen = <<>> /\ Plan(targets)
      /\ UNCHANGED <<now, moves, remote, kind, index, read, snapshot, scanned, mode, config, chosen>>
  BY DEF FinishPlan
<1>2. CommandTyped /\ RemoteTyped /\ Justified
  BY DEF PlanningInv
<1>3. Aside
  BY <1>1 DEF Aside, Plan
<1>4. /\ targets \in Seq(Entry) /\ InSeq(targets) \subseteq InSeq(snapshot) /\ mode \in Mode
      /\ mode = "Policy" => config \in Configs[kind]
  BY <1>2 DEF CommandTyped
<1>5. /\ RemoteTyped' /\ CommandTyped' /\ Listed' /\ Lease' /\ Paged'
      /\ InSeq(targets)' \subseteq InSeq(targets)
  BY <1>1, <1>3, <1>4, PlanKeeps
<1>6. Justified'
  <2>1. InSeq(chosen)' = InSeq(chosen)
    BY <1>1 DEF InSeq
  <2> QED
    BY <1>1, <1>2, <1>5, <2>1 DEF Justified, Condemns
<1> QED
  BY <1>5, <1>6 DEF PlanningInv

\* A step of the verification: the choice gets shorter and the targets more.
LEMMA VerifyKeepsInv ==
  ASSUME PlanningInv, Aside, UNCHANGED <<index, mode, config>>, pc' \in Pc,
         pc' \notin {"list", "select", "planned"}, mode = "Policy" => kind # "cache",
         chosen' \in Seq(Entry), targets' \in Seq(Entry),
         InSeq(chosen)' \cup InSeq(targets)' \subseteq InSeq(chosen) \cup InSeq(targets),
         Lease'
  PROVE  PlanningInv'
<1>1. /\ RemoteTyped' /\ Listed' /\ Paged'
      /\ Entry' = Entry /\ read' \in Seq(Entry) /\ snapshot' \in Seq(Entry)
      /\ scanned' \in 0..now' /\ InSeq(snapshot)' = InSeq(snapshot) /\ kind' = kind
  BY AsideKeeps
<1>2. CommandTyped /\ Justified /\ pc' # "start"
  BY DEF PlanningInv, Aside
<1>3. InSeq(chosen)' \cup InSeq(targets)' \subseteq InSeq(snapshot)
  BY <1>2 DEF CommandTyped
<1>4. CommandTyped'
  BY <1>1, <1>2, <1>3 DEF CommandTyped
<1>5. Justified'
  BY <1>1, <1>2 DEF Justified, Condemns, Aside
<1> QED
  BY <1>1, <1>4, <1>5 DEF PlanningInv

\* The rest of a sequence, and one more at its end.
LEMMA RestOf ==
  ASSUME NEW D, NEW s \in Seq(D), s # <<>>
  PROVE  /\ Head(s) \in D /\ Head(s) \in InSeq(s)
         /\ Tail(s) \in Seq(D) /\ InSeq(Tail(s)) \subseteq InSeq(s)
<1>1. Len(s) \in Nat \ {0} /\ DOMAIN s = 1..Len(s) /\ Head(s) = s[1]
  OBVIOUS
<1>2. Tail(s) \in Seq(D) /\ Len(Tail(s)) = Len(s) - 1
      /\ \A i \in 1..(Len(s) - 1) : Tail(s)[i] = s[i + 1]
  OBVIOUS
<1>3. DOMAIN Tail(s) = 1..(Len(s) - 1)
  BY <1>2
<1>4. InSeq(Tail(s)) \subseteq InSeq(s)
  <2>1. \A i \in 1..(Len(s) - 1) : i + 1 \in DOMAIN s
    BY <1>1
  <2> QED
    BY <1>2, <1>3, <2>1 DEF InSeq
<1>5. 1 \in DOMAIN s
  BY <1>1
<1> QED
  BY <1>1, <1>2, <1>4, <1>5 DEF InSeq

\* One more member at the end.
LEMMA AppendedTo ==
  ASSUME NEW D, NEW s \in Seq(D), NEW e \in D
  PROVE  /\ Append(s, e) \in Seq(D) /\ Len(Append(s, e)) = Len(s) + 1
         /\ Append(s, e)[Len(s) + 1] = e
         /\ InSeq(Append(s, e)) \subseteq InSeq(s) \cup {e}
<1>1. /\ Append(s, e) \in Seq(D) /\ Len(Append(s, e)) = Len(s) + 1
      /\ Append(s, e)[Len(s) + 1] = e /\ \A i \in 1..Len(s) : Append(s, e)[i] = s[i]
  OBVIOUS
<1>2. DOMAIN Append(s, e) = 1..(Len(s) + 1) /\ DOMAIN s = 1..Len(s) /\ Len(s) \in Nat
  BY <1>1
<1>3. \A i \in 1..(Len(s) + 1) : i = Len(s) + 1 \/ i \in 1..Len(s)
  BY <1>2
<1> QED
  BY <1>1, <1>2, <1>3 DEF InSeq

\* A run that is neither skipped nor a reason to refuse has no entry, and is leased.
LEMMA TakeRunKeepsInv ==
  ASSUME PlanningInv, TakeRun
  PROVE  PlanningInv'
<1> DEFINE a == Assessed(Head(chosen).id)
<1>1. /\ pc = "verify" /\ kind = "workflow_run" /\ chosen # <<>>
      /\ pc' = IF Blocks(a) THEN "refused" ELSE IF Skips(a) THEN "verify" ELSE "lookup"
      /\ chosen' = IF Skips(a) THEN Tail(chosen) ELSE chosen
      /\ UNCHANGED <<now, moves, remote, kind, index, read, snapshot, scanned, mode, config, targets>>
  BY DEF TakeRun, Take
<1>2. CommandTyped /\ RemoteTyped
  BY DEF PlanningInv
<1>3. chosen \in Seq(Entry) /\ targets \in Seq(Entry)
  BY <1>2 DEF CommandTyped
<1>4. Aside
  BY <1>1 DEF Aside
<1>5. /\ Head(chosen) \in Entry /\ Tail(chosen) \in Seq(Entry)
      /\ InSeq(Tail(chosen)) \subseteq InSeq(chosen)
  BY <1>1, <1>3, RestOf
<1>6. /\ chosen' \in Seq(Entry) /\ targets' \in Seq(Entry)
      /\ InSeq(chosen)' \subseteq InSeq(chosen) /\ InSeq(targets)' = InSeq(targets)
  BY <1>1, <1>3, <1>5 DEF InSeq
<1>7. Lease'
  <2> SUFFICES ASSUME ~Blocks(a), ~Skips(a)
               PROVE  protection'[Head(chosen).id] = "NoEntry"
    BY <1>1 DEF Lease
  <2>1. Head(chosen).id \in Object
    BY <1>5, Fields
  <2>2. index[Head(chosen).id] \in Assessment /\ protection[Head(chosen).id] \in Assessment
    BY <1>2, <2>1 DEF CommandTyped, RemoteTyped
  <2>3. a \in Assessment
    BY <2>2 DEF Assessed
  <2>4. a = "NoEntry"
    BY <2>3 DEF Blocks, Skips, Assessment
  <2> QED
    BY <1>1, <2>4 DEF Assessed, remote
<1>8. pc' \in Pc /\ pc' \notin {"list", "select", "planned"}
  BY <1>1 DEF Pc
<1> QED
  BY <1>1, <1>4, <1>6, <1>7, <1>8, VerifyKeepsInv

\* The lookup changes nothing but where the command is.
LEMMA LookupRunKeepsInv ==
  ASSUME PlanningInv, LookupRun
  PROVE  PlanningInv'
<1>1. /\ pc = "lookup" /\ kind = "workflow_run" /\ pc' \in {"artifacts", "refused"}
      /\ UNCHANGED <<now, moves, remote, kind, index, read, snapshot, scanned, mode, config,
                     chosen, targets>>
  BY DEF LookupRun
<1>2. Aside
  BY <1>1 DEF Aside
<1>3. /\ chosen' \in Seq(Entry) /\ targets' \in Seq(Entry)
      /\ InSeq(chosen)' \cup InSeq(targets)' \subseteq InSeq(chosen) \cup InSeq(targets)
  BY <1>1 DEF PlanningInv, CommandTyped, InSeq
<1>4. Lease'
  BY <1>1 DEF PlanningInv, Lease, remote
<1>5. pc' \in Pc /\ pc' \notin {"list", "select", "planned"}
  BY <1>1 DEF Pc
<1> QED
  BY <1>1, <1>2, <1>3, <1>4, <1>5, VerifyKeepsInv

\* The run that is leased becomes a target.
LEMMA SnapshotArtifactsKeepsInv ==
  ASSUME PlanningInv, SnapshotArtifacts
  PROVE  PlanningInv'
<1>1. /\ pc = "artifacts" /\ targets' = Append(targets, Head(chosen)) /\ chosen' = Tail(chosen)
      /\ pc' = "verify"
      /\ UNCHANGED <<now, moves, remote, kind, index, read, snapshot, scanned, mode, config>>
  BY DEF SnapshotArtifacts
<1>2. /\ chosen # <<>> /\ kind = "workflow_run" /\ chosen \in Seq(Entry) /\ targets \in Seq(Entry)
  BY <1>1 DEF PlanningInv, Lease, CommandTyped
<1>3. Aside
  BY <1>1 DEF Aside
<1>4. /\ Head(chosen) \in Entry /\ Head(chosen) \in InSeq(chosen)
      /\ Tail(chosen) \in Seq(Entry) /\ InSeq(Tail(chosen)) \subseteq InSeq(chosen)
  BY <1>2, RestOf
<1>5. /\ Append(targets, Head(chosen)) \in Seq(Entry)
      /\ InSeq(Append(targets, Head(chosen))) \subseteq InSeq(targets) \cup {Head(chosen)}
  BY <1>2, <1>4, AppendedTo
<1>6. /\ chosen' \in Seq(Entry) /\ targets' \in Seq(Entry)
      /\ InSeq(chosen)' = InSeq(Tail(chosen))
      /\ InSeq(targets)' = InSeq(Append(targets, Head(chosen)))
  BY <1>1, <1>4, <1>5 DEF InSeq
<1>7. InSeq(chosen)' \cup InSeq(targets)' \subseteq InSeq(chosen) \cup InSeq(targets)
  BY <1>4, <1>5, <1>6
<1>8. Lease' /\ pc' \in Pc /\ pc' \notin {"list", "select", "planned"}
  BY <1>1 DEF Lease, Pc
<1> QED
  BY <1>1, <1>2, <1>3, <1>6, <1>7, <1>8, VerifyKeepsInv

\* The cache that is found as it was becomes a target.
LEMMA LookupCacheKeepsInv ==
  ASSUME PlanningInv, LookupCache
  PROVE  PlanningInv'
<1>1. /\ pc = "verify" /\ kind = "cache" /\ chosen # <<>>
      /\ \/ targets' = Append(targets, Head(chosen)) /\ chosen' = Tail(chosen) /\ pc' = pc
         \/ pc' = "refused" /\ targets' = targets /\ chosen' = chosen
      /\ UNCHANGED <<now, moves, remote, kind, index, read, snapshot, scanned, mode, config>>
  BY DEF LookupCache
<1>2. chosen \in Seq(Entry) /\ targets \in Seq(Entry)
  BY DEF PlanningInv, CommandTyped
<1>3. mode # "Policy"
  BY <1>1 DEF PlanningInv, Justified
<1>4. Aside
  BY <1>1 DEF Aside
<1>5. /\ Head(chosen) \in Entry /\ Head(chosen) \in InSeq(chosen)
      /\ Tail(chosen) \in Seq(Entry) /\ InSeq(Tail(chosen)) \subseteq InSeq(chosen)
  BY <1>1, <1>2, RestOf
<1>6. /\ Append(targets, Head(chosen)) \in Seq(Entry)
      /\ InSeq(Append(targets, Head(chosen))) \subseteq InSeq(targets) \cup {Head(chosen)}
  BY <1>2, <1>5, AppendedTo
<1>7. /\ chosen' \in Seq(Entry) /\ targets' \in Seq(Entry)
      /\ InSeq(chosen)' \cup InSeq(targets)' \subseteq InSeq(chosen) \cup InSeq(targets)
  <2>1. CASE targets' = Append(targets, Head(chosen)) /\ chosen' = Tail(chosen)
    <3>1. /\ InSeq(chosen)' = InSeq(Tail(chosen))
          /\ InSeq(targets)' = InSeq(Append(targets, Head(chosen)))
      BY <2>1 DEF InSeq
    <3> QED
      BY <1>5, <1>6, <2>1, <3>1
  <2>2. CASE targets' = targets /\ chosen' = chosen
    BY <1>2, <2>2 DEF InSeq
  <2> QED
    BY <1>1, <2>1, <2>2
<1>8. Lease' /\ pc' \in Pc /\ pc' \notin {"list", "select", "planned"}
  BY <1>1 DEF Lease, Pc
<1> QED
  BY <1>1, <1>3, <1>4, <1>7, <1>8, VerifyKeepsInv

\* One case for each action.
LEMMA NextPlanningInv == PlanningInv /\ [Next]_vars => PlanningInv'
<1> SUFFICES ASSUME PlanningInv, [Next]_vars PROVE PlanningInv'
  OBVIOUS
<1>1. CASE Environment
  BY <1>1, EnvironmentKeepsInv
<1>2. CASE Command
  BY <1>2, StartKeepsInv, FetchPageKeepsInv, RefuseKeepsInv, SelectRunsByPolicyKeepsInv,
     SelectAllRunsKeepsInv, SelectRunIdsKeepsInv, SelectAllCachesKeepsInv,
     SelectCacheIdsKeepsInv, ClassifyCachesKeepsInv, PlanArtifactsKeepsInv, TakeRunKeepsInv,
     LookupRunKeepsInv, SnapshotArtifactsKeepsInv, LookupCacheKeepsInv, FinishPlanKeepsInv
     DEF Command
<1>3. CASE UNCHANGED vars
  <2>1. UNCHANGED command /\ UNCHANGED <<now, moves, store, live, protection, shifts>>
    BY <1>3 DEF vars, remote
  <2>2. RemoteTyped'
    BY <2>1 DEF PlanningInv, RemoteTyped, InSeq, command
  <2>3. Moved
    BY <2>1, Numbers DEF PlanningInv, RemoteTyped, Moved, Coming, command
  <2> QED
    BY <2>2, <2>3, OthersKeepInv
<1> QED
  BY <1>1, <1>2, <1>3 DEF Next

\* The invariant holds in every state.
LEMMA AlwaysPlanningInv == Spec => []PlanningInv
BY InitPlanningInv, NextPlanningInv, PTL DEF Spec

-----------------------------------------------------------------------------
(* More protection *)

\* The policies that a command may be given have been validated.
LEMMA Configured ==
  ASSUME NEW k \in Kind, NEW c \in Configs[k]
  PROVE  IsPolicy(c) /\ Valid(c)
BY PlanningAssumption

\* What a shield changes of a policy, and what it does not.
LEMMA Shielded ==
  ASSUME NEW c, DOMAIN c = {"rules", "keep_days", "caches", "runs"}, NEW s, NEW d,
         s.keep_days = {}, s.keep_business_days = {}, s.keep_unused_days = {},
         d = [c EXCEPT !.rules = @ \cup {s}]
  PROVE  /\ d.keep_days = c.keep_days /\ d.caches = c.caches /\ d.runs = c.runs
         /\ \A item : Matching(c, item) \subseteq Matching(d, item)
         /\ \A item : \A r \in Matching(d, item) :
              r.keep_days \cup r.keep_business_days \cup r.keep_unused_days # {}
                => r \in Matching(c, item)
         /\ \A items : KeptLatest(c, items) \subseteq KeptLatest(d, items)
         /\ \A items : RunsKeptLatest(c, items) \subseteq RunsKeptLatest(d, items)
<1>1. /\ d.rules = c.rules \cup {s}
      /\ d.keep_days = c.keep_days /\ d.caches = c.caches /\ d.runs = c.runs
  OBVIOUS
<1>2. \A item : Matching(c, item) \subseteq Matching(d, item)
  BY <1>1 DEF Matching
<1>3. \A item : \A r \in Matching(d, item) :
        r.keep_days \cup r.keep_business_days \cup r.keep_unused_days # {}
          => r \in Matching(c, item)
  BY <1>1 DEF Matching
<1>4. \A items : KeptLatest(c, items) \subseteq KeptLatest(d, items)
  BY <1>1 DEF KeptLatest
<1>5. \A items : RunsKeptLatest(c, items) \subseteq RunsKeptLatest(d, items)
  BY <1>1 DEF RunsKeptLatest
<1> QED
  BY <1>1, <1>2, <1>3, <1>4, <1>5

\* With a shield no policy condemns what it did not condemn without it.
LEMMA ShieldsSpare ==
  ASSUME NEW c, DOMAIN c = {"rules", "keep_days", "caches", "runs"}, NEW s,
         s.keep_days = {}, s.keep_business_days = {}, s.keep_unused_days = {},
         NEW i, Classify([c EXCEPT !.rules = @ \cup {s}], i) = "Delete"
  PROVE  Classify(c, i) = "Delete"
<1> DEFINE d == [c EXCEPT !.rules = @ \cup {s}]
           item == snapshot[i]
<1>1. /\ d.keep_days = c.keep_days /\ d.caches = c.caches /\ d.runs = c.runs
      /\ Matching(c, item) \subseteq Matching(d, item)
      /\ \A r \in Matching(d, item) :
           r.keep_days \cup r.keep_business_days \cup r.keep_unused_days # {}
             => r \in Matching(c, item)
      /\ KeptLatest(c, snapshot) \subseteq KeptLatest(d, snapshot)
      /\ RunsKeptLatest(c, snapshot) \subseteq RunsKeptLatest(d, snapshot)
  BY Shielded
<1>2. Classify(d, i) = "Delete"
  OBVIOUS
<1> HIDE DEF d
<1>3. /\ {r \in Matching(d, item) : r.keep_days # {}} = {r \in Matching(c, item) : r.keep_days # {}}
      /\ {r \in Matching(d, item) : r.keep_days \cup r.keep_unused_days # {}}
           = {r \in Matching(c, item) : r.keep_days \cup r.keep_unused_days # {}}
      /\ {r \in Matching(d, item) : r.keep_days \cup r.keep_business_days # {}}
           = {r \in Matching(c, item) : r.keep_days \cup r.keep_business_days # {}}
  BY <1>1
<1>4. CASE kind = "artifact"
  <2>1. ClassifyArtifact(d, snapshot, i, scanned) = "Delete"
    BY <1>2, <1>4 DEF Classify
  <2>2. /\ ~ \E r \in Matching(d, item) : r.protect
        /\ item.id \notin KeptLatest(d, snapshot)
    BY <2>1 DEF ClassifyArtifact
  <2>3. ClassifyArtifact(c, snapshot, i, scanned) = ClassifyArtifact(d, snapshot, i, scanned)
    BY <1>1, <1>3, <2>2 DEF ClassifyArtifact, Deciding
  <2> QED
    BY <1>4, <2>1, <2>3 DEF Classify
<1>5. CASE kind = "cache"
  <2>1. ClassifyCache(d, snapshot, i, scanned) = "Delete"
    BY <1>2, <1>5 DEF Classify
  <2>2. /\ ~ \E r \in Matching(d, item) : r.protect
        /\ item.id \notin KeptLatest(d, snapshot)
    BY <2>1 DEF ClassifyCache
  <2>3. ClassifyCache(c, snapshot, i, scanned) = ClassifyCache(d, snapshot, i, scanned)
    BY <1>1, <1>3, <2>2 DEF ClassifyCache, Deciding
  <2> QED
    BY <1>5, <2>1, <2>3 DEF Classify
<1>6. CASE kind # "artifact" /\ kind # "cache"
  <2> DEFINE a == index[snapshot[i].id]
  <2>1. ClassifyRun(d, snapshot, i, scanned, a) = "Delete"
    BY <1>2, <1>6 DEF Classify
  <2>2. /\ ~ \E r \in Matching(d, item) : r.protect
        /\ item.id \notin RunsKeptLatest(d, snapshot)
    BY <2>1 DEF ClassifyRun
  <2>3. RunDefault(c) = RunDefault(d)
    BY <1>1 DEF RunDefault
  <2>4. ClassifyRun(c, snapshot, i, scanned, a) = ClassifyRun(d, snapshot, i, scanned, a)
    BY <1>1, <1>3, <2>2, <2>3 DEF ClassifyRun, Deciding
  <2> QED
    BY <1>6, <2>1, <2>4 DEF Classify
<1> QED
  BY <1>4, <1>5, <1>6

\* A rule that only protects, or only keeps the latest, makes no policy condemn an object
\* that it did not condemn without it (Policy::classify, CachePolicy and RunPolicy).
THEOREM ShieldsOnlySpare == Spec => []MoreProtectionNeverDeletesMore
<1>1. PlanningInv => MoreProtectionNeverDeletesMore
  <2> SUFFICES ASSUME PlanningInv, mode = "Policy", NEW shield \in Shields[kind]
               PROVE  Doomed([config EXCEPT !.rules = @ \cup {shield}]) \subseteq Doomed(config)
    BY DEF MoreProtectionNeverDeletesMore
  <2>1. kind \in Kind /\ config \in Configs[kind]
    BY DEF PlanningInv, RemoteTyped, CommandTyped
  <2>2. DOMAIN config = {"rules", "keep_days", "caches", "runs"}
    BY <2>1, Configured DEF IsPolicy
  <2>3. shield.keep_days = {} /\ shield.keep_business_days = {} /\ shield.keep_unused_days = {}
    BY <2>1, PlanningAssumption
  <2>4. \A i : Classify([config EXCEPT !.rules = @ \cup {shield}], i) = "Delete"
                 => Classify(config, i) = "Delete"
    BY <2>2, <2>3, ShieldsSpare
  <2> QED
    BY <2>4 DEF Doomed
<1> QED
  BY <1>1, AlwaysPlanningInv, PTL

\* The entries of a plan have the types of the remote's objects, and a plan names each of
\* them once, in the order of the ids (RunPurgePlan::new, CachePurgePlan::new).
THEOREM PlanningIsTyped == Spec => []TypeOK
<1>1. PlanningInv => TypeOK
  <2> SUFFICES ASSUME PlanningInv PROVE TypeOK
    OBVIOUS
  <2>1. RemoteTyped /\ CommandTyped
    BY DEF PlanningInv
  <2>2. ASSUME NEW e \in Entry PROVE IsItem(e)
    BY <2>2, Fields DEF IsItem, State
  <2>3. /\ read \in Seq(Entry) /\ snapshot \in Seq(Entry)
        /\ chosen \in Seq(Entry) /\ targets \in Seq(Entry)
    BY <2>1 DEF CommandTyped
  <2>4. \A items \in {read, snapshot, chosen, targets} : \A i \in DOMAIN items : IsItem(items[i])
    BY <2>2, <2>3
  <2> QED
    BY <2>1, <2>4 DEF TypeOK, RemoteTyped, CommandTyped
<1> QED
  BY <1>1, AlwaysPlanningInv, PTL

\* Others do not touch the targets.
LEMMA MovesLeaveTargets ==
  ASSUME Environment
  PROVE  targets' = targets
BY DEF Environment, Upload, Remove, Rerun, Use, Protect, Tick, Move, command

\* The lease that RunPurgePlanningService::build holds from the assessment of a run until it
\* is a target keeps the assessment true: no run that is protected then becomes one.
THEOREM LeaseKeepsProtectedOut == Spec => ProtectedIsNotPlanned
<1>1. PlanningInv /\ [Next]_vars
        => [kind = "workflow_run" /\ Len(targets') > Len(targets)
             => protection[targets'[Len(targets')].id] = "NoEntry"]_vars
  <2> SUFFICES ASSUME PlanningInv, Next, kind = "workflow_run", Len(targets') > Len(targets)
               PROVE  protection[targets'[Len(targets')].id] = "NoEntry"
    BY DEF vars
  <2>1. /\ targets \in Seq(Entry) /\ chosen \in Seq(Entry) /\ Len(targets) \in Nat
        /\ pc = "artifacts" => chosen # <<>> /\ protection[Head(chosen).id] = "NoEntry"
    BY DEF PlanningInv, CommandTyped, Lease
  <2>2. targets' # targets
    BY <2>1
  <2>3. ~Environment
    BY <2>2, MovesLeaveTargets
  <2>4. SnapshotArtifacts \/ FinishPlan
    BY <2>2, <2>3 DEF Next, Command, Start, FetchPage, EndScan, Refuse, SelectRunsByPolicy,
       SelectAllRuns, SelectRunIds, SelectAllCaches, SelectCacheIds, ClassifyCaches,
       PlanArtifacts, TakeRun, LookupRun, LookupCache, Select
  <2>5. CASE SnapshotArtifacts
    <3>1. targets' = Append(targets, Head(chosen)) /\ pc = "artifacts"
      BY <2>5 DEF SnapshotArtifacts
    <3>2. Head(chosen) \in Entry
      BY <2>1, <3>1, RestOf
    <3>3. targets'[Len(targets')] = Head(chosen)
      BY <2>1, <3>1, <3>2, AppendedTo
    <3> QED
      BY <2>1, <3>1, <3>3
  <2>6. CASE FinishPlan
    <3>1. ~Twice(targets) /\ targets' = ById(targets)
      BY <2>2, <2>6 DEF FinishPlan, Plan
    <3>2. Len(targets') = Len(targets)
      BY <2>1, <3>1, ByIdIsSorted
    <3> QED
      BY <2>1, <3>2
  <2> QED
    BY <2>4, <2>5, <2>6
<1> QED
  BY <1>1, AlwaysPlanningInv, PTL DEF Spec, ProtectedIsNotPlanned

\* business_day_deadline takes whole weeks and a rest, and agrees with counting Mondays to
\* Fridays day by day, for every entry and at any time from the scan on.
THEOREM DeadlinesAreBusinessDays == Spec => []DeadlineIsNthBusinessDay
<1>1. PlanningInv => DeadlineIsNthBusinessDay
  <2> SUFFICES ASSUME PlanningInv, NEW item \in InSeq(snapshot), NEW later \in scanned..MaxDate,
                      NEW days \in 1..11
               PROVE  BusinessDaysOver(item.created, later, days)
                        <=> BusinessDaysSince(item.created, later) >= days
    BY DEF DeadlineIsNthBusinessDay
  <2>1. snapshot \in Seq(Entry) /\ scanned \in 0..now /\ item.created <= scanned
    BY DEF PlanningInv, CommandTyped, Listed
  <2>2. item \in Entry
    BY <2>1, InSeqOf
  <2>3. item.created \in Nat /\ later \in Nat /\ now \in Nat /\ MaxDate \in Nat
    BY <2>1, <2>2, Fields, Numbers DEF PlanningInv, RemoteTyped
  <2>4. item.created <= later /\ later <= MaxDate
    BY <2>1, <2>3
  <2> QED
    BY <2>3, <2>4, DeadlineIsRight
<1> QED
  BY <1>1, AlwaysPlanningInv, PTL

-----------------------------------------------------------------------------
(* Retention *)

\* A retention in seconds that is over is over in days: the product is as large as a date
\* can be, or exact.
LEMMA ElapsedIsOver ==
  ASSUME NEW from \in Nat, NEW at \in Nat, from <= at, at <= MaxDate, NEW days \in Nat,
         Elapsed(from, at, days)
  PROVE  at - from >= days * Day
<1>1. Day \in Nat /\ MaxSeconds \in Nat /\ MaxDate \in Nat /\ MaxDate < MaxSeconds
  BY PolicyAssumption
<1> DEFINE w == days * Day
<1>2. w \in Nat
  BY <1>1
<1>3. at - from >= (IF w > MaxSeconds THEN MaxSeconds ELSE w)
  BY DEF Elapsed, Since, Seconds
<1> HIDE DEF w
<1>4. at - from >= w
  BY <1>1, <1>2, <1>3
<1> QED
  BY <1>4 DEF w

\* A retention in business days that is over is over counted day by day.
LEMMA BusinessIsOver ==
  ASSUME NEW from \in Nat, NEW at \in Nat, from <= at, at <= MaxDate, NEW days \in Nat,
         BusinessDaysOver(from, at, days)
  PROVE  BusinessDaysSince(from, at) >= days
<1>1. CASE days > 0
  BY <1>1, DeadlineIsRight
<1>2. CASE days = 0
  <2>1. BusinessDaysSince(from, at) = Worked(from \div Day, (at - from) \div Day)
        /\ (at - from) \div Day \in Nat
    BY SinceIsWorked
  <2>2. from \div Day \in Nat
    BY PolicyAssumption, Divided
  <2>3. Worked(from \div Day, (at - from) \div Day) \in Nat
    BY <2>1, <2>2, WorkedIsNat
  <2> QED
    BY <1>2, <2>1, <2>3
<1> QED
  BY <1>1, <1>2

\* A finite set of numbers has a greatest one.
LEMMA GreatestOf ==
  ASSUME NEW S, IsFiniteSet(S), S # {}, S \subseteq Nat
  PROVE  \E m \in S : \A n \in S : n <= m
<1> DEFINE B == [x \in S |-> {y \in S : y <= x}]
           N == Cardinality(S)
<1>1. \A x \in S : x \in Int
  OBVIOUS
<1>2. /\ B \in [S -> SUBSET S] /\ \A x \in S : x \in B[x]
      /\ \A x, y \in S : x # y => \/ B[x] \subseteq B[y] /\ y \notin B[x]
                                  \/ B[y] \subseteq B[x] /\ x \notin B[y]
  <2>1. B \in [S -> SUBSET S] /\ \A x \in S : x \in B[x]
    BY <1>1
  <2>2. ASSUME NEW x \in S, NEW y \in S, x < y PROVE B[x] \subseteq B[y] /\ y \notin B[x]
    <3>1. x \in Int /\ y \in Int /\ \A z \in S : z \in Int
      BY <1>1
    <3>2. (\A z \in S : z <= x => z <= y) /\ ~ (y <= x)
      <4> HIDE DEF B, N
      <4> QED
        BY <2>2, <3>1
    <3> QED
      BY <3>2
  <2>3. \A x, y \in S : x # y => x < y \/ y < x
    BY <1>1
  <2> HIDE DEF B
  <2> QED
    BY <2>1, <2>2, <2>3
<1>3. N \in Nat /\ N # 0
  BY FS_CardinalityType, FS_EmptySet
<1>4. N \in 1..N /\ \A n \in 1..N : \E x \in S : Cardinality(B[x]) = n
  <2>1. \A n \in 1..N : \E x \in S : Cardinality(B[x]) = n
    <3> HIDE DEF B
    <3> QED
      BY <1>2, Ranked
  <2> QED
    BY <1>3, <2>1
<1>5. PICK m \in S : Cardinality(B[m]) = N
  BY <1>4
<1>6. B[m] \in SUBSET S
  BY <1>2
<1>7. B[m] = S
  BY <1>5, <1>6, FS_Subset
<1> QED
  BY <1>7

\* The rules that decide of a finite set of rules: every other has fewer selectors than
\* another of the set.
LEMMA RulesDecide ==
  ASSUME NEW rules, IsFiniteSet(rules), \A r \in rules : Specificity(r) \in Nat
  PROVE  /\ rules # {} => MostSpecific(rules) # {}
         /\ \A r \in rules : r \in MostSpecific(rules)
                               \/ \E s \in rules : Specificity(s) > Specificity(r)
<1>1. \A r \in rules : r \in MostSpecific(rules) \/ \E s \in rules : Specificity(s) > Specificity(r)
  BY DEF MostSpecific
<1>2. ASSUME rules # {} PROVE MostSpecific(rules) # {}
  <2> DEFINE f == [r \in rules |-> Specificity(r)]
             S == {f[r] : r \in rules}
  <2>1. f \in Surjection(rules, S)
    BY DEF Surjection
  <2>2. IsFiniteSet(S) /\ S # {} /\ S \subseteq Nat
    BY <1>2, <2>1, FS_Surjection
  <2> HIDE DEF S
  <2>3. PICK m \in S : \A n \in S : n <= m
    BY <2>2, GreatestOf
  <2>4. PICK r \in rules : f[r] = m
    BY <2>3 DEF S
  <2>5. \A s \in rules : Specificity(s) <= Specificity(r)
    BY <2>3, <2>4 DEF S
  <2>6. r \in MostSpecific(rules)
    BY <2>5 DEF MostSpecific
  <2> QED
    BY <2>6
<1> QED
  BY <1>1, <1>2

\* The retentions that decide agree, or the object is not condemned.
LEMMA OneRetention ==
  ASSUME NEW retentions, IsFiniteSet(retentions), NEW expired \in BOOLEAN,
         Retain(retentions, expired) = "Delete", NEW otherwise
  PROVE  /\ expired
         /\ \A v \in retentions : Value(retentions, otherwise) = v
         /\ retentions = {} => Value(retentions, otherwise) = otherwise
<1>1. ~ (Cardinality(retentions) > 1) /\ expired
  BY DEF Retain
<1>2. \A u, v \in retentions : u = v
  <2> SUFFICES ASSUME NEW u \in retentions, NEW v \in retentions, u # v PROVE FALSE
    OBVIOUS
  <2>1. IsFiniteSet({u}) /\ Cardinality({u}) = 1
    BY FS_Singleton
  <2>2. IsFiniteSet({u} \cup {v}) /\ Cardinality({u} \cup {v}) = 2
    <3> DEFINE S == {u}
    <3>1. IsFiniteSet(S) /\ Cardinality(S) = 1 /\ v \notin S
      BY <2>1
    <3> HIDE DEF S
    <3>2. IsFiniteSet(S \cup {v}) /\ Cardinality(S \cup {v}) = Cardinality(S) + 1
      BY <3>1, FS_AddElement
    <3>3. IsFiniteSet(S \cup {v}) /\ Cardinality(S \cup {v}) = 2
      BY <3>1, <3>2
    <3> QED
      BY <3>3 DEF S
  <2>3. {u} \cup {v} \in SUBSET retentions
    OBVIOUS
  <2>4. Cardinality({u} \cup {v}) <= Cardinality(retentions) /\ Cardinality(retentions) \in Nat
    BY <2>3, FS_Subset, FS_CardinalityType
  <2> QED
    BY <1>1, <2>2, <2>4
<1>3. \A v \in retentions : Value(retentions, otherwise) = v
  BY <1>2 DEF Value
<1>4. retentions = {} => Value(retentions, otherwise) = otherwise
  BY DEF Value
<1> QED
  BY <1>1, <1>3, <1>4

\* What is condemned was condemned as an entry of the snapshot: runs by the id, everything
\* else as it is there.
LEMMA CondemnedIs ==
  ASSUME PlanningInv, NEW item \in Condemned
  PROVE  /\ kind \in Kind /\ config \in Configs[kind] /\ snapshot \in Seq(Entry)
         /\ scanned \in Nat /\ scanned <= MaxDate
         /\ \E i \in DOMAIN snapshot :
              /\ Condemns(config, i)
              /\ snapshot[i] \in Entry /\ item \in Entry /\ item.id = snapshot[i].id
              /\ item.created = snapshot[i].created /\ item.values = snapshot[i].values
              /\ item.workflow = snapshot[i].workflow
              /\ item.kind = snapshot[i].kind /\ snapshot[i].kind = kind
              /\ kind = "cache" => item = snapshot[i]
              /\ item.created \in Nat /\ item.created <= scanned
              /\ item.touched \in Nat /\ item.touched <= scanned
              /\ snapshot[i].touched \in Nat /\ snapshot[i].touched <= scanned
<1>1. /\ kind \in Kind /\ mode = "Policy" /\ config \in Configs[kind] /\ snapshot \in Seq(Entry)
      /\ scanned \in 0..now /\ now \in Instant /\ CommandTyped /\ Listed /\ Justified
  BY DEF Condemned, PlanningInv, RemoteTyped, CommandTyped
<1>2. scanned \in Nat /\ scanned <= MaxDate
  BY <1>1, Numbers DEF Instant
<1>3. \A e \in InSeq(snapshot) : e \in Entry
  BY <1>1, InSeqOf
<1>4. PICK i \in DOMAIN snapshot :
        /\ Condemns(config, i) /\ item \in InSeq(snapshot) /\ item.id = snapshot[i].id
        /\ kind = "cache" => item = snapshot[i]
  <2>1. CASE pc = "classified"
    <3>1. PICK i \in Doomed(config) : item = snapshot[i]
      BY <1>1, <2>1 DEF Condemned
    <3>2. i \in DOMAIN snapshot
      BY DEF Doomed
    <3>3. Condemns(config, i)
      BY <1>1, DoomedIsCondemned
    <3> QED
      BY <3>1, <3>2, <3>3 DEF InSeq
  <2>2. CASE pc = "planned"
    <3>1. item \in InSeq(targets) /\ kind # "cache"
      BY <1>1, <2>2 DEF Condemned, Justified
    <3>2. item \in InSeq(snapshot)
      BY <1>1, <3>1 DEF CommandTyped
    <3>3. \E i \in DOMAIN snapshot : snapshot[i].id = item.id /\ Condemns(config, i)
      BY <1>1, <3>1 DEF Justified
    <3> QED
      BY <3>1, <3>2, <3>3
  <2> QED
    BY <2>1, <2>2 DEF Condemned
<1>5. snapshot[i] \in InSeq(snapshot)
  BY DEF InSeq
<1>6. /\ item \in Entry /\ snapshot[i] \in Entry /\ item.kind = kind /\ snapshot[i].kind = kind
      /\ item.created \in Nat /\ item.touched \in Nat /\ snapshot[i].touched \in Nat
  BY <1>3, <1>4, <1>5, Fields, Numbers
<1>7. /\ item.created = snapshot[i].created /\ item.values = snapshot[i].values
      /\ item.workflow = snapshot[i].workflow
      /\ item.created <= scanned /\ item.touched <= scanned /\ snapshot[i].touched <= scanned
  BY <1>1, <1>4, <1>5 DEF Listed, IsOf
<1> QED
  BY <1>1, <1>2, <1>4, <1>6, <1>7

\* A rule looks at the kind and the values.
LEMMA SameMatching ==
  ASSUME NEW a, NEW b, a.kind = b.kind, a.values = b.values
  PROVE  \A rule : Matches(rule, a) <=> Matches(rule, b)
BY DEF Matches, MatchesGlob

\* As many as there are selectors.
LEMMA EightAreFinite ==
  ASSUME NEW a, NEW b, NEW c, NEW d, NEW e, NEW f, NEW g, NEW h
  PROVE  IsFiniteSet({a, b, c, d, e, f, g, h})
<1>1. IsFiniteSet({a}) /\ IsFiniteSet({a} \cup {b}) /\ IsFiniteSet({a} \cup {b} \cup {c})
  BY FS_Singleton, FS_AddElement
<1>2. IsFiniteSet({a} \cup {b} \cup {c} \cup {d})
  BY <1>1, FS_AddElement
<1>3. IsFiniteSet({a} \cup {b} \cup {c} \cup {d} \cup {e})
  BY <1>2, FS_AddElement
<1>4. IsFiniteSet({a} \cup {b} \cup {c} \cup {d} \cup {e} \cup {f})
  BY <1>3, FS_AddElement
<1>5. IsFiniteSet({a} \cup {b} \cup {c} \cup {d} \cup {e} \cup {f} \cup {g})
  BY <1>4, FS_AddElement
<1>6. IsFiniteSet({a} \cup {b} \cup {c} \cup {d} \cup {e} \cup {f} \cup {g} \cup {h})
  BY <1>5, FS_AddElement
<1>7. {a} \cup {b} \cup {c} \cup {d} \cup {e} \cup {f} \cup {g} \cup {h} = {a, b, c, d, e, f, g, h}
  OBVIOUS
<1> QED
  BY <1>6, <1>7

\* The rules that match an object are finitely many, and say of the retention only what
\* their kind of object allows.
LEMMA MatchingRules ==
  ASSUME kind \in Kind, config \in Configs[kind], NEW item, item.kind = kind
  PROVE  /\ IsFiniteSet(Matching(config, item))
         /\ \A r \in Matching(config, item) :
              /\ IsRule(r) /\ Specificity(r) \in Nat
              /\ r.keep_unused_days # {} => kind = "cache"
              /\ r.keep_business_days # {} => kind = "workflow_run"
              /\ r.keep_days = {} \/ r.keep_business_days = {}
<1>1. IsPolicy(config) /\ Valid(config)
  BY Configured
<1>2. Matching(config, item) \in SUBSET config.rules /\ IsFiniteSet(config.rules)
  BY <1>1 DEF Matching, IsPolicy
<1>3. IsFiniteSet(Matching(config, item))
  BY <1>2, FS_Subset
<1>4. ASSUME NEW r \in Matching(config, item)
      PROVE  /\ IsRule(r) /\ Specificity(r) \in Nat
             /\ r.keep_unused_days # {} => kind = "cache"
             /\ r.keep_business_days # {} => kind = "workflow_run"
             /\ r.keep_days = {} \/ r.keep_business_days = {}
  <2>1. r \in config.rules /\ r.resource = kind
    BY DEF Matching, Matches
  <2>2. /\ IsRule(r) /\ DOMAIN r.patterns \subseteq Selectors(r.resource)
        /\ r.keep_days = {} \/ r.keep_business_days = {}
        /\ r.keep_unused_days # {} => r.resource = "cache"
        /\ r.keep_business_days \cup r.keep_latest_by # {} => r.resource = "workflow_run"
    BY <1>1, <2>1 DEF IsPolicy, Valid
  <2>3. DOMAIN r.patterns \in SUBSET {"repository", "workflow", "artifact", "branch", "key", "ref",
                                      "event", "conclusion"}
    BY <2>2 DEF Selectors
  <2>4. IsFiniteSet({"repository", "workflow", "artifact", "branch", "key", "ref", "event",
                     "conclusion"})
    BY EightAreFinite
  <2>5. IsFiniteSet(DOMAIN r.patterns)
    BY <2>3, <2>4, FS_Subset
  <2>6. Specificity(r) \in Nat
    BY <2>5, FS_CardinalityType DEF Specificity
  <2> QED
    BY <2>1, <2>2, <2>6
<1> QED
  BY <1>3, <1>4

\* An option that holds something holds its value.
LEMMA ValueOf ==
  ASSUME NEW S, NEW option, IsOption(option, S), NEW otherwise
  PROVE  /\ \A n \in option : n \in S /\ Value(option, otherwise) = n
         /\ option = {} => Value(option, otherwise) = otherwise
BY DEF IsOption, Value

\* The rules of a set that speak of retention, and the retentions of those that decide.
LEMMA DecidingRetentions ==
  ASSUME NEW retaining, IsFiniteSet(retaining), \A r \in retaining : Specificity(r) \in Nat,
         NEW deciding, deciding = MostSpecific(retaining),
         NEW f, f = [r \in deciding |-> f[r]],
         NEW retentions, retentions = {f[r] : r \in deciding},
         NEW expired \in BOOLEAN, Retain(retentions, expired) = "Delete",
         NEW otherwise, NEW value, value = Value(retentions, otherwise)
  PROVE  /\ expired
         /\ retaining = {} => value = otherwise
         /\ \A r \in retaining : \/ r \in deciding /\ f[r] = value
                                 \/ \E s \in retaining : Specificity(s) > Specificity(r)
<1>1. deciding \in SUBSET retaining
  BY DEF MostSpecific
<1>2. IsFiniteSet(deciding)
  BY <1>1, FS_Subset
<1>3. IsFiniteSet(retentions)
  <2>1. f \in Surjection(deciding, retentions)
    BY DEF Surjection
  <2> QED
    BY <1>2, <2>1, FS_Surjection
<1>4. /\ expired
      /\ \A v \in retentions : Value(retentions, otherwise) = v
      /\ retentions = {} => Value(retentions, otherwise) = otherwise
  BY <1>3, OneRetention
<1>5. \A r \in retaining : r \in deciding \/ \E s \in retaining : Specificity(s) > Specificity(r)
  BY RulesDecide
<1>6. retaining = {} => retentions = {}
  BY <1>1
<1> QED
  BY <1>4, <1>5, <1>6

\* What RetentionIsOver says of one object.
Over(item) ==
  LET retaining == {r \in Matching(config, item) :
                      r.keep_days \cup r.keep_business_days \cup r.keep_unused_days # {}}
  IN /\ retaining = {} => DefaultsOutlived(item)
     /\ \A r \in retaining :
          \/ Outlived(item, r.keep_days, r.keep_business_days, r.keep_unused_days)
          \/ \E s \in retaining : Specificity(s) > Specificity(r)

\* A retention that each of its parts has expired by is outlived.
LEMMA OutlivedBy ==
  ASSUME NEW item, item.created \in Nat, item.touched \in Nat, scanned \in Nat,
         item.created <= scanned, item.touched <= scanned, scanned <= MaxDate,
         NEW days, NEW business, NEW unused, IsOption(days, Nat), IsOption(business, Nat),
         IsOption(unused, Nat),
         \A n \in days : Elapsed(item.created, scanned, n),
         \A n \in business : BusinessDaysOver(item.created, scanned, n),
         \A n \in unused : Elapsed(item.touched, scanned, n)
  PROVE  Outlived(item, days, business, unused)
<1>1. /\ \A n \in days : n \in Nat
      /\ \A n \in business : n \in Nat
      /\ \A n \in unused : n \in Nat
  BY DEF IsOption
<1>2. \A n \in days : scanned - item.created >= n * Day
  BY <1>1, ElapsedIsOver
<1>3. \A n \in business : BusinessDaysSince(item.created, scanned) >= n
  BY <1>1, BusinessIsOver
<1>4. \A n \in unused : scanned - item.touched >= n * Day
  BY <1>1, ElapsedIsOver
<1> QED
  BY <1>2, <1>3, <1>4 DEF Outlived

\* An artifact that is condemned (Policy::classify).
LEMMA ArtifactIsOver ==
  ASSUME kind = "artifact", kind \in Kind, config \in Configs[kind], NEW i,
         Condemns(config, i), NEW item, item = snapshot[i], item.kind = kind,
         item.created \in Nat, item.touched \in Nat, scanned \in Nat,
         item.created <= scanned, item.touched <= scanned, scanned <= MaxDate
  PROVE  Over(item)
<1> DEFINE matching == Matching(config, item)
           retaining == {r \in matching : r.keep_days # {}}
           deciding == MostSpecific(retaining)
           retentions == {r.keep_days : r \in deciding}
           otherwise == {config.keep_days}
           days == Value(retentions, otherwise)
           expired == Elapsed(item.created, scanned, Value(days, 0))
           f == [r \in deciding |-> r.keep_days]
<1>1. /\ IsFiniteSet(matching)
      /\ \A r \in matching :
           /\ IsRule(r) /\ Specificity(r) \in Nat
           /\ r.keep_unused_days = {} /\ r.keep_business_days = {}
  BY MatchingRules
<1>2. ClassifyArtifact(config, snapshot, i, scanned) = "Delete"
  BY DEF Condemns
<1>3. Retain(retentions, expired) = "Delete"
  BY <1>2 DEF ClassifyArtifact, Deciding
<1>4. expired \in BOOLEAN
  BY DEF Elapsed
<1>5. IsFiniteSet(retaining) /\ \A r \in retaining : Specificity(r) \in Nat
  <2>1. retaining \in SUBSET matching
    OBVIOUS
  <2> HIDE DEF matching, retaining
  <2> QED
    BY <1>1, <2>1, FS_Subset DEF retaining
<1>6. retaining = {r \in matching : r.keep_days \cup r.keep_business_days \cup r.keep_unused_days # {}}
  BY <1>1
<1>7. retentions = {f[r] : r \in deciding} /\ f = [r \in deciding |-> f[r]]
  OBVIOUS
<1>8. \A r \in deciding : f[r] = r.keep_days
  OBVIOUS
<1>9. deciding = MostSpecific(retaining) /\ days = Value(retentions, otherwise)
  OBVIOUS
<1> HIDE DEF matching, retaining, deciding, retentions, otherwise, days, expired, f
<1>10. /\ expired
       /\ retaining = {} => days = otherwise
       /\ \A r \in retaining : \/ r \in deciding /\ f[r] = days
                               \/ \E s \in retaining : Specificity(s) > Specificity(r)
  BY <1>3, <1>4, <1>5, <1>7, <1>9, DecidingRetentions
<1>11. Elapsed(item.created, scanned, Value(days, 0))
  BY <1>10 DEF expired
<1>12. ASSUME IsOption(days, Nat) PROVE Outlived(item, days, {}, {})
  <2>1. \A n \in days : Elapsed(item.created, scanned, n)
    BY <1>11, <1>12, ValueOf
  <2>2. IsOption({}, Nat)
    BY DEF IsOption
  <2> QED
    BY <1>12, <2>1, <2>2, OutlivedBy
<1>13. retaining = {} => DefaultsOutlived(item)
  <2> SUFFICES ASSUME retaining = {} PROVE DefaultsOutlived(item)
    OBVIOUS
  <2>1. config.keep_days \in Nat
    BY Configured DEF IsPolicy
  <2>2. days = {config.keep_days} /\ IsOption(days, Nat)
    BY <1>10, <2>1 DEF IsOption, otherwise
  <2> QED
    BY <1>12, <2>2 DEF DefaultsOutlived
<1>14. ASSUME NEW r \in retaining
       PROVE  \/ Outlived(item, r.keep_days, r.keep_business_days, r.keep_unused_days)
              \/ \E s \in retaining : Specificity(s) > Specificity(r)
  <2> SUFFICES ASSUME r \in deciding, f[r] = days
               PROVE  Outlived(item, r.keep_days, r.keep_business_days, r.keep_unused_days)
    BY <1>10
  <2>1. r \in matching
    BY DEF retaining
  <2>2. r.keep_days = days /\ IsRule(r) /\ r.keep_unused_days = {} /\ r.keep_business_days = {}
    BY <1>1, <1>8, <2>1
  <2>3. IsOption(days, Nat)
    BY <2>2 DEF IsRule
  <2> QED
    BY <1>12, <2>2, <2>3
<1> QED
  BY <1>6, <1>13, <1>14 DEF Over, matching

\* A cache that is condemned (CachePolicy::classify).
LEMMA CacheIsOver ==
  ASSUME kind = "cache", kind \in Kind, config \in Configs[kind], NEW i,
         Condemns(config, i), NEW item, item = snapshot[i], item.kind = kind,
         item.created \in Nat, item.touched \in Nat, scanned \in Nat,
         item.created <= scanned, item.touched <= scanned, scanned <= MaxDate
  PROVE  Over(item)
<1> DEFINE matching == Matching(config, item)
           retaining == {r \in matching : r.keep_days \cup r.keep_unused_days # {}}
           deciding == MostSpecific(retaining)
           retentions == {<<r.keep_days, r.keep_unused_days>> : r \in deciding}
           default == <<{config.caches.keep_days}, config.caches.keep_unused_days>>
           retention == Value(retentions, default)
           expired == CacheRetentionExpired(item, scanned, retention)
           f == [r \in deciding |-> <<r.keep_days, r.keep_unused_days>>]
<1>1. /\ IsFiniteSet(matching)
      /\ \A r \in matching : IsRule(r) /\ Specificity(r) \in Nat /\ r.keep_business_days = {}
  BY MatchingRules
<1>2. ClassifyCache(config, snapshot, i, scanned) = "Delete"
  BY DEF Condemns
<1>3. Retain(retentions, expired) = "Delete"
  BY <1>2 DEF ClassifyCache, Deciding
<1>4. expired \in BOOLEAN
  BY DEF CacheRetentionExpired
<1>5. IsFiniteSet(retaining) /\ \A r \in retaining : Specificity(r) \in Nat
  <2>1. retaining \in SUBSET matching
    OBVIOUS
  <2> HIDE DEF matching, retaining
  <2> QED
    BY <1>1, <2>1, FS_Subset DEF retaining
<1>6. retaining = {r \in matching : r.keep_days \cup r.keep_business_days \cup r.keep_unused_days # {}}
  BY <1>1
<1>7. retentions = {f[r] : r \in deciding} /\ f = [r \in deciding |-> f[r]]
  OBVIOUS
<1>8. \A r \in deciding : f[r] = <<r.keep_days, r.keep_unused_days>>
  OBVIOUS
<1>9. deciding = MostSpecific(retaining) /\ retention = Value(retentions, default)
  OBVIOUS
<1> HIDE DEF matching, retaining, deciding, retentions, default, retention, expired, f
<1>10. /\ expired
       /\ retaining = {} => retention = default
       /\ \A r \in retaining : \/ r \in deciding /\ f[r] = retention
                               \/ \E s \in retaining : Specificity(s) > Specificity(r)
  BY <1>3, <1>4, <1>5, <1>7, <1>9, DecidingRetentions, SMTT(60)
<1>11. /\ \A n \in retention[1] : Elapsed(item.created, scanned, n)
       /\ \A n \in retention[2] : Elapsed(item.touched, scanned, n)
  BY <1>10 DEF expired, CacheRetentionExpired
<1>12. ASSUME IsOption(retention[1], Nat), IsOption(retention[2], Nat)
       PROVE  Outlived(item, retention[1], {}, retention[2])
  <2>1. IsOption({}, Nat)
    BY DEF IsOption
  <2> QED
    BY <1>11, <1>12, <2>1, OutlivedBy
<1>13. retaining = {} => DefaultsOutlived(item)
  <2> SUFFICES ASSUME retaining = {} PROVE DefaultsOutlived(item)
    OBVIOUS
  <2>1. config.caches.keep_days \in Nat /\ IsOption(config.caches.keep_unused_days, Nat)
    BY Configured DEF IsPolicy
  <2>2. /\ retention[1] = {config.caches.keep_days} /\ IsOption(retention[1], Nat)
        /\ retention[2] = config.caches.keep_unused_days /\ IsOption(retention[2], Nat)
    BY <1>10, <2>1 DEF IsOption, default
  <2> QED
    BY <1>12, <2>2 DEF DefaultsOutlived
<1>14. ASSUME NEW r \in retaining
       PROVE  \/ Outlived(item, r.keep_days, r.keep_business_days, r.keep_unused_days)
              \/ \E s \in retaining : Specificity(s) > Specificity(r)
  <2> SUFFICES ASSUME r \in deciding, f[r] = retention
               PROVE  Outlived(item, r.keep_days, r.keep_business_days, r.keep_unused_days)
    BY <1>10
  <2>1. r \in matching
    BY DEF retaining
  <2>2. /\ r.keep_days = retention[1] /\ r.keep_unused_days = retention[2]
        /\ IsRule(r) /\ r.keep_business_days = {}
    BY <1>1, <1>8, <2>1
  <2>3. IsOption(retention[1], Nat) /\ IsOption(retention[2], Nat)
    BY <2>2 DEF IsRule
  <2> QED
    BY <1>12, <2>2, <2>3
<1> QED
  BY <1>6, <1>13, <1>14 DEF Over, matching

\* A run that is condemned (RunPolicy::classify).
LEMMA RunIsOver ==
  ASSUME kind = "workflow_run", kind \in Kind, config \in Configs[kind], NEW i,
         Condemns(config, i), NEW item, item = snapshot[i], item.kind = kind,
         item.created \in Nat, item.touched \in Nat, scanned \in Nat,
         item.created <= scanned, item.touched <= scanned, scanned <= MaxDate
  PROVE  Over(item)
<1> DEFINE matching == Matching(config, item)
           retaining == {r \in matching : r.keep_days \cup r.keep_business_days # {}}
           deciding == MostSpecific(retaining)
           retentions == {<<r.keep_days, r.keep_business_days>> : r \in deciding}
           default == RunDefault(config)
           retention == Value(retentions, default)
           expired == RunRetentionExpired(item, scanned, retention)
           f == [r \in deciding |-> <<r.keep_days, r.keep_business_days>>]
<1>1. /\ IsFiniteSet(matching)
      /\ \A r \in matching : IsRule(r) /\ Specificity(r) \in Nat /\ r.keep_unused_days = {}
  BY MatchingRules
<1>2. ClassifyRun(config, snapshot, i, scanned, "NoEntry") = "Delete"
  BY DEF Condemns
<1>3. Retain(retentions, expired) = "Delete"
  BY <1>2 DEF ClassifyRun, Deciding
<1>4. expired \in BOOLEAN
  BY DEF RunRetentionExpired
<1>5. IsFiniteSet(retaining) /\ \A r \in retaining : Specificity(r) \in Nat
  <2>1. retaining \in SUBSET matching
    OBVIOUS
  <2> HIDE DEF matching, retaining
  <2> QED
    BY <1>1, <2>1, FS_Subset DEF retaining
<1>6. retaining = {r \in matching : r.keep_days \cup r.keep_business_days \cup r.keep_unused_days # {}}
  BY <1>1
<1>7. retentions = {f[r] : r \in deciding} /\ f = [r \in deciding |-> f[r]]
  OBVIOUS
<1>8. \A r \in deciding : f[r] = <<r.keep_days, r.keep_business_days>>
  OBVIOUS
<1>9. deciding = MostSpecific(retaining) /\ retention = Value(retentions, default)
  OBVIOUS
<1> HIDE DEF matching, retaining, deciding, retentions, default, retention, expired, f
<1>10. /\ expired
       /\ retaining = {} => retention = default
       /\ \A r \in retaining : \/ r \in deciding /\ f[r] = retention
                               \/ \E s \in retaining : Specificity(s) > Specificity(r)
  BY <1>3, <1>4, <1>5, <1>7, <1>9, DecidingRetentions
<1>11. /\ \A n \in retention[1] : Elapsed(item.created, scanned, n)
       /\ \A n \in retention[2] : BusinessDaysOver(item.created, scanned, n)
  BY <1>10 DEF expired, RunRetentionExpired
<1>12. ASSUME IsOption(retention[1], Nat), IsOption(retention[2], Nat)
       PROVE  Outlived(item, retention[1], retention[2], {})
  <2>1. IsOption({}, Nat)
    BY DEF IsOption
  <2> QED
    BY <1>11, <1>12, <2>1, OutlivedBy
<1>13. retaining = {} => DefaultsOutlived(item)
  <2> SUFFICES ASSUME retaining = {} PROVE DefaultsOutlived(item)
    OBVIOUS
  <2> DEFINE days == config.runs.keep_days
             business == config.runs.keep_business_days
  <2>1. /\ IsOption(days, Nat) /\ IsOption(business, Nat)
        /\ days = {} \/ business = {}
    BY Configured DEF IsPolicy, Valid
  <2>2. retention = IF business # {} THEN <<{}, business>> ELSE <<{Value(days, 30)}, {}>>
    BY <1>10 DEF RunDefault, default
  <2>3. IsOption({}, Nat)
    BY DEF IsOption
  <2>4. CASE business # {}
    <3>1. retention[1] = {} /\ retention[2] = business /\ days = {}
      BY <2>1, <2>2, <2>4
    <3>2. Outlived(item, {}, business, {})
      BY <1>12, <2>1, <2>3, <3>1
    <3> QED
      BY <3>1, <3>2 DEF DefaultsOutlived
  <2>5. CASE business = {}
    <3>1. retention[1] = {Value(days, 30)} /\ retention[2] = {}
      BY <2>2, <2>5
    <3>2. \A n \in days : Elapsed(item.created, scanned, n)
      <4> SUFFICES ASSUME NEW n \in days PROVE Elapsed(item.created, scanned, n)
        OBVIOUS
      <4>1. Value(days, 30) = n
        BY <2>1, ValueOf
      <4> QED
        BY <1>11, <3>1, <4>1
    <3> HIDE DEF days
    <3>3. Outlived(item, days, {}, {})
      BY <2>1, <2>3, <3>2, OutlivedBy
    <3> QED
      BY <2>5, <3>3 DEF DefaultsOutlived, days
  <2> QED
    BY <2>4, <2>5
<1>14. ASSUME NEW r \in retaining
       PROVE  \/ Outlived(item, r.keep_days, r.keep_business_days, r.keep_unused_days)
              \/ \E s \in retaining : Specificity(s) > Specificity(r)
  <2> SUFFICES ASSUME r \in deciding, f[r] = retention
               PROVE  Outlived(item, r.keep_days, r.keep_business_days, r.keep_unused_days)
    BY <1>10
  <2>1. r \in matching
    BY DEF retaining
  <2>2. /\ r.keep_days = retention[1] /\ r.keep_business_days = retention[2]
        /\ IsRule(r) /\ r.keep_unused_days = {}
    BY <1>1, <1>8, <2>1
  <2>3. IsOption(retention[1], Nat) /\ IsOption(retention[2], Nat)
    BY <2>2 DEF IsRule
  <2> QED
    BY <1>12, <2>2, <2>3
<1> QED
  BY <1>6, <1>13, <1>14 DEF Over, matching

\* Objects that differ in nothing that a policy looks at for their retention.
LEMMA OverAlike ==
  ASSUME NEW a, NEW b, a.kind = kind, b.kind = kind, a.values = b.values,
         a.created = b.created, kind = "cache" => a = b,
         kind \in Kind, config \in Configs[kind], Over(a)
  PROVE  Over(b)
<1>1. CASE kind = "cache"
  BY <1>1
<1>2. CASE kind # "cache"
  <2>1. Matching(config, a) = Matching(config, b)
    BY SameMatching DEF Matching
  <2>2. \A r \in Matching(config, b) : r.keep_unused_days = {}
    BY <1>2, MatchingRules
  <2>3. \A days, business : Outlived(a, days, business, {}) <=> Outlived(b, days, business, {})
    BY DEF Outlived
  <2>4. DefaultsOutlived(a) <=> DefaultsOutlived(b)
    BY <1>2, <2>3 DEF DefaultsOutlived
  <2>5. ASSUME NEW r \in Matching(config, b)
        PROVE  Outlived(a, r.keep_days, r.keep_business_days, r.keep_unused_days)
                 <=> Outlived(b, r.keep_days, r.keep_business_days, r.keep_unused_days)
    BY <2>2, <2>3
  <2> QED
    BY <2>1, <2>4, <2>5 DEF Over
<1> QED
  BY <1>1, <1>2

\* What is condemned has been kept as long as the rules, or the defaults, ask for.
THEOREM CondemnedAreOver == Spec => []RetentionIsOver
<1>1. PlanningInv => RetentionIsOver
  <2> SUFFICES ASSUME PlanningInv, NEW item \in Condemned PROVE Over(item)
    BY DEF RetentionIsOver, Over
  <2>1. /\ kind \in Kind /\ config \in Configs[kind]
        /\ scanned \in Nat /\ scanned <= MaxDate
    BY CondemnedIs
  <2>2. PICK i \in DOMAIN snapshot :
          /\ Condemns(config, i)
          /\ snapshot[i] \in Entry /\ item \in Entry /\ item.id = snapshot[i].id
          /\ item.created = snapshot[i].created /\ item.values = snapshot[i].values
          /\ item.kind = snapshot[i].kind /\ snapshot[i].kind = kind
          /\ kind = "cache" => item = snapshot[i]
          /\ item.created \in Nat /\ item.created <= scanned
          /\ snapshot[i].touched \in Nat /\ snapshot[i].touched <= scanned
    BY CondemnedIs
  <2>3. Over(snapshot[i])
    BY <2>1, <2>2, ArtifactIsOver, CacheIsOver, RunIsOver DEF Kind
  <2> QED
    BY <2>1, <2>2, <2>3, OverAlike
<1> QED
  BY <1>1, AlwaysPlanningInv, PTL

-----------------------------------------------------------------------------
(* keep_latest *)

\* There are as many places as the list is long.
LEMMA UpTo ==
  ASSUME NEW m \in Nat
  PROVE  IsFiniteSet(1..m) /\ Cardinality(1..m) = m
<1>1. 1 \in Int /\ m \in Int /\ (1 > m <=> m = 0)
  OBVIOUS
<1>2. IsFiniteSet(1..m) /\ Cardinality(1..m) = IF 1 > m THEN 0 ELSE m - 1 + 1
  BY <1>1, FS_Interval, Zenon
<1> QED
  BY <1>1, <1>2

\* Taking some places away takes no more names away than places.
LEMMA NamesOfPlaces ==
  ASSUME NEW D, IsFiniteSet(D), NEW Q \in SUBSET D, NEW f, NEW all, NEW some,
         \A j \in D : f[j] \in all, \A x \in all : \E j \in D : x = f[j],
         \A j \in Q : f[j] \in some, \A x \in some : \E j \in Q : x = f[j]
  PROVE  /\ IsFiniteSet(some) /\ IsFiniteSet(all)
         /\ Cardinality(all) + Cardinality(Q) <= Cardinality(some) + Cardinality(D)
<1> DEFINE R == D \ Q
           Image(S) == {f[j] : j \in S}
           g(S) == [j \in S |-> f[j]]
<1>1. ASSUME NEW S \in SUBSET D
      PROVE  IsFiniteSet(S) /\ IsFiniteSet(Image(S)) /\ Cardinality(Image(S)) <= Cardinality(S)
  <2>1. IsFiniteSet(S)
    BY FS_Subset
  <2>2. g(S) \in Surjection(S, Image(S))
    BY DEF Surjection
  <2> HIDE DEF Image, g
  <2> QED
    BY <2>1, <2>2, FS_Surjection
<1>2. /\ IsFiniteSet(Q) /\ IsFiniteSet(Image(Q)) /\ IsFiniteSet(Image(D))
      /\ IsFiniteSet(R) /\ IsFiniteSet(Image(R)) /\ Cardinality(Image(R)) <= Cardinality(R)
  <2> HIDE DEF Image
  <2> QED
    BY <1>1
<1>3. Image(D) = Image(Q) \cup Image(R)
  OBVIOUS
<1> HIDE DEF Image
<1>4. /\ Image(Q) \cap Image(R) \in SUBSET Image(Q)
      /\ IsFiniteSet(Image(Q) \cap Image(R))
  BY <1>2, FS_Subset
<1>5. /\ Cardinality(Image(D)) = Cardinality(Image(Q)) + Cardinality(Image(R))
                                   - Cardinality(Image(Q) \cap Image(R))
      /\ Cardinality(Image(Q) \cap Image(R)) \in Nat
      /\ Cardinality(Image(Q)) \in Nat /\ Cardinality(Image(R)) \in Nat
  BY <1>2, <1>3, <1>4, FS_Union, FS_CardinalityType
<1>6. Cardinality(R) = Cardinality(D) - Cardinality(Q)
  <2>1. Q = D \cap Q
    OBVIOUS
  <2> QED
    BY <2>1, FS_Difference
<1>7. /\ Cardinality(R) \in Nat /\ Cardinality(D) \in Nat /\ Cardinality(Q) \in Nat
  BY <1>2, FS_CardinalityType
<1>8. Cardinality(Image(D)) + Cardinality(Q) <= Cardinality(Image(Q)) + Cardinality(D)
  BY <1>2, <1>5, <1>6, <1>7
<1>9. all = Image(D) /\ some = Image(Q)
  BY DEF Image
<1> QED
  BY <1>2, <1>8, <1>9

\* The places that a rule counts before a condemned one are at least keep_latest.
LEMMA NotAmongTheLatest ==
  ASSUME kind \in Kind, config \in Configs[kind], NEW i \in DOMAIN snapshot, IsFiniteSet(DOMAIN snapshot),
         Condemns(config, i), NEW rule \in Matching(config, snapshot[i]),
         NEW n \in rule.keep_latest
  PROVE  \E P \in SUBSET DOMAIN snapshot :
           /\ n <= Cardinality(P)
           /\ \A j \in P :
                /\ Before(snapshot, j, i) /\ Matches(rule, snapshot[j])
                /\ kind = "workflow_run" =>
                     /\ snapshot[j].completed
                     /\ RunFamily(rule, snapshot[j]) = RunFamily(rule, snapshot[i])
<1>1. rule \in config.rules /\ Matches(rule, snapshot[i])
  BY DEF Matching
<1>2. n \in Nat
  BY <1>1, Configured DEF IsPolicy, IsRule, IsOption
<1>3. ASSUME NEW F \in SUBSET DOMAIN snapshot, ~ IsLatest(snapshot, i, F, rule)
      PROVE  n <= Cardinality({j \in F : Before(snapshot, j, i)})
  <2> DEFINE P == {j \in F : Before(snapshot, j, i)}
  <2>1. P \in SUBSET DOMAIN snapshot
    OBVIOUS
  <2>2. ~ (Cardinality(P) < n)
    BY <1>3 DEF IsLatest
  <2> HIDE DEF P
  <2>3. Cardinality(P) \in Nat
    BY <2>1, FS_Subset, FS_CardinalityType
  <2>4. n <= Cardinality(P)
    BY <1>2, <2>2, <2>3
  <2> QED
    BY <2>4 DEF P
<1>4. CASE kind # "workflow_run"
  <2> DEFINE F == MatchingAt(snapshot, rule)
             P == {j \in F : Before(snapshot, j, i)}
  <2>1. snapshot[i].id \notin KeptLatest(config, snapshot)
    BY <1>4 DEF Condemns, ClassifyArtifact, ClassifyCache, Kind
  <2>2. ~ IsLatest(snapshot, i, F, rule) /\ F \in SUBSET DOMAIN snapshot
    BY <1>1, <2>1 DEF KeptLatest, MatchingAt
  <2>3. n <= Cardinality(P)
    <3> HIDE DEF F
    <3> QED
      BY <1>3, <2>2
  <2>4. P \in SUBSET DOMAIN snapshot
        /\ \A j \in P : Before(snapshot, j, i) /\ Matches(rule, snapshot[j])
    BY DEF MatchingAt
  <2> HIDE DEF P
  <2> QED
    BY <1>4, <2>3, <2>4
<1>5. CASE kind = "workflow_run"
  <2> DEFINE pool == {j \in MatchingAt(snapshot, rule) : snapshot[j].completed}
             F == Siblings(snapshot, i, pool, rule)
             P == {j \in F : Before(snapshot, j, i)}
  <2>1. snapshot[i].id \notin RunsKeptLatest(config, snapshot) /\ snapshot[i].completed
    BY <1>5 DEF Condemns, ClassifyRun
  <2>2. i \in pool
    BY <1>1, <2>1 DEF MatchingAt
  <2>3. ~ IsLatest(snapshot, i, F, rule)
    BY <1>1, <2>1, <2>2 DEF RunsKeptLatest
  <2>4. F \in SUBSET DOMAIN snapshot
    BY DEF Siblings, MatchingAt
  <2>5. n <= Cardinality(P)
    <3> HIDE DEF F
    <3> QED
      BY <1>3, <2>3, <2>4
  <2>6. P \in SUBSET DOMAIN snapshot
        /\ \A j \in P :
             /\ Before(snapshot, j, i) /\ Matches(rule, snapshot[j]) /\ snapshot[j].completed
             /\ RunFamily(rule, snapshot[j]) = RunFamily(rule, snapshot[i])
    BY DEF MatchingAt, Siblings
  <2> HIDE DEF P
  <2> QED
    BY <2>5, <2>6
<1> QED
  BY <1>4, <1>5

\* What comes before another is not created before it, and nothing comes before itself.
LEMMA BeforeIsNewer ==
  ASSUME NEW items, NEW i, NEW j, SortKey(items[i]) \in Nat \X Nat \X Nat \X Nat \X Nat,
         i \in Nat, SortKey(items[j]) \in Nat \X Nat \X Nat \X Nat \X Nat, Before(items, j, i)
  PROVE  items[j].created >= items[i].created /\ j # i
<1>1. \A n \in 1..5 : SortKey(items[i])[n] \in Nat
  OBVIOUS
<1>2. SortKey(items[i])[1] = items[i].created /\ SortKey(items[j])[1] = items[j].created
  BY DEF SortKey
<1>3. items[j].created \in Nat /\ items[i].created \in Nat
  BY DEF SortKey
<1> DEFINE a == SortKey(items[j])
           b == SortKey(items[i])
<1>4. \/ \E n \in 1..5 : a[n] > b[n] /\ \A m \in 1..(n - 1) : a[m] = b[m]
      \/ a = b /\ j < i
  BY DEF Before
<1>5. j # i
  <2>1. \A n \in 1..5 : ~ (b[n] > b[n])
    BY <1>1
  <2> QED
    BY <1>4, <2>1
<1>6. a[1] >= b[1]
  <2> HIDE DEF a, b
  <2> QED
    BY <1>2, <1>3, <1>4 DEF a, b
<1> QED
  BY <1>2, <1>5, <1>6

\* keep_latest: who is condemned has as many others before it as a rule that matches it
\* keeps, but for the places that were taken twice because the list moved.
THEOREM LatestAreNotCondemned == Spec => []TheLatestAreSpared
<1>1. PlanningInv => TheLatestAreSpared
  <2> SUFFICES ASSUME PlanningInv, NEW item \in Condemned, NEW rule \in Matching(config, item),
                      NEW n \in rule.keep_latest
               PROVE  n <= AtLeastAsNew(rule, item) + shifts
    BY DEF TheLatestAreSpared
  <2> DEFINE D == DOMAIN snapshot
             f == [j \in D |-> snapshot[j].id]
             others == {o \in InSeq(snapshot) :
                          /\ o.id # item.id /\ o.created >= item.created
                          /\ Matches(rule, o)
                          /\ kind = "workflow_run" =>
                               o.completed /\ RunFamily(rule, o) = RunFamily(rule, item)}
             W == {other.id : other \in others}
  <2>1. kind \in Kind /\ config \in Configs[kind] /\ snapshot \in Seq(Entry)
    BY CondemnedIs
  <2>2. PICK i \in DOMAIN snapshot :
          /\ Condemns(config, i) /\ item.id = snapshot[i].id
          /\ item.created = snapshot[i].created /\ item.values = snapshot[i].values
          /\ item.workflow = snapshot[i].workflow /\ item.kind = snapshot[i].kind
    BY CondemnedIs
  <2>3. /\ D = 1..Len(snapshot) /\ Len(snapshot) \in Nat /\ i \in Nat
        /\ \A j \in D : snapshot[j] \in Entry
    BY <2>1
  <2>4. IsFiniteSet(D) /\ Cardinality(D) = Len(snapshot)
    <3>1. /\ IsFiniteSet(1..Len(snapshot)) /\ Cardinality(1..Len(snapshot)) = Len(snapshot)
      BY <2>3, UpTo, Zenon
    <3> HIDE DEF D
    <3>2. D = 1..Len(snapshot)
      BY <2>3
    <3> QED
      BY <3>1, <3>2
  <2>5. \A j \in D : SortKey(snapshot[j]) \in Nat \X Nat \X Nat \X Nat \X Nat
    BY <2>3, Fields, Numbers DEF SortKey
  <2>6. rule \in Matching(config, snapshot[i])
    BY <2>2, SameMatching DEF Matching
  <2>7. PICK P \in SUBSET D :
          /\ n <= Cardinality(P)
          /\ \A j \in P :
               /\ Before(snapshot, j, i) /\ Matches(rule, snapshot[j])
               /\ kind = "workflow_run" =>
                    /\ snapshot[j].completed
                    /\ RunFamily(rule, snapshot[j]) = RunFamily(rule, snapshot[i])
    BY <2>1, <2>2, <2>4, <2>6, NotAmongTheLatest
  <2>8. \A j \in P : snapshot[j].created >= snapshot[i].created /\ j # i
    BY <2>2, <2>3, <2>5, <2>7, BeforeIsNewer
  <2> DEFINE Q == P \cup {i}
             T == {f[j] : j \in Q}
  <2>9. IsFiniteSet(P) /\ Cardinality(P) \in Nat /\ Cardinality(Q) = Cardinality(P) + 1
    <3>1. IsFiniteSet(P) /\ Cardinality(P) \in Nat
      BY <2>4, FS_Subset, FS_CardinalityType
    <3> QED
      BY <2>8, <3>1, FS_AddElement
  <2>10. Q \in SUBSET D
    BY <2>2
  <2>11. {f[j] : j \in D} = Ids(snapshot)
    BY DEF Ids, InSeq
  <2>12. /\ IsFiniteSet(T) /\ IsFiniteSet(Ids(snapshot))
         /\ Cardinality(Ids(snapshot)) + Cardinality(Q) <= Cardinality(T) + Cardinality(D)
    <3>1. /\ \A j \in D : f[j] \in Ids(snapshot)
          /\ \A x \in Ids(snapshot) : \E j \in D : x = f[j]
      BY <2>11
    <3>2. (\A j \in Q : f[j] \in T) /\ \A x \in T : \E j \in Q : x = f[j]
      OBVIOUS
    <3> HIDE DEF f, Q, D, T
    <3> QED
      BY <2>4, <2>10, <3>1, <3>2, NamesOfPlaces
  <2>13. RunFamily(rule, item) = RunFamily(rule, snapshot[i])
    BY <2>2 DEF RunFamily
  <2>14. \A j \in P : snapshot[j].id # item.id => snapshot[j] \in others
    BY <2>2, <2>7, <2>8, <2>13 DEF InSeq
  <2>15. T \subseteq W \cup {item.id}
    <3> HIDE DEF others
    <3> QED
      BY <2>2, <2>14
  <2>16. W \subseteq Ids(snapshot)
    BY DEF Ids
  <2>17. IsFiniteSet(W) /\ Cardinality(W) \in Nat /\ Cardinality(T) \in Nat
         /\ Cardinality(T) <= Cardinality(W) + 1
    <3> HIDE DEF W, T
    <3>1. IsFiniteSet(W) /\ Cardinality(W) \in Nat /\ Cardinality(T) \in Nat
      BY <2>12, <2>16, FS_Subset, FS_CardinalityType
    <3>2. /\ IsFiniteSet(W \cup {item.id})
          /\ Cardinality(W \cup {item.id}) <= Cardinality(W) + 1
          /\ Cardinality(W \cup {item.id}) \in Nat
      <4>1. /\ IsFiniteSet(W \cup {item.id})
            /\ \/ Cardinality(W \cup {item.id}) = Cardinality(W)
               \/ Cardinality(W \cup {item.id}) = Cardinality(W) + 1
        BY <3>1, FS_AddElement
      <4> QED
        BY <3>1, <4>1
    <3>3. Cardinality(T) <= Cardinality(W \cup {item.id})
      BY <2>15, <3>2, FS_Subset
    <3> QED
      BY <3>1, <3>2, <3>3
  <2>18. /\ Len(snapshot) <= Cardinality(Ids(snapshot)) + shifts
         /\ shifts \in Nat /\ n \in Nat /\ Cardinality(Ids(snapshot)) \in Nat
    <3>1. Len(snapshot) <= Cardinality(Ids(snapshot)) + shifts /\ shifts \in Nat
      BY PlanningAssumption DEF PlanningInv, Paged, RemoteTyped
    <3>2. n \in Nat
      BY <2>1, Configured DEF IsPolicy, IsRule, IsOption, Matching
    <3> QED
      BY <2>12, <3>1, <3>2, FS_CardinalityType
  <2>19. n <= Cardinality(W) + shifts
    <3> HIDE DEF W, T, Q, D
    <3> QED
      BY <2>3, <2>4, <2>7, <2>9, <2>12, <2>17, <2>18
  <2> QED
    BY <2>19 DEF AtLeastAsNew
<1> QED
  BY <1>1, AlwaysPlanningInv, PTL

-----------------------------------------------------------------------------
(* The transport: the inductive invariant *)

\* A call that was not begun was not sent, a mutation is sent once, and a call
\* that pauses wakes no earlier than the provider allows.
Calls ==
  \A c \in Call :
    /\ stage[c] = "idle" => sent[c] = 0
    /\ sent[c] = 0 => open[c] = 0
    /\ stage[c] = "flight" => sent[c] > 0 /\ open[c] <= clock
    /\ stage[c] = "sleep" /\ sent[c] > 0 => c \in Read /\ since[c] >= open[c]

\* The mutations that have a slot.
Reserved == {m \in Mutation : stage[m] # "idle"}

\* Those that were sent by time t or may have been.
Due(t) ==
  {m \in Mutation : sent[m] > 0 \/ (stage[m] = "sleep" /\ since[m] <= t)}

\* The slots are Pacing apart, from the first one to the last.
Slots ==
  /\ slot = Nothing <=> first = Nothing
  /\ slot = Nothing => Reserved = {}
  /\ slot # Nothing =>
       /\ first <= slot
       /\ Pacing * Cardinality(Reserved) <= Pacing + slot - first

\* So at any time to come not more have come up than the time allows.
Paced ==
  first # Nothing =>
    \A t \in Nat : clock <= t =>
      Pacing * Cardinality(Due(t)) <= Pacing + Most(t, first) - first

TransportInv == TransportTypeOK /\ Calls /\ Slots /\ Paced

\* What an attempt of a read may cost: it wakes late, its answer is late, and it
\* pauses for the longest wait or the last backoff.
Round == 2 * MaxLate + Most(MaxWait, 2^(MaxAttempts - 2))

\* After each attempt that failed a read is late by one round at most.
Timely ==
  \A c \in Read :
    /\ stage[c] = "idle" => attempt[c] = 0
    /\ stage[c] = "sleep" => since[c] <= begun[c] + attempt[c] * Round
    /\ stage[c] = "flight" => since[c] <= begun[c] + attempt[c] * Round + MaxLate
    /\ stage[c] \in {"sleep", "flight"} => clock <= since[c] + MaxLate

-----------------------------------------------------------------------------
(* Lemmas *)

LEMMA Finite ==
  /\ IsFiniteSet(Mutation)
  /\ \A S \in SUBSET Mutation : IsFiniteSet(S) /\ Cardinality(S) \in Nat
<1>1. IsFiniteSet(Mutation)
  BY CallsAssumption, FS_Subset DEF Call
<1> QED
  BY <1>1, FS_Subset, FS_CardinalityType

LEMMA Times ==
  /\ MaxAttempts \in Nat \ {0} /\ Pacing \in Nat \ {0}
  /\ Fallback \in Nat /\ MaxFallback \in Nat
  /\ Waits \subseteq Nat /\ Nothing \notin Nat
BY TimesAssumption

\* More sets, more time.
LEMMA SmallerIsPaced ==
  ASSUME NEW S \in SUBSET Mutation, NEW T \in SUBSET S
  PROVE  Pacing * Cardinality(T) <= Pacing * Cardinality(S)
<1>1. /\ Cardinality(T) <= Cardinality(S)
      /\ Cardinality(T) \in Nat /\ Cardinality(S) \in Nat
  BY Finite, FS_Subset
<1> QED
  BY <1>1, Times

LEMMA OneMoreIsPaced ==
  ASSUME NEW S \in SUBSET Mutation, NEW m \in Mutation \ S
  PROVE  Pacing * Cardinality(S \cup {m}) = Pacing * Cardinality(S) + Pacing
<1>1. Cardinality(S \cup {m}) = Cardinality(S) + 1 /\ Cardinality(S) \in Nat
  BY Finite, FS_AddElement
<1> QED
  BY <1>1, Times

\* Whatever the answer, the pause is a time, and as long as the provider asks.
LEMMA PausesSuffice ==
  ASSUME NEW c \in Call, NEW a \in Answers, NEW d \in Pauses(c, a),
         attempt[c] \in 0..(MaxAttempts - 1)
  PROVE  d \in Nat /\ (a.wait # Nothing => d >= a.wait)
<1>1. Backoff(c) \in Nat /\ 2^attempt[c] \in Nat
  BY BackoffAssumption, Times DEF Backoff
<1>2. a.wait \in Waits \cup {Nothing} /\ (a.wait = Nothing => RateLimitDelay(c, a) \subseteq Nat)
  <2>1. Fallback * 2^attempt[c] \in Nat
    BY <1>1, Times
  <2> QED
    BY <2>1, Times DEF Answers, RateLimitDelay, Least
<1>3. CASE a.wait # Nothing
  <2>1. a.wait \in Nat /\ a.status # "lost" /\ IsRateLimited(a)
    BY <1>2, <1>3, Times DEF Answers, IsRateLimited, Plain
  <2>2. d = Most(a.wait, 1)
    BY <1>3, <2>1 DEF Pauses, RateLimitDelay, Settled
  <2> QED
    BY <2>1, <2>2 DEF Most
<1>4. CASE a.wait = Nothing
  <2>1. d = Backoff(c) \/ \E w \in RateLimitDelay(c, a) : d = Most(w, 1)
    BY DEF Pauses
  <2> QED
    BY <1>1, <1>2, <1>4, <2>1 DEF Most
<1> QED
  BY <1>3, <1>4

-----------------------------------------------------------------------------
(* The invariant holds initially and is kept by every step. *)

LEMMA InitTransportInv == TransportInit => TransportInv
<1> SUFFICES ASSUME TransportInit PROVE TransportInv
  OBVIOUS
<1>1. TransportTypeOK
  <2>1. 0 \in 0..(MaxAttempts - 1)
    BY Times
  <2> QED
    BY <2>1 DEF TransportInit, TransportTypeOK
<1>2. Calls
  BY DEF TransportInit, Calls
<1>3. Slots /\ Paced
  BY DEF TransportInit, Slots, Paced, Reserved, Call
<1> QED
  BY <1>1, <1>2, <1>3 DEF TransportInv

\* A call that takes no slot leaves the slots as they are, and Due no larger.
LEMMA NoSlotKeepsPaced ==
  ASSUME TransportInv, UNCHANGED <<slot, first>>, clock' \in Nat, clock <= clock',
         Reserved' \subseteq Reserved,
         \A t \in Nat : clock' <= t => Due(t)' \subseteq Due(t)
  PROVE  Slots' /\ Paced'
<1>1. Reserved \in SUBSET Mutation /\ \A t : Due(t) \in SUBSET Mutation
  BY DEF Reserved, Due
<1>2. clock \in Nat /\ slot \in Nat \cup {Nothing} /\ first \in Nat \cup {Nothing}
  BY DEF TransportInv, TransportTypeOK
<1>3. Slots'
  <2>1. Reserved' \in SUBSET Reserved /\ Pacing * Cardinality(Reserved') <= Pacing * Cardinality(Reserved)
    BY <1>1, SmallerIsPaced
  <2>2. Cardinality(Reserved) \in Nat /\ Cardinality(Reserved') \in Nat
    BY <1>1, Finite
  <2>3. Pacing * Cardinality(Reserved) \in Nat /\ Pacing * Cardinality(Reserved') \in Nat
    BY <2>2, Times
  <2> QED
    BY <2>1, <2>3, <1>2, Times DEF TransportInv, Slots
<1>4. ASSUME first' # Nothing, NEW t \in Nat, clock' <= t
      PROVE  Pacing * Cardinality(Due(t)') <= Pacing + Most(t, first') - first'
  <2>1. Due(t)' \in SUBSET Due(t) /\ Pacing * Cardinality(Due(t)') <= Pacing * Cardinality(Due(t))
    BY <1>1, <1>4, SmallerIsPaced
  <2>2. Cardinality(Due(t)) \in Nat /\ Cardinality(Due(t)') \in Nat
    BY <1>1, <2>1, Finite
  <2>3. Pacing * Cardinality(Due(t)) \in Nat /\ Pacing * Cardinality(Due(t)') \in Nat
    BY <2>2, Times
  <2>4. Pacing * Cardinality(Due(t)) <= Pacing + Most(t, first) - first
    BY <1>2, <1>4 DEF TransportInv, Paced
  <2>5. Most(t, first) \in Nat /\ first \in Nat
    BY <1>2, <1>4 DEF Most
  <2> QED
    BY <2>1, <2>3, <2>4, <2>5, Times
<1> QED
  BY <1>3, <1>4 DEF Paced

\* A mutation takes the next slot: one more is due, and only from then on.
LEMMA SlotKeepsPaced ==
  ASSUME TransportInv, NEW c \in Mutation, Begin(c)
  PROVE  Slots' /\ Paced'
<1>0. /\ clock \in Nat /\ slot \in Nat \cup {Nothing} /\ first \in Nat \cup {Nothing}
      /\ c \in Call /\ stage \in [Call -> {"idle", "sleep", "flight", "done"}]
      /\ since \in [Call -> Nat] /\ Pacing \in Nat \ {0} /\ Nothing \notin Nat
  BY Times DEF TransportInv, TransportTypeOK, Call
<1>1. /\ stage[c] = "idle" /\ stage' = [stage EXCEPT ![c] = "sleep"]
      /\ slot' = ReservedAt /\ since' = [since EXCEPT ![c] = ReservedAt]
      /\ first' = IF first = Nothing THEN ReservedAt ELSE first
      /\ UNCHANGED <<clock, sent>>
  BY DEF Begin
<1>2. /\ ReservedAt \in Nat /\ clock <= ReservedAt
      /\ slot # Nothing => slot + Pacing <= ReservedAt
  BY <1>0 DEF ReservedAt
<1>3. /\ Reserved \in SUBSET Mutation /\ c \in Mutation \ Reserved
      /\ Reserved' = Reserved \cup {c}
  BY <1>0, <1>1 DEF Reserved, Call
<1>4. /\ Pacing * Cardinality(Reserved') = Pacing * Cardinality(Reserved) + Pacing
      /\ Cardinality(Reserved) \in Nat
  BY <1>3, OneMoreIsPaced, Finite
<1>5. Pacing * Cardinality(Reserved) \in Nat
  BY <1>0, <1>4
<1>6. /\ first' \in Nat /\ slot' \in Nat /\ first' <= slot'
      /\ Pacing * Cardinality(Reserved') <= Pacing + slot' - first'
  <2>1. CASE slot = Nothing
    <3>1. first = Nothing /\ Reserved = {}
      BY <2>1 DEF TransportInv, Slots
    <3>2. Pacing * Cardinality(Reserved) = 0
      BY <3>1, <1>0, FS_EmptySet
    <3> QED
      BY <3>1, <3>2, <1>0, <1>1, <1>2, <1>4
  <2>2. CASE slot # Nothing
    <3>1. /\ first # Nothing /\ first <= slot
          /\ Pacing * Cardinality(Reserved) <= Pacing + slot - first
      BY <2>2 DEF TransportInv, Slots
    <3> QED
      BY <2>2, <3>1, <1>0, <1>1, <1>2, <1>4, <1>5
  <2> QED
    BY <2>1, <2>2
<1>7. Slots'
  BY <1>0, <1>6 DEF Slots
<1>8. ASSUME NEW t \in Nat, clock <= t
      PROVE  Pacing * Cardinality(Due(t)') <= Pacing + Most(t, first') - first'
  <2>1. CASE t < ReservedAt
    <3>1. Due(t)' = Due(t) \/ Due(t)' \subseteq Due(t)
      BY <2>1, <1>0, <1>1, <1>2, <1>8 DEF Due, Call
    <3>2. Due(t)' \in SUBSET Due(t) /\ Due(t) \in SUBSET Mutation
      BY <3>1 DEF Due
    <3>3. CASE first = Nothing
      <4>1. Reserved = {}
        BY <3>3 DEF TransportInv, Slots
      <4>2. Due(t)' = {}
        BY <4>1, <3>2, <1>0 DEF TransportInv, Calls, Due, Reserved, Call
      <4>3. Pacing * Cardinality(Due(t)') = 0
        BY <4>2, <1>0, FS_EmptySet
      <4> QED
        BY <4>3, <1>0, <1>6 DEF Most
    <3>4. CASE first # Nothing
      <4>1. Pacing * Cardinality(Due(t)) <= Pacing + Most(t, first) - first
        BY <3>4, <1>8 DEF TransportInv, Paced
      <4>2. Pacing * Cardinality(Due(t)') <= Pacing * Cardinality(Due(t))
        BY <3>2, SmallerIsPaced
      <4>3. Cardinality(Due(t)) \in Nat /\ Cardinality(Due(t)') \in Nat
        BY <3>2, Finite
      <4>4. Pacing * Cardinality(Due(t)) \in Nat /\ Pacing * Cardinality(Due(t)') \in Nat
        BY <4>3, <1>0
      <4>5. Most(t, first) \in Nat /\ first' = first
        BY <3>4, <1>0, <1>1 DEF Most
      <4> QED
        BY <4>1, <4>2, <4>4, <4>5, <3>4, <1>0
    <3> QED
      BY <3>3, <3>4
  <2>2. CASE ReservedAt <= t
    <3>1. Due(t)' \in SUBSET Reserved' /\ Reserved' \in SUBSET Mutation
      BY <1>0, <1>1, <1>3 DEF TransportInv, Calls, Due, Reserved, Call
    <3>2. Pacing * Cardinality(Due(t)') <= Pacing * Cardinality(Reserved')
      BY <3>1, SmallerIsPaced
    <3>3. Cardinality(Due(t)') \in Nat
      BY <3>1, Finite
    <3>4. Pacing * Cardinality(Due(t)') \in Nat
      BY <3>3, <1>0
    <3>5. Most(t, first') = t /\ slot' <= t
      BY <2>2, <1>1, <1>6 DEF Most
    <3> QED
      BY <3>2, <3>4, <3>5, <1>0, <1>4, <1>5, <1>6
  <2> QED
    BY <2>1, <2>2, <1>2
<1> QED
  BY <1>1, <1>7, <1>8 DEF Paced

LEMMA BeginKeepsInv ==
  ASSUME TransportInv, NEW c \in Call, Begin(c)
  PROVE  TransportInv'
<1>0. TransportTypeOK /\ Calls
  BY DEF TransportInv
<1>1. /\ stage[c] = "idle" /\ stage' = [stage EXCEPT ![c] = "sleep"] /\ sent[c] = 0
      /\ UNCHANGED <<clock, attempt, sent, open>>
  BY <1>0 DEF Begin, Calls
<1>2. TransportTypeOK' /\ since' \in [Call -> Nat] /\ \A d \in Call \ {c} : since'[d] = since[d]
  <2>1. ReservedAt \in Nat
    BY <1>0, Times DEF TransportTypeOK, ReservedAt
  <2> QED
    BY <2>1, <1>0, <1>1 DEF TransportTypeOK, Begin
<1>3. Calls'
  BY <1>0, <1>1, <1>2 DEF TransportTypeOK, Calls
<1>4. CASE c \in Mutation
  BY <1>2, <1>3, <1>4, SlotKeepsPaced DEF TransportInv
<1>5. CASE c \notin Mutation
  <2>1. UNCHANGED <<slot, first>> /\ clock' = clock /\ clock \in Nat
    BY <1>0, <1>1, <1>5 DEF Begin, TransportTypeOK
  <2>2. /\ Reserved' = Reserved
        /\ \A t : Due(t)' = Due(t)
    <3>1. \A m \in Mutation : stage'[m] = stage[m] /\ sent'[m] = sent[m] /\ since'[m] = since[m]
      BY <1>0, <1>1, <1>2, <1>5 DEF TransportTypeOK, Call
    <3> QED
      BY <3>1 DEF Reserved, Due
  <2> QED
    BY <1>2, <1>3, <2>1, <2>2, NoSlotKeepsPaced DEF TransportInv
<1> QED
  BY <1>4, <1>5

LEMMA SendKeepsInv ==
  ASSUME TransportInv, NEW c \in Call, Send(c)
  PROVE  TransportInv'
<1>0. TransportTypeOK /\ Calls
  BY DEF TransportInv
<1>1. /\ stage[c] = "sleep" /\ since[c] <= clock /\ since[c] \in Nat /\ clock \in Nat
      /\ stage' = [stage EXCEPT ![c] = "flight"]
      /\ since' = [since EXCEPT ![c] = clock]
      /\ sent' = [sent EXCEPT ![c] = @ + 1]
      /\ UNCHANGED <<clock, slot, attempt, open, begun, first>>
  BY <1>0 DEF Send, TransportTypeOK
<1>2. TransportTypeOK'
  BY <1>0, <1>1 DEF TransportTypeOK
<1>3. Calls'
  <2>1. sent'[c] > 0 /\ open[c] <= clock
    BY <1>0, <1>1 DEF TransportTypeOK, Calls
  <2> QED
    BY <1>0, <1>1, <2>1 DEF TransportTypeOK, Calls
<1>4. /\ Reserved' = Reserved
      /\ \A t \in Nat : clock' <= t => Due(t)' \subseteq Due(t)
  BY <1>0, <1>1 DEF TransportTypeOK, Call, Reserved, Due
<1> QED
  BY <1>1, <1>2, <1>3, <1>4, NoSlotKeepsPaced DEF TransportInv

LEMMA AnswerKeepsInv ==
  ASSUME TransportInv, NEW c \in Call, NEW a \in Answers, Answer(c, a)
  PROVE  TransportInv'
<1>0. TransportTypeOK /\ Calls /\ stage[c] = "flight" /\ sent[c] > 0 /\ clock \in Nat
      /\ UNCHANGED <<clock, slot, sent, first>>
  BY DEF TransportInv, Answer, Calls, TransportTypeOK
<1>1. CASE /\ attempt[c] + 1 < Attempts(c)
           /\ \E d \in Pauses(c, a) :
                /\ stage' = [stage EXCEPT ![c] = "sleep"]
                /\ since' = [since EXCEPT ![c] = clock + d]
           /\ attempt' = [attempt EXCEPT ![c] = @ + 1]
           /\ open' = [open EXCEPT ![c] = IF a.wait = Nothing THEN @ ELSE clock + a.wait]
           /\ UNCHANGED begun
  <2>1. PICK d \in Pauses(c, a) :
          /\ stage' = [stage EXCEPT ![c] = "sleep"]
          /\ since' = [since EXCEPT ![c] = clock + d]
    BY <1>1
  <2>2. attempt[c] \in 0..(MaxAttempts - 1) /\ MaxAttempts \in Nat
    BY <1>0, Times DEF TransportTypeOK
  <2>3. d \in Nat /\ (a.wait # Nothing => d >= a.wait)
    BY <2>2, PausesSuffice
  <2>4. c \in Read /\ c \notin Mutation /\ attempt[c] + 1 \in 0..(MaxAttempts - 1)
    BY <1>1, <2>2, CallsAssumption DEF Attempts
  <2>5. a.wait # Nothing => a.wait \in Nat
    BY Times DEF Answers
  <2>6. TransportTypeOK'
    BY <1>0, <1>1, <2>1, <2>3, <2>4, <2>5 DEF TransportTypeOK
  <2>7. Calls'
    <3>1. \A b \in Call \ {c} :
            stage'[b] = stage[b] /\ since'[b] = since[b] /\ open'[b] = open[b] /\ sent'[b] = sent[b]
      BY <1>0, <1>1, <2>1 DEF TransportTypeOK
    <3>2. stage'[c] = "sleep" /\ since'[c] = clock + d
          /\ open'[c] = IF a.wait = Nothing THEN open[c] ELSE clock + a.wait
      BY <1>0, <1>1, <2>1 DEF TransportTypeOK
    <3>3. open[c] <= clock /\ open[c] \in Nat
      BY <1>0 DEF TransportTypeOK, Calls
    <3> QED
      BY <1>0, <3>1, <3>2, <3>3, <2>3, <2>4, <2>5 DEF Calls
  <2>8. Reserved' = Reserved /\ \A t \in Nat : Due(t)' = Due(t)
    BY <1>0, <2>1, <2>4 DEF TransportTypeOK, Call, Reserved, Due
  <2> QED
    BY <1>0, <2>6, <2>7, <2>8, NoSlotKeepsPaced DEF TransportInv
<1>2. CASE /\ stage' = [stage EXCEPT ![c] = "done"]
           /\ since' = [since EXCEPT ![c] = 0]
           /\ open' = [open EXCEPT ![c] = 0]
           /\ begun' = [begun EXCEPT ![c] = 0]
           /\ UNCHANGED attempt
  <2>1. TransportTypeOK'
    BY <1>0, <1>2 DEF TransportTypeOK
  <2>2. Calls'
    BY <1>0, <1>2 DEF TransportTypeOK, Calls
  <2>3. Reserved' = Reserved /\ \A t \in Nat : Due(t)' = Due(t)
    BY <1>0, <1>2 DEF TransportTypeOK, Call, Reserved, Due
  <2> QED
    BY <1>0, <2>1, <2>2, <2>3, NoSlotKeepsPaced DEF TransportInv
<1> QED
  BY <1>1, <1>2 DEF Answer

LEMMA PassKeepsInv ==
  ASSUME TransportInv, Pass
  PROVE  TransportInv'
<1>1. /\ clock \in Nat /\ clock' = clock + 1
      /\ UNCHANGED <<slot, stage, attempt, since, sent, open, begun, first>>
  BY DEF Pass, TransportInv, TransportTypeOK
<1>2. TransportTypeOK' /\ Calls'
  BY <1>1 DEF TransportInv, TransportTypeOK, Calls
<1>3. Reserved' = Reserved /\ \A t : Due(t)' = Due(t)
  BY <1>1 DEF Reserved, Due
<1> QED
  BY <1>1, <1>2, <1>3, NoSlotKeepsPaced DEF TransportInv

LEMMA NextTransportInv ==
  ASSUME TransportInv, [TransportNext]_transport
  PROVE  TransportInv'
<1>1. CASE UNCHANGED transport
  <2>1. UNCHANGED <<clock, slot, stage, attempt, since, sent, open, begun, first>> /\ clock \in Nat
    BY <1>1 DEF transport, TransportInv, TransportTypeOK
  <2>2. TransportTypeOK' /\ Calls'
    BY <2>1 DEF TransportInv, TransportTypeOK, Calls
  <2>3. Reserved' = Reserved /\ \A t : Due(t)' = Due(t)
    BY <2>1 DEF Reserved, Due
  <2> QED
    BY <2>1, <2>2, <2>3, NoSlotKeepsPaced DEF TransportInv
<1> QED
  BY <1>1, PassKeepsInv, BeginKeepsInv, SendKeepsInv, AnswerKeepsInv DEF TransportNext

LEMMA AlwaysTransportInv == TransportSpec => []TransportInv
BY InitTransportInv, NextTransportInv, PTL DEF TransportSpec

-----------------------------------------------------------------------------
(* A read is late by a round for each attempt that failed, and no more. *)

LEMMA RoundIsTime ==
  /\ Round \in Nat /\ MaxLate \in Nat /\ MaxAttempts \in Nat /\ MaxAttempts > 1
  /\ Round = 2 * MaxLate + Most(MaxWait, 2^(MaxAttempts - 2))
  /\ Most(MaxWait, 2^(MaxAttempts - 2)) \in Nat
<1>1. MaxAttempts - 2 \in 0..MaxAttempts /\ MaxWait \in Nat /\ MaxLate \in Nat
  BY TimesAssumption, BackoffAssumption
<1>2. 2^(MaxAttempts - 2) \in Nat
  BY <1>1, BackoffAssumption
<1>3. Most(MaxWait, 2^(MaxAttempts - 2)) \in Nat
  BY <1>1, <1>2 DEF Most
<1> QED
  BY <1>1, <1>3, TimesAssumption, BackoffAssumption DEF Round

\* No pause is longer than the longest wait or the last backoff.
LEMMA PausesAreShort ==
  ASSUME NEW c \in Read, NEW a \in Answers, NEW d \in Pauses(c, a),
         attempt[c] \in 0..(MaxAttempts - 1), attempt[c] + 1 < MaxAttempts
  PROVE  d \in Nat /\ d + 2 * MaxLate <= Round
<1>1. c \in Call /\ MaxAttempts \in Nat /\ MaxWait \in Nat \ {0}
  BY TimesAssumption DEF Call
<1>2. d \in Nat
  BY <1>1, PausesSuffice
<1>3. /\ MaxAttempts - 2 \in 0..MaxAttempts
      /\ attempt[c] \in 0..(MaxAttempts - 2)
  BY <1>1, BackoffAssumption
<1>4. 2^attempt[c] <= 2^(MaxAttempts - 2) /\ 2^attempt[c] \in Nat /\ 2^(MaxAttempts - 2) \in Nat
  BY <1>1, <1>3, BackoffAssumption
<1>5. d <= MaxWait \/ d = 2^attempt[c]
  <2>1. d = Backoff(c) \/ \E w \in 0..MaxWait : d = Most(w, 1)
    BY DEF Pauses
  <2> QED
    BY <2>1, <1>1 DEF Backoff, Most
<1>6. d <= Most(MaxWait, 2^(MaxAttempts - 2))
  BY <1>1, <1>2, <1>4, <1>5 DEF Most
<1> QED
  BY <1>2, <1>6, RoundIsTime

\* One more round.
LEMMA OneMoreRound ==
  ASSUME NEW n \in Nat
  PROVE  /\ n * Round \in Nat
         /\ (n + 1) * Round = n * Round + Round
BY RoundIsTime

LEMMA InitTimely == TransportInit => Timely
<1>1. \A c \in Read : c \in Call
  BY DEF Call
<1> QED
  BY <1>1 DEF TransportInit, Timely

LEMMA NextTimely ==
  ASSUME TransportInv, Timely, [TransportNext]_transport
  PROVE  Timely'
<1> SUFFICES ASSUME NEW c \in Read
             PROVE  /\ stage'[c] = "idle" => attempt'[c] = 0
                    /\ stage'[c] = "sleep" => since'[c] <= begun'[c] + attempt'[c] * Round
                    /\ stage'[c] = "flight" => since'[c] <= begun'[c] + attempt'[c] * Round + MaxLate
                    /\ stage'[c] \in {"sleep", "flight"} => clock' <= since'[c] + MaxLate
  <2>1. Round' = Round
    BY DEF Round
  <2> QED
    BY <2>1 DEF Timely
<1>0. /\ c \in Call /\ c \notin Mutation /\ clock \in Nat
      /\ stage \in [Call -> {"idle", "sleep", "flight", "done"}]
      /\ attempt \in [Call -> 0..(MaxAttempts - 1)] /\ attempt[c] \in Nat
      /\ since \in [Call -> Nat] /\ begun \in [Call -> Nat]
      /\ since[c] \in Nat /\ begun[c] \in Nat
  BY RoundIsTime, CallsAssumption DEF Call, TransportInv, TransportTypeOK
<1>1. /\ stage[c] = "idle" => attempt[c] = 0
      /\ stage[c] = "sleep" => since[c] <= begun[c] + attempt[c] * Round
      /\ stage[c] = "flight" => since[c] <= begun[c] + attempt[c] * Round + MaxLate
      /\ stage[c] \in {"sleep", "flight"} => clock <= since[c] + MaxLate
  BY DEF Timely
<1>2. CASE UNCHANGED <<stage, attempt, since, begun>> /\ clock' = clock
  BY <1>1, <1>2
<1>3. CASE Pass
  <2>1. stage[c] \in {"sleep", "flight"} => clock < since[c] + MaxLate
    BY <1>0, <1>3 DEF Pass
  <2> QED
    BY <1>0, <1>1, <1>3, <2>1, RoundIsTime DEF Pass
<1>4. ASSUME NEW b \in Call \ {c}, Begin(b) \/ Send(b) \/ \E a \in Answers : Answer(b, a)
      PROVE  /\ clock' = clock /\ stage'[c] = stage[c] /\ attempt'[c] = attempt[c]
             /\ since'[c] = since[c] /\ begun'[c] = begun[c]
  <2>1. CASE Begin(b)
    BY <2>1, <1>0 DEF Begin
  <2>2. CASE Send(b)
    BY <2>2, <1>0 DEF Send
  <2>3. CASE \E a \in Answers : Answer(b, a)
    BY <2>3, <1>0 DEF Answer
  <2> QED
    BY <1>4, <2>1, <2>2, <2>3
<1>5. CASE Begin(c)
  <2>1. /\ stage'[c] = "sleep" /\ since'[c] = clock /\ begun'[c] = clock /\ attempt'[c] = 0
        /\ clock' = clock
    BY <1>0, <1>1, <1>5 DEF Begin
  <2> QED
    BY <2>1, <1>0, RoundIsTime
<1>6. CASE Send(c)
  <2>1. /\ stage[c] = "sleep" /\ stage'[c] = "flight" /\ since'[c] = clock
        /\ begun'[c] = begun[c] /\ attempt'[c] = attempt[c] /\ clock' = clock
    BY <1>0, <1>6 DEF Send
  <2> DEFINE w == attempt[c] * Round
  <2>2. w \in Nat /\ since[c] <= begun[c] + w /\ clock <= since[c] + MaxLate
    BY <2>1, <1>0, <1>1, OneMoreRound
  <2>3. attempt'[c] * Round = w
    BY <2>1
  <2> HIDE DEF w
  <2> QED
    BY <2>1, <2>2, <2>3, <1>0, RoundIsTime
<1>7. ASSUME NEW a \in Answers, Answer(c, a)
      PROVE  /\ stage'[c] # "idle" /\ stage'[c] # "flight" /\ clock' = clock
             /\ stage'[c] = "sleep" =>
                  /\ since'[c] <= begun'[c] + attempt'[c] * Round
                  /\ clock <= since'[c] + MaxLate
  <2>1. CASE stage' = [stage EXCEPT ![c] = "done"]
    BY <1>0, <1>7, <2>1 DEF Answer
  <2>2. CASE stage' # [stage EXCEPT ![c] = "done"]
    <3>1. /\ attempt[c] + 1 < MaxAttempts
          /\ attempt' = [attempt EXCEPT ![c] = @ + 1] /\ begun' = begun /\ clock' = clock
          /\ stage[c] = "flight"
      BY <1>7, <2>2 DEF Answer, Attempts
    <3>2. PICK d \in Pauses(c, a) : /\ stage' = [stage EXCEPT ![c] = "sleep"]
                                    /\ since' = [since EXCEPT ![c] = clock + d]
      BY <1>7, <2>2 DEF Answer
    <3>3. attempt[c] \in 0..(MaxAttempts - 1)
      BY <1>0
    <3>4. d \in Nat /\ d + 2 * MaxLate <= Round
      BY <3>1, <3>3, PausesAreShort
    <3>5. /\ stage'[c] = "sleep" /\ since'[c] = clock + d /\ begun'[c] = begun[c]
          /\ attempt'[c] = attempt[c] + 1
      BY <1>0, <3>1, <3>2
    <3> DEFINE w == attempt[c] * Round
    <3>6. /\ w \in Nat /\ (attempt[c] + 1) * Round = w + Round
          /\ since[c] <= begun[c] + w + MaxLate /\ clock <= since[c] + MaxLate
      BY <1>0, <1>1, <3>1, OneMoreRound
    <3>7. attempt'[c] * Round = w + Round
      BY <3>5, <3>6
    <3> HIDE DEF w
    <3> QED
      BY <1>0, <3>1, <3>4, <3>5, <3>6, <3>7, RoundIsTime
  <2> QED
    BY <2>1, <2>2
<1>8. CASE UNCHANGED transport
  BY <1>2, <1>8 DEF transport
<1>9. CASE TransportNext
  <2>1. PICK b \in Call : Begin(b) \/ Send(b) \/ (\E a \in Answers : Answer(b, a)) \/ Pass
    BY <1>0, <1>9 DEF TransportNext
  <2> QED
    BY <1>0, <1>1, <1>3, <1>4, <1>5, <1>6, <1>7, <2>1
<1> QED
  BY <1>8, <1>9

-----------------------------------------------------------------------------
(* Theorems *)

\* Every variable of the transport keeps its type.
THEOREM TransportIsTyped == TransportSpec => []TransportTypeOK
<1>1. TransportInv => TransportTypeOK
  BY DEF TransportInv
<1> QED
  BY <1>1, AlwaysTransportInv, PTL

\* Only a read is sent again, and never before the provider allows it: a DELETE
\* whose answer is lost goes out once, whatever the provider says and when.
THEOREM OnlyReadsAreSentAgain == TransportSpec => SentAgainAsAllowed
<1>1. TransportInv /\ [TransportNext]_transport =>
        [\A c \in Call : sent[c] > 0 /\ sent'[c] > sent[c] => c \in Read /\ clock >= open[c]]_transport
  <2> SUFFICES ASSUME TransportInv, TransportNext, NEW c \in Call, sent[c] > 0, sent'[c] > sent[c]
               PROVE  c \in Read /\ clock >= open[c]
    OBVIOUS
  <2>0. /\ sent \in [Call -> Nat] /\ since \in [Call -> Nat] /\ open \in [Call -> Nat]
        /\ clock \in Nat
    BY DEF TransportInv, TransportTypeOK
  <2>1. Send(c)
    <3>1. sent' # sent
      BY <2>0
    <3>2. PICK d \in Call : Send(d)
      BY <3>1 DEF TransportNext, Pass, Begin, Answer
    <3>3. d = c
      BY <2>0, <3>2 DEF Send
    <3> QED
      BY <3>2, <3>3
  <2>2. stage[c] = "sleep" /\ since[c] <= clock
    BY <2>0, <2>1 DEF Send
  <2>3. c \in Read /\ since[c] >= open[c]
    BY <2>2 DEF TransportInv, Calls
  <2> QED
    BY <2>0, <2>2, <2>3
<1> QED
  BY <1>1, AlwaysTransportInv, PTL DEF TransportSpec, SentAgainAsAllowed

\* However many callers share the client and however late they wake, their mutations
\* go out at the pace of the slots.
THEOREM AllMutationsArePaced == TransportSpec => []MutationsArePaced
<1>1. TransportInv => MutationsArePaced
  <2> SUFFICES ASSUME TransportInv, first # Nothing
               PROVE  Pacing * Cardinality({m \in Mutation : sent[m] > 0})
                        <= Pacing + Most(clock, first) - first
    BY DEF MutationsArePaced
  <2>1. clock \in Nat /\ first \in Nat
    BY DEF TransportInv, TransportTypeOK
  <2> DEFINE Out == {m \in Mutation : sent[m] > 0}
  <2>2. Out \in SUBSET Due(clock) /\ Due(clock) \in SUBSET Mutation
    BY DEF Due
  <2> HIDE DEF Out
  <2>3. Pacing * Cardinality(Out) <= Pacing * Cardinality(Due(clock))
    BY <2>2, SmallerIsPaced
  <2>4. Cardinality(Out) \in Nat /\ Cardinality(Due(clock)) \in Nat
    BY <2>2, Finite
  <2>5. Pacing * Cardinality(Out) \in Nat /\ Pacing * Cardinality(Due(clock)) \in Nat
    BY <2>4, Times
  <2>6. Pacing * Cardinality(Due(clock)) <= Pacing + Most(clock, first) - first
    BY <2>1 DEF TransportInv, Paced
  <2>7. Most(clock, first) \in Nat
    BY <2>1 DEF Most
  <2> QED
    BY <2>1, <2>3, <2>5, <2>6, <2>7, Times DEF Out
<1> QED
  BY <1>1, AlwaysTransportInv, PTL

\* A read returns before a time that depends on nothing but the program's constants
\* and on how late tasks wake and answers come: whatever wait a provider asks for.
THEOREM ReadsReturnInTime == TransportSpec => []ReturnsInTime
<1>1. TransportInv /\ Timely => ReturnsInTime
  <2> SUFFICES ASSUME TransportInv, Timely, NEW c \in Read, stage[c] \in {"sleep", "flight"}
               PROVE  clock <= begun[c] + MaxAttempts * 2 * MaxLate
                                 + (MaxAttempts - 1) * Most(MaxWait, 2^(MaxAttempts - 2))
    BY DEF ReturnsInTime
  <2> DEFINE P == Most(MaxWait, 2^(MaxAttempts - 2))
  <2>1. /\ clock \in Nat /\ begun[c] \in Nat /\ since[c] \in Nat
        /\ attempt[c] \in 0..(MaxAttempts - 1)
    BY DEF TransportInv, TransportTypeOK, Call
  <2> DEFINE w == attempt[c] * Round
  <2>0. w \in Nat
    BY <2>1, OneMoreRound
  <2>2. clock <= begun[c] + w + 2 * MaxLate
    <3>1. /\ stage[c] = "sleep" => since[c] <= begun[c] + w
          /\ stage[c] = "flight" => since[c] <= begun[c] + w + MaxLate
          /\ clock <= since[c] + MaxLate
      BY DEF Timely
    <3> HIDE DEF w
    <3>2. since[c] <= begun[c] + w + MaxLate
      BY <3>1, <2>0, <2>1, RoundIsTime
    <3> QED
      BY <3>1, <3>2, <2>0, <2>1, RoundIsTime
  <2>3. w <= (MaxAttempts - 1) * Round
    <3>1. \A m, n, k \in Nat : m <= n => m * k <= n * k
      OBVIOUS
    <3> QED
      BY <3>1, <2>1, RoundIsTime
  <2>4. Round = 2 * MaxLate + P /\ P \in Nat
    BY RoundIsTime
  <2> HIDE DEF P, w
  <2>5. (MaxAttempts - 1) * Round + 2 * MaxLate = MaxAttempts * 2 * MaxLate + (MaxAttempts - 1) * P
    BY <2>4, RoundIsTime
  <2>6. clock <= begun[c] + ((MaxAttempts - 1) * Round + 2 * MaxLate)
    <3>1. MaxAttempts - 1 \in Nat
      BY RoundIsTime
    <3>2. (MaxAttempts - 1) * Round \in Nat
      BY <3>1, OneMoreRound
    <3> QED
      BY <3>2, <2>0, <2>1, <2>2, <2>3, RoundIsTime
  <2>7. begun[c] + (MaxAttempts * 2 * MaxLate + (MaxAttempts - 1) * P)
          = begun[c] + MaxAttempts * 2 * MaxLate + (MaxAttempts - 1) * P
    BY <2>1, <2>4, RoundIsTime
  <2> QED
    BY <2>5, <2>6, <2>7 DEF P
<1>2. TransportInv /\ Timely /\ [TransportNext]_transport => Timely'
  BY NextTimely
<1> QED
  BY <1>1, <1>2, InitTimely, AlwaysTransportInv, PTL DEF TransportSpec
=============================================================================
