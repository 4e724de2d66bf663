----------------------------- MODULE DataInduction -----------------------------
(***************************************************************************)
(* Induction over numbers and over finite sets, and recursion, stated for  *)
(* sets instead of predicates: every instance is a first-order fact, which *)
(* is what proofs about loops and recursive definitions cite.  And what    *)
(* they give for the lists of Maps.                                        *)
(***************************************************************************)
EXTENDS Maps, Integers, FiniteSets, WellFoundedInduction, FiniteSetTheorems, TLAPS

\* Among numbers one is the least.
LEMMA LeastNatural ==
  ASSUME NEW T, T \subseteq Nat, T # {}
  PROVE  \E n \in T : \A m \in T : n <= m
<1>1. PICK n \in T : \A m \in T : ~ (<<m, n>> \in OpToRel(<, Nat))
  BY NatLessThanWellFounded, WFMin, Zenon
<1>2. \A m \in T : ~ (m < n)
  BY <1>1 DEF OpToRel
<1> QED BY <1>2

\* A set of numbers that holds 0 and with every number the next is all of them.
THEOREM Induction ==
  ASSUME NEW T, T \subseteq Nat, 0 \in T, \A n \in T : n + 1 \in T
  PROVE  T = Nat
<1> SUFFICES ASSUME Nat \ T # {} PROVE FALSE OBVIOUS
<1>1. PICK n \in Nat \ T : \A m \in Nat \ T : n <= m BY LeastNatural, Zenon
<1>2. n # 0 /\ n - 1 \in Nat BY <1>1
<1>3. n - 1 \in T BY <1>1, <1>2
<1> QED BY <1>1, <1>2, <1>3

\* What holds of the empty set, and still holds when an element is added, holds
\* of a finite set.
THEOREM FiniteInduction ==
  ASSUME NEW S, IsFiniteSet(S), NEW T, {} \in T,
         \A s \in SUBSET S, x \in S : s \in T /\ x \notin s => s \cup {x} \in T
  PROVE  S \in T
<1> DEFINE sizes == {n \in Nat : \E s \in SUBSET S : s \notin T /\ Cardinality(s) = n}
<1> SUFFICES ASSUME S \notin T PROVE FALSE OBVIOUS
<1>1. \A s \in SUBSET S : IsFiniteSet(s) /\ Cardinality(s) \in Nat BY FS_Subset, FS_CardinalityType
<1>2. sizes # {} BY <1>1
<1>3. PICK n \in sizes : \A m \in sizes : n <= m BY <1>2, LeastNatural
<1>4. PICK s \in SUBSET S : s \notin T /\ Cardinality(s) = n BY <1>3
<1>5. PICK x \in s : TRUE BY <1>4
<1>6. Cardinality(s \ {x}) = n - 1 /\ n - 1 \in Nat BY <1>1, <1>4, <1>5, FS_RemoveElement
<1>7. s \ {x} \in T BY <1>3, <1>6
<1>8. (s \ {x}) \cup {x} = s BY <1>5
<1> QED BY <1>4, <1>7, <1>8

-----------------------------------------------------------------------------
\* g is the first n steps of what begins with a.
Prefix(n, g, a, step, S) == /\ g \in [0 .. n -> S] /\ g[0] = a
                            /\ \A i \in 0 .. n - 1 : g[i + 1] = step[g[i]]

\* The first n steps can be taken ...
LEMMA PrefixExists ==
  ASSUME NEW S, NEW a \in S, NEW step \in [S -> S], NEW n \in Nat
  PROVE  \E g : Prefix(n, g, a, step, S)
<1> DEFINE T == {m \in Nat : \E g : Prefix(m, g, a, step, S)}
<1>1. 0 \in T
  <2>1. Prefix(0, [i \in 0 .. 0 |-> a], a, step, S) BY DEF Prefix
  <2> QED BY <2>1
<1>2. ASSUME NEW m \in T PROVE m + 1 \in T
  <2>1. PICK g : Prefix(m, g, a, step, S) BY <1>2
  <2> DEFINE h == [i \in 0 .. m + 1 |-> IF i = m + 1 THEN step[g[m]] ELSE g[i]]
  <2>2. m \in Nat BY <1>2
  <2>3. h \in [0 .. m + 1 -> S] /\ h[0] = a BY <2>1, <2>2 DEF Prefix
  <2>4. \A i \in 0 .. m : h[i + 1] = step[h[i]] BY <2>1, <2>2 DEF Prefix
  <2>5. Prefix(m + 1, h, a, step, S)
    <3>1. (m + 1) - 1 = m BY <2>2
    <3> HIDE DEF h
    <3> QED BY <2>3, <2>4, <3>1, Zenon DEF Prefix
  <2>6. \E f : Prefix(m + 1, f, a, step, S) BY <2>5
  <2> QED BY <2>2, <2>6
<1>3. T = Nat BY <1>1, <1>2, Induction
<1> QED BY <1>3

\* ... in one way.
LEMMA PrefixUnique ==
  ASSUME NEW S, NEW a \in S, NEW step \in [S -> S], NEW n \in Nat,
         NEW m \in Nat, n <= m, NEW g, NEW h, Prefix(n, g, a, step, S), Prefix(m, h, a, step, S)
  PROVE  g[n] = h[n]
<1> DEFINE T == {i \in Nat : i <= n => g[i] = h[i]}
<1>1. 0 \in T BY DEF Prefix
<1>2. ASSUME NEW i \in T PROVE i + 1 \in T
  <2>1. i \in Nat BY <1>2
  <2>2. SUFFICES ASSUME i + 1 <= n PROVE g[i + 1] = h[i + 1] BY <2>1
  <2>3. g[i] = h[i] BY <1>2, <2>1, <2>2
  <2>4. i \in 0 .. n - 1 /\ i \in 0 .. m - 1 BY <2>1, <2>2
  <2> QED BY <2>3, <2>4 DEF Prefix
<1>3. T = Nat BY <1>1, <1>2, Induction
<1> QED BY <1>3

Iterates(f, a, step, S) == /\ f \in [Nat -> S] /\ f[0] = a
                           /\ \A n \in Nat : f[n + 1] = step[f[n]]

\* A start and a step define a function of the natural numbers.
THEOREM Recursion ==
  ASSUME NEW S, NEW a \in S, NEW step \in [S -> S]
  PROVE  \E f : Iterates(f, a, step, S)
<1> DEFINE Upto(n, g) == Prefix(n, g, a, step, S)
           w == [n \in Nat |-> CHOOSE g : Upto(n, g)]
           f == [n \in Nat |-> w[n][n]]
<1>1. ASSUME NEW n \in Nat PROVE Upto(n, w[n])
  <2>1. \E g : Upto(n, g) BY PrefixExists
  <2>2. w[n] = CHOOSE g : Upto(n, g) OBVIOUS
  <2> HIDE DEF Upto, w
  <2> QED BY <2>1, <2>2, Zenon
<1> HIDE DEF w
<1>2. f \in [Nat -> S] /\ f[0] = a
  <2>1. ASSUME NEW n \in Nat PROVE f[n] \in S BY <1>1 DEF Prefix
  <2> QED BY <1>1, <2>1 DEF Prefix
<1>3. ASSUME NEW n \in Nat PROVE f[n + 1] = step[f[n]]
  <2>1. Upto(n, w[n]) /\ Upto(n + 1, w[n + 1]) BY <1>1
  <2>2. n + 1 \in Nat /\ n <= n + 1 OBVIOUS
  <2>3. w[n][n] = w[n + 1][n] BY <2>1, <2>2, PrefixUnique
  <2>4. w[n + 1][n + 1] = step[w[n + 1][n]]
    <3>1. n \in 0 .. (n + 1) - 1 OBVIOUS
    <3> QED BY <2>1, <3>1 DEF Prefix
  <2> QED BY <2>3, <2>4
<1>4. Iterates(f, a, step, S) BY <1>2, <1>3 DEF Iterates
<1> QED BY <1>4

-----------------------------------------------------------------------------
\* What a list holds.
Held(list) == {list[i] : i \in DOMAIN list}

\* Appending adds one.
LEMMA HeldAppend ==
  ASSUME NEW A, NEW list \in Seq(A), NEW y \in A, NEW x
  PROVE  x \in Held(Append(list, y)) <=> x \in Held(list) \/ x = y
<1>1. Len(list) \in Nat /\ DOMAIN list = 1 .. Len(list) OBVIOUS
<1>2. DOMAIN Append(list, y) = 1 .. Len(list) + 1 OBVIOUS
<1>3. Append(list, y)[Len(list) + 1] = y OBVIOUS
<1>4. \A i \in 1 .. Len(list) : Append(list, y)[i] = list[i] OBVIOUS
<1> QED BY <1>1, <1>2, <1>3, <1>4 DEF Held

AmongUpto(k, list, set) ==
  k = [n \in 0 .. Len(list) |->
         IF n = 0 THEN <<>>
         ELSE IF list[n] \in set THEN Append(k[n - 1], list[n]) ELSE k[n - 1]]

\* The recursion of Among has a solution.
LEMMA AmongExists ==
  ASSUME NEW A, NEW list \in Seq(A), NEW set
  PROVE  \E k : AmongUpto(k, list, set)
<1> DEFINE S == Nat \X Seq(A)
           next(s) == IF s[1] + 1 \in 1 .. Len(list) /\ list[s[1] + 1] \in set
                      THEN Append(s[2], list[s[1] + 1]) ELSE s[2]
           step == [s \in S |-> <<s[1] + 1, next(s)>>]
           a == <<0, <<>>>>
<1>1. a \in S
  <2>1. <<>> \in Seq(A) OBVIOUS
  <2> QED BY <2>1
<1>2. step \in [S -> S]
  <2>1. ASSUME NEW s \in S PROVE <<s[1] + 1, next(s)>> \in S
    <3>1. s[1] \in Nat /\ s[2] \in Seq(A) OBVIOUS
    <3>2. next(s) \in Seq(A) BY <3>1
    <3>3. s[1] + 1 \in Nat BY <3>1
    <3> HIDE DEF next
    <3> QED BY <3>2, <3>3
  <2> QED BY <2>1
<1>3. PICK f : Iterates(f, a, step, S)
  <2> HIDE DEF a, step, S
  <2> QED BY <1>1, <1>2, Recursion
<1>4. f \in [Nat -> S] /\ f[0] = a /\ \A n \in Nat : f[n + 1] = step[f[n]]
  BY <1>3 DEF Iterates
<1>5. \A n \in Nat : f[n][1] = n
  <2> DEFINE T == {n \in Nat : f[n][1] = n}
  <2>1. 0 \in T BY <1>4
  <2>2. ASSUME NEW n \in T PROVE n + 1 \in T
    <3>1. f[n] \in S /\ f[n + 1] = step[f[n]] /\ f[n][1] = n BY <1>4, <2>2
    <3>2. f[n + 1][1] = n + 1 BY <3>1
    <3> QED BY <3>2, <2>2
  <2>3. T = Nat BY <2>1, <2>2, Induction
  <2> QED BY <2>3
<1> DEFINE k == [n \in 0 .. Len(list) |-> f[n][2]]
<1>6. ASSUME NEW n \in 1 .. Len(list)
      PROVE  f[n][2] = IF list[n] \in set THEN Append(f[n - 1][2], list[n]) ELSE f[n - 1][2]
  <2>1. n - 1 \in Nat /\ (n - 1) + 1 = n BY <1>6
  <2>2. f[n - 1] \in S /\ f[n] = step[f[n - 1]] /\ f[n - 1][1] = n - 1 BY <1>4, <1>5, <2>1
  <2>3. f[n][2] = next(f[n - 1]) BY <2>2
  <2> QED BY <2>1, <2>2, <2>3
<1>7. f[0][2] = <<>> BY <1>4
<1>8. AmongUpto(k, list, set)
  <2>1. Len(list) \in Nat OBVIOUS
  <2>2. ASSUME NEW n \in 0 .. Len(list)
        PROVE  f[n][2] = IF n = 0 THEN <<>> ELSE IF list[n] \in set THEN Append(k[n - 1], list[n]) ELSE k[n - 1]
    <3>1. n # 0 => n - 1 \in 0 .. Len(list) /\ n \in 1 .. Len(list) BY <2>2, <2>1
    <3> QED BY <1>6, <1>7, <3>1
  <2> QED BY <2>2 DEF AmongUpto
<1> QED BY <1>8

\* The lists Among goes through.
AmongSteps(k, list, set, A) ==
  /\ AmongUpto(k, list, set) /\ Among(list, set) = k[Len(list)]
  /\ \A n \in 0 .. Len(list) :
       k[n] \in Seq(A) /\ \A x : x \in Held(k[n]) <=> x \in set /\ \E i \in 1 .. n : list[i] = x

\* Among takes its steps one by one.
LEMMA AmongTakesSteps ==
  ASSUME NEW A, NEW list \in Seq(A), NEW set
  PROVE  \E k : AmongSteps(k, list, set, A)
<1> DEFINE k == CHOOSE k : AmongUpto(k, list, set)
<1>1. AmongUpto(k, list, set) 
  <2>1. \E h : AmongUpto(h, list, set) BY AmongExists
  <2> HIDE DEF AmongUpto
  <2> QED BY <2>1, Zenon
<1>2. Among(list, set) = k[Len(list)] BY DEF Among, AmongUpto
<1> HIDE DEF k
<1> DEFINE Q(n) == k[n] \in Seq(A) /\ \A x : x \in Held(k[n]) <=> x \in set /\ \E i \in 1 .. n : list[i] = x
           T == {n \in Nat : n <= Len(list) => Q(n)}
<1>3. 0 \in T
  <2>1. k[0] = <<>> BY <1>1 DEF AmongUpto
  <2>2. k[0] \in Seq(A) /\ Held(k[0]) = {} BY <2>1 DEF Held
  <2> QED BY <2>2
<1>4. ASSUME NEW n \in T PROVE n + 1 \in T
  <2>1. SUFFICES ASSUME n + 1 <= Len(list) PROVE Q(n + 1) BY <1>4
  <2>2. n \in Nat /\ Q(n) /\ n + 1 \in 1 .. Len(list) BY <1>4, <2>1
  <2>3. k[n + 1] = IF list[n + 1] \in set THEN Append(k[n], list[n + 1]) ELSE k[n]
    <3>1. n + 1 \in 0 .. Len(list) /\ n + 1 # 0 /\ (n + 1) - 1 = n BY <2>2
    <3> QED BY <1>1, <3>1 DEF AmongUpto
  <2>4. list[n + 1] \in A BY <2>2
  <2>5. ASSUME NEW x PROVE (\E i \in 1 .. n + 1 : list[i] = x)
                           <=> (\E i \in 1 .. n : list[i] = x) \/ list[n + 1] = x
    BY <2>2
  <2>6. CASE list[n + 1] \in set
    <3>1. k[n + 1] = Append(k[n], list[n + 1]) /\ k[n + 1] \in Seq(A) BY <2>2, <2>3, <2>4, <2>6
    <3>2. \A x : x \in Held(k[n + 1]) <=> x \in Held(k[n]) \/ x = list[n + 1]
      BY <2>2, <2>4, <3>1, HeldAppend
    <3> QED BY <2>2, <2>5, <2>6, <3>1, <3>2
  <2>7. CASE list[n + 1] \notin set BY <2>2, <2>3, <2>5, <2>7
  <2> QED BY <2>6, <2>7
<1>5. T = Nat BY <1>3, <1>4, Induction
<1>6. ASSUME NEW n \in 0 .. Len(list) PROVE Q(n)
  <2>1. Len(list) \in Nat OBVIOUS
  <2>2. n \in Nat /\ n <= Len(list) BY <2>1
  <2>3. n \in T BY <1>5, <2>2
  <2> HIDE DEF Q
  <2> QED BY <2>2, <2>3
<1>7. AmongSteps(k, list, set, A) BY <1>1, <1>2, <1>6 DEF AmongSteps
<1> QED BY <1>7

\* Among keeps the elements that are in the set, and no others.
LEMMA AmongHolds ==
  ASSUME NEW A, NEW list \in Seq(A), NEW set
  PROVE  Among(list, set) \in Seq(A) /\ Held(Among(list, set)) = Held(list) \cap set
<1>1. PICK k : AmongSteps(k, list, set, A) BY AmongTakesSteps
<1>2. Len(list) \in 0 .. Len(list) OBVIOUS
<1>3. /\ Among(list, set) \in Seq(A)
      /\ \A x : x \in Held(Among(list, set)) <=> x \in set /\ \E i \in 1 .. Len(list) : list[i] = x
  BY <1>1, <1>2 DEF AmongSteps
<1>4. Held(list) = {x \in A : \E i \in 1 .. Len(list) : list[i] = x} BY DEF Held
<1> QED BY <1>3, <1>4

\* A list that holds nothing twice.
NoneTwice(list) == \A i, j \in DOMAIN list : list[i] = list[j] => i = j

\* It may be appended to.
LEMMA OnceAppend ==
  ASSUME NEW A, NEW list \in Seq(A), NoneTwice(list), NEW y \in A, y \notin Held(list)
  PROVE  NoneTwice(Append(list, y))
<1>1. Len(list) \in Nat /\ DOMAIN list = 1 .. Len(list) OBVIOUS
<1>2. DOMAIN Append(list, y) = 1 .. Len(list) + 1 OBVIOUS
<1>3. Append(list, y)[Len(list) + 1] = y OBVIOUS
<1>4. \A i \in 1 .. Len(list) : Append(list, y)[i] = list[i] OBVIOUS
<1>5. \A i \in 1 .. Len(list) : list[i] # y BY <1>1 DEF Held
<1> SUFFICES ASSUME NEW i \in 1 .. Len(list) + 1, NEW j \in 1 .. Len(list) + 1,
                    Append(list, y)[i] = Append(list, y)[j]
             PROVE  i = j
  BY <1>2 DEF NoneTwice
<1>6. i \in 1 .. Len(list) \/ i = Len(list) + 1 BY <1>1
<1>7. j \in 1 .. Len(list) \/ j = Len(list) + 1 BY <1>1
<1>8. \A m, n \in 1 .. Len(list) : list[m] = list[n] => m = n BY <1>1 DEF NoneTwice
<1> QED BY <1>3, <1>4, <1>5, <1>6, <1>7, <1>8

\* Nor does what is kept of such a list hold anything twice.
LEMMA AmongOnce ==
  ASSUME NEW A, NEW list \in Seq(A), NEW set, NoneTwice(list)
  PROVE  NoneTwice(Among(list, set))
<1>1. PICK k : AmongSteps(k, list, set, A) BY AmongTakesSteps
<1> DEFINE T == {n \in Nat : n <= Len(list) => NoneTwice(k[n])}
<1>2. 0 \in T
  <2>1. k[0] = <<>> BY <1>1 DEF AmongSteps, AmongUpto
  <2>2. NoneTwice(<<>>) BY DEF NoneTwice
  <2> QED BY <2>1, <2>2
<1>3. ASSUME NEW n \in T PROVE n + 1 \in T
  <2>1. SUFFICES ASSUME n + 1 <= Len(list) PROVE NoneTwice(k[n + 1]) BY <1>3
  <2>2. n \in Nat /\ n \in 0 .. Len(list) /\ n + 1 \in 1 .. Len(list) /\ NoneTwice(k[n]) BY <1>3, <2>1
  <2>3. k[n + 1] = IF list[n + 1] \in set THEN Append(k[n], list[n + 1]) ELSE k[n]
    <3>1. n + 1 \in 0 .. Len(list) /\ n + 1 # 0 /\ (n + 1) - 1 = n BY <2>2
    <3> QED BY <1>1, <3>1 DEF AmongSteps, AmongUpto
  <2>4. list[n + 1] \in A /\ k[n] \in Seq(A) BY <1>1, <2>2 DEF AmongSteps
  <2>5. list[n + 1] \notin Held(k[n])
    <3>1. \A i \in 1 .. n : i \in DOMAIN list /\ n + 1 \in DOMAIN list /\ i # n + 1 BY <2>2
    <3>2. \A i \in 1 .. n : list[i] # list[n + 1] BY <3>1 DEF NoneTwice
    <3> QED BY <1>1, <2>2, <3>2 DEF AmongSteps
  <2> QED BY <2>2, <2>3, <2>4, <2>5, OnceAppend
<1>4. T = Nat BY <1>2, <1>3, Induction
<1>5. Len(list) \in T /\ Len(list) <= Len(list)
  <2>1. Len(list) \in Nat OBVIOUS
  <2> QED BY <1>4, <2>1
<1>6. Among(list, set) = k[Len(list)] BY <1>1 DEF AmongSteps
<1> QED BY <1>5, <1>6

\* A list without repetition is as long as what it holds is large.
LEMMA CountOnce ==
  ASSUME NEW A, NEW list \in Seq(A), NoneTwice(list), NEW S, NEW name,
         name \in [Held(list) -> S],
         \A x, y \in Held(list) : name[x] = name[y] => x = y,
         \A z \in S : \E x \in Held(list) : name[x] = z
  PROVE  Cardinality(S) = Len(list)
<1>1. Len(list) \in Nat /\ DOMAIN list = 1 .. Len(list) OBVIOUS
<1> DEFINE f == [i \in 1 .. Len(list) |-> name[list[i]]]
<1>2. \A i \in 1 .. Len(list) : list[i] \in Held(list) BY <1>1 DEF Held
<1>3. f \in [1 .. Len(list) -> S] BY <1>2
<1>4. \A i, j \in 1 .. Len(list) : f[i] = f[j] => i = j BY <1>1, <1>2 DEF NoneTwice
<1>5. \A z \in S : \E i \in 1 .. Len(list) : f[i] = z
  <2> TAKE z \in S
  <2>1. PICK x \in Held(list) : name[x] = z OBVIOUS
  <2>2. PICK i \in 1 .. Len(list) : list[i] = x BY <1>1, <2>1 DEF Held
  <2> QED BY <2>1, <2>2
<1> HIDE DEF f
<1>6. f \in Bijection(1 .. Len(list), S)
  BY <1>3, <1>4, <1>5 DEF Bijection, Injection, Surjection, IsInjective
<1>7. ExistsBijection(1 .. Len(list), S) BY <1>6 DEF ExistsBijection
<1> QED BY <1>1, <1>7, FS_CountingElements

\* What a list holds behind a new head.
LEMMA HeldBehind ==
  ASSUME NEW A, NEW list \in Seq(A), NEW x \in A
  PROVE  /\ <<x>> \o list \in Seq(A) /\ Held(<<x>> \o list) = {x} \cup Held(list)
         /\ NoneTwice(list) /\ x \notin Held(list) => NoneTwice(<<x>> \o list)
<1> DEFINE longer == <<x>> \o list
<1>1. Len(list) \in Nat /\ DOMAIN list = 1 .. Len(list) OBVIOUS
<1>2. longer \in Seq(A) /\ DOMAIN longer = 1 .. Len(list) + 1 OBVIOUS
<1>3. longer[1] = x OBVIOUS
<1>4. \A i \in 1 .. Len(list) : i + 1 \in DOMAIN longer /\ longer[i + 1] = list[i] OBVIOUS
<1>5. \A i \in DOMAIN longer : i = 1 \/ (i - 1 \in 1 .. Len(list) /\ longer[i] = list[i - 1])
  <2> TAKE i \in DOMAIN longer
  <2>1. CASE i = 1 BY <2>1
  <2>2. CASE i # 1
    <3>1. i - 1 \in 1 .. Len(list) /\ (i - 1) + 1 = i BY <1>1, <1>2, <2>2
    <3> HIDE DEF longer
    <3>2. longer[(i - 1) + 1] = list[i - 1] BY <1>4, <3>1
    <3> QED BY <3>1, <3>2
  <2> QED BY <2>1, <2>2
<1> HIDE DEF longer
<1>6. Held(longer) = {x} \cup Held(list)
  <2>1. \A y \in Held(longer) : y = x \/ y \in Held(list) BY <1>1, <1>3, <1>5 DEF Held
  <2>2. x \in Held(longer)
    <3>1. 1 \in DOMAIN longer BY <1>1, <1>2
    <3> QED BY <1>3, <3>1 DEF Held
  <2>3. \A y \in Held(list) : y \in Held(longer) BY <1>1, <1>4 DEF Held
  <2> QED BY <2>1, <2>2, <2>3
<1>7. ASSUME NoneTwice(list), x \notin Held(list) PROVE NoneTwice(longer)
  <2>1. \A i \in 1 .. Len(list) : list[i] # x BY <1>1, <1>7 DEF Held
  <2>2. \A i, j \in 1 .. Len(list) : list[i] = list[j] => i = j BY <1>1, <1>7 DEF NoneTwice
  <2> SUFFICES ASSUME NEW i \in DOMAIN longer, NEW j \in DOMAIN longer, longer[i] = longer[j]
               PROVE  i = j
    BY DEF NoneTwice
  <2>3. i \in Nat /\ j \in Nat BY <1>1, <1>2
  <2>4. CASE i = 1 BY <1>3, <1>5, <2>1, <2>3, <2>4
  <2>5. CASE j = 1 BY <1>3, <1>5, <2>1, <2>3, <2>5
  <2>6. CASE i # 1 /\ j # 1
    <3>1. i - 1 = j - 1 BY <1>5, <2>2, <2>6
    <3> QED BY <2>3, <3>1
  <2> QED BY <2>4, <2>5, <2>6
<1> QED BY <1>2, <1>6, <1>7 DEF longer

\* What two lists hold, one behind the other.
LEMMA HeldTogether ==
  ASSUME NEW A, NEW s \in Seq(A), NEW t \in Seq(A)
  PROVE  /\ s \o t \in Seq(A) /\ Held(s \o t) = Held(s) \cup Held(t)
         /\ NoneTwice(s) /\ NoneTwice(t) /\ Held(s) \cap Held(t) = {} => NoneTwice(s \o t)
<1> DEFINE both == s \o t
<1>1. /\ Len(s) \in Nat /\ DOMAIN s = 1 .. Len(s)
      /\ Len(t) \in Nat /\ DOMAIN t = 1 .. Len(t)
  OBVIOUS
<1>2. both \in Seq(A) /\ DOMAIN both = 1 .. Len(s) + Len(t) OBVIOUS
<1>3. \A i \in 1 .. Len(s) : i \in DOMAIN both /\ both[i] = s[i] OBVIOUS
<1>4. \A i \in 1 .. Len(t) : i + Len(s) \in DOMAIN both /\ both[i + Len(s)] = t[i] OBVIOUS
<1> HIDE DEF both
<1>5. \A i \in DOMAIN both :
        \/ i \in 1 .. Len(s) /\ both[i] = s[i]
        \/ i - Len(s) \in 1 .. Len(t) /\ both[i] = t[i - Len(s)]
  <2> TAKE i \in DOMAIN both
  <2>1. CASE i <= Len(s)
    <3>1. i \in 1 .. Len(s) BY <1>1, <1>2, <2>1
    <3> QED BY <1>3, <3>1
  <2>2. CASE ~(i <= Len(s))
    <3>1. i - Len(s) \in 1 .. Len(t) /\ (i - Len(s)) + Len(s) = i BY <1>1, <1>2, <2>2
    <3>2. both[(i - Len(s)) + Len(s)] = t[i - Len(s)] BY <1>4, <3>1
    <3> QED BY <3>1, <3>2
  <2> QED BY <2>1, <2>2
<1>6. Held(both) = Held(s) \cup Held(t)
  <2>1. \A y \in Held(both) : y \in Held(s) \/ y \in Held(t) BY <1>1, <1>5 DEF Held
  <2>2. \A y \in Held(s) : y \in Held(both) BY <1>1, <1>3 DEF Held
  <2>3. \A y \in Held(t) : y \in Held(both) BY <1>1, <1>4 DEF Held
  <2> QED BY <2>1, <2>2, <2>3
<1>7. ASSUME NoneTwice(s), NoneTwice(t), Held(s) \cap Held(t) = {} PROVE NoneTwice(both)
  <2>1. \A i \in 1 .. Len(s), j \in 1 .. Len(t) : s[i] # t[j] BY <1>1, <1>7 DEF Held
  <2>2. \A i, j \in 1 .. Len(s) : s[i] = s[j] => i = j BY <1>1, <1>7 DEF NoneTwice
  <2>3. \A i, j \in 1 .. Len(t) : t[i] = t[j] => i = j BY <1>1, <1>7 DEF NoneTwice
  <2> SUFFICES ASSUME NEW i \in DOMAIN both, NEW j \in DOMAIN both, both[i] = both[j]
               PROVE  i = j
    BY DEF NoneTwice
  <2>4. i \in Int /\ j \in Int BY <1>1, <1>2
  <2>5. CASE i \in 1 .. Len(s) /\ both[i] = s[i]
    <3>1. CASE j \in 1 .. Len(s) /\ both[j] = s[j] BY <2>2, <2>5, <3>1
    <3>2. CASE j - Len(s) \in 1 .. Len(t) /\ both[j] = t[j - Len(s)] BY <2>1, <2>5, <3>2
    <3> QED BY <1>5, <3>1, <3>2
  <2>6. CASE i - Len(s) \in 1 .. Len(t) /\ both[i] = t[i - Len(s)]
    <3>1. CASE j \in 1 .. Len(s) /\ both[j] = s[j] BY <2>1, <2>6, <3>1
    <3>2. CASE j - Len(s) \in 1 .. Len(t) /\ both[j] = t[j - Len(s)]
      <4>1. i - Len(s) = j - Len(s) BY <2>3, <2>6, <3>2
      <4> QED BY <1>1, <2>4, <4>1
    <3> QED BY <1>5, <3>1, <3>2
  <2> QED BY <1>5, <2>5, <2>6
<1> QED BY <1>2, <1>6, <1>7 DEF both

\* What is kept of a list without repetitions is as long as there are elements.
LEMMA CountAmong ==
  ASSUME NEW A, NEW list \in Seq(A), NoneTwice(list), NEW set
  PROVE  /\ Len(Among(list, set)) = Cardinality(Held(list) \cap set)
         /\ IsFiniteSet(Held(list) \cap set)
<1> DEFINE kept == Among(list, set)
           S == Held(list) \cap set
           name == [x \in Held(kept) |-> x]
<1>1. kept \in Seq(A) /\ Held(kept) = S /\ NoneTwice(kept) BY AmongHolds, AmongOnce
<1> HIDE DEF kept, S
<1>2. name \in [Held(kept) -> S] /\ \A x, y \in Held(kept) : name[x] = name[y] => x = y BY <1>1
<1>3. \A z \in S : \E x \in Held(kept) : name[x] = z BY <1>1
<1> HIDE DEF name
<1>4. Cardinality(S) = Len(kept) BY <1>1, <1>2, <1>3, CountOnce
<1>5. IsFiniteSet(S)
  <2>1. Len(kept) \in Nat /\ DOMAIN kept = 1 .. Len(kept) BY <1>1
  <2>2. IsFiniteSet(1 .. Len(kept)) BY <2>1, FS_Interval
  <2>3. {kept[i] : i \in 1 .. Len(kept)} = S BY <1>1, <2>1 DEF Held
  <2>4. IsFiniteSet({kept[i] : i \in 1 .. Len(kept)})
    <3> DEFINE f == [i \in 1 .. Len(kept) |-> kept[i]]
               T == {kept[i] : i \in 1 .. Len(kept)}
    <3>1. f \in Surjection(1 .. Len(kept), T) BY DEF Surjection
    <3> HIDE DEF f, T
    <3>2. IsFiniteSet(T) BY <2>2, <3>1, FS_Surjection
    <3> QED BY <3>2 DEF T
  <2> QED BY <2>3, <2>4
<1> QED BY <1>4, <1>5 DEF kept, S

\* Of two lists that agree on what is wanted as many are kept.
LEMMA AmongAlike ==
  ASSUME NEW A, NEW B, NEW s \in Seq(A), NEW t \in Seq(B), Len(s) = Len(t), NEW S, NEW T,
         \A i \in 1 .. Len(s) : s[i] \in S <=> t[i] \in T
  PROVE  Len(Among(s, S)) = Len(Among(t, T))
<1>1. PICK k : AmongSteps(k, s, S, A) BY AmongTakesSteps
<1>2. PICK h : AmongSteps(h, t, T, B) BY AmongTakesSteps
<1> DEFINE U == {n \in Nat : n <= Len(s) => Len(k[n]) = Len(h[n])}
<1>3. 0 \in U
  <2>1. k[0] = <<>> /\ h[0] = <<>> BY <1>1, <1>2 DEF AmongSteps, AmongUpto
  <2> QED BY <2>1
<1>4. ASSUME NEW n \in U PROVE n + 1 \in U
  <2>1. SUFFICES ASSUME n + 1 <= Len(s) PROVE Len(k[n + 1]) = Len(h[n + 1]) BY <1>4
  <2>2. n \in Nat /\ n \in 0 .. Len(s) /\ n + 1 \in 1 .. Len(s) BY <1>4, <2>1
  <2>3. n + 1 \in 0 .. Len(s) /\ n + 1 # 0 /\ (n + 1) - 1 = n BY <2>2
  <2>4. k[n + 1] = IF s[n + 1] \in S THEN Append(k[n], s[n + 1]) ELSE k[n]
    <3>1. AmongUpto(k, s, S) BY <1>1 DEF AmongSteps
    <3>2. n + 1 \in 0 .. Len(s) BY <2>3
    <3> QED BY <2>3, <3>1, <3>2 DEF AmongUpto
  <2>5. h[n + 1] = IF t[n + 1] \in T THEN Append(h[n], t[n + 1]) ELSE h[n]
    <3>1. AmongUpto(h, t, T) BY <1>2 DEF AmongSteps
    <3>2. n + 1 \in 0 .. Len(t) BY <2>3
    <3> QED BY <2>3, <3>1, <3>2 DEF AmongUpto
  <2>6. k[n] \in Seq(A) /\ h[n] \in Seq(B) BY <1>1, <1>2, <2>2 DEF AmongSteps
  <2>7. Len(k[n]) = Len(h[n]) BY <1>4, <2>1, <2>2
  <2>8. CASE s[n + 1] \in S
    <3>1. k[n + 1] = Append(k[n], s[n + 1]) /\ h[n + 1] = Append(h[n], t[n + 1]) BY <2>2, <2>4, <2>5, <2>8
    <3>2. Len(Append(k[n], s[n + 1])) = Len(k[n]) + 1 BY <2>6
    <3>3. Len(Append(h[n], t[n + 1])) = Len(h[n]) + 1 BY <2>6
    <3> QED BY <2>7, <3>1, <3>2, <3>3
  <2>9. CASE s[n + 1] \notin S BY <2>2, <2>4, <2>5, <2>7, <2>9
  <2> QED BY <2>8, <2>9
<1>5. Len(s) \in Nat OBVIOUS
<1>6. Len(s) \in U
  <2>1. U \subseteq Nat OBVIOUS
  <2> HIDE DEF U
  <2>2. U = Nat BY <1>3, <1>4, <2>1, Induction
  <2> QED BY <1>5, <2>2
<1>7. Len(k[Len(s)]) = Len(h[Len(s)]) BY <1>5, <1>6
<1> QED BY <1>1, <1>2, <1>7 DEF AmongSteps

\* A finite set of more than one element.
LEMMA Several ==
  ASSUME NEW S, IsFiniteSet(S)
  PROVE  /\ Cardinality(S) \in Nat /\ (Cardinality(S) = 0 <=> S = {})
         /\ Cardinality(S) > 1 <=> \E e, f \in S : e # f
<1>1. Cardinality(S) \in Nat /\ (Cardinality(S) = 0 <=> S = {}) BY FS_CardinalityType, FS_EmptySet
<1>2. ASSUME NEW e \in S, NEW f \in S, e # f PROVE Cardinality(S) > 1
  <2>1. Cardinality(S) # 0 BY <1>1
  <2>2. Cardinality(S) # 1
    <3>1. ~\E x : S = {x} BY <1>2
    <3> QED BY <3>1, FS_Singleton
  <2> QED BY <1>1, <2>1, <2>2
<1>3. ASSUME ~\E e, f \in S : e # f PROVE ~(Cardinality(S) > 1)
  <2>1. CASE S = {} BY <1>1, <2>1
  <2>2. CASE S # {}
    <3>1. PICK e \in S : TRUE BY <2>2
    <3>2. S = {e} BY <1>3, <3>1
    <3>3. Cardinality(S) = 1 BY <3>2, FS_Singleton
    <3> QED BY <3>3
  <2> QED BY <2>1, <2>2
<1> QED BY <1>1, <1>2, <1>3

-----------------------------------------------------------------------------
\* A loop: what it has after each of its turns.
Loops(f, n, a, step) == f = [i \in 0 .. n |-> IF i = 0 THEN a ELSE step[i][f[i - 1]]]

\* A loop whose turns are defined runs.
LEMMA LoopRuns ==
  ASSUME NEW n \in Nat, NEW S, NEW a, a \in S[0], NEW step,
         \A i \in 1 .. n : \A s \in S[i - 1] : step[i][s] \in S[i]
  PROVE  \E f : Loops(f, n, a, step) /\ \A i \in 0 .. n : f[i] \in S[i]
<1> DEFINE Runs(m, f) == Loops(f, m, a, step) /\ \A i \in 0 .. m : f[i] \in S[i]
           T == {m \in Nat : m <= n => \E f : Runs(m, f)}
<1>1. 0 \in T
  <2> DEFINE f == [i \in 0 .. 0 |-> a]
  <2>1. Runs(0, f) BY DEF Loops
  <2> HIDE DEF f
  <2>2. \E g : Runs(0, g) BY <2>1
  <2> QED BY <2>2
<1>2. ASSUME NEW m \in T PROVE m + 1 \in T
  <2>1. m \in Nat /\ (m + 1) - 1 = m BY <1>2
  <2> SUFFICES ASSUME m + 1 <= n PROVE \E f : Runs(m + 1, f) BY <2>1
  <2>2. PICK f : Runs(m, f) BY <1>2, <2>1
  <2> DEFINE g == [i \in 0 .. m + 1 |-> IF i = m + 1 THEN step[m + 1][f[m]] ELSE f[i]]
  <2>3. \A i \in 0 .. m : g[i] = f[i] BY <2>1
  <2>4. g[m + 1] = step[m + 1][f[m]] /\ DOMAIN g = 0 .. m + 1 BY <2>1
  <2>5. step[m + 1][f[m]] \in S[m + 1]
    <3>1. m + 1 \in 1 .. n BY <2>1
    <3>2. f[m] \in S[(m + 1) - 1] BY <2>1, <2>2
    <3> QED BY <3>1, <3>2
  <2>6. \A i \in 0 .. m + 1 : g[i] \in S[i] BY <2>1, <2>2, <2>3, <2>4, <2>5
  <2>7. ASSUME NEW i \in 0 .. m + 1 PROVE g[i] = IF i = 0 THEN a ELSE step[i][g[i - 1]]
    <3>1. CASE i = m + 1 BY <2>1, <2>3, <2>4, <3>1
    <3>2. CASE i \in 0 .. m
      <4>1. f[i] = IF i = 0 THEN a ELSE step[i][f[i - 1]] BY <2>2, <3>2 DEF Loops
      <4>2. i # 0 => i - 1 \in 0 .. m BY <2>1, <3>2
      <4> QED BY <2>3, <3>2, <4>1, <4>2
    <3> QED BY <2>1, <3>1, <3>2
  <2>8. g = [i \in 0 .. m + 1 |-> g[i]] OBVIOUS
  <2> HIDE DEF g
  <2>9. Loops(g, m + 1, a, step) BY <2>7, <2>8 DEF Loops
  <2> QED BY <2>6, <2>9
<1>3. T = Nat BY <1>1, <1>2, Induction
<1>4. n \in T
  <2> HIDE DEF T
  <2> QED BY <1>3
<1>5. n <= n OBVIOUS
<1> QED BY <1>4, <1>5

\* What its turns keep holds after each.
LEMMA LoopKeeps ==
  ASSUME NEW n \in Nat, NEW S, NEW f, f[0] \in S[0],
         \A i \in 1 .. n : f[i - 1] \in S[i - 1] => f[i] \in S[i]
  PROVE  \A i \in 0 .. n : f[i] \in S[i]
<1> DEFINE T == {m \in Nat : m <= n => f[m] \in S[m]}
<1>1. 0 \in T OBVIOUS
<1>2. ASSUME NEW m \in T PROVE m + 1 \in T
  <2>1. m \in Nat /\ (m + 1) - 1 = m BY <1>2
  <2>2. m + 1 <= n => m + 1 \in 1 .. n /\ m <= n BY <2>1
  <2> QED BY <1>2, <2>1, <2>2
<1>3. T = Nat BY <1>1, <1>2, Induction
<1> QED BY <1>3

-----------------------------------------------------------------------------
\* Where the elements of two lists are, one behind the other.
LEMMA JoinedAt ==
  ASSUME NEW A, NEW s \in Seq(A), NEW t \in Seq(A)
  PROVE  /\ s \o t \in Seq(A) /\ Len(s \o t) = Len(s) + Len(t)
         /\ \A i \in 1 .. Len(s) : (s \o t)[i] = s[i]
         /\ \A i \in 1 .. Len(t) : (s \o t)[Len(s) + i] = t[i]
  OBVIOUS

\* What Chained goes through.
ChainedUpto(k, lists) ==
  k = [n \in 0 .. Len(lists) |-> IF n = 0 THEN <<>> ELSE k[n - 1] \o lists[n]]

\* Chained takes one list after the other.
LEMMA ChainedTakesSteps ==
  ASSUME NEW A, NEW lists \in Seq(Seq(A))
  PROVE  \E k : /\ k \in [0 .. Len(lists) -> Seq(A)] /\ k[0] = <<>> /\ Chained(lists) = k[Len(lists)]
                /\ \A i \in 1 .. Len(lists) : k[i] = k[i - 1] \o lists[i]
<1> DEFINE n == Len(lists)
           S == [i \in 0 .. n |-> Seq(A)]
           step == [i \in 1 .. n |-> [s \in Seq(A) |-> s \o lists[i]]]
           k == CHOOSE k : ChainedUpto(k, lists)
<1>1. n \in Nat /\ \A i \in 1 .. n : lists[i] \in Seq(A) OBVIOUS
<1>2. ChainedUpto(k, lists)
  <2>1. \A i \in 1 .. n : \A s \in Seq(A) : step[i][s] = s \o lists[i] /\ s \o lists[i] \in Seq(A)
    BY <1>1
  <2>2. \A i \in 0 .. n : S[i] = Seq(A) OBVIOUS
  <2>3. <<>> \in S[0] BY <1>1
  <2> HIDE DEF S, step
  <2>4. \A i \in 1 .. n : \A s \in S[i - 1] : step[i][s] \in S[i]
    <3>1. \A i \in 1 .. n : i \in 0 .. n /\ i - 1 \in 0 .. n BY <1>1
    <3>2. \A i \in 1 .. n : S[i - 1] = Seq(A) /\ S[i] = Seq(A) BY <2>2, <3>1
    <3> SUFFICES ASSUME NEW i \in 1 .. n, NEW s \in S[i - 1] PROVE step[i][s] \in S[i] OBVIOUS
    <3>3. s \in Seq(A) BY <3>2
    <3> QED BY <2>1, <3>2, <3>3
  <2>5. PICK g : Loops(g, n, <<>>, step) /\ \A i \in 0 .. n : g[i] \in S[i]
    BY <1>1, <2>3, <2>4, LoopRuns
  <2>6. \A i \in 0 .. n : i # 0 => i \in 1 .. n /\ i - 1 \in 0 .. n BY <1>1
  <2>7. \A i \in 0 .. n : i # 0 => step[i][g[i - 1]] = g[i - 1] \o lists[i]
    BY <2>1, <2>2, <2>5, <2>6
  <2>8. g = [i \in 0 .. n |-> IF i = 0 THEN <<>> ELSE g[i - 1] \o lists[i]]
    BY <2>5, <2>7 DEF Loops
  <2>9. ChainedUpto(g, lists) BY <2>8 DEF ChainedUpto
  <2> QED BY <2>9, Zenon
<1>3. Chained(lists) = k[n] BY DEF Chained, ChainedUpto
<1> HIDE DEF k
<1>4. k[0] = <<>> /\ DOMAIN k = 0 .. n /\ \A i \in 1 .. n : k[i] = k[i - 1] \o lists[i]
  <2>1. 0 \in 0 .. n /\ \A i \in 1 .. n : i \in 0 .. n /\ i # 0 BY <1>1
  <2>2. DOMAIN k = 0 .. n BY <1>2 DEF ChainedUpto
  <2>3. \A i \in 0 .. n : k[i] = IF i = 0 THEN <<>> ELSE k[i - 1] \o lists[i]
    BY <1>2, Zenon DEF ChainedUpto
  <2> QED BY <2>1, <2>2, <2>3
<1>5. \A i \in 0 .. n : k[i] \in S[i]
  <2>1. \A i \in 0 .. n : S[i] = Seq(A) OBVIOUS
  <2>2. k[0] \in S[0] BY <1>1, <1>4, <2>1
  <2> HIDE DEF S
  <2>3. ASSUME NEW i \in 1 .. n, k[i - 1] \in S[i - 1] PROVE k[i] \in S[i]
    <3>1. i \in 0 .. n /\ i - 1 \in 0 .. n BY <1>1
    <3>2. k[i - 1] \in Seq(A) BY <2>1, <2>3, <3>1
    <3>3. k[i] = k[i - 1] \o lists[i] /\ lists[i] \in Seq(A) BY <1>1, <1>4
    <3>4. k[i] \in Seq(A) BY <3>2, <3>3
    <3> QED BY <2>1, <3>1, <3>4
  <2> QED BY <1>1, <2>2, <2>3, LoopKeeps
<1>6. k \in [0 .. n -> Seq(A)]
  <2>1. \A i \in 0 .. n : k[i] \in Seq(A) BY <1>5
  <2>2. k = [i \in 0 .. n |-> k[i]] BY <1>2 DEF ChainedUpto
  <2> QED BY <2>1, <2>2
<1> QED BY <1>3, <1>4, <1>6

\* What is in one of the lists is in the chain, and nothing else.
LEMMA ChainedHolds ==
  ASSUME NEW A, NEW lists \in Seq(Seq(A))
  PROVE  /\ Chained(lists) \in Seq(A)
         /\ \A x : x \in Held(Chained(lists)) <=> \E i \in 1 .. Len(lists) : x \in Held(lists[i])
<1> DEFINE n == Len(lists)
<1>1. PICK k : /\ k \in [0 .. n -> Seq(A)] /\ k[0] = <<>> /\ Chained(lists) = k[n]
               /\ \A i \in 1 .. n : k[i] = k[i - 1] \o lists[i]
  BY ChainedTakesSteps
<1>2. n \in Nat /\ \A i \in 1 .. n : lists[i] \in Seq(A) OBVIOUS
<1> DEFINE Q(m) == \A x : x \in Held(k[m]) <=> \E i \in 1 .. m : x \in Held(lists[i])
           T == {m \in Nat : m <= n => Q(m)}
<1>3. 0 \in T
  <2>1. Held(k[0]) = {} BY <1>1 DEF Held
  <2> QED BY <2>1
<1>4. ASSUME NEW m \in T PROVE m + 1 \in T
  <2>1. SUFFICES ASSUME m + 1 <= n PROVE Q(m + 1) BY <1>4
  <2>2. m \in Nat /\ Q(m) /\ m + 1 \in 1 .. n /\ (m + 1) - 1 = m /\ m \in 0 .. n BY <1>2, <1>4, <2>1
  <2>3. k[m + 1] = k[m] \o lists[m + 1] /\ k[m] \in Seq(A) /\ lists[m + 1] \in Seq(A)
    BY <1>1, <1>2, <2>2
  <2>4. Held(k[m + 1]) = Held(k[m]) \cup Held(lists[m + 1]) BY <2>3, HeldTogether
  <2>5. ASSUME NEW x PROVE (\E i \in 1 .. m + 1 : x \in Held(lists[i]))
                           <=> (\E i \in 1 .. m : x \in Held(lists[i])) \/ x \in Held(lists[m + 1])
    <3> HIDE DEF Held
    <3>1. \A i : i \in 1 .. m + 1 <=> i \in 1 .. m \/ i = m + 1 BY <2>2
    <3> QED BY <3>1
  <2>6. \A x : x \in Held(k[m]) <=> \E i \in 1 .. m : x \in Held(lists[i]) BY <2>2
  <2> QED BY <2>4, <2>5, <2>6
<1>5. T = Nat BY <1>3, <1>4, Induction
<1>6. Q(n)
  <2> HIDE DEF Q
  <2>1. n <= n /\ n \in T
    <3> HIDE DEF T
    <3> QED BY <1>2, <1>5
  <2> QED BY <2>1
<1>7. k[n] \in Seq(A) BY <1>1, <1>2
<1> QED BY <1>1, <1>6, <1>7

\* Lists of one element each make a list of these elements.
LEMMA ChainedSingles ==
  ASSUME NEW A, NEW lists \in Seq(Seq(A)), \A i \in 1 .. Len(lists) : Len(lists[i]) = 1
  PROVE  /\ Chained(lists) \in Seq(A) /\ Len(Chained(lists)) = Len(lists)
         /\ \A i \in 1 .. Len(lists) : Chained(lists)[i] = lists[i][1]
<1> DEFINE n == Len(lists)
<1>1. PICK k : /\ k \in [0 .. n -> Seq(A)] /\ k[0] = <<>> /\ Chained(lists) = k[n]
               /\ \A i \in 1 .. n : k[i] = k[i - 1] \o lists[i]
  BY ChainedTakesSteps
<1>2. n \in Nat /\ \A i \in 1 .. n : lists[i] \in Seq(A) OBVIOUS
<1> DEFINE Q(m) == Len(k[m]) = m /\ \A i \in 1 .. m : k[m][i] = lists[i][1]
           T == {m \in Nat : m <= n => Q(m)}
<1>3. 0 \in T BY <1>1
<1>4. ASSUME NEW m \in T PROVE m + 1 \in T
  <2>1. SUFFICES ASSUME m + 1 <= n PROVE Q(m + 1) BY <1>4
  <2>2. m \in Nat /\ Q(m) /\ m + 1 \in 1 .. n /\ (m + 1) - 1 = m /\ m \in 0 .. n BY <1>2, <1>4, <2>1
  <2>3. /\ k[m + 1] = k[m] \o lists[m + 1] /\ k[m] \in Seq(A) /\ lists[m + 1] \in Seq(A)
        /\ Len(lists[m + 1]) = 1
    BY <1>1, <1>2, <2>2
  <2>4. /\ Len(k[m + 1]) = Len(k[m]) + Len(lists[m + 1])
        /\ \A i \in 1 .. Len(k[m]) : k[m + 1][i] = k[m][i]
        /\ \A i \in 1 .. Len(lists[m + 1]) : k[m + 1][Len(k[m]) + i] = lists[m + 1][i]
    <3> DEFINE s == k[m]
               t == lists[m + 1]
    <3>1. s \in Seq(A) /\ t \in Seq(A) BY <2>3
    <3> HIDE DEF s, t
    <3>2. /\ Len(s \o t) = Len(s) + Len(t)
          /\ \A i \in 1 .. Len(s) : (s \o t)[i] = s[i]
          /\ \A i \in 1 .. Len(t) : (s \o t)[Len(s) + i] = t[i]
      BY <3>1, JoinedAt
    <3>3. k[m + 1] = s \o t BY <2>3 DEF s, t
    <3>4. k[m] = s /\ lists[m + 1] = t BY DEF s, t
    <3> QED BY <3>2, <3>3, <3>4
  <2>5. 1 \in 1 .. Len(lists[m + 1]) /\ Len(k[m]) = m BY <2>2, <2>3
  <2>6. Len(k[m + 1]) = m + 1 /\ k[m + 1][m + 1] = lists[m + 1][1] BY <2>3, <2>4, <2>5
  <2>8. \A i \in 1 .. m : k[m + 1][i] = lists[i][1] BY <2>2, <2>4, <2>5
  <2>7. \A i \in 1 .. m + 1 : i \in 1 .. m \/ i = m + 1 BY <2>2
  <2> QED BY <2>2, <2>6, <2>7, <2>8
<1>5. T = Nat BY <1>3, <1>4, Induction
<1>6. Q(n)
  <2> HIDE DEF Q
  <2>1. n <= n /\ n \in T
    <3> HIDE DEF T
    <3> QED BY <1>2, <1>5
  <2> QED BY <2>1
<1>7. k[n] \in Seq(A) BY <1>1, <1>2
<1> QED BY <1>1, <1>6, <1>7

\* A list whose elements are all wanted is kept as it is.
LEMMA AmongAll ==
  ASSUME NEW A, NEW list \in Seq(A), NEW set, \A i \in 1 .. Len(list) : list[i] \in set
  PROVE  Among(list, set) = list
<1> DEFINE n == Len(list)
<1>1. PICK k : AmongSteps(k, list, set, A) BY AmongTakesSteps
<1>2. n \in Nat OBVIOUS
<1>3. k[0] = <<>> /\ \A i \in 1 .. n : k[i] = Append(k[i - 1], list[i])
  <2>1. 0 \in 0 .. n /\ \A i \in 1 .. n : i \in 0 .. n /\ i # 0 BY <1>2
  <2>2. AmongUpto(k, list, set) BY <1>1 DEF AmongSteps
  <2>3. \A i \in 0 .. n : k[i] = IF i = 0 THEN <<>>
           ELSE IF list[i] \in set THEN Append(k[i - 1], list[i]) ELSE k[i - 1]
    BY <2>2, Zenon DEF AmongUpto
  <2> QED BY <2>1, <2>3
<1>4. \A i \in 0 .. n : k[i] \in Seq(A) BY <1>1 DEF AmongSteps
<1> DEFINE Q(m) == Len(k[m]) = m /\ \A i \in 1 .. m : k[m][i] = list[i]
           T == {m \in Nat : m <= n => Q(m)}
<1>5. 0 \in T BY <1>3
<1>6. ASSUME NEW m \in T PROVE m + 1 \in T
  <2>1. SUFFICES ASSUME m + 1 <= n PROVE Q(m + 1) BY <1>6
  <2>2. m \in Nat /\ Q(m) /\ m + 1 \in 1 .. n /\ (m + 1) - 1 = m /\ m \in 0 .. n BY <1>2, <1>6, <2>1
  <2>3. k[m + 1] = Append(k[m], list[m + 1]) /\ k[m] \in Seq(A) /\ list[m + 1] \in A
    BY <1>3, <1>4, <2>2
  <2>4. Len(k[m + 1]) = m + 1 /\ k[m + 1][m + 1] = list[m + 1] BY <2>2, <2>3
  <2>5. \A i \in 1 .. m : k[m + 1][i] = list[i] BY <2>2, <2>3
  <2>6. \A i \in 1 .. m + 1 : i \in 1 .. m \/ i = m + 1 BY <2>2
  <2> QED BY <2>4, <2>5, <2>6
<1>7. T = Nat BY <1>5, <1>6, Induction
<1>8. Q(n)
  <2>1. n <= n /\ n \in T BY <1>2, <1>7
  <2> HIDE DEF Q
  <2> QED BY <2>1
<1>9. Among(list, set) = k[n] /\ k[n] \in Seq(A) BY <1>1, <1>2, <1>4 DEF AmongSteps
<1>10. \A i \in 1 .. n : k[n][i] = list[i] BY <1>8
<1>11. Len(k[n]) = n BY <1>8
<1> HIDE DEF Q, T
<1> QED BY <1>9, <1>10, <1>11

\* A set of numbers is put in order.
LEMMA AscendingHolds ==
  ASSUME NEW set, set \subseteq Nat, IsFiniteSet(set)
  PROVE  Ascending(set) \in Seq(Nat) /\ Held(Ascending(set)) = set
<1> DEFINE T == {s \in SUBSET set : s # {} => \E x \in s : \A y \in s : y <= x}
<1>1. set \in T
  <2>1. {} \in T OBVIOUS
  <2>2. ASSUME NEW s \in SUBSET set, NEW x \in set, s \in T, x \notin s PROVE s \cup {x} \in T
    <3>1. x \in Nat /\ s \subseteq Nat OBVIOUS
    <3>2. CASE s = {} BY <3>1, <3>2
    <3>3. CASE s # {}
      <4>1. PICK z \in s : \A y \in s : y <= z BY <2>2, <3>3
      <4>2. CASE x <= z
        <5>1. \A y \in s \cup {x} : y <= z BY <4>1, <4>2
        <5> QED BY <5>1
      <4>3. CASE z <= x
        <5>1. \A y \in s \cup {x} : y <= x BY <3>1, <4>1, <4>3
        <5> QED BY <5>1
      <4> QED BY <3>1, <4>2, <4>3
    <3> QED BY <3>2, <3>3
  <2> HIDE DEF T
  <2> QED BY <2>1, <2>2, FiniteInduction
<1>2. CASE set = {}
  <2>1. Ascending(set) = <<>> BY <1>2 DEF Ascending
  <2>2. <<>> \in Seq(Nat) /\ Held(<<>>) = {} BY DEF Held
  <2> QED BY <1>2, <2>1, <2>2
<1>3. CASE set # {}
  <2> DEFINE z == CHOOSE x \in set : \A y \in set : y <= x
             list == [i \in 1 .. z + 1 |-> i - 1]
  <2>1. z \in Nat /\ \A y \in set : y <= z BY <1>1, <1>3
  <2>2. Ascending(set) = Among(list, set) BY <1>3 DEF Ascending
  <2> HIDE DEF z
  <2>3. list \in Seq(Nat) /\ Len(list) = z + 1 BY <2>1
  <2>4. ASSUME NEW y \in set PROVE y \in Held(list)
    <3>1. y \in Nat /\ y + 1 \in 1 .. z + 1 /\ list[y + 1] = y BY <2>1
    <3> QED BY <2>3, <3>1 DEF Held
  <2> HIDE DEF list
  <2>5. Held(Among(list, set)) = Held(list) \cap set /\ Among(list, set) \in Seq(Nat)
    BY <2>3, AmongHolds
  <2> QED BY <2>2, <2>4, <2>5
<1> QED BY <1>2, <1>3

-----------------------------------------------------------------------------
\* What SumOf goes through.
SumUpto(k, list) ==
  k = [n \in 0 .. Len(list) |-> IF n = 0 THEN 0 ELSE k[n - 1] + list[n]]

\* A sum takes one number after the other.
LEMMA SumTakesSteps ==
  ASSUME NEW list \in Seq(Int)
  PROVE  \E k : /\ k \in [0 .. Len(list) -> Int] /\ k[0] = 0 /\ SumOf(list) = k[Len(list)]
                /\ \A i \in 1 .. Len(list) : k[i] = k[i - 1] + list[i]
<1> DEFINE n == Len(list)
           S == [i \in 0 .. n |-> Int]
           step == [i \in 1 .. n |-> [s \in Int |-> s + list[i]]]
           k == CHOOSE k : SumUpto(k, list)
<1>1. n \in Nat /\ \A i \in 1 .. n : list[i] \in Int OBVIOUS
<1>2. SumUpto(k, list)
  <2>1. \A i \in 1 .. n : \A s \in Int : step[i][s] = s + list[i] /\ s + list[i] \in Int
    BY <1>1
  <2>2. \A i \in 0 .. n : S[i] = Int OBVIOUS
  <2>3. 0 \in S[0] BY <1>1
  <2> HIDE DEF S, step
  <2>4. \A i \in 1 .. n : \A s \in S[i - 1] : step[i][s] \in S[i]
    <3>1. \A i \in 1 .. n : i \in 0 .. n /\ i - 1 \in 0 .. n BY <1>1
    <3>2. \A i \in 1 .. n : S[i - 1] = Int /\ S[i] = Int BY <2>2, <3>1
    <3> SUFFICES ASSUME NEW i \in 1 .. n, NEW s \in S[i - 1] PROVE step[i][s] \in S[i] OBVIOUS
    <3>3. s \in Int BY <3>2
    <3>4. step[i][s] = s + list[i] /\ s + list[i] \in Int BY <2>1, <3>3, Zenon
    <3>5. step[i][s] \in Int BY <3>4, Zenon
    <3> QED BY <3>2, <3>5, Zenon
  <2>5. PICK g : Loops(g, n, 0, step) /\ \A i \in 0 .. n : g[i] \in S[i]
    BY <1>1, <2>3, <2>4, LoopRuns
  <2>6. \A i \in 0 .. n : i # 0 => i \in 1 .. n /\ i - 1 \in 0 .. n BY <1>1
  <2>7. \A i \in 0 .. n : i # 0 => step[i][g[i - 1]] = g[i - 1] + list[i]
    BY <2>1, <2>2, <2>5, <2>6
  <2>8. g = [i \in 0 .. n |-> IF i = 0 THEN 0 ELSE g[i - 1] + list[i]]
    BY <2>5, <2>7 DEF Loops
  <2>9. SumUpto(g, list) BY <2>8 DEF SumUpto
  <2> QED BY <2>9, Zenon
<1>3. SumOf(list) = k[n] BY DEF SumOf, SumUpto
<1> HIDE DEF k
<1>4. k[0] = 0 /\ \A i \in 1 .. n : k[i] = k[i - 1] + list[i]
  <2>1. 0 \in 0 .. n /\ \A i \in 1 .. n : i \in 0 .. n /\ i # 0 BY <1>1
  <2>3. \A i \in 0 .. n : k[i] = IF i = 0 THEN 0 ELSE k[i - 1] + list[i]
    BY <1>2, Zenon DEF SumUpto
  <2> QED BY <2>1, <2>3
<1>5. \A i \in 0 .. n : k[i] \in S[i]
  <2>1. \A i \in 0 .. n : S[i] = Int OBVIOUS
  <2>2. k[0] \in S[0] BY <1>1, <1>4, <2>1
  <2> HIDE DEF S
  <2>3. ASSUME NEW i \in 1 .. n, k[i - 1] \in S[i - 1] PROVE k[i] \in S[i]
    <3>1. i \in 0 .. n /\ i - 1 \in 0 .. n BY <1>1
    <3>2. k[i - 1] \in Int BY <2>1, <2>3, <3>1
    <3>3. k[i] \in Int BY <1>1, <1>4, <3>2
    <3> QED BY <2>1, <3>1, <3>3
  <2> QED BY <1>1, <2>2, <2>3, LoopKeeps
<1>6. k \in [0 .. n -> Int]
  <2>1. \A i \in 0 .. n : k[i] \in Int BY <1>5
  <2>2. k = [i \in 0 .. n |-> k[i]] BY <1>2 DEF SumUpto
  <2> QED BY <2>1, <2>2
<1> QED BY <1>3, <1>4, <1>6

\* The sum of nothing, and of one number.
LEMMA SumOfFew ==
  /\ SumOf(<<>>) = 0
  /\ \A s \in Seq(Int) : SumOf(s) \in Int /\ (Len(s) = 0 => SumOf(s) = 0)
<1>1. ASSUME NEW s \in Seq(Int) PROVE SumOf(s) \in Int /\ (Len(s) = 0 => SumOf(s) = 0)
  <2>1. PICK k : k \in [0 .. Len(s) -> Int] /\ k[0] = 0 /\ SumOf(s) = k[Len(s)]
    BY SumTakesSteps
  <2>2. Len(s) \in 0 .. Len(s) OBVIOUS
  <2> QED BY <2>1, <2>2
<1>2. <<>> \in Seq(Int) /\ Len(<<>>) = 0 OBVIOUS
<1> QED BY <1>1, <1>2

\* The sum of sums taken side by side.
LEMMA SumOfSums ==
  ASSUME NEW r \in Seq(Int), NEW s \in Seq(Int), NEW t \in Seq(Int),
         Len(s) = Len(r), Len(t) = Len(r), \A i \in 1 .. Len(r) : r[i] = s[i] + t[i]
  PROVE  SumOf(r) = SumOf(s) + SumOf(t)
<1> DEFINE n == Len(r)
<1>1. PICK kr : /\ kr \in [0 .. n -> Int] /\ kr[0] = 0 /\ SumOf(r) = kr[n]
                /\ \A i \in 1 .. n : kr[i] = kr[i - 1] + r[i]
  BY SumTakesSteps
<1>2. PICK ks : /\ ks \in [0 .. n -> Int] /\ ks[0] = 0 /\ SumOf(s) = ks[n]
                /\ \A i \in 1 .. n : ks[i] = ks[i - 1] + s[i]
  <2>1. PICK k : /\ k \in [0 .. Len(s) -> Int] /\ k[0] = 0 /\ SumOf(s) = k[Len(s)]
                 /\ \A i \in 1 .. Len(s) : k[i] = k[i - 1] + s[i]
    BY SumTakesSteps
  <2> QED BY <2>1
<1>3. PICK kt : /\ kt \in [0 .. n -> Int] /\ kt[0] = 0 /\ SumOf(t) = kt[n]
                /\ \A i \in 1 .. n : kt[i] = kt[i - 1] + t[i]
  <2>1. PICK k : /\ k \in [0 .. Len(t) -> Int] /\ k[0] = 0 /\ SumOf(t) = k[Len(t)]
                 /\ \A i \in 1 .. Len(t) : k[i] = k[i - 1] + t[i]
    BY SumTakesSteps
  <2> QED BY <2>1
<1>4. n \in Nat /\ \A i \in 1 .. n : s[i] \in Int /\ t[i] \in Int /\ r[i] = s[i] + t[i] OBVIOUS
<1> DEFINE S == [i \in 0 .. n |-> {ks[i] + kt[i]}]
<1>5. kr[0] \in S[0] BY <1>1, <1>2, <1>3, <1>4
<1> HIDE DEF n
<1>6. ASSUME NEW i \in 1 .. n, kr[i - 1] \in S[i - 1] PROVE kr[i] \in S[i]
  <2>1. i \in 0 .. n /\ i - 1 \in 0 .. n BY <1>4
  <2>2. kr[i - 1] = ks[i - 1] + kt[i - 1] BY <1>6, <2>1
  <2>3. ks[i - 1] \in Int /\ kt[i - 1] \in Int BY <1>2, <1>3, <2>1
  <2>4. kr[i] = kr[i - 1] + r[i] /\ ks[i] = ks[i - 1] + s[i] /\ kt[i] = kt[i - 1] + t[i]
    BY <1>1, <1>2, <1>3
  <2>5. s[i] \in Int /\ t[i] \in Int /\ r[i] = s[i] + t[i] BY <1>4
  <2>6. \A a, b, c, e \in Int : (a + b) + (c + e) = (a + c) + (b + e) OBVIOUS
  <2>7. kr[i] = (ks[i - 1] + kt[i - 1]) + (s[i] + t[i]) BY <2>2, <2>4, <2>5
  <2>8. (ks[i - 1] + kt[i - 1]) + (s[i] + t[i]) = (ks[i - 1] + s[i]) + (kt[i - 1] + t[i])
    <3> DEFINE a == ks[i - 1]
               b == kt[i - 1]
               c == s[i]
               e == t[i]
    <3>1. a \in Int /\ b \in Int /\ c \in Int /\ e \in Int BY <2>3, <2>5
    <3> HIDE DEF a, b, c, e
    <3>2. (a + b) + (c + e) = (a + c) + (b + e) BY <2>6, <3>1
    <3> QED BY <3>2 DEF a, b, c, e
  <2>9. kr[i] = ks[i] + kt[i] BY <2>4, <2>7, <2>8
  <2> QED BY <2>1, <2>9
<1>7. \A i \in 0 .. n : kr[i] \in S[i]
  <2> HIDE DEF S
  <2> QED BY <1>4, <1>5, <1>6, LoopKeeps
<1>8. kr[n] = ks[n] + kt[n] BY <1>4, <1>7
<1> QED BY <1>1, <1>2, <1>3, <1>8

\* A sum of numbers that are not negative.
LEMMA SumNotNegative ==
  ASSUME NEW s \in Seq(Nat)
  PROVE  SumOf(s) \in Nat
<1> DEFINE n == Len(s)
<1>1. s \in Seq(Int) /\ n \in Nat /\ \A i \in 1 .. n : s[i] \in Nat OBVIOUS
<1>2. PICK k : /\ k \in [0 .. n -> Int] /\ k[0] = 0 /\ SumOf(s) = k[n]
               /\ \A i \in 1 .. n : k[i] = k[i - 1] + s[i]
  BY <1>1, SumTakesSteps
<1> HIDE DEF n
<1> DEFINE S == [i \in 0 .. n |-> Nat]
<1>3. k[0] \in S[0] BY <1>1, <1>2
<1>4. ASSUME NEW i \in 1 .. n, k[i - 1] \in S[i - 1] PROVE k[i] \in S[i]
  <2>1. i \in 0 .. n /\ i - 1 \in 0 .. n BY <1>1
  <2>2. k[i - 1] \in Nat BY <1>4, <2>1
  <2>3. k[i] = k[i - 1] + s[i] /\ s[i] \in Nat BY <1>1, <1>2
  <2>4. k[i] \in Nat BY <2>2, <2>3
  <2> QED BY <2>1, <2>4
<1>5. \A i \in 0 .. n : k[i] \in S[i]
  <2> HIDE DEF S
  <2> QED BY <1>1, <1>3, <1>4, LoopKeeps
<1> QED BY <1>1, <1>2, <1>5

\* The sum of a list is that of its parts.
LEMMA SumJoins ==
  ASSUME NEW s \in Seq(Int), NEW t \in Seq(Int)
  PROVE  SumOf(s \o t) = SumOf(s) + SumOf(t)
<1> DEFINE st == s \o t
           n == Len(s)
           m == Len(t)
<1>1. st \in Seq(Int) /\ Len(st) = n + m /\ n \in Nat /\ m \in Nat OBVIOUS
<1>2. /\ \A i \in 1 .. n : st[i] = s[i] /\ s[i] \in Int
      /\ \A i \in 1 .. m : st[n + i] = t[i] /\ t[i] \in Int
  OBVIOUS
<1> HIDE DEF st
<1>3. PICK k : /\ k \in [0 .. Len(st) -> Int] /\ k[0] = 0 /\ SumOf(st) = k[Len(st)]
               /\ \A i \in 1 .. Len(st) : k[i] = k[i - 1] + st[i]
  BY <1>1, SumTakesSteps
<1>4. PICK ks : /\ ks \in [0 .. n -> Int] /\ ks[0] = 0 /\ SumOf(s) = ks[n]
                /\ \A i \in 1 .. n : ks[i] = ks[i - 1] + s[i]
  BY SumTakesSteps
<1>5. PICK kt : /\ kt \in [0 .. m -> Int] /\ kt[0] = 0 /\ SumOf(t) = kt[m]
                /\ \A i \in 1 .. m : kt[i] = kt[i - 1] + t[i]
  BY SumTakesSteps
<1> HIDE DEF n, m
<1> DEFINE S == [i \in 0 .. n |-> {ks[i]}]
           R == [i \in 0 .. m |-> {ks[n] + kt[i]}]
           h == [i \in 0 .. m |-> k[n + i]]
<1>6. k[0] \in S[0] BY <1>1, <1>3, <1>4
<1>7. ASSUME NEW i \in 1 .. n, k[i - 1] \in S[i - 1] PROVE k[i] \in S[i]
  <2>1. i \in 0 .. n /\ i - 1 \in 0 .. n /\ i \in 1 .. Len(st) BY <1>1
  <2>2. k[i - 1] = ks[i - 1] BY <1>7, <2>1
  <2>3. k[i] = ks[i] BY <1>2, <1>3, <1>4, <2>1, <2>2
  <2> QED BY <2>1, <2>3
<1>8. k[n] = ks[n]
  <2>1. S[n] = {ks[n]} /\ n \in 0 .. n BY <1>1
  <2>2. k[n] \in S[n]
    <3> HIDE DEF S
    <3>1. \A i \in 0 .. n : k[i] \in S[i] BY <1>1, <1>6, <1>7, LoopKeeps
    <3> QED BY <2>1, <3>1
  <2> QED BY <2>1, <2>2
<1>9. h[0] \in R[0]
  <2>1. h[0] = k[n] /\ R[0] = {ks[n] + 0} BY <1>1, <1>5
  <2>2. ks[n] \in Int BY <1>1, <1>4
  <2>3. ks[n] + 0 = ks[n] BY <2>2
  <2> HIDE DEF h, R
  <2>4. h[0] = ks[n] /\ R[0] = {ks[n]} BY <1>8, <2>1, <2>3, Zenon
  <2> QED BY <2>4, Zenon
<1>10. ASSUME NEW i \in 1 .. m, h[i - 1] \in R[i - 1] PROVE h[i] \in R[i]
  <2>1. i \in 0 .. m /\ i - 1 \in 0 .. m /\ n + i \in 1 .. Len(st) /\ (n + i) - 1 = n + (i - 1)
    BY <1>1
  <2>2. h[i - 1] = ks[n] + kt[i - 1] /\ h[i] = k[n + i] /\ h[i - 1] = k[n + (i - 1)] BY <1>10, <2>1
  <2>3. k[n + i] = k[n + (i - 1)] + t[i] BY <1>2, <1>3, <2>1
  <2>4. ks[n] \in Int /\ kt[i - 1] \in Int /\ t[i] \in Int
    <3>1. n \in 0 .. n BY <1>1
    <3>2. ks[n] \in Int BY <1>4, <3>1
    <3>3. kt[i - 1] \in Int BY <1>5, <2>1
    <3>4. t[i] \in Int BY <1>2
    <3> QED BY <3>2, <3>3, <3>4
  <2>5. kt[i] = kt[i - 1] + t[i] BY <1>5
  <2>6. h[i] = ks[n] + kt[i] BY <2>2, <2>3, <2>4, <2>5
  <2> QED BY <2>1, <2>6
<1>11. h[m] = ks[n] + kt[m]
  <2>1. R[m] = {ks[n] + kt[m]} /\ m \in 0 .. m BY <1>1
  <2>2. h[m] \in R[m]
    <3> HIDE DEF R, h
    <3>1. \A i \in 0 .. m : h[i] \in R[i] BY <1>1, <1>9, <1>10, LoopKeeps
    <3> QED BY <2>1, <3>1
  <2> QED BY <2>1, <2>2
<1>12. h[m] = k[Len(st)] BY <1>1
<1> QED BY <1>3, <1>4, <1>5, <1>11, <1>12 DEF st

\* The sum of the numbers taken so often.
LEMMA SumScaled ==
  ASSUME NEW r \in Seq(Int), NEW s \in Seq(Int), NEW c \in Int,
         Len(s) = Len(r), \A i \in 1 .. Len(r) : r[i] = c * s[i]
  PROVE  SumOf(r) = c * SumOf(s)
<1> DEFINE n == Len(r)
<1>1. PICK kr : /\ kr \in [0 .. n -> Int] /\ kr[0] = 0 /\ SumOf(r) = kr[n]
                /\ \A i \in 1 .. n : kr[i] = kr[i - 1] + r[i]
  BY SumTakesSteps
<1>2. PICK ks : /\ ks \in [0 .. n -> Int] /\ ks[0] = 0 /\ SumOf(s) = ks[n]
                /\ \A i \in 1 .. n : ks[i] = ks[i - 1] + s[i]
  <2>1. PICK k : /\ k \in [0 .. Len(s) -> Int] /\ k[0] = 0 /\ SumOf(s) = k[Len(s)]
                 /\ \A i \in 1 .. Len(s) : k[i] = k[i - 1] + s[i]
    BY SumTakesSteps
  <2> QED BY <2>1
<1>3. n \in Nat /\ \A i \in 1 .. n : s[i] \in Int /\ r[i] = c * s[i] OBVIOUS
<1> DEFINE S == [i \in 0 .. n |-> {c * ks[i]}]
<1>4. kr[0] \in S[0] BY <1>1, <1>2, <1>3
<1> HIDE DEF n
<1>5. ASSUME NEW i \in 1 .. n, kr[i - 1] \in S[i - 1] PROVE kr[i] \in S[i]
  <2>1. i \in 0 .. n /\ i - 1 \in 0 .. n BY <1>3
  <2>2. kr[i - 1] = c * ks[i - 1] BY <1>5, <2>1
  <2>3. ks[i - 1] \in Int /\ s[i] \in Int BY <1>2, <1>3, <2>1
  <2>4. kr[i] = kr[i - 1] + r[i] /\ ks[i] = ks[i - 1] + s[i] /\ r[i] = c * s[i]
    BY <1>1, <1>2, <1>3
  <2>5. c * (ks[i - 1] + s[i]) = c * ks[i - 1] + c * s[i]
    <3> DEFINE x == ks[i - 1]
               y == s[i]
    <3>1. x \in Int /\ y \in Int BY <2>3
    <3> HIDE DEF x, y
    <3>2. c * (x + y) = c * x + c * y BY <3>1
    <3> QED BY <3>2 DEF x, y
  <2>6. kr[i] = c * ks[i] BY <2>2, <2>4, <2>5, Zenon
  <2> QED BY <2>1, <2>6
<1>6. \A i \in 0 .. n : kr[i] \in S[i]
  <2> HIDE DEF S
  <2> QED BY <1>3, <1>4, <1>5, LoopKeeps
<1>7. kr[n] = c * ks[n] BY <1>3, <1>6
<1> QED BY <1>1, <1>2, <1>7

\* What adds up over two lists adds up over a chain of them.
LEMMA SumOverChained ==
  ASSUME NEW A, NEW g \in [Seq(A) -> Int], g[<<>>] = 0,
         \A s, t \in Seq(A) : g[s \o t] = g[s] + g[t],
         NEW lists \in Seq(Seq(A))
  PROVE  g[Chained(lists)] = SumOf([i \in 1 .. Len(lists) |-> g[lists[i]]])
<1> DEFINE n == Len(lists)
           r == [i \in 1 .. n |-> g[lists[i]]]
<1>1. PICK k : /\ k \in [0 .. n -> Seq(A)] /\ k[0] = <<>> /\ Chained(lists) = k[n]
               /\ \A i \in 1 .. n : k[i] = k[i - 1] \o lists[i]
  <2>1. PICK k : /\ k \in [0 .. Len(lists) -> Seq(A)] /\ k[0] = <<>> /\ Chained(lists) = k[Len(lists)]
                 /\ \A i \in 1 .. Len(lists) : k[i] = k[i - 1] \o lists[i]
    BY ChainedTakesSteps
  <2> QED BY <2>1
<1>2. n \in Nat /\ \A i \in 1 .. n : lists[i] \in Seq(A) OBVIOUS
<1> HIDE DEF n
<1>3. r \in Seq(Int) /\ Len(r) = n /\ \A i \in 1 .. n : r[i] = g[lists[i]] BY <1>2
<1> HIDE DEF r
<1>4. PICK h : /\ h \in [0 .. n -> Int] /\ h[0] = 0 /\ SumOf(r) = h[n]
               /\ \A i \in 1 .. n : h[i] = h[i - 1] + r[i]
  <2>1. PICK h : /\ h \in [0 .. Len(r) -> Int] /\ h[0] = 0 /\ SumOf(r) = h[Len(r)]
                 /\ \A i \in 1 .. Len(r) : h[i] = h[i - 1] + r[i]
    BY <1>3, SumTakesSteps
  <2> QED BY <1>3, <2>1
<1> DEFINE S == [i \in 0 .. n |-> {h[i]}]
           q == [i \in 0 .. n |-> g[k[i]]]
<1>5. q[0] \in S[0]
  <2>1. 0 \in 0 .. n BY <1>2
  <2>2. q[0] = g[<<>>] BY <1>1, <2>1
  <2> QED BY <1>4, <2>1, <2>2
<1>6. ASSUME NEW i \in 1 .. n, q[i - 1] \in S[i - 1] PROVE q[i] \in S[i]
  <2>1. i \in 0 .. n /\ i - 1 \in 0 .. n BY <1>2
  <2>2. q[i - 1] = h[i - 1] /\ q[i - 1] = g[k[i - 1]] /\ q[i] = g[k[i]] BY <1>6, <2>1
  <2>3. k[i - 1] \in Seq(A) /\ lists[i] \in Seq(A) /\ k[i] = k[i - 1] \o lists[i]
    BY <1>1, <1>2, <2>1
  <2>4. g[k[i]] = g[k[i - 1]] + g[lists[i]]
    <3> DEFINE x == k[i - 1]
               y == lists[i]
    <3>1. x \in Seq(A) /\ y \in Seq(A) /\ k[i] = x \o y BY <2>3
    <3> HIDE DEF x, y
    <3>2. g[x \o y] = g[x] + g[y] BY <3>1
    <3>3. g[k[i]] = g[x] + g[y] BY <3>1, <3>2
    <3> QED BY <3>3 DEF x, y
  <2>5. q[i] = h[i] BY <1>3, <1>4, <2>2, <2>4
  <2> QED BY <2>1, <2>5
<1>7. \A i \in 0 .. n : q[i] \in S[i]
  <2> HIDE DEF S, q
  <2> QED BY <1>2, <1>5, <1>6, LoopKeeps
<1>8. q[n] = h[n] /\ q[n] = g[k[n]]
  <2>1. n \in 0 .. n BY <1>2
  <2> QED BY <1>7, <2>1
<1> QED BY <1>1, <1>4, <1>8 DEF r, n

\* A list that holds others of one length, one behind the other, like the lines of
\* a page.
InLines(l, lists, w) ==
  /\ Len(l) = Len(lists) * w
  /\ \A i \in 1 .. Len(lists), j \in 1 .. w :
        (i - 1) * w + j \in 1 .. Len(lists) * w /\ l[(i - 1) * w + j] = lists[i][j]
  /\ \A c \in 1 .. Len(lists) * w : \E i \in 1 .. Len(lists), j \in 1 .. w : c = (i - 1) * w + j

\* Where the numbers of a line are, in a chain of lines of the same length.
LEMMA ChainedEven ==
  ASSUME NEW A, NEW lists \in Seq(Seq(A)), NEW w \in Nat,
         \A i \in 1 .. Len(lists) : Len(lists[i]) = w
  PROVE  Chained(lists) \in Seq(A) /\ InLines(Chained(lists), lists, w)
<1> DEFINE n == Len(lists)
<1>1. PICK k : /\ k \in [0 .. n -> Seq(A)] /\ k[0] = <<>> /\ Chained(lists) = k[n]
               /\ \A i \in 1 .. n : k[i] = k[i - 1] \o lists[i]
  BY ChainedTakesSteps
<1>2. n \in Nat /\ \A i \in 1 .. n : lists[i] \in Seq(A) /\ Len(lists[i]) = w OBVIOUS
<1> HIDE DEF n
<1> DEFINE Sized(m, z) ==
             /\ Len(k[m]) = z
             /\ \A i \in 1 .. m, j \in 1 .. w :
                   (i - 1) * w + j \in 1 .. z /\ k[m][(i - 1) * w + j] = lists[i][j]
             /\ \A c \in 1 .. z : \E i \in 1 .. m, j \in 1 .. w : c = (i - 1) * w + j
           Even(m) == Sized(m, m * w)
           T == {m \in Nat : m <= n => Even(m)}
<1>3. 0 \in T
  <2>1. 0 * w = 0 /\ Len(k[0]) = 0 BY <1>1
  <2> QED BY <2>1
<1>4. ASSUME NEW m \in T PROVE m + 1 \in T
  <2>1. SUFFICES ASSUME m + 1 <= n PROVE Even(m + 1) BY <1>4
  <2>2. m \in Nat /\ Even(m) /\ m + 1 \in 1 .. n /\ (m + 1) - 1 = m /\ m \in 0 .. n
    <3> HIDE DEF Sized
    <3>1. m \in Nat /\ (m <= n => Even(m)) BY <1>4
    <3> QED BY <1>2, <2>1, <3>1
  <2> DEFINE s == k[m]
             t == lists[m + 1]
             z == m * w
  <2>3. s \in Seq(A) /\ t \in Seq(A) /\ Len(t) = w /\ k[m + 1] = s \o t BY <1>1, <1>2, <2>2
  <2>4. z \in Nat /\ (m + 1) * w = z + w BY <2>2
  <2>5. Len(s) = z BY <2>2
  <2>6. \A i \in 1 .. m, j \in 1 .. w :
            (i - 1) * w + j \in 1 .. z /\ s[(i - 1) * w + j] = lists[i][j]
    BY <2>2
  <2>7. \A c \in 1 .. z : \E i \in 1 .. m, j \in 1 .. w : c = (i - 1) * w + j BY <2>2
  <2> HIDE DEF s, t
  <2>8. /\ Len(s \o t) = z + w /\ \A c \in 1 .. z : (s \o t)[c] = s[c]
        /\ \A j \in 1 .. w : (s \o t)[z + j] = t[j]
    <3>1. /\ Len(s \o t) = Len(s) + Len(t) /\ \A c \in 1 .. Len(s) : (s \o t)[c] = s[c]
          /\ \A j \in 1 .. Len(t) : (s \o t)[Len(s) + j] = t[j]
      <4>1. s \in Seq(A) /\ t \in Seq(A) BY <2>3
      <4> QED BY <4>1, JoinedAt
    <3> QED BY <2>3, <2>5, <3>1
  <2>9. ASSUME NEW i \in 1 .. m + 1, NEW j \in 1 .. w
        PROVE  (i - 1) * w + j \in 1 .. z + w /\ k[m + 1][(i - 1) * w + j] = lists[i][j]
    <3>1. CASE i \in 1 .. m
      <4>1. (i - 1) * w + j \in 1 .. z /\ s[(i - 1) * w + j] = lists[i][j] BY <2>6, <3>1
      <4> HIDE DEF z
      <4>2. \A c : c \in 1 .. z => c \in 1 .. z + w BY <2>4
      <4> QED BY <2>3, <2>8, <4>1, <4>2
    <3>2. CASE i = m + 1
      <4>1. (i - 1) * w = z BY <2>2, <3>2
      <4> HIDE DEF z
      <4>2. z + j \in 1 .. z + w BY <2>4
      <4> QED BY <2>3, <2>8, <3>2, <4>1, <4>2 DEF t
    <3>3. i \in 1 .. m \/ i = m + 1 BY <2>2
    <3> QED BY <3>1, <3>2, <3>3
  <2>10. ASSUME NEW c \in 1 .. z + w
         PROVE  \E i \in 1 .. m + 1, j \in 1 .. w : c = (i - 1) * w + j
    <3>1. CASE c \in 1 .. z
      <4>1. PICK i \in 1 .. m, j \in 1 .. w : c = (i - 1) * w + j BY <2>7, <3>1
      <4>2. i \in 1 .. m + 1 BY <2>2
      <4> QED BY <4>1, <4>2
    <3>2. CASE c \notin 1 .. z
      <4>1. m + 1 \in 1 .. m + 1 /\ ((m + 1) - 1) * w = z BY <2>2
      <4> HIDE DEF z
      <4>2. c - z \in 1 .. w /\ c = z + (c - z) BY <2>4, <3>2
      <4>3. c = ((m + 1) - 1) * w + (c - z) BY <4>1, <4>2
      <4> QED BY <4>1, <4>2, <4>3
    <3> QED BY <3>1, <3>2
  <2>11. Len(k[m + 1]) = z + w BY <2>3, <2>8
  <2>12. (m + 1) * w = z + w BY <2>4
  <2> HIDE DEF z
  <2>13. Sized(m + 1, z + w) BY <2>9, <2>10, <2>11
  <2> HIDE DEF Sized
  <2> QED BY <2>12, <2>13
<1>5. T = Nat
  <2>1. T \subseteq Nat OBVIOUS
  <2> HIDE DEF T
  <2> QED BY <1>3, <1>4, <2>1, Induction
<1>6. n \in T /\ n <= n
  <2> HIDE DEF T
  <2> QED BY <1>2, <1>5
<1>7. Even(n)
  <2> HIDE DEF Sized
  <2> QED BY <1>6
<1>8. k[n] \in Seq(A)
  <2>1. n \in 0 .. n BY <1>2
  <2> QED BY <1>1, <2>1
<1> QED BY <1>1, <1>7, <1>8 DEF n, InLines

\* What is a list.
LEMMA ListMade ==
  ASSUME NEW A, NEW m \in Nat, NEW l, l = [i \in 1 .. m |-> l[i]], \A i \in 1 .. m : l[i] \in A
  PROVE  l \in Seq(A) /\ Len(l) = m
  OBVIOUS

\* The k-th of the numbers in the i-th line of so many is one of all.
LEMMA PlaceInLines ==
  ASSUME NEW m \in Nat, NEW w \in Nat, NEW i \in 1 .. m, NEW k \in 1 .. w
  PROVE  (i - 1) * w + k \in 1 .. m * w
<1> DEFINE d == m - i
           x == i - 1
<1>1. d \in Nat /\ x \in Nat /\ m = x + 1 + d OBVIOUS
<1>2. m * w = x * w + w + d * w
  <2> HIDE DEF d, x
  <2>1. (x + 1 + d) * w = x * w + w + d * w BY <1>1
  <2> QED BY <1>1, <2>1
<1> HIDE DEF d, x
<1>3. x * w \in Nat /\ d * w \in Nat BY <1>1
<1>4. x * w + k \in 1 .. m * w BY <1>2, <1>3
<1> QED BY <1>4 DEF x

\* Every place is one in some line.
LEMMA EveryPlace ==
  ASSUME NEW m \in Nat, NEW w \in Nat
  PROVE  \A c \in 1 .. m * w : \E i \in 1 .. m, j \in 1 .. w : c = (i - 1) * w + j
<1> DEFINE In(c, l) == \E i \in 1 .. l, j \in 1 .. w : c = (i - 1) * w + j
           T == {l \in Nat : \A c \in 1 .. l * w : In(c, l)}
<1>1. 0 \in T
  <2>1. 0 * w = 0 OBVIOUS
  <2>2. \A c \in 1 .. 0 * w : In(c, 0)
    <3> HIDE DEF In
    <3> QED BY <2>1
  <2> QED BY <2>2
<1>2. ASSUME NEW l \in T PROVE l + 1 \in T
  <2> DEFINE z == l * w
  <2>1. l \in Nat /\ z \in Nat /\ (l + 1) * w = z + w BY <1>2
  <2>2. ASSUME NEW c \in 1 .. z + w PROVE In(c, l + 1)
    <3>1. CASE c \in 1 .. z
      <4>1. In(c, l) BY <1>2, <3>1
      <4>2. PICK i \in 1 .. l, j \in 1 .. w : c = (i - 1) * w + j BY <4>1
      <4>3. i \in 1 .. l + 1 BY <2>1
      <4> QED BY <4>2, <4>3
    <3>2. CASE c \notin 1 .. z
      <4>1. l + 1 \in 1 .. l + 1 /\ ((l + 1) - 1) * w = z BY <2>1
      <4> HIDE DEF z
      <4>2. c - z \in 1 .. w /\ c = z + (c - z) BY <2>1, <3>2
      <4>3. c = ((l + 1) - 1) * w + (c - z) BY <4>1, <4>2
      <4> QED BY <4>1, <4>2, <4>3
    <3> QED BY <3>1, <3>2
  <2> HIDE DEF In, z
  <2>3. \A c \in 1 .. (l + 1) * w : In(c, l + 1) BY <2>1, <2>2
  <2> QED BY <2>1, <2>3
<1>3. T = Nat
  <2> HIDE DEF In
  <2>1. T \subseteq Nat OBVIOUS
  <2> HIDE DEF T
  <2> QED BY <1>1, <1>2, <2>1, Induction
<1>4. m \in T BY <1>3
<1> QED BY <1>4
=============================================================================
