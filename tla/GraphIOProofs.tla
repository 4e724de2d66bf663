----------------------------- MODULE GraphIOProofs -----------------------------
(***************************************************************************)
(* Proofs about files of graphs, for every version of the program, every   *)
(* graph it may have built and every sequence of writes, edits, restarts   *)
(* and reads.                                                              *)
(***************************************************************************)
EXTENDS GraphIO, DataInduction

\* What a list holds is its set.
LEMMA HeldIsToSet == \A s : Held(s) = ToSet(s)
BY DEF Held, ToSet

\* The places of a list.
LEMMA ListIs ==
  ASSUME NEW A, NEW s \in Seq(A)
  PROVE  Len(s) \in Nat /\ DOMAIN s = 1 .. Len(s)
OBVIOUS

\* A list of one, and of two.
LEMMA HeldOne ==
  ASSUME NEW A, NEW x \in A
  PROVE  <<x>> \in Seq(A) /\ Held(<<x>>) = {x}
<1>1. <<x>> \in Seq(A) OBVIOUS
<1>2. DOMAIN <<x>> = {1} /\ <<x>>[1] = x OBVIOUS
<1> QED BY <1>1, <1>2 DEF Held

\* A list of two.
LEMMA HeldTwo ==
  ASSUME NEW A, NEW x \in A, NEW y \in A
  PROVE  <<x>> \o <<y>> \in Seq(A) /\ Held(<<x>> \o <<y>>) = {x, y}
<1> DEFINE s == <<x>>
           t == <<y>>
<1>1. s \in Seq(A) /\ t \in Seq(A) /\ Held(s) = {x} /\ Held(t) = {y} BY HeldOne
<1> HIDE DEF s, t
<1>2. s \o t \in Seq(A) /\ Held(s \o t) = Held(s) \cup Held(t) BY <1>1, HeldTogether
<1>3. s \o t \in Seq(A) /\ Held(s \o t) = {x, y} BY <1>1, <1>2
<1> QED BY <1>3 DEF s, t

-----------------------------------------------------------------------------
(* What the managers of a program know.                                    *)

\* Every class has its members, and both are finitely many.
ManagerOK(m) ==
  /\ DOMAIN m = {"parents", "members", "default"}
  /\ DOMAIN m.parents \subseteq Nat /\ IsFiniteSet(DOMAIN m.parents)
  /\ DOMAIN m.members = DOMAIN m.parents
  /\ \A t \in DOMAIN m.members : m.members[t] \subseteq Nat /\ IsFiniteSet(m.members[t])

\* The members of a class are listed.
LEMMA NamesAreListed ==
  ASSUME NEW m, ManagerOK(m), NEW c \in Registered(m)
  PROVE  AttributeNames(m, c) \in Seq(Nat \X Nat)
<1>1. c \in Nat /\ m.members[c] \subseteq Nat /\ IsFiniteSet(m.members[c])
  BY DEF ManagerOK, Registered
<1> DEFINE names == Ascending(m.members[c])
<1>2. names \in Seq(Nat) BY <1>1, AscendingHolds
<1> HIDE DEF names
<1>3. [i \in 1 .. Len(names) |-> <<c, names[i]>>] \in Seq(Nat \X Nat)
  <2>1. Len(names) \in Nat /\ \A i \in 1 .. Len(names) : <<c, names[i]>> \in Nat \X Nat
    BY <1>1, <1>2
  <2> QED BY <2>1
<1> QED BY <1>3 DEF AttributeNames, names

\* So are those that are written for an element.
LEMMA SlotsAreListed ==
  ASSUME NEW m, ManagerOK(m), NEW t
  PROVE  AttributeSlots(m, t) \in Seq(Nat \X Nat)
<1>1. CASE HierarchyKnown(m, t)
  <2> DEFINE types == TypeHierarchy(m, t)
             lists == [i \in 1 .. Len(types) |-> AttributeNames(m, types[i])]
  <2>1. /\ Ancestry(m, t) \subseteq Registered(m) /\ Registered(m) \subseteq Nat
        /\ IsFiniteSet(Registered(m))
    BY <1>1 DEF HierarchyKnown, ManagerOK, Registered
  <2>2. types \in Seq(Nat) /\ Held(types) = Ancestry(m, t)
    <3>1. Ancestry(m, t) \subseteq Nat /\ IsFiniteSet(Ancestry(m, t)) BY <2>1, FS_Subset
    <3> QED BY <3>1, AscendingHolds DEF TypeHierarchy
  <2> HIDE DEF types
  <2>3. ASSUME NEW i \in 1 .. Len(types) PROVE AttributeNames(m, types[i]) \in Seq(Nat \X Nat)
    <3>1. types[i] \in Held(types) BY <2>2 DEF Held
    <3> QED BY <2>1, <2>2, <3>1, NamesAreListed
  <2>4. lists \in Seq(Seq(Nat \X Nat))
    <3>1. Len(types) \in Nat BY <2>2
    <3> QED BY <2>3, <3>1
  <2>5. AttributeSlots(m, t) = Chained(lists) BY <1>1 DEF AttributeSlots, types
  <2> HIDE DEF lists
  <2> QED BY <2>4, <2>5, ChainedHolds
<1>2. CASE ~HierarchyKnown(m, t)
  <2>1. AttributeSlots(m, t) = <<>> BY <1>2 DEF AttributeSlots
  <2> QED BY <2>1
<1> QED BY <1>1, <1>2

OwnAttribute(slots, n) == [id |-> OwnId(slots[n], n), slot |-> slots[n]]
LegacyAttribute(t, slots, n) == [id |-> LegacyId(t, n), slot |-> slots[n]]

\* The attributes of a class are its members, each under its own id and, where
\* it is inherited, under the one early files have.
Written(m, t, legacy, as, slots) ==
  /\ as \in Seq(Held(as)) /\ slots \in Seq(Nat \X Nat)
  /\ \A a : a \in Held(as) <=>
        \E n \in 1 .. Len(slots) :
           \/ a = OwnAttribute(slots, n)
           \/ legacy /\ slots[n][1] # t /\ a = LegacyAttribute(t, slots, n)

\* Attributes lists just these.
LEMMA AttributesAre ==
  ASSUME NEW m, ManagerOK(m), NEW t, NEW legacy \in BOOLEAN
  PROVE  Written(m, t, legacy, Attributes(m, t, legacy), AttributeSlots(m, t))
<1> DEFINE slots == AttributeSlots(m, t)
           A == {OwnAttribute(slots, n) : n \in 1 .. Len(slots)} \cup
                {LegacyAttribute(t, slots, n) : n \in 1 .. Len(slots)}
           list(n) == <<OwnAttribute(slots, n)>> \o
                      IF legacy /\ slots[n][1] # t THEN <<LegacyAttribute(t, slots, n)>> ELSE <<>>
           lists == [n \in 1 .. Len(slots) |-> list(n)]
<1>1. slots \in Seq(Nat \X Nat) BY SlotsAreListed
<1>2. Attributes(m, t, legacy) = Chained(lists) BY DEF Attributes, OwnAttribute, LegacyAttribute
<1>3. Len(slots) \in Nat BY <1>1
<1> HIDE DEF slots
<1>4. ASSUME NEW n \in 1 .. Len(slots)
      PROVE  /\ list(n) \in Seq(A)
             /\ \A a : a \in Held(list(n)) <=>
                    \/ a = OwnAttribute(slots, n)
                    \/ legacy /\ slots[n][1] # t /\ a = LegacyAttribute(t, slots, n)
  <2> DEFINE x == OwnAttribute(slots, n)
             y == LegacyAttribute(t, slots, n)
  <2>1. x \in A /\ y \in A OBVIOUS
  <2> HIDE DEF x, y, A
  <2>2. CASE legacy /\ slots[n][1] # t
    <3>1. list(n) = <<x>> \o <<y>> BY <2>2 DEF x, y
    <3>2. <<x>> \o <<y>> \in Seq(A) /\ Held(<<x>> \o <<y>>) = {x, y} BY <2>1, HeldTwo
    <3> HIDE DEF list
    <3> QED BY <2>2, <3>1, <3>2 DEF x, y
  <2>3. CASE ~(legacy /\ slots[n][1] # t)
    <3>1. list(n) = <<x>> \o <<>> BY <2>3 DEF x
    <3>2. <<x>> \o <<>> = <<x>> OBVIOUS
    <3>3. <<x>> \in Seq(A) /\ Held(<<x>>) = {x} BY <2>1 DEF Held
    <3> HIDE DEF list
    <3> QED BY <2>3, <3>1, <3>2, <3>3 DEF x, y
  <2> QED BY <2>2, <2>3
<1> HIDE DEF list, A
<1>5. lists \in Seq(Seq(A)) /\ Len(lists) = Len(slots) /\ \A n \in 1 .. Len(slots) : lists[n] = list(n)
  BY <1>3, <1>4
<1> HIDE DEF lists
<1>6. /\ Chained(lists) \in Seq(A)
      /\ \A a : a \in Held(Chained(lists)) <=> \E n \in 1 .. Len(lists) : a \in Held(lists[n])
  BY <1>5, ChainedHolds
<1>7. \A a : a \in Held(Attributes(m, t, legacy)) <=> \E n \in 1 .. Len(slots) : a \in Held(list(n))
  <2> HIDE DEF Held
  <2> QED BY <1>2, <1>5, <1>6
<1>8. Attributes(m, t, legacy) \in Seq(Held(Attributes(m, t, legacy)))
  <2>1. Attributes(m, t, legacy) \in Seq(A) BY <1>2, <1>6
  <2> QED BY <2>1 DEF Held
<1>9. \A a : a \in Held(Attributes(m, t, legacy)) <=>
         \E n \in 1 .. Len(slots) :
            \/ a = OwnAttribute(slots, n)
            \/ legacy /\ slots[n][1] # t /\ a = LegacyAttribute(t, slots, n)
  BY <1>4, <1>7
<1> QED BY <1>1, <1>8, <1>9 DEF slots, Written

\* An id names one member.
LEMMA IdsDiffer ==
  ASSUME NEW m, ManagerOK(m), NEW t,
         NEW a \in Held(Attributes(m, t, TRUE)), NEW b \in Held(Attributes(m, t, TRUE)), a.id = b.id
  PROVE  a.slot = b.slot
<1> DEFINE slots == AttributeSlots(m, t)
           Is(x, n) == x = OwnAttribute(slots, n) \/ x = LegacyAttribute(t, slots, n)
<1>1. \A x \in Held(Attributes(m, t, TRUE)) : \E n \in 1 .. Len(slots) : Is(x, n)
  <2>1. Written(m, t, TRUE, Attributes(m, t, TRUE), slots) BY AttributesAre
  <2> QED BY <2>1 DEF Written
<1>2. Len(slots) \in Nat
  <2>1. slots \in Seq(Nat \X Nat) BY SlotsAreListed
  <2> QED BY <2>1
<1>3. ASSUME NEW x, NEW n \in 1 .. Len(slots), Is(x, n)
      PROVE  x.id[2] = n - 1 /\ x.slot = slots[n]
  BY <1>3 DEF OwnAttribute, LegacyAttribute, OwnId, LegacyId
<1> HIDE DEF slots, Is
<1>4. PICK i \in 1 .. Len(slots) : Is(a, i) BY <1>1
<1>5. PICK j \in 1 .. Len(slots) : Is(b, j) BY <1>1
<1>6. i - 1 = j - 1 BY <1>3, <1>4, <1>5
<1>7. i = j BY <1>2, <1>6
<1> QED BY <1>3, <1>4, <1>5, <1>7

-----------------------------------------------------------------------------
(* Reading the values that were written.                                   *)

Map(f) == f = [x \in DOMAIN f |-> f[x]]
Hit(as, data, i, x) == as[i].id \in DOMAIN data /\ as[i].slot = x
Told(as, data, want) ==
  \A i \in 1 .. Len(as) : as[i].id \in DOMAIN data => data[as[i].id] = want[as[i].slot]
FilledUpto(as, values, data, want, n) ==
  [x \in DOMAIN values |-> IF \E i \in 1 .. n : Hit(as, data, i, x) THEN want[x] ELSE values[x]]

\* Every attribute that has data fills its own member.
LEMMA FillsMembers ==
  ASSUME NEW A, NEW as \in Seq(A), NEW values, Map(values),
         NEW data, NEW want,
         Told(as, data, want), NEW m, NEW t, Attributes(m, t, TRUE) = as
  PROVE  Deserialized(m, t, values, data, TRUE) = FilledUpto(as, values, data, want, Len(as))
<1> DEFINE N == Len(as)
           upto(n) == FilledUpto(as, values, data, want, n)
           Filling(k) == k = [n \in 0 .. N |-> IF n = 0 THEN values ELSE Filled(k[n - 1], as[n], data)]
           k == CHOOSE k : Filling(k)
<1>1. N \in Nat BY ListIs, Zenon
<1>2. upto(0) = values
  <2>1. \A x : ~\E i \in 1 .. 0 : Hit(as, data, i, x) OBVIOUS
  <2>2. upto(0) = [x \in DOMAIN values |-> values[x]] BY <2>1, Zenon DEF FilledUpto
  <2> QED BY <2>2 DEF Map
<1>3. ASSUME NEW n \in 1 .. N PROVE Filled(upto(n - 1), as[n], data) = upto(n)
  <2>1. n \in Nat /\ \A i : i \in 1 .. n <=> i \in 1 .. n - 1 \/ i = n BY <1>1
  <2>2. ASSUME NEW x
        PROVE  (\E i \in 1 .. n : Hit(as, data, i, x))
               <=> (\E i \in 1 .. n - 1 : Hit(as, data, i, x)) \/ Hit(as, data, n, x)
    BY <2>1
  <2>3. CASE as[n].id \in DOMAIN data
    <3>1. \A x : Hit(as, data, n, x) <=> x = as[n].slot BY <2>3 DEF Hit
    <3>2. data[as[n].id] = want[as[n].slot] BY <2>3 DEF Told
    <3>3. Filled(upto(n - 1), as[n], data) = [upto(n - 1) EXCEPT ![as[n].slot] = want[as[n].slot]]
      BY <2>3, <3>2 DEF Filled
    <3> QED BY <2>2, <3>1, <3>3 DEF FilledUpto
  <2>4. CASE as[n].id \notin DOMAIN data
    <3>1. \A x : ~Hit(as, data, n, x) BY <2>4 DEF Hit
    <3>2. Filled(upto(n - 1), as[n], data) = upto(n - 1) BY <2>4 DEF Filled
    <3> QED BY <2>2, <3>1, <3>2 DEF FilledUpto
  <2> QED BY <2>3, <2>4
<1> HIDE DEF upto
<1>4. Filling(k)
  <2> HIDE DEF N
  <2> DEFINE g == [n \in 0 .. N |-> upto(n)]
  <2>1. \A n \in 0 .. N : n # 0 => n \in 1 .. N /\ n - 1 \in 0 .. N BY <1>1
  <2>2. \A n \in 0 .. N : g[n] = upto(n) OBVIOUS
  <2>3. \A n \in 0 .. N : upto(n) = IF n = 0 THEN values ELSE Filled(g[n - 1], as[n], data)
    BY <1>2, <1>3, <2>1, <2>2
  <2>4. Filling(g) BY <2>3
  <2> HIDE DEF Filling, g
  <2> QED BY <2>4, Zenon
<1>5. Deserialized(m, t, values, data, TRUE) = k[N] BY DEF Deserialized
<1> HIDE DEF k
<1>6. k[0] = values /\ \A n \in 1 .. N : k[n] = Filled(k[n - 1], as[n], data)
  <2> HIDE DEF N
  <2>1. 0 \in 0 .. N /\ \A n \in 1 .. N : n \in 0 .. N /\ n # 0 BY <1>1
  <2>2. \A n \in 0 .. N : k[n] = IF n = 0 THEN values ELSE Filled(k[n - 1], as[n], data)
    BY <1>4, Zenon
  <2> QED BY <2>1, <2>2
<1> DEFINE S == [n \in 0 .. N |-> {upto(n)}]
<1>7. \A n \in 0 .. N : k[n] \in S[n]
  <2>1. \A n \in 0 .. N : S[n] = {upto(n)} OBVIOUS
  <2>2. k[0] \in S[0] BY <1>1, <1>2, <1>6, <2>1
  <2> HIDE DEF S, N
  <2>3. ASSUME NEW n \in 1 .. N, k[n - 1] \in S[n - 1] PROVE k[n] \in S[n]
    <3>1. n \in 0 .. N /\ n - 1 \in 0 .. N BY <1>1
    <3>2. k[n - 1] = upto(n - 1) BY <2>1, <2>3, <3>1
    <3>3. k[n] = upto(n) BY <1>3, <1>6, <3>2
    <3> QED BY <2>1, <3>1, <3>3
  <2> QED BY <1>1, <2>2, <2>3, LoopKeeps
<1>8. k[N] = upto(N)
  <2> HIDE DEF N
  <2>1. N \in 0 .. N /\ \A n \in 0 .. N : S[n] = {upto(n)} BY <1>1
  <2> QED BY <1>7, <2>1
<1> QED BY <1>5, <1>8 DEF upto

\* An element as a writer of some program stored it.
WellStored(s) ==
  \E m : /\ ManagerOK(m)
         /\ s.data = AttributeValues(m, s.element)
         /\ s.list = Attributes(m, s.element.type, FALSE)

DataOf(as, values) ==
  [id \in {as[i].id : i \in DOMAIN as} |-> values[(CHOOSE a \in ToSet(as) : a.id = id).slot]]

Back(s, values) ==
  \A slot \in DOMAIN values :
    values[slot] = IF \E i \in DOMAIN s.list : s.list[i].slot = slot
                   THEN s.element.values[slot] ELSE Missing

\* A program with the same class reads each member into its place, and no other.
LEMMA ReadBack ==
  ASSUME NEW m, ManagerOK(m), NEW s, WellStored(s), s.list = Attributes(m, s.element.type, FALSE)
  PROVE  Back(s, Deserialized(m, s.element.type, Unset(s.element.type), s.data, TRUE))
<1> DEFINE t == s.element.type
           list == s.list
           as == Attributes(m, t, TRUE)
           slots == AttributeSlots(m, t)
           data == s.data
           want == s.element.values
           values == Unset(t)
<1>1. /\ as \in Seq(Held(as)) /\ list \in Seq(Held(list))
      /\ DOMAIN as = 1 .. Len(as) /\ \A a \in Held(list) : a \in Held(as)
  <2>1. Written(m, t, TRUE, as, slots) /\ Written(m, t, FALSE, list, slots)
    BY AttributesAre
  <2> HIDE DEF as, list, slots
  <2>2. /\ as \in Seq(Held(as)) /\ list \in Seq(Held(list)) /\ \A a \in Held(list) : a \in Held(as)
    BY <2>1 DEF Written
  <2>3. DOMAIN as = 1 .. Len(as) BY <2>2, ListIs, Zenon
  <2> QED BY <2>2, <2>3
<1>2. data = DataOf(list, want)
  <2>1. PICK w : /\ data = AttributeValues(w, s.element)
                 /\ list = Attributes(w, t, FALSE)
    BY DEF WellStored
  <2>2. AttributeValues(w, s.element) = DataOf(Attributes(w, t, FALSE), want)
    BY DEF AttributeValues, DataOf
  <2> QED BY <2>1, <2>2
<1>3. ASSUME NEW a \in Held(as), NEW b \in Held(as), a.id = b.id PROVE a.slot = b.slot
  BY <1>3, IdsDiffer
<1> HIDE DEF list, as, data, want, slots
<1>4. ASSUME NEW a \in Held(as), a.id \in DOMAIN data
      PROVE  /\ data[a.id] = want[a.slot]
             /\ \E b \in Held(list) : b.id = a.id /\ b.slot = a.slot
  <2> DEFINE b == CHOOSE b \in ToSet(list) : b.id = a.id
  <2>1. \E x \in Held(list) : x.id = a.id BY <1>2, <1>4 DEF Held, DataOf
  <2>2. b \in Held(list) /\ b.id = a.id BY <2>1, HeldIsToSet
  <2>3. data[a.id] = want[b.slot] BY <1>2, <1>4 DEF DataOf
  <2> HIDE DEF b
  <2>4. b.slot = a.slot BY <1>1, <1>3, <2>2
  <2> QED BY <2>2, <2>3, <2>4
<1>5. Deserialized(m, t, values, data, TRUE) = FilledUpto(as, values, data, want, Len(as))
  <2>1. Map(values) BY DEF Unset, Map
  <2>2. \A i \in 1 .. Len(as) : as[i] \in Held(as) BY <1>1 DEF Held
  <2>3. Told(as, data, want) BY <1>4, <2>2 DEF Told
  <2>4. Attributes(m, t, TRUE) = as BY DEF as
  <2> HIDE DEF values, t
  <2> QED BY <1>1, <2>1, <2>3, <2>4, FillsMembers
<1>6. ASSUME NEW x
      PROVE  (\E i \in 1 .. Len(as) : Hit(as, data, i, x)) <=> \E i \in DOMAIN list : list[i].slot = x
  <2>1. ASSUME NEW i \in 1 .. Len(as), Hit(as, data, i, x) PROVE \E j \in DOMAIN list : list[j].slot = x
    <3>1. as[i] \in Held(as) /\ as[i].id \in DOMAIN data /\ as[i].slot = x
      BY <1>1, <2>1 DEF Held, Hit
    <3>2. PICK b \in Held(list) : b.slot = x BY <1>4, <3>1
    <3> QED BY <3>2 DEF Held
  <2>2. ASSUME NEW j \in DOMAIN list, list[j].slot = x PROVE \E i \in 1 .. Len(as) : Hit(as, data, i, x)
    <3>1. list[j] \in Held(list) /\ list[j].id \in DOMAIN data BY <1>2 DEF Held, DataOf
    <3>2. list[j] \in Held(as) BY <1>1, <3>1
    <3>3. PICK i \in 1 .. Len(as) : as[i] = list[j] BY <1>1, <3>2 DEF Held
    <3> QED BY <2>2, <3>1, <3>3 DEF Hit
  <2> QED BY <2>1, <2>2
<1>7. \A x \in DOMAIN values : values[x] = Missing BY DEF Unset
<1>8. ASSUME NEW x \in DOMAIN values
      PROVE  FilledUpto(as, values, data, want, Len(as))[x]
             = IF \E i \in DOMAIN list : list[i].slot = x THEN want[x] ELSE Missing
  BY <1>6, <1>7 DEF FilledUpto
<1>9. DOMAIN FilledUpto(as, values, data, want, Len(as)) = DOMAIN values BY DEF FilledUpto
<1> HIDE DEF values, t
<1>10. \A x \in DOMAIN Deserialized(m, t, values, data, TRUE) :
         Deserialized(m, t, values, data, TRUE)[x]
         = IF \E i \in DOMAIN list : list[i].slot = x THEN want[x] ELSE Missing
  BY <1>5, <1>8, <1>9
<1> QED BY <1>10 DEF Back, list, data, want, values, t

-----------------------------------------------------------------------------
(* What a program registers.                                               *)

Types == VertexTypes \cup EdgeTypes
Call == [type : Types, members : SUBSET Members, parents : SUBSET Types, default : BOOLEAN]

Managers ==
  {m \in [parents : UNION {[D -> SUBSET Types] : D \in SUBSET Types},
          members : UNION {[D -> SUBSET Members] : D \in SUBSET Types}, default : Types] :
     DOMAIN m.members = DOMAIN m.parents}

\* What type managers are made of.
LEMMA ManagersAre ==
  ASSUME NEW m \in Managers
  PROVE  /\ m \in [parents : UNION {[D -> SUBSET Types] : D \in SUBSET Types},
                  members : UNION {[D -> SUBSET Members] : D \in SUBSET Types}, default : Types]
         /\ DOMAIN m.parents \in SUBSET Types /\ DOMAIN m.members = DOMAIN m.parents
         /\ m.parents \in [DOMAIN m.parents -> SUBSET Types]
         /\ m.members \in [DOMAIN m.parents -> SUBSET Members]
         /\ ManagerOK(m)
<1>1. /\ m \in [parents : UNION {[D -> SUBSET Types] : D \in SUBSET Types},
               members : UNION {[D -> SUBSET Members] : D \in SUBSET Types}, default : Types]
      /\ DOMAIN m.members = DOMAIN m.parents
  BY DEF Managers
<1>2. PICK D \in SUBSET Types : m.parents \in [D -> SUBSET Types] BY <1>1
<1>3. PICK E \in SUBSET Types : m.members \in [E -> SUBSET Members] BY <1>1
<1>4. /\ D = DOMAIN m.parents /\ E = DOMAIN m.parents
  BY <1>1, <1>2, <1>3
<1>5. /\ Types \subseteq Nat /\ IsFiniteSet(Types) /\ Members \subseteq Nat /\ IsFiniteSet(Members)
  BY TypesAssumption, FS_Union DEF Types
<1>6. DOMAIN m.parents \subseteq Nat /\ IsFiniteSet(DOMAIN m.parents) BY <1>2, <1>4, <1>5, FS_Subset
<1>7. ASSUME NEW t \in DOMAIN m.members PROVE m.members[t] \subseteq Nat /\ IsFiniteSet(m.members[t])
  <2>1. m.members[t] \subseteq Members BY <1>3, <1>7
  <2> QED BY <1>5, <2>1, FS_Subset
<1>8. DOMAIN m = {"parents", "members", "default"} BY <1>1
<1>9. ManagerOK(m) BY <1>1, <1>6, <1>7, <1>8 DEF ManagerOK
<1> QED BY <1>1, <1>2, <1>3, <1>4, <1>9

\* A manager stays one.
LEMMA RegisteringKeeps ==
  ASSUME NEW m \in Managers, NEW call \in Call, NEW types
  PROVE  Registering(m, types, call) \in Managers
<1> DEFINE t == call.type
           r == RegisterType(m, t, call.parents)
           Is(k) == /\ k = [parents |-> k.parents, members |-> k.members, default |-> k.default]
                    /\ DOMAIN k.parents \in SUBSET Types /\ DOMAIN k.members = DOMAIN k.parents
                    /\ k.parents \in [DOMAIN k.parents -> SUBSET Types]
                    /\ k.members \in [DOMAIN k.parents -> SUBSET Members] /\ k.default \in Types
<1>1. t \in Types /\ call.members \in SUBSET Members /\ call.parents \in SUBSET Types BY DEF Call
<1>2. Is(m) /\ \A k : Is(k) => k \in Managers
  <2>1. Is(m) BY ManagersAre
  <2>2. ASSUME NEW k, Is(k) PROVE k \in Managers
    <3>1. /\ k.parents \in UNION {[D -> SUBSET Types] : D \in SUBSET Types}
          /\ k.members \in UNION {[D -> SUBSET Members] : D \in SUBSET Types}
      BY <2>2
    <3> QED BY <2>2, <3>1 DEF Managers
  <2> QED BY <2>1, <2>2
<1>3. Is(SetDefaultType(m, t)) BY <1>1, <1>2 DEF SetDefaultType
<1>4. Is(r) /\ t \in DOMAIN r.members
  <2>1. CASE t \in Registered(m) BY <1>2, <2>1 DEF RegisterType, Registered
  <2>2. CASE t \notin Registered(m)
    <3> DEFINE ps == Over(Entry(t, call.parents), m.parents)
               ms == Over(Entry(t, {}), m.members)
               D == DOMAIN m.parents \cup {t}
    <3>1. r = [m EXCEPT !.parents = ps, !.members = ms] BY <2>2 DEF RegisterType
    <3>2. ps \in [D -> SUBSET Types] /\ ms \in [D -> SUBSET Members]
      BY <1>1, <1>2 DEF Over, Entry
    <3>3. D \in SUBSET Types /\ t \in D BY <1>1, <1>2
    <3> HIDE DEF ps, ms, r, t, D
    <3>4. r = [parents |-> ps, members |-> ms, default |-> m.default] BY <1>2, <3>1
    <3>5. m.default \in Types BY <1>2
    <3> QED BY <3>2, <3>3, <3>4, <3>5
  <2> QED BY <2>1, <2>2
<1>5. Is(RegisterClass(m, t, call.parents, call.members))
  <2> DEFINE ms == [r.members EXCEPT ![t] = @ \cup call.members]
  <2>1. RegisterClass(m, t, call.parents, call.members) = [r EXCEPT !.members = ms]
    BY <1>4 DEF RegisterClass, RegisterAttributes
  <2>2. ms \in [DOMAIN r.parents -> SUBSET Members] BY <1>1, <1>4
  <2> HIDE DEF r, t, ms
  <2>3. [r EXCEPT !.members = ms] = [parents |-> r.parents, members |-> ms, default |-> r.default]
    BY <1>4
  <2> QED BY <1>4, <2>1, <2>2, <2>3
<1> HIDE DEF Is, r
<1>6. SetDefaultType(m, t) \in Managers /\ RegisterClass(m, t, call.parents, call.members) \in Managers
  BY <1>2, <1>3, <1>5
<1> QED BY <1>6 DEF Registering

StartingUpto(k, base, types, program) ==
  k = [n \in 0 .. Len(program) |->
         IF n = 0 THEN NewManager(base) ELSE Registering(k[n - 1], types, program[n])]

\* What a program has registered when it starts.
LEMMA StartedOK ==
  ASSUME NEW program \in Programs, NEW base \in Types, NEW types
  PROVE  Started(base, types, program) \in Managers
<1> DEFINE N == Len(program)
           turn(i, m) == Registering(m, types, program[i])
           S == [n \in 0 .. N |-> Managers]
           step == [i \in 1 .. N |-> [m \in Managers |-> turn(i, m)]]
           k == CHOOSE k : StartingUpto(k, base, types, program)
<1>1. program \in Seq(Call) BY ProgramsAssumption DEF Call, Types
<1>2. N \in Nat /\ \A i \in 1 .. N : program[i] \in Call BY <1>1
<1>3. NewManager(base) \in Managers
  <2> DEFINE ps == Entry(base, {})
  <2>1. ps \in [{base} -> SUBSET Types] /\ ps \in [{base} -> SUBSET Members] BY DEF Entry
  <2>2. {base} \in SUBSET Types OBVIOUS
  <2>3. NewManager(base) = [parents |-> ps, members |-> ps, default |-> base] BY DEF NewManager
  <2> HIDE DEF ps
  <2>4. /\ ps \in UNION {[D -> SUBSET Types] : D \in SUBSET Types}
        /\ ps \in UNION {[D -> SUBSET Members] : D \in SUBSET Types}
    BY <2>1, <2>2
  <2> QED BY <2>3, <2>4 DEF Managers
<1>4. \A i \in 1 .. N : \A m \in Managers : turn(i, m) \in Managers BY <1>2, RegisteringKeeps
<1> HIDE DEF turn, N
<1>5. \A n \in 0 .. N : S[n] = Managers OBVIOUS
<1>6. \A i \in 1 .. N : i \in 0 .. N /\ i - 1 \in 0 .. N /\ i # 0 BY <1>2
<1>7. \A n \in 0 .. N : n # 0 => n \in 1 .. N /\ n - 1 \in 0 .. N BY <1>2
<1>8. 0 \in 0 .. N /\ N \in 0 .. N BY <1>2
<1>9. StartingUpto(k, base, types, program)
  <2>1. \A i \in 1 .. N : \A m \in Managers : step[i][m] = turn(i, m) OBVIOUS
  <2> HIDE DEF S, step
  <2>2. NewManager(base) \in S[0] BY <1>3, <1>5, <1>8
  <2>3. \A i \in 1 .. N : \A m \in S[i - 1] : step[i][m] \in S[i]
    <3> SUFFICES ASSUME NEW i \in 1 .. N, NEW m \in S[i - 1] PROVE step[i][m] \in S[i] OBVIOUS
    <3>1. m \in Managers BY <1>5, <1>6
    <3> QED BY <1>4, <1>5, <1>6, <2>1, <3>1
  <2>4. PICK g : Loops(g, N, NewManager(base), step) /\ \A i \in 0 .. N : g[i] \in S[i]
    BY <1>2, <2>2, <2>3, LoopRuns
  <2>5. \A n \in 0 .. N : n # 0 => step[n][g[n - 1]] = turn(n, g[n - 1])
    BY <1>5, <1>7, <2>1, <2>4
  <2>6. g = [n \in 0 .. N |-> IF n = 0 THEN NewManager(base) ELSE turn(n, g[n - 1])]
    BY <2>4, <2>5 DEF Loops
  <2>7. StartingUpto(g, base, types, program) BY <2>6 DEF StartingUpto, turn, N
  <2> QED BY <2>7, Zenon
<1>10. Started(base, types, program) = k[N] BY DEF Started, StartingUpto, N
<1> HIDE DEF k
<1>11. k[0] = NewManager(base) /\ \A n \in 1 .. N : k[n] = turn(n, k[n - 1])
  <2>1. \A n \in 0 .. N : k[n] = IF n = 0 THEN NewManager(base) ELSE turn(n, k[n - 1])
    BY <1>9, Zenon DEF StartingUpto, turn, N
  <2> QED BY <1>6, <1>8, <2>1
<1>12. \A n \in 0 .. N : k[n] \in S[n]
  <2> HIDE DEF S
  <2>1. k[0] \in S[0] BY <1>3, <1>5, <1>8, <1>11
  <2>2. ASSUME NEW n \in 1 .. N, k[n - 1] \in S[n - 1] PROVE k[n] \in S[n]
    <3>1. k[n - 1] \in Managers BY <1>5, <1>6, <2>2
    <3> QED BY <1>4, <1>5, <1>6, <1>11, <3>1
  <2> QED BY <1>2, <2>1, <2>2, LoopKeeps
<1> QED BY <1>8, <1>10, <1>12

-----------------------------------------------------------------------------
(* The graph in memory and the files.                                      *)

List(s) == s \in Seq(Held(s))

\* What a list has the length of is a list.
LEMMA MadeFrom ==
  ASSUME NEW s, List(s), NEW r, DOMAIN r = DOMAIN s, Map(r)
  PROVE  List(r) /\ Len(r) = Len(s) /\ Len(s) \in Nat /\ DOMAIN s = 1 .. Len(s)
<1> DEFINE n == Len(s)
           A == Held(r)
<1>1. n \in Nat /\ DOMAIN s = 1 .. n BY ListIs DEF List
<1>2. \A i \in 1 .. n : r[i] \in A BY <1>1 DEF Held
<1> HIDE DEF n, A
<1>3. r = [i \in 1 .. n |-> r[i]] BY <1>1 DEF Map
<1>4. r \in Seq(A) /\ Len(r) = n BY <1>1, <1>2, <1>3
<1> QED BY <1>1, <1>4 DEF List, n, A

\* Sequences are lists.
LEMMA ListOf ==
  ASSUME NEW A, NEW s \in Seq(A)
  PROVE  List(s)
BY DEF List, Held

\* Every edge connects two of the n vertices.
Closed(es, n) == \A i \in DOMAIN es : es[i].source \in 1 .. n /\ es[i].target \in 1 .. n

Sound(ns, es) == List(ns) /\ List(es) /\ Closed(es, Len(ns))

\* A file has what was written; where nobody edited it, under the numbers of the
\* vertices and connected.
FileOK(f) ==
  /\ {"format", "intact", "nodes", "edges"} \subseteq DOMAIN f
  /\ List(f.nodes) /\ List(f.edges)
  /\ f.intact /\ f.format \in {"GEXF", "GRAPHML"} =>
        /\ \A i \in DOMAIN f.nodes : f.nodes[i].id = i /\ WellStored(f.nodes[i])
        /\ \A i \in DOMAIN f.edges :
              /\ WellStored(f.edges[i])
              /\ f.edges[i].element.source \in DOMAIN f.nodes
              /\ f.edges[i].element.target \in DOMAIN f.nodes

\* At finds a vertex with the id, if there is one.
LEMMA AtFinds ==
  ASSUME NEW A, NEW read \in Seq(A), NEW id
  PROVE  IF \E i \in DOMAIN read : read[i].id = id
         THEN At(read, id) \in DOMAIN read /\ read[At(read, id)].id = id /\ At(read, id) # 0
         ELSE At(read, id) = 0
<1>1. DOMAIN read = 1 .. Len(read) /\ Len(read) \in Nat BY ListIs
<1>2. CASE \E i \in DOMAIN read : read[i].id = id
  <2>1. At(read, id) = CHOOSE i \in DOMAIN read : read[i].id = id BY <1>2 DEF At
  <2>2. At(read, id) \in DOMAIN read /\ read[At(read, id)].id = id BY <1>2, <2>1
  <2>3. \A i \in DOMAIN read : i # 0 BY <1>1
  <2> QED BY <1>2, <2>2, <2>3
<1>3. CASE ~\E i \in DOMAIN read : read[i].id = id BY <1>3 DEF At
<1> QED BY <1>2, <1>3

\* An edge with its ends.
LEMMA OverEnds ==
  ASSUME NEW a, NEW b, NEW x
  PROVE  LET e == Over([source |-> a, target |-> b], x) IN
         /\ e.source = a /\ e.target = b
         /\ \A k \in {"type", "label", "uuid", "values"} \cap DOMAIN x : e[k] = x[k]
BY DEF Over

\* What is kept of the edges that were read: those before the first without an
\* end; all, if there is none.
LEMMA KeptIs ==
  ASSUME NEW A, NEW es \in Seq(A)
  PROVE  /\ List(Kept(es)) /\ \A i \in DOMAIN Kept(es) : Attached(Kept(es)[i])
         /\ DOMAIN Kept(es) \subseteq DOMAIN es /\ \A i \in DOMAIN Kept(es) : Kept(es)[i] = es[i]
         /\ (\A i \in DOMAIN es : Attached(es[i])) => Kept(es) = es
<1> DEFINE n == Len(es)
           good(i) == \A j \in 1 .. i : Attached(es[j])
           kept == UntilUnattached(es)
           T == {m \in Nat : m >= 1 /\ m \notin kept}
<1>1. n \in Nat /\ DOMAIN es = 1 .. n /\ es = [i \in 1 .. n |-> es[i]] BY ListIs
<1>2. \A i : i \in kept <=> i \in 1 .. n /\ good(i) BY <1>1 DEF UntilUnattached
<1> HIDE DEF kept, n
<1>3. n + 1 \in T BY <1>1, <1>2
<1>4. PICK b \in T : \A m \in T : b <= m
  <2> HIDE DEF T
  <2>1. T \subseteq Nat BY DEF T
  <2> QED BY <1>3, <2>1, LeastNatural
<1>5. b \in Nat /\ b >= 1 /\ b \notin kept /\ b - 1 \in Nat BY <1>4
<1>6. kept = 1 .. b - 1
  <2>1. ASSUME NEW i \in 1 .. b - 1 PROVE i \in kept
    <3>1. i \in Nat /\ i >= 1 /\ ~(b <= i) BY <1>5
    <3> QED BY <1>4, <3>1
  <2>2. ASSUME NEW i \in kept PROVE i \in 1 .. b - 1
    <3>1. i \in 1 .. n /\ good(i) BY <1>2
    <3>2. SUFFICES ASSUME b <= i PROVE FALSE BY <1>1, <1>5, <3>1
    <3>3. b \in 1 .. n BY <1>1, <1>5, <3>1, <3>2
    <3>4. \A j \in 1 .. b : j \in 1 .. i BY <1>1, <1>5, <3>1, <3>2
    <3>5. good(b) BY <3>1, <3>4
    <3> QED BY <1>2, <1>5, <3>3, <3>5
  <2> QED BY <2>1, <2>2
<1>7. Kept(es) = [i \in kept |-> es[i]] BY DEF Kept, kept
<1>8. \A i \in kept : i \in 1 .. n /\ Attached(es[i])
  <2>1. ASSUME NEW i \in kept PROVE i \in 1 .. i
    <3>1. i \in 1 .. n BY <1>2
    <3> QED BY <1>1, <3>1
  <2> QED BY <1>2, <2>1
<1>9. List(Kept(es))
  <2>1. \A i \in 1 .. b - 1 : es[i] \in A BY <1>1, <1>6, <1>8 DEF n
  <2> DEFINE c == b - 1
             k == [i \in 1 .. c |-> es[i]]
  <2>2. c \in Nat BY <1>5
  <2> HIDE DEF c
  <2>3. k \in Seq(A) BY <2>1, <2>2 DEF c
  <2>4. Kept(es) = k BY <1>6, <1>7 DEF c
  <2> QED BY <2>3, <2>4, ListOf
<1>10. ASSUME \A i \in DOMAIN es : Attached(es[i]) PROVE Kept(es) = es
  <2>1. \A i \in 1 .. n : \A j \in 1 .. i : j \in 1 .. n BY <1>1
  <2>2. kept = 1 .. n BY <1>1, <1>2, <1>10, <2>1
  <2> QED BY <1>1, <1>7, <2>2
<1> HIDE DEF good, T
<1>11. DOMAIN Kept(es) = kept /\ \A i \in kept : Kept(es)[i] = es[i] BY <1>7
<1> QED BY <1>1, <1>8, <1>9, <1>10, <1>11

\* An edge that was read with its ends connects two of the vertices.
LEMMA EndsFound ==
  ASSUME NEW A, NEW read \in Seq(A), NEW s, NEW x
  PROVE  LET e == Over(Ends(read, s), x) IN
         /\ e.source = At(read, s.element.source) /\ e.target = At(read, s.element.target)
         /\ Attached(e) => e.source \in DOMAIN read /\ e.target \in DOMAIN read
         /\ \A k \in {"type", "label", "uuid", "values"} \cap DOMAIN x : e[k] = x[k]
<1> DEFINE e == Over(Ends(read, s), x)
<1>1. /\ e.source = At(read, s.element.source) /\ e.target = At(read, s.element.target)
      /\ \A k \in {"type", "label", "uuid", "values"} \cap DOMAIN x : e[k] = x[k]
  BY OverEnds DEF Ends
<1> HIDE DEF e
<1>2. Attached(e) => e.source \in DOMAIN read /\ e.target \in DOMAIN read
  BY <1>1, AtFinds DEF Attached
<1> QED BY <1>1, <1>2 DEF e

\* What GEXF makes of a file.
LEMMA GexfSound ==
  ASSUME NEW f, FileOK(f)
  PROVE  Sound(GexfGraph(f).nodes, GexfGraph(f).edges)
<1> DEFINE ns == [i \in DOMAIN f.nodes |-> GexfNode(f, f.nodes[i])]
           es == [i \in DOMAIN f.edges |-> GexfEdge(f, f.edges[i])]
<1>1. GexfGraph(f).nodes = ns /\ GexfGraph(f).edges = Kept(es) BY DEF GexfGraph
<1>2. List(f.nodes) /\ List(f.edges) BY DEF FileOK
<1>3. List(ns) /\ Len(ns) = Len(f.nodes) /\ DOMAIN f.nodes = 1 .. Len(f.nodes)
  <2>1. DOMAIN ns = DOMAIN f.nodes /\ Map(ns) BY DEF Map
  <2> HIDE DEF ns
  <2> QED BY <1>2, <2>1, MadeFrom
<1>4. List(es)
  <2>1. DOMAIN es = DOMAIN f.edges /\ Map(es) BY DEF Map
  <2> HIDE DEF es
  <2> QED BY <1>2, <2>1, MadeFrom
<1>5. ASSUME NEW i \in DOMAIN es, Attached(es[i])
      PROVE  es[i].source \in DOMAIN f.nodes /\ es[i].target \in DOMAIN f.nodes
  <2>1. es[i] = Over(Ends(f.nodes, f.edges[i]), GexfElement(edgeTypeManager, f.edges[i], f.elabels, Edge))
    BY DEF GexfEdge
  <2> QED BY <1>2, <1>5, <2>1, EndsFound DEF List
<1> HIDE DEF es, ns
<1>6. /\ List(Kept(es))
      /\ \A i \in DOMAIN Kept(es) : i \in DOMAIN es /\ Kept(es)[i] = es[i] /\ Attached(es[i])
  BY <1>4, KeptIs DEF List
<1>7. Closed(Kept(es), Len(ns)) BY <1>3, <1>5, <1>6 DEF Closed
<1> QED BY <1>1, <1>3, <1>6, <1>7 DEF Sound

\* Of the entries of a file a YAML reader takes some.
LEMMA EntriesAre ==
  ASSUME NEW ss, List(ss)
  PROVE  List(YamlEntries(ss))
<1> DEFINE es == [i \in DOMAIN ss |-> [s |-> ss[i], label |-> YamlLabel(ss, i), parsed |-> Parsed(ss)[i]]]
           set == {x \in ToSet(es) : x.parsed}
<1>1. YamlEntries(ss) = Among(es, set) BY DEF YamlEntries
<1>2. DOMAIN es = DOMAIN ss /\ Map(es) BY DEF Map
<1> HIDE DEF es, set
<1>3. es \in Seq(Held(es)) BY <1>2, MadeFrom DEF List
<1>4. Among(es, set) \in Seq(Held(es)) BY <1>3, AmongHolds
<1> QED BY <1>1, <1>4, ListOf

\* What YAML makes of a file.
LEMMA YamlSound ==
  ASSUME NEW f, FileOK(f)
  PROVE  Sound(YamlGraph(f).nodes, YamlGraph(f).edges)
<1> DEFINE vs == YamlEntries(f.nodes)
           ids == [i \in DOMAIN vs |-> vs[i].s]
           ns == [i \in DOMAIN vs |->
                    Created(ByType(vertexTypeManager, vs[i].s.element.type, FALSE), vs[i].label)]
           entries == YamlEntries(f.edges)
           own(i) == [type |-> Edge, label |-> entries[i].label, uuid |-> NoUuid, values |-> Unset(Edge)]
           es == [i \in DOMAIN entries |-> Over(Ends(ids, entries[i].s), own(i))]
<1>1. YamlGraph(f).nodes = ns /\ YamlGraph(f).edges = Kept(es) BY DEF YamlGraph
<1>2. List(vs) /\ List(entries) BY EntriesAre DEF FileOK
<1>3. /\ List(ns) /\ Len(ns) = Len(vs) /\ DOMAIN ids = 1 .. Len(ns)
      /\ List(ids)
  <2>1. DOMAIN ns = DOMAIN vs /\ Map(ns) /\ DOMAIN ids = DOMAIN vs /\ Map(ids) BY DEF Map
  <2> HIDE DEF ns, ids, vs
  <2> QED BY <1>2, <2>1, MadeFrom
<1>4. List(es)
  <2>1. DOMAIN es = DOMAIN entries /\ Map(es) BY DEF Map
  <2> HIDE DEF es, entries
  <2> QED BY <1>2, <2>1, MadeFrom
<1>5. ASSUME NEW i \in DOMAIN es, Attached(es[i])
      PROVE  es[i].source \in DOMAIN ids /\ es[i].target \in DOMAIN ids
  <2>1. es[i] = Over(Ends(ids, entries[i].s), own(i)) OBVIOUS
  <2> HIDE DEF es, own, ids, entries
  <2>2. ids \in Seq(Held(ids)) BY <1>3 DEF List
  <2>3. Attached(Over(Ends(ids, entries[i].s), own(i))) BY <1>5, <2>1
  <2> QED BY <2>1, <2>2, <2>3, EndsFound
<1> HIDE DEF es, ns, ids, vs, entries, own
<1>6. /\ List(Kept(es))
      /\ \A i \in DOMAIN Kept(es) : i \in DOMAIN es /\ Kept(es)[i] = es[i] /\ Attached(es[i])
  BY <1>4, KeptIs DEF List
<1>7. Closed(Kept(es), Len(ns)) BY <1>3, <1>5, <1>6 DEF Closed
<1> QED BY <1>1, <1>3, <1>6, <1>7 DEF Sound

\* A list behind another.
Joined(s, t, r) ==
  /\ r \in Seq(Held(r)) /\ Len(r) = Len(s) + Len(t)
  /\ \A i \in 1 .. Len(s) : r[i] = s[i]
  /\ \A i \in 1 .. Len(t) : r[Len(s) + i] = t[i]
\* Lists behind each other are one.
LEMMA ListsJoin ==
  ASSUME NEW s, NEW t, List(s), List(t)
  PROVE  Joined(s, t, s \o t)
<1> DEFINE A == Held(s) \cup Held(t)
           r == s \o t
<1>1. s \in Seq(A) /\ t \in Seq(A) BY DEF List
<1> HIDE DEF A
<1>2. /\ r \in Seq(A) /\ Len(r) = Len(s) + Len(t)
      /\ \A i \in 1 .. Len(s) : r[i] = s[i]
      /\ \A i \in 1 .. Len(t) : r[Len(s) + i] = t[i]
  BY <1>1, JoinedAt
<1> HIDE DEF r
<1>3. List(r) BY <1>2, ListOf
<1>4. Joined(s, t, r) BY <1>2, <1>3 DEF Joined, List
<1> QED BY <1>4 DEF r

\* What GraphML makes of a file: the vertices of known classes and the edges
\* between them come behind those there are.
Appended(f, g, known, read) ==
  /\ List(known) /\ List(read) /\ g.nodes \in Seq(Held(g.nodes)) /\ g.edges \in Seq(Held(g.edges))
  /\ DOMAIN known = 1 .. Len(known) /\ DOMAIN read = 1 .. Len(read)
  /\ Len(g.nodes) = Len(nodes) + Len(known) /\ Len(g.edges) = Len(edges) + Len(read)
  /\ \A i \in 1 .. Len(nodes) : g.nodes[i] = nodes[i]
  /\ \A i \in 1 .. Len(edges) : g.edges[i] = edges[i]
  /\ \A i \in 1 .. Len(known) :
        g.nodes[Len(nodes) + i] = GraphMLNode(known[i]) /\ known[i] \in Held(f.nodes)
  /\ \A i \in 1 .. Len(read) :
        /\ g.edges[Len(edges) + i] = Over(Behind(Ends(known, read[i]), Len(nodes)), GraphMLEdge(read[i]))
        /\ read[i] \in Held(f.edges) /\ Attached(Ends(known, read[i]))
\* A GraphML reader appends what it reads to what is there.
LEMMA GraphMLAppends ==
  ASSUME NEW f, FileOK(f), List(nodes), List(edges)
  PROVE  Appended(f, GraphMLGraph(f), KnownNodes(f), KnownEdges(f))
<1> DEFINE known == KnownNodes(f)
           read == KnownEdges(f)
           ns == [i \in DOMAIN known |-> GraphMLNode(known[i])]
           es == [i \in DOMAIN read |->
                    Over(Behind(Ends(known, read[i]), Len(nodes)), GraphMLEdge(read[i]))]
           g == GraphMLGraph(f)
<1>1. g.nodes = nodes \o ns /\ g.edges = edges \o es BY DEF GraphMLGraph
<1>2. List(known) /\ \A x \in Held(known) : x \in Held(f.nodes)
  <2>1. f.nodes \in Seq(Held(f.nodes)) BY DEF FileOK, List
  <2> QED BY <2>1, AmongHolds, ListOf DEF KnownNodes
<1>3. List(read) /\ \A x \in Held(read) : x \in Held(f.edges) /\ Attached(Ends(known, x))
  <2> DEFINE set == {s \in ToSet(f.edges) : /\ s.element.type \in Registered(edgeTypeManager)
                                            /\ Attached(Ends(known, s))}
  <2>1. f.edges \in Seq(Held(f.edges)) BY DEF FileOK, List
  <2>2. read = Among(f.edges, set) BY DEF KnownEdges
  <2>3. \A x \in set : Attached(Ends(known, x)) OBVIOUS
  <2> HIDE DEF set, read
  <2>4. read \in Seq(Held(f.edges)) /\ Held(read) = Held(f.edges) \cap set BY <2>1, <2>2, AmongHolds
  <2> QED BY <2>3, <2>4, ListOf
<1> HIDE DEF known, read
<1>4. List(ns) /\ Len(ns) = Len(known) /\ DOMAIN known = 1 .. Len(known)
  <2>1. DOMAIN ns = DOMAIN known /\ Map(ns) BY DEF Map
  <2> HIDE DEF ns
  <2> QED BY <1>2, <2>1, MadeFrom
<1>5. List(es) /\ Len(es) = Len(read) /\ DOMAIN read = 1 .. Len(read)
  <2>1. DOMAIN es = DOMAIN read /\ Map(es) BY DEF Map
  <2> HIDE DEF es
  <2> QED BY <1>3, <2>1, MadeFrom
<1>6. \A i \in 1 .. Len(known) : ns[i] = GraphMLNode(known[i]) /\ known[i] \in Held(f.nodes)
  BY <1>2, <1>4 DEF Held
<1>7. \A i \in 1 .. Len(read) :
        /\ es[i] = Over(Behind(Ends(known, read[i]), Len(nodes)), GraphMLEdge(read[i]))
        /\ read[i] \in Held(f.edges) /\ Attached(Ends(known, read[i]))
  <2>1. \A i \in 1 .. Len(read) : read[i] \in Held(read) BY <1>5 DEF Held
  <2> QED BY <1>3, <1>5, <2>1
<1> HIDE DEF ns, es
<1>8. Joined(nodes, ns, g.nodes) /\ Joined(edges, es, g.edges)
  BY <1>1, <1>4, <1>5, ListsJoin
<1>9. /\ g.nodes \in Seq(Held(g.nodes)) /\ Len(g.nodes) = Len(nodes) + Len(ns)
      /\ \A i \in 1 .. Len(nodes) : g.nodes[i] = nodes[i]
      /\ \A i \in 1 .. Len(ns) : g.nodes[Len(nodes) + i] = ns[i]
  BY <1>8 DEF Joined
<1>10. /\ g.edges \in Seq(Held(g.edges)) /\ Len(g.edges) = Len(edges) + Len(es)
       /\ \A i \in 1 .. Len(edges) : g.edges[i] = edges[i]
       /\ \A i \in 1 .. Len(es) : g.edges[Len(edges) + i] = es[i]
  BY <1>8 DEF Joined
<1> HIDE DEF g
<1>11. Appended(f, g, known, read)
  BY <1>2, <1>3, <1>4, <1>5, <1>6, <1>7, <1>9, <1>10 DEF Appended
<1> QED BY <1>11 DEF g, known, read

\* And the edges still connect vertices there are.
LEMMA GraphMLSound ==
  ASSUME NEW f, FileOK(f), Sound(nodes, edges)
  PROVE  Sound(GraphMLGraph(f).nodes, GraphMLGraph(f).edges)
<1> DEFINE known == KnownNodes(f)
           read == KnownEdges(f)
           g == GraphMLGraph(f)
<1>1. List(nodes) /\ List(edges) /\ Closed(edges, Len(nodes)) BY DEF Sound
<1>2. Appended(f, g, known, read) BY <1>1, GraphMLAppends
<1> HIDE DEF g, known, read
<1>3. /\ List(g.nodes) /\ List(g.edges) /\ DOMAIN g.edges = 1 .. Len(edges) + Len(read)
      /\ Len(nodes) \in Nat /\ Len(edges) \in Nat /\ Len(known) \in Nat /\ Len(read) \in Nat
      /\ Len(g.nodes) = Len(nodes) + Len(known) /\ DOMAIN edges = 1 .. Len(edges)
  <2>1. /\ g.edges \in Seq(Held(g.edges)) /\ edges \in Seq(Held(edges)) /\ nodes \in Seq(Held(nodes))
        /\ known \in Seq(Held(known)) /\ read \in Seq(Held(read))
    BY <1>1, <1>2 DEF Appended, List
  <2>2. /\ DOMAIN g.edges = 1 .. Len(g.edges) /\ DOMAIN edges = 1 .. Len(edges)
        /\ Len(nodes) \in Nat /\ Len(edges) \in Nat /\ Len(known) \in Nat /\ Len(read) \in Nat
    BY <2>1, ListIs, Zenon
  <2> QED BY <1>2, <2>2 DEF Appended, List
<1>4. ASSUME NEW i \in 1 .. Len(edges)
      PROVE  g.edges[i].source \in 1 .. Len(g.nodes) /\ g.edges[i].target \in 1 .. Len(g.nodes)
  <2>1. g.edges[i] = edges[i] BY <1>2 DEF Appended
  <2>2. edges[i].source \in 1 .. Len(nodes) /\ edges[i].target \in 1 .. Len(nodes)
    BY <1>1, <1>3 DEF Closed
  <2> QED BY <1>3, <2>1, <2>2
<1>5. ASSUME NEW j \in 1 .. Len(read)
      PROVE  LET e == g.edges[Len(edges) + j] IN
             e.source \in 1 .. Len(g.nodes) /\ e.target \in 1 .. Len(g.nodes)
  <2> DEFINE ends == Ends(known, read[j])
             e == g.edges[Len(edges) + j]
  <2>1. e = Over(Behind(ends, Len(nodes)), GraphMLEdge(read[j])) /\ Attached(ends) BY <1>2 DEF Appended
  <2>2. ends.source \in DOMAIN known /\ ends.target \in DOMAIN known
    <3>1. known \in Seq(Held(known)) BY <1>2 DEF Appended, List
    <3> QED BY <2>1, <3>1, AtFinds DEF Ends, Attached
  <2>3. e.source = ends.source + Len(nodes) /\ e.target = ends.target + Len(nodes)
    <3> HIDE DEF e, ends
    <3> QED BY <2>1, OverEnds DEF Behind
  <2>4. DOMAIN known = 1 .. Len(known) BY <1>2 DEF Appended
  <2> DEFINE a == Len(nodes)
             b == Len(known)
  <2> HIDE DEF e, ends
  <2>5. a \in Nat /\ b \in Nat /\ Len(g.nodes) = a + b BY <1>3
  <2>6. ends.source \in 1 .. b /\ ends.target \in 1 .. b BY <2>2, <2>4
  <2>7. e.source = ends.source + a /\ e.target = ends.target + a BY <2>3
  <2> HIDE DEF a, b
  <2>8. e.source \in 1 .. Len(g.nodes) /\ e.target \in 1 .. Len(g.nodes) BY <2>5, <2>6, <2>7
  <2> QED BY <2>8 DEF e
<1>6. ASSUME NEW i \in DOMAIN g.edges
      PROVE  g.edges[i].source \in 1 .. Len(g.nodes) /\ g.edges[i].target \in 1 .. Len(g.nodes)
  <2>1. CASE i \in 1 .. Len(edges) BY <1>4, <2>1
  <2>2. CASE i \notin 1 .. Len(edges)
    <3>1. i - Len(edges) \in 1 .. Len(read) /\ Len(edges) + (i - Len(edges)) = i BY <1>3, <1>6, <2>2
    <3> QED BY <1>5, <3>1
  <2> QED BY <2>1, <2>2
<1>7. Closed(g.edges, Len(g.nodes)) BY <1>6 DEF Closed
<1>8. Sound(g.nodes, g.edges) BY <1>3, <1>7 DEF Sound
<1> QED BY <1>8 DEF g


-----------------------------------------------------------------------------
\* The invariant: the managers know what a program can register, the edges in
\* memory connect vertices in memory, and every file is as it was written or as
\* somebody left it.
IOInv ==
  /\ vertexTypeManager \in Managers /\ edgeTypeManager \in Managers
  /\ Sound(nodes, edges)
  /\ \A n \in DOMAIN disk : FileOK(disk[n])

\* The elements of a graph as they are stored.
LEMMA StoredIs ==
  ASSUME IOInv
  PROVE  /\ List(StoredNodes) /\ DOMAIN StoredNodes = DOMAIN nodes
         /\ List(StoredEdges) /\ DOMAIN StoredEdges = DOMAIN edges
         /\ Map(StoredNodes) /\ Map(StoredEdges)
         /\ \A i \in DOMAIN nodes : StoredNodes[i].id = i /\ WellStored(StoredNodes[i])
         /\ \A i \in DOMAIN edges :
               /\ WellStored(StoredEdges[i]) /\ StoredEdges[i].element = edges[i]
               /\ edges[i].source \in DOMAIN nodes /\ edges[i].target \in DOMAIN nodes
<1>1. /\ DOMAIN StoredNodes = DOMAIN nodes /\ Map(StoredNodes)
      /\ DOMAIN StoredEdges = DOMAIN edges /\ Map(StoredEdges)
  BY DEF StoredNodes, StoredEdges, Map
<1>2. List(nodes) /\ List(edges) /\ Closed(edges, Len(nodes)) BY DEF IOInv, Sound
<1>3. List(StoredNodes) /\ List(StoredEdges) /\ DOMAIN nodes = 1 .. Len(nodes)
  BY <1>1, <1>2, MadeFrom
<1>4. ManagerOK(vertexTypeManager) /\ ManagerOK(edgeTypeManager) BY ManagersAre DEF IOInv
<1>5. ASSUME NEW i \in DOMAIN nodes PROVE StoredNodes[i].id = i /\ WellStored(StoredNodes[i])
  <2>1. StoredNodes[i] = Stored(vertexTypeManager, nodes[i], i) BY <1>5 DEF StoredNodes
  <2>2. /\ StoredNodes[i].id = i /\ StoredNodes[i].element = nodes[i]
        /\ StoredNodes[i].data = AttributeValues(vertexTypeManager, nodes[i])
        /\ StoredNodes[i].list = Attributes(vertexTypeManager, nodes[i].type, FALSE)
    BY <2>1 DEF Stored
  <2> QED BY <1>4, <2>2 DEF WellStored
<1>6. ASSUME NEW i \in DOMAIN edges
      PROVE  WellStored(StoredEdges[i]) /\ StoredEdges[i].element = edges[i]
  <2>1. /\ StoredEdges[i].element = edges[i]
        /\ StoredEdges[i].data = AttributeValues(edgeTypeManager, edges[i])
        /\ StoredEdges[i].list = Attributes(edgeTypeManager, edges[i].type, FALSE)
    BY <1>6 DEF StoredEdges, EdgeValues, EdgeAttributes
  <2> QED BY <1>4, <2>1 DEF WellStored
<1> QED BY <1>1, <1>2, <1>3, <1>5, <1>6 DEF Closed

\* What a writer makes of it.
LEMMA ContentsOK ==
  ASSUME IOInv, NEW format \in Writers
  PROVE  FileOK(Contents(format))
<1> DEFINE f == Contents(format)
<1>1. CASE format = "GEXF"
  <2>1. f = GexfContents BY <1>1 DEF Contents
  <2>2. /\ {"format", "intact", "nodes", "edges"} \subseteq DOMAIN f
        /\ f.nodes = StoredNodes /\ f.edges = StoredEdges
    BY <2>1 DEF GexfContents
  <2> HIDE DEF f
  <2>3. FileOK(f) BY <2>2, StoredIs DEF FileOK
  <2> QED BY <2>3 DEF f
<1>2. CASE format = "GRAPHML"
  <2>1. f = GraphMLContents BY <1>2 DEF Contents
  <2>2. /\ {"format", "intact", "nodes", "edges"} \subseteq DOMAIN f
        /\ f.nodes = StoredNodes /\ f.edges = StoredEdges
    BY <2>1 DEF GraphMLContents
  <2> HIDE DEF f
  <2>3. FileOK(f) BY <2>2, StoredIs DEF FileOK
  <2> QED BY <2>3 DEF f
<1>3. CASE format = "YAML"
  <2> DEFINE ns == [i \in DOMAIN nodes |-> [StoredNodes[i] EXCEPT !.data = <<>>]]
             es == [i \in DOMAIN edges |-> [StoredEdges[i] EXCEPT !.data = <<>>]]
  <2>1. f = YamlContents BY <1>3 DEF Contents
  <2>2. /\ {"format", "intact", "nodes", "edges"} \subseteq DOMAIN f
        /\ f.nodes = ns /\ f.edges = es /\ f.format = "YAML"
    BY <2>1 DEF YamlContents
  <2>3. DOMAIN ns = DOMAIN nodes /\ Map(ns) /\ DOMAIN es = DOMAIN edges /\ Map(es) BY DEF Map
  <2> HIDE DEF f, ns, es
  <2>4. List(nodes) /\ List(edges) BY DEF IOInv, Sound
  <2>5. List(ns) /\ List(es) BY <2>3, <2>4, MadeFrom
  <2>6. FileOK(f) BY <2>2, <2>5 DEF FileOK
  <2> QED BY <2>6 DEF f
<1>4. CASE format = "GRAPHVIZ"
  <2>1. f = DotContents BY <1>4 DEF Contents
  <2>2. /\ {"format", "intact", "nodes", "edges"} \subseteq DOMAIN f
        /\ f.nodes = <<>> /\ f.edges = <<>> /\ f.intact = FALSE
    BY <2>1 DEF DotContents
  <2> HIDE DEF f
  <2>3. FileOK(f) BY <2>2 DEF FileOK, List
  <2> QED BY <2>3 DEF f
<1> QED BY <1>1, <1>2, <1>3, <1>4 DEF Writers

\* What a reader makes of a file.
LEMMA ReadSound ==
  ASSUME NEW f, FileOK(f), Sound(nodes, edges), NEW type
  PROVE  Sound(ReadGraph(f, type).nodes, ReadGraph(f, type).edges)
<1> DEFINE g == ReadGraph(f, type)
<1>1. CASE type = "GRAPHML" /\ f.format = "GRAPHML" /\ IsXml(f)
  <2>1. g = GraphMLGraph(f) BY <1>1 DEF ReadGraph
  <2> QED BY <2>1, GraphMLSound
<1>2. CASE type = "GRAPHML" /\ ~(f.format = "GRAPHML" /\ IsXml(f))
  <2>1. g.nodes = nodes /\ g.edges = edges BY <1>2 DEF ReadGraph
  <2> QED BY <2>1
<1>3. CASE type = "GEXF" /\ f.format = "GEXF"
  <2>1. g = GexfGraph(f) BY <1>3 DEF ReadGraph
  <2> QED BY <2>1, GexfSound
<1>4. CASE type = "YAML" /\ f.format = "YAML"
  <2>1. g = YamlGraph(f) BY <1>4 DEF ReadGraph
  <2> QED BY <2>1, YamlSound
<1>5. CASE /\ type # "GRAPHML" /\ ~(type = "GEXF" /\ f.format = "GEXF")
           /\ ~(type = "YAML" /\ f.format = "YAML")
  <2>1. g.nodes = <<>> /\ g.edges = <<>> BY <1>5 DEF ReadGraph
  <2> QED BY <2>1 DEF Sound, List, Closed
<1> QED BY <1>1, <1>2, <1>3, <1>4, <1>5

\* The invariant holds before anything is written,
LEMMA IOInit == Init => IOInv
<1> SUFFICES ASSUME Init PROVE IOInv OBVIOUS
<1>1. PICK program \in Programs, graph \in Graphs :
        /\ vertexTypeManager = StartedVertices(program) /\ edgeTypeManager = StartedEdges(program)
        /\ nodes = [i \in DOMAIN graph.nodes |-> Fresh(graph.nodes[i], i)]
        /\ edges = [i \in DOMAIN graph.edges |-> Fresh(graph.edges[i], i)]
  BY DEF Init
<1>2. vertexTypeManager \in Managers /\ edgeTypeManager \in Managers
  <2>1. Vertex \in Types /\ Edge \in Types BY TypesAssumption DEF Types
  <2> QED BY <1>1, <2>1, StartedOK DEF StartedVertices, StartedEdges
<1>3. List(graph.nodes) /\ List(graph.edges) BY GraphsAssumption, HeldIsToSet DEF List
<1>4. /\ DOMAIN nodes = DOMAIN graph.nodes /\ Map(nodes)
      /\ DOMAIN edges = DOMAIN graph.edges /\ Map(edges)
  BY <1>1 DEF Map
<1>5. List(nodes) /\ Len(nodes) = Len(graph.nodes) /\ List(edges) BY <1>3, <1>4, MadeFrom
<1>6. DOMAIN graph.nodes = 1 .. Len(nodes) BY <1>3, <1>4, <1>5, MadeFrom
<1>7. ASSUME NEW i \in DOMAIN edges
      PROVE  edges[i].source \in 1 .. Len(nodes) /\ edges[i].target \in 1 .. Len(nodes)
  <2> DEFINE e == graph.edges[i]
  <2>1. e \in ToSet(graph.edges) BY <1>4 DEF ToSet
  <2>2. /\ {"source", "target"} \subseteq DOMAIN e
        /\ e.source \in DOMAIN graph.nodes /\ e.target \in DOMAIN graph.nodes
    BY <2>1, GraphsAssumption
  <2>3. edges[i] = Fresh(e, i) BY <1>1, <1>4
  <2> HIDE DEF e
  <2>4. edges[i].source = e.source /\ edges[i].target = e.target BY <2>2, <2>3 DEF Fresh, Over
  <2> QED BY <1>6, <2>2, <2>4
<1>8. disk = <<>> BY DEF Init
<1> QED BY <1>2, <1>5, <1>7, <1>8 DEF IOInv, Sound, Closed

\* and every call keeps it.
LEMMA IOStep == IOInv /\ [Next]_vars => IOInv'
<1> SUFFICES ASSUME IOInv, [Next]_vars PROVE IOInv' OBVIOUS
<1>1. ASSUME NEW name \in Names, NEW format \in Requested, Write(name, format)
      PROVE  IOInv'
  <2> DEFINE type == Resolved(name, format)
             full == AppendSuffix(name, type)
  <2>1. UNCHANGED <<vertexTypeManager, edgeTypeManager, nodes, edges>> BY <1>1 DEF Write
  <2>2. \/ UNCHANGED disk
        \/ type \in Writers /\ disk' = Over(Entry(WrittenName(full, type), Contents(type)), disk)
    BY <1>1 DEF Write
  <2> HIDE DEF type, full
  <2>3. \A n \in DOMAIN disk' : FileOK(disk'[n])
    <3>1. CASE UNCHANGED disk BY <3>1 DEF IOInv
    <3>2. CASE type \in Writers /\ disk' = Over(Entry(WrittenName(full, type), Contents(type)), disk)
      <4>1. FileOK(Contents(type)) BY <3>2, ContentsOK
      <4>2. \A n \in DOMAIN disk' : disk'[n] = Contents(type) \/ (n \in DOMAIN disk /\ disk'[n] = disk[n])
        BY <3>2 DEF Over, Entry
      <4> QED BY <4>1, <4>2 DEF IOInv
    <3> QED BY <2>2, <3>1, <3>2
  <2> QED BY <2>1, <2>3 DEF IOInv, Sound, Closed, List, Held
<1>2. ASSUME NEW name \in Names, NEW format \in Requested, WriteUnopened(name, format)
      PROVE  IOInv'
  <2>1. UNCHANGED <<vertexTypeManager, edgeTypeManager, nodes, edges, disk>> BY <1>2 DEF WriteUnopened
  <2> QED BY <2>1 DEF IOInv
<1>3. ASSUME NEW name, NEW format \in Requested, Read(name, format)
      PROVE  IOInv'
  <2> DEFINE g == ReadGraph(disk[name], Resolved(name, format))
  <2>1. UNCHANGED <<vertexTypeManager, edgeTypeManager, disk>> BY <1>3 DEF Read
  <2>2. \/ UNCHANGED <<nodes, edges>>
        \/ name \in DOMAIN disk /\ nodes' = g.nodes /\ edges' = g.edges
    BY <1>3 DEF Read
  <2>3. name \in DOMAIN disk => Sound(g.nodes, g.edges) BY ReadSound DEF IOInv
  <2> HIDE DEF g
  <2>4. Sound(nodes', edges') BY <2>2, <2>3 DEF IOInv
  <2> QED BY <2>1, <2>4 DEF IOInv
<1>4. ASSUME NEW name \in DOMAIN disk, Edit(name)
      PROVE  IOInv'
  <2> DEFINE f == disk[name]
             h == disk'[name]
  <2>1. UNCHANGED <<vertexTypeManager, edgeTypeManager, nodes, edges>> BY <1>4 DEF Edit
  <2>2. /\ DOMAIN disk' = DOMAIN disk /\ \A n \in DOMAIN disk : n # name => disk'[n] = disk[n]
        /\ h = [[f EXCEPT !.nodes = Tail(@)] EXCEPT !.intact = FALSE] /\ f.nodes # <<>>
    BY <1>4 DEF Edit
  <2>3. FileOK(f) BY DEF IOInv
  <2> HIDE DEF f, h
  <2>4. /\ DOMAIN h = DOMAIN f /\ h.edges = f.edges /\ h.nodes = Tail(f.nodes) /\ h.intact = FALSE
    BY <2>2, <2>3 DEF FileOK
  <2>5. List(h.nodes)
    <3>1. f.nodes \in Seq(Held(f.nodes)) BY <2>3 DEF FileOK, List
    <3> DEFINE A == Held(f.nodes)
               s == f.nodes
    <3>2. s \in Seq(A) /\ s # <<>> BY <2>2, <3>1
    <3> HIDE DEF A, s
    <3>3. Tail(s) \in Seq(A) BY <3>2
    <3>4. List(Tail(s)) BY <3>3, ListOf
    <3> QED BY <2>4, <3>4 DEF s
  <2>6. FileOK(h) BY <2>3, <2>4, <2>5 DEF FileOK
  <2>7. \A n \in DOMAIN disk' : FileOK(disk'[n]) BY <2>2, <2>6 DEF IOInv, h
  <2> QED BY <2>1, <2>7 DEF IOInv
<1>5. CASE Restart
  <2>1. PICK program \in Programs :
          vertexTypeManager' = StartedVertices(program) /\ edgeTypeManager' = StartedEdges(program)
    BY <1>5 DEF Restart
  <2>2. vertexTypeManager' \in Managers /\ edgeTypeManager' \in Managers
    <3>1. Vertex \in Types /\ Edge \in Types BY TypesAssumption DEF Types
    <3> QED BY <2>1, <3>1, StartedOK DEF StartedVertices, StartedEdges
  <2>3. nodes' = <<>> /\ edges' = <<>> /\ disk' = disk BY <1>5 DEF Restart
  <2>4. Sound(nodes', edges') BY <2>3 DEF Sound, List, Closed
  <2> QED BY <2>2, <2>3, <2>4 DEF IOInv
<1>6. CASE UNCHANGED vars BY <1>6 DEF vars, IOInv
<1> QED BY <1>1, <1>2, <1>3, <1>4, <1>5, <1>6 DEF Next

\* The managers know what can be registered, edges connect vertices there are,
\* and a file nobody edited has its vertices by number, its edges connected and
\* the data of a class as some program lists it.
THEOREM FilesAreSound == Spec => []IOInv
BY IOInit, IOStep, PTL DEF Spec

-----------------------------------------------------------------------------
\* Data is never read into two members.
THEOREM IdsNameOneMember == Spec => []OneMemberPerId
<1>1. IOInv => OneMemberPerId
  <2> SUFFICES ASSUME IOInv, NEW m \in {vertexTypeManager, edgeTypeManager}, NEW t \in Registered(m),
                      NEW i \in DOMAIN Attributes(m, t, TRUE), NEW j \in DOMAIN Attributes(m, t, TRUE),
                      Attributes(m, t, TRUE)[i].id = Attributes(m, t, TRUE)[j].id
               PROVE  Attributes(m, t, TRUE)[i].slot = Attributes(m, t, TRUE)[j].slot
    BY DEF OneMemberPerId
  <2>1. ManagerOK(m) BY ManagersAre DEF IOInv
  <2>2. /\ Attributes(m, t, TRUE)[i] \in Held(Attributes(m, t, TRUE))
        /\ Attributes(m, t, TRUE)[j] \in Held(Attributes(m, t, TRUE))
    BY DEF Held
  <2> QED BY <2>1, <2>2, IdsDiffer
<1> QED BY <1>1, FilesAreSound, PTL

-----------------------------------------------------------------------------
(* Files that are read where the classes are those they were written with.  *)

\* A read in a reader's format reads the file with the reader of that format.
LEMMA ReadsIn ==
  ASSUME NEW name \in DOMAIN disk, NEW format, Read(name, format),
         Resolved(name, format) \in Readers
  PROVE  LET g == ReadGraph(disk[name], Resolved(name, format)) IN
         /\ nodes' = g.nodes /\ edges' = g.edges
         /\ last'.outcome = IF g.throws THEN "throws" ELSE Resolved(name, format)
<1> DEFINE type == Resolved(name, format)
           g == ReadGraph(disk[name], type)
<1>1. /\ nodes' = g.nodes /\ edges' = g.edges
      /\ last' = [call |-> "read", name |-> name, outcome |-> IF g.throws THEN "throws" ELSE type]
  BY DEF Read, Returns
<1> HIDE DEF type, g
<1>2. last'.outcome = IF g.throws THEN "throws" ELSE type BY <1>1
<1> QED BY <1>1, <1>2 DEF type, g

\* A read that ends in a format read a file with the reader of that format.
LEMMA ReadsOne ==
  ASSUME Next, last'.call = "read", NEW type, last'.outcome = type, type # "throws"
  PROVE  LET g == ReadGraph(disk[last'.name], type) IN
         /\ last'.name \in DOMAIN disk /\ nodes' = g.nodes /\ edges' = g.edges /\ ~g.throws
         /\ UNCHANGED <<vertexTypeManager, edgeTypeManager, disk>>
<1>1. PICK name, format : Read(name, format)
  <2>1. \A name, format : ~Write(name, format)
    <3> SUFFICES ASSUME NEW name, NEW format, Write(name, format) PROVE FALSE OBVIOUS
    <3>1. last'.call = "write" BY DEF Write, Returns
    <3> QED BY <3>1
  <2>2. \A name, format : ~WriteUnopened(name, format) BY DEF WriteUnopened, Returns
  <2>3. \A name : ~Edit(name) BY DEF Edit, Returns
  <2>4. ~Restart BY DEF Restart, Returns
  <2> QED BY <2>1, <2>2, <2>3, <2>4 DEF Next
<1> DEFINE g == ReadGraph(disk[name], Resolved(name, format))
<1>2. \/ last' = [call |-> "read", name |-> name, outcome |-> "throws"]
      \/ /\ name \in DOMAIN disk /\ nodes' = g.nodes /\ edges' = g.edges
         /\ last' = [call |-> "read", name |-> name,
                     outcome |-> IF g.throws THEN "throws" ELSE Resolved(name, format)]
  BY <1>1 DEF Read, Returns
<1>3. UNCHANGED <<vertexTypeManager, edgeTypeManager, disk>> BY <1>1 DEF Read
<1>4. /\ name \in DOMAIN disk /\ nodes' = g.nodes /\ edges' = g.edges
      /\ last'.name = name /\ Resolved(name, format) = type /\ ~g.throws
  <2> HIDE DEF g
  <2> QED BY <1>2
<1> QED BY <1>3, <1>4

\* An element with what was read of it.
LEMMA ElementBack ==
  ASSUME NEW m, ManagerOK(m), NEW s, WellStored(s), SameClass(m, s), NEW e,
         e.type = s.element.type,
         e.values = Deserialized(m, s.element.type, Unset(s.element.type), s.data, TRUE)
  PROVE  MembersComeBack(s, e) /\ (e.label = s.element.label => ComesBack(s, e))
<1>1. Back(s, e.values) BY ReadBack DEF SameClass
<1>2. MembersComeBack(s, e) BY <1>1 DEF Back, MembersComeBack
<1> QED BY <1>2 DEF ComesBack

\* The ends of a stored edge of a file nobody edited are where they were.
LEMMA EndsInPlace ==
  ASSUME NEW f, FileOK(f), f.intact, f.format \in {"GEXF", "GRAPHML"}, NEW i \in DOMAIN f.edges
  PROVE  LET s == f.edges[i] IN
         /\ At(f.nodes, s.element.source) = s.element.source
         /\ At(f.nodes, s.element.target) = s.element.target
         /\ Attached(Ends(f.nodes, s))
<1>1. \A id \in DOMAIN f.nodes : At(f.nodes, id) = id /\ At(f.nodes, id) # 0
  <2>1. f.nodes \in Seq(Held(f.nodes)) /\ \A k \in DOMAIN f.nodes : f.nodes[k].id = k
    BY DEF FileOK, List
  <2> QED BY <2>1, AtFinds
<1>2. f.edges[i].element.source \in DOMAIN f.nodes /\ f.edges[i].element.target \in DOMAIN f.nodes
  BY DEF FileOK
<1> QED BY <1>1, <1>2 DEF Ends, Attached

\* A graph comes back from the GEXF file it was written to, as far as stated.
LEMMA GexfBack ==
  ASSUME IOInv, NEW f, FileOK(f), f.intact, f.format = "GEXF",
         \A s \in ToSet(f.nodes) : SameClass(vertexTypeManager, s),
         \A s \in ToSet(f.edges) : SameClass(edgeTypeManager, s),
         nodes' = GexfGraph(f).nodes, edges' = GexfGraph(f).edges
  PROVE  GexfComesBack(f) /\ ~GexfGraph(f).throws
<1> DEFINE ns == [i \in DOMAIN f.nodes |-> GexfNode(f, f.nodes[i])]
           es == [i \in DOMAIN f.edges |-> GexfEdge(f, f.edges[i])]
<1>1. nodes' = ns /\ edges' = Kept(es) /\ GexfGraph(f).throws = (\E i \in DOMAIN es : ~Attached(es[i]))
  BY DEF GexfGraph
<1>2. List(f.nodes) /\ List(f.edges) BY DEF FileOK
<1>3. List(ns) /\ Len(ns) = Len(f.nodes) /\ List(es) /\ Len(es) = Len(f.edges)
  <2>1. DOMAIN ns = DOMAIN f.nodes /\ Map(ns) /\ DOMAIN es = DOMAIN f.edges /\ Map(es) BY DEF Map
  <2> HIDE DEF ns, es
  <2> QED BY <1>2, <2>1, MadeFrom
<1>4. ManagerOK(vertexTypeManager) /\ ManagerOK(edgeTypeManager) BY ManagersAre DEF IOInv
<1>5. ASSUME NEW m, ManagerOK(m), NEW s, NEW base, NEW column, WellStored(s), SameClass(m, s)
      PROVE  LET e == GexfElement(m, s, column, base) IN
             /\ MembersComeBack(s, e) /\ (column = Missing => ComesBack(s, e))
             /\ DOMAIN e = {"type", "label", "uuid", "values"}
  <2> DEFINE e == GexfElement(m, s, column, base)
             label == GexfLabel(s, column)
             c == Created(s.element.type, label)
  <2>1. e = [c EXCEPT !.values = Deserialized(m, c.type, @, s.data, TRUE)]
    BY <1>5 DEF GexfElement, SameClass
  <2>2. c = [type |-> s.element.type, label |-> label,
             uuid |-> <<"prototype", s.element.type>>, values |-> Unset(s.element.type)]
    BY DEF Created
  <2>3. column = Missing => label = s.element.label BY DEF GexfLabel
  <2>4. /\ e.type = s.element.type /\ e.label = label
        /\ e.values = Deserialized(m, s.element.type, Unset(s.element.type), s.data, TRUE)
        /\ DOMAIN e = {"type", "label", "uuid", "values"}
    <3> HIDE DEF e, c, label
    <3> QED BY <2>1, <2>2
  <2> HIDE DEF e, c, label
  <2>5. MembersComeBack(s, e) /\ (e.label = s.element.label => ComesBack(s, e)) BY <1>5, <2>4, ElementBack
  <2>6. column = Missing => ComesBack(s, e) BY <2>3, <2>4, <2>5
  <2> QED BY <2>4, <2>5, <2>6 DEF e
<1>6. ASSUME NEW i \in DOMAIN f.nodes
      PROVE  /\ MembersComeBack(f.nodes[i], ns[i])
             /\ f.vlabels = Missing => ComesBack(f.nodes[i], ns[i])
  <2>1. f.nodes[i] \in ToSet(f.nodes) /\ WellStored(f.nodes[i]) BY DEF ToSet, FileOK
  <2>2. ns[i] = GexfElement(vertexTypeManager, f.nodes[i], f.vlabels, Vertex) BY DEF GexfNode
  <2> HIDE DEF ns
  <2> QED BY <1>4, <1>5, <2>1, <2>2
<1>7. ASSUME NEW i \in DOMAIN f.edges
      PROVE  /\ MembersComeBack(f.edges[i], es[i])
             /\ f.elabels = Missing => ComesBack(f.edges[i], es[i])
             /\ Attached(es[i])
             /\ es[i].source = f.edges[i].element.source
             /\ es[i].target = f.edges[i].element.target
  <2> DEFINE s == f.edges[i]
             x == GexfElement(edgeTypeManager, s, f.elabels, Edge)
             e == es[i]
  <2>1. s \in ToSet(f.edges) /\ WellStored(s) BY DEF ToSet, FileOK
  <2>2. e = Over(Ends(f.nodes, s), x) BY DEF GexfEdge
  <2>3. /\ MembersComeBack(s, x) /\ (f.elabels = Missing => ComesBack(s, x))
        /\ DOMAIN x = {"type", "label", "uuid", "values"}
    BY <1>4, <1>5, <2>1
  <2>4. /\ At(f.nodes, s.element.source) = s.element.source
        /\ At(f.nodes, s.element.target) = s.element.target
        /\ Attached(Ends(f.nodes, s))
    BY EndsInPlace
  <2> HIDE DEF s, x, e
  <2>5. /\ e.source = At(f.nodes, s.element.source) /\ e.target = At(f.nodes, s.element.target)
        /\ \A k \in {"type", "label", "uuid", "values"} \cap DOMAIN x : e[k] = x[k]
    BY <1>2, <2>2, EndsFound DEF List
  <2>6. e.type = x.type /\ e.label = x.label /\ e.values = x.values BY <2>3, <2>5
  <2>7. MembersComeBack(s, e) BY <2>3, <2>6 DEF MembersComeBack
  <2>8. f.elabels = Missing => ComesBack(s, e) BY <2>3, <2>6, <2>7 DEF ComesBack
  <2>9. Attached(e) BY <2>4, <2>5 DEF Attached, Ends
  <2> QED BY <2>4, <2>5, <2>7, <2>8, <2>9 DEF s, e
<1>8. DOMAIN ns = DOMAIN f.nodes /\ DOMAIN es = DOMAIN f.edges OBVIOUS
<1> HIDE DEF ns, es
<1>9. Kept(es) = es BY <1>3, <1>7, <1>8, KeptIs DEF List
<1>10. ~GexfGraph(f).throws BY <1>1, <1>7, <1>8
<1>11. GexfComesBack(f) BY <1>1, <1>3, <1>6, <1>7, <1>8, <1>9 DEF GexfComesBack
<1> QED BY <1>10, <1>11

\* So it does from a GraphML file.
LEMMA GraphMLBack ==
  ASSUME IOInv, NEW f, FileOK(f), f.intact, f.format = "GRAPHML",
         \A s \in ToSet(f.nodes) : SameClass(vertexTypeManager, s),
         \A s \in ToSet(f.edges) : SameClass(edgeTypeManager, s),
         nodes' = GraphMLGraph(f).nodes, edges' = GraphMLGraph(f).edges
  PROVE  GraphMLComesBack(f)
<1> DEFINE g == GraphMLGraph(f)
<1>1. /\ List(f.nodes) /\ List(f.edges) /\ List(nodes) /\ List(edges)
      /\ ManagerOK(vertexTypeManager) /\ ManagerOK(edgeTypeManager)
  BY ManagersAre DEF FileOK, IOInv, Sound
<1>2. /\ DOMAIN f.nodes = 1 .. Len(f.nodes) /\ DOMAIN f.edges = 1 .. Len(f.edges)
      /\ DOMAIN nodes = 1 .. Len(nodes) /\ DOMAIN edges = 1 .. Len(edges)
      /\ Len(nodes) \in Nat /\ Len(edges) \in Nat
  <2>1. /\ f.nodes \in Seq(Held(f.nodes)) /\ f.edges \in Seq(Held(f.edges))
        /\ nodes \in Seq(Held(nodes)) /\ edges \in Seq(Held(edges))
    BY <1>1 DEF List
  <2> QED BY <2>1, ListIs, Zenon
<1>3. KnownNodes(f) = f.nodes
  <2> DEFINE set == {s \in ToSet(f.nodes) : s.element.type \in Registered(vertexTypeManager)}
  <2>1. f.nodes \in Seq(Held(f.nodes)) BY <1>1 DEF List
  <2>2. \A i \in 1 .. Len(f.nodes) : f.nodes[i] \in set BY <1>2 DEF ToSet, SameClass
  <2>3. KnownNodes(f) = Among(f.nodes, set) BY DEF KnownNodes
  <2> HIDE DEF set
  <2> QED BY <2>1, <2>2, <2>3, AmongAll
<1>4. KnownEdges(f) = f.edges
  <2> DEFINE set == {s \in ToSet(f.edges) : /\ s.element.type \in Registered(edgeTypeManager)
                                            /\ Attached(Ends(f.nodes, s))}
  <2>1. f.edges \in Seq(Held(f.edges)) BY <1>1 DEF List
  <2>2. \A i \in 1 .. Len(f.edges) : f.edges[i] \in set
    <3> TAKE i \in 1 .. Len(f.edges)
    <3>1. Attached(Ends(f.nodes, f.edges[i])) BY <1>2, EndsInPlace
    <3> QED BY <1>2, <3>1 DEF ToSet, SameClass
  <2>3. KnownEdges(f) = Among(f.edges, set) BY <1>3 DEF KnownEdges
  <2> HIDE DEF set
  <2> QED BY <2>1, <2>2, <2>3, AmongAll
<1>5. Appended(f, g, f.nodes, f.edges) BY <1>1, <1>3, <1>4, GraphMLAppends
<1> HIDE DEF g
<1>6. ASSUME NEW i \in DOMAIN f.nodes
      PROVE  /\ ComesBack(f.nodes[i], nodes'[i + Len(nodes)])
             /\ nodes'[i + Len(nodes)].uuid = f.nodes[i].element.uuid
  <2> DEFINE s == f.nodes[i]
             e == nodes'[i + Len(nodes)]
             c == Created(s.element.type, s.element.label)
  <2>1. s \in ToSet(f.nodes) /\ WellStored(s) BY DEF ToSet, FileOK
  <2>2. e = GraphMLNode(s)
    <3>1. i + Len(nodes) = Len(nodes) + i /\ i \in 1 .. Len(f.nodes) BY <1>2
    <3> QED BY <1>5, <3>1 DEF Appended, g
  <2>3. /\ c = [type |-> s.element.type, label |-> s.element.label,
                uuid |-> <<"prototype", s.element.type>>, values |-> Unset(s.element.type)]
        /\ GraphMLNode(s) = [c EXCEPT !.uuid = s.element.uuid,
                               !.values = Deserialized(vertexTypeManager, c.type, @, s.data, TRUE)]
    BY DEF Created, GraphMLNode, GraphMLElement
  <2>4. SameClass(vertexTypeManager, s) BY <2>1
  <2> HIDE DEF s, e, c
  <2>5. /\ e.type = s.element.type /\ e.label = s.element.label /\ e.uuid = s.element.uuid
        /\ e.values = Deserialized(vertexTypeManager, s.element.type, Unset(s.element.type), s.data, TRUE)
    BY <2>2, <2>3
  <2>6. ComesBack(s, e) BY <1>1, <2>1, <2>4, <2>5, ElementBack
  <2> QED BY <2>5, <2>6 DEF s, e
<1>7. ASSUME NEW i \in DOMAIN f.edges
      PROVE  /\ ComesBack(f.edges[i], edges'[i + Len(edges)])
             /\ edges'[i + Len(edges)].source = f.edges[i].element.source + Len(nodes)
             /\ edges'[i + Len(edges)].target = f.edges[i].element.target + Len(nodes)
  <2> DEFINE s == f.edges[i]
             e == edges'[i + Len(edges)]
             x == GraphMLEdge(s)
  <2>1. s \in ToSet(f.edges) /\ WellStored(s) BY DEF ToSet, FileOK
  <2>2. e = Over(Behind(Ends(f.nodes, s), Len(nodes)), x)
    <3>1. i + Len(edges) = Len(edges) + i /\ i \in 1 .. Len(f.edges) BY <1>2
    <3> QED BY <1>5, <3>1 DEF Appended, g
  <2>3. x = [type |-> s.element.type, label |-> s.element.label, uuid |-> s.element.uuid,
             values |-> Deserialized(edgeTypeManager, s.element.type, Unset(s.element.type), s.data, TRUE)]
    <3> DEFINE c == CreatedEdge(s.element.type, s.element.label)
    <3>1. /\ c = [type |-> s.element.type, label |-> s.element.label,
                  uuid |-> <<"prototype", s.element.type>>, values |-> Unset(s.element.type)]
          /\ x = [c EXCEPT !.uuid = s.element.uuid,
                   !.values = Deserialized(edgeTypeManager, s.element.type, @, s.data, TRUE)]
      BY DEF GraphMLEdge, CreatedEdge, Created
    <3> HIDE DEF c, s, x
    <3> QED BY <3>1
  <2>4. /\ SameClass(edgeTypeManager, s)
        /\ At(f.nodes, s.element.source) = s.element.source
        /\ At(f.nodes, s.element.target) = s.element.target
    BY <2>1, EndsInPlace
  <2> HIDE DEF s, e, x
  <2>5. /\ \A k \in {"type", "label", "uuid", "values"} \cap DOMAIN x : e[k] = x[k]
        /\ e.source = Behind(Ends(f.nodes, s), Len(nodes)).source
        /\ e.target = Behind(Ends(f.nodes, s), Len(nodes)).target
    BY <2>2, OverEnds DEF Behind
  <2>6. /\ e.type = s.element.type /\ e.label = s.element.label
        /\ e.values = Deserialized(edgeTypeManager, s.element.type, Unset(s.element.type), s.data, TRUE)
    BY <2>3, <2>5
  <2>7. ComesBack(s, e) BY <1>1, <2>1, <2>4, <2>6, ElementBack
  <2>8. /\ e.source = s.element.source + Len(nodes)
        /\ e.target = s.element.target + Len(nodes)
    BY <2>4, <2>5 DEF Behind, Ends
  <2> QED BY <2>7, <2>8 DEF s, e
<1>8. /\ Len(nodes') = Len(nodes) + Len(f.nodes) /\ Len(edges') = Len(edges) + Len(f.edges)
      /\ \A i \in DOMAIN nodes : nodes'[i] = nodes[i]
      /\ \A i \in DOMAIN edges : edges'[i] = edges[i]
  BY <1>2, <1>5 DEF Appended, g
<1> QED BY <1>6, <1>7, <1>8 DEF GraphMLComesBack

\* A program reads a file that another one with the same classes wrote without an
\* exception, and everything comes back: from GEXF all but the labels whose column
\* a class's attribute has taken, from GraphML everything if the file is XML.
THEOREM ProgramsReadEachOther == Spec => RoundTrip
<1>1. IOInv /\ [Next]_vars =>
        [\A name \in DOMAIN disk : ReadsOwn(name) =>
           LET f == disk[name] IN
           /\ f.format = "GEXF" => last'.outcome = "GEXF" /\ GexfComesBack(f)
           /\ f.format = "GRAPHML" /\ IsXml(f) =>
                last'.outcome = "GRAPHML" /\ GraphMLComesBack(f)]_vars
  <2> SUFFICES ASSUME IOInv, NEW name \in DOMAIN disk, ReadsOwn(name)
               PROVE  LET f == disk[name] IN
                      /\ f.format = "GEXF" => last'.outcome = "GEXF" /\ GexfComesBack(f)
                      /\ f.format = "GRAPHML" /\ IsXml(f) =>
                           last'.outcome = "GRAPHML" /\ GraphMLComesBack(f)
    BY Zenon
  <2> DEFINE f == disk[name]
  <2>1. FileOK(f) BY DEF IOInv
  <2>2. /\ f.intact
        /\ \A s \in ToSet(f.nodes) : SameClass(vertexTypeManager, s)
        /\ \A s \in ToSet(f.edges) : SameClass(edgeTypeManager, s)
    BY DEF ReadsOwn
  <2>3. PICK format \in Requested : Resolved(name, format) = f.format /\ Read(name, format)
    BY DEF ReadsOwn
  <2>4. ASSUME f.format \in Readers
        PROVE  LET g == ReadGraph(f, f.format) IN
               /\ nodes' = g.nodes /\ edges' = g.edges
               /\ last'.outcome = IF g.throws THEN "throws" ELSE f.format
    BY <2>3, <2>4, ReadsIn
  <2> HIDE DEF f
  <2>5. ASSUME f.format = "GEXF" PROVE last'.outcome = "GEXF" /\ GexfComesBack(f)
    <3>1. f.format \in Readers BY <2>5 DEF Readers
    <3>2. ReadGraph(f, "GEXF") = GexfGraph(f) BY <2>5 DEF ReadGraph
    <3>3. /\ nodes' = GexfGraph(f).nodes /\ edges' = GexfGraph(f).edges
          /\ last'.outcome = IF GexfGraph(f).throws THEN "throws" ELSE "GEXF"
      BY <2>4, <2>5, <3>1, <3>2
    <3>4. GexfComesBack(f) /\ ~GexfGraph(f).throws BY <2>1, <2>2, <2>5, <3>3, GexfBack
    <3> QED BY <3>3, <3>4
  <2>6. ASSUME f.format = "GRAPHML", IsXml(f)
        PROVE  last'.outcome = "GRAPHML" /\ GraphMLComesBack(f)
    <3>1. f.format \in Readers BY <2>6 DEF Readers
    <3>2. ReadGraph(f, "GRAPHML") = GraphMLGraph(f) BY <2>6 DEF ReadGraph
    <3>3. /\ nodes' = GraphMLGraph(f).nodes /\ edges' = GraphMLGraph(f).edges
          /\ last'.outcome = IF GraphMLGraph(f).throws THEN "throws" ELSE "GRAPHML"
      BY <2>4, <2>6, <3>1, <3>2
    <3>4. ~GraphMLGraph(f).throws BY DEF GraphMLGraph
    <3>5. GraphMLComesBack(f) BY <2>1, <2>2, <2>6, <3>3, GraphMLBack
    <3> QED BY <3>3, <3>4, <3>5
  <2> QED BY <2>5, <2>6 DEF f
<1> QED BY <1>1, FilesAreSound, PTL DEF Spec, RoundTrip

-----------------------------------------------------------------------------
\* The edges GraphML adds connect what they connected in the file, under the
\* vertices' own uuids.
LEMMA EndsStay ==
  ASSUME IOInv, NEW f, FileOK(f), nodes' = GraphMLGraph(f).nodes, edges' = GraphMLGraph(f).edges
  PROVE  ConnectAsIn(f)
<1> DEFINE known == KnownNodes(f)
           read == KnownEdges(f)
           g == GraphMLGraph(f)
<1>1. List(nodes) /\ List(edges) BY DEF IOInv, Sound
<1>2. Appended(f, g, known, read) BY <1>1, GraphMLAppends
<1>3. nodes' = g.nodes /\ edges' = g.edges OBVIOUS
<1> HIDE DEF known, read, g
<1>4. /\ DOMAIN g.edges = 1 .. Len(edges) + Len(read) /\ DOMAIN edges = 1 .. Len(edges)
      /\ Len(nodes) \in Nat /\ Len(edges) \in Nat /\ Len(read) \in Nat
      /\ DOMAIN known = 1 .. Len(known) /\ Len(known) \in Nat
  <2>1. /\ g.edges \in Seq(Held(g.edges)) /\ edges \in Seq(Held(edges)) /\ nodes \in Seq(Held(nodes))
        /\ known \in Seq(Held(known)) /\ read \in Seq(Held(read))
    BY <1>1, <1>2 DEF Appended, List
  <2>2. /\ DOMAIN g.edges = 1 .. Len(g.edges) /\ DOMAIN edges = 1 .. Len(edges)
        /\ Len(nodes) \in Nat /\ Len(edges) \in Nat /\ Len(known) \in Nat /\ Len(read) \in Nat
    BY <2>1, ListIs, Zenon
  <2> QED BY <1>2, <2>2 DEF Appended
\* The vertex an end was found at is the one with the end's id.
<1>5. ASSUME NEW id, At(known, id) # 0
      PROVE  /\ At(known, id) \in 1 .. Len(known)
             /\ \E t \in ToSet(f.nodes) : /\ t.id = id
                                          /\ t.element.uuid = g.nodes[At(known, id) + Len(nodes)].uuid
  <2> DEFINE k == At(known, id)
  <2>1. k \in 1 .. Len(known) /\ known[k].id = id
    <3>1. known \in Seq(Held(known)) BY <1>2 DEF Appended, List
    <3> QED BY <1>4, <1>5, <3>1, AtFinds
  <2> HIDE DEF k
  <2>2. g.nodes[Len(nodes) + k] = GraphMLNode(known[k]) /\ known[k] \in Held(f.nodes)
    BY <1>2, <2>1 DEF Appended
  <2>3. k + Len(nodes) = Len(nodes) + k BY <1>4, <2>1
  <2>4. GraphMLNode(known[k]).uuid = known[k].element.uuid
    BY DEF GraphMLNode, GraphMLElement, Created
  <2>5. known[k] \in ToSet(f.nodes) BY <2>2, HeldIsToSet
  <2> QED BY <2>1, <2>2, <2>3, <2>4, <2>5 DEF k
<1>6. ASSUME NEW i \in DOMAIN g.edges \ DOMAIN edges
      PROVE  \E s \in ToSet(f.edges) :
               /\ g.edges[i].uuid = s.element.uuid
               /\ \E t \in ToSet(f.nodes) : /\ t.id = s.element.source
                                            /\ t.element.uuid = g.nodes[g.edges[i].source].uuid
               /\ \E t \in ToSet(f.nodes) : /\ t.id = s.element.target
                                            /\ t.element.uuid = g.nodes[g.edges[i].target].uuid
  <2> DEFINE j == i - Len(edges)
  <2>1. j \in 1 .. Len(read) /\ Len(edges) + j = i BY <1>4
  <2> DEFINE s == read[j]
             x == GraphMLEdge(s)
             e == g.edges[i]
  <2>2. e = Over(Behind(Ends(known, s), Len(nodes)), x) /\ s \in Held(f.edges)
        /\ Attached(Ends(known, s))
    BY <1>2, <2>1 DEF Appended
  <2>3. "uuid" \in DOMAIN x /\ x.uuid = s.element.uuid
    BY DEF GraphMLEdge, CreatedEdge, Created
  <2> HIDE DEF j, s, x, e
  <2>4. /\ e.source = At(known, s.element.source) + Len(nodes)
        /\ e.target = At(known, s.element.target) + Len(nodes)
        /\ e.uuid = s.element.uuid
    BY <2>2, <2>3, OverEnds DEF Behind, Ends
  <2>5. At(known, s.element.source) # 0 /\ At(known, s.element.target) # 0
    BY <2>2 DEF Attached, Ends
  <2>6. s \in ToSet(f.edges) BY <2>2, HeldIsToSet
  <2>7. \E t \in ToSet(f.nodes) : t.id = s.element.source /\ t.element.uuid = g.nodes[e.source].uuid
    BY <1>5, <2>4, <2>5
  <2>8. \E t \in ToSet(f.nodes) : t.id = s.element.target /\ t.element.uuid = g.nodes[e.target].uuid
    BY <1>5, <2>4, <2>5
  <2> QED BY <2>4, <2>6, <2>7, <2>8 DEF e
<1> QED BY <1>3, <1>6 DEF ConnectAsIn

\* Whatever classes the reading program has and whatever was edited out: no edge
\* read from GraphML connects other vertices than in the file.
THEOREM EndsAreKept == Spec => EdgesKeepTheirEnds
<1>1. IOInv /\ [Next]_vars =>
        [last'.call = "read" /\ last'.outcome = "GRAPHML" => ConnectAsIn(disk[last'.name])]_vars
  <2> SUFFICES ASSUME IOInv, Next, last'.call = "read", last'.outcome = "GRAPHML"
               PROVE  ConnectAsIn(disk[last'.name])
    OBVIOUS
  <2> DEFINE f == disk[last'.name]
             g == ReadGraph(f, "GRAPHML")
  <2>1. last'.name \in DOMAIN disk /\ nodes' = g.nodes /\ edges' = g.edges BY ReadsOne
  <2>2. FileOK(f) BY <2>1 DEF IOInv
  <2> HIDE DEF f
  <2>3. CASE f.format = "GRAPHML" /\ IsXml(f)
    <3>1. g = GraphMLGraph(f) BY <2>3 DEF ReadGraph
    <3> HIDE DEF g
    <3> QED BY <2>1, <2>2, <3>1, EndsStay DEF f
  <2>4. CASE ~(f.format = "GRAPHML" /\ IsXml(f))
    <3>1. g.edges = edges BY <2>4 DEF ReadGraph
    <3> HIDE DEF g
    <3>2. DOMAIN edges' \ DOMAIN edges = {} BY <2>1, <3>1
    <3> QED BY <3>2 DEF ConnectAsIn
  <2> QED BY <2>3, <2>4
<1> QED BY <1>1, FilesAreSound, PTL DEF Spec, EdgesKeepTheirEnds

=============================================================================
