-------------------------- MODULE ShortestPathsProofs --------------------------
(***************************************************************************)
(* Floyd and Warshall's algorithm finds shortest paths, for every graph,   *)
(* all weights and either answer to detectNegativeCycle.  First walks, how *)
(* they are cut, joined and shortened; then the matrix, which is never     *)
(* below a walk there is and, for the walks the loops have been through,   *)
(* never above one; at last the walks along the edges of the graph itself. *)
(***************************************************************************)
EXTENDS ShortestPaths, DataInduction

Costs == Int \cup {Infinity}
Steps == Nat \ {0}

\* The matrices the loops begin with: weights of pairs.
Weighings == UNION {[ps -> Int] : ps \in SUBSET (Nodes \X Nodes)}

\* The nodes s of a walk of n steps, with c[x] the weight of its first x.
Walk(m, n, s, c) ==
  /\ s \in [0 .. n -> Nodes] /\ c \in [0 .. n -> Int] /\ c[0] = 0
  /\ \A x \in 0 .. n - 1 : /\ <<s[x], s[x + 1]>> \in DOMAIN m
                           /\ c[x + 1] = c[x] + m[<<s[x], s[x + 1]>>]

\* A walk of n steps and weight w leads from u to v, through nodes of S only.
Leads(m, S, u, v, n, w) ==
  \E s, c : /\ Walk(m, n, s, c) /\ s[0] = u /\ s[n] = v /\ c[n] = w
            /\ \A x \in 1 .. n - 1 : s[x] \in S

\* The part of a walk from its a-th node to its b-th.
Part(s, a, b) == [x \in 0 .. b - a |-> s[x + a]]
Cost(c, a, b) == [x \in 0 .. b - a |-> c[x + a] - c[a]]

\* A part of a walk is a walk.
LEMMA PartOfWalk ==
  ASSUME NEW m \in Weighings, NEW n \in Nat, NEW s, NEW c, Walk(m, n, s, c),
         NEW a \in 0 .. n, NEW b \in a .. n
  PROVE  Walk(m, b - a, Part(s, a, b), Cost(c, a, b))
<1> DEFINE t == Part(s, a, b)
           d == Cost(c, a, b)
<1>1. \A x \in 0 .. b - a : x + a \in 0 .. n /\ t[x] = s[x + a] /\ d[x] = c[x + a] - c[a]
  BY DEF Part, Cost
<1>2. t \in [0 .. b - a -> Nodes] /\ d \in [0 .. b - a -> Int]
  <2>1. \A x \in 0 .. b - a : s[x + a] \in Nodes /\ c[x + a] - c[a] \in Int
    <3> TAKE x \in 0 .. b - a
    <3>1. x + a \in 0 .. n /\ a \in 0 .. n OBVIOUS
    <3> QED BY <3>1 DEF Walk
  <2> QED BY <2>1 DEF Part, Cost
<1>3. d[0] = 0 BY <1>1 DEF Walk
<1>4. ASSUME NEW x \in 0 .. (b - a) - 1
      PROVE  <<t[x], t[x + 1]>> \in DOMAIN m /\ d[x + 1] = d[x] + m[<<t[x], t[x + 1]>>]
  <2>1. /\ x \in 0 .. b - a /\ x + 1 \in 0 .. b - a /\ (x + 1) + a = (x + a) + 1
        /\ x + a \in 0 .. n - 1 /\ x + a \in 0 .. n /\ (x + a) + 1 \in 0 .. n
    OBVIOUS
  <2>2. t[x] = s[x + a] /\ t[x + 1] = s[(x + a) + 1] BY <1>1, <2>1
  <2>3. <<s[x + a], s[(x + a) + 1]>> \in DOMAIN m BY <2>1 DEF Walk
  <2>4. c[(x + a) + 1] = c[x + a] + m[<<s[x + a], s[(x + a) + 1]>>] BY <2>1 DEF Walk
  <2>5. m[<<s[x + a], s[(x + a) + 1]>>] \in Int BY <2>3 DEF Weighings
  <2>6. c[x + a] \in Int /\ c[a] \in Int /\ c[(x + a) + 1] \in Int BY <2>1 DEF Walk
  <2>7. d[x] = c[x + a] - c[a] /\ d[x + 1] = c[(x + a) + 1] - c[a] BY <1>1, <2>1
  <2> QED BY <2>2, <2>3, <2>4, <2>5, <2>6, <2>7
<1> HIDE DEF t, d
<1> QED BY <1>2, <1>3, <1>4 DEF Walk, t, d

\* It leads from its first node to its last.
LEMMA PartLeads ==
  ASSUME NEW m \in Weighings, NEW n \in Nat, NEW s, NEW c, Walk(m, n, s, c),
         NEW a \in 0 .. n, NEW b \in a .. n, NEW S,
         \A x \in 0 .. n : a < x /\ x < b => s[x] \in S
  PROVE  Leads(m, S, s[a], s[b], b - a, c[b] - c[a])
<1>1. Walk(m, b - a, Part(s, a, b), Cost(c, a, b)) BY PartOfWalk
<1>2. /\ Part(s, a, b)[0] = s[a] /\ Part(s, a, b)[b - a] = s[b]
      /\ Cost(c, a, b)[b - a] = c[b] - c[a]
  BY DEF Part, Cost
<1>3. \A x \in 1 .. (b - a) - 1 : Part(s, a, b)[x] \in S BY DEF Part
<1> QED BY <1>1, <1>2, <1>3 DEF Leads

\* Two walks are joined where one ends and the other begins.
LEMMA JoinLeads ==
  ASSUME NEW m \in Weighings, NEW S \in SUBSET Nodes, NEW u, NEW y \in S, NEW v,
         NEW n \in Steps, NEW l \in Steps, NEW a, NEW b,
         Leads(m, S, u, y, n, a), Leads(m, S, y, v, l, b)
  PROVE  Leads(m, S, u, v, n + l, a + b)
<1>1. PICK s, c : /\ Walk(m, n, s, c) /\ s[0] = u /\ s[n] = y /\ c[n] = a
                  /\ \A x \in 1 .. n - 1 : s[x] \in S
  BY DEF Leads
<1>2. PICK t, d : /\ Walk(m, l, t, d) /\ t[0] = y /\ t[l] = v /\ d[l] = b
                  /\ \A x \in 1 .. l - 1 : t[x] \in S
  BY DEF Leads
<1> DEFINE r == [x \in 0 .. n + l |-> IF x <= n THEN s[x] ELSE t[x - n]]
           e == [x \in 0 .. n + l |-> IF x <= n THEN c[x] ELSE a + d[x - n]]
<1>3. /\ n \in Nat /\ l \in Nat /\ n > 0 /\ l > 0 BY DEF Steps
<1>4. a \in Int /\ b \in Int /\ d[0] = 0 BY <1>1, <1>2, <1>3 DEF Walk
<1>5. /\ \A x \in 0 .. n : r[x] = s[x] /\ e[x] = c[x]
      /\ \A x \in 0 .. l : r[n + x] = t[x] /\ e[n + x] = a + d[x]
  <2>1. \A x \in 0 .. n : r[x] = s[x] /\ e[x] = c[x] BY <1>3
  <2>2. ASSUME NEW x \in 0 .. l PROVE r[n + x] = t[x] /\ e[n + x] = a + d[x]
    <3>1. CASE x = 0 BY <1>1, <1>2, <1>3, <1>4, <3>1
    <3>2. CASE x # 0
      <4>1. n + x \in 0 .. n + l /\ ~(n + x <= n) /\ (n + x) - n = x BY <1>3, <3>2
      <4> QED BY <4>1
    <3> QED BY <3>1, <3>2
  <2> QED BY <2>1, <2>2
<1>6. r \in [0 .. n + l -> Nodes] /\ e \in [0 .. n + l -> Int]
  <2>1. ASSUME NEW x \in 0 .. n + l
        PROVE  (IF x <= n THEN s[x] ELSE t[x - n]) \in Nodes
               /\ (IF x <= n THEN c[x] ELSE a + d[x - n]) \in Int
    <3>1. CASE x <= n BY <1>1, <1>3, <3>1 DEF Walk
    <3>2. CASE ~(x <= n)
      <4>1. x - n \in 0 .. l BY <1>3, <3>2
      <4> QED BY <1>2, <1>4, <3>2, <4>1 DEF Walk
    <3> QED BY <3>1, <3>2
  <2> QED BY <2>1
<1> HIDE DEF r, e
<1>7. ASSUME NEW x \in 0 .. (n + l) - 1
      PROVE  <<r[x], r[x + 1]>> \in DOMAIN m /\ e[x + 1] = e[x] + m[<<r[x], r[x + 1]>>]
  <2>1. CASE x < n
    <3>1. x \in 0 .. n - 1 /\ x \in 0 .. n /\ x + 1 \in 0 .. n BY <1>3, <2>1
    <3> QED BY <3>1, <1>1, <1>5 DEF Walk
  <2>2. CASE ~(x < n)
    <3>0. PICK z \in 0 .. l - 1 : x = n + z
      <4>1. x - n \in 0 .. l - 1 /\ x = n + (x - n) BY <1>3, <2>2
      <4> QED BY <4>1
    <3>1. z \in 0 .. l /\ z + 1 \in 0 .. l /\ x + 1 = n + (z + 1) BY <1>3, <3>0
    <3>2. <<t[z], t[z + 1]>> \in DOMAIN m /\ d[z + 1] = d[z] + m[<<t[z], t[z + 1]>>]
      BY <1>2 DEF Walk
    <3>3. m[<<t[z], t[z + 1]>>] \in Int /\ d[z] \in Int BY <1>2, <3>1, <3>2 DEF Weighings, Walk
    <3>4. r[x] = t[z] /\ r[x + 1] = t[z + 1] /\ e[x] = a + d[z] /\ e[x + 1] = a + d[z + 1]
      BY <1>5, <3>0, <3>1
    <3> QED BY <3>2, <3>3, <3>4, <1>4
  <2> QED BY <2>1, <2>2
<1>8. e[0] = 0 /\ r[0] = u
  BY <1>1, <1>3, <1>5 DEF Walk
<1>9. r[n + l] = v /\ e[n + l] = a + b BY <1>2, <1>3, <1>5
<1>10. ASSUME NEW x \in 1 .. (n + l) - 1 PROVE r[x] \in S
  <2>1. CASE x < n BY <2>1, <1>1, <1>3, <1>5
  <2>2. CASE x = n BY <2>2, <1>1, <1>3, <1>5
  <2>3. CASE x > n
    <3>1. x - n \in 1 .. l - 1 /\ x - n \in 0 .. l /\ x = n + (x - n) BY <1>3, <2>3
    <3> QED BY <3>1, <1>2, <1>5
  <2> QED BY <1>3, <2>1, <2>2, <2>3
<1>11. Walk(m, n + l, r, e) BY <1>6, <1>7, <1>8 DEF Walk
<1> QED BY <1>8, <1>9, <1>10, <1>11 DEF Leads

\* A walk has its weight, and is one of more nodes.
LEMMA LeadsTypes ==
  ASSUME NEW m \in Weighings, NEW S, NEW u, NEW v, NEW n \in Nat, NEW w,
         Leads(m, S, u, v, n, w)
  PROVE  /\ u \in Nodes /\ v \in Nodes /\ w \in Int
         /\ \A T : S \subseteq T => Leads(m, T, u, v, n, w)
<1>1. PICK s, c : /\ Walk(m, n, s, c) /\ s[0] = u /\ s[n] = v /\ c[n] = w
                  /\ \A x \in 1 .. n - 1 : s[x] \in S
  BY DEF Leads
<1>2. 0 \in 0 .. n /\ n \in 0 .. n OBVIOUS
<1>3. u \in Nodes /\ v \in Nodes /\ w \in Int BY <1>1, <1>2 DEF Walk
<1> QED BY <1>1, <1>3 DEF Leads

\* Walks of one step are the pairs of the matrix.
LEMMA OneStep ==
  ASSUME NEW m \in Weighings, NEW S, NEW u \in Nodes, NEW v \in Nodes, NEW w
  PROVE  Leads(m, S, u, v, 1, w) <=> <<u, v>> \in DOMAIN m /\ w = m[<<u, v>>]
<1>1. ASSUME Leads(m, S, u, v, 1, w) PROVE <<u, v>> \in DOMAIN m /\ w = m[<<u, v>>]
  <2>1. PICK s, c : Walk(m, 1, s, c) /\ s[0] = u /\ s[1] = v /\ c[1] = w
    BY <1>1 DEF Leads
  <2>2. 0 \in 0 .. 1 - 1 /\ 0 + 1 = 1 OBVIOUS
  <2>3. <<s[0], s[1]>> \in DOMAIN m /\ c[1] = c[0] + m[<<s[0], s[1]>>] /\ c[0] = 0
    BY <2>1, <2>2 DEF Walk
  <2>4. m[<<u, v>>] \in Int BY <2>1, <2>3 DEF Weighings
  <2> QED BY <2>1, <2>3, <2>4
<1>2. ASSUME <<u, v>> \in DOMAIN m, w = m[<<u, v>>] PROVE Leads(m, S, u, v, 1, w)
  <2> DEFINE s == [x \in 0 .. 1 |-> IF x = 0 THEN u ELSE v]
             c == [x \in 0 .. 1 |-> IF x = 0 THEN 0 ELSE w]
  <2>1. w \in Int BY <1>2 DEF Weighings
  <2>2. /\ s \in [0 .. 1 -> Nodes] /\ c \in [0 .. 1 -> Int]
        /\ c[0] = 0 /\ s[0] = u /\ s[1] = v /\ c[1] = w
    BY <2>1
  <2> HIDE DEF s, c
  <2>3. \A x \in 0 .. 1 - 1 : x = 0 /\ x + 1 = 1 OBVIOUS
  <2>4. Walk(m, 1, s, c) BY <1>2, <2>1, <2>2, <2>3 DEF Walk
  <2>5. \A x \in 1 .. 1 - 1 : FALSE OBVIOUS
  <2> QED BY <2>2, <2>4, <2>5 DEF Leads
<1> QED BY <1>1, <1>2

\* A walk through S and y that leads to y, may come back to it, and goes on.
Passes(m, S, y, u, v, n, w) ==
  \E a, b \in Steps, x, z, q \in Int, l \in Nat :
    /\ Leads(m, S, u, y, a, x) /\ Leads(m, S, y, v, b, z)
    /\ n = a + l + b /\ w = x + q + z
    /\ (l = 0 /\ q = 0) \/ (l # 0 /\ Leads(m, S \cup {y}, y, y, l, q))

\* A walk that may pass y does not, or is cut where it is there first and last.
LEMMA CutAt ==
  ASSUME NEW m \in Weighings, NEW S \in SUBSET Nodes, NEW y \in Nodes,
         NEW u, NEW v, NEW n \in Steps, NEW w, Leads(m, S \cup {y}, u, v, n, w)
  PROVE  Leads(m, S, u, v, n, w) \/ Passes(m, S, y, u, v, n, w)
<1>0. n \in Nat /\ n > 0 BY DEF Steps
<1>1. PICK s, c : /\ Walk(m, n, s, c) /\ s[0] = u /\ s[n] = v /\ c[n] = w
                  /\ \A x \in 1 .. n - 1 : s[x] \in S \cup {y}
  BY DEF Leads
<1> DEFINE There == {x \in 1 .. n - 1 : s[x] = y}
<1>2. CASE There = {}
  <2>1. \A x \in 1 .. n - 1 : s[x] \in S BY <1>1, <1>2
  <2> QED BY <1>1, <2>1 DEF Leads
<1>3. CASE There # {}
  <2>1. There \subseteq Nat BY <1>0
  <2>2. PICK f \in There : \A x \in There : f <= x BY <1>3, <2>1, LeastNatural
  <2>3. PICK g \in There : \A x \in There : g >= x
    <3> DEFINE Back == {t \in Nat : n - t \in There}
    <3>1. n - f \in Back BY <1>0, <2>2
    <3>2. PICK t \in Back : \A x \in Back : t <= x
      <4>1. Back \subseteq Nat /\ Back # {} BY <3>1
      <4> QED BY <4>1, LeastNatural
    <3>3. \A x \in There : n - x \in Back BY <1>0, <2>1
    <3>4. n - t \in There /\ \A x \in There : n - t >= x BY <1>0, <2>1, <3>2, <3>3
    <3> QED BY <3>4
  <2>4. f \in 1 .. n - 1 /\ g \in 1 .. n - 1 /\ f <= g /\ s[f] = y /\ s[g] = y
    BY <2>2, <2>3
  <2>5. /\ 0 \in 0 .. n /\ f \in 0 .. n /\ g \in f .. n /\ g \in 0 .. n /\ n \in g .. n
        /\ f \in Steps /\ n - g \in Steps
    BY <1>0, <2>4 DEF Steps
  <2>6. \A x \in 0 .. n : x < f /\ 0 < x => s[x] \in S
    BY <1>0, <1>1, <2>2, <2>4
  <2>7. \A x \in 0 .. n : g < x /\ x < n => s[x] \in S
    BY <1>0, <1>1, <2>3, <2>4
  <2>8. \A x \in 0 .. n : f < x /\ x < g => s[x] \in S \cup {y}
    BY <1>0, <1>1, <2>4
  <2>9. Leads(m, S, u, y, f - 0, c[f] - c[0])
    <3>1. f \in 0 .. n /\ 0 \in 0 .. n /\ n \in Nat BY <1>0, <2>5
    <3>2. \A x \in 0 .. n : 0 < x /\ x < f => s[x] \in S BY <2>6
    <3>3. Leads(m, S, s[0], s[f], f - 0, c[f] - c[0]) BY <1>1, <3>1, <3>2, PartLeads
    <3> QED BY <1>1, <2>4, <3>3
  <2>10. Leads(m, S, y, v, n - g, c[n] - c[g])
    <3>1. n \in Nat BY <1>0
    <3>2. Leads(m, S, s[g], s[n], n - g, c[n] - c[g]) BY <1>1, <2>5, <2>7, <3>1, PartLeads
    <3> QED BY <1>1, <2>4, <3>2
  <2>11. Leads(m, S \cup {y}, y, y, g - f, c[g] - c[f])
    <3>1. n \in Nat BY <1>0
    <3>2. Leads(m, S \cup {y}, s[f], s[g], g - f, c[g] - c[f])
      BY <1>1, <2>5, <2>8, <3>1, PartLeads
    <3> QED BY <2>4, <3>2
  <2>12. c[0] = 0 /\ c[f] \in Int /\ c[g] \in Int /\ c[n] = w /\ w \in Int
    BY <1>1, <2>5 DEF Walk
  <2>13. Leads(m, S, u, y, f, c[f])
    <3>1. f - 0 = f /\ c[f] - c[0] = c[f] BY <2>5, <2>12
    <3> QED BY <2>9, <3>1
  <2> DEFINE l == g - f
             q == c[g] - c[f]
             b == n - g
             z == c[n] - c[g]
  <2>14. l \in Nat /\ q \in Int /\ b \in Steps /\ z \in Int /\ n = f + l + b /\ w = c[f] + q + z
    BY <1>0, <2>4, <2>5, <2>12
  <2>15. l = 0 => q = 0 BY <1>0, <2>4, <2>12
  <2>16. Leads(m, S, y, v, b, z) /\ Leads(m, S \cup {y}, y, y, l, q) BY <2>10, <2>11
  <2> HIDE DEF l, q, b, z
  <2> QED BY <2>5, <2>12, <2>13, <2>14, <2>15, <2>16 DEF Passes
<1> QED BY <1>2, <1>3

\* A walk of more than N steps passes a node twice: a cycle of at most N steps
\* can be taken out of it.
LEMMA CycleIn ==
  ASSUME NEW m \in Weighings, NEW u, NEW v, NEW n \in Steps, n > N, NEW w,
         Leads(m, Nodes, u, v, n, w)
  PROVE  \E l \in 1 .. N, q \in Int, y \in Nodes :
           /\ Leads(m, Nodes, y, y, l, q)
           /\ n - l \in Steps /\ Leads(m, Nodes, u, v, n - l, w - q)
<1>0. n \in Nat /\ N \in Nat /\ N > 0 /\ n > 0 BY PathAssumption DEF Steps
<1>1. PICK s, c : /\ Walk(m, n, s, c) /\ s[0] = u /\ s[n] = v /\ c[n] = w
  BY DEF Leads
<1>2. PICK a, b \in 0 .. N : a # b /\ s[a] = s[b]
  <2> DEFINE f == [x \in 0 .. N |-> s[x]]
  <2>1. f \in [0 .. N -> Nodes]
    <3>1. \A x \in 0 .. N : x \in 0 .. n BY <1>0
    <3> QED BY <1>1, <3>1 DEF Walk
  <2>2. /\ IsFiniteSet(0 .. N) /\ Cardinality(0 .. N) = N - 0 + 1
        /\ IsFiniteSet(Nodes) /\ Cardinality(Nodes) = N - 1 + 1
    BY <1>0, FS_Interval DEF Nodes
  <2>3. Cardinality(Nodes) < Cardinality(0 .. N) BY <1>0, <2>2
  <2>4. \E x, y \in 0 .. N : x # y /\ f[x] = f[y]
    <3> HIDE DEF f
    <3> QED BY <2>1, <2>2, <2>3, FS_PigeonHole
  <2> QED BY <2>4
<1>3. ASSUME NEW x \in 0 .. N, NEW z \in 0 .. N, x < z, s[x] = s[z]
      PROVE  \E l \in 1 .. N, q \in Int, y \in Nodes :
               /\ Leads(m, Nodes, y, y, l, q)
               /\ n - l \in Steps /\ Leads(m, Nodes, u, v, n - l, w - q)
  <2> DEFINE l == z - x
             q == c[z] - c[x]
             y == s[x]
  <2>1. /\ x \in 0 .. n /\ z \in 0 .. n /\ z \in x .. n /\ l \in 1 .. N /\ n - l \in Steps
        /\ 0 \in 0 .. n /\ n \in 0 .. n /\ n \in z .. n
    BY <1>0, <1>3 DEF Steps
  <2>2. \A t \in 0 .. n : s[t] \in Nodes /\ c[t] \in Int BY <1>1 DEF Walk
  <2>3. y \in Nodes /\ q \in Int /\ c[x] \in Int /\ c[z] \in Int BY <2>1, <2>2
  <2>4. Leads(m, Nodes, y, y, l, q)
    <3>1. n \in Nat BY <1>0
    <3>2. Leads(m, Nodes, s[x], s[z], z - x, c[z] - c[x])
      BY <1>1, <2>1, <2>2, <3>1, PartLeads
    <3> QED BY <1>3, <3>2
  <2> DEFINE r == [t \in 0 .. n - l |-> IF t <= x THEN s[t] ELSE s[t + l]]
             e == [t \in 0 .. n - l |-> IF t <= x THEN c[t] ELSE c[t + l] - q]
  <2>5. \A t \in 0 .. n - l : t \in 0 .. n /\ t + l \in 0 .. n BY <1>0, <2>1
  <2>6. r \in [0 .. n - l -> Nodes] /\ e \in [0 .. n - l -> Int]
    <3>1. q \in Int /\ \A t \in 0 .. n - l : c[t + l] - q \in Int BY <2>2, <2>3, <2>5
    <3> HIDE DEF l, q
    <3> QED BY <2>2, <2>5, <3>1
  <2>7. /\ \A t \in 0 .. n - l : t <= x => r[t] = s[t] /\ e[t] = c[t]
        /\ \A t \in 0 .. n - l : x <= t => r[t] = s[t + l] /\ e[t] = c[t + l] - q
    <3>1. \A t \in 0 .. n - l : t <= x => r[t] = s[t] /\ e[t] = c[t] OBVIOUS
    <3>2. ASSUME NEW t \in 0 .. n - l, x <= t PROVE r[t] = s[t + l] /\ e[t] = c[t + l] - q
      <4>1. CASE t = x
        <5>1. t + l = z BY <1>0, <4>1
        <5>2. c[t + l] - q = c[x] BY <2>3, <5>1
        <5> QED BY <1>3, <4>1, <5>1, <5>2
      <4>2. CASE t # x
        <5>1. ~(t <= x) BY <1>0, <3>2, <4>2
        <5> QED BY <5>1
      <4> QED BY <4>1, <4>2
    <3> QED BY <3>1, <3>2
  <2> HIDE DEF r, e
  <2>8. ASSUME NEW t \in 0 .. (n - l) - 1
        PROVE  <<r[t], r[t + 1]>> \in DOMAIN m /\ e[t + 1] = e[t] + m[<<r[t], r[t + 1]>>]
    <3>0. t \in 0 .. n - l /\ t + 1 \in 0 .. n - l BY <1>0, <2>1
    <3>1. CASE t < x
      <4>1. t <= x /\ t + 1 <= x /\ t \in 0 .. n - 1 BY <1>0, <2>1, <3>1
      <4> QED BY <1>1, <2>7, <3>0, <4>1 DEF Walk
    <3>2. CASE ~(t < x)
      <4>1. x <= t /\ x <= t + 1 /\ t + l \in 0 .. n - 1 /\ (t + 1) + l = (t + l) + 1
        BY <1>0, <2>1, <3>2
      <4>2. <<s[t + l], s[(t + l) + 1]>> \in DOMAIN m
            /\ c[(t + l) + 1] = c[t + l] + m[<<s[t + l], s[(t + l) + 1]>>]
        BY <1>1, <4>1 DEF Walk
      <4>3. m[<<s[t + l], s[(t + l) + 1]>>] \in Int BY <4>2 DEF Weighings
      <4>4. c[t + l] \in Int BY <2>2, <2>5, <3>0
      <4>5. /\ r[t] = s[t + l] /\ e[t] = c[t + l] - q
            /\ r[t + 1] = s[(t + l) + 1] /\ e[t + 1] = c[(t + l) + 1] - q
        BY <2>7, <3>0, <4>1
      <4> HIDE DEF q, l
      <4> QED BY <2>3, <4>2, <4>3, <4>4, <4>5
    <3> QED BY <3>1, <3>2
  <2>9. e[0] = 0 /\ r[0] = u
    <3>1. 0 \in 0 .. n - l /\ 0 <= x BY <1>0, <2>1
    <3> QED BY <1>1, <2>7, <3>1 DEF Walk
  <2>10. r[n - l] = v /\ e[n - l] = w - q
    <3>1. n - l \in 0 .. n - l /\ x <= n - l /\ (n - l) + l = n BY <1>0, <2>1
    <3> QED BY <1>1, <2>7, <3>1
  <2>11. Walk(m, n - l, r, e) BY <2>6, <2>8, <2>9 DEF Walk
  <2>12. \A t \in 1 .. (n - l) - 1 : r[t] \in Nodes
    <3>1. \A t \in 1 .. (n - l) - 1 : t \in 0 .. n - l BY <1>0, <2>1
    <3> QED BY <2>6, <3>1
  <2>13. Leads(m, Nodes, u, v, n - l, w - q) BY <2>9, <2>10, <2>11, <2>12 DEF Leads
  <2> QED BY <2>1, <2>3, <2>4, <2>13
<1>4. a < b \/ b < a BY <1>0, <1>2
<1> QED BY <1>2, <1>3, <1>4

-----------------------------------------------------------------------------
\* No walk of at most N steps leads through S back to where it was in S at a
\* negative weight.
NoNegative(m, S) ==
  \A v \in S, n \in 1 .. N, w \in Int : Leads(m, S, v, v, n, w) => w >= 0

\* If there are no negative cycles, every walk can be shortened to N steps.
LEMMA Shortened ==
  ASSUME NEW m \in Weighings, NoNegative(m, Nodes), NEW u, NEW v
  PROVE  \A n \in Steps, w \in Int : Leads(m, Nodes, u, v, n, w) =>
           \E l \in 1 .. N, q \in Int : Leads(m, Nodes, u, v, l, q) /\ q <= w
<1> DEFINE Short(n, w) == \E l \in 1 .. N, q \in Int : Leads(m, Nodes, u, v, l, q) /\ q <= w
           Long == {n \in Nat : n # 0 /\ \E w \in Int : Leads(m, Nodes, u, v, n, w) /\ ~Short(n, w)}
<1> SUFFICES ASSUME Long # {} PROVE FALSE BY DEF Steps
<1>1. PICK n \in Long : \A x \in Long : n <= x
  <2>1. Long \subseteq Nat OBVIOUS
  <2> HIDE DEF Long
  <2> QED BY <2>1, LeastNatural
<1>2. PICK w \in Int : Leads(m, Nodes, u, v, n, w) /\ ~Short(n, w) BY <1>1
<1>3. n \in Nat /\ n # 0 /\ n \in Steps /\ N \in Nat BY <1>1, PathAssumption DEF Steps
<1>4. n > N
  <2> SUFFICES ASSUME n <= N PROVE FALSE BY <1>3
  <2>1. n \in 1 .. N /\ w <= w BY <1>2, <1>3
  <2> QED BY <1>2, <2>1
<1>5. PICK l \in 1 .. N, q \in Int, y \in Nodes :
        /\ Leads(m, Nodes, y, y, l, q)
        /\ n - l \in Steps /\ Leads(m, Nodes, u, v, n - l, w - q)
  BY <1>2, <1>3, <1>4, CycleIn
<1>6. q >= 0 BY <1>5 DEF NoNegative
<1>7. n - l \in Nat /\ n - l # 0 /\ w - q \in Int /\ n - l < n BY <1>2, <1>3, <1>5 DEF Steps
<1>8. n - l \notin Long BY <1>1, <1>3, <1>7
<1>9. PICK z \in 1 .. N, t \in Int : Leads(m, Nodes, u, v, z, t) /\ t <= w - q
  BY <1>5, <1>7, <1>8
<1>10. t <= w BY <1>2, <1>5, <1>6, <1>9
<1> QED BY <1>2, <1>9, <1>10

\* A negative cycle through y and S, with none in S alone, holds one that meets
\* y only where it begins.
LEMMA CycleAt ==
  ASSUME NEW m \in Weighings, NEW S \in SUBSET Nodes, NEW y \in Nodes,
         NoNegative(m, S), ~NoNegative(m, S \cup {y})
  PROVE  \E n \in 1 .. N, w \in Int : w < 0 /\ Leads(m, S, y, y, n, w)
<1> SUFFICES ASSUME \A n \in 1 .. N, w \in Int : Leads(m, S, y, y, n, w) => w >= 0
             PROVE  FALSE
  OBVIOUS
<1> DEFINE R == S \cup {y}
           Bad == {n \in 1 .. N : \E v \in R, w \in Int : w < 0 /\ Leads(m, R, v, v, n, w)}
<1>0. N \in Nat BY PathAssumption
<1>1. Bad # {} BY DEF NoNegative
<1>2. PICK n \in Bad : \A x \in Bad : n <= x
  <2>1. Bad \subseteq Nat BY <1>0
  <2> HIDE DEF Bad
  <2> QED BY <1>1, <2>1, LeastNatural
<1>3. PICK v \in R, w \in Int : w < 0 /\ Leads(m, R, v, v, n, w) BY <1>2
<1>4. n \in 1 .. N /\ n \in Steps /\ n \in Nat BY <1>0, <1>2 DEF Steps
<1>5. CASE Leads(m, S, v, v, n, w)
  <2>1. CASE v \in S BY <1>3, <1>4, <1>5, <2>1 DEF NoNegative
  <2>2. CASE v = y BY <1>3, <1>4, <1>5, <2>2
  <2> QED BY <2>1, <2>2
<1>6. CASE ~Leads(m, S, v, v, n, w)
  <2>1. PICK a, b \in Steps, x, z, q \in Int, l \in Nat :
          /\ Leads(m, S, v, y, a, x) /\ Leads(m, S, y, v, b, z)
          /\ n = a + l + b /\ w = x + q + z
          /\ (l = 0 /\ q = 0) \/ (l # 0 /\ Leads(m, R, y, y, l, q))
    <3>1. Leads(m, S \cup {y}, v, v, n, w) BY <1>3
    <3> HIDE DEF R, Bad
    <3>2. Passes(m, S, y, v, v, n, w) BY <1>4, <1>6, <3>1, CutAt
    <3> QED BY <3>2 DEF R, Passes
  <2>2. a \in 1 .. N /\ b \in 1 .. N /\ b + a \in 1 .. N /\ a + b \in 1 .. N /\ l < n
    BY <1>0, <1>4, <2>1 DEF Steps
  <2>3. q >= 0
    <3>1. CASE l = 0 /\ q = 0 BY <3>1
    <3>2. CASE l # 0 /\ Leads(m, R, y, y, l, q)
      <4>1. l \in 1 .. N BY <1>0, <1>4, <2>1, <2>2, <3>2
      <4>2. l \notin Bad BY <1>2, <1>4, <2>1, <2>2
      <4> QED BY <2>1, <3>2, <4>1, <4>2
    <3> QED BY <2>1, <3>1, <3>2
  <2>4. CASE v = y
    <3>1. x >= 0 /\ z >= 0 BY <2>1, <2>2, <2>4
    <3> QED BY <1>3, <2>1, <2>3, <3>1
  <2>5. CASE v \in S
    <3>1. Leads(m, S, y, y, b + a, z + x) BY <2>1, <2>5, JoinLeads
    <3>2. z + x >= 0 BY <2>1, <2>2, <3>1
    <3> QED BY <1>3, <2>1, <2>3, <3>2
  <2> QED BY <2>4, <2>5
<1> QED BY <1>5, <1>6

-----------------------------------------------------------------------------
\* The reference: what LeastWalks computes are the least weights of walks.
LEMMA LeastOfSome ==
  ASSUME NEW xs \in SUBSET Costs, IsFiniteSet(xs)
  PROVE  /\ Least(xs) \in Costs
         /\ Least(xs) # Infinity => Least(xs) \in xs
         /\ \A x \in xs : x # Infinity => Least(xs) # Infinity /\ Least(xs) <= x
<1> DEFINE S == xs \ {Infinity}
<1>1. S \subseteq Int /\ IsFiniteSet(S) /\ Infinity \notin Int
  BY FS_Subset, PathAssumption DEF Costs
<1>2. CASE S = {}
  <2>1. xs \subseteq {Infinity} BY <1>2
  <2> QED BY <1>1, <2>1 DEF Least, Costs
<1>3. CASE S # {}
  <2> DEFINE T == {s \in SUBSET S : s # {} => \E x \in s : \A y \in s : x <= y}
  <2>1. {} \in T OBVIOUS
  <2>2. ASSUME NEW s \in SUBSET S, NEW x \in S, s \in T, x \notin s PROVE s \cup {x} \in T
    <3>0. s \cup {x} \in SUBSET S OBVIOUS
    <3>1. CASE s = {} BY <1>1, <3>0, <3>1
    <3>2. CASE s # {}
      <4>1. PICK y \in s : \A z \in s : y <= z BY <2>2, <3>2
      <4>2. CASE x <= y BY <1>1, <3>0, <4>1, <4>2
      <4>3. CASE ~(x <= y) BY <1>1, <3>0, <4>1, <4>3
      <4> QED BY <4>2, <4>3
    <3> QED BY <3>1, <3>2
  <2>3. S \in T
    <3> HIDE DEF T, S
    <3> QED BY <1>1, <2>1, <2>2, FiniteInduction
  <2>4. \E x \in S : \A y \in S : x =< y BY <1>3, <2>3
  <2>5. Least(xs) = CHOOSE x \in S : \A y \in S : x =< y
    <3>1. ~(xs \subseteq {Infinity}) BY <1>3
    <3> QED BY <3>1 DEF Least, Min
  <2> HIDE DEF S
  <2>6. Least(xs) \in S /\ \A y \in S : Least(xs) =< y BY <2>4, <2>5
  <2> QED BY <1>1, <2>6 DEF S, Costs
<1> QED BY <1>2, <1>3

\* x is the least weight of the walks from u to v of at most n steps.
Best(m, u, v, n, x) ==
  /\ x \in Costs
  /\ x # Infinity => \E l \in 1 .. n : Leads(m, Nodes, u, v, l, x)
  /\ \A l \in 1 .. n, w \in Int : Leads(m, Nodes, u, v, l, w) => x # Infinity /\ x <= w

\* A walk of more than one step is a shorter one and a step.
LEMMA LastStep ==
  ASSUME NEW m \in Weighings, NEW u, NEW v, NEW n \in Steps, NEW w,
         Leads(m, Nodes, u, v, n + 1, w)
  PROVE  \E y \in Nodes, x \in Int : /\ <<y, v>> \in DOMAIN m /\ w = x + m[<<y, v>>]
                                     /\ Leads(m, Nodes, u, y, n, x)
<1>0. n \in Nat /\ n > 0 /\ n + 1 \in Nat BY DEF Steps
<1>1. PICK s, c : Walk(m, n + 1, s, c) /\ s[0] = u /\ s[n + 1] = v /\ c[n + 1] = w
  BY DEF Leads
<1>2. /\ 0 \in 0 .. n + 1 /\ n \in 0 .. n + 1 /\ n + 1 \in n .. n + 1 /\ n + 1 \in 0 .. n + 1
      /\ (n + 1) - n = 1 /\ n - 0 = n
  BY <1>0
<1>3. \A x \in 0 .. n + 1 : s[x] \in Nodes /\ c[x] \in Int BY <1>1 DEF Walk
<1>4. c[0] = 0 BY <1>1 DEF Walk
<1>5. Leads(m, Nodes, s[0], s[n], n - 0, c[n] - c[0]) BY <1>0, <1>1, <1>2, <1>3, PartLeads
<1>6. Leads(m, Nodes, s[n], s[n + 1], (n + 1) - n, c[n + 1] - c[n])
  BY <1>0, <1>1, <1>2, <1>3, PartLeads
<1>7. c[n] - c[0] = c[n] BY <1>2, <1>3, <1>4
<1>8. <<s[n], v>> \in DOMAIN m /\ c[n + 1] - c[n] = m[<<s[n], v>>]
  BY <1>1, <1>2, <1>3, <1>6, OneStep
<1>9. w = c[n] + m[<<s[n], v>>] BY <1>1, <1>2, <1>3, <1>8
<1>10. Leads(m, Nodes, u, s[n], n, c[n]) BY <1>1, <1>2, <1>5, <1>7
<1> QED BY <1>2, <1>3, <1>8, <1>9, <1>10

\* From the least weights of walks of n steps at most come those of one step more.
LEMMA LengthenedIsBest ==
  ASSUME NEW m \in Weighings, NEW n \in Steps, NEW walks \in [Nodes \X Nodes -> Costs],
         \A u, v \in Nodes : Best(m, u, v, n, walks[<<u, v>>])
  PROVE  /\ Lengthened(m, walks) \in [Nodes \X Nodes -> Costs]
         /\ \A u, v \in Nodes : Best(m, u, v, n + 1, Lengthened(m, walks)[<<u, v>>])
<1>0. n \in Nat /\ n > 0 /\ N \in Nat /\ Infinity \notin Int BY PathAssumption DEF Steps
<1>1. ASSUME NEW u \in Nodes, NEW v \in Nodes
      PROVE  Best(m, u, v, n + 1, Lengthened(m, walks)[<<u, v>>])
  <2> DEFINE by(y) == Plus(walks[<<u, y>>], Lazy(m, <<y, v>>))
             some == {by(y) : y \in Nodes}
             xs == {walks[<<u, v>>]} \cup some
             x == Lengthened(m, walks)[<<u, v>>]
  <2>1. x = Least(xs) BY DEF Lengthened
  <2>2. \A y \in Nodes : /\ walks[<<u, y>>] \in Costs /\ Lazy(m, <<y, v>>) \in Costs
                         /\ by(y) \in Costs
    <3> TAKE y \in Nodes
    <3>1. walks[<<u, y>>] \in Costs OBVIOUS
    <3>2. Lazy(m, <<y, v>>) \in Costs BY DEF Lazy, Costs, Weighings
    <3> QED BY <3>1, <3>2 DEF Plus, Costs
  <2>3. IsFiniteSet(some)
    <3>1. IsFiniteSet(Nodes) BY <1>0, FS_Interval DEF Nodes
    <3>2. [y \in Nodes |-> by(y)] \in Surjection(Nodes, some) BY DEF Surjection
    <3> QED BY <3>1, <3>2, FS_Surjection
  <2>4. IsFiniteSet(xs)
    <3>1. xs = some \cup {walks[<<u, v>>]} OBVIOUS
    <3> HIDE DEF some
    <3> QED BY <2>3, <3>1, FS_AddElement
  <2>5. xs \in SUBSET Costs BY <2>2
  <2> HIDE DEF x, xs
  <2>6. /\ x \in Costs
        /\ x # Infinity => x \in xs
        /\ \A y \in xs : y # Infinity => x # Infinity /\ x <= y
    BY <2>1, <2>4, <2>5, LeastOfSome
  <2>7. ASSUME x # Infinity PROVE \E l \in 1 .. n + 1 : Leads(m, Nodes, u, v, l, x)
    <3>1. CASE x = walks[<<u, v>>]
      <4>1. \E l \in 1 .. n : Leads(m, Nodes, u, v, l, x) BY <2>7, <3>1 DEF Best
      <4> QED BY <1>0, <4>1
    <3>2. ASSUME NEW y \in Nodes, x = by(y) PROVE \E l \in 1 .. n + 1 : Leads(m, Nodes, u, v, l, x)
      <4> DEFINE a == walks[<<u, y>>]
      <4>1. /\ a # Infinity /\ Lazy(m, <<y, v>>) # Infinity /\ a \in Int
            /\ x = a + Lazy(m, <<y, v>>)
        BY <2>2, <2>7, <3>2 DEF Plus, Costs
      <4>2. <<y, v>> \in DOMAIN m /\ Lazy(m, <<y, v>>) = m[<<y, v>>] BY <4>1 DEF Lazy
      <4>3. PICK l \in 1 .. n : Leads(m, Nodes, u, y, l, a) BY <4>1 DEF Best
      <4>4. Leads(m, Nodes, y, v, 1, m[<<y, v>>]) BY <4>2, OneStep
      <4>5. l \in Steps /\ 1 \in Steps /\ l + 1 \in 1 .. n + 1 BY <1>0 DEF Steps
      <4> HIDE DEF a
      <4>6. Leads(m, Nodes, u, v, l + 1, a + m[<<y, v>>]) BY <4>3, <4>4, <4>5, JoinLeads
      <4> QED BY <4>1, <4>2, <4>5, <4>6
    <3> QED BY <2>6, <2>7, <3>1, <3>2 DEF xs
  <2>8. ASSUME NEW l \in 1 .. n + 1, NEW w \in Int, Leads(m, Nodes, u, v, l, w)
        PROVE  x # Infinity /\ x <= w
    <3>1. CASE l \in 1 .. n
      <4>1. walks[<<u, v>>] # Infinity /\ walks[<<u, v>>] <= w BY <2>8, <3>1 DEF Best
      <4>2. x # Infinity /\ x <= walks[<<u, v>>] BY <2>6, <4>1 DEF xs
      <4>3. x \in Int /\ walks[<<u, v>>] \in Int BY <2>2, <2>6, <4>1, <4>2 DEF Costs
      <4> QED BY <4>1, <4>2, <4>3
    <3>2. CASE l \notin 1 .. n
      <4>1. l = n + 1 BY <1>0, <3>2
      <4>2. PICK y \in Nodes, z \in Int : /\ <<y, v>> \in DOMAIN m /\ w = z + m[<<y, v>>]
                                          /\ Leads(m, Nodes, u, y, n, z)
        BY <2>8, <4>1, LastStep
      <4>3. n \in 1 .. n BY <1>0
      <4>4. walks[<<u, y>>] # Infinity /\ walks[<<u, y>>] <= z BY <4>2, <4>3 DEF Best
      <4>5. m[<<y, v>>] \in Int BY <4>2 DEF Weighings
      <4>6. walks[<<u, y>>] \in Int BY <2>2, <4>4 DEF Costs
      <4>7. by(y) = walks[<<u, y>>] + m[<<y, v>>]
        BY <1>0, <4>2, <4>4, <4>5 DEF Plus, Lazy
      <4>8. by(y) \in xs /\ by(y) \in Int
        <5>1. by(y) \in some OBVIOUS
        <5> HIDE DEF some, by
        <5> QED BY <4>5, <4>6, <4>7, <5>1 DEF xs
      <4> HIDE DEF by
      <4>9. x # Infinity /\ x <= by(y) BY <1>0, <2>6, <4>8
      <4>10. x \in Int BY <2>6, <4>9 DEF Costs
      <4> QED BY <4>2, <4>4, <4>5, <4>6, <4>7, <4>8, <4>9, <4>10
    <3> QED BY <3>1, <3>2
  <2> QED BY <2>6, <2>7, <2>8 DEF Best, x
<1>2. ASSUME NEW p \in Nodes \X Nodes PROVE Lengthened(m, walks)[p] \in Costs
  <2>1. PICK u, v \in Nodes : p = <<u, v>> OBVIOUS
  <2> QED BY <1>1, <2>1 DEF Best
<1> QED BY <1>1, <1>2 DEF Lengthened

\* The reference is right: those are the least weights of walks of at most N steps.
LEMMA LeastWalksAreBest ==
  ASSUME NEW m \in Weighings
  PROVE  \A u, v \in Nodes : Best(m, u, v, N, LeastWalks(m)[<<u, v>>])
<1> DEFINE Tables == [Nodes \X Nodes -> Costs]
           first == [p \in Nodes \X Nodes |-> Lazy(m, p)]
           longer == [walks \in Tables |-> IF Lengthened(m, walks) \in Tables THEN Lengthened(m, walks) ELSE walks]
           IsWalks(walk) == walk = [n \in 1 .. N |-> IF n = 1 THEN first
                                                     ELSE Lengthened(m, walk[n - 1])]
           Good(n, walks) == walks \in Tables /\ \A u, v \in Nodes : Best(m, u, v, n, walks[<<u, v>>])
<1>0. N \in Nat /\ N > 0 /\ Infinity \notin Int BY PathAssumption
<1>1. Good(1, first)
  <2>1. first \in Tables BY DEF Lazy, Weighings, Costs
  <2>2. ASSUME NEW u \in Nodes, NEW v \in Nodes PROVE Best(m, u, v, 1, first[<<u, v>>])
    <3>1. \A l \in 1 .. 1 : l = 1 OBVIOUS
    <3>2. first[<<u, v>>] = Lazy(m, <<u, v>>) /\ first[<<u, v>>] \in Costs
      BY <2>1
    <3>3. CASE <<u, v>> \in DOMAIN m
      <4>1. Lazy(m, <<u, v>>) = m[<<u, v>>] /\ m[<<u, v>>] \in Int
        BY <3>3 DEF Lazy, Weighings
      <4>2. \A w : Leads(m, Nodes, u, v, 1, w) <=> w = m[<<u, v>>] BY <3>3, OneStep
      <4> HIDE DEF first
      <4> QED BY <1>0, <3>1, <3>2, <4>1, <4>2 DEF Best
    <3>4. CASE <<u, v>> \notin DOMAIN m
      <4>1. Lazy(m, <<u, v>>) = Infinity BY <3>4 DEF Lazy
      <4>2. \A w : ~Leads(m, Nodes, u, v, 1, w) BY <3>4, OneStep
      <4> HIDE DEF first
      <4> QED BY <3>1, <3>2, <4>1, <4>2 DEF Best
    <3> QED BY <3>3, <3>4
  <2> QED BY <2>1, <2>2
<1>2. ASSUME NEW n \in Steps, NEW walks, Good(n, walks) PROVE Good(n + 1, Lengthened(m, walks))
  BY <1>2, LengthenedIsBest
<1> HIDE DEF Good
<1>3. \E walk : IsWalks(walk)
  <2>1. first \in Tables BY <1>1 DEF Good
  <2>2. longer \in [Tables -> Tables] OBVIOUS
  <2>3. PICK f \in [Nat -> Tables] : f[0] = first /\ \A n \in Nat : f[n + 1] = longer[f[n]]
    <3> HIDE DEF Tables, first, longer, IsWalks
    <3>1. \E f : Iterates(f, first, longer, Tables) BY <2>1, <2>2, Recursion, Zenon
    <3> QED BY <3>1 DEF Iterates
  <2>4. \A n \in Nat : Good(n + 1, f[n])
    <3> DEFINE T == {n \in Nat : Good(n + 1, f[n])}
    <3>1. 0 \in T
      <4>1. 0 + 1 = 1 OBVIOUS
      <4> QED BY <1>1, <2>3, <4>1
    <3>2. ASSUME NEW n \in T PROVE n + 1 \in T
      <4>1. n + 1 \in Steps /\ n + 1 \in Nat BY DEF Steps
      <4>2. Good((n + 1) + 1, Lengthened(m, f[n])) BY <1>2, <3>2, <4>1
      <4>3. Lengthened(m, f[n]) \in Tables BY <4>2 DEF Good
      <4>4. f[n + 1] = Lengthened(m, f[n]) BY <2>3, <4>3
      <4> QED BY <4>1, <4>2, <4>4
    <3>3. T = Nat
      <4>1. T \subseteq Nat OBVIOUS
      <4> HIDE DEF T
      <4> QED BY <3>1, <3>2, <4>1, Induction
    <3> QED BY <3>3
  <2> DEFINE walk == [n \in 1 .. N |-> f[n - 1]]
  <2>5. ASSUME NEW n \in 1 .. N
        PROVE  walk[n] = IF n = 1 THEN first ELSE Lengthened(m, walk[n - 1])
    <3>1. CASE n = 1
      <4>1. n - 1 = 0 BY <3>1
      <4> QED BY <2>3, <3>1, <4>1
    <3>2. CASE n # 1
      <4>1. n - 1 \in 1 .. N /\ (n - 1) - 1 \in Nat /\ ((n - 1) - 1) + 1 = n - 1 /\ n - 1 \in Nat
        BY <1>0, <3>2
      <4>2. walk[n] = f[n - 1] /\ walk[n - 1] = f[(n - 1) - 1] BY <4>1
      <4>3. f[n - 1] = longer[f[(n - 1) - 1]] BY <2>3, <4>1
      <4>4. n - 1 \in Steps BY <4>1, <3>2 DEF Steps
      <4>5. Good(n - 1, f[(n - 1) - 1]) BY <2>4, <4>1
      <4>6. Lengthened(m, f[(n - 1) - 1]) \in Tables BY <1>2, <4>4, <4>5 DEF Good
      <4>7. f[n - 1] = Lengthened(m, f[(n - 1) - 1]) BY <2>3, <4>1, <4>3, <4>6
      <4> HIDE DEF walk
      <4> QED BY <3>2, <4>2, <4>7
    <3> QED BY <3>1, <3>2
  <2>6. DOMAIN walk = 1 .. N OBVIOUS
  <2>7. walk = [n \in 1 .. N |-> walk[n]] OBVIOUS
  <2> HIDE DEF walk, first
  <2>8. IsWalks(walk) BY <2>5, <2>7
  <2> HIDE DEF IsWalks
  <2> QED BY <2>8
<1>4. PICK walk : IsWalks(walk) /\ LeastWalks(m) = walk[N]
  <2> DEFINE chosen == CHOOSE walk : IsWalks(walk)
  <2>1. LeastWalks(m) = chosen[N] BY DEF LeastWalks
  <2> HIDE DEF IsWalks
  <2>2. IsWalks(chosen) BY <1>3
  <2> QED BY <2>1, <2>2
<1>5. \A n \in Nat : n + 1 <= N => Good(n + 1, walk[n + 1])
  <2> DEFINE T == {n \in Nat : n + 1 <= N => Good(n + 1, walk[n + 1])}
  <2>1. 0 \in T
    <3>1. 0 + 1 = 1 /\ 1 \in 1 .. N BY <1>0
    <3>2. walk[1] = first BY <1>4, <3>1
    <3> QED BY <1>1, <3>1, <3>2
  <2>2. ASSUME NEW n \in T PROVE n + 1 \in T
    <3> SUFFICES ASSUME (n + 1) + 1 <= N PROVE Good((n + 1) + 1, walk[(n + 1) + 1])
      OBVIOUS
    <3>1. n \in Nat /\ n + 1 \in Steps /\ n + 1 <= N /\ (n + 1) + 1 \in 1 .. N BY <1>0 DEF Steps
    <3>2. (n + 1) + 1 # 1 /\ ((n + 1) + 1) - 1 = n + 1 BY <3>1
    <3>3. walk[(n + 1) + 1] = Lengthened(m, walk[n + 1]) BY <1>4, <3>1, <3>2
    <3> QED BY <1>2, <2>2, <3>1, <3>3
  <2>3. T = Nat
    <3>1. T \subseteq Nat OBVIOUS
    <3> HIDE DEF T
    <3> QED BY <2>1, <2>2, <3>1, Induction
  <2> QED BY <2>3
<1>6. N - 1 \in Nat /\ (N - 1) + 1 = N BY <1>0
<1>7. Good(N, walk[N]) BY <1>0, <1>5, <1>6
<1> QED BY <1>4, <1>7 DEF Good

-----------------------------------------------------------------------------
\* The matrix: what it holds is at most a weight, unless that is of a closed walk
\* and not negative, for which the loops do nothing.
Bounded(d, u, v, w) == (d # Infinity /\ d <= w) \/ (u = v /\ w >= 0)

\* No walk from u to v through S has less weight than d.
Above(m, S, d, u, v) == \A n \in 1 .. N, w \in Int : Leads(m, S, u, v, n, w) => Bounded(d, u, v, w)

\* One of two distances is at most the other.
AtMost(d, e) == e # Infinity => d # Infinity /\ d <= e

\* Where fewer nodes may be passed there are no more negative cycles.
LEMMA NoNegativeInLess ==
  ASSUME NEW m \in Weighings, NEW S, NEW T, S \subseteq T, NoNegative(m, T)
  PROVE  NoNegative(m, S)
<1> SUFFICES ASSUME NEW v \in S, NEW n \in 1 .. N, NEW w \in Int, Leads(m, S, v, v, n, w)
             PROVE  w >= 0
  BY DEF NoNegative
<1>1. n \in Nat BY PathAssumption
<1>2. Leads(m, T, v, v, n, w) BY <1>1, LeadsTypes
<1> QED BY <1>2 DEF NoNegative

\* A distance that gets less still is not above any walk.
LEMMA AboveStays ==
  ASSUME NEW m, NEW S, NEW u, NEW v, NEW d \in Costs, NEW e \in Costs,
         Above(m, S, d, u, v), AtMost(e, d)
  PROVE  Above(m, S, e, u, v)
BY DEF Above, Bounded, AtMost, Costs

\* One pair of the innermost loop, where y is the node the round is about: what
\* was no more than the walks through S is no more than those through y, too.
LEMMA PairRelaxed ==
  ASSUME NEW m \in Weighings, NEW S \in SUBSET Nodes, NEW y \in Nodes,
         NEW u \in Nodes, NEW v \in Nodes, NoNegative(m, S \cup {y}),
         NEW to \in Costs, NEW from \in Costs, NEW old \in Costs, NEW new \in Costs,
         Above(m, S, to, u, y), Above(m, S, from, y, v), Above(m, S, old, u, v),
         AtMost(new, old), (u = v /\ Plus(to, from) = 0) \/ AtMost(new, Plus(to, from))
  PROVE  Above(m, S \cup {y}, new, u, v)
<1> SUFFICES ASSUME NEW n \in 1 .. N, NEW w \in Int, Leads(m, S \cup {y}, u, v, n, w)
             PROVE  Bounded(new, u, v, w)
  BY DEF Above
<1>0. N \in Nat /\ n \in Steps /\ n \in Nat /\ Infinity \notin Int BY PathAssumption DEF Steps
<1>1. \A l \in 1 .. N, z \in Int : Leads(m, S, u, v, l, z) => Bounded(new, u, v, z)
  BY AboveStays DEF Above
<1>2. CASE Leads(m, S, u, v, n, w) BY <1>1, <1>2
<1>3. CASE Passes(m, S, y, u, v, n, w)
  <2>1. PICK a, b \in Steps, x, z, q \in Int, l \in Nat :
           /\ Leads(m, S, u, y, a, x) /\ Leads(m, S, y, v, b, z)
           /\ n = a + l + b /\ w = x + q + z
           /\ (l = 0 /\ q = 0) \/ (l # 0 /\ Leads(m, S \cup {y}, y, y, l, q))
    BY <1>3 DEF Passes
  <2>2. a \in 1 .. N /\ b \in 1 .. N /\ (l # 0 => l \in 1 .. N) BY <1>0, <2>1 DEF Steps
  <2>3. q >= 0 BY <2>1, <2>2 DEF NoNegative
  <2>4. Bounded(to, u, y, x) /\ Bounded(from, y, v, z) BY <2>1, <2>2 DEF Above
  <2>5. CASE u = y /\ x >= 0
    <3>1. Bounded(new, u, v, z) BY <1>1, <2>1, <2>2, <2>5
    <3>2. z <= w BY <2>1, <2>3, <2>5
    <3> QED BY <3>1, <3>2 DEF Bounded, Costs
  <2>6. CASE y = v /\ z >= 0
    <3>1. Bounded(new, u, v, x) BY <1>1, <2>1, <2>2, <2>6
    <3>2. x <= w BY <2>1, <2>3, <2>6
    <3> QED BY <3>1, <3>2 DEF Bounded, Costs
  <2>7. CASE to # Infinity /\ to <= x /\ from # Infinity /\ from <= z
    <3>1. Plus(to, from) = to + from /\ to \in Int /\ from \in Int BY <2>7 DEF Plus, Costs
    <3>2. to + from # Infinity /\ to + from <= w BY <1>0, <2>1, <2>3, <2>7, <3>1
    <3>3. CASE AtMost(new, Plus(to, from)) BY <3>1, <3>2, <3>3 DEF AtMost, Bounded, Costs
    <3>4. CASE u = v /\ Plus(to, from) = 0 BY <3>1, <3>2, <3>4 DEF Bounded
    <3> QED BY <3>3, <3>4
  <2> QED BY <2>4, <2>5, <2>6, <2>7 DEF Bounded
<1> QED BY <1>0, <1>2, <1>3, CutAt

-----------------------------------------------------------------------------
\* What the matrix is read and written with.
Matrices == UNION {[ps -> Costs] : ps \in SUBSET (Nodes \X Nodes)}

\* What is asked for is a distance.
LEMMA LazyTypes ==
  ASSUME NEW m \in Matrices, NEW p PROVE Lazy(m, p) \in Costs
BY DEF Matrices, Lazy, Costs

\* Asking adds the pair and changes no distance.
LEMMA LazyInitialized ==
  ASSUME NEW m \in Matrices, NEW ps \in SUBSET (Nodes \X Nodes)
  PROVE  /\ Initialized(m, ps) \in Matrices
         /\ DOMAIN Initialized(m, ps) = DOMAIN m \cup ps
         /\ \A p : Lazy(Initialized(m, ps), p) = Lazy(m, p)
<1>1. DOMAIN Initialized(m, ps) = DOMAIN m \cup ps BY DEF Initialized
<1>2. \A p \in DOMAIN m \cup ps : Initialized(m, ps)[p] = Lazy(m, p) BY DEF Initialized
<1>3. Initialized(m, ps) \in Matrices
  <2>1. DOMAIN m \cup ps \in SUBSET (Nodes \X Nodes) BY DEF Matrices
  <2>2. Initialized(m, ps) \in [DOMAIN m \cup ps -> Costs] BY LazyTypes DEF Initialized
  <2> QED BY <2>1, <2>2 DEF Matrices
<1>4. ASSUME NEW p PROVE Lazy(Initialized(m, ps), p) = Lazy(m, p)
  BY <1>1, <1>2 DEF Lazy
<1> QED BY <1>1, <1>3, <1>4

\* Writing changes one distance.
LEMMA LazyChanged ==
  ASSUME NEW m \in Matrices, NEW p \in DOMAIN m, NEW t \in Costs
  PROVE  /\ [m EXCEPT ![p] = t] \in Matrices
         /\ DOMAIN [m EXCEPT ![p] = t] = DOMAIN m
         /\ Lazy([m EXCEPT ![p] = t], p) = t
         /\ \A q : q # p => Lazy([m EXCEPT ![p] = t], q) = Lazy(m, q)
BY DEF Matrices, Lazy

\* The matrices before the loops hold weights of pairs, and 0 for each vertex that
\* has no loop.
LEMMA DirectMatrices ==
  ASSUME NEW ps \in SUBSET Arcs, NEW w \in [ps -> Weights], NEW m \in Direct(w)
  PROVE  /\ m \in Weighings
         /\ \A v \in Nodes :
              /\ <<v, v>> \in DOMAIN m
              /\ ~(\E e \in ps : ArcSource[e] = v /\ ArcTarget[e] = v) => m[<<v, v>>] = 0
<1> DEFINE diagonal == {<<v, v>> : v \in Nodes}
           Of(last, p) == {e \in last : Pair(e) = p}
<1>1. PICK last \in SUBSET ps :
        m = [p \in diagonal \cup {Pair(e) : e \in last} |->
               IF \E e \in last : Pair(e) = p THEN w[CHOOSE e \in last : Pair(e) = p] ELSE 0]
  BY DEF Direct
<1>2. \A e \in last : Pair(e) \in Nodes \X Nodes BY PathAssumption DEF Pair
<1>3. DOMAIN m = diagonal \cup {Pair(e) : e \in last} BY <1>1
<1>4. DOMAIN m \in SUBSET (Nodes \X Nodes) BY <1>2, <1>3
<1>5. ASSUME NEW p \in DOMAIN m PROVE m[p] \in Int
  <2>1. CASE \E e \in last : Pair(e) = p
    <3>1. PICK e \in last : e = CHOOSE d \in last : Pair(d) = p BY <2>1
    <3>2. m[p] = w[e] BY <1>1, <1>3, <2>1, <3>1
    <3> QED BY <3>2, PathAssumption
  <2>2. CASE ~(\E e \in last : Pair(e) = p) BY <1>1, <1>3, <2>2
  <2> QED BY <2>1, <2>2
<1>6. m \in Weighings
  <2>1. m = [p \in DOMAIN m |-> m[p]] BY <1>1
  <2>2. m \in [DOMAIN m -> Int] BY <1>5, <2>1
  <2> QED BY <1>4, <2>2 DEF Weighings
<1>7. ASSUME NEW v \in Nodes, ~(\E e \in ps : ArcSource[e] = v /\ ArcTarget[e] = v)
      PROVE  m[<<v, v>>] = 0
  <2>1. ~(\E e \in last : Pair(e) = <<v, v>>) BY <1>7 DEF Pair
  <2>2. <<v, v>> \in DOMAIN m BY <1>3
  <2> QED BY <1>1, <1>3, <2>1, <2>2
<1> QED BY <1>3, <1>6, <1>7
-----------------------------------------------------------------------------
\* The inductive invariant, of the matrix m the loops began with.
PathTypes ==
  /\ i \in Nodes /\ j \in Nodes /\ k \in 0 .. N
  /\ matrix \in Matrices /\ distanceJI \in Costs
  /\ status \in {"running", "returned", "raised"}

Distance(u, v) == Lazy(matrix, <<u, v>>)

\* What is there is the weight of a walk.
Real(m) ==
  /\ \A u, v \in Nodes : Distance(u, v) # Infinity => \E n \in Steps : Leads(m, Nodes, u, v, n, Distance(u, v))
  /\ k # 0 /\ distanceJI # Infinity => \E n \in Steps : Leads(m, Nodes, j, i, n, distanceJI)

AtHome == \A v \in Nodes : ~HasLoop(v) => AtMost(Distance(v, v), 0)

NegativeDiagonal == \E v \in Nodes : Longer(0, Distance(v, v))

\* What the rounds so far have achieved, where S is what they were about: no walk
\* through S has less weight, or a negative cycle shows.
Achieved(m, S) ==
  /\ NoNegative(m, S) => \A u, v \in Nodes : Above(m, S, Distance(u, v), u, v)
  /\ ~NoNegative(m, S) => NegativeDiagonal

\* The pairs this round has been through.
Passed(u, v) == u < j \/ (u = j /\ v < k)

InRound(m) ==
  /\ Achieved(m, 1 .. i - 1)
  /\ k # 0 /\ NoNegative(m, 1 .. i - 1) => Above(m, 1 .. i - 1, distanceJI, j, i)
  /\ NoNegative(m, 1 .. i) =>
       \A u, v \in Nodes : Passed(u, v) => Above(m, 1 .. i, Distance(u, v), u, v)
  /\ \A u, v \in Nodes : i > 1 \/ Passed(u, v) => <<u, v>> \in DOMAIN matrix

Ended(m) ==
  /\ status = "returned" => Achieved(m, Nodes) /\ DOMAIN matrix = Nodes \X Nodes
  /\ status = "raised" =>
       \E v \in Nodes, n \in Steps, w \in Int : w < 0 /\ Leads(m, Nodes, v, v, n, w)

Began(m) == m \in Direct(weight) /\ least = LeastWalks(Lightest(weight))

Present == weight \in UNION {[ps -> Weights] : ps \in SUBSET Arcs}

PathInv ==
  /\ PathTypes /\ Present /\ AtHome
  /\ \E m \in Weighings : Began(m) /\ Real(m) /\ (status = "running" => InRound(m)) /\ Ended(m)

\* The invariant holds before the loops.
LEMMA PathInitInv == PathInit => PathInv
<1> SUFFICES ASSUME PathInit PROVE PathInv OBVIOUS
<1> USE DEF PathInit
<1>0. N \in Nat /\ N > 0 /\ Infinity \notin Int BY PathAssumption
<1>1. Present BY DEF Present
<1>2. PICK ps \in SUBSET Arcs : weight \in [ps -> Weights] BY <1>1 DEF Present
<1>3. /\ matrix \in Weighings
      /\ \A v \in Nodes :
           /\ <<v, v>> \in DOMAIN matrix
           /\ ~(\E e \in ps : ArcSource[e] = v /\ ArcTarget[e] = v) => matrix[<<v, v>>] = 0
  BY <1>2, DirectMatrices
<1>4. Began(matrix) BY DEF Began
<1>5. matrix \in Matrices BY <1>3 DEF Weighings, Matrices, Costs
<1>6. PathTypes BY <1>0, <1>5 DEF PathTypes, Nodes, Costs
<1>7. AtHome
  <2> SUFFICES ASSUME NEW v \in Nodes, ~HasLoop(v) PROVE AtMost(Distance(v, v), 0) BY DEF AtHome
  <2>1. DOMAIN weight = ps BY <1>2
  <2>2. Distance(v, v) = 0 BY <1>3, <2>1 DEF HasLoop, Distance, Lazy
  <2> QED BY <1>0, <2>2 DEF AtMost
<1>8. Real(matrix)
  <2> SUFFICES ASSUME NEW u \in Nodes, NEW v \in Nodes, Distance(u, v) # Infinity
               PROVE  \E n \in Steps : Leads(matrix, Nodes, u, v, n, Distance(u, v))
    BY DEF Real
  <2>1. <<u, v>> \in DOMAIN matrix /\ Distance(u, v) = matrix[<<u, v>>] BY DEF Distance, Lazy
  <2>2. 1 \in Steps BY DEF Steps
  <2> QED BY <1>3, <2>1, <2>2, OneStep
<1>9. InRound(matrix)
  <2>1. 1 .. i - 1 = {} OBVIOUS
  <2>2. NoNegative(matrix, 1 .. i - 1) BY <2>1 DEF NoNegative
  <2>3. ASSUME NEW u \in Nodes, NEW v \in Nodes, NEW n \in 1 .. N, NEW w \in Int, Leads(matrix, {}, u, v, n, w)
        PROVE  Bounded(Distance(u, v), u, v, w)
    <3>1. PICK s, c : /\ Walk(matrix, n, s, c) /\ s[0] = u /\ s[n] = v /\ c[n] = w
                      /\ \A x \in 1 .. n - 1 : s[x] \in {}
      BY <2>3 DEF Leads
    <3>2. n = 1
      <4>1. n # 1 => 1 \in 1 .. n - 1 BY <1>0
      <4> QED BY <3>1, <4>1
    <3>3. <<u, v>> \in DOMAIN matrix /\ w = matrix[<<u, v>>]
      BY <1>3, <2>3, <3>2, OneStep
    <3>4. Distance(u, v) = w BY <3>3 DEF Distance, Lazy
    <3> QED BY <1>0, <3>4 DEF Bounded
  <2>4. \A u, v \in Nodes : Above(matrix, 1 .. i - 1, Distance(u, v), u, v) BY <2>1, <2>3 DEF Above
  <2>5. \A u, v \in Nodes : ~Passed(u, v) BY DEF Passed, Nodes
  <2> QED BY <2>2, <2>4, <2>5 DEF InRound, Achieved
<1>10. Ended(matrix) BY DEF Ended
<1> QED BY <1>1, <1>3, <1>4, <1>6, <1>7, <1>8, <1>9, <1>10 DEF PathInv
\* A row begins: only what is asked for is added.
LEMMA BeginRowInv == PathInv /\ BeginRow => PathInv'
<1> SUFFICES ASSUME PathInv, BeginRow PROVE PathInv' OBVIOUS
<1> USE DEF BeginRow
<1>0. N \in Nat /\ N > 0 /\ Infinity \notin Int BY PathAssumption
<1>1. PathTypes /\ Present /\ AtHome BY DEF PathInv
<1>2. PICK m \in Weighings : Began(m) /\ Real(m) /\ InRound(m) BY DEF PathInv
<1>3. <<j, i>> \in Nodes \X Nodes BY <1>1 DEF PathTypes
<1>4. matrix' \in Matrices /\ DOMAIN matrix' = DOMAIN matrix \cup {<<j, i>>}
  BY <1>1, <1>3, LazyInitialized DEF PathTypes
<1>5. \A p : Lazy(matrix', p) = Lazy(matrix, p)
  BY <1>1, <1>3, LazyInitialized DEF PathTypes
<1>6. distanceJI' = Distance(j, i) /\ distanceJI' \in Costs BY <1>1, LazyTypes DEF Distance, PathTypes
<1>7. PathTypes' BY <1>0, <1>1, <1>4, <1>6 DEF PathTypes
<1>8. \A u, v : Distance(u, v)' = Distance(u, v) BY <1>5 DEF Distance
<1>9. Present' /\ AtHome' BY <1>1, <1>8 DEF Present, AtHome, HasLoop
<1>10. Began(m)' BY <1>2 DEF Began
<1>11. Real(m)' BY <1>1, <1>2, <1>6, <1>8 DEF Real, PathTypes
<1>12. \A u, v \in Nodes : Passed(u, v)' => Passed(u, v) BY <1>0 DEF Passed, Nodes
<1>13. Achieved(m, 1 .. i - 1)'
  <2>1. NegativeDiagonal' <=> NegativeDiagonal BY <1>8 DEF NegativeDiagonal
  <2> QED BY <1>2, <1>8, <2>1 DEF InRound, Achieved
<1>14. NoNegative(m, 1 .. i - 1) => Above(m, 1 .. i - 1, distanceJI', j, i)
  BY <1>1, <1>2, <1>6 DEF InRound, Achieved, PathTypes
<1>15. InRound(m)' BY <1>2, <1>4, <1>8, <1>12, <1>13, <1>14 DEF InRound
<1>16. Ended(m)' BY DEF Ended
<1> QED BY <1>2, <1>7, <1>9, <1>10, <1>11, <1>15, <1>16 DEF PathInv

\* What the innermost loop's body does to a pair, where t is the way through i.
PairStep(t) ==
  /\ t \in Costs
  /\ matrix' \in Matrices /\ DOMAIN matrix' = DOMAIN matrix \cup {<<j, k>>, <<i, k>>}
  /\ \A p : p # <<j, k>> => Lazy(matrix', p) = Lazy(matrix, p)
  /\ Lazy(matrix', <<j, k>>) = Lazy(matrix, <<j, k>>) \/ (Lazy(matrix', <<j, k>>) = t /\ t # Infinity)
  /\ AtMost(Lazy(matrix', <<j, k>>), Lazy(matrix, <<j, k>>))
  /\ \/ /\ status' = "raised" /\ j = k /\ t # Infinity /\ t < 0
        /\ i' = i /\ j' = j /\ k' = k
     \/ /\ Advance
        /\ (j = k /\ t = 0) \/ AtMost(Lazy(matrix', <<j, k>>), t)

\* The body of the innermost loop does that.
LEMMA RelaxStep ==
  ASSUME PathTypes, Relax
  PROVE  PairStep(Plus(distanceJI, Distance(i, k)))
<1> DEFINE t == Plus(distanceJI, Distance(i, k))
           asked == Initialized(matrix, {<<j, k>>, <<i, k>>})
           shorter == ~Skipped(t) /\ Longer(Distance(j, k), t)
<1>0. N \in Nat /\ N > 0 /\ Infinity \notin Int BY PathAssumption
<1>1. /\ i \in Nodes /\ j \in Nodes /\ k \in Nodes
      /\ matrix \in Matrices /\ distanceJI \in Costs
  BY DEF PathTypes, Relax, Nodes
<1>2. Distance(i, k) \in Costs /\ Distance(j, k) \in Costs BY <1>1, LazyTypes DEF Distance
<1>3. t \in Costs BY <1>0, <1>1, <1>2 DEF Plus, Costs
<1>4. /\ asked \in Matrices /\ DOMAIN asked = DOMAIN matrix \cup {<<j, k>>, <<i, k>>}
      /\ \A p : Lazy(asked, p) = Lazy(matrix, p)
  <2>1. {<<j, k>>, <<i, k>>} \in SUBSET (Nodes \X Nodes) BY <1>1
  <2> HIDE DEF t, shorter
  <2> QED BY <1>1, <2>1, LazyInitialized
<1>5. \/ /\ shorter /\ j = k /\ t < 0 /\ matrix' = asked
         /\ status' = "raised" /\ i' = i /\ j' = j /\ k' = k
      \/ shorter /\ matrix' = [asked EXCEPT ![<<j, k>>] = t] /\ Advance
      \/ ~shorter /\ matrix' = asked /\ Advance
  BY DEF Relax, Distance
<1>6. shorter => t # Infinity /\ AtMost(t, Distance(j, k))
  BY <1>2, <1>3 DEF Longer, AtMost, Costs
<1>7. ~shorter => (j = k /\ t = 0) \/ AtMost(Distance(j, k), t)
  BY <1>2, <1>3 DEF Longer, AtMost, Costs, Skipped
<1>8. /\ [asked EXCEPT ![<<j, k>>] = t] \in Matrices
      /\ DOMAIN [asked EXCEPT ![<<j, k>>] = t] = DOMAIN asked
      /\ Lazy([asked EXCEPT ![<<j, k>>] = t], <<j, k>>) = t
      /\ \A q : q # <<j, k>> => Lazy([asked EXCEPT ![<<j, k>>] = t], q) = Lazy(asked, q)
  <2>1. <<j, k>> \in DOMAIN asked BY <1>4
  <2> HIDE DEF t, asked
  <2> QED BY <1>3, <1>4, <2>1, LazyChanged
<1>9. \A d \in Costs : AtMost(d, d) BY DEF AtMost, Costs
<1> HIDE DEF t, asked, shorter
<1> SUFFICES PairStep(t) BY DEF t
<1>10. ASSUME matrix' = asked
       PROVE  /\ matrix' \in Matrices /\ DOMAIN matrix' = DOMAIN matrix \cup {<<j, k>>, <<i, k>>}
              /\ \A p : Lazy(matrix', p) = Lazy(matrix, p)
              /\ AtMost(Lazy(matrix', <<j, k>>), Lazy(matrix, <<j, k>>))
  BY <1>2, <1>4, <1>9, <1>10 DEF Distance
<1>11. CASE /\ shorter /\ j = k /\ t < 0 /\ matrix' = asked
            /\ status' = "raised" /\ i' = i /\ j' = j /\ k' = k
  BY <1>3, <1>6, <1>10, <1>11 DEF PairStep
<1>12. CASE shorter /\ matrix' = [asked EXCEPT ![<<j, k>>] = t] /\ Advance
  <2>1. Lazy(matrix', <<j, k>>) = t BY <1>8, <1>12
  <2>2. AtMost(t, t) /\ AtMost(t, Lazy(matrix, <<j, k>>)) /\ t # Infinity
    BY <1>3, <1>6, <1>9, <1>12 DEF Distance
  <2>3. matrix' \in Matrices /\ DOMAIN matrix' = DOMAIN matrix \cup {<<j, k>>, <<i, k>>} BY <1>4, <1>8, <1>12
  <2>4. \A p : p # <<j, k>> => Lazy(matrix', p) = Lazy(matrix, p) BY <1>4, <1>8, <1>12
  <2> QED BY <1>3, <1>12, <2>1, <2>2, <2>3, <2>4 DEF PairStep
<1>13. CASE ~shorter /\ matrix' = asked /\ Advance
  <2>1. (j = k /\ t = 0) \/ AtMost(Lazy(matrix', <<j, k>>), t) BY <1>7, <1>10, <1>13 DEF Distance
  <2> QED BY <1>3, <1>10, <1>13, <2>1 DEF PairStep
<1> QED BY <1>5, <1>11, <1>12, <1>13

\* A distance that gets less twice gets less.
LEMMA AtMostTrans ==
  ASSUME NEW a \in Costs, NEW b \in Costs, NEW c \in Costs, AtMost(a, b), AtMost(b, c)
  PROVE  AtMost(a, c)
BY DEF AtMost, Costs

\* The way from j to k through i is the weight of a walk.
LEMMA WayIsReal ==
  ASSUME PathTypes, k # 0, NEW m \in Weighings, Real(m),
         Plus(distanceJI, Distance(i, k)) # Infinity
  PROVE  \E n \in Steps : Leads(m, Nodes, j, k, n, Plus(distanceJI, Distance(i, k)))
<1>1. i \in Nodes /\ k \in Nodes /\ j \in Nodes BY DEF PathTypes, Nodes
<1>2. distanceJI # Infinity /\ Distance(i, k) # Infinity
      /\ Plus(distanceJI, Distance(i, k)) = distanceJI + Distance(i, k)
  BY DEF Plus
<1>3. PICK a \in Steps : Leads(m, Nodes, j, i, a, distanceJI) BY <1>2 DEF Real
<1>4. PICK b \in Steps : Leads(m, Nodes, i, k, b, Distance(i, k)) BY <1>1, <1>2 DEF Real
<1>5. Leads(m, Nodes, j, k, a + b, distanceJI + Distance(i, k)) BY <1>1, <1>3, <1>4, JoinLeads
<1>6. a + b \in Steps BY DEF Steps
<1> QED BY <1>2, <1>5, <1>6

\* Where the loops go on.
LEMMA Advances ==
  ASSUME PathTypes, k # 0, Advance
  PROVE  \/ k < N /\ i' = i /\ j' = j /\ k' = k + 1 /\ status' = "running"
         \/ k = N /\ j < N /\ i' = i /\ j' = j + 1 /\ k' = 0 /\ status' = "running"
         \/ k = N /\ j = N /\ i < N /\ i' = i + 1 /\ j' = 1 /\ k' = 0 /\ status' = "running"
         \/ k = N /\ j = N /\ i = N /\ i' = 1 /\ j' = 1 /\ k' = 0 /\ status' = "returned"
<1>1. N \in Nat /\ N > 0 BY PathAssumption
<1>2. i \in 1 .. N /\ j \in 1 .. N /\ k \in 1 .. N BY DEF PathTypes, Nodes
<1>3. ASSUME NEW x \in 1 .. N PROVE (x % N) + 1 = IF x = N THEN 1 ELSE x + 1
  <2>1. CASE x = N BY <1>1, <2>1
  <2>2. CASE x < N BY <1>1, <2>2
  <2> QED BY <1>1, <2>1, <2>2
<1>4. (i % N) + 1 = (IF i = N THEN 1 ELSE i + 1) /\ (j % N) + 1 = (IF j = N THEN 1 ELSE j + 1)
  BY <1>2, <1>3
<1>5. CASE k < N BY <1>5 DEF Advance
<1>6. CASE k = N /\ j < N BY <1>1, <1>2, <1>4, <1>6 DEF Advance
<1>7. CASE k = N /\ j = N BY <1>1, <1>2, <1>4, <1>7 DEF Advance
<1> QED BY <1>1, <1>2, <1>5, <1>6, <1>7

\* What a pair's step does to the distances, wherever the loops go on.
LEMMA RelaxLowers ==
  ASSUME PathTypes, Relax, NEW m \in Weighings, Real(m), AtHome, InRound(m)
  PROVE  /\ matrix' \in Matrices
         /\ \A u, v \in Nodes : AtMost(Distance(u, v)', Distance(u, v))
         /\ \A u, v \in Nodes : Distance(u, v)' # Infinity =>
              \E n \in Steps : Leads(m, Nodes, u, v, n, Distance(u, v)')
         /\ NegativeDiagonal => NegativeDiagonal'
         /\ \A v \in Nodes : AtMost(Distance(v, v), 0) => AtMost(Distance(v, v)', 0)
<1> DEFINE t == Plus(distanceJI, Distance(i, k))
<1>1. PairStep(t) BY RelaxStep
<1>2. k # 0 /\ i \in Nodes /\ j \in Nodes /\ k \in Nodes /\ matrix \in Matrices
  BY DEF PathTypes, Relax, Nodes
<1>3. matrix' \in Matrices BY <1>1 DEF PairStep
<1>4. \A u, v : Distance(u, v) \in Costs BY <1>2, LazyTypes DEF Distance
<1>5. \A u, v : Distance(u, v)' \in Costs BY <1>3, LazyTypes DEF Distance
<1>6. t # Infinity => \E n \in Steps : Leads(m, Nodes, j, k, n, t) BY <1>2, WayIsReal
<1> HIDE DEF t
<1>7. ASSUME NEW u \in Nodes, NEW v \in Nodes
      PROVE  /\ AtMost(Distance(u, v)', Distance(u, v))
             /\ Distance(u, v)' # Infinity => \E n \in Steps : Leads(m, Nodes, u, v, n, Distance(u, v)')
  <2>1. CASE <<u, v>> # <<j, k>>
    <3>1. Distance(u, v)' = Distance(u, v) BY <1>1, <2>1 DEF PairStep, Distance
    <3>2. AtMost(Distance(u, v), Distance(u, v)) BY <1>4 DEF AtMost, Costs
    <3>3. Distance(u, v) # Infinity => \E n \in Steps : Leads(m, Nodes, u, v, n, Distance(u, v)) BY DEF Real
    <3> QED BY <3>1, <3>2, <3>3
  <2>2. CASE u = j /\ v = k
    <3>1. AtMost(Distance(u, v)', Distance(u, v)) BY <1>1, <2>2 DEF PairStep, Distance
    <3>2. Distance(u, v)' = Distance(u, v) \/ (Distance(u, v)' = t /\ t # Infinity)
      BY <1>1, <2>2 DEF PairStep, Distance
    <3>3. Distance(u, v) # Infinity => \E n \in Steps : Leads(m, Nodes, u, v, n, Distance(u, v)) BY DEF Real
    <3>4. t # Infinity => \E n \in Steps : Leads(m, Nodes, u, v, n, t) BY <1>6, <2>2
    <3> QED BY <3>1, <3>2, <3>3, <3>4
  <2> QED BY <2>1, <2>2
<1>8. NegativeDiagonal => NegativeDiagonal'
  <2> SUFFICES ASSUME NEW v \in Nodes, Longer(0, Distance(v, v)) PROVE Longer(0, Distance(v, v)')
    BY DEF NegativeDiagonal
  <2>1. AtMost(Distance(v, v)', Distance(v, v)) BY <1>7
  <2>2. Infinity \notin Int BY PathAssumption
  <2> QED BY <1>4, <1>5, <2>1, <2>2 DEF AtMost, Longer, Costs
<1>9. ASSUME NEW v \in Nodes, AtMost(Distance(v, v), 0) PROVE AtMost(Distance(v, v)', 0)
  <2>1. 0 \in Costs BY DEF Costs
  <2>2. AtMost(Distance(v, v)', Distance(v, v)) BY <1>7
  <2> QED BY <1>4, <1>5, <1>9, <2>1, <2>2, AtMostTrans
<1> QED BY <1>3, <1>7, <1>8, <1>9
\* After the step the round has been through one pair more.
LEMMA RelaxInRound ==
  ASSUME PathTypes, Relax, NEW m \in Weighings, Real(m), AtHome, InRound(m), status' # "raised"
  PROVE  /\ NoNegative(m, 1 .. i) =>
              \A u, v \in Nodes : Passed(u, v) \/ (u = j /\ v = k) =>
                Above(m, 1 .. i, Distance(u, v)', u, v)
         /\ \A u, v \in Nodes : i > 1 \/ Passed(u, v) \/ (u = j /\ v = k) => <<u, v>> \in DOMAIN matrix'
         /\ NoNegative(m, 1 .. i - 1) => \A u, v \in Nodes : Above(m, 1 .. i - 1, Distance(u, v)', u, v)
         /\ ~NoNegative(m, 1 .. i) => NegativeDiagonal'
<1> DEFINE t == Plus(distanceJI, Distance(i, k))
           S == 1 .. i - 1
<1>1. PairStep(t) BY RelaxStep
<1>2. /\ k # 0 /\ i \in Nodes /\ j \in Nodes /\ k \in Nodes /\ matrix \in Matrices
      /\ distanceJI \in Costs
  BY DEF PathTypes, Relax, Nodes
<1>3. matrix' \in Matrices BY <1>1 DEF PairStep
<1>4. \A u, v : Distance(u, v) \in Costs BY <1>2, LazyTypes DEF Distance
<1>5. \A u, v : Distance(u, v)' \in Costs BY <1>3, LazyTypes DEF Distance
<1>6. \A u, v \in Nodes : AtMost(Distance(u, v)', Distance(u, v)) BY RelaxLowers
<1>7. S \in SUBSET Nodes /\ 1 .. i = S \cup {i} /\ S \subseteq 1 .. i
  <2>1. N \in Nat /\ i \in 1 .. N BY <1>2, PathAssumption DEF Nodes
  <2>2. \A x : x \in 1 .. i <=> x \in 1 .. i - 1 \/ x = i BY <2>1
  <2>3. \A x \in 1 .. i - 1 : x \in 1 .. N BY <2>1
  <2> QED BY <2>2, <2>3 DEF Nodes
<1>8. (j = k /\ t = 0) \/ AtMost(Lazy(matrix', <<j, k>>), t) BY <1>1 DEF PairStep
<1> HIDE DEF t, S
<1>9. ASSUME NoNegative(m, S), NEW u \in Nodes, NEW v \in Nodes
      PROVE  Above(m, S, Distance(u, v), u, v) /\ Above(m, S, Distance(u, v)', u, v)
  <2>1. Above(m, S, Distance(u, v), u, v) BY <1>9 DEF InRound, Achieved, S
  <2> QED BY <1>4, <1>5, <1>6, <2>1, AboveStays
<1>10. ASSUME NoNegative(m, 1 .. i), NEW u \in Nodes, NEW v \in Nodes, Passed(u, v) \/ (u = j /\ v = k)
       PROVE  Above(m, 1 .. i, Distance(u, v)', u, v)
  <2>1. CASE Passed(u, v)
    <3>1. Above(m, 1 .. i, Distance(u, v), u, v) BY <1>10, <2>1 DEF InRound
    <3> QED BY <1>4, <1>5, <1>6, <3>1, AboveStays
  <2>2. CASE u = j /\ v = k
    <3>1. NoNegative(m, S) BY <1>7, <1>10, NoNegativeInLess
    <3>2. Above(m, S, distanceJI, u, i) BY <1>2, <2>2, <3>1 DEF InRound, S
    <3>3. Above(m, S, Distance(i, v), i, v) BY <1>2, <1>9, <3>1
    <3>4. Above(m, S, Distance(u, v), u, v) BY <1>9, <3>1
    <3>5. AtMost(Distance(u, v)', Distance(u, v)) BY <1>6
    <3>6. (u = v /\ Plus(distanceJI, Distance(i, v)) = 0) \/ AtMost(Distance(u, v)', Plus(distanceJI, Distance(i, v)))
      BY <1>8, <2>2 DEF t, Distance
    <3>7. NoNegative(m, S \cup {i}) BY <1>7, <1>10
    <3>8. Above(m, S \cup {i}, Distance(u, v)', u, v)
      BY <1>2, <1>4, <1>5, <1>7, <3>2, <3>3, <3>4, <3>5, <3>6, <3>7, PairRelaxed
    <3> QED BY <1>7, <3>8
  <2> QED BY <1>10, <2>1, <2>2
<1>11. ASSUME NEW u \in Nodes, NEW v \in Nodes, i > 1 \/ Passed(u, v) \/ (u = j /\ v = k)
       PROVE  <<u, v>> \in DOMAIN matrix'
  BY <1>1, <1>11 DEF InRound, PairStep
<1>12. ASSUME ~NoNegative(m, 1 .. i) PROVE NegativeDiagonal'
  <2>1. CASE ~NoNegative(m, S) BY <2>1, RelaxLowers DEF InRound, Achieved, S
  <2>2. CASE NoNegative(m, S)
    <3>1. PICK n \in 1 .. N, w \in Int : w < 0 /\ Leads(m, S, i, i, n, w)
      BY <1>2, <1>7, <1>12, <2>2, CycleAt
    <3>2. Above(m, S, Distance(i, i), i, i) BY <1>2, <1>9, <2>2
    <3>3. Bounded(Distance(i, i), i, i, w) BY <3>1, <3>2 DEF Above
    <3>4. Longer(0, Distance(i, i)) BY <1>4, <3>1, <3>3 DEF Bounded, Longer, Costs
    <3>5. NegativeDiagonal BY <1>2, <3>4 DEF NegativeDiagonal
    <3> QED BY <3>5, RelaxLowers
  <2> QED BY <2>1, <2>2
<1> QED BY <1>9, <1>10, <1>11, <1>12 DEF S

\* A step of the innermost loop keeps the invariant; where the round ends, what it
\* was about is achieved.
LEMMA RelaxInv == PathInv /\ Relax => PathInv'
<1> SUFFICES ASSUME PathInv, Relax PROVE PathInv' OBVIOUS
<1>0. N \in Nat /\ N > 0 /\ Infinity \notin Int BY PathAssumption
<1>1. PathTypes /\ Present /\ AtHome BY DEF PathInv
<1>2. PICK m \in Weighings : Began(m) /\ Real(m) /\ InRound(m) BY DEF PathInv, Relax
<1> DEFINE t == Plus(distanceJI, Distance(i, k))
<1>3. PairStep(t) BY <1>1, RelaxStep
<1>4. /\ k # 0 /\ i \in Nodes /\ j \in Nodes /\ k \in Nodes /\ status = "running"
      /\ weight' = weight /\ least' = least /\ distanceJI' = distanceJI
  BY <1>1 DEF PathTypes, Relax, Nodes
<1>5. /\ matrix' \in Matrices
      /\ \A u, v \in Nodes : AtMost(Distance(u, v)', Distance(u, v))
      /\ \A u, v \in Nodes : Distance(u, v)' # Infinity =>
              \E n \in Steps : Leads(m, Nodes, u, v, n, Distance(u, v)')
      /\ NegativeDiagonal => NegativeDiagonal'
      /\ \A v \in Nodes : AtMost(Distance(v, v), 0) => AtMost(Distance(v, v)', 0)
  BY <1>1, <1>2, RelaxLowers
<1>6. (status' = "raised" /\ j = k /\ t # Infinity /\ t < 0 /\ i' = i /\ j' = j /\ k' = k)
      \/ Advance
  BY <1>3 DEF PairStep
<1>7. t \in Costs /\ (t # Infinity => \E n \in Steps : Leads(m, Nodes, j, k, n, t))
  BY <1>1, <1>2, <1>3, <1>4, WayIsReal DEF PairStep
<1>8. Present' /\ Began(m)' BY <1>1, <1>2, <1>4 DEF Present, Began
<1>9. AtHome' BY <1>1, <1>4, <1>5 DEF AtHome, HasLoop
<1> HIDE DEF t
<1>10. CASE status' = "raised" /\ j = k /\ t # Infinity /\ t < 0 /\ i' = i /\ j' = j /\ k' = k
  <2>1. PathTypes' BY <1>1, <1>4, <1>5, <1>10 DEF PathTypes
  <2>2. Real(m)' BY <1>2, <1>4, <1>5, <1>10 DEF Real
  <2>3. Ended(m)' BY <1>4, <1>7, <1>10 DEF Ended, Costs
  <2> QED BY <1>2, <1>8, <1>9, <1>10, <2>1, <2>2, <2>3 DEF PathInv
<1>11. CASE Advance
  <2>1. \/ k < N /\ i' = i /\ j' = j /\ k' = k + 1 /\ status' = "running"
        \/ k = N /\ j < N /\ i' = i /\ j' = j + 1 /\ k' = 0 /\ status' = "running"
        \/ k = N /\ j = N /\ i < N /\ i' = i + 1 /\ j' = 1 /\ k' = 0 /\ status' = "running"
        \/ k = N /\ j = N /\ i = N /\ i' = 1 /\ j' = 1 /\ k' = 0 /\ status' = "returned"
    BY <1>1, <1>4, <1>11, Advances
  <2>2. PathTypes' BY <1>0, <1>1, <1>4, <1>5, <2>1 DEF PathTypes, Nodes
  <2>3. Real(m)' BY <1>0, <1>2, <1>4, <1>5, <2>1 DEF Real
  <2>4. /\ NoNegative(m, 1 .. i) =>
             \A u, v \in Nodes : Passed(u, v) \/ (u = j /\ v = k) =>
               Above(m, 1 .. i, Distance(u, v)', u, v)
        /\ \A u, v \in Nodes : i > 1 \/ Passed(u, v) \/ (u = j /\ v = k) => <<u, v>> \in DOMAIN matrix'
        /\ NoNegative(m, 1 .. i - 1) => \A u, v \in Nodes : Above(m, 1 .. i - 1, Distance(u, v)', u, v)
        /\ ~NoNegative(m, 1 .. i) => NegativeDiagonal'
    BY <1>1, <1>2, <2>1, RelaxInRound
  <2>5. CASE i' = i /\ status' = "running"
    <3>1. \A u, v \in Nodes : Passed(u, v)' => Passed(u, v) \/ (u = j /\ v = k)
      BY <1>4, <2>1, <2>5 DEF Passed, Nodes
    <3>2. Achieved(m, 1 .. i - 1)' BY <1>2, <1>5, <2>4, <2>5 DEF InRound, Achieved
    <3>3. k' # 0 => j' = j BY <2>1
    <3>4. InRound(m)' BY <1>2, <1>4, <2>4, <2>5, <3>1, <3>2, <3>3 DEF InRound
    <3>5. Ended(m)' BY <2>5 DEF Ended
    <3> QED BY <1>2, <1>8, <1>9, <2>2, <2>3, <3>4, <3>5 DEF PathInv
  <2>6. CASE k = N /\ j = N
    <3>1. \A u, v \in Nodes : Passed(u, v) \/ (u = j /\ v = k) BY <1>0, <2>6 DEF Passed, Nodes
    <3>2. \A u, v \in Nodes : <<u, v>> \in DOMAIN matrix' BY <2>4, <3>1
    <3>3. /\ NoNegative(m, 1 .. i) => \A u, v \in Nodes : Above(m, 1 .. i, Distance(u, v)', u, v)
          /\ ~NoNegative(m, 1 .. i) => NegativeDiagonal'
      BY <2>4, <3>1
    <3>4. CASE i' = i + 1 /\ j' = 1 /\ k' = 0 /\ status' = "running"
      <4>1. 1 .. i' - 1 = 1 .. i BY <1>4, <3>4 DEF Nodes
      <4>2. Achieved(m, 1 .. i - 1)' BY <3>3, <4>1 DEF Achieved
      <4>3. \A u, v \in Nodes : ~Passed(u, v)' BY <3>4 DEF Passed, Nodes
      <4>4. InRound(m)' BY <3>2, <3>4, <4>2, <4>3 DEF InRound
      <4>5. Ended(m)' BY <3>4 DEF Ended
      <4> QED BY <1>2, <1>8, <1>9, <2>2, <2>3, <4>4, <4>5 DEF PathInv
    <3>5. CASE i = N /\ status' = "returned"
      <4>1. 1 .. i = Nodes BY <3>5 DEF Nodes
      <4>2. Achieved(m, Nodes)' BY <3>3, <4>1 DEF Achieved
      <4>3. DOMAIN matrix' = Nodes \X Nodes
        <5>1. DOMAIN matrix' \subseteq Nodes \X Nodes BY <1>5 DEF Matrices
        <5> QED BY <3>2, <5>1
      <4>4. Ended(m)' BY <3>5, <4>2, <4>3 DEF Ended
      <4> QED BY <1>2, <1>8, <1>9, <2>2, <2>3, <3>5, <4>4 DEF PathInv
    <3> QED BY <1>4, <2>1, <2>6, <3>4, <3>5 DEF Nodes
  <2> QED BY <2>1, <2>5, <2>6
<1> QED BY <1>6, <1>10, <1>11

\* The invariant holds throughout.
LEMMA PathInvHolds == PathSpec => []PathInv
<1>1. PathInv /\ [PathNext]_pathVars => PathInv'
  <2> SUFFICES ASSUME PathInv, [PathNext]_pathVars PROVE PathInv' OBVIOUS
  <2>1. CASE BeginRow BY <2>1, BeginRowInv
  <2>2. CASE Relax BY <2>2, RelaxInv
  <2>3. CASE UNCHANGED pathVars
    <3> USE <2>3 DEF pathVars
    <3>1. PathTypes' /\ Present' /\ AtHome'
      BY DEF PathInv, PathTypes, Present, AtHome, HasLoop, Distance
    <3>2. PICK m \in Weighings : Began(m) /\ Real(m) /\ (status = "running" => InRound(m)) /\ Ended(m)
      BY DEF PathInv
    <3>3. Began(m)' /\ Real(m)' BY <3>2 DEF Began, Real, Distance
    <3>4. \A S : Achieved(m, S)' <=> Achieved(m, S) BY DEF Achieved, Distance, NegativeDiagonal
    <3>5. InRound(m)' <=> InRound(m) BY <3>4 DEF InRound, Passed, Distance
    <3>6. Ended(m)' BY <3>2, <3>4 DEF Ended
    <3> QED BY <3>1, <3>2, <3>3, <3>5, <3>6 DEF PathInv
  <2> QED BY <2>1, <2>2, <2>3 DEF PathNext
<1> QED BY PathInitInv, <1>1, PTL DEF PathSpec

-----------------------------------------------------------------------------
\* The lightest of the edges between two vertices, and what the matrix has
\* before the loops: its pairs are those of edges, which weigh no less, or those
\* of vertices with themselves, which weigh 0.
LEMMA LightestWeighs ==
  ASSUME NEW ps \in SUBSET Arcs, NEW w \in [ps -> Weights], NEW m \in Direct(w)
  PROVE  /\ Lightest(w) \in Weighings
         /\ \A p \in DOMAIN m :
              \/ p \in DOMAIN Lightest(w) /\ Lightest(w)[p] <= m[p]
              \/ p[1] = p[2] /\ m[p] = 0
         /\ (\A d, e \in ps : Pair(d) = Pair(e) => w[d] = w[e]) =>
              \A p \in DOMAIN Lightest(w) : p \in DOMAIN m /\ m[p] = Lightest(w)[p]
<1> DEFINE r == Lightest(w)
           Ways(p) == {d \in ps : Pair(d) = p}
           Of(p) == {w[e] : e \in Ways(p)}
           diagonal == {<<v, v>> : v \in Nodes}
<1>1. DOMAIN w = ps /\ Weights \subseteq Int /\ IsFiniteSet(Arcs) BY PathAssumption
<1>2. DOMAIN r = {Pair(e) : e \in ps} BY <1>1 DEF Lightest
<1>3. \A p \in DOMAIN r : r[p] = Min(Of(p)) BY <1>1, <1>2 DEF Lightest
<1>4. ASSUME NEW p \in DOMAIN r PROVE r[p] \in Of(p) /\ \A x \in Of(p) : r[p] <= x
  <2>1. IsFiniteSet(Ways(p)) /\ Ways(p) \subseteq ps BY <1>1, FS_Subset
  <2>2. Of(p) \subseteq Int BY <1>1
  <2>3. IsFiniteSet(Of(p))
    <3>1. [e \in Ways(p) |-> w[e]] \in Surjection(Ways(p), Of(p)) BY DEF Surjection
    <3> QED BY <2>1, <3>1, FS_Surjection
  <2>4. Of(p) # {} BY <1>2
  <2> HIDE DEF Of, Ways
  <2>5. Of(p) \subseteq Costs /\ \A x \in Of(p) : x # Infinity
    BY <2>2, PathAssumption DEF Costs
  <2>6. Least(Of(p)) # Infinity /\ Least(Of(p)) \in Of(p) /\ \A x \in Of(p) : Least(Of(p)) <= x
    BY <2>3, <2>4, <2>5, LeastOfSome
  <2>7. Of(p) \ {Infinity} = Of(p) /\ ~(Of(p) \subseteq {Infinity}) BY <2>4, <2>5
  <2>8. Least(Of(p)) = Min(Of(p)) BY <2>7 DEF Least
  <2> QED BY <1>3, <2>6, <2>8
<1> HIDE DEF r
<1>5. r \in Weighings
  <2>1. DOMAIN r \in SUBSET (Nodes \X Nodes) BY <1>2, PathAssumption DEF Pair
  <2>2. \A p \in DOMAIN r : r[p] \in Int BY <1>1, <1>4
  <2>3. r = [p \in DOMAIN r |-> r[p]] BY DEF r, Lightest
  <2>4. r \in [DOMAIN r -> Int] BY <2>2, <2>3
  <2> QED BY <2>1, <2>4 DEF Weighings
<1>6. PICK last \in SUBSET ps :
        /\ \A e \in ps : Cardinality({d \in last : Pair(d) = Pair(e)}) = 1
        /\ m = [p \in diagonal \cup {Pair(e) : e \in last} |->
                  IF \E e \in last : Pair(e) = p THEN w[CHOOSE e \in last : Pair(e) = p] ELSE 0]
  BY <1>1 DEF Direct
<1>7. DOMAIN m = diagonal \cup {Pair(e) : e \in last} BY <1>6
<1>8. \A p \in DOMAIN m :
        \/ \E e \in last : Pair(e) = p /\ m[p] = w[e]
        \/ p \in diagonal /\ m[p] = 0 /\ ~\E e \in last : Pair(e) = p
  <2> TAKE p \in DOMAIN m
  <2>1. CASE \E e \in last : Pair(e) = p
    <3>1. PICK e \in last : Pair(e) = p /\ e = CHOOSE d \in last : Pair(d) = p BY <2>1
    <3> QED BY <1>6, <1>7, <2>1, <3>1
  <2>2. CASE ~\E e \in last : Pair(e) = p BY <1>6, <1>7, <2>2
  <2> QED BY <2>1, <2>2
<1>9. ASSUME NEW p \in DOMAIN m
      PROVE  \/ p \in DOMAIN r /\ r[p] <= m[p]
             \/ p[1] = p[2] /\ m[p] = 0
  <2>1. CASE \E e \in last : Pair(e) = p /\ m[p] = w[e]
    <3>1. PICK e \in last : Pair(e) = p /\ m[p] = w[e] BY <2>1
    <3>2. p \in DOMAIN r /\ m[p] \in Of(p) BY <1>2, <3>1
    <3> QED BY <1>4, <3>2
  <2>2. CASE p \in diagonal /\ m[p] = 0 BY <2>2
  <2> QED BY <1>8, <2>1, <2>2
<1>10. ASSUME \A d, e \in ps : Pair(d) = Pair(e) => w[d] = w[e], NEW p \in DOMAIN r
       PROVE  p \in DOMAIN m /\ m[p] = r[p]
  <2>1. PICK e \in ps : Pair(e) = p BY <1>2
  <2>2. \E d \in last : Pair(d) = p
    <3>1. {d \in last : Pair(d) = p} # {} BY <1>6, <2>1, FS_EmptySet
    <3> QED BY <3>1
  <2>3. p \in DOMAIN m BY <1>7, <2>2
  <2>4. PICK d \in last : Pair(d) = p /\ m[p] = w[d] BY <1>8, <2>2, <2>3
  <2>5. PICK f \in ps : Pair(f) = p /\ r[p] = w[f] BY <1>4
  <2>6. w[d] = w[f] BY <1>10, <2>4, <2>5
  <2> QED BY <2>3, <2>4, <2>5, <2>6
<1>11. \A p \in DOMAIN m :
         \/ p \in DOMAIN r /\ r[p] <= m[p]
         \/ p[1] = p[2] /\ m[p] = 0
  BY <1>9, Zenon
<1>12. (\A d, e \in ps : Pair(d) = Pair(e) => w[d] = w[e]) =>
         \A p \in DOMAIN r : p \in DOMAIN m /\ m[p] = r[p]
  BY <1>10
<1> QED BY <1>5, <1>11, <1>12 DEF r

\* One weighing says no more than another, the 0 of staying where one is apart.
Follows(m, r) ==
  \A p \in DOMAIN m :
    \/ p \in DOMAIN r /\ r[p] <= m[p]
    \/ p[1] = p[2] /\ m[p] = 0

\* A walk along the one has a walk along the other that weighs no more, if it
\* is not one that only stays where it is.
LEMMA WalkFollowed ==
  ASSUME NEW m \in Weighings, NEW r \in Weighings, Follows(m, r), NEW u \in Nodes
  PROVE  \A n \in Steps, v \in Nodes, w \in Int : Leads(m, Nodes, u, v, n, w) =>
           \/ u = v /\ w >= 0
           \/ \E l \in 1 .. n, q \in Int : q <= w /\ Leads(r, Nodes, u, v, l, q)
<1> DEFINE Followed(n, v, w) ==
             \/ u = v /\ w >= 0
             \/ \E l \in 1 .. n, q \in Int : q <= w /\ Leads(r, Nodes, u, v, l, q)
           T == {n \in Nat : \A v \in Nodes, w \in Int :
                   Leads(m, Nodes, u, v, n + 1, w) => Followed(n + 1, v, w)}
\* A step of the one is a step of the other, or none.
<1>1. ASSUME NEW y \in Nodes, NEW v \in Nodes, <<y, v>> \in DOMAIN m
      PROVE  /\ m[<<y, v>>] \in Int
             /\ \/ y = v /\ m[<<y, v>>] = 0
                \/ \E q \in Int : q <= m[<<y, v>>] /\ Leads(r, Nodes, y, v, 1, q)
  <2>1. m[<<y, v>>] \in Int BY <1>1 DEF Weighings
  <2>2. CASE <<y, v>> \in DOMAIN r /\ r[<<y, v>>] <= m[<<y, v>>]
    <3>1. r[<<y, v>>] \in Int BY <2>2 DEF Weighings
    <3>2. Leads(r, Nodes, y, v, 1, r[<<y, v>>]) BY <2>2, OneStep
    <3> QED BY <2>1, <2>2, <3>1, <3>2
  <2>3. CASE y = v /\ m[<<y, v>>] = 0 BY <2>1, <2>3
  <2>4. <<y, v>>[1] = y /\ <<y, v>>[2] = v OBVIOUS
  <2> QED BY <1>1, <2>2, <2>3, <2>4 DEF Follows
<1>2. 0 \in T
  <2> SUFFICES ASSUME NEW v \in Nodes, NEW w \in Int, Leads(m, Nodes, u, v, 0 + 1, w)
               PROVE  Followed(0 + 1, v, w)
    OBVIOUS
  <2>1. 0 + 1 = 1 /\ 1 \in 1 .. 0 + 1 OBVIOUS
  <2>2. <<u, v>> \in DOMAIN m /\ w = m[<<u, v>>] BY <2>1, OneStep
  <2>3. CASE u = v /\ w = 0 BY <2>3
  <2>4. CASE \E q \in Int : q <= w /\ Leads(r, Nodes, u, v, 1, q) BY <2>1, <2>4
  <2> QED BY <1>1, <2>2, <2>3, <2>4
<1>3. ASSUME NEW n \in T PROVE n + 1 \in T
  <2>1. n \in Nat /\ n + 1 \in Nat /\ n + 1 \in Steps BY <1>3 DEF Steps
  <2> SUFFICES ASSUME NEW v \in Nodes, NEW w \in Int,
                      Leads(m, Nodes, u, v, (n + 1) + 1, w)
               PROVE  Followed((n + 1) + 1, v, w)
    BY <2>1
  <2>2. PICK y \in Nodes, x \in Int : /\ <<y, v>> \in DOMAIN m /\ w = x + m[<<y, v>>]
                                      /\ Leads(m, Nodes, u, y, n + 1, x)
    BY <2>1, LastStep
  <2>3. Followed(n + 1, y, x) BY <1>3, <2>2
  <2> HIDE DEF T
  <2>4. m[<<y, v>>] \in Int BY <1>1, <2>2
  <2>5. CASE y = v /\ m[<<y, v>>] = 0
    <3>1. x = w BY <2>2, <2>5
    <3>2. CASE u = v /\ w >= 0 BY <3>2
    <3>3. ASSUME NEW l \in 1 .. n + 1, NEW q \in Int, q <= w, Leads(r, Nodes, u, v, l, q)
          PROVE  Followed((n + 1) + 1, v, w)
      <4>1. l \in 1 .. (n + 1) + 1 BY <2>1
      <4> QED BY <3>3, <4>1
    <3> QED BY <2>3, <2>5, <3>1, <3>2, <3>3
  <2>6. ASSUME NEW q \in Int, q <= m[<<y, v>>], Leads(r, Nodes, y, v, 1, q)
        PROVE  Followed((n + 1) + 1, v, w)
    <3>1. CASE u = y /\ x >= 0
      <4>1. 1 \in 1 .. (n + 1) + 1 /\ q <= w BY <2>1, <2>2, <2>4, <2>6, <3>1
      <4> QED BY <2>6, <3>1, <4>1
    <3>2. ASSUME NEW l \in 1 .. n + 1, NEW z \in Int, z <= x, Leads(r, Nodes, u, y, l, z)
          PROVE  Followed((n + 1) + 1, v, w)
      <4>1. l \in Steps /\ 1 \in Steps /\ l + 1 \in 1 .. (n + 1) + 1 BY <2>1 DEF Steps
      <4>2. Leads(r, Nodes, u, v, l + 1, z + q) BY <2>6, <3>2, <4>1, JoinLeads
      <4>3. z + q \in Int /\ z + q <= w BY <2>2, <2>4, <2>6, <3>2
      <4> QED BY <4>1, <4>2, <4>3
    <3> QED BY <2>3, <3>1, <3>2
  <2> QED BY <1>1, <2>2, <2>5, <2>6
<1>4. T = Nat
  <2>1. T \subseteq Nat OBVIOUS
  <2> HIDE DEF T
  <2> QED BY <1>2, <1>3, <2>1, Induction
<1> SUFFICES ASSUME NEW n \in Steps, NEW v \in Nodes, NEW w \in Int,
                    Leads(m, Nodes, u, v, n, w)
             PROVE  Followed(n, v, w)
  OBVIOUS
<1>5. n - 1 \in Nat /\ (n - 1) + 1 = n BY DEF Steps
<1>6. n - 1 \in T BY <1>4, <1>5
<1> HIDE DEF Followed
<1> QED BY <1>5, <1>6

\* Where every step of one weighing is one of the other, so is every walk.
LEMMA WalkKept ==
  ASSUME NEW m \in Weighings, NEW r \in Weighings,
         \A p \in DOMAIN r : p \in DOMAIN m /\ m[p] = r[p],
         NEW S, NEW u, NEW v, NEW n, NEW w, Leads(r, S, u, v, n, w)
  PROVE  Leads(m, S, u, v, n, w)
<1>1. PICK s, c : /\ Walk(r, n, s, c) /\ s[0] = u /\ s[n] = v /\ c[n] = w
                  /\ \A x \in 1 .. n - 1 : s[x] \in S
  BY DEF Leads
<1>2. Walk(m, n, s, c) BY <1>1 DEF Walk
<1> QED BY <1>1, <1>2 DEF Leads

-----------------------------------------------------------------------------
\* There is a negative cycle as the run sees it just if some closed walk is
\* negative, of however many steps.
LEMMA NegativeCycles ==
  ASSUME NEW m \in Weighings, least = LeastWalks(m)
  PROVE  /\ NegativeCycle <=> ~NoNegative(m, Nodes)
         /\ \A v \in Nodes, n \in Steps, w \in Int :
              w < 0 /\ Leads(m, Nodes, v, v, n, w) => ~NoNegative(m, Nodes)
<1>0. N \in Nat /\ N > 0 /\ Infinity \notin Int BY PathAssumption
<1>1. \A u, v \in Nodes : Best(m, u, v, N, least[<<u, v>>]) BY LeastWalksAreBest
<1>2. ASSUME NegativeCycle PROVE ~NoNegative(m, Nodes)
  <2>1. PICK v \in Nodes : Longer(0, least[<<v, v>>]) BY <1>2 DEF NegativeCycle
  <2>2. least[<<v, v>>] \in Int /\ least[<<v, v>>] < 0
    BY <1>0, <1>1, <2>1 DEF Best, Longer, Costs
  <2>3. \E l \in 1 .. N : Leads(m, Nodes, v, v, l, least[<<v, v>>]) BY <1>0, <1>1, <2>2 DEF Best
  <2> QED BY <2>2, <2>3 DEF NoNegative
<1>3. ASSUME ~NoNegative(m, Nodes) PROVE NegativeCycle
  <2>1. PICK v \in Nodes, n \in 1 .. N, w \in Int : Leads(m, Nodes, v, v, n, w) /\ ~(w >= 0)
    BY <1>3 DEF NoNegative
  <2>2. least[<<v, v>>] \in Costs /\ least[<<v, v>>] # Infinity /\ least[<<v, v>>] <= w
    BY <1>1, <2>1 DEF Best
  <2>3. Longer(0, least[<<v, v>>]) BY <1>0, <2>1, <2>2 DEF Longer, Costs
  <2> QED BY <2>3 DEF NegativeCycle
<1>4. ASSUME NEW v \in Nodes, NEW n \in Steps, NEW w \in Int, w < 0, Leads(m, Nodes, v, v, n, w)
      PROVE  ~NoNegative(m, Nodes)
  <2> SUFFICES ASSUME NoNegative(m, Nodes) PROVE FALSE OBVIOUS
  <2>1. PICK l \in 1 .. N, q \in Int : Leads(m, Nodes, v, v, l, q) /\ q <= w BY <1>4, Shortened
  <2>2. q >= 0 BY <2>1 DEF NoNegative
  <2> QED BY <1>4, <2>1, <2>2
<1> QED BY <1>2, <1>3, <1>4

\* At the end of the loops the invariant says what the distances are.
LEMMA EndsRight == PathInv => ShortestDistances
<1> SUFFICES ASSUME PathInv PROVE ShortestDistances OBVIOUS
<1> DEFINE r == Lightest(weight)
           Alike == ParallelsWeighAlike
<1>0. N \in Nat /\ N > 0 /\ Infinity \notin Int BY PathAssumption
<1>1. PathTypes /\ Present /\ AtHome BY DEF PathInv
<1>2. PICK m \in Weighings : Began(m) /\ Real(m) /\ Ended(m) BY DEF PathInv
<1>3. least = LeastWalks(r) /\ m \in Direct(weight) BY <1>2 DEF Began
<1>4. PICK ps \in SUBSET Arcs : weight \in [ps -> Weights] BY <1>1 DEF Present
<1>5. /\ r \in Weighings /\ Follows(m, r)
      /\ Alike => \A p \in DOMAIN r : p \in DOMAIN m /\ m[p] = r[p]
  <2>1. DOMAIN weight = ps BY <1>4
  <2> QED BY <1>3, <1>4, <2>1, LightestWeighs DEF Follows, ParallelsWeighAlike
<1> HIDE DEF r, Alike
<1>6. \A u, v \in Nodes : Best(r, u, v, N, least[<<u, v>>]) BY <1>3, <1>5, LeastWalksAreBest
<1>7. NegativeCycle <=> ~NoNegative(r, Nodes) BY <1>3, <1>5, NegativeCycles
<1>8. \A v \in Nodes, n \in Steps, w \in Int :
        w < 0 /\ Leads(r, Nodes, v, v, n, w) => NegativeCycle
  BY <1>3, <1>5, NegativeCycles
\* Every walk the loops know of is one of the graph, or heavier than one.
<1>9. ASSUME NEW u \in Nodes, NEW v \in Nodes, NEW n \in Steps, NEW w \in Int,
             Leads(m, Nodes, u, v, n, w)
      PROVE  \/ u = v /\ w >= 0
             \/ \E l \in Steps, q \in Int : q <= w /\ Leads(r, Nodes, u, v, l, q)
  <2>1. \/ u = v /\ w >= 0
        \/ \E l \in 1 .. n, q \in Int : q <= w /\ Leads(r, Nodes, u, v, l, q)
    BY <1>5, <1>9, WalkFollowed
  <2>2. \A l \in 1 .. n : l \in Steps BY DEF Steps
  <2> QED BY <2>1, <2>2
<1>10. ASSUME NEW v \in Nodes, NEW n \in Steps, NEW w \in Int,
              w < 0, Leads(m, Nodes, v, v, n, w)
       PROVE  NegativeCycle
  <2>1. PICK l \in Steps, q \in Int : q <= w /\ Leads(r, Nodes, v, v, l, q) BY <1>9, <1>10
  <2>2. q < 0 BY <1>10, <2>1
  <2> QED BY <1>8, <2>1, <2>2
<1>11. ASSUME ~NegativeCycle PROVE NoNegative(m, Nodes)
  <2> SUFFICES ASSUME NEW v \in Nodes, NEW n \in 1 .. N, NEW w \in Int,
                      Leads(m, Nodes, v, v, n, w), ~(w >= 0)
               PROVE  FALSE
    BY DEF NoNegative
  <2>1. n \in Steps /\ w < 0 BY <1>0 DEF Steps
  <2> QED BY <1>10, <1>11, <2>1
<1>12. ASSUME Alike, NegativeCycle PROVE ~NoNegative(m, Nodes)
  <2>1. PICK v \in Nodes, n \in 1 .. N, w \in Int : Leads(r, Nodes, v, v, n, w) /\ ~(w >= 0)
    BY <1>7, <1>12 DEF NoNegative
  <2>2. Leads(m, Nodes, v, v, n, w) BY <1>5, <1>12, <2>1, WalkKept
  <2> QED BY <2>1, <2>2 DEF NoNegative
<1>13. \A u, v : Distance(u, v) \in Costs BY <1>1, LazyTypes DEF Distance, PathTypes
<1>14. ASSUME NegativeDiagonal PROVE NegativeCycle
  <2>1. PICK v \in Nodes : Longer(0, Distance(v, v)) BY <1>14 DEF NegativeDiagonal
  <2>2. Distance(v, v) \in Int /\ Distance(v, v) < 0 /\ Distance(v, v) # Infinity
    BY <1>0, <1>13, <2>1 DEF Longer, Costs
  <2>3. PICK n \in Steps : Leads(m, Nodes, v, v, n, Distance(v, v)) BY <1>2, <2>2 DEF Real
  <2> QED BY <1>10, <2>2, <2>3
<1>15. DOMAIN matrix = Nodes \X Nodes => \A u, v \in Nodes : matrix[<<u, v>>] = Distance(u, v)
  BY DEF Distance, Lazy
<1>16. CASE status = "returned"
  <2>1. Achieved(m, Nodes) /\ DOMAIN matrix = Nodes \X Nodes BY <1>2, <1>16 DEF Ended
  <2>2. Noticed <=> NegativeDiagonal
    BY <1>15, <1>16, <2>1 DEF NegativeDiagonal, Noticed
  <2>3. Alike /\ NegativeCycle => NegativeDiagonal BY <1>12, <2>1 DEF Achieved
  <2>4. ASSUME ~NegativeCycle, NEW u \in Nodes, NEW v \in Nodes, u # v
        PROVE  /\ ~Longer(least[<<u, v>>], Distance(u, v))
               /\ Alike => Distance(u, v) = least[<<u, v>>]
    <3> DEFINE d == Distance(u, v)
               x == least[<<u, v>>]
    <3>1. NoNegative(m, Nodes) /\ NoNegative(r, Nodes) BY <1>7, <1>11, <2>4
    <3>2. Above(m, Nodes, d, u, v) BY <2>1, <3>1 DEF Achieved
    <3>3. Best(r, u, v, N, x) BY <1>6
    <3>4. d \in Costs /\ x \in Costs BY <1>13, <3>3 DEF Best
    <3>5. ASSUME d # Infinity PROVE x # Infinity /\ x <= d
      <4>1. PICK n \in Steps : Leads(m, Nodes, u, v, n, d) BY <1>2, <3>5 DEF Real
      <4>2. d \in Int BY <3>4, <3>5 DEF Costs
      <4>3. PICK l \in Steps, q \in Int : q <= d /\ Leads(r, Nodes, u, v, l, q)
        BY <1>9, <2>4, <4>1, <4>2
      <4>4. PICK t \in 1 .. N, z \in Int : Leads(r, Nodes, u, v, t, z) /\ z <= q
        BY <1>5, <3>1, <4>3, Shortened
      <4>5. x # Infinity /\ x <= z BY <3>3, <4>4 DEF Best
      <4> HIDE DEF d, x
      <4>6. x \in Int BY <3>4, <4>5 DEF Costs
      <4> QED BY <4>2, <4>3, <4>4, <4>5, <4>6
    <3>6. ASSUME Alike, x # Infinity PROVE d # Infinity /\ d <= x
      <4>1. PICK l \in 1 .. N : Leads(r, Nodes, u, v, l, x) BY <3>3, <3>6 DEF Best
      <4>2. x \in Int BY <3>4, <3>6 DEF Costs
      <4>3. Leads(m, Nodes, u, v, l, x) BY <1>5, <3>6, <4>1, WalkKept
      <4> QED BY <2>4, <3>2, <4>2, <4>3 DEF Above, Bounded
    <3> HIDE DEF d, x
    <3>7. ~Longer(x, d) BY <1>0, <3>4, <3>5 DEF Longer, Costs
    <3>8. Alike => d = x BY <1>0, <3>4, <3>5, <3>6 DEF Costs
    <3> QED BY <3>7, <3>8 DEF d, x
  <2>5. ASSUME ~NegativeCycle, NEW v \in Nodes, ~HasLoop(v) PROVE Distance(v, v) = 0
    <3> DEFINE d == Distance(v, v)
    <3>1. d # Infinity /\ d <= 0 BY <1>0, <1>1, <2>5 DEF AtHome, AtMost
    <3>2. ~Longer(0, d) BY <1>14, <2>5 DEF NegativeDiagonal
    <3>3. d \in Costs BY <1>13
    <3> HIDE DEF d
    <3>4. d = 0 BY <1>0, <3>1, <3>2, <3>3 DEF Longer, Costs
    <3> QED BY <3>4 DEF d
  <2>6. ~NegativeCycle => \A u, v \in Nodes :
          IF u = v THEN HasLoop(v) \/ matrix[<<v, v>>] = 0
          ELSE /\ ~Longer(least[<<u, v>>], matrix[<<u, v>>])
               /\ ParallelsWeighAlike => matrix[<<u, v>>] = least[<<u, v>>]
    BY <1>15, <2>1, <2>4, <2>5 DEF Alike
  <2> QED BY <1>14, <2>2, <2>3, <2>6 DEF ShortestDistances, Alike
<1>17. CASE status = "raised"
  <2>1. NegativeCycle BY <1>2, <1>10, <1>17 DEF Ended
  <2> QED BY <1>17, <2>1 DEF ShortestDistances, Noticed
<1>18. CASE status = "running" BY <1>18 DEF ShortestDistances
<1> QED BY <1>1, <1>16, <1>17, <1>18 DEF PathTypes

\* FloydWarshall::allShortestPaths returns no distance below the least weight of
\* the paths of the graph, and exactly that if parallel edges weigh the same; it
\* notices no negative cycle that is not there and then overlooks none.
THEOREM FindsShortestDistances == PathSpec => []ShortestDistances
<1>1. PathInv => ShortestDistances BY EndsRight
<1> QED BY PathInvHolds, <1>1, PTL
=============================================================================
