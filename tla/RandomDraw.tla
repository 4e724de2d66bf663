------------------------------ MODULE RandomDraw ------------------------------
(* RandomDraw: draws the id of an element with a chance in proportion to its   *)
(* density.  The sum of the densities is kept between draws.  Random numbers   *)
(* are multiples of 1/Parts, from 0 on and below 1.                            *)
EXTENDS Maps, Integers, FiniteSetsExt, Functions, TLC

CONSTANTS DrawIds, Densities,   \* the ids, and the densities they may get
          Parts

ASSUME DrawAssumption ==
    /\ DrawIds \subseteq Nat /\ IsFiniteSet(DrawIds) /\ DrawIds # {}
    /\ Densities \subseteq Nat /\ Parts \in Nat \ {0}

VARIABLES mProbabilityDensity, mUpdated, mProbabilityDensitySum,
          drawn   \* what the last drawItem did: <<random number, id>>

drawVars == <<mProbabilityDensity, mUpdated, mProbabilityDensitySum, drawn>>
Nothing == -1   \* drawItem has thrown

DrawInit == /\ mProbabilityDensity = <<>> /\ mUpdated = FALSE
            /\ mProbabilityDensitySum = 0 /\ drawn = <<>>

SetProbabilityDensity(id, density) ==
    /\ mProbabilityDensity' = Over(Entry(id, density), mProbabilityDensity)
    /\ mUpdated' = TRUE /\ drawn' = <<>>
    /\ UNCHANGED mProbabilityDensitySum

RemoveItem(id) ==
    /\ id \in DOMAIN mProbabilityDensity
    /\ mProbabilityDensity' = RestrictDomain(mProbabilityDensity, LAMBDA x : x # id)
    /\ mUpdated' = TRUE /\ drawn' = <<>>
    /\ UNCHANGED mProbabilityDensitySum

\* The densities are added up in the order of the map, which is that of the ids.
Density(id) == IF id \in DOMAIN mProbabilityDensity THEN mProbabilityDensity[id] ELSE 0
DensityUpTo(id) ==
    LET upTo[n \in 0 .. id] == IF n = 0 THEN Density(0) ELSE upTo[n - 1] + Density(n)
    IN upTo[id]
AllDensities == DensityUpTo(Max(DrawIds))

\* Mutant of GetProbabilityDensitySum: the sum is not set to zero first.
SumFromBefore == mProbabilityDensitySum + AllDensities

\* mUpdated is never reset, so the sum is computed anew every time.
GetProbabilityDensitySum ==
    IF mUpdated THEN AllDensities ELSE mProbabilityDensitySum

\* The first id, in the order of the map, whose densities up to it reach the
\* random part of the sum.
DrawItem(number) ==
    LET sum   == GetProbabilityDensitySum
        hits  == {id \in DOMAIN mProbabilityDensity : number * sum <= Parts * DensityUpTo(id)}
        fails == mProbabilityDensity = <<>> \/ sum = 0 \/ hits = {}
    IN /\ drawn' = <<number, IF fails THEN Nothing ELSE Min(hits)>>
       /\ mProbabilityDensitySum' = IF mProbabilityDensity = <<>> THEN mProbabilityDensitySum ELSE sum
       /\ UNCHANGED <<mProbabilityDensity, mUpdated>>

DrawNext == \/ \E id \in DrawIds : RemoveItem(id) \/ \E d \in Densities : SetProbabilityDensity(id, d)
            \/ \E number \in 0 .. Parts - 1 : DrawItem(number)
DrawSpec == DrawInit /\ [][DrawNext]_drawVars

\* A draw gives an item whenever one has a density, whatever was set and
\* removed before, and never one without, unless the random number is zero.
DrawsAnItem ==
    drawn # <<>> =>
        LET possible == {id \in DOMAIN mProbabilityDensity : mProbabilityDensity[id] > 0}
        IN /\ drawn[2] = Nothing <=> possible = {}
           /\ possible # {} /\ drawn[1] > 0 => drawn[2] \in possible
=============================================================================
