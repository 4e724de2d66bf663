---------------------------- MODULE ElementRegistry ----------------------------
(* Every vertex and edge has a uuid, and a table of the program leads from     *)
(* uuids to elements.  Clones of an element have its uuid, readers change      *)
(* uuids, and an element goes when the last pointer to it does.                *)
EXTENDS Maps, Integers, FiniteSets, SequencesExt, Functions

CONSTANTS MaxObjects,   \* bound: elements that are ever created
          MaxRenamed,   \* bound: elements whose uuid a reader sets
          Weighted      \* which of them, unless they are clones, are weighted

ASSUME RegistryAssumption == MaxObjects \in Nat

VARIABLES object,           \* the elements created so far, in that order; the
                            \* number of each also stands for the uuid made for it
          msGraphElements,  \* uuid -> element
          renamed           \* history: elements whose uuid was set

registryVars == <<object, msGraphElements, renamed>>

NewObject(uuid, weighted, registered, ends) ==
    [uuid |-> uuid, weighted |-> weighted, registered |-> registered, ends |-> ends, alive |-> TRUE]

RegistryInit == object = <<>> /\ msGraphElements = <<>> /\ renamed = {}

Alive  == {o \in DOMAIN object : object[o].alive}
HeldByEdges == UNION {ToSet(object[o].ends) : o \in Alive}

\* The numbers of the next n elements.
Numbers(n) == {o \in Len(object) + 1 .. MaxObjects : o <= Len(object) + n}

\* GraphElement's constructor makes a uuid and registers the element with it.
\* Edges have a source and a target, vertices no ends.
Construct(o, ends) ==
    /\ object' = Append(object, NewObject(o, o \in Weighted, TRUE, ends))
    /\ msGraphElements' = Over([u \in {o} |-> u], msGraphElements)
    /\ UNCHANGED renamed

\* clone: a copy has the uuid of its original and is not registered; the copy
\* constructor of a weighted element constructs its GraphElement anew.
Clone(clones, ends) ==
    LET original(c) == CHOOSE o \in DOMAIN clones : clones[o] = c
        weighted == {clones[o] : o \in {o \in DOMAIN clones : object[o].weighted}}
        copy(c) == NewObject(IF c \in weighted THEN c ELSE object[original(c)].uuid,
                             c \in weighted, c \in weighted, ends[original(c)])
    IN /\ object' = Over([c \in Range(clones) |-> copy(c)], object)
       /\ msGraphElements' = Over([u \in weighted |-> u], msGraphElements)
       /\ UNCHANGED renamed

\* BaseGraph::clone: the clones of edges end at the clones of vertices.
CloneGraph(clones) ==
    /\ \A o \in DOMAIN clones : ToSet(object[o].ends) \subseteq DOMAIN clones
    /\ Clone(clones, [o \in DOMAIN clones |->
                        [i \in DOMAIN object[o].ends |-> clones[object[o].ends[i]]]])

\* BaseGraph::cloneEdges: they end at the same vertices.
CloneEdges(clones) ==
    /\ \A o \in DOMAIN clones : object[o].ends # <<>>
    /\ Clone(clones, [o \in DOMAIN clones |-> object[o].ends])

\* Reader::setUuid, with a uuid of the file's; the table is not told.
SetUuid(o, uuid) ==
    /\ Cardinality(renamed \cup {o}) <= MaxRenamed
    /\ object' = [object EXCEPT ![o].uuid = uuid]
    /\ renamed' = renamed \cup {o}
    /\ UNCHANGED msGraphElements

\* Mutant of Destroy: the table keeps the element.
DestroyQuietly(o) ==
    /\ object' = [object EXCEPT ![o].alive = FALSE]
    /\ UNCHANGED <<renamed, msGraphElements>>

\* ~GraphElement: whatever the table has for its uuid now is erased.
Destroy(o) ==
    /\ object' = [object EXCEPT ![o].alive = FALSE]
    /\ msGraphElements' = RestrictDomain(msGraphElements, LAMBDA uuid : uuid # object[o].uuid)
    /\ UNCHANGED renamed

RegistryNext ==
    \/ \E o \in Numbers(1) :
         \/ Construct(o, <<>>)
         \/ \E s, t \in {v \in Alive : object[v].ends = <<>>} : Construct(o, <<s, t>>)
    \/ \E os \in SUBSET Alive \ {{}} : \E clones \in Bijection(os, Numbers(Cardinality(os))) :
         CloneGraph(clones) \/ CloneEdges(clones)
    \/ \E o \in Alive, uuid \in DOMAIN object : SetUuid(o, uuid)
    \/ \E o \in Alive \ HeldByEdges : Destroy(o)

RegistrySpec == RegistryInit /\ [][RegistryNext]_registryVars

\* fromUuid finds an element whose uuid was not set as long as no other that has
\* this uuid, a clone or one that was given it, is destroyed; when the element is
\* destroyed itself, its uuid leads nowhere. If its uuid was set (GraphElement.cpp:77)
\* the old one goes on leading to it when it is gone.
ElementsAreFound ==
    \A o \in {o \in DOMAIN object : object[o].registered} \ renamed :
        /\ (\A p \in DOMAIN object : object[p].uuid = o => p \in Alive) =>
             o \in DOMAIN msGraphElements /\ msGraphElements[o] = o
        /\ o \in DOMAIN msGraphElements => o \in Alive

\* GraphElement.hpp of fromUuid: it gets the existing element from its uuid. It
\* does not after a clone of the element was destroyed.
ExistingIsFound ==
    \A o \in Alive \ renamed : object[o].registered => o \in DOMAIN msGraphElements
=============================================================================
