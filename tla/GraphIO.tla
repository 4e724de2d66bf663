------------------------------ MODULE GraphIO ------------------------------
(* Graphs written to and read from files (GraphIO and the readers and writers  *)
(* of src/io), by programs that registered different classes of vertices and   *)
(* edges.  A file stays on disk while the program that wrote it is replaced by *)
(* another version, or is edited by hand; what a graph is after a read depends *)
(* on both programs and on the format.                                         *)
(*                                                                             *)
(* An element is [type, label, uuid, values]; values maps each member of its   *)
(* class, <<class, member>>, to the member the value was first put into, so    *)
(* that a value in the wrong place shows.  Edges name their ends by position   *)
(* in the sequence of vertices.                                                *)
EXTENDS ElementTypes

CONSTANTS VertexTypes, EdgeTypes,   \* numbers in alphabetical order, disjoint
          Vertex, Edge,             \* the classes of the library itself
          ClassParents,             \* C++ inheritance: type -> set of types
          Members, LabelMember,     \* LabelMember: the member called "label"
          Programs,                 \* the versions: sequences of registerType calls
          Graphs,                   \* the graphs a program may have built
          Names,                    \* file names: sequences of suffixes
          Requested,                \* the formats callers ask for
          MaxFiles, MaxNodes        \* bounds: files on disk, vertices in memory

ASSUME TypesAssumption ==
    /\ \A S \in {VertexTypes, EdgeTypes, Members} : S \subseteq Nat /\ IsFiniteSet(S)
    /\ VertexTypes \cap EdgeTypes = {}
    /\ Vertex \in VertexTypes /\ Edge \in EdgeTypes

ASSUME ProgramsAssumption ==
    Programs \subseteq Seq([type : VertexTypes \cup EdgeTypes, members : SUBSET Members,
                           parents : SUBSET (VertexTypes \cup EdgeTypes), default : BOOLEAN])

\* An edge of a graph that was built connects two of its vertices.
ASSUME GraphsAssumption ==
    \A graph \in Graphs :
       /\ graph.nodes \in Seq(ToSet(graph.nodes)) /\ graph.edges \in Seq(ToSet(graph.edges))
       /\ \A e \in ToSet(graph.edges) :
             /\ DOMAIN e = {"type", "label", "source", "target"}
             /\ e.source \in DOMAIN graph.nodes /\ e.target \in DOMAIN graph.nodes

VARIABLES
    vertexTypeManager, edgeTypeManager,  \* of the running program
    nodes, edges,                        \* the graph it holds
    disk,                                \* file name -> contents
    last                                 \* the last call and how it ended

vars == <<vertexTypeManager, edgeTypeManager, nodes, edges, disk, last>>

NoUuid == <<"none", 0>>

\* The members an object of class t really has.
ClassSlots(t) ==
    LET up[n \in Nat] ==
          IF n = 0 THEN {t} ELSE up[n - 1] \cup UNION {ClassParents[c] : c \in up[n - 1]}
    IN up[Cardinality(VertexTypes \cup EdgeTypes)] \X Members

Unset(t) == [slot \in ClassSlots(t) |-> Missing]

---------------------------------------------------------------------------
(* Formats and names.                                                          *)
TypeOfSuffix == [yaml |-> "YAML", gexf |-> "GEXF", graphml |-> "GRAPHML",
                 xml |-> "GEXF", lemon |-> "LEMON", dot |-> "GRAPHVIZ"]
Writers == {"GEXF", "GRAPHML", "GRAPHVIZ", "YAML"}
Readers == {"GEXF", "GRAPHML", "YAML"}

\* A suffix nobody knows throws.
TypeFromFilename(name) ==
    CASE name = <<>> -> "UNKNOWN"
      [] name # <<>> /\ Last(name) \in DOMAIN TypeOfSuffix -> TypeOfSuffix[Last(name)]
      [] OTHER -> "throws"

\* The first suffix of the format, in alphabetical order.
Suffix(format) ==
    [YAML |-> "yaml", GEXF |-> "gexf", GRAPHML |-> "graphml", LEMON |-> "lemon",
     GRAPHVIZ |-> "dot"][format]

AppendSuffix(name, format) ==
    CASE TypeFromFilename(name) = format -> name
      [] TypeFromFilename(name) = "UNKNOWN" -> Append(name, Suffix(format))
      [] OTHER -> Missing

Resolved(name, format) == IF format = "UNKNOWN" THEN TypeFromFilename(name) ELSE format

\* GexfWriter takes every ".gexf" out of the name and puts one at its end; the
\* YAML writer adds ".yml" to a name without ".yml" or ".yaml" in it.
WrittenName(name, format) ==
    CASE format = "GEXF" -> Append(SelectSeq(name, LAMBDA s : s # "gexf"), "gexf")
      [] format = "YAML" /\ {"yaml", "yml"} \cap ToSet(name) = {} -> Append(name, "yml")
      [] OTHER -> name

---------------------------------------------------------------------------
(* What a file holds: the elements with their class, label and the data of     *)
(* their attributes by id, the column GEXF takes labels from, and, for the     *)
(* properties, the elements themselves and the lists they were written with.   *)

\* The column whose title is "label" that comes last: the writer's own comes
\* before those named by a class.
LabelColumn(m) ==
    LET titled == {a.id : a \in {b \in KnownAttributes(m, {}) : b.slot[2] = LabelMember}}
        after(x, y) == x[1] < y[1] \/ (x[1] = y[1] /\ x[2] < y[2])
    IN
    IF titled = {} THEN Missing
    ELSE CHOOSE x \in titled : \A y \in titled : y = x \/ after(y, x)

\* A vertex as a writer stores it; data is what is kept of its members.
Stored(m, e, id) == [element |-> e, data |-> AttributeValues(m, e),
                     list |-> Attributes(m, e.type, FALSE), id |-> id]
StoredNodes == [i \in DOMAIN nodes |-> Stored(vertexTypeManager, nodes[i], i)]

EdgeAttributes(t, legacy) == Attributes(edgeTypeManager, t, legacy)
EdgeValues(e) == AttributeValues(edgeTypeManager, e)
StoredEdges == [i \in DOMAIN edges |->
                   [element |-> edges[i], data |-> EdgeValues(edges[i]),
                    list |-> EdgeAttributes(edges[i].type, FALSE)]]

\* GexfWriter declares the attributes of every registered class.
GexfContents ==
    [format |-> "GEXF", intact |-> TRUE, nodes |-> StoredNodes, edges |-> StoredEdges,
     vlabels |-> LabelColumn(vertexTypeManager), elabels |-> LabelColumn(edgeTypeManager)]

\* GraphMLWriter: a key for each attribute of the classes that occur.
GraphMLContents ==
    [format |-> "GRAPHML", intact |-> TRUE, nodes |-> StoredNodes, edges |-> StoredEdges]

\* YamlWriter stores no members.
YamlContents ==
    [format |-> "YAML", intact |-> TRUE,
     nodes |-> [i \in DOMAIN nodes |-> [StoredNodes[i] EXCEPT !.data = <<>>]],
     edges |-> [i \in DOMAIN edges |-> [StoredEdges[i] EXCEPT !.data = <<>>]]]

\* No reader takes what GraphvizWriter writes.
DotContents == [format |-> "GRAPHVIZ", intact |-> FALSE, nodes |-> <<>>, edges |-> <<>>]

Contents(format) ==
    CASE format = "GEXF" -> GexfContents
      [] format = "GRAPHML" -> GraphMLContents
      [] format = "YAML" -> YamlContents
      [] format = "GRAPHVIZ" -> DotContents

Returns(call, name, outcome) == last' = [call |-> call, name |-> name, outcome |-> outcome]

\* GraphIO::write.  The file may be one that cannot be opened, which GraphML
\* and YAML do not report.
Write(name, format) ==
    LET type == Resolved(name, format)
        full == AppendSuffix(name, type)
    IN
    /\ Cardinality(DOMAIN disk) < MaxFiles
    /\ UNCHANGED <<vertexTypeManager, edgeTypeManager, nodes, edges>>
    /\ IF nodes = <<>> \/ type \notin Writers \/ full = Missing
       THEN Returns("write", name, "throws") /\ UNCHANGED disk
       ELSE /\ disk' = Over(Entry(WrittenName(full, type), Contents(type)), disk)
            /\ Returns("write", full, "ok")

WriteUnopened(name, format) ==
    LET full == AppendSuffix(name, Resolved(name, format)) IN
    /\ Resolved(name, format) \in {"GRAPHML", "YAML"} /\ nodes # <<>> /\ full # Missing
    /\ Returns("write", full, "unopened")
    /\ UNCHANGED <<vertexTypeManager, edgeTypeManager, nodes, edges, disk>>

---------------------------------------------------------------------------
(* Readers: each yields the vertices and edges that are in the graph after it. *)
(* A stored edge whose end is missing ends the read (GEXF, YAML: addEdge with  *)
(* a null end throws) or is left out (GraphML).                                *)

\* createVertex and createEdge clone the prototype, uuid included.
Created(t, label) ==
    [type |-> t, label |-> label, uuid |-> <<"prototype", t>>, values |-> Unset(t)]

CreatedEdge(t, label) == Created(t, label)

\* The position of the vertex with the file's id among those read.
AtPlace(read, id) == IF id \in DOMAIN read THEN id ELSE 0
At(read, id) == IF \E i \in DOMAIN read : read[i].id = id
                THEN CHOOSE i \in DOMAIN read : read[i].id = id ELSE 0

Ends(read, s) == [source |-> At(read, s.element.source), target |-> At(read, s.element.target)]
Attached(e) == e.source # 0 /\ e.target # 0
UntilUnattached(es) == {i \in DOMAIN es : \A j \in 1 .. i : Attached(es[j])}
Kept(es) == [i \in UntilUnattached(es) |-> es[i]]

\* GEXF: an unregistered class becomes a placeholder of the library's class.
GexfLabel(s, column) ==
    IF column = Missing THEN s.element.label
    ELSE IF column \in DOMAIN s.data THEN "member data" ELSE ""
GexfElement(m, s, column, base) ==
    IF s.element.type \in Registered(m)
    THEN LET c == Created(s.element.type, GexfLabel(s, column)) IN
         [c EXCEPT !.values = Deserialized(m, c.type, @, s.data, TRUE)]
    ELSE [type |-> base, label |-> "placeholder", uuid |-> NoUuid, values |-> Unset(base)]

\* GraphML: elements of an unregistered class are left out; the uuid is kept.
GraphMLElementPrototypeUuid(m, s) ==
    LET c == Created(s.element.type, s.element.label) IN
    [c EXCEPT !.values = Deserialized(m, c.type, @, s.data, TRUE)]
GraphMLElement(m, s) ==
    LET c == Created(s.element.type, s.element.label) IN
    [c EXCEPT !.uuid = s.element.uuid,
              !.values = Deserialized(m, c.type, @, s.data, TRUE)]
GraphMLNode(s) == GraphMLElement(vertexTypeManager, s)
GraphMLEdge(s) ==
    [CreatedEdge(s.element.type, s.element.label) EXCEPT
        !.uuid = s.element.uuid,
        !.values = Deserialized(edgeTypeManager, s.element.type, @, s.data, TRUE)]

\* YAML: a label ends at the first blank; an empty one takes the "-" that
\* begins the next entry for its value, and that entry is skipped.
Parsed(ss) ==
    LET parsed[i \in Nat] ==
          i = 1 \/ (i > 1 /\ ~(parsed[i - 1] /\ ss[i - 1].element.label = ""))
    IN parsed
YamlLabel(ss, i) ==
    CASE ss[i].element.label = "two words" -> "two"
      [] ss[i].element.label = "" -> IF i < Len(ss) THEN "-" ELSE "label:"
      [] OTHER -> ss[i].element.label
YamlEntries(ss) ==
    LET entries == [i \in DOMAIN ss |-> [s |-> ss[i], label |-> YamlLabel(ss, i),
                                         parsed |-> Parsed(ss)[i]]]
    IN Among(entries, {x \in ToSet(entries) : x.parsed})

GexfNode(f, s) == GexfElement(vertexTypeManager, s, f.vlabels, Vertex)
GexfEdge(f, s) == Over(Ends(f.nodes, s), GexfElement(edgeTypeManager, s, f.elabels, Edge))

\* The graph of a file of the format the reader expects.
GexfGraph(f) ==
    LET ns == [i \in DOMAIN f.nodes |-> GexfNode(f, f.nodes[i])]
        es == [i \in DOMAIN f.edges |-> GexfEdge(f, f.edges[i])]
    IN [nodes |-> ns, edges |-> Kept(es), throws |-> \E i \in DOMAIN es : ~Attached(es[i])]

KnownNodes(f) ==
    Among(f.nodes, {s \in ToSet(f.nodes) : s.element.type \in Registered(vertexTypeManager)})
KnownEdges(f) ==
    Among(f.edges, {s \in ToSet(f.edges) : /\ s.element.type \in Registered(edgeTypeManager)
                                           /\ Attached(Ends(KnownNodes(f), s))})
Behind(ends, n) == [source |-> ends.source + n, target |-> ends.target + n]
GraphMLGraph(f) ==
    LET known == KnownNodes(f)
        read == KnownEdges(f)
    IN [nodes |-> nodes \o [i \in DOMAIN known |-> GraphMLNode(known[i])],
        edges |-> edges \o [i \in DOMAIN read |->
                               Over(Behind(Ends(known, read[i]), Len(nodes)), GraphMLEdge(read[i]))],
        throws |-> FALSE]

YamlGraph(f) ==
    LET vs == YamlEntries(f.nodes)
        ids == [i \in DOMAIN vs |-> vs[i].s]
        ns == [i \in DOMAIN vs |->
                  Created(ByType(vertexTypeManager, vs[i].s.element.type, FALSE), vs[i].label)]
        entries == YamlEntries(f.edges)
        es == [i \in DOMAIN entries |-> Over(Ends(ids, entries[i].s),
                  [type |-> Edge, label |-> entries[i].label, uuid |-> NoUuid,
                   values |-> Unset(Edge)])]
    IN [nodes |-> ns, edges |-> Kept(es), throws |-> \E i \in DOMAIN es : ~Attached(es[i])]

\* YAML and dot are no XML, nor is a GraphML file with markup in a label,
\* which the writer does not escape.
IsXml(f) ==
    \/ f.format = "GEXF"
    \/ /\ f.format = "GRAPHML"
       /\ \A s \in ToSet(f.nodes) \cup ToSet(f.edges) : s.element.label # "<markup>"

\* What is not of the reader's format yields no element.  GraphML alone adds to
\* the graph, the others clear it first.
ReadGraph(f, type) ==
    LET none == [nodes |-> <<>>, edges |-> <<>>, throws |-> FALSE] IN
    CASE type = "GRAPHML" /\ f.format = "GRAPHML" /\ IsXml(f) -> GraphMLGraph(f)
      [] type = "GRAPHML" /\ (f.format # "GRAPHML" \/ ~IsXml(f)) ->
            [nodes |-> nodes, edges |-> edges, throws |-> ~IsXml(f)]
      [] type = "GEXF" /\ f.format = "GEXF" -> GexfGraph(f)
      [] type = "YAML" /\ f.format = "YAML" -> YamlGraph(f)
      [] OTHER -> none

Read(name, format) ==
    LET type == Resolved(name, format) IN
    /\ UNCHANGED <<vertexTypeManager, edgeTypeManager, disk>>
    /\ IF name \notin DOMAIN disk \/ type \notin Readers
       THEN Returns("read", name, "throws") /\ UNCHANGED <<nodes, edges>>
       ELSE LET g == ReadGraph(disk[name], type) IN
            /\ Len(g.nodes) <= MaxNodes
            /\ nodes' = g.nodes /\ edges' = g.edges
            /\ Returns("read", name, IF g.throws THEN "throws" ELSE type)

---------------------------------------------------------------------------
\* What a program registers when it starts, vertices and edges alike.
Registering(m, types, call) ==
    CASE call.type \in types /\ call.default -> SetDefaultType(m, call.type)
      [] call.type \in types /\ ~call.default ->
            RegisterClass(m, call.type, call.parents, call.members)
      [] OTHER -> m
Started(base, types, program) ==
    LET started[n \in 0 .. Len(program)] ==
          IF n = 0 THEN NewManager(base) ELSE Registering(started[n - 1], types, program[n])
    IN started[Len(program)]

StartedVertices(program) == Started(Vertex, VertexTypes, program)
StartedEdges(program) == Started(Edge, EdgeTypes, program)

Fresh(e, i) == Over(e, [uuid |-> <<"own", i>>, values |-> [s \in ClassSlots(e.type) |-> s]])

\* A program starts, registers its classes and builds a graph.
Init == /\ disk = <<>>
        /\ \E program \in Programs, graph \in Graphs :
              /\ vertexTypeManager = StartedVertices(program)
              /\ edgeTypeManager = StartedEdges(program)
              /\ nodes = [i \in DOMAIN graph.nodes |-> Fresh(graph.nodes[i], i)]
              /\ edges = [i \in DOMAIN graph.edges |-> Fresh(graph.edges[i], i)]
        /\ last = [call |-> "start", name |-> <<>>, outcome |-> "ok"]

\* Another version starts, with an empty graph to read into.
Restart == /\ \E program \in Programs :
                 /\ vertexTypeManager' = StartedVertices(program)
                 /\ edgeTypeManager' = StartedEdges(program)
           /\ nodes' = <<>> /\ edges' = <<>>
           /\ Returns("start", <<>>, "ok")
           /\ UNCHANGED disk

\* Somebody edits a file and takes its first node out.
Edit(name) ==
    /\ disk[name].intact /\ disk[name].nodes # <<>>
    /\ disk' = [disk EXCEPT ![name].nodes = Tail(@), ![name].intact = FALSE]
    /\ Returns("edit", name, "ok")
    /\ UNCHANGED <<vertexTypeManager, edgeTypeManager, nodes, edges>>

Next ==
    \/ \E name \in Names, format \in Requested :
          Write(name, format) \/ WriteUnopened(name, format)
    \/ \E name \in Names \cup DOMAIN disk, format \in Requested :
          Read(name, format)
    \/ \E name \in DOMAIN disk : Edit(name)
    \/ Restart

Spec == Init /\ [][Next]_vars

---------------------------------------------------------------------------
(* Properties.                                                                 *)

\* Within the attributes of a class, early files' included, an id names one
\* member: data is never read into two (VertexTypeManager.cpp:160).
OneMemberPerId ==
    \A m \in {vertexTypeManager, edgeTypeManager} : \A t \in Registered(m) :
        LET as == Attributes(m, t, TRUE) IN
        \A i, j \in DOMAIN as : as[i].id = as[j].id => as[i].slot = as[j].slot

\* The element with its class and what was written of its members, each in its
\* own place, and with its label.
MembersComeBack(s, e) ==
    /\ e.type = s.element.type
    /\ \A slot \in DOMAIN e.values :
          e.values[slot] = IF \E i \in DOMAIN s.list : s.list[i].slot = slot
                           THEN s.element.values[slot] ELSE Missing
ComesBack(s, e) == MembersComeBack(s, e) /\ e.label = s.element.label

\* The program registered the class with the very attributes it was written with.
SameClass(m, s) ==
    s.element.type \in Registered(m) /\ s.list = Attributes(m, s.element.type, FALSE)

\* A program that has all classes in a file nobody edited reads it in its format.
ReadsOwn(name) ==
    LET f == disk[name] IN
    /\ f.intact /\ last'.call = "read" /\ last'.name = name
    /\ \A s \in ToSet(f.nodes) : SameClass(vertexTypeManager, s)
    /\ \A s \in ToSet(f.edges) : SameClass(edgeTypeManager, s)
    /\ \E format \in Requested : Resolved(name, format) = f.format /\ Read(name, format)

GexfComesBack(f) ==
    /\ Len(nodes') = Len(f.nodes) /\ Len(edges') = Len(f.edges)
    /\ \A i \in DOMAIN nodes' :
          /\ MembersComeBack(f.nodes[i], nodes'[i])
          /\ f.vlabels = Missing => ComesBack(f.nodes[i], nodes'[i])
    /\ \A i \in DOMAIN edges' :
          /\ MembersComeBack(f.edges[i], edges'[i])
          /\ f.elabels = Missing => ComesBack(f.edges[i], edges'[i])
          /\ edges'[i].source = f.edges[i].element.source
          /\ edges'[i].target = f.edges[i].element.target

GraphMLComesBack(f) ==
    /\ Len(nodes') = Len(nodes) + Len(f.nodes)
    /\ Len(edges') = Len(edges) + Len(f.edges)
    /\ \A i \in DOMAIN nodes : nodes'[i] = nodes[i]
    /\ \A i \in DOMAIN edges : edges'[i] = edges[i]
    /\ \A i \in DOMAIN f.nodes :
          /\ ComesBack(f.nodes[i], nodes'[i + Len(nodes)])
          /\ nodes'[i + Len(nodes)].uuid = f.nodes[i].element.uuid
    /\ \A i \in DOMAIN f.edges :
          LET e == edges'[i + Len(edges)] IN
          /\ ComesBack(f.edges[i], e)
          /\ e.source = f.edges[i].element.source + Len(nodes)
          /\ e.target = f.edges[i].element.target + Len(nodes)

\* Reading a file that a program with the same classes wrote does not throw, and
\* everything in it comes back. In GEXF it is the graph, without the labels if a
\* class has an attribute called "label", which takes their column; in GraphML,
\* unless a label has markup in it, it follows what was in the graph already, with
\* the uuids.
RoundTrip ==
    [][\A name \in DOMAIN disk : ReadsOwn(name) =>
        LET f == disk[name] IN
        /\ f.format = "GEXF" => last'.outcome = "GEXF" /\ GexfComesBack(f)
        /\ f.format = "GRAPHML" /\ IsXml(f) => last'.outcome = "GRAPHML" /\ GraphMLComesBack(f)]_vars

\* The edges read from f that the graph did not have connect what they connected
\* in f.
ConnectAsIn(f) ==
    LET same(node, id) == \E t \in ToSet(f.nodes) : t.id = id /\ t.element.uuid = node.uuid IN
    \A i \in DOMAIN edges' \ DOMAIN edges :
        \E s \in ToSet(f.edges) :
            /\ edges'[i].uuid = s.element.uuid
            /\ same(nodes'[edges'[i].source], s.element.source)
            /\ same(nodes'[edges'[i].target], s.element.target)

\* Whatever classes the reading program lacks and whatever was edited out of
\* the file: an edge read from GraphML connects what it connected in the file.
EdgesKeepTheirEnds ==
    [][last'.call = "read" /\ last'.outcome = "GRAPHML" => ConnectAsIn(disk[last'.name])]_vars

=============================================================================
