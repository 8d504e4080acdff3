------------------------------ MODULE DocTree ------------------------------
(***************************************************************************)
(* build_document_tree (doc_tree.rs): the section tree of a document.  A   *)
(* body is a sequence of lines, a line is what the heading parsers look    *)
(* at, and a section is known by its number in the text.  The tree is      *)
(* built with a stack of raw pointers into vectors that grow meanwhile: a  *)
(* push may move every element of the vector it is made on.                *)
(***************************************************************************)
EXTENDS Naturals, Sequences, FiniteSets, SequencesExt

CONSTANTS
    DocLines,     \* the lines a body is made of
    MaxLines      \* bound: lines of a body


VARIABLES
    docBody,      \* the lines of the document
    prepared,     \* the flat sections
    taken,        \* sections put into the tree so far
    vecs,         \* vecs[s]: children of section s; vecs[0]: roots
    moves,        \* moves[s]: pushes made on vecs[s]
    stack,        \* pointers to the open sections, outermost first
    dpc           \* "building", "built"

dvars == <<docBody, prepared, taken, vecs, moves, stack, dpc>>

\* A line: its marker, how often the marker is repeated, whether a blank and
\* then a title follow it.
Line == [mark : {"hash", "number", "section", "text"}, n : Nat, gap : BOOLEAN, title : BOOLEAN]

ASSUME DocAssumption == DocLines \subseteq Line /\ MaxLines \in Nat

\* parse_atx_line: the depth of a Markdown heading, 0 for another line.
ParseAtx(line) ==
    IF line.mark = "hash" /\ line.n \in 1..6 /\ line.gap /\ line.title THEN line.n ELSE 0

\* parse_numbered: the depth of "1.2. Title", 0 for another line.
ParseNumbered(line) ==
    IF line.mark = "number" /\ line.n > 0 /\ line.gap /\ line.title THEN line.n ELSE 0

\* One line of detect_section_markers.
ParseMarker(line) ==
    IF line.mark = "section" THEN (IF line.title THEN 1 ELSE 0) ELSE ParseNumbered(line)

\* The headings in source order, given the depth of every line.
Headings(depths) ==
    LET at == {i \in DOMAIN depths : depths[i] > 0}
        Nth(k) == CHOOSE i \in at : Cardinality({j \in at : j <= i}) = k
    IN [k \in 1..Cardinality(at) |-> [depth |-> depths[Nth(k)], start |-> Nth(k)]]

\* detect_headings: the first dialect that finds a heading.
DetectHeadings(lines) ==
    LET md == Headings([i \in DOMAIN lines |-> ParseAtx(lines[i])])
    IN IF md # <<>> THEN md ELSE Headings([i \in DOMAIN lines |-> ParseMarker(lines[i])])

\* A section ends where the next one starts, the last one with the body.
Prepare(lines) ==
    LET hs == DetectHeadings(lines)
    IN [k \in DOMAIN hs |->
          [depth |-> hs[k].depth, start |-> hs[k].start,
           end |-> IF k = Len(hs) THEN Len(lines) + 1 ELSE hs[k + 1].start]]

DocInit ==
    /\ docBody \in UNION {[1..n -> DocLines] : n \in 0..MaxLines}
    /\ prepared = Prepare(docBody)
    /\ taken = 0
    /\ vecs = [s \in 0..Len(prepared) |-> <<>>]
    /\ moves = [s \in 0..Len(prepared) |-> 0]
    /\ stack = <<>>
    /\ dpc = IF prepared = <<>> THEN "built" ELSE "building"

\* Mutant: a section of the same depth stays open.
PoppedEqual(depth) ==
    SubSeq(stack, 1, Max({0} \cup {i \in DOMAIN stack : stack[i].depth <= depth}))

\* The stack once every section at its end that is as deep is closed.
Popped(depth) ==
    SubSeq(stack, 1, Max({0} \cup {i \in DOMAIN stack : stack[i].depth < depth}))

\* The vector the new section is pushed on.
PushOn(depth) == IF Popped(depth) = <<>> THEN 0 ELSE Last(Popped(depth)).node

\* Mutant: the pointer is taken before the push that may move its vector.
PointerEarly(s, depth, v) == [depth |-> depth, node |-> s, vec |-> v, seen |-> moves[v]]

\* The pointer to the element just pushed.
Pointer(s, depth, v) == [depth |-> depth, node |-> s, vec |-> v, seen |-> moves[v] + 1]

\* One round of the loop over the prepared sections.
PlaceSection ==
    /\ dpc = "building" /\ taken < Len(prepared)
    /\ LET s == taken + 1
           depth == prepared[s].depth
           v == PushOn(depth)
       IN /\ vecs' = [vecs EXCEPT ![v] = Append(@, s)]
          /\ moves' = [moves EXCEPT ![v] = @ + 1]
          /\ stack' = Append(Popped(depth), Pointer(s, depth, v))
          /\ taken' = s
    /\ dpc' = IF taken' = Len(prepared) THEN "built" ELSE "building"
    /\ UNCHANGED <<docBody, prepared>>

DocDone == dpc = "built" /\ UNCHANGED dvars

DocNext == PlaceSection \/ DocDone

DocSpec == DocInit /\ [][DocNext]_dvars

-----------------------------------------------------------------------------

\* Mutant: a path is the position among the siblings alone.
PathsFlat ==
    [s \in DOMAIN vecs |->
       IF s = 0 THEN <<>>
       ELSE <<CHOOSE i \in 1..s : \E p \in DOMAIN vecs : i \in DOMAIN vecs[p] /\ vecs[p][i] = s>>]

\* assign_paths: the path of a section is its parent's and its own position.
Parent(s) == CHOOSE p \in DOMAIN vecs : Contains(vecs[p], s)
Position(s) == CHOOSE i \in DOMAIN vecs[Parent(s)] : vecs[Parent(s)][i] = s
Paths ==
    LET path[s \in DOMAIN vecs] ==
            IF s = 0 THEN <<>> ELSE Append(path[Parent(s)], Position(s))
    IN path

\* find: the first section, in the order of visit, with the path asked for.
Find(path) ==
    LET paths == Paths
    IN CHOOSE s \in DOMAIN vecs : /\ paths[s] = path
                                  /\ \A t \in DOMAIN vecs : paths[t] = path => s <= t

\* A section comes before those below it, and below its later siblings.
Before(p, q) ==
    \/ IsPrefix(p, q)
    \/ \E i \in DOMAIN p \cap DOMAIN q : p[i] < q[i] /\ \A j \in 1..(i - 1) : p[j] = q[j]

\* visit and flat_titles: the sections depth first.
Visit ==
    LET paths == Paths
        rank(s) == Cardinality({t \in DOMAIN vecs : Before(paths[t], paths[s])})
    IN [k \in 1..Cardinality(DOMAIN vecs) |-> CHOOSE s \in DOMAIN vecs : rank(s) = k]

\* count_leaves_total
LeafCount == Max({1, Cardinality({s \in DOMAIN vecs : vecs[s] = <<>>})})

\* The section a reader would call the parent: the nearest one above with a
\* smaller depth.
Enclosing(s) ==
    LET above == {p \in 1..(s - 1) : prepared[p].depth < prepared[s].depth}
    IN IF above = {} THEN 0 ELSE CHOOSE p \in above : \A q \in above : q <= p

\* Every section placed so far is below the nearest shallower one above it,
\* among its siblings in source order, and the loop ends with all of them
\* placed (doc_tree.rs:182-227).
SectionsNested ==
    /\ \A p \in DOMAIN vecs :
         /\ Range(vecs[p]) = {s \in 1..taken : Enclosing(s) = p}
         /\ \A i, j \in DOMAIN vecs[p] : i < j => vecs[p][i] < vecs[p][j]
    /\ dpc = "built" => taken = Len(prepared)

\* The tree is read as the outline of the text: walking it gives the headings
\* as they are written; a path finds its own section; the leaves are the
\* sections no deeper heading follows (doc_tree.rs:68-113, 251-273).
TreeIsOutline ==
    dpc = "built" =>
      /\ \A s \in DOMAIN vecs : Find(Paths[s]) = s
      /\ Visit = [k \in 1..(Len(prepared) + 1) |-> k - 1]
      /\ LeafCount = Max({1, Cardinality({k \in DOMAIN prepared :
                             k = Len(prepared) \/ prepared[k + 1].depth <= prepared[k].depth})})

\* No pointer on the stack is used after its vector may have moved: the
\* pushes that could move it come only after it was popped, although the
\* comment at doc_tree.rs:209 gives another reason (roots does grow later).
PointersAlive == \A i \in DOMAIN stack : stack[i].seen = moves[stack[i].vec]
=============================================================================
