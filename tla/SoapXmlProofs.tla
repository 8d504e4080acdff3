--------------------------- MODULE SoapXmlProofs ---------------------------
(***************************************************************************)
(* Proofs about SoapXml, for tables with any number of columns and rows,   *)
(* any values and any limit on the depth: what sap.table.read and the BAPI *)
(* tools make of an answer is what SAP sent.                               *)
(*                                                                         *)
(* The invariant (SoapInv) says where the reader may be in the document    *)
(* and what each frame of parse_children then holds, so that what the      *)
(* parser returns in the end is what the document stands for (RootValue).  *)
(* The rest is about what the callers make of that value: which element is *)
(* the payload, which messages a walk through it finds, and where a row is *)
(* split into its columns.                                                 *)
(***************************************************************************)
EXTENDS SoapXml, NaturalsInduction, WellFoundedInduction, SequenceTheorems, FiniteSetTheorems, TLAPS

-----------------------------------------------------------------------------
(* What an element of a document is worth.                                 *)

Only(key, v) == [k \in {key} |-> v]

LeafValue(l) == Str(Trim(l.text))
LeavesMap(item, n) ==
    [k \in {item[i].name : i \in 1..n} |-> LeafValue(item[CHOOSE i \in 1..n : item[i].name = k])]
ItemValue(item) == IF item = <<>> THEN Str(<<>>) ELSE Obj(LeavesMap(item, Len(item)))
ItemsMap(s, n) ==
    IF n = 0 THEN EmptyMap
    ELSE IF n = 1 THEN Only(s.tag, ItemValue(s.items[1]))
    ELSE Only(s.tag, Arr([i \in 1..n |-> ItemValue(s.items[i])]))
SectionValue(s) == IF s.items = <<>> THEN Str(<<>>) ELSE Obj(ItemsMap(s, Len(s.items)))
SectionsMap(d, n) ==
    [k \in {d.sections[i].name : i \in 1..n} |->
        SectionValue(d.sections[CHOOSE i \in 1..n : d.sections[i].name = k])]

\* The k-th of the elements around the sections, at most three.
WrapperValue(d, k) ==
    LET w == d.wrappers
        content == Obj(SectionsMap(d, Len(d.sections)))
    IN  IF k = Len(w) THEN content
        ELSE IF k = Len(w) - 1 THEN Obj(Only(w[Len(w)], content))
        ELSE Obj(Only(w[Len(w) - 1], Obj(Only(w[Len(w)], content))))
RootValue(d) == IF d.wrappers = <<>> THEN SectionValue(d.sections[1]) ELSE WrapperValue(d, 1)

\* The names and the characters of an answer.
Names == {"Envelope", "Header", "Body", "Response", "Fault", "faultstring", "RETURN", "TYPE",
          "MESSAGE", "FIELDS", "DATA", "item", "FIELDNAME", "WA"}
Characters == STRING \cup {Delimiter, "S", "W", "w", "I", "E", "A", "Z", "m", "f"}
Leaves == [name : Names, text : Seq(Characters)]
Sections == [name : Names, tag : Names, items : Seq(Seq(Leaves))]
IsDocument(d) ==
    /\ d.wrappers \in Seq(Names) /\ Len(d.wrappers) <= 3
    /\ d.sections \in Seq(Sections) /\ Len(d.sections) >= 1
    /\ Len(d.wrappers) = 0 => Len(d.sections) = 1
    /\ \A i, j \in 1..Len(d.sections) : d.sections[i].name = d.sections[j].name => i = j
    /\ \A s \in 1..Len(d.sections) : \A m \in 1..Len(d.sections[s].items) :
          LET item == d.sections[s].items[m]
          IN  \A i, j \in 1..Len(item) : item[i].name = item[j].name => i = j
\* A document of one empty element.
Hollow(d) == Len(d.wrappers) = 0 /\ d.sections[1].items = <<>>

-----------------------------------------------------------------------------
(* Where the reader may be, and what the frames then hold.                 *)

Places == [open : Nat, section : Nat, item : Nat, leaf : Nat, said : BOOLEAN]
InSection(d, p) == /\ p.section \in 1..Len(d.sections)
                   /\ d.sections[p.section].items # <<>>
                   /\ p.item <= Len(d.sections[p.section].items)
InItem(d, p) == /\ InSection(d, p) /\ p.item >= 1
                /\ d.sections[p.section].items[p.item] # <<>>
                /\ p.leaf <= Len(d.sections[p.section].items[p.item])
InLeaf(d, p) == /\ InItem(d, p) /\ p.leaf >= 1
                /\ d.sections[p.section].items[p.item][p.leaf].text # <<>>
PlaceAt(d, p) ==
    LET W == Len(d.wrappers) IN
    /\ p \in Places
    /\ p.open <= W + 3 /\ p.section <= Len(d.sections)
    /\ p.open < W /\ p.section # 0 => p.section = Len(d.sections) /\ p.open > 0
    /\ p.open = W /\ W = 0 /\ p.section # 0 => Hollow(d)
    /\ p.open = W + 1 => InSection(d, p)
    /\ p.open = W + 2 => InItem(d, p)
    /\ p.open = W + 3 => InLeaf(d, p)
    /\ p.said => p.open = W + 3

\* Children done: the one that is open does not count yet.
Full(p, n, k) == IF p.open > k THEN n - 1 ELSE n
Filling(n, m, c) == [name |-> n, map |-> m, text |-> <<>>, children |-> c]
FrameAt(d, p, k) ==
    LET W == Len(d.wrappers)
        s == d.sections[p.section]
        item == s.items[p.item]
    IN  IF k < W
        THEN IF k = p.open /\ p.section # 0
             THEN Filling(d.wrappers[k], Only(d.wrappers[k + 1], WrapperValue(d, k + 1)), 1)
             ELSE Frame(d.wrappers[k])
        ELSE IF k = W
        THEN Filling(d.wrappers[k], SectionsMap(d, Full(p, p.section, k)), Full(p, p.section, k))
        ELSE IF k = W + 1
        THEN Filling(s.name, ItemsMap(s, Full(p, p.item, k)), Full(p, p.item, k))
        ELSE IF k = W + 2
        THEN Filling(s.tag, LeavesMap(item, Full(p, p.leaf, k)), Full(p, p.leaf, k))
        ELSE [name |-> item[p.leaf].name, map |-> EmptyMap,
              text |-> IF p.said THEN item[p.leaf].text ELSE <<>>, children |-> 0]
Frames(d, p) == [k \in 1..p.open |-> FrameAt(d, p, k)]

ReadSoFar ==
    \/ parsed = [kind |-> "none"] /\ PlaceAt(Doc, place) /\ stack = Frames(Doc, place)
    \/ parsed = [kind |-> "error"] /\ Hollow(Doc)
    \/ parsed = RootValue(Doc) /\ ~Hollow(Doc)
TooDeep ==
    \/ parsed = [kind |-> "error"]
    \/ /\ parsed = [kind |-> "none"]
       /\ place.section = 0 /\ place.open \in 0..MaxDepth
       /\ Len(stack) = place.open
SoapInv ==
    /\ sent \in SoapAnswers
    /\ cut \in BOOLEAN
    /\ ~cut => IF sent.kind = "deep" THEN TooDeep ELSE ReadSoFar

-----------------------------------------------------------------------------
(* The stack of frames.                                                    *)

LEMMA StackIsSeq ==
    ASSUME NEW d, NEW p, p.open \in Nat
    PROVE  /\ Frames(d, p) \in Seq({FrameAt(d, p, k) : k \in 1..p.open})
           /\ Len(Frames(d, p)) = p.open
           /\ \A k \in 1..p.open : Frames(d, p)[k] = FrameAt(d, p, k)
<1> HIDE DEF FrameAt
<1> QED BY DEF Frames

-----------------------------------------------------------------------------
(* One more child in a map.                                                *)

LEMMA FirstChild ==
    ASSUME NEW key, NEW v
    PROVE  InsertMerge(EmptyMap, key, v) = Only(key, v)
BY DEF InsertMerge, EmptyMap, Only

LEMMA NextLeaf ==
    ASSUME NEW item \in Seq(Leaves), NEW n \in Nat, n < Len(item),
           \A i, j \in 1..Len(item) : item[i].name = item[j].name => i = j
    PROVE  InsertMerge(LeavesMap(item, n), item[n + 1].name, LeafValue(item[n + 1]))
             = LeavesMap(item, n + 1)
<1> DEFINE At(k, m) == CHOOSE i \in 1..m : item[i].name = k
           key == item[n + 1].name
           m1 == LeavesMap(item, n)
           m2 == LeavesMap(item, n + 1)
           D(m) == {item[i].name : i \in 1..m}
<1>1. key \notin D(n) /\ D(n + 1) = D(n) \cup {key}
  OBVIOUS
<1>2. \A k \in D(n) : At(k, n + 1) = At(k, n)
  <2> TAKE k \in D(n)
  <2>1. PICK i \in 1..n : item[i].name = k
    OBVIOUS
  <2>2. \A j \in 1..(n + 1) : item[j].name = k => j = i
    BY <2>1
  <2>3. At(k, n) = i
    BY <2>1, <2>2
  <2>4. At(k, n + 1) = i
    BY <2>1, <2>2
  <2> QED BY <2>3, <2>4
<1>3. At(key, n + 1) = n + 1
  OBVIOUS
<1>4. m1 = [k \in D(n) |-> LeafValue(item[At(k, n)])]
  BY DEF LeavesMap
<1>5. m2 = [k \in D(n + 1) |-> LeafValue(item[At(k, n + 1)])]
  BY DEF LeavesMap
<1> HIDE DEF At, D, m1, m2
<1>6. InsertMerge(m1, key, LeafValue(item[n + 1]))
      = [k \in D(n) \cup {key} |-> IF k # key THEN m1[k] ELSE LeafValue(item[n + 1])]
  BY <1>1, <1>4 DEF InsertMerge
<1>7. \A k \in D(n) \cup {key} :
         (IF k # key THEN m1[k] ELSE LeafValue(item[n + 1])) = LeafValue(item[At(k, n + 1)])
  BY <1>1, <1>2, <1>3, <1>4
<1> QED BY <1>1, <1>5, <1>6, <1>7 DEF m1, m2

LEMMA NextSection ==
    ASSUME NEW d, d.sections \in Seq(Sections), NEW n \in Nat, n < Len(d.sections),
           \A i, j \in 1..Len(d.sections) : d.sections[i].name = d.sections[j].name => i = j
    PROVE  InsertMerge(SectionsMap(d, n), d.sections[n + 1].name, SectionValue(d.sections[n + 1]))
             = SectionsMap(d, n + 1)
<1> DEFINE item == d.sections
           At(k, m) == CHOOSE i \in 1..m : item[i].name = k
           key == item[n + 1].name
           m1 == SectionsMap(d, n)
           m2 == SectionsMap(d, n + 1)
           D(m) == {item[i].name : i \in 1..m}
<1>1. key \notin D(n) /\ D(n + 1) = D(n) \cup {key}
  OBVIOUS
<1>2. \A k \in D(n) : At(k, n + 1) = At(k, n)
  <2> TAKE k \in D(n)
  <2>1. PICK i \in 1..n : item[i].name = k
    OBVIOUS
  <2>2. \A j \in 1..(n + 1) : item[j].name = k => j = i
    BY <2>1
  <2>3. At(k, n) = i
    BY <2>1, <2>2
  <2>4. At(k, n + 1) = i
    BY <2>1, <2>2
  <2> QED BY <2>3, <2>4
<1>3. At(key, n + 1) = n + 1
  OBVIOUS
<1>4. m1 = [k \in D(n) |-> SectionValue(item[At(k, n)])]
  BY DEF SectionsMap
<1>5. m2 = [k \in D(n + 1) |-> SectionValue(item[At(k, n + 1)])]
  BY DEF SectionsMap
<1> HIDE DEF At, D, m1, m2
<1>6. InsertMerge(m1, key, SectionValue(item[n + 1]))
      = [k \in D(n) \cup {key} |-> IF k # key THEN m1[k] ELSE SectionValue(item[n + 1])]
  BY <1>1, <1>4 DEF InsertMerge
<1>7. \A k \in D(n) \cup {key} :
         (IF k # key THEN m1[k] ELSE SectionValue(item[n + 1])) = SectionValue(item[At(k, n + 1)])
  BY <1>1, <1>2, <1>3, <1>4
<1> QED BY <1>1, <1>5, <1>6, <1>7 DEF m1, m2

\* An item is a text or an object, never an array: the second makes one.
LEMMA NextItem ==
    ASSUME NEW s \in Sections, NEW n \in Nat, n < Len(s.items)
    PROVE  InsertMerge(ItemsMap(s, n), s.tag, ItemValue(s.items[n + 1])) = ItemsMap(s, n + 1)
<1> DEFINE V(i) == ItemValue(s.items[i])
           key == s.tag
<1>1. \A i : V(i).kind # "arr"
  BY DEF ItemValue, Str, Obj
<1>2. CASE n = 0
  BY <1>2, FirstChild DEF ItemsMap
<1>3. CASE n = 1
  <2>1. ItemsMap(s, 1) = Only(key, V(1)) /\ ItemsMap(s, 2) = Only(key, Arr([i \in 1..2 |-> V(i)]))
    BY DEF ItemsMap
  <2> HIDE DEF V
  <2>2. InsertMerge(Only(key, V(1)), key, V(2)) = Only(key, Arr(<<V(1), V(2)>>))
    BY <1>1 DEF InsertMerge, Only
  <2>3. <<V(1), V(2)>> = [i \in 1..2 |-> V(i)]
    OBVIOUS
  <2> QED BY <2>1, <2>2, <2>3, <1>3 DEF V
<1>4. CASE n > 1
  <2> DEFINE q == [i \in 1..n |-> V(i)]
  <2>1. ItemsMap(s, n) = Only(key, Arr(q)) /\ ItemsMap(s, n + 1) = Only(key, Arr([i \in 1..(n + 1) |-> V(i)]))
    BY <1>4 DEF ItemsMap
  <2> HIDE DEF V
  <2>2. Append(q, V(n + 1)) = [i \in 1..(n + 1) |-> V(i)]
    <3> DEFINE S == {V(i) : i \in 1..(n + 1)}
    <3>1. q \in Seq(S) /\ Len(q) = n /\ V(n + 1) \in S
      OBVIOUS
    <3>2. \A i \in 1..n : q[i] = V(i)
      OBVIOUS
    <3> HIDE DEF q, S
    <3>3. Append(q, V(n + 1)) \in Seq(S) /\ Len(Append(q, V(n + 1))) = n + 1
      BY <3>1
    <3>4. \A i \in 1..(n + 1) : Append(q, V(n + 1))[i] = V(i)
      BY <3>1, <3>2
    <3> QED BY <3>3, <3>4
  <2> HIDE DEF q
  <2>3. Arr(q).kind = "arr" /\ Arr(q).items = q
    BY DEF Arr
  <2>4. InsertMerge(Only(key, Arr(q)), key, V(n + 1)) = Only(key, Arr(Append(q, V(n + 1))))
    <3> HIDE DEF key
    <3>1. DOMAIN Only(key, Arr(q)) = {key} /\ Only(key, Arr(q))[key] = Arr(q)
      BY DEF Only
    <3> QED BY <3>1, <2>3 DEF InsertMerge, Only
  <2> QED BY <2>1, <2>2, <2>4 DEF V
<1> QED BY <1>2, <1>3, <1>4

LEMMA NoChildren ==
    /\ \A d : SectionsMap(d, 0) = EmptyMap
    /\ \A s : ItemsMap(s, 0) = EmptyMap
    /\ \A item : LeavesMap(item, 0) = EmptyMap
<1>1. ASSUME NEW d PROVE SectionsMap(d, 0) = EmptyMap
  <2>1. {d.sections[i].name : i \in 1..0} = {}
    OBVIOUS
  <2> QED BY <2>1 DEF SectionsMap, EmptyMap
<1>2. ASSUME NEW item PROVE LeavesMap(item, 0) = EmptyMap
  <2>1. {item[i].name : i \in 1..0} = {}
    OBVIOUS
  <2> QED BY <2>1 DEF LeavesMap, EmptyMap
<1> QED BY <1>1, <1>2 DEF ItemsMap

-----------------------------------------------------------------------------
(* What a step does to place and frames, level by level.                   *)

\* What is around the sections: the types a proof needs.
LEMMA DocumentTypes ==
    ASSUME NEW d, IsDocument(d), NEW p, PlaceAt(d, p)
    PROVE  /\ Len(d.wrappers) \in Nat /\ Len(d.wrappers) <= 3 /\ Len(d.sections) \in Nat /\ Len(d.sections) >= 1
           /\ p.open \in Nat /\ p.section \in Nat /\ p.item \in Nat /\ p.leaf \in Nat
           /\ p.said \in BOOLEAN
           /\ \A i \in 1..Len(d.sections) : d.sections[i] \in Sections
           /\ \A i \in 1..Len(d.sections) :
                 /\ d.sections[i].items \in Seq(Seq(Leaves))
                 /\ Len(d.sections[i].items) \in Nat
                 /\ \A m \in 1..Len(d.sections[i].items) :
                       /\ d.sections[i].items[m] \in Seq(Leaves)
                       /\ Len(d.sections[i].items[m]) \in Nat
<1>1. d.wrappers \in Seq(Names) /\ Len(d.wrappers) <= 3 /\ d.sections \in Seq(Sections) /\ Len(d.sections) >= 1
  BY DEF IsDocument
<1>2. p \in Places
  BY DEF PlaceAt
<1>3. p.open \in Nat /\ p.section \in Nat /\ p.item \in Nat /\ p.leaf \in Nat /\ p.said \in BOOLEAN
  BY <1>2 DEF Places
<1>4. \A i \in 1..Len(d.sections) : d.sections[i] \in Sections
  BY <1>1
<1>5. ASSUME NEW i \in 1..Len(d.sections)
      PROVE  d.sections[i].items \in Seq(Seq(Leaves))
  BY <1>4 DEF Sections
<1>6. ASSUME NEW i \in 1..Len(d.sections), NEW m \in 1..Len(d.sections[i].items)
      PROVE  d.sections[i].items[m] \in Seq(Leaves) /\ Len(d.sections[i].items[m]) \in Nat
  <2>1. d.sections[i].items[m] \in Seq(Leaves)
    BY <1>5
  <2> QED BY <2>1
<1>7. ASSUME NEW i \in 1..Len(d.sections) PROVE Len(d.sections[i].items) \in Nat
  BY <1>5
<1>8. Len(d.wrappers) \in Nat /\ Len(d.wrappers) <= 3 /\ Len(d.sections) \in Nat /\ Len(d.sections) >= 1
  BY <1>1
<1> QED BY <1>8, <1>3, <1>4, <1>5, <1>6, <1>7

\* The frame at each level.
LEMMA LeafFrame ==
    ASSUME NEW d, NEW p, NEW k, Len(d.wrappers) \in Nat, k = Len(d.wrappers) + 3
    PROVE  FrameAt(d, p, k) =
             [name |-> d.sections[p.section].items[p.item][p.leaf].name, map |-> EmptyMap,
              text |-> IF p.said THEN d.sections[p.section].items[p.item][p.leaf].text ELSE <<>>,
              children |-> 0]
<1>1. ~(k < Len(d.wrappers)) /\ k # Len(d.wrappers) /\ k # Len(d.wrappers) + 1 /\ k # Len(d.wrappers) + 2
  OBVIOUS
<1> QED BY <1>1, Zenon DEF FrameAt

LEMMA ItemFrame ==
    ASSUME NEW d, NEW p, NEW k, Len(d.wrappers) \in Nat, k = Len(d.wrappers) + 2
    PROVE  FrameAt(d, p, k) =
             Filling(d.sections[p.section].tag,
                     LeavesMap(d.sections[p.section].items[p.item], Full(p, p.leaf, k)),
                     Full(p, p.leaf, k))
<1>1. ~(k < Len(d.wrappers)) /\ k # Len(d.wrappers) /\ k # Len(d.wrappers) + 1
  OBVIOUS
<1> QED BY <1>1, Zenon DEF FrameAt

LEMMA SectionFrame ==
    ASSUME NEW d, NEW p, NEW k, Len(d.wrappers) \in Nat, k = Len(d.wrappers) + 1
    PROVE  FrameAt(d, p, k) =
             Filling(d.sections[p.section].name,
                     ItemsMap(d.sections[p.section], Full(p, p.item, k)),
                     Full(p, p.item, k))
<1>1. ~(k < Len(d.wrappers)) /\ k # Len(d.wrappers)
  OBVIOUS
<1> QED BY <1>1, Zenon DEF FrameAt

LEMMA ContainerFrame ==
    ASSUME NEW d, NEW p, NEW k, Len(d.wrappers) \in Nat, k = Len(d.wrappers)
    PROVE  FrameAt(d, p, k) =
             Filling(d.wrappers[k], SectionsMap(d, Full(p, p.section, k)),
                     Full(p, p.section, k))
<1>1. ~(k < Len(d.wrappers))
  OBVIOUS
<1> QED BY <1>1, Zenon DEF FrameAt

\* The frames around a section that is open do not change.
LEMMA WrapperFrame ==
    ASSUME NEW d, NEW p, NEW k \in Nat, Len(d.wrappers) \in Nat, k < Len(d.wrappers)
    PROVE  FrameAt(d, p, k) =
             IF k = p.open /\ p.section # 0
             THEN Filling(d.wrappers[k], Only(d.wrappers[k + 1], WrapperValue(d, k + 1)), 1)
             ELSE Frame(d.wrappers[k])
BY DEF FrameAt

Agree(d, p, q, k) ==
    LET W == Len(d.wrappers) IN
    /\ k < W => ~(k = p.open /\ p.section # 0) /\ ~(k = q.open /\ q.section # 0)
    /\ k = W => Full(p, p.section, k) = Full(q, q.section, k)
    /\ k = W + 1 => q.section = p.section /\ Full(p, p.item, k) = Full(q, q.item, k)
    /\ k = W + 2 => q.section = p.section /\ q.item = p.item /\ Full(p, p.leaf, k) = Full(q, q.leaf, k)
    /\ k <= W + 2

LEMMA SameFrame ==
    ASSUME NEW d, NEW p, NEW q, NEW k \in Nat, Len(d.wrappers) \in Nat, Agree(d, p, q, k)
    PROVE  FrameAt(d, q, k) = FrameAt(d, p, k)
<1>w. PICK W \in Nat : W = Len(d.wrappers)
  OBVIOUS
<1>1. CASE k < W
  BY <1>w, <1>1, WrapperFrame DEF Agree
<1>2. CASE k = W
  BY <1>w, <1>2, ContainerFrame DEF Agree
<1>3. CASE k = W + 1
  <2>0. k = Len(d.wrappers) + 1
    BY <1>w, <1>3
  <2>1. q.section = p.section /\ Full(p, p.item, k) = Full(q, q.item, k)
    BY <2>0, Zenon DEF Agree
  <2>2. FrameAt(d, p, k) = Filling(d.sections[p.section].name,
                                   ItemsMap(d.sections[p.section], Full(p, p.item, k)), Full(p, p.item, k))
    BY <2>0, SectionFrame, Zenon
  <2>3. FrameAt(d, q, k) = Filling(d.sections[q.section].name,
                                   ItemsMap(d.sections[q.section], Full(q, q.item, k)), Full(q, q.item, k))
    BY <2>0, SectionFrame, Zenon
  <2> QED BY <2>1, <2>2, <2>3, Zenon
<1>4. CASE k = W + 2
  <2>0. k = Len(d.wrappers) + 2
    BY <1>w, <1>4
  <2>1. q.section = p.section /\ q.item = p.item /\ Full(p, p.leaf, k) = Full(q, q.leaf, k)
    BY <2>0, Zenon DEF Agree
  <2>2. FrameAt(d, p, k) = Filling(d.sections[p.section].tag,
                                   LeavesMap(d.sections[p.section].items[p.item], Full(p, p.leaf, k)),
                                   Full(p, p.leaf, k))
    BY <2>0, ItemFrame, Zenon
  <2>3. FrameAt(d, q, k) = Filling(d.sections[q.section].tag,
                                   LeavesMap(d.sections[q.section].items[q.item], Full(q, q.leaf, k)),
                                   Full(q, q.leaf, k))
    BY <2>0, ItemFrame, Zenon
  <2> QED BY <2>1, <2>2, <2>3, Zenon
<1>5. k <= W + 2
  BY <1>w DEF Agree
<1> QED BY <1>1, <1>2, <1>3, <1>4, <1>5

LEMMA Pushed ==
    ASSUME NEW d, NEW p, NEW q, NEW e, p.open \in Nat, q.open = p.open + 1,
           Len(d.wrappers) \in Nat, \A k \in 1..p.open : Agree(d, p, q, k),
           FrameAt(d, q, q.open) = e
    PROVE  Append(Frames(d, p), e) = Frames(d, q)
<1>0. \A k \in 1..p.open : FrameAt(d, q, k) = FrameAt(d, p, k)
  BY SameFrame
<1> DEFINE n == p.open
           s == Frames(d, p)
           S == {FrameAt(d, p, k) : k \in 1..n} \cup {e}
<1>1. s \in Seq(S) /\ Len(s) = n /\ \A k \in 1..n : s[k] = FrameAt(d, p, k)
  <2> HIDE DEF FrameAt
  <2> QED BY DEF Frames
<1>2. e \in S
  OBVIOUS
<1> HIDE DEF s, S
<1> DEFINE t == Append(s, e)
<1>3. t \in Seq(S) /\ Len(t) = n + 1 /\ \A k \in 1..(n + 1) : t[k] = IF k = n + 1 THEN e ELSE s[k]
  BY <1>1, <1>2
<1> HIDE DEF t
<1>4. t = [k \in 1..(n + 1) |-> t[k]]
  BY <1>3
<1> HIDE DEF FrameAt
<1>5. \A k \in 1..(n + 1) : t[k] = FrameAt(d, q, k)
  <2> TAKE k \in 1..(n + 1)
  <2>1. CASE k = n + 1
    BY <2>1, <1>3
  <2>2. CASE k # n + 1
    <3>1. k \in 1..n
      BY <2>2
    <3> QED BY <3>1, <2>2, <1>3, <1>1, <1>0
  <2> QED BY <2>1, <2>2
<1>6. [k \in 1..(n + 1) |-> t[k]] = [k \in 1..(n + 1) |-> FrameAt(d, q, k)]
  BY <1>5
<1> QED BY <1>4, <1>6 DEF Frames, s, t

LEMMA TopChanged ==
    ASSUME NEW d, NEW p, NEW q, p.open \in Nat, p.open > 0, q.open = p.open,
           Len(d.wrappers) \in Nat, \A k \in 1..(p.open - 1) : Agree(d, p, q, k)
    PROVE  [Frames(d, p) EXCEPT ![p.open] = FrameAt(d, q, q.open)] = Frames(d, q)
<1>0. \A k \in 1..(p.open - 1) : FrameAt(d, q, k) = FrameAt(d, p, k)
  BY SameFrame
<1> HIDE DEF FrameAt
<1>1. \A k \in 1..p.open : FrameAt(d, q, k) = IF k = p.open THEN FrameAt(d, q, q.open) ELSE FrameAt(d, p, k)
  BY <1>0
<1> QED BY <1>1 DEF Frames

LEMMA Popped ==
    ASSUME NEW d, NEW p, NEW q, p.open \in Nat, p.open > 1, q.open = p.open - 1,
           Len(d.wrappers) \in Nat, \A k \in 1..(q.open - 1) : Agree(d, p, q, k)
    PROVE  [SubSeq(Frames(d, p), 1, p.open - 1) EXCEPT ![p.open - 1] = FrameAt(d, q, q.open)] = Frames(d, q)
<1>e. PICK e : e = FrameAt(d, q, q.open)
  OBVIOUS
<1> DEFINE n == p.open
           s == Frames(d, p)
           S == {FrameAt(d, p, k) : k \in 1..n}
           t == SubSeq(s, 1, n - 1)
<1>0. \A k \in 1..(q.open - 1) : FrameAt(d, q, k) = FrameAt(d, p, k)
  BY SameFrame
<1>1. s \in Seq(S) /\ Len(s) = n /\ \A k \in 1..n : s[k] = FrameAt(d, p, k)
  BY StackIsSeq
<1> HIDE DEF s, S
<1>2. t \in Seq(S) /\ Len(t) = n - 1 /\ \A k \in 1..(n - 1) : t[k] = s[k]
  BY <1>1
<1>3. t = [k \in 1..(n - 1) |-> s[k]]
  BY <1>2
<1> HIDE DEF t, FrameAt
<1>4. [t EXCEPT ![n - 1] = e] = [k \in 1..(n - 1) |-> IF k = n - 1 THEN e ELSE s[k]]
  BY <1>3
<1>5. \A k \in 1..(n - 1) : (IF k = n - 1 THEN e ELSE s[k]) = FrameAt(d, q, k)
  BY <1>0, <1>1, <1>e
<1>6. [t EXCEPT ![n - 1] = e] = [k \in 1..(n - 1) |-> FrameAt(d, q, k)]
  BY <1>4, <1>5
<1> QED BY <1>6, <1>e DEF Frames, t, s

-----------------------------------------------------------------------------------------------------------------------------------------------------
(* Opening an element.                                                     *)

LEMMA Descend ==
    ASSUME NEW d, IsDocument(d), NEW p, PlaceAt(d, p), p.open < Len(d.wrappers), p.section = 0,
           NEW q \in Places, q.open = p.open + 1, q.section = 0, ~q.said
    PROVE  /\ PlaceAt(d, q)
           /\ Append(Frames(d, p), Frame(d.wrappers[p.open + 1])) = Frames(d, q)
<1>w. PICK W : W = Len(d.wrappers)
  OBVIOUS
<1>1. W \in Nat /\ p.open \in Nat /\ Len(d.sections) \in Nat
  BY <1>w, DocumentTypes
<1>3. PlaceAt(d, q)
  BY <1>w, <1>1 DEF PlaceAt
<1>4. \A k \in 1..p.open : Agree(d, p, q, k)
  BY <1>w, <1>1 DEF Agree
<1>5. FrameAt(d, q, q.open) = Frame(d.wrappers[p.open + 1])
  <2>1. CASE q.open < W
    BY <1>w, <1>1, <2>1, WrapperFrame
  <2>2. CASE q.open = W
    <3>1. Full(q, q.section, q.open) = 0
      BY <1>1 DEF Full
    <3> QED BY <1>w, <1>1, <2>2, <3>1, ContainerFrame, NoChildren DEF Filling, Frame
  <2> QED BY <2>1, <2>2, <1>w, <1>1
<1> QED BY <1>w, <1>1, <1>3, <1>4, <1>5, Pushed

LEMMA OpenSection ==
    ASSUME NEW d, IsDocument(d), NEW p, PlaceAt(d, p), p.open = Len(d.wrappers),
           p.section < Len(d.sections), d.sections[p.section + 1].items # <<>>,
           NEW q \in Places, q.open = p.open + 1, q.section = p.section + 1, q.item = 0, ~q.said
    PROVE  /\ PlaceAt(d, q)
           /\ Append(Frames(d, p), Frame(d.sections[p.section + 1].name)) = Frames(d, q)
<1>w. PICK W : W = Len(d.wrappers)
  OBVIOUS
<1>0. W \in Nat /\ p.open \in Nat /\ p.section \in Nat /\ Len(d.sections) \in Nat
  BY <1>w, DocumentTypes
<1>1. p.section + 1 \in 1..Len(d.sections) /\ Len(d.sections[p.section + 1].items) \in Nat
  <2>1. p.section + 1 \in 1..Len(d.sections)
    BY <1>0
  <2> QED BY <2>1, DocumentTypes
<1>2. p.open = W /\ q.open = W + 1
  BY <1>w, <1>0
<1>3. PlaceAt(d, q)
  <2>1. InSection(d, q)
    BY <1>1 DEF InSection
  <2> QED BY <1>w, <1>0, <1>1, <1>2, <2>1 DEF PlaceAt
<1>4. \A k \in 1..p.open : Agree(d, p, q, k)
  BY <1>w, <1>0, <1>2 DEF Agree, Full
<1>5. FrameAt(d, q, q.open) = Frame(d.sections[p.section + 1].name)
  <2>1. Full(q, q.item, q.open) = 0
    BY <1>0, <1>2 DEF Full
  <2> QED BY <1>w, <1>0, <1>2, <2>1, SectionFrame, NoChildren DEF Filling, Frame
<1> QED BY <1>w, <1>0, <1>3, <1>4, <1>5, Pushed

\* Inside a section.
LEMMA SectionTypes ==
    ASSUME NEW d, IsDocument(d), NEW p, PlaceAt(d, p), InSection(d, p)
    PROVE  /\ Len(d.wrappers) \in Nat /\ p.open \in Nat /\ p.section \in Nat /\ p.item \in Nat
           /\ p.leaf \in Nat /\ p.said \in BOOLEAN /\ Len(d.sections) \in Nat
           /\ p.section \in 1..Len(d.sections) /\ d.sections[p.section] \in Sections
           /\ d.sections[p.section].items \in Seq(Seq(Leaves))
           /\ Len(d.sections[p.section].items) \in Nat
           /\ p.item <= Len(d.sections[p.section].items)
           /\ \A m \in 1..Len(d.sections[p.section].items) :
                 /\ d.sections[p.section].items[m] \in Seq(Leaves)
                 /\ Len(d.sections[p.section].items[m]) \in Nat
BY DocumentTypes DEF InSection

LEMMA OpenItem ==
    ASSUME NEW d, IsDocument(d), NEW p, PlaceAt(d, p), p.open = Len(d.wrappers) + 1,
           p.item < Len(d.sections[p.section].items), d.sections[p.section].items[p.item + 1] # <<>>,
           NEW q \in Places, q.open = p.open + 1, q.section = p.section, q.item = p.item + 1,
           q.leaf = 0, ~q.said
    PROVE  /\ PlaceAt(d, q)
           /\ Append(Frames(d, p), Frame(d.sections[p.section].tag)) = Frames(d, q)
<1>w. PICK W : W = Len(d.wrappers)
  OBVIOUS
<1>i. InSection(d, p)
  BY DEF PlaceAt
<1>0. /\ W \in Nat /\ p.open \in Nat /\ p.section \in Nat /\ p.item \in Nat /\ Len(d.sections) \in Nat
      /\ Len(d.sections[p.section].items) \in Nat /\ p.section \in 1..Len(d.sections)
  BY <1>w, <1>i, SectionTypes
<1>1. Len(d.sections[p.section].items[p.item + 1]) \in Nat
  <2>1. p.item + 1 \in 1..Len(d.sections[p.section].items)
    BY <1>0
  <2> QED BY <1>i, <2>1, SectionTypes
<1>2. p.open = W + 1 /\ q.open = W + 2
  BY <1>w, <1>0
<1>3. PlaceAt(d, q)
  <2>1. InSection(d, q)
    BY <1>0, <1>i DEF InSection
  <2>2. InItem(d, q)
    BY <2>1, <1>0, <1>1 DEF InItem
  <2> QED BY <1>w, <1>0, <1>2, <2>2 DEF PlaceAt
<1>4. \A k \in 1..p.open : Agree(d, p, q, k)
  BY <1>w, <1>0, <1>2, SMTT(30) DEF Agree, Full
<1>5. FrameAt(d, q, q.open) = Frame(d.sections[p.section].tag)
  <2>1. Full(q, q.leaf, q.open) = 0
    BY <1>0, <1>2 DEF Full
  <2>2. FrameAt(d, q, q.open) =
          Filling(d.sections[p.section].tag, LeavesMap(d.sections[q.section].items[q.item], 0), 0)
    BY <1>w, <1>0, <1>2, <2>1, ItemFrame, SMTT(30)
  <2> QED BY <2>2, NoChildren DEF Filling, Frame
<1> QED BY <1>w, <1>0, <1>3, <1>4, <1>5, Pushed

LEMMA ItemTypes ==
    ASSUME NEW d, IsDocument(d), NEW p, PlaceAt(d, p), InItem(d, p)
    PROVE  /\ InSection(d, p) /\ p.item \in 1..Len(d.sections[p.section].items)
           /\ d.sections[p.section].items[p.item] \in Seq(Leaves)
           /\ Len(d.sections[p.section].items[p.item]) \in Nat
           /\ p.leaf <= Len(d.sections[p.section].items[p.item])
<1>1. InSection(d, p) /\ p.item >= 1 /\ p.leaf <= Len(d.sections[p.section].items[p.item])
  BY DEF InItem
<1>2. p.item \in 1..Len(d.sections[p.section].items)
  BY <1>1, SectionTypes
<1> QED BY <1>1, <1>2, SectionTypes

LEMMA OpenLeaf ==
    ASSUME NEW d, IsDocument(d), NEW p, PlaceAt(d, p), p.open = Len(d.wrappers) + 2,
           p.leaf < Len(d.sections[p.section].items[p.item]),
           d.sections[p.section].items[p.item][p.leaf + 1].text # <<>>,
           NEW q \in Places, q.open = p.open + 1, q.section = p.section, q.item = p.item,
           q.leaf = p.leaf + 1, ~q.said
    PROVE  /\ PlaceAt(d, q)
           /\ Append(Frames(d, p), Frame(d.sections[p.section].items[p.item][p.leaf + 1].name))
                = Frames(d, q)
<1>w. PICK W : W = Len(d.wrappers)
  OBVIOUS
<1>i. InItem(d, p) /\ InSection(d, p)
  BY DEF PlaceAt, InItem
<1>0. /\ W \in Nat /\ p.open \in Nat /\ p.section \in Nat /\ p.item \in Nat /\ Len(d.sections) \in Nat
      /\ p.leaf \in Nat /\ Len(d.sections[p.section].items) \in Nat /\ p.section \in 1..Len(d.sections)
  BY <1>w, <1>i, SectionTypes
<1>1. Len(d.sections[p.section].items[p.item]) \in Nat
  BY <1>i, ItemTypes
<1>2. p.open = W + 2 /\ q.open = W + 3
  BY <1>w, <1>0
<1>3. PlaceAt(d, q)
  <2>1. InSection(d, q)
    BY <1>0, <1>i DEF InSection
  <2>2. d.sections[q.section].items[q.item] = d.sections[p.section].items[p.item]
    OBVIOUS
  <2>3. InItem(d, q)
    <3>1. p.item >= 1 /\ d.sections[p.section].items[p.item] # <<>>
      BY <1>i DEF InItem
    <3>2. q.leaf <= Len(d.sections[q.section].items[q.item])
      <4>1. PICK n : n = Len(d.sections[p.section].items[p.item])
        OBVIOUS
      <4>2. n \in Nat /\ p.leaf < n /\ p.leaf \in Nat /\ q.leaf = p.leaf + 1
        BY <4>1, <1>0, <1>1
      <4>3. q.leaf <= n
        BY ONLY <4>2
      <4> QED BY <4>1, <4>3, <2>2
    <3> QED BY <2>1, <3>1, <3>2 DEF InItem
  <2>4. InLeaf(d, q)
    <3>1. q.leaf >= 1
      BY <1>0
    <3>2. d.sections[q.section].items[q.item][q.leaf].text # <<>>
      BY <2>2, Zenon
    <3> QED BY <2>3, <3>1, <3>2, Zenon DEF InLeaf
  <2> QED BY <1>w, <1>0, <1>2, <2>4 DEF PlaceAt
<1>4. \A k \in 1..p.open : Agree(d, p, q, k)
  BY <1>w, <1>0, <1>2, SMTT(30) DEF Agree, Full
<1>5. FrameAt(d, q, q.open) = Frame(d.sections[p.section].items[p.item][p.leaf + 1].name)
  BY <1>w, <1>0, <1>2, LeafFrame DEF Frame
<1> QED BY <1>w, <1>0, <1>3, <1>4, <1>5, Pushed
-----------------------------------------------------------------------------
(* An element without content, and a text.                                 *)

LEMMA ChildOf ==
    ASSUME NEW n, NEW m, NEW c \in Nat, NEW key, NEW v
    PROVE  Child(Filling(n, m, c), key, v) = Filling(n, InsertMerge(m, key, v), c + 1)
<1> DEFINE f == Filling(n, m, c)
           x == InsertMerge(m, key, v)
<1>1. f = [name |-> n, map |-> m, text |-> <<>>, children |-> c]
  BY DEF Filling
<1>2. f.map = m /\ f.children = c
  BY <1>1
<1> HIDE DEF f
<1>3. Child(f, key, v) = [f EXCEPT !.map = x, !.children = c + 1]
  BY <1>2, Zenon DEF Child
<1> HIDE DEF x
<1>4. [f EXCEPT !.map = x, !.children = c + 1] = [name |-> n, map |-> x, text |-> <<>>, children |-> c + 1]
  <2>1. PICK y : y = c + 1
    OBVIOUS
  <2>2. [f EXCEPT !.map = x, !.children = y] = [[f EXCEPT !.map = x] EXCEPT !.children = y]
    OBVIOUS
  <2>3. [f EXCEPT !.map = x] = [name |-> n, map |-> x, text |-> <<>>, children |-> c]
    BY <1>1
  <2>4. [[name |-> n, map |-> x, text |-> <<>>, children |-> c] EXCEPT !.children = y]
        = [name |-> n, map |-> x, text |-> <<>>, children |-> y]
    OBVIOUS
  <2> QED BY <2>1, <2>2, <2>3, <2>4, Zenon
<1> QED BY <1>3, <1>4, Zenon DEF Filling, f, x

LEMMA TrimEmpty == Trim(<<>>) = <<>>
<1>1. NonBlank(<<>>) = {}
  BY DEF NonBlank
<1> QED BY <1>1 DEF Trim

\* The innermost frame takes an empty element.
ReadEmpty(d, p, key) ==
    [Frames(d, p) EXCEPT ![p.open] = Child(FrameAt(d, p, p.open), key, Str(<<>>))]

LEMMA EmptySection ==
    ASSUME NEW d, IsDocument(d), NEW p, PlaceAt(d, p), p.open = Len(d.wrappers),
           p.section < Len(d.sections), d.sections[p.section + 1].items = <<>>,
           NEW q \in Places, q.open = p.open, q.section = p.section + 1, ~q.said
    PROVE  /\ PlaceAt(d, q)
           /\ p.open # 0 => ReadEmpty(d, p, d.sections[p.section + 1].name) = Frames(d, q)
<1>w. PICK W : W = Len(d.wrappers)
  OBVIOUS
<1>0. /\ W \in Nat /\ p.open \in Nat /\ p.section \in Nat /\ Len(d.sections) \in Nat
      /\ d.sections \in Seq(Sections) /\ p.open = W /\ q.open = W
  BY <1>w, DocumentTypes DEF IsDocument
<1>3. PlaceAt(d, q)
  <2>1. W = 0 => Hollow(d)
    <3>1. W = 0 => Len(d.sections) = 1
      BY <1>w DEF IsDocument
    <3>2. W = 0 => p.section = 0
      BY <3>1, <1>0
    <3>3. p.section = 0 => d.sections[1].items = <<>>
      OBVIOUS
    <3> QED BY <3>2, <3>3, <1>w DEF Hollow
  <2> QED BY <1>w, <1>0, <2>1, SMTT(30) DEF PlaceAt
<1>4. \A k \in 1..(p.open - 1) : Agree(d, p, q, k)
  BY <1>w, <1>0 DEF Agree
<1>5. FrameAt(d, p, p.open) = Filling(d.wrappers[W], SectionsMap(d, p.section), p.section)
  <2>1. Full(p, p.section, p.open) = p.section
    BY <1>0 DEF Full
  <2> QED BY <1>w, <1>0, <2>1, ContainerFrame
<1>6. FrameAt(d, q, q.open) = Filling(d.wrappers[W], SectionsMap(d, p.section + 1), p.section + 1)
  <2>1. Full(q, q.section, q.open) = p.section + 1
    BY <1>0 DEF Full
  <2> QED BY <1>w, <1>0, <2>1, ContainerFrame
<1>7. InsertMerge(SectionsMap(d, p.section), d.sections[p.section + 1].name, Str(<<>>))
        = SectionsMap(d, p.section + 1)
  <2>1. SectionValue(d.sections[p.section + 1]) = Str(<<>>)
    BY DEF SectionValue
  <2>2. \A i, j \in 1..Len(d.sections) : d.sections[i].name = d.sections[j].name => i = j
    BY DEF IsDocument
  <2> QED BY <1>0, <2>1, <2>2, NextSection
<1>8. FrameAt(d, q, q.open)
        = Child(FrameAt(d, p, p.open), d.sections[p.section + 1].name, Str(<<>>))
  BY <1>0, <1>5, <1>6, <1>7, ChildOf
<1>9. p.open # 0 => p.open > 0
  BY <1>0
<1>10. ASSUME p.open # 0
       PROVE  [Frames(d, p) EXCEPT ![p.open] = FrameAt(d, q, q.open)] = Frames(d, q)
  <2>1. Len(d.wrappers) \in Nat /\ p.open > 0
    BY <1>w, <1>0, <1>9, <1>10
  <2> QED BY <1>0, <1>4, <2>1, TopChanged
<1> QED BY <1>3, <1>8, <1>10 DEF ReadEmpty

LEMMA EmptyItem ==
    ASSUME NEW d, IsDocument(d), NEW p, PlaceAt(d, p), p.open = Len(d.wrappers) + 1,
           p.item < Len(d.sections[p.section].items), d.sections[p.section].items[p.item + 1] = <<>>,
           NEW q \in Places, q.open = p.open, q.section = p.section, q.item = p.item + 1, ~q.said
    PROVE  /\ PlaceAt(d, q)
           /\ ReadEmpty(d, p, d.sections[p.section].tag) = Frames(d, q)
<1>w. PICK W : W = Len(d.wrappers)
  OBVIOUS
<1>i. InSection(d, p)
  BY DEF PlaceAt
<1>0. /\ W \in Nat /\ p.open \in Nat /\ p.section \in Nat /\ p.item \in Nat /\ Len(d.sections) \in Nat
      /\ Len(d.sections[p.section].items) \in Nat /\ p.section \in 1..Len(d.sections)
      /\ d.sections[p.section] \in Sections
  BY <1>w, <1>i, SectionTypes
<1>2. p.open = W + 1 /\ q.open = W + 1
  BY <1>w
<1>3. PlaceAt(d, q)
  <2>1. InSection(d, q)
    BY <1>0, <1>i DEF InSection
  <2> QED BY <1>w, <1>0, <1>2, <2>1 DEF PlaceAt
<1>4. \A k \in 1..(p.open - 1) : Agree(d, p, q, k)
  BY <1>w, <1>0, <1>2 DEF Agree, Full
<1> DEFINE s == d.sections[p.section]
<1>5. FrameAt(d, p, p.open) = Filling(s.name, ItemsMap(s, p.item), p.item)
  <2>1. Full(p, p.item, p.open) = p.item
    BY <1>0, <1>2 DEF Full
  <2> QED BY <1>w, <1>0, <1>2, <2>1, SectionFrame
<1>6. FrameAt(d, q, q.open) = Filling(s.name, ItemsMap(s, p.item + 1), p.item + 1)
  <2>1. Full(q, q.item, q.open) = p.item + 1
    BY <1>0, <1>2 DEF Full
  <2> QED BY <1>w, <1>0, <1>2, <2>1, SectionFrame, SMTT(30)
<1>7. InsertMerge(ItemsMap(s, p.item), s.tag, Str(<<>>)) = ItemsMap(s, p.item + 1)
  <2>1. ItemValue(s.items[p.item + 1]) = Str(<<>>)
    BY DEF ItemValue
  <2> QED BY <1>0, <2>1, NextItem
<1>8. FrameAt(d, q, q.open) = Child(FrameAt(d, p, p.open), s.tag, Str(<<>>))
  BY <1>0, <1>5, <1>6, <1>7, ChildOf
<1>9. p.open > 0
  BY <1>0, <1>2
<1>10. [Frames(d, p) EXCEPT ![p.open] = FrameAt(d, q, q.open)] = Frames(d, q)
  BY <1>w, <1>0, <1>4, <1>9, TopChanged
<1> QED BY <1>3, <1>8, <1>10 DEF ReadEmpty

\* The leaves of an item have different names.
LEMMA LeavesDiffer ==
    ASSUME NEW d, IsDocument(d), NEW s \in 1..Len(d.sections), NEW m \in 1..Len(d.sections[s].items)
    PROVE  \A i, j \in 1..Len(d.sections[s].items[m]) :
              d.sections[s].items[m][i].name = d.sections[s].items[m][j].name => i = j
BY Zenon DEF IsDocument

LEMMA EmptyLeaf ==
    ASSUME NEW d, IsDocument(d), NEW p, PlaceAt(d, p), p.open = Len(d.wrappers) + 2,
           p.leaf < Len(d.sections[p.section].items[p.item]),
           d.sections[p.section].items[p.item][p.leaf + 1].text = <<>>,
           NEW q \in Places, q.open = p.open, q.section = p.section, q.item = p.item,
           q.leaf = p.leaf + 1, ~q.said
    PROVE  /\ PlaceAt(d, q)
           /\ ReadEmpty(d, p, d.sections[p.section].items[p.item][p.leaf + 1].name) = Frames(d, q)
<1>w. PICK W : W = Len(d.wrappers)
  OBVIOUS
<1>i. InItem(d, p) /\ InSection(d, p)
  BY DEF PlaceAt, InItem
<1>0. /\ W \in Nat /\ p.open \in Nat /\ p.section \in Nat /\ p.item \in Nat /\ Len(d.sections) \in Nat
      /\ p.leaf \in Nat /\ Len(d.sections[p.section].items) \in Nat /\ p.section \in 1..Len(d.sections)
  BY <1>w, <1>i, SectionTypes
<1>l. PICK item \in Seq(Leaves) : item = d.sections[p.section].items[p.item]
  BY <1>i, ItemTypes
<1>n. PICK n \in Nat : n = Len(item)
  OBVIOUS
<1>1. p.leaf < n /\ p.item \in 1..Len(d.sections[p.section].items)
  BY <1>i, <1>l, <1>n, ItemTypes
<1>2. p.open = W + 2 /\ q.open = W + 2
  BY <1>w
<1>3. PlaceAt(d, q)
  <2>1. InSection(d, q)
    BY <1>0, <1>i DEF InSection
  <2>2. d.sections[q.section].items[q.item] = item
    BY <1>l
  <2>3. q.leaf <= n
    BY <1>0, <1>1
  <2>4. p.item >= 1 /\ item # <<>>
    BY <1>i, <1>l DEF InItem
  <2>5. InItem(d, q)
    BY <2>1, <2>2, <2>3, <2>4, <1>n DEF InItem
  <2> QED BY <1>w, <1>0, <1>2, <2>5 DEF PlaceAt
<1>4. \A k \in 1..(p.open - 1) : Agree(d, p, q, k)
  BY <1>w, <1>0, <1>2, SMTT(30) DEF Agree, Full
<1> DEFINE tag == d.sections[p.section].tag
<1>5. FrameAt(d, p, p.open) = Filling(tag, LeavesMap(item, p.leaf), p.leaf)
  <2>1. Full(p, p.leaf, p.open) = p.leaf
    BY <1>0, <1>2 DEF Full
  <2> QED BY <1>w, <1>l, <1>0, <1>2, <2>1, ItemFrame
<1>6. FrameAt(d, q, q.open) = Filling(tag, LeavesMap(item, p.leaf + 1), p.leaf + 1)
  <2>1. Full(q, q.leaf, q.open) = p.leaf + 1
    BY <1>0, <1>2 DEF Full
  <2> QED BY <1>w, <1>l, <1>0, <1>2, <2>1, ItemFrame, ZenonT(30)
<1>7. InsertMerge(LeavesMap(item, p.leaf), item[p.leaf + 1].name, Str(<<>>)) = LeavesMap(item, p.leaf + 1)
  <2>1. LeafValue(item[p.leaf + 1]) = Str(<<>>)
    BY <1>l, TrimEmpty DEF LeafValue
  <2>2. \A i, j \in 1..Len(item) : item[i].name = item[j].name => i = j
    BY <1>0, <1>1, <1>l, LeavesDiffer, ZenonT(30)
  <2>3. p.leaf < Len(item)
    BY <1>1, <1>n
  <2> QED BY <1>0, <2>1, <2>2, <2>3, NextLeaf
<1>8. FrameAt(d, q, q.open) = Child(FrameAt(d, p, p.open), item[p.leaf + 1].name, Str(<<>>))
  BY <1>0, <1>5, <1>6, <1>7, ChildOf
<1>9. p.open > 0
  BY <1>0, <1>2
<1>10. [Frames(d, p) EXCEPT ![p.open] = FrameAt(d, q, q.open)] = Frames(d, q)
  BY <1>w, <1>0, <1>4, <1>9, TopChanged, ZenonT(30)
<1> QED BY <1>3, <1>8, <1>10, <1>l DEF ReadEmpty

\* The innermost frame takes a text.
ReadMore(d, p, t) == [Frames(d, p) EXCEPT ![p.open].text = @ \o t]

LEMMA TextRead ==
    ASSUME NEW d, IsDocument(d), NEW p, PlaceAt(d, p), p.open = Len(d.wrappers) + 3, ~p.said,
           NEW q \in Places, q.open = p.open, q.section = p.section, q.item = p.item,
           q.leaf = p.leaf, q.said
    PROVE  /\ PlaceAt(d, q)
           /\ ReadMore(d, p, d.sections[p.section].items[p.item][p.leaf].text) = Frames(d, q)
<1>w. PICK W : W = Len(d.wrappers)
  OBVIOUS
<1>i. InLeaf(d, p) /\ InItem(d, p) /\ InSection(d, p)
  BY DEF PlaceAt, InItem, InLeaf
<1>0. /\ W \in Nat /\ p.open \in Nat /\ p.section \in Nat /\ p.item \in Nat /\ Len(d.sections) \in Nat
      /\ p.leaf \in Nat /\ p.section \in 1..Len(d.sections)
  BY <1>w, <1>i, SectionTypes
<1>l. PICK item \in Seq(Leaves) : item = d.sections[p.section].items[p.item]
  BY <1>i, ItemTypes
<1>1. p.leaf \in 1..Len(item)
  <2>1. p.leaf <= Len(item) /\ p.leaf >= 1
    BY <1>i, <1>l, ItemTypes DEF InLeaf
  <2> QED BY <2>1, <1>0
<1>2. p.open = W + 3 /\ q.open = W + 3
  BY <1>w
<1>3. PlaceAt(d, q)
  <2>1. InSection(d, q)
    BY <1>i DEF InSection
  <2>2. InItem(d, q)
    BY <1>i, <2>1 DEF InItem
  <2>3. InLeaf(d, q)
    BY <1>i, <2>2 DEF InLeaf
  <2> QED BY <1>w, <1>0, <1>2, <2>1, <2>3 DEF PlaceAt, InSection
<1>4. \A k \in 1..(p.open - 1) : Agree(d, p, q, k)
  BY <1>w, <1>0, <1>2 DEF Agree, Full
<1>a. PICK l \in Leaves : l = item[p.leaf]
  BY <1>1
<1>5. l.text \in Seq(Characters)
  BY DEF Leaves
<1>6. FrameAt(d, p, p.open) = [name |-> l.name, map |-> EmptyMap, text |-> <<>>, children |-> 0]
  <2>1. FrameAt(d, p, p.open) =
          [name |-> d.sections[p.section].items[p.item][p.leaf].name, map |-> EmptyMap,
           text |-> IF p.said THEN d.sections[p.section].items[p.item][p.leaf].text ELSE <<>>,
           children |-> 0]
    BY <1>w, <1>0, LeafFrame
  <2> QED BY <2>1, <1>l, <1>a
<1>7. FrameAt(d, q, q.open) = [name |-> l.name, map |-> EmptyMap, text |-> l.text, children |-> 0]
  <2>1. FrameAt(d, q, q.open) =
          [name |-> d.sections[q.section].items[q.item][q.leaf].name, map |-> EmptyMap,
           text |-> IF q.said THEN d.sections[q.section].items[q.item][q.leaf].text ELSE <<>>,
           children |-> 0]
    BY <1>w, <1>0, LeafFrame
  <2> QED BY <2>1, <1>l, <1>a
<1>8. <<>> \o l.text = l.text
  BY <1>5
<1>9. FrameAt(d, q, q.open) = [FrameAt(d, p, p.open) EXCEPT !.text = @ \o l.text]
  <2>1. PICK f : f = FrameAt(d, p, p.open)
    OBVIOUS
  <2>2. f = [name |-> l.name, map |-> EmptyMap, text |-> <<>>, children |-> 0]
    BY <1>6, <2>1
  <2>3. f.text \o l.text = l.text
    BY <2>2, <1>8
  <2>4. [f EXCEPT !.text = l.text] = [name |-> l.name, map |-> EmptyMap, text |-> l.text, children |-> 0]
    BY <2>2
  <2> QED BY <2>1, <2>3, <2>4, <1>7, Zenon
<1>10. p.open > 0
  BY <1>0, <1>2
<1>11. [Frames(d, p) EXCEPT ![p.open] = FrameAt(d, q, q.open)] = Frames(d, q)
  <2>1. Len(d.wrappers) \in Nat
    BY <1>w, <1>0
  <2> QED BY ONLY <1>0, <1>4, <1>10, <2>1, q.open = p.open, TopChanged
<1>12. Frames(d, p)[p.open] = FrameAt(d, p, p.open)
  <2>1. p.open \in 1..p.open
    BY <1>0, <1>10
  <2> QED BY <2>1, <1>0, StackIsSeq
<1>13. [Frames(d, p) EXCEPT ![p.open].text = @ \o l.text] = Frames(d, q)
  BY <1>9, <1>11, <1>12
<1> QED BY <1>3, <1>13, <1>l, <1>a DEF ReadMore
-----------------------------------------------------------------------------
(* Closing an element.                                                     *)

Closes(d, p, q) ==
    /\ PlaceAt(d, q)
    /\ \A k \in 1..(q.open - 1) : Agree(d, p, q, k)
    /\ FrameAt(d, q, q.open) =
         Child(FrameAt(d, p, q.open), FrameAt(d, p, p.open).name, FrameValue(FrameAt(d, p, p.open)))

LEMMA ValueOfFrame ==
    ASSUME NEW n, NEW m, NEW c \in Nat, c # 0
    PROVE  FrameValue(Filling(n, m, c)) = Obj(m) /\ Filling(n, m, c).name = n
BY DEF FrameValue, Filling

LEMMA CloseLeaf ==
    ASSUME NEW d, IsDocument(d), NEW p, PlaceAt(d, p), p.open = Len(d.wrappers) + 3, p.said,
           NEW q \in Places, q.open = p.open - 1, q.section = p.section, q.item = p.item,
           q.leaf = p.leaf, ~q.said
    PROVE  Closes(d, p, q)
<1>w. PICK W : W = Len(d.wrappers)
  OBVIOUS
<1>i. InLeaf(d, p) /\ InItem(d, p) /\ InSection(d, p)
  BY DEF PlaceAt, InItem, InLeaf
<1>0. /\ W \in Nat /\ p.open \in Nat /\ p.section \in Nat /\ p.item \in Nat /\ Len(d.sections) \in Nat
      /\ p.leaf \in Nat /\ p.section \in 1..Len(d.sections)
  BY <1>w, <1>i, SectionTypes
<1>l. PICK item \in Seq(Leaves) : item = d.sections[p.section].items[p.item]
  BY <1>i, ItemTypes
<1>n. PICK n \in Nat : n = Len(item)
  OBVIOUS
<1>1. p.leaf <= n /\ p.leaf >= 1 /\ p.item \in 1..Len(d.sections[p.section].items)
  BY <1>i, <1>l, <1>n, ItemTypes DEF InLeaf
<1>2. p.open = W + 3 /\ q.open = W + 2
  BY <1>w, <1>0
<1>3. PlaceAt(d, q)
  <2>1. InSection(d, q)
    BY <1>i DEF InSection
  <2>2. InItem(d, q)
    BY <1>i, <2>1 DEF InItem
  <2> QED BY <1>w, <1>0, <1>2, <2>1, <2>2 DEF PlaceAt, InSection
<1>4. \A k \in 1..(q.open - 1) : Agree(d, p, q, k)
  BY <1>w, <1>0, <1>2 DEF Agree, Full
<1>a. PICK j \in Nat : p.leaf = j + 1
  <2>1. p.leaf - 1 \in Nat /\ p.leaf = (p.leaf - 1) + 1
    BY <1>0, <1>1
  <2> QED BY <2>1
<1> DEFINE tag == d.sections[p.section].tag
           l == item[p.leaf]
<1>5. FrameAt(d, p, q.open) = Filling(tag, LeavesMap(item, j), j)
  <2>1. Full(p, p.leaf, q.open) = j
    BY <1>0, <1>2, <1>a DEF Full
  <2> QED BY <1>w, <1>l, <1>0, <1>2, <2>1, ItemFrame
<1>6. FrameAt(d, q, q.open) = Filling(tag, LeavesMap(item, j + 1), j + 1)
  <2>1. Full(q, q.leaf, q.open) = j + 1
    BY <1>0, <1>2, <1>a DEF Full
  <2> QED BY <1>w, <1>l, <1>0, <1>2, <2>1, ItemFrame, SMTT(30)
<1>7. FrameAt(d, p, p.open).name = l.name /\ FrameValue(FrameAt(d, p, p.open)) = LeafValue(l)
  <2>1. FrameAt(d, p, p.open) =
          [name |-> d.sections[p.section].items[p.item][p.leaf].name, map |-> EmptyMap,
           text |-> IF p.said THEN d.sections[p.section].items[p.item][p.leaf].text ELSE <<>>,
           children |-> 0]
    BY <1>w, <1>0, LeafFrame
  <2>2. FrameAt(d, p, p.open) = [name |-> l.name, map |-> EmptyMap, text |-> l.text, children |-> 0]
    BY <2>1, <1>l
  <2> QED BY <2>2 DEF FrameValue, LeafValue
<1>8. InsertMerge(LeavesMap(item, j), l.name, LeafValue(l)) = LeavesMap(item, j + 1)
  <2>2. \A x, y \in 1..Len(item) : item[x].name = item[y].name => x = y
    BY <1>0, <1>1, <1>l, LeavesDiffer
  <2>3. j < Len(item)
    BY <1>1, <1>n, <1>a
  <2> QED BY <1>a, <2>2, <2>3, NextLeaf
<1>9. FrameAt(d, q, q.open)
        = Child(FrameAt(d, p, q.open), FrameAt(d, p, p.open).name, FrameValue(FrameAt(d, p, p.open)))
  BY <1>5, <1>6, <1>7, <1>8, ChildOf
<1> QED BY <1>3, <1>4, <1>9 DEF Closes

LEMMA CloseItem ==
    ASSUME NEW d, IsDocument(d), NEW p, PlaceAt(d, p), p.open = Len(d.wrappers) + 2,
           p.leaf = Len(d.sections[p.section].items[p.item]),
           NEW q \in Places, q.open = p.open - 1, q.section = p.section, q.item = p.item, ~q.said
    PROVE  Closes(d, p, q)
<1>w. PICK W : W = Len(d.wrappers)
  OBVIOUS
<1>i. InItem(d, p) /\ InSection(d, p)
  BY DEF PlaceAt, InItem
<1>0. /\ W \in Nat /\ p.open \in Nat /\ p.section \in Nat /\ p.item \in Nat /\ Len(d.sections) \in Nat
      /\ p.leaf \in Nat /\ p.section \in 1..Len(d.sections) /\ d.sections[p.section] \in Sections
      /\ Len(d.sections[p.section].items) \in Nat
  BY <1>w, <1>i, SectionTypes
<1>l. PICK item \in Seq(Leaves) : item = d.sections[p.section].items[p.item]
  BY <1>i, ItemTypes
<1>1. p.leaf = Len(item) /\ p.leaf # 0 /\ item # <<>>
  <2>1. item # <<>>
    BY <1>i, <1>l DEF InItem
  <2> QED BY <2>1, <1>l
<1>2. p.open = W + 2 /\ q.open = W + 1
  BY <1>w, <1>0
<1>3. PlaceAt(d, q)
  <2>1. InSection(d, q)
    BY <1>i DEF InSection
  <2> QED BY <1>w, <1>0, <1>2, <2>1 DEF PlaceAt, InSection
<1>4. \A k \in 1..(q.open - 1) : Agree(d, p, q, k)
  BY <1>w, <1>0, <1>2 DEF Agree, Full
<1>a. PICK j \in Nat : p.item = j + 1
  <2>1. p.item >= 1
    BY <1>i DEF InItem
  <2>2. p.item - 1 \in Nat /\ p.item = (p.item - 1) + 1
    BY <1>0, <2>1
  <2> QED BY <2>2
<1> DEFINE s == d.sections[p.section]
<1>5. FrameAt(d, p, q.open) = Filling(s.name, ItemsMap(s, j), j)
  <2>1. Full(p, p.item, q.open) = j
    <3>1. (j + 1) - 1 = j /\ W + 2 > W + 1
      BY <1>0
    <3>2. p.item - 1 = j
      BY <3>1, <1>a, Zenon
    <3>3. p.open > q.open
      BY <3>1, <1>2, Zenon
    <3> QED BY <3>2, <3>3, Zenon DEF Full
  <2> QED BY <1>w, <1>0, <1>2, <2>1, SectionFrame
<1>6. FrameAt(d, q, q.open) = Filling(s.name, ItemsMap(s, j + 1), j + 1)
  <2>1. Full(q, q.item, q.open) = j + 1
    BY <1>0, <1>2, <1>a DEF Full
  <2> QED BY <1>w, <1>0, <1>2, <2>1, SectionFrame, SMTT(30)
<1>7. FrameAt(d, p, p.open).name = s.tag /\ FrameValue(FrameAt(d, p, p.open)) = ItemValue(item)
  <2>1. Full(p, p.leaf, p.open) = p.leaf
    BY <1>0, <1>2 DEF Full
  <2>2. FrameAt(d, p, p.open) = Filling(s.tag, LeavesMap(item, p.leaf), p.leaf)
    BY <1>w, <1>l, <1>0, <1>2, <2>1, ItemFrame
  <2>3. ItemValue(item) = Obj(LeavesMap(item, p.leaf))
    BY <1>1 DEF ItemValue
  <2> QED BY <2>2, <2>3, <1>0, <1>1, ValueOfFrame
<1>8. InsertMerge(ItemsMap(s, j), s.tag, ItemValue(item)) = ItemsMap(s, j + 1)
  <2>1. item = s.items[j + 1]
    BY <1>l, <1>a
  <2>2. j < Len(s.items)
    <3>1. p.item <= Len(s.items)
      BY <1>i DEF InSection
    <3> QED BY <3>1, <1>a, <1>0
  <2> QED BY <1>0, <2>1, <2>2, NextItem
<1>9. FrameAt(d, q, q.open)
        = Child(FrameAt(d, p, q.open), FrameAt(d, p, p.open).name, FrameValue(FrameAt(d, p, p.open)))
  BY <1>5, <1>6, <1>7, <1>8, ChildOf
<1> QED BY <1>3, <1>4, <1>9 DEF Closes

\* A section with items, when the last of them is read.
LEMMA SectionRead ==
    ASSUME NEW d, IsDocument(d), NEW p, PlaceAt(d, p), p.open = Len(d.wrappers) + 1,
           p.item = Len(d.sections[p.section].items)
    PROVE  /\ FrameAt(d, p, p.open).name = d.sections[p.section].name
           /\ FrameValue(FrameAt(d, p, p.open)) = SectionValue(d.sections[p.section])
<1>i. InSection(d, p)
  BY DEF PlaceAt
<1>0. Len(d.wrappers) \in Nat /\ p.item \in Nat /\ p.open \in Nat
  BY <1>i, SectionTypes
<1>s. PICK s \in Sections : s = d.sections[p.section]
  BY <1>i, SectionTypes
<1>1. p.item = Len(s.items) /\ s.items # <<>> /\ p.item # 0
  <2>1. s.items # <<>>
    BY <1>i, <1>s DEF InSection
  <2>2. s.items \in Seq(Seq(Leaves))
    BY DEF Sections
  <2> QED BY <2>1, <2>2, <1>s
<1>2. Full(p, p.item, p.open) = p.item
  BY <1>0 DEF Full
<1>3. FrameAt(d, p, p.open) = Filling(s.name, ItemsMap(s, p.item), p.item)
  BY <1>0, <1>2, <1>s, SectionFrame
<1>4. SectionValue(s) = Obj(ItemsMap(s, p.item))
  BY <1>1 DEF SectionValue
<1> QED BY <1>0, <1>1, <1>3, <1>4, <1>s, ValueOfFrame

LEMMA CloseSection ==
    ASSUME NEW d, IsDocument(d), NEW p, PlaceAt(d, p), p.open = Len(d.wrappers) + 1, p.open # 1,
           p.item = Len(d.sections[p.section].items),
           NEW q \in Places, q.open = p.open - 1, q.section = p.section, ~q.said
    PROVE  Closes(d, p, q)
<1>w. PICK W : W = Len(d.wrappers)
  OBVIOUS
<1>i. InSection(d, p)
  BY DEF PlaceAt
<1>0. /\ W \in Nat /\ p.open \in Nat /\ p.section \in Nat /\ p.item \in Nat /\ Len(d.sections) \in Nat
      /\ p.section \in 1..Len(d.sections) /\ d.sections \in Seq(Sections)
  BY <1>w, <1>i, SectionTypes DEF IsDocument
<1>2. p.open = W + 1 /\ q.open = W /\ W # 0
  BY <1>w, <1>0
<1>3. PlaceAt(d, q)
  BY <1>w, <1>0, <1>2 DEF PlaceAt
<1>4. \A k \in 1..(q.open - 1) : Agree(d, p, q, k)
  BY <1>w, <1>0, <1>2 DEF Agree, Full
<1>a. PICK j \in Nat : p.section = j + 1
  <2>2. p.section - 1 \in Nat /\ p.section = (p.section - 1) + 1
    BY <1>0
  <2> QED BY <2>2
<1>5. FrameAt(d, p, q.open) = Filling(d.wrappers[W], SectionsMap(d, j), j)
  <2>1. Full(p, p.section, q.open) = j
    BY <1>0, <1>2, <1>a DEF Full
  <2> QED BY <1>w, <1>0, <1>2, <2>1, ContainerFrame
<1>6. FrameAt(d, q, q.open) = Filling(d.wrappers[W], SectionsMap(d, j + 1), j + 1)
  <2>1. Full(q, q.section, q.open) = j + 1
    BY <1>0, <1>2, <1>a DEF Full
  <2> QED BY <1>w, <1>0, <1>2, <2>1, ContainerFrame
<1>8. InsertMerge(SectionsMap(d, j), d.sections[j + 1].name, SectionValue(d.sections[j + 1]))
        = SectionsMap(d, j + 1)
  <2>1. \A x, y \in 1..Len(d.sections) : d.sections[x].name = d.sections[y].name => x = y
    BY DEF IsDocument
  <2>2. j < Len(d.sections)
    BY <1>0, <1>a
  <2> QED BY <1>0, <2>1, <2>2, NextSection
<1>9. FrameAt(d, q, q.open)
        = Child(FrameAt(d, p, q.open), FrameAt(d, p, p.open).name, FrameValue(FrameAt(d, p, p.open)))
  BY <1>5, <1>6, <1>8, <1>a, ChildOf, SectionRead
<1> QED BY <1>3, <1>4, <1>9 DEF Closes

\* An element around the sections, when they are all read.
LEMMA WrapperRead ==
    ASSUME NEW d, IsDocument(d), NEW p, PlaceAt(d, p), p.open \in 1..Len(d.wrappers),
           p.section = Len(d.sections)
    PROVE  /\ FrameAt(d, p, p.open).name = d.wrappers[p.open]
           /\ FrameValue(FrameAt(d, p, p.open)) = WrapperValue(d, p.open)
<1>w. PICK W : W = Len(d.wrappers)
  OBVIOUS
<1>0. W \in Nat /\ W <= 3 /\ p.open \in Nat /\ p.section \in Nat /\ p.section # 0
  BY <1>w, DocumentTypes
<1>1. CASE p.open = W
  <2>1. Full(p, p.section, p.open) = p.section
    BY <1>0 DEF Full
  <2>2. FrameAt(d, p, p.open) = Filling(d.wrappers[W], SectionsMap(d, p.section), p.section)
    BY <1>w, <1>0, <1>1, <2>1, ContainerFrame
  <2>3. WrapperValue(d, p.open) = Obj(SectionsMap(d, p.section))
    BY <1>w, <1>1 DEF WrapperValue
  <2> QED BY <1>0, <1>1, <2>2, <2>3, ValueOfFrame
<1>2. CASE p.open # W
  <2>1. p.open < W
    BY <1>w, <1>0, <1>2
  <2>2. FrameAt(d, p, p.open)
          = Filling(d.wrappers[p.open], Only(d.wrappers[p.open + 1], WrapperValue(d, p.open + 1)), 1)
    BY <1>w, <1>0, <2>1, WrapperFrame
  <2>3. WrapperValue(d, p.open) = Obj(Only(d.wrappers[p.open + 1], WrapperValue(d, p.open + 1)))
    <3>1. CASE p.open = W - 1
      <4>1. p.open + 1 = W /\ p.open # W
        BY <3>1, <1>0
      <4> QED BY <4>1, <3>1, <1>w DEF WrapperValue
    <3>2. CASE p.open = W - 2
      <4>1. p.open + 1 = W - 1 /\ p.open # W /\ p.open # W - 1 /\ W - 1 # W
        BY <3>2, <1>0
      <4> QED BY <4>1, <3>2, <1>w DEF WrapperValue
    <3> QED BY <3>1, <3>2, <1>w, <1>0, <2>1
  <2> QED BY <2>2, <2>3, ValueOfFrame
<1> QED BY <1>1, <1>2

LEMMA CloseWrapper ==
    ASSUME NEW d, IsDocument(d), NEW p, PlaceAt(d, p), p.open \in 1..Len(d.wrappers), p.open # 1,
           p.section = Len(d.sections),
           NEW q \in Places, q.open = p.open - 1, q.section = p.section, ~q.said
    PROVE  Closes(d, p, q)
<1>w. PICK W : W = Len(d.wrappers)
  OBVIOUS
<1>0. W \in Nat /\ p.open \in Nat /\ p.section \in Nat /\ p.section # 0 /\ Len(d.sections) \in Nat
  BY <1>w, DocumentTypes
<1>1. q.open < W /\ q.open > 0 /\ q.open \in Nat /\ q.open + 1 = p.open /\ p.open <= W
  BY <1>w, <1>0
<1>3. PlaceAt(d, q)
  BY <1>w, <1>0, <1>1 DEF PlaceAt
<1>4. \A k \in 1..(q.open - 1) : Agree(d, p, q, k)
  BY <1>w, <1>0, <1>1 DEF Agree
<1>5. FrameAt(d, p, q.open) = Filling(d.wrappers[q.open], EmptyMap, 0)
  <2>1. FrameAt(d, p, q.open) = Frame(d.wrappers[q.open])
    BY <1>w, <1>0, <1>1, WrapperFrame
  <2> QED BY <2>1 DEF Frame, Filling
<1>6. FrameAt(d, q, q.open)
        = Filling(d.wrappers[q.open], Only(d.wrappers[p.open], WrapperValue(d, p.open)), 1)
  BY <1>w, <1>0, <1>1, WrapperFrame
<1>7. FrameAt(d, q, q.open)
        = Child(FrameAt(d, p, q.open), d.wrappers[p.open], WrapperValue(d, p.open))
  <2>1. 0 + 1 = 1 /\ 0 \in Nat
    OBVIOUS
  <2> QED BY <2>1, <1>5, <1>6, ChildOf, FirstChild
<1> QED BY <1>3, <1>4, <1>7, WrapperRead DEF Closes
-----------------------------------------------------------------------------
(* The steps of the parser.                                                *)

\* Which event comes next.
LEMMA ComingIs ==
    ASSUME ~cut, PlaceAt(Doc, place), IsDocument(Doc)
    PROVE  LET o == place.open
               W == Len(Doc.wrappers)
           IN  /\ o < W /\ place.section = 0 => Coming = [ev |-> "start", name |-> Doc.wrappers[o + 1]]
               /\ o = W /\ place.section < Len(Doc.sections) =>
                    Coming = Element(Doc.sections[place.section + 1].name, Doc.sections[place.section + 1].items)
               /\ o = W + 1 /\ place.item < Len(Doc.sections[place.section].items) =>
                    Coming = Element(Doc.sections[place.section].tag,
                                     Doc.sections[place.section].items[place.item + 1])
               /\ o = W + 2 /\ place.leaf < Len(Doc.sections[place.section].items[place.item]) =>
                    Coming = Element(Doc.sections[place.section].items[place.item][place.leaf + 1].name,
                                     Doc.sections[place.section].items[place.item][place.leaf + 1].text)
               /\ o = W + 3 /\ ~place.said =>
                    Coming = [ev |-> "text", text |-> Doc.sections[place.section].items[place.item][place.leaf].text]
<1>w. PICK W : W = Outside
  OBVIOUS
<1>1. W = Len(Doc.wrappers) /\ W \in Nat /\ place.open \in Nat
  BY <1>w, DocumentTypes DEF Outside
<1>2. CASE place.open < W
  <2>1. place.open # W /\ place.open # W + 1 /\ place.open # W + 2 /\ place.open # W + 3
    BY <1>1, <1>2
  <2> QED BY <1>w, <1>1, <1>2, <2>1, Zenon DEF Coming
<1>3. CASE place.open = W
  <2>1. ~(place.open < W) /\ place.open # W + 1 /\ place.open # W + 2 /\ place.open # W + 3
    BY <1>1, <1>3
  <2> QED BY <1>w, <1>1, <1>3, <2>1, Zenon DEF Coming
<1>4. CASE place.open = W + 1
  <2>1. ~(place.open < W) /\ place.open # W /\ place.open # W + 2 /\ place.open # W + 3
    BY <1>1, <1>4
  <2> QED BY <1>w, <1>1, <1>4, <2>1, Zenon DEF Coming, ThisSection
<1>5. CASE place.open = W + 2
  <2>1. ~(place.open < W) /\ place.open # W /\ place.open # W + 1 /\ place.open # W + 3
    BY <1>1, <1>5
  <2> QED BY <1>w, <1>1, <1>5, <2>1, Zenon DEF Coming, ThisSection, ThisItem
<1>6. CASE place.open = W + 3
  <2>1. ~(place.open < W) /\ place.open # W /\ place.open # W + 1 /\ place.open # W + 2
    BY <1>1, <1>6
  <2> QED BY <1>w, <1>1, <1>6, <2>1, Zenon DEF Coming, ThisSection, ThisItem
<1>7. place.open <= W + 3
  BY <1>1 DEF PlaceAt
<1> QED BY <1>2, <1>3, <1>4, <1>5, <1>6, <1>7, <1>1

\* When it is the end of an element: all there is of it is read.
LEMMA EndComes ==
    ASSUME ~cut, PlaceAt(Doc, place), IsDocument(Doc), Coming.ev = "end"
    PROVE  LET o == place.open
               W == Len(Doc.wrappers)
           IN  /\ o > 0
               /\ o <= W => place.section = Len(Doc.sections)
               /\ o = W + 1 => place.item = Len(Doc.sections[place.section].items)
               /\ o = W + 2 => place.leaf = Len(Doc.sections[place.section].items[place.item])
               /\ o = W + 3 => place.said
<1>w. PICK W : W = Len(Doc.wrappers)
  OBVIOUS
<1>1. /\ W \in Nat /\ place.open \in Nat /\ place.section \in Nat /\ place.item \in Nat
      /\ place.leaf \in Nat /\ Len(Doc.sections) \in Nat /\ place.section <= Len(Doc.sections)
  BY <1>w, DocumentTypes DEF PlaceAt
<1>2. \A n, c : Element(n, c).ev # "end"
  BY DEF Element
<1>3. place.open > 0
  <2> SUFFICES ASSUME place.open = 0 PROVE FALSE
    BY <1>1
  <2>1. W # 0 => place.section = 0
    BY <1>w, <1>1 DEF PlaceAt
  <2>2. W = 0
    <3> SUFFICES ASSUME W # 0 PROVE FALSE
      OBVIOUS
    <3>1. 0 < W
      BY <1>1
    <3>2. place.open < Len(Doc.wrappers) /\ place.section = 0
      BY <3>1, <2>1, <1>w, Zenon
    <3>3. Coming = [ev |-> "start", name |-> Doc.wrappers[place.open + 1]]
      BY <3>2, ComingIs, Zenon
    <3> HIDE DEF Coming
    <3> QED BY <3>3
  <2>3. ~(place.section < Len(Doc.sections))
    BY <2>2, <1>w, <1>2, ComingIs
  <2>4. Outside = 0 /\ 0 # 0 + 1 /\ 0 # 0 + 2 /\ 0 # 0 + 3 /\ ~(0 < 0) /\ ~(0 > 0)
    BY <1>w, <2>2 DEF Outside
  <2> QED BY <2>3, <2>4, Zenon DEF Coming
<1>4. place.open <= W => place.section = Len(Doc.sections)
  <2>1. CASE place.open = W
    <3>1. ASSUME place.section < Len(Doc.sections) PROVE FALSE
      <4>1. place.open = Len(Doc.wrappers)
        BY <2>1, <1>w
      <4>2. Coming = Element(Doc.sections[place.section + 1].name, Doc.sections[place.section + 1].items)
        BY <3>1, <4>1, ComingIs, Zenon
      <4> QED BY <4>2, <1>2
    <3>2. \A a, b \in Nat : a <= b /\ ~(a < b) => a = b
      OBVIOUS
    <3> QED BY <1>1, <3>1, <3>2
  <2>2. CASE place.open < W
    <3>1. place.section # 0
      <4> SUFFICES ASSUME place.section = 0 PROVE FALSE
        OBVIOUS
      <4>1. place.open < Len(Doc.wrappers)
        BY <2>2, <1>w
      <4>2. Coming = [ev |-> "start", name |-> Doc.wrappers[place.open + 1]]
        BY <4>1, ComingIs, Zenon
      <4> HIDE DEF Coming
      <4> QED BY <4>2
    <3> QED BY <3>1, <2>2, <1>w DEF PlaceAt
  <2> QED BY <2>1, <2>2, <1>1
<1>5. place.open = W + 1 => place.item = Len(Doc.sections[place.section].items)
  <2> SUFFICES ASSUME place.open = W + 1 PROVE place.item = Len(Doc.sections[place.section].items)
    OBVIOUS
  <2>1. InSection(Doc, place)
    BY <1>w DEF PlaceAt
  <2>2. PICK n \in Nat : n = Len(Doc.sections[place.section].items)
    BY <2>1, SectionTypes
  <2>3. place.item <= n
    BY <2>1, <2>2 DEF InSection
  <2>4. ~(place.item < n)
    BY <2>2, <1>w, <1>2, ComingIs
  <2> QED BY <2>2, <2>3, <2>4, <1>1
<1>6. place.open = W + 2 => place.leaf = Len(Doc.sections[place.section].items[place.item])
  <2> SUFFICES ASSUME place.open = W + 2 PROVE place.leaf = Len(Doc.sections[place.section].items[place.item])
    OBVIOUS
  <2>1. InItem(Doc, place)
    BY <1>w DEF PlaceAt
  <2>2. PICK n \in Nat : n = Len(Doc.sections[place.section].items[place.item])
    BY <2>1, ItemTypes
  <2>3. place.leaf <= n
    BY <2>1, <2>2 DEF InItem
  <2>4. ~(place.leaf < n)
    BY <2>2, <1>w, <1>2, ComingIs
  <2> QED BY <2>2, <2>3, <2>4, <1>1
<1>7. place.open = W + 3 => place.said
  <2> SUFFICES ASSUME place.open = W + 3, ~place.said PROVE FALSE
    OBVIOUS
  <2>a. place.open = Len(Doc.wrappers) + 3
    BY <1>w
  <2>b. Coming = [ev |-> "text", text |-> Doc.sections[place.section].items[place.item][place.leaf].text]
    BY <2>a, ComingIs, Zenon
  <2>1. Coming.ev = "text"
    BY <2>b
  <2> QED BY <2>1
<1> QED BY <1>w, <1>3, <1>4, <1>5, <1>6, <1>7

\* The place behind it.
LEMMA BehindIs ==
    ASSUME place \in Places, Outside \in Nat, Coming.ev = "end" => place.open > 0
    PROVE  /\ Behind \in Places
           /\ Coming.ev = "start" => Behind.open = place.open + 1
           /\ Coming.ev = "end" => Behind.open = place.open - 1
           /\ Coming.ev \in {"empty", "text"} => Behind.open = place.open
           /\ Coming.ev # "text" => ~Behind.said
           /\ Coming.ev = "text" => Behind.said
           /\ Coming.ev \in {"start", "empty"} =>
                /\ place.open # Outside => Behind.section = place.section
                /\ place.open = Outside => Behind.section = place.section + 1 /\ Behind.item = 0
                /\ place.open = Outside + 1 => Behind.item = place.item + 1 /\ Behind.leaf = 0
                /\ place.open = Outside + 2 => Behind.item = place.item /\ Behind.leaf = place.leaf + 1
           /\ Coming.ev \notin {"start", "empty"} =>
                /\ Behind.section = place.section
                /\ place.open > Outside + 1 => Behind.item = place.item
                /\ place.open > Outside + 2 => Behind.leaf = place.leaf
<1>0. place.open \in Nat /\ place.section \in Nat /\ place.item \in Nat /\ place.leaf \in Nat
  BY DEF Places
<1>e. PICK ev : ev = Coming.ev
  OBVIOUS
<1>w. PICK W \in Nat : W = Outside
  OBVIOUS
<1>1. /\ Behind.open = IF ev = "start" THEN place.open + 1 ELSE IF ev = "end" THEN place.open - 1 ELSE place.open
      /\ Behind.section = IF place.open = W /\ ev \in {"start", "empty"} THEN place.section + 1 ELSE place.section
      /\ Behind.item = Reached(place.item, 1)
      /\ Behind.leaf = Reached(place.leaf, 2)
      /\ Behind.said = (ev = "text")
      /\ Behind = [open |-> Behind.open, section |-> Behind.section, item |-> Behind.item,
                   leaf |-> Behind.leaf, said |-> Behind.said]
  BY <1>e, <1>w DEF Behind
<1>2. \A n, l : Reached(n, l) = IF place.open = W + l /\ ev \in {"start", "empty"} THEN n + 1
                                ELSE IF place.open = W + l - 1 THEN 0 ELSE n
  BY <1>e, <1>w DEF Reached
<1>3. Behind.item = IF place.open = W + 1 /\ ev \in {"start", "empty"} THEN place.item + 1
                    ELSE IF place.open = W THEN 0 ELSE place.item
  <2>1. W + 1 - 1 = W
    OBVIOUS
  <2> QED BY <1>1, <1>2, <2>1
<1>4. Behind.leaf = IF place.open = W + 2 /\ ev \in {"start", "empty"} THEN place.leaf + 1
                    ELSE IF place.open = W + 1 THEN 0 ELSE place.leaf
  <2>1. W + 2 - 1 = W + 1
    OBVIOUS
  <2> QED BY <1>1, <1>2, <2>1
<1>5. Behind.open \in Nat /\ Behind.section \in Nat /\ Behind.item \in Nat /\ Behind.leaf \in Nat
  BY <1>0, <1>1, <1>3, <1>4, <1>e
<1>6. Behind.said \in BOOLEAN
  BY <1>1
<1>7. Behind \in Places
  BY <1>1, <1>5, <1>6, Zenon DEF Places
<1>8. (ev # "text" => ~Behind.said) /\ (ev = "text" => Behind.said)
  BY <1>1
<1>9. /\ ev = "start" => Behind.open = place.open + 1
      /\ ev = "end" => Behind.open = place.open - 1
      /\ ev \in {"empty", "text"} => Behind.open = place.open
  BY <1>1
<1>10. ev \in {"start", "empty"} =>
         /\ place.open # W => Behind.section = place.section
         /\ place.open = W => Behind.section = place.section + 1 /\ Behind.item = 0
         /\ place.open = W + 1 => Behind.item = place.item + 1 /\ Behind.leaf = 0
         /\ place.open = W + 2 => Behind.item = place.item /\ Behind.leaf = place.leaf + 1
  BY <1>0, <1>1, <1>3, <1>4
<1>11. ev \notin {"start", "empty"} =>
         /\ Behind.section = place.section
         /\ place.open > W + 1 => Behind.item = place.item
         /\ place.open > W + 2 => Behind.leaf = place.leaf
  BY <1>0, <1>1, <1>3, <1>4
<1> QED BY <1>7, <1>8, <1>9, <1>10, <1>11, <1>e, <1>w

LEMMA LeastNatural ==
    ASSUME NEW T, T \subseteq Nat, T # {}
    PROVE  \E x \in T : \A y \in T : x <= y
<1> DEFINE R == OpToRel(<, Nat)
<1>1. IsWellFoundedOn(R, Nat)
  BY NatLessThanWellFounded
<1>2. \A y, x \in Nat : y < x => <<y, x>> \in R
  BY DEF OpToRel
<1> HIDE DEF R
<1>3. PICK x \in T : \A y \in T : ~ (<<y, x>> \in R)
  BY <1>1, WFMin
<1>4. \A y \in T : x \in Nat /\ y \in Nat /\ ~(y < x)
  BY <1>2, <1>3
<1> QED BY <1>3, <1>4

-----------------------------------------------------------------------------
(* A row as one text: the values before a column and the delimiters        *)
(* between them.                                                           *)

IsJoin(f, n, row) ==
    f = [i \in 1..n |-> IF i = 1 THEN row[1] ELSE f[i - 1] \o <<Delimiter>> \o row[i]]
JoinOf(row) == CHOOSE f : IsJoin(f, Len(row), row)

LEMMA JoinExists ==
    ASSUME NEW row, NEW n \in Nat
    PROVE  \E f : IsJoin(f, n, row)
<1> DEFINE bad == {k \in Nat : ~\E f : IsJoin(f, k, row)}
<1> SUFFICES ASSUME bad # {} PROVE FALSE
  OBVIOUS
<1>1. PICK m \in bad : \A k \in bad : m <= k
  BY LeastNatural
<1>2. m \in Nat /\ ~\E f : IsJoin(f, m, row)
  OBVIOUS
<1>3. CASE m = 0
  <2> DEFINE f == [j \in 1..0 |-> <<>>]
  <2>1. f = [i \in 1..0 |-> IF i = 1 THEN row[1] ELSE f[i - 1] \o <<Delimiter>> \o row[i]]
    OBVIOUS
  <2> QED BY <2>1, <1>2, <1>3 DEF IsJoin
<1>4. CASE m # 0
  <2>1. m - 1 \in Nat /\ m - 1 \notin bad
    BY <1>1, <1>2, <1>4
  <2>2. PICK g : IsJoin(g, m - 1, row)
    BY <2>1
  <2> DEFINE f == [i \in 1..m |-> IF i < m THEN g[i]
                                  ELSE IF i = 1 THEN row[1] ELSE g[i - 1] \o <<Delimiter>> \o row[i]]
             h(i) == IF i = 1 THEN row[1] ELSE f[i - 1] \o <<Delimiter>> \o row[i]
  <2>3. \A i \in 1..(m - 1) : g[i] = IF i = 1 THEN row[1] ELSE g[i - 1] \o <<Delimiter>> \o row[i]
    BY <2>2 DEF IsJoin
  <2>4. ASSUME NEW i \in 1..m PROVE f[i] = h(i)
    <3>1. i # 1 => i - 1 \in 1..m /\ i - 1 < m
      BY <2>1
    <3>2. i # 1 => f[i - 1] = g[i - 1]
      BY <3>1
    <3>3. CASE i < m
      <4>1. i \in 1..(m - 1)
        BY <3>3, <2>1
      <4>2. f[i] = g[i]
        BY <3>3
      <4> QED BY <4>1, <4>2, <3>2, <2>3
    <3>4. CASE i = m
      <4>1. f[i] = IF i = 1 THEN row[1] ELSE g[i - 1] \o <<Delimiter>> \o row[i]
        BY <3>4
      <4> QED BY <4>1, <3>2
    <3> QED BY <3>3, <3>4, <2>1
  <2>5. f = [i \in 1..m |-> f[i]]
    OBVIOUS
  <2> HIDE DEF f
  <2>6. f = [i \in 1..m |-> h(i)]
    BY <2>4, <2>5
  <2>7. IsJoin(f, m, row)
    BY <2>6 DEF IsJoin
  <2> QED BY <2>7, <1>2
<1> QED BY <1>3, <1>4

LEMMA JoinIs ==
    ASSUME NEW row, Len(row) \in Nat
    PROVE  /\ Joined(row) = JoinOf(row)[Len(row)]
           /\ \A i \in 1..Len(row) :
                 JoinOf(row)[i] = IF i = 1 THEN row[1]
                                  ELSE JoinOf(row)[i - 1] \o <<Delimiter>> \o row[i]
<1>1. Joined(row) = JoinOf(row)[Len(row)]
  BY DEF Joined, JoinOf, IsJoin
<1>2. IsJoin(JoinOf(row), Len(row), row)
  BY JoinExists DEF JoinOf
<1> QED BY <1>1, <1>2 DEF IsJoin

LEMMA CharacterTypes == Delimiter \in Characters /\ Delimiter # Blank
<1>1. Delimiter \in Characters
  BY Zenon DEF Characters
<1>2. Delimiter # Blank
  BY Zenon DEF Delimiter, Blank
<1> QED BY <1>1, <1>2

LEMMA JoinTypes ==
    ASSUME NEW row \in Seq(Seq(Characters))
    PROVE  \A i \in 1..Len(row) : JoinOf(row)[i] \in Seq(Characters)
<1> DEFINE f == JoinOf(row)
           bad == {k \in 1..Len(row) : f[k] \notin Seq(Characters)}
<1> SUFFICES ASSUME bad # {} PROVE FALSE
  OBVIOUS
<1>1. PICK m \in bad : \A k \in bad : m <= k
  <2>1. bad \subseteq Nat
    OBVIOUS
  <2> QED BY <2>1, LeastNatural
<1>2. m \in 1..Len(row) /\ f[m] \notin Seq(Characters) /\ row[m] \in Seq(Characters)
  OBVIOUS
<1>3. f[m] = IF m = 1 THEN row[1] ELSE f[m - 1] \o <<Delimiter>> \o row[m]
  <2>1. Len(row) \in Nat
    OBVIOUS
  <2> QED BY <2>1, JoinIs, <1>2
<1>4. m # 1
  BY <1>2, <1>3
<1>5. m - 1 \in 1..Len(row) /\ ~(m <= m - 1)
  BY <1>2, <1>4
<1>6. f[m - 1] \in Seq(Characters)
  BY <1>1, <1>5
<1> HIDE DEF f, bad
<1>7. <<Delimiter>> \in Seq(Characters)
  BY CharacterTypes
<1>8. f[m] = f[m - 1] \o <<Delimiter>> \o row[m]
  BY <1>3, <1>4
<1> QED BY <1>2, <1>6, <1>7, <1>8

LEMMA JoinedIsText ==
    ASSUME NEW row \in Seq(Seq(Characters)), Len(row) >= 1
    PROVE  Joined(row) \in Seq(Characters)
BY JoinIs, JoinTypes

-----------------------------------------------------------------------------
(* The answers are documents.                                              *)

LEMMA AnswerKinds ==
    ASSUME NEW a \in SoapAnswers
    PROVE  \/ /\ a.kind = "rows" /\ a.columns \in ColumnLists
              /\ \E k \in Nat : a.rows \in [1..k -> [1..Len(a.columns) -> Values]]
           \/ /\ a.kind = "table" /\ \E k \in Nat : a.types \in [1..k -> Types]
           \/ a.kind = "structure" /\ a.types \in [1..1 -> Types]
           \/ a.kind = "bare" /\ a.tag \in {"Header", "Body"} /\ a.elements \in 0..1
           \/ a.kind = "fault"
           \/ a.kind = "deep"
<1>1. CASE \E c \in ColumnLists : a \in [kind : {"rows"}, columns : {c}, rows : UpTo([1..Len(c) -> Values], MaxRows)]
  <2>1. PICK c \in ColumnLists : a \in [kind : {"rows"}, columns : {c}, rows : UpTo([1..Len(c) -> Values], MaxRows)]
    BY <1>1
  <2>2. a.kind = "rows" /\ a.columns = c /\ a.rows \in UpTo([1..Len(c) -> Values], MaxRows)
    BY <2>1
  <2>3. \E k \in Nat : a.rows \in [1..k -> [1..Len(c) -> Values]]
    BY <2>2, SoapBoundsAssumption DEF UpTo
  <2> QED BY <2>2, <2>3
<1>2. CASE a \in [kind : {"table"}, types : UpTo(Types, MaxRows)]
  <2>1. a.kind = "table" /\ a.types \in UpTo(Types, MaxRows)
    BY <1>2
  <2>2. \E k \in Nat : a.types \in [1..k -> Types]
    BY <2>1, SoapBoundsAssumption DEF UpTo
  <2> QED BY <2>1, <2>2
<1>3. CASE a \in [kind : {"structure"}, types : [1..1 -> Types]]
  BY <1>3
<1>4. CASE a \in [kind : {"bare"}, tag : {"Header", "Body"}, elements : 0..1]
  BY <1>4
<1>5. CASE a \in [kind : {"fault", "deep"}]
  BY <1>5
<1>6. \/ a \in UNION {[kind : {"rows"}, columns : {c}, rows : UpTo([1..Len(c) -> Values], MaxRows)] :
                       c \in ColumnLists}
      \/ a \in [kind : {"table"}, types : UpTo(Types, MaxRows)]
      \/ a \in [kind : {"structure"}, types : [1..1 -> Types]]
      \/ a \in [kind : {"bare"}, tag : {"Header", "Body"}, elements : 0..1]
      \/ a \in [kind : {"fault", "deep"}]
  <2> DEFINE A1 == UNION {[kind : {"rows"}, columns : {c}, rows : UpTo([1..Len(c) -> Values], MaxRows)] :
                             c \in ColumnLists}
             A2 == [kind : {"table"}, types : UpTo(Types, MaxRows)]
             A3 == [kind : {"structure"}, types : [1..1 -> Types]]
             A4 == [kind : {"bare"}, tag : {"Header", "Body"}, elements : 0..1]
             A5 == [kind : {"fault", "deep"}]
  <2>1. SoapAnswers = A1 \cup A2 \cup A3 \cup A4 \cup A5
    BY DEF SoapAnswers
  <2> HIDE DEF A1, A2, A3, A4, A5
  <2>2. a \in A1 \/ a \in A2 \/ a \in A3 \/ a \in A4 \/ a \in A5
    BY <2>1
  <2> QED BY <2>2 DEF A1, A2, A3, A4, A5
<1>7. a \in UNION {[kind : {"rows"}, columns : {c}, rows : UpTo([1..Len(c) -> Values], MaxRows)] :
                       c \in ColumnLists}
      => \E c \in ColumnLists : a \in [kind : {"rows"}, columns : {c}, rows : UpTo([1..Len(c) -> Values], MaxRows)]
  BY Zenon
<1> QED BY <1>1, <1>2, <1>3, <1>4, <1>5, <1>6, <1>7, Zenon

LEMMA TypeTexts == Types \subseteq Seq(Characters)
<1>1. {"S", "W", "w", "I", "E", "A", "Z"} \subseteq Characters
  BY DEF Characters
<1>2. \A c \in Characters : <<c>> \in Seq(Characters)
  OBVIOUS
<1>3. <<>> \in Seq(Characters)
  OBVIOUS
<1> QED BY <1>1, <1>2, <1>3 DEF Types, Mild

\* The sections of a document, given one by one.
LEMMA Documented ==
    ASSUME NEW w \in Seq(Names), Len(w) <= 3, NEW ss \in Seq(Sections), Len(ss) >= 1,
           Len(w) = 0 => Len(ss) = 1,
           \A i, j \in 1..Len(ss) : ss[i].name = ss[j].name => i = j,
           \A s \in 1..Len(ss) : \A m \in 1..Len(ss[s].items) :
              \A i, j \in 1..Len(ss[s].items[m]) :
                 ss[s].items[m][i].name = ss[s].items[m][j].name => i = j
    PROVE  IsDocument(Within(w, ss))
<1>1. Within(w, ss).wrappers = w /\ Within(w, ss).sections = ss
  BY DEF Within
<1> QED BY <1>1, Zenon DEF IsDocument

LEMMA OneLeaf ==
    ASSUME NEW n \in Names, NEW t \in Seq(Characters)
    PROVE  /\ <<Leaf(n, t)>> \in Seq(Leaves) /\ Len(<<Leaf(n, t)>>) = 1
           /\ <<Leaf(n, t)>>[1] = Leaf(n, t)
<1>1. Leaf(n, t) \in Leaves
  BY DEF Leaf, Leaves
<1> QED BY <1>1

LEMMA TwoLeaves ==
    ASSUME NEW t \in Seq(Characters), NEW u \in Seq(Characters)
    PROVE  /\ Message(t, u) \in Seq(Leaves) /\ Len(Message(t, u)) = 2
           /\ Message(t, u)[1] = Leaf("TYPE", t) /\ Message(t, u)[2] = Leaf("MESSAGE", u)
           /\ Message(t, u)[1].name = "TYPE" /\ Message(t, u)[2].name = "MESSAGE"
<1>1. Leaf("TYPE", t) \in Leaves /\ Leaf("MESSAGE", u) \in Leaves
  BY DEF Leaf, Leaves, Names
<1>2. Leaf("TYPE", t).name = "TYPE" /\ Leaf("MESSAGE", u).name = "MESSAGE"
  BY DEF Leaf
<1> HIDE DEF Leaf
<1> QED BY <1>1, <1>2 DEF Message

LEMMA SectionIs ==
    ASSUME NEW n \in Names, NEW tag \in Names, NEW items \in Seq(Seq(Leaves))
    PROVE  /\ Section(n, tag, items) \in Sections
           /\ Section(n, tag, items).name = n /\ Section(n, tag, items).tag = tag
           /\ Section(n, tag, items).items = items
BY DEF Section, Sections

LEMMA SeqMonotone ==
    ASSUME NEW S, NEW T, S \subseteq T
    PROVE  Seq(S) \subseteq Seq(T)
OBVIOUS

\* An answer with the rows of a table.
LEMMA RowsTypes ==
    ASSUME NEW a \in SoapAnswers, a.kind = "rows"
    PROVE  /\ a.columns \in Seq(Seq(Characters)) /\ Len(a.columns) \in Nat /\ Len(a.columns) >= 1
           /\ a.columns \in ColumnLists
           /\ Len(a.rows) \in Nat
           /\ \A r \in 1..Len(a.rows) :
                 /\ a.rows[r] \in Seq(Seq(Characters)) /\ Len(a.rows[r]) = Len(a.columns)
                 /\ Joined(a.rows[r]) \in Seq(Characters)
<1>1. a.columns \in ColumnLists /\ \E k \in Nat : a.rows \in [1..k -> [1..Len(a.columns) -> Values]]
  BY AnswerKinds
<1>2. PICK k \in Nat : a.rows \in [1..k -> [1..Len(a.columns) -> Values]]
  BY <1>1
<1>3. a.columns \in Seq(Seq(STRING)) /\ a.columns # <<>>
  BY <1>1, ColumnsAssumption
<1>4. PICK n \in Nat : n = Len(a.columns) /\ n >= 1
  BY <1>3
<1>5. STRING \subseteq Characters
  BY DEF Characters
<1>6. Seq(STRING) \subseteq Seq(Characters)
  BY <1>5, SeqMonotone, Zenon
<1>7. Seq(Seq(STRING)) \subseteq Seq(Seq(Characters))
  BY <1>6
<1>8. Values \subseteq Seq(Characters)
  BY <1>6, ValuesAssumption
<1>9. Len(a.rows) = k
  BY <1>2
<1>10. ASSUME NEW r \in 1..k
       PROVE  a.rows[r] \in Seq(Seq(Characters)) /\ Len(a.rows[r]) = n
  <2>1. a.rows[r] \in [1..n -> Values]
    BY <1>2, <1>4
  <2>2. PICK x \in [1..n -> Values] : x = a.rows[r]
    BY <2>1
  <2>3. x \in [1..n -> Seq(Characters)]
    BY <1>8
  <2>4. x \in Seq(Seq(Characters)) /\ Len(x) = n
    BY <2>3
  <2> QED BY <2>2, <2>4
<1>11. ASSUME NEW r \in 1..k PROVE Joined(a.rows[r]) \in Seq(Characters)
  BY <1>10, <1>4, JoinedIsText
<1> QED BY <1>1, <1>3, <1>4, <1>7, <1>9, <1>10, <1>11

LEMMA RowsDocument ==
    ASSUME NEW a \in SoapAnswers, a.kind = "rows"
    PROVE  IsDocument(Document(a))
<1> DEFINE w == <<"Envelope", "Body", "Response">>
           F == [i \in 1..Len(a.columns) |-> <<Leaf("FIELDNAME", a.columns[i])>>]
           D == [r \in 1..Len(a.rows) |-> <<Leaf("WA", Joined(a.rows[r]))>>]
           ss == <<Section("FIELDS", "item", F), Section("DATA", "item", D)>>
<1>1. Document(a) = Within(w, ss)
  BY Zenon DEF Document
<1>2. w \in Seq(Names) /\ Len(w) = 3
  BY DEF Names
<1>3. {"FIELDS", "DATA", "item", "FIELDNAME", "WA"} \subseteq Names
  BY DEF Names
<1>4. PICK n \in Nat : n = Len(a.columns)
  BY RowsTypes
<1>5. PICK k \in Nat : k = Len(a.rows)
  BY RowsTypes
<1>6. \A i \in 1..n : a.columns[i] \in Seq(Characters)
  BY <1>4, RowsTypes
<1>7. \A i \in 1..n : F[i] \in Seq(Leaves) /\ Len(F[i]) = 1
  BY <1>3, <1>4, <1>6, OneLeaf
<1>8. \A r \in 1..k : D[r] \in Seq(Leaves) /\ Len(D[r]) = 1
  BY <1>3, <1>5, RowsTypes, OneLeaf
<1>9. F \in Seq(Seq(Leaves)) /\ Len(F) = n
  <2>1. F = [i \in 1..n |-> F[i]]
    BY <1>4
  <2> HIDE DEF F
  <2> QED BY <2>1, <1>7
<1>10. D \in Seq(Seq(Leaves)) /\ Len(D) = k
  <2>1. D = [r \in 1..k |-> D[r]]
    BY <1>5
  <2> HIDE DEF D
  <2> QED BY <2>1, <1>8
<1> HIDE DEF F, D, w
<1>11. PICK S1 \in Sections : S1 = Section("FIELDS", "item", F) /\ S1.name = "FIELDS" /\ S1.items = F
  BY <1>3, <1>9, SectionIs
<1>12. PICK S2 \in Sections : S2 = Section("DATA", "item", D) /\ S2.name = "DATA" /\ S2.items = D
  BY <1>3, <1>10, SectionIs
<1>13. ss = <<S1, S2>>
  BY <1>11, <1>12
<1> HIDE DEF ss
<1>14. ss \in Seq(Sections) /\ Len(ss) = 2 /\ ss[1] = S1 /\ ss[2] = S2
  BY <1>13
<1>15. \A i, j \in 1..Len(ss) : ss[i].name = ss[j].name => i = j
  BY <1>11, <1>12, <1>14
<1>16. \A s \in 1..Len(ss) : \A m \in 1..Len(ss[s].items) : Len(ss[s].items[m]) = 1
  BY <1>7, <1>8, <1>9, <1>10, <1>11, <1>12, <1>14
<1>17. \A s \in 1..Len(ss) : \A m \in 1..Len(ss[s].items) :
          \A i, j \in 1..Len(ss[s].items[m]) :
             ss[s].items[m][i].name = ss[s].items[m][j].name => i = j
  BY <1>16
<1>18. Len(w) <= 3 /\ Len(w) # 0 /\ Len(ss) >= 1
  BY <1>2, <1>14
<1>19. IsDocument(Within(w, ss))
  BY <1>2, <1>14, <1>15, <1>17, <1>18, Documented, Zenon
<1> QED BY <1>1, <1>19

LEMMA OneSection ==
    ASSUME NEW w \in Seq(Names), Len(w) <= 3, NEW n \in Names, NEW tag \in Names,
           NEW items \in Seq(Seq(Leaves)),
           \A m \in 1..Len(items) : \A i, j \in 1..Len(items[m]) :
              items[m][i].name = items[m][j].name => i = j
    PROVE  IsDocument(Within(w, <<Section(n, tag, items)>>))
<1>1. PICK s \in Sections : s = Section(n, tag, items) /\ s.items = items
  BY SectionIs
<1> DEFINE ss == <<s>>
<1>2. ss \in Seq(Sections) /\ Len(ss) = 1 /\ ss[1] = s
  OBVIOUS
<1> HIDE DEF ss
<1>3. \A i, j \in 1..Len(ss) : ss[i].name = ss[j].name => i = j
  BY <1>2
<1>4. \A x \in 1..Len(ss) : \A m \in 1..Len(ss[x].items) :
          \A i, j \in 1..Len(ss[x].items[m]) :
             ss[x].items[m][i].name = ss[x].items[m][j].name => i = j
  BY <1>1, <1>2
<1>5. Len(ss) >= 1
  BY <1>2
<1>6. IsDocument(Within(w, ss))
  BY <1>2, <1>3, <1>4, <1>5, Documented, Zenon
<1> QED BY <1>1, <1>6 DEF ss

LEMMA TableDocument ==
    ASSUME NEW a \in SoapAnswers, a.kind = "table"
    PROVE  IsDocument(Document(a))
<1> DEFINE w == <<"Envelope", "Body", "Response">>
           M == [i \in 1..Len(a.types) |-> Message(a.types[i], <<"m">>)]
<1>1. Document(a) = Within(w, <<Section("RETURN", "item", M)>>)
  BY Zenon DEF Document
<1>2. w \in Seq(Names) /\ Len(w) <= 3
  BY DEF Names
<1>3. PICK k \in Nat : a.types \in [1..k -> Types]
  BY AnswerKinds
<1>4. <<"m">> \in Seq(Characters)
  <2>1. "m" \in Characters
    BY DEF Characters
  <2> QED BY <2>1
<1>5. Len(a.types) = k
  BY <1>3
<1>6. \A i \in 1..k : a.types[i] \in Seq(Characters)
  BY <1>3, TypeTexts
<1>7. \A i \in 1..k : /\ M[i] \in Seq(Leaves) /\ Len(M[i]) = 2
                      /\ M[i][1].name = "TYPE" /\ M[i][2].name = "MESSAGE"
  BY <1>4, <1>5, <1>6, TwoLeaves
<1>8. M = [i \in 1..k |-> M[i]]
  BY <1>5
<1> HIDE DEF M, w
<1>9. M \in Seq(Seq(Leaves)) /\ Len(M) = k
  BY <1>7, <1>8
<1>10. ASSUME NEW m \in 1..Len(M) PROVE \A i, j \in 1..Len(M[m]) : M[m][i].name = M[m][j].name => i = j
  <2>1. PICK y : y = M[m]
    OBVIOUS
  <2>2. Len(y) = 2 /\ y[1].name = "TYPE" /\ y[2].name = "MESSAGE"
    BY <1>7, <1>9, <2>1
  <2>3. \A i, j \in 1..Len(y) : y[i].name = y[j].name => i = j
    BY <2>2
  <2> QED BY <2>1, <2>3
<1>11. {"RETURN", "item"} \subseteq Names
  BY DEF Names
<1> QED BY <1>1, <1>2, <1>9, <1>10, <1>11, OneSection

LEMMA StructureDocument ==
    ASSUME NEW a \in SoapAnswers, a.kind = "structure"
    PROVE  IsDocument(Document(a))
<1> DEFINE w == <<"Envelope", "Body">>
           x == Message(a.types[1], <<>>)
           M == <<x>>
<1>1. Document(a) = Within(w, <<Section("Response", "RETURN", M)>>)
  <2>1. ~(a.kind = "rows") /\ ~(a.kind = "table")
    OBVIOUS
  <2> QED BY <2>1, Zenon DEF Document
<1>2. w \in Seq(Names) /\ Len(w) <= 3
  BY DEF Names
<1>3. a.types \in [1..1 -> Types]
  BY AnswerKinds
<1>4. a.types[1] \in Seq(Characters) /\ <<>> \in Seq(Characters)
  BY <1>3, TypeTexts
<1>7. /\ x \in Seq(Leaves) /\ Len(x) = 2
      /\ x[1].name = "TYPE" /\ x[2].name = "MESSAGE"
  BY <1>4, TwoLeaves
<1> HIDE DEF x, w
<1>9. M \in Seq(Seq(Leaves)) /\ Len(M) = 1 /\ M[1] = x
  BY <1>7
<1> HIDE DEF M
<1>10. \A m \in 1..Len(M) : \A i, j \in 1..Len(M[m]) : M[m][i].name = M[m][j].name => i = j
  BY <1>7, <1>9
<1>11. {"Response", "RETURN"} \subseteq Names
  BY DEF Names
<1> QED BY <1>1, <1>2, <1>9, <1>10, <1>11, OneSection

LEMMA FaultDocument ==
    ASSUME NEW a \in SoapAnswers, a.kind = "fault"
    PROVE  IsDocument(Document(a))
<1> DEFINE w == <<"Envelope">>
           x == <<Leaf("faultstring", <<"f">>)>>
           M == <<x>>
<1>1. Document(a) = Within(w, <<Section("Body", "Fault", M)>>)
  <2>1. ~(a.kind = "rows") /\ ~(a.kind = "table") /\ ~(a.kind = "structure")
    OBVIOUS
  <2> QED BY <2>1, Zenon DEF Document
<1>2. w \in Seq(Names) /\ Len(w) <= 3
  BY DEF Names
<1>4. <<"f">> \in Seq(Characters)
  <2>1. "f" \in Characters
    BY DEF Characters
  <2> QED BY <2>1
<1>11. {"Body", "Fault", "faultstring"} \subseteq Names
  BY DEF Names
<1>7. x \in Seq(Leaves) /\ Len(x) = 1
  BY <1>4, <1>11, OneLeaf
<1> HIDE DEF x, w
<1>9. M \in Seq(Seq(Leaves)) /\ Len(M) = 1 /\ M[1] = x
  BY <1>7
<1> HIDE DEF M
<1>10. \A m \in 1..Len(M) : \A i, j \in 1..Len(M[m]) : M[m][i].name = M[m][j].name => i = j
  BY <1>7, <1>9
<1> QED BY <1>1, <1>2, <1>9, <1>10, <1>11, OneSection

LEMMA BareDocument ==
    ASSUME NEW a \in SoapAnswers, a.kind = "bare"
    PROVE  IsDocument(Document(a))
<1> DEFINE w == <<>>
           M == [i \in 1..a.elements |-> <<>>]
<1>1. Document(a) = Within(w, <<Section("Envelope", a.tag, M)>>)
  <2>1. ~(a.kind = "rows") /\ ~(a.kind = "table") /\ ~(a.kind = "structure") /\ ~(a.kind = "fault")
    OBVIOUS
  <2> QED BY <2>1, Zenon DEF Document
<1>2. w \in Seq(Names) /\ Len(w) <= 3
  OBVIOUS
<1>3. a.tag \in {"Header", "Body"} /\ a.elements \in Nat
  BY AnswerKinds
<1>4. <<>> \in Seq(Leaves) /\ Len(<<>>) = 0
  OBVIOUS
<1>9. M \in Seq(Seq(Leaves)) /\ \A m \in 1..Len(M) : M[m] = <<>>
  <2>1. PICK n \in Nat : n = a.elements
    BY <1>3
  <2>2. M = [i \in 1..n |-> M[i]] /\ \A i \in 1..n : M[i] = <<>>
    BY <2>1
  <2> HIDE DEF M
  <2>3. \A i \in 1..n : M[i] \in Seq(Leaves)
    BY <1>4, <2>2
  <2>4. M \in [1..n -> Seq(Leaves)]
    BY ONLY <2>2, <2>3
  <2>5. M \in Seq(Seq(Leaves)) /\ Len(M) = n
    BY ONLY <2>1, <2>4
  <2> QED BY <2>2, <2>5
<1> HIDE DEF M, w
<1>10. \A m \in 1..Len(M) : \A i, j \in 1..Len(M[m]) : M[m][i].name = M[m][j].name => i = j
  BY <1>4, <1>9
<1>11. "Envelope" \in Names /\ a.tag \in Names
  BY <1>3 DEF Names
<1> QED BY <1>1, <1>2, <1>9, <1>10, <1>11, OneSection

LEMMA AnswersAreDocuments ==
    ASSUME NEW a \in SoapAnswers, a.kind # "deep"
    PROVE  IsDocument(Document(a))
BY AnswerKinds, RowsDocument, TableDocument, StructureDocument, FaultDocument, BareDocument

-----------------------------------------------------------------------------
(* One step of the parser.                                                 *)

AtRead == /\ ~cut /\ IsDocument(Doc) /\ PlaceAt(Doc, place) /\ stack = Frames(Doc, place)

LEMMA AtReadTypes ==
    ASSUME AtRead
    PROVE  /\ Outside = Len(Doc.wrappers) /\ Outside \in Nat /\ Outside <= 3
           /\ place \in Places /\ place.open \in Nat /\ place.open <= Outside + 3
           /\ place.section \in Nat /\ place.section <= Len(Doc.sections) /\ Len(Doc.sections) \in Nat
           /\ Len(stack) = place.open
           /\ place.open > 0 => stack[place.open] = FrameAt(Doc, place, place.open)
<1>1. IsDocument(Doc) /\ PlaceAt(Doc, place)
  BY DEF AtRead
<1>2. /\ Len(Doc.wrappers) \in Nat /\ Len(Doc.wrappers) <= 3 /\ Len(Doc.sections) \in Nat
      /\ place.open \in Nat /\ place.section \in Nat
  BY <1>1, DocumentTypes
<1>3. place \in Places /\ place.open <= Len(Doc.wrappers) + 3 /\ place.section <= Len(Doc.sections)
  BY <1>1 DEF PlaceAt
<1>4. Len(stack) = place.open /\ (place.open > 0 => stack[place.open] = FrameAt(Doc, place, place.open))
  <2>1. stack = Frames(Doc, place)
    BY DEF AtRead
  <2>2. Len(Frames(Doc, place)) = place.open
    BY <1>2, StackIsSeq
  <2>3. \A k \in 1..place.open : Frames(Doc, place)[k] = FrameAt(Doc, place, k)
    BY <1>2, StackIsSeq
  <2>4. place.open > 0 => place.open \in 1..place.open
    BY <1>2
  <2> QED BY <2>1, <2>2, <2>3, <2>4
<1> QED BY <1>2, <1>3, <1>4 DEF Outside

LEMMA ElementIs ==
    ASSUME NEW n, NEW c
    PROVE  /\ Element(n, c).name = n
           /\ Element(n, c).ev \in {"start", "empty"}
           /\ Element(n, c).ev = "empty" <=> c = <<>>
BY DEF Element

\* Where an element begins.
LEMMA ElementComes ==
    ASSUME AtRead, Coming.ev \in {"start", "empty"}
    PROVE  LET o == place.open IN
           \/ o < Outside /\ place.section = 0
           \/ o = Outside /\ place.section < Len(Doc.sections)
           \/ o = Outside + 1 /\ place.item < Len(Doc.sections[place.section].items)
           \/ o = Outside + 2 /\ place.leaf < Len(Doc.sections[place.section].items[place.item])
<1>1. ~cut
  BY DEF AtRead
<1> DEFINE e == [ev |-> IF place.open > 0 THEN "end" ELSE "eof"]
           x == [ev |-> "text", text |-> ThisItem[place.leaf].text]
<1>2. e.ev \notin {"start", "empty"}
  OBVIOUS
<1>3. x.ev \notin {"start", "empty"}
  OBVIOUS
<1> SUFFICES ASSUME /\ ~(place.open < Outside /\ place.section = 0)
                    /\ ~(place.open = Outside /\ place.section < Len(Doc.sections))
                    /\ ~(place.open = Outside + 1 /\ place.item < Len(Doc.sections[place.section].items))
                    /\ ~(place.open = Outside + 2 /\ place.leaf < Len(Doc.sections[place.section].items[place.item]))
             PROVE  FALSE
  BY Zenon
<1>4. Coming = IF place.open = Outside + 3 /\ ~place.said THEN x ELSE e
  BY <1>1, Zenon DEF Coming, ThisSection, ThisItem
<1> HIDE DEF e, x
<1> QED BY <1>2, <1>3, <1>4

LEMMA StartStep ==
    ASSUME AtRead, Coming.ev = "start"
    PROVE  /\ PlaceAt(Doc, Behind) /\ Append(stack, Frame(Coming.name)) = Frames(Doc, Behind)
           /\ Len(stack) + 1 <= 6
<1>1. /\ ~cut /\ IsDocument(Doc) /\ PlaceAt(Doc, place) /\ stack = Frames(Doc, place)
  BY DEF AtRead
<1>w. PICK W \in Nat : W = Outside /\ W = Len(Doc.wrappers) /\ W <= 3
  BY AtReadTypes
<1>2. place \in Places /\ place.open \in Nat /\ Len(stack) = place.open
  BY AtReadTypes
<1>3. /\ Behind \in Places /\ Behind.open = place.open + 1 /\ ~Behind.said
      /\ place.open # W => Behind.section = place.section
      /\ place.open = W => Behind.section = place.section + 1 /\ Behind.item = 0
      /\ place.open = W + 1 => Behind.item = place.item + 1 /\ Behind.leaf = 0
      /\ place.open = W + 2 => Behind.item = place.item /\ Behind.leaf = place.leaf + 1
  BY <1>2, <1>w, BehindIs
<1> HIDE DEF Behind, Doc
<1>4. CASE place.open < W /\ place.section = 0
  <2>1. Coming = [ev |-> "start", name |-> Doc.wrappers[place.open + 1]]
    BY <1>1, <1>4, <1>w, ComingIs
  <2>2. Coming.name = Doc.wrappers[place.open + 1]
    BY <2>1
  <2>3. Behind.section = 0 /\ place.open < Len(Doc.wrappers)
    BY <1>3, <1>4, <1>w, <1>2
  <2>4. PlaceAt(Doc, Behind) /\ Append(Frames(Doc, place), Frame(Doc.wrappers[place.open + 1])) = Frames(Doc, Behind)
    BY <1>1, <1>3, <1>4, <2>3, Descend
  <2> QED BY <2>2, <2>4, <1>1, <1>2, <1>4, <1>w
<1>5. CASE place.open = W /\ place.section < Len(Doc.sections)
  <2> DEFINE s == Doc.sections[place.section + 1]
  <2>1. Coming = Element(s.name, s.items)
    BY <1>1, <1>5, <1>w, ComingIs
  <2>2. Coming.name = s.name /\ s.items # <<>>
    BY <2>1, ElementIs
  <2>3. place.open = Len(Doc.wrappers)
    BY <1>5, <1>w
  <2>4. PlaceAt(Doc, Behind) /\ Append(Frames(Doc, place), Frame(s.name)) = Frames(Doc, Behind)
    BY <1>1, <1>3, <1>5, <2>2, <2>3, OpenSection
  <2> QED BY <2>2, <2>4, <1>1, <1>2, <1>5, <1>w
<1>6. CASE place.open = W + 1 /\ place.item < Len(Doc.sections[place.section].items)
  <2> DEFINE s == Doc.sections[place.section]
  <2>1. Coming = Element(s.tag, s.items[place.item + 1])
    BY <1>1, <1>6, <1>w, ComingIs
  <2>2. Coming.name = s.tag /\ s.items[place.item + 1] # <<>>
    BY <2>1, ElementIs
  <2>3. place.open = Len(Doc.wrappers) + 1 /\ place.open # W
    BY <1>6, <1>w
  <2>4. PlaceAt(Doc, Behind) /\ Append(Frames(Doc, place), Frame(s.tag)) = Frames(Doc, Behind)
    BY <1>1, <1>3, <1>6, <2>2, <2>3, OpenItem
  <2> QED BY <2>2, <2>4, <1>1, <1>2, <1>6, <1>w
<1>7. CASE place.open = W + 2 /\ place.leaf < Len(Doc.sections[place.section].items[place.item])
  <2> DEFINE l == Doc.sections[place.section].items[place.item][place.leaf + 1]
  <2>1. Coming = Element(l.name, l.text)
    BY <1>1, <1>7, <1>w, ComingIs
  <2>2. Coming.name = l.name /\ l.text # <<>>
    BY <2>1, ElementIs
  <2>3. place.open = Len(Doc.wrappers) + 2 /\ place.open # W
    BY <1>7, <1>w
  <2>4. PlaceAt(Doc, Behind) /\ Append(Frames(Doc, place), Frame(l.name)) = Frames(Doc, Behind)
    BY <1>1, <1>3, <1>7, <2>2, <2>3, OpenLeaf
  <2>5. Len(stack) + 1 <= 6
    BY <1>2, <1>7, <1>w
  <2>6. Append(stack, Frame(Coming.name)) = Frames(Doc, Behind)
    BY <2>2, <2>4, <1>1, Zenon
  <2> QED BY <2>4, <2>5, <2>6
<1> QED BY <1>4, <1>5, <1>6, <1>7, <1>w, ElementComes

LEMMA EmptyStep ==
    ASSUME AtRead, Coming.ev = "empty"
    PROVE  /\ PlaceAt(Doc, Behind)
           /\ (IF stack = <<>> THEN <<>>
               ELSE [stack EXCEPT ![Len(stack)] = Child(@, Coming.name, Str(<<>>))]) = Frames(Doc, Behind)
<1>1. /\ ~cut /\ IsDocument(Doc) /\ PlaceAt(Doc, place) /\ stack = Frames(Doc, place)
  BY DEF AtRead
<1>w. PICK W \in Nat : W = Outside /\ W = Len(Doc.wrappers) /\ W <= 3
  BY AtReadTypes
<1>2. /\ place \in Places /\ place.open \in Nat /\ Len(stack) = place.open
      /\ place.open > 0 => stack[place.open] = FrameAt(Doc, place, place.open)
  BY AtReadTypes
<1>3. /\ Behind \in Places /\ Behind.open = place.open /\ ~Behind.said
      /\ place.open # W => Behind.section = place.section
      /\ place.open = W => Behind.section = place.section + 1 /\ Behind.item = 0
      /\ place.open = W + 1 => Behind.item = place.item + 1 /\ Behind.leaf = 0
      /\ place.open = W + 2 => Behind.item = place.item /\ Behind.leaf = place.leaf + 1
  BY <1>2, <1>w, BehindIs
<1> HIDE DEF Behind, Doc
<1>8. stack = <<>> <=> place.open = 0
  BY <1>1, <1>2, StackIsSeq
<1>9. place.open > 0 => [stack EXCEPT ![Len(stack)] = Child(@, Coming.name, Str(<<>>))] = ReadEmpty(Doc, place, Coming.name)
  <2> HIDE DEF Child, Str, FrameAt
  <2> QED BY <1>1, <1>2 DEF ReadEmpty
<1>10. ASSUME NEW n, place.open > 0, Coming.name = n, ReadEmpty(Doc, place, n) = Frames(Doc, Behind)
       PROVE  (IF stack = <<>> THEN <<>>
               ELSE [stack EXCEPT ![Len(stack)] = Child(@, Coming.name, Str(<<>>))]) = Frames(Doc, Behind)
  <2>1. stack # <<>>
    BY <1>8, <1>10
  <2>2. [stack EXCEPT ![Len(stack)] = Child(@, Coming.name, Str(<<>>))] = Frames(Doc, Behind)
    BY <1>9, <1>10, Zenon
  <2> QED BY <2>1, <2>2, Zenon
<1>4. CASE place.open < W /\ place.section = 0
  <2>1. Coming = [ev |-> "start", name |-> Doc.wrappers[place.open + 1]]
    BY <1>1, <1>4, <1>w, ComingIs
  <2> QED BY <2>1
<1>5. CASE place.open = W /\ place.section < Len(Doc.sections)
  <2> DEFINE s == Doc.sections[place.section + 1]
  <2>1. Coming = Element(s.name, s.items)
    BY <1>1, <1>5, <1>w, ComingIs
  <2>2. Coming.name = s.name /\ s.items = <<>>
    BY <2>1, ElementIs
  <2>3. place.open = Len(Doc.wrappers)
    BY <1>5, <1>w
  <2>4. /\ PlaceAt(Doc, Behind)
        /\ place.open # 0 => ReadEmpty(Doc, place, s.name) = Frames(Doc, Behind)
    BY <1>1, <1>3, <1>5, <2>2, <2>3, EmptySection
  <2>5. place.open = 0 => Frames(Doc, Behind) = <<>>
    BY <1>3 DEF Frames
  <2>6. CASE place.open = 0
    BY <2>4, <2>5, <2>6, <1>8
  <2>7. CASE place.open # 0
    <3>1. place.open > 0
      BY <2>7, <1>2
    <3> QED BY <3>1, <2>2, <2>4, <2>7, <1>10, Zenon
  <2> QED BY <2>6, <2>7
<1>6. CASE place.open = W + 1 /\ place.item < Len(Doc.sections[place.section].items)
  <2> DEFINE s == Doc.sections[place.section]
  <2>1. Coming = Element(s.tag, s.items[place.item + 1])
    BY <1>1, <1>6, <1>w, ComingIs
  <2>2. Coming.name = s.tag /\ s.items[place.item + 1] = <<>>
    BY <2>1, ElementIs
  <2>3. place.open = Len(Doc.wrappers) + 1 /\ place.open # W /\ place.open > 0
    BY <1>6, <1>w
  <2>4. PlaceAt(Doc, Behind) /\ ReadEmpty(Doc, place, s.tag) = Frames(Doc, Behind)
    BY <1>1, <1>3, <1>6, <2>2, <2>3, EmptyItem
  <2> QED BY <2>2, <2>3, <2>4, <1>10, Zenon
<1>7. CASE place.open = W + 2 /\ place.leaf < Len(Doc.sections[place.section].items[place.item])
  <2> DEFINE l == Doc.sections[place.section].items[place.item][place.leaf + 1]
  <2>1. Coming = Element(l.name, l.text)
    BY <1>1, <1>7, <1>w, ComingIs
  <2> HIDE DEF l
  <2>2. Coming.name = l.name /\ l.text = <<>>
    BY <2>1, ElementIs
  <2>3. place.open = Len(Doc.wrappers) + 2 /\ place.open # W /\ place.open > 0
    BY <1>7, <1>w
  <2>4. PlaceAt(Doc, Behind) /\ ReadEmpty(Doc, place, l.name) = Frames(Doc, Behind)
    BY <1>1, <1>3, <1>7, <2>2, <2>3, EmptyLeaf DEF l
  <2> QED BY <2>2, <2>3, <2>4, <1>10, Zenon
<1> QED BY <1>4, <1>5, <1>6, <1>7, <1>w, ElementComes

\* Where a text comes, and where an end.
LEMMA TextComes ==
    ASSUME AtRead, Coming.ev = "text"
    PROVE  place.open = Outside + 3 /\ ~place.said
<1>1. ~cut
  BY DEF AtRead
<1> DEFINE e == [ev |-> IF place.open > 0 THEN "end" ELSE "eof"]
           w == [ev |-> "start", name |-> Doc.wrappers[place.open + 1]]
<1>2. e.ev # "text" /\ w.ev # "text"
  OBVIOUS
<1>3. \A n, c : Element(n, c).ev # "text"
  BY DEF Element
<1> SUFFICES ASSUME ~(place.open = Outside + 3 /\ ~place.said) PROVE FALSE
  BY Zenon
<1>4. Coming = w \/ Coming = e \/ \E n, c : Coming = Element(n, c)
  <2> HIDE DEF e, w
  <2>1. \/ Coming = w
        \/ Coming = Element(Doc.sections[place.section + 1].name, Doc.sections[place.section + 1].items)
        \/ Coming = Element(ThisSection.tag, ThisSection.items[place.item + 1])
        \/ Coming = Element(ThisItem[place.leaf + 1].name, ThisItem[place.leaf + 1].text)
        \/ Coming = e
    BY <1>1, Zenon DEF Coming, e, w
  <2> QED BY <2>1, Zenon
<1> HIDE DEF e, w
<1> QED BY <1>2, <1>3, <1>4

LEMMA TextStep ==
    ASSUME AtRead, Coming.ev = "text"
    PROVE  /\ PlaceAt(Doc, Behind)
           /\ [stack EXCEPT ![Len(stack)].text = @ \o Coming.text] = Frames(Doc, Behind)
<1>1. /\ ~cut /\ IsDocument(Doc) /\ PlaceAt(Doc, place) /\ stack = Frames(Doc, place)
  BY DEF AtRead
<1>w. PICK W \in Nat : W = Outside /\ W = Len(Doc.wrappers) /\ W <= 3
  BY AtReadTypes
<1>2. /\ place \in Places /\ place.open \in Nat /\ Len(stack) = place.open
  BY AtReadTypes
<1>3. place.open = W + 3 /\ ~place.said
  BY <1>w, TextComes
<1>4. place.open > W + 1 /\ place.open > W + 2
  BY <1>3
<1>5. /\ Behind \in Places /\ Behind.open = place.open /\ Behind.said
      /\ Behind.section = place.section /\ Behind.item = place.item /\ Behind.leaf = place.leaf
  BY <1>2, <1>w, <1>4, BehindIs
<1> HIDE DEF Behind, Doc
<1> DEFINE t == Doc.sections[place.section].items[place.item][place.leaf].text
<1>6. Coming = [ev |-> "text", text |-> t]
  BY <1>1, <1>3, <1>w, ComingIs
<1>7. Coming.text = t
  <2> HIDE DEF t
  <2> QED BY <1>6
<1>8. PlaceAt(Doc, Behind) /\ ReadMore(Doc, place, t) = Frames(Doc, Behind)
  BY <1>1, <1>3, <1>w, <1>5, TextRead
<1> HIDE DEF t
<1>9. [stack EXCEPT ![Len(stack)].text = @ \o Coming.text] = ReadMore(Doc, place, t)
  BY <1>1, <1>2, <1>7 DEF ReadMore
<1> QED BY <1>8, <1>9

LEMMA ClosedFrames ==
    ASSUME NEW d, NEW p, NEW q, p.open \in Nat, p.open > 1, q.open = p.open - 1,
           Len(d.wrappers) \in Nat, Closes(d, p, q)
    PROVE  [SubSeq(Frames(d, p), 1, p.open - 1) EXCEPT ![p.open - 1] =
              Child(@, FrameAt(d, p, p.open).name, FrameValue(FrameAt(d, p, p.open)))] = Frames(d, q)
<1>1. FrameAt(d, q, q.open)
        = Child(FrameAt(d, p, q.open), FrameAt(d, p, p.open).name, FrameValue(FrameAt(d, p, p.open)))
  BY DEF Closes
<1>2. \A k \in 1..(q.open - 1) : Agree(d, p, q, k)
  BY DEF Closes
<1>3. SubSeq(Frames(d, p), 1, p.open - 1)[p.open - 1] = FrameAt(d, p, p.open - 1)
  <2> DEFINE S == {FrameAt(d, p, k) : k \in 1..p.open}
  <2>1. Frames(d, p) \in Seq(S) /\ Len(Frames(d, p)) = p.open
    BY StackIsSeq, Zenon
  <2>2. Frames(d, p)[p.open - 1] = FrameAt(d, p, p.open - 1)
    <3>1. p.open - 1 \in 1..p.open
      OBVIOUS
    <3>2. \A k \in 1..p.open : Frames(d, p)[k] = FrameAt(d, p, k)
      BY StackIsSeq
    <3> QED BY <3>1, <3>2
  <2> HIDE DEF Frames, FrameAt, S
  <2>3. SubSeq(Frames(d, p), 1, p.open - 1)[p.open - 1] = Frames(d, p)[1 + (p.open - 1) - 1]
    BY <2>1
  <2>4. 1 + (p.open - 1) - 1 = p.open - 1
    OBVIOUS
  <2> QED BY <2>2, <2>3, <2>4
<1>4. [SubSeq(Frames(d, p), 1, p.open - 1) EXCEPT ![p.open - 1] = FrameAt(d, q, q.open)] = Frames(d, q)
  BY <1>2, Popped
<1> QED BY <1>1, <1>3, <1>4

LEMMA EndStep ==
    ASSUME AtRead, stack # <<>>, Coming.ev \in {"end", "eof"}
    PROVE  LET n == Len(stack)
               f == stack[n]
           IN  /\ n = 1 => FrameValue(f) = RootValue(Doc) /\ ~Hollow(Doc)
               /\ n # 1 => /\ PlaceAt(Doc, Behind)
                           /\ [SubSeq(stack, 1, n - 1) EXCEPT ![n - 1] = Child(@, f.name, FrameValue(f))]
                                = Frames(Doc, Behind)
<1>1. /\ ~cut /\ IsDocument(Doc) /\ PlaceAt(Doc, place) /\ stack = Frames(Doc, place)
  BY DEF AtRead
<1>w. PICK W \in Nat : W = Outside /\ W = Len(Doc.wrappers) /\ W <= 3
  BY AtReadTypes
<1>2. /\ place \in Places /\ place.open \in Nat /\ Len(stack) = place.open /\ place.open <= W + 3
      /\ place.open > 0 => stack[place.open] = FrameAt(Doc, place, place.open)
  BY <1>w, AtReadTypes
<1>3. place.open > 0
  <2>1. place.open = 0 => Frames(Doc, place) = <<>>
    BY DEF Frames
  <2> QED BY <2>1, <1>1, <1>2
<1>4. Coming.ev = "end"
  <2> DEFINE e == [ev |-> IF place.open > 0 THEN "end" ELSE "eof"]
             w == [ev |-> "start", name |-> Doc.wrappers[place.open + 1]]
             x == [ev |-> "text", text |-> ThisItem[place.leaf].text]
  <2>1. e.ev = "end" /\ w.ev # "eof" /\ x.ev # "eof"
    BY <1>3
  <2>2. \A n, c : Element(n, c).ev # "eof"
    BY DEF Element
  <2> HIDE DEF e, w, x
  <2>3. \/ Coming = w
        \/ Coming = Element(Doc.sections[place.section + 1].name, Doc.sections[place.section + 1].items)
        \/ Coming = Element(ThisSection.tag, ThisSection.items[place.item + 1])
        \/ Coming = Element(ThisItem[place.leaf + 1].name, ThisItem[place.leaf + 1].text)
        \/ Coming = x
        \/ Coming = e
    BY <1>1, Zenon DEF Coming, e, w, x
  <2> QED BY <2>1, <2>2, <2>3
<1>5. /\ place.open <= W => place.section = Len(Doc.sections)
      /\ place.open = W + 1 => place.item = Len(Doc.sections[place.section].items)
      /\ place.open = W + 2 => place.leaf = Len(Doc.sections[place.section].items[place.item])
      /\ place.open = W + 3 => place.said
  BY <1>1, <1>4, <1>w, EndComes
<1>6. /\ Behind \in Places /\ Behind.open = place.open - 1 /\ ~Behind.said
      /\ Behind.section = place.section
      /\ place.open > W + 1 => Behind.item = place.item
      /\ place.open > W + 2 => Behind.leaf = place.leaf
  BY <1>2, <1>3, <1>4, <1>w, BehindIs
<1> HIDE DEF Behind, Doc
<1>7. CASE place.open = 1
  <2>1. stack[1] = FrameAt(Doc, place, place.open)
    BY <1>2, <1>7
  <2>2. CASE W = 0
    <3>1. place.open = Len(Doc.wrappers) + 1
      BY <1>7, <2>2, <1>w
    <3>2. FrameValue(FrameAt(Doc, place, place.open)) = SectionValue(Doc.sections[place.section])
      BY <1>1, <3>1, <1>5, <1>w, SectionRead
    <3>3. InSection(Doc, place) /\ Len(Doc.sections) = 1
      BY <1>1, <1>w, <2>2, <3>1 DEF PlaceAt, IsDocument
    <3>4. place.section = 1 /\ Doc.sections[1].items # <<>>
      BY <3>3 DEF InSection
    <3>5. Doc.wrappers = <<>>
      BY <1>1, <2>2, <1>w DEF IsDocument
    <3>6. RootValue(Doc) = SectionValue(Doc.sections[1])
      BY <3>5, Zenon DEF RootValue
    <3>7. ~Hollow(Doc)
      BY <3>4 DEF Hollow
    <3>8. FrameValue(stack[1]) = RootValue(Doc)
      BY <2>1, <3>2, <3>4, <3>6
    <3> QED BY <1>2, <1>7, <3>7, <3>8
  <2>3. CASE W # 0
    <3>1. place.open \in 1..Len(Doc.wrappers) /\ place.section = Len(Doc.sections)
      BY <1>7, <2>3, <1>w, <1>5
    <3>2. FrameValue(FrameAt(Doc, place, place.open)) = WrapperValue(Doc, place.open)
      BY <1>1, <3>1, WrapperRead
    <3>5. Doc.wrappers # <<>>
      BY <2>3, <1>w
    <3>6. RootValue(Doc) = WrapperValue(Doc, 1)
      BY <3>5, Zenon DEF RootValue
    <3>7. ~Hollow(Doc)
      BY <2>3, <1>w DEF Hollow
    <3>8. FrameValue(stack[1]) = RootValue(Doc)
      BY <2>1, <3>2, <3>6, <1>7
    <3> QED BY <1>2, <1>7, <3>7, <3>8
  <2> QED BY <2>2, <2>3
<1>8. CASE place.open # 1
  <2>1. Closes(Doc, place, Behind)
    <3>1. CASE place.open <= W
      <4>1. place.open \in 1..Len(Doc.wrappers) /\ place.section = Len(Doc.sections)
        BY <1>2, <1>3, <3>1, <1>w, <1>5
      <4> QED BY <4>1, <1>1, <1>6, <1>8, CloseWrapper
    <3>2. CASE place.open = W + 1
      BY <1>1, <1>5, <1>6, <1>8, <1>w, <3>2, CloseSection
    <3>3. CASE place.open = W + 2
      <4>1. place.open > W + 1
        BY <3>3
      <4> QED BY <4>1, <1>1, <1>5, <1>6, <1>w, <3>3, CloseItem
    <3>4. CASE place.open = W + 3
      <4>1. place.open > W + 1 /\ place.open > W + 2
        BY <3>4
      <4> QED BY <4>1, <1>1, <1>5, <1>6, <1>w, <3>4, CloseLeaf
    <3> QED BY <3>1, <3>2, <3>3, <3>4, <1>2
  <2>2. PlaceAt(Doc, Behind)
    BY <2>1 DEF Closes
  <2>3. place.open > 1 /\ Len(Doc.wrappers) \in Nat
    BY <1>2, <1>3, <1>8, <1>w
  <2>4. [SubSeq(Frames(Doc, place), 1, place.open - 1) EXCEPT ![place.open - 1] =
           Child(@, FrameAt(Doc, place, place.open).name, FrameValue(FrameAt(Doc, place, place.open)))]
          = Frames(Doc, Behind)
    BY <1>2, <1>6, <2>1, <2>3, ClosedFrames
  <2>5. stack[Len(stack)] = FrameAt(Doc, place, place.open)
    BY <1>2, <1>3
  <2>6. [SubSeq(stack, 1, Len(stack) - 1) EXCEPT ![Len(stack) - 1] =
           Child(@, stack[Len(stack)].name, FrameValue(stack[Len(stack)]))] = Frames(Doc, Behind)
    BY <1>1, <1>2, <2>4, <2>5, Zenon
  <2> QED BY <2>2, <2>6, <1>2, <1>8
<1> QED BY <1>7, <1>8

-----------------------------------------------------------------------------
(* The invariant.                                                          *)

LEMMA ReadIsOver ==
    ASSUME NEW d
    PROVE  RootValue(d).kind \in {"str", "obj"}
<1>1. \A s : SectionValue(s).kind \in {"str", "obj"}
  BY DEF SectionValue, Str, Obj
<1>2. WrapperValue(d, 1).kind = "obj"
  BY DEF WrapperValue, Obj
<1> QED BY <1>1, <1>2 DEF RootValue

\* A document of wrappers only, one more than the parser opens.
LEMMA DeepDocument ==
    ASSUME sent.kind = "deep", ~cut, place.section = 0, place.open \in 0..MaxDepth
    PROVE  Coming = [ev |-> "start", name |-> "A"] /\ Outside = MaxDepth + 1
<1>1. Doc = Within([i \in 1..(MaxDepth + 1) |-> "A"], <<>>)
  <2>1. /\ ~(sent.kind = "rows") /\ ~(sent.kind = "table") /\ ~(sent.kind = "structure")
        /\ ~(sent.kind = "fault") /\ ~(sent.kind = "bare")
    OBVIOUS
  <2> QED BY <2>1, Zenon DEF Doc, Document
<1>2. Doc.wrappers = [i \in 1..(MaxDepth + 1) |-> "A"]
  BY <1>1 DEF Within
<1>3. Outside = MaxDepth + 1
  BY <1>2, SoapBoundsAssumption DEF Outside
<1>4. place.open < Outside /\ Doc.wrappers[place.open + 1] = "A"
  BY <1>2, <1>3, SoapBoundsAssumption
<1> QED BY <1>3, <1>4, Zenon DEF Coming

LEMMA SoapInit == XmlInit => SoapInv
<1> SUFFICES ASSUME XmlInit PROVE SoapInv
  OBVIOUS
<1>1. /\ sent \in SoapAnswers /\ cut = FALSE /\ parsed = [kind |-> "none"] /\ stack = <<>>
      /\ place = [open |-> 0, section |-> 0, item |-> 0, leaf |-> 0, said |-> FALSE]
  BY DEF XmlInit
<1>2. place.open = 0 /\ place.section = 0 /\ ~place.said /\ place \in Places
  BY <1>1 DEF Places
<1>3. TooDeep
  BY <1>1, <1>2, SoapBoundsAssumption DEF TooDeep
<1>4. ASSUME sent.kind # "deep" PROVE ReadSoFar
  <2>1. IsDocument(Doc)
    BY <1>1, <1>4, AnswersAreDocuments DEF Doc
  <2>w. PICK W \in Nat : W = Len(Doc.wrappers)
    BY <2>1 DEF IsDocument
  <2>2. Len(Doc.sections) \in Nat
    BY <2>1 DEF IsDocument
  <2>3. PlaceAt(Doc, place)
    BY <1>2, <2>w, <2>2 DEF PlaceAt
  <2>4. Frames(Doc, place) = <<>>
    BY <1>2 DEF Frames
  <2> QED BY <1>1, <2>3, <2>4 DEF ReadSoFar
<1> QED BY <1>1, <1>3, <1>4 DEF SoapInv

LEMMA DeepStep ==
    ASSUME SoapInv, XmlNext, ~cut, ~cut', sent.kind = "deep", sent' = sent
    PROVE  TooDeep'
<1>1. TooDeep
  BY DEF SoapInv
<1>2. parsed.kind = "none"
  BY DEF XmlNext, CutOff, Start, Empty, ReadText, End, NoRoot, Reading
<1>3. place.section = 0 /\ place.open \in 0..MaxDepth /\ Len(stack) = place.open /\ parsed = [kind |-> "none"]
  BY <1>1, <1>2 DEF TooDeep
<1>4. Coming = [ev |-> "start", name |-> "A"]
  BY <1>3, DeepDocument
<1>5. Coming.ev = "start"
  BY <1>4
<1>6. Start
  BY <1>5 DEF XmlNext, CutOff, Empty, ReadText, End, NoRoot
<1>7. CASE Len(stack) + 1 > MaxDepth
  BY <1>6, <1>7 DEF Start, TooDeep
<1>8. CASE ~(Len(stack) + 1 > MaxDepth)
  <2>1. stack' = Append(stack, Frame(Coming.name)) /\ parsed' = parsed /\ place' = Behind
    BY <1>6, <1>8 DEF Start
  <2>2. Len(stack') = place.open + 1 /\ place.open + 1 <= MaxDepth
    BY <2>1, <1>3, <1>8, SoapBoundsAssumption
  <2>3. Behind.open = place.open + 1
    BY <1>5 DEF Behind
  <2>4. Behind.section = 0
    <3>1. Outside = MaxDepth + 1
      BY <1>3, DeepDocument
    <3> QED BY <3>1, <1>3, <1>5, SoapBoundsAssumption DEF Behind
  <2> QED BY <2>1, <2>2, <2>3, <2>4, <1>3, SoapBoundsAssumption DEF TooDeep
<1> QED BY <1>7, <1>8

LEMMA DocumentStep ==
    ASSUME SoapInv, XmlNext, ~cut, ~cut', sent.kind # "deep", sent' = sent
    PROVE  ReadSoFar'
<1>1. ReadSoFar /\ sent \in SoapAnswers
  BY DEF SoapInv
<1>2. parsed.kind = "none"
  BY DEF XmlNext, CutOff, Start, Empty, ReadText, End, NoRoot, Reading
<1>3. RootValue(Doc).kind # "none"
  BY ReadIsOver
<1>4. parsed = [kind |-> "none"] /\ PlaceAt(Doc, place) /\ stack = Frames(Doc, place)
  BY <1>1, <1>2, <1>3 DEF ReadSoFar
<1>5. IsDocument(Doc)
  BY <1>1, AnswersAreDocuments DEF Doc
<1>6. AtRead
  BY <1>4, <1>5 DEF AtRead
<1>7. Doc' = Doc
  BY DEF Doc
<1> DEFINE Going == parsed' = parsed /\ PlaceAt(Doc, place') /\ stack' = Frames(Doc, place')
<1>8. Going => ReadSoFar'
  BY <1>4, <1>7 DEF ReadSoFar
<1>9. CASE CutOff
  BY <1>9 DEF CutOff
<1>10. CASE Start
  <2>1. /\ PlaceAt(Doc, Behind) /\ Append(stack, Frame(Coming.name)) = Frames(Doc, Behind)
        /\ Len(stack) + 1 <= 6
    BY <1>6, <1>10, StartStep DEF Start
  <2>2. Len(stack) \in Nat
    BY <1>6, AtReadTypes
  <2>3. ~(Len(stack) + 1 > MaxDepth)
    BY <2>1, <2>2, SoapBoundsAssumption
  <2>4. place' = Behind /\ stack' = Append(stack, Frame(Coming.name)) /\ parsed' = parsed
    BY <1>10, <2>3 DEF Start
  <2> QED BY <2>1, <2>4, <1>8
<1>11. CASE Empty
  <2>1. Coming.ev = "empty" /\ place' = Behind /\ parsed' = parsed
    BY <1>11 DEF Empty
  <2>2. stack' = IF stack = <<>> THEN <<>>
                ELSE [stack EXCEPT ![Len(stack)] = Child(@, Coming.name, Str(<<>>))]
    BY <1>11 DEF Empty
  <2>3. PlaceAt(Doc, Behind) /\ stack' = Frames(Doc, Behind)
    BY <1>6, <2>1, <2>2, EmptyStep, Zenon
  <2> QED BY <2>1, <2>3, <1>8
<1>12. CASE ReadText
  <2>1. Coming.ev = "text" /\ place' = Behind /\ parsed' = parsed
    BY <1>12 DEF ReadText
  <2>2. stack' = [stack EXCEPT ![Len(stack)].text = @ \o Coming.text]
    BY <1>12 DEF ReadText
  <2>3. PlaceAt(Doc, Behind) /\ stack' = Frames(Doc, Behind)
    BY <1>6, <2>1, <2>2, TextStep, Zenon
  <2> QED BY <2>1, <2>3, <1>8
<1>13. CASE End
  <2> DEFINE n == Len(stack)
             f == stack[n]
  <2>1. stack # <<>> /\ Coming.ev \in {"end", "eof"} /\ place' = Behind
    BY <1>13, Zenon DEF End
  <2>2. /\ n = 1 => FrameValue(f) = RootValue(Doc) /\ ~Hollow(Doc)
        /\ n # 1 => /\ PlaceAt(Doc, Behind)
                    /\ [SubSeq(stack, 1, n - 1) EXCEPT ![n - 1] = Child(@, f.name, FrameValue(f))]
                         = Frames(Doc, Behind)
    BY <1>6, <2>1, EndStep, Zenon
  <2>3. CASE n = 1
    <3>1. parsed' = FrameValue(f)
      BY <1>13, <2>3, Zenon DEF End
    <3> QED BY <3>1, <2>2, <2>3, <1>7 DEF ReadSoFar
  <2>4. CASE n # 1
    <3>1. /\ stack' = [SubSeq(stack, 1, n - 1) EXCEPT ![n - 1] = Child(@, f.name, FrameValue(f))]
          /\ parsed' = parsed
      BY <1>13, <2>4, Zenon DEF End
    <3> QED BY <3>1, <2>1, <2>2, <2>4, <1>8, Zenon
  <2> QED BY <2>3, <2>4
<1>14. CASE NoRoot
  <2>1. stack = <<>> /\ Coming.ev = "eof" /\ parsed' = [kind |-> "error"]
    BY <1>14 DEF NoRoot
  <2>w. PICK W \in Nat : W = Outside /\ W = Len(Doc.wrappers)
    BY <1>6, AtReadTypes
  <2>2. place.open = 0
    <3>1. Len(stack) = place.open
      BY <1>6, AtReadTypes
    <3> QED BY <3>1, <2>1
  <2>3. /\ place.section \in Nat /\ Len(Doc.sections) \in Nat /\ place.section <= Len(Doc.sections)
        /\ Len(Doc.sections) >= 1
    BY <1>4, <1>5, DocumentTypes DEF PlaceAt
  <2>4. ~(place.open < W /\ place.section = 0)
    <3>1. place.open < W /\ place.section = 0 => Coming.ev = "start"
      BY <1>4, <1>5, <2>w, ComingIs
    <3> QED BY <3>1, <2>1
  <2>5. ~(place.open = W /\ place.section < Len(Doc.sections))
    <3>1. \A x, c : Element(x, c).ev # "eof"
      BY DEF Element
    <3>2. place.open = W /\ place.section < Len(Doc.sections) =>
            Coming = Element(Doc.sections[place.section + 1].name, Doc.sections[place.section + 1].items)
      BY <1>4, <1>5, <2>w, ComingIs
    <3> QED BY <3>1, <3>2, <2>1
  <2>6. W = 0
    BY <2>2, <2>4, <2>w, <1>4 DEF PlaceAt
  <2>7. Hollow(Doc)
    BY <2>2, <2>3, <2>5, <2>6, <2>w, <1>4 DEF PlaceAt
  <2> QED BY <2>1, <2>7, <1>7 DEF ReadSoFar
<1> QED BY <1>9, <1>10, <1>11, <1>12, <1>13, <1>14 DEF XmlNext

LEMMA SoapStep == SoapInv /\ [XmlNext]_xvars => SoapInv'
<1> SUFFICES ASSUME SoapInv, [XmlNext]_xvars PROVE SoapInv'
  OBVIOUS
<1>1. CASE XmlNext
  <2>1. sent' = sent
    BY <1>1 DEF XmlNext, CutOff, Start, Empty, ReadText, End, NoRoot
  <2>2. cut' = cut \/ cut' = TRUE
    BY <1>1 DEF XmlNext, CutOff, Start, Empty, ReadText, End, NoRoot
  <2>3. ~cut' => ~cut
    BY <2>2 DEF SoapInv
  <2>4. ~cut' /\ sent.kind = "deep" => TooDeep'
    BY <1>1, <2>1, <2>3, DeepStep
  <2>5. ~cut' /\ sent.kind # "deep" => ReadSoFar'
    BY <1>1, <2>1, <2>3, DocumentStep
  <2> QED BY <2>1, <2>2, <2>4, <2>5 DEF SoapInv
<1>2. CASE UNCHANGED xvars
  BY <1>2 DEF xvars, SoapInv, ReadSoFar, TooDeep, Doc
<1> QED BY <1>1, <1>2

THEOREM AnswerIsRead == XmlSpec => []SoapInv
BY SoapInit, SoapStep, PTL DEF XmlSpec

-----------------------------------------------------------------------------
(* What is made of the root.                                               *)

LEMMA OnlyMember ==
    ASSUME NEW key, NEW v
    PROVE  /\ DOMAIN Only(key, v) = {key} /\ Only(key, v)[key] = v
           /\ Obj(Only(key, v)).kind = "obj" /\ Obj(Only(key, v)).map = Only(key, v)
           /\ Has(Obj(Only(key, v)), key) /\ Member(Obj(Only(key, v)), key) = v
<1>1. DOMAIN Only(key, v) = {key} /\ Only(key, v)[key] = v
  BY DEF Only
<1>2. Obj(Only(key, v)).kind = "obj" /\ Obj(Only(key, v)).map = Only(key, v)
  <2> HIDE DEF Only
  <2> QED BY DEF Obj
<1> HIDE DEF Only, Obj
<1> QED BY <1>1, <1>2 DEF Has, Member

LEMMA OtherMember ==
    ASSUME NEW key, NEW v, NEW k, k # key
    PROVE  Member(Obj(Only(key, v)), k) = Str(<<>>)
<1>1. Obj(Only(key, v)).map = Only(key, v) /\ DOMAIN Only(key, v) = {key}
  BY OnlyMember, Zenon
<1>2. ~Has(Obj(Only(key, v)), k)
  BY <1>1 DEF Has
<1> QED BY <1>2, Zenon DEF Member

LEMMA PayloadOf ==
    ASSUME NEW k, NEW v, k # "Fault"
    PROVE  Payload(Obj(Only("Body", Obj(Only(k, v))))) = v
<1> DEFINE body == Obj(Only(k, v))
           root == Obj(Only("Body", body))
<1>1. body.kind = "obj" /\ DOMAIN body.map = {k} /\ body.map[k] = v
  <2>1. body.kind = "obj" /\ body.map = Only(k, v) /\ DOMAIN Only(k, v) = {k} /\ Only(k, v)[k] = v
    BY OnlyMember, Zenon
  <2> QED BY <2>1, Zenon
<1> HIDE DEF body
<1>2. root.kind = "obj" /\ Member(root, "Body") = body
  BY OnlyMember
<1> HIDE DEF root
<1>3. (CHOOSE x \in DOMAIN body.map : TRUE) = k
  BY <1>1
<1>4. root.kind # "error" /\ ~(body.kind # "obj") /\ "Fault" \notin DOMAIN body.map
  BY <1>1, <1>2
<1>5. Payload(root) = body.map[CHOOSE x \in DOMAIN body.map : TRUE]
  BY <1>2, <1>4, Zenon DEF Payload
<1> QED BY <1>1, <1>3, <1>5 DEF root, body

LEMMA NoRootNoPayload == Payload([kind |-> "error"]).kind = "failed"
BY DEF Payload, Failure

LEMMA NoBodyNoPayload ==
    ASSUME NEW root, Member(root, "Body").kind # "obj"
    PROVE  Payload(root).kind = "failed"
<1>1. Failure("Internal").kind = "failed"
  BY DEF Failure
<1> QED BY <1>1, Zenon DEF Payload

LEMMA FaultNoPayload ==
    ASSUME NEW root, NEW body, root.kind # "error", Member(root, "Body") = body, body.kind = "obj",
           "Fault" \in DOMAIN body.map
    PROVE  Payload(root).kind = "failed"
<1>1. Failure("Fault").kind = "failed"
  BY DEF Failure
<1>2. ~(root.kind = "error" \/ body.kind # "obj")
  OBVIOUS
<1>3. Payload(root) = Failure("Fault")
  BY <1>2, Zenon DEF Payload
<1> QED BY <1>1, <1>3

\* A document with one section.
LEMMA OneSectionMap ==
    ASSUME NEW w, NEW s
    PROVE  SectionsMap(Within(w, <<s>>), 1) = Only(s.name, SectionValue(s))
<1> DEFINE d == Within(w, <<s>>)
<1>1. d.sections[1] = s
  BY DEF Within
<1> HIDE DEF d
<1>2. {d.sections[i].name : i \in 1..1} = {s.name}
  <2>1. 1..1 = {1}
    OBVIOUS
  <2> QED BY <2>1, <1>1
<1>3. ASSUME NEW k \in {s.name} PROVE (CHOOSE i \in 1..1 : d.sections[i].name = k) = 1
  BY <1>1
<1>4. SectionsMap(d, 1) = [k \in {s.name} |-> SectionValue(d.sections[CHOOSE i \in 1..1 : d.sections[i].name = k])]
  BY <1>2, Zenon DEF SectionsMap
<1>5. \A k \in {s.name} : SectionValue(d.sections[CHOOSE i \in 1..1 : d.sections[i].name = k]) = SectionValue(s)
  BY <1>1, <1>3
<1>6. SectionsMap(d, 1) = Only(s.name, SectionValue(s))
  <2> HIDE DEF SectionsMap, SectionValue
  <2> QED BY <1>4, <1>5 DEF Only
<1> QED BY <1>6 DEF d

LEMMA RootOfOne ==
    ASSUME NEW x, NEW ss
    PROVE  RootValue(Within(<<x>>, ss)) = Obj(SectionsMap(Within(<<x>>, ss), Len(ss)))
<1>1. \A w : Within(w, ss).wrappers = w /\ Within(w, ss).sections = ss
  BY DEF Within
<1> HIDE DEF SectionsMap, Obj, Only, Within
<1>a. PICK w : w = <<x>>
  OBVIOUS
<1>2. w = <<x>> /\ w # <<>> /\ Len(w) = 1
  BY <1>a
<1>3. WrapperValue(Within(w, ss), 1) = Obj(SectionsMap(Within(w, ss), Len(ss)))
  BY <1>1, <1>2, Zenon DEF WrapperValue
<1> QED BY <1>1, <1>2, <1>3, Zenon DEF RootValue

LEMMA RootOfTwo ==
    ASSUME NEW x, NEW y, NEW ss
    PROVE  RootValue(Within(<<x, y>>, ss)) = Obj(Only(y, Obj(SectionsMap(Within(<<x, y>>, ss), Len(ss)))))
<1>1. \A w : Within(w, ss).wrappers = w /\ Within(w, ss).sections = ss
  BY DEF Within
<1> HIDE DEF SectionsMap, Obj, Only, Within
<1>a. PICK w : w = <<x, y>>
  OBVIOUS
<1>2. w = <<x, y>> /\ w # <<>> /\ Len(w) = 2 /\ w[2] = y
  BY <1>a
<1>3. 1 # 2 /\ 1 = 2 - 1
  OBVIOUS
<1>4. WrapperValue(Within(w, ss), 1) = Obj(Only(y, Obj(SectionsMap(Within(w, ss), Len(ss)))))
  BY <1>1, <1>2, <1>3, Zenon DEF WrapperValue
<1> QED BY <1>1, <1>2, <1>4, Zenon DEF RootValue

LEMMA RootOfThree ==
    ASSUME NEW x, NEW y, NEW z, NEW ss
    PROVE  RootValue(Within(<<x, y, z>>, ss))
             = Obj(Only(y, Obj(Only(z, Obj(SectionsMap(Within(<<x, y, z>>, ss), Len(ss)))))))
<1>1. \A w : Within(w, ss).wrappers = w /\ Within(w, ss).sections = ss
  BY DEF Within
<1> HIDE DEF SectionsMap, Obj, Only, Within
<1>a. PICK w : w = <<x, y, z>>
  OBVIOUS
<1>2. w = <<x, y, z>> /\ w # <<>> /\ Len(w) = 3 /\ w[2] = y /\ w[3] = z
  BY <1>a
<1>3. 1 # 3 /\ 1 # 3 - 1 /\ 3 - 1 = 2
  OBVIOUS
<1>4. WrapperValue(Within(w, ss), 1) = Obj(Only(y, Obj(Only(z, Obj(SectionsMap(Within(w, ss), Len(ss)))))))
  BY <1>1, <1>2, <1>3, Zenon DEF WrapperValue
<1> QED BY <1>1, <1>2, <1>4, Zenon DEF RootValue

-----------------------------------------------------------------------------
(* Errors.                                                                 *)

LEMMA DoneIs ==
    ASSUME SoapInv, Done, sent.kind # "deep"
    PROVE  \/ parsed = [kind |-> "error"] /\ Hollow(Doc)
           \/ parsed = RootValue(Doc) /\ ~Hollow(Doc)
<1>1. ReadSoFar
  BY DEF SoapInv, Done
<1>2. parsed.kind # "none"
  BY DEF Done, Reading
<1> QED BY <1>1, <1>2 DEF ReadSoFar

LEMMA FaultIsError ==
    ASSUME SoapInv, Done, sent.kind = "fault"
    PROVE  Result.kind = "failed"
<1> DEFINE M == <<<<Leaf("faultstring", <<"f">>)>>>>
           s == Section("Body", "Fault", M)
           d == Within(<<"Envelope">>, <<s>>)
<1>1. Doc = d
  <2>1. ~(sent.kind = "rows") /\ ~(sent.kind = "table") /\ ~(sent.kind = "structure")
    OBVIOUS
  <2> QED BY <2>1, Zenon DEF Document, Doc
<1>2. s.name = "Body" /\ s.tag = "Fault" /\ s.items = M
  BY DEF Section
<1>3. M # <<>> /\ Len(M) = 1
  OBVIOUS
<1> HIDE DEF M, s
<1>4. Len(<<s>>) = 1
  OBVIOUS
<1>5. RootValue(d) = Obj(Only("Body", SectionValue(s)))
  <2>1. RootValue(d) = Obj(SectionsMap(d, 1))
    BY <1>4, RootOfOne
  <2>2. SectionsMap(d, 1) = Only("Body", SectionValue(s))
    BY <1>2, OneSectionMap
  <2> QED BY <2>1, <2>2
<1>6. SectionValue(s) = Obj(Only("Fault", ItemValue(M[1])))
  <2>1. 1 # 0
    OBVIOUS
  <2> QED BY <1>2, <1>3, <2>1, Zenon DEF SectionValue, ItemsMap
<1>7. /\ RootValue(d).kind = "obj" /\ Member(RootValue(d), "Body").kind = "obj"
      /\ "Fault" \in DOMAIN Member(RootValue(d), "Body").map
  <2>v. PICK v : v = SectionValue(s)
    OBVIOUS
  <2>u. PICK u : u = ItemValue(M[1])
    OBVIOUS
  <2>a. Obj(Only("Body", v)).kind = "obj" /\ Member(Obj(Only("Body", v)), "Body") = v
    BY OnlyMember, ZenonT(30)
  <2>b. Obj(Only("Fault", u)).kind = "obj" /\ Obj(Only("Fault", u)).map = Only("Fault", u)
    BY OnlyMember, ZenonT(30)
  <2>1. RootValue(d).kind = "obj" /\ Member(RootValue(d), "Body") = SectionValue(s)
    BY <1>5, <2>v, <2>a, Zenon
  <2>2. SectionValue(s).kind = "obj" /\ SectionValue(s).map = Only("Fault", ItemValue(M[1]))
    BY <1>6, <2>u, <2>b, Zenon
  <2>3. DOMAIN Only("Fault", ItemValue(M[1])) = {"Fault"}
    BY OnlyMember, Zenon
  <2> QED BY <2>1, <2>2, <2>3
<1>8. ~Hollow(Doc)
  <2>1. d.wrappers = <<"Envelope">>
    BY DEF Within
  <2> QED BY <1>1, <2>1 DEF Hollow
<1>9. parsed = RootValue(d)
  BY <1>1, <1>8, DoneIs
<1> HIDE DEF d
<1> QED BY <1>7, <1>9, FaultNoPayload DEF Result

LEMMA BareIsError ==
    ASSUME SoapInv, Done, sent.kind = "bare"
    PROVE  Result.kind = "failed"
<1> DEFINE M == [i \in 1..sent.elements |-> <<>>]
           s == Section("Envelope", sent.tag, M)
           d == Within(<<>>, <<s>>)
<1>1. Doc = d
  <2>1. ~(sent.kind = "rows") /\ ~(sent.kind = "table") /\ ~(sent.kind = "structure") /\ ~(sent.kind = "fault")
    OBVIOUS
  <2> QED BY <2>1, Zenon DEF Document, Doc
<1>2. s.tag = sent.tag /\ s.items = M
  BY DEF Section
<1>3. sent.elements \in 0..1
  BY AnswerKinds DEF SoapInv
<1>4. d.wrappers = <<>> /\ d.sections[1] = s
  <2> HIDE DEF s
  <2> QED BY DEF Within
<1>5. CASE parsed = [kind |-> "error"]
  BY <1>5, NoRootNoPayload DEF Result
<1>6. CASE parsed = RootValue(d) /\ ~Hollow(d)
  <2>1. RootValue(d) = SectionValue(s)
    <3> HIDE DEF d, s
    <3> QED BY <1>4, Zenon DEF RootValue
  <2>2. M # <<>>
    <3> HIDE DEF d, s, M
    <3>1. Len(d.wrappers) = 0
      BY <1>4
    <3> QED BY <1>2, <1>4, <1>6, <3>1 DEF Hollow
  <2>3. sent.elements = 1
    BY <1>3, <2>2
  <2>4. Len(M) = 1 /\ M[1] = <<>>
    BY <2>3
  <2> HIDE DEF M, s
  <2>5. SectionValue(s) = Obj(Only(sent.tag, Str(<<>>)))
    <3>1. ItemValue(M[1]) = Str(<<>>)
      BY <2>4, Zenon DEF ItemValue
    <3>2. 1 # 0
      OBVIOUS
    <3> QED BY <1>2, <2>2, <2>4, <3>1, <3>2, Zenon DEF SectionValue, ItemsMap
  <2>6. Str(<<>>).kind # "obj"
    BY DEF Str
  <2> HIDE DEF d
  <2>7. Member(parsed, "Body") = Str(<<>>)
    <3>1. PICK tag : tag = sent.tag
      OBVIOUS
    <3>2. parsed = Obj(Only(tag, Str(<<>>)))
      BY <1>6, <2>1, <2>5, <3>1
    <3>v. PICK v : v = Str(<<>>)
      OBVIOUS
    <3>a. Member(Obj(Only(tag, v)), tag) = v
      BY OnlyMember, Zenon
    <3>b. "Body" # tag => Member(Obj(Only(tag, v)), "Body") = Str(<<>>)
      BY OtherMember, Zenon
    <3>3. CASE tag = "Body"
      BY <3>2, <3>v, <3>a, <3>3, Zenon
    <3>4. CASE tag # "Body"
      BY <3>2, <3>v, <3>b, <3>4, Zenon
    <3> QED BY <3>3, <3>4
  <2> QED BY <2>6, <2>7, NoBodyNoPayload DEF Result
<1> QED BY <1>1, <1>5, <1>6, DoneIs

LEMMA ErrorsReported == SoapInv => BadAnswerIsError
<1> SUFFICES ASSUME SoapInv, Done, sent.kind \in {"fault", "bare", "deep"} PROVE Result.kind = "failed"
  BY DEF BadAnswerIsError
<1>1. CASE sent.kind = "fault"
  BY <1>1, FaultIsError
<1>2. CASE sent.kind = "bare"
  BY <1>2, BareIsError
<1>3. CASE sent.kind = "deep"
  <2>1. parsed = [kind |-> "error"]
    BY <1>3 DEF SoapInv, Done, Reading, TooDeep
  <2> QED BY <2>1, NoRootNoPayload DEF Result
<1> QED BY <1>1, <1>2, <1>3

-----------------------------------------------------------------------------
(* The messages of an answer.                                              *)

IsLevels(f, v) == f = [d \in 2..8 |-> IF d = 2 THEN {v} ELSE UNION {Inside(w) : w \in f[d - 1]}]
LevelsOf(v) == CHOOSE f : IsLevels(f, v)

LEMMA LevelsExist ==
    ASSUME NEW v
    PROVE  \E f : IsLevels(f, v)
<1> DEFINE Next(S) == UNION {Inside(w) : w \in S}
           L2 == {v}
           L3 == Next(L2)
           L4 == Next(L3)
           L5 == Next(L4)
           L6 == Next(L5)
           L7 == Next(L6)
           L8 == Next(L7)
           f == [d \in 2..8 |-> IF d = 2 THEN L2 ELSE IF d = 3 THEN L3 ELSE IF d = 4 THEN L4
                                ELSE IF d = 5 THEN L5 ELSE IF d = 6 THEN L6 ELSE IF d = 7 THEN L7 ELSE L8]
<1>1. /\ L3 = Next(L2) /\ L4 = Next(L3) /\ L5 = Next(L4) /\ L6 = Next(L5) /\ L7 = Next(L6)
      /\ L8 = Next(L7)
  OBVIOUS
<1>0. L2 = {v}
  OBVIOUS
<1> HIDE DEF Next, L2, L3, L4, L5, L6, L7, L8
<1>2. /\ f[2] = L2 /\ f[3] = L3 /\ f[4] = L4 /\ f[5] = L5 /\ f[6] = L6 /\ f[7] = L7 /\ f[8] = L8
  OBVIOUS
<1>3. f = [d \in 2..8 |-> f[d]]
  OBVIOUS
<1> HIDE DEF f
<1>4. ASSUME NEW d \in 2..8 PROVE f[d] = IF d = 2 THEN L2 ELSE Next(f[d - 1])
  <2>1. d = 2 \/ d = 3 \/ d = 4 \/ d = 5 \/ d = 6 \/ d = 7 \/ d = 8
    OBVIOUS
  <2>2. 3 - 1 = 2 /\ 4 - 1 = 3 /\ 5 - 1 = 4 /\ 6 - 1 = 5 /\ 7 - 1 = 6 /\ 8 - 1 = 7
    OBVIOUS
  <2> QED BY <2>1, <2>2, <1>1, <1>2
<1>5. f = [d \in 2..8 |-> IF d = 2 THEN L2 ELSE Next(f[d - 1])]
  BY <1>3, <1>4
<1>6. IsLevels(f, v)
  BY <1>5, <1>0, Zenon DEF IsLevels, Next
<1> QED BY <1>6

LEMMA WalkIs ==
    ASSUME NEW v
    PROVE  /\ LevelsOf(v)[2] = {v}
           /\ \A d \in 3..8 : LevelsOf(v)[d] = UNION {Inside(w) : w \in LevelsOf(v)[d - 1]}
           /\ Walk(v, 2) = {w \in UNION {LevelsOf(v)[d] : d \in 2..8} : IsMessage(w)}
<1>1. IsLevels(LevelsOf(v), v)
  BY LevelsExist DEF LevelsOf
<1>2. LevelsOf(v) = [d \in 2..8 |-> IF d = 2 THEN {v} ELSE UNION {Inside(w) : w \in LevelsOf(v)[d - 1]}]
  BY <1>1 DEF IsLevels
<1>3. Walk(v, 2) = {w \in UNION {LevelsOf(v)[d] : d \in 2..8} : IsMessage(w)}
  BY DEF Walk, LevelsOf, IsLevels
<1>4. LevelsOf(v)[2] = {v}
  <2>1. 2 \in 2..8
    OBVIOUS
  <2> QED BY <1>2, <2>1, Zenon
<1>5. ASSUME NEW d \in 3..8 PROVE LevelsOf(v)[d] = UNION {Inside(w) : w \in LevelsOf(v)[d - 1]}
  <2>1. d \in 2..8 /\ d # 2
    OBVIOUS
  <2> QED BY <1>2, <2>1, Zenon
<1> QED BY <1>3, <1>4, <1>5

\* One element in a level, and no message among the levels above.
LEMMA Below ==
    ASSUME NEW v, NEW w, NEW d \in 3..8, LevelsOf(v)[d - 1] = {w}
    PROVE  LevelsOf(v)[d] = Inside(w)
<1>1. LevelsOf(v)[d] = UNION {Inside(x) : x \in LevelsOf(v)[d - 1]}
  BY WalkIs
<1> QED BY <1>1

LEMMA Bottom ==
    ASSUME NEW v, NEW d \in 3..8, \A w \in LevelsOf(v)[d - 1] : Inside(w) = {}
    PROVE  \A e \in d..8 : LevelsOf(v)[e] = {}
<1> DEFINE L == LevelsOf(v)
           full == {e \in d..8 : L[e] # {}}
<1> SUFFICES ASSUME full # {} PROVE FALSE
  OBVIOUS
<1>1. PICK e \in full : \A x \in full : e <= x
  <2>1. full \subseteq Nat
    OBVIOUS
  <2> QED BY <2>1, LeastNatural
<1>2. e \in d..8 /\ L[e] # {} /\ e \in 3..8
  OBVIOUS
<1>3. L[e] = UNION {Inside(x) : x \in L[e - 1]}
  BY <1>2, WalkIs
<1>4. CASE e = d
  BY <1>2, <1>3, <1>4
<1>5. CASE e # d
  <2>1. e - 1 \in d..8 /\ ~(e <= e - 1)
    BY <1>2, <1>5
  <2>2. L[e - 1] = {}
    BY <1>1, <2>1
  <2> QED BY <2>2, <1>2, <1>3
<1> QED BY <1>4, <1>5

LEMMA InsideOnly ==
    ASSUME NEW key, NEW v
    PROVE  ~IsMessage(Obj(Only(key, v))) /\ Inside(Obj(Only(key, v))) = {v}
<1> DEFINE o == Obj(Only(key, v))
<1>1. o.kind = "obj" /\ o.map = Only(key, v) /\ DOMAIN Only(key, v) = {key} /\ Only(key, v)[key] = v
  BY OnlyMember, Zenon
<1> HIDE DEF o
<1>2. ~IsMessage(o)
  BY <1>1 DEF IsMessage
<1>3. Inside(o) = {v}
  BY <1>1, <1>2 DEF Inside
<1> QED BY <1>2, <1>3 DEF o

LEMMA InsideMessage ==
    ASSUME NEW m, IsMessage(m)
    PROVE  Inside(m) = {}
BY DEF IsMessage, Inside

\* What a message is worth.
LEMMA MessageValue ==
    ASSUME NEW t \in Seq(Characters), NEW u \in Seq(Characters)
    PROVE  LET m == ItemValue(Message(t, u)) IN
           /\ IsMessage(m) /\ m.kind = "obj"
           /\ FieldStr(m, "TYPE") = Trim(Trim(t))
<1> DEFINE x == Message(t, u)
           m == ItemValue(x)
           f == LeavesMap(x, 2)
<1>1. /\ x \in Seq(Leaves) /\ Len(x) = 2 /\ x[1] = Leaf("TYPE", t)
      /\ x[1].name = "TYPE" /\ x[2].name = "MESSAGE"
  BY TwoLeaves
<1>2. x[1].text = t
  BY <1>1 DEF Leaf
<1> HIDE DEF x
<1>3. x # <<>>
  <2>1. Len(<<>>) # 2
    OBVIOUS
  <2> QED BY <2>1, <1>1, Zenon
<1>4. m = Obj(f)
  BY <1>1, <1>3, Zenon DEF ItemValue
<1>5. DOMAIN f = {x[i].name : i \in 1..2}
  BY DEF LeavesMap
<1>6. {x[i].name : i \in 1..2} = {"TYPE", "MESSAGE"}
  <2>1. 1..2 = {1, 2}
    OBVIOUS
  <2> QED BY <2>1, <1>1
<1>7. f["TYPE"] = Str(Trim(t))
  <2>1. (CHOOSE i \in 1..2 : x[i].name = "TYPE") = 1
    BY <1>1
  <2>2. f["TYPE"] = LeafValue(x[CHOOSE i \in 1..2 : x[i].name = "TYPE"])
    <3>1. "TYPE" \in {x[i].name : i \in 1..2}
      BY <1>6
    <3> QED BY <3>1, Zenon DEF LeavesMap
  <2> QED BY <2>1, <2>2, <1>2 DEF LeafValue
<1> HIDE DEF f
<1>8. m.kind = "obj" /\ m.map = f
  BY <1>4 DEF Obj
<1> HIDE DEF m
<1>9. IsMessage(m)
  BY <1>5, <1>6, <1>8 DEF IsMessage
<1>10. Member(m, "TYPE") = Str(Trim(t))
  <2>1. Has(m, "TYPE")
    BY <1>5, <1>6, <1>8 DEF Has
  <2> QED BY <2>1, <1>7, <1>8, Zenon DEF Member
<1>11. Str(Trim(t)).kind = "str" /\ Str(Trim(t)).text = Trim(t)
  BY DEF Str
<1>12. FieldStr(m, "TYPE") = Trim(Trim(t))
  BY <1>10, <1>11, Zenon DEF FieldStr
<1> QED BY <1>8, <1>9, <1>12 DEF m, x

\* A type is as short as it can be.
LEMMA TrimLetter ==
    ASSUME NEW c, c # Blank
    PROVE  Trim(<<c>>) = <<c>>
<1> DEFINE t == <<c>>
<1>1. Len(t) = 1 /\ t[1] = c /\ t \in Seq({c})
  OBVIOUS
<1> HIDE DEF t
<1>2. NonBlank(t) = {1}
  BY <1>1 DEF NonBlank
<1>3. FirstOf({1}) = 1 /\ LastOf({1}) = 1
  BY DEF FirstOf, LastOf
<1>4. Trim(t) = SubSeq(t, 1, 1)
  BY <1>2, <1>3 DEF Trim
<1>5. SubSeq(t, 1, 1) = t
  BY <1>1
<1> QED BY <1>4, <1>5 DEF t

LEMMA TrimType ==
    ASSUME NEW t \in Types
    PROVE  /\ Trim(Trim(t)) = t
           /\ IsFailure(t) <=> t \notin Mild
<1>1. /\ "S" # Blank /\ "W" # Blank /\ "w" # Blank /\ "I" # Blank
      /\ "E" # Blank /\ "A" # Blank /\ "Z" # Blank
  BY Zenon DEF Blank
<1>2. /\ Trim(<<"S">>) = <<"S">> /\ Trim(<<"W">>) = <<"W">> /\ Trim(<<"w">>) = <<"w">>
      /\ Trim(<<"I">>) = <<"I">> /\ Trim(<<"E">>) = <<"E">> /\ Trim(<<"A">>) = <<"A">>
      /\ Trim(<<"Z">>) = <<"Z">>
  BY <1>1, TrimLetter
<1>3. t \in Mild \/ t \in {<<"E">>, <<"A">>, <<"Z">>, <<>>}
  BY DEF Types
<1>4. Trim(t) = t
  BY <1>2, <1>3, TrimEmpty DEF Mild
<1>5. CASE t \in Mild
  BY <1>4, <1>5 DEF Mild, IsFailure
<1>6. CASE t \in {<<"E">>, <<"A">>, <<"Z">>}
  BY <1>4, <1>6 DEF Mild, IsFailure
<1>7. CASE t = <<>>
  BY <1>4, <1>7 DEF Mild, IsFailure
<1> QED BY <1>3, <1>5, <1>6, <1>7

Messages(ts, n, u) == {ItemValue(Message(ts[i], u)) : i \in 1..n}

LEMMA FailuresFound ==
    ASSUME NEW v, NEW n \in Nat, NEW ts, NEW u \in Seq(Characters), \A i \in 1..n : ts[i] \in Types,
           Walk(v, 2) = Messages(ts, n, u)
    PROVE  AnyFailure(v) <=> \E i \in 1..n : ts[i] \notin Mild
<1> DEFINE m(i) == ItemValue(Message(ts[i], u))
           Bad(x) == IsFailure(FieldStr(x, "TYPE"))
<1>1. ASSUME NEW i \in 1..n PROVE FieldStr(m(i), "TYPE") = ts[i]
  <2>1. ts[i] \in Types /\ ts[i] \in Seq(Characters)
    BY TypeTexts
  <2>2. FieldStr(m(i), "TYPE") = Trim(Trim(ts[i]))
    BY <2>1, MessageValue, Zenon
  <2>3. Trim(Trim(ts[i])) = ts[i]
    BY <2>1, TrimType
  <2> QED BY <2>2, <2>3
<1>2. ASSUME NEW i \in 1..n PROVE Bad(m(i)) <=> ts[i] \notin Mild
  <2>1. IsFailure(ts[i]) <=> ts[i] \notin Mild
    BY TrimType
  <2> QED BY <2>1, <1>1, Zenon
<1>3. AnyFailure(v) <=> \E x \in Walk(v, 2) : Bad(x)
  BY Zenon DEF AnyFailure
<1> HIDE DEF m, Bad
<1>4. Walk(v, 2) = {m(i) : i \in 1..n}
  BY DEF m, Messages
<1>5. (\E x \in {m(i) : i \in 1..n} : Bad(x)) <=> \E i \in 1..n : Bad(m(i))
  BY Zenon
<1> QED BY <1>2, <1>3, <1>4, <1>5, Zenon

\* A RETURN structure: the message is one level down.
LEMMA StructureWalk ==
    ASSUME NEW m, IsMessage(m)
    PROVE  Walk(Obj(Only("RETURN", m)), 2) = {m}
<1> DEFINE v == Obj(Only("RETURN", m))
           L == LevelsOf(v)
<1>1. ~IsMessage(v) /\ Inside(v) = {m} /\ Inside(m) = {}
  BY InsideOnly, InsideMessage, Zenon
<1> HIDE DEF v
<1>2. L[2] = {v}
  BY WalkIs
<1>3. L[3] = {m}
  <2>1. 3 \in 3..8 /\ L[3 - 1] = {v}
    BY <1>2
  <2> QED BY <1>1, <2>1, Below
<1>4. \A e \in 4..8 : L[e] = {}
  <2>1. 4 \in 3..8 /\ \A w \in L[4 - 1] : Inside(w) = {}
    BY <1>1, <1>3
  <2> QED BY <2>1, Bottom
<1>5. Walk(v, 2) = {w \in UNION {L[d] : d \in 2..8} : IsMessage(w)}
  BY WalkIs
<1> HIDE DEF L
<1>6. ASSUME NEW x, IsMessage(x) PROVE (\E d \in 2..8 : x \in L[d]) <=> x = m
  <2>1. ASSUME NEW d \in 2..8, x \in L[d] PROVE x = m
    <3>1. d = 2 \/ d = 3 \/ d \in 4..8
      OBVIOUS
    <3> QED BY <3>1, <2>1, <1>1, <1>2, <1>3, <1>4, <1>6
  <2>2. x = m => 3 \in 2..8 /\ x \in L[3]
    BY <1>3
  <2> QED BY <2>1, <2>2
<1> QED BY <1>5, <1>6 DEF v

\* A RETURN table: no, one or several messages below the elements around them.
LEMMA TableWalk ==
    ASSUME NEW s, NEW n \in Nat, n = Len(s.items), s.items = <<>> <=> n = 0,
           \A i \in 1..n : IsMessage(ItemValue(s.items[i]))
    PROVE  Walk(Obj(Only("RETURN", SectionValue(s))), 2) = {ItemValue(s.items[i]) : i \in 1..n}
<1> DEFINE v == Obj(Only("RETURN", SectionValue(s)))
           u == SectionValue(s)
           m(i) == ItemValue(s.items[i])
           L == LevelsOf(v)
<1>1. ~IsMessage(v) /\ Inside(v) = {u}
  BY InsideOnly, Zenon
<1>i. \A i \in 1..n : Inside(m(i)) = {} /\ IsMessage(m(i))
  BY InsideMessage
<1> HIDE DEF v
<1>2. L[2] = {v}
  BY WalkIs
<1>3. L[3] = {u}
  <2>1. 3 \in 3..8 /\ L[3 - 1] = {v}
    BY <1>2
  <2> QED BY <1>1, <2>1, Below
<1>4. Walk(v, 2) = {w \in UNION {L[d] : d \in 2..8} : IsMessage(w)}
  BY WalkIs
<1>5. CASE n = 0
  <2>1. u = Str(<<>>)
    BY <1>5, Zenon DEF SectionValue
  <2>2. Inside(u) = {} /\ ~IsMessage(u)
    BY <2>1 DEF Inside, IsMessage, Str
  <2>3. \A e \in 4..8 : L[e] = {}
    <3>1. 4 \in 3..8 /\ \A w \in L[4 - 1] : Inside(w) = {}
      BY <2>2, <1>3
    <3> QED BY <3>1, Bottom
  <2> HIDE DEF L, u, m
  <2>4. ASSUME NEW x, IsMessage(x), NEW d \in 2..8, x \in L[d] PROVE FALSE
    <3>1. d = 2 \/ d = 3 \/ d \in 4..8
      OBVIOUS
    <3> QED BY <3>1, <2>2, <2>3, <2>4, <1>1, <1>2, <1>3
  <2>5. {m(i) : i \in 1..n} = {}
    BY <1>5
  <2> QED BY <1>4, <2>4, <2>5 DEF v, u, m
<1>6. CASE n = 1
  <2>1. u = Obj(Only(s.tag, m(1)))
    <3>1. 1 # 0 /\ s.items # <<>>
      BY <1>6
    <3> QED BY <3>1, <1>6, Zenon DEF SectionValue, ItemsMap
  <2>3. Inside(m(1)) = {} /\ IsMessage(m(1))
    BY <1>6, <1>i
  <2> HIDE DEF u, m
  <2>2. ~IsMessage(u) /\ Inside(u) = {m(1)}
    BY <2>1, InsideOnly
  <2>4. L[4] = {m(1)}
    <3>1. 4 \in 3..8 /\ L[4 - 1] = {u}
      BY <1>3
    <3> QED BY <2>2, <3>1, Below
  <2>5. \A e \in 5..8 : L[e] = {}
    <3>1. 5 \in 3..8 /\ \A w \in L[5 - 1] : Inside(w) = {}
      BY <2>3, <2>4
    <3> QED BY <3>1, Bottom
  <2> HIDE DEF L
  <2>6. ASSUME NEW x, IsMessage(x) PROVE (\E d \in 2..8 : x \in L[d]) <=> x = m(1)
    <3>1. ASSUME NEW d \in 2..8, x \in L[d] PROVE x = m(1)
      <4>1. d = 2 \/ d = 3 \/ d = 4 \/ d \in 5..8
        OBVIOUS
      <4> QED BY <4>1, <3>1, <2>2, <2>4, <2>5, <2>6, <1>1, <1>2, <1>3
    <3>2. x = m(1) => 4 \in 2..8 /\ x \in L[4]
      BY <2>4
    <3> QED BY <3>1, <3>2
  <2>7. {m(i) : i \in 1..n} = {m(1)}
    BY <1>6
  <2>8. Walk(v, 2) = {m(1)}
    BY <1>4, <2>3, <2>6
  <2> QED BY <2>7, <2>8 DEF v, u, m
<1>7. CASE n > 1
  <2> DEFINE q == [i \in 1..n |-> m(i)]
  <2>1. u = Obj(Only(s.tag, Arr(q)))
    <3>1. n # 0 /\ n # 1 /\ s.items # <<>>
      BY <1>7
    <3> QED BY <3>1, Zenon DEF SectionValue, ItemsMap
  <2>2. ~IsMessage(u) /\ Inside(u) = {Arr(q)}
    BY <2>1, InsideOnly, Zenon
  <2> HIDE DEF u, m
  <2>3. Arr(q).kind = "arr" /\ Arr(q).items = q /\ Len(q) = n
    BY DEF Arr
  <2>4. ~IsMessage(Arr(q)) /\ Inside(Arr(q)) = {m(i) : i \in 1..n}
    <3>1. {q[i] : i \in 1..n} = {m(i) : i \in 1..n}
      OBVIOUS
    <3> HIDE DEF q
    <3>2. Inside(Arr(q)) = {q[i] : i \in 1..n}
      BY <2>3, Zenon DEF Inside
    <3> QED BY <2>3, <3>1, <3>2 DEF IsMessage
  <2> HIDE DEF q
  <2>5. L[4] = {Arr(q)}
    <3>1. 4 \in 3..8 /\ L[4 - 1] = {u}
      BY <1>3
    <3> QED BY <2>2, <3>1, Below
  <2>6. L[5] = {m(i) : i \in 1..n}
    <3>1. 5 \in 3..8 /\ L[5 - 1] = {Arr(q)}
      BY <2>5
    <3> QED BY <2>4, <3>1, Below, SMTT(30)
  <2>7. \A e \in 6..8 : L[e] = {}
    <3>1. 6 \in 3..8 /\ \A w \in L[6 - 1] : Inside(w) = {}
      BY <2>6, <1>i
    <3> QED BY <3>1, Bottom
  <2> HIDE DEF L
  <2>8. ASSUME NEW x, IsMessage(x) PROVE (\E d \in 2..8 : x \in L[d]) <=> x \in {m(i) : i \in 1..n}
    <3>1. ASSUME NEW d \in 2..8, x \in L[d] PROVE x \in {m(i) : i \in 1..n}
      <4>1. d = 2 \/ d = 3 \/ d = 4 \/ d = 5 \/ d \in 6..8
        OBVIOUS
      <4> QED BY <4>1, <3>1, <2>2, <2>4, <2>5, <2>6, <2>7, <2>8, <1>1, <1>2, <1>3
    <3>2. x \in {m(i) : i \in 1..n} => 5 \in 2..8 /\ x \in L[5]
      BY <2>6
    <3> QED BY <3>1, <3>2
  <2>9. \A x \in {m(i) : i \in 1..n} : IsMessage(x)
    BY <1>i
  <2> QED BY <1>4, <2>8, <2>9 DEF v, u, m
<1>8. \A k \in Nat : k = 0 \/ k = 1 \/ k > 1
  OBVIOUS
<1> QED BY <1>5, <1>6, <1>7, <1>8, Zenon

LEMMA FailuresReported == SoapInv => FailureSurvives
<1> SUFFICES ASSUME SoapInv, Done, sent.kind \in {"table", "structure"}
             PROVE  AnyFailure(Result) <=> \E i \in 1..Len(sent.types) : sent.types[i] \notin Mild
  BY Zenon DEF FailureSurvives
<1>0. sent \in SoapAnswers
  BY DEF SoapInv
<1>1. CASE sent.kind = "table"
  <2> DEFINE w == <<"Envelope", "Body", "Response">>
             M == [i \in 1..Len(sent.types) |-> Message(sent.types[i], <<"m">>)]
             s == Section("RETURN", "item", M)
             d == Within(w, <<s>>)
  <2>1. Doc = d
    BY <1>1, Zenon DEF Document, Doc
  <2>2. PICK k \in Nat : sent.types \in [1..k -> Types]
    BY <1>0, <1>1, AnswerKinds
  <2>3. Len(sent.types) = k /\ \A i \in 1..k : sent.types[i] \in Types
    BY <2>2
  <2>4. <<"m">> \in Seq(Characters)
    <3>1. "m" \in Characters
      BY DEF Characters
    <3> QED BY <3>1
  <2>5. \A i \in 1..k : M[i] = Message(sent.types[i], <<"m">>)
    BY <2>3
  <2>6. M = [i \in 1..k |-> M[i]]
    BY <2>3
  <2>7. s.name = "RETURN" /\ s.items = M
    BY DEF Section
  <2> HIDE DEF M, s
  <2>8. Len(M) = k /\ (M = <<>> <=> k = 0)
    BY <2>6
  <2>9. RootValue(d) = Obj(Only("Body", Obj(Only("Response", Obj(Only("RETURN", SectionValue(s)))))))
    <3>1. Len(<<s>>) = 1
      OBVIOUS
    <3>2. RootValue(d) = Obj(Only("Body", Obj(Only("Response", Obj(SectionsMap(d, 1))))))
      <4>1. PICK ss : ss = <<s>>
        OBVIOUS
      <4>2. RootValue(Within(w, ss)) = Obj(Only("Body", Obj(Only("Response", Obj(SectionsMap(Within(w, ss), Len(ss)))))))
        BY RootOfThree, ZenonT(30)
      <4> QED BY <3>1, <4>1, <4>2, Zenon
    <3>3. SectionsMap(d, 1) = Only("RETURN", SectionValue(s))
      BY <2>7, OneSectionMap, Zenon
    <3> QED BY <3>2, <3>3
  <2>10. parsed = RootValue(d)
    <3>1. Len(d.wrappers) # 0
      <4>1. d.wrappers = w
        BY DEF Within
      <4>2. Len(w) # 0
        OBVIOUS
      <4> QED BY <4>1, <4>2
    <3> HIDE DEF d
    <3> QED BY <2>1, <3>1, <1>1, DoneIs DEF Hollow
  <2> DEFINE v == Obj(Only("RETURN", SectionValue(s)))
  <2>11. Result = v
    <3>1. "Response" # "Fault"
      OBVIOUS
    <3> HIDE DEF v, d
    <3>2. Payload(Obj(Only("Body", Obj(Only("Response", v))))) = v
      BY <3>1, PayloadOf, Zenon
    <3> QED BY <3>2, <2>9, <2>10 DEF Result, v
  <2>12. ASSUME NEW i \in 1..k PROVE IsMessage(ItemValue(s.items[i]))
    <3>1. sent.types[i] \in Seq(Characters)
      BY <2>3, TypeTexts
    <3>2. IsMessage(ItemValue(Message(sent.types[i], <<"m">>)))
      BY <3>1, <2>4, MessageValue, Zenon
    <3> QED BY <3>2, <2>5, <2>7
  <2>13. Walk(v, 2) = {ItemValue(s.items[i]) : i \in 1..k}
    <3>1. k = Len(s.items) /\ (s.items = <<>> <=> k = 0)
      BY <2>7, <2>8
    <3> QED BY <3>1, <2>12, TableWalk, Zenon
  <2>14. Walk(v, 2) = Messages(sent.types, k, <<"m">>)
    <3>1. \A i \in 1..k : ItemValue(s.items[i]) = ItemValue(Message(sent.types[i], <<"m">>))
      BY <2>5, <2>7, Zenon
    <3> QED BY <3>1, <2>13 DEF Messages
  <2> HIDE DEF v
  <2>15. AnyFailure(v) <=> \E i \in 1..k : sent.types[i] \notin Mild
    <3>1. PICK ts : ts = sent.types
      OBVIOUS
    <3>2. PICK u \in Seq(Characters) : u = <<"m">>
      BY <2>4
    <3>3. (\A i \in 1..k : ts[i] \in Types) /\ Walk(v, 2) = Messages(ts, k, u)
      BY <2>3, <2>14, <3>1, <3>2
    <3>4. AnyFailure(v) <=> \E i \in 1..k : ts[i] \notin Mild
      BY <3>3, FailuresFound
    <3> QED BY <3>1, <3>4
  <2> QED BY <2>3, <2>11, <2>15, Zenon
<1>2. CASE sent.kind = "structure"
  <2> DEFINE w == <<"Envelope", "Body">>
             x == Message(sent.types[1], <<>>)
             s == Section("Response", "RETURN", <<x>>)
             d == Within(w, <<s>>)
  <2>1. Doc = d
    <3>1. ~(sent.kind = "rows") /\ ~(sent.kind = "table")
      BY <1>2
    <3> QED BY <3>1, <1>2, Zenon DEF Document, Doc
  <2>2. sent.types \in [1..1 -> Types]
    BY <1>0, <1>2, AnswerKinds
  <2>3. Len(sent.types) = 1 /\ \A i \in 1..1 : sent.types[i] \in Types
    BY <2>2
  <2>4. <<>> \in Seq(Characters) /\ sent.types[1] \in Seq(Characters)
    BY <2>3, TypeTexts
  <2>5. IsMessage(ItemValue(x))
    BY <2>4, MessageValue, Zenon
  <2> HIDE DEF x
  <2>7. s.name = "Response" /\ s.tag = "RETURN" /\ s.items = <<x>>
    BY DEF Section
  <2>8. Len(<<x>>) = 1 /\ <<x>> # <<>> /\ <<x>>[1] = x
    OBVIOUS
  <2> HIDE DEF s
  <2>9. RootValue(d) = Obj(Only("Body", Obj(Only("Response", SectionValue(s)))))
    <3>1. Len(<<s>>) = 1
      OBVIOUS
    <3>2. RootValue(d) = Obj(Only("Body", Obj(SectionsMap(d, 1))))
      BY <3>1, RootOfTwo, Zenon
    <3>3. SectionsMap(d, 1) = Only("Response", SectionValue(s))
      BY <2>7, OneSectionMap, Zenon
    <3> QED BY <3>2, <3>3
  <2>10. parsed = RootValue(d)
    <3>1. Len(d.wrappers) # 0
      <4>1. d.wrappers = w
        BY DEF Within
      <4>2. Len(w) # 0
        OBVIOUS
      <4> QED BY <4>1, <4>2
    <3> HIDE DEF d
    <3> QED BY <2>1, <3>1, <1>2, DoneIs DEF Hollow
  <2> DEFINE v == SectionValue(s)
  <2>11. Result = v
    <3>1. "Response" # "Fault"
      OBVIOUS
    <3> HIDE DEF v, d
    <3>2. Payload(Obj(Only("Body", Obj(Only("Response", v))))) = v
      BY <3>1, PayloadOf, Zenon
    <3> QED BY <3>2, <2>9, <2>10 DEF Result, v
  <2>12. v = Obj(Only("RETURN", ItemValue(x)))
    <3>1. 1 # 0
      OBVIOUS
    <3> QED BY <3>1, <2>7, <2>8, Zenon DEF SectionValue, ItemsMap
  <2>13. Walk(v, 2) = {ItemValue(x)}
    BY <2>5, <2>12, StructureWalk, Zenon
  <2>14. Walk(v, 2) = Messages(sent.types, 1, <<>>)
    <3>1. 1..1 = {1}
      OBVIOUS
    <3> QED BY <3>1, <2>13 DEF x, Messages
  <2> HIDE DEF v
  <2>15. AnyFailure(v) <=> \E i \in 1..1 : sent.types[i] \notin Mild
    <3>1. PICK ts : ts = sent.types
      OBVIOUS
    <3>2. PICK u \in Seq(Characters) : u = <<>>
      BY <2>4
    <3>3. PICK k \in Nat : k = 1
      OBVIOUS
    <3>4. (\A i \in 1..k : ts[i] \in Types) /\ Walk(v, 2) = Messages(ts, k, u)
      BY <2>3, <2>14, <3>1, <3>2, <3>3
    <3>5. AnyFailure(v) <=> \E i \in 1..k : ts[i] \notin Mild
      BY <3>4, FailuresFound
    <3> QED BY <3>1, <3>3, <3>5
  <2> QED BY <2>3, <2>11, <2>15, Zenon
<1> QED BY <1>1, <1>2

-----------------------------------------------------------------------------
(* Texts and their blanks.                                                 *)

LEMMA FirstIs ==
    ASSUME NEW S, S \subseteq Nat, NEW x \in S, \A y \in S : x <= y
    PROVE  FirstOf(S) = x
<1>1. \A y \in S : (\A j \in S : y <= j) => y = x
  OBVIOUS
<1> QED BY <1>1 DEF FirstOf

LEMMA LastIs ==
    ASSUME NEW S, S \subseteq Nat, NEW x \in S, \A y \in S : y <= x
    PROVE  LastOf(S) = x
<1>1. \A y \in S : (\A j \in S : j <= y) => y = x
  OBVIOUS
<1> QED BY <1>1 DEF LastOf

LEMMA GreatestNatural ==
    ASSUME NEW n \in Nat, NEW T, T \subseteq 0..n, T # {}
    PROVE  \E x \in T : \A y \in T : y <= x
<1> DEFINE U == {n - i : i \in T}
<1>0. \A i \in T : i \in 0..n /\ n - i \in Nat
  OBVIOUS
<1>1. U \subseteq Nat /\ U # {}
  BY <1>0
<1>2. PICK u \in U : \A y \in U : u <= y
  BY <1>1, LeastNatural
<1>3. PICK x \in T : u = n - x
  OBVIOUS
<1>4. ASSUME NEW y \in T PROVE y <= x
  <2>1. n - y \in U
    OBVIOUS
  <2>2. n - x <= n - y
    BY <1>2, <1>3, <2>1
  <2>3. x \in Nat /\ y \in Nat
    OBVIOUS
  <2> QED BY ONLY <2>2, <2>3, n \in Nat
<1> QED BY <1>4

\* The positions of t from a to b that are not blank.
Inked(t, a, b) == {i \in a..b : t[i] # Blank}

LEMMA EndsOf ==
    ASSUME NEW t, NEW a \in Nat, NEW b \in Nat, Inked(t, a, b) # {}
    PROVE  LET N == Inked(t, a, b) IN
           /\ FirstOf(N) \in N /\ LastOf(N) \in N
           /\ \A y \in N : FirstOf(N) <= y /\ y <= LastOf(N)
<1> DEFINE N == Inked(t, a, b)
<1>1. N \subseteq Nat /\ N \subseteq 0..b
  BY DEF Inked
<1> HIDE DEF N
<1>2. PICK x \in N : \A y \in N : x <= y
  BY <1>1, LeastNatural DEF N
<1>3. PICK z \in N : \A y \in N : y <= z
  BY <1>1, GreatestNatural DEF N
<1>4. FirstOf(N) = x
  BY <1>1, <1>2, FirstIs
<1>5. LastOf(N) = z
  BY <1>1, <1>3, LastIs
<1> QED BY <1>2, <1>3, <1>4, <1>5 DEF N

\* What is left of a part of t without the blanks around it.
Core(t, a, b) ==
    IF Inked(t, a, b) = {} THEN <<>>
    ELSE SubSeq(t, FirstOf(Inked(t, a, b)), LastOf(Inked(t, a, b)))

LEMMA SubSub ==
    ASSUME NEW C, NEW t \in Seq(C), NEW a \in Nat, NEW b \in Nat, a >= 1, b <= Len(t),
           NEW x \in Nat, NEW y \in Nat, x >= 1, a + y - 1 <= b
    PROVE  SubSeq(SubSeq(t, a, b), x, y) = SubSeq(t, a + x - 1, a + y - 1)
<1>1. PICK u : u = SubSeq(t, a, b)
  OBVIOUS
<1>2. CASE x <= y
  <2>1. u \in Seq(C) /\ Len(u) = b - a + 1 /\ \A i \in 1..(b - a + 1) : u[i] = t[a + i - 1]
    BY <1>1, <1>2
  <2>2. y <= Len(u)
    BY <2>1
  <2>3. SubSeq(u, x, y) \in Seq(C) /\ Len(SubSeq(u, x, y)) = y - x + 1
    BY <1>2, <2>1, <2>2
  <2>4. \A i \in 1..(y - x + 1) : SubSeq(u, x, y)[i] = u[x + i - 1]
    BY <1>2, <2>1, <2>2
  <2> DEFINE s == SubSeq(t, a + x - 1, a + y - 1)
  <2>5. s \in Seq(C) /\ Len(s) = y - x + 1 /\ \A i \in 1..(y - x + 1) : s[i] = t[a + x - 1 + i - 1]
    BY <1>2
  <2>6. ASSUME NEW i \in 1..(y - x + 1) PROVE SubSeq(u, x, y)[i] = s[i]
    <3>1. x + i - 1 \in 1..(b - a + 1) /\ a + (x + i - 1) - 1 = a + x - 1 + i - 1
      BY <1>2
    <3> HIDE DEF s
    <3> QED BY <3>1, <2>1, <2>4, <2>5
  <2> HIDE DEF s
  <2>7. SubSeq(u, x, y) = s
    BY <2>3, <2>5, <2>6
  <2> QED BY <1>1, <2>7 DEF s
<1>3. CASE ~(x <= y)
  <2>1. SubSeq(u, x, y) = <<>>
    BY <1>3
  <2>2. SubSeq(t, a + x - 1, a + y - 1) = <<>>
    BY <1>3
  <2> QED BY <1>1, <2>1, <2>2
<1> QED BY <1>2, <1>3

LEMMA TrimOf ==
    ASSUME NEW C, NEW t \in Seq(C), NEW a \in Nat, NEW b \in Nat, a >= 1, b <= Len(t)
    PROVE  Trim(SubSeq(t, a, b)) = Core(t, a, b)
<1> DEFINE N == Inked(t, a, b)
<1>1. PICK u : u = SubSeq(t, a, b)
  OBVIOUS
<1>2. CASE N = {}
  <2>1. NonBlank(u) = {}
    <3>1. CASE a <= b
      <4>1. Len(u) = b - a + 1 /\ \A i \in 1..(b - a + 1) : u[i] = t[a + i - 1]
        BY <1>1, <3>1
      <4>2. ASSUME NEW i \in 1..(b - a + 1) PROVE u[i] = Blank
        <5>1. a + i - 1 \in a..b
          OBVIOUS
        <5> QED BY <1>2, <4>1, <5>1 DEF Inked
      <4> QED BY <4>1, <4>2 DEF NonBlank
    <3>2. CASE ~(a <= b)
      <4>1. u = <<>> /\ Len(u) = 0
        BY <1>1, <3>2
      <4> QED BY <4>1 DEF NonBlank
    <3> QED BY <3>1, <3>2
  <2> QED BY <1>1, <1>2, <2>1 DEF Trim, Core
<1>3. CASE N # {}
  <2>1. PICK f \in N : f = FirstOf(N) /\ \A y \in N : f <= y
    BY <1>3, EndsOf
  <2>2. PICK l \in N : l = LastOf(N) /\ \A y \in N : y <= l
    BY <1>3, EndsOf
  <2>3. f \in a..b /\ l \in a..b /\ f <= l
    BY <2>1, <2>2 DEF Inked
  <2>4. a <= b
    BY <2>3
  <2>5. u \in Seq(C) /\ Len(u) = b - a + 1 /\ \A i \in 1..(b - a + 1) : u[i] = t[a + i - 1]
    BY <1>1, <2>4
  <2>6. NonBlank(u) = {i \in 1..(b - a + 1) : a + i - 1 \in N}
    <3>1. NonBlank(u) = {i \in 1..(b - a + 1) : u[i] # Blank}
      BY <2>5 DEF NonBlank
    <3>2. ASSUME NEW i \in 1..(b - a + 1) PROVE u[i] # Blank <=> a + i - 1 \in N
      <4>1. a + i - 1 \in a..b /\ u[i] = t[a + i - 1]
        BY <2>5
      <4> QED BY <4>1 DEF Inked
    <3> HIDE DEF N
    <3> QED BY <3>1, <3>2
  <2> DEFINE f0 == f - a + 1
             l0 == l - a + 1
  <2>7. f0 \in NonBlank(u) /\ l0 \in NonBlank(u)
    <3>1. f0 \in 1..(b - a + 1) /\ a + f0 - 1 = f /\ l0 \in 1..(b - a + 1) /\ a + l0 - 1 = l
      BY <2>3
    <3> QED BY <3>1, <2>6
  <2>8. ASSUME NEW i \in NonBlank(u) PROVE i \in Nat /\ f0 <= i /\ i <= l0
    <3>1. i \in 1..(b - a + 1) /\ a + i - 1 \in N
      BY <2>6
    <3>2. f <= a + i - 1 /\ a + i - 1 <= l
      BY <2>1, <2>2, <3>1
    <3> QED BY <2>3, <3>1, <3>2
  <2>9. FirstOf(NonBlank(u)) = f0 /\ LastOf(NonBlank(u)) = l0
    <3>1. NonBlank(u) \subseteq Nat
      BY <2>8
    <3> HIDE DEF f0, l0
    <3> QED BY <3>1, <2>7, <2>8, FirstIs, LastIs
  <2>10. Trim(u) = SubSeq(u, f0, l0)
    BY <2>7, <2>9 DEF Trim
  <2>11. SubSeq(u, f0, l0) = SubSeq(t, f, l)
    <3>1. f0 \in Nat /\ l0 \in Nat /\ f0 >= 1 /\ a + l0 - 1 <= b /\ a + f0 - 1 = f /\ a + l0 - 1 = l
      BY <2>3
    <3> HIDE DEF f0, l0
    <3>2. SubSeq(SubSeq(t, a, b), f0, l0) = SubSeq(t, a + f0 - 1, a + l0 - 1)
      BY <3>1, SubSub
    <3> QED BY <1>1, <3>1, <3>2
  <2> HIDE DEF N
  <2>12. Core(t, a, b) = SubSeq(t, f, l)
    BY <1>3, <2>1, <2>2, Zenon DEF Core, N
  <2> QED BY <1>1, <2>10, <2>11, <2>12
<1> QED BY <1>2, <1>3

LEMMA TrimAll ==
    ASSUME NEW t
    PROVE  Trim(t) = Core(t, 1, Len(t)) /\ NonBlank(t) = Inked(t, 1, Len(t))
BY DEF Trim, Core, Inked, NonBlank

\* Blanks more or less do not count.
LEMMA TrimSame ==
    ASSUME NEW C, NEW t \in Seq(C), NEW a \in Nat, NEW b \in Nat, a >= 1, b <= Len(t),
           NEW x \in Nat, NEW y \in Nat, x >= 1, y <= Len(t), Inked(t, a, b) = Inked(t, x, y)
    PROVE  Trim(SubSeq(t, a, b)) = Trim(SubSeq(t, x, y))
<1>1. Core(t, a, b) = Core(t, x, y)
  BY DEF Core
<1> QED BY <1>1, TrimOf

LEMMA TrimTwice ==
    ASSUME NEW C, NEW t \in Seq(C)
    PROVE  Trim(Trim(t)) = Trim(t)
<1> DEFINE N == Inked(t, 1, Len(t))
<1>1. Len(t) \in Nat /\ N = NonBlank(t)
  BY TrimAll
<1>2. CASE N = {}
  BY <1>1, <1>2, TrimEmpty DEF Trim
<1>3. CASE N # {}
  <2>1. PICK f \in N : f = FirstOf(N) /\ \A y \in N : f <= y
    BY <1>1, <1>3, EndsOf
  <2>2. PICK l \in N : l = LastOf(N) /\ \A y \in N : y <= l
    BY <1>1, <1>3, EndsOf
  <2>3. f \in 1..Len(t) /\ l \in 1..Len(t)
    BY DEF Inked
  <2>4. Trim(t) = SubSeq(t, f, l)
    BY <1>1, <1>3, <2>1, <2>2 DEF Trim
  <2>5. Inked(t, f, l) = N
    <3>1. \A y \in N : y \in 1..Len(t) /\ t[y] # Blank /\ y \in f..l
      BY <2>1, <2>2, <2>3 DEF Inked
    <3>2. \A y \in f..l : y \in 1..Len(t)
      BY <2>3
    <3> QED BY <3>1, <3>2 DEF Inked
  <2>6. Trim(SubSeq(t, f, l)) = Core(t, f, l)
    BY <2>3, TrimOf
  <2>7. Core(t, f, l) = Core(t, 1, Len(t))
    BY <2>5 DEF Core
  <2> QED BY <2>4, <2>6, <2>7, TrimAll
<1> QED BY <1>2, <1>3

LEMMA TrimAfterEnd ==
    ASSUME NEW C, NEW t \in Seq(C)
    PROVE  Trim(TrimEnd(t)) = Trim(t)
<1> DEFINE N == Inked(t, 1, Len(t))
           M == N \cup {0}
<1>1. Len(t) \in Nat /\ N = NonBlank(t)
  BY TrimAll
<1>2. M \subseteq 0..Len(t) /\ M # {} /\ M \subseteq Nat
  BY <1>1 DEF Inked
<1>3. PICK l \in M : \A y \in M : y <= l
  BY <1>1, <1>2, GreatestNatural
<1>4. LastOf(M) = l
  BY <1>2, <1>3, LastIs
<1>5. TrimEnd(t) = SubSeq(t, 1, l)
  BY <1>1, <1>4 DEF TrimEnd
<1>6. l \in 0..Len(t)
  BY <1>2
<1>7. Inked(t, 1, l) = N
  <2>1. \A y \in N : y \in 1..Len(t) /\ t[y] # Blank /\ y \in 1..l
    BY <1>3, <1>6 DEF Inked
  <2>2. \A y \in 1..l : y \in 1..Len(t)
    BY <1>1, <1>6
  <2> QED BY <2>1, <2>2 DEF Inked
<1>8. Trim(SubSeq(t, 1, l)) = Core(t, 1, l)
  BY <1>6, <1>1, TrimOf
<1>9. Core(t, 1, l) = Core(t, 1, Len(t))
  BY <1>7 DEF Core
<1> QED BY <1>5, <1>8, <1>9, TrimAll

-----------------------------------------------------------------------------
(* The k-th of a set of positions.                                         *)

UpToAnd(S, x) == {j \in S : j <= x}

LEMMA NthIs ==
    ASSUME NEW S \in SUBSET Nat, NEW x \in S, NEW k, Cardinality(UpToAnd(S, x)) = k
    PROVE  Nth(S, k) = x
<1>1. ASSUME NEW y \in S PROVE UpToAnd(S, y) \in SUBSET Nat /\ \A s \in UpToAnd(S, y) : s <= y
  BY DEF UpToAnd
<1>2. ASSUME NEW y \in S PROVE IsFiniteSet(UpToAnd(S, y)) /\ Cardinality(UpToAnd(S, y)) \in Nat
  <2>1. IsFiniteSet(UpToAnd(S, y))
    BY <1>1, FS_BoundedSetOfNaturals
  <2> QED BY <2>1, FS_CardinalityType
<1>3. ASSUME NEW y \in S, NEW z \in S, y < z
      PROVE  Cardinality(UpToAnd(S, y)) # Cardinality(UpToAnd(S, z))
  <2>1. UpToAnd(S, y) \in SUBSET UpToAnd(S, z) /\ z \in UpToAnd(S, z) /\ z \notin UpToAnd(S, y)
    <3>1. y \in Nat /\ z \in Nat /\ z <= z /\ ~(z <= y)
      BY <1>3
    <3>2. \A j \in S : j <= y => j <= z
      <4> TAKE j \in S
      <4>1. j \in Nat
        OBVIOUS
      <4> QED BY <4>1, <3>1, <1>3
    <3> QED BY <3>1, <3>2 DEF UpToAnd
  <2>2. UpToAnd(S, z) # UpToAnd(S, y)
    BY <2>1
  <2> QED BY <2>1, <2>2, <1>2, FS_Subset
<1>4. ASSUME NEW y \in S, Cardinality(UpToAnd(S, y)) = k PROVE y = x
  <2>1. y \in Nat /\ x \in Nat
    OBVIOUS
  <2>2. ~(y < x) /\ ~(x < y)
    BY <1>3, <1>4
  <2> QED BY <2>1, <2>2
<1>5. \A y : Cardinality({j \in S : j <= y}) = Cardinality(UpToAnd(S, y))
  BY DEF UpToAnd
<1>6. Nth(S, k) = CHOOSE i \in S : Cardinality(UpToAnd(S, i)) = k
  BY DEF Nth, UpToAnd
<1> QED BY <1>4, <1>6

\* The positions p[1] < p[2] < ... of S, up to the last of them all there are.
LEMMA NthOf ==
    ASSUME NEW S \in SUBSET Nat, NEW m \in Nat, NEW p \in [1..m -> S],
           \A l, k \in 1..m : l < k => p[l] < p[k],
           \A k \in 1..m : \A j \in S : j <= p[k] => \E l \in 1..m : l <= k /\ j = p[l]
    PROVE  \A k \in 1..m : Nth(S, k) = p[k]
<1> TAKE k \in 1..m
<1>1. UpToAnd(S, p[k]) = {p[l] : l \in 1..k}
  <2>1. \A l \in 1..k : l \in 1..m /\ p[l] \in S /\ p[l] <= p[k]
    <3> TAKE l \in 1..k
    <3>1. l \in 1..m /\ p[l] \in S /\ p[k] \in S
      OBVIOUS
    <3>2. p[l] \in Nat /\ p[k] \in Nat
      BY <3>1
    <3>3. l = k \/ l < k
      OBVIOUS
    <3> QED BY <3>1, <3>2, <3>3
  <2>2. \A j \in S : j <= p[k] => \E l \in 1..k : j = p[l]
    OBVIOUS
  <2> QED BY <2>1, <2>2 DEF UpToAnd
<1> DEFINE T == {p[l] : l \in 1..k}
           f == [l \in 1..k |-> p[l]]
<1>2. f \in [1..k -> T] /\ \A x \in T : \E l \in 1..k : f[l] = x
  OBVIOUS
<1>3. \A a, b \in 1..k : f[a] = f[b] => a = b
  <2> TAKE a, b \in 1..k
  <2>0. a \in 1..m /\ b \in 1..m /\ p[a] \in S /\ p[b] \in S
    OBVIOUS
  <2>1. a \in 1..m /\ b \in 1..m /\ p[a] \in Nat /\ p[b] \in Nat
    BY <2>0
  <2>2. f[a] = p[a] /\ f[b] = p[b]
    OBVIOUS
  <2>3. a < b \/ b < a \/ a = b
    OBVIOUS
  <2> QED BY <2>1, <2>2, <2>3
<1> HIDE DEF f, T
<1>4. f \in Bijection(1..k, T)
  BY <1>2, <1>3 DEF Bijection, Injection, Surjection, IsInjective
<1>5. ExistsBijection(1..k, T)
  BY <1>4 DEF ExistsBijection
<1>6. Cardinality(T) = k
  BY <1>5, FS_CountingElements
<1>7. p[k] \in S /\ Cardinality(UpToAnd(S, p[k])) = k
  BY <1>1, <1>6 DEF T
<1> QED BY <1>7, NthIs

LEMMA AtLeast ==
    ASSUME NEW S, IsFiniteSet(S), NEW m \in Nat, NEW p \in [1..m -> S],
           \A l, k \in 1..m : p[l] = p[k] => l = k
    PROVE  m <= Cardinality(S) /\ Cardinality(S) \in Nat
<1>1. p \in Injection(1..m, S)
  BY DEF Injection, IsInjective
<1>2. Cardinality(1..m) <= Cardinality(S)
  BY <1>1, FS_Injection
<1>3. Cardinality(1..m) = m
  BY FS_Interval
<1>4. Cardinality(S) \in Nat
  BY FS_CardinalityType
<1> QED BY <1>2, <1>3, <1>4

-----------------------------------------------------------------------------
(* Where the columns are in a row.                                         *)

Bar(s, u, c) == s \o <<c>> \o u

LEMMA ConcatThree ==
    ASSUME NEW s \in Seq(Characters), NEW u \in Seq(Characters), NEW c \in Characters
    PROVE  LET x == Bar(s, u, c) IN
           /\ x \in Seq(Characters) /\ Len(x) = Len(s) + 1 + Len(u)
           /\ \A i \in 1..Len(s) : x[i] = s[i]
           /\ x[Len(s) + 1] = c
           /\ \A i \in 1..Len(u) : x[Len(s) + 1 + i] = u[i]
<1>1. PICK o \in Seq(Characters) : o = <<c>>
  <2>1. <<c>> \in Seq(Characters)
    OBVIOUS
  <2> QED BY <2>1
<1>a. Len(o) = 1 /\ o[1] = c
  BY <1>1
<1>2. s \o o \in Seq(Characters)
  OBVIOUS
<1>b. PICK y \in Seq(Characters) : y = s \o o
  BY <1>2
<1>d. Len(y) = Len(s) + Len(o) /\ \A i \in 1..(Len(s) + Len(o)) : y[i] = IF i <= Len(s) THEN s[i] ELSE o[i - Len(s)]
  BY <1>b, ConcatProperties
<1>3. Len(y) = Len(s) + 1 /\ (\A i \in 1..Len(s) : y[i] = s[i]) /\ y[Len(s) + 1] = c
  BY <1>a, <1>d
<1>c. y \o u \in Seq(Characters)
  OBVIOUS
<1>4. PICK x \in Seq(Characters) : x = y \o u
  BY <1>c
<1>e. Len(x) = Len(y) + Len(u) /\ \A i \in 1..(Len(y) + Len(u)) : x[i] = IF i <= Len(y) THEN y[i] ELSE u[i - Len(y)]
  BY <1>4, ConcatProperties
<1>5. Len(x) = Len(s) + 1 + Len(u) /\ \A i \in 1..Len(y) : x[i] = y[i]
  BY <1>3, <1>e
<1>6. (\A i \in 1..Len(s) : x[i] = s[i]) /\ x[Len(s) + 1] = c
  BY <1>3, <1>5
<1>7. ASSUME NEW i \in 1..Len(u) PROVE x[Len(s) + 1 + i] = u[i]
  <2> DEFINE j == Len(y) + i
  <2>1. j = Len(s) + 1 + i /\ j \in 1..(Len(y) + Len(u)) /\ ~(j <= Len(y)) /\ j - Len(y) = i
    BY <1>3
  <2>2. x[j] = u[j - Len(y)]
    BY <1>e, <2>1
  <2> QED BY <2>1, <2>2
<1>8. x = Bar(s, u, c)
  BY <1>1, <1>b, <1>4 DEF Bar
<1> QED BY <1>5, <1>6, <1>7, <1>8

EndOf(row, k) == Len(JoinOf(row)[k])
StartOf(row, k) == IF k = 1 THEN 1 ELSE EndOf(row, k - 1) + 2

LEMMA JoinStep ==
    ASSUME NEW row \in Seq(Seq(Characters)), NEW k \in 1..(Len(row) - 1)
    PROVE  LET J == JoinOf(row) IN
           /\ J[k] \in Seq(Characters) /\ J[k + 1] \in Seq(Characters) /\ EndOf(row, k) \in Nat
           /\ EndOf(row, k + 1) = EndOf(row, k) + 1 + Len(row[k + 1])
           /\ \A i \in 1..EndOf(row, k) : J[k + 1][i] = J[k][i]
           /\ J[k + 1][EndOf(row, k) + 1] = Delimiter
           /\ \A i \in 1..Len(row[k + 1]) : J[k + 1][EndOf(row, k) + 1 + i] = row[k + 1][i]
<1> DEFINE J == JoinOf(row)
<1>0. PICK n \in Nat : n = Len(row)
  OBVIOUS
<1>1. k \in 1..n /\ k + 1 \in 1..n /\ k + 1 # 1 /\ (k + 1) - 1 = k
  BY <1>0
<1>2. J[k] \in Seq(Characters) /\ row[k + 1] \in Seq(Characters)
  BY <1>0, <1>1, JoinTypes
<1>3. J[k + 1] = J[k] \o <<Delimiter>> \o row[k + 1]
  BY <1>0, <1>1, JoinIs
<1>4. Delimiter \in Characters
  BY CharacterTypes
<1> HIDE DEF J
<1>5. PICK s \in Seq(Characters) : s = J[k]
  BY <1>2
<1>6. PICK u \in Seq(Characters) : u = row[k + 1]
  BY <1>2
<1>b. PICK c \in Characters : c = Delimiter
  BY <1>4
<1>7. PICK x : x = Bar(s, u, c)
  OBVIOUS
<1>8. /\ x \in Seq(Characters) /\ Len(x) = Len(s) + 1 + Len(u)
      /\ \A i \in 1..Len(s) : x[i] = s[i]
      /\ x[Len(s) + 1] = c
      /\ \A i \in 1..Len(u) : x[Len(s) + 1 + i] = u[i]
  <2>1. /\ Bar(s, u, c) \in Seq(Characters) /\ Len(Bar(s, u, c)) = Len(s) + 1 + Len(u)
        /\ \A i \in 1..Len(s) : Bar(s, u, c)[i] = s[i]
        /\ Bar(s, u, c)[Len(s) + 1] = c
        /\ \A i \in 1..Len(u) : Bar(s, u, c)[Len(s) + 1 + i] = u[i]
    BY ConcatThree, Zenon
  <2> QED BY <1>7, <2>1, Zenon
<1>9. x = J[k + 1] /\ EndOf(row, k) = Len(s) /\ EndOf(row, k + 1) = Len(x) /\ Len(s) \in Nat
  BY <1>3, <1>5, <1>6, <1>7, <1>b DEF EndOf, J, Bar
<1> QED BY <1>b, <1>5, <1>6, <1>8, <1>9 DEF J

LEMMA JoinPrefix ==
    ASSUME NEW row \in Seq(Seq(Characters)), NEW k \in 1..Len(row)
    PROVE  \A m \in k..Len(row) :
              /\ EndOf(row, k) \in Nat /\ EndOf(row, m) \in Nat /\ EndOf(row, k) <= EndOf(row, m)
              /\ \A i \in 1..EndOf(row, k) : JoinOf(row)[m][i] = JoinOf(row)[k][i]
<1> DEFINE J == JoinOf(row)
           P(m) == /\ EndOf(row, m) \in Nat /\ EndOf(row, k) <= EndOf(row, m)
                   /\ \A i \in 1..EndOf(row, k) : J[m][i] = J[k][i]
           bad == {m \in k..Len(row) : ~P(m)}
<1>0. PICK n \in Nat : n = Len(row)
  OBVIOUS
<1>1. EndOf(row, k) \in Nat
  <2>1. J[k] \in Seq(Characters)
    BY JoinTypes
  <2> QED BY <2>1 DEF EndOf
<1> SUFFICES ASSUME bad # {} PROVE FALSE
  BY <1>1
<1>2. PICK m \in bad : \A y \in bad : m <= y
  <2>1. bad \subseteq Nat
    BY <1>0
  <2> QED BY <2>1, LeastNatural
<1>3. m \in k..n /\ ~P(m)
  BY <1>0
<1>4. m # k
  BY <1>1, <1>3
<1>5. PICK l \in k..n : m = l + 1 /\ l \in 1..(n - 1)
  <2>1. m - 1 \in k..n /\ m = (m - 1) + 1 /\ m - 1 \in 1..(n - 1)
    BY <1>0, <1>3, <1>4
  <2> QED BY <2>1
<1>6. P(l)
  <2>1. l \notin bad
    BY <1>2, <1>5
  <2> QED BY <2>1, <1>5, <1>0
<1> HIDE DEF bad
<1>7. /\ EndOf(row, l) \in Nat /\ EndOf(row, l + 1) = EndOf(row, l) + 1 + Len(row[l + 1])
      /\ \A i \in 1..EndOf(row, l) : J[l + 1][i] = J[l][i]
  BY <1>0, <1>5, JoinStep
<1>8. Len(row[l + 1]) \in Nat
  <2>1. l + 1 \in 1..Len(row)
    BY <1>0, <1>5
  <2>2. row[l + 1] \in Seq(Characters)
    BY <2>1
  <2> QED BY <2>2
<1> HIDE DEF J
<1>9. EndOf(row, m) \in Nat /\ EndOf(row, k) <= EndOf(row, m)
  BY <1>1, <1>5, <1>6, <1>7, <1>8
<1>10. ASSUME NEW i \in 1..EndOf(row, k) PROVE J[m][i] = J[k][i]
  <2>1. i \in 1..EndOf(row, l)
    BY <1>1, <1>6
  <2> QED BY <2>1, <1>5, <1>6, <1>7
<1> QED BY <1>3, <1>9, <1>10

LEMMA ColumnAt ==
    ASSUME NEW row \in Seq(Seq(Characters)), NEW k \in 1..Len(row)
    PROVE  /\ row[k] \in Seq(Characters)
           /\ EndOf(row, k) \in Nat /\ StartOf(row, k) \in Nat /\ StartOf(row, k) >= 1
           /\ EndOf(row, k) = StartOf(row, k) + Len(row[k]) - 1
           /\ Joined(row) \in Seq(Characters) /\ EndOf(row, Len(row)) = Len(Joined(row))
           /\ EndOf(row, k) <= Len(Joined(row))
           /\ \A i \in 1..Len(row[k]) : Joined(row)[StartOf(row, k) - 1 + i] = row[k][i]
<1> DEFINE t == Joined(row)
           J == JoinOf(row)
<1>0. PICK n \in Nat : n = Len(row) /\ k \in 1..n /\ n \in k..n
  OBVIOUS
<1>1. t = J[n] /\ t \in Seq(Characters) /\ EndOf(row, n) = Len(t)
  BY <1>0, JoinIs, JoinTypes DEF EndOf
<1>2. row[k] \in Seq(Characters) /\ Len(row[k]) \in Nat
  OBVIOUS
<1>3. /\ EndOf(row, k) \in Nat /\ EndOf(row, k) <= Len(t)
      /\ \A i \in 1..EndOf(row, k) : t[i] = J[k][i]
  BY <1>0, <1>1, JoinPrefix
<1> HIDE DEF t, J
<1>4. CASE k = 1
  <2>1. J[k] = row[k]
    BY <1>0, <1>4, JoinIs DEF J
  <2>2. EndOf(row, k) = Len(row[k]) /\ StartOf(row, k) = 1
    BY <1>4, <2>1 DEF EndOf, StartOf, J
  <2>3. \A i \in 1..Len(row[k]) : t[i] = row[k][i] /\ 1 - 1 + i = i
    BY <1>2, <1>3, <2>1, <2>2
  <2> QED BY <1>0, <1>1, <1>2, <1>3, <2>2, <2>3 DEF t
<1>5. CASE k # 1
  <2>1. PICK l \in 1..(n - 1) : k = l + 1
    <3>1. k - 1 \in 1..(n - 1) /\ k = (k - 1) + 1
      BY <1>0, <1>5
    <3> QED BY <3>1
  <2>2. /\ EndOf(row, l) \in Nat /\ EndOf(row, k) = EndOf(row, l) + 1 + Len(row[k])
        /\ \A i \in 1..Len(row[k]) : J[k][EndOf(row, l) + 1 + i] = row[k][i]
    BY <1>0, <2>1, JoinStep DEF J
  <2>3. k - 1 = l
    BY <2>1
  <2>4. StartOf(row, k) = EndOf(row, l) + 2
    BY <1>5, <2>3 DEF StartOf
  <2>5. ASSUME NEW i \in 1..Len(row[k]) PROVE t[StartOf(row, k) - 1 + i] = row[k][i]
    <3>1. \A e, s, f, m \in Nat : \A j \in 1..m : f = e + 1 + m /\ s = e + 2 =>
             s - 1 + j = e + 1 + j /\ e + 1 + j \in 1..f
      OBVIOUS
    <3>a. StartOf(row, k) \in Nat
      BY <2>2, <2>4
    <3>2. StartOf(row, k) - 1 + i = EndOf(row, l) + 1 + i /\ EndOf(row, l) + 1 + i \in 1..EndOf(row, k)
      BY <3>1, <3>a, <1>2, <1>3, <2>2, <2>4
    <3> QED BY <3>2, <2>2, <1>3
  <2>6. StartOf(row, k) \in Nat /\ StartOf(row, k) >= 1 /\ EndOf(row, k) = StartOf(row, k) + Len(row[k]) - 1
    <3>1. StartOf(row, k) \in Nat /\ StartOf(row, k) >= 1
      BY <2>2, <2>4
    <3>2. PICK e \in Nat, m \in Nat : e = EndOf(row, l) /\ m = Len(row[k])
      BY <1>2, <2>2
    <3>4. EndOf(row, k) = e + 1 + m /\ StartOf(row, k) = e + 2
      BY <3>2, <2>2, <2>4
    <3>5. e + 1 + m = (e + 2) + m - 1
      OBVIOUS
    <3>3. EndOf(row, k) = StartOf(row, k) + Len(row[k]) - 1
      BY <3>2, <3>4, <3>5
    <3> QED BY <3>1, <3>3
  <2> QED BY <1>0, <1>1, <1>2, <1>3, <2>5, <2>6 DEF t
<1> QED BY <1>4, <1>5

LEMMA BarAt ==
    ASSUME NEW row \in Seq(Seq(Characters)), NEW k \in 1..(Len(row) - 1)
    PROVE  /\ EndOf(row, k) \in Nat /\ StartOf(row, k + 1) = EndOf(row, k) + 2
           /\ EndOf(row, k) + 1 <= EndOf(row, k + 1)
           /\ EndOf(row, k) + 1 <= Len(Joined(row)) /\ Joined(row)[EndOf(row, k) + 1] = Delimiter
<1>0. PICK n \in Nat : n = Len(row) /\ k \in 1..n /\ k + 1 \in 1..n /\ n \in (k + 1)..n
  OBVIOUS
<1>1. Joined(row) = JoinOf(row)[n]
  BY <1>0, JoinIs
<1>2. Len(row[k + 1]) \in Nat
  <2>1. row[k + 1] \in Seq(Characters)
    BY <1>0, ColumnAt
  <2> QED BY <2>1
<1>3. /\ EndOf(row, k) \in Nat /\ EndOf(row, k + 1) = EndOf(row, k) + 1 + Len(row[k + 1])
      /\ JoinOf(row)[k + 1][EndOf(row, k) + 1] = Delimiter
  BY <1>0, JoinStep
<1>4. /\ EndOf(row, k + 1) \in Nat /\ EndOf(row, k + 1) <= Len(Joined(row))
  BY <1>0, ColumnAt
<1>5. \A i \in 1..EndOf(row, k + 1) : JoinOf(row)[n][i] = JoinOf(row)[k + 1][i]
  BY <1>0, JoinPrefix
<1>6. Joined(row)[EndOf(row, k) + 1] = Delimiter
  <2>1. EndOf(row, k) + 1 \in 1..EndOf(row, k + 1)
    BY <1>2, <1>3, <1>4
  <2> QED BY <2>1, <1>1, <1>3, <1>5
<1>7. k + 1 # 1 /\ (k + 1) - 1 = k
  BY <1>0
<1>8. StartOf(row, k + 1) = EndOf(row, k) + 2
  BY <1>7 DEF StartOf
<1>9. Len(Joined(row)) \in Nat
  <2>1. Joined(row) \in Seq(Characters)
    BY <1>0, ColumnAt
  <2> QED BY <2>1
<1>10. PICK e \in Nat, f \in Nat, m \in Nat, g \in Nat :
          e = EndOf(row, k) /\ f = EndOf(row, k + 1) /\ m = Len(row[k + 1]) /\ g = Len(Joined(row))
  BY <1>2, <1>3, <1>4, <1>9
<1>11. f = e + 1 + m /\ f <= g
  BY <1>3, <1>4, <1>10
<1>12. e + 1 <= f /\ e + 1 <= g
  BY <1>11
<1> QED BY <1>6, <1>8, <1>10, <1>12

LEMMA ColumnText ==
    ASSUME NEW row \in Seq(Seq(Characters)), NEW k \in 1..Len(row)
    PROVE  SubSeq(Joined(row), StartOf(row, k), EndOf(row, k)) = row[k]
<1>1. PICK t \in Seq(Characters) : t = Joined(row)
  BY ColumnAt
<1>2. PICK u \in Seq(Characters) : u = row[k]
  BY ColumnAt
<1>3. PICK a \in Nat : a = StartOf(row, k)
  BY ColumnAt
<1>4. PICK b \in Nat : b = EndOf(row, k)
  BY ColumnAt
<1>5. a >= 1 /\ b = a + Len(u) - 1 /\ b <= Len(t) /\ \A i \in 1..Len(u) : t[a - 1 + i] = u[i]
  BY <1>1, <1>2, <1>3, <1>4, ColumnAt
<1>6. PICK v : v = SubSeq(t, a, b)
  OBVIOUS
<1>7. Len(u) \in Nat
  OBVIOUS
<1>8. v \in Seq(Characters) /\ Len(v) = Len(u) /\ \A i \in 1..Len(u) : v[i] = t[a + i - 1]
  BY <1>5, <1>6, <1>7
<1>9. ASSUME NEW i \in 1..Len(u) PROVE v[i] = u[i]
  <2>1. a + i - 1 = a - 1 + i
    BY <1>7
  <2> QED BY <2>1, <1>5, <1>8
<1>10. v = u
  BY <1>8, <1>9, SeqEqual
<1> QED BY <1>1, <1>2, <1>3, <1>4, <1>6, <1>10

-----------------------------------------------------------------------------
(* A row is split where its columns end.                                   *)

Bars(t) == {i \in 1..Len(t) : t[i] = Delimiter}

LEMMA ColumnsRise ==
    ASSUME NEW row \in Seq(Seq(Characters)), NEW l \in 1..(Len(row) - 1), NEW k \in 1..(Len(row) - 1), l < k
    PROVE  EndOf(row, l) < EndOf(row, k) /\ EndOf(row, l) \in Nat /\ EndOf(row, k) \in Nat
<1>0. PICK n \in Nat : n = Len(row) /\ l + 1 \in 1..n /\ k \in (l + 1)..n
  OBVIOUS
<1>1. EndOf(row, l) \in Nat /\ EndOf(row, l) + 1 <= EndOf(row, l + 1)
  BY BarAt
<1>2. EndOf(row, l + 1) \in Nat /\ EndOf(row, k) \in Nat /\ EndOf(row, l + 1) <= EndOf(row, k)
  BY <1>0, JoinPrefix
<1> QED BY <1>1, <1>2

\* A delimiter up to the end of a column is the end of a column.
LEMMA BarsEnd ==
    ASSUME NEW row \in Seq(Seq(Characters)), Splittable(row), NEW k \in 1..(Len(row) - 1),
           NEW q \in Nat, q >= 1, q <= EndOf(row, k) + 1, Joined(row)[q] = Delimiter
    PROVE  \E l \in 1..k : q = EndOf(row, l) + 1
<1> DEFINE T == {l \in 1..k : q <= EndOf(row, l) + 1}
<1>0. PICK n \in Nat : n = Len(row) /\ k \in 1..(n - 1)
  OBVIOUS
<1>1. T \subseteq Nat /\ k \in T
  BY <1>0
<1>2. PICK l \in T : \A j \in T : l <= j
  BY <1>1, LeastNatural
<1>3. l \in 1..k /\ q <= EndOf(row, l) + 1 /\ l \in 1..n /\ l \in 1..(n - 1)
  BY <1>0
<1>4. PICK a \in Nat : a = StartOf(row, l)
  BY <1>0, <1>3, ColumnAt
<1>5. PICK b \in Nat : b = EndOf(row, l)
  BY <1>0, <1>3, ColumnAt
<1>6. PICK u \in Seq(Characters) : u = row[l]
  BY <1>0, <1>3, ColumnAt
<1>7. a >= 1 /\ b = a + Len(u) - 1 /\ \A i \in 1..Len(u) : Joined(row)[a - 1 + i] = u[i]
  BY <1>0, <1>3, <1>4, <1>5, <1>6, ColumnAt
<1>8. q >= a
  <2>1. CASE l = 1
    BY <2>1, <1>4 DEF StartOf
  <2>2. CASE l # 1
    <3>1. PICK j \in 1..k : l = j + 1 /\ j \in 1..(n - 1)
      <4>1. l - 1 \in 1..k /\ l = (l - 1) + 1 /\ l - 1 \in 1..(n - 1)
        BY <2>2, <1>0, <1>3
      <4> QED BY <4>1
    <3>2. j \notin T
      BY <1>2, <3>1
    <3>3. EndOf(row, j) \in Nat /\ a = EndOf(row, j) + 2
      BY <1>0, <1>4, <3>1, BarAt
    <3>4. ~(q <= EndOf(row, j) + 1)
      BY <3>2
    <3> QED BY <3>3, <3>4
  <2> QED BY <2>1, <2>2
<1> HIDE DEF T
<1>9. q = b + 1
  <2> SUFFICES ASSUME q # b + 1 PROVE FALSE
    OBVIOUS
  <2>1. q <= b
    BY <1>3, <1>5, SMTT(30)
  <2>2. Len(u) \in Nat
    OBVIOUS
  <2>3. PICK i \in 1..Len(u) : q = a - 1 + i
    <3>1. q - a + 1 \in 1..Len(u) /\ q = a - 1 + (q - a + 1)
      BY <1>7, <1>8, <2>1, <2>2
    <3> QED BY <3>1
  <2>4. u[i] = Delimiter
    BY <1>7, <2>3
  <2>5. row[l][i] # Delimiter
    BY <1>0, <1>3, <1>6 DEF Splittable
  <2> QED BY <2>4, <2>5, <1>6
<1> QED BY <1>3, <1>5, <1>9

LEMMA OneColumn ==
    ASSUME NEW t \in Seq(Characters)
    PROVE  Len(SplitN(t, 1)) = 1 /\ SplitN(t, 1)[1] = t
<1> DEFINE m == IF Cardinality(Bars(t)) < 1 THEN Cardinality(Bars(t)) + 1 ELSE 1
<1>1. Cardinality(Bars(t)) \in Nat
  <2>1. IsFiniteSet(1..Len(t))
    BY FS_Interval
  <2>2. Bars(t) \subseteq 1..Len(t)
    BY DEF Bars
  <2> QED BY <2>1, <2>2, FS_Subset, FS_CardinalityType
<1>2. m = 1
  BY <1>1
<1> HIDE DEF m
<1>3. SplitN(t, 1) = [k \in 1..m |-> SubSeq(t, IF k = 1 THEN 1 ELSE Nth(Bars(t), k - 1) + 1,
                                               IF k = m THEN Len(t) ELSE Nth(Bars(t), k) - 1)]
  BY Zenon DEF SplitN, Bars, m
<1>4. 1 \in 1..m /\ Len(t) \in Nat
  BY <1>2
<1>5. SplitN(t, 1)[1] = SubSeq(t, 1, Len(t))
  BY <1>2, <1>3, <1>4
<1>6. SubSeq(t, 1, Len(t)) = t
  OBVIOUS
<1>7. Len(SplitN(t, 1)) = 1
  BY <1>2, <1>3
<1> QED BY <1>5, <1>6, <1>7

\* The first m of the positions in S are p[1] < ... < p[m].
Lists(p, m, S) ==
    /\ p \in [1..m -> S]
    /\ \A l, k \in 1..m : l < k => p[l] < p[k]
    /\ \A k \in 1..m : \A j \in S : j <= p[k] => \E l \in 1..m : l <= k /\ j = p[l]
Piece(t, n, p, k) == SubSeq(t, IF k = 1 THEN 1 ELSE p[k - 1] + 1, IF k = n THEN Len(t) ELSE p[k] - 1)

\* The columns are what lies between the first n - 1 delimiters.
LEMMA SplitAt ==
    ASSUME NEW t \in Seq(Characters), NEW n \in Nat, n >= 2, NEW p, Lists(p, n - 1, Bars(t))
    PROVE  Len(SplitN(t, n)) = n /\ \A k \in 1..n : SplitN(t, n)[k] = Piece(t, n, p, k)
<1>a. /\ p \in [1..(n - 1) -> Bars(t)]
      /\ \A l, k \in 1..(n - 1) : l < k => p[l] < p[k]
      /\ \A k \in 1..(n - 1) : \A j \in Bars(t) : j <= p[k] => \E l \in 1..(n - 1) : l <= k /\ j = p[l]
  BY DEF Lists
<1> DEFINE B == Bars(t)
           m == IF Cardinality(B) < n THEN Cardinality(B) + 1 ELSE n
<1>0. PICK h \in Nat : h = n - 1
  OBVIOUS
<1>1. B \in SUBSET Nat /\ IsFiniteSet(B)
  <2>1. IsFiniteSet(1..Len(t))
    BY FS_Interval
  <2>2. Bars(t) \subseteq 1..Len(t)
    BY DEF Bars
  <2>3. Len(t) \in Nat
    OBVIOUS
  <2> QED BY <2>1, <2>2, <2>3, FS_Subset
<1>2. p \in [1..h -> B]
  BY <1>a, <1>0
<1>3. \A l, k \in 1..h : p[l] = p[k] => l = k
  <2> TAKE l, k \in 1..h
  <2>1. p[l] \in Nat /\ p[k] \in Nat
    BY <1>1, <1>2
  <2>2. l < k => p[l] < p[k]
    BY <1>a, <1>0
  <2>3. k < l => p[k] < p[l]
    BY <1>a, <1>0
  <2> QED BY <2>1, <2>2, <2>3
<1>4. \A k \in 1..h : Nth(B, k) = p[k]
  BY <1>a, <1>0, <1>1, <1>2, NthOf
<1> HIDE DEF B
<1>5. h <= Cardinality(B) /\ Cardinality(B) \in Nat
  BY <1>1, <1>2, <1>3, AtLeast
<1>6. m = n
  BY <1>0, <1>5
<1> HIDE DEF m
<1>7. SplitN(t, n) = [k \in 1..m |-> SubSeq(t, IF k = 1 THEN 1 ELSE Nth(B, k - 1) + 1,
                                               IF k = m THEN Len(t) ELSE Nth(B, k) - 1)]
  BY Zenon DEF SplitN, Bars, m, B
<1>8. Len(SplitN(t, n)) = n
  BY <1>6, <1>7
<1>9. ASSUME NEW k \in 1..n
      PROVE  SplitN(t, n)[k] = Piece(t, n, p, k)
  <2>1. SplitN(t, n)[k] = SubSeq(t, IF k = 1 THEN 1 ELSE Nth(B, k - 1) + 1,
                                    IF k = n THEN Len(t) ELSE Nth(B, k) - 1)
    BY <1>6, <1>7
  <2>2. k # 1 => Nth(B, k - 1) = p[k - 1]
    <3>1. k # 1 => k - 1 \in 1..h
      BY <1>0
    <3> QED BY <3>1, <1>4
  <2>3. k # n => Nth(B, k) = p[k]
    <3>1. k # n => k \in 1..h
      BY <1>0
    <3> QED BY <3>1, <1>4
  <2> QED BY <2>1, <2>2, <2>3, Zenon DEF Piece
<1> QED BY <1>8, <1>9

\* Without the blanks at its ends a row of several columns still has all of
\* them.
LEMMA SplitRows ==
    ASSUME NEW row \in Seq(Seq(Characters)), Splittable(row), NEW n \in Nat, n = Len(row), n >= 2
    PROVE  LET parts == SplitN(Trim(Joined(row)), n) IN
           /\ Len(parts) = n
           /\ \A k \in 1..n : parts[k] \in Seq(Characters) /\ Trim(parts[k]) = Trim(row[k])
<1> DEFINE w == Joined(row)
           E(k) == EndOf(row, k)
           S(k) == StartOf(row, k)
           N == NonBlank(w)
<1>1. n \in 1..n /\ w \in Seq(Characters) /\ E(n) = Len(w) /\ Len(w) \in Nat /\ S(1) = 1
  <2>1. n \in 1..n /\ w \in Seq(Characters) /\ E(n) = Len(w)
    BY ColumnAt
  <2> QED BY <2>1 DEF StartOf
<1>2. N = Inked(w, 1, Len(w))
  BY TrimAll
<1>3. ASSUME NEW k \in 1..(n - 1)
      PROVE  /\ E(k) \in Nat /\ S(k + 1) = E(k) + 2 /\ w[E(k) + 1] = Delimiter /\ E(k) + 1 <= Len(w)
             /\ E(k) + 1 \in N
  <2>1. E(k) \in Nat /\ S(k + 1) = E(k) + 2 /\ w[E(k) + 1] = Delimiter /\ E(k) + 1 <= Len(w)
    BY BarAt
  <2> HIDE DEF w, E
  <2>2. E(k) + 1 \in N
    BY <2>1, <1>1, CharacterTypes DEF NonBlank
  <2> QED BY <2>1, <2>2
<1>4. ASSUME NEW k \in 1..n
      PROVE  /\ E(k) \in Nat /\ S(k) \in Nat /\ S(k) >= 1 /\ E(k) <= Len(w) 
             /\ SubSeq(w, S(k), E(k)) = row[k]
  BY ColumnAt, ColumnText
<1>5. N # {}
  <2>1. 1 \in 1..(n - 1)
    OBVIOUS
  <2> QED BY <2>1, <1>3
<1>6. PICK a \in N : a = FirstOf(N) /\ \A y \in N : a <= y
  BY <1>1, <1>2, <1>5, EndsOf
<1>7. PICK b \in N : b = LastOf(N) /\ \A y \in N : y <= b
  BY <1>1, <1>2, <1>5, EndsOf
<1>8. a \in 1..Len(w) /\ b \in 1..Len(w) /\ a <= b /\ a \in Nat /\ b \in Nat /\ a >= 1 /\ b <= Len(w)
  BY <1>1, <1>6, <1>7 DEF NonBlank
<1>9. PICK t : t = SubSeq(w, a, b)
  OBVIOUS
<1>10. Trim(w) = t
  BY <1>5, <1>6, <1>7, <1>9 DEF Trim
<1>11. t \in Seq(Characters) /\ Len(t) = b - a + 1 /\ \A i \in 1..(b - a + 1) : t[i] = w[a + i - 1]
  <2>1. PICK x \in Seq(Characters) : x = w
    BY <1>1
  <2>2. a >= 1 /\ a <= b /\ b <= Len(x) /\ a \in Nat /\ b \in Nat
    BY <1>8, <2>1
  <2> HIDE DEF w, N
  <2>3. t = SubSeq(x, a, b)
    BY <1>9, <2>1
  <2>4. t \in Seq(Characters) /\ Len(t) = b - a + 1 /\ \A i \in 1..(b - a + 1) : t[i] = x[a + i - 1]
    BY ONLY <2>2, <2>3, x \in Seq(Characters)
  <2> QED BY <2>1, <2>4
<1> DEFINE p == [k \in 1..(n - 1) |-> E(k) + 2 - a]
<1> HIDE DEF w, E, S, N
<1>12. ASSUME NEW k \in 1..(n - 1)
       PROVE  p[k] = E(k) + 2 - a /\ p[k] \in 1..(b - a + 1) /\ a + p[k] - 1 = E(k) + 1
  <2>1. PICK e \in Nat : e = E(k)
    BY <1>3
  <2>2. a <= e + 1 /\ e + 1 <= b
    BY <2>1, <1>3, <1>6, <1>7
  <2>3. p[k] = e + 2 - a
    BY <2>1
  <2>4. e + 2 - a \in 1..(b - a + 1) /\ a + (e + 2 - a) - 1 = e + 1
    BY <2>2, <1>8
  <2> HIDE DEF p
  <2> QED BY <2>1, <2>3, <2>4
<1>13. p \in [1..(n - 1) -> Bars(t)]
  <2>1. ASSUME NEW k \in 1..(n - 1) PROVE p[k] \in Bars(t)
    BY <1>3, <1>11, <1>12 DEF Bars
  <2> QED BY <2>1
<1> HIDE DEF p
<1>14. ASSUME NEW l \in 1..(n - 1), NEW k \in 1..(n - 1), l < k PROVE p[l] < p[k]
  <2>1. E(l) < E(k)
    BY <1>14, ColumnsRise DEF E
  <2> QED BY <2>1, <1>3, <1>8, <1>12
<1>15. ASSUME NEW k \in 1..(n - 1), NEW j \in Bars(t), j <= p[k]
       PROVE  \E l \in 1..(n - 1) : l <= k /\ j = p[l]
  <2>1. j \in 1..(b - a + 1) /\ t[j] = Delimiter
    BY <1>11 DEF Bars
  <2>2. PICK q \in Nat : q = a + j - 1
    BY <2>1, <1>8
  <2>a. PICK x \in 1..(b - a + 1) : x = p[k] /\ a + x - 1 = E(k) + 1
    BY <1>12
  <2>b. j <= x
    BY <2>a, <1>15
  <2>c. q >= 1 /\ q <= a + x - 1
    BY <2>1, <2>2, <2>b, <1>8
  <2>3. q >= 1 /\ q <= E(k) + 1 /\ w[q] = Delimiter
    BY <2>1, <2>2, <2>a, <2>c, <1>11
  <2>4. PICK l \in 1..k : q = E(l) + 1
    BY <2>3, BarsEnd DEF E, w
  <2>5. l \in 1..(n - 1) /\ l <= k
    OBVIOUS
  <2>d. PICK z \in 1..(b - a + 1) : z = p[l] /\ a + z - 1 = E(l) + 1
    BY <2>5, <1>12
  <2>e. a + z - 1 = a + j - 1
    BY <2>2, <2>4, <2>d
  <2>f. z = j
    BY <2>1, <2>e, <1>8
  <2>6. j = p[l]
    BY <2>d, <2>f
  <2> QED BY <2>5, <2>6
<1>16. Len(SplitN(t, n)) = n /\ \A k \in 1..n : SplitN(t, n)[k] = Piece(t, n, p, k)
  <2>1. Lists(p, n - 1, Bars(t))
    BY <1>13, <1>14, <1>15, Zenon DEF Lists
  <2> QED BY <1>11, <2>1, SplitAt
<1>17. ASSUME NEW k \in 1..n
       PROVE  SplitN(t, n)[k] \in Seq(Characters) /\ Trim(SplitN(t, n)[k]) = Trim(row[k])
  <2>1. PICK x : x = IF k = 1 THEN 1 ELSE p[k - 1] + 1
    OBVIOUS
  <2>2. PICK y : y = IF k = n THEN Len(t) ELSE p[k] - 1
    OBVIOUS
  <2>3. PICK A : A = IF k = 1 THEN a ELSE S(k)
    OBVIOUS
  <2>4. PICK B : B = IF k = n THEN b ELSE E(k)
    OBVIOUS
  <2>5. x \in Nat /\ x >= 1 /\ A \in Nat /\ A >= 1 /\ a + x - 1 = A
    <3>1. CASE k = 1
      BY <3>1, <2>1, <2>3, <1>8
    <3>2. CASE k # 1
      <4>1. PICK l \in 1..(n - 1) : k = l + 1 /\ k - 1 = l
        <5>1. k - 1 \in 1..(n - 1) /\ k = (k - 1) + 1
          BY <3>2
        <5> QED BY <5>1
      <4>2. x = p[l] + 1 /\ A = E(l) + 2
        BY <3>2, <4>1, <2>1, <2>3, <1>3
      <4>3. PICK z \in 1..(b - a + 1) : z = p[l] /\ a + z - 1 = E(l) + 1
        BY <4>1, <1>12
      <4>4. PICK e \in Nat : e = E(l)
        BY <4>1, <1>3
      <4>5. x = z + 1 /\ A = e + 2 /\ a + z - 1 = e + 1
        BY <4>2, <4>3, <4>4
      <4> QED BY <4>5, <1>8
    <3> QED BY <3>1, <3>2
  <2>6. y \in Nat /\ B \in Nat /\ a + y - 1 = B /\ B <= b /\ B <= Len(w) /\ y <= Len(t)
    <3>1. CASE k = n
      BY <3>1, <2>2, <2>4, <1>8, <1>11
    <3>2. CASE k # n
      <4>1. k \in 1..(n - 1)
        BY <3>2
      <4>2. y = p[k] - 1 /\ B = E(k)
        BY <3>2, <2>2, <2>4
      <4>3. PICK z \in 1..(b - a + 1) : z = p[k] /\ a + z - 1 = E(k) + 1
        BY <4>1, <1>12
      <4>4. PICK e \in Nat : e = E(k)
        BY <4>1, <1>3
      <4>5. y = z - 1 /\ B = e /\ a + z - 1 = e + 1
        BY <4>2, <4>3, <4>4
      <4> QED BY <4>5, <1>1, <1>8, <1>11
    <3> QED BY <3>1, <3>2
  <2>7. SplitN(t, n)[k] = SubSeq(t, x, y)
    BY <1>16, <2>1, <2>2, Zenon DEF Piece
  <2>8. SubSeq(t, x, y) = SubSeq(w, A, B)
    <3>1. a + y - 1 <= b
      BY <2>6
    <3>2. SubSeq(SubSeq(w, a, b), x, y) = SubSeq(w, a + x - 1, a + y - 1)
      BY ONLY <1>1, <1>8, <2>5, <2>6, <3>1, SubSub
    <3> QED BY <3>2, <1>9, <2>5, <2>6
  <2>9. Inked(w, A, B) = Inked(w, S(k), E(k))
    <3>1. ASSUME NEW i \in Inked(w, A, B) PROVE i \in Inked(w, S(k), E(k))
      <4>1. i \in A..B /\ w[i] # Blank
        BY DEF Inked
      <4>2. S(k) <= i
        BY <4>1, <1>1, <1>4, <2>3, <2>5, <2>6
      <4>3. i <= E(k)
        BY <4>1, <1>1, <1>4, <1>8, <2>4, <2>5, <2>6
      <4> QED BY <4>1, <4>2, <4>3, <2>5, <2>6, <1>4 DEF Inked
    <3>2. ASSUME NEW i \in Inked(w, S(k), E(k)) PROVE i \in Inked(w, A, B)
      <4>1. i \in S(k)..E(k) /\ w[i] # Blank
        BY DEF Inked
      <4>2. i \in N
        <5>1. PICK g \in Nat, h \in Nat : g = S(k) /\ h = E(k) /\ g >= 1 /\ h <= Len(w)
          BY <1>4
        <5>2. i \in g..h
          BY <4>1, <5>1
        <5>3. i \in 1..Len(w)
          BY <5>1, <5>2, <1>1
        <5> QED BY <5>3, <4>1, <1>2 DEF Inked
      <4>3. a <= i /\ i <= b
        BY <4>2, <1>6, <1>7
      <4>4. A <= i
        BY <4>1, <4>3, <2>3
      <4>5. i <= B
        BY <4>1, <4>3, <2>4
      <4> QED BY <4>1, <4>4, <4>5, <2>5, <2>6, <1>4 DEF Inked
    <3> QED BY <3>1, <3>2
  <2>10. Trim(SubSeq(w, A, B)) = Trim(SubSeq(w, S(k), E(k)))
    <3>1. PICK g \in Nat, h \in Nat : g = S(k) /\ h = E(k) /\ g >= 1 /\ h <= Len(w)
      BY <1>4
    <3>2. Inked(w, A, B) = Inked(w, g, h)
      BY <2>9, <3>1
    <3>3. Trim(SubSeq(w, A, B)) = Trim(SubSeq(w, g, h))
      BY <3>1, <3>2, <1>1, <2>5, <2>6, TrimSame, SMTT(30)
    <3> QED BY <3>1, <3>3
  <2>11. SubSeq(t, x, y) \in Seq(Characters)
    BY <1>11, <2>5, <2>6
  <2> QED BY <2>7, <2>8, <2>10, <2>11, <1>4
<1> QED BY <1>10, <1>16, <1>17 DEF w

LEMMA TrimText ==
    ASSUME NEW t \in Seq(Characters)
    PROVE  Trim(t) \in Seq(Characters)
<1>1. CASE NonBlank(t) = {}
  <2>1. Trim(t) = <<>>
    BY <1>1 DEF Trim
  <2> QED BY <2>1
<1>2. CASE NonBlank(t) # {}
  <2>1. Len(t) \in Nat /\ NonBlank(t) = Inked(t, 1, Len(t))
    BY TrimAll
  <2>2. PICK a \in NonBlank(t) : a = FirstOf(NonBlank(t))
    BY <1>2, <2>1, EndsOf
  <2>3. PICK b \in NonBlank(t) : b = LastOf(NonBlank(t))
    BY <1>2, <2>1, EndsOf
  <2>4. a \in 1..Len(t) /\ b \in 1..Len(t)
    BY DEF NonBlank
  <2>5. SubSeq(t, a, b) \in Seq(Characters)
    BY <2>1, <2>4
  <2>6. Trim(t) = SubSeq(t, a, b)
    BY <1>2, <2>2, <2>3 DEF Trim
  <2> QED BY <2>5, <2>6
<1> QED BY <1>1, <1>2

\* A row comes back as it was, but for blanks around a value.
LEMMA RowOf ==
    ASSUME NEW row \in Seq(Seq(Characters)), Splittable(row), NEW n \in Nat, n = Len(row), n >= 1,
           NEW item, FieldStr(item, "WA") = Trim(Joined(row))
    PROVE  \A i \in 1..n : Trim(RowValues(item, n)[i]) = Trim(row[i])
<1> DEFINE t == Trim(Joined(row))
           parts == SplitN(t, n)
<1>1. Len(parts) = n /\ \A k \in 1..n : parts[k] \in Seq(Characters) /\ Trim(parts[k]) = Trim(row[k])
  <2>1. CASE n = 1
    <3>a. Len(row) = 1 /\ 1 \in 1..Len(row) /\ Len(row) \in Nat
      BY <2>1
    <3>b. Joined(row) = JoinOf(row)[1]
      BY <3>a, JoinIs
    <3>c. JoinOf(row)[1] = row[1]
      BY <3>a, JoinIs
    <3>1. 1 \in 1..n /\ Joined(row) = JoinOf(row)[1] /\ JoinOf(row)[1] = row[1]
      BY <3>a, <3>b, <3>c
    <3>2. row[1] \in Seq(Characters)
      BY <3>1, ColumnAt
    <3>3. t \in Seq(Characters) /\ Trim(t) = Trim(row[1])
      BY <3>1, <3>2, TrimText, TrimTwice
    <3>4. Len(SplitN(t, 1)) = 1 /\ SplitN(t, 1)[1] = t
      BY <3>3, OneColumn
    <3> HIDE DEF t
    <3>5. \A k \in 1..n : k = 1
      BY <2>1
    <3> QED BY <2>1, <3>3, <3>4, <3>5
  <2>2. CASE n # 1
    <3>1. n >= 2
      BY <2>2
    <3> QED BY <3>1, SplitRows
  <2> QED BY <2>1, <2>2
<1>2. RowValues(item, n) = [i \in 1..n |-> IF i <= Len(parts) THEN TrimEnd(parts[i]) ELSE <<>>]
  BY Zenon DEF RowValues
<1> HIDE DEF parts
<1>3. ASSUME NEW i \in 1..n PROVE Trim(RowValues(item, n)[i]) = Trim(row[i])
  <2>1. i <= Len(parts)
    BY <1>1
  <2>2. RowValues(item, n)[i] = TrimEnd(parts[i])
    BY <1>2, <2>1
  <2>3. parts[i] \in Seq(Characters) /\ Trim(parts[i]) = Trim(row[i])
    BY <1>1
  <2> QED BY <2>2, <2>3, TrimAfterEnd
<1> QED BY <1>3

-----------------------------------------------------------------------------
(* The items of a section.                                                 *)

LEMMA LeafItem ==
    ASSUME NEW x \in Names, NEW u \in Seq(Characters)
    PROVE  FieldStr(ItemValue(<<Leaf(x, u)>>), x) = Trim(u)
<1> DEFINE it == <<Leaf(x, u)>>
           f == LeavesMap(it, 1)
           m == ItemValue(it)
<1>1. Len(it) = 1 /\ it[1].name = x /\ it[1].text = u
  <2>1. Len(it) = 1 /\ it[1] = Leaf(x, u)
    BY OneLeaf
  <2> QED BY <2>1 DEF Leaf
<1> HIDE DEF it
<1>3. it # <<>>
  <2>1. Len(<<>>) # 1
    OBVIOUS
  <2> QED BY <2>1, <1>1, Zenon
<1>4. m = Obj(f)
  BY <1>1, <1>3, Zenon DEF ItemValue
<1>5. DOMAIN f = {it[i].name : i \in 1..1}
  BY DEF LeavesMap
<1>6. {it[i].name : i \in 1..1} = {x}
  <2>1. 1..1 = {1}
    OBVIOUS
  <2> QED BY <2>1, <1>1
<1>7. f[x] = Str(Trim(u))
  <2>1. (CHOOSE i \in 1..1 : it[i].name = x) = 1
    BY <1>1
  <2>2. f[x] = LeafValue(it[CHOOSE i \in 1..1 : it[i].name = x])
    <3>1. x \in {it[i].name : i \in 1..1}
      BY <1>6
    <3> QED BY <3>1, Zenon DEF LeavesMap
  <2> QED BY <2>1, <2>2, <1>1 DEF LeafValue
<1> HIDE DEF f
<1>8. m.kind = "obj" /\ m.map = f
  BY <1>4 DEF Obj
<1> HIDE DEF m
<1>10. Member(m, x) = Str(Trim(u))
  <2>1. Has(m, x)
    BY <1>5, <1>6, <1>8 DEF Has
  <2> QED BY <2>1, <1>7, <1>8, Zenon DEF Member
<1>11. Str(Trim(u)).kind = "str" /\ Str(Trim(u)).text = Trim(u)
  BY DEF Str
<1>12. FieldStr(m, x) = Trim(Trim(u))
  BY <1>10, <1>11, Zenon DEF FieldStr
<1> QED BY <1>12, TrimTwice DEF m, it

LEMMA ItemKind ==
    ASSUME NEW it
    PROVE  ItemValue(it).kind # "arr"
<1>1. CASE it = <<>>
  <2>1. ItemValue(it) = Str(<<>>)
    BY <1>1 DEF ItemValue
  <2> QED BY <2>1 DEF Str
<1>2. CASE it # <<>>
  <2>1. ItemValue(it) = Obj(LeavesMap(it, Len(it)))
    BY <1>2, Zenon DEF ItemValue
  <2>2. Obj(LeavesMap(it, Len(it))).kind = "obj"
    BY DEF Obj
  <2> QED BY <2>1, <2>2
<1> QED BY <1>1, <1>2

\* Whether there are none, one or several, as_items finds them all.
LEMMA ItemsOf ==
    ASSUME NEW s, NEW n \in Nat, n = Len(s.items), s.items = <<>> <=> n = 0
    PROVE  LET got == AsItems(SectionValue(s), s.tag) IN
           Len(got) = n /\ \A i \in 1..n : got[i] = ItemValue(s.items[i])
<1> DEFINE u == SectionValue(s)
           m(i) == ItemValue(s.items[i])
           got == AsItems(u, s.tag)
<1>0. n = 0 \/ n = 1 \/ n > 1
  <2>1. \A k \in Nat : k = 0 \/ k = 1 \/ k > 1
    OBVIOUS
  <2> QED BY ONLY <2>1, n \in Nat
<1>1. CASE n = 0
  <2>1. u = Str(<<>>)
    BY <1>1, Zenon DEF SectionValue
  <2>2. ~Has(u, s.tag)
    BY <2>1 DEF Has, Str
  <2>3. got = <<>>
    BY <2>2, Zenon DEF AsItems
  <2>4. Len(got) = 0
    BY <2>3
  <2> HIDE DEF got
  <2> QED BY <1>1, <2>4 DEF got
<1>2. CASE n = 1
  <2>1. u = Obj(Only(s.tag, m(1)))
    <3>1. 1 # 0 /\ s.items # <<>>
      BY <1>2
    <3> QED BY <3>1, <1>2, Zenon DEF SectionValue, ItemsMap
  <2>2. Has(u, s.tag) /\ u.map[s.tag] = m(1)
    <3> DEFINE o == Obj(Only(s.tag, m(1)))
    <3>1. o.map = Only(s.tag, m(1)) /\ Only(s.tag, m(1))[s.tag] = m(1) /\ Has(o, s.tag)
      BY OnlyMember, Zenon
    <3>2. o.map[s.tag] = m(1)
      BY <3>1, Zenon
    <3> QED BY <2>1, <3>1, <3>2, Zenon
  <2>3. m(1).kind # "arr"
    BY ItemKind
  <2> HIDE DEF u, m
  <2>4. got = <<m(1)>>
    BY <2>2, <2>3, Zenon DEF AsItems
  <2>5. Len(got) = 1 /\ got[1] = m(1)
    BY <2>4
  <2> HIDE DEF got
  <2>6. \A i \in 1..n : i = 1
    BY <1>2
  <2>7. \A i \in 1..n : got[i] = m(i)
    BY <2>5, <2>6
  <2> QED BY <1>2, <2>5, <2>7 DEF got, u, m
<1>3. CASE n > 1
  <2> DEFINE q == [i \in 1..n |-> m(i)]
  <2>1. u = Obj(Only(s.tag, Arr(q)))
    <3>0. \A k \in Nat : k > 1 => k # 0 /\ k # 1
      OBVIOUS
    <3>a. n # 0 /\ n # 1
      BY ONLY <1>3, <3>0, n \in Nat
    <3>1. n # 0 /\ n # 1 /\ s.items # <<>>
      BY <3>a, Zenon
    <3> QED BY <3>1, Zenon DEF SectionValue, ItemsMap
  <2>2. Has(u, s.tag) /\ u.map[s.tag] = Arr(q)
    <3>0. PICK z : z = Arr(q)
      OBVIOUS
    <3> DEFINE o == Obj(Only(s.tag, z))
    <3>1. o.map = Only(s.tag, z) /\ Only(s.tag, z)[s.tag] = z /\ Has(o, s.tag)
      BY OnlyMember, Zenon
    <3>2. o.map[s.tag] = z
      BY <3>1, Zenon
    <3>3. u = o
      BY <2>1, <3>0, Zenon
    <3> HIDE DEF o, u, q
    <3> QED BY <3>0, <3>1, <3>2, <3>3, Zenon
  <2>3. Len(q) = n /\ \A i \in 1..n : q[i] = m(i)
    OBVIOUS
  <2> HIDE DEF u, m, q
  <2>4. Arr(q).kind = "arr" /\ Arr(q).items = q
    BY DEF Arr
  <2>5. got = q
    BY <2>2, <2>4, Zenon DEF AsItems
  <2> QED BY <2>3, <2>5 DEF got, u, m
<1> QED BY <1>0, <1>1, <1>2, <1>3

\* A document with two sections.
LEMMA TwoSectionsMap ==
    ASSUME NEW w, NEW s, NEW t, s.name # t.name
    PROVE  LET m == Obj(SectionsMap(Within(w, <<s, t>>), 2)) IN
           Member(m, s.name) = SectionValue(s) /\ Member(m, t.name) = SectionValue(t)
<1> DEFINE d == Within(w, <<s, t>>)
           f == SectionsMap(d, 2)
           m == Obj(f)
<1>1. d.sections[1] = s /\ d.sections[2] = t
  BY DEF Within
<1> HIDE DEF d
<1>2. 1..2 = {1, 2}
  OBVIOUS
<1>3. {d.sections[i].name : i \in 1..2} = {s.name, t.name}
  BY <1>1, <1>2
<1>4. (CHOOSE i \in 1..2 : d.sections[i].name = s.name) = 1
  BY <1>1, <1>2
<1>5. (CHOOSE i \in 1..2 : d.sections[i].name = t.name) = 2
  BY <1>1, <1>2
<1>6. DOMAIN f = {s.name, t.name}
  BY <1>3 DEF SectionsMap
<1>7. \A k \in {s.name, t.name} : f[k] = SectionValue(d.sections[CHOOSE i \in 1..2 : d.sections[i].name = k])
  BY <1>3 DEF SectionsMap
<1>8. f[s.name] = SectionValue(s) /\ f[t.name] = SectionValue(t)
  BY <1>1, <1>4, <1>5, <1>7
<1> HIDE DEF f
<1>9. m.kind = "obj" /\ m.map = f
  BY DEF Obj
<1> HIDE DEF m
<1>10. Has(m, s.name) /\ Has(m, t.name)
  BY <1>6, <1>9 DEF Has
<1>11. Member(m, s.name) = SectionValue(s) /\ Member(m, t.name) = SectionValue(t)
  BY <1>8, <1>9, <1>10 DEF Member
<1> QED BY <1>11 DEF m, f, d

-----------------------------------------------------------------------------
(* The table sap.table.read makes of an answer.                            *)

LEMMA ColumnCount ==
    ASSUME NEW payload, NEW items, items = AsItems(Member(payload, "FIELDS"), "item"),
           NEW n \in Nat, Len(items) = n,
           \A i \in 1..n : FieldStr(items[i], "FIELDNAME") # <<>>
    PROVE  Len(FieldNames(payload)) = n
<1> DEFINE named == {i \in 1..Len(items) : FieldStr(items[i], "FIELDNAME") # <<>>}
           F == [k \in 1..Cardinality(named) |-> FieldStr(items[Nth(named, k)], "FIELDNAME")]
<1>1. FieldNames(payload) = F
  BY Zenon DEF FieldNames
<1>2. named = 1..n
  OBVIOUS
<1>3. Cardinality(1..n) = n
  BY FS_Interval
<1>4. Cardinality(named) = n
  BY <1>2, <1>3
<1> HIDE DEF named
<1>5. Len(F) = n
  BY <1>4
<1> HIDE DEF F
<1> QED BY <1>1, <1>5

LEMMA TableRead ==
    ASSUME NEW payload, NEW n \in Nat, n >= 1, Len(FieldNames(payload)) = n,
           NEW data, data = AsItems(Member(payload, "DATA"), "item"), NEW h \in Nat, Len(data) = h
    PROVE  LET got == ParseReadTable(payload) IN
           /\ got.kind = "ok" /\ Len(got.rows) = h
           /\ \A r \in 1..h : got.rows[r] = RowValues(data[r], n)
<1> DEFINE R == [r \in 1..h |-> RowValues(data[r], n)]
           ok == [kind |-> "ok", rows |-> R]
<1>1. n # 0
  OBVIOUS
<1>2. ParseReadTable(payload) = ok
  BY <1>1, Zenon DEF ParseReadTable
<1>3. Len(R) = h /\ \A r \in 1..h : R[r] = RowValues(data[r], n)
  OBVIOUS
<1> HIDE DEF R
<1>4. ok.kind = "ok" /\ ok.rows = R
  OBVIOUS
<1> HIDE DEF ok
<1> QED BY <1>2, <1>3, <1>4

LEMMA RowsReturned == SoapInv => RowsSurvive
<1> SUFFICES ASSUME SoapInv, Done, sent.kind = "rows"
             PROVE  LET got == ParseReadTable(Result) IN
                    /\ got.kind = "ok" /\ Len(got.rows) = Len(sent.rows)
                    /\ \A r \in 1..Len(sent.rows) : Splittable(sent.rows[r]) =>
                          \A i \in 1..Len(sent.columns) : Trim(got.rows[r][i]) = Trim(sent.rows[r][i])
  BY Zenon DEF RowsSurvive
<1>0. sent \in SoapAnswers
  BY DEF SoapInv
<1> DEFINE w == <<"Envelope", "Body", "Response">>
           F == [i \in 1..Len(sent.columns) |-> <<Leaf("FIELDNAME", sent.columns[i])>>]
           D == [r \in 1..Len(sent.rows) |-> <<Leaf("WA", Joined(sent.rows[r]))>>]
           s == Section("FIELDS", "item", F)
           t == Section("DATA", "item", D)
           d == Within(w, <<s, t>>)
           v == Obj(SectionsMap(d, 2))
<1>1. Doc = d
  BY Zenon DEF Document, Doc
<1>2. PICK n \in Nat : n = Len(sent.columns)
  BY <1>0, RowsTypes
<1>3. PICK h \in Nat : h = Len(sent.rows)
  BY <1>0, RowsTypes
<1>4. n >= 1 /\ sent.columns \in ColumnLists /\ sent.columns \in Seq(Seq(Characters))
  BY <1>0, <1>2, RowsTypes
<1>5. ASSUME NEW r \in 1..h
      PROVE  /\ sent.rows[r] \in Seq(Seq(Characters)) /\ Len(sent.rows[r]) = n
             /\ Joined(sent.rows[r]) \in Seq(Characters)
  BY <1>0, <1>2, <1>3, RowsTypes
<1>6. ASSUME NEW i \in 1..n
      PROVE  sent.columns[i] \in Seq(Characters) /\ Trim(sent.columns[i]) # <<>>
  <2>1. sent.columns[i] \in Seq(Characters)
    BY <1>2, <1>4
  <2>2. Trim(sent.columns[i]) # <<>>
    BY <1>2, <1>4, ColumnsAssumption
  <2> QED BY <2>1, <2>2
<1>7. F = [i \in 1..n |-> F[i]] /\ \A i \in 1..n : F[i] = <<Leaf("FIELDNAME", sent.columns[i])>>
  BY <1>2
<1>8. D = [r \in 1..h |-> D[r]] /\ \A r \in 1..h : D[r] = <<Leaf("WA", Joined(sent.rows[r]))>>
  BY <1>3
<1>9. /\ s.name = "FIELDS" /\ s.tag = "item" /\ s.items = F
      /\ t.name = "DATA" /\ t.tag = "item" /\ t.items = D
  BY DEF Section
<1> HIDE DEF F, D, s, t
<1>10. Len(F) = n /\ (F = <<>> <=> n = 0)
  BY <1>7
<1>11. Len(D) = h /\ (D = <<>> <=> h = 0)
  BY <1>8
<1>12. RootValue(d) = Obj(Only("Body", Obj(Only("Response", v))))
  <2>1. Len(<<s, t>>) = 2
    OBVIOUS
  <2>2. PICK ss : ss = <<s, t>>
    OBVIOUS
  <2>3. RootValue(Within(w, ss)) = Obj(Only("Body", Obj(Only("Response", Obj(SectionsMap(Within(w, ss), Len(ss)))))))
    BY RootOfThree, ZenonT(30)
  <2> QED BY <2>1, <2>2, <2>3, Zenon
<1>13. parsed = RootValue(d)
  <2>1. Len(d.wrappers) # 0
    <3>1. d.wrappers = w
      BY DEF Within
    <3>2. Len(w) # 0
      OBVIOUS
    <3> QED BY <3>1, <3>2
  <2> HIDE DEF d
  <2>2. sent.kind # "deep"
    OBVIOUS
  <2> QED BY <1>1, <2>1, <2>2, DoneIs DEF Hollow
<1>14. Result = v
  <2>1. "Response" # "Fault"
    OBVIOUS
  <2> HIDE DEF v, d
  <2>2. Payload(Obj(Only("Body", Obj(Only("Response", v))))) = v
    BY <2>1, PayloadOf, Zenon
  <2> QED BY <2>2, <1>12, <1>13 DEF Result
<1>15. Member(v, "FIELDS") = SectionValue(s) /\ Member(v, "DATA") = SectionValue(t)
  <2>1. s.name # t.name
    BY <1>9
  <2>2. Member(v, s.name) = SectionValue(s) /\ Member(v, t.name) = SectionValue(t)
    <3>1. PICK x : x = w
      OBVIOUS
    <3> DEFINE m == Obj(SectionsMap(Within(x, <<s, t>>), 2))
    <3>2. Member(m, s.name) = SectionValue(s) /\ Member(m, t.name) = SectionValue(t)
      BY <2>1, TwoSectionsMap
    <3>3. m = v
      BY <3>1, Zenon
    <3> HIDE DEF m, v
    <3> QED BY <3>2, <3>3, Zenon
  <2> QED BY <2>2, <1>9
<1> HIDE DEF v, d
<1>16. PICK items : items = AsItems(SectionValue(s), "item")
  OBVIOUS
<1>17. Len(items) = n /\ \A i \in 1..n : items[i] = ItemValue(F[i])
  <2>1. n = Len(s.items) /\ (s.items = <<>> <=> n = 0)
    BY <1>9, <1>10
  <2>2. /\ Len(AsItems(SectionValue(s), s.tag)) = n
        /\ \A i \in 1..n : AsItems(SectionValue(s), s.tag)[i] = ItemValue(s.items[i])
    BY <2>1, ItemsOf, Zenon
  <2> QED BY <2>2, <1>9, <1>16, Zenon
<1>18. PICK data : data = AsItems(SectionValue(t), "item")
  OBVIOUS
<1>19. Len(data) = h /\ \A r \in 1..h : data[r] = ItemValue(D[r])
  <2>1. h = Len(t.items) /\ (t.items = <<>> <=> h = 0)
    BY <1>9, <1>11
  <2>2. /\ Len(AsItems(SectionValue(t), t.tag)) = h
        /\ \A r \in 1..h : AsItems(SectionValue(t), t.tag)[r] = ItemValue(t.items[r])
    BY <2>1, ItemsOf, Zenon
  <2> QED BY <2>2, <1>9, <1>18, Zenon
<1>20. "FIELDNAME" \in Names /\ "WA" \in Names
  BY DEF Names
<1>21. ASSUME NEW i \in 1..n PROVE FieldStr(items[i], "FIELDNAME") # <<>>
  <2>1. FieldStr(ItemValue(<<Leaf("FIELDNAME", sent.columns[i])>>), "FIELDNAME") = Trim(sent.columns[i])
    BY <1>6, <1>20, LeafItem, Zenon
  <2> QED BY <2>1, <1>6, <1>7, <1>17
<1>22. ASSUME NEW r \in 1..h PROVE FieldStr(data[r], "WA") = Trim(Joined(sent.rows[r]))
  <2>1. FieldStr(ItemValue(<<Leaf("WA", Joined(sent.rows[r]))>>), "WA") = Trim(Joined(sent.rows[r]))
    BY <1>5, <1>20, LeafItem, Zenon
  <2> QED BY <2>1, <1>8, <1>19
<1>23. Len(FieldNames(v)) = n
  BY <1>15, <1>16, <1>17, <1>21, ColumnCount, Zenon
<1>24. PICK got : got = ParseReadTable(v)
  OBVIOUS
<1>25. /\ got.kind = "ok" /\ Len(got.rows) = h
       /\ \A r \in 1..h : got.rows[r] = RowValues(data[r], n)
  <2>1. data = AsItems(Member(v, "DATA"), "item")
    BY <1>15, <1>18
  <2>2. /\ ParseReadTable(v).kind = "ok" /\ Len(ParseReadTable(v).rows) = h
        /\ \A r \in 1..h : ParseReadTable(v).rows[r] = RowValues(data[r], n)
    BY <2>1, <1>4, <1>19, <1>23, TableRead
  <2> QED BY <2>2, <1>24
<1>26. ASSUME NEW r \in 1..h, Splittable(sent.rows[r]), NEW i \in 1..n
       PROVE  Trim(got.rows[r][i]) = Trim(sent.rows[r][i])
  <2>1. PICK row : row = sent.rows[r]
    OBVIOUS
  <2>2. row \in Seq(Seq(Characters)) /\ n = Len(row) /\ Splittable(row) /\ FieldStr(data[r], "WA") = Trim(Joined(row))
    BY <2>1, <1>5, <1>22, <1>26
  <2>3. Trim(RowValues(data[r], n)[i]) = Trim(row[i])
    BY <2>2, <1>4, RowOf
  <2> QED BY <2>1, <2>3, <1>25
<1>27. ParseReadTable(Result) = got
  BY <1>14, <1>24
<1> QED BY <1>2, <1>3, <1>25, <1>26, <1>27, Zenon

-----------------------------------------------------------------------------
(* What the callers can rely on.                                           *)

\* A fault, an answer without a Body or with an empty one, and one nested too
\* deeply are reported as errors by invoke, whatever comes with them
\* (xml_to_json_root, extract_fault, extract_body_payload).
THEOREM ErrorsAreErrors == XmlSpec => []BadAnswerIsError
<1>1. XmlSpec => []SoapInv
  BY AnswerIsRead
<1>2. SoapInv => BadAnswerIsError
  BY ErrorsReported
<1> QED BY <1>1, <1>2, PTL

\* A BAPI call looks failed to its caller exactly when SAP put a message into
\* RETURN whose type is not success, warning or information: an error, an
\* abort, an unknown type or none, whether RETURN is a structure or a table
\* with any number of rows (parse_children, parse_bapiret2, is_failure).
THEOREM FailuresReachCaller == XmlSpec => []FailureSurvives
<1>1. XmlSpec => []SoapInv
  BY AnswerIsRead
<1>2. SoapInv => FailureSurvives
  BY FailuresReported
<1> QED BY <1>1, <1>2, PTL

\* parse_read_table returns as many rows as SAP sent, and every value of a row
\* whose delimiters are all in its last column, up to the blanks around it,
\* for any number of columns and rows: the blanks the parser trims off a row
\* never take a column with them.
THEOREM RowsReachCaller == XmlSpec => []RowsSurvive
<1>1. XmlSpec => []SoapInv
  BY AnswerIsRead
<1>2. SoapInv => RowsSurvive
  BY RowsReturned
<1> QED BY <1>1, <1>2, PTL
=============================================================================
