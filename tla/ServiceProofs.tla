---------------------------- MODULE ServiceProofs ----------------------------
(***************************************************************************)
(* Proofs about the services around the tool server, for any values of     *)
(* their constants.                                                        *)
(***************************************************************************)
EXTENDS DocTree, Chunker, CrawlPolicy, Ingest, Gateway, Retrieval, Scheduler, Memory,
        FiniteSetTheorems, FunctionTheorems, SequenceTheorems, WellFoundedInduction, TLAPS

-----------------------------------------------------------------------------
(* Numbers                                                                 *)

\* The order of the naturals is well founded, so a set of them has a least
\* element; this is what replaces induction below.
LEMMA LeastNatural ==
    ASSUME NEW T, T \subseteq Nat, T # {}
    PROVE  \E x \in T : \A y \in T : x <= y
<1> DEFINE R == OpToRel(<, Nat)
<1>1. IsWellFoundedOn(R, Nat)
  BY NatLessThanWellFounded
<1>2. \A y, x \in Nat : y < x => <<y, x>> \in R
  BY DEF OpToRel
<1> HIDE DEF R
<1>3. PICK x \in T : \A y \in T : ~ (<<y, x>> \in R)
  BY <1>1, WFMin
<1>4. \A y \in T : x \in Nat /\ y \in Nat /\ ~(y < x)
  BY <1>2, <1>3
<1>5. \A y \in T : x <= y
  BY <1>4
<1> QED BY <1>3, <1>5

\* Min of a set of naturals is its least element.
LEMMA MinOfNaturals ==
    ASSUME NEW T, T \subseteq Nat, T # {}
    PROVE  Min(T) \in T /\ \A x \in T : Min(T) <= x
<1>1. \E x \in T : \A y \in T : x <= y
  BY LeastNatural
<1> QED BY <1>1 DEF Min

\* A bounded set of naturals has a maximum, and Max is it.
LEMMA MaxOfBounded ==
    ASSUME NEW n \in Nat, NEW S, S \subseteq 0..n, S # {}
    PROVE  Max(S) \in S /\ \A x \in S : x <= Max(S)
<1> DEFINE over == {b \in 0..n : \A x \in S : x <= b}
<1>1. n \in over /\ over \subseteq Nat
  OBVIOUS
<1>2. PICK m \in over : \A b \in over : m <= b
  <2> HIDE DEF over
  <2> QED BY <1>1, LeastNatural
<1>3. m \in S
  <2> SUFFICES ASSUME m \notin S PROVE FALSE
    OBVIOUS
  <2>1. \A x \in S : x \in 0..n /\ x <= m /\ x # m
    BY <1>2
  <2>2. m > 0 /\ m \in 0..n
    <3>1. PICK x \in S : TRUE
      OBVIOUS
    <3>2. x \in 0..n /\ x <= m /\ x # m /\ m \in 0..n
      BY <1>2, <2>1
    <3> QED BY <3>2
  <2>3. m - 1 \in over
    BY <2>1, <2>2
  <2> QED BY <1>2, <2>2, <2>3
<1>4. m \in S /\ \A x \in S : m >= x
  BY <1>2, <1>3
<1>5. \A x \in S : Max(S) \in S /\ Max(S) >= x
  BY <1>4 DEF Max
<1> QED BY <1>4, <1>5

\* The members of a set of numbers up to i.
UpTo(S, i) == {j \in S : j <= i}

\* A set of k numbers or more has a k-th one.
LEMMA KthExists ==
    ASSUME NEW n \in Nat, NEW S, S \subseteq 1..n, NEW k \in 1..Cardinality(S)
    PROVE  \E i \in S : Cardinality(UpTo(S, i)) = k
<1>0. IsFiniteSet(1..n) /\ S \in SUBSET (1..n) /\ \A x \in S : x \in 1..n
  BY FS_Interval
<1>1. IsFiniteSet(S) /\ Cardinality(S) \in Nat
  BY ONLY <1>0, FS_Subset, FS_CardinalityType
<1>2. \A i : IsFiniteSet(UpTo(S, i)) /\ Cardinality(UpTo(S, i)) \in Nat
  <2> TAKE i
  <2>1. UpTo(S, i) \in SUBSET S
    BY DEF UpTo
  <2> QED BY ONLY <1>1, <2>1, FS_Subset, FS_CardinalityType
<1>  \A i : UpTo(S, i) \subseteq S /\ \A x \in S : x \in UpTo(S, i) <=> x <= i
  BY DEF UpTo
<1> DEFINE reached == {i \in 0..n : Cardinality(UpTo(S, i)) >= k}
<1>3. n \in reached /\ reached \subseteq Nat
  <2>1. \A x \in S : x \in UpTo(S, n)
    BY <1>0
  <2>2. UpTo(S, n) = S
    BY <2>1
  <2> QED BY <1>1, <2>2
<1>4. PICK i \in reached : \A j \in reached : i <= j
  <2> HIDE DEF reached
  <2> QED BY <1>3, LeastNatural
<1>5. i \in 0..n /\ Cardinality(UpTo(S, i)) >= k
  BY <1>4
<1>6. i # 0
  <2>1. \A x \in S : x \notin UpTo(S, 0)
    BY <1>0
  <2>2. UpTo(S, 0) = {}
    BY <2>1
  <2> QED BY <1>5, <2>2, FS_EmptySet
<1>7. i - 1 \in 0..n /\ ~(Cardinality(UpTo(S, i - 1)) >= k)
  BY <1>4, <1>5, <1>6
<1>8. CASE i \in S
  <2>0. \A x \in S : x \in UpTo(S, i) <=> x \in UpTo(S, i - 1) \/ x = i
    BY <1>0, <1>5, <1>8
  <2>1. UpTo(S, i) = UpTo(S, i - 1) \cup {i} /\ i \notin UpTo(S, i - 1)
    <3>1. UpTo(S, i) = UpTo(S, i - 1) \cup {i}
      BY <1>8, <2>0
    <3>2. i \notin UpTo(S, i - 1)
      BY <1>5, <1>8
    <3> QED BY <3>1, <3>2
  <2>2. Cardinality(UpTo(S, i)) = Cardinality(UpTo(S, i - 1)) + 1
    BY ONLY <1>2, <2>1, FS_AddElement
  <2>3. Cardinality(UpTo(S, i)) \in Nat /\ Cardinality(UpTo(S, i - 1)) \in Nat
    BY ONLY <1>2
  <2> QED BY <1>1, <1>5, <1>7, <1>8, <2>2, <2>3
<1>9. CASE i \notin S
  <2>1. \A x \in S : x \in UpTo(S, i) <=> x \in UpTo(S, i - 1)
    BY <1>0, <1>5, <1>9
  <2>2. UpTo(S, i) = UpTo(S, i - 1)
    BY <2>1
  <2> QED BY <1>5, <1>7, <2>2
<1> QED BY <1>8, <1>9

LEMMA MaxOfTwo == \A a, b \in Int : Max({a, b}) = IF a >= b THEN a ELSE b
  BY DEF Max

LEMMA MinOfTwo == \A a, b \in Int : Min({a, b}) = IF a <= b THEN a ELSE b
  BY DEF Min

-----------------------------------------------------------------------------
(* build_document_tree                                                     *)

\* There are finitely many headings and each has a depth.
LEMMA HeadingsCounted ==
    ASSUME NEW n \in Nat, NEW depths \in [1..n -> Nat]
    PROVE  \E c \in Nat : /\ DOMAIN Headings(depths) = 1..c
                          /\ \A k \in 1..c : Headings(depths)[k].depth \in Nat
<1> DEFINE at == {i \in 1..n : depths[i] > 0}
           At(k) == CHOOSE i \in at : Cardinality({j \in at : j <= i}) = k
<1>1. IsFiniteSet(1..n) /\ at \subseteq 1..n
  BY FS_Interval
<1>2. Cardinality(at) \in Nat
  BY <1>1, FS_Subset, FS_CardinalityType
<1>3. Headings(depths) =
        [k \in 1..Cardinality(at) |-> [depth |-> depths[At(k)], start |-> At(k)]]
  BY DEF Headings
<1>4. ASSUME NEW k \in 1..Cardinality(at)
      PROVE  At(k) \in 1..n
  <2> HIDE DEF at
  <2>1. \E i \in at : Cardinality({j \in at : j <= i}) = k
    BY <1>1, KthExists, ZenonT(30) DEF UpTo
  <2> QED BY <1>1, <2>1
<1> HIDE DEF at, At
<1>5. \A k \in 1..Cardinality(at) : Headings(depths)[k].depth \in Nat
  BY <1>3, <1>4
<1> QED BY <1>2, <1>3, <1>5

LEMMA SectionsCounted ==
    DocInit => \E c \in Nat : /\ DOMAIN prepared = 1..c
                              /\ \A k \in 1..c : prepared[k].depth \in Nat
<1> DEFINE Counted(hs) == \E c \in Nat : /\ DOMAIN hs = 1..c
                                         /\ \A k \in 1..c : hs[k].depth \in Nat
           atx == [i \in DOMAIN docBody |-> ParseAtx(docBody[i])]
           markers == [i \in DOMAIN docBody |-> ParseMarker(docBody[i])]
<1> SUFFICES ASSUME DocInit PROVE Counted(prepared)
  OBVIOUS
<1>1. PICK n \in 0..MaxLines : docBody \in [1..n -> Line]
  BY DocAssumption DEF DocInit
<1>2. n \in Nat
  BY DocAssumption
<1>3. \A x \in Line : ParseAtx(x) \in Nat /\ ParseMarker(x) \in Nat
  BY DEF Line, ParseAtx, ParseMarker, ParseNumbered
<1>4. atx \in [1..n -> Nat] /\ markers \in [1..n -> Nat]
  BY <1>1, <1>3
<1>5. DetectHeadings(docBody) \in {Headings(atx), Headings(markers)}
  BY DEF DetectHeadings
<1> HIDE DEF atx, markers
<1>6. Counted(Headings(atx)) /\ Counted(Headings(markers))
  BY <1>2, <1>4, HeadingsCounted
<1>7. Counted(DetectHeadings(docBody))
  <2> HIDE DEF Counted
  <2> QED BY <1>5, <1>6
<1>8. /\ DOMAIN prepared = DOMAIN DetectHeadings(docBody)
      /\ \A k \in DOMAIN prepared : prepared[k].depth = DetectHeadings(docBody)[k].depth
  BY DEF DocInit, Prepare
<1> QED BY <1>7, <1>8

Pointers ==
    [depth : {prepared[s].depth : s \in 1..Len(prepared)},
     node : 1..Len(prepared), vec : 0..Len(prepared), seen : Nat]

\* The open sections are nested: each pointer was taken into a vector of a
\* section that comes before its own.
Opened ==
    /\ Len(prepared) \in Nat /\ DOMAIN prepared = 1..Len(prepared)
    /\ \A s \in 1..Len(prepared) : prepared[s].depth \in Nat
    /\ taken \in 0..Len(prepared)
    /\ moves \in [0..Len(prepared) -> Nat]
    /\ stack \in Seq(Pointers)
    /\ \A i \in 1..Len(stack) : stack[i].vec < stack[i].node /\ stack[i].node <= taken
    /\ \A i, j \in 1..Len(stack) : i < j => stack[i].node < stack[j].node

IsOpen(q) == \E i \in 1..Len(stack) : stack[i].node = q

\* A section is open as long as only deeper ones have followed it, and the
\* open ones get deeper towards the end of the stack.
Nesting ==
    /\ vecs \in [0..Len(prepared) -> Seq(1..Len(prepared))]
    /\ \A i \in 1..Len(stack) : stack[i].depth = prepared[stack[i].node].depth
    /\ \A i, j \in 1..Len(stack) : i < j => stack[i].depth < stack[j].depth
    /\ \A q \in 1..taken :
         IsOpen(q) <=> \A r \in (q + 1)..taken : prepared[q].depth < prepared[r].depth

TreeInv == Opened /\ Nesting /\ PointersAlive /\ SectionsNested

LEMMA TreeInit == DocInit => TreeInv
<1> SUFFICES ASSUME DocInit PROVE TreeInv
  OBVIOUS
<1>1. PICK c \in Nat : /\ DOMAIN prepared = 1..c
                       /\ \A k \in 1..c : prepared[k].depth \in Nat
  BY SectionsCounted
<1>2. Len(prepared) = c
  BY <1>1
<1>3. /\ stack = <<>> /\ taken = 0 /\ moves = [s \in 0..c |-> 0]
      /\ vecs = [s \in 0..c |-> <<>>]
      /\ dpc = "built" => c = 0
  BY <1>1, <1>2 DEF DocInit
<1>4. Opened /\ PointersAlive
  BY <1>1, <1>2, <1>3 DEF Opened, PointersAlive
<1>5. Nesting
  BY <1>2, <1>3 DEF Nesting
<1>6. SectionsNested
  <2>1. \A p \in DOMAIN vecs : vecs[p] = <<>>
    BY <1>3
  <2>2. \A p \in DOMAIN vecs : Range(vecs[p]) = {}
    BY <2>1 DEF Range
  <2>3. \A p : {s \in 1..taken : Enclosing(s) = p} = {}
    BY <1>3
  <2> QED BY <1>2, <1>3, <2>1, <2>2, <2>3 DEF SectionsNested
<1> QED BY <1>4, <1>5, <1>6 DEF TreeInv

\* Closing sections keeps exactly the shallower ones, which are the outer
\* ones.
LEMMA PoppedIsPrefix ==
    ASSUME Opened, Nesting, NEW depth \in Nat
    PROVE  \E m \in 0..Len(stack) :
              /\ Popped(depth) = SubSeq(stack, 1, m)
              /\ \A i \in 1..Len(stack) : stack[i].depth < depth <=> i <= m
<1> DEFINE S == {0} \cup {i \in DOMAIN stack : stack[i].depth < depth}
<1>1. Len(stack) \in Nat /\ DOMAIN stack = 1..Len(stack)
  BY DEF Opened
<1>2. S \subseteq 0..Len(stack) /\ S # {}
  BY <1>1
<1>3. PICK m \in S : m = Max(S) /\ \A i \in S : i <= m
  <2> HIDE DEF S
  <2> QED BY <1>1, <1>2, MaxOfBounded
<1>4. Popped(depth) = SubSeq(stack, 1, m)
  BY <1>3 DEF Popped
<1>5. ASSUME NEW i \in 1..Len(stack)
      PROVE  stack[i].depth < depth <=> i <= m
  <2>1. CASE stack[i].depth < depth
    BY <1>1, <1>3, <2>1
  <2>2. CASE i <= m
    <3>1. m \in 1..Len(stack) /\ stack[m].depth < depth
      BY <1>1, <1>2, <2>2
    <3>2. stack[i].depth \in Nat /\ stack[m].depth \in Nat
      <4>1. \A p \in Pointers : p.depth \in Nat
        BY DEF Opened, Pointers
      <4>2. stack[i] \in Pointers /\ stack[m] \in Pointers
        BY <3>1 DEF Opened
      <4> QED BY <4>1, <4>2
    <3>3. i = m \/ stack[i].depth < stack[m].depth
      BY <1>1, <2>2, <3>1 DEF Nesting
    <3> QED BY <2>2, <3>1, <3>2, <3>3
  <2> QED BY <2>1, <2>2
<1>6. m \in 0..Len(stack)
  BY <1>2, <1>3
<1> HIDE DEF S
<1> QED BY <1>4, <1>5, <1>6

LEMMA TreeStep == TreeInv /\ [DocNext]_dvars => TreeInv'
<1> SUFFICES ASSUME TreeInv, [DocNext]_dvars PROVE TreeInv'
  OBVIOUS
<1> USE DEF TreeInv
<1>1. CASE UNCHANGED dvars
  <2> USE <1>1 DEF dvars
  <2>1. Opened' /\ PointersAlive'
    BY DEF Opened, Pointers, PointersAlive
  <2>2. Nesting'
    BY DEF Nesting, IsOpen
  <2>3. SectionsNested'
    <3>1. \A s : Enclosing(s)' = Enclosing(s)
      BY DEF Enclosing
    <3> QED BY <3>1 DEF SectionsNested
  <2> QED BY <2>1, <2>2, <2>3
<1>2. CASE PlaceSection
  <2> DEFINE s == taken + 1
             n == Len(prepared)
             depth == prepared[s].depth
             v == PushOn(depth)
             top == Pointer(s, depth, v)
  <2>1. /\ taken < n /\ n \in Nat /\ taken \in Nat /\ s \in 1..n /\ s = taken + 1
        /\ taken' = s /\ prepared' = prepared
        /\ moves' = [moves EXCEPT ![v] = @ + 1]
        /\ stack' = Append(Popped(depth), top)
    BY <1>2 DEF PlaceSection, Opened
  <2>  depth \in Nat
    BY <2>1 DEF Opened
  <2>2. PICK m \in 0..Len(stack) :
          /\ Popped(depth) = SubSeq(stack, 1, m)
          /\ \A i \in 1..Len(stack) : stack[i].depth < depth <=> i <= m
    BY PoppedIsPrefix
  <2>3. /\ stack \in Seq(Pointers) /\ Len(stack) \in Nat /\ m \in Nat
        /\ \A i \in 1..Len(stack) : stack[i] \in Pointers
    BY DEF Opened
  <2>  \A p \in Pointers : p.node \in 1..n /\ p.vec \in 0..n
    BY DEF Pointers
  <2>4. /\ Popped(depth) \in Seq(Pointers) /\ Len(Popped(depth)) = m
        /\ \A i \in 1..m : Popped(depth)[i] = stack[i]
    BY <2>2, <2>3, SubSeqProperties
  <2>5. /\ v \in 0..taken
        /\ \A i \in 1..m : stack[i].vec < v /\ stack[i].node <= v
    <3>1. CASE m = 0
      <4>1. Popped(depth) = <<>>
        BY <2>4, <3>1
      <4> QED BY <2>1, <3>1, <4>1 DEF PushOn
    <3>2. CASE m # 0
      <4>1. m \in 1..Len(stack) /\ Popped(depth) # <<>>
        BY <2>3, <2>4, <3>2
      <4>2. v = stack[m].node
        BY <2>4, <4>1 DEF PushOn, Last
      <4>3. v \in 1..n /\ v <= taken
        BY <2>1, <2>3, <4>1, <4>2 DEF Opened
      <4>4. ASSUME NEW i \in 1..m
            PROVE  stack[i].vec < v /\ stack[i].node <= v
        <5>1. i \in 1..Len(stack) /\ (i < m \/ i = m)
          BY <2>3
        <5>2. stack[i].vec < stack[i].node /\ stack[i].vec \in Nat /\ stack[i].node \in Nat
          BY <2>3, <5>1 DEF Opened
        <5>3. stack[i].node <= v
          BY <4>1, <4>2, <4>3, <5>1, <5>2 DEF Opened
        <5> HIDE DEF v
        <5> QED BY <4>3, <5>2, <5>3
      <4> QED BY <2>1, <4>3, <4>4
    <3> QED BY <3>1, <3>2
  <2> HIDE DEF v
  <2>6. /\ moves' \in [0..n -> Nat] /\ moves'[v] = moves[v] + 1 /\ moves[v] \in Nat
        /\ \A w \in 0..n : w # v => moves'[w] = moves[w]
    <3>1. v \in 0..n
      BY <2>1, <2>5
    <3>2. moves \in [0..n -> Nat] /\ moves' = [moves EXCEPT ![v] = moves[v] + 1]
      BY <2>1 DEF Opened
    <3> HIDE DEF n
    <3> QED BY ONLY <3>1, <3>2
  <2>7. top = [depth |-> depth, node |-> s, vec |-> v, seen |-> moves[v] + 1]
    BY DEF Pointer
  <2>8. top \in Pointers
    BY <2>1, <2>5, <2>6, <2>7 DEF Pointers
  <2>9. /\ stack' \in Seq(Pointers) /\ Len(stack') = m + 1 /\ stack'[m + 1] = top
        /\ \A i \in 1..m : stack'[i] = stack[i]
    <3> HIDE DEF top
    <3> QED BY <2>1, <2>3, <2>4, <2>8, AppendProperties
  <2>10. \A i \in 1..m : /\ stack[i].vec < stack[i].node /\ stack[i].node <= taken
                         /\ stack[i].vec \in 0..n /\ stack[i].node \in Nat
    BY <2>3, SMTT(30) DEF Opened
  <2>11. top.vec = v /\ top.node = s /\ top.seen = moves[v] + 1
    BY <2>7
  <2> HIDE DEF top
  <2>12. ASSUME NEW i \in 1..(m + 1)
         PROVE  /\ stack'[i].vec < stack'[i].node /\ stack'[i].node <= s
                /\ stack'[i].seen = moves'[stack'[i].vec]
    <3>1. CASE i = m + 1
      <4>1. stack'[i] = top
        BY <2>9, <3>1
      <4>2. v < s /\ s <= s
        BY <2>1, <2>5
      <4> HIDE DEF s
      <4> QED BY <2>6, <2>11, <4>1, <4>2
    <3>2. CASE i # m + 1
      <4>1. i \in 1..m /\ i \in 1..Len(stack) /\ i \in DOMAIN stack
        BY <2>3, <3>2
      <4>2. stack'[i] = stack[i]
        BY <2>9, <4>1
      <4>3. stack[i].vec # v /\ stack[i].vec \in 0..n
        BY <2>1, <2>5, <2>10, <4>1
      <4>4. stack[i].seen = moves'[stack[i].vec]
        BY <2>6, <4>1, <4>3 DEF PointersAlive
      <4> QED BY <2>1, <2>10, <4>1, <4>2, <4>4
    <3> QED BY <3>1, <3>2
  <2>13. ASSUME NEW i \in 1..(m + 1), NEW j \in 1..(m + 1), i < j
         PROVE  stack'[i].node < stack'[j].node
    <3>1. i \in 1..m /\ stack'[i] = stack[i]
      BY <2>3, <2>9, <2>13
    <3>2. CASE j = m + 1
      <4>1. stack'[j].node = s /\ stack[i].node <= taken /\ stack[i].node \in Nat
        BY <2>9, <2>10, <2>11, <3>1, <3>2
      <4> QED BY <2>1, <3>1, <4>1
    <3>3. CASE j # m + 1
      <4>1. j \in 1..m /\ stack'[j] = stack[j] /\ i \in 1..Len(stack) /\ j \in 1..Len(stack)
        BY <2>3, <2>9, <3>1, <3>3
      <4> QED BY <2>13, <3>1, <4>1 DEF Opened
    <3> QED BY <3>2, <3>3
  <2>14. Opened'
    <3>1. Pointers' = Pointers
      BY <2>1 DEF Pointers
    <3>2. \A k \in 1..n : prepared[k].depth \in Nat
      BY DEF Opened
    <3>3. taken' \in 0..n
      BY <2>1
    <3>4. \A i \in 1..Len(stack') : /\ stack'[i].vec < stack'[i].node
                                   /\ stack'[i].node <= taken'
      BY <2>1, <2>9, <2>12
    <3>5. \A i, j \in 1..Len(stack') : i < j => stack'[i].node < stack'[j].node
      BY <2>9, <2>13
    <3> HIDE DEF s, depth
    <3> QED BY <2>1, <2>6, <2>9, <3>1, <3>2, <3>3, <3>4, <3>5 DEF Opened
  <2>15. PointersAlive'
    BY <2>3, <2>9, <2>12 DEF PointersAlive
  <2>16. \A i \in 1..m : stack[i].depth < depth
    BY <2>2, <2>3
  <2>17. \A i \in 1..Len(stack) : /\ stack[i].depth = prepared[stack[i].node].depth
                                 /\ stack[i].node \in 1..taken
    BY <2>1, <2>3 DEF Opened, Nesting
  <2>18. Enclosing(s) = v
    <3> DEFINE above == {p \in 1..(s - 1) : prepared[p].depth < prepared[s].depth}
    <3>1. above \subseteq 0..n
      BY <2>1
    <3>2. \A p \in above : p \in 1..taken /\ p \in Nat /\ prepared[p].depth < depth
      BY <2>1
    <3>3. ASSUME above # {}
          PROVE  \E k \in 1..m : stack[k].node \in above /\ \A q \in above : q <= stack[k].node
      <4>1. PICK p \in above : \A q \in above : q <= p
        <5> HIDE DEF above
        <5> QED BY <2>1, <3>1, <3>3, MaxOfBounded
      <4>2. ASSUME NEW r \in (p + 1)..taken
            PROVE  prepared[p].depth < prepared[r].depth
        <5>1. r \in 1..n /\ r \in 1..(s - 1) /\ p \in 1..n /\ ~(r <= p)
          BY <2>1, <3>2, <4>1
        <5>2. r \notin above
          BY <4>1, <5>1
        <5>3. ~(prepared[r].depth < depth)
          BY <5>1, <5>2
        <5>4. prepared[r].depth \in Nat /\ prepared[p].depth \in Nat
          BY <5>1 DEF Opened
        <5> HIDE DEF depth, above
        <5> QED BY <3>2, <4>1, <5>3, <5>4
      <4>3. IsOpen(p)
        BY <3>2, <4>1, <4>2 DEF Nesting
      <4>4. PICK k \in 1..Len(stack) : stack[k].node = p
        BY <4>3 DEF IsOpen
      <4>5. stack[k].depth < depth
        BY <2>17, <3>2, <4>1, <4>4
      <4>6. k \in 1..m
        BY <2>2, <2>3, <4>5
      <4> HIDE DEF above
      <4> QED BY <4>1, <4>4, <4>6
    <3>4. \A k \in 1..m : stack[k].node \in above
      <4> TAKE k \in 1..m
      <4>1. k \in 1..Len(stack)
        BY <2>3
      <4>2. stack[k].node \in 1..taken /\ prepared[stack[k].node].depth < depth
        BY <2>16, <2>17, <4>1
      <4> QED BY <2>1, <4>2
    <3> HIDE DEF above
    <3>5. CASE m = 0
      <4>1. v = 0
        BY <2>4, <3>5 DEF PushOn, v
      <4>2. above = {}
        BY <3>3, <3>5
      <4> QED BY <4>1, <4>2 DEF Enclosing, above
    <3>6. CASE m # 0
      <4>1. m \in 1..m /\ m \in 1..Len(stack) /\ Popped(depth) # <<>>
        BY <2>3, <2>4, <3>6
      <4>2. v = stack[m].node
        BY <2>4, <4>1 DEF PushOn, Last, v
      <4>3. v \in above
        BY <3>4, <4>1, <4>2
      <4>4. PICK k \in 1..m : stack[k].node \in above /\ \A q \in above : q <= stack[k].node
        BY <3>3, <4>3
      <4>5. stack[k].node <= v
        BY <2>5, <4>4
      <4>6. stack[k].node = v
        BY <3>2, <4>3, <4>4, <4>5
      <4>7. \A p \in above : (\A q \in above : q <= p) => p = v
        BY <3>2, <4>3, <4>4, <4>6
      <4>8. (CHOOSE p \in above : \A q \in above : q <= p) = v
        BY <4>3, <4>4, <4>6, <4>7
      <4> QED BY <4>3, <4>8 DEF Enclosing, above
    <3> QED BY <3>5, <3>6
  <2>19. Nesting'
    <3>1. vecs' \in [0..n -> Seq(1..n)]
      BY <2>1, <2>5, <1>2 DEF PlaceSection, Nesting, v
    <3>2. top.depth = depth /\ depth = prepared[s].depth
      BY <2>7
    <3>3. ASSUME NEW i \in 1..(m + 1)
          PROVE  stack'[i].depth = prepared[stack'[i].node].depth
      <4>1. CASE i = m + 1
        BY <2>9, <2>11, <3>2, <4>1
      <4>2. CASE i # m + 1
        <5>1. i \in 1..m /\ i \in 1..Len(stack)
          BY <2>3, <4>2
        <5> QED BY <2>9, <2>17, <5>1
      <4> QED BY <4>1, <4>2
    <3>4. ASSUME NEW i \in 1..(m + 1), NEW j \in 1..(m + 1), i < j
          PROVE  stack'[i].depth < stack'[j].depth
      <4>1. i \in 1..m /\ i \in 1..Len(stack) /\ stack'[i] = stack[i]
        BY <2>3, <2>9, <3>4
      <4>2. CASE j = m + 1
        BY <2>9, <2>16, <3>2, <4>1, <4>2
      <4>3. CASE j # m + 1
        <5>1. j \in 1..m /\ j \in 1..Len(stack) /\ stack'[j] = stack[j]
          BY <2>3, <2>9, <4>3
        <5> QED BY <3>4, <4>1, <5>1 DEF Nesting
      <4> QED BY <4>2, <4>3
    <3>5. ASSUME NEW q \in 1..s
          PROVE  IsOpen(q)' <=> \A r \in (q + 1)..s : prepared[q].depth < prepared[r].depth
      <4>1. IsOpen(q)' <=> \E i \in 1..(m + 1) : stack'[i].node = q
        BY <2>9 DEF IsOpen
      <4>2. CASE q = s
        <5>1. IsOpen(q)'
          BY <2>3, <2>9, <2>11, <4>1, <4>2
        <5> QED BY <2>1, <4>2, <5>1
      <4>3. CASE q # s
        <5>1. q \in 1..taken
          BY <2>1, <4>3
        <5>2. IsOpen(q)' <=> \E i \in 1..m : stack[i].node = q
          <6>1. stack'[m + 1].node # q
            BY <2>9, <2>11, <4>3
          <6>2. \A i \in 1..m : i \in 1..(m + 1) /\ stack'[i] = stack[i]
            BY <2>3, <2>9
          <6>3. \A i \in 1..(m + 1) : i \in 1..m \/ i = m + 1
            BY <2>3
          <6> QED BY <4>1, <6>1, <6>2, <6>3
        <5>3. IsOpen(q)' <=> IsOpen(q) /\ prepared[q].depth < depth
          <6>1. \A i \in 1..Len(stack) : stack[i].node = q => (i <= m <=> prepared[q].depth < depth)
            BY <2>2, <2>17
          <6> HIDE DEF depth
          <6> QED BY <2>3, <5>2, <6>1 DEF IsOpen
        <5>4. IsOpen(q) <=> \A r \in (q + 1)..taken : prepared[q].depth < prepared[r].depth
          BY <5>1 DEF Nesting
        <5>5. \A r : r \in (q + 1)..s <=> r \in (q + 1)..taken \/ r = s
          BY <2>1, <5>1
        <5> HIDE DEF s
        <5> QED BY <3>2, <5>3, <5>4, <5>5
      <4> QED BY <4>2, <4>3
    <3> QED BY <2>1, <2>3, <2>9, <3>1, <3>3, <3>4, <3>5 DEF Nesting
  <2>20. SectionsNested'
    <3>1. /\ vecs \in [0..n -> Seq(1..n)]
          /\ vecs' = [vecs EXCEPT ![v] = Append(@, s)]
          /\ dpc' = "built" => s = n
      BY <1>2, <2>1 DEF PlaceSection, Nesting, v
    <3>2. \A q : Enclosing(q)' = Enclosing(q)
      BY <2>1 DEF Enclosing
    <3>3. ASSUME NEW p \in 0..n
          PROVE  /\ Range(vecs'[p]) = {q \in 1..s : Enclosing(q) = p}
                 /\ \A i, j \in DOMAIN vecs'[p] : i < j => vecs'[p][i] < vecs'[p][j]
      <4> DEFINE old == vecs[p]
                 new == vecs'[p]
      <4>1. /\ old \in Seq(1..n)
            /\ Range(old) = {q \in 1..taken : Enclosing(q) = p}
            /\ \A i, j \in DOMAIN old : i < j => old[i] < old[j]
        BY <3>1 DEF SectionsNested
      <4>2. CASE p # v
        <5>1. new = old
          BY <2>5, <3>1, <4>2
        <5>2. {q \in 1..s : Enclosing(q) = p} = {q \in 1..taken : Enclosing(q) = p}
          BY <2>1, <2>18, <4>2
        <5> QED BY <4>1, <5>1, <5>2
      <4>3. CASE p = v
        <5>1. new = Append(old, s)
          BY <2>5, <3>1, <4>3
        <5>2. /\ Len(old) \in Nat /\ DOMAIN old = 1..Len(old) /\ DOMAIN new = 1..(Len(old) + 1)
              /\ new[Len(old) + 1] = s
              /\ \A i \in 1..Len(old) : new[i] = old[i]
          BY <2>1, <4>1, <5>1, AppendProperties
        <5>3. \A i \in 1..Len(old) : old[i] \in 1..taken
          BY <4>1, <5>2 DEF Range
        <5>4. Range(new) = Range(old) \cup {s}
          <6> HIDE DEF new, old
          <6> QED BY <5>2 DEF Range
        <5>5. {q \in 1..s : Enclosing(q) = p} = {q \in 1..taken : Enclosing(q) = p} \cup {s}
          BY <2>1, <2>18, <4>3
        <5>6. ASSUME NEW i \in DOMAIN new, NEW j \in DOMAIN new, i < j
              PROVE  new[i] < new[j]
          <6>1. i \in 1..Len(old) /\ new[i] = old[i]
            BY <5>2, <5>6, SMTT(30)
          <6>2. CASE j = Len(old) + 1
            <7>1. old[i] \in 1..taken /\ new[j] = s
              BY <5>2, <5>3, <6>1, <6>2
            <7> QED BY <2>1, <6>1, <7>1
          <6>3. CASE j # Len(old) + 1
            <7>1. j \in 1..Len(old) /\ new[j] = old[j]
              BY <5>2, <6>3, SMTT(30)
            <7> QED BY <4>1, <5>2, <5>6, <6>1, <7>1
          <6> QED BY <6>2, <6>3
        <5> QED BY <4>1, <5>4, <5>5, <5>6
      <4> QED BY <4>2, <4>3
    <3>4. DOMAIN vecs' = 0..n
      BY <3>1
    <3> HIDE DEF s
    <3> QED BY <2>1, <3>1, <3>2, <3>3, <3>4, SMTT(30) DEF SectionsNested
  <2> QED BY <2>14, <2>15, <2>19, <2>20
<1>3. CASE DocDone
  BY <1>1, <1>3 DEF DocDone
<1> QED BY <1>1, <1>2, <1>3 DEF DocNext

\* No document, whatever its headings, makes build_document_tree follow a
\* raw pointer into a vector that may have moved since (doc_tree.rs:199-227).
THEOREM PointersStayAlive == DocSpec => []PointersAlive
<1>1. TreeInv => PointersAlive
  BY DEF TreeInv
<1> QED BY <1>1, TreeInit, TreeStep, PTL DEF DocSpec

\* build_document_tree puts every section of every document below the nearest
\* shallower one above it, in source order (doc_tree.rs:182-227).
THEOREM SectionsWellNested == DocSpec => []SectionsNested
<1>1. TreeInv => SectionsNested
  BY DEF TreeInv
<1> QED BY <1>1, TreeInit, TreeStep, PTL DEF DocSpec

\* Enclosing is the nearest section above that is shallower.
LEMMA EnclosingIs ==
    ASSUME Opened, NEW s \in 1..Len(prepared)
    PROVE  /\ Enclosing(s) \in 0..(s - 1)
           /\ Enclosing(s) # 0 => prepared[Enclosing(s)].depth < prepared[s].depth
           /\ \A r \in (Enclosing(s) + 1)..(s - 1) : prepared[r].depth >= prepared[s].depth
<1> DEFINE above == {p \in 1..(s - 1) : prepared[p].depth < prepared[s].depth}
<1>0. s \in Nat /\ s > 0 /\ \A r \in 1..s : prepared[r].depth \in Nat
  BY DEF Opened
<1>1. CASE above = {}
  <2>1. Enclosing(s) = 0
    BY <1>1 DEF Enclosing
  <2>2. \A r \in 1..(s - 1) : prepared[r].depth >= prepared[s].depth
    BY <1>0, <1>1
  <2> QED BY <1>0, <2>1, <2>2
<1>2. CASE above # {}
  <2>1. above \subseteq 0..s
    BY <1>0
  <2>2. Max(above) \in above /\ \A q \in above : q <= Max(above)
    <3> HIDE DEF above
    <3> QED BY <1>0, <1>2, <2>1, MaxOfBounded
  <2>3. Enclosing(s) = CHOOSE p \in above : \A q \in above : q <= p
    BY <1>2 DEF Enclosing
  <2> DEFINE m == Enclosing(s)
  <2>4. m \in above /\ \A q \in above : q <= m
    <3> HIDE DEF above
    <3> QED BY <2>2, <2>3
  <2>5. m \in 1..(s - 1) /\ prepared[m].depth < prepared[s].depth
    <3> HIDE DEF m
    <3> QED BY <2>4
  <2>6. \A r \in (m + 1)..(s - 1) : r \notin above /\ r \in 1..(s - 1)
    <3> HIDE DEF m
    <3> QED BY <1>0, <2>4, <2>5
  <2>7. \A r \in (m + 1)..(s - 1) : prepared[r].depth >= prepared[s].depth
    <3> HIDE DEF m
    <3> QED BY <1>0, <2>6
  <2> QED BY <1>0, <2>5, <2>7
<1> QED BY <1>1, <1>2

\* The finished tree.
Finished == TreeInv /\ dpc = "built"

\* A section is in the vector of the one that encloses it, behind the siblings
\* that come before it.
LEMMA PlacedOnce ==
    ASSUME Finished, NEW s \in 1..Len(prepared)
    PROVE  /\ Parent(s) = Enclosing(s) /\ Parent(s) \in 0..(s - 1)
           /\ Position(s) \in 1..Len(vecs[Parent(s)]) /\ vecs[Parent(s)][Position(s)] = s
<1> DEFINE p == Enclosing(s)
<1>0. /\ Len(prepared) \in Nat /\ DOMAIN vecs = 0..Len(prepared) /\ taken = Len(prepared)
      /\ \A q \in 0..Len(prepared) : /\ vecs[q] \in Seq(1..Len(prepared))
                                     /\ Range(vecs[q]) = {t \in 1..taken : Enclosing(t) = q}
  BY DEF Finished, TreeInv, Opened, Nesting, SectionsNested
<1>1. p \in 0..(s - 1) /\ p \in 0..Len(prepared)
  BY <1>0, EnclosingIs DEF Finished, TreeInv
<1>2. \A q \in 0..Len(prepared) : Contains(vecs[q], s) <=> q = p
  <2> TAKE q \in 0..Len(prepared)
  <2>1. Contains(vecs[q], s) <=> s \in Range(vecs[q])
    <3>1. DOMAIN vecs[q] = 1..Len(vecs[q])
      BY <1>0
    <3> QED BY <3>1 DEF Contains, Range
  <2> QED BY <1>0, <2>1
<1>3. Parent(s) = p
  <2> HIDE DEF p
  <2> QED BY <1>0, <1>1, <1>2 DEF Parent
<1>4. \E i \in DOMAIN vecs[p] : vecs[p][i] = s
  <2>1. Contains(vecs[p], s)
    BY <1>1, <1>2
  <2>2. DOMAIN vecs[p] = 1..Len(vecs[p])
    BY <1>0, <1>1
  <2> QED BY <2>1, <2>2 DEF Contains
<1>5. Position(s) \in DOMAIN vecs[p] /\ vecs[p][Position(s)] = s
  <2> HIDE DEF p
  <2> QED BY <1>3, <1>4 DEF Position
<1>6. DOMAIN vecs[p] = 1..Len(vecs[p])
  BY <1>0, <1>1
<1> QED BY <1>1, <1>3, <1>5, <1>6

LEMMA SiblingsInOrder ==
    ASSUME Finished, NEW s \in 1..Len(prepared), NEW t \in 1..Len(prepared), s < t,
           Parent(s) = Parent(t)
    PROVE  Position(s) < Position(t)
<1> DEFINE p == Parent(t)  i == Position(s)  j == Position(t)
<1>1. /\ p \in 0..Len(prepared) /\ i \in 1..Len(vecs[p]) /\ j \in 1..Len(vecs[p])
      /\ vecs[p][i] = s /\ vecs[p][j] = t
  BY PlacedOnce DEF Finished, TreeInv, Opened
<1>2. /\ DOMAIN vecs = 0..Len(prepared) /\ DOMAIN vecs[p] = 1..Len(vecs[p]) /\ Len(vecs[p]) \in Nat
  <2> HIDE DEF p
  <2> QED BY <1>1 DEF Finished, TreeInv, Nesting
<1>3. \A a, b \in DOMAIN vecs[p] : a < b => vecs[p][a] < vecs[p][b]
  <2> HIDE DEF p
  <2> QED BY <1>1, <1>2 DEF Finished, TreeInv, SectionsNested
<1>4. i # j
  BY <1>1
<1>5. ~(j < i)
  <2> HIDE DEF p, i, j
  <2> QED BY <1>1, <1>2, <1>3
<1> HIDE DEF p, i, j
<1>6. i < j
  BY <1>1, <1>2, <1>4, <1>5
<1> QED BY <1>6 DEF i, j

-----------------------------------------------------------------------------
(* assign_paths                                                            *)

\* f holds the paths of the first m sections.
ArePaths(f, m) ==
    /\ f \in [0..m -> Seq(Nat)]
    /\ f[0] = <<>>
    /\ \A s \in 1..m : f[s] = Append(f[Parent(s)], Position(s))

LEMMA PathsExist ==
    ASSUME Finished, NEW n \in 0..Len(prepared)
    PROVE  \E f : ArePaths(f, n)
<1> DEFINE without == {m \in 0..Len(prepared) : ~\E f : ArePaths(f, m)}
<1>0. /\ Len(prepared) \in Nat
      /\ \A s \in 1..Len(prepared) : Parent(s) \in 0..(s - 1) /\ Position(s) \in Nat
  BY PlacedOnce DEF Finished, TreeInv, Opened
<1>1. without = {}
  <2> SUFFICES ASSUME without # {} PROVE FALSE
    OBVIOUS
  <2>1. PICK m \in without : \A k \in without : m <= k
    <3>1. without \subseteq Nat
      BY <1>0
    <3> HIDE DEF without
    <3> QED BY <3>1, LeastNatural
  <2>2. m \in 0..Len(prepared) /\ m \in Nat /\ ~\E f : ArePaths(f, m)
    BY <1>0
  <2>3. CASE m = 0
    <3> DEFINE f == [i \in 0..0 |-> <<>>]
    <3>1. f \in [0..0 -> Seq(Nat)] /\ f[0] = <<>> /\ 1..0 = {}
      OBVIOUS
    <3>2. ArePaths(f, 0)
      <4> HIDE DEF f
      <4> QED BY <3>1 DEF ArePaths
    <3> QED BY <2>2, <2>3, <3>2
  <2>4. CASE m # 0
    <3>1. m - 1 \in 0..Len(prepared) /\ m - 1 \notin without /\ m - 1 \in Nat
      BY <1>0, <2>1, <2>2, <2>4
    <3>2. PICK f : ArePaths(f, m - 1)
      BY <3>1
    <3> HIDE DEF without
    <3> DEFINE next == Append(f[Parent(m)], Position(m))
               g == [i \in 0..m |-> IF i = m THEN next ELSE f[i]]
    <3>3. m \in 1..Len(prepared) /\ Parent(m) \in 0..(m - 1) /\ Position(m) \in Nat
      BY <1>0, <2>2, <2>4
    <3>4. f \in [0..(m - 1) -> Seq(Nat)] /\ f[Parent(m)] \in Seq(Nat) /\ next \in Seq(Nat)
      BY <3>1, <3>2, <3>3 DEF ArePaths
    <3>5. g[m] = next /\ \A i \in 0..(m - 1) : g[i] = f[i]
      BY <2>2
    <3>6. g \in [0..m -> Seq(Nat)]
      <4> HIDE DEF next
      <4> QED BY <2>2, <3>4
    <3>7. g[0] = <<>>
      BY <2>2, <2>4, <3>2, <3>5 DEF ArePaths
    <3>8. \A i \in 1..m : g[i] = Append(g[Parent(i)], Position(i))
      <4> HIDE DEF g
      <4> TAKE i \in 1..m
      <4>1. i \in 1..Len(prepared) /\ Parent(i) \in 0..(i - 1) /\ Parent(i) \in 0..(m - 1)
        BY <1>0, <2>2
      <4>2. g[Parent(i)] = f[Parent(i)]
        BY <3>5, <4>1
      <4>3. CASE i = m
        BY <3>5, <4>2, <4>3
      <4>4. CASE i # m
        <5>1. i \in 1..(m - 1) /\ i \in 0..(m - 1)
          BY <2>2, <4>4
        <5>2. f[i] = Append(f[Parent(i)], Position(i))
          BY <3>2, <5>1 DEF ArePaths
        <5> QED BY <3>5, <4>2, <5>1, <5>2
      <4> QED BY <4>3, <4>4
    <3>9. ArePaths(g, m)
      <4> HIDE DEF g
      <4> QED BY <3>6, <3>7, <3>8 DEF ArePaths
    <3> QED BY <2>2, <3>9
  <2> QED BY <2>3, <2>4
<1> QED BY <1>1

LEMMA PathsDefined ==
    ASSUME Finished
    PROVE  ArePaths(Paths, Len(prepared))
<1> DEFINE n == Len(prepared)
           E(f) == [s \in DOMAIN vecs |-> IF s = 0 THEN <<>> ELSE Append(f[Parent(s)], Position(s))]
           T == CHOOSE g : g = E(g)
<1>0. /\ n \in Nat /\ DOMAIN vecs = 0..n
      /\ \A s \in 1..n : Parent(s) \in 0..(s - 1)
  BY PlacedOnce DEF Finished, TreeInv, Opened, Nesting
<1>1. PICK f : ArePaths(f, n)
  <2>1. n \in 0..n
    BY <1>0
  <2> QED BY <2>1, PathsExist
<1> HIDE DEF n
<1>2. f = E(f)
  <2>1. f = [s \in DOMAIN vecs |-> f[s]]
    BY <1>0, <1>1 DEF ArePaths
  <2>2. \A s \in DOMAIN vecs : f[s] = IF s = 0 THEN <<>> ELSE Append(f[Parent(s)], Position(s))
    <3> TAKE s \in DOMAIN vecs
    <3>1. s # 0 => s \in 1..n
      BY <1>0
    <3> QED BY <1>1, <3>1 DEF ArePaths
  <2> QED BY <2>1, <2>2
<1>3. T = E(T)
  <2> HIDE DEF E
  <2> QED BY <1>2
<1>4. Paths = T
  BY DEF Paths
<1> HIDE DEF T
<1> DEFINE bad == {i \in 0..n : T[i] # f[i]}
<1>5. bad = {}
  <2> SUFFICES ASSUME bad # {} PROVE FALSE
    OBVIOUS
  <2>1. PICK i \in bad : \A k \in bad : i <= k
    <3>1. bad \subseteq Nat
      BY <1>0
    <3> HIDE DEF bad
    <3> QED BY <3>1, LeastNatural
  <2>2. i \in 0..n /\ T[i] # f[i]
    OBVIOUS
  <2>3. T[i] = E(T)[i] /\ f[i] = E(f)[i]
    <3> HIDE DEF E
    <3> QED BY <1>2, <1>3
  <2>4. i # 0
    BY <1>0, <2>2, <2>3
  <2>5. i \in 1..n /\ Parent(i) \in 0..n /\ Parent(i) < i
    BY <1>0, <2>2, <2>4
  <2>6. T[Parent(i)] = f[Parent(i)]
    BY <1>0, <2>1, <2>2, <2>5
  <2> QED BY <1>0, <2>2, <2>3, <2>4, <2>6
<1>6. T = f
  <2>1. DOMAIN T = 0..n /\ T = [s \in 0..n |-> T[s]]
    BY <1>0, <1>3
  <2>2. f = [s \in 0..n |-> f[s]]
    BY <1>1 DEF ArePaths
  <2> QED BY <1>5, <2>1, <2>2
<1> QED BY <1>1, <1>4, <1>6 DEF n

-----------------------------------------------------------------------------
(* The order of the paths                                                  *)

\* p is a proper beginning of q, or smaller where they first differ.
StrictlyBefore(p, q) ==
    \/ Len(p) < Len(q) /\ \A i \in 1..Len(p) : p[i] = q[i]
    \/ \E i \in 1..Len(p) : i <= Len(q) /\ p[i] < q[i] /\ \A j \in 1..(i - 1) : p[j] = q[j]

LEMMA BeforeIs ==
    ASSUME NEW p \in Seq(Nat), NEW q \in Seq(Nat)
    PROVE  /\ Before(p, q) <=> StrictlyBefore(p, q) \/ p = q
           /\ StrictlyBefore(p, q) => ~StrictlyBefore(q, p) /\ p # q
<1>0. /\ Len(p) \in Nat /\ Len(q) \in Nat /\ DOMAIN p = 1..Len(p) /\ DOMAIN q = 1..Len(q)
      /\ \A i \in 1..Len(p) : p[i] \in Nat
      /\ \A i \in 1..Len(q) : q[i] \in Nat
  OBVIOUS
<1>1. IsPrefix(p, q) <=> Len(p) <= Len(q) /\ \A i \in 1..Len(p) : p[i] = q[i]
  <2>1. SubSeq(p, 1, Len(p)) = p
    BY <1>0
  <2>2. ASSUME Len(p) <= Len(q)
        PROVE  p = SubSeq(q, 1, Len(p)) <=> \A i \in 1..Len(p) : p[i] = q[i]
    <3> DEFINE b == SubSeq(q, 1, Len(p))
    <3>1. b \in Seq(Nat) /\ Len(b) = Len(p) /\ \A i \in 1..Len(p) : b[i] = q[i]
      BY <1>0, <2>2
    <3> HIDE DEF b
    <3>2. p = b <=> \A i \in 1..Len(p) : p[i] = b[i]
      BY <1>0, <3>1
    <3> QED BY <3>1, <3>2 DEF b
  <2> QED BY <2>1, <2>2 DEF IsPrefix
<1>2. IsPrefix(p, q) <=> p = q \/ (Len(p) < Len(q) /\ \A i \in 1..Len(p) : p[i] = q[i])
  <2>1. ASSUME Len(p) = Len(q), \A i \in 1..Len(p) : p[i] = q[i] PROVE p = q
    BY <1>0, <2>1
  <2>2. Len(p) <= Len(q) <=> Len(p) = Len(q) \/ Len(p) < Len(q)
    <3>1. \A a, b \in Nat : a <= b <=> a = b \/ a < b
      OBVIOUS
    <3> QED BY <1>0, <3>1, Zenon
  <2>3. p = q => Len(p) = Len(q) /\ \A i \in 1..Len(p) : p[i] = q[i]
    OBVIOUS
  <2> HIDE <1>0
  <2> QED BY <1>1, <2>1, <2>2, <2>3
<1>3. Before(p, q) <=> StrictlyBefore(p, q) \/ p = q
  <2>1. (\E i \in DOMAIN p \cap DOMAIN q : p[i] < q[i] /\ \A j \in 1..(i - 1) : p[j] = q[j])
        <=> (\E i \in 1..Len(p) : i <= Len(q) /\ p[i] < q[i] /\ \A j \in 1..(i - 1) : p[j] = q[j])
    <3>1. \A i : i \in DOMAIN p \cap DOMAIN q <=> i \in 1..Len(p) /\ i <= Len(q)
      BY <1>0
    <3> QED BY <3>1
  <2> QED BY <1>2, <2>1 DEF Before, StrictlyBefore
<1>4. ASSUME StrictlyBefore(p, q) PROVE ~StrictlyBefore(q, p) /\ p # q
  <2>1. CASE Len(p) < Len(q) /\ \A i \in 1..Len(p) : p[i] = q[i]
    BY <1>0, <2>1 DEF StrictlyBefore
  <2>2. CASE \E i \in 1..Len(p) : i <= Len(q) /\ p[i] < q[i] /\ \A j \in 1..(i - 1) : p[j] = q[j]
    <3>1. PICK i \in 1..Len(p) : i <= Len(q) /\ p[i] < q[i] /\ \A j \in 1..(i - 1) : p[j] = q[j]
      BY <2>2
    <3>2. i \in 1..Len(q) /\ ~(q[i] < p[i]) /\ p[i] # q[i]
      BY <1>0, <3>1
    <3>3. ~(Len(q) < Len(p) /\ \A j \in 1..Len(q) : q[j] = p[j])
      BY <3>2
    <3>4. ASSUME NEW k \in 1..Len(q), k <= Len(p), q[k] < p[k], \A j \in 1..(k - 1) : q[j] = p[j]
          PROVE  FALSE
      <4>1. ~(i \in 1..(k - 1))
        BY <3>2, <3>4
      <4>2. ~(k \in 1..(i - 1))
        BY <1>0, <3>1, <3>4
      <4>3. i = k
        BY <1>0, <4>1, <4>2
      <4> QED BY <3>2, <3>4, <4>3
    <3> QED BY <3>2, <3>3, <3>4 DEF StrictlyBefore
  <2> QED BY <1>4, <2>1, <2>2 DEF StrictlyBefore
<1> QED BY <1>3, <1>4

\* The sections between one and its parent are below an earlier sibling.
LEMMA EarlierBranch ==
    ASSUME Finished, NEW t \in 1..Len(prepared), NEW s \in 1..Len(prepared),
           Parent(t) < s, s < t
    PROVE  LET q == Paths[Parent(t)] IN
           /\ Len(q) < Len(Paths[s]) /\ \A i \in 1..Len(q) : Paths[s][i] = q[i]
           /\ Paths[s][Len(q) + 1] < Position(t)
<1> DEFINE n == Len(prepared)
           p == Parent(t)
           q == Paths[p]
           Below(r) == /\ Len(q) < Len(Paths[r]) /\ \A i \in 1..Len(q) : Paths[r][i] = q[i]
                       /\ Paths[r][Len(q) + 1] < Position(t)
           bad == {r \in 1..n : p < r /\ r < t /\ ~Below(r)}
<1>0. /\ n \in Nat /\ \A r \in 1..n : prepared[r].depth \in Nat
      /\ \A r \in 1..n : Parent(r) \in 0..(r - 1) /\ Parent(r) = Enclosing(r)
      /\ \A r \in 1..n : Position(r) \in Nat
  <2>1. n \in Nat /\ \A r \in 1..n : prepared[r].depth \in Nat
    BY DEF Finished, TreeInv, Opened
  <2>2. \A r \in 1..n : /\ Parent(r) \in 0..(r - 1) /\ Parent(r) = Enclosing(r)
                        /\ Position(r) \in 1..Len(vecs[Parent(r)])
    BY PlacedOnce
  <2>3. \A r \in 1..n : Position(r) \in Nat
    BY <2>2
  <2> QED BY <2>1, <2>2, <2>3
<1>e. \A r \in 1..n : \A k \in 1..n :
        /\ k = Parent(r) => prepared[k].depth < prepared[r].depth
        /\ Parent(r) < k /\ k < r => prepared[r].depth <= prepared[k].depth
  <2> TAKE r \in 1..n
  <2> TAKE k \in 1..n
  <2>1. Parent(r) < k /\ k < r => k \in (Parent(r) + 1)..(r - 1)
    BY <1>0, SMTT(30)
  <2>2. k # 0
    BY <1>0
  <2>3. Opened
    BY DEF Finished, TreeInv
  <2> QED BY <1>0, <2>1, <2>2, <2>3, EnclosingIs
<1>1. ArePaths(Paths, n)
  BY PathsDefined
<1>2. p \in 0..n /\ p \in Nat /\ t \in Nat /\ q \in Seq(Nat) /\ Len(q) \in Nat
  BY <1>0, <1>1 DEF ArePaths
<1>3. bad = {}
  <2> SUFFICES ASSUME bad # {} PROVE FALSE
    OBVIOUS
  <2>1. PICK r \in bad : \A k \in bad : r <= k
    <3>1. bad \subseteq Nat
      BY <1>0
    <3> HIDE DEF bad
    <3> QED BY <3>1, LeastNatural
  <2>2. r \in 1..n /\ p < r /\ r < t /\ ~Below(r)
    OBVIOUS
  <2>3. \A k \in 1..n : p < k /\ k < r => Below(k)
    <3>1. \A k \in 1..n : k < r => k < t /\ ~(r <= k)
      <4> HIDE DEF n
      <4> QED BY <1>0, <1>2, <2>2
    <3>2. \A k \in 1..n : p < k /\ k < r => k \notin bad /\ k < t
      <4> HIDE DEF bad
      <4> QED BY <2>1, <3>1
    <3> QED BY <3>2
  <2> HIDE DEF bad
  <2>4. Parent(r) \in 0..(r - 1) /\ Paths[r] = Append(Paths[Parent(r)], Position(r))
    BY <1>0, <1>1, <2>2 DEF ArePaths
  <2> DEFINE u == Parent(r)
  <2>n. r \in Nat /\ u \in Nat /\ u < r /\ u \in 0..n
    BY <1>0, <2>2, <2>4, SMTT(30)
  <2>5. ~(u < p)
    <3> SUFFICES ASSUME u < p PROVE FALSE
      OBVIOUS
    <3> HIDE DEF p, u, n
    <3>1. p \in 1..n
      BY <1>0, <1>2, <2>2, <2>n
    <3>2. prepared[r].depth <= prepared[p].depth
      BY <1>e, <2>2, <3>1 DEF u
    <3>3. prepared[p].depth < prepared[t].depth /\ prepared[t].depth <= prepared[r].depth
      BY <1>e, <2>2, <3>1 DEF p, n
    <3>4. prepared[p].depth \in Nat /\ prepared[r].depth \in Nat /\ prepared[t].depth \in Nat
      BY <1>0, <2>2, <3>1 DEF n
    <3> QED BY <3>2, <3>3, <3>4
  <2>6. CASE Parent(r) = p
    <3>1. Position(r) < Position(t)
      BY <2>2, <2>6, SiblingsInOrder
    <3>2. Paths[r] = Append(q, Position(r)) /\ Position(r) \in Nat
      BY <1>0, <2>2, <2>4, <2>6
    <3> HIDE DEF q
    <3>3. /\ Len(Paths[r]) = Len(q) + 1 /\ Paths[r][Len(q) + 1] = Position(r)
          /\ \A i \in 1..Len(q) : Paths[r][i] = q[i]
      BY <1>2, <3>2
    <3> QED BY <1>2, <2>2, <3>1, <3>3
  <2>7. CASE Parent(r) # p
    <3>1. u \in 1..n /\ p < u /\ u < r
      <4> HIDE DEF p, u, n
      <4>1. u # p
        BY <2>7 DEF u
      <4> QED BY <1>0, <1>2, <2>n, <2>5, <4>1
    <3>2. Below(u)
      BY <2>3, <3>1
    <3>3. Paths[u] \in Seq(Nat) /\ Len(Paths[u]) \in Nat
      BY <1>0, <1>1, <3>1 DEF ArePaths
    <3>4. Position(r) \in Nat
      BY <1>0, <2>2
    <3>5. Paths[r] = Append(Paths[u], Position(r))
      BY <2>4
    <3> HIDE DEF u, q
    <3>6. /\ Len(Paths[r]) = Len(Paths[u]) + 1
          /\ \A i \in 1..Len(Paths[u]) : Paths[r][i] = Paths[u][i]
      BY <3>3, <3>4, <3>5
    <3>7. Len(q) + 1 \in 1..Len(Paths[u]) /\ \A i \in 1..Len(q) : i \in 1..Len(Paths[u])
      BY <1>2, <3>2, <3>3
    <3>8. Below(r)
      <4>1. Len(q) < Len(Paths[r])
        BY <1>2, <3>2, <3>3, <3>6
      <4>2. \A i \in 1..Len(q) : Paths[r][i] = q[i]
        BY <3>2, <3>6, <3>7
      <4>3. Paths[r][Len(q) + 1] < Position(t)
        BY <3>2, <3>6, <3>7
      <4> QED BY <4>1, <4>2, <4>3
    <3> QED BY <2>2, <3>8
  <2> QED BY <2>6, <2>7
<1>4. Below(s)
  BY <1>3
<1> QED BY <1>4

\* The order of the paths is the order of the headings.
LEMMA PathsInOrder ==
    ASSUME Finished, NEW t \in 0..Len(prepared), NEW s \in 0..Len(prepared), s < t
    PROVE  StrictlyBefore(Paths[s], Paths[t])
<1> DEFINE n == Len(prepared)
           bad == {r \in 0..n : \E k \in 0..n : k < r /\ ~StrictlyBefore(Paths[k], Paths[r])}
<1>0. /\ n \in Nat
      /\ \A r \in 1..n : Parent(r) \in 0..(r - 1) /\ Position(r) \in Nat
  BY PlacedOnce DEF Finished, TreeInv, Opened
<1>1. ArePaths(Paths, n)
  BY PathsDefined
<1>2. bad = {}
  <2> SUFFICES ASSUME bad # {} PROVE FALSE
    OBVIOUS
  <2>1. PICK r \in bad : \A k \in bad : r <= k
    <3>1. bad \subseteq Nat
      BY <1>0
    <3> HIDE DEF bad
    <3> QED BY <3>1, LeastNatural
  <2>2. PICK k \in 0..n : k < r /\ ~StrictlyBefore(Paths[k], Paths[r])
    OBVIOUS
  <2>3. r \in 1..n
    BY <1>0, <2>2
  <2> DEFINE q == Parent(r)  x == Paths[k]  y == Paths[q]  z == Paths[r]
  <2>4. q \in 0..n /\ q < r /\ q \in 0..(r - 1)
    BY <1>0, <2>3
  <2>5. \A j \in 0..n : j < q => StrictlyBefore(Paths[j], Paths[q])
    <3>1. q \notin bad
      BY <1>0, <2>1, <2>3, <2>4, SMTT(30)
    <3> QED BY <2>4, <3>1
  <2> HIDE DEF bad
  <2>6. /\ x \in Seq(Nat) /\ y \in Seq(Nat) /\ z = Append(y, Position(r)) /\ Position(r) \in Nat
    BY <1>0, <1>1, <2>2, <2>3, <2>4 DEF ArePaths
  <2>7. CASE k = q
    <3>1. x = y
      BY <2>7
    <3> HIDE DEF x, y, z
    <3>2. StrictlyBefore(x, z)
      BY <2>6, <3>1 DEF StrictlyBefore
    <3> QED BY <2>2, <3>2 DEF x, z
  <2>8. CASE k < q
    <3>1. StrictlyBefore(x, y)
      BY <2>2, <2>5, <2>8
    <3> HIDE DEF x, y, z
    <3>2. Len(z) = Len(y) + 1 /\ Len(y) \in Nat /\ \A i \in 1..Len(y) : z[i] = y[i]
      BY <2>6
    <3>3. CASE Len(x) < Len(y) /\ \A i \in 1..Len(x) : x[i] = y[i]
      <4>1. Len(x) < Len(z) /\ \A i \in 1..Len(x) : x[i] = z[i]
        BY <2>6, <3>2, <3>3
      <4> QED BY <2>2, <4>1 DEF StrictlyBefore, x, z
    <3>4. CASE \E i \in 1..Len(x) : i <= Len(y) /\ x[i] < y[i] /\ \A j \in 1..(i - 1) : x[j] = y[j]
      <4>1. PICK i \in 1..Len(x) : i <= Len(y) /\ x[i] < y[i] /\ \A j \in 1..(i - 1) : x[j] = y[j]
        BY <3>4
      <4>2. i \in 1..Len(y) /\ \A j \in 1..(i - 1) : j \in 1..Len(y)
        BY <2>6, <4>1
      <4>3. i <= Len(z) /\ x[i] < z[i] /\ \A j \in 1..(i - 1) : x[j] = z[j]
        BY <2>6, <3>2, <4>1, <4>2, SMTT(30)
      <4> QED BY <2>2, <4>3 DEF StrictlyBefore, x, z
    <3> QED BY <3>1, <3>3, <3>4 DEF StrictlyBefore
  <2>9. CASE q < k
    <3>0. k \in 1..n
      BY <1>0, <2>2, <2>4, <2>9
    <3>1. /\ Len(y) < Len(x) /\ \A i \in 1..Len(y) : x[i] = y[i]
          /\ x[Len(y) + 1] < Position(r)
      BY <2>2, <2>3, <2>9, <3>0, EarlierBranch
    <3> HIDE DEF x, y, z
    <3>2. /\ Len(z) = Len(y) + 1 /\ Len(y) \in Nat /\ z[Len(y) + 1] = Position(r)
          /\ \A i \in 1..Len(y) : z[i] = y[i]
      BY <2>6
    <3>3. Len(y) + 1 \in 1..Len(x)
      BY <2>6, <3>1, <3>2
    <3>4. \A j \in 1..((Len(y) + 1) - 1) : x[j] = z[j]
      BY <3>1, <3>2
    <3>5. StrictlyBefore(x, z)
      <4> DEFINE l == Len(y) + 1
      <4>1. l \in 1..Len(x) /\ l <= Len(z) /\ x[l] < z[l] /\ \A j \in 1..(l - 1) : x[j] = z[j]
        BY <3>1, <3>2, <3>3, <3>4
      <4> HIDE DEF l
      <4> QED BY <4>1 DEF StrictlyBefore
    <3> QED BY <2>2, <3>5 DEF x, z
  <2> QED BY <1>0, <2>2, <2>4, <2>7, <2>8, <2>9
<1> QED BY <1>2

-----------------------------------------------------------------------------
(* visit, find and count_leaves                                            *)

\* The sections that come no later than s are those up to s.
LEMMA SectionsUpTo ==
    ASSUME Finished, NEW s \in 0..Len(prepared)
    PROVE  {t \in DOMAIN vecs : Before(Paths[t], Paths[s])} = 0..s
<1> DEFINE n == Len(prepared)
<1>0. n \in Nat /\ DOMAIN vecs = 0..n
  BY DEF Finished, TreeInv, Opened, Nesting
<1>1. \A t \in 0..n : Paths[t] \in Seq(Nat)
  BY <1>0, PathsDefined DEF ArePaths
<1>2. ASSUME NEW t \in 0..n PROVE Before(Paths[t], Paths[s]) <=> t <= s
  <2>1. CASE t < s
    <3>1. StrictlyBefore(Paths[t], Paths[s])
      BY <2>1, PathsInOrder
    <3>2. Before(Paths[t], Paths[s])
      BY <1>1, <3>1, BeforeIs
    <3> QED BY <1>0, <2>1, <3>2
  <2>2. CASE t = s
    <3>1. Before(Paths[t], Paths[s])
      BY <1>1, <2>2, BeforeIs
    <3> QED BY <1>0, <2>2, <3>1
  <2>3. CASE s < t
    <3>1. StrictlyBefore(Paths[s], Paths[t])
      BY <2>3, PathsInOrder
    <3>2. ~Before(Paths[t], Paths[s])
      BY <1>1, <3>1, BeforeIs
    <3> QED BY <1>0, <2>3, <3>2
  <2> QED BY <1>0, <2>1, <2>2, <2>3
<1> DEFINE B(t) == Before(Paths[t], Paths[s])
<1>3. {t \in 0..n : B(t)} = 0..s
  <2>1. \A t \in 0..n : B(t) <=> t <= s
    BY <1>2
  <2> HIDE DEF B
  <2>2. s \in 0..n /\ s \in Nat
    BY <1>0
  <2> HIDE DEF n
  <2> QED BY <1>0, <2>1, <2>2
<1> QED BY <1>0, <1>3

\* Depth first is the order of the headings.
LEMMA VisitIsOrder ==
    ASSUME Finished
    PROVE  Visit = [k \in 1..(Len(prepared) + 1) |-> k - 1]
<1> DEFINE n == Len(prepared)
           rank(s) == Cardinality({t \in DOMAIN vecs : Before(Paths[t], Paths[s])})
<1>0. n \in Nat /\ DOMAIN vecs = 0..n
  BY DEF Finished, TreeInv, Opened, Nesting
<1>1. \A s \in 0..n : rank(s) = s + 1
  <2> TAKE s \in 0..n
  <2>1. Cardinality(0..s) = s + 1
    BY <1>0, FS_Interval
  <2>2. {t \in DOMAIN vecs : Before(Paths[t], Paths[s])} = 0..s
    BY SectionsUpTo
  <2> QED BY <2>1, <2>2
<1>2. Cardinality(DOMAIN vecs) = n + 1
  BY <1>0, FS_Interval
<1>3. Visit = [k \in 1..Cardinality(DOMAIN vecs) |-> CHOOSE s \in DOMAIN vecs : rank(s) = k]
  BY DEF Visit
<1> HIDE DEF rank, n
<1>4. ASSUME NEW k \in 1..(n + 1) PROVE (CHOOSE s \in DOMAIN vecs : rank(s) = k) = k - 1
  <2>1. k - 1 \in DOMAIN vecs /\ rank(k - 1) = k
    BY <1>0, <1>1
  <2>2. \A s \in DOMAIN vecs : rank(s) = k => s = k - 1
    BY <1>0, <1>1
  <2> QED BY <2>1, <2>2
<1>5. Visit = [k \in 1..(n + 1) |-> k - 1]
  BY <1>2, <1>3, <1>4
<1> QED BY <1>5 DEF n

\* A path is one section's alone.
LEMMA FindsItself ==
    ASSUME Finished, NEW s \in DOMAIN vecs
    PROVE  Find(Paths[s]) = s
<1> DEFINE n == Len(prepared)
           Asked(t) == /\ Paths[t] = Paths[s]
                       /\ \A r \in DOMAIN vecs : Paths[r] = Paths[s] => t <= r
<1>0. n \in Nat /\ DOMAIN vecs = 0..n
  BY DEF Finished, TreeInv, Opened, Nesting
<1>1. \A t \in 0..n : Paths[t] \in Seq(Nat)
  BY <1>0, PathsDefined DEF ArePaths
<1>2. ASSUME NEW t \in DOMAIN vecs, Paths[t] = Paths[s] PROVE t = s
  <2>1. ~(t < s)
    <3> SUFFICES ASSUME t < s PROVE FALSE
      OBVIOUS
    <3>1. StrictlyBefore(Paths[t], Paths[s])
      BY <1>0, PathsInOrder
    <3> QED BY <1>0, <1>1, <1>2, <3>1, BeforeIs
  <2>2. ~(s < t)
    <3> SUFFICES ASSUME s < t PROVE FALSE
      OBVIOUS
    <3>1. StrictlyBefore(Paths[s], Paths[t])
      BY <1>0, PathsInOrder
    <3> QED BY <1>0, <1>1, <1>2, <3>1, BeforeIs
  <2> QED BY <1>0, <2>1, <2>2
<1>3. Asked(s)
  <2>1. s <= s
    BY <1>0
  <2> QED BY <1>2, <2>1
<1>4. \A t \in DOMAIN vecs : Asked(t) => t = s
  BY <1>2
<1>5. Find(Paths[s]) = CHOOSE t \in DOMAIN vecs : Asked(t)
  BY DEF Find
<1> HIDE DEF Asked
<1> QED BY <1>3, <1>4, <1>5

\* A vector stays empty when no deeper heading follows its section.
LEMMA EmptyIs ==
    ASSUME Finished, NEW k \in 0..Len(prepared), Len(prepared) > 0
    PROVE  vecs[k] = <<>> <=> /\ k \in 1..Len(prepared)
                              /\ \/ k = Len(prepared)
                                 \/ prepared[k + 1].depth <= prepared[k].depth
<1> DEFINE n == Len(prepared)
<1>0. /\ n \in Nat /\ n > 0 /\ k \in Nat /\ \A r \in 1..n : prepared[r].depth \in Nat
      /\ vecs[k] \in Seq(1..n) /\ Range(vecs[k]) = {t \in 1..n : Enclosing(t) = k}
  <2>1. /\ n \in Nat /\ taken = n /\ DOMAIN vecs = 0..n
        /\ \A r \in 1..n : prepared[r].depth \in Nat
    BY DEF Finished, TreeInv, Opened, Nesting, SectionsNested
  <2>2. vecs[k] \in Seq(1..n)
    BY DEF Finished, TreeInv, Nesting
  <2>3. Range(vecs[k]) = {t \in 1..taken : Enclosing(t) = k}
    <3>1. k \in DOMAIN vecs
      BY <2>1
    <3> QED BY <3>1 DEF Finished, TreeInv, SectionsNested
  <2> QED BY <2>1, <2>2, <2>3
<1>1. vecs[k] = <<>> <=> ~\E t \in 1..n : Enclosing(t) = k
  <2>1. DOMAIN vecs[k] = 1..Len(vecs[k]) /\ Len(vecs[k]) \in Nat
    BY <1>0
  <2>2. vecs[k] = <<>> <=> Len(vecs[k]) = 0
    BY <1>0
  <2>3. Len(vecs[k]) = 0 <=> DOMAIN vecs[k] = {}
    <3>1. \A l \in Nat : l = 0 <=> 1..l = {}
      <4> TAKE l \in Nat
      <4>1. l # 0 => 1 \in 1..l
        OBVIOUS
      <4> QED BY <4>1
    <3> QED BY <2>1, <3>1
  <2>4. DOMAIN vecs[k] = {} <=> Range(vecs[k]) = {}
    BY DEF Range
  <2> QED BY <1>0, <2>2, <2>3, <2>4
<1>e. \A t \in 1..n : /\ Enclosing(t) \in 0..(t - 1)
                      /\ Enclosing(t) # 0 => prepared[Enclosing(t)].depth < prepared[t].depth
                      /\ \A r \in 1..n : Enclosing(t) < r /\ r < t
                            => prepared[t].depth <= prepared[r].depth
  <2> TAKE t \in 1..n
  <2>1. Opened
    BY DEF Finished, TreeInv
  <2>2. Enclosing(t) \in 0..(t - 1)
    BY <2>1, EnclosingIs
  <2>3. \A r \in 1..n : Enclosing(t) < r /\ r < t => r \in (Enclosing(t) + 1)..(t - 1)
    BY <1>0, <2>2
  <2>4. \A r \in (Enclosing(t) + 1)..(t - 1) : r \in 1..n
    BY <1>0, <2>2
  <2>5. \A r \in (Enclosing(t) + 1)..(t - 1) : prepared[t].depth <= prepared[r].depth
    BY <1>0, <2>1, <2>4, EnclosingIs
  <2> QED BY <2>1, <2>2, <2>3, <2>5, EnclosingIs
<1>2. CASE k = 0
  <2>1. 1 \in 1..n /\ Enclosing(1) = 0
    BY <1>0, <1>e
  <2> QED BY <1>1, <1>2, <2>1
<1>3. CASE k = n
  <2>1. ~\E t \in 1..n : Enclosing(t) = k
    BY <1>0, <1>3, <1>e
  <2> QED BY <1>0, <1>1, <1>3, <2>1
<1>4. CASE k \in 1..n /\ k # n
  <2>1. k + 1 \in 1..n
    BY <1>0, <1>4
  <2> DEFINE dk == prepared[k].depth  dl == prepared[k + 1].depth
  <2>2. dk \in Nat /\ dl \in Nat
    BY <1>0, <1>4, <2>1
  <2>3. ASSUME dk < dl PROVE Enclosing(k + 1) = k
    <3>1. Enclosing(k + 1) \in 0..k
      BY <1>0, <1>e, <2>1
    <3>2. ~(Enclosing(k + 1) < k)
      <4> SUFFICES ASSUME Enclosing(k + 1) < k PROVE FALSE
        OBVIOUS
      <4>1. dl <= dk
        BY <1>0, <1>4, <1>e, <2>1
      <4> QED BY <2>2, <2>3, <4>1
    <3> QED BY <1>0, <3>1, <3>2
  <2>4. ASSUME NEW t \in 1..n, Enclosing(t) = k PROVE dk < dl
    <3>1. k < t /\ dk < prepared[t].depth
      <4>1. Enclosing(t) \in 0..(t - 1) /\ k # 0
        BY <1>4, <1>e
      <4>2. k < t
        BY <1>0, <2>4, <4>1
      <4> QED BY <1>e, <2>4, <4>1, <4>2
    <3>2. CASE t = k + 1
      BY <3>1, <3>2
    <3>3. CASE t # k + 1
      <4>1. k < k + 1 /\ k + 1 < t
        BY <1>0, <3>1, <3>3
      <4>2. prepared[t].depth <= dl
        BY <1>e, <2>1, <2>4, <4>1
      <4>3. prepared[t].depth \in Nat
        BY <1>0
      <4> HIDE DEF dk, dl
      <4> QED BY <2>2, <3>1, <4>2, <4>3
    <3> QED BY <3>2, <3>3
  <2>5. vecs[k] = <<>> <=> ~(dk < dl)
    <3> HIDE DEF dk, dl
    <3> QED BY <1>1, <2>1, <2>3, <2>4
  <2>6. ~(dk < dl) <=> dl <= dk
    <3> HIDE DEF dk, dl
    <3> QED BY <2>2
  <2> QED BY <1>4, <2>5, <2>6
<1> QED BY <1>0, <1>2, <1>3, <1>4

LEMMA LeavesCounted ==
    ASSUME Finished
    PROVE  LeafCount = Max({1, Cardinality({k \in DOMAIN prepared :
               k = Len(prepared) \/ prepared[k + 1].depth <= prepared[k].depth})})
<1> DEFINE n == Len(prepared)
           leaves == {k \in DOMAIN prepared : k = n \/ prepared[k + 1].depth <= prepared[k].depth}
           empty == {s \in DOMAIN vecs : vecs[s] = <<>>}
<1>0. n \in Nat /\ DOMAIN vecs = 0..n /\ DOMAIN prepared = 1..n
  BY DEF Finished, TreeInv, Opened, Nesting
<1>1. CASE n = 0
  <2>1. leaves = {} /\ Cardinality(leaves) = 0
    <3>1. leaves = {}
      BY <1>0, <1>1
    <3> HIDE DEF leaves
    <3> QED BY <3>1, FS_EmptySet
  <2>2. empty \subseteq {0}
    BY <1>0, <1>1
  <2>3. Cardinality(empty) = 0 \/ Cardinality(empty) = 1
    <3>1. empty = {} \/ empty = {0}
      <4> HIDE DEF empty
      <4> QED BY <2>2
    <3> HIDE DEF empty
    <3> QED BY <3>1, FS_EmptySet, FS_Singleton
  <2>4. Max({1, Cardinality(empty)}) = 1 /\ Max({1, Cardinality(leaves)}) = 1
    <3> HIDE DEF empty, leaves
    <3> QED BY <2>1, <2>3, MaxOfTwo
  <2> QED BY <2>4 DEF LeafCount
<1>2. CASE n > 0
  <2>1. \A k \in 0..n : k \in empty <=> k \in leaves
    BY <1>0, <1>2, EmptyIs
  <2>2. empty = leaves
    <3>1. empty \subseteq 0..n /\ leaves \subseteq 0..n
      BY <1>0
    <3> HIDE DEF empty, leaves
    <3> QED BY <2>1, <3>1
  <2> QED BY <2>2 DEF LeafCount
<1> QED BY <1>0, <1>1, <1>2

\* The finished tree reads as the outline of the text: depth first gives the
\* headings as they are written, each path finds its own section, and the
\* leaves are the headings no deeper one follows (doc_tree.rs:68-113, 251-273).
THEOREM TreeReadsAsOutline == DocSpec => []TreeIsOutline
<1>1. TreeInv => TreeIsOutline
  <2> SUFFICES ASSUME TreeInv, dpc = "built" PROVE TreeIsOutline
    BY DEF TreeIsOutline
  <2>1. Finished
    BY DEF Finished
  <2> QED BY <2>1, FindsItself, VisitIsOrder, LeavesCounted DEF TreeIsOutline
<1> QED BY <1>1, TreeInit, TreeStep, PTL DEF DocSpec

-----------------------------------------------------------------------------
(* split_text                                                              *)

Covered(i) == \E k \in 1..Len(segments) : segments[k].low <= i /\ i < segments[k].high

\* What is before from is in a segment, and no segment starts behind a
\* character that is still to come.
Cutting ==
    /\ TextLen \in Nat
    /\ from \in 0..TextLen /\ Boundary(from)
    /\ cpc \in {"cutting", "cut"}
    /\ segments \in Seq([low : Nat, high : Nat])
    /\ \A i \in 0..(TextLen - 1) : i < from => Blank(i) \/ Covered(i)
    /\ \A k \in 1..Len(segments), i \in 0..(TextLen - 1) :
         i >= from /\ ~Blank(i) => segments[k].low <= i

SplitInv == Cutting /\ SplitLosesNothing

LEMMA SplitInit == ChunkerInit => SplitInv
<1> SUFFICES ASSUME ChunkerInit PROVE SplitInv
  OBVIOUS
<1>1. IsBody(text) /\ from = 0 /\ segments = <<>> /\ cpc = "cutting"
  BY ChunkerAssumption DEF ChunkerInit
<1>2. TextLen \in Nat /\ Byte(0) # "second"
  BY <1>1 DEF IsBody, TextLen, Byte
<1>3. Cutting
  BY <1>1, <1>2 DEF Cutting, Boundary
<1> QED BY <1>1, <1>3 DEF SplitInv, SplitLosesNothing

\* A cut lies behind the start of its segment and within the text.
LEMMA CutIsAhead ==
    ASSUME Cutting, from < TextLen
    PROVE  WantedEnd \in (from + 1)..TextLen
<1> DEFINE end == Min({from + Target, TextLen})
           low == Max({IF end > Window THEN end - Window ELSE 0, from + Target \div 2})
<1>1. from \in Nat /\ TextLen \in Nat /\ Target \in Nat /\ Window \in Nat /\ Window < Target
  BY ChunkerAssumption DEF Cutting
<1>2. end \in (from + 1)..TextLen /\ (end = TextLen \/ end = from + Target)
  BY <1>1, MinOfTwo
<1>3. low \in Nat /\ low >= from
  <2>1. Target \div 2 \in Nat
    BY <1>1
  <2>2. (IF end > Window THEN end - Window ELSE 0) \in Int
    BY <1>1, <1>2
  <2> HIDE DEF end
  <2> QED BY <1>1, <2>1, <2>2, MaxOfTwo
<1>4. WantedEnd = IF end = TextLen THEN end
                  ELSE IF SentenceEnds(low, end) # {} THEN Max(SentenceEnds(low, end))
                  ELSE IF Spaces(end) # {} THEN Max(Spaces(end)) ELSE end
  BY DEF WantedEnd
<1> HIDE DEF low, end
<1>5. ASSUME SentenceEnds(low, end) # {}
      PROVE  Max(SentenceEnds(low, end)) \in (from + 1)..TextLen
  <2>1. SentenceEnds(low, end) \subseteq (low + 2)..end
    BY DEF SentenceEnds
  <2>2. SentenceEnds(low, end) \subseteq 0..end
    BY <1>2, <1>3, <2>1
  <2>3. Max(SentenceEnds(low, end)) \in SentenceEnds(low, end)
    BY <1>1, <1>2, <1>5, <2>2, MaxOfBounded
  <2> QED BY <1>1, <1>2, <1>3, <2>1, <2>3
<1>6. ASSUME Spaces(end) # {}, end = from + Target
      PROVE  Max(Spaces(end)) \in (from + 1)..TextLen
  <2>1. Spaces(end) \subseteq 1..end /\ \A i \in Spaces(end) : i + Window >= end
    BY DEF Spaces
  <2>2. Spaces(end) \subseteq 0..end
    BY <1>2, <2>1
  <2>3. Max(Spaces(end)) \in Spaces(end)
    BY <1>1, <1>2, <1>6, <2>2, MaxOfBounded
  <2>4. Max(Spaces(end)) \in 1..end /\ Max(Spaces(end)) + Window >= end
    BY <2>1, <2>3
  <2> QED BY <1>1, <1>2, <1>6, <2>4
<1> QED BY <1>2, <1>4, <1>5, <1>6

\* The search for a character boundary ends within the text.
LEMMA BoundaryAhead ==
    ASSUME Cutting, NEW a \in 0..TextLen
    PROVE  /\ Min({i \in a..TextLen : Boundary(i)}) \in a..TextLen
           /\ Boundary(Min({i \in a..TextLen : Boundary(i)}))
           /\ \A b \in a..TextLen : Boundary(b) => Min({i \in a..TextLen : Boundary(i)}) <= b
<1> DEFINE T == {i \in a..TextLen : Boundary(i)}
<1>1. TextLen \in T /\ T \subseteq Nat
  BY DEF Boundary, Cutting
<1>2. Min(T) \in T /\ \A x \in T : Min(T) <= x
  <2> HIDE DEF T
  <2> QED BY <1>1, MinOfNaturals
<1> QED BY <1>2

\* What is pushed for a slice covers its ink and starts with it.
LEMMA PushedCovers ==
    ASSUME Cutting, NEW a \in 0..TextLen, NEW b \in a..TextLen
    PROVE  \/ Pushed(a, b) = <<>> /\ \A i \in a..(b - 1) : Blank(i)
           \/ \E seg \in [low : Nat, high : Nat] :
                /\ Pushed(a, b) = <<seg>>
                /\ seg.low \in a..(b - 1) /\ ~Blank(seg.low)
                /\ \A i \in a..(b - 1) : Blank(i) \/ (seg.low <= i /\ i < seg.high)
<1> DEFINE ink == {i \in a..(b - 1) : ~Blank(i)}
<1>1. a \in Nat /\ b \in Nat
  BY DEF Cutting
<1>2. CASE ink = {}
  BY <1>2 DEF Pushed
<1>3. CASE ink # {}
  <2>1. ink \subseteq Nat /\ ink \subseteq 0..b
    BY <1>1
  <2> DEFINE seg == [low |-> Min(ink), high |-> Max(ink) + 1]
  <2>2. Pushed(a, b) = <<seg>>
    BY <1>3 DEF Pushed
  <2>3. Min(ink) \in ink /\ Max(ink) \in ink /\ \A x \in ink : Min(ink) <= x /\ x <= Max(ink)
    <3> HIDE DEF ink
    <3> QED BY <1>1, <1>3, <2>1, MinOfNaturals, MaxOfBounded
  <2>4. seg \in [low : Nat, high : Nat] /\ seg.low = Min(ink) /\ seg.high = Max(ink) + 1
    BY <1>1, <2>3
  <2>5. \A i \in a..(b - 1) : Blank(i) \/ (seg.low <= i /\ i < seg.high)
    BY <1>1, <2>3, <2>4
  <2>6. seg.low \in a..(b - 1) /\ ~Blank(seg.low)
    BY <2>3, <2>4
  <2> HIDE DEF seg
  <2> QED BY <2>2, <2>4, <2>5, <2>6
<1> QED BY <1>2, <1>3

\* The next segment starts behind this one's start, and not behind its end.
LEMMA NextStart ==
    ASSUME Cutting, NEW end \in (from + 1)..TextLen
    PROVE  Min({TextLen, Advance(end)}) \in (from + 1)..end
<1>1. from \in Nat /\ TextLen \in Nat /\ Overlap \in Nat /\ end \in Nat
  BY ChunkerAssumption DEF Cutting
<1> DEFINE d == IF end - from > Overlap THEN end - from - Overlap ELSE 0
<1>2. d \in Nat /\ d <= end - from
  BY <1>1
<1>3. Advance(end) = from + Max({1, d})
  BY DEF Advance
<1>4. Max({1, d}) = IF 1 >= d THEN 1 ELSE d
  BY <1>2, MaxOfTwo
<1>5. Advance(end) \in (from + 1)..end
  BY <1>1, <1>2, <1>3, <1>4
<1> QED BY <1>1, <1>5, MinOfTwo

LEMMA SplitStep == SplitInv /\ [ChunkerNext]_kvars => SplitInv'
<1> SUFFICES ASSUME SplitInv, [ChunkerNext]_kvars PROVE SplitInv'
  OBVIOUS
<1> USE DEF SplitInv
<1>1. CASE UNCHANGED kvars
  <2> USE <1>1 DEF kvars
  <2>1. TextLen' = TextLen /\ \A i : Blank(i)' = Blank(i) /\ Boundary(i)' = Boundary(i)
    BY DEF TextLen, Blank, Boundary, Byte
  <2>2. \A i : Covered(i)' = Covered(i)
    BY DEF Covered
  <2>3. Cutting'
    BY <2>1, <2>2 DEF Cutting
  <2> QED BY <2>1, <2>3 DEF SplitLosesNothing
<1>2. CASE CutSegment
  <2>1. from < TextLen /\ text' = text /\ TextLen \in Nat /\ from \in Nat /\ from \in 0..TextLen
    BY <1>2 DEF CutSegment, Cutting
  <2>2. PICK end \in (from + 1)..TextLen : end = SegmentEnd /\ Boundary(end)
    <3>1. WantedEnd \in (from + 1)..TextLen
      BY <2>1, CutIsAhead
    <3>2. WantedEnd \in 0..TextLen
      BY <2>1, <3>1
    <3>3. SegmentEnd \in WantedEnd..TextLen /\ Boundary(SegmentEnd)
      BY <3>2, BoundaryAhead DEF SegmentEnd
    <3> QED BY <2>1, <3>1, <3>3
  <2>3. PICK next \in (from + 1)..end : next = Min({TextLen, Advance(end)})
    BY NextStart
  <2>4. /\ segments' = segments \o Pushed(from, end)
        /\ IF end >= TextLen
           THEN cpc' = "cut" /\ from' = from
           ELSE /\ from' = Min({i \in next..TextLen : Boundary(i)})
                /\ cpc' = IF from' < TextLen THEN "cutting" ELSE "cut"
    <3>1. ~(end < from) /\ Boundary(from)
      BY <2>1, <2>2 DEF Cutting
    <3> QED BY <1>2, <2>2, <2>3, <3>1 DEF CutSegment
  <2>5. /\ from' \in 0..TextLen /\ Boundary(from') /\ from <= from' /\ from' <= end
        /\ cpc' \in {"cutting", "cut"}
        /\ cpc' = "cut" => end = TextLen
    <3>1. CASE end >= TextLen
      BY <2>1, <2>2, <2>4, <3>1 DEF Cutting
    <3>2. CASE ~(end >= TextLen)
      <4>1. next \in 0..TextLen /\ end \in next..TextLen
        BY <2>1
      <4>2. from' \in next..TextLen /\ Boundary(from') /\ from' <= end
        <5> DEFINE f == Min({i \in next..TextLen : Boundary(i)})
        <5>1. f \in next..TextLen /\ Boundary(f) /\ f <= end
          BY <2>2, <4>1, BoundaryAhead
        <5>2. from' = f
          BY <2>4, <3>2
        <5> HIDE DEF f
        <5> QED BY <5>1, <5>2
      <4> QED BY <2>1, <2>4, <3>2, <4>2
    <3> QED BY <3>1, <3>2
  <2>6. /\ TextLen' = TextLen
        /\ \A i : Blank(i)' = Blank(i) /\ (Boundary(i) <=> (i = TextLen \/ text[i + 1] # "second"))
    BY <2>1 DEF TextLen, Blank, Boundary, Byte
  <2>7. Boundary(from)'
    BY <2>1, <2>5, <2>6 DEF Boundary, Byte, TextLen
  <2> DEFINE Segment == [low : Nat, high : Nat]
             Grown ==
                /\ segments' \in Seq(Segment)
                /\ \A k \in 1..Len(segments) : k \in 1..Len(segments') /\ segments'[k] = segments[k]
                /\ \A i \in from..(end - 1) : Blank(i) \/ Covered(i)'
                /\ \A k \in 1..Len(segments'), i \in 0..(TextLen - 1) :
                     i >= from' /\ ~Blank(i) => segments'[k].low <= i
                /\ \A k \in 1..(Len(segments') - 1) : segments'[k].low <= segments'[k + 1].low
  <2>8. Grown
    <3>1. from \in 0..TextLen /\ end \in from..TextLen
      BY <2>1
    <3>2. /\ segments \in Seq(Segment) /\ Len(segments) \in Nat
          /\ \A k \in 1..Len(segments), i \in 0..(TextLen - 1) :
               i >= from /\ ~Blank(i) => segments[k].low <= i
          /\ \A k \in 1..(Len(segments) - 1) : segments[k].low <= segments[k + 1].low
      BY DEF Cutting, SplitLosesNothing
    <3>3. \A i \in 0..(TextLen - 1) : i >= from' => i >= from
      BY <2>1, <2>5
    <3>4. CASE Pushed(from, end) = <<>> /\ \A i \in from..(end - 1) : Blank(i)
      <4>1. segments' = segments
        BY <2>4, <3>2, <3>4
      <4> QED BY <3>2, <3>3, <3>4, <4>1
    <3>5. ASSUME NEW seg \in Segment, Pushed(from, end) = <<seg>>,
                 seg.low \in from..(end - 1), ~Blank(seg.low),
                 \A i \in from..(end - 1) : Blank(i) \/ (seg.low <= i /\ i < seg.high)
          PROVE  Grown
      <4>1. segments' = Append(segments, seg)
        BY <2>4, <3>2, <3>5
      <4>2. /\ segments' \in Seq(Segment) /\ Len(segments') = Len(segments) + 1
            /\ segments'[Len(segments) + 1] = seg
            /\ \A k \in 1..Len(segments) : k \in 1..Len(segments') /\ segments'[k] = segments[k]
        <5> HIDE DEF Segment
        <5> QED BY <3>2, <4>1, AppendProperties
      <4>3. \A i \in from..(end - 1) : Blank(i) \/ Covered(i)'
        <5>1. Len(segments') \in 1..Len(segments') /\ segments'[Len(segments')] = seg
          BY <3>2, <4>2
        <5>2. \A i : seg.low <= i /\ i < seg.high => Covered(i)'
          BY <5>1 DEF Covered
        <5> QED BY <3>5, <5>2
      <4>4. ASSUME NEW k \in 1..Len(segments'), NEW i \in 0..(TextLen - 1),
                   i >= from', ~Blank(i)
            PROVE  segments'[k].low <= i
        <5>1. CASE k \in 1..Len(segments)
          BY <3>2, <3>3, <4>2, <4>4, <5>1
        <5>2. CASE k \notin 1..Len(segments)
          <6>1. segments'[k] = seg
            BY <3>2, <4>2, <5>2
          <6>2. i >= from /\ (i \in from..(end - 1) \/ i >= end)
            BY <2>1, <3>3, <4>4
          <6>3. seg.low <= i
            BY <2>1, <3>5, <4>4, <6>2
          <6> QED BY <6>1, <6>3
        <5> QED BY <5>1, <5>2
      <4>5. ASSUME NEW k \in 1..(Len(segments') - 1)
            PROVE  segments'[k].low <= segments'[k + 1].low
        <5>1. CASE k = Len(segments)
          <6>1. seg.low \in 0..(TextLen - 1) /\ seg.low >= from
            BY <2>1, <3>5
          <6>2. k \in 1..Len(segments) /\ segments[k].low <= seg.low
            <7>1. k \in 1..Len(segments)
              BY <3>2, <4>2, <5>1
            <7> QED BY <3>2, <3>5, <6>1, <7>1
          <6> QED BY <4>2, <5>1, <6>2
        <5>2. CASE k # Len(segments)
          <6>1. k \in 1..(Len(segments) - 1) /\ k \in 1..Len(segments) /\ k + 1 \in 1..Len(segments)
            BY <3>2, <4>2, <5>2
          <6> QED BY <3>2, <4>2, <6>1
        <5> QED BY <5>1, <5>2
      <4> QED BY <4>2, <4>3, <4>4, <4>5
    <3> HIDE DEF Grown
    <3> QED BY <3>1, <3>4, <3>5, PushedCovers
  <2>9. ASSUME NEW i \in 0..(TextLen - 1), i < end
        PROVE  Blank(i) \/ Covered(i)'
    <3>1. CASE i < from
      <4>1. Blank(i) \/ Covered(i)
        BY <3>1 DEF Cutting
      <4> QED BY <2>8, <4>1 DEF Covered
    <3>2. CASE ~(i < from)
      <4>1. i \in from..(end - 1)
        BY <2>1, <2>9, <3>2
      <4> QED BY <2>8, <4>1
    <3> QED BY <3>1, <3>2
  <2>10. \A i \in 0..(TextLen - 1) : i < from' => Blank(i) \/ Covered(i)'
    BY <2>1, <2>5, <2>9
  <2>11. Cutting'
    BY <2>1, <2>5, <2>6, <2>7, <2>8, <2>10 DEF Cutting
  <2>12. cpc' = "cut" => \A i \in 0..(TextLen - 1) : Blank(i) \/ Covered(i)'
    BY <2>1, <2>5, <2>9
  <2>13. SplitLosesNothing'
    <3>1. DOMAIN segments' = 1..Len(segments')
      BY <2>8
    <3>2. cpc' = "cut" =>
            \A i \in 0..(TextLen - 1) :
               Blank(i) \/ \E k \in DOMAIN segments' : i >= segments'[k].low /\ i < segments'[k].high
      <4>1. \A i \in 0..(TextLen - 1), k \in 1..Len(segments') :
               segments'[k].low <= i => i >= segments'[k].low
        BY <2>8
      <4> HIDE DEF Grown
      <4> QED BY <2>12, <3>1, <4>1 DEF Covered
    <3> QED BY <2>5, <2>6, <2>8, <3>2 DEF SplitLosesNothing
  <2> QED BY <2>11, <2>13
<1>3. CASE ChunkerDone
  BY <1>1, <1>3 DEF ChunkerDone
<1> QED BY <1>1, <1>2, <1>3 DEF ChunkerNext

\* split_text loses no character of any text, cuts none in two and never
\* slices backwards, for any sizes with the window below the target
\* (chunker.rs:79-107).
THEOREM NothingIsLost == ChunkerSpec => []SplitLosesNothing
<1>1. SplitInv => SplitLosesNothing
  BY DEF SplitInv
<1> QED BY <1>1, SplitInit, SplitStep, PTL DEF ChunkerSpec

-----------------------------------------------------------------------------
(* RateLimiter                                                             *)

\* The host's bucket, once there is one, is ready when the interval of the
\* last slot is over.
Limited ==
    /\ now \in Nat
    /\ bucket = <<>> \/ bucket \in [ready : Nat, interval : Nat]
    /\ slots \in Seq([at : Nat, interval : Nat])
    /\ Len(slots) > 0 =>
         /\ bucket # <<>>
         /\ bucket.ready = slots[Len(slots)].at + slots[Len(slots)].interval

\* Slots far enough apart.
Spaced == \A k \in 1..(Len(slots) - 1) : slots[k + 1].at >= slots[k].at + slots[k].interval

\* A caller's reading of the clock is not from the future; it sleeps until its
\* slot at least, and fetches after that.
CallerOK(c) ==
    /\ c \in [pc : {"idle", "asked", "sleeping", "fetching"}, seen : Nat, wake : Nat, slot : Nat]
    /\ c.pc = "asked" => c.seen <= now
    /\ c.pc \in {"sleeping", "fetching"} =>
          c.slot \in 1..Len(slots) /\ c.wake >= slots[c.slot].at
    /\ c.pc = "fetching" => now >= c.wake
InTurn == DOMAIN fetcher = Fetchers /\ \A f \in Fetchers : CallerOK(fetcher[f])

LimitInv == Limited /\ Spaced /\ InTurn

LEMMA BucketIsSomething == \A r, i : [ready |-> r, interval |-> i] # <<>>
<1>1. \A r, i : DOMAIN [ready |-> r, interval |-> i] = {"ready", "interval"}
  OBVIOUS
<1>2. DOMAIN <<>> = {}
  OBVIOUS
<1> QED BY <1>1, <1>2

LEMMA LimitInit == PolicyInit => LimitInv
<1> SUFFICES ASSUME PolicyInit PROVE LimitInv
  OBVIOUS
<1>1. Limited /\ Spaced
  BY DEF PolicyInit, Limited, Spaced
<1>2. CallerOK(Idle)
  BY DEF CallerOK, Idle
<1>3. DOMAIN fetcher = Fetchers /\ \A f \in Fetchers : fetcher[f] = Idle
  BY DEF PolicyInit
<1> QED BY <1>1, <1>2, <1>3 DEF LimitInv, InTurn

\* A step of one caller that hands out no slot.
LEMMA CallerMoves ==
    ASSUME LimitInv, NEW f \in Fetchers, NEW c, CallerOK(c),
           fetcher' = [fetcher EXCEPT ![f] = c], UNCHANGED <<now, bucket, slots>>
    PROVE  LimitInv'
<1>1. Limited' /\ Spaced'
  BY DEF LimitInv, Limited, Spaced
<1>2. DOMAIN fetcher' = Fetchers /\ \A g \in Fetchers : fetcher'[g] = IF g = f THEN c ELSE fetcher[g]
  BY DEF LimitInv, InTurn
<1>3. \A g \in Fetchers : CallerOK(fetcher'[g])
  BY <1>2 DEF LimitInv, InTurn
<1>4. \A g \in Fetchers : CallerOK(fetcher[g])'
  BY <1>3 DEF CallerOK
<1> QED BY <1>1, <1>2, <1>4 DEF LimitInv, InTurn

\* A slot is handed out to a caller with an old reading of the clock.
LEMMA SlotTaken ==
    ASSUME LimitInv, NEW f \in Fetchers, AcquireWait(f)
    PROVE  LimitInv'
<1> DEFINE seen == fetcher[f].seen
           ready == IF bucket = <<>> THEN seen ELSE bucket.ready
           base == IF seen >= ready THEN seen ELSE ready
           wait == IF seen >= ready THEN 0 ELSE ready - seen
           slot == [at |-> base, interval |-> IntervalOf]
           n == Len(slots)
           c == [pc |-> "sleeping", seen |-> 0, wake |-> now + wait, slot |-> n + 1]
<1>1. seen \in Nat /\ seen <= now /\ now \in Nat
  BY DEF AcquireWait, LimitInv, InTurn, CallerOK, Limited
<1>2. ready \in Nat /\ IntervalOf \in Nat
  BY <1>1, PolicyAssumption DEF LimitInv, Limited, IntervalOf
<1>3. Max({ready, seen}) = base /\ base \in Nat /\ base >= ready /\ wait \in Nat /\ now + wait >= base
  BY <1>1, <1>2, MaxOfTwo
<1>4. /\ bucket' = [ready |-> base + IntervalOf, interval |-> IntervalOf] /\ now' = now
      /\ slots' = Append(slots, slot) /\ fetcher' = [fetcher EXCEPT ![f] = c]
  BY <1>3 DEF AcquireWait, Sleep
<1>5. n > 0 => ready = slots[n].at + slots[n].interval
  BY DEF LimitInv, Limited
<1> HIDE DEF seen, ready, base, wait
<1>6. slot \in [at : Nat, interval : Nat]
  BY <1>2, <1>3
<1>7. /\ slots' \in Seq([at : Nat, interval : Nat]) /\ slots \in Seq([at : Nat, interval : Nat])
      /\ Len(slots') = n + 1 /\ n \in Nat
      /\ slots'[n + 1] = slot
      /\ \A k \in 1..n : slots'[k] = slots[k]
  BY <1>4, <1>6, AppendProperties DEF LimitInv, Limited
<1>8. Limited'
  <2>1. bucket' \in [ready : Nat, interval : Nat] /\ bucket' # <<>> /\ bucket'.ready = base + IntervalOf
    BY <1>2, <1>3, <1>4, BucketIsSomething
  <2>2. slots'[Len(slots')].at + slots'[Len(slots')].interval = base + IntervalOf
    BY <1>7
  <2> QED BY <1>1, <1>4, <1>7, <2>1, <2>2 DEF Limited
<1>9. Spaced'
  <2>1. ASSUME NEW k \in 1..n
        PROVE  slots'[k + 1].at >= slots'[k].at + slots'[k].interval
    <3>1. CASE k = n
      <4>1. slots'[k + 1].at = base /\ slots'[k] = slots[k] /\ ready = slots[k].at + slots[k].interval
        BY <1>5, <1>7, <3>1
      <4> QED BY <1>3, <4>1
    <3>2. CASE k # n
      <4>1. k \in 1..(n - 1) /\ k + 1 \in 1..n
        <5>1. ASSUME NEW m \in Nat, NEW i \in 1..m, i # m PROVE i \in 1..(m - 1) /\ i + 1 \in 1..m
          BY <5>1
        <5> HIDE DEF n
        <5> QED BY <1>7, <3>2, <5>1
      <4>2. slots[k + 1].at >= slots[k].at + slots[k].interval
        BY <4>1 DEF LimitInv, Spaced
      <4> QED BY <1>7, <4>1, <4>2
    <3> QED BY <3>1, <3>2
  <2>2. 1..(Len(slots') - 1) = 1..n
    BY <1>7
  <2> QED BY <2>1, <2>2 DEF Spaced
<1>10. InTurn'
  <2>1. DOMAIN fetcher' = Fetchers /\ \A g \in Fetchers : fetcher'[g] = IF g = f THEN c ELSE fetcher[g]
    BY <1>4 DEF LimitInv, InTurn
  <2>2. /\ now + wait \in Nat /\ n + 1 \in Nat /\ n + 1 \in 1..Len(slots')
        /\ now + wait >= slots'[n + 1].at
    BY <1>1, <1>3, <1>7
  <2>3. CallerOK(fetcher[f])'
    <3>1. fetcher'[f] = c
      BY <2>1
    <3>2. c.pc = "sleeping" /\ c.slot = n + 1 /\ c.wake = now + wait
      OBVIOUS
    <3>3. c \in [pc : {"idle", "asked", "sleeping", "fetching"}, seen : Nat, wake : Nat, slot : Nat]
      BY <2>2
    <3> HIDE DEF c
    <3> QED BY <2>2, <3>1, <3>2, <3>3 DEF CallerOK
  <2>4. ASSUME NEW g \in Fetchers, g # f PROVE CallerOK(fetcher[g])'
    <3>1. fetcher'[g] = fetcher[g] /\ CallerOK(fetcher[g])
      BY <2>1, <2>4 DEF LimitInv, InTurn
    <3>2. \A k \in 1..n : k \in 1..Len(slots') /\ slots'[k] = slots[k]
      <4>1. \A m \in Nat : \A k \in 1..m : k \in 1..(m + 1)
        OBVIOUS
      <4> HIDE DEF n
      <4> QED BY <1>7, <4>1
    <3> QED BY <1>4, <3>1, <3>2 DEF CallerOK
  <2> QED BY <2>1, <2>3, <2>4 DEF InTurn
<1> QED BY <1>8, <1>9, <1>10 DEF LimitInv

LEMMA LimitKept == LimitInv /\ [PolicyNext]_pvars => LimitInv'
<1> SUFFICES ASSUME LimitInv, [PolicyNext]_pvars PROVE LimitInv'
  OBVIOUS
<1>1. CASE UNCHANGED limitVars
  BY <1>1 DEF limitVars, LimitInv, Limited, Spaced, InTurn, CallerOK
<1>2. CASE ClockTick
  <2>1. now' = now + 1 /\ bucket' = bucket /\ slots' = slots /\ fetcher' = fetcher
    BY <1>2 DEF ClockTick
  <2>2. now \in Nat /\ Limited' /\ Spaced'
    BY <2>1 DEF LimitInv, Limited, Spaced
  <2>3. \A f \in Fetchers : CallerOK(fetcher[f])'
    BY <2>1, <2>2 DEF LimitInv, InTurn, CallerOK
  <2> QED BY <2>1, <2>2, <2>3 DEF LimitInv, InTurn
<1>3. ASSUME NEW d \in Delays, SetInterval(d)
      PROVE  LimitInv'
  <2>1. d \in Nat /\ slots' = slots /\ now' = now /\ fetcher' = fetcher
    BY <1>3, PolicyAssumption DEF SetInterval
  <2>2. Spaced' /\ InTurn'
    BY <2>1 DEF LimitInv, Spaced, InTurn, CallerOK
  <2>3. CASE bucket = <<>>
    <3>1. bucket' = [ready |-> now, interval |-> d] /\ ~(Len(slots) > 0)
      BY <1>3, <2>3 DEF SetInterval, LimitInv, Limited
    <3> QED BY <2>1, <2>2, <3>1 DEF LimitInv, Limited
  <2>4. CASE bucket # <<>>
    <3>1. bucket' = [bucket EXCEPT !.interval = d]
      BY <1>3, <2>4 DEF SetInterval
    <3>2. bucket' = [ready |-> bucket.ready, interval |-> d]
      BY <2>4, <3>1 DEF LimitInv, Limited
    <3> QED BY <2>1, <2>2, <2>4, <3>2, BucketIsSomething DEF LimitInv, Limited
  <2> QED BY <2>3, <2>4
<1>4. ASSUME NEW f \in Fetchers, ReadClock(f)
      PROVE  LimitInv'
  <2> DEFINE c == [pc |-> "asked", seen |-> now, wake |-> 0, slot |-> 0]
  <2>2. now \in Nat
    BY DEF LimitInv, Limited
  <2>3. CallerOK(c)
    BY <2>2 DEF CallerOK
  <2> HIDE DEF c
  <2>4. fetcher' = [fetcher EXCEPT ![f] = c] /\ UNCHANGED <<now, bucket, slots>>
    BY <1>4 DEF ReadClock, c
  <2> QED BY <2>3, <2>4, CallerMoves
<1>5. ASSUME NEW f \in Fetchers, Fetch(f)
      PROVE  LimitInv'
  <2> DEFINE c == [fetcher[f] EXCEPT !.pc = "fetching"]
  <2>1. CallerOK(fetcher[f]) /\ fetcher[f].pc = "sleeping" /\ now >= fetcher[f].wake
    BY <1>5 DEF LimitInv, InTurn, Fetch
  <2>2. /\ c \in [pc : {"idle", "asked", "sleeping", "fetching"}, seen : Nat, wake : Nat, slot : Nat]
        /\ c.pc = "fetching" /\ c.wake = fetcher[f].wake /\ c.slot = fetcher[f].slot
    BY <2>1 DEF CallerOK
  <2>3. fetcher' = [fetcher EXCEPT ![f] = c] /\ UNCHANGED <<now, bucket, slots>>
    BY <1>5 DEF Fetch
  <2> HIDE DEF c
  <2>4. CallerOK(c)
    BY <2>1, <2>2 DEF CallerOK
  <2> QED BY <2>3, <2>4, CallerMoves
<1>6. ASSUME NEW f \in Fetchers, Leave(f)
      PROVE  LimitInv'
  <2>1. CallerOK(Idle)
    BY DEF CallerOK, Idle
  <2>2. fetcher' = [fetcher EXCEPT ![f] = Idle] /\ UNCHANGED <<now, bucket, slots>>
    BY <1>6 DEF Leave
  <2> QED BY <2>1, <2>2, CallerMoves
<1> QED BY <1>1, <1>2, <1>3, <1>4, <1>5, <1>6, SlotTaken DEF PolicyNext, LimiterNext, ReadLine, pvars

\* However any number of callers read the clock, take the lock with an old
\* reading, sleep, give up and change the interval, the slots of a host are
\* the interval apart and nobody fetches before its slot
\* (rate_limit.rs:44-73).
THEOREM FetchesSpaced == PolicySpec => []SlotsSpaced
<1>1. LimitInv => SlotsSpaced
  <2> SUFFICES ASSUME LimitInv, NEW f \in Fetchers, fetcher[f].pc = "fetching"
               PROVE  now >= slots[fetcher[f].slot].at
    BY DEF LimitInv, Spaced, SlotsSpaced
  <2>1. /\ fetcher[f].slot \in 1..Len(slots) /\ fetcher[f].wake \in Nat /\ now \in Nat
        /\ now >= fetcher[f].wake /\ fetcher[f].wake >= slots[fetcher[f].slot].at
        /\ slots \in Seq([at : Nat, interval : Nat])
    BY DEF LimitInv, Limited, InTurn, CallerOK
  <2>2. slots[fetcher[f].slot].at \in Nat
    <3>1. \A k \in 1..Len(slots) : slots[k] \in [at : Nat, interval : Nat]
      BY <2>1, ElementOfSeq
    <3>2. \A k \in 1..Len(slots) : slots[k].at \in Nat
      BY <3>1
    <3> QED BY <2>1, <3>2
  <2> QED BY <2>1, <2>2
<1> QED BY <1>1, LimitInit, LimitKept, PTL DEF PolicySpec

-----------------------------------------------------------------------------
(* RobotsTxt                                                               *)

Texts == Seq(STRING)
Directives == {"allow", "disallow", "crawl-delay"}
IsRule(i) == robots[i].key \in Directives
NamesAgent(i) == robots[i].key = "user-agent"

\* The user-agent lines above line i that a rule there is for.
GroupLines(i) ==
    {j \in 1..(i - 1) :
        /\ NamesAgent(j)
        /\ ~\E k, m \in (j + 1)..(i - 1) : k < m /\ NamesAgent(m) /\ IsRule(k)}

\* The rules read that are for agent a, and their paths.
RulesRead(a) == {i \in 1..line : IsRule(i) /\ a \in AgentsAt(i)}
RulePaths(a, key) ==
    {robots[i].value : i \in {i \in RulesRead(a) : robots[i].key = key /\ robots[i].value # <<>>}}

\* A rule has been read since the last user-agent line.
RuleSinceAgent ==
    \E k \in 1..line : IsRule(k) /\ \A m \in (k + 1)..line : ~NamesAgent(m)

Group == [allow : Seq(Texts), disallow : Seq(Texts), delay : Int]

\* The state of RobotsTxt::parse is what the lines read so far say.
ParserTyped ==
    /\ robots \in Seq(RobotsLines) /\ line \in 0..Len(robots)
    /\ agents \in Seq(Texts) /\ sawRule \in BOOLEAN
    /\ groups \in [DOMAIN groups -> Group]
AgentsCurrent ==
    /\ ToSet(agents) = AgentsAt(line + 1)
    /\ sawRule <=> RuleSinceAgent
GroupsRead ==
    /\ DOMAIN groups = UNION {AgentsAt(i) : i \in {i \in 1..line : IsRule(i)}}
    /\ \A a \in DOMAIN groups :
         /\ ToSet(groups[a].allow) = RulePaths(a, "allow")
         /\ ToSet(groups[a].disallow) = RulePaths(a, "disallow")
ParserInv == ParserTyped /\ AgentsCurrent /\ GroupsRead

LEMMA AgentsOfLines == \A i : AgentsAt(i) = {robots[j].value : j \in GroupLines(i)}
  BY DEF AgentsAt, GroupLines, NamesAgent, IsRule, Directives

\* A line that names no agent leaves the group as it is.
LEMMA GroupStays ==
    ASSUME NEW n \in Nat \ {0}, ~NamesAgent(n)
    PROVE  AgentsAt(n + 1) = AgentsAt(n)
<1>1. \A j \in 1..n : j \in GroupLines(n + 1) <=> j \in GroupLines(n)
  BY DEF GroupLines
<1>2. GroupLines(n + 1) = GroupLines(n)
  <2>1. GroupLines(n + 1) \subseteq 1..n /\ GroupLines(n) \subseteq 1..n
    BY DEF GroupLines
  <2> QED BY <1>1, <2>1
<1> QED BY <1>2, AgentsOfLines

\* A user-agent line joins the group, or starts one after a rule.
LEMMA GroupGrows ==
    ASSUME NEW n \in Nat \ {0}, NamesAgent(n), line = n - 1
    PROVE  AgentsAt(n + 1) =
             (IF RuleSinceAgent THEN {} ELSE AgentsAt(n)) \cup {robots[n].value}
<1>1. n \in GroupLines(n + 1)
  BY DEF GroupLines
<1>2. ASSUME RuleSinceAgent, NEW j \in GroupLines(n + 1)
      PROVE  j = n
  <2>1. PICK k \in 1..line : IsRule(k) /\ \A m \in (k + 1)..line : ~NamesAgent(m)
    BY <1>2 DEF RuleSinceAgent
  <2>2. j \in 1..n /\ NamesAgent(j) /\ k \in 1..(n - 1)
    BY DEF GroupLines
  <2> SUFFICES ASSUME j # n PROVE FALSE
    OBVIOUS
  <2>3. j < k
    <3>1. j # k
      BY <2>1, <2>2 DEF IsRule, NamesAgent, Directives
    <3>2. ~(j > k)
      BY <2>1, <2>2
    <3> QED BY <3>1, <3>2, <2>2
  <2>4. k \in (j + 1)..n /\ n \in (j + 1)..n /\ k < n
    BY <2>2, <2>3
  <2> QED BY <2>1, <2>4 DEF GroupLines
<1>3. ASSUME ~RuleSinceAgent
      PROVE  \A j \in 1..(n - 1) : j \in GroupLines(n + 1) <=> j \in GroupLines(n)
  <2>1. ASSUME NEW j \in GroupLines(n + 1), j \in 1..(n - 1)
        PROVE  j \in GroupLines(n)
    BY <2>1 DEF GroupLines
  <2>2. ASSUME NEW j \in GroupLines(n)
        PROVE  j \in GroupLines(n + 1)
    <3>1. j \in 1..(n - 1) /\ NamesAgent(j)
      BY DEF GroupLines
    <3>2. ASSUME NEW k \in (j + 1)..n, NEW m \in (j + 1)..n, k < m, NamesAgent(m), IsRule(k)
          PROVE  FALSE
      <4>1. k \in 1..line
        BY <3>1, <3>2
      <4>2. PICK p \in (k + 1)..line : NamesAgent(p)
        BY <1>3, <3>2, <4>1 DEF RuleSinceAgent
      <4>3. p \in (j + 1)..(n - 1) /\ k \in (j + 1)..(n - 1) /\ k < p
        BY <3>1, <4>1, <4>2
      <4> QED BY <3>2, <4>2, <4>3 DEF GroupLines
    <3> QED BY <3>1, <3>2 DEF GroupLines
  <2> QED BY <2>1, <2>2
<1>4. CASE RuleSinceAgent
  <2>1. GroupLines(n + 1) = {n}
    BY <1>1, <1>2, <1>4
  <2> QED BY <1>4, <2>1, AgentsOfLines
<1>5. CASE ~RuleSinceAgent
  <2>1. GroupLines(n + 1) = GroupLines(n) \cup {n}
    <3>1. GroupLines(n + 1) \subseteq 1..n /\ GroupLines(n) \subseteq 1..(n - 1)
      BY DEF GroupLines
    <3>2. \A j \in 1..n : j # n => j \in 1..(n - 1)
      OBVIOUS
    <3> QED BY <1>1, <1>3, <1>5, <3>1, <3>2
  <2> QED BY <1>5, <2>1, AgentsOfLines
<1> QED BY <1>4, <1>5

LEMMA ParserInit == PolicyInit => ParserInv
<1> SUFFICES ASSUME PolicyInit PROVE ParserInv
  OBVIOUS
<1>1. line = 0 /\ agents = <<>> /\ sawRule = FALSE /\ DOMAIN groups = {}
  BY DEF PolicyInit
<1>2. PICK n \in 0..MaxRobots : robots \in [1..n -> RobotsLines]
  BY DEF PolicyInit
<1>3. robots \in Seq(RobotsLines) /\ Len(robots) \in Nat
  BY <1>2, RobotsAssumption
<1>4. ParserTyped
  <2>1. groups \in [DOMAIN groups -> Group]
    <3>1. groups = [a \in {} |-> NoGroup]
      BY DEF PolicyInit
    <3>2. [a \in {} |-> NoGroup] \in [{} -> Group]
      OBVIOUS
    <3> QED BY <1>1, <3>1, <3>2
  <2>2. agents \in Seq(Texts)
    BY <1>1
  <2>3. line \in 0..Len(robots)
    BY <1>1, <1>3
  <2>4. sawRule \in BOOLEAN
    BY <1>1
  <2> QED BY <1>3, <2>1, <2>2, <2>3, <2>4 DEF ParserTyped
<1>5. GroupLines(1) = {} /\ ToSet(agents) = {}
  BY <1>1 DEF GroupLines, ToSet
<1>6. AgentsCurrent
  <2>1. AgentsAt(1) = {}
    BY <1>5, AgentsOfLines
  <2>2. ~RuleSinceAgent
    BY <1>1 DEF RuleSinceAgent
  <2>3. line + 1 = 1
    BY <1>1
  <2> QED BY <1>1, <1>5, <2>1, <2>2, <2>3 DEF AgentsCurrent
<1>7. GroupsRead
  BY <1>1 DEF GroupsRead
<1> QED BY <1>4, <1>6, <1>7 DEF ParserInv

\* What the group of any agent holds, listed or not.
LEMMA GroupHolds ==
    ASSUME ParserInv, NEW a
    PROVE  /\ GroupOf(a) \in Group
           /\ ToSet(GroupOf(a).allow) = RulePaths(a, "allow")
           /\ ToSet(GroupOf(a).disallow) = RulePaths(a, "disallow")
           /\ a \in DOMAIN groups <=> RulesRead(a) # {}
<1>1. a \in DOMAIN groups <=> RulesRead(a) # {}
  BY DEF ParserInv, GroupsRead, RulesRead
<1>2. CASE a \in DOMAIN groups
  BY <1>1, <1>2 DEF ParserInv, GroupsRead, ParserTyped, GroupOf
<1>3. CASE a \notin DOMAIN groups
  <2>1. GroupOf(a) = NoGroup /\ RulesRead(a) = {}
    BY <1>1, <1>3 DEF GroupOf
  <2>2. NoGroup \in Group /\ ToSet(NoGroup.allow) = {} /\ ToSet(NoGroup.disallow) = {}
    BY DEF NoGroup, Group, ToSet
  <2>3. \A key : RulePaths(a, key) = {}
    BY <2>1 DEF RulePaths
  <2> QED BY <1>1, <2>1, <2>2, <2>3
<1> QED BY <1>2, <1>3

LEMMA AppendedSet ==
    ASSUME NEW s \in Seq(Texts), NEW v \in Texts
    PROVE  Append(s, v) \in Seq(Texts) /\ ToSet(Append(s, v)) = ToSet(s) \cup {v}
<1>1. /\ Append(s, v) \in Seq(Texts) /\ Len(Append(s, v)) = Len(s) + 1 /\ Len(s) \in Nat
      /\ \A i \in 1..Len(s) : Append(s, v)[i] = s[i]
      /\ Append(s, v)[Len(s) + 1] = v
  BY AppendProperties
<1>2. DOMAIN s = 1..Len(s) /\ DOMAIN Append(s, v) = 1..(Len(s) + 1)
  BY <1>1
<1>3. \A i \in 1..(Len(s) + 1) : i \in 1..Len(s) \/ i = Len(s) + 1
  BY <1>1
<1>4. 1..Len(s) \subseteq 1..(Len(s) + 1) /\ Len(s) + 1 \in 1..(Len(s) + 1)
  BY <1>1
<1>5. ToSet(Append(s, v)) = ToSet(s) \cup {v}
  BY <1>1, <1>2, <1>3, <1>4 DEF ToSet
<1> QED BY <1>1, <1>5

LEMMA RuleApplied ==
    ASSUME NEW g \in Group, NEW l \in RobotsLines, l.key \in Directives
    PROVE  LET added(key) == IF l.key = key /\ l.value # <<>> THEN {l.value} ELSE {}
           IN  /\ Ruled(g, l) \in Group
               /\ ToSet(Ruled(g, l).allow) = ToSet(g.allow) \cup added("allow")
               /\ ToSet(Ruled(g, l).disallow) = ToSet(g.disallow) \cup added("disallow")
<1>1. l.key \in {"allow", "disallow"} => l.value \in Texts
  BY RobotsAssumption DEF Texts
<1> DEFINE al == IF l.key = "allow" /\ l.value # <<>> THEN Append(g.allow, l.value) ELSE g.allow
           di == IF l.key = "disallow" /\ l.value # <<>> THEN Append(g.disallow, l.value)
                 ELSE g.disallow
           de == IF l.key = "crawl-delay" /\ l.value \in Nat THEN l.value ELSE g.delay
<1>3. Ruled(g, l) = [allow |-> al, disallow |-> di, delay |-> de]
  BY DEF Ruled
<1>4. g.allow \in Seq(Texts) /\ g.disallow \in Seq(Texts) /\ g.delay \in Int
  BY DEF Group
<1>5. al \in Seq(Texts) /\ di \in Seq(Texts) /\ de \in Int
  BY <1>1, <1>4, AppendedSet
<1>6. /\ Ruled(g, l).allow = al /\ Ruled(g, l).disallow = di /\ Ruled(g, l) \in Group
  BY <1>3, <1>5 DEF Group
<1>7. /\ ToSet(al) = ToSet(g.allow) \cup
                        (IF l.key = "allow" /\ l.value # <<>> THEN {l.value} ELSE {})
      /\ ToSet(di) = ToSet(g.disallow) \cup
                        (IF l.key = "disallow" /\ l.value # <<>> THEN {l.value} ELSE {})
  BY <1>1, <1>4, AppendedSet
<1> HIDE DEF al, di, de
<1> QED BY <1>6, <1>7

\* What a line adds to the paths of an agent.
LEMMA PathsRead ==
    ASSUME robots' = robots, line \in Nat, line' = line + 1, NEW a, NEW key \in Directives
    PROVE  /\ IsRule(line + 1) /\ a \in AgentsAt(line + 1) =>
                RulesRead(a)' # {} /\
                RulePaths(a, key)' = RulePaths(a, key) \cup
                  (IF robots[line + 1].key = key /\ robots[line + 1].value # <<>>
                   THEN {robots[line + 1].value} ELSE {})
           /\ ~(IsRule(line + 1) /\ a \in AgentsAt(line + 1)) =>
                RulesRead(a)' = RulesRead(a) /\ RulePaths(a, key)' = RulePaths(a, key)
<1> DEFINE n == line + 1
<1>1. \A i : (AgentsAt(i)' = AgentsAt(i)) /\ (IsRule(i)' <=> IsRule(i))
  BY DEF AgentsAt, IsRule
<1>2. \A i : i \in 1..n <=> i \in 1..line \/ i = n
  OBVIOUS
<1>3. RulesRead(a)' = {i \in 1..n : IsRule(i) /\ a \in AgentsAt(i)}
  BY <1>1 DEF RulesRead
<1>4. RulesRead(a)' = RulesRead(a) \cup (IF IsRule(n) /\ a \in AgentsAt(n) THEN {n} ELSE {})
  BY <1>2, <1>3 DEF RulesRead
<1>5. RulePaths(a, key)' = {robots[i].value : i \in {i \in RulesRead(a)' : robots[i].key = key /\ robots[i].value # <<>>}}
  BY DEF RulePaths
<1> HIDE DEF n
<1>6. CASE IsRule(n) /\ a \in AgentsAt(n)
  <2>1. RulesRead(a)' = RulesRead(a) \cup {n}
    BY <1>4, <1>6
  <2>2. RulePaths(a, key)' = RulePaths(a, key) \cup
           (IF robots[n].key = key /\ robots[n].value # <<>> THEN {robots[n].value} ELSE {})
    BY <1>5, <2>1 DEF RulePaths
  <2> QED BY <1>6, <2>1, <2>2 DEF n
<1>7. CASE ~(IsRule(n) /\ a \in AgentsAt(n))
  <2>1. RulesRead(a)' = RulesRead(a)
    BY <1>4, <1>7
  <2> QED BY <1>5, <1>7, <2>1 DEF RulePaths, n
<1> QED BY <1>6, <1>7

LEMMA ParserStep == ParserInv /\ [PolicyNext]_pvars => ParserInv'
<1> SUFFICES ASSUME ParserInv, [PolicyNext]_pvars PROVE ParserInv'
  OBVIOUS
<1>1. CASE UNCHANGED robotsVars
  <2>1. UNCHANGED <<robots, line, groups, agents, sawRule>>
    BY <1>1 DEF robotsVars
  <2>2. ParserTyped' /\ AgentsCurrent'
    BY <2>1 DEF ParserInv, ParserTyped, AgentsCurrent, AgentsAt, RuleSinceAgent, IsRule, NamesAgent
  <2>3. \A a, key : RulePaths(a, key)' = RulePaths(a, key)
    BY <2>1 DEF RulePaths, RulesRead, IsRule, AgentsAt
  <2>4. DOMAIN groups' = UNION {AgentsAt(i)' : i \in {i \in 1..line' : IsRule(i)'}}
    BY <2>1 DEF ParserInv, GroupsRead, IsRule, AgentsAt
  <2>5. GroupsRead'
    BY <2>1, <2>3, <2>4 DEF ParserInv, GroupsRead
  <2> QED BY <2>2, <2>5 DEF ParserInv
<1>2. CASE ReadLine
  <2> DEFINE n == line + 1
             l == robots[n]
  <2>1. /\ line' = n /\ robots' = robots /\ line \in Nat /\ n \in 1..Len(robots)
        /\ l \in RobotsLines
    BY <1>2 DEF ReadLine, ParserInv, ParserTyped
  <2>2. \A i : /\ AgentsAt(i)' = AgentsAt(i) /\ (IsRule(i)' <=> IsRule(i))
               /\ (NamesAgent(i)' <=> NamesAgent(i))
    BY <2>1 DEF AgentsAt, IsRule, NamesAgent
  <2>3. ToSet(agents) = AgentsAt(n) /\ (sawRule <=> RuleSinceAgent)
    BY DEF ParserInv, AgentsCurrent
  <2>4. RuleSinceAgent' <=> \E k \in 1..n : IsRule(k) /\ \A m \in (k + 1)..n : ~NamesAgent(m)
    BY <2>1, <2>2 DEF RuleSinceAgent
  <2>5. \A i \in 1..n : i \in 1..line \/ i = n
    BY <2>1
  <2>6. line + 1 = n /\ line' + 1 = n + 1 /\ n \in Nat \ {0} /\ line = n - 1
    BY <2>1
  <2> DEFINE Listed == UNION {AgentsAt(i) : i \in {i \in 1..line : IsRule(i)}}
  <2>7. UNION {AgentsAt(i)' : i \in {i \in 1..line' : IsRule(i)'}} =
          Listed \cup (IF IsRule(n) THEN AgentsAt(n) ELSE {})
    <3>1. {i \in 1..line' : IsRule(i)'} =
            {i \in 1..line : IsRule(i)} \cup (IF IsRule(n) THEN {n} ELSE {})
      BY <2>1, <2>2, <2>5
    <3> QED BY <2>2, <3>1
  <2>8. DOMAIN groups = Listed
    BY DEF ParserInv, GroupsRead
  <2>9. ASSUME ~IsRule(n), groups' = groups
        PROVE  GroupsRead'
    <3>1. DOMAIN groups' = UNION {AgentsAt(i)' : i \in {i \in 1..line' : IsRule(i)'}}
      BY <2>7, <2>8, <2>9
    <3>2. \A a : \A key \in Directives : RulePaths(a, key)' = RulePaths(a, key)
      BY <2>1, <2>9, PathsRead
    <3>3. "allow" \in Directives /\ "disallow" \in Directives
      BY DEF Directives
    <3> QED BY <2>9, <3>1, <3>2, <3>3 DEF ParserInv, GroupsRead
  <2> HIDE DEF n, Listed
  <2>10. CASE l.key # "user-agent" /\ l.key \notin Directives
    <3>1. UNCHANGED <<groups, agents, sawRule>>
      BY <1>2, <2>10 DEF ReadLine, Directives, n
    <3>2. ~NamesAgent(n) /\ ~IsRule(n)
      BY <2>10 DEF NamesAgent, IsRule
    <3>3. RuleSinceAgent' <=> RuleSinceAgent
      BY <2>1, <2>4, <2>6, <3>2 DEF RuleSinceAgent
    <3>4. AgentsCurrent'
      BY <2>2, <2>3, <2>6, <3>1, <3>2, <3>3, GroupStays DEF AgentsCurrent, ToSet
    <3>5. GroupsRead'
      BY <2>9, <3>1, <3>2
    <3>6. ParserTyped'
      BY <2>1, <3>1 DEF ParserInv, ParserTyped
    <3> QED BY <3>4, <3>5, <3>6 DEF ParserInv
  <2>11. CASE l.key = "user-agent"
    <3>1. ReadAgent(l)
      BY <1>2, <2>11 DEF ReadLine, n
    <3> DEFINE kept == IF sawRule THEN <<>> ELSE agents
    <3>2. NamesAgent(n) /\ ~IsRule(n)
      BY <2>11 DEF NamesAgent, IsRule, Directives
    <3>3. l.value \in Texts
      BY <2>1, <2>11, RobotsAssumption DEF Texts
    <3>4. kept \in Seq(Texts) /\ ToSet(kept) = IF RuleSinceAgent THEN {} ELSE AgentsAt(n)
      BY <2>3 DEF ParserInv, ParserTyped, ToSet
    <3>5. agents' = Append(kept, l.value) /\ sawRule' = FALSE /\ groups' = groups
      BY <3>1 DEF ReadAgent
    <3> HIDE DEF kept
    <3>6. agents' \in Seq(Texts) /\ ToSet(agents') = ToSet(kept) \cup {l.value}
      BY <3>3, <3>4, <3>5, AppendedSet
    <3>7. ToSet(agents)' = AgentsAt(n + 1)
      BY <2>6, <3>2, <3>4, <3>6, GroupGrows
    <3>8. ~RuleSinceAgent'
      BY <2>4, <2>6, <3>2
    <3>9. AgentsCurrent'
      BY <2>2, <2>6, <3>5, <3>7, <3>8 DEF AgentsCurrent
    <3>10. GroupsRead'
      BY <2>9, <3>2, <3>5
    <3>11. ParserTyped'
      <4>1. sawRule' \in BOOLEAN
        BY <3>5
      <4>2. groups' \in [DOMAIN groups' -> Group]
        BY <3>5 DEF ParserInv, ParserTyped
      <4>3. robots' \in Seq(RobotsLines) /\ line' \in 0..Len(robots')
        BY <2>1, <2>6 DEF ParserInv, ParserTyped
      <4> QED BY <3>6, <4>1, <4>2, <4>3 DEF ParserTyped
    <3> QED BY <3>9, <3>10, <3>11 DEF ParserInv
  <2>12. CASE l.key \in Directives
    <3>1. ReadRule(l)
      BY <1>2, <2>12 DEF ReadLine, n, Directives
    <3>2. ~NamesAgent(n) /\ IsRule(n)
      BY <2>12 DEF NamesAgent, IsRule, Directives
    <3>3. agents' = agents /\ sawRule' = TRUE
      BY <3>1 DEF ReadRule
    <3>4. RuleSinceAgent'
      BY <2>4, <2>6, <3>2
    <3>5. AgentsCurrent'
      BY <2>2, <2>3, <2>6, <3>2, <3>3, <3>4, GroupStays DEF AgentsCurrent
    <3>6. \A a : Contains(agents, a) <=> a \in AgentsAt(n)
      <4>1. DOMAIN agents = 1..Len(agents)
        BY DEF ParserInv, ParserTyped
      <4> QED BY <2>3, <4>1 DEF Contains, ToSet
    <3>7. groups' = [a \in DOMAIN groups \cup AgentsAt(n) |->
                       IF a \in AgentsAt(n) THEN Ruled(GroupOf(a), l) ELSE groups[a]]
      BY <2>3, <3>1, <3>6 DEF ReadRule
    <3>8. DOMAIN groups' = UNION {AgentsAt(i)' : i \in {i \in 1..line' : IsRule(i)'}}
      BY <2>7, <2>8, <3>2, <3>7
    <3>9. ASSUME NEW a \in DOMAIN groups'
          PROVE  /\ groups'[a] \in Group
                 /\ ToSet(groups'[a].allow) = RulePaths(a, "allow")'
                 /\ ToSet(groups'[a].disallow) = RulePaths(a, "disallow")'
      <4> DEFINE added(key) == IF l.key = key /\ l.value # <<>> THEN {l.value} ELSE {}
      <4>1. GroupOf(a) \in Group /\ ToSet(GroupOf(a).allow) = RulePaths(a, "allow")
            /\ ToSet(GroupOf(a).disallow) = RulePaths(a, "disallow")
        BY GroupHolds
      <4>2. "allow" \in Directives /\ "disallow" \in Directives
        BY DEF Directives
      <4>3. CASE a \in AgentsAt(n)
        <5>1. groups'[a] = Ruled(GroupOf(a), l)
          BY <3>7, <4>3
        <5>2. /\ Ruled(GroupOf(a), l) \in Group
              /\ ToSet(Ruled(GroupOf(a), l).allow) = ToSet(GroupOf(a).allow) \cup added("allow")
              /\ ToSet(Ruled(GroupOf(a), l).disallow) = ToSet(GroupOf(a).disallow) \cup added("disallow")
          BY <2>1, <2>12, <4>1, RuleApplied
        <5>3. \A key \in Directives : RulePaths(a, key)' = RulePaths(a, key) \cup added(key)
          BY <2>1, <3>2, <4>3, PathsRead DEF n
        <5> QED BY <4>1, <4>2, <5>1, <5>2, <5>3
      <4>4. CASE a \notin AgentsAt(n)
        <5>1. groups'[a] = groups[a] /\ a \in DOMAIN groups
          BY <3>7, <4>4
        <5>2. GroupOf(a) = groups[a]
          BY <5>1 DEF GroupOf
        <5>3. \A key \in Directives : RulePaths(a, key)' = RulePaths(a, key)
          BY <2>1, <4>4, PathsRead DEF n
        <5> QED BY <4>1, <4>2, <5>1, <5>2, <5>3
      <4> QED BY <4>3, <4>4
    <3>10. GroupsRead'
      BY <3>8, <3>9 DEF GroupsRead
    <3>11. groups' \in [DOMAIN groups' -> Group]
      <4>1. \A a \in DOMAIN groups' : groups'[a] \in Group
        BY <3>9
      <4>2. groups' = [a \in DOMAIN groups' |-> groups'[a]]
        BY <3>7
      <4> QED BY <4>1, <4>2
    <3>12. ParserTyped'
      BY <2>1, <3>3, <3>11 DEF ParserInv, ParserTyped
    <3> QED BY <3>5, <3>10, <3>12 DEF ParserInv
  <2> QED BY <2>10, <2>11, <2>12
<1> QED BY <1>1, <1>2 
   DEF PolicyNext, LimiterNext, pvars, ReadClock, AcquireWait, Fetch, Leave, ClockTick, SetInterval

\* The agents with rules that the crawler's name starts with, and the one
\* whose rules it follows.
Named == {a \in Prefixes(Agent) : RulesRead(a) # {}}
Us == IF Named = {} THEN <<"*">> ELSE Longest(Named)

LEMMA PrefixesOfAgent ==
    /\ \A a \in Prefixes(Agent) : a \in Texts /\ Len(a) \in 0..Len(Agent) /\ IsPrefix(a, Agent)
    /\ \A a \in Texts : IsPrefix(a, Agent) => a \in Prefixes(Agent)
<1>1. Agent \in Texts /\ Len(Agent) \in Nat
  BY RobotsAssumption DEF Texts
<1>2. \A l \in 0..Len(Agent) : /\ SubSeq(Agent, 1, l) \in Texts /\ Len(SubSeq(Agent, 1, l)) = l
                               /\ SubSeq(SubSeq(Agent, 1, l), 1, l) = SubSeq(Agent, 1, l)
  BY <1>1 DEF Texts
<1>3. \A a \in Texts : SubSeq(a, 1, Len(a)) = a /\ Len(a) \in Nat
  BY DEF Texts
<1>4. ASSUME NEW a \in Prefixes(Agent)
      PROVE  a \in Texts /\ Len(a) \in 0..Len(Agent) /\ IsPrefix(a, Agent)
  <2>1. PICK l \in 0..Len(Agent) : a = SubSeq(Agent, 1, l)
    BY DEF Prefixes
  <2>2. a \in Texts /\ Len(a) = l /\ SubSeq(a, 1, l) = SubSeq(Agent, 1, l)
    BY <1>2, <2>1
  <2>3. l \in 0..Len(Agent) /\ l <= Len(Agent)
    BY <1>1
  <2> QED BY <2>2, <2>3 DEF IsPrefix
<1>5. ASSUME NEW a \in Texts, IsPrefix(a, Agent)
      PROVE  a \in Prefixes(Agent)
  <2>1. a = SubSeq(Agent, 1, Len(a)) /\ Len(a) <= Len(Agent)
    BY <1>3, <1>5 DEF IsPrefix
  <2>2. Len(a) \in 0..Len(Agent)
    BY <1>1, <1>3, <2>1
  <2> QED BY <2>1, <2>2 DEF Prefixes
<1> QED BY <1>4, <1>5

LEMMA UsIsNamed == Named # {} => Us \in Named
<1> SUFFICES ASSUME Named # {} PROVE Longest(Named) \in Named
  BY DEF Us
<1> DEFINE lengths == {Len(a) : a \in Named}
<1>1. Len(Agent) \in Nat /\ lengths \subseteq 0..Len(Agent) /\ lengths # {}
  <2>1. \A a \in Named : Len(a) \in 0..Len(Agent)
    BY PrefixesOfAgent DEF Named
  <2>2. Len(Agent) \in Nat
    BY RobotsAssumption
  <2> QED BY <2>1, <2>2
<1>2. Max(lengths) \in lengths /\ \A x \in lengths : x <= Max(lengths)
  <2> HIDE DEF lengths
  <2> QED BY <1>1, MaxOfBounded
<1>3. PICK a \in Named : Len(a) = Max(lengths)
  BY <1>2
<1>4. \A b \in Named : Len(b) <= Len(a)
  BY <1>2, <1>3
<1> QED BY <1>4 DEF Longest

\* matching_group finds the group of the agent whose rules count.
LEMMA OurGroup ==
    ASSUME ParserInv
    PROVE  MatchingGroup = GroupOf(Us)
<1> DEFINE listed == {a \in DOMAIN groups : a # <<"*">> /\ IsPrefix(a, Agent)}
<1>1. \A a : a \in DOMAIN groups <=> RulesRead(a) # {}
  BY GroupHolds
<1>2. DOMAIN groups \subseteq Texts
  <2> SUFFICES ASSUME NEW a \in DOMAIN groups PROVE a \in Texts
    OBVIOUS
  <2>1. PICK i \in 1..line : a \in AgentsAt(i)
    BY DEF ParserInv, GroupsRead
  <2>2. PICK j \in GroupLines(i) : a = robots[j].value
    BY <2>1, AgentsOfLines
  <2>3. j \in 1..Len(robots) /\ NamesAgent(j)
    BY <2>2 DEF GroupLines, ParserInv, ParserTyped
  <2>4. robots[j] \in RobotsLines /\ robots[j].key = "user-agent"
    BY <2>3 DEF ParserInv, ParserTyped, NamesAgent
  <2> QED BY <2>2, <2>4, RobotsAssumption DEF Texts
<1>3. listed = Named
  BY <1>1, <1>2, PrefixesOfAgent, RobotsAssumption DEF Named
<1>4. MatchingGroup = IF Named # {} THEN groups[Longest(Named)] ELSE GroupOf(<<"*">>)
  BY <1>3 DEF MatchingGroup
<1>5. CASE Named # {}
  <2>1. Us = Longest(Named) /\ Us \in DOMAIN groups
    BY <1>1, <1>5, UsIsNamed DEF Us, Named
  <2> QED BY <1>4, <1>5, <2>1 DEF GroupOf
<1>6. CASE Named = {}
  BY <1>4, <1>6 DEF Us
<1> QED BY <1>5, <1>6

\* longest_prefix_match is the length of the longest of the rules, or -1.
Matching(R, path) == {Len(r) : r \in {r \in R : IsPrefix(r, path)}}

LEMMA LongestOf ==
    ASSUME NEW rules \in Seq(Texts), NEW path \in Texts
    PROVE  LET M == Matching(ToSet(rules), path)
           IN  /\ M = {} => LongestMatch(rules, path) = -1
               /\ M # {} => LongestMatch(rules, path) \in M
               /\ M \subseteq Nat
               /\ \A x \in M : x <= LongestMatch(rules, path)
<1> DEFINE M == Matching(ToSet(rules), path)
<1>1. \A r \in ToSet(rules) : r \in Texts /\ Len(r) \in Nat
  BY DEF ToSet, Texts
<1>2. Len(path) \in Nat /\ M \subseteq 0..Len(path)
  BY <1>1 DEF Matching, IsPrefix, Texts
<1>3. LongestMatch(rules, path) = Max({-1} \cup M)
  BY DEF LongestMatch, Matching
<1> HIDE DEF M
<1>4. CASE M = {}
  <2>1. Max({-1}) = -1
    BY DEF Max
  <2>2. {-1} \cup M = {-1}
    BY <1>4
  <2> QED BY <1>3, <1>4, <2>1, <2>2 DEF M
<1>5. CASE M # {}
  <2>1. Max(M) \in M /\ \A x \in M : x <= Max(M)
    BY <1>2, <1>5, MaxOfBounded
  <2> DEFINE S == {-1} \cup M
             m == Max(M)
  <2> HIDE DEF m
  <2>2. m \in Nat /\ m \in M /\ \A y \in M : y \in Nat /\ y <= m
    <3>1. \A y \in M : y \in Nat
      BY <1>2
    <3> QED BY <2>1, <3>1 DEF m
  <2>3. m \in S /\ (\A y \in S : m >= y) /\ \A x \in S : (\A y \in S : x >= y) => x = m
    <3>1. \A x \in S : x \in Int /\ m >= x
      BY <2>2
    <3>2. \A x \in S : x >= m => x = m
      BY <2>2, <3>1
    <3> QED BY <2>2, <3>1, <3>2
  <2> HIDE DEF S
  <2>4. Max(S) = m
    BY <2>3 DEF Max
  <2>5. LongestMatch(rules, path) = m
    BY <1>3, <2>4 DEF S
  <2> QED BY <1>5, <2>2, <2>5 DEF M
<1> QED BY <1>4, <1>5

\* Whatever groups a robots.txt has, in whatever order, the verdict on a path
\* is that of the longest rule for the crawler (robots.rs:44-140).
THEOREM RobotsAreObeyed == PolicySpec => []RobotsObeyed
<1>1. ParserInv => RobotsObeyed
  <2> SUFFICES ASSUME ParserInv, line = Len(robots), NEW path \in SitePaths
               PROVE  LET hits(key) == {Len(robots[i].value) : i \in
                            {i \in RulesForUs : robots[i].key = key /\ robots[i].value # <<>>
                                                /\ IsPrefix(robots[i].value, path)}}
                      IN IsAllowed(path) <=> \A d \in hits("disallow") : \E a \in hits("allow") : a >= d
    BY DEF RobotsObeyed
  <2> DEFINE hits(key) == {Len(robots[i].value) : i \in
                            {i \in RulesForUs : robots[i].key = key /\ robots[i].value # <<>>
                                                /\ IsPrefix(robots[i].value, path)}}
             g == GroupOf(Us)
             al == LongestMatch(g.allow, path)
             di == LongestMatch(g.disallow, path)
  <2>1. RulesForUs = RulesRead(Us)
    <3> DEFINE rules == {i \in 1..Len(robots) : robots[i].key \in Directives}
    <3>1. \A a : RulesRead(a) = {i \in rules : a \in AgentsAt(i)}
      BY DEF RulesRead, IsRule
    <3>2. Named = {a \in Prefixes(Agent) : \E i \in rules : a \in AgentsAt(i)}
      BY <3>1 DEF Named
    <3> QED BY <3>1, <3>2 DEF RulesForUs, Us, Directives
  <2>2. \A key : hits(key) = Matching(RulePaths(Us, key), path)
    BY <2>1 DEF Matching, RulePaths
  <2>3. /\ g.allow \in Seq(Texts) /\ g.disallow \in Seq(Texts)
        /\ ToSet(g.allow) = RulePaths(Us, "allow") /\ ToSet(g.disallow) = RulePaths(Us, "disallow")
    BY GroupHolds DEF Group
  <2>4. IsAllowed(path) <=> al >= di
    BY OurGroup DEF IsAllowed
  <2>5. path \in Texts
    BY RobotsAssumption DEF Texts
  <2> HIDE DEF hits, g
  <2>6. /\ hits("allow") = {} => al = -1
        /\ hits("allow") # {} => al \in hits("allow")
        /\ hits("allow") \subseteq Nat
        /\ \A x \in hits("allow") : x <= al
    BY <2>2, <2>3, <2>5, LongestOf
  <2>7. /\ hits("disallow") = {} => di = -1
        /\ hits("disallow") # {} => di \in hits("disallow")
        /\ hits("disallow") \subseteq Nat
        /\ \A x \in hits("disallow") : x <= di
    BY <2>2, <2>3, <2>5, LongestOf
  <2> HIDE DEF al, di
  <2>8. IsAllowed(path) <=> \A d \in hits("disallow") : \E a \in hits("allow") : a >= d
    <3>1. CASE hits("disallow") = {}
      BY <2>4, <2>6, <2>7, <3>1
    <3>2. CASE hits("disallow") # {} /\ hits("allow") = {}
      BY <2>4, <2>6, <2>7, <3>2
    <3>3. CASE hits("disallow") # {} /\ hits("allow") # {}
      BY <2>4, <2>6, <2>7, <3>3
    <3> QED BY <3>1, <3>2, <3>3
  <2> QED BY <2>8 DEF hits
<1> QED BY <1>1, ParserInit, ParserStep, PTL DEF PolicySpec

-----------------------------------------------------------------------------
(* The gateway                                                             *)

EnabledJobs(list, n) == {k \in 1..n : list[k].enabled}
Failed(fates) == {k \in DOMAIN fates : ~fates[k]}

\* The counters are right for the jobs fire_all_now is past.
Counting ==
    /\ jobs \in Seq([enabled : BOOLEAN, channel : STRING])
    /\ nextJob \in 0..Len(jobs)
    /\ jobFates \in Seq(BOOLEAN)
    /\ stats.fires = Cardinality(EnabledJobs(jobs, nextJob))
    /\ stats.errors = Cardinality(Failed(jobFates))
    /\ gpc \in {"spawn", "configure", "message"} => jobs = <<>>
    /\ gpc \in {"skill", "tool", "send", "done"} => nextJob = Len(jobs)

OneTurn == <<"user_turn">>
BothTurns == <<"user_turn", "agent_turn">>

\* What may be posted.
Posts == {"job", "skill", "none"} \cup {i.tool : i \in Intents}

\* The turns recorded and the reply made by the time main is at gpc.
Talking ==
    /\ gpc \in {"spawn", "configure", "message", "jobs", "skill", "tool", "send", "done", "failed"}
    /\ intent \in Intents
    /\ cliLog \in Seq(Posts) /\ reply \in Posts
    /\ gpc \in {"spawn", "configure", "message", "jobs"} => working = <<>> /\ reply = "none"
    /\ gpc \in {"skill", "tool"} => working = OneTurn /\ reply = "none"
    /\ gpc = "skill" => intent.skill
    /\ gpc = "send" \/ (gpc = "done" /\ reply # "none") =>
          working = BothTurns /\ (reply = "skill" => intent.skill)
    /\ gpc = "done" /\ reply # "none" => cliLog[Len(cliLog)] = reply

LEMMA EnabledFinite ==
    ASSUME NEW list, NEW n \in Nat
    PROVE  IsFiniteSet(EnabledJobs(list, n)) /\ Cardinality(EnabledJobs(list, n)) \in Nat
<1>1. IsFiniteSet(1..n)
  BY FS_Interval
<1>2. EnabledJobs(list, n) \subseteq 1..n
  BY DEF EnabledJobs
<1>3. IsFiniteSet(EnabledJobs(list, n))
  BY ONLY <1>1, <1>2, FS_Subset
<1> QED BY ONLY <1>3, FS_CardinalityType

LEMMA FailedFinite ==
    ASSUME NEW fates \in Seq(BOOLEAN)
    PROVE  IsFiniteSet(Failed(fates)) /\ Cardinality(Failed(fates)) \in Nat
<1>1. IsFiniteSet(1..Len(fates))
  BY FS_Interval
<1>2. Failed(fates) \subseteq 1..Len(fates)
  BY DEF Failed
<1>3. IsFiniteSet(Failed(fates))
  BY ONLY <1>1, <1>2, FS_Subset
<1> QED BY ONLY <1>3, FS_CardinalityType

\* One job more.
LEMMA EnabledGrows ==
    ASSUME NEW list, NEW n \in Nat
    PROVE  Cardinality(EnabledJobs(list, n + 1))
             = Cardinality(EnabledJobs(list, n)) + IF list[n + 1].enabled THEN 1 ELSE 0
<1>1. CASE list[n + 1].enabled
  <2>1. EnabledJobs(list, n + 1) = EnabledJobs(list, n) \cup {n + 1} /\ n + 1 \notin EnabledJobs(list, n)
    BY <1>1 DEF EnabledJobs
  <2>2. Cardinality(EnabledJobs(list, n) \cup {n + 1}) = Cardinality(EnabledJobs(list, n)) + 1
    BY <2>1, EnabledFinite, FS_AddElement
  <2> QED BY <1>1, <2>1, <2>2
<1>2. CASE ~list[n + 1].enabled
  <2>1. EnabledJobs(list, n + 1) = EnabledJobs(list, n)
    BY <1>2 DEF EnabledJobs
  <2> QED BY <1>2, <2>1, EnabledFinite
<1> QED BY <1>1, <1>2

\* One fate more.
LEMMA FailedGrows ==
    ASSUME NEW fates \in Seq(BOOLEAN), NEW ok \in BOOLEAN
    PROVE  Cardinality(Failed(Append(fates, ok))) = Cardinality(Failed(fates)) + IF ok THEN 0 ELSE 1
<1>1. /\ DOMAIN Append(fates, ok) = 1..(Len(fates) + 1)
      /\ DOMAIN fates = 1..Len(fates) /\ Len(fates) \in Nat
      /\ \A k \in 1..Len(fates) : Append(fates, ok)[k] = fates[k]
      /\ Append(fates, ok)[Len(fates) + 1] = ok
  BY AppendProperties
<1>2. CASE ok
  <2>1. Failed(Append(fates, ok)) = Failed(fates)
    BY <1>1, <1>2 DEF Failed
  <2>2. (IF ok THEN 0 ELSE 1) = 0
    BY <1>2
  <2> QED BY <2>1, <2>2, FailedFinite
<1>3. CASE ~ok
  <2>1. /\ Failed(Append(fates, ok)) = Failed(fates) \cup {Len(fates) + 1}
        /\ Len(fates) + 1 \notin Failed(fates)
    BY <1>1, <1>3 DEF Failed
  <2>2. Cardinality(Failed(fates) \cup {Len(fates) + 1}) = Cardinality(Failed(fates)) + 1
    BY <2>1, FailedFinite, FS_AddElement
  <2> QED BY <1>3, <2>1, <2>2
<1> QED BY <1>2, <1>3

LEMMA TurnsAppended == Append(<<>>, "user_turn") = OneTurn /\ Append(OneTurn, "agent_turn") = BothTurns
<1> DEFINE Turns == {"user_turn", "agent_turn"}
<1>1. /\ OneTurn \in Seq(Turns) /\ Len(OneTurn) = 1 /\ OneTurn[1] = "user_turn"
      /\ BothTurns \in Seq(Turns) /\ Len(BothTurns) = 2
      /\ BothTurns[1] = "user_turn" /\ BothTurns[2] = "agent_turn"
      /\ <<>> \in Seq(Turns) /\ Len(<<>>) = 0 /\ "user_turn" \in Turns /\ "agent_turn" \in Turns
  BY DEF OneTurn, BothTurns
<1> DEFINE one == Append(<<>>, "user_turn")
           both == Append(OneTurn, "agent_turn")
<1> HIDE DEF Turns
<1>2. one \in Seq(Turns) /\ Len(one) = 1 /\ one[1] = "user_turn"
  BY <1>1, AppendProperties
<1>3. both \in Seq(Turns) /\ Len(both) = 2 /\ both[1] = "user_turn" /\ both[2] = "agent_turn"
  <2>1. \A s \in Seq(Turns), e \in Turns :
           /\ Append(s, e) \in Seq(Turns) /\ Len(Append(s, e)) = Len(s) + 1
           /\ \A i \in 1..Len(s) : Append(s, e)[i] = s[i]
           /\ Append(s, e)[Len(s) + 1] = e
    BY AppendProperties
  <2>2. OneTurn \in Seq(Turns) /\ "agent_turn" \in Turns
    BY <1>1
  <2>3. /\ both \in Seq(Turns) /\ Len(both) = Len(OneTurn) + 1
        /\ \A i \in 1..Len(OneTurn) : both[i] = OneTurn[i]
        /\ both[Len(OneTurn) + 1] = "agent_turn"
    BY <2>1, <2>2, Zenon
  <2> HIDE DEF both
  <2> QED BY <1>1, <2>3
<1> HIDE DEF one, both
<1>4. one = OneTurn
  BY <1>1, <1>2, SeqEqual
<1>5. \A i \in 1..2 : both[i] = BothTurns[i]
  BY <1>1, <1>3
<1>6. both = BothTurns
  BY <1>1, <1>3, <1>5, SeqEqual
<1> QED BY <1>4, <1>6 DEF one, both

LEMMA GatewayInitOK == GatewayInit => Counting /\ Talking
<1> SUFFICES ASSUME GatewayInit PROVE Counting /\ Talking
  OBVIOUS
<1>1. EnabledJobs(<<>>, 0) = {} /\ Failed(<<>>) = {}
  BY DEF EnabledJobs, Failed
<1>2. Counting
  BY <1>1, FS_EmptySet, SMTT(20) DEF GatewayInit, Counting
<1>3. Talking
  BY DEF GatewayInit, Talking, Posts
<1> QED BY <1>2, <1>3

LEMMA GatewayStep == Counting /\ Talking /\ [GatewayNext]_gvars => Counting' /\ Talking'
<1> SUFFICES ASSUME Counting, Talking, [GatewayNext]_gvars PROVE Counting' /\ Talking'
  OBVIOUS
<1>1. CASE UNCHANGED gvars
  BY <1>1 DEF gvars, Counting, Talking
<1>2. CASE Connect
  BY <1>2 DEF Connect, Counting, Talking
<1>3. CASE LoadJobs
  <2>1. Talking'
    BY <1>3 DEF LoadJobs, Talking
  <2>2. /\ jobs = <<>> /\ nextJob = 0 /\ nextJob' = nextJob
        /\ stats' = stats /\ jobFates' = jobFates /\ gpc' \in {"message", "jobs"}
        /\ jobs' = jobs \/ (jobs' \in JobLists /\ gpc' = "jobs")
    BY <1>3 DEF LoadJobs, Counting
  <2>3. jobs' \in Seq([enabled : BOOLEAN, channel : STRING])
    BY <2>2, GatewayAssumption, Zenon DEF Counting
  <2>4. EnabledJobs(jobs', nextJob') = {} /\ EnabledJobs(jobs, nextJob) = {}
    BY <2>2 DEF EnabledJobs
  <2>5. stats.fires = Cardinality({}) /\ stats.errors = Cardinality(Failed(jobFates))
        /\ jobFates \in Seq(BOOLEAN)
    BY <2>4 DEF Counting
  <2>6. nextJob' \in 0..Len(jobs')
    BY <2>2, <2>3
  <2>7. Counting'
    BY <2>2, <2>3, <2>4, <2>5, <2>6 DEF Counting
  <2> QED BY <2>1, <2>7
<1>4. CASE FireJob
  <2>1. PICK ok \in BOOLEAN :
         /\ jobFates' = Append(jobFates, ok)
         /\ stats' = [fires |-> stats.fires + 1, errors |-> stats.errors + IF ok THEN 0 ELSE 1]
         /\ cliLog' = IF ok THEN Sent(cliLog, jobs[nextJob + 1].channel, "job") ELSE cliLog
    BY <1>4 DEF FireJob
  <2>2. /\ gpc = "jobs" /\ nextJob < Len(jobs) /\ jobs[nextJob + 1].enabled
        /\ nextJob' = nextJob + 1 /\ UNCHANGED <<gpc, jobs, working, intent, reply>>
    BY <1>4 DEF FireJob
  <2>3. cliLog' \in Seq(Posts)
    <3>1. cliLog' = cliLog \/ cliLog' = Append(cliLog, "job")
      BY <2>1 DEF Sent
    <3>2. "job" \in Posts
      BY DEF Posts
    <3> QED BY <3>1, <3>2, AppendProperties DEF Talking
  <2>4. Talking'
    BY <2>2, <2>3 DEF Talking
  <2>5. nextJob \in Nat /\ Len(jobs) \in Nat
    BY DEF Counting
  <2>6. stats'.fires = stats.fires + 1 /\ stats'.errors = stats.errors + IF ok THEN 0 ELSE 1
    BY <2>1
  <2>7. stats'.fires = Cardinality(EnabledJobs(jobs', nextJob'))
    BY <2>2, <2>5, <2>6, EnabledGrows DEF Counting
  <2>8. stats'.errors = Cardinality(Failed(jobFates'))
    BY <2>1, <2>6, FailedGrows DEF Counting
  <2>9. jobFates' \in Seq(BOOLEAN) /\ nextJob' \in 0..Len(jobs')
    BY <2>1, <2>2, <2>5 DEF Counting
  <2>10. Counting'
    BY <2>2, <2>7, <2>8, <2>9 DEF Counting
  <2> QED BY <2>4, <2>10
<1>5. CASE SkipJob
  <2>1. /\ gpc = "jobs" /\ nextJob < Len(jobs) /\ ~jobs[nextJob + 1].enabled
        /\ nextJob' = nextJob + 1
        /\ UNCHANGED <<gpc, jobs, stats, cliLog, working, intent, reply, jobFates>>
    BY <1>5 DEF SkipJob
  <2>2. Talking'
    BY <2>1 DEF Talking
  <2>3. nextJob \in Nat /\ Len(jobs) \in Nat
    BY DEF Counting
  <2>4. Cardinality(EnabledJobs(jobs', nextJob')) = Cardinality(EnabledJobs(jobs, nextJob))
    <3>1. Cardinality(EnabledJobs(jobs, nextJob + 1)) = Cardinality(EnabledJobs(jobs, nextJob)) + 0
      BY <2>1, <2>3, EnabledGrows
    <3>2. Cardinality(EnabledJobs(jobs, nextJob)) \in Nat
      BY <2>3, EnabledFinite
    <3> QED BY <2>1, <3>1, <3>2
  <2>5. Counting'
    BY <2>1, <2>3, <2>4 DEF Counting
  <2> QED BY <2>2, <2>5
<1>6. CASE ReceiveMessage
  <2>1. /\ gpc = "message" \/ (gpc = "jobs" /\ nextJob = Len(jobs))
        /\ UNCHANGED <<jobs, nextJob, stats, cliLog, intent, reply, jobFates>>
        /\ \/ gpc' = "done" /\ working' = working
           \/ gpc' = (IF intent.skill THEN "skill" ELSE "tool") /\ working' = Append(working, "user_turn")
    BY <1>6 DEF ReceiveMessage
  <2>2. nextJob = Len(jobs)
    BY <2>1 DEF Counting
  <2>3. Counting'
    BY <2>1, <2>2 DEF Counting
  <2>4. working = <<>> /\ Append(working, "user_turn") = OneTurn
    BY <2>1, TurnsAppended DEF Talking
  <2>5. Talking'
    BY <2>1, <2>4 DEF Talking
  <2> QED BY <2>3, <2>5
<1>7. CASE RouteSkill \/ RouteTool
  <2>1. Append(OneTurn, "agent_turn") = BothTurns
    BY TurnsAppended
  <2>2. Counting'
    BY <1>7 DEF RouteSkill, RouteTool, Counting
  <2>3. CASE RouteSkill
    <3>1. /\ gpc = "skill" /\ UNCHANGED <<cliLog, intent>> /\ working = OneTurn
          /\ reply = "none" /\ intent.skill
          /\ \/ gpc' = "tool" /\ working' = working /\ reply' = reply
             \/ gpc' = "send" /\ working' = BothTurns /\ reply' = "skill"
      BY <2>1, <2>3 DEF RouteSkill, Talking
    <3>2. "skill" \in Posts
      BY DEF Posts
    <3> QED BY <2>2, <3>1, <3>2 DEF Talking
  <2>4. CASE RouteTool
    <3>1. /\ gpc = "tool" /\ UNCHANGED <<cliLog, intent>> /\ working = OneTurn
          /\ reply = "none"
          /\ \/ gpc' = "failed" /\ working' = working /\ reply' = reply
             \/ gpc' = "send" /\ working' = BothTurns /\ reply' = intent.tool
      BY <2>1, <2>4 DEF RouteTool, Talking
    <3>2. intent.tool # "skill" /\ intent.tool \in Posts
      BY GatewayAssumption DEF Talking, Posts
    <3> QED BY <2>2, <3>1, <3>2 DEF Talking
  <2> QED BY <1>7, <2>2, <2>3, <2>4
<1>8. CASE SendReply
  <2>1. cliLog' = Append(cliLog, reply)
    BY <1>8 DEF SendReply, Sent
  <2>2. cliLog' \in Seq(Posts) /\ cliLog'[Len(cliLog')] = reply
    BY <2>1, AppendProperties DEF Talking
  <2>3. Counting'
    BY <1>8 DEF SendReply, Counting
  <2>4. Talking'
    BY <1>8, <2>2 DEF SendReply, Talking
  <2> QED BY <2>3, <2>4
<1>9. CASE GatewayStops
  BY <1>1, <1>9 DEF GatewayStops
<1> QED BY <1>1, <1>2, <1>3, <1>4, <1>5, <1>6, <1>7, <1>8, <1>9 DEF GatewayNext

\* Whatever jobs the configuration holds and whichever calls fail, a gateway
\* that gets to its end has fired and counted every enabled job once, prints
\* the reply and not a job's post, and remembers both turns.
THEOREM GatewayDelivers == GatewaySpec => []JobsThenReply
<1>1. Counting /\ Talking => JobsThenReply
  <2> SUFFICES ASSUME Counting, Talking, gpc = "done" PROVE JobsThenReply
    BY DEF JobsThenReply
  <2>1. {k \in DOMAIN jobs : jobs[k].enabled} = EnabledJobs(jobs, nextJob)
    BY DEF Counting, EnabledJobs
  <2>2. {k \in DOMAIN jobFates : ~jobFates[k]} = Failed(jobFates)
    BY DEF Failed
  <2> QED BY <2>1, <2>2 DEF Counting, Talking, JobsThenReply, BothTurns
<1> QED BY <1>1, GatewayInitOK, GatewayStep, PTL DEF GatewaySpec

-----------------------------------------------------------------------------
(* The ingestion pipeline                                                  *)

\* The documents the crawler may find.
Pages == {[stem |-> f.stem, texts |-> f.texts] : f \in UNION Sites}

\* The chunk of document i with ordinal k is stored, and with text b.
Held(i, k, b) == <<i, k>> \in DOMAIN chunks /\ chunks[<<i, k>>] = b

\* The two maps of the store go together; the hash of a text is the text.
Mirrored == hashes = chunks

Crawled == todo \in Seq(Pages) /\ (ipc \in {"embedding", "inserting"} => doc \in Pages)

\* No text has two embeddings, so as many embeddings as texts are all of them.
Embedding ==
    ipc = "embedding" =>
      /\ offset \in 0..Len(doc.texts)
      /\ embedded \in Seq(1..Len(doc.texts))
      /\ Len(embedded) <= offset
      /\ Len(embedded) = offset => \A k \in 1..offset : embedded[k] = k

\* What is not yet stored of the document in work is still to be inserted.
Inserting ==
    ipc = "inserting" =>
      /\ doc.stem \in DOMAIN documents /\ documents[doc.stem] = doc.texts
      /\ embedded \in Seq(1..Len(doc.texts))
      /\ doc.stem \notin shorted =>
           \A k \in 1..Len(doc.texts) :
             Held(doc.stem, k, doc.texts[k]) \/ \E j \in 1..Len(embedded) : embedded[j] = k

IngestInv == Mirrored /\ Crawled /\ Embedding /\ Inserting /\ StoredIsWhole

LEMMA PagesTyped == \A d \in Pages : d.texts \in Seq(STRING)
<1> SUFFICES ASSUME NEW d \in Pages PROVE d.texts \in Seq(STRING)
  OBVIOUS
<1>1. PICK f \in UNION Sites : d = [stem |-> f.stem, texts |-> f.texts]
  BY DEF Pages
<1>2. f.texts \in Seq(STRING)
  BY IngestAssumption
<1> QED BY <1>1, <1>2

LEMMA IngestInitOK == IngestInit => IngestInv
  BY DEF IngestInit, IngestInv, Mirrored, Crawled, Embedding, Inserting, StoredIsWhole

\* Steps that leave the store alone, outside an upsert before and after.
LEMMA StoreUntouched ==
    ASSUME IngestInv, ipc # "inserting", ipc' # "inserting", UNCHANGED <<storeVars, shorted>>
    PROVE  Mirrored' /\ Inserting' /\ StoredIsWhole'
  BY DEF IngestInv, storeVars, Mirrored, Inserting, StoredIsWhole

LEMMA CrawlStep ==
    ASSUME IngestInv, NEW site \in Sites, Crawl(site)
    PROVE  IngestInv'
<1> DEFINE pages == {[stem |-> f.stem, texts |-> f.texts] : f \in {f \in site : f.page}}
<1>1. /\ ipc = "idle" /\ ipc' \in {"idle", "next"} /\ UNCHANGED <<doc, storeVars, shorted>>
      /\ todo' = todo \/ todo' \in SetToSeqs(pages)
  BY DEF Crawl
<1>2. pages \subseteq Pages
  BY DEF Pages
<1>3. IsFiniteSet(pages)
  <2>1. IsFiniteSet(site)
    BY IngestAssumption
  <2>2. IsFiniteSet({f \in site : f.page})
    BY <2>1, FS_Subset
  <2> DEFINE files == {f \in site : f.page}
             page == [f \in files |-> [stem |-> f.stem, texts |-> f.texts]]
  <2>3. pages = {page[f] : f \in files}
    OBVIOUS
  <2> HIDE DEF files
  <2>4. page \in Surjection(files, pages)
    BY <2>3 DEF page, Surjection
  <2> QED BY <2>2, <2>4, FS_Surjection DEF files, ExistsSurjection
<1>4. Cardinality(pages) \in Nat
  BY <1>3, FS_CardinalityType
<1> HIDE DEF pages
<1>5. todo' \in Seq(Pages)
  <2>1. CASE todo' \in SetToSeqs(pages)
    <3>1. todo' \in [1..Cardinality(pages) -> pages]
      BY <2>1 DEF SetToSeqs
    <3>2. todo' \in [1..Cardinality(pages) -> Pages]
      BY <1>2, <3>1
    <3> QED BY <1>4, <3>2, IsASeq
  <2> QED BY <1>1, <2>1 DEF IngestInv, Crawled
<1>6. Crawled' /\ Embedding'
  BY <1>1, <1>5 DEF Crawled, Embedding
<1> QED BY <1>1, <1>6, StoreUntouched DEF IngestInv

LEMMA TakeStep ==
    ASSUME IngestInv, TakeDocument
    PROVE  IngestInv'
<1>1. /\ ipc = "next" /\ todo # <<>> /\ todo' = Tail(todo) /\ offset' = 0 /\ embedded' = <<>>
      /\ UNCHANGED <<storeVars, shorted>>
      /\ \/ ipc' = "next"
         \/ ipc' = "embedding" /\ doc' = Head(todo)
  BY DEF TakeDocument
<1>2. todo \in Seq(Pages)
  BY DEF IngestInv, Crawled
<1>3. Head(todo) \in Pages /\ Tail(todo) \in Seq(Pages)
  BY <1>1, <1>2, HeadTailProperties
<1>4. Crawled'
  BY <1>1, <1>3 DEF Crawled
<1>5. Embedding'
  <2> SUFFICES ASSUME ipc' = "embedding" PROVE Embedding'
    BY DEF Embedding
  <2>1. doc'.texts \in Seq(STRING)
    BY <1>1, <1>3, PagesTyped
  <2>2. Len(doc'.texts) \in Nat
    BY <2>1, LenProperties
  <2> QED BY <1>1, <2>2 DEF Embedding
<1> QED BY <1>1, <1>4, <1>5, StoreUntouched DEF IngestInv

\* At o of len texts with e embeddings, n more arrive for the texts up to o2.
LEMMA BatchArithmetic ==
    ASSUME NEW o \in Nat, NEW o2 \in Nat, NEW e \in Nat, NEW n \in Nat, NEW len \in Nat,
           e <= o, o < o2, o2 <= len, n <= o2 - o
    PROVE  /\ e + n <= o2
           /\ e + n = o2 => e = o /\ n = o2 - o
           /\ \A k \in 1..n : o + k \in 1..len
           /\ \A k \in 1..o2 : k > o /\ n = o2 - o => k - o \in 1..n /\ o + (k - o) = k
  OBVIOUS

LEMMA EmbedStep ==
    ASSUME IngestInv, EmbedBatch
    PROVE  IngestInv'
<1>1. /\ ipc = "embedding" /\ offset < Len(doc.texts) /\ UNCHANGED <<storeVars, shorted>>
  BY DEF EmbedBatch
<1>2. CASE ipc' = "idle" /\ todo' = <<>>
  <2>1. Crawled' /\ Embedding'
    BY <1>2 DEF Crawled, Embedding
  <2> QED BY <1>1, <1>2, <2>1, StoreUntouched DEF IngestInv
<1>3. ASSUME NEW n \in 0..Cardinality(Batch),
             embedded' = embedded \o [k \in 1..n |-> offset + k],
             offset' = Min({offset + BatchSize, Len(doc.texts)}),
             UNCHANGED <<ipc, todo, doc>>
      PROVE  IngestInv'
  <2> DEFINE len == Len(doc.texts)
             more == [k \in 1..n |-> offset + k]
  <2>1. /\ len \in Nat /\ offset \in 0..len /\ embedded \in Seq(1..len)
        /\ Len(embedded) \in Nat /\ Len(embedded) <= offset
        /\ Len(embedded) = offset => \A k \in 1..offset : embedded[k] = k
    BY <1>1, PagesTyped, LenProperties DEF IngestInv, Crawled, Embedding
  <2>2. offset' \in Nat /\ offset' <= len /\ offset < offset'
    <3>1. BatchSize \in Nat /\ BatchSize > 0 /\ offset \in Nat
      BY <2>1, IngestAssumption
    <3>2. offset' = IF offset + BatchSize <= len THEN offset + BatchSize ELSE len
      <4>1. offset + BatchSize \in Int /\ len \in Int
        BY <2>1, <3>1
      <4> QED BY <1>3, <4>1, MinOfTwo, Zenon
    <3> HIDE DEF len
    <3> QED BY <1>1, <2>1, <3>1, <3>2 DEF len
  <2>3. n \in Nat /\ n <= offset' - offset
    <3>1. Batch = (offset + 1)..offset'
      BY <1>3 DEF Batch
    <3>2. Cardinality(Batch) = offset' - offset
      BY <2>1, <2>2, <3>1, FS_Interval
    <3> QED BY <1>3, <2>1, <2>2, <3>2
  <2> HIDE DEF len
  <2>a. /\ Len(embedded) + n <= offset'
        /\ Len(embedded) + n = offset' => Len(embedded) = offset /\ n = offset' - offset
        /\ \A k \in 1..n : offset + k \in 1..len
        /\ \A k \in 1..offset' : k > offset /\ n = offset' - offset
              => k - offset \in 1..n /\ offset + (k - offset) = k
    <3>1. offset \in Nat
      BY <2>1
    <3>2. PICK o \in Nat, o2 \in Nat, e \in Nat : o = offset /\ o2 = offset' /\ e = Len(embedded)
      BY <2>1, <2>2, <3>1
    <3>3. n \in Nat /\ len \in Nat /\ e <= o /\ o < o2 /\ o2 <= len /\ n <= o2 - o
      BY <2>1, <2>2, <2>3, <3>2
    <3>4. /\ e + n <= o2
          /\ e + n = o2 => e = o /\ n = o2 - o
          /\ \A k \in 1..n : o + k \in 1..len
          /\ \A k \in 1..o2 : k > o /\ n = o2 - o => k - o \in 1..n /\ o + (k - o) = k
      BY <3>3, BatchArithmetic
    <3> QED BY <3>2, <3>4
  <2>4. more \in Seq(1..len) /\ Len(more) = n /\ \A k \in 1..n : more[k] = offset + k
    <3>1. more \in [1..n -> 1..len]
      BY <2>a
    <3> QED BY <2>3, <3>1, IsASeq
  <2> HIDE DEF more
  <2>5. /\ embedded' \in Seq(1..len) /\ Len(embedded') = Len(embedded) + n
        /\ \A k \in 1..(Len(embedded) + n) :
              embedded'[k] = IF k <= Len(embedded) THEN embedded[k] ELSE more[k - Len(embedded)]
    BY <1>3, <2>1, <2>4, ConcatProperties DEF more
  <2>6. Len(embedded') <= offset'
    BY <2>5, <2>a
  <2>7. ASSUME Len(embedded') = offset', NEW k \in 1..offset'
        PROVE  embedded'[k] = k
    <3>1. Len(embedded) = offset /\ n = offset' - offset
      BY <2>5, <2>7, <2>a
    <3>2. CASE k <= offset
      BY <2>1, <2>5, <2>7, <3>1, <3>2
    <3>3. CASE k > offset
      <4>1. k - offset \in 1..n
        BY <2>7, <2>a, <3>1, <3>3
      <4>2. embedded'[k] = more[k - offset] /\ more[k - offset] = offset + (k - offset)
        BY <2>1, <2>4, <2>5, <2>7, <3>1, <3>3, <4>1
      <4> QED BY <2>7, <2>a, <3>1, <3>3, <4>2
    <3> QED BY <2>1, <2>2, <2>7, <3>2, <3>3
  <2>8. Embedding'
    <3>1. doc' = doc /\ offset' \in 0..len
      BY <1>3, <2>1, <2>2
    <3> QED BY <2>5, <2>6, <2>7, <3>1 DEF Embedding, len
  <2>9. Crawled'
    BY <1>3 DEF IngestInv, Crawled
  <2> QED BY <1>1, <1>3, <2>8, <2>9, StoreUntouched DEF IngestInv
<1> QED BY <1>2, <1>3 DEF EmbedBatch

LEMMA InsertDocumentStep ==
    ASSUME IngestInv, InsertDocument
    PROVE  IngestInv'
<1>1. /\ ipc = "embedding" /\ offset = Len(doc.texts) /\ ipc' = "inserting"
      /\ documents' = [i \in DOMAIN documents \cup {doc.stem} |->
                          IF i = doc.stem THEN doc.texts ELSE documents[i]]
      /\ shorted' = IF Len(embedded) < Len(doc.texts) THEN shorted \cup {doc.stem}
                    ELSE shorted \ {doc.stem}
      /\ UNCHANGED <<todo, doc, embedded, chunks, hashes>>
  BY DEF InsertDocument
<1>2. /\ DOMAIN documents' = DOMAIN documents \cup {doc.stem}
      /\ documents'[doc.stem] = doc.texts
      /\ \A i \in DOMAIN documents : i # doc.stem => documents'[i] = documents[i]
  BY <1>1
<1>3. /\ Len(doc.texts) \in Nat /\ embedded \in Seq(1..Len(doc.texts))
      /\ Len(embedded) \in Nat /\ Len(embedded) <= Len(doc.texts)
      /\ Len(embedded) = Len(doc.texts) => \A k \in 1..Len(doc.texts) : embedded[k] = k
  BY <1>1, PagesTyped, LenProperties DEF IngestInv, Crawled, Embedding
<1>4. doc.stem \notin shorted' => \A k \in 1..Len(doc.texts) : embedded[k] = k /\ k \in 1..Len(embedded)
  BY <1>1, <1>3
<1>5. Inserting'
  BY <1>1, <1>2, <1>3, <1>4 DEF Inserting
<1>6. StoredIsWhole'
  <2> SUFFICES ASSUME NEW i \in DOMAIN documents', i # doc.stem, i \notin shorted',
                      NEW k \in DOMAIN documents'[i]
               PROVE  <<i, k>> \in DOMAIN chunks /\ chunks[<<i, k>>] = documents'[i][k]
    <3>1. ipc' = "inserting" /\ doc' = doc /\ chunks' = chunks
      BY <1>1
    <3> QED BY <3>1 DEF StoredIsWhole
  <2>1. i \in DOMAIN documents /\ documents'[i] = documents[i] /\ i \notin shorted
    BY <1>1, <1>2
  <2> QED BY <1>1, <2>1 DEF IngestInv, StoredIsWhole
<1>7. Mirrored' /\ Crawled' /\ Embedding'
  BY <1>1 DEF IngestInv, Mirrored, Crawled, Embedding
<1> QED BY <1>5, <1>6, <1>7 DEF IngestInv

LEMMA InsertChunkStep ==
    ASSUME IngestInv, InsertChunk
    PROVE  IngestInv'
<1> DEFINE stem == doc.stem
           h == Head(embedded)
           body == doc.texts[h]
           key == <<stem, h>>
<1>1. /\ ipc = "inserting" /\ embedded # <<>> /\ embedded' = Tail(embedded)
      /\ UNCHANGED <<ipc, todo, doc, documents, shorted>>
      /\ IF Known(key, body) THEN UNCHANGED <<hashes, chunks>>
         ELSE hashes' = Put(hashes, key, body) /\ chunks' = Put(chunks, key, body)
  BY DEF InsertChunk
<1>2. /\ stem \in DOMAIN documents /\ documents[stem] = doc.texts
      /\ embedded \in Seq(1..Len(doc.texts))
      /\ doc.texts \in Seq(STRING) /\ Len(doc.texts) \in Nat
      /\ hashes = chunks
  BY <1>1, PagesTyped, LenProperties DEF IngestInv, Crawled, Inserting, Mirrored
<1>3. /\ h \in 1..Len(doc.texts) /\ Tail(embedded) \in Seq(1..Len(doc.texts))
      /\ Len(Tail(embedded)) = Len(embedded) - 1 /\ Len(embedded) \in Nat
      /\ h = embedded[1] /\ \A j \in 1..Len(Tail(embedded)) : Tail(embedded)[j] = embedded[j + 1]
  <2>1. Len(embedded) \in Nat /\ h = embedded[1]
    BY <1>1, <1>2
  <2> QED BY <1>1, <1>2, <2>1, HeadTailProperties, ElementOfSeq
<1>4. /\ key \in DOMAIN chunks' /\ chunks'[key] = body
      /\ \A i, k : <<i, k>> # key =>
            /\ <<i, k>> \in DOMAIN chunks => <<i, k>> \in DOMAIN chunks'
            /\ <<i, k>> \in DOMAIN chunks => chunks'[<<i, k>>] = chunks[<<i, k>>]
  <2>1. CASE Known(key, body)
    BY <1>1, <1>2, <2>1 DEF Known
  <2>2. CASE ~Known(key, body)
    <3>1. chunks' = [x \in DOMAIN chunks \cup {key} |-> IF x = key THEN body ELSE chunks[x]]
      BY <1>1, <2>2 DEF Put
    <3>2. doc' = doc
      BY <1>1
    <3> HIDE DEF key
    <3>3. /\ DOMAIN chunks' = DOMAIN chunks \cup {key} /\ chunks'[key] = body
          /\ \A x \in DOMAIN chunks : x # key => chunks'[x] = chunks[x]
      BY <3>1
    <3> QED BY <3>3 DEF key
  <2> QED BY <2>1, <2>2
<1>5. Mirrored'
  BY <1>1, <1>2 DEF Mirrored
<1>6. Inserting'
  <2>1. ASSUME stem \notin shorted, NEW k \in 1..Len(doc.texts)
        PROVE  \/ <<stem, k>> \in DOMAIN chunks' /\ chunks'[<<stem, k>>] = doc.texts[k]
               \/ \E j \in 1..Len(Tail(embedded)) : Tail(embedded)[j] = k
    <3>1. CASE k = h
      BY <1>4, <3>1
    <3>2. CASE k # h
      <4>1. <<stem, k>> # key
        BY <3>2
      <4>2. CASE Held(stem, k, doc.texts[k])
        BY <1>1, <1>4, <4>1, <4>2 DEF Held
      <4>3. ASSUME NEW j \in 1..Len(embedded), embedded[j] = k
            PROVE  \E m \in 1..Len(Tail(embedded)) : Tail(embedded)[m] = k
        <5>1. j # 1
          BY <1>3, <3>2, <4>3
        <5>2. j - 1 \in 1..Len(Tail(embedded)) /\ (j - 1) + 1 = j
          BY <1>3, <5>1
        <5>3. Tail(embedded)[j - 1] = k
          BY <1>3, <4>3, <5>2
        <5> QED BY <5>2, <5>3
      <4> QED BY <1>1, <2>1, <4>2, <4>3 DEF IngestInv, Inserting
    <3> QED BY <3>1, <3>2
  <2> QED BY <1>1, <1>2, <1>3, <2>1 DEF Inserting, Held
<1>7. StoredIsWhole'
  <2> SUFFICES ASSUME NEW i \in DOMAIN documents, i # stem, i \notin shorted,
                      NEW k \in DOMAIN documents[i]
               PROVE  <<i, k>> \in DOMAIN chunks' /\ chunks'[<<i, k>>] = documents[i][k]
    BY <1>1 DEF StoredIsWhole
  <2>1. <<i, k>> \in DOMAIN chunks /\ chunks[<<i, k>>] = documents[i][k]
    BY DEF IngestInv, StoredIsWhole
  <2>2. <<i, k>> # key
    OBVIOUS
  <2> QED BY <1>4, <2>1, <2>2
<1>8. Crawled' /\ Embedding'
  BY <1>1 DEF IngestInv, Crawled, Embedding
<1> QED BY <1>5, <1>6, <1>7, <1>8 DEF IngestInv

\* The upsert ends when nothing is left to insert.
LEMMA UpsertEndsStep ==
    ASSUME IngestInv, UpsertEnds
    PROVE  IngestInv'
<1>1. /\ ipc = "inserting" /\ embedded = <<>> /\ ipc' = "next"
      /\ UNCHANGED <<todo, doc, documents, chunks, hashes, shorted>>
  BY DEF UpsertEnds, storeVars
<1>2. documents[doc.stem] = doc.texts /\ DOMAIN doc.texts = 1..Len(doc.texts)
  BY <1>1, PagesTyped, LenProperties DEF IngestInv, Crawled, Inserting
<1>3. doc.stem \notin shorted => \A k \in 1..Len(doc.texts) : Held(doc.stem, k, doc.texts[k])
  BY <1>1 DEF IngestInv, Inserting
<1>4. StoredIsWhole'
  <2> SUFFICES ASSUME NEW i \in DOMAIN documents, i \notin shorted, NEW k \in DOMAIN documents[i]
               PROVE  <<i, k>> \in DOMAIN chunks /\ chunks[<<i, k>>] = documents[i][k]
    BY <1>1 DEF StoredIsWhole
  <2>1. CASE i = doc.stem
    BY <1>2, <1>3, <2>1 DEF Held
  <2>2. CASE i # doc.stem
    BY <2>2 DEF IngestInv, StoredIsWhole
  <2> QED BY <2>1, <2>2
<1>5. Mirrored' /\ Crawled' /\ Embedding' /\ Inserting'
  BY <1>1 DEF IngestInv, Mirrored, Crawled, Embedding, Inserting
<1> QED BY <1>4, <1>5 DEF IngestInv

LEMMA IngestStep == IngestInv /\ [IngestNext]_ivars => IngestInv'
<1> SUFFICES ASSUME IngestInv, [IngestNext]_ivars PROVE IngestInv'
  OBVIOUS
<1>1. CASE UNCHANGED ivars
  BY <1>1 DEF ivars, storeVars, IngestInv, Mirrored, Crawled, Embedding, Inserting, StoredIsWhole, Held
<1>2. CASE IngestEnds
  <2>1. Crawled' /\ Embedding'
    BY <1>2 DEF IngestEnds, IngestInv, Crawled, Embedding
  <2> QED BY <1>2, <2>1, StoreUntouched DEF IngestEnds, IngestInv
<1>3. CASE IngestStops
  BY <1>1, <1>3 DEF IngestStops
<1> QED BY <1>1, <1>2, <1>3, CrawlStep, TakeStep, EmbedStep, InsertDocumentStep, InsertChunkStep,
           UpsertEndsStep DEF IngestNext

\* For any directory, batch size and number of runs, whichever of them broke
\* off: outside an upsert a stored document has exactly its present chunks,
\* unless the embedder left vectors out.
THEOREM DocumentsWhole == IngestSpec => []StoredIsWhole
<1>1. IngestInv => StoredIsWhole
  BY DEF IngestInv
<1> QED BY <1>1, IngestInitOK, IngestStep, PTL DEF IngestSpec

-----------------------------------------------------------------------------
(* RagEngine                                                               *)

\* f is the product of the denominators up to m.
IsProduct(f, m) ==
    f \in [0..m -> Nat \ {0}] /\ f[0] = 1 /\ \A i \in 1..m : f[i] = (RrfK + i) * f[i - 1]

LEMMA ProductExists == \E f : IsProduct(f, Pool)
<1> DEFINE without == {m \in Nat : ~\E f : IsProduct(f, m)}
<1>1. without = {}
  <2> SUFFICES ASSUME without # {} PROVE FALSE
    OBVIOUS
  <2>1. PICK m \in without : \A k \in without : m <= k
    <3>1. without \subseteq Nat
      OBVIOUS
    <3> HIDE DEF without
    <3> QED BY <3>1, LeastNatural
  <2>2. m \in Nat /\ ~\E f : IsProduct(f, m)
    OBVIOUS
  <2>3. CASE m = 0
    <3>1. IsProduct([i \in 0..0 |-> 1], 0)
      BY DEF IsProduct
    <3> QED BY <2>2, <2>3, <3>1
  <2>4. CASE m # 0
    <3>1. m - 1 \in Nat /\ m - 1 \notin without
      BY <2>1, <2>2, <2>4
    <3>2. PICK f : IsProduct(f, m - 1)
      BY <3>1
    <3> DEFINE g == [i \in 0..m |-> IF i = m THEN (RrfK + m) * f[m - 1] ELSE f[i]]
    <3>3. f \in [0..(m - 1) -> Nat \ {0}] /\ f[m - 1] \in Nat \ {0}
      BY <3>1, <3>2 DEF IsProduct
    <3>4. (RrfK + m) * f[m - 1] \in Nat \ {0}
      <4>1. \A a, b \in Nat \ {0} : a * b \in Nat \ {0}
        OBVIOUS
      <4>2. RrfK + m \in Nat \ {0}
        BY <2>2, <2>4, RetrievalAssumption
      <4> QED BY <3>3, <4>1, <4>2
    <3>5. \A i \in 0..(m - 1) : g[i] = f[i] /\ i \in 0..m
      BY <2>2
    <3>6. g \in [0..m -> Nat \ {0}]
      BY <2>2, <3>3, <3>4
    <3>7. \A i \in 1..m : g[i] = (RrfK + i) * g[i - 1]
      <4> TAKE i \in 1..m
      <4>1. i - 1 \in 0..(m - 1) /\ g[i - 1] = f[i - 1]
        BY <2>2, <3>5
      <4>2. CASE i = m
        BY <4>1, <4>2
      <4>3. CASE i # m
        <5>1. i \in 1..(m - 1) /\ i \in 0..(m - 1)
          BY <2>2, <4>3
        <5>2. f[i] = (RrfK + i) * f[i - 1]
          BY <3>2, <5>1 DEF IsProduct
        <5> QED BY <3>5, <4>1, <5>1, <5>2
      <4> QED BY <4>2, <4>3
    <3>8. g[0] = 1
      BY <2>2, <2>4, <3>1, <3>2, <3>5 DEF IsProduct
    <3>9. IsProduct(g, m)
      <4> HIDE DEF g
      <4> QED BY <3>6, <3>7, <3>8 DEF IsProduct
    <3> QED BY <2>2, <3>9
  <2> QED BY <2>3, <2>4
<1> QED BY <1>1, RetrievalAssumption

LEMMA ProductDefined ==
    \A n \in 0..Pool : Product[n] = IF n = 0 THEN 1 ELSE (RrfK + n) * Product[n - 1]
<1> DEFINE E(f) == [n \in 0..Pool |-> IF n = 0 THEN 1 ELSE (RrfK + n) * f[n - 1]]
<1>1. PICK f : IsProduct(f, Pool)
  BY ProductExists
<1>2. f = E(f)
  <2>1. f = [n \in 0..Pool |-> f[n]]
    BY <1>1 DEF IsProduct
  <2>2. \A n \in 0..Pool : f[n] = IF n = 0 THEN 1 ELSE (RrfK + n) * f[n - 1]
    <3> TAKE n \in 0..Pool
    <3>1. n # 0 => n \in 1..Pool
      BY RetrievalAssumption
    <3> QED BY <1>1, <3>1 DEF IsProduct
  <2> QED BY <2>1, <2>2
<1>3. Product = CHOOSE g : g = E(g)
  BY DEF Product
<1>4. Product = E(Product)
  <2> HIDE DEF E
  <2> QED BY <1>2, <1>3
<1> QED BY <1>4

LEMMA ProductType == \A n \in 0..Pool : Product[n] \in Nat \ {0}
<1> DEFINE bad == {n \in 0..Pool : Product[n] \notin Nat \ {0}}
<1> SUFFICES ASSUME bad # {} PROVE FALSE
  OBVIOUS
<1>1. PICK n \in bad : \A k \in bad : n <= k
  <2>1. bad \subseteq Nat
    BY RetrievalAssumption
  <2> HIDE DEF bad
  <2> QED BY <2>1, LeastNatural
<1>2. n \in 0..Pool /\ Product[n] \notin Nat \ {0}
  OBVIOUS
<1>3. n # 0
  BY <1>2, ProductDefined
<1>4. n - 1 \in 0..Pool /\ n - 1 \notin bad
  BY <1>1, <1>2, <1>3, RetrievalAssumption
<1>5. Product[n - 1] \in Nat \ {0}
  BY <1>4
<1>6. (RrfK + n) * Product[n - 1] \in Nat \ {0}
  <2>1. \A a, b \in Nat \ {0} : a * b \in Nat \ {0}
    OBVIOUS
  <2>2. RrfK + n \in Nat \ {0}
    BY <1>2, <1>3, RetrievalAssumption
  <2> QED BY <1>5, <2>1, <2>2
<1> QED BY <1>2, <1>3, <1>6, ProductDefined

\* Every denominator divides the product.
LEMMA UnitDivides ==
    ASSUME NEW k \in 1..Pool
    PROVE  \E u \in Nat \ {0} : Unit = (RrfK + k) * u
<1> DEFINE bad == {n \in k..Pool : ~\E u \in Nat \ {0} : Product[n] = (RrfK + k) * u}
<1>1. bad = {}
  <2> SUFFICES ASSUME bad # {} PROVE FALSE
    OBVIOUS
  <2>1. PICK n \in bad : \A m \in bad : n <= m
    <3>1. bad \subseteq Nat
      BY RetrievalAssumption
    <3> HIDE DEF bad
    <3> QED BY <3>1, LeastNatural
  <2>2. n \in k..Pool /\ ~\E u \in Nat \ {0} : Product[n] = (RrfK + k) * u
    OBVIOUS
  <2>3. n \in 1..Pool /\ n \in 0..Pool /\ n - 1 \in 0..Pool
    BY <2>2, RetrievalAssumption
  <2>4. Product[n] = (RrfK + n) * Product[n - 1] /\ Product[n - 1] \in Nat \ {0}
    BY <2>3, ProductDefined, ProductType
  <2>5. n # k
    BY <2>2, <2>4
  <2>6. n - 1 \in k..Pool /\ n - 1 \notin bad
    BY <2>1, <2>2, <2>3, <2>5, RetrievalAssumption
  <2>7. PICK u \in Nat \ {0} : Product[n - 1] = (RrfK + k) * u
    BY <2>6
  <2>8. /\ RrfK + n \in Nat \ {0} /\ RrfK + k \in Nat \ {0}
    BY <2>3, RetrievalAssumption
  <2>9. \A a, b, c \in Nat \ {0} : a * (b * c) = b * (a * c) /\ a * c \in Nat \ {0}
    OBVIOUS
  <2>10. Product[n] = (RrfK + k) * ((RrfK + n) * u) /\ (RrfK + n) * u \in Nat \ {0}
    BY <2>4, <2>7, <2>8, <2>9
  <2> QED BY <2>2, <2>10
<1>2. Pool \in k..Pool
  BY RetrievalAssumption
<1> QED BY <1>1, <1>2 DEF Unit

LEMMA Quotient == \A n, u \in Nat \ {0} : (n * u) \div n = u
  OBVIOUS

\* A better rank is worth more, and any rank more than none.
LEMMA RanksDecrease ==
    ASSUME NEW k \in 1..Pool
    PROVE  /\ Unit \div (RrfK + k) \in Nat \ {0}
           /\ \A m \in 1..Pool : k < m => Unit \div (RrfK + m) < Unit \div (RrfK + k)
<1>1. PICK u \in Nat \ {0} : Unit = (RrfK + k) * u
  BY UnitDivides
<1>2. RrfK + k \in Nat \ {0}
  BY RetrievalAssumption
<1>3. Unit \div (RrfK + k) = u
  BY <1>1, <1>2, Quotient
<1>4. ASSUME NEW m \in 1..Pool, k < m
      PROVE  Unit \div (RrfK + m) < Unit \div (RrfK + k)
  <2>1. PICK v \in Nat \ {0} : Unit = (RrfK + m) * v
    BY UnitDivides
  <2>2. RrfK + m \in Nat \ {0} /\ RrfK + k < RrfK + m
    BY <1>4, RetrievalAssumption
  <2>3. Unit \div (RrfK + m) = v
    BY <2>1, <2>2, Quotient
  <2>4. \A a, b, x, y \in Nat \ {0} : a < b /\ a * x = b * y => y < x
    <3> SUFFICES ASSUME NEW a \in Nat \ {0}, NEW b \in Nat \ {0}, NEW x \in Nat \ {0},
                        NEW y \in Nat \ {0}, a < b, x <= y
                 PROVE  a * x < b * y
      OBVIOUS
    <3>1. a * x <= a * y
      OBVIOUS
    <3>2. a * y < b * y
      OBVIOUS
    <3>3. a * x \in Nat /\ a * y \in Nat /\ b * y \in Nat
      OBVIOUS
    <3> QED BY <3>1, <3>2, <3>3
  <2> QED BY <1>1, <1>2, <1>3, <2>1, <2>2, <2>3, <2>4
<1> QED BY <1>3, <1>4

-----------------------------------------------------------------------------

\* A ranking: chunks without repetition, at most as many as the pool holds.
IsRanking(r) == r \in Seq(ChunkIds) /\ Len(r) <= Pool /\ IsInjective(r)
Rankings == IsRanking(dense) /\ IsRanking(sparse)
FusionInv ==
    /\ Rankings
    /\ query.matching \subseteq ChunkIds
    /\ ConsensusWins

LEMMA OrderIsRanking ==
    ASSUME NEW set \in SUBSET ChunkIds, NEW o \in Orders(set)
    PROVE  /\ o \in Seq(ChunkIds) /\ IsInjective(o)
           /\ \A c \in set : \E i \in 1..Len(o) : o[i] = c
<1> DEFINE n == Cardinality(set)
<1>1. IsFiniteSet(set)
  BY RetrievalAssumption, FS_Subset
<1>2. n \in Nat
  BY <1>1, FS_CardinalityType
<1>3. o \in [1..n -> set] /\ IsInjective(o)
  BY DEF Orders
<1>4. IsFiniteSet(1..n) /\ Cardinality(1..n) = n
  BY <1>2, FS_Interval
<1> HIDE DEF n
<1>5. Len(o) = n /\ o \in Seq(ChunkIds) /\ DOMAIN o = 1..n
  BY <1>2, <1>3
<1>6. o \in Injection(1..n, set)
  BY <1>3, <1>5, Fun_IsInj DEF IsInjective
<1>7. o \in Surjection(1..n, set)
  BY ONLY <1>1, <1>4, <1>6, FS_Injection DEF n
<1>8. \A c \in set : \E i \in 1..n : o[i] = c
  BY <1>7 DEF Surjection
<1> QED BY <1>3, <1>5, <1>8

LEMMA TruncateIsRanking ==
    ASSUME NEW s \in Seq(ChunkIds), IsInjective(s)
    PROVE  LET r == Truncate(s, Pool)
           IN  /\ IsRanking(r) /\ Len(r) = IF Pool <= Len(s) THEN Pool ELSE Len(s)
               /\ \A i \in 1..Len(r) : i \in 1..Len(s) /\ r[i] = s[i]
<1> DEFINE n == IF Pool <= Len(s) THEN Pool ELSE Len(s)
           r == SubSeq(s, 1, n)
<1>1. Pool \in Nat /\ Len(s) \in Nat /\ n \in 0..Len(s) /\ n <= Pool
  BY RetrievalAssumption
<1>2. Min({Pool, Len(s)}) = n
  BY <1>1, MinOfTwo
<1>3. Truncate(s, Pool) = r
  BY <1>2 DEF Truncate
<1>4. r \in Seq(ChunkIds) /\ Len(r) = n /\ \A i \in 1..n : r[i] = s[i] /\ i \in 1..Len(s)
  BY <1>1
<1>5. DOMAIN r = 1..n /\ DOMAIN s = 1..Len(s)
  BY <1>4
<1> HIDE DEF r, n
<1>6. IsInjective(r)
  BY <1>4, <1>5 DEF IsInjective
<1> QED BY <1>1, <1>3, <1>4, <1>6 DEF IsRanking, n

\* Where a chunk of a ranking stands.
LEMMA RankOf ==
    ASSUME NEW r, IsRanking(r), NEW i \in 1..Len(r), NEW x, x = r[i]
    PROVE  Contains(r, x) /\ Rank(r, x) = i /\ (CHOOSE k \in DOMAIN r : r[k] = x) = i
<1>1. DOMAIN r = 1..Len(r)
  BY DEF IsRanking
<1>2. Contains(r, x)
  BY DEF Contains
<1>3. \A k \in DOMAIN r : r[k] = x => k = i
  BY <1>1 DEF IsRanking, IsInjective
<1>4. (CHOOSE k \in DOMAIN r : r[k] = x) = i
  BY <1>1, <1>3
<1> QED BY <1>2, <1>4 DEF Rank

\* What a ranking adds to a chunk's score.
Part(r, c) ==
    IF Contains(r, c) THEN Unit \div (RrfK + CHOOSE k \in DOMAIN r : r[k] = c) ELSE 0

LEMMA BetterScoresMore ==
    ASSUME NEW r, IsRanking(r), NEW c, NEW d
    PROVE  /\ Part(r, c) \in Nat /\ Part(r, d) \in Nat
           /\ Rank(r, c) \in Nat /\ Rank(r, d) \in Nat
           /\ Rank(r, c) <= Rank(r, d) => Part(r, c) >= Part(r, d)
           /\ Rank(r, c) < Rank(r, d) => Part(r, c) > Part(r, d)
<1>1. Len(r) \in Nat /\ Len(r) <= Pool /\ Pool \in Nat
  BY RetrievalAssumption DEF IsRanking
<1>2. ASSUME NEW x
      PROVE  \/ /\ Contains(r, x) /\ Rank(r, x) \in 1..Len(r) /\ Rank(r, x) \in 1..Pool
                /\ Part(r, x) = Unit \div (RrfK + Rank(r, x)) /\ Part(r, x) \in Nat \ {0}
             \/ Rank(r, x) = Len(r) + 1 /\ Part(r, x) = 0
  <2>1. CASE Contains(r, x)
    <3>1. PICK i \in 1..Len(r) : x = r[i]
      BY <2>1 DEF Contains
    <3>2. Rank(r, x) = i /\ i \in 1..Pool
      BY <1>1, <3>1, RankOf
    <3>3. Part(r, x) = Unit \div (RrfK + i)
      <4>1. (CHOOSE k \in DOMAIN r : r[k] = x) = i
        BY <3>1, RankOf
      <4> QED BY <2>1, <4>1, Zenon DEF Part
    <3> QED BY <2>1, <3>2, <3>3, RanksDecrease
  <2>2. CASE ~Contains(r, x)
    BY <2>2 DEF Part, Rank
  <2> QED BY <2>1, <2>2
<1> DEFINE rc == Rank(r, c)
           rd == Rank(r, d)
           pc == Part(r, c)
           pd == Part(r, d)
<1>3. /\ \/ rc \in 1..Len(r) /\ rc \in 1..Pool /\ pc = Unit \div (RrfK + rc) /\ pc \in Nat \ {0}
         \/ rc = Len(r) + 1 /\ pc = 0
      /\ \/ rd \in 1..Len(r) /\ rd \in 1..Pool /\ pd = Unit \div (RrfK + rd) /\ pd \in Nat \ {0}
         \/ rd = Len(r) + 1 /\ pd = 0
  BY <1>2
<1> HIDE DEF rc, rd, pc, pd
<1>4. rc \in Nat /\ rd \in Nat /\ pc \in Nat /\ pd \in Nat
  BY <1>1, <1>3
<1>5. ASSUME rc < rd PROVE pc > pd
  <2>1. rc \in 1..Pool /\ pc = Unit \div (RrfK + rc) /\ pc \in Nat \ {0}
    BY <1>1, <1>3, <1>5
  <2>2. CASE rd \in 1..Pool /\ pd = Unit \div (RrfK + rd)
    <3>1. Unit \div (RrfK + rd) < Unit \div (RrfK + rc)
      BY <1>5, <2>1, <2>2, RanksDecrease
    <3> QED BY <1>4, <2>1, <2>2, <3>1
  <2>3. CASE pd = 0
    BY <2>1, <2>3
  <2> QED BY <1>3, <2>2, <2>3
<1>6. ASSUME rc = rd PROVE pc = pd
  BY <1>1, <1>3, <1>6
<1> QED BY <1>4, <1>5, <1>6 DEF rc, rd, pc, pd

LEMMA FuseStep == FusionInv /\ Fuse => ConsensusWins'
<1> SUFFICES ASSUME FusionInv, Fuse PROVE ConsensusWins'
  OBVIOUS
<1>0. dense' = dense /\ sparse' = sparse
  BY DEF Fuse
<1> SUFFICES ASSUME NEW c \in ToSet(dense) \cup ToSet(sparse), NEW d \in ToSet(ranked)',
                    Rank(dense, c) <= Rank(dense, d), Rank(sparse, c) <= Rank(sparse, d),
                    Rank(dense, c) < Rank(dense, d) \/ Rank(sparse, c) < Rank(sparse, d)
             PROVE  Contains(ranked', c) /\ Rank(ranked', c) < Rank(ranked', d)
  <2>1. \A x : Rank(dense, x)' = Rank(dense, x) /\ Rank(sparse, x)' = Rank(sparse, x)
    BY <1>0 DEF Rank, Contains
  <2>2. ToSet(dense)' = ToSet(dense) /\ ToSet(sparse)' = ToSet(sparse)
    BY <1>0 DEF ToSet
  <2>3. \A x : (Contains(ranked, x)' <=> Contains(ranked', x)) /\ Rank(ranked, x)' = Rank(ranked', x)
    BY DEF Contains, Rank
  <2> QED BY <2>1, <2>2, <2>3 DEF ConsensusWins
<1> DEFINE U == ToSet(dense) \cup ToSet(sparse)
<1>1. PICK o \in Orders(U) :
        /\ \A i, j \in DOMAIN o : i < j => Score(o[i]) >= Score(o[j])
        /\ ranked' = Truncate(o, Pool)
  BY DEF Fuse
<1>2. U \in SUBSET ChunkIds
  <2>1. \A r \in Seq(ChunkIds) : ToSet(r) \subseteq ChunkIds
    BY DEF ToSet
  <2> QED BY <2>1 DEF FusionInv, Rankings, IsRanking
<1> HIDE DEF U
<1>3. o \in Seq(ChunkIds) /\ IsInjective(o) /\ \A x \in U : \E i \in 1..Len(o) : o[i] = x
  BY <1>2, OrderIsRanking
<1>4. /\ IsRanking(ranked') /\ Len(ranked') = IF Pool <= Len(o) THEN Pool ELSE Len(o)
      /\ \A i \in 1..Len(ranked') : i \in 1..Len(o) /\ ranked'[i] = o[i]
  BY <1>1, <1>3, TruncateIsRanking
<1>5. PICK j \in 1..Len(ranked') : d = ranked'[j]
  BY <1>4 DEF ToSet, IsRanking
<1>6. PICK i \in 1..Len(o) : o[i] = c
  BY <1>3 DEF U
<1>7. Score(c) > Score(d)
  <2>1. Score(c) = Part(dense, c) + Part(sparse, c) /\ Score(d) = Part(dense, d) + Part(sparse, d)
    BY DEF Score, Part
  <2>2. IsRanking(dense) /\ IsRanking(sparse)
    BY DEF FusionInv, Rankings
  <2>3. /\ Part(dense, c) \in Nat /\ Part(dense, d) \in Nat /\ Part(dense, c) >= Part(dense, d)
        /\ Rank(dense, c) < Rank(dense, d) => Part(dense, c) > Part(dense, d)
    BY <2>2, BetterScoresMore
  <2>4. /\ Part(sparse, c) \in Nat /\ Part(sparse, d) \in Nat /\ Part(sparse, c) >= Part(sparse, d)
        /\ Rank(sparse, c) < Rank(sparse, d) => Part(sparse, c) > Part(sparse, d)
    BY <2>2, BetterScoresMore
  <2> QED BY <2>1, <2>3, <2>4
<1>8. i < j
  <2>1. DOMAIN o = 1..Len(o) /\ j \in 1..Len(o) /\ o[j] = d /\ i \in Nat /\ j \in Nat
    BY <1>3, <1>4, <1>5
  <2>2. Score(c) \in Int /\ Score(d) \in Int
    <3>1. IsRanking(dense) /\ IsRanking(sparse)
      BY DEF FusionInv, Rankings
    <3>2. \A x : Score(x) = Part(dense, x) + Part(sparse, x) /\ Part(dense, x) \in Nat /\ Part(sparse, x) \in Nat
      BY <3>1, BetterScoresMore DEF Score, Part
    <3> QED BY <3>2
  <2>3. ~(j < i)
    BY <1>1, <1>6, <1>7, <2>1, <2>2
  <2>4. i # j
    BY <1>6, <1>7, <2>1, <2>2
  <2> QED BY <2>1, <2>3, <2>4
<1>9. i \in 1..Len(ranked') /\ c = ranked'[i]
  <2>1. i \in 1..Len(ranked')
    BY <1>5, <1>6, <1>8
  <2> QED BY <1>4, <1>6, <2>1
<1>10. Rank(ranked', c) = i /\ Contains(ranked', c) /\ Rank(ranked', d) = j
  BY <1>4, <1>5, <1>9, RankOf
<1> QED BY <1>8, <1>10

\* For any rankings and any pool, what both rankings prefer comes first
\* (rag/lib.rs:291-322).
THEOREM ConsensusAlwaysWins == RetrievalSpec => []ConsensusWins
<1>1. RetrievalInit => FusionInv
  <2> SUFFICES ASSUME RetrievalInit PROVE FusionInv
    OBVIOUS
  <2>1. IsRanking(<<>>)
    BY RetrievalAssumption DEF IsRanking, IsInjective
  <2> QED BY <2>1 DEF RetrievalInit, FusionInv, Rankings, ConsensusWins
<1>2. FusionInv /\ [RetrievalNext]_qvars => FusionInv'
  <2> SUFFICES ASSUME FusionInv, [RetrievalNext]_qvars PROVE FusionInv'
    OBVIOUS
  <2>1. CASE UNCHANGED qvars
    <3>1. UNCHANGED <<qpc, query, dense, sparse, ranked>>
      BY <2>1 DEF qvars
    <3>2. Rankings' /\ query'.matching \subseteq ChunkIds
      BY <3>1 DEF FusionInv, Rankings
    <3>3. ConsensusWins'
      <4>1. /\ ToSet(dense)' = ToSet(dense) /\ ToSet(sparse)' = ToSet(sparse)
            /\ ToSet(ranked)' = ToSet(ranked)
        BY <3>1 DEF ToSet
      <4>2. \A x : /\ Rank(dense, x)' = Rank(dense, x) /\ Rank(sparse, x)' = Rank(sparse, x)
                   /\ Rank(ranked, x)' = Rank(ranked, x)
                   /\ (Contains(ranked, x)' <=> Contains(ranked, x))
        BY <3>1 DEF Rank, Contains
      <4> QED BY <3>1, <4>1, <4>2 DEF FusionInv, ConsensusWins
    <3> QED BY <3>2, <3>3 DEF FusionInv
  <2>2. CASE Search
    <3>1. PICK d \in Orders(IF query.embedding THEN Embedded ELSE {}), s \in Orders(query.matching) :
             dense' = Truncate(d, Pool) /\ sparse' = Truncate(s, Pool)
      BY <2>2 DEF Search
    <3>2. (IF query.embedding THEN Embedded ELSE {}) \in SUBSET ChunkIds /\ query.matching \in SUBSET ChunkIds
      BY RetrievalAssumption DEF FusionInv
    <3>3. d \in Seq(ChunkIds) /\ IsInjective(d) /\ s \in Seq(ChunkIds) /\ IsInjective(s)
      BY <3>2, OrderIsRanking
    <3>4. Rankings'
      BY <3>1, <3>3, TruncateIsRanking DEF Rankings
    <3>5. query' = query /\ qpc' = "fuse"
      BY <2>2 DEF Search
    <3> QED BY <3>4, <3>5 DEF FusionInv, ConsensusWins
  <2>3. CASE Fuse
    <3>1. query' = query /\ dense' = dense /\ sparse' = sparse
      BY <2>3 DEF Fuse
    <3>2. ConsensusWins'
      BY <2>3, FuseStep
    <3> QED BY <3>1, <3>2 DEF FusionInv, Rankings
  <2>4. CASE Rerank
    BY <2>4 DEF Rerank, FusionInv, Rankings, ConsensusWins
  <2>5. CASE Pack
    BY <2>5 DEF Pack, FusionInv, Rankings, ConsensusWins
  <2> QED BY <2>1, <2>2, <2>3, <2>4, <2>5 DEF RetrievalNext, RetrievalDone
<1>3. FusionInv => ConsensusWins
  BY DEF FusionInv
<1> QED BY <1>1, <1>2, <1>3, PTL DEF RetrievalSpec

-----------------------------------------------------------------------------
(* Schedule::next_in                                                       *)

LEMMA Remainder ==
    ASSUME NEW n \in Nat \ {0}, NEW a \in Nat
    PROVE  /\ a \div n \in Nat /\ a % n \in 0..(n - 1)
           /\ a = n * (a \div n) + (a % n)
<1>1. a % n \in 0..(n - 1)
  OBVIOUS
<1>2. a = n * (a \div n) + (a % n)
  OBVIOUS
<1>3. a \div n \in Int
  OBVIOUS
<1>4. a \div n >= 0
  OBVIOUS
<1> QED BY <1>1, <1>2, <1>3, <1>4

\* Quotient and remainder are unique.
LEMMA RemainderUnique ==
    ASSUME NEW n \in Nat \ {0}, NEW q \in Nat, NEW r \in 0..(n - 1)
    PROVE  (n * q + r) \div n = q /\ (n * q + r) % n = r
<1> DEFINE a == n * q + r
           p == a \div n
           s == a % n
<1>1. a \in Nat
  <2>1. \A x, y \in Nat : x * y \in Nat
    OBVIOUS
  <2> QED BY <2>1
<1>2. p \in Nat /\ s \in 0..(n - 1) /\ a = n * p + s
  <2> HIDE DEF a
  <2> QED BY <1>1, Remainder
<1>3. \A x, y \in Nat : x < y => n * x + n <= n * y
  <2> TAKE x \in Nat, y \in Nat
  <2> HAVE x < y
  <2>1. PICK k \in Nat : y = x + 1 + k
    <3>1. y - x - 1 \in Nat /\ y = x + 1 + (y - x - 1)
      OBVIOUS
    <3> QED BY <3>1
  <2>2. n * (x + 1 + k) = n * x + n + n * k /\ n * k \in Nat /\ n * x \in Nat
    OBVIOUS
  <2> QED BY <2>1, <2>2
<1>4. n * p \in Nat /\ n * q \in Nat
  BY <1>2
<1>5. n * p + s = n * q + r
  BY <1>2
<1> HIDE DEF a, p, s
<1>6. ~(p < q)
  BY <1>2, <1>3, <1>4, <1>5
<1>7. ~(q < p)
  BY <1>2, <1>3, <1>4, <1>5
<1>8. p = q
  BY <1>2, <1>6, <1>7
<1>9. s = r
  BY <1>2, <1>4, <1>5, <1>8
<1> QED BY <1>8, <1>9 DEF p, s, a

\* The wait leads to the next number with the remainder wanted.
LEMMA Aligned ==
    ASSUME NEW n \in Nat \ {0}, NEW a \in Nat, NEW t \in 0..(n - 1)
    PROVE  LET d == NextAligned(a % n, t, n) IN d \in 1..n /\ (a + d) % n = t
<1> DEFINE q == a \div n
           r == a % n
           d == NextAligned(r, t, n)
<1>1. q \in Nat /\ r \in 0..(n - 1) /\ a = n * q + r /\ n * q \in Nat
  <2>1. q \in Nat /\ r \in 0..(n - 1) /\ a = n * q + r
    BY Remainder
  <2> HIDE DEF q, r
  <2> QED BY <2>1
<1> HIDE DEF q, r
<1>2. CASE r < t
  <2>1. d = t - r /\ d \in 1..n /\ a + d = n * q + t
    BY <1>1, <1>2 DEF NextAligned
  <2>2. (n * q + t) % n = t
    BY <1>1, RemainderUnique
  <2> QED BY <2>1, <2>2 DEF r
<1>3. CASE ~(r < t)
  <2>1. d = n - (r - t) /\ d \in 1..n
    BY <1>1, <1>3 DEF NextAligned
  <2>2. n * (q + 1) = n * q + n
    BY <1>1
  <2>3. a + d = n * (q + 1) + t
    BY <1>1, <2>1, <2>2
  <2>4. (n * (q + 1) + t) % n = t
    BY <1>1, RemainderUnique
  <2> QED BY <2>1, <2>3, <2>4 DEF r
<1> QED BY <1>2, <1>3

LEMMA WholeUnits ==
    ASSUME NEW n \in Nat \ {0}, NEW a \in Nat, NEW d \in Nat
    PROVE  (a + d * n) \div n = (a \div n) + d
<1> DEFINE q == a \div n
           r == a % n
<1>1. q \in Nat /\ r \in 0..(n - 1) /\ a = n * q + r
  BY Remainder
<1> HIDE DEF q, r
<1>2. n * (q + d) = n * q + d * n /\ n * q \in Nat /\ d * n \in Nat
  BY <1>1
<1>3. a + d * n = n * (q + d) + r
  BY <1>1, <1>2
<1>4. (n * (q + d) + r) \div n = q + d
  BY <1>1, RemainderUnique
<1> QED BY <1>3, <1>4 DEF q

LEMMA UnitsPositive == SecsPerMinute \in Nat \ {0} /\ Hour \in Nat \ {0} /\ Day \in Nat \ {0}
<1>1. \A a, b \in Nat \ {0} : a * b \in Nat \ {0}
  OBVIOUS
<1>2. SecsPerMinute \in Nat \ {0} /\ MinutesPerHour \in Nat \ {0} /\ HoursPerDay \in Nat \ {0}
  BY SchedulerAssumption
<1>3. Hour \in Nat \ {0}
  BY <1>1, <1>2 DEF Hour
<1> QED BY <1>1, <1>2, <1>3 DEF Day

LEMMA HourlyOnTime ==
    ASSUME NEW s \in Cadences, s.kind = "hourly", clock \in Nat
    PROVE  /\ NextHourly(s) \in 1..Hour
           /\ ((clock + NextHourly(s)) \div SecsPerMinute) % MinutesPerHour = s.minute
<1> DEFINE P == SecsPerMinute
           M == MinutesPerHour
           m == clock \div P
           d == NextAligned(m % M, s.minute, M)
<1>1. P \in Nat \ {0} /\ M \in Nat \ {0} /\ s.minute \in 0..(M - 1)
  BY SchedulerAssumption
<1>2. Min({s.minute, M - 1}) = s.minute
  BY <1>1, MinOfTwo
<1>3. NextHourly(s) = d * P
  BY <1>2 DEF NextHourly
<1>4. m \in Nat
  BY <1>1, Remainder
<1> HIDE DEF m
<1>5. d \in 1..M /\ (m + d) % M = s.minute
  BY <1>1, <1>4, Aligned
<1> HIDE DEF d
<1>6. (clock + d * P) \div P = m + d
  <2>1. d \in Nat
    BY <1>1, <1>5
  <2> QED BY <1>1, <2>1, WholeUnits DEF m
<1>7. d * P \in 1..(M * P)
  <2>1. \A x, y, z \in Nat \ {0} : x <= y => x * z <= y * z /\ x * z \in Nat \ {0} /\ y * z \in Nat
    OBVIOUS
  <2>2. d \in Nat \ {0} /\ d <= M
    BY <1>1, <1>5
  <2>3. d * P <= M * P /\ d * P \in Nat \ {0} /\ M * P \in Nat
    BY <1>1, <2>1, <2>2
  <2> HIDE DEF P, M
  <2> QED BY <2>3
<1> QED BY <1>3, <1>5, <1>6, <1>7 DEF Hour

LEMMA DailyOnTime ==
    ASSUME NEW s \in Cadences, s.kind = "daily", clock \in Nat
    PROVE  NextDaily(s) \in 1..Day /\ (clock + NextDaily(s)) % Day = TimeOfDay(s)
<1>1. s.hour * Hour + s.minute * SecsPerMinute \in Nat
  <2>1. \A x, y \in Nat : x * y \in Nat
    OBVIOUS
  <2>2. s.hour \in Nat /\ s.minute \in Nat
    BY SchedulerAssumption
  <2> QED BY <2>1, <2>2, UnitsPositive
<1>2. TimeOfDay(s) \in 0..(Day - 1)
  BY <1>1, UnitsPositive, Remainder DEF TimeOfDay
<1> QED BY <1>2, UnitsPositive, Aligned DEF NextDaily, SecondOfDay

\* next_in waits until the next minute of the hour, or the next time of the
\* UTC day, that an hourly or daily schedule names, at any time and for any
\* units of time (scheduler/lib.rs:69-84).
THEOREM CalendarIsKept == SchedulerSpec => []CalendarOnTime
<1> DEFINE Inv == clock \in Nat /\ cadence \in Cadences
<1>1. SchedulerInit => Inv
  BY DEF SchedulerInit
<1>2. Inv /\ [SchedulerNext]_svars => Inv'
  BY DEF SchedulerNext, ClockAdvances, ClockEnds, svars
<1>3. Inv => CalendarOnTime
  <2> SUFFICES ASSUME clock \in Nat, cadence \in Cadences, cadence.kind \in {"hourly", "daily"}
               PROVE  OnTime(cadence)
    BY DEF CalendarOnTime
  <2> DEFINE s == cadence
  <2>1. CASE s.kind = "hourly"
    <3>1. NextIn(s) = NextHourly(s) /\ Period(s) = Hour
      BY <2>1 DEF NextIn, Period
    <3> QED BY <2>1, <3>1, HourlyOnTime DEF OnTime, Due
  <2>2. CASE s.kind = "daily"
    <3>1. NextIn(s) = NextDaily(s) /\ Period(s) = Day
      BY <2>2 DEF NextIn, Period
    <3> QED BY <2>2, <3>1, DailyOnTime DEF OnTime, Due
  <2> QED BY <2>1, <2>2
<1> QED BY <1>1, <1>2, <1>3, PTL DEF SchedulerSpec

-----------------------------------------------------------------------------
(* Working and episodic memory                                             *)

\* The ring holds the latest turns.
RingIsLatest ==
    /\ turns \in Nat
    /\ ring \in Seq(Nat)
    /\ Len(ring) = IF turns <= Cap THEN turns ELSE Cap
    /\ \A i \in 1..Len(ring) : ring[i] = turns - Len(ring) + i

MemoryTyped ==
    /\ entries \in Seq(Recorders)
    /\ byTag \in [Tags -> Seq(Nat)]
    /\ rpc \in [Recorders -> {"idle", "pushed", "recorded"}]
    /\ ridx \in [Recorders -> Nat]

\* A recorder knows its own entry, whatever was pushed since.
OwnEntry ==
    \A r \in Recorders : rpc[r] # "idle" => ridx[r] \in 1..Len(entries) /\ entries[ridx[r]] = r

\* A tag's index has each finished episode of the tag, once, and no other.
Indexed(t, r) == rpc[r] = "recorded" /\ t \in Episode[r].tags
IndexExact ==
    \A t \in Tags :
      /\ \A k \in 1..Len(byTag[t]) : \E r \in Recorders : Indexed(t, r) /\ byTag[t][k] = ridx[r]
      /\ \A r \in Recorders : Indexed(t, r) => \E k \in 1..Len(byTag[t]) : byTag[t][k] = ridx[r]
      /\ \A k, m \in 1..Len(byTag[t]) : byTag[t][k] = byTag[t][m] => k = m

MemoryInv == RingIsLatest /\ MemoryTyped /\ OwnEntry /\ IndexExact

LEMMA MemoryInitOK == MemoryInit => MemoryInv
<1> SUFFICES ASSUME MemoryInit PROVE MemoryInv
  OBVIOUS
<1>1. RingIsLatest
  BY MemoryAssumption DEF MemoryInit, RingIsLatest
<1>2. MemoryTyped
  BY DEF MemoryInit, MemoryTyped
<1>3. OwnEntry /\ IndexExact
  BY DEF MemoryInit, OwnEntry, IndexExact, Indexed
<1> QED BY <1>1, <1>2, <1>3 DEF MemoryInv

LEMMA EpisodesUntouched ==
    MemoryTyped /\ OwnEntry /\ IndexExact /\ UNCHANGED episodicVars
      => (MemoryTyped /\ OwnEntry /\ IndexExact)'
  BY DEF episodicVars, MemoryTyped, OwnEntry, IndexExact, Indexed

LEMMA TurnStep == RingIsLatest /\ AppendTurn => RingIsLatest'
<1> SUFFICES ASSUME RingIsLatest, AppendTurn PROVE RingIsLatest'
  OBVIOUS
<1> DEFINE kept == IF Len(ring) = Cap THEN Tail(ring) ELSE ring
<1>1. turns' = turns + 1 /\ ring' = Append(kept, turns + 1) /\ Cap \in Nat \ {0} /\ Len(ring) \in Nat
  BY MemoryAssumption DEF AppendTurn, RingIsLatest
<1>2. /\ kept \in Seq(Nat) /\ Len(kept) = (IF turns < Cap THEN turns ELSE Cap - 1)
      /\ \A i \in 1..Len(kept) : kept[i] = turns - Len(kept) + i
  <2>1. CASE Len(ring) = Cap
    <3>1. ring # <<>> /\ turns >= Cap
      BY <1>1, <2>1 DEF RingIsLatest
    <3>2. /\ kept = Tail(ring) /\ kept \in Seq(Nat) /\ Len(kept) = Len(ring) - 1
          /\ \A i \in 1..Len(kept) : kept[i] = ring[i + 1]
      BY <2>1, <3>1 DEF RingIsLatest
    <3> HIDE DEF kept
    <3>3. \A i \in 1..Len(kept) : i + 1 \in 1..Len(ring)
      BY <1>1, <3>2
    <3>4. \A i \in 1..Len(kept) : kept[i] = turns - Len(kept) + i
      <4> TAKE i \in 1..Len(kept)
      <4>1. kept[i] = turns - Len(ring) + (i + 1)
        BY <3>2, <3>3 DEF RingIsLatest
      <4>2. turns \in Nat /\ i \in Nat /\ Len(kept) = Len(ring) - 1
        BY <1>1, <3>2 DEF RingIsLatest
      <4> QED BY <1>1, <4>1, <4>2
    <3> QED BY <1>1, <2>1, <3>1, <3>2, <3>4 DEF RingIsLatest
  <2>2. CASE Len(ring) # Cap
    BY <1>1, <2>2 DEF RingIsLatest
  <2> QED BY <2>1, <2>2
<1> HIDE DEF kept
<1>3. /\ ring' \in Seq(Nat) /\ Len(ring') = Len(kept) + 1 /\ Len(kept) \in Nat
      /\ \A i \in 1..Len(kept) : ring'[i] = kept[i]
      /\ ring'[Len(kept) + 1] = turns + 1
  BY <1>1, <1>2, AppendProperties DEF RingIsLatest
<1>4. \A i \in 1..Len(ring') : ring'[i] = turns' - Len(ring') + i
  <2> TAKE i \in 1..Len(ring')
  <2>1. CASE i \in 1..Len(kept)
    <3>1. ring'[i] = turns - Len(kept) + i
      BY <1>2, <1>3, <2>1
    <3>2. turns \in Nat /\ i \in Nat
      BY <1>3, <2>1 DEF RingIsLatest
    <3> QED BY <1>1, <1>3, <3>1, <3>2
  <2>2. CASE i = Len(kept) + 1
    BY <1>1, <1>3, <2>2 DEF RingIsLatest
  <2> QED BY <1>3, <2>1, <2>2
<1>5. Len(ring') = IF turns' <= Cap THEN turns' ELSE Cap
  BY <1>1, <1>2, <1>3 DEF RingIsLatest
<1>6. turns' \in Nat
  BY <1>1 DEF RingIsLatest
<1> QED BY <1>3, <1>4, <1>5, <1>6 DEF RingIsLatest

LEMMA PushStep ==
    ASSUME MemoryTyped, OwnEntry, IndexExact, NEW r \in Recorders, PushEntry(r)
    PROVE  (MemoryTyped /\ OwnEntry /\ IndexExact)'
<1>1. /\ rpc[r] = "idle" /\ rpc' = [rpc EXCEPT ![r] = "pushed"]
      /\ entries' = Append(entries, r) /\ ridx' = [ridx EXCEPT ![r] = Len(entries')]
      /\ byTag' = byTag
  BY DEF PushEntry
<1>2. /\ entries' \in Seq(Recorders) /\ Len(entries') = Len(entries) + 1 /\ Len(entries) \in Nat
      /\ \A i \in 1..Len(entries) : entries'[i] = entries[i]
      /\ entries'[Len(entries')] = r
  BY <1>1, AppendProperties DEF MemoryTyped
<1>3. MemoryTyped'
  <2>1. rpc' \in [Recorders -> {"idle", "pushed", "recorded"}]
    BY <1>1 DEF MemoryTyped
  <2>2. ridx' \in [Recorders -> Nat]
    BY <1>1, <1>2 DEF MemoryTyped
  <2> QED BY <1>1, <1>2, <2>1, <2>2 DEF MemoryTyped
<1>4. \A q \in Recorders : q # r => rpc'[q] = rpc[q] /\ ridx'[q] = ridx[q]
  BY <1>1 DEF MemoryTyped
<1>5. rpc'[r] = "pushed" /\ ridx'[r] = Len(entries')
  BY <1>1 DEF MemoryTyped
<1>6. OwnEntry'
  <2> SUFFICES ASSUME NEW q \in Recorders, rpc'[q] # "idle"
               PROVE  ridx'[q] \in 1..Len(entries') /\ entries'[ridx'[q]] = q
    BY DEF OwnEntry
  <2>1. CASE q = r
    BY <1>2, <1>5, <2>1
  <2>2. CASE q # r
    <3>1. ridx'[q] = ridx[q] /\ ridx[q] \in 1..Len(entries) /\ entries[ridx[q]] = q
      BY <1>4, <2>2 DEF OwnEntry
    <3> QED BY <1>2, <3>1
  <2> QED BY <2>1, <2>2
<1>7. \A t, q : q \in Recorders => (Indexed(t, q)' <=> Indexed(t, q)) /\ (Indexed(t, q) => q # r)
  BY <1>1, <1>4, <1>5 DEF Indexed
<1>8. IndexExact'
  <2> SUFFICES ASSUME NEW t \in Tags
               PROVE  /\ \A k \in 1..Len(byTag[t]) : \E q \in Recorders : Indexed(t, q)' /\ byTag[t][k] = ridx'[q]
                      /\ \A q \in Recorders : Indexed(t, q)' => \E k \in 1..Len(byTag[t]) : byTag[t][k] = ridx'[q]
                      /\ \A k, m \in 1..Len(byTag[t]) : byTag[t][k] = byTag[t][m] => k = m
    BY <1>1 DEF IndexExact
  <2>1. /\ \A k \in 1..Len(byTag[t]) : \E q \in Recorders : Indexed(t, q) /\ byTag[t][k] = ridx[q]
        /\ \A q \in Recorders : Indexed(t, q) => \E k \in 1..Len(byTag[t]) : byTag[t][k] = ridx[q]
        /\ \A k, m \in 1..Len(byTag[t]) : byTag[t][k] = byTag[t][m] => k = m
    BY DEF IndexExact
  <2> QED BY <1>4, <1>7, <2>1
<1> QED BY <1>3, <1>6, <1>8

LEMMA IndexStep ==
    ASSUME MemoryTyped, OwnEntry, IndexExact, NEW r \in Recorders, IndexTags(r)
    PROVE  (MemoryTyped /\ OwnEntry /\ IndexExact)'
<1>1. /\ rpc[r] = "pushed" /\ rpc' = [rpc EXCEPT ![r] = "recorded"]
      /\ byTag' = [t \in Tags |-> IF t \in Episode[r].tags THEN Append(byTag[t], ridx[r]) ELSE byTag[t]]
      /\ entries' = entries /\ ridx' = ridx
  BY DEF IndexTags
<1>2. rpc'[r] = "recorded" /\ \A q \in Recorders : q # r => rpc'[q] = rpc[q]
  BY <1>1 DEF MemoryTyped
<1>3. ridx[r] \in Nat /\ \A t \in Tags : byTag[t] \in Seq(Nat) /\ Len(byTag[t]) \in Nat
  BY DEF MemoryTyped
<1>4. MemoryTyped'
  <2>1. rpc' \in [Recorders -> {"idle", "pushed", "recorded"}]
    BY <1>1 DEF MemoryTyped
  <2>2. \A t \in Tags : Append(byTag[t], ridx[r]) \in Seq(Nat)
    BY <1>3
  <2>3. byTag' \in [Tags -> Seq(Nat)]
    BY <1>1, <1>3, <2>2
  <2> QED BY <1>1, <2>1, <2>3 DEF MemoryTyped
<1>5. OwnEntry'
  BY <1>1, <1>2 DEF OwnEntry
<1>6. \A t, q : q \in Recorders /\ q # r => (Indexed(t, q)' <=> Indexed(t, q))
  BY <1>2 DEF Indexed
<1>7. \A t : (Indexed(t, r)' <=> t \in Episode[r].tags) /\ ~Indexed(t, r)
  BY <1>1, <1>2 DEF Indexed
<1>8. \A q \in Recorders, t \in Tags : Indexed(t, q) => q # r /\ ridx[q] # ridx[r]
  BY <1>1, <1>7 DEF OwnEntry, Indexed
<1>9. IndexExact'
  <2> SUFFICES ASSUME NEW t \in Tags
               PROVE  /\ \A k \in 1..Len(byTag'[t]) : \E q \in Recorders : Indexed(t, q)' /\ byTag'[t][k] = ridx[q]
                      /\ \A q \in Recorders : Indexed(t, q)' => \E k \in 1..Len(byTag'[t]) : byTag'[t][k] = ridx[q]
                      /\ \A k, m \in 1..Len(byTag'[t]) : byTag'[t][k] = byTag'[t][m] => k = m
    <3>1. ridx' = ridx
      BY <1>1
    <3> QED BY <3>1 DEF IndexExact
  <2>1. /\ \A k \in 1..Len(byTag[t]) : \E q \in Recorders : Indexed(t, q) /\ byTag[t][k] = ridx[q]
        /\ \A q \in Recorders : Indexed(t, q) => \E k \in 1..Len(byTag[t]) : byTag[t][k] = ridx[q]
        /\ \A k, m \in 1..Len(byTag[t]) : byTag[t][k] = byTag[t][m] => k = m
    BY DEF IndexExact
  <2>2. CASE t \notin Episode[r].tags
    <3>1. byTag'[t] = byTag[t]
      BY <1>1, <2>2
    <3>2. \A q \in Recorders : Indexed(t, q)' <=> Indexed(t, q)
      BY <1>6, <1>7, <2>2
    <3> QED BY <2>1, <3>1, <3>2
  <2>3. CASE t \in Episode[r].tags
    <3> DEFINE n == Len(byTag[t])
    <3>1. byTag'[t] = Append(byTag[t], ridx[r])
      BY <1>1, <2>3
    <3>2. /\ Len(byTag'[t]) = n + 1 /\ n \in Nat
          /\ \A k \in 1..n : byTag'[t][k] = byTag[t][k]
          /\ byTag'[t][n + 1] = ridx[r]
      BY <1>3, <3>1, AppendProperties
    <3>3. \A k \in 1..(n + 1) : k \in 1..n \/ k = n + 1
      BY <3>2
    <3>4. 1..n \subseteq 1..(n + 1) /\ n + 1 \in 1..(n + 1)
      BY <3>2
    <3>5. Indexed(t, r)'
      BY <1>7, <2>3
    <3>6. \A k \in 1..n : byTag[t][k] # ridx[r]
      BY <1>8, <2>1
    <3> HIDE DEF n
    <3>7. \A k \in 1..(n + 1) : \E q \in Recorders : Indexed(t, q)' /\ byTag'[t][k] = ridx[q]
      <4> TAKE k \in 1..(n + 1)
      <4>1. CASE k = n + 1
        BY <3>2, <3>5, <4>1
      <4>2. CASE k \in 1..n
        <5>1. PICK q \in Recorders : Indexed(t, q) /\ byTag[t][k] = ridx[q]
          BY <2>1, <4>2 DEF n
        <5>2. Indexed(t, q)' /\ byTag'[t][k] = ridx[q]
          BY <1>6, <1>8, <3>2, <4>2, <5>1
        <5> QED BY <5>2
      <4> QED BY <3>3, <4>1, <4>2
    <3>8. ASSUME NEW q \in Recorders, Indexed(t, q)'
          PROVE  \E k \in 1..(n + 1) : byTag'[t][k] = ridx[q]
      <4>1. CASE q = r
        BY <3>2, <3>4, <4>1
      <4>2. CASE q # r
        <5>1. PICK k \in 1..n : byTag[t][k] = ridx[q]
          BY <1>6, <2>1, <3>8, <4>2 DEF n
        <5> QED BY <3>2, <3>4, <5>1
      <4> QED BY <4>1, <4>2
    <3>9. \A k, m \in 1..(n + 1) : byTag'[t][k] = byTag'[t][m] => k = m
      <4> TAKE k, m \in 1..(n + 1)
      <4>1. CASE k \in 1..n /\ m \in 1..n
        BY <2>1, <3>2, <4>1 DEF n
      <4>2. CASE k = n + 1 \/ m = n + 1
        BY <3>2, <3>3, <3>6, <4>2
      <4> QED BY <3>3, <4>1, <4>2
    <3> QED BY <3>2, <3>7, <3>8, <3>9
  <2> QED BY <2>2, <2>3
<1> QED BY <1>4, <1>5, <1>9

LEMMA MemoryStep == MemoryInv /\ [MemoryNext]_mvars => MemoryInv'
<1> SUFFICES ASSUME MemoryInv, [MemoryNext]_mvars PROVE MemoryInv'
  OBVIOUS
<1> USE DEF MemoryInv
<1>1. CASE UNCHANGED mvars
  BY <1>1, EpisodesUntouched DEF mvars, workingVars, RingIsLatest
<1>2. CASE AppendTurn
  <2>1. UNCHANGED episodicVars
    BY <1>2 DEF AppendTurn
  <2> QED BY <1>2, <2>1, TurnStep, EpisodesUntouched
<1>3. CASE ClearSession
  <2>1. UNCHANGED episodicVars /\ RingIsLatest'
    BY <1>3, MemoryAssumption DEF ClearSession, RingIsLatest
  <2> QED BY <2>1, EpisodesUntouched
<1>4. ASSUME NEW r \in Recorders, PushEntry(r) \/ IndexTags(r)
      PROVE  MemoryInv'
  <2>1. UNCHANGED workingVars
    BY <1>4 DEF PushEntry, IndexTags
  <2>2. RingIsLatest'
    BY <2>1 DEF workingVars, RingIsLatest
  <2> QED BY <1>4, <2>2, PushStep, IndexStep
<1> QED BY <1>1, <1>2, <1>3, <1>4 DEF MemoryNext

\* The k-th of a set of numbers, and no other, has k up to it.
LEMMA NthOf ==
    ASSUME NEW n \in Nat, NEW S, S \subseteq 1..n, NEW k \in 1..Cardinality(S)
    PROVE  Nth(S, k) \in S /\ Cardinality(UpTo(S, Nth(S, k))) = k
<1>1. \E i \in S : Cardinality(UpTo(S, i)) = k
  BY KthExists
<1>2. Nth(S, k) = CHOOSE i \in S : Cardinality(UpTo(S, i)) = k
  BY DEF Nth, UpTo
<1> QED BY <1>1, <1>2

Mine(tag, tenant) ==
    {r \in Recorders : /\ rpc[r] = "recorded"
                       /\ tag \in Episode[r].tags
                       /\ MaySee(tenant, Episode[r].tenant)}

\* The visible places of an index are those of the episodes to be found.
LEMMA VisibleIsMine ==
    ASSUME MemoryInv, NEW tag \in Tags, NEW tenant
    PROVE  LET V == Visible(tag, tenant)
               M == Mine(tag, tenant)
           IN  /\ V \subseteq 1..Len(byTag[tag]) /\ Len(byTag[tag]) \in Nat
               /\ \A k \in V : entries[byTag[tag][k]] \in M
               /\ Cardinality(V) \in Nat /\ Cardinality(V) = Cardinality(M)
<1> DEFINE V == Visible(tag, tenant)
           M == Mine(tag, tenant)
           n == Len(byTag[tag])
           of == [k \in V |-> entries[byTag[tag][k]]]
<1>1. byTag[tag] \in Seq(Nat) /\ n \in Nat /\ DOMAIN byTag[tag] = 1..n /\ V \subseteq 1..n
  BY DEF MemoryInv, MemoryTyped, Visible
<1>2. \A k \in 1..n : \E r \in Recorders : Indexed(tag, r) /\ byTag[tag][k] = ridx[r] /\ entries[byTag[tag][k]] = r
  BY DEF MemoryInv, IndexExact, OwnEntry, Indexed
<1>3. \A k \in V : entries[byTag[tag][k]] \in M
  BY <1>1, <1>2 DEF Visible, Mine, Indexed
<1>4. ASSUME NEW r \in M PROVE \E k \in V : entries[byTag[tag][k]] = r
  <2>1. r \in Recorders /\ Indexed(tag, r) /\ rpc[r] # "idle" /\ MaySee(tenant, Episode[r].tenant)
    BY DEF Mine, Indexed
  <2>2. PICK k \in 1..n : byTag[tag][k] = ridx[r]
    BY <2>1 DEF MemoryInv, IndexExact
  <2>3. ridx[r] \in 1..Len(entries) /\ entries[ridx[r]] = r
    BY <2>1 DEF MemoryInv, OwnEntry
  <2>4. DOMAIN entries = 1..Len(entries)
    BY DEF MemoryInv, MemoryTyped
  <2>5. k \in V
    BY <1>1, <2>1, <2>2, <2>3, <2>4 DEF Visible
  <2> QED BY <2>2, <2>3, <2>5
<1>5. \A k, m \in V : entries[byTag[tag][k]] = entries[byTag[tag][m]] => k = m
  <2> TAKE k, m \in V
  <2> HAVE entries[byTag[tag][k]] = entries[byTag[tag][m]]
  <2>1. byTag[tag][k] = ridx[entries[byTag[tag][k]]] /\ byTag[tag][m] = ridx[entries[byTag[tag][m]]]
    BY <1>1, <1>2
  <2>2. k \in 1..n /\ m \in 1..n /\ byTag[tag][k] = byTag[tag][m]
    BY <1>1, <2>1
  <2> QED BY <2>2 DEF MemoryInv, IndexExact
<1>6. IsFiniteSet(V) /\ IsFiniteSet(M)
  <2>1. IsFiniteSet(1..n)
    BY <1>1, FS_Interval
  <2>2. M \subseteq Recorders /\ IsFiniteSet(Recorders)
    BY MemoryAssumption DEF Mine
  <2> HIDE DEF V, M, n
  <2> QED BY <1>1, <2>1, <2>2, FS_Subset
<1> HIDE DEF V, M, n
<1>7. of \in Bijection(V, M)
  <2>1. of \in [V -> M]
    BY <1>3
  <2>2. of \in Injection(V, M)
    BY <1>5, <2>1, Fun_IsInj
  <2>3. \A r \in M : \E k \in V : of[k] = r
    BY <1>4
  <2>4. of \in Surjection(V, M)
    BY <2>1, <2>3, Fun_IsSurj
  <2> QED BY <2>2, <2>4 DEF Bijection
<1> HIDE DEF of
<1>8. Cardinality(V) = Cardinality(M) /\ Cardinality(V) \in Nat
  <2>1. ExistsBijection(V, M)
    BY <1>7 DEF ExistsBijection
  <2> QED BY ONLY <1>6, <2>1, FS_CardinalityType, FS_Bijection
<1> QED BY <1>1, <1>3, <1>8 DEF V, M, n

LEMMA MinOfThree ==
    \A a, b, c \in Int : Min({a, b, c}) = LET m == IF a <= b THEN a ELSE b
                                         IN IF c <= m THEN c ELSE m
  BY DEF Min

LEMMA RecentTurns ==
    ASSUME MemoryInv
    PROVE  Recent(Limit) = [k \in 1..Min({turns, Cap, Limit}) |-> turns + 1 - k]
<1> DEFINE m == Min({Limit, Len(ring)})
<1>1. turns \in Nat /\ Cap \in Nat /\ Limit \in Nat /\ Len(ring) \in Nat
  BY MemoryAssumption DEF MemoryInv, RingIsLatest
<1>2. m = IF Limit <= Len(ring) THEN Limit ELSE Len(ring)
  BY <1>1, MinOfTwo
<1>3. Len(ring) = IF turns <= Cap THEN turns ELSE Cap
  BY DEF MemoryInv, RingIsLatest
<1>4. Min({turns, Cap, Limit}) = m
  <2>1. Min({turns, Cap, Limit}) = IF Limit <= Len(ring) THEN Limit ELSE Len(ring)
    BY <1>1, <1>3, MinOfThree
  <2> QED BY <1>2, <2>1
<1>5. \A k \in 1..m : ring[Len(ring) + 1 - k] = turns + 1 - k
  <2> TAKE k \in 1..m
  <2>1. k \in Nat /\ Len(ring) + 1 - k \in 1..Len(ring)
    BY <1>1, <1>2
  <2>2. ring[Len(ring) + 1 - k] = turns - Len(ring) + (Len(ring) + 1 - k)
    BY <2>1 DEF MemoryInv, RingIsLatest
  <2> QED BY <1>1, <2>1, <2>2
<1> HIDE DEF m
<1> QED BY <1>4, <1>5 DEF Recent, m

\* Whoever records at the same time, a context holds the latest turns and the
\* finished episodes of the tag the tenant may see (memory/lib.rs:92-168).
THEOREM ContextsAreRight == MemorySpec => []ContextIsRight
<1>1. MemoryInv => ContextIsRight
  <2> SUFFICES ASSUME MemoryInv, NEW tag \in Tags, NEW tenant \in Tenants
               PROVE  LET context == Assemble(tag, tenant)
                          M == Mine(tag, tenant)
                      IN /\ context[1] = [k \in 1..Min({turns, Cap, Limit}) |-> turns + 1 - k]
                         /\ {entries[i] : i \in ToSet(context[2])} \subseteq M
                         /\ Len(context[2]) = Min({Cardinality(M), Limit})
                         /\ IsInjective(context[2])
    BY DEF ContextIsRight, Mine
  <2> DEFINE V == Visible(tag, tenant)
             M == Mine(tag, tenant)
             c == Cardinality(V)
             n == Min({Limit, c})
             found == [k \in 1..n |-> byTag[tag][Nth(V, c - n + k)]]
             l == Len(byTag[tag])
  <2>1. Assemble(tag, tenant) = <<Recent(Limit), found>>
    BY DEF Assemble, ByTag
  <2>2. /\ V \subseteq 1..l /\ l \in Nat /\ \A k \in V : entries[byTag[tag][k]] \in M
        /\ c \in Nat /\ c = Cardinality(M)
    BY VisibleIsMine
  <2> HIDE DEF V, M, l, c
  <2>3. Limit \in Nat /\ n = (IF Limit <= c THEN Limit ELSE c) /\ n = Min({c, Limit})
    BY <2>2, MemoryAssumption, MinOfTwo
  <2>4. n \in 0..c /\ n \in Nat
    BY <2>2, <2>3
  <2> HIDE DEF n
  <2>5. \A k \in 1..n : c - n + k \in 1..c
    BY <2>2, <2>4
  <2>6. \A k \in 1..c : Nth(V, k) \in V /\ Cardinality(UpTo(V, Nth(V, k))) = k
    BY <2>2, NthOf DEF c
  <2>7. Len(found) = n /\ DOMAIN found = 1..n
    BY <2>4
  <2>8. \A k \in 1..n : entries[found[k]] \in M
    BY <2>2, <2>5, <2>6
  <2>9. {entries[i] : i \in ToSet(found)} \subseteq M
    <3> HIDE DEF found
    <3> QED BY <2>7, <2>8 DEF ToSet
  <2>10. ASSUME NEW a \in 1..n, NEW b \in 1..n, found[a] = found[b]
         PROVE  a = b
    <3> DEFINE x == Nth(V, c - n + a)
               y == Nth(V, c - n + b)
    <3>1. /\ x \in V /\ Cardinality(UpTo(V, x)) = c - n + a
          /\ y \in V /\ Cardinality(UpTo(V, y)) = c - n + b
      BY <2>5, <2>6
    <3>2. byTag[tag][x] = byTag[tag][y]
      BY <2>10
    <3> HIDE DEF x, y
    <3>3. x = y
      BY <2>2, <3>1, <3>2 DEF MemoryInv, IndexExact, l
    <3> QED BY <2>2, <2>4, <3>1, <3>3
  <2>11. IsInjective(found)
    BY <2>7, <2>10 DEF IsInjective
  <2>12. Recent(Limit) = [k \in 1..Min({turns, Cap, Limit}) |-> turns + 1 - k]
    BY RecentTurns
  <2> HIDE DEF found
  <2> QED BY <2>1, <2>2, <2>3, <2>7, <2>9, <2>11, <2>12 DEF M
<1> QED BY <1>1, MemoryInitOK, MemoryStep, PTL DEF MemorySpec

=============================================================================
