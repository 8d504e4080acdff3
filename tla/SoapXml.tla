------------------------------ MODULE SoapXml ------------------------------
(***************************************************************************)
(* How SoapRfcClient reads an answer (soap.rs:436-624): quick_xml hands    *)
(* over the document event by event, parse_children builds a JSON value    *)
(* with one recursion level per element (here a stack of frames), and what *)
(* comes out is turned into table rows or BAPIRET2 messages (bapiret2.rs). *)
(*                                                                         *)
(* A text is a sequence of characters.  An answer may be cut anywhere: the *)
(* parser then meets the end of the input instead of an end tag.           *)
(***************************************************************************)
EXTENDS Naturals, Sequences, FiniteSets

CONSTANTS
    MaxDepth,     \* MAX_XML_DEPTH
    ColumnLists,  \* columns a table may have: sequences of names
    Values,       \* texts a table column may hold
    MaxRows       \* bound: rows of an answer

VARIABLES
    sent,         \* what SAP answered: kind and content
    place,        \* how far the document is read
    cut,          \* the rest of it never arrives
    stack,        \* frames of parse_children, innermost last
    parsed        \* what the parser returned, or "none" / "error"

xvars == <<sent, place, cut, stack, parsed>>

Blank == " "
Delimiter == "|"

-----------------------------------------------------------------------------
(* Texts                                                                   *)

NonBlank(t) == {i \in 1..Len(t) : t[i] # Blank}
FirstOf(S) == CHOOSE i \in S : \A j \in S : i <= j
LastOf(S) == CHOOSE i \in S : \A j \in S : j <= i
Nth(S, k) == CHOOSE i \in S : Cardinality({j \in S : j <= i}) = k

TrimEnd(t) == SubSeq(t, 1, LastOf(NonBlank(t) \cup {0}))
Trim(t) == IF NonBlank(t) = {} THEN <<>>
           ELSE SubSeq(t, FirstOf(NonBlank(t)), LastOf(NonBlank(t)))

\* A table has columns, and they have names.
ASSUME ColumnsAssumption ==
    \A c \in ColumnLists : c \in Seq(Seq(STRING)) /\ c # <<>> /\ \A i \in 1..Len(c) : Trim(c[i]) # <<>>
ASSUME ValuesAssumption == Values \subseteq Seq(STRING)
\* An answer is nested six deep: Envelope, Body, Response, table, item, field.
ASSUME SoapBoundsAssumption == MaxRows \in Nat /\ MaxDepth \in Nat /\ MaxDepth >= 6

-----------------------------------------------------------------------------
(* JSON                                                                    *)

Str(t) == [kind |-> "str", text |-> t]
Obj(m) == [kind |-> "obj", map |-> m]
Arr(s) == [kind |-> "arr", items |-> s]

EmptyMap == [k \in {} |-> Str(<<>>)]

\* Value::get: only an object has members.
Has(v, key) == v.kind = "obj" /\ key \in DOMAIN v.map

\* Mutant: the second element with a name replaces the first.
InsertReplace(m, key, v) ==
    [k \in DOMAIN m \cup {key} |-> IF k = key THEN v ELSE m[k]]

\* insert_merge: elements of the same name become an array.
InsertMerge(m, key, v) ==
    [k \in DOMAIN m \cup {key} |->
        IF k # key THEN m[k]
        ELSE IF key \notin DOMAIN m THEN v
        ELSE IF m[key].kind = "arr" THEN Arr(Append(m[key].items, v))
        ELSE Arr(<<m[key], v>>)]

\* as_items: absent, single and repeated elements as one list.
AsItems(v, key) ==
    IF ~Has(v, key) THEN <<>>
    ELSE IF v.map[key].kind = "arr" THEN v.map[key].items
    ELSE <<v.map[key]>>

Member(v, key) == IF Has(v, key) THEN v.map[key] ELSE Str(<<>>)

\* field_str: the trimmed text of a member, empty if there is none.
FieldStr(v, key) == IF Member(v, key).kind = "str" THEN Trim(Member(v, key).text) ELSE <<>>

-----------------------------------------------------------------------------
(* The documents SAP sends: a few elements around a sequence of sections.  *)
(* The items of a section have the same tag, an item is a sequence of      *)
(* leaves, a leaf has a text.                                              *)

Leaf(n, t) == [name |-> n, text |-> t]
Section(n, tag, items) == [name |-> n, tag |-> tag, items |-> items]
Within(wrappers, sections) == [wrappers |-> wrappers, sections |-> sections]

\* DELIMITER mode: the values of a row in column order.
Joined(row) ==
    LET join[i \in 1..Len(row)] ==
          IF i = 1 THEN row[1] ELSE join[i - 1] \o <<Delimiter>> \o row[i]
    IN  join[Len(row)]
Message(type, text) == <<Leaf("TYPE", type), Leaf("MESSAGE", text)>>

Document(a) ==
    IF a.kind = "rows" THEN
      Within(<<"Envelope", "Body", "Response">>,
        <<Section("FIELDS", "item",
                  [i \in 1..Len(a.columns) |-> <<Leaf("FIELDNAME", a.columns[i])>>]),
          Section("DATA", "item", [r \in 1..Len(a.rows) |-> <<Leaf("WA", Joined(a.rows[r]))>>])>>)
    ELSE IF a.kind = "table" THEN
      Within(<<"Envelope", "Body", "Response">>,
        <<Section("RETURN", "item", [i \in 1..Len(a.types) |-> Message(a.types[i], <<"m">>)])>>)
    ELSE IF a.kind = "structure" THEN
      Within(<<"Envelope", "Body">>, <<Section("Response", "RETURN", <<Message(a.types[1], <<>>)>>)>>)
    ELSE IF a.kind = "fault" THEN
      Within(<<"Envelope">>, <<Section("Body", "Fault", <<<<Leaf("faultstring", <<"f">>)>>>>)>>)
    ELSE IF a.kind = "bare" THEN
      Within(<<>>, <<Section("Envelope", a.tag, [i \in 1..a.elements |-> <<>>])>>)
    ELSE Within([i \in 1..(MaxDepth + 1) |-> "A"], <<>>)

UpTo(S, n) == UNION {[1..k -> S] : k \in 0..n}
\* The types of a message that reports no failure, and the others, a future
\* one and a missing one among them.
Mild == {<<"S">>, <<"W">>, <<"w">>, <<"I">>}
Types == Mild \cup {<<"E">>, <<"A">>, <<"Z">>, <<>>}
SoapAnswers ==
    (UNION {[kind : {"rows"}, columns : {c}, rows : UpTo([1..Len(c) -> Values], MaxRows)] :
               c \in ColumnLists})
    \cup [kind : {"table"}, types : UpTo(Types, MaxRows)]
    \cup [kind : {"structure"}, types : [1..1 -> Types]]
    \cup [kind : {"bare"}, tag : {"Header", "Body"}, elements : 0..1]
    \cup [kind : {"fault", "deep"}]

-----------------------------------------------------------------------------
(* The place: how many elements are open, and which section, item and leaf *)
(* were reached last.                                                      *)

Doc == Document(sent)
Outside == Len(Doc.wrappers)
ThisSection == Doc.sections[place.section]
ThisItem == ThisSection.items[place.item]

\* An element without content is an empty element.
Element(n, content) == [ev |-> IF content = <<>> THEN "empty" ELSE "start", name |-> n]

Coming ==
    LET o == place.open IN
    IF cut THEN [ev |-> "eof"]
    ELSE IF o < Outside /\ place.section = 0
         THEN [ev |-> "start", name |-> Doc.wrappers[o + 1]]
    ELSE IF o = Outside /\ place.section < Len(Doc.sections)
         THEN Element(Doc.sections[place.section + 1].name, Doc.sections[place.section + 1].items)
    ELSE IF o = Outside + 1 /\ place.item < Len(ThisSection.items)
         THEN Element(ThisSection.tag, ThisSection.items[place.item + 1])
    ELSE IF o = Outside + 2 /\ place.leaf < Len(ThisItem)
         THEN Element(ThisItem[place.leaf + 1].name, ThisItem[place.leaf + 1].text)
    ELSE IF o = Outside + 3 /\ ~place.said
         THEN [ev |-> "text", text |-> ThisItem[place.leaf].text]
    ELSE [ev |-> IF o > 0 THEN "end" ELSE "eof"]

\* The next of its level is reached, and the first of the next to come.
Reached(n, level) ==
    IF place.open = Outside + level /\ Coming.ev \in {"start", "empty"} THEN n + 1
    ELSE IF place.open = Outside + level - 1 THEN 0 ELSE n

Behind ==
    [open |-> IF Coming.ev = "start" THEN place.open + 1
              ELSE IF Coming.ev = "end" THEN place.open - 1 ELSE place.open,
     section |-> IF place.open = Outside /\ Coming.ev \in {"start", "empty"}
                 THEN place.section + 1 ELSE place.section,
     item |-> Reached(place.item, 1),
     leaf |-> Reached(place.leaf, 2),
     said |-> Coming.ev = "text"]

XmlInit ==
    /\ sent \in SoapAnswers
    /\ place = [open |-> 0, section |-> 0, item |-> 0, leaf |-> 0, said |-> FALSE]
    /\ cut = FALSE
    /\ stack = <<>>
    /\ parsed = [kind |-> "none"]

-----------------------------------------------------------------------------
(* xml_to_json_root and parse_children                                     *)

Frame(n) == [name |-> n, map |-> EmptyMap, text |-> <<>>, children |-> 0]
Reading == parsed.kind = "none"

\* The rest of the document never arrives.
CutOff ==
    /\ Reading /\ Coming.ev # "eof"
    /\ cut' = TRUE
    /\ UNCHANGED <<sent, place, stack, parsed>>

Start ==
    /\ Reading /\ Coming.ev = "start"
    /\ place' = Behind
    /\ IF Len(stack) + 1 > MaxDepth
       THEN parsed' = [kind |-> "error"] /\ UNCHANGED stack
       ELSE stack' = Append(stack, Frame(Coming.name)) /\ UNCHANGED parsed
    /\ UNCHANGED <<sent, cut>>

Child(f, key, v) == [f EXCEPT !.map = InsertMerge(@, key, v), !.children = @ + 1]

\* xml_to_json_root passes over an empty element.
Empty ==
    /\ Reading /\ Coming.ev = "empty"
    /\ place' = Behind
    /\ stack' = IF stack = <<>> THEN <<>>
                ELSE [stack EXCEPT ![Len(stack)] = Child(@, Coming.name, Str(<<>>))]
    /\ UNCHANGED <<sent, cut, parsed>>

ReadText ==
    /\ Reading /\ Coming.ev = "text"
    /\ place' = Behind
    /\ stack' = [stack EXCEPT ![Len(stack)].text = @ \o Coming.text]
    /\ UNCHANGED <<sent, cut, parsed>>

\* What an element is worth: its text if it has no children.
FrameValue(f) == IF f.children = 0 THEN Str(Trim(f.text)) ELSE Obj(f.map)

\* An end tag, or the end of the input, which counts as one at every level.
End ==
    LET n == Len(stack)
        f == stack[n]
    IN  /\ Reading /\ stack # <<>> /\ Coming.ev \in {"end", "eof"}
        /\ place' = Behind
        /\ IF n = 1
           THEN parsed' = FrameValue(f) /\ stack' = <<>>
           ELSE /\ stack' = [SubSeq(stack, 1, n - 1) EXCEPT ![n - 1] = Child(@, f.name, FrameValue(f))]
                /\ UNCHANGED parsed
        /\ UNCHANGED <<sent, cut>>

\* Nothing but an end of input: "empty SOAP response".
NoRoot ==
    /\ Reading /\ stack = <<>> /\ Coming.ev = "eof"
    /\ parsed' = [kind |-> "error"]
    /\ UNCHANGED <<sent, place, cut, stack>>

XmlNext == CutOff \/ Start \/ Empty \/ ReadText \/ End \/ NoRoot

XmlSpec == XmlInit /\ [][XmlNext]_xvars

-----------------------------------------------------------------------------
(* What invoke and its callers make of the root.                           *)

Failure(code) == [kind |-> "failed", code |-> code]

\* Mutant: nobody looks for a fault.
PayloadOnly(root) ==
    LET body == Member(root, "Body") IN
    IF root.kind = "error" \/ body.kind # "obj" THEN Failure("Internal")
    ELSE body.map[CHOOSE k \in DOMAIN body.map : TRUE]

\* extract_fault, then extract_body_payload: the first element of the Body.
Payload(root) ==
    LET body == Member(root, "Body") IN
    IF root.kind = "error" \/ body.kind # "obj" THEN Failure("Internal")
    ELSE IF "Fault" \in DOMAIN body.map THEN Failure("Fault")
    ELSE body.map[CHOOSE k \in DOMAIN body.map : TRUE]

\* str::splitn: at most n parts, the last one takes what is left.
SplitN(t, n) ==
    LET bars == {i \in 1..Len(t) : t[i] = Delimiter}
        m == IF Cardinality(bars) < n THEN Cardinality(bars) + 1 ELSE n
    IN  [k \in 1..m |-> SubSeq(t, IF k = 1 THEN 1 ELSE Nth(bars, k - 1) + 1,
                                  IF k = m THEN Len(t) ELSE Nth(bars, k) - 1)]

\* parse_read_table
FieldNames(payload) ==
    LET items == AsItems(Member(payload, "FIELDS"), "item")
        named == {i \in 1..Len(items) : FieldStr(items[i], "FIELDNAME") # <<>>}
    IN  [k \in 1..Cardinality(named) |-> FieldStr(items[Nth(named, k)], "FIELDNAME")]

RowValues(item, n) ==
    LET parts == SplitN(FieldStr(item, "WA"), n) IN
    [i \in 1..n |-> IF i <= Len(parts) THEN TrimEnd(parts[i]) ELSE <<>>]

ParseReadTable(payload) ==
    LET n == Len(FieldNames(payload))
        data == AsItems(Member(payload, "DATA"), "item")
    IN  IF n = 0 THEN Failure("Internal")
        ELSE [kind |-> "ok", rows |-> [r \in 1..Len(data) |-> RowValues(data[r], n)]]

\* parse_bapiret2: the rows with a TYPE and a MESSAGE, wherever they are, no
\* more than eight levels down.
IsMessage(v) == v.kind = "obj" /\ {"TYPE", "MESSAGE"} \subseteq DOMAIN v.map
Inside(v) ==
    IF v.kind = "arr" THEN {v.items[i] : i \in 1..Len(v.items)}
    ELSE IF v.kind = "obj" /\ ~IsMessage(v) THEN {v.map[k] : k \in DOMAIN v.map}
    ELSE {}
Walk(v, depth) ==
    LET level[d \in depth..8] == IF d = depth THEN {v} ELSE UNION {Inside(w) : w \in level[d - 1]}
    IN  {w \in UNION {level[d] : d \in depth..8} : IsMessage(w)}

\* Mutant: only the types that name a failure count as one.
AnyFailureErrors(v) ==
    \E m \in Walk(v, 2) : FieldStr(m, "TYPE") # <<>> /\ FieldStr(m, "TYPE")[1] \in {"E", "e", "A", "a"}

\* from_char and is_failure: a severity that is unknown, an empty one too, is
\* a failure.
IsFailure(type) == type = <<>> \/ type[1] \notin {"S", "s", "W", "w", "I", "i"}
AnyFailure(v) == \E m \in Walk(v, 2) : IsFailure(FieldStr(m, "TYPE"))

-----------------------------------------------------------------------------

Done == ~Reading /\ ~cut
Result == Payload(parsed)

\* Only the last column holds the delimiter.
Splittable(row) ==
    \A i \in 1..(Len(row) - 1) : \A k \in 1..Len(row[i]) : row[i][k] # Delimiter

\* The rows sap.table.read returns from a live system are the rows SAP sent,
\* whether there are none, one or several, up to blanks around a value, as
\* long as only the last column holds the delimiter (soap.rs:556-582).
RowsSurvive ==
    Done /\ sent.kind = "rows" =>
        LET got == ParseReadTable(Result) IN
        /\ got.kind = "ok" /\ Len(got.rows) = Len(sent.rows)
        /\ \A r \in 1..Len(sent.rows) : Splittable(sent.rows[r]) =>
              \A i \in 1..Len(sent.columns) : Trim(got.rows[r][i]) = Trim(sent.rows[r][i])

\* Whatever SAP reports in RETURN that is not success, warning or information,
\* as a structure or as any row of a table, reaches the caller as a failure,
\* and only then does the call look failed (soap.rs:456-516, bapiret2.rs:42-60,
\* 85-124; "unrecognised SAP responses don't cause silent commits", :193).
FailureSurvives ==
    Done /\ sent.kind \in {"table", "structure"} =>
        (AnyFailure(Result) <=> \E i \in 1..Len(sent.types) : sent.types[i] \notin Mild)

\* A fault, an answer without a Body or with an empty one, and one nested too
\* deeply are errors, never a payload (soap.rs:436-475, 519-539).
BadAnswerIsError == Done /\ sent.kind \in {"fault", "bare", "deep"} => Result.kind = "failed"
=============================================================================
