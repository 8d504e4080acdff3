------------------------------- MODULE AdtXml -------------------------------
(***************************************************************************)
(* The event loops with which HttpAdtClient reads its answers              *)
(* (adt/src/http.rs:509-832): package contents, data preview, search hits  *)
(* and usage references.  Each loop keeps a few registers from event to    *)
(* event; a document may end, or turn out broken, at any event, and the    *)
(* loop then returns what it has.                                          *)
(***************************************************************************)
EXTENDS Naturals, Sequences

CONSTANTS
    Fields,       \* child elements of an object: [tag, shape, value]
    Cells,        \* cells of a row: [tag, shape, value]
    References,   \* attributes of an object reference
    MaxNodes,     \* bound: objects, or rows, in an answer
    MaxFields,    \* bound: child elements of an object
    MaxCells      \* bound: columns, and cells of a row

\* A text that is there is not empty; an element without one has no value.
ASSUME FieldsAssumption ==
    \A f \in Fields : /\ f.tag \notin {"OBJ_NODE", "objectReference"}
                      /\ f.shape \in {"text", "bare", "hollow"}
                      /\ f.shape = "text" <=> f.value # ""
ASSUME CellsAssumption ==
    \A c \in Cells : /\ c.tag = "cell"
                     /\ c.shape \in {"attribute", "opened", "text", "bare", "hollow"}
                     /\ c.shape = "text" => c.value # ""
                     /\ c.shape \in {"bare", "hollow"} => c.value = ""
ASSUME AdtBoundsAssumption == {MaxNodes, MaxFields, MaxCells} \subseteq Nat

VARIABLES
    body,         \* what SAP sent: [form, columns, parts]
    at,           \* the reader's place: part, item of it, event of the item
    broken,       \* the document ended early
    reg,          \* registers of the loop
    out           \* what is collected

avars == <<body, at, broken, reg, out>>

-----------------------------------------------------------------------------
(* Documents.  A part is an object, a column or a row.  Objects may come   *)
(* with child elements, in any order and not all of them, or as attributes *)
(* of one element, as columns do.  Such an element closes itself or has an *)
(* end tag; the loops that look at its start tag pass over the end tag     *)
(* (http.rs:625, 735-750), so it is read with the start tag here.          *)

Ev(e, tag) == [ev |-> e, tag |-> tag, attrs |-> <<>>, text |-> ""]
EvAttrs(e, tag, attrs) == [ev |-> e, tag |-> tag, attrs |-> attrs, text |-> ""]
EvText(t) == [ev |-> "text", tag |-> "", attrs |-> <<>>, text |-> t]

Lone(ev, tag, attrs) == [tag |-> tag, ev |-> ev, attrs |-> attrs, items |-> <<>>]
Nest(tag, items) == [tag |-> tag, attrs |-> <<>>, items |-> items]
IsLone(p) == p.tag \in {"objectReference", "metadata"}
Column(ev) == Lone(ev, "metadata", [name |-> "c"])

\* An item: its value as an attribute, as text, or no value.
ItemEvents(x) ==
    CASE x.shape = "attribute" -> <<EvAttrs("empty", x.tag, [value |-> x.value])>>
      [] x.shape = "bare" -> <<Ev("empty", x.tag)>>
      [] x.shape = "opened" -> <<EvAttrs("start", x.tag, [value |-> x.value]), Ev("end", x.tag)>>
      [] x.shape = "hollow" -> <<Ev("start", x.tag), Ev("end", x.tag)>>
      [] OTHER -> <<Ev("start", x.tag), EvText(x.value), Ev("end", x.tag)>>

Seqs(S, n) == UNION {[1..k -> S] : k \in 0..n}
\* A component occurs once in a structure.
Nodes == {Nest("OBJ_NODE", f) : f \in {f \in Seqs(Fields, MaxFields) :
                                         \A i, j \in DOMAIN f : f[i].tag = f[j].tag => i = j}}
LoneNodes(ev) == {Lone(ev, "objectReference", a) : a \in References}
Rows == {Nest("row", c) : c \in Seqs(Cells, MaxCells)}

\* A preview names its columns, all in one form, before the rows.
Preview(n, ev, rows) ==
    [form |-> "preview", columns |-> n,
     parts |-> [i \in 1..(n + Len(rows)) |-> IF i <= n THEN Column(ev) ELSE rows[i - n]]]
\* Package contents take the attribute form from a self-closing element only
\* (http.rs:536), searches and where-used queries from either.
Bodies ==
    [form : {"nodes"}, columns : {0}, parts : Seqs(Nodes \cup LoneNodes("empty"), MaxNodes)]
    \cup [form : {"references"}, columns : {0},
          parts : Seqs(LoneNodes("empty") \cup LoneNodes("start"), MaxNodes)]
    \cup {Preview(n, ev, rows) : n \in 0..MaxCells, ev \in {"empty", "start"},
                                 rows \in Seqs(Rows, MaxNodes)}

\* Item 0 is the start tag of a part, the item after the last its end tag.
Place(p, i, e) == [part |-> p, item |-> i, event |-> e]
AtEnd == at.part > Len(body.parts)
Part == body.parts[at.part]
PartItems == Part.items
Opening(p) == IF IsLone(p) THEN EvAttrs(p.ev, p.tag, p.attrs) ELSE Ev("start", p.tag)
Event ==
    IF at.item = 0 THEN Opening(Part)
    ELSE IF at.item > Len(PartItems) THEN Ev("end", Part.tag)
    ELSE ItemEvents(PartItems[at.item])[at.event]
NextPlace ==
    IF IsLone(Part) \/ at.item > Len(PartItems) THEN Place(at.part + 1, 0, 1)
    ELSE IF at.item # 0 /\ at.event < Len(ItemEvents(PartItems[at.item]))
         THEN Place(at.part, at.item, at.event + 1)
    ELSE Place(at.part, at.item + 1, 1)

Registers == [inNode |-> FALSE, field |-> "none", name |-> "", kind |-> "", desc |-> "",
              columns |-> 0, inRow |-> FALSE, inCell |-> FALSE, cell |-> 0, text |-> "", row |-> <<>>]

AdtXmlInit ==
    /\ body \in Bodies
    /\ at = Place(1, 0, 1)
    /\ broken = FALSE
    /\ reg = Registers
    /\ out = <<>>

-----------------------------------------------------------------------------

\* map_kind: a type token it does not know, or none, is a program.
MapKind(token) ==
    CASE token \in {"CLAS/OC", "CLAS"} -> "Class"
      [] token \in {"INTF/OI", "INTF"} -> "Interface"
      [] token \in {"PROG/P", "PROG/I", "PROG"} -> "Program"
      [] token \in {"FUGR/F", "FUGR"} -> "FunctionGroup"
      [] token \in {"FUGR/FF", "FUNC"} -> "FunctionModule"
      [] token \in {"DDLS/DF", "DDLS"} -> "CdsView"
      [] token \in {"TABL/DT", "TABL"} -> "Table"
      [] token \in {"STRU/DS", "STRU"} -> "Structure"
      [] token \in {"DEVC/K", "DEVC"} -> "Package"
      [] OTHER -> "Program"

Attr(attrs, a) == IF a \in DOMAIN attrs THEN attrs[a] ELSE ""
Hit(attrs) == [name |-> Attr(attrs, "name"), kind |-> MapKind(Attr(attrs, "type")),
               desc |-> Attr(attrs, "description")]
Collect(hit) == IF hit.name # "" THEN Append(out, hit) ELSE out

\* parse_nodestructure, Event::Start
NodeStart(e) ==
    /\ reg' = IF e.tag = "OBJ_NODE"
              THEN [reg EXCEPT !.inNode = TRUE, !.name = "", !.kind = "", !.desc = ""]
              ELSE IF reg.inNode THEN [reg EXCEPT !.field = e.tag] ELSE reg
    /\ UNCHANGED out

\* Event::Empty: the attribute form; any other empty element is passed over.
NodeEmpty(e) ==
    /\ out' = IF e.tag = "objectReference" THEN Collect(Hit(e.attrs)) ELSE out
    /\ UNCHANGED reg

\* Event::Text goes where the last start tag said.
NodeText(e) ==
    /\ reg' = CASE reg.inNode /\ reg.field = "OBJECT_TYPE" -> [reg EXCEPT !.kind = e.text]
                [] reg.inNode /\ reg.field = "OBJECT_NAME" -> [reg EXCEPT !.name = e.text]
                [] reg.inNode /\ reg.field = "DESCRIPTION" -> [reg EXCEPT !.desc = e.text]
                [] OTHER -> reg
    /\ UNCHANGED out

\* Event::End: the end of a node pushes it, if it has a name.
NodeEnd(e) ==
    \/ /\ e.tag = "OBJ_NODE"
       /\ out' = IF reg.inNode
                 THEN Collect([name |-> reg.name, kind |-> MapKind(reg.kind), desc |-> reg.desc])
                 ELSE out
       /\ reg' = [reg EXCEPT !.inNode = FALSE, !.field = "none", !.name = "",
                                   !.desc = IF reg.inNode /\ reg.name # "" THEN "" ELSE @]
    \/ /\ e.tag # "OBJ_NODE"
       /\ reg' = [reg EXCEPT !.field = "none"]
       /\ UNCHANGED out

ReadNodes(e) ==
    \/ e.ev = "start" /\ NodeStart(e)
    \/ e.ev = "empty" /\ NodeEmpty(e)
    \/ e.ev = "text" /\ NodeText(e)
    \/ e.ev = "end" /\ NodeEnd(e)

\* parse_search_results, parse_usage_references: every element by itself,
\* Event::Start and Event::Empty alike.
ReadReferences(e) == out' = Collect(Hit(e.attrs)) /\ UNCHANGED reg

-----------------------------------------------------------------------------
(* parse_data_preview                                                      *)

\* The value goes under the column the cell counter points at, if any.
PutCell(r, v) ==
    IF r.cell < r.columns
    THEN [r EXCEPT !.row = [c \in DOMAIN @ \cup {r.cell + 1} |-> IF c = r.cell + 1 THEN v ELSE @[c]]]
    ELSE r
NextCell(r) == [r EXCEPT !.cell = @ + 1]

\* An empty cell without a value counts only if there is a column for it.
EmptyCell(attrs) ==
    IF "value" \in DOMAIN attrs THEN NextCell(PutCell(reg, attrs["value"]))
    ELSE IF reg.cell < reg.columns THEN NextCell(PutCell(reg, "")) ELSE reg
NewColumn(e) == e.tag = "metadata" /\ "name" \in DOMAIN e.attrs
PreviewEmpty(e) ==
    /\ reg' = CASE NewColumn(e) -> [reg EXCEPT !.columns = @ + 1]
                [] e.tag = "cell" -> EmptyCell(e.attrs)
                [] OTHER -> reg
    /\ UNCHANGED out

\* Mutant: the cell counter runs on from row to row.
PreviewStartCounts(e) ==
    /\ reg' = CASE NewColumn(e) -> [reg EXCEPT !.columns = @ + 1]
                [] e.tag = "row" -> [reg EXCEPT !.inRow = TRUE, !.row = <<>>]
                [] e.tag = "cell" /\ reg.inRow ->
                      [reg EXCEPT !.inCell = TRUE, !.text = Attr(e.attrs, "value")]
                [] OTHER -> reg
    /\ UNCHANGED out

PreviewStart(e) ==
    /\ reg' = CASE NewColumn(e) -> [reg EXCEPT !.columns = @ + 1]
                [] e.tag = "row" -> [reg EXCEPT !.inRow = TRUE, !.cell = 0, !.row = <<>>]
                [] e.tag = "cell" /\ reg.inRow ->
                      [reg EXCEPT !.inCell = TRUE, !.text = Attr(e.attrs, "value")]
                [] OTHER -> reg
    /\ UNCHANGED out

PreviewText(e) ==
    /\ reg' = IF reg.inCell /\ e.text # "" THEN [reg EXCEPT !.text = e.text] ELSE reg
    /\ UNCHANGED out

PreviewEnd(e) ==
    \/ /\ e.tag = "cell"
       /\ reg' = [NextCell(IF reg.inCell THEN PutCell(reg, reg.text) ELSE reg) EXCEPT !.inCell = FALSE]
       /\ UNCHANGED out
    \/ /\ e.tag = "row"
       /\ out' = IF reg.inRow /\ DOMAIN reg.row # {} THEN Append(out, reg.row) ELSE out
       /\ reg' = [reg EXCEPT !.inRow = FALSE, !.row = IF reg.inRow THEN <<>> ELSE @]

ReadPreview(e) ==
    \/ e.ev = "empty" /\ PreviewEmpty(e)
    \/ e.ev = "start" /\ PreviewStart(e)
    \/ e.ev = "text" /\ PreviewText(e)
    \/ e.ev = "end" /\ PreviewEnd(e)

-----------------------------------------------------------------------------

ReadEvent ==
    /\ ~AtEnd
    /\ \/ body.form = "nodes" /\ ReadNodes(Event)
       \/ body.form = "references" /\ ReadReferences(Event)
       \/ body.form = "preview" /\ ReadPreview(Event)
    /\ at' = NextPlace
    /\ UNCHANGED <<body, broken>>

\* The document ends early, or an event is malformed: the loop breaks.
Break ==
    /\ ~AtEnd
    /\ at' = Place(Len(body.parts) + 1, 0, 1)
    /\ broken' = TRUE
    /\ UNCHANGED <<body, reg, out>>

AdtXmlNext == ReadEvent \/ Break

AdtXmlSpec == AdtXmlInit /\ [][AdtXmlNext]_avars

-----------------------------------------------------------------------------
(* What is in a document, read as a whole.                                 *)

ValueOf(fields, tag) ==
    IF \E i \in DOMAIN fields : fields[i].tag = tag
    THEN fields[CHOOSE i \in DOMAIN fields : fields[i].tag = tag].value ELSE ""
ObjectOf(p) ==
    IF IsLone(p) THEN Hit(p.attrs)
    ELSE [name |-> ValueOf(p.items, "OBJECT_NAME"), kind |-> MapKind(ValueOf(p.items, "OBJECT_TYPE")),
          desc |-> ValueOf(p.items, "DESCRIPTION")]
RowOf(b, p) == [i \in {i \in DOMAIN p.items : i <= b.columns} |-> p.items[i].value]

\* An object without a name and a row without a value are not worth a result.
ResultOf(b, p) ==
    CASE p.tag = "metadata" -> <<>>
      [] p.tag = "row" -> IF DOMAIN RowOf(b, p) # {} THEN <<RowOf(b, p)>> ELSE <<>>
      [] OTHER -> IF ObjectOf(p).name # "" THEN <<ObjectOf(p)>> ELSE <<>>

\* The results of the last k parts.
ResultsOf(b, k) ==
    LET last[j \in 0..Len(b.parts)] ==
            IF j = 0 THEN <<>> ELSE ResultOf(b, b.parts[Len(b.parts) - j + 1]) \o last[j - 1]
    IN  last[k]
Expected == ResultsOf(body, Len(body.parts))

\* Every row, and every object, that is returned is one SAP sent, whole and in
\* its place, with the kind its type token stands for (a program if there is
\* none or it is not known), its own description and its values under their
\* own columns, whatever its neighbours leave out and in whichever of the forms
\* they come; a document that breaks off gives a beginning of the list, never
\* half a row (http.rs:509-834).
ReadsWhatWasSent ==
    /\ Len(out) <= Len(Expected) /\ out = SubSeq(Expected, 1, Len(out))
    /\ AtEnd /\ ~broken => out = Expected
=============================================================================
