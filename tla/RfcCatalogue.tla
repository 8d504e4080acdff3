---------------------------- MODULE RfcCatalogue ----------------------------
(***************************************************************************)
(* The offline SAP client, which answers from a catalogue of functions and *)
(* tables (MockSapClient, client.rs).                                      *)
(*                                                                         *)
(* A text that patterns are matched against is a sequence of characters; a *)
(* table keeps its client column and one of the others, and MARA also one  *)
(* that its rows leave out.  Case is ignored throughout, in names and in   *)
(* texts, unlike in a live SAP system.                                     *)
(***************************************************************************)
EXTENDS RfcFunctions, Naturals, Sequences, FiniteSets

CONSTANTS
    Identities,    \* client numbers the credentials may name
    Limits,        \* values of limit and max_rows asked for
    Wheres,        \* where_conditions asked for
    Queries        \* Queries[q]: how often q matches each function's text

\* A usize limit, and how often a query matches the text of each function.
ASSUME CatalogueAssumption ==
    /\ Limits \subseteq Nat
    /\ \A q \in DOMAIN Queries :
         IsFiniteSet(DOMAIN Queries[q]) /\ Queries[q] \in [DOMAIN Queries[q] -> Nat]

\* A condition as it is written: a column name, a comparison and a text in
\* quotes.  A text holds no blank, quote or = on which the clause would be
\* taken apart elsewhere, and none of the characters sql_like loses or takes
\* for a wildcard when it takes its regular expression apart.
Clauses == [column : STRING, rel : {"=", "LIKE", ">=", ">"}, value : Seq(STRING)]
ASSUME WhereAssumption == Wheres \subseteq Seq(Clauses)
ASSUME PlainCharacters ==
    \A w \in Wheres : \A k \in 1..Len(w) : \A i \in 1..Len(w[k].value) :
        w[k].value[i] \notin {"\\", "^", "$", ".", " ", "'", "="}

MAX_ROWS_HARD_CAP == 1000

Default == <<"1", "0", "0">>   \* the client of the fixtures

VARIABLES
    identity,      \* the client number of the session, <<>> if it names none
    ask,           \* the request just served
    ans            \* its answer: an error code, or "none" and the rows

cvars == <<identity, ask, ans>>

-----------------------------------------------------------------------------
(* seed_tables                                                             *)

Col(client, field, values) ==
    [i \in 1..Len(values) |->
       [f \in {client, field} |-> IF f = client THEN Default ELSE values[i]]]

Mara == [client |-> "MANDT", fields |-> {"MANDT", "MTART", "MATKL"},
         rows |-> Col("MANDT", "MTART",
                      <<<<"R", "O", "H">>, <<"F", "E", "R", "T">>, <<"H", "A", "W", "A">>>>)]
T001 == [client |-> "MANDT", fields |-> {"MANDT", "LAND1"},
         rows |-> Col("MANDT", "LAND1",
                      <<<<"U", "S", "A">>, <<"D", "E", "U">>, <<"S", "G", "P">>>>)]
T001B == [client |-> "MANDT", fields |-> {"MANDT", "FRPE1"},
          rows |-> Col("MANDT", "FRPE1", <<<<"0", "0", "3">>, <<"0", "0", "3">>>>)]
Bseg == [client |-> "MANDT", fields |-> {"MANDT", "SHKZG"},
         rows |-> Col("MANDT", "SHKZG", <<<<"S">>, <<"H">>>>)]
FaglFlexA == [client |-> "RCLNT", fields |-> {"RCLNT", "RLDNR"}, rows |-> <<>>]
Acdoca == [client |-> "RCLNT", fields |-> {"RCLNT", "RLDNR"},
           rows |-> Col("RCLNT", "RLDNR", <<<<"0", "L">>>>)]
Vbak == [client |-> "MANDT", fields |-> {"MANDT", "AUART"},
         rows |-> Col("MANDT", "AUART", <<<<"O", "R">>, <<"O", "R">>, <<"R", "E">>>>)]
\* Transport requests belong to no client.
E070 == [client |-> "none", fields |-> {"TRSTATUS"},
         rows |-> <<[f \in {"TRSTATUS"} |-> <<"D">>]>>]

Tables == [MARA |-> Mara, T001 |-> T001, T001B |-> T001B, BSEG |-> Bseg,
           FAGLFLEXA |-> FaglFlexA, ACDOCA |-> Acdoca, VBAK |-> Vbak, E070 |-> E070]

-----------------------------------------------------------------------------
(* Upper and lower case.                                                   *)

LowerCase == [A |-> "a", B |-> "b", C |-> "c", D |-> "d", E |-> "e", F |-> "f", G |-> "g",
              H |-> "h", I |-> "i", J |-> "j", K |-> "k", L |-> "l", M |-> "m", N |-> "n",
              O |-> "o", P |-> "p", Q |-> "q", R |-> "r", S |-> "s", T |-> "t", U |-> "u",
              V |-> "v", W |-> "w", X |-> "x", Y |-> "y", Z |-> "z"]
Lower(c) == IF c \in DOMAIN LowerCase THEN LowerCase[c] ELSE c

\* to_lowercase of a text; eq_ignore_ascii_case compares texts folded so.
Fold(text) == [i \in 1..Len(text) |-> Lower(text[i])]

\* The column a name stands for, in whatever case it is written.
Spellings == [mandt |-> "MANDT", rclnt |-> "RCLNT", mtart |-> "MTART", matkl |-> "MATKL",
              land1 |-> "LAND1", frpe1 |-> "FRPE1", shkzg |-> "SHKZG", rldnr |-> "RLDNR",
              auart |-> "AUART", trstatus |-> "TRSTATUS"]
ColumnOf(name) == IF name \in DOMAIN Spellings THEN Spellings[name] ELSE name

-----------------------------------------------------------------------------
(* sql_like.  The pattern is first spelled as a regular expression and     *)
(* then taken apart again: a leading and a trailing % count, a _ or a % in *)
(* the middle is compared as it stands.                                    *)

Percent == "%"
Underscore == "_"
HasWildcard(p) == \E i \in 1..Len(p) : p[i] \in {Percent, Underscore}
StartsWith(h, w) == Len(w) <= Len(h) /\ SubSeq(h, 1, Len(w)) = w
Contains(h, w) == \E i \in 0..Len(h) : StartsWith(SubSeq(h, i + 1, Len(h)), w)
WithoutLast(p) == IF p # <<>> /\ p[Len(p)] = Percent THEN SubSeq(p, 1, Len(p) - 1) ELSE p

LikeForms(h, p) ==
    CASE ~HasWildcard(p) -> h = p
      [] HasWildcard(p) /\ p[1] = Percent -> Contains(h, WithoutLast(Tail(p)))
      [] HasWildcard(p) /\ p[1] # Percent /\ p[Len(p)] = Percent -> StartsWith(h, WithoutLast(p))
      [] OTHER -> h = p

SqlLike(haystack, pattern) == LikeForms(Fold(haystack), Fold(pattern))

\* parse_conditions: a clause without LIKE is cut at its first =, so >= is
\* taken too, for an = on a column called "FIELD >", although only = and LIKE
\* are meant to be supported (client.rs:476); > alone is refused.
Garbled == "FIELD >"
Parsable(conds) == \A i \in 1..Len(conds) : conds[i].rel # ">"
ParseCondition(c) ==
    IF c.rel = ">=" THEN [field |-> Garbled, op |-> "=", value |-> c.value]
    ELSE [field |-> c.column, op |-> c.rel, value |-> c.value]
ParseConditions(conds) == [i \in 1..Len(conds) |-> ParseCondition(conds[i])]

\* match_row: a field the row does not have counts as empty.
FieldText(row, f) == IF ColumnOf(f) \in DOMAIN row THEN row[ColumnOf(f)] ELSE <<>>
MatchRow(row, c) ==
    \/ c.op = "=" /\ Fold(FieldText(row, c.field)) = Fold(c.value)
    \/ c.op = "LIKE" /\ SqlLike(FieldText(row, c.field), c.value)

\* Mutant: the client column is never added to the conditions.
ScopedUnscoped(t, conds) == conds

\* The conditions of a table with a client column hold one on that column.
Scoped(t, conds) ==
    IF /\ Tables[t].client # "none"
       /\ \A i \in 1..Len(conds) : ColumnOf(conds[i].field) # Tables[t].client
    THEN Append(conds, [field |-> Tables[t].client, op |-> "=",
                        value |-> IF identity = <<>> THEN Default ELSE identity])
    ELSE conds

\* The columns asked for, all of them if none is named.
Projection(t, fields) == IF fields = {} THEN Tables[t].fields ELSE {ColumnOf(f) : f \in fields}
Project(row, columns) == [f \in DOMAIN row \cap columns |-> row[f]]

Failed(code) == [err |-> code, rows |-> <<>>]
Answered(rows) == [err |-> "none", rows |-> rows]

\* The loop over the rows: the numbers of the matching ones, until max of them
\* are taken.
Taken(n, matching, max) ==
    LET took[i \in 0..n] ==
            IF i = 0 THEN <<>>
            ELSE IF i \in matching /\ Len(took[i - 1]) < max THEN Append(took[i - 1], i)
            ELSE took[i - 1]
    IN  took[n]

ReadTable(r) ==
    CASE r.max = 0 -> Failed("InvalidParameter")
      [] r.max > MAX_ROWS_HARD_CAP -> Failed("TableBufferOverflow")
      [] r.max \in 1..MAX_ROWS_HARD_CAP /\ r.table \notin DOMAIN Tables -> Failed("NotFound")
      [] OTHER ->
         LET t == Tables[r.table]
             wanted == Projection(r.table, r.fields)
             Match(row) == LET conds == Scoped(r.table, ParseConditions(r.conds)) IN
                           \A i \in 1..Len(conds) : MatchRow(row, conds[i])
             found == Taken(Len(t.rows), {i \in 1..Len(t.rows) : Match(t.rows[i])}, r.max)
         IN  IF ~(wanted \subseteq t.fields) \/ ~Parsable(r.conds)
             THEN Failed("InvalidParameter")
             ELSE Answered([k \in 1..Len(found) |-> Project(t.rows[found[k]], wanted)])

-----------------------------------------------------------------------------
(* The other operations.                                                   *)

MaxOf(a, b) == IF a > b THEN a ELSE b

\* The first n of a list.
FirstRows(rows, n) == IF Len(rows) <= n THEN rows ELSE SubSeq(rows, 1, n)

\* Mutant: the list is cut off before it is sorted.
SearchRfcEarly(q, limit) ==
    LET scoring == {f \in DOMAIN Queries[q] : Queries[q][f] > 0}
        orders == {s \in [1..Cardinality(scoring) -> scoring] :
                      \A i, j \in 1..Len(s) : s[i] = s[j] => i = j}
    IN  {Answered(FirstRows(s, MaxOf(limit, 1))) : s \in orders}

\* search_rfc: the functions are kept in a hash map, so those with the same
\* score come in any order; the sort is stable.
SearchRfc(q, limit) ==
    LET scoring == {f \in DOMAIN Queries[q] : Queries[q][f] > 0}
        Ranked(s) == \A i, j \in 1..Len(s) :
                        /\ s[i] = s[j] => i = j
                        /\ i < j => Queries[q][s[i]] >= Queries[q][s[j]]
        orders == {s \in [1..Cardinality(scoring) -> scoring] : Ranked(s)}
    IN  {Answered(FirstRows(s, MaxOf(limit, 1))) : s \in orders}

RfcMetadata(f) == IF f \in Catalogued THEN Answered(<<f>>) ELSE Failed("NotFound")

\* bulk_rfc_metadata: what is known, in the order asked for; the rest is missing.
BulkMetadata(fs) ==
    [err |-> "none", rows |-> SelectSeq(fs, LAMBDA f : f \in Catalogued),
     missing |-> SelectSeq(fs, LAMBDA f : f \notin Catalogued)]

TableStructure(t) == IF t \in DOMAIN Tables THEN Answered(<<t>>) ELSE Failed("NotFound")

\* system_info always names client 100, whatever the session's client.
SystemInfo == Answered(<<Default>>)

-----------------------------------------------------------------------------

ReadRequests ==
    [op : {"read"}, table : DOMAIN Tables \cup {"NONE"},
     fields : {{}, {"MTART"}, {"mtart", "MATKL"}, {"ZZZ"}}, conds : Wheres, max : Limits]
ParamSets == {{}, {"text"}, {"<x>"}} \cup {RequiredImports(f) : f \in Catalogued}

Serve(request, answer) == ask' = request /\ ans' = answer /\ UNCHANGED identity

ServeRead == \E r \in ReadRequests : Serve(r, ReadTable(r))
ServeSearch ==
    \E q \in DOMAIN Queries, n \in Limits : \E a \in SearchRfc(q, n) :
        Serve([op |-> "search", query |-> q, max |-> n], a)
ServeMetadata ==
    \/ \E f \in Functions : Serve([op |-> "metadata", name |-> f], RfcMetadata(f))
    \/ \E f, g \in Functions : Serve([op |-> "bulk", names |-> <<f, g>>], BulkMetadata(<<f, g>>))
    \/ \E t \in DOMAIN Tables \cup {"NONE"} :
          Serve([op |-> "structure", name |-> t], TableStructure(t))
    \/ Serve([op |-> "info"], SystemInfo)
ServeCall ==
    \E f \in Functions, ps \in ParamSets, ro \in BOOLEAN :
        Serve([op |-> "call", function |-> f, params |-> ps, readOnly |-> ro],
              Failed(MockCall(f, ps, ro)))

CatalogueInit ==
    /\ identity \in Identities \cup {<<>>}
    /\ ask = [op |-> "nothing"]
    /\ ans = Answered(<<>>)

\* Requests do not depend on one another: each is asked of a fresh client.
CatalogueNext ==
    ask.op = "nothing" /\ (ServeRead \/ ServeSearch \/ ServeMetadata \/ ServeCall)

CatalogueSpec == CatalogueInit /\ [][CatalogueNext]_cvars

-----------------------------------------------------------------------------

SessionClient == IF identity = <<>> THEN Default ELSE identity

\* The standard meaning of LIKE: the text can be cut so that every % of the
\* pattern stands for a piece of it, every other character for one character,
\* itself or, if it is _, any.  cut[j] characters go to the first j of p.
LikeMatch(h, p) ==
    \E cut \in [0..Len(p) -> 0..Len(h)] :
        /\ cut[0] = 0 /\ cut[Len(p)] = Len(h)
        /\ \A j \in 1..Len(p) :
              IF p[j] = Percent THEN cut[j - 1] <= cut[j]
              ELSE cut[j] = cut[j - 1] + 1 /\ p[j] \in {Underscore, h[cut[j]]}

\* Patterns sql_like is exact for: no wildcard, prefix%, %part%.
Exact(p) ==
    /\ \A i \in 1..Len(p) : p[i] # Underscore /\ (p[i] = Percent => i \in {1, Len(p)})
    /\ p # <<>> /\ p[1] = Percent => p[Len(p)] = Percent

\* The conditions read_table supports: = and LIKE on a column of the table,
\* with a pattern of those forms.
Supported(t, c) ==
    c.rel \in {"=", "LIKE"} /\ ColumnOf(c.column) \in t.fields /\ Exact(Fold(c.value))

\* sap.table.read answers as a SELECT that ignores case would: the first
\* max_rows rows, in table order, that satisfy every condition and, unless the
\* caller names a client, belong to the session's, whenever the conditions are
\* of the supported forms (client.rs:404-446, 471-538).
ReadIsSelect ==
    /\ ask.op = "read" /\ ans.err = "none"
    /\ \A k \in 1..Len(ask.conds) : Supported(Tables[ask.table], ask.conds[k])
    =>  LET t == Tables[ask.table]
            Selected(i) ==
                /\ \A k \in 1..Len(ask.conds) :
                      LET c == ask.conds[k]
                          v == Fold(FieldText(t.rows[i], c.column))
                      IN  IF c.rel = "=" THEN v = Fold(c.value) ELSE LikeMatch(v, Fold(c.value))
                /\ \/ t.client = "none"
                   \/ \E k \in 1..Len(ask.conds) : ColumnOf(ask.conds[k].column) = t.client
                   \/ Fold(FieldText(t.rows[i], t.client)) = Fold(SessionClient)
            chosen == {i \in 1..Len(t.rows) : Selected(i)
                          /\ Cardinality({k \in 1..i : Selected(k)}) <= ask.max}
        IN  /\ Len(ans.rows) = Cardinality(chosen)
            /\ \A i \in chosen :
                  ans.rows[Cardinality({k \in chosen : k <= i})]
                     = Project(t.rows[i], Projection(ask.table, ask.fields))

\* A search returns at least one hit if there is one, never more than asked
\* for, and leaves out no function that scores higher than one it returns
\* (client.rs:301-324).
SearchIsTop ==
    ask.op = "search" =>
        LET score == Queries[ask.query]
            scoring == {f \in DOMAIN score : score[f] > 0}
            hits == {ans.rows[i] : i \in 1..Len(ans.rows)}
        IN  /\ Len(ans.rows) <= MaxOf(ask.max, 1)
            /\ scoring # {} => hits # {}
            /\ \A f \in hits, g \in scoring \ hits : score[f] >= score[g]
=============================================================================
