---------------------------- MODULE MCFileStructure ----------------------------
(* Small parsed files, those that exercise the nesting and those that exercise the selection, *)
(* and small syntax trees of each language.                                                   *)
EXTENDS FileStructure

CONSTANTS
    Names,                       \* of the symbols a caller makes up
    Length, Narrow, MaxSymbols,  \* of its files
    MaxNodes                     \* of the trees

(* Ranges in a file of some size, one position beyond it, and an empty one. *)
Ranges(size) == {r \in (0 .. size + 1) \X (0 .. size + 1) : r[1] < r[2] \/ r = <<1, 1>>}
NamedSymbols ==
    {[name |-> n, start |-> r[1], end |-> r[2], parent |-> p] :
        n \in Names, r \in Ranges(Narrow), p \in Names \cup {None}}

(* The sorted lists of at most n symbols from S, filled up to n. *)
Filler == [name |-> None, start |-> 0, end |-> 0, parent |-> None]
Filled(list, filler) == SelectSeq(list, LAMBDA x : x # filler)

RECURSIVE Lists(_, _)
Lists(S, n) ==
    IF n = 0 THEN {<< >>}
    ELSE {Append(c[1], c[2]) : c \in
             {p \in Lists(S, n - 1) \X (S \cup {Filler}) :
                 \/ p[2] = Filler
                 \/ n = 1
                 \/ p[1][n - 1] # Filler /\ KeyLeq(p[1][n - 1], p[2])}}

(* Any symbols without names in a file of Length, with any whitespace and at *)
(* most one error, and any symbols whatever in a smaller one.              *)
PlainSymbols ==
    {[name |-> CHOOSE n \in Names : TRUE, start |-> r[1], end |-> r[2], parent |-> None] :
        r \in {x \in Ranges(Length) : x[1] < x[2] /\ x[2] <= Length}}

Clean == [blank |-> {}, status |-> "success", unsafe |-> {}]
Errors == {{}} \cup {{u} : u \in {r \in (0 .. Length) \X (0 .. Length) : r[1] <= r[2]}}
Texts == [blank : SUBSET (1 .. Length), status : {"success"}, unsafe : {{}}]
    \cup [blank : {{}, {1}, {Length}}, status : {"partial"}, unsafe : Errors]

File(list, text, size) ==
    [symbols |-> Filled(list, Filler), size |-> size,
     blank |-> text.blank, status |-> text.status, unsafe |-> text.unsafe]
AllFiles ==
    LET plain == Lists(PlainSymbols, MaxSymbols)
        named == Lists(NamedSymbols, MaxSymbols)
        cases == (plain \X Texts \X {Length}) \cup (named \X {Clean} \X {Narrow})
    IN {File(c[1], c[2], c[3]) : c \in cases}

(* What the grammar of each language allows in a node of some type, as far *)
(* as the extractors tell it apart.                                        *)
Definitions == {"class", "function"}
PythonGrammar ==
    [program |-> Definitions \cup {"decorator", "assignment", "call", "ERROR"},
     ERROR |-> Definitions \cup {"call"},
     class |-> Definitions \cup {"decorator", "assignment", "call", "ERROR"},
     function |-> Definitions \cup {"decorator", "assignment", "call"},
     assignment |-> {"assignment", "call"},
     call |-> {"call", "ERROR"},
     decorator |-> {"call"}]
JavaGrammar ==
    [program |-> {"class", "record", "ERROR"},
     ERROR |-> {"class", "method", "call"},
     class |-> {"class", "record", "method", "field", "fields", "block", "ERROR"},
     record |-> {"class", "method"},
     anonymous |-> {"class", "method", "field"},
     field |-> {"call", "anonymous", "block"},
     fields |-> {"call", "anonymous"},
     block |-> {"class", "call"},
     method |-> {"class", "anonymous", "call"}]
EcmaScriptGrammar ==
    [program |-> {"export", "class", "interface", "function", "binding", "const", "namespace",
                  "block", "ERROR"},
     export |-> {"class", "interface", "function", "binding", "const", "namespace"},
     ERROR |-> {"function", "class", "const"},
     class |-> {"decorator", "class_expression"},
     decorator |-> {"call", "value"},
     function |-> {"binding"},
     method |-> {"decorator"},
     binding |-> {"binding", "call"},
     value |-> {"call"},
     const |-> {"value", "binding", "class_expression", "method"},
     static_readonly |-> {"value", "class_expression"},
     block |-> {"const", "function"}]

Grammar == [python |-> PythonGrammar, java |-> JavaGrammar, ecmascript |-> EcmaScriptGrammar]

(* What it allows in the bodies of ECMAScript, and what a body is there.   *)
Bodies ==
    [class |-> {"method", "static_readonly", "ERROR"},
     class_expression |-> {"method", "static_readonly"},
     interface |-> {"method"},
     namespace |-> {"export", "function", "const"},
     function |-> {"class", "function", "binding", "call", "class_expression"},
     method |-> {"function", "call"},
     binding |-> {"function", "call"},
     value |-> {"function"}]
BodyOf(type) ==
    IF type \in {"class", "class_expression"} THEN "class_body"
    ELSE IF type = "interface" THEN "interface_body" ELSE "block"

Allowed(language, type, inside) ==
    LET grammar == IF inside THEN Bodies ELSE Grammar[language]
    IN IF type \in DOMAIN grammar /\ (inside => language = "ecmascript") THEN grammar[type] ELSE {}

(* A further node may be put in the last one, and, as long as no node has  *)
(* two in it, in those that one is in.                                     *)
IsOpen(t, n, inside) ==
    LET nodes == t.nodes
    IN IF n = 0 THEN ~inside
       ELSE /\ nodes[Len(nodes)].type # "none"
            /\ n = Len(nodes) \/ \A m \in 2 .. Len(nodes) : nodes[m].up = m - 1
            /\ Allowed(t.language, nodes[n].type, inside) # {}

(* Decorators come first, those of Python in front of what they decorate,  *)
(* and a body last; an export statement has one declaration, the signature *)
(* of a method no body.                                                    *)
Fits(language, nodes, x) ==
    LET up == nodes[x.up]
        before == {i \in 1 .. Len(nodes) : nodes[i].up = x.up}
    IN /\ \A i \in before : nodes[i].inside => x.inside
       /\ up.type = "export" => before = {}
       /\ up.type = "method" => nodes[up.up].type # "interface"
       /\ x.type = "decorator" /\ language # "python" => before = {}
       /\ language = "python" => \A i \in before : nodes[i].type = "decorator" => x.type \in Definitions

(* The constructs of at most n nodes, bodies not counted, each in another  *)
(* one or inside its body; filled up to n with nodes that are none.        *)
Blank == [type |-> "none", up |-> 0, inside |-> FALSE]
Types == {"none"} \cup
    UNION {UNION {g[t] : t \in DOMAIN g} : g \in {Grammar[l] : l \in Languages} \cup {Bodies}}

MayFollow(t, x) ==
    IF x.up = 0 THEN x = Blank
    ELSE /\ x.type \in Allowed(t.language, t.nodes[x.up].type, x.inside)
         /\ Fits(t.language, t.nodes, x)

RECURSIVE Syntax(_)
Syntax(n) ==
    IF n = 1
    THEN [language : Languages, nodes : {<<[type |-> "program", up |-> 0, inside |-> FALSE]>>}]
    ELSE LET open == {c \in Syntax(n - 1) \X (0 .. n - 1) \X BOOLEAN : IsOpen(c[1], c[2], c[3])}
             node(c) == [type |-> c[2], up |-> c[1][2], inside |-> c[1][3]]
         IN {[c[1][1] EXCEPT !.nodes = Append(@, node(c))] :
                c \in {d \in open \X Types : MayFollow(d[1][1], node(d))}}

Decorated(nodes) ==
    \A i \in 1 .. Len(nodes) : nodes[i].type = "decorator" =>
        \E j \in i + 1 .. Len(nodes) : nodes[j].up = nodes[i].up

(* A construct as the nodes it has, each with the number of nodes from it  *)
(* to its end: itself, what is in it, and then its body, unless empty.     *)
RECURSIVE Flat(_, _)
Flat(nodes, n) ==
    LET of(i) == IF nodes[i].up = n THEN Flat(nodes, i) ELSE << >>
        parts(inside) ==
            FlattenSeq([i \in 1 .. Len(nodes) |-> IF nodes[i].inside = inside THEN of(i) ELSE << >>])
        body == parts(TRUE)
        in == parts(FALSE) \o
                 (IF body = << >> THEN << >>
                  ELSE <<[type |-> BodyOf(nodes[n].type), size |-> Len(body) + 1]>> \o body)
    IN <<[type |-> nodes[n].type, size |-> Len(in) + 1]>> \o in

Tree(t) ==
    LET flat == Flat(Filled(t.nodes, Blank), 1)
    IN [language |-> t.language,
        nodes |-> [n \in 1 .. Len(flat) |-> [type |-> flat[n].type, end |-> n + flat[n].size - 1]]]

AllTrees ==
    {Tree(t) : t \in {u \in Syntax(MaxNodes) : u.language = "python" => Decorated(u.nodes)}}
===============================================================================
