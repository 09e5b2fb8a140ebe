------------------------------- MODULE Extraction -------------------------------
(***************************************************************************)
(* The extractors (code_parser/extractors): one walk over the syntax tree  *)
(* of a file (iter_events in base.py) in which the extractor of its        *)
(* language keeps the lexical scopes on stacks, and finds the symbols with *)
(* their parents and the calls with their callers.  Texts, parameters,     *)
(* types and imports are abstracted; a symbol is named by its node.        *)
(***************************************************************************)
EXTENDS Naturals, Sequences, SequencesExt

CONSTANTS
    Trees,   \* [language, nodes]: each node [type, end], in source order
    Nobody   \* the parent or the caller where there is none

(* In Python and Java a node stands for a construct with its body; in      *)
(* ECMAScript the body of a class or an interface and the statement block  *)
(* of a function or a namespace are nodes in it, beside what is around     *)
(* them: parameters, what a class extends, the expression that an arrow    *)
(* function returns.  "fields" is a Java field of two names, "binding" a   *)
(* variable or assignment that names a function, "value" a function        *)
(* without a name, and "anonymous" the body of a Java object creation.     *)
Languages == {"python", "java", "ecmascript"}
TypesOf(language) ==
    {"program", "ERROR", "block", "call", "class"} \cup
        IF language = "python" THEN {"decorator", "function", "assignment"}
        ELSE IF language = "java" THEN {"record", "anonymous", "method", "field", "fields"}
        ELSE {"decorator", "export", "interface", "namespace", "class_expression", "function",
              "method", "binding", "value", "const", "static_readonly", "class_body",
              "interface_body"}

(* A node comes before those in it, and ends with the last of them; the    *)
(* first holds all the others, and is an error if the file cannot be read  *)
(* as a program at all.                                                    *)
IsTree(t) ==
    LET last == Len(t.nodes)
    IN /\ t.language \in Languages
       /\ t.nodes \in Seq([type : TypesOf(t.language), end : Nat])
       /\ last > 0 /\ t.nodes[1].end = last /\ t.nodes[1].type \in {"program", "ERROR"}
       /\ \A n \in 2 .. last : t.nodes[n].type # "program"
       /\ \A n \in 1 .. last :
             /\ t.nodes[n].end \in n .. last
             /\ \A m \in n .. t.nodes[n].end : t.nodes[m].end <= t.nodes[n].end

ASSUME TreesAreSyntax == \A t \in Trees : IsTree(t)
ASSUME NobodyIsNoNode == Nobody \notin Nat

VARIABLES
    tree,      \* the tree
    events,    \* what is left of the walk, as [node, leaving]
    scopes,    \* the symbols around the next node that have members
    owners,    \* for each of them and each barrier, who owns the calls in it
    barriers,  \* barrier_depth: how many barriers are around the next node
    pushed,    \* the open nodes that have pushed a scope, barrier or decorator
    context,   \* contextual_modifiers: whether an export is around
    restore,   \* modifier_context_restore
    bodies,    \* extracted_class_bodies
    symbols,   \* what was found: symbols, and
    calls      \* calls

walk == <<tree, events, scopes, owners, barriers, pushed, context, restore, bodies, symbols, calls>>

Latest(S) == CHOOSE n \in S : \A m \in S : m <= n

(* source_location: a node begins with a byte of its own, and ends with    *)
(* the last node in it.  The nodes around one are above it, the innermost  *)
(* of them is its parent.                                                  *)
Size == Len(tree.nodes)
Type(n) == tree.nodes[n].type
Start(n) == n - 1
End(n) == tree.nodes[n].end
Above(n) == {a \in 1 .. n - 1 : n <= End(a)}
Up(n) == Latest(Above(n))
Children(n) ==
    LET upTo[m \in n .. End(n)] ==
            IF m = n THEN << >>
            ELSE IF Up(m) = n THEN Append(upTo[m - 1], m) ELSE upTo[m - 1]
    IN upTo[End(n)]

(* is_trustworthy_capture *)
Trusted(n) == \A m \in n .. End(n) : Type(m) # "ERROR"

WalkTypeOK ==
    /\ tree \in Trees
    /\ events \in Seq([node : 1 .. Size, leaving : BOOLEAN])
    /\ scopes \in Seq(1 .. Size) /\ owners \in Seq((1 .. Size) \cup {Nobody})
    /\ barriers \in 0 .. Size
    /\ pushed \in [scope : SUBSET (1 .. Size), barrier : SUBSET (1 .. Size),
                   decorator : SUBSET (1 .. Size)]
    /\ context \in BOOLEAN /\ bodies \subseteq 1 .. Size
    /\ DOMAIN restore \subseteq 1 .. Size /\ \A n \in DOMAIN restore : restore[n] \in BOOLEAN
    /\ symbols \subseteq [node : 1 .. Size, part : {1, 2}, parent : (1 .. Size) \cup {Nobody},
                          exported : BOOLEAN]
    /\ calls \subseteq [node : 1 .. Size, caller : (1 .. Size) \cup {Nobody}]

Entering(n) == [node |-> n, leaving |-> FALSE]
Leaving(n) == [node |-> n, leaving |-> TRUE]

WalkInit ==
    /\ tree \in Trees
    /\ events = <<Entering(1)>>
    /\ scopes = << >> /\ owners = << >> /\ barriers = 0
    /\ pushed = [scope |-> {}, barrier |-> {}, decorator |-> {}]
    /\ context = FALSE /\ restore = [n \in {} |-> FALSE] /\ bodies = {}
    /\ symbols = {} /\ calls = {}

-------------------------------------------------------------------------------
(* What entering a node may do *)

(* Mutant: a symbol belongs to the outermost symbol around it. *)
ParentMutant == IF scopes = << >> THEN Nobody ELSE Head(scopes)

Parent == IF scopes = << >> THEN Nobody ELSE Last(scopes)
IsMemberOf(types) == scopes # << >> /\ Type(Last(scopes)) \in types
Owner == IF owners = << >> THEN Nobody ELSE Last(owners)

stacks == <<scopes, owners, barriers, pushed>>
found == <<symbols, calls>>
modifiers == <<context, restore, bodies>>

Pass == UNCHANGED <<stacks, found>>

PushScope(n, owner) ==
    /\ scopes' = Append(scopes, n) /\ owners' = Append(owners, owner)
    /\ pushed' = [pushed EXCEPT !.scope = @ \cup {n}]
    /\ UNCHANGED barriers

PushBarrier(n) ==
    /\ owners' = Append(owners, Nobody) /\ barriers' = barriers + 1
    /\ pushed' = [pushed EXCEPT !.barrier = @ \cup {n}]
    /\ UNCHANGED <<scopes, found>>

Emit(n, parts) ==
    /\ symbols' = symbols \cup
          {[node |-> n, part |-> i, parent |-> Parent, exported |-> context] : i \in parts}
    /\ UNCHANGED calls

Constant(n, parts) == Emit(n, parts) /\ UNCHANGED stacks

(* Mutant: a declaration behind a barrier is a symbol if it is undamaged. *)
DeclareMutant(n, owner) ==
    \/ Trusted(n) /\ Emit(n, {1}) /\ PushScope(n, owner)
    \/ ~Trusted(n) /\ PushBarrier(n)

(* A declaration behind a barrier, or a damaged one, is a barrier itself.  *)
Declare(n, owner) ==
    \/ barriers = 0 /\ Trusted(n) /\ Emit(n, {1}) /\ PushScope(n, owner)
    \/ (barriers > 0 \/ ~Trusted(n)) /\ PushBarrier(n)

Call(n, caller) ==
    /\ calls' = calls \cup (IF Trusted(n) THEN {[node |-> n, caller |-> caller]} ELSE {})
    /\ UNCHANGED <<stacks, symbols>>

-------------------------------------------------------------------------------
(* The extractors.  A node of another type changes nothing.                *)

PythonTypes == {"decorator", "class", "function", "assignment", "call"}

Python(n) ==
    \/ /\ Type(n) = "decorator"
       /\ owners' = Append(owners, Nobody)
       /\ pushed' = [pushed EXCEPT !.decorator = @ \cup {n}]
       /\ UNCHANGED <<scopes, barriers, found>>
    \/ Type(n) = "class" /\ Declare(n, Nobody)
    \/ Type(n) = "function" /\ Declare(n, n)
    \/ /\ Type(n) = "assignment"
       /\ IF barriers = 0 /\ (scopes = << >> \/ IsMemberOf({"class"})) /\ Trusted(n)
          THEN Constant(n, {1}) ELSE Pass
    \/ Type(n) = "call" /\ Call(n, Owner)
    \/ Type(n) \notin PythonTypes /\ Pass

JavaTypes == {"record", "anonymous", "class", "method", "field", "fields", "call"}
TypeBodies == {"class", "record", "anonymous"}

FieldParts(n) == IF Type(n) = "fields" THEN {1, 2} ELSE {1}

Java(n) ==
    \/ Type(n) \in {"record", "anonymous"} /\ PushBarrier(n)
    \/ Type(n) = "class" /\ Declare(n, Nobody)
    \/ /\ Type(n) = "method"
       /\ IF Type(Up(n)) \in TypeBodies /\ barriers = 0 /\ IsMemberOf({"class"})
          THEN Declare(n, n) ELSE Pass
    \/ /\ Type(n) \in {"field", "fields"}
       /\ IF barriers = 0 /\ Trusted(n) /\ IsMemberOf({"class"}) /\ Type(Up(n)) \in TypeBodies
          THEN Constant(n, FieldParts(n)) ELSE Pass
    \/ Type(n) = "call" /\ Call(n, Owner)
    \/ Type(n) \notin JavaTypes /\ Pass

EcmaScriptTypes == {"decorator", "class_expression", "namespace", "class", "interface",
    "function", "method", "binding", "static_readonly", "const", "call"}

IsModuleDeclaration(n) ==
    \/ Type(Up(n)) = "program"
    \/ Type(Up(n)) = "export" /\ Type(Up(Up(n))) = "program"

EcmaScript(n) ==
    \/ /\ Type(n) = "decorator"
       /\ pushed' = [pushed EXCEPT !.decorator = @ \cup {n}]
       /\ UNCHANGED <<scopes, owners, barriers, found>>
    \/ Type(n) \in {"class_expression", "namespace"} /\ PushBarrier(n)
    \/ Type(n) \in {"class", "interface"} /\ Declare(n, Nobody)
    \/ Type(n) \in {"function", "binding"} /\ Declare(n, n)
    \/ /\ Type(n) = "method"
       /\ IF barriers > 0 \/ (Up(n) \in bodies /\ IsMemberOf({"class", "interface"}))
          THEN Declare(n, n) ELSE Pass
    \/ /\ Type(n) = "static_readonly"
       /\ IF /\ Type(Up(n)) = "class_body" /\ Up(n) \in bodies
             /\ IsMemberOf({"class"}) /\ Trusted(n)
          THEN Constant(n, {1}) ELSE Pass
    \/ /\ Type(n) = "const"
       /\ IF IsModuleDeclaration(n) /\ Trusted(n) THEN Constant(n, {1}) ELSE Pass
    \/ Type(n) = "call" /\ Call(n, IF pushed.decorator = {} THEN Owner ELSE Nobody)
    \/ Type(n) \notin EcmaScriptTypes /\ Pass

(* Mutant: the modifiers of an export statement go on in the blocks in it. *)
BoundariesMutant == {"program", "class_body"}

(* _MODIFIER_CONTEXT_BOUNDARIES: the modifiers of an export statement hold *)
(* up to the class bodies and statement blocks in it.  They hold for what  *)
(* is declared in parameters, in what a class extends, in a function       *)
(* without a block, and for the members of an interface.                   *)
Boundaries == {"program", "class_body", "block"}

BodyTypes == {"class_body", "interface_body"}
BodiesOf(n) == {b \in n + 1 .. End(n) : Up(b) = n /\ Type(b) \in BodyTypes}

EnterContext(n) ==
    /\ bodies' = IF n \in pushed'.scope /\ Type(n) \in {"class", "interface"}
                 THEN bodies \cup BodiesOf(n) ELSE bodies
    /\ IF Type(n) \in Boundaries \cup {"export"}
       THEN /\ context' = (Type(n) = "export")
            /\ restore' = [m \in DOMAIN restore \cup {n} |->
                              IF m = n THEN context ELSE restore[m]]
       ELSE UNCHANGED <<context, restore>>

-------------------------------------------------------------------------------
(* iter_events *)

At(n, leaving) == events # << >> /\ Head(events) = [node |-> n, leaving |-> leaving]

Enter(n) ==
    /\ At(n, FALSE)
    /\ LET inside == Children(n)
       IN events' = [i \in 1 .. Len(inside) |-> Entering(inside[i])]
                       \o <<Leaving(n)>> \o Tail(events)
    /\ \/ tree.language = "python" /\ Python(n) /\ UNCHANGED modifiers
       \/ tree.language = "java" /\ Java(n) /\ UNCHANGED modifiers
       \/ tree.language = "ecmascript" /\ EcmaScript(n) /\ EnterContext(n)
    /\ UNCHANGED tree

(* The decorators of Python are on the stack of owners, those of           *)
(* ECMAScript on one of their own (decorator_owners).                      *)
OwnersPushedBy(n) ==
    {w \in {"scope", "barrier", "decorator"} :
        n \in pushed[w] /\ (w = "decorator" => tree.language = "python")}

(* Mutant: a barrier leaves its entry on the stack of owners. *)
LeaveMutant(n) ==
    /\ At(n, TRUE)
    /\ events' = Tail(events)
    /\ owners' = SubSeq(owners, 1, Len(owners) - Cardinality(OwnersPushedBy(n) \ {"barrier"}))
    /\ scopes' = IF n \in pushed.scope THEN Front(scopes) ELSE scopes
    /\ barriers' = IF n \in pushed.barrier THEN barriers - 1 ELSE barriers
    /\ pushed' = [w \in DOMAIN pushed |-> pushed[w] \ {n}]
    /\ context' = IF n \in DOMAIN restore THEN restore[n] ELSE context
    /\ restore' = [m \in DOMAIN restore \ {n} |-> restore[m]]
    /\ UNCHANGED <<tree, bodies, found>>

Leave(n) ==
    /\ At(n, TRUE)
    /\ events' = Tail(events)
    /\ owners' = SubSeq(owners, 1, Len(owners) - Cardinality(OwnersPushedBy(n)))
    /\ scopes' = IF n \in pushed.scope THEN Front(scopes) ELSE scopes
    /\ barriers' = IF n \in pushed.barrier THEN barriers - 1 ELSE barriers
    /\ pushed' = [w \in DOMAIN pushed |-> pushed[w] \ {n}]
    /\ context' = IF n \in DOMAIN restore THEN restore[n] ELSE context
    /\ restore' = [m \in DOMAIN restore \ {n} |-> restore[m]]
    /\ UNCHANGED <<tree, bodies, found>>

WalkNext == \E n \in 1 .. Size : Enter(n) \/ Leave(n)

WalkSpec == WalkInit /\ [][WalkNext]_walk

Finished == events = << >>

(* classify_parse_status *)
ParseStatus ==
    IF Trusted(1) THEN "success"
    ELSE IF symbols # {} \/ calls # {} THEN "partial" ELSE "failed"

-------------------------------------------------------------------------------
(* Properties *)

Found == {s.node : s \in symbols}

Opaque == {"record", "anonymous", "namespace", "class_expression"}
Containers == {"class", "interface", "function", "binding"}
Callables == {"function", "binding", "method"}

(* A method is a member of the class or interface whose body it is in.     *)
HoldsMembers(b) ==
    IF tree.language = "java" THEN Type(b) = "class"
    ELSE Type(b) \in BodyTypes /\ Type(Up(b)) \in {"class", "interface"}
IsMember(n) == Type(n) = "method" /\ HoldsMembers(Up(n))
IsContainer(n) == Type(n) \in Containers \/ IsMember(n)

(* What is in none of the symbols, but in something like them.             *)
Closed(n) == Type(n) \in Opaque \/ (IsContainer(n) /\ n \notin Found)

(* An undamaged call belongs to the innermost declaration around it if     *)
(* that is a function or a method among the symbols, and to nobody         *)
(* otherwise, nor if it is in a decorator: such calls are "universally     *)
(* unowned" in the tests (tests/test_code_parser.py, lines 2704 and 2722). *)
(* Only what a syntax error in a decorator of Python turns into a          *)
(* declaration there owns the calls in it.                                 *)
OwnersAreLexical ==
    Finished =>
        /\ {c.node : c \in calls} = {n \in 1 .. Size : Type(n) = "call" /\ Trusted(n)}
        /\ \A c \in calls :
              LET around == {a \in Above(c.node) : IsContainer(a) \/ Type(a) \in Opaque}
                  owned == /\ around # {} /\ Latest(around) \in Found
                           /\ Type(Latest(around)) \in Callables
                           /\ \A a \in Above(c.node) : Type(a) = "decorator" =>
                                 tree.language = "python" /\ a < Latest(around)
              IN c.caller = IF owned THEN Latest(around) ELSE Nobody

(* The declarations that are symbols if nothing around them is closed, and *)
(* the constants among them (design of the parser, section 13).            *)
IsConstant(n) ==
    \/ Type(n) \in {"field", "fields"} /\ Type(Up(n)) = "class"
    \/ Type(n) = "static_readonly" /\ Type(Up(n)) = "class_body" /\ Type(Up(Up(n))) = "class"
    \/ Type(n) = "const" /\ IsModuleDeclaration(n)
    \/ /\ Type(n) = "assignment"
       /\ LET around == {a \in Above(n) : IsContainer(a)}
          IN around = {} \/ Type(Latest(around)) = "class"

(* The symbols are the undamaged declarations with nothing closed around   *)
(* them, each with the innermost such declaration as its parent, and       *)
(* exported if it is in an export statement with no class body and no      *)
(* statement block between them: a declaration in the body of an exported  *)
(* one is not exported.                                                    *)
SymbolsAreLexical ==
    Finished =>
        /\ Found = {n \in 1 .. Size : /\ IsContainer(n) \/ IsConstant(n)
                                      /\ Trusted(n) /\ ~\E a \in Above(n) : Closed(a)}
        /\ \A s \in symbols :
              LET around == {a \in Above(s.node) : IsContainer(a)}
                  exports == {a \in Above(s.node) : Type(a) = "export"}
              IN /\ s.parent = IF around = {} THEN Nobody ELSE Latest(around)
                 /\ s.exported <=> exports # {} /\
                       \A a \in Above(s.node) :
                          Type(a) \in {"class_body", "block"} => a < Latest(exports)
===============================================================================
