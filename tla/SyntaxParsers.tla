---------------------------- MODULE SyntaxParsers ----------------------------
(***************************************************************************)
(* The parsers of code_intelligence/parsers that walk a syntax tree: those *)
(* on tree-sitter grammars and the one on Python's ast module.  Each turns *)
(* a file into symbols and relationships.                                  *)
(*                                                                         *)
(* A source is its declarations in the order of the text: the type of the  *)
(* node, the name its handler finds ("" when the child that holds it is    *)
(* missing), the declaration around it (0: the file) and the type it       *)
(* refers to (the receiver of a Go method, a base class, or "").  Several  *)
(* names in one declaration are several declarations.  An id is the        *)
(* sequence of the names in it; lines, signatures and metadata are left    *)
(* out.                                                                    *)
(***************************************************************************)
EXTENDS Naturals, Sequences, FiniteSets

CONSTANT SourceCodes   \* sources: [language, decls]

VARIABLES
  grammar,       \* _parser and _TREE_SITTER_AVAILABLE of the source's language
  source,        \* the source to parse
  parsed,        \* how parse() returned
  symbols, relationships

parserVars == <<grammar, source, parsed, symbols, relationships>>

FileId == <<>>
Unnamed == ""   \* a name that is missing
Nowhere == <<Unnamed>>   \* parent_id None
ExternalId(name) == <<"__external__", name>>

-----------------------------------------------------------------------------
(* What a handler makes of its node: a symbol of a kind whose id is its    *)
(* own name, or is under the names of the holder, of the receiver, or a    *)
(* fixed prefix; its edge; and the body of the node it goes on to visit.   *)
Symbol(kind) ==
  [ kind |-> kind, under |-> "file", parent |-> TRUE, edge |-> "contains",
    member |-> FALSE, bases |-> FALSE, opens |-> "closed" ]

Owned(kind) == [Symbol(kind) EXCEPT !.under = "holder"]
Import == [Symbol("import") EXCEPT !.under = "import:", !.parent = FALSE, !.edge = "imports"]
Opening(rule, body) == [rule EXCEPT !.opens = body]
Deriving(rule) == [rule EXCEPT !.bases = TRUE]
NoEdge(rule) == [rule EXCEPT !.edge = "none"]
NoParent(rule) == [rule EXCEPT !.parent = FALSE]
Member(rule) == [rule EXCEPT !.member = TRUE]

(* Not a symbol: its children are visited as if they were its own place's. *)
Through(body) == Opening(NoEdge(Symbol("none")), body)

(* What two bodies hold, as the first has it where both do.                *)
Beside(nodes, others) ==
  [n \in DOMAIN nodes \union DOMAIN others |->
     IF n \in DOMAIN nodes THEN nodes[n] ELSE others[n]]

-----------------------------------------------------------------------------
(* Java                                                                    *)
JavaClass == Opening(Deriving(Symbol("class")), "class_body")
JavaInterface == Opening(Deriving(Symbol("interface")), "interface_body")
JavaEnum == Symbol("enum")
JavaRecord == Symbol("record")
JavaAnnotation == Symbol("annotation")
JavaImport == Import
JavaAbstractMethod == Owned("abstract_method")
JavaMethod == Owned("method")
JavaConstructor == Owned("constructor")
JavaField == Owned("field")

(* An inner interface or enum is recorded as a class, without its body.    *)
JavaInner == Symbol("class")

JavaClassBody ==
  [ method_declaration |-> JavaMethod, constructor_declaration |-> JavaConstructor,
    field_declaration |-> JavaField, class_declaration |-> JavaClass,
    interface_declaration |-> JavaInner, enum_declaration |-> JavaInner,
    annotation_type_declaration |-> JavaAnnotation ]

JavaNodes ==
  [ file |->
      [ class_declaration |-> JavaClass, interface_declaration |-> JavaInterface,
        enum_declaration |-> JavaEnum, import_declaration |-> JavaImport,
        annotation_type_declaration |-> JavaAnnotation, record_declaration |-> JavaRecord ],
    class_body |-> JavaClassBody,
    interface_body |-> [method_declaration |-> JavaAbstractMethod] ]

-----------------------------------------------------------------------------
(* Go: a method stands beside its receiver's type, which may come later.   *)
GoFunction == Symbol("function")
GoMethod == Member([Symbol("method") EXCEPT !.under = "receiver"])
GoStruct == Opening(Symbol("struct"), "struct_type")
GoInterface == Opening(Symbol("interface"), "interface_type")
GoType == Symbol("type")
GoField == Owned("field")
GoAbstractMethod == Owned("abstract_method")
GoImport == Import
GoConst == Symbol("constant")
GoVar == Symbol("variable")

GoNodes ==
  [ file |->
      [ function_declaration |-> GoFunction, method_declaration |-> GoMethod,
        struct_type |-> GoStruct, interface_type |-> GoInterface, type_spec |-> GoType,
        import_spec |-> GoImport, const_spec |-> GoConst, var_spec |-> GoVar ],
    struct_type |-> [field_declaration |-> GoField],
    interface_type |-> [method_elem |-> GoAbstractMethod] ]

-----------------------------------------------------------------------------
(* Rust: the methods of an impl block stand in the file; the first type    *)
(* identifier of the block names the type, in impl Trait for Type the      *)
(* trait.                                                                  *)
RustFunction == Symbol("function")
RustStruct == Opening(Symbol("struct"), "struct_item")
RustField == Owned("field")
RustEnum == Opening(Symbol("enum"), "enum_item")
RustVariant == Owned("enum_variant")
RustTrait == Symbol("trait")
RustImpl == Through("impl_item")
RustMethod == Member(NoEdge(Owned("method")))
RustUse == Import
RustConst == Symbol("constant")
RustStatic == Symbol("static_variable")
RustType == Symbol("type")
RustModule == Symbol("module")

RustNodes ==
  [ file |->
      [ function_item |-> RustFunction, struct_item |-> RustStruct, enum_item |-> RustEnum,
        trait_item |-> RustTrait, impl_item |-> RustImpl, use_declaration |-> RustUse,
        const_item |-> RustConst, static_item |-> RustStatic, type_item |-> RustType,
        mod_item |-> RustModule ],
    struct_item |-> [field_declaration |-> RustField],
    enum_item |-> [enum_variant |-> RustVariant],
    impl_item |-> [function_item |-> RustMethod] ]

-----------------------------------------------------------------------------
(* C and C++                                                               *)
CFunction == Symbol("function")
CStruct == Opening(Symbol("struct"), "struct_specifier")
CClass == Opening(Deriving(Symbol("class")), "class_specifier")
CMethod == Owned("method")
CField == Owned("field")
CInclude == Import
CTemplate == Through("template_declaration")
CEnum == Symbol("enum")
CTypedef == NoEdge(Symbol("typedef"))
CDeclaration == NoEdge(Symbol("function"))

CppNodes ==
  [ file |->
      [ function_definition |-> CFunction, struct_specifier |-> CStruct,
        class_specifier |-> CClass, preproc_include |-> CInclude,
        template_declaration |-> CTemplate, enum_specifier |-> CEnum,
        type_definition |-> CTypedef ],
    struct_specifier |-> [field_declaration |-> CField],
    class_specifier |-> [function_definition |-> CMethod, field_declaration |-> CField],
    template_declaration |->
      [ class_specifier |-> CClass, function_definition |-> CFunction,
        struct_specifier |-> CStruct ] ]

CNodes == [CppNodes EXCEPT !.file = Beside(@, [declaration |-> CDeclaration])]

-----------------------------------------------------------------------------
(* C#                                                                      *)
CSharpUsing == Import
CSharpNamespace == Opening(Symbol("namespace"), "namespace")
CSharpClass == Opening(Deriving(Symbol("class")), "class")
CSharpInterface == Symbol("interface")
CSharpStruct == Symbol("struct")
CSharpEnum == Symbol("enum")
CSharpMethod == Owned("method")
CSharpProperty == Owned("property")
CSharpField == NoEdge(Owned("field"))

CSharpTypes ==
  [ class_declaration |-> CSharpClass, interface_declaration |-> CSharpInterface,
    struct_declaration |-> CSharpStruct, enum_declaration |-> CSharpEnum ]

CSharpClassBody ==
  [ method_declaration |-> CSharpMethod, property_declaration |-> CSharpProperty,
    field_declaration |-> CSharpField, class_declaration |-> CSharpClass,
    interface_declaration |-> CSharpClass ]

CSharpNodes ==
  [ file |-> Beside(CSharpTypes, [ using_directive |-> CSharpUsing,
                                   namespace_declaration |-> CSharpNamespace ]),
    namespace |-> CSharpTypes,
    class |-> CSharpClassBody ]

-----------------------------------------------------------------------------
(* Kotlin                                                                  *)
KotlinPackage == NoParent(NoEdge([Symbol("package") EXCEPT !.under = "package:"]))
KotlinImport == Import
KotlinClass == Opening(Symbol("class"), "class_body")
KotlinFunction == Symbol("function")
KotlinMethod == Owned("method")
KotlinObject == Symbol("object")
KotlinInterface == Symbol("interface")

KotlinNodes ==
  [ file |->
      [ package_header |-> KotlinPackage, import |-> KotlinImport,
        class_declaration |-> KotlinClass, function_declaration |-> KotlinFunction,
        object_declaration |-> KotlinObject, interface_declaration |-> KotlinInterface ],
    class_body |-> [function_declaration |-> KotlinMethod] ]

-----------------------------------------------------------------------------
(* PHP                                                                     *)
PhpNamespace == NoParent(NoEdge([Symbol("namespace") EXCEPT !.under = "namespace:"]))
PhpUse == Import
PhpClass == Opening(Deriving(Symbol("class")), "class_body")
PhpInterface == Symbol("interface")
PhpTrait == Symbol("trait")
PhpFunction == Symbol("function")
PhpMethod == Owned("method")
PhpProperty == NoEdge(Owned("property"))

PhpNodes ==
  [ file |->
      [ namespace_definition |-> PhpNamespace, namespace_use_declaration |-> PhpUse,
        class_declaration |-> PhpClass, interface_declaration |-> PhpInterface,
        trait_declaration |-> PhpTrait, function_definition |-> PhpFunction ],
    class_body |-> [method_declaration |-> PhpMethod, property_declaration |-> PhpProperty] ]

-----------------------------------------------------------------------------
(* Ruby: the id of a class or module is the path of _current_module, that  *)
(* of a method is its name alone.                                          *)
RubyClass == Opening(Owned("class"), "body_statement")
RubyModule == Opening(Owned("module"), "body_statement")
RubyMethod == Symbol("method")
RubyRequire == Import
RubyConstant == NoEdge(Symbol("constant"))

RubyBody ==
  [method |-> RubyMethod, class |-> RubyClass, module |-> RubyModule, require |-> RubyRequire]

RubyNodes ==
  [ file |-> Beside(RubyBody, [constant_assignment |-> RubyConstant]),
    body_statement |-> RubyBody ]

-----------------------------------------------------------------------------
(* Swift                                                                   *)
SwiftImport == Import
SwiftClass == Opening(Deriving(Symbol("class")), "class_body")
SwiftStruct == Opening(Symbol("struct"), "class_body")
SwiftFunction == Symbol("function")
SwiftMethod == Owned("method")
SwiftProperty == NoEdge(Owned("property"))
SwiftInitializer == Owned("initializer")
SwiftProtocol == Symbol("protocol")
SwiftEnum == Symbol("enum")

SwiftClassBody ==
  [ function_declaration |-> SwiftMethod, property_declaration |-> SwiftProperty,
    init_declaration |-> SwiftInitializer ]

SwiftNodes ==
  [ file |->
      [ import_declaration |-> SwiftImport, class_declaration |-> SwiftClass,
        struct_declaration |-> SwiftStruct, function_declaration |-> SwiftFunction,
        protocol_declaration |-> SwiftProtocol, enum_declaration |-> SwiftEnum ],
    class_body |-> SwiftClassBody ]

-----------------------------------------------------------------------------
(* Python: what stands in the module has neither parent nor edge; imports  *)
(* and calls are found wherever they stand.                                *)
PythonClass == Opening(Deriving(Owned("class")), "class")
PythonFunction == Opening(Owned("function"), "function")
PythonMethod == Owned("method")
PythonProperty == Owned("property")   \* or a magic method
PythonConstant == Symbol("constant")
PythonImport == [Import EXCEPT !.under = "imports"]
PythonCall == Through("closed")

InModule(rule) == NoParent(NoEdge(rule))
PythonAnywhere == [Import |-> PythonImport, Call |-> PythonCall]

PythonNodes ==
  [ file |->
      Beside([ ClassDef |-> InModule(PythonClass), FunctionDef |-> InModule(PythonFunction),
               PropertyDef |-> InModule(PythonFunction), Assign |-> InModule(PythonConstant) ],
             PythonAnywhere),
    class |->
      Beside([ ClassDef |-> PythonClass, FunctionDef |-> PythonMethod,
               PropertyDef |-> PythonProperty ], PythonAnywhere),
    function |-> Beside([ClassDef |-> PythonClass], PythonAnywhere),
    closed |-> PythonAnywhere ]

-----------------------------------------------------------------------------
NodesOf ==
  [ java |-> JavaNodes, go |-> GoNodes, rust |-> RustNodes, c |-> CNodes, cpp |-> CppNodes,
    csharp |-> CSharpNodes, kotlin |-> KotlinNodes, php |-> PhpNodes, ruby |-> RubyNodes,
    swift |-> SwiftNodes, python |-> PythonNodes ]

ASSUME SourceCodesAssumption ==
  \A s \in SourceCodes :
    /\ s.language \in DOMAIN NodesOf
    /\ s.decls \in Seq([node : STRING, name : STRING, up : Nat, of : STRING])
    /\ \A i \in DOMAIN s.decls : s.decls[i].up < i

(* The names a holder passes down: its own, in Ruby and Python its path.   *)
Names(s, place, d) ==
  IF s.language \in {"ruby", "python"} THEN Append(place.names, d.name) ELSE <<d.name>>

Holder(rule, place, d) ==
  IF rule.under = "holder" THEN place.names
  ELSE IF rule.under = "receiver" /\ d.of # Unnamed THEN <<d.of>>
  ELSE IF rule.under \in {"file", "receiver"} THEN <<>>
  ELSE <<rule.under>>

IdOf(rule, place, d) == Append(Holder(rule, place, d), d.name)

(* A handler returns at once when it finds no name; that of a template and *)
(* of Python's nodes does not look for one.  What has no handler, and what *)
(* its handler leaves alone, is not recorded.                              *)
Handles(s, place, d) ==
  /\ place.body \in DOMAIN NodesOf[s.language]
  /\ d.node \in DOMAIN NodesOf[s.language][place.body]
  /\ d.name # Unnamed \/ d.node = "template_declaration"

RuleOf(s, place, d) ==
  IF Handles(s, place, d) THEN NodesOf[s.language][place.body][d.node] ELSE Through("closed")

(* Declaration d met at a place by a rule: its holder and id, what stands  *)
(* around it, and where its children stand: in which body, held by which   *)
(* symbol, with which names, and inside which callable symbol (Python).    *)
Met(s, place, d, rule) ==
  [ rule |-> rule, holder |-> Holder(rule, place, d), id |-> IdOf(rule, place, d),
    parent |-> place.at, within |-> place.caller,
    body |-> rule.opens,
    at |-> IF rule.kind = "none" THEN place.at ELSE IdOf(rule, place, d),
    names |-> Names(s, place, d),
    caller |-> IF rule.kind \in {"class", "function", "method"} THEN IdOf(rule, place, d)
               ELSE place.caller ]

VisitNode(s, place, d) == Met(s, place, d, RuleOf(s, place, d))

Root == [body |-> "file", at |-> FileId, names |-> <<>>, caller |-> Nowhere]

Walk(s) ==
  LET met[i \in 0 .. Len(s.decls)] ==
        IF i = 0 THEN Root ELSE VisitNode(s, met[s.decls[i].up], s.decls[i])
  IN met

-----------------------------------------------------------------------------
(* The types of the file, which Go's and Rust's parsers collect from its   *)
(* root before they visit anything: GoSymbolParser._collect_type_names.    *)
TypeNodes ==
  [ go |-> {"struct_type", "interface_type", "type_spec"},
    rust |-> {"struct_item", "enum_item", "trait_item", "type_item"} ]

IsType(s, d) ==
  s.language \in DOMAIN TypeNodes /\ d.up = 0 /\ d.node \in TypeNodes[s.language]

(* Mutant: only the types met so far are known to a method.                *)
TypesKnownSoFar(s, i) ==
  {s.decls[j].name : j \in {k \in 1 .. i : IsType(s, s.decls[k])}}

TypesKnown(s, i) ==
  {s.decls[j].name : j \in {k \in DOMAIN s.decls : IsType(s, s.decls[k])}}

(* What declaration i adds, as the walk W met it.                          *)
SymbolsAt(s, i, W) ==
  IF W[i].rule.kind = "none" THEN {}
  ELSE {[ id |-> W[i].id, kind |-> W[i].rule.kind, name |-> s.decls[i].name,
          parent |-> IF W[i].rule.parent THEN W[i].parent ELSE Nowhere ]}

Importer(s, i, W) == IF s.language = "python" THEN FileId ELSE W[i].parent

EdgesAt(s, i, W) ==
  LET m == W[i]
      of == s.decls[i].of
  IN (IF m.rule.edge = "contains" THEN {<<m.parent, m.id, "contains">>} ELSE {})
     \union (IF m.rule.edge = "imports" THEN {<<Importer(s, i, W), m.id, "imports">>} ELSE {})
     \union (IF m.rule.bases /\ of # Unnamed THEN {<<m.id, ExternalId(of), "inherits">>} ELSE {})
     \union (IF m.rule.member /\ m.holder # <<>> /\ m.holder[1] \in TypesKnown(s, i)
             THEN {<<m.id, m.holder, "member_of">>} ELSE {})

(* A call goes to the last symbol of the list that has the name: imports   *)
(* come after all others.                                                  *)
Target(s, W, name) ==
  LET named == {i \in DOMAIN s.decls : W[i].rule.kind # "none" /\ s.decls[i].name = name}
      imported == {i \in named : s.decls[i].node = "Import"}
      last == IF imported # {} THEN imported ELSE named
  IN IF named = {} THEN ExternalId(name)
     ELSE W[CHOOSE i \in last : \A j \in last : j <= i].id

CallsIn(s, W) ==
  {<<W[i].within, Target(s, W, s.decls[i].name), "calls">> :
     i \in {i \in DOMAIN s.decls : /\ s.language = "python" /\ s.decls[i].node = "Call"
                                   /\ W[i].within # Nowhere}}

-----------------------------------------------------------------------------
FileSymbol == [id |-> FileId, kind |-> "file", name |-> Unnamed, parent |-> Nowhere]

AllSymbols(s, W) ==
  {FileSymbol} \union UNION {SymbolsAt(s, i, W) : i \in DOMAIN s.decls}

AllEdges(s, W) ==
  CallsIn(s, W) \union UNION {EdgesAt(s, i, W) : i \in DOMAIN s.decls}

NoSyntaxParser ==
  grammar = "none" /\ source = <<>> /\ parsed = "off" /\ symbols = {} /\ relationships = {}

SyntaxInit ==
  grammar = "unloaded" /\ source \in SourceCodes /\ parsed = "no" /\ symbols = {} /\ relationships = {}

(* _get_parser: what it finds, it keeps for the rest of the process; ast   *)
(* is always there.                                                        *)
LoadGrammar ==
  /\ parsed = "no" /\ grammar = "unloaded" /\ source.decls # <<>>
  /\ grammar' \in IF source.language = "python" THEN {"ready"} ELSE {"ready", "missing"}
  /\ UNCHANGED <<source, parsed, symbols, relationships>>

Returns(how, syms, edges) ==
  parsed' = how /\ symbols' = syms /\ relationships' = edges /\ UNCHANGED <<grammar, source>>

ParseEmpty == parsed = "no" /\ source.decls = <<>> /\ Returns("clean", {}, {})

ParseUnavailable == parsed = "no" /\ grammar = "missing" /\ Returns("diagnosed", {}, {})

ParseRaises == parsed = "no" /\ grammar = "ready" /\ Returns("diagnosed", {}, {})

(* A tree with errors in it is walked all the same; for ast it raises.     *)
ParseTree ==
  /\ parsed = "no" /\ grammar = "ready"
  /\ \E how \in IF source.language = "python" THEN {"clean"} ELSE {"clean", "diagnosed"} :
       LET W == Walk(source)
       IN Returns(how, AllSymbols(source, W), AllEdges(source, W))

SyntaxNext == LoadGrammar \/ ParseEmpty \/ ParseUnavailable \/ ParseRaises \/ ParseTree

SyntaxSpec == SyntaxInit /\ [][SyntaxNext]_parserVars

-----------------------------------------------------------------------------
Recorded == {x.id : x \in symbols}

(* A parent and both ends of an edge are symbols of the file; only a base  *)
(* and the target of a call may be an external name.                       *)
EndsRecorded ==
  /\ \A x \in symbols : x.parent = Nowhere \/ x.parent \in Recorded
  /\ \A e \in relationships :
       /\ e[1] \in Recorded
       /\ e[2] \in Recorded \/ (e[3] \in {"calls", "inherits"} /\ e[2][1] = "__external__")

(* A method of Go or Rust that the parser names after a type, which makes  *)
(* its id one of two parts, is linked to that type if it is recorded at    *)
(* the root of the file, wherever the two stand; no other link is made.    *)
(* The receiver of a generic type gives a Go method no such name           *)
(* (go_parser.py:201-214): its id has one part and it has no link.         *)
RootTypes ==
  {x.id : x \in {x \in symbols : x.parent = FileId
                                 /\ x.kind \in {"struct", "interface", "type", "enum", "trait"}}}

MembersLinked ==
  parsed \in {"clean", "diagnosed"} /\ source.language \in {"go", "rust"} =>
    \A x \in symbols :
      x.kind = "method" /\ Len(x.id) = 2 =>
        (SubSeq(x.id, 1, 1) \in RootTypes) <=> (<<x.id, SubSeq(x.id, 1, 1), "member_of">> \in relationships)

(* What a parser returns for a file is a graph of its own, whatever stands *)
(* in the file and in whatever order, with or without diagnostics: the     *)
(* types collected before the walk, the ids the handlers pass down to      *)
(* their bodies and the names they look calls up by belong together.       *)
FileGraphSound == EndsRecorded /\ MembersLinked
=============================================================================
