------------------------------ MODULE MCModule ------------------------------
(***************************************************************************)
(* The module parser on modules written from trees, with comments and      *)
(* newlines in their gaps, and on modules with a broken declaration.       *)
(***************************************************************************)
EXTENDS ModuleSafety, SourceText

CONSTANT Topic   \* which texts this run reads

-----------------------------------------------------------------------------
(* Headers, imports and exposing lists.                                    *)

AllOfIt == Nd(Cat(<<W("("), W(".."), W(")")>>))
OpenType == Nd(Cat(<<W("upper"), W("("), W(".."), W(")")>>))
List(items) == Nd(Cat(<<W("(")>> \o Commas(items) \o <<W(")")>>))

Header(exposing) == Nd(Cat(<<W("module"), W("upper"), Glue(W(".")), Glue(W("upper")), W("exposing"), exposing>>))
PortHeader == Nd(Cat(<<W("port"), W("module"), W("upper"), W("exposing"), AllOfIt>>))
EffectHeader == Nd(Cat(<<W("effect"), W("module"), W("upper"), W("where"), W("{"), W("key"), W("="), W("upper"),
                         W(","), W("key"), W("="), W("upper"), W("}"), W("exposing"), List(<<Name>>)>>))
SmallHeader == Nd(Cat(<<W("module"), W("upper"), W("exposing"), AllOfIt>>))

Import(tail) == On(1, Nd(Cat(<<W("import"), W("upper")>> \o tail)))

(* Declarations.  d says whether the tree keeps a doc comment before it.   *)
Decl(a) == [a |-> On(1, Nd(a)), doc |-> FALSE]
DocDecl(a) == [a |-> On(1, Nd(Cat(<<W("doc"), On(1, a)>>))), doc |-> TRUE]
Function(args, a) == Nd(Cat(<<W("lower")>> \o args \o <<W("="), a>>))
Signed(type, def) == Cat(<<Sig(type), On(1, def)>>)
Alias(params, type) == Cat(<<W("type"), W("alias"), W("upper")>> \o params \o <<W("="), type>>)
Constr(args) == Nd(Cat(<<W("upper")>> \o args))
Pipes(as) == [i \in 1..(2 * Len(as) - 1) |-> IF i % 2 = 1 THEN as[(i + 1) \div 2] ELSE W("|")]
Custom(params, ctors) == Cat(<<W("type"), W("upper")>> \o params \o <<W("=")>> \o Pipes(ctors))
Port(type) == Cat(<<W("port"), W("lower"), W(":"), type>>)
Infix == Cat(<<W("infix"), W("left"), W("number"), W("("), Op("+"), W(")"), W("="), W("lower")>>)

Var == W("lower")
Simple == Decl(Function(<<>>, Num))
Applied == Decl(Function(<<Name, Wild>>, On(5, App(<<Name, On(9, Name)>>))))
TwoConstructors == Custom(<<Var>>, <<Constr(<<Name>>), Constr(<<>>)>>)

CustomTypes == {
  Decl(Custom(<<Var>>, <<Constr(<<Name>>), Constr(<<>>), Constr(<<TRec(<<Sig(Name)>>)>>)>>)),
  Decl(Custom(<<>>, <<Constr(<<TPar(Nd(Cat(<<W("upper"), Name>>)))>>), On(5, Constr(<<On(9, Name), Name>>))>>)) }

(* A module: header, module doc or not, imports, declarations.             *)
Mod(head, md, imports, ds) == [head |-> head, md |-> md, imports |-> imports, ds |-> ds]

Words(m) == Cat(<<m.head>> \o (IF m.md THEN <<On(1, W("doc"))>> ELSE <<>>) \o m.imports
                \o [i \in 1..Len(m.ds) |-> m.ds[i].a])

Modules == {
  Mod(Header(List(<<Name, Ctor, OpenType, Prefix("+")>>)), FALSE,
      <<Import(<<>>), Import(<<W("as"), W("upper")>>), Import(<<W("exposing"), List(<<Name, OpenType>>)>>)>>,
      <<Simple>>),
  Mod(PortHeader, FALSE, <<Import(<<W("as"), W("upper"), W("exposing"), AllOfIt>>)>>,
      <<Decl(Port(Arrow(Name, Ctor))), DocDecl(Function(<<>>, Num))>>),
  Mod(EffectHeader, FALSE, <<>>, <<Decl(Infix), Applied>>),
  Mod(SmallHeader, FALSE, <<>>,
      <<Decl(Signed(Arrow(Ctor, Ctor), Function(<<PTup(<<Name, Wild>>)>>, On(5, Case(Name, <<On(9, Branch(Name, Name)), On(9, Branch(Wild, Num))>>))))),
        DocDecl(Signed(Name, Function(<<>>, On(5, Let(<<On(9, Def(<<>>, Name))>>, Name)))))>>),
  Mod(SmallHeader, FALSE, <<>>, <<Simple, DocDecl(TwoConstructors)>>),
  Mod(SmallHeader, FALSE, <<>>,
      <<Decl(Custom(<<>>, <<On(5, Constr(<<Name, TRec(<<Sig(Name)>>)>>)), Constr(<<TPar(Nd(Cat(<<W("upper"), Name>>)))>>), On(5, Constr(<<On(9, Name)>>))>>)),
        Decl(Nd(Cat(<<PTup(<<Name, Name>>), W("="), Name>>)))>>),
  Mod(SmallHeader, FALSE, <<Import(<<>>)>>,
      <<DocDecl(Alias(<<Var, Var>>, TRec(<<Sig(Name), Sig(Ctor)>>))), Decl(Alias(<<>>, Arrow(Name, Name)))>>) }

(* The same with a doc comment right after the header.                     *)
WithDoc == {[m EXCEPT !.md = TRUE] : m \in {n \in Modules : n.head # EffectHeader}}

(* Where the parts of a module stand in its text, and the spans of each.   *)
Size(as) == IF as = <<>> THEN 0 ELSE Len(Cat(as).t)
Shifted(a, k) == {<<x[1] + k, x[2] + k>> : x \in a.s}

Parts(k, as) == [i \in 1..Len(as) |-> Shifted(as[i], k + Size(SubSeq(as, 1, i - 1)))]

ModuleSample(m, ins) ==
  LET head == Len(m.head.t)
      before == head + (IF m.md THEN 1 ELSE 0)
      as == [i \in 1..Len(m.ds) |-> m.ds[i].a]
      first == before + Size(m.imports)
  IN  [toks |-> Text(Words(m), ins),
       md |-> IF m.md THEN head + 1 ELSE 0,
       header |-> m.head.s,
       sound |-> TRUE, broke |-> 0,
       imports |-> Parts(before, m.imports),
       decls |-> Parts(first, as),
       starts |-> [i \in 1..Len(as) |-> first + Size(SubSeq(as, 1, i - 1)) + 1],
       docs |-> [i \in 1..Len(as) |-> IF m.ds[i].doc THEN first + Size(SubSeq(as, 1, i - 1)) + 1 ELSE 0]]

ModuleSamples(ms, whats, k) == UNION {{ModuleSample(m, ins) : ins \in Insertions(Words(m), whats, k)} : m \in ms}

(* One word of one declaration or import left out, or another in its place *)
(* (not its first word: what a declaration may run into is another matter). *)
Broke(a, kinds) == {Without(a, i) : i \in 2..Len(a.t)}
                   \cup {Instead(a, i, kind) : i \in 2..Len(a.t), kind \in kinds}

BrokeOne(as, kinds) == UNION {{[broke |-> i, as |-> [as EXCEPT ![i] = b]] : b \in Broke(as[i], kinds)} : i \in 1..Len(as)}

(* A comment stands before its second word and before its last.            *)
BrokenDecl(m, kinds) ==
  LET as == [i \in 1..Len(m.ds) |-> m.ds[i].a]
      First(k) == Len(m.head.t) + Size(m.imports) + Size(SubSeq(as, 1, k - 1))
      Variant(x) == [m EXCEPT !.ds = [i \in 1..Len(m.ds) |-> [@[i] EXCEPT !.a = x.as[i]]]]
      Ends(x) == {First(x.broke) + 2, First(x.broke) + Len(x.as[x.broke].t)}
  IN  {[ModuleSample(Variant(x), {[at |-> i, what |-> "line"] : i \in Ends(x)}) EXCEPT !.sound = FALSE, !.broke = x.broke] :
         x \in BrokeOne(as, kinds)}

BrokenImport(m, kinds) ==
  {[ModuleSample([m EXCEPT !.imports = x.as], {}) EXCEPT !.sound = FALSE] : x \in BrokeOne(m.imports, kinds)}

BreakableModules == {
  Mod(SmallHeader, FALSE, <<Import(<<W("as"), W("upper")>>), Import(<<W("exposing"), List(<<Name, OpenType>>)>>)>>,
      <<Decl(TwoConstructors), Decl(Function(<<Name>>, On(5, App(<<Name, Par(Name), Lst(<<Name>>)>>)))),
        DocDecl(Signed(Arrow(Name, Ctor), Function(<<>>, Num)))>>),
  Mod(SmallHeader, FALSE, <<Import(<<>>)>>,
      <<Decl(Port(Name)), DocDecl(Alias(<<Var>>, TRec(<<Sig(Name)>>))), Decl(Infix),
        Decl(Nd(Cat(<<PTup(<<Name, Name>>), W("="), Rec(<<Set(Name)>>)>>)))>>) }

(* The first declaration is broken: a bracket left open, then a custom     *)
(* type; or lists nested too deep, then an application over two lines.     *)
BrokenFirst(ds) == {[ModuleSample(Mod(SmallHeader, FALSE, <<>>, ds), {}) EXCEPT !.sound = FALSE, !.broke = 1]}

OpenBracket == Decl(Without(Function(<<>>, Par(Num)), 5))
TooDeep == Decl(Function(<<>>, Lst(<<Lst(<<Lst(<<Name>>)>>)>>)))

DocumentedPort == Mod(SmallHeader, FALSE, <<Import(<<>>)>>, <<DocDecl(Port(Name)), Simple>>)

Slips == {",", "lower", ")"}

Written ==
  CASE Topic = "forms" ->
         ModuleSamples(Modules, {"line", "ownBlock"}, 1) \cup ModuleSamples(WithDoc, {}, 0)
         \cup ModuleSamples({Mod(SmallHeader, FALSE, <<>>, <<d, Simple>>) : d \in CustomTypes}, {"pair"}, 2)
         \cup UNION {BrokenDecl(m, Slips) \cup BrokenImport(m, Slips) : m \in BreakableModules}
    [] Topic = "documented" -> ModuleSamples(WithDoc, {"own"}, 1)
    [] Topic = "imports" -> UNION {BrokenImport(m, {","}) : m \in BreakableModules}
    [] Topic = "open" -> BrokenFirst(<<OpenBracket, Decl(TwoConstructors), Simple>>)
    [] Topic = "deep" -> BrokenFirst(<<TooDeep, Applied, Simple>>)
    [] Topic = "ports" -> {ModuleSample(DocumentedPort, {})}

MCSources == {s.toks : s \in Written}

(* What a text was written as.                                             *)
Intended == [t \in MCSources |-> CHOOSE s \in Written : s.toks = t]
-----------------------------------------------------------------------------
(* A module parses to the tree it was written from, comments and newlines  *)
(* or not: the same imports and declarations with nodes that span the same *)
(* words, each doc comment with the declaration it stands before.          *)
SpansOf(n) == {<<WordAt(x[1]), WordAt(x[2])>> : x \in n.sub}
WordOrNone(ix) == IF ix = 0 THEN 0 ELSE WordAt(ix)

AsWritten(s) ==
  /\ SpansOf(module.header) = s.header
  /\ [i \in 1..Len(module.imports) |-> SpansOf(module.imports[i])] = s.imports
  /\ [i \in 1..Len(decls) |-> SpansOf(decls[i].node)] = s.decls
  /\ [i \in 1..Len(decls) |-> WordOrNone(decls[i].doc)] = s.docs
  /\ WordOrNone(module.doc) = s.md

ModuleParsesAsWritten ==
  Stopped /\ Intended[toks].sound /\ (mode = "strict" \/ Intended[toks].md = 0) =>
    at = "parsed" /\ errors = <<>> /\ AsWritten(Intended[toks])

(* A module doc comment `appears after the header, before imports`         *)
(* (file.rs), and a module that has one parses as any other, in both modes. *)
DocumentedParses == Stopped => at = "parsed" /\ errors = <<>> /\ AsWritten(Intended[toks])

(* A declaration that is as written, and that the parser comes to outside   *)
(* all brackets, is read without an error and as it was written, whatever  *)
(* went wrong before it and whatever goes wrong after.  (Brackets were     *)
(* closed when it was come to if paren_depth counts those of the functions *)
(* in progress.)                                                           *)
Reads(i) == LET start == Intended[toks].starts[i]
            IN  IF outer = <<>> THEN at = "declaration" /\ p.pos = start
                ELSE outer[1].fn = "declaration" /\ outer[1].from = toks[start].ix

ReadAsWritten(i) == LET d == decls[Len(decls)]
                    IN  SpansOf(d.node) = Intended[toks].decls[i] /\ WordOrNone(d.doc) = Intended[toks].docs[i]

Intact == (DOMAIN Intended[toks].starts) \ {Intended[toks].broke}

IntactAreRead ==
  [][\A i \in Intact : Reads(i) /\ ctl # "error" /\ p.depth = Cardinality(Open(Append(conts, calls))) =>
       ctl' # "error" /\ (decls' # decls => ReadAsWritten(i)')]_moduleVars

(* `Declarations that fail to parse are skipped, and parsing continues with *)
(* the next declaration` (parse_recovering): the others are all read.      *)
OthersSurvive ==
  Stopped /\ mode = "recovering" =>
    \A i \in Intact : \E d \in Elements(decls) : SpansOf(d.node) = Intended[toks].decls[i]
=============================================================================
