-------------------------- MODULE MCModulePrinter --------------------------
(***************************************************************************)
(* Printing modules, reading what was printed and printing it again.  A    *)
(* text is a sequence of pieces, those ModulePrinter writes; the texts to  *)
(* start from have comments wherever an author may have put them.          *)
(***************************************************************************)
EXTENDS ModulePrinter

CONSTANT Topic   \* which texts this run prints

VARIABLE once    \* what was printed the first time

-----------------------------------------------------------------------------
(* What parse makes of a text: the anchors with their spans, every comment *)
(* that is not part of the header's list (parse_module).                   *)

Place(pieces) ==
  LET line[k \in 1..Len(pieces)] ==
        IF k = 1 THEN 1
        ELSE line[k - 1] + (CASE pieces[k - 1].k = "nl" -> 1 [] pieces[k - 1].k = "space" -> 0
                              [] OTHER -> pieces[k - 1].rows)
      Holds(k) == k < Len(pieces) /\ pieces[k + 1].k = "within"
  IN  [k \in DOMAIN pieces |->
         [off |-> 10 * k, to |-> IF Holds(k) THEN 10 * k + 19 ELSE 10 * k + 9, line |-> line[k],
          last |-> line[k] + (IF pieces[k].k \in {"nl", "space"} THEN 0 ELSE pieces[k].rows)]]

Read(pieces) ==
  LET place == Place(pieces)
      These(kinds) == LET ks == SelectSeq([k \in DOMAIN pieces |-> k], LAMBDA k : pieces[k].k \in kinds)
                      IN  [i \in DOMAIN ks |-> pieces[ks[i]] @@ place[ks[i]]]
      header == pieces[1]
      docs == These({"doc"})
      imports == These({"import"})
  IN  [header |-> [all |-> header.all, items |-> FlattenSeq(header.groups), trail |-> header.trail,
                   split |-> header.rows > 0 /\ Len(header.groups) > 1],
       headerEnd |-> IF docs = <<>> THEN place[1].last ELSE docs[1].last,
       doc |-> docs # <<>>,
       docs |-> IF docs = <<>> THEN <<>> ELSE docs[1].groups,
       imports |-> [i \in DOMAIN imports |-> imports[i] @@ [tall |-> imports[i].rows > 0]],
       decls |-> These({"decl"}),
       comments |-> These({"comment", "within"})]
-----------------------------------------------------------------------------
(* Texts.                                                                  *)

Item(key, form) == [key |-> key, form |-> form]
HeadPiece(groups, trail, rows) == [k |-> "header", all |-> FALSE, groups |-> groups, trail |-> trail, rows |-> rows]
PlainHead == <<HeadPiece(<<<<Item(1, "plain")>>>>, <<>>, 0)>>
DocPiece(groups) == NL(2) \o <<[k |-> "doc", groups |-> groups, rows |-> 0]>>
Named(name) == ImportPiece(name, 0, FALSE, <<>>, FALSE)
Decl(id, infix, rows) == [k |-> "decl", id |-> id, infix |-> infix, rows |-> rows]

C(kind, id, rows) == <<[k |-> "comment", kind |-> kind, id |-> id, rows |-> rows]>>
WithinIt(id) == <<[C("block", id, 0)[1] EXCEPT !.k = "within"]>>

(* Between two anchors, or before the first, or after the last.            *)
Gaps == {"trailing", "own", "far", "near", "marker", "both", "beside", "two", "within"}
Gap(which, g) ==
  LET line == C("line", <<g, 1>>, 0)
      block == C("block", <<g, 2>>, 1)
  IN  CASE which = "plain" -> NL(2)
        [] which = "trailing" -> Space \o line \o NL(2)
        [] which = "own" -> NL(2) \o line \o NL(1)
        [] which = "far" -> NL(7) \o block \o NL(1)
        [] which = "near" -> NL(1) \o block \o NL(1)
        [] which = "marker" -> NL(2) \o C("marker", <<g, 3>>, 0) \o NL(1)
        [] which = "both" -> Space \o line \o NL(5) \o block \o NL(3) \o C("line", <<g, 4>>, 0) \o NL(1)
        [] which = "beside" -> Space \o C("block", <<g, 5>>, 0) \o Space \o line \o NL(1)
        [] which = "two" -> NL(3) \o C("marker", <<g, 3>>, 0) \o NL(1) \o line \o NL(1)
        [] which = "within" -> WithinIt(<<g, 6>>) \o Space \o line \o NL(1)

Text(head, anchors, gaps) ==
  head \o FlattenSeq([i \in DOMAIN anchors |-> Gap(gaps[i], i) \o <<anchors[i]>>])
       \o Gap(gaps[Len(anchors) + 1], Len(anchors) + 1)

(* One or two gaps that are not plain, not far from one another; nothing   *)
(* is within the header.                                                   *)
Gapped(n) == {<<i, j, x, y>> \in (1..n) \X (1..n) \X Gaps \X Gaps :
                i <= j /\ j <= i + 2 /\ (i = j => x = y) /\ (i = 1 => x # "within")}
Gapping(n, g) == [k \in 1..n |-> IF k = g[1] THEN g[3] ELSE IF k = g[2] THEN g[4] ELSE "plain"]

Imports == {<<>>, <<1>>, <<2, 1>>, <<1, 1>>, <<2, 1, 2>>, <<2, 3, 1>>, <<3, 1, 2>>}
Decls == {<<>>, <<Decl(1, FALSE, 1)>>, <<Decl(1, FALSE, 0), Decl(2, FALSE, 1)>>,
          <<Decl(1, TRUE, 0), Decl(2, TRUE, 0)>>}
Of(head, names, decls) == [head |-> head, anchors |-> [i \in DOMAIN names |-> Named(names[i])] \o decls]

Skeletons == {Of(PlainHead, names, decls) : names \in Imports, decls \in Decls}
             \cup {Of(PlainHead \o DocPiece(<<>>), names, <<Decl(1, FALSE, 0)>>) : names \in {<<>>, <<1>>}}
Size(s) == Len(s.anchors) + 1

Comments == {Text(s.head, s.anchors, Gapping(Size(s), g)) :
               <<s, g>> \in {<<s, g>> \in Skeletons \X Gapped(6) : g[2] <= Size(s)}}

(* What imports of one module expose, and under which names.               *)
Item3 == {<<>>, <<Item(2, "plain"), Item(1, "open")>>, <<Item(3, "longOp"), Item(2, "plain")>>}
Lists == {<<FALSE, x, tall>> : x \in Item3, tall \in BOOLEAN} \cup {<<TRUE, <<>>, FALSE>>}
Exposing(name, alias, list) == ImportPiece(name, alias, list[1], list[2], list[3])
Pair(names, aliases, x, y) ==
  Text(PlainHead, <<Exposing(names[1], aliases[1], x), Exposing(names[2], aliases[2], y), Decl(1, FALSE, 0)>>,
       [i \in 1..4 |-> "plain"])

(* A module that two imports call by two names keeps one of them: those    *)
(* are Aliased.                                                            *)
OneName == {<<0, 0>>, <<1, 0>>, <<9, 9>>}
TwoNames == {<<0, 9>>, <<1, 9>>, <<9, 8>>}
Twins == {Pair(<<1, 1>>, a, x, y) : a \in OneName, x \in Lists, y \in Lists}
         \cup {Pair(<<2, 1>>, a, x, y) : a \in OneName \cup TwoNames, x \in Lists, y \in Lists}
Aliased == {Pair(<<1, 1>>, a, x, x) : a \in TwoNames, x \in Lists}

Opened == {Text(PlainHead, <<Exposing(1, 0, <<FALSE, <<Item(1, x)>>, FALSE>>), Exposing(1, 0, <<FALSE, <<Item(1, y)>>, FALSE>>),
                             Decl(1, FALSE, 0)>>, [i \in 1..4 |-> "plain"]) :
             x \in {"plain", "open"}, y \in {"plain", "open"}}

(* The lists of headers, and the documentation that groups them.           *)
Three == <<Item(2, "plain"), Item(3, "longOp"), Item(1, "open")>>
HeadTrail == <<C("line", <<9, 9>>, 0)[1]>>
Headers ==
  {Text(<<HeadPiece(<<items>>, trail, 0)>> \o docs, <<Named(1)>>, [i \in 1..2 |-> "plain"]) :
     items \in {Three, <<Item(1, "plain")>>}, trail \in {<<>>, HeadTrail},
     docs \in {<<>>} \cup {DocPiece(d) : d \in {<<>>, <<<<2>>>>, <<<<2, 1>>, <<3, 2>>>>, <<<<4>>, <<1>>, <<2, 1>>>>}}}
  \cup {Text(<<HeadPiece([i \in DOMAIN Three |-> <<Three[i]>>], trail, 4)>>, <<Named(1)>>, [i \in 1..2 |-> "plain"]) :
          trail \in {<<>>, HeadTrail}}

Texts == CASE Topic = "comments" -> Comments \cup Twins \cup Headers
           [] Topic = "aliased" -> Aliased
           [] Topic = "opened" -> Opened

MCModules == {Read(text) : text \in Texts}
-----------------------------------------------------------------------------
MCPrintInit == PrintInit /\ once = <<>>

Reread ==
  /\ phase = "done"
  /\ once = <<>>
  /\ once' = out
  /\ module' = Read(out)
  /\ slots' = <<>>
  /\ phase' = "build"
  /\ at' = 1
  /\ out' = <<>>
  /\ UNCHANGED style

MCPrintSpec == MCPrintInit /\ [][(PrintNext /\ UNCHANGED once) \/ Reread]_<<printVars, once>>
-----------------------------------------------------------------------------
(* What has been printed, and where.                                       *)

Written == phase = "done"
Where(Test(_)) == {k \in DOMAIN out : Test(out[k])}
CommentAt(c) == Where(LAMBDA p : p.k = "comment" /\ p.id = c.id)
DeclAt(d) == Min(Where(LAMBDA p : p.k = "decl" /\ p.id = d.id))
ImportAt(k) == SelectSeq([i \in DOMAIN out |-> i], LAMBDA i : out[i].k = "import")[k]
NextAnchor(k) == out[Min({i \in DOMAIN out : i > k /\ out[i].k \in {"import", "decl"}})]

Owed == {c \in Range(module.comments) : ~(Pretty /\ Internal(c))}

(* Every comment of a module that no anchor contains (in compact style:    *)
(* every one) is printed once, whatever slot it waited in and wherever it  *)
(* was moved; those of the header's list in pretty styles.                 *)
CommentsWrittenOnce ==
  Written => /\ \A c \in Owed : Cardinality(CommentAt(c)) = 1
             /\ Pretty => out[1].trail = module.header.trail

(* Sorting the imports takes the comments along: one on lines of its own   *)
(* before an import stays before the import of that module, and so does    *)
(* one on an import's last line, if another import follows it.             *)
Follows(c) == \E k \in 1..NumImports : Trails(c, module.imports[k])
StaysWithItsImport ==
  Written /\ Pretty =>
    \A c \in Owed, k \in 1..NumImports :
      \/ SlotOf(c) = k /\ ~Follows(c)
      \/ NumImports > 1 /\ Trails(c, module.imports[k]) /\ SortPos(k) < NumImports
      => \A p \in CommentAt(c) : NextAnchor(p).k = "import" /\ NextAnchor(p).name = module.imports[k].name

(* Comments keep their order among themselves and among the declarations;  *)
(* in compact style among the imports too.  In pretty styles those before  *)
(* imports move with them, and so do those on the last import's line.      *)
Moves(c) == Pretty /\ (Follows(c) \/ SlotOf(c) <= NumImports)
OrderKept ==
  Written =>
    \A c \in Owed : \A p \in CommentAt(c) :
      /\ \A d \in Range(module.decls) : c.off < d.off <=> p < DeclAt(d)
      /\ ~Pretty => \A k \in 1..NumImports : c.off < module.imports[k].off <=> p < ImportAt(k)
      /\ \A other \in Owed : ~Moves(c) /\ ~Moves(other) /\ c.off < other.off => \A q \in CommentAt(other) : p < q

(* `print(parse(print(parse(src)))) == print(parse(src))`: to the newline.  *)
Idempotent == Written /\ once # <<>> => out = once

(* The imports of one module, merged or not, expose what they exposed, and *)
(* the module goes by the names it had, its own or aliases (those of       *)
(* Aliased excepted).                                                      *)
OfName(name) == {i \in Range(module.imports) : i.name = name}
PrintedAs(name) == {p \in Range(out) : p.k = "import" /\ p.name = name}
Listed(S) == UNION {Range(i.items) : i \in S}
Exposes(S) == IF \E i \in S : i.all THEN [all |-> TRUE, items |-> {}]
              ELSE [all |-> FALSE,
                    items |-> {x \in Listed(S) : x.form = "plain" => [x EXCEPT !.form = "open"] \notin Listed(S)}]
Aliases(S) == {NonRedundant(i) : i \in S}   \* 0 is its own name
ImportsMeanTheSame ==
  Written => \A name \in {i.name : i \in Range(module.imports)} :
               /\ Pretty => Cardinality(PrintedAs(name)) = 1
               /\ Exposes(OfName(name)) = Exposes(PrintedAs(name))
               /\ Aliases(OfName(name)) = Aliases(PrintedAs(name))

(* The header exposes what it exposed, each name once, however the groups  *)
(* of the documentation overlap.                                           *)
HeaderExposesTheSame ==
  Written => LET items == FlattenSeq(out[1].groups)
             IN  IsInjective(items) /\ Range(items) = Range(module.header.items)

(* `elm-format merges duplicate imports by combining aliases and exposing  *)
(* lists`: so a type that one of them exposes with its constructors still  *)
(* has them, and the module still goes by each of its names.               *)
MergingCombines == ImportsMeanTheSame
=============================================================================
