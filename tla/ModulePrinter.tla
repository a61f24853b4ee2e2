--------------------------- MODULE ModulePrinter ---------------------------
(***************************************************************************)
(* Printing a module: write_module in src/src/print/mod.rs, the slots its  *)
(* comments wait in (print/comment_slots.rs), the order of its imports     *)
(* (print/import_layout.rs) and the spacing of its declarations            *)
(* (print/decl_emission.rs).                                               *)
(*                                                                         *)
(* Imports and declarations are the anchors of a module, in the order of   *)
(* the source.  Each has the offsets of its span (off, to) and the line it *)
(* ends on (last).  A comment is "line", "block" or "marker" (a block with *)
(* nothing in it), and has the line it starts on.  The names of modules    *)
(* and of exposed items are numbers in their alphabetical order; alias 0   *)
(* is none.  What is printed is a sequence of pieces: newlines and spaces, *)
(* comments, the header, the documentation, imports and declarations.      *)
(***************************************************************************)
EXTENDS Integers, FiniteSets, SequencesExt

CONSTANTS Modules,   \* the modules to print
          Styles     \* the styles to print them in: "Compact", "ElmFormat"

ASSUME StylesAssumption == Styles \subseteq {"Compact", "ElmFormat"}

VARIABLES module,   \* the ElmModule
          style,    \* PrintConfig::style
          slots,    \* CommentSlots::slots
          phase,    \* what is done next
          at,       \* the index it is done for
          out       \* what is printed

printVars == <<module, style, slots, phase, at, out>>

Pretty == style # "Compact"
-----------------------------------------------------------------------------
(* Sorting, stable as sort_by and sort_by_key are.                         *)
Ranked(s, Key(_)) ==
  SetToSortSeq(DOMAIN s, LAMBDA i, j : Key(s[i]) < Key(s[j]) \/ (Key(s[i]) = Key(s[j]) /\ i < j))

SortedBy(s, Key(_)) == LET order == Ranked(s, Key) IN [i \in DOMAIN s |-> s[order[i]]]

InSource(comments) == SortedBy(comments, LAMBDA c : c.off)
ByKey(items) == SortedBy(items, LAMBDA x : x.key)        \* exposed_item_sort_key
-----------------------------------------------------------------------------
(* CommentSlots.                                                           *)

NumImports == Len(module.imports)
Anchors == module.imports \o module.decls
Trailing == Len(Anchors) + 1                             \* trailing_slot

Inside(c, a) == a.off <= c.off /\ c.off < a.to

(* Mutant of SlotOf: a comment inside an anchor waits for that anchor. *)
SlotOfOpen(c) == LET later == {k \in DOMAIN Anchors : c.off < Anchors[k].to}
                 IN  IF later = {} THEN Trailing ELSE Min(later)

SlotOf(c) == LET later == {k \in DOMAIN Anchors : c.off < Anchors[k].off}
             IN  IF later = {} THEN Trailing ELSE Min(later)

Internal(c) == \E k \in DOMAIN Anchors : Inside(c, Anchors[k])

Build ==
  /\ phase = "build"
  /\ slots' = [k \in 1..Trailing |->
                 SelectSeq(InSource(module.comments), LAMBDA c : SlotOf(c) = k /\ ~(Pretty /\ Internal(c)))]
  /\ IF Pretty /\ NumImports >= 2 THEN phase' = "hoist" /\ at' = 2 ELSE phase' = "header" /\ at' = 1
  /\ UNCHANGED <<module, style, out>>

(* The source indices of the imports in the order of their names.          *)
Sorted == Ranked(module.imports, LAMBDA i : i.name)
SortPos(k) == CHOOSE p \in DOMAIN Sorted : Sorted[p] = k

Trails(c, a) == c.kind = "line" /\ c.line = a.last

(* Mutant of Hoisted: the comments of an import that no other follows are forgotten. *)
HoistedOrLost(k, trailing, keep) ==
  IF SortPos(k) < NumImports THEN [slots EXCEPT ![k + 1] = keep, ![k] = InSource(@ \o trailing)]
  ELSE [slots EXCEPT ![k + 1] = keep]

(* Mutant of Hoisted: to the place the import has after sorting. *)
HoistedToPos(k, trailing, keep) ==
  IF SortPos(k) < NumImports THEN LET rest == [slots EXCEPT ![k + 1] = keep]
                                  IN  [rest EXCEPT ![SortPos(k)] = InSource(@ \o trailing)]
  ELSE [slots EXCEPT ![k + 1] = keep \o trailing]

(* The comments on the last line of import k go before it, if another      *)
(* import follows it once they are sorted; else after those they precede.  *)
Hoisted(k, trailing, keep) ==
  IF SortPos(k) < NumImports THEN [slots EXCEPT ![k + 1] = keep, ![k] = InSource(@ \o trailing)]
  ELSE [slots EXCEPT ![k + 1] = keep \o trailing]

(* hoist_import_trailing_comments, for the slot behind each import.        *)
Hoist ==
  /\ phase = "hoist"
  /\ LET before == module.imports[at - 1]
         trailing == SelectSeq(slots[at], LAMBDA c : Trails(c, before))
     IN  slots' = IF trailing = <<>> THEN slots
                  ELSE Hoisted(at - 1, trailing, SelectSeq(slots[at], LAMBDA c : ~Trails(c, before)))
  /\ IF at <= NumImports THEN at' = at + 1 /\ UNCHANGED phase ELSE at' = 1 /\ phase' = "header"
  /\ UNCHANGED <<module, style, out>>
-----------------------------------------------------------------------------
(* The header and what it exposes.                                         *)

NL(n) == [i \in 1..n |-> [k |-> "nl"]]
CommentPiece(c) == [k |-> "comment", kind |-> c.kind, id |-> c.id, rows |-> c.rows]

(* write_exposing_pretty: the groups of the module documentation, each     *)
(* with what no group before it has taken; a longer operator is in none.   *)
Documented(key) == \E x \in Range(module.header.items) : x.key = key /\ x.form # "longOp"
ItemOf(key) == CHOOSE x \in Range(module.header.items) : x.key = key

(* Mutant of Taken: nothing. *)
NothingTaken(j) == {}

Taken(j) == UNION {Range(module.docs[i]) : i \in 1..(j - 1)}

DocsGroup(j) == LET names == SelectSeq(module.docs[j], LAMBDA key : Documented(key) /\ key \notin Taken(j))
                IN  [i \in DOMAIN names |-> ItemOf(names[i])]

DocsGroups ==
  LET groups == [j \in DOMAIN module.docs |-> DocsGroup(j)]
      emitted == UNION {Range(groups[j]) : j \in DOMAIN groups}
      leftovers == ByKey(SelectSeq(module.header.items, LAMBDA x : x \notin emitted))
  IN  SelectSeq(groups \o <<leftovers>>, LAMBDA g : g # <<>>)

HeaderPiece(groups, trail, tall) ==
  [k |-> "header", all |-> module.header.all, groups |-> groups, trail |-> trail,
   rows |-> IF tall THEN Len(groups) + Len(trail) + 1 ELSE 0]

Header ==
  LET h == module.header
      sorted == ByKey(h.items)
      tall == h.trail # <<>> \/ (IF module.docs # <<>> THEN Len(DocsGroups) > 1 ELSE h.split)
  IN  CASE h.all -> HeaderPiece(<<>>, <<>>, FALSE)
        [] ~h.all /\ ~Pretty -> HeaderPiece(<<h.items>>, <<>>, FALSE)
        [] ~h.all /\ Pretty /\ module.docs # <<>> -> HeaderPiece(DocsGroups, h.trail, tall)
        [] ~h.all /\ Pretty /\ module.docs = <<>> ->
             HeaderPiece(IF tall THEN [i \in DOMAIN sorted |-> <<sorted[i]>>] ELSE <<sorted>>, h.trail, tall)

WriteHeader ==
  /\ phase = "header"
  /\ out' = out \o <<Header>> \o NL(1)
                \o (IF module.doc THEN NL(1) \o <<[k |-> "doc", groups |-> module.docs, rows |-> 0]>> \o NL(1) ELSE <<>>)
                \o NL(IF NumImports > 0 THEN 1 ELSE 0)
  /\ phase' = "imports"
  /\ at' = 1
  /\ UNCHANGED <<module, style, slots>>
-----------------------------------------------------------------------------
(* Imports.                                                                *)

ImportPiece(name, alias, all, items, tall) ==
  [k |-> "import", name |-> name, alias |-> alias, all |-> all, items |-> items,
   rows |-> IF tall THEN Len(items) + 2 ELSE 0]

NonRedundant(imp) == IF imp.alias = imp.name THEN 0 ELSE imp.alias

(* write_import.                                                           *)
Import(imp) ==
  IF Pretty THEN ImportPiece(imp.name, NonRedundant(imp), imp.all, ByKey(imp.items), imp.tall /\ imp.items # <<>>)
  ELSE ImportPiece(imp.name, imp.alias, imp.all, imp.items, FALSE)

(* Mutant of Exposed: those of the first import. *)
ExposedFirst(group) == group[1].items

(* The items of all imports of a group.                                    *)
Exposed(group) == FlattenSeq([i \in DOMAIN group |-> group[i].items])

(* dedup_by, of a sorted list.                                             *)
Deduped(items) == LET firsts == SelectSeq([i \in DOMAIN items |-> i],
                                          LAMBDA i : i = 1 \/ items[i].key # items[i - 1].key)
                  IN  [i \in DOMAIN firsts |-> items[firsts[i]]]

(* write_merged_imports.                                                   *)
Merged(group) ==
  LET aliases == SelectSeq([i \in DOMAIN group |-> NonRedundant(group[i])], LAMBDA a : a # 0)
      all == \E i \in DOMAIN group : group[i].all
  IN  ImportPiece(group[1].name, IF aliases = <<>> THEN 0 ELSE aliases[1], all,
                  IF all THEN <<>> ELSE Deduped(ByKey(Exposed(group))), FALSE)

(* build_import_plan, and the imports as they come in compact style.       *)
SameName(p) == SelectSeq(Sorted, LAMBDA k : module.imports[k].name = module.imports[Sorted[p]].name)
Plan == IF Pretty THEN [p \in DOMAIN Sorted |-> SameName(p)] ELSE [k \in 1..NumImports |-> <<k>>]
GroupSize == IF Pretty THEN Len(SameName(at)) ELSE 1

OnLines(comments) == FlattenSeq([i \in DOMAIN comments |-> <<CommentPiece(comments[i])>> \o NL(1)])

WriteImport ==
  /\ phase = "imports"
  /\ at <= NumImports
  /\ LET group == Plan[at]
         comments == FlattenSeq([i \in DOMAIN group |-> slots[group[i]]])
         imports == [i \in DOMAIN group |-> module.imports[group[i]]]
     IN  out' = out \o OnLines(comments) \o NL(IF Pretty /\ comments # <<>> THEN 1 ELSE 0)
                    \o <<IF Len(group) = 1 THEN Import(imports[1]) ELSE Merged(imports)>> \o NL(1)
  /\ at' = at + GroupSize
  /\ UNCHANGED <<module, style, slots, phase>>

EndImports ==
  /\ phase = "imports"
  /\ at > NumImports
  /\ phase' = "decls"
  /\ at' = 1
  /\ UNCHANGED <<module, style, slots, out>>
-----------------------------------------------------------------------------
(* Declarations, and the comments before each of them.                     *)

DeclPiece(d) == [k |-> "decl", id |-> d.id, infix |-> d.infix, rows |-> d.rows]
Space == <<[k |-> "space"]>>

PrevEnd == IF at > 1 THEN module.decls[at - 1].last
           ELSE IF NumImports > 0 THEN module.imports[NumImports].last
           ELSE module.headerEnd

(* Mutant of SourceBlanks: the line the comment stands on is counted. *)
SourceBlanksAndOne(c) == Max({0, c.line - PrevEnd})

SourceBlanks(c) == Max({0, c.line - (PrevEnd + 1)})

(* What stands after whom: another declaration, the imports, the header.   *)
After(decl, imports, header) == IF at > 1 THEN decl ELSE IF NumImports > 0 THEN imports ELSE header

Marker(comments) == Len(comments) = 1 /\ comments[1].kind = "marker"

Lead(comments) ==
  LET first == comments[1]
  IN  CASE ~Pretty -> NL(2)
        [] Pretty /\ first.kind = "line" -> NL(After(4, 3, 1))
        [] Pretty /\ Marker(comments) -> NL(After(3, 2, 1))
        [] Pretty /\ first.kind # "line" /\ ~Marker(comments) ->
             NL(Max({SourceBlanks(first), After(3, 2, 1)}) + After(1, 0, 0))

Leading(comments) == Lead(comments) \o OnLines(comments)
                     \o NL(IF Pretty /\ Marker(comments) THEN 0 ELSE 2)

(* With no comment before it: infix declarations stand together.           *)
Apart == LET grouped == Pretty /\ at > 1 /\ module.decls[at].infix /\ module.decls[at - 1].infix
         IN  NL(IF grouped THEN 1 ELSE IF Pretty THEN After(3, 2, 2) ELSE 2)

(* A line comment on the last line of the declaration before stays there.  *)
StaysInline(comments) == Pretty /\ comments # <<>> /\ at > 1 /\ Trails(comments[1], module.decls[at - 1])
Inline(comments) == IF StaysInline(comments) THEN Space \o <<CommentPiece(comments[1])>> ELSE <<>>
Others(comments) == IF StaysInline(comments) THEN Tail(comments) ELSE comments

(* write_declarations_with_comments, for one declaration.                  *)
WriteDeclaration ==
  /\ phase = "decls"
  /\ at <= Len(module.decls)
  /\ LET comments == slots[NumImports + at]
     IN  out' = out \o Inline(comments)
                    \o (IF Others(comments) = <<>> THEN Apart ELSE Leading(Others(comments)))
                    \o <<DeclPiece(module.decls[at])>>
  /\ at' = at + 1
  /\ UNCHANGED <<module, style, slots, phase>>

(* write_trailing_orphan_comments, and the newline at the end.             *)
WriteTrailing ==
  /\ phase = "decls"
  /\ at > Len(module.decls)
  /\ LET comments == slots[Trailing]
         rest == Others(comments)
     IN  out' = out \o Inline(comments)
                    \o (IF rest = <<>> THEN <<>> ELSE NL(IF Pretty THEN 4 ELSE 2) \o Front(OnLines(rest)))
                    \o NL(1)
  /\ phase' = "done"
  /\ UNCHANGED <<module, style, slots, at>>
-----------------------------------------------------------------------------
PrintInit ==
  /\ module \in Modules
  /\ style \in Styles
  /\ slots = <<>>
  /\ phase = "build"
  /\ at = 1
  /\ out = <<>>

PrintNext == Build \/ Hoist \/ WriteHeader \/ WriteImport \/ EndImports \/ WriteDeclaration \/ WriteTrailing
=============================================================================
