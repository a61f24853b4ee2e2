---------------------------- MODULE ModuleSafety ----------------------------
(***************************************************************************)
(* What must hold while a module is parsed, in both modes: of the          *)
(* comments, of the counters beside the stack, and of what recovery leaves. *)
(***************************************************************************)
EXTENDS ModuleParser, ExprSafety
LOCAL INSTANCE SequencesExt

Stopped == at \in {"parsed", "failed"}

Nodes == <<module.header>> \o module.imports \o [i \in 1..Len(decls) |-> decls[i].node]

HeldByAll(s) == FlattenSeq([i \in 1..Len(s) |-> HeldBy(s[i])])

(* Every comment that the tree and the functions in progress hold.         *)
HeldInModule ==
  FlattenSeq([i \in 1..Len(Nodes) |-> Carried(Nodes[i])]) \o module.comments
  \o HeldByAll(outer) \o HeldByAll(Frames)
  \o (IF ctl \in Passing \ {"ok"} THEN Carried(val) ELSE <<>>)

(* As long as no error was met, every comment passed is pending or held in *)
(* exactly one place, through the claiming of custom types, exposing lists *)
(* and signatures as well as of expressions; at the end the tree and the   *)
(* module's comments hold them all.  After an error still none is in two   *)
(* places: what a broken declaration had claimed is dropped, not put back. *)
ModuleKeepsComments ==
  ctl # "error" =>
    LET held == p.pending \o HeldInModule
    IN  /\ errors = <<>> =>
              \A c \in Passed : IF c \in Reread THEN c \in Elements(held) ELSE Times(c, held) = 1
        /\ \A c \in Elements(HeldInModule) \ Reread : Times(c, held) = 1

(* Comments between two constructors of a custom type belong to one of the *)
(* two, on whichever side of the `|` they stand; a constructor has none    *)
(* from before the end of the previous one.                                *)
ConstructorsKeepApart ==
  [][at = "fields" /\ at' = "constructor" /\ outer[1].n > 0 =>
       LET previous == outer[1].last
           constructor == outer'[1].last
           between == {c \in Passed : previous.to < c.ix /\ c.ix < outer[2].mark}
       IN  /\ between \subseteq Elements(Carried(previous) \o Carried(constructor))
           /\ \A c \in Elements(Carried(constructor)) : previous.to < c.ix]_moduleVars

(* Until the first error, paren_depth counts the brackets open in the      *)
(* functions in progress and in the header or exposing list, so that every *)
(* declaration starts with layout in force.                                *)
ModuleBracketsBalanced ==
  errors = <<>> /\ ctl # "error" /\ want = <<>> =>
    p.depth = Cardinality(Open(Append(conts, calls)))
              + (IF at \in {"exposed", "item", "itemType", "itemEnd", "effectKey", "effectComma"} THEN 1 ELSE 0)

(* `If the module header or imports fail, returns (None, errors)`          *)
(* (parse_module_recovering).                                              *)
ImportErrorsAreFatal == [][ctl = "error" /\ InImports => at' = "failed"]_moduleVars

(* Doc comments `are attached to their declarations` (README.md): one that *)
(* was read is the module's or a declaration's.                            *)
DocsAreKept ==
  at = "parsed" /\ errors = <<>> =>
    \A i \in 1..Len(toks) : toks[i].kind = "doc" => toks[i].ix \in {module.doc} \cup {d.doc : d \in Elements(decls)}

(* What is read is given in order and never twice, errors between or not:  *)
(* the outline of the module in progress.                                  *)
Delivered == (IF module.header = NoNode THEN <<>> ELSE <<module.header>>)
             \o module.imports \o [i \in 1..Len(decls) |-> decls[i].node]

Items == [i \in 1..Len(Delivered) |-> <<Delivered[i].from, Delivered[i].to>>]

Outlined == INSTANCE Outline WITH tolerant <- mode = "recovering", items <- Items,
                                  faults <- errors, over <- Stopped

ImplementsOutline == Outlined!OutlineSpec
=============================================================================
