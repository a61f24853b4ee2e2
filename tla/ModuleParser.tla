---------------------------- MODULE ModuleParser ----------------------------
(***************************************************************************)
(* A module from its header to the end of the text: src/src/parse/module.rs *)
(* and skip_to_next_declaration of src/src/parse/mod.rs.  parse_module      *)
(* (mode "strict") stops at the first error, parse_module_recovering at an  *)
(* error in the header only: after an error in an import or a declaration   *)
(* it skips to the next token that may start a declaration.                 *)
(***************************************************************************)
EXTENDS DeclarationParser

VARIABLES mode,      \* which of the two functions was called
          module,    \* the module so far
          errors     \* where the errors were met

moduleVars == <<vars, outer, at, doc, decls, want, mode, module, errors>>

Modes == {"strict", "recovering"}

(* header and imports are nodes; doc is the place of module_documentation, *)
(* 0 for None; comments are those left over when the text ends.            *)
Module == [header : Node, doc : Nat, imports : Seq(Node), comments : Seq(Comment)]

Rest == UNCHANGED <<doc, mode, errors>>
-----------------------------------------------------------------------------
(* parse_module_header.                                                    *)

ParseHeader ==
  /\ Runs("header")
  /\ LET q == Skip(p)
         effect == New("effect", Here(q))
         header == New("header", Here(q))
     IN  \/ Peek(q) = "effect" /\ Expect(<<{"effect"}, {"module"}, {"upper"}>>, q, <<effect>>, "moduleName")
         \/ Peek(q) = "port" /\ Expect(<<{"port"}, {"module"}, {"upper"}>>, q, <<header>>, "moduleName")
         \/ Peek(q) \notin {"effect", "port"} /\ Expect(<<{"module"}, {"upper"}>>, q, <<header>>, "moduleName")
  /\ Rest /\ UNCHANGED module

(* parse_module_name after its first part; a dot that is not followed by a *)
(* name is given back.                                                     *)
Dotted(q) == Peek(q) = "." /\ Peek(Advance(q)) = "upper"

MoreName == /\ at \in {"moduleName", "importName", "importAlias"} /\ Runs(at)
            /\ Dotted(p)
            /\ Proceed(Advance(Advance(p)), outer, at)
            /\ Rest /\ UNCHANGED module

AfterModuleName ==
  /\ Runs("moduleName") /\ ~Dotted(p)
  /\ \/ Outer.fn = "effect" /\ Expect(<<{"where"}, {"{"}>>, p, outer, "effectKey")
     \/ Outer.fn # "effect" /\ Expect(<<{"exposing"}>>, p, outer, "exposing")
  /\ Rest /\ UNCHANGED module

(* The `{ command = A, subscription = B }` block; commas are optional.     *)
EffectKey ==
  /\ Runs("effectKey")
  /\ LET q == Skip(p)
     IN  \/ Peek(q) = "}" /\ Expect(<<{"}"}, {"exposing"}>>, q, outer, "exposing")
         \/ Peek(q) # "}" /\ Expect(<<{"key"}, {"="}, {"upper"}>>, q, outer, "effectComma")
  /\ Rest /\ UNCHANGED module

EffectComma ==
  /\ Runs("effectComma")
  /\ LET q == Skip(p)
     IN  Proceed(IF Peek(q) = "," THEN Advance(q) ELSE q, outer, "effectKey")
  /\ Rest /\ UNCHANGED module
-----------------------------------------------------------------------------
(* parse_exposing, for the header or for an import.                        *)

(* The list is complete and its caller with it: the header, or the import, *)
(* whose span ends where the list does.                                    *)
EndExposing(q, exposing) ==
  LET fr == AddPart(outer[1], exposing)
  IN  /\ Proceed(q, <<>>, "imports")
      /\ module' = IF outer[1].fn = "import"
                   THEN [module EXCEPT !.imports = Append(@, Close(fr, q))]
                   ELSE [module EXCEPT !.header = Close(fr, q)]

OpenExposing == /\ Runs("exposing")
                /\ Expect(<<{"("}>>, p, Append(outer, New("exposing", Here(p))), "exposed")
                /\ Rest /\ UNCHANGED module

Exposed ==
  /\ Runs("exposed")
  /\ LET q == Skip(p)
     IN  \/ Peek(q) = ".." /\ Expect(<<{".."}, {")"}>>, q, outer, "everything")
         \/ Peek(q) # ".." /\ Proceed(q, outer, "item")
  /\ Rest /\ UNCHANGED module

Everything == /\ Runs("everything")
              /\ EndExposing(p, Close(Outer, p))
              /\ Rest

(* parse_exposed_item, from its first token on; mark is its start.         *)
ExposedItem ==
  /\ Runs("item")
  /\ LET q == Skip(p)
         fs == OuterSwap([Outer EXCEPT !.mark = Here(q)])
     IN  \/ Peek(q) = "lower" /\ Proceed(Advance(q), fs, "itemEnd")
         \/ Peek(q) = "upper" /\ Proceed(Skip(Advance(q)), fs, "itemType")
         \/ Peek(q) = "(" /\ Expect(<<{"("}, {"op", "-"}, {")"}>>, q, fs, "itemEnd")
         \/ Peek(q) \notin {"lower", "upper", "("} /\ Raise(q)
  /\ Rest /\ UNCHANGED module

(* `Type`, `Type(..)`, or `Type()`, which is let through.                  *)
ExposedType ==
  /\ Runs("itemType")
  /\ LET q == Skip(Advance(p))
     IN  \/ Peek(p) # "(" /\ Proceed(p, outer, "itemEnd")
         \/ Peek(p) = "(" /\ Expect(IF Peek(q) = ".." THEN <<{".."}, {")"}>> ELSE <<{")"}>>, q, outer, "itemEnd")
  /\ Rest /\ UNCHANGED module

(* Mutant of EndItem: the comments the list keeps are not taken out of the *)
(* buffer.                                                                 *)
CopyTrailing ==
  /\ Runs("itemEnd")
  /\ LET q == Skip(p)
         r == Advance(q)
         fr == AddPart(Outer, SpanNode(Outer.mark, p, <<>>, {}))
     IN  \/ /\ Peek(q) = ","
            /\ Proceed(r, OuterSwap(fr), "item") /\ UNCHANGED module
         \/ /\ Peek(q) = ")"
            /\ EndExposing(r, Close(Hold(fr, Since(r, Snapshot(p))), r))
         \/ /\ Peek(q) \notin {",", ")"}
            /\ Raise(q) /\ UNCHANGED module
  /\ Rest

(* An item is read: a comma and the next one follow, or the end of the     *)
(* list, which keeps the comments after its last item.                     *)
EndItem ==
  /\ Runs("itemEnd")
  /\ LET q == Skip(p)
         r == Advance(q)
         fr == AddPart(Outer, SpanNode(Outer.mark, p, <<>>, {}))
     IN  \/ /\ Peek(q) = ","
            /\ Proceed(r, OuterSwap(fr), "item") /\ UNCHANGED module
         \/ /\ Peek(q) = ")"
            /\ EndExposing(DropSince(r, Snapshot(p)), Close(Hold(fr, Since(r, Snapshot(p))), r))
         \/ /\ Peek(q) \notin {",", ")"}
            /\ Raise(q) /\ UNCHANGED module
  /\ Rest
-----------------------------------------------------------------------------
(* The loop over the imports.                                              *)

ParseImport ==
  /\ Runs("imports") /\ Peek(Skip(p)) = "import"
  /\ Expect(<<{"import"}, {"upper"}>>, Skip(p), <<New("import", Here(Skip(p)))>>, "importName")
  /\ Rest /\ UNCHANGED module

(* A doc comment right after the header is the module's.  The strict       *)
(* parser advances past it; the recovering one only skips whitespace,      *)
(* which does not pass a doc comment, and leaves the loop.                 *)
ModuleDoc ==
  /\ Runs("imports") /\ Documented(Skip(p))
  /\ LET q == Skip(p)
         first == module.doc = 0 /\ module.imports = <<>>
         r == Advance(q)
     IN  /\ module' = IF first THEN [module EXCEPT !.doc = toks[q.pos].ix] ELSE module
         /\ \/ first /\ mode = "strict" /\ NextKind(q) = "import" /\ Proceed(Skip(r), <<>>, "imports")
            \/ first /\ mode = "strict" /\ NextKind(q) # "import" /\ Proceed(r, <<>>, "declarations")
            \/ ~(first /\ mode = "strict") /\ Proceed(q, <<>>, "declarations")
  /\ Rest

NoMoreImports == /\ Runs("imports") /\ Peek(Skip(p)) \notin {"import", "doc"}
                 /\ Proceed(Skip(p), <<>>, "declarations")
                 /\ Rest /\ UNCHANGED module

EndImport(q) == /\ Proceed(q, <<>>, "imports")
                /\ module' = [module EXCEPT !.imports = Append(@, Close(Outer, q))]

(* parse_import after the module name, and after the alias if there is one. *)
ImportTail(q) ==
  \/ Peek(q) = "exposing" /\ Proceed(Advance(q), outer, "exposing") /\ UNCHANGED module
  \/ Peek(q) # "exposing" /\ EndImport(q)

AfterImportName ==
  /\ Runs("importName") /\ ~Dotted(p)
  /\ LET q == Skip(p)
     IN  \/ Peek(q) = "as" /\ Expect(<<{"as"}, {"upper"}>>, q, outer, "importAlias") /\ UNCHANGED module
         \/ Peek(q) # "as" /\ ImportTail(q)
  /\ Rest

AfterImportAlias == /\ Runs("importAlias") /\ ~Dotted(p)
                    /\ ImportTail(Skip(p))
                    /\ Rest
-----------------------------------------------------------------------------
(* The loop over the declarations, to the end of the text.                 *)

NextDeclaration == /\ Runs("declarations") /\ ~AtEof(Skip(p))
                   /\ Proceed(Skip(p), <<>>, "declaration")
                   /\ Rest /\ UNCHANGED module

EndOfText ==
  /\ Runs("declarations") /\ AtEof(Skip(p))
  /\ Proceed([Skip(p) EXCEPT !.pending = <<>>], <<>>, "parsed")
  /\ module' = [module EXCEPT !.comments = Skip(p).pending]
  /\ Rest

(* An error reaches the module parser: fatal in the strict mode and in the *)
(* header, otherwise recorded and followed by a skip.                      *)
Fatal == mode = "strict" \/ module.header = NoNode

(* The loop over the imports goes on after the skip if one of them failed. *)
InImports == \/ at \in {"imports", "importName", "importAlias"}
             \/ outer # <<>> /\ outer[1].fn = "import"

(* Mutant of CatchError: the next attempt is made at once, where the error was. *)
CatchAndRetry ==
  /\ ctl = "error"
  /\ errors' = Append(errors, Here(p))
  /\ Proceed(p, <<>>, CASE Fatal -> "failed"
                        [] ~Fatal /\ InImports -> "imports"
                        [] ~Fatal /\ ~InImports -> "declarations")
  /\ doc' = 0
  /\ UNCHANGED <<mode, module>>

CatchError ==
  /\ ctl = "error"
  /\ errors' = Append(errors, Here(p))
  /\ Proceed(p, <<>>, CASE Fatal -> "failed"
                        [] ~Fatal /\ InImports -> "skipInImports"
                        [] ~Fatal /\ ~InImports -> "skipInDeclarations")
  /\ doc' = 0
  /\ UNCHANGED <<mode, module>>

(* skip_to_next_declaration, one token at a time.                          *)
Skipping == {"skipInImports", "skipInDeclarations"}

Boundary(q) == \/ AtEof(q)
               \/ HereCol(q) = 1 /\ Peek(q) \in {"lower", "type", "port", "infix", "doc"}

SkipToken == /\ at \in Skipping /\ Runs(at)
             /\ ~Boundary(Skip(p))
             /\ Proceed(Advance(Skip(p)), <<>>, at)
             /\ Rest /\ UNCHANGED module

EndSkip == /\ at \in Skipping /\ Runs(at)
           /\ Boundary(Skip(p))
           /\ Proceed(Skip(p), <<>>, IF at = "skipInImports" THEN "imports" ELSE "declarations")
           /\ Rest /\ UNCHANGED module
-----------------------------------------------------------------------------
ModuleInit == /\ toks \in Sources
              /\ mode \in Modes
              /\ p = Start
              /\ conts = <<>> /\ calls = <<>> /\ ctl = "ok" /\ val = NoNode
              /\ outer = <<>> /\ at = "header" /\ doc = 0 /\ decls = <<>> /\ want = <<>>
              /\ module = [header |-> NoNode, doc |-> 0, imports |-> <<>>, comments |-> <<>>]
              /\ errors = <<>>

(* The machine below, at work for the declaration in progress.             *)
Below == ExprNext /\ UNCHANGED <<outer, at, doc, decls, want, mode, module, errors>>

HeaderNext == ParseHeader \/ MoreName \/ AfterModuleName \/ EffectKey \/ EffectComma

ExposingNext == OpenExposing \/ Exposed \/ Everything \/ ExposedItem \/ ExposedType \/ EndItem

ImportNext == ParseImport \/ ModuleDoc \/ NoMoreImports \/ AfterImportName \/ AfterImportAlias

DeclarationStep == DeclarationNext /\ UNCHANGED <<mode, module, errors>>

ModuleNext == \/ Below
              \/ HeaderNext
              \/ ExposingNext
              \/ ImportNext
              \/ DeclarationStep
              \/ NextDeclaration \/ EndOfText
              \/ CatchError \/ SkipToken \/ EndSkip

ModuleSpec == ModuleInit /\ [][ModuleNext]_moduleVars

(* A function call that runs until it returns.                             *)
FairModuleSpec == ModuleSpec /\ WF_moduleVars(ModuleNext)
=============================================================================
