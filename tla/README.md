# Verification of elm-ast

elm-ast (Rust) parses Elm 0.19 source into a syntax tree and prints the tree
back. This directory holds TLA+ models of its lexer, parser, traversals and
printer, the configurations that check them with TLC, and proofs checked by
TLAPS. Paths of the form `src/src/...`
are the library's source files.

## 1. Inventory

The library is single-threaded and keeps no state between calls: text goes
through the lexer, the token stream through one `Parser` value, and the tree
through the printer. What makes it hard is not concurrency but three kinds of
state that are shared by many functions and changed in many places.

| Component | State | Operations | What makes it correct |
| --- | --- | --- | --- |
| Lexer (`lexer.rs`, `token.rs`) | byte position, line, column, the tokens and errors so far | `tokenize`, one function per kind of token | tokens cover the text in order; recovery from a bad character always advances |
| Parser state (`parse/mod.rs`) | `pos`, `paren_depth`, `app_context_col`, `collected_comments` | `advance`, `skip_whitespace`, `peek*`, `take_pending_comments_since`, `span_from`, `skip_to_next_declaration` | the bracket depth agrees with the constructs in progress; no comment is lost; spans end where the node does |
| Expression parser (`parse/expr.rs`) | a `Vec<Cont>` of boxed continuations, the locals each closure captures | `parse_expr` (the trampoline), the Pratt loop, the application loop, a function per form and a closure per sub-expression | a box is reopened with the value it waits for; the tree is the one written; the depth limit is exact; it terminates |
| Pattern parser (`parse/pattern.rs`) | the Rust call stack | a function per level of precedence | as for expressions, without comments |
| Type parser (`parse/type_annotation.rs`) | the Rust call stack, comment snapshots | a function per level | as for expressions |
| Declaration parser (`parse/declaration.rs`) | doc comment and signature carried to the declaration | `parse_declaration` and one function per kind | signatures and docs go to the declaration that follows; comments conserved |
| Module parser (`parse/module.rs`) | the module so far, the errors of the recovering mode | header, exposing list, imports, declarations; strict and recovering | the strict and the recovering mode agree on texts without errors; one broken declaration does not cost its neighbours |
| AST types (`node.rs`, `span.rs`, `comment.rs`, ...) | data only | | |
| Module comments (`file.rs`) | the comments left over by the parser | association of comments with declarations | each comment is given to one declaration |
| Printer (`print/mod.rs`, `pipeline_layout.rs`) | output, indentation and two saved indents, the chain it is in | one function per node | what it prints parses back to the same tree, with its comments |
| Comment slots and emission (`print/comment_slots.rs`, `import_layout.rs`, `decl_emission.rs`) | comments by slot between imports and declarations | filling, hoisting, merging and sorting of imports, emission | each comment is emitted once, in order; printing twice changes nothing |
| Doc reformatting (`print/doc_markdown/`) | the lines of a doc comment | ten passes over the lines, each with its own idea of code, list and fence; rewriting within lines; reformatting of code | no line is lost, code stays code, printing twice changes nothing |
| Traversals (`visit.rs`, `visit_mut.rs`, `fold.rs`) | none | structural recursion | every child visited once |
| Builders, Display, WASM | none | constructors and wrappers | |

How they interact. The parsing functions call each other and share one `Parser`
by `&mut`: an expression calls patterns (`case`, `let`, lambda) and types (`let`
signatures), and both come back into the expression that was waiting. Nested
*expressions* do not recurse: a function that needs one returns
`Step::NeedExpr(closure)`, the closure is boxed on the trampoline's stack with
everything around it, and reopened with the result.

What is hard to test there, each with its line in `PROJECT.json` under
`hazards`:

* *The trampoline.* Wrappers (record access, negation, the comments of an
  operand) must survive any sequence of boxing and reopening, and the depth
  limit is compared at a single place for constructs that box several times.
* *The pending comments.* `collected_comments` is one buffer; a function
  remembers an index into it (`comments_snapshot`) while others take elements
  out at any index and put some back.
* *Counters beside the stack.* `paren_depth` is counted by the tokens consumed,
  layout decisions are taken by constructs; `app_context_col` is set by one
  function for whichever application comes next.
* *Lookahead that goes back.* Records are told from record updates by reading on;
  the position is restored, the comments read are not.
* *Layout.* Where a `case` branch, a `let` declaration or an argument list ends is
  decided by comparing columns, differently inside brackets.
* *Texts with errors.* Every loop must end whatever the text; what recovery skips
  must not reach past the declaration that is broken.
* *Bytes and characters.* The lexer counts bytes and slices strings; after an
  error it goes on from wherever it stopped.
* *Two tables that must agree.* The printer decides on parentheses, line breaks
  and indentation by rules of its own; the parser decides by precedence and
  columns what they mean.
* *Three copies of the tree's shape.* Each traversal names every child of every
  node by hand.
* *A row of passes.* A doc comment goes through functions that each decide anew what
  is code, and what one inserts the next one reads.

## 2. The modules

| Module | Models | Role |
| --- | --- | --- |
| `ParserState` | `parse/mod.rs`, `node.rs` | tokens, nodes, frames, the cursor, the pending comments, control |
| `PatternParser` | `parse/pattern.rs` | one action per function and per place where one resumes |
| `TypeParser` | `parse/type_annotation.rs`, `parse_signature` | the same |
| `ExprParser` | `parse/expr.rs` | the same, with the trampoline; `ExprSpec`, `FairExprSpec` |
| `ExprInvariants` | | `TypeOK`, `DepthBound`, `ControlFitsStack` and the inductive invariant `IInv` |
| `ExprSafety` | | comments, brackets, context column, spans, termination |
| `DeclarationParser` | `parse/declaration.rs` | top-level declarations, which wait for the machine of `ExprParser` |
| `ModuleParser` | `parse/module.rs`, `skip_to_next_declaration`, `parse`, `parse_recovering` | header, imports, the declaration loop and recovery; `FairModuleSpec` |
| `ModuleSafety` | | comments and brackets of a whole module, what recovery leaves, the refinement |
| `Outline` | | what reading a module promises, whatever the text: the abstract specification |
| `Lexer` | `lexer.rs`, `token.rs` | one action per method or loop iteration, over bytes |
| `LexerSafety` | | `NoPanic`, `TokensInOrder`, `Tiled`, `PositionsRight`, termination |
| `Ast` | the data types | the forms of every node and their parts |
| `Traversal` | `visit.rs`, `visit_mut.rs`, `fold.rs` | the default methods of the three traits |
| `Layout` | the output helpers of `print/mod.rs` | steps of output, and the token stream that comes of them |
| `Printer` | `print/mod.rs`, `pipeline_layout.rs` | expressions, patterns and types, `Compact` and `ElmFormat` |
| `ModulePrinter` | `write_module`, `comment_slots.rs`, `import_layout.rs`, `decl_emission.rs` | the slots of comments, the imports, header and spacing of a module |
| `DocComment` | `write_doc_comment_text`, `print/doc_markdown/` | one action per pass that adds, drops or moves lines of a doc comment |
| `SourceText`, `CoreOperators` | (external) | token streams with the tree they stand for; the operator table of Elm's core library |
| `MCExpr`, `MCModule`, `MCLexer`, `MCTraversal`, `MCPrinter`, `MCModulePrinter`, `MCDocComment` | | the texts or trees of each run, and the properties that compare with them |
| `ExprProofs`, `TallyProofs`, `CommentProofs`, `BalanceProofs`, `SpanProofs`, `LexerProofs`, `ModuleProofs`, `ModuleBalance` | | proofs |

What extends what: `PatternParser`, `TypeParser` and `ExprParser` share the
machine of `ParserState`; `DeclarationParser` and `ModuleParser` are put on top of
it. `MCPrinter` composes `Printer` with `ExprParser`: its initial states are texts
the printer wrote. `MCModulePrinter` prints, reads and prints again.

**One machine for two styles of parser.** Recursive descent (patterns, types) and
the trampoline (expressions) are both pushdown machines. `calls` is the stack of
functions in progress, each a record of its locals (`Frame`); for an expression,
these are the nested closures being rebuilt around a `Step`. `conts` is the
`Vec<Cont>`: each boxed closure is the sequence of frames it closes over. `ctl` is
the function that runs next, and `val` the node just returned. An action runs from
one call or return to the next: all that the Rust function does in between is in
it, in its order. `Goto` is a call, `Return` a return, `Need` is
`Step::NeedExpr`, `Resume` the trampoline popping a box, `Fail` is `?` on an error.
For example `AfterSetterValue` is `record_after_value`, the closure that a setter's
value is handed to: it takes the trailing comment, then the comments before the
setter, then those before the value, and calls for the next setter, returns the
record or fails.

**Declarations and modules.** Their functions call `parse_expr`, `parse_pattern`
and `parse_type`, each on an empty stack. So they have a stack of their own
(`outer`), and wait in `at` while the machine runs. `want` is a row of
`expect`s still to be met. `mode` tells `parse_module` from
`parse_module_recovering`; an error in the machine or in an `expect` ends the one,
and in the other sets `at` to the skip to the next declaration.

**What a token stream is.** The parser never stops inside a run of newlines and
comments, so a stream is its significant tokens, each with the trivia before it,
and the cursor is an index and a flag `raw` (the trivia before the token is still
to be skipped). Offsets are numbered by raw token, which orders them as byte
offsets do. Columns are real numbers on a grid; the column comparisons of the
code are kept as they are.

**What a node is.** Its span, whether it is a function type (the code asks), the
comments it leads with (`cs`), the comments anywhere below it (`kept`) and the
spans of all nodes in it (`sub`). Names and literals are left out: no decision
of the parser depends on them. `sub` is enough to tell two parses of one text
apart, as a tree over a text is determined by the intervals its nodes span, up
to nodes with equal spans.

**Comments.** A comment has a position, lines and whether it is a block comment.
A doc comment is a token of its own, as the code leaves it in place.

**The lexer.** A text is a sequence of bytes, each standing for those that the
lexer treats alike; a character outside ASCII is a byte `"hi"` and a byte `"lo"`.
`mode` is the method that runs and `back` the one it returns to, `start` and `cur`
the positions of the token in progress and of the cursor. Taking a slice of the
text inside a character is `mode = "panic"`. `LexNumber` and its like are one
action where the method's loop has no decision that another part of the state
could see, and one action per iteration where it has (literals, comments,
GLSL).

**The traversals.** `pending` are the calls still to come, the next one first:
calling a method on a node replaces it by calls on its children, in the order in
which the trait's default method makes them. One method may be overridden by one
that does not go on, which is what the traits are for.

**The printer.** `Printer` gives for a tree the steps of output that the
`write_*` functions make (a token, a space, a newline with its indentation, hold
and set an indent); `Layout!Play` carries them out on a cursor and gives the token
stream the lexer would read from it, with the spans of the nodes. Its functions
are pure, so the model is operators: `WriteAs` and its like hold `write_expr` and
those it is mutually recursive with, told apart by their first argument.
`ModulePrinter` is a state machine, as the slots of comments are taken from and
added to while the module is written.

**Doc comments.** `DocComment` is a state machine as well: `lines` is the text, `pass`
the function it is handed to next. A line is its indentation and the kind of thing
it starts with (prose, a heading, a fence, a bullet, a declaration ...), for the
passes look at nothing else; lines with content carry the place they had in the
source. Code is as its reformatting leaves it.

## 3. The runs

A parsing run starts on one text of a set and lets the parser run to its end; the
texts are the interesting part. `SourceText` writes an Elm construct as words
together with its tree; a *sample* is a way to lay it out with comments and
newlines in its gaps. The set of texts or trees is chosen by the constant `Topic`.

| Run | Texts | Checked | Shows |
| --- | --- | --- | --- |
| `expr_forms` | every form of expression, pattern and type, nested where layout matters, with a newline or a comment of any shape in one gap (two in small texts), all chains of three operators, nestings on either side of the depth limit | `ParsesAsWritten`, `DepthBound`, `SpansNest`, `BracketsBalanced`, `ContextIsFresh`, `CommentsConserved`, `PendingInOrder`, `SnapshotsSeparate`, `LeadsItsNode`, `AttachedForGood` | each text parses to the tree it was written from or is refused for its depth exactly; each comment ends in one place, in order and before the node it leads; depth and context column agree with the stack at every step |
| `expr_broken` | texts with one word left out or replaced | `IInv`, `Terminates` | the machine never gets stuck or runs on, and its stack fits its control |
| `module_forms` | modules of every header, import and declaration, with comments; with a slip in one of three declarations | `ModuleParsesAsWritten`, `ModuleKeepsComments`, `ModuleBracketsBalanced`, `ConstructorsKeepApart`, `IntactAreRead`, `ImplementsOutline` | strict and recovering mode read sound modules as written; recovery goes on as `Outline` says and reads what the slip does not reach; a comment beside a pipe goes to the constructor on its side |
| `lexer_texts` | all texts of four pieces over two alphabets, texts written from known tokens, and a word below any line of three pieces or with a known slip | `NoPanic`, `TokensInOrder`, `Tiled`, `PositionsRight`, `LexesAsWritten`, `NextLineIsRead`, `LexerTerminates` | no byte is lost or in two tokens; tokens are at their lines and columns, and are the tokens written; the word below is read whatever the line held, unless it ends in a quote or in a character of several bytes (section 4); the end is reached |
| `traversal` | every form of every node, with every node that can be its part | `InSourceOrder`, `NothingMissed`, `FoldKeepsTree` | the walks meet every node once and in order, even with a method overridden; a fold rebuilds its tree |
| `print_forms` | every form of expression in every position, two nestings of those laid out over lines, trees split over lines in the source, pairs of operators, one comment at each place of an expression to which the parser attaches comments, but those the printer is known to leave out (section 4); elm-format and compact style | `ReadsBack`, `CommentsPrinted` | the parser's model reads the printed text to the tree that was printed, and the comment is in the text, once |
| `module_print` | modules of up to three imports and two declarations, comments of every shape in two gaps not far apart, imports of the same module, documentation groups that overlap; both styles | `CommentsWrittenOnce`, `StaysWithItsImport`, `OrderKept`, `Idempotent`, `ImportsMeanTheSame`, `HeaderExposesTheSame` | every comment is printed once, in order, and with its import; header and imports expose what they exposed, the imports under the names they had (two names for one module excepted, section 4); printing what was printed changes nothing |
| `doc_forms` | doc comments of two kinds of paragraph out of 20, with zero to two blank lines before, between and after; of three kinds with one blank line between; printed, read and printed again | `LinesKept`, `CodeStaysCode`, `ParagraphsKept`, `DocIdempotent` | no line is lost, swapped or escaped; code stays code, in its columns; paragraphs are neither joined nor split; the second printing changes nothing; the groups that lay out the header are those of the source |
| `expr_reread` | a comment after the first field name of a record | `CommentsKeptOnce` (violated) | finding 1 |
| `module_open_bracket` | a declaration with an unclosed bracket before two sound ones | `OthersSurvive` (violated) | finding 2 |
| `module_documented` | a module doc comment before imports | `DocumentedParses` (violated) | finding 3 |
| `module_merged` | imports of one module, the second opening a type | `MergingCombines` (violated) | finding 4 |

`CHECK_DEADLOCK FALSE` is set where the program returns: a parser's `ctl` is then
`"ok"` or `"error"`, the lexer's `mode` `"done"`; the liveness properties say
that nothing else is final.

*Bounds.* `MaxExprDepth` is 256 in the code. It is 4 in `expr_forms`, whose texts
nest up to it and beyond, 2 in `expr_broken`, and 30 where texts are printed, so
that it is not reached there. A text has up to about thirty words, one change to
the layout of each gap at a time, and for small texts two: comments are claimed by
loops over one gap or the whole buffer, so that two comments already make the
orders in which they can be taken differ. Chains of three operators show every
pair of neighbours in both orders, with the third to tell a fold inside the loop
from one after it. Three declarations are the fewest with a broken one between
sound ones. `MaxPieces` is 4, where a piece may be a whole bracket: enough for a
bracket in a bracket, an escape in a literal, or a character of several bytes
right after an error. Two paragraphs in `doc_forms` show every pass what every other
one has left above it, three a list or a fence further up. `MaxInt` (100) and `CodePoints` (0..100) stand for
`i64::MAX` and the values of `char`, so that numbers on either side of them are
short. In `module_print` the two gaps with comments are at most two apart: slots are moved between neighbours. `IndentWidth` is 4, as elm-format has it.

*Fairness.* The fair specifications have weak fairness on the next step: the
parser or lexer is a function call that runs until it returns, and nothing else
runs in its thread. `Terminates`, `LexerTerminates` and the `<>over` of `Outline`
rest on it.

*The refinement.* `ModuleSafety!ImplementsOutline` instantiates `Outline` with the
spans of header, imports and declarations for its items and the places of errors
for its faults: whatever the text, items and faults are given in the order of the
text, each beginning after everything given before it, nothing is given after a
fault unless in recovering mode, and reading ends.

*Mutants.* Every property of a passing run has a change of the model, in the way a
slip in the code would be, that makes the run fail. They stand before the
definition they change, marked `Mutant of`, and `PROJECT.json` lists them.

## 4. Findings

1. When `{ name` is not followed by `|`, the position is put back but the comments
   read are not taken out of `collected_comments`: they are collected again, and
   the tree holds them twice (`parse/expr.rs:1477`; `parse_record_type` does the
   same).
2. `skip_to_next_declaration` does not reset `paren_depth` (`parse/mod.rs:451`): after
   an error inside a bracket, layout is suspended for the declarations after it and
   they run into each other.
3. `parse_module_recovering` keeps the module's doc comment but does not advance
   past it (`parse/module.rs:375`): every import after it is an error.
4. Merging two imports of one module keeps the first of two items with the same
   name (`print/mod.rs:888`): `T` and then `T(..)` becomes `T`.

`CommentsConserved` and `PendingInOrder` except the comments of finding 1
(`Reread`), so that they can say something of all others. The texts of
`module_forms`, `print_forms`, `module_print` and `doc_forms` leave the other
findings, and those of the table, out in the same way.

Other statements of the documentation or of comments that the code does not meet.
Each definition is there, and fails under the `Topic` named when the
run's cfg is given it:

| Property | Module, `Topic` | Source | What the code does |
| --- | --- | --- | --- |
| `AnyColumnInBrackets` | `MCExpr`, `dedented` | `expr.rs:450` | an argument left of its function is not taken, though inside brackets |
| `SettersOwnTheirComments` | `MCExpr`, `setters` | `expr.rs:1503` | the start of a setter is taken before trivia is skipped: a comment before the second field goes to its value |
| `OthersSurvive` | `MCModule`, `deep` | `parse/mod.rs:451` | as finding 2, with a declaration that is too deep |
| `ImportErrorsAreFatal` | `MCModule`, `imports` | `module.rs:389` | an import that fails costs the imports after it, not the module |
| `DocsAreKept` | `MCModule`, `ports` | `declaration.rs:40` | the doc comment of a port is dropped |
| `AlwaysAnAst` | `MCLexer`, any | `parse/mod.rs:553` | a text with a lexical error gives no tree at all |
| `OneCharacterSkipped` | `MCLexer`, `stray` | `lexer.rs:70` | recovery skips the character after the unexpected one as well |
| `IdentityFoldKeepsAll` | `MCTraversal` | `fold.rs:485` | comments outside of expressions and patterns are lost by a fold |
| `FoldReachesNames` | `MCTraversal` | `fold.rs:417` | names and literals that `VisitMut` reaches are not reached |
| `PrintParsePrints` | `MCPrinter`, `negations` | `print/mod.rs:2645` | pretty styles: `-(-x)` is printed as `--x`, a line comment |
| `PrintParsePrints` | `MCPrinter`, `subjects`, `texts` | `print/mod.rs:3680`, `2465` | compact style: a `case` that is the subject of one, and a text over lines, do not read back |
| `LineEndIsSeen` | `MCLexer`, `lineEnd` | `lexer.rs:501`, `lexer.rs:71` | a quote at the end of a line takes the newline for its character, and so does, as the unexpected one, a lexer that an error left inside a last character of several bytes; recovery then skips the first byte of the next line |
| `MergingCombines` | `MCModulePrinter`, `aliased` | `print/mod.rs:852` | `import M` merged with `import M as N` is printed as `import M as N`, and of two aliases the first is kept: a name of the module is gone |
| `AttachedPrinted` | `MCPrinter`, `attached` | `print/mod.rs` | the comments of some places are not printed, see below |
| `BuiltTreesReadBack` | `MCPrinter`, `built`, `builtTall` | `print/mod.rs:2556`, `2281` | trees built without parentheses read back as others |
| `CodeStaysCode` | `MCDocComment`, `fenceAfterText` | `doc_markdown/markdown.rs:306` | a fence right below prose becomes indented lines of the paragraph |
| `CodeStaysCode` | `MCDocComment`, `keptFence` | `doc_markdown/markdown.rs:287` | the closing fence of a block that is kept (in another language, or after a list) is taken to open one with the next fence |
| `CodeStaysCode` | `MCDocComment`, `dashes` | `doc_markdown/markdown.rs:55` | between fences, a line with a dash is laid out as a list |
| `LinesKept` | `MCDocComment`, `fenceAfterText` | `doc_markdown/mod.rs:404` | a fence right after `{-|` with a blank line inside is escaped, again at each printing |
| `DocIdempotent` | `MCDocComment`, `linkFirst` | `doc_markdown/mod.rs:664` | of two blank lines before a first link one goes, the other at the next printing |
| `DocIdempotent` | `MCDocComment`, `noted` | `doc_markdown/blocks.rs:160` | the blank line put between imports and comments ends the code block at the next printing |
| `DocReprints` | `MCDocComment`, `forms` | `doc_markdown/mod.rs:115` | the end of a one-paragraph doc comment is laid out before later passes split it |

`AttachedPrinted` fails for every tree of `MCPrinter!Forgotten`. The comments not printed are:

* in both styles, those of what parentheses hold (`print/mod.rs:2855`), and those
  before the setters of a record update (`print/mod.rs:3002`);
* in pretty styles, those before the setters of a record, but for line comments
  after its first field (`print/mod.rs:2912`); block comments of list and tuple
  elements that stay on one line (`print/mod.rs:3336`), and all comments in a list of one
  text over lines (`print/mod.rs:3147`); those of the first operand of a chain that is
  laid out over lines inside an operand of another operator
  (`print/mod.rs:2193`), and of every operand of a chain below `<|`
  (`print/mod.rs:2415`); those before `)` around the right side of a definition or of
  `<|`, where the parentheses are taken off (`print/mod.rs:1298`, `2057`);
* in compact style, those of `if` conditions (`print/mod.rs:3481`), of list and tuple
  elements (`print/mod.rs:3320`), of setters, their values and their ends
  (`print/mod.rs:3352`), and before `)` (`print/mod.rs:2855`).

Block comments on operands are not among the trees, as the parser attaches only line
comments there (`parse/expr.rs:143`).

Met while reading and not stated as properties: a comment inside the span of an
anchor that no node holds is dropped by the pretty styles; a name twice in one `@docs` group is printed
twice; the trailing comments of an import's exposing list are dropped; the
trailing comment of the alphabetically last import goes to the next anchor of the
source; a comment after an arrow, before an argument in the middle of a type over
several lines, is dropped; `docs/printing.md:79` documents an `indent_width` of 2
with `ElmFormat`, where a record argument over several lines is printed in the
column of its constructor.

## 5. What is proved

### The parser

For every set of token streams that end with `eof` (`SourcesAssumption`) and are in
the order of the text (`OrderAssumption`: tokens and comments stand one after the
other, which is `TokensAreInOrder` of the lexer below), with comments only among
the trivia before a token (`GapAssumption`: the lexer gives a comment as a token
that `peek_past_whitespace` and `skip_whitespace` pass over, so there is no comment
where there is nothing to pass), and every limit (`DepthAssumption`):

* `Invariance`: `ExprSpec => []IInv`. `IInv` is `TypeOK`, `DepthBound`,
  `ControlFitsStack` and `NameConsumed`.
* `DepthIsBounded`: `ExprSpec => []DepthBound`, the resource guard of `parse_expr`.
* `BracketsAreBalanced`: `ExprSpec => []BracketsBalanced`. `paren_depth`, which
  `advance` updates at every token and which suspends layout, is the number of
  bracketed constructs in progress, over all boxes of the trampoline.
* `ContextStaysFresh`: `ExprSpec => []ContextIsFresh`. `app_context_col` is set only
  on the way from a list or record to the application that starts its next element.
* `PendingStaysInOrder`: `ExprSpec => []PendingInOrder`, whatever the claiming loops
  take from the middle of `collected_comments` and put back.
* `SpansAlwaysNest`: `ExprSpec => []SpansNest`. In every tree that a function hands
  on, two nodes are disjoint or one has the other inside, and the root has all.
* `CommentsAreConserved`: `ExprSpec => []CommentsConserved`. Every comment passed is
  pending or held by one node or function in progress, over all boxes of the
  trampoline, and only those the look for `|` reads twice are there twice.
* `AttachedStaysAttached`: `ExprSpec => AttachedForGood`. No step takes a comment away
  from what holds it.

`ControlFitsStack` is the interesting part: control only ever reaches a function
whose locals are on top of the stack, all frames below wait for a value, and every
box on the trampoline has a closure that takes an expression innermost and only
waiting frames around it. So no value is ever returned to a frame that cannot take
it, across any nesting of boxing and reopening. It is needed for type correctness
as well: that `Top` is a frame (an action reads its locals) and that `Resume` finds
a box it can reopen rest on it. `NameConsumed` says that the qualified-name loop of
a type starts after its first name; `QualifyType` reads the token before the
cursor, which exists only then. Without these two, `TypeOK` is not inductive.

The argument: `ExprProofs` first gives the type of every operator of `ParserState`
(the claiming loops included, `Select` being a recursive function whose type is
proved from the well-foundedness of the naturals), and shows that a
stack that fits stays one under the few kinds of step there are: call with a new
frame, call without, return, fail, box. Each of the actions is then reduced to one
of these by giving the types of what it computes: patterns and types, then
expressions and the trampoline.

The next three rest on a second invariant, `BalInv`, over `IInv`. None of them is
inductive alone. The depth needs that what a frame or box holds is counted
(`DepthIsOpen`, with the sum over the boxes as the cardinality of the set of places
that hold a bracket, so that it can be taken apart without an induction), and
that `Reduce` stands at an operator and not at a bracket (`AtOperator`), which the
code knows only from the step before. `advance` stops at zero instead of going
below, so a step that closes a bracket must also show that one is open (`Enclosed`).
The order of pending comments needs that all of them stand before the cursor
(`Sorted`), for the ones `skip_whitespace` appends next; a cursor that goes back,
in the look for `|` of a record, keeps this only because it excepts the comments
read twice (`BackGood`). The end of `ExprProofs` shows what each operation on a cursor does
to depth, context and pending comments: a claiming loop leaves a subsequence
(`PartOf`). `BalanceProofs` shows that in every action cursor and stack move
together (`Turn`: both stay level, both go one bracket in, or both one out), one
step per action, and that the five ways an action ends (`Goes`, `Returns`,
`Boxes`, `ResumeBalanced`, `Fails`) then keep `BalInv`.

`SpansNest` speaks of one tree, the one handed on. What makes it inductive is where
all the other nodes lie: those that functions in progress have read, in every box,
and the operands that wait for an operator to be folded. `SpanInv` (`SpanProofs`)
gives every frame, from the outermost box to the innermost call, a stretch of the
text of its own, each beginning where the one before it ends; what the frame holds
lies in its stretch and nests there (`Seg`). What is held ends before the cursor
(`Free`), the node handed on begins after it and ends at or before the last token
passed (`Carries`), so the function that takes it over still has nested nodes
(`Takes`). The places from which a later node will start must not fall inside a
node that is held (`Splits`): the mark of a field or declaration, the start of
a function's implementation inside its declaration, the starts in a chain of
`else if`. The node of a record field starts where the name was looked for, before trivia is
skipped, so `mark` is right only from then on (`Live`). `Reaches` and `Passes` are
what an action needs to know of its cursors: that one is not before, or past a
token after, the other. `Reduce` joins adjacent operands, which `OperandsFit` keeps
in the order of the text. One lemma per form of expression, pattern and type then
shows `SpanInv'`, each step by the kind it is (`Begins`, `Proceeds`, `Keeps`,
`Absorbed`, `Ends`, `HandsOn`, `LeafRead`, `FieldSpans`, `DeclGrows`).

The last two say where comments go, which a dozen loops decide that each take from
the middle of one buffer and put back what is not theirs. `TallyProofs` keeps an
account for each comment `c`: the copies that are pending, and `Total(c)`, those
that boxes, stack and the value being returned hold. `Even` says that they are one
in all if `c` has been passed, and none before. The cursor operations are shown to
keep the account (`SkipTally`, `TakenTally`, `SinceSplits` and so on: what a loop
leaves in the buffer and what it hands to its caller are, together, what was there),
from two facts about the text: a comment stands before one token only
(`OrderAssumption`), and a cursor that is not raw has passed all that stands before
its token, because where there is no trivia there is no comment (`GapAssumption`).

`Fair`, the account of every comment, is not inductive. Some functions build a node
without the comments of the nodes it is made from, and conserve comments because
there are none: a function type in parentheses is rebuilt from its value alone,
without the comments its node may hold (in `((a -> b))`, what was claimed in front of
the inner type as a first arm), and a pattern's own comments have no place in the
nodes around it. `Tidy` is what makes these harmless. `Neat` says, for
every frame of every box and of the stack, in which of its locals a function can hold
comments at all. `Meets` relates the innermost function to control and value:
a pattern, and a type in parentheses, comes back without comments of its own. Of
a type that takes three facts: types in progress are only above types (`Layered`);
its snapshot was taken after the trivia was skipped; and every comment that came
into the buffer since then stands behind the place where it looks for those in front
of the first arm (`Late`). That a reader of expressions never finds a pattern's or
a type's frame in a box (`Free`) closes the circle. `CommentInv` is `Tidy` and `Fair`.

The proof goes by kinds of steps. A step is `Sound` for `c` if it keeps `Tidy` and
books `c` (`Booked`): the account is even after it, and no fewer copies are held. A
function is pushed, swapped for another, boxed, reopened, or left with a value
(`PushSound`, `SwapSound`, `RestSound`, `CloseSound`, ...); `CommentProofs` takes each
action to one of these by what its locals hold before and after. `CommentsConserved`
then follows from the account (`HeldOnce`), and `AttachedForGood` from `Booked`: the
number of copies held of a comment never falls. The stacks are flattened with folds,
which are sums over positions; instead of an induction, each fact about them
takes the least position at which it would fail.

### The module parser

For the same streams, for every limit and for both modes:

* `ModuleInvariance`: `ModuleSpec => []ModuleInv`.
* `ImplementsOutlineSafely`: `ModuleSpec => Outlined!OutlineSafe`. Every step of the
  module parser is a step of `Outline` or a stutter: it gives header, imports and
  declarations in the order of the text, none overlapping another and none twice,
  reports each error past everything given and past the error before it, and gives
  nothing after an error unless in recovering mode.

That no item and no error is ever repeated says where the parser *reads from* when
it goes on, and `ModuleInv` is what it takes to know that. Its first part is the
invariant of the machine (`IInv`, with `Ordered`: the stream is in order), which is
inductive under `ModuleSpec` too: an error clears the stacks, and the module-level
functions call the machine only on empty ones (`MachineFits`). `PlaceFits` gives the
module-level functions their frames, as `ControlFitsStack` does in the machine.
`PartsFit` says that imports come after the header and declarations after
the imports, so that an item given is always the last of the outline (`Gathers`).
The other parts are about the text:

* `Started`: what was given ends before the construct in progress begins, so the item
  it becomes may follow; and its first token is passed before it can be complete.
* `ReadOn`: what was given ends at or before the last token passed, and no error lies
  past the token ahead. The last error may lie *at* that token: an error leaves
  the cursor where it is.
* `Stalled` says when that can be: while recovery skips; or at a token that starts a
  declaration (`skip_to_next_declaration` stops at one even if it is the place of the
  error, without passing it) up to the point where the declaration passes that
  token; or at the end. A second error at that place would be reported twice. It does
  not come: each way into a declaration passes such a token before it can fail.
  For a function this takes two functions and a return (`parse_declaration` sees a
  lower-case name; `parse_signature` or the `expect` of the name then passes it),
  which is why `Stalled` follows control up to there.

The argument: no operation on a cursor goes back (`Onto`; the look for `|` returns to
a place that is still ahead of where the step began), and so no step of the machine
does (`Forward`). `StepWorks` and `SignaturePasses` say when the machine is done and
what a signature passes. The steps of the module-level functions are then of few
kinds (`CarryOn`, `GoOn`, `OpenOn`, `MoveOn`, `RaiseOn`, `ItemIsRead`), each of which
keeps `ModuleInv` and is a step of the outline; one lemma per action or group of
like actions reduces it to one of them, `CatchStep` and `EndStep` standing alone.

* `ModuleBracketsStayBalanced`: `ModuleSpec => []ModuleBracketsBalanced`
  (`ModuleBalance`). Up to the first error `paren_depth` is the number of brackets
  that the functions in progress hold, over every box of the trampoline, and the
  exposing list or effect block being read.

After an error nothing is claimed: recovery does not reset `paren_depth`, and a
declaration that broke inside brackets leaves it too high (section 4). `ModuleBal`
adds to `ModuleInv` that `BalInv` of the machine holds while it works. To know this
when the machine is called, depth and context column must be known to be zero while it
is idle, and the pending comments in order. But header, exposing
lists and infix declarations read their brackets as single tokens of a row still
expected (`want`). So the depth is counted with the brackets that row has yet to open and
close (`Counted`): `(`, an operator, `)` of an infix declaration starts at zero and
leads back to it. `advance` stops at zero instead of going below, so no row may
close a bracket it has not the depth for: in no row does a bracket open after
one was closed (`Orderly`), and then the count says that the depth is positive at every closing
one. `RowsCount` checks each row of the code, from the depth at which it is
reached to the function it leads to; `RowGoesOn` passes one token of a row;
`Outset` and `Lands` say where every module-level function starts and may
end, and one lemma per action or group of like actions applies them.

### The lexer

For every text of whole characters (`TextsAssumption`: a `&str` is valid UTF-8),
every greatest integer and every set of code points:

* `LexerInvariant`: `LexerSpec => []LexerInv`.
* `TokensAreInOrder`: `LexerSpec => []TokensInOrder`.
* `LexerNeverPanics`: `LexerSpec => []NoPanic`.

`LexerInv` is the types, that the cursor is in the text or at its end and not
before the start of the token, `TokensInOrder`, `NoPanic`, and two facts that make
these inductive. `AtCharacter` says that a character starts at the cursor in each
mode that slices there: a method that is entered after an error could have
stopped inside one. `InEscape` says that a Unicode escape goes on in a literal, so
that the cursor is at a character again when it ends. The argument: `PastCharOK`
and `CharacterAfter` say where a cursor stands after advancing past a character
or an ASCII byte. `ReadStep`, `PushStep` and `ErrorStep` show `LexerInv'` for the
three kinds of step there are (reading on in a token, giving one, reporting an
error); `DispatchStep`, `WordStep`, `CharStep`, `StringStep` and `CommentStep` reduce
each action to one of them by what it advances past, and `Inductive` puts them
together.

Two more rest on `LexerInv`:

* `PositionsAreRight`: `LexerSpec => []PositionsRight`. The line of every token
  counts the newlines before it, its column the bytes since the last one, after
  newlines inside strings, character literals and comments too, and after errors.
  `RightInv` says it of the cursor and of the start of the token in progress as
  well; `PositionsRight` alone is not inductive.
* `TextIsTiled`: `LexerSpec => []Tiled`. As long as no error is met, every byte
  passed is in the token in progress, in exactly one token given, or is a space.
  `TiledInv` says for each byte which of the three holds, with the one token that
  holds it in place of a cardinality; its proof needs `TokensInOrder`.

Their proof needs to know of an action only what it does to the cursor, the start
and the tokens: `StepShapes` says that each reads on, gives a token from the start
up to the cursor, reports an error, or passes a space.

### What is only model-checked

Liveness, with the `<>over` of `Outline`; the correctness of trees
(`ParsesAsWritten` compares with a written text); to which node the parser gives a
comment (`LeadsItsNode`, `SnapshotsSeparate`; that it gives it to one only is proved);
of whole modules their comments and which declarations recovery still reads; that
the lexer's tokens are those written; the printers, whose operators are recursive;
the traversals.

## 6. Plan

1. Proofs: `SnapshotsSeparate` and `LeadsItsNode` (`Late` is a first instance of what
   they need), and the comments of a whole module (`ModuleKeepsComments`), over
   `CommentInv` as `ModuleBalance` is over `BalInv`.
2. Printing of declarations and of types over several lines (`write_declaration`
   and below, `write_type_multiline`), composed with `DeclarationParser` as
   `MCPrinter` is with `ExprParser`.
3. `ModuleComments` (`file.rs`): to which declaration a comment is given.

## 7. Not modelled

The components with status `not_modelled` in `PROJECT.json`: the queries of
`file.rs`, builders,
`Display` and the WASM bindings (wrappers without state). Of the printer, the
layout of declarations and of types over several lines, and the re-indentation
inside comments. Of doc comments, the rewriting within a line and the reformatting of
the code in them, with its predicates on what a line looks like. Within what is modelled: the wording of errors, the values of
literals and names, byte lengths beyond what the lexer counts, the size of the
native stack (patterns and types recurse on it without a limit).
