# TLA+ models of lua-gumbo

lua-gumbo is an HTML5 parser for Lua.  A C library (`src/lib`, a fork of
Google's Gumbo) turns a buffer of HTML into a tree of nodes; a C binding
(`src/gumbo/parse.c`) copies that tree into Lua tables; Lua modules
(`src/gumbo/dom`) give those tables the methods of the DOM.

This directory holds TLA+ models of that whole way, from the bytes of the input
to a loop over the finished DOM: the UTF-8 iterator, the tokenizer with
character references, tree construction with every insertion mode, the node
tree below it, the vectors and string buffers all of them are made of, the copy
to Lua, and the methods and walks by which Lua programs read and change the
tree.  TLC checks the models on small inputs; TLAPS proves, for every size, that
the operations on the tree keep its links and indices right, that tree
construction as a whole does, with every handler, and never holds a pointer to a
node that does not exist, that the DOM's methods keep its lists right and do what
they promise, that a walk sees every node in order while the sanitizer takes
nodes away under it, that a vector is a list, and that the iterator stays inside
its input and reads the characters that Unicode and HTML say are there.

## The system

| component | state | operations | correct when |
|---|---|---|---|
| UTF-8 iterator (`utf8.c`) | read position, width, current character, line, column, offset; a mark with its place | init, next, mark, reset, match | it never leaves the buffer; to its callers it is a cursor in the characters of the text |
| Character references (`char_ref.c`) | none | numeric and named references, in text and in attributes | the longest reference is decoded, or nothing is consumed |
| Tokenizer (`tokenizer.c`) | lexer state, temporary buffer and a position in it, reconsume flag, buffered character, current tag and doctype | `gumbo_lex`; its state is set by the tree builder | the tokens are the source cut into pieces; no assertion fails; each allocation has one owner; it ends |
| Node tree (`parser.c` 325-450, 845-900, 1970-1990) | nodes with a parent pointer, a children vector, `index_within_parent` | create, append, insert, remove, swap of children, traverse and free | vectors, pointers and indices describe one tree; freeing it visits each node once |
| Tree construction (the rest of `parser.c`) | insertion mode, stack of open elements, list of active formatting elements, stack of template modes, text buffer, head/form/context pointers, flags | one handler per insertion mode, foreign content, the adoption agency, the main loop | no assertion fails; stack, lists, mode and tree agree; the document has the outline HTML prescribes; the parse ends; every allocation is freed |
| Vector, string buffer (`vector.c`, `string_buffer.c`) | data, length, capacity | add, insert, remove, append, reserve, format | contents as of a list; no cell outside the block is touched |
| Tag and attribute tables (`tag.c`, `tag_lookup.c`, ...) | none | lookups generated by gperf; a tag's name found in its text | the text names the tag |
| Errors (`error.c`) | a vector of errors | add, render | recording errors changes nothing else |
| Lua binding (`gumbo/parse.c`) | the Lua stack | copy of a finished tree | the copy has the shape of the tree |
| Lua DOM (`gumbo/dom/*.lua`) | tables with `childNodes`, `parentNode`, `attributes` | insertBefore, appendChild, replaceChild, removeChild, adoptNode, cloneNode, setting `textContent`, setAttribute, removeAttribute, walk, reverseWalk, lookups | each node is in its parent's `childNodes` once, and nowhere else; a call that fails has changed nothing; a walk sees every node once |
| Sanitizer (`sanitize.lua`) | none of its own | removes nodes and attributes during a reverse walk | what is not allowed is gone, all else stays |
| Serializer | none | string building over a tree | - |

How they interact.  `gumbo_parse_with_options` runs a loop in one thread.  Each
turn calls `gumbo_lex` for a token, unless the last handler asked for the token
again (`_reprocess_current_token`), and hands it to `handle_token`, which picks
the handler of the insertion mode or the rules for foreign content.  Handlers
call helpers that change the tree and the stacks, call each other for the rules
they share, and reach back into the tokenizer to set its state.  The tokenizer
in turn asks whether the current node is foreign, to allow CDATA sections; it
pulls characters from the iterator one at a time, marks places, and goes back
when a reference or a keyword does not come.  When the loop is done the binding
walks the C tree once and builds Lua tables; then the C tree is freed and the
Lua program owns its copy.  `walk` and `reverseWalk` are coroutines: the loop
body of a caller runs between two of their steps.  Nothing else is concurrent,
nothing is stored across runs, and running out of memory aborts the process.

What is hard is the length of the histories.  The handlers share about fifteen
pieces of state; each assumes relations between them ("in cell" means that a
cell is open) which are nowhere written down, and which depend on all tokens so
far.  Text waits in a buffer and gets its place later.  The index of a node is
cached in the node.  The ownership of a token's strings depends on the branch
taken.  The tokenizer gives characters back by replaying a buffer while the
input stands behind it, and a flag says whether the current character is still
to be read; sixty-eight states have to agree on both.  In the Lua DOM what is hard
is that a tree is held in two ways, `childNodes` down and `parentNode` up, that
`ownerDocument` is a field of some nodes and looked up for others, that each
method is a sequence of calls any of which may raise an error that the caller
catches, and that a walk keeps lengths and indices of lists its caller changes.
`PROJECT.json` lists these hazards with their lines.

## Modules

| module | models | lines of code it stands for |
|---|---|---|
| `Utf8` | the iterator as a record, and what each function does to it | `utf8.c` |
| `Utf8Iterator` | its calls in any order, one turn of a loop per step; `InBounds` | the callers' use |
| `CharCursor` | abstract: a cursor over characters with places, and a bookmark | |
| `Utf8Text` | Unicode's definition of the characters of a source; `Utf8Iterator` implements `CharCursor` | |
| `Utf8Iterator_proofs` | the theorems about `InBounds` and `IsCursor` | |
| `CharRef` | character references | `char_ref.c` |
| `TokenizerState` | the tokenizer's state and its helpers | `tokenizer.c` 300-945 |
| `DataStates`, `TagStates`, `MarkupStates` | one action per lexer state: text, tags, comments with doctypes and CDATA | `tokenizer.c` 946-3096 |
| `Tokenizer` | `gumbo_lex`, and the tree builder between its calls; the properties | `tokenizer.c` 3176-3230 |
| `TokenStream` | abstract: a source cut into tokens that are what their text says | |
| `Tokenizer_proofs` | the theorems about `Tokenizer` | |
| `GumboTree` | the node table and the functions that change its links | `create_node`, `append_node`, `insert_node`, `remove_from_parent`, step 16, `tree_traverse` |
| `NodeTree` | these functions in any order: what the parser may do to a tree | their callers' conditions |
| `FoldLemmas` | lemmas: the least number, induction over a prefix, what a fold over a sequence and a recursion over numbers are | |
| `GumboTree_lemmas` | lemmas about positions in lists, `InsertAt`, `RemoveAt` and `Ancestors`; what each operation of `GumboTree` does to a sound table | |
| `NodeTree_proofs` | the theorems about `NodeTree` | |
| `ParserState` | the parser state and the helpers the handlers share | scopes, insertion locations, pops, formatting elements, reset of the insertion mode |
| `Adoption` | the adoption agency algorithm | `adoption_agency_algorithm` |
| `InBody` | `handle_in_body` and the parts of other handlers that it calls | `handle_in_body`, parts of `handle_in_head` |
| `InsertionModes` | the other handlers and `handle_token`'s dispatch | `handle_initial` ... `handle_in_foreign_content` |
| `TreeConstruction` | the state machine: tokens, main loop, end of the parse | `gumbo_parse_with_options`, `fragment_parser_init`, `finish_parsing`, `gumbo_destroy_output` |
| `TreeProperties` | the properties of tree construction | |
| `TreeConstruction_proofs` | lemmas: each helper of `ParserState` and `Adoption` keeps a good parser state good, and so does each handler, and each turn of the main loop; the theorems about `TreeConstruction` and `LuaTree` | |
| `LuaTree` | the copy to Lua, and that it mirrors the tree | `parse.c` 144-231 |
| `GrowingArrays` | vectors and string buffers, cell by cell | `vector.c`, `string_buffer.c` |
| `ItemList` | abstract: a list of items | |
| `GrowingArrays_proofs` | the theorem that vectors and buffers implement it | |
| `LuaDom` | every method that changes the tree, and the properties | `Node.lua`, `ChildNode.lua`, parts of `Document.lua`, `Element.lua`, `Text.lua` |
| `LuaDom_proofs` | the theorems about `LuaDom` and `DomWalk` | |
| `ElementAttributes` | attributes as a list and under their names | `Element.lua` 116-163, `parse.c` 82-107 |
| `DomWalk` | `walk` and `reverseWalk` as coroutines, with the loops that use them | `Node.lua` 46-79, `sanitize.lua` |
| `MCTree`, `MCTokenizer`, `MCUtf8`, `MCArrays`, `MCDom`, `MCWalk` | the inputs and sizes TLC checks | |

`Utf8`, `CharRef`, `TokenizerState`, `DataStates`, `TagStates`, `MarkupStates`,
`Tokenizer` is one chain of EXTENDS, `GumboTree`, `ParserState`, `Adoption`,
`InBody`, `InsertionModes`, `TreeConstruction`, `TreeProperties`, `LuaTree`,
`MCTree` another.  `NodeTree` and `LuaDom` extend `GumboTree`, `DomWalk` extends
`LuaDom`, and `LuaTree` instantiates it: the tables that the copy makes must
satisfy `LuaDom`'s invariants, from which its methods start.

### From code to model

A C handler is a sequence of calls that change one `GumboParserState`.  So the
model's state is one record `p`, and a handler is an operator from a record and
a token to a record, a composition of the operators that model its calls:
`insert_element_from_token(maybe_implicitly_close_p_tag(p), t)`.  An action of
`TreeConstruction` is a whole turn of the main loop, one action per entry of
`kTokenHandlers`; besides `p` a turn sets the token to be reprocessed, the count
of tokens and the loop count.

- `p.nodes` is a sequence of nodes in the order of their allocation; a pointer is
  a position in it, `NULL` is 0.  A freed node keeps its place with type `freed`.
- `p.open`, `p.afe` and `p.tmodes` are the three stacks, top at the end.  The
  marker in the list of formatting elements is -1.
- `p.pending` is the text buffer: the node type it will become and the set of
  character classes in it (not the characters).
- `p.owned` says that the token in hand still owns heap memory.  Handing it to a
  node and freeing it clear the flag, and fail if it is already clear.
- `p.failed` is the first `assert` that does not hold.  The state machine stops
  there, with status `aborted`.  A read below the bottom of a stack counts too.
- The tokenizer is the environment.  It delivers the tokens of a `prefix` and
  then any tokens of an `alphabet`, then the end of the input.  Its state limits
  what it can deliver: after `<title>`, text and `</title>`; a CDATA section only
  begins while the current node is foreign, and then goes on whatever becomes of
  that node.  (`Tokenizer` is the same boundary seen from the other side: there
  the tree builder is the environment.)
- Attributes are a set of names that matter to a handler (`color` on `font`,
  `encoding`); quirks mode is an attribute of the doctype token.

The tokenizer's state is a record too, `tokenizer`, and each of the 68
lexer states an action, which reads the current character: it stands for one
call of the state's handler by the loop of `gumbo_lex`, with the advance of the
input that the loop makes or, if the reconsume flag is set, does not.  `phase`
says whether `gumbo_lex` is running or the tree builder has the token.  Text is
a sequence of characters of the classes the code tells apart; keywords
(`DOCTYPE`, `PUBLIC`, `[CDATA[`) are one symbol.  `tokenizer.fault` is set when
an `assert` does not hold, `tokenizer.owned` names what is allocated and not yet
handed over.  In `Utf8` a byte is a representative of its row of the decoder's
table (`"E0"` and `"ED"` are leads with restrictions of their own), so that
`decode` accepts and rejects as the table does.

In `GrowingArrays` memory is a function from cells to contents, `Junk` where
nobody has written.  Reading, writing or moving outside of the block sets
`overrun`, and so does an assertion that fails.  A shift by six bits is a division,
by the powers of 64 in `Shift`.

In `LuaDom` a method is an operator too: from the nodes and its arguments to the
nodes it leaves behind and the way it ends, which is that it returns, that it
raises an error, or that it never ends.  A method that calls another goes on
only if that one returned; what it did before an error stays.  An action makes
one call, on any nodes.  `own` is the field `ownerDocument` of the Lua table
itself, which nodes made by the parser and by `Text()` do not have; assigning it
is ignored for them, as `ownerDocument` is read-only.  A template's content is a
fragment that is no child of it; a doctype has no `parentNode`, as `parse.c`
sets none.

In `DomWalk` a coroutine is its stack of calls of `iter`, each with the length
it read and the child it is at; every resume and every round of a loop is an
action of its own, so the removals of `sanitize` come where they do in Lua.
An attribute list is a sequence and a table of names, which `setAttribute` and
`removeAttribute` change one after the other.  `setAttribute` looks the name up in
the table, where `length` finds a number that cannot be set (`LookedUp`).
`getAttribute` looks a name up as it is, or in lower case (`Key`) in an HTML element;
`lower` is a constant, and names with a capital are among those that are set.

Operators named `<operator>_<Variant>` are not part of the model.  Each states
a plausible mistake in the operator below it; exchanged for it, the mistake
makes a run fail, which shows that the property would catch it.

## What is checked

| run | inputs | bound | distinct states | shows |
|---|---|---|---|---|
| `formatting` | formatting elements closed out of order, from four beginnings | 5 tokens | 88 000 | the adoption agency keeps tree, stack and list in step, and text in place |
| `documents` | tables, templates, selects, heads, framesets, foster parenting; thirteen context elements; SVG, MathML and CDATA; late framesets behind `</body>` and a comment; blocks, tables and closed forms nested against `max_tree_depth` 4 or 5 | 4 tokens | 303 000 | assertions, outline of the document, mode against stack, where HTML is in foreign content, tokens released, the depth limit, the copy to Lua, the end of the parse; the indices, the depth and what is freed, each with the exceptions that the code makes |
| `node_tree` | the tree's operations in any order | 5 nodes | 14 500 | links, indices, no cycle |
| `lua_dom` | the DOM's methods in any order, from four trees | 5 nodes | 10 000 | one list per node; insertions and replacements land where they should; failed calls change nothing |
| `dom_walk` | loops over every tree, edits of attributes before them, names with a capital and `length` among them | 5 nodes, 3 attributes | 127 000 | every node once and in order; the sanitizer leaves what is allowed; `getAttribute` finds what is in the list; loops end |
| `utf8` | every text, every order of calls | 3 or 4 bytes | 55 000 | bounds; the iterator is a cursor |
| `tokenizer` | every text behind a beginning for each lexer state | 2 to 5 characters | 351 000 | assertions, ownership, tags, comments, the stream of tokens, the end |
| `arrays` | every order of operations on a vector and a buffer | 7 cells | 11 000 | both are lists |

Four more runs each show a disagreement between the code and what it says; see
below.

Tree construction (`TreeProperties`, `LuaTree`):

- the tree: `LinksConsistent`, `IndexConsistent`, `NothingStrays` (no subtree is
  lost), `DocumentShape` (html, head, body or frameset, in that order),
  `TablesHoldTableParts`, `LeavesInSourceOrder`, `DepthBounded` (also where the
  parse has ended), and `DestroyFreesAll`, an action property: which nodes and
  which token are left when the output is destroyed;
- the stacks: `PointersLive` (with the root at the bottom), `StackIsPath` (the
  stack is a path down the tree), `ListFollowsStack`, `NoahsArk`, `MarkersMatch`;
- the mode: `ModesMatchStack` (the insertion mode and the template modes have
  their elements on the stack), `ForeignHoldsNoHtml`;
- tokens and text: `TokenReleased`, `FlushedWhereRead` (an action property: what
  was read at one place is not inserted at another), `NoAssertFails`;
- the copy: `DomMirrorsTree`;
- liveness: `ParseEnds`.

`IndexConsistent`, `DestroyFreesAll`, `DepthBounded` and `ForeignHoldsNoHtml` hold
of the code only with exceptions.  The inputs include them, and the formulas
(`BehindBody`, `OutOfReach`, `ClosedForms`, `ClosedAtOnce`) say exactly
where each begins and ends, so a node or a level more than that is an error; see
"Where the code does not do what it says".

Tokenizer: `AssertsHold`, `NothingLeaks` (between calls nothing is owned but by
the token), `TagsAsWritten` and `CommentsAsWritten` (names, values and texts are
computed a second time, from the text of the token: where the value of an attribute
is written is found from its name on, `Written`, and the value is that text with its
references decoded, `ValueOf`), `TokenizerEnds`, and the
refinement `IsTokenStream`.  The iterator: `InBounds` and the refinement
`IsCursor`.  The arrays: the refinement `IsItemList`.

The Lua DOM: `ListedByParent`, `WalksEnd` (no node below itself), `MovesInPlace`,
`CallsAreAtomic`; the last two are about what a call does, and are checked of
every call in every state that can be reached, `CallsAreAtomic` only while no
`parentNode` is stale, see below.  Walks: `VisitsInOrder`, `OnlyAllowedStay`,
`AttributesFound`, and `WalkEnds` for liveness.  `AttributesFound` says what
`getAttribute` answers for every name in an HTML element and in one of another
namespace: which attributes it finds, that it finds no other, and when it raises an
error.

### Refinement

- `Tokenizer` implements `TokenStream` (`IsTokenStream`).  The abstract module
  knows a source, the last token with the piece of the source it is, and the kind
  of raw text that is being read; it says what the next token may be from its
  text alone.  The mapping takes the
  token and its `original_text` of the last call, and steps that return no token
  stutter.  So no character is lost, seen twice or out of order, raw text is not
  taken for markup, a reference stands for what the table says, and the longest
  one is taken.
- `Utf8Iterator` implements `CharCursor` (`IsCursor` in `Utf8Text`): the text
  beside it is decoded by Unicode's definition of well-formed sequences, not by
  the table, and positions are counted from the decoded characters.  `start`
  maps to an index into that text.
- `GrowingArrays` implements `ItemList` (`IsItemList`): the used cells are the
  list, and capacity, growth and moves of memory are stutters or invisible.
- The tree that `TreeConstruction` ends with, copied by `LuaTree`, satisfies the
  invariants of `LuaDom` (`DomMirrorsTree`), which joins the C half of the
  project to the Lua half.

### Bounds

`MaxTokens` counts the tokens after the prefix.  Most relations between the
parser's pieces of state involve two or three elements (a formatting element, a
block in it, a table), so four or five free tokens reach each branch of the
dispatch; where a branch needs more, a prefix leads up to it: five formatting
elements for the adoption agency's inner loop, which goes round at most three
times before it drops elements from the list; nine nested blocks for its outer
loop, which makes at most eight passes.  The alphabets are small because the
parser treats most tags alike: one block, one table section and one cell stand
for all.  `max_tree_depth` is an option, so each input has one: 400, the default,
which is out of reach, or 4 or 5, which inputs exceed, also by the parts of a table
that a tag implies, and behind a form that is closed before the elements in it.  `MaxLoopCount` stands for the
limit of 1000000000 that the code asserts; 30 turns are enough for six tokens, so
a cycle of modes that hands a token on for ever would fail that assertion.

`tokenizer` has inputs of a beginning that leads to a lexer state, and every
text of two to five of the characters that matter there; the beginnings reach
all 68 states.  Tag and reference names are one to three letters (`s` is
script, `t` a tag with RCDATA, `y` one with RAWTEXT, `p` is plaintext), which
keeps texts short; `WordSize` is 2^12 with surrogates and the largest code point
scaled down, because TLC's integers end below 2^32.  Whether the current node is
foreign is free before each token, but only in inputs with a CDATA section, where
it matters.  `utf8` has every text of up to three bytes over fifteen classes, all
leads of four bytes with good and bad continuations, and four characters of line
breaks and tabs; `TabStop` is 4.  `arrays` has seven cells, so that vectors of
capacity 0, 1 and 5 and a buffer of 5 bytes are doubled, the buffer twice in one
call; `WordSize` is 64.

`MaxNodes` is 5 in `node_tree`: a foster parent, a sibling on either side, and a
subtree of two.  `MaxDomNodes` is 5 in `lua_dom`: a document, an element, and in
it the moved node and a neighbour on either side of where it goes.  `dom_walk`
starts from every tree of up to `TreeSize` (5) nodes, with every choice of what
is allowed; attribute lists have up to three entries (`MaxAttributes`), and are
edited before the walk in trees of two nodes (`MaxEdited`), as the edits and the
shape of the tree do not meet.  `lua_dom` and `dom_walk` do not check for
deadlock: a call that never ends, or an error, stops the program, and so does
the end of the loop.

### Fairness

The program is one thread that takes a step whenever it can, and each step ends:
so a step is taken again and again until the program is over.  In
`TreeConstruction` `Fairness` is weak fairness of the main loop's turns
(`parser.c` 4464-4535), in `Tokenizer` of the steps of `gumbo_lex` and of the
loop that calls it; both are written out without `ENABLED`, which TLC evaluates
slowly: the condition under which a step is possible is that the program is not
over, and a step that is taken is a step of the specification that changes the
variables (`<<TRUE>>_vars`).  In `DomWalk` it is weak fairness of the `for` loop alone: whether a caller
makes a call is up to it, but once in the loop Lua goes on.  `ParseEnds`,
`TokenizerEnds` and `WalkEnds` need it.  The input is finite, as a buffer is:
after `MaxTokens` tokens only the end of the input can come.

### Where the code does not do what it says

Four runs each find a property violated, by an input that the passing runs leave
out.

| run | input or call | what happens |
|---|---|---|
| `table_cdata` | a table with `<svg><desc>`, CDATA, then text | at the integration point a CDATA token, unlike other characters, goes through the rules for foreign content (`parser.c` 4355-4359, 4173), which leave it in the text buffer; the text after it goes to `handle_in_table`, which asserts that the buffer is empty (3304) |
| `stale_parent` | setting `textContent` of an element with children | the children still name it as `parentNode`; they can never be inserted anywhere again, and if it is appended to one of them, `contains` and `ownerDocument` run for ever |
| `duplicate_attribute` | `<a x x y>`, errors not kept, as in the Lua binding | the repeated name stays in the tag buffer: the attributes are `x` and `xy` |
| `end_tag_space` | `</a >` | the name found in the text is `a` with the blank, so in foreign content the end tag does not match |

Other disagreements are stated in properties of the passing runs, as the exceptions
without which these would not hold; their inputs are among those of the runs.

| property | input or call | what happens |
|---|---|---|
| `IndexConsistent` | `</body><!--c--><frameset>` | the frameset takes the body out of the root's children by `gumbo_vector_remove_at` (`parser.c` 2724), which renumbers nothing: the comment behind the body keeps an `index_within_parent` (`gumbo.h` 613) one too high, that of the frameset |
| `DestroyFreesAll` | the same | `tree_traverse` goes on behind the comment's index (411), past the frameset, which is never freed; behind two comments it is, and the second comment is not |
| `DestroyFreesAll` | `<table><td>` with little depth left | the depth limit ends the loop while the start tag waits to be reprocessed (4529): its attributes are never freed |
| `DepthBounded` | `<form><div></form>`, again and again | `</form>` takes the form off the stack and leaves the element in it open: the tree grows by two levels while the stack, which is what `max_tree_depth` (`gumbo.h` 651) is compared with, grows by one |
| `DepthBounded` | `<col>`, `<svg/>`, a stray `</p>` at the limit | an element that its own tag closes is off the stack when the loop compares: it may lie one level below the limit |
| `ForeignHoldsNoHtml` | `<svg></p>`, `<math></br>` | no foreign element has the name, so the end tag goes to the rules for HTML, which make an empty `p` or `br` inside the foreign element |
| `AttributesFound` | `setAttribute("Foo", ...)` on an HTML element | `setAttribute` keeps the capital and `getAttribute` looks for `foo` (`Element.lua` 121-123): it answers `nil`, where `docs/api.md` 139-146 says that it returns the value |
| `AttributesFound` | `getAttribute("length")` | `AttributeList.lua` 6 answers the name with the number of attributes; without an attribute of that name, `getAttribute` takes the number for an attribute and raises an error, where `docs/api.md` 140-141 promises `nil` (and `setAttribute` does as well, on an element that has others) |
| `TagsAsWritten` | `<a x>` | an attribute without a value has the name's text as its `original_value`, where `gumbo.h` 336-338 promises a string of length 0 |
| `TagsAsWritten` | `<a x=&amp;b>` | an unquoted value that begins with a reference has an `original_value` that starts behind it |
| `TagsAsWritten` | a null before an attribute's name | it goes to the temporary buffer: it is in `original_name`, and not in the name |

### Observations

Met while modelling, and not stated as properties.

Tree construction.  The passing runs leave out the inputs that lead to the first two,
where a property speaks of them:

- `</form>` takes the form off the stack before the text buffer is flushed (2916):
  text read inside the form lands outside it;
- a doctype in a `noscript` in the head is dropped without `ignore_token` (2534):
  its strings leak;
- step 13.5 of the adoption agency removes a node from the list of formatting
  elements and leaves it on the stack, hence the restriction in `StackIsPath`;
- after a frameset has replaced the body the form element pointer may name a
  freed form, but the modes in which it is followed do not come back;
- a node of type `GUMBO_NODE_WHITESPACE` may hold U+FFFD, where `gumbo.h` and
  `docs/api.md` speak of whitespace only.

Tokenizer, references and iterator:

- a numeric reference is computed modulo 2^32: `&#4294967361;` is an `A`;
- some doctype states emit the doctype twice, once too early (2661-2666,
  2706-2711, 2866-2871), the second time with what `doc_type_state_init` left;
- a null behind an attribute name goes to the temporary buffer, too, and one
  right behind `</` stays a null in the comment;
- the text of a token includes a `</>` before it, which makes an unknown start
  tag look like an end tag to `gumbo_tag_from_original_text`; a carriage return
  does not end a name there (`PlainText` leaves both out);
- the text of a lone carriage return is empty, and a final one is missing from
  the text of the end of the file;
- `consume_named_ref` reads the byte behind the name, at the end of the buffer
  the NUL that Lua's strings end with;
- `utf8.h` 33 says that the mark is initially set to the beginning; `utf8iterator_init`
  does not set it, and the callers mark before they reset.

Lua:

- `adoptNode` assigns `ownerDocument`, which `Node.lua` 30 lists as read-only, so
  a node made by the parser keeps none (`Document.lua` 80), and insertions into it
  raise an error;
- insertions into a document, into a fragment, and into anything the parser made
  that a caller has taken out of its document always raise an error, since
  `preInsert` finds no `ownerDocument` there: the checks that
  `ensurePreInsertionValidity` makes for documents decide nothing;
- a forward walk whose loop removes nodes meets `nil` and ends the loop without an
  error; the callers in the repository that remove use `reverseWalk`;
- the parser may leave two attributes of one name in a foreign element: removing
  both in one loop, as `sanitize` can, raises an error, and `removeAttribute` on
  one hides the other from `getAttribute`.

Vectors and buffers: a capacity that is doubled beyond what the machine has wraps
to 0, and a buffer would then be doubled for ever; `SizesAssumption` excludes it.

## What is proved

### The node tree

`NodeTree_proofs` proves, for every `MaxNodes`, from `MaxNodesAssumption`
(`MaxNodes` is a positive natural number) and nothing else:

- `TypeCorrect`: `Spec => []TypeOK`;
- `LinksCorrect`: `Spec => []Linked`, a node is a child of exactly the node its
  parent pointer names, once;
- `IndexCorrect`: `Spec => []Indexed`, `index_within_parent` is the position;
- `AcyclicCorrect`: `Spec => []Acyclic`.

They follow from `InductiveInvariant`, `IInv == TypeOK /\ Sound(nodes) /\ Acyclic`.
`Indexed` is not inductive by itself: the loops that renumber children write the
right index only if no child is in the vector twice, and a node that is appended
must not be in another vector already, both of which `Linked` says.  `Linked`
needs the types.  `Sound` says both at once in the form the steps use:
the child at position i names its parent and has index i - 1, and a node with a
parent is the child at its own index.  That a node occurs once follows from it
(`KidsDistinct`), and so do `LinksAgree` and `IndexAgrees` (`SoundAgrees`).

`Acyclic` is stated with sets, as well-foundedness: every set of nodes has a
member whose parent is outside the set.  Then no induction over paths is needed.
When a node is attached, its guard gives a set closed under parents that holds
the target and not the node; a cycle would have to leave that set
(`AttachKeepsNoCycle`).

The proof has one lemma per operation on the table (`AppendKeepsSound`,
`InsertKeepsSound`, `RemoveKeepsSound`, `MoveKeepsSound`), each with one step per
conjunct of `Sound`, which rest on lemmas about `InsertAt` and `RemoveAt`.  They
hold for tables of nodes of any types and names, and are in `GumboTree_lemmas`,
because tree construction needs them too.  `StepIInv` has a case per action.

### Tree construction

`TreeConstruction_proofs` proves, for every set of inputs and all bounds, from
`InputsAssumption` (an input has a context, a depth, and a beginning and an
alphabet of tokens, which have a type, a tag and attributes) and
`BoundsAssumption` (the bounds are positive), and for every sequence of tokens that
the tokenizer's state allows (`Lexes`), also those that no document leads to:

- `AlwaysAllocated`: `Spec => []PointersAllocated`; the entries of the stack of
  open elements and of the list of formatting elements, the root, head, form and
  context pointers, parents and children are all `NULL` or nodes that exist;
- `LinksHold`: `Spec => [](NoAssertFails /\ NothingFreed => LinksConsistent)`;
- `IndicesHold`: `Spec => [](NoAssertFails /\ NothingFreed => IndexConsistent)`,
  where the exception of `IndexConsistent` is empty, as no body has been replaced;
- `AlwaysElements`: `Spec => [](NothingFreed => PointersToElements)`; what stands on
  the stack and on the list, and the root, head and form, are elements of the tree,
  none of them the context of the fragment, whose tag and namespace the handlers
  may read;
- `DomHandedOver`: `Spec => [](NoAssertFails /\ NothingFreed => DomMirrorsTree)`;
  what `LuaTree` makes of a parse that is over is a DOM as `LuaDom` wants it;
- `TokensReleased`: `Spec => [](input.context = <<>> => (p.mode # "in_head_noscript"
  => TokenReleased))`; when a document is parsed, what a token owns has been handed
  to a node or freed by the time the next token is read, in every mode but the one
  that forgets it (see the observations above);
- `TokensReleasedOnce`: `Spec => [](input.context = <<>> => ReleasedOnce)`; and it
  was freed once: the asserts on that in `ignore_token` and at the end of a turn
  never fail for a document.

So every handler changes the tree only by the operations of `GumboTree`, under
conditions that `NodeTree` allows, with the one exception that `NothingFreed`
excludes: a frameset that replaces the body frees it and renumbers nothing (see
above; the runs check the links there too, and after the whole
tree is destroyed).  It also excludes the end of a fragment's parse, which frees
the context, so `DomHandedOver` is about whole documents.  `NoAssertFails` is a hypothesis because the state behind a
failed `assert` is no state of the program; that none fails is checked by TLC.

All of them follow from `InductiveInvariant`, whose heart is `Good(p)`:
every field of the record has its type, each pointer is one to an element
(`Points`), and the table is sound and has its `Shape` or an assertion has failed or
a node is freed.  `Shape` is what the copy to Lua needs besides the links: the first
node is the only document, it and the context have no parent, and texts and
comments have no children.  `Good` speaks of no handler
and no mode, and that is what makes the proof compositional: a handler is a
composition of helpers, and if each helper leads from a good state to a good
state, so does the handler, whatever the order.  There is one lemma per helper
and one per handler; where a handler chooses among arms, the lemma first says
which states it can leave (`handler(q, t) \in {...}`), then that each is good.
An operation whose C code asserts something (`append_node`: the node has no
parent) need not be called rightly: where the assertion fails `failed` is set and
`Good` holds for that reason, and where it does not fail, it is the condition
under which the operation keeps the table sound.  What no assertion says has to
come from elsewhere: that a node taken from the stack exists, that the node
inserted is new, and for step 16 of the adoption agency that children move to a
clone which has none.  That nothing is appended to a text or a comment, and that
neither the document nor the context is ever moved, are such facts as well: they
hold because nodes come from the stack, the list and the pointers, or are new
(`Fresh`), and a location to insert at has a container as its target
(`ElemsFacts`, `Movable`).  The loops of the adoption agency, which clone
and move, keep the elements they remember elements (`Climbs`).

`DomHandedOver` reads the copy off the table (`PushedTables`, `PushedLists`): what a
list of the copy holds is a list of the C tree, perhaps behind the doctype.  That
each table is in one list, that of its `parentNode`, is then `Sound` of the tree,
with the content of a template between the template and its children
(`CopyMirrors`).

The two theorems about tokens need to know of the control state what `Good` does
not say, and have an invariant of their own, `TokenInv`.  Between two turns the
parser of a document is in one of three states.  It rests (`Calm`): nothing is owned,
and the mode, the mode to return to and the modes of templates are modes other
than `text`.  Or the token comes again (`Again`), and owns what it owned when the
tokenizer delivered it, so a handler cannot tell a token that is handed on from a
new one.  Or it reads an element's text (`Reads`): then the mode is `text`, and the
argument crosses to the tokenizer, whose state lets only text and the element's end
tag come, and the current node is an HTML element, so the token is not sent to the
rules for foreign content; nothing that comes owns anything.  The fourth state,
`Leaks`, is the forgotten doctype.  The helpers leave all control fields alone (the
lemmas `Under...`, for any set `K` of their values), so a handler's lemma only looks
at the calls that set a mode, take the token or free it, and shows `Disposed`:
the token is gone, or is whole and comes again, or text follows, or an assert
has failed that ends the program (`Stuck`).  For a handler that hands the token to
another handler it matters that the first one left it whole.

The adoption agency and the reconstruction of formatting elements are loops over
the stack and the list; they are folds in the model, and what a fold keeps in
each step it keeps to its end (`FoldKeeps` in `FoldLemmas`).  `tree_traverse`,
which frees a subtree, is one too.

### The tokenizer

`Tokenizer_proofs` proves, for every text, for every state that a fragment's
context begins with, and for every sequence of answers of the tree builder (a
state switched after a start tag, a current node that is foreign or not, an early
end):

- `AssertsAlwaysHold`: `Spec => []AssertsHold`; the asserts of `tokenizer.c` on the
  temporary buffer, on what is read again from it, on tags that begin and end,
  and on the text of a tag's token;
- `NothingEverLeaks`: `Spec => []NothingLeaks`; after every call the tag buffer,
  the attributes and the strings of a doctype have been handed over with a token
  or freed, each of them once.

What is assumed: `InputsAssumption` (a character of the text is one symbol that is
not the name of a byte that begins a longer sequence: decoding is the subject of
`Utf8Iterator`; and the lexer states are those that `gumbo_tokenizer_set_state` is
called with for a context), `RawTextsAssumption` (so are those a start tag leads
to) and `EntitiesAssumption` (a named reference has a name, and stands for one or
two characters).  What is known about letters, tags, the references themselves and
whether errors are kept is arbitrary, and a carriage return, a stray continuation
byte or one that is never valid may be anywhere.

`AssertsHold` says nothing about what a state needs, so the invariant is a table:
`Reading(k)` says, for each class of lexer states, what is owned, where the token
began, and what the temporary buffer holds, and `Returned(k)` says it between two
calls.  Three facts carry the proof.

- In raw text, what looks like the beginning of an end tag is kept in the
  temporary buffer, and if it is none, the iterator is reset to its mark and the
  characters are read again, one per call; each time an assert compares the
  character read with the one in the buffer.  It holds because the buffer is the
  text from the mark on (`IsTrail`): there are places, each reached from the one
  before it, at which the buffer's characters are read.  For this `Placed` says
  that what the iterator holds is a function of its place (`CharAt`), so reading
  it again gives the same, also where a carriage return is skipped (`Landing`) or
  a byte is replaced.  `Traced` says that the trail ends where the iterator is,
  and `Replays`, between two calls, that it passes there.
- `emit_current_tag` asserts that the text of a tag begins with "<" and ends with
  ">".  It does since the token begins where a less-than sign was read
  (`BehindLt`), and that is so because the start of a token is set at the end of
  the token before (`AtText`) and nothing between them is lost.  The ">" is
  found behind a carriage return that the iterator has skipped (`TextOfTag`).
- Identifiers of a doctype are taken from the temporary buffer, which must be
  empty where one begins: it is in the states of `EmptyDoctypeLexers`, each of
  which is entered behind a `clear_temporary_buffer`, or from a state whose buffer
  is empty.

A helper changes a few fields of a record of more than twenty; `Like` says that
two records agree in those the invariant is about, and each helper's lemma is
about it or about the fields it changes.  How a state is entered is one lemma per
class (`GoesText`, `GoesLt`, ...), and a handler is then a choice among its exits.
References are read by recursive functions over the text, of whose results
the proof needs only where they end: a step of such a function moves the iterator
onwards to a place, and the least length at which it does not is a contradiction
(`SkipPlaced`, `NumberRead`).

### The Lua DOM

`LuaDom_proofs` proves all that the run `lua_dom` checks, and of the run
`dom_walk` every property but that walks end, for every set `Parsed` of documents to
begin with and every `MaxDomNodes`, from `ParsedAssumption`: the documents are tables
of nodes, each listed by its parent, with no node below itself.  The binding hands
over such documents: `DomHandedOver` proves it of the model of the copy but for the
last part, which TLC checks on every tree of the run `documents` (`NothingStrays`).

- `ChildrenListedByParent`: `Spec => []ListedByParent`;
- `WalksAlwaysEnd`: `Spec => []WalksEnd`;
- `EveryMoveInPlace`: `Spec => []MovesInPlace`;
- `AtomicCalls`: `Spec => []CallsAreAtomic`;
- `AttributesAlwaysFound`: `WalkSpec => []AttributesFound`;
- `WalksInOrder`: `WalkSpec => []VisitsInOrder`;
- `SanitizerLeavesAllowed`: `WalkSpec => []OnlyAllowedStay`.

The first two follow from `InductiveInvariant`, `IInv == IsDom(nodes) /\
Listed(nodes) /\ Founded(nodes)`.  `Founded` says that every set of nodes has one
with no child in the set.  It is the same as `EndsBelow`, which the run checks
(`EndingIsFounded`, `FoundedEnds`), but a step can be proved from it: `Below` is
a fold over the table, and what it computes after a step is not seen from what it
computed before, while for `Founded` it is enough to look at the one new link.
That link closes no cycle because `contains` looked up the chain of parents: the
set of the nodes above the new parent does not hold the new child, and each
listed node names its parent (`AboveBelow`, `NotAbove`, `PlacingKeepsGood`).
Where `contains` gives up early, on a node with no children, there is nothing
below the node that could lead back.

The methods are proved one on top of the other, as they are called: what
`removeChild`, `remove`, `adoptNode`, `preInsert` do when they return
(`TakenOut`, `Placed`), and that they leave the table as it was when they do
not.  In `replaceChild` the node is adopted first, then the old child removed,
then the node inserted, so the checks at the beginning must still hold in the
tables between: taking a node out only shortens the chains of parents
(`NotAbove`), and the sibling that was read before the removals is still in the
list (`SiblingAfterStays`), unless it was the node itself, which is the case that
`SiblingAfter` sorts out.  `AtomicCalls` needs a second fact, `Honoured`: each
`parentNode` is honoured by its list.  It is the hypothesis of the property, and
it lasts through the call (`HonouredStays`), so that no `removeChild` inside
raises an error when the tree has been changed already.

`cloneNode` copies the nodes below a node in some order.  The model leaves the
order open (`SetToSeq`), so the theorem holds for each of them
(`CloningKeepsGood`).

`AttributesAlwaysFound` is about `DomWalk`, for every set of names and of lists that
the parser may give, and for every map of names to lower case; `AttributesAssumption`
says that the lists are lists of attributes with names from the set, and that an
attribute is not nil, and `LowerAssumption` that names in lower case are names.
It says what `getAttribute` answers, in every namespace: that follows from `Agrees`,
which says what the table of names holds, by the way the name is looked up
(`GetAttributeAnswers`).  `AttributesFound` is not
inductive: an element could get a second attribute of one name, and removing one of
them would hide the other.  The invariant `AttributesInv` adds that the names of an
element differ when those it was parsed with did, and that an element without a table
of its own has no attributes.  The loop of `removeAttribute` goes on in the list from
which it takes attributes out; `RemoveAttributeFound` follows it round by round:
either the name is still to come, or the one attribute that had it is gone, and then
no later round finds another.

The last two theorems follow from one invariant, `WalkInv`, since the sanitizer leaves
the right nodes only if the walk yields each of them, and the walk goes on right only
if the sanitizer takes out no node that it has still to see.

- What the coroutine has seen.  `Path` says how the calls of `iter` in progress hang
  together in the tree as it was given: each inner call is at the child that the one
  around it has come to.  `Seen` is what they have seen: all that lies below the
  children done by each, and the nodes that the inner calls are at.  A new call
  (`PathDown`) and a return (`PathUp`) leave `Seen` as it is; the next child is not in
  it (`NotYetSeen`), and comes behind the last that is (`SeenBefore`); when no call is
  left it is everything below the root (`AllDone`).
- What the loop's body has done.  The child that was yielded counts as unseen until
  the body is done with it; then the tree is the given one without those seen nodes
  that are not allowed (`TreeKept`, of each list `KeptOf`).  `KeptOf` says more than
  that a list has lost some members: up to the first of them that is gone, it is as it
  was.  That is why the lengths and indices that the coroutine holds still fit: going
  backwards, all that is gone from a list stood behind the place that is read next
  (`StillThere`), and what lies below a node that is taken out goes with it.
- The attributes.  The loop over an element's attributes also runs from the end, and
  calls `removeAttribute`, which takes out every attribute of a name, in a loop from
  the front that skips what has come forward into the place it has just emptied.
  `RemovedByName` says what can be relied on for any list, names that come twice
  included: what is in a place now was there or further behind, and where nothing has
  come forward the name is another one.  It is enough for the outer loop: the
  attributes behind its index are allowed, and stay so (`RoundLeaves`).

Folds over sequences are choices of a function that satisfies the fold's
equation; `FoldLemmas` proves that there is one (`FoldExists`), with an induction
over the length that is a least-number argument (`LeastNumber`), and that a
fold which only adds members reaches the closure (`FoldIsClosure`).  From that
`AncestorsClosed` and `BelowClosed` give what the loops of the code find: the
least set that is closed under parents, or under children.

### The iterator

`Utf8Iterator_proofs` has two theorems.

`IteratorStaysInBounds` is `Spec => []InBounds`, for
every set of sources, every set of literals and every `TabStop`, from
`SourcesAssumption` (sources are sequences of strings, that is of bytes).
`InBounds` is not inductive: `mark` and `reset` copy places, so the invariant
`IInv` adds that the record has the fields the updates assume, and that the mark
was a place of the input together with its offset.  The proof does not depend on
what the decoder's table says; what matters is that its first verdict other than
"go on" is about a byte of the input (`FirstIsOne`), that a rejected sequence is
given up before the byte that broke it, and that a truncated one ends at the end.
One lemma covers `read_char`, one `update_position`, and there is one step per call.

`IteratorIsCursor` is the refinement, `TextSpec => IsCursor`: for every source, every
set of literals and every order of calls, what the callers read is the text that
Unicode and HTML define, each character with its line, column and offset, and a
literal is matched just where the text goes on with it.  It assumes of the bytes and
their names

- `BytesAssumption`: a source is made of ASCII bytes, of which there may be any set,
  and of the classes of the decoder's table;
- `LiteralsAssumption`: what callers test for is ASCII and has no line break, which
  the text may have where the source has another byte (the callers, in `char_ref.c`,
  test for names of references);
- `SpellingAssumption`: no character of several bytes has the name of an ASCII
  character, of the end or of U+FFFD; this is about how the model names characters.

The text is defined twice over: by `TextOf`, which looks for the longest well-formed
sequence at each place, and by the iterator, which runs an automaton.  The argument
has these parts.

1. The table and Unicode.  What is well-formed, and what is the beginning of such a
   sequence, is put byte by byte (`WellFormedIs`, `BeginningIs`); `Extent` is then
   known from the bytes at a place: as many as go on, at most
   as many as the lead asks for (`ExtentIs`).  The decoder's
   states over the same bytes are known, too (`DecodingRuns`: after the lead it
   expects a number of bytes), hence its first verdict (`VerdictIs`), and it accepts
   or rejects where the extent ends.
2. The recursive functions of the model, `Decoding`, `Spelled` and the one in
   `TextOf`, exist (`RecursionExists` in `FoldLemmas`), so that they satisfy their
   equations.
3. `read_char` reads `CharAt` with the width `Extent`, and skips the carriage return
   of a pair (`ReadCharIs`); `update_position` is `PlaceAfter`, where the two compute
   the next tab stop differently (`NextTabStop`).  So `utf8iterator_next` goes from a
   character to the one behind it (`NextIs`).
4. The text is a chain of such characters, from the beginning to the end of the
   source (`TextOfIs`, by induction over its turns, with `LinkAdds`), and offsets
   grow along it (`PlacesGrow`): a place has one index (`IndexIs`), and so the
   mapping has a value.
5. A literal of plain bytes follows in the source just where it follows in the text
   (`LiteralFollows`), in both directions by induction over the literal.

The invariant `CInv` says that the iterator has read a character of the text, with
as many more behind it as the loop has turns left, and that the mark is the place of
one.  That `utf8iterator_reset` gets there again needs that no mark is on the first
half of a pair.  There is one lemma per call; a turn of the loop is a stutter.

### Vectors and string buffers

`GrowingArrays_proofs` proves `ArrayIsItemList`, `Spec => IsItemList`: vectors and
string buffers implement the list of `ItemList`.  It holds for every set of
elements, strings and characters and all capacities, from `SizesAssumption` (twice
`MaxLength`, and twice a capacity that is asked for, are numbers of the machine, so
that a capacity that is doubled does not wrap around; no initial capacity is more
than `MaxLength`), `BytesAssumption` (strings are of bytes) and
`CharactersAssumption` (characters are at most U+10FFFF, so that the first byte is
one).  The argument is a simulation: the invariant `IInv` says that the block has as
many cells as `capacity` says (`Block`), that the used cells hold elements or bytes
(`Filled`), that the length is within its bound when a call starts, that an array
nobody uses has no cells, without which `HasMemory` would not be false after
`destroy`, and that a buffer in use has a capacity, without which doubling it would
never make room.  There is one lemma for each thing done to the memory
(`ReallocKeeps`, `WriteSets`, `WriteBytes`, `MemmoveMoves`, `UsedKeeps`,
`EnlargeMakesRoom`), on which one lemma for each operation rests: what the cells
hold afterwards, compared place by place with the operation on sequences
(`AddAppends`, `PopTakesLast`, `InsertAtInserts`, `RemoveAtRemoves`,
`IndexOfFindsFirst`, `RemoveForgets`, `AppendBytesAppends`, `VsprintfAppends`,
`NullIsNotSeen`, `ReserveIsNotSeen`).  `VectorCallRefines` and `BufferCallRefines`
have a step per call, and `NextRefines` a case per action.

Two parts of it are inductions, over sets of numbers.  The loop of
`maybe_resize_string_buffer` is the recursive function in `Doubled`: that there is
such a function is shown from the large capacities down (`DoublingEnds`), and that
it ends with enough room in the same order (`DoubledSuffices`).  `reserve` passes
the loop an unsigned difference, which wraps around when the buffer already holds
more, and back when the length is added (`ReserveIsNotSeen`).  That the appended
bytes are the character (`BytesEncode`) compares the shifts and masks of
`append_codepoint` with the value to the base 64 that `Encodes` gets by a fold
(`SumOfDigits`); one shift more drops one digit (`ShiftDropsDigit`).

## What is only model-checked

What `TreeProperties` says beyond links, indices and allocation.  That no assert
fails, that the stack is a path down the tree and the list follows it, that modes
and markers have their elements on the stack, the outline of the document, and
what becomes of text: each of these relates two pieces of state that a
handler changes one after the other, and often breaks between two of its calls.
So no invariant that every helper keeps implies them, and a proof would have to
follow each handler from its beginning to its end.  `NoahsArk` is of this kind:
the adoption agency puts the clone where its bookmark is, and that this is behind
the last marker follows from `ListFollowsStack`.

What the tokenizer says is written: `TagsAsWritten`, `CommentsAsWritten` and its
refinement of `TokenStream`.  They compare names, values and texts of any length
with what an operator makes of the source, character by character, so an invariant
would have to say how much of the text each buffer is, in each of the seventy
states; that the places are right (`IsTrail`) is a part of it, and what numbers and
names of references stand for, recursive functions over the text, is another.

`DomMirrorsTree` for fragments, and for documents whose body a late frameset has
replaced.  `TokenReleased` for fragments: in the mode `text` the parser of a fragment
could ask the context for its namespace, unless the stack holds two elements, and
that it does is again a matter of what each handler leaves on the stack.  The liveness properties `ParseEnds`, `TokenizerEnds` and `WalkEnds`, which
are out of the provers' reach altogether.

## What is not modelled

- Parse errors, their rendering, and `stop_on_first_error`, which can end the loop
  early and is off by default.  Of `max_errors` only whether an error can be added.
  Parse flags; the positions that nodes are given.
- The table of named references, and the scanner and its tables that Ragel makes
  of it (most of `char_ref.c`), as well as the perfect hashes of tag and attribute
  names: generated data without state.  The adjusted spellings of SVG and MathML
  names; the list of quirky doctypes, whose verdict is an input.
- The tokenizer and tree construction as one machine.  Each is checked with the
  other as its environment, over what can come at the boundary: the tokens and
  the lexer states that handlers select on one side, state switches, a foreign
  current node and an early end on the other.  The product of the two is beyond
  what TLC finishes.
- Attribute by attribute ownership in `merge_attributes`: the attributes of a
  token change hands together.  End tags in foreign content are matched by name,
  and by whether their text is the name alone (`TextNames`, with `Blank` tags in the
  inputs), where the code compares texts without regard to case: for the names in the
  inputs, which are all known, that is the same.
- In the Lua DOM: class lists, the setters that only call others (`title`, `id`,
  `className`), and lookups that only read.
- The serializer; the options, error strings and quirks mode that the binding
  passes on.

## Plan

Done: every component that changes state in the C library, the copy, and the
DOM's methods and walks.  What is left, in this order:

1. Ownership of attributes one by one in `merge_attributes`, and unknown names
   of foreign elements in `TreeConstruction`.
2. `stop_on_first_error`, with the places where handlers and lexer states report
   an error.
3. Proofs: for the tokenizer, that names and texts are as written; for tree
   construction, what the stack holds in each mode, and from it that tokens are
   released in fragments too.
4. Serialization of a tree and the parse of what it gives, for trees that survive
   the round trip.
