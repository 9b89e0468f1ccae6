# corecommon in TLA+

corecommon is a C++ library: a hash map, a search tree and a small vector, parser
combinators with a configuration file on top, an HTTP server over libevent, a 2D
graphics layer over OpenGL, and a number of smaller or unfinished parts. This directory
holds TLA+ models of the parts that keep state or have a protocol, the TLC
configurations that check them, and TLAPS proofs about some of them. Paths below are
relative to the repository (`src/map.hpp` is `src/src/map.hpp` from the root of a
checkout that has `src/` as its top directory).

- [Inventory](#inventory): the system's parts
- [Modules](#modules): what is modelled, and how it corresponds to the code
- [Runs](#runs): what is checked, in which bounds, and what it shows
- [Proofs](#proofs): what holds for every value of the constants
- [Known deviations](#known-deviations): where the code does not do what it should
- [Not modelled](#not-modelled)
- [Plan](#plan): what comes next

## Inventory

| part | state | operations | talks to | hard behaviour | correct when |
|---|---|---|---|---|---|
| `Map` (`src/map.hpp`) | control bytes in rows, buckets, `count` | insert, upsert, remove, `[]`, find loop, iterate, clear, resize | used by Config and by the server (query, form) | removed slots, growth while the table is walked, load factor read before the insert | it is a dictionary, every call returns, iteration gives each entry once |
| `btree::Node` (`src/btree.hpp`) | child `unique_ptr`s, parent pointers, `h_diff`, root | find, insert, remove, rebalance, swap_positions, iterators, consume | used by `triangulate` for the edges of its sweep | rotations move owners, clients keep pointers | it is an AVL tree and a sorted sequence; iterators stay valid |
| `SmallVector` (`src/smallvector.hpp`) | an array, a block, `cap`, `len` | insert, erase, resize, copy, move, swap, iterators | holds the digits of `Digital` | elements in two places, ownership of the block | contents are what was put there, each block has one owner |
| parser combinators (`src/parser.hpp`) | position, result, error of a parse | one `run` per map | Config, the server's grammars, Digital's tests | loops that consume nothing, backtracking | a grammar reads what it says |
| `Config` (`src/config.cpp`) | a Map of names to values | parse, save, insert by clients (`Window` stores its place) | a file between two runs of a program | what was saved has to be read again | saved values are restored, one bad line loads nothing |
| `WebServer`, `Request` (`server/server.cpp`) | parser state, content length, handler, flags, libevent buffers | readcb, writecb, eventcb, respond, close, handler callbacks | libevent, parser, Router and handlers | input cut anywhere, handlers that replace themselves, destruction from several places, timeouts | handlers are called in order with the whole body, every connection is closed |
| `Window`, `Layer`, `Texture` (`graphics/graphics.cpp`) | bound framebuffer, `in_use`, one `cleared` bit per target | use, finish, clear, swap, add_channel, channel, render, proc | OpenGL, shared context | who is bound, when to blit, when to clear | drawings land where they were asked for, a frame shows its own drawings |
| owners of OpenGL's objects (`graphics/graphics.cpp`, `graphics.hpp`) | a name each, -1 for one that is another's | constructors, copies, moves, assignment, destructors | OpenGL, `shared_ptr`s of the window | constructors that throw, moved-from objects, the order of destruction | a name is deleted once, and by its owner |
| `Path`, `Geometry` (`graphics/graphics.cpp`) | points and the starts of rings; vertices and triangles | merge, part, next, prev, triangulate | the search tree, for the edges of the sweep | points at one height, polygons that merge and divide, iterators into two chains | the triangles make up the area between the rings |
| `Path::stroke`, `SVGObject` (`graphics/graphics.cpp`) | a line's joins, caps and width; the path of a shape | stroke, arc, fan, cubic, the constructor's loop | nanosvg, `triangulate` | corners that go straight on or turn back, points that come twice, paths merged into an empty one | the outline encloses the line, a shape keeps its rings |
| `Digital`, `Rational` (`src/numeric.cpp`) | sign, exponent, digits in a SmallVector; a fraction of two | add, subtract, multiply, divide, shift, compare, round, print | SmallVector | carries, two's complement, trimming, estimated quotients | it is arithmetic |
| nanosvg, the reader of SVG files (`graphics/nanosvg.c`) | a stack of attributes, definitions, gradients, the points of a path, the size of the image | parse, one function per element, attribute and command | `SVGObject`, who draws what it read | numbers without separators, data that a command leaves to the next, ends that pop what was not pushed, references, sizes guessed at the end | an image shows what its file means |
| utilities (`src/util.cpp`, `src/arrayset.hpp`) | none, or an array indexed by sets | base64, VarIntRef, binomial, ArraySet | nothing in the build | bits in steps of six and eight, two loops that must agree | inverse functions, one place for each set |
| `Template` (`src/template.c`) | a compiled text | compile, length and substitution | nothing in the build | the two passes must agree | what is written is what the tokens say, and as long as was counted |
| `LockTable`, `SortedMap`, `Database`, `Serialize`, `cycling_index` | | | | not in the build, or do not compile when used | |
| `Vector`, `Matrix`, `dft`, `RenderToFile`, shaders | floating-point data | | OpenGL, ffmpeg | numerical error | |

All of it runs in one thread. What is concurrent is outside: the client of a server, who
sends bytes in any pieces, a timer, and libevent, which calls back between any two of
them; and clients of the containers, who keep iterators and pointers while they change
the container.

`PROJECT.json` lists every hazard of this code with the line where it bites and the
property that watches it.

## Modules

Each component has a module with its state as variables and one action per operation or
step; an `MC` module gives values to the constants that a `.cfg` cannot write. An
operator named `X_Something` beside `X` is a variant with a plausible error, which each
property must be able to tell from `X`.

Some components are checked in one run side by side, because they belong together but
share no state: the search tree with the sweep and the outlines (`MCSearchTree`), render
targets with the owners of names (`MCRenderTargets`), the small vector with sets and texts
(`MCSmallVector`), `Digital` with `Rational` (`MCDigital`), and the readers of texts:
`Config`, `Template` and the four modules of SVG (`MCReaders`, where `reader` says which
one moves). There, one component moves only while the others are where they began, so
every behaviour of each is there, and none of their products.

### HashMap, Dictionary: `src/map.hpp`

`HashMap` has the table as `rows`, `ctl` (control bytes) and `bucket`, and the call in
progress as `call`, `pc`, `n` (`Probe::probe_i`) and `pos` (resize's or an iterator's
position). A call is many steps: a row probed (`ProbeStep`), a slot of the old table
visited by `resize()` (`ResizeSkip`, `ResizeMove`), a position of an iterator. This is
what the code does, in the order it does it: `insert` probes with `match`, then takes the
first free slot of the row the probe ended on; `resize()` walks the very table it moves
entries within; the find loop is `FindIterator::operator++`, its end condition included.
A hash is its low byte and the rest, because the low byte is both the tag and, when it
would read as free or removed, complemented together with the home row. Buckets keep the
pair of a removed entry, because `upsert` and `operator[]` hand it back.

`Dictionary` is what a client expects: a function from keys to values, changed by single
steps. `HashMap` implements it by the mapping `DictOf` (the entries that are alive).

### SearchTree, SortedSequence: `src/btree.hpp`

`SearchTree` has every pointer of every node (`tree`), and the loop of `rebalance()` as
steps, because the tree is out of balance in between and `parent_ptr()` is used most
there. Mirrored functions (`rot_left`, `rot_right`) are one operator with a side. Nodes
outside of the tree belong to the client, who may insert them again as new ones.
`SortedSequence` is a sequence into which insertions put a node where the order wants
it; `SearchTree` implements it with `InOrder(tree)`.

### SmallVector: `src/smallvector.hpp`

`vec` has `arr`, `data`, `cap` and `len` of each vector, `heap` the blocks by identity,
so that a lost, shared or twice freed block is seen. `expected` is what the client knows
to be in each vector. What the code does to `expected` where it loses elements
(`InsertInHeap`) is stated as a function of the vector alone, so `ContentsExpected` says
exactly what is lost and that nothing else is. Iterators are pairs of a position in
`arr` or `data`, with the arithmetic of `IteratorTemplate`.

### Parser, Config: `src/parser.hpp`, `src/config.cpp`

`Parser` evaluates a grammar on a text. A combinator is a node (`Chain(l, r)`,
`Many(n)`), `Run(n, t, p)` is `n.run(p)`: the position, the result, the error, and `hang`
for a loop that never ends. `Not` leaves the position where its inner map left it, so
`!Match` consumes nothing, and `Many` ends only when its inner map fails: together they
are a loop without end. `Config` holds config.cpp's grammar, node by node, and a program
that opens its configuration, parses the file, puts defaults and values, saves and
closes, while somebody writes to the file in between. `Reference` is a second definition
of the same language by positions and cuts.

### WebRequest, RequestGrammar: `server/server.cpp`

`WebRequest` is one request from `accept()` to its destructor. The client's stream is a
sequence of characters and reaches the input buffer in pieces of any size (`Arrive`).
`readcb` is one action per line it takes (`RequestLine`, `LengthLine`, `HeaderLine`,
`EndOfHeaders`, `LineDropped`, `LineError`) or per outcome in state Content; the handlers
(Router, StaticContent, FileServer, and a form handler as `server.hpp` describes it) run
inside, and may answer now or later (`Answer`). `writecb`, `eventcb` with an end of
stream, an error or a timeout, and the destructor are actions of their own. `obj` and the
histories `frees` and `deletes` keep what happens to the object; steps that touch a
destroyed object, where C++ says nothing, are not followed.

What a line is to the server is a constant of `WebRequest` (`AsRequest`, `AsHeader`,
`AsForm`), so that it can be proved about; its assumptions say that the grammars have an
answer for every complete line of a stream (`StreamAssumption`), and that a header holds a
length or a type, never both (`HeaderAssumption`). A Router between the first and the last
handler of a path leaves nothing behind, so `AfterSegments` only asks which handler is the
last. `RequestGrammar` has the grammars of the
request line, of headers and of query strings node by node over `Parser`, and
`MCWebRequest` gives the constants their values from it. In its texts a method, a header
name or a content type is one character; a `LazyMap` that looks at what it was given
(`parse_header`) is an operator. `percent_decode` reads its two hexadecimal digits from
the front of the text, as `Char` does; texts that end right behind a `%` are not given to
it, because `Char` then returns a character that was never set. `MethodsEnd`,
`SegmentsOf` and `QueryOf` say the same of a request line by the positions of its
separators.

### Digital, Rational: `src/numeric.cpp`

`Digital` has an accumulator and the operators a client applies to it. A number is sign,
exponent and a sequence of digits to the base `2^Bits`, two's complement, as the code
keeps it; carries, the sign extension of `pad`, the corrections of a product for the
signs, the quotients `div` estimates from two digits and `trim` follow the code, loops
that carry are stated by how far they go. `Value` is the number a Digital stands for. The
sequence stands for the `SmallVector` of digits, whose insertions here are at the ends,
where `ContentsExpected` has them right. `cmp` compares as the code does, its repeated test
(`numeric.cpp:418`) included. `Rational` extends it with a fraction and `round()`, one step
for each half of a turn of Euclid's algorithm. Numerators and denominators are numbers of one
digit (of 16 bits in the code), as `div` demands of a divisor; wider fractions are not modelled.

### Path, Triangulation, Outline: `graphics/graphics.cpp`

`Path` has points, and the starts of rings, with `merge`, `part`, `next` and `prev`.
Coordinates are small integers, on which the code's float arithmetic is exact.

`Triangulation` is `Geometry::triangulate`: a client merges rings (`Merge`), calls it
(`Triangulate`), and a step takes one point of the sweep (`Begin`, `Pass`, `End`: the point
begins, goes on with or ends edges) or renders. `edges` is the tree of the edges, a
sequence here, because `SearchTree` implements `SortedSequence`; with each edge goes the
monotone polygon that begins there. `handed` keeps the polygons that `triangulate_monotone` was
called with and `elements` the triangles it made of each, by the code's loop over two
chains (`CutFrom`, `CutLowest`, `Switch`, `Advance`). A step that would compute a crossing
is remembered in `met`.

`Outline` is `Path::stroke` and the constructor of `SVGObject`. nanosvg draws a line corner
by corner (`LineTo`); `AddPath` is one turn of the constructor's loop, in which the path's
points become those that `cubic` computes (its first point twice), and what is filled or
stroked is merged; `StrokePath` is a client that strokes a path of its own. Sides are
parallel to the axes, where divisions and roots are exact; a quotient by zero makes a point
that is no number (`NaN`).

### Template: `src/template.c`

A client writes a template token by token; `template_new` compiles its text by the
character (`Scan`), `template_length` counts what `template_substitute` writes, and
`do_template_va` runs both. Vectors of arguments have an identity, because
`template_substitute` frees them. `TemplateRenders` compares the outcome with what the
tokens mean.

### SvgText, SvgPath, Svg, SvgView: `graphics/nanosvg.c`

nanosvg is third-party code, but `SVGObject` gets everything it draws from it, and this
repository changed it (`defs` and `use`, the position of elements). Four modules split it
along its calls: what one hands to the next is a constant set in the next. In each, an
author writes a file piece by piece, and a property compares what the code made of it with
what was meant.

`SvgText` reads texts by the character: where a number ends (`parseNumber`), lists of
numbers and commands (`PathItems`), lengths, dashes, colours, opacities, transforms
(`ReadOn` is one turn of `parseTransform`'s loop), styles, tags (`parseXML`). A number is
n times ten to the e. Each piece the author writes carries what it means (`means`).

`SvgPath` makes curves of path data (`Item` is one turn of `parsePath`'s loop, on the
record of the point list, the current point, the last control point and the numbers that
wait) and of the basic shapes. `DrawnAs` says the same of a list of operations, each from
where the one before it ends; a shape is compared with the path data it is short for. The
control points of an arc are left open (`Somewhere`); that it ends where it should, and
that the curves of a shape join smoothly where they are known, is checked.

`Svg` is `startElement` and `endElement` on the parser: the stack `attr`, `defs`, the
gradients, the shapes. A place is one number, a transform `<<a, b>>`. `status` is "spins"
when the reader follows gradients in a circle, "crashed" when it follows a null pointer or
copies without an end. `DrawnAt` is what an element draws by the elements around it alone.
`Plain` excludes the documents where the code differs, by name; see below.

`SvgView` reads the attributes of the svg element in the order they are written, places
gradients in what is known of the view so far, and moves everything into the image at the
end (`EndFile`, the rest of `nsvgParse`). Numbers are fractions.

### Base64, ArraySet: `src/util.cpp`, `src/arrayset.hpp`

`Base64` has `bit_reinterpret` by its steps, and the two functions around it; a client
writes a text byte by byte. `ArraySet` has the place of a set (`Place`, `operator[]`) and an
iterator that goes through the array and names sets (`Step`).

### RenderTargets: `graphics/graphics.cpp`

`gl` is the OpenGL context and what the window and the layers remember of it: `in_use`,
the framebuffer `bound`, `swapped`, every target's `cleared`, and each channel's drawing
and texture. A picture is the set of the ages of its drawings (this frame, an odd number
of frames ago, an even number), which is all that one bit per target can be about.
`use`, `clear` and `finish` are written as operators on `gl` because they call each
other. `strayed` remembers that `proc`, or the making of a layer or a channel, changed
the binding without telling `in_use`.

### GLObjects: `graphics/graphics.cpp`, `graphics/graphics.hpp`

Who owns which name of OpenGL. `object` is the name each C++ object holds, `Gone` when it
was moved from (-1 in the code); `names` is what OpenGL uses. Constructors make a name and
may throw when they look for errors afterwards (`Generate`); `Move`, `Assign` and `Destroy`
are those of the classes, which differ: `Layer`'s move is the default one and it has no
destructor, `Shader` alone can be assigned to, `Texture`'s copy constructor is a delegate,
so that its destructor runs when drawing throws. `vertices` and `uploaded` compare a
geometry with what is in its buffers. `OpenWindow` and `CloseWindow` are the window with
the members it makes for itself.

## Runs

| run | module, config | checks | bounds, states |
|---|---|---|---|
| `hashmap_fixed` | `MCHashMap`, `HashMap_fixed.cfg` | a table that does not grow is a dictionary (`ImplementsDictionary`), every entry is on its probe path and stored once (`FixedSizeCorrect`), a probe spins only in a table without a never-used byte (`SpinsOnlyWhenSaturated`), iteration with removals skips and repeats nothing (`IterateComplete`) | 3 keys of one home row, 2 rows of 2 slots |
| `hashmap_grow` | `HashMap_grow.cfg` | the shape of the table and its count (`TableSound`), `TagsMatch`, that no step of a growth loses, copies or changes an entry (`ResizeKeepsEntries`), that an insertion probes a table at most half full (`LoadBounded`), and that every call returns as long as no slot was removed (`Returns`) | 3 keys, 1 to 8 rows; 365,853 |
| `hashmap_lost` | `HashMap_lost.cfg` | violation: after a growth a stored key is not found | |
| `hashmap_foundtwice` | `HashMap_foundtwice.cfg` | violation: a find loop gives an entry twice | |
| `searchtree` | `MCSearchTree`, `SearchTree_ops.cfg` | pointers agree (`PointersAgree`), the tree is balanced and no call dies (`Balanced`), `find` finds the first of equals and iterators follow the order (`IteratorsFollowOrder`), and the tree implements a sorted sequence (`ImplementsSorted`); the edges of a sweep stay in the order of every comparator (`SweepOrdered`), its polygons and their triangles make up the area (`TrianglesCover`); an outline encloses its line, and a shape's path keeps the rings of its parts (`StrokesDrawn`) | 7 nodes with equal keys, one exchange; all simple rings of 3 to 5 points of a 3x3 grid and 10 larger, with a hole or two more rings; lines of 5 corners, 11 styles; 199,886 |
| `smallvector` | `MCSmallVector`, `SmallVector_ops.cfg` | room and ownership of blocks (`BlocksOwned`), arithmetic of iterators (`IteratorsCount`), contents (`ContentsExpected`); a set has one place, which its iterator names, and base64 is what the groups of bits say, and back (`TranslatedBack`) | 2 vectors up to 4 elements, 3 blocks; sets of up to 4 of 6 numbers; texts of 5 bytes of 4; 79,647 |
| `readers` | `MCReaders`, `Readers.cfg` | a configuration file is read as the reference reads it (`FilesRead`), saved integers and truth values are restored (`SettingsRestored`); a template is filled in as its tokens say (`TemplatesFilled`); of SVG files, texts are read as they were meant (`SvgTextsRead`), path data and shapes are drawn as they say (`SvgOutlinesExact`), each shape has the attributes of the elements around it and no others, and the reader ends (`SvgDocumentsDrawn`), and view, shapes and gradients are put into an image of the right size (`SvgViewFits`) | every file of 5 characters, maps of 2 names; templates of 5 of 9 tokens; texts of 2 to 9 pieces of 8 kinds; path data of 4 commands; documents of 4 elements; 4 attributes of the view, 2 shapes; 479,643 |
| `request_life` | `MCWebRequest`, `WebRequest_life.cfg` | calls in order (`CallsInOrder`), no well-formed request is refused (`WellFormedAccepted`), the handler hears what the separators of the request line say, and its content is the body (`HandlerHears`), every connection is closed (`Closes`) | 16 requests and 1,561 request lines, 4 handlers; 192,104 |
| `request_body` | `WebRequest_body.cfg` | violation: a body that comes with the end of the headers is not delivered | |
| `digital` | `MCDigital`, `Digital_ops.cfg` | every operation leaves its result trimmed, a sum is exact if and only if none of the three cases below applies, and the other operations are exact where the property says (`ArithmeticExact`); a comparison tells the order if and only if none of the cases of `Misordered` applies (`OrderExact`); `round()` simplifies every fraction (`RoundReduces`) | digits of 3 bits, operands of 1 or 2 digits, an accumulator of up to 3; fractions of numbers below 8, up to 3 turns |
| `render_frames` | `MCRenderTargets`, `RenderTargets_frames.cfg` | the binding agrees with `in_use` and attached textures are up to date (`TargetsSound`), drawings land (`DrawsLand`), frames show their own drawings (`PreviousFrameGone`, `FrameShown`); a name has one owner, who deletes it (`NamesOwned`), and is lost only where the property says (`NothingLost`) | 2 layers, 3 channels; 11 objects, 3 at a time, 4 names; 443,168 |
| `render_clear` | `RenderTargets_clear.cfg` | violation: a layer left out of a frame keeps the last frame's drawings | |

Why the bounds are enough:

- *HashMap.* A row has 2 slots instead of 16 and a byte 8 values instead of 256, so that
  three keys fill a row, the probe goes on and wraps, and removed slots fill a row. The
  hashes share a home row, an exact tag, and a complemented low byte. Two rows are the
  fewest where a probe can go elsewhere, and growth to four moves an entry ahead of and
  behind the walk.
- *SearchTree.* Seven nodes are the fewest with a removal that rotates twice on its way
  up; equal keys stand at the root and in a leaf.
- *SmallVector.* With one element in the array (as in `Digital`), four elements are the
  fewest with an insertion of one in the middle of the heap part; with two, the border
  lies elsewhere (checked once with `MinCapacity = 2`).
- *Config.* Five characters are the fewest for `="\a"`, a string that can be read, and
  enough for two entries; the maps that are saved need longer files, which `MaxFile`
  allows. The same grammar was compared with the compiled code on these texts.
- *WebRequest.* Each request differs from the others in what it makes the parser do; a
  body of two characters can be cut, and one of them may end a line. A request line of
  four characters from `/ ? a = &` and a blank behind its method is long enough for two
  segments, for a query behind a segment, and for everything that ends one; the methods
  other than GET and the `%` have lines of their own.
- *Digital.* A digit of three bits has values that are neither the largest nor 0 nor 1,
  so that carries and borrows stop as well as run on, and several quotients and remainders;
  operands of two digits and ranks from -1 to 1 overlap in every way, and an accumulator of
  three digits has digits in front of and behind those of an operand. Numbers below 8 are one
  digit, and Euclid's algorithm needs at most two turns for them: with one turn the last
  quotient is rounded, in either half, with two it is for some, and with three never. For all
  wider digits and longer numbers there are the proofs.
- *Triangulation.* Rings of five points of a small grid have points at one height, corners
  that turn inward, polygons that divide and that merge; the larger ones have
  polygons that are divided and merge again, in different orders.
- *Outline.* Four corners make a ring, five a line with three inner corners: left, right
  and back. A miter limit of 1 keeps no corner, one of 4 every right angle.
- *Template.* Five tokens hold a loop with a condition in it; loops go round up to twice.
- *SvgText.* The pieces of a kind are those that come close to each other's ends (a number
  with a point before one that begins with one, an `e` before `m`); four of them put every
  pair beside every other, nine dashes are one more than the code keeps, seven digits one
  more than a colour has. Angles are multiples of 45 or 90 degrees, where tangent and sine
  are whole.
- *SvgPath.* A command meets what the two before it left: the current point, the control
  point, the numbers that wait. Every pair of commands, with their numbers once or twice,
  stands behind a move and before a command that shows what they left.
- *Svg.* Four elements are the fewest for a gradient that refers to one that refers to one;
  a stack of four levels is full with three groups.
- *SvgView.* Views twice as wide as the image or half as wide, before and behind the sizes.
- *Base64, ArraySet.* Five bytes end in groups of one, two and three; sets of three
  elements are the smallest that the iterator gets wrong.
- *GLObjects.* Two objects of each class that can be copied or moved, one of the others;
  with one name of the window's and three of a client's, a lost name is missed.
- *RenderTargets.* One multisampled layer and one that is not; ages beyond an even or odd
  number cannot be told apart by a bit.

Fairness. `hashmap_grow` assumes weak fairness of the steps inside a call (`Resize \/
ProbeStep`): nothing in a call waits for anybody, so a started call runs. No fairness is
put on the client. `request_life` assumes that a callback that started returns
(`Callback`) and that an event comes when it stays possible (`Event`): `accept()` sets a
read timeout with `bufferevent_set_timeouts`, and nothing disables it. The other runs
check safety only. `WebRequest` may stop (a closed request), and so do the readers when
their text is at its end, so these runs do not check for deadlock; all others do.

## Proofs

`HashMapProofs`, `SmallVectorProofs`, `SearchTreeProofs`, `SearchTreeOrder`,
`GraphicsProofs` (render targets and owners of names), `WebRequestProofs`, `DigitalLemmas` and
`DigitalProofs` hold for every value of the constants that satisfies `ConstantsAssumption`,
`VectorAssumption`, `TreeAssumption`, `RenderAssumption`, `ObjectAssumption`, the three of
`WebRequest`, `DigitalAssumption`, `OperandsAssumption` and `RationalAssumption`: any number of keys, any hash, any
row width, any number of vectors and blocks and any `MinCapacity`, any set of nodes with
integers as keys, any number of layers and channels, any objects and names, any handlers, any
streams in any pieces, any grammars, any width of a digit from two bits on, any length and
precision of a number and any fraction of two digits. Two theorems about the map say what else they assume of its sizes, see there.

*HashMap.* `LoadIsBounded`: `check_resize()` runs before the insertion probes, so an
insertion finds the table at most half full, or just doubled. `TypeCorrect`: types are
not inductive alone, because an iterator that clears must stand on a live slot and a
resize must come after a growth (`Cursor`); `TypeInv == TypeOK /\ Cursor` is.
`TableAlwaysSound` adds the count, which follows step by step: every step either leaves
the set of occupied slots alone, adds one that was free, removes one, or moves one
(`StepCases`, `PlaceStep`, `DropStep`, `LiveMove`). `TagsAreHashes` needs that the key
written into a bucket is the one whose tag is written. `FixedTableCorrect`: until the
first growth every stored key is unique and on its own probe path. The strengthening is
`Probed`: while an insertion probes, the rows behind it had no match and do not end the
chain. A path once open stays open since a used byte never becomes free (`ReachKept`).
`GrowthKeepsEntries` is the action property of a resize step.

*The map is a dictionary.* The refinement has a step of `Dictionary`
for the step of a call that ends it or changes an entry, and a stutter for all others
(`DictStep`, by a lemma for each action). What it needs to know in the middle of a call is
`CallInv` (the key of the call, and which calls may be at which step), `SearchInv` (the
rows a search has left behind have no match and do not end the chain, so a search that
misses may say that the key is absent: `MissIs`) and `WalkInv` (what an iteration has seen
is what it stands behind; `IterationComplete` follows from it). Until the first growth
these hold together with `FixedSizeCorrect` (`DictInv`), and so does every step of the
refinement: `FixedTableIsDictionary`. A growth is where the code leaves the dictionary
(see the deviations), so `MapIsDictionary` is about a program that never grows its table:
`MaxRows < 2 * InitialRows`, which says of the constants what a client says by making its
map with `Map(unsigned)` large enough.

*Probing.* That the triangular steps come to every row is arithmetic:
`n * (n + 1) / 2` for n below a power of two are all different modulo it (`StepsDiffer`),
because an odd factor cancels (`OddCancels`, by the least power of two for which it does
not, in the place of an induction). So a search that went round has seen them all
(`ProbeVisits`, `SpinningTablesAreSaturated`), and an insertion into a table without
removed slots ends before it goes round (`InsertionsEnd`). Both assume
`PowerOfTwo(InitialRows)`: `DEFAULT_BUCKETS` is 2, `Map(unsigned)` takes a power of two,
and `resize()` doubles.

*SmallVector.* `Inv` says of all vectors together (`Sound`) that the block of each is as
long as `cap` says (`Whole`), that it has room for its elements and these are the ones
expected (`Holds`), that no two own a block in common, and that an allocated block has an
owner. The operations of one vector are lemmas about a vector and a heap: what
`Write` stores is read back and all else is as before (`Written`), and with it `Shift`,
`Fill`, `reserve` and `make_space` (`Shifted`, `Filled`, `Reserved`, `SpaceMade`); what
they leave alone is their footprint, `Local`: the vector's own block and a free one. So the
others hold what they held (`OneChanged`), and each operation has only to show that its own
vector holds the list the client expects, place by place (`PutHolds`, `PutInHeapHolds`,
`CutHolds`, `LongerHolds`, `Replaced`). Moves and swaps change two vectors and have proofs
of their own. `BlocksAlwaysOwned`, `ContentsAlwaysExpected` and `IteratorsAlwaysCount` are
the results; the last needs of `Inv` only that lengths are natural numbers.

*SearchTree.* The tree is a graph of pointers, and what the model computes by going through
it recursively (`InOrder`, `Height`) no prover evaluates. So `IInv` speaks of a function that
exists: a set of nodes below each node (`Shape`, with induction over a tree by the size of
these sets, `TreeInduction`) and a height for each node (`Heights`) that the stored `h_diff`
has to tell (`Level`). In the middle of a call one place may be off: while `rebalance()`
climbs, the subtree that it stands at is one higher or lower than its parent believes
(`Pending`); while `consume()` runs, `loop.node` stands at its leftmost node (`Leftmost`).
`Running` says which, for the state that `pc` and `loop` describe. Each writing of pointers is
a lemma about trees (`AddedTo`, `RemovedTo`, `Relabelled`, the rotations with their levels
`SingleTurn` and `DoubleTurn`), and each action combines them (`InsertKeeps`, `RemoveKeeps`,
`SwapKeeps`, `LeanKeeps`, `TurnKeeps`, `ConsumeKeeps`). At the end the function that exists
is shown to be the recursive one: `Recursive` builds, from a rule for a node and its
children, the function on a whole tree, so that `InOrder` lists every node once
(`WalkLists`) and `Height` is the height (`HeightIs`). `TreePointersAgree` and
`TreeBalanced` are the results. The proof found one mistake of the model: the cases of
`FirstEqual` and `Place` overlapped, so that for some trees the text named two values and
TLC took the first. Their guards exclude one another now, in the order of the code.

*The order of the tree* (`SearchTreeOrder`). The order is a sequence put together from the
walks below each node (`WalkOf`), and a proof about it should not count places. So the lemmas
say what stands before and behind a node, not which number it has. The walk below a node is
a stretch of the order, and the loops that climb from the node end at the neighbours of the
stretch (`Stands`); with this `operator++` and `operator--` go to the neighbours in the order
(`Between`), which is `TreeIteratorsFollow`. The loops of `find` and `insert` keep what is
less than the key before them and what is more behind (`Cut`), and end at the first node that
is not less (`Heads`). For the refinement of `SortedSequence` each operation relates two walks:
an insertion puts a node in and leaves the order of the others (`AddedWalk`), a removal takes
it out (`RemovedWalk`), a rotation changes nothing (`RotatedWalk`), an exchange of nodes
renames them (`RelabelledWalk`), and a tree whose keys are ordered has a sorted walk
(`WalkSorted`). A node with two children is replaced by the next one: this exchanges two
neighbours in the order and takes out the later (`NextDrops`). Only at the end are these
turned into places of the sequence (`PutAt`, `DroppedFrom`, `ExchangedAt`), of which
`SortedSequence` speaks: `TreeIsSortedSequence`, for any nodes and keys.

*RenderTargets* (`GraphicsProofs`). `Inv` says of the context (`Sound`) that a layer's framebuffer is bound
only while it is in use, that a texture is up to date unless its layer is multisampled
and in use (`UpToDate`), and that the bit of a layer agrees with the ages of the drawings
in it (`Dated`). Since `clear` and `use` call each other, `Sound(s, X)` allows the
layers of X to be marked cleared before they are; each operator has a lemma
(`FinishSound`, `SwitchToSound`, `ClearSound`, `UseSound`) and each action combines them.
`TargetsAlwaysSound` and `PreviousFrameAlwaysGone` follow. `DrawingsLand` and `FramesShown`
are action properties with a reservation (`strayed`); what holds until a program strays is
`Unstrayed`: the framebuffer that is bound is that of `in_use`, and the window's bit agrees
with the ages in its picture (`WindowDated`), as those of the layers always do.

*GLObjects* (`GraphicsProofs`). `OwnersInv` is the types with `NamesOwned`, and beside it `Closed`: without a window
there are no objects and no names, or a new window's names would not be new. A name that is
generated is in no use (`FreeIsUnused`), so it has no other owner; a move hands a name on
and leaves `Gone`, but for a layer's, which `NamesOwned` excepts. `NamesAlwaysOwned` is the
result, and `LossesNamed` the action property, by a case for each step that takes a name
from its owner (`GenerateExcused`, `MoveExcused`, `AssignExcused`, `DestroyExcused`).

*WebRequest.* `RequestInv` has three parts, each inductive with those before it. `TypeInv`
adds to the types where the input buffer lies in the stream: `LineStarts` says that `readcb`
stands at the start of a line until the head is over, so that the line it takes is a line
of the stream (`CutPiece`, `LineIs`) and one the grammars know. `CallsInv` relates the
calls made on the handler to the state: no end was told while the bufferevent lives,
nothing was told before the request line, at most one call for content came before the
body's, and a length is kept only for a handler that asked for the content.
`CallsAlwaysInOrder` follows. `HeadInv` is for well-formed requests: while `readcb` reads
headers the end of the head is still before it, and the headers behind it are `Noted` in
the request. So the body's length is known when its state begins and the buffer holds
nothing but body (`BodyFits`); `WellFormedAlwaysAccepted` and `BodyAlwaysExact` are the
results. The second is one of the two parts of `HandlerHears`; the other reads a request
line by its separators, in `MCWebRequest`, where the grammars evaluate recursively.

*Digital* (`DigitalLemmas`, `DigitalProofs`). The inductive invariant, `Kept`, is that the
accumulator is trimmed and within the client's bounds; what has to be shown is that the
operators are exact. A row of digits is read as a number (`Read`, with `Rank` for the powers
of the base, both functions with lemmas by the least number for which they fail). Padding and
trimming keep the value (`Widens`); a carry goes through the digits above a place, and comes
out in the sign. Two numbers are added digit by digit; what is left then differs from the sum
by a multiple of the power of the base beyond both numbers, by what the decrement of the
digits above took too much, or by the digits that are thrown away, and `SumIff` shows that it
differs exactly in the three cases of `SumsExact`. A product is the sum over the pairs of
digits (`Covered` is what the pairs so far come to, `Partial` that the number kept is that),
and the two corrections for the signs are differences; none of these sums is of the three
cases. For `div`, `Guess` says of the estimate by the
divisor's digit what is left (`Reduces`, `RestDigit`); the invariant of its loop (`Going`) is
that the quotient so far times the divisor and what is left are the dividend; the last step
may round up (`Ended`), and the signs are put back. For the order, numbers of one rank are
compared digit by digit, and one of lower rank is nearer to 0; `OrderIff` sets the verdicts of
`cmp` against this and finds them right just when `Misordered` does not hold.
`TypeCorrect`, `Exact` and `Ordered` are the results.

*Rational* (`DigitalProofs`). The operators are not exact for all numbers, so the proof first
goes through numbers of one digit and a sign (`Small`): sums, differences, products and
quotients of these (`SmallPlus`, `SmallMinus`, `TimesSmallIs`, `DivSmall`), and when a
coefficient less a product comes out right although the product is wider than a digit
(`Takeable`, `TakenIs`). The rest is about integers. `Combines` says that dividend and divisor
are sums of multiples of the fraction's numbers by the coefficients, whose determinant is 1;
`NumHalf` and `DenHalf` are the signs and the order before each half of a turn, in which a
numerator may be negative if the last quotient was rounded. `NumStep`, `DenStep` and
`DenStepNegative` are the three kinds of turn: what they leave is `Nearby`, in lowest terms by
the determinant (`Coprime`) and as close as its denominator allows, because a quotient is
rounded up only if at least two fifths of the divisor are left (`TwoFifths`: `div` compares
with half the base, and the bases are powers of two) and a coefficient never grows past the
fraction's numbers (`Shrinks`, `Closes`). `TurnsKept` is the inductive invariant that puts
these on the code's records, `FractionsReduced` the result.

Only model-checked: liveness (`Returns`, `Closes`), which is out of the prover's reach;
`RequestRead`, `RequestGrammar`, `Config`, `Template` and `Base64` (these evaluate
recursively, and so does the cutting of polygons in `Triangulation`), `SvgText`, `SvgPath`,
`Svg` and `SvgView` (folds over texts and documents): induction over recursive data cannot
be instantiated. `SweepOrdered` and `TrianglesCover` of `Triangulation` and `StrokesDrawn` of
`Outline` are about areas and the plane; `TranslatedBack` of `MCSmallVector` is about what
`ArraySet` and the base64 functions return. Over natural numbers there is a way around
induction, the least number with a property (`LeastNatural`), and it is the one these proofs
take.

## Known deviations

Runs that end in a violation show four of them, with the line of a test or a comment that
says otherwise: keys lost by growth (`tests/maptest2.cpp:43`), entries found twice
(`tests/maptest2.cpp:40`), bodies that are not delivered (`server.hpp:152`), layers that
are not cleared (`graphics.hpp:549`).

Others came up that nothing in the repository speaks about; the models follow the code,
and the hazard list names the lines:

- a string in a configuration makes `parse()` run forever (`config.cpp:8`), a float is
  read as an integer and the rest of it as part of the next name (`config.cpp:15`);
- the page that answers a parse error is destroyed before it is written
  (`server.cpp:128`); after `eventcb` the request is closed twice (`server.cpp:367`);
- `GET / HTTP/1.1` has the segments `HTTP` and `1.1` (`server.cpp:240`), and a query in a
  request line with a version is refused without a word (`server.cpp:103`), as are two
  pairs with an `&` between them; names and values come out empty (`server.cpp:95`); the
  hexadecimal digits of a `%` are read from the front of the line (`parser.hpp:433`), and
  there is one pair too many, an empty one in front (`parser.hpp:319`);
- a boundary is found only with blanks around its `=`, so the usual
  `multipart/form-data; boundary=x` is refused (`server.cpp:122`);
- a sum of two Digitals is wrong in three cases, which `ArithmeticExact` names, and in no
  other: minus a power of the base, kept as a sign and zeros, is extended as a positive
  number (`numeric.cpp:23`); a negative number that is added takes one from every digit above
  its own, so that 65537 - 1 is 0 (`numeric.cpp:120-125`); two negative numbers of which only
  digits behind those of the added one are left lose these, so that
  -2147483647 + -2147483648 is -4294967296 (`numeric.cpp:139-141`);
- of the other operations `ArithmeticExact` leaves out: negations and products of a number
  that is a sign and zeros, which does not change when negated (`numeric.cpp:156-167`);
  shifts of negative numbers, and shifts to the right by a digit or more
  (`numeric.cpp:199`); and quotients of numbers of more than one digit, of which nothing is
  said: they are estimated by the first digit of the divisor, and 1 divided by 1.5 is more
  than 1.5 (`numeric.cpp:280-292`). Where numbers have one digit, the remainder of a negative
  divisor has the wrong sign (`numeric.cpp:322`);
- numbers of one sign are compared wrongly in the cases that `OrderExact` names, and in no
  other: a zero of higher rank, such as 65536 - 65536 leaves, is greater than 0 and not equal
  to it, and minus a power of the base, which can be kept in two ways, is not equal to itself
  (`numeric.cpp:417`); the lower rank of the first number is not noticed, so 1 == 65536
  (`numeric.cpp:418`); of two numbers of one rank the one with more digits counts as the one
  further from 0, so 2 > 1.5 is false (`numeric.cpp:420`); and the complements that negative
  numbers are kept as are compared in reverse (`numeric.cpp:426`). `div` and `operator<<`
  compare such numbers with 0 and 1;
- a number made from a negative integer is not negative (`numeric.cpp:9` tests an unsigned
  for it); `%=` changes nothing; the shifts in `Rational::approx` have no effect
  (`numeric.cpp:463`);
- removed slots are never reclaimed: a client that removes ends in a table where a search
  does not return (`map.hpp:294`);
- an insertion into the heap part of a SmallVector loses elements (`smallvector.hpp:210`);
- a second channel of a layer detaches the first from its framebuffer
  (`graphics.cpp:276`);
- `triangulate_monotone` does not cover some polygons with a corner that turns inward
  (`graphics.cpp:534` and 539); a ring that is stroked but not filled, first in its shape,
  becomes one ring of its two outlines (`graphics.cpp:832` keeps the parts of an empty path);
- a round cap turns into the line instead of around its end (`graphics.cpp:868`, 964, 977);
  a corner that goes straight on is no number, nor is a round one that turns back
  (`graphics.cpp:937`, 884); the ends of an open line of an SVG are none either, because
  `cubic` gives its start again (`graphics.cpp:904`); the search for another point behind a
  corner reads past the end in a second part (`graphics.cpp:929`);
- a constructor that throws loses the name it made (`graphics.cpp:189`, 393), as does a
  shader that is assigned to (`graphics.hpp:214`), and a layer that is destroyed; a moved
  layer shares its framebuffers with the new one; the members of a window delete their names
  after its context is gone (`graphics.cpp:144`);
- a loop that stands twice in a template is counted as a condition (`template.c:87`), and
  its vector is freed by the first (`template.c:208`);
- of SVG texts: a tag closed right behind its name (`<g/>`) is not closed, a `>` in a value
  ends the tag, an attribute without a value takes the next one's, tags in a comment are
  read (`nanosvg.c:99` to 205); a call with a number too many in a transform is read for
  ever, and one with a number too few leaves numbers that were never set (`nanosvg.c:1367`,
  1446);
- of SVG outlines: a rectangle is moved by its position twice (`nanosvg.c:916`, 2204), and
  drawn to the left of it if its width is negative; T mirrors the control point of a C or S,
  S that of a Q or T; numbers left over stay for the next command unless it is M or Z; a
  letter e is the number 0; a blank behind the last point of a polygon is one more 0;
- of SVG documents: in `defs` every end pops a level, a gradient's and a stop's too
  (`nanosvg.c:2657`); the end of a `use` of an unknown name follows a null pointer
  (`nanosvg.c:2655`), a `use` of itself copies its attributes without an end
  (`nanosvg.c:2596`), a `use` of a group draws nothing; a `use` has the style of where its
  definition stands and not its own surroundings', and a definition's transform twice; a
  full stack is popped though nothing was pushed; gradients that refer to each other in a
  circle are followed for ever (`nanosvg.c:698`); a gradient has to stand before the shape;
  attributes of gradients and stops stay with the element around them, those of an inner
  `svg` with what follows it;
- of SVG views: without `preserveAspectRatio` both directions are stretched; an alignment of
  y is looked for as `yMid`, so SVG's `YMid` is not seen (`nanosvg.c:2406`); a short viewBox
  ends the reading of the attributes (`nanosvg.c:2382`); a percentage as size is 0, which is
  "not given"; `em` before `font-size` is 0; a transform without an inverse is reset, and
  the inverse never set (`nanosvg.c:381`);
- what `base64_decode` returns lacks a byte when one is left over (`util.cpp:110`); the
  iterator of an `ArraySet` names wrong sets from three elements on (`arrayset.hpp:43`).

## Not modelled

- `Map` with `multiple = true` (no client), the SIMD variants of `match` (compiled out),
  the load factor as a float (it is one half).
- `btree`: `Root::swap`, iterators of a subtree, the insertion of a removed node (it
  keeps its `h_diff`).
- `Request`: what happens in an object after its destruction or after a second
  `bufferevent_free`; the listener; the parts of multipart data, of which the handler hears
  whatever they are (`Many` never fails). As the code reads them, a boundary has to be
  followed by `--` and the end of the line (`server.cpp:181`), so a body as forms send it
  has none.
- `Digital`: printing (its loops do not end for every fraction) and reading.
- `Parser`: error messages, `line_col`.
- `Path`, `Geometry`: what follows a crossing of rings (its point is a rounded float);
  `Path::split` and `is_crossing`, which nothing calls; sides that are not parallel to the
  axes in `Outline`, and the points inside arcs, fans and curves.
- Graphics: `update_size`, depth channels, viewports, uniforms, shaders, numerical code;
  what is drawn into a layer that was moved or destroyed; a constructor of a window that
  throws; the reference counts of `shared_ptr`.
- `util.cpp`: `VarIntRef` (its only client is the database, which is not built) and overflow
  in `binomial`.
- `Template`: an index that is no digit and a condition that does not end, which read behind
  the text.
- nanosvg: the control points of arcs and the bounds of curves (roots and angles), the table
  of colour names (any name is grey), axes and spread of linear gradients, caps, joins and
  fill rules (copied only), the fixed buffers for items (63 characters), names and a
  definition's attributes, memory and `nsvgDelete`; texts that its own `strtoll` overflows.
- `SmallVector`: elements with destructors, writes behind the block, an inserted element
  that lies in the vector itself.
- The parts that are not in the build, that do not compile when used, or that are
  vendored, as listed in `PROJECT.json`.

## Plan

Done, in order of importance: Map, search tree, request life and request grammars, render
targets, small vector, configuration, Digital and Rational, the sweep of `triangulate`,
outlines and shapes, owners of OpenGL's names, templates, base64, sets, SVG
files. What could follow:

1. The parts of multipart data (`server.cpp:177` to 204) over `Parser`, once the grammar
   reads a boundary as clients write it.
2. Crossings in `triangulate`, on coordinates where they are exact.
3. Proofs: that the rings of a shape are kept by `merge` (`RingsKept` of `Outline`).
