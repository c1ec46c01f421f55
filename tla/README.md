# A verification project for sbepp

sbepp is a C++ implementation of FIX Simple Binary Encoding. It has two
programs in one repository:

- **sbeppc**, a compiler: it reads an XML schema, validates it, and writes C++
  headers with the offsets, types and dependencies it has computed;
- **sbepp.hpp**, a header library: views, iterators and cursors that the
  generated headers derive from, and that read and write messages in place.

Both are sequential. Nothing runs concurrently and nothing is persisted except
the headers written. What is hard is of other kinds: long sequences of legal
calls on a cursor that is only a pointer; two computations of the same offset;
recursion through a schema in an order that a hash map chooses; verdicts that
are remembered and not asked for again; names made of other names; integers
whose widths the schema chooses; elements moved within a buffer between two
changes of its length; a walk over a message whose lengths come from the wire.
The modules here are about those.

## Inventory

| component | state it keeps | operations | what makes it correct |
|---|---|---|---|
| cursor and wrappers (`sbepp.hpp` 794-1562) | one pointer | accessors of fields, groups and data with a plain, `init`, `dont_move`, `init_dont_move` or `skip` cursor; `init_cursor` | it stands before the member that comes next; a wrong one is noticed; the size it measures is the size |
| normal accessors (`messages_compiler.hpp`, `sbepp.hpp` 679-740) | none: addresses are recomputed | address and size of levels, groups, entries, data | members follow each other in the buffer |
| groups and iterators (1880-2703) | numInGroup and blockLength in the buffer; pointer and index in an iterator | `begin`, `end`, `operator[]`, `front`, `back`, `resize`, `size_bytes`, iterator arithmetic, cursor ranges | pointer and index agree; the entry found is the one asked for |
| `dynamic_array_ref` (3315-3709) | length prefix and elements in the buffer | `resize`, `push_back`, `pop_back`, `erase`, `insert`, `assign` | behaves as a vector with room for what fits; leaves following members alone |
| visit API, `size_bytes_checked` (5283-5728) | visitor's remaining size and block length; a cursor | visit of members in order, early stop | exact answer for every buffer size; terminates |
| value types: `required_base`, `optional_base`, `bitset_base`, `static_array_ref`, byte order (480-640, 2747-3312, 3734-4030) | the bytes of the block; the client's copy of a set | get, set, compare, null, choices, strings | every member is a variable of its own, whatever the host |
| schema parser | a parser per file being read, the structures of `sbe.hpp` | one pass over the XML, recursively through includes | an include is as good as its text |
| schema validator: encodings | a processing state per encoding, contexts with sizes | recursive validation through refs and composites | cycles found from anywhere, each context made once |
| schema validator: levels, headers, constants | running offset, contexts, caches of headers | custom offsets, blockLength, header types, constants, value refs | fields do not overlap and lie in the block; the verdict depends on nothing but the schema |
| names generator, C++ validator | sets of names | mangle clashing names | generated names are unique, and public ones kept |
| tags generator | text per namespace | nested structs, aliases, order | tags are found where the schema's names say |
| traits generator | none | attributes; parameters and terms of `size_bytes` | sizes are those of the messages |
| types, messages and schema compilers | compiled set, stack of dependency sets, files | write headers in dependency order; constants and null values | headers are complete, in order and include what they name; constants have values |
| driver, file system | none | phases in order, errors end the program | an error comes before output, success means everything was written |

They interact by calls and by shared data only: the parser fills the schema,
the validator stores sizes and offsets in contexts, the generators read both and
collect, each for its own headers, the encodings that generated code names;
generated code calls the library's functions with the constants computed by the
compiler; a cursor is shared by all views of one message, and the visitor of
`size_bytes_checked` is called back by the `visit_children` the compiler has
generated.

`PROJECT.json` lists the components with their sources and status, and under
`hazards` every place where the code could go wrong in a way a test hardly
reaches, with the properties that cover it.

## Modules

The library:

| module | models | extends or instantiates |
|---|---|---|
| `MessageLayout` | addresses and sizes of one message as normal accessors compute them | |
| `Cursor` | cursor accessors, wrappers and ranges on one message, any client | `MessageLayout` |
| `MessageTrees`, `MCCursor` | message instances for TLC | `MessageLayout`, `Cursor` |
| `CursorProofs` | theorems about `Cursor` | `Cursor` |
| `Visit` | what a visit of members promises (abstract) | |
| `SizeBytesChecked`, `MCSizeBytesChecked` | the visit of `size_bytes_checked` | `MessageLayout`; implements `Visit` |
| `SizeBytesCheckedProofs` | theorems about `SizeBytesChecked`, its refinement among them | `SizeBytesChecked` |
| `DataContainer` | what a data member promises (abstract) | |
| `DynamicArray`, `MCDynamicArray` | `dynamic_array_ref`, element by element | implements `DataContainer` |
| `DynamicArrayProofs` | theorems about `DynamicArray`, its refinement among them | `DynamicArray` |
| `EntrySequence` | what a group promises (abstract) | |
| `Group`, `MCGroup` | groups, iterators and cursor ranges in C++ integers | implements `EntrySequence` |
| `GroupProofs` | theorems about `Group`, its refinement among them | `Group` |
| `FieldStore` | what the members of a block promise (abstract) | |
| `MessageFields`, `MCMessageFields` | numbers, sets and arrays in the bytes of a buffer | implements `FieldStore` |
| `MessageFieldsProofs` | theorems about `MessageFields`, its refinement among them | `MessageFields` |

The compiler:

| module | models | extends or instantiates |
|---|---|---|
| `FieldLayout`, `MCFieldLayout` | validator's and compiler's walks over the fields of one level | |
| `FieldLayoutProofs` | theorems about `FieldLayout` | `FieldLayout` |
| `EncodingGraph`, `MCEncodingGraph` | from validation to the last header, over the graph of encodings | |
| `EncodingGraphProofs` | theorems about `EncodingGraph` | `EncodingGraph` |
| `SchemaTree` | a schema as trees of nodes, names, literals | |
| `SchemaParser` | the parser and its includes | `SchemaTree` |
| `SchemaRules` | both validators | `SchemaParser` |
| `SchemaNames` | the names generator | `SchemaRules` |
| `SchemaTags` | the tags generator, and the text of `schema.hpp` as far as names go | `SchemaNames` |
| `SchemaTraits` | `size_bytes` of message and group traits | `SchemaTags` |
| `SchemaFrontEnd`, `MCSchemaFrontEnd` | the driver, which runs them in a row; constants | `SchemaTraits` |
| `SchemaFrontEndProofs` | theorems about parser, validators, names and constants | `SchemaFrontEnd` |

### How state and actions correspond to the code

**Cursor.** `ptr` is `cursor::ptr`; addresses are offsets in the buffer. `at`
and `next` are the client's place in the schema, which the code does not keep:
they are what "Wrong cursor value" has to guard. `CallField` and `CallKid` are
the generated accessors with the function of the cursor they call (`get_value`,
`get_last_value`, `get_group_view`, `get_data_view`, their setters and their
versions in the four wrappers), whose assertions and size checks are
`FieldChecks` and `KidChecks`. `EnterEntry` is `operator*` of the range's
iterator, at any time and for any entry: nothing in it looks where the cursor
is, so the view it makes may be a stray, away from its entry. `CallStray` is an
accessor of a stray; what it reads are other members' bytes, so it may leave the
cursor anywhere or fail an assertion. `stray` remembers whether the client
holds one and whether it was the last to have the cursor (`Astray`). The next
call of a view of the message that returns ends that. `NextEntry` and
`LeaveGroup` are the rest of a range-for over a `cursor_range`. `Next` lets the
client do any of it; `InOrder` is the part that `doc/representation.md` allows.
The build is a checked one: a failed assertion ends the behaviour.

**FieldLayout.** One action per field and walk. `placed` and `block` are what
the validator stores in contexts, `normal` and `cursor` the constants put into
generated accessors. Offsets are taken modulo `OffsetLimit`.

**SizeBytesChecked.** `at` and `next` are the call stack of `visit_children`;
`size`, `valid` and `groupBlockLength` the visitor's members; `saved` the local
variable of each `on_group` being executed. `Unwind` returns `true` up the
stack. `checked` is a build with size checks on a view that ends after `limit`
bytes: there a read past the end fails an assertion, also that of a field that
an older message does not have. Reads are those of the accessors that the visit
calls, of the headers of the view, of groups and of data, which come before the
visitor compares sizes.

**DynamicArray.** A call is `Invoke`, a `Begin...` action with its assertions
and its first change of the length, the loops `MoveElement` (`std::copy`,
`std::copy_backward`) and `PutValue`, and `Return`, which sets the length if the
code sets it last. `insert` of an input range repeats the middle part.

**Group.** Every arithmetic expression is evaluated in the type C++ gives it
(`Promoted`, `Common`, `As`); addresses wrap as pointers do. `dim` holds the
widths of numInGroup and blockLength and the kind of the group, `sizes` the
entries, `room` where the view ends. `HasRoom` is `SBEPP_SIZE_CHECK` with its
cast: a pointer behind the view's end passes it. `TruncatedHeader` is
`get_header` failing its check, in every member of a group that calls it.
`size_bytes()` of a nested group is the loop it is, `StartWalk`, a `WalkOver`
for each entry with the check in `operator++`, and `NestedSizeBytes`, while
`EntrySequence` says only that the answer is the end of the last entry and that
it fails if that is not in the view. `ReadEntry` stands for all accessors of an
entry; of one that the view cuts off they may fail or pass, by what the program
skips, and both models leave that open.

**MessageFields.** A byte, and a value, is the set of its bits that are 1.
`native` and `bitCast` are the build: `get_primitive` and `set_primitive` are
written with `bit_cast` and with `memcpy`, and both swap bytes where the schema
and the host differ. A setter writes bytes, a getter is an `answer`; `held` is
the copy of a set that the client changes choice by choice, with the shifts of
`get_bit` and `set_bit` computed as ints, before it stores it. `AssignMeasured`
and `AssignRange` are the two ways to fill an array: the one looks at the length
first, the other copies first.

**EncodingGraph.** `stack` is the call stack of the recursive functions of
validator and types compiler; `progress` is `encoding_processing_states`,
`size` the contexts, `compiled` `compiled_types`, `deps` the stack
`dependencies`, `files` the headers on disk with their includes. The loops over
`schema->types`, an unordered map, take encodings in any order.

**SchemaFrontEnd** and what it extends. `input` is the command line and the
files, `stage` the phase that `main` is in, `parsers` the stack of
`schema_parser` objects that `parse_include` makes, `schema` what the first one
returns. The order of the unordered map `types` is chosen when parsing ends and
kept. `validated`, `groupHeaders` and `dataHeaders` are the caches of the
validator; `named` are the nodes the names generator has dealt with, `mangled`
the contexts' names, `used` the generator's two sets, of names of types and of
messages, and `tagName` the names of the structs that hold the tags;
`detailTypes`, `detailMessages` and `publicMessages` are the
text of the tags, as the sequence of nodes that have a definition in it, which
`Text` spells out as structs and aliases; `constants` are the values generated.
There is an action per element parsed, per encoding or message validated, named
or tagged. A name is the sequence of its words, since the generators only
compare names, change their case and append words to them; which words there are
is a constant, `Words`, all strings in the run. So is what mangled names end
with, `Numbers`: the generator tries them in their order and fails when they are
used up, which `std::size_t` puts off and the run does not. What a file may contain is
`Files`; of well-formed XML it leaves out an empty CDATA section, which would be
content of an element and none.

## Runs

TLC explores all reachable states of every run whose property holds.

| run | shows | bounds, and why they are enough |
|---|---|---|
| `cursor` | A call of a view of the message that returns leaves the cursor where the documented order would, whatever was called before; calls in that order fail no assertion, find the entries random access finds, and end with the message's size. `operator*` of a range's iterator is the exception: it checks nothing, see below; the run shows that only dereferences out of order make stray views, and that the damage ends with the next call of another view that returns | 33 messages: zero to two fields, padding, constants, blocks one byte longer than the schema's, empty groups, memberless entries, nested groups whose entries differ, data of length 0 and 1. A cursor has no memory, so two members of each kind in a row give all successions. `Beyond` is how far behind the message a stray may leave the cursor |
| `cursor_constant_only_entries` | A disagreement, below | one message |
| `field_layout` | Both walks agree; exactly the levels that can be laid out are accepted | up to three fields, sizes 0 to 2, custom offsets at and around every running offset, limit 8, so that one field may wrap |
| `size_bytes_checked` | The answer is exact for every buffer size and given after finitely many steps; checked builds answer whenever the view lies in the buffer and fields in their blocks; the visit implements `Visit` | two levels of groups; sizes from 0 to more than the longest message, hence every place where it may be cut; blocks longer and shorter than the schema's; both builds |
| `dynamic_array` | All operations implement `DataContainer`, in which legal calls fail only for want of room and misuse always fails, and end; misuse changes nothing; following bytes are kept | room for four elements, all contents of two values, inputs up to five elements: enough for every overlap of source and target and for results that just fit and just do not |
| `group` | Groups implement `EntrySequence`: they answer with the right entries, counts and sizes, and fail for misuse and for what the view cuts off, and only then; pointer and index agree, in the loop of `size_bytes()` too; ranges stay in the group; calls end | int of 6 bits, pointers of 10; numInGroup and blockLength of 3, 6 and 10 bits: narrower than, as wide as, and wider than int; five entries exceed what signed 3 bits count; a view that ends in the header, and one of 10 bytes for groups of 2 to 17, which ends before, in, at the end of and behind every entry |
| `message_fields` | Members of a block are variables of their own: it implements `FieldStore`; assertions fail where they have to, and only there | a number of four bytes, so that the middle ones are told from the outer ones; an array of three; a set as wide as an int; one bit to a byte, since code never splits bytes except in sets; both hosts and both implementations; a view of all members and one that ends in the last. `VIEW` leaves out the last answer, which nothing depends on |
| `message_fields_wide_set`, `message_fields_nan` | Disagreements, below | as above; an int of 4 bits and a set of more |
| `encoding_graph` | Sound schemas are exactly those accepted; sizes are right; headers are complete, ordered and self-contained; the program ends | three public encodings, two of them composites of up to two elements with refs in all directions, nested composites, constants; every order of the map; every write may fail |
| `encoding_graph_value_refs` | A disagreement, below | two schemas |
| `schema_front_end` | Includes are textual; the verdict depends on the schema alone; errors come before output; constants fit; class and tag names are distinct, kept where possible, defined before use and found where the schema's names say; traits compute the sizes of messages | 1613 schemas, in families: all sequences of two elements in an included file, with one more before or behind; every way to break each rule, in every encoding it is about; pairs of encodings and pairs of messages with names that clash in case, in `_0` or in `_entry`, or in more names than there are numbers; groups three deep with data. Each is run in every order of its encodings |

Deadlock is checked in `schema_front_end`: `Ended`, where `main` has returned,
is the only place where it stops. The other runs stop at a failed assertion or
with the function or program they model, and leave it unchecked.

Each passing property is accompanied by a mutant of the model, a change that a
plausible bug would make, which it finds; the mutants stand in the modules
beside the definitions they replace, named `Bug...`. Type invariants are stated
in every module and checked where theorems rest on them.

### Where code and documentation disagree

With a run:

- *Entries with constant fields only* (`messages_compiler.hpp:277`): nothing
  moves a cursor over their block, so that a `cursor_range` gives the first
  entry again and again. The other runs and all theorems about cursors assume
  `CursorPassesBlocks`, that no such level occurs.
- *Includes of value references* (`messages_compiler.hpp:132`): the enum of a
  constant field's `valueRef` is named but not included.
- *Wide sets* (`sbepp.hpp:2779`): `1 << n` is an int; setting choice 31 of a set
  of uint64 sets bits 32 to 63 too, and later choices shift too far.
- *Null of float and double* (`sbepp.hpp:3900`): `has_value()` compares with a
  NaN, which differs from everything.

Named as exceptions in the properties of `schema_front_end`, which would fail
without them:

- *numInGroup as a ref* (`traits_generator.hpp:688`, `CountIsRef`): the validator
  accepts it (`sbe_schema_validator.hpp:485`; "must be a type or a ref", says
  `test/sbeppc_errors/sbe_checker_errors/CMakeLists.txt:161`), and so does the
  messages compiler, but the traits of a group call `std::get<sbe::type>`:
  `main` catches `sbe_error` only, and sbeppc ends by `std::terminate` with the
  headers of types written.
- *Null of int16* (`types_compiler.hpp:133`, `MistypedNull`): -327678 in the
  compiler's table, -32768 in `sbepp.hpp:4865`. No code compiles with it.
- *Strings of one character* (`utils.hpp:349`, `ShortString`): a char constant
  of length 5 with content "A" is generated as the character, not as an array
  (`doc/representation.md:514`).
- *Parameters of size_bytes* (`traits_generator.hpp:699`, `ParamsDistinct`): "there
  will be no two identical parameter names", says the comment. Groups `a` with
  `b_c_d`, `a_b` with `c_d` and `a_b_c` with `d` in one message all make
  `a_b_c_d_num_in_group`; the second and the third get the same suffix, `_1`.

In the library, modelled but with no run of its own:

- *Dereferencing again* (`sbepp.hpp:2170`): the iterator of a cursor range
  "satisfies `std::input_iterator`" (`sbepp.hpp:2705`), but `operator*` builds
  the entry where the cursor is and, for entries without members, moves it: a
  second `*it` is a view of the next entry or of what is behind the group.
- *Short buffers in checked builds* (`sbepp.hpp:5715`): `size_bytes_checked` "stops
  if `view` cannot fit into the given" size (`sbepp.hpp:5703`) and is for buffers
  "from an untrusted network" (`doc/examples.md:141`). With size checks it fails
  an assertion if the view's header, the header of a group (`sbepp.hpp:994`) or
  the length of a data member (`sbepp.hpp:1006`) is cut: the accessors read them
  before the visitor compares sizes. `CompleteViewsAnswered` is what remains:
  a buffer that holds the view is answered. Where fields are behind their
  blocks, as a newer schema's are in older messages, an assertion may fail too.
- *`erase(first, last)`* (`sbepp.hpp:3510`) "erases elements in `[first; last)`
  range", but asserts `last < end()`.
- *`operator[]` of a flat group* (`sbepp.hpp:2392`, "@pre `pos < size()`") narrows
  the position to `difference_type`: with a numInGroup of uint8, `group[150]` is
  in front of the group.
- *`operator+=` of the random access iterator* (`sbepp.hpp:2042`, "satisfies
  `std::random_access_iterator`") computes `n * block_length` as an `unsigned int`
  for a blockLength of uint32, which a negative n makes great.
- *`strlen` in a constant expression* (`sbepp.hpp:3127`) does not stop at the
  array's end; `StrLenConstant` has both results.

The run and the theorems about arrays, and those about groups, are about programs
that make none of the calls named here for `erase`, `operator[]` and `operator+=`.
The models can make them: `AssertsMisuseFirst` is violated with `Client = "any"`,
and `IteratorAtEntry` and `ImplementsEntries` with `"far"` or `"backward"` in
`Liberties`.

## Fairness

A call is executed to its end by the thread that made it: the actions of a call
in progress are weakly fair (`DynamicArray`, `Group`, and their abstract
specifications). Nobody has to make a call, so `Invoke` is not. `sbeppc` and
`size_bytes_checked` are single functions that run to their end, so all of
`Next` is weakly fair in `EncodingGraph`, `SizeBytesChecked` and `Visit`.
`Cursor`, `FieldLayout`, `MessageFields` and `SchemaFrontEnd` have safety
properties only; a call of `MessageFields` is one step.

## Proofs

`tlapm` checks every proof. Assumed are the assumptions on constants, which TLC
evaluates in the runs, and six conditions on the client or the schema, each a
hypothesis of the theorem that needs it: `BlocksArePassed` (cursors),
`Client = "not_to_end"` (`DynamicArray`), `Liberties = {}` (`Group`),
`FieldsNameTypes` (one theorem of `EncodingGraph`), and for `MessageFields` that
the null value is a number, `~NullIsNaN`, and that the choices of a set fit an
int, `ChoicesFitInt`. Where such a condition fails
is where the code and its documentation disagree, see above.

**`CursorProofs`**, for every message instance, however deep and long, that
satisfies `IsMessage`, which is the layout the generated code computes, and
`CursorPassesBlocks`:
- `TypeCorrect`, `CursorFollows`: after any sequence of calls, a call of a view of
  the message that returns leaves the cursor before the member that comes next
  (`StandsBefore`). Dereferences out of place, which nothing checks, and calls of
  the strays they make are among those before, but not such calls themselves
  (`Astray`).
- `CursorMeasuresMessage`: after the last member it is `size_bytes` behind the
  message's start.
- `InOrderCallsAccepted`, `EntriesAgree`: calls in the documented order pass all
  checks, whatever was called before, and find the right entries.

The inductive invariant is `TypeOK /\ CursorFollowsClient`. `CursorFollowsClient`
is inductive because `StandsBefore` has the alternative "still at the start of
the block" for levels without fields, whose first group or data member ignores
the cursor, and because leaving a group or an entry makes the end of its last
child the start of the next (`AfterLastKid`, `LeavingStands`). There is a lemma
per kind of call, and one step per action in `ClientStep`. A call of a
stray may put the cursor anywhere (`CallStray`, up to `Beyond` bytes behind the
message); the next call of another view either starts from its own address or
asserts that the cursor is where it should be, and so needs nothing of what was
before.

**`FieldLayoutProofs`**, for every width of offsets and every level:
- `TypeCorrect`; `NeverThrows`, the compiler's check never fails after the
  validator's, even after a wrap; `AccessorsAgree`, both kinds of accessors have
  one offset; `FieldsLaidOut`, fields do not overlap and lie in the block;
  `OffsetsChain`, a cursor that has read a field passes the assertion of the
  next; `ReportsExactly`, exactly the levels that cannot be laid out are
  rejected.

The properties relate the second walk to the first, which by then has left no
trace of its running offset: the history variable `before` records it. The
invariant says that the compiler's offset is `before[i]` (`Walk`), that `before`
ascends unless it has wrapped (`Ascending`) and stays where it is over constants
(`Steady`), that the block contains its last value (`Enough`), and what has been
emitted (`Emitted`). For `ReportsExactly` it says in addition that the
offsets so far are the least ones that any layout could have (`Least`,
`Rejected`).

**`SizeBytesCheckedProofs`**, for every message on the wire, every view of it and
every size of the buffer: `TypeCorrect`, `ResultCorrect` (the answer is exact),
`CursorFollowsCount`, `BlockLengthRestored`, and `CompleteAnswered`: a build with
size checks answers whenever the view lies in the buffer and fields in their
blocks. These properties
support one another and are one invariant, together with what the call stack
leaves implicit: all nodes from the place of the visit up to the view have been
entered, and the groups among them have saved the block length of the group
around them (`WithinView`); the visitor's block length is that of the group the
place is in (`BlockOfPlace`); all that has been counted has fitted (`Counting`).
`WithinView` says so of some set of nodes closed under the way up, since the way
itself is as long as the message is deep.

`MembersVisited` is the refinement: every step of the visitor is a step of
`Visit`, the next member of the view in schema order, or changes nothing that
`Visit` sees. The members still to come are those below the place of the visit,
defined by recursion down the tree (`Below`), and those behind it, by recursion
up to the view (`Behind`). Such definitions are `CHOOSE`s, of which nothing is
known unless they have a solution. `DefinitionDefines` shows that they have one
if every node has a rank that is bounded and less for the nodes it depends on:
`IsRooted`, that all nodes hang together under the message, provides it. (It is
part of `IsWireMessage`, and `Behind` stops at the view, because a first version
of both left the recursion without a solution, and `Visit` with nothing to
visit.) `BelowDefined` and `BehindDefined` unfold them once, `KidsOneByOne` and
`MembersOneByOne` member by member, and a lemma per action says which step of
`Visit` it is.

**`DynamicArrayProofs`**, for every content and every size of the buffer:
- `TypeCorrect`; `MembersBehindKept`, whatever clients do;
- `MisuseStopped`, and `ContainerImplemented`: the initial states of
  `DynamicArray` are initial states of `DataContainer`, and its steps are steps
  of it or stutter.

The invariant says what the memory is in the middle of an operation, as a
function of what it was and of how far the loop has come: `Moved` by a loop that
copies elements, `Written` by one that puts values. A copy within an array is
only that because it runs away from the overlap (`RightWay`). `Planned` relates
the loops' parameters to the call; for an input range, of which each element is
inserted by itself, to the part already inserted (`Base`, `Rounds`).

**`GroupProofs`**, for all widths of numInGroup, blockLength, int and pointers,
wherever the view ends: `IteratorsKept` and `EntriesImplemented`, the refinement
of `EntrySequence`. The invariant is small; the work is in arithmetic.
Conversions change nothing that fits and add or subtract a power of two
otherwise; positions added to an iterator wrap around twice, in
`difference_type` and in the pointer, and come out right (lemmas on `As`,
`TwoTo`); the address of entry *i*, a recursive function, is the sum of those in
front, by induction over *i*. `RoomChecked` says what the cast in a size check
does. The loop of `size_bytes()` is a step of `EntrySequence` only at its end:
`WalkAllowed` says that it is in the view, `IteratorAtEntry` that its sum leads to
where its iterator is, and `StartsAscend` that a group does not fit in which an
entry does not (`WalkOverStep`).

**`MessageFieldsProofs`**, for every number of bytes, every size of array and
set, both hosts and both implementations of access to primitives:
- `TypeCorrect`; `MembersGuarded`: assertions fail where they have to and only
  there, and until one fails nothing behind the view or between members is
  written;
- `ChoicesAreIndependent`, for sets with `ChoicesFitInt`; `NullIsNoValue`, for
  `~NullIsNaN`;
- `BlockStoresMembers`, for both: a block is the `FieldStore`, in which the
  members are variables and what is read is what was written last.

The invariant is `TypeOK /\ AssertsGuardMembers`. The refinement maps a member to
what the schema says its bytes mean; that every getter computes it, and every
setter changes it for one member only, rests on lemmas about byte order: reversing
twice changes nothing, the two implementations of primitive access are the same
function, and writing at one address leaves bytes read at another. There is a
lemma per action that finds its step of `FieldStore`. The runs
`message_fields_nan` and `message_fields_wide_set` show that neither hypothesis
can be left out.

**`EncodingGraphProofs`**, for every set of schemas, every order of the map and
any failure of a write:
- `HeadersExist`, `AllWritten`: headers are complete and include what exists;
- `SizesCorrect`: sizes add up;
- `RejectionExact`: a schema is rejected exactly if it is unsound, and no
  assertion of the validator fails;
- `TypesSelfContained`, and, for schemas with `FieldsNameTypes`,
  `SelfContained`: one header is enough.

The invariant has layers. `Inv`: what has a size has all that is inside of it
done; the stack leads from a public encoding to what is being validated; an
encoding is on it once. `Written`: which headers exist in which phase.
`Sums`: the offset of a composite being validated is the sum of what it has had.
`Rules`: a public encoding on the stack contains or refers to whatever is above
it (`Chained`), so that meeting one that is in progress is a circle, and complete
encodings refer to each other in none (`Acyclic`). `Leveled`, `Noted` and
`Headed`: of each frame of the types compiler, which of the stacked sets of
dependencies is its own (`lv`), and that the names of all elements it has passed
are in it. What is inside of an encoding is a fixed point of a recursive function
(`InsideOf`), reached after as many steps as there are nodes, by induction and
cardinality.

**`SchemaFrontEndProofs`**, for all files, any division of a schema into them and
any order of the map of types:
- `IncludesTextual`: what is read is what the text with every included file in
  place of its include has in it, and reading fails exactly if that text is wrong;
- `VerdictStands`: the validators' verdict depends on the schema alone;
- `ErrorsComeFirst`: nothing else fails once names have been found, but for a
  numInGroup that is a ref;
- `NamesDistinct`: no two classes of a namespace have one name, and none has a
  member of its own name;
- `PossibleNamesKept`: whatever has a mangled name could not have had its own;
- `TagsBeforeUse`: in the header of tags, what is inherited from or aliased is
  defined above;
- `ConstantsRight`: every constant has a value its type can hold, with the two
  exceptions named above.

The invariant: `Reading`, what parsers have made of the files are trees with the
right kinds of nodes in the right places, and no two encodings have one name;
`Remembered`, whatever is in a cache of the validator is right when it is
validated anew; `Judged`, what has passed a stage is right and what has failed in
it is not. With them an enumerator that a valueRef leads to is a literal its
enum's type can hold, hence (`GoodRef`, `GoodType`, `GoodField`) what is
generated from it is. `Lower` is idempotent (`LowerTwice`), without which the
caches, keyed by lower-case names, would not do. `NamesRight`, of the names
generator at any point of its walk: `used` is what the nodes dealt with have taken
in the detail namespaces, no two of them have taken the same, none has taken a
name of a member of its own, and for each mangled name something is in the way of
the one that was given up. `ClassNamesDistinct` follows at the end of the walk
because public names that are kept are different, the validator having seen to
it, and mangled ones avoid the public ones, kept or not.

For `IncludesTextual` there is `HaveRead` besides: the text of the elements that a
parser on the stack has passed has in it what the parser has collected, and is not
wrong; each parser but the first reads the file of the include the one below is at;
the first reads the schema's file. Texts are defined by recursion over files, which
ends because includes do (`IncludesEnd` of `IsInput` gives every file a depth), and
`TextsDefined` derives their equation from that. What is in the text of two parts is
what is in one and what is in the other, and it is wrong if one of them is or
something in one is defined in the other again (`MessagesOfBoth`,
`EncodingsOfBoth`, `WrongInBoth`): merging a file that has been read to its end is
the step from a part to the next like that for any other element (`ReadOn`), and if
a parser fails somewhere, all the texts it is part of are wrong up to that of the
whole (`WrongGoesUp`). Together they say "if and only if": a parser stops only at
what is wrong in the text, and what is wrong is not passed.

`TagsBeforeUse` is about a text, so its proof is about sequences. A sequence is
`Founded` if what each element needs is given by an earlier one; one such sequence
behind another is one (`FoundedTwo`), and so are many in a row (`FoundedMany`). The
text consists of definitions, one for every node that does not stand inside of
another, and a definition is right where the definitions its refs and mangled
elements name are given before (`DefinitionFounded`): it is enough that the nodes
are in such an order. The invariant `TagsRight` says they are, in `detailTypes` and in
`detailMessages`, and that the messages dealt with have what they need. What a visit
of an encoding adds is in order because the generator goes into a ref before it adds
the composite the ref is in (`EmittedInOrder`), by induction over the nodes reached
from a node (`VisitRank`): they are fewer behind a ref, since the validator has
accepted no circle of refs. Leaving out what is there already (`Once`) takes nothing
away that is needed. Fields and the refs of encodings name encodings, all of which
come before the messages (`TextFounded`).

Each of these modules starts with what its proofs need beyond the prover's
library: induction over natural numbers as a statement about sets, the least of
them, sums, layouts, sequences that grow.

Left to TLC:
- *liveness*, which the prover does not do: `Terminates` of `EncodingGraph` and the
  fairness of the refinements `ImplementsContainer`, `ImplementsEntries` and
  `VisitsInSchemaOrder`;
- *`MessageTrees` and `MCEncodingGraph`*, which make instances and schemas with
  `RECURSIVE` operators: that what they make satisfies `IsMessage` and `IsSchema`
  TLC checks for those used;
- *`TagNamesDistinct`, `TagsFound`*: a path in the text is made of names on the way
  up a tree, and looked up through chains of aliases; two paths differ for reasons
  that are in all the properties of names at once;
- *`TraitsMeasureMessages`*, where sums over the nodes of a tree, by folds, meet the
  terms that the generator adds up as it goes.

## Not modelled

- *Unchecked builds*: with assertions off a wrong call is undefined. The
  exception is `size_bytes_checked`, whose callers rely on no check.
- *Contents of data*: elements are values of a small set; floating point is a
  flag, whether null is a NaN.
- *Text*: XML, formatting of generated code, messages to the user, except where
  a constant, a name or an include in generated code is what a property is
  about. Of the traits, all but sizes is attributes copied into text, as is
  `enum_to_string`.
- *C++ itself*: which names a compiler accepts in a template, name lookup beyond
  scopes and aliases, quoting of characters.
- *Cycles of includes*: sbeppc recurses until its stack ends; no document says
  anything of them. `IsInput` leaves them out, by `IncludesEnd`.
- *Options and messages*: `main` parses a command line, `reporter` prints.
- *File system*: opening a file may fail; a write that fails later is never seen
  by the program and is left out.

## Plan

All of these steps are done.

1. `MessageLayout`, `Cursor`, `CursorProofs`: the core.
2. `FieldLayout`, `FieldLayoutProofs`: the offsets the core relies on.
3. `SizeBytesChecked`: the same messages, walked by lengths from the wire.
4. `DynamicArray` implementing `DataContainer`.
5. `EncodingGraph`: validation and compilation of encodings.
6. `Group` implementing `EntrySequence`.
7. `MessageFields` implementing `FieldStore`: values and byte order.
8. `Visit`, which `SizeBytesChecked` implements.
9. `SchemaParser`, `SchemaRules`: parser, headers, presence, constants.
10. `SchemaNames`, `SchemaTags`: names and tags.
11. `SchemaTraits`, `SchemaFrontEnd`: sizes, constants, the driver.
12. Theorems: the safety invariants but for two of `SchemaTags` and that of
    `SchemaTraits`, and the four refinements.

What could come next: those three as theorems, see above.
