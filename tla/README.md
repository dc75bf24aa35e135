# Specifications of tolua_runtime

TLA+ models of the C code of `tolua_runtime` (the runtime that binds Lua, in the
form of LuaJIT, to a C# host), the TLC runs that check them, and proofs for
TLAPS. Line numbers refer to `src/`. A definition of a module is tied to the code
it stands for by the table `map` of `PROJECT.json`.

Contents: 1 the system, 2 the modules, 3 the runs, 4 bounds and fairness,
5 the proofs, 6 disagreements between the code and what it says of itself,
7 what is not modelled, 8 the plan.

## 1. The system

The repository's own code is `tolua.c` (the binding), `tolua_fr1_to_fr2.c` (a
converter of bytecode), `int64.c`, `uint64.c` and the offline `tools/`. The rest
is third-party code that is built together with it: LuaJIT in two versions,
cjson, luasocket, lpeg, pb, struct, sproto, bit.

### 1.1 The binding, `tolua.c`

The host is not in the repository; it is modelled from the way the exported
functions are used, as an owner that may call them in any order that the comments
and the code presuppose.

| component | state it keeps | operations | must be true |
|---|---|---|---|
| registry references (1577–1613, 2294–2375) | the registry array with luaL_ref's free list, FIXEDMAP (value to reference), tolua's own slots, 1..64 | toluaL_ref, toluaL_unref, luaL_ref and luaL_unref of class registration, tolua_openvaluetype, tolua_openfixedmap | a reference leads to its value until it is given back; a value has one reference; tolua's own slots are never handed out; no slot is lost |
| host object cache (1088–1180, 2344) | UBOX, a weak table from the host's index to the userdata | tolua_pushudata, tolua_pushnewudata, tolua_newudata, tolua_rawnetobj, the finalizer | one userdata per host object; it leads to its object although indices are reused; every index in use comes back |
| closure errors (458–528) | a flag in each closure | tolua_pushcfunction, tolua_closure, tolua_error | the call that reports an error raises it, and no other does |
| module path (1219–1460, 1615–1890) | one static string buffer for the path of the module being registered; the tables, their `.name`; `package.loaded`, the preload table | begin and end of module, class, enum, static class, premodule; tolua_addpreload; indexing a module | every type is loaded under its path; `require` answers the type that was preloaded |
| class, enum, static and vptr events (577–1088, 2141–2225) | metatables, the cache of static functions in class tables, peer tables | `__index`, `__newindex`, setpeer, getpeer | a lookup answers what the class chain says |
| protected access and calls (387–456, 1893–1960, 2376–2486) | the Lua stack | tolua_getfield … tolua_settable, tolua_require, beginpcall, traceback, loadbuffer, parts of value types | an answer or one error in the place of the operands, whatever happens; a call that has begun keeps its handler and the stack below it |
| utilities (2487–2732) | a ring of string buffers | openlibs, Mathf, lua_buffer | powers of two are found |
| 64 bit integers, `int64.c`, `uint64.c` | userdata whose metatable says which kind they are | arithmetic, parsing, printing, halves | arithmetic modulo 2^64 in a chain of any length; a text is accepted if it is a number the kind can hold; printing and parsing are inverse |

What is hard about these. The C# side finalizes its objects on a thread of its own
and gives references back later, from a queue, while the value may be requested
again. The collector of Lua separates a dead userdata from its table long before it
runs the finalizer, and the object may be pushed in between. A host function can be
entered again through Lua before it returns, although its error flag exists once. A
class table keeps copies of functions while its class may still be extended.
The path buffer is not a stack, yet module registration uses it like one.

### 1.2 The converter, `tolua_fr1_to_fr2.c`

LuaJIT's 64-bit frames (FR2) give the frame link of a call a slot of its own, 32-bit
frames (FR1) do not. `tolua_convertbytecodeex` turns a chunk compiled for FR1 into
one for FR2: under every call base a register is inserted, and everything above it
moves. `docs/FR2_RESTART.md` and `docs/arm64_fr2_change_log.md` tell how it came about.

| component | state it keeps | operations | must be true |
|---|---|---|---|
| the chunk (15512–15923) | the buffer, the index of the prototype, one pending request to insert copies (static), the last error text (static) | the loop over prototypes for version 1 (windows) and for version 2 (register map), building the chunk again after an insertion | every call ends with one chunk or one explained failure, no buffer is lost, no prototype is prepared twice, none is left unfinished |
| registers of one prototype (444–510, 15178–15510) | the holes, the register map, the instructions in place | collect, validate, rewrite, frame size | converted code reads the values the original read; the link slot is free |
| insertion of copies (227–276, 831–1161) | the request, instructions and their jumps | schedule, rebuild | jumps arrive where they did, copies are not skipped, order is kept |
| opcode preparation (11925–12100, 15380–15500) | the instructions | renumbering, downgrading open results to one, plain loops for specialized ones | once per prototype; every call gets the arguments it got; open results are consumed by the instruction that expects them |
| window patches (1478–11393) | the instructions | a catalogue of patterns, many tied to one prototype index of one game | – |
| repacking of ranges (11394–15176) | the instructions, the frame size, requests for copies | change the instructions that compute a range with a hole in it, or copy the range, until nothing is left to do | it ends; every instruction reads the values it read before |

What is hard about these. A request for copies returns from deep inside one
prototype, the chunk is built again, and the same prototype is patched once more
from the middle. A hole that one call needs runs through the register ranges of all
other instructions. Jump distances change under insertions. State is static, so a
failed conversion may leave something behind for the next.

### 1.3 How the parts meet

References, the object cache and the module path share the registry and the Lua
stack, and nothing else: class registration takes its references from the same free
list as toluaL_ref (modelled together in `ToluaRefs`), and the object cache lives
in a table of its own behind a reserved slot, whose protection is `ReservedKept`.
Every operation of the binding works on the Lua stack of the host's frame; `HostStack`
models that stack and leaves open what the tables and functions hold.
Inside the converter, `ConvertChunk` sees one prototype as "patched, failed or
needs copies"; `PrepareOps` (opcodes), `Repack` (ranges), `ProtoRewrite` (registers) and `InsertCopies`
open that step, in the order in which the code takes it. `MCPrototype` checks three of them in one run, and
`MCClassFunctions` does so with `ClassEvents` and `ClosureErrors`, which are about the functions the host registers.

## 2. The modules

### `ToluaRefs` — registry references; `RefTable` — what they promise

`registry` is the registry's array part with slot 0 as head of the free list, as in
`luaL_ref` (luajit-2.1/src/lib_aux.c); `fixedmap` is FIXEDMAP. `bound`, `hostRefs`,
`pending` and `classRefs` are the books of the owners, which the code trusts:
references held by live C# objects, references whose object was finalized, and
those of classes.

| action | code |
|---|---|
| `Init` | tolua_setluabaseridx fills the reserved slots (2300) |
| `OpenValueType` | tolua_openvaluetype: puts a function, or nil, into the slot CHECKVALUE |
| `ToluaRef`, `BeginClass` | toluaL_ref through FIXEDMAP; luaL_ref of registration, past it |
| `Finalize`, `Drain` | the host's finalizer thread queues a reference; the main thread calls toluaL_unref, unless there is a new object for the same reference |
| `UnrefClass` | the host gives the reference of a class back, with toluaL_unref |

A table with holes has several borders. `Lengths` lets the registry's length be any
of them, and `TabLen` models the search of `lj_tab_len` to show (`LengthSearched`)
that the search answers none below the reserved slots: it probes powers of two first, and
64 is one (`PowerAssumption`). `Search` and `Widened` are its loops, `Halve` and `Widen` one
turn of each. `RefTable` is the specification without free list,
FIXEDMAP or length: `Bind` and `Unbind` of slots. `ToluaRefs` refines it with
`bound` mapped to `Seen`, and the properties tie `bound` to `registry`.

### `HostObjects` — userdata of host objects

`ubox` is the weak table, `life` the state of each userdata ("live", "pending" while it
waits for its finalizer, "none"), `val` the index it holds. `free`, `slot` and `indexOf` are
the host's pool of indices, taken in TakeSlot and given back by the number
tolua_rawnetobj reads from the userdata. `PushAgain` is a push that finds the
cached userdata, `TakeSlot` and `PushNew` the two halves of a push that does not
(the host chooses an index, tolua_pushnewudata makes the userdata and caches it).
`PushStarves` and `PushUncacheable` are pushes that run out of memory, before the userdata
exists (its slot is lost: `lost`) or before it is cached (its finalizer returns the slot).
`Drop` is Lua dropping its last reference, `Separate` the collector moving any
set of unreferenced userdata to its list and clearing the weak table, `Finalize` the
late finalizer.

### `ClosureErrors` — errors of host functions

`flag` is upvalue 1 of each closure; `stack` the activations, each with what it has
reported; `starved` is a history variable. `Call` enters a function, protected or
not; `Report` is tolua_error; `ReportStarves` is tolua_error whose lua_pushstring runs
out of memory after the flag was set, which unwinds to the last protected call;
`ApiError` is any other Lua error out of the function; `Return` is the end of
tolua_closure, which looks at the flag, resets it and raises.

### `ModulePath` — registration of modules, types and preloads

`sb` is the buffer as a sequence of names; `table` the tables by path, with the
`.name` each carries and whether it has a metatable; `frames` what the host has
begun. Every begin and end function is an action, including the cut of the buffer at
its last dot, the reading back of `.name` for a module that exists, and the
names `tolua_beginpremodule` piles on the buffer. `orderly` is a history
variable that is true as long as the host announces namespaces from the outside in.

### `ClassEvents` — fields of classes and objects

One key is followed through all places that may have it: `raw`, `get` and `set` of
the class metatables, `cache` of the class tables, `traw`, `tget` and `tset` of Lua
tables. The events are functions that walk a chain and answer the place they end at
(`ClassPlaces`, `PeerPlaces`, `SetterPlaces`, `PeerTargets`), in the order of the loops
of class_index_event and class_newindex_event; `BaseIndexEvent` is vptr_index_event.

| action | code |
|---|---|
| `Hold`, `Variable` | tolua_constant, tolua_function, tolua_variable, at any time |
| `ReadClass`, `AssignClass` | a static function copied into the class table when read; Lua assigning to the copy |
| `Assign` | class_newindex_event on an object |
| `SetPeer`, `RemovePeer` | tolua_bnd_setpeer |
| `Prepare` | initget, initset and what Lua does with a table of its own |

### `HostStack` — protected access and calls; `StackPromise` — what they promise

`stack` is the Lua stack of the host's frame, `frames` the calls begun with
tolua_beginpcall, each with the index it answered and, as history, the stack it found;
`called` records which function ran last with which arguments. Each action is written out
as the pushes, copies and removals of the code, in its order:

| action | code |
|---|---|
| `GetField`, `SetField`, `GetTable`, `SetTable` | tolua_getfield … tolua_settable: a C function called under lua_pcall, answering the value or the error |
| `Require` | tolua_require: handler, function, name, and the handler removed below the results |
| `BeginPCall`, `PCall`, `EndPCall` | tolua_beginpcall and the host's lua_pcall and lua_settop, one call inside the other |
| `LoadBuffer` | tolua_loadbuffer: a chunk, one that had to be converted, or one error text |
| `Unpack`, `Pack` | tolua_getvec2 … and tolua_pushvec2 …: a function of Lua called and its answers taken; tolua_getlayermask calls none for a number. The call is not protected, so an error leaves the host's frame (`Gone`) |
| `Push`, `Settle` | lua_push… and lua_settop of the host itself |

In two cases the code does not answer: an unprotected call raises an error, which unwinds the frame to whoever
called the host, and traceback looks for a text in an error value that has none and ends the process (`Crashes`,
section 6). Both end in `Gone`, where the frame and its stack are no more. `StackPromise` is the specification in terms of
operands and answers; `HostStack` refines it with `pstack <- stack`, `pcalled <- called`.

### `Int64`, `MathfPowers` — numbers

A script makes an int64 or uint64 from a text (`Type`, `NewFromText`) or from two halves
(`NewFromHalves`) and computes with it (`Operate`, `Power`, `Negate`), with itself as
the left or the right operand and an integer, a number, a text or a value of another type as the other one. `acc` is a word of two halves, with `HalfModulus` values each, together with its
metatable; `exact` is what the word should be. `Strto` is strtoll and strtoull with
saturation and ERANGE, `Parsed` is _str2long and _str2ulong as they use it (decimal
first, hexadecimal when it stopped at an x), `Refusal` and `Checked` are tolua_checkint64: a text is
parsed or refused, a value of another type is refused, and an integer of the other kind is taken for 0. What C leaves undefined, the least number divided by -1, is either a trap or the wrapped
quotient. `MathfPowers` has NextPowerOfTwo with its smearing shifts; an integer is the set of its bits there,
`v |= v >> s` a union, so that provers without a theory of bit operators can reason about it.
`MCInt64` puts both together.

### `ShiftMap`, `ProtoRewrite` — registers of one prototype

`ShiftMap` defines the map (`MapReg`: a register moves up by the number of holes
strictly below it) and the two range predicates of the code. In `ProtoRewrite` the
compiler emits a program (`Emit`) of calls, tail calls, returns, concatenations,
loops and table stores with register ranges; `Start` collects the holes and
hands over to repacking when a call needs it; `RewriteIns` validates and rewrites one
instruction in place and ends with "layout" or "overflow" as the code does;
`SizeFrame` collects the holes again, from code already rewritten, and sets the
frame size. `ValuesRead` runs a program with either frame layout and records what
every instruction reads, so "same values" is a statement about execution and not
about operands.

### `PrepareOps` — opcodes of one prototype

`Emit` compiles a prototype with calls and varargs that leave open results, their
consumers (CALLM, CALLMT, RETM, TSETM), the UCLO that may stand between, and pairs loops.
`RemapIns` is the first loop of tolua_patch_proto_v1_fr2, `PrepareIns` one turn of
tolua_prepare_proto_bytecode or of the second loop of the former, `Collect` the check in
tolua_collect_proto_holes, `ResolveIns` one turn of the loop of tolua_patch_proto_bytecode as far as opcodes go.
An opcode that the table does not know ("FOREIGN") is refused where the code looks it up.
`path` tells the three ways a chunk is converted. `renamed` counts how
often each opcode went through the table.

### `Repack` — ranges of registers of one prototype

The compiler emits (`Operand`, `Join`, `Statement`, `Loop`, `End`) a prototype with concatenations of constants,
locals and calls without arguments, `x or y` and `(A == f()) and x or y` among them, and a loop over
them. `Repacking` is one turn of the loop of tolua_try_repack_proto_calls for CAT and RET: `Plans` are the instructions that have a hole
in their range and about which something can be done, and the first of them is taken.

| definition | code |
|---|---|
| `Slice`, `Stops`, `Window` | tolua_select_repack_slice and the retry that allows reading: from the instruction backwards, those that compute its registers, and what is in the way |
| `Inside`, `Outside`, `LiveAfter`, `Touched`, `MoveBase` | the search for the new place, below the frame size or above it |
| `Moved` | the window with its registers renamed, calls included |
| `CopyBase`, `WithCopies` | tolua_try_repack_cat_gap_copy and tolua_try_repack_cat_split_hole; the rebuilding itself is `InsertCopies` |
| `CatWindow` | what is left when neither is possible |
| `RepackNothing` | the end of the loop; a range that still has a hole is refused afterwards ("layout") |

Then `RunBoth` and `RunCopy` run `source` and `code` side by side, along every path. `agree` holds the pairs of
registers with the same value. A call, or the metamethod of a CAT, destroys what lies above its
frame. `faults` is a history variable: `FaultsOf` tells of a move whether a call went along ("carried"), a
call or CAT stayed below the new place ("overtaken"), a CAT was moved in part ("torn"), nothing computes the
new registers ("blind"), or something that is read later is overwritten ("overwriting").
`turn` changes with every turn, which lets fairness be stated of it. `ProgramKept`, `NoCopySkipped`, `FrameHolds` and
`TurnsComeCloser` say what repacking keeps of the program and how it comes to an end; they are proved (section 5).

### `InsertCopies` — copies into a prototype

`code` is a function from positions to instructions, each of which remembers which
original it is (`id`) and, for jumps, which one it led to (`goal`). ISNEXT has a goal too, the ITERN of
its loop, but tolua_get_jump_target does not know it. `Schedule` is
tolua_schedule_insert_copies (one request at a time), `Rebuild` builds the
prototype again and retargets jumps, or refuses with "layout" when a jump enters copies
that do not allow it.

### `ConvertChunk` — conversion of a chunk

`phase` is the place in tolua_convertbytecodeex and
tolua_convert_bytecode_inplace. `Call` starts a conversion; `CheckHeader`,
`Prepare`, `PatchFails`, `PatchSchedules`, `PatchSkips` (the request is still active, so the
copies are left out; `stale` remembers whether the request was there when the call came), `PatchDone`, `RebuildSucceeds`, `RebuildFails`, `Finish`
and `Fail` are its steps, with the buffers `handle`, `buf` and `handedOut`. Prototypes
need any number of insertions up to the bound; every step that can fail in the
code may fail.

## 3. The runs

| run | states | what it shows |
|---|---|---|
| `refs` | 20 thousand | Every order of references taken, finalized, drained, taken again and of classes: owners see their value, FIXEDMAP agrees with the registry, no slot leaks, the search for the registry's length answers none below the reserved slots, these stay, and the whole implements `RefTable`. |
| `host_objects` | 678 thousand | Two objects over four indices and three userdata, so that an index is reused while an old userdata with the same number still waits for its finalizer; one push may run out of memory. |
| `class_functions` | 1.7 million | One part at a time (`MCClassFunctions`). Two functions four activations deep, each calling itself and the other, protected or not: reported errors are raised by their own call; the only invented error is the one left by a report that starved. Two classes, an object, a peer and its prototype with four declarations of a key anywhere: an assignment that is accepted is read back where it went (`AssignedIsRead`, under the condition `Declared` on classes and peers), and class table, object and base agree unless Lua assigned to the copy in the class table or something was declared after it (`ThreeWaysToAClass`). |
| `modules` | 283 thousand | The buffer is the path at every point; types are loaded by it; preloaded types are found when their module is indexed and required, for hosts that announce outer namespaces first; beginning a module repairs its name for any host (`BufferIsPath`). |
| `stack` | 435 thousand | Two calls begun one inside the other with every operation in between, each failing or not: each call finds its handler and ends with the stack it began with (`FramesIntact`); every operation answers what `StackPromise` says (`KeepsPromise`). |
| `numbers` | 171 thousand | All texts of five characters over nine, all pairs of halves, and chains of operations of any length on words of six bits: the result is exact or an operand is refused (`ChainsExact`), texts are accepted as what they mean (`ParsedAsMeant`), printing and halves are inverse to parsing (`RoundTrips`), powers of two are the nearest ones (`PowersFound`). |
| `proto_rewrite` | 614 thousand | All programs of three instructions over five registers, with up to two results and open results: link slots are free, validated ranges stay together, the frame size covers what is used (`FrameCovers`, with its exception), and where calls have at most one result all values read are the same. |
| `prototype` | 1.4 million | One stage at a time (`MCPrototype`). All prototypes of four instructions with open results, on all three paths: a call gets the same arguments where open results became one, what is left open is consumed where it is produced, opcodes are renamed once. All prototypes of eight instructions with concatenations: repacking ends unless a call was carried along (`RepackEndsUncarried`, liveness), and afterwards every instruction reads the values that it read before, unless a move did what `FaultsOf` names (`ValuesKept`). All prototypes of four instructions with any jumps, copies inserted repeatedly: jumps arrive and copies are not bypassed. |
| `convert_chunk` | 29 thousand | Conversions of two prototypes in both versions one after the other with failures anywhere: prepared once, buffers accounted for, failures explained, copies left out only because of a request that an earlier conversion left (`OnlyLeftoversSkip`), and every call answers (liveness). |
| `proto_results`, `repack_hangs`, `isnext_stale` | – | Violations, see section 6. |

`PROJECT.json` names for every property of a passing run a mutant, a change of
one definition such as a dropped guard, a swapped order or a missing reset, that the
property detects. The type invariants, `OneRefPerValue` (ToluaRefs), `OriginalsInOrder`
(InsertCopies) and `HeaderLast` (ConvertChunk) hold in the same configurations; they are proved
(section 5) and not listed there, since they say less; so is `IsnextStaysClose`, what is true of ISNEXT.

## 4. Bounds and fairness

* `refs`: `Reserved` is 4 instead of 64 and `MaxSlot` 8, so four free slots for three
  values: enough for a free list of every shape up to length four, a reference that
  is freed and given out again, and an extension of the array. `CheckValue` is the
  one reserved slot that may be empty. The two plain values are symmetric (the
  metatable is a value of another kind); the properties name no value.
* `host_objects`: a third userdata and a third index are what reuse during a late
  finalizer needs; the fourth index is the one that a push without memory loses (`MaxLost`).
* `class_functions`, errors: depth 4 lets a function be active twice with the other in
  between and a protected call around either.
* `class_functions`, events: the properties relate one object to its own class and peer, so one
  object suffices; base and derived class, peer and prototype are the chains; a property
  in the class and one in the peer are four declarations.
* `modules`: paths of three names over two names give nested modules, repeated names
  (`a.a`) and siblings; four tables and two preloads bound the count.
* `stack`: one value besides functions, handlers and messages, since the properties ask
  where a value lies and not which it is; five slots hold two begun calls and one operand.
* `numbers`: words of six bits have halves of three; the texts reach past both ends of either kind (`-33`, `0x7f`) and
  have spaces, signs and the letter x in every place. `Operands` are both ends, 0, 1, -1 and
  small numbers; `OperandTexts` are a negative number, one with an x, one too large and one that is none. Powers of two are searched in 16 bits with the smearing of 8, as the code has 64 and 32.
* `prototype`, preparing: four instructions are a producer, a UCLO, its consumer and one more; `MaxC` 4
  lets the count of arguments overflow.
* `prototype`, repacking: two locals, three operands and eight instructions hold a CAT over a call
  with an alternative, a CAT inside another, or a loop around one; `MaxA` 9 leaves room above every frame and is
  reached by repeated moves. What has not been changed is not run. Each fault but "overtaken" occurs there with a wrong value that
  `ValuesKept` would otherwise show; that one needs nine instructions, and `Repack` alone passes with
  `MaxSource` 9 and two locals (1.9 million states) as well.
* `isnext_stale` has the bounds of `prototype`, copying; the shortest violation takes one request and one insertion.
* `repack_hangs` has one local and two operands, the least that show the violation with this length.
* `proto_rewrite`: `MaxA` 6 is one register less than five registers and two holes can
  need, so overflow occurs; three instructions allow two calls and an instruction that crosses them.
  `proto_results` uses the least registers that show the violation.
* `prototype`, copying: `MaxSize` 7 allows several insertions into four instructions;
  `JumpBias` 8 stands for 32768: distances wrap beyond it, as in setbc_j, and the
  code checks nothing. The properties of jumps are therefore stated, and proved, for
  prototypes no longer than `JumpBias` (section 7).
* `convert_chunk`: `MaxInserts` 2 rounds for each of two prototypes; three buffers are the most that
  can be alive at once while a caller keeps one.

`CHECK_DEADLOCK FALSE` stands where the model ends by itself: one prototype has been
prepared or rewritten, `MaxSize` is reached, a script has raised its error, or the frame is gone.

Fairness is assumed of `Converting` in `ConvertChunk` and of the turns of the loop in `Repack`
(`WF_turn(Turns)`, which is weak fairness of `Repacking`, for only that changes `turn` while `phase` is "repack"): a conversion
that has begun is sequential code of one thread without waiting, so a next step that
is enabled is taken. No fairness is assumed of the callers. `Answers` holds because every
rebuild uses up a round of copies that the prototype needed; the model bounds
those rounds with `MaxInserts`, so that the code's windows ask for finitely many copies
is an assumption, and so is that each step on a prototype ends: section 6 shows a prototype whose
repacking does not. The other modules describe no progress the code promises (the host
may never drain its queue, the collector may never run), and state only safety.

## 5. The proofs

Modules named `*_proofs` hold them. A safety property is proved from an inductive invariant: each action is
shown to preserve it, and the theorem is of the form `Spec => []Inv`. Where a model has a recursive function
(the free list, walks to base classes, programs that are run), facts about every argument are
proved through the least element of the set of counterexamples (`LeastOf`, from the library's theorem
that `<` on the natural numbers is well-founded).

| theorem | says | from |
|---|---|---|
| `ToluaRefs_proofs`: TypeCorrect, OwnersSafe, FixedMapSafe, Deduplicated, ReservedSafe | the safety properties of the run, for any values, slots and reserved slots | the free list: the entries are slots nobody uses (`FreeClosed`), no two lead to the same (`FreeInjective`), it ends exactly once; the books of the owners are disjoint and every reference in them is bound. Without the free list's form, luaL_ref could answer a slot in use. |
| SlotsSafe | a slot that was given out is bound, reserved or on the free list | `ChainInv`: the list that starts at the head has an order that reaches every free slot; a freed slot goes to its front, and luaL_ref takes the front away |
| LengthSafe | the length that lj_tab_len finds is a border above the reserved slots, for any spread of the keys over array and hash part | the loops as sequences of bounds (`LoopRuns`, `LoopKeeps`); `Brackets`: the keys go from filled to empty between the bounds, and as long as the lower one is slot 0 the upper one is a power of two above `Reserved`. Without the last part nothing keeps the search out of the reserved slots. |
| Implementation | `ToluaRefs` implements `RefTable` | each action is a Bind, an Unbind or a stutter, given `NewRefUnused` |
| `Userdata_proofs`: TypeCorrect, OneUserdata, ObjectsReached, SlotsReturn | one userdata per object, correct object, no leak but of starved pushes | `CacheExact` (the cache holds exactly the live userdata, under their numbers), `SlotsOwned` (no two userdata, waiting ones included, share a number; none holds a free one), `HostAgrees`. `OneUserdataPerObject` alone is not inductive: a late finalizer could clear the entry of a newer userdata. |
| IntTypeCorrect, ChainsSafe, ParsedCorrectly, IntegersReturn | integers of a script are exact, texts are read as what they mean, and integers come back from what is printed: for words of any size and texts of any length | `IntInv` (types and `ChainsExact`). The quotient that rounds towards zero is the only one with its remainder (`QuotientUnique`, `Divided`). Where each reading of a text ends is the end of a run of characters (`BehindEnds`, `ReadThrough`), so that both readings together, with one end and one errno chosen from them, agree with the text's body (`ParsedMeans`). What digits are worth follows by induction on their number (`MagnitudeRead`, `DecimalMeans`). |
| PowersRight | NextPowerOfTwo and ClosestPowerOfTwo answer the nearest powers, for integers of any number of bits and all arguments up to the distance of the smearing | `Reached`: after the first shifts by 2^n-1, 2^n-2 .. d, every bit is set whose distance from the highest one is a multiple of d, and none above; each further shift halves d (`ShiftReaches`), so all are set in the end (`Filled`), and their value is one less than the next power (`ValueOfAll`) |
| `ClassFunctions_proofs`: ClassAnswersAgree, AssignmentsRead | for any number of classes and tables, base classes and prototypes: a class, its objects and the bases of their peers answer the same but for the `changed` names, and what was assigned to an object is read back | `CopyInv`: a copy in a class table is what the walk along the base classes finds; `EventInv`: what the assigned names lead to. Both need that a walk finds the same after a step that changes one table, which is proved by descent along `parent` and `proto`. |
| ErrorsTypeCorrect, ErrorsArrive, ErrorsAreOwn | no report is lost; none is invented save after starvation | `FlagOfTop`: a set flag belongs to a report by the innermost activation, or to a starved function |
| `HostStack_proofs`: TypeCorrect, FramesSafe | calls begun one inside the other, to any depth and over any operations, keep handler and stack | `StackInv`: each frame's handler is in its slot, the stack below is the one it found, and frames are strictly nested. Every action is first shown to leave the stack up to `Floor` alone (lemmas on SubSeq, RemoveAt and Append), which is what carries the invariant. |
| Implementation | `HostStack` implements `StackPromise` | each operation, from whatever stack it finds, answers and leaves what the promise says of it, or the frame is gone, where nothing is promised; `StackInv` gives the shape of the stack under a call |
| `ProtoRewrite_proofs`: TypeCorrect, LinkSlotSafe, RangesSafe | link slots are free and validated ranges contiguous, for any program, registers and limit | code below `pc` is the rewriting of the source and has been validated, code from `pc` on is the source; the lemmas about `ShiftMap`: the map is strictly monotone, skips the slot above each hole, and is a translation on a range without holes |
| FrameSafe | the frame covers the registers in use, unless a base has moved up to the top one | `FrameInv`: every register that an instruction names or implies is in the frame of the source; its image is not above that of the top register |
| ValuesSafe | with one result per call, rewritten code reads what the source reads | `ValuesInv` (the compiler's program reads only values that are there), and a simulation: the two programs run in step, register `r` of the source being register `MapReg(r)` of the rewriting |
| `Prototype_proofs`: TypeCorrect, JumpsSafe, CopiesSafe, OrderSafe, IsnextKept | insertion of copies, for any size and any number of insertions | `Ghosts`: what each instruction remembers is consistent; `IsnextShort`: ISNEXT stands before its ITERN and never leads past it. `IsnextKept` is that an ISNEXT finds the ITERN of its loop as long as no copy stands between them (`IsnextStaysClose`), so that the violation of `isnext_stale` has no other cause |
| PrepareTypeCorrect, ResultsPassed, ResultsPaired, OpcodesRenamed | preparation of opcodes, for prototypes of any length | `PrepareInv`: each instruction is one of three things that become of the compiled one (`Kept`), what takes open results finds its producer (`Followed`), and each pass has validated (`Validated`) or renamed (`Renames`) what is below its position |
| RepackInvariance, ProgramSafe, CopiesRun, FrameSafe | what repacking makes of a prototype of any length is the program it was, in frames that hold its registers (`ProgramKept`, `NoCopySkipped`, `FrameHolds`) | `RepackInv`: a map from the buffer to the source (`Linked`) that keeps instructions (`FromSource`), order (`InOrder`) and jumps (`Arrives`) and takes a copy to what it was made for. A move leaves the map as it is (`MoveLinked`), copies compose it with the places they came from (`CopyLinked`). That no jump leads to the CAT the copies are for is needed: one would arrive behind them. |
| RepackComesCloser | `TurnsComeCloser`: a turn that moves no call along and tears no CAT takes at least one instruction off those that still need to be repacked and adds none, or the frame has grown towards `MaxA`; so of such turns there are at most as many as instructions and registers together | the holes stay where they are unless a call moves (`MovedHoles`, `CopiesHoles`); a new place has none, but for copies whose place tolua_try_repack_cat_split_hole takes without looking, and these let the frame grow by one (`PlanFacts`, `CopiesNeeds`); an instruction stands in the buffer once (`IdsApart`) |
| `ConvertChunk_proofs`: TypeCorrect, PreparationSafe, BuffersSafe, LeftoversSafe, FailuresExplained, HeaderSafe | the safety properties of the run for any number of prototypes and insertions | `RequestInv` (who the pending request belongs to in each phase) and `RetryInv` (a prototype that is patched again is the one already prepared) |
| ConversionComesCloser | `ComesCloser`: each step of a conversion, whichever way it goes, leaves fewer to come; a chunk of `NumProtos` prototypes is answered within `NumProtos * (2 * MaxInserts + 1) + 4` steps of the model | the bound `StepsLeft`, of which a rebuild uses up one round of the prototype at hand; `RequestInv` (a rebuild is for a prototype that still has rounds to come) |
| `ModulePath_proofs`: TypeCorrect, BufferFollowsPath, LoadedUnderPath, RequireAnswers, PreloadFound | every property of the run, for any names, any length of paths and any number of tables and preloaded types | the frames form a chain of paths (`ModuleFrames`, `TypeFrames`, `PreFrames`); the buffer has the path of the namespace on top, with a type open in it or not (`BufferFollows`: without the frame below the type, ending the type would say nothing of the buffer); a named module has its path as its name, and only a type that require opened early may keep a wrong one (`Named`); the way to a preloaded type never goes (`Announced`) |

The assumptions of the proofs are the named ASSUMEs of the modules, which state the
types of the constants.

One proof failed for a good reason: `ProtoRewrite` mapped the loads, with which its programs begin, without asking
whether they still fit a register, although the code refuses any operand that does not. `LoadsFit` corrects this, and
`OneResultValuesRead` is proved. `LengthSearched` could not be proved for any number of reserved slots: with five
of them and the last but one nil TLC finds a registry whose length is 3, so that luaL_ref would hand out a reserved slot.
The code has 64; that it must be a power of two is now `PowerAssumption`.

Checked by TLC only. `Answers` and `RepackEndsUncarried`: liveness is out of the prover's reach. What
`Answers` adds to `ComesCloser`, which is proved, is that the next step is taken and is never disabled
before the answer. In the same way `RepackComesCloser` proves the measure of `RepackEndsUncarried` for turns
that tear no CAT; that the loop ends with torn ones, too, TLC finds. Of `ValuesKept` the half about control is proved
(`ProgramSafe`: which instruction of the code runs with which of the source, and how many registers both read); that those
registers hold the same values is not: it depends on what the instructions of a
window compute along every path into it, a case distinction over moves that only their enumeration settles.

## 6. Disagreements

Three were found as violated properties and are quoted in `findings` of `PROJECT.json` with the
lines that say otherwise; they, and all below, were reproduced with the code compiled and run.

* `proto_results` — the hole at the base of a call separates its first and second
  result, and the validation looks only for holes from the second result on:
  `local x, y = f() print(x, y)` prints the first value twice after conversion.
* `repack_hangs` — the loop of tolua_try_repack_proto_calls (15114) does not end for `X = "a" .. (f() or "x")`. The operands of CAT are moved
  up together with the instructions that compute them; the base of the call in the parentheses moves with them, although the
  comment at 565 says that a CALL must not be moved; so the next turn finds a hole in the new range and moves everything
  back. `RepackEndsUncarried` says that this is the only way.
* `isnext_stale` — ISNEXT is not in `tolua_get_jump_target` (831), so its distance is stale after an insertion between
  it and its ITERN (it led to 51 with its ITERN at 54), although tolua_prepare_proto_bytecode and tolua_resolve_proto_op
  refuse an ISNEXT that does not lead to ITERN or ITERC (11957, 12082). On the path of version 2, and once
  tolua_resolve_proto_op has been through, it has become a JMP; the windows of version 1 insert copies before that.
  `IsnextStaysClose`, which is proved, says that this is the only way.

Confined by a property that states exactly when the code is right:

* the frame size is mapped through holes collected from code that is
  already rewritten; a nested call gave 9 with register 10 in use. `FrameCovers` holds
  when no base below the top register has moved up to it.
* a rebuild that fails leaves the request active. The path of version 1 does not
  clear it first, so the next, valid, chunk is refused (error 9). `OnlyLeftoversSkip` says that this is the
  only way in which one conversion reaches another.
* a report of an error that runs out of memory leaves the flag set, and the next call
  of that function raises an error it did not report (`NoErrorInvented`).
* a push that runs out of memory before the userdata exists loses the host's slot
  (`NoSlotLeaks` excepts `lost`).
* a class table refuses `C.F = x` before `C.F` is first read, and accepts it
  afterwards, since the copied function is assigned without an event. A function
  registered again is seen by objects and not by a class table that has copied the old
  one. `changed` leaves these cases out of `ThreeWaysToAClass`.
* preloading `Spine.Unity` before `Spine` names the outer table "Spine.Unity", since
  the buffer still holds the longer path; `require 'Spine.Y'` then answers a fresh
  empty table. Neither tolua_addpreload nor tolua_beginpremodule sets a metatable, so
  nothing repairs it until the module is begun (`BufferIsPath`).
  `RequireAnswersType` is therefore conditional on `orderly`.
* the difference of two uint64 is an int64 when it is not positive (uint64.c:198), and
  the metamethods of uint64 read an int64 as 0: `a - b + c` is then `c` (`ChainsExact` excepts it).
  INT64_MIN / -1 is undefined in C and traps on x86 (int64.c:221).
* repacking changes what a program does in five ways, each a name in `FaultsOf`; `ValuesKept` holds for all
  other moves.
  - blind: in `X = f() .. (A or "b")` CAT is the target of a jump, so that no copies can be put in front
    of it; a call without arguments then counts as moved although nothing changed, and CAT is given
    registers that nothing has written ("attempt to concatenate a table value").
  - overwriting: tolua_reg_live_after_pc (11550) reads on in a line and ignores jumps back: in
    `while g(s, t) do X = "a" .. Y end` the operands overwrite a local that the loop reads again. Or CAT is
    moved below registers that are in use, and the frame of a `__concat` metamethod overwrites them.
  - overtaken: a window moved above the frame leaves behind a call whose base is lower:
    `f(); X = "a" .. ((A == g()) and "x" or "y")` prints "11y" for "ax".
  - torn: `f(); X = "a" .. (("b" .. "c" .. "e") .. "d")`: of an inner CAT whose registers lie only partly in the
    moved range, a part is moved ("attempt to concatenate a table value").
  - carried is the move of a call; it keeps the values, if repacking ends.
* of a call's open results as arguments of another only the first is passed on
  (`FirstResultPassed`); the code does this on purpose.

Also observed, not stated as a property:

* an open call followed by TSETM is accepted by comparing A, but the table in A-1 may
  move away from the results: `f(); local t = {f()}` crashes after conversion.
  `ProtoResults.cfg` with `WithOpen = TRUE` finds it too.
* assigning to an object writes into the prototype that has the key, and every object
  with that prototype sees it.
* `o[1] = x` does nothing and raises nothing when the class of `o` inherits `.seti`
  from a base class and has none of its own, while `o[1]` reads through the inherited
  `.geti`. Assigning to `o.base` a name that has no setter does nothing either.
* with FLAG_INDEX_ERROR off, a static class answers the name itself for a name it has not.
* tolua.getfunction answers nil for a function: its test (2203) is inverted.
* `tolua_beginmodule(NULL)` followed at once by `tolua_endmodule` as the first
  registration reads through a null pointer: `while (len-- >= 0)` (1316) reads one byte before the buffer,
  and there is none.
* tolua_beginpremodule on a nested path that does not exist piles names (`A.B.A.B`);
  the model does the same (`Piled`).
* `error(nil)`, or an error value that is a coroutine, under tolua's traceback hands a null pointer to
  strstr (tolua.c:1906). `Crashes` marks it; `KeepsPromise` says nothing of what is `Gone`.
* tolua_getvec2 and its like push the value at `pos` after the function: a negative position
  is off by one. `HostStack` uses absolute positions.
* tolua_rawnetobj of a table leaves a copy on the stack, tolua_getclassref two values,
  tolua_typename one to three. They are not operations of `HostStack`.
* tolua_toint64 of a text too large saturates without an error, where int64.new raises one.
* NextPowerOfTwo(0) is 0, and beyond 2^32 the low bits are not smeared (2546). `PowersFound`
  is stated from 1 to half the bits.

## 7. What is not modelled

* Vendored libraries (LuaJIT, cjson, luasocket, sproto, lpeg, pb, struct, bit): third-party. Of
  LuaJIT only `luaL_ref`, `luaL_unref` and `lj_tab_len` are modelled, since tolua relies on how they
  choose slots; the C library's strtoll and strtoull and the calls of the Lua API are modelled as
  tolua uses them.
* The catalogue of window patches (4991–11393): case patterns of single games'
  chunks, most of them tied to a prototype index. In `ConvertChunk` each is a step that
  patches, fails or asks for copies.
* Repacking of CALL, CALLT, FORI and ITERC (most of 11570–14422, 14850–15085): chains of calls whose results are arguments
  of others, a catalogue of patterns like the windows. `ProtoRewrite` stops where a prototype is handed over to
  repacking; `Repack` has calls without arguments only, which are never repacked themselves.
* Parsing of chunk headers: success or failure. Debug parts: copied unchanged on a rebuild
  in the code (1086), so line numbers shift.
* A prototype so long that a jump distance leaves its sixteen bits (1136): the code does not
  check, and TLC cannot reach that size; `JumpsArrive` and `NoCopyBypassed` are stated for shorter ones.
* Several Lua states or threads that share the static path buffer, request and error text.
* Contracts of the host: giving a reference back twice, references of nil, a path that is begun and not ended.
* A registration that fails half-way because a value that is not a table is in its place (1690).
* Enums, static classes, preloading of nested types from an index event, peers whose metatables
  form a cycle (the loop at 587 does not end).
* lua_buffer: three elements indexed with `& 3` (2723–2732); out-of-bounds reads are not a state of a model.
* tolua_openlibs, os and math functions: straight-line glue over the Lua API.
* Offline tools: scripts around the converter, no state of the runtime.

The share of the repository's lines that the models stand for is small because nine tenths
of it are vendored, and most of `tolua_fr1_to_fr2.c` is the catalogue of window patches.

## 8. Plan

Done: `RefTable`, `ToluaRefs`, `TabLen`, `HostObjects`, `ClosureErrors`, `ModulePath`,
`ClassEvents`, `HostStack`, `StackPromise`, `Int64`, `MathfPowers`, `ShiftMap`, `PrepareOps`, `Repack`,
`ProtoRewrite`, `InsertCopies`, `ConvertChunk`, and proofs for fifteen of them (section 5).

Left, in this order:

1. `Repack`, the rest: calls with arguments, CALLT, FORI and ITERC, to be composed with `ProtoRewrite`.
2. `ClassEvents`, the rest: enums with their cached items, static classes, nested
   types (composed with `ModulePath`).
3. `ProtoLayout`: the parser's bounds (333–373, 858–941).
4. The rest of a proof of `ValuesKept`, if values can be reasoned about without enumerating programs.
