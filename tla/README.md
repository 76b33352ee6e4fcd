# Verification of the Mun compiler

Mun is a small just-in-time compiler in C. A driver (`src/src/main.c`) takes
the syntax tree of a function, builds a graph of instructions from it, puts
the graph into SSA form, chooses representations, propagates constants,
allocates registers with a linear scan and emits x64 code. This directory
holds TLA+ models of those parts, TLC configurations that check them on small
instances, and proofs for TLAPS.

Nothing in the program runs concurrently, nothing is persisted and nothing is
sent. What is hard here is something else: graphs and lists of pointers that
are rewritten while a loop walks over them, numbers kept from an earlier pass
and trusted by a later one, worklists and iterations that have to end on every
graph, caches into sorted lists that are cut under them, and fields packed
into words. The models are written at the grain where those show: one step is
one iteration of a loop, or one call on a shared structure.

## The system

| part | code | state | operations |
|---|---|---|---|
| syntax tree | `ast.c` | the nodes | constructors, `visit_ast` |
| local scopes, frame layout | `local.c`, `local.h`, `object.c` | scopes, their variables, owner and frame index of each, size of the frame | new scope, add, insert parameter, lookup, `local_scope_alloc_vars`, bit index |
| graph builder | `graph/graph_builder.c` | instructions, the fragment of each visitor, number of temporaries | one visit per kind of node, bind, do, append |
| instructions and uses | `codegen/il_*.c`, `il_value.c` | linked instructions, lists of uses, SSA indices | add and remove a use, bind to another definition, insert, remove |
| block discovery | `graph/graph.c`, `codegen/il_entries.c` | numbers and predecessors of blocks, preorder, postorder, parents, the search stack | `graph_discover_blocks`, run before SSA and again after constant propagation |
| dominators, phis | `graph/graph.c` | dominator tree, frontiers, phis | `compute_dominators`, `insert_phis` |
| liveness | `codegen/ra_liveness.c` with `ra_var_liveness.c`, `ra_ssa_liveness.c` | live-in, live-out and kill vectors | initial sets (a callback), sweeps until nothing changes |
| bit vectors | `bitvec.c`, `bitvec.h` | words | add, remove, union, kill and add, iterator |
| SSA renaming | `graph/graph.c` | the environment, a stack of definitions | one instruction at a time |
| representation selection | `graph/graph.c` | the growing list of instructions | boxes and unboxes in front of users |
| constant propagation | `graph/visitors/constant_propagation.c` | values, two worklists | visits |
| live ranges | `codegen/ra_range.c`, `ra_use.c` | intervals, uses, fingers, siblings | add interval, add use, define, split, advance |
| register allocator | `codegen/ra_allocator.c` | positions, ranges, work list, registers | number, build, scan, spill, evict, resolve |
| locations | `location.c`, `bitfield.h` | words | constructors and decoders |
| assembler | `asm/x64.c`, `asm/core.h`, `asm/il_core.c` | a byte buffer, labels | one function per instruction, bind |
| emitters, driver | `codegen/x64/il_codegen.c`, `main.c` | the bytes of the function | one emitter per instruction, moves |

The parts call one another in one order. The builder gives a graph of two
blocks, an entry and a target: no pass makes a join or a goto, though
discovery, dominators, phis, liveness and the allocator are written for them.
`Discover`, `Liveness` and `LiveRange` therefore take every graph their own
interfaces admit, and `Rename`, `Representations`, `ConstProp` and `Allocator`
take what the builder gives them. Between the passes the graph is shared, with everything
that hangs on it: temporaries numbered by the builder must be the stack depths
that renaming meets, lists of uses filled by renaming are what selection and
propagation walk, SSA indices handed out by three passes index the tables of
the allocator, block numbers of the first discovery survive the second, frame
indices of the scopes become bits in the vectors of the liveness analysis.
What goes wrong there is listed with its lines in `PROJECT.json`, "hazards".

## The modules

Each name below is that of the C function or field where TLA+ allows it, and
the map in `PROJECT.json` gives the lines of every definition. In every module
the section "Plausible slips" holds deliberately wrong variants of its
definitions: put in place of the right one, each makes the property it is
written for fail. They are no part of the model.

- **Discover** (with **MCDiscover**): `graph_discover_blocks`. The stack holds
  pointers to two C locals, of which the second is reused by every push;
  `cell` is what the locals contain, so all stack entries but the first are one
  state, as in the program. Numbers in fresh blocks are garbage. The
  predecessor array of a join has two places and the word behind them is its
  phis field. Actions: `Begin`, `MeetMarked`, `DiscoverBlock`, `Leave`, `Finish`.
- **Dominators**: `compute_dominators` on what the search leaves, as a function
  of the parents and predecessors; `idom` and `parent` are one table, as in the
  program, where the one holds pointers to the words of the other. It is
  compared with the definition of domination.
- **Liveness**: the sweeps of `liveness_analyze`, one block per step, with
  the short circuit that recomputes live-in only if live-out grew. The callback
  that computes the initial sets may give any sets. **LiveSets** is what the
  caller is promised: the least solution of the data flow equations, at once.
- **BitVector**: the words, the shift and mask of an index, and the iterator
  with its shifted copy of a word. **BitSets** is what the analyses take a
  vector for. `Mask` is computed as the code does, in a 32-bit `int`, so that the
  members are classes of indices with one mask.
- **UseList**: `next`, `prev`, `defn` and the heads of the lists of uses, one
  call per step, and the conversion loop of `insert_conversion_for` one
  iteration per step, since it binds away the node it stands on. **UseSets** is
  the abstract view: a set of uses for each definition.
- **Il**: the instructions and the record that is a graph, for the passes
  below. Here a list of uses is a sequence, which UseList justifies.
- **Builder**: both visitors, as functions from a tree to a graph.
- **InitialSets**: what the two liveness analyses start from, as functions of
  the graph: the variables for renaming, the SSA indices for the allocator.
- **Rename**, **Representations**, **ConstProp**: one pass each, over the
  variable `graph` and their own. A step renames an instruction, converts the
  uses of one definition, or makes one visit. A visit to an operation whose
  operands are both constants, one of them no number, fails in `TYPE_GUARD`, and
  the compiler calls `abort`: `Compile` then ends there, in "aborted". The environment of renaming is a
  buffer and a size, since its first words are also the slots of the variables.
- **Allocator**: the register allocator and the emission, over the same graph.
  A step processes one instruction on the way back, one definition of the
  entry, or emits one instruction. The list of instructions by position and the
  list of block infos are built as the code builds them, so that they can be
  out of step.
- **Compile** (with **MCCompile**): the passes one after the other on one
  graph, by INSTANCE, from a tree to bytes. `main.c` selects representations
  before it propagates constants. In that order every operand of an operation
  is an unbox or an operation over unboxes, which the propagation knows nothing
  of, and nothing folds but where selection forgot a conversion. A caller may
  use the two passes in the other order, for which the visitors are written;
  `propagateFirst` covers both.
- **X64**: every emitter of the assembler, from its arguments to the bytes, in
  the widths of the code. **Processor** reads bytes as an x86-64 processor does;
  it is written from the encoding and not from the assembler, and is the one
  module that models nothing under `src/`. **Assembler** (with **MCAssembler**)
  is the buffer with its labels: a call of an emitter, of a jump, or of
  `asm_bind` is a step.
- **LiveRange**: one virtual register. First the allocator's walk from the end
  of the code to its start builds the range, then the linear scan moves
  forward, looks up uses through the cached fingers, and splits. Intervals keep
  the identity of their allocation, so that a finger can be stale. The other
  ranges of the scan are there by what they do to this one: move the scan on,
  probe its register, evict it. `alloc_any_register` tests a word of the
  register's buffer where it means `blocked_registers` (`ra_allocator.c:998`), so
  that as built it passes over every register and only spills; the actions follow
  it for either outcome of that test. A split at a position outside the range,
  which follows a null, is left out. **LiveSplit**
  says what a split is: the positions are shared out, in order, to siblings.
- **Scopes**: scopes, variables, parameters, lookups and the layout of the
  frame, which may be made again after more was declared.
- **Location** (with **MCLocation**): locations as integers, through the
  program's bit fields, each given by the weight of its lowest bit and the
  number of its values; how many values are left for a stack index (2^55 in the
  program) is a constant.
- **LivenessProofs**, **DiscoverProofs**, **UseListProofs**, **LiveRangeProofs**,
  **BitVectorProofs**, **ScopesProofs**, **LocationProofs**, **AssemblerProofs**:
  the theorems about the module each is named after, with their proofs.

## What the runs show

| run | bounds | what is checked |
|---|---|---|
| `liveness_graphs` | 3 blocks, all successor sets up to two, 1 variable, any initial sets | `IterationInv`, the inductive invariant; `EquationsHold` and `LiveIffOnPath` on return, live being what a path without a kill leads to; `Termination`; `ImplementsLiveSets` |
| `discover` | entry, target, 2 joins, every goto graph, any garbage numbers, 2 runs | the mark is exact, preorder is what is reachable, the dominators computed from the parents and predecessors are the dominators (the search leaves chains only), postorder is right on the graphs the builder makes, a second run keeps the numbers, the search ends |
| `discover_phis` | the same | violated: the phis field of a join is overwritten by its first predecessor |
| `discover_stack` | the same | violated: entries of the search stack do not have states of their own |
| `bit_vectors` | 3 vectors of 3 words, 3 indices: 31, whose mask is sign-extended, a pair 32 apart, and an empty word between | `BitVectorInv`: the bits set are those of the members, and a walk meets those so far; `ImplementsBitSets`, as sets of classes of indices with one mask, with the result by which the liveness analysis decides to go on |
| `use_lists` | 3 definitions, 4 values, every order of calls | lists are linked both ways, hold exactly the uses, implement sets; the conversion loop ends |
| `compile` | 591 bodies, up to three levels of operations, stores and loads, three variables, both orders | every instruction computes with what its tree says, or with what a load finds in the word it shares; a temporary is its depth; uses are inputs; indices are apart; the latest use of a value gets the representation it wants; exactly the operations on visible numbers fold, and one on a visible constant that is neither nil nor a number ends the program; live into the block is exactly what it reads of the entry; a body without operations becomes the bytes that return its object, any other loses the allocator; all passes end |
| `live_ranges` | the entry and 2 blocks of up to six positions, a phi move, 2 uses, 2 splits | positions asked for are exactly those covered, and `add_use` does not hang; then shape of intervals and fingers, uses stay with the range that covers them, the register finger answers exactly wherever look ups have moved it, of ranges that are cut and of ranges that keep their register, splitting implements `LiveSplit` |
| `assembler` | see below | what an emitter writes is read back as what was asked for, exactly outside the listed faults; the same for where jumps land and where execution falls through; code is only patched in the field of a label being bound |
| `frame_slots` | 3 variables, 2 names, 3 scopes | visible variables never share a slot or a bit; the frame is as deep as the deepest nest; names mean the innermost declaration |
| `locations` | 16 stack indices, which makes words of 13 bits, 3 registers, 5 slots, 2 addresses, 3 outcomes of the bias | different meanings have different words and read back |
| `location_fpu_hint` | the same | violated: a location that requires an fpu register does not say so |

Each bound is the smallest that has the cases its hazard is about. Three
blocks give a loop, a branch and a join, and a block that is neither
predecessor nor successor of another. Discovery needs four, so that a stack of
three entries shares a state and a second path meets a marked join. Two splits
give three siblings and a finger that has survived one split when the next is
made. Three values on one list are a head, a middle and an end, and a fourth is
for a conversion. Three levels of operations put a conversion in front of
another conversion's user, and an operation below a right operand makes the
stack two deep while something is pending. Three variables are what fits the
smallest piece of heap, of which the environment of a block is one; with them a
load meets its own word below, at and above the top of the stack.

In `assembler` one call of an emitter is tried alone, with registers that have
each special case in both halves (0, 3, 4, 5 and 8, 11, 12, 13), displacements
and immediates on both sides of each width, scales up to 16, and eight contents
of the memory a scaled address is made in. TLC computes with 32 bits, and so
immediates and displacements of this run have no more; `X64` takes those of 64
bits, and the wider ones, object addresses among them, are covered by the proof
(`EncodingsReadBack`) alone. Up to three jumps, calls and runs
of returns then mix with the binding of two labels; the runs (3, 114, 126, 127
bytes) make a backward jump the longest short and the shortest long one. A label
is bound once, and the sign of the lower half of the buffer's address, on which
`asm_bind` depends, is left open.

### Disagreements with what the code says of itself

- `join_add_predecessor` (`codegen/il_entries.c:183`) looks for the block itself
  instead of a free place and writes behind the array, over the field that
  `il_defs.h:106` iterates as a buffer of phis (`PhisFieldHoldsNoBlock`).
- `graph_discover_blocks` (`graph/graph.c:382`) pushes the address of one local
  over and over, where the comment at line 363 says the stack is one of
  traversal states (`OneStatePerStackEntry`). What survives of the search is
  proved below: the preorder is right for every graph, the postorder only for
  graphs of two blocks.
- `loc_hint_rx` ("hint requires fpu register") stores a policy that the 3-bit
  field cannot hold; it reads back as none (`FpuHintIsRead`).

The first two need a join or a third block, which the builder does not make
today. The third concerns both operands of every binary operation, the input of
every box and the output of every unbox.

### What is right only in part

Some properties are stated as an equivalence, because the code is right in some
cases and wrong in others, and both are worth keeping apart. None of the cases
occurs in the program that `main.c` runs, which returns a constant.

- `EncodingsAreExact`: a move of a double at an address has no REX byte when one
  of its registers is above 7; a scaled address with index RSP, with scale 16,
  or with an index above 7, whose bit is set as the one of the operand size, is
  another address, and what its memory held before is taken over; an immediate
  goes through R11 even where R11 is the other operand; and of a displacement
  wider than 32 bits, which an address takes as an `asm_imm`, the lower half is
  left (`x64.c:181`, `189`).
- `JumpsLandExactly`, `FallsThroughExactly`: a call to a bound label is off by
  one; a short conditional jump has the low byte of its offset for an opcode; a
  near jump ahead emits nothing; of several jumps to a label ahead only the last
  is patched, since `asm_bind` reads the address of a field for its content
  (and, where this address is positive as an `int`, goes on to write there);
  long and linked jumps have displacements of 8 bytes, of which the processor
  executes the last four.
- `InputsAreMeant`: a load reads the word of its variable, in which the stack
  may have anything, and the last load of a variable empties the word even when
  an operand is pending there. Which load is the last depends, from the third
  variable on, on the loads that come later.
- `RepresentationsAgree`: with loads a value can have several users, and only
  the latest that wants another representation gets it.
- `BitVectorInv`, `ImplementsBitSets`: a vector is a set of indices only while
  they are below 31 in their word. The mask is a shifted 32-bit `int`: indices
  32 apart are one, and index 31 brings the 32 above it into every walk. It
  takes a function of more than 31 temporaries or values to get there.
- `CodeReturnsMeant`: every body with an operation has an unbox of a constant
  or an operation on it, for which a range is split at a block info that is not
  in the list, or a move is put behind what is no instruction.

### Fairness

The program has one thread and nothing preempts it: whenever a step of the
current function is possible, it is taken. That is weak fairness of the
next-state relation in `Liveness`, `Discover` and `Compile`. In `Discover` it
includes that the pipeline makes its second call, and in `UseList`, where calls
are the environment's choice, only the steps of a loop that has begun are fair.
The safety runs assume none.

Deadlock is switched off where the program ends or a bound stops it: after the
last return, the last run or the last split. Bit vectors and locations can
always be used once more, and there it is checked.

## What is proved

For every value of the constants, from the assumptions named in the modules:

- `LivenessProofs` (assuming `BlockCount \in Nat`).
  `IterationCorrect`: `Spec => []IterationInv`. The two facts one wants, that
  the equations hold and that the solution is the least, hold only at the end,
  so the invariant says what makes them come true: live-in is at every moment
  what the transfer function makes of live-out, although line 38 skips the
  computation (`LiveInFollowsLiveOut`); while the flag is down, the blocks
  already visited still cover their successors (`UnchangedSweepIsSettled`);
  live-out holds nothing that no successor has; and live-in is inside every
  assignment that admits the flow (`BelowEveryAdmissible`). The first two make
  the result a solution, the others make it the least. From it follow
  `AnalysisSolvesEquations` and `Refinement`, `Spec => ImplementsLiveSets`: the
  callback is the abstract `Pose`, the last return is `Deliver`, everything
  between is a stutter.
  `LivenessIsExact`: the least solution is what a path without a kill leads to.
  A path that repeats a block can be cut short, so that one of at most as many
  blocks as there are will do; conversely, among the blocks of such a path that
  were not live-in the one nearest its end would refute the equations.
- `DiscoverProofs` (assuming that the entry, the target and the joins are
  different and not NULL). `SearchCorrect`: `Spec => []SearchInv`, for any
  number of joins, any garbage and any number of runs. `MarksAreExact`: the mark
  is exact although it is read from memory nobody initialised; the argument is
  that the preorder lists each block at its number (`PreorderNumbersBlocks`).
  `PreorderIsExact`: the shared stack state loses no block. That needs to know
  that only the top of the stack still has a successor to visit
  (`StackShape`, `OnlyTopIsPending`), which is where it matters that a block has
  at most one successor. `RerunsKeepNumbers`: a second discovery meets the
  blocks along the same chain of successors (`Chained`), so it writes every
  number with the value it has (`NumbersSettled`). `PostorderCorrect`: a graph
  of the builder has one block besides the entry, and `StagesOfBuiltGraphs` says
  what stack and postorder are at each of the few stages such a search has.
  `DominatorsAreRight`: the found blocks are a chain, each the child of the one
  before it, and no join has a predecessor where predecessors are counted
  (`TablesOfChain`). So the target alone lowers its semidominator, no path is
  compressed, and the block before it dominates each at once. `compress_path` is
  never called on such graphs; of graphs with more than one successor a block,
  which no pass makes, the theorem says nothing.
- `UseListProofs` (assuming that NULL is no value and that there is a
  definition). `HeapCorrect`: `Spec => []HeapInv`. Lists are linked both ways,
  a linked value is reached from the head of its definition, every list ends,
  and a conversion loop stands on the list it walks. What a list holds is not
  computed by recursion: it is the smallest set that has the head and is closed
  under `next`, so that a value is shown to be on a list by any closed set. From
  it follow `ListsCorrect` and `UseListsImplementSets`, `Spec =>
  ImplementsUseSets`.
- `LiveRangeProofs` (assuming at least one block, blocks of an even length above
  four, and a natural number of phis). `RangesCorrect`: `Spec => []RangeInv`.
  `live_range_add_interval` drops an interval that begins behind the first of
  the list, and puts one that overlaps it in front, overlapping. Neither happens,
  because the list is always `Built`: its intervals begin at or behind the end
  of the block at hand, but the first may begin at the start of that block. While
  the range is scanned the siblings are a `Chain`, one behind the other and each
  with its own uses. `Scanned` says where the fingers of a scheduled
  sibling may stand. The pending interval is the place at which a search from the
  front would end. The register finger is wherever the last look up left it: one
  for the range itself (`alloc_any_register`), one that probed its register for
  another range and let it keep it (`update_free_until`), or none yet; on one of
  the sibling's own uses, behind none that a look up from the scan on could still
  ask for (`Leads`). A split leaves of one sibling two `Halves`, with every
  position and every use in one of them.
  `UsesStay`, `RegisterFingersExact`, `CoversExactly` and `AddUseAlwaysReturns`
  follow from it, and `LiveRangesShareOut`, `Spec => ImplementsLiveSplit`: a
  call of the builder is the growth of the one piece there is, a split a cut.
- `BitVectorProofs` (assuming at least one word, and indices within the
  vector). `VectorsCorrect`: `Spec => []BitVectorInv`, and
  `VectorsImplementSets`, `Spec => ImplementsBitSets`. A word holds with each bit
  the whole mask of the index it stands for (`WholeWords`), also where the mask
  of index 31 is sign-extended over the upper half; that makes union and
  difference of words those of classes of indices. `Walked` says what the
  iterator has met and what its shifted copy of a word still holds, across
  empty words and the last.
- `ScopesProofs` (assuming finitely many variables and at least one scope).
  `ScopesCorrect`, `SlotsAlwaysApart`, `FrameAlwaysTight` and `NamesStayLexical`
  rest on `IInv`: the scopes are well `Shaped` (a scope is made after its
  parent, a name occurs in it once, each variable has an owner around every
  scope that lists it), the frame is `LaidOut` as the code leaves it whenever
  nothing was declared since, and `Typed`. `frame_slots` was run with `IInv`
  before it was proved. What is walked up or down the tree has no induction to
  go with it here: since parents come first, a fact about every scope is shown
  at the first that would not have it. The frame index falls on the way in, a
  scope's own share is exactly its locals, and one nest uses up the frame.

- `AssemblerProofs` (assuming that displacements and immediates have 64 bits, as
  `asm_imm` has, that registers and conditions have four bits, that the
  memory of an operand holds the bits of a byte, and that no label is what
  stands for none).
  `EntriesAndLabelsHold`, `EmittedCodeStays`, `JumpsFallThroughAsEmitted` and
  `JumpsLandInAddressableCode` rest on `IInv`: the code is bytes (`TypeOK`), for
  which every emitter is shown to give some; the entries lie in order (`Laid`);
  a label that is not bound leads to the end of the last jump that links to it,
  a bound one into the code (`LabelsPlaced`); and every jump still has the bytes
  it was emitted with, opcode and field, or, where it is the last one to a label
  that was bound, the distance to it (`JumpsPlaced`). The last two theorems then
  go through the decoder: of such bytes `Processor` reads such a jump, and of a
  short one with a wrong opcode never a conditional jump (`ReadJump`,
  `ReadShort`), and the four bytes of a field make its number up again
  exactly where it has 32 bits (`KeptIs`, `KeptWhole`). That holds while the length of the code fits an int
  (`Addressable`), which `JumpsLandInAddressableCode` therefore assumes; a
  buffer of more than 2^31 - 1 bytes has no 32-bit displacements. `IInv` was
  checked with TLC at four calls, one more than the run makes, before it was
  proved.
  `EncodingsReadBack` is about the calls without a label: for any registers,
  bases, displacements and immediates of 64 bits and any bits in the memory of a
  scaled address, the bytes are listed as what the call asks for, except exactly
  where the call is marked wrong. Eight bytes make an immediate up again;
  a displacement has only four, and where it is wider they are those of another
  number, so that the call is marked wrong (`IsCut`). Such a call stands alone in the code
  (`PlainAlone`), so what is to be shown is a fact about its bytes (`IsRight`).
  It is shown in layers. An operand is read back wherever its bytes stand, by
  mod, SIB byte and displacement (`IsOperand`, `AddressOperand`); with prefix and
  opcode before it, an instruction is (`IsReadAs`: in any code, at any place).
  `Listing` is a recursive function over the rest of the code; that it exists is
  shown from the end of the code towards its start (`ListingsExist`), and then
  it lists one, two or four instructions that follow each other. `Fused` undoes
  the detour of an immediate over R11. On the other side, two instructions are
  not the one that was asked for, and a rex byte with a bit too many, too few or
  in the wrong place makes another instruction, or none.
- `LocationProofs` (assuming that there is a stack index, that slots are within
  half of the indices on either side of zero, that register numbers have four
  bits, and that addresses are multiples of 16 below the size of a word).
  `LocationsCorrect`: `Spec => []WordsMeanOne`, for a word of any size and every
  outcome of the bias. A location is always the word of what it was last set to
  (`IInv`). Such a word reads back by its fields (`ReadsAs`): nothing but a stack
  index can be too large for its field, and what is shifted out of it leaves the
  other fields alone (`ShiftedOut`). Two slots with the same index differ by a
  multiple of the number of indices, so they are the same (`SlotsDiffer`).

`IterationInv`, `HeapInv`, `RangeInv` and `BitVectorInv` are checked by the runs as
well; what the proofs add to them is named above. The proofs assume what the
modules assume of their constants, which the runs evaluate, and nothing else.

Left to TLC:

- that analysis, search, conversion and compilation end (`Termination`,
  `ConversionEnds`, `CompileEnds`): the prover has no fairness and no ENABLED;
- everything in `Compile` and the modules it composes. `Builder` walks a tree by
  recursive operators, which take a module that reaches them out of the
  prover's reach, and the property of every pass is stated against the tree.

## What is not modelled

- Sets of 32 indices and more outside `BitVector`: the other modules hold sets
  of indices, which is what a vector is below index 31. `BitVector` says what it
  is above (see "What is right only in part").
- More than three variables: their slots lie behind the piece of heap of the
  environment (`StackLocalsAssumption`), over whatever is there.
- Bodies that do not end in a return: the last statement may be a store, and
  removing it follows the null behind it.
- Phis and the dominance frontiers they are placed by. Joins count no
  predecessor, so all frontiers are empty, and no variable is ever killed and
  live out of a block, so that the work list of `insert_phis` starts empty.
- The allocator behind the first split: the work list, the choice of a
  register, spilling, eviction and the resolution of control flow. Every
  instruction is a definition, whose output the allocator leaves alone, so no
  range gets on the work list before `split_between` has read what is not there;
  what comes after it is not behaviour of the source.
- The emitters of operations, boxes, loads and stores, which come behind that,
  and native calls, which no node of the syntax tree makes.
- `bit_vector_set_all` and `emit_rex_rb_rx`, which nothing calls; the copy into
  executable memory; the ARM assembler, which is not built; object buffers,
  which are sequences in every module but `Rename`; printing.

## Plan

Done: discovery, dominators, liveness; live ranges; use lists; scopes;
locations; the passes from tree to bytes, with variables; bit vectors; the
assembler. What the builder's graphs reach is modelled.

Also done: the proofs about liveness, discovery, use lists, live ranges, bit
vectors, scopes, locations and the assembler, down to the last invariant that
the runs of those modules check.

Left:

1. The stack discipline behind `InputsAreMeant`, stated without the builder.
2. The passes of `Compile` that are no recursion over trees, renaming and
   selection, for any graph rather than for those of the builder.

## Running

    tlc -config Compile.cfg MCCompile        # one run; the others likewise
    tlapm LiveRangeProofs.tla                # one module of proofs; the others likewise

Runs and modules are listed in `PROJECT.json`. The longest run takes about
a minute and a half.
