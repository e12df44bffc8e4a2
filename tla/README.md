# A model of Hylian

Hylian is a compiled, single-threaded language with a C-like syntax, classes,
generics and closures. The compiler (`compiler/`, C with flex and bison) lowers
programs to a stack of intermediate representations; the back end (`hygen/`)
optimizes them, allocates registers, encodes x86-64 and writes ELF objects. The
standard library (`stdlib/`, Hylian) brings its own memory management and talks
to the kernel by system calls.

This directory holds TLA+ models of the parts of it where a mistake is hard to
see and hard to test, TLC configurations that check them on small instances, and
proofs, checked by TLAPS, that hold for every instance. Sequential programs have
few interleavings; what makes this code hard is long sequences of calls that
have to keep two data structures in agreement (the arena, the scan, the hash
map), orders of moves and of visits (parallel moves, the dataflow), a dozen
passes that each have to leave the meaning of a program alone whatever the
others made of it (the optimizer), and in one place real concurrency: a child
process at the other end of a pipe.

## Inventory

| part | code | state | operations | hard because | correct when |
|---|---|---|---|---|---|
| arena allocator | `stdlib/mem.hy` | a slot per running function, chains of blocks, the pool, headers | `arena_init`, `arena_alloc`, `arena_free`, allocation for the process | blocks move between owners, the pool and the kernel; memory is zero by convention | objects are disjoint, zero when new, and end with their function |
| lowering | `compiler/lower.c`, `compiler/ir_to_mir.c` | labels of the loops around, defers and their flags, temporaries | a statement, an expression, prologue and every return | every path out of a function | the code does what the text means; `arena_free` and the defers that were passed run once per return |
| liveness and intervals | `hyregalloc.c` to line 427 | `live_in`, `live_out`, `changed` | a visit of a block | loops; rounds that end | liveness is exact, intervals cover it |
| linear scan | `hyregalloc.c` 429-552 | active intervals, free registers, places, masks | one iteration per interval | evictions, hints, what calls destroy | overlapping values never share a register |
| parallel moves | `lower_x64.c` 702-761 | the moves left, the registers | one move, one rotation | cycles, fans, order | all destinations as if moved at once |
| x86-64 lowering | `lower_x64.c`, `encode_x64.c` | code buffer, fixups, frame | one case per MIR instruction | frame layout, jumps patched later | the frame holds every slot; jumps land |
| MIR optimizer | `libhyopt/src/hyopt.c` | the functions; per pass a control-flow graph and tables of facts | some twenty passes, in rounds; inlining, callees first | facts that go stale in loops; passes that meet what others left | the program means the same after each of them |
| IR and its optimizer | `ir.c`, `opt.c` | instruction lists | translation, removal of dead code | indices that move | the same |
| removal of unused functions | `opt.c` 574-694 | spans, stack of the closure, instructions | mark, compact | runs before later passes add calls; knows functions by name | what the user's code leads to stays, the rest goes |
| generics | `mono.c` | list of instances | instantiate until nothing is new | recursion between instances | each instance once; an end |
| module loader | `loader.c`, `compiler.c` 26-217 | paths seen, calls under way | load, include, merge | cycles, diamonds, marks that pass through merges | each file that is reached once; marked by where it came from |
| driver | `compiler.c` from line 220 | the program, its IR | load, lower, prune, emit | what one phase notes, a later one relies on | the user's functions stay, and the result links |
| parser, type checker | `parser.y`, `lexer.l`, `typecheck.c` | scopes | a walk of the tree | size | types agree |
| object writer | `libhyobj` | sections, symbols | append, write | layout arithmetic | offsets agree |
| running commands | `stdlib/os/exec.hy` | descriptors, child, buffer | `spawn`, `run`, `output`, `start` | two processes, a pipe, a buffer that grows | everything captured, nothing left behind, no hang |
| std.process | `runtime/std/process.hy` | the same, two pipes | `run`, `output`, `status` | fixed buffers, two pipes in a row | the same |
| hash map | `stdlib/hashmap.hy` | entries, index | `put`, `get`, `remove`, `rebuild` | probe chains after removals and growth | it is an ordered map |
| arrays, word map | `array.hy`, `map.hy` | buffer, length, capacity | push, insert, remove | growth | a sequence, a map |
| HTTP, TLS, DNS | `http.hy`, `https.hy`, `tls.hy`, `dns.hy`, `net.hy` | connection, partial input | request, read, redirect, retry | input in pieces, timeouts | whole answers, bounded retries |
| inflate, tar, strings, time, math | `stdlib/` | position in the input | decode, format | - | pure functions |
| language server | `lsp/src` | open documents, diagnostics | one handler per request | edits between request and answer | answers match the latest text |
| platform runtimes | `runtime/platform`, `runtime/std` | - | entry, system calls | - | thin wrappers |

How they meet: the loader marks what came from an include, the lowering passes
the marks on as names, and the pruning removes by name; the compiler wraps every function that allocates in calls of the
arena (lower.c -> mem.hy); the optimizer has to leave no parameter that nobody
reads, since the back end fetches all of them at once; the allocator hands one place per virtual register to
the lowering (`RegAllocResult`), which turns calls and parameters into lists of
parallel moves; everything at run time that is made with `new`, the library's
hash map, arrays and commands included, lives in the arena.

The hazards of this code, each at its line, are listed in `PROJECT.json` with
the properties that watch them.

## Modules

    ArenaHeap <--implements-- Arena <-- MCArena, ArenaProofs
    LinearScan <-- MCLinearScan, LinearScanProofs
    Liveness <-- MCLiveness
    Liveness + LinearScan (INSTANCE) --> RegAlloc <-- MCRegAlloc (with MCLiveness),
                                                     RegAllocProofs
    ParMoves <-- MCParMoves, ParMovesProofs
    Capture <-- MCCapture, CaptureProofs
    OrderedMap <--implements-- HashMap <-- MCHashMap, HashMapProofs
    Strip <-- MCStrip
    Includes + Strip (EXTENDS) --> Frontend <-- MCFrontend, FrontendProofs
    Schedule <-- ScheduleProofs
    Mir --> Lower;  Mir --> ScalarPasses --> LoopPasses
    Lower + LoopPasses + Schedule (EXTENDS) --> HyOpt <-- MCHyOpt
    Descent <-- CaptureProofs, FrontendProofs, ParMovesProofs, RegAllocProofs,
                ScheduleProofs

An operator whose comment says *Mutant* is a plausible bug: a variant of the
definition that follows it. It is no part of the specification. For each
property one such variant, put in place of the definition, makes the property
fail; the table is in `PROJECT.json`.

### Arena: `new` and returning

`Arena.tla` models mem.hy together with the protocol that lower.c wraps around
it. The slot `__arena__` of the d-th running function is `chain[d]`, a sequence
of blocks, head first; the process-lifetime slot MULTI_ARENA is `chain[0]`. The
header of a block is `used` and `cap`, its content `dirty`, the set of words
that are not zero. The actions are `Enter` (prologue, arena_init), `New` and
`NewForProcess` (arena_alloc in its three ways: the head has room, there is no
head, the head is full; a block comes off the pool or from mmap), `Write` (the
program stores in an object), `Return` and then one `FreeBlock` per round of
arena_free's loop, `FreeDone` at its end. Sizes are words: everything mem.hy
adds up is a multiple of 8.

`ArenaHeap.tla` says what this is for: objects are sets of words nobody else
holds, zero when new, gone when their function returns. The refinement hides
chains, pool and headers, and the time arena_free takes.

### Liveness, LinearScan, RegAlloc: the register allocator

`Liveness.tla` transcribes what an instruction reads and writes, the blocks and
their successors, and models the dataflow as one action per visit of a block,
from the last block to the first, in rounds. The intervals are operators on its
result. `LinearScan.tla` has one action per outcome of an iteration: `Assign`,
`Evict`, `SpillCurrent`. `density` is compared by cross-multiplication. Among
equals the code takes what comes first in arrays whose order is an accident of
swaps and of an unstable sort; the model takes any. `RegAlloc.tla` composes the
two, as regalloc_run does, and then runs the function on the result, keeping
track of the values that are still in their place: a call destroys the
registers that do not survive calls, an instruction those of its clobber mask,
and a result whatever was in its register. A branch goes either way.

### ParMoves: arguments and parameters

`ParMoves.tla` is emit_par_moves, one action per loop iteration, with the effect
of the emitted instruction on the registers. Its input is a list as
emit_call_simple and the GETPARAM case of x64_lower_func build it: different
destinations, rax on neither side, no memory slot on both. Every place starts
out holding its own name.

### Capture: running commands

`Capture.tla` has a parent, which runs Cmd.output, Cmd.run with its stdout on a
pipe, or spawn, and a child, which writes and ends in one of the ways a process
can. The pipe, fork, wait4 and the child are the kernel's or a stranger's and
are modelled from how exec.hy uses them: both ends are inherited, a write waits
for room, a read waits for data or for the last writer to go. pipe, fork, read,
wait4 and exec may fail (`PipeFails`, `ForkFails`, `ReadFails`, `WaitFails`,
`ExecFails`), and a running child may be killed; `faults` notes which calls of
the parent did. The child keeps the read end of the pipe as well as the write
end, so that a write never finds the pipe without a reader and SIGPIPE does not
occur.

### HashMap

`HashMap.tla` keeps entries and index as the class does. put, get and remove are
one action each, but for the loop that refills the index, which is one action
per entry; the map answers no call meanwhile. The hash function is any of a set.
`OrderedMap.tla` is the same map without an index.

### Includes, Strip, Frontend: what becomes part of a program

`Includes.tla` is compile_file with its recursion as an explicit `stack` of
calls, each with the include lines it has still to resolve and what it has
merged so far. `visited` is the array of that name; `calling` is the path that
compile_file is about to be called with. `Refuse` is a file that is known, cannot
be read, or has errors the parser does not recover from; one with errors it does
recover from is merged all the same, before main gives up (compiler.c:279), and
is not modelled: either way there is no program. Include lines are given by
their kind and the places they are looked for at; parsing is a table from files
to include lines. All the declarations of a file are one, with the mark
`from_include`.

`Strip.tla` is opt_strip_unreachable: the roots, the stack of the closure, the
scan of one function, one instruction per step, the compaction. A function is
its name and the instructions that mention other functions; what ir_to_mir makes
of them later (a `new` calls the constructor) is in `Refers`, what the pass
thinks of them in `Target`.

`Frontend.tla` runs loading, the marking that lower_program does, and pruning
one after the other, as main does, on files with functions in them.

### Mir, Lower, ScalarPasses, LoopPasses, Schedule, HyOpt: what a program means

`Mir.tla` is the machine IR (hymir.h): what an instruction reads, writes and
does, blocks, edges and liveness as hyopt.c computes them, and a machine that
executes a module of functions. What can be observed of a run is the calls of
functions outside the module with their arguments, in order, the value that is
returned, the memory that is left, and a fault. Outside functions answer from a
table and change all memory, so that a value may not be kept across them.

`Lower.tla` has two halves. The first is the lowering: conditions by jumps,
loops with the targets of break and continue, switch, defers with a flag each
that are emitted again before every return, bounds-checked array accesses. The
second, from `Evaluate` to `Meant`, is the reference: what such statements
mean by docs/language/syntax.md, as a recursive evaluation of the text with no
code in between.

`ScalarPasses.tla` and `LoopPasses.tla` hold one operator from code to code for
every pass that is modelled. The bit sets of the C code are sets, its worklists
fixed points (`OnAllPaths` is the forward analysis that copy_prop_df and gcse
share), and where the code takes the first of several, so does the model,
because what comes out has to be the same code.

`Schedule.tla` drives them, whatever they are: they are its constants. After
`LowerProgram` the search of the call graph, cg_visit, with its recursion as the
explicit stack `visits` (`VisitRoot`, `FollowCall`, `LeaveFunction`), finds an
order, callees first, and the functions that close a cycle. Then, in that
order, each function goes through `InlineCalls`, the passes of hyopt_func
(`OncePass`), each followed by the rounds of scalar_fixpoint (`ScalarPass`), and
`SelfInline` when it calls itself; `info` is what fn_info last said of it. One
step is one pass over one function, so that a property of every state or step
is one of every pass. `passOff` is what HYLIAN_OPT_OFF switches off: other
passes then meet code they do not usually see. `HyOpt.tla` holds inlining and
fn_info, puts lowering and passes in their places (HyOpt.cfg names them), and
states what the whole is for.

hyopt.c:3723 says that members of a cycle are flagged. Only the two ends of the
call that closes it are: in the program `Circle`, f and h, but not g between
them, which is expanded in f like any other finished function. Nothing
breaks, since what is expanded is finished either way; `CalleesFirst` states
what the code does.

The operators were compared with the program: the final code of the functions
of MCHyOpt, and of some two hundred random ones, was put next to what hyopt.c
makes of the same MIR (with the passes that are not modelled switched off), and
is the same up to the names of registers.

## Runs

| run | instance | shows |
|---|---|---|
| `Arena.cfg` | 3 mappings, blocks of 2 words, pool of 1, depth 2, objects of half a block, a whole one and more | the invariants below, and that mem.hy implements ArenaHeap |
| `LinearScan.cfg` | all lists of 4 intervals over 3 positions, 2 registers, one of which survives calls, hints and partners | the scan's invariants |
| `RegAlloc.cfg` | a loop, a nest of two loops, a diamond, two returns with dead code between, each with 3 holes for any of 7 instructions, on 3 registers, run along every path | exact liveness, intervals that cover it; reads find what was written; parameters received at once have homes apart; the allocator ends |
| `ParMoves.cfg` | all lists of 4 moves from 5 registers, a slot and a constant | moves happen at once; the loops end |
| `Capture.cfg` | pipe of 3, buffer of 3 that doubles twice, up to 9 bytes | all is captured, nothing leaks, nobody hangs, but for what a failed read or wait4 spoils |
| `HashMap.cfg` | 3 keys, hashes {0, 1, 3, 7}, 2 slots that become 4 and 8 | the index finds the entries; it is an ordered map |
| `Strip.cfg` | three functions, two of which may have one name, with up to two uses of functions each; four sets of names from includes | exactly what is reachable stays; nothing overruns; an end |
| `Frontend.cfg` | a program and two modules with up to two includes each, of each other, themselves, a std module, a vendor's or nothing; one may have a syntax error; their functions call each other's | every file that is reached is in the program, once; loading ends; the user's functions stay, what is kept links |
| `HyOpt.cfg` | eight programs: bounds checks, conditions, a local array, calls, ways to leave loops, switch, recursion, three functions in a circle; all passes on, and each of fifteen off | after the lowering and after every pass the module does what the text means, is well formed and reads nothing undefined; what is done has no dead parameters; callees come before callers, and what is known of a finished function is true of it |
| `CaptureStderr.cfg`, `FrontendTwice.cfg`, `SelfInline.cfg` | as above; a program whose path has two spellings; a conditional in a function that calls itself | a comment that the code does not keep |

Why these bounds are enough to be of interest. In the arena three blocks let two
functions and the pool each hold one while the next is wanted; with a pool of
one, recycling and unmapping both happen. Four intervals are what an eviction
after an expiry with a survivor takes. Four moves make two cycles of two, a
cycle of three with a fan, and a chain into a cycle; five registers leave one
that is only read. The pipe is smaller than the buffer and than the output, so
that writer and reader each have to wait, and the buffer grows while the child
runs. Two slots and three keys make the index wrap around, collide, grow twice
and shrink its content by removals. Three files make a cycle, a diamond and a
cycle behind a diamond; three functions make recursion through another function,
a function that is called twice, and a gap in the middle of the array.

The optimizer cannot be asked about all programs; the eight were chosen so that
every pass changes something in one of them, and the arguments so that each way
through them is taken. Integers have 16 bits
(`Width`), so that the few numbers that matter (indices, addresses, scales)
do not wrap by accident and TLC's own integers never overflow. `Fuel` is more
than any of the runs takes.

`MaxDepth` and `Blocks` (Arena), `MaxSize` (Capture), `Fuel` (HyOpt) are bounds
of the models; `IncludesAssumption` keeps the files within MAX_VISITED, beyond
which the code forgets them. ARENA_BLOCK_SIZE, ARENA_POOL_MAX, the pipe's and
the buffer's size, `MaxDefers` and `MaxLoopDepth` are the code's constants made
small. Deadlock is not checked in the runs of algorithms
and calls that come to an end, nor for the hash map, whose state space is
bounded by its three keys; a program that uses the arena never has to stop.

### Fairness

The dataflow, the allocator, emit_par_moves, the loading and the pruning are
loops of a sequential program; that they go on is weak fairness of their next
step. In Capture, parent
and child are two processes and the kernel runs both: weak fairness of `Parent`,
the steps in which the parent's calls succeed, and of `Child`, the child's own
steps. Failing calls (`ParentFails`) and signals (`Killed`) may come at any time
or never and are under no fairness: a child that is blocked on a full pipe may
stay blocked for ever. Run returns only where the child does not fill the pipe
(`RunReturns`): beyond it the two wait for each other, as the comment at
exec.hy:378 warns, and without `size <= PipeSize` TLC shows that behaviour. So
it does for `OutputReturns` if output waits before it drains the pipe
(`WaitUndrained`), and if a failed read is not excepted. The optimizer has no fairness: no run asks it for an end, and that
it has one is a theorem (`Ends` of ScheduleProofs).

### What the violations say

- `StderrAsAsked`: Cmd.output promises that stderr goes where stderr_fd says,
  and does not look at the field.
- `UserCodeStays`: files are known by the spelling of their path, included
  functions by their name. A program given as `main.hy`, one of whose modules
  includes it, is loaded once more as `./main.hy`; its own functions are then
  among the names that came from includes, and are removed.
- `MeansTheSame`, in `SelfInline.cfg`: if-conversion makes both arms of a
  conditional run and gives new names only to what is live where they meet
  (copy_arm, hyopt.c:2394). What the first arm writes otherwise, the second one
  may read. In the first run over a function a nested conditional is in the way:
  the inner one becomes a select, after the outer one has been looked at. Once
  the function has been expanded into itself and is optimized again, the outer
  one is convertible, and the program computes something else than its text.

Other places were seen to differ from what is written about them, or to be
wrong, while they were modelled, and have no run of their own:

- hyregalloc.c:341 says that a move whose two values share a register vanishes.
  The intervals of the two share the position of the move and expiry is strict
  (483), so that the register of a partner that dies there is never free yet.
- docs/stdlib/mem.md:14 says that arena_init allocates the first block, which
  arena_alloc does (`Enter`, `New`); mem.hy:32 and docs/stdlib/mem.md:26 call
  the chain of blocks oldest-to-newest, and it runs the other way.
- A failed read ends the loop of _capture_resolved like the end of the pipe
  (exec.hy:504): what was read so far is returned as if it were all
  (`CapturedAll`). The parent then waits for a child that nobody drains; once the
  pipe is full both wait for ever (`Stuck` in `OutputReturns`), since the child
  has inherited the read end and is not killed by SIGPIPE. A failed wait4
  (exec.hy:60) returns -1 and leaves the child unreaped (`NothingLeaks`).
- exec.hy:122 promises -1 from spawn when exec fails, and it returns the child's
  127.
- opt.h:32 promises to keep what any chain of calls reaches, and a function of
  an include that only an asm block calls (miniasm.c:341) is removed.
- lower.c: the 33rd defer of a function is dropped (800), as is one inside the
  body of another, which nothing collects; a `return` in the body of a defer
  returns without the older ones (828).
- local_pass lists the copies of a block in an array of as many entries as there
  are registers (hyopt.c:1090, 1253), and a block that copies into the same
  ones repeatedly writes past it.
- copy_arm (hyopt.c:2385) hands for_each_use a pointer to its table of new names
  and later lets the table grow (2394): when realloc moves it, the uses that
  follow are looked up in memory that was freed. `CopyArm` renames as if the
  pointer were kept up to date.

## Proofs

TLAPS checks every proof; the constants are arbitrary, within the assumptions
named in the modules.

**`ArenaProofs`** (assuming `ArenaAssumption`: sizes are positive, the block size
is positive, the pool limit is a natural number). The inductive invariant `IInv`
joins the invariants of the run with what they need of each other: that the pool
and the chains partition the mapped blocks (`OneHomePerBlock`) makes a block
that is popped nobody else's; that a pooled block is empty (`PoolIsClean`) lets
the first allocation bump from its header; that unused memory is zero
(`UnusedIsZero`) is kept by recycling because a dirty word lies below `used`.
Lemmas about pushing and popping lists without repetitions come first, then one
lemma per way a block changes hands, then one step per action. From it:
`OneHome`, `Disjointness`, `ZeroedMemory`, `PoolInStep` (the pool's counter), and
`Refinement`: every step of Arena is a step of ArenaHeap or changes nothing
there.

**`LinearScanProofs`** (assuming `ScanAssumption`: the intervals come sorted by
start, every register has a rank). `NoTwoInOneRegister` is not inductive: it
says nothing of intervals that are over and of those still to come. The
strengthening (`Settled` and its neighbours in the module) says that whoever
holds a register either occupies it now or ended before every interval that is
still to come. Expiry keeps it because the list is sorted. From it:
`Interference`, `Clobbers`, `Bookkeeping` (spill slots and registers), `Saved`
(the prologue's mask).

**`ParMovesProofs`** (assuming `MovesAssumption`: a list as its callers build it).
`AtOnce` speaks of the end only. The inductive invariant says what holds on the
way: rotations rename registers, to
registers, and nothing else (`OnlyRegistersRenamed`); every source that is still
wanted is where its move looks for it (`SourcesWait`); a move that is done has
delivered (`DoneIsMoved`) and what is nobody's destination is untouched
(`OthersKept`); the loops come one after the other and each leaves nothing behind
(`StoresFirst`, `LoadsLast`); and a pass that has emitted nothing has met blocked
moves only (`StuckMeansBlocked`). When all are blocked, the moves that are left
form cycles, since an injection of a finite set into itself is onto
(`OnlyCycles`): so an exchange of two registers always puts one value where it
belongs and another where it is still wanted. From it:
`NothingLost` and `MovedAtOnce`.

**`CaptureProofs`** (assuming `CaptureAssumption`: a pipe holds at least a byte,
the buffer begins with more than one, exit codes and signals are in their
ranges). `InOrder` says that buffer and pipe together are what was written, in
order; `RoomLeft` that a byte is free whenever a read begins, so that a read of
nothing is never taken for the end (`SpaceFacts`); `HeldEnds` who holds the ends
of the pipe at each point of the call, from which it follows that the parent
sees the end only when the child is gone and the pipe is empty, unless a read
has failed; `FaultsOfCall` which calls can have failed by then; `ChildOfCall`
and `StatusTells` that whoever is reaped is the call's own child and how its
status word tells its fate. From it: `Captured`, `Terminated`, `CleanedUp`, and
`NobodyWaits`: before the call has returned, one of the two can go on, in output
whatever the child writes, unless a read has failed, in run if the pipe holds all
of it. What lets a process go on is written out (`ParentMay`, `ChildMay`); TLC
found both the same as ENABLED of `Parent` and of `Child`, the actions under
fairness. With `Ends` below, nothing but the kernel's fairness is missing from
OutputReturns and RunReturns.

**`HashMapProofs`** (assuming `MapAssumption`: hashes are natural numbers, a map
begins with at least one slot). `FindIsExact` says nothing of the way to an
entry; `Chained` does: from a key's home to its entry no slot is empty. It is
kept because an insertion lands behind taken slots only, and removals start the
index over. `HalfEmpty` and `OneSlotPerEntry` leave an empty slot, by the
pigeonhole principle, and the lemmas about remainders say that a probe of `cap`
steps comes by it; so every probe ends. `OneEntryPerKey` makes the first entry
found the only one. From it: `NoEndlessProbe`, `Exactness`, and `Refinement`,
where each call is one step of OrderedMap and each round of a rebuild none.

**`RegAllocProofs`** (assuming `LivenessAssumption`: the functions are sequences of
instructions, not empty, and the virtual registers finitely many, 0 not among
them; `RegAllocAssumption`: counts and ranks of registers are natural numbers, jumps and labels clobber nothing, as
x64_regalloc_clobbers, hyx64.c:107, has it). This is the composition: dataflow,
intervals, scan, and the function run on the result. The invariant of the scan
comes from `LinearScanProofs`, which is instantiated, and so do the lemmas that
it survives the loading of a list and a stutter. What is added:
`LiveIInv` says that what the dataflow has found so far is live in truth
(`Sound`: never more than `ReadAhead`, the definition of liveness by paths) and
that the blocks it has passed without a change are balanced (`Settling`); at
rest all of them are, and a balanced solution that is sound is exact, by
induction over the length of the path to the read. `LoadedIInv` says that the
scan's list is that of the dataflow's intervals; `RunIInv`, that a value that
was lost is read on no path ahead, and that control has come to where it is
from an instruction that leads there. From the last it follows
that the run of the function needs only what intervals cover: no value shares
its place with another one that is needed (`NoTwoInOneRegister`), and none sits
in a register that is destroyed under it (`SurvivesClobbers`). Parameters that
are received at once differ in their homes for the same reason: each is live
around the fetches that follow its own (`HomesApart`), which, with
`ParametersLive`, is what the list of ParMoves takes for granted. Induction over
natural numbers and the existence of functions defined by recursion over them
(`Weight`, `ReadAhead`) are proved in the module from the finiteness of
intervals. From it: `Exactness`, `Covering`, `Homes`, `OwnValue`, the four
invariants of the run. The proof of `Covering` showed that an interval need not
cover a read in code behind a return that nothing leads to, which the first
form of `IntervalsCoverLife` asked for and no function of the run had;
it now speaks of the instructions that another one leads to, and the run has a
function with such code.

**`FrontendProofs`** (assuming `IncludesAssumption`: finitely many paths, no more
than MAX_VISITED; an include of a file names at least one place; what include
lines name as interfaces has no syntax errors and is not searched for
includes, since parse_hyi_into_program, loader.c:195, reads it line by line;
`FrontendAssumption`, `StripAssumption`). It has three layers, and
the removal beside them.
The first is the loader's stack. `Once` is not
inductive: it does not see what the calls under way hold. `HeldOnce` says that
no two of them hold the same path and none holds one twice; `Marked`, that
whatever is held has been marked, so that what is still unmarked is new to all of
them; `OwnFirst`, that a call holds its own file from the start, so that a file
that is under way is not entered again. They rest on marking before parsing, on
the marks never running out of room (`MarkFits`), and on a return moving what a
call holds to its includer. From it: `LoadedOnce`.
The second layer, `ReachIInv`, is about what is reached. `FollowedUp` is the
core: whatever a held file leads to has been tried, is being called for, or is
named by a line that a call for that file has still before it (`Awaits`); for
that, the lines of a call have to be its file's (`OwnLines`). `VisitedHeld` says
that what was tried and can be read is held, so that at the end, when no line is
left, the program is closed under includes; `WithinReach`, that all that is held or called for is in
every closed set around the first file. Together they are `AllAndOnly`
(`AllIncluded`).
Next to these stands the removal on its own, of any functions whatever.
Its invariant, `StripIInv`, has five parts besides the
type invariant. `Looked` is the classical one of a closure: whatever a marked
function uses is marked, unless the function waits on the stack or is being
looked at further on. `Waiting` says that the stack and the current function
are different marked functions, from which the bound on the stack follows by
the pigeonhole principle; `Least` that every closed set around the roots
contains the marked ones; `Phases` says what each phase has done, of the
compaction that it has kept exactly the survivors before its position, and
`Behind` that it has kept them in order and written no further than it has read.
That span_find finds the first function of a name needs the least element of a
set of positions, which is proved from the finiteness of intervals (`Earliest`).
From it: `Links` and `Minimal`, which together say that exactly the reachable
functions remain, `StackFits` and `InPlace`.
The last layer, `FrontIInv`, joins loader, lowering and removal: what the
removal works on is what the program was lowered to (`Lowered`). `UserCode` needs a hypothesis on the project,
`NamesApart`: no other file that can be read defines a function of a name that
the first file defines. It holds of all projects in `Frontend.cfg`; those of
`FrontendTwice.cfg` violate it, and there the property fails.
`Linked` needs `NoAsm`: no asm block mentions a function, since the closure does
not look into their text (opt.c:652). No file of the runs has one.

**`ScheduleProofs`** (assuming `ScheduleAssumption`: the names of a program are
its functions, each once, and a function has finitely many instructions;
lowering, passes, inlining and fn_info are any operators whatever). The search
is the usual one in three colors, and the invariant says of each what it means:
no function is open or closed twice (`NoneTwice`); every call of a closed one is
of a function closed before it, or both its ends are known to be in a cycle
(`ClosedBehind`); the same of those calls of an open function that the search is
through with, but for the one that is being followed (`OpenBehind`); and at the
end none was left out (`NoneMissing`). `Known` says that what is known of
finished functions is true, and that besides them only a recursive function
that is being expanded into itself is known. From it: `Ordered`
(`CalleesFirst`), `OptimizedOnce`, `Current` (`InfoIsCurrent`), and `Final`: only
finished functions are expanded in others, and no step changes a finished
function, so that what is expanded is what will be emitted.

The type invariants of Arena, LinearScan, Strip, ParMoves, Capture, HashMap,
RegAlloc with Liveness, Includes and Schedule are part of the inductive ones and
are proved with them; being proved for every instance, they are in no run.

**Endings.** Six loops are proved to end, as far as that can be said without
fairness. `Descent` orders quadruples of natural numbers from the left; for each
loop there is such a quadruple, `Left`, and a theorem that it stays one
and that every step makes it smaller (`Below`), which no infinite sequence of
steps can do. For the loader (`LoadingEnds`, `FrontendProofs`) it is the paths that are
not marked, the calls under way, the include lines of the last one, and the file
it is about to include: marking comes before following, and a line is dealt with
once. For the removal (`RemovalEnds`, in the same module) the phases, the functions to discover,
those that wait, the instructions to look at. For emit_par_moves (`Ends`,
`ParMovesProofs`) the phases, the moves to make, whether the pass has made any, what
is left of the pass: there is another pass only when the last one has made a move,
and a rotation makes one. For the allocator (`Ends`,
`RegAllocProofs`) dataflow and scan, the values that are not yet live into a
block, whether the round has changed any, the blocks or intervals to come; it
needs that the dataflow never takes a value back (`Rising`). For the optimizer
(`Ends`, `ScheduleProofs`) the phases, the functions not seen by the search, the
open ones, the instructions ahead in the last of them; then the functions with
their rounds, the passes, those of scalar_fixpoint. For a command (`Ends`,
`CaptureProofs`) the bytes to write, those in the pipe, the steps of the parent
and of the child. TLC checked each
descent on the instances of the runs before it was proved. What remains with
TLC is that a step is possible until the end is reached, and is then taken.

Only model-checked: liveness under fairness (Terminates,
EndsEventually, OutputReturns, RunReturns, LoadEnds, StripEnds), which the
prover does not do, and what the lowering and the passes of the optimizer make
of the code (MeansTheSame, WellFormed, ReadsDefined, ParametersLive): the machine
that says what code means, and most passes, are recursive operators and use
Bitwise.

## Not modelled

See the components in `PROJECT.json`. In short: the rest of the front
end and the decoders are functions of trees and bytes without a state that lives
on; encodings and object files are layout; the float class of the allocator is the integer class
with another register file; the failure of mmap and overflow of sizes have no
code to model. Pruning does not have to keep what later phases take from the
runtime (arena_alloc and its like): the runtime's objects are linked anyway. The
passes of opt.c within functions run only when HYLIAN_IROPT is set.

Of the optimizer: sroa, the expansion of divisions (div_exact_arm, expand_div),
materialize_consts, split_index and the preparation for shrink-wrapping; the
opcodes for division, or, xor, right shifts and extensions, floats and integers
narrower than a word; the budgets beyond which a pass leaves a very large
function alone. Of the lowering: strings, closures, tuples, structs by value,
methods, statics and inline assembly.

Most of the lines of the repository (53438 of `lsp/grammar/src/parser.c`) are a
generated table of a parser that editors use.

## Plan

In order, each step with its runs, and proofs where the state is simple enough:

1. Proofs: the single passes of the optimizer whose rewriting is not recursive,
   for which the code of Mir has to be split from its machine.
2. std.process: its growing buffer and its two pipes.
3. Arrays and the word map against sequences and OrderedMap.
4. MIR optimizer: the expansion of divisions against truncating division on a
   few bits, sroa, split_index; in the lowering the removal of the arena glue
   from functions that never allocate.
5. x86-64 frame, shrink-wrapped prologue and fixups.
6. Generics as a worklist of instances.
7. HTTP: chunked input in pieces, redirects; DNS retries.
8. The language server's documents and diagnostics.
