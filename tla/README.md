# A TLA+ development for tiro

tiro is a small dynamic language that is embedded in C or C++ programs: a
compiler to bytecode, and a virtual machine with coroutines, exceptions
("panics"), deferred statements and a garbage collected heap. This directory
holds specifications of the parts of tiro whose correctness depends on the
order of many steps, the TLC configurations that check them on small instances,
and proofs, checked by TLAPS, for instances of any size.

## 1. The system

| Part | State | Operations | Interacts with |
|------|-------|------------|----------------|
| Coroutine scheduler (`vm/context.cpp`, `objects/coroutine.cpp`) | intrusive ready list, coroutine states, cached resume tokens, completion callbacks, the `running` flag | start, run_ready, run_init, schedule, dequeue, resume, set_callback | is driven by the host; runs the interpreter; calls back into the host |
| Interpreter: control transfer (`vm/interpreter.cpp`, `objects/coroutine_stack.*`) | one stack per coroutine with frames and temporaries, exception in flight, flags of frames | call, call method, return, throw, rethrow, unwind, catch_panic, natives that continue | uses the handler table made by the compiler; changes coroutine states |
| Interpreter: instructions | registers, temporaries | arithmetic, containers, closures | type system, objects |
| Native functions (`objects/native.*`, `api/functions.cpp`) | state and locals of a frame, tokens held by the host | invoke, yield, return, panic, complete a token | scheduler |
| Heap and collector (`vm/heap/*`) | pages with bitmaps and finalizer tables, large objects, free lists, statistics, threshold, trace stack | allocate, add page, mark, trace, sweep, finalize, destroy | every allocation of the machine; roots |
| Handles (`vm/handles/*`) | scope stack, pages of external slots with a free list | allocate and free a slot, enter and leave a scope | roots of the collector; C API |
| Containers (`objects/hash_table.*`, array, set, string, buffer) | entries, index, sizes | set, get, remove, grow, compact, iterate | heap |
| Modules (`vm/modules/*`) | registered modules, members, `initialized` flags, resolution stack | load, verify, resolve, initialize | run_init of the scheduler |
| Compiler front end (`compiler/syntax`, `ast_gen`, `semantics`) | syntax tree, scopes, symbols, types | parse, resolve, check | middle end |
| Compiler middle end (`compiler/ir_gen`, `ir_passes`) | control flow graph, SSA values, regions, current handler | compile statements and scope exits, seal blocks, dominators, liveness, dead code | back end |
| Compiler back end (`compiler/bytecode_gen`, `bytecode`) | registers, copies, labels | color, sequentialize copies, fix jumps | interpreter |
| C API, runner, common library | thin wrappers; utilities | | |

The machine is single threaded. What makes it hard is that control leaves and
re-enters it in many places: scripts, natives, completion callbacks and the host
all schedule coroutines and use tokens; a panic may interrupt any of them, and
C++ exceptions leave the interpreter half way through; every allocation may
collect; and the compiler recursively compiles code that changes its own state
(deferred statements that leave scopes). Nothing is persisted, there are no
messages that could get lost, and the only timing is the order of calls.

What makes each part correct:

* scheduler: a coroutine is on the ready list exactly if it is runnable, the list
  is intact and fair, tokens reach the call they were made for, completion is final
  and reported once;
* call stack: frames, arguments and temporaries do not get out of step, the stack
  never exceeds its memory, no exception is lost and no handler skipped;
* deferred statements: each is executed once on every way out of its scope, in
  reverse order, and covers by a handler what follows it;
* heap: reachable objects keep their storage, garbage is found, finalizers run
  once, bitmaps, free lists and statistics agree;
* hash table: index and entries agree, it behaves like an ordered map, iteration neither
  repeats nor skips; values: arithmetic is exact or reported, compiler and machine agree;
  strings: equality, hashes, slices and interning depend on the contents only;
* modules: the stack of a resolution is a path of imports, imports are initialized first,
  every resolution ends;
* compiler: the trees are those of the text, names mean what lexical scoping says, errors
  are reported exactly where the rules say so, closures reach their variables, and every
  use of a symbol finds, in the register the compiler chose, what was assigned last;
* bytecode: blocks, handlers and references survive layout and linking, the verifier
  accepts what the compiler writes, and what it accepts is safe to run;
* C API: a slot is given out once, what the host can reach keeps its contents, and every
  cleanup function runs once.

`PROJECT.json` lists the components with their status, the hazards with their
lines, the runs, the mutants of every checked property, and for the definitions
of the models the lines of source that each stands for (a helper whose lines lie within those of another
definition of its module is listed with that one).

## 2. The modules

```
virtual machine
  FifoScheduler <--refinement-- Scheduler  <-- MCScheduler (TLC),
                                               SchedulerProofs (TLAPS)
                                CallStack  <-- MCCallStack (TLC), CallStackProofs (TLAPS)
                                Heap       <-- MCHeap (TLC), HeapProofs (TLAPS)
                                HashTable  <-- MCHashTable (TLC), HashTableProofs (TLAPS)
  Literals <-- Values, Strings             <-- MCValues (TLC), ValuesProofs (TLAPS; not Literals)
                    ModuleRegistry <-- MCModuleRegistry (TLC), ModuleRegistryProofs (TLAPS)
  Objects <-- Host                         <-- MCHost (TLC), HostProofs (TLAPS)
bytecode
  Instructions <-- Bytecode                <-- MCBytecode (TLC), ModuleRegistryProofs (TLAPS)
compiler
  DeferCodegen                             <-- DeferCodegenProofs (TLAPS)
  IrFunction <-- IrGen, IrPasses <-- Registers; IrGen, Registers <-- Compiler <-- MCCompiler
  Lexer <-- Parser <-- SyntaxTree <-- TypedNodes; Ast, TypedNodes <-- AstGen
        AstGen <-- Semantics <-- Closures <-- Frontend <-- MCFrontend
```

An arrow points from a module to one that extends (or instantiates) it. `Compiler`, `Frontend`,
`Bytecode` and `Host` are the compositions: they own the variables, while `IrGen`, `IrPasses`,
`Registers`, the modules below `Frontend`, `Instructions` and `Objects` define, as operators from
a state to a state, what the functions of the source do.

Names follow the source (`schedule_coroutine`, `handle_exception`,
`compute_next_threshold`, ...). A definition whose comment begins with "Mutant:"
is a deliberately wrong variant of the definition after it. It is used nowhere
but in the mutation runs: a property is worth checking only if some plausible
mistake in the code violates it.

**Scheduler** models `Context::run_ready`, `run_init`, the ready list with
its three pointers (`first_ready`, `last_ready`, `next_ready`), the states of
coroutines, resume tokens with their cache, async native functions whose tokens
the host keeps and completes or frees at any time, the builtins launch,
coroutine_token, yield_coroutine and dispatch, and completion callbacks. A script
is abstracted to the steps that concern the scheduler: calling, returning,
panicking. While a callback runs (`finishing`) and while a native runs, the
host's API is available, as in the code; nested `run_ready` calls are refused.
`Throw` is a C++ exception that leaves `Interpreter::run` while a coroutine is executed, and
`ThrowAtStart` one that is thrown before its first call has begun (`run_until_block` has not yet marked it as
running): the first leaves the coroutine in state Running, the second leaves it started and on no
list; `MeetCompleted` is the turn of a coroutine that has completed while it was listed (section 6).
The variables `queue` (the order in which coroutines were scheduled) and `lost` (whom an exception
threw out) are history.
**FifoScheduler** says what the ready list promises: one coroutine is in control,
the others wait in a queue. The refinement mapping is in `Scheduler` (`Status`, `Fifo`).

**CallStack** models one coroutine's stack in addresses, with frames of script
functions, natives and catch_panic, every way to call a function (Call,
CallMethod with and without receiver, bound methods, natives that call functions,
catch_panic, the first call of a coroutine), argument checks, growth by doubling
and overflow, returns, and unwinding. Values are left out. The handler table is
abstracted to the number of deferred statements whose handler covers the program
counter; what the compiler really produces is the subject of DeferCodegen. One
turn of the loop in `Interpreter::unwind` is one step.

**DeferCodegen** models how `FunctionIRGen` compiles deferred statements: the
stack of regions, `current_handler_`, the progress counter of each scope, and
scope exits, which are nested because a deferred statement may itself return or
break. The program being compiled is chosen statement by statement. A basic block
is represented by its handler. The record of an exit has its history: what it has compiled (`ran`) and what the
exits around it had compiled when it began (`done`); `early` records that a scope was left other than by
its end, `abandoned` that a deferred statement that always leaves has cut a scope exit short.

**Heap** models pages with their two bitmaps (as sets of cells), size classes
and free lists, splitting, merging, large objects, the limit and failures of the
system's allocator, statistics, finalizers, the collector's marking, tracing,
sweeping and threshold, and destruction. The mutator keeps roots and objects with
one reference each. Tracing one value and sweeping one page are steps of their
own; the mutator waits meanwhile. `objects` and `lost` are history.

**HashTable** models the table behind maps and sets: entries in the order of insertion with
holes, an index with robin hood displacement, growth, compaction, removal with its backshift,
and iterators. Hashes are a parameter, so that keys collide and one of them has the hash that
marks deleted entries. `map`, `returned`, `pending` and `moved` are history: what an ordered map
would contain and what an iterator still owes. `truncated` records that a removal stopped before
its cluster was closed (section 6).

**Values** evaluates one expression twice, as `const_eval.cpp` folds it and as `math.cpp` and
`value.cpp` execute it, on integers of `Width` bits of which `Embedded` fit into the value
itself, and on floats to which integers are rounded (`nearest`, any function in the proof, two significant bits in
the run); what float arithmetic yields is left uninterpreted, and so is the integer that an undefined
conversion yields (`OutOfRange`). **Literals** models
`syntax/grammar/literals.cpp`: bases, underscores, overflow, tuple fields, escape sequences.
**Strings** models strings with the cached hash that shares a word with the interned flag, slices of
slices, iterators, the builder with its buffer, and interning.

**ModuleRegistry** models registration and `resolve_module` with its frames (Enter, Dependencies,
Init, Exit), linking, cycle detection, the limit of the stack, and repeated
attempts after errors. An initializer is run by `Context::run_init`, that is, by the whole loop of ready
coroutines: while it runs, other code loads and resolves modules (`stack`), and the frames of the resolution
that waits are kept in `outer`. The loop ends when the initializer has returned or failed, or leaves it
alive (`run_init_ends`); such an initializer may return in a later loop (`late`), and the coroutine that a nested
`run_init` starts and then refuses to run stays alive, too. The imports of the modules are chosen in the initial
state; `returned`, `outlived`, `dangling` and `reentered` are history.

**Instructions** gives the operands of every instruction as writer, decoded form, reader, verifier and
interpreter see them, and assumes (checked by TLC) that they agree and that the verifier checks
what the interpreter relies on. **Bytecode** compiles one function
block by block, fixes jumps and handler sections, orders and links the members of the module,
overwrites at most one operand (`faults`), verifies, loads and runs it.

**IrFunction, IrGen, IrPasses, Registers** and **Compiler** model one function from its
statements to its registers: SSA construction with incomplete phis, sealing and
trivial phi removal, regions and scope exits, observers of assignments, dead code, critical
edges, dominators, liveness, coloring, and the order of parallel copies. The statements are chosen step by
step, and the result is executed with branches and exceptions chosen freely, beside the values that the
symbols have according to the source. The assumption `CopiesAreParallel` compares the order of
copies with simultaneous assignment for all small sets of copies.

**Lexer, Parser, SyntaxTree, TypedNodes, Ast, AstGen, Semantics, Closures** and **Frontend**
model the front end as the pipeline that it is, one step per pass: tokens with the states for nested
strings; the recursive descent parser with its events, forward parents and error recovery;
the syntax tree; the typed reading of its nodes; the abstract tree; scopes,
declarations, references, types and structure; and the environments that functions and loops open
for captured variables. The reference definitions (lexical scoping, which expressions need a
value, what is captured) are stated in `Frontend` independently of the order in which
the code visits the tree.

**Objects** and **Host** model a host program and the machine it embeds: the calls of the C API,
external slots with pages and free list, containers, records and schemas, native objects, modules,
results, types and methods, coroutines with callbacks and their cleanup, callbacks that call
the API, collections between any two calls, and `tiro_vm_free` at any point. `spec` is history: what
the calls promise about the contents of every container.

## 3. The runs

| Run | Bounds | Properties (and their parts) |
|-----|--------|------------------------------|
| scheduler_tokens | 2 coroutines with entry functions of every kind, call depth 2, 2 tokens and 2 async calls each, 1 escaping exception | TypeOK; TokenReachesItsFrame: a usable token leads to the frame of its call; RunnableIffQueued; CompletionFinal (NotifiedOnce, NotifiedWhenDone, DoneIsFinal); NoCoroutineLost (RunningAccounted, RunReadyDrains) |
| scheduler | 3 coroutines (a list with first, middle and last element) that dispatch, yield, launch and resume each other, call depth 2, 1 token each, a callback on one, 1 escaping exception, fairness | ReadyListShape; ImplementsFifo; ServedFairly (NoStarvation, ImplementsFairFifo) |
| call_stack | stack of 11, then 22 values, 3 frames, all kinds of callees, 2 nested deferred statements, 2 exceptions | TypeOK; StackLayout; ResultSlot; CallsBalanced; PanicsHandled (ExceptionsAccounted, SecondaryJustified, UnwindStopsAtHandlers) |
| defer_codegen | 3 nested constructs, 3 deferred statements of every kind | ScopeExits (ExitOrder, ExitComplete, DoneOnTheWay, ProgressRestored); HandlerCovers |
| heap | 2 pages of 9 cells, large objects, limit, failing allocator, 3 reachable objects | ObjectsIntact; BookkeepingAgrees (FreeListsMatchPages, SizeClasses, StatsAgree, NewPageSuffices); CollectionExact (CollectionComplete, FinalizedOnce) |
| hash_table | 3 keys, two with one hash and one with the reserved hash, an index of 4, then 8 buckets, 1 iterator | TableIntact (IndexMatchesEntries, BucketFree); OrderedMap; IterationExact (NothingReturnedTwice, NothingSkipped) |
| values | integers of 4 bits, 3 of them embedded; floats of 2 significant bits; numerals and strings of up to 4 characters (8 characters each); 3 string objects, a builder of up to 3 bytes whose buffer grows once | IntegersExact (ArithmeticExact, BitsExact, IntegersStored, LiteralsExact); OperatorsAgree (FoldingAgrees, OrderConsistent); StringsAreContents |
| modules | 3 modules, each with one of 6 lists of imports (itself, others, a missing one, two) and with or without an initializer, stack of 3, nested resolutions, 1 initializer that fails or outlives its resolution, fairness | ResolutionStack (ActiveIsStack, StackIsImportPath, CycleIsReal); InitializedInOrder (ImportsFirst, InitializedOnce); ResolutionEnds |
| bytecode | every kind of value in a function of its own, graphs of 3 blocks, 2 blocks with a handler, 3 modules, 1 overwritten operand | CodeLaidOut (LayoutFollowsGraph, HandlersFollowBlocks); ReferencesKept; VerifiedCodeRuns (CompiledCodeVerifies, VerifiedCodeIsSafe, TemporariesBalanced) |
| compiler | 3 symbols, one of them captured, 2 statements (loops that never end included), 1 open construct, 1 deferred expression (of a local or the captured symbol), executions of 6 blocks | IrWellFormed (AssertionsHold, UsesDominated, DominatorsExact); AssignmentsSeen (CodeSeesAssignments, HandlersSeeAssignments) |
| frontend | broken texts of 3 pieces, chains of 3 operators, programs of two nested statements, programs with closures | TokensKept (StringsNest, EveryTokenOnce, StuckOnlyAtStringBlocks); TreesFaithful (OperatorsBind, AcceptedAreBalanced, ValidAccepted, NoUnexpected, AstComplete); NamesResolved (ResolvesLexically, CapturedExactly); ErrorsExact (SymbolErrorsExact, TypeErrorsExact, StructureErrorsExact); ClosuresCorrect (ClosuresReachVariables, ClosuresFit, GenerationCompletes) |
| host | 16 host programs, each with the calls of one theme; 2 pages of 2 slots, 3 objects | FreeListExact; ObjectsKept (ContentsKept, StorageFits, KindsMatchTypes); CleanedOnce |

The type invariant of a module is a conjunct of the first property that has parts. Every property has
a mutant of the code that violates it.

Some properties carry an exception for what the code does not keep. It is stated in the property
itself, in its comment, and explained in section 6:

| Property | Exempt |
|----------|--------|
| RunnableIffQueued, NoCoroutineLost, ServedFairly | coroutines that an escaping exception has thrown out (`lost`); a completed coroutine whose own function is `std.dispatch` may be on the list |
| PanicsHandled (SecondaryJustified) | an exception that is secondary to itself, at the end of its handler; secondary exceptions after break or continue has left a handler (`leftover`) |
| ScopeExits (ExitOrder, ExitComplete) | deferred statements that the exits around a nested one have compiled of the scopes they are at are not compiled again; those of scopes they have already left are, hence twice |
| HandlerCovers | behind an early exit the handler may be missing, and need not be the innermost one; behind an exit that was cut short (`abandoned`) nothing is claimed |
| OrderedMap | after a removal that left its cluster open (`truncated`) |
| IterationExact (NothingSkipped) | iterators that have seen entries move |
| IntegersExact (ArithmeticExact) | `WrongArithmetic`: the negation of -1 and of the smallest integer, -1 to a negative even power |
| OperatorsAgree (FoldingAgrees) | the negation of -1; shifts and bit operations, which the machine lacks (what they fold to is checked by BitsExact) |
| OperatorsAgree (OrderConsistent) | not-a-number, and an integer and a different float that it is rounded to (`LosesPrecision`) |
| ResolutionStack (NotInitializedYet) | a module without an initializer that a nested resolution has initialized meanwhile |
| InitializedInOrder (ImportsFirst) | links that a failed resolution left behind (`dangling`), modules that two resolutions had on their stacks at once (`reentered`) |
| InitializedInOrder (InitializedOnce) | modules with an initializer that outlived its resolution (`outlived`) |
| VerifiedCodeRuns (VerifiedCodeIsSafe) | the index register of two instructions |
| IrWellFormed (AssertionsHold) | functions with code that nothing leads to, behind endless loops and branches that all leave (`count.cut`): there the two assertions about definitions do fail |
| IrWellFormed (UsesDominated) | the environment of a captured symbol in a handler |
| AssignmentsSeen (HandlersSeeAssignments) | captured symbols in handlers |
| TokensKept (StuckOnlyAtStringBlocks) | a string block where none is expected |
| ErrorsExact (StructureErrorsExact) | break and continue in a function inside of a loop (`Escapes`), which are accepted |
| ClosuresCorrect (ClosuresFit) | closures in deferred statements, module level functions |
| ClosuresCorrect (GenerationCompletes) | jumps out of a function; deferred loops with captured variables |

*Why the bounds are enough.* The lists, stacks and tables here are local: an
operation touches the ends of the ready list, the top two frames, two adjacent
blocks, one cluster of buckets. Three elements have a first, a middle and a last one; two tokens and
two calls suffice for one of them to be stale; two exceptions for one that is handled and one that
interrupts the handler; two pages for a block in one and an allocation in the other; three modules for a
cycle that is entered from outside; three blocks for a loop with a branch. Four bits have every
case of overflow that sixty-four have, since the code compares with the ends of the range only. The
front end has no global counters: its operators see a node, its children and the scopes around
it, and two levels of nesting put every kind of construct into every other. Every bound is a
CONSTANT that appears only in guards and in the sets of inputs, and where a proof exists it holds for all
of their values.

*Deadlock* is checked where the host can always do something: scheduler, hash table, modules, and in
the compiler run, where only a finished execution (`Done`) has nothing left to do. The coroutine of CallStack completes, the
passes of a compilation end, expressions are evaluated once and a machine is freed: these models may
stop.

*Fairness.* `FairSpec` of Scheduler assumes that the host calls `run_ready`
again and again and that callbacks return (weak fairness of `Loop`), and that a
coroutine in control goes on and eventually ends its turn (weak fairness of
`Progress`, strong fairness of `EndTurn`). The second part is what a cooperative
scheduler demands of its coroutines: the code has no preemption, and a script
that computes for ever does starve the others. No fairness is assumed for the
host's completion of tokens, hence nothing is claimed about waiting coroutines.
`FairSpec` of ModuleRegistry says that `resolve_module`, once called, goes on with its loop (weak fairness of
`resolve`): it is one call of C++ that nothing interrupts. Where it waits for an initializer, it assumes that the
loop of ready coroutines ends (strong fairness of `initializer_ends`, since resolutions nested in that loop come and go):
again what cooperative coroutines promise.

*Symmetry* of coroutines is used in scheduler_tokens only, which checks no liveness.

## 4. The proofs

`SchedulerProofs` proves, for any set of coroutines and any bounds:
TypeCorrect, ReadyListCorrect, RunnableCorrect and FifoCorrect (the refinement:
initial states map to initial states, and every step to a step of FifoScheduler
or to a stutter). The inductive invariant is the conjunction of `TypeOK`;
`ControlOK` (the current coroutine is in state Running and has frames, as has
every coroutine that can be resumed); `ReadyListShape`; and `QueueStates`, which
relates list and states. ReadyListShape alone is not inductive: that a coroutine
which is scheduled is not already linked follows from its state. All entry functions are covered,
`std.dispatch` included, and so are exceptions at any time: `QueueStates` says of a listed coroutine that it can run
or is done, and that a lost one is never listed; that only a coroutine of `std.dispatch` itself can be listed when
it is done (`BottomOK`: the bottom frame is that of the entry function) then gives RunnableCorrect.

`CallStackProofs` proves, for any size of the stack, any number of frames,
arguments, deferred statements and exceptions: TypeCorrect, StackLayoutCorrect,
CallsBalancedCorrect (an action property), ResultSlotCorrect and PanicsHandledCorrect. The invariant
`LayoutInv` is stated for sequences of frames (`FramesOK`), so that pushing,
popping and changing a frame are treated in one lemma each: every frame sits
above the locals of its caller, and what `pop_frame` computes from `at`, `argc` and
the unused receiver is the height of the stack before the call was prepared. It
also says that a frame that unwinds knows its exception, without which the types
of the exception lists are not preserved. ResultSlotCorrect adds `SlotInv`: a native or
catch frame that has called something has nothing between itself and that call,
and a catch frame is never unwound into before it has called. `GrowSuffices` rests
on the well-foundedness of the natural numbers. PanicsHandledCorrect adds `PanicInv`, which says
when exceptions were thrown: of two functions on the stack that handle an exception, the outer one
began before the exception of the inner one was thrown (`HandlersNested`), all of them began before the exception that
is being thrown (`ThrownAfter`), and a `catch_panic` that has caught something only returns it
(`CatchDone`). `SecondaryJustified` is not inductive without them: an exception that is attached to another
one as secondary is justified only if the handler it comes from was running when the other one was thrown, or had been
left by break or continue with its mark still on the frame (`Witnessed`).

The second part of `SchedulerProofs` proves the life of a coroutine: CompletionCorrect
(callbacks run once, a completed coroutine stays completed), TokenCorrect (a usable token is the one that
the top frame of its coroutine waits for) and NoCoroutineLostCorrect. `CompletionInv` ties the number of
notifications to the state and to the coroutine that is being finished; `TokenInv` says who can hold the
token of which call, and that a coroutine with a cached token or an async frame is not runnable; `RunningInv`
relates `running`, `lost` and the coroutine in control. They rest on `ListInv`, the invariant of the list.

`ModuleRegistryProofs` proves ResolutionStackCorrect and InitializedInOrderCorrect for any number of
modules, any imports (cyclic, missing, of itself), any limit of the stack, and resolutions nested in the loop of an
initializer. The invariant `RegistryInv` states for both stacks what a frame is (`FrameOK`): its position lies within
its list of imports, and the imports it has passed are linked and, but for the one that is being resolved in the frame
above, initialized or excused (`Excused`: a failed resolution left the link, or a nested one came to the module while
the waiting one had a frame for it). `LinkedByFrame` says that a link without an excuse is held by a frame that is going
to initialize its target, `SharedReentered` that modules on both stacks are known, `OuterWaits` that the
waiting resolution waits for the initializer of its top frame, and `CountsOK` that an initializer that is still alive
has outlived its resolution.

Its second part proves the verifier (of Bytecode) sound: VerifierSound says that from any linked
module, with any opcodes, operands, handlers and members, `VerifiedCodeIsSafe` holds for ever, and
VerifiedCodeSafe says the same of every behavior of the specification in which the writer leaves the code with a
size and a list of handlers (`WriterOK`, a part of the type invariant that TLC checks: it would take induction over
the folds of the writer to prove it). `AllListed` shows that the decoder, which stops at the first instruction it
cannot read, returns instructions that follow one another without a gap; its recursion runs towards the end of the code
and is shown to be defined by `BackwardExists`. `VerifiedAccepted` turns that list into a set of
positions (`Accepted`): 0 is in it, as are the target of every handler, the operands of jumps, and, unless control
cannot get past it, the end of every instruction. `StepKept` shows that the interpreter never leaves this set, although it decodes
by tables of its own (`RunLayout`), and `OperandChecked` that what it takes for granted about an operand is among
what the verifier looked at. `VerifierInv` is the inductive invariant. That the tables of the four parts agree and that
the checks cover the uses are closed formulas, the assumptions `EncodingsAgree` and `ChecksCover`; TLC
evaluates them over all instructions.

`DeferCodegenProofs` proves ScopeExitsCorrect and HandlerCoversCorrect for any program and any
nesting. `DeferInv` relates the regions that are open to the list of active scopes (`ScopesOK`), the exits
that are being generated to the regions that they will restore (`ExitsOK`), and the progress counters to what was
compiled (`ProgressOK`): there is a history of the counters, one for each exit that is in progress,
of which leaving a scope restores the last (`Restores`), which only grows (`Grows`), and from which both what an exit has left
to those around it (`DoneOK`) and what it has compiled itself (`RanOK`) can be read. The order and the completeness of
an exit then are two lemmas (`OrderLemma`, `CompleteLemma`). Of handlers, `HandlersOK` follows the chain
from a block outwards as long as nothing was left early. Behind early exits the chain is broken, and `FromOK` says the weaker
thing: every handler that is still to become current belongs to a scope around the code it will be current in
(`ScopesFrom` for the ends of scopes, `IdleFrom` for the code of the program, `BlockFrom` and `BusyFrom` for code
inside of exits), where the last branch of a conditional that leaves needs an argument of its own (`LastBranch`).

`HostProofs` proves all properties of Host, for any number of pages, slots, objects and userdata and any
programs. FreeListCorrect: the links through the
free slots form a list without repetition of exactly the slots that no handle owns. `StorageInv` adds
that allocated bits and handles agree and that handles lie within the pages. Every call of the API that does
not allocate or free a slot is shown to leave them alone (`SlotsKept`).

ObjectsKeptCorrect and CleanedOnceCorrect rest on one more invariant, `HostInv`, of four parts. `HeapOK`: every object
is well formed for its type and refers only to objects that exist, also to those that no host can reach any more
(they are read again by whatever can still reach them), and shows what the calls have promised. `SlotsOK`: what is
behind a handle exists. `RootsOK`: so do the loaded modules, the coroutines in the queue (each there once, and started)
and the callback that runs. `UsersOK` ties the records of userdata to the native objects: no two objects share a
userdata and no two coroutines a callback, what has to be cleaned up and has not been is held by exactly one object
that still has the cleanup function, and a callback that may still be called has been neither called nor cleaned up.
Without the last part neither the collector's finalizers nor a replaced callback could be
seen to run once. A call is proved in three ways: it stores a value behind a handle, it replaces an object by one of
its type (`UpdatedKeeps`), or it makes one (`CreatedKeeps`); the lemmas about containers, records and schemas say that
the replacement is well formed and shows what was promised. A collection keeps a set that holds the roots and
what its members refer to (`ReachableKept`: as many rounds as there are objects are enough to reach everything,
`ClosureClosed`), so nothing that is kept refers to what is freed (`CollectedHeap`), and the finalizers that run are those of
objects nobody can call back (`CollectedUsers`).

`HeapProofs` proves, for pages of any size, any size classes, requests and graph of objects,
ObjectsIntactCorrect (what the mutator can reach keeps its cells) and FreeListsCorrect (outside of
collections the lists are exactly the free blocks of the bitmaps). They need each other and one
invariant, `HeapInv`: an allocation is safe because what the lists offer is free in the bitmaps (`ListsMatch`,
which during a sweep speaks of the swept pages only), and a sweep is safe because tracing has marked
everything reachable (`MarksComplete`). The latter rests on the invariant of tracing, `MarksClosed`: what a
marked object refers to is marked unless the object is still on the marking stack; `MarksReset` says
that no mark survives a collection. The lemmas on blocks (`Starts`, `NextIn`, what `set_free`, `set_allocated`
and the sweep of one page do to the partition of its cells) are stated for single pages, and an
allocation from the free space is one lemma for all requests.

Its second part proves CollectionExactCorrect: a collection frees no less than
the unreachable objects, and every finalizer runs once, at the sweep of its object or
with the heap. ObjectsIntact is one direction only; for the other, `CollectInv` says that nothing
unreachable is marked (`MarksLive`), that swept pages have no two free blocks in a row (`BlocksMerged`), that the
tracer's counter and its stack together are the marked objects (`ObjectsCounted`), and where the
finalizers of which objects are (`FinalizersKept`, `FinalizersRun`).

`ValuesProofs` proves OperatorsAgreeCorrect for integers of any width and any interpretation of
float arithmetic and any rounding of integers to floats (`RangeAssumption`): where constant folding yields a value, the
machine yields the same one. The invariant `ResultsOK`
says that what both sides hold belongs to the expression that was chosen (a folded result may be kept
while the machine has not started, and the other way around); the rest is one lemma for each family of operators
(`ArithmeticAgrees`, `ComparisonAgrees`, `EqualityAgrees`, `UnaryAgrees`), which goes through what
`const_eval.cpp` rejects and shows that the machine does not differ on what is left. That order agrees with equality
where no precision is lost rests on `FloatOf` and `EqualFloat` (an integer is compared with a float as what it is rounded
to, and equals it only if that is the float) and on `Before`, `CompareIs` and `BeforeIs`, which describe the order.

Its second part proves StringsAreContentsCorrect for any contents, arguments, hash function and number of
objects. The invariant `StringsInv` has three parts. `ObjectsInv`: a string has the bytes it stands for, and
a slice or iterator refers to a string (never to another slice), lies within it, and the bytes there are the ones
it stands for (`Shows`). `InternedInv`: the flag in the hash word is set for exactly the strings of the table, what is
left of that word is 0 or the hash of the bytes (`HashOf`), and no two strings of the table have the same
bytes, which is what makes comparing two interned strings by identity alone right (`EqualIs`). `BuilderInv`: the buffer
begins with what was appended since the last clear, whatever it holds behind that. Parts of parts are
one lemma (`WithinPart`), so a slice of a slice needs no case of its own; that the next capacity suffices
(`CapacitySuffices`) goes by way of the powers of two up to a number (`Doubles`). The lookup in the table is the
map that HashTable is proved to be.

`HashTableProofs` proves all three properties of the table, for any keys, values, hashes and iterators and for
indexes of any size. TableIntactCorrect rests on `TableInv`: the occupied buckets refer to the live entries
one to one (`OneToOne`), the capacity is that of the load factor for the number of buckets (`Built`), and every
live entry holds a key with its hash (`Keyed`). As there are fewer entries than buckets, one is empty
(`EmptyBucket`). OrderedMapCorrect adds `OrderInv`: as long as no removal has left an entry behind, the index
has the robin-hood order (`RobinHood`: of two buckets in a row the second is at most one further from home
than the first, and what follows an empty bucket is at home), keys are distinct, and the live entries counted in
ascending order (`Counts`) are the pairs of the map (`Reflects`). Neither follows from what the loops look like at the
end, so they are proved turn by turn: `OneTurn` shows that each branch of the loop in `place` keeps what is known of it
(`Turn`, with `PutKeepsOrder`, `SwapKeepsOrder` and `PassFits` for the order), `NotAllTheWay` that a position comes to
rest before it has gone all the way round, `Rehash` and `OnlyLists` do the same for the loops that rebuild the index and
close the holes, and `RemoveFromIndex` shows that moving one entry back is enough exactly if none is left
behind. `FoundThere` then uses the order to show that the early stop of `find_impl` misses no key.
IterationExactCorrect adds `IterInv`, which places what an iterator has returned at or before its cursor and what it
still owes after it; each operation is shown to keep the entries of other keys where they are (`Stays`) or to move
them down only (`Sinks`). The recursive functions of the model are reasoned about by their existence
(`TurnsExist`, `CopiesExist`, `RehashesExist`) and by induction through `LeastNumber` and `UpTo`, which are derived from
the well-foundedness of the natural numbers.

The assumptions on constants are `ConstantsAssumption` (Scheduler),
`SizeAssumption` (a stack begins with more than its header and does not begin
above its maximum) and `FunctionsAssumption` (kinds of functions, CallStack), `RegistryAssumption`
(the imports of a module are modules or names nobody registered), `DeferAssumption` (a bound for open
constructs is at least 1) and `HostAssumption` (the inputs of a program have the types that the API
demands, and begin with well-formed objects that exist, no native objects and only coroutines that have not been
started or given a callback). Heap has `HeapAssumption` (its sizes are positive, a page
holds every object that is not large) and `ClassAssumption` (every size of a block has a free list, which the
source asserts as "invalid size class index"), Values `WidthAssumption` (an embedded integer has at least
two bits and fewer than an integer). HashTable has `HashAssumption` (hashes are numbers, the reserved hash is not 0, an index
begins with at least four buckets) and the `SizeAssumption` of its own (some index type holds the positions of
the largest table, which the source has as a `static_assert` on the 64 bit type, and a table is not made for more
entries than the largest index has room for). Strings has `StringsAssumption`
(strings consist of numbers, the flag is a positive number); StringsAreContentsCorrect also states, as its hypothesis, that
every hash is a number. `EncodingsAgree` and `ChecksCover` (Instructions) speak of no constant. TLC evaluates
the assumptions for the instances of the runs.

Only model checked: liveness (ServedFairly, ResolutionEnds), the rest of BookkeepingAgrees of Heap
(statistics are sums by folds, thresholds are powers of two),
IntegersExact of Values, the rest of Bytecode, and the properties of the
front end and of the compiler's passes. IntegersExact is about powers, about which the provers know nothing
(not even that 2^(k+1) is 2 * 2^k), and Bytecode's layout, linking and balance of temporaries about sequences
that the writer builds by folds. The prover does not handle liveness under fairness or ENABLED. The
induction theorems of its library take an operator as a parameter, which no installed prover can
instantiate: what a recursive function computes can be proved only by way of well-foundedness, as in
HashTableProofs, and not at all for the folds of the community modules. The modules of the front end and of the
compiler's passes use RECURSIVE operators, because the code they model is mutually recursive, and are out of the
prover's reach altogether; Literals, Bytecode and Objects do not.

## 5. What the models leave out

* The values that scripts compute, the text of messages, tracing, formatting.
* Argument checks of the C API that return an error before anything has changed.
* `Heap::allocate_chunk`, which nothing calls, and the alignment arithmetic of
  pages; the sizes it results in are constants.
* The heap's sizes are well below 2^32: `heap.cpp:216` keeps the number of cells of a request in 32 bits, and larger
  requests would be truncated. The largest threshold, which `collector.cpp:253` treats apart, is not reached.
* That an allocation ends is not checked as a liveness property; NewPageSuffices
  rules out the one way in which the code itself could fail to make progress.
* The scheduler treats catch_panic as a script function with a handler, and does
  not distinguish the addresses that CallStack does.
* Native functions keep the documented protocol for tokens (a native that keeps a
  token yields).
* Handles: scopes and registers follow the stack discipline of C++ and are taken as roots; the
  external slots are modelled (Host).
* Hash table: keys are compared by identity; equality and hashes of values are the subject of Values
  and Strings.
* Compiler: expressions that only compute a value are one kind of instruction; a value occupies one
  register, so that the ranges of registers that some values occupy are not modelled. What the folds of
  constants yield is in Values.
* Front end: comments, unicode classes of identifiers, the text of messages, dumps. A number
  is one symbol to the lexer; its digits are in Literals. The rounding of literals of floats is left out. Of the
  parser's limit of inspections (`parser.cpp:108`) only the case is modelled in which a whole round of the
  callers makes no progress, not the count, which very deep nesting reaches as well.
* Bytecode: the values in the registers; disassembly.
* C API: the wrapping of a coroutine's outcome in a Result, and the C++ wrappers, which forward to
  the calls that are modelled.
* Not modelled at all: formatting and string searching, the methods of the builtin types that scripts
  call beyond those above, arenas, containers and unicode tables of the common library
  (functions of their input without a history), the runner and the examples (host programs), generated
  code and vendored libraries.

## 6. Observations

Met while modelling. The code at these lines does something else than a comment, an assertion or
the reader expects; the models do what the code does, and the properties exempt it where they must.

Scheduler, interpreter and heap:

* `std.launch(std.dispatch)`: `Coroutine::schedule` puts the coroutine on the ready list
  (`builtins/std.cpp:158`) and `return_function` then completes it (`interpreter.cpp:1235`), so that the
  loop dequeues a completed coroutine; `interpreter.cpp:946` and `:965` assert the opposite.
* An exception that is thrown before the first call of a coroutine has begun (`interpreter.cpp:962` to `:974`: pushing the
  arguments may exceed the stack) leaves it in state Started; as it has been taken off the list, nothing runs it
  again, and nothing reports it.
* `create_token` returns the token that is cached (`coroutine.cpp:124`): a script that asked for its
  token before an async call can resume that call without a result. `functions.h:79`: "It will be
  resumed when a result is provided to the resume token object."
* Rethrow, which ends every deferred statement of a panicking function, lists the exception as its own
  secondary exception (`interpreter.cpp:804`, against `exception.hpp:72`).
* A deferred `break` or `continue` that runs as a handler leaves the frame's unwinding flag set, so that
  a later, unrelated panic of that frame is reported as a secondary exception of the old one
  (`interpreter.cpp:825`).
* `catch_panic` accepts more than one argument (`interpreter.cpp:1090` asserts one).
* `Heap::allocate_raw` adds to `total_bytes` before the system's allocator is asked and
  keeps the bytes if it fails (`heap.cpp:301`); the variable `lost` counts them, and the
  limit of later allocations is lower by as much.
* `cells_request` has 32 bits while the size that it is computed from has 64 (`heap.cpp:216`).
* Large objects fail at the memory limit without a collection (`heap.cpp:215`), small
  ones collect first.

Objects and modules:

* `remove_from_index` does not advance in its loop (`hash_table.cpp:449`): it moves back one entry at
  most, and a key further along the cluster can become unreachable although it is in the table.
* A module that imports another is linked to it before that one is initialized; when the resolution
  fails, a second attempt does not see the import and initializes the importer, although the imported module is
  not initialized, or although the two are on a cycle (`registry.cpp:165`).
* A resolution can be nested in the loop that runs an initializer (`context.cpp:131`). It knows nothing of the frames of the
  resolution that waits (`active` is local), takes the links these have made for initialized modules, and may
  initialize a module that the waiting one has a frame for: before the imports of that module, and so that the assertion
  at `registry.cpp:121` fails when the waiting resolution comes back to the frame.
* An initializer that yields makes `run_init` throw (`context.cpp:134`) but stays alive, and so does the coroutine of a nested
  `run_init`, which is listed before `run_ready` throws (`context.cpp:96`). It may return later, although its module is
  not initialized by that, and the next resolution starts the initializer again.
* The machine's unary minus compares with -1 instead of the smallest integer
  (`math.cpp:178`), constant folding does not (`const_eval.cpp:342`): the two differ for both values.
* -1 to a negative even power is -1 (`math.cpp:87` returns the base).
* Integers are compared in order with floats after a conversion that "may lose precision" (`primitives.hpp:191`), but are
  equal only if they are the same number: 2^53 + 1 is neither less than, nor greater than, nor equal to the float
  2^53. The conversion back (`value.cpp:211`) is undefined for floats beyond the range of integers.
* Equal numbers of different type (`1` and `1.0`) have different hashes, and not-a-number compares
  equal in order but not in equality. Shifts and bit operations are folded by the compiler but not
  implemented in the machine.
* A string whose hash has all bits below the flag zero looks as if it had none and is hashed
  every time (`string.cpp:579`).
* The result of `parse_string_literal` is ignored where strings are built; only the diagnostic remains
  (`build_ast.cpp:1116`).

Compiler and bytecode:

* After a `return` or `break` in a branch the code that follows has no handler although deferred
  statements are active (`func.cpp:368`, against `compile_stmt.cpp:83`: "All future basic blocks will point to
  that handler").
* When a deferred statement that always leaves ends a scope exit (as in `if (a) { defer x; { defer return; } }`), the code
  behind it may keep the handler of a scope that has been left: a panic there executes `x`.
* A return that meets a deferred return executes deferred statements of inner scopes, which it has already left, twice
  (`func.cpp:367`, against `support.hpp:253`).
* `for ;; {}` followed by a read of a variable fails the assertion at `func.cpp:539`, because
  the code behind the loop has no predecessor; likewise an `if` both branches of which leave.
* A captured symbol that a deferred statement uses is read through an environment that may not
  dominate the handler.
* `seal` keeps a reference into `incomplete_phis_` while it adds operands, which may insert there.
* A deferred loop with captured variables is compiled once per exit, and the second time violates
  `closures.hpp:74` ("has not been inserted already").
* `add_function` returns the member of a function that was met before, whatever the environment
  (`ir_gen/module.cpp:68`): a closure in a deferred statement, or a named function expression in an
  initializer of the module, can be created with another environment than its code expects.
* The verifier does not check the index register of LoadIndex and StoreIndex (`verify.cpp:517`, `:523`), the
  kind of member that StoreModule writes to, or where Rethrow stands. StoreEnv checks the index
  before it checks for null. Temporaries stay on the stack when a handler is entered.
* Float constants that are not a number break the order that constants are sorted by
  (`bytecode_gen/module.cpp:298`).
* `structure_check.cpp:378` does not reset the current loop for nested functions: `break` in a function
  inside a loop is accepted and fails a check of the generator later (`compile_expr.cpp:476`, "Break outside a loop").
* The parser does not advance at a string block that nobody expects and gives up after 1024 inspections
  with an exception (`parser.cpp:108`); deep nesting reaches the same limit.
* `discard_block_impl` waits for the opening token of a nested block instead of the closing one
  (`errors.cpp:58`); `parse_file` swallows the token behind a stray
  closing brace; `parse_for_stmt` leaves a marker incomplete on an error path.
* Constants of a module can be read by functions before they are initialized.

C API:

* On its error paths `tiro_coroutine_set_callback` calls the cleanup function without
  the test for NULL (`api/objects.cpp:845`, `:895`), though `objects.h:406` says it is optional. A failed call
  has already dropped the previous callback (`context.cpp:69`).
* `tiropp/objects.hpp:807` frees its wrapper although the failed C call has done so.

## 7. Plan

A theorem that would add to the runs:

* **Heap**: that a new page always satisfies the request that asked for it (`NewPageSuffices`).

Models that could follow: ranges of registers for values with several parts, scopes and registers of the
handles, the methods of the builtin types, and a composition of Host with Scheduler (tokens that outlive
their machine).
