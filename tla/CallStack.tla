----------------------------- MODULE CallStack -----------------------------
(***************************************************************************)
(* The stack of one coroutine and the part of the interpreter that moves   *)
(* control between its frames: calls of script functions, methods, bound   *)
(* methods and native functions, returns, panics with the deferred         *)
(* statements that run as exception handlers, and std.catch_panic.         *)
(*                                                                         *)
(* Frames and temporary values share one region of memory that grows       *)
(* upwards (CoroutineStack).  The model keeps every address (in units of   *)
(* one value) and abstracts from the values themselves: what can go wrong  *)
(* here is that a frame, its arguments and the temporaries of its caller   *)
(* get out of step.  What scripts and natives do is nondeterministic; the  *)
(* compiler's part, the handler table, is abstracted to the number of      *)
(* deferred statements that are active at the frame's program counter.     *)
(***************************************************************************)
EXTENDS Integers, Sequences

CONSTANTS
    InitialSize,   \* CoroutineStack::initial_size, in values
    MaxSize,       \* CoroutineStack::max_size, in values
    MaxFrames,     \* bound on call frames
    MaxTemps,      \* bound on the temporary values of one script frame
    MaxArgs,       \* bound on the arguments of a call
    MaxDefers,     \* bound on nested deferred statements of one function
    MaxThrown,     \* bound on exceptions
    Functions      \* the functions that the program may call

ASSUME SizeAssumption ==
    /\ InitialSize \in Nat /\ InitialSize > 5
    /\ MaxSize \in Nat /\ InitialSize <= MaxSize
    /\ MaxThrown \in Nat /\ MaxArgs \in Nat

\* Functions have a number of parameters.  A bound method adds its object as
\* first argument to the arguments of the function that it wraps.
ASSUME FunctionsAssumption ==
    Functions \subseteq [kind : {"Code", "Native", "Catch", "None"}, params : Nat, bound : BOOLEAN]

\* sizeof(CoroutineStack::Layout) and the sizes of the frames, in values.
LayoutSize == 5
frame_size(type) == [Code |-> 6, Resumable |-> 4, Catch |-> 3][type]

VARIABLES
    frames,    \* the call frames, the outermost first
    top,       \* CoroutineStack::stack_used()
    capacity,  \* CoroutineStack::stack_size()
    state,     \* Coroutine::state(), and "Crashed" after a stack overflow error
    flying,    \* the exception that Interpreter::unwind is working on, or 0
    result,    \* the exception that completed the coroutine, or 0
    secondary, \* Exception::secondary()
    thrown,    \* exceptions thrown so far
    caught,    \* the exceptions that catch_panic has handed to the program
    swallowed, \* history: exceptions dropped by a return from the function that handled them
    during,    \* history: the exceptions that were being handled when one was thrown
    leftover   \* history: those that functions still kept then, having left the handler

memory == <<frames, top, capacity>>
panics == <<flying, result, secondary, thrown, caught, during, leftover, swallowed>>
vars   == <<memory, state, panics>>

Exceptions == 1 .. MaxThrown

Locals(type) == IF type = "Code" THEN 1 ELSE 0

\* CoroutineFrame.  `base` (history) is the stack height before the caller
\* pushed anything for this call; `defers` is the number of deferred statements
\* whose handler covers the program counter; `handling` tells whether the
\* program counter is in the code of a handler, and `outer` how many deferred
\* statements surround that handler.
NewFrame(type, at, argc, extra, base) ==
    [type |-> type, at |-> at, argc |-> argc, extra |-> extra, base |-> base,
     started |-> FALSE, unwinding |-> FALSE, exception |-> 0, defers |-> 0, handling |-> FALSE,
     outer |-> 0]

Depth == Len(frames)
Frame == frames[Depth]

\* CoroutineStack::values_begin, for the frame number i; 0 is below all frames.
values_begin(i) ==
    IF i = 0 THEN 0 ELSE frames[i].at + frame_size(frames[i].type) + Locals(frames[i].type)

top_value_count == top - values_begin(Depth)

\* A frame of this type is about to be executed.
Runs(type) == state = "Running" /\ flying = 0 /\ frames # <<>> /\ Frame.type = type

-----------------------------------------------------------------------------
(* Memory. *)

\* The sizes that a stack can have: grow_stack_impl doubles it.
Capacities == {InitialSize * 2 ^ k - LayoutSize : k \in 0 .. 8} \cap 0 .. (MaxSize - LayoutSize)

Fits(n) == \E c \in Capacities : n <= c

\* Mutant: the caller forgot to make room.
grow_not(n) == capacity

\* grow_stack_impl: the least sufficient size.
grow(n) ==
    IF n <= capacity THEN capacity
    ELSE CHOOSE c \in Capacities : n <= c /\ \A d \in Capacities : n <= d => c <= d

\* The exceptions whose handlers are being executed, and those that functions
\* keep although break or continue left the handler: the frame stays marked as
\* unwinding.
Handled ==
    {frames[i].exception : i \in {j \in 1 .. Depth : frames[j].type = "Code" /\ frames[j].handling}}

Leftover ==
    {frames[i].exception :
        i \in {j \in 1 .. Depth :
                    frames[j].type = "Code" /\ frames[j].unwinding /\ ~frames[j].handling}}

\* A panic: a new exception, or (std.panic) one that catch_panic returned earlier.
raise(e) ==
    /\ e \in caught \/ (e = thrown + 1 /\ e \in Exceptions)
    /\ flying' = e
    /\ thrown' = IF e \in caught THEN thrown ELSE e
    /\ during' = [during EXCEPT ![e] = @ \cup Handled]
    /\ leftover' = [leftover EXCEPT ![e] = @ \cup Leftover]
    /\ UNCHANGED <<result, secondary, caught, swallowed>>

-----------------------------------------------------------------------------
(* Entering a function. *)

Type(kind) == [Code |-> "Code", Native |-> "Resumable", Catch |-> "Catch"][kind]

\* The checks of the number of arguments.
accepts(fn, argc) ==
    CASE fn.kind = "Code"   -> argc = fn.params
      [] fn.kind = "Native" -> argc >= fn.params
      [] fn.kind = "Catch"  -> argc >= 1
      [] fn.kind = "None"   -> FALSE

\* The number of arguments that the function gets to see.
full_argc(fn, argc) == argc + IF fn.bound THEN 1 ELSE 0

\* Interpreter::enter_function with argc arguments on a stack of height t with
\* frames fs.  A bound method makes room for its object first.  A call that is
\* refused leaves the arguments where they are and panics; a stack that cannot
\* grow raises a C++ exception that leaves the interpreter.
enter_function(fs, t, fn, argc, extra, base) ==
    LET n    == full_argc(fn, argc)
        h    == t + IF fn.bound THEN 1 ELSE 0
        size == frame_size(Type(fn.kind)) + Locals(Type(fn.kind))
    IN  \/ /\ accepts(fn, n)
           /\ Fits(h + size)
           /\ frames' = Append(fs, NewFrame(Type(fn.kind), h, n, extra, base))
           /\ top' = h + size
           /\ capacity' = grow(top')
           /\ state' = "Running"
           /\ UNCHANGED panics
        \/ /\ ~accepts(fn, n)
           /\ Fits(h)
           /\ frames' = fs
           /\ top' = h
           /\ capacity' = grow(top')
           /\ state' = "Running"
           /\ raise(thrown + 1)
        \/ /\ ~Fits(h + IF accepts(fn, n) THEN size ELSE 0)
           /\ frames' = fs
           /\ top' = IF Fits(h) THEN h ELSE t
           /\ capacity' = grow(top')
           /\ state' = "Crashed"
           /\ UNCHANGED panics

\* push_function_args on a stack of height t, then call_function.
push_args_and_enter(t, fn, argc) ==
    \/ /\ Fits(t + argc)
       /\ enter_function(frames, t + argc, fn, argc, FALSE, t)
    \/ /\ ~Fits(t + argc)
       /\ state' = "Crashed"
       /\ top' = t
       /\ UNCHANGED <<frames, capacity, panics>>

\* Interpreter::run_until_block on a coroutine that was started.
Start(fn, argc) ==
    /\ state = "Started"
    /\ push_args_and_enter(0, fn, argc)

-----------------------------------------------------------------------------
(* Leaving a function. *)

\* Mutant: the unused object of a method call stays on the stack.
popped_keeping_this(f) == f.at - f.argc

\* Mutant: every frame is left as if it had an unused object.
popped_always_one_more(f) == f.at - f.argc - 1

\* Interpreter::pop_frame: the stack height without frame f and its arguments.
popped(f) == f.at - f.argc - IF f.extra THEN 1 ELSE 0

\* Interpreter::return_function
return_function ==
    /\ frames' = SubSeq(frames, 1, Depth - 1)
    /\ top' = popped(Frame) + IF Depth > 1 THEN 1 ELSE 0
    /\ state' = IF Depth > 1 THEN state ELSE "Done"
    /\ UNCHANGED capacity

-----------------------------------------------------------------------------
(* Instructions of a script function. *)

Push ==
    /\ Runs("Code")
    /\ top_value_count < MaxTemps
    /\ \/ /\ Fits(top + 1)
          /\ top' = top + 1
          /\ capacity' = grow(top + 1)
          /\ UNCHANGED state
       \/ /\ ~Fits(top + 1)
          /\ state' = "Crashed"
          /\ UNCHANGED <<top, capacity>>
    /\ UNCHANGED <<frames, panics>>

\* Pop, PopTo and the instructions that collect n values in a container.
Pop(n) ==
    /\ Runs("Code")
    /\ n <= top_value_count
    /\ top' = top - n
    /\ UNCHANGED <<frames, capacity, state, panics>>

\* An instruction fails, or there is nothing to pop.
Throw ==
    /\ Runs("Code")
    /\ raise(thrown + 1)
    /\ UNCHANGED <<memory, state>>

Call(fn, argc) ==
    /\ Runs("Code")
    /\ Depth < MaxFrames
    /\ argc <= top_value_count
    /\ enter_function(frames, top, fn, argc, FALSE, top - argc)

\* CallMethod: the object below the arguments is an argument of a method, and
\* null for an ordinary function, which does not know of it.
CallMethod(fn, argc, is_method) ==
    /\ Runs("Code")
    /\ Depth < MaxFrames
    /\ argc + 1 <= top_value_count
    /\ enter_function(frames, top, fn, argc + IF is_method THEN 1 ELSE 0, ~is_method,
                      top - argc - 1)

\* Return, which the compiler emits after the code of all deferred statements.
\* An exception that was being handled is dropped: the deferred statement
\* returned, or the function left the handler earlier.
Return ==
    /\ Runs("Code")
    /\ Frame.defers = 0
    /\ return_function
    /\ swallowed' = IF Frame.unwinding THEN swallowed \cup {Frame.exception} ELSE swallowed
    /\ UNCHANGED <<flying, result, secondary, thrown, caught, during, leftover>>

\* The end of a handler.
Rethrow ==
    /\ Runs("Code")
    /\ Frame.handling
    /\ flying' = Frame.exception
    /\ UNCHANGED <<memory, state, result, secondary, thrown, caught, during, leftover, swallowed>>

\* A defer statement, and the end of its scope: the following instructions are
\* covered by one handler more, or less.
Defer ==
    /\ Runs("Code")
    /\ Frame.defers < MaxDefers
    /\ frames' = [frames EXCEPT ![Depth].defers = @ + 1]
    /\ UNCHANGED <<top, capacity, state, panics>>

ScopeExit ==
    /\ Runs("Code")
    /\ Frame.defers > Frame.outer
    /\ frames' = [frames EXCEPT ![Depth].defers = @ - 1]
    /\ UNCHANGED <<top, capacity, state, panics>>

\* A deferred statement executes break or continue: the function goes on.
LeaveHandler ==
    /\ Runs("Code")
    /\ Frame.handling
    /\ frames' = [frames EXCEPT ![Depth].handling = FALSE, ![Depth].outer = 0]
    /\ UNCHANGED <<top, capacity, state, panics>>

-----------------------------------------------------------------------------
(* Native functions: Interpreter::run_frame(ResumableFrame).  A native is    *)
(* called once or several times; what an earlier invocation left on the      *)
(* stack, the return value of a function that it called, is removed.         *)

\* Mutant: the return value of the function that was called stays on the stack.
NativeInvokeKeeping(fn, argc) ==
    /\ Runs("Resumable")
    /\ Depth < MaxFrames
    /\ push_args_and_enter(top, fn, argc)

NativeInvoke(fn, argc) ==
    /\ Runs("Resumable")
    /\ Depth < MaxFrames
    /\ push_args_and_enter(values_begin(Depth), fn, argc)

NativeYield ==
    /\ Runs("Resumable")
    /\ state' = "Waiting"
    /\ top' = values_begin(Depth)
    /\ UNCHANGED <<frames, capacity, panics>>

\* The native sets its next state only.
NativeContinue ==
    /\ Runs("Resumable")
    /\ top' = values_begin(Depth)
    /\ UNCHANGED <<frames, capacity, state, panics>>

\* The coroutine is scheduled again.
Resume ==
    /\ state = "Waiting"
    /\ state' = "Running"
    /\ UNCHANGED <<memory, panics>>

NativeReturn ==
    /\ Runs("Resumable")
    /\ return_function
    /\ UNCHANGED panics

NativePanic(e) ==
    /\ Runs("Resumable")
    /\ raise(e)
    /\ top' = values_begin(Depth)
    /\ UNCHANGED <<frames, capacity, state>>

-----------------------------------------------------------------------------
(* catch_panic: Interpreter::run_frame(CatchFrame). *)

CatchCall(fn) ==
    /\ Runs("Catch")
    /\ ~Frame.started
    /\ Depth < MaxFrames
    /\ enter_function([frames EXCEPT ![Depth].started = TRUE], top, fn, 0, FALSE, top)

CatchReturn ==
    /\ Runs("Catch")
    /\ Frame.started
    /\ return_function
    /\ caught' = IF Frame.unwinding THEN caught \cup {Frame.exception} ELSE caught
    /\ UNCHANGED <<flying, result, secondary, thrown, during, leftover, swallowed>>

-----------------------------------------------------------------------------
(* One turn of the loop in Interpreter::unwind. *)

\* BytecodeInterpreter::handle_exception, the first part: an exception that a
\* handler meets is added to the one that is being handled, which goes on.
handle_exception ==
    IF Frame.unwinding
    THEN [exception |-> Frame.exception,
          secondary |-> secondary \cup {<<Frame.exception, flying>>}]
    ELSE [exception |-> flying, secondary |-> secondary]

pop_frame ==
    /\ frames' = SubSeq(frames, 1, Depth - 1)
    /\ top' = popped(Frame)

\* Mutant: handlers are not looked up while another one is being executed.
UnwindCodeOnce ==
    /\ flying # 0 /\ frames # <<>> /\ Frame.type = "Code"
    /\ secondary' = handle_exception.secondary
    /\ \/ /\ Frame.defers > 0 /\ ~Frame.unwinding
          /\ frames' = [frames EXCEPT ![Depth] =
                [Frame EXCEPT !.defers = Frame.defers - 1, !.outer = Frame.defers - 1,
                              !.unwinding = TRUE, !.handling = TRUE,
                              !.exception = handle_exception.exception]]
          /\ flying' = 0
          /\ UNCHANGED top
       \/ /\ Frame.defers = 0 \/ Frame.unwinding
          /\ pop_frame
          /\ flying' = handle_exception.exception
    /\ UNCHANGED <<capacity, state, result, thrown, caught, during, leftover, swallowed>>

\* A script frame: its handler goes on, with the temporary values of the frame
\* as they are, or the frame is left.
UnwindCode ==
    /\ flying # 0 /\ frames # <<>> /\ Frame.type = "Code"
    /\ secondary' = handle_exception.secondary
    /\ \/ /\ Frame.defers > 0
          /\ frames' = [frames EXCEPT ![Depth] =
                [Frame EXCEPT !.defers = Frame.defers - 1, !.outer = Frame.defers - 1,
                              !.unwinding = TRUE, !.handling = TRUE,
                              !.exception = handle_exception.exception]]
          /\ flying' = 0
          /\ UNCHANGED top
       \/ /\ Frame.defers = 0
          /\ pop_frame
          /\ flying' = handle_exception.exception
    /\ UNCHANGED <<capacity, state, result, thrown, caught, during, leftover, swallowed>>

UnwindResumable ==
    /\ flying # 0 /\ frames # <<>> /\ Frame.type = "Resumable"
    /\ pop_frame
    /\ UNCHANGED <<capacity, state, panics>>

UnwindCatch ==
    /\ flying # 0 /\ frames # <<>> /\ Frame.type = "Catch"
    /\ frames' = [frames EXCEPT ![Depth].unwinding = TRUE, ![Depth].exception = flying]
    /\ flying' = 0
    /\ UNCHANGED <<top, capacity, state, result, secondary, thrown, caught, during, leftover, swallowed>>

\* No frame is left: the coroutine completes with the exception.
UnwindDone ==
    /\ flying # 0 /\ frames = <<>>
    /\ result' = flying
    /\ flying' = 0
    /\ state' = "Done"
    /\ UNCHANGED <<memory, secondary, thrown, caught, during, leftover, swallowed>>

-----------------------------------------------------------------------------
Init ==
    /\ frames = <<>>
    /\ top = 0
    /\ capacity = InitialSize - LayoutSize
    /\ state = "Started"
    /\ flying = 0
    /\ result = 0
    /\ secondary = {}
    /\ thrown = 0
    /\ caught = {}
    /\ swallowed = {}
    /\ during = [e \in Exceptions |-> {}]
    /\ leftover = [e \in Exceptions |-> {}]

Script ==
    \/ Push \/ Throw \/ Return \/ Rethrow \/ Defer \/ ScopeExit \/ LeaveHandler
    \/ \E n \in 1 .. MaxTemps : Pop(n)
    \/ \E fn \in Functions, argc \in 0 .. MaxArgs :
          Call(fn, argc) \/ \E is_method \in BOOLEAN : CallMethod(fn, argc, is_method)

Native ==
    \/ NativeContinue \/ NativeYield \/ Resume \/ NativeReturn
    \/ \E fn \in Functions, argc \in 0 .. MaxArgs : NativeInvoke(fn, argc)
    \/ \E e \in Exceptions : NativePanic(e)

CatchPanic == CatchReturn \/ \E fn \in Functions : CatchCall(fn)

Unwind == UnwindCode \/ UnwindResumable \/ UnwindCatch \/ UnwindDone

Next ==
    \/ \E fn \in Functions, argc \in 0 .. MaxArgs : Start(fn, argc)
    \/ Script \/ Native \/ CatchPanic \/ Unwind

Spec == Init /\ [][Next]_vars

-----------------------------------------------------------------------------
(* Properties. *)

FrameTypes == {"Code", "Resumable", "Catch"}

FrameRecords ==
    [type : FrameTypes, at : Nat, argc : Nat, extra : BOOLEAN, base : Nat, started : BOOLEAN,
     unwinding : BOOLEAN, exception : 0 .. MaxThrown, defers : Nat, handling : BOOLEAN,
     outer : Nat]

\* Every variable has its type; addresses do not become negative.
TypeOK ==
    /\ frames \in Seq(FrameRecords)
    /\ top \in Nat
    /\ capacity \in Nat
    /\ state \in {"Started", "Running", "Waiting", "Done", "Crashed"}
    /\ flying \in 0 .. MaxThrown
    /\ result \in 0 .. MaxThrown
    /\ secondary \subseteq Exceptions \X Exceptions
    /\ thrown \in 0 .. MaxThrown
    /\ caught \subseteq Exceptions
    /\ swallowed \subseteq Exceptions
    /\ during \in [Exceptions -> SUBSET Exceptions]
    /\ leftover \in [Exceptions -> SUBSET Exceptions]

\* The layout of the stack: every frame lies above the temporaries of its
\* caller, its arguments (and the unused object of a method call) are such
\* temporaries, and nothing lies beyond the end, although return_function pushes
\* the result without asking for room.
StackLayout ==
    /\ \A i \in 1 .. Depth : popped(frames[i]) >= values_begin(i - 1)
    /\ values_begin(Depth) <= top
    /\ top <= capacity

\* A call that returns leaves the caller's temporaries as they were before the
\* call was prepared, plus the result: whatever was called, as function, method
\* or bound method, and however its own frame was used.
CallsBalanced ==
    [][flying = 0 /\ Len(frames') < Depth /\ Len(frames') > 0 => top' = Frame.base + 1]_vars

\* "expected zero or one top values in resumable function frame"
\* (ResumableFrameContext::invoke_return) and "missing return value on the stack"
\* (run_frame of a catch frame): a native that is executed finds at most the
\* result of its last call, a catch frame exactly that.
ResultSlot ==
    /\ Runs("Resumable") => top_value_count \in {0, 1}
    /\ Runs("Catch") /\ Frame.started /\ ~Frame.unwinding => top_value_count = 1

\* Unwinding removes a script frame only after all its deferred statements have
\* been executed, and never removes a catch frame.
UnwindStopsAtHandlers ==
    [][flying # 0 /\ Len(frames') < Depth => Frame.type # "Catch" /\ Frame.defers = 0]_vars

\* No exception is forgotten: as long as the program runs it is in flight, kept
\* by a frame, listed with another exception, handed to catch_panic's caller,
\* the result of the coroutine, or dropped by a return statement of the function
\* that handled it.
ExceptionsAccounted ==
    \A e \in 1 .. thrown :
        \/ e \in {flying, result} \cup caught \cup swallowed
        \/ \E i \in 1 .. Depth : frames[i].exception = e
        \/ \E p \in Exceptions : p # e /\ <<p, e>> \in secondary

\* "Secondary exceptions are exceptions that occur while a primary exception (the
\* original error) is already being handled" (Exception::add_secondary) is true of
\* the code with two exceptions, both made by handle_exception: an exception that
\* reaches the end of its handler is added to itself, and a function that has left
\* a handler with break or continue still takes what it meets later for a secondary
\* exception of the one that it had handled.
SecondaryJustified ==
    \A e, f \in Exceptions :
        <<e, f>> \in secondary => e = f \/ e \in during[f] \/ e \in leftover[f]

\* A panic is handled: unwinding never leaves a function before all its deferred statements are
\* done, and never catch_panic; a thrown exception is current, saved by a handler, attached to
\* another one, handed out or dropped by the return of its handler; and a secondary exception is
\* the primary one itself, which ended its handler, or was thrown while the primary one was
\* handled or, after break or continue, still marked as handled (handle_exception and unwind in
\* interpreter.cpp).
PanicsHandled == []ExceptionsAccounted /\ []SecondaryJustified /\ UnwindStopsAtHandlers
=============================================================================
