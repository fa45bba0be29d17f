----------------------------- MODULE Scheduler -----------------------------
(***************************************************************************)
(* The cooperative coroutine scheduler of the virtual machine: the ready   *)
(* list and the run loop of Context, the coroutine life cycle and its      *)
(* resume tokens, the part of Interpreter that enters and leaves frames,   *)
(* the async native function protocol and the completion callbacks.        *)
(*                                                                         *)
(* The VM is single threaded.  Control is at one of five places, told      *)
(* apart by three variables of the code: the host program (~running), the  *)
(* head of the loop in Context::run_ready (current = finishing = NoCoro),  *)
(* script code or a native function of coroutine `current`, or a           *)
(* completion callback of coroutine `finishing`.  The host, a native       *)
(* function and a callback may call the C API; that is where orders of     *)
(* steps arise that no single piece of code determines.                    *)
(*                                                                         *)
(* What scripts and native functions do is nondeterministic; values are    *)
(* abstracted to the identity of the async call that produced them.        *)
(***************************************************************************)
EXTENDS Integers, Sequences, FiniteSets

CONSTANTS
    Coroutines,    \* the coroutine objects that may be created
    NoCoro,        \* the null reference
    EntryKinds,    \* what may be passed to make_coroutine, a subset of FrameTypes \cup {"NotCallable"}
    Observed,      \* the coroutines on which the host may set a callback
    MaxDepth,      \* bound on call frames per coroutine
    MaxTokens,     \* bound on resume tokens per coroutine
    MaxCalls,      \* bound on async calls per coroutine
    MaxFaults      \* bound on coroutines lost to C++ exceptions

\* The functions that matter to the scheduler: bytecode, async natives, and the
\* builtins std.yield_coroutine and std.dispatch (both sync native functions).
FrameTypes == {"Code", "Async", "Yield", "Dispatch"}

ASSUME ConstantsAssumption ==
    /\ NoCoro \notin Coroutines
    /\ EntryKinds \subseteq FrameTypes \cup {"NotCallable"}
    /\ Observed \subseteq Coroutines
    /\ MaxDepth \in Nat \ {0} /\ MaxTokens \in Nat /\ MaxCalls \in Nat /\ MaxFaults \in Nat

VARIABLES
    state,       \* Coroutine::state(), "None" before make_coroutine
    entry,       \* Coroutine::function()
    stack,       \* Coroutine::stack(), the frames from the bottom to the top
    calls,       \* async calls made so far: identifies an async frame
    made,        \* resume tokens made so far: identifies a token
    token,       \* Coroutine::current_token(), 0 is null
    next_ready,  \* Coroutine::next_ready()
    first_ready, \* RootSet::get_first_ready()
    last_ready,  \* RootSet::get_last_ready()
    queue,       \* history variable: the coroutines on the ready list, in order
    callback,    \* is Coroutine::native_callback() set?
    notified,    \* how often the completion callback has been invoked
    running,     \* Context::running_
    current,     \* Interpreter::current_coroutine()
    finishing,   \* the coroutine whose callback is being executed
    scripts,     \* the tokens that script code holds
    natives,     \* the async resume tokens that native code holds
    lost         \* history variable: the coroutines an exception threw out of the interpreter

list  == <<first_ready, last_ready, next_ready, queue>>
coros == <<state, entry, stack, calls, made, token, callback, notified>>
loop  == <<running, current, finishing>>
held  == <<scripts, natives>>
vars  == <<list, coros, loop, held, lost>>

NoResult == [call |-> 0, panic |-> FALSE]

\* A resumable frame knows its state and the async locals; the call number
\* identifies the frame and is 0 for everything but async frames.
Frame(kind, call) ==
    [type |-> kind, state |-> "START", call |-> call, result |-> NoResult]

Frames ==
    [type : FrameTypes, state : {"START", "RESUME"}, call : Nat,
     result : [call : Nat, panic : BOOLEAN]]

States == {"None", "New", "Started", "Ready", "Running", "Waiting", "Done"}

is_runnable(s) == s \in {"Started", "Ready"}

Top(c) == stack[c][Len(stack[c])]
Pop(c) == SubSeq(stack[c], 1, Len(stack[c]) - 1)

\* The body of an async native function is on top of the C++ stack.
InNative == /\ current # NoCoro
            /\ Top(current).type = "Async"
            /\ Top(current).state = "START"

\* The places where the embedding program gets to call the C API.
InApi == ~running \/ finishing # NoCoro \/ InNative

\* Script code of coroutine c is being interpreted.
InScript(c) == current = c /\ Top(c).type = "Code"

-----------------------------------------------------------------------------
(* The ready list. *)

\* Mutant: the coroutine becomes the head of the list.
schedule_at_front(c) ==
    /\ first_ready' = c
    /\ next_ready' = [next_ready EXCEPT ![c] = first_ready]
    /\ last_ready' = IF last_ready = NoCoro THEN c ELSE last_ready
    /\ queue' = <<c>> \o queue

schedule_coroutine(c) ==
    /\ first_ready' = IF last_ready = NoCoro THEN c ELSE first_ready
    /\ next_ready' = IF last_ready = NoCoro THEN next_ready
                     ELSE [next_ready EXCEPT ![last_ready] = c]
    /\ last_ready' = c
    /\ queue' = Append(queue, c)

\* Mutant: last_ready keeps pointing at the coroutine that was removed.
dequeue_keeping_last ==
    /\ first_ready' = next_ready[first_ready]
    /\ next_ready' = [next_ready EXCEPT ![first_ready] = NoCoro]
    /\ last_ready' = last_ready
    /\ queue' = Tail(queue)

\* Mutant: next_ready is cleared before it is read, the rest of the list is lost.
dequeue_losing_rest ==
    /\ first_ready' = NoCoro
    /\ next_ready' = [next_ready EXCEPT ![first_ready] = NoCoro]
    /\ last_ready' = NoCoro
    /\ queue' = Tail(queue)

dequeue_coroutine ==
    /\ first_ready' = next_ready[first_ready]
    /\ next_ready' = [next_ready EXCEPT ![first_ready] = NoCoro]
    /\ last_ready' = IF next_ready[first_ready] = NoCoro THEN NoCoro ELSE last_ready
    /\ queue' = Tail(queue)

-----------------------------------------------------------------------------
(* Operations of the C API, called by the host, a native or a callback.    *)

\* tiro_make_coroutine
MakeCoroutine(c, kind) ==
    /\ InApi
    /\ state[c] = "None"
    /\ state' = [state EXCEPT ![c] = "New"]
    /\ entry' = [entry EXCEPT ![c] = kind]
    /\ UNCHANGED <<list, stack, calls, made, token, callback, notified, loop, held, lost>>

\* tiro_coroutine_start, Context::start: refused unless the coroutine is new.
Start(c) ==
    /\ InApi
    /\ state[c] = "New"
    /\ state' = [state EXCEPT ![c] = "Started"]
    /\ schedule_coroutine(c)
    /\ UNCHANGED <<entry, stack, calls, made, token, callback, notified, loop, held, lost>>

\* tiro_coroutine_set_callback on a coroutine in any state, completed ones included.
SetCallback(c) ==
    /\ InApi
    /\ state[c] # "None"
    /\ callback' = [callback EXCEPT ![c] = TRUE]
    /\ UNCHANGED <<list, state, entry, stack, calls, made, token, notified, loop, held, lost>>

\* Context::run_init (module initialisation): the coroutine is made and
\* scheduled first; a nested call then fails in run_ready and leaves it there.
RunInit(c, kind) ==
    /\ InApi
    /\ state[c] = "None"
    /\ state' = [state EXCEPT ![c] = "Started"]
    /\ entry' = [entry EXCEPT ![c] = kind]
    /\ schedule_coroutine(c)
    /\ running' = TRUE
    /\ UNCHANGED <<stack, calls, made, token, callback, notified, current, finishing, held, lost>>

\* CoroutineToken::valid, for the token number n of coroutine c.
valid(c, n) == token[c] = n

\* Mutant: the token stays usable after the coroutine was resumed.
resume_keeping_token(c) ==
    /\ token' = token
    /\ state' = [state EXCEPT ![c] = "Ready"]
    /\ schedule_coroutine(c)

\* Context::resume_coroutine
resume_coroutine(c) ==
    /\ token' = [token EXCEPT ![c] = 0]
    /\ state' = [state EXCEPT ![c] = "Ready"]
    /\ schedule_coroutine(c)

\* UnownedAsyncResumeToken::complete: refused for the coroutine that is
\* executing, for a stale token and for a coroutine that is not waiting.  The
\* result goes to a local of whatever frame is on top.
CompleteAsync(t, panic) ==
    /\ InApi
    /\ t \in natives
    /\ t.coro # current
    /\ valid(t.coro, t.token) /\ state[t.coro] = "Waiting"
    /\ resume_coroutine(t.coro)
    /\ stack' = [stack EXCEPT ![t.coro][Len(stack[t.coro])].result =
                    [call |-> t.call, panic |-> panic]]
    /\ UNCHANGED <<entry, calls, made, callback, notified, loop, held, lost>>

\* tiro_async_token_free
FreeToken(t) ==
    /\ InApi
    /\ t \in natives
    /\ natives' = natives \ {t}
    /\ UNCHANGED <<list, coros, loop, scripts, lost>>

-----------------------------------------------------------------------------
(* The run loop. *)

\* Context::run_ready, entered by the host.
RunReady ==
    /\ ~running
    /\ running' = TRUE
    /\ UNCHANGED <<list, coros, current, finishing, held, lost>>

AtLoopHead == running /\ current = NoCoro /\ finishing = NoCoro

\* Mutant: the callback is not invoked for a coroutine without a token.
LeaveWithoutCallback(c, s) ==
    /\ state' = [state EXCEPT ![c] = s]
    /\ current' = IF s = "Running" THEN c ELSE NoCoro
    /\ token' = IF s \in {"Ready", "Done"} THEN [token EXCEPT ![c] = 0] ELSE token
    /\ finishing' = IF s = "Done" /\ callback[c] /\ token[c] # 0 THEN c ELSE finishing
    /\ notified' = IF s = "Done" /\ callback[c] /\ token[c] # 0
                   THEN [notified EXCEPT ![c] = @ + 1] ELSE notified

\* What happens when a frame of c has been run and c is in state s: while s is
\* Running the interpreter goes on; otherwise Interpreter::run returns, and for
\* a completed coroutine run_ready drops the token and invokes the callback.
\* (Ready is only reached through resume_coroutine, which drops the token too.)
Leave(c, s) ==
    /\ state' = [state EXCEPT ![c] = s]
    /\ current' = IF s = "Running" THEN c ELSE NoCoro
    /\ token' = IF s \in {"Ready", "Done"} THEN [token EXCEPT ![c] = 0] ELSE token
    /\ finishing' = IF s = "Done" /\ callback[c] THEN c ELSE finishing
    /\ notified' = IF s = "Done" /\ callback[c]
                   THEN [notified EXCEPT ![c] = @ + 1] ELSE notified

\* The loop takes the next coroutine and runs it: the first time its function
\* is called, later its top frame goes on.  Calling something that is not
\* callable unwinds the empty stack and completes the coroutine at once.
RunNext ==
    /\ AtLoopHead
    /\ first_ready # NoCoro
    /\ is_runnable(state[first_ready])
    /\ LET c == first_ready
           kind == entry[c]
           call == IF kind = "Async" THEN calls[c] + 1 ELSE 0
       IN  \/ /\ state[c] = "Started" /\ kind # "NotCallable"
              /\ stack' = [stack EXCEPT ![c] = <<Frame(kind, call)>>]
              /\ calls' = [calls EXCEPT ![c] = IF kind = "Async" THEN @ + 1 ELSE @]
              /\ Leave(c, "Running")
           \/ /\ state[c] = "Started" /\ kind = "NotCallable"
              /\ Leave(c, "Done")
              /\ UNCHANGED <<stack, calls>>
           \/ /\ state[c] = "Ready"
              /\ Leave(c, "Running")
              /\ UNCHANGED <<stack, calls>>
    /\ dequeue_coroutine
    /\ UNCHANGED <<entry, made, callback, running, held, lost>>

\* Mutant: the loop stops after one coroutine.
LeaveLoop_early ==
    /\ AtLoopHead
    /\ running' = FALSE
    /\ UNCHANGED <<list, coros, current, finishing, held, lost>>

\* run_ready returns to the host when the list is empty.
LeaveLoop ==
    /\ AtLoopHead
    /\ first_ready = NoCoro
    /\ running' = FALSE
    /\ UNCHANGED <<list, coros, current, finishing, held, lost>>

\* The completion callback returns.
CallbackReturns ==
    /\ finishing # NoCoro
    /\ finishing' = NoCoro
    /\ UNCHANGED <<list, coros, running, current, held, lost>>

\* An exception (out of memory, stack overflow, an error raised by a builtin)
\* leaves Interpreter::run and run_ready through their scope guards.
Throw ==
    /\ current # NoCoro
    /\ Cardinality(lost) < MaxFaults
    /\ lost' = lost \cup {current}
    /\ current' = NoCoro
    /\ running' = FALSE
    /\ UNCHANGED <<list, coros, finishing, held>>

\* The first call of a coroutine that was taken off the list fails: copying its arguments to the
\* stack overflows before the state is changed, or entering the function does after it.
ThrowAtStart ==
    /\ AtLoopHead
    /\ Cardinality(lost) < MaxFaults
    /\ first_ready # NoCoro /\ state[first_ready] = "Started"
    /\ \E s \in {"Started", "Running"} : state' = [state EXCEPT ![first_ready] = s]
    /\ lost' = lost \cup {first_ready}
    /\ dequeue_coroutine
    /\ running' = FALSE
    /\ UNCHANGED <<entry, stack, calls, made, token, callback, notified, current, finishing, held>>

\* The loop meets a coroutine that is not runnable: run_until_block raises an error.
MeetCompleted ==
    /\ AtLoopHead
    /\ first_ready # NoCoro /\ ~is_runnable(state[first_ready])
    /\ dequeue_coroutine
    /\ running' = FALSE
    /\ UNCHANGED <<coros, current, finishing, held, lost>>

-----------------------------------------------------------------------------
(* Frames. *)

\* Interpreter::return_function, for the state s the native left behind.
return_function(c, s) ==
    /\ stack' = [stack EXCEPT ![c] = Pop(c)]
    /\ Leave(c, IF Len(stack[c]) = 1 THEN "Done" ELSE s)

\* Interpreter::unwind: frames are popped until one has a handler (bytecode or
\* catch_panic, both "Code" here), or the coroutine completes with an error.
unwind(c) ==
    \E k \in 0 .. Len(stack[c]) :
        /\ k > 0 => stack[c][k].type = "Code"
        /\ stack' = [stack EXCEPT ![c] = SubSeq(@, 1, k)]
        /\ Leave(c, IF k = 0 THEN "Done" ELSE "Running")

\* Mutant: the number of a new token is not used up.
create_token_again(c) ==
    /\ made' = made
    /\ token' = IF token[c] = 0 THEN [token EXCEPT ![c] = made[c] + 1] ELSE token

\* Coroutine::create_token: the cached token, or a new one.
create_token(c) ==
    /\ made' = IF token[c] = 0 THEN [made EXCEPT ![c] = @ + 1] ELSE made
    /\ token' = IF token[c] = 0 THEN [token EXCEPT ![c] = made[c] + 1] ELSE token

\* Script code calls a function; the interpreter enters it.
Call(c, kind) ==
    /\ InScript(c)
    /\ Len(stack[c]) < MaxDepth
    /\ kind = "Async" => calls[c] < MaxCalls
    /\ stack' = [stack EXCEPT ![c] =
                    Append(@, Frame(kind, IF kind = "Async" THEN calls[c] + 1 ELSE 0))]
    /\ calls' = IF kind = "Async" THEN [calls EXCEPT ![c] = @ + 1] ELSE calls
    /\ UNCHANGED <<list, state, entry, made, token, callback, notified, loop, held, lost>>

\* The script function returns.
Return(c) ==
    /\ InScript(c)
    /\ return_function(c, "Running")
    /\ UNCHANGED <<list, entry, calls, made, callback, running, held, lost>>

\* The script function panics.
Panic(c) ==
    /\ InScript(c)
    /\ unwind(c)
    /\ UNCHANGED <<list, entry, calls, made, callback, running, held, lost>>

\* std.launch
Launch(c, d, kind) ==
    /\ InScript(c)
    /\ state[d] = "None"
    /\ state' = [state EXCEPT ![d] = "Started"]
    /\ entry' = [entry EXCEPT ![d] = kind]
    /\ schedule_coroutine(d)
    /\ UNCHANGED <<stack, calls, made, token, callback, notified, loop, held, lost>>

\* std.coroutine_token
CoroutineToken(c) ==
    /\ InScript(c)
    /\ token[c] = 0 => made[c] < MaxTokens
    /\ create_token(c)
    /\ scripts' = scripts \cup {[coro |-> c, token |-> token'[c]]}
    /\ UNCHANGED <<list, state, entry, stack, calls, callback, notified, loop, natives, lost>>

\* Mutant: a valid token is enough, the state is not checked.
ResumeTokenUnchecked(c, t) ==
    /\ InScript(c)
    /\ t \in scripts
    /\ valid(t.coro, t.token)
    /\ resume_coroutine(t.coro)
    /\ UNCHANGED <<entry, stack, calls, made, callback, notified, loop, held, lost>>

\* CoroutineToken::resume called by script code: a stale token, or a coroutine
\* that is not waiting, makes it return false and changes nothing.
ResumeToken(c, t) ==
    /\ InScript(c)
    /\ t \in scripts
    /\ valid(t.coro, t.token) /\ state[t.coro] = "Waiting"
    /\ resume_coroutine(t.coro)
    /\ UNCHANGED <<entry, stack, calls, made, callback, notified, loop, held, lost>>

\* std.yield_coroutine marks the coroutine as waiting and then returns.
Yield(c) ==
    /\ current = c /\ Top(c).type = "Yield"
    /\ return_function(c, "Waiting")
    /\ UNCHANGED <<list, entry, calls, made, callback, running, held, lost>>

\* std.dispatch puts the running coroutine back on the list and then returns.
Dispatch(c) ==
    /\ current = c /\ Top(c).type = "Dispatch"
    /\ schedule_coroutine(c)
    /\ return_function(c, "Ready")
    /\ UNCHANGED <<entry, calls, made, callback, running, held, lost>>

\* An async function asks for a token (tiro_async_frame_token).
AsyncToken(c) ==
    /\ current = c /\ InNative
    /\ token[c] = 0 => made[c] < MaxTokens
    /\ create_token(c)
    /\ natives' = natives \cup {[coro |-> c, token |-> token'[c], call |-> Top(c).call]}
    /\ UNCHANGED <<list, state, entry, stack, calls, callback, notified, loop, scripts, lost>>

\* The async function returns after tiro_async_frame_yield.
AsyncYield(c) ==
    /\ current = c /\ InNative
    /\ stack' = [stack EXCEPT ![c][Len(stack[c])].state = "RESUME"]
    /\ Leave(c, "Waiting")
    /\ UNCHANGED <<list, entry, calls, made, callback, running, held, lost>>

\* The documented protocol (tiro_async_frame_token): a native that keeps its
\* token yields.  One that does not yield has freed the token it took.
KeepsToken(c) == \E t \in natives : t.coro = c /\ t.call = Top(c).call

\* The async function returns with a value, or with nothing, which is null.
AsyncReturn(c) ==
    /\ current = c /\ InNative
    /\ ~KeepsToken(c)
    /\ return_function(c, "Running")
    /\ UNCHANGED <<list, entry, calls, made, callback, running, held, lost>>

\* The async function panics.
AsyncPanic(c) ==
    /\ current = c /\ InNative
    /\ ~KeepsToken(c)
    /\ unwind(c)
    /\ UNCHANGED <<list, entry, calls, made, callback, running, held, lost>>

\* An async frame that was resumed: AsyncAdapter panics or returns, as its locals say.
AsyncResume(c) ==
    /\ current = c /\ Top(c).type = "Async" /\ Top(c).state = "RESUME"
    /\ IF Top(c).result.panic THEN unwind(c) ELSE return_function(c, "Running")
    /\ UNCHANGED <<list, entry, calls, made, callback, running, held, lost>>

-----------------------------------------------------------------------------
Init ==
    /\ state = [c \in Coroutines |-> "None"]
    /\ entry = [c \in Coroutines |-> "NotCallable"]
    /\ stack = [c \in Coroutines |-> <<>>]
    /\ calls = [c \in Coroutines |-> 0]
    /\ made = [c \in Coroutines |-> 0]
    /\ token = [c \in Coroutines |-> 0]
    /\ next_ready = [c \in Coroutines |-> NoCoro]
    /\ first_ready = NoCoro
    /\ last_ready = NoCoro
    /\ queue = <<>>
    /\ callback = [c \in Coroutines |-> FALSE]
    /\ notified = [c \in Coroutines |-> 0]
    /\ running = FALSE
    /\ current = NoCoro
    /\ finishing = NoCoro
    /\ scripts = {}
    /\ natives = {}
    /\ lost = {}

\* What the embedding program does through the C API.
Api ==
    \/ \E c \in Coroutines : Start(c)
    \/ \E c \in Observed : SetCallback(c)
    \/ \E c \in Coroutines, kind \in EntryKinds : MakeCoroutine(c, kind) \/ RunInit(c, kind)
    \/ \E t \in natives : FreeToken(t) \/ \E panic \in BOOLEAN : CompleteAsync(t, panic)

\* What coroutine c does while it stays in control.
Work(c) ==
    \/ \E kind \in FrameTypes : Call(c, kind)
    \/ \E d \in Coroutines, kind \in EntryKinds : Launch(c, d, kind)
    \/ \E t \in scripts : ResumeToken(c, t)
    \/ CoroutineToken(c) \/ AsyncToken(c)

\* What coroutine c does to reach the end of its turn.
Progress(c) ==
    \/ Return(c) \/ Panic(c) \/ Yield(c) \/ Dispatch(c)
    \/ AsyncYield(c) \/ AsyncReturn(c) \/ AsyncPanic(c) \/ AsyncResume(c)

Loop == RunReady \/ RunNext \/ MeetCompleted \/ LeaveLoop \/ CallbackReturns

Exception == Throw \/ ThrowAtStart

Next == Api \/ Loop \/ Exception \/ \E c \in Coroutines : Work(c) \/ Progress(c)

Spec == Init /\ [][Next]_vars

\* The turn of coroutine c ends.
EndTurn(c) == Progress(c) /\ current' # c

\* The host calls run_ready again and again and callbacks return; coroutines
\* are cooperative: a script neither computes forever without giving up control
\* nor does a native function block.
Fairness ==
    /\ WF_vars(Loop)
    /\ \A c \in Coroutines : WF_vars(Progress(c)) /\ SF_vars(EndTurn(c))

FairSpec == Spec /\ Fairness

-----------------------------------------------------------------------------
(* Properties. *)

TokenIds == [coro : Coroutines, token : Nat]

\* Every variable has the type the code gives it, and a cached token is one that was made.
TypeOK ==
    /\ state \in [Coroutines -> States]
    /\ entry \in [Coroutines -> FrameTypes \cup {"NotCallable"}]
    /\ stack \in [Coroutines -> Seq(Frames)]
    /\ calls \in [Coroutines -> Nat]
    /\ made \in [Coroutines -> Nat]
    /\ token \in [Coroutines -> Nat] /\ \A c \in Coroutines : token[c] <= made[c]
    /\ next_ready \in [Coroutines -> Coroutines \cup {NoCoro}]
    /\ first_ready \in Coroutines \cup {NoCoro}
    /\ last_ready \in Coroutines \cup {NoCoro}
    /\ queue \in Seq(Coroutines)
    /\ callback \in [Coroutines -> BOOLEAN]
    /\ notified \in [Coroutines -> Nat]
    /\ running \in BOOLEAN
    /\ current \in Coroutines \cup {NoCoro}
    /\ finishing \in Coroutines \cup {NoCoro}
    /\ scripts \subseteq TokenIds
    /\ natives \subseteq [coro : Coroutines, token : Nat, call : Nat]
    /\ lost \subseteq Coroutines

\* The intrusive list threaded through first_ready, next_ready and last_ready
\* holds exactly the coroutines that were scheduled and not yet dequeued, once
\* each and in order, and a coroutine off the list is not linked: what
\* schedule_coroutine asserts ("Runnable coroutine must not be linked").
ReadyListShape ==
    /\ \A i, j \in DOMAIN queue : queue[i] = queue[j] => i = j
    /\ first_ready = IF queue = <<>> THEN NoCoro ELSE queue[1]
    /\ last_ready = IF queue = <<>> THEN NoCoro ELSE queue[Len(queue)]
    /\ \A i \in DOMAIN queue :
          next_ready[queue[i]] = IF i = Len(queue) THEN NoCoro ELSE queue[i + 1]
    /\ \A c \in Coroutines : (\A i \in DOMAIN queue : queue[i] # c) => next_ready[c] = NoCoro

Queued(c) == \E i \in DOMAIN queue : queue[i] = c

\* Every runnable coroutine is on the ready list unless an exception threw it out of its first call,
\* and the loop of run_ready only meets what run_until_block can run.  The exception: a coroutine
\* whose own function is std.dispatch completes in the step in which it puts itself on the list.
RunnableIffQueued ==
    \A c \in Coroutines :
       /\ Queued(c) => /\ c \notin lost
                       /\ is_runnable(state[c]) \/ (state[c] = "Done" /\ entry[c] = "Dispatch")
       /\ is_runnable(state[c]) /\ c \notin lost => Queued(c)

\* The coroutines that are marked running, or started without being on the list, are the one the
\* interpreter is executing and those that an exception threw out of it: nothing gets them back.
RunningAccounted ==
    {c \in Coroutines : state[c] = "Running" \/ (is_runnable(state[c]) /\ ~Queued(c))}
        = lost \cup ({current} \ {NoCoro})

\* A completion callback is invoked at most once, and only for a coroutine that
\* has completed, however often callbacks are set, coroutines started and
\* tokens used in the meantime.
NotifiedOnce ==
    \A c \in Coroutines : notified[c] <= 1 /\ (notified[c] = 1 => state[c] = "Done")

\* The callback that is set is invoked in the step in which its coroutine completes, and in no other.
NotifiedWhenDone ==
    [][\A c \in Coroutines :
         notified'[c] = notified[c]
            + (IF callback[c] /\ state[c] # "Done" /\ state'[c] = "Done" THEN 1 ELSE 0)]_vars

\* An async resume token that can still be used leads to the frame of the very call it
\* was made for, waiting for its result: UnownedAsyncResumeToken::get_frame
\* relies on it and takes whatever frame is on top.
TokenReachesItsFrame ==
    \A t \in natives :
        valid(t.coro, t.token) /\ state[t.coro] = "Waiting"
        => /\ Len(stack[t.coro]) > 0
           /\ Top(t.coro).type = "Async"
           /\ Top(t.coro).state = "RESUME"
           /\ Top(t.coro).call = t.call

\* A completed coroutine stays completed: no token, no queue entry and no API
\* call brings it back.
DoneIsFinal ==
    [][\A c \in Coroutines :
         state[c] = "Done" => state'[c] = "Done" /\ stack'[c] = <<>> /\ token'[c] = 0]_vars

\* "Returns (and does not block) when all coroutines are either waiting or done"
\* (tiro_vm_run_ready): when the loop ends without an exception (which would have lost a coroutine
\* or come with one taken off the list), nothing that could run is left behind, whatever callbacks
\* and natives scheduled meanwhile, but what earlier exceptions lost.
RunReadyDrains ==
    [][running /\ ~running' /\ UNCHANGED <<queue, lost>>
         => \A c \in Coroutines : is_runnable(state[c]) => c \in lost]_vars

\* What the scheduler's user sees of a coroutine's state.
Status(c) ==
    IF Queued(c) THEN "ready"
    ELSE IF c \in lost THEN "lost"
    ELSE IF c = current THEN "active"
    ELSE CASE state[c] \in {"None", "New"} -> "inactive"
           [] state[c] = "Waiting"         -> "waiting"
           [] state[c] = "Done"            -> "done"
           [] OTHER                        -> "invalid"

Fifo == INSTANCE FifoScheduler
            WITH status <- [c \in Coroutines |-> Status(c)], active <- current, None <- NoCoro

\* The scheduler behaves like a queue of coroutines, one of which is in control:
\* every step of the ready list, the run loop, tokens, builtins and API calls
\* is a step of the queue or changes nothing about it.
ImplementsFifo == Fifo!Spec

\* The same with progress: while nobody is in control, the head gets control.
ImplementsFairFifo == Fifo!FairSpec

\* Every coroutine on the ready list is executed eventually, even if others keep dispatching
\* themselves, unless an exception throws it out of its first call.
NoStarvation ==
    \A c \in Coroutines : Queued(c) ~> (current = c \/ state[c] = "Done" \/ c \in lost)

\* A callback that is set when its coroutine completes is invoked exactly once, in that very step,
\* and none is invoked otherwise; nothing changes the state of a completed coroutine or gives it a
\* token or a frame again (Context::run_ready, Context::execute_callbacks, Interpreter::run_frame).
CompletionFinal == []NotifiedOnce /\ NotifiedWhenDone /\ DoneIsFinal

\* Run_ready loses nobody: the coroutines marked running, or started and off the list, are the one
\* being executed and those an exception threw out of Interpreter::run (interpreter.cpp:962-974:
\* marked running or still marked started), and a normal return leaves nothing else runnable.
NoCoroutineLost == []RunningAccounted /\ RunReadyDrains

\* Every coroutine on the ready list is executed eventually, as the head of an abstract queue whose
\* head always gets control (Context::run_ready, called again and again by the host).
ServedFairly == NoStarvation /\ ImplementsFairFifo
=============================================================================
