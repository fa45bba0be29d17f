-------------------------- MODULE SchedulerProofs --------------------------
(***************************************************************************)
(* Proofs about the scheduler, for any number of coroutines, any depth of  *)
(* calls, any number of tokens and exceptions.                             *)
(***************************************************************************)
EXTENDS Scheduler, SequenceTheorems, FiniteSetTheorems, TLAPS

USE ConstantsAssumption DEF list, coros, loop, held

\* Control is where the code believes it to be: the current coroutine is
\* running, inside run_ready, and has a frame; so has every coroutine that was
\* resumed or can be.
ControlOK ==
    /\ current # NoCoro => /\ state[current] = "Running" /\ running /\ finishing = NoCoro
                           /\ current \notin lost /\ stack[current] # <<>>
    /\ \A c \in Coroutines : state[c] \in {"Ready", "Waiting"} => stack[c] # <<>>

\* The effect of Leave on the variables it assigns.
LEMMA LeaveType ==
    ASSUME TypeOK, NEW c \in Coroutines, NEW s \in States, Leave(c, s)
    PROVE  /\ state' \in [Coroutines -> States]
           /\ current' \in Coroutines \cup {NoCoro}
           /\ token' \in [Coroutines -> Nat]
           /\ \A d \in Coroutines : token'[d] <= made[d]
           /\ finishing' \in Coroutines \cup {NoCoro}
           /\ notified' \in [Coroutines -> Nat]
  BY DEF Leave, TypeOK, States

LEMMA ScheduleType ==
    ASSUME TypeOK, NEW c \in Coroutines, schedule_coroutine(c)
    PROVE  /\ next_ready' \in [Coroutines -> Coroutines \cup {NoCoro}]
           /\ first_ready' \in Coroutines \cup {NoCoro}
           /\ last_ready' \in Coroutines \cup {NoCoro}
           /\ queue' \in Seq(Coroutines)
  BY DEF schedule_coroutine, TypeOK

LEMMA CreateTokenType ==
    ASSUME TypeOK, NEW c \in Coroutines, create_token(c)
    PROVE  /\ made' \in [Coroutines -> Nat]
           /\ token' \in [Coroutines -> Nat]
           /\ \A d \in Coroutines : token'[d] <= made'[d]
  <1>1. CASE token[c] = 0
    <2>1. /\ made' = [made EXCEPT ![c] = made[c] + 1]
          /\ token' = [token EXCEPT ![c] = made[c] + 1]
      BY <1>1 DEF create_token
    <2>2. /\ made \in [Coroutines -> Nat] /\ token \in [Coroutines -> Nat]
          /\ \A d \in Coroutines : token[d] <= made[d]
      BY DEF TypeOK
    <2> QED BY <2>1, <2>2
  <1>2. CASE token[c] # 0
    BY <1>2 DEF create_token, TypeOK
  <1> QED BY <1>1, <1>2

\* Frames that are pushed, popped and written to are frames.
LEMMA FrameType ==
    ASSUME NEW kind \in FrameTypes, NEW call \in Nat
    PROVE  Frame(kind, call) \in Frames
  BY DEF Frame, Frames, NoResult

LEMMA PopType ==
    ASSUME TypeOK, NEW c \in Coroutines, NEW k \in 0 .. Len(stack[c])
    PROVE  SubSeq(stack[c], 1, k) \in Seq(Frames)
  BY DEF TypeOK

LEMMA ReturnType ==
    ASSUME TypeOK, NEW c \in Coroutines, stack[c] # <<>>, NEW s \in States,
           return_function(c, s)
    PROVE  /\ stack' \in [Coroutines -> Seq(Frames)]
           /\ \E r \in States : Leave(c, r)
  <1>0. stack[c] \in Seq(Frames)
    BY DEF TypeOK
  <1>1. Len(stack[c]) - 1 \in 0 .. Len(stack[c])
    BY <1>0, EmptySeq, LenProperties
  <1>2. Pop(c) \in Seq(Frames)
    BY <1>1, PopType DEF Pop
  <1> QED BY <1>2 DEF return_function, TypeOK, States

LEMMA UnwindType ==
    ASSUME TypeOK, NEW c \in Coroutines, unwind(c)
    PROVE  /\ stack' \in [Coroutines -> Seq(Frames)]
           /\ \E r \in States : Leave(c, r)
  <1>1. PICK k \in 0 .. Len(stack[c]) :
            /\ stack' = [stack EXCEPT ![c] = SubSeq(stack[c], 1, k)]
            /\ Leave(c, IF k = 0 THEN "Done" ELSE "Running")
    BY DEF unwind
  <1>2. SubSeq(stack[c], 1, k) \in Seq(Frames)
    BY PopType
  <1> QED BY <1>1, <1>2 DEF TypeOK, States

\* The top frame of a coroutine that has one.
LEMMA TopType ==
    ASSUME TypeOK, NEW c \in Coroutines, stack[c] # <<>>
    PROVE  /\ Len(stack[c]) \in 1 .. Len(stack[c]) /\ Len(stack[c]) \in Nat \ {0}
           /\ Top(c) \in Frames
  <1>1. stack[c] \in Seq(Frames)
    BY DEF TypeOK
  <1>2. Len(stack[c]) \in Nat \ {0}
    BY <1>1, EmptySeq, LenProperties
  <1> QED BY <1>1, <1>2, ElementOfSeq DEF Top

-----------------------------------------------------------------------------
(* The type invariant. *)

\* Operations of the C API preserve the types.
LEMMA ApiType ==
    ASSUME TypeOK, ControlOK, Api
    PROVE  TypeOK'
  <1>1. ASSUME NEW c \in Coroutines, Start(c)
        PROVE  TypeOK'
    BY <1>1, ScheduleType DEF Start, TypeOK, States
  <1>2. ASSUME NEW c \in Coroutines, SetCallback(c)
        PROVE  TypeOK'
    BY <1>2 DEF SetCallback, TypeOK
  <1>3. ASSUME NEW c \in Coroutines, NEW kind \in EntryKinds, MakeCoroutine(c, kind)
        PROVE  TypeOK'
    BY <1>3 DEF MakeCoroutine, TypeOK, States
  <1>4. ASSUME NEW c \in Coroutines, NEW kind \in EntryKinds, RunInit(c, kind)
        PROVE  TypeOK'
    BY <1>4, ScheduleType DEF RunInit, TypeOK, States
  <1>5. ASSUME NEW t \in natives, FreeToken(t)
        PROVE  TypeOK'
    BY <1>5 DEF FreeToken, TypeOK
  <1>6. ASSUME NEW t \in natives, NEW panic \in BOOLEAN, CompleteAsync(t, panic)
        PROVE  TypeOK'
    <2> DEFINE c == t.coro
               r == [call |-> t.call, panic |-> panic]
               f == [Top(c) EXCEPT !.result = r]
    <2>1. c \in Coroutines /\ t.call \in Nat
      BY DEF TypeOK
    <2>2. stack[c] # <<>>
      BY <1>6, <2>1 DEF CompleteAsync, ControlOK
    <2>3. f \in Frames
      BY <2>1, <2>2, TopType DEF Frames
    <2>4. stack[c] \in Seq(Frames) /\ Len(stack[c]) \in 1 .. Len(stack[c])
      BY <2>1, <2>2, TopType DEF TypeOK
    <2>5. [stack[c] EXCEPT ![Len(stack[c])] = f] \in Seq(Frames)
      BY <2>3, <2>4, ExceptSeq
    <2>6. stack' = [stack EXCEPT ![c] = [stack[c] EXCEPT ![Len(stack[c])] = f]]
      BY <1>6 DEF CompleteAsync, Top
    <2>7. stack' \in [Coroutines -> Seq(Frames)]
      BY <2>1, <2>5, <2>6 DEF TypeOK
    <2>8. /\ next_ready' \in [Coroutines -> Coroutines \cup {NoCoro}]
          /\ first_ready' \in Coroutines \cup {NoCoro}
          /\ last_ready' \in Coroutines \cup {NoCoro}
          /\ queue' \in Seq(Coroutines)
      BY <1>6, <2>1, ScheduleType DEF CompleteAsync, resume_coroutine
    <2>9. /\ state' \in [Coroutines -> States]
          /\ token' \in [Coroutines -> Nat]
          /\ \A d \in Coroutines : token'[d] <= made'[d]
      BY <1>6, <2>1 DEF CompleteAsync, resume_coroutine, TypeOK, States
    <2> QED BY <1>6, <2>7, <2>8, <2>9 DEF CompleteAsync, TypeOK
  <1> QED BY <1>1, <1>2, <1>3, <1>4, <1>5, <1>6 DEF Api

\* The run loop preserves the types.
LEMMA LoopType ==
    ASSUME TypeOK, ReadyListShape, Loop \/ Exception
    PROVE  TypeOK'
  <1>1. CASE RunReady
    BY <1>1 DEF RunReady, TypeOK
  <1>2. CASE LeaveLoop
    BY <1>2 DEF LeaveLoop, TypeOK
  <1>3. CASE CallbackReturns
    BY <1>3 DEF CallbackReturns, TypeOK
  <1>4. CASE Throw
    BY <1>4 DEF Throw, TypeOK
  <1>5. CASE RunNext
    <2> DEFINE c == first_ready
    <2>1. c \in Coroutines
      BY <1>5 DEF RunNext, TypeOK
    <2>2. /\ next_ready' \in [Coroutines -> Coroutines \cup {NoCoro}]
          /\ first_ready' \in Coroutines \cup {NoCoro}
          /\ last_ready' \in Coroutines \cup {NoCoro}
      BY <1>5, <2>1 DEF RunNext, dequeue_coroutine, TypeOK
    <2>3. queue' \in Seq(Coroutines)
      <3>1. queue \in Seq(Coroutines) /\ queue # <<>>
        BY <1>5 DEF RunNext, ReadyListShape, TypeOK
      <3> QED BY <1>5, <3>1, HeadTailProperties DEF RunNext, dequeue_coroutine
    <2>4. \E r \in States : Leave(c, r)
      BY <1>5 DEF RunNext, States
    <2>5. calls' \in [Coroutines -> Nat] /\ stack' \in [Coroutines -> Seq(Frames)]
      <3>1. CASE UNCHANGED <<stack, calls>>
        BY <3>1 DEF TypeOK
      <3>2. ASSUME NEW call \in Nat, entry[c] # "NotCallable",
                   stack' = [stack EXCEPT ![c] = <<Frame(entry[c], call)>>],
                   calls' = [calls EXCEPT ![c] = IF entry[c] = "Async" THEN calls[c] + 1 ELSE calls[c]]
            PROVE  calls' \in [Coroutines -> Nat] /\ stack' \in [Coroutines -> Seq(Frames)]
        <4>1. Frame(entry[c], call) \in Frames
          BY <2>1, <3>2, FrameType DEF TypeOK
        <4>2. <<Frame(entry[c], call)>> \in Seq(Frames)
          BY <4>1
        <4>3. stack' \in [Coroutines -> Seq(Frames)]
          BY <2>1, <3>2, <4>2 DEF TypeOK
        <4>4. calls' \in [Coroutines -> Nat]
          <5>1. calls \in [Coroutines -> Nat]
            BY DEF TypeOK
          <5>2. (IF entry[c] = "Async" THEN calls[c] + 1 ELSE calls[c]) \in Nat
            BY <2>1, <5>1
          <5> QED BY <2>1, <3>2, <5>1, <5>2
        <4> QED BY <4>3, <4>4
      <3>3. (IF entry[c] = "Async" THEN calls[c] + 1 ELSE 0) \in Nat
        BY <2>1 DEF TypeOK
      <3> QED BY <1>5, <3>1, <3>2, <3>3 DEF RunNext
    <2> QED BY <1>5, <2>1, <2>2, <2>3, <2>4, <2>5, LeaveType DEF RunNext, TypeOK
  <1>6. CASE ThrowAtStart \/ MeetCompleted
    <2>1. first_ready \in Coroutines /\ first_ready # NoCoro /\ dequeue_coroutine
      BY <1>6 DEF ThrowAtStart, MeetCompleted, TypeOK
    <2>2. /\ next_ready' \in [Coroutines -> Coroutines \cup {NoCoro}]
          /\ first_ready' \in Coroutines \cup {NoCoro}
          /\ last_ready' \in Coroutines \cup {NoCoro}
      BY <2>1 DEF dequeue_coroutine, TypeOK
    <2>3. queue' \in Seq(Coroutines)
      <3>1. queue \in Seq(Coroutines) /\ queue # <<>>
        BY <2>1 DEF ReadyListShape, TypeOK
      <3> QED BY <2>1, <3>1, HeadTailProperties DEF dequeue_coroutine
    <2>4. state' \in [Coroutines -> States] /\ lost' \subseteq Coroutines
      <3>1. CASE ThrowAtStart
        BY <2>1, <3>1 DEF ThrowAtStart, TypeOK, States
      <3>2. CASE MeetCompleted
        BY <3>2 DEF MeetCompleted, TypeOK
      <3> QED BY <1>6, <3>1, <3>2
    <2>5. /\ UNCHANGED <<entry, stack, calls, made, token, callback, notified, current, finishing, held>>
          /\ running' = FALSE
      BY <1>6 DEF ThrowAtStart, MeetCompleted
    <2> QED BY <2>2, <2>3, <2>4, <2>5 DEF TypeOK
  <1> QED BY <1>1, <1>2, <1>3, <1>4, <1>5, <1>6 DEF Loop, Exception

\* What a coroutine does in its turn preserves the types.
LEMMA WorkType ==
    ASSUME TypeOK, ControlOK, NEW c \in Coroutines, Work(c)
    PROVE  TypeOK'
  <1>1. ASSUME NEW kind \in FrameTypes, Call(c, kind)
        PROVE  TypeOK'
    <2> DEFINE call == IF kind = "Async" THEN calls[c] + 1 ELSE 0
    <2>0. calls \in [Coroutines -> Nat] /\ stack[c] \in Seq(Frames)
      BY DEF TypeOK
    <2>1. call \in Nat /\ stack[c] \in Seq(Frames)
      BY <2>0
    <2>2. Append(stack[c], Frame(kind, call)) \in Seq(Frames)
      BY <2>1, FrameType, AppendProperties
    <2>3. stack' \in [Coroutines -> Seq(Frames)]
      BY <1>1, <2>2 DEF Call, TypeOK
    <2>4. calls' \in [Coroutines -> Nat]
      <3>1. calls \in [Coroutines -> Nat] /\ calls[c] + 1 \in Nat
        BY <2>0
      <3>2. calls' = IF kind = "Async" THEN [calls EXCEPT ![c] = calls[c] + 1] ELSE calls
        BY <1>1 DEF Call
      <3> QED BY <3>1, <3>2
    <2> QED BY <1>1, <2>3, <2>4 DEF Call, TypeOK
  <1>2. ASSUME NEW d \in Coroutines, NEW kind \in EntryKinds, Launch(c, d, kind)
        PROVE  TypeOK'
    BY <1>2, ScheduleType DEF Launch, TypeOK, States
  <1>3. ASSUME NEW t \in scripts, ResumeToken(c, t)
        PROVE  TypeOK'
    <2>1. t.coro \in Coroutines
      BY DEF TypeOK, TokenIds
    <2>2. /\ next_ready' \in [Coroutines -> Coroutines \cup {NoCoro}]
          /\ first_ready' \in Coroutines \cup {NoCoro}
          /\ last_ready' \in Coroutines \cup {NoCoro}
          /\ queue' \in Seq(Coroutines)
      BY <1>3, <2>1, ScheduleType DEF ResumeToken, resume_coroutine
    <2>3. /\ state' \in [Coroutines -> States]
          /\ token' \in [Coroutines -> Nat]
          /\ \A d \in Coroutines : token'[d] <= made'[d]
      BY <1>3, <2>1, SMTT(40) DEF ResumeToken, resume_coroutine, TypeOK, States
    <2> QED BY <1>3, <2>2, <2>3 DEF ResumeToken, TypeOK
  <1>4. CASE CoroutineToken(c)
    <2>1. scripts' \subseteq TokenIds
      <3>1. token'[c] \in Nat
        BY <1>4, CreateTokenType DEF CoroutineToken
      <3>2. [coro |-> c, token |-> token'[c]] \in TokenIds
        BY <3>1 DEF TokenIds
      <3> QED BY <1>4, <3>2 DEF CoroutineToken, TypeOK
    <2> QED BY <1>4, <2>1, CreateTokenType DEF CoroutineToken, TypeOK
  <1>5. CASE AsyncToken(c)
    <2>1. stack[c] # <<>>
      BY <1>5 DEF AsyncToken, ControlOK
    <2>2. Top(c).call \in Nat
      BY <2>1, TopType DEF Frames
    <2>3. natives' \subseteq [coro : Coroutines, token : Nat, call : Nat]
      <3>1. token'[c] \in Nat
        BY <1>5, CreateTokenType DEF AsyncToken
      <3>2. [coro |-> c, token |-> token'[c], call |-> Top(c).call]
                \in [coro : Coroutines, token : Nat, call : Nat]
        BY <2>2, <3>1
      <3> QED BY <1>5, <3>2 DEF AsyncToken, TypeOK
    <2> QED BY <1>5, <2>3, CreateTokenType DEF AsyncToken, TypeOK
  <1> QED BY <1>1, <1>2, <1>3, <1>4, <1>5 DEF Work

LEMMA ProgressType ==
    ASSUME TypeOK, ControlOK, NEW c \in Coroutines, Progress(c)
    PROVE  TypeOK'
  <1>0. stack[c] # <<>>
    BY DEF Progress, Return, Panic, Yield, Dispatch, AsyncYield, AsyncReturn, AsyncPanic,
           AsyncResume, InScript, ControlOK
  <1>1. stack' \in [Coroutines -> Seq(Frames)] /\ \E r \in States : Leave(c, r)
    <2>1. CASE Return(c) \/ Yield(c) \/ Dispatch(c) \/ AsyncReturn(c)
      BY <1>0, <2>1, ReturnType DEF Return, Yield, Dispatch, AsyncReturn, States
    <2>2. CASE Panic(c) \/ AsyncPanic(c)
      BY <2>2, UnwindType DEF Panic, AsyncPanic
    <2>3. CASE AsyncResume(c)
      BY <1>0, <2>3, ReturnType, UnwindType DEF AsyncResume, States
    <2>4. CASE AsyncYield(c)
      <3> DEFINE f == [Top(c) EXCEPT !.state = "RESUME"]
      <3>1. f \in Frames /\ stack[c] \in Seq(Frames) /\ Len(stack[c]) \in 1 .. Len(stack[c])
        BY <1>0, TopType DEF Frames, TypeOK
      <3>2. [stack[c] EXCEPT ![Len(stack[c])] = f] \in Seq(Frames)
        BY <3>1, ExceptSeq
      <3>3. stack' = [stack EXCEPT ![c] = [stack[c] EXCEPT ![Len(stack[c])] = f]]
        BY <2>4 DEF AsyncYield, Top
      <3>4. stack' \in [Coroutines -> Seq(Frames)]
        BY <3>2, <3>3 DEF TypeOK
      <3> QED BY <2>4, <3>4 DEF AsyncYield, States
    <2> QED BY <2>1, <2>2, <2>3, <2>4 DEF Progress
  <1>2. /\ next_ready' \in [Coroutines -> Coroutines \cup {NoCoro}]
        /\ first_ready' \in Coroutines \cup {NoCoro}
        /\ last_ready' \in Coroutines \cup {NoCoro}
        /\ queue' \in Seq(Coroutines)
    <2>1. CASE Dispatch(c)
      BY <2>1, ScheduleType DEF Dispatch
    <2>2. CASE UNCHANGED list
      BY <2>2 DEF TypeOK
    <2> QED BY <2>1, <2>2 DEF Progress, Return, Panic, Yield, AsyncYield, AsyncReturn,
                              AsyncPanic, AsyncResume
  <1>3. UNCHANGED <<entry, calls, made, callback, running, held, lost>>
    BY DEF Progress, Return, Panic, Yield, Dispatch, AsyncYield, AsyncReturn, AsyncPanic,
           AsyncResume
  <1> QED BY <1>1, <1>2, <1>3, LeaveType DEF TypeOK

-----------------------------------------------------------------------------
(* The ready list. *)

\* Scheduling a coroutine that is off the list links it behind the last one.
LEMMA ScheduleShape ==
    ASSUME TypeOK, ReadyListShape, NEW c \in Coroutines, ~Queued(c), schedule_coroutine(c)
    PROVE  /\ ReadyListShape'
           /\ \A d \in Coroutines : Queued(d)' <=> Queued(d) \/ d = c
  <1> DEFINE n == Len(queue)
  <1>1. /\ queue \in Seq(Coroutines) /\ n \in Nat /\ DOMAIN queue = 1 .. n
        /\ next_ready \in [Coroutines -> Coroutines \cup {NoCoro}]
    BY LenProperties DEF TypeOK
  <1>2. /\ queue' = Append(queue, c) /\ Len(queue') = n + 1 /\ DOMAIN queue' = 1 .. (n + 1)
        /\ \A i \in 1 .. n : queue'[i] = queue[i]
        /\ queue'[n + 1] = c
    BY <1>1, AppendProperties DEF schedule_coroutine
  <1>3. \A i \in 1 .. n : queue[i] # c /\ queue[i] \in Coroutines
    BY <1>1 DEF Queued
  <1>4. \A d \in Coroutines : Queued(d)' <=> Queued(d) \/ d = c
    BY <1>1, <1>2 DEF Queued
  <1>5. \A i, j \in DOMAIN queue' : queue'[i] = queue'[j] => i = j
    BY <1>1, <1>2, <1>3 DEF ReadyListShape
  <1>6. queue' # <<>>
    BY <1>1, <1>2, EmptySeq
  <1>7. last_ready' = queue'[Len(queue')]
    BY <1>1, <1>2 DEF schedule_coroutine
  <1>8. CASE queue = <<>>
    <2>1. n = 0 /\ last_ready = NoCoro
      BY <1>8, EmptySeq DEF ReadyListShape
    <2>2. first_ready' = c /\ next_ready' = next_ready
      BY <2>1 DEF schedule_coroutine
    <2>3. \A d \in Coroutines : next_ready'[d] = NoCoro
      BY <2>1, <2>2, <1>1 DEF ReadyListShape
    <2>4. \A i \in DOMAIN queue' : i = Len(queue')
      BY <1>2, <2>1
    <2>5. \A i \in DOMAIN queue' :
            next_ready'[queue'[i]] = IF i = Len(queue') THEN NoCoro ELSE queue'[i + 1]
      BY <1>2, <2>1, <2>3, <2>4
    <2>6. first_ready' = queue'[1]
      BY <1>2, <2>1, <2>2
    <2> QED BY <1>4, <1>5, <1>6, <1>7, <2>3, <2>5, <2>6 DEF ReadyListShape
  <1>9. CASE queue # <<>>
    <2>1. n \in Nat \ {0}
      BY <1>1, <1>9, EmptySeq
    <2>2. last_ready = queue[n] /\ first_ready = queue[1] /\ last_ready \in Coroutines
      BY <1>3, <1>9, <2>1 DEF ReadyListShape
    <2>3. next_ready' = [next_ready EXCEPT ![queue[n]] = c] /\ first_ready' = queue[1]
      BY <2>2 DEF schedule_coroutine
    <2>4. first_ready' = queue'[1]
      BY <1>2, <2>1, <2>3
    <2>5. next_ready'[c] = NoCoro
      BY <1>1, <1>3, <2>1, <2>3 DEF ReadyListShape
    <2>6. next_ready'[queue[n]] = c
      BY <1>1, <2>2, <2>3
    <2>7. ASSUME NEW i \in 1 .. (n - 1)
          PROVE  next_ready'[queue[i]] = queue[i + 1]
      <3>0. i \in 1 .. n /\ i # n /\ n \in 1 .. n
        BY <2>1
      <3>1. i \in 1 .. n /\ i # n /\ queue[i] # queue[n]
        BY <1>1, <3>0 DEF ReadyListShape
      <3>2. next_ready[queue[i]] = queue[i + 1]
        BY <1>1, <3>1 DEF ReadyListShape
      <3> QED BY <1>1, <1>3, <2>3, <3>1, <3>2
    <2>8. \A i \in DOMAIN queue' :
            next_ready'[queue'[i]] = IF i = Len(queue') THEN NoCoro ELSE queue'[i + 1]
      <3> SUFFICES ASSUME NEW i \in 1 .. (n + 1)
                   PROVE  next_ready'[queue'[i]] = IF i = n + 1 THEN NoCoro ELSE queue'[i + 1]
        BY <1>2
      <3>1. CASE i = n + 1
        BY <1>2, <2>5, <3>1
      <3>2. CASE i = n
        BY <1>2, <2>1, <2>6, <3>2
      <3>3. CASE i \in 1 .. (n - 1)
        <4>1. i \in 1 .. n /\ i + 1 \in 1 .. n /\ i # n + 1
          BY <2>1, <3>3
        <4>2. next_ready'[queue[i]] = queue[i + 1]
          BY <2>7, <3>3
        <4> QED BY <1>2, <4>1, <4>2
      <3> QED BY <2>1, <3>1, <3>2, <3>3
    <2>9. ASSUME NEW d \in Coroutines, \A i \in DOMAIN queue' : queue'[i] # d
          PROVE  next_ready'[d] = NoCoro
      <3>1. \A i \in DOMAIN queue : queue[i] # d
        BY <1>1, <1>2, <2>9
      <3> QED BY <1>1, <2>1, <2>3, <3>1 DEF ReadyListShape
    <2> QED BY <1>4, <1>5, <1>6, <1>7, <2>4, <2>8, <2>9 DEF ReadyListShape
  <1> QED BY <1>8, <1>9

\* Dequeuing unlinks the first coroutine and leaves the others as they are.
LEMMA DequeueShape ==
    ASSUME TypeOK, ReadyListShape, first_ready # NoCoro, dequeue_coroutine
    PROVE  /\ ReadyListShape'
           /\ \A d \in Coroutines : Queued(d)' <=> Queued(d) /\ d # first_ready
  <1> DEFINE n == Len(queue)
  <1>1. queue \in Seq(Coroutines) /\ queue # <<>>
    BY DEF ReadyListShape, TypeOK
  <1>2. /\ n \in Nat \ {0} /\ DOMAIN queue = 1 .. n
        /\ next_ready \in [Coroutines -> Coroutines \cup {NoCoro}]
    BY <1>1, EmptySeq, LenProperties DEF TypeOK
  <1>3. first_ready = queue[1] /\ last_ready = queue[n]
    BY <1>1 DEF ReadyListShape
  <1>4. /\ queue' \in Seq(Coroutines) /\ Len(queue') = n - 1 /\ DOMAIN queue' = 1 .. (n - 1)
        /\ \A i \in 1 .. (n - 1) : queue'[i] = queue[i + 1]
    BY <1>1, <1>2, HeadTailProperties, LenProperties DEF dequeue_coroutine
  <1>5. \A i \in 1 .. n : queue[i] \in Coroutines
    BY <1>1, <1>2
  <1>6. \A i, j \in 1 .. n : queue[i] = queue[j] => i = j
    BY <1>2 DEF ReadyListShape
  <1>7. \A d \in Coroutines : Queued(d)' <=> Queued(d) /\ d # first_ready
    <2> SUFFICES ASSUME NEW d \in Coroutines
                 PROVE  (\E i \in 1 .. (n - 1) : queue[i + 1] = d)
                            <=> (\E i \in 1 .. n : queue[i] = d) /\ d # queue[1]
      <3>1. \A d \in Coroutines : Queued(d)' <=> \E i \in 1 .. (n - 1) : queue'[i] = d
        BY <1>4 DEF Queued
      <3>2. \A d \in Coroutines : (\E i \in 1 .. (n - 1) : queue'[i] = d)
                                    <=> \E i \in 1 .. (n - 1) : queue[i + 1] = d
        BY <1>4
      <3>3. \A d \in Coroutines : Queued(d) <=> \E i \in 1 .. n : queue[i] = d
        BY <1>2 DEF Queued
      <3> QED BY <1>3, <3>1, <3>2, <3>3
    <2>1. ASSUME NEW i \in 1 .. (n - 1), queue[i + 1] = d
          PROVE  (\E j \in 1 .. n : queue[j] = d) /\ d # queue[1]
      <3>1. i + 1 \in 1 .. n /\ i + 1 # 1 /\ 1 \in 1 .. n
        BY <1>2
      <3> QED BY <2>1, <3>1, <1>6
    <2>2. ASSUME NEW i \in 1 .. n, queue[i] = d, d # queue[1]
          PROVE  \E j \in 1 .. (n - 1) : queue[j + 1] = d
      <3>1. i - 1 \in 1 .. (n - 1) /\ (i - 1) + 1 = i
        BY <1>2, <2>2
      <3> QED BY <2>2, <3>1
    <2> QED BY <2>1, <2>2
  <1>8. next_ready[queue[1]] = IF n = 1 THEN NoCoro ELSE queue[2]
    BY <1>2 DEF ReadyListShape
  <1>9. next_ready' = [next_ready EXCEPT ![queue[1]] = NoCoro] /\ queue[1] \in Coroutines
    BY <1>2, <1>3, <1>5 DEF dequeue_coroutine
  <1>10. \A i, j \in DOMAIN queue' : queue'[i] = queue'[j] => i = j
    <2> SUFFICES ASSUME NEW i \in 1 .. (n - 1), NEW j \in 1 .. (n - 1), queue[i + 1] = queue[j + 1]
                 PROVE  i = j
      BY <1>4
    <2>1. i + 1 \in 1 .. n /\ j + 1 \in 1 .. n
      BY <1>2
    <2>2. i + 1 = j + 1
      BY <1>6, <2>1
    <2> QED BY <2>2
  <1>11. queue' = <<>> <=> n = 1
    BY <1>2, <1>4, EmptySeq, SMTT(40)
  <1>12. first_ready' = IF queue' = <<>> THEN NoCoro ELSE queue'[1]
    BY <1>2, <1>3, <1>4, <1>8, <1>11 DEF dequeue_coroutine
  <1>13. last_ready' = IF queue' = <<>> THEN NoCoro ELSE queue'[Len(queue')]
    <2>1. CASE n = 1
      BY <1>3, <1>8, <1>11, <2>1 DEF dequeue_coroutine
    <2>2. CASE n # 1
      <3>1. 2 \in 1 .. n /\ queue[2] # NoCoro
        BY <1>2, <1>5, <2>2
      <3>2. last_ready' = queue[n]
        BY <1>3, <1>8, <2>2, <3>1 DEF dequeue_coroutine
      <3>3. n - 1 \in 1 .. (n - 1) /\ queue'[n - 1] = queue[(n - 1) + 1] /\ (n - 1) + 1 = n
        BY <1>2, <1>4, <2>2
      <3> QED BY <1>4, <1>11, <2>2, <3>2, <3>3
    <2> QED BY <2>1, <2>2
  <1>14. \A i \in DOMAIN queue' :
           next_ready'[queue'[i]] = IF i = Len(queue') THEN NoCoro ELSE queue'[i + 1]
    <2> SUFFICES ASSUME NEW i \in 1 .. (n - 1)
                 PROVE  next_ready'[queue[i + 1]] = IF i = n - 1 THEN NoCoro ELSE queue'[i + 1]
      BY <1>4
    <2>1. i + 1 \in 1 .. n /\ i + 1 # 1 /\ 1 \in 1 .. n
      BY <1>2
    <2>2. queue[i + 1] # queue[1] /\ queue[i + 1] \in Coroutines
      BY <1>5, <1>6, <2>1
    <2>3. next_ready'[queue[i + 1]] = next_ready[queue[i + 1]]
      BY <1>2, <1>9, <2>2
    <2>4. next_ready[queue[i + 1]] = IF i + 1 = n THEN NoCoro ELSE queue[(i + 1) + 1]
      BY <1>2, <2>1 DEF ReadyListShape
    <2>5. i # n - 1 => i + 1 \in 1 .. (n - 1) /\ queue'[i + 1] = queue[(i + 1) + 1]
      <3>0. n \in Nat /\ i \in Nat /\ 1 <= i /\ i <= n - 1
        BY <1>2
      <3>1. i # n - 1 => i + 1 \in 1 .. (n - 1)
        BY <3>0
      <3> QED BY <1>4, <3>1
    <2>6. i + 1 = n <=> i = n - 1
      BY <1>2
    <2>7. CASE i = n - 1
      BY <2>3, <2>4, <2>6, <2>7
    <2>8. CASE i # n - 1
      BY <2>3, <2>4, <2>5, <2>6, <2>8
    <2> QED BY <2>7, <2>8
  <1>15. ASSUME NEW d \in Coroutines, \A i \in DOMAIN queue' : queue'[i] # d
         PROVE  next_ready'[d] = NoCoro
    <2>1. CASE d = queue[1]
      BY <1>2, <1>9, <2>1
    <2>2. CASE d # queue[1]
      <3>1. ~Queued(d)'
        BY <1>15 DEF Queued
      <3>2. ~Queued(d)
        BY <1>3, <1>7, <2>2, <3>1
      <3>3. next_ready[d] = NoCoro
        BY <3>2 DEF Queued, ReadyListShape
      <3> QED BY <1>2, <1>9, <2>2, <3>3
    <2> QED BY <2>1, <2>2
  <1> QED BY <1>7, <1>10, <1>12, <1>13, <1>14, <1>15 DEF ReadyListShape

\* What is on the list can run, or has completed while it was on the list; what
\* can run is on the list, unless an exception threw it out of its first call.
QueueStates ==
    \A c \in Coroutines :
        /\ is_runnable(state[c]) /\ c \notin lost => Queued(c)
        /\ Queued(c) => c \notin lost /\ (is_runnable(state[c]) \/ state[c] = "Done")
        /\ c \in lost => state[c] \in {"Started", "Running"}

ListInv == TypeOK /\ ControlOK /\ ReadyListShape /\ QueueStates

\* Steps that leave the list alone keep its shape.
LEMMA SameList ==
    ASSUME ReadyListShape, UNCHANGED list
    PROVE  ReadyListShape' /\ \A c \in Coroutines : Queued(c)' <=> Queued(c)
  BY DEF ReadyListShape, Queued

LEMMA FrontNotEmpty ==
    ASSUME NEW S, NEW q \in Seq(S), q # <<>>, Len(q) # 1
    PROVE  SubSeq(q, 1, Len(q) - 1) # <<>>
  <1>1. Len(q) \in Nat /\ Len(q) # 0
    BY EmptySeq
  <1>2. Len(SubSeq(q, 1, Len(q) - 1)) = Len(q) - 1
    <2>1. /\ Len(q) - 1 \in Int /\ 1 \in Int /\ 1 <= Len(q) - 1
          /\ (Len(q) - 1) - 1 + 1 = Len(q) - 1
      <3>1. \A k \in Nat : k # 0 /\ k # 1 => /\ k - 1 \in Int /\ 1 \in Int /\ 1 <= k - 1
                                             /\ (k - 1) - 1 + 1 = k - 1
        OBVIOUS
      <3> QED BY <1>1, <3>1
    <2>2. \A i \in 1 .. (Len(q) - 1) : q[i] \in S
      BY <1>1, ElementOfSeq
    <2>3. Len(SubSeq(q, 1, Len(q) - 1))
              = IF 1 <= Len(q) - 1 THEN (Len(q) - 1) - 1 + 1 ELSE 0
      BY <2>1, <2>2, SubSeqProperties
    <2> QED BY <2>1, <2>3
  <1>3. Len(q) - 1 # 0
    BY <1>1
  <1> QED BY <1>2, <1>3, EmptySeq

\* The frames that are left when a coroutine returns from, or unwinds, its top
\* frame and does not complete.
LEMMA ReturnControl ==
    ASSUME TypeOK, NEW c \in Coroutines, stack[c] # <<>>, NEW s \in {"Running", "Waiting", "Ready"},
           return_function(c, s)
    PROVE  /\ \A d \in Coroutines \ {c} : stack'[d] = stack[d]
           /\ \/ Leave(c, "Done")
              \/ Leave(c, s) /\ stack'[c] # <<>>
  <1>1. stack[c] \in Seq(Frames) /\ stack \in [Coroutines -> Seq(Frames)]
    BY DEF TypeOK
  <1>2. Len(stack[c]) \in Nat \ {0}
    BY <1>1, EmptySeq
  <1>3. stack' = [stack EXCEPT ![c] = Pop(c)]
    BY DEF return_function
  <1>4. CASE Len(stack[c]) = 1
    BY <1>1, <1>3, <1>4 DEF return_function
  <1>5. CASE Len(stack[c]) # 1
    <2>3. Pop(c) # <<>>
      BY <1>1, <1>2, <1>5, FrontNotEmpty DEF Pop
    <2> QED BY <1>1, <1>3, <1>5, <2>3 DEF return_function
  <1> QED BY <1>4, <1>5

LEMMA UnwindControl ==
    ASSUME TypeOK, NEW c \in Coroutines, unwind(c)
    PROVE  /\ \A d \in Coroutines \ {c} : stack'[d] = stack[d]
           /\ \/ Leave(c, "Done")
              \/ Leave(c, "Running") /\ stack'[c] # <<>>
  <1>1. stack[c] \in Seq(Frames) /\ stack \in [Coroutines -> Seq(Frames)]
    BY DEF TypeOK
  <1>2. PICK k \in 0 .. Len(stack[c]) :
            /\ stack' = [stack EXCEPT ![c] = SubSeq(stack[c], 1, k)]
            /\ Leave(c, IF k = 0 THEN "Done" ELSE "Running")
    BY DEF unwind
  <1>3. k \in Nat /\ Len(SubSeq(stack[c], 1, k)) = k
    BY <1>1, SubSeqProperties
  <1>4. k # 0 => SubSeq(stack[c], 1, k) # <<>>
    BY <1>3, EmptySeq
  <1> QED BY <1>1, <1>2, <1>4

\* The end of a step of coroutine c that is in control: what Progress leaves behind.
LEMMA ProgressControl ==
    ASSUME TypeOK, ControlOK, NEW c \in Coroutines, Progress(c)
    PROVE  /\ current = c /\ state[c] = "Running" /\ finishing = NoCoro /\ running' = running
           /\ \A d \in Coroutines \ {c} : stack'[d] = stack[d]
           /\ \/ Leave(c, "Done")
              \/ \E s \in {"Running", "Waiting", "Ready"} : Leave(c, s) /\ stack'[c] # <<>>
           /\ \/ UNCHANGED list /\ ~Leave(c, "Ready")
              \/ schedule_coroutine(c) /\ (Leave(c, "Ready") \/ Leave(c, "Done"))
  <1>1. current = c
    BY DEF Progress, Return, Panic, Yield, Dispatch, AsyncYield, AsyncReturn, AsyncPanic,
           AsyncResume, InScript
  <1>2. state[c] = "Running" /\ finishing = NoCoro /\ stack[c] # <<>>
    BY <1>1 DEF ControlOK
  <1>3. running' = running
    BY DEF Progress, Return, Panic, Yield, Dispatch, AsyncYield, AsyncReturn, AsyncPanic,
           AsyncResume
  <1>4. CASE Return(c) \/ AsyncReturn(c)
    <2>1. return_function(c, "Running") /\ UNCHANGED list
      BY <1>4 DEF Return, AsyncReturn
    <2>2. Leave(c, "Done") \/ (Leave(c, "Running") /\ stack'[c] # <<>>)
      BY <1>2, <2>1, ReturnControl
    <2>3. ~Leave(c, "Ready")
      BY <1>2, <2>2 DEF Leave, TypeOK
    <2> QED BY <1>1, <1>2, <1>3, <2>1, <2>2, <2>3, ReturnControl
  <1>5. CASE Yield(c)
    <2>1. return_function(c, "Waiting") /\ UNCHANGED list
      BY <1>5 DEF Yield
    <2>2. Leave(c, "Done") \/ (Leave(c, "Waiting") /\ stack'[c] # <<>>)
      BY <1>2, <2>1, ReturnControl
    <2>3. ~Leave(c, "Ready")
      BY <1>2, <2>2 DEF Leave, TypeOK
    <2> QED BY <1>1, <1>2, <1>3, <2>1, <2>2, <2>3, ReturnControl
  <1>6. CASE Dispatch(c)
    <2>1. return_function(c, "Ready") /\ schedule_coroutine(c)
      BY <1>6 DEF Dispatch
    <2> QED BY <1>1, <1>2, <1>3, <2>1, ReturnControl
  <1>7. CASE Panic(c) \/ AsyncPanic(c)
    <2>1. unwind(c) /\ UNCHANGED list
      BY <1>7 DEF Panic, AsyncPanic
    <2>2. ~Leave(c, "Ready")
      BY <1>2, <2>1, UnwindControl DEF Leave, TypeOK
    <2> QED BY <1>1, <1>2, <1>3, <2>1, <2>2, UnwindControl
  <1>8. CASE AsyncResume(c)
    <2>1. UNCHANGED list /\ (unwind(c) \/ return_function(c, "Running"))
      BY <1>8 DEF AsyncResume
    <2>2. /\ \A d \in Coroutines \ {c} : stack'[d] = stack[d]
          /\ Leave(c, "Done") \/ (Leave(c, "Running") /\ stack'[c] # <<>>)
      BY <1>2, <2>1, UnwindControl, ReturnControl
    <2>3. ~Leave(c, "Ready")
      BY <1>2, <2>2 DEF Leave, TypeOK
    <2> QED BY <1>1, <1>2, <1>3, <2>1, <2>2, <2>3
  <1>9. CASE AsyncYield(c)
    <2>1. UNCHANGED list /\ Leave(c, "Waiting")
      BY <1>9 DEF AsyncYield
    <2>2. stack' = [stack EXCEPT ![c] = [stack[c] EXCEPT ![Len(stack[c])] =
                        [Top(c) EXCEPT !.state = "RESUME"]]]
      BY <1>9 DEF AsyncYield, Top
    <2>3. stack \in [Coroutines -> Seq(Frames)] /\ Len(stack[c]) \in Nat \ {0}
      BY <1>2, TopType DEF TypeOK
    <2>4. stack[c] \in Seq(Frames) /\ stack'[c] = [stack[c] EXCEPT ![Len(stack[c])] =
                        [Top(c) EXCEPT !.state = "RESUME"]]
      BY <2>2, <2>3
    <2>5. DOMAIN stack'[c] = 1 .. Len(stack[c])
      BY <2>3, <2>4, LenProperties
    <2>6. stack'[c] # <<>>
      BY <2>3, <2>5
    <2>7. \A d \in Coroutines \ {c} : stack'[d] = stack[d]
      BY <2>2, <2>3
    <2>8. ~Leave(c, "Ready")
      BY <1>2, <2>1 DEF Leave, TypeOK
    <2> QED BY <1>1, <1>2, <1>3, <2>1, <2>6, <2>7, <2>8
  <1> QED BY <1>4, <1>5, <1>6, <1>7, <1>8, <1>9 DEF Progress

\* A coroutine that cannot run yet is scheduled (start, launch, resume).
LEMMA ScheduleStep ==
    ASSUME ListInv, NEW c \in Coroutines, NEW s \in {"Started", "Ready"},
           state[c] \notin {"Started", "Ready", "Running", "Done"},
           schedule_coroutine(c), state' = [state EXCEPT ![c] = s], UNCHANGED lost
    PROVE  ReadyListShape' /\ QueueStates'
  <1>1. ~Queued(c)
    BY DEF ListInv, QueueStates, is_runnable
  <1>2. ReadyListShape' /\ \A d \in Coroutines : Queued(d)' <=> Queued(d) \/ d = c
    BY <1>1, ScheduleShape DEF ListInv
  <1>3. \A d \in Coroutines : state'[d] = IF d = c THEN s ELSE state[d]
    BY DEF ListInv, TypeOK
  <1>4. QueueStates'
    BY <1>2, <1>3 DEF ListInv, QueueStates, is_runnable
  <1> QED BY <1>2, <1>4

\* Operations of the C API preserve the invariant.
LEMMA ApiList ==
    ASSUME ListInv, Api
    PROVE  (ControlOK /\ ReadyListShape /\ QueueStates)'
  <1> USE DEF ListInv
  <1>1. ASSUME NEW c \in Coroutines, Start(c)
        PROVE  (ControlOK /\ ReadyListShape /\ QueueStates)'
    <2>1. (ReadyListShape /\ QueueStates)'
      BY <1>1, ScheduleStep DEF Start
    <2>2. ControlOK'
      BY <1>1 DEF Start, ControlOK, TypeOK
    <2> QED BY <2>1, <2>2
  <1>2. ASSUME NEW c \in Coroutines, SetCallback(c)
        PROVE  (ControlOK /\ ReadyListShape /\ QueueStates)'
    BY <1>2, SameList DEF SetCallback, ControlOK, QueueStates
  <1>3. ASSUME NEW c \in Coroutines, NEW kind \in EntryKinds, MakeCoroutine(c, kind)
        PROVE  (ControlOK /\ ReadyListShape /\ QueueStates)'
    BY <1>3, SameList DEF MakeCoroutine, ControlOK, QueueStates, is_runnable, TypeOK
  <1>4. ASSUME NEW c \in Coroutines, NEW kind \in EntryKinds, RunInit(c, kind)
        PROVE  (ControlOK /\ ReadyListShape /\ QueueStates)'
    <2>1. (ReadyListShape /\ QueueStates)'
      BY <1>4, ScheduleStep DEF RunInit
    <2>2. ControlOK'
      BY <1>4 DEF RunInit, ControlOK, TypeOK
    <2> QED BY <2>1, <2>2
  <1>5. ASSUME NEW t \in natives, FreeToken(t)
        PROVE  (ControlOK /\ ReadyListShape /\ QueueStates)'
    BY <1>5, SameList DEF FreeToken, ControlOK, QueueStates
  <1>6. ASSUME NEW t \in natives, NEW panic \in BOOLEAN, CompleteAsync(t, panic)
        PROVE  (ControlOK /\ ReadyListShape /\ QueueStates)'
    <2> DEFINE c == t.coro
    <2>1. c \in Coroutines /\ c # current /\ state[c] = "Waiting"
      BY <1>6 DEF TypeOK, CompleteAsync
    <2>2. schedule_coroutine(c) /\ state' = [state EXCEPT ![c] = "Ready"] /\ UNCHANGED lost
      BY <1>6 DEF CompleteAsync, resume_coroutine
    <2>3. (ReadyListShape /\ QueueStates)'
      BY <2>1, <2>2, ScheduleStep
    <2>4. stack[c] # <<>> /\ stack[c] \in Seq(Frames) /\ stack \in [Coroutines -> Seq(Frames)]
      BY <2>1 DEF ControlOK, TypeOK
    <2>5. /\ stack'[c] # <<>>
          /\ \A d \in Coroutines \ {c} : stack'[d] = stack[d]
      <3>1. stack' = [stack EXCEPT ![c] = [stack[c] EXCEPT ![Len(stack[c])] =
                [stack[c][Len(stack[c])] EXCEPT !.result = [call |-> t.call, panic |-> panic]]]]
        BY <1>6 DEF CompleteAsync
      <3>2. DOMAIN stack'[c] = DOMAIN stack[c] /\ \A d \in Coroutines \ {c} : stack'[d] = stack[d]
        BY <2>1, <2>4, <3>1
      <3>3. Len(stack[c]) \in Nat \ {0} /\ DOMAIN stack[c] = 1 .. Len(stack[c])
        BY <2>4, EmptySeq, LenProperties
      <3>4. stack'[c] # <<>>
        BY <3>2, <3>3
      <3> QED BY <3>2, <3>4
    <2>6. \A d \in Coroutines : state'[d] = IF d = c THEN "Ready" ELSE state[d]
      BY <2>1, <2>2 DEF TypeOK
    <2>7. UNCHANGED loop
      BY <1>6 DEF CompleteAsync
    <2>8. current # NoCoro => current \in Coroutines
      BY DEF TypeOK
    <2>9. ControlOK'
      BY <2>1, <2>2, <2>5, <2>6, <2>7, <2>8 DEF ControlOK
    <2> QED BY <2>3, <2>9
  <1> QED BY <1>1, <1>2, <1>3, <1>4, <1>5, <1>6 DEF Api

\* The first coroutine of the list is on the list.
LEMMA FirstQueued ==
    ASSUME TypeOK, ReadyListShape, first_ready # NoCoro
    PROVE  first_ready \in Coroutines /\ queue # <<>> /\ first_ready = Head(queue) /\ Queued(first_ready)
  <1>1. queue # <<>> /\ first_ready = queue[1] /\ queue \in Seq(Coroutines)
    BY DEF ReadyListShape, TypeOK
  <1>2. 1 \in DOMAIN queue
    BY <1>1, EmptySeq, LenProperties
  <1> QED BY <1>1, <1>2 DEF Queued, TypeOK

\* The run loop preserves the invariant.
LEMMA LoopList ==
    ASSUME ListInv, Loop \/ Exception
    PROVE  (ControlOK /\ ReadyListShape /\ QueueStates)'
  <1> USE DEF ListInv
  <1>1. CASE RunReady \/ LeaveLoop \/ CallbackReturns
    BY <1>1, SameList
       DEF RunReady, LeaveLoop, CallbackReturns, AtLoopHead, ControlOK, QueueStates
  <1>3. CASE Throw
    <2>1. state[current] = "Running" /\ current \in Coroutines /\ lost' = lost \cup {current}
      BY <1>3 DEF Throw, ControlOK, TypeOK
    <2>2. /\ ReadyListShape' /\ \A d \in Coroutines : Queued(d)' <=> Queued(d)
          /\ state' = state /\ stack' = stack /\ current' = NoCoro
      BY <1>3, SameList DEF Throw
    <2>3. QueueStates'
      BY <2>1, <2>2 DEF QueueStates, is_runnable
    <2> QED BY <2>2, <2>3 DEF ControlOK
  <1>4. CASE ThrowAtStart \/ MeetCompleted
    <2> DEFINE c == first_ready
    <2>1. c \in Coroutines /\ current = NoCoro /\ current' = NoCoro /\ stack' = stack
      BY <1>4 DEF ThrowAtStart, MeetCompleted, AtLoopHead, TypeOK
    <2>2. ReadyListShape' /\ \A d \in Coroutines : Queued(d)' <=> Queued(d) /\ d # c
      BY <1>4, DequeueShape DEF ThrowAtStart, MeetCompleted
    <2>3. /\ \A d \in Coroutines \ {c} : state'[d] = state[d] /\ (d \in lost' <=> d \in lost)
          /\ \/ c \in lost' /\ state'[c] \in {"Started", "Running"}
             \/ lost' = lost /\ state'[c] = state[c] /\ ~is_runnable(state[c])
      BY <1>4, <2>1 DEF ThrowAtStart, MeetCompleted, TypeOK
    <2>4. QueueStates'
      <3>1. SUFFICES ASSUME NEW d \in Coroutines
                     PROVE  /\ is_runnable(state'[d]) /\ d \notin lost' => Queued(d)'
                            /\ Queued(d)' => d \notin lost' /\ (is_runnable(state'[d]) \/ state'[d] = "Done")
                            /\ d \in lost' => state'[d] \in {"Started", "Running"}
        BY DEF QueueStates
      <3>2. CASE d = c
        BY <2>1, <2>2, <2>3, <3>2 DEF QueueStates
      <3>3. CASE d # c
        BY <2>1, <2>2, <2>3, <3>3 DEF QueueStates
      <3> QED BY <3>2, <3>3
    <2>5. ControlOK'
      <3>1. state'[c] \in {"Ready", "Waiting"} => state'[c] = state[c]
        BY <2>3
      <3> QED BY <2>1, <2>3, <3>1 DEF ControlOK
    <2> QED BY <2>2, <2>4, <2>5
  <1>2. CASE RunNext
    <2> DEFINE c == first_ready
    <2>1. c \in Coroutines /\ state[c] \in {"Started", "Ready"} /\ finishing = NoCoro /\ running
      BY <1>2 DEF RunNext, AtLoopHead, is_runnable, TypeOK
    <2>2. ReadyListShape' /\ \A d \in Coroutines : Queued(d)' <=> Queued(d) /\ d # c
      BY <1>2, DequeueShape DEF RunNext
    <2>9. c \notin lost /\ lost' = lost
      <3>3. Queued(c)
        BY <1>2, FirstQueued DEF RunNext
      <3> QED BY <1>2, <2>1, <3>3 DEF QueueStates, RunNext
    <2>3. stack \in [Coroutines -> Seq(Frames)]
      BY DEF TypeOK
    <2>4. /\ \A d \in Coroutines \ {c} : stack'[d] = stack[d]
          /\ Leave(c, "Done") \/ (Leave(c, "Running") /\ stack'[c] # <<>>)
      <3>1. CASE UNCHANGED <<stack, calls>> /\ Leave(c, "Done")
        BY <3>1
      <3>2. CASE UNCHANGED <<stack, calls>> /\ Leave(c, "Running") /\ state[c] = "Ready"
        BY <2>1, <3>2 DEF ControlOK
      <3>3. ASSUME NEW f, stack' = [stack EXCEPT ![c] = <<f>>], Leave(c, "Running")
            PROVE  <2>4
        <4>1. stack'[c] = <<f>> /\ \A d \in Coroutines \ {c} : stack'[d] = stack[d]
          BY <2>1, <2>3, <3>3
        <4>2. <<f>> # <<>>
          OBVIOUS
        <4> QED BY <3>3, <4>1, <4>2
      <3> QED BY <1>2, <3>1, <3>2, <3>3 DEF RunNext
    <2>5. \A d \in Coroutines \ {c} : state'[d] = state[d]
      BY <2>1, <2>4 DEF Leave, TypeOK
    <2>6. \/ state'[c] = "Done" /\ current' = NoCoro
          \/ state'[c] = "Running" /\ current' = c /\ finishing' = NoCoro /\ stack'[c] # <<>>
      BY <2>1, <2>4 DEF Leave, TypeOK
    <2>7. QueueStates'
      BY <2>2, <2>5, <2>6, <2>9 DEF QueueStates, is_runnable
    <2>8. ControlOK'
      BY <1>2, <2>1, <2>4, <2>5, <2>6, <2>9 DEF ControlOK, RunNext
    <2> QED BY <2>2, <2>7, <2>8
  <1> QED BY <1>1, <1>2, <1>3, <1>4 DEF Loop, Exception

\* A turn of a coroutine preserves the invariant.
LEMMA WorkList ==
    ASSUME ListInv, NEW c \in Coroutines, Work(c)
    PROVE  (ControlOK /\ ReadyListShape /\ QueueStates)'
  <1> USE DEF ListInv
  <1>1. ASSUME NEW kind \in FrameTypes, Call(c, kind)
        PROVE  (ControlOK /\ ReadyListShape /\ QueueStates)'
    <2> DEFINE f == Frame(kind, IF kind = "Async" THEN calls[c] + 1 ELSE 0)
    <2>1. stack' = [stack EXCEPT ![c] = Append(stack[c], f)]
      BY <1>1 DEF Call
    <2>2. stack \in [Coroutines -> Seq(Frames)]
      BY DEF TypeOK
    <2>3. f \in Frames
      <3>1. calls \in [Coroutines -> Nat]
        BY DEF TypeOK
      <3>2. (IF kind = "Async" THEN calls[c] + 1 ELSE 0) \in Nat
        BY <3>1
      <3> QED BY <3>2, FrameType
    <2>4. Append(stack[c], f) # <<>>
      <3>1. stack[c] \in Seq(Frames) /\ Len(stack[c]) \in Nat
        BY <2>2, LenProperties
      <3>2. Len(Append(stack[c], f)) = Len(stack[c]) + 1
        BY <2>3, <3>1, AppendProperties
      <3>3. \A k \in Nat : k + 1 # 0
        OBVIOUS
      <3> QED BY <3>1, <3>2, <3>3, EmptySeq
    <2>5. \A d \in Coroutines : stack[d] # <<>> => stack'[d] # <<>>
      BY <2>1, <2>2, <2>4
    <2>6. ControlOK'
      BY <1>1, <2>5 DEF Call, ControlOK
    <2> QED BY <1>1, <2>6, SameList DEF Call, QueueStates
  <1>2. ASSUME NEW d \in Coroutines, NEW kind \in EntryKinds, Launch(c, d, kind)
        PROVE  (ControlOK /\ ReadyListShape /\ QueueStates)'
    <2>1. (ReadyListShape /\ QueueStates)'
      BY <1>2, ScheduleStep DEF Launch
    <2>2. ControlOK'
      BY <1>2 DEF Launch, ControlOK, TypeOK
    <2> QED BY <2>1, <2>2
  <1>3. ASSUME NEW t \in scripts, ResumeToken(c, t)
        PROVE  (ControlOK /\ ReadyListShape /\ QueueStates)'
    <2>1. t.coro \in Coroutines /\ state[t.coro] = "Waiting"
      BY <1>3 DEF TypeOK, TokenIds, ResumeToken
    <2>2. (ReadyListShape /\ QueueStates)'
      BY <1>3, <2>1, ScheduleStep DEF ResumeToken, resume_coroutine
    <2>3. ControlOK'
      BY <1>3, <2>1 DEF ResumeToken, resume_coroutine, ControlOK, TypeOK
    <2> QED BY <2>2, <2>3
  <1>4. CASE CoroutineToken(c) \/ AsyncToken(c)
    BY <1>4, SameList DEF CoroutineToken, AsyncToken, ControlOK, QueueStates
  <1> QED BY <1>1, <1>2, <1>3, <1>4 DEF Work

LEMMA ProgressList ==
    ASSUME ListInv, NEW c \in Coroutines, Progress(c)
    PROVE  (ControlOK /\ ReadyListShape /\ QueueStates)'
  <1> USE DEF ListInv
  <1>0. c \notin lost /\ lost' = lost
    <2>1. current = c /\ c # NoCoro
      BY ProgressControl
    <2>2. lost' = lost
      BY DEF Progress, Return, Panic, Yield, Dispatch, AsyncYield, AsyncReturn, AsyncPanic,
             AsyncResume
    <2> QED BY <2>1, <2>2 DEF ControlOK
  <1>1. /\ current = c /\ state[c] = "Running" /\ finishing = NoCoro /\ running' = running /\ running
        /\ \A d \in Coroutines \ {c} : stack'[d] = stack[d]
    BY ProgressControl DEF ControlOK
  <1>2. PICK s \in {"Running", "Waiting", "Ready", "Done"} :
            Leave(c, s) /\ (s # "Done" => stack'[c] # <<>>)
    BY ProgressControl
  <1>3. /\ \A d \in Coroutines : state'[d] = IF d = c THEN s ELSE state[d]
        /\ current' = IF s = "Running" THEN c ELSE NoCoro
        /\ s # "Done" => finishing' = NoCoro
    BY <1>1, <1>2 DEF Leave, TypeOK
  <1>4. ControlOK'
    BY <1>0, <1>1, <1>2, <1>3 DEF ControlOK
  <1>5. \A r \in {"Running", "Waiting", "Ready", "Done"} : Leave(c, r) => r = s
    BY <1>3 DEF Leave, TypeOK
  <1>6. ~Queued(c)
    BY <1>1 DEF QueueStates, is_runnable
  <1>7. CASE UNCHANGED list /\ ~Leave(c, "Ready")
    <2>1. s # "Ready"
      BY <1>2, <1>7
    <2> QED BY <1>0, <1>3, <1>4, <1>6, <1>7, <2>1, SameList DEF QueueStates, is_runnable
  <1>8. CASE schedule_coroutine(c) /\ (Leave(c, "Ready") \/ Leave(c, "Done"))
    <2>1. s \in {"Ready", "Done"}
      BY <1>5, <1>8
    <2>2. ReadyListShape' /\ \A d \in Coroutines : Queued(d)' <=> Queued(d) \/ d = c
      BY <1>6, <1>8, ScheduleShape
    <2> QED BY <1>0, <1>3, <1>4, <2>1, <2>2 DEF QueueStates, is_runnable
  <1> QED BY <1>7, <1>8, ProgressControl

\* A step of the scheduler, or of the program around it, preserves the invariant.
LEMMA ListInvStep ==
    ASSUME ListInv, [Next]_vars
    PROVE  ListInv'
  <1>1. CASE Api
    BY <1>1, ApiType, ApiList DEF ListInv
  <1>2. CASE Loop \/ Exception
    BY <1>2, LoopType, LoopList DEF ListInv
  <1>3. ASSUME NEW c \in Coroutines, Work(c) \/ Progress(c)
        PROVE  ListInv'
    BY <1>3, WorkType, WorkList, ProgressType, ProgressList DEF ListInv
  <1>4. CASE UNCHANGED vars
    BY <1>4, SameList DEF vars, ListInv, TypeOK, ControlOK, QueueStates
  <1> QED BY <1>1, <1>2, <1>3, <1>4 DEF Next

LEMMA ListInvInit ==
    ASSUME Init
    PROVE  ListInv
  <1>1. TypeOK
    <2>1. /\ token \in [Coroutines -> Nat] /\ made \in [Coroutines -> Nat]
          /\ calls \in [Coroutines -> Nat] /\ notified \in [Coroutines -> Nat] /\ lost \subseteq Coroutines
          /\ \A c \in Coroutines : token[c] <= made[c]
      BY DEF Init
    <2>2. queue \in Seq(Coroutines) /\ stack \in [Coroutines -> Seq(Frames)]
      BY EmptySeq DEF Init
    <2> QED BY <2>1, <2>2 DEF Init, TypeOK, States, FrameTypes
  <1>2. ReadyListShape
    BY EmptySeq DEF Init, ReadyListShape
  <1>3. ControlOK /\ QueueStates
    BY EmptySeq DEF Init, ControlOK, QueueStates, Queued, is_runnable
  <1> QED BY <1>1, <1>2, <1>3 DEF ListInv

\* Type correctness of the scheduler's state (Context, Coroutine, Interpreter).
THEOREM TypeCorrect == Spec => []TypeOK
  <1>1. Spec => []ListInv
    BY ListInvInit, ListInvStep, PTL DEF Spec
  <1> QED BY <1>1, PTL DEF ListInv

\* The intrusive ready list is well formed in every reachable state, whatever
\* scripts, native functions, callbacks and the host do.
THEOREM ReadyListCorrect == Spec => []ReadyListShape
  <1>1. Spec => []ListInv
    BY ListInvInit, ListInvStep, PTL DEF Spec
  <1> QED BY <1>1, PTL DEF ListInv

-----------------------------------------------------------------------------
(* The life of a coroutine: completion and its callback, the resume tokens, and who is *)
(* marked as running.                                                                  *)

\* The effect of Leave, coroutine by coroutine.
LEMMA LeaveEffect ==
    ASSUME TypeOK, NEW c \in Coroutines, NEW s \in States, Leave(c, s)
    PROVE  /\ \A d \in Coroutines : state'[d] = IF d = c THEN s ELSE state[d]
           /\ \A d \in Coroutines :
                 token'[d] = IF d = c /\ s \in {"Ready", "Done"} THEN 0 ELSE token[d]
           /\ \A d \in Coroutines :
                 notified'[d] = IF d = c /\ s = "Done" /\ callback[c] THEN notified[c] + 1
                                ELSE notified[d]
           /\ current' = IF s = "Running" THEN c ELSE NoCoro
  <1>1. /\ state \in [Coroutines -> States] /\ token \in [Coroutines -> Nat]
        /\ notified \in [Coroutines -> Nat]
    BY DEF TypeOK
  <1>2. /\ state' = [state EXCEPT ![c] = s]
        /\ current' = IF s = "Running" THEN c ELSE NoCoro
        /\ token' = IF s \in {"Ready", "Done"} THEN [token EXCEPT ![c] = 0] ELSE token
        /\ notified' = IF s = "Done" /\ callback[c]
                       THEN [notified EXCEPT ![c] = notified[c] + 1] ELSE notified
    BY DEF Leave
  <1> QED BY <1>1, <1>2

\* A coroutine that returns from its last frame, or unwinds all of them, has none left.
LEMMA ReturnEmpties ==
    ASSUME TypeOK, NEW c \in Coroutines, stack[c] # <<>>, NEW s \in {"Running", "Waiting", "Ready"},
           return_function(c, s)
    PROVE  \E r \in {s, "Done"} : Leave(c, r) /\ (r = "Done" => stack'[c] = <<>>)
  <1>1. stack \in [Coroutines -> Seq(Frames)] /\ stack' = [stack EXCEPT ![c] = Pop(c)]
    BY DEF return_function, TypeOK
  <1>2. CASE Len(stack[c]) = 1
    <2>1. Pop(c) = <<>>
      BY <1>1, <1>2, SubSeqEmpty DEF Pop
    <2> QED BY <1>1, <1>2, <2>1 DEF return_function
  <1>3. CASE Len(stack[c]) # 1
    BY <1>3 DEF return_function
  <1> QED BY <1>2, <1>3

LEMMA UnwindEmpties ==
    ASSUME TypeOK, NEW c \in Coroutines, unwind(c)
    PROVE  \E r \in {"Running", "Done"} : Leave(c, r) /\ (r = "Done" => stack'[c] = <<>>)
  <1>1. PICK k \in 0 .. Len(stack[c]) :
            /\ stack' = [stack EXCEPT ![c] = SubSeq(stack[c], 1, k)]
            /\ Leave(c, IF k = 0 THEN "Done" ELSE "Running")
    BY DEF unwind
  <1>2. stack \in [Coroutines -> Seq(Frames)]
    BY DEF TypeOK
  <1>3. k = 0 => stack'[c] = <<>>
    BY <1>1, <1>2, SubSeqEmpty
  <1> QED BY <1>1, <1>3

\* What the end of a step of the coroutine in control does to it.
LEMMA ProgressEffect ==
    ASSUME ListInv, NEW c \in Coroutines, Progress(c)
    PROVE  /\ current = c /\ state[c] = "Running" /\ stack[c] # <<>>
           /\ \A d \in Coroutines \ {c} : stack'[d] = stack[d]
           /\ \E s \in {"Running", "Waiting", "Ready", "Done"} :
                 Leave(c, s) /\ (s = "Done" => stack'[c] = <<>>)
           /\ UNCHANGED <<entry, calls, made, callback, running, held, lost>>
  <1>1. /\ current = c /\ state[c] = "Running"
        /\ \A d \in Coroutines \ {c} : stack'[d] = stack[d]
    BY ProgressControl DEF ListInv
  <1>2. stack[c] # <<>> /\ TypeOK
    BY <1>1 DEF ListInv, ControlOK
  <1>3. UNCHANGED <<entry, calls, made, callback, running, held, lost>>
    BY DEF Progress, Return, Panic, Yield, Dispatch, AsyncYield, AsyncReturn, AsyncPanic,
           AsyncResume
  <1>4. CASE Return(c) \/ Yield(c) \/ Dispatch(c) \/ AsyncReturn(c)
    BY <1>1, <1>2, <1>3, <1>4, ReturnEmpties DEF Return, Yield, Dispatch, AsyncReturn
  <1>5. CASE Panic(c) \/ AsyncPanic(c)
    BY <1>1, <1>2, <1>3, <1>5, UnwindEmpties DEF Panic, AsyncPanic
  <1>6. CASE AsyncResume(c)
    BY <1>1, <1>2, <1>3, <1>6, ReturnEmpties, UnwindEmpties DEF AsyncResume
  <1>7. CASE AsyncYield(c)
    BY <1>1, <1>2, <1>3, <1>7 DEF AsyncYield
  <1> QED BY <1>4, <1>5, <1>6, <1>7 DEF Progress

\* What the loop does with the coroutine it takes from the list.
LEMMA RunNextEffect ==
    ASSUME ListInv, RunNext
    PROVE  /\ first_ready \in Coroutines /\ current = NoCoro
           /\ \A d \in Coroutines \ {first_ready} : stack'[d] = stack[d]
           /\ \/ /\ state[first_ready] = "Started" /\ stack'[first_ready] # <<>>
                 /\ Leave(first_ready, "Running")
              \/ /\ state[first_ready] = "Started" /\ stack' = stack
                 /\ Leave(first_ready, "Done")
              \/ /\ state[first_ready] = "Ready" /\ stack' = stack
                 /\ Leave(first_ready, "Running")
           /\ UNCHANGED <<entry, made, callback, running, held, lost>>
  <1> DEFINE c == first_ready
  <1>1. c \in Coroutines /\ current = NoCoro
    BY DEF RunNext, AtLoopHead, ListInv, TypeOK
  <1>2. stack \in [Coroutines -> Seq(Frames)]
    BY DEF ListInv, TypeOK
  <1>3. UNCHANGED <<entry, made, callback, running, held, lost>>
    BY DEF RunNext
  <1>4. ASSUME NEW f, stack' = [stack EXCEPT ![c] = <<f>>], Leave(c, "Running"), state[c] = "Started"
        PROVE  /\ \A d \in Coroutines \ {c} : stack'[d] = stack[d]
               /\ stack'[c] # <<>>
    <2>1. <<f>> # <<>>
      OBVIOUS
    <2> QED BY <1>1, <1>2, <1>4, <2>1
  <1>5. CASE \E f : stack' = [stack EXCEPT ![c] = <<f>>] /\ Leave(c, "Running") /\ state[c] = "Started"
    BY <1>1, <1>3, <1>4, <1>5
  <1>6. CASE UNCHANGED stack /\ \/ state[c] = "Started" /\ Leave(c, "Done")
                                \/ state[c] = "Ready" /\ Leave(c, "Running")
    BY <1>1, <1>3, <1>6
  <1> QED BY <1>5, <1>6 DEF RunNext

\* A coroutine that waits is resumed by a token: what resume_coroutine does to it.
LEMMA ResumeEffect ==
    ASSUME TypeOK, NEW c \in Coroutines, resume_coroutine(c)
    PROVE  /\ \A d \in Coroutines : state'[d] = IF d = c THEN "Ready" ELSE state[d]
           /\ \A d \in Coroutines : token'[d] = IF d = c THEN 0 ELSE token[d]
  BY DEF resume_coroutine, TypeOK

\* An async completion stores its result in the top frame of the waiting coroutine.
LEMMA CompleteEffect ==
    ASSUME ListInv, NEW t \in natives, NEW panic \in BOOLEAN, CompleteAsync(t, panic)
    PROVE  /\ t.coro \in Coroutines /\ state[t.coro] = "Waiting" /\ resume_coroutine(t.coro)
           /\ \A d \in Coroutines \ {t.coro} : stack'[d] = stack[d]
           /\ UNCHANGED <<made, notified, held, lost, current, running>>
  <1>1. t.coro \in Coroutines /\ stack \in [Coroutines -> Seq(Frames)]
    BY DEF ListInv, TypeOK
  <1> QED BY <1>1 DEF CompleteAsync

\* The life of a coroutine, seen from one step: what state it can go to.
NextStates(s) ==
    CASE s = "None"    -> {"None", "New", "Started"}
      [] s = "New"     -> {"New", "Started"}
      [] s = "Started" -> {"Started", "Running", "Done"}
      [] s = "Ready"   -> {"Ready", "Running"}
      [] s = "Running" -> {"Running", "Waiting", "Ready", "Done"}
      [] s = "Waiting" -> {"Waiting", "Ready"}
      [] s = "Done"    -> {"Done"}

\* Steps that give a coroutine from outside a new state, or none.
LEMMA ApiWorkStates ==
    ASSUME ListInv, NEW c \in Coroutines, Api \/ Work(c)
    PROVE  /\ \A d \in Coroutines : state'[d] \in NextStates(state[d])
           /\ \A d \in Coroutines, s \in {"Running", "Done"} : state'[d] = s <=> state[d] = s
           /\ lost' = lost /\ current' = current /\ (running => running')
           /\ notified' = notified
  <1> USE DEF NextStates, ListInv
  <1>0. state \in [Coroutines -> States]
    BY DEF TypeOK
  <1>1. ASSUME NEW d \in Coroutines, NEW s \in {"New", "Started", "Ready"},
               state' = [state EXCEPT ![d] = s], s \in NextStates(state[d]), state[d] \notin {"Running", "Done"}
        PROVE  /\ \A e \in Coroutines : state'[e] \in NextStates(state[e])
               /\ \A e \in Coroutines, r \in {"Running", "Done"} : state'[e] = r <=> state[e] = r
    BY <1>0, <1>1 DEF States
  <1>2. ASSUME NEW d \in Coroutines, NEW kind \in EntryKinds,
               MakeCoroutine(d, kind) \/ RunInit(d, kind) \/ Launch(c, d, kind)
        PROVE  /\ \A e \in Coroutines : state'[e] \in NextStates(state[e])
               /\ \A e \in Coroutines, r \in {"Running", "Done"} : state'[e] = r <=> state[e] = r
               /\ lost' = lost /\ current' = current /\ (running => running')
               /\ notified' = notified
    <2>1. state' = [state EXCEPT ![d] = "New"] \/ state' = [state EXCEPT ![d] = "Started"]
      BY <1>2 DEF MakeCoroutine, RunInit, Launch
    <2>2. state[d] = "None" /\ UNCHANGED <<notified, lost, current>>
      BY <1>2 DEF MakeCoroutine, RunInit, Launch
    <2>3. running => running'
      BY <1>2, Zenon DEF MakeCoroutine, RunInit, Launch
    <2> QED BY <1>1, <2>1, <2>2, <2>3
  <1>3. ASSUME NEW d \in Coroutines, Start(d)
        PROVE  /\ \A e \in Coroutines : state'[e] \in NextStates(state[e])
               /\ \A e \in Coroutines, r \in {"Running", "Done"} : state'[e] = r <=> state[e] = r
               /\ lost' = lost /\ current' = current /\ (running => running')
               /\ notified' = notified
    BY <1>1, <1>3 DEF Start
  <1>4. ASSUME NEW t \in natives, NEW panic \in BOOLEAN, CompleteAsync(t, panic)
        PROVE  /\ \A e \in Coroutines : state'[e] \in NextStates(state[e])
               /\ \A e \in Coroutines, r \in {"Running", "Done"} : state'[e] = r <=> state[e] = r
               /\ lost' = lost /\ current' = current /\ (running => running')
               /\ notified' = notified
    <2>1. t.coro \in Coroutines /\ state[t.coro] = "Waiting" /\ resume_coroutine(t.coro)
          /\ UNCHANGED <<notified, lost, current, running>>
      BY <1>4, CompleteEffect
    <2> QED BY <1>1, <2>1 DEF resume_coroutine
  <1>5. ASSUME NEW t \in scripts, ResumeToken(c, t)
        PROVE  /\ \A e \in Coroutines : state'[e] \in NextStates(state[e])
               /\ \A e \in Coroutines, r \in {"Running", "Done"} : state'[e] = r <=> state[e] = r
               /\ lost' = lost /\ current' = current /\ (running => running')
               /\ notified' = notified
    <2>1. t.coro \in Coroutines /\ state[t.coro] = "Waiting" /\ resume_coroutine(t.coro)
          /\ UNCHANGED <<notified, lost, current, running>>
      BY <1>5 DEF ResumeToken, TypeOK, TokenIds
    <2> QED BY <1>1, <2>1 DEF resume_coroutine
  <1>6. CASE UNCHANGED <<state, notified, lost, current, running>>
    BY <1>0, <1>6 DEF States
  <1> QED BY <1>2, <1>3, <1>4, <1>5, <1>6
          DEF Api, Work, SetCallback, FreeToken, Call, CoroutineToken, AsyncToken

\* Steps of the loop, and of the coroutine in control.
LEMMA LoopProgressStates ==
    ASSUME ListInv, NEW c \in Coroutines, Loop \/ Exception \/ Progress(c) \/ UNCHANGED vars
    PROVE  \A d \in Coroutines : state'[d] \in NextStates(state[d])
  <1>0. TypeOK /\ state \in [Coroutines -> States]
    BY DEF ListInv, TypeOK
  <1>1. CASE RunNext
    <2>1. PICK s \in {"Running", "Done"} :
              /\ Leave(first_ready, s) /\ first_ready \in Coroutines
              /\ \/ state[first_ready] = "Started"
                 \/ state[first_ready] = "Ready" /\ s = "Running"
      BY <1>1, RunNextEffect
    <2>2. \A d \in Coroutines : state'[d] = IF d = first_ready THEN s ELSE state[d]
      BY <1>0, <2>1, LeaveEffect DEF States
    <2> QED BY <1>0, <2>1, <2>2 DEF NextStates, States
  <1>2. CASE Progress(c)
    <2>1. state[c] = "Running" /\ \E s \in {"Running", "Waiting", "Ready", "Done"} : Leave(c, s)
      BY <1>2, ProgressEffect
    <2>2. PICK s \in {"Running", "Waiting", "Ready", "Done"} : Leave(c, s)
      BY <2>1
    <2>3. \A d \in Coroutines : state'[d] = IF d = c THEN s ELSE state[d]
      BY <1>0, <2>2, LeaveEffect DEF States
    <2> QED BY <1>0, <2>1, <2>3 DEF NextStates, States
  <1>3. CASE UNCHANGED state
    BY <1>0, <1>3 DEF NextStates, States
  <1>4. CASE ThrowAtStart
    BY <1>0, <1>4 DEF ThrowAtStart, NextStates, States
  <1> QED BY <1>1, <1>2, <1>3, <1>4
          DEF Loop, RunReady, MeetCompleted, LeaveLoop, CallbackReturns, Exception, Throw, vars, coros

LEMMA LifeCycleStep ==
    ASSUME ListInv, [Next]_vars
    PROVE  \A d \in Coroutines : state'[d] \in NextStates(state[d])
  <1>1. SUFFICES ASSUME NEW d \in Coroutines
                 PROVE  state'[d] \in NextStates(state[d])
    OBVIOUS
  <1> QED BY ApiWorkStates, LoopProgressStates DEF Next

-----------------------------------------------------------------------------
(* Completion. *)

\* Coroutine c has no token unless it runs or waits, no frame before it runs
\* and after it has completed, and its callback is invoked by completing.
CompletionOK(c) ==
    /\ state[c] \in {"None", "New", "Started", "Ready", "Done"} => token[c] = 0
    /\ state[c] \in {"None", "New", "Started", "Done"} => stack[c] = <<>>
    /\ notified[c] = 0 \/ (notified[c] = 1 /\ state[c] = "Done")

CompletionInv == \A c \in Coroutines : CompletionOK(c)

LEMMA ApiWorkCompletion ==
    ASSUME ListInv, CompletionInv, NEW c \in Coroutines, Api \/ Work(c)
    PROVE  CompletionInv'
  <1> USE DEF CompletionInv, CompletionOK
  <1>0. /\ TypeOK /\ state \in [Coroutines -> States] /\ stack \in [Coroutines -> Seq(Frames)]
        /\ token \in [Coroutines -> Nat] /\ made \in [Coroutines -> Nat]
    BY DEF ListInv, TypeOK
  <1>1. ASSUME NEW d \in Coroutines, NEW s \in {"New", "Started"}, state[d] \in {"None", "New"},
               state' = [state EXCEPT ![d] = s], UNCHANGED <<stack, token, notified>>
        PROVE  CompletionInv'
    BY <1>0, <1>1
  <1>2. ASSUME NEW d \in Coroutines, state[d] = "Waiting", resume_coroutine(d), notified' = notified,
               \A e \in Coroutines \ {d} : stack'[e] = stack[e]
        PROVE  CompletionInv'
    BY <1>0, <1>2, ResumeEffect
  <1>3. ASSUME UNCHANGED <<state, notified>>, state[c] = "Running",
               \A d \in Coroutines \ {c} : stack'[d] = stack[d] /\ token'[d] = token[d]
        PROVE  CompletionInv'
    BY <1>3
  <1>4. CASE UNCHANGED <<state, notified, stack, token>>
    BY <1>4
  <1>5. ASSUME NEW d \in Coroutines, NEW kind \in EntryKinds,
               MakeCoroutine(d, kind) \/ RunInit(d, kind) \/ Launch(c, d, kind)
        PROVE  CompletionInv'
    BY <1>1, <1>5 DEF MakeCoroutine, RunInit, Launch
  <1>6. ASSUME NEW d \in Coroutines, Start(d)
        PROVE  CompletionInv'
    BY <1>1, <1>6 DEF Start
  <1>7. ASSUME NEW t \in natives, NEW panic \in BOOLEAN, CompleteAsync(t, panic)
        PROVE  CompletionInv'
    BY <1>2, <1>7, CompleteEffect
  <1>8. ASSUME NEW t \in scripts, ResumeToken(c, t)
        PROVE  CompletionInv'
    <2>1. t.coro \in Coroutines
      BY DEF ListInv, TypeOK, TokenIds
    <2> QED BY <1>2, <1>8, <2>1 DEF ResumeToken
  <1>9. ASSUME NEW kind \in FrameTypes, Call(c, kind)
        PROVE  CompletionInv'
    <2>1. state[c] = "Running"
      BY <1>9 DEF Call, InScript, ListInv, ControlOK
    <2> QED BY <1>0, <1>3, <1>9, <2>1 DEF Call
  <1>10. CASE CoroutineToken(c) \/ AsyncToken(c)
    <2>1. state[c] = "Running"
      BY <1>10 DEF CoroutineToken, AsyncToken, InScript, ListInv, ControlOK
    <2>2. \A d \in Coroutines \ {c} : token'[d] = token[d]
      BY <1>0, <1>10 DEF CoroutineToken, AsyncToken, create_token
    <2> QED BY <1>3, <1>10, <2>1, <2>2 DEF CoroutineToken, AsyncToken
  <1> QED BY <1>4, <1>5, <1>6, <1>7, <1>8, <1>9, <1>10
          DEF Api, Work, SetCallback, FreeToken

LEMMA LoopProgressCompletion ==
    ASSUME ListInv, CompletionInv, NEW c \in Coroutines,
           Loop \/ Exception \/ Progress(c) \/ UNCHANGED vars
    PROVE  CompletionInv'
  <1> USE DEF CompletionInv, CompletionOK
  <1>0. TypeOK
    BY DEF ListInv
  <1>1. ASSUME NEW d \in Coroutines, NEW s \in {"Running", "Waiting", "Ready", "Done"}, Leave(d, s),
               state[d] \in {"Started", "Ready", "Running"},
               s = "Running" => state[d] = "Running" \/ token[d] = 0,
               s = "Done" => stack'[d] = <<>>,
               \A e \in Coroutines \ {d} : stack'[e] = stack[e]
        PROVE  CompletionInv'
    <2>1. s \in States
      BY DEF States
    <2> QED BY <1>0, <1>1, <2>1, LeaveEffect
  <1>2. CASE RunNext
    <2>1. /\ state[first_ready] \in {"Started", "Ready"} /\ token[first_ready] = 0
          /\ state[first_ready] = "Started" => stack[first_ready] = <<>>
      BY <1>2, RunNextEffect
    <2> QED BY <1>1, <1>2, <2>1, RunNextEffect
  <1>3. CASE Progress(c)
    BY <1>1, <1>3, ProgressEffect
  <1>4. CASE UNCHANGED <<state, token, stack, notified>>
    BY <1>4
  <1>5. CASE ThrowAtStart
    <2>1. /\ first_ready \in Coroutines /\ state[first_ready] = "Started"
          /\ UNCHANGED <<token, stack, notified>> /\ state \in [Coroutines -> States]
      BY <1>0, <1>5 DEF ThrowAtStart, TypeOK
    <2>2. PICK s \in {"Started", "Running"} : state' = [state EXCEPT ![first_ready] = s]
      BY <1>5 DEF ThrowAtStart
    <2> QED BY <2>1, <2>2
  <1> QED BY <1>2, <1>3, <1>4, <1>5
          DEF Loop, RunReady, MeetCompleted, LeaveLoop, CallbackReturns, Exception, Throw, vars, coros

LEMMA CompletionStep ==
    ASSUME ListInv, CompletionInv, [Next]_vars
    PROVE  CompletionInv'
  <1>1. CASE Coroutines = {}
    BY <1>1 DEF CompletionInv
  <1> QED BY <1>1, ApiWorkCompletion, LoopProgressCompletion DEF Next

\* What a step adds to the number of invocations of the callback of coroutine d.
Invoked(d) == IF callback[d] /\ state[d] # "Done" /\ state'[d] = "Done" THEN 1 ELSE 0

\* Callbacks are invoked by completing, and by nothing else.
LEMMA NotifyStep ==
    ASSUME ListInv, [Next]_vars, NEW d \in Coroutines
    PROVE  notified'[d] = notified[d] + Invoked(d)
  <1>0. TypeOK /\ notified \in [Coroutines -> Nat]
    BY DEF ListInv, TypeOK
  <1>1. ASSUME notified'[d] = notified[d], state'[d] = "Done" => state[d] = "Done"
        PROVE  notified'[d] = notified[d] + Invoked(d)
    BY <1>0, <1>1 DEF Invoked
  <1>2. ASSUME NEW c \in Coroutines, Api \/ Work(c)
        PROVE  notified'[d] = notified[d] + Invoked(d)
    BY <1>1, <1>2, ApiWorkStates
  <1>3. ASSUME NEW c \in Coroutines, NEW s \in States, Leave(c, s), state[c] # "Done"
        PROVE  notified'[d] = notified[d] + Invoked(d)
    <2>1. /\ state'[d] = IF d = c THEN s ELSE state[d]
          /\ notified'[d] = IF d = c /\ s = "Done" /\ callback[c] THEN notified[c] + 1 ELSE notified[d]
      BY <1>0, <1>3, LeaveEffect
    <2> QED BY <1>0, <1>3, <2>1 DEF Invoked
  <1>4. CASE RunNext
    BY <1>3, <1>4, RunNextEffect DEF States
  <1>5. ASSUME NEW c \in Coroutines, Progress(c)
        PROVE  notified'[d] = notified[d] + Invoked(d)
    BY <1>3, <1>5, ProgressEffect DEF States
  <1>6. CASE UNCHANGED <<state, notified>>
    BY <1>1, <1>6
  <1>7. CASE ThrowAtStart
    BY <1>0, <1>1, <1>7 DEF ThrowAtStart, TypeOK
  <1> QED BY <1>2, <1>4, <1>5, <1>6, <1>7
          DEF Next, Loop, RunReady, MeetCompleted, LeaveLoop, CallbackReturns, Exception, Throw, vars, coros

\* A coroutine that has completed stays completed, without frames and tokens, and its callback is
\* invoked once, by the step that completes it, if one is set then, whatever the API, scripts,
\* natives and callbacks do before and after (Context::run_ready, Context::execute_callbacks).
THEOREM CompletionCorrect == Spec => CompletionFinal
  <1>1. Init => CompletionInv
    BY DEF Init, CompletionInv, CompletionOK
  <1>2. ListInv /\ CompletionInv /\ [Next]_vars => (ListInv /\ CompletionInv)'
    BY ListInvStep, CompletionStep
  <1>3. CompletionInv => NotifiedOnce
    BY DEF CompletionInv, CompletionOK, NotifiedOnce
  <1>4. ListInv /\ CompletionInv /\ [Next]_vars
        => [\A c \in Coroutines :
              state[c] = "Done" => state'[c] = "Done" /\ stack'[c] = <<>> /\ token'[c] = 0]_vars
    <2>1. SUFFICES ASSUME ListInv, CompletionInv, [Next]_vars, NEW c \in Coroutines, state[c] = "Done"
                   PROVE  state'[c] = "Done" /\ stack'[c] = <<>> /\ token'[c] = 0
      OBVIOUS
    <2>2. state'[c] = "Done"
      BY <2>1, LifeCycleStep DEF NextStates
    <2> QED BY <2>1, <2>2, CompletionStep DEF CompletionInv, CompletionOK
  <1>5. ListInv /\ [Next]_vars
        => [\A c \in Coroutines :
              notified'[c] = notified[c]
                 + (IF callback[c] /\ state[c] # "Done" /\ state'[c] = "Done" THEN 1 ELSE 0)]_vars
    BY NotifyStep DEF Invoked
  <1> QED BY <1>1, <1>2, <1>3, <1>4, <1>5, ListInvInit, PTL
          DEF Spec, CompletionFinal, DoneIsFinal, NotifiedWhenDone

-----------------------------------------------------------------------------
(* std.dispatch as the outermost function of a coroutine is the one case in *)
(* which a coroutine completes while it is on the list.                     *)

\* The frame at the bottom of a stack is that of the function of the coroutine.
BottomOK == \A c \in Coroutines : stack[c] # <<>> => stack[c][1].type = entry[c]

\* Popping frames and writing to a frame leave the type of the bottom frame alone.
LEMMA PrefixBottom ==
    ASSUME NEW q \in Seq(Frames), NEW k \in 0 .. Len(q), SubSeq(q, 1, k) # <<>>
    PROVE  q # <<>> /\ SubSeq(q, 1, k)[1] = q[1]
  <1>0. Len(q) \in Nat
    BY LenProperties
  <1>1. k # 0
    <2>1. SubSeq(q, 1, 0) = <<>>
      BY SubSeqEmpty
    <2> QED BY <2>1
  <1>2. k \in Nat /\ 1 \in 1 .. k /\ Len(q) # 0
    BY <1>0, <1>1
  <1>3. SubSeq(q, 1, k)[1] = q[1]
    BY <1>0, <1>2
  <1> QED BY <1>2, <1>3, EmptySeq

LEMMA UpdateBottom ==
    ASSUME NEW q \in Seq(Frames), q # <<>>, NEW f \in Frames, f.type = q[Len(q)].type
    PROVE  [q EXCEPT ![Len(q)] = f][1].type = q[1].type
  <1>1. Len(q) \in 1 .. Len(q) /\ 1 \in 1 .. Len(q)
    BY EmptySeq, LenProperties
  <1>2. [q EXCEPT ![Len(q)] = f][1] = IF 1 = Len(q) THEN f ELSE q[1]
    BY <1>1, ExceptSeq
  <1> QED BY <1>2

\* The bottom frame stays what it is, for every step.
LEMMA BottomStep ==
    ASSUME ListInv, CompletionInv, BottomOK, [Next]_vars
    PROVE  BottomOK'
  <1> USE DEF ListInv
  <1>0. stack \in [Coroutines -> Seq(Frames)] /\ entry \in [Coroutines -> FrameTypes \cup {"NotCallable"}]
    BY DEF TypeOK
  <1>1. CASE UNCHANGED <<stack, entry>>
    BY <1>1 DEF BottomOK
  <1>2. ASSUME NEW c \in Coroutines, NEW kind \in EntryKinds,
               UNCHANGED stack, state[c] = "None", entry' = [entry EXCEPT ![c] = kind]
        PROVE  BottomOK'
    BY <1>0, <1>2 DEF BottomOK, CompletionInv, CompletionOK
  <1>3. ASSUME NEW c \in Coroutines, NEW q \in Seq(Frames), UNCHANGED entry,
               stack' = [stack EXCEPT ![c] = q], q # <<>> => q[1].type = entry[c]
        PROVE  BottomOK'
    BY <1>0, <1>3 DEF BottomOK
  <1>4. ASSUME NEW c \in Coroutines, NEW k \in 0 .. Len(stack[c]), UNCHANGED entry,
               stack' = [stack EXCEPT ![c] = SubSeq(stack[c], 1, k)]
        PROVE  BottomOK'
    <2>1. SubSeq(stack[c], 1, k) \in Seq(Frames)
      BY PopType
    <2>2. SubSeq(stack[c], 1, k) # <<>> =>
              stack[c] # <<>> /\ SubSeq(stack[c], 1, k)[1] = stack[c][1]
      BY <1>0, PrefixBottom
    <2> QED BY <1>3, <1>4, <2>1, <2>2 DEF BottomOK
  <1>5. ASSUME NEW c \in Coroutines, stack[c] # <<>>, NEW f \in Frames, UNCHANGED entry,
               f.type = Top(c).type,
               stack' = [stack EXCEPT ![c] = [stack[c] EXCEPT ![Len(stack[c])] = f]]
        PROVE  BottomOK'
    <2>1. [stack[c] EXCEPT ![Len(stack[c])] = f] \in Seq(Frames)
      BY <1>0, <1>5, TopType, ExceptSeq
    <2>2. [stack[c] EXCEPT ![Len(stack[c])] = f][1].type = stack[c][1].type
      BY <1>0, <1>5, UpdateBottom DEF Top
    <2> QED BY <1>3, <1>5, <2>1, <2>2 DEF BottomOK
  <1>6. CASE Api
    <2>1. ASSUME NEW t \in natives, NEW panic \in BOOLEAN, CompleteAsync(t, panic)
          PROVE  BottomOK'
      <3> DEFINE c == t.coro
                 f == [Top(c) EXCEPT !.result = [call |-> t.call, panic |-> panic]]
      <3>1. c \in Coroutines /\ t.call \in Nat
        BY DEF TypeOK
      <3>2. stack[c] # <<>>
        BY <2>1, <3>1 DEF CompleteAsync, ControlOK
      <3>3. f \in Frames /\ f.type = Top(c).type
        BY <3>1, <3>2, TopType DEF Frames
      <3>4. stack' = [stack EXCEPT ![c] = [stack[c] EXCEPT ![Len(stack[c])] = f]] /\ UNCHANGED entry
        BY <2>1 DEF CompleteAsync, Top
      <3> QED BY <1>5, <3>1, <3>2, <3>3, <3>4
    <2> QED BY <1>1, <1>2, <1>6, <2>1 DEF Api, Start, SetCallback, MakeCoroutine, RunInit, FreeToken
  <1>7. CASE RunReady \/ MeetCompleted \/ LeaveLoop \/ CallbackReturns \/ Exception
    BY <1>1, <1>7 DEF RunReady, MeetCompleted, LeaveLoop, CallbackReturns, Exception, Throw, ThrowAtStart
  <1>8. CASE RunNext
    <2> DEFINE c == first_ready
               call == IF entry[c] = "Async" THEN calls[c] + 1 ELSE 0
    <2>1. c \in Coroutines /\ UNCHANGED entry
      BY <1>8 DEF RunNext, TypeOK
    <2>2. CASE stack' = [stack EXCEPT ![c] = <<Frame(entry[c], call)>>] /\ entry[c] # "NotCallable"
      <3>1. call \in Nat
        <4>1. calls \in [Coroutines -> Nat]
          BY DEF TypeOK
        <4> QED BY <2>1, <4>1
      <3>2. Frame(entry[c], call) \in Frames
        BY <1>0, <2>1, <2>2, <3>1, FrameType
      <3>3. <<Frame(entry[c], call)>> \in Seq(Frames)
        BY <3>2
      <3>4. <<Frame(entry[c], call)>>[1].type = entry[c]
        BY DEF Frame
      <3> QED BY <1>3, <2>1, <2>2, <3>3, <3>4 DEF BottomOK
    <2> QED BY <1>1, <1>8, <2>1, <2>2 DEF RunNext
  <1>9. ASSUME NEW c \in Coroutines, Work(c)
        PROVE  BottomOK'
    <2>1. ASSUME NEW kind \in FrameTypes, Call(c, kind)
          PROVE  BottomOK'
      <3> DEFINE f == Frame(kind, IF kind = "Async" THEN calls[c] + 1 ELSE 0)
      <3>1. f \in Frames
        <4>1. calls \in [Coroutines -> Nat]
          BY DEF TypeOK
        <4>2. (IF kind = "Async" THEN calls[c] + 1 ELSE 0) \in Nat
          BY <4>1
        <4> QED BY <4>2, FrameType
      <3>2. stack[c] \in Seq(Frames) /\ stack[c] # <<>> /\ 1 \in 1 .. Len(stack[c])
        BY <1>0, <2>1, EmptySeq, LenProperties DEF Call, InScript, ControlOK
      <3>3. /\ Append(stack[c], f) \in Seq(Frames)
            /\ Append(stack[c], f)[1] = stack[c][1]
        BY <3>1, <3>2, AppendProperties
      <3>4. stack' = [stack EXCEPT ![c] = Append(stack[c], f)] /\ UNCHANGED entry
        BY <2>1 DEF Call
      <3> QED BY <1>3, <3>2, <3>3, <3>4 DEF BottomOK
    <2> QED BY <1>1, <1>2, <1>9, <2>1 DEF Work, Launch, ResumeToken, CoroutineToken, AsyncToken
  <1>10. ASSUME NEW c \in Coroutines, Progress(c)
         PROVE  BottomOK'
    <2>1. UNCHANGED entry
      BY <1>10 DEF Progress, Return, Panic, Yield, Dispatch, AsyncYield, AsyncReturn, AsyncPanic,
                  AsyncResume
    <2>2. stack[c] # <<>>
      BY <1>10, ProgressControl DEF ControlOK
    <2>3. ASSUME NEW s, return_function(c, s)
          PROVE  BottomOK'
      <3>1. \A n \in Nat \ {0} : n - 1 \in 0 .. n
        OBVIOUS
      <3>2. Len(stack[c]) - 1 \in 0 .. Len(stack[c])
        BY <2>2, <3>1, TopType
      <3> QED BY <1>4, <2>1, <2>3, <3>2 DEF return_function, Pop
    <2>4. ASSUME unwind(c)
          PROVE  BottomOK'
      BY <1>4, <2>1, <2>4 DEF unwind
    <2>5. CASE AsyncYield(c)
      <3> DEFINE f == [Top(c) EXCEPT !.state = "RESUME"]
      <3>1. f \in Frames /\ f.type = Top(c).type
        BY <2>2, TopType DEF Frames
      <3>2. stack' = [stack EXCEPT ![c] = [stack[c] EXCEPT ![Len(stack[c])] = f]]
        BY <2>5 DEF AsyncYield, Top
      <3> QED BY <1>5, <2>1, <2>2, <3>1, <3>2
    <2> QED BY <1>10, <2>3, <2>4, <2>5 DEF Progress, Return, Panic, Yield, Dispatch, AsyncReturn,
                  AsyncPanic, AsyncResume
  <1>11. CASE UNCHANGED vars
    BY <1>1, <1>11 DEF vars
  <1> QED BY <1>6, <1>7, <1>8, <1>9, <1>10, <1>11 DEF Next, Loop

\* A completed coroutine is not put on the list by the API, by other coroutines
\* or by the loop.
LEMMA DoneNotScheduled ==
    ASSUME ListInv, NEW c \in Coroutines, Api \/ Work(c)
    PROVE  \A d \in Coroutines :
              state'[d] = "Done" => state[d] = "Done" /\ (Queued(d)' => Queued(d))
  <1> USE DEF ListInv
  <1>1. ASSUME NEW d \in Coroutines, NEW s \in {"Started", "Ready"},
               state[d] \notin {"Started", "Ready", "Running", "Done"},
               schedule_coroutine(d), state' = [state EXCEPT ![d] = s]
        PROVE  \A e \in Coroutines :
                  state'[e] = "Done" => state[e] = "Done" /\ (Queued(e)' => Queued(e))
    <2>1. ~Queued(d)
      BY <1>1 DEF QueueStates, is_runnable
    <2>2. \A e \in Coroutines : Queued(e)' <=> Queued(e) \/ e = d
      BY <1>1, <2>1, ScheduleShape
    <2>3. \A e \in Coroutines : state'[e] = IF e = d THEN s ELSE state[e]
      BY <1>1 DEF TypeOK
    <2> QED BY <2>2, <2>3
  <1>2. ASSUME NEW d \in Coroutines, Start(d)
        PROVE  \A e \in Coroutines :
                  state'[e] = "Done" => state[e] = "Done" /\ (Queued(e)' => Queued(e))
    BY <1>1, <1>2 DEF Start
  <1>3. ASSUME NEW d \in Coroutines, NEW kind \in EntryKinds, RunInit(d, kind) \/ Launch(c, d, kind)
        PROVE  \A e \in Coroutines :
                  state'[e] = "Done" => state[e] = "Done" /\ (Queued(e)' => Queued(e))
    BY <1>1, <1>3 DEF RunInit, Launch
  <1>4. ASSUME NEW t \in natives, NEW panic \in BOOLEAN, CompleteAsync(t, panic)
        PROVE  \A e \in Coroutines :
                  state'[e] = "Done" => state[e] = "Done" /\ (Queued(e)' => Queued(e))
    <2>1. t.coro \in Coroutines /\ state[t.coro] = "Waiting" /\ resume_coroutine(t.coro)
      BY <1>4 DEF CompleteAsync, TypeOK
    <2> QED BY <1>1, <2>1 DEF resume_coroutine
  <1>5. ASSUME NEW t \in scripts, ResumeToken(c, t)
        PROVE  \A e \in Coroutines :
                  state'[e] = "Done" => state[e] = "Done" /\ (Queued(e)' => Queued(e))
    <2>1. t.coro \in Coroutines /\ state[t.coro] = "Waiting" /\ resume_coroutine(t.coro)
      BY <1>5 DEF ResumeToken, TypeOK, TokenIds
    <2> QED BY <1>1, <2>1 DEF resume_coroutine
  <1>6. ASSUME NEW d \in Coroutines, NEW kind \in EntryKinds, MakeCoroutine(d, kind)
        PROVE  \A e \in Coroutines :
                  state'[e] = "Done" => state[e] = "Done" /\ (Queued(e)' => Queued(e))
    <2>1. UNCHANGED list /\ \A e \in Coroutines : state'[e] = IF e = d THEN "New" ELSE state[e]
      BY <1>6 DEF MakeCoroutine, TypeOK
    <2> QED BY <2>1, SameList
  <1>7. CASE UNCHANGED <<list, state>>
    BY <1>7, SameList
  <1> QED BY <1>2, <1>3, <1>4, <1>5, <1>6, <1>7
          DEF Api, Work, SetCallback, FreeToken, Call, CoroutineToken, AsyncToken

\* A step that completes the coroutine in control schedules it only if its function is std.dispatch.
LEMMA DispatchLast ==
    ASSUME ListInv, BottomOK, NEW c \in Coroutines, Progress(c), state'[c] = "Done", entry[c] # "Dispatch"
    PROVE  UNCHANGED list
  <1> USE DEF ListInv
  <1>1. SUFFICES ASSUME Dispatch(c)
                 PROVE  FALSE
    BY DEF Progress, Return, Panic, Yield, AsyncYield, AsyncReturn, AsyncPanic, AsyncResume
  <1>2. return_function(c, "Ready") /\ Top(c).type = "Dispatch" /\ state \in [Coroutines -> States]
    BY <1>1 DEF Dispatch, TypeOK
  <1>3. Len(stack[c]) = 1
    BY <1>2 DEF return_function, Leave
  <1>4. stack[c] # <<>>
    BY ProgressControl DEF ControlOK
  <1>5. stack[c][1].type = "Dispatch"
    BY <1>2, <1>3 DEF Top
  <1> QED BY <1>4, <1>5 DEF BottomOK

\* The function of a coroutine is fixed when it is made.
LEMMA EntryStep ==
    ASSUME ListInv, [Next]_vars, NEW d \in Coroutines, state[d] # "None"
    PROVE  entry'[d] = entry[d]
  <1>0. entry \in [Coroutines -> FrameTypes \cup {"NotCallable"}]
    BY DEF ListInv, TypeOK
  <1>1. ASSUME NEW c \in Coroutines, NEW kind \in EntryKinds, state[c] = "None",
               entry' = [entry EXCEPT ![c] = kind]
        PROVE  entry'[d] = entry[d]
    BY <1>0, <1>1
  <1>2. ASSUME NEW c \in Coroutines, NEW kind \in EntryKinds, MakeCoroutine(c, kind) \/ RunInit(c, kind)
        PROVE  entry'[d] = entry[d]
    BY <1>1, <1>2 DEF MakeCoroutine, RunInit
  <1>3. ASSUME NEW c \in Coroutines, NEW e \in Coroutines, NEW kind \in EntryKinds, Launch(c, e, kind)
        PROVE  entry'[d] = entry[d]
    BY <1>1, <1>3 DEF Launch
  <1>4. CASE Api
    BY <1>2, <1>4 DEF Api, Start, SetCallback, FreeToken, CompleteAsync
  <1>5. ASSUME NEW c \in Coroutines, Work(c)
        PROVE  entry'[d] = entry[d]
    BY <1>3, <1>5 DEF Work, Call, ResumeToken, CoroutineToken, AsyncToken
  <1>6. ASSUME NEW c \in Coroutines, Progress(c)
        PROVE  entry'[d] = entry[d]
    BY <1>6, ProgressEffect
  <1>7. CASE Loop \/ Exception \/ UNCHANGED vars
    BY <1>7 DEF Loop, RunReady, RunNext, MeetCompleted, LeaveLoop, CallbackReturns,
                Exception, Throw, ThrowAtStart, vars
  <1> QED BY <1>4, <1>5, <1>6, <1>7 DEF Next

LEMMA RunnableStep ==
    ASSUME ListInv, CompletionInv, BottomOK, RunnableIffQueued, [Next]_vars
    PROVE  RunnableIffQueued'
  <1>1. QueueStates'
    BY ListInvStep DEF ListInv
  <1>2. SUFFICES ASSUME NEW d \in Coroutines, Queued(d)', state'[d] = "Done"
                 PROVE  entry'[d] = "Dispatch"
    BY <1>1 DEF QueueStates, RunnableIffQueued
  <1>3. entry'[d] = entry[d]
    BY <1>2, EntryStep, LifeCycleStep DEF NextStates
  <1>4. ASSUME state[d] = "Done", Queued(d)
        PROVE  entry'[d] = "Dispatch"
    BY <1>3, <1>4 DEF RunnableIffQueued, is_runnable
  <1>5. ASSUME NEW c \in Coroutines, Api \/ Work(c)
        PROVE  entry'[d] = "Dispatch"
    BY <1>2, <1>4, <1>5, DoneNotScheduled
  <1>6. CASE UNCHANGED <<list, state>>
    BY <1>2, <1>4, <1>6, SameList DEF ListInv
  <1>7. CASE RunNext \/ MeetCompleted \/ ThrowAtStart
    <2>1. first_ready \in Coroutines /\ first_ready # NoCoro /\ dequeue_coroutine
          /\ TypeOK /\ state \in [Coroutines -> States]
      BY <1>7 DEF RunNext, MeetCompleted, ThrowAtStart, ListInv, TypeOK
    <2>2. Queued(d) /\ d # first_ready
      BY <1>2, <2>1, DequeueShape DEF ListInv
    <2>3. \A s \in States : Leave(first_ready, s) => state'[d] = state[d]
      BY <2>1, <2>2, LeaveEffect
    <2>4. state'[d] = state[d]
      BY <1>7, <2>1, <2>2, <2>3 DEF RunNext, MeetCompleted, ThrowAtStart, States
    <2> QED BY <1>2, <1>4, <2>2, <2>4
  <1>8. ASSUME NEW c \in Coroutines, Progress(c)
        PROVE  entry'[d] = "Dispatch"
    <2>1. current = c /\ state[c] = "Running" /\ ~Queued(c)
      BY <1>8, ProgressControl DEF ListInv, QueueStates, is_runnable
    <2>2. PICK s : Leave(c, s)
      BY <1>8, ProgressControl DEF ListInv
    <2>3. \A e \in Coroutines \ {c} : state'[e] = state[e]
      BY <2>2 DEF Leave, ListInv, TypeOK
    <2>4. UNCHANGED list \/ schedule_coroutine(c)
      BY <1>8, ProgressControl DEF ListInv
    <2>5. \A e \in Coroutines \ {c} : Queued(e)' <=> Queued(e)
      BY <2>1, <2>4, SameList, ScheduleShape DEF ListInv
    <2>6. CASE d # c
      BY <1>2, <1>4, <2>3, <2>5, <2>6
    <2>7. CASE d = c
      <3>1. CASE UNCHANGED list
        BY <1>2, <2>1, <2>7, <3>1, SameList DEF ListInv
      <3>2. CASE ~UNCHANGED list
        BY <1>2, <1>3, <1>8, <2>7, <3>2, DispatchLast
      <3> QED BY <3>1, <3>2
    <2> QED BY <2>6, <2>7
  <1>9. CASE Api
    BY <1>2, <1>5, <1>9
  <1> QED BY <1>5, <1>6, <1>7, <1>8, <1>9
          DEF Next, Loop, RunReady, LeaveLoop, CallbackReturns, Exception, Throw, vars, coros

\* Whatever the functions of the coroutines are, and whichever exceptions escape: the coroutines on
\* the ready list are those that can run and that no exception has thrown out of their first call,
\* but for a coroutine of std.dispatch itself, which completes as it is listed
\* (Context::schedule_coroutine, Context::dequeue_coroutine, Interpreter::run_until_block).
THEOREM RunnableCorrect == Spec => []RunnableIffQueued
  <1>1. Init => ListInv
    BY ListInvInit
  <1>2. Init => CompletionInv /\ BottomOK /\ RunnableIffQueued
    BY DEF Init, CompletionInv, CompletionOK, BottomOK, RunnableIffQueued, Queued, is_runnable
  <1>3. ListInv /\ CompletionInv /\ BottomOK /\ RunnableIffQueued /\ [Next]_vars
        => (ListInv /\ CompletionInv /\ BottomOK /\ RunnableIffQueued)'
    BY ListInvStep, CompletionStep, BottomStep, RunnableStep
  <1> QED BY <1>1, <1>2, <1>3, PTL DEF Spec

-----------------------------------------------------------------------------
(* The scheduler implements the queue of FifoScheduler. *)

StatusMap == [c \in Coroutines |-> Status(c)]

\* A step that concerns one coroutine changes the status of this one only.
LEMMA StatusUpdate ==
    ASSUME NEW c \in Coroutines, NEW s,
           \A d \in Coroutines \ {c} : Status(d)' = Status(d), Status(c)' = s
    PROVE  StatusMap' = [StatusMap EXCEPT ![c] = s]
  BY DEF StatusMap

\* The status of a coroutine that a step leaves alone.
LEMMA SameStatus ==
    ASSUME NEW d \in Coroutines, Queued(d)' <=> Queued(d), d \in lost' <=> d \in lost,
           state'[d] = state[d], d = current' <=> d = current
    PROVE  Status(d)' = Status(d)
  BY DEF Status

\* Scheduling a coroutine that is not in control is a step Enqueue.
LEMMA EnqueueStep ==
    ASSUME ListInv, NEW c \in Coroutines, NEW s \in {"Started", "Ready"},
           state[c] \in {"None", "New", "Waiting"}, schedule_coroutine(c),
           state' = [state EXCEPT ![c] = s], UNCHANGED <<current, lost>>
    PROVE  Fifo!Next
  <1>1. \A d \in Coroutines : state'[d] = IF d = c THEN s ELSE state[d]
    BY DEF ListInv, TypeOK
  <1>2. ~Queued(c) /\ c \notin lost /\ c # current
    BY DEF ListInv, QueueStates, ControlOK, is_runnable
  <1>3. \A d \in Coroutines : Queued(d)' <=> Queued(d) \/ d = c
    BY <1>2, ScheduleShape DEF ListInv
  <1>4. Status(c)' = "ready"
    BY <1>3 DEF Status
  <1>5. \A d \in Coroutines \ {c} : Status(d)' = Status(d)
    BY <1>1, <1>3, SameStatus
  <1>6. StatusMap[c] \in {"inactive", "waiting"}
    BY <1>2 DEF StatusMap, Status
  <1>7. StatusMap' = [StatusMap EXCEPT ![c] = "ready"]
    BY <1>4, <1>5, StatusUpdate
  <1>8. queue' = Append(queue, c)
    BY DEF schedule_coroutine
  <1>9. Fifo!Enqueue(c)
    BY <1>6, <1>7, <1>8 DEF Fifo!Enqueue, StatusMap
  <1> QED BY <1>9 DEF Fifo!Next

\* A step that changes neither states, nor list, nor who is in control stutters.
LEMMA StutterStep ==
    ASSUME queue' = queue, current' = current, \A d \in Coroutines : Status(d)' = Status(d)
    PROVE  UNCHANGED Fifo!vars
  <1>1. StatusMap' = StatusMap
    BY DEF StatusMap
  <1> QED BY <1>1 DEF Fifo!vars, StatusMap

LEMMA SameStutter ==
    ASSUME UNCHANGED <<queue, state, current, lost>>
    PROVE  UNCHANGED Fifo!vars
  <1>1. \A d \in Coroutines : Status(d)' = Status(d)
    BY SameStatus DEF Queued
  <1> QED BY <1>1, StutterStep

LEMMA ApiWorkFifo ==
    ASSUME ListInv, NEW c \in Coroutines, Api \/ Work(c)
    PROVE  [Fifo!Next]_(Fifo!vars)
  <1> USE DEF ListInv
  <1>1. ASSUME NEW d \in Coroutines, Start(d)
        PROVE  Fifo!Next
    BY <1>1, EnqueueStep DEF Start
  <1>2. ASSUME NEW d \in Coroutines, NEW kind \in EntryKinds, RunInit(d, kind) \/ Launch(c, d, kind)
        PROVE  Fifo!Next
    BY <1>2, EnqueueStep DEF RunInit, Launch
  <1>3. ASSUME NEW t \in natives, NEW panic \in BOOLEAN, CompleteAsync(t, panic)
        PROVE  Fifo!Next
    <2>1. t.coro \in Coroutines /\ state[t.coro] = "Waiting" /\ resume_coroutine(t.coro) /\ UNCHANGED <<current, lost>>
      BY <1>3 DEF CompleteAsync, TypeOK
    <2> QED BY <2>1, EnqueueStep DEF resume_coroutine
  <1>4. ASSUME NEW t \in scripts, ResumeToken(c, t)
        PROVE  Fifo!Next
    <2>1. t.coro \in Coroutines /\ state[t.coro] = "Waiting" /\ resume_coroutine(t.coro) /\ UNCHANGED <<current, lost>>
      BY <1>4 DEF ResumeToken, TypeOK, TokenIds
    <2> QED BY <2>1, EnqueueStep DEF resume_coroutine
  <1>5. ASSUME NEW d \in Coroutines, NEW kind \in EntryKinds, MakeCoroutine(d, kind)
        PROVE  UNCHANGED Fifo!vars
    <2>1. \A e \in Coroutines : state'[e] = IF e = d THEN "New" ELSE state[e]
      BY <1>5 DEF MakeCoroutine, TypeOK
    <2>2. current' = current /\ lost' = lost /\ queue' = queue /\ state[d] = "None"
      BY <1>5 DEF MakeCoroutine
    <2>3. \A e \in Coroutines : Queued(e)' <=> Queued(e)
      BY <2>2 DEF Queued
    <2>4. Status(d)' = Status(d)
      BY <2>1, <2>2, <2>3 DEF Status
    <2>5. \A e \in Coroutines \ {d} : Status(e)' = Status(e)
      BY <2>1, <2>2, <2>3, SameStatus
    <2> QED BY <2>2, <2>4, <2>5, StutterStep
  <1>6. CASE UNCHANGED <<queue, state, current, lost>>
    BY <1>6, SameStutter
  <1> QED BY <1>1, <1>2, <1>3, <1>4, <1>5, <1>6
          DEF Api, Work, SetCallback, FreeToken, Call, CoroutineToken, AsyncToken

\* The loop takes the first coroutine: it gets control, completes at once or is lost.
LEMMA SelectStep ==
    ASSUME ListInv, first_ready # NoCoro, current = NoCoro, dequeue_coroutine,
           \A d \in Coroutines \ {first_ready} :
              state'[d] = state[d] /\ (d \in lost' <=> d \in lost),
           \/ /\ state'[first_ready] = "Running" /\ current' = first_ready /\ lost' = lost
           \/ /\ state'[first_ready] = "Done" /\ current' = NoCoro /\ lost' = lost
           \/ /\ first_ready \in lost' /\ current' = NoCoro
    PROVE  Fifo!Next
  <1>0. PICK c \in Coroutines : c = first_ready
    BY FirstQueued DEF ListInv
  <1>1. c # NoCoro /\ queue # <<>> /\ c = Head(queue) /\ queue' = Tail(queue) /\ c \notin lost
    BY <1>0, FirstQueued DEF ListInv, QueueStates, dequeue_coroutine
  <1>2. \A d \in Coroutines : Queued(d)' <=> Queued(d) /\ d # c
    BY <1>0, DequeueShape DEF ListInv
  <1>3. \A d \in Coroutines \ {c} : Status(d)' = Status(d)
    BY <1>0, <1>1, <1>2, SameStatus
  <1>4. ~Queued(c)'
    BY <1>2
  <1>5. \/ Status(c)' = "active" /\ current' = c
        \/ Status(c)' \in {"done", "lost"} /\ current' = NoCoro
    BY <1>0, <1>1, <1>4 DEF Status
  <1>6. \/ StatusMap' = [StatusMap EXCEPT ![c] = "active"] /\ current' = c
        \/ (\E s \in {"done", "lost"} : StatusMap' = [StatusMap EXCEPT ![c] = s]) /\ current' = NoCoro
    BY <1>3, <1>5, StatusUpdate
  <1>7. Fifo!Select
    BY <1>1, <1>6 DEF Fifo!Select, StatusMap
  <1> QED BY <1>7 DEF Fifo!Next

LEMMA LoopFifo ==
    ASSUME ListInv, Loop \/ Exception
    PROVE  [Fifo!Next]_(Fifo!vars)
  <1> USE DEF ListInv
  <1>1. CASE RunReady \/ LeaveLoop \/ CallbackReturns
    BY <1>1, SameStutter DEF RunReady, LeaveLoop, CallbackReturns
  <1>2. CASE Throw
    <2>0. PICK c \in Coroutines : c = current
      BY <1>2 DEF Throw, TypeOK
    <2>1. /\ c # NoCoro /\ UNCHANGED <<queue, state>> /\ lost' = lost \cup {c}
          /\ current' = NoCoro /\ state[c] = "Running"
      BY <1>2, <2>0 DEF Throw, ControlOK
    <2>2. ~Queued(c) /\ \A d \in Coroutines : Queued(d)' <=> Queued(d)
      BY <2>1 DEF Queued, QueueStates, is_runnable
    <2>3. Status(c)' = "lost"
      BY <2>1, <2>2 DEF Status
    <2>4. \A d \in Coroutines \ {c} : Status(d)' = Status(d)
      BY <2>0, <2>1, <2>2, SameStatus
    <2>5. StatusMap' = [StatusMap EXCEPT ![c] = "lost"]
      BY <2>3, <2>4, StatusUpdate
    <2>6. Fifo!Release(c)
      BY <2>0, <2>1, <2>5 DEF Fifo!Release, StatusMap
    <2> QED BY <2>6 DEF Fifo!Next
  <1>3. CASE RunNext
    <2>1. /\ first_ready \in Coroutines /\ first_ready # NoCoro /\ current = NoCoro /\ dequeue_coroutine
          /\ lost' = lost
      BY <1>3 DEF RunNext, AtLoopHead, TypeOK
    <2>2. PICK s \in {"Running", "Done"} : Leave(first_ready, s)
      BY <1>3, RunNextEffect
    <2>3. /\ \A d \in Coroutines : state'[d] = IF d = first_ready THEN s ELSE state[d]
          /\ current' = IF s = "Running" THEN first_ready ELSE NoCoro
      BY <2>1, <2>2, LeaveEffect DEF States
    <2>4. /\ \A d \in Coroutines \ {first_ready} : state'[d] = state[d] /\ (d \in lost' <=> d \in lost)
          /\ \/ /\ state'[first_ready] = "Running" /\ current' = first_ready /\ lost' = lost
             \/ /\ state'[first_ready] = "Done" /\ current' = NoCoro /\ lost' = lost
      BY <2>1, <2>3
    <2> QED BY <2>1, <2>4, SelectStep
  <1>4. CASE ThrowAtStart
    <2>1. /\ first_ready \in Coroutines /\ first_ready # NoCoro /\ current = NoCoro /\ dequeue_coroutine
          /\ lost' = lost \cup {first_ready} /\ current' = NoCoro
          /\ \A d \in Coroutines \ {first_ready} : state'[d] = state[d]
      BY <1>4 DEF ThrowAtStart, AtLoopHead, TypeOK
    <2> QED BY <2>1, SelectStep
  <1>5. CASE MeetCompleted
    <2>1. /\ first_ready \in Coroutines /\ first_ready # NoCoro /\ current = NoCoro /\ dequeue_coroutine
          /\ lost' = lost /\ current' = NoCoro /\ state' = state /\ ~is_runnable(state[first_ready])
      BY <1>5 DEF MeetCompleted, AtLoopHead, TypeOK
    <2>2. state[first_ready] = "Done"
      BY <2>1, FirstQueued DEF QueueStates
    <2> QED BY <2>1, <2>2, SelectStep
  <1> QED BY <1>1, <1>2, <1>3, <1>4, <1>5 DEF Loop, Exception

LEMMA ProgressFifo ==
    ASSUME ListInv, NEW c \in Coroutines, Progress(c)
    PROVE  [Fifo!Next]_(Fifo!vars)
  <1> USE DEF ListInv
  <1>1. current = c /\ state[c] = "Running" /\ c # NoCoro /\ c \notin lost /\ lost' = lost /\ ~Queued(c)
    <2>1. current = c /\ state[c] = "Running" /\ c # NoCoro
      BY ProgressControl
    <2>2. lost' = lost
      BY ProgressEffect
    <2> QED BY <2>1, <2>2 DEF ControlOK, QueueStates, is_runnable
  <1>2. PICK s \in {"Running", "Waiting", "Ready", "Done"} : Leave(c, s)
    BY ProgressControl
  <1>3. /\ \A d \in Coroutines : state'[d] = IF d = c THEN s ELSE state[d]
        /\ current' = IF s = "Running" THEN c ELSE NoCoro
    BY <1>2 DEF Leave, TypeOK
  <1>5. \A r \in {"Running", "Waiting", "Ready", "Done"} : Leave(c, r) => r = s
    BY <1>3 DEF Leave, TypeOK
  <1>6. CASE schedule_coroutine(c) /\ (Leave(c, "Ready") \/ Leave(c, "Done"))
    <2>1. \A d \in Coroutines : Queued(d)' <=> Queued(d) \/ d = c
      BY <1>1, <1>6, ScheduleShape
    <2>2. \A d \in Coroutines \ {c} : Status(d)' = Status(d)
      BY <1>1, <1>3, <2>1, SameStatus
    <2>3. s \in {"Ready", "Done"} /\ queue' = Append(queue, c) /\ current' = NoCoro
      BY <1>3, <1>5, <1>6 DEF schedule_coroutine
    <2>4. Status(c)' = "ready"
      BY <2>1 DEF Status
    <2>5. StatusMap' = [StatusMap EXCEPT ![c] = "ready"]
      BY <2>2, <2>4, StatusUpdate
    <2>6. Fifo!Requeue(c)
      BY <1>1, <2>3, <2>5 DEF Fifo!Requeue, StatusMap
    <2> QED BY <2>6 DEF Fifo!Next
  <1>7. CASE UNCHANGED list /\ ~Leave(c, "Ready")
    <2>1. \A d \in Coroutines : Queued(d)' <=> Queued(d)
      BY <1>7 DEF Queued
    <2>2. \A d \in Coroutines \ {c} : Status(d)' = Status(d)
      BY <1>1, <1>3, <2>1, SameStatus
    <2>3. s # "Ready" /\ queue' = queue
      BY <1>2, <1>7
    <2>4. CASE s = "Running"
      <3>1. Status(c)' = Status(c)
        BY <1>1, <1>3, <2>1, <2>4, SameStatus
      <3> QED BY <1>1, <1>3, <2>2, <2>3, <2>4, <3>1, StutterStep
    <2>5. CASE s \in {"Waiting", "Done"}
      <3>1. current' = NoCoro /\ Status(c)' \in {"waiting", "done"}
        BY <1>1, <1>3, <2>1, <2>5 DEF Status
      <3>2. \E r \in {"waiting", "done", "lost"} : StatusMap' = [StatusMap EXCEPT ![c] = r]
        BY <2>2, <3>1, StatusUpdate
      <3>3. Fifo!Release(c)
        BY <1>1, <2>3, <3>1, <3>2 DEF Fifo!Release, StatusMap
      <3> QED BY <3>3 DEF Fifo!Next
    <2> QED BY <2>3, <2>4, <2>5
  <1> QED BY <1>6, <1>7, ProgressControl

\* Every behaviour of the scheduler, with its intrusive list, tokens, callbacks, any functions of
\* coroutines and exceptions, is a behaviour of the FIFO queue.
THEOREM FifoCorrect == Spec => ImplementsFifo
  <1>1. Init => Fifo!Init
    <2>1. Init => StatusMap = [c \in Coroutines |-> "inactive"]
      <3>1. SUFFICES ASSUME Init, NEW c \in Coroutines
                     PROVE  Status(c) = "inactive"
        BY DEF StatusMap
      <3>2. ~Queued(c) /\ c \notin lost /\ c # current /\ state[c] = "None"
        BY <3>1 DEF Init, Queued
      <3> QED BY <3>2 DEF Status
    <2> QED BY <2>1 DEF Init, Fifo!Init, StatusMap
  <1>2. ListInv /\ [Next]_vars => [Fifo!Next]_(Fifo!vars)
    <2>1. SUFFICES ASSUME ListInv, [Next]_vars
                   PROVE  [Fifo!Next]_(Fifo!vars)
      OBVIOUS
    <2>2. CASE UNCHANGED vars
      BY <2>2, SameStutter DEF vars
    <2>3. CASE Api
      <3>1. CASE Coroutines = {}
        <4>1. UNCHANGED <<queue, current, lost>>
          BY <2>1, <2>3, <3>1 DEF Api, FreeToken, CompleteAsync, ListInv, TypeOK
        <4> QED BY <3>1, <4>1, StutterStep
      <3> QED BY <2>1, <2>3, <3>1, ApiWorkFifo
    <2> QED BY <2>1, <2>2, <2>3, ApiWorkFifo, LoopFifo, ProgressFifo DEF Next
  <1> QED BY <1>1, <1>2, ListInvInit, ListInvStep, PTL DEF Spec, ImplementsFifo, Fifo!Spec

-----------------------------------------------------------------------------
(* Async resume tokens. *)

\* The frame that token t was made for is on top: executing its native function
\* while the coroutine runs, ready for its result once the coroutine waits.
AtItsFrame(t) ==
    /\ stack[t.coro] # <<>>
    /\ Top(t.coro).type = "Async" /\ Top(t.coro).call = t.call
    /\ Top(t.coro).state = IF state[t.coro] = "Waiting" THEN "RESUME" ELSE "START"

\* A token has a number that was handed out, and is at its frame unless it is stale.
TokenOK(t) ==
    /\ t.token \in 1 .. made[t.coro]
    /\ token[t.coro] = t.token => AtItsFrame(t)

TokenInv == \A t \in natives : TokenOK(t)

\* Tokens of coroutines that a step leaves alone.
LEMMA SameToken ==
    ASSUME NEW t, TokenOK(t),
           made'[t.coro] = made[t.coro], token'[t.coro] = token[t.coro],
           stack'[t.coro] = stack[t.coro],
           state'[t.coro] = "Waiting" <=> state[t.coro] = "Waiting"
    PROVE  TokenOK(t)'
  BY DEF TokenOK, AtItsFrame, Top

\* A token of a coroutine that has none any more is stale.
LEMMA StaleToken ==
    ASSUME NEW t, TokenOK(t), made'[t.coro] = made[t.coro], token'[t.coro] = 0
    PROVE  TokenOK(t)'
  <1>1. t.token # 0
    BY DEF TokenOK
  <1> QED BY <1>1 DEF TokenOK

\* The tokens that are there before a step of coroutine c that keeps control.
LEMMA WorkTokens ==
    ASSUME ListInv, CompletionInv, TokenInv, NEW c \in Coroutines, Work(c)
    PROVE  TokenInv'
  <1> USE DEF ListInv
  <1>0. /\ state \in [Coroutines -> States] /\ stack \in [Coroutines -> Seq(Frames)]
        /\ token \in [Coroutines -> Nat] /\ made \in [Coroutines -> Nat]
        /\ \A t \in natives : t.coro \in Coroutines
    BY DEF TypeOK
  <1>1. ASSUME NEW d \in Coroutines, NEW s, s # "Waiting", state[d] # "Waiting",
               state' = [state EXCEPT ![d] = s], UNCHANGED <<stack, token, made, natives>>
        PROVE  TokenInv'
    BY <1>0, <1>1, SameToken DEF TokenInv
  <1>2. ASSUME NEW d \in Coroutines, NEW kind \in EntryKinds, Launch(c, d, kind)
        PROVE  TokenInv'
    BY <1>1, <1>2 DEF Launch
  <1>3. ASSUME NEW t \in scripts, ResumeToken(c, t)
        PROVE  TokenInv'
    <2>1. t.coro \in Coroutines /\ resume_coroutine(t.coro) /\ UNCHANGED <<stack, made, natives>>
      BY <1>3 DEF TypeOK, TokenIds, ResumeToken
    <2>2. \A u \in natives : TokenOK(u)'
      BY <1>0, <2>1, SameToken, StaleToken, ResumeEffect DEF TokenInv
    <2> QED BY <2>1, <2>2 DEF TokenInv
  <1>4. ASSUME NEW kind \in FrameTypes, Call(c, kind)
        PROVE  TokenInv'
    <2>1. /\ Top(c).type = "Code" /\ UNCHANGED <<state, token, made, natives>>
          /\ \A d \in Coroutines \ {c} : stack'[d] = stack[d]
      BY <1>0, <1>4 DEF Call, InScript
    <2>2. \A t \in natives : TokenOK(t)'
      <3>1. SUFFICES ASSUME NEW t \in natives
                     PROVE  TokenOK(t)'
        OBVIOUS
      <3>2. CASE t.coro # c
        BY <1>0, <2>1, <3>2, SameToken DEF TokenInv
      <3>3. CASE t.coro = c
        BY <2>1, <3>3 DEF TokenInv, TokenOK, AtItsFrame
      <3> QED BY <3>2, <3>3
    <2> QED BY <2>1, <2>2 DEF TokenInv
  <1>5. ASSUME CoroutineToken(c) \/ AsyncToken(c)
        PROVE  /\ \A t \in natives : TokenOK(t)'
               /\ token'[c] \in 1 .. made'[c]
    <2>1. UNCHANGED <<stack, state>> /\ create_token(c)
      BY <1>5 DEF CoroutineToken, AsyncToken
    <2>2. CASE token[c] # 0
      <3>1. UNCHANGED <<made, token>>
        BY <2>1, <2>2 DEF create_token
      <3>2. token[c] <= made[c]
        BY DEF TypeOK
      <3> QED BY <1>0, <2>1, <2>2, <3>1, <3>2, SameToken DEF TokenInv
    <2>3. CASE token[c] = 0
      <3>1. /\ made' = [made EXCEPT ![c] = made[c] + 1]
            /\ token' = [token EXCEPT ![c] = made[c] + 1]
        BY <2>1, <2>3 DEF create_token
      <3>2. token'[c] = made[c] + 1 /\ made'[c] = made[c] + 1 /\ made[c] \in Nat
            /\ \A d \in Coroutines \ {c} : token'[d] = token[d] /\ made'[d] = made[d]
        BY <1>0, <3>1
      <3>3. ASSUME NEW t \in natives
            PROVE  TokenOK(t)'
        <4>1. CASE t.coro # c
          BY <1>0, <2>1, <3>2, <4>1, SameToken DEF TokenInv
        <4>2. CASE t.coro = c
          <5>1. t.token \in 1 .. made[c]
            BY <4>2 DEF TokenInv, TokenOK
          <5>2. t.token \in 1 .. (made[c] + 1) /\ made[c] + 1 # t.token
            BY <3>2, <5>1
          <5> QED BY <3>2, <4>2, <5>2 DEF TokenOK
        <4> QED BY <4>1, <4>2
      <3>4. token'[c] \in 1 .. made'[c]
        BY <3>2
      <3> QED BY <3>3, <3>4
    <2> QED BY <2>2, <2>3
  <1>6. CASE CoroutineToken(c)
    BY <1>5, <1>6 DEF TokenInv, CoroutineToken
  <1>7. CASE AsyncToken(c)
    <2>0. PICK n : n = [coro |-> c, token |-> token'[c], call |-> Top(c).call]
      OBVIOUS
    <2>1. /\ Top(c).type = "Async" /\ Top(c).state = "START" /\ current = c
          /\ UNCHANGED <<stack, state>> /\ natives' = natives \cup {n}
      BY <1>7, <2>0 DEF AsyncToken, InNative
    <2>2. state[c] = "Running" /\ stack[c] # <<>>
      BY <2>1 DEF ControlOK
    <2>3. AtItsFrame(n)'
      BY <2>0, <2>1, <2>2 DEF AtItsFrame, Top
    <2>4. TokenOK(n)'
      BY <1>5, <1>7, <2>0, <2>3 DEF TokenOK
    <2> QED BY <1>5, <1>7, <2>1, <2>4 DEF TokenInv
  <1> QED BY <1>2, <1>3, <1>4, <1>6, <1>7 DEF Work

LEMMA ApiTokens ==
    ASSUME ListInv, CompletionInv, TokenInv, Api
    PROVE  TokenInv'
  <1> USE DEF ListInv
  <1>0. /\ state \in [Coroutines -> States] /\ stack \in [Coroutines -> Seq(Frames)]
        /\ token \in [Coroutines -> Nat] /\ made \in [Coroutines -> Nat]
        /\ \A t \in natives : t.coro \in Coroutines
    BY DEF TypeOK
  <1>1. ASSUME NEW d \in Coroutines, NEW s \in {"New", "Started"}, state[d] \in {"None", "New"},
               state' = [state EXCEPT ![d] = s], UNCHANGED <<stack, token, made, natives>>
        PROVE  TokenInv'
    BY <1>0, <1>1, SameToken DEF TokenInv
  <1>2. ASSUME NEW d \in Coroutines, NEW kind \in EntryKinds, MakeCoroutine(d, kind) \/ RunInit(d, kind)
        PROVE  TokenInv'
    BY <1>1, <1>2 DEF MakeCoroutine, RunInit
  <1>3. ASSUME NEW d \in Coroutines, Start(d)
        PROVE  TokenInv'
    BY <1>1, <1>3 DEF Start
  <1>4. ASSUME UNCHANGED <<stack, state, token, made>>, natives' \subseteq natives
        PROVE  TokenInv'
    BY <1>0, <1>4, SameToken DEF TokenInv
  <1>5. ASSUME NEW t \in natives, NEW panic \in BOOLEAN, CompleteAsync(t, panic)
        PROVE  TokenInv'
    <2>1. /\ t.coro \in Coroutines /\ resume_coroutine(t.coro) /\ UNCHANGED <<made, natives>>
          /\ \A d \in Coroutines \ {t.coro} : stack'[d] = stack[d]
      BY <1>5, CompleteEffect
    <2>2. \A u \in natives : TokenOK(u)'
      BY <1>0, <2>1, SameToken, StaleToken, ResumeEffect DEF TokenInv
    <2> QED BY <2>1, <2>2 DEF TokenInv
  <1>6. ASSUME NEW t \in natives, FreeToken(t)
        PROVE  TokenInv'
    BY <1>4, <1>6 DEF FreeToken
  <1>7. ASSUME NEW d \in Coroutines, SetCallback(d)
        PROVE  TokenInv'
    BY <1>4, <1>7 DEF SetCallback
  <1> QED BY <1>2, <1>3, <1>5, <1>6, <1>7 DEF Api

\* The loop gives control to coroutines that have no token.
LEMMA LoopTokens ==
    ASSUME ListInv, CompletionInv, TokenInv, Loop \/ Exception \/ UNCHANGED vars
    PROVE  TokenInv'
  <1>0. TypeOK /\ \A t \in natives : t.coro \in Coroutines
    BY DEF ListInv, TypeOK
  <1>1. CASE RunNext
    <2>1. PICK s \in {"Running", "Done"} : Leave(first_ready, s)
      BY <1>1, RunNextEffect
    <2>2. /\ first_ready \in Coroutines /\ UNCHANGED <<made, natives>>
          /\ \A d \in Coroutines \ {first_ready} : stack'[d] = stack[d]
          /\ state[first_ready] \in {"Started", "Ready"}
      BY <1>1, RunNextEffect
    <2>3. /\ \A d \in Coroutines \ {first_ready} : token'[d] = token[d] /\ state'[d] = state[d]
          /\ token'[first_ready] = 0
      BY <1>0, <2>1, <2>2, LeaveEffect DEF CompletionInv, CompletionOK, States
    <2>4. \A t \in natives : TokenOK(t)'
      BY <1>0, <2>2, <2>3, SameToken, StaleToken DEF TokenInv
    <2> QED BY <2>2, <2>4 DEF TokenInv
  <1>2. CASE UNCHANGED <<stack, state, token, made, natives>>
    BY <1>2, SameToken DEF TokenInv
  <1>3. CASE ThrowAtStart
    <2>1. PICK s \in {"Started", "Running"} : state' = [state EXCEPT ![first_ready] = s]
      BY <1>3 DEF ThrowAtStart
    <2>2. state[first_ready] = "Started" /\ UNCHANGED <<stack, token, made, natives>>
      BY <1>3 DEF ThrowAtStart
    <2>3. \A d \in Coroutines : state'[d] = "Waiting" <=> state[d] = "Waiting"
      BY <1>0, <2>1, <2>2 DEF TypeOK
    <2> QED BY <1>0, <2>2, <2>3, SameToken DEF TokenInv
  <1> QED BY <1>1, <1>2, <1>3
          DEF Loop, RunReady, MeetCompleted, LeaveLoop, CallbackReturns, Exception, Throw, vars, coros

\* The frame that a native yields from is the one that waits for the result.
LEMMA YieldTop ==
    ASSUME ListInv, NEW c \in Coroutines, AsyncYield(c)
    PROVE  /\ stack'[c] # <<>>
           /\ Top(c)'.type = Top(c).type /\ Top(c)'.call = Top(c).call /\ Top(c)'.state = "RESUME"
  <1> DEFINE n == Len(stack[c])
             f == [Top(c) EXCEPT !.state = "RESUME"]
  <1>1. stack[c] # <<>> /\ TypeOK /\ stack \in [Coroutines -> Seq(Frames)]
    BY DEF AsyncYield, ListInv, ControlOK, TypeOK
  <1>2. n \in 1 .. n /\ n \in Nat \ {0} /\ Top(c) \in Frames /\ stack[c] \in Seq(Frames)
    BY <1>1, TopType
  <1>3. f \in Frames /\ f.type = Top(c).type /\ f.call = Top(c).call /\ f.state = "RESUME"
    BY <1>2 DEF Frames
  <1>4. stack' = [stack EXCEPT ![c] = [stack[c] EXCEPT ![n] = f]]
    BY DEF AsyncYield, Top
  <1>5. stack'[c] = [stack[c] EXCEPT ![n] = f]
    BY <1>1, <1>4
  <1>6. /\ [stack[c] EXCEPT ![n] = f] \in Seq(Frames)
        /\ Len([stack[c] EXCEPT ![n] = f]) = n
        /\ [stack[c] EXCEPT ![n] = f][n] = f
    BY <1>2, <1>3, ExceptSeq
  <1>7. Len(stack'[c]) = n /\ stack'[c][n] = f /\ stack'[c] # <<>>
    BY <1>2, <1>5, <1>6, EmptySeq
  <1> HIDE DEF f
  <1> QED BY <1>3, <1>7 DEF Top

\* A native that keeps its token yields; the others have freed theirs.
LEMMA ProgressTokens ==
    ASSUME ListInv, CompletionInv, TokenInv, NEW c \in Coroutines, Progress(c)
    PROVE  TokenInv'
  <1>0. TypeOK /\ \A t \in natives : t.coro \in Coroutines
    BY DEF ListInv, TypeOK
  <1>1. PICK s \in {"Running", "Waiting", "Ready", "Done"} : Leave(c, s)
    BY ProgressEffect
  <1>2. /\ UNCHANGED <<made, natives>> /\ state[c] = "Running" /\ current = c
        /\ \A d \in Coroutines \ {c} : stack'[d] = stack[d]
    BY ProgressEffect
  <1>3. /\ \A d \in Coroutines \ {c} : token'[d] = token[d] /\ state'[d] = state[d]
        /\ token'[c] \in {token[c], 0} /\ state'[c] = s
    BY <1>0, <1>1, LeaveEffect DEF States
  <1>4. SUFFICES ASSUME NEW t \in natives
                 PROVE  TokenOK(t)'
    BY <1>2 DEF TokenInv
  <1>5. CASE t.coro # c
    BY <1>0, <1>2, <1>3, <1>5, SameToken DEF TokenInv
  <1>6. CASE t.coro = c /\ token'[c] = 0
    BY <1>2, <1>6, StaleToken DEF TokenInv
  <1>7. CASE t.coro = c /\ token[c] # t.token /\ token'[c] = token[c]
    BY <1>2, <1>7 DEF TokenInv, TokenOK
  <1>8. CASE t.coro = c /\ token[c] = t.token
    <2>1. Top(c).type = "Async" /\ Top(c).call = t.call /\ Top(c).state = "START"
      BY <1>2, <1>8 DEF TokenInv, TokenOK, AtItsFrame
    <2>2. KeepsToken(c)
      BY <1>8, <2>1 DEF KeepsToken
    <2>3. AsyncYield(c)
      BY <2>1, <2>2 DEF Progress, Return, Panic, Yield, Dispatch, AsyncReturn, AsyncPanic,
                        AsyncResume, InScript
    <2>4. Leave(c, "Waiting")
      BY <2>3 DEF AsyncYield
    <2>5. state'[c] = "Waiting" /\ token'[c] = token[c]
      BY <1>0, <2>4, LeaveEffect DEF States
    <2>6. AtItsFrame(t)'
      BY <1>8, <2>1, <2>3, <2>5, YieldTop DEF AtItsFrame
    <2> QED BY <1>2, <1>4, <1>8, <2>5, <2>6 DEF TokenInv, TokenOK
  <1> QED BY <1>3, <1>5, <1>6, <1>7, <1>8

LEMMA TokenStep ==
    ASSUME ListInv, CompletionInv, TokenInv, [Next]_vars
    PROVE  TokenInv'
  BY WorkTokens, ApiTokens, LoopTokens, ProgressTokens DEF Next

\* However tokens are shared, cached, freed and used, and whatever the coroutine executed
\* since: a token that can still be used finds the frame of its own async call on top of the
\* waiting coroutine (UnownedAsyncResumeToken::get_frame, AsyncResumeToken::complete).
THEOREM TokenCorrect == Spec => []TokenReachesItsFrame
  <1>1. Init => CompletionInv /\ TokenInv
    BY DEF Init, CompletionInv, CompletionOK, TokenInv
  <1>2. ListInv /\ CompletionInv /\ TokenInv /\ [Next]_vars => (ListInv /\ CompletionInv /\ TokenInv)'
    BY ListInvStep, CompletionStep, TokenStep
  <1>3. ListInv /\ TokenInv => TokenReachesItsFrame
    <2>1. SUFFICES ASSUME ListInv, TokenInv, NEW t \in natives,
                          valid(t.coro, t.token), state[t.coro] = "Waiting"
                   PROVE  /\ Len(stack[t.coro]) > 0
                          /\ Top(t.coro).type = "Async" /\ Top(t.coro).state = "RESUME"
                          /\ Top(t.coro).call = t.call
      BY DEF TokenReachesItsFrame
    <2>2. AtItsFrame(t)
      BY <2>1 DEF TokenInv, TokenOK, valid
    <2>3. t.coro \in Coroutines /\ TypeOK
      BY <2>1 DEF ListInv, TypeOK
    <2>4. Len(stack[t.coro]) > 0
      BY <2>2, <2>3, TopType DEF AtItsFrame
    <2> QED BY <2>1, <2>2, <2>4 DEF AtItsFrame
  <1> QED BY <1>1, <1>2, <1>3, ListInvInit, PTL DEF Spec

-----------------------------------------------------------------------------
(* Who is marked as running. *)

\* Nobody is marked running but the coroutine in control and those that an exception threw out.
RunningInv == \A c \in Coroutines : state[c] = "Running" => c = current \/ c \in lost

LEMMA RunningStep ==
    ASSUME ListInv, RunningInv, [Next]_vars
    PROVE  RunningInv'
  <1>0. TypeOK /\ state \in [Coroutines -> States]
    BY DEF ListInv, TypeOK
  <1>1. ASSUME \A c \in Coroutines : state'[c] = "Running" => state[c] = "Running",
               UNCHANGED <<lost, current>>
        PROVE  RunningInv'
    BY <1>1 DEF RunningInv
  <1>2. CASE Throw
    BY <1>2 DEF Throw, RunningInv
  <1>3. CASE ThrowAtStart
    BY <1>0, <1>3 DEF ThrowAtStart, AtLoopHead, RunningInv, TypeOK
  <1>4. CASE RunNext
    <2>1. first_ready \in Coroutines /\ current = NoCoro /\ UNCHANGED lost
      BY <1>4, RunNextEffect
    <2>2. PICK s \in {"Running", "Done"} : Leave(first_ready, s)
      BY <1>4, RunNextEffect
    <2>3. /\ \A d \in Coroutines : state'[d] = IF d = first_ready THEN s ELSE state[d]
          /\ current' = IF s = "Running" THEN first_ready ELSE NoCoro
      BY <1>0, <2>1, <2>2, LeaveEffect DEF States
    <2> QED BY <2>1, <2>3 DEF RunningInv
  <1>5. ASSUME NEW c \in Coroutines, Progress(c)
        PROVE  RunningInv'
    <2>1. current = c /\ UNCHANGED lost
      BY <1>5, ProgressEffect
    <2>2. PICK s \in {"Running", "Waiting", "Ready", "Done"} : Leave(c, s)
      BY <1>5, ProgressEffect
    <2>3. /\ \A d \in Coroutines : state'[d] = IF d = c THEN s ELSE state[d]
          /\ current' = IF s = "Running" THEN c ELSE NoCoro
      BY <1>0, <2>2, LeaveEffect DEF States
    <2> QED BY <2>1, <2>3 DEF RunningInv
  <1>6. ASSUME NEW c \in Coroutines, Api \/ Work(c)
        PROVE  RunningInv'
    BY <1>1, <1>6, ApiWorkStates
  <1>7. CASE UNCHANGED <<state, lost, current>>
    BY <1>1, <1>7
  <1>8. CASE Coroutines = {}
    BY <1>8 DEF RunningInv
  <1> QED BY <1>2, <1>3, <1>4, <1>5, <1>6, <1>7, <1>8
          DEF Next, Loop, RunReady, MeetCompleted, LeaveLoop, CallbackReturns, Exception, vars, coros

\* A coroutine that is marked running, or started and on no list, is in control or was thrown out
\* of the interpreter by an exception, before or after its first call had begun, and the loop ends
\* without an exception only when nobody else can run (Context::run_ready, Interpreter::run).
THEOREM NoCoroutineLostCorrect == Spec => NoCoroutineLost
  <1>1. Init => RunningInv
    BY DEF Init, RunningInv
  <1>2. ListInv /\ RunningInv /\ [Next]_vars => (ListInv /\ RunningInv)'
    BY ListInvStep, RunningStep
  <1>3. ListInv /\ RunningInv => RunningAccounted
    <2>1. SUFFICES ASSUME ListInv, RunningInv
                   PROVE  RunningAccounted
      OBVIOUS
    <2>2. /\ lost \subseteq Coroutines /\ current \in Coroutines \cup {NoCoro}
          /\ \A c \in Coroutines : state[c] \in States
      BY <2>1 DEF ListInv, TypeOK
    <2>3. \A c \in Coroutines :
             (state[c] = "Running" \/ (is_runnable(state[c]) /\ ~Queued(c)))
                <=> c \in lost \/ (c = current /\ c # NoCoro)
      BY <2>1, <2>2 DEF ListInv, QueueStates, RunningInv, ControlOK, is_runnable
    <2> QED BY <2>2, <2>3 DEF RunningAccounted
  <1>4. ListInv /\ [Next]_vars
        => [running /\ ~running' /\ UNCHANGED <<queue, lost>>
              => \A c \in Coroutines : is_runnable(state[c]) => c \in lost]_vars
    <2>1. SUFFICES ASSUME ListInv, Next, running, ~running', queue' = queue, lost' = lost,
                          NEW c \in Coroutines, is_runnable(state[c]), c \notin lost
                   PROVE  FALSE
      OBVIOUS
    <2>2. Queued(c)
      BY <2>1 DEF ListInv, QueueStates
    <2>3. ~Api /\ \A d \in Coroutines : ~Work(d)
      BY <2>1, ApiWorkStates
    <2>4. \A d \in Coroutines : ~Progress(d)
      BY <2>1, ProgressEffect
    <2>5. ~Throw
      BY <2>1 DEF Throw, ListInv, ControlOK, TypeOK
    <2>6. ~RunReady /\ ~RunNext /\ ~CallbackReturns
      BY <2>1 DEF RunReady, RunNext, CallbackReturns
    <2>7. ~ThrowAtStart /\ ~MeetCompleted
      <3>1. SUFFICES ASSUME first_ready # NoCoro, dequeue_coroutine
                     PROVE  FALSE
        BY DEF ThrowAtStart, MeetCompleted
      <3>2. queue # <<>> /\ queue \in Seq(Coroutines) /\ queue = Tail(queue)
        BY <2>1, <3>1, FirstQueued DEF ListInv, TypeOK, dequeue_coroutine
      <3>3. Len(queue) \in Nat /\ Len(Tail(queue)) = Len(queue) - 1
        BY <3>2, HeadTailProperties, LenProperties
      <3> QED BY <3>2, <3>3
    <2>8. LeaveLoop
      BY <2>1, <2>3, <2>4, <2>5, <2>6, <2>7 DEF Next, Loop, Exception
    <2>9. queue # <<>>
      BY <2>2 DEF Queued
    <2>10. first_ready = queue[1] /\ queue \in Seq(Coroutines)
      BY <2>1, <2>9 DEF ListInv, ReadyListShape, TypeOK
    <2>11. queue[1] \in Coroutines
      BY <2>9, <2>10, EmptySeq, ElementOfSeq
    <2> QED BY <2>8, <2>10, <2>11 DEF LeaveLoop
  <1> QED BY <1>1, <1>2, <1>3, <1>4, ListInvInit, PTL DEF Spec, NoCoroutineLost, RunReadyDrains
=============================================================================
