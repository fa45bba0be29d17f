-------------------------- MODULE CallStackProofs --------------------------
(***************************************************************************)
(* Proofs about the call stack, for any size of the stack, any number of   *)
(* frames, arguments, deferred statements and exceptions.                  *)
(***************************************************************************)
EXTENDS CallStack, SequenceTheorems, WellFoundedInduction, TLAPS

USE SizeAssumption DEF memory, panics

\* Every set of natural numbers has a least one.
LEMMA LeastNatural ==
    ASSUME NEW T, T \subseteq Nat, T # {}
    PROVE  \E x \in T : \A y \in T : x <= y
  <1> DEFINE R == {ss \in Nat \X Nat : ss[1] < ss[2]}
  <1>1. IsWellFoundedOn(R, Nat)
    BY NatLessThanWellFounded, Zenon DEF OpToRel
  <1>2. PICK x \in T : \A y \in T : ~(<<y, x>> \in R)
    <2> HIDE DEF R
    <2> QED BY <1>1, WFMin
  <1>3. \A y \in T : (y < x) => <<y, x>> \in R
    OBVIOUS
  <1>4. \A y \in T : ~(y < x)
    <2> HIDE DEF R
    <2> QED BY <1>2, <1>3
  <1>5. \A y \in T : x <= y
    BY <1>4
  <1> QED BY <1>5

\* The room that grow makes suffices.
LEMMA GrowSuffices ==
    ASSUME NEW n \in Nat, capacity \in Nat, Fits(n) \/ n <= capacity
    PROVE  grow(n) \in Nat /\ n <= grow(n)
  <1>1. CASE n <= capacity
    BY <1>1 DEF grow
  <1>2. CASE ~(n <= capacity)
    <2> DEFINE T == {c \in Capacities : n <= c}
    <2>1. T \subseteq Nat
      BY DEF Capacities
    <2>2. T # {}
      BY <1>2 DEF Fits
    <2>3. PICK c \in T : \A d \in T : c <= d
      <3> HIDE DEF T
      <3> QED BY <2>1, <2>2, LeastNatural
    <2>4. \E x \in Capacities : n <= x /\ \A d \in Capacities : n <= d => x <= d
      BY <2>3
    <2>5. grow(n) \in Capacities /\ n <= grow(n)
      BY <1>2, <2>4 DEF grow
    <2> QED BY <2>5 DEF Capacities
  <1> QED BY <1>1, <1>2

\* Frames have a size.
LEMMA SizesAreNat ==
    \A type \in FrameTypes : frame_size(type) \in Nat /\ Locals(type) \in Nat
  BY DEF FrameTypes, frame_size, Locals

-----------------------------------------------------------------------------
(* Stacks of frames.  The invariant is stated for any sequence of frames, so *)
(* that every way to change the sequence is treated once.                    *)

\* The address behind a frame and its locals.
End(f) == f.at + frame_size(f.type) + Locals(f.type)

\* The first address that the values above the frames fs can have.
TopOf(fs) == IF fs = <<>> THEN 0 ELSE End(fs[Len(fs)])

\* A frame fits above address a, and it knows the exception that it handles.
FrameOK(f, a) ==
    /\ popped(f) = f.base
    /\ a <= f.base
    /\ f.unwinding \/ f.handling => f.exception # 0

FramesOK(fs) ==
    /\ fs \in Seq(FrameRecords)
    /\ \A i \in 1 .. Len(fs) : FrameOK(fs[i], IF i = 1 THEN 0 ELSE End(fs[i - 1]))

\* The inductive invariant.
LayoutInv ==
    /\ TypeOK
    /\ FramesOK(frames)
    /\ TopOf(frames) <= top
    /\ top <= capacity
    /\ state = "Started" => frames = <<>> /\ top = 0

\* The numbers of a frame.
LEMMA FrameNumbers ==
    ASSUME NEW f \in FrameRecords
    PROVE  /\ f.at \in Nat /\ f.argc \in Nat /\ f.base \in Nat
           /\ frame_size(f.type) \in Nat /\ Locals(f.type) \in Nat
           /\ End(f) \in Nat /\ f.at <= End(f)
           /\ popped(f) \in Int /\ popped(f) <= f.at
  <1>1. /\ f.at \in Nat /\ f.argc \in Nat /\ f.base \in Nat /\ f.type \in FrameTypes
        /\ f.extra \in BOOLEAN
    BY DEF FrameRecords
  <1>2. frame_size(f.type) \in Nat /\ Locals(f.type) \in Nat
    BY <1>1, SizesAreNat
  <1> QED BY <1>1, <1>2 DEF End, popped

LEMMA TopOfNat ==
    ASSUME NEW fs, FramesOK(fs)
    PROVE  TopOf(fs) \in Nat
  <1>1. CASE fs = <<>>
    BY <1>1 DEF TopOf
  <1>2. CASE fs # <<>>
    <2>1. fs[Len(fs)] \in FrameRecords
      BY <1>2, EmptySeq, LenProperties, ElementOfSeq DEF FramesOK
    <2> QED BY <1>2, <2>1, FrameNumbers DEF TopOf
  <1> QED BY <1>1, <1>2

\* A frame is pushed.
LEMMA PushFrame ==
    ASSUME NEW fs, FramesOK(fs), NEW f \in FrameRecords, FrameOK(f, TopOf(fs))
    PROVE  FramesOK(Append(fs, f)) /\ TopOf(Append(fs, f)) = End(f)
  <1> DEFINE gs == Append(fs, f)
  <1>1. /\ fs \in Seq(FrameRecords) /\ Len(fs) \in Nat /\ gs \in Seq(FrameRecords)
        /\ Len(gs) = Len(fs) + 1 /\ gs[Len(fs) + 1] = f
        /\ \A i \in 1 .. Len(fs) : gs[i] = fs[i]
    BY AppendProperties, LenProperties DEF FramesOK
  <1>2. TopOf(gs) = End(f)
    <2>1. gs # <<>>
      BY <1>1, EmptySeq
    <2> HIDE DEF gs
    <2> QED BY <1>1, <2>1 DEF TopOf
  <1>3. ASSUME NEW i \in 1 .. Len(gs)
        PROVE  FrameOK(gs[i], IF i = 1 THEN 0 ELSE End(gs[i - 1]))
    <2> HIDE DEF gs
    <2>1. CASE i \in 1 .. Len(fs)
      <3>1. gs[i] = fs[i] /\ (i # 1 => gs[i - 1] = fs[i - 1])
        BY <1>1, <2>1
      <3>2. FrameOK(fs[i], IF i = 1 THEN 0 ELSE End(fs[i - 1]))
        BY <2>1 DEF FramesOK
      <3> QED BY <3>1, <3>2
    <2>2. CASE i = Len(fs) + 1
      <3>1. CASE i = 1
        <4>1. fs = <<>>
          BY <1>1, <2>2, <3>1, EmptySeq
        <4> QED BY <1>1, <2>2, <3>1, <4>1 DEF TopOf
      <3>2. CASE i # 1
        <4>1. fs # <<>> /\ Len(fs) \in 1 .. Len(fs) /\ i - 1 = Len(fs)
          BY <1>1, <2>2, <3>2, EmptySeq
        <4>2. End(gs[i - 1]) = TopOf(fs)
          BY <1>1, <4>1 DEF TopOf
        <4> QED BY <1>1, <2>2, <3>2, <4>2
      <3> QED BY <3>1, <3>2
    <2>3. i \in 1 .. Len(fs) \/ i = Len(fs) + 1
      BY <1>1
    <2> QED BY <2>1, <2>2, <2>3
  <1> QED BY <1>1, <1>2, <1>3 DEF FramesOK

\* The last frame is popped.
LEMMA PopFrame ==
    ASSUME NEW fs, FramesOK(fs), fs # <<>>
    PROVE  /\ FramesOK(SubSeq(fs, 1, Len(fs) - 1))
           /\ Len(SubSeq(fs, 1, Len(fs) - 1)) = Len(fs) - 1
           /\ TopOf(SubSeq(fs, 1, Len(fs) - 1)) <= popped(fs[Len(fs)])
  <1> DEFINE gs == SubSeq(fs, 1, Len(fs) - 1)
  <1>1. fs \in Seq(FrameRecords) /\ Len(fs) \in Nat \ {0}
    BY EmptySeq, LenProperties DEF FramesOK
  <1>2. \A i \in 1 .. (Len(fs) - 1) : fs[i] \in FrameRecords
    BY <1>1, ElementOfSeq
  <1>3. /\ gs \in Seq(FrameRecords) /\ Len(gs) = Len(fs) - 1
        /\ \A i \in 1 .. (Len(fs) - 1) : gs[i] = fs[i]
    <2> DEFINE m == Len(fs) - 1
    <2>1. m \in Nat /\ m \in Int /\ 1 \in Int /\ (\A i \in 1 .. m : fs[i] \in FrameRecords)
      BY <1>1, <1>2
    <2> HIDE DEF m
    <2>2. m \in 0 .. Len(fs)
      BY <1>1 DEF m
    <2>3. /\ SubSeq(fs, 1, m) \in Seq(FrameRecords)
          /\ Len(SubSeq(fs, 1, m)) = m
          /\ \A i \in 1 .. m : SubSeq(fs, 1, m)[i] = fs[i]
      BY <1>1, <2>1, <2>2
    <2> QED BY <2>3 DEF m
  <1> HIDE DEF gs
  <1>4. ASSUME NEW i \in 1 .. Len(gs)
        PROVE  FrameOK(gs[i], IF i = 1 THEN 0 ELSE End(gs[i - 1]))
    <2>1. i \in 1 .. Len(fs) /\ gs[i] = fs[i] /\ (i # 1 => gs[i - 1] = fs[i - 1])
      BY <1>1, <1>3
    <2>2. FrameOK(fs[i], IF i = 1 THEN 0 ELSE End(fs[i - 1]))
      BY <2>1 DEF FramesOK
    <2> QED BY <2>1, <2>2
  <1>5. TopOf(gs) <= popped(fs[Len(fs)])
    <2>1. FrameOK(fs[Len(fs)], IF Len(fs) = 1 THEN 0 ELSE End(fs[Len(fs) - 1]))
      <3>1. Len(fs) \in 1 .. Len(fs)
        BY <1>1
      <3> QED BY <3>1 DEF FramesOK
    <2>2. CASE Len(fs) = 1
      <3>1. gs = <<>>
        BY <1>3, <2>2, EmptySeq
      <3> QED BY <2>1, <2>2, <3>1 DEF FrameOK, TopOf
    <2>3. CASE Len(fs) # 1
      <3>1. gs # <<>> /\ gs[Len(gs)] = fs[Len(fs) - 1]
        BY <1>1, <1>3, <2>3, EmptySeq
      <3> QED BY <2>1, <2>3, <3>1 DEF FrameOK, TopOf
    <2> QED BY <2>2, <2>3
  <1> QED BY <1>3, <1>4, <1>5 DEF FramesOK, gs

\* The last frame changes, but stays where it is.
LEMMA ChangeFrame ==
    ASSUME NEW fs, FramesOK(fs), fs # <<>>, NEW f \in FrameRecords,
           f.type = fs[Len(fs)].type, f.at = fs[Len(fs)].at, f.argc = fs[Len(fs)].argc,
           f.extra = fs[Len(fs)].extra, f.base = fs[Len(fs)].base,
           f.unwinding \/ f.handling => f.exception # 0
    PROVE  /\ FramesOK([fs EXCEPT ![Len(fs)] = f])
           /\ TopOf([fs EXCEPT ![Len(fs)] = f]) = TopOf(fs)
           /\ [fs EXCEPT ![Len(fs)] = f] # <<>>
  <1> DEFINE n == Len(fs)
             gs == [fs EXCEPT ![n] = f]
  <1>1. fs \in Seq(FrameRecords) /\ n \in Nat \ {0}
    BY EmptySeq, LenProperties DEF FramesOK
  <1>2. /\ gs \in Seq(FrameRecords) /\ Len(gs) = n
        /\ gs[n] = f /\ \A i \in 1 .. n : i # n => gs[i] = fs[i]
    BY <1>1, ExceptSeq
  <1>3. gs # <<>>
    BY <1>1, <1>2, EmptySeq
  <1>4. popped(f) = popped(fs[n]) /\ End(f) = End(fs[n])
    BY DEF popped, End
  <1>5. TopOf(gs) = TopOf(fs)
    <2> HIDE DEF gs, n
    <2> QED BY <1>2, <1>3, <1>4 DEF TopOf, n
  <1>6. ASSUME NEW i \in 1 .. n
        PROVE  FrameOK(gs[i], IF i = 1 THEN 0 ELSE End(gs[i - 1]))
    <2>1. FrameOK(fs[i], IF i = 1 THEN 0 ELSE End(fs[i - 1]))
      BY DEF FramesOK
    <2> HIDE DEF gs
    <2>2. i # 1 => gs[i - 1] = fs[i - 1]
      BY <1>1, <1>2
    <2>3. CASE i = n
      <3>1. FrameOK(f, IF i = 1 THEN 0 ELSE End(fs[i - 1]))
        BY <1>4, <2>1, <2>3 DEF FrameOK
      <3> QED BY <1>2, <2>2, <2>3, <3>1
    <2>4. CASE i # n
      BY <1>2, <2>1, <2>2, <2>4
    <2> QED BY <2>3, <2>4
  <1>7. FramesOK(gs)
    <2> HIDE DEF gs
    <2> QED BY <1>2, <1>6 DEF FramesOK
  <1> QED BY <1>3, <1>5, <1>7

-----------------------------------------------------------------------------
(* The exceptions. *)

\* The part of the type invariant that is about exceptions.
PanicsTyped ==
    /\ flying \in 0 .. MaxThrown
    /\ result \in 0 .. MaxThrown
    /\ secondary \subseteq Exceptions \X Exceptions
    /\ thrown \in 0 .. MaxThrown
    /\ caught \subseteq Exceptions
    /\ swallowed \subseteq Exceptions
    /\ during \in [Exceptions -> SUBSET Exceptions]
    /\ leftover \in [Exceptions -> SUBSET Exceptions]

\* What a step has to establish to preserve the invariant.
LEMMA Combine ==
    ASSUME FramesOK(frames'), top' \in Nat, capacity' \in Nat,
           TopOf(frames') <= top', top' <= capacity',
           state' \in {"Running", "Waiting", "Done", "Crashed"},
           PanicsTyped'
    PROVE  LayoutInv'
  <1>1. frames' \in Seq(FrameRecords)
    BY DEF FramesOK
  <1>2. TypeOK'
    BY <1>1 DEF TypeOK, PanicsTyped
  <1> QED BY <1>2 DEF LayoutInv

\* The frame on top.
LEMMA TopFrame ==
    ASSUME LayoutInv, frames # <<>>
    PROVE  /\ Depth \in Nat \ {0}
           /\ Frame \in FrameRecords
           /\ popped(Frame) = Frame.base
           /\ Frame.unwinding \/ Frame.handling => Frame.exception \in Exceptions
           /\ TopOf(frames) = End(Frame)
           /\ popped(Frame) < End(Frame)
           /\ values_begin(Depth) = TopOf(frames)
  <1>1. frames \in Seq(FrameRecords) /\ Len(frames) \in Nat \ {0}
    BY EmptySeq, LenProperties DEF LayoutInv, FramesOK
  <1>2. Len(frames) \in 1 .. Len(frames)
    BY <1>1
  <1>3. Frame \in FrameRecords
    BY <1>1, <1>2, ElementOfSeq DEF Frame, Depth
  <1>4. FrameOK(Frame, IF Len(frames) = 1 THEN 0 ELSE End(frames[Len(frames) - 1]))
    BY <1>2 DEF LayoutInv, FramesOK, Frame, Depth
  <1>5. Frame.exception \in 0 .. MaxThrown
    BY <1>3 DEF FrameRecords
  <1>6. Frame.unwinding \/ Frame.handling => Frame.exception \in Exceptions
    BY <1>4, <1>5 DEF FrameOK, Exceptions
  <1>7. popped(Frame) < End(Frame)
    <2>1. Frame.type \in FrameTypes
      BY <1>3 DEF FrameRecords
    <2>2. frame_size(Frame.type) > 0
      BY <2>1 DEF frame_size, FrameTypes
    <2> QED BY <1>3, <2>2, FrameNumbers DEF End
  <1> QED BY <1>1, <1>3, <1>4, <1>6, <1>7 DEF FrameOK, TopOf, End, Frame, Depth, values_begin

\* A panic: the exceptions that are being handled are known ones.
LEMMA RaiseTyped ==
    ASSUME LayoutInv, NEW e, raise(e)
    PROVE  PanicsTyped'
  <1>1. Handled \subseteq Exceptions /\ Leftover \subseteq Exceptions
    <2>1. ASSUME NEW j \in 1 .. Depth, frames[j].unwinding \/ frames[j].handling
          PROVE  frames[j].exception \in Exceptions
      <3>1. frames \in Seq(FrameRecords) /\ j \in 1 .. Len(frames)
        BY DEF LayoutInv, FramesOK, Depth
      <3>2. frames[j] \in FrameRecords
        BY <3>1, ElementOfSeq
      <3>3. FrameOK(frames[j], IF j = 1 THEN 0 ELSE End(frames[j - 1]))
        BY <3>1 DEF LayoutInv, FramesOK
      <3>4. frames[j].exception \in 0 .. MaxThrown
        BY <3>2 DEF FrameRecords
      <3> QED BY <2>1, <3>3, <3>4 DEF FrameOK, Exceptions
    <2> QED BY <2>1 DEF Handled, Leftover
  <1>2. PanicsTyped
    BY DEF LayoutInv, TypeOK, PanicsTyped
  <1>3. e \in Exceptions
    BY <1>2 DEF raise, PanicsTyped
  <1>4. e \in 0 .. MaxThrown
    BY <1>3 DEF Exceptions
  <1>5. /\ during' = [during EXCEPT ![e] = during[e] \cup Handled]
        /\ leftover' = [leftover EXCEPT ![e] = leftover[e] \cup Leftover]
    BY DEF raise
  <1>6. /\ during' \in [Exceptions -> SUBSET Exceptions]
        /\ leftover' \in [Exceptions -> SUBSET Exceptions]
    BY <1>1, <1>2, <1>3, <1>5 DEF PanicsTyped
  <1> QED BY <1>2, <1>4, <1>6 DEF raise, PanicsTyped

LEMMA PanicsUnchanged ==
    ASSUME LayoutInv, UNCHANGED panics
    PROVE  PanicsTyped'
  BY DEF LayoutInv, TypeOK, PanicsTyped

-----------------------------------------------------------------------------
(* Entering a function. *)

LEMMA NewFrameOK ==
    ASSUME NEW fn \in Functions, fn.kind # "None",
           NEW h \in Nat, NEW n \in Nat, NEW extra \in BOOLEAN, NEW base \in Nat,
           h - n - (IF extra THEN 1 ELSE 0) = base,
           NEW a \in Nat, a <= base
    PROVE  LET f == NewFrame(Type(fn.kind), h, n, extra, base)
           IN  /\ f \in FrameRecords
               /\ FrameOK(f, a)
               /\ End(f) = h + frame_size(Type(fn.kind)) + Locals(Type(fn.kind))
  <1>1. Type(fn.kind) \in FrameTypes
    <2>1. fn.kind \in {"Code", "Native", "Catch"}
      BY FunctionsAssumption
    <2> QED BY <2>1 DEF Type, FrameTypes
  <1> DEFINE f == NewFrame(Type(fn.kind), h, n, extra, base)
  <1>2. f \in FrameRecords
    BY <1>1 DEF NewFrame, FrameRecords
  <1>3. /\ f.at = h /\ f.argc = n /\ f.extra = extra /\ f.base = base /\ f.type = Type(fn.kind)
        /\ f.unwinding = FALSE /\ f.handling = FALSE
    BY DEF NewFrame
  <1>4. FrameOK(f, a)
    <2> HIDE DEF f
    <2> QED BY <1>3 DEF FrameOK, popped
  <1>5. End(f) = h + frame_size(Type(fn.kind)) + Locals(Type(fn.kind))
    <2> HIDE DEF f
    <2> QED BY <1>3 DEF End
  <1> QED BY <1>2, <1>4, <1>5

\* Interpreter::enter_function preserves the invariant if the arguments lie on
\* top of the stack.
LEMMA EnterInv ==
    ASSUME LayoutInv,
           NEW fs, FramesOK(fs),
           NEW t \in Nat, Fits(t) \/ t <= capacity,
           NEW fn \in Functions, NEW argc \in Nat, NEW extra \in BOOLEAN, NEW base \in Nat,
           TopOf(fs) <= base,
           t - argc - (IF extra THEN 1 ELSE 0) = base,
           enter_function(fs, t, fn, argc, extra, base)
    PROVE  LayoutInv'
  <1> DEFINE one == IF fn.bound THEN 1 ELSE 0
             n == argc + one
             h == t + one
             type == Type(fn.kind)
             size == frame_size(type) + Locals(type)
  <1>1. capacity \in Nat
    BY DEF LayoutInv, TypeOK
  <1>2. TopOf(fs) \in Nat
    BY TopOfNat
  <1>3. /\ one \in 0 .. 1 /\ n \in Nat /\ h \in Nat /\ t <= h
        /\ h - n - (IF extra THEN 1 ELSE 0) = base /\ base <= t
    BY FunctionsAssumption
  <1>4. fn.kind # "None" => size \in Nat
    <2>1. fn.kind # "None" => type \in FrameTypes
      <3>1. fn.kind \in {"Code", "Native", "Catch", "None"}
        BY FunctionsAssumption
      <3> QED BY <3>1 DEF Type, FrameTypes
    <2> QED BY <2>1, SizesAreNat
  <1>5. full_argc(fn, argc) = n
    BY DEF full_argc
  <1> HIDE DEF one, h, n, type, size
  <1>6. CASE /\ accepts(fn, n)
             /\ Fits(h + size)
             /\ frames' = Append(fs, NewFrame(type, h, n, extra, base))
             /\ top' = h + size
             /\ capacity' = grow(h + size)
             /\ state' = "Running"
             /\ UNCHANGED panics
    <2>1. fn.kind # "None"
      BY <1>6 DEF accepts
    <2>2. h + size \in Nat
      BY <1>3, <1>4, <2>1
    <2>3. /\ NewFrame(type, h, n, extra, base) \in FrameRecords
          /\ FrameOK(NewFrame(type, h, n, extra, base), TopOf(fs))
          /\ End(NewFrame(type, h, n, extra, base)) = h + frame_size(type) + Locals(type)
      BY <1>2, <1>3, <2>1, NewFrameOK DEF type
    <2>4. h + frame_size(type) + Locals(type) = h + size
      <3>1. type \in FrameTypes
        BY <2>1, FunctionsAssumption DEF type, Type, FrameTypes
      <3>2. frame_size(type) \in Nat /\ Locals(type) \in Nat
        BY <3>1, SizesAreNat
      <3> QED BY <1>3, <3>2 DEF size
    <2>5. FramesOK(frames') /\ TopOf(frames') = h + size
      BY <1>6, <2>3, <2>4, PushFrame
    <2>6. capacity' \in Nat /\ h + size <= capacity'
      BY <1>1, <1>6, <2>2, GrowSuffices
    <2>7. PanicsTyped'
      BY <1>6, PanicsUnchanged
    <2> QED BY <1>6, <2>2, <2>5, <2>6, <2>7, Combine
  <1>7. CASE /\ Fits(h)
             /\ frames' = fs
             /\ top' = h
             /\ capacity' = grow(h)
             /\ state' = "Running"
             /\ raise(thrown + 1)
    <2>1. capacity' \in Nat /\ h <= capacity'
      BY <1>1, <1>3, <1>7, GrowSuffices
    <2>2. PanicsTyped'
      BY <1>7, RaiseTyped
    <2>3. TopOf(frames') <= top'
      BY <1>2, <1>3, <1>7
    <2> QED BY <1>3, <1>7, <2>1, <2>2, <2>3, Combine
  <1>8. CASE /\ frames' = fs
             /\ top' = IF Fits(h) THEN h ELSE t
             /\ capacity' = grow(top')
             /\ state' = "Crashed"
             /\ UNCHANGED panics
    <2>1. top' \in Nat /\ (Fits(top') \/ top' <= capacity) /\ t <= top'
      BY <1>3, <1>8
    <2>2. capacity' \in Nat /\ top' <= capacity'
      BY <1>1, <1>8, <2>1, GrowSuffices
    <2>3. PanicsTyped'
      BY <1>8, PanicsUnchanged
    <2>4. TopOf(frames') <= top'
      BY <1>2, <1>3, <1>8, <2>1
    <2> QED BY <1>8, <2>1, <2>2, <2>3, <2>4, Combine
  <1> QED BY <1>5, <1>6, <1>7, <1>8 DEF enter_function, one, n, h, type, size

\* The same for a call without an unused object.
LEMMA EnterPlainInv ==
    ASSUME LayoutInv,
           NEW fs, FramesOK(fs),
           NEW t \in Nat, Fits(t) \/ t <= capacity,
           NEW fn \in Functions, NEW argc \in Nat, NEW base \in Nat,
           TopOf(fs) <= base, t - argc = base,
           enter_function(fs, t, fn, argc, FALSE, base)
    PROVE  LayoutInv'
  <1> DEFINE extra == FALSE
  <1>1. extra \in BOOLEAN /\ t - argc - (IF extra THEN 1 ELSE 0) = base
    OBVIOUS
  <1>2. enter_function(fs, t, fn, argc, extra, base)
    OBVIOUS
  <1> HIDE DEF extra
  <1> QED BY <1>1, <1>2, EnterInv

\* The same for arguments that the interpreter pushes itself.
LEMMA PushArgsInv ==
    ASSUME LayoutInv, NEW t \in Nat, TopOf(frames) <= t, t <= capacity,
           NEW fn \in Functions, NEW argc \in Nat,
           push_args_and_enter(t, fn, argc)
    PROVE  LayoutInv'
  <1>1. FramesOK(frames) /\ capacity \in Nat
    BY DEF LayoutInv, TypeOK
  <1>2. CASE Fits(t + argc) /\ enter_function(frames, t + argc, fn, argc, FALSE, t)
    <2> DEFINE h == t + argc
    <2>1. h \in Nat /\ h - argc = t
      OBVIOUS
    <2>2. Fits(h) /\ enter_function(frames, h, fn, argc, FALSE, t)
      BY <1>2, Zenon
    <2> HIDE DEF h
    <2> QED BY <1>1, <2>1, <2>2, EnterPlainInv
  <1>3. CASE state' = "Crashed" /\ top' = t /\ UNCHANGED <<frames, capacity, panics>>
    <2>1. PanicsTyped'
      BY <1>3, PanicsUnchanged
    <2> QED BY <1>1, <1>3, <2>1, Combine
  <1> QED BY <1>2, <1>3 DEF push_args_and_enter

-----------------------------------------------------------------------------
(* Leaving a function. *)

LEMMA ReturnMemory ==
    ASSUME LayoutInv, frames # <<>>, state = "Running", return_function
    PROVE  /\ FramesOK(frames') /\ top' \in Nat /\ capacity' \in Nat
           /\ TopOf(frames') <= top' /\ top' <= capacity'
           /\ state' \in {"Running", "Done"}
           /\ Len(frames') = Depth - 1
           /\ Len(frames') > 0 => top' = Frame.base + 1
  <1>1. /\ FramesOK(frames') /\ TopOf(frames') <= popped(Frame) /\ Len(frames') = Depth - 1
    BY PopFrame DEF LayoutInv, return_function, Frame, Depth
  <1>2. popped(Frame) \in Int /\ popped(Frame) = Frame.base /\ Frame.base \in Nat
    BY TopFrame, FrameNumbers
  <1>3. /\ popped(Frame) < TopOf(frames) /\ TopOf(frames) \in Nat /\ TopOf(frames) <= top
        /\ top \in Nat /\ capacity \in Nat /\ top <= capacity
    BY TopFrame, TopOfNat DEF LayoutInv, TypeOK
  <1>4. /\ top' \in {popped(Frame), popped(Frame) + 1} /\ capacity' = capacity
        /\ state' \in {"Running", "Done"}
        /\ Depth > 1 => top' = popped(Frame) + 1
    BY <1>2 DEF return_function
  <1>5. TopOf(frames') \in Nat
    BY <1>1, TopOfNat
  <1>6. Depth \in Nat
    BY TopFrame
  <1> QED BY <1>1, <1>2, <1>3, <1>4, <1>5, <1>6

LEMMA PopFrameMemory ==
    ASSUME LayoutInv, frames # <<>>, pop_frame
    PROVE  /\ FramesOK(frames') /\ top' \in Nat
           /\ TopOf(frames') <= top' /\ top' <= capacity /\ capacity \in Nat
  <1>1. FramesOK(frames') /\ TopOf(frames') <= popped(Frame)
    BY PopFrame DEF LayoutInv, pop_frame, Frame, Depth
  <1>2. popped(Frame) \in Int /\ popped(Frame) = Frame.base /\ Frame.base \in Nat
    BY TopFrame, FrameNumbers
  <1>3. /\ popped(Frame) < TopOf(frames) /\ TopOf(frames) \in Nat /\ TopOf(frames) <= top
        /\ top \in Nat /\ capacity \in Nat /\ top <= capacity
    BY TopFrame, TopOfNat DEF LayoutInv, TypeOK
  <1> QED BY <1>1, <1>2, <1>3 DEF pop_frame

-----------------------------------------------------------------------------
(* The actions. *)

\* What is known before a step of the frame on top.
LEMMA BeforeStep ==
    ASSUME LayoutInv
    PROVE  /\ top \in Nat /\ capacity \in Nat /\ TopOf(frames) \in Nat
           /\ TopOf(frames) <= top /\ top <= capacity /\ FramesOK(frames)
           /\ state \in {"Started", "Running", "Waiting", "Done", "Crashed"}
  BY TopOfNat DEF LayoutInv, TypeOK

\* Steps that change at most the height of the stack within the frame on top.
LEMMA HeightInv ==
    ASSUME LayoutInv, frames' = frames, capacity' = capacity,
           top' \in Nat, TopOf(frames) <= top', top' <= capacity,
           state' \in {"Running", "Waiting", "Done", "Crashed"}, PanicsTyped'
    PROVE  LayoutInv'
  BY BeforeStep, Combine

\* Steps that change the frame on top, but not its place.
LEMMA FrameInv ==
    ASSUME LayoutInv, frames # <<>>, NEW f \in FrameRecords,
           f.type = Frame.type, f.at = Frame.at, f.argc = Frame.argc, f.extra = Frame.extra,
           f.base = Frame.base, f.unwinding \/ f.handling => f.exception # 0,
           frames' = [frames EXCEPT ![Depth] = f], top' = top, capacity' = capacity,
           state' \in {"Running", "Waiting", "Done", "Crashed"}, PanicsTyped'
    PROVE  LayoutInv'
  <1>1. FramesOK(frames') /\ TopOf(frames') = TopOf(frames)
    BY BeforeStep, ChangeFrame DEF Frame, Depth
  <1> QED BY <1>1, BeforeStep, Combine

LEMMA StartInv ==
    ASSUME LayoutInv, NEW fn \in Functions, NEW argc \in 0 .. MaxArgs, Start(fn, argc)
    PROVE  LayoutInv'
  <1>1. TopOf(frames) = 0
    BY DEF LayoutInv, Start, TopOf
  <1> QED BY <1>1, BeforeStep, PushArgsInv DEF Start

LEMMA CallInv ==
    ASSUME LayoutInv, NEW fn \in Functions, NEW argc \in 0 .. MaxArgs, Call(fn, argc)
    PROVE  LayoutInv'
  <1> DEFINE base == top - argc
  <1>1. frames # <<>> /\ argc <= top - TopOf(frames)
    BY TopFrame DEF Call, Runs, top_value_count
  <1>2. base \in Nat /\ TopOf(frames) <= base /\ top - argc = base /\ argc \in Nat
    BY <1>1, BeforeStep
  <1>3. enter_function(frames, top, fn, argc, FALSE, base)
    BY DEF Call
  <1> HIDE DEF base
  <1> QED BY <1>2, <1>3, BeforeStep, EnterPlainInv

LEMMA CallMethodInv ==
    ASSUME LayoutInv, NEW fn \in Functions, NEW argc \in 0 .. MaxArgs,
           NEW is_method \in BOOLEAN, CallMethod(fn, argc, is_method)
    PROVE  LayoutInv'
  <1> DEFINE n == argc + IF is_method THEN 1 ELSE 0
             extra == ~is_method
             base == top - argc - 1
  <1>1. frames # <<>> /\ argc + 1 <= top - TopOf(frames)
    BY TopFrame DEF CallMethod, Runs, top_value_count
  <1>2. base \in Nat /\ TopOf(frames) <= base /\ n \in Nat
    BY <1>1, BeforeStep
  <1>3. enter_function(frames, top, fn, n, extra, base)
    BY DEF CallMethod
  <1>4. extra \in BOOLEAN
    OBVIOUS
  <1>5. top - n - (IF extra THEN 1 ELSE 0) = base
    BY BeforeStep
  <1> HIDE DEF n, extra, base
  <1> QED BY <1>2, <1>3, <1>4, <1>5, BeforeStep, EnterInv

LEMMA NativeInvokeInv ==
    ASSUME LayoutInv, NEW fn \in Functions, NEW argc \in 0 .. MaxArgs, NativeInvoke(fn, argc)
    PROVE  LayoutInv'
  <1>1. values_begin(Depth) = TopOf(frames)
    BY TopFrame DEF NativeInvoke, Runs
  <1> QED BY <1>1, BeforeStep, PushArgsInv DEF NativeInvoke

LEMMA CatchCallInv ==
    ASSUME LayoutInv, NEW fn \in Functions, CatchCall(fn)
    PROVE  LayoutInv'
  <1> DEFINE f == [Frame EXCEPT !.started = TRUE]
             fs == [frames EXCEPT ![Depth] = f]
  <1>0. frames # <<>>
    BY DEF CatchCall, Runs
  <1>1. /\ Frame \in FrameRecords
        /\ Frame.unwinding \/ Frame.handling => Frame.exception # 0
    BY <1>0, TopFrame DEF Exceptions
  <1>2. /\ f \in FrameRecords /\ f.type = Frame.type /\ f.at = Frame.at /\ f.argc = Frame.argc
        /\ f.extra = Frame.extra /\ f.base = Frame.base
        /\ f.unwinding \/ f.handling => f.exception # 0
    BY <1>1 DEF FrameRecords
  <1>3. FramesOK(fs) /\ TopOf(fs) = TopOf(frames)
    <2> HIDE DEF f
    <2> QED BY <1>0, <1>2, BeforeStep, ChangeFrame DEF Frame, Depth
  <1>4. enter_function(fs, top, fn, 0, FALSE, top)
    BY DEF CatchCall, Frame
  <1>5. top - 0 = top
    BY BeforeStep
  <1> HIDE DEF f, fs
  <1> QED BY <1>3, <1>4, <1>5, BeforeStep, EnterPlainInv

\* The instructions of a script function.
LEMMA ScriptInv ==
    ASSUME LayoutInv, Script
    PROVE  LayoutInv'
  <1>1. CASE Push
    <2>1. PanicsTyped'
      BY <1>1, PanicsUnchanged DEF Push
    <2>2. CASE Fits(top + 1) /\ top' = top + 1 /\ capacity' = grow(top + 1) /\ UNCHANGED state
      <3>1. capacity' \in Nat /\ top' \in Nat /\ top' <= capacity' /\ TopOf(frames) <= top'
        <4>1. top + 1 \in Nat
          BY BeforeStep
        <4>2. grow(top + 1) \in Nat /\ top + 1 <= grow(top + 1)
          BY <2>2, <4>1, BeforeStep, GrowSuffices
        <4> QED BY <2>2, <4>1, <4>2, BeforeStep
      <3>2. frames' = frames /\ state' = "Running"
        BY <1>1, <2>2 DEF Push, Runs
      <3> QED BY <2>1, <3>1, <3>2, BeforeStep, Combine
    <2>3. CASE state' = "Crashed" /\ UNCHANGED <<top, capacity>>
      <3>1. frames' = frames
        BY <1>1 DEF Push
      <3> QED BY <2>1, <2>3, <3>1, BeforeStep, HeightInv
    <2> QED BY <1>1, <2>2, <2>3 DEF Push
  <1>2. ASSUME NEW n \in 1 .. MaxTemps, Pop(n)
        PROVE  LayoutInv'
    <2>1. PanicsTyped' /\ frames' = frames /\ capacity' = capacity /\ state' = "Running"
      BY <1>2, PanicsUnchanged DEF Pop, Runs
    <2>2. n <= top - TopOf(frames) /\ top' = top - n
      BY <1>2, TopFrame DEF Pop, Runs, top_value_count
    <2>3. top' \in Nat /\ TopOf(frames) <= top' /\ top' <= capacity
      BY <2>2, BeforeStep
    <2> QED BY <2>1, <2>3, HeightInv
  <1>3. CASE Throw
    BY <1>3, RaiseTyped, BeforeStep, HeightInv DEF Throw, Runs
  <1>4. CASE Return
    <2>1. frames # <<>> /\ state = "Running" /\ return_function
      BY <1>4 DEF Return, Runs
    <2>2. swallowed' \subseteq Exceptions
      <3>1. swallowed \subseteq Exceptions
        BY DEF LayoutInv, TypeOK
      <3>2. Frame.unwinding => Frame.exception \in Exceptions
        BY <2>1, TopFrame
      <3> QED BY <1>4, <3>1, <3>2 DEF Return
    <2>3. PanicsTyped'
      BY <1>4, <2>2 DEF Return, LayoutInv, TypeOK, PanicsTyped
    <2> QED BY <2>1, <2>3, ReturnMemory, Combine
  <1>5. CASE Rethrow
    <2>1. frames # <<>> /\ state = "Running" /\ Frame.handling /\ flying' = Frame.exception
      BY <1>5 DEF Rethrow, Runs
    <2>2. flying' \in 0 .. MaxThrown
      BY <2>1, TopFrame DEF Exceptions
    <2>3. PanicsTyped'
      BY <1>5, <2>2 DEF Rethrow, LayoutInv, TypeOK, PanicsTyped
    <2> QED BY <1>5, <2>1, <2>3, BeforeStep, HeightInv DEF Rethrow
  <1>6. CASE Defer
    <2> DEFINE f == [Frame EXCEPT !.defers = Frame.defers + 1]
    <2>1. frames # <<>> /\ state' = "Running" /\ top' = top /\ capacity' = capacity /\ PanicsTyped'
      BY <1>6, PanicsUnchanged DEF Defer, Runs
    <2>2. Frame \in FrameRecords /\ (Frame.unwinding \/ Frame.handling => Frame.exception # 0)
      BY <2>1, TopFrame DEF Exceptions
    <2>3. frames' = [frames EXCEPT ![Depth] = f]
      BY <1>6 DEF Defer, Frame
    <2>4. /\ f \in FrameRecords /\ f.type = Frame.type /\ f.at = Frame.at /\ f.argc = Frame.argc
          /\ f.extra = Frame.extra /\ f.base = Frame.base
          /\ f.unwinding \/ f.handling => f.exception # 0
      BY <2>2 DEF FrameRecords
    <2> HIDE DEF f
    <2> QED BY <2>1, <2>3, <2>4, FrameInv
  <1>7. CASE ScopeExit
    <2> DEFINE f == [Frame EXCEPT !.defers = Frame.defers - 1]
    <2>1. /\ frames # <<>> /\ state' = "Running" /\ top' = top /\ capacity' = capacity /\ PanicsTyped'
          /\ Frame.defers > Frame.outer
      BY <1>7, PanicsUnchanged DEF ScopeExit, Runs
    <2>2. Frame \in FrameRecords /\ (Frame.unwinding \/ Frame.handling => Frame.exception # 0)
      BY <2>1, TopFrame DEF Exceptions
    <2>3. frames' = [frames EXCEPT ![Depth] = f]
      BY <1>7 DEF ScopeExit, Frame
    <2>4. Frame.defers - 1 \in Nat
      BY <2>1, <2>2 DEF FrameRecords
    <2>5. /\ f \in FrameRecords /\ f.type = Frame.type /\ f.at = Frame.at /\ f.argc = Frame.argc
          /\ f.extra = Frame.extra /\ f.base = Frame.base
          /\ f.unwinding \/ f.handling => f.exception # 0
      BY <2>2, <2>4 DEF FrameRecords
    <2> HIDE DEF f
    <2> QED BY <2>1, <2>3, <2>5, FrameInv
  <1>8. CASE LeaveHandler
    <2> DEFINE f == [Frame EXCEPT !.handling = FALSE, !.outer = 0]
    <2>1. frames # <<>> /\ state' = "Running" /\ top' = top /\ capacity' = capacity /\ PanicsTyped'
      BY <1>8, PanicsUnchanged DEF LeaveHandler, Runs
    <2>2. Frame \in FrameRecords /\ (Frame.unwinding \/ Frame.handling => Frame.exception # 0)
      BY <2>1, TopFrame DEF Exceptions
    <2>3. frames' = [frames EXCEPT ![Depth] = f]
      BY <1>8, <2>1, BeforeStep DEF LeaveHandler, Frame, FramesOK
    <2>4. /\ f \in FrameRecords /\ f.type = Frame.type /\ f.at = Frame.at /\ f.argc = Frame.argc
          /\ f.extra = Frame.extra /\ f.base = Frame.base
          /\ f.unwinding \/ f.handling => f.exception # 0
      BY <2>2 DEF FrameRecords
    <2> HIDE DEF f
    <2> QED BY <2>1, <2>3, <2>4, FrameInv
  <1> QED BY <1>1, <1>2, <1>3, <1>4, <1>5, <1>6, <1>7, <1>8, CallInv, CallMethodInv DEF Script

\* Native functions.
LEMMA NativeInv ==
    ASSUME LayoutInv, Native
    PROVE  LayoutInv'
  <1>1. CASE NativeContinue \/ NativeYield
    <2>1. frames' = frames /\ capacity' = capacity /\ PanicsTyped' /\ state' \in {"Running", "Waiting"}
      BY <1>1, PanicsUnchanged DEF NativeContinue, NativeYield, Runs
    <2>2. top' = TopOf(frames)
      BY <1>1, TopFrame DEF NativeContinue, NativeYield, Runs
    <2> QED BY <2>1, <2>2, BeforeStep, HeightInv
  <1>2. CASE Resume
    BY <1>2, PanicsUnchanged, BeforeStep, HeightInv DEF Resume
  <1>3. CASE NativeReturn
    <2>1. frames # <<>> /\ state = "Running" /\ return_function /\ PanicsTyped'
      BY <1>3, PanicsUnchanged DEF NativeReturn, Runs
    <2> QED BY <2>1, ReturnMemory, Combine
  <1>4. ASSUME NEW e \in Exceptions, NativePanic(e)
        PROVE  LayoutInv'
    <2>1. frames' = frames /\ capacity' = capacity /\ PanicsTyped' /\ state' = "Running"
      BY <1>4, RaiseTyped DEF NativePanic, Runs
    <2>2. top' = TopOf(frames)
      BY <1>4, TopFrame DEF NativePanic, Runs
    <2> QED BY <2>1, <2>2, BeforeStep, HeightInv
  <1> QED BY <1>1, <1>2, <1>3, <1>4, NativeInvokeInv DEF Native

\* catch_panic.
LEMMA CatchInv ==
    ASSUME LayoutInv, CatchPanic
    PROVE  LayoutInv'
  <1>1. CASE CatchReturn
    <2>1. frames # <<>> /\ state = "Running" /\ return_function
      BY <1>1 DEF CatchReturn, Runs
    <2>2. caught' \subseteq Exceptions
      <3>1. caught \subseteq Exceptions
        BY DEF LayoutInv, TypeOK
      <3>2. Frame.unwinding => Frame.exception \in Exceptions
        BY <2>1, TopFrame
      <3> QED BY <1>1, <3>1, <3>2 DEF CatchReturn
    <2>3. PanicsTyped'
      BY <1>1, <2>2 DEF CatchReturn, LayoutInv, TypeOK, PanicsTyped
    <2> QED BY <2>1, <2>3, ReturnMemory, Combine
  <1> QED BY <1>1, CatchCallInv DEF CatchPanic

\* The search for a handler.
LEMMA UnwindInv ==
    ASSUME LayoutInv, Unwind
    PROVE  LayoutInv'
  <1>0. PanicsTyped
    BY DEF LayoutInv, TypeOK, PanicsTyped
  <1>1. CASE UnwindCode
    <2> DEFINE g == handle_exception
    <2>1. /\ frames # <<>> /\ flying \in Exceptions /\ capacity' = capacity
          /\ state' \in {"Running", "Waiting", "Done", "Crashed"}
      BY <1>0, <1>1 DEF UnwindCode, PanicsTyped, Exceptions, LayoutInv, TypeOK
    <2>2. Frame.unwinding => Frame.exception \in Exceptions
      BY <2>1, TopFrame
    <2>3. g.exception \in Exceptions /\ g.secondary \subseteq Exceptions \X Exceptions
      BY <1>0, <2>1, <2>2 DEF handle_exception, PanicsTyped
    <2> HIDE DEF g
    <2>4. flying' \in 0 .. MaxThrown /\ secondary' = g.secondary
      BY <1>1, <2>3 DEF UnwindCode, g, Exceptions
    <2>5. PanicsTyped'
      BY <1>0, <1>1, <2>3, <2>4 DEF UnwindCode, PanicsTyped
    <2>6. CASE Frame.defers > 0
      <3> DEFINE f == [Frame EXCEPT !.defers = Frame.defers - 1, !.outer = Frame.defers - 1,
                                   !.unwinding = TRUE, !.handling = TRUE,
                                   !.exception = g.exception]
      <3>1. Frame \in FrameRecords
        BY <2>1, TopFrame
      <3>2. Frame.defers - 1 \in Nat /\ g.exception \in 0 .. MaxThrown /\ g.exception # 0
        BY <2>3, <2>6, <3>1 DEF FrameRecords, Exceptions
      <3>3. /\ f \in FrameRecords /\ f.type = Frame.type /\ f.at = Frame.at /\ f.argc = Frame.argc
            /\ f.extra = Frame.extra /\ f.base = Frame.base
            /\ f.unwinding \/ f.handling => f.exception # 0
        BY <3>1, <3>2 DEF FrameRecords
      <3>4. frames' = [frames EXCEPT ![Depth] = f] /\ top' = top
        BY <1>1, <2>6 DEF UnwindCode, g
      <3> HIDE DEF f
      <3> QED BY <2>1, <2>5, <3>3, <3>4, FrameInv
    <2>7. CASE ~(Frame.defers > 0)
      <3>1. pop_frame
        BY <1>1, <2>7 DEF UnwindCode
      <3> QED BY <2>1, <2>5, <3>1, PopFrameMemory, Combine
    <2> QED BY <2>6, <2>7
  <1>2. CASE UnwindResumable
    <2>1. /\ frames # <<>> /\ capacity' = capacity /\ pop_frame /\ PanicsTyped'
          /\ state' \in {"Running", "Waiting", "Done", "Crashed"}
      BY <1>2, PanicsUnchanged DEF UnwindResumable, LayoutInv, TypeOK
    <2> QED BY <2>1, PopFrameMemory, Combine
  <1>3. CASE UnwindCatch
    <2> DEFINE f == [Frame EXCEPT !.unwinding = TRUE, !.exception = flying]
    <2>1. /\ frames # <<>> /\ capacity' = capacity /\ top' = top
          /\ flying \in 0 .. MaxThrown /\ flying # 0
          /\ state' \in {"Running", "Waiting", "Done", "Crashed"}
      BY <1>0, <1>3 DEF UnwindCatch, LayoutInv, TypeOK, PanicsTyped
    <2>2. PanicsTyped'
      BY <1>0, <1>3 DEF UnwindCatch, PanicsTyped
    <2>3. Frame \in FrameRecords
      BY <2>1, TopFrame
    <2>4. /\ f \in FrameRecords /\ f.type = Frame.type /\ f.at = Frame.at /\ f.argc = Frame.argc
          /\ f.extra = Frame.extra /\ f.base = Frame.base
          /\ f.unwinding \/ f.handling => f.exception # 0
      BY <2>1, <2>3 DEF FrameRecords
    <2>5. frames' = [frames EXCEPT ![Depth] = f]
      BY <1>3, <2>1, BeforeStep DEF UnwindCatch, Frame, FramesOK
    <2> HIDE DEF f
    <2> QED BY <2>1, <2>2, <2>4, <2>5, FrameInv
  <1>4. CASE UnwindDone
    <2>1. PanicsTyped'
      BY <1>0, <1>4 DEF UnwindDone, PanicsTyped
    <2> QED BY <1>4, <2>1, BeforeStep, HeightInv DEF UnwindDone
  <1> QED BY <1>1, <1>2, <1>3, <1>4 DEF Unwind

-----------------------------------------------------------------------------
(* The theorems. *)

LEMMA InitInv == Init => LayoutInv
  <1> SUFFICES ASSUME Init
               PROVE  LayoutInv
    OBVIOUS
  <1>1. FramesOK(<<>>)
    BY EmptySeq DEF FramesOK
  <1>2. TypeOK
    BY EmptySeq DEF Init, TypeOK, Exceptions, LayoutSize
  <1> QED BY <1>1, <1>2 DEF Init, LayoutInv, TopOf, LayoutSize

LEMMA StepInv == LayoutInv /\ [Next]_vars => LayoutInv'
  <1> SUFFICES ASSUME LayoutInv, [Next]_vars
               PROVE  LayoutInv'
    OBVIOUS
  <1>1. CASE UNCHANGED vars
    BY <1>1 DEF vars, LayoutInv, TypeOK
  <1> QED BY <1>1, StartInv, ScriptInv, NativeInv, CatchInv, UnwindInv DEF Next

LEMMA LayoutInvariant == Spec => []LayoutInv
  BY InitInv, StepInv, PTL DEF Spec

\* The invariant implies the layout that the runs check.
LEMMA InvImpliesLayout == LayoutInv => StackLayout
  <1> SUFFICES ASSUME LayoutInv
               PROVE  StackLayout
    OBVIOUS
  <1>1. ASSUME NEW i \in 1 .. Depth
        PROVE  popped(frames[i]) >= values_begin(i - 1)
    <2>1. frames \in Seq(FrameRecords) /\ i \in 1 .. Len(frames)
      BY DEF LayoutInv, FramesOK, Depth
    <2>2. FrameOK(frames[i], IF i = 1 THEN 0 ELSE End(frames[i - 1]))
      BY <2>1 DEF LayoutInv, FramesOK
    <2>3. values_begin(i - 1) = IF i = 1 THEN 0 ELSE End(frames[i - 1])
      BY <2>1 DEF values_begin, End
    <2>4. popped(frames[i]) \in Int
      BY <2>1, ElementOfSeq, FrameNumbers
    <2>5. values_begin(i - 1) \in Nat
      <3>1. CASE i = 1
        BY <2>3, <3>1
      <3>2. CASE i # 1
        <4>1. i - 1 \in 1 .. Len(frames)
          BY <2>1, <3>2
        <4>2. frames[i - 1] \in FrameRecords
          BY <2>1, <4>1, ElementOfSeq
        <4> QED BY <2>3, <3>2, <4>2, FrameNumbers
      <3> QED BY <3>1, <3>2
    <2> QED BY <2>2, <2>3, <2>4, <2>5 DEF FrameOK
  <1>2. values_begin(Depth) = TopOf(frames)
    <2>1. CASE frames = <<>>
      BY <2>1, EmptySeq DEF values_begin, TopOf, Depth
    <2>2. CASE frames # <<>>
      BY <2>2, TopFrame
    <2> QED BY <2>1, <2>2
  <1> QED BY <1>1, <1>2 DEF StackLayout, LayoutInv

\* The types of the variables of the call stack are those the code relies on;
\* no address becomes negative and no unknown exception appears.
THEOREM TypeCorrect == Spec => []TypeOK
  BY LayoutInvariant, PTL DEF LayoutInv

\* The layout of a coroutine's stack is correct however functions, methods,
\* bound methods, natives, deferred statements and panics follow each other.
THEOREM StackLayoutCorrect == Spec => []StackLayout
  BY LayoutInvariant, InvImpliesLayout, PTL

\* Entering a function never makes the stack of frames shorter.
LEMMA EnterKeepsFrames ==
    ASSUME NEW fs, fs \in Seq(FrameRecords), NEW n \in Nat, Len(fs) = n,
           NEW t, NEW fn, NEW argc, NEW extra, NEW base,
           enter_function(fs, t, fn, argc, extra, base)
    PROVE  ~(Len(frames') < n)
  BY DEF enter_function

\* A step that removes a frame while nothing is unwound is a return, and leaves
\* the caller's values as they were before the call, plus the result.
LEMMA StepBalanced ==
    LayoutInv /\ [Next]_vars =>
        [flying = 0 /\ Len(frames') < Depth /\ Len(frames') > 0 => top' = Frame.base + 1]_vars
  <1> SUFFICES ASSUME LayoutInv, Next, flying = 0, Len(frames') < Depth, Len(frames') > 0
               PROVE  top' = Frame.base + 1
    BY DEF vars
  <1>1. frames \in Seq(FrameRecords) /\ Len(frames) = Depth /\ Depth \in Nat
    BY LenProperties DEF LayoutInv, FramesOK, Depth
  <1>2. CASE Return \/ NativeReturn \/ CatchReturn
    BY <1>2, ReturnMemory DEF Return, NativeReturn, CatchReturn, Runs
  <1>3. frames' # frames
    BY <1>1
  <1>4. ASSUME NEW fn, NEW argc, Start(fn, argc) \/ Call(fn, argc) \/ NativeInvoke(fn, argc)
        PROVE  FALSE
    BY <1>1, <1>3, <1>4, EnterKeepsFrames DEF Start, Call, NativeInvoke, push_args_and_enter
  <1>5. ASSUME NEW fn, NEW argc, NEW is_method, CallMethod(fn, argc, is_method)
        PROVE  FALSE
    BY <1>1, <1>5, EnterKeepsFrames DEF CallMethod
  <1>6. ASSUME NEW fn, CatchCall(fn)
        PROVE  FALSE
    <2> DEFINE fs == [frames EXCEPT ![Depth].started = TRUE]
    <2>1. fs \in Seq(FrameRecords) /\ Len(fs) = Depth
      <3>1. Frame \in FrameRecords /\ Depth \in 1 .. Len(frames)
        BY <1>1, <1>6, TopFrame DEF CatchCall, Runs
      <3>2. [Frame EXCEPT !.started = TRUE] \in FrameRecords
        BY <3>1 DEF FrameRecords
      <3> DEFINE f == [Frame EXCEPT !.started = TRUE]
      <3>3. fs = [frames EXCEPT ![Depth] = f]
        BY DEF Frame
      <3> HIDE DEF f, fs
      <3>4. f \in FrameRecords
        BY <3>2 DEF f
      <3> QED BY <1>1, <3>1, <3>3, <3>4, ExceptSeq
    <2>2. enter_function(fs, top, fn, 0, FALSE, top)
      BY <1>6 DEF CatchCall
    <2> HIDE DEF fs
    <2> QED BY <1>1, <2>1, <2>2, EnterKeepsFrames
  <1>7. CASE Defer \/ ScopeExit \/ LeaveHandler
    <2>1. Len(frames') = Len(frames)
      BY <1>1, <1>7 DEF Defer, ScopeExit, LeaveHandler, Runs
    <2> QED BY <1>1, <2>1
  <1>8. ~(Push \/ Throw \/ Rethrow \/ NativeContinue \/ NativeYield \/ Resume)
    BY <1>3 DEF Push, Throw, Rethrow, NativeContinue, NativeYield, Resume
  <1>9. ASSUME NEW n, Pop(n) \/ NativePanic(n)
        PROVE  FALSE
    BY <1>3, <1>9 DEF Pop, NativePanic
  <1>10. ~Unwind
    BY DEF Unwind, UnwindCode, UnwindResumable, UnwindCatch, UnwindDone
  <1> QED
    BY <1>2, <1>4, <1>5, <1>6, <1>7, <1>8, <1>9, <1>10
       DEF Next, Script, Native, CatchPanic

\* Every call that returns, of whatever kind, leaves its caller's temporary values as
\* they were, plus the result (Interpreter::return_function and pop_frame).
THEOREM CallsBalancedCorrect == Spec => CallsBalanced
  BY LayoutInvariant, StepBalanced, PTL DEF Spec, CallsBalanced

-----------------------------------------------------------------------------
(* The values above the frames of natives and of catch_panic. *)

\* A native or catch frame that has called a function has nothing above it
\* but that call, and a catch frame calls once.
SlotOK(f, base) ==
    f.type \in {"Resumable", "Catch"} =>
        base = End(f) /\ (f.type = "Catch" => f.started)

SlotsOK(fs) == \A i \in 1 .. (Len(fs) - 1) : SlotOK(fs[i], fs[i + 1].base)

\* What lies above such a frame when it is executed.
TopSlot(f, t) ==
    /\ f.type = "Resumable" => t - End(f) \in {0, 1}
    /\ f.type = "Catch" /\ ~f.started => t = End(f)
    /\ f.type = "Catch" /\ f.started => f.unwinding \/ t - End(f) = 1

TopSlotOK ==
    frames # <<>> =>
        /\ flying = 0 /\ state # "Crashed" => TopSlot(frames[Len(frames)], top)
        /\ flying # 0 /\ frames[Len(frames)].type = "Catch" => frames[Len(frames)].started

SlotInv == SlotsOK(frames) /\ TopSlotOK

LEMMA PushSlot ==
    ASSUME NEW fs, FramesOK(fs), SlotsOK(fs), NEW f \in FrameRecords,
           fs # <<>> => SlotOK(fs[Len(fs)], f.base)
    PROVE  SlotsOK(Append(fs, f))
  <1> DEFINE gs == Append(fs, f)
  <1>1. /\ fs \in Seq(FrameRecords) /\ Len(fs) \in Nat
        /\ Len(gs) = Len(fs) + 1 /\ gs[Len(fs) + 1] = f
        /\ \A i \in 1 .. Len(fs) : gs[i] = fs[i]
    BY AppendProperties, LenProperties DEF FramesOK
  <1> HIDE DEF gs
  <1>2. ASSUME NEW i \in 1 .. (Len(gs) - 1)
        PROVE  SlotOK(gs[i], gs[i + 1].base)
    <2>1. CASE i = Len(fs)
      <3>1. fs # <<>> /\ gs[i] = fs[Len(fs)] /\ gs[i + 1] = f
        BY <1>1, <2>1, EmptySeq
      <3> QED BY <3>1
    <2>2. CASE i # Len(fs)
      <3>1. i \in 1 .. (Len(fs) - 1) /\ gs[i] = fs[i] /\ gs[i + 1] = fs[i + 1]
        BY <1>1, <2>2
      <3> QED BY <3>1 DEF SlotsOK
    <2> QED BY <2>1, <2>2
  <1> QED BY <1>2 DEF SlotsOK, gs

LEMMA PopSlot ==
    ASSUME NEW fs, FramesOK(fs), SlotsOK(fs), fs # <<>>
    PROVE  LET gs == SubSeq(fs, 1, Len(fs) - 1)
           IN  SlotsOK(gs) /\ (gs # <<>> => SlotOK(gs[Len(gs)], fs[Len(fs)].base))
  <1> DEFINE gs == SubSeq(fs, 1, Len(fs) - 1)
             m == Len(fs) - 1
  <1>1. fs \in Seq(FrameRecords) /\ Len(fs) \in Nat \ {0} /\ m \in Nat /\ m \in 0 .. Len(fs)
    BY EmptySeq, LenProperties DEF FramesOK
  <1>2. gs \in Seq(FrameRecords) /\ Len(gs) = m /\ \A i \in 1 .. m : gs[i] = fs[i]
    <2> HIDE DEF m
    <2>1. /\ SubSeq(fs, 1, m) \in Seq(FrameRecords) /\ Len(SubSeq(fs, 1, m)) = m
          /\ \A i \in 1 .. m : SubSeq(fs, 1, m)[i] = fs[i]
      BY <1>1
    <2> QED BY <2>1 DEF m
  <1> HIDE DEF gs
  <1>3. ASSUME NEW i \in 1 .. (Len(gs) - 1)
        PROVE  SlotOK(gs[i], gs[i + 1].base)
    <2>1. i \in 1 .. (Len(fs) - 1) /\ gs[i] = fs[i] /\ gs[i + 1] = fs[i + 1]
      BY <1>1, <1>2
    <2> QED BY <2>1 DEF SlotsOK
  <1>4. ASSUME gs # <<>>
        PROVE  SlotOK(gs[Len(gs)], fs[Len(fs)].base)
    <2>1. m \in 1 .. (Len(fs) - 1) /\ gs[Len(gs)] = fs[m] /\ m + 1 = Len(fs)
      BY <1>1, <1>2, <1>4, EmptySeq
    <2>2. SlotOK(fs[m], fs[m + 1].base)
      BY <2>1 DEF SlotsOK
    <2> QED BY <2>1, <2>2
  <1> QED BY <1>3, <1>4 DEF SlotsOK, gs

\* The last frame changes, but stays where it is.
LEMMA ChangeSlot ==
    ASSUME NEW fs, FramesOK(fs), SlotsOK(fs), fs # <<>>, NEW f \in FrameRecords,
           f.base = fs[Len(fs)].base
    PROVE  LET gs == [fs EXCEPT ![Len(fs)] = f]
           IN  SlotsOK(gs) /\ Len(gs) = Len(fs) /\ gs[Len(gs)] = f
  <1> DEFINE n == Len(fs)
             gs == [fs EXCEPT ![n] = f]
  <1>1. fs \in Seq(FrameRecords) /\ n \in Nat \ {0}
    BY EmptySeq, LenProperties DEF FramesOK
  <1>2. Len(gs) = n /\ gs[n] = f /\ \A i \in 1 .. n : i # n => gs[i] = fs[i]
    BY <1>1, ExceptSeq
  <1> HIDE DEF gs
  <1>3. ASSUME NEW i \in 1 .. (Len(gs) - 1)
        PROVE  SlotOK(gs[i], gs[i + 1].base)
    <2>1. i \in 1 .. (n - 1) /\ gs[i] = fs[i] /\ i + 1 \in 1 .. n
      BY <1>1, <1>2
    <2>2. gs[i + 1].base = fs[i + 1].base
      <3>1. CASE i + 1 = n
        BY <1>2, <3>1
      <3>2. CASE i + 1 # n
        BY <1>2, <2>1, <3>2
      <3> QED BY <3>1, <3>2
    <2>3. SlotOK(fs[i], fs[i + 1].base)
      BY <2>1 DEF SlotsOK
    <2> QED BY <2>1, <2>2, <2>3
  <1> QED BY <1>2, <1>3 DEF SlotsOK, gs

\* A panic is in flight afterwards.
LEMMA RaiseFlies ==
    ASSUME LayoutInv, NEW e, raise(e)
    PROVE  flying' # 0
  BY DEF raise, LayoutInv, TypeOK, Exceptions

\* Interpreter::enter_function.
LEMMA EnterSlots ==
    ASSUME LayoutInv,
           NEW fs, FramesOK(fs), SlotsOK(fs),
           NEW t \in Nat, NEW fn \in Functions, NEW argc \in Nat, NEW extra \in BOOLEAN,
           NEW base \in Nat, TopOf(fs) <= base,
           t - argc - (IF extra THEN 1 ELSE 0) = base,
           fs # <<>> => SlotOK(fs[Len(fs)], base),
           flying = 0, enter_function(fs, t, fn, argc, extra, base)
    PROVE  SlotInv'
  <1> DEFINE one == IF fn.bound THEN 1 ELSE 0
             n == argc + one
             h == t + one
             type == Type(fn.kind)
             f == NewFrame(type, h, n, extra, base)
  <1>1. n \in Nat /\ h \in Nat /\ h - n - (IF extra THEN 1 ELSE 0) = base
    BY FunctionsAssumption
  <1>2. CASE /\ accepts(fn, n)
             /\ frames' = Append(fs, f)
             /\ top' = h + (frame_size(type) + Locals(type))
             /\ UNCHANGED panics
    <2>1. fn.kind # "None"
      BY <1>2 DEF accepts
    <2>2. TopOf(fs) \in Nat
      BY TopOfNat
    <2> HIDE DEF h, n
    <2>3. f \in FrameRecords /\ End(f) = h + frame_size(type) + Locals(type)
      BY <1>1, <2>1, <2>2, NewFrameOK
    <2>4. type \in FrameTypes
      BY <2>1, FunctionsAssumption DEF Type, FrameTypes
    <2>5. top' = End(f) /\ End(f) \in Nat
      BY <1>1, <1>2, <2>3, <2>4, SizesAreNat
    <2>6. f.base = base /\ f.started = FALSE
      BY DEF NewFrame
    <2> HIDE DEF f
    <2>7. SlotsOK(frames')
      BY <1>2, <2>3, <2>6, PushSlot
    <2>8. frames'[Len(frames')] = f
      BY <1>2, <2>3, AppendProperties DEF FramesOK
    <2>9. TopSlot(f, top')
      BY <2>5, <2>6 DEF TopSlot
    <2> QED BY <1>2, <2>7, <2>8, <2>9 DEF SlotInv, TopSlotOK
  <1>3. CASE frames' = fs /\ raise(thrown + 1)
    BY <1>3, RaiseFlies DEF SlotInv, TopSlotOK, SlotOK
  <1>4. CASE frames' = fs /\ state' = "Crashed"
    BY <1>4 DEF SlotInv, TopSlotOK, SlotOK
  <1> QED BY <1>2, <1>3, <1>4 DEF enter_function, full_argc

\* The same for arguments that the interpreter pushes itself.
LEMMA PushArgsSlots ==
    ASSUME LayoutInv, SlotInv, NEW t \in Nat, TopOf(frames) <= t,
           frames # <<>> => SlotOK(Frame, t),
           NEW fn \in Functions, NEW argc \in Nat,
           flying = 0, push_args_and_enter(t, fn, argc)
    PROVE  SlotInv'
  <1>1. FramesOK(frames) /\ SlotsOK(frames) /\ (frames # <<>> => SlotOK(frames[Len(frames)], t))
    BY DEF LayoutInv, SlotInv, Frame, Depth
  <1>2. CASE enter_function(frames, t + argc, fn, argc, FALSE, t)
    <2> DEFINE h == t + argc
               extra == FALSE
    <2>1. h \in Nat /\ extra \in BOOLEAN /\ h - argc - (IF extra THEN 1 ELSE 0) = t
      OBVIOUS
    <2>2. enter_function(frames, h, fn, argc, extra, t)
      BY <1>2, Zenon
    <2> HIDE DEF h, extra
    <2> QED BY <1>1, <2>1, <2>2, EnterSlots
  <1>3. CASE state' = "Crashed" /\ frames' = frames /\ flying' = flying
    BY <1>1, <1>3 DEF SlotInv, TopSlotOK
  <1> QED BY <1>2, <1>3 DEF push_args_and_enter

\* Interpreter::return_function.
LEMMA ReturnSlots ==
    ASSUME LayoutInv, SlotInv, frames # <<>>, state = "Running", return_function
    PROVE  SlotInv'
  <1> DEFINE gs == SubSeq(frames, 1, Len(frames) - 1)
  <1>1. FramesOK(frames) /\ SlotsOK(frames) /\ frames' = gs
    BY DEF LayoutInv, SlotInv, return_function, Depth
  <1>2. SlotsOK(gs) /\ (gs # <<>> => SlotOK(gs[Len(gs)], Frame.base))
    BY <1>1, PopSlot DEF Frame, Depth
  <1>3. FramesOK(gs)
    BY <1>1, PopFrame
  <1> HIDE DEF gs
  <1>4. ASSUME gs # <<>>
        PROVE  TopSlot(gs[Len(gs)], top')
    <2>1. gs \in Seq(FrameRecords) /\ Len(gs) \in Nat \ {0}
      BY <1>3, <1>4, EmptySeq, LenProperties DEF FramesOK
    <2>2. top' = Frame.base + 1 /\ Frame.base \in Nat
      <3>1. Len(frames') > 0
        BY <1>1, <2>1
      <3> QED BY <3>1, ReturnMemory, TopFrame, FrameNumbers
    <2>3. gs[Len(gs)] \in FrameRecords
      BY <2>1, ElementOfSeq
    <2>4. End(gs[Len(gs)]) \in Nat
      BY <2>3, FrameNumbers
    <2>5. SlotOK(gs[Len(gs)], Frame.base)
      BY <1>2, <1>4
    <2> QED BY <2>2, <2>4, <2>5 DEF SlotOK, TopSlot
  <1> QED BY <1>1, <1>2, <1>4 DEF SlotInv, TopSlotOK, SlotOK

\* Frames are popped by a panic that goes on.
LEMMA PopFrameSlots ==
    ASSUME LayoutInv, SlotInv, frames # <<>>, pop_frame, flying' # 0
    PROVE  SlotInv'
  <1> DEFINE gs == SubSeq(frames, 1, Len(frames) - 1)
  <1>1. FramesOK(frames) /\ SlotsOK(frames) /\ frames' = gs
    BY DEF LayoutInv, SlotInv, pop_frame, Depth
  <1>2. SlotsOK(gs) /\ (gs # <<>> => SlotOK(gs[Len(gs)], frames[Len(frames)].base))
    BY <1>1, PopSlot
  <1> HIDE DEF gs
  <1> QED BY <1>1, <1>2 DEF SlotInv, TopSlotOK, SlotOK

\* A script frame changes.
LEMMA CodeFrameSlots ==
    ASSUME LayoutInv, SlotInv, frames # <<>>, NEW f \in FrameRecords,
           f.base = Frame.base, f.type = "Code", frames' = [frames EXCEPT ![Depth] = f]
    PROVE  SlotInv'
  <1>1. FramesOK(frames) /\ SlotsOK(frames)
    BY DEF LayoutInv, SlotInv
  <1>2. SlotsOK(frames') /\ frames'[Len(frames')] = f
    BY <1>1, ChangeSlot DEF Frame, Depth
  <1> QED BY <1>2 DEF SlotInv, TopSlotOK, TopSlot

\* Calls of script functions.
LEMMA CallSlots ==
    ASSUME LayoutInv, SlotInv, NEW fn \in Functions, NEW argc \in 0 .. MaxArgs,
           \/ Call(fn, argc)
           \/ \E is_method \in BOOLEAN : CallMethod(fn, argc, is_method)
    PROVE  SlotInv'
  <1>1. /\ frames # <<>> /\ Frame.type = "Code" /\ FramesOK(frames) /\ SlotsOK(frames)
        /\ TopOf(frames) = values_begin(Depth) /\ flying = 0
    BY TopFrame DEF Call, CallMethod, Runs, LayoutInv, SlotInv
  <1>2. \A base : SlotOK(frames[Len(frames)], base)
    BY <1>1 DEF SlotOK, Frame, Depth
  <1>3. CASE Call(fn, argc)
    <2> DEFINE base == top - argc
               extra == FALSE
    <2>1. argc <= top - TopOf(frames)
      BY <1>1, <1>3 DEF Call, top_value_count
    <2>2. base \in Nat /\ TopOf(frames) <= base /\ argc \in Nat
      BY <2>1, BeforeStep
    <2>3. extra \in BOOLEAN /\ top - argc - (IF extra THEN 1 ELSE 0) = base
      BY BeforeStep
    <2>4. enter_function(frames, top, fn, argc, extra, base)
      BY <1>3 DEF Call
    <2> HIDE DEF base, extra
    <2> QED BY <1>1, <1>2, <2>2, <2>3, <2>4, BeforeStep, EnterSlots
  <1>4. ASSUME NEW is_method \in BOOLEAN, CallMethod(fn, argc, is_method)
        PROVE  SlotInv'
    <2> DEFINE n == argc + IF is_method THEN 1 ELSE 0
               extra == ~is_method
               base == top - argc - 1
    <2>1. argc + 1 <= top - TopOf(frames)
      BY <1>1, <1>4 DEF CallMethod, top_value_count
    <2>2. base \in Nat /\ TopOf(frames) <= base /\ n \in Nat
      BY <2>1, BeforeStep
    <2>3. extra \in BOOLEAN
      OBVIOUS
    <2>4. top - n - (IF extra THEN 1 ELSE 0) = base
      BY BeforeStep
    <2>5. enter_function(frames, top, fn, n, extra, base)
      BY <1>4 DEF CallMethod
    <2> HIDE DEF n, extra, base
    <2> QED BY <1>1, <1>2, <2>2, <2>3, <2>4, <2>5, BeforeStep, EnterSlots
  <1> QED BY <1>3, <1>4

\* The call of catch_panic.
LEMMA CatchCallSlots ==
    ASSUME LayoutInv, SlotInv, NEW fn \in Functions, CatchCall(fn)
    PROVE  SlotInv'
  <1> DEFINE f == [Frame EXCEPT !.started = TRUE]
             fs == [frames EXCEPT ![Depth] = f]
             extra == FALSE
  <1>0. frames # <<>> /\ flying = 0 /\ state = "Running" /\ Frame.type = "Catch" /\ ~Frame.started
    BY DEF CatchCall, Runs
  <1>1. /\ Frame \in FrameRecords
        /\ Frame.unwinding \/ Frame.handling => Frame.exception # 0
    BY <1>0, TopFrame DEF Exceptions
  <1>2. /\ f \in FrameRecords /\ f.type = Frame.type /\ f.at = Frame.at /\ f.argc = Frame.argc
        /\ f.extra = Frame.extra /\ f.base = Frame.base /\ f.started
        /\ f.unwinding \/ f.handling => f.exception # 0
    BY <1>1 DEF FrameRecords
  <1>3. top = End(Frame)
    BY <1>0 DEF SlotInv, TopSlotOK, TopSlot, Frame, Depth
  <1>4. enter_function(fs, top, fn, 0, extra, top)
    BY DEF CatchCall, Frame
  <1>5. extra \in BOOLEAN /\ top - 0 - (IF extra THEN 1 ELSE 0) = top
    BY BeforeStep
  <1> HIDE DEF f, extra
  <1>6. FramesOK(fs) /\ TopOf(fs) = TopOf(frames)
    BY <1>0, <1>2, BeforeStep, ChangeFrame DEF Frame, Depth
  <1>7. SlotsOK(fs) /\ fs[Len(fs)] = f
    BY <1>0, <1>2, BeforeStep, ChangeSlot DEF Frame, Depth, SlotInv
  <1>8. SlotOK(f, top)
    BY <1>2, <1>3 DEF SlotOK, End
  <1> HIDE DEF fs
  <1> QED BY <1>0, <1>4, <1>5, <1>6, <1>7, <1>8, BeforeStep, EnterSlots

LEMMA ScriptSlots ==
    ASSUME LayoutInv, SlotInv, Script
    PROVE  SlotInv'
  <1>0. ASSUME frames # <<>>, Frame.type = "Code", frames' = frames
        PROVE  SlotInv'
    BY <1>0 DEF SlotInv, TopSlotOK, TopSlot, Frame, Depth
  <1>1. CASE Push \/ Throw \/ Rethrow
    BY <1>0, <1>1 DEF Push, Throw, Rethrow, Runs
  <1>2. ASSUME NEW n \in 1 .. MaxTemps, Pop(n)
        PROVE  SlotInv'
    BY <1>0, <1>2 DEF Pop, Runs
  <1>3. CASE Return
    BY <1>3, ReturnSlots DEF Return, Runs
  <1>4. CASE Defer
    <2> DEFINE f == [Frame EXCEPT !.defers = Frame.defers + 1]
    <2>1. frames # <<>> /\ Frame.type = "Code" /\ frames' = [frames EXCEPT ![Depth] = f]
      BY <1>4 DEF Defer, Runs, Frame
    <2>2. Frame \in FrameRecords
      BY <2>1, TopFrame
    <2>3. Frame.defers + 1 \in Nat
      BY <2>2 DEF FrameRecords
    <2>4. f \in FrameRecords /\ f.base = Frame.base /\ f.type = "Code"
      BY <2>1, <2>2, <2>3, SMTT(20) DEF FrameRecords
    <2> HIDE DEF f
    <2> QED BY <2>1, <2>4, CodeFrameSlots
  <1>5. CASE ScopeExit
    <2> DEFINE f == [Frame EXCEPT !.defers = Frame.defers - 1]
    <2>1. /\ frames # <<>> /\ Frame.type = "Code" /\ frames' = [frames EXCEPT ![Depth] = f]
          /\ Frame.defers > Frame.outer
      BY <1>5 DEF ScopeExit, Runs, Frame
    <2>2. Frame \in FrameRecords
      BY <2>1, TopFrame
    <2>3. Frame.defers - 1 \in Nat
      BY <2>1, <2>2 DEF FrameRecords
    <2>4. f \in FrameRecords /\ f.base = Frame.base /\ f.type = "Code"
      BY <2>1, <2>2, <2>3 DEF FrameRecords
    <2> HIDE DEF f
    <2> QED BY <2>1, <2>4, CodeFrameSlots
  <1>6. CASE LeaveHandler
    <2> DEFINE f == [Frame EXCEPT !.handling = FALSE, !.outer = 0]
    <2>1. frames # <<>> /\ Frame.type = "Code"
      BY <1>6 DEF LeaveHandler, Runs
    <2>2. frames' = [frames EXCEPT ![Depth] = f]
      BY <1>6, <2>1, BeforeStep DEF LeaveHandler, Frame, FramesOK
    <2>3. Frame \in FrameRecords
      BY <2>1, TopFrame
    <2>4. f \in FrameRecords /\ f.base = Frame.base /\ f.type = "Code"
      BY <2>1, <2>3 DEF FrameRecords
    <2> HIDE DEF f
    <2> QED BY <2>1, <2>2, <2>4, CodeFrameSlots
  <1> QED BY <1>1, <1>2, <1>3, <1>4, <1>5, <1>6, CallSlots DEF Script

LEMMA NativeSlots ==
    ASSUME LayoutInv, SlotInv, Native
    PROVE  SlotInv'
  <1>1. CASE NativeContinue \/ NativeYield \/ \E e \in Exceptions : NativePanic(e)
    <2>1. frames # <<>> /\ Frame.type = "Resumable" /\ frames' = frames /\ top' = values_begin(Depth)
      BY <1>1 DEF NativeContinue, NativeYield, NativePanic, Runs
    <2>2. top' - End(Frame) = 0
      BY <2>1, TopFrame, FrameNumbers
    <2> QED BY <2>1, <2>2 DEF SlotInv, TopSlotOK, TopSlot, Frame, Depth
  <1>2. CASE Resume
    BY <1>2 DEF Resume, SlotInv, TopSlotOK
  <1>3. CASE NativeReturn
    BY <1>3, ReturnSlots DEF NativeReturn, Runs
  <1>4. ASSUME NEW fn \in Functions, NEW argc \in 0 .. MaxArgs, NativeInvoke(fn, argc)
        PROVE  SlotInv'
    <2> DEFINE t == values_begin(Depth)
    <2>1. /\ frames # <<>> /\ Frame.type = "Resumable" /\ flying = 0
          /\ push_args_and_enter(t, fn, argc)
      BY <1>4 DEF NativeInvoke, Runs
    <2>2. t = TopOf(frames) /\ t = End(Frame)
      BY <2>1, TopFrame
    <2>3. SlotOK(Frame, t)
      BY <2>1, <2>2 DEF SlotOK
    <2>4. t \in Nat /\ TopOf(frames) <= t /\ argc \in Nat
      BY <2>2, BeforeStep
    <2> HIDE DEF t
    <2> QED BY <2>1, <2>3, <2>4, PushArgsSlots
  <1> QED BY <1>1, <1>2, <1>3, <1>4 DEF Native

LEMMA UnwindSlots ==
    ASSUME LayoutInv, SlotInv, Unwind
    PROVE  SlotInv'
  <1>1. CASE UnwindCode
    <2>1. /\ frames # <<>> /\ Frame.type = "Code" /\ flying \in Exceptions
      BY <1>1 DEF UnwindCode, LayoutInv, TypeOK, Exceptions
    <2>2. handle_exception.exception \in Exceptions
      BY <2>1, TopFrame DEF handle_exception
    <2>3. Frame \in FrameRecords
      BY <2>1, TopFrame
    <2>4. CASE Frame.defers > 0
      <3> DEFINE f == [Frame EXCEPT !.defers = Frame.defers - 1, !.outer = Frame.defers - 1,
                                   !.unwinding = TRUE, !.handling = TRUE,
                                   !.exception = handle_exception.exception]
      <3>1. Frame.defers - 1 \in Nat /\ handle_exception.exception \in 0 .. MaxThrown
        BY <2>2, <2>3, <2>4 DEF FrameRecords, Exceptions
      <3>2. f \in FrameRecords /\ f.base = Frame.base /\ f.type = "Code"
        BY <2>1, <2>3, <3>1 DEF FrameRecords
      <3>3. frames' = [frames EXCEPT ![Depth] = f]
        BY <1>1, <2>4 DEF UnwindCode
      <3> HIDE DEF f
      <3> QED BY <2>1, <3>2, <3>3, CodeFrameSlots
    <2>5. CASE ~(Frame.defers > 0)
      <3>1. pop_frame /\ flying' = handle_exception.exception
        BY <1>1, <2>5 DEF UnwindCode
      <3>2. flying' # 0
        BY <2>2, <3>1 DEF Exceptions
      <3> QED BY <2>1, <3>1, <3>2, PopFrameSlots
    <2> QED BY <2>4, <2>5
  <1>2. CASE UnwindResumable
    BY <1>2, PopFrameSlots DEF UnwindResumable
  <1>3. CASE UnwindCatch
    <2> DEFINE f == [Frame EXCEPT !.unwinding = TRUE, !.exception = flying]
    <2>1. /\ frames # <<>> /\ Frame.type = "Catch" /\ Frame.started
          /\ flying \in 0 .. MaxThrown /\ flying' = 0
      BY <1>3 DEF UnwindCatch, LayoutInv, TypeOK, SlotInv, TopSlotOK, Frame, Depth
    <2>2. Frame \in FrameRecords
      BY <2>1, TopFrame
    <2>3. f \in FrameRecords /\ f.base = Frame.base /\ f.type = "Catch" /\ f.started /\ f.unwinding
      BY <2>1, <2>2 DEF FrameRecords
    <2>4. frames' = [frames EXCEPT ![Depth] = f]
      BY <1>3, <2>1, BeforeStep DEF UnwindCatch, Frame, FramesOK
    <2> HIDE DEF f
    <2>5. SlotsOK(frames') /\ frames'[Len(frames')] = f
      BY <2>1, <2>3, <2>4, BeforeStep, ChangeSlot DEF SlotInv, Frame, Depth
    <2> QED BY <2>1, <2>3, <2>5 DEF SlotInv, TopSlotOK, TopSlot
  <1>4. CASE UnwindDone
    BY <1>4 DEF UnwindDone, SlotInv, TopSlotOK
  <1> QED BY <1>1, <1>2, <1>3, <1>4 DEF Unwind

LEMMA StepSlots ==
    ASSUME LayoutInv, SlotInv, state = "Started" => flying = 0, [Next]_vars
    PROVE  SlotInv'
  <1>1. ASSUME NEW fn \in Functions, NEW argc \in 0 .. MaxArgs, Start(fn, argc)
        PROVE  SlotInv'
    <2>1. frames = <<>> /\ TopOf(frames) = 0 /\ flying = 0
      BY <1>1 DEF LayoutInv, Start, TopOf
    <2> QED BY <1>1, <2>1, PushArgsSlots DEF Start
  <1>2. CASE CatchReturn
    BY <1>2, ReturnSlots DEF CatchReturn, Runs
  <1>3. CASE UNCHANGED vars
    BY <1>3 DEF vars, SlotInv, TopSlotOK
  <1> QED BY <1>1, <1>2, <1>3, ScriptSlots, NativeSlots, CatchCallSlots, UnwindSlots DEF Next, CatchPanic

\* Nothing is in flight before the coroutine has run.
LEMMA StepStarted ==
    ASSUME LayoutInv, state = "Started" => flying = 0, [Next]_vars
    PROVE  state' = "Started" => flying' = 0
  <1>1. CASE UNCHANGED vars
    BY <1>1 DEF vars
  <1>2. ASSUME NEW fn \in Functions, NEW argc \in 0 .. MaxArgs, Start(fn, argc)
        PROVE  state' # "Started"
    BY <1>2 DEF Start, push_args_and_enter, enter_function
  <1>3. CASE Script
    <2>1. state = "Running"
      BY <1>3 DEF Script, Push, Throw, Return, Rethrow, Defer, ScopeExit, LeaveHandler, Pop,
                  Call, CallMethod, Runs
    <2>2. ASSUME NEW fn, NEW argc, NEW is_method, Call(fn, argc) \/ CallMethod(fn, argc, is_method)
          PROVE  state' # "Started"
      BY <2>2 DEF Call, CallMethod, enter_function
    <2>3. ASSUME NEW n, Pop(n)
          PROVE  state' # "Started"
      BY <2>1, <2>3 DEF Pop
    <2>4. CASE Push \/ Throw \/ Return \/ Rethrow \/ Defer \/ ScopeExit \/ LeaveHandler
      BY <2>1, <2>4 DEF Push, Throw, Return, Rethrow, Defer, ScopeExit, LeaveHandler, return_function
    <2> QED BY <1>3, <2>2, <2>3, <2>4 DEF Script
  <1>4. CASE Native
    <2>1. state \in {"Running", "Waiting"}
      BY <1>4 DEF Native, NativeContinue, NativeYield, Resume, NativeReturn, NativeInvoke,
                  NativePanic, Runs
    <2>2. state' # "Started"
      BY <1>4, <2>1 DEF Native, NativeContinue, NativeYield, Resume, NativeReturn, NativeInvoke,
                  NativePanic, return_function, push_args_and_enter, enter_function
    <2> QED BY <2>2
  <1>5. CASE CatchPanic
    BY <1>5 DEF CatchPanic, CatchReturn, CatchCall, Runs, return_function, enter_function
  <1>6. CASE Unwind
    <2>1. flying # 0
      BY <1>6 DEF Unwind, UnwindCode, UnwindResumable, UnwindCatch, UnwindDone
    <2>2. state' # "Started"
      BY <1>6, <2>1 DEF Unwind, UnwindCode, UnwindResumable, UnwindCatch, UnwindDone
    <2> QED BY <2>2
  <1> QED BY <1>1, <1>2, <1>3, <1>4, <1>5, <1>6 DEF Next

\* "expected zero or one top values in resumable function frame", "missing return
\* value on the stack": the assertions of the interpreter about the values that a
\* native or catch_panic finds above its frame never fail.
THEOREM ResultSlotCorrect == Spec => []ResultSlot
  <1> DEFINE Inv == LayoutInv /\ SlotInv /\ (state = "Started" => flying = 0)
  <1>1. Init => Inv
    <2> SUFFICES ASSUME Init
                 PROVE  SlotInv /\ (state = "Started" => flying = 0)
      BY InitInv
    <2>1. Len(<<>>) = 0
      OBVIOUS
    <2> QED BY <2>1 DEF Init, SlotInv, SlotsOK, TopSlotOK
  <1>2. Inv /\ [Next]_vars => Inv'
    BY StepInv, StepSlots, StepStarted
  <1>3. Inv => ResultSlot
    <2> SUFFICES ASSUME Inv
                 PROVE  ResultSlot
      OBVIOUS
    <2>1. ASSUME frames # <<>>
          PROVE  top_value_count = top - End(Frame)
      BY <2>1, TopFrame DEF top_value_count
    <2> QED BY <2>1 DEF ResultSlot, Runs, SlotInv, TopSlotOK, TopSlot, Frame, Depth
  <1> QED BY <1>1, <1>2, <1>3, PTL DEF Spec

-----------------------------------------------------------------------------
(* Panics: where the exceptions are. *)

\* The function of frame f has begun to handle its exception.
Handles(f) == f.type = "Code" /\ f.unwinding

\* catch_panic of frame f has its result.
HasCaught(f) == f.type = "Catch" /\ f.unwinding

\* A frame that does not unwind keeps no exception; natives never do, and only
\* script functions have deferred statements.
KeepsOK(f) ==
    /\ ~f.unwinding => f.exception = 0 /\ ~f.handling
    /\ f.type = "Resumable" => ~f.unwinding
    /\ f.type # "Code" => f.defers = 0

\* The exceptions that functions had begun to handle when one was thrown.
Witnessed == [f \in Exceptions |-> during[f] \cup leftover[f]]

LEMMA SameWitnesses ==
    UNCHANGED <<during, leftover>> => Witnessed' = Witnessed
  BY DEF Witnessed

LEMMA SecondaryWitnessed ==
    SecondaryJustified <=>
        \A e, f \in Exceptions : <<e, f>> \in secondary /\ e # f => e \in Witnessed[f]
  BY DEF SecondaryJustified, Witnessed

\* Exception f was thrown when a function had begun to handle e.
Before(e, f, d) == e = f \/ e \in d[f]

\* Of two functions that handle exceptions, the outer one began before the
\* exception of the inner one was thrown; catch_panic calls nothing afterwards.
HandlersNested(fs, d) ==
    /\ \A i \in 1 .. Len(fs) : KeepsOK(fs[i])
    /\ \A i \in 1 .. (Len(fs) - 1) : ~HasCaught(fs[i])
    /\ \A j \in 1 .. Len(fs) : \A i \in 1 .. (j - 1) :
            Handles(fs[i]) /\ Handles(fs[j]) => Before(fs[i].exception, fs[j].exception, d)

\* All of them began before exception e, if there is one, was thrown.
ThrownAfter(fs, e, d) ==
    e # 0 => \A i \in 1 .. Len(fs) : Handles(fs[i]) => Before(fs[i].exception, e, d)

\* A catch_panic that has its result only returns it.
CatchDone(fs, e) ==
    Len(fs) > 0 /\ HasCaught(fs[Len(fs)]) => e = 0 /\ fs[Len(fs)].started

\* Only a running coroutine panics, and only one that is done has failed.
PanicStates ==
    /\ flying # 0 => state = "Running"
    /\ result # 0 => state = "Done"

PanicInv ==
    /\ HandlersNested(frames, Witnessed)
    /\ ThrownAfter(frames, flying, Witnessed)
    /\ CatchDone(frames, flying)
    /\ PanicStates
    /\ ExceptionsAccounted
    /\ SecondaryJustified

\* Where exception e is.
Kept(e) == \E i \in 1 .. Depth : frames[i].exception = e

Found(e) ==
    \/ e \in {flying, result} \cup caught \cup swallowed
    \/ Kept(e)
    \/ \E p \in Exceptions : p # e /\ <<p, e>> \in secondary

\* Sequences of frames that agree in what matters to panics.
SameFrame(f, g) ==
    /\ g.type = f.type /\ g.exception = f.exception /\ (g.unwinding <=> f.unwinding)
    /\ g.handling => f.handling
    /\ f.started => g.started
    /\ f.type # "Code" => g.defers = f.defers

SameFrames(fs, gs) == Len(gs) = Len(fs) /\ \A i \in 1 .. Len(fs) : SameFrame(fs[i], gs[i])

LEMMA SameHandlers ==
    ASSUME NEW fs, NEW gs, Len(fs) \in Nat, SameFrames(fs, gs), NEW d, NEW e
    PROVE  /\ HandlersNested(fs, d) => HandlersNested(gs, d)
           /\ ThrownAfter(fs, e, d) => ThrownAfter(gs, e, d)
           /\ CatchDone(fs, e) => CatchDone(gs, e)
  <1>1. \A i \in 1 .. Len(fs) :
            /\ KeepsOK(fs[i]) => KeepsOK(gs[i])
            /\ (Handles(gs[i]) <=> Handles(fs[i])) /\ (HasCaught(gs[i]) <=> HasCaught(fs[i]))
            /\ gs[i].exception = fs[i].exception
            /\ fs[i].started => gs[i].started
    BY DEF SameFrames, SameFrame, KeepsOK, Handles, HasCaught
  <1>2. Len(gs) = Len(fs)
    BY DEF SameFrames
  <1>3. ASSUME HandlersNested(fs, d)
        PROVE  HandlersNested(gs, d)
    <2>1. \A i \in 1 .. Len(fs) : KeepsOK(gs[i])
      BY <1>1, <1>3 DEF HandlersNested
    <2>2. \A i \in 1 .. (Len(fs) - 1) : ~HasCaught(gs[i])
      BY <1>1, <1>3 DEF HandlersNested
    <2>3. \A j \in 1 .. Len(fs) : \A i \in 1 .. (j - 1) :
            Handles(gs[i]) /\ Handles(gs[j]) => Before(gs[i].exception, gs[j].exception, d)
      BY <1>1, <1>3 DEF HandlersNested
    <2> QED BY <1>2, <2>1, <2>2, <2>3 DEF HandlersNested
  <1>4. ThrownAfter(fs, e, d) => ThrownAfter(gs, e, d)
    BY <1>1, <1>2 DEF ThrownAfter
  <1>5. CatchDone(fs, e) => CatchDone(gs, e)
    BY <1>1, <1>2 DEF CatchDone
  <1> QED BY <1>3, <1>4, <1>5

LEMMA PushHandlers ==
    ASSUME NEW fs \in Seq(FrameRecords), NEW f \in FrameRecords, NEW d, NEW e,
           HandlersNested(fs, d), Len(fs) > 0 => ~HasCaught(fs[Len(fs)]),
           KeepsOK(f), ~f.unwinding
    PROVE  /\ HandlersNested(Append(fs, f), d)
           /\ CatchDone(Append(fs, f), e)
           /\ \A i \in 1 .. Len(fs) : Append(fs, f)[i] = fs[i]
           /\ Len(Append(fs, f)) = Len(fs) + 1
  <1> DEFINE gs == Append(fs, f)
             n == Len(fs)
  <1>1. /\ n \in Nat /\ Len(gs) = n + 1 /\ gs[n + 1] = f
        /\ \A i \in 1 .. n : gs[i] = fs[i]
    BY AppendProperties, LenProperties
  <1> HIDE DEF gs
  <1>2. ~Handles(f) /\ ~HasCaught(f)
    BY DEF Handles, HasCaught
  <1>3. \A i \in 1 .. (n + 1) : i = n + 1 \/ i \in 1 .. n
    BY <1>1
  <1>4. \A i \in 1 .. Len(gs) : KeepsOK(gs[i])
    BY <1>1, <1>3 DEF HandlersNested
  <1>5. \A i \in 1 .. (Len(gs) - 1) : ~HasCaught(gs[i])
    <2>1. \A i \in 1 .. n : (i = n /\ n > 0) \/ i \in 1 .. (n - 1)
      BY <1>1
    <2>2. Len(gs) - 1 = n
      BY <1>1
    <2> QED BY <1>1, <2>1, <2>2 DEF HandlersNested
  <1>6. ASSUME NEW j \in 1 .. Len(gs), NEW i \in 1 .. (j - 1), Handles(gs[i]), Handles(gs[j])
        PROVE  Before(gs[i].exception, gs[j].exception, d)
    <2>1. j \in 1 .. n /\ i \in 1 .. n
      BY <1>1, <1>2, <1>6
    <2> QED BY <1>1, <1>6, <2>1 DEF HandlersNested
  <1>7. CatchDone(gs, e)
    BY <1>1, <1>2 DEF CatchDone
  <1> QED BY <1>1, <1>4, <1>5, <1>6, <1>7 DEF HandlersNested, gs

LEMMA PopHandlers ==
    ASSUME NEW fs \in Seq(FrameRecords), Len(fs) > 0, NEW d, HandlersNested(fs, d)
    PROVE  LET gs == SubSeq(fs, 1, Len(fs) - 1)
           IN  /\ HandlersNested(gs, d)
               /\ \A e : CatchDone(gs, e)
               /\ Len(gs) = Len(fs) - 1
               /\ \A i \in 1 .. (Len(fs) - 1) : gs[i] = fs[i]
  <1> DEFINE gs == SubSeq(fs, 1, Len(fs) - 1)
             m == Len(fs) - 1
  <1>1. Len(fs) \in Nat /\ m \in Nat /\ m \in 0 .. Len(fs) /\ m + 1 = Len(fs)
    BY LenProperties
  <1>2. Len(gs) = m /\ \A i \in 1 .. m : gs[i] = fs[i]
    <2> HIDE DEF m
    <2>1. /\ Len(SubSeq(fs, 1, m)) = m
          /\ \A i \in 1 .. m : SubSeq(fs, 1, m)[i] = fs[i]
      BY <1>1
    <2> QED BY <2>1 DEF m
  <1> HIDE DEF gs
  <1>3. \A i \in 1 .. m : ~HasCaught(gs[i]) /\ KeepsOK(gs[i])
    <2>1. \A i \in 1 .. m : i \in 1 .. Len(fs)
      BY <1>1
    <2> QED BY <1>2, <2>1 DEF HandlersNested
  <1>4. \A i \in 1 .. (m - 1) : i \in 1 .. m
    BY <1>1
  <1>5. ASSUME NEW j \in 1 .. m, NEW i \in 1 .. (j - 1), Handles(gs[i]), Handles(gs[j])
        PROVE  Before(gs[i].exception, gs[j].exception, d)
    <2>1. i \in 1 .. m /\ j \in 1 .. Len(fs)
      BY <1>1
    <2> QED BY <1>2, <1>5, <2>1 DEF HandlersNested
  <1>6. \A e : CatchDone(gs, e)
    <2>1. Len(gs) > 0 => Len(gs) \in 1 .. m
      BY <1>1, <1>2
    <2> QED BY <1>3, <2>1 DEF CatchDone
  <1>7. HandlersNested(gs, d)
    BY <1>2, <1>3, <1>4, <1>5 DEF HandlersNested
  <1> QED BY <1>2, <1>6, <1>7 DEF gs

LEMMA ChangeHandlers ==
    ASSUME NEW fs \in Seq(FrameRecords), Len(fs) > 0, NEW f \in FrameRecords, NEW d,
           HandlersNested(fs, d), KeepsOK(f),
           Handles(f) => \A i \in 1 .. (Len(fs) - 1) :
                            Handles(fs[i]) => Before(fs[i].exception, f.exception, d)
    PROVE  LET gs == [fs EXCEPT ![Len(fs)] = f]
           IN  /\ HandlersNested(gs, d)
               /\ Len(gs) = Len(fs) /\ gs[Len(fs)] = f
               /\ \A i \in 1 .. (Len(fs) - 1) : gs[i] = fs[i]
  <1> DEFINE n == Len(fs)
             gs == [fs EXCEPT ![n] = f]
  <1>1. n \in Nat \ {0}
    BY LenProperties
  <1>2. Len(gs) = n /\ gs[n] = f /\ \A i \in 1 .. n : i # n => gs[i] = fs[i]
    BY <1>1, ExceptSeq
  <1> HIDE DEF gs
  <1>3. \A i \in 1 .. n : i = n \/ i \in 1 .. (n - 1)
    BY <1>1
  <1>4. \A i \in 1 .. (n - 1) : i \in 1 .. n /\ i # n
    BY <1>1
  <1>5. \A i \in 1 .. n : KeepsOK(gs[i])
    BY <1>2, <1>3, <1>4 DEF HandlersNested
  <1>6. \A i \in 1 .. (n - 1) : ~HasCaught(gs[i])
    BY <1>2, <1>4 DEF HandlersNested
  <1>7. ASSUME NEW j \in 1 .. n, NEW i \in 1 .. (j - 1), Handles(gs[i]), Handles(gs[j])
        PROVE  Before(gs[i].exception, gs[j].exception, d)
    <2>1. i \in 1 .. (n - 1) /\ gs[i] = fs[i]
      BY <1>1, <1>2
    <2>2. CASE j = n
      BY <1>2, <1>7, <2>1, <2>2
    <2>3. CASE j # n
      BY <1>2, <1>7, <2>1, <2>3 DEF HandlersNested
    <2> QED BY <2>2, <2>3
  <1> QED BY <1>2, <1>4, <1>5, <1>6, <1>7 DEF HandlersNested, gs

\* Exceptions are found again after a step if those are that the step may have moved.
LEMMA Accounting ==
    ASSUME ExceptionsAccounted, LayoutInv,
           \A e \in Exceptions : e = flying \/ Kept(e) \/ e = result => Found(e)',
           thrown' = thrown \/ (thrown' = thrown + 1 /\ flying' = thrown'),
           caught \subseteq caught', swallowed \subseteq swallowed', secondary \subseteq secondary'
    PROVE  ExceptionsAccounted'
  <1>1. thrown \in 0 .. MaxThrown
    BY DEF LayoutInv, TypeOK
  <1>2. ASSUME NEW e \in 1 .. thrown
        PROVE  Found(e)'
    <2>1. Found(e) /\ e \in Exceptions
      BY <1>1 DEF ExceptionsAccounted, Found, Kept, Exceptions
    <2> QED BY <2>1 DEF Found
  <1>3. ASSUME NEW e \in 1 .. thrown'
        PROVE  Found(e)'
    <2>1. e \in 1 .. thrown \/ e = flying'
      BY <1>1
    <2> QED BY <1>2, <2>1 DEF Found
  <1> QED BY <1>3 DEF ExceptionsAccounted, Found, Kept

\* Nothing is in flight when a frame is executed, and the coroutine has not failed.
LEMMA NothingFlies ==
    ASSUME LayoutInv, PanicInv, state # "Done", flying = 0
    PROVE  /\ result = 0
           /\ \A e \in Exceptions : e = flying \/ Kept(e) \/ e = result => Kept(e)
  BY DEF PanicInv, PanicStates, Exceptions

\* The exceptions of handlers are known ones.
LEMMA HandledKnown ==
    ASSUME LayoutInv, NEW j \in 1 .. Depth, frames[j].unwinding
    PROVE  frames[j].exception \in Exceptions
  <1>1. frames \in Seq(FrameRecords) /\ j \in 1 .. Len(frames)
    BY DEF LayoutInv, FramesOK, Depth
  <1>2. frames[j] \in FrameRecords
    BY <1>1, ElementOfSeq
  <1>3. FrameOK(frames[j], IF j = 1 THEN 0 ELSE End(frames[j - 1]))
    BY <1>1 DEF LayoutInv, FramesOK
  <1>4. frames[j].exception \in 0 .. MaxThrown
    BY <1>2 DEF FrameRecords
  <1> QED BY <1>3, <1>4 DEF FrameOK, Exceptions

\* Steps that leave the exceptions alone.
LEMMA QuietPanic ==
    ASSUME LayoutInv, PanicInv, state # "Done", flying = 0, UNCHANGED panics,
           HandlersNested(frames', Witnessed), CatchDone(frames', 0),
           \A e \in Exceptions : Kept(e) => Kept(e)'
    PROVE  PanicInv'
  <1>1. result = 0 /\ flying' = 0 /\ result' = 0 /\ during' = during
    BY NothingFlies
  <1>2. ExceptionsAccounted'
    <2>1. \A e \in Exceptions : e = flying \/ Kept(e) \/ e = result => Found(e)'
      BY NothingFlies DEF Found
    <2> QED BY <2>1, Accounting DEF PanicInv
  <1>3. SecondaryJustified'
    BY DEF PanicInv, SecondaryJustified
  <1>4. HandlersNested(frames, Witnessed)' /\ CatchDone(frames, flying)'
    BY SameWitnesses, <1>1
  <1>5. ThrownAfter(frames, flying, Witnessed)' /\ PanicStates'
    BY SameWitnesses, <1>1 DEF ThrownAfter, PanicStates
  <1> QED BY <1>2, <1>3, <1>4, <1>5 DEF PanicInv

LEMMA SameKept ==
    ASSUME SameFrames(frames, frames')
    PROVE  \A e \in Exceptions : Kept(e) => Kept(e)'
  BY DEF SameFrames, SameFrame, Kept, Depth

LEMMA QuietSame ==
    ASSUME LayoutInv, PanicInv, state # "Done", flying = 0, UNCHANGED panics,
           SameFrames(frames, frames')
    PROVE  PanicInv'
  <1>1. Len(frames) \in Nat
    BY LenProperties DEF LayoutInv, FramesOK
  <1>2. HandlersNested(frames, Witnessed) /\ CatchDone(frames, 0)
    BY DEF PanicInv
  <1>3. HandlersNested(frames', Witnessed) /\ CatchDone(frames', 0)
    BY <1>1, <1>2, SameHandlers
  <1> QED BY <1>3, SameKept, QuietPanic

\* A panic.
LEMMA RaisePanic ==
    ASSUME LayoutInv, PanicInv, state # "Done", flying = 0,
           SameFrames(frames, frames'), Depth > 0 => ~HasCaught(Frame),
           NEW e, raise(e), state' = "Running"
    PROVE  PanicInv'
  <1>1. /\ Len(frames) \in Nat /\ Len(frames') = Len(frames)
        /\ e \in Exceptions /\ during \in [Exceptions -> SUBSET Exceptions]
        /\ leftover \in [Exceptions -> SUBSET Exceptions]
    BY LenProperties DEF LayoutInv, FramesOK, SameFrames, raise, TypeOK, Exceptions
  <1>2. /\ flying' = e /\ result' = result /\ result = 0 /\ secondary' = secondary
        /\ during' = [during EXCEPT ![e] = during[e] \cup Handled]
        /\ leftover' = [leftover EXCEPT ![e] = leftover[e] \cup Leftover]
        /\ caught' = caught /\ swallowed' = swallowed
        /\ thrown' = thrown \/ (thrown' = thrown + 1 /\ flying' = thrown')
    BY NothingFlies DEF raise
  <1>3. \A f \in Exceptions : Witnessed[f] \subseteq Witnessed'[f]
    BY <1>1, <1>2 DEF Witnessed
  <1>4. HandlersNested(frames, Witnessed')
    <2>1. HandlersNested(frames, Witnessed)
      BY DEF PanicInv
    <2>2. ASSUME NEW j \in 1 .. Depth, NEW i \in 1 .. (j - 1), Handles(frames[i]), Handles(frames[j])
          PROVE  Before(frames[i].exception, frames[j].exception, Witnessed')
      <3>1. Before(frames[i].exception, frames[j].exception, Witnessed)
        BY <2>1, <2>2 DEF HandlersNested, Depth
      <3>2. frames[j].exception \in Exceptions
        BY <2>2, HandledKnown DEF Handles
      <3> QED BY <1>3, <3>1, <3>2 DEF Before
    <2> QED BY <2>1, <2>2 DEF HandlersNested, Depth
  <1>5. ThrownAfter(frames, e, Witnessed')
    <2>1. \A i \in 1 .. Depth : Handles(frames[i]) => frames[i].exception \in Handled \cup Leftover
      BY DEF Handles, Handled, Leftover
    <2>2. Handled \cup Leftover \subseteq Witnessed'[e]
      BY <1>1, <1>2 DEF Witnessed
    <2> QED BY <2>1, <2>2 DEF ThrownAfter, Before, Depth
  <1>6. CatchDone(frames, e)
    BY DEF CatchDone, Frame, Depth
  <1>7. HandlersNested(frames, Witnessed)' /\ ThrownAfter(frames, flying, Witnessed)' /\ CatchDone(frames, flying)'
    BY SameWitnesses, <1>1, <1>2, <1>4, <1>5, <1>6, SameHandlers
  <1>8. ExceptionsAccounted'
    <2>1. \A f \in Exceptions : f = flying \/ Kept(f) \/ f = result => Found(f)'
      BY NothingFlies, SameKept DEF Found
    <2> QED BY <1>2, <2>1, Accounting DEF PanicInv
  <1>9. SecondaryJustified'
    <2>1. \A f, g \in Exceptions : <<f, g>> \in secondary /\ f # g => f \in Witnessed[g]
      BY SecondaryWitnessed DEF PanicInv
    <2>2. \A f, g \in Exceptions : <<f, g>> \in secondary' /\ f # g => f \in Witnessed'[g]
      BY <1>2, <1>3, <2>1
    <2> QED BY <2>2, SecondaryWitnessed DEF SecondaryJustified, Witnessed
  <1>10. PanicStates'
    BY <1>2 DEF PanicStates
  <1> QED BY <1>7, <1>8, <1>9, <1>10 DEF PanicInv

\* Interpreter::enter_function, for frames fs that may have been touched before.
LEMMA EnterPanic ==
    ASSUME LayoutInv, PanicInv, state # "Done", flying = 0,
           NEW fs \in Seq(FrameRecords), SameFrames(frames, fs), Len(fs) > 0 => ~HasCaught(fs[Len(fs)]),
           NEW t, NEW fn \in Functions, NEW argc, NEW extra, NEW base,
           enter_function(fs, t, fn, argc, extra, base), frames' \in Seq(FrameRecords)
    PROVE  PanicInv'
  <1>1. Len(frames) \in Nat /\ Len(fs) = Len(frames) /\ \A i \in 1 .. Depth : fs[i].exception = frames[i].exception
    BY LenProperties DEF LayoutInv, FramesOK, SameFrames, SameFrame, Depth
  <1>2. ASSUME NEW f, frames' = Append(fs, f), KeepsOK(f), ~f.unwinding, UNCHANGED panics
        PROVE  PanicInv'
    <2>1. f \in FrameRecords
      <3>1. Len(frames') = Len(fs) + 1 /\ frames'[Len(fs) + 1] = f
        BY <1>2
      <3>2. Len(fs) + 1 \in 1 .. Len(frames')
        BY <1>1, <3>1
      <3> QED BY <3>1, <3>2, ElementOfSeq
    <2>2. HandlersNested(fs, Witnessed)
      BY <1>1, SameHandlers DEF PanicInv
    <2>3. /\ HandlersNested(frames', Witnessed) /\ CatchDone(frames', 0)
          /\ \A i \in 1 .. Len(fs) : frames'[i] = fs[i]
          /\ Len(frames') = Len(fs) + 1
      BY <1>2, <2>1, <2>2, PushHandlers
    <2>4. \A e \in Exceptions : Kept(e) => Kept(e)'
      <3>1. \A i \in 1 .. Len(fs) : i \in 1 .. Len(frames')
        BY <1>1, <2>3
      <3> QED BY <1>1, <2>3, <3>1 DEF Kept, Depth
    <2> QED BY <1>2, <2>3, <2>4, QuietPanic
  <1>3. CASE \E h, n : /\ frames' = Append(fs, NewFrame(Type(fn.kind), h, n, extra, base))
                       /\ UNCHANGED panics
    <2>1. PICK h, n : frames' = Append(fs, NewFrame(Type(fn.kind), h, n, extra, base))
      BY <1>3
    <2> DEFINE f == NewFrame(Type(fn.kind), h, n, extra, base)
    <2>2. KeepsOK(f) /\ ~f.unwinding
      BY DEF NewFrame, KeepsOK
    <2> HIDE DEF f
    <2> QED BY <1>2, <1>3, <2>1, <2>2 DEF f
  <1>4. CASE frames' = fs /\ state' = "Running" /\ raise(thrown + 1)
    <2>1. Depth > 0 => ~HasCaught(Frame)
      <3>1. Len(frames) > 0 => SameFrame(frames[Len(frames)], fs[Len(fs)])
        BY <1>1 DEF SameFrames
      <3> QED BY <1>1, <3>1 DEF HasCaught, SameFrame, Frame, Depth
    <2> QED BY <1>4, <2>1, RaisePanic
  <1>5. CASE frames' = fs /\ UNCHANGED panics
    BY <1>5, QuietSame
  <1> QED BY <1>3, <1>4, <1>5 DEF enter_function

LEMMA PushArgsPanic ==
    ASSUME LayoutInv, PanicInv, state # "Done", flying = 0, Depth > 0 => ~HasCaught(Frame),
           NEW t, NEW fn \in Functions, NEW argc, push_args_and_enter(t, fn, argc),
           frames' \in Seq(FrameRecords)
    PROVE  PanicInv'
  <1>1. frames \in Seq(FrameRecords)
    BY DEF LayoutInv, FramesOK
  <1>2. SameFrames(frames, frames)
    BY DEF SameFrames, SameFrame
  <1>3. CASE enter_function(frames, t + argc, fn, argc, FALSE, t)
    BY <1>1, <1>2, <1>3, EnterPanic DEF Frame, Depth
  <1>4. CASE frames' = frames /\ UNCHANGED panics
    BY <1>2, <1>4, QuietSame
  <1> QED BY <1>3, <1>4 DEF push_args_and_enter

\* Steps that change the frame on top, but not what it has to do with panics.
LEMMA FramePanic ==
    ASSUME LayoutInv, PanicInv, state # "Done", flying = 0, UNCHANGED panics, frames # <<>>,
           NEW f \in FrameRecords, SameFrame(Frame, f), frames' = [frames EXCEPT ![Depth] = f]
    PROVE  PanicInv'
  <1>1. SameFrames(frames, frames')
    <2>1. frames \in Seq(FrameRecords) /\ Len(frames) \in Nat \ {0}
      BY EmptySeq, LenProperties DEF LayoutInv, FramesOK
    <2>2. /\ Len(frames') = Len(frames) /\ frames'[Len(frames)] = f
          /\ \A i \in 1 .. Len(frames) : i # Len(frames) => frames'[i] = frames[i]
      BY <2>1, ExceptSeq DEF Depth
    <2> QED BY <2>2 DEF SameFrames, SameFrame, Frame, Depth
  <1> QED BY <1>1, QuietSame

\* What is left when the frame on top is removed.
LEMMA WithoutTop ==
    ASSUME LayoutInv, PanicInv, frames # <<>>, frames' = SubSeq(frames, 1, Depth - 1)
    PROVE  /\ HandlersNested(frames', Witnessed)
           /\ \A e : CatchDone(frames', e)
           /\ \A e, d : ThrownAfter(frames, e, d) => ThrownAfter(frames', e, d)
           /\ \A i \in 1 .. Len(frames') : i \in 1 .. (Depth - 1) /\ frames'[i] = frames[i]
           /\ \A e \in Exceptions : Kept(e) => Kept(e)' \/ e = Frame.exception
  <1>1. frames \in Seq(FrameRecords) /\ Depth \in Nat \ {0} /\ Len(frames) > 0
    BY EmptySeq, LenProperties DEF LayoutInv, FramesOK, Depth
  <1>2. HandlersNested(frames, Witnessed)
    BY DEF PanicInv
  <1>3. /\ HandlersNested(frames', Witnessed)
        /\ \A e : CatchDone(frames', e)
        /\ Len(frames') = Depth - 1
        /\ \A i \in 1 .. (Depth - 1) : frames'[i] = frames[i]
    BY <1>1, <1>2, PopHandlers DEF Depth
  <1>4. \A i \in 1 .. (Depth - 1) : i \in 1 .. Depth
    BY <1>1
  <1>5. \A e, d : ThrownAfter(frames, e, d) => ThrownAfter(frames', e, d)
    BY <1>3, <1>4 DEF ThrownAfter, Depth
  <1>6. \A e \in Exceptions : Kept(e) => Kept(e)' \/ e = Frame.exception
    <2>1. \A i \in 1 .. Depth : i \in 1 .. (Depth - 1) \/ i = Depth
      BY <1>1
    <2> QED BY <1>3, <2>1 DEF Kept, Frame, Depth
  <1> QED BY <1>3, <1>5, <1>6

\* A function returns.
LEMMA ReturnPanic ==
    ASSUME LayoutInv, PanicInv, state = "Running", flying = 0, frames # <<>>, return_function,
           UNCHANGED <<flying, result, secondary, thrown, during, leftover>>,
           caught \subseteq caught', swallowed \subseteq swallowed',
           Frame.unwinding => Frame.exception \in caught' \cup swallowed'
    PROVE  PanicInv'
  <1>1. /\ HandlersNested(frames', Witnessed) /\ CatchDone(frames', 0)
        /\ \A e \in Exceptions : Kept(e) => Kept(e)' \/ e = Frame.exception
    BY WithoutTop DEF return_function
  <1>2. Frame.unwinding \/ Frame.exception = 0
    <2>1. Depth \in 1 .. Len(frames)
      BY TopFrame DEF Depth
    <2> QED BY <2>1 DEF PanicInv, HandlersNested, KeepsOK, Frame, Depth
  <1>3. \A e \in Exceptions : e = flying \/ Kept(e) \/ e = result => Found(e)'
    <2>1. \A e \in Exceptions : e # 0
      BY DEF Exceptions
    <2>2. \A e \in Exceptions : e = flying \/ Kept(e) \/ e = result => Kept(e)
      BY NothingFlies
    <2> QED BY <1>1, <1>2, <2>1, <2>2 DEF Found
  <1>4. ExceptionsAccounted'
    BY <1>3, Accounting DEF PanicInv
  <1>5. SecondaryJustified'
    BY DEF PanicInv, SecondaryJustified
  <1>6. HandlersNested(frames, Witnessed)' /\ CatchDone(frames, flying)'
    BY SameWitnesses, <1>1
  <1>7. ThrownAfter(frames, flying, Witnessed)' /\ PanicStates'
    BY SameWitnesses, NothingFlies DEF ThrownAfter, PanicStates
  <1> QED BY <1>4, <1>5, <1>6, <1>7 DEF PanicInv

LEMMA CallPanic ==
    ASSUME LayoutInv, PanicInv, LayoutInv', NEW fn \in Functions, NEW argc \in 0 .. MaxArgs,
           \/ Call(fn, argc)
           \/ \E is_method \in BOOLEAN : CallMethod(fn, argc, is_method)
    PROVE  PanicInv'
  <1>1. frames \in Seq(FrameRecords) /\ frames' \in Seq(FrameRecords) /\ SameFrames(frames, frames)
    BY DEF LayoutInv, FramesOK, SameFrames, SameFrame
  <1>2. flying = 0 /\ state # "Done" /\ ~HasCaught(Frame)
    BY DEF Call, CallMethod, Runs, HasCaught
  <1>3. PICK t, n, extra, base : enter_function(frames, t, fn, n, extra, base)
    BY DEF Call, CallMethod
  <1>4. Len(frames) > 0 => ~HasCaught(frames[Len(frames)])
    BY <1>2 DEF Frame, Depth
  <1> QED BY <1>1, <1>2, <1>3, <1>4, EnterPanic

LEMMA RethrowPanic ==
    ASSUME LayoutInv, PanicInv, Rethrow
    PROVE  PanicInv'
  <1>1. /\ frames # <<>> /\ Frame.type = "Code" /\ Frame.handling /\ flying = 0 /\ state = "Running"
        /\ flying' = Frame.exception
        /\ UNCHANGED <<memory, state, result, secondary, thrown, caught, during, leftover, swallowed>>
    BY DEF Rethrow, Runs
  <1>2. Depth \in 1 .. Len(frames) /\ \A i \in 1 .. Len(frames) : i = Depth \/ i \in 1 .. (Depth - 1)
    BY <1>1, TopFrame DEF Depth
  <1>3. HandlersNested(frames, Witnessed) /\ Handles(frames[Depth])
    BY <1>1, <1>2 DEF PanicInv, HandlersNested, KeepsOK, Handles, Frame
  <1>4. ThrownAfter(frames, Frame.exception, Witnessed)
    BY <1>2, <1>3 DEF HandlersNested, ThrownAfter, Before, Frame
  <1>5. CatchDone(frames, Frame.exception)
    BY <1>1 DEF CatchDone, HasCaught, Frame, Depth
  <1>6. HandlersNested(frames, Witnessed)' /\ ThrownAfter(frames, flying, Witnessed)' /\ CatchDone(frames, flying)'
    BY SameWitnesses, <1>1, <1>3, <1>4, <1>5
  <1>7. ExceptionsAccounted'
    <2>1. \A e \in Exceptions : Kept(e) => Kept(e)'
      BY <1>1 DEF Kept, Depth
    <2>2. \A e \in Exceptions : e = flying \/ Kept(e) \/ e = result => Found(e)'
      BY <1>1, <2>1, NothingFlies DEF Found
    <2> QED BY <1>1, <2>2, Accounting DEF PanicInv
  <1>8. SecondaryJustified' /\ PanicStates'
    BY <1>1 DEF PanicInv, SecondaryJustified, PanicStates
  <1> QED BY <1>6, <1>7, <1>8 DEF PanicInv

LEMMA ScriptPanic ==
    ASSUME LayoutInv, PanicInv, LayoutInv', Script
    PROVE  PanicInv'
  <1>0. SameFrames(frames, frames)
    BY DEF SameFrames, SameFrame
  <1>1. CASE Push
    BY <1>0, <1>1, QuietSame DEF Push, Runs
  <1>2. ASSUME NEW n \in 1 .. MaxTemps, Pop(n)
        PROVE  PanicInv'
    BY <1>0, <1>2, QuietSame DEF Pop, Runs
  <1>3. CASE Throw
    <2>1. /\ state = "Running" /\ flying = 0 /\ ~HasCaught(Frame) /\ raise(thrown + 1)
          /\ frames' = frames /\ state' = "Running"
      BY <1>3 DEF Throw, Runs, HasCaught
    <2> QED BY <1>0, <2>1, RaisePanic
  <1>4. CASE Return
    <2>1. /\ state = "Running" /\ flying = 0 /\ frames # <<>> /\ return_function
          /\ swallowed' = IF Frame.unwinding THEN swallowed \cup {Frame.exception} ELSE swallowed
          /\ UNCHANGED <<flying, result, secondary, thrown, caught, during, leftover>>
      BY <1>4 DEF Return, Runs
    <2> QED BY <2>1, ReturnPanic
  <1>5. CASE Defer
    <2> DEFINE f == [Frame EXCEPT !.defers = Frame.defers + 1]
    <2>1. /\ frames # <<>> /\ flying = 0 /\ state # "Done" /\ UNCHANGED panics
          /\ Frame.type = "Code"
          /\ frames' = [frames EXCEPT ![Depth] = f]
      BY <1>5 DEF Defer, Runs, Frame
    <2>2. Frame \in FrameRecords
      BY <2>1, TopFrame
    <2>3. Frame.defers + 1 \in Nat
      BY <2>2 DEF FrameRecords
    <2>4. f \in FrameRecords /\ SameFrame(Frame, f)
      BY <2>1, <2>2, <2>3, SMTT(20) DEF FrameRecords, SameFrame
    <2> HIDE DEF f
    <2> QED BY <2>1, <2>4, FramePanic
  <1>6. CASE ScopeExit
    <2> DEFINE f == [Frame EXCEPT !.defers = Frame.defers - 1]
    <2>1. /\ frames # <<>> /\ flying = 0 /\ state # "Done" /\ UNCHANGED panics
          /\ Frame.type = "Code"
          /\ frames' = [frames EXCEPT ![Depth] = f] /\ Frame.defers > Frame.outer
      BY <1>6 DEF ScopeExit, Runs, Frame
    <2>2. Frame \in FrameRecords
      BY <2>1, TopFrame
    <2>3. Frame.defers - 1 \in Nat
      BY <2>1, <2>2 DEF FrameRecords
    <2>4. f \in FrameRecords /\ SameFrame(Frame, f)
      BY <2>1, <2>2, <2>3, SMTT(20) DEF FrameRecords, SameFrame
    <2> HIDE DEF f
    <2> QED BY <2>1, <2>4, FramePanic
  <1>7. CASE LeaveHandler
    <2> DEFINE f == [Frame EXCEPT !.handling = FALSE, !.outer = 0]
    <2>1. /\ frames # <<>> /\ flying = 0 /\ state # "Done" /\ UNCHANGED panics
          /\ Frame.type = "Code"
      BY <1>7 DEF LeaveHandler, Runs
    <2>2. frames' = [frames EXCEPT ![Depth] = f]
      BY <1>7, <2>1, BeforeStep DEF LeaveHandler, Frame, FramesOK
    <2>3. Frame \in FrameRecords
      BY <2>1, TopFrame
    <2>4. f \in FrameRecords /\ SameFrame(Frame, f)
      BY <2>1, <2>3 DEF FrameRecords, SameFrame
    <2> HIDE DEF f
    <2> QED BY <2>1, <2>2, <2>4, FramePanic
  <1> QED BY <1>1, <1>2, <1>3, <1>4, <1>5, <1>6, <1>7, RethrowPanic, CallPanic DEF Script

LEMMA NativePanicked ==
    ASSUME LayoutInv, PanicInv, LayoutInv', Native
    PROVE  PanicInv'
  <1>0. SameFrames(frames, frames) /\ frames' \in Seq(FrameRecords)
    BY DEF SameFrames, SameFrame, LayoutInv, FramesOK
  <1>1. CASE NativeContinue \/ NativeYield
    BY <1>0, <1>1, QuietSame DEF NativeContinue, NativeYield, Runs
  <1>2. CASE Resume
    <2>1. flying = 0
      BY <1>2 DEF Resume, PanicInv, PanicStates
    <2> QED BY <1>0, <1>2, <2>1, QuietSame DEF Resume
  <1>3. CASE NativeReturn
    <2>1. /\ state = "Running" /\ flying = 0 /\ frames # <<>> /\ return_function
          /\ Frame.type = "Resumable" /\ UNCHANGED panics
      BY <1>3 DEF NativeReturn, Runs
    <2>2. ~Frame.unwinding
      <3>1. Depth \in 1 .. Len(frames)
        BY <2>1, TopFrame DEF Depth
      <3> QED BY <2>1, <3>1 DEF PanicInv, HandlersNested, KeepsOK, Frame, Depth
    <2> QED BY <2>1, <2>2, ReturnPanic
  <1>4. ASSUME NEW fn \in Functions, NEW argc \in 0 .. MaxArgs, NativeInvoke(fn, argc)
        PROVE  PanicInv'
    <2>1. flying = 0 /\ state # "Done" /\ ~HasCaught(Frame)
      BY <1>4 DEF NativeInvoke, Runs, HasCaught
    <2>2. push_args_and_enter(values_begin(Depth), fn, argc)
      BY <1>4 DEF NativeInvoke
    <2> QED BY <1>0, <2>1, <2>2, PushArgsPanic
  <1>5. ASSUME NEW e \in Exceptions, NativePanic(e)
        PROVE  PanicInv'
    <2>1. /\ state = "Running" /\ flying = 0 /\ ~HasCaught(Frame) /\ raise(e)
          /\ frames' = frames /\ state' = "Running"
      BY <1>5 DEF NativePanic, Runs, HasCaught
    <2> QED BY <1>0, <2>1, RaisePanic
  <1> QED BY <1>1, <1>2, <1>3, <1>4, <1>5 DEF Native

LEMMA CatchPanicked ==
    ASSUME LayoutInv, PanicInv, LayoutInv', CatchPanic
    PROVE  PanicInv'
  <1>1. CASE CatchReturn
    <2>1. /\ state = "Running" /\ flying = 0 /\ frames # <<>> /\ return_function
          /\ caught' = IF Frame.unwinding THEN caught \cup {Frame.exception} ELSE caught
          /\ UNCHANGED <<flying, result, secondary, thrown, during, leftover, swallowed>>
      BY <1>1 DEF CatchReturn, Runs
    <2> QED BY <2>1, ReturnPanic
  <1>2. ASSUME NEW fn \in Functions, CatchCall(fn)
        PROVE  PanicInv'
    <2> DEFINE f == [Frame EXCEPT !.started = TRUE]
               fs == [frames EXCEPT ![Depth] = f]
    <2>1. /\ frames # <<>> /\ flying = 0 /\ state # "Done" /\ Frame.type = "Catch" /\ ~Frame.started
          /\ enter_function(fs, top, fn, 0, FALSE, top)
      BY <1>2 DEF CatchCall, Runs, Frame
    <2>2. Frame \in FrameRecords
      BY <2>1, TopFrame
    <2>3. f \in FrameRecords /\ SameFrame(Frame, f)
      BY <2>2 DEF FrameRecords, SameFrame
    <2>4. ~Frame.unwinding
      <3>1. Len(frames) > 0
        BY <2>1, TopFrame DEF Depth
      <3> QED BY <2>1, <3>1 DEF PanicInv, CatchDone, HasCaught, Frame, Depth
    <2>5. frames \in Seq(FrameRecords) /\ Len(frames) \in Nat \ {0} /\ frames' \in Seq(FrameRecords)
      BY <2>1, EmptySeq, LenProperties DEF LayoutInv, FramesOK
    <2> HIDE DEF f
    <2>6. /\ fs \in Seq(FrameRecords) /\ Len(fs) = Len(frames) /\ fs[Len(frames)] = f
          /\ \A i \in 1 .. Len(frames) : i # Len(frames) => fs[i] = frames[i]
      BY <2>3, <2>5, ExceptSeq DEF Depth
    <2> HIDE DEF fs
    <2>7. SameFrames(frames, fs)
      BY <2>3, <2>6 DEF SameFrames, SameFrame, Frame, Depth
    <2>8. ~HasCaught(fs[Len(fs)])
      BY <2>3, <2>4, <2>6 DEF HasCaught, SameFrame
    <2> QED BY <2>1, <2>5, <2>6, <2>7, <2>8, EnterPanic
  <1> QED BY <1>1, <1>2 DEF CatchPanic

\* A panic meets a script frame.
LEMMA UnwindCodePanic ==
    ASSUME LayoutInv, PanicInv, UnwindCode
    PROVE  PanicInv'
  <1>e. PICK e : e = handle_exception.exception
    OBVIOUS
  <1>1. /\ flying # 0 /\ frames # <<>> /\ Frame.type = "Code"
        /\ secondary' = handle_exception.secondary
        /\ UNCHANGED <<capacity, state, result, thrown, caught, during, leftover, swallowed>>
    BY DEF UnwindCode
  <1>2. /\ frames \in Seq(FrameRecords) /\ Depth \in Nat \ {0} /\ Frame \in FrameRecords
        /\ \A i \in 1 .. Depth : i = Depth \/ i \in 1 .. (Depth - 1)
        /\ Depth \in 1 .. Depth /\ \A i \in 1 .. (Depth - 1) : i \in 1 .. Depth /\ i # Depth
    BY <1>1, TopFrame DEF LayoutInv, FramesOK
  <1>3. flying \in Exceptions /\ state = "Running" /\ result = 0
    BY <1>1 DEF LayoutInv, TypeOK, Exceptions, PanicInv, PanicStates
  <1>4. /\ HandlersNested(frames, Witnessed) /\ ThrownAfter(frames, flying, Witnessed)
        /\ ExceptionsAccounted /\ SecondaryJustified
    BY DEF PanicInv
  \* The exception that is handled next, and what becomes of the other one.
  <1>5. /\ e \in Exceptions
        /\ ~Frame.unwinding => e = flying /\ secondary' = secondary /\ Frame.exception = 0
        /\ Frame.unwinding =>
                e = Frame.exception /\ secondary' = secondary \cup {<<Frame.exception, flying>>}
    <2>1. ~Frame.unwinding => Frame.exception = 0
      BY <1>2, <1>4 DEF HandlersNested, KeepsOK, Frame, Depth
    <2>2. Frame.unwinding => Frame.exception \in Exceptions
      BY <1>1, TopFrame
    <2> QED BY <1>e, <1>1, <1>3, <2>1, <2>2 DEF handle_exception
  <1>6. \A i \in 1 .. (Depth - 1) : Handles(frames[i]) => Before(frames[i].exception, e, Witnessed)
    <2>1. CASE Frame.unwinding
      <3>1. Handles(frames[Depth])
        BY <1>1, <2>1 DEF Handles, Frame
      <3>2. \A i \in 1 .. (Depth - 1) :
                Handles(frames[i]) => Before(frames[i].exception, frames[Depth].exception, Witnessed)
        BY <1>2, <1>4, <3>1 DEF HandlersNested, Depth
      <3> QED BY <1>5, <2>1, <3>2 DEF Frame
    <2>2. CASE ~Frame.unwinding
      BY <1>1, <1>2, <1>4, <1>5, <2>2 DEF ThrownAfter, Depth
    <2> QED BY <2>1, <2>2
  <1>7. SecondaryJustified'
    <2>1. \A f, g \in Exceptions : <<f, g>> \in secondary /\ f # g => f \in Witnessed'[g]
      BY <1>1, <1>4, SameWitnesses, SecondaryWitnessed
    <2>2. Frame.unwinding => Before(Frame.exception, flying, Witnessed)
      BY <1>1, <1>2, <1>4 DEF ThrownAfter, Handles, Frame, Depth
    <2>3. \A f, g \in Exceptions : <<f, g>> \in secondary' =>
            <<f, g>> \in secondary \/ (Frame.unwinding /\ f = Frame.exception /\ g = flying)
      BY <1>5
    <2>4. \A f, g \in Exceptions : <<f, g>> \in secondary' /\ f # g => f \in Witnessed'[g]
      BY <1>1, <2>1, <2>2, <2>3, SameWitnesses DEF Before
    <2> QED BY <2>4 DEF SecondaryJustified, Witnessed
  <1>8. ASSUME Kept(e)' \/ flying' = e,
               \A x \in Exceptions : Kept(x) => Kept(x)' \/ x = Frame.exception
        PROVE  ExceptionsAccounted'
    <2>1. ASSUME NEW x \in Exceptions, x = flying \/ Kept(x) \/ x = result
          PROVE  Found(x)'
      <3>0. x # 0
        BY DEF Exceptions
      <3>1. CASE x = e
        BY <1>8, <3>1 DEF Found
      <3>2. CASE x = flying /\ x # e
        BY <1>5, <3>2 DEF Found
      <3>3. CASE Kept(x) /\ x # e
        BY <1>5, <1>8, <3>0, <3>3 DEF Found
      <3>4. CASE x = result
        BY <1>3, <3>0, <3>4
      <3> QED BY <2>1, <3>1, <3>2, <3>3, <3>4
    <2>2. secondary \subseteq secondary'
      BY <1>5
    <2> QED BY <1>1, <1>4, <2>1, <2>2, Accounting
  <1>9. PanicStates'
    BY <1>1, <1>3 DEF PanicStates
  <1>10. CASE Frame.defers > 0
    <2> DEFINE f == [Frame EXCEPT !.defers = Frame.defers - 1, !.outer = Frame.defers - 1,
                                 !.unwinding = TRUE, !.handling = TRUE, !.exception = e]
    <2>1. flying' = 0 /\ frames' = [frames EXCEPT ![Len(frames)] = f]
      BY <1>e, <1>10 DEF UnwindCode, Depth
    <2>2. Frame.defers - 1 \in Nat /\ e \in 0 .. MaxThrown
      BY <1>2, <1>5, <1>10 DEF FrameRecords, Exceptions
    <2>3. f \in FrameRecords /\ f.type = "Code" /\ f.unwinding /\ f.exception = e
      BY <1>1, <1>2, <2>2 DEF FrameRecords
    <2> HIDE DEF f
    <2>4. KeepsOK(f) /\ ~HasCaught(f)
      BY <2>3 DEF KeepsOK, HasCaught
    <2>5. Len(frames) > 0
      BY <1>2 DEF Depth
    <2>6. /\ HandlersNested(frames', Witnessed)
          /\ Len(frames') = Len(frames) /\ frames'[Len(frames)] = f
          /\ \A i \in 1 .. (Len(frames) - 1) : frames'[i] = frames[i]
      <3>1. Handles(f) => \A i \in 1 .. (Len(frames) - 1) :
                            Handles(frames[i]) => Before(frames[i].exception, f.exception, Witnessed)
        BY <1>6, <2>3 DEF Depth
      <3>2. frames' = [frames EXCEPT ![Len(frames)] = f]
        BY <2>1
      <3>3. /\ HandlersNested([frames EXCEPT ![Len(frames)] = f], Witnessed)
            /\ Len([frames EXCEPT ![Len(frames)] = f]) = Len(frames)
            /\ [frames EXCEPT ![Len(frames)] = f][Len(frames)] = f
            /\ \A i \in 1 .. (Len(frames) - 1) : [frames EXCEPT ![Len(frames)] = f][i] = frames[i]
        BY <1>2, <1>4, <2>3, <2>4, <2>5, <3>1, ChangeHandlers, Zenon
      <3> QED BY <3>2, <3>3, Zenon
    <2>7. HandlersNested(frames, Witnessed)' /\ ThrownAfter(frames, flying, Witnessed)' /\ CatchDone(frames, flying)'
      BY SameWitnesses, <1>1, <2>1, <2>4, <2>6 DEF ThrownAfter, CatchDone
    <2>8. Kept(e)' /\ \A x \in Exceptions : Kept(x) => Kept(x)' \/ x = Frame.exception
      BY <1>2, <2>3, <2>6 DEF Kept, Frame, Depth
    <2> QED BY <1>7, <1>8, <1>9, <2>7, <2>8 DEF PanicInv
  <1>11. CASE ~(Frame.defers > 0)
    <2>1. flying' = e /\ frames' = SubSeq(frames, 1, Depth - 1)
      BY <1>e, <1>11 DEF UnwindCode, pop_frame
    <2>2. /\ HandlersNested(frames', Witnessed) /\ CatchDone(frames', e)
          /\ \A i \in 1 .. Len(frames') : i \in 1 .. (Depth - 1) /\ frames'[i] = frames[i]
          /\ \A x \in Exceptions : Kept(x) => Kept(x)' \/ x = Frame.exception
      BY <1>1, <2>1, WithoutTop
    <2>3. ThrownAfter(frames', e, Witnessed)
      BY <1>6, <2>2 DEF ThrownAfter
    <2>4. HandlersNested(frames, Witnessed)' /\ ThrownAfter(frames, flying, Witnessed)' /\ CatchDone(frames, flying)'
      BY SameWitnesses, <1>1, <2>1, <2>2, <2>3
    <2> QED BY <1>7, <1>8, <1>9, <2>1, <2>2, <2>4 DEF PanicInv
  <1> QED BY <1>10, <1>11

LEMMA UnwindPanic ==
    ASSUME LayoutInv, SlotInv, PanicInv, Unwind
    PROVE  PanicInv'
  <1>1. flying # 0 /\ flying \in Exceptions /\ state = "Running" /\ result = 0
    <2>1. flying # 0
      BY DEF Unwind, UnwindCode, UnwindResumable, UnwindCatch, UnwindDone
    <2> QED BY <2>1 DEF LayoutInv, TypeOK, Exceptions, PanicInv, PanicStates
  <1>2. /\ HandlersNested(frames, Witnessed) /\ ThrownAfter(frames, flying, Witnessed)
        /\ CatchDone(frames, flying) /\ ExceptionsAccounted /\ SecondaryJustified
    BY DEF PanicInv
  <1>3. \A e \in Exceptions : e # 0
    BY DEF Exceptions
  <1>4. CASE UnwindResumable
    <2>1. /\ frames # <<>> /\ Frame.type = "Resumable" /\ frames' = SubSeq(frames, 1, Depth - 1)
          /\ UNCHANGED panics /\ state' = state
      BY <1>4 DEF UnwindResumable, pop_frame
    <2>2. Frame.exception = 0
      <3>1. Depth \in 1 .. Len(frames)
        BY <2>1, TopFrame DEF Depth
      <3> QED BY <1>2, <2>1, <3>1 DEF HandlersNested, KeepsOK, Frame, Depth
    <2>3. /\ HandlersNested(frames', Witnessed) /\ CatchDone(frames', flying)
          /\ ThrownAfter(frames', flying, Witnessed)
          /\ \A e \in Exceptions : Kept(e) => Kept(e)' \/ e = Frame.exception
      BY <1>2, <2>1, WithoutTop
    <2>4. HandlersNested(frames, Witnessed)' /\ ThrownAfter(frames, flying, Witnessed)' /\ CatchDone(frames, flying)'
      BY SameWitnesses, <2>1, <2>3
    <2>5. ExceptionsAccounted'
      <3>1. \A e \in Exceptions : e = flying \/ Kept(e) \/ e = result => Found(e)'
        BY <1>3, <2>1, <2>2, <2>3 DEF Found
      <3> QED BY <1>2, <2>1, <3>1, Accounting
    <2>6. SecondaryJustified' /\ PanicStates'
      BY <1>1, <1>2, <2>1 DEF SecondaryJustified, PanicStates
    <2> QED BY <2>4, <2>5, <2>6 DEF PanicInv
  <1>5. CASE UnwindCatch
    <2> DEFINE f == [Frame EXCEPT !.unwinding = TRUE, !.exception = flying]
    <2>1. /\ frames # <<>> /\ Frame.type = "Catch" /\ flying' = 0
          /\ UNCHANGED <<top, capacity, state, result, secondary, thrown, caught, during, leftover, swallowed>>
      BY <1>5 DEF UnwindCatch
    <2>2. /\ frames \in Seq(FrameRecords) /\ Len(frames) \in Nat \ {0} /\ Frame \in FrameRecords
          /\ \A i \in 1 .. Len(frames) : i = Len(frames) \/ i \in 1 .. (Len(frames) - 1)
          /\ \A i \in 1 .. (Len(frames) - 1) : i \in 1 .. Len(frames)
          /\ Len(frames) > 0
      BY <2>1, TopFrame DEF LayoutInv, FramesOK, Depth
    \* It has called already, but it does not have its result yet.
    <2>3. Frame.started /\ Frame.exception = 0 /\ Frame.defers = 0
      <3>1. Frame.started
        BY <1>1, <2>1 DEF SlotInv, TopSlotOK, Frame, Depth
      <3>2. ~Frame.unwinding
        BY <1>1, <1>2, <2>1, <2>2 DEF CatchDone, HasCaught, Frame, Depth
      <3>3. KeepsOK(Frame)
        BY <1>2, <2>2 DEF HandlersNested, Frame, Depth
      <3> QED BY <2>1, <3>1, <3>2, <3>3 DEF KeepsOK
    <2>4. frames' = [frames EXCEPT ![Len(frames)] = f]
      BY <1>5, <2>1, BeforeStep DEF UnwindCatch, Frame, FramesOK, Depth
    <2>5. /\ f \in FrameRecords /\ f.type = "Catch" /\ f.unwinding /\ f.exception = flying /\ f.started
          /\ f.defers = Frame.defers
      BY <2>1, <2>2, <2>3 DEF FrameRecords, LayoutInv, TypeOK
    <2> HIDE DEF f
    <2>6. KeepsOK(f) /\ ~Handles(f)
      BY <2>3, <2>5 DEF KeepsOK, Handles
    <2>7. /\ HandlersNested([frames EXCEPT ![Len(frames)] = f], Witnessed)
          /\ Len([frames EXCEPT ![Len(frames)] = f]) = Len(frames)
          /\ [frames EXCEPT ![Len(frames)] = f][Len(frames)] = f
          /\ \A i \in 1 .. (Len(frames) - 1) : [frames EXCEPT ![Len(frames)] = f][i] = frames[i]
      BY <1>2, <2>2, <2>5, <2>6, ChangeHandlers, Zenon
    <2>8. /\ HandlersNested(frames', Witnessed)
          /\ Len(frames') = Len(frames) /\ frames'[Len(frames)] = f
          /\ \A i \in 1 .. (Len(frames) - 1) : frames'[i] = frames[i]
      BY <2>4, <2>7, Zenon
    <2>9. HandlersNested(frames, Witnessed)' /\ ThrownAfter(frames, flying, Witnessed)' /\ CatchDone(frames, flying)'
      BY SameWitnesses, <2>1, <2>5, <2>8 DEF ThrownAfter, CatchDone
    <2>10. ExceptionsAccounted'
      <3>1. \A e \in Exceptions : Kept(e) => Kept(e)' \/ e = Frame.exception
        BY <2>2, <2>8 DEF Kept, Frame, Depth
      <3>2. ASSUME NEW e, e = flying
            PROVE  Kept(e)'
        BY <2>2, <2>5, <2>8, <3>2 DEF Kept, Depth
      <3>3. \A e \in Exceptions : e = flying \/ Kept(e) \/ e = result => Found(e)'
        BY <1>1, <1>3, <2>3, <3>1, <3>2 DEF Found
      <3> QED BY <1>2, <2>1, <3>3, Accounting
    <2>11. SecondaryJustified' /\ PanicStates'
      BY <1>1, <1>2, <2>1 DEF SecondaryJustified, PanicStates
    <2> QED BY <2>9, <2>10, <2>11 DEF PanicInv
  <1>6. CASE UnwindDone
    <2>1. /\ frames' = frames /\ result' = flying /\ flying' = 0 /\ state' = "Done"
          /\ UNCHANGED <<secondary, thrown, caught, during, leftover, swallowed>>
      BY <1>6 DEF UnwindDone
    <2>2. HandlersNested(frames, Witnessed)' /\ ThrownAfter(frames, flying, Witnessed)' /\ CatchDone(frames, flying)'
      BY SameWitnesses, <1>2, <2>1 DEF ThrownAfter, CatchDone
    <2>3. ExceptionsAccounted'
      <3>1. \A e \in Exceptions : Kept(e) => Kept(e)'
        BY <2>1 DEF Kept, Depth
      <3>2. \A e \in Exceptions : e = flying \/ Kept(e) \/ e = result => Found(e)'
        BY <1>1, <1>3, <2>1, <3>1 DEF Found
      <3> QED BY <1>2, <2>1, <3>2, Accounting
    <2>4. SecondaryJustified' /\ PanicStates'
      BY <1>2, <2>1 DEF SecondaryJustified, PanicStates
    <2> QED BY <2>2, <2>3, <2>4 DEF PanicInv
  <1> QED BY <1>4, <1>5, <1>6, UnwindCodePanic DEF Unwind

LEMMA StepPanic ==
    ASSUME LayoutInv, SlotInv, PanicInv, [Next]_vars
    PROVE  PanicInv'
  <1>0. LayoutInv'
    BY StepInv
  <1>1. ASSUME NEW fn \in Functions, NEW argc \in 0 .. MaxArgs, Start(fn, argc)
        PROVE  PanicInv'
    <2>1. state = "Started" /\ frames = <<>> /\ push_args_and_enter(0, fn, argc)
      BY <1>1 DEF Start, LayoutInv
    <2>2. flying = 0 /\ ~(Depth > 0) /\ frames' \in Seq(FrameRecords)
      BY <1>0, <2>1 DEF PanicInv, PanicStates, Depth, LayoutInv, FramesOK
    <2> QED BY <2>1, <2>2, PushArgsPanic
  <1>2. CASE UNCHANGED vars
    BY <1>2, SameWitnesses DEF vars, PanicInv, PanicStates, ExceptionsAccounted, SecondaryJustified, Depth
  <1> QED BY <1>0, <1>1, <1>2, ScriptPanic, NativePanicked, CatchPanicked, UnwindPanic DEF Next

\* While a panic is in flight, frames are removed by Interpreter::unwind only.
LEMMA StepStops ==
    ASSUME LayoutInv, PanicInv, [Next]_vars, flying # 0, Len(frames') < Depth
    PROVE  Frame.type # "Catch" /\ Frame.defers = 0
  <1>1. state = "Running"
    BY DEF PanicInv, PanicStates
  <1>2. Len(frames) \in Nat /\ Depth = Len(frames)
    BY LenProperties DEF LayoutInv, FramesOK, Depth
  <1>3. Unwind
    <2>1. ~UNCHANGED vars
      BY <1>2 DEF vars
    <2>2. ~Script /\ ~CatchPanic
      BY DEF Script, Push, Throw, Return, Rethrow, Defer, ScopeExit, LeaveHandler, Pop, Call,
             CallMethod, CatchPanic, CatchReturn, CatchCall, Runs
    <2>3. ~Native
      BY <1>1 DEF Native, NativeContinue, NativeYield, Resume, NativeReturn, NativeInvoke, NativePanic, Runs
    <2>4. ~\E fn \in Functions, argc \in 0 .. MaxArgs : Start(fn, argc)
      BY <1>1 DEF Start
    <2> QED BY <2>1, <2>2, <2>3, <2>4 DEF Next
  <1>4. CASE UnwindCode
    <2>1. Frame.type = "Code" /\ Frame \in FrameRecords
      BY <1>4, TopFrame DEF UnwindCode
    <2>2. ~(Frame.defers > 0)
      <3>1. SUFFICES ASSUME Frame.defers > 0
                     PROVE  Len(frames') = Len(frames)
        BY <1>2
      <3>2. PICK f : frames' = [frames EXCEPT ![Depth] = f]
        BY <1>4, <3>1 DEF UnwindCode
      <3> QED BY <3>2, <1>2 DEF LayoutInv, FramesOK
    <2> QED BY <2>1, <2>2 DEF FrameRecords
  <1>5. CASE UnwindResumable
    <2>1. Frame.type = "Resumable" /\ Depth \in 1 .. Len(frames)
      BY <1>5, TopFrame DEF UnwindResumable, Depth
    <2>2. KeepsOK(Frame)
      BY <2>1 DEF PanicInv, HandlersNested, Frame
    <2> QED BY <2>1, <2>2 DEF KeepsOK
  <1>6. CASE UnwindCatch
    <2>1. Len(frames') = Len(frames)
      BY <1>6 DEF UnwindCatch, LayoutInv, FramesOK
    <2> QED BY <1>2, <2>1
  <1>7. CASE UnwindDone
    BY <1>2, <1>7 DEF UnwindDone
  <1> QED BY <1>3, <1>4, <1>5, <1>6, <1>7 DEF Unwind

\* Unwinding executes every handler that covers a call, before it leaves the function, and stops at
\* catch_panic; a thrown exception is never forgotten; and a secondary exception is the primary one
\* itself, at the end of its handler, or one that was thrown while the primary one was handled or,
\* the handler left by break or continue, still marked as handled (Interpreter::unwind and
\* handle_exception).
THEOREM PanicsHandledCorrect == Spec => PanicsHandled
  <1> DEFINE Inv == LayoutInv /\ SlotInv /\ PanicInv
  <1>1. Init => Inv
    <2> SUFFICES ASSUME Init
                 PROVE  SlotInv /\ PanicInv
      BY InitInv
    <2>1. Len(<<>>) = 0
      OBVIOUS
    <2>2. SlotInv
      BY <2>1 DEF Init, SlotInv, SlotsOK, TopSlotOK
    <2>3. PanicInv
      BY <2>1 DEF Init, PanicInv, HandlersNested, ThrownAfter, CatchDone, PanicStates,
                  ExceptionsAccounted, SecondaryJustified
    <2> QED BY <2>2, <2>3
  <1>2. Inv /\ [Next]_vars => Inv'
    <2>1. PanicInv => (state = "Started" => flying = 0)
      BY DEF PanicInv, PanicStates
    <2> QED BY <2>1, StepInv, StepSlots, StepPanic
  <1>3. Inv => ExceptionsAccounted /\ SecondaryJustified
    BY DEF PanicInv
  <1>4. Inv /\ [Next]_vars =>
            [flying # 0 /\ Len(frames') < Depth => Frame.type # "Catch" /\ Frame.defers = 0]_vars
    BY StepStops
  <1> HIDE DEF Inv
  <1> QED BY <1>1, <1>2, <1>3, <1>4, PTL DEF Spec, PanicsHandled, UnwindStopsAtHandlers
=============================================================================
