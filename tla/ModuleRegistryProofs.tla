------------------------ MODULE ModuleRegistryProofs ------------------------
(***************************************************************************)
(* Proofs about what happens to a module between the linker and its first  *)
(* instruction. Resolution: for any modules, any imports, any recursion    *)
(* limit and any initializers, including those that resolve other modules, *)
(* wait or fail. Verification: for any code and members, whether or not    *)
(* the compiler wrote them.                                                *)
(***************************************************************************)
EXTENDS ModuleRegistry, Bytecode, SequenceTheorems, WellFoundedInduction, TLAPS

FrameRecords == [module : Modules, state : States, next : Nat]
MemberRecords == [name : Names, linked : BOOLEAN]

\* An import that is linked is also initialized, or has an excuse.
Excused(m, j) ==
    members[m][j].name \in initialized \/ <<m, j>> \in dangling \/ m \in reentered

\* A frame counts from the first member of its module to the end of the members.
\* The members it has passed are linked and, but for the one whose module is
\* being resolved in the frame above, initialized or excused.
FrameOK(f, above) ==
    /\ f \in FrameRecords
    /\ f.next \in 1 .. Len(members[f.module]) + 1
    /\ f.state = "Enter" => f.next = 1
    /\ \A x \in above :
          /\ f.state = "Dependencies" /\ f.next > 1
          /\ members[f.module][f.next - 1].name = x /\ members[f.module][f.next - 1].linked
    /\ f.state # "Enter" =>
          \A j \in DOMAIN members[f.module] : j < f.next =>
              /\ members[f.module][j].linked
              /\ Excused(f.module, j) \/ (above # {} /\ j = f.next - 1)
    /\ f.state \in {"Init", "Exit"} => f.next > Len(members[f.module])
    /\ f.state = "Exit" => f.module \in initialized
    /\ f.module \in initialized =>
          f.state = "Exit" \/ (f.module \in reentered /\ ~initializer[f.module])

\* The module of the frame above, if there is one.
Above(frames, i) == IF i < Len(frames) THEN {frames[i + 1].module} ELSE {}
FramesOK(frames) ==
    /\ frames \in Seq(FrameRecords) /\ Len(frames) <= MaxStack
    /\ \A i \in 1 .. Len(frames) : FrameOK(frames[i], Above(frames, i))

\* A frame has passed member j of module m.
Held(frames, m, j) ==
    \E i \in DOMAIN frames :
        frames[i].module = m /\ frames[i].state # "Enter" /\ j < frames[i].next

\* Only a frame links members; a resolution that fails leaves an excuse.
LinkedByFrame ==
    \A m \in Modules \ initialized : \A j \in DOMAIN members[m] :
        members[m][j].linked => Excused(m, j) \/ Held(stack, m, j) \/ Held(outer, m, j)

\* The resolution that waits runs the initializer of the module on top.
OuterWaits ==
    outer # <<>> =>
        /\ running
        /\ outer[Len(outer)].state = "Init" /\ initializer[outer[Len(outer)].module]

\* The modules on both stacks are known.
SharedReentered ==
    \A i \in DOMAIN stack :
        stack[i].state # "Enter" /\ stack[i].module \in Entered(outer) =>
            stack[i].module \in reentered

\* What is not about frames.
LinkingOK ==
    /\ registered \subseteq Modules /\ initialized \subseteq Modules
    /\ members \in [Modules -> Seq(MemberRecords)]
    /\ initializer \in [Modules -> BOOLEAN]
    /\ dangling \subseteq Modules \X Nat /\ reentered \subseteq Modules
ActiveOK ==
    /\ DOMAIN active \subseteq Modules /\ \A m \in DOMAIN active : active[m] \in Nat
    /\ ActiveAre(stack, active) /\ ActiveAre(outer, outer_active)
CountsOK ==
    /\ running \in BOOLEAN /\ alive \in [Modules -> Nat] /\ returned \in [Modules -> Nat]
    /\ failures \in 0 .. MaxFailures /\ outlived \subseteq Modules
    /\ running /\ stack # <<>> => failures < MaxFailures
    /\ \A m \in Modules : alive[m] > 0 => m \in outlived

\* The inductive invariant of the resolution.
RegistryInv ==
    /\ LinkingOK /\ CountsOK /\ ActiveOK
    /\ FramesOK(stack) /\ FramesOK(outer)
    /\ OuterWaits /\ SharedReentered /\ LinkedByFrame
    /\ reported \in Seq(Modules) /\ CycleIsReal
    /\ ImportsFirst /\ InitializedOnce

-----------------------------------------------------------------------------
(* Frames and members. *)

\* What the types say of single members.
LEMMA MemberTypes ==
    ASSUME LinkingOK, NEW m \in Modules
    PROVE  /\ members[m] \in Seq(MemberRecords) /\ Len(members[m]) \in Nat
           /\ DOMAIN members[m] = 1 .. Len(members[m])
           /\ \A j \in DOMAIN members[m] :
                 /\ members[m][j] \in MemberRecords
                 /\ members[m][j].linked \in BOOLEAN /\ members[m][j].name \in Names
  <1>1. members[m] \in Seq(MemberRecords)
    BY DEF LinkingOK
  <1>2. Len(members[m]) \in Nat /\ DOMAIN members[m] = 1 .. Len(members[m])
    BY <1>1, LenProperties
  <1>3. \A j \in DOMAIN members[m] : members[m][j] \in MemberRecords
    BY <1>1, <1>2, ElementOfSeq
  <1> QED BY <1>1, <1>2, <1>3 DEF MemberRecords

\* A sequence of frames and its elements.
LEMMA FrameTypes ==
    ASSUME NEW F, F \in Seq(FrameRecords)
    PROVE  /\ Len(F) \in Nat /\ DOMAIN F = 1 .. Len(F)
           /\ F # <<>> => Len(F) \in Nat \ {0} /\ Len(F) \in 1 .. Len(F)
           /\ \A i \in 1 .. Len(F) :
                 /\ F[i] \in FrameRecords /\ F[i].module \in Modules
                 /\ F[i].state \in States /\ F[i].next \in Nat
  <1>1. Len(F) \in Nat /\ DOMAIN F = 1 .. Len(F)
    BY LenProperties
  <1>2. \A i \in 1 .. Len(F) : F[i] \in FrameRecords
    BY ElementOfSeq
  <1>3. F # <<>> => Len(F) # 0
    BY EmptySeq
  <1> QED BY <1>1, <1>2, <1>3 DEF FrameRecords

\* Links, flags and excuses are only added.
Grows ==
    /\ LinkingOK' /\ initializer' = initializer /\ initialized \subseteq initialized'
    /\ dangling \subseteq dangling' /\ reentered \subseteq reentered'
    /\ \A m \in Modules :
          /\ Len(members'[m]) = Len(members[m]) /\ DOMAIN members'[m] = DOMAIN members[m]
          /\ \A j \in DOMAIN members[m] :
                /\ members'[m][j].name = members[m][j].name
                /\ members[m][j].linked => members'[m][j].linked

LEMMA ExcuseKept ==
    ASSUME Grows, NEW m \in Modules, NEW j \in DOMAIN members[m], Excused(m, j)
    PROVE  Excused(m, j)'
  BY DEF Grows, Excused

\* A frame stays as it should be when its module is not the one that is initialized.
LEMMA FrameKept ==
    ASSUME LinkingOK, Grows, NEW f, NEW above, FrameOK(f, above),
           f.module \in initialized' \ initialized =>
               f.module \in reentered' /\ ~initializer[f.module]
    PROVE  FrameOK(f, above)'
  <1> DEFINE m == f.module
  <1>1. f \in FrameRecords /\ m \in Modules /\ f.next \in Nat
    BY DEF FrameOK, FrameRecords
  <1>2. /\ Len(members[m]) \in Nat /\ DOMAIN members[m] = 1 .. Len(members[m])
        /\ Len(members'[m]) = Len(members[m]) /\ DOMAIN members'[m] = DOMAIN members[m]
        /\ \A j \in DOMAIN members[m] :
              /\ members'[m][j].name = members[m][j].name
              /\ members[m][j].linked => members'[m][j].linked
              /\ Excused(m, j) => Excused(m, j)'
    BY <1>1, MemberTypes, ExcuseKept DEF Grows
  <1>3. ASSUME NEW x \in above
        PROVE  /\ f.state = "Dependencies" /\ f.next > 1
               /\ members'[m][f.next - 1].name = x /\ members'[m][f.next - 1].linked
    <2>1. /\ f.state = "Dependencies" /\ f.next > 1 /\ f.next \in 1 .. Len(members[m]) + 1
          /\ members[m][f.next - 1].name = x /\ members[m][f.next - 1].linked
      BY <1>3 DEF FrameOK
    <2>2. f.next - 1 \in DOMAIN members[m]
      BY <1>1, <1>2, <2>1
    <2> QED BY <1>2, <2>1, <2>2
  <1>4. ASSUME f.state # "Enter", NEW j \in DOMAIN members'[m], j < f.next
        PROVE  members'[m][j].linked /\ (Excused(m, j)' \/ (above # {} /\ j = f.next - 1))
    <2>1. j \in DOMAIN members[m]
      BY <1>2
    <2>2. members[m][j].linked /\ (Excused(m, j) \/ (above # {} /\ j = f.next - 1))
      BY <1>4, <2>1 DEF FrameOK
    <2> QED BY <1>2, <2>1, <2>2
  <1>5. /\ f.next \in 1 .. Len(members'[m]) + 1
        /\ f.state = "Enter" => f.next = 1
        /\ f.state \in {"Init", "Exit"} => f.next > Len(members'[m])
    BY <1>2 DEF FrameOK
  <1>6. /\ f.state = "Exit" => f.module \in initialized'
        /\ f.module \in initialized' =>
              f.state = "Exit" \/ (f.module \in reentered' /\ ~initializer'[f.module])
    BY DEF FrameOK, Grows
  <1> QED BY <1>1, <1>3, <1>4, <1>5, <1>6 DEF FrameOK

\* All frames stay as they should be.
LEMMA FramesKept ==
    ASSUME LinkingOK, Grows, NEW F, FramesOK(F),
           \A x \in initialized' \ initialized :
               x \in Entered(F) => x \in reentered' /\ ~initializer[x]
    PROVE  FramesOK(F)'
  <1>1. DOMAIN F = 1 .. Len(F)
    BY FrameTypes DEF FramesOK
  <1>2. ASSUME NEW i \in 1 .. Len(F)
        PROVE  FrameOK(F[i], Above(F, i))'
    <2>1. FrameOK(F[i], Above(F, i)) /\ F[i].module \in Entered(F)
      BY <1>1 DEF FramesOK, Entered
    <2>2. PICK f, above : f = F[i] /\ above = Above(F, i)
      OBVIOUS
    <2>3. FrameOK(f, above)'
      BY <2>1, <2>2, FrameKept
    <2>4. Above(F, i)' = above
      BY <2>2 DEF Above
    <2> QED BY <2>2, <2>3, <2>4
  <1> QED BY <1>2 DEF FramesOK

\* The frames of a resolution that fails leave excuses for what they have linked.
LEMMA Dropped ==
    ASSUME LinkingOK, Grows, NEW F, FramesOK(F), Pending(F) \subseteq dangling',
           NEW m \in Modules, NEW j \in DOMAIN members[m], Held(F, m, j)
    PROVE  Excused(m, j)'
  <1>1. PICK i \in DOMAIN F : F[i].module = m /\ F[i].state # "Enter" /\ j < F[i].next
    BY DEF Held
  <1>2. i \in 1 .. Len(F) /\ Len(F) \in Nat /\ FrameOK(F[i], Above(F, i))
    BY FrameTypes DEF FramesOK
  <1>3. Excused(m, j) \/ (Above(F, i) # {} /\ j = F[i].next - 1)
    BY <1>1, <1>2 DEF FrameOK
  <1>4. CASE Excused(m, j)
    BY <1>4, ExcuseKept
  <1>5. CASE Above(F, i) # {} /\ j = F[i].next - 1
    <2>1. i \in 1 .. Len(F) - 1
      BY <1>2, <1>5 DEF Above
    <2>2. <<m, j>> \in Pending(F)
      BY <1>1, <1>5, <2>1 DEF Pending
    <2> QED BY <2>2 DEF Excused
  <1> QED BY <1>3, <1>4, <1>5

\* The links are pairs of a module and a number.
LEMMA PendingType ==
    ASSUME NEW F, FramesOK(F)
    PROVE  Pending(F) \subseteq Modules \X Nat
  <1> SUFFICES ASSUME NEW i \in 1 .. Len(F) - 1
               PROVE  F[i].module \in Modules /\ F[i].next - 1 \in Nat
    BY DEF Pending
  <1>1. i \in 1 .. Len(F) /\ F[i].module \in Modules /\ F[i].next \in Nat
    BY FrameTypes DEF FramesOK
  <1>2. F[i].next \in 1 .. Len(members[F[i].module]) + 1
    BY <1>1 DEF FramesOK, FrameOK
  <1> QED BY <1>1, <1>2

\* A cycle that was reported stays one.
LEMMA CycleKept ==
    ASSUME LinkingOK, Grows, reported \in Seq(Modules), CycleIsReal, reported' = reported
    PROVE  CycleIsReal'
  <1> SUFFICES ASSUME reported # <<>>
               PROVE  /\ Len(reported) > 1 /\ reported[1] = reported[Len(reported)]
                      /\ \A k \in 2 .. Len(reported) :
                            \E i \in DOMAIN members'[reported[k - 1]] :
                                members'[reported[k - 1]][i] = [name |-> reported[k], linked |-> TRUE]
    BY DEF CycleIsReal
  <1>1. Len(reported) > 1 /\ reported[1] = reported[Len(reported)] /\ Len(reported) \in Nat
    BY LenProperties DEF CycleIsReal
  <1>2. ASSUME NEW k \in 2 .. Len(reported)
        PROVE  \E i \in DOMAIN members'[reported[k - 1]] :
                   members'[reported[k - 1]][i] = [name |-> reported[k], linked |-> TRUE]
    <2>1. k - 1 \in 1 .. Len(reported) /\ reported[k - 1] \in Modules
      BY <1>1, ElementOfSeq
    <2>2. PICK i \in DOMAIN members[reported[k - 1]] :
                   members[reported[k - 1]][i] = [name |-> reported[k], linked |-> TRUE]
      BY <1>2 DEF CycleIsReal
    <2>3. /\ i \in DOMAIN members'[reported[k - 1]]
          /\ members'[reported[k - 1]][i].name = reported[k]
          /\ members'[reported[k - 1]][i].linked
      BY <2>1, <2>2 DEF Grows
    <2>4. members'[reported[k - 1]][i] \in MemberRecords
      <3>1. members' \in [Modules -> Seq(MemberRecords)]
        BY DEF Grows, LinkingOK
      <3>2. members'[reported[k - 1]] \in Seq(MemberRecords)
        BY <2>1, <3>1
      <3> QED BY <2>3, <3>2, LenProperties, ElementOfSeq
    <2>5. members'[reported[k - 1]][i] = [name |-> reported[k], linked |-> TRUE]
      BY <2>3, <2>4 DEF MemberRecords
    <2> QED BY <2>3, <2>5
  <1> QED BY <1>1, <1>2

\* What was initialized in order stays so.
LEMMA ImportsKept ==
    ASSUME LinkingOK, Grows, ImportsFirst, initialized' = initialized
    PROVE  ImportsFirst'
  <1> SUFFICES ASSUME NEW m \in initialized, NEW i \in DOMAIN members'[m]
               PROVE  /\ members'[m][i].linked
                      /\ \/ members'[m][i].name \in initialized \ {m}
                         \/ <<m, i>> \in dangling' \/ m \in reentered'
    BY DEF ImportsFirst
  <1>1. m \in Modules /\ i \in DOMAIN members[m]
    BY DEF LinkingOK, Grows
  <1>2. /\ members[m][i].linked
        /\ members[m][i].name \in initialized \ {m} \/ <<m, i>> \in dangling \/ m \in reentered
    BY <1>1 DEF ImportsFirst
  <1> QED BY <1>1, <1>2 DEF Grows

\* Nothing but excuses is added.
LEMMA ExcusesGrow ==
    ASSUME LinkingOK, LinkingOK', UNCHANGED <<members, initializer, initialized>>,
           dangling \subseteq dangling', reentered \subseteq reentered'
    PROVE  Grows
  BY DEF Grows

\* The frames that wait stay as they should be, unless a module of theirs is initialized.
LEMMA OuterKept ==
    ASSUME LinkingOK, Grows, FramesOK(outer), outer' = outer,
           \A x \in initialized' \ initialized :
               x \in Entered(outer) => x \in reentered' /\ ~initializer[x]
    PROVE  FramesOK(outer)'
  <1>1. PICK F : F = outer
    OBVIOUS
  <1>2. FramesOK(F)'
    <2>1. FramesOK(F)
      BY <1>1
    <2>2. \A x \in initialized' \ initialized :
              x \in Entered(F) => x \in reentered' /\ ~initializer[x]
      BY <1>1
    <2> QED BY <2>1, <2>2, FramesKept
  <1>3. outer' = F
    BY <1>1
  <1> QED BY <1>2, <1>3

LEMMA StackKept ==
    ASSUME LinkingOK, Grows, FramesOK(stack), stack' = stack, initialized' = initialized
    PROVE  FramesOK(stack)'
  <1>1. PICK F : F = stack
    OBVIOUS
  <1>2. FramesOK(F)'
    <2>1. FramesOK(F)
      BY <1>1
    <2> QED BY <2>1, FramesKept
  <1>3. stack' = F
    BY <1>1
  <1> QED BY <1>2, <1>3

\* No frame is needed for a link that has an excuse.
LEMMA LinkedKept ==
    ASSUME LinkingOK, Grows, LinkedByFrame,
           \A m \in Modules \ initialized' : \A j \in DOMAIN members[m] :
               \/ Held(stack, m, j) \/ Held(outer, m, j)
               \/ members'[m][j].linked /\ ~members[m][j].linked
               => Excused(m, j)' \/ Held(stack', m, j) \/ Held(outer', m, j)
    PROVE  LinkedByFrame'
  <1> SUFFICES ASSUME NEW m \in Modules \ initialized', NEW j \in DOMAIN members'[m],
                      members'[m][j].linked
               PROVE  Excused(m, j)' \/ Held(stack', m, j) \/ Held(outer', m, j)
    BY DEF LinkedByFrame
  <1>1. m \in Modules \ initialized /\ j \in DOMAIN members[m]
    BY DEF Grows
  <1>2. CASE members[m][j].linked
    <2>1. Excused(m, j) \/ Held(stack, m, j) \/ Held(outer, m, j)
      BY <1>1, <1>2 DEF LinkedByFrame
    <2>2. Excused(m, j) => Excused(m, j)'
      BY <1>1, ExcuseKept
    <2> QED BY <1>1, <2>1, <2>2
  <1>3. CASE ~members[m][j].linked
    BY <1>1, <1>3
  <1> QED BY <1>2, <1>3

\* A resolution that fails leaves nothing but what was linked and initialized.
LEMMA FailStep ==
    ASSUME RegistryInv, NEW links, links \subseteq Modules \X Nat, Fail(links),
           UNCHANGED <<registered, initializer, initialized, waiting, returned, reentered>>,
           outlived \subseteq outlived', CountsOK',
           reported' \in Seq(Modules), Grows => CycleIsReal',
           members' \in [Modules -> Seq(MemberRecords)],
           \A m \in Modules :
               /\ Len(members'[m]) = Len(members[m]) /\ DOMAIN members'[m] = DOMAIN members[m]
               /\ \A j \in DOMAIN members[m] :
                     /\ members'[m][j].name = members[m][j].name
                     /\ members[m][j].linked => members'[m][j].linked
                     /\ members'[m][j].linked => members[m][j].linked \/ <<m, j>> \in links
    PROVE  RegistryInv'
  <1> USE DEF RegistryInv
  <1>1. /\ stack' = <<>> /\ DOMAIN stack' = {} /\ Len(stack') = 0 /\ DOMAIN active' = {}
        /\ dangling' = dangling \cup Pending(stack) \cup links
    BY DEF Fail
  <1>2. LinkingOK'
    <2>1. Pending(stack) \subseteq Modules \X Nat
      <3>1. PICK F : F = stack
        OBVIOUS
      <3>2. FramesOK(F)
        BY <3>1
      <3>3. Pending(F) \subseteq Modules \X Nat
        BY <3>2, PendingType
      <3> QED BY <3>1, <3>3
    <2> QED BY <1>1, <2>1 DEF LinkingOK
  <1>3. Grows
    BY <1>1, <1>2 DEF Grows
  <1>4. outer' = outer /\ outer_active' = outer_active /\ running' = running
    BY DEF waiting
  <1>5. FramesOK(outer)'
    BY <1>3, <1>4, OuterKept
  <1>6. FramesOK(stack)'
    <2>1. stack' \in Seq(FrameRecords) /\ Len(stack') <= MaxStack
      BY <1>1, EmptySeq, RegistryAssumption
    <2> QED BY <1>1, <2>1 DEF FramesOK
  <1>7. ActiveOK' /\ OuterWaits' /\ SharedReentered'
    <2>1. ActiveAre(stack', active')
      BY <1>1 DEF ActiveAre
    <2>2. ActiveOK'
      BY <1>1, <1>4, <2>1 DEF ActiveOK, ActiveAre
    <2>3. OuterWaits'
      BY <1>4 DEF OuterWaits
    <2>4. SharedReentered'
      BY <1>1 DEF SharedReentered
    <2> QED BY <2>2, <2>3, <2>4
  <1>8. LinkedByFrame'
    <2> SUFFICES ASSUME NEW m \in Modules \ initialized', NEW j \in DOMAIN members[m],
                        \/ Held(stack, m, j) \/ Held(outer, m, j)
                        \/ members'[m][j].linked /\ ~members[m][j].linked
                 PROVE  Excused(m, j)' \/ Held(stack', m, j) \/ Held(outer', m, j)
      BY <1>3, LinkedKept
    <2>1. CASE Held(stack, m, j)
      <3>1. PICK F : F = stack
        OBVIOUS
      <3>2. FramesOK(F) /\ Pending(F) \subseteq dangling' /\ Held(F, m, j)
        BY <1>1, <2>1, <3>1
      <3> QED BY <1>3, <3>2, Dropped
    <2>2. CASE Held(outer, m, j)
      BY <1>4, <2>2
    <2>3. CASE members'[m][j].linked /\ ~members[m][j].linked
      BY <1>1, <2>3 DEF Excused
    <2> QED BY <2>1, <2>2, <2>3
  <1>9. ImportsFirst' /\ CycleIsReal'
    BY <1>3, ImportsKept
  <1>10. InitializedOnce'
    BY DEF InitializedOnce
  <1> QED BY <1>2, <1>5, <1>6, <1>7, <1>8, <1>9, <1>10

-----------------------------------------------------------------------------
(* The calls of the host and of the code that the loop runs. *)

\* Nothing that frames rest on changes.
LEMMA AsideStep ==
    ASSUME RegistryInv, registered' \subseteq Modules,
           UNCHANGED <<members, initializer, initialized, resolution, outer, outer_active, reported,
                       outlived, broken>>,
           CountsOK', OuterWaits', InitializedOnce'
    PROVE  RegistryInv'
  <1> USE DEF RegistryInv
  <1>1. stack' = stack /\ active' = active /\ dangling' = dangling /\ reentered' = reentered
    BY DEF resolution, broken
  <1>2. LinkingOK'
    BY <1>1 DEF LinkingOK
  <1>3. Grows
    BY <1>1, <1>2, ExcusesGrow
  <1>4. FramesOK(stack)' /\ FramesOK(outer)'
    BY <1>1, <1>3, OuterKept, StackKept
  <1>5. ActiveOK' /\ SharedReentered'
    BY <1>1 DEF ActiveOK, ActiveAre, SharedReentered
  <1>6. LinkedByFrame'
    BY <1>1, <1>3, LinkedKept
  <1>7. ImportsFirst' /\ CycleIsReal'
    BY <1>3, ImportsKept, CycleKept
  <1> QED BY <1>2, <1>4, <1>5, <1>6, <1>7

LEMMA AddModuleStep ==
    ASSUME RegistryInv, NEW m \in Modules, add_module(m)
    PROVE  RegistryInv'
  <1>1. /\ registered' \subseteq Modules /\ running' = running /\ outer' = outer /\ alive' = alive
        /\ returned' = returned /\ failures' = failures /\ outlived' = outlived /\ stack' = stack
        /\ UNCHANGED <<members, initializer, initialized, resolution, outer, outer_active, reported,
                       outlived, broken>>
    BY DEF add_module, RegistryInv, LinkingOK, waiting, past, resolution
  <1>2. CountsOK' /\ OuterWaits' /\ InitializedOnce'
    BY <1>1 DEF RegistryInv, CountsOK, OuterWaits, InitializedOnce
  <1> QED BY <1>1, <1>2, AsideStep

LEMMA LateStep ==
    ASSUME RegistryInv, NEW m \in Modules, NEW ok \in BOOLEAN, late(m, ok)
    PROVE  RegistryInv'
  <1>1. /\ registered' \subseteq Modules /\ running' = running /\ outer' = outer
        /\ failures' = failures /\ outlived' = outlived /\ stack' = stack
        /\ UNCHANGED <<members, initializer, initialized, resolution, outer, outer_active, reported,
                       outlived, broken>>
    BY DEF late, RegistryInv, LinkingOK, waiting, linking, resolution
  <1>2. /\ alive \in [Modules -> Nat] /\ returned \in [Modules -> Nat] /\ alive[m] > 0
        /\ alive' = [alive EXCEPT ![m] = @ - 1]
        /\ returned' = [returned EXCEPT ![m] = IF ok THEN @ + 1 ELSE @]
        /\ m \in outlived
    BY DEF late, RegistryInv, CountsOK
  <1>3. /\ alive' \in [Modules -> Nat] /\ returned' \in [Modules -> Nat]
        /\ \A x \in Modules : alive'[x] <= alive[x] /\ returned'[x] >= returned[x]
        /\ \A x \in Modules : x # m => returned'[x] = returned[x]
    BY <1>2
  <1>4. CountsOK'
    <2>1. \A x \in Modules : alive'[x] > 0 => alive[x] > 0
      BY <1>2, <1>3
    <2> QED BY <1>1, <1>3, <2>1 DEF RegistryInv, CountsOK
  <1>5. OuterWaits'
    BY <1>1 DEF RegistryInv, OuterWaits
  <1>6. InitializedOnce'
    <2>1. ASSUME NEW x \in Modules, NEW due \in {0, 1}, returned[x] >= due,
                 x \notin outlived => returned[x] = due
          PROVE  returned'[x] >= due /\ (x \notin outlived => returned'[x] = due)
      <3>1. returned[x] \in Nat /\ returned'[x] \in Nat /\ returned'[x] >= returned[x]
        BY <1>2, <1>3
      <3>2. x \notin outlived => returned'[x] = returned[x]
        BY <1>2, <1>3
      <3> QED BY <2>1, <3>1, <3>2
    <2> QED BY <1>1, <2>1 DEF RegistryInv, InitializedOnce
  <1> QED BY <1>1, <1>4, <1>5, <1>6, AsideStep

LEMMA RunReadyStep ==
    ASSUME RegistryInv, run_ready
    PROVE  RegistryInv'
  <1>1. /\ registered' \subseteq Modules /\ running' \in BOOLEAN /\ outer' = outer /\ alive' = alive
        /\ returned' = returned /\ failures' = failures /\ outlived' = outlived /\ stack' = stack
        /\ stack = <<>> /\ outer = <<>>
        /\ UNCHANGED <<members, initializer, initialized, resolution, outer, outer_active, reported,
                       outlived, broken>>
    BY DEF run_ready, RegistryInv, LinkingOK, linking, past, resolution
  <1>2. CountsOK' /\ OuterWaits' /\ InitializedOnce'
    BY <1>1 DEF RegistryInv, CountsOK, OuterWaits, InitializedOnce
  <1> QED BY <1>1, <1>2, AsideStep

LEMMA GetModuleStep ==
    ASSUME RegistryInv, NEW m \in Modules, get_module(m)
    PROVE  RegistryInv'
  <1> USE DEF RegistryInv
  <1>0. /\ stack = <<>> /\ (running => failures < MaxFailures) /\ reported' = <<>>
        /\ registered' = registered /\ members' = members /\ initializer' = initializer
        /\ initialized' = initialized /\ active' = active /\ running' = running /\ outer' = outer
        /\ outer_active' = outer_active /\ alive' = alive /\ failures' = failures
        /\ returned' = returned /\ outlived' = outlived /\ dangling' = dangling
        /\ reentered' = reentered
    BY DEF get_module, linking, waiting, past, broken
  <1>1. stack' = <<>> \/ (m \notin initialized /\ stack' = <<Frame(m)>>)
    BY DEF get_module
  <1>2. /\ Len(stack') \in {0, 1} /\ DOMAIN stack' = 1 .. Len(stack') /\ stack' \in Seq(FrameRecords)
        /\ \A i \in 1 .. Len(stack') :
              /\ i = 1 /\ m \notin initialized
              /\ stack'[1] = [module |-> m, state |-> "Enter", next |-> 1]
    <2>1. Frame(m) = [module |-> m, state |-> "Enter", next |-> 1] /\ Frame(m) \in FrameRecords
      BY DEF Frame, FrameRecords, States
    <2>2. CASE stack' = <<>>
      BY <2>2
    <2>3. CASE m \notin initialized /\ stack' = <<Frame(m)>>
      <3>1. Len(stack') = 1 /\ DOMAIN stack' = 1 .. 1 /\ stack'[1] = Frame(m)
        BY <2>3
      <3>2. stack' \in Seq(FrameRecords)
        BY <2>1, <2>3
      <3> QED BY <2>1, <2>3, <3>1, <3>2
    <2> QED BY <1>1, <2>2, <2>3
  <1>3. LinkingOK'
    BY <1>0 DEF LinkingOK
  <1>4. Grows
    BY <1>0, <1>3, ExcusesGrow
  <1>5. FramesOK(outer)'
    BY <1>0, <1>4, OuterKept
  <1>6. FramesOK(stack)'
    <2>1. Len(stack') <= MaxStack
      BY <1>2, RegistryAssumption
    <2>2. ASSUME NEW i \in 1 .. Len(stack')
          PROVE  FrameOK(stack[i], Above(stack, i))'
      <3>1. /\ i = 1 /\ m \notin initialized' /\ Above(stack, i)' = {}
            /\ stack'[i] = [module |-> m, state |-> "Enter", next |-> 1]
        BY <1>0, <1>2 DEF Above
      <3>2. Len(members'[m]) \in Nat
        BY <1>0, MemberTypes
      <3>3. /\ stack'[i].module = m /\ stack'[i].state = "Enter" /\ stack'[i].next = 1
            /\ stack'[i] \in FrameRecords
        BY <3>1 DEF FrameRecords, States
      <3>4. stack'[i].next \in 1 .. Len(members'[m]) + 1
        BY <3>2, <3>3
      <3> QED BY <3>1, <3>3, <3>4 DEF FrameOK
    <2> QED BY <1>2, <2>1, <2>2 DEF FramesOK
  <1>7. ActiveOK' /\ OuterWaits' /\ SharedReentered'
    <2>1. DOMAIN active = {}
      BY <1>0 DEF ActiveOK, ActiveAre
    <2>2. ActiveAre(stack', active')
      BY <1>0, <1>2, <2>1 DEF ActiveAre
    <2>3. ActiveOK'
      BY <1>0, <2>2 DEF ActiveOK, ActiveAre
    <2>4. OuterWaits'
      BY <1>0 DEF OuterWaits
    <2>5. SharedReentered'
      BY <1>2 DEF SharedReentered
    <2> QED BY <2>3, <2>4, <2>5
  <1>8. LinkedByFrame'
    <2>1. \A x, j : ~Held(stack, x, j)
      BY <1>0 DEF Held
    <2> QED BY <1>0, <1>4, <2>1, LinkedKept
  <1>9. ImportsFirst' /\ CycleIsReal' /\ reported' \in Seq(Modules)
    <2>1. CycleIsReal' /\ reported' \in Seq(Modules)
      BY <1>0, EmptySeq DEF CycleIsReal
    <2> QED BY <1>0, <1>4, <2>1, ImportsKept
  <1>10. InitializedOnce'
    BY <1>0 DEF InitializedOnce
  <1>11. CountsOK'
    BY <1>0 DEF CountsOK
  <1> QED BY <1>3, <1>5, <1>6, <1>7, <1>8, <1>9, <1>10, <1>11

-----------------------------------------------------------------------------
(* The frame on top. *)

LEMMA TopFrame ==
    ASSUME RegistryInv, stack # <<>>
    PROVE  /\ Len(stack) \in Nat \ {0} /\ DOMAIN stack = 1 .. Len(stack) /\ Len(stack) <= MaxStack
           /\ Len(stack) \in DOMAIN stack /\ stack \in Seq(FrameRecords)
           /\ Top = stack[Len(stack)] /\ FrameOK(Top, {})
           /\ Top \in FrameRecords /\ Top.module \in Modules /\ Top.next \in Nat \ {0}
           /\ Top.state \in States
           /\ Len(members[Top.module]) \in Nat
           /\ DOMAIN members[Top.module] = 1 .. Len(members[Top.module])
           /\ \A i \in 1 .. Len(stack) :
                 /\ stack[i] \in FrameRecords /\ stack[i].module \in Modules
                 /\ FrameOK(stack[i], Above(stack, i))
  <1>1. stack \in Seq(FrameRecords) /\ Len(stack) <= MaxStack
        /\ \A i \in 1 .. Len(stack) : FrameOK(stack[i], Above(stack, i))
    BY DEF RegistryInv, FramesOK
  <1>2. /\ Len(stack) \in Nat \ {0} /\ DOMAIN stack = 1 .. Len(stack) /\ Len(stack) \in 1 .. Len(stack)
        /\ \A i \in 1 .. Len(stack) :
              /\ stack[i] \in FrameRecords /\ stack[i].module \in Modules
              /\ stack[i].state \in States /\ stack[i].next \in Nat
    BY <1>1, FrameTypes
  <1>3. Top = stack[Len(stack)] /\ Above(stack, Len(stack)) = {}
    BY <1>2 DEF Top, Above
  <1>4. FrameOK(Top, {})
    BY <1>1, <1>2, <1>3
  <1>5. /\ Len(members[Top.module]) \in Nat
        /\ DOMAIN members[Top.module] = 1 .. Len(members[Top.module])
    BY <1>2, <1>3, MemberTypes DEF RegistryInv
  <1>6. Top.next # 0
    BY <1>4, <1>5 DEF FrameOK
  <1> QED BY <1>1, <1>2, <1>3, <1>4, <1>5, <1>6

\* All frames below the top wait for the module above them.
LEMMA BelowTop ==
    ASSUME RegistryInv, stack # <<>>, NEW i \in 1 .. Len(stack) - 1
    PROVE  /\ i \in 1 .. Len(stack) /\ i + 1 \in 1 .. Len(stack)
           /\ Above(stack, i) = {stack[i + 1].module}
           /\ stack[i].state = "Dependencies" /\ stack[i].next > 1
           /\ members[stack[i].module][stack[i].next - 1].name = stack[i + 1].module
           /\ members[stack[i].module][stack[i].next - 1].linked
  <1>1. Len(stack) \in Nat \ {0} /\ i \in 1 .. Len(stack) /\ i + 1 \in 1 .. Len(stack) /\ i < Len(stack)
    BY TopFrame
  <1>2. Above(stack, i) = {stack[i + 1].module} /\ FrameOK(stack[i], Above(stack, i))
    BY <1>1, TopFrame DEF Above
  <1> QED BY <1>1, <1>2 DEF FrameOK

\* A frame past Enter is the only one of its module.
LEMMA FramesDistinct ==
    ASSUME RegistryInv, stack # <<>>, NEW i \in DOMAIN stack, NEW j \in DOMAIN stack,
           stack[i].state # "Enter", stack[j].state # "Enter",
           stack[i].module = stack[j].module
    PROVE  i = j
  <1>1. i \in Nat /\ j \in Nat
    BY TopFrame
  <1>2. active[stack[i].module] = i - 1 /\ active[stack[j].module] = j - 1
    BY DEF RegistryInv, ActiveOK, ActiveAre
  <1> QED BY <1>1, <1>2

\* The frames below the top stay, and the new frames above them are as they should be.
LEMMA BelowKept ==
    ASSUME RegistryInv, stack # <<>>, Grows, NEW i \in 1 .. Len(stack) - 1,
           \A x \in initialized' \ initialized :
               x = stack[i].module => x \in reentered' /\ ~initializer[x],
           NEW f, f = stack[i], NEW above, above = {stack[i + 1].module}
    PROVE  FrameOK(f, above)'
  <1>1. FrameOK(f, above)
    BY BelowTop, TopFrame
  <1> QED BY <1>1, FrameKept DEF RegistryInv

LEMMA TopReplaced ==
    ASSUME RegistryInv, stack # <<>>, Grows, NEW g, g.module = Top.module, SetTop(g),
           FrameOK(g, {})',
           \A x \in initialized' \ initialized : \A i \in 1 .. Len(stack) - 1 :
               x = stack[i].module => x \in reentered' /\ ~initializer[x]
    PROVE  /\ FramesOK(stack)' /\ Len(stack') = Len(stack) /\ DOMAIN stack' = DOMAIN stack
           /\ \A i \in DOMAIN stack : stack'[i] = IF i = Len(stack) THEN g ELSE stack[i]
           /\ \A i \in DOMAIN stack : stack'[i].module = stack[i].module
  <1>1. g \in FrameRecords
    BY DEF FrameOK
  <1>2. /\ stack' \in Seq(FrameRecords) /\ Len(stack') = Len(stack) /\ DOMAIN stack' = DOMAIN stack
        /\ \A i \in DOMAIN stack : stack'[i] = IF i = Len(stack) THEN g ELSE stack[i]
    BY <1>1, TopFrame, ExceptSeq, LenProperties DEF SetTop
  <1>3. \A i \in DOMAIN stack : stack'[i].module = stack[i].module
    BY <1>2, TopFrame
  <1>4. ASSUME NEW i \in 1 .. Len(stack)
        PROVE  FrameOK(stack[i], Above(stack, i))'
    <2>1. CASE i = Len(stack)
      <3>1. stack'[i] = g /\ Above(stack, i)' = {}
        BY <1>2, <2>1, TopFrame DEF Above
      <3> QED BY <3>1
    <2>2. CASE i # Len(stack)
      <3>0. Len(stack) \in Nat \ {0}
        BY TopFrame
      <3>1. i \in 1 .. Len(stack) - 1 /\ i + 1 \in 1 .. Len(stack) /\ i < Len(stack)
        BY <2>2, <3>0
      <3>2. PICK f, above : f = stack[i] /\ above = {stack[i + 1].module}
        OBVIOUS
      <3>3. FrameOK(f, above)'
        BY <3>1, <3>2, BelowKept
      <3>4. stack'[i] = f /\ Above(stack, i)' = above
        BY <1>2, <1>3, <2>2, <3>1, <3>2, TopFrame DEF Above
      <3> QED BY <3>3, <3>4
    <2> QED BY <2>1, <2>2
  <1>5. FramesOK(stack)'
    BY <1>2, <1>4, TopFrame DEF FramesOK
  <1> QED BY <1>2, <1>3, <1>5

\* What the frames have passed they have still passed.
LEMMA HeldOn ==
    ASSUME RegistryInv, stack # <<>>, NEW g, g.module = Top.module, g.next \in Nat,
           g.next >= Top.next, Top.state # "Enter" => g.state # "Enter", DOMAIN stack \subseteq DOMAIN stack',
           \A i \in DOMAIN stack : stack'[i] = IF i = Len(stack) THEN g ELSE stack[i],
           NEW m \in Modules, NEW j \in DOMAIN members[m], Held(stack, m, j)
    PROVE  Held(stack', m, j)
  <1>1. PICK i \in DOMAIN stack : stack[i].module = m /\ stack[i].state # "Enter" /\ j < stack[i].next
    BY DEF Held
  <1>2. j \in Nat
    BY MemberTypes DEF RegistryInv
  <1>3. stack'[i].module = m /\ stack'[i].state # "Enter" /\ j < stack'[i].next
    <2>1. CASE i = Len(stack)
      <3>1. stack'[i] = g /\ stack[i] = Top /\ Top.next \in Nat
        BY <2>1, TopFrame
      <3>2. j < Top.next /\ Top.state # "Enter" /\ Top.module = m
        BY <1>1, <3>1
      <3> QED BY <1>2, <3>1, <3>2
    <2>2. CASE i # Len(stack)
      BY <1>1, <2>2
    <2> QED BY <2>1, <2>2
  <1> QED BY <1>1, <1>3 DEF Held

-----------------------------------------------------------------------------
(* Entering a module. *)

\* The frames of the module on top, from the first one to the top, are a cycle.
LEMMA CycleFound ==
    ASSUME RegistryInv, stack # <<>>, Top.state = "Enter", Top.module \in DOMAIN active
    PROVE  /\ Cycle \in Seq(Modules) /\ Len(Cycle) > 1 /\ Cycle[1] = Cycle[Len(Cycle)]
           /\ \A k \in 2 .. Len(Cycle) :
                 \E i \in DOMAIN members[Cycle[k - 1]] :
                     members[Cycle[k - 1]][i] = [name |-> Cycle[k], linked |-> TRUE]
  <1> DEFINE n == Len(stack)
             a == active[Top.module]
  <1>1. n \in Nat \ {0} /\ DOMAIN stack = 1 .. n /\ Top = stack[n]
    BY TopFrame
  <1>2. PICK i \in DOMAIN stack : stack[i].state # "Enter" /\ stack[i].module = Top.module
    BY DEF RegistryInv, ActiveOK, ActiveAre
  <1>3. a = i - 1 /\ i # n /\ i \in 1 .. n - 1
    <2>1. active[stack[i].module] = i - 1
      BY <1>2 DEF RegistryInv, ActiveOK, ActiveAre
    <2> QED BY <1>1, <1>2, <2>1
  <1> HIDE DEF n, a
  <1>4. Cycle = [k \in 1 .. n - a |-> stack[a + k].module]
    BY DEF Cycle, n, a
  <1>5. n - a \in Nat /\ n - a > 1 /\ a + 1 = i /\ a + (n - a) = n
    BY <1>1, <1>3
  <1>6. ASSUME NEW k \in 1 .. n - a
        PROVE  a + k \in 1 .. n /\ stack[a + k].module \in Modules /\ Cycle[k] = stack[a + k].module
    <2>1. a + k \in 1 .. n
      BY <1>1, <1>3
    <2> QED BY <1>4, <2>1, TopFrame DEF n
  <1>7. Cycle \in Seq(Modules) /\ Len(Cycle) = n - a
    <2>1. Cycle \in [1 .. n - a -> Modules]
      BY <1>4, <1>6
    <2> QED BY <1>5, <2>1, SeqDef, LenProperties
  <1>8. Cycle[1] = Cycle[Len(Cycle)]
    <2>1. Cycle[1] = stack[i].module /\ Cycle[n - a] = stack[n].module
      BY <1>5, <1>6
    <2> QED BY <1>1, <1>2, <1>7, <2>1
  <1>9. ASSUME NEW k \in 2 .. n - a
        PROVE  \E l \in DOMAIN members[Cycle[k - 1]] :
                   members[Cycle[k - 1]][l] = [name |-> Cycle[k], linked |-> TRUE]
    <2> DEFINE p == a + (k - 1)
    <2>1. p \in 1 .. n - 1 /\ p + 1 = a + k /\ k - 1 \in 1 .. n - a /\ k \in 1 .. n - a
      BY <1>1, <1>3
    <2>2. Cycle[k - 1] = stack[p].module /\ Cycle[k] = stack[p + 1].module /\ stack[p].module \in Modules
      BY <1>6, <2>1
    <2> HIDE DEF p
    <2>3. /\ stack[p].next > 1 /\ stack[p].next \in 1 .. Len(members[stack[p].module]) + 1
          /\ members[stack[p].module][stack[p].next - 1].name = stack[p + 1].module
          /\ members[stack[p].module][stack[p].next - 1].linked
      <3>1. p \in 1 .. n /\ FrameOK(stack[p], Above(stack, p))
        BY <1>1, <2>1, TopFrame DEF n
      <3> QED BY <2>1, <3>1, BelowTop DEF n, FrameOK
    <2>4. /\ Len(members[stack[p].module]) \in Nat
          /\ DOMAIN members[stack[p].module] = 1 .. Len(members[stack[p].module])
          /\ \A l \in DOMAIN members[stack[p].module] : members[stack[p].module][l] \in MemberRecords
      BY <2>2, MemberTypes DEF RegistryInv
    <2>5. stack[p].next - 1 \in DOMAIN members[stack[p].module]
      BY <2>3, <2>4
    <2>6. members[stack[p].module][stack[p].next - 1] = [name |-> stack[p + 1].module, linked |-> TRUE]
      BY <2>3, <2>4, <2>5 DEF MemberRecords
    <2> QED BY <2>2, <2>5, <2>6
  <1> QED BY <1>5, <1>7, <1>8, <1>9

LEMMA EnterStep ==
    ASSUME RegistryInv, enter
    PROVE  RegistryInv'
  <1> USE DEF RegistryInv
  <1>0. /\ stack # <<>> /\ Top.state = "Enter"
        /\ registered' = registered /\ members' = members /\ initializer' = initializer
        /\ initialized' = initialized /\ running' = running /\ outer' = outer
        /\ outer_active' = outer_active /\ alive' = alive /\ failures' = failures
        /\ returned' = returned /\ outlived' = outlived
    BY DEF enter, linking, waiting, past
  <1>1. CASE Top.module \in DOMAIN active
    <2>1. Fail({}) /\ reported' = Cycle /\ reentered' = reentered
      BY <1>1 DEF enter
    <2>2. CountsOK'
      BY <1>0, <2>1 DEF CountsOK, Fail
    <2>3. reported' \in Seq(Modules) /\ CycleIsReal'
      BY <1>0, <1>1, <2>1, CycleFound DEF CycleIsReal
    <2>4. /\ members' \in [Modules -> Seq(MemberRecords)]
          /\ \A m \in Modules :
               /\ Len(members'[m]) = Len(members[m]) /\ DOMAIN members'[m] = DOMAIN members[m]
               /\ \A j \in DOMAIN members[m] :
                     /\ members'[m][j].name = members[m][j].name
                     /\ members[m][j].linked => members'[m][j].linked
                     /\ members'[m][j].linked => members[m][j].linked \/ <<m, j>> \in {}
      BY <1>0 DEF LinkingOK
    <2>5. UNCHANGED <<registered, initializer, initialized, waiting, returned, reentered>>
      BY <1>0, <2>1 DEF waiting
    <2> QED BY <1>0, <2>1, <2>2, <2>3, <2>4, <2>5, FailStep
  <1>2. CASE Top.module \notin DOMAIN active
    <2> DEFINE n == Len(stack)
               t == Top.module
    <2>1. /\ SetTop([Top EXCEPT !.state = "Dependencies"])
          /\ reported' = reported /\ dangling' = dangling
          /\ active' = [m \in DOMAIN active \cup {t} |-> IF m = t THEN n - 1 ELSE active[m]]
          /\ reentered' = reentered \cup ({t} \cap Entered(outer))
      BY <1>2 DEF enter
    <2>2. PICK g : g = [Top EXCEPT !.state = "Dependencies"]
      OBVIOUS
    <2>3. /\ g \in FrameRecords /\ g.module = t /\ g.next = 1 /\ g.state = "Dependencies"
          /\ Top.next = 1
      <3>1. Top.next = 1
        BY <1>0, TopFrame DEF FrameOK
      <3> QED BY <2>2, <3>1, TopFrame, <1>0 DEF FrameRecords, States
    <2>4. n \in Nat \ {0} /\ DOMAIN stack = 1 .. n /\ Top = stack[n] /\ t \in Modules /\ n \in 1 .. n
      BY <1>0, TopFrame
    <2>5. LinkingOK' /\ Grows
      <3>1. LinkingOK'
        BY <1>0, <2>1, <2>4 DEF LinkingOK
      <3> QED BY <1>0, <2>1, <3>1, ExcusesGrow
    <2>6. FrameOK(g, {})'
      <3>1. Len(members'[t]) \in Nat /\ DOMAIN members'[t] = 1 .. Len(members'[t])
        BY <1>0, TopFrame
      <3>2. t \in initialized' => t \in reentered' /\ ~initializer'[t]
        BY <1>0, <2>1, TopFrame DEF FrameOK
      <3>3. \A j \in DOMAIN members'[t] : ~(j < g.next)
        BY <2>3, <3>1
      <3>4. g.next \in 1 .. Len(members'[t]) + 1
        BY <2>3, <3>1
      <3> QED BY <2>3, <3>2, <3>3, <3>4 DEF FrameOK
    <2>7. /\ FramesOK(stack)' /\ Len(stack') = n /\ DOMAIN stack' = 1 .. n
          /\ \A i \in 1 .. n : stack'[i] = IF i = n THEN g ELSE stack[i]
          /\ \A i \in 1 .. n : stack'[i].module = stack[i].module
      BY <1>0, <2>1, <2>2, <2>3, <2>4, <2>5, <2>6, TopReplaced
    <2>8. FramesOK(outer)'
      BY <1>0, <2>5, OuterKept
    <2>9. \A i \in 1 .. n : stack'[i].state # "Enter" <=> i = n \/ stack[i].state # "Enter"
      BY <2>3, <2>7
    <2> HIDE DEF n, t
    <2>10. ActiveOK'
      <3>1. \A m \in DOMAIN active' : m \in Modules /\ active'[m] \in Nat
        BY <2>1, <2>4 DEF ActiveOK
      <3>2. DOMAIN active' = {stack'[i].module : i \in {j \in DOMAIN stack' : stack'[j].state # "Enter"}}
        BY <2>1, <2>4, <2>7, <2>9 DEF ActiveOK, ActiveAre, t
      <3>3. ASSUME NEW i \in 1 .. n, stack'[i].state # "Enter"
            PROVE  active'[stack'[i].module] = i - 1
        <4>1. CASE i = n
          BY <2>1, <2>4, <2>7, <4>1 DEF t
        <4>2. CASE i # n
          <5>1. stack[i].state # "Enter" /\ stack[i].module \in DOMAIN active
                /\ active[stack[i].module] = i - 1
            BY <2>4, <2>9, <3>3, <4>2 DEF ActiveOK, ActiveAre
          <5> QED BY <1>2, <2>1, <2>7, <5>1 DEF t
        <4> QED BY <4>1, <4>2
      <3>4. ActiveAre(stack', active')
        BY <2>7, <3>2, <3>3 DEF ActiveAre
      <3> QED BY <1>0, <3>1, <3>4 DEF ActiveOK, ActiveAre
    <2>11. SharedReentered'
      <3> SUFFICES ASSUME NEW i \in 1 .. n, stack'[i].state # "Enter", stack'[i].module \in Entered(outer)
                   PROVE  stack'[i].module \in reentered'
        BY <1>0, <2>7 DEF SharedReentered, Entered
      <3>1. CASE i = n
        BY <2>1, <2>4, <2>7, <3>1 DEF t
      <3>2. CASE i # n
        BY <2>1, <2>4, <2>7, <3>2 DEF SharedReentered
      <3> QED BY <3>1, <3>2
    <2>12. LinkedByFrame'
      <3> SUFFICES ASSUME NEW m \in Modules \ initialized', NEW j \in DOMAIN members[m],
                          Held(stack, m, j) \/ Held(outer, m, j)
                   PROVE  Held(stack', m, j) \/ Held(outer', m, j)
        BY <1>0, <2>5, LinkedKept
      <3>1. CASE Held(stack, m, j)
        <4>1. /\ g.module = Top.module /\ g.next \in Nat /\ g.next >= Top.next /\ g.state # "Enter"
              /\ DOMAIN stack \subseteq DOMAIN stack'
              /\ \A i \in DOMAIN stack : stack'[i] = IF i = Len(stack) THEN g ELSE stack[i]
          <5>1. /\ g.module = Top.module /\ g.next \in Nat /\ g.next >= Top.next
                /\ g.state # "Enter"
            BY <2>3 DEF t
          <5>2. DOMAIN stack \subseteq DOMAIN stack' /\ DOMAIN stack = 1 .. n
            BY <2>4, <2>7
          <5>3. \A i \in DOMAIN stack : stack'[i] = IF i = Len(stack) THEN g ELSE stack[i]
            BY <2>7, <5>2 DEF n
          <5> QED BY <5>1, <5>2, <5>3
        <4>2. Held(stack', m, j)
          BY <1>0, <3>1, <4>1, HeldOn
        <4> QED BY <4>2
      <3>2. CASE Held(outer, m, j)
        BY <1>0, <3>2
      <3> QED BY <3>1, <3>2
    <2>13. OuterWaits' /\ CountsOK' /\ InitializedOnce'
      BY <1>0 DEF OuterWaits, CountsOK, InitializedOnce
    <2>14. ImportsFirst' /\ CycleIsReal' /\ reported' \in Seq(Modules)
      BY <1>0, <2>1, <2>5, ImportsKept, CycleKept
    <2> QED BY <2>5, <2>7, <2>8, <2>10, <2>11, <2>12, <2>13, <2>14
  <1> QED BY <1>1, <1>2

-----------------------------------------------------------------------------
(* Visiting the members of a module. *)

\* At most member i of the importing module is linked in addition.
LinksOnly(importer, i) ==
    /\ members' \in [Modules -> Seq(MemberRecords)]
    /\ \A m \in Modules :
          /\ Len(members'[m]) = Len(members[m]) /\ DOMAIN members'[m] = DOMAIN members[m]
          /\ \A j \in DOMAIN members[m] :
                /\ members'[m][j].name = members[m][j].name
                /\ members'[m][j].linked <=> (members[m][j].linked \/ (m = importer /\ j = i))

LEMMA LinkMember ==
    ASSUME LinkingOK, NEW importer \in Modules, NEW i \in DOMAIN members[importer],
           members' = [members EXCEPT ![importer][i].linked = TRUE]
    PROVE  LinksOnly(importer, i)
  <1> DEFINE r == [members[importer][i] EXCEPT !.linked = TRUE]
             q == [members[importer] EXCEPT ![i] = r]
  <1>1. members \in [Modules -> Seq(MemberRecords)] /\ members[importer] \in Seq(MemberRecords)
    BY DEF LinkingOK
  <1>2. members[importer][i] \in MemberRecords /\ i \in 1 .. Len(members[importer])
    BY MemberTypes
  <1>3. r \in MemberRecords /\ r.name = members[importer][i].name /\ r.linked = TRUE
    BY <1>2 DEF MemberRecords
  <1> HIDE DEF r
  <1>4. /\ q \in Seq(MemberRecords) /\ Len(q) = Len(members[importer]) /\ DOMAIN q = DOMAIN members[importer]
        /\ \A j \in DOMAIN members[importer] : q[j] = IF j = i THEN r ELSE members[importer][j]
    BY <1>1, <1>2, <1>3, ExceptSeq, LenProperties
  <1>5. members' = [members EXCEPT ![importer] = q]
    BY DEF r
  <1> HIDE DEF q
  <1>6. /\ members' \in [Modules -> Seq(MemberRecords)]
        /\ \A m \in Modules : members'[m] = IF m = importer THEN q ELSE members[m]
    BY <1>1, <1>4, <1>5
  <1>7. ASSUME NEW m \in Modules, NEW j \in DOMAIN members[m]
        PROVE  /\ members'[m][j].name = members[m][j].name
               /\ members'[m][j].linked <=> (members[m][j].linked \/ (m = importer /\ j = i))
    <2>1. CASE m = importer /\ j = i
      BY <1>3, <1>4, <1>6, <2>1
    <2>2. CASE ~(m = importer /\ j = i)
      <3>1. members[m][j].linked \in BOOLEAN
        BY MemberTypes
      <3> QED BY <1>4, <1>6, <2>2, <3>1
    <2> QED BY <2>1, <2>2
  <1> QED BY <1>4, <1>6, <1>7 DEF LinksOnly

LEMMA LinksGrow ==
    ASSUME LinkingOK, NEW importer, NEW i, LinksOnly(importer, i), LinkingOK',
           UNCHANGED <<initializer, initialized, dangling, reentered>>
    PROVE  Grows
  BY DEF LinksOnly, Grows

\* A linked member that the top frame has still to visit has an excuse.
LEMMA LinkedAgain ==
    ASSUME RegistryInv, stack # <<>>, Top.state = "Dependencies",
           Top.next \in DOMAIN members[Top.module], members[Top.module][Top.next].linked
    PROVE  Excused(Top.module, Top.next)
  <1> DEFINE m == Top.module
             j == Top.next
  <1>1. /\ m \in Modules /\ j \in Nat /\ Len(stack) \in DOMAIN stack
        /\ Top = stack[Len(stack)] /\ FrameOK(Top, {})
    BY TopFrame
  <1>2. CASE m \in initialized
    BY <1>1, <1>2 DEF FrameOK, Excused
  <1>3. CASE m \notin initialized
    <2>1. Excused(m, j) \/ Held(stack, m, j) \/ Held(outer, m, j)
      BY <1>1, <1>3 DEF RegistryInv, LinkedByFrame
    <2>2. CASE Held(stack, m, j)
      <3>1. PICK i \in DOMAIN stack : stack[i].module = m /\ stack[i].state # "Enter" /\ j < stack[i].next
        BY <2>2 DEF Held
      <3>2. i = Len(stack)
        BY <1>1, <3>1, FramesDistinct
      <3> QED BY <1>1, <3>1, <3>2
    <2>3. CASE Held(outer, m, j)
      <3>1. m \in Entered(outer)
        BY <2>3 DEF Held, Entered
      <3>2. stack[Len(stack)].state # "Enter" /\ stack[Len(stack)].module = m
        BY <1>1
      <3>3. m \in reentered
        BY <1>1, <3>1, <3>2 DEF RegistryInv, SharedReentered
      <3> QED BY <3>3 DEF Excused
    <2> QED BY <2>1, <2>2, <2>3
  <1> QED BY <1>2, <1>3

\* The frame on top after the visit of a member, with the frame above it.
LEMMA VisitedFrame ==
    ASSUME RegistryInv, stack # <<>>, Top.state = "Dependencies",
           Top.next \in DOMAIN members[Top.module],
           LinksOnly(Top.module, Top.next), Grows, initialized' = initialized,
           NEW g, g = Skip, NEW above,
           \/ above = {} /\ Excused(Top.module, Top.next)
           \/ above = {members[Top.module][Top.next].name}
    PROVE  /\ FrameOK(g, above)' /\ g.module = Top.module /\ g.state = "Dependencies"
           /\ g.next = Top.next + 1
  <1>0. PICK t, k : t = Top.module /\ k = Top.next
    OBVIOUS
  <1>1. /\ FrameOK(Top, {}) /\ Top \in FrameRecords /\ t \in Modules /\ k \in Nat \ {0}
        /\ Len(members[t]) \in Nat /\ DOMAIN members[t] = 1 .. Len(members[t])
        /\ Top.module = t /\ Top.next = k /\ k \in DOMAIN members[t] /\ LinksOnly(t, k)
        /\ \/ above = {} /\ Excused(t, k)
           \/ above = {members[t][k].name}
    BY <1>0, TopFrame
  <1>2. g \in FrameRecords /\ g.module = t /\ g.next = k + 1 /\ g.state = "Dependencies"
    BY <1>1 DEF FrameRecords, Skip
  <1>3. /\ Len(members'[t]) = Len(members[t]) /\ DOMAIN members'[t] = DOMAIN members[t]
        /\ members'[t][k].name = members[t][k].name /\ members'[t][k].linked
    BY <1>1 DEF LinksOnly
  <1>4. ASSUME NEW j \in DOMAIN members'[t], j < g.next
        PROVE  members'[t][j].linked /\ (Excused(t, j)' \/ (above # {} /\ j = g.next - 1))
    <2>1. CASE j = k
      <3>1. Excused(t, j) => Excused(t, j)'
        BY <1>1, <2>1, ExcuseKept
      <3>2. above = {} => Excused(t, j)
        BY <1>1, <2>1
      <3>3. j = g.next - 1 /\ members'[t][j].linked
        BY <1>1, <1>2, <1>3, <2>1
      <3> QED BY <3>1, <3>2, <3>3
    <2>2. CASE j < k
      <3>1. j \in DOMAIN members[t]
        BY <1>3
      <3>2. members[t][j].linked /\ Excused(t, j)
        BY <1>1, <2>2, <3>1 DEF FrameOK
      <3>3. members'[t][j].linked /\ Excused(t, j)'
        BY <1>1, <3>1, <3>2, ExcuseKept DEF Grows
      <3> QED BY <3>3
    <2>3. j \in Nat
      BY <1>1, <1>3
    <2>4. j = k \/ j < k
      BY <1>1, <1>2, <1>4, <2>3
    <2> QED BY <2>1, <2>2, <2>4
  <1>5. g.next \in 1 .. Len(members'[t]) + 1
    BY <1>1, <1>2, <1>3
  <1>6. t \in initialized' => t \in reentered' /\ ~initializer'[t]
    BY <1>1 DEF FrameOK, Grows
  <1>7. \A x \in above : g.next > 1 /\ members'[t][g.next - 1].name = x /\ members'[t][g.next - 1].linked
    <2>1. g.next > 1 /\ g.next - 1 = k
      BY <1>1, <1>2
    <2>2. \A x \in above : members'[t][k].name = x
      BY <1>1, <1>3
    <2> QED BY <1>3, <2>1, <2>2
  <1>8. FrameOK(g, above)'
    BY <1>2, <1>4, <1>5, <1>6, <1>7 DEF FrameOK
  <1> QED BY <1>1, <1>2, <1>8

\* What a visit does not touch.
LEMMA VisitAside ==
    ASSUME RegistryInv, stack # <<>>, Top.module \in Modules, LinksOnly(Top.module, Top.next),
           UNCHANGED <<registered, initializer, initialized, waiting, alive, reported, past, broken>>,
           stack' # <<>>
    PROVE  /\ LinkingOK' /\ Grows /\ FramesOK(outer)' /\ OuterWaits' /\ CountsOK'
           /\ ImportsFirst' /\ InitializedOnce' /\ CycleIsReal' /\ reported' \in Seq(Modules)
           /\ outer' = outer /\ outer_active' = outer_active
  <1> USE DEF RegistryInv
  <1>1. /\ running' = running /\ outer' = outer /\ outer_active' = outer_active /\ alive' = alive
        /\ failures' = failures /\ returned' = returned /\ outlived' = outlived
        /\ dangling' = dangling /\ reentered' = reentered /\ initialized' = initialized
        /\ initializer' = initializer /\ registered' = registered /\ reported' = reported
    BY DEF waiting, past, broken
  <1>2. LinkingOK'
    BY <1>1 DEF LinkingOK, LinksOnly
  <1>3. Grows
    BY <1>1, <1>2, LinksGrow
  <1>4. FramesOK(outer)' /\ ImportsFirst' /\ CycleIsReal'
    BY <1>1, <1>3, OuterKept, ImportsKept, CycleKept
  <1>5. OuterWaits' /\ CountsOK' /\ InitializedOnce'
    BY <1>1 DEF OuterWaits, CountsOK, InitializedOnce
  <1> QED BY <1>1, <1>2, <1>3, <1>4, <1>5

\* The frame moves past a member that is initialized or excused.
LEMMA SkipStep ==
    ASSUME RegistryInv, stack # <<>>, Top.state = "Dependencies",
           Top.next \in DOMAIN members[Top.module], SetTop(Skip),
           UNCHANGED <<registered, initializer, initialized, active, waiting, alive, reported, past,
                       broken>>,
           LinksOnly(Top.module, Top.next), Excused(Top.module, Top.next)
    PROVE  RegistryInv'
  <1> DEFINE n == Len(stack)
             t == Top.module
             k == Top.next
  <1>1. /\ n \in Nat \ {0} /\ DOMAIN stack = 1 .. n /\ Top = stack[n] /\ n \in 1 .. n
        /\ t \in Modules /\ k \in Nat \ {0} /\ initialized' = initialized /\ active' = active
    BY TopFrame
  <1>2. stack' # <<>>
    <2>1. stack \in Seq(FrameRecords) /\ Skip \in FrameRecords
      BY TopFrame DEF Skip, FrameRecords
    <2>2. Len(stack') = n
      BY <1>1, <2>1, ExceptSeq DEF SetTop
    <2>3. Len(<<>>) = 0
      OBVIOUS
    <2> QED BY <1>1, <2>2, <2>3
  <1>3. /\ LinkingOK' /\ Grows /\ FramesOK(outer)' /\ OuterWaits' /\ CountsOK'
        /\ ImportsFirst' /\ InitializedOnce' /\ CycleIsReal' /\ reported' \in Seq(Modules)
        /\ outer' = outer /\ outer_active' = outer_active
    BY <1>1, <1>2, VisitAside
  <1>4. PICK g, above : g = Skip /\ above = {}
    OBVIOUS
  <1>5. FrameOK(g, {})' /\ g.module = t /\ g.state = "Dependencies" /\ g.next = k + 1
    BY <1>1, <1>3, <1>4, VisitedFrame
  <1>6. /\ FramesOK(stack)' /\ Len(stack') = n /\ DOMAIN stack' = 1 .. n
        /\ \A i \in 1 .. n : stack'[i] = IF i = n THEN g ELSE stack[i]
        /\ \A i \in 1 .. n : stack'[i].module = stack[i].module
    BY <1>1, <1>3, <1>4, <1>5, TopReplaced
  <1>7. \A i \in 1 .. n : stack'[i].state # "Enter" <=> stack[i].state # "Enter"
    BY <1>1, <1>5, <1>6
  <1> HIDE DEF n, t, k
  <1>8. ActiveOK'
    <2>1. {stack'[i].module : i \in {j \in DOMAIN stack' : stack'[j].state # "Enter"}}
            = {stack[i].module : i \in {j \in DOMAIN stack : stack[j].state # "Enter"}}
      BY <1>1, <1>6, <1>7
    <2>2. ActiveAre(stack', active')
      BY <1>1, <1>6, <1>7, <2>1 DEF RegistryInv, ActiveOK, ActiveAre
    <2> QED BY <1>1, <1>3, <2>2 DEF RegistryInv, ActiveOK, ActiveAre
  <1>9. SharedReentered'
    BY <1>1, <1>3, <1>6, <1>7 DEF RegistryInv, SharedReentered, Entered, broken
  <1>10. LinkedByFrame'
    <2> SUFFICES ASSUME NEW m \in Modules \ initialized', NEW j \in DOMAIN members[m],
                        \/ Held(stack, m, j) \/ Held(outer, m, j)
                        \/ members'[m][j].linked /\ ~members[m][j].linked
                 PROVE  Excused(m, j)' \/ Held(stack', m, j) \/ Held(outer', m, j)
      BY <1>3, LinkedKept DEF RegistryInv
    <2>1. CASE Held(stack, m, j)
      <3>1. g.module = Top.module /\ g.next \in Nat /\ g.next >= Top.next /\ g.state # "Enter"
        BY <1>1, <1>5 DEF t, k
      <3>2. DOMAIN stack \subseteq DOMAIN stack'
        BY <1>1, <1>6
      <3>3. \A i \in DOMAIN stack : stack'[i] = IF i = Len(stack) THEN g ELSE stack[i]
        BY <1>1, <1>6 DEF n
      <3> QED BY <2>1, <3>1, <3>2, <3>3, HeldOn
    <2>2. CASE Held(outer, m, j)
      BY <1>3, <2>2
    <2>3. CASE members'[m][j].linked /\ ~members[m][j].linked
      <3>1. m = Top.module /\ j = Top.next
        BY <2>3 DEF LinksOnly
      <3>2. Excused(m, j)
        BY <3>1
      <3> QED BY <1>3, <3>2, ExcuseKept
    <2> QED BY <2>1, <2>2, <2>3
  <1> QED BY <1>3, <1>6, <1>8, <1>9, <1>10 DEF RegistryInv

\* A member whose module is not initialized is linked, and its module is entered.
LEMMA PushStep ==
    ASSUME RegistryInv, stack # <<>>, Top.state = "Dependencies",
           Top.next \in DOMAIN members[Top.module],
           NEW m \in Modules \ initialized, members[Top.module][Top.next].name = m,
           Len(stack) < MaxStack,
           stack' = Append([stack EXCEPT ![Len(stack)] = Skip], Frame(m)),
           UNCHANGED <<registered, initializer, initialized, active, waiting, alive, reported, past,
                       broken>>,
           LinksOnly(Top.module, Top.next)
    PROVE  RegistryInv'
  <1> DEFINE n == Len(stack)
             t == Top.module
             k == Top.next
  <1>1. /\ n \in Nat \ {0} /\ DOMAIN stack = 1 .. n /\ Top = stack[n] /\ n \in 1 .. n
        /\ t \in Modules /\ k \in Nat \ {0} /\ initialized' = initialized /\ active' = active
        /\ stack \in Seq(FrameRecords) /\ stack[n].state = "Dependencies" /\ stack[n].module = t
        /\ reentered' = reentered
    BY TopFrame DEF broken
  <1>2. PICK g, above, h : g = Skip /\ above = {m} /\ h = Frame(m)
    OBVIOUS
  <1> HIDE DEF n, t, k
  <1>3. g \in FrameRecords /\ h \in FrameRecords /\ h.module = m /\ h.next = 1 /\ h.state = "Enter"
    <2>0. Top \in FrameRecords /\ Top.next \in Nat
      BY TopFrame
    <2>1. g \in FrameRecords
      BY <1>2, <2>0 DEF Skip, FrameRecords
    <2> QED BY <1>2, <2>1 DEF Frame, FrameRecords, States
  <1>4. /\ stack' \in Seq(FrameRecords) /\ Len(stack') = n + 1 /\ DOMAIN stack' = 1 .. n + 1
        /\ stack'[n + 1] = h
        /\ \A i \in 1 .. n : stack'[i] = IF i = n THEN g ELSE stack[i]
    <2>1. PICK below : below = [stack EXCEPT ![Len(stack)] = g]
      OBVIOUS
    <2>2. /\ below \in Seq(FrameRecords) /\ Len(below) = n
          /\ \A i \in 1 .. n : below[i] = IF i = n THEN g ELSE stack[i]
      BY <1>1, <1>3, <2>1, ExceptSeq, LenProperties DEF n
    <2>3. stack' = Append(below, h)
      BY <1>2, <2>1
    <2>4. /\ Append(below, h) \in Seq(FrameRecords) /\ Len(Append(below, h)) = Len(below) + 1
          /\ Append(below, h)[Len(below) + 1] = h
          /\ \A i \in 1 .. Len(below) : Append(below, h)[i] = below[i]
      BY <1>3, <2>2, AppendProperties
    <2>5. DOMAIN stack' = 1 .. n + 1
      BY <2>2, <2>3, <2>4, LenProperties
    <2> QED BY <2>2, <2>3, <2>4, <2>5
  <1>5. /\ LinkingOK' /\ Grows /\ FramesOK(outer)' /\ OuterWaits' /\ CountsOK'
        /\ ImportsFirst' /\ InitializedOnce' /\ CycleIsReal' /\ reported' \in Seq(Modules)
        /\ outer' = outer /\ outer_active' = outer_active
    <2>1. stack' # <<>>
      <3>1. Len(<<>>) = 0 /\ n + 1 # 0
        BY <1>1
      <3> QED BY <1>4, <3>1
    <2> QED BY <1>1, <2>1, VisitAside DEF t
  <1>6. FrameOK(g, above)' /\ g.module = t /\ g.state = "Dependencies" /\ g.next = k + 1
    BY <1>1, <1>2, <1>5, VisitedFrame DEF t, k
  <1>7. FrameOK(h, {})'
    <2>1. Len(members'[m]) \in Nat /\ DOMAIN members'[m] = 1 .. Len(members'[m])
      BY <1>5, MemberTypes DEF Grows, RegistryInv
    <2>2. m \notin initialized'
      OBVIOUS
    <2>3. 1 \in 1 .. Len(members'[m]) + 1
      BY <2>1
    <2> QED BY <1>3, <2>1, <2>2, <2>3 DEF FrameOK
  <1>8. /\ \A i \in 1 .. n : stack'[i].module = stack[i].module
        /\ \A i \in 1 .. n : stack'[i].state # "Enter" <=> stack[i].state # "Enter"
        /\ n + 1 \in 1 .. n + 1 /\ stack'[n + 1].state = "Enter" /\ stack'[n + 1].module = m
    <2>1. \A i \in 1 .. n : stack'[i].module = stack[i].module
      BY <1>1, <1>4, <1>6
    <2>2. \A i \in 1 .. n : stack'[i].state # "Enter" <=> stack[i].state # "Enter"
      BY <1>1, <1>4, <1>6
    <2> QED BY <1>1, <1>3, <1>4, <2>1, <2>2
  <1>9. FramesOK(stack)'
    <2>1. Len(stack') <= MaxStack
      <3>1. MaxStack \in Nat /\ n < MaxStack
        BY RegistryAssumption DEF n
      <3> QED BY <1>1, <1>4, <3>1
    <2>2. ASSUME NEW i \in 1 .. n + 1
          PROVE  FrameOK(stack[i], Above(stack, i))'
      <3>1. CASE i = n + 1
        <4>1. stack'[i] = h /\ Above(stack, i)' = {}
          BY <1>1, <1>4, <3>1 DEF Above
        <4> QED BY <1>7, <4>1
      <3>2. CASE i = n
        <4>1. stack'[i] = g
          BY <1>1, <1>4, <3>2
        <4>2. Above(stack, i)' = above
          BY <1>1, <1>2, <1>4, <1>8, <3>2 DEF Above
        <4> QED BY <1>6, <4>1, <4>2
      <3>3. CASE i # n /\ i # n + 1
        <4>1. i \in 1 .. n - 1 /\ i \in 1 .. n /\ i + 1 \in 1 .. n /\ i < n + 1
          BY <1>1, <3>3
        <4>2. PICK f, under : f = stack[i] /\ under = {stack[i + 1].module}
          OBVIOUS
        <4>3. FrameOK(f, under)'
          BY <1>1, <1>5, <4>1, <4>2, BelowKept DEF n
        <4>4. stack'[i] = f
          BY <1>4, <3>3, <4>1, <4>2
        <4>5. Above(stack, i)' = under
          BY <1>4, <1>8, <4>1, <4>2 DEF Above
        <4> QED BY <4>3, <4>4, <4>5
      <3> QED BY <3>1, <3>2, <3>3
    <2> QED BY <1>4, <2>1, <2>2 DEF FramesOK
  <1>10. ActiveOK'
    <2>1. \A i \in 1 .. n + 1 : stack'[i].state # "Enter" <=> i \in 1 .. n /\ stack[i].state # "Enter"
      BY <1>1, <1>8
    <2>2. {stack'[i].module : i \in {j \in DOMAIN stack' : stack'[j].state # "Enter"}}
            = {stack[i].module : i \in {j \in DOMAIN stack : stack[j].state # "Enter"}}
      BY <1>1, <1>4, <1>8, <2>1
    <2>3. \A i \in 1 .. n + 1 : stack'[i].state # "Enter" => active[stack'[i].module] = i - 1
      BY <1>1, <1>8, <2>1 DEF RegistryInv, ActiveOK, ActiveAre
    <2>4. ActiveAre(stack', active')
      BY <1>1, <1>4, <2>2, <2>3 DEF RegistryInv, ActiveOK, ActiveAre
    <2>5. DOMAIN active \subseteq Modules /\ \A x \in DOMAIN active : active[x] \in Nat
      BY DEF RegistryInv, ActiveOK
    <2>6. ActiveAre(outer', outer_active')
      BY <1>5 DEF RegistryInv, ActiveOK, ActiveAre
    <2> QED BY <1>1, <2>4, <2>5, <2>6 DEF ActiveOK, ActiveAre
  <1>11. SharedReentered'
    <2> SUFFICES ASSUME NEW i \in 1 .. n + 1, stack'[i].state # "Enter", stack'[i].module \in Entered(outer)
                 PROVE  stack'[i].module \in reentered
      BY <1>1, <1>4, <1>5 DEF SharedReentered, Entered
    <2>1. i \in 1 .. n
      BY <1>1, <1>8
    <2> QED BY <1>1, <1>8, <2>1 DEF RegistryInv, SharedReentered
  <1>12. LinkedByFrame'
    <2> SUFFICES ASSUME NEW x \in Modules \ initialized', NEW j \in DOMAIN members[x],
                        \/ Held(stack, x, j) \/ Held(outer, x, j)
                        \/ members'[x][j].linked /\ ~members[x][j].linked
                 PROVE  Excused(x, j)' \/ Held(stack', x, j) \/ Held(outer', x, j)
      BY <1>5, LinkedKept DEF RegistryInv
    <2>1. CASE Held(stack, x, j)
      <3>1. g.module = Top.module /\ g.next \in Nat /\ g.next >= Top.next /\ g.state # "Enter"
        BY <1>1, <1>6 DEF t, k
      <3>2. DOMAIN stack \subseteq DOMAIN stack'
        BY <1>1, <1>4
      <3>3. \A i \in DOMAIN stack : stack'[i] = IF i = Len(stack) THEN g ELSE stack[i]
        BY <1>1, <1>4 DEF n
      <3> QED BY <2>1, <3>1, <3>2, <3>3, HeldOn
    <2>2. CASE Held(outer, x, j)
      BY <1>5, <2>2
    <2>3. CASE members'[x][j].linked /\ ~members[x][j].linked
      <3>1. x = t /\ j = k
        BY <2>3 DEF LinksOnly, t, k
      <3>2. n \in DOMAIN stack' /\ stack'[n] = g
        BY <1>1, <1>4
      <3>3. j < g.next
        BY <1>1, <1>6, <3>1
      <3> QED BY <1>6, <3>1, <3>2, <3>3 DEF Held
    <2> QED BY <2>1, <2>2, <2>3
  <1> QED BY <1>5, <1>9, <1>10, <1>11, <1>12 DEF RegistryInv

\* The frame on top is left or starts the initializer: only its state changes.
LEMMA StateStep ==
    ASSUME RegistryInv, stack # <<>>, Grows, NEW s \in {"Init", "Exit"},
           \/ s = "Init" /\ Top.state = "Dependencies" /\ Top.next > Len(members[Top.module])
              /\ initialized' = initialized
           \/ s = "Exit" /\ Top.state = "Init" /\ initialized' = initialized \cup {Top.module}
              /\ ~initializer[Top.module],
           SetTop([Top EXCEPT !.state = s]),
           UNCHANGED <<registered, members, initializer, active, waiting, alive, reported, past, broken>>
    PROVE  RegistryInv'
  <1> USE DEF RegistryInv
  <1> DEFINE n == Len(stack)
             t == Top.module
  <1>1. /\ n \in Nat \ {0} /\ DOMAIN stack = 1 .. n /\ Top = stack[n] /\ n \in 1 .. n
        /\ t \in Modules /\ Top.next \in Nat /\ Top.state # "Enter" /\ Top \in FrameRecords
        /\ FrameOK(Top, {}) /\ Len(members[t]) \in Nat /\ DOMAIN members[t] = 1 .. Len(members[t])
        /\ s \in States
    BY TopFrame DEF States
  <1>2. PICK g : g = [Top EXCEPT !.state = s]
    OBVIOUS
  <1>3. g \in FrameRecords /\ g.module = t /\ g.next = Top.next /\ g.state = s
    BY <1>1, <1>2 DEF FrameRecords
  <1>4. /\ running' = running /\ outer' = outer /\ outer_active' = outer_active /\ alive' = alive
        /\ failures' = failures /\ returned' = returned /\ outlived' = outlived
        /\ dangling' = dangling /\ reentered' = reentered /\ members' = members
        /\ initializer' = initializer /\ reported' = reported /\ active' = active
    BY DEF waiting, past, broken
  <1>5. Top.next > Len(members[t])
    BY <1>1 DEF FrameOK
  <1>6. \A j \in DOMAIN members[t] : members[t][j].linked /\ Excused(t, j) /\ j < Top.next
    <2>1. \A j \in DOMAIN members[t] : j < Top.next
      BY <1>1, <1>5
    <2> QED BY <1>1, <2>1 DEF FrameOK
  <1>7. initialized' \ initialized \subseteq {t} /\ (s = "Exit" <=> t \in initialized' /\ Top.state = "Init")
        /\ initialized \subseteq initialized' /\ initialized' \subseteq initialized \cup {t}
    OBVIOUS
  <1>8. FrameOK(g, {})'
    <2>1. PICK tt : tt = t
      OBVIOUS
    <2>2. \A j \in DOMAIN members'[tt] : j < g.next => members'[tt][j].linked /\ Excused(tt, j)'
      BY <1>1, <1>4, <1>6, <2>1, ExcuseKept
    <2>3. /\ g.next \in 1 .. Len(members'[tt]) + 1 /\ g.next > Len(members'[tt])
      BY <1>1, <1>3, <1>4, <1>5, <2>1 DEF FrameOK
    <2>4. /\ g.state = "Exit" => tt \in initialized'
          /\ tt \in initialized' => g.state = "Exit" \/ (tt \in reentered' /\ ~initializer'[tt])
      BY <1>1, <1>3, <1>4, <2>1 DEF FrameOK
    <2> QED BY <1>1, <1>3, <2>1, <2>2, <2>3, <2>4 DEF FrameOK
  <1>9. ASSUME NEW i \in 1 .. n - 1
        PROVE  stack[i].module # t
    <2>1. i \in DOMAIN stack /\ i # n /\ stack[i].state # "Enter"
      BY <1>1, BelowTop
    <2> QED BY <1>1, <2>1, FramesDistinct
  <1>10. /\ FramesOK(stack)' /\ Len(stack') = n /\ DOMAIN stack' = 1 .. n
         /\ \A i \in 1 .. n : stack'[i] = IF i = n THEN g ELSE stack[i]
         /\ \A i \in 1 .. n : stack'[i].module = stack[i].module
    <2>1. \A x \in initialized' \ initialized : \A i \in 1 .. Len(stack) - 1 :
               x = stack[i].module => x \in reentered' /\ ~initializer[x]
      BY <1>7, <1>9
    <2>2. SetTop(g)
      BY <1>2
    <2> QED BY <1>1, <1>3, <1>8, <2>1, <2>2, TopReplaced
  <1>11. \A i \in 1 .. n : stack'[i].state # "Enter" <=> stack[i].state # "Enter"
    BY <1>1, <1>3, <1>10
  <1>12. t \in Entered(outer) => t \in reentered
    BY <1>1 DEF SharedReentered
  <1>13. FramesOK(outer)'
    <2>1. \A x \in initialized' \ initialized :
               x \in Entered(outer) => x \in reentered' /\ ~initializer[x]
      BY <1>4, <1>7, <1>12
    <2> QED BY <1>4, <2>1, OuterKept
  <1> HIDE DEF n, t
  <1>14. ActiveOK'
    <2>1. {stack'[i].module : i \in {j \in DOMAIN stack' : stack'[j].state # "Enter"}}
            = {stack[i].module : i \in {j \in DOMAIN stack : stack[j].state # "Enter"}}
      BY <1>1, <1>10, <1>11
    <2>2. ActiveAre(stack', active')
      BY <1>1, <1>4, <1>10, <1>11, <2>1 DEF ActiveOK, ActiveAre
    <2> QED BY <1>4, <2>2 DEF ActiveOK, ActiveAre
  <1>15. SharedReentered' /\ OuterWaits'
    <2>1. SharedReentered'
      BY <1>1, <1>4, <1>10, <1>11 DEF SharedReentered, Entered
    <2> QED BY <1>4, <2>1 DEF OuterWaits
  <1>16. LinkedByFrame'
    <2> SUFFICES ASSUME NEW m \in Modules \ initialized', NEW j \in DOMAIN members[m],
                        Held(stack, m, j) \/ Held(outer, m, j)
                 PROVE  Held(stack', m, j) \/ Held(outer', m, j)
      BY <1>4, LinkedKept
    <2>1. CASE Held(stack, m, j)
      <3>1. g.module = Top.module /\ g.next \in Nat /\ g.next >= Top.next /\ g.state # "Enter"
        BY <1>1, <1>3 DEF t
      <3>2. DOMAIN stack \subseteq DOMAIN stack'
        BY <1>1, <1>10
      <3>3. \A i \in DOMAIN stack : stack'[i] = IF i = Len(stack) THEN g ELSE stack[i]
        BY <1>1, <1>10 DEF n
      <3>4. Held(stack', m, j)
        BY <2>1, <3>1, <3>2, <3>3, HeldOn
      <3> QED BY <3>4
    <2>2. CASE Held(outer, m, j)
      BY <1>4, <2>2
    <2> QED BY <2>1, <2>2
  <1>17. ImportsFirst'
    <2> SUFFICES ASSUME NEW m \in initialized', NEW j \in DOMAIN members[m]
                 PROVE  /\ members[m][j].linked
                        /\ \/ members[m][j].name \in initialized' \ {m}
                           \/ <<m, j>> \in dangling \/ m \in reentered
      BY <1>4 DEF ImportsFirst
    <2>1. CASE m \in initialized
      BY <1>7, <2>1 DEF ImportsFirst
    <2>2. CASE m \notin initialized
      <3>1. m = t /\ members[t][j].linked /\ Excused(t, j)
        BY <1>6, <1>7, <2>2
      <3> QED BY <1>7, <2>2, <3>1 DEF Excused
    <2> QED BY <2>1, <2>2
  <1>18. InitializedOnce'
    <2>1. \A m \in Modules : m \in initialized' /\ initializer[m] <=> m \in initialized /\ initializer[m]
      BY <1>7
    <2> QED BY <1>4, <2>1 DEF InitializedOnce
  <1>19. CountsOK' /\ LinkingOK' /\ CycleIsReal' /\ reported' \in Seq(Modules)
    BY <1>4, CycleKept DEF CountsOK, Grows
  <1> QED BY <1>10, <1>13, <1>14, <1>15, <1>16, <1>17, <1>18, <1>19

\* The next member of the module on top is visited, or all of them have been.
LEMMA DependenciesStep ==
    ASSUME RegistryInv, dependencies
    PROVE  RegistryInv'
  <1> DEFINE importer == Top.module
             i == Top.next
             imp == members[importer][i]
             aside == <<registered, initializer, initialized, waiting, alive, reported, past>>
  <1>0. /\ stack # <<>> /\ Top.state = "Dependencies" /\ UNCHANGED aside /\ reentered' = reentered
    BY DEF dependencies
  <1>1. /\ importer \in Modules /\ i \in Nat \ {0} /\ Len(members[importer]) \in Nat
        /\ DOMAIN members[importer] = 1 .. Len(members[importer])
        /\ i <= Len(members[importer]) => i \in DOMAIN members[importer] /\ imp \in MemberRecords
    BY <1>0, TopFrame, MemberTypes DEF RegistryInv
  <1>2. LinkingOK /\ CountsOK /\ members \in [Modules -> Seq(MemberRecords)]
        /\ reported \in Seq(Modules) /\ CycleIsReal
    BY DEF RegistryInv, LinkingOK
  <1>3. (UNCHANGED members) => LinkingOK' \/ dangling' # dangling
    BY <1>0, <1>2 DEF LinkingOK
  <1>4. CASE i > Len(members[importer])
    <2>1. /\ SetTop([Top EXCEPT !.state = "Init"])
          /\ members' = members /\ active' = active /\ dangling' = dangling
      BY <1>4 DEF dependencies
    <2>2. Grows
      BY <1>0, <1>2, <1>3, <2>1, ExcusesGrow
    <2>3. UNCHANGED <<registered, members, initializer, active, waiting, alive, reported, past, broken>>
      BY <1>0, <2>1 DEF broken
    <2> QED BY <1>0, <1>4, <2>1, <2>2, <2>3, StateStep
  <1>5. CASE i <= Len(members[importer]) /\ imp.linked
    <2>1. SetTop(Skip) /\ members' = members /\ active' = active /\ dangling' = dangling
      BY <1>1, <1>5 DEF dependencies
    <2>2. i \in DOMAIN members[importer] /\ Excused(importer, i)
      BY <1>0, <1>1, <1>5, LinkedAgain
    <2>3. LinksOnly(importer, i)
      <3>1. \A m \in Modules : \A j \in DOMAIN members[m] :
                members'[m][j].linked <=> (members[m][j].linked \/ (m = importer /\ j = i))
        BY <1>5, <2>1
      <3> QED BY <1>2, <2>1, <3>1 DEF LinksOnly
    <2>4. UNCHANGED <<registered, initializer, initialized, active, waiting, alive, reported, past,
                      broken>>
      BY <1>0, <2>1 DEF broken
    <2> QED BY <1>0, <2>1, <2>2, <2>3, <2>4, SkipStep
  <1>6. ASSUME NEW links, links \subseteq {<<importer, i>>}, Fail(links),
               \/ members' = members
               \/ i \in DOMAIN members[importer] /\ LinksOnly(importer, i) /\ links = {<<importer, i>>}
        PROVE  RegistryInv'
    <2>1. links \subseteq Modules \X Nat
      BY <1>1, <1>6
    <2>2. UNCHANGED <<registered, initializer, initialized, waiting, returned, reentered>>
          /\ outlived' = outlived /\ reported' = reported /\ failures' = failures /\ alive' = alive
          /\ returned' = returned /\ running' = running
      BY <1>0 DEF past, waiting
    <2>3. CountsOK'
      <3>1. stack' = <<>>
        BY <1>6 DEF Fail
      <3> QED BY <1>2, <2>2, <3>1 DEF CountsOK
    <2>4. reported' \in Seq(Modules) /\ (Grows => CycleIsReal')
      BY <1>2, <2>2, CycleKept
    <2>5. /\ members' \in [Modules -> Seq(MemberRecords)]
          /\ \A m \in Modules :
               /\ Len(members'[m]) = Len(members[m]) /\ DOMAIN members'[m] = DOMAIN members[m]
               /\ \A j \in DOMAIN members[m] :
                     /\ members'[m][j].name = members[m][j].name
                     /\ members[m][j].linked => members'[m][j].linked
                     /\ members'[m][j].linked => members[m][j].linked \/ <<m, j>> \in links
      <3>1. CASE members' = members
        BY <1>2, <3>1
      <3>2. CASE LinksOnly(importer, i) /\ links = {<<importer, i>>}
        <4>1. \A m \in Modules : \A j \in DOMAIN members[m] :
                  m = importer /\ j = i => <<m, j>> \in links
          BY <3>2
        <4> HIDE DEF importer, i
        <4> QED BY <3>2, <4>1 DEF LinksOnly
      <3> QED BY <1>6, <3>1, <3>2
    <2> QED BY <1>6, <2>1, <2>2, <2>3, <2>4, <2>5, FailStep
  <1>7. CASE i <= Len(members[importer]) /\ ~imp.linked /\ imp.name \notin registered
    <2>1. Fail({}) /\ members' = members
      BY <1>1, <1>7 DEF dependencies
    <2>2. {} \subseteq {<<importer, i>>}
      OBVIOUS
    <2> QED BY <1>6, <2>1, <2>2
  <1>8. CASE i <= Len(members[importer]) /\ ~imp.linked /\ imp.name \in registered
    <2>1. members' = [members EXCEPT ![importer][i].linked = TRUE] /\ recurse(imp.name)
      BY <1>1, <1>8 DEF dependencies
    <2>2. i \in DOMAIN members[importer] /\ imp.name \in Modules
      BY <1>1, <1>2, <1>8 DEF LinkingOK
    <2>3. LinksOnly(importer, i)
      BY <1>1, <1>2, <2>1, <2>2, LinkMember
    <2>4. CASE imp.name \in initialized
      <3>1. SetTop(Skip) /\ active' = active /\ dangling' = dangling
        BY <2>1, <2>4 DEF recurse
      <3>2. UNCHANGED <<registered, initializer, initialized, active, waiting, alive, reported, past,
                        broken>>
        BY <1>0, <3>1 DEF broken
      <3>3. Excused(importer, i)
        BY <2>4 DEF Excused
      <3> QED BY <1>0, <2>2, <2>3, <3>1, <3>2, <3>3, SkipStep
    <2>5. CASE imp.name \notin initialized /\ Len(stack) >= MaxStack
      <3>1. Fail({<<importer, i>>})
        BY <2>1, <2>5 DEF recurse
      <3>2. PICK links : links = {<<importer, i>>}
        OBVIOUS
      <3>3. Fail(links)
        BY <3>1, <3>2
      <3> QED BY <1>6, <2>2, <2>3, <3>2, <3>3
    <2>6. CASE imp.name \notin initialized /\ ~(Len(stack) >= MaxStack)
      <3>1. /\ stack' = Append([stack EXCEPT ![Len(stack)] = Skip], Frame(imp.name))
            /\ active' = active /\ dangling' = dangling
        BY <2>1, <2>6 DEF recurse
      <3>2. Len(stack) < MaxStack
        <4>1. Len(stack) \in Nat /\ MaxStack \in Nat
          BY <1>0, RegistryAssumption, TopFrame
        <4> QED BY <2>6, <4>1
      <3>3. UNCHANGED <<registered, initializer, initialized, active, waiting, alive, reported, past,
                        broken>>
        BY <1>0, <3>1 DEF broken
      <3>4. PICK m \in Modules \ initialized : m = imp.name
        BY <2>2, <2>6
      <3>5. stack' = Append([stack EXCEPT ![Len(stack)] = Skip], Frame(m))
        BY <3>1, <3>4
      <3> QED BY <1>0, <2>2, <2>3, <3>2, <3>3, <3>4, <3>5, PushStep
    <2> QED BY <2>4, <2>5, <2>6
  <1> QED BY <1>1, <1>4, <1>5, <1>7, <1>8

-----------------------------------------------------------------------------
(* Initializers. *)

\* The module on top has no initializer, or it is started and the resolution waits or fails.
LEMMA InitStep ==
    ASSUME RegistryInv, init
    PROVE  RegistryInv'
  <1> USE DEF RegistryInv
  <1>0. /\ stack # <<>> /\ Top.state = "Init" /\ reported' = reported /\ reentered' = reentered
        /\ registered' = registered /\ members' = members /\ initializer' = initializer
    BY DEF init, linking
  <1>1. CASE ~initializer[Top.module]
    <2>1. /\ initialized' = initialized \cup {Top.module}
          /\ SetTop([Top EXCEPT !.state = "Exit"])
          /\ UNCHANGED <<active, waiting, alive, past, dangling>>
      <3>1. /\ Initialized(stack) /\ UNCHANGED <<active, waiting, alive, past, dangling>>
        BY <1>1 DEF init
      <3>2. PICK n, f : n = Len(stack) /\ f = stack[n]
        OBVIOUS
      <3>3. [stack EXCEPT ![Len(stack)].state = "Exit"]
              = [stack EXCEPT ![Len(stack)] = [Top EXCEPT !.state = "Exit"]]
        BY DEF Top
      <3> QED BY <3>1, <3>3 DEF Initialized, SetTop, Top
    <2>2. LinkingOK' /\ Grows
      <3>1. Top.module \in Modules
        BY <1>0, TopFrame
      <3>2. dangling' = dangling
        BY <2>1
      <3>3. LinkingOK'
        BY <1>0, <2>1, <3>1, <3>2 DEF LinkingOK
      <3> QED BY <1>0, <2>1, <3>2, <3>3 DEF Grows
    <2>3. UNCHANGED <<registered, members, initializer, active, waiting, alive, reported, past, broken>>
      BY <1>0, <2>1 DEF broken
    <2> QED BY <1>0, <1>1, <2>1, <2>2, <2>3, StateStep
  <1>2. CASE initializer[Top.module] /\ running
    <2>1. /\ Fail({}) /\ alive' = [alive EXCEPT ![Top.module] = @ + 1]
          /\ outlived' = outlived \cup {Top.module} /\ failures' = failures + 1
          /\ UNCHANGED <<initialized, waiting, returned>>
      BY <1>2 DEF init
    <2>2. Top.module \in Modules
      BY <1>0, TopFrame
    <2>3. CountsOK'
      <3>1. failures < MaxFailures /\ failures \in 0 .. MaxFailures /\ MaxFailures \in Nat
        BY <1>0, <1>2, RegistryAssumption DEF CountsOK
      <3>2. failures' \in 0 .. MaxFailures
        BY <2>1, <3>1
      <3>3. alive' \in [Modules -> Nat] /\ \A m \in Modules : m # Top.module => alive'[m] = alive[m]
        BY <2>1, <2>2 DEF CountsOK
      <3>4. \A m \in Modules : alive'[m] > 0 => m \in outlived'
        BY <2>1, <2>2, <3>3 DEF CountsOK
      <3>5. stack' = <<>> /\ running' = running /\ returned' = returned
        BY <2>1 DEF Fail, waiting
      <3>6. outlived' \subseteq Modules
        BY <2>1, <2>2 DEF CountsOK
      <3> QED BY <3>2, <3>3, <3>4, <3>5, <3>6 DEF CountsOK
    <2>4. reported' \in Seq(Modules) /\ (Grows => CycleIsReal')
      BY <1>0, CycleKept
    <2>5. /\ members' \in [Modules -> Seq(MemberRecords)]
          /\ \A m \in Modules :
               /\ Len(members'[m]) = Len(members[m]) /\ DOMAIN members'[m] = DOMAIN members[m]
               /\ \A j \in DOMAIN members[m] :
                     /\ members'[m][j].name = members[m][j].name
                     /\ members[m][j].linked => members'[m][j].linked
                     /\ members'[m][j].linked => members[m][j].linked \/ <<m, j>> \in {}
      BY <1>0 DEF LinkingOK
    <2>6. UNCHANGED <<registered, initializer, initialized, waiting, returned, reentered>>
      BY <1>0, <2>1
    <2>7. outlived \subseteq outlived'
      BY <2>1
    <2> QED BY <2>1, <2>3, <2>4, <2>5, <2>6, <2>7, FailStep
  <1>3. CASE initializer[Top.module] /\ ~running
    <2>1. /\ running' = TRUE /\ outer' = stack /\ outer_active' = active
          /\ stack' = <<>> /\ active' = << >>
          /\ UNCHANGED <<initialized, alive, past, dangling>>
      BY <1>3 DEF init
    <2>2. /\ failures' = failures /\ returned' = returned /\ outlived' = outlived /\ alive' = alive
          /\ initialized' = initialized /\ dangling' = dangling /\ outer = <<>>
      BY <1>3, <2>1 DEF past, OuterWaits
    <2>3. LinkingOK' /\ Grows
      <3>1. LinkingOK'
        BY <1>0, <2>2 DEF LinkingOK
      <3> QED BY <1>0, <2>2, <3>1, ExcusesGrow
    <2>4. FramesOK(stack)' /\ FramesOK(outer)'
      <3>1. PICK F : F = stack
        OBVIOUS
      <3>2. FramesOK(F)
        BY <3>1
      <3>3. FramesOK(F)'
        BY <2>2, <2>3, <3>2, FramesKept
      <3>4. outer' = F
        BY <2>1, <3>1
      <3>5. FramesOK(outer)'
        BY <3>3, <3>4
      <3>6. stack' \in Seq(FrameRecords) /\ Len(stack') = 0 /\ Len(stack') <= MaxStack
        BY <2>1, EmptySeq, RegistryAssumption
      <3>7. FramesOK(stack)'
        BY <3>6 DEF FramesOK
      <3> QED BY <3>5, <3>7
    <2>5. ActiveOK'
      BY <2>1 DEF ActiveOK, ActiveAre
    <2>6. OuterWaits' /\ SharedReentered' /\ CountsOK'
      <3>1. outer'[Len(outer')].state = "Init" /\ initializer'[outer'[Len(outer')].module]
        BY <1>0, <1>3, <2>1 DEF Top
      <3>2. OuterWaits'
        BY <2>1, <3>1 DEF OuterWaits
      <3> QED BY <2>1, <2>2, <3>2 DEF SharedReentered, CountsOK
    <2>7. LinkedByFrame'
      <3>1. \A m, j : ~Held(outer, m, j)
        BY <2>2 DEF Held
      <3> QED BY <1>0, <2>1, <2>3, <3>1, LinkedKept
    <2>8. InitializedOnce' /\ ImportsFirst' /\ CycleIsReal' /\ reported' \in Seq(Modules)
      <3>1. InitializedOnce'
        BY <1>0, <2>2 DEF InitializedOnce
      <3> QED BY <1>0, <2>2, <2>3, <3>1, ImportsKept, CycleKept
    <2> QED BY <2>3, <2>4, <2>5, <2>6, <2>7, <2>8
  <1> QED BY <1>1, <1>2, <1>3

\* The frames of the resolution that waits.
LEMMA OuterFrames ==
    ASSUME RegistryInv, outer # <<>>
    PROVE  /\ outer \in Seq(FrameRecords) /\ Len(outer) \in Nat \ {0} /\ Len(outer) <= MaxStack
           /\ DOMAIN outer = 1 .. Len(outer) /\ Len(outer) \in 1 .. Len(outer)
           /\ outer[Len(outer)].state = "Init" /\ initializer[outer[Len(outer)].module] /\ running
           /\ \A i \in 1 .. Len(outer) :
                 /\ outer[i].module \in Modules /\ FrameOK(outer[i], Above(outer, i))
                 /\ i # Len(outer) => outer[i].state = "Dependencies"
                 /\ outer_active[outer[i].module] = i - 1
                 /\ outer[i].module = outer[Len(outer)].module => i = Len(outer)
           /\ DOMAIN outer_active = {outer[i].module : i \in 1 .. Len(outer)}
  <1> DEFINE n == Len(outer)
  <1>1. /\ outer \in Seq(FrameRecords) /\ Len(outer) <= MaxStack
        /\ \A i \in 1 .. Len(outer) : FrameOK(outer[i], Above(outer, i))
        /\ outer[n].state = "Init" /\ initializer[outer[n].module] /\ running
    BY DEF RegistryInv, FramesOK, OuterWaits
  <1>2. /\ n \in Nat \ {0} /\ DOMAIN outer = 1 .. n /\ n \in 1 .. n
        /\ \A i \in 1 .. n : outer[i].module \in Modules
    BY <1>1, FrameTypes
  <1>3. ASSUME NEW i \in 1 .. n, i # n
        PROVE  outer[i].state = "Dependencies"
    <2>1. n \in Nat /\ i < n
      <3>1. PICK x : x = n
        OBVIOUS
      <3>2. x \in Nat /\ i \in 1 .. x /\ i # x
        BY <1>2, <1>3, <3>1
      <3>3. i < x
        BY <3>2
      <3> QED BY <3>1, <3>2, <3>3
    <2>2. outer[i + 1].module \in Above(outer, i)
      BY <2>1 DEF Above
    <2>3. FrameOK(outer[i], Above(outer, i))
      BY <1>1
    <2> QED BY <2>2, <2>3 DEF FrameOK
  <1>4. \A i \in 1 .. n : outer[i].state # "Enter"
    BY <1>1, <1>3
  <1> HIDE DEF n
  <1>5. /\ \A i \in 1 .. n : outer_active[outer[i].module] = i - 1
        /\ DOMAIN outer_active = {outer[i].module : i \in 1 .. n}
    <2>1. ActiveAre(outer, outer_active)
      BY DEF RegistryInv, ActiveOK
    <2> QED BY <1>2, <1>4, <2>1 DEF ActiveAre
  <1>6. \A i \in 1 .. n : outer[i].module = outer[n].module => i = n
    BY <1>2, <1>5
  <1> QED BY <1>1, <1>2, <1>3, <1>5, <1>6 DEF n

\* The initializer has returned, and the resolution goes on.
LEMMA ReturnedStep ==
    ASSUME RegistryInv, run_init_ends("returned")
    PROVE  RegistryInv'
  <1> USE DEF RegistryInv
  <1>0. PICK F, n, m, t :
            F = outer /\ n = Len(outer) /\ m = outer[Len(outer)].module /\ t = outer[Len(outer)]
    OBVIOUS
  <1>1. /\ outer # <<>> /\ stack = <<>> /\ running' = FALSE /\ outer' = <<>> /\ outer_active' = << >>
        /\ initialized' = initialized \cup {m} /\ stack' = [F EXCEPT ![n].state = "Exit"]
        /\ active' = outer_active /\ returned' = [returned EXCEPT ![m] = @ + 1]
        /\ alive' = alive /\ failures' = failures /\ outlived' = outlived /\ dangling' = dangling
        /\ registered' = registered /\ members' = members /\ initializer' = initializer
        /\ reported' = reported /\ reentered' = reentered
    BY <1>0 DEF run_init_ends, Initialized, linking
  <1>2. /\ F \in Seq(FrameRecords) /\ n \in Nat \ {0} /\ n = Len(F) /\ n <= MaxStack
        /\ DOMAIN F = 1 .. n /\ n \in 1 .. n /\ t = F[n] /\ t.module = m /\ t.state = "Init"
        /\ initializer[m] /\ running
        /\ \A i \in 1 .. n :
              /\ F[i].module \in Modules /\ FrameOK(F[i], Above(F, i))
              /\ i # n => F[i].state = "Dependencies"
              /\ outer_active[F[i].module] = i - 1
              /\ F[i].module = m => i = n
        /\ DOMAIN outer_active = {F[i].module : i \in 1 .. n}
    BY <1>0, <1>1, OuterFrames
  <1>3. /\ m \in Modules /\ FrameOK(t, {}) /\ t \in FrameRecords
        /\ Len(members[m]) \in Nat /\ DOMAIN members[m] = 1 .. Len(members[m])
    <2>1. Above(F, n) = {}
      BY <1>2 DEF Above
    <2>2. m \in Modules /\ FrameOK(t, {})
      BY <1>2, <2>1
    <2> QED BY <2>2, MemberTypes DEF FrameOK
  <1>4. PICK g : g = [t EXCEPT !.state = "Exit"]
    OBVIOUS
  <1>5. g \in FrameRecords /\ g.module = m /\ g.next = t.next /\ g.state = "Exit"
    BY <1>2, <1>3, <1>4 DEF FrameRecords, States
  <1>6. /\ stack' \in Seq(FrameRecords) /\ Len(stack') = n /\ DOMAIN stack' = 1 .. n
        /\ \A i \in 1 .. n : stack'[i] = IF i = n THEN g ELSE F[i]
    <2>1. stack' = [F EXCEPT ![n] = g]
      BY <1>1, <1>2, <1>4
    <2> QED BY <1>2, <1>5, <2>1, ExceptSeq, LenProperties
  <1>7. LinkingOK' /\ Grows
    <2>1. LinkingOK'
      BY <1>1, <1>3 DEF LinkingOK
    <2> QED BY <1>1, <2>1 DEF Grows
  <1>8. m \notin initialized
    BY <1>2, <1>3 DEF FrameOK
  <1>9. /\ t.next > Len(members[m])
        /\ \A j \in DOMAIN members[m] : j < t.next /\ members[m][j].linked /\ Excused(m, j)
    <2>1. t.next > Len(members[m])
      BY <1>2, <1>3 DEF FrameOK
    <2>2. \A j \in DOMAIN members[m] : j < t.next
      BY <1>3, <2>1 DEF FrameRecords
    <2> QED BY <1>2, <1>3, <2>1, <2>2 DEF FrameOK
  <1>10. FrameOK(g, {})'
    <2>1. \A j \in DOMAIN members'[m] : members'[m][j].linked /\ Excused(m, j)'
      BY <1>1, <1>3, <1>7, <1>9, ExcuseKept
    <2>2. g.next \in 1 .. Len(members'[m]) + 1 /\ g.next > Len(members'[m])
      BY <1>1, <1>2, <1>3, <1>5, <1>9 DEF FrameOK
    <2> QED BY <1>1, <1>5, <2>1, <2>2 DEF FrameOK
  <1>11. FramesOK(stack)'
    <2>1. ASSUME NEW i \in 1 .. n
          PROVE  FrameOK(stack[i], Above(stack, i))'
      <3>1. CASE i = n
        <4>1. stack'[i] = g /\ Above(stack, i)' = {}
          BY <1>2, <1>6, <3>1 DEF Above
        <4> QED BY <1>10, <4>1
      <3>2. CASE i # n
        <4>1. PICK f, above : f = F[i] /\ above = Above(F, i)
          OBVIOUS
        <4>2. f.module # m /\ FrameOK(f, above)
          BY <1>2, <3>2, <4>1
        <4>3. FrameOK(f, above)'
          BY <1>1, <1>7, <4>2, FrameKept
        <4>4. stack'[i] = f
          BY <1>6, <3>2, <4>1
        <4>5. Above(stack, i)' = above
          <5>1. i < n /\ i + 1 \in 1 .. n
            BY <1>2, <3>2
          <5>2. stack'[i + 1].module = F[i + 1].module
            BY <1>2, <1>5, <1>6, <5>1
          <5> QED BY <1>2, <1>6, <4>1, <5>1, <5>2 DEF Above
        <4> QED BY <4>3, <4>4, <4>5
      <3> QED BY <3>1, <3>2
    <2> QED BY <1>2, <1>6, <2>1 DEF FramesOK
  <1>12. \A i \in 1 .. n : stack'[i].module = F[i].module /\ stack'[i].state # "Enter"
    BY <1>2, <1>5, <1>6
  <1>13. ActiveOK'
    <2>1. {stack'[i].module : i \in {j \in DOMAIN stack' : stack'[j].state # "Enter"}}
            = {F[i].module : i \in 1 .. n}
      BY <1>6, <1>12
    <2>2. ActiveAre(stack', active')
      BY <1>1, <1>2, <1>6, <1>12, <2>1 DEF ActiveAre
    <2>3. ActiveAre(outer', outer_active')
      BY <1>1 DEF ActiveAre
    <2>4. DOMAIN active' \subseteq Modules /\ \A x \in DOMAIN active' : active'[x] \in Nat
      <3>1. DOMAIN active' = {F[i].module : i \in 1 .. n}
        BY <1>1, <1>2
      <3>2. \A i \in 1 .. n : i - 1 \in Nat
        BY <1>2
      <3>3. \A i \in 1 .. n : active'[F[i].module] = i - 1
        BY <1>1, <1>2
      <3>4. \A i \in 1 .. n : F[i].module \in Modules
        BY <1>2
      <3> QED BY <3>1, <3>2, <3>3, <3>4
    <2> QED BY <2>2, <2>3, <2>4 DEF ActiveOK
  <1>14. FramesOK(outer)' /\ OuterWaits' /\ SharedReentered'
    <2>1. outer' \in Seq(FrameRecords) /\ Len(outer') = 0 /\ Len(outer') <= MaxStack
      BY <1>1, EmptySeq, RegistryAssumption
    <2>2. Entered(outer') = {}
      BY <1>1 DEF Entered
    <2> QED BY <1>1, <2>1, <2>2 DEF FramesOK, OuterWaits, SharedReentered
  <1>15. CountsOK'
    <2>1. returned' \in [Modules -> Nat]
      <3>1. returned \in [Modules -> Nat]
        BY DEF CountsOK
      <3> QED BY <1>1, <1>3, <3>1
    <2> QED BY <1>1, <2>1 DEF CountsOK
  <1>16. LinkedByFrame'
    <2> SUFFICES ASSUME NEW x \in Modules \ initialized', NEW j \in DOMAIN members[x],
                        Held(stack, x, j) \/ Held(F, x, j)
                 PROVE  Held(stack', x, j)
      BY <1>0, <1>1, <1>7, LinkedKept
    <2>1. Held(F, x, j)
      BY <1>1 DEF Held
    <2>2. PICK i \in 1 .. n : F[i].module = x /\ F[i].state # "Enter" /\ j < F[i].next
      BY <1>2, <2>1 DEF Held
    <2>3. i # n
      BY <1>1, <1>2, <2>2
    <2> QED BY <1>6, <2>2, <2>3 DEF Held
  <1>17. ImportsFirst'
    <2> SUFFICES ASSUME NEW x \in initialized', NEW j \in DOMAIN members[x]
                 PROVE  /\ members[x][j].linked
                        /\ \/ members[x][j].name \in initialized' \ {x}
                           \/ <<x, j>> \in dangling \/ x \in reentered
      BY <1>1 DEF ImportsFirst
    <2>1. CASE x \in initialized
      BY <1>1, <2>1 DEF ImportsFirst
    <2>2. CASE x \notin initialized
      <3>1. x = m /\ members[m][j].linked /\ Excused(m, j)
        BY <1>1, <1>9, <2>2
      <3> QED BY <1>1, <1>8, <3>1 DEF Excused
    <2> QED BY <2>1, <2>2
  <1>18. InitializedOnce'
    <2> SUFFICES ASSUME NEW x \in Modules,
                        NEW due, due = IF x \in initialized' /\ initializer[x] THEN 1 ELSE 0
                 PROVE  returned'[x] >= due /\ (x \notin outlived => returned'[x] = due)
      BY <1>1 DEF InitializedOnce
    <2>1. returned \in [Modules -> Nat]
      BY DEF CountsOK
    <2>2. CASE x = m
      <3>1. due = 1 /\ returned'[m] = returned[m] + 1
        BY <1>1, <1>2, <1>3, <2>1, <2>2
      <3>2. m \notin outlived => returned[m] = 0
        BY <1>3, <1>8 DEF InitializedOnce
      <3> QED BY <1>3, <2>1, <2>2, <3>1, <3>2
    <2>3. CASE x # m
      <3>1. due = IF x \in initialized /\ initializer[x] THEN 1 ELSE 0
        BY <1>1, <2>3
      <3>2. returned'[x] = returned[x]
        BY <1>1, <2>1, <2>3
      <3> QED BY <3>1, <3>2 DEF InitializedOnce
    <2> QED BY <2>2, <2>3
  <1>19. CycleIsReal' /\ reported' \in Seq(Modules)
    BY <1>1, <1>7, CycleKept
  <1> QED BY <1>7, <1>11, <1>13, <1>14, <1>15, <1>16, <1>17, <1>18, <1>19

\* The initializer has failed or is left alive, and the resolution fails.
LEMMA NotReturnedStep ==
    ASSUME RegistryInv, NEW how \in {"failed", "left"}, run_init_ends(how)
    PROVE  RegistryInv'
  <1> USE DEF RegistryInv
  <1>0. PICK F, m : F = outer /\ m = outer[Len(outer)].module
    OBVIOUS
  <1>1. /\ outer # <<>> /\ stack = <<>> /\ running' = FALSE /\ outer' = <<>> /\ outer_active' = << >>
        /\ failures < MaxFailures /\ failures' = failures + 1
        /\ dangling' = dangling \cup Pending(F)
        /\ alive' = [alive EXCEPT ![m] = IF how = "left" THEN @ + 1 ELSE @]
        /\ outlived' = IF how = "left" THEN outlived \cup {m} ELSE outlived
        /\ initialized' = initialized /\ returned' = returned /\ stack' = stack /\ active' = active
        /\ registered' = registered /\ members' = members /\ initializer' = initializer
        /\ reported' = reported /\ reentered' = reentered
    BY <1>0 DEF run_init_ends, linking, resolution
  <1>2. m \in Modules /\ FramesOK(F)
    BY <1>0, <1>1, OuterFrames
  <1>3. LinkingOK' /\ Grows
    <2>1. Pending(F) \subseteq Modules \X Nat
      BY <1>2, PendingType
    <2>2. LinkingOK'
      BY <1>1, <2>1 DEF LinkingOK
    <2>3. dangling \subseteq dangling'
      BY <1>1
    <2> QED BY <1>1, <2>2, <2>3, ExcusesGrow
  <1>4. FramesOK(stack)' /\ FramesOK(outer)'
    <2>1. outer' \in Seq(FrameRecords) /\ Len(outer') = 0 /\ Len(outer') <= MaxStack
      BY <1>1, EmptySeq, RegistryAssumption
    <2>2. FramesOK(outer)'
      BY <2>1 DEF FramesOK
    <2> QED BY <1>1, <1>3, <2>2, StackKept
  <1>5. ActiveOK' /\ OuterWaits' /\ SharedReentered'
    <2>1. ActiveAre(stack', active') /\ ActiveAre(outer', outer_active')
      BY <1>1 DEF ActiveOK, ActiveAre
    <2> QED BY <1>1, <2>1 DEF ActiveOK, OuterWaits, SharedReentered
  <1>6. CountsOK'
    <2>1. failures' \in 0 .. MaxFailures
      BY <1>1, RegistryAssumption DEF CountsOK
    <2>2. alive' \in [Modules -> Nat] /\ \A x \in Modules : alive'[x] > 0 => x \in outlived'
      BY <1>1, <1>2 DEF CountsOK
    <2> QED BY <1>1, <1>2, <2>1, <2>2 DEF CountsOK
  <1>7. LinkedByFrame'
    <2> SUFFICES ASSUME NEW x \in Modules \ initialized', NEW j \in DOMAIN members[x],
                        Held(stack, x, j) \/ Held(F, x, j)
                 PROVE  Excused(x, j)'
      BY <1>0, <1>1, <1>3, LinkedKept
    <2>1. Held(F, x, j)
      BY <1>1 DEF Held
    <2>2. Pending(F) \subseteq dangling'
      BY <1>1
    <2> QED BY <1>2, <1>3, <2>1, <2>2, Dropped
  <1>8. ImportsFirst' /\ CycleIsReal' /\ reported' \in Seq(Modules)
    BY <1>1, <1>3, ImportsKept, CycleKept
  <1>9. InitializedOnce'
    <2>1. outlived \subseteq outlived'
      BY <1>1
    <2> QED BY <1>1, <2>1 DEF InitializedOnce
  <1> QED BY <1>3, <1>4, <1>5, <1>6, <1>7, <1>8, <1>9

\* The module on top is done, and the frame below goes on.
LEMMA ExitStep ==
    ASSUME RegistryInv, exit
    PROVE  RegistryInv'
  <1> USE DEF RegistryInv
  <1>0. PICK n, t : n = Len(stack) /\ t = Top.module
    OBVIOUS
  <1>1. /\ stack # <<>> /\ Top.state = "Exit"
        /\ active' = [m \in DOMAIN active \ {t} |-> active[m]]
        /\ stack' = SubSeq(stack, 1, n - 1)
        /\ registered' = registered /\ members' = members /\ initializer' = initializer
        /\ initialized' = initialized /\ running' = running /\ outer' = outer
        /\ outer_active' = outer_active /\ alive' = alive /\ failures' = failures
        /\ returned' = returned /\ outlived' = outlived /\ dangling' = dangling
        /\ reentered' = reentered /\ reported' = reported
    BY <1>0 DEF exit, linking, waiting, past, broken
  <1>2. /\ n \in Nat \ {0} /\ DOMAIN stack = 1 .. n /\ Top = stack[n] /\ n \in 1 .. n
        /\ t \in Modules /\ stack[n].module = t /\ stack[n].state = "Exit" /\ n <= MaxStack
        /\ stack \in Seq(FrameRecords) /\ t \in initialized
        /\ \A i \in 1 .. n : stack[i].module \in Modules /\ FrameOK(stack[i], Above(stack, i))
    <2>1. FrameOK(Top, {})
      BY <1>1, TopFrame
    <2>2. t \in initialized
      BY <1>0, <1>1, <2>1 DEF FrameOK
    <2> QED BY <1>0, <1>1, <2>2, TopFrame
  <1>3. /\ stack' \in Seq(FrameRecords) /\ Len(stack') = n - 1 /\ DOMAIN stack' = 1 .. n - 1
        /\ \A i \in 1 .. n - 1 : stack'[i] = stack[i]
    <2>1. n - 1 \in 0 .. n /\ 1 \in 1 .. n
      BY <1>2
    <2> QED BY <1>0, <1>1, <1>2, <2>1
  <1>4. ASSUME NEW i \in 1 .. n - 1
        PROVE  /\ i \in 1 .. n /\ i # n /\ stack[i].state = "Dependencies" /\ stack[i].next > 1
               /\ stack[i].module # t /\ i + 1 \in 1 .. n /\ Above(stack, i) = {stack[i + 1].module}
               /\ members[stack[i].module][stack[i].next - 1].name = stack[i + 1].module
    <2>1. i \in 1 .. n /\ i # n /\ i + 1 \in 1 .. n
      BY <1>2
    <2>2. /\ stack[i].state = "Dependencies" /\ stack[i].next > 1
          /\ Above(stack, i) = {stack[i + 1].module}
          /\ members[stack[i].module][stack[i].next - 1].name = stack[i + 1].module
      BY <1>0, <1>1, BelowTop
    <2>3. stack[i].module # t
      BY <1>1, <1>2, <2>1, <2>2, FramesDistinct
    <2> QED BY <2>1, <2>2, <2>3
  <1>5. LinkingOK' /\ Grows
    <2>1. LinkingOK'
      BY <1>1 DEF LinkingOK
    <2> QED BY <1>1, <2>1, ExcusesGrow
  <1>6. FramesOK(outer)'
    BY <1>1, <1>5, OuterKept
  <1>7. FramesOK(stack)'
    <2>1. ASSUME NEW i \in 1 .. n - 1
          PROVE  FrameOK(stack[i], Above(stack, i))'
      <3>1. PICK f, above : f = stack[i] /\ above = Above(stack, i)
        OBVIOUS
      <3>2. FrameOK(f, above)'
        BY <1>1, <1>2, <1>4, <1>5, <3>1, FrameKept
      <3>3. stack'[i] = f
        BY <1>3, <3>1
      <3>4. CASE i < n - 1
        <4>1. i + 1 \in 1 .. n - 1
          BY <1>2, <3>4
        <4>2. Above(stack, i)' = above
          BY <1>3, <1>4, <3>1, <3>4, <4>1 DEF Above
        <4> QED BY <3>2, <3>3, <4>2
      <3>5. CASE i = n - 1
        <4>1. Above(stack, i)' = {}
          BY <1>2, <1>3, <3>5 DEF Above
        <4>2. i + 1 = n /\ above = {t}
          BY <1>2, <1>4, <3>1, <3>5
        <4>3. f.module \in Modules /\ f.next > 1 /\ members[f.module][f.next - 1].name = t
              /\ f.next \in 1 .. Len(members[f.module]) + 1
          BY <1>2, <1>4, <3>1, <4>2 DEF FrameOK
        <4>4. \A j \in DOMAIN members[f.module] : j = f.next - 1 => Excused(f.module, j)'
          BY <1>1, <1>2, <4>3 DEF Excused
        <4>5. FrameOK(f, {})'
          BY <1>1, <3>2, <4>4 DEF FrameOK
        <4> QED BY <3>3, <4>1, <4>5
      <3> QED BY <1>2, <3>4, <3>5
    <2>2. Len(stack') <= MaxStack
      <3>1. MaxStack \in Nat
        BY RegistryAssumption
      <3> QED BY <1>2, <1>3, <3>1
    <2> QED BY <1>3, <2>1, <2>2 DEF FramesOK
  <1>8. ActiveOK'
    <2>1. \A i \in 1 .. n : stack[i].state # "Enter"
      <3>1. \A i \in 1 .. n : i = n \/ i \in 1 .. n - 1
        BY <1>2
      <3> QED BY <1>2, <1>4, <3>1
    <2>2. DOMAIN active = {stack[i].module : i \in 1 .. n} /\ \A i \in 1 .. n : active[stack[i].module] = i - 1
      BY <1>2, <2>1 DEF ActiveOK, ActiveAre
    <2>3. DOMAIN active' = {stack[i].module : i \in 1 .. n - 1}
      <3>1. \A i \in 1 .. n : i = n \/ i \in 1 .. n - 1
        BY <1>2
      <3> QED BY <1>1, <1>2, <1>4, <2>2, <3>1
    <2>4. ASSUME NEW i \in 1 .. n - 1
          PROVE  active'[stack'[i].module] = i - 1
      <3>1. stack[i].module \in DOMAIN active'
        BY <2>3
      <3>2. stack'[i] = stack[i] /\ active[stack[i].module] = i - 1
        BY <1>3, <1>4, <2>2
      <3> QED BY <1>1, <3>1, <3>2
    <2>5. {stack'[i].module : i \in {j \in DOMAIN stack' : stack'[j].state # "Enter"}}
            = {stack[i].module : i \in 1 .. n - 1}
      <3>1. \A i \in 1 .. n - 1 : stack'[i] = stack[i] /\ stack'[i].state # "Enter"
        BY <1>3, <1>4
      <3>2. {j \in DOMAIN stack' : stack'[j].state # "Enter"} = 1 .. n - 1
        BY <1>3, <3>1
      <3> QED BY <3>1, <3>2
    <2>6. ActiveAre(stack', active')
      BY <1>3, <2>3, <2>4, <2>5 DEF ActiveAre
    <2>7. DOMAIN active' \subseteq Modules /\ \A m \in DOMAIN active' : active'[m] \in Nat
      BY <1>1 DEF ActiveOK
    <2>8. ActiveAre(outer, outer_active)'
      <3>1. ActiveAre(outer, outer_active) /\ outer' = outer /\ outer_active' = outer_active
        BY <1>1 DEF ActiveOK
      <3> QED BY <3>1 DEF ActiveAre
    <2> QED BY <2>6, <2>7, <2>8 DEF ActiveOK
  <1>9. SharedReentered'
    BY <1>1, <1>2, <1>3, <1>4 DEF SharedReentered, Entered
  <1>10. LinkedByFrame'
    <2> SUFFICES ASSUME NEW m \in Modules \ initialized', NEW j \in DOMAIN members[m],
                        Held(stack, m, j) \/ Held(outer, m, j)
                 PROVE  Held(stack', m, j) \/ Held(outer', m, j)
      BY <1>1, <1>5, LinkedKept
    <2>1. CASE Held(stack, m, j)
      <3>1. PICK i \in 1 .. n : stack[i].module = m /\ stack[i].state # "Enter" /\ j < stack[i].next
        BY <1>2, <2>1 DEF Held
      <3>2. i # n /\ i \in 1 .. n - 1
        BY <1>1, <1>2, <3>1
      <3> QED BY <1>3, <3>1, <3>2 DEF Held
    <2>2. CASE Held(outer, m, j)
      BY <1>1, <2>2
    <2> QED BY <2>1, <2>2
  <1>11. CountsOK'
    BY <1>1 DEF CountsOK
  <1>12. ImportsFirst' /\ InitializedOnce' /\ CycleIsReal' /\ OuterWaits' /\ reported' \in Seq(Modules)
    <2>1. InitializedOnce' /\ OuterWaits'
      BY <1>1 DEF InitializedOnce, OuterWaits
    <2> QED BY <1>1, <1>5, <2>1, ImportsKept, CycleKept
  <1> QED BY <1>5, <1>6, <1>7, <1>8, <1>9, <1>10, <1>11, <1>12

-----------------------------------------------------------------------------
(* The registry. *)

LEMMA RegistryInit ==
    ASSUME Init
    PROVE  RegistryInv
  <1>0. PICK program \in Programs : members = [m \in Modules |-> Load(program[m])]
    BY DEF Init
  <1>1. ASSUME NEW m \in Modules
        PROVE  /\ members[m] \in Seq(MemberRecords)
               /\ \A j \in DOMAIN members[m] : ~members[m][j].linked
    <2>1. PICK l : l = program[m] /\ members[m] = Load(l)
      BY <1>0
    <2>2. l \in Seq(Names)
      BY <2>1, RegistryAssumption DEF Names
    <2>3. Len(l) \in Nat /\ DOMAIN l = 1 .. Len(l) /\ \A j \in 1 .. Len(l) : l[j] \in Names
      BY <2>2, LenProperties, ElementOfSeq
    <2>4. members[m] = [j \in 1 .. Len(l) |-> [name |-> l[j], linked |-> FALSE]]
      BY <2>1, <2>3 DEF Load, UnresolvedImport
    <2>5. \A j \in 1 .. Len(l) : [name |-> l[j], linked |-> FALSE] \in MemberRecords
      BY <2>3 DEF MemberRecords
    <2> QED BY <2>3, <2>4, <2>5
  <1>2. members \in [Modules -> Seq(MemberRecords)]
    BY <1>0, <1>1
  <1>3. /\ registered = {} /\ initializer \in [Modules -> BOOLEAN] /\ initialized = {}
        /\ stack = <<>> /\ active = << >> /\ running = FALSE /\ outer = <<>> /\ outer_active = << >>
        /\ alive = [m \in Modules |-> 0] /\ reported = <<>> /\ failures = 0
        /\ returned = [m \in Modules |-> 0] /\ outlived = {} /\ dangling = {} /\ reentered = {}
    BY DEF Init
  <1>4. /\ DOMAIN stack = {} /\ Len(stack) = 0 /\ DOMAIN active = {} /\ DOMAIN outer = {}
        /\ Len(outer) = 0 /\ DOMAIN outer_active = {}
    BY <1>3
  <1>5. LinkingOK
    BY <1>2, <1>3 DEF LinkingOK
  <1>6. CountsOK
    <2>1. MaxFailures \in Nat
      BY RegistryAssumption
    <2>2. failures \in 0 .. MaxFailures
      BY <1>3, <2>1
    <2>3. alive \in [Modules -> Nat] /\ returned \in [Modules -> Nat]
      BY <1>3
    <2>4. \A m \in Modules : ~(alive[m] > 0)
      <3>1. alive = [m \in Modules |-> 0]
        BY <1>3
      <3>2. ASSUME NEW m \in Modules
            PROVE  alive[m] = 0
        BY <3>1
      <3> QED
        <4>1. ~(0 > 0)
          OBVIOUS
        <4> QED BY <3>2, <4>1
    <2>5. running \in BOOLEAN /\ outlived \subseteq Modules /\ ~running
      BY <1>3
    <2> QED BY <2>2, <2>3, <2>4, <2>5 DEF CountsOK
  <1>7. ActiveOK /\ SharedReentered
    <2>1. ActiveAre(stack, active) /\ ActiveAre(outer, outer_active)
      BY <1>4 DEF ActiveAre
    <2> QED BY <1>4, <2>1 DEF ActiveOK, SharedReentered
  <1>8. FramesOK(stack) /\ FramesOK(outer)
    <2>1. stack \in Seq(FrameRecords) /\ outer \in Seq(FrameRecords)
      BY <1>3, EmptySeq
    <2>2. Len(stack) <= MaxStack /\ Len(outer) <= MaxStack
      BY <1>4, RegistryAssumption
    <2> QED BY <1>4, <2>1, <2>2 DEF FramesOK
  <1>9. OuterWaits /\ LinkedByFrame
    BY <1>1, <1>3 DEF OuterWaits, LinkedByFrame
  <1>10. reported \in Seq(Modules) /\ CycleIsReal /\ ImportsFirst /\ InitializedOnce
    BY <1>3, EmptySeq DEF CycleIsReal, ImportsFirst, InitializedOnce
  <1> QED BY <1>5, <1>6, <1>7, <1>8, <1>9, <1>10 DEF RegistryInv

LEMMA RegistryStep ==
    ASSUME RegistryInv, [Next]_vars
    PROVE  RegistryInv'
  <1>1. CASE enter
    BY <1>1, EnterStep
  <1>2. CASE dependencies
    BY <1>2, DependenciesStep
  <1>3. CASE init
    BY <1>3, InitStep
  <1>4. CASE exit
    BY <1>4, ExitStep
  <1>5. CASE initializer_ends
    BY <1>5, ReturnedStep, NotReturnedStep DEF initializer_ends
  <1>6. CASE run_ready
    BY <1>6, RunReadyStep
  <1>7. ASSUME NEW m \in Modules,
               add_module(m) \/ get_module(m) \/ \E ok \in BOOLEAN : late(m, ok)
        PROVE  RegistryInv'
    BY <1>7, AddModuleStep, GetModuleStep, LateStep
  <1>8. CASE UNCHANGED vars
    <2>1. /\ registered' = registered /\ running' = running /\ alive' = alive
          /\ failures' = failures /\ returned' = returned /\ stack' = stack /\ outer' = outer
          /\ initializer' = initializer /\ initialized' = initialized /\ outlived' = outlived
          /\ UNCHANGED <<members, initializer, initialized, resolution, outer, outer_active, reported,
                         outlived, broken>>
      BY <1>8 DEF vars, linking, resolution, waiting, past
    <2>2. CountsOK' /\ OuterWaits' /\ InitializedOnce' /\ registered' \subseteq Modules
      BY <2>1 DEF RegistryInv, LinkingOK, CountsOK, OuterWaits, InitializedOnce
    <2> QED BY <2>1, <2>2, AsideStep
  <1> QED BY <1>1, <1>2, <1>3, <1>4, <1>5, <1>6, <1>7, <1>8 DEF Next, resolve

\* A stack is a path of imports whose modules are not initialized yet.
LEMMA PathOfImports ==
    ASSUME LinkingOK, NEW F, FramesOK(F)
    PROVE  IsImportPath(F) /\ NotInitializedYet(F)
  <1>1. Len(F) \in Nat /\ DOMAIN F = 1 .. Len(F) /\ \A i \in 1 .. Len(F) : F[i].module \in Modules
    BY FrameTypes DEF FramesOK
  <1>2. ASSUME NEW i \in 2 .. Len(F)
        PROVE  /\ F[i - 1].state = "Dependencies" /\ F[i - 1].next > 1
               /\ members[F[i - 1].module][F[i - 1].next - 1] = [name |-> F[i].module, linked |-> TRUE]
    <2>1. i - 1 \in 1 .. Len(F) /\ i - 1 < Len(F) /\ (i - 1) + 1 = i
      BY <1>1
    <2>2. PICK f, m, k : f = F[i - 1] /\ m = f.module /\ k = f.next
      OBVIOUS
    <2>3. F[i].module \in Above(F, i - 1) /\ FrameOK(f, Above(F, i - 1)) /\ m \in Modules
      BY <1>1, <2>1, <2>2 DEF FramesOK, Above
    <2>4. /\ f.state = "Dependencies" /\ k > 1 /\ k \in 1 .. Len(members[m]) + 1
          /\ members[m][k - 1].name = F[i].module /\ members[m][k - 1].linked
      BY <2>2, <2>3 DEF FrameOK
    <2>5. k - 1 \in DOMAIN members[m] /\ members[m][k - 1] \in MemberRecords
      <3>1. Len(members[m]) \in Nat /\ DOMAIN members[m] = 1 .. Len(members[m])
        BY <2>3, MemberTypes
      <3>2. k - 1 \in DOMAIN members[m]
        BY <2>4, <3>1
      <3> QED BY <2>3, <3>2, MemberTypes
    <2>6. members[m][k - 1] = [name |-> F[i].module, linked |-> TRUE]
      BY <2>4, <2>5 DEF MemberRecords
    <2> QED BY <2>2, <2>4, <2>6
  <1>3. NotInitializedYet(F)
    BY <1>1 DEF FramesOK, FrameOK, NotInitializedYet
  <1> QED BY <1>2, <1>3 DEF IsImportPath

\* The modules that ModuleRegistry::resolve_module marks active are those on its stack, the stack is
\* a path of imports, and what is reported as a cycle of imports is one, for any modules and imports,
\* whatever fails and whatever the initializers do.
THEOREM ResolutionStackCorrect == Spec => []ResolutionStack
  <1>1. ASSUME RegistryInv
        PROVE  ResolutionStack
    <2> USE <1>1 DEF RegistryInv
    <2>1. TypeOK
      <3>1. /\ stack \in Seq([module : Modules, state : States, next : Nat])
            /\ outer \in Seq([module : Modules, state : States, next : Nat])
            /\ Len(stack) <= MaxStack /\ Len(outer) <= MaxStack
        BY DEF FramesOK, FrameRecords
      <3>2. members \in [Modules -> Seq([name : Names, linked : BOOLEAN])]
        BY DEF LinkingOK, MemberRecords
      <3> QED BY <3>1, <3>2 DEF TypeOK, LinkingOK, CountsOK, ActiveOK
    <2>2. ActiveIsStack
      BY DEF ActiveIsStack, ActiveOK
    <2>3. StackIsImportPath
      <3>1. PICK F, waiters : F = stack /\ waiters = outer
        OBVIOUS
      <3>2. FramesOK(F) /\ FramesOK(waiters)
        BY <3>1
      <3>3. IsImportPath(F) /\ NotInitializedYet(F) /\ IsImportPath(waiters) /\ NotInitializedYet(waiters)
        BY <3>2, PathOfImports
      <3> QED BY <3>1, <3>3 DEF StackIsImportPath
    <2> QED BY <2>1, <2>2, <2>3 DEF ResolutionStack
  <1> QED BY <1>1, RegistryInit, RegistryStep, PTL DEF Spec

\* Every module is initialized after its imports, but for imports that a failed resolution has linked
\* and modules that a resolution came to while another one that had begun them was waiting; and its
\* initializer returns once, unless one has outlived its resolution (ModuleRegistry::resolve_module,
\* Context::run_init), for any modules and imports.
THEOREM InitializedInOrderCorrect == Spec => []InitializedInOrder
  <1>1. RegistryInv => InitializedInOrder
    BY DEF RegistryInv, InitializedInOrder
  <1> QED BY <1>1, RegistryInit, RegistryStep, PTL DEF Spec

-----------------------------------------------------------------------------
(* Numbers. *)

\* A set of numbers has a least element. What follows by induction is derived from this.
LEMMA LeastNumber ==
    ASSUME NEW N, N \subseteq Nat, N # {}
    PROVE  \E x \in N : \A y \in N : x <= y
  <1> DEFINE R == {ss \in Nat \X Nat : ss[1] < ss[2]}
  <1>1. IsWellFoundedOn(R, Nat)
    BY NatLessThanWellFounded, Zenon DEF OpToRel
  <1>2. PICK x \in N : \A y \in N : ~(<<y, x>> \in R)
    <2> HIDE DEF R
    <2> QED BY <1>1, WFMin
  <1>3. \A y \in N : (y < x) => <<y, x>> \in R
    OBVIOUS
  <1>4. \A y \in N : ~(y < x)
    <2> HIDE DEF R
    <2> QED BY <1>2, <1>3
  <1>5. \A y \in N : x <= y
    BY <1>4
  <1> QED BY <1>5

\* A set that holds 0 and the successor of each of its elements below n reaches n.
LEMMA UpTo ==
    ASSUME NEW n \in Nat, NEW Reached,
           0 \in Reached, \A k \in 0..n - 1 : k \in Reached => k + 1 \in Reached
    PROVE  \A k \in 0..n : k \in Reached
  <1> DEFINE bad == {k \in 0..n : k \notin Reached}
  <1> SUFFICES ASSUME bad # {}
               PROVE  FALSE
    OBVIOUS
  <1>1. bad \subseteq Nat
    OBVIOUS
  <1> HIDE DEF bad
  <1>2. PICK k \in bad : \A j \in bad : k <= j
    BY <1>1, LeastNumber
  <1>3. k \in 0..n /\ k \notin Reached /\ \A j \in 0..n : j \notin Reached => k <= j
    BY <1>2 DEF bad
  <1>4. k # 0 /\ k - 1 \in 0..n - 1 /\ k - 1 \in 0..n
    BY <1>3
  <1>5. k - 1 \in Reached
    BY <1>3, <1>4
  <1>6. (k - 1) + 1 \in Reached
    BY <1>4, <1>5
  <1> QED BY <1>3, <1>6

-----------------------------------------------------------------------------
(* The layout of an instruction. *)

Offsets(f, widths, n) == f = [k \in 1..n |-> IF k = 1 THEN 1 ELSE f[k - 1] + widths[k - 1]]

\* Such a function exists.
LEMMA OffsetsExist ==
    ASSUME NEW widths, NEW n \in Nat
    PROVE  \E f : Offsets(f, widths, n)
  <1> DEFINE Reached == {m \in 0..n : \E f : Offsets(f, widths, m)}
             step(f, k) == IF k = 1 THEN 1 ELSE f[k - 1] + widths[k - 1]
  <1>1. 0 \in Reached
    <2> DEFINE f == [k \in 1..0 |-> 1]
    <2>1. 1..0 = {}
      OBVIOUS
    <2>2. f = [k \in 1..0 |-> step(f, k)]
      BY <2>1
    <2>3. Offsets(f, widths, 0)
      BY <2>2, Zenon DEF Offsets
    <2> HIDE DEF f
    <2> QED BY <2>3
  <1>2. ASSUME NEW m \in 0..n - 1, m \in Reached
        PROVE  m + 1 \in Reached
    <2>1. PICK g : g = [k \in 1..m |-> step(g, k)]
      BY <1>2, Zenon DEF Offsets
    <2>2. PICK last : last = step(g, m + 1)
      OBVIOUS
    <2> DEFINE f == [k \in 1..m + 1 |-> IF k = m + 1 THEN last ELSE g[k]]
    <2>3. ASSUME NEW k \in 1..m + 1
          PROVE  f[k] = step(f, k)
      <3>1. k # 1 => k - 1 \in 1..m + 1 /\ k - 1 # m + 1
        OBVIOUS
      <3>2. k # 1 => f[k - 1] = g[k - 1]
        BY <3>1
      <3>3. CASE k = m + 1
        BY <2>2, <3>2, <3>3
      <3>4. CASE k # m + 1
        <4>1. f[k] = g[k] /\ k \in 1..m
          BY <3>4
        <4>2. g[k] = step(g, k)
          BY <2>1, <4>1
        <4> HIDE DEF f
        <4> QED BY <3>2, <4>1, <4>2
      <3> QED BY <3>3, <3>4
    <2>4. f = [k \in 1..m + 1 |-> step(f, k)]
      <3> DEFINE r == [k \in 1..m + 1 |-> step(f, k)]
      <3>1. \A k \in 1..m + 1 : f[k] = r[k]
        <4> HIDE DEF f, step
        <4> QED BY <2>3
      <3>2. f = [k \in 1..m + 1 |-> f[k]] /\ r = [k \in 1..m + 1 |-> r[k]]
        OBVIOUS
      <3>3. f = r
        <4> HIDE DEF f, r
        <4> QED BY <3>1, <3>2
      <3> QED BY <3>3, Zenon
    <2>5. Offsets(f, widths, m + 1)
      BY <2>4, Zenon DEF Offsets
    <2> HIDE DEF f
    <2> QED BY <2>5
  <1> HIDE DEF Reached
  <1>3. n \in Reached
    BY <1>1, <1>2, UpTo
  <1> QED BY <1>3 DEF Reached

\* Operands are behind the opcode, and an instruction has a size.
LEMMA OffsetNat ==
    ASSUME NEW shape, NEW n \in Nat, DOMAIN shape = 1..n, NEW i \in 1..n + 1
    PROVE  FieldOffset(shape, i) \in Nat \ {0}
  <1> DEFINE widths == Widths(shape)
  <1>1. \A k \in 1..n : widths[k] \in Nat
    BY DEF Widths, Width
  <1> HIDE DEF widths
  <1>2. PICK f : f = CHOOSE g : Offsets(g, widths, i)
    OBVIOUS
  <1>3. Offsets(f, widths, i)
    <2>1. \E g : Offsets(g, widths, i)
      <3>1. i \in Nat
        OBVIOUS
      <3> QED BY <3>1, OffsetsExist, Zenon
    <2> QED BY <1>2, <2>1, Zenon
  <1>4. \A k \in 1..i : f[k] = IF k = 1 THEN 1 ELSE f[k - 1] + widths[k - 1]
    BY <1>3 DEF Offsets
  <1>5. FieldOffset(shape, i) = f[i]
    BY <1>2, Zenon DEF FieldOffset, Offsets, widths
  <1> DEFINE Reached == {k \in 0..i : k = 0 \/ f[k] \in Nat \ {0}}
  <1>6. 0 \in Reached
    OBVIOUS
  <1>7. ASSUME NEW k \in 0..i - 1, k \in Reached
        PROVE  k + 1 \in Reached
    <2>1. f[k + 1] = IF k + 1 = 1 THEN 1 ELSE f[k] + widths[k]
      <3>1. k + 1 \in 1..i /\ (k + 1) - 1 = k
        OBVIOUS
      <3> QED BY <1>4, <3>1
    <2>2. k # 0 => k \in 1..n
      OBVIOUS
    <2>3. k # 0 => f[k] \in Nat \ {0} /\ widths[k] \in Nat
      BY <1>1, <1>7, <2>2
    <2> QED BY <2>1, <2>3
  <1> HIDE DEF Reached
  <1>8. i \in Reached
    <2>1. i \in Nat /\ i \in 0..i
      OBVIOUS
    <2>2. \A k \in 0..i : k \in Reached
      BY <1>6, <1>7, <2>1, UpTo
    <2> QED BY <2>1, <2>2
  <1> QED BY <1>5, <1>8 DEF Reached

\* Instructions with operands of the same widths have the same layout.
LEMMA SameLayout ==
    ASSUME NEW s, NEW t, Widths(s) = Widths(t), Len(s) = Len(t)
    PROVE  (\A i : FieldOffset(s, i) = FieldOffset(t, i)) /\ Size(s) = Size(t)
  <1>1. \A i : FieldOffset(s, i) = FieldOffset(t, i)
    BY Zenon DEF FieldOffset
  <1> QED BY <1>1, Zenon DEF Size

-----------------------------------------------------------------------------
(* What the reader decodes. *)

\* A function that is defined from the end: each place is last, bad, or refers to a later one.
Backward(f, n, good, first, next, bad) ==
    f = [p \in 0..n |-> IF p = n THEN <<>>
                        ELSE IF p \notin good THEN bad ELSE <<first[p]>> \o f[next[p]]]

\* Such a function exists.
LEMMA BackwardExists ==
    ASSUME NEW n \in Nat, NEW good, NEW first, NEW next, NEW bad,
           \A p \in good : p \in 0..n - 1 => next[p] \in p + 1..n
    PROVE  \E f : Backward(f, n, good, first, next, bad)
  <1> DEFINE step(f, p) == IF p = n THEN <<>>
                           ELSE IF p \notin good THEN bad ELSE <<first[p]>> \o f[next[p]]
             Reached == {m \in 0..n : \E f : f = [p \in n - m..n |-> step(f, p)]}
  <1>1. 0 \in Reached
    <2> DEFINE f == [p \in n - 0..n |-> <<>>]
    <2>1. \A p \in n - 0..n : p = n
      OBVIOUS
    <2>2. \A p \in n - 0..n : step(f, p) = <<>>
      BY <2>1
    <2>3. f = [p \in n - 0..n |-> step(f, p)]
      <3> HIDE DEF step
      <3> QED BY <2>2
    <2> HIDE DEF f, step
    <2>4. \E h : h = [p \in n - 0..n |-> step(h, p)]
      BY <2>3
    <2> QED BY <2>4
  <1>2. ASSUME NEW m \in 0..n - 1, m \in Reached
        PROVE  m + 1 \in Reached
    <2>1. PICK g : g = [p \in n - m..n |-> step(g, p)]
      <3> HIDE DEF step
      <3> QED BY <1>2
    <2>2. PICK q \in 0..n - 1 : q = n - (m + 1)
      OBVIOUS
    <2>3. PICK last : last = step(g, q)
      OBVIOUS
    <2> DEFINE f == [p \in q..n |-> IF p = q THEN last ELSE g[p]]
    <2>4. ASSUME NEW p \in q..n
          PROVE  f[p] = step(f, p)
      <3>1. p # n /\ p \in good => next[p] \in q..n /\ next[p] # q
        BY <2>2
      <3>2. p # n /\ p \in good => f[next[p]] = g[next[p]]
        BY <3>1
      <3>3. step(f, p) = step(g, p)
        <4> HIDE DEF f
        <4> QED BY <3>2
      <3>4. CASE p = q
        <4>1. f[p] = last
          BY <3>4
        <4> HIDE DEF f, step
        <4> QED BY <2>3, <3>3, <3>4, <4>1
      <3>5. CASE p # q
        <4>1. f[p] = g[p] /\ p \in n - m..n
          BY <2>2, <3>5
        <4>2. g[p] = step(g, p)
          <5> HIDE DEF step
          <5> QED BY <2>1, <4>1
        <4> HIDE DEF f, step
        <4> QED BY <3>3, <4>1, <4>2
      <3> QED BY <3>4, <3>5
    <2>5. f = [p \in q..n |-> step(f, p)]
      <3> DEFINE r == [p \in q..n |-> step(f, p)]
      <3>1. \A p \in q..n : f[p] = r[p]
        <4> HIDE DEF f, step
        <4> QED BY <2>4
      <3>2. f = [p \in q..n |-> f[p]] /\ r = [p \in q..n |-> r[p]]
        <4> HIDE DEF step
        <4> QED OBVIOUS
      <3>3. f = r
        <4> HIDE DEF f, r
        <4> QED BY <3>1, <3>2
      <3> HIDE DEF f, step
      <3> QED BY <3>3, Zenon
    <2> HIDE DEF f, step
    <2>6. \E h : h = [p \in n - (m + 1)..n |-> step(h, p)]
      BY <2>2, <2>5
    <2> QED BY <2>6
  <1> HIDE DEF Reached
  <1>3. n \in Reached
    <2>1. n \in 0..n
      OBVIOUS
    <2>2. \A m \in 0..n : m \in Reached
      BY <1>1, <1>2, UpTo
    <2> QED BY <2>1, <2>2
  <1>4. PICK f : f = [p \in n - n..n |-> step(f, p)]
    <2> HIDE DEF step
    <2> QED BY <1>3 DEF Reached
  <1>5. n - n = 0
    OBVIOUS
  <1>6. f = [p \in 0..n |-> step(f, p)]
    <2> HIDE DEF step
    <2> QED BY <1>4, <1>5
  <1>7. Backward(f, n, good, first, next, bad)
    BY <1>6, Zenon DEF Backward
  <1> QED BY <1>7

ShapeAt(p) == ReadTable[w.ops[p]]
\* The reader finds an instruction at p.
Fine(p) ==
    /\ p \in DOMAIN w.ops /\ w.ops[p] \in Ops
    /\ p + Size(ShapeAt(p)) <= w.size
    /\ \A i \in DOMAIN ShapeAt(p) : p + FieldOffset(ShapeAt(p), i) \in DOMAIN w.tape
Instr(p) ==
    [offset |-> p, op |-> w.ops[p],
     args |-> [i \in DOMAIN ShapeAt(p) |-> w.tape[p + FieldOffset(ShapeAt(p), i)]]]

\* The function that read_instructions picks.
Reads(f) ==
    f = [p \in 0..w.size |->
          IF p = w.size THEN <<>>
          ELSE IF p \notin DOMAIN w.ops \/ w.ops[p] \notin Ops THEN <<Bad>>
          ELSE LET shape == ReadTable[w.ops[p]]
                   pos(i) == p + FieldOffset(shape, i)
               IN IF p + Size(shape) > w.size \/ \E i \in DOMAIN shape : pos(i) \notin DOMAIN w.tape
                  THEN <<Bad>>
                  ELSE <<[offset |-> p, op |-> w.ops[p], args |-> [i \in DOMAIN shape |-> w.tape[pos(i)]]]>>
                       \o f[p + Size(shape)]]

\* The shapes of instructions.
LEMMA ShapeIs ==
    ASSUME NEW op \in Ops
    PROVE  /\ Len(ReadTable[op]) \in Nat /\ DOMAIN ReadTable[op] = 1..Len(ReadTable[op])
           /\ Size(ReadTable[op]) \in Nat \ {0}
           /\ \A i \in DOMAIN ReadTable[op] : FieldOffset(ReadTable[op], i) \in Nat \ {0}
  <1>1. PICK shape : shape = ReadTable[op]
    OBVIOUS
  <1>2. shape \in Seq({L, P, M, O, U, W})
    BY <1>1, EncodingsAgree
  <1>3. PICK n \in Nat : n = Len(shape) /\ DOMAIN shape = 1..n
    BY <1>2
  <1>4. \A i \in 1..n + 1 : FieldOffset(shape, i) \in Nat \ {0}
    BY <1>3, OffsetNat
  <1>5. Size(shape) \in Nat \ {0}
    <2>1. n + 1 \in 1..n + 1
      OBVIOUS
    <2>2. FieldOffset(shape, n + 1) \in Nat \ {0}
      BY <1>4, <2>1, Zenon
    <2> QED BY <1>3, <2>2, Zenon DEF Size
  <1>6. \A i \in DOMAIN shape : FieldOffset(shape, i) \in Nat \ {0}
    BY <1>3, <1>4
  <1> QED BY <1>1, <1>3, <1>5, <1>6, Zenon

\* What it does at each position.
LEMMA ReadsAre ==
    ASSUME WriterOK
    PROVE  \E f : /\ read_instructions = f[0]
                  /\ \A p \in 0..w.size :
                        f[p] = IF p = w.size THEN <<>>
                               ELSE IF ~Fine(p) THEN <<Bad>>
                               ELSE <<Instr(p)>> \o f[p + Size(ShapeAt(p))]
  <1> DEFINE good == {p \in 0..w.size - 1 : Fine(p)}
             first == [p \in good |-> Instr(p)]
             next == [p \in good |-> p + Size(ShapeAt(p))]
             body(f, p) == IF p = w.size THEN <<>>
                           ELSE IF p \notin DOMAIN w.ops \/ w.ops[p] \notin Ops THEN <<Bad>>
                           ELSE LET shape == ReadTable[w.ops[p]]
                                    pos(i) == p + FieldOffset(shape, i)
                                IN IF p + Size(shape) > w.size
                                      \/ \E i \in DOMAIN shape : pos(i) \notin DOMAIN w.tape
                                   THEN <<Bad>>
                                   ELSE <<[offset |-> p, op |-> w.ops[p],
                                           args |-> [i \in DOMAIN shape |-> w.tape[pos(i)]]]>>
                                        \o f[p + Size(shape)]
             plain(f, p) == IF p = w.size THEN <<>>
                            ELSE IF ~Fine(p) THEN <<Bad>>
                            ELSE <<Instr(p)>> \o f[p + Size(ShapeAt(p))]
  <1>1. w.size \in Nat
    BY DEF WriterOK
  <1>2. \A p \in DOMAIN w.ops : w.ops[p] \in Ops => Size(ShapeAt(p)) \in Nat \ {0}
    BY ShapeIs DEF ShapeAt
  <1>3. ASSUME NEW f, NEW p \in 0..w.size
        PROVE  body(f, p) = plain(f, p)
    <2>1. CASE p = w.size
      BY <2>1
    <2>2. CASE p # w.size /\ ~(p \in DOMAIN w.ops /\ w.ops[p] \in Ops)
      BY <2>2 DEF Fine
    <2>3. CASE p # w.size /\ p \in DOMAIN w.ops /\ w.ops[p] \in Ops
      <3>1. PICK shape : shape = ShapeAt(p)
        OBVIOUS
      <3>2. Fine(p) <=> ~(\/ p + Size(shape) > w.size
                          \/ \E i \in DOMAIN shape : p + FieldOffset(shape, i) \notin DOMAIN w.tape)
        <4>1. Size(shape) \in Nat
          BY <1>2, <2>3, <3>1
        <4>2. (p + Size(shape) <= w.size) = ~(p + Size(shape) > w.size)
          BY <1>1, <4>1
        <4> QED BY <2>3, <3>1, <4>2, Zenon DEF Fine
      <3>3. Instr(p) = [offset |-> p, op |-> w.ops[p],
                        args |-> [i \in DOMAIN shape |-> w.tape[p + FieldOffset(shape, i)]]]
        BY <3>1, Zenon DEF Instr
      <3>4. body(f, p) = IF \/ p + Size(shape) > w.size
                            \/ \E i \in DOMAIN shape : p + FieldOffset(shape, i) \notin DOMAIN w.tape
                         THEN <<Bad>>
                         ELSE <<[offset |-> p, op |-> w.ops[p],
                                 args |-> [i \in DOMAIN shape |-> w.tape[p + FieldOffset(shape, i)]]]>>
                              \o f[p + Size(shape)]
        BY <2>3, <3>1, Zenon DEF ShapeAt
      <3>5. plain(f, p) = IF ~Fine(p) THEN <<Bad>> ELSE <<Instr(p)>> \o f[p + Size(shape)]
        BY <2>3, <3>1, Zenon
      <3> HIDE DEF body, plain
      <3>6. CASE Fine(p)
        BY <3>2, <3>3, <3>4, <3>5, <3>6, Zenon
      <3>7. CASE ~Fine(p)
        BY <3>2, <3>4, <3>5, <3>7, Zenon
      <3> QED BY <3>6, <3>7
    <2> HIDE DEF body, plain
    <2> QED BY <2>1, <2>2, <2>3
  <1>4. \A p \in good : p \in 0..w.size - 1 => next[p] \in p + 1..w.size
    <2> SUFFICES ASSUME NEW p \in good
                 PROVE  next[p] \in p + 1..w.size
      OBVIOUS
    <2>1. Fine(p) /\ p \in 0..w.size - 1 /\ next[p] = p + Size(ShapeAt(p))
      OBVIOUS
    <2>2. Size(ShapeAt(p)) \in Nat \ {0} /\ p + Size(ShapeAt(p)) <= w.size
      BY <1>2, <2>1 DEF Fine
    <2> HIDE DEF next, good
    <2> QED BY <1>1, <2>1, <2>2
  <1>5. \E f : Backward(f, w.size, good, first, next, <<Bad>>)
    <2> HIDE DEF good, first, next
    <2> QED BY <1>1, <1>4, BackwardExists
  <1>6. PICK h : Backward(h, w.size, good, first, next, <<Bad>>)
    <2> HIDE DEF good, first, next
    <2> QED BY <1>5
  <1>7. \A p \in 0..w.size : h[p] = plain(h, p)
    <2> SUFFICES ASSUME NEW p \in 0..w.size
                 PROVE  h[p] = plain(h, p)
      OBVIOUS
    <2>1. h[p] = IF p = w.size THEN <<>> ELSE IF p \notin good THEN <<Bad>> ELSE <<first[p]>> \o h[next[p]]
      <3> HIDE DEF good, first, next
      <3> QED BY <1>6 DEF Backward
    <2>2. p # w.size => (p \in good <=> Fine(p))
      <3>1. p # w.size => p \in 0..w.size - 1
        BY <1>1
      <3> QED BY <3>1, Zenon
    <2>3. p \in good => first[p] = Instr(p) /\ next[p] = p + Size(ShapeAt(p))
      OBVIOUS
    <2> HIDE DEF good, first, next
    <2> QED BY <2>1, <2>2, <2>3, Zenon
  <1>8. Reads(h)
    <2>1. \A p \in 0..w.size : h[p] = body(h, p)
      <3> HIDE DEF body, plain, good, first, next
      <3> QED BY <1>3, <1>7
    <2>2. h = [p \in 0..w.size |-> h[p]]
      BY <1>6 DEF Backward
    <2>3. h = [p \in 0..w.size |-> body(h, p)]
      <3> HIDE DEF body, plain, good, first, next
      <3> QED BY <2>1, <2>2
    <2> QED BY <2>3, Zenon DEF Reads
  <1>9. PICK f : f = CHOOSE g : Reads(g)
    OBVIOUS
  <1>10. Reads(f)
    BY <1>8, <1>9, Zenon
  <1>11. read_instructions = f[0]
    BY <1>9, Zenon DEF read_instructions, Reads
  <1>12. \A p \in 0..w.size : f[p] = plain(f, p)
    <2>1. f = [p \in 0..w.size |-> body(f, p)]
      BY <1>10, Zenon DEF Reads
    <2> HIDE DEF body, plain, good, first, next
    <2> QED BY <1>3, <2>1
  <1> QED BY <1>11, <1>12, Zenon

\* Decoded instructions, the first one at p, one after the other.
Consecutive(s) ==
    \A k \in DOMAIN s : \E p \in 0..w.size - 1 :
        /\ Fine(p) /\ s[k] = Instr(p)
        /\ k < Len(s) => s[k + 1].offset = p + Size(ShapeAt(p))
Listed(s, p) ==
    /\ s \in Seq({Bad} \union {Instr(q) : q \in 0..w.size - 1})
    /\ (\A k \in DOMAIN s : s[k] # Bad) => Consecutive(s) /\ (s # <<>> => s[1].offset = p)

\* An instruction in front of others that follow it.
LEMMA ListedBefore ==
    ASSUME NEW p \in 0..w.size - 1, Fine(p), NEW t, Listed(t, p + Size(ShapeAt(p)))
    PROVE  Listed(<<Instr(p)>> \o t, p)
  <1> DEFINE E == {Bad} \union {Instr(q) : q \in 0..w.size - 1}
  <1>1. Instr(p) \in E /\ t \in Seq(E)
    BY DEF Listed
  <1>2. PICK i : i = Instr(p)
    OBVIOUS
  <1>3. PICK s : s = <<i>> \o t
    OBVIOUS
  <1> HIDE DEF E
  <1>4. /\ s \in Seq(E) /\ Len(s) = Len(t) + 1 /\ Len(t) \in Nat /\ s[1] = i /\ DOMAIN s = 1..Len(t) + 1
        /\ DOMAIN t = 1..Len(t)
    BY <1>1, <1>2, <1>3
  <1>5. \A k \in DOMAIN t : k + 1 \in DOMAIN s /\ s[k + 1] = t[k]
    BY <1>1, <1>2, <1>3
  <1>6. ASSUME \A k \in DOMAIN s : s[k] # Bad
        PROVE  Consecutive(s) /\ s[1].offset = p
    <2>1. \A k \in DOMAIN t : t[k] # Bad
      BY <1>5, <1>6
    <2>2. Consecutive(t) /\ (t # <<>> => t[1].offset = p + Size(ShapeAt(p)))
      BY <2>1 DEF Listed
    <2>3. s[1].offset = p
      BY <1>2, <1>4 DEF Instr
    <2>4. ASSUME NEW k \in DOMAIN s
          PROVE  \E q \in 0..w.size - 1 :
                    /\ Fine(q) /\ s[k] = Instr(q)
                    /\ k < Len(s) => s[k + 1].offset = q + Size(ShapeAt(q))
      <3>1. CASE k = 1
        <4>1. k < Len(s) => t # <<>> /\ 1 \in DOMAIN t
          BY <1>4, <3>1
        <4>2. k < Len(s) => s[k + 1] = t[1]
          BY <1>5, <3>1, <4>1
        <4>3. k < Len(s) => s[k + 1].offset = p + Size(ShapeAt(p))
          BY <2>2, <4>1, <4>2
        <4> QED BY <1>2, <1>4, <3>1, <4>3
      <3>2. CASE k # 1
        <4>1. PICK j \in DOMAIN t : j = k - 1 /\ s[k] = t[j]
          <5>1. k - 1 \in DOMAIN t /\ (k - 1) + 1 = k
            BY <1>4, <3>2
          <5> QED BY <1>5, <5>1
        <4>2. PICK q \in 0..w.size - 1 :
                    /\ Fine(q) /\ t[j] = Instr(q)
                    /\ j < Len(t) => t[j + 1].offset = q + Size(ShapeAt(q))
          BY <2>2 DEF Consecutive
        <4>3. k < Len(s) => j < Len(t) /\ j + 1 \in DOMAIN t /\ (j + 1) + 1 = k + 1
          BY <1>4, <4>1
        <4>4. k < Len(s) => s[k + 1] = t[j + 1]
          BY <1>5, <4>3
        <4> QED BY <4>1, <4>2, <4>3, <4>4
      <3> QED BY <3>1, <3>2
    <2> QED BY <2>3, <2>4 DEF Consecutive
  <1> QED BY <1>2, <1>3, <1>4, <1>6 DEF Listed, E

\* All that the reader returns.
LEMMA AllListed ==
    ASSUME WriterOK
    PROVE  Listed(read_instructions, 0)
  <1>1. PICK f : /\ read_instructions = f[0]
                 /\ \A p \in 0..w.size :
                        f[p] = IF p = w.size THEN <<>>
                               ELSE IF ~Fine(p) THEN <<Bad>>
                               ELSE <<Instr(p)>> \o f[p + Size(ShapeAt(p))]
    BY ReadsAre
  <1>2. PICK n \in Nat : n = w.size
    BY DEF WriterOK
  <1> DEFINE Reached == {m \in 0..n : \A p \in n - m..n : Listed(f[p], p)}
  <1>3. 0 \in Reached
    <2>1. \A p \in n - 0..n : p = n /\ p \in 0..n
      OBVIOUS
    <2>2. f[n] = <<>>
      <3>1. n \in 0..w.size /\ n = w.size
        BY <1>2
      <3>2. f[n] = IF n = w.size THEN <<>>
                   ELSE IF ~Fine(n) THEN <<Bad>>
                   ELSE <<Instr(n)>> \o f[n + Size(ShapeAt(n))]
        BY <1>1, <3>1, Zenon
      <3> QED BY <3>1, <3>2, Zenon
    <2>3. Listed(<<>>, n)
      <3>1. PICK s : s = <<>>
        OBVIOUS
      <3>2. \A E : s \in Seq(E)
        BY <3>1
      <3>3. s \in Seq({Bad} \union {Instr(q) : q \in 0..w.size - 1})
        BY <3>2, Zenon
      <3>4. Consecutive(s)
        BY <3>1 DEF Consecutive
      <3> QED BY <3>1, <3>3, <3>4, Zenon DEF Listed
    <2> QED BY <2>1, <2>2, <2>3
  <1>4. ASSUME NEW m \in 0..n - 1, m \in Reached
        PROVE  m + 1 \in Reached
    <2>1. PICK q \in 0..n - 1 : q = n - (m + 1)
      OBVIOUS
    <2>2. \A p \in n - (m + 1)..n : p = q \/ p \in n - m..n
      BY <2>1
    <2>3. \A p \in n - m..n : Listed(f[p], p)
      BY <1>4
    <2>4. Listed(f[q], q)
      <3>1. q \in 0..w.size /\ q # w.size /\ q \in 0..w.size - 1
        BY <1>2
      <3>2. CASE ~Fine(q)
        <4>1. f[q] = <<Bad>>
          BY <1>1, <3>1, <3>2
        <4>2. <<Bad>> \in Seq({Bad} \union {Instr(p) : p \in 0..w.size - 1})
          OBVIOUS
        <4>3. 1 \in DOMAIN <<Bad>> /\ <<Bad>>[1] = Bad
          OBVIOUS
        <4> QED BY <4>1, <4>2, <4>3 DEF Listed
      <3>3. CASE Fine(q)
        <4>1. f[q] = <<Instr(q)>> \o f[q + Size(ShapeAt(q))]
          BY <1>1, <3>1, <3>3
        <4>2. Size(ShapeAt(q)) \in Nat \ {0} /\ q + Size(ShapeAt(q)) <= n
          BY <1>2, <3>3, ShapeIs DEF Fine, ShapeAt
        <4>3. q + Size(ShapeAt(q)) \in n - m..n
          BY <2>1, <4>2
        <4>4. Listed(f[q + Size(ShapeAt(q))], q + Size(ShapeAt(q)))
          BY <2>3, <4>3
        <4> QED BY <3>1, <3>3, <4>1, <4>4, ListedBefore
      <3> QED BY <3>2, <3>3
    <2>5. \A p \in n - (m + 1)..n : Listed(f[p], p)
      BY <2>2, <2>3, <2>4
    <2> QED BY <2>5
  <1> HIDE DEF Reached
  <1>5. n \in Reached
    <2>1. \A m \in 0..n : m \in Reached
      BY <1>3, <1>4, UpTo
    <2> QED BY <2>1
  <1>6. 0 \in n - n..n
    OBVIOUS
  <1> QED BY <1>1, <1>5, <1>6 DEF Reached

-----------------------------------------------------------------------------
(* What the verifier accepts. *)

Final == {"Return", "Rethrow", "Jmp", "AssertFail"}
Holds(S, p) == \A c \in CheckTable[w.ops[p]] : check(S, c[1], Instr(p).args[c[2]])
\* The instructions that begin at the positions in S.
Accepted(S) ==
    /\ 0 \in S
    /\ \A p \in S :
         /\ Fine(p) /\ Holds(S, p)
         /\ w.ops[p] = "LoadClosure" => MainType = "Closure"
         /\ w.ops[p] \in Final \/ p + Size(ShapeAt(p)) \in S
    /\ \A i \in DOMAIN w.handlers : w.handlers[i].target \in S

\* Code that passes verification.
LEMMA VerifiedAccepted ==
    ASSUME WriterOK, verify_function
    PROVE  \E S : Accepted(S)
  <1>1. PICK ins : ins = read_instructions
    OBVIOUS
  <1>2. PICK S : S = {ins[i].offset : i \in DOMAIN ins}
    OBVIOUS
  <1>3. /\ \A i \in DOMAIN ins :
             /\ ins[i] # Bad
             /\ \A f \in CheckTable[ins[i].op] : check(S, f[1], ins[i].args[f[2]])
             /\ ins[i].op = "LoadClosure" => MainType = "Closure"
        /\ ins # <<>>
        /\ ins[Len(ins)].op \in Final
        /\ \A i \in DOMAIN w.handlers : w.handlers[i].target \in S
    BY <1>1, <1>2, Zenon DEF verify_function, Final
  <1>4. Listed(ins, 0)
    BY <1>1, AllListed
  <1>5. Consecutive(ins) /\ ins[1].offset = 0
    BY <1>3, <1>4 DEF Listed
  <1>6. Len(ins) \in Nat \ {0} /\ DOMAIN ins = 1..Len(ins)
    <2> DEFINE E == {Bad} \union {Instr(q) : q \in 0..w.size - 1}
    <2>1. ins \in Seq(E)
      BY <1>4 DEF Listed
    <2> HIDE DEF E
    <2> QED BY <1>3, <2>1
  <1>7. 0 \in S
    <2>1. 1 \in DOMAIN ins
      BY <1>6
    <2> QED BY <1>2, <1>5, <2>1
  <1>8. ASSUME NEW p \in S
        PROVE  /\ Fine(p) /\ Holds(S, p)
               /\ w.ops[p] = "LoadClosure" => MainType = "Closure"
               /\ w.ops[p] \in Final \/ p + Size(ShapeAt(p)) \in S
    <2>1. PICK k \in DOMAIN ins : ins[k].offset = p
      BY <1>2
    <2>2. PICK q \in 0..w.size - 1 :
                 /\ Fine(q) /\ ins[k] = Instr(q)
                 /\ k < Len(ins) => ins[k + 1].offset = q + Size(ShapeAt(q))
      BY <1>5 DEF Consecutive
    <2>3. q = p /\ ins[k].op = w.ops[p]
      BY <2>1, <2>2 DEF Instr
    <2>4. Fine(p)
      BY <2>2, <2>3
    <2>5. Holds(S, p)
      BY <1>3, <2>2, <2>3, Zenon DEF Holds
    <2>6. w.ops[p] = "LoadClosure" => MainType = "Closure"
      BY <1>3, <2>3
    <2>7. CASE k = Len(ins)
      BY <1>3, <2>3, <2>4, <2>5, <2>6, <2>7
    <2>8. CASE k # Len(ins)
      <3>1. k < Len(ins) /\ k + 1 \in DOMAIN ins
        BY <1>6, <2>8
      <3>2. ins[k + 1].offset \in S
        BY <1>2, <3>1
      <3> QED BY <2>2, <2>3, <2>4, <2>5, <2>6, <3>1, <3>2
    <2> QED BY <2>7, <2>8
  <1>9. Accepted(S)
    BY <1>3, <1>7, <1>8 DEF Accepted
  <1> QED BY <1>9

-----------------------------------------------------------------------------
(* The interpreter decodes what the verifier has checked. *)

\* It reads the operands where the reader does, unless it does not read any.
LEMMA RunLayout ==
    ASSUME NEW op \in Ops, op \notin Unimplemented
    PROVE  /\ DOMAIN RunTable[op] = DOMAIN ReadTable[op]
           /\ \A i : FieldOffset(RunTable[op], i) = FieldOffset(ReadTable[op], i)
           /\ Size(RunTable[op]) = Size(ReadTable[op])
  <1>1. PICK s : s = RunTable[op]
    OBVIOUS
  <1>2. PICK t : t = ReadTable[op]
    OBVIOUS
  <1>3. /\ s \in Seq({L, P, M, O, U, W, "symbol", "schema", "template"})
        /\ t \in Seq({L, P, M, O, U, W}) /\ t = Plain(s)
    BY <1>1, <1>2, EncodingsAgree
  <1>4. DOMAIN s = DOMAIN t
    BY <1>3 DEF Plain
  <1>5. Len(s) = Len(t)
    BY <1>3, <1>4
  <1>6. \A i \in DOMAIN s : Width(s[i]) = Width(t[i])
    <2> SUFFICES ASSUME NEW i \in DOMAIN s
                 PROVE  Width(s[i]) = Width(t[i])
      OBVIOUS
    <2>1. t[i] = CASE s[i] = G -> O [] s[i] \in {"symbol", "schema", "template"} -> M [] OTHER -> s[i]
      BY <1>3 DEF Plain
    <2>2. CASE s[i] = G
      BY <2>1, <2>2 DEF Width, G, O, W, M
    <2>3. CASE s[i] \in {"symbol", "schema", "template"}
      BY <2>1, <2>3 DEF Width, G, O, W, M
    <2>4. CASE s[i] # G /\ s[i] \notin {"symbol", "schema", "template"}
      BY <2>1, <2>4
    <2> QED BY <2>2, <2>3, <2>4
  <1>7. Widths(s) = Widths(t)
    BY <1>4, <1>6 DEF Widths
  <1>8. (\A i : FieldOffset(s, i) = FieldOffset(t, i)) /\ Size(s) = Size(t)
    BY <1>5, <1>7, SameLayout
  <1> QED BY <1>1, <1>2, <1>4, <1>8, Zenon

Operand(p, i) == w.tape[p + FieldOffset(RunTable[w.ops[p]], i)]

\* What has been checked about an operand it reads.
LEMMA OperandChecked ==
    ASSUME NEW S, Accepted(S), NEW p \in S, NEW i \in DOMAIN RunTable[w.ops[p]]
    PROVE  /\ w.ops[p] \in Ops
           /\ p + FieldOffset(RunTable[w.ops[p]], i) \in DOMAIN w.tape
           /\ \/ <<w.ops[p], i>> \in Unchecked
              \/ RunTable[w.ops[p]][i] \in {U, W}
              \/ check(S, RunTable[w.ops[p]][i], Operand(p, i))
  <1>1. Fine(p) /\ Holds(S, p)
    BY DEF Accepted
  <1>2. PICK op \in Ops : op = w.ops[p]
    BY <1>1 DEF Fine
  <1>3. op \notin Unimplemented
    <2>1. op \in Unimplemented => RunTable[op] = <<>>
      BY EncodingsAgree
    <2>2. RunTable[op] = <<>> => DOMAIN RunTable[op] = {}
      OBVIOUS
    <2> QED BY <1>2, <2>1, <2>2
  <1>4. i \in DOMAIN ReadTable[op] /\ FieldOffset(RunTable[op], i) = FieldOffset(ReadTable[op], i)
    BY <1>2, <1>3, RunLayout, Zenon
  <1>5. p + FieldOffset(RunTable[op], i) \in DOMAIN w.tape
    BY <1>1, <1>2, <1>4, Zenon DEF Fine, ShapeAt
  <1>6. Instr(p).args[i] = Operand(p, i)
    BY <1>2, <1>4, Zenon DEF Instr, ShapeAt, Operand
  <1>7. <<op, i>> \in Unchecked \/ RunTable[op][i] \in {U, W} \/ <<RunTable[op][i], i>> \in CheckTable[op]
    BY <1>2, ChecksCover, Zenon
  <1>8. ASSUME <<RunTable[op][i], i>> \in CheckTable[op]
        PROVE  check(S, RunTable[op][i], Operand(p, i))
    <2>1. PICK c \in CheckTable[op] : c = <<RunTable[op][i], i>>
      BY <1>8
    <2>2. c[1] = RunTable[op][i] /\ c[2] = i
      BY <2>1
    <2>3. check(S, c[1], Instr(p).args[c[2]])
      BY <1>1, <1>2, Zenon DEF Holds
    <2> QED BY <1>6, <2>2, <2>3, Zenon
  <1> QED BY <1>2, <1>5, <1>7, <1>8, Zenon

\* The values of the members have the types the verifier has seen, until they are assigned.
Loaded ==
    /\ DOMAIN loaded = DOMAIN mod.members
    /\ \A n \in DOMAIN loaded :
         /\ mod.members[n].kind = "Symbol" => loaded[n] \in {"Symbol", "Value"}
         /\ mod.members[n].kind = "RecordSchema" => loaded[n] \in {"RecordSchema", "Value"}
         /\ mod.members[n].kind = "Function" /\ FuncType(n) = "Closure" =>
              loaded[n] \in {"CodeFunctionTemplate", "Value"}

\* Accepted code is safe where an instruction begins.
LEMMA AcceptedSafe ==
    ASSUME NEW S, Accepted(S), run.pc \in S, Loaded
    PROVE  Safe(Unchecked)
  <1>1. PICK p \in S : p = run.pc
    OBVIOUS
  <1>2. Fine(p) /\ Op = w.ops[p] /\ Shape = RunTable[w.ops[p]]
    BY <1>1 DEF Accepted, Op, Shape
  <1>3. \A i \in DOMAIN Shape : Arg(i) = Operand(p, i)
    BY <1>1, <1>2, Zenon DEF Arg, Operand
  <1>4. Decodable
    <2>1. run.pc \in DOMAIN w.ops
      BY <1>1, <1>2 DEF Fine
    <2>2. \A i \in DOMAIN Shape : run.pc + FieldOffset(Shape, i) \in DOMAIN w.tape
      BY <1>1, <1>2, OperandChecked, Zenon
    <2> QED BY <2>1, <2>2, Zenon DEF Decodable
  <1>5. ASSUME NEW i \in DOMAIN Shape, <<Op, i>> \notin Unchecked
        PROVE  CASE Shape[i] = L -> Arg(i) \in 0..Locals - 1
                 [] Shape[i] = P -> Arg(i) \in 0..Params - 1
                 [] Shape[i] = M -> Arg(i) \in DOMAIN loaded
                 [] Shape[i] = "symbol" -> Arg(i) \in DOMAIN loaded /\ loaded[Arg(i)] \in {"Symbol", "Value"}
                 [] Shape[i] = "schema" -> Arg(i) \in DOMAIN loaded /\ loaded[Arg(i)] \in {"RecordSchema", "Value"}
                 [] Shape[i] = "template" ->
                       Arg(i) \in DOMAIN loaded /\ loaded[Arg(i)] \in {"CodeFunctionTemplate", "Value"}
                 [] OTHER -> TRUE
    <2>1. PICK kind : kind = Shape[i]
      OBVIOUS
    <2>2. PICK v : v = Arg(i)
      OBVIOUS
    <2>3. kind \in {U, W} \/ check(S, kind, v)
      BY <1>2, <1>3, <1>5, <2>1, <2>2, OperandChecked, Zenon
    <2>4. kind = L => v \in 0..Locals - 1
      BY <2>3 DEF check, check_local, L, P, O, M, U, W
    <2>5. kind = P => v \in 0..Params - 1
      BY <2>3 DEF check, L, P, O, M, U, W
    <2>6. kind = M => v \in DOMAIN loaded
      BY <2>3 DEF check, L, P, O, M, U, W, InBounds, Loaded
    <2>7. kind = "symbol" => v \in DOMAIN loaded /\ loaded[v] \in {"Symbol", "Value"}
      BY <2>3 DEF check, L, P, O, M, U, W, InBounds, IsKind, Loaded
    <2>8. kind = "schema" => v \in DOMAIN loaded /\ loaded[v] \in {"RecordSchema", "Value"}
      BY <2>3 DEF check, L, P, O, M, U, W, InBounds, IsKind, Loaded
    <2>9. kind = "template" => v \in DOMAIN loaded /\ loaded[v] \in {"CodeFunctionTemplate", "Value"}
      BY <2>3 DEF check, L, P, O, M, U, W, InBounds, IsKind, Loaded
    <2>10. CASE kind \in {L, P, M, "symbol", "schema", "template"}
      BY <2>1, <2>2, <2>4, <2>5, <2>6, <2>7, <2>8, <2>9, <2>10 DEF L, P, M
    <2>11. CASE kind \notin {L, P, M, "symbol", "schema", "template"}
      BY <2>1, <2>11
    <2> QED BY <2>10, <2>11
  <1>6. Op = "LoadClosure" => MainType = "Closure"
    BY <1>2 DEF Accepted
  <1> QED BY <1>4, <1>5, <1>6, Zenon DEF Safe

-----------------------------------------------------------------------------
(* The verifier's promise: what it accepts is safe to run. *)

Fresh == phase \notin {"running", "left"} => run = [pc |-> 0, depth |-> 0, closed |-> TRUE]
\* Once verified, the code is accepted at all of its instructions and runs at one of them.
CodeKept ==
    phase \in {"verified", "running"} =>
        \E S : /\ Accepted(S)
               /\ phase = "running" => run.pc \in S /\ DOMAIN run = {"pc", "depth", "closed"} /\ Loaded
VerifierInv == Fresh /\ (WriterOK => CodeKept)

\* Nothing that was accepted changes while the code is kept.
LEMMA AcceptedKept ==
    ASSUME NEW S, Accepted(S), UNCHANGED <<irModule, w, mod>>
    PROVE  Accepted(S)'
  <1>1. \A p : Fine(p)' = Fine(p)
    BY DEF Fine, ShapeAt
  <1>2. \A p : Instr(p)' = Instr(p)
    BY Zenon DEF Instr, ShapeAt
  <1>3. \A k, v : check(S, k, v)' = check(S, k, v)
    <2>1. \A v : InBounds(v)' = InBounds(v) /\ FuncType(v)' = FuncType(v)
      BY Zenon DEF InBounds, FuncType, FuncOrder
    <2>2. \A v, k : IsKind(v, k)' = IsKind(v, k)
      BY <2>1, Zenon DEF IsKind
    <2>3. \A v : check_local(v)' = check_local(v) /\ check_offset(S, v)' = check_offset(S, v)
      BY Zenon DEF check_local, check_offset
    <2> QED BY <2>1, <2>2, <2>3, Zenon DEF check
  <1>4. \A p : Holds(S, p)' = Holds(S, p)
    BY <1>2, <1>3, Zenon DEF Holds
  <1>5. MainType' = MainType
    BY Zenon DEF MainType
  <1> QED BY <1>1, <1>4, <1>5 DEF Accepted, ShapeAt

\* The members change only when a module's variables are assigned.
LEMMA LoadedKept ==
    ASSUME Loaded, UNCHANGED <<irModule, mod>>,
           loaded' = loaded \/ \E n : loaded' = [loaded EXCEPT ![n] = "Value"]
    PROVE  Loaded'
  <1>1. \A n : FuncType(n)' = FuncType(n)
    BY Zenon DEF FuncType, FuncOrder
  <1>2. DOMAIN loaded' = DOMAIN loaded /\ \A n \in DOMAIN loaded : loaded'[n] \in {loaded[n], "Value"}
    OBVIOUS
  <1> QED BY <1>1, <1>2 DEF Loaded

\* An exception continues where an instruction begins.
LEMMA HandlerAccepted ==
    ASSUME WriterOK, NEW S, Accepted(S), NEW pc, find_entry(pc) # None
    PROVE  find_entry(pc) \in S
  <1> DEFINE later == {i \in DOMAIN w.handlers : w.handlers[i].to > pc}
             first == CHOOSE i \in later : \A j \in later : i <= j
  <1>1. later \subseteq DOMAIN w.handlers
    OBVIOUS
  <1>2. first = CHOOSE i \in later : \A j \in later : i <= j
    OBVIOUS
  <1>3. find_entry(pc) = IF later = {} \/ w.handlers[first].from > pc THEN None ELSE w.handlers[first].target
    BY Zenon DEF find_entry
  <1> HIDE DEF later, first
  <1>4. later # {} /\ find_entry(pc) = w.handlers[first].target
    BY <1>3
  <1>5. later \subseteq Nat
    <2>1. DOMAIN w.handlers \subseteq Nat
      BY DEF WriterOK
    <2> QED BY <1>1, <2>1
  <1>6. \E i \in later : \A j \in later : i <= j
    BY <1>4, <1>5, LeastNumber
  <1>7. first \in later
    BY <1>2, <1>6, Zenon
  <1> QED BY <1>1, <1>4, <1>7 DEF Accepted

\* A jump goes to the beginning of an instruction.
LEMMA JumpAccepted ==
    ASSUME NEW S, Accepted(S), run.pc \in S
    PROVE  (Op = "Jmp" => Arg(1) \in S) /\ (Op \in Branches => Arg(2) \in S)
  <1>1. PICK p \in S : p = run.pc
    OBVIOUS
  <1>2. Op = w.ops[p] /\ Shape = RunTable[w.ops[p]] /\ w.ops[p] \in Ops
    BY <1>1 DEF Accepted, Op, Shape, Fine
  <1>3. \A i : Arg(i) = Operand(p, i)
    BY <1>1, <1>2, Zenon DEF Arg, Operand
  <1>4. \A v : check(S, O, v) => v \in S
    BY DEF check, check_offset, L, P, O, M
  <1>5. ASSUME Op = "Jmp"
        PROVE  Arg(1) \in S
    <2>1. RunTable[w.ops[p]] = <<O>>
      BY <1>2, <1>5, EncodingsAgree, Zenon
    <2>2. PICK i \in DOMAIN RunTable[w.ops[p]] : i = 1 /\ RunTable[w.ops[p]][i] = O
      BY <2>1
    <2>3. <<w.ops[p], i>> \notin Unchecked /\ O \notin {U, W}
      BY <1>2, <1>5 DEF Unchecked, O, U, W
    <2>4. check(S, O, Operand(p, i))
      BY <2>2, <2>3, OperandChecked, Zenon
    <2> QED BY <1>3, <1>4, <2>2, <2>4, Zenon
  <1>6. ASSUME Op \in Branches
        PROVE  Arg(2) \in S
    <2>1. RunTable[w.ops[p]] = <<L, O>>
      BY <1>2, <1>6, EncodingsAgree, Zenon
    <2>2. PICK i \in DOMAIN RunTable[w.ops[p]] : i = 2 /\ RunTable[w.ops[p]][i] = O
      BY <2>1
    <2>3. <<w.ops[p], i>> \notin Unchecked /\ O \notin {U, W}
      BY <1>2, <1>6 DEF Unchecked, O, U, W, Branches
    <2>4. check(S, O, Operand(p, i))
      BY <2>2, <2>3, OperandChecked, Zenon
    <2> QED BY <1>3, <1>4, <2>2, <2>4, Zenon
  <1> QED BY <1>5, <1>6

\* Any other instruction is followed by one, unless it leaves the function.
LEMMA FallAccepted ==
    ASSUME NEW S, Accepted(S), run.pc \in S,
           Op \notin {"Return", "Rethrow", "AssertFail", "Jmp"} \union Unimplemented
    PROVE  run.pc + Size(Shape) \in S
  <1>1. PICK p \in S : p = run.pc
    OBVIOUS
  <1>2. Fine(p) /\ (w.ops[p] \in Final \/ p + Size(ShapeAt(p)) \in S)
    BY DEF Accepted
  <1>3. PICK op \in Ops : op = w.ops[p] /\ op = Op
    BY <1>1, <1>2 DEF Fine, Op
  <1>4. p + Size(ShapeAt(p)) \in S
    BY <1>2, <1>3 DEF Final
  <1>5. Size(RunTable[op]) = Size(ReadTable[op])
    BY <1>3, RunLayout
  <1> QED BY <1>1, <1>3, <1>4, <1>5, Zenon DEF Shape, ShapeAt

LEMMA StepKept ==
    ASSUME WriterOK, Step, NEW S, Accepted(S),
           run.pc \in S, DOMAIN run = {"pc", "depth", "closed"}, Loaded
    PROVE  phase' = "left" \/ (run'.pc \in S /\ DOMAIN run' = {"pc", "depth", "closed"} /\ Loaded')
  <1>1. UNCHANGED <<irModule, mod>>
    BY DEF Step
  <1>2. CASE Continue /\ Op \notin {"Return", "Rethrow", "AssertFail"} \union Unimplemented
    <2>1. PICK targets : targets = CASE Op = "Jmp" -> {Arg(1)}
                                     [] Op \in Branches -> {Arg(2), run.pc + Size(Shape)}
                                     [] OTHER -> {run.pc + Size(Shape)}
      OBVIOUS
    <2>2. PICK p \in targets : run' = [run EXCEPT !.pc = p, !.depth = @ - Popped + Pushed]
      BY <1>2, <2>1, Zenon DEF Continue
    <2>3. run'.pc = p /\ DOMAIN run' = {"pc", "depth", "closed"}
      BY <2>2
    <2>4. Op = "Jmp" => p = Arg(1)
      BY <2>1 DEF Branches
    <2>5. Op # "Jmp" => p = run.pc + Size(Shape) \/ (Op \in Branches /\ p = Arg(2))
      BY <2>1
    <2>6. p \in S
      BY <1>2, <2>4, <2>5, JumpAccepted, FallAccepted
    <2>7. loaded' = loaded \/ \E n : loaded' = [loaded EXCEPT ![n] = "Value"]
      BY <1>2, Zenon DEF Continue
    <2> QED BY <1>1, <2>3, <2>6, <2>7, LoadedKept
  <1>3. CASE Unwind
    <2>1. PICK h : h = find_entry(run.pc + Size(Shape) - 1)
      OBVIOUS
    <2>2. phase' = "left" \/ (h # None /\ run' = [run EXCEPT !.pc = h, !.closed = FALSE])
      BY <1>3, <2>1, Zenon DEF Unwind
    <2>3. h # None => h \in S
      BY <2>1, HandlerAccepted
    <2>4. loaded' = loaded
      BY <1>3 DEF Unwind
    <2> QED BY <1>1, <2>2, <2>3, <2>4, LoadedKept
  <1>4. CASE Leave
    BY <1>4 DEF Leave
  <1> QED BY <1>2, <1>3, <1>4, Zenon DEF Step

\* Every step.
LEMMA VerifierNext ==
    ASSUME VerifierInv, [BNext]_bvars
    PROVE  VerifierInv'
  <1>1. CASE UNCHANGED bvars
    <2>1. \A S : Accepted(S) => Accepted(S)'
      BY <1>1, AcceptedKept, Zenon DEF bvars
    <2>2. Loaded => Loaded'
      BY <1>1, LoadedKept DEF bvars
    <2>3. CodeKept => CodeKept'
      BY <1>1, <2>1, <2>2 DEF CodeKept, bvars
    <2> QED BY <1>1, <2>3 DEF VerifierInv, Fresh, WriterOK, bvars
  <1>2. ASSUME phase \in {"members", "blocks", "linked"}, phase' \in {"members", "blocks", "linked"}, run' = run
        PROVE  VerifierInv'
    BY <1>2 DEF VerifierInv, Fresh, CodeKept
  <1>3. CASE compile_member
    BY <1>2, <1>3 DEF compile_member
  <1>4. CASE compile_block
    BY <1>2, <1>4 DEF compile_block
  <1>5. CASE finish_function
    BY <1>2, <1>5 DEF finish_function
  <1>6. CASE link_members
    BY <1>2, <1>6 DEF link_members
  <1>7. CASE \E p \in DOMAIN w.tape : \E v \in Wrong : Corrupt(p, v)
    BY <1>2, <1>7 DEF Corrupt
  <1>8. CASE verify_module
    <2>1. UNCHANGED <<irModule, w, mod, run>> /\ phase = "linked" /\ phase' \in {"verified", "rejected"}
      BY <1>8 DEF verify_module
    <2>2. Fresh'
      BY <2>1 DEF VerifierInv, Fresh
    <2>3. ASSUME WriterOK', phase' = "verified"
          PROVE  \E S : Accepted(S)'
      <3>1. WriterOK /\ verify_function
        BY <1>8, <2>1, <2>3 DEF verify_module, WriterOK
      <3>2. PICK S : Accepted(S)
        BY <3>1, VerifiedAccepted
      <3> QED BY <2>1, <3>2, AcceptedKept
    <2> QED BY <2>1, <2>2, <2>3 DEF VerifierInv, CodeKept
  <1>9. CASE load_module
    <2>1. /\ UNCHANGED <<irModule, w, mod, run>> /\ phase = "verified" /\ phase' = "running"
          /\ run = [pc |-> 0, depth |-> 0, closed |-> TRUE]
      BY <1>9 DEF load_module, VerifierInv, Fresh
    <2>2. Loaded'
      BY <1>9 DEF load_module, Loaded, FuncType, FuncOrder
    <2>3. ASSUME WriterOK'
          PROVE  CodeKept'
      <3>1. WriterOK
        BY <2>1, <2>3 DEF WriterOK
      <3>2. PICK S : Accepted(S)
        BY <2>1, <3>1 DEF VerifierInv, CodeKept
      <3>3. Accepted(S)'
        BY <2>1, <3>2, AcceptedKept
      <3>4. run'.pc \in S /\ DOMAIN run' = {"pc", "depth", "closed"}
        <4>1. 0 \in S
          BY <3>2 DEF Accepted
        <4> QED BY <2>1, <4>1
      <3> QED BY <2>1, <2>2, <3>3, <3>4 DEF CodeKept
    <2> QED BY <2>1, <2>3 DEF VerifierInv, Fresh
  <1>10. CASE Step
    <2>1. UNCHANGED <<irModule, w, mod>> /\ phase = "running" /\ phase' \in {"running", "left"}
      BY <1>10 DEF Step, Continue, Unwind, Leave
    <2>2. ASSUME WriterOK', phase' # "left"
          PROVE  CodeKept'
      <3>1. WriterOK
        BY <2>1, <2>2 DEF WriterOK
      <3>2. PICK S : Accepted(S) /\ run.pc \in S /\ DOMAIN run = {"pc", "depth", "closed"} /\ Loaded
        BY <2>1, <3>1 DEF VerifierInv, CodeKept
      <3>3. Accepted(S)'
        BY <2>1, <3>2, AcceptedKept
      <3>4. run'.pc \in S /\ DOMAIN run' = {"pc", "depth", "closed"} /\ Loaded'
        BY <1>10, <2>2, <3>1, <3>2, StepKept
      <3> QED BY <3>3, <3>4 DEF CodeKept
    <2> QED BY <2>1, <2>2 DEF VerifierInv, Fresh, CodeKept
  <1> QED BY <1>1, <1>3, <1>4, <1>5, <1>6, <1>7, <1>8, <1>9, <1>10 DEF BNext

LEMMA VerifierInvSafe ==
    ASSUME VerifierInv, WriterOK
    PROVE  VerifiedCodeIsSafe
  <1> SUFFICES ASSUME phase = "running"
               PROVE  Safe(Unchecked)
    BY DEF VerifiedCodeIsSafe
  <1>1. PICK S : Accepted(S) /\ run.pc \in S /\ Loaded
    BY DEF VerifierInv, CodeKept
  <1> QED BY <1>1, AcceptedSafe

\* Linked code is not changed by anything but a fault, which changes an operand.
LEMMA WriterKept ==
    ASSUME WriterOK, phase \in {"linked", "verified", "running", "left", "rejected"}, [BNext]_bvars
    PROVE  WriterOK' /\ phase' \in {"linked", "verified", "running", "left", "rejected"}
  <1>1. CASE UNCHANGED bvars
    BY <1>1 DEF WriterOK, bvars
  <1>2. CASE \E p \in DOMAIN w.tape : \E v \in Wrong : Corrupt(p, v)
    <2>1. PICK p, v : Corrupt(p, v)
      BY <1>2
    <2>2. w' = [w EXCEPT !.tape[p] = v] /\ phase' = phase
      BY <2>1 DEF Corrupt
    <2>3. DOMAIN w' = DOMAIN w /\ \A x \in DOMAIN w : x # "tape" => w'[x] = w[x]
      BY <2>2
    <2>4. "size" \in DOMAIN w /\ "handlers" \in DOMAIN w
      BY DEF WriterOK, Writer
    <2>5. w'.size = w.size /\ w'.handlers = w.handlers
      BY <2>3, <2>4
    <2> QED BY <2>2, <2>3, <2>5 DEF WriterOK
  <1>3. CASE verify_module \/ load_module \/ Step
    BY <1>3 DEF verify_module, load_module, Step, Continue, Unwind, Leave, WriterOK
  <1>4. ~compile_member /\ ~compile_block /\ ~finish_function /\ ~link_members
    BY DEF compile_member, compile_block, finish_function, link_members
  <1> QED BY <1>1, <1>2, <1>3, <1>4 DEF BNext

\* The verifier is sound for any linked code, not only for what the compiler writes: whatever the
\* members, the opcodes and the operands are, code that passes verify_function and is loaded
\* is decodable at every instruction that runs, and the registers, parameters and members that
\* the interpreter takes from it exist, except the two index registers that are not checked.
\* Members have the types it casts them to until StoreModule replaces them
\* (vm/modules/verify.cpp, vm/interpreter.cpp).
THEOREM VerifierSound ==
    WriterOK /\ Fresh /\ phase = "linked" /\ [][BNext]_bvars => []VerifiedCodeIsSafe
  <1> DEFINE Inv == /\ VerifierInv /\ WriterOK
                  /\ phase \in {"linked", "verified", "running", "left", "rejected"}
  <1>1. WriterOK /\ Fresh /\ phase = "linked" => Inv
    BY DEF VerifierInv, CodeKept
  <1>2. Inv /\ [BNext]_bvars => Inv'
    BY VerifierNext, WriterKept
  <1>3. Inv => VerifiedCodeIsSafe
    BY VerifierInvSafe
  <1> QED BY <1>1, <1>2, <1>3, PTL

\* The same from the start of the compiler, for any functions, members and faults: code that its
\* writer has left in good order, with a size and a list of handlers, is safe once verified.
THEOREM VerifiedCodeSafe == BSpec => [](WriterOK => VerifiedCodeIsSafe)
  <1>1. BInit => VerifierInv
    BY DEF BInit, VerifierInv, Fresh, CodeKept
  <1>2. VerifierInv /\ [BNext]_bvars => VerifierInv'
    BY VerifierNext
  <1>3. VerifierInv => (WriterOK => VerifiedCodeIsSafe)
    BY VerifierInvSafe
  <1> QED BY <1>1, <1>2, <1>3, PTL DEF BSpec
=============================================================================
