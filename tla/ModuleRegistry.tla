--------------------------- MODULE ModuleRegistry ---------------------------
(***************************************************************************)
(* The registry of modules (vm/modules/registry.cpp): registration by      *)
(* name, lookup, and the resolution of a module, which links its imports,  *)
(* initializes the imported modules first and then runs its initializer.   *)
(* Resolution works with an explicit stack of frames; an error throws out  *)
(* of it, dropping the stack but not what was already linked.              *)
(*                                                                         *)
(* An initializer is run by Context::run_init, which starts a coroutine    *)
(* and runs the whole loop of ready coroutines: anything may happen there, *)
(* other modules being loaded and resolved by native functions included.   *)
(* The resolution that waits is then kept in outer. A resolution from code *)
(* that the loop runs, no matter who runs it, cannot run an initializer:   *)
(* it starts the coroutine, fails, and leaves it to the loop.              *)
(***************************************************************************)
EXTENDS Integers, Sequences

CONSTANTS
    Modules,        \* every module that may be registered
    Missing,        \* a name no module has
    Programs,       \* the possible members of the modules: module -> sequence
                    \* of names imported, other members are of no interest
    MaxStack,       \* frames before the recursion limit error (2048)
    MaxFailures     \* bound on runs of an initializer that fail

ASSUME RegistryAssumption ==
    /\ Missing \notin Modules
    /\ Programs \subseteq [Modules -> Seq(Modules \cup {Missing})]
    /\ MaxStack \in Nat \ {0} /\ MaxFailures \in Nat

VARIABLES
    registered,     \* modules_
    members,        \* module -> sequence of members, [name, linked]
    initializer,    \* module -> it has an initializer
    initialized,    \* the modules whose flag is set
    stack,          \* frames, [module, state, next]
    active,         \* names of the modules being resolved -> index of the frame
    running,        \* Context::running_: the loop of ready coroutines runs
    outer,          \* the frames of the resolution that waits for the loop to
    outer_active,   \* run its initializer, and its active modules
    alive,          \* module -> its initializers that run without a resolution
    reported,       \* the modules the last error about a cycle names
    failures,       \* runs of an initializer that failed
    returned,       \* history: module -> initializers that returned
    outlived,       \* history: modules with an initializer that outlived its resolution
    dangling,       \* history: links, <<module, index>>, whose target was not
                    \* initialized yet when their resolution failed
    reentered       \* history: modules a resolution entered while another one
                    \* was waiting that had a frame for them

linking == <<registered, members, initializer>>
resolution == <<stack, active>>
waiting == <<running, outer, outer_active>>
past == <<failures, returned, outlived>>
broken == <<dangling, reentered>>
vars == <<linking, initialized, resolution, waiting, alive, reported, past, broken>>

Names == Modules \cup {Missing}
States == {"Enter", "Dependencies", "Init", "Exit"}
Frame(m) == [module |-> m, state |-> "Enter", next |-> 1]
UnresolvedImport(name) == [name |-> name, linked |-> FALSE]
Load(layout) == [i \in DOMAIN layout |-> UnresolvedImport(layout[i])]

Init ==
    /\ registered = {}
    /\ \E program \in Programs : members = [m \in Modules |-> Load(program[m])]
    /\ initializer \in [Modules -> BOOLEAN]
    /\ initialized = {} /\ stack = <<>> /\ active = << >>
    /\ running = FALSE /\ outer = <<>> /\ outer_active = << >>
    /\ alive = [m \in Modules |-> 0] /\ reported = <<>>
    /\ failures = 0 /\ returned = [m \in Modules |-> 0] /\ outlived = {}
    /\ dangling = {} /\ reentered = {}

Top == stack[Len(stack)]
SetTop(f) == stack' = [stack EXCEPT ![Len(stack)] = f]
Entered(frames) == {frames[i].module : i \in DOMAIN frames}

\* By the host, or by code that the loop runs.
add_module(m) ==
    /\ stack = <<>>
    /\ m \notin registered
    /\ registered' = registered \cup {m}
    /\ UNCHANGED <<members, initializer, initialized, resolution, waiting, alive, reported, past,
                   broken>>

\* The links of a frame to the frame above it.
Pending(frames) == {<<frames[i].module, frames[i].next - 1>> : i \in 1 .. Len(frames) - 1}

\* An error leaves resolve_module: its frames and the set of active modules
\* are local to the call, the links stay.
Fail(links) ==
    /\ stack' = <<>> /\ active' = << >>
    /\ dangling' = dangling \cup Pending(stack) \cup links

\* get_module finds the module and calls resolve_module. Code that the loop
\* runs calls it too (the bound: as long as a failure is to spare).
get_module(m) ==
    /\ stack = <<>> /\ m \in registered /\ (running => failures < MaxFailures)
    /\ stack' = IF m \in initialized THEN <<>> ELSE <<Frame(m)>>
    /\ reported' = <<>>
    /\ UNCHANGED <<linking, initialized, active, waiting, alive, past, broken>>

\* on_import_cycle: the frames from the first one of the module to the last.
Cycle == [k \in 1 .. Len(stack) - active[Top.module] |-> stack[active[Top.module] + k].module]

enter ==
    /\ stack # <<>> /\ Top.state = "Enter"
    /\ IF Top.module \in DOMAIN active
       THEN Fail({}) /\ reported' = Cycle /\ UNCHANGED reentered
       ELSE /\ active' = [m \in DOMAIN active \cup {Top.module} |->
                             IF m = Top.module THEN Len(stack) - 1 ELSE active[m]]
            /\ SetTop([Top EXCEPT !.state = "Dependencies"])
            /\ reentered' = reentered \cup ({Top.module} \cap Entered(outer))
            /\ UNCHANGED <<reported, dangling>>
    /\ UNCHANGED <<linking, initialized, waiting, alive, past>>

\* Mutant: the position is not advanced.
Skip_stays == Top
Skip == [Top EXCEPT !.next = @ + 1]

\* Mutant: imports that are not initialized are linked but not visited.
recurse_never(m) == UNCHANGED <<active, dangling>> /\ SetTop(Skip)
\* Visits an imported module, after the frame has moved past the import.
recurse(m) ==
    IF m \in initialized
    THEN SetTop(Skip) /\ UNCHANGED <<active, dangling>>
    ELSE IF Len(stack) >= MaxStack
    THEN Fail({<<Top.module, Top.next>>})
    ELSE /\ stack' = Append([stack EXCEPT ![Len(stack)] = Skip], Frame(m))
         /\ UNCHANGED <<active, dangling>>

\* One member of the module on top, or the end of the members.
dependencies ==
    /\ stack # <<>> /\ Top.state = "Dependencies"
    /\ LET mod == Top.module
           i == Top.next
       IN IF i > Len(members[mod])
          THEN SetTop([Top EXCEPT !.state = "Init"]) /\ UNCHANGED <<members, active, dangling>>
          ELSE LET imp == members[mod][i]
               IN IF imp.linked
                  THEN SetTop(Skip) /\ UNCHANGED <<members, active, dangling>>
                  ELSE IF imp.name \notin registered
                  THEN Fail({}) /\ UNCHANGED members
                  ELSE /\ members' = [members EXCEPT ![mod][i].linked = TRUE]
                       /\ recurse(imp.name)
    /\ UNCHANGED <<registered, initializer, initialized, waiting, alive, reported, past, reentered>>

\* The resolution goes on: the flag is set and the frame is left.
Initialized(frames) ==
    /\ initialized' = initialized \cup {frames[Len(frames)].module}
    /\ stack' = [frames EXCEPT ![Len(frames)].state = "Exit"]

\* A module without an initializer is initialized. Otherwise run_init starts a
\* coroutine and runs the loop, in which other code may run before the
\* coroutine, or after it. If the loop runs already then run_ready throws: the
\* coroutine is left on the list, and the loop will run it.
init ==
    /\ stack # <<>> /\ Top.state = "Init"
    /\ IF ~initializer[Top.module]
       THEN Initialized(stack) /\ UNCHANGED <<active, waiting, alive, past, dangling>>
       ELSE IF running
       THEN /\ Fail({})
            /\ alive' = [alive EXCEPT ![Top.module] = @ + 1]
            /\ outlived' = outlived \cup {Top.module} /\ failures' = failures + 1
            /\ UNCHANGED <<initialized, waiting, returned>>
       ELSE /\ running' = TRUE /\ outer' = stack /\ outer_active' = active
            /\ stack' = <<>> /\ active' = << >>
            /\ UNCHANGED <<initialized, alive, past, dangling>>
    /\ UNCHANGED <<linking, reported, reentered>>

\* The loop of run_init ends. The initializer has returned; or it has
\* panicked, or an exception has destroyed it; or it waits for an async
\* function, or an exception has left the loop before its turn: then run_init
\* throws, and the coroutine stays alive.
run_init_ends(how) ==
    /\ outer # <<>> /\ stack = <<>>
    /\ running' = FALSE /\ outer' = <<>> /\ outer_active' = << >>
    /\ LET m == outer[Len(outer)].module IN
       \/ /\ how = "returned"
          /\ Initialized(outer) /\ active' = outer_active
          /\ returned' = [returned EXCEPT ![m] = @ + 1]
          /\ UNCHANGED <<alive, failures, outlived, dangling>>
       \/ /\ how # "returned" /\ failures < MaxFailures /\ failures' = failures + 1
          /\ dangling' = dangling \cup Pending(outer)
          /\ alive' = [alive EXCEPT ![m] = IF how = "left" THEN @ + 1 ELSE @]
          /\ outlived' = IF how = "left" THEN outlived \cup {m} ELSE outlived
          /\ UNCHANGED <<initialized, resolution, returned>>
    /\ UNCHANGED <<linking, reported, reentered>>

\* Mutant: the name stays among the active ones.
exit_stays_active ==
    /\ stack # <<>> /\ Top.state = "Exit"
    /\ stack' = SubSeq(stack, 1, Len(stack) - 1)
    /\ UNCHANGED <<linking, initialized, active, waiting, alive, reported, past, broken>>
exit ==
    /\ stack # <<>> /\ Top.state = "Exit"
    /\ active' = [m \in DOMAIN active \ {Top.module} |-> active[m]]
    /\ stack' = SubSeq(stack, 1, Len(stack) - 1)
    /\ UNCHANGED <<linking, initialized, waiting, alive, reported, past, broken>>

\* An initializer that outlived its resolution comes to an end in some loop.
late(m, ok) ==
    /\ running /\ stack = <<>> /\ alive[m] > 0
    /\ alive' = [alive EXCEPT ![m] = @ - 1]
    /\ returned' = [returned EXCEPT ![m] = IF ok THEN @ + 1 ELSE @]
    /\ UNCHANGED <<linking, initialized, resolution, waiting, reported, failures, outlived, broken>>

\* The host runs the loop itself, outside of any resolution.
run_ready ==
    /\ stack = <<>> /\ outer = <<>>
    /\ running' = ~running
    /\ UNCHANGED <<linking, initialized, resolution, outer, outer_active, alive, reported, past, broken>>

resolve == enter \/ dependencies \/ init \/ exit
initializer_ends == \E how \in {"returned", "failed", "left"} : run_init_ends(how)
Next ==
    \/ resolve \/ initializer_ends \/ run_ready
    \/ \E m \in Modules : add_module(m) \/ get_module(m) \/ \E ok \in BOOLEAN : late(m, ok)
Spec == Init /\ [][Next]_vars
\* resolve_module runs to its end once it is called, if the loops that run the
\* initializers do.
FairSpec == Spec /\ WF_vars(resolve) /\ SF_vars(initializer_ends)

---------------------------------------------------------------------------
\* Properties.

\* Every variable has its type and the stack respects the recursion limit.
TypeOK ==
    /\ registered \subseteq Modules /\ initialized \subseteq Modules
    /\ members \in [Modules -> Seq([name : Names, linked : BOOLEAN])]
    /\ initializer \in [Modules -> BOOLEAN]
    /\ \A frames \in {stack, outer} :
          /\ frames \in Seq([module : Modules, state : States, next : Nat])
          /\ Len(frames) <= MaxStack
    /\ DOMAIN active \subseteq Modules /\ \A m \in DOMAIN active : active[m] \in Nat
    /\ running \in BOOLEAN /\ alive \in [Modules -> Nat] /\ returned \in [Modules -> Nat]
    /\ reported \in Seq(Modules) /\ failures \in 0..MaxFailures
    /\ outlived \subseteq Modules /\ reentered \subseteq Modules
    /\ dangling \subseteq Modules \X Nat

\* Cycle detection sees exactly the modules being resolved: the active names
\* are those of the frames past Enter, each with the index of its frame, and
\* so no module has two such frames (on_import_cycle's assertions).
ActiveAre(frames, index) ==
    /\ DOMAIN index = {frames[i].module : i \in {j \in DOMAIN frames : frames[j].state # "Enter"}}
    /\ \A i \in DOMAIN frames :
          frames[i].state # "Enter" => index[frames[i].module] = i - 1
ActiveIsStack == ActiveAre(stack, active) /\ ActiveAre(outer, outer_active)

\* A stack is a path of imports: every frame above the first was pushed
\* for the member its caller has just linked.
IsImportPath(frames) ==
    \A i \in 2 .. Len(frames) :
        LET c == frames[i - 1] IN
        /\ c.state = "Dependencies" /\ c.next > 1
        /\ members[c.module][c.next - 1] = [name |-> frames[i].module, linked |-> TRUE]

\* A module on the stack is not initialized unless its frame is about to be
\* popped (the assertion of the main loop), so that no initializer is started
\* again after it has returned; except that a resolution from the loop that
\* runs an initializer may have initialized a module that has none.
NotInitializedYet(frames) ==
    \A i \in DOMAIN frames :
        LET m == frames[i].module IN
        /\ frames[i].state = "Exit" => m \in initialized
        /\ m \in initialized =>
              frames[i].state = "Exit" \/ (m \in reentered /\ ~initializer[m])
StackIsImportPath ==
    \A frames \in {stack, outer} : IsImportPath(frames) /\ NotInitializedYet(frames)

\* An error about a cycle names one: a path of imports from a module to itself.
CycleIsReal ==
    reported # <<>> =>
        /\ Len(reported) > 1 /\ reported[1] = reported[Len(reported)]
        /\ \A k \in 2 .. Len(reported) :
              \E i \in DOMAIN members[reported[k - 1]] :
                  members[reported[k - 1]][i] = [name |-> reported[k], linked |-> TRUE]

\* The imports of an initialized module are linked and were initialized before
\* it (they always are, and it is not its own import: so no module on a cycle
\* is initialized). Except for an import that a resolution linked that failed
\* before it was initialized, and for modules that were on the stack of a
\* resolution that waited when another one came to them: a later resolution
\* takes a linked import for one that is initialized.
ImportsFirst ==
    \A m \in initialized : \A i \in DOMAIN members[m] :
        /\ members[m][i].linked
        /\ \/ members[m][i].name \in initialized \ {m}
           \/ <<m, i>> \in dangling \/ m \in reentered

\* The initializer of a module returns once if the module is initialized, and
\* else never, whatever is resolved again after errors; unless one has outlived
\* the resolution that started it, which is started again by the next one.
InitializedOnce ==
    \A m \in Modules :
        LET due == IF m \in initialized /\ initializer[m] THEN 1 ELSE 0 IN
        returned[m] >= due /\ (m \notin outlived => returned[m] = due)

\* Import cycles, missing modules and failing initializers included, a call
\* of resolve_module ends.
ResolutionEnds == stack \o outer # <<>> ~> stack \o outer = <<>>

\* The modules marked active are those on the stack, and the stack is a path of imports: a module is
\* reported to be part of a cycle of imports only if it is (ModuleRegistry::resolve_module).
ResolutionStack == TypeOK /\ ActiveIsStack /\ StackIsImportPath /\ CycleIsReal

\* Modules are initialized after their imports and once, but for what failed and nested resolutions
\* have left behind (ModuleRegistry::resolve_module, Context::run_init).
InitializedInOrder == ImportsFirst /\ InitializedOnce
=============================================================================
