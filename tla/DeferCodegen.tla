---------------------------- MODULE DeferCodegen ----------------------------
(***************************************************************************)
(* How the compiler turns deferred statements into code (FunctionIRGen).   *)
(*                                                                         *)
(* A deferred statement is compiled several times: once as an exception    *)
(* handler, and once for every way to leave its scope.  The compiler keeps *)
(* a stack of regions with the deferred statements of every scope, and the *)
(* current handler, which all new basic blocks inherit.  Leaving a scope   *)
(* compiles deferred statements that may themselves leave scopes (return,  *)
(* break), so scope exits are nested.                                      *)
(*                                                                         *)
(* The function being compiled is chosen nondeterministically, statement   *)
(* by statement.  A basic block is represented by its handler, a handler   *)
(* by the number of its deferred statement; 0 is no handler.  A branch or  *)
(* a loop is one construct together with the block expression in it.       *)
(***************************************************************************)
EXTENDS Integers, Sequences

CONSTANTS
    MaxOpen,     \* bound on nested constructs
    MaxDefers,   \* bound on deferred statements
    Bodies,      \* what a deferred statement may do
    EarlyExits   \* the statements that leave scopes: a subset of {"return", "break"}

\* "maybe_..." stands for a return or break in a branch.
AllBodies == {"plain", "return", "break", "maybe_return", "maybe_break"}

ASSUME DeferAssumption ==
    /\ MaxOpen \in Nat \ {0} \* the body of the function is a construct
    /\ MaxDefers \in Nat
    /\ Bodies \subseteq AllBodies
    /\ EarlyExits \subseteq {"return", "break"}

VARIABLES
    open,      \* active_regions_: the constructs around the current point
    handler,   \* current_handler_
    block,     \* the current basic block
    reachable, \* FALSE after the compiler has met a return or break
    exits,     \* the calls of compile_scope_exit_until in progress, the innermost last
    count,     \* deferred statements so far
    early,     \* history: has a scope been left by anything but its end?
    abandoned  \* history: has a scope exit been given up, at a deferred statement that always leaves?

vars == <<open, handler, block, reachable, exits, count, early, abandoned>>

Construct(kind) ==
    [kind |-> kind, end |-> handler, original |-> handler, processed |-> 0, deferred |-> <<>>]

\* The innermost loop, or 0.
current_loop ==
    IF \E i \in DOMAIN open : open[i].kind = "loop"
    THEN CHOOSE i \in DOMAIN open :
            open[i].kind = "loop" /\ \A j \in DOMAIN open : open[j].kind = "loop" => j <= i
    ELSE 0

\* The construct at which the scope exit of a return or a break stops.
Target(exit) == IF exit = "break" THEN current_loop - 1 ELSE 0

Compiling == exits = <<>> /\ open # <<>>

Exit == exits[Len(exits)]

-----------------------------------------------------------------------------
(* Scope exits. *)

\* compile_scope_exit_until begins, with constructs cs.  `origin` is the code
\* that needs it: a statement, the end of a block, a deferred statement (which
\* is always left this way, or only in a branch, after which the code goes on in
\* block `end`), or the handler of a new deferred statement, with its `body`.
\* `ran` (history) are the deferred statements that this exit has compiled so far,
\* `done` those that the exits around it had compiled when it began, of the scopes
\* that they were leaving.
NewExit(cs, target, origin, end, body, done) ==
    [pos |-> Len(cs), target |-> target, initial |-> cs[Len(cs)].processed, origin |-> origin,
     end |-> end, body |-> body, ran |-> {}, done |-> done, failed |-> FALSE]

\* The deferred statements of a construct.
DeferredIn(i) == {open[i].deferred[k].id : k \in DOMAIN open[i].deferred}

\* The deferred statements of scope i that an exit has not compiled yet.
Remaining(i) == Len(open[i].deferred) - open[i].processed

\* The deferred statement that is compiled next.
NextDeferred == open[Exit.pos].deferred[Remaining(Exit.pos)]

Leaves(body) == IF body \in {"return", "maybe_return"} THEN "return" ELSE "break"
Origin(body) == IF body \in {"return", "break"} THEN "always" ELSE "sometimes"

\* The exits after a deferred statement with this body was compiled with
\* constructs cs: a return or break in it starts another exit.
CompileBody(cs, es, body, end, done) ==
    IF body = "plain" THEN es
    ELSE Append(es, NewExit(cs, Target(Leaves(body)), Origin(body), end, body, done))

AtDeferred == exits # <<>> /\ Exit.pos > Exit.target /\ ~Exit.failed /\ Remaining(Exit.pos) > 0

\* "Signals progress to recursive calls"
progress(p) == [open EXCEPT ![p].processed = @ + 1]

\* One turn of the loop in compile_scope_exit: the last deferred statement that
\* has not been processed is compiled in a new block.
RunDeferred ==
    /\ AtDeferred
    /\ LET d   == NextDeferred
           ran == Exit.ran \cup {d.id}
       IN  /\ open' = progress(Exit.pos)
           /\ handler' = d.handler
           /\ block' = d.handler
           /\ exits' = CompileBody(open', [exits EXCEPT ![Len(exits)].ran = ran],
                                   d.body, d.handler, Exit.done \cup (ran \cap DeferredIn(Exit.pos)))
    /\ UNCHANGED <<reachable, count, early, abandoned>>

\* Mutant: there is no handler when a scope has been left.
restored_handler_none(i) == 0

\* The handler that is current when scope i has been left.
restored_handler(i) == open[i].original

\* Mutant: the progress is not reset.
LeaveScopeKeeping ==
    /\ exits # <<>>
    /\ Exit.pos > Exit.target
    /\ Exit.failed \/ Remaining(Exit.pos) = 0
    /\ handler' = restored_handler(Exit.pos)
    /\ LET next == IF Exit.failed THEN Exit.target ELSE Exit.pos - 1
       IN  exits' = [exits EXCEPT ![Len(exits)] =
                [@ EXCEPT !.pos = next, !.initial = IF next > 0 THEN open[next].processed ELSE 0]]
    /\ UNCHANGED <<open, block, reachable, count, early, abandoned>>

\* The end of compile_scope_exit, normally or because a deferred statement always
\* returns; compile_scope_exit_until goes on with the next scope, or fails.
LeaveScope ==
    /\ exits # <<>>
    /\ Exit.pos > Exit.target
    /\ Exit.failed \/ Remaining(Exit.pos) = 0
    /\ handler' = restored_handler(Exit.pos)
    /\ open' = [open EXCEPT ![Exit.pos].processed = Exit.initial]
    /\ LET next == IF Exit.failed THEN Exit.target ELSE Exit.pos - 1
       IN  exits' = [exits EXCEPT ![Len(exits)] =
                [@ EXCEPT !.pos = next, !.initial = IF next > 0 THEN open[next].processed ELSE 0]]
    /\ UNCHANGED <<block, reachable, count, early, abandoned>>

\* compile_scope_exit_until returns to a deferred statement.  What follows a
\* return is not compiled, which ends the exit below; after a branch the code
\* goes on.
ReturnToDeferred ==
    /\ exits # <<>>
    /\ Exit.pos = Exit.target
    /\ Exit.origin \in {"always", "sometimes"}
    /\ LET below == SubSeq(exits, 1, Len(exits) - 1)
       IN  exits' = IF Exit.origin = "always"
                    THEN [below EXCEPT ![Len(below)].failed = TRUE]
                    ELSE below
    /\ block' = Exit.end
    /\ abandoned' = (abandoned \/ Exit.origin = "always")
    /\ UNCHANGED <<open, handler, reachable, count, early>>

-----------------------------------------------------------------------------
(* Statements. *)

\* The end of visit_defer_stmt: the statement is remembered, and its handler is
\* the handler of everything that follows.
remember(cs, h, body) ==
    /\ open' = [cs EXCEPT ![Len(cs)].deferred =
            Append(@, [id |-> count', body |-> body, handler |-> h])]
    /\ handler' = count'
    /\ block' = count'

\* visit_defer_stmt: the handler block inherits the current handler.
Defer(body) ==
    /\ Compiling /\ reachable
    /\ count < MaxDefers
    /\ body \in {"break", "maybe_break"} => current_loop # 0
    /\ count' = count + 1
    /\ early' = (early \/ body # "plain")
    /\ \/ /\ body = "plain"
          /\ remember(open, handler, body)
          /\ UNCHANGED exits
       \/ /\ body # "plain"
          /\ exits' = <<NewExit(open, Target(Leaves(body)), "handler", handler, body, {})>>
          /\ UNCHANGED <<open, handler, block>>
    /\ UNCHANGED <<reachable, abandoned>>

\* The handler of a deferred statement with a return or break is complete.
DeferContinue ==
    /\ exits # <<>>
    /\ Exit.pos = Exit.target
    /\ Exit.origin = "handler"
    /\ exits' = <<>>
    /\ count' = count
    /\ remember(open, handler, Exit.body)
    /\ UNCHANGED <<reachable, early, abandoned>>

\* visit_block_expr, visit_if_expr with and without else, visit_while_stmt and
\* visit_for_stmt: the blocks of the construct are made before its parts are compiled.
Enter(kind) ==
    /\ Compiling /\ reachable
    /\ Len(open) < MaxOpen
    /\ open' = Append(open, Construct(kind))
    /\ block' = IF kind = "block" THEN block ELSE handler
    /\ UNCHANGED <<handler, reachable, exits, count, early, abandoned>>

\* visit_return_expr, visit_break_expr, visit_continue_expr
LeaveEarly(exit) ==
    /\ Compiling /\ reachable
    /\ exit = "break" => current_loop # 0
    /\ exits' = <<NewExit(open, Target(exit), "statement", 0, "plain", {})>>
    /\ early' = TRUE
    /\ UNCHANGED <<open, handler, block, reachable, count, abandoned>>

Unreachable ==
    /\ exits # <<>>
    /\ Exit.pos = Exit.target
    /\ Exit.origin = "statement"
    /\ exits' = <<>>
    /\ reachable' = FALSE
    /\ UNCHANGED <<open, handler, block, count, early, abandoned>>

\* The construct is complete: the code goes on in its last block, if it has one,
\* or with the else branch.
Closed(is_reachable) ==
    LET c    == open[Len(open)]
        rest == SubSeq(open, 1, Len(open) - 1)
    IN  /\ open' = IF c.kind = "if_else"
                   THEN Append(rest, [Construct("if") EXCEPT !.end = c.end]) ELSE rest
        /\ block' = IF c.kind = "block" THEN block ELSE c.end
        /\ reachable' = (is_reachable \/ c.kind # "block")
        /\ UNCHANGED <<handler, count, early, abandoned>>

\* The last statement of a block: its scope is left first, if the end is reached.
BlockEnd ==
    /\ Compiling /\ reachable
    /\ exits' = <<NewExit(open, Len(open) - 1, "block", 0, "plain", {})>>
    /\ UNCHANGED <<open, handler, block, reachable, count, early, abandoned>>

Close ==
    \/ /\ Compiling /\ ~reachable
       /\ Closed(FALSE)
       /\ UNCHANGED exits
    \/ /\ exits # <<>>
       /\ Exit.pos = Exit.target
       /\ Exit.origin = "block"
       /\ Closed(~Exit.failed)
       /\ exits' = <<>>

-----------------------------------------------------------------------------
\* The body of the function is a block.
Init ==
    /\ open = <<[kind |-> "block", end |-> 0, original |-> 0, processed |-> 0, deferred |-> <<>>]>>
    /\ handler = 0
    /\ block = 0
    /\ reachable = TRUE
    /\ exits = <<>>
    /\ count = 0
    /\ early = FALSE
    /\ abandoned = FALSE

Next ==
    \/ \E body \in Bodies : Defer(body)
    \/ \E kind \in {"block", "if", "if_else", "loop"} : Enter(kind)
    \/ \E exit \in EarlyExits : LeaveEarly(exit)
    \/ RunDeferred \/ LeaveScope \/ ReturnToDeferred \/ DeferContinue
    \/ Unreachable \/ BlockEnd \/ Close

Spec == Init /\ [][Next]_vars

-----------------------------------------------------------------------------
(* Properties. *)

Ids == 0 .. MaxDefers

DeferredStatements == [id : Ids, body : AllBodies, handler : Ids]

Constructs ==
    [kind : {"block", "if", "if_else", "loop"}, end : Ids, original : Ids, processed : 0 .. MaxDefers,
     deferred : Seq(DeferredStatements)]

ExitRecords ==
    [pos : 0 .. MaxOpen, target : 0 .. MaxOpen, initial : 0 .. MaxDefers,
     origin : {"statement", "block", "always", "sometimes", "handler"}, end : Ids,
     body : AllBodies, ran : SUBSET Ids, done : SUBSET Ids, failed : BOOLEAN]

\* Every variable has its type.
TypeOK ==
    /\ open \in Seq(Constructs)
    /\ handler \in Ids
    /\ block \in Ids
    /\ reachable \in BOOLEAN
    /\ exits \in Seq(ExitRecords)
    /\ count \in Ids
    /\ early \in BOOLEAN
    /\ abandoned \in BOOLEAN

Deferred == UNION {DeferredIn(i) : i \in DOMAIN open}

\* The innermost deferred statement that is not in set s; 0 if there is none.
Innermost(s) ==
    IF Deferred \subseteq s THEN 0
    ELSE CHOOSE d \in Deferred \ s : \A e \in Deferred \ s : e <= d

\* The handler of the current block is the innermost deferred statement, so that
\* a panic executes all deferred statements of the scopes around it, as long as
\* no scope has been left early. Behind an early exit handlers may be missing, but
\* the handler is still a deferred statement of a scope around the block, and not
\* of one that has been left; until a deferred statement that always leaves ends a
\* scope exit before its time (compile_scope_exit, visit_defer_stmt).
HandlerCovers ==
    Compiling /\ reachable =>
        /\ ~early => block = Innermost({})
        /\ ~abandoned => block \in Deferred \cup {0}

\* A scope exit, whether a statement caused it or a deferred statement, compiles
\* the innermost deferred statement that neither it nor, in the scopes that they
\* are leaving, the exits around it have compiled: in reverse order, each once.
\* What the exits around it have compiled in scopes that they have left already
\* is compiled again, since leaving a scope resets Region::Scope::processed.
ExitOrder == AtDeferred => NextDeferred.id = Innermost(Exit.ran \cup Exit.done)

\* When it is complete, it has compiled all of these of the scopes that it
\* leaves, and none of the scopes around them.
ExitComplete ==
    exits # <<>> /\ Exit.pos = Exit.target /\ ~Exit.failed =>
        \A i \in DOMAIN open :
            DeferredIn(i) \cap Exit.ran = IF i > Exit.target THEN DeferredIn(i) \ Exit.done ELSE {}

\* What it leaves to the exits around it has indeed been compiled on the way.
DoneOnTheWay == \A e \in DOMAIN exits : \A d \in exits[e].done : \E o \in 1 .. (e - 1) : d \in exits[o].ran

\* "Cannot add additional deferred items when generating scope exit code"
\* (visit_defer_stmt): no scope exit leaves its progress behind.
ProgressRestored == Compiling => \A i \in DOMAIN open : open[i].processed = 0

\* An exit of scopes compiles the deferred statements of all scopes that it leaves, each once and the
\* innermost first, except those that the exits it is nested in have compiled of the scopes they
\* are at, and leaves the bookkeeping of the scopes as it was (compile_scope_exit and
\* compile_scope_exit_until in func.cpp).
ScopeExits == TypeOK /\ ExitOrder /\ ExitComplete /\ DoneOnTheWay /\ ProgressRestored
=============================================================================
