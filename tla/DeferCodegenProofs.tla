------------------------- MODULE DeferCodegenProofs -------------------------
(***************************************************************************)
(* Proofs about the code of deferred statements, for functions with any    *)
(* number of nested constructs and deferred statements.                    *)
(***************************************************************************)
EXTENDS DeferCodegen, SequenceTheorems, WellFoundedInduction, TLAPS

USE DeferAssumption

\* The deferred statements of construct i, and the identity of the k-th.
Size(i) == Len(open[i].deferred)
Id(i, k) == open[i].deferred[k].id

\* The deferred statements that are complete: all but the one whose handler is compiled.
Numbered == IF exits # <<>> /\ exits[1].origin = "handler" THEN count - 1 ELSE count

\* The deferred statements are numbered in the order of the constructs, and what
\* breaks out of a loop is inside one.
ScopesOK ==
    /\ Numbered \in 0 .. count
    /\ \A i \in DOMAIN open : \A k \in DOMAIN open[i].deferred :
          /\ Id(i, k) \in k .. Numbered
          /\ open[i].deferred[k].body \in {"break", "maybe_break"}
                => \E j \in 1 .. i : open[j].kind = "loop"
    /\ \A i, j \in DOMAIN open :
          \A k \in DOMAIN open[i].deferred, l \in DOMAIN open[j].deferred :
             i < j \/ (i = j /\ k < l) => Id(i, k) < Id(j, l)

\* Exit e is between the beginning and the end of compile_scope_exit for construct i.
Inside(e, i) == exits[e].pos = i /\ exits[e].target < i

\* The exits are nested: all but the innermost are compiling a deferred statement.
ExitsOK ==
    /\ Len(open) <= MaxOpen
    /\ exits # <<>> => open # <<>>
    /\ \A e \in DOMAIN exits :
          /\ exits[e].target <= exits[e].pos /\ exits[e].pos <= Len(open)
          /\ exits[e].target < Len(open)
          /\ exits[e].origin \in {"always", "sometimes"} <=> e # 1
          /\ e # Len(exits) => exits[e].target < exits[e].pos /\ ~exits[e].failed
          /\ exits[e].origin = "handler" /\ exits[e].body \in {"break", "maybe_break"}
                => \E j \in DOMAIN open : open[j].kind = "loop"

\* p[e] tells how far the constructs had been processed when exit e was the
\* innermost one (p[0]: before the first); this is what leaving a construct restores.
Restores(p) ==
    /\ p \in [0 .. Len(exits) -> [DOMAIN open -> Nat]]
    /\ \A i \in DOMAIN open : p[0][i] = 0 /\ p[Len(exits)][i] = open[i].processed
    /\ \A e \in 1 .. Len(exits), i \in DOMAIN open :
          p[e - 1][i] = IF Inside(e, i) THEN exits[e].initial ELSE p[e][i]
    /\ \A e \in 0 .. Len(exits), i \in DOMAIN open : p[e][i] <= Size(i)

\* Exits only add to what is processed.
Grows(p) == \A e \in 1 .. Len(exits), i \in DOMAIN open : p[e - 1][i] <= p[e][i]

\* What was processed when an exit began is what the exits around it had compiled.
DoneOK(p) ==
    \A e \in 1 .. Len(exits), i \in DOMAIN open : \A k \in DOMAIN open[i].deferred :
        Id(i, k) \in exits[e].done <=> k > Size(i) - p[e - 1][i]

\* Exit e has executed what it found in the scopes behind it, and in the scope
\* that it is leaving what it has processed.
Executed(e, pos, i, k, p) ==
    /\ ~(k > Size(i) - p[e - 1][i])
    /\ i > pos \/ (i = pos /\ k > Size(i) - p[e][i])

RanOK(p) ==
    \A e \in 1 .. Len(exits) : ~exits[e].failed =>
        \A i \in DOMAIN open : \A k \in DOMAIN open[i].deferred :
            Id(i, k) \in exits[e].ran <=> Executed(e, exits[e].pos, i, k, p)

ProgressOK == \E p : Restores(p) /\ Grows(p) /\ DoneOK(p) /\ RanOK(p)

DeferInv == TypeOK /\ ScopesOK /\ ExitsOK /\ ProgressOK /\ DoneOnTheWay

-----------------------------------------------------------------------------
(* Types. *)

\* What the type invariant says of single elements.
LEMMA PointTypes ==
    ASSUME TypeOK
    PROVE  /\ Len(open) \in Nat /\ DOMAIN open = 1 .. Len(open)
           /\ Len(exits) \in Nat /\ DOMAIN exits = 1 .. Len(exits)
           /\ \A i \in DOMAIN open :
                 /\ open[i] \in Constructs /\ open[i].processed \in 0 .. MaxDefers
                 /\ open[i].deferred \in Seq(DeferredStatements)
                 /\ Size(i) \in Nat /\ DOMAIN open[i].deferred = 1 .. Size(i)
                 /\ open[i].end \in Ids /\ open[i].original \in Ids
           /\ \A i \in DOMAIN open : \A k \in DOMAIN open[i].deferred :
                 /\ Id(i, k) \in Nat /\ open[i].deferred[k].handler \in Ids
                 /\ open[i].deferred[k].body \in AllBodies
           /\ \A e \in DOMAIN exits :
                 /\ exits[e] \in ExitRecords /\ exits[e].pos \in Nat /\ exits[e].target \in Nat
                 /\ exits[e].initial \in Nat /\ exits[e].ran \subseteq Ids /\ exits[e].done \subseteq Ids
  <1>1. open \in Seq(Constructs) /\ exits \in Seq(ExitRecords)
    BY DEF TypeOK
  <1>2. /\ Len(open) \in Nat /\ DOMAIN open = 1 .. Len(open)
        /\ Len(exits) \in Nat /\ DOMAIN exits = 1 .. Len(exits)
    BY <1>1, LenProperties
  <1>3. ASSUME NEW i \in DOMAIN open
        PROVE  /\ open[i] \in Constructs /\ open[i].processed \in 0 .. MaxDefers
               /\ open[i].deferred \in Seq(DeferredStatements)
               /\ Size(i) \in Nat /\ DOMAIN open[i].deferred = 1 .. Size(i)
               /\ open[i].end \in Ids /\ open[i].original \in Ids
    <2>1. open[i] \in Constructs
      BY <1>1, <1>2, ElementOfSeq
    <2>2. /\ open[i].deferred \in Seq(DeferredStatements) /\ open[i].processed \in 0 .. MaxDefers
          /\ open[i].end \in Ids /\ open[i].original \in Ids
      BY <2>1 DEF Constructs
    <2> QED BY <2>1, <2>2, LenProperties DEF Size
  <1>4. ASSUME NEW i \in DOMAIN open, NEW k \in DOMAIN open[i].deferred
        PROVE  /\ Id(i, k) \in Nat /\ open[i].deferred[k].handler \in Ids
               /\ open[i].deferred[k].body \in AllBodies
    <2>1. open[i].deferred[k] \in DeferredStatements
      BY <1>3, ElementOfSeq DEF Size
    <2> QED BY <2>1 DEF DeferredStatements, Id, Ids
  <1>5. ASSUME NEW e \in DOMAIN exits
        PROVE  /\ exits[e] \in ExitRecords /\ exits[e].pos \in Nat /\ exits[e].target \in Nat
               /\ exits[e].initial \in Nat /\ exits[e].ran \subseteq Ids /\ exits[e].done \subseteq Ids
    <2>1. exits[e] \in ExitRecords
      BY <1>1, <1>2, ElementOfSeq
    <2> QED BY <2>1 DEF ExitRecords
  <1> QED BY <1>2, <1>3, <1>4, <1>5

\* Changing how far one construct is processed changes nothing else.
LEMMA ProcessedUpdate ==
    ASSUME TypeOK, NEW c \in DOMAIN open, NEW v \in 0 .. MaxDefers,
           open' = [open EXCEPT ![c] = [open[c] EXCEPT !.processed = v]]
    PROVE  /\ open' \in Seq(Constructs) /\ Len(open') = Len(open) /\ DOMAIN open' = DOMAIN open
           /\ \A i \in DOMAIN open :
                 /\ open'[i].processed = IF i = c THEN v ELSE open[i].processed
                 /\ open'[i].deferred = open[i].deferred /\ open'[i].kind = open[i].kind
                 /\ open'[i].original = open[i].original /\ open'[i].end = open[i].end
  <1> DEFINE r == [open[c] EXCEPT !.processed = v]
  <1>1. open \in Seq(Constructs) /\ c \in 1 .. Len(open) /\ open[c] \in Constructs
    BY PointTypes DEF TypeOK
  <1>2. /\ r \in Constructs /\ r.processed = v /\ r.deferred = open[c].deferred /\ r.kind = open[c].kind
        /\ r.original = open[c].original /\ r.end = open[c].end
    BY <1>1 DEF Constructs
  <1> HIDE DEF r
  <1>3. open' = [open EXCEPT ![c] = r]
    BY DEF r
  <1>4. open' \in Seq(Constructs) /\ Len(open') = Len(open) /\ DOMAIN open' = DOMAIN open
    BY <1>1, <1>2, <1>3, ExceptSeq, LenProperties
  <1>5. \A i \in DOMAIN open : open'[i] = IF i = c THEN r ELSE open[i]
    BY <1>3
  <1> QED BY <1>2, <1>4, <1>5

\* The innermost loop is one of the constructs.
LEMMA CurrentLoop ==
    ASSUME TypeOK
    PROVE  /\ current_loop \in 0 .. Len(open)
           /\ (\E i \in DOMAIN open : open[i].kind = "loop") => current_loop # 0
           /\ current_loop # 0 => open[current_loop].kind = "loop"
  <1> DEFINE n == Len(open)
             Loops == {i \in DOMAIN open : open[i].kind = "loop"}
             T == {n - i : i \in Loops}
             R == {ss \in Nat \X Nat : ss[1] < ss[2]}
  <1>1. n \in Nat /\ DOMAIN open = 1 .. n
    BY PointTypes
  <1>2. CASE Loops = {}
    BY <1>1, <1>2 DEF current_loop
  <1>3. CASE Loops # {}
    <2>1. T \subseteq Nat /\ T # {}
      BY <1>1, <1>3
    <2>2. PICK x \in T : \A y \in T : ~(<<y, x>> \in R)
      <3>1. IsWellFoundedOn(R, Nat)
        BY NatLessThanWellFounded, Zenon DEF OpToRel
      <3> HIDE DEF R, T
      <3> QED BY <2>1, <3>1, WFMin
    <2>3. PICK i \in Loops : x = n - i
      BY <2>2
    <2>4. ASSUME NEW j \in Loops
          PROVE  j <= i
      <3>1. n - j \in T /\ ~(<<n - j, x>> \in R)
        BY <2>2
      <3>2. ~(n - j < n - i)
        BY <2>1, <2>3, <3>1
      <3> QED BY <1>1, <3>2
    <2>5. \E k \in DOMAIN open : open[k].kind = "loop" /\ \A j \in DOMAIN open : open[j].kind = "loop" => j <= k
      BY <2>4
    <2>6. current_loop \in DOMAIN open /\ open[current_loop].kind = "loop"
      BY <2>5 DEF current_loop
    <2> QED BY <1>1, <2>6
  <1> QED BY <1>2, <1>3

\* Replacing the innermost exit.
LEMMA ExitUpdate ==
    ASSUME TypeOK, exits # <<>>, NEW x \in ExitRecords
    PROVE  LET es == [exits EXCEPT ![Len(exits)] = x]
           IN  /\ es \in Seq(ExitRecords) /\ Len(es) = Len(exits) /\ DOMAIN es = DOMAIN exits
               /\ \A e \in DOMAIN exits : es[e] = IF e = Len(exits) THEN x ELSE exits[e]
  <1>1. exits \in Seq(ExitRecords) /\ Len(exits) \in Nat \ {0}
    BY EmptySeq, LenProperties DEF TypeOK
  <1> QED BY <1>1, ExceptSeq, LenProperties

\* What exit is the innermost one, and where.
LEMMA ExitFacts ==
    ASSUME DeferInv, exits # <<>>
    PROVE  /\ Len(exits) \in DOMAIN exits /\ Len(exits) \in Nat \ {0} /\ Exit = exits[Len(exits)]
           /\ Exit \in ExitRecords /\ Exit.pos \in 0 .. Len(open) /\ Exit.target \in 0 .. Exit.pos
           /\ Exit.pos > Exit.target => Exit.pos \in DOMAIN open
  <1>1. exits \in Seq(ExitRecords) /\ Len(exits) \in Nat \ {0} /\ Len(exits) \in DOMAIN exits
    BY EmptySeq, LenProperties DEF TypeOK, DeferInv
  <1> QED BY <1>1, PointTypes DEF Exit, DeferInv, ExitsOK

\* No construct has more deferred statements than there are.
LEMMA SizeBound ==
    ASSUME TypeOK, ScopesOK, NEW i \in DOMAIN open
    PROVE  Size(i) \in 0 .. MaxDefers
  <1>1. Size(i) \in Nat /\ DOMAIN open[i].deferred = 1 .. Size(i)
    BY PointTypes
  <1>2. count \in 0 .. MaxDefers /\ Numbered \in 0 .. count
    BY DEF TypeOK, ScopesOK, Ids
  <1>3. CASE Size(i) = 0
    BY <1>3
  <1>4. CASE Size(i) # 0
    <2>1. Size(i) \in DOMAIN open[i].deferred
      BY <1>1, <1>4
    <2>2. Id(i, Size(i)) \in Size(i) .. Numbered
      BY <2>1 DEF ScopesOK
    <2> QED BY <1>1, <1>2, <2>2
  <1> QED BY <1>3, <1>4

-----------------------------------------------------------------------------
(* The numbers of the deferred statements. *)

\* Steps that leave the deferred statements alone.
LEMMA SameScopes ==
    ASSUME TypeOK, ScopesOK, DOMAIN open' = DOMAIN open, Numbered' = Numbered, count' = count,
           \A i \in DOMAIN open : open'[i].deferred = open[i].deferred /\ open'[i].kind = open[i].kind
    PROVE  ScopesOK'
  <1>1. \A i \in DOMAIN open : \A j \in 1 .. i : j \in DOMAIN open
    BY PointTypes
  <1>2. \A i \in DOMAIN open : \A k : Id(i, k)' = Id(i, k)
    BY DEF Id
  <1> QED BY <1>1, <1>2 DEF ScopesOK

\* Constructs are opened and closed at the end, without deferred statements.
LEMMA ResizedScopes ==
    ASSUME TypeOK, ScopesOK, Numbered' = Numbered, count' = count,
           \A i \in DOMAIN open' :
              \/ i \in DOMAIN open /\ \A j \in 1 .. i : open'[j] = open[j]
              \/ DOMAIN open'[i].deferred = {}
    PROVE  ScopesOK'
  <1>1. \A i \in DOMAIN open : i \in 1 .. i /\ i \in Nat
    BY PointTypes
  <1>2. ASSUME NEW i \in DOMAIN open', NEW k \in DOMAIN open'[i].deferred
        PROVE  /\ i \in DOMAIN open /\ k \in DOMAIN open[i].deferred /\ open'[i] = open[i]
               /\ Id(i, k)' = Id(i, k) /\ \A j \in 1 .. i : open'[j] = open[j]
    BY <1>1, <1>2 DEF Id
  <1>3. ASSUME NEW i \in DOMAIN open', NEW k \in DOMAIN open'[i].deferred
        PROVE  /\ Id(i, k)' \in k .. Numbered'
               /\ open'[i].deferred[k].body \in {"break", "maybe_break"}
                     => \E j \in 1 .. i : open'[j].kind = "loop"
    BY <1>2, <1>3 DEF ScopesOK
  <1>4. Numbered' \in 0 .. count'
    BY DEF ScopesOK
  <1>5. ASSUME NEW i \in DOMAIN open', NEW j \in DOMAIN open',
               NEW k \in DOMAIN open'[i].deferred, NEW l \in DOMAIN open'[j].deferred,
               i < j \/ (i = j /\ k < l)
        PROVE  Id(i, k)' < Id(j, l)'
    BY <1>2, <1>5 DEF ScopesOK
  <1> QED BY <1>3, <1>4, <1>5 DEF ScopesOK

\* A deferred statement is remembered with a number greater than all others.
LEMMA RememberedScopes ==
    ASSUME TypeOK, ScopesOK, open # <<>>, NEW h \in Ids, NEW body \in AllBodies, remember(open, h, body),
           count' \in Ids, Numbered' = count', \A n \in 0 .. Numbered : n < count', count' # 0,
           body \in {"break", "maybe_break"} => \E j \in DOMAIN open : open[j].kind = "loop"
    PROVE  /\ ScopesOK' /\ open' \in Seq(Constructs) /\ Len(open') = Len(open)
           /\ \A i \in DOMAIN open : open'[i].processed = open[i].processed /\ open'[i].kind = open[i].kind
           /\ \A i \in DOMAIN open : open'[i].original = open[i].original /\ open'[i].end = open[i].end
           /\ \A i \in DOMAIN open : i # Len(open) => open'[i] = open[i]
           /\ open'[Len(open)].deferred
                 = Append(open[Len(open)].deferred, [id |-> count', body |-> body, handler |-> h])
  <1> DEFINE L == Len(open)
             d == [id |-> count', body |-> body, handler |-> h]
             ds == Append(open[L].deferred, d)
             r == [open[L] EXCEPT !.deferred = ds]
             n == Size(L)
  <1>1. L \in Nat \ {0} /\ L \in DOMAIN open /\ DOMAIN open = 1 .. L /\ open \in Seq(Constructs)
    BY EmptySeq, PointTypes DEF TypeOK
  <1>2. open[L] \in Constructs /\ open[L].deferred \in Seq(DeferredStatements) /\ n \in Nat
    BY <1>1, PointTypes
  <1>3. d \in DeferredStatements
    BY DEF DeferredStatements
  <1>4. /\ ds \in Seq(DeferredStatements) /\ Len(ds) = n + 1 /\ DOMAIN ds = 1 .. (n + 1)
        /\ \A k \in 1 .. n : ds[k] = open[L].deferred[k]
        /\ ds[n + 1] = d
    BY <1>2, <1>3, AppendProperties, LenProperties DEF Size
  <1> HIDE DEF ds
  <1>5. /\ r \in Constructs /\ r.deferred = ds /\ r.processed = open[L].processed /\ r.kind = open[L].kind
        /\ r.original = open[L].original /\ r.end = open[L].end
    BY <1>2, <1>4 DEF Constructs
  <1> HIDE DEF r
  <1>6. open' = [open EXCEPT ![L] = r]
    BY DEF remember, r, ds
  <1>7. open' \in Seq(Constructs) /\ Len(open') = L /\ DOMAIN open' = DOMAIN open
    BY <1>1, <1>5, <1>6, ExceptSeq, LenProperties
  <1>8. \A i \in DOMAIN open : open'[i] = IF i = L THEN r ELSE open[i]
    BY <1>6
  <1>9. \A i \in DOMAIN open : \A k \in DOMAIN open'[i].deferred :
           \/ /\ k \in DOMAIN open[i].deferred /\ Id(i, k)' = Id(i, k)
              /\ open'[i].deferred[k] = open[i].deferred[k]
           \/ i = L /\ k = n + 1 /\ Id(i, k)' = count' /\ open'[i].deferred[k] = d
    <2> SUFFICES ASSUME NEW i \in DOMAIN open, NEW k \in DOMAIN open'[i].deferred
                 PROVE  \/ /\ k \in DOMAIN open[i].deferred /\ Id(i, k)' = Id(i, k)
                           /\ open'[i].deferred[k] = open[i].deferred[k]
                        \/ i = L /\ k = n + 1 /\ Id(i, k)' = count' /\ open'[i].deferred[k] = d
      OBVIOUS
    <2>1. CASE i # L
      BY <1>8, <2>1 DEF Id
    <2>2. CASE i = L /\ k = n + 1
      BY <1>1, <1>4, <1>5, <1>8, <2>2 DEF Id
    <2>3. CASE i = L /\ k # n + 1
      <3>1. open'[L].deferred = ds
        BY <1>1, <1>5, <1>8
      <3>2. k \in 1 .. n
        BY <1>2, <1>4, <2>3, <3>1
      <3>3. DOMAIN open[L].deferred = 1 .. n
        BY <1>1, PointTypes
      <3>4. open'[L].deferred[k] = open[L].deferred[k]
        BY <1>4, <3>1, <3>2
      <3> QED BY <2>3, <3>2, <3>3, <3>4 DEF Id
    <2> QED BY <2>1, <2>2, <2>3
  <1>10. count' \in Nat /\ Numbered \in Nat
    BY DEF Ids, ScopesOK
  <1>11. \A i \in DOMAIN open : \A k \in DOMAIN open[i].deferred :
            Id(i, k) \in k .. Numbered /\ Id(i, k) < count' /\ k \in Nat
    <2> SUFFICES ASSUME NEW i \in DOMAIN open, NEW k \in DOMAIN open[i].deferred
                 PROVE  Id(i, k) \in k .. Numbered /\ Id(i, k) < count' /\ k \in Nat
      OBVIOUS
    <2>1. Id(i, k) \in Nat /\ k \in Nat
      BY PointTypes
    <2>2. Id(i, k) \in k .. Numbered
      BY DEF ScopesOK
    <2>3. Id(i, k) \in 0 .. Numbered
      BY <1>10, <2>1, <2>2
    <2> QED BY <2>1, <2>2, <2>3
  <1>12. n + 1 <= count'
    <2>1. CASE n = 0
      BY <1>10, <2>1
    <2>2. CASE n # 0
      <3>1. n \in DOMAIN open[L].deferred
        BY <1>1, <1>2, <2>2, PointTypes
      <3> QED BY <1>1, <1>2, <1>10, <1>11, <3>1
    <2> QED BY <2>1, <2>2
  <1>13. ASSUME NEW i \in DOMAIN open, NEW k \in DOMAIN open'[i].deferred
         PROVE  /\ Id(i, k)' \in k .. Numbered'
                /\ open'[i].deferred[k].body \in {"break", "maybe_break"}
                      => \E j \in 1 .. i : open'[j].kind = "loop"
    <2>0. \A j \in 1 .. i : j \in DOMAIN open /\ open'[j].kind = open[j].kind
      BY <1>1, <1>5, <1>8
    <2>1. CASE k \in DOMAIN open[i].deferred /\ Id(i, k)' = Id(i, k) /\ open'[i].deferred[k] = open[i].deferred[k]
      BY <1>10, <1>11, <2>0, <2>1 DEF ScopesOK
    <2>2. CASE i = L /\ k = n + 1 /\ Id(i, k)' = count' /\ open'[i].deferred[k] = d
      <3>1. count' \in (n + 1) .. count'
        BY <1>2, <1>10, <1>12
      <3> QED BY <1>1, <2>0, <2>2, <3>1
    <2> QED BY <1>9, <2>1, <2>2
  <1>14. ASSUME NEW i \in DOMAIN open, NEW j \in DOMAIN open,
                NEW k \in DOMAIN open'[i].deferred, NEW l \in DOMAIN open'[j].deferred,
                i < j \/ (i = j /\ k < l)
         PROVE  Id(i, k)' < Id(j, l)'
    <2>1. CASE l \in DOMAIN open[j].deferred /\ Id(j, l)' = Id(j, l)
      <3>1. ~(i = L /\ k = n + 1)
        BY <1>1, <1>2, <1>14, <2>1, PointTypes
      <3> QED BY <1>9, <1>14, <2>1, <3>1 DEF ScopesOK
    <2>2. CASE j = L /\ l = n + 1 /\ Id(j, l)' = count'
      <3>1. ~(i = L /\ k = n + 1)
        BY <1>1, <1>2, <1>14, <2>2
      <3> QED BY <1>9, <1>11, <2>2, <3>1
    <2> QED BY <1>9, <2>1, <2>2
  <1>15. ScopesOK'
    BY <1>7, <1>10, <1>13, <1>14 DEF ScopesOK
  <1> QED BY <1>1, <1>5, <1>7, <1>8, <1>15 DEF ds, d
-----------------------------------------------------------------------------
(* The beginning and the end of scope exits. *)

\* Outside of scope exits nothing is marked as processed.
LEMMA IdleProcessed ==
    ASSUME DeferInv, exits = <<>>, NEW i \in DOMAIN open
    PROVE  open[i].processed = 0
  <1>1. Len(exits) = 0
    BY EmptySeq
  <1> QED BY <1>1 DEF DeferInv, ProgressOK, Restores

LEMMA IdleProgress ==
    ASSUME TypeOK', exits' = <<>>, \A i \in DOMAIN open' : open'[i].processed = 0
    PROVE  ProgressOK'
  <1> DEFINE zero == [e \in 0 .. 0 |-> [i \in DOMAIN open' |-> 0]]
  <1>1. Len(exits') = 0 /\ DOMAIN exits' = {}
    BY EmptySeq
  <1>2. \A i \in DOMAIN open' : Len(open'[i].deferred) \in Nat
    BY PointTypes DEF Size
  <1>3. PICK p : /\ p \in [0 .. 0 -> [DOMAIN open' -> Nat]]
                 /\ \A e \in 0 .. 0 : e = 0 /\ \A i \in DOMAIN open' : p[e][i] = 0
    <2>1. /\ zero \in [0 .. 0 -> [DOMAIN open' -> Nat]]
          /\ \A e \in 0 .. 0 : e = 0 /\ \A i \in DOMAIN open' : zero[e][i] = 0
      OBVIOUS
    <2> QED BY <2>1
  <1>4. \A e \in 1 .. 0 : FALSE
    OBVIOUS
  <1>5. Restores(p)'
    BY <1>1, <1>2, <1>3, <1>4 DEF Restores, Size
  <1>6. Grows(p)' /\ DoneOK(p)' /\ RanOK(p)'
    BY <1>1, <1>4 DEF Grows, DoneOK, RanOK
  <1> QED BY <1>5, <1>6 DEF ProgressOK

\* Only the outermost exit was not caused by a deferred statement.
LEMMA OuterExit ==
    ASSUME DeferInv, exits # <<>>, Exit.origin \notin {"always", "sometimes"}
    PROVE  Len(exits) = 1 /\ exits[1] = Exit /\ DOMAIN exits = {1}
  <1>1. Len(exits) \in DOMAIN exits /\ Exit = exits[Len(exits)] /\ DOMAIN exits = 1 .. Len(exits)
    BY ExitFacts, PointTypes DEF DeferInv
  <1>2. Len(exits) = 1
    BY <1>1 DEF DeferInv, ExitsOK
  <1> QED BY <1>1, <1>2

\* When it is complete, nothing is marked as processed any more.
LEMMA CompleteProcessed ==
    ASSUME DeferInv, exits # <<>>, Exit.origin \notin {"always", "sometimes"}, Exit.pos = Exit.target,
           NEW i \in DOMAIN open
    PROVE  open[i].processed = 0
  <1>1. Len(exits) = 1 /\ exits[1] = Exit
    BY OuterExit
  <1>2. PICK p : Restores(p)
    BY DEF DeferInv, ProgressOK
  <1>3. p[0][i] = 0 /\ p[1][i] = open[i].processed
    BY <1>1, <1>2 DEF Restores
  <1>4. 1 \in 1 .. Len(exits) /\ 1 - 1 = 0
    BY <1>1
  <1>5. p[0][i] = IF Inside(1, i) THEN exits[1].initial ELSE p[1][i]
    BY <1>2, <1>4 DEF Restores
  <1>6. ~Inside(1, i)
    BY <1>1, ExitFacts DEF Inside
  <1> QED BY <1>3, <1>5, <1>6

\* The first exit begins.
LEMMA BeginExit ==
    ASSUME DeferInv, exits = <<>>, open # <<>>, UNCHANGED open, NEW x \in ExitRecords, exits' = <<x>>,
           x.pos = Len(open), x.target < Len(open), x.initial = open[Len(open)].processed,
           x.origin \in {"statement", "block", "handler"}, x.ran = {}, x.done = {}, x.failed = FALSE,
           x.origin = "handler" /\ x.body \in {"break", "maybe_break"}
                => \E j \in DOMAIN open : open[j].kind = "loop"
    PROVE  exits' \in Seq(ExitRecords) /\ ExitsOK' /\ ProgressOK' /\ DoneOnTheWay'
  <1> DEFINE L == Len(open)
             zero == [e \in 0 .. 1 |-> [i \in DOMAIN open |-> 0]]
  <1>1. L \in Nat \ {0} /\ L \in DOMAIN open /\ DOMAIN open = 1 .. L
    BY EmptySeq, PointTypes DEF TypeOK, DeferInv
  <1>2. /\ exits' \in Seq(ExitRecords) /\ Len(exits') = 1 /\ DOMAIN exits' = {1} /\ exits'[1] = x
        /\ exits' # <<>>
    OBVIOUS
  <1>3. x.pos \in Nat /\ x.target \in Nat
    BY DEF ExitRecords
  <1>4. ExitsOK'
    <2>1. Len(open') <= MaxOpen /\ open' # <<>>
      BY DEF DeferInv, ExitsOK
    <2>2. x.target <= x.pos /\ x.pos <= Len(open) /\ x.target < Len(open)
      BY <1>1, <1>3
    <2>3. \A e \in DOMAIN exits' : e = 1 /\ e = Len(exits') /\ exits'[e] = x
      BY <1>2
    <2> QED BY <2>1, <2>2, <2>3 DEF ExitsOK
  <1>5. \A i \in DOMAIN open : open[i].processed = 0 /\ Size(i) \in Nat
    BY IdleProcessed, PointTypes DEF DeferInv
  <1>0. PICK p : p = zero
    OBVIOUS
  <1>6. p \in [0 .. 1 -> [DOMAIN open -> Nat]] /\ \A e \in 0 .. 1, i \in DOMAIN open : p[e][i] = 0
    BY <1>0
  <1>7. \A e \in 1 .. 1 : e = 1 /\ e - 1 = 0
    OBVIOUS
  <1>8. 0 \in 0 .. 1 /\ 1 \in 0 .. 1
    OBVIOUS
  <1>9. Restores(p)'
    <2>1. \A i \in DOMAIN open : p[0][i] = 0 /\ p[1][i] = open'[i].processed
      BY <1>5, <1>6, <1>8
    <2>2. \A i \in DOMAIN open : p[1 - 1][i] = IF Inside(1, i)' THEN exits'[1].initial ELSE p[1][i]
      BY <1>1, <1>2, <1>5, <1>6, <1>7, <1>8 DEF Inside
    <2>3. \A e \in 0 .. 1, i \in DOMAIN open : p[e][i] <= Size(i)'
      BY <1>5, <1>6 DEF Size
    <2> QED BY <1>2, <1>6, <1>7, <2>1, <2>2, <2>3 DEF Restores
  <1>10. ASSUME NEW i \in DOMAIN open, NEW k \in DOMAIN open[i].deferred
         PROVE  ~(k > Size(i) - p[0][i]) /\ ~(i > L) /\ ~(k > Size(i) - p[1][i])
    <2>1. i \in 1 .. L /\ k \in 1 .. Size(i) /\ Size(i) \in Nat
      BY <1>1, PointTypes DEF DeferInv
    <2> QED BY <1>6, <1>8, <2>1
  <1>11. Grows(p)' /\ DoneOK(p)' /\ RanOK(p)'
    <2>1. \A i, k : Id(i, k)' = Id(i, k) /\ Size(i)' = Size(i)
      BY DEF Id, Size
    <2>2. Grows(p)'
      BY <1>2, <1>6, <1>7, <1>8 DEF Grows
    <2>3. DoneOK(p)'
      BY <1>2, <1>7, <1>10, <2>1 DEF DoneOK
    <2>4. RanOK(p)'
      BY <1>2, <1>7, <1>10, <2>1 DEF RanOK, Executed
    <2> QED BY <2>2, <2>3, <2>4
  <1>12. DoneOnTheWay'
    BY <1>2 DEF DoneOnTheWay
  <1> QED BY <1>2, <1>4, <1>9, <1>11, <1>12 DEF ProgressOK
-----------------------------------------------------------------------------
(* Steps of scope exits. *)

LEMMA UniqueIds ==
    ASSUME TypeOK, ScopesOK, NEW i \in DOMAIN open, NEW j \in DOMAIN open,
           NEW k \in DOMAIN open[i].deferred, NEW l \in DOMAIN open[j].deferred, Id(i, k) = Id(j, l)
    PROVE  i = j /\ k = l
  <1>1. Id(i, k) \in Nat /\ Id(j, l) \in Nat /\ i \in Nat /\ j \in Nat /\ k \in Nat /\ l \in Nat
    BY PointTypes
  <1>2. /\ i < j \/ (i = j /\ k < l) => Id(i, k) < Id(j, l)
        /\ j < i \/ (j = i /\ l < k) => Id(j, l) < Id(i, k)
    BY DEF ScopesOK
  <1> QED BY <1>1, <1>2

\* The deferred statement that an exit compiles next.
LEMMA NextFacts ==
    ASSUME DeferInv, AtDeferred
    PROVE  LET P == Exit.pos
               r == Remaining(P)
           IN  /\ P \in DOMAIN open /\ Exit.target < P /\ ~Exit.failed /\ exits # <<>>
               /\ r \in DOMAIN open[P].deferred /\ r \in 1 .. Size(P) /\ r = Size(P) - open[P].processed
               /\ NextDeferred = open[P].deferred[r] /\ NextDeferred.id = Id(P, r)
               /\ NextDeferred \in DeferredStatements
               /\ NextDeferred.body \in AllBodies /\ NextDeferred.handler \in Ids /\ NextDeferred.id \in Ids
               /\ open[P].processed + 1 \in 0 .. MaxDefers
  <1> DEFINE P == Exit.pos
             r == Remaining(P)
  <1>1. P \in DOMAIN open /\ Exit.target < P /\ ~Exit.failed /\ exits # <<>> /\ r > 0
    BY ExitFacts DEF AtDeferred
  <1>2. /\ Size(P) \in 0 .. MaxDefers /\ Size(P) \in Nat /\ open[P].processed \in Nat
        /\ DOMAIN open[P].deferred = 1 .. Size(P) /\ open[P].deferred \in Seq(DeferredStatements)
    BY <1>1, SizeBound, PointTypes DEF DeferInv
  <1>3. r = Size(P) - open[P].processed
    BY DEF Remaining, Size
  <1>4. r \in 1 .. Size(P) /\ open[P].processed + 1 \in 0 .. MaxDefers
    BY <1>1, <1>2, <1>3
  <1>5. open[P].deferred[r] \in DeferredStatements
    BY <1>2, <1>4, ElementOfSeq DEF Size
  <1>6. NextDeferred = open[P].deferred[r]
    BY DEF NextDeferred
  <1> QED BY <1>1, <1>2, <1>3, <1>4, <1>5, <1>6 DEF DeferredStatements, Id

\* The exits after a deferred statement has been compiled: the innermost one has executed
\* it, and there may be a new one.
LEMMA RunDeferredExits ==
    ASSUME DeferInv, RunDeferred
    PROVE  LET n == Len(exits)
               m == Len(exits')
               ran == Exit.ran \cup {NextDeferred.id}
               done == Exit.done \cup (ran \cap DeferredIn(Exit.pos))
           IN  /\ exits' \in Seq(ExitRecords) /\ m \in {n, n + 1} /\ DOMAIN exits' = 1 .. m
               /\ \A e \in 1 .. (n - 1) : exits'[e] = exits[e]
               /\ exits'[n].pos = Exit.pos /\ exits'[n].target = Exit.target
               /\ exits'[n].initial = Exit.initial /\ exits'[n].origin = Exit.origin
               /\ exits'[n].body = Exit.body /\ exits'[n].failed = FALSE /\ exits'[n].ran = ran
               /\ exits'[n].done = Exit.done /\ exits'[n].end = Exit.end
               /\ m = n + 1 =>
                     /\ exits'[m].pos = Len(open') /\ exits'[m].target < Len(open')
                     /\ exits'[m].initial = open'[Len(open')].processed
                     /\ exits'[m].origin \in {"always", "sometimes"}
                     /\ exits'[m].ran = {} /\ exits'[m].done = done
                     /\ exits'[m].failed = FALSE /\ exits'[m].end = NextDeferred.handler
  <1> DEFINE n == Len(exits)
             P == Exit.pos
             d == NextDeferred
             v == open[P].processed + 1
             ran == Exit.ran \cup {d.id}
             done == Exit.done \cup (ran \cap DeferredIn(P))
             x == [Exit EXCEPT !.ran = ran]
             y == NewExit(open', Target(Leaves(d.body)), Origin(d.body), d.handler, d.body, done)
             base == [exits EXCEPT ![n] = x]
  <1>1. /\ TypeOK /\ ScopesOK /\ exits # <<>> /\ ~Exit.failed /\ P \in DOMAIN open /\ v \in 0 .. MaxDefers
        /\ d.body \in AllBodies /\ d.handler \in Ids /\ d.id \in Ids
        /\ n \in Nat \ {0} /\ Exit = exits[n] /\ Exit \in ExitRecords
    BY NextFacts, ExitFacts DEF DeferInv, RunDeferred
  <1>2. open' = [open EXCEPT ![P] = [open[P] EXCEPT !.processed = v]]
    BY DEF RunDeferred, progress
  <1>3. /\ open' \in Seq(Constructs) /\ Len(open') = Len(open) /\ DOMAIN open' = DOMAIN open
    BY <1>1, <1>2, ProcessedUpdate
  <1>4. /\ x \in ExitRecords /\ x.pos = Exit.pos /\ x.target = Exit.target /\ x.initial = Exit.initial
        /\ x.origin = Exit.origin /\ x.body = Exit.body /\ x.failed = FALSE /\ x.ran = ran
        /\ x.done = Exit.done /\ x.end = Exit.end
    BY <1>1 DEF ExitRecords
  <1>5. /\ base \in Seq(ExitRecords) /\ Len(base) = n /\ DOMAIN base = 1 .. n
        /\ \A e \in 1 .. n : base[e] = IF e = n THEN x ELSE exits[e]
    BY <1>1, <1>4, ExitUpdate, PointTypes
  <1>6. /\ open' # <<>> /\ Len(open') <= MaxOpen /\ Len(open') \in DOMAIN open' /\ Len(open') \in Nat
        /\ open'[Len(open')].processed \in 0 .. MaxDefers
    <2>1. Len(open) \in Nat \ {0} /\ Len(open) \in DOMAIN open /\ Len(open) <= MaxOpen
      BY <1>1, PointTypes DEF DeferInv, ExitsOK
    <2>2. open'[Len(open')] \in Constructs
      BY <1>3, <2>1, ElementOfSeq
    <2> QED BY <1>3, <2>1, <2>2, EmptySeq DEF Constructs
  <1>7. d.body # "plain" => Target(Leaves(d.body)) \in Nat /\ Target(Leaves(d.body)) < Len(open')
    <2>0. DOMAIN open = 1 .. Len(open) /\ Len(open) \in Nat \ {0}
      BY <1>1, PointTypes
    <2>1. CASE d.body \in {"return", "maybe_return"}
      BY <1>3, <2>0, <2>1 DEF Target, Leaves
    <2>2. CASE d.body \in {"break", "maybe_break"}
      <3>1. \E j \in DOMAIN open : open[j].kind = "loop"
        <4>1. Remaining(P) \in DOMAIN open[P].deferred /\ d = open[P].deferred[Remaining(P)]
          BY NextFacts DEF RunDeferred
        <4>2. \E j \in 1 .. P : open[j].kind = "loop"
          BY <1>1, <2>2, <4>1 DEF ScopesOK
        <4> QED BY <1>1, <2>0, <4>2
      <3>2. current_loop \in 1 .. Len(open)
        BY <1>1, <2>0, <3>1, CurrentLoop
      <3>3. Target(Leaves(d.body)) = current_loop - 1
        BY <2>2 DEF Target, Leaves
      <3> QED BY <1>3, <2>0, <3>2, <3>3
    <2> QED BY <1>1, <2>1, <2>2 DEF AllBodies
  <1>8. ran \subseteq Ids /\ done \subseteq Ids
    BY <1>1 DEF ExitRecords
  <1>9. d.body # "plain" =>
           /\ y \in ExitRecords /\ y.pos = Len(open') /\ y.target < Len(open')
           /\ y.initial = open'[Len(open')].processed
           /\ y.origin \in {"always", "sometimes"} /\ y.ran = {} /\ y.done = done
           /\ y.failed = FALSE /\ y.end = d.handler
    <2>1. Origin(d.body) \in {"always", "sometimes"}
      BY DEF Origin
    <2>2. SUFFICES ASSUME d.body # "plain"
                   PROVE  /\ y \in ExitRecords /\ y.pos = Len(open') /\ y.target < Len(open')
                          /\ y.initial = open'[Len(open')].processed
                          /\ y.origin \in {"always", "sometimes"} /\ y.ran = {} /\ y.done = done
                          /\ y.failed = FALSE /\ y.end = d.handler
      OBVIOUS
    <2>3. PICK t \in Nat : t = Target(Leaves(d.body)) /\ t < Len(open')
      BY <1>7, <2>2
    <2>4. PICK o \in {"always", "sometimes"} : o = Origin(d.body)
      BY <2>1
    <2>5. PICK cs : cs = open'
      OBVIOUS
    <2>6. PICK b, h, rs : b = d.body /\ h = d.handler /\ rs = done
      OBVIOUS
    <2>7. y = NewExit(cs, t, o, h, b, rs)
      BY <2>3, <2>4, <2>5, <2>6, Zenon
    <2>8. /\ cs \in Seq(Constructs) /\ cs # <<>> /\ Len(cs) <= MaxOpen /\ t < Len(cs)
          /\ cs[Len(cs)].processed \in 0 .. MaxDefers
      BY <1>3, <1>6, <2>3, <2>5
    <2>9. b \in AllBodies /\ h \in Ids /\ rs \in SUBSET Ids
      BY <1>1, <1>8, <2>6
    <2> HIDE DEF d, ran, done, y
    <2>10. Len(cs) \in 0 .. MaxOpen /\ t \in 0 .. MaxOpen
      BY <2>8, LenProperties
    <2>11. /\ y \in ExitRecords /\ y.pos = Len(cs) /\ y.target = t
           /\ y.initial = cs[Len(cs)].processed /\ y.origin = o /\ y.ran = {} /\ y.done = rs
           /\ y.failed = FALSE /\ y.end = h
      BY <2>4, <2>7, <2>8, <2>9, <2>10 DEF NewExit, ExitRecords
    <2> QED BY <2>3, <2>4, <2>5, <2>6, <2>8, <2>11
  <1> HIDE DEF x, y, base
  <1>10. exits' = IF d.body = "plain" THEN base ELSE Append(base, y)
    BY <1>1 DEF RunDeferred, CompileBody, base, x, y
  <1>11. CASE d.body = "plain"
    <2>1. /\ exits' \in Seq(ExitRecords) /\ Len(exits') = n /\ DOMAIN exits' = 1 .. n
          /\ \A e \in 1 .. n : exits'[e] = base[e]
      BY <1>5, <1>10, <1>11
    <2>2. n \in 1 .. n /\ (\A e \in 1 .. (n - 1) : e \in 1 .. n /\ e # n) /\ n # n + 1
      BY <1>1
    <2>3. exits'[n] = x /\ \A e \in 1 .. (n - 1) : exits'[e] = exits[e]
      BY <1>5, <2>1, <2>2
    <2> QED BY <1>4, <2>1, <2>2, <2>3
  <1>12. CASE d.body # "plain"
    <2>1. /\ exits' \in Seq(ExitRecords) /\ Len(exits') = n + 1 /\ DOMAIN exits' = 1 .. (n + 1)
          /\ \A e \in 1 .. n : exits'[e] = base[e]
          /\ exits'[n + 1] = y
      <3>1. y \in ExitRecords /\ base \in Seq(ExitRecords) /\ Len(base) = n
        BY <1>5, <1>9, <1>12
      <3>2. /\ Append(base, y) \in Seq(ExitRecords) /\ Len(Append(base, y)) = Len(base) + 1
            /\ \A e \in 1 .. Len(base) : Append(base, y)[e] = base[e]
            /\ Append(base, y)[Len(base) + 1] = y
        BY <3>1, AppendProperties
      <3>3. exits' = Append(base, y)
        BY <1>10, <1>12
      <3>4. DOMAIN exits' = 1 .. Len(exits')
        BY <3>2, <3>3, LenProperties
      <3> QED BY <3>1, <3>2, <3>3, <3>4
    <2>2. n \in 1 .. n /\ \A e \in 1 .. (n - 1) : e \in 1 .. n /\ e # n
      BY <1>1
    <2>3. exits'[n] = x /\ \A e \in 1 .. (n - 1) : exits'[e] = exits[e]
      BY <1>5, <2>1, <2>2
    <2> QED BY <1>4, <1>9, <1>12, <2>1, <2>3
  <1> QED BY <1>11, <1>12

LEMMA RunDeferredStep ==
    ASSUME DeferInv, RunDeferred
    PROVE  DeferInv'
  <1> DEFINE n == Len(exits)
             P == Exit.pos
             r == Remaining(P)
             d == NextDeferred
             v == open[P].processed + 1
  <1>0. TypeOK /\ ScopesOK /\ ExitsOK /\ ProgressOK
    BY DEF DeferInv
  <1>1. /\ P \in DOMAIN open /\ Exit.target < P /\ ~Exit.failed /\ exits # <<>> /\ v \in 0 .. MaxDefers
        /\ r \in DOMAIN open[P].deferred /\ r = Size(P) - open[P].processed /\ d.id = Id(P, r)
        /\ d.handler \in Ids /\ n \in Nat \ {0} /\ n \in DOMAIN exits /\ Exit = exits[n]
        /\ DOMAIN exits = 1 .. n /\ DOMAIN open = 1 .. Len(open) /\ Len(open) \in Nat
        /\ P \in Nat /\ r \in 1 .. Size(P) /\ Size(P) \in Nat /\ open[P].processed \in Nat
    BY <1>0, NextFacts, ExitFacts, PointTypes DEF RunDeferred
  <1>2. open' = [open EXCEPT ![P] = [open[P] EXCEPT !.processed = v]]
    BY DEF RunDeferred, progress
  <1>3. /\ open' \in Seq(Constructs) /\ Len(open') = Len(open) /\ DOMAIN open' = DOMAIN open
        /\ \A i \in DOMAIN open :
              /\ open'[i].processed = IF i = P THEN v ELSE open[i].processed
              /\ open'[i].deferred = open[i].deferred /\ open'[i].kind = open[i].kind
    <2> HIDE DEF P, v
    <2> QED BY <1>0, <1>1, <1>2, ProcessedUpdate
  <1>4. PICK m, ran, done :
           /\ m = Len(exits') /\ ran = Exit.ran \cup {d.id}
           /\ done = Exit.done \cup (ran \cap DeferredIn(P))
           /\ exits' \in Seq(ExitRecords) /\ m \in {n, n + 1} /\ DOMAIN exits' = 1 .. m
           /\ \A e \in 1 .. (n - 1) : exits'[e] = exits[e]
           /\ exits'[n].pos = P /\ exits'[n].target = Exit.target
           /\ exits'[n].initial = Exit.initial /\ exits'[n].origin = Exit.origin
           /\ exits'[n].body = Exit.body /\ exits'[n].failed = FALSE /\ exits'[n].ran = ran
           /\ exits'[n].done = Exit.done
           /\ m = n + 1 =>
                 /\ exits'[m].pos = Len(open') /\ exits'[m].target < Len(open')
                 /\ exits'[m].initial = open'[Len(open')].processed
                 /\ exits'[m].origin \in {"always", "sometimes"}
                 /\ exits'[m].ran = {} /\ exits'[m].done = done
    BY RunDeferredExits
  <1>5. \A i \in DOMAIN open : Size(i)' = Size(i) /\ \A k : Id(i, k)' = Id(i, k)
    BY <1>3 DEF Size, Id
  <1>6. handler' \in Ids /\ block' \in Ids
    BY <1>1 DEF RunDeferred
  <1>7. TypeOK'
    BY <1>0, <1>3, <1>4, <1>6 DEF TypeOK, RunDeferred
  <1>8. exits' # <<>>
    BY <1>1, <1>4
  <1>9. exits'[1].origin = exits[1].origin
    <2>1. CASE n = 1
      BY <1>1, <1>4, <2>1
    <2>2. CASE n # 1
      BY <1>1, <1>4, <2>2, SMTT(40)
    <2> QED BY <2>1, <2>2
  <1>10. count' = count /\ Numbered' = Numbered
    BY <1>1, <1>8, <1>9 DEF RunDeferred, Numbered
  <1>11. ScopesOK'
    BY <1>0, <1>3, <1>10, SameScopes
  <1> HIDE DEF n, P, r, d, v
  <1>lengths. n \in Nat \ {0} /\ m \in Nat /\ m \in {n, n + 1}
    <2>1. n \in Nat \ {0}
      BY <1>1
    <2>2. m \in {n, n + 1}
      BY <1>4
    <2> QED BY <2>1, <2>2
  <1>12. ASSUME NEW e \in DOMAIN exits'
         PROVE  \/ e \in 1 .. (n - 1) /\ e \in DOMAIN exits /\ exits'[e] = exits[e] /\ e # n /\ e < n
                \/ e = n /\ e \in DOMAIN exits
                \/ e = m /\ m = n + 1
    BY <1>1, <1>4, <1>12
  <1>13. ExitsOK'
    <2>1. Len(open') <= MaxOpen /\ open' # <<>>
      BY <1>0, <1>1, <1>3 DEF ExitsOK
    <2>2. ASSUME NEW e \in DOMAIN exits'
          PROVE  /\ exits'[e].target <= exits'[e].pos /\ exits'[e].pos <= Len(open')
                 /\ exits'[e].target < Len(open')
                 /\ exits'[e].origin \in {"always", "sometimes"} <=> e # 1
                 /\ e # m => exits'[e].target < exits'[e].pos /\ ~exits'[e].failed
                 /\ exits'[e].origin = "handler" /\ exits'[e].body \in {"break", "maybe_break"}
                       => \E j \in DOMAIN open' : open'[j].kind = "loop"
      <3>1. CASE e \in DOMAIN exits /\ exits'[e] = exits[e] /\ e # n
        BY <1>0, <1>3, <3>1 DEF ExitsOK, n
      <3>2. CASE e = n /\ e \in DOMAIN exits
        <4>1. /\ Exit.target <= Exit.pos /\ Exit.pos <= Len(open) /\ Exit.target < Len(open)
              /\ Exit.origin \in {"always", "sometimes"} <=> n # 1
              /\ Exit.origin = "handler" /\ Exit.body \in {"break", "maybe_break"}
                    => \E j \in DOMAIN open : open[j].kind = "loop"
          BY <1>0, <1>1 DEF ExitsOK
        <4>2. /\ exits'[n].pos = P /\ exits'[n].target = Exit.target /\ exits'[n].origin = Exit.origin
              /\ exits'[n].body = Exit.body /\ exits'[n].failed = FALSE /\ P = Exit.pos
          BY <1>4 DEF P
        <4> QED BY <1>1, <1>3, <3>2, <4>1, <4>2
      <3>3. CASE e = m /\ m = n + 1
        <4>1. Len(open') \in Nat /\ m # 1
          BY <1>1, <1>3, <3>3
        <4>2. exits'[m].target \in Nat
          <5>1. exits'[m] \in ExitRecords
            BY <1>1, <1>4, <3>3, ElementOfSeq
          <5> QED BY <5>1 DEF ExitRecords
        <4>3. exits'[m].pos = Len(open') /\ exits'[m].target < Len(open') /\ exits'[m].origin \in {"always", "sometimes"}
          BY <1>4, <3>3
        <4>4. exits'[m].target <= exits'[m].pos
          BY <4>1, <4>2, <4>3
        <4> QED BY <3>3, <4>1, <4>3, <4>4
      <3> QED BY <1>12, <3>1, <3>2, <3>3
    <2> QED BY <1>4, <2>1, <2>2 DEF ExitsOK
  <1>14. PICK p : Restores(p) /\ Grows(p) /\ DoneOK(p) /\ RanOK(p)
    BY <1>0 DEF ProgressOK
  <1>15. /\ p \in [0 .. n -> [DOMAIN open -> Nat]]
         /\ \A i \in DOMAIN open : p[0][i] = 0 /\ p[n][i] = open[i].processed
         /\ \A e \in 1 .. n, i \in DOMAIN open :
               p[e - 1][i] = IF Inside(e, i) THEN exits[e].initial ELSE p[e][i]
         /\ \A e \in 0 .. n, i \in DOMAIN open : p[e][i] <= Size(i)
    BY <1>14 DEF Restores, n
  <1>16. PICK now : now \in [DOMAIN open -> Nat] /\ \A i \in DOMAIN open :
                       now[i] = open'[i].processed /\ now[i] = IF i = P THEN v ELSE p[n][i]
    <2>1. \A i \in DOMAIN open : open'[i].processed \in Nat
      BY <1>0, <1>1, <1>3, PointTypes, SMTT(40)
    <2>2. \A i \in DOMAIN open : open'[i].processed = IF i = P THEN v ELSE p[n][i]
      BY <1>3, <1>15
    <2>3. /\ [i \in DOMAIN open |-> open'[i].processed] \in [DOMAIN open -> Nat]
          /\ \A i \in DOMAIN open : [j \in DOMAIN open |-> open'[j].processed][i] = open'[i].processed
      BY <2>1
    <2> QED BY <2>2, <2>3
  <1>17. PICK q : /\ q \in [0 .. m -> [DOMAIN open -> Nat]]
                  /\ \A e \in 0 .. m : (e < n => q[e] = p[e]) /\ (e >= n => q[e] = now)
    <2> DEFINE f == [e \in 0 .. m |-> IF e >= n THEN now ELSE p[e]]
    <2>0. n \in Nat /\ m \in Nat /\ p \in [0 .. n -> [DOMAIN open -> Nat]] /\ now \in [DOMAIN open -> Nat]
      BY <1>lengths, <1>15, <1>16
    <2>2. \A e \in 0 .. m : (e < n => f[e] = p[e]) /\ (e >= n => f[e] = now)
      BY ONLY <2>0
    <2>1. \A e \in 0 .. m : f[e] \in [DOMAIN open -> Nat]
      <3> HIDE DEF f
      <3>1. \A e \in 0 .. m : e >= n \/ (e < n /\ e \in 0 .. n)
        BY <2>0
      <3> QED BY <2>0, <2>2, <3>1
    <2>3. f \in [0 .. m -> [DOMAIN open -> Nat]]
      BY <2>1
    <2> QED BY <2>2, <2>3
  <1>18. q[0] = p[0] /\ q[m] = now /\ q[n] = now /\ q[n - 1] = p[n - 1]
         /\ \A e \in 1 .. (n - 1) : q[e] = p[e] /\ q[e - 1] = p[e - 1]
    BY <1>lengths, <1>17
  <1>19. v <= Size(P) /\ v = open[P].processed + 1
    BY <1>1 DEF v
  <1>20. Restores(q)'
    <2>1. \A i \in DOMAIN open : q[0][i] = 0 /\ q[m][i] = open'[i].processed
      BY <1>15, <1>16, <1>18
    <2>2. ASSUME NEW e \in 1 .. m, NEW i \in DOMAIN open
          PROVE  q[e - 1][i] = IF Inside(e, i)' THEN exits'[e].initial ELSE q[e][i]
      <3>1. CASE e \in 1 .. (n - 1) /\ e \in DOMAIN exits /\ exits'[e] = exits[e]
        <4>1. e \in 1 .. n /\ q[e] = p[e] /\ q[e - 1] = p[e - 1]
          BY <1>1, <1>18, <3>1
        <4>2. Inside(e, i)' <=> Inside(e, i)
          BY <3>1 DEF Inside
        <4> QED BY <1>15, <3>1, <4>1, <4>2
      <3>2. CASE e = n
        <4>1. Inside(n, i) <=> i = P
          BY <1>1 DEF Inside, P
        <4>2. Inside(e, i)' <=> i = P
          <5>1. exits'[e].pos = P /\ exits'[e].target < P
            BY <1>1, <1>4, <3>2
          <5> QED BY <5>1 DEF Inside
        <4>3. n \in 1 .. n
          BY <1>1
        <4>4. p[n - 1][i] = IF i = P THEN Exit.initial ELSE p[n][i]
          <5>1. p[n - 1][i] = IF Inside(n, i) THEN exits[n].initial ELSE p[n][i]
            BY <1>15, <4>3
          <5> QED BY <1>1, <4>1, <5>1
        <4>5. now[i] = IF i = P THEN v ELSE p[n][i]
          BY <1>16
        <4>6. q[n - 1][i] = p[n - 1][i] /\ q[n][i] = now[i] /\ exits'[n].initial = Exit.initial
          BY <1>4, <1>18
        <4> QED BY <3>2, <4>2, <4>4, <4>5, <4>6
      <3>3. CASE e = m /\ m = n + 1
        <4>1. Inside(m, i)' => exits'[m].initial = now[i]
          BY <1>4, <1>16, <3>3 DEF Inside
        <4>2. e - 1 = n
          BY <1>1, <3>3
        <4> QED BY <1>18, <3>3, <4>1, <4>2
      <3> QED BY <1>4, <1>12, <3>1, <3>2, <3>3
    <2>3. ASSUME NEW e \in 0 .. m, NEW i \in DOMAIN open
          PROVE  q[e][i] <= Size(i)'
      <3>1. CASE e < n
        <4>1. e \in 0 .. n /\ q[e] = p[e]
          BY <1>1, <1>17, <3>1
        <4>2. p[e][i] <= Size(i)
          BY <1>15, <4>1
        <4> QED BY <1>5, <4>1, <4>2
      <3>2. CASE e >= n
        <4>1. n \in 0 .. n
          BY <1>1
        <4>2. now[i] <= Size(i)
          BY <1>15, <1>16, <1>19, <4>1
        <4> QED BY <1>5, <1>17, <3>2, <4>2
      <3>3. e < n \/ e >= n
        BY <1>1, <1>4
      <3> QED BY <3>1, <3>2, <3>3
    <2>4. q \in [0 .. Len(exits') -> [DOMAIN open' -> Nat]]
      BY <1>3, <1>4, <1>17
    <2> QED BY <1>3, <1>4, <2>1, <2>2, <2>3, <2>4 DEF Restores
  <1>21. \A i \in DOMAIN open : p[n - 1][i] = IF i = P THEN Exit.initial ELSE p[n][i]
    <2>1. \A i \in DOMAIN open : Inside(n, i) <=> i = P
      BY <1>1 DEF Inside, P
    <2>2. n \in 1 .. n
      BY <1>1
    <2> QED BY <1>1, <1>15, <2>1, <2>2
  <1>22. /\ \A i \in DOMAIN open : p[n - 1][i] <= p[n][i] /\ p[n - 1][i] \in Nat /\ p[n][i] \in Nat
         /\ \A i \in DOMAIN open : p[n][i] <= now[i] /\ now[i] \in Nat
    <2>1. n \in 1 .. n /\ n \in 0 .. n /\ n - 1 \in 0 .. n
      BY <1>1
    <2>2. \A i \in DOMAIN open : p[n - 1][i] <= p[n][i]
      BY <1>14, <2>1 DEF Grows, n
    <2>3. \A i \in DOMAIN open : p[n - 1][i] \in Nat /\ p[n][i] \in Nat /\ now[i] \in Nat
      BY <1>15, <1>16, <2>1
    <2>4. \A i \in DOMAIN open : p[n][i] <= now[i]
      BY <1>15, <1>16, <1>19, <2>3
    <2> QED BY <2>2, <2>3, <2>4
  <1>23. Grows(q)'
    <2>1. ASSUME NEW e \in 1 .. m, NEW i \in DOMAIN open
          PROVE  q[e - 1][i] <= q[e][i]
      <3>1. CASE e \in 1 .. (n - 1)
        <4>1. e \in 1 .. n
          BY <1>lengths, <3>1
        <4> QED BY <1>14, <1>18, <3>1, <4>1 DEF Grows, n
      <3>2. CASE e = n
        BY <1>18, <1>22, <3>2
      <3>3. CASE e = m /\ m = n + 1
        <4>1. e - 1 = n
          BY <1>lengths, <3>3
        <4> QED BY <1>18, <1>22, <3>3, <4>1
      <3> QED BY <1>lengths, <3>1, <3>2, <3>3
    <2> QED BY <1>3, <1>4, <2>1 DEF Grows
  <1>24. ASSUME NEW i \in DOMAIN open, NEW k \in DOMAIN open[i].deferred
         PROVE  /\ Id(i, k) \in Exit.done <=> k > Size(i) - p[n - 1][i]
                /\ Id(i, k) \in ran <=> Executed(n, P, i, k, q)
                /\ Id(i, k) \in done <=> k > Size(i) - now[i]
    <2>1. Size(i) \in Nat /\ i \in Nat /\ k \in Nat
      BY <1>0, PointTypes
    <2>2. n \in 1 .. n /\ n = Len(exits) /\ n \in 1 .. Len(exits)
      BY <1>lengths DEF n
    <2>3. Id(i, k) \in Exit.done <=> k > Size(i) - p[n - 1][i]
      BY <1>1, <1>14, <2>2 DEF DoneOK
    <2>4. Id(i, k) \in Exit.ran <=> Executed(n, P, i, k, p)
      BY <1>1, <1>14, <2>2 DEF RanOK, P
    <2>5. Id(i, k) = d.id <=> i = P /\ k = r
      BY <1>0, <1>1, UniqueIds
    <2>6. now[i] = IF i = P THEN p[n][P] + 1 ELSE p[n][i]
      BY <1>15, <1>16, <1>19
    <2>7. i = P => r = Size(i) - p[n][i]
      BY <1>1, <1>15
    <2>8. Id(i, k) \in ran <=> Executed(n, P, i, k, q)
      <3>1. Id(i, k) \in ran <=> Executed(n, P, i, k, p) \/ (i = P /\ k = r)
        BY <1>4, <2>4, <2>5
      <3>2. /\ Executed(n, P, i, k, p) <=> ~(k > Size(i) - p[n - 1][i]) /\ (i > P \/ (i = P /\ k > Size(i) - p[n][i]))
            /\ Executed(n, P, i, k, q) <=> ~(k > Size(i) - p[n - 1][i]) /\ (i > P \/ (i = P /\ k > Size(i) - now[i]))
        BY <1>18 DEF Executed
      <3>3. CASE i = P
        <4>1. r = Size(i) - p[n][i] /\ now[i] = p[n][i] + 1 /\ p[n - 1][i] <= p[n][i]
              /\ p[n - 1][i] \in Nat /\ p[n][i] \in Nat /\ ~(i > P)
          BY <1>1, <1>22, <2>6, <2>7, <3>3
        <4>2. k > Size(i) - now[i] <=> k > Size(i) - p[n][i] \/ k = r
          BY <2>1, <4>1
        <4>3. k = r => ~(k > Size(i) - p[n - 1][i])
          BY <2>1, <4>1
        <4> QED BY <3>1, <3>2, <3>3, <4>1, <4>2, <4>3
      <3>4. CASE i # P
        BY <3>1, <3>2, <3>4
      <3> QED BY <3>3, <3>4
    <2>9. Id(i, k) \in DeferredIn(P) <=> i = P
      <3>1. i = P => Id(i, k) \in DeferredIn(P)
        BY DEF DeferredIn, Id
      <3>2. ASSUME Id(i, k) \in DeferredIn(P)
            PROVE  i = P
        <4>1. PICK l \in DOMAIN open[P].deferred : Id(i, k) = Id(P, l)
          BY <3>2 DEF DeferredIn, Id
        <4> QED BY <1>0, <1>1, <4>1, UniqueIds
      <3> QED BY <3>1, <3>2
    <2>10. Id(i, k) \in done <=> k > Size(i) - p[n - 1][i] \/ (Executed(n, P, i, k, q) /\ i = P)
      BY <1>4, <2>3, <2>8, <2>9
    <2>11. Id(i, k) \in done <=> k > Size(i) - now[i]
      <3>1. CASE i = P
        <4>1. Executed(n, P, i, k, q) <=> ~(k > Size(i) - p[n - 1][i]) /\ k > Size(i) - now[i]
          BY <1>1, <1>18, <3>1 DEF Executed
        <4>2. k > Size(i) - p[n - 1][i] => k > Size(i) - now[i]
          BY <1>22, <2>1
        <4> QED BY <2>10, <3>1, <4>1, <4>2
      <3>2. CASE i # P
        BY <1>21, <2>6, <2>10, <3>2
      <3> QED BY <3>1, <3>2
    <2> QED BY <2>3, <2>8, <2>11
  <1>25. DoneOK(q)'
    <2>1. ASSUME NEW e \in 1 .. m, NEW i \in DOMAIN open, NEW k \in DOMAIN open[i].deferred
          PROVE  Id(i, k) \in exits'[e].done <=> k > Size(i) - q[e - 1][i]
      <3>1. CASE e \in 1 .. (n - 1)
        <4>1. e \in 1 .. Len(exits) /\ exits'[e] = exits[e] /\ q[e - 1] = p[e - 1]
          BY <1>lengths, <1>4, <1>18, <3>1 DEF n
        <4> QED BY <1>14, <4>1 DEF DoneOK
      <3>2. CASE e = n
        BY <1>4, <1>18, <1>24, <3>2
      <3>3. CASE e = m /\ m = n + 1
        <4>1. e - 1 = n
          BY <1>lengths, <3>3
        <4> QED BY <1>4, <1>18, <1>24, <3>3, <4>1
      <3> QED BY <1>lengths, <3>1, <3>2, <3>3
    <2> QED BY <1>3, <1>4, <1>5, <2>1 DEF DoneOK
  <1>26. RanOK(q)'
    <2>1. ASSUME NEW e \in 1 .. m, ~exits'[e].failed, NEW i \in DOMAIN open, NEW k \in DOMAIN open[i].deferred
          PROVE  Id(i, k) \in exits'[e].ran <=> Executed(e, exits'[e].pos, i, k, q)
      <3>1. CASE e \in 1 .. (n - 1)
        <4>1. e \in 1 .. Len(exits) /\ exits'[e] = exits[e] /\ q[e - 1] = p[e - 1] /\ q[e] = p[e]
          BY <1>lengths, <1>4, <1>18, <3>1 DEF n
        <4>2. Executed(e, exits'[e].pos, i, k, q) <=> Executed(e, exits[e].pos, i, k, p)
          BY <4>1 DEF Executed
        <4> QED BY <1>14, <2>1, <4>1, <4>2 DEF RanOK
      <3>2. CASE e = n
        BY <1>4, <1>24, <3>2
      <3>3. CASE e = m /\ m = n + 1
        <4>1. e - 1 = n /\ i \in 1 .. Len(open) /\ Len(open) \in Nat
          BY <1>1, <1>lengths, <3>3
        <4>2. ~Executed(e, Len(open), i, k, q)
          BY <1>18, <3>3, <4>1 DEF Executed
        <4> QED BY <1>3, <1>4, <3>3, <4>2
      <3> QED BY <1>lengths, <3>1, <3>2, <3>3
    <2>2. \A e, pos, i, k : i \in DOMAIN open => (Executed(e, pos, i, k, q)' <=> Executed(e, pos, i, k, q))
      BY <1>5 DEF Executed
    <2> QED BY <1>3, <1>4, <1>5, <2>1, <2>2 DEF RanOK
  <1>27. DoneOnTheWay'
    <2>1. ASSUME NEW e \in DOMAIN exits', NEW x \in exits'[e].done
          PROVE  \E o \in 1 .. (e - 1) : x \in exits'[o].ran
      <3>1. \A o \in 1 .. n : exits[o].ran \subseteq exits'[o].ran
        <4>1. \A o \in 1 .. n : o \in 1 .. (n - 1) \/ o = n
          BY <1>lengths
        <4> QED BY <1>1, <1>4, <4>1
      <3>2. CASE e \in 1 .. n
        <4>1. exits'[e].done = exits[e].done /\ e \in DOMAIN exits
          BY <1>1, <1>4, <1>12, <3>2
        <4>2. PICK o \in 1 .. (e - 1) : x \in exits[o].ran
          BY <1>0, <2>1, <4>1 DEF DeferInv, DoneOnTheWay
        <4>3. o \in 1 .. n
          BY <1>lengths, <3>2
        <4> QED BY <3>1, <4>2, <4>3
      <3>3. CASE e = m /\ m = n + 1
        <4>1. e - 1 = n /\ n \in 1 .. n
          BY <1>lengths, <3>3
        <4>2. CASE x \in ran
          BY <1>4, <4>1, <4>2
        <4>3. CASE x \in Exit.done
          <5>1. PICK o \in 1 .. (n - 1) : x \in exits[o].ran
            BY <1>1, <4>3 DEF DeferInv, DoneOnTheWay
          <5>2. o \in 1 .. n
            BY <1>lengths
          <5> QED BY <3>1, <4>1, <5>1, <5>2
        <4> QED BY <1>4, <2>1, <3>3, <4>2, <4>3
      <3> QED BY <1>4, <1>lengths, <3>2, <3>3
    <2> QED BY <2>1 DEF DoneOnTheWay
  <1> QED BY <1>7, <1>11, <1>13, <1>20, <1>23, <1>25, <1>26, <1>27 DEF DeferInv, ProgressOK

\* An exit has left a construct: its progress there is undone.
LEMMA LeaveScopeStep ==
    ASSUME DeferInv, LeaveScope
    PROVE  DeferInv'
  <1>0. TypeOK /\ ScopesOK /\ ExitsOK /\ ProgressOK
    BY DEF DeferInv
  <1>1. PICK n, P, next : n = Len(exits) /\ P = Exit.pos
           /\ next = IF Exit.failed THEN Exit.target ELSE Exit.pos - 1
    OBVIOUS
  <1>2. /\ P \in DOMAIN open /\ Exit.target < P /\ exits # <<>> /\ Exit.initial \in 0 .. MaxDefers
        /\ n \in Nat \ {0} /\ n \in DOMAIN exits /\ Exit = exits[n] /\ Exit \in ExitRecords
        /\ DOMAIN exits = 1 .. n /\ DOMAIN open = 1 .. Len(open) /\ Len(open) \in Nat
        /\ P \in Nat /\ Exit.target \in Nat /\ Len(open) <= MaxOpen
    BY <1>0, <1>1, ExitFacts, PointTypes DEF LeaveScope, ExitRecords, ExitsOK
  <1>3. PICK initial : initial = IF next > 0 THEN open[next].processed ELSE 0
    OBVIOUS
  <1>4. /\ next \in 0 .. (P - 1) /\ Exit.target <= next /\ next \in 0 .. MaxOpen
        /\ ~Exit.failed => next = P - 1
    BY <1>1, <1>2
  <1>5. initial \in 0 .. MaxDefers
    <2>1. next > 0 => next \in DOMAIN open
      BY <1>2, <1>4
    <2> QED BY <1>0, <1>3, <2>1, PointTypes
  <1>6. PICK x : /\ x \in ExitRecords /\ x.pos = next /\ x.target = Exit.target /\ x.initial = initial
                 /\ x.origin = Exit.origin /\ x.body = Exit.body /\ x.failed = Exit.failed /\ x.ran = Exit.ran
                 /\ x.done = Exit.done
                 /\ x = [Exit EXCEPT !.pos = next, !.initial = initial]
    BY <1>2, <1>4, <1>5 DEF ExitRecords
  <1>7. exits' = [exits EXCEPT ![n] = x]
    <2>1. exits' = [exits EXCEPT ![Len(exits)] =
                [@ EXCEPT !.pos = next, !.initial = IF next > 0 THEN open[next].processed ELSE 0]]
      BY <1>1 DEF LeaveScope
    <2> QED BY <1>1, <1>2, <1>3, <1>6, <2>1
  <1>8. /\ exits' \in Seq(ExitRecords) /\ Len(exits') = n /\ DOMAIN exits' = 1 .. n
        /\ \A e \in 1 .. n : exits'[e] = IF e = n THEN x ELSE exits[e]
    BY <1>0, <1>1, <1>2, <1>6, <1>7, ExitUpdate
  <1>9. open' = [open EXCEPT ![P] = [open[P] EXCEPT !.processed = Exit.initial]]
    BY <1>1 DEF LeaveScope
  <1>10. /\ open' \in Seq(Constructs) /\ Len(open') = Len(open) /\ DOMAIN open' = DOMAIN open
         /\ \A i \in DOMAIN open :
               /\ open'[i].processed = IF i = P THEN Exit.initial ELSE open[i].processed
               /\ open'[i].deferred = open[i].deferred /\ open'[i].kind = open[i].kind
    BY <1>0, <1>2, <1>9, ProcessedUpdate
  <1>11. \A i \in DOMAIN open : Size(i)' = Size(i) /\ \A k : Id(i, k)' = Id(i, k)
    BY <1>10 DEF Size, Id
  <1>12. handler' \in Ids
    BY <1>0, <1>1, <1>2, PointTypes DEF LeaveScope, restored_handler
  <1>13. TypeOK'
    BY <1>0, <1>8, <1>10, <1>12 DEF TypeOK, LeaveScope
  <1>14. exits'[1].origin = exits[1].origin /\ exits' # <<>>
    <2>1. CASE n = 1
      BY <1>2, <1>6, <1>8, <2>1
    <2>2. CASE n # 1
      <3>1. 1 \in 1 .. n /\ exits' # <<>>
        BY <1>2, <1>8
      <3> QED BY <1>8, <2>2, <3>1
    <2> QED BY <2>1, <2>2
  <1>15. count' = count /\ Numbered' = Numbered
    <2>1. count' = count
      BY DEF LeaveScope
    <2> QED BY <1>2, <1>14, <2>1 DEF Numbered
  <1>16. ScopesOK'
    BY <1>0, <1>10, <1>15, SameScopes
  <1>17. ExitsOK'
    <2>1. Len(open') <= MaxOpen /\ open' # <<>>
      BY <1>2, <1>10
    <2>2. ASSUME NEW e \in DOMAIN exits'
          PROVE  /\ exits'[e].target <= exits'[e].pos /\ exits'[e].pos <= Len(open')
                 /\ exits'[e].target < Len(open')
                 /\ exits'[e].origin \in {"always", "sometimes"} <=> e # 1
                 /\ e # n => exits'[e].target < exits'[e].pos /\ ~exits'[e].failed
                 /\ exits'[e].origin = "handler" /\ exits'[e].body \in {"break", "maybe_break"}
                       => \E j \in DOMAIN open' : open'[j].kind = "loop"
      <3>1. CASE e # n
        <4>1. e \in DOMAIN exits /\ exits'[e] = exits[e]
          BY <1>2, <1>8, <3>1
        <4> QED BY <1>0, <1>1, <1>10, <3>1, <4>1 DEF ExitsOK
      <3>2. CASE e = n
        <4>1. /\ Exit.origin \in {"always", "sometimes"} <=> n # 1
              /\ Exit.origin = "handler" /\ Exit.body \in {"break", "maybe_break"}
                    => \E j \in DOMAIN open : open[j].kind = "loop"
          BY <1>0, <1>2 DEF ExitsOK
        <4>2. exits'[e] = x
          BY <1>8, <3>2
        <4>3. Exit.target <= next /\ next <= Len(open') /\ Exit.target < Len(open')
          BY <1>2, <1>4, <1>10
        <4> QED BY <1>6, <1>10, <3>2, <4>1, <4>2, <4>3
      <3> QED BY <3>1, <3>2
    <2> QED BY <1>8, <2>1, <2>2 DEF ExitsOK
  <1>18. PICK p : Restores(p) /\ Grows(p) /\ DoneOK(p) /\ RanOK(p)
    BY <1>0 DEF ProgressOK
  <1>19. /\ p \in [0 .. n -> [DOMAIN open -> Nat]]
         /\ \A i \in DOMAIN open : p[0][i] = 0 /\ p[n][i] = open[i].processed
         /\ \A e \in 1 .. n, i \in DOMAIN open :
               p[e - 1][i] = IF Inside(e, i) THEN exits[e].initial ELSE p[e][i]
         /\ \A e \in 0 .. n, i \in DOMAIN open : p[e][i] <= Size(i)
    BY <1>1, <1>18 DEF Restores
  <1>20. \A i \in DOMAIN open : p[n - 1][i] = IF i = P THEN Exit.initial ELSE p[n][i]
    <2>1. \A i \in DOMAIN open : Inside(n, i) <=> i = P
      BY <1>1, <1>2 DEF Inside
    <2>2. n \in 1 .. n
      BY <1>2
    <2> QED BY <1>2, <1>19, <2>1, <2>2
  <1>21. \A i \in DOMAIN open : p[n - 1][i] = open'[i].processed
    BY <1>10, <1>19, <1>20
  <1>22. PICK q : /\ q \in [0 .. n -> [DOMAIN open -> Nat]]
                  /\ \A e \in 0 .. (n - 1) : q[e] = p[e]
                  /\ q[n] = p[n - 1]
    <2> DEFINE f == [e \in 0 .. n |-> IF e = n THEN p[n - 1] ELSE p[e]]
    <2>1. n - 1 \in 0 .. n /\ n \in 0 .. n /\ \A e \in 0 .. (n - 1) : e \in 0 .. n /\ e # n
      BY <1>2
    <2>2. \A e \in 0 .. n : f[e] \in [DOMAIN open -> Nat]
      BY <1>19, <2>1
    <2>3. f \in [0 .. n -> [DOMAIN open -> Nat]]
      BY <2>2
    <2>4. f[n] = p[n - 1] /\ \A e \in 0 .. (n - 1) : f[e] = p[e]
      BY <2>1
    <2> QED BY <2>3, <2>4
  <1>23. q[0] = p[0] /\ q[n - 1] = p[n - 1] /\ \A e \in 1 .. (n - 1) : q[e] = p[e] /\ q[e - 1] = p[e - 1]
    BY <1>2, <1>22
  <1>24. Restores(q)'
    <2>1. \A i \in DOMAIN open : q[0][i] = 0 /\ q[n][i] = open'[i].processed
      BY <1>19, <1>21, <1>22, <1>23
    <2>2. ASSUME NEW e \in 1 .. n, NEW i \in DOMAIN open
          PROVE  q[e - 1][i] = IF Inside(e, i)' THEN exits'[e].initial ELSE q[e][i]
      <3>1. CASE e # n
        <4>1. exits'[e] = exits[e] /\ q[e] = p[e] /\ q[e - 1] = p[e - 1]
          BY <1>2, <1>8, <1>23, <3>1
        <4>2. Inside(e, i)' <=> Inside(e, i)
          BY <4>1 DEF Inside
        <4> QED BY <1>19, <4>1, <4>2
      <3>2. CASE e = n
        <4>1. q[e - 1][i] = open'[i].processed /\ q[e][i] = open'[i].processed
          BY <1>21, <1>22, <1>23, <3>2
        <4>2. Inside(e, i)' => exits'[e].initial = open'[i].processed
          <5>1. Inside(e, i)' => i = next /\ next > 0 /\ next # P
            <6>1. exits'[e].pos = next /\ exits'[e].target = Exit.target
              BY <1>6, <1>8, <3>2
            <6> QED BY <1>2, <1>4, <6>1 DEF Inside
          <5>2. exits'[e].initial = initial
            BY <1>2, <1>6, <1>8, <3>2
          <5>3. i # P => open'[i].processed = open[i].processed
            BY <1>10
          <5> QED BY <1>3, <5>1, <5>2, <5>3
        <4> QED BY <4>1, <4>2
      <3> QED BY <3>1, <3>2
    <2>3. ASSUME NEW e \in 0 .. n, NEW i \in DOMAIN open
          PROVE  q[e][i] <= Size(i)'
      <3>1. n - 1 \in 0 .. n /\ (e # n => e \in 0 .. (n - 1))
        BY <1>2
      <3> QED BY <1>11, <1>19, <1>22, <3>1
    <2>4. q \in [0 .. Len(exits') -> [DOMAIN open' -> Nat]]
      BY <1>8, <1>10, <1>22
    <2> QED BY <1>8, <1>10, <2>1, <2>2, <2>3, <2>4 DEF Restores
  <1>25. \A e \in 1 .. n : e # n => exits'[e] = exits[e] /\ q[e] = p[e] /\ q[e - 1] = p[e - 1] /\ e \in 1 .. Len(exits)
    BY <1>1, <1>2, <1>8, <1>23
  <1>26. n \in 1 .. Len(exits) /\ n \in 1 .. n
    BY <1>1, <1>2
  <1>27. Grows(q)'
    <2>1. ASSUME NEW e \in 1 .. n, NEW i \in DOMAIN open
          PROVE  q[e - 1][i] <= q[e][i]
      <3>1. CASE e # n
        BY <1>18, <1>25, <3>1 DEF Grows
      <3>2. CASE e = n
        <4>1. q[e - 1][i] = q[e][i]
          BY <1>22, <1>23, <3>2
        <4>2. n \in 0 .. n /\ q[n][i] \in Nat
          BY <1>2, <1>22
        <4> QED BY <3>2, <4>1, <4>2
      <3> QED BY <3>1, <3>2
    <2> QED BY <1>8, <1>10, <2>1 DEF Grows
  <1>28. DoneOK(q)'
    <2>1. ASSUME NEW e \in 1 .. n, NEW i \in DOMAIN open, NEW k \in DOMAIN open[i].deferred
          PROVE  Id(i, k) \in exits'[e].done <=> k > Size(i) - q[e - 1][i]
      <3>1. exits'[e].done = exits[e].done /\ q[e - 1] = p[e - 1] /\ e \in 1 .. Len(exits)
        BY <1>1, <1>2, <1>6, <1>8, <1>23, <1>25
      <3> QED BY <1>18, <3>1 DEF DoneOK
    <2> QED BY <1>8, <1>10, <1>11, <2>1 DEF DoneOK
  <1>29. RanOK(q)'
    <2>1. ASSUME NEW e \in 1 .. n, ~exits'[e].failed, NEW i \in DOMAIN open, NEW k \in DOMAIN open[i].deferred
          PROVE  Id(i, k) \in exits'[e].ran <=> Executed(e, exits'[e].pos, i, k, q)
      <3>1. CASE e # n
        <4>1. exits'[e] = exits[e] /\ q[e] = p[e] /\ q[e - 1] = p[e - 1] /\ e \in 1 .. Len(exits)
          BY <1>25, <3>1
        <4>2. Executed(e, exits'[e].pos, i, k, q) <=> Executed(e, exits[e].pos, i, k, p)
          BY <4>1 DEF Executed
        <4> QED BY <1>18, <2>1, <4>1, <4>2 DEF RanOK
      <3>2. CASE e = n
        <4>1. ~Exit.failed /\ exits'[e].pos = P - 1 /\ exits'[e].ran = Exit.ran /\ exits[n] = Exit
          BY <1>2, <1>4, <1>6, <1>8, <2>1, <3>2
        <4>2. Id(i, k) \in Exit.ran <=> Executed(n, P, i, k, p)
          BY <1>1, <1>18, <1>26, <4>1 DEF RanOK
        <4>3. k \in Nat /\ k > 0 /\ i \in Nat /\ Size(i) \in Nat
          BY <1>0, PointTypes
        <4>4. i = P => Size(i) - p[n][i] = 0
          <5>1. Size(P) - open[P].processed = 0
            BY <1>1, <4>1 DEF LeaveScope, Remaining, Size
          <5> QED BY <1>19, <5>1
        <4>5. q[n][i] = p[n - 1][i] /\ q[n - 1][i] = p[n - 1][i]
          BY <1>22, <1>23
        <4>6. Executed(n, P, i, k, p) <=> ~(k > Size(i) - p[n - 1][i]) /\ (i > P \/ i = P)
          BY <4>3, <4>4 DEF Executed
        <4>7. Executed(n, P - 1, i, k, q) <=> ~(k > Size(i) - p[n - 1][i]) /\ i > P - 1
          BY <4>5 DEF Executed
        <4>8. i > P - 1 <=> i > P \/ i = P
          BY <1>2, <4>3
        <4> QED BY <3>2, <4>1, <4>2, <4>6, <4>7, <4>8
      <3> QED BY <3>1, <3>2
    <2>2. \A e, pos, i, k : i \in DOMAIN open => (Executed(e, pos, i, k, q)' <=> Executed(e, pos, i, k, q))
      BY <1>11 DEF Executed
    <2> QED BY <1>8, <1>10, <1>11, <2>1, <2>2 DEF RanOK
  <1>30. DoneOnTheWay'
    <2>1. \A e \in 1 .. n : exits'[e].done = exits[e].done /\ exits'[e].ran = exits[e].ran
      BY <1>2, <1>6, <1>8
    <2>2. DOMAIN exits = 1 .. n /\ DOMAIN exits' = 1 .. n
      BY <1>0, <1>2, <1>8, PointTypes
    <2>3. ASSUME NEW e \in 1 .. n, NEW d \in exits'[e].done
          PROVE  \E o \in 1 .. (e - 1) : d \in exits'[o].ran
      <3>1. PICK o \in 1 .. (e - 1) : d \in exits[o].ran
        BY <2>1, <2>2 DEF DoneOnTheWay, DeferInv
      <3>2. o \in 1 .. n
        BY <1>2
      <3> QED BY <2>1, <3>1, <3>2
    <2> QED BY <2>2, <2>3 DEF DoneOnTheWay
  <1> QED BY <1>13, <1>16, <1>17, <1>24, <1>27, <1>28, <1>29, <1>30 DEF DeferInv, ProgressOK

\* The innermost exit is complete, and the deferred statement that caused it goes on.
LEMMA ReturnToDeferredStep ==
    ASSUME DeferInv, ReturnToDeferred
    PROVE  DeferInv'
  <1>0. TypeOK /\ ScopesOK /\ ExitsOK /\ ProgressOK
    BY DEF DeferInv
  <1>1. PICK n, m, E : n = Len(exits) /\ m = n - 1 /\ E = exits[n]
    OBVIOUS
  <1>2. /\ exits # <<>> /\ n \in DOMAIN exits /\ Exit = E /\ E \in ExitRecords /\ E.pos = E.target
        /\ DOMAIN exits = 1 .. n /\ DOMAIN open = 1 .. Len(open) /\ Len(open) \in Nat
        /\ exits \in Seq(ExitRecords) /\ E.origin \in {"always", "sometimes"} /\ n \in Nat
    BY <1>0, <1>1, ExitFacts, PointTypes DEF ReturnToDeferred, TypeOK
  <1>3. n # 1 /\ n >= 2 /\ m \in Nat \ {0} /\ m \in DOMAIN exits /\ m # n
    BY <1>0, <1>1, <1>2 DEF ExitsOK
  <1>4. PICK below : below = SubSeq(exits, 1, n - 1)
    OBVIOUS
  <1>5. /\ below \in Seq(ExitRecords) /\ Len(below) = m /\ DOMAIN below = 1 .. m
        /\ \A e \in 1 .. m : below[e] = exits[e] /\ e \in DOMAIN exits /\ e # n
    BY <1>1, <1>2, <1>3, <1>4, SubSeqProperties
  <1>6. exits[m] \in ExitRecords /\ m \in 1 .. m
    BY <1>0, <1>3, PointTypes
  <1>7. PICK x : /\ x \in ExitRecords /\ x.pos = exits[m].pos /\ x.target = exits[m].target
                 /\ x.initial = exits[m].initial /\ x.origin = exits[m].origin
                 /\ x.body = exits[m].body /\ x.failed = TRUE /\ x.ran = exits[m].ran
                 /\ x.done = exits[m].done
                 /\ x = [exits[m] EXCEPT !.failed = TRUE]
    BY <1>6 DEF ExitRecords
  <1>8. exits' = IF E.origin = "always" THEN [below EXCEPT ![m] = x] ELSE below
    <2>1. exits' = IF E.origin = "always" THEN [below EXCEPT ![Len(below)].failed = TRUE] ELSE below
      BY <1>1, <1>2, <1>4 DEF ReturnToDeferred
    <2>2. below[m] = exits[m]
      BY <1>5, <1>6
    <2> QED BY <1>5, <1>7, <2>1, <2>2
  <1>9. /\ exits' \in Seq(ExitRecords) /\ Len(exits') = m /\ DOMAIN exits' = 1 .. m
        /\ \A e \in 1 .. m : exits'[e] = exits[e] \/ (e = m /\ exits'[e] = x)
    <2>1. CASE E.origin = "always"
      BY <1>5, <1>6, <1>7, <1>8, <2>1, ExceptSeq, LenProperties
    <2>2. CASE E.origin # "always"
      BY <1>5, <1>8, <2>2
    <2> QED BY <2>1, <2>2
  <1>10. \A e \in 1 .. m :
            /\ exits'[e].pos = exits[e].pos /\ exits'[e].target = exits[e].target
            /\ exits'[e].initial = exits[e].initial /\ exits'[e].origin = exits[e].origin
            /\ exits'[e].body = exits[e].body /\ exits'[e].ran = exits[e].ran
            /\ exits'[e].done = exits[e].done
            /\ ~exits'[e].failed => ~exits[e].failed
            /\ e # m /\ ~exits[e].failed => ~exits'[e].failed
            /\ e \in DOMAIN exits /\ e # n
    BY <1>5, <1>7, <1>9
  <1>11. 1 \in 1 .. m /\ exits' # <<>>
    BY <1>3, <1>9
  <1>12. open' = open /\ block' \in Ids
    BY <1>2 DEF ReturnToDeferred, ExitRecords
  <1>13. TypeOK'
    BY <1>0, <1>9, <1>12 DEF TypeOK, ReturnToDeferred
  <1>14. count' = count /\ Numbered' = Numbered
    <2>1. count' = count
      BY DEF ReturnToDeferred
    <2> QED BY <1>2, <1>10, <1>11, <2>1 DEF Numbered
  <1>15. ScopesOK'
    BY <1>0, <1>12, <1>14, SameScopes
  <1>16. ExitsOK'
    <2>1. Len(open') <= MaxOpen /\ open' # <<>>
      BY <1>0, <1>2, <1>12 DEF ExitsOK
    <2>2. ASSUME NEW e \in DOMAIN exits'
          PROVE  /\ exits'[e].target <= exits'[e].pos /\ exits'[e].pos <= Len(open')
                 /\ exits'[e].target < Len(open')
                 /\ exits'[e].origin \in {"always", "sometimes"} <=> e # 1
                 /\ e # m => exits'[e].target < exits'[e].pos /\ ~exits'[e].failed
                 /\ exits'[e].origin = "handler" /\ exits'[e].body \in {"break", "maybe_break"}
                       => \E j \in DOMAIN open' : open'[j].kind = "loop"
      <3>1. e \in 1 .. m
        BY <1>9
      <3> QED BY <1>0, <1>1, <1>10, <1>12, <3>1, ZenonT(40) DEF ExitsOK
    <2> QED BY <1>9, <2>1, <2>2 DEF ExitsOK
  <1>17. PICK p : Restores(p) /\ Grows(p) /\ DoneOK(p) /\ RanOK(p)
    BY <1>0 DEF ProgressOK
  <1>18. /\ p \in [0 .. n -> [DOMAIN open -> Nat]]
         /\ \A i \in DOMAIN open : p[0][i] = 0 /\ p[n][i] = open[i].processed
         /\ \A e \in 1 .. n, i \in DOMAIN open :
               p[e - 1][i] = IF Inside(e, i) THEN exits[e].initial ELSE p[e][i]
         /\ \A e \in 0 .. n, i \in DOMAIN open : p[e][i] <= Size(i)
    BY <1>1, <1>17 DEF Restores
  <1>19. \A i \in DOMAIN open : p[m][i] = open[i].processed
    <2>1. \A i \in DOMAIN open : ~Inside(n, i)
      BY <1>1, <1>2, SMTT(40) DEF Inside, ExitRecords
    <2>2. n \in 1 .. n
      BY <1>2
    <2> QED BY <1>1, <1>18, <2>1, <2>2
  <1>20. PICK q : q \in [0 .. m -> [DOMAIN open -> Nat]] /\ \A e \in 0 .. m : q[e] = p[e]
    <2> DEFINE f == [e \in 0 .. m |-> p[e]]
    <2>1. \A e \in 0 .. m : e \in 0 .. n
      BY <1>1, <1>3
    <2>2. f \in [0 .. m -> [DOMAIN open -> Nat]] /\ \A e \in 0 .. m : f[e] = p[e]
      BY <1>18, <2>1
    <2> QED BY <2>2
  <1>21. /\ q[0] = p[0] /\ q[m] = p[m] /\ \A e \in 1 .. m : q[e] = p[e] /\ q[e - 1] = p[e - 1]
         /\ \A e \in 1 .. m : e \in 1 .. n /\ e \in 0 .. n
    BY <1>1, <1>3, <1>20
  <1>22. Restores(q)'
    <2>1. \A i \in DOMAIN open : q[0][i] = 0 /\ q[m][i] = open'[i].processed
      BY <1>12, <1>18, <1>19, <1>21
    <2>2. ASSUME NEW e \in 1 .. m, NEW i \in DOMAIN open
          PROVE  q[e - 1][i] = IF Inside(e, i)' THEN exits'[e].initial ELSE q[e][i]
      <3>1. Inside(e, i)' <=> Inside(e, i)
        BY <1>10 DEF Inside
      <3> QED BY <1>10, <1>18, <1>21, <3>1
    <2>3. ASSUME NEW e \in 0 .. m, NEW i \in DOMAIN open
          PROVE  q[e][i] <= Size(i)'
      <3>1. e \in 0 .. n /\ Size(i)' = Size(i)
        BY <1>1, <1>3, <1>12 DEF Size
      <3> QED BY <1>18, <1>20, <3>1
    <2>4. q \in [0 .. Len(exits') -> [DOMAIN open' -> Nat]]
      BY <1>9, <1>12, <1>20
    <2> QED BY <1>9, <1>12, <2>1, <2>2, <2>3, <2>4 DEF Restores
  <1>23. \A i, k : Id(i, k)' = Id(i, k) /\ Size(i)' = Size(i)
    BY <1>12 DEF Id, Size
  <1>24. \A e \in 1 .. m : e \in 1 .. Len(exits)
    BY <1>1, <1>21
  <1>25. Grows(q)'
    BY <1>9, <1>12, <1>17, <1>21, <1>24 DEF Grows
  <1>26. DoneOK(q)'
    BY <1>9, <1>10, <1>12, <1>17, <1>21, <1>23, <1>24 DEF DoneOK
  <1>27. RanOK(q)'
    <2>1. \A e \in 1 .. m : \A pos, i, k : Executed(e, pos, i, k, q)' <=> Executed(e, pos, i, k, p)
      BY <1>10, <1>21, <1>23 DEF Executed
    <2> QED BY <1>9, <1>10, <1>12, <1>17, <1>23, <1>24, <2>1 DEF RanOK
  <1>28. DoneOnTheWay'
    <2>1. \A e \in 1 .. m : \A o \in 1 .. (e - 1) : o \in 1 .. m
      BY <1>3
    <2> QED BY <1>9, <1>10, <2>1 DEF DoneOnTheWay, DeferInv
  <1> QED BY <1>13, <1>15, <1>16, <1>22, <1>25, <1>26, <1>27, <1>28 DEF DeferInv, ProgressOK

-----------------------------------------------------------------------------
(* Statements. *)

\* Facts about a point between two statements.
LEMMA CompilingFacts ==
    ASSUME DeferInv, Compiling
    PROVE  /\ exits = <<>> /\ open # <<>> /\ Len(open) \in Nat \ {0} /\ Len(open) \in DOMAIN open
           /\ DOMAIN open = 1 .. Len(open) /\ Len(open) <= MaxOpen /\ Numbered = count
           /\ \A i \in DOMAIN open : open[i].processed = 0
  <1>1. exits = <<>> /\ open # <<>> /\ TypeOK
    BY DEF Compiling, DeferInv
  <1>2. Len(open) \in Nat \ {0} /\ DOMAIN open = 1 .. Len(open) /\ Len(open) <= MaxOpen
    BY <1>1, PointTypes, EmptySeq DEF DeferInv, ExitsOK, TypeOK
  <1>3. \A i \in DOMAIN open : open[i].processed = 0
    BY <1>1, IdleProcessed
  <1> QED BY <1>1, <1>2, <1>3 DEF Numbered

\* Facts about a point where the outermost exit is complete.
LEMMA CompleteFacts ==
    ASSUME DeferInv, exits # <<>>, Exit.origin \notin {"always", "sometimes"}, Exit.pos = Exit.target
    PROVE  /\ open # <<>> /\ Len(open) \in Nat \ {0} /\ Len(open) \in DOMAIN open
           /\ DOMAIN open = 1 .. Len(open) /\ Len(open) <= MaxOpen
           /\ Numbered = IF Exit.origin = "handler" THEN count - 1 ELSE count
           /\ Exit.body \in AllBodies
           /\ Exit.origin = "handler" /\ Exit.body \in {"break", "maybe_break"}
                 => \E j \in DOMAIN open : open[j].kind = "loop"
           /\ \A i \in DOMAIN open : open[i].processed = 0
  <1>1. TypeOK /\ open # <<>>
    BY DEF DeferInv, ExitsOK
  <1>2. Len(open) \in Nat \ {0} /\ DOMAIN open = 1 .. Len(open) /\ Len(open) <= MaxOpen
    BY <1>1, PointTypes, EmptySeq DEF DeferInv, ExitsOK, TypeOK
  <1>3. \A i \in DOMAIN open : open[i].processed = 0
    BY CompleteProcessed
  <1>4. exits[1] = Exit /\ 1 \in DOMAIN exits /\ Exit \in ExitRecords
    BY OuterExit, ExitFacts
  <1>5. Exit.origin = "handler" /\ Exit.body \in {"break", "maybe_break"}
            => \E j \in DOMAIN open : open[j].kind = "loop"
    BY <1>4 DEF DeferInv, ExitsOK
  <1>6. Exit.body \in AllBodies
    BY <1>4 DEF ExitRecords
  <1>7. Numbered = IF Exit.origin = "handler" THEN count - 1 ELSE count
    BY <1>4 DEF Numbered
  <1> QED BY <1>1, <1>2, <1>3, <1>5, <1>6, <1>7

\* The exit that a statement causes.
LEMMA StatementExit ==
    ASSUME DeferInv, Compiling, NEW t \in Nat, t < Len(open), NEW origin \in {"statement", "block", "handler"},
           NEW end \in Ids, NEW body \in AllBodies,
           origin = "handler" /\ body \in {"break", "maybe_break"}
                => \E j \in DOMAIN open : open[j].kind = "loop",
           exits' = <<NewExit(open, t, origin, end, body, {})>>, UNCHANGED open
    PROVE  /\ exits' \in Seq(ExitRecords) /\ ExitsOK' /\ ProgressOK' /\ DoneOnTheWay'
           /\ Numbered' = IF origin = "handler" THEN count' - 1 ELSE count'
  <1>1. /\ exits = <<>> /\ open # <<>> /\ Len(open) \in Nat \ {0} /\ Len(open) \in DOMAIN open
        /\ Len(open) <= MaxOpen /\ open[Len(open)].processed = 0
    BY CompilingFacts
  <1>2. PICK x : x = NewExit(open, t, origin, end, body, {})
    OBVIOUS
  <1>3. Len(open) \in 0 .. MaxOpen /\ t \in 0 .. MaxOpen /\ 0 \in 0 .. MaxDefers /\ {} \in SUBSET Ids
    BY <1>1
  <1>4. /\ x \in ExitRecords /\ x.pos = Len(open) /\ x.target = t /\ x.initial = open[Len(open)].processed
        /\ x.origin = origin /\ x.body = body /\ x.ran = {} /\ x.done = {} /\ x.failed = FALSE
    BY <1>1, <1>2, <1>3 DEF NewExit, ExitRecords
  <1>5. exits' = <<x>>
    BY <1>2
  <1>6. exits' \in Seq(ExitRecords) /\ ExitsOK' /\ ProgressOK' /\ DoneOnTheWay'
    BY <1>1, <1>4, <1>5, BeginExit
  <1>7. Numbered' = IF origin = "handler" THEN count' - 1 ELSE count'
    <2>1. exits' # <<>> /\ exits'[1].origin = origin
      BY <1>4, <1>5
    <2> QED BY <2>1 DEF Numbered
  <1> QED BY <1>6, <1>7

\* When no exit is in progress, the rest of the invariant is about the constructs.
LEMMA IdleInv ==
    ASSUME TypeOK', ScopesOK', exits' = <<>>, Len(open') <= MaxOpen,
           \A i \in DOMAIN open' : open'[i].processed = 0
    PROVE  DeferInv'
  <1>1. ProgressOK'
    BY IdleProgress
  <1>2. DOMAIN exits' = {}
    OBVIOUS
  <1>3. ExitsOK'
    BY <1>2 DEF ExitsOK
  <1>4. DoneOnTheWay'
    BY <1>2 DEF DoneOnTheWay
  <1> QED BY <1>1, <1>3, <1>4 DEF DeferInv

LEMMA DeferStep ==
    ASSUME DeferInv, NEW body \in Bodies, Defer(body)
    PROVE  DeferInv'
  <1>0. TypeOK /\ ScopesOK /\ Compiling /\ count < MaxDefers /\ count' = count + 1 /\ body \in AllBodies
    BY DEF DeferInv, Defer
  <1>1. /\ exits = <<>> /\ open # <<>> /\ Len(open) \in Nat \ {0} /\ Len(open) <= MaxOpen
        /\ DOMAIN open = 1 .. Len(open) /\ Numbered = count
        /\ \A i \in DOMAIN open : open[i].processed = 0
    BY <1>0, CompilingFacts
  <1>2. count \in Nat /\ count' \in Ids /\ handler \in Ids /\ count' # 0 /\ count' \in Nat
    BY <1>0 DEF TypeOK, Ids
  <1>3. early' \in BOOLEAN /\ reachable' \in BOOLEAN /\ abandoned' \in BOOLEAN
    BY <1>0 DEF TypeOK, Defer
  <1>4. body \in {"break", "maybe_break"} => current_loop \in 1 .. Len(open)
    BY <1>0, <1>1, CurrentLoop DEF Defer
  <1>5. body \in {"break", "maybe_break"} => \E j \in DOMAIN open : open[j].kind = "loop"
    BY <1>0 DEF Defer, current_loop
  <1>6. CASE body = "plain"
    <2>1. exits' = <<>> /\ remember(open, handler, body)
      BY <1>1, <1>6 DEF Defer
    <2>2. Numbered' = count'
      BY <2>1 DEF Numbered
    <2>3. \A n \in 0 .. Numbered : n < count'
      BY <1>0, <1>1, <1>2
    <2>4. /\ ScopesOK' /\ open' \in Seq(Constructs) /\ Len(open') = Len(open)
          /\ \A i \in DOMAIN open : open'[i].processed = open[i].processed
      BY <1>0, <1>1, <1>2, <1>5, <2>1, <2>2, <2>3, RememberedScopes
    <2>5. DOMAIN open' = DOMAIN open
      BY <1>1, <2>4, LenProperties
    <2>6. handler' = count' /\ block' = count'
      BY <2>1 DEF remember
    <2>7. TypeOK'
      BY <1>2, <1>3, <2>1, <2>4, <2>6 DEF TypeOK
    <2> QED BY <1>1, <2>1, <2>4, <2>5, <2>7, IdleInv
  <1>7. CASE body # "plain"
    <2>1. /\ exits' = <<NewExit(open, Target(Leaves(body)), "handler", handler, body, {})>>
          /\ UNCHANGED <<open, handler, block>>
      BY <1>7 DEF Defer
    <2>2. PICK t \in Nat : t = Target(Leaves(body)) /\ t < Len(open)
      <3>1. CASE body \in {"return", "maybe_return"}
        BY <1>1, <3>1 DEF Target, Leaves
      <3>2. CASE body \in {"break", "maybe_break"}
        <4>1. Target(Leaves(body)) = current_loop - 1
          BY <3>2 DEF Target, Leaves
        <4> QED BY <1>1, <1>4, <3>2, <4>1
      <3> QED BY <1>0, <1>7, <3>1, <3>2 DEF AllBodies
    <2>3. /\ exits' \in Seq(ExitRecords) /\ ExitsOK' /\ ProgressOK' /\ DoneOnTheWay' /\ Numbered' = count' - 1
      BY <1>0, <1>2, <1>5, <2>1, <2>2, StatementExit
    <2>4. TypeOK'
      BY <1>0, <1>2, <1>3, <2>1, <2>3 DEF TypeOK
    <2>5. Numbered' = Numbered /\ Numbered' \in 0 .. count'
      BY <1>0, <1>1, <1>2, <2>3
    <2>6. \A i, k : Id(i, k)' = Id(i, k)
      BY <2>1 DEF Id
    <2>7. ScopesOK'
      BY <1>0, <2>1, <2>5, <2>6 DEF ScopesOK
    <2> QED BY <2>3, <2>4, <2>7 DEF DeferInv
  <1> QED BY <1>6, <1>7

LEMMA DeferContinueStep ==
    ASSUME DeferInv, DeferContinue
    PROVE  DeferInv'
  <1>0. TypeOK /\ ScopesOK /\ exits' = <<>> /\ count' = count /\ remember(open, handler, Exit.body)
    BY DEF DeferInv, DeferContinue
  <1>1. /\ open # <<>> /\ Len(open) \in Nat \ {0} /\ Len(open) <= MaxOpen
        /\ DOMAIN open = 1 .. Len(open) /\ Numbered = count - 1 /\ Exit.body \in AllBodies
        /\ Exit.body \in {"break", "maybe_break"} => \E j \in DOMAIN open : open[j].kind = "loop"
        /\ \A i \in DOMAIN open : open[i].processed = 0
    BY CompleteFacts DEF DeferContinue
  <1>2. count \in Nat /\ count' \in Ids /\ handler \in Ids
        /\ reachable' \in BOOLEAN /\ early' \in BOOLEAN /\ abandoned' \in BOOLEAN
    BY <1>0 DEF TypeOK, Ids, DeferContinue
  <1>3. Numbered' = count' /\ count' # 0 /\ \A n \in 0 .. Numbered : n < count'
    <2>1. Numbered' = count'
      BY <1>0 DEF Numbered
    <2>2. Numbered \in 0 .. count
      BY <1>0 DEF ScopesOK
    <2> QED BY <1>0, <1>1, <1>2, <2>1, <2>2
  <1>4. PICK body \in AllBodies : body = Exit.body
    BY <1>1
  <1>5. /\ ScopesOK' /\ open' \in Seq(Constructs) /\ Len(open') = Len(open)
        /\ \A i \in DOMAIN open : open'[i].processed = open[i].processed
    BY <1>0, <1>1, <1>2, <1>3, <1>4, RememberedScopes
  <1>6. DOMAIN open' = DOMAIN open
    BY <1>1, <1>5, LenProperties
  <1>7. handler' = count' /\ block' = count'
    BY <1>0 DEF remember
  <1>8. TypeOK'
    BY <1>0, <1>2, <1>5, <1>7 DEF TypeOK
  <1> QED BY <1>0, <1>1, <1>5, <1>6, <1>8, IdleInv

LEMMA EnterStep ==
    ASSUME DeferInv, NEW kind \in {"block", "if", "if_else", "loop"}, Enter(kind)
    PROVE  DeferInv'
  <1>0. TypeOK /\ ScopesOK /\ Compiling /\ Len(open) < MaxOpen
    BY DEF DeferInv, Enter
  <1>1. /\ exits = <<>> /\ Len(open) \in Nat \ {0} /\ DOMAIN open = 1 .. Len(open) /\ Numbered = count
        /\ \A i \in DOMAIN open : open[i].processed = 0
    BY <1>0, CompilingFacts
  <1>2. PICK c, n : c = Construct(kind) /\ n = Len(open)
    OBVIOUS
  <1>3. c \in Constructs /\ c.processed = 0 /\ c.deferred = <<>>
    <2>1. handler \in Ids /\ 0 \in 0 .. MaxDefers /\ <<>> \in Seq(DeferredStatements)
      BY <1>0 DEF TypeOK
    <2> QED BY <1>2, <2>1 DEF Construct, Constructs
  <1>4. open' = Append(open, c) /\ open \in Seq(Constructs)
    BY <1>0, <1>2 DEF Enter, TypeOK
  <1>5. /\ open' \in Seq(Constructs) /\ Len(open') = n + 1 /\ DOMAIN open' = 1 .. (n + 1)
        /\ open'[n + 1] = c /\ \A i \in 1 .. n : open'[i] = open[i]
    BY <1>2, <1>3, <1>4, AppendProperties, LenProperties
  <1>6. exits' = <<>> /\ count' = count /\ Numbered' = Numbered
    BY <1>1 DEF Enter, Numbered
  <1>7. ASSUME NEW i \in DOMAIN open'
        PROVE  \/ i \in DOMAIN open /\ \A j \in 1 .. i : open'[j] = open[j]
               \/ DOMAIN open'[i].deferred = {} /\ i = n + 1
    <2>1. CASE i \in 1 .. n
      <3>1. \A j \in 1 .. i : j \in 1 .. n
        BY <1>1, <1>2, <2>1
      <3> QED BY <1>1, <1>2, <1>5, <2>1, <3>1
    <2>2. CASE i = n + 1
      BY <1>3, <1>5, <2>2
    <2> QED BY <1>1, <1>2, <1>5, <2>1, <2>2
  <1>8. ScopesOK'
    BY <1>0, <1>6, <1>7, ResizedScopes
  <1>9. \A i \in DOMAIN open' : open'[i].processed = 0
    BY <1>1, <1>2, <1>3, <1>5
  <1>10. TypeOK'
    BY <1>0, <1>5 DEF TypeOK, Enter
  <1>11. Len(open') <= MaxOpen
    BY <1>0, <1>1, <1>2, <1>5
  <1> QED BY <1>6, <1>8, <1>9, <1>10, <1>11, IdleInv

LEMMA LeaveEarlyStep ==
    ASSUME DeferInv, NEW exit \in EarlyExits, LeaveEarly(exit)
    PROVE  DeferInv'
  <1>0. TypeOK /\ ScopesOK /\ Compiling /\ UNCHANGED <<open, count>>
    BY DEF DeferInv, LeaveEarly
  <1>1. /\ Len(open) \in Nat \ {0} /\ DOMAIN open = 1 .. Len(open) /\ Numbered = count
    BY <1>0, CompilingFacts
  <1>2. PICK t \in Nat : t = Target(exit) /\ t < Len(open)
    <2>1. CASE exit = "break"
      <3>1. current_loop \in 1 .. Len(open)
        BY <1>0, <1>1, <2>1, CurrentLoop DEF LeaveEarly
      <3> QED BY <1>1, <2>1, <3>1 DEF Target
    <2>2. CASE exit # "break"
      BY <1>1, <2>2 DEF Target
    <2> QED BY <2>1, <2>2
  <1>3. PICK body \in AllBodies, end \in Ids : body = "plain" /\ end = 0
    BY DEF AllBodies, Ids
  <1>4. exits' = <<NewExit(open, t, "statement", end, body, {})>>
    BY <1>2, <1>3 DEF LeaveEarly
  <1>5. exits' \in Seq(ExitRecords) /\ ExitsOK' /\ ProgressOK' /\ DoneOnTheWay' /\ Numbered' = count'
    BY <1>0, <1>2, <1>3, <1>4, StatementExit
  <1>6. ScopesOK'
    BY <1>0, <1>1, <1>5, SameScopes
  <1>7. TypeOK'
    BY <1>0, <1>5 DEF TypeOK, LeaveEarly
  <1> QED BY <1>5, <1>6, <1>7 DEF DeferInv

LEMMA BlockEndStep ==
    ASSUME DeferInv, BlockEnd
    PROVE  DeferInv'
  <1>0. TypeOK /\ ScopesOK /\ Compiling /\ UNCHANGED <<open, count>>
    BY DEF DeferInv, BlockEnd
  <1>1. /\ Len(open) \in Nat \ {0} /\ DOMAIN open = 1 .. Len(open) /\ Numbered = count
    BY <1>0, CompilingFacts
  <1>2. PICK t \in Nat : t = Len(open) - 1 /\ t < Len(open)
    <2>1. Len(open) - 1 \in Nat /\ Len(open) - 1 < Len(open)
      BY <1>1
    <2> QED BY <2>1
  <1>3. PICK body \in AllBodies, end \in Ids : body = "plain" /\ end = 0
    BY DEF AllBodies, Ids
  <1>4. exits' = <<NewExit(open, t, "block", end, body, {})>>
    BY <1>2, <1>3 DEF BlockEnd
  <1>5. exits' \in Seq(ExitRecords) /\ ExitsOK' /\ ProgressOK' /\ DoneOnTheWay' /\ Numbered' = count'
    BY <1>0, <1>2, <1>3, <1>4, StatementExit
  <1>6. ScopesOK'
    BY <1>0, <1>1, <1>5, SameScopes
  <1>7. TypeOK'
    BY <1>0, <1>5 DEF TypeOK, BlockEnd
  <1> QED BY <1>5, <1>6, <1>7 DEF DeferInv

LEMMA UnreachableStep ==
    ASSUME DeferInv, Unreachable
    PROVE  DeferInv'
  <1>0. TypeOK /\ ScopesOK /\ exits' = <<>> /\ UNCHANGED <<open, count>>
    BY DEF DeferInv, Unreachable
  <1>1. /\ Len(open) <= MaxOpen /\ Numbered = count /\ \A i \in DOMAIN open : open[i].processed = 0
    BY CompleteFacts DEF Unreachable
  <1>2. Numbered' = Numbered
    BY <1>0, <1>1 DEF Numbered
  <1>3. ScopesOK'
    BY <1>0, <1>2, SameScopes
  <1>4. TypeOK'
    <2>1. exits' \in Seq(ExitRecords)
      BY <1>0
    <2> QED BY <1>0, <2>1 DEF TypeOK, Unreachable
  <1> QED BY <1>0, <1>1, <1>3, <1>4, IdleInv

\* A construct is closed when nothing is marked as processed and no exit is in progress.
LEMMA ClosedStep ==
    ASSUME TypeOK, ScopesOK, open # <<>>, Len(open) <= MaxOpen, \A i \in DOMAIN open : open[i].processed = 0,
           NEW is_reachable \in BOOLEAN, Closed(is_reachable), exits' = <<>>, Numbered = count
    PROVE  DeferInv'
  <1>1. PICK n, m, c, rest : n = Len(open) /\ m = n - 1 /\ c = open[n] /\ rest = SubSeq(open, 1, n - 1)
    OBVIOUS
  <1>2. /\ open \in Seq(Constructs) /\ n \in Nat \ {0} /\ n \in DOMAIN open /\ DOMAIN open = 1 .. n
        /\ m \in Nat /\ c.end \in Ids
    BY <1>1, PointTypes, EmptySeq DEF TypeOK
  <1>3. /\ rest \in Seq(Constructs) /\ Len(rest) = m /\ DOMAIN rest = 1 .. m
        /\ \A i \in 1 .. m : rest[i] = open[i] /\ i \in DOMAIN open
    BY <1>1, <1>2, SubSeqProperties
  <1>4. PICK d : d = [Construct("if") EXCEPT !.end = c.end]
    OBVIOUS
  <1>5. d \in Constructs /\ d.processed = 0 /\ d.deferred = <<>>
    <2>1. handler \in Ids /\ 0 \in 0 .. MaxDefers /\ <<>> \in Seq(DeferredStatements)
      BY DEF TypeOK
    <2> QED BY <1>2, <1>4, <2>1 DEF Construct, Constructs
  <1>6. open' = IF c.kind = "if_else" THEN Append(rest, d) ELSE rest
    BY <1>1, <1>4 DEF Closed
  <1>7. PICK l : /\ l \in {m, n} /\ open' \in Seq(Constructs) /\ Len(open') = l /\ DOMAIN open' = 1 .. l
                 /\ \A i \in 1 .. m : open'[i] = open[i]
                 /\ l = n => open'[n] = d
    <2>1. CASE c.kind = "if_else"
      <3>1. open' = Append(rest, d)
        BY <1>6, <2>1
      <3>2. /\ open' \in Seq(Constructs) /\ Len(open') = m + 1 /\ DOMAIN open' = 1 .. (m + 1)
            /\ \A i \in 1 .. m : open'[i] = rest[i]
            /\ open'[m + 1] = d
        BY <1>3, <1>5, <3>1, AppendProperties, LenProperties
      <3>3. m + 1 = n
        BY <1>1, <1>2
      <3> QED BY <1>3, <3>2, <3>3
    <2>2. CASE c.kind # "if_else"
      <3>1. m # n
        BY <1>1, <1>2
      <3> QED BY <1>3, <1>6, <2>2, <3>1
    <2> QED BY <2>1, <2>2
  <1>8. count' = count /\ Numbered' = Numbered
    BY DEF Closed, Numbered
  <1>9. ASSUME NEW i \in DOMAIN open'
        PROVE  \/ i \in 1 .. m /\ i \in DOMAIN open /\ \A j \in 1 .. i : open'[j] = open[j]
               \/ i = n /\ l = n /\ open'[i] = d /\ DOMAIN open'[i].deferred = {}
    <2>1. CASE i \in 1 .. m
      <3>1. \A j \in 1 .. i : j \in 1 .. m
        BY <1>2, <2>1
      <3> QED BY <1>3, <1>7, <2>1, <3>1
    <2>2. CASE i = n /\ l = n
      BY <1>5, <1>7, <2>2
    <2> QED BY <1>1, <1>2, <1>7, <2>1, <2>2
  <1>10. ScopesOK'
    BY <1>8, <1>9, ResizedScopes
  <1>11. \A i \in DOMAIN open' : open'[i].processed = 0
    BY <1>5, <1>7, <1>9
  <1>12. block' \in Ids /\ reachable' \in BOOLEAN
    BY <1>1, <1>2 DEF Closed, TypeOK
  <1>13. TypeOK'
    BY <1>7, <1>12 DEF TypeOK, Closed
  <1>14. Len(open') <= MaxOpen
    BY <1>1, <1>2, <1>7
  <1> QED BY <1>10, <1>11, <1>13, <1>14, IdleInv

LEMMA CloseStep ==
    ASSUME DeferInv, Close
    PROVE  DeferInv'
  <1>0. TypeOK /\ ScopesOK
    BY DEF DeferInv
  <1>1. CASE /\ Compiling /\ ~reachable /\ Closed(FALSE) /\ UNCHANGED exits
    BY <1>0, <1>1, CompilingFacts, ClosedStep
  <1>2. CASE /\ exits # <<>> /\ Exit.pos = Exit.target /\ Exit.origin = "block"
             /\ Closed(~Exit.failed) /\ exits' = <<>>
    <2>1. PICK b \in BOOLEAN : b = ~Exit.failed
      OBVIOUS
    <2>2. Closed(b)
      BY <1>2, <2>1
    <2> QED BY <1>0, <1>2, <2>2, CompleteFacts, ClosedStep
  <1> QED BY <1>1, <1>2 DEF Close

-----------------------------------------------------------------------------
(* The theorem. *)

LEMMA InitDefer ==
    ASSUME Init
    PROVE  DeferInv
  <1>1. /\ open \in Seq(Constructs) /\ Len(open) = 1 /\ DOMAIN open = {1}
        /\ open[1].deferred = <<>> /\ open[1].processed = 0
    <2>1. 0 \in Ids /\ 0 \in 0 .. MaxDefers /\ <<>> \in Seq(DeferredStatements)
      BY DEF Ids
    <2>2. PICK c : c = [kind |-> "block", end |-> 0, original |-> 0, processed |-> 0, deferred |-> <<>>]
      OBVIOUS
    <2>3. c \in Constructs /\ c.deferred = <<>> /\ c.processed = 0
      BY <2>1, <2>2 DEF Constructs
    <2>4. open = <<c>>
      BY <2>2 DEF Init
    <2> HIDE DEF Constructs
    <2> QED BY <2>3, <2>4
  <1>2. TypeOK
    <2>1. <<>> \in Seq(ExitRecords) /\ 0 \in Ids
      BY DEF Ids
    <2> QED BY <1>1, <2>1 DEF TypeOK, Init
  <1>3. exits = <<>> /\ Len(exits) = 0 /\ DOMAIN exits = {} /\ count = 0
    BY DEF Init
  <1>4. ScopesOK
    BY <1>1, <1>3 DEF ScopesOK, Numbered
  <1>5. ExitsOK
    BY <1>1, <1>3 DEF ExitsOK
  <1>6. ProgressOK
    <2> DEFINE zero == [e \in 0 .. 0 |-> [i \in DOMAIN open |-> 0]]
    <2>1. PICK p : p \in [0 .. 0 -> [DOMAIN open -> Nat]] /\ \A i \in DOMAIN open : p[0][i] = 0
      <3>1. zero \in [0 .. 0 -> [DOMAIN open -> Nat]] /\ \A i \in DOMAIN open : zero[0][i] = 0
        OBVIOUS
      <3> QED BY <3>1
    <2>2. \A e \in 1 .. 0 : FALSE
      OBVIOUS
    <2>3. \A e \in 0 .. 0 : e = 0
      OBVIOUS
    <2>4. Restores(p)
      BY <1>1, <1>3, <2>1, <2>2, <2>3 DEF Restores, Size
    <2>5. Grows(p) /\ DoneOK(p) /\ RanOK(p)
      BY <1>3, <2>2 DEF Grows, DoneOK, RanOK
    <2> QED BY <2>4, <2>5 DEF ProgressOK
  <1>7. DoneOnTheWay
    BY <1>3 DEF DoneOnTheWay
  <1> QED BY <1>2, <1>4, <1>5, <1>6, <1>7 DEF DeferInv

LEMMA NextDefer ==
    ASSUME DeferInv, Next
    PROVE  DeferInv'
  BY DeferStep, EnterStep, LeaveEarlyStep, RunDeferredStep, LeaveScopeStep, ReturnToDeferredStep,
     DeferContinueStep, UnreachableStep, BlockEndStep, CloseStep DEF Next

LEMMA StutterDefer ==
    ASSUME DeferInv, UNCHANGED vars
    PROVE  DeferInv'
  <1>1. open' = open /\ exits' = exits /\ count' = count
    BY DEF vars
  <1>2. TypeOK'
    BY DEF DeferInv, TypeOK, vars
  <1>3. ScopesOK'
    BY <1>1, SameScopes DEF DeferInv, Numbered
  <1>4. ExitsOK'
    BY <1>1 DEF DeferInv, ExitsOK
  <1>5. PICK p : Restores(p) /\ Grows(p) /\ DoneOK(p) /\ RanOK(p)
    BY DEF DeferInv, ProgressOK
  <1>6. Restores(p)'
    BY <1>1, <1>5 DEF Restores, Inside, Size
  <1>7. Grows(p)' /\ DoneOK(p)' /\ RanOK(p)'
    BY <1>1, <1>5 DEF Grows, DoneOK, RanOK, Executed, Size, Id
  <1>8. DoneOnTheWay'
    BY <1>1 DEF DeferInv, DoneOnTheWay
  <1> QED BY <1>2, <1>3, <1>4, <1>6, <1>7, <1>8 DEF DeferInv, ProgressOK

\* What the innermost exit has executed, and what it has left to do.
LEMMA OrderLemma ==
    ASSUME DeferInv, AtDeferred
    PROVE  /\ NextDeferred.id = Innermost(Exit.ran \cup Exit.done)
           /\ NextDeferred.id \in Deferred \ (Exit.ran \cup Exit.done)
           /\ \A x \in Deferred \ (Exit.ran \cup Exit.done) : x <= NextDeferred.id
  <1>0. PICK S, n : S = Exit.ran \cup Exit.done /\ n = Len(exits)
    OBVIOUS
  <1>1. PICK P, r : P = Exit.pos /\ r = Remaining(P)
    OBVIOUS
  <1>2. /\ P \in DOMAIN open /\ ~Exit.failed /\ exits # <<>> /\ r \in DOMAIN open[P].deferred
        /\ r = Size(P) - open[P].processed /\ NextDeferred.id = Id(P, r) /\ Exit = exits[n]
        /\ n \in 1 .. Len(exits) /\ n \in Nat \ {0} /\ TypeOK /\ ScopesOK
    BY <1>0, <1>1, NextFacts, ExitFacts, PointTypes DEF DeferInv
  <1>3. P \in Nat /\ r \in Nat
    <2>1. /\ DOMAIN open = 1 .. Len(open) /\ DOMAIN open[P].deferred = 1 .. Size(P)
          /\ Len(open) \in Nat /\ Size(P) \in Nat
      BY <1>2, PointTypes
    <2> QED BY <1>2, <2>1
  <1>4. PICK p : Restores(p) /\ Grows(p) /\ DoneOK(p) /\ RanOK(p)
    BY DEF DeferInv, ProgressOK
  <1>5. /\ \A i \in DOMAIN open : p[n][i] = open[i].processed
        /\ \A i \in DOMAIN open : p[n - 1][i] <= p[n][i] /\ p[n - 1][i] \in Nat
        /\ \A i \in DOMAIN open : i # P => p[n - 1][i] = p[n][i]
    <2>1. \A i \in DOMAIN open : p[n][i] = open[i].processed
      BY <1>0, <1>4 DEF Restores
    <2>2. n - 1 \in 0 .. Len(exits)
      BY <1>2, PointTypes
    <2>3. \A i \in DOMAIN open : p[n - 1][i] \in Nat
      BY <1>4, <2>2 DEF Restores
    <2>4. \A i \in DOMAIN open : Inside(n, i) => i = P
      BY <1>1, <1>2 DEF Inside
    <2> QED BY <1>2, <1>4, <2>1, <2>3, <2>4 DEF Grows, Restores
  \* What has been executed, by this exit or by those around it.
  <1>s. ASSUME NEW i \in DOMAIN open, NEW k \in DOMAIN open[i].deferred
        PROVE  Id(i, k) \in S <=> i > P \/ k > Size(i) - open[i].processed
    <2>1. i \in Nat /\ k \in Nat /\ Size(i) \in Nat /\ open[i].processed \in Nat
      BY <1>2, PointTypes, SMTT(40)
    <2>2. /\ Id(i, k) \in Exit.done <=> k > Size(i) - p[n - 1][i]
          /\ Id(i, k) \in Exit.ran <=> Executed(n, P, i, k, p)
      BY <1>1, <1>2, <1>4 DEF DoneOK, RanOK
    <2>3. Executed(n, P, i, k, p) <=>
            ~(k > Size(i) - p[n - 1][i]) /\ (i > P \/ (i = P /\ k > Size(i) - open[i].processed))
      BY <1>5 DEF Executed
    <2>4. /\ k > Size(i) - p[n - 1][i] => k > Size(i) - open[i].processed
          /\ i # P => p[n - 1][i] = open[i].processed
      BY <1>5, <2>1
    <2> QED BY <1>0, <2>2, <2>3, <2>4
  <1>6. PICK d : d = NextDeferred.id /\ d = Id(P, r) /\ d \in Nat
    BY <1>2, PointTypes
  <1>7. d \in Deferred
    <2>1. d \in DeferredIn(P)
      BY <1>2, <1>6 DEF DeferredIn, Id
    <2> QED BY <1>2, <2>1 DEF Deferred
  <1>8. d \notin S
    <2>1. ~(P > P) /\ ~(r > Size(P) - open[P].processed)
      BY <1>2, <1>3
    <2> QED BY <1>2, <1>6, <1>s, <2>1
  <1>9. ASSUME NEW x \in Deferred \ S
        PROVE  x \in Nat /\ x <= d
    <2>0. PICK i \in DOMAIN open : x \in DeferredIn(i)
      BY DEF Deferred
    <2>1. PICK k \in DOMAIN open[i].deferred : x = Id(i, k)
      BY <2>0 DEF DeferredIn, Id
    <2>2. /\ i \in Nat /\ k \in Nat /\ P \in Nat /\ r \in Nat /\ x \in Nat /\ Size(i) \in Nat
          /\ open[i].processed \in Nat
      <3>1. i \in Nat /\ k \in Nat /\ Id(i, k) \in Nat /\ Size(i) \in Nat /\ open[i].processed \in Nat
        <4>1. /\ DOMAIN open = 1 .. Len(open) /\ DOMAIN open[i].deferred = 1 .. Size(i)
              /\ Len(open) \in Nat /\ Size(i) \in Nat
          BY <1>2, PointTypes
        <4>2. Id(i, k) \in Nat /\ open[i].processed \in Nat
          BY <1>2, PointTypes, SMTT(40)
        <4> QED BY <4>1, <4>2
      <3> QED BY <1>3, <2>1, <3>1
    <2>3. ~(i > P) /\ ~(k > Size(i) - open[i].processed)
      BY <1>9, <1>s, <2>1
    <2>4. CASE i < P
      BY <1>2, <1>6, <2>1, <2>2, <2>4 DEF ScopesOK
    <2>5. CASE i = P /\ k < r
      BY <1>2, <1>6, <2>1, <2>2, <2>5 DEF ScopesOK
    <2>6. CASE i = P /\ k = r
      BY <1>6, <2>1, <2>2, <2>6
    <2>7. i = P => k <= r
      BY <1>2, <2>2, <2>3
    <2> QED BY <2>2, <2>3, <2>4, <2>5, <2>6, <2>7
  <1>10. \A x \in Deferred \ S : (\A y \in Deferred \ S : y <= x) => x = d
    <2> SUFFICES ASSUME NEW x \in Deferred \ S, \A y \in Deferred \ S : y <= x
                 PROVE  x = d
      OBVIOUS
    <2>1. x \in Nat /\ x <= d /\ d <= x
      BY <1>7, <1>8, <1>9
    <2> QED BY <1>6, <2>1
  <1>11. Innermost(S) = CHOOSE x \in Deferred \ S : \A y \in Deferred \ S : y <= x
    BY <1>7, <1>8 DEF Innermost
  <1>12. \E x \in Deferred \ S : \A y \in Deferred \ S : y <= x
    BY <1>7, <1>8, <1>9
  <1> QED BY <1>0, <1>6, <1>7, <1>8, <1>9, <1>10, <1>11, <1>12

\* When an exit is complete, it has executed what it found in the scopes that it has left.
LEMMA CompleteLemma ==
    ASSUME DeferInv, exits # <<>>, Exit.pos = Exit.target, ~Exit.failed, NEW i \in DOMAIN open
    PROVE  DeferredIn(i) \cap Exit.ran = IF i > Exit.target THEN DeferredIn(i) \ Exit.done ELSE {}
  <1>1. PICK p, n : Restores(p) /\ Grows(p) /\ DoneOK(p) /\ RanOK(p) /\ n = Len(exits)
    BY DEF DeferInv, ProgressOK
  <1>2. n \in 1 .. Len(exits) /\ Exit = exits[n]
    BY <1>1, ExitFacts, PointTypes DEF DeferInv
  <1>3. p[n - 1][i] = p[n][i]
    <2>1. ~Inside(n, i)
      BY <1>2, ExitFacts DEF Inside
    <2> QED BY <1>1, <1>2, <2>1 DEF Restores
  <1>4. ASSUME NEW k \in DOMAIN open[i].deferred
        PROVE  /\ Id(i, k) \in Exit.done <=> k > Size(i) - p[n - 1][i]
               /\ Id(i, k) \in Exit.ran <=> ~(k > Size(i) - p[n - 1][i]) /\ i > Exit.target
    <2>1. /\ Id(i, k) \in Exit.done <=> k > Size(i) - p[n - 1][i]
          /\ Id(i, k) \in Exit.ran <=> Executed(n, Exit.pos, i, k, p)
      BY <1>1, <1>2 DEF DoneOK, RanOK
    <2> QED BY <1>3, <2>1 DEF Executed
  <1>5. \A x \in DeferredIn(i) : \E k \in DOMAIN open[i].deferred : x = Id(i, k)
    BY DEF DeferredIn, Id
  <1>6. \A x \in DeferredIn(i) : x \in Exit.ran <=> x \notin Exit.done /\ i > Exit.target
    BY <1>4, <1>5
  <1> QED BY <1>6

\* A scope exit of a function of any size, nested in others or not, compiles every deferred
\* statement of the scopes it leaves, each once and the innermost first, except those that the exits
\* around it have compiled of the scopes they are at, and leaves no progress behind
\* (compile_scope_exit and compile_scope_exit_until).
THEOREM ScopeExitsCorrect == Spec => []ScopeExits
  <1>1. Init => DeferInv
    BY InitDefer
  <1>2. DeferInv /\ [Next]_vars => DeferInv'
    BY NextDefer, StutterDefer
  <1>3. DeferInv => ScopeExits
    <2> SUFFICES ASSUME DeferInv PROVE ScopeExits
      OBVIOUS
    <2>1. TypeOK /\ DoneOnTheWay
      BY DEF DeferInv
    <2>2. ExitOrder
      BY OrderLemma DEF ExitOrder
    <2>3. ExitComplete
      BY CompleteLemma DEF ExitComplete
    <2>4. ProgressRestored
      BY IdleProcessed DEF ProgressRestored, Compiling
    <2> QED BY <2>1, <2>2, <2>3, <2>4 DEF ScopeExits
  <1> QED BY <1>1, <1>2, <1>3, PTL DEF Spec

-----------------------------------------------------------------------------
(* Handlers, as long as no scope has been left early. *)

\* Deferred statement l of construct j comes before statement n + 1 of construct i.
Before(j, l, i, n) == j < i \/ (j = i /\ l <= n)

\* h is the innermost deferred statement before statement n + 1 of construct i, or 0.
Inner(h, i, n) ==
    /\ \/ h = 0
       \/ \E j \in DOMAIN open : \E l \in DOMAIN open[j].deferred : Before(j, l, i, n) /\ h = Id(j, l)
    /\ \A j \in DOMAIN open : \A l \in DOMAIN open[j].deferred : Before(j, l, i, n) => Id(j, l) <= h

\* The constructs and their deferred statements have been compiled under the innermost handler.
ScopeHandlers ==
    \A i \in DOMAIN open :
        /\ Inner(open[i].original, i, 0) /\ Inner(open[i].end, i, 0)
        /\ \A k \in DOMAIN open[i].deferred :
              open[i].deferred[k].body = "plain" /\ Inner(open[i].deferred[k].handler, i, k - 1)

\* The only scope exit is that of the innermost block; it runs through the handlers in
\* reverse and ends with the one from before the block.
EndOfBlock ==
    /\ Len(exits) = 1 /\ Exit.origin = "block" /\ ~Exit.failed /\ Exit.target = Len(open) - 1
    /\ IF Exit.pos = Len(open) THEN Inner(block, Len(open), Remaining(Len(open)))
       ELSE Inner(handler, Len(open), 0) /\ Inner(block, Len(open), 0)

HandlersOK ==
    ~early =>
        /\ reachable
        /\ ScopeHandlers
        /\ exits = <<>> => Inner(handler, Len(open) + 1, 0) /\ Inner(block, Len(open) + 1, 0)
        /\ exits # <<>> => EndOfBlock

\* What is before a point is all that matters.
LEMMA InnerKept ==
    ASSUME NEW h, NEW i, NEW n, NEW i2, NEW n2, Inner(h, i, n),
           \A j \in DOMAIN open' : \A l \in DOMAIN open'[j].deferred : Before(j, l, i2, n2) =>
              /\ j \in DOMAIN open /\ l \in DOMAIN open[j].deferred
              /\ Before(j, l, i, n) /\ Id(j, l)' = Id(j, l),
           \A j \in DOMAIN open : \A l \in DOMAIN open[j].deferred : Before(j, l, i, n) =>
              /\ j \in DOMAIN open' /\ l \in DOMAIN open'[j].deferred
              /\ Before(j, l, i2, n2) /\ Id(j, l)' = Id(j, l)
    PROVE  Inner(h, i2, n2)'
  <1>1. \/ h = 0
        \/ \E j \in DOMAIN open' : \E l \in DOMAIN open'[j].deferred : Before(j, l, i2, n2) /\ h = Id(j, l)'
    BY DEF Inner
  <1>2. \A j \in DOMAIN open' : \A l \in DOMAIN open'[j].deferred : Before(j, l, i2, n2) => Id(j, l)' <= h
    BY DEF Inner
  <1>3. \A j, l : Before(j, l, i2, n2)' <=> Before(j, l, i2, n2)
    BY DEF Before
  <1> QED BY <1>1, <1>2, <1>3 DEF Inner

\* Steps that leave the deferred statements alone.
LEMMA InnerSame ==
    ASSUME DOMAIN open' = DOMAIN open, \A i \in DOMAIN open : open'[i].deferred = open[i].deferred,
           NEW h, NEW i, NEW n, Inner(h, i, n)
    PROVE  Inner(h, i, n)'
  <1>1. \A j \in DOMAIN open : \A l : Id(j, l)' = Id(j, l)
    BY DEF Id
  <1> QED BY <1>1, InnerKept

\* A construct whose deferred statements and handlers stay.
LEMMA ConstructKept ==
    ASSUME TypeOK, ScopeHandlers, NEW i \in DOMAIN open,
           open'[i].original = open[i].original, open'[i].end = open[i].end,
           \A k \in DOMAIN open[i].deferred : open'[i].deferred[k] = open[i].deferred[k],
           \A x : \A m \in 0 .. Size(i) : Inner(x, i, m) => Inner(x, i, m)'
    PROVE  /\ Inner(open[i].original, i, 0)' /\ Inner(open[i].end, i, 0)'
           /\ \A k \in DOMAIN open[i].deferred :
                 /\ open'[i].deferred[k].body = "plain"
                 /\ Inner(open[i].deferred[k].handler, i, k - 1)'
  <1>1. PICK o, e : o = open[i].original /\ e = open[i].end
    OBVIOUS
  <1>2. o = open'[i].original /\ e = open'[i].end
    BY <1>1
  <1>3. Inner(o, i, 0) /\ Inner(e, i, 0)
    BY <1>1 DEF ScopeHandlers
  <1>4. Size(i) \in Nat /\ DOMAIN open[i].deferred = 1 .. Size(i)
    BY PointTypes
  <1>5. 0 \in 0 .. Size(i)
    BY <1>4
  <1>6. Inner(o, i, 0)' /\ Inner(e, i, 0)'
    BY <1>3, <1>5
  <1>7. ASSUME NEW k \in DOMAIN open[i].deferred
        PROVE  open'[i].deferred[k].body = "plain" /\ Inner(open[i].deferred[k].handler, i, k - 1)'
    <2>1. PICK x, m : x = open[i].deferred[k].handler /\ m = k - 1
      OBVIOUS
    <2>2. Inner(x, i, m) /\ open[i].deferred[k].body = "plain"
      BY <2>1 DEF ScopeHandlers
    <2>3. m \in 0 .. Size(i)
      BY <1>4, <2>1
    <2>4. Inner(x, i, m)'
      BY <2>2, <2>3
    <2>5. x = open'[i].deferred[k].handler
      BY <2>1
    <2> QED BY <2>1, <2>2, <2>4, <2>5
  <1> QED BY <1>2, <1>6, <1>7

LEMMA SameHandlers ==
    ASSUME TypeOK, DOMAIN open' = DOMAIN open, ScopeHandlers,
           \A i \in DOMAIN open : /\ open'[i].deferred = open[i].deferred
                                 /\ open'[i].original = open[i].original /\ open'[i].end = open[i].end
    PROVE  ScopeHandlers'
  <1>1. ASSUME NEW i \in DOMAIN open
        PROVE  /\ Inner(open[i].original, i, 0)' /\ Inner(open[i].end, i, 0)'
               /\ \A k \in DOMAIN open[i].deferred :
                     /\ open'[i].deferred[k].body = "plain"
                     /\ Inner(open[i].deferred[k].handler, i, k - 1)'
    <2>1. \A x, m : Inner(x, i, m) => Inner(x, i, m)'
      BY InnerSame
    <2> QED BY <2>1, ConstructKept
  <1> QED BY <1>1 DEF ScopeHandlers

\* Types of the numbers of constructs and of their deferred statements.
LEMMA Positions ==
    ASSUME TypeOK, NEW j \in DOMAIN open, NEW l \in DOMAIN open[j].deferred
    PROVE  j \in Nat /\ l \in Nat /\ j >= 1 /\ l >= 1 /\ j <= Len(open) /\ l <= Size(j) /\ Len(open) \in Nat
  <1>1. /\ DOMAIN open = 1 .. Len(open) /\ DOMAIN open[j].deferred = 1 .. Size(j)
        /\ Len(open) \in Nat /\ Size(j) \in Nat
    BY PointTypes
  <1> QED BY <1>1

LEMMA OnlyExit ==
    ASSUME TypeOK, Len(exits) = 1, NEW x \in ExitRecords, exits' = [exits EXCEPT ![1] = x]
    PROVE  Len(exits') = 1 /\ exits'[1] = x /\ exits' # <<>> /\ Exit' = x
  <1>0. DOMAIN exits = 1 .. 1 /\ DOMAIN <<>> = {}
    BY PointTypes
  <1>1. exits # <<>> /\ 1 \in DOMAIN exits
    BY ONLY <1>0
  <1>2. exits' \in Seq(ExitRecords) /\ Len(exits') = 1 /\ exits'[1] = x
    BY <1>1, ExitUpdate
  <1> QED BY <1>2 DEF Exit

LEMMA RunDeferredHandlers ==
    ASSUME DeferInv, HandlersOK, RunDeferred
    PROVE  HandlersOK'
  <1> SUFFICES ASSUME ~early' PROVE HandlersOK'
    BY DEF HandlersOK
  <1>1. /\ ~early /\ reachable' = reachable /\ exits # <<>> /\ AtDeferred /\ EndOfBlock /\ ScopeHandlers
        /\ reachable
    BY DEF RunDeferred, HandlersOK, AtDeferred
  <1>2. PICK L, r, v : L = Len(open) /\ r = Remaining(L) /\ v = open[L].processed + 1
    OBVIOUS
  <1>3. /\ Exit.pos = L /\ L \in DOMAIN open /\ L \in Nat /\ TypeOK
        /\ Exit.target = L - 1 /\ Len(exits) = 1 /\ Exit.origin = "block" /\ Exit = exits[1]
    <2>1. L \in Nat /\ Exit.pos \in 0 .. L /\ Exit.pos > Exit.target /\ Exit.pos \in DOMAIN open
      BY <1>1, <1>2, ExitFacts, NextFacts DEF AtDeferred
    <2>2. Exit.target = L - 1 /\ Len(exits) = 1 /\ Exit.origin = "block"
      BY <1>1, <1>2 DEF EndOfBlock
    <2>3. Exit = exits[1]
      BY <1>1, <2>2, ExitFacts
    <2> QED BY <2>1, <2>2, <2>3 DEF DeferInv
  <1>4. /\ r \in DOMAIN open[L].deferred /\ r \in 1 .. Size(L) /\ r = Size(L) - open[L].processed
        /\ NextDeferred = open[L].deferred[r] /\ v \in 0 .. MaxDefers /\ Size(L) \in Nat
        /\ open[L].processed \in Nat
    BY <1>1, <1>2, <1>3, NextFacts, PointTypes
  <1>5. open' = [open EXCEPT ![L] = [open[L] EXCEPT !.processed = v]]
    BY <1>2, <1>3 DEF RunDeferred, progress
  <1>6. /\ Len(open') = L /\ DOMAIN open' = DOMAIN open /\ open'[L].processed = v
        /\ \A i \in DOMAIN open :
              /\ open'[i].deferred = open[i].deferred
              /\ open'[i].original = open[i].original /\ open'[i].end = open[i].end
    <2>1. TypeOK /\ L \in DOMAIN open /\ v \in 0 .. MaxDefers /\ L = Len(open)
      BY <1>2, <1>3, <1>4
    <2>2. /\ Len(open') = L /\ DOMAIN open' = DOMAIN open
          /\ \A i \in DOMAIN open :
                /\ open'[i].processed = IF i = L THEN v ELSE open[i].processed
                /\ open'[i].deferred = open[i].deferred
                /\ open'[i].original = open[i].original /\ open'[i].end = open[i].end
      BY <1>5, <2>1, ProcessedUpdate
    <2> QED BY <2>1, <2>2
  <1>7. ScopeHandlers'
    BY <1>1, <1>3, <1>6, SameHandlers
  <1>8. PICK h : h = open[L].deferred[r].handler
    OBVIOUS
  <1>9. Inner(h, L, r - 1)
    BY <1>1, <1>3, <1>4, <1>8 DEF ScopeHandlers
  <1>10. PICK m : m = r - 1
    OBVIOUS
  <1>11. Inner(h, L, m)'
    BY <1>6, <1>9, <1>10, InnerSame
  <1>12. Remaining(L)' = m
    <2>1. open'[L].deferred = open[L].deferred
      BY <1>3, <1>6
    <2>2. Len(open'[L].deferred) = Size(L)
      BY <2>1 DEF Size
    <2>3. Size(L) - v = m
      BY <1>2, <1>4, <1>10
    <2> QED BY <1>6, <2>2, <2>3 DEF Remaining
  <1>13. block' = h
    BY <1>4, <1>8 DEF RunDeferred
  <1>14. NextDeferred.body = "plain"
    BY <1>1, <1>3, <1>4 DEF ScopeHandlers
  <1>15. PICK x : /\ exits' = [exits EXCEPT ![1] = x] /\ x.pos = Exit.pos /\ x.target = Exit.target
                  /\ x.origin = Exit.origin /\ x.failed = Exit.failed /\ x \in ExitRecords
    <2>1. PICK ran \in SUBSET Ids : ran = Exit.ran \cup {NextDeferred.id}
      <3>1. NextDeferred.id \in Ids /\ Exit.ran \subseteq Ids
        BY <1>1, NextFacts, ExitFacts DEF ExitRecords
      <3> QED BY <3>1
    <2>2. PICK x : x = [Exit EXCEPT !.ran = ran]
      OBVIOUS
    <2>3. exits' = [exits EXCEPT ![Len(exits)].ran = ran]
      BY <1>14, <2>1 DEF RunDeferred, CompileBody
    <2>4. exits' = [exits EXCEPT ![1] = x]
      BY <1>3, <2>2, <2>3
    <2>5. Exit \in ExitRecords
      BY <1>1, ExitFacts
    <2>6. /\ x.pos = Exit.pos /\ x.target = Exit.target /\ x.origin = Exit.origin
          /\ x.failed = Exit.failed /\ x \in ExitRecords
      BY <2>1, <2>2, <2>5 DEF ExitRecords
    <2> QED BY <2>4, <2>6
  <1>16. Len(exits') = 1 /\ exits'[1] = x /\ exits' # <<>>
    BY <1>3, <1>15, OnlyExit
  <1>17. Exit' = x
    BY <1>3, <1>15, OnlyExit
  <1>18. EndOfBlock'
    <2>1. /\ Len(exits') = 1 /\ Exit'.origin = "block" /\ ~Exit'.failed /\ Exit'.target = Len(open') - 1
          /\ Exit'.pos = Len(open') /\ L = Len(open')
      BY <1>1, <1>3, <1>6, <1>15, <1>16, <1>17 DEF EndOfBlock
    <2> QED BY <1>11, <1>12, <1>13, <2>1 DEF EndOfBlock
  <1> QED BY <1>1, <1>7, <1>16, <1>18 DEF HandlersOK

LEMMA LeaveScopeHandlers ==
    ASSUME DeferInv, HandlersOK, LeaveScope
    PROVE  HandlersOK'
  <1> SUFFICES ASSUME ~early' PROVE HandlersOK'
    BY DEF HandlersOK
  <1>1. ~early /\ reachable' = reachable /\ reachable /\ exits # <<>> /\ EndOfBlock /\ ScopeHandlers
    BY DEF LeaveScope, HandlersOK
  <1>2. PICK L : L = Len(open)
    OBVIOUS
  <1>3. /\ Exit.pos = L /\ L \in DOMAIN open /\ L \in Nat \ {0} /\ TypeOK /\ Exit.pos > Exit.target
        /\ Exit.target = L - 1 /\ Len(exits) = 1 /\ Exit.origin = "block" /\ Exit = exits[1]
        /\ ~Exit.failed /\ Exit \in ExitRecords /\ Exit.initial \in 0 .. MaxDefers
    <2>1. /\ L \in Nat /\ Exit.pos \in 0 .. L /\ Exit.pos > Exit.target /\ Exit.pos \in DOMAIN open
          /\ Exit.target \in Nat /\ Exit \in ExitRecords /\ DOMAIN open = 1 .. L
      BY <1>1, <1>2, ExitFacts, PointTypes DEF LeaveScope, DeferInv
    <2>2. Exit.target = L - 1 /\ Len(exits) = 1 /\ Exit.origin = "block" /\ ~Exit.failed
      BY <1>1, <1>2 DEF EndOfBlock
    <2>3. Exit = exits[1]
      BY <1>1, <2>2, ExitFacts
    <2> QED BY <2>1, <2>2, <2>3 DEF DeferInv, ExitRecords
  <1>4. /\ Len(open') = L /\ DOMAIN open' = DOMAIN open
        /\ \A i \in DOMAIN open :
              /\ open'[i].deferred = open[i].deferred
              /\ open'[i].original = open[i].original /\ open'[i].end = open[i].end
    <2>1. open' = [open EXCEPT ![L] = [open[L] EXCEPT !.processed = Exit.initial]]
      BY <1>3 DEF LeaveScope
    <2> QED BY <1>2, <1>3, <2>1, ProcessedUpdate
  <1>5. ScopeHandlers'
    BY <1>1, <1>3, <1>4, SameHandlers
  <1>6. PICK h, b : h = open[L].original /\ b = block
    OBVIOUS
  <1>7. Inner(h, L, 0) /\ Inner(b, L, 0)
    <2>1. Inner(h, L, 0)
      BY <1>1, <1>3, <1>6 DEF ScopeHandlers
    <2>2. Remaining(L) = 0
      BY <1>3 DEF LeaveScope
    <2> QED BY <1>1, <1>2, <1>3, <1>6, <2>1, <2>2 DEF EndOfBlock
  <1>8. Inner(h, L, 0)' /\ Inner(b, L, 0)'
    BY <1>4, <1>7, InnerSame
  <1>9. handler' = h /\ block' = b
    BY <1>3, <1>6 DEF LeaveScope, restored_handler
  <1>10. PICK i0 \in 0 .. MaxDefers : i0 = IF L - 1 > 0 THEN open[L - 1].processed ELSE 0
    <2>1. L - 1 > 0 => L - 1 \in DOMAIN open
      BY <1>2, <1>3, PointTypes
    <2> QED BY <1>3, <2>1, PointTypes
  <1>11. PICK x : /\ exits' = [exits EXCEPT ![1] = x] /\ x.pos = L - 1 /\ x.target = Exit.target
                  /\ x.origin = Exit.origin /\ x.failed = Exit.failed /\ x \in ExitRecords
    <2>1. PICK x : x = [Exit EXCEPT !.pos = L - 1, !.initial = i0]
      OBVIOUS
    <2>2. exits' = [exits EXCEPT ![Len(exits)] = [@ EXCEPT !.pos = L - 1, !.initial = i0]]
      BY <1>3, <1>10 DEF LeaveScope
    <2>3. exits' = [exits EXCEPT ![1] = x]
      BY <1>3, <2>1, <2>2
    <2>4. L - 1 \in 0 .. MaxOpen
      BY <1>2, <1>3 DEF DeferInv, ExitsOK
    <2>5. /\ x.pos = L - 1 /\ x.target = Exit.target /\ x.origin = Exit.origin
          /\ x.failed = Exit.failed /\ x \in ExitRecords
      BY <1>3, <1>10, <2>1, <2>4 DEF ExitRecords
    <2> QED BY <2>3, <2>5
  <1>12. Len(exits') = 1 /\ exits'[1] = x /\ exits' # <<>>
    BY <1>3, <1>11, OnlyExit
  <1>13. Exit' = x
    BY <1>3, <1>11, OnlyExit
  <1>14. EndOfBlock'
    <2>1. /\ Len(exits') = 1 /\ Exit'.origin = "block" /\ ~Exit'.failed /\ Exit'.target = Len(open') - 1
          /\ Exit'.pos # Len(open') /\ L = Len(open')
      BY <1>3, <1>4, <1>11, <1>12, <1>13
    <2> QED BY <1>8, <1>9, <2>1 DEF EndOfBlock
  <1> QED BY <1>1, <1>5, <1>12, <1>14 DEF HandlersOK

LEMMA BlockEndHandlers ==
    ASSUME DeferInv, HandlersOK, BlockEnd
    PROVE  HandlersOK'
  <1> SUFFICES ASSUME ~early' PROVE HandlersOK'
    BY DEF HandlersOK
  <1>1. PICK L, b : L = Len(open) /\ b = block
    OBVIOUS
  <1>2. /\ ~early /\ reachable' = reachable /\ reachable /\ exits = <<>> /\ open' = open /\ block' = b
        /\ L \in Nat \ {0} /\ L \in DOMAIN open /\ open[L].processed = 0 /\ ScopeHandlers /\ TypeOK
        /\ Inner(b, L + 1, 0)
    BY <1>1, CompilingFacts DEF BlockEnd, HandlersOK, DeferInv
  <1>3. PICK r : r = Remaining(L) /\ r = Size(L) /\ r \in Nat
    <2>1. Size(L) \in Nat
      BY <1>2, PointTypes
    <2> QED BY <1>2, <2>1 DEF Remaining, Size
  <1>4. ASSUME NEW j \in DOMAIN open, NEW l \in DOMAIN open[j].deferred
        PROVE  Before(j, l, L + 1, 0) /\ Before(j, l, L, r)
    <2>1. j \in Nat /\ l \in Nat /\ j <= L /\ l <= Size(j)
      BY <1>1, <1>2, Positions
    <2> QED BY <1>2, <1>3, <2>1 DEF Before
  <1>5. Inner(b, L, r)'
    <2>1. \A j \in DOMAIN open : \A l : Id(j, l)' = Id(j, l)
      BY <1>2 DEF Id
    <2> QED BY <1>2, <1>4, <2>1, InnerKept
  <1>6. ScopeHandlers'
    BY <1>2, SameHandlers
  <1>7. PICK x : x = NewExit(open, Len(open) - 1, "block", 0, "plain", {})
    OBVIOUS
  <1>8. exits' = <<x>> /\ x.pos = L /\ x.target = L - 1 /\ x.origin = "block" /\ x.failed = FALSE
    BY <1>1, <1>7 DEF BlockEnd, NewExit
  <1>9. Len(exits') = 1 /\ exits'[1] = x /\ exits' # <<>> /\ Exit' = x
    BY <1>8 DEF Exit
  <1>10. Remaining(L)' = r
    BY <1>2, <1>3 DEF Remaining
  <1>11. EndOfBlock'
    BY <1>1, <1>2, <1>5, <1>8, <1>9, <1>10 DEF EndOfBlock
  <1> QED BY <1>2, <1>6, <1>9, <1>11 DEF HandlersOK

LEMMA EnterHandlers ==
    ASSUME DeferInv, HandlersOK, NEW kind \in {"block", "if", "if_else", "loop"}, Enter(kind)
    PROVE  HandlersOK'
  <1> SUFFICES ASSUME ~early' PROVE HandlersOK'
    BY DEF HandlersOK
  <1>1. PICK n, h, b, c : n = Len(open) /\ h = handler /\ b = block' /\ c = Construct(kind)
    OBVIOUS
  <1>2. /\ ~early /\ reachable' = reachable /\ reachable /\ exits = <<>> /\ exits' = <<>> /\ handler' = h
        /\ n \in Nat \ {0} /\ DOMAIN open = 1 .. n /\ ScopeHandlers /\ TypeOK
        /\ Inner(h, n + 1, 0) /\ Inner(b, n + 1, 0)
    <2>1. Compiling /\ ~early /\ block' \in {block, handler}
      BY DEF Enter
    <2>2. Inner(handler, n + 1, 0) /\ Inner(block, n + 1, 0) /\ reachable /\ ScopeHandlers
      BY <1>1, <2>1 DEF HandlersOK, Compiling
    <2> QED BY <1>1, <2>1, <2>2, CompilingFacts DEF Enter, DeferInv
  <1>3. c.original = h /\ c.end = h /\ c.deferred = <<>> /\ c \in Constructs
    <2>1. handler \in Ids /\ 0 \in 0 .. MaxDefers /\ <<>> \in Seq(DeferredStatements)
      BY <1>2 DEF TypeOK
    <2> QED BY <1>1, <2>1 DEF Construct, Constructs
  <1>4. /\ Len(open') = n + 1 /\ DOMAIN open' = 1 .. (n + 1)
        /\ open'[n + 1] = c /\ \A i \in 1 .. n : open'[i] = open[i]
    <2>1. open' = Append(open, c) /\ open \in Seq(Constructs)
      BY <1>1, <1>2 DEF Enter, TypeOK
    <2> QED BY <1>1, <1>3, <2>1, AppendProperties, LenProperties
  <1>5. PICK n2 : n2 = n + 1 /\ n2 \in Nat
    BY <1>2
  <1>6. ASSUME NEW j \in DOMAIN open', NEW l \in DOMAIN open'[j].deferred
        PROVE  /\ j \in DOMAIN open /\ l \in DOMAIN open[j].deferred /\ Id(j, l)' = Id(j, l) /\ j < n2 /\ j < n2 + 1
    <2>1. CASE j = n + 1
      BY <1>3, <1>4, <2>1
    <2>2. CASE j \in 1 .. n
      BY <1>2, <1>4, <1>5, <2>2 DEF Id
    <2> QED BY <1>2, <1>4, <2>1, <2>2
  <1>7. ASSUME NEW j \in DOMAIN open, NEW l \in DOMAIN open[j].deferred
        PROVE  /\ j \in DOMAIN open' /\ l \in DOMAIN open'[j].deferred /\ Id(j, l)' = Id(j, l) /\ j < n2 /\ j < n2 + 1
    BY <1>2, <1>4, <1>5 DEF Id
  <1>8. ASSUME NEW x, Inner(x, n2, 0)
        PROVE  Inner(x, n2, 0)' /\ Inner(x, n2 + 1, 0)'
    BY <1>6, <1>7, <1>8, InnerKept DEF Before
  <1>9. Inner(h, n2 + 1, 0)' /\ Inner(b, n2 + 1, 0)' /\ Inner(h, n2, 0)'
    BY <1>2, <1>5, <1>8
  <1>10. ASSUME NEW i \in 1 .. n, NEW m \in Nat, NEW x, Inner(x, i, m)
         PROVE  Inner(x, i, m)'
    BY <1>6, <1>7, <1>10, InnerKept
  <1>11. ScopeHandlers'
    <2> SUFFICES ASSUME NEW i \in DOMAIN open'
                 PROVE  /\ Inner(open[i].original, i, 0)' /\ Inner(open[i].end, i, 0)'
                        /\ \A k \in DOMAIN open'[i].deferred :
                              /\ open'[i].deferred[k].body = "plain"
                              /\ Inner(open[i].deferred[k].handler, i, k - 1)'
      BY DEF ScopeHandlers
    <2>1. CASE i = n2
      <3>1. open'[i] = c /\ DOMAIN open'[i].deferred = {}
        BY <1>3, <1>4, <1>5, <2>1
      <3> QED BY <1>3, <1>9, <2>1, <3>1
    <2>2. CASE i \in 1 .. n
      <3>1. open'[i] = open[i] /\ i \in DOMAIN open
        BY <1>2, <1>4, <2>2
      <3>2. Size(i) \in Nat
        BY <1>2, <3>1, PointTypes
      <3>3. \A x : \A m \in 0 .. Size(i) : Inner(x, i, m) => Inner(x, i, m)'
        BY <1>10, <2>2, <3>2
      <3> QED BY <1>2, <3>1, <3>3, ConstructKept
    <2> QED BY <1>2, <1>4, <1>5, <2>1, <2>2
  <1>12. Len(open') = n2
    BY <1>4, <1>5
  <1> QED BY <1>1, <1>2, <1>9, <1>11, <1>12 DEF HandlersOK

LEMMA DeferHandlers ==
    ASSUME DeferInv, HandlersOK, NEW body \in Bodies, Defer(body)
    PROVE  HandlersOK'
  <1> SUFFICES ASSUME ~early' PROVE HandlersOK'
    BY DEF HandlersOK
  <1>1. PICK L, h, d, s : /\ L = Len(open) /\ h = handler /\ d = count' /\ s = Size(L)
    OBVIOUS
  <1>2. /\ ~early /\ body = "plain" /\ reachable' = reachable /\ exits = <<>> /\ exits' = <<>>
        /\ remember(open, handler, body) /\ TypeOK /\ ScopesOK /\ reachable /\ ScopeHandlers
        /\ L \in Nat \ {0} /\ DOMAIN open = 1 .. L /\ L \in DOMAIN open /\ d = count + 1
        /\ Numbered = count /\ count \in Nat /\ Inner(h, L + 1, 0)
    <2>1. Compiling /\ ~early /\ body = "plain"
      BY DEF Defer
    <2>2. /\ exits = <<>> /\ exits' = <<>> /\ remember(open, handler, body) /\ d = count + 1
          /\ reachable' = reachable
      BY <1>1, <2>1 DEF Defer, Compiling
    <2>3. Inner(handler, L + 1, 0) /\ reachable /\ ScopeHandlers
      BY <1>1, <2>1 DEF HandlersOK, Compiling
    <2>4. count \in Nat
      BY DEF DeferInv, TypeOK, Ids
    <2> QED BY <1>1, <2>1, <2>2, <2>3, <2>4, CompilingFacts DEF DeferInv
  <1>3. PICK e, ds : e = [id |-> d, body |-> body, handler |-> h] /\ ds = Append(open[L].deferred, e)
    OBVIOUS
  <1>4. s \in Nat /\ DOMAIN open[L].deferred = 1 .. s /\ open[L].deferred \in Seq(DeferredStatements)
    BY <1>1, <1>2, PointTypes
  <1>5. e \in DeferredStatements /\ e.id = d /\ e.body = body /\ e.handler = h
    <2>1. d \in Ids /\ h \in Ids /\ body \in AllBodies
      BY <1>1, <1>2 DEF Ids, TypeOK, AllBodies, Defer
    <2> QED BY <1>3, <2>1 DEF DeferredStatements
  <1>6. /\ DOMAIN ds = 1 .. (s + 1) /\ ds[s + 1] = e /\ \A k \in 1 .. s : ds[k] = open[L].deferred[k]
    BY <1>1, <1>3, <1>4, <1>5, AppendProperties, LenProperties DEF Size
  <1>7. /\ DOMAIN open' = DOMAIN open /\ Len(open') = L /\ open'[L].deferred = ds
        /\ open'[L].original = open[L].original /\ open'[L].end = open[L].end
        /\ \A i \in DOMAIN open : i # L => open'[i] = open[i]
    <2>1. PICK c : c = [open[L] EXCEPT !.deferred = ds]
      OBVIOUS
    <2>2. open[L] \in Constructs /\ open \in Seq(Constructs)
      BY <1>2, PointTypes DEF TypeOK
    <2>3. c.deferred = ds /\ c.original = open[L].original /\ c.end = open[L].end
      BY <2>1, <2>2 DEF Constructs
    <2>4. open' = [open EXCEPT ![L] = c]
      <3>1. open' = [open EXCEPT ![L].deferred = Append(@, e)]
        BY <1>1, <1>2, <1>3 DEF remember
      <3> QED BY <1>2, <1>3, <2>1, <3>1
    <2>5. DOMAIN open' = DOMAIN open /\ open'[L] = c /\ \A i \in DOMAIN open : i # L => open'[i] = open[i]
      BY <1>2, <2>4
    <2>6. Len(open') = L
      BY <1>1, <2>2, <2>4
    <2> QED BY <2>3, <2>5, <2>6
  <1>8. handler' = d /\ block' = d
    BY <1>1, <1>2 DEF remember
  <1>9. ASSUME NEW j \in DOMAIN open, NEW l \in DOMAIN open[j].deferred
        PROVE  /\ l \in DOMAIN open'[j].deferred /\ open'[j].deferred[l] = open[j].deferred[l]
               /\ Id(j, l)' = Id(j, l) /\ Id(j, l) < d /\ (j < L \/ (j = L /\ l <= s)) /\ j < L + 1
    <2>1. CASE j = L
      <3>1. l \in 1 .. s /\ l \in 1 .. (s + 1) /\ ds[l] = open[L].deferred[l]
        BY <1>4, <1>6, <2>1
      <3>2. Id(j, l) \in l .. Numbered
        BY <1>2 DEF ScopesOK
      <3>3. Id(j, l) < d
        BY <1>2, <3>1, <3>2
      <3> QED BY <1>2, <1>4, <1>6, <1>7, <2>1, <3>1, <3>3 DEF Id
    <2>2. CASE j # L
      <3>1. open'[j] = open[j] /\ j < L /\ j < L + 1
        BY <1>2, <1>7, <2>2
      <3>2. Id(j, l) \in l .. Numbered /\ l \in Nat
        BY <1>2, Positions DEF ScopesOK
      <3> QED BY <1>2, <3>1, <3>2 DEF Id
    <2> QED BY <2>1, <2>2
  <1>10. ASSUME NEW j \in DOMAIN open', NEW l \in DOMAIN open'[j].deferred
         PROVE  \/ l \in DOMAIN open[j].deferred
                \/ j = L /\ l = s + 1 /\ Id(j, l)' = d
    <2>1. CASE j = L
      <3>1. l \in 1 .. (s + 1)
        BY <1>6, <1>7, <2>1
      <3>2. l \in 1 .. s \/ l = s + 1
        BY <1>4, <3>1
      <3> QED BY <1>4, <1>5, <1>6, <1>7, <2>1, <3>2 DEF Id
    <2>2. CASE j # L
      BY <1>7, <2>2
    <2> QED BY <2>1, <2>2
  <1>11. ASSUME NEW i \in DOMAIN open, NEW m \in 0 .. Size(i), NEW x, Inner(x, i, m)
         PROVE  Inner(x, i, m)'
    <2>1. ASSUME NEW j \in DOMAIN open', NEW l \in DOMAIN open'[j].deferred, Before(j, l, i, m)
          PROVE  j \in DOMAIN open /\ l \in DOMAIN open[j].deferred /\ Id(j, l)' = Id(j, l)
      <3>1. ~(j = L /\ l = s + 1)
        <4>1. i \in 1 .. L /\ (i = L => m <= s) /\ m \in Nat
          BY <1>1, <1>2, PointTypes
        <4> QED BY <1>2, <1>4, <2>1, <4>1 DEF Before
      <3> QED BY <1>7, <1>9, <1>10, <3>1
    <2> QED BY <1>7, <1>9, <1>11, <2>1, InnerKept
  <1>12. Inner(d, L + 1, 0)'
    <2>1. s + 1 \in DOMAIN open'[L].deferred /\ d = Id(L, s + 1)' /\ Before(L, s + 1, L + 1, 0)
      BY <1>2, <1>4, <1>5, <1>6, <1>7 DEF Before, Id
    <2>2. \A j \in DOMAIN open' : \A l \in DOMAIN open'[j].deferred : Id(j, l)' <= d
      <3> SUFFICES ASSUME NEW j \in DOMAIN open', NEW l \in DOMAIN open'[j].deferred
                   PROVE  Id(j, l)' <= d
        OBVIOUS
      <3>1. CASE l \in DOMAIN open[j].deferred
        <4>1. Id(j, l)' = Id(j, l) /\ Id(j, l) < d /\ Id(j, l) \in Nat
          BY <1>2, <1>7, <1>9, <3>1, PointTypes
        <4> QED BY <1>2, <4>1
      <3>2. CASE Id(j, l)' = d
        BY <1>2, <3>2
      <3> QED BY <1>10, <3>1, <3>2
    <2>3. PICK L1, s1 : L1 = L + 1 /\ s1 = s + 1
      OBVIOUS
    <2>4. /\ L \in DOMAIN open' /\ s1 \in DOMAIN open'[L].deferred /\ d = Id(L, s1)' /\ Before(L, s1, L1, 0)'
      BY <1>2, <1>7, <2>1, <2>3 DEF Before
    <2>5. Inner(d, L1, 0)'
      BY <2>2, <2>4 DEF Inner
    <2> QED BY <2>3, <2>5
  <1>13. Inner(h, L, s)'
    <2>1. ASSUME NEW j \in DOMAIN open', NEW l \in DOMAIN open'[j].deferred, Before(j, l, L, s)
          PROVE  j \in DOMAIN open /\ l \in DOMAIN open[j].deferred /\ Id(j, l)' = Id(j, l) /\ Before(j, l, L + 1, 0)
      <3>1. ~(j = L /\ l = s + 1)
        BY <1>2, <1>4, <2>1 DEF Before
      <3> QED BY <1>7, <1>9, <1>10, <3>1 DEF Before
    <2>2. ASSUME NEW j \in DOMAIN open, NEW l \in DOMAIN open[j].deferred
          PROVE  Before(j, l, L, s)
      BY <1>9 DEF Before
    <2> QED BY <1>2, <1>7, <1>9, <2>1, <2>2, InnerKept
  <1>14. ScopeHandlers'
    <2> SUFFICES ASSUME NEW i \in DOMAIN open
                 PROVE  /\ Inner(open[i].original, i, 0)' /\ Inner(open[i].end, i, 0)'
                        /\ \A k \in DOMAIN open'[i].deferred :
                              /\ open'[i].deferred[k].body = "plain"
                              /\ Inner(open[i].deferred[k].handler, i, k - 1)'
      BY <1>7 DEF ScopeHandlers
    <2>1. /\ Inner(open[i].original, i, 0)' /\ Inner(open[i].end, i, 0)'
          /\ \A k \in DOMAIN open[i].deferred :
                /\ open'[i].deferred[k].body = "plain"
                /\ Inner(open[i].deferred[k].handler, i, k - 1)'
      <3>1. open'[i].original = open[i].original /\ open'[i].end = open[i].end
        BY <1>7
      <3> QED BY <1>2, <1>9, <1>11, <3>1, ConstructKept
    <2>2. ASSUME NEW k \in DOMAIN open'[i].deferred, k \notin DOMAIN open[i].deferred
          PROVE  open'[i].deferred[k].body = "plain" /\ Inner(open[i].deferred[k].handler, i, k - 1)'
      <3>1. i = L /\ k = s + 1
        BY <1>7, <1>10, <2>2
      <3>2. open'[i].deferred[k] = e /\ k - 1 = s
        BY <1>4, <1>6, <1>7, <3>1
      <3>3. h = open'[i].deferred[k].handler /\ open'[i].deferred[k].body = "plain"
        BY <1>2, <1>5, <3>2
      <3> QED BY <1>13, <3>1, <3>2, <3>3
    <2> QED BY <2>1, <2>2
  <1> QED BY <1>2, <1>7, <1>8, <1>12, <1>14 DEF HandlersOK

LEMMA CloseHandlers ==
    ASSUME DeferInv, HandlersOK, Close
    PROVE  HandlersOK'
  <1> SUFFICES ASSUME ~early' PROVE HandlersOK'
    BY DEF HandlersOK
  <1>1. PICK n, m, h, b, c : n = Len(open) /\ m = n - 1 /\ h = handler /\ b = block /\ c = open[n]
    OBVIOUS
  <1>2. /\ exits # <<>> /\ exits' = <<>> /\ Exit.pos = Exit.target /\ Closed(TRUE) /\ EndOfBlock
        /\ ScopeHandlers /\ reachable /\ handler' = h /\ reachable'
    <2>1. ~early
      BY DEF Close, Closed
    <2>2. exits # <<>> /\ exits' = <<>> /\ Exit.pos = Exit.target /\ Closed(~Exit.failed)
      BY <2>1 DEF Close, HandlersOK
    <2>3. EndOfBlock /\ ScopeHandlers /\ reachable
      BY <2>1, <2>2 DEF HandlersOK
    <2>4. PICK f \in BOOLEAN : f = ~Exit.failed
      OBVIOUS
    <2>5. f = TRUE
      BY <2>3, <2>4 DEF EndOfBlock
    <2>6. Closed(f)
      BY <2>2, <2>4
    <2>7. Closed(TRUE)
      BY <2>5, <2>6
    <2> QED BY <1>1, <2>2, <2>3, <2>7 DEF Closed
  <1>3. /\ n \in Nat \ {0} /\ n \in DOMAIN open /\ DOMAIN open = 1 .. n /\ m \in Nat /\ TypeOK
        /\ open \in Seq(Constructs) /\ n = m + 1
    BY <1>1, <1>2, CompleteFacts DEF DeferInv, TypeOK, EndOfBlock
  <1>4. Inner(h, n, 0) /\ Inner(b, n, 0) /\ Inner(c.end, n, 0)
    BY <1>1, <1>2, <1>3 DEF EndOfBlock, ScopeHandlers
  <1>5. PICK rest : /\ rest = SubSeq(open, 1, n - 1) /\ rest \in Seq(Constructs) /\ Len(rest) = m
                    /\ DOMAIN rest = 1 .. m /\ \A i \in 1 .. m : rest[i] = open[i] /\ i \in DOMAIN open
    <2>1. PICK rest : rest = SubSeq(open, 1, n - 1)
      OBVIOUS
    <2>2. /\ rest \in Seq(Constructs) /\ Len(rest) = m /\ DOMAIN rest = 1 .. m
          /\ \A i \in 1 .. m : rest[i] = open[i] /\ i \in DOMAIN open
      BY <1>1, <1>3, <2>1, SubSeqProperties
    <2> QED BY <2>1, <2>2
  <1>6. PICK d : d = [Construct("if") EXCEPT !.end = c.end]
    OBVIOUS
  <1>7. d \in Constructs /\ d.original = h /\ d.end = c.end /\ d.deferred = <<>>
    <2>1. handler \in Ids /\ 0 \in 0 .. MaxDefers /\ <<>> \in Seq(DeferredStatements) /\ c.end \in Ids
      BY <1>1, <1>3, PointTypes DEF TypeOK
    <2> QED BY <1>1, <1>6, <2>1 DEF Construct, Constructs
  <1>8. PICK l : /\ l \in {m, n} /\ Len(open') = l /\ DOMAIN open' = 1 .. l
                 /\ \A i \in 1 .. m : open'[i] = open[i]
                 /\ l = n => open'[n] = d
    <2>1. open' = IF c.kind = "if_else" THEN Append(rest, d) ELSE rest
      BY <1>1, <1>2, <1>5, <1>6 DEF Closed
    <2>2. CASE c.kind = "if_else"
      <3>1. open' = Append(rest, d)
        BY <2>1, <2>2
      <3>2. /\ Len(open') = m + 1 /\ DOMAIN open' = 1 .. (m + 1)
            /\ \A i \in 1 .. m : open'[i] = rest[i]
            /\ open'[m + 1] = d
        BY <1>5, <1>7, <3>1, AppendProperties, LenProperties
      <3> QED BY <1>3, <1>5, <3>2
    <2>3. CASE c.kind # "if_else"
      <3>1. m # n
        BY <1>3
      <3> QED BY <1>5, <2>1, <2>3, <3>1
    <2> QED BY <2>2, <2>3
  <1>9. block' = b \/ block' = c.end
    BY <1>1, <1>2 DEF Closed
  <1>10. ASSUME NEW j \in DOMAIN open', NEW k \in DOMAIN open'[j].deferred
         PROVE  /\ j \in 1 .. m /\ j \in DOMAIN open /\ k \in DOMAIN open[j].deferred /\ Id(j, k)' = Id(j, k)
                /\ Before(j, k, n, 0)
    <2>1. CASE j \in 1 .. m
      <3>1. open'[j] = open[j] /\ j \in DOMAIN open /\ j < n
        BY <1>3, <1>5, <1>8, <2>1
      <3> QED BY <2>1, <3>1 DEF Before, Id
    <2>2. CASE j = n /\ l = n
      BY <1>7, <1>8, <2>2
    <2> QED BY <1>3, <1>8, <2>1, <2>2
  <1>11. ASSUME NEW j \in DOMAIN open, NEW k \in DOMAIN open[j].deferred, j < n
         PROVE  /\ j \in DOMAIN open' /\ k \in DOMAIN open'[j].deferred /\ Id(j, k)' = Id(j, k)
                /\ Before(j, k, l + 1, 0)
    <2>1. j \in 1 .. m /\ j < m + 1 /\ j < n + 1 /\ j \in 1 .. n
      BY <1>3, <1>11
    <2>2. j \in DOMAIN open' /\ open'[j] = open[j] /\ j < l + 1
      BY <1>8, <2>1
    <2> QED BY <2>2 DEF Before, Id
  <1>12. ASSUME NEW j \in DOMAIN open, NEW k \in DOMAIN open[j].deferred, Before(j, k, n, 0)
         PROVE  j < n
    BY <1>3, <1>12, Positions DEF Before
  <1>13. ASSUME NEW x, Inner(x, n, 0)
         PROVE  Inner(x, l + 1, 0)' /\ Inner(x, n, 0)'
    <2>1. Inner(x, l + 1, 0)'
      BY <1>10, <1>11, <1>12, <1>13, InnerKept
    <2>2. Inner(x, n, 0)'
      BY <1>10, <1>11, <1>12, <1>13, InnerKept
    <2> QED BY <2>1, <2>2
  <1>14. Inner(h, l + 1, 0)' /\ Inner(b, l + 1, 0)' /\ Inner(c.end, l + 1, 0)'
         /\ Inner(h, n, 0)' /\ Inner(c.end, n, 0)'
    <2>1. PICK e : e = c.end
      OBVIOUS
    <2> QED BY <1>4, <1>13, <2>1
  <1>15. ASSUME NEW i \in 1 .. m, NEW k, NEW x, Inner(x, i, k)
         PROVE  Inner(x, i, k)'
    <2>1. \A j \in DOMAIN open : \A y \in DOMAIN open[j].deferred : Before(j, y, i, k) => j < n
      BY <1>3 DEF Before
    <2> QED BY <1>10, <1>11, <1>15, <2>1, InnerKept
  <1>16. ScopeHandlers'
    <2> SUFFICES ASSUME NEW i \in DOMAIN open'
                 PROVE  /\ Inner(open[i].original, i, 0)' /\ Inner(open[i].end, i, 0)'
                        /\ \A k \in DOMAIN open'[i].deferred :
                              /\ open'[i].deferred[k].body = "plain"
                              /\ Inner(open[i].deferred[k].handler, i, k - 1)'
      BY DEF ScopeHandlers
    <2>1. CASE i \in 1 .. m
      <3>1. open'[i] = open[i] /\ i \in DOMAIN open
        BY <1>3, <1>5, <1>8, <2>1
      <3>2. \A x : \A k \in 0 .. Size(i) : Inner(x, i, k) => Inner(x, i, k)'
        BY <1>15, <2>1
      <3> QED BY <1>2, <1>3, <3>1, <3>2, ConstructKept
    <2>2. CASE i = n /\ l = n
      <3>1. open'[i] = d /\ DOMAIN open'[i].deferred = {}
        BY <1>7, <1>8, <2>2
      <3>2. h = open'[i].original /\ c.end = open'[i].end
        BY <1>7, <3>1
      <3> QED BY <1>14, <2>2, <3>1, <3>2
    <2> QED BY <1>3, <1>8, <2>1, <2>2
  <1> QED BY <1>2, <1>8, <1>9, <1>14, <1>16 DEF HandlersOK

\* The other steps need an early exit.
LEMMA EarlyHandlers ==
    ASSUME DeferInv, HandlersOK,
           \/ \E exit \in EarlyExits : LeaveEarly(exit)
           \/ ReturnToDeferred \/ DeferContinue \/ Unreachable
    PROVE  HandlersOK'
  <1> SUFFICES ASSUME ~early' PROVE HandlersOK'
    BY DEF HandlersOK
  <1>1. /\ ~(\E exit \in EarlyExits : LeaveEarly(exit))
    BY DEF LeaveEarly
  <1>2. ~early /\ exits # <<>> /\ Exit.origin # "block"
    BY <1>1 DEF ReturnToDeferred, DeferContinue, Unreachable
  <1> QED BY <1>2 DEF HandlersOK, EndOfBlock

LEMMA StutterHandlers ==
    ASSUME DeferInv, HandlersOK, UNCHANGED vars
    PROVE  HandlersOK'
  <1> SUFFICES ASSUME ~early' PROVE HandlersOK'
    BY DEF HandlersOK
  <1>1. /\ ~early /\ reachable /\ reachable' /\ ScopeHandlers /\ TypeOK /\ open' = open /\ exits' = exits
        /\ handler' = handler /\ block' = block
    BY DEF vars, HandlersOK, DeferInv
  <1>2. ScopeHandlers'
    BY <1>1, SameHandlers
  <1>3. PICK h, b, n, r : h = handler /\ b = block /\ n = Len(open) /\ r = Remaining(n)
    OBVIOUS
  <1>4. Remaining(n)' = r
    BY <1>1, <1>3 DEF Remaining
  <1>5. \A x, i, k : Inner(x, i, k) => Inner(x, i, k)'
    BY <1>1, InnerSame
  <1>6. CASE exits = <<>>
    <2>1. Inner(h, n + 1, 0)' /\ Inner(b, n + 1, 0)'
      BY <1>1, <1>3, <1>5, <1>6 DEF HandlersOK
    <2> QED BY <1>1, <1>2, <1>3, <1>6, <2>1 DEF HandlersOK
  <1>7. CASE exits # <<>>
    <2>1. EndOfBlock /\ Exit' = Exit
      BY <1>1, <1>7 DEF HandlersOK, Exit
    <2>2. IF Exit.pos = n THEN Inner(b, n, r)' ELSE Inner(h, n, 0)' /\ Inner(b, n, 0)'
      BY <1>3, <1>5, <2>1 DEF EndOfBlock
    <2>3. EndOfBlock'
      BY <1>1, <1>3, <1>4, <2>1, <2>2 DEF EndOfBlock
    <2> QED BY <1>1, <1>2, <1>7, <2>3 DEF HandlersOK
  <1> QED BY <1>6, <1>7

LEMMA InitHandlers ==
    ASSUME Init
    PROVE  HandlersOK
  <1>1. /\ DOMAIN open = {1} /\ open[1].deferred = <<>> /\ open[1].original = 0 /\ open[1].end = 0
        /\ handler = 0 /\ block = 0 /\ exits = <<>> /\ reachable
    BY DEF Init
  <1>2. \A j \in DOMAIN open : DOMAIN open[j].deferred = {}
    BY <1>1
  <1>3. \A i, n : Inner(0, i, n)
    BY <1>2 DEF Inner
  <1>4. ScopeHandlers
    BY <1>1, <1>2, <1>3 DEF ScopeHandlers
  <1> QED BY <1>1, <1>3, <1>4 DEF HandlersOK

-----------------------------------------------------------------------------
(* Handlers behind early exits, as long as no scope exit is given up. *)

\* h is a deferred statement of a construct around construct i, or 0.
From(h, i) == h = 0 \/ \E j \in DOMAIN open : j < i /\ h \in DeferredIn(j)

\* The constructs and their deferred statements have been compiled under handlers of the scopes
\* around them.
ScopesFrom ==
    \A i \in DOMAIN open :
        /\ From(open[i].original, i) /\ From(open[i].end, i)
        /\ \A k \in DOMAIN open[i].deferred :
              \/ From(open[i].deferred[k].handler, i)
              \/ \E l \in DOMAIN open[i].deferred : l < k /\ open[i].deferred[k].handler = Id(i, l)

\* Unreachable code ends with construct i, a branch or a loop.
LastBranch(i) == open[i].kind # "block" /\ \A j \in DOMAIN open : j > i => open[j].kind = "block"

\* Between statements.
IdleFrom ==
    /\ reachable => From(block, Len(open) + 1) /\ From(handler, Len(open) + 1)
    /\ ~reachable => \A i \in DOMAIN open : LastBranch(i) => From(handler, i)

\* The block in which the code behind the outermost exit goes on.
Behind == IF Len(exits) = 1 THEN block ELSE exits[2].end

\* The end of a block compiles its deferred statements from the last one on and arrives
\* in a block whose handler it has not compiled yet.
BlockFrom ==
    /\ exits[1].target = Len(open) - 1
    /\ From(Behind, Len(open) + 1) /\ Behind \notin exits[1].ran /\ 0 \notin exits[1].ran
    /\ \A x \in exits[1].ran, y \in Deferred : y > x => y \in exits[1].ran

\* While scopes are left.
BusyFrom ==
    /\ reachable
    /\ \A e \in DOMAIN exits : ~exits[e].failed
    /\ Exit.pos = Exit.target => From(handler, Exit.target + 1)
    /\ exits[1].origin = "statement" => \A i \in DOMAIN open : LastBranch(i) => exits[1].target < i
    /\ exits[1].origin = "block" => BlockFrom

FromOK ==
    ~abandoned =>
        /\ ScopesFrom
        /\ exits = <<>> => IdleFrom
        /\ exits # <<>> => BusyFrom

\* Deferred statements that are the same.
LEMMA FromSame ==
    ASSUME DOMAIN open' = DOMAIN open, \A i \in DOMAIN open : open'[i].deferred = open[i].deferred
    PROVE  /\ \A i \in DOMAIN open : DeferredIn(i)' = DeferredIn(i)
           /\ Deferred' = Deferred
           /\ \A h, i : From(h, i) => From(h, i)'
  <1>1. \A i \in DOMAIN open : DeferredIn(i)' = DeferredIn(i)
    BY DEF DeferredIn
  <1>2. \A h, i : From(h, i) => From(h, i)'
    BY <1>1 DEF From
  <1>3. Deferred' = Deferred
    BY <1>1 DEF Deferred
  <1> QED BY <1>1, <1>2, <1>3

\* Steps that leave the constructs alone, but for their progress.
LEMMA ScopesFromSame ==
    ASSUME ScopesFrom, DOMAIN open' = DOMAIN open,
           \A i \in DOMAIN open : /\ open'[i].deferred = open[i].deferred /\ open'[i].original = open[i].original
                                 /\ open'[i].end = open[i].end
    PROVE  ScopesFrom'
  <1>1. \A h, i : From(h, i) => From(h, i)'
    BY FromSame
  <1> SUFFICES ASSUME NEW i \in DOMAIN open
               PROVE  /\ From(open[i].original, i)' /\ From(open[i].end, i)'
                      /\ \A k \in DOMAIN open[i].deferred :
                            \/ From(open[i].deferred[k].handler, i)'
                            \/ \E l \in DOMAIN open[i].deferred : l < k /\ open'[i].deferred[k].handler = Id(i, l)'
    BY DEF ScopesFrom
  <1>2. PICK o, e : o = open[i].original /\ e = open[i].end
    OBVIOUS
  <1>3. From(o, i)' /\ From(e, i)' /\ o = open'[i].original /\ e = open'[i].end
    BY <1>1, <1>2 DEF ScopesFrom
  <1>4. ASSUME NEW k \in DOMAIN open[i].deferred
        PROVE  \/ From(open[i].deferred[k].handler, i)'
               \/ \E l \in DOMAIN open[i].deferred : l < k /\ open'[i].deferred[k].handler = Id(i, l)'
    <2>1. PICK h : h = open[i].deferred[k].handler
      OBVIOUS
    <2>2. h = open'[i].deferred[k].handler
      BY <2>1
    <2>3. From(h, i) \/ \E l \in DOMAIN open[i].deferred : l < k /\ h = Id(i, l)
      BY <2>1 DEF ScopesFrom
    <2>4. \A l : Id(i, l)' = Id(i, l)
      BY DEF Id
    <2> QED BY <1>1, <2>2, <2>3, <2>4
  <1> QED BY <1>3, <1>4

\* A handler from further out.
LEMMA FromFurther ==
    ASSUME TypeOK, NEW h, NEW i \in Int, NEW j \in Int, i <= j, From(h, i)
    PROVE  From(h, j)
  <1>1. \A k \in DOMAIN open : k \in Int
    BY PointTypes
  <1> QED BY <1>1 DEF From

\* A deferred statement of a construct.
LEMMA MemberIds ==
    ASSUME TypeOK, ScopesOK
    PROVE  /\ \A i \in DOMAIN open : \A x : x \in DeferredIn(i) <=> \E k \in DOMAIN open[i].deferred : x = Id(i, k)
           /\ \A i \in DOMAIN open : \A x \in DeferredIn(i) : x \in Nat /\ x > 0
           /\ \A x : x \in Deferred <=> \E i \in DOMAIN open : x \in DeferredIn(i)
  <1>1. \A i \in DOMAIN open : \A x : x \in DeferredIn(i) <=> \E k \in DOMAIN open[i].deferred : x = Id(i, k)
    BY DEF DeferredIn, Id
  <1>2. \A i \in DOMAIN open : \A k \in DOMAIN open[i].deferred : Id(i, k) \in Nat /\ Id(i, k) > 0
    <2> SUFFICES ASSUME NEW i \in DOMAIN open, NEW k \in DOMAIN open[i].deferred
                 PROVE  Id(i, k) \in Nat /\ Id(i, k) > 0
      OBVIOUS
    <2>1. Id(i, k) \in k .. Numbered /\ Id(i, k) \in Nat /\ k \in Nat /\ k >= 1
      BY Positions, PointTypes DEF ScopesOK
    <2> QED BY <2>1
  <1>3. \A x : x \in Deferred <=> \E i \in DOMAIN open : x \in DeferredIn(i)
    BY DEF Deferred
  <1> QED BY <1>1, <1>2, <1>3

LEMMA RunDeferredFrom ==
    ASSUME DeferInv, FromOK, RunDeferred
    PROVE  FromOK'
  <1> SUFFICES ASSUME ~abandoned' PROVE FromOK'
    BY DEF FromOK
  <1>1. PICK n, P, d, h, r : /\ n = Len(exits) /\ P = Exit.pos /\ d = NextDeferred.id
                             /\ h = NextDeferred.handler /\ r = Remaining(P)
    OBVIOUS
  <1>2. /\ ScopesFrom /\ BusyFrom /\ TypeOK /\ ScopesOK /\ exits # <<>> /\ AtDeferred
        /\ handler' = h /\ block' = h /\ reachable' = reachable
    BY <1>1 DEF FromOK, DeferInv, RunDeferred, AtDeferred
  <1>3. /\ P \in DOMAIN open /\ r \in DOMAIN open[P].deferred /\ h = open[P].deferred[r].handler
        /\ d = Id(P, r) /\ open[P].processed + 1 \in 0 .. MaxDefers /\ n \in Nat \ {0} /\ Exit = exits[n]
        /\ Exit.target < P /\ DOMAIN exits = 1 .. n
    BY <1>1, <1>2, NextFacts, ExitFacts, PointTypes
  <1>4. /\ DOMAIN open' = DOMAIN open /\ Len(open') = Len(open)
        /\ \A i \in DOMAIN open : /\ open'[i].deferred = open[i].deferred /\ open'[i].kind = open[i].kind
                                 /\ open'[i].original = open[i].original /\ open'[i].end = open[i].end
    <2>1. PICK v : v = open[P].processed + 1
      OBVIOUS
    <2>2. open' = [open EXCEPT ![P] = [open[P] EXCEPT !.processed = v]] /\ v \in 0 .. MaxDefers
      BY <1>1, <1>3, <2>1 DEF RunDeferred, progress
    <2> QED BY <1>2, <1>3, <2>2, ProcessedUpdate
  <1>5. ScopesFrom'
    BY <1>2, <1>4, ScopesFromSame
  <1>6. /\ Deferred' = Deferred /\ \A x, i : From(x, i) => From(x, i)'
        /\ \A i \in DOMAIN open : LastBranch(i)' => LastBranch(i)
    BY <1>4, FromSame DEF LastBranch
  <1>7. PICK m : /\ m = Len(exits') /\ m \in {n, n + 1} /\ DOMAIN exits' = 1 .. m
                 /\ \A e \in 1 .. (n - 1) : exits'[e] = exits[e]
                 /\ exits'[n].pos = P /\ exits'[n].target = Exit.target
                 /\ exits'[n].origin = Exit.origin /\ exits'[n].failed = FALSE
                 /\ exits'[n].ran = Exit.ran \cup {d} /\ exits'[n].end = Exit.end
                 /\ m = n + 1 => /\ exits'[m].pos = Len(open') /\ exits'[m].target < Len(open')
                                 /\ exits'[m].failed = FALSE /\ exits'[m].end = h
    BY <1>1, <1>2, RunDeferredExits
  <1>8. exits' # <<>> /\ Exit' = exits'[m]
    <2>1. Len(exits') # 0
      BY <1>3, <1>7
    <2> QED BY <1>7, <2>1 DEF Exit
  <1>9. Exit'.pos # Exit'.target
    <2>1. Exit.target \in Nat /\ P \in Nat /\ Len(open) \in Nat
      BY <1>2, <1>3, ExitFacts, PointTypes
    <2>2. CASE m = n
      BY <1>3, <1>7, <1>8, <2>1, <2>2
    <2>3. CASE m = n + 1
      <3>1. exits'[m].target # Len(open)
        BY <1>4, <1>7, <2>1, <2>3
      <3> QED BY <1>4, <1>7, <1>8, <2>3, <3>1
    <2> QED BY <1>7, <2>2, <2>3
  <1>10. \A e \in DOMAIN exits' : ~exits'[e].failed
    <2> SUFFICES ASSUME NEW e \in DOMAIN exits' PROVE ~exits'[e].failed
      OBVIOUS
    <2>1. e \in 1 .. (n - 1) \/ e = n \/ (e = m /\ m = n + 1)
      BY <1>3, <1>7
    <2>2. CASE e \in 1 .. (n - 1)
      BY <1>2, <1>3, <1>7, <2>2 DEF BusyFrom
    <2> QED BY <1>7, <2>1, <2>2
  <1>11. exits'[1].origin = exits[1].origin /\ exits'[1].target = exits[1].target
    BY <1>3, <1>7
  <1>12. exits'[1].origin = "statement" => \A i \in DOMAIN open' : LastBranch(i)' => exits'[1].target < i
    BY <1>2, <1>4, <1>6, <1>11 DEF BusyFrom
  <1>13. ASSUME exits[1].origin = "block"
         PROVE  BlockFrom'
    <2>1. BlockFrom
      BY <1>2, <1>13 DEF BusyFrom
    <2>2. exits'[1].target = Len(open') - 1
      BY <1>4, <1>11, <2>1 DEF BlockFrom
    <2>3. CASE n # 1
      <3>1. exits'[1] = exits[1] /\ Len(exits') # 1 /\ 1 \in DOMAIN exits /\ 2 \in 1 .. n
        BY <1>3, <1>7, <2>3
      <3>2. exits'[2].end = exits[2].end
        BY <1>3, <1>7, <3>1
      <3>3. PICK b : b = Behind
        OBVIOUS
      <3>4. Behind' = b
        BY <1>1, <2>3, <3>1, <3>2, <3>3 DEF Behind
      <3>5. From(b, Len(open) + 1)'
        BY <1>4, <1>6, <2>1, <3>3 DEF BlockFrom
      <3> QED BY <1>6, <2>1, <2>2, <3>1, <3>3, <3>4, <3>5 DEF BlockFrom
    <2>4. CASE n = 1
      <3>1. exits'[1].ran = Exit.ran \cup {d} /\ Exit = exits[1] /\ Behind' = h
        BY <1>1, <1>2, <1>3, <1>7, <2>4 DEF Behind
      <3>2. Exit.done = {}
        <4>1. \A x \in Exit.done : \E o \in 1 .. 0 : x \in exits[o].ran
          BY <1>3, <2>4, <3>1 DEF DeferInv, DoneOnTheWay
        <4> QED BY <4>1
      <3>3. d \in Deferred \ Exit.ran /\ \A x \in Deferred \ Exit.ran : x <= d
        BY <1>1, <1>2, <3>2, OrderLemma
      <3>4. h = 0 \/ (h \in Deferred /\ h < d)
        <4>1. CASE h = 0
          BY <4>1
        <4>2. CASE h # 0 /\ From(h, P)
          <5>1. PICK j \in DOMAIN open : j < P /\ h \in DeferredIn(j)
            BY <4>2 DEF From
          <5>2. PICK l \in DOMAIN open[j].deferred : h = Id(j, l)
            BY <5>1 DEF DeferredIn, Id
          <5>3. Id(j, l) < Id(P, r)
            BY <1>2, <1>3, <5>1 DEF ScopesOK
          <5> QED BY <1>3, <5>1, <5>2, <5>3 DEF Deferred
        <4>3. CASE \E l \in DOMAIN open[P].deferred : l < r /\ h = Id(P, l)
          <5>1. PICK l \in DOMAIN open[P].deferred : l < r /\ h = Id(P, l)
            BY <4>3
          <5>2. Id(P, l) < Id(P, r)
            BY <1>2, <1>3, <5>1 DEF ScopesOK
          <5>3. h \in DeferredIn(P)
            BY <5>1 DEF DeferredIn, Id
          <5> QED BY <1>3, <5>1, <5>2, <5>3 DEF Deferred
        <4> QED BY <1>2, <1>3, <4>1, <4>2, <4>3 DEF ScopesFrom
      <3>5. d \in Nat /\ d > 0 /\ (h \in Deferred => h \in Nat)
        BY <1>2, <3>3, MemberIds
      <3>6. 0 \notin Exit.ran \cup {d}
        BY <2>1, <3>1, <3>5 DEF BlockFrom
      <3>7. h \notin Exit.ran \cup {d}
        <4>1. h \in Deferred /\ h \in Exit.ran => d \in Exit.ran
          BY <2>1, <3>1, <3>3, <3>4, <3>5 DEF BlockFrom
        <4> QED BY <3>3, <3>4, <3>5, <3>6, <4>1
      <3>8. From(h, Len(open) + 1)'
        <4>1. h \in Deferred => From(h, Len(open) + 1)
          <5> SUFFICES ASSUME h \in Deferred PROVE From(h, Len(open) + 1)
            OBVIOUS
          <5>1. PICK i \in DOMAIN open : h \in DeferredIn(i)
            BY DEF Deferred
          <5>2. i < Len(open) + 1
            BY <1>2, PointTypes
          <5> QED BY <5>1, <5>2 DEF From
        <4>2. From(h, Len(open) + 1)
          BY <3>4, <4>1 DEF From
        <4> QED BY <1>4, <1>6, <4>2
      <3>9. \A x \in Exit.ran \cup {d}, y \in Deferred : y > x => y \in Exit.ran \cup {d}
        <4> SUFFICES ASSUME NEW x \in Exit.ran \cup {d}, NEW y \in Deferred, y > x
                     PROVE  y \in Exit.ran \cup {d}
          OBVIOUS
        <4>1. CASE x \in Exit.ran
          BY <2>1, <3>1, <4>1 DEF BlockFrom
        <4>2. CASE x = d
          <5>1. y \in Nat
            BY <1>2, MemberIds
          <5> QED BY <3>3, <3>5, <4>2, <5>1
        <4> QED BY <4>1, <4>2
      <3> QED BY <1>6, <2>2, <3>1, <3>6, <3>7, <3>8, <3>9 DEF BlockFrom
    <2> QED BY <2>3, <2>4
  <1>14. BusyFrom'
    BY <1>2, <1>8, <1>9, <1>10, <1>11, <1>12, <1>13 DEF BusyFrom
  <1> QED BY <1>5, <1>8, <1>14 DEF FromOK

LEMMA LeaveScopeFrom ==
    ASSUME DeferInv, FromOK, LeaveScope
    PROVE  FromOK'
  <1> SUFFICES ASSUME ~abandoned' PROVE FromOK'
    BY DEF FromOK
  <1>1. PICK n, P, h, b : n = Len(exits) /\ P = Exit.pos /\ h = open[P].original /\ b = Behind
    OBVIOUS
  <1>2. /\ ScopesFrom /\ BusyFrom /\ TypeOK /\ ScopesOK /\ exits # <<>> /\ P > Exit.target
        /\ handler' = h /\ block' = block /\ reachable' = reachable
    BY <1>1 DEF FromOK, DeferInv, LeaveScope, restored_handler
  <1>3. /\ P \in DOMAIN open /\ n \in Nat \ {0} /\ n \in DOMAIN exits /\ Exit = exits[n]
        /\ Exit \in ExitRecords /\ DOMAIN exits = 1 .. n /\ ~Exit.failed
        /\ P \in Nat /\ Exit.initial \in 0 .. MaxDefers /\ Exit.target \in Nat
    BY <1>1, <1>2, ExitFacts, PointTypes DEF BusyFrom, ExitRecords
  <1>4. /\ DOMAIN open' = DOMAIN open /\ Len(open') = Len(open)
        /\ \A i \in DOMAIN open : /\ open'[i].deferred = open[i].deferred /\ open'[i].kind = open[i].kind
                                 /\ open'[i].original = open[i].original /\ open'[i].end = open[i].end
    <2>1. PICK v : v = Exit.initial
      OBVIOUS
    <2>2. open' = [open EXCEPT ![P] = [open[P] EXCEPT !.processed = v]] /\ v \in 0 .. MaxDefers
      BY <1>1, <1>3, <2>1 DEF LeaveScope
    <2> QED BY <1>2, <1>3, <2>2, ProcessedUpdate
  <1>5. ScopesFrom'
    BY <1>2, <1>4, ScopesFromSame
  <1>6. /\ Deferred' = Deferred /\ \A x, i : From(x, i) => From(x, i)'
        /\ \A i \in DOMAIN open : LastBranch(i)' => LastBranch(i)
    BY <1>4, FromSame DEF LastBranch
  <1>7. PICK x : /\ x = [Exit EXCEPT !.pos = P - 1,
                                     !.initial = IF P - 1 > 0 THEN open[P - 1].processed ELSE 0]
                 /\ exits' = [exits EXCEPT ![n] = x]
    BY <1>1, <1>3 DEF LeaveScope
  <1>8. /\ x.pos = P - 1 /\ x.target = Exit.target /\ x.failed = Exit.failed /\ x.origin = Exit.origin
        /\ x.ran = Exit.ran /\ x.end = Exit.end
    BY <1>3, <1>7 DEF ExitRecords
  <1>9. /\ Len(exits') = n /\ DOMAIN exits' = 1 .. n /\ exits' # <<>> /\ Exit' = x
        /\ \A e \in 1 .. n : exits'[e] = IF e = n THEN x ELSE exits[e]
    <2>1. exits \in Seq(ExitRecords)
      BY <1>2 DEF TypeOK
    <2>2. DOMAIN exits' = 1 .. n /\ \A e \in 1 .. n : exits'[e] = IF e = n THEN x ELSE exits[e]
      BY <1>3, <1>7
    <2>3. Len(exits') = n
      BY <1>1, <1>3, <1>7, <2>1, LenProperties
    <2>4. exits' # <<>>
      BY <1>3, <2>2
    <2> QED BY <1>3, <2>2, <2>3, <2>4 DEF Exit
  <1>10. \A e \in 1 .. n : /\ exits'[e].target = exits[e].target /\ exits'[e].failed = exits[e].failed
                           /\ exits'[e].origin = exits[e].origin /\ exits'[e].ran = exits[e].ran
                           /\ exits'[e].end = exits[e].end
    BY <1>3, <1>8, <1>9
  <1>11. Exit'.pos = Exit'.target => From(handler, Exit.target + 1)'
    <2> SUFFICES ASSUME x.pos = x.target PROVE From(h, x.target + 1)'
      BY <1>2, <1>9
    <2>1. P = x.target + 1
      BY <1>3, <1>8
    <2>2. From(h, P)'
      BY <1>1, <1>2, <1>3, <1>6 DEF ScopesFrom
    <2> QED BY <2>1, <2>2
  <1>12. ASSUME exits[1].origin = "block"
         PROVE  BlockFrom'
    <2>1. BlockFrom
      BY <1>2, <1>12 DEF BusyFrom
    <2>2. Behind' = b
      <3>1. n # 1 => 2 \in 1 .. n
        BY <1>3
      <3> QED BY <1>1, <1>2, <1>9, <1>10, <3>1 DEF Behind
    <2>3. From(b, Len(open) + 1)'
      BY <1>1, <1>4, <1>6, <2>1 DEF BlockFrom
    <2>4. 1 \in 1 .. n
      BY <1>3
    <2> QED BY <1>1, <1>4, <1>6, <1>10, <2>1, <2>2, <2>3, <2>4 DEF BlockFrom
  <1>13. BusyFrom'
    <2>1. 1 \in 1 .. n
      BY <1>3
    <2> QED BY <1>2, <1>3, <1>4, <1>6, <1>9, <1>10, <1>11, <1>12, <2>1 DEF BusyFrom
  <1> QED BY <1>5, <1>9, <1>13 DEF FromOK

LEMMA ReturnToDeferredFrom ==
    ASSUME DeferInv, FromOK, ReturnToDeferred
    PROVE  FromOK'
  <1> SUFFICES ASSUME ~abandoned' PROVE FromOK'
    BY DEF FromOK
  <1>1. PICK n, b : n = Len(exits) /\ b = Behind
    OBVIOUS
  <1>2. /\ ScopesFrom /\ BusyFrom /\ TypeOK /\ exits # <<>> /\ Exit.origin = "sometimes"
        /\ UNCHANGED <<open, handler, reachable>> /\ block' = Exit.end
        /\ exits' = SubSeq(exits, 1, n - 1)
    BY <1>1 DEF FromOK, DeferInv, ReturnToDeferred
  <1>3. n \in Nat \ {0} /\ Exit = exits[n] /\ DOMAIN exits = 1 .. n
    BY <1>1, <1>2, ExitFacts, PointTypes
  <1>4. n # 1
    BY <1>2, <1>3 DEF DeferInv, ExitsOK
  <1>5. /\ Len(exits') = n - 1 /\ DOMAIN exits' = 1 .. (n - 1) /\ \A e \in 1 .. (n - 1) : exits'[e] = exits[e]
    <2>1. exits \in Seq(ExitRecords) /\ n - 1 \in 0 .. Len(exits)
      BY <1>1, <1>2, <1>3 DEF TypeOK
    <2> QED BY <1>1, <1>2, <1>3, <1>4, <2>1, SubSeqProperties
  <1>6. exits' # <<>> /\ Exit' = exits'[n - 1] /\ 1 \in 1 .. (n - 1)
    <2>1. 1 \in 1 .. (n - 1)
      BY <1>3, <1>4
    <2> QED BY <1>5, <2>1 DEF Exit
  <1>7. Exit'.pos # Exit'.target
    <2>1. n - 1 \in DOMAIN exits /\ n - 1 # n /\ n - 1 \in 1 .. (n - 1)
      BY <1>3, <1>4
    <2>2. exits[n - 1].target < exits[n - 1].pos
      BY <1>1, <2>1 DEF DeferInv, ExitsOK
    <2>3. exits[n - 1] \in ExitRecords
      BY <1>2, <2>1, ElementOfSeq DEF TypeOK
    <2>4. exits[n - 1].target \in Nat
      BY <2>3 DEF ExitRecords
    <2> QED BY <1>5, <1>6, <2>1, <2>2, <2>3, <2>4 DEF ExitRecords
  <1>8. ScopesFrom'
    BY <1>2, ScopesFromSame
  <1>9. /\ Deferred' = Deferred /\ \A x, i : From(x, i) => From(x, i)'
        /\ \A i \in DOMAIN open : LastBranch(i)' => LastBranch(i)
    BY <1>2, FromSame DEF LastBranch
  <1>10. ASSUME exits[1].origin = "block"
         PROVE  BlockFrom'
    <2>1. BlockFrom
      BY <1>2, <1>10 DEF BusyFrom
    <2>2. Behind' = b
      <3>1. CASE n = 2
        BY <1>1, <1>2, <1>3, <1>5, <3>1 DEF Behind
      <3>2. CASE n # 2
        <4>1. 2 \in 1 .. (n - 1) /\ n - 1 # 1
          BY <1>3, <1>4, <3>2
        <4> QED BY <1>1, <1>4, <1>5, <4>1 DEF Behind
      <3> QED BY <3>1, <3>2
    <2>3. From(b, Len(open) + 1)'
      BY <1>1, <1>2, <1>9, <2>1 DEF BlockFrom
    <2> QED BY <1>1, <1>2, <1>5, <1>6, <1>9, <2>1, <2>2, <2>3 DEF BlockFrom
  <1>11. \A e \in DOMAIN exits' : ~exits'[e].failed
    <2>1. \A e \in 1 .. (n - 1) : e \in DOMAIN exits
      BY <1>3
    <2> QED BY <1>2, <1>5, <2>1 DEF BusyFrom
  <1>12. BusyFrom'
    BY <1>2, <1>5, <1>6, <1>7, <1>9, <1>10, <1>11 DEF BusyFrom
  <1> QED BY <1>6, <1>8, <1>12 DEF FromOK

\* A statement, or the end of a block, begins to leave scopes.
LEMMA BeginFrom ==
    ASSUME DeferInv, FromOK, Compiling, reachable, ~abandoned, NEW t \in Nat, t < Len(open),
           NEW origin \in {"statement", "block", "handler"}, NEW end, NEW body,
           exits' = <<NewExit(open, t, origin, end, body, {})>>,
           UNCHANGED <<open, handler, block, reachable>>,
           origin = "statement" => \A i \in DOMAIN open : LastBranch(i) => t < i,
           origin = "block" => t = Len(open) - 1
    PROVE  FromOK'
  <1>1. PICK x, b : x = NewExit(open, t, origin, end, body, {}) /\ b = block
    OBVIOUS
  <1>2. exits = <<>> /\ ScopesFrom /\ IdleFrom /\ TypeOK /\ Len(open) \in Nat \ {0}
    BY CompilingFacts DEF Compiling, FromOK, DeferInv
  <1>3. x.pos = Len(open) /\ x.target = t /\ x.origin = origin /\ x.ran = {} /\ x.failed = FALSE
    BY <1>1 DEF NewExit
  <1>4. exits' = <<x>> /\ exits' # <<>> /\ Len(exits') = 1 /\ exits'[1] = x /\ Exit' = x /\ DOMAIN exits' = {1}
    <2>1. exits' = <<x>>
      BY <1>1
    <2> QED BY <2>1 DEF Exit
  <1>5. ScopesFrom'
    BY <1>2, ScopesFromSame
  <1>6. /\ \A y, i : From(y, i) => From(y, i)'
        /\ \A i \in DOMAIN open : LastBranch(i)' => LastBranch(i)
    BY FromSame DEF LastBranch
  <1>7. x.pos # x.target
    BY <1>2, <1>3
  <1>8. origin = "block" => BlockFrom'
    <2>1. Behind' = b
      BY <1>1, <1>4 DEF Behind
    <2>2. From(b, Len(open) + 1)'
      BY <1>1, <1>2, <1>6 DEF IdleFrom
    <2> QED BY <1>3, <1>4, <2>1, <2>2 DEF BlockFrom
  <1>9. BusyFrom'
    BY <1>3, <1>4, <1>6, <1>7, <1>8 DEF BusyFrom
  <1> QED BY <1>4, <1>5, <1>9 DEF FromOK

\* A deferred statement is remembered.
LEMMA RememberFrom ==
    ASSUME TypeOK, ScopesOK, ScopesFrom, open # <<>>, From(handler, Len(open) + 1), NEW body \in AllBodies,
           remember(open, handler, body), count' \in Ids, Numbered' = count',
           \A n \in 0 .. Numbered : n < count', count' # 0,
           body \in {"break", "maybe_break"} => \E j \in DOMAIN open : open[j].kind = "loop"
    PROVE  /\ ScopesFrom' /\ From(handler, Len(open) + 1)' /\ From(block, Len(open) + 1)'
  <1>1. PICK n, h, d, c : /\ n = Len(open) /\ h = handler /\ c = count'
                          /\ d = [id |-> count', body |-> body, handler |-> handler]
    OBVIOUS
  <1>2. /\ n \in Nat \ {0} /\ n \in DOMAIN open /\ DOMAIN open = 1 .. n /\ h \in Ids
        /\ handler' = c /\ block' = c /\ d.id = c /\ d.handler = h
    <2>1. n \in Nat \ {0} /\ n \in DOMAIN open /\ DOMAIN open = 1 .. n
      BY <1>1, PointTypes, EmptySeq DEF TypeOK
    <2> QED BY <1>1, <2>1 DEF remember, TypeOK
  <1>3. /\ open' \in Seq(Constructs) /\ Len(open') = n /\ DOMAIN open' = DOMAIN open
        /\ \A i \in DOMAIN open : open'[i].original = open[i].original /\ open'[i].end = open[i].end
        /\ \A i \in DOMAIN open : i # n => open'[i] = open[i]
        /\ open'[n].deferred = Append(open[n].deferred, d)
    <2>1. /\ open' \in Seq(Constructs) /\ Len(open') = n
          /\ \A i \in DOMAIN open : open'[i].original = open[i].original /\ open'[i].end = open[i].end
          /\ \A i \in DOMAIN open : i # n => open'[i] = open[i]
          /\ open'[n].deferred = Append(open[n].deferred, d)
      BY <1>1, <1>2, RememberedScopes
    <2>2. DOMAIN open' = 1 .. Len(open')
      BY <2>1, LenProperties
    <2> QED BY <1>2, <2>1, <2>2
  <1>4. PICK m : /\ m = Size(n) /\ m \in Nat /\ DOMAIN open[n].deferred = 1 .. m
                 /\ DOMAIN open'[n].deferred = 1 .. (m + 1) /\ open'[n].deferred[m + 1] = d
                 /\ \A k \in 1 .. m : open'[n].deferred[k] = open[n].deferred[k]
    <2>1. PICK ds : ds = open[n].deferred
      OBVIOUS
    <2>2. ds \in Seq(DeferredStatements) /\ DOMAIN ds = 1 .. Len(ds) /\ Len(ds) \in Nat /\ Size(n) = Len(ds)
      BY <1>2, <2>1, PointTypes DEF Size
    <2>3. d \in DeferredStatements
      BY <1>1, <1>2 DEF DeferredStatements
    <2>4. /\ Append(ds, d) \in Seq(DeferredStatements) /\ Len(Append(ds, d)) = Len(ds) + 1
          /\ \A k \in 1 .. Len(ds) : Append(ds, d)[k] = ds[k]
          /\ Append(ds, d)[Len(ds) + 1] = d
      BY <2>2, <2>3, AppendProperties
    <2>5. DOMAIN Append(ds, d) = 1 .. (Len(ds) + 1)
      BY <2>4, LenProperties
    <2>6. PICK es, q : es = Append(ds, d) /\ q = Len(ds)
      OBVIOUS
    <2>7. open'[n].deferred = es
      BY <1>3, <2>1, <2>6
    <2>8. /\ q = Size(n) /\ q \in Nat /\ DOMAIN open[n].deferred = 1 .. q
          /\ DOMAIN open'[n].deferred = 1 .. (q + 1) /\ open'[n].deferred[q + 1] = d
      BY <2>1, <2>2, <2>4, <2>5, <2>6, <2>7
    <2>9. \A k \in 1 .. q : open'[n].deferred[k] = open[n].deferred[k]
      BY <2>1, <2>4, <2>6, <2>7
    <2> QED BY <2>8, <2>9
  <1>5. \A i \in DOMAIN open : i # n => DeferredIn(i)' = DeferredIn(i)
    BY <1>3 DEF DeferredIn
  <1>6. \A x \in DeferredIn(n) : x \in DeferredIn(n)'
    <2>1. \A k \in 1 .. m : k \in 1 .. (m + 1)
      BY <1>4
    <2> QED BY <1>4, <2>1 DEF DeferredIn
  <1>7. c \in DeferredIn(n)'
    <2>1. m + 1 \in 1 .. (m + 1)
      BY <1>4
    <2> QED BY <1>2, <1>4, <2>1 DEF DeferredIn
  <1>8. \A x, i : From(x, i) => From(x, i)'
    BY <1>3, <1>5, <1>6 DEF From
  <1>9. From(c, n + 1)'
    BY <1>2, <1>3, <1>7 DEF From
  <1>10. ScopesFrom'
    <2> SUFFICES ASSUME NEW i \in DOMAIN open
                 PROVE  /\ From(open[i].original, i)' /\ From(open[i].end, i)'
                        /\ \A k \in DOMAIN open'[i].deferred :
                              \/ From(open[i].deferred[k].handler, i)'
                              \/ \E l \in DOMAIN open'[i].deferred :
                                    l < k /\ open'[i].deferred[k].handler = Id(i, l)'
      BY <1>3 DEF ScopesFrom
    <2>1. PICK o, e : o = open[i].original /\ e = open[i].end
      OBVIOUS
    <2>2. From(o, i)' /\ From(e, i)' /\ o = open'[i].original /\ e = open'[i].end
      BY <1>3, <1>8, <2>1 DEF ScopesFrom
    <2>3. ASSUME NEW k \in DOMAIN open'[i].deferred
          PROVE  \/ From(open[i].deferred[k].handler, i)'
                 \/ \E l \in DOMAIN open'[i].deferred :
                       l < k /\ open'[i].deferred[k].handler = Id(i, l)'
      <3>1. PICK x : x = open'[i].deferred[k].handler
        OBVIOUS
      <3>2. CASE i = n /\ k = m + 1
        <4>1. x = h
          BY <1>2, <1>4, <3>1, <3>2
        <4>2. CASE h = 0
          BY <3>1, <4>1, <4>2 DEF From
        <4>3. CASE h # 0
          <5>1. PICK j \in DOMAIN open : j < n + 1 /\ h \in DeferredIn(j)
            BY <1>1, <4>3 DEF From
          <5>2. CASE j = n
            <6>1. PICK l \in 1 .. m : h = Id(n, l)
              BY <1>4, <5>1, <5>2 DEF DeferredIn, Id
            <6>2. Id(n, l)' = Id(n, l) /\ l < m + 1 /\ l \in 1 .. (m + 1)
              BY <1>4, <6>1 DEF Id
            <6> QED BY <1>4, <3>1, <3>2, <4>1, <6>1, <6>2
          <5>3. CASE j # n
            <6>1. j < n
              BY <1>2, <5>1, <5>3
            <6>2. From(h, n)'
              BY <1>3, <1>5, <5>1, <5>3, <6>1 DEF From
            <6> QED BY <3>1, <3>2, <4>1, <6>2
          <5> QED BY <5>2, <5>3
        <4> QED BY <4>2, <4>3
      <3>3. CASE ~(i = n /\ k = m + 1)
        <4>1. /\ k \in DOMAIN open[i].deferred /\ open'[i].deferred[k] = open[i].deferred[k]
              /\ \A l \in DOMAIN open[i].deferred : l \in DOMAIN open'[i].deferred /\ Id(i, l)' = Id(i, l)
          <5>1. CASE i = n
            <6>1. k \in 1 .. m /\ \A l \in 1 .. m : l \in 1 .. (m + 1)
              BY <1>4, <3>3, <5>1
            <6> QED BY <1>4, <5>1, <6>1 DEF Id
          <5>2. CASE i # n
            BY <1>3, <5>2 DEF Id
          <5> QED BY <5>1, <5>2
        <4>2. x = open[i].deferred[k].handler
          BY <3>1, <4>1
        <4>3. From(x, i) \/ \E l \in DOMAIN open[i].deferred : l < k /\ x = Id(i, l)
          BY <4>1, <4>2 DEF ScopesFrom
        <4> QED BY <1>8, <3>1, <4>1, <4>3
      <3> QED BY <3>2, <3>3
    <2> QED BY <2>2, <2>3
  <1> QED BY <1>2, <1>3, <1>9, <1>10

LEMMA DeferFrom ==
    ASSUME DeferInv, FromOK, NEW body \in Bodies, Defer(body)
    PROVE  FromOK'
  <1> SUFFICES ASSUME ~abandoned' PROVE FromOK'
    BY DEF FromOK
  <1>1. /\ TypeOK /\ ScopesOK /\ Compiling /\ reachable /\ reachable' = reachable /\ ~abandoned
        /\ count < MaxDefers /\ count' = count + 1 /\ body \in AllBodies
    BY DEF DeferInv, Defer
  <1>2. /\ exits = <<>> /\ open # <<>> /\ Len(open) \in Nat \ {0} /\ DOMAIN open = 1 .. Len(open)
        /\ Numbered = count /\ ScopesFrom /\ IdleFrom
    BY <1>1, CompilingFacts DEF FromOK
  <1>3. count \in Nat /\ count' \in Ids /\ count' # 0
    BY <1>1 DEF TypeOK, Ids
  <1>4. body \in {"break", "maybe_break"} =>
           (\E j \in DOMAIN open : open[j].kind = "loop") /\ current_loop \in 1 .. Len(open)
    <2>1. body \in {"break", "maybe_break"} => current_loop \in 1 .. Len(open)
      BY <1>1, <1>2, CurrentLoop DEF Defer
    <2> QED BY <1>1, <2>1 DEF Defer, current_loop
  <1>5. CASE body = "plain"
    <2>1. exits' = <<>> /\ remember(open, handler, body)
      BY <1>2, <1>5 DEF Defer
    <2>2. Numbered' = count' /\ \A n \in 0 .. Numbered : n < count'
      BY <1>1, <1>2, <1>3, <2>1 DEF Numbered
    <2>3. From(handler, Len(open) + 1)
      BY <1>1, <1>2 DEF IdleFrom
    <2>4. ScopesFrom' /\ From(handler, Len(open) + 1)' /\ From(block, Len(open) + 1)'
      BY <1>1, <1>2, <1>3, <1>4, <2>1, <2>2, <2>3, RememberFrom
    <2> QED BY <1>1, <2>1, <2>4 DEF FromOK, IdleFrom
  <1>6. CASE body # "plain"
    <2>1. /\ exits' = <<NewExit(open, Target(Leaves(body)), "handler", handler, body, {})>>
          /\ UNCHANGED <<open, handler, block>>
      BY <1>6 DEF Defer
    <2>2. PICK t \in Nat : t = Target(Leaves(body)) /\ t < Len(open)
      <3>1. CASE body \in {"return", "maybe_return"}
        BY <1>2, <3>1 DEF Target, Leaves
      <3>2. CASE body \in {"break", "maybe_break"}
        <4>1. Target(Leaves(body)) = current_loop - 1
          BY <3>2 DEF Target, Leaves
        <4> QED BY <1>2, <1>4, <3>2, <4>1
      <3> QED BY <1>1, <1>6, <3>1, <3>2 DEF AllBodies
    <2> QED BY <1>1, <2>1, <2>2, BeginFrom
  <1> QED BY <1>5, <1>6

LEMMA DeferContinueFrom ==
    ASSUME DeferInv, FromOK, DeferContinue
    PROVE  FromOK'
  <1> SUFFICES ASSUME ~abandoned' PROVE FromOK'
    BY DEF FromOK
  <1>1. /\ TypeOK /\ ScopesOK /\ exits # <<>> /\ Exit.origin = "handler" /\ Exit.pos = Exit.target
        /\ exits' = <<>> /\ count' = count /\ reachable' = reachable
        /\ remember(open, handler, Exit.body) /\ ScopesFrom /\ BusyFrom
    BY DEF DeferInv, DeferContinue, FromOK
  <1>2. /\ open # <<>> /\ Len(open) \in Nat \ {0} /\ Numbered = count - 1 /\ Exit.body \in AllBodies
        /\ Exit.body \in {"break", "maybe_break"} => \E j \in DOMAIN open : open[j].kind = "loop"
    BY <1>1, CompleteFacts
  <1>3. count \in Nat /\ count' \in Ids
    BY <1>1 DEF TypeOK, Ids
  <1>4. Numbered' = count' /\ count' # 0 /\ \A n \in 0 .. Numbered : n < count'
    <2>1. Numbered' = count'
      BY <1>1 DEF Numbered
    <2>2. Numbered \in 0 .. count
      BY <1>1 DEF ScopesOK
    <2> QED BY <1>1, <1>2, <1>3, <2>1, <2>2
  <1>5. PICK body \in AllBodies : body = Exit.body
    BY <1>2
  <1>6. From(handler, Len(open) + 1)
    <2>1. Exit.target \in Nat /\ Exit.target + 1 <= Len(open) + 1
      BY <1>1, <1>2, ExitFacts
    <2>2. From(handler, Exit.target + 1)
      BY <1>1 DEF BusyFrom
    <2>3. PICK h, i : h = handler /\ i = Exit.target + 1
      OBVIOUS
    <2> QED BY <1>1, <1>2, <2>1, <2>2, <2>3, FromFurther
  <1>7. ScopesFrom' /\ From(handler, Len(open) + 1)' /\ From(block, Len(open) + 1)'
    BY <1>1, <1>2, <1>3, <1>4, <1>5, <1>6, RememberFrom
  <1> QED BY <1>1, <1>7 DEF FromOK, IdleFrom, BusyFrom

\* A construct that stays, with what is around it.
LEMMA ScopeKept ==
    ASSUME ScopesFrom, NEW i \in DOMAIN open, open'[i] = open[i], \A x : From(x, i) => From(x, i)'
    PROVE  /\ From(open[i].original, i)' /\ From(open[i].end, i)'
           /\ \A k \in DOMAIN open'[i].deferred :
                 \/ From(open[i].deferred[k].handler, i)'
                 \/ \E l \in DOMAIN open'[i].deferred : l < k /\ open'[i].deferred[k].handler = Id(i, l)'
  <1>1. PICK o, e : o = open[i].original /\ e = open[i].end
    OBVIOUS
  <1>2. From(o, i)' /\ From(e, i)' /\ o = open'[i].original /\ e = open'[i].end
    BY <1>1 DEF ScopesFrom
  <1>3. ASSUME NEW k \in DOMAIN open'[i].deferred
        PROVE  \/ From(open[i].deferred[k].handler, i)'
               \/ \E l \in DOMAIN open'[i].deferred : l < k /\ open'[i].deferred[k].handler = Id(i, l)'
    <2>1. PICK x : x = open[i].deferred[k].handler
      OBVIOUS
    <2>2. x = open'[i].deferred[k].handler /\ k \in DOMAIN open[i].deferred
      BY <2>1
    <2>3. From(x, i) \/ \E l \in DOMAIN open[i].deferred : l < k /\ x = Id(i, l)
      BY <2>1, <2>2 DEF ScopesFrom
    <2>4. \A l : Id(i, l)' = Id(i, l)
      BY DEF Id
    <2> QED BY <2>2, <2>3, <2>4
  <1> QED BY <1>2, <1>3

LEMMA EnterFrom ==
    ASSUME DeferInv, FromOK, NEW kind \in {"block", "if", "if_else", "loop"}, Enter(kind)
    PROVE  FromOK'
  <1> SUFFICES ASSUME ~abandoned' PROVE FromOK'
    BY DEF FromOK
  <1>1. PICK n, h, b, c : n = Len(open) /\ h = handler /\ b = block' /\ c = Construct(kind)
    OBVIOUS
  <1>2. /\ reachable' /\ exits' = <<>> /\ handler' = h
        /\ n \in Nat \ {0} /\ DOMAIN open = 1 .. n /\ ScopesFrom /\ TypeOK
        /\ From(h, n + 1) /\ From(b, n + 1)
    <2>1. Compiling /\ reachable /\ ~abandoned /\ block' \in {block, handler}
      BY DEF Enter
    <2>2. From(handler, n + 1) /\ From(block, n + 1) /\ ScopesFrom
      BY <1>1, <2>1 DEF FromOK, IdleFrom, Compiling
    <2> QED BY <1>1, <2>1, <2>2, CompilingFacts DEF Enter, DeferInv
  <1>3. c.original = h /\ c.end = h /\ c.deferred = <<>> /\ c \in Constructs
    <2>1. handler \in Ids /\ 0 \in 0 .. MaxDefers /\ <<>> \in Seq(DeferredStatements)
      BY <1>2 DEF TypeOK
    <2> QED BY <1>1, <2>1 DEF Construct, Constructs
  <1>4. /\ Len(open') = n + 1 /\ DOMAIN open' = 1 .. (n + 1)
        /\ open'[n + 1] = c /\ \A i \in 1 .. n : open'[i] = open[i]
    <2>1. open' = Append(open, c) /\ open \in Seq(Constructs)
      BY <1>1, <1>2 DEF Enter, TypeOK
    <2> QED BY <1>1, <1>3, <2>1, AppendProperties, LenProperties
  <1>5. \A i \in DOMAIN open : i \in DOMAIN open' /\ DeferredIn(i)' = DeferredIn(i)
    BY <1>2, <1>4 DEF DeferredIn
  <1>6. \A x, i : From(x, i) => From(x, i)'
    BY <1>5 DEF From
  <1>7. From(h, n + 1)' /\ From(h, n + 2)' /\ From(b, n + 2)'
    <2>1. PICK y, z : y = n + 1 /\ z = n + 2 /\ y \in Int /\ z \in Int /\ y <= z
      BY <1>2
    <2>2. From(h, z) /\ From(b, z)
      BY <1>2, <2>1, FromFurther
    <2>3. From(h, y)' /\ From(h, z)' /\ From(b, z)'
      BY <1>2, <1>6, <2>1, <2>2
    <2> QED BY <2>1, <2>3
  <1>8. ScopesFrom'
    <2> SUFFICES ASSUME NEW i \in DOMAIN open'
                 PROVE  /\ From(open[i].original, i)' /\ From(open[i].end, i)'
                        /\ \A k \in DOMAIN open'[i].deferred :
                              \/ From(open[i].deferred[k].handler, i)'
                              \/ \E l \in DOMAIN open'[i].deferred :
                                    l < k /\ open'[i].deferred[k].handler = Id(i, l)'
      BY DEF ScopesFrom
    <2>1. CASE i = n + 1
      <3>1. h = open'[i].original /\ h = open'[i].end /\ DOMAIN open'[i].deferred = {}
        BY <1>3, <1>4, <2>1
      <3> QED BY <1>7, <2>1, <3>1
    <2>2. CASE i \in 1 .. n
      BY <1>2, <1>4, <1>6, <2>2, ScopeKept
    <2> QED BY <1>2, <1>4, <2>1, <2>2
  <1>9. Len(open') + 1 = n + 2
    BY <1>2, <1>4
  <1>10. IdleFrom'
    <2>1. From(handler, n + 2)' /\ From(block, n + 2)'
      BY <1>1, <1>2, <1>7
    <2> QED BY <1>2, <1>9, <2>1 DEF IdleFrom
  <1> QED BY <1>2, <1>8, <1>10 DEF FromOK

LEMMA LeaveEarlyFrom ==
    ASSUME DeferInv, FromOK, NEW exit \in EarlyExits, LeaveEarly(exit)
    PROVE  FromOK'
  <1> SUFFICES ASSUME ~abandoned' PROVE FromOK'
    BY DEF FromOK
  <1>0. /\ TypeOK /\ Compiling /\ reachable /\ ~abandoned
        /\ UNCHANGED <<open, handler, block, reachable>>
    BY DEF DeferInv, LeaveEarly
  <1>1. /\ Len(open) \in Nat \ {0} /\ DOMAIN open = 1 .. Len(open)
    BY <1>0, CompilingFacts
  <1>2. PICK t \in Nat : /\ t = Target(exit) /\ t < Len(open)
                         /\ \A i \in DOMAIN open : LastBranch(i) => t < i
    <2>1. CASE exit = "break"
      <3>1. current_loop \in 1 .. Len(open) /\ open[current_loop].kind = "loop"
        BY <1>0, <1>1, <2>1, CurrentLoop DEF LeaveEarly
      <3>2. PICK l : l = current_loop
        OBVIOUS
      <3>3. \A i \in DOMAIN open : LastBranch(i) => l <= i
        BY <1>1, <3>1, <3>2 DEF LastBranch
      <3>4. Target(exit) = l - 1
        BY <2>1, <3>2 DEF Target
      <3>5. l - 1 \in Nat /\ l - 1 < Len(open) /\ \A i \in DOMAIN open : LastBranch(i) => l - 1 < i
        BY <1>1, <3>1, <3>2, <3>3
      <3> QED BY <3>4, <3>5
    <2>2. CASE exit # "break"
      <3>1. Target(exit) = 0
        BY <2>2 DEF Target
      <3> QED BY <1>1, <3>1
    <2> QED BY <2>1, <2>2
  <1>3. exits' = <<NewExit(open, t, "statement", 0, "plain", {})>>
    BY <1>2 DEF LeaveEarly
  <1> QED BY <1>0, <1>2, <1>3, BeginFrom

LEMMA BlockEndFrom ==
    ASSUME DeferInv, FromOK, BlockEnd
    PROVE  FromOK'
  <1> SUFFICES ASSUME ~abandoned' PROVE FromOK'
    BY DEF FromOK
  <1>0. /\ Compiling /\ reachable /\ ~abandoned /\ UNCHANGED <<open, handler, block, reachable>>
    BY DEF BlockEnd
  <1>1. PICK t \in Nat : t = Len(open) - 1 /\ t < Len(open)
    <2>1. Len(open) - 1 \in Nat /\ Len(open) - 1 < Len(open)
      BY <1>0, CompilingFacts
    <2> QED BY <2>1
  <1>2. exits' = <<NewExit(open, t, "block", 0, "plain", {})>>
    BY <1>1 DEF BlockEnd
  <1> QED BY <1>0, <1>1, <1>2, BeginFrom

LEMMA UnreachableFrom ==
    ASSUME DeferInv, FromOK, Unreachable
    PROVE  FromOK'
  <1> SUFFICES ASSUME ~abandoned' PROVE FromOK'
    BY DEF FromOK
  <1>1. PICK h, t : h = handler /\ t = Exit.target
    OBVIOUS
  <1>2. /\ TypeOK /\ exits # <<>> /\ Exit.pos = Exit.target /\ Exit.origin = "statement" /\ exits' = <<>>
        /\ ~reachable' /\ open' = open /\ handler' = h /\ ScopesFrom /\ BusyFrom
    BY <1>1 DEF DeferInv, FromOK, Unreachable
  <1>3. exits[1] = Exit /\ t \in Nat
    BY <1>1, <1>2, OuterExit, ExitFacts
  <1>4. From(h, t + 1)
    BY <1>1, <1>2 DEF BusyFrom
  <1>5. ASSUME NEW i \in DOMAIN open, LastBranch(i)
        PROVE  From(h, i)
    <2>1. t < i /\ i \in Int
      BY <1>1, <1>2, <1>3, <1>5, PointTypes DEF BusyFrom
    <2>2. PICK j : j = t + 1 /\ j \in Int /\ j <= i
      BY <1>3, <2>1
    <2> QED BY <1>2, <1>4, <2>1, <2>2, FromFurther
  <1>6. /\ \A x, i : From(x, i) => From(x, i)'
        /\ \A i \in DOMAIN open : LastBranch(i)' => LastBranch(i)
    BY <1>2, FromSame DEF LastBranch
  <1>7. \A i \in DOMAIN open' : LastBranch(i)' => From(h, i)'
    BY <1>2, <1>5, <1>6
  <1>8. ScopesFrom'
    BY <1>2, ScopesFromSame
  <1> QED BY <1>2, <1>7, <1>8 DEF FromOK, IdleFrom

\* The last construct is closed, with all code that goes on behind it under handlers of the scopes around it.
LEMMA ClosedFrom ==
    ASSUME TypeOK, ScopesFrom, open # <<>>, NEW r \in BOOLEAN, Closed(r), exits' = <<>>,
           reachable' => From(handler, Len(open)) /\ From(block', Len(open)),
           ~reachable' => /\ open[Len(open)].kind = "block"
                          /\ \A i \in DOMAIN open : LastBranch(i) => From(handler, i)
    PROVE  FromOK'
  <1>1. PICK n, m, h, b, c : n = Len(open) /\ m = n - 1 /\ h = handler /\ b = block' /\ c = open[n]
    OBVIOUS
  <1>2. handler' = h
    BY <1>1 DEF Closed
  <1>3. /\ n \in Nat \ {0} /\ n \in DOMAIN open /\ DOMAIN open = 1 .. n /\ m \in Nat
        /\ open \in Seq(Constructs) /\ n = m + 1
    BY <1>1, PointTypes, EmptySeq DEF TypeOK
  <1>4. PICK rest : /\ rest = SubSeq(open, 1, n - 1) /\ rest \in Seq(Constructs) /\ Len(rest) = m
                    /\ DOMAIN rest = 1 .. m /\ \A i \in 1 .. m : rest[i] = open[i] /\ i \in DOMAIN open
    <2>1. PICK rest : rest = SubSeq(open, 1, n - 1)
      OBVIOUS
    <2>2. /\ rest \in Seq(Constructs) /\ Len(rest) = m /\ DOMAIN rest = 1 .. m
          /\ \A i \in 1 .. m : rest[i] = open[i] /\ i \in DOMAIN open
      BY <1>1, <1>3, <2>1, SubSeqProperties
    <2> QED BY <2>1, <2>2
  <1>5. PICK d : d = [Construct("if") EXCEPT !.end = c.end]
    OBVIOUS
  <1>6. d \in Constructs /\ d.original = h /\ d.end = c.end /\ d.deferred = <<>> /\ d.kind = "if"
    <2>1. handler \in Ids /\ 0 \in 0 .. MaxDefers /\ <<>> \in Seq(DeferredStatements) /\ c.end \in Ids
      BY <1>1, <1>3, PointTypes DEF TypeOK
    <2> QED BY <1>1, <1>5, <2>1 DEF Construct, Constructs
  <1>7. PICK l : /\ l \in {m, n} /\ Len(open') = l /\ DOMAIN open' = 1 .. l
                 /\ \A i \in 1 .. m : open'[i] = open[i]
                 /\ l = n => open'[n] = d /\ c.kind = "if_else"
    <2>1. open' = IF c.kind = "if_else" THEN Append(rest, d) ELSE rest
      BY <1>1, <1>4, <1>5 DEF Closed
    <2>2. CASE c.kind = "if_else"
      <3>1. open' = Append(rest, d)
        BY <2>1, <2>2
      <3>2. /\ Len(open') = m + 1 /\ DOMAIN open' = 1 .. (m + 1)
            /\ \A i \in 1 .. m : open'[i] = rest[i]
            /\ open'[m + 1] = d
        BY <1>4, <1>6, <3>1, AppendProperties, LenProperties
      <3> QED BY <1>3, <1>4, <2>2, <3>2
    <2>3. CASE c.kind # "if_else"
      <3>1. m # n
        BY <1>3
      <3> QED BY <1>4, <2>1, <2>3, <3>1
    <2> QED BY <2>2, <2>3
  <1>8. \A j \in 1 .. m : j \in DOMAIN open' /\ j \in DOMAIN open /\ DeferredIn(j)' = DeferredIn(j)
    BY <1>3, <1>7 DEF DeferredIn
  <1>9. ASSUME NEW x, NEW i \in Int, i <= n, From(x, i)
        PROVE  \A k \in Int : i <= k => From(x, k)'
    <2>1. CASE x = 0
      BY <2>1 DEF From
    <2>2. CASE x # 0
      <3>1. PICK j \in DOMAIN open : j < i /\ x \in DeferredIn(j)
        BY <1>9, <2>2 DEF From
      <3>2. j \in 1 .. m
        BY <1>3, <1>9, <3>1
      <3>3. \A k \in Int : i <= k => j < k
        BY <1>9, <3>1, <3>2
      <3> QED BY <1>8, <3>1, <3>2, <3>3 DEF From
    <2> QED BY <2>1, <2>2
  <1>10. ASSUME ~reachable', NEW i \in DOMAIN open', LastBranch(i)'
         PROVE  From(h, i)'
    <2>1. c.kind = "block" /\ l = m /\ i \in 1 .. m /\ i \in DOMAIN open
      BY <1>1, <1>3, <1>7, <1>10
    <2>2. open[i].kind # "block"
      BY <1>7, <1>10, <2>1 DEF LastBranch
    <2>3. ASSUME NEW j \in DOMAIN open, j > i
          PROVE  open[j].kind = "block"
      <3>1. CASE j = n
        BY <1>1, <2>1, <3>1
      <3>2. CASE j # n
        <4>1. j \in 1 .. m
          BY <1>3, <3>2
        <4>2. j \in DOMAIN open' /\ open'[j] = open[j]
          BY <1>7, <2>1, <4>1
        <4> QED BY <1>10, <2>3, <4>2 DEF LastBranch
      <3> QED BY <3>1, <3>2
    <2>4. LastBranch(i)
      BY <2>2, <2>3 DEF LastBranch
    <2>5. From(h, i)
      BY <1>1, <1>10, <2>1, <2>4
    <2> QED BY <1>3, <1>9, <2>1, <2>5
  <1>11. ASSUME reachable'
         PROVE  From(h, l + 1)' /\ From(b, l + 1)'
    <2>1. From(h, n) /\ From(b, n) /\ n \in Int
      BY <1>1, <1>3, <1>11
    <2>2. PICK k \in Int : k = l + 1 /\ n <= k
      BY <1>3, <1>7
    <2> QED BY <1>9, <2>1, <2>2
  <1>12. IdleFrom'
    <2>1. reachable' => From(h, Len(open) + 1)' /\ From(b, Len(open) + 1)'
      BY <1>7, <1>11
    <2> QED BY <1>1, <1>2, <1>10, <2>1 DEF IdleFrom
  <1>13. ScopesFrom'
    <2> SUFFICES ASSUME NEW i \in DOMAIN open'
                 PROVE  /\ From(open[i].original, i)' /\ From(open[i].end, i)'
                        /\ \A k \in DOMAIN open'[i].deferred :
                              \/ From(open[i].deferred[k].handler, i)'
                              \/ \E y \in DOMAIN open'[i].deferred :
                                    y < k /\ open'[i].deferred[k].handler = Id(i, y)'
      BY DEF ScopesFrom
    <2>1. CASE i \in 1 .. m
      <3>1. open'[i] = open[i] /\ i \in DOMAIN open /\ i \in Int /\ i <= n
        BY <1>3, <1>7, <2>1
      <3>2. \A x : From(x, i) => From(x, i)'
        BY <1>9, <3>1
      <3> QED BY <3>1, <3>2, ScopeKept
    <2>2. CASE i = n /\ l = n
      <3>1. open'[i] = d /\ DOMAIN open'[i].deferred = {} /\ c.kind = "if_else"
        BY <1>6, <1>7, <2>2
      <3>2. PICK e : e = c.end
        OBVIOUS
      <3>3. h = open'[i].original /\ e = open'[i].end
        BY <1>6, <3>1, <3>2
      <3>4. From(e, n)
        BY <1>1, <1>3, <3>2 DEF ScopesFrom
      <3>5. reachable'
        BY <1>1, <3>1 DEF Closed
      <3>6. From(h, n)
        BY <1>1, <3>5
      <3>7. From(h, i)' /\ From(e, i)'
        BY <1>3, <1>9, <2>2, <3>4, <3>6
      <3> QED BY <3>1, <3>3, <3>7
    <2> QED BY <1>3, <1>7, <2>1, <2>2
  <1> QED BY <1>12, <1>13 DEF FromOK

LEMMA CloseFrom ==
    ASSUME DeferInv, FromOK, Close
    PROVE  FromOK'
  <1> SUFFICES ASSUME ~abandoned' PROVE FromOK'
    BY DEF FromOK
  <1>1. PICK n, h, c : n = Len(open) /\ h = handler /\ c = open[n]
    OBVIOUS
  <1>2. ~abandoned /\ TypeOK /\ ScopesFrom /\ open # <<>> /\ n \in Nat \ {0} /\ DOMAIN open = 1 .. n
    <2>1. ~abandoned /\ TypeOK
      BY DEF Close, Closed, DeferInv
    <2>2. open # <<>>
      BY DEF Close, Compiling, DeferInv, ExitsOK
    <2> QED BY <1>1, <2>1, <2>2, PointTypes, EmptySeq DEF FromOK, TypeOK
  <1>3. n \in DOMAIN open /\ From(c.end, n)
    BY <1>1, <1>2 DEF ScopesFrom
  <1>4. CASE Compiling /\ ~reachable /\ Closed(FALSE) /\ exits' = exits
    <2>1. exits = <<>> /\ exits' = <<>> /\ \A i \in DOMAIN open : LastBranch(i) => From(handler, i)
      BY <1>2, <1>4 DEF Compiling, FromOK, IdleFrom
    <2>2. CASE c.kind = "block"
      <3>1. ~reachable'
        BY <1>1, <1>4, <2>2 DEF Closed
      <3> QED BY <1>1, <1>2, <1>4, <2>1, <2>2, <3>1, ClosedFrom
    <2>3. CASE c.kind # "block"
      <3>1. reachable' /\ block' = c.end
        BY <1>1, <1>4, <2>3 DEF Closed
      <3>2. LastBranch(n)
        BY <1>1, <1>2, <2>3 DEF LastBranch
      <3>3. From(handler, n)
        BY <1>3, <2>1, <3>2
      <3>4. From(block', n)
        BY <1>3, <3>1
      <3> QED BY <1>1, <1>2, <1>4, <2>1, <3>1, <3>3, <3>4, ClosedFrom
    <2> QED BY <2>2, <2>3
  <1>5. CASE /\ exits # <<>> /\ Exit.pos = Exit.target /\ Exit.origin = "block" /\ Closed(~Exit.failed)
             /\ exits' = <<>>
    <2>1. BusyFrom /\ Len(exits) = 1 /\ exits[1] = Exit /\ DOMAIN exits = {1}
      BY <1>2, <1>5, OuterExit DEF FromOK
    <2>2. ~Exit.failed /\ BlockFrom
      BY <1>5, <2>1 DEF BusyFrom
    <2>3. PICK f \in BOOLEAN : f = ~Exit.failed
      OBVIOUS
    <2>4. Closed(f) /\ f = TRUE
      BY <1>5, <2>2, <2>3
    <2>5. reachable'
      BY <2>4 DEF Closed
    <2>6. Exit.target + 1 = n
      BY <1>1, <1>2, <2>1, <2>2 DEF BlockFrom
    <2>7. From(handler, n)
      BY <1>5, <2>1, <2>6 DEF BusyFrom
    <2>8. From(block', n)
      <3>1. CASE c.kind # "block"
        <4>1. block' = c.end
          BY <1>1, <1>5, <3>1 DEF Closed
        <4> QED BY <1>3, <4>1
      <3>2. CASE c.kind = "block"
        <4>1. PICK b : b = block
          OBVIOUS
        <4>2. b = block' /\ From(b, n + 1) /\ b \notin Exit.ran
          BY <1>1, <1>5, <2>1, <2>2, <3>2, <4>1 DEF Closed, BlockFrom, Behind
        <4>3. DeferredIn(n) \subseteq Exit.ran
          <5>1. Exit.done = {}
            <6>1. \A o \in 1 .. (1 - 1) : FALSE
              OBVIOUS
            <6> QED BY <2>1, <6>1 DEF DeferInv, DoneOnTheWay
          <5>2. DeferredIn(n) \cap Exit.ran = IF n > Exit.target THEN DeferredIn(n) \ Exit.done ELSE {}
            BY <1>3, <1>5, <2>2, CompleteLemma
          <5>3. n > Exit.target
            BY <1>5, <2>6, ExitFacts
          <5> QED BY <5>1, <5>2, <5>3
        <4>4. From(b, n)
          BY <1>2, <4>2, <4>3 DEF From
        <4> QED BY <4>2, <4>4
      <3> QED BY <3>1, <3>2
    <2> QED BY <1>1, <1>2, <1>5, <2>4, <2>5, <2>7, <2>8, ClosedFrom
  <1> QED BY <1>4, <1>5 DEF Close

LEMMA StutterFrom ==
    ASSUME DeferInv, FromOK, UNCHANGED vars
    PROVE  FromOK'
  <1> SUFFICES ASSUME ~abandoned' PROVE FromOK'
    BY DEF FromOK
  <1>1. PICK h, b, n : h = handler /\ b = block /\ n = Len(open)
    OBVIOUS
  <1>2. /\ UNCHANGED <<open, exits, reachable>> /\ handler' = h /\ block' = b /\ ScopesFrom
        /\ exits = <<>> => IdleFrom
        /\ exits # <<>> => BusyFrom
    BY <1>1 DEF vars, FromOK
  <1>3. ScopesFrom'
    BY <1>2, ScopesFromSame
  <1>4. /\ Deferred' = Deferred /\ \A x, i : From(x, i) => From(x, i)'
        /\ \A i \in DOMAIN open : LastBranch(i)' <=> LastBranch(i)
    BY <1>2, FromSame DEF LastBranch
  <1>5. exits = <<>> => IdleFrom'
    BY <1>1, <1>2, <1>4 DEF IdleFrom
  <1>6. ASSUME exits # <<>>
        PROVE  BusyFrom'
    <2>1. PICK e, t, v : e = Exit /\ t = Exit.target + 1 /\ v = Behind
      OBVIOUS
    <2>2. Exit' = e /\ Behind' = v
      BY <1>1, <1>2, <2>1 DEF Exit, Behind
    <2>3. Exit.pos = Exit.target => From(h, t)'
      BY <1>1, <1>2, <1>4, <1>6, <2>1 DEF BusyFrom
    <2>4. BlockFrom => BlockFrom'
      <3>1. From(v, n + 1) => From(v, n + 1)'
        BY <1>4
      <3> QED BY <1>1, <1>2, <1>4, <2>1, <2>2, <3>1 DEF BlockFrom
    <2> QED BY <1>2, <1>4, <1>6, <2>1, <2>2, <2>3, <2>4 DEF BusyFrom
  <1> QED BY <1>2, <1>3, <1>5, <1>6 DEF FromOK

LEMMA InitFrom ==
    ASSUME Init
    PROVE  FromOK
  <1>1. /\ DOMAIN open = {1} /\ open[1].deferred = <<>> /\ open[1].original = 0 /\ open[1].end = 0
        /\ handler = 0 /\ block = 0 /\ exits = <<>> /\ reachable
    BY DEF Init
  <1>2. \A i : From(0, i)
    BY DEF From
  <1>3. ScopesFrom
    <2>1. DOMAIN open[1].deferred = {}
      BY <1>1
    <2> QED BY <1>1, <1>2, <2>1 DEF ScopesFrom
  <1> QED BY <1>1, <1>2, <1>3 DEF FromOK, IdleFrom

\* The handler of code that is compiled is a deferred statement of a scope around it.
LEMMA FromCovers ==
    ASSUME FromOK, Compiling, reachable, ~abandoned
    PROVE  block \in Deferred \cup {0}
  <1>1. From(block, Len(open) + 1)
    BY DEF FromOK, IdleFrom, Compiling
  <1> QED BY <1>1 DEF From, Deferred

\* As long as no scope is left early, the code of a function of any size runs under the innermost
\* deferred statement, so that a panic executes all of them; behind early exits it runs under a
\* deferred statement of a scope around it or under none, as long as no scope exit is given up at a
\* deferred statement that always leaves (visit_defer_stmt and compile_scope_exit).
THEOREM HandlerCoversCorrect == Spec => []HandlerCovers
  <1>1. Init => DeferInv /\ HandlersOK /\ FromOK
    BY InitDefer, InitHandlers, InitFrom
  <1>2. DeferInv /\ HandlersOK /\ FromOK /\ [Next]_vars => (DeferInv /\ HandlersOK /\ FromOK)'
    <2> SUFFICES ASSUME DeferInv, HandlersOK, FromOK, [Next]_vars
                 PROVE  DeferInv' /\ HandlersOK' /\ FromOK'
      OBVIOUS
    <2>1. DeferInv'
      BY NextDefer, StutterDefer
    <2>2. HandlersOK'
      BY DeferHandlers, EnterHandlers, RunDeferredHandlers, LeaveScopeHandlers, BlockEndHandlers,
         CloseHandlers, EarlyHandlers, StutterHandlers DEF Next
    <2>3. FromOK'
      BY DeferFrom, EnterFrom, LeaveEarlyFrom, RunDeferredFrom, LeaveScopeFrom, ReturnToDeferredFrom,
         DeferContinueFrom, UnreachableFrom, BlockEndFrom, CloseFrom, StutterFrom DEF Next
    <2> QED BY <2>1, <2>2, <2>3
  <1>3. DeferInv /\ HandlersOK /\ FromOK => HandlerCovers
    <2> SUFFICES ASSUME DeferInv, HandlersOK, Compiling, ~early
                 PROVE  block = Innermost({})
      BY FromCovers DEF HandlerCovers
    <2>1. PICK n : n = Len(open) + 1
      OBVIOUS
    <2>2. Inner(block, n, 0) /\ TypeOK /\ block \in Nat
      BY <2>1 DEF HandlersOK, Compiling, DeferInv, TypeOK, Ids
    <2>3. \A j \in DOMAIN open : \A l \in DOMAIN open[j].deferred : Before(j, l, n, 0) /\ Id(j, l) \in Nat
      BY <2>1, <2>2, Positions, PointTypes DEF Before
    <2>4. \A x \in Deferred : \E j \in DOMAIN open : \E l \in DOMAIN open[j].deferred : x = Id(j, l)
      BY DEF Deferred, DeferredIn, Id
    <2>5. \A j \in DOMAIN open : \A l \in DOMAIN open[j].deferred : Id(j, l) \in Deferred
      BY DEF Deferred, DeferredIn, Id
    <2>6. \A x \in Deferred : x \in Nat /\ x <= block
      BY <2>2, <2>3, <2>4 DEF Inner
    <2>7. CASE Deferred = {}
      BY <2>2, <2>5, <2>7 DEF Inner, Innermost
    <2>8. CASE Deferred # {} /\ block \in Deferred
      <3>1. \A x \in Deferred : (\A y \in Deferred : y <= x) => x = block
        BY <2>2, <2>6, <2>8
      <3>2. \E x \in Deferred : \A y \in Deferred : y <= x
        BY <2>6, <2>8
      <3>3. Innermost({}) = CHOOSE x \in Deferred : \A y \in Deferred : y <= x
        BY <2>8 DEF Innermost
      <3> QED BY <3>1, <3>2, <3>3
    <2>9. CASE Deferred # {} /\ block = 0
      <3>1. PICK x \in Deferred : TRUE
        BY <2>9
      <3>2. x <= 0 /\ x \in Nat
        BY <2>6, <2>9, <3>1
      <3>3. PICK j \in DOMAIN open : x \in DeferredIn(j)
        BY <3>1 DEF Deferred
      <3>4. PICK l \in DOMAIN open[j].deferred : x = Id(j, l)
        BY <3>3 DEF DeferredIn, Id
      <3>5. x \in l .. Numbered /\ l >= 1 /\ l \in Nat
        BY <2>2, <3>4, Positions DEF ScopesOK, DeferInv
      <3> QED BY <3>2, <3>5
    <2> QED BY <2>2, <2>5, <2>7, <2>8, <2>9 DEF Inner
  <1> QED BY <1>1, <1>2, <1>3, PTL DEF Spec
=============================================================================
