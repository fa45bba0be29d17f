-------------------------------- MODULE Heap --------------------------------
(***************************************************************************)
(* The heap of the virtual machine and its mark and sweep collector        *)
(* (heap/heap.cpp, heap/chunks.cpp, heap/collector.cpp).                   *)
(*                                                                         *)
(* Pages are divided into cells.  Two bitmaps, represented by sets of      *)
(* cells, divide the cells of a page into blocks: a cell in `block` starts *)
(* an allocated block (which is live when it is also in `mark`), a cell in *)
(* `mark` only starts a free block, all others continue a block.  Free     *)
(* blocks are found on lists of similar size.  Large objects have chunks   *)
(* of their own.                                                           *)
(*                                                                         *)
(* The rest of the machine, the mutator, keeps roots and objects with one  *)
(* reference each and asks for new objects.  An allocation runs the        *)
(* collector when the heap has reached a threshold or nothing fits; the    *)
(* mutator waits meanwhile (there is one thread).                          *)
(***************************************************************************)
EXTENDS Integers, FiniteSets, SequencesExt

CONSTANTS
    Cells,           \* PageLayout::cells_size
    LargeCells,      \* PageLayout::large_object_cells
    ExactClasses,    \* FreeSpace::exact_size_classes
    CellSize,        \* cell_size, in bytes
    PageBytes,       \* PageLayout::page_size
    LobHeader,       \* sizeof(LargeObject)
    FirstThreshold,  \* the initial value of next_threshold_
    MaxSize,         \* max_size_
    AllocatorFails,  \* may the system's allocator fail?
    Requests,        \* new objects: their sizes in bytes, and do they have a finalizer?
    MaxObjects,      \* bound on the objects that the mutator can reach
    MaxLost          \* bound on the failures of the system's allocator

\* A page holds every object that is not large; sizes of pages and thresholds,
\* and the first size of the exponential size classes, are powers of two.
\* The cells of a request fit 32 bits: there are less than 2^32 of them.
ASSUME HeapAssumption ==
    /\ {Cells, LargeCells, ExactClasses, CellSize, PageBytes, LobHeader, FirstThreshold,
        MaxSize, MaxObjects} \subseteq Nat \ {0}
    /\ MaxLost \in Nat
    /\ LargeCells <= Cells
    /\ Requests \subseteq (Nat \ {0}) \X BOOLEAN
    /\ \A r \in Requests : (((r[1] + CellSize - 1) \div CellSize) \div 2^16) < 2^16
    /\ AllocatorFails \in BOOLEAN

VARIABLES
    pages,      \* pages_: the bitmaps and the finalizers_ of every page
    lobs,       \* lobs_: cells, mark bit and finalizer flag of the large objects
    lists,      \* FreeSpace::lists_, the head of a list first
    stats,      \* HeapStats
    threshold,  \* Collector::next_threshold_
    stage,      \* where the allocation in progress is; "run" if there is none
    request,    \* the allocation in progress
    to_trace,   \* Collector::to_trace_; the order of a stack does not matter here
    count,      \* values traced so far
    to_sweep,   \* the pages that remain to be swept
    roots,      \* what the RootSet refers to
    objects,    \* the mutator's objects, and garbage that is to be finalized: history
    lost        \* failures of the system's allocator: history

vars == <<pages, lobs, lists, stats, threshold, stage, request, to_trace, count, to_sweep,
          roots, objects, lost>>

heap == <<pages, lobs, lists, stats, threshold>>
collector == <<to_trace, count, to_sweep>>
mutator == <<roots, objects>>

-----------------------------------------------------------------------------
(* Addresses: <<p, c>> is cell c of page p, <<0, n>> is large object n. *)

null == <<0, 0>>

IsLob(ref) == ref[1] = 0

CellIndices == 0 .. (Cells - 1)

\* The objects that the objects in s refer to, among objects os.
Fields(os, s) == {os[r].field : r \in s} \ {null}

\* What can be reached from roots rs, in any number of steps: what is in every set
\* that contains the roots and the references of its members.
ReachableFrom(rs, os) ==
    LET closed == {s \in {rs \cup t : t \in SUBSET (DOMAIN os \ rs)} : Fields(os, s) \subseteq s}
    IN  {r \in DOMAIN os : \A s \in closed : r \in s}

\* What the mutator can get hold of.
Reachable == ReachableFrom(roots, objects)

\* The history of objects os with roots rs: of garbage, which nobody can read,
\* only the finalizers are of interest.
History(rs, os) ==
    LET live == ReachableFrom(rs, os)
    IN  [r \in {r \in DOMAIN os : r \in live \/ os[r].finalizer} |->
            [os[r] EXCEPT !.field = IF r \in live THEN @ ELSE null]]

-----------------------------------------------------------------------------
(* Numbers. *)

log2(n) == CHOOSE k \in 0 .. n : 2^k <= n /\ n < 2^(k + 1)

\* ceil_pow2_fast
ceil_pow2(n) == CHOOSE m \in {2^k : k \in 0 .. n} : n <= m /\ m < 2 * n

SumOf(Size(_), s) == MapThenSumSet(Size, s)

ceil_div(m, n) == (m + n - 1) \div n

\* FreeSpace::class_count: ExactClasses classes, two for every power of two up
\* to a quarter of a page, and one for everything else.
ClassCount ==
    ExactClasses + (log2(ceil_pow2(Cells) \div 4) - log2(ExactClasses + 1)) * 2 + 1

\* The size class for blocks of n cells.
class_index(n) ==
    IF n <= ExactClasses THEN n - 1
    ELSE LET log == log2(n)
             exp == (log - log2(ExactClasses + 1)) * 2
                    + (IF n - 2^log >= 2^(log - 1) THEN 1 ELSE 0)
         IN  Min({exp + ExactClasses, ClassCount - 1})

\* "invalid size class index" (FreeSpace::class_size): every block has a list.
ASSUME ClassAssumption ==
    ClassCount \in Nat /\ \A n \in 1 .. Cells : class_index(n) \in 0 .. (ClassCount - 1)

\* The smallest size of a class.
class_size(i) ==
    IF i < ExactClasses THEN i + 1
    ELSE LET exp == log2(ExactClasses + 1) + ((i - ExactClasses) \div 2)
         IN  2^exp + ((i + 1) % 2) * 2^(exp - 1)

-----------------------------------------------------------------------------
(* Free space. *)

\* Insert a block into the list of its size class (FreeSpace::insert_free).
insert_free(ls, b) == [ls EXCEPT ![class_index(b.size)] = <<b>> \o @]

\* The position of the first block of a list that is large enough, 0 if none is.
first_fit(i, n) == SelectInSeq(lists[i], LAMBDA b : b.size >= n)

\* The size classes with a block for n cells; allocate_exact takes the first one.
Candidates(n) == {i \in DOMAIN lists : i >= class_index(n) /\ first_fit(i, n) # 0}

set_allocated(page, c) == [page EXCEPT !.block = @ \cup {c}, !.mark = @ \ {c}]
set_free(page, c)      == [page EXCEPT !.block = @ \ {c}, !.mark = @ \cup {c}]

\* Heap::mark_finalizer, for objects that have one
mark_finalizer(page, c, finalizer) ==
    [page EXCEPT !.finalizers = IF finalizer THEN @ \cup {c} ELSE @]

\* The block that allocate_exact finds for n cells, and the lists without it.
Found(n) == LET i == Min(Candidates(n)) IN lists[i][first_fit(i, n)]
Without(n) == LET i == Min(Candidates(n)) IN [lists EXCEPT ![i] = RemoveAt(@, first_fit(i, n))]

\* What remains of the block that has been found.
Rest(n) ==
    LET b == Found(n) IN [page |-> b.page, cell |-> b.cell + n, size |-> b.size - n]

-----------------------------------------------------------------------------
(* Allocation. *)

NoRequest == [bytes |-> 0, finalizer |-> FALSE, ran |-> FALSE, paged |-> FALSE]

\* cells_request, a u32: the number is converted without a check, and by the
\* assumption on the requests nothing is cut off.
Request == ceil_div(request.bytes, CellSize)

IsLarge == Request >= LargeCells

\* The function f with the value v for x.
Insert(f, x, v) == [y \in DOMAIN f \cup {x} |-> IF y = x THEN v ELSE f[y]]

\* The caller has the new object; for an object with a finalizer, mark_finalizer
\* has been called.  It is a root until the mutator has stored it elsewhere.
Created(ref) ==
    /\ objects' = Insert(objects, ref, [cells |-> Request, finalizer |-> request.finalizer,
                                        finalized |-> 0, field |-> null])
    /\ roots' = roots \cup {ref}
    /\ stage' = "run"
    /\ request' = NoRequest
    /\ UNCHANGED <<threshold, collector, lost>>

\* Heap::allocate begins; the collector runs if the threshold has been reached.
Allocate(bytes, finalizer) ==
    /\ stage = "run"
    /\ Cardinality(Reachable) < MaxObjects
    /\ request' = [bytes |-> bytes, finalizer |-> finalizer,
                   ran |-> stats.allocated >= threshold, paged |-> FALSE]
    /\ stage' = IF request'.ran THEN "roots" ELSE "find"
    /\ UNCHANGED <<heap, collector, mutator, lost>>

\* Heap::allocate_raw: may n bytes be requested from the system?
Allowed(n) == n <= MaxSize - stats.total

LobBytes(cells) == LobHeader + cells * CellSize

\* A large object has a chunk of its own.
AllocateLob ==
    /\ stage = "find"
    /\ IsLarge
    /\ Allowed(LobBytes(Request))
    /\ LET n == Min((1 .. Cardinality(DOMAIN lobs) + 1) \ DOMAIN lobs)
       IN  /\ lobs' = Insert(lobs, n, [cells |-> Request, marked |-> FALSE,
                                       finalizer |-> request.finalizer])
           /\ Created(<<0, n>>)
    /\ stats' = [stats EXCEPT !.total = @ + LobBytes(Request),
                              !.allocated = @ + request.bytes,
                              !.objects = @ + 1]
    /\ UNCHANGED <<pages, lists>>

\* Mutant: the rest of the block gets no start of its own in the bitmaps.
SplitUnmarked(n) ==
    /\ pages' = [pages EXCEPT ![Found(n).page] =
            mark_finalizer(set_allocated(@, Found(n).cell), Found(n).cell, request.finalizer)]
    /\ lists' = IF Rest(n).size = 0 THEN Without(n) ELSE insert_free(Without(n), Rest(n))

\* The object takes the first n cells of the block; the rest, if any, becomes a
\* new free block.
Split(n) ==
    IF Rest(n).size = 0
    THEN /\ pages' = [pages EXCEPT ![Found(n).page] =
                mark_finalizer(set_allocated(@, Found(n).cell), Found(n).cell, request.finalizer)]
         /\ lists' = Without(n)
    ELSE /\ pages' = [pages EXCEPT ![Found(n).page] =
                mark_finalizer(set_free(set_allocated(@, Found(n).cell), Rest(n).cell),
                               Found(n).cell, request.finalizer)]
         /\ lists' = insert_free(Without(n), Rest(n))

\* FreeSpace::allocate_exact succeeds.
AllocateExact ==
    /\ stage = "find"
    /\ ~IsLarge
    /\ Candidates(Request) # {}
    /\ Split(Request)
    /\ Created(<<Found(Request).page, Found(Request).cell>>)
    /\ stats' = [stats EXCEPT !.allocated = @ + request.bytes,
                              !.free = @ - request.bytes,
                              !.objects = @ + 1]
    /\ UNCHANGED lobs

NothingFits == stage = "find" /\ ~IsLarge /\ Candidates(Request) = {}

\* "Run collector if initial allocation fails."
CollectOnFailure ==
    /\ NothingFits
    /\ pages # <<>> /\ ~request.ran
    /\ stage' = "roots"
    /\ request' = [request EXCEPT !.ran = TRUE]
    /\ UNCHANGED <<heap, collector, mutator, lost>>

\* The allocation needs a new page.
NeedsPage == NothingFits /\ (pages = <<>> \/ request.ran) /\ ~request.paged

\* Heap::add_page
AddPage ==
    /\ NeedsPage
    /\ Allowed(PageBytes)
    /\ pages' = Append(pages, set_free([block |-> {}, mark |-> {}, finalizers |-> {}], 0))
    /\ lists' = insert_free(lists, [page |-> Len(pages) + 1, cell |-> 0, size |-> Cells])
    /\ stats' = [stats EXCEPT !.total = @ + PageBytes, !.free = @ + Cells * CellSize]
    /\ request' = [request EXCEPT !.paged = TRUE]
    /\ UNCHANGED <<lobs, threshold, stage, collector, mutator, lost>>

\* What the allocation asks the system for.
RawRequest == IF IsLarge THEN LobBytes(Request) ELSE PageBytes

NeedsMemory == NeedsPage \/ (stage = "find" /\ IsLarge)

\* "memory limit reached": an exception, nothing has been created.
LimitReached ==
    /\ NeedsMemory
    /\ ~Allowed(RawRequest)
    /\ stage' = "run"
    /\ request' = NoRequest
    /\ UNCHANGED <<heap, collector, mutator, lost>>

\* The system's allocator fails: another exception, after total_bytes has been updated.
AllocatorFailure ==
    /\ AllocatorFails /\ lost < MaxLost
    /\ NeedsMemory
    /\ Allowed(RawRequest)
    /\ stats' = [stats EXCEPT !.total = @ + RawRequest]
    /\ lost' = lost + RawRequest
    /\ stage' = "run"
    /\ request' = NoRequest
    /\ UNCHANGED <<pages, lobs, lists, threshold, collector, mutator>>

-----------------------------------------------------------------------------
(* The collector. *)

Marked(ref) == IF IsLob(ref) THEN lobs[ref[2]].marked ELSE ref[2] \in pages[ref[1]].mark

\* Mutant: large objects are marked but not visited.
mark_small(refs, rest) ==
    LET new == {r \in refs : ~Marked(r)}
    IN  /\ pages' = [p \in DOMAIN pages |->
                [pages[p] EXCEPT !.mark = @ \cup {c \in CellIndices : <<p, c>> \in new}]]
        /\ lobs' = [n \in DOMAIN lobs |->
                [lobs[n] EXCEPT !.marked = @ \/ <<0, n>> \in new]]
        /\ to_trace' = rest \cup {r \in new : ~IsLob(r)}

\* Collector::mark for a set of references; `rest` is what remains on the stack.
mark(refs, rest) ==
    LET new == {r \in refs : ~Marked(r)}
    IN  /\ pages' = [p \in DOMAIN pages |->
                [pages[p] EXCEPT !.mark = @ \cup {c \in CellIndices : <<p, c>> \in new}]]
        /\ lobs' = [n \in DOMAIN lobs |->
                [lobs[n] EXCEPT !.marked = @ \/ <<0, n>> \in new]]
        /\ to_trace' = rest \cup new

\* "Visit all root objects."
TraceRoots ==
    /\ stage = "roots"
    /\ mark(roots, {})
    /\ stage' = "trace"
    /\ UNCHANGED <<lists, stats, threshold, request, count, to_sweep, mutator, lost>>

\* "Visit all reachable objects": one of them.
TraceValue(ref) ==
    /\ stage = "trace"
    /\ ref \in to_trace
    /\ mark(Fields(objects, {ref}), to_trace \ {ref})
    /\ count' = count + 1
    /\ UNCHANGED <<lists, stats, threshold, stage, request, to_sweep, mutator, lost>>

\* The history of the objects when those in s have been finalized once more.
Finalize(s) ==
    objects' = [r \in DOMAIN objects |->
        [objects[r] EXCEPT !.finalized = @ + (IF r \in s THEN 1 ELSE 0)]]

LobsToFinalize(dead) == {<<0, n>> : n \in {n \in dead : lobs[n].finalizer}}

PageToFinalize(p) == {<<p, c>> : c \in pages[p].finalizers \ pages[p].mark}

\* Tracing is complete.  Heap::sweep drops the free lists and begins with the large objects.
SweepLobs ==
    /\ stage = "trace"
    /\ to_trace = {}
    /\ LET dead == {n \in DOMAIN lobs : ~lobs[n].marked}
           live == DOMAIN lobs \ dead
       IN  /\ Finalize(LobsToFinalize(dead))
           /\ lobs' = [n \in live |-> [lobs[n] EXCEPT !.marked = FALSE]]
           /\ stats' = [stats EXCEPT !.objects = count, !.free = 0,
                    !.allocated = SumOf(LAMBDA n : lobs[n].cells * CellSize, live),
                    !.total = @ - SumOf(LAMBDA n : LobBytes(lobs[n].cells), dead)]
    /\ lists' = [i \in DOMAIN lists |-> <<>>]
    /\ stage' = "sweep"
    /\ count' = 0
    /\ to_sweep' = DOMAIN pages
    /\ UNCHANGED <<pages, threshold, request, to_trace, roots, lost>>

\* The first cell in s after cell c; the end of the page if there is none.
NextIn(s, c) == Min({d \in s : d > c} \cup {Cells})

\* Page::sweep, on the bitmaps: block & mark, block ^ mark.
SweptBlock(p) == pages[p].block \cap pages[p].mark
SweptMark(p)  == (pages[p].block \cup pages[p].mark) \ SweptBlock(p)

\* Mutant: adjacent free blocks are not merged.
free_starts_all(p) == SweptMark(p)

\* Free blocks are merged with the free blocks before them.
free_starts(p) ==
    {c \in SweptMark(p) : \A d \in SweptMark(p) : d < c => NextIn(SweptBlock(p), d) < c}

FreeBlock(p, c) == [page |-> p, cell |-> c, size |-> NextIn(SweptBlock(p), c) - c]

\* The first cells of the free blocks of page p in size class i, the last one first.
FreeCellsOf(p, i) == {c \in free_starts(p) : class_index(FreeBlock(p, c).size) = i}
Descending(s) ==
    [k \in 1 .. Cardinality(s) |-> CHOOSE c \in s : Cardinality({d \in s : d > c}) = k - 1]
FreeBlockList(p, i) ==
    LET cells == Descending(FreeCellsOf(p, i))
    IN  [k \in DOMAIN cells |-> FreeBlock(p, cells[k])]

\* Page::sweep of one page; pages are visited in the order of a hash table.  The
\* free blocks are pushed to the front of their lists, the first one first.
SweepPage(p) ==
    /\ stage = "sweep"
    /\ p \in to_sweep
    /\ to_sweep' = to_sweep \ {p}
    /\ Finalize(PageToFinalize(p))
    /\ pages' = [pages EXCEPT ![p] =
            [block |-> SweptBlock(p), mark |-> free_starts(p), finalizers |-> @.finalizers \cap @.mark]]
    /\ LET free == SumOf(LAMBDA c : FreeBlock(p, c).size, free_starts(p))
       IN  stats' = [stats EXCEPT !.free = @ + free * CellSize,
                                  !.allocated = @ + (Cells - free) * CellSize]
    /\ lists' = [i \in DOMAIN lists |-> FreeBlockList(p, i) \o lists[i]]
    /\ UNCHANGED <<lobs, threshold, stage, request, to_trace, count, roots, lost>>

\* What is allocated never exceeds the largest power of two
\* of a size_t, for which the code has a branch of its own.
compute_next_threshold(last, size) ==
    IF size <= (last \div 3) * 2 THEN last ELSE ceil_pow2(size)

\* The end of Collector::collect; the allocation goes on.  Dead objects are
\* dropped from the history.
FinishCollector ==
    /\ stage = "sweep"
    /\ to_sweep = {}
    /\ threshold' = compute_next_threshold(threshold, stats.allocated)
    /\ objects' = [r \in Reachable |-> objects[r]]
    /\ stage' = "find"
    /\ UNCHANGED <<pages, lobs, lists, stats, request, collector, roots, lost>>

-----------------------------------------------------------------------------
(* The mutator. *)

\* Store a reference, or null, in a reachable object.  Native objects, which have
\* finalizers, do not contain references.
Store(ref, value) ==
    /\ stage = "run"
    /\ ref \in Reachable /\ ~objects[ref].finalizer
    /\ value \in Reachable \cup {null}
    /\ objects' = History(roots, [objects EXCEPT ![ref].field = value])
    /\ UNCHANGED <<heap, stage, request, collector, roots, lost>>

\* A handle refers to a reachable object, or no longer refers to it.
Keep(ref) ==
    /\ stage = "run"
    /\ ref \in Reachable
    /\ roots' = roots \cup {ref}
    /\ UNCHANGED <<heap, stage, request, collector, objects, lost>>

Drop(ref) ==
    /\ stage = "run"
    /\ ref \in roots
    /\ roots' = roots \ {ref}
    /\ objects' = History(roots', objects)
    /\ UNCHANGED <<heap, stage, request, collector, lost>>

\* Heap::~Heap
Destroy ==
    /\ stage = "run"
    /\ Finalize(LobsToFinalize(DOMAIN lobs) \cup UNION {PageToFinalize(p) : p \in DOMAIN pages})
    /\ stats' = [stats EXCEPT !.total =
            @ - Len(pages) * PageBytes - SumOf(LAMBDA n : LobBytes(lobs[n].cells), DOMAIN lobs)]
    /\ pages' = <<>>
    /\ lobs' = <<>>
    /\ stage' = "destroyed"
    /\ UNCHANGED <<lists, threshold, request, collector, roots, lost>>

-----------------------------------------------------------------------------
Init ==
    /\ pages = <<>>
    /\ lobs = <<>>
    /\ lists = [i \in 0 .. (ClassCount - 1) |-> <<>>]
    /\ stats = [total |-> 0, allocated |-> 0, free |-> 0, objects |-> 0]
    /\ threshold = FirstThreshold
    /\ stage = "run"
    /\ request = NoRequest
    /\ to_trace = {} /\ count = 0 /\ to_sweep = {}
    /\ roots = {}
    /\ objects = <<>>
    /\ lost = 0

Collect ==
    \/ TraceRoots \/ SweepLobs \/ FinishCollector
    \/ \E ref \in to_trace : TraceValue(ref)
    \/ \E p \in to_sweep : SweepPage(p)

FinishAllocation ==
    AllocateLob \/ AllocateExact \/ CollectOnFailure \/ AddPage \/ LimitReached \/ AllocatorFailure

Next ==
    \/ \E r \in Requests : Allocate(r[1], r[2])
    \/ FinishAllocation
    \/ Collect
    \/ \E ref \in DOMAIN objects, value \in DOMAIN objects \cup {null} : Store(ref, value)
    \/ \E ref \in DOMAIN objects : Keep(ref) \/ Drop(ref)
    \/ Destroy

Spec == Init /\ [][Next]_vars

-----------------------------------------------------------------------------
(* Properties. *)

Stages == {"run", "find", "roots", "trace", "sweep", "destroyed"}

FreeBlocks == [page : DOMAIN pages, cell : CellIndices, size : 1 .. Cells]

\* Every variable has its type; counters never become negative.
TypeOK ==
    /\ pages \in Seq([block : SUBSET CellIndices, mark : SUBSET CellIndices,
                      finalizers : SUBSET CellIndices])
    /\ \A n \in DOMAIN lobs :
        lobs[n] \in [cells : Nat, marked : BOOLEAN, finalizer : BOOLEAN]
    /\ stage # "destroyed" => \A i \in DOMAIN lists : lists[i] \in Seq(FreeBlocks)
    /\ stats \in [total : 0 .. MaxSize, allocated : Nat, free : Nat, objects : Nat]
    /\ threshold \in Nat
    /\ stage \in Stages
    /\ to_trace \subseteq DOMAIN objects
    /\ to_sweep \subseteq DOMAIN pages
    /\ roots \subseteq DOMAIN objects

\* The cells that start a block, free or allocated.
Starts(p) == pages[p].block \cup pages[p].mark

\* Whatever is allocated, collected and allocated again, the object behind every
\* reference that the mutator can follow still has the storage it was created
\* with: a block with exactly its cells, which is not free, or its own chunk.
ObjectsIntact ==
    stage # "destroyed" =>
        \A r \in Reachable :
            IF IsLob(r)
            THEN r[2] \in DOMAIN lobs /\ lobs[r[2]].cells = objects[r].cells
            ELSE /\ r[1] \in DOMAIN pages /\ r[2] \in pages[r[1]].block
                 /\ NextIn(Starts(r[1]), r[2]) - r[2] = objects[r].cells

\* The free blocks of page p, according to its bitmaps.
FreeBlocksOf(p) ==
    {[page |-> p, cell |-> c, size |-> NextIn(Starts(p), c) - c] :
        c \in pages[p].mark \ pages[p].block}

\* The free blocks of the bitmaps are exactly the blocks on the free lists, with
\* their sizes, each once, in the list of its size class; every cell of a page
\* belongs to a block.
FreeListsMatchPages ==
    stage \in {"run", "find"} =>
        /\ \A p \in DOMAIN pages : 0 \in Starts(p)
        /\ \A i \in DOMAIN lists :
            /\ IsInjective(lists[i])
            /\ Range(lists[i]) = {b \in UNION {FreeBlocksOf(p) : p \in DOMAIN pages} :
                                    class_index(b.size) = i}

\* "size class i contains all memory blocks with block_size >= size[i] &&
\* block_size < size[i+1]", "the last size class contains all larger memory
\* blocks" (FreeSpace): what class_size says of a list is true of the blocks that
\* splits and sweeps have put there.
SizeClasses ==
    \A i \in DOMAIN lists : \A b \in Range(lists[i]) :
        /\ class_size(i) <= b.size
        /\ i + 1 \in DOMAIN lists => b.size < class_size(i + 1)

\* When a collection is over, adjacent free blocks have been merged and nothing
\* remains allocated that the mutator cannot reach: no garbage survives, whatever
\* cycles and chains it forms.
CollectionComplete ==
    stage = "sweep" /\ to_sweep = {} =>
        /\ {<<0, n>> : n \in DOMAIN lobs} = {r \in Reachable : IsLob(r)}
        /\ \A p \in DOMAIN pages :
            /\ {<<p, c>> : c \in pages[p].block} = {r \in Reachable : r[1] = p}
            /\ \A c \in pages[p].mark : NextIn(Starts(p), c) \notin pages[p].mark
        /\ stats.objects = Cardinality(Reachable)

\* A finalizer runs once, when its object is collected or the heap is destroyed,
\* never while the object can be reached, and never for an object without one.
FinalizedOnce ==
    /\ stage \notin {"sweep", "destroyed"} => \A r \in DOMAIN objects : objects[r].finalized = 0
    /\ stage = "sweep" /\ to_sweep = {} =>
        \A r \in DOMAIN objects :
            objects[r].finalized =
                (IF objects[r].finalizer /\ r \notin Reachable THEN 1 ELSE 0)
    /\ stage = "destroyed" =>
        \A r \in DOMAIN objects : objects[r].finalized = (IF objects[r].finalizer THEN 1 ELSE 0)

\* The cells that are free.
FreeCells ==
    SumOf(LAMBDA b : b.size, UNION {FreeBlocksOf(p) : p \in DOMAIN pages})

\* The statistics agree with the heap between two allocations: memory from the
\* system, number of objects, and free and allocated bytes, which differ from
\* whole cells only by the padding of objects allocated since the last collection.
StatsAgree ==
    stage = "run" =>
        /\ stats.total - lost = Len(pages) * PageBytes
                + SumOf(LAMBDA n : LobBytes(lobs[n].cells), DOMAIN lobs)
        /\ stats.objects = Cardinality(DOMAIN lobs)
                + SumOf(LAMBDA p : Cardinality(pages[p].block), DOMAIN pages)
        /\ stats.free - FreeCells * CellSize \in 0 .. stats.objects * (CellSize - 1)
        /\ stats.allocated + stats.free <= Len(pages) * Cells * CellSize
                + SumOf(LAMBDA n : lobs[n].cells * CellSize, DOMAIN lobs)

\* The last resort works: an allocation for which a page has been added fits
\* ("allocation request failed after new page was allocated" is never thrown).
NewPageSuffices == request.paged => ~NothingFits

\* Mark bits, free lists, size classes and statistics are four views of the same pages and agree
\* between any two operations; a page that was just added fits the request it was added for
\* (chunks.cpp, heap.cpp).
BookkeepingAgrees == TypeOK /\ FreeListsMatchPages /\ SizeClasses /\ StatsAgree /\ NewPageSuffices

\* A collection frees exactly the unreachable objects, and runs a finalizer once (collector.cpp,
\* heap.cpp sweep).
CollectionExact == CollectionComplete /\ FinalizedOnce
=============================================================================
