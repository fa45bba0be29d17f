----------------------------- MODULE HostProofs -----------------------------
(***************************************************************************)
(* Proofs about the C API and its host: the external slots, for pages of   *)
(* any size and any number of them; the contents of the objects that the   *)
(* host and its scripts share, whatever the collector frees between the    *)
(* calls; and the callbacks and finalizers of what the host hands over.    *)
(* All are for any hosts, and any number of objects and userdata.          *)
(***************************************************************************)
EXTENDS Host, FiniteSetTheorems, WellFoundedInduction, TLAPS

\* A step that stores values behind handles, and nothing else in the slots.
SlotsKept ==
    /\ UNCHANGED storage
    /\ DOMAIN slot' = DOMAIN slot
    /\ \A s \in Slots \ Handles : slot'[s] = slot[s]

\* The inductive invariant of the slots: handles are slots of the pages, and all
\* others are on the list of free slots.
StorageInv ==
    /\ DOMAIN slot = Slots /\ allocated \in [Slots -> BOOLEAN]
    /\ pages \in 0..MaxPages /\ free_slots \in Nat
    /\ Handles \subseteq 1..pages * PageSlots
    /\ FreeListExact

-----------------------------------------------------------------------------
(* Pages. *)

\* Pages exist and are not empty.
LEMMA Sizes == PageSlots \in Nat \ {0} /\ MaxPages \in Nat \ {0}
  BY HostAssumption

\* Where a page ends the next one begins.
LEMMA PageBounds ==
    ASSUME NEW p \in 0..MaxPages
    PROVE  /\ p * PageSlots \in Nat /\ (p + 1) * PageSlots = p * PageSlots + PageSlots
           /\ 1..p * PageSlots \subseteq Slots
           /\ p < MaxPages => 1..(p + 1) * PageSlots \subseteq Slots
  <1>1. PageSlots \in Nat \ {0} /\ MaxPages \in Nat \ {0}
    BY HostAssumption
  <1>2. \A a, b \in Nat : a <= b => a * PageSlots <= b * PageSlots
    BY <1>1
  <1>3. \A n \in Nat : n * PageSlots = PageSlots * n /\ n * PageSlots \in Nat
    BY <1>1
  <1>4. Slots = 1..MaxPages * PageSlots
    BY <1>1, <1>3 DEF Slots
  <1>5. (p + 1) * PageSlots = p * PageSlots + PageSlots
    BY <1>1
  <1>6. p * PageSlots <= MaxPages * PageSlots
    BY <1>1, <1>2
  <1>7. p < MaxPages => (p + 1) * PageSlots <= MaxPages * PageSlots
    BY <1>1, <1>2
  <1>8. p * PageSlots \in Nat /\ (p + 1) * PageSlots \in Nat /\ MaxPages * PageSlots \in Nat
    BY <1>1, <1>3
  <1> HIDE DEF Slots
  <1>9. 1..p * PageSlots \subseteq Slots
    BY <1>4, <1>6, <1>8
  <1>10. p < MaxPages => 1..(p + 1) * PageSlots \subseteq Slots
    BY <1>4, <1>7, <1>8
  <1> QED BY <1>5, <1>8, <1>9, <1>10

\* A slot is not NULL.
LEMMA NullIsNoSlot == NULL \notin Slots
  BY HostAssumption DEF Slots, NULL

\* The invariant depends only on the free slots and the bookkeeping.
LEMMA KeptInv ==
    ASSUME StorageInv, SlotsKept
    PROVE  StorageInv'
  <1> USE DEF StorageInv, SlotsKept, storage
  <1>1. Handles' = Handles /\ FreeSlots' = FreeSlots
    BY DEF Handles, FreeSlots
  <1>2. FreeSlots \subseteq Slots \ Handles
    BY PageBounds DEF FreeSlots
  <1>3. FreeListExact'
    <2>1. PICK list \in [1..free_slots -> FreeSlots] :
            /\ \A s \in FreeSlots : \E n \in 1..free_slots : list[n] = s
            /\ \A m, n \in 1..free_slots : list[m] = list[n] => m = n
            /\ first_free = IF free_slots = 0 THEN NULL ELSE list[1]
            /\ \A n \in 1..free_slots :
                slot[list[n]] = NextFree(IF n = free_slots THEN NULL ELSE list[n + 1])
      BY DEF FreeListExact
    <2>2. \A n \in 1..free_slots : slot'[list[n]] = slot[list[n]]
      BY <1>2
    <2>3. free_slots' = free_slots /\ first_free' = first_free
      OBVIOUS
    <2>4. \A n \in 1..free_slots' :
            slot'[list[n]] = NextFree(IF n = free_slots' THEN NULL ELSE list[n + 1])
      BY <2>1, <2>2, <2>3
    <2>5. /\ list \in [1..free_slots' -> FreeSlots']
          /\ \A s \in FreeSlots' : \E n \in 1..free_slots' : list[n] = s
          /\ \A m, n \in 1..free_slots' : list[m] = list[n] => m = n
          /\ first_free' = IF free_slots' = 0 THEN NULL ELSE list[1]
      BY <1>1, <2>1, <2>3
    <2> HIDE DEF StorageInv, SlotsKept, storage
    <2> QED BY <2>4, <2>5, Zenon DEF FreeListExact
  <1> QED BY <1>1, <1>3

-----------------------------------------------------------------------------
(* Allocating and freeing slots. *)

\* A new page is linked from its last slot down to its first.
LEMMA GrowStep ==
    ASSUME StorageInv, NEW v, allocate_slot(v), first_free = NULL
    PROVE  StorageInv'
  <1> USE Sizes
  <1>1. PICK list \in [1..free_slots -> FreeSlots] :
            /\ \A s \in FreeSlots : \E n \in 1..free_slots : list[n] = s
            /\ first_free = IF free_slots = 0 THEN NULL ELSE list[1]
    BY DEF StorageInv, FreeListExact
  <1>2. FreeSlots \subseteq Slots
    BY PageBounds DEF StorageInv, FreeSlots
  <1>3. free_slots = 0 /\ FreeSlots = {}
    <2>1. free_slots \in Nat
      BY DEF StorageInv
    <2>2. CASE free_slots # 0
      <3>1. list[1] \in Slots
        BY <1>1, <1>2, <2>1, <2>2
      <3> QED BY <1>1, <2>2, <3>1, NullIsNoSlot
    <2> QED BY <1>1, <2>1, <2>2
  <1>4. PICK base \in Nat : base = pages * PageSlots
    BY PageBounds DEF StorageInv
  <1>5. pages < MaxPages /\ pages' = pages + 1 /\ free_slots' = PageSlots - 1
    BY <1>3 DEF allocate_slot, StorageInv
  <1>6. PICK top \in Nat \ {0} : top = base + PageSlots
    BY <1>4
  <1>0. base \in Nat /\ top = base + PageSlots /\ free_slots' = PageSlots - 1
    BY <1>5, <1>6
  <1>7. (pages + 1) * PageSlots = top /\ pages * PageSlots = base /\ 1..top \subseteq Slots
    BY <1>4, <1>5, <1>6, PageBounds DEF StorageInv
  <1>8. \A s \in Slots : link_page(pages)[s] =
            IF s \in base + 1..top
            THEN NextFree(IF s = base + 1 THEN NULL ELSE s - 1) ELSE slot[s]
    BY <1>7 DEF link_page
  <1>9. DOMAIN link_page(pages) = Slots
    BY DEF link_page
  <1>10. /\ slot' = [link_page(pages) EXCEPT ![top] = Stored(v)]
         /\ allocated' = [allocated EXCEPT ![top] = TRUE]
         /\ first_free' = link_page(pages)[top][2]
    BY <1>7 DEF allocate_slot
  <1>11. top \in Slots /\ top \in base + 1..top
    BY <1>4, <1>6, <1>7
  <1>12. Handles = 1..base
    BY <1>3, <1>7 DEF FreeSlots, StorageInv
  <1>13. allocated' \in [Slots -> BOOLEAN] /\ Handles' = (1..base) \cup {top}
    BY <1>10, <1>11, <1>12 DEF StorageInv, Handles
  <1>14. pages' * PageSlots = top
    BY <1>5, <1>7
  <1>15. FreeSlots' = base + 1..top - 1
    BY <1>4, <1>6, <1>13, <1>14 DEF FreeSlots
  <1>16. /\ DOMAIN slot' = Slots
         /\ \A s \in base + 1..top - 1 : slot'[s] = NextFree(IF s = base + 1 THEN NULL ELSE s - 1)
    <2>1. \A s \in base + 1..top - 1 : s \in Slots /\ s # top /\ s \in base + 1..top
      BY <1>4, <1>6, <1>7
    <2> QED BY <1>8, <1>9, <1>10, <2>1
  <1>17. first_free' = IF PageSlots = 1 THEN NULL ELSE top - 1
    <2>1. link_page(pages)[top] = NextFree(IF top = base + 1 THEN NULL ELSE top - 1)
      BY <1>8, <1>11
    <2>2. first_free' = IF top = base + 1 THEN NULL ELSE top - 1
      BY <1>10, <2>1 DEF NextFree
    <2>3. top = base + 1 <=> PageSlots = 1
      BY <1>4, <1>6
    <2> QED BY <2>2, <2>3
  <1>18. FreeListExact'
    <2>1. PICK chain : chain = [n \in 1..PageSlots - 1 |-> top - n]
      OBVIOUS
    <2>2. /\ DOMAIN chain = 1..free_slots'
          /\ \A n \in 1..free_slots' : chain[n] = top - n /\ chain[n] \in base + 1..top - 1
      BY <1>0, <2>1
    <2>3. chain \in [1..free_slots' -> FreeSlots']
      BY <1>15, <2>1, <2>2, <1>0
    <2>4. \A s \in FreeSlots' : \E n \in 1..free_slots' : chain[n] = s
      <3> SUFFICES ASSUME NEW s \in FreeSlots'
                   PROVE  \E n \in 1..free_slots' : chain[n] = s
        OBVIOUS
      <3>1. s \in base + 1..top - 1
        BY <1>15
      <3>2. top - s \in 1..free_slots' /\ top - (top - s) = s
        <4>1. s \in Nat /\ base < s /\ s < top /\ top = base + PageSlots
          BY <1>0, <3>1
        <4> QED BY <1>0, <4>1
      <3> QED BY <2>2, <3>2
    <2>5. \A m, n \in 1..free_slots' : chain[m] = chain[n] => m = n
      BY <1>0, <2>2
    <2>6. first_free' = IF free_slots' = 0 THEN NULL ELSE chain[1]
      BY <1>0, <1>17, <2>2
    <2>7. ASSUME NEW n \in 1..free_slots'
          PROVE  slot'[chain[n]] = NextFree(IF n = free_slots' THEN NULL ELSE chain[n + 1])
      <3>1. chain[n] = base + 1 <=> n = free_slots'
        BY <1>0, <2>2
      <3>2. n # free_slots' => chain[n + 1] = chain[n] - 1
        BY <1>0, <2>2
      <3> QED BY <1>16, <2>2, <3>1, <3>2
    <2> QED BY <2>3, <2>4, <2>5, <2>6, <2>7 DEF FreeListExact
  <1>19. pages' \in 0..MaxPages /\ free_slots' \in Nat /\ Handles' \subseteq 1..pages' * PageSlots
    BY <1>4, <1>5, <1>6, <1>13, <1>14 DEF StorageInv
  <1> QED BY <1>13, <1>16, <1>18, <1>19 DEF StorageInv

\* The first slot of the list is taken.
LEMMA TakeStep ==
    ASSUME StorageInv, NEW v, allocate_slot(v), first_free # NULL
    PROVE  StorageInv'
  <1> USE Sizes
  <1>1. PICK list \in [1..free_slots -> FreeSlots] :
            /\ \A s \in FreeSlots : \E n \in 1..free_slots : list[n] = s
            /\ \A m, n \in 1..free_slots : list[m] = list[n] => m = n
            /\ first_free = IF free_slots = 0 THEN NULL ELSE list[1]
            /\ \A n \in 1..free_slots :
                slot[list[n]] = NextFree(IF n = free_slots THEN NULL ELSE list[n + 1])
    BY DEF StorageInv, FreeListExact
  <1>2. /\ pages \in 0..MaxPages /\ pages' = pages /\ free_slots \in Nat /\ free_slots' = free_slots - 1
        /\ slot' = [slot EXCEPT ![first_free] = Stored(v)]
        /\ allocated' = [allocated EXCEPT ![first_free] = TRUE]
        /\ first_free' = slot[first_free][2]
    BY DEF allocate_slot, StorageInv
  <1>3. free_slots \in Nat \ {0} /\ first_free = list[1] /\ list[1] \in FreeSlots
    BY <1>1, <1>2
  <1>4. FreeSlots \subseteq Slots /\ FreeSlots \cap Handles = {}
    BY <1>2, PageBounds DEF FreeSlots
  <1>5. allocated' \in [Slots -> BOOLEAN] /\ Handles' = Handles \cup {list[1]}
    BY <1>2, <1>3, <1>4 DEF StorageInv, Handles
  <1>6. FreeSlots' = FreeSlots \ {list[1]}
    BY <1>2, <1>5 DEF FreeSlots
  <1>7. FreeListExact'
    <2>1. PICK chain : chain = [n \in 1..free_slots - 1 |-> list[n + 1]]
      OBVIOUS
    <2>2. \A n \in 1..free_slots - 1 : n + 1 \in 1..free_slots /\ n + 1 # 1 /\ 1 \in 1..free_slots
      BY <1>3
    <2>3. \A n \in 1..free_slots - 1 : chain[n] = list[n + 1] /\ list[n + 1] \in FreeSlots'
      BY <1>1, <1>6, <2>1, <2>2
    <2>4. chain \in [1..free_slots' -> FreeSlots']
      BY <1>2, <2>1, <2>3
    <2>5. \A s \in FreeSlots' : \E n \in 1..free_slots' : chain[n] = s
      <3> SUFFICES ASSUME NEW s \in FreeSlots'
                   PROVE  \E n \in 1..free_slots' : chain[n] = s
        OBVIOUS
      <3>1. PICK k \in 1..free_slots : list[k] = s /\ k # 1
        BY <1>1, <1>6
      <3>2. k - 1 \in 1..free_slots - 1 /\ (k - 1) + 1 = k
        BY <1>3, <3>1
      <3> QED BY <1>2, <2>3, <3>1, <3>2
    <2>6. \A m, n \in 1..free_slots' : chain[m] = chain[n] => m = n
      <3> SUFFICES ASSUME NEW m \in 1..free_slots', NEW n \in 1..free_slots', chain[m] = chain[n]
                   PROVE  m = n
        OBVIOUS
      <3>1. list[m + 1] = list[n + 1] /\ m + 1 \in 1..free_slots /\ n + 1 \in 1..free_slots
        BY <1>2, <2>2, <2>3
      <3>2. m + 1 = n + 1
        BY <1>1, <3>1
      <3> QED BY <1>2, <3>2
    <2>7. first_free' = IF free_slots' = 0 THEN NULL ELSE chain[1]
      <3>1. slot[list[1]] = NextFree(IF 1 = free_slots THEN NULL ELSE list[1 + 1])
        BY <1>1, <1>3
      <3>2. first_free' = IF 1 = free_slots THEN NULL ELSE list[1 + 1]
        BY <1>2, <1>3, <3>1 DEF NextFree
      <3>3. free_slots' # 0 => chain[1] = list[1 + 1] /\ 1 # free_slots
        BY <1>2, <1>3, <2>3
      <3>4. free_slots' = 0 => 1 = free_slots
        BY <1>2, <1>3
      <3> QED BY <3>2, <3>3, <3>4
    <2>8. ASSUME NEW n \in 1..free_slots'
          PROVE  slot'[chain[n]] = NextFree(IF n = free_slots' THEN NULL ELSE chain[n + 1])
      <3>1. chain[n] = list[n + 1] /\ list[n + 1] # list[1] /\ n + 1 \in 1..free_slots
        BY <1>2, <1>6, <2>2, <2>3
      <3>2. slot'[chain[n]] = slot[list[n + 1]]
        BY <1>2, <1>3, <1>4, <3>1 DEF StorageInv
      <3>3. slot[list[n + 1]] = NextFree(IF n + 1 = free_slots THEN NULL ELSE list[(n + 1) + 1])
        BY <1>1, <3>1
      <3>4. n = free_slots' <=> n + 1 = free_slots
        BY <1>2
      <3>5. n # free_slots' => chain[n + 1] = list[(n + 1) + 1]
        BY <1>2, <2>3
      <3> QED BY <3>2, <3>3, <3>4, <3>5
    <2> QED BY <2>4, <2>5, <2>6, <2>7, <2>8 DEF FreeListExact
  <1>8. DOMAIN slot' = Slots /\ free_slots' \in Nat /\ Handles' \subseteq 1..pages' * PageSlots
    <2>1. pages' * PageSlots = pages * PageSlots
      BY <1>2
    <2>2. Handles' \subseteq 1..pages * PageSlots
      BY <1>3, <1>5 DEF StorageInv, FreeSlots
    <2> QED BY <1>2, <1>3, <2>1, <2>2 DEF StorageInv
  <1> QED BY <1>2, <1>5, <1>7, <1>8 DEF StorageInv
\* A slot that is freed becomes the first of the list.
LEMMA FreeStep ==
    ASSUME StorageInv, NEW g \in Handles, free_slot(g)
    PROVE  StorageInv'
  <1> USE Sizes
  <1>1. PICK list \in [1..free_slots -> FreeSlots] :
            /\ \A s \in FreeSlots : \E n \in 1..free_slots : list[n] = s
            /\ \A m, n \in 1..free_slots : list[m] = list[n] => m = n
            /\ first_free = IF free_slots = 0 THEN NULL ELSE list[1]
            /\ \A n \in 1..free_slots :
                slot[list[n]] = NextFree(IF n = free_slots THEN NULL ELSE list[n + 1])
    BY DEF StorageInv, FreeListExact
  <1>2. /\ pages \in 0..MaxPages /\ pages' = pages /\ free_slots \in Nat /\ free_slots' = free_slots + 1
        /\ slot' = [slot EXCEPT ![g] = NextFree(first_free)]
        /\ allocated' = [allocated EXCEPT ![g] = FALSE]
        /\ first_free' = g
    BY DEF free_slot, StorageInv
  <1>3. g \in Slots /\ g \in 1..pages * PageSlots /\ g \notin FreeSlots
    BY DEF Handles, StorageInv, FreeSlots
  <1>4. FreeSlots \subseteq Slots
    BY <1>2, PageBounds DEF FreeSlots
  <1>5. allocated' \in [Slots -> BOOLEAN] /\ Handles' = Handles \ {g}
    BY <1>2, <1>3 DEF StorageInv, Handles
  <1>6. FreeSlots' = FreeSlots \cup {g}
    BY <1>2, <1>3, <1>5 DEF FreeSlots
  <1>7. FreeListExact'
    <2>1. PICK chain : chain = [n \in 1..free_slots + 1 |-> IF n = 1 THEN g ELSE list[n - 1]]
      OBVIOUS
    <2>2. \A n \in 1..free_slots + 1 : n # 1 => n - 1 \in 1..free_slots
      BY <1>2
    <2>3. /\ \A n \in 1..free_slots + 1 : n # 1 => chain[n] = list[n - 1] /\ list[n - 1] \in FreeSlots
          /\ 1 \in 1..free_slots + 1 /\ chain[1] = g
      BY <1>1, <1>2, <2>1, <2>2
    <2>4. chain \in [1..free_slots' -> FreeSlots']
      BY <1>2, <1>6, <2>1, <2>3
    <2>5. \A s \in FreeSlots' : \E n \in 1..free_slots' : chain[n] = s
      <3> SUFFICES ASSUME NEW s \in FreeSlots'
                   PROVE  \E n \in 1..free_slots' : chain[n] = s
        OBVIOUS
      <3>1. CASE s = g
        BY <1>2, <2>3, <3>1
      <3>2. CASE s \in FreeSlots
        <4>1. PICK k \in 1..free_slots : list[k] = s
          BY <1>1, <3>2
        <4>2. k + 1 \in 1..free_slots + 1 /\ k + 1 # 1 /\ (k + 1) - 1 = k
          BY <1>2
        <4> QED BY <1>2, <2>3, <4>1, <4>2
      <3> QED BY <1>6, <3>1, <3>2
    <2>6. \A m, n \in 1..free_slots' : chain[m] = chain[n] => m = n
      <3> SUFFICES ASSUME NEW m \in 1..free_slots', NEW n \in 1..free_slots', chain[m] = chain[n]
                   PROVE  m = n
        OBVIOUS
      <3>1. m \in 1..free_slots + 1 /\ n \in 1..free_slots + 1
        BY <1>2
      <3>2. m = 1 <=> n = 1
        BY <1>3, <2>3, <3>1
      <3>3. CASE m # 1 /\ n # 1
        <4>1. m - 1 = n - 1
          BY <1>1, <2>2, <2>3, <3>1, <3>3
        <4> QED BY <1>2, <3>1, <4>1
      <3> QED BY <3>2, <3>3
    <2>7. first_free' = IF free_slots' = 0 THEN NULL ELSE chain[1]
      BY <1>2, <2>3
    <2>8. ASSUME NEW n \in 1..free_slots'
          PROVE  slot'[chain[n]] = NextFree(IF n = free_slots' THEN NULL ELSE chain[n + 1])
      <3>1. CASE n = 1
        <4>1. slot'[chain[n]] = NextFree(first_free)
          BY <1>2, <1>3, <2>3, <3>1 DEF StorageInv
        <4>2. free_slots # 0 => 2 \in 1..free_slots + 1 /\ 2 # 1 /\ 2 - 1 = 1
          BY <1>2
        <4>3. free_slots # 0 => chain[1 + 1] = list[1]
          BY <2>3, <4>2
        <4>4. free_slots = 0 <=> n = free_slots'
          BY <1>2, <3>1
        <4> QED BY <1>1, <3>1, <4>1, <4>3, <4>4
      <3>2. CASE n # 1
        <4>1. n \in 1..free_slots + 1 /\ n - 1 \in 1..free_slots
          BY <1>2, <3>2
        <4>2. chain[n] = list[n - 1] /\ list[n - 1] \in Slots /\ list[n - 1] # g
          BY <1>3, <1>4, <2>3, <3>2, <4>1
        <4>3. slot'[chain[n]] = slot[list[n - 1]]
          BY <1>2, <4>2 DEF StorageInv
        <4>4. slot[list[n - 1]] = NextFree(IF n - 1 = free_slots THEN NULL ELSE list[(n - 1) + 1])
          BY <1>1, <4>1
        <4>5. n - 1 = free_slots <=> n = free_slots'
          BY <1>2, <4>1
        <4>6. n # free_slots' => n + 1 \in 1..free_slots + 1 /\ n + 1 # 1 /\ (n + 1) - 1 = (n - 1) + 1
          BY <1>2, <4>1
        <4>7. n # free_slots' => chain[n + 1] = list[(n - 1) + 1]
          BY <2>3, <4>6
        <4> QED BY <4>3, <4>4, <4>5, <4>7
      <3> QED BY <3>1, <3>2
    <2> QED BY <2>4, <2>5, <2>6, <2>7, <2>8 DEF FreeListExact
  <1>8. Handles' \subseteq 1..pages' * PageSlots
    <2>1. pages' * PageSlots = pages * PageSlots
      BY <1>2
    <2> QED BY <1>5, <2>1 DEF StorageInv
  <1>9. DOMAIN slot' = Slots /\ free_slots' \in Nat
    BY <1>2 DEF StorageInv
  <1> QED BY <1>2, <1>5, <1>7, <1>8, <1>9 DEF StorageInv

\* No pages, no slots.
LEMMA NoPages ==
    ASSUME pages' = 0, free_slots' = 0, first_free' = NULL, DOMAIN slot' = Slots,
           allocated' = [s \in Slots |-> FALSE]
    PROVE  StorageInv'
  <1> USE Sizes
  <1>1. pages' * PageSlots = 0 /\ 1..pages' * PageSlots = {}
    OBVIOUS
  <1>2. Handles' = {} /\ FreeSlots' = {}
    BY <1>1 DEF Handles, FreeSlots
  <1>3. PICK none : none = [n \in 1..0 |-> NULL]
    OBVIOUS
  <1>4. 1..free_slots' = {} /\ none \in [1..free_slots' -> FreeSlots']
    BY <1>3
  <1>5. FreeListExact'
    BY <1>2, <1>4 DEF FreeListExact
  <1> QED BY <1>2, <1>5 DEF StorageInv

\* A machine without pages, or with one whose slots are all in use.
LEMMA InitInv ==
    ASSUME Init
    PROVE  StorageInv
  <1> USE Sizes
  <1>1. /\ pages \in {0, 1} /\ free_slots = 0 /\ first_free = NULL /\ DOMAIN slot = Slots
        /\ allocated = [s \in Slots |-> s \in DOMAIN program.held]
    BY DEF Init
  <1>2. DOMAIN program.held = IF pages = 0 THEN {} ELSE 1..PageSlots
    <2>1. program.held = <<>> \/ DOMAIN program.held = 1..PageSlots
      BY HostAssumption DEF Init
    <2>2. DOMAIN <<>> = {} /\ 1 \in 1..PageSlots
      OBVIOUS
    <2> QED BY <2>1, <2>2 DEF Init
  <1>3. 1..pages * PageSlots = IF pages = 0 THEN {} ELSE 1..PageSlots
    BY <1>1
  <1>4. 1..PageSlots \subseteq Slots
    <2>1. 0 \in 0..MaxPages /\ 0 < MaxPages /\ (0 + 1) * PageSlots = PageSlots
      OBVIOUS
    <2> QED BY <2>1, PageBounds
  <1>5. Handles = 1..pages * PageSlots /\ FreeSlots = {}
    BY <1>1, <1>2, <1>3, <1>4 DEF Handles, FreeSlots
  <1>6. PICK none : none = [n \in 1..0 |-> NULL]
    OBVIOUS
  <1>7. 1..free_slots = {} /\ none \in [1..free_slots -> FreeSlots]
    BY <1>1, <1>6
  <1>8. FreeListExact
    BY <1>1, <1>5, <1>7 DEF FreeListExact
  <1> QED BY <1>1, <1>5, <1>8 DEF StorageInv

-----------------------------------------------------------------------------
(* Every other call. *)

\* A value is stored behind a handle, or behind none.
LEMMA SetKept ==
    ASSUME StorageInv, UNCHANGED storage, NEW r \in Results, NEW v, Set(r, v)
    PROVE  SlotsKept
  <1>1. r \in Handles \/ r \notin Slots
    BY NullIsNoSlot DEF Results, Nothing
  <1> QED BY <1>1 DEF SlotsKept, Set, StorageInv

\* A step that leaves the slots alone.
LEMMA SameKept ==
    ASSUME UNCHANGED storage, UNCHANGED slot
    PROVE  SlotsKept
  BY DEF SlotsKept

\* Containers.
LEMMA ContainerKept ==
    ASSUME StorageInv, CallContainer
    PROVE  SlotsKept
  <1> USE SetKept, SameKept DEF entry_point, Writes, Updates, Makes, create_object
  <1>1. \A n \in Indexes, r \in Results : tiro_make_tuple(n, r) => SlotsKept
    BY DEF tiro_make_tuple
  <1>2. \A t \in Args, i \in Indexes, r \in Results : tiro_tuple_get(t, i, r) => SlotsKept
    BY DEF tiro_tuple_get
  <1>3. \A t \in Args, i \in Indexes, v \in Args : tiro_tuple_set(t, i, v) => SlotsKept
    BY DEF tiro_tuple_set
  <1>4. \A n \in 0..1, r \in Results : tiro_make_array(n, r) => SlotsKept
    BY DEF tiro_make_array
  <1>5. \A a \in Args, i \in Indexes, r \in Results : tiro_array_get(a, i, r) => SlotsKept
    BY DEF tiro_array_get
  <1>6. \A a \in Args, i \in Indexes, v \in Args : tiro_array_set(a, i, v) => SlotsKept
    BY DEF tiro_array_set
  <1>7. \A a \in Args, v \in Args : tiro_array_push(a, v) => SlotsKept
    BY DEF tiro_array_push
  <1>8. \A a \in Args : tiro_array_pop(a) => SlotsKept
    BY DEF tiro_array_pop
  <1>9. \A a \in Args : tiro_array_clear(a) => SlotsKept
    BY DEF tiro_array_clear
  <1>10. \A n \in Indexes, r \in Results : tiro_make_buffer(n, r) => SlotsKept
    BY DEF tiro_make_buffer
  <1>11. \A b \in Args, i \in Indexes, v \in Numbers \cap (0..MaxByte) : WriteByte(b, i, v) => SlotsKept
    BY DEF WriteByte
  <1>12. \A k \in Args, r \in Results : tiro_make_record_schema(k, r) => SlotsKept
    BY DEF tiro_make_record_schema
  <1>13. \A s \in Args, r \in Results : tiro_make_record(s, r) => SlotsKept
    BY DEF tiro_make_record
  <1>14. \A o \in Args, r \in Results : tiro_record_keys(o, r) => SlotsKept
    BY DEF tiro_record_keys
  <1>15. \A o \in Args, k \in Args, r \in Results : tiro_record_get(o, k, r) => SlotsKept
    BY DEF tiro_record_get
  <1>16. \A o \in Args, k \in Args, v \in Args : tiro_record_set(o, k, v) => SlotsKept
    BY DEF tiro_record_set
  <1>17. \A v \in Args, r \in Results : tiro_make_success(v, r) => SlotsKept
    BY DEF tiro_make_success
  <1>18. \A v \in Args, r \in Results : tiro_make_error(v, r) => SlotsKept
    BY DEF tiro_make_error
  <1>19. \A o \in Args, r \in Results : tiro_result_value(o, r) => SlotsKept
    BY DEF tiro_result_value
  <1>20. \A o \in Args, r \in Results : tiro_result_error(o, r) => SlotsKept
    BY DEF tiro_result_error
  <1> QED
    BY <1>1, <1>2, <1>3, <1>4, <1>5, <1>6, <1>7, <1>8, <1>9, <1>10, <1>11, <1>12, <1>13, <1>14, <1>15, <1>16, <1>17, <1>18, <1>19, <1>20 DEF CallContainer

\* Scripts.
LEMMA ScriptKept ==
    ASSUME StorageInv, CallScript
    PROVE  SlotsKept
  <1> USE SetKept, SameKept DEF entry_point, Writes, Updates, Makes, create_object
  <1>1. \A o \in Args, i \in ScriptIndexes, r \in Results : load_index(o, i, r) => SlotsKept
    BY DEF load_index
  <1>2. \A o \in Args, i \in ScriptIndexes, v \in Args : store_index(o, i, v) => SlotsKept
    BY DEF store_index
  <1>3. \A o \in Args, m \in Members, r \in Results : load_member(o, m, r) => SlotsKept
    BY DEF load_member
  <1>4. \A o \in Args, m \in Members, v \in Args : store_member(o, m, v) => SlotsKept
    BY DEF store_member
  <1> QED
    BY <1>1, <1>2, <1>3, <1>4 DEF CallScript

\* Values behind handles.
LEMMA HandleKept ==
    ASSUME StorageInv, CallHandle, ~tiro_global_new, \A g \in Handles : ~tiro_global_free(g)
    PROVE  SlotsKept
  <1> USE SetKept, SameKept DEF entry_point, Writes, Updates, Makes, create_object
  <1>1. tiro_error_free => SlotsKept
    BY DEF tiro_error_free
  <1>2. \A v \in Args, r \in Results : tiro_value_copy(v, r) => SlotsKept
    BY DEF tiro_value_copy
  <1>3. \A r \in Results : tiro_make_null(r) => SlotsKept
    BY DEF tiro_make_null
  <1>4. \A n \in Numbers, r \in Results : tiro_make_integer(n, r) => SlotsKept
    BY DEF tiro_make_integer
  <1>5. \A n \in Names, r \in Results : tiro_make_string(n, r) => SlotsKept
    BY DEF tiro_make_string
  <1>6. \A v \in Args, r \in Results : tiro_value_type(v, r) => SlotsKept
    BY DEF tiro_value_type
  <1>7. \A k \in {"array", "function", "internal"}, r \in Results : tiro_kind_type(k, r) => SlotsKept
    BY DEF tiro_kind_type
  <1>8. \A t \in Args, r \in Results : tiro_type_name(t, r) => SlotsKept
    BY DEF tiro_type_name
  <1> QED
    BY <1>1, <1>2, <1>3, <1>4, <1>5, <1>6, <1>7, <1>8 DEF CallHandle

\* Modules.
LEMMA ModuleKept ==
    ASSUME StorageInv, CallModule
    PROVE  SlotsKept
  <1> USE SetKept, SameKept DEF entry_point, Writes, Updates, Makes, create_object, storage
  <1>1. \A n \in Names, names \in BoundedSeq(Names, program.length), r \in Results :
            \A values \in [DOMAIN names -> Args] : tiro_make_module(n, names, values, r) => SlotsKept
    BY DEF tiro_make_module
  <1>2. \A o \in Args, n \in Names, r \in Results : tiro_module_get_export(o, n, r) => SlotsKept
    BY DEF tiro_module_get_export
  <1>3. \A o \in Args : tiro_vm_load_module(o) => SlotsKept
    BY DEF tiro_vm_load_module
  <1>4. \A m \in Names, n \in Names, r \in Results : tiro_vm_get_export(m, n, r) => SlotsKept
    BY DEF tiro_vm_get_export
  <1> QED
    BY <1>1, <1>2, <1>3, <1>4 DEF CallModule

\* Native objects, coroutines, callbacks and the loop that runs them.
LEMMA CoroutineKept ==
    ASSUME StorageInv, CallCoroutine
    PROVE  SlotsKept
  <1> USE SetKept, SameKept DEF entry_point, Writes, Updates, Makes, create_object, storage
  <1>1. \A r \in Results : tiro_make_native(r) => SlotsKept
    BY DEF tiro_make_native
  <1>2. \A r \in Results : MakeFunction(r) => SlotsKept
    BY DEF MakeFunction
  <1>3. \A f \in Args, a \in Args, r \in Results : tiro_make_coroutine(f, a, r) => SlotsKept
    BY DEF tiro_make_coroutine
  <1>4. \A c \in Args : tiro_coroutine_start(c) => SlotsKept
    BY DEF tiro_coroutine_start
  <1>5. \A c \in Args, r \in Results : tiro_coroutine_result(c, r) => SlotsKept
    BY DEF tiro_coroutine_result
  <1>6. \A c \in Args, callback \in BOOLEAN, cleanup \in BOOLEAN : tiro_coroutine_set_callback(c, callback, cleanup) => SlotsKept
    BY DEF tiro_coroutine_set_callback
  <1>7. tiro_vm_run_ready => SlotsKept
    BY DEF tiro_vm_run_ready
  <1>8. \A completes \in BOOLEAN : RunCoroutine(completes) => SlotsKept
    BY DEF RunCoroutine
  <1>9. \A c \in Ids : ResumeCoroutine(c) => SlotsKept
    BY DEF ResumeCoroutine
  <1>10. CallbackReturns => SlotsKept
    BY DEF CallbackReturns
  <1>11. RunReadyReturns => SlotsKept
    BY DEF RunReadyReturns
  <1> QED
    BY <1>1, <1>2, <1>3, <1>4, <1>5, <1>6, <1>7, <1>8, <1>9, <1>10, <1>11 DEF CallCoroutine

-----------------------------------------------------------------------------
\* Every step keeps the invariant of the slots.
LEMMA StepInv ==
    ASSUME StorageInv, [Next]_vars
    PROVE  StorageInv'
  <1>1. CASE tiro_global_new
    <2>1. allocate_slot(Null)
      BY <1>1 DEF tiro_global_new
    <2> QED BY <2>1, GrowStep, TakeStep
  <1>2. CASE \E g \in Handles : tiro_global_free(g)
    BY <1>2, FreeStep DEF tiro_global_free
  <1>3. CASE CallHandle /\ ~tiro_global_new /\ \A g \in Handles : ~tiro_global_free(g)
    BY <1>3, HandleKept, KeptInv
  <1>4. CASE CallContainer \/ CallScript \/ CallModule \/ CallCoroutine
    BY <1>4, ContainerKept, ScriptKept, ModuleKept, CoroutineKept, KeptInv
  <1>5. CASE \E tokens \in SUBSET Waiting : collect(tokens)
    BY <1>5, SameKept, KeptInv DEF collect
  <1>6. CASE tiro_vm_free
    BY <1>6, NoPages DEF tiro_vm_free
  <1>7. CASE UNCHANGED vars
    BY <1>7, SameKept, KeptInv DEF vars
  <1> QED BY <1>1, <1>2, <1>3, <1>4, <1>5, <1>6, <1>7 DEF Next

\* The list of free slots that is threaded through the pages of ExternalStorage is exact,
\* whatever handles a host allocates and frees, in whatever order, and whatever its calls
\* store behind them: no slot is lost, and none is given out twice (handles/external.cpp).
THEOREM FreeListCorrect == Spec => []FreeListExact
  <1>1. Init => StorageInv
    BY InitInv
  <1>2. StorageInv /\ [Next]_vars => StorageInv'
    BY StepInv
  <1>3. StorageInv => FreeListExact
    BY DEF StorageInv
  <1> QED BY <1>1, <1>2, <1>3, PTL DEF Spec


-----------------------------------------------------------------------------
(* Numbers. *)

\* A set of numbers has a least element. What follows by induction is derived from this.
LEMMA LeastNumber ==
    ASSUME NEW T, T \subseteq Nat, T # {}
    PROVE  \E x \in T : \A y \in T : x <= y
  <1> DEFINE R == {ss \in Nat \X Nat : ss[1] < ss[2]}
  <1>1. IsWellFoundedOn(R, Nat)
    BY NatLessThanWellFounded, Zenon DEF OpToRel
  <1>2. PICK x \in T : \A y \in T : ~(<<y, x>> \in R)
    <2> HIDE DEF R
    <2> QED BY <1>1, WFMin
  <1>3. \A y \in T : (y < x) => <<y, x>> \in R
    OBVIOUS
  <1>4. \A y \in T : ~(y < x)
    <2> HIDE DEF R
    <2> QED BY <1>2, <1>3
  <1>5. \A y \in T : x <= y
    BY <1>4
  <1> QED BY <1>5

\* A set that holds 0 and the successor of each of its elements below n reaches n.
LEMMA UpTo ==
    ASSUME NEW n \in Nat, NEW G,
           0 \in G, \A k \in 0..n - 1 : k \in G => k + 1 \in G
    PROVE  \A k \in 0..n : k \in G
  <1> DEFINE bad == {k \in 0..n : k \notin G}
  <1> SUFFICES ASSUME bad # {}
               PROVE  FALSE
    OBVIOUS
  <1>1. bad \subseteq Nat
    OBVIOUS
  <1> HIDE DEF bad
  <1>2. PICK k \in bad : \A j \in bad : k <= j
    BY <1>1, LeastNumber
  <1>3. k \in 0..n /\ k \notin G /\ \A j \in 0..n : j \notin G => k <= j
    BY <1>2 DEF bad
  <1>4. k # 0 /\ k - 1 \in 0..n - 1 /\ k - 1 \in 0..n
    BY <1>3
  <1>5. k - 1 \in G
    BY <1>3, <1>4
  <1>6. (k - 1) + 1 \in G
    BY <1>4, <1>5
  <1> QED BY <1>3, <1>6

\* The powers of two up to the nth.
Doubles(g, n) == g = [k \in 0..n |-> IF k = 0 THEN 1 ELSE 2 * g[k - 1]]

\* Such a function exists, which the operator then picks.
LEMMA DoublesExist ==
    ASSUME NEW n \in Nat
    PROVE  \E g : Doubles(g, n)
  <1> DEFINE G == {m \in 0..n : \E g : Doubles(g, m)}
  <1>1. 0 \in G
    <2> DEFINE g == [k \in 0..0 |-> 1]
    <2>1. Doubles(g, 0)
      BY DEF Doubles
    <2> QED BY <2>1
  <1>2. ASSUME NEW m \in 0..n - 1, m \in G
        PROVE  m + 1 \in G
    <2>1. PICK g : Doubles(g, m)
      BY <1>2
    <2>2. g = [k \in 0..m |-> IF k = 0 THEN 1 ELSE 2 * g[k - 1]]
      BY <2>1 DEF Doubles
    <2> DEFINE f == [k \in 0..m + 1 |-> IF k = m + 1 THEN 2 * g[m] ELSE g[k]]
    <2>3. ASSUME NEW k \in 0..m + 1
          PROVE  f[k] = IF k = 0 THEN 1 ELSE 2 * f[k - 1]
      <3>1. CASE k = m + 1
        BY <3>1
      <3>2. CASE k # m + 1
        <4>1. f[k] = g[k] /\ k \in 0..m
          BY <3>2
        <4>2. k # 0 => f[k - 1] = g[k - 1]
          BY <3>2
        <4> QED BY <2>2, <4>1, <4>2
      <3> QED BY <3>1, <3>2
    <2>4. Doubles(f, m + 1)
      <3> DEFINE r == [k \in 0..m + 1 |-> IF k = 0 THEN 1 ELSE 2 * f[k - 1]]
      <3>1. \A k \in 0..m + 1 : f[k] = r[k]
        BY <2>3
      <3>2. f = [k \in 0..m + 1 |-> f[k]] /\ r = [k \in 0..m + 1 |-> r[k]]
        OBVIOUS
      <3> HIDE DEF f, r
      <3>3. f = r
        BY <3>1, <3>2
      <3> QED BY <3>3 DEF r, Doubles
    <2> QED BY <2>4
  <1> HIDE DEF G
  <1>3. \A k \in 0..n : k \in G
    BY <1>1, <1>2, UpTo
  <1> QED BY <1>3 DEF G

\* The storage of an array is never made smaller than is required.
LEMMA CapacitySuffices ==
    ASSUME NEW n \in Nat
    PROVE  next_capacity(n) \in Nat /\ next_capacity(n) >= n
  <1> DEFINE g == CHOOSE h : Doubles(h, n)
             fits(k) == g[k] >= n /\ \A j \in 0..n : g[j] >= n => k <= j
             c == CHOOSE k \in 0..n : fits(k)
  <1>1. ceil_pow2(n) = g[c]
    BY Zenon DEF ceil_pow2, Doubles
  <1>2. g = [k \in 0..n |-> IF k = 0 THEN 1 ELSE 2 * g[k - 1]]
    <2>1. \E h : Doubles(h, n)
      BY DoublesExist
    <2>2. Doubles(g, n)
      BY <2>1, Zenon
    <2> QED BY <2>2, Zenon DEF Doubles
  <1> HIDE DEF g
  <1>3. \A k \in 0..n : g[k] \in Nat /\ g[k] > k
    <2> DEFINE G == {k \in 0..n : g[k] \in Nat /\ g[k] > k}
    <2>1. 0 \in G
      BY <1>2
    <2>2. ASSUME NEW k \in 0..n - 1, k \in G
          PROVE  k + 1 \in G
      <3>1. g[k + 1] = 2 * g[k]
        BY <1>2
      <3> QED BY <2>2, <3>1
    <2> HIDE DEF G
    <2>3. \A k \in 0..n : k \in G
      BY <2>1, <2>2, UpTo
    <2> QED BY <2>3 DEF G
  <1>4. \E k \in 0..n : fits(k)
    <2> DEFINE T == {k \in 0..n : g[k] >= n}
    <2>1. n \in T /\ T \subseteq Nat
      BY <1>3
    <2> HIDE DEF T
    <2>2. PICK k \in T : \A j \in T : k <= j
      BY <2>1, LeastNumber
    <2> QED BY <2>2 DEF T
  <1>5. c \in 0..n /\ fits(c)
    BY <1>4, Zenon
  <1> HIDE DEF c
  <1>6. g[c] \in Nat /\ g[c] >= n
    BY <1>3, <1>5
  <1> QED BY <1>1, <1>6 DEF next_capacity, MinCapacity

-----------------------------------------------------------------------------
(* What is reached from roots. *)

Reach(f, roots, refs) ==
    f = [n \in 0..MaxObjects |->
            IF n = 0 THEN roots ELSE f[n - 1] \union UNION {refs[i] : i \in f[n - 1]}]

\* Such a function exists.
LEMMA ReachExists ==
    ASSUME NEW roots, NEW refs
    PROVE  \E f : Reach(f, roots, refs)
  <1> DEFINE R(f, m) == f = [n \in 0..m |-> IF n = 0 THEN roots ELSE f[n - 1] \union UNION {refs[i] : i \in f[n - 1]}]
             G == {m \in 0..MaxObjects : \E f : R(f, m)}
  <1>0. MaxObjects \in Nat
    BY HostAssumption
  <1>1. 0 \in G
    <2> DEFINE f == [k \in 0..0 |-> roots]
    <2>1. R(f, 0)
      OBVIOUS
    <2> HIDE DEF f, R
    <2> QED BY <1>0, <2>1
  <1>2. ASSUME NEW m \in 0..MaxObjects - 1, m \in G
        PROVE  m + 1 \in G
    <2>1. PICK g : R(g, m)
      BY <1>2
    <2>2. PICK last : last = g[m] \union UNION {refs[i] : i \in g[m]}
      OBVIOUS
    <2> DEFINE f == [k \in 0..m + 1 |-> IF k = m + 1 THEN last ELSE g[k]]
               step(h, k) == IF k = 0 THEN roots ELSE h[k - 1] \union UNION {refs[i] : i \in h[k - 1]}
    <2>3. ASSUME NEW k \in 0..m + 1
          PROVE  f[k] = step(f, k)
      <3>1. CASE k = m + 1
        <4>1. f[k] = last /\ f[k - 1] = g[m] /\ k # 0
          BY <3>1
        <4> HIDE DEF f
        <4> QED BY <2>2, <4>1
      <3>2. CASE k # m + 1
        <4>1. f[k] = g[k] /\ k \in 0..m
          BY <3>2
        <4>2. k # 0 => f[k - 1] = g[k - 1]
          BY <3>2
        <4>3. g[k] = step(g, k)
          BY <2>1, <4>1
        <4> HIDE DEF f
        <4> QED BY <4>1, <4>2, <4>3
      <3> QED BY <3>1, <3>2
    <2>4. R(f, m + 1)
      <3> DEFINE r == [k \in 0..m + 1 |-> step(f, k)]
      <3>1. \A k \in 0..m + 1 : f[k] = r[k]
        <4> HIDE DEF f, step
        <4> QED BY <2>3
      <3>2. f = [k \in 0..m + 1 |-> f[k]] /\ r = [k \in 0..m + 1 |-> r[k]]
        OBVIOUS
      <3>3. f = r
        <4> HIDE DEF f, r
        <4> QED BY <3>1, <3>2
      <3> HIDE DEF f
      <3> QED BY <3>3, Zenon
    <2> HIDE DEF R, f
    <2> QED BY <1>0, <2>4
  <1> HIDE DEF G, R
  <1>3. MaxObjects \in G
    <2>1. \A m \in 0..MaxObjects : m \in G
      BY <1>0, <1>1, <1>2, UpTo
    <2> QED BY <1>0, <2>1
  <1>4. PICK f : R(f, MaxObjects)
    BY <1>3 DEF G
  <1> QED BY <1>4, Zenon DEF R, Reach

\* The closure is the last set of such a function.
LEMMA ClosureIs ==
    ASSUME NEW roots, NEW refs
    PROVE  \E f : Reach(f, roots, refs) /\ Closure(roots, refs) = f[MaxObjects]
  <1> DEFINE g == CHOOSE f : Reach(f, roots, refs)
  <1>1. Closure(roots, refs) = g[MaxObjects]
    BY Zenon DEF Closure, Reach
  <1>2. Reach(g, roots, refs)
    <2>1. \E f : Reach(f, roots, refs)
      BY ReachExists
    <2> QED BY <2>1, Zenon
  <1> HIDE DEF g
  <1> QED BY <1>1, <1>2

\* A set that holds the roots, and with each element what it refers to, holds everything reached.
LEMMA ClosureInside ==
    ASSUME NEW roots, NEW refs, NEW S, roots \subseteq S, \A i \in S : refs[i] \subseteq S
    PROVE  roots \subseteq Closure(roots, refs) /\ Closure(roots, refs) \subseteq S
  <1>1. PICK f : Reach(f, roots, refs) /\ Closure(roots, refs) = f[MaxObjects]
    BY ClosureIs
  <1>2. MaxObjects \in Nat
    BY HostAssumption
  <1>3. \A n \in 0..MaxObjects :
            f[n] = IF n = 0 THEN roots ELSE f[n - 1] \union UNION {refs[i] : i \in f[n - 1]}
    BY <1>1, Zenon DEF Reach
  <1> DEFINE G == {n \in 0..MaxObjects : roots \subseteq f[n] /\ f[n] \subseteq S}
  <1>4. 0 \in G
    <2>1. 0 \in 0..MaxObjects
      BY <1>2
    <2>2. f[0] = roots
      BY <1>3, <2>1
    <2> QED BY <2>1, <2>2
  <1>5. ASSUME NEW n \in 0..MaxObjects - 1, n \in G
        PROVE  n + 1 \in G
    <2>1. n + 1 \in 0..MaxObjects /\ n + 1 # 0 /\ (n + 1) - 1 = n
      BY <1>2
    <2>2. f[n + 1] = f[n] \union UNION {refs[i] : i \in f[n]}
      BY <1>3, <2>1
    <2>3. roots \subseteq f[n] /\ f[n] \subseteq S
      BY <1>5
    <2>4. UNION {refs[i] : i \in f[n]} \subseteq S
      BY <2>3
    <2> QED BY <2>1, <2>2, <2>3, <2>4
  <1> HIDE DEF G
  <1>6. \A n \in 0..MaxObjects : n \in G
    BY <1>2, <1>4, <1>5, UpTo
  <1>7. MaxObjects \in 0..MaxObjects
    BY <1>2
  <1> QED BY <1>1, <1>6, <1>7 DEF G

\* As many steps as there are objects are enough: each but the last reaches one more.
LEMMA ClosureClosed ==
    ASSUME NEW roots \in SUBSET Ids, NEW refs \in [Ids -> SUBSET Ids]
    PROVE  \A i \in Closure(roots, refs) : refs[i] \subseteq Closure(roots, refs)
  <1>1. PICK f : Reach(f, roots, refs) /\ Closure(roots, refs) = f[MaxObjects]
    BY ClosureIs
  <1>2. MaxObjects \in Nat
    BY HostAssumption
  <1>3. \A n \in 0..MaxObjects :
            f[n] = IF n = 0 THEN roots ELSE f[n - 1] \union UNION {refs[i] : i \in f[n - 1]}
    BY <1>1, Zenon DEF Reach
  <1>4. IsFiniteSet(Ids) /\ Cardinality(Ids) = MaxObjects
    BY <1>2, FS_Interval DEF Ids
  <1> DEFINE closed(S) == \A i \in S : refs[i] \subseteq S
             G == {n \in 0..MaxObjects : f[n] \subseteq Ids /\ (closed(f[n]) \/ Cardinality(f[n]) > n)}
  <1>5. 0 \in G
    <2>0. 0 \in 0..MaxObjects
      BY <1>2
    <2>1. f[0] = roots /\ IsFiniteSet(roots)
      BY <1>3, <1>4, <2>0, FS_Subset
    <2>2. roots = {} \/ Cardinality(roots) > 0
      BY <2>1, FS_EmptySet, FS_CardinalityType
    <2> QED BY <1>2, <2>1, <2>2
  <1>6. ASSUME NEW n \in 0..MaxObjects - 1, n \in G
        PROVE  n + 1 \in G
    <2>1. n + 1 \in 0..MaxObjects /\ n + 1 # 0 /\ (n + 1) - 1 = n
      BY <1>2
    <2>2. f[n + 1] = f[n] \union UNION {refs[i] : i \in f[n]}
      BY <1>3, <2>1
    <2>3. f[n] \subseteq Ids /\ (closed(f[n]) \/ Cardinality(f[n]) > n)
      BY <1>6
    <2>4. f[n + 1] \subseteq Ids /\ f[n] \subseteq f[n + 1]
      BY <2>2, <2>3
    <2>5. CASE closed(f[n])
      <3>1. f[n + 1] = f[n]
        BY <2>2, <2>5
      <3> QED BY <2>1, <2>4, <2>5, <3>1
    <2>6. CASE ~closed(f[n])
      <3>1. Cardinality(f[n]) > n
        BY <2>3, <2>6
      <3>2. f[n] # f[n + 1]
        BY <2>2, <2>6
      <3>3. IsFiniteSet(f[n]) /\ IsFiniteSet(f[n + 1])
        BY <1>4, <2>3, <2>4, FS_Subset
      <3>5. Cardinality(f[n]) \in Nat /\ Cardinality(f[n + 1]) \in Nat
        BY <3>3, FS_CardinalityType
      <3>7. Cardinality(f[n]) <= Cardinality(f[n + 1]) /\ Cardinality(f[n]) # Cardinality(f[n + 1])
        BY <2>4, <3>2, <3>3, FS_Subset
      <3>4. Cardinality(f[n]) < Cardinality(f[n + 1])
        BY <3>5, <3>7
      <3>6. Cardinality(f[n + 1]) > n + 1
        BY <3>1, <3>4, <3>5
      <3> QED BY <2>1, <2>4, <3>6
    <2> QED BY <2>5, <2>6
  <1> HIDE DEF G
  <1>7. \A n \in 0..MaxObjects : n \in G
    BY <1>2, <1>5, <1>6, UpTo
  <1>8. MaxObjects \in G
    BY <1>2, <1>7
  <1>9. f[MaxObjects] \subseteq Ids /\ (closed(f[MaxObjects]) \/ Cardinality(f[MaxObjects]) > MaxObjects)
    BY <1>8 DEF G
  <1>10. IsFiniteSet(f[MaxObjects]) /\ Cardinality(f[MaxObjects]) <= MaxObjects
    BY <1>4, <1>9, FS_Subset
  <1>11. Cardinality(f[MaxObjects]) \in Nat
    BY <1>10, FS_CardinalityType
  <1> QED BY <1>1, <1>2, <1>9, <1>10, <1>11

-----------------------------------------------------------------------------
(* Sequences. *)

\* A function on 1..n is a sequence.
LEMMA SeqIs ==
    ASSUME NEW s, NEW n \in Nat, s = [i \in 1..n |-> s[i]]
    PROVE  IsSequence(s) /\ Len(s) = n /\ DOMAIN s = 1..n
  <1> DEFINE S == {s[i] : i \in DOMAIN s}
  <1>1. s \in [1..n -> S] /\ DOMAIN s = 1..n
    OBVIOUS
  <1> HIDE DEF S
  <1>2. s \in Seq(S) /\ Len(s) = n
    BY <1>1
  <1> QED BY <1>1, <1>2 DEF IsSequence, S

\* Sequences over a set are sequences of anything.
LEMMA SeqFrom ==
    ASSUME NEW S, NEW s \in Seq(S)
    PROVE  IsSequence(s)
  <1>1. s = [i \in 1..Len(s) |-> s[i]] /\ Len(s) \in Nat
    OBVIOUS
  <1> QED BY <1>1, SeqIs

\* A sequence is the function from its indexes to its elements.
LEMMA SeqDomain ==
    ASSUME NEW s, IsSequence(s)
    PROVE  Len(s) \in Nat /\ DOMAIN s = 1..Len(s) /\ s = [i \in 1..Len(s) |-> s[i]]
  <1>1. PICK S : s \in Seq(S)
    BY DEF IsSequence
  <1> QED BY <1>1

\* An element is replaced: nothing else of the sequence changes.
LEMMA SeqSet ==
    ASSUME NEW s, IsSequence(s), NEW k \in DOMAIN s, NEW v
    PROVE  LET t == [s EXCEPT ![k] = v]
           IN  IsSequence(t) /\ Len(t) = Len(s) /\ DOMAIN t = DOMAIN s
               /\ t[k] = v /\ \A i \in DOMAIN s : i # k => t[i] = s[i]
  <1>1. PICK n \in Nat : n = Len(s) /\ DOMAIN s = 1..n /\ s = [i \in 1..n |-> s[i]]
    BY SeqDomain
  <1> DEFINE t == [s EXCEPT ![k] = v]
  <1>2. t = [i \in 1..n |-> t[i]]
    BY <1>1
  <1>3. t[k] = v /\ \A i \in DOMAIN s : i # k => t[i] = s[i]
    BY <1>1
  <1> HIDE DEF t
  <1>4. IsSequence(t) /\ Len(t) = n /\ DOMAIN t = 1..n
    BY <1>2, SeqIs
  <1> QED BY <1>1, <1>3, <1>4 DEF t

\* An element is appended.
LEMMA SeqAppend ==
    ASSUME NEW s, IsSequence(s), NEW v
    PROVE  LET t == Append(s, v)
           IN  IsSequence(t) /\ Len(t) = Len(s) + 1 /\ t[Len(s) + 1] = v
               /\ DOMAIN t = 1..Len(s) + 1 /\ \A i \in DOMAIN s : t[i] = s[i]
  <1>1. PICK S : s \in Seq(S)
    BY DEF IsSequence
  <1>2. PICK U : U = S \union {v}
    OBVIOUS
  <1>3. s \in Seq(U) /\ v \in U
    BY <1>1, <1>2
  <1>4. Append(s, v) \in Seq(U)
    BY <1>3
  <1>5. Len(Append(s, v)) = Len(s) + 1 /\ Append(s, v)[Len(s) + 1] = v
        /\ DOMAIN Append(s, v) = 1..Len(s) + 1 /\ \A i \in DOMAIN s : Append(s, v)[i] = s[i]
    BY <1>3
  <1> QED BY <1>4, <1>5, SeqFrom

\* The last element is removed.
LEMMA SeqFront ==
    ASSUME NEW s, IsSequence(s), Len(s) > 0
    PROVE  LET t == Front(s)
           IN  IsSequence(t) /\ Len(t) = Len(s) - 1 /\ DOMAIN t \subseteq DOMAIN s
               /\ \A i \in DOMAIN t : t[i] = s[i]
  <1>1. PICK S : s \in Seq(S)
    BY DEF IsSequence
  <1>0. PICK n \in Nat : n = Len(s) - 1
    BY <1>1
  <1>5. Front(s) = SubSeq(s, 1, n)
    BY <1>0 DEF Front
  <1>6. \A i \in 1..n : s[i] \in S
    BY <1>0, <1>1
  <1>2. Front(s) \in Seq(S) /\ Len(Front(s)) = Len(s) - 1
    <2>1. SubSeq(s, 1, n) \in Seq(S)
      BY <1>1, <1>6
    <2>2. Len(SubSeq(s, 1, n)) = n
      BY <1>0, <1>1
    <2> QED BY <1>0, <1>5, <2>1, <2>2
  <1>3. \A i \in 1..Len(s) - 1 : Front(s)[i] = s[i]
    BY <1>1 DEF Front
  <1> QED BY <1>1, <1>2, <1>3, SeqFrom

\* The empty sequence.
LEMMA SeqEmpty == IsSequence(<<>>) /\ Len(<<>>) = 0 /\ DOMAIN <<>> = {}
  BY DEF IsSequence

-----------------------------------------------------------------------------
(* Values and objects. *)

ObjectTypes ==
    {"Tuple", "Array", "Buffer", "RecordSchema", "Record", "Result", "Module", "BoundMethod",
     "Coroutine", "NativeObject"}

\* The values that refer to no object.
LEMMA PlainValues ==
    ASSUME NEW h, NEW x
    PROVE  /\ IsValue(h, Null) /\ IsValue(h, Num(x)) /\ IsValue(h, Str(x))
           /\ IsValue(h, TypeValue(x)) /\ IsValue(h, Function)
           /\ IsValue(h, Ref(x)) <=> x \in Live(h)
  BY DEF IsValue, Null, Num, Str, TypeValue, Function, Ref

\* A value of the type of an object is a reference to one.
LEMMA ObjectOfType ==
    ASSUME NEW h, NEW v, IsValue(h, v), value_type(h, v) \in ObjectTypes
    PROVE  v[1] = "Object" /\ v[2] \in Live(h) /\ v[2] \in Ids /\ h[v[2]].type = value_type(h, v)
  BY DEF IsValue, value_type, ObjectTypes, Live

\* What a well-formed object of each type is.
LEMMA ObjectKinds ==
    ASSUME NEW h, NEW o, ObjectOK(h, o)
    PROVE  /\ o.type \in ObjectTypes \union {"Free"}
           /\ o.type = "Free" => o = Free
           /\ o.type = "Tuple" => TupleOK(h, o)
           /\ o.type = "Array" => ArrayOK(h, o)
           /\ o.type = "Buffer" => BufferOK(o)
           /\ o.type = "RecordSchema" => SchemaOK(o)
           /\ o.type = "Record" => RecordOK(h, o)
           /\ o.type = "Result" => ResultOK(h, o)
           /\ o.type = "Module" => ModuleOK(h, o)
           /\ o.type = "BoundMethod" => MethodOK(h, o)
           /\ o.type = "Coroutine" => CoroutineOK(h, o)
           /\ o.type = "NativeObject" => NativeOK(o)
  <1> DEFINE kind == o.type
  <1>0. Free.type = "Free"
    BY DEF Free
  <1>1. /\ TupleOK(h, o) => kind = "Tuple"
        /\ ArrayOK(h, o) => kind = "Array"
        /\ BufferOK(o) => kind = "Buffer"
        /\ SchemaOK(o) => kind = "RecordSchema"
        /\ RecordOK(h, o) => kind = "Record"
        /\ ResultOK(h, o) => kind = "Result"
        /\ ModuleOK(h, o) => kind = "Module"
        /\ MethodOK(h, o) => kind = "BoundMethod"
        /\ CoroutineOK(h, o) => kind = "Coroutine"
        /\ NativeOK(o) => kind = "NativeObject"
    BY DEF TupleOK, ArrayOK, BufferOK, SchemaOK, RecordOK, ResultOK, ModuleOK, MethodOK, CoroutineOK, NativeOK
  <1> QED BY <1>0, <1>1 DEF ObjectOK, ObjectTypes

\* What a value, or an object, refers to exists.
LEMMA RefsInside ==
    ASSUME NEW s, NEW S, \A i \in DOMAIN s : s[i][1] = "Object" => s[i][2] \in S
    PROVE  Refs(s) \subseteq S
  BY DEF Refs

\* A sequence refers to what its elements refer to.
LEMMA RefsOf ==
    ASSUME NEW s, NEW i \in DOMAIN s, s[i][1] = "Object"
    PROVE  s[i][2] \in Refs(s)
  BY DEF Refs

\* What a single value refers to.
LEMMA RefsOfOne ==
    ASSUME NEW v
    PROVE  Refs(<<v>>) = IF v[1] = "Object" THEN {v[2]} ELSE {}
  BY DEF Refs

\* What two values refer to.
LEMMA RefsOfTwo ==
    ASSUME NEW v, NEW w
    PROVE  Refs(<<v, w>>) = (IF v[1] = "Object" THEN {v[2]} ELSE {}) \union (IF w[1] = "Object" THEN {w[2]} ELSE {})
  BY DEF Refs

\* What an object refers to, by its type.
LEMMA ReferencesBy ==
    ASSUME NEW o
    PROVE  /\ o.type \in {"Tuple", "Array"} => References(o) = Refs(o.values)
           /\ o.type = "Record" => References(o) = Refs(o.values) \union {o.schema}
           /\ o.type = "Result" => References(o) = Refs(<<o.value>>)
           /\ o.type = "Module" => References(o) = Refs(o.members)
           /\ o.type = "BoundMethod" => References(o) = Refs(<<o.object>>)
           /\ o.type = "Coroutine" =>
                References(o) = (Refs(<<o.arguments, o.result>>) \union {o.native_callback}) \ {NoObject}
           /\ o.type \in {"Buffer", "RecordSchema", "NativeObject", "Free"} => References(o) = {}
  BY DEF References

\* Objects are numbered, and no object is not one of them.
LEMMA IdFacts ==
    ASSUME NEW h
    PROVE  Live(h) \subseteq Ids /\ NoObject \notin Ids /\ Ids \subseteq Nat
  BY HostAssumption DEF Live, Ids, NoObject

\* Values refer to objects that exist.
LEMMA ValuesLive ==
    ASSUME NEW h, NEW s, AreValues(h, s)
    PROVE  Refs(s) \subseteq Live(h)
  BY RefsInside DEF AreValues, IsValue

\* A well-formed object refers to objects that exist, whatever its type.
LEMMA ReferencesLive ==
    ASSUME NEW h, NEW o, ObjectOK(h, o)
    PROVE  References(o) \subseteq Live(h)
  <1>1. CASE o.type = "Tuple"
    <2>1. TupleOK(h, o) /\ References(o) = Refs(o.values)
      BY <1>1, ObjectKinds, ReferencesBy
    <2> QED BY <2>1, ValuesLive DEF TupleOK
  <1>2. CASE o.type = "Array"
    <2>1. ArrayOK(h, o) /\ References(o) = Refs(o.values)
      BY <1>2, ObjectKinds, ReferencesBy
    <2> QED BY <2>1, ValuesLive DEF ArrayOK
  <1>3. CASE o.type = "Record"
    <2>1. RecordOK(h, o) /\ References(o) = Refs(o.values) \union {o.schema}
      BY <1>3, ObjectKinds, ReferencesBy
    <2>2. Refs(o.values) \subseteq Live(h)
      BY <2>1, ValuesLive DEF RecordOK
    <2>3. o.schema \in Live(h)
      BY <2>1 DEF RecordOK, Live
    <2> QED BY <2>1, <2>2, <2>3
  <1>4. CASE o.type = "Result"
    <2>1. ResultOK(h, o) /\ References(o) = Refs(<<o.value>>)
      BY <1>4, ObjectKinds, ReferencesBy
    <2> QED BY <2>1, RefsOfOne DEF ResultOK, IsValue
  <1>5. CASE o.type = "Module"
    <2>1. ModuleOK(h, o) /\ References(o) = Refs(o.members)
      BY <1>5, ObjectKinds, ReferencesBy
    <2> QED BY <2>1, ValuesLive DEF ModuleOK
  <1>6. CASE o.type = "BoundMethod"
    <2>1. MethodOK(h, o) /\ References(o) = Refs(<<o.object>>)
      BY <1>6, ObjectKinds, ReferencesBy
    <2> QED BY <2>1, RefsOfOne DEF MethodOK, IsValue
  <1>7. CASE o.type = "Coroutine"
    <2>1. CoroutineOK(h, o)
          /\ References(o) = (Refs(<<o.arguments, o.result>>) \union {o.native_callback}) \ {NoObject}
      BY <1>7, ObjectKinds, ReferencesBy
    <2>2. Refs(<<o.arguments, o.result>>) \subseteq Live(h)
      BY <2>1, RefsOfTwo DEF CoroutineOK, IsValue
    <2>3. o.native_callback # NoObject => o.native_callback \in Live(h)
      BY <2>1 DEF CoroutineOK, Live
    <2> QED BY <2>1, <2>2, <2>3
  <1>8. CASE o.type \in {"Buffer", "RecordSchema", "NativeObject", "Free"}
    BY <1>8, ReferencesBy
  <1>9. o.type \in ObjectTypes \union {"Free"}
    BY ObjectKinds
  <1> QED BY <1>1, <1>2, <1>3, <1>4, <1>5, <1>6, <1>7, <1>8, <1>9 DEF ObjectTypes

\* The objects in R have kept their types, and schemas everything.
Keeps(h, g, R) ==
    \A i \in Live(h) \intersect R :
        g[i].type = h[i].type /\ (h[i].type = "RecordSchema" => g[i] = h[i])

\* A value whose object has been kept is still a value of its type.
LEMMA KeepsValue ==
    ASSUME NEW h, NEW g, NEW R, Keeps(h, g, R), NEW v, IsValue(h, v), v[1] = "Object" => v[2] \in R
    PROVE  IsValue(g, v)
  BY DEF Keeps, IsValue, Live

\* The same of a sequence of values.
LEMMA KeepsValues ==
    ASSUME NEW h, NEW g, NEW R, Keeps(h, g, R), NEW s, AreValues(h, s), Refs(s) \subseteq R
    PROVE  AreValues(g, s)
  <1>1. \A i \in DOMAIN s : IsValue(h, s[i]) /\ (s[i][1] = "Object" => s[i][2] \in R)
    BY RefsOf DEF AreValues
  <1> QED BY <1>1, KeepsValue DEF AreValues

\* An object that refers only to such objects is what it was.
LEMMA KeepsObject ==
    ASSUME NEW h, NEW g, NEW R, Keeps(h, g, R), NEW o, ObjectOK(h, o), References(o) \subseteq R
    PROVE  ObjectOK(g, o) /\ View(g, o) = View(h, o)
  <1>1. CASE o.type = "Tuple"
    <2>1. TupleOK(h, o) /\ Refs(o.values) \subseteq R
      BY <1>1, ObjectKinds, ReferencesBy
    <2>2. AreValues(g, o.values)
      BY <2>1, KeepsValues DEF TupleOK
    <2>3. TupleOK(g, o)
      BY <2>1, <2>2 DEF TupleOK
    <2> QED BY <1>1, <2>3 DEF ObjectOK, View
  <1>2. CASE o.type = "Array"
    <2>1. ArrayOK(h, o) /\ Refs(o.values) \subseteq R
      BY <1>2, ObjectKinds, ReferencesBy
    <2>2. AreValues(g, o.values)
      BY <2>1, KeepsValues DEF ArrayOK
    <2>3. ArrayOK(g, o)
      BY <2>1, <2>2 DEF ArrayOK
    <2> QED BY <1>2, <2>3 DEF ObjectOK, View
  <1>3. CASE o.type = "Record"
    <2>1. RecordOK(h, o) /\ Refs(o.values) \subseteq R /\ o.schema \in R
      BY <1>3, ObjectKinds, ReferencesBy
    <2>2. g[o.schema] = h[o.schema]
      BY <2>1 DEF RecordOK, Live, Keeps
    <2>3. AreValues(g, o.values)
      BY <2>1, KeepsValues DEF RecordOK
    <2>4. RecordOK(g, o)
      BY <2>1, <2>2, <2>3 DEF RecordOK
    <2>5. View(g, o) = View(h, o)
      BY <1>3, <2>2 DEF View, record_get, index_of
    <2> QED BY <2>4, <2>5 DEF ObjectOK
  <1>4. CASE o.type = "Result"
    <2>1. ResultOK(h, o) /\ Refs(<<o.value>>) \subseteq R
      BY <1>4, ObjectKinds, ReferencesBy
    <2>2. IsValue(g, o.value)
      BY <2>1, RefsOfOne, KeepsValue DEF ResultOK
    <2>3. ResultOK(g, o)
      BY <2>1, <2>2 DEF ResultOK
    <2> QED BY <1>4, <2>3 DEF ObjectOK, View
  <1>5. CASE o.type = "Module"
    <2>1. ModuleOK(h, o) /\ Refs(o.members) \subseteq R
      BY <1>5, ObjectKinds, ReferencesBy
    <2>2. AreValues(g, o.members)
      BY <2>1, KeepsValues DEF ModuleOK
    <2>3. ModuleOK(g, o)
      BY <2>1, <2>2 DEF ModuleOK
    <2> QED BY <1>5, <2>3 DEF ObjectOK, View
  <1>6. CASE o.type = "BoundMethod"
    <2>1. MethodOK(h, o) /\ Refs(<<o.object>>) \subseteq R
      BY <1>6, ObjectKinds, ReferencesBy
    <2>2. IsValue(g, o.object)
      BY <2>1, RefsOfOne, KeepsValue DEF MethodOK
    <2>3. MethodOK(g, o)
      BY <2>1, <2>2 DEF MethodOK
    <2> QED BY <1>6, <2>3 DEF ObjectOK, View
  <1>7. CASE o.type = "Coroutine"
    <2>1. CoroutineOK(h, o)
          /\ (Refs(<<o.arguments, o.result>>) \union {o.native_callback}) \ {NoObject} \subseteq R
      BY <1>7, ObjectKinds, ReferencesBy
    <2>2. IsValue(g, o.arguments) /\ IsValue(g, o.result)
      <3>1. Refs(<<o.arguments, o.result>>)
                = (IF o.arguments[1] = "Object" THEN {o.arguments[2]} ELSE {})
                  \union (IF o.result[1] = "Object" THEN {o.result[2]} ELSE {})
        BY RefsOfTwo
      <3>2. IsValue(h, o.arguments) /\ IsValue(h, o.result)
        BY <2>1 DEF CoroutineOK
      <3>3. /\ o.arguments[1] = "Object" => o.arguments[2] \in Ids
            /\ o.result[1] = "Object" => o.result[2] \in Ids
        BY <3>2 DEF IsValue, Live
      <3>4. NoObject \notin Ids
        BY IdFacts
      <3>5. /\ o.arguments[1] = "Object" => o.arguments[2] \in R
            /\ o.result[1] = "Object" => o.result[2] \in R
        BY <2>1, <3>1, <3>3, <3>4
      <3> QED BY <3>2, <3>5, KeepsValue
    <2>3. o.native_callback # NoObject =>
            o.native_callback \in Ids /\ g[o.native_callback].type = "NativeObject"
      BY <2>1 DEF CoroutineOK, Live, Keeps
    <2>4. CoroutineOK(g, o)
      BY <2>1, <2>2, <2>3 DEF CoroutineOK
    <2> QED BY <1>7, <2>4 DEF View, ObjectOK
  <1>8. CASE o.type \in {"Buffer", "RecordSchema", "NativeObject", "Free"}
    <2>1. ObjectOK(g, o)
      <3>1. /\ o.type = "Buffer" => BufferOK(o)
            /\ o.type = "RecordSchema" => SchemaOK(o)
            /\ o.type = "NativeObject" => NativeOK(o)
            /\ o.type = "Free" => o = Free
        BY ObjectKinds
      <3> QED BY <1>8, <3>1 DEF ObjectOK
    <2>2. View(g, o) = View(h, o)
      BY <1>8 DEF View
    <2> QED BY <2>1, <2>2
  <1>9. o.type \in ObjectTypes \union {"Free"}
    BY ObjectKinds
  <1> QED BY <1>1, <1>2, <1>3, <1>4, <1>5, <1>6, <1>7, <1>8, <1>9 DEF ObjectTypes

-----------------------------------------------------------------------------
(* The invariant. *)

\* The heap: every object is well formed, and holds what the calls have promised.
HeapOK ==
    /\ DOMAIN heap = Ids /\ DOMAIN spec = Ids
    /\ \A i \in Ids : ObjectOK(heap, heap[i])
    /\ \A i \in Ids : View(heap, heap[i]) = spec[i]

\* The slots hold values, or refer to free slots.
SlotsOK ==
    /\ DOMAIN slot = Slots
    /\ \A s \in Slots :
        IF allocated[s] THEN slot[s] = Stored(slot[s][2]) /\ IsValue(heap, slot[s][2])
        ELSE slot[s] = NextFree(slot[s][2]) /\ slot[s][2] \in Slots \union {NULL}

\* The queue of coroutines that are ready to run.
ReadyOK(h, queue) ==
    /\ queue \in Seq(Ids)
    /\ \A k \in DOMAIN queue : h[queue[k]].type = "Coroutine" /\ h[queue[k]].state = "Started"
    /\ \A k, l \in DOMAIN queue : queue[k] = queue[l] => k = l

\* What else refers to objects, and the calls that are being made.
RootsOK ==
    /\ registry \in [Names -> Ids \union {NoObject}]
    /\ \A n \in Names : registry[n] # NoObject => heap[registry[n]].type = "Module"
    /\ ReadyOK(heap, ready)
    /\ frame # NoFrame =>
        /\ running /\ frame.coroutine \in Live(heap) /\ frame.callback \in Ids
        /\ heap[frame.callback].type = "NativeObject"
    /\ vm = "freed" => ~running /\ \A i \in Ids : heap[i] = Free
    /\ program \in Programs /\ vm \in {"alive", "freed"} /\ err \in Codes
    /\ running \in BOOLEAN /\ crashed \in BOOLEAN

\* What is recorded about a userdata.
UserOK(user) ==
    /\ user = [registered |-> user.registered, cleanup |-> user.cleanup,
               called |-> user.called, cleaned |-> user.cleaned]
    /\ user.registered \in BOOLEAN /\ user.cleanup \in BOOLEAN
    /\ user.called \in {0, 1} /\ user.cleaned \in {0, 1}
    /\ user.cleaned = 1 => user.cleanup
    /\ user.cleanup => user.registered

User(i) == users[heap[i].userdata]
Natives == {i \in Ids : heap[i].type = "NativeObject"}
\* The callbacks that are still to be called.
Due == {i \in Natives : \E c \in Ids : /\ heap[c].type = "Coroutine" /\ heap[c].state # "Done"
                                       /\ heap[c].native_callback = i}

\* Every userdata belongs to one native object at most, which is to clean it up exactly if nobody has.
UsersOK ==
    /\ DOMAIN users = Users
    /\ \A u \in Users :
        /\ UserOK(users[u])
        /\ users[u].cleanup /\ users[u].cleaned = 0 =>
            \E i \in Natives : heap[i].userdata = u /\ heap[i].cleanup
    /\ \A i \in Natives :
        /\ User(i).registered
        /\ heap[i].cleanup => User(i).cleanup /\ User(i).cleaned = 0
    /\ \A i, j \in Natives : heap[i].userdata = heap[j].userdata => i = j
    /\ \A i \in Due : User(i).called = 0 /\ User(i).cleaned = 0
    /\ \A c, d \in Ids :
        /\ heap[c].type = "Coroutine" /\ heap[d].type = "Coroutine"
        /\ heap[c].native_callback = heap[d].native_callback /\ heap[c].native_callback # NoObject
        => c = d
    /\ frame # NoFrame => User(frame.callback).called = 1 /\ User(frame.callback).cleaned = 0

HostInv == HeapOK /\ SlotsOK /\ RootsOK /\ UsersOK

-----------------------------------------------------------------------------
(* What a step may do to the heap. *)

\* Objects keep their types, schemas everything, and what has changed is as promised.
LEMMA HeapStep ==
    ASSUME HeapOK, Keeps(heap, heap', Ids), DOMAIN heap' = Ids, DOMAIN spec' = Ids,
           \A i \in Ids :
            \/ heap'[i] = heap[i] /\ spec'[i] = spec[i]
            \/ ObjectOK(heap', heap'[i]) /\ View(heap', heap'[i]) = spec'[i]
    PROVE  HeapOK'
  <1>1. ASSUME NEW i \in Ids
        PROVE  ObjectOK(heap', heap'[i]) /\ View(heap', heap'[i]) = spec'[i]
    <2>1. CASE heap'[i] = heap[i] /\ spec'[i] = spec[i]
      <3>1. ObjectOK(heap, heap[i])
        BY DEF HeapOK
      <3>2. References(heap[i]) \subseteq Ids
        BY <3>1, ReferencesLive DEF Live
      <3>3. ObjectOK(heap', heap[i]) /\ View(heap', heap[i]) = View(heap, heap[i])
        BY <3>1, <3>2, KeepsObject
      <3> QED BY <2>1, <3>3 DEF HeapOK
    <2>2. CASE ObjectOK(heap', heap'[i]) /\ View(heap', heap'[i]) = spec'[i]
      BY <2>2
    <2> QED BY <2>1, <2>2
  <1>2. \A i \in Ids : ObjectOK(heap, heap[i])' = ObjectOK(heap', heap'[i])
    BY DEF ObjectOK, TupleOK, ArrayOK, BufferOK, SchemaOK, RecordOK, ResultOK, ModuleOK, MethodOK, CoroutineOK,
           NativeOK, AreValues, IsValue, Live, IsSequence
  <1> QED BY <1>1, <1>2 DEF HeapOK

\* The slots are untouched, and all objects are kept.
LEMMA SlotsStep ==
    ASSUME SlotsOK, Keeps(heap, heap', Ids), UNCHANGED <<slot, allocated>>
    PROVE  SlotsOK'
  <1>1. ASSUME NEW v, IsValue(heap, v)
        PROVE  IsValue(heap', v)
    <2>1. v[1] = "Object" => v[2] \in Ids
      BY <1>1 DEF IsValue, Live
    <2> QED BY <1>1, <2>1, KeepsValue
  <1> QED BY <1>1 DEF SlotsOK

\* A value is stored behind a handle.
LEMMA SlotWritten ==
    ASSUME SlotsOK, Keeps(heap, heap', Ids), UNCHANGED allocated,
           NEW r \in Handles, NEW v, IsValue(heap', v), Set(r, v)
    PROVE  SlotsOK'
  <1>1. ASSUME NEW w, IsValue(heap, w)
        PROVE  IsValue(heap', w)
    <2>1. w[1] = "Object" => w[2] \in Ids
      BY <1>1 DEF IsValue, Live
    <2> QED BY <1>1, <2>1, KeepsValue
  <1>2. r \in Slots /\ allocated[r]
    BY DEF Handles
  <1>3. DOMAIN slot' = Slots /\ slot'[r] = Stored(v) /\ \A s \in Slots : s # r => slot'[s] = slot[s]
    BY <1>2 DEF SlotsOK, Set
  <1>4. Stored(v)[2] = v /\ slot'[r] = Stored(slot'[r][2])
    BY <1>3 DEF Stored
  <1> QED BY <1>1, <1>2, <1>3, <1>4 DEF SlotsOK

\* No coroutine or native object changes, and a new coroutine has no callback yet.
Calm ==
    \A i \in Ids :
        /\ heap[i].type \in {"Coroutine", "NativeObject"} => heap'[i] = heap[i]
        /\ heap'[i].type = "NativeObject" => heap'[i] = heap[i]
        /\ heap'[i].type = "Coroutine" => heap'[i] = heap[i] \/ heap'[i].native_callback = NoObject

\* No coroutine and no native object changes: the queue and the running callback stand.
LEMMA CalmRoots ==
    ASSUME RootsOK, Keeps(heap, heap', Ids), Calm, vm = "alive", err' \in Codes,
           UNCHANGED <<program, scheduling, vm, crashed>>
    PROVE  RootsOK'
  <1>0. /\ UNCHANGED <<registry, ready, running, frame, users, program, vm, crashed>>
    BY DEF scheduling
  <1>1. \A i \in Ids : heap[i].type # "Free" => heap'[i].type = heap[i].type
    BY DEF Keeps, Live
  <1>2. \A n \in Names : registry[n] # NoObject => heap'[registry[n]].type = "Module"
    BY <1>1 DEF RootsOK
  <1>3. ReadyOK(heap', ready)
    <2>1. \A k \in DOMAIN ready : ready[k] \in Ids
      BY DEF RootsOK, ReadyOK
    <2> QED BY <2>1 DEF RootsOK, ReadyOK, Calm
  <1>4. frame # NoFrame =>
            /\ running /\ frame.coroutine \in Live(heap') /\ frame.callback \in Ids
            /\ heap'[frame.callback].type = "NativeObject"
    BY <1>1 DEF RootsOK, Live
  <1>5. /\ registry \in [Names -> Ids \union {NoObject}]
        /\ program \in Programs /\ running \in BOOLEAN /\ crashed \in BOOLEAN
    BY DEF RootsOK
  <1>6. /\ registry' = registry /\ ready' = ready /\ frame' = frame /\ running' = running
        /\ program' = program /\ vm' = "alive" /\ crashed' = crashed
    BY <1>0
  <1> QED BY <1>2, <1>3, <1>4, <1>5, <1>6 DEF RootsOK, ReadyOK, NoFrame, Live, Codes

\* No coroutine and no native object changes: what is recorded about userdata stands.
LEMMA CalmUsers ==
    ASSUME UsersOK, RootsOK, HeapOK, Calm, UNCHANGED <<users, frame>>
    PROVE  UsersOK'
  <1>1. Natives' = Natives /\ \A i \in Natives : heap'[i] = heap[i]
    BY DEF Natives, Calm
  <1>2. Due' \subseteq Due
    <2> SUFFICES ASSUME NEW i \in Due'
                 PROVE  i \in Due
      OBVIOUS
    <2>1. i \in Natives' /\ i \in Ids
      BY DEF Due, Natives
    <2>2. PICK c \in Ids : heap'[c].type = "Coroutine" /\ heap'[c].state # "Done" /\ heap'[c].native_callback = i
      BY DEF Due
    <2>3. i # NoObject
      BY <2>1, IdFacts
    <2>4. heap'[c] = heap[c]
      BY <2>2, <2>3 DEF Calm
    <2> QED BY <1>1, <2>1, <2>2, <2>4 DEF Due
  <1>3. \A c, d \in Ids :
            /\ heap'[c].type = "Coroutine" /\ heap'[d].type = "Coroutine"
            /\ heap'[c].native_callback = heap'[d].native_callback /\ heap'[c].native_callback # NoObject
            => c = d
    <2> SUFFICES ASSUME NEW c \in Ids, NEW d \in Ids,
                        heap'[c].type = "Coroutine", heap'[d].type = "Coroutine",
                        heap'[c].native_callback = heap'[d].native_callback, heap'[c].native_callback # NoObject
                 PROVE  c = d
      OBVIOUS
    <2>1. heap'[c] = heap[c] /\ heap'[d] = heap[d]
      BY DEF Calm
    <2> QED BY <2>1 DEF UsersOK
  <1>4. frame # NoFrame => frame.callback \in Natives
    BY DEF RootsOK, Natives
  <1>5. \A i \in Natives : User(i)' = User(i)
    BY <1>1 DEF User
  <1>6. users' = users /\ frame' = frame
    OBVIOUS
  <1>7. \A u \in Users : users[u].cleanup /\ users[u].cleaned = 0 =>
            \E i \in Natives' : heap'[i].userdata = u /\ heap'[i].cleanup
    BY <1>1 DEF UsersOK
  <1>8. \A i \in Natives' :
            /\ User(i)'.registered
            /\ heap'[i].cleanup => User(i)'.cleanup /\ User(i)'.cleaned = 0
    BY <1>1, <1>5 DEF UsersOK
  <1>9. \A i, j \in Natives' : heap'[i].userdata = heap'[j].userdata => i = j
    BY <1>1 DEF UsersOK
  <1>10. \A i \in Due' : User(i)'.called = 0 /\ User(i)'.cleaned = 0
    <2>1. Due \subseteq Natives
      BY DEF Due
    <2> QED BY <1>2, <1>5, <2>1 DEF UsersOK
  <1>11. frame # NoFrame => User(frame.callback)'.called = 1 /\ User(frame.callback)'.cleaned = 0
    BY <1>4, <1>5 DEF UsersOK
  <1>12. DOMAIN users = Users /\ \A u \in Users : UserOK(users[u])
    BY DEF UsersOK
  <1> QED BY <1>3, <1>6, <1>7, <1>8, <1>9, <1>10, <1>11, <1>12 DEF UsersOK, User, UserOK, NoFrame

\* An object other than a schema, a coroutine or a native object is replaced by one of its type.
Updated(i, o, p) ==
    /\ i \in Ids /\ heap[i].type \in {"Tuple", "Array", "Buffer", "Record"} /\ o.type = heap[i].type
    /\ ObjectOK(heap, o) /\ View(heap, o) = p
    /\ heap' = [heap EXCEPT ![i] = o] /\ spec' = [spec EXCEPT ![i] = p] /\ slot' = slot

\* An object is made from values that exist.
Created(o, p, r) ==
    /\ FreeIds # {} /\ r \in Handles /\ create_object(o, p, r)
    /\ ObjectOK(heap, o) /\ View(heap, o) = p /\ o.type # "Free"

\* Replacing an object by one of its type keeps the heap as promised.
LEMMA UpdatedKeeps ==
    ASSUME HostInv, NEW i, NEW o, NEW p, Updated(i, o, p)
    PROVE  Keeps(heap, heap', Ids) /\ Calm /\ HeapOK'
  <1>0. DOMAIN heap = Ids /\ DOMAIN spec = Ids /\ i \in Ids
    BY DEF HostInv, HeapOK, Updated
  <1>1. heap'[i] = o /\ spec'[i] = p /\ \A j \in Ids : j # i => heap'[j] = heap[j] /\ spec'[j] = spec[j]
    BY <1>0 DEF Updated
  <1>2. heap[i].type \in {"Tuple", "Array", "Buffer", "Record"} /\ o.type = heap[i].type
    BY DEF Updated
  <1>3. Keeps(heap, heap', Ids)
    BY <1>1, <1>2 DEF Keeps, Live
  <1>4. Calm
    BY <1>1, <1>2 DEF Calm
  <1>5. ObjectOK(heap', o) /\ View(heap', o) = p
    <2>1. ObjectOK(heap, o) /\ View(heap, o) = p
      BY DEF Updated
    <2>2. References(o) \subseteq Ids
      BY <2>1, ReferencesLive DEF Live
    <2> QED BY <1>3, <2>1, <2>2, KeepsObject
  <1>6. DOMAIN heap' = Ids /\ DOMAIN spec' = Ids
    BY <1>0 DEF Updated
  <1>7. HeapOK'
    BY <1>1, <1>3, <1>5, <1>6, HeapStep DEF HostInv
  <1> QED BY <1>3, <1>4, <1>7

\* The first free object is one.
LEMMA NewIdFree ==
    ASSUME HostInv, FreeIds # {}
    PROVE  NewId \in Ids /\ heap[NewId].type = "Free"
  <1>1. program.objects \in 0..MaxObjects /\ MaxObjects \in Nat
    BY HostAssumption DEF HostInv, RootsOK
  <1>2. FreeIds \subseteq Ids /\ FreeIds \subseteq Nat
    BY <1>1 DEF FreeIds, Ids
  <1>3. \E i \in FreeIds : \A j \in FreeIds : i <= j
    BY <1>2, LeastNumber
  <1>4. NewId \in FreeIds
    BY <1>3, Zenon DEF NewId
  <1> QED BY <1>2, <1>4 DEF FreeIds

\* Making an object takes a free number and keeps the heap as promised.
LEMMA CreatedKeeps ==
    ASSUME HostInv, NEW o, NEW p, NEW r, Created(o, p, r), UNCHANGED allocated
    PROVE  /\ Keeps(heap, heap', Ids) /\ HeapOK' /\ SlotsOK'
           /\ NewId \in Ids /\ heap[NewId].type = "Free" /\ heap'[NewId] = o
           /\ \A j \in Ids : j # NewId => heap'[j] = heap[j]
  <1>1. NewId \in Ids /\ heap[NewId].type = "Free"
    BY NewIdFree DEF Created
  <1>2. PICK i : i = NewId
    OBVIOUS
  <1>0. DOMAIN heap = Ids /\ DOMAIN spec = Ids /\ i \in Ids /\ heap[i].type = "Free"
    BY <1>1, <1>2 DEF HostInv, HeapOK
  <1>3. heap' = [heap EXCEPT ![i] = o] /\ spec' = [spec EXCEPT ![i] = p] /\ Set(r, Ref(i)) /\ r \in Handles
    BY <1>2 DEF Created, create_object
  <1>4. /\ DOMAIN heap' = Ids /\ DOMAIN spec' = Ids
        /\ heap'[i] = o /\ spec'[i] = p /\ \A j \in Ids : j # i => heap'[j] = heap[j] /\ spec'[j] = spec[j]
    BY <1>0, <1>3
  <1>5. Keeps(heap, heap', Ids)
    BY <1>0, <1>4 DEF Keeps, Live
  <1>6. ObjectOK(heap', o) /\ View(heap', o) = p
    <2>1. ObjectOK(heap, o) /\ View(heap, o) = p
      BY DEF Created
    <2>2. References(o) \subseteq Ids
      BY <2>1, ReferencesLive DEF Live
    <2> QED BY <1>5, <2>1, <2>2, KeepsObject
  <1>7. HeapOK'
    BY <1>4, <1>5, <1>6, HeapStep DEF HostInv
  <1>8. IsValue(heap', Ref(i))
    <2>1. i \in Live(heap')
      BY <1>0, <1>4 DEF Live, Created
    <2> QED BY <2>1, PlainValues
  <1>9. SlotsOK'
    BY <1>3, <1>5, <1>8, SlotWritten DEF HostInv
  <1> QED BY <1>0, <1>2, <1>4, <1>5, <1>7, <1>9

\* A call that changes no more than values behind handles and the objects of the host.
CallStep ==
    /\ vm = "alive" /\ UNCHANGED <<program, storage, scheduling, vm, crashed>> /\ err' \in Codes
    /\ \/ UNCHANGED <<slot, heap, spec>>
       \/ \E r \in Handles : \E v : IsValue(heap, v) /\ Writes(r, v)
       \/ \E i, o, p : Updated(i, o, p)
       \/ \E o, p, r :
            /\ Created(o, p, r) /\ o.type # "NativeObject"
            /\ o.type = "Coroutine" => o.native_callback = NoObject

\* A call of that kind keeps the invariant.
LEMMA CallKeepsInv ==
    ASSUME HostInv, CallStep
    PROVE  HostInv'
  <1>0. HeapOK /\ SlotsOK /\ RootsOK /\ UsersOK /\ vm = "alive" /\ err' \in Codes
    BY DEF HostInv, CallStep
  <1>1. UNCHANGED <<program, scheduling, vm, crashed>> /\ UNCHANGED <<users, frame>> /\ UNCHANGED allocated
    BY DEF CallStep, scheduling, storage
  <1>2. Keeps(heap, heap', Ids) /\ Calm /\ HeapOK' /\ SlotsOK'
    <2>1. CASE UNCHANGED <<heap, spec>>
      <3>1. Keeps(heap, heap', Ids) /\ Calm
        BY <2>1 DEF Keeps, Calm
      <3>2. HeapOK'
        BY <1>0, <2>1, <3>1, HeapStep DEF HeapOK
      <3>3. CASE UNCHANGED slot
        BY <1>0, <1>1, <3>1, <3>2, <3>3, SlotsStep
      <3>4. CASE \E r \in Handles : \E v : IsValue(heap, v) /\ Writes(r, v)
        <4>1. PICK r \in Handles : \E v : IsValue(heap, v) /\ Writes(r, v)
          BY <3>4
        <4>2. PICK v : IsValue(heap, v) /\ Writes(r, v)
          BY <4>1
        <4>3. IsValue(heap', v) /\ Set(r, v)
          BY <2>1, <4>2 DEF Writes
        <4> QED BY <1>0, <1>1, <3>1, <3>2, <4>2, <4>3, SlotWritten
      <3>5. CASE \E i, o, p : Updated(i, o, p)
        BY <1>0, <1>1, <3>1, <3>2, <3>5, SlotsStep DEF Updated
      <3>6. CASE \E o, p, r : Created(o, p, r)
        <4>1. PICK o, p, r : Created(o, p, r)
          BY <3>6
        <4> QED BY <1>1, <3>1, <3>2, <4>1, CreatedKeeps
      <3> QED BY <3>3, <3>4, <3>5, <3>6 DEF CallStep
    <2>2. CASE \E i, o, p : Updated(i, o, p)
      <3>1. PICK i, o, p : Updated(i, o, p)
        BY <2>2
      <3>2. Keeps(heap, heap', Ids) /\ Calm /\ HeapOK' /\ UNCHANGED <<slot, allocated>>
        BY <1>1, <3>1, UpdatedKeeps DEF Updated
      <3> QED BY <1>0, <3>2, SlotsStep
    <2>3. CASE \E o, p, r :
                /\ Created(o, p, r) /\ o.type # "NativeObject"
                /\ o.type = "Coroutine" => o.native_callback = NoObject
      <3>1. PICK o, p, r : /\ Created(o, p, r) /\ o.type # "NativeObject"
                           /\ o.type = "Coroutine" => o.native_callback = NoObject
        BY <2>3
      <3>2. /\ Keeps(heap, heap', Ids) /\ HeapOK' /\ SlotsOK'
            /\ NewId \in Ids /\ heap[NewId].type = "Free" /\ heap'[NewId] = o
            /\ \A j \in Ids : j # NewId => heap'[j] = heap[j]
        BY <1>1, <3>1, CreatedKeeps
      <3>3. Calm
        BY <3>1, <3>2 DEF Calm
      <3> QED BY <3>2, <3>3
    <2> QED BY <2>1, <2>2, <2>3 DEF CallStep, Writes
  <1>3. RootsOK'
    BY <1>0, <1>1, <1>2, CalmRoots
  <1>4. UsersOK'
    BY <1>0, <1>1, <1>2, CalmUsers
  <1> QED BY <1>2, <1>3, <1>4 DEF HostInv

-----------------------------------------------------------------------------
(* Arguments, results and errors of calls. *)

\* Behind a handle there is a value.
LEMMA ArgValue ==
    ASSUME HostInv, NEW h \in Args, h # NULL
    PROVE  IsValue(heap, Get(h))
  <1>1. CASE h \in Handles
    <2>1. h \in Slots /\ allocated[h] /\ h # LocalHandle
      <3>1. PageSlots * MaxPages \in Nat
        BY HostAssumption
      <3> QED BY <1>1, <3>1 DEF Handles, Slots, LocalHandle
    <2> QED BY <2>1 DEF HostInv, SlotsOK, Get
  <1>2. CASE h \notin Handles
    <2>1. frame # NoFrame /\ h = LocalHandle
      BY <1>2 DEF Args, Nothing
    <2>2. frame.coroutine \in Live(heap)
      BY <2>1 DEF HostInv, RootsOK
    <2> QED BY <2>1, <2>2, PlainValues DEF Get
  <1> QED BY <1>1, <1>2

\* A handle of an object has one, and it is what the calls have promised.
LEMMA ArgObject ==
    ASSUME HostInv, NEW h \in Args, NEW type \in ObjectTypes, IsA(h, type)
    PROVE  /\ Id(h) \in Live(heap) /\ Id(h) \in Ids /\ Obj(h) = heap[Id(h)] /\ Obj(h).type = type
           /\ ObjectOK(heap, Obj(h)) /\ View(heap, Obj(h)) = spec[Id(h)]
  <1>1. IsValue(heap, Get(h)) /\ value_type(heap, Get(h)) = type
    BY ArgValue DEF IsA
  <1>2. Id(h) \in Live(heap) /\ Id(h) \in Ids /\ heap[Id(h)].type = type
    BY <1>1, ObjectOfType DEF Id
  <1> QED BY <1>2 DEF Obj, HostInv, HeapOK

\* A result is stored behind a handle.
LEMMA ResultHandle ==
    ASSUME NEW r \in Results, r # NULL
    PROVE  r \in Handles
  BY DEF Results, Nothing

\* The checks of arguments return error codes, and their success says what was checked.
LEMMA CodesAre ==
    ASSUME NEW hs, NEW h, NEW type, NEW i
    PROVE  /\ bad_arg(hs) \in Codes /\ bad_type(hs, h, type) \in Codes
           /\ out_of_bounds(hs, h, type, i) \in Codes
           /\ bad_arg(hs) = "OK" => NULL \notin hs
           /\ bad_type(hs, h, type) = "OK" => NULL \notin hs /\ IsA(h, type)
           /\ out_of_bounds(hs, h, type, i) = "OK" =>
                NULL \notin hs /\ IsA(h, type) /\ ~(i >= Len(Obj(h).values))
  BY DEF bad_arg, bad_type, out_of_bounds, Codes

\* An error that is reported is one of the codes.
LEMMA Reports ==
    ASSUME HostInv, NEW code \in Codes, report_error(code)
    PROVE  err' \in Codes
  BY DEF HostInv, RootsOK, report_error

\* Calls that store a value behind a handle.
LEMMA WriteCall ==
    ASSUME HostInv, NEW family, NEW code \in Codes, NEW r \in Results, NEW v,
           entry_point(family, code, Writes(r, v)),
           code = "OK" => r # NULL /\ IsValue(heap, v)
    PROVE  CallStep
  <1>1. vm = "alive" /\ UNCHANGED <<program, storage, scheduling, vm, crashed>> /\ err' \in Codes
    BY Reports DEF entry_point, Uses
  <1>2. CASE code = "OK"
    <2>1. Writes(r, v) /\ IsValue(heap, v) /\ r \in Handles
      BY <1>2, ResultHandle DEF entry_point
    <2> QED BY <1>1, <2>1 DEF CallStep
  <1>3. CASE code # "OK"
    BY <1>1, <1>3 DEF CallStep, entry_point
  <1> QED BY <1>2, <1>3

\* Calls that change an object.
LEMMA UpdateCall ==
    ASSUME HostInv, NEW family, NEW code \in Codes, NEW h, NEW o, NEW p,
           entry_point(family, code, Updates(h, o, p)),
           code = "OK" =>
            /\ Id(h) \in Ids /\ heap[Id(h)].type \in {"Tuple", "Array", "Buffer", "Record"}
            /\ o.type = heap[Id(h)].type /\ ObjectOK(heap, o) /\ View(heap, o) = p
    PROVE  CallStep
  <1>1. vm = "alive" /\ UNCHANGED <<program, storage, scheduling, vm, crashed>> /\ err' \in Codes
    BY Reports DEF entry_point, Uses
  <1>2. CASE code = "OK"
    <2>1. Updated(Id(h), o, p)
      BY <1>2 DEF entry_point, Updates, Updated
    <2> QED BY <1>1, <2>1 DEF CallStep
  <1>3. CASE code # "OK"
    BY <1>1, <1>3 DEF CallStep, entry_point
  <1> QED BY <1>2, <1>3

\* A call that fails changes no more than the error.
LEMMA FailedCall ==
    ASSUME HostInv, NEW family, NEW code \in Codes \ {"OK"}, entry_point(family, code, FALSE)
    PROVE  CallStep
  <1>1. vm = "alive" /\ UNCHANGED <<program, storage, scheduling, vm, crashed>> /\ err' \in Codes
    BY Reports DEF entry_point, Uses
  <1> QED BY <1>1 DEF CallStep, entry_point

\* Calls that make an object.
LEMMA MakeCall ==
    ASSUME HostInv, NEW family, NEW code \in Codes, NEW o, NEW p, NEW r \in Results,
           Makes(family, code, o, p, r),
           code = "OK" =>
            /\ r # NULL /\ ObjectOK(heap, o) /\ View(heap, o) = p /\ o.type \notin {"Free", "NativeObject"}
            /\ o.type = "Coroutine" => o.native_callback = NoObject
    PROVE  CallStep
  <1>1. CASE code = "OK" /\ FreeIds # {} /\ entry_point(family, "OK", create_object(o, p, r))
    <2>1. "OK" \in Codes
      BY DEF Codes
    <2>2. vm = "alive" /\ UNCHANGED <<program, storage, scheduling, vm, crashed>> /\ err' \in Codes
      BY <1>1, <2>1, Reports DEF entry_point, Uses
    <2>3. r \in Handles /\ create_object(o, p, r)
      BY <1>1, ResultHandle DEF entry_point
    <2>4. Created(o, p, r)
      BY <1>1, <2>3 DEF Created
    <2> QED BY <1>1, <2>2, <2>4 DEF CallStep
  <1>2. CASE entry_point(family, IF code = "OK" THEN "ALLOC" ELSE code, FALSE)
    <2>1. (IF code = "OK" THEN "ALLOC" ELSE code) \in Codes \ {"OK"}
      BY DEF Codes
    <2> QED BY <1>2, <2>1, FailedCall
  <1> QED BY <1>1, <1>2 DEF Makes

-----------------------------------------------------------------------------
(* Calls that read an element. *)

\* An index that is not out of bounds has a value.
LEMMA ElementIs ==
    ASSUME NEW h, NEW s, AreValues(h, s), NEW i \in Nat, ~(i >= Len(s))
    PROVE  i + 1 \in DOMAIN s /\ IsValue(h, s[i + 1])
  <1>1. Len(s) \in Nat /\ DOMAIN s = 1..Len(s)
    BY SeqDomain DEF AreValues
  <1> QED BY <1>1 DEF AreValues

\* Indexes are numbers.
LEMMA IndexesNat ==
    ASSUME HostInv
    PROVE  Indexes \subseteq Nat /\ program.length \in Nat
  BY HostAssumption DEF Indexes, HostInv, RootsOK

\* Reading an element of a tuple (tiro_tuple_get).
LEMMA TupleGet ==
    ASSUME HostInv, NEW t \in Args, NEW i \in Indexes, NEW r \in Results, tiro_tuple_get(t, i, r)
    PROVE  CallStep
  <1>1. PICK v : v = Obj(t).values[i + 1]
    OBVIOUS
  <1>2. PICK code : code = out_of_bounds({t, r}, t, "Tuple", i)
    OBVIOUS
  <1>3. entry_point("tuples", code, Writes(r, v))
    BY <1>1, <1>2 DEF tiro_tuple_get
  <1>4. code \in Codes
    BY <1>2, CodesAre
  <1>5. ASSUME code = "OK"
        PROVE  r # NULL /\ IsValue(heap, v)
    <2>1. r # NULL /\ IsA(t, "Tuple") /\ ~(i >= Len(Obj(t).values))
      BY <1>2, <1>5, CodesAre
    <2>2. ObjectOK(heap, Obj(t)) /\ Obj(t).type = "Tuple"
      BY <2>1, ArgObject DEF ObjectTypes
    <2>3. AreValues(heap, Obj(t).values)
      BY <2>2, ObjectKinds DEF TupleOK
    <2>4. i \in Nat
      BY IndexesNat
    <2> QED BY <1>1, <2>1, <2>3, <2>4, ElementIs
  <1> QED BY <1>3, <1>4, <1>5, WriteCall

\* Reading an element of an array (tiro_array_get).
LEMMA ArrayGet ==
    ASSUME HostInv, NEW a \in Args, NEW i \in Indexes, NEW r \in Results, tiro_array_get(a, i, r)
    PROVE  CallStep
  <1>1. PICK v : v = Obj(a).values[i + 1]
    OBVIOUS
  <1>2. PICK code : code = out_of_bounds({a, r}, a, "Array", i)
    OBVIOUS
  <1>3. entry_point("arrays", code, Writes(r, v))
    BY <1>1, <1>2 DEF tiro_array_get
  <1>4. code \in Codes
    BY <1>2, CodesAre
  <1>5. ASSUME code = "OK"
        PROVE  r # NULL /\ IsValue(heap, v)
    <2>1. r # NULL /\ IsA(a, "Array") /\ ~(i >= Len(Obj(a).values))
      BY <1>2, <1>5, CodesAre
    <2>2. ObjectOK(heap, Obj(a)) /\ Obj(a).type = "Array"
      BY <2>1, ArgObject DEF ObjectTypes
    <2>3. AreValues(heap, Obj(a).values)
      BY <2>2, ObjectKinds DEF ArrayOK
    <2>4. i \in Nat
      BY IndexesNat
    <2> QED BY <1>1, <2>1, <2>3, <2>4, ElementIs
  <1> QED BY <1>3, <1>4, <1>5, WriteCall

-----------------------------------------------------------------------------
(* Calls that replace an element. *)

\* Values with one of them replaced are values.
LEMMA ElementsSet ==
    ASSUME NEW h, NEW s, AreValues(h, s), NEW k \in DOMAIN s, NEW v, IsValue(h, v)
    PROVE  LET t == [s EXCEPT ![k] = v] IN AreValues(h, t) /\ Len(t) = Len(s) /\ DOMAIN t = DOMAIN s
  <1>1. PICK t : t = [s EXCEPT ![k] = v]
    OBVIOUS
  <1>2. /\ IsSequence(t) /\ Len(t) = Len(s) /\ DOMAIN t = DOMAIN s
        /\ t[k] = v /\ \A i \in DOMAIN s : i # k => t[i] = s[i]
    BY <1>1, SeqSet DEF AreValues
  <1>3. \A i \in DOMAIN t : IsValue(h, t[i])
    BY <1>2 DEF AreValues
  <1> QED BY <1>1, <1>2, <1>3 DEF AreValues

\* A tuple or array with an element replaced is one, and its contents change there only.
LEMMA ValuesReplaced ==
    ASSUME NEW h, NEW o, ObjectOK(h, o), o.type \in {"Tuple", "Array"},
           NEW k \in DOMAIN o.values, NEW v, IsValue(h, v)
    PROVE  LET c == [o EXCEPT !.values[k] = v]
           IN  ObjectOK(h, c) /\ c.type = o.type /\ View(h, c) = [View(h, o) EXCEPT ![k] = v]
  <1>1. PICK t : t = [o.values EXCEPT ![k] = v]
    OBVIOUS
  <1>2. PICK c : c = [o EXCEPT !.values[k] = v]
    OBVIOUS
  <1>3. CASE o.type = "Tuple"
    <2>1. TupleOK(h, o)
      BY <1>3, ObjectKinds
    <2>2. AreValues(h, t)
      BY <1>1, <2>1, ElementsSet DEF TupleOK
    <2>3. c = [type |-> "Tuple", values |-> t]
      BY <1>1, <1>2, <2>1 DEF TupleOK
    <2>4. TupleOK(h, c) /\ c.type = "Tuple" /\ c.values = t
      BY <2>2, <2>3 DEF TupleOK
    <2>5. View(h, c) = t /\ View(h, o) = o.values
      BY <1>3, <2>4 DEF View
    <2> QED BY <1>1, <1>2, <1>3, <2>4, <2>5 DEF ObjectOK
  <1>4. CASE o.type = "Array"
    <2>1. ArrayOK(h, o)
      BY <1>4, ObjectKinds
    <2>2. AreValues(h, t) /\ Len(t) = Len(o.values)
      BY <1>1, <2>1, ElementsSet DEF ArrayOK
    <2>3. c = [type |-> "Array", capacity |-> o.capacity, values |-> t]
      BY <1>1, <1>2, <2>1 DEF ArrayOK
    <2>4. ArrayOK(h, c) /\ c.type = "Array" /\ c.values = t
      BY <2>1, <2>2, <2>3 DEF ArrayOK
    <2>5. View(h, c) = t /\ View(h, o) = o.values
      BY <1>4, <2>4 DEF View
    <2> QED BY <1>1, <1>2, <1>4, <2>4, <2>5 DEF ObjectOK
  <1> QED BY <1>3, <1>4

\* The same of a buffer.
LEMMA BytesReplaced ==
    ASSUME NEW h, NEW o, ObjectOK(h, o), o.type = "Buffer", NEW k \in DOMAIN o.bytes, NEW v
    PROVE  LET c == [o EXCEPT !.bytes[k] = v]
           IN  ObjectOK(h, c) /\ c.type = o.type /\ View(h, c) = [View(h, o) EXCEPT ![k] = v]
  <1>1. PICK t : t = [o.bytes EXCEPT ![k] = v]
    OBVIOUS
  <1>2. PICK c : c = [o EXCEPT !.bytes[k] = v]
    OBVIOUS
  <1>3. BufferOK(o)
    BY ObjectKinds
  <1>4. IsSequence(t)
    BY <1>1, <1>3, SeqSet DEF BufferOK
  <1>5. c = [type |-> "Buffer", bytes |-> t]
    BY <1>1, <1>2, <1>3 DEF BufferOK
  <1>6. BufferOK(c) /\ c.type = "Buffer" /\ c.bytes = t
    BY <1>4, <1>5 DEF BufferOK
  <1>7. View(h, c) = t /\ View(h, o) = o.bytes
    BY <1>6 DEF View
  <1> QED BY <1>1, <1>2, <1>6, <1>7 DEF ObjectOK

\* A call that stores a value at an index of a tuple or an array.
LEMMA ElementCall ==
    ASSUME HostInv, NEW family, NEW code \in Codes, NEW h \in Args, NEW w \in Args, NEW type \in {"Tuple", "Array"},
           NEW k,
           entry_point(family, code, Updates(h, [Obj(h) EXCEPT !.values[k] = Get(w)],
                                             [spec[Id(h)] EXCEPT ![k] = Get(w)])),
           code = "OK" => w # NULL /\ IsA(h, type) /\ k \in DOMAIN Obj(h).values
    PROVE  CallStep
  <1>1. PICK v : v = Get(w)
    OBVIOUS
  <1>2. PICK o : o = Obj(h)
    OBVIOUS
  <1>3. PICK p : p = spec[Id(h)]
    OBVIOUS
  <1>4. PICK c : c = [o EXCEPT !.values[k] = v]
    OBVIOUS
  <1>5. PICK q : q = [p EXCEPT ![k] = v]
    OBVIOUS
  <1>6. entry_point(family, code, Updates(h, c, q))
    BY <1>1, <1>2, <1>3, <1>4, <1>5
  <1>7. ASSUME code = "OK"
        PROVE  /\ Id(h) \in Ids /\ heap[Id(h)].type \in {"Tuple", "Array", "Buffer", "Record"}
               /\ c.type = heap[Id(h)].type /\ ObjectOK(heap, c) /\ View(heap, c) = q
    <2>1. type \in ObjectTypes
      BY DEF ObjectTypes
    <2>2. /\ Id(h) \in Ids /\ o = heap[Id(h)] /\ o.type = type /\ ObjectOK(heap, o) /\ View(heap, o) = p
      BY <1>2, <1>3, <1>7, <2>1, ArgObject
    <2>3. IsValue(heap, v) /\ k \in DOMAIN o.values
      BY <1>1, <1>2, <1>7, ArgValue
    <2>4. ObjectOK(heap, c) /\ c.type = o.type /\ View(heap, c) = [View(heap, o) EXCEPT ![k] = v]
      BY <1>4, <2>2, <2>3, ValuesReplaced
    <2> QED BY <1>5, <2>2, <2>4
  <1> QED BY <1>6, <1>7, UpdateCall

\* Storing an element of a tuple (tiro_tuple_set).
LEMMA TupleSet ==
    ASSUME HostInv, NEW t \in Args, NEW i \in Indexes, NEW w \in Args, tiro_tuple_set(t, i, w)
    PROVE  CallStep
  <1>1. PICK code : code = out_of_bounds({t, w}, t, "Tuple", i)
    OBVIOUS
  <1>2. PICK k : k = i + 1
    OBVIOUS
  <1>3. entry_point("tuples", code, Updates(t, [Obj(t) EXCEPT !.values[k] = Get(w)],
                                            [spec[Id(t)] EXCEPT ![k] = Get(w)]))
    BY <1>1, <1>2 DEF tiro_tuple_set
  <1>4. code \in Codes
    BY <1>1, CodesAre
  <1>5. ASSUME code = "OK"
        PROVE  w # NULL /\ IsA(t, "Tuple") /\ k \in DOMAIN Obj(t).values
    <2>1. w # NULL /\ IsA(t, "Tuple") /\ ~(i >= Len(Obj(t).values))
      BY <1>1, <1>5, CodesAre
    <2>2. ObjectOK(heap, Obj(t)) /\ Obj(t).type = "Tuple"
      BY <2>1, ArgObject DEF ObjectTypes
    <2>3. AreValues(heap, Obj(t).values)
      BY <2>2, ObjectKinds DEF TupleOK
    <2>4. i \in Nat
      BY IndexesNat
    <2> QED BY <1>2, <2>1, <2>3, <2>4, ElementIs
  <1> QED BY <1>3, <1>4, <1>5, ElementCall

\* Storing an element of an array (tiro_array_set).
LEMMA ArraySet ==
    ASSUME HostInv, NEW a \in Args, NEW i \in Indexes, NEW w \in Args, tiro_array_set(a, i, w)
    PROVE  CallStep
  <1>1. PICK code : code = out_of_bounds({a, w}, a, "Array", i)
    OBVIOUS
  <1>2. PICK k : k = i + 1
    OBVIOUS
  <1>3. entry_point("arrays", code, Updates(a, [Obj(a) EXCEPT !.values[k] = Get(w)],
                                            [spec[Id(a)] EXCEPT ![k] = Get(w)]))
    BY <1>1, <1>2 DEF tiro_array_set
  <1>4. code \in Codes
    BY <1>1, CodesAre
  <1>5. ASSUME code = "OK"
        PROVE  w # NULL /\ IsA(a, "Array") /\ k \in DOMAIN Obj(a).values
    <2>1. w # NULL /\ IsA(a, "Array") /\ ~(i >= Len(Obj(a).values))
      BY <1>1, <1>5, CodesAre
    <2>2. ObjectOK(heap, Obj(a)) /\ Obj(a).type = "Array"
      BY <2>1, ArgObject DEF ObjectTypes
    <2>3. AreValues(heap, Obj(a).values)
      BY <2>2, ObjectKinds DEF ArrayOK
    <2>4. i \in Nat
      BY IndexesNat
    <2> QED BY <1>2, <2>1, <2>3, <2>4, ElementIs
  <1> QED BY <1>3, <1>4, <1>5, ElementCall

-----------------------------------------------------------------------------
(* Calls that change the length of an array. *)

\* Appending keeps an array one whose storage fits, whether or not it has to grow.
LEMMA Appended ==
    ASSUME NEW h, NEW o, ObjectOK(h, o), o.type = "Array", NEW v, IsValue(h, v)
    PROVE  LET c == try_append(o, v)
           IN  ObjectOK(h, c) /\ c.type = "Array" /\ View(h, c) = Append(View(h, o), v)
  <1>1. ArrayOK(h, o)
    BY ObjectKinds
  <1>2. PICK s : s = o.values
    OBVIOUS
  <1>3. PICK n : n = o.capacity
    OBVIOUS
  <1>4. PICK t : t = Append(s, v)
    OBVIOUS
  <1>5. /\ IsSequence(t) /\ Len(t) = Len(s) + 1 /\ t[Len(s) + 1] = v
        /\ DOMAIN t = 1..Len(s) + 1 /\ \A i \in DOMAIN s : t[i] = s[i]
    BY <1>1, <1>2, <1>4, SeqAppend DEF ArrayOK, AreValues
  <1>6. Len(s) \in Nat /\ DOMAIN s = 1..Len(s)
    BY <1>1, <1>2, SeqDomain DEF ArrayOK, AreValues
  <1>7. AreValues(h, t)
    <2>1. ASSUME NEW i \in DOMAIN t
          PROVE  IsValue(h, t[i])
      <3>1. i \in DOMAIN s \/ i = Len(s) + 1
        BY <1>5, <1>6
      <3>2. CASE i \in DOMAIN s
        BY <1>1, <1>2, <1>5, <3>2 DEF ArrayOK, AreValues
      <3>3. CASE i = Len(s) + 1
        BY <1>5, <3>3
      <3> QED BY <3>1, <3>2, <3>3
    <2> QED BY <1>5, <2>1 DEF AreValues
  <1>8. n \in Nat /\ Len(s) <= n /\ o = [type |-> "Array", capacity |-> n, values |-> s]
    BY <1>1, <1>2, <1>3 DEF ArrayOK
  <1>9. \E m \in Nat : try_append(o, v) = [type |-> "Array", capacity |-> m, values |-> t] /\ Len(t) <= m
    <2>1. CASE Len(s) < n
      <3>1. try_append(o, v) = [type |-> "Array", capacity |-> n, values |-> t]
        BY <1>2, <1>3, <1>4, <1>8, <2>1 DEF try_append
      <3> QED BY <1>5, <1>6, <1>8, <2>1, <3>1
    <2>2. CASE ~(Len(s) < n)
      <3>1. PICK m : m = next_capacity(n + 1)
        OBVIOUS
      <3>2. n + 1 \in Nat
        BY <1>8
      <3>3. m \in Nat /\ m >= n + 1
        BY <3>1, <3>2, CapacitySuffices
      <3>4. try_append(o, v) = [type |-> "Array", capacity |-> m, values |-> t]
        BY <1>2, <1>3, <1>4, <1>8, <2>2, <3>1 DEF try_append
      <3>5. Len(t) <= m
        BY <1>5, <1>6, <1>8, <3>3
      <3> QED BY <3>3, <3>4, <3>5
    <2> QED BY <2>1, <2>2
  <1>10. PICK m \in Nat : try_append(o, v) = [type |-> "Array", capacity |-> m, values |-> t] /\ Len(t) <= m
    BY <1>9
  <1>11. PICK c : c = try_append(o, v)
    OBVIOUS
  <1>12. ArrayOK(h, c) /\ c.type = "Array" /\ c.values = t
    BY <1>7, <1>10, <1>11 DEF ArrayOK
  <1>13. View(h, c) = t /\ View(h, o) = s
    BY <1>2, <1>12 DEF View
  <1> QED BY <1>4, <1>11, <1>12, <1>13 DEF ObjectOK

\* Removing the last element.
LEMMA LastRemoved ==
    ASSUME NEW h, NEW o, ObjectOK(h, o), o.type = "Array", Len(o.values) > 0
    PROVE  LET c == remove_last(o)
           IN  ObjectOK(h, c) /\ c.type = "Array" /\ View(h, c) = Front(View(h, o))
  <1>1. ArrayOK(h, o)
    BY ObjectKinds
  <1>2. PICK s : s = o.values
    OBVIOUS
  <1>3. PICK t : t = Front(s)
    OBVIOUS
  <1>4. IsSequence(t) /\ Len(t) = Len(s) - 1 /\ DOMAIN t \subseteq DOMAIN s /\ \A i \in DOMAIN t : t[i] = s[i]
    BY <1>1, <1>2, <1>3, SeqFront DEF ArrayOK, AreValues
  <1>5. AreValues(h, t)
    BY <1>1, <1>2, <1>4 DEF ArrayOK, AreValues
  <1>6. PICK n : n = o.capacity
    OBVIOUS
  <1>7. Len(t) <= n /\ n \in Nat
    <2>1. Len(s) \in Nat
      BY <1>1, <1>2, SeqDomain DEF ArrayOK, AreValues
    <2> QED BY <1>1, <1>2, <1>4, <1>6, <2>1 DEF ArrayOK
  <1>8. remove_last(o) = [type |-> "Array", capacity |-> n, values |-> t]
    BY <1>1, <1>2, <1>3, <1>6 DEF ArrayOK, remove_last
  <1>9. PICK c : c = remove_last(o)
    OBVIOUS
  <1>10. ArrayOK(h, c) /\ c.type = "Array" /\ c.values = t
    BY <1>5, <1>7, <1>8, <1>9 DEF ArrayOK
  <1>11. View(h, c) = t /\ View(h, o) = s
    BY <1>2, <1>10 DEF View
  <1> QED BY <1>3, <1>9, <1>10, <1>11 DEF ObjectOK

\* Removing all elements.
LEMMA Cleared ==
    ASSUME NEW h, NEW o, ObjectOK(h, o), o.type = "Array"
    PROVE  LET c == clear(o)
           IN  ObjectOK(h, c) /\ c.type = "Array" /\ View(h, c) = <<>>
  <1>1. ArrayOK(h, o)
    BY ObjectKinds
  <1>2. PICK n : n = o.capacity
    OBVIOUS
  <1>3. n \in Nat /\ clear(o) = [type |-> "Array", capacity |-> n, values |-> <<>>]
    BY <1>1, <1>2 DEF ArrayOK, clear
  <1>4. PICK c : c = clear(o)
    OBVIOUS
  <1>5. AreValues(h, <<>>) /\ Len(<<>>) = 0
    BY SeqEmpty DEF AreValues
  <1>6. ArrayOK(h, c) /\ c.type = "Array" /\ c.values = <<>>
    BY <1>3, <1>4, <1>5 DEF ArrayOK
  <1>7. View(h, c) = <<>>
    BY <1>6 DEF View
  <1> QED BY <1>4, <1>6, <1>7 DEF ObjectOK

\* Appending to an array (tiro_array_push).
LEMMA ArrayPush ==
    ASSUME HostInv, NEW a \in Args, NEW w \in Args, tiro_array_push(a, w)
    PROVE  CallStep
  <1>1. PICK code : code = bad_type({a, w}, a, "Array")
    OBVIOUS
  <1>2. code \in Codes
    BY <1>1, CodesAre
  <1>3. PICK c : c = try_append(Obj(a), Get(w))
    OBVIOUS
  <1>4. PICK p : p = Append(spec[Id(a)], Get(w))
    OBVIOUS
  <1>5. \/ entry_point("arrays", code, Updates(a, c, p))
        \/ code = "OK" /\ entry_point("arrays", "ALLOC", FALSE)
    BY <1>1, <1>3, <1>4 DEF tiro_array_push
  <1>6. ASSUME code = "OK"
        PROVE  /\ Id(a) \in Ids /\ heap[Id(a)].type \in {"Tuple", "Array", "Buffer", "Record"}
               /\ c.type = heap[Id(a)].type /\ ObjectOK(heap, c) /\ View(heap, c) = p
    <2>1. w # NULL /\ IsA(a, "Array")
      BY <1>1, <1>6, CodesAre
    <2>2. /\ Id(a) \in Ids /\ Obj(a) = heap[Id(a)] /\ Obj(a).type = "Array" /\ ObjectOK(heap, Obj(a))
          /\ View(heap, Obj(a)) = spec[Id(a)]
      BY <2>1, ArgObject DEF ObjectTypes
    <2>3. IsValue(heap, Get(w))
      BY <2>1, ArgValue
    <2>4. PICK o : o = Obj(a)
      OBVIOUS
    <2>5. PICK v : v = Get(w)
      OBVIOUS
    <2>6. ObjectOK(heap, try_append(o, v)) /\ try_append(o, v).type = "Array"
          /\ View(heap, try_append(o, v)) = Append(View(heap, o), v)
      BY <2>2, <2>3, <2>4, <2>5, Appended
    <2>7. ObjectOK(heap, c) /\ c.type = "Array" /\ View(heap, c) = p
      BY <1>3, <1>4, <2>2, <2>4, <2>5, <2>6
    <2> QED BY <2>2, <2>7
  <1>7. CASE entry_point("arrays", code, Updates(a, c, p))
    BY <1>2, <1>6, <1>7, UpdateCall
  <1>8. CASE entry_point("arrays", "ALLOC", FALSE)
    <2>1. "ALLOC" \in Codes \ {"OK"}
      BY DEF Codes
    <2> QED BY <1>8, <2>1, FailedCall
  <1> QED BY <1>5, <1>7, <1>8

\* Removing the last element of an array (tiro_array_pop).
LEMMA ArrayPop ==
    ASSUME HostInv, NEW a \in Args, tiro_array_pop(a)
    PROVE  CallStep
  <1>1. PICK code : code = out_of_bounds({a}, a, "Array", 0)
    OBVIOUS
  <1>2. code \in Codes
    BY <1>1, CodesAre
  <1>3. PICK c : c = remove_last(Obj(a))
    OBVIOUS
  <1>4. PICK p : p = Front(spec[Id(a)])
    OBVIOUS
  <1>5. entry_point("arrays", code, Updates(a, c, p))
    BY <1>1, <1>3, <1>4 DEF tiro_array_pop
  <1>6. ASSUME code = "OK"
        PROVE  /\ Id(a) \in Ids /\ heap[Id(a)].type \in {"Tuple", "Array", "Buffer", "Record"}
               /\ c.type = heap[Id(a)].type /\ ObjectOK(heap, c) /\ View(heap, c) = p
    <2>1. IsA(a, "Array") /\ ~(0 >= Len(Obj(a).values))
      BY <1>1, <1>6, CodesAre
    <2>2. /\ Id(a) \in Ids /\ Obj(a) = heap[Id(a)] /\ Obj(a).type = "Array" /\ ObjectOK(heap, Obj(a))
          /\ View(heap, Obj(a)) = spec[Id(a)]
      BY <2>1, ArgObject DEF ObjectTypes
    <2>3. ArrayOK(heap, Obj(a))
      BY <2>2, ObjectKinds
    <2>4. Len(Obj(a).values) \in Nat
      BY <2>3, SeqDomain DEF ArrayOK, AreValues
    <2>5. PICK o : o = Obj(a)
      OBVIOUS
    <2>6. ObjectOK(heap, remove_last(o)) /\ remove_last(o).type = "Array"
          /\ View(heap, remove_last(o)) = Front(View(heap, o))
      <3>1. Len(o.values) > 0
        BY <2>1, <2>4, <2>5
      <3> QED BY <2>2, <2>5, <3>1, LastRemoved
    <2>7. ObjectOK(heap, c) /\ c.type = "Array" /\ View(heap, c) = p
      BY <1>3, <1>4, <2>2, <2>5, <2>6
    <2> QED BY <2>2, <2>7
  <1> QED BY <1>2, <1>5, <1>6, UpdateCall

\* Removing all elements of an array (tiro_array_clear).
LEMMA ArrayClear ==
    ASSUME HostInv, NEW a \in Args, tiro_array_clear(a)
    PROVE  CallStep
  <1>1. PICK code : code = bad_type({a}, a, "Array")
    OBVIOUS
  <1>2. code \in Codes
    BY <1>1, CodesAre
  <1>3. PICK c : c = clear(Obj(a))
    OBVIOUS
  <1>5. entry_point("arrays", code, Updates(a, c, <<>>))
    BY <1>1, <1>3 DEF tiro_array_clear
  <1>6. ASSUME code = "OK"
        PROVE  /\ Id(a) \in Ids /\ heap[Id(a)].type \in {"Tuple", "Array", "Buffer", "Record"}
               /\ c.type = heap[Id(a)].type /\ ObjectOK(heap, c) /\ View(heap, c) = <<>>
    <2>1. IsA(a, "Array")
      BY <1>1, <1>6, CodesAre
    <2>2. Id(a) \in Ids /\ Obj(a) = heap[Id(a)] /\ Obj(a).type = "Array" /\ ObjectOK(heap, Obj(a))
      BY <2>1, ArgObject DEF ObjectTypes
    <2>3. PICK o : o = Obj(a)
      OBVIOUS
    <2>4. ObjectOK(heap, clear(o)) /\ clear(o).type = "Array" /\ View(heap, clear(o)) = <<>>
      BY <2>2, <2>3, Cleared
    <2> QED BY <1>3, <2>2, <2>3, <2>4
  <1> QED BY <1>2, <1>5, <1>6, UpdateCall

\* The host writes to the bytes of a buffer.
LEMMA ByteWritten ==
    ASSUME HostInv, NEW b \in Args, NEW i \in Indexes, NEW x, WriteByte(b, i, x)
    PROVE  CallStep
  <1>1. PICK o : o = Obj(b)
    OBVIOUS
  <1>2. PICK p : p = spec[Id(b)]
    OBVIOUS
  <1>3. PICK k : k = i + 1
    OBVIOUS
  <1>4. PICK c : c = [o EXCEPT !.bytes[k] = x]
    OBVIOUS
  <1>5. PICK q : q = [p EXCEPT ![k] = x]
    OBVIOUS
  <1>6. /\ IsA(b, "Buffer") /\ i < Len(Obj(b).bytes)
        /\ entry_point("buffers", "OK", Updates(b, c, q))
    BY <1>1, <1>2, <1>3, <1>4, <1>5 DEF WriteByte
  <1>7. /\ Id(b) \in Ids /\ o = heap[Id(b)] /\ o.type = "Buffer" /\ ObjectOK(heap, o) /\ View(heap, o) = p
    BY <1>1, <1>2, <1>6, ArgObject DEF ObjectTypes
  <1>8. k \in DOMAIN o.bytes
    <2>1. BufferOK(o)
      BY <1>7, ObjectKinds
    <2>2. Len(o.bytes) \in Nat /\ DOMAIN o.bytes = 1..Len(o.bytes)
      BY <2>1, SeqDomain DEF BufferOK
    <2>3. i \in Nat
      BY IndexesNat
    <2> QED BY <1>1, <1>3, <1>6, <2>2, <2>3
  <1>9. ObjectOK(heap, c) /\ c.type = o.type /\ View(heap, c) = [View(heap, o) EXCEPT ![k] = x]
    BY <1>4, <1>7, <1>8, BytesReplaced
  <1>10. "OK" \in Codes
    BY DEF Codes
  <1> QED BY <1>5, <1>6, <1>7, <1>9, <1>10, UpdateCall

-----------------------------------------------------------------------------
(* Calls that make tuples, arrays, buffers and results. *)

\* A new container is filled with null.
LEMMA NullValues ==
    ASSUME NEW h, NEW n \in Nat
    PROVE  AreValues(h, Nulls(n)) /\ Len(Nulls(n)) = n /\ \A i \in 1..n : Nulls(n)[i] = Null
  <1>1. PICK s : s = Nulls(n)
    OBVIOUS
  <1>2. s = [i \in 1..n |-> s[i]] /\ \A i \in 1..n : s[i] = Null
    BY <1>1 DEF Nulls
  <1>3. IsSequence(s) /\ Len(s) = n /\ DOMAIN s = 1..n
    BY <1>2, SeqIs
  <1> QED BY <1>1, <1>2, <1>3, PlainValues DEF AreValues

\* Making a tuple.
LEMMA MakeTuple ==
    ASSUME HostInv, NEW n \in Indexes, NEW r \in Results, tiro_make_tuple(n, r)
    PROVE  CallStep
  <1>1. PICK code : code = bad_arg({r})
    OBVIOUS
  <1>2. PICK s : s = Nulls(n)
    OBVIOUS
  <1>3. PICK o : o = Tuple_make(s)
    OBVIOUS
  <1>4. Makes("tuples", code, o, s, r)
    BY <1>1, <1>2, <1>3 DEF tiro_make_tuple
  <1>5. code \in Codes /\ (code = "OK" => r # NULL)
    BY <1>1, CodesAre
  <1>6. n \in Nat
    BY IndexesNat
  <1>7. o.type = "Tuple" /\ TupleOK(heap, o) /\ o.values = s
    BY <1>2, <1>3, <1>6, NullValues DEF Tuple_make, TupleOK
  <1>8. ObjectOK(heap, o) /\ View(heap, o) = s
    BY <1>7 DEF ObjectOK, View
  <1> QED BY <1>4, <1>5, <1>7, <1>8, MakeCall

\* Making an array.
LEMMA MakeArray ==
    ASSUME HostInv, NEW n \in 0..1, NEW r \in Results, tiro_make_array(n, r)
    PROVE  CallStep
  <1>1. PICK code : code = bad_arg({r})
    OBVIOUS
  <1>3. PICK o : o = Array_make(n)
    OBVIOUS
  <1>4. Makes("arrays", code, o, <<>>, r)
    BY <1>1, <1>3 DEF tiro_make_array
  <1>5. code \in Codes /\ (code = "OK" => r # NULL)
    BY <1>1, CodesAre
  <1>6. AreValues(heap, <<>>) /\ Len(<<>>) = 0
    BY SeqEmpty DEF AreValues
  <1>7. o.type = "Array" /\ ArrayOK(heap, o) /\ o.values = <<>>
    BY <1>3, <1>6 DEF Array_make, ArrayOK
  <1>8. ObjectOK(heap, o) /\ View(heap, o) = <<>>
    BY <1>7 DEF ObjectOK, View
  <1> QED BY <1>4, <1>5, <1>7, <1>8, MakeCall

\* Making a buffer.
LEMMA MakeBuffer ==
    ASSUME HostInv, NEW n \in Indexes, NEW r \in Results, tiro_make_buffer(n, r)
    PROVE  CallStep
  <1>1. PICK code : code = bad_arg({r})
    OBVIOUS
  <1>3. PICK o : o = Buffer_make(n)
    OBVIOUS
  <1>2. PICK s : s = o.bytes
    OBVIOUS
  <1>4. Makes("buffers", code, o, s, r)
    BY <1>1, <1>2, <1>3 DEF tiro_make_buffer
  <1>5. code \in Codes /\ (code = "OK" => r # NULL)
    BY <1>1, CodesAre
  <1>6. n \in Nat
    BY IndexesNat
  <1>7. s = [i \in 1..n |-> s[i]] /\ o.type = "Buffer" /\ o = [type |-> "Buffer", bytes |-> s]
    BY <1>2, <1>3 DEF Buffer_make
  <1>8. IsSequence(s)
    BY <1>6, <1>7, SeqIs
  <1>9. BufferOK(o) /\ o.bytes = s
    BY <1>7, <1>8 DEF BufferOK
  <1>10. ObjectOK(heap, o) /\ View(heap, o) = s
    BY <1>7, <1>9 DEF ObjectOK, View
  <1> QED BY <1>4, <1>5, <1>7, <1>10, MakeCall

\* A result holds its value.
LEMMA ResultMade ==
    ASSUME NEW h, NEW v, IsValue(h, v), NEW which
    PROVE  LET o == Result_make(which, v)
           IN  o.type = "Result" /\ ObjectOK(h, o) /\ View(h, o) = <<v>>
  <1>1. PICK o : o = Result_make(which, v)
    OBVIOUS
  <1>2. o.type = "Result" /\ o.which = which /\ o.value = v
    BY <1>1 DEF Result_make
  <1>3. ResultOK(h, o)
    BY <1>1, <1>2 DEF ResultOK
  <1> QED BY <1>1, <1>2, <1>3 DEF ObjectOK, View

\* Making a result, of a success or of an error.
LEMMA MakeResult ==
    ASSUME HostInv, NEW w \in Args, NEW r \in Results, tiro_make_success(w, r) \/ tiro_make_error(w, r)
    PROVE  CallStep
  <1>1. PICK code : code = bad_arg({w, r})
    OBVIOUS
  <1>2. PICK which : which = IF tiro_make_success(w, r) THEN "Success" ELSE "Error"
    OBVIOUS
  <1>3. PICK o : o = Result_make(which, Get(w))
    OBVIOUS
  <1>4. PICK p : p = <<Get(w)>>
    OBVIOUS
  <1>5. Makes("results", code, o, p, r)
    BY <1>1, <1>2, <1>3, <1>4 DEF tiro_make_success, tiro_make_error
  <1>6. code \in Codes /\ (code = "OK" => r # NULL /\ w # NULL)
    BY <1>1, CodesAre
  <1>7. ASSUME code = "OK"
        PROVE  o.type = "Result" /\ ObjectOK(heap, o) /\ View(heap, o) = p
    <2>1. PICK v : v = Get(w)
      OBVIOUS
    <2>2. IsValue(heap, v)
      BY <1>6, <1>7, <2>1, ArgValue
    <2> QED BY <1>3, <1>4, <2>1, <2>2, ResultMade
  <1> QED BY <1>5, <1>6, <1>7, MakeCall

\* Reading the value or the error of a result.
LEMMA ResultGet ==
    ASSUME HostInv, NEW o \in Args, NEW r \in Results, tiro_result_value(o, r) \/ tiro_result_error(o, r)
    PROVE  CallStep
  <1>1. PICK which : which = IF tiro_result_value(o, r) THEN "Success" ELSE "Error"
    OBVIOUS
  <1>2. PICK code : code = bad_state({o, r}, o, which)
    OBVIOUS
  <1>3. PICK v : v = Obj(o).value
    OBVIOUS
  <1>4. entry_point("results", code, Writes(r, v))
    BY <1>1, <1>2, <1>3 DEF tiro_result_value, tiro_result_error
  <1>5. code \in Codes /\ (code = "OK" => bad_type({o, r}, o, "Result") = "OK")
    BY <1>2, CodesAre DEF bad_state, Codes
  <1>6. ASSUME code = "OK"
        PROVE  r # NULL /\ IsValue(heap, v)
    <2>1. r # NULL /\ IsA(o, "Result")
      BY <1>5, <1>6, CodesAre
    <2>2. ObjectOK(heap, Obj(o)) /\ Obj(o).type = "Result"
      BY <2>1, ArgObject DEF ObjectTypes
    <2>3. ResultOK(heap, Obj(o))
      BY <2>2, ObjectKinds
    <2> QED BY <1>3, <2>1, <2>3 DEF ResultOK
  <1> QED BY <1>4, <1>5, <1>6, WriteCall

-----------------------------------------------------------------------------
(* Records and their schemas. *)

\* A schema of distinct keys has an index for each, below their number.
LEMMA SchemaMade ==
    ASSUME NEW s, IsSequence(s), Unique(s)
    PROVE  LET o == RecordSchema_make(s)
           IN  o.type = "RecordSchema" /\ SchemaOK(o)
  <1>1. PICK o : o = RecordSchema_make(s)
    OBVIOUS
  <1>2. PICK f : f = o.props
    OBVIOUS
  <1>3. PICK n \in Nat : n = Len(s) /\ DOMAIN s = 1..n /\ s = [i \in 1..n |-> s[i]]
    BY SeqDomain
  <1>4. DOMAIN f = ToSet(s) /\ \A k \in ToSet(s) : f[k] = (CHOOSE i \in DOMAIN s : s[i] = k) - 1
    BY <1>1, <1>2 DEF RecordSchema_make
  <1>5. \A k \in ToSet(s) : \E i \in DOMAIN s : s[i] = k
    BY DEF ToSet
  <1>6. \A k \in ToSet(s) : \E i \in 1..n : s[i] = k /\ f[k] = i - 1
    <2> SUFFICES ASSUME NEW k \in ToSet(s)
                 PROVE  \E i \in 1..n : s[i] = k /\ f[k] = i - 1
      OBVIOUS
    <2>1. PICK i : i = CHOOSE l \in DOMAIN s : s[l] = k
      OBVIOUS
    <2>2. i \in DOMAIN s /\ s[i] = k
      BY <1>5, <2>1, Zenon
    <2>3. f[k] = i - 1
      BY <1>4, <2>1
    <2> QED BY <1>3, <2>2, <2>3
  <1>7. IsFiniteSet(ToSet(s))
    <2>1. s \in Seq(ToSet(s))
      <3>1. s \in [1..n -> ToSet(s)]
        BY <1>3 DEF ToSet
      <3> QED BY <3>1
    <2>2. \A x \in ToSet(s) : \E i \in 1..Len(s) : s[i] = x
      BY <1>3, <1>5
    <2> QED BY <2>1, <2>2, Zenon DEF IsFiniteSet
  <1>8. schema_size(o) = n
    BY <1>2, <1>3, <1>4 DEF schema_size, Unique
  <1>9. \A k \in DOMAIN f : f[k] \in 0..n - 1
    BY <1>4, <1>6
  <1>10. \A k, l \in DOMAIN f : f[k] = f[l] => k = l
    <2> SUFFICES ASSUME NEW k \in DOMAIN f, NEW l \in DOMAIN f, f[k] = f[l]
                 PROVE  k = l
      OBVIOUS
    <2>1. PICK i \in 1..n : s[i] = k /\ f[k] = i - 1
      BY <1>4, <1>6
    <2>2. PICK j \in 1..n : s[j] = l /\ f[l] = j - 1
      BY <1>4, <1>6
    <2>3. i - 1 = j - 1
      <3>1. f[k] = f[l]
        OBVIOUS
      <3> QED BY <2>1, <2>2, <3>1, Zenon
    <2>4. i = j
      BY <2>3
    <2> QED BY <2>1, <2>2, <2>4
  <1>11. o.type = "RecordSchema" /\ o = [type |-> "RecordSchema", props |-> f]
    BY <1>1, <1>2 DEF RecordSchema_make
  <1>12. SchemaOK(o)
    BY <1>2, <1>4, <1>7, <1>8, <1>9, <1>10, <1>11 DEF SchemaOK
  <1> QED BY <1>1, <1>11, <1>12

\* Making a schema from an array of keys, if they are strings and distinct.
LEMMA MakeSchema ==
    ASSUME HostInv, NEW k \in Args, NEW r \in Results, tiro_make_record_schema(k, r)
    PROVE  CallStep
  <1>1. PICK vs : vs = Obj(k).values
    OBVIOUS
  <1>2. PICK s : s = [i \in DOMAIN vs |-> vs[i][2]]
    OBVIOUS
  <1>3. PICK bad : bad = bad_type({k, r}, k, "Array")
    OBVIOUS
  <1>4. PICK code : code = IF bad # "OK" THEN bad
                           ELSE IF \E i \in DOMAIN vs : vs[i][1] # "String" THEN "BAD_TYPE"
                           ELSE IF ~Unique(s) THEN "INTERNAL" ELSE "OK"
    OBVIOUS
  <1>5. PICK o : o = RecordSchema_make(s)
    OBVIOUS
  <1>6. Makes("records", code, o, <<>>, r)
    BY <1>1, <1>2, <1>3, <1>4, <1>5 DEF tiro_make_record_schema
  <1>7. bad \in Codes
    BY <1>3, CodesAre
  <1>8. code \in Codes /\ (code = "OK" => bad = "OK" /\ Unique(s))
    BY <1>4, <1>7 DEF Codes
  <1>9. ASSUME code = "OK"
        PROVE  r # NULL /\ o.type = "RecordSchema" /\ ObjectOK(heap, o) /\ View(heap, o) = <<>>
    <2>1. r # NULL /\ IsA(k, "Array")
      BY <1>3, <1>8, <1>9, CodesAre
    <2>2. ObjectOK(heap, Obj(k)) /\ Obj(k).type = "Array"
      BY <2>1, ArgObject DEF ObjectTypes
    <2>3. AreValues(heap, vs)
      BY <1>1, <2>2, ObjectKinds DEF ArrayOK
    <2>4. PICK n \in Nat : DOMAIN vs = 1..n
      BY <2>3, SeqDomain DEF AreValues
    <2>5. s = [i \in 1..n |-> s[i]]
      BY <1>2, <2>4
    <2>6. IsSequence(s)
      BY <2>5, SeqIs
    <2>7. o.type = "RecordSchema" /\ SchemaOK(o)
      BY <1>5, <1>8, <1>9, <2>6, SchemaMade
    <2> QED BY <2>1, <2>7 DEF ObjectOK, View
  <1> QED BY <1>6, <1>8, <1>9, MakeCall

\* The number of values that a schema asks for.
LEMMA SchemaSize ==
    ASSUME NEW o, SchemaOK(o)
    PROVE  schema_size(o) \in Nat
  BY FS_CardinalityType DEF SchemaOK, schema_size

\* Where a record holds the value of a key.
LEMMA RecordIndex ==
    ASSUME NEW h, NEW o, ObjectOK(h, o), o.type = "Record", ObjectOK(h, h[o.schema])
    PROVE  /\ RecordOK(h, o) /\ SchemaOK(h[o.schema])
           /\ \A k \in DOMAIN h[o.schema].props : h[o.schema].props[k] + 1 \in DOMAIN o.values
  <1>1. RecordOK(h, o)
    BY ObjectKinds
  <1>2. SchemaOK(h[o.schema])
    BY <1>1, ObjectKinds DEF RecordOK
  <1>3. DOMAIN o.values = 1..schema_size(h[o.schema])
    BY <1>1, SeqDomain DEF RecordOK, AreValues
  <1>4. schema_size(h[o.schema]) \in Nat
    BY <1>2, SchemaSize
  <1> QED BY <1>1, <1>2, <1>3, <1>4 DEF SchemaOK

\* A new record has a value for each index of its schema, all null.
LEMMA RecordMade ==
    ASSUME NEW h, NEW i \in Ids, h[i].type = "RecordSchema", ObjectOK(h, h[i])
    PROVE  LET o == Record_make(i, h[i])
           IN  o.type = "Record" /\ ObjectOK(h, o) /\ View(h, o) = [k \in DOMAIN h[i].props |-> Null]
  <1>1. PICK o : o = Record_make(i, h[i])
    OBVIOUS
  <1>2. PICK n : n = schema_size(h[i])
    OBVIOUS
  <1>3. SchemaOK(h[i])
    BY ObjectKinds
  <1>4. n \in Nat
    BY <1>2, <1>3, SchemaSize
  <1>5. o.type = "Record" /\ o.schema = i /\ o.values = Nulls(n) /\ o = [type |-> "Record", schema |-> i, values |-> Nulls(n)]
    BY <1>1, <1>2 DEF Record_make
  <1>6. AreValues(h, o.values) /\ Len(o.values) = n /\ \A j \in 1..n : o.values[j] = Null
    BY <1>4, <1>5, NullValues
  <1>7. RecordOK(h, o)
    BY <1>2, <1>5, <1>6 DEF RecordOK
  <1>8. \A k \in DOMAIN h[i].props : record_get(h, o, k) = Null
    <2>1. \A k \in DOMAIN h[i].props : h[i].props[k] + 1 \in 1..n
      BY <1>2, <1>3, <1>4 DEF SchemaOK
    <2> QED BY <1>5, <1>6, <2>1 DEF record_get, index_of
  <1>9. View(h, o) = [k \in DOMAIN h[i].props |-> Null]
    BY <1>5, <1>8 DEF View
  <1> QED BY <1>1, <1>5, <1>7, <1>9 DEF ObjectOK

\* Making a record from a schema.
LEMMA MakeRecord ==
    ASSUME HostInv, NEW s \in Args, NEW r \in Results, tiro_make_record(s, r)
    PROVE  CallStep
  <1>1. PICK i : i = Id(s)
    OBVIOUS
  <1>2. PICK code : code = bad_type({s, r}, s, "RecordSchema")
    OBVIOUS
  <1>3. PICK o : o = Record_make(i, heap[i])
    OBVIOUS
  <1>4. PICK p : p = [k \in DOMAIN heap[i].props |-> Null]
    OBVIOUS
  <1>5. Makes("records", code, o, p, r)
    BY <1>1, <1>2, <1>3, <1>4 DEF tiro_make_record, Obj
  <1>6. code \in Codes
    BY <1>2, CodesAre
  <1>7. ASSUME code = "OK"
        PROVE  r # NULL /\ o.type = "Record" /\ ObjectOK(heap, o) /\ View(heap, o) = p
    <2>1. r # NULL /\ IsA(s, "RecordSchema")
      BY <1>2, <1>7, CodesAre
    <2>2. i \in Ids /\ heap[i].type = "RecordSchema" /\ ObjectOK(heap, heap[i])
      BY <1>1, <2>1, ArgObject DEF ObjectTypes
    <2> QED BY <1>3, <1>4, <2>1, <2>2, RecordMade
  <1> QED BY <1>5, <1>6, <1>7, MakeCall

\* Listing the keys of a record.
LEMMA RecordKeys ==
    ASSUME HostInv, NEW a \in Args, NEW r \in Results, tiro_record_keys(a, r)
    PROVE  CallStep
  <1>1. PICK keys : keys = schema_keys(heap[Obj(a).schema])
    OBVIOUS
  <1>2. PICK s : s = [i \in DOMAIN keys |-> Str(keys[i])]
    OBVIOUS
  <1>3. PICK o : o = Array_of(s)
    OBVIOUS
  <1>4. PICK code : code = bad_type({a, r}, a, "Record")
    OBVIOUS
  <1>5. Makes("records", code, o, s, r)
    BY <1>1, <1>2, <1>3, <1>4 DEF tiro_record_keys
  <1>6. code \in Codes
    BY <1>4, CodesAre
  <1>7. ASSUME code = "OK"
        PROVE  r # NULL /\ o.type = "Array" /\ ObjectOK(heap, o) /\ View(heap, o) = s
    <2>1. r # NULL /\ IsA(a, "Record")
      BY <1>4, <1>7, CodesAre
    <2>2. Id(a) \in Ids /\ Obj(a) = heap[Id(a)] /\ Obj(a).type = "Record" /\ ObjectOK(heap, Obj(a))
      BY <2>1, ArgObject DEF ObjectTypes
    <2>3. ObjectOK(heap, heap[Obj(a).schema])
      <3>1. RecordOK(heap, Obj(a))
        BY <2>2, ObjectKinds
      <3> QED BY <3>1 DEF RecordOK, HostInv, HeapOK
    <2>4. SchemaOK(heap[Obj(a).schema])
      BY <2>2, <2>3, RecordIndex
    <2>5. PICK n \in Nat : n = schema_size(heap[Obj(a).schema])
      BY <2>4, SchemaSize
    <2>6. DOMAIN keys = 1..n
      BY <1>1, <2>5 DEF schema_keys
    <2>7. s = [i \in 1..n |-> s[i]] /\ \A i \in 1..n : s[i] = Str(keys[i])
      BY <1>2, <2>6
    <2>8. IsSequence(s) /\ Len(s) = n /\ DOMAIN s = 1..n
      BY <2>7, SeqIs
    <2>9. AreValues(heap, s)
      BY <2>7, <2>8, PlainValues DEF AreValues
    <2>10. o.type = "Array" /\ o.values = s /\ o.capacity = n /\ o = [type |-> "Array", capacity |-> n, values |-> s]
      BY <1>3, <2>8 DEF Array_of
    <2>11. ArrayOK(heap, o)
      BY <2>8, <2>9, <2>10 DEF ArrayOK
    <2> QED BY <2>1, <2>10, <2>11 DEF ObjectOK, View
  <1> QED BY <1>5, <1>6, <1>7, MakeCall

\* The check of a key returns an error code, and its success says that the schema has the key.
LEMMA KeyCodes ==
    ASSUME NEW hs, NEW o, NEW k
    PROVE  /\ bad_key(hs, o, k) \in Codes
           /\ bad_key(hs, o, k) = "OK" =>
                NULL \notin hs /\ IsA(o, "Record") /\ has_key(heap, Obj(o), Get(k)[2])
  <1>1. PICK code : code = bad_type(hs, o, "Record")
    OBVIOUS
  <1>2. code \in Codes /\ (code = "OK" => NULL \notin hs /\ IsA(o, "Record"))
    BY <1>1, CodesAre
  <1> QED BY <1>1, <1>2 DEF bad_key, Codes

\* A handle of a record whose schema has the key.
LEMMA RecordArg ==
    ASSUME HostInv, NEW a \in Args, IsA(a, "Record"), NEW k, has_key(heap, Obj(a), k)
    PROVE  /\ Id(a) \in Ids /\ Obj(a) = heap[Id(a)] /\ Obj(a).type = "Record" /\ ObjectOK(heap, Obj(a))
           /\ View(heap, Obj(a)) = spec[Id(a)]
           /\ RecordOK(heap, Obj(a)) /\ SchemaOK(heap[Obj(a).schema])
           /\ k \in DOMAIN heap[Obj(a).schema].props
           /\ heap[Obj(a).schema].props[k] + 1 \in DOMAIN Obj(a).values
  <1>1. /\ Id(a) \in Ids /\ Obj(a) = heap[Id(a)] /\ Obj(a).type = "Record" /\ ObjectOK(heap, Obj(a))
        /\ View(heap, Obj(a)) = spec[Id(a)]
    BY ArgObject DEF ObjectTypes
  <1>2. ObjectOK(heap, heap[Obj(a).schema])
    <2>1. RecordOK(heap, Obj(a))
      BY <1>1, ObjectKinds
    <2> QED BY <2>1 DEF RecordOK, HostInv, HeapOK
  <1>3. /\ RecordOK(heap, Obj(a)) /\ SchemaOK(heap[Obj(a).schema])
        /\ \A l \in DOMAIN heap[Obj(a).schema].props : heap[Obj(a).schema].props[l] + 1 \in DOMAIN Obj(a).values
    BY <1>1, <1>2, RecordIndex
  <1>4. k \in DOMAIN heap[Obj(a).schema].props
    BY DEF has_key
  <1> QED BY <1>1, <1>3, <1>4

\* Behind a key of the schema there is a value.
LEMMA RecordValue ==
    ASSUME HostInv, NEW a \in Args, IsA(a, "Record"), NEW k, has_key(heap, Obj(a), k)
    PROVE  IsValue(heap, record_get(heap, Obj(a), k))
  <1>1. RecordOK(heap, Obj(a)) /\ heap[Obj(a).schema].props[k] + 1 \in DOMAIN Obj(a).values
    BY RecordArg
  <1> QED BY <1>1 DEF record_get, index_of, RecordOK, AreValues

\* Reading the value of a key.
LEMMA RecordGet ==
    ASSUME HostInv, NEW a \in Args, NEW k \in Args, NEW r \in Results, tiro_record_get(a, k, r)
    PROVE  CallStep
  <1>1. PICK code : code = bad_key({a, k, r}, a, k)
    OBVIOUS
  <1>2. PICK v : v = record_get(heap, Obj(a), Get(k)[2])
    OBVIOUS
  <1>3. entry_point("records", code, Writes(r, v))
    BY <1>1, <1>2 DEF tiro_record_get
  <1>4. /\ code \in Codes
        /\ code = "OK" => r # NULL /\ IsA(a, "Record") /\ has_key(heap, Obj(a), Get(k)[2])
    BY <1>1, KeyCodes
  <1>5. PICK key : key = Get(k)[2]
    OBVIOUS
  <1>6. code = "OK" => IsValue(heap, v)
    BY <1>2, <1>4, <1>5, RecordValue
  <1> QED BY <1>3, <1>4, <1>6, WriteCall

\* A record with the value of a key replaced is one, and changes at that key only.
LEMMA RecordReplaced ==
    ASSUME NEW h, NEW o, RecordOK(h, o), SchemaOK(h[o.schema]), NEW k \in DOMAIN h[o.schema].props,
           h[o.schema].props[k] + 1 \in DOMAIN o.values, NEW v, IsValue(h, v)
    PROVE  LET c == record_set(h, o, k, v)
           IN  ObjectOK(h, c) /\ c.type = "Record" /\ View(h, c) = [View(h, o) EXCEPT ![k] = v]
  <1>1. PICK f : f = h[o.schema].props
    OBVIOUS
  <1>2. PICK m : m = f[k] + 1
    OBVIOUS
  <1>3. PICK t : t = [o.values EXCEPT ![m] = v]
    OBVIOUS
  <1>4. PICK c : c = record_set(h, o, k, v)
    OBVIOUS
  <1>5. m \in DOMAIN o.values
    BY <1>1, <1>2
  <1>6. AreValues(h, t) /\ Len(t) = Len(o.values) /\ DOMAIN t = DOMAIN o.values
    BY <1>3, <1>5, ElementsSet DEF RecordOK
  <1>7. c.type = "Record" /\ c.schema = o.schema /\ c.values = t
        /\ c = [type |-> "Record", schema |-> o.schema, values |-> t]
    <2>1. o = [type |-> "Record", schema |-> o.schema, values |-> o.values]
      BY DEF RecordOK
    <2>2. c = [o EXCEPT !.values[m] = v]
      BY <1>1, <1>2, <1>4 DEF record_set, index_of
    <2> QED BY <1>3, <2>1, <2>2
  <1>8. RecordOK(h, c)
    BY <1>6, <1>7 DEF RecordOK
  <1>9. View(h, c) = [l \in DOMAIN f |-> t[f[l] + 1]]
    BY <1>1, <1>7 DEF View, record_get, index_of
  <1>10. View(h, o) = [l \in DOMAIN f |-> o.values[f[l] + 1]]
    BY <1>1 DEF View, record_get, index_of, RecordOK
  <1>11. k \in DOMAIN f
    BY <1>1
  <1>12. ASSUME NEW l \in DOMAIN f
         PROVE  t[f[l] + 1] = IF l = k THEN v ELSE o.values[f[l] + 1]
    <2>1. CASE l = k
      BY <1>2, <1>3, <1>5, <2>1
    <2>2. CASE l # k
      <3>1. f[l] # f[k]
        BY <1>1, <1>11, <2>2 DEF SchemaOK
      <3>2. f[l] \in Int /\ f[k] \in Int
        <4>1. schema_size(h[o.schema]) \in Nat
          BY SchemaSize
        <4> QED BY <1>1, <1>11, <4>1 DEF SchemaOK
      <3>3. f[l] + 1 # m
        BY <1>2, <3>1, <3>2
      <3>4. \A j : j # m => t[j] = o.values[j] \/ j \notin DOMAIN o.values
        BY <1>3
      <3>5. f[l] + 1 \in DOMAIN o.values
        <4>1. schema_size(h[o.schema]) \in Nat /\ f[l] \in 0..schema_size(h[o.schema]) - 1
          BY <1>1, SchemaSize DEF SchemaOK
        <4>2. DOMAIN o.values = 1..schema_size(h[o.schema])
          BY SeqDomain DEF RecordOK, AreValues
        <4> QED BY <4>1, <4>2
      <3> QED BY <2>2, <3>3, <3>4, <3>5
    <2> QED BY <2>1, <2>2
  <1>13. View(h, c) = [View(h, o) EXCEPT ![k] = v]
    <2>1. [View(h, o) EXCEPT ![k] = v] = [l \in DOMAIN f |-> IF l = k THEN v ELSE o.values[f[l] + 1]]
      BY <1>10
    <2> QED BY <1>9, <1>12, <2>1
  <1> QED BY <1>4, <1>7, <1>8, <1>13 DEF ObjectOK

\* A call that stores the value of a key.
LEMMA RecordCall ==
    ASSUME HostInv, NEW family, NEW code \in Codes, NEW a \in Args, NEW k, NEW w \in Args,
           entry_point(family, code, Updates(a, record_set(heap, Obj(a), k, Get(w)),
                                             [spec[Id(a)] EXCEPT ![k] = Get(w)])),
           code = "OK" => w # NULL /\ IsA(a, "Record") /\ has_key(heap, Obj(a), k)
    PROVE  CallStep
  <1>1. PICK v : v = Get(w)
    OBVIOUS
  <1>2. PICK o : o = Obj(a)
    OBVIOUS
  <1>3. PICK c : c = record_set(heap, o, k, v)
    OBVIOUS
  <1>4. PICK q : q = [spec[Id(a)] EXCEPT ![k] = v]
    OBVIOUS
  <1>5. entry_point(family, code, Updates(a, c, q))
    BY <1>1, <1>2, <1>3, <1>4
  <1>6. ASSUME code = "OK"
        PROVE  /\ Id(a) \in Ids /\ heap[Id(a)].type \in {"Tuple", "Array", "Buffer", "Record"}
               /\ c.type = heap[Id(a)].type /\ ObjectOK(heap, c) /\ View(heap, c) = q
    <2>1. /\ Id(a) \in Ids /\ o = heap[Id(a)] /\ o.type = "Record"
          /\ View(heap, o) = spec[Id(a)]
          /\ RecordOK(heap, o) /\ SchemaOK(heap[o.schema])
          /\ k \in DOMAIN heap[o.schema].props /\ heap[o.schema].props[k] + 1 \in DOMAIN o.values
      BY <1>2, <1>6, RecordArg
    <2>2. IsValue(heap, v)
      BY <1>1, <1>6, ArgValue
    <2>3. ObjectOK(heap, c) /\ c.type = "Record" /\ View(heap, c) = [View(heap, o) EXCEPT ![k] = v]
      BY <1>3, <2>1, <2>2, RecordReplaced
    <2> QED BY <1>4, <2>1, <2>3
  <1> QED BY <1>5, <1>6, UpdateCall

\* Storing the value of a key.
LEMMA RecordSet ==
    ASSUME HostInv, NEW a \in Args, NEW k \in Args, NEW w \in Args, tiro_record_set(a, k, w)
    PROVE  CallStep
  <1>1. PICK code : code = bad_key({a, k, w}, a, k)
    OBVIOUS
  <1>2. PICK key : key = Get(k)[2]
    OBVIOUS
  <1>3. entry_point("records", code, Updates(a, record_set(heap, Obj(a), key, Get(w)),
                                             [spec[Id(a)] EXCEPT ![key] = Get(w)]))
    BY <1>1, <1>2 DEF tiro_record_set
  <1>4. /\ code \in Codes
        /\ code = "OK" => w # NULL /\ IsA(a, "Record") /\ has_key(heap, Obj(a), key)
    BY <1>1, <1>2, KeyCodes
  <1> QED BY <1>3, <1>4, RecordCall

-----------------------------------------------------------------------------
(* Scripts. *)

\* The objects that have elements, and an index within them.
LEMMA ScriptIndex ==
    ASSUME HostInv, NEW h \in Args, Indexable(h), NEW x \in ScriptIndexes, check_index(Len(Elements(Obj(h))), x)
    PROVE  /\ Id(h) \in Ids /\ Obj(h) = heap[Id(h)] /\ ObjectOK(heap, Obj(h)) /\ View(heap, Obj(h)) = spec[Id(h)]
           /\ IsA(h, Obj(h).type)
           /\ \/ Obj(h).type = "Buffer" /\ x[2] + 1 \in DOMAIN Obj(h).bytes
              \/ /\ Obj(h).type \in {"Tuple", "Array"} /\ x[2] + 1 \in DOMAIN Obj(h).values
                 /\ IsValue(heap, Obj(h).values[x[2] + 1])
  <1>1. PICK type \in {"Array", "Tuple", "Buffer"} : IsA(h, type)
    BY DEF Indexable
  <1>2. type \in ObjectTypes
    BY DEF ObjectTypes
  <1>3. PICK o : o = Obj(h)
    OBVIOUS
  <1>4. Id(h) \in Ids /\ o = heap[Id(h)] /\ o.type = type /\ ObjectOK(heap, o) /\ View(heap, o) = spec[Id(h)]
    BY <1>1, <1>2, <1>3, ArgObject
  <1>5. x[2] \in Int /\ x[2] >= 0 /\ x[2] < Len(Elements(o))
    <2>1. program.length \in Nat
      BY IndexesNat
    <2>2. x[1] = "Integer" /\ x[2] >= 0 /\ x[2] < Len(Elements(o))
      BY <1>3 DEF check_index
    <2>3. \A n \in Names : Str(n)[1] = "String"
      BY DEF Str
    <2>4. \E n \in -1..program.length : x = Num(n)
      BY <2>2, <2>3 DEF ScriptIndexes
    <2>5. x[2] \in -1..program.length
      BY <2>4 DEF Num
    <2> QED BY <2>1, <2>2, <2>5
  <1>6. PICK k : k = x[2] + 1
    OBVIOUS
  <1>7. CASE type = "Buffer"
    <2>1. BufferOK(o) /\ Elements(o) = o.bytes
      BY <1>4, <1>7, ObjectKinds DEF Elements
    <2>2. Len(o.bytes) \in Nat /\ DOMAIN o.bytes = 1..Len(o.bytes)
      BY <2>1, SeqDomain DEF BufferOK
    <2>3. k \in DOMAIN o.bytes
      BY <1>5, <1>6, <2>1, <2>2
    <2> QED BY <1>1, <1>3, <1>4, <1>6, <1>7, <2>3
  <1>8. CASE type # "Buffer"
    <2>1. AreValues(heap, o.values) /\ Elements(o) = o.values
      BY <1>4, <1>8, ObjectKinds DEF Elements, TupleOK, ArrayOK
    <2>2. Len(o.values) \in Nat /\ DOMAIN o.values = 1..Len(o.values)
      BY <2>1, SeqDomain DEF AreValues
    <2>3. k \in DOMAIN o.values
      BY <1>5, <1>6, <2>1, <2>2
    <2>4. IsValue(heap, o.values[k])
      BY <2>1, <2>3 DEF AreValues
    <2> QED BY <1>1, <1>3, <1>4, <1>6, <1>8, <2>3, <2>4
  <1> QED BY <1>7, <1>8

\* A script reads an element of whatever it has.
LEMMA LoadIndex ==
    ASSUME HostInv, NEW h \in Args, NEW x \in ScriptIndexes, NEW r \in Results, load_index(h, x, r)
    PROVE  CallStep
  <1>1. PICK o : o = Obj(h)
    OBVIOUS
  <1>2. PICK e : e = Elements(o)[x[2] + 1]
    OBVIOUS
  <1>3. PICK v : v = IF o.type = "Buffer" THEN Num(e) ELSE e
    OBVIOUS
  <1>4. /\ Indexable(h) /\ check_index(Len(Elements(Obj(h))), x) /\ r # NULL
        /\ entry_point("scripts", "OK", Writes(r, v))
    BY <1>1, <1>2, <1>3 DEF load_index
  <1>5. \/ o.type = "Buffer"
        \/ o.type # "Buffer" /\ IsValue(heap, o.values[x[2] + 1])
    BY <1>1, <1>4, ScriptIndex
  <1>6. IsValue(heap, v)
    <2>1. IsValue(heap, Num(e))
      BY PlainValues
    <2> QED BY <1>2, <1>3, <1>5, <2>1 DEF Elements
  <1>7. "OK" \in Codes
    BY DEF Codes
  <1> QED BY <1>4, <1>6, <1>7, WriteCall

\* A script stores an element of whatever it has.
LEMMA StoreIndex ==
    ASSUME HostInv, NEW h \in Args, NEW x \in ScriptIndexes, NEW w \in Args, store_index(h, x, w)
    PROVE  CallStep
  <1>1. PICK o : o = Obj(h)
    OBVIOUS
  <1>2. PICK k : k = x[2] + 1
    OBVIOUS
  <1>3. PICK b : b = Get(w)[2]
    OBVIOUS
  <1>4. PICK p : p = spec[Id(h)]
    OBVIOUS
  <1>5. Indexable(h) /\ check_index(Len(Elements(Obj(h))), x) /\ w # NULL
    BY DEF store_index
  <1>6. /\ Id(h) \in Ids /\ o = heap[Id(h)] /\ ObjectOK(heap, o) /\ View(heap, o) = p
        /\ IsA(h, o.type)
        /\ \/ o.type = "Buffer" /\ k \in DOMAIN o.bytes
           \/ o.type \in {"Tuple", "Array"} /\ k \in DOMAIN o.values
    BY <1>1, <1>2, <1>4, <1>5, ScriptIndex
  <1>7. "OK" \in Codes
    BY DEF Codes
  <1>8. CASE o.type = "Buffer"
    <2>1. PICK c : c = [o EXCEPT !.bytes[k] = b]
      OBVIOUS
    <2>2. PICK q : q = [p EXCEPT ![k] = b]
      OBVIOUS
    <2>3. entry_point("scripts", "OK", Updates(h, c, q))
      BY <1>1, <1>2, <1>3, <1>4, <1>8, <2>1, <2>2 DEF store_index
    <2>4. ObjectOK(heap, c) /\ c.type = o.type /\ View(heap, c) = [View(heap, o) EXCEPT ![k] = b]
      BY <1>6, <1>8, <2>1, BytesReplaced
    <2> QED BY <1>6, <1>7, <1>8, <2>2, <2>3, <2>4, UpdateCall
  <1>9. CASE o.type \in {"Tuple", "Array"}
    <2>1. entry_point("scripts", "OK", Updates(h, [Obj(h) EXCEPT !.values[k] = Get(w)],
                                               [spec[Id(h)] EXCEPT ![k] = Get(w)]))
      BY <1>1, <1>2, <1>9 DEF store_index
    <2>2. w # NULL /\ IsA(h, o.type) /\ k \in DOMAIN Obj(h).values
      BY <1>1, <1>5, <1>6, <1>9
    <2> QED BY <1>7, <1>9, <2>1, <2>2, ElementCall
  <1> QED BY <1>6, <1>8, <1>9

\* A member that a module exports.
LEMMA ExportedValue ==
    ASSUME NEW h, NEW o, ModuleOK(h, o), NEW n \in DOMAIN o.exported
    PROVE  IsValue(h, find_exported(o, n))
  <1>1. Len(o.members) \in Nat /\ DOMAIN o.members = 1..Len(o.members)
    BY SeqDomain DEF ModuleOK, AreValues
  <1>2. o.exported[n] \in 0..Len(o.members) - 1
    BY DEF ModuleOK
  <1>3. o.exported[n] + 1 \in DOMAIN o.members
    BY <1>1, <1>2
  <1> QED BY <1>3 DEF find_exported, ModuleOK, AreValues

\* A script reads a member of whatever it has.
LEMMA LoadMember ==
    ASSUME HostInv, NEW h \in Args, NEW m, NEW r \in Results, load_member(h, m, r)
    PROVE  CallStep
  <1>1. h # NULL /\ r # NULL
    BY DEF load_member
  <1>2. "OK" \in Codes
    BY DEF Codes
  <1>3. CASE /\ IsA(h, "Record") /\ has_key(heap, Obj(h), m)
             /\ entry_point("scripts", "OK", Writes(r, record_get(heap, Obj(h), m)))
    <2>1. PICK v : v = record_get(heap, Obj(h), m)
      OBVIOUS
    <2>2. IsValue(heap, v)
      BY <1>3, <2>1, RecordValue
    <2>3. entry_point("scripts", "OK", Writes(r, v))
      BY <1>3, <2>1
    <2> QED BY <1>1, <1>2, <2>2, <2>3, WriteCall
  <1>4. CASE /\ IsA(h, "Module") /\ m \in DOMAIN Obj(h).exported
             /\ entry_point("scripts", "OK", Writes(r, find_exported(Obj(h), m)))
    <2>1. PICK v : v = find_exported(Obj(h), m)
      OBVIOUS
    <2>2. ObjectOK(heap, Obj(h)) /\ Obj(h).type = "Module"
      BY <1>4, ArgObject DEF ObjectTypes
    <2>3. ModuleOK(heap, Obj(h))
      BY <2>2, ObjectKinds
    <2>4. IsValue(heap, v)
      BY <1>4, <2>1, <2>3, ExportedValue
    <2>5. entry_point("scripts", "OK", Writes(r, v))
      BY <1>4, <2>1
    <2> QED BY <1>1, <1>2, <2>4, <2>5, WriteCall
  <1>5. CASE entry_point("scripts", "OK", Writes(r, Function))
    <2>1. IsValue(heap, Function)
      BY PlainValues
    <2> QED BY <1>1, <1>2, <1>5, <2>1, WriteCall
  <1>6. CASE FreeIds # {} /\ entry_point("scripts", "OK", create_object(BoundMethod_make(m, Get(h)), <<Get(h)>>, r))
    <2>1. PICK v : v = Get(h)
      OBVIOUS
    <2>2. PICK o : o = BoundMethod_make(m, v)
      OBVIOUS
    <2>3. PICK p : p = <<v>>
      OBVIOUS
    <2>4. FreeIds # {} /\ entry_point("scripts", "OK", create_object(o, p, r))
      BY <1>6, <2>1, <2>2, <2>3
    <2>5. Makes("scripts", "OK", o, p, r)
      BY <2>4 DEF Makes
    <2>6. IsValue(heap, v)
      BY <1>1, <2>1, ArgValue
    <2>7. o.type = "BoundMethod" /\ o.method = m /\ o.object = v
      BY <2>2 DEF BoundMethod_make
    <2>8. MethodOK(heap, o)
      BY <2>2, <2>6, <2>7 DEF MethodOK
    <2>9. ObjectOK(heap, o) /\ View(heap, o) = p
      BY <2>3, <2>7, <2>8 DEF ObjectOK, View
    <2> QED BY <1>1, <1>2, <2>5, <2>7, <2>9, MakeCall
  <1> QED BY <1>3, <1>4, <1>5, <1>6 DEF load_member

\* A script stores a member of whatever it has.
LEMMA StoreMember ==
    ASSUME HostInv, NEW h \in Args, NEW m, NEW w \in Args, store_member(h, m, w)
    PROVE  CallStep
  <1>1. /\ w # NULL /\ IsA(h, "Record") /\ has_key(heap, Obj(h), m)
        /\ entry_point("scripts", "OK", Updates(h, record_set(heap, Obj(h), m, Get(w)),
                                                [spec[Id(h)] EXCEPT ![m] = Get(w)]))
    BY DEF store_member
  <1>2. "OK" \in Codes
    BY DEF Codes
  <1> QED BY <1>1, <1>2, RecordCall

\* What scripts do.
LEMMA ScriptCalls ==
    ASSUME HostInv, CallScript
    PROVE  CallStep
  BY LoadIndex, StoreIndex, LoadMember, StoreMember DEF CallScript

\* All calls that make, read and change containers.
LEMMA ContainerCalls ==
    ASSUME HostInv, CallContainer
    PROVE  CallStep
  BY MakeTuple, TupleGet, TupleSet, MakeArray, ArrayGet, ArraySet, ArrayPush, ArrayPop, ArrayClear, MakeBuffer,
     ByteWritten, MakeSchema, MakeRecord, RecordKeys, RecordGet, RecordSet, MakeResult, ResultGet
  DEF CallContainer

-----------------------------------------------------------------------------
(* Handles and plain values. *)

\* Calls that do no more than store a value that refers to nothing new.
LEMMA PlainCall ==
    ASSUME HostInv, NEW r \in Results,
           \/ \E w \in Args : tiro_value_copy(w, r)
           \/ tiro_make_null(r)
           \/ \E n \in Numbers : tiro_make_integer(n, r)
           \/ \E n \in Names : tiro_make_string(n, r)
           \/ \E w \in Args : tiro_value_type(w, r)
           \/ \E k \in {"array", "function", "internal"} : tiro_kind_type(k, r)
           \/ \E t \in Args : tiro_type_name(t, r)
           \/ MakeFunction(r)
    PROVE  CallStep
  <1>1. "OK" \in Codes /\ "BAD_ARG" \in Codes
    BY DEF Codes
  <1>2. ASSUME NEW w \in Args, tiro_value_copy(w, r)
        PROVE  CallStep
    <2>1. PICK v : v = Get(w)
      OBVIOUS
    <2>2. PICK code : code = bad_arg({w, r})
      OBVIOUS
    <2>3. entry_point("handles", code, Writes(r, v))
      BY <1>2, <2>1, <2>2 DEF tiro_value_copy
    <2>4. code \in Codes /\ (code = "OK" => r # NULL /\ w # NULL)
      BY <2>2, CodesAre
    <2>5. code = "OK" => IsValue(heap, v)
      BY <2>1, <2>4, ArgValue
    <2> QED BY <2>3, <2>4, <2>5, WriteCall
  <1>3. ASSUME tiro_make_null(r)
        PROVE  CallStep
    <2>1. r # NULL /\ entry_point("handles", "OK", Writes(r, Null)) /\ IsValue(heap, Null)
      BY <1>3, PlainValues DEF tiro_make_null
    <2> QED BY <1>1, <2>1, WriteCall
  <1>4. ASSUME NEW family, NEW code \in Codes, NEW v, IsValue(heap, v), code = "OK" => r # NULL,
               entry_point(family, code, Writes(r, v))
        PROVE  CallStep
    BY <1>4, WriteCall
  <1>5. PICK plain : plain = bad_arg({r})
    OBVIOUS
  <1>6. plain \in Codes /\ (plain = "OK" => r # NULL)
    BY <1>5, CodesAre
  <1>7. ASSUME NEW n, tiro_make_integer(n, r)
        PROVE  CallStep
    <2>1. entry_point("numbers", plain, Writes(r, Num(n))) /\ IsValue(heap, Num(n))
      BY <1>5, <1>7, PlainValues DEF tiro_make_integer
    <2> QED BY <1>4, <1>6, <2>1
  <1>8. ASSUME NEW n, tiro_make_string(n, r)
        PROVE  CallStep
    <2>1. entry_point("strings", plain, Writes(r, Str(n))) /\ IsValue(heap, Str(n))
      BY <1>5, <1>8, PlainValues DEF tiro_make_string
    <2> QED BY <1>4, <1>6, <2>1
  <1>9. ASSUME NEW w \in Args, tiro_value_type(w, r)
        PROVE  CallStep
    <2>1. PICK v : v = TypeValue(type_of(heap, Get(w)))
      OBVIOUS
    <2>2. PICK code : code = bad_arg({w, r})
      OBVIOUS
    <2>3. entry_point("types", code, Writes(r, v))
      BY <1>9, <2>1, <2>2 DEF tiro_value_type
    <2>4. code \in Codes /\ (code = "OK" => r # NULL)
      BY <2>2, CodesAre
    <2>5. IsValue(heap, v)
      BY <2>1, PlainValues
    <2> QED BY <1>4, <2>3, <2>4, <2>5
  <1>10. ASSUME NEW k, tiro_kind_type(k, r)
         PROVE  CallStep
    <2>1. PICK v : v = TypeValue(get_type[k])
      OBVIOUS
    <2>2. PICK code : code = IF r = NULL \/ k = "internal" THEN "BAD_ARG" ELSE "OK"
      OBVIOUS
    <2>3. entry_point("types", code, Writes(r, v))
      BY <1>10, <2>1, <2>2 DEF tiro_kind_type
    <2>4. code \in Codes /\ (code = "OK" => r # NULL)
      BY <1>1, <2>2
    <2>5. IsValue(heap, v)
      BY <2>1, PlainValues
    <2> QED BY <1>4, <2>3, <2>4, <2>5
  <1>11. ASSUME NEW t \in Args, tiro_type_name(t, r)
         PROVE  CallStep
    <2>1. PICK v : v = Str(Get(t)[2])
      OBVIOUS
    <2>2. PICK code : code = bad_type({t, r}, t, "Type")
      OBVIOUS
    <2>3. entry_point("types", code, Writes(r, v))
      BY <1>11, <2>1, <2>2 DEF tiro_type_name
    <2>4. code \in Codes /\ (code = "OK" => r # NULL)
      BY <2>2, CodesAre
    <2>5. IsValue(heap, v)
      BY <2>1, PlainValues
    <2> QED BY <1>4, <2>3, <2>4, <2>5
  <1>12. ASSUME MakeFunction(r)
         PROVE  CallStep
    <2>1. r # NULL /\ entry_point("functions", "OK", Writes(r, Function)) /\ IsValue(heap, Function)
      BY <1>12, PlainValues DEF MakeFunction
    <2> QED BY <1>1, <1>4, <2>1
  <1> QED BY <1>2, <1>3, <1>7, <1>8, <1>9, <1>10, <1>11, <1>12

-----------------------------------------------------------------------------
(* Modules. *)

\* The index of the last of equal names.
LEMMA LastIndex ==
    ASSUME NEW s, NEW m \in Nat, DOMAIN s = 1..m, NEW n \in ToSet(s)
    PROVE  \E i \in 1..m : s[i] = n /\ \A j \in i + 1..m : s[j] # n
  <1> DEFINE T == {m - i : i \in {j \in 1..m : s[j] = n}}
  <1>1. PICK i \in 1..m : s[i] = n
    BY DEF ToSet
  <1>2. T \subseteq Nat /\ T # {}
    BY <1>1
  <1>3. \E x \in T : \A y \in T : x <= y
    <2> HIDE DEF T
    <2> QED BY <1>2, LeastNumber
  <1>4. PICK x \in T : \A y \in T : x <= y
    BY <1>3
  <1>5. PICK k \in 1..m : s[k] = n /\ x = m - k
    BY <1>4
  <1>6. ASSUME NEW j \in k + 1..m
        PROVE  s[j] # n
    <2> SUFFICES ASSUME s[j] = n
                 PROVE  FALSE
      OBVIOUS
    <2>1. j \in 1..m
      OBVIOUS
    <2>2. m - j \in T
      BY <2>1
    <2>3. x <= m - j
      BY <1>4, <2>2
    <2> QED BY <1>5, <2>1, <2>3
  <1> QED BY <1>5, <1>6

\* A module refers to its exported members.
LEMMA ModuleMade ==
    ASSUME NEW h, NEW name \in Names, NEW m \in Nat, NEW names, DOMAIN names = 1..m, Len(names) = m,
           NEW members, AreValues(h, members), Len(members) = m
    PROVE  LET o == Module_make(name, names, members)
           IN  o.type = "Module" /\ ObjectOK(h, o) /\ View(h, o) = members
  <1>1. PICK o : o = Module_make(name, names, members)
    OBVIOUS
  <1>2. PICK f : f = o.exported
    OBVIOUS
  <1>3. /\ o.type = "Module" /\ o.name = name /\ o.members = members
        /\ o = [type |-> "Module", name |-> name, members |-> members, exported |-> f]
    BY <1>1, <1>2 DEF Module_make
  <1>4. /\ DOMAIN f = ToSet(names)
        /\ \A n \in ToSet(names) :
            f[n] = (CHOOSE i \in 1..m : names[i] = n /\ \A j \in i + 1..m : names[j] # n) - 1
    BY <1>1, <1>2 DEF Module_make
  <1>5. ASSUME NEW n \in DOMAIN f
        PROVE  f[n] \in 0..m - 1
    <2>1. n \in ToSet(names)
      BY <1>4
    <2>2. \E i \in 1..m : names[i] = n /\ \A j \in i + 1..m : names[j] # n
      BY <2>1, LastIndex
    <2>3. PICK i : i = CHOOSE l \in 1..m : names[l] = n /\ \A j \in l + 1..m : names[j] # n
      OBVIOUS
    <2>4. i \in 1..m
      BY <2>2, <2>3, Zenon
    <2>5. f[n] = i - 1
      BY <1>4, <2>1, <2>3
    <2> QED BY <2>4, <2>5
  <1>6. ModuleOK(h, o)
    BY <1>2, <1>3, <1>5 DEF ModuleOK
  <1> QED BY <1>1, <1>3, <1>6 DEF ObjectOK, View

\* Making a module from names and values, equal names included.
LEMMA MakeModule ==
    ASSUME HostInv, NEW name \in Names, NEW names \in BoundedSeq(Names, program.length), NEW r \in Results,
           NEW values \in [DOMAIN names -> Args], tiro_make_module(name, names, values, r)
    PROVE  CallStep
  <1>1. PICK members : members = [i \in DOMAIN values |-> Get(values[i])]
    OBVIOUS
  <1>2. PICK code : code = bad_arg(ToSet(values) \union {r})
    OBVIOUS
  <1>3. PICK o : o = Module_make(name, names, members)
    OBVIOUS
  <1>4. Makes("modules", code, o, members, r)
    BY <1>1, <1>2, <1>3 DEF tiro_make_module
  <1>5. code \in Codes /\ (code = "OK" => NULL \notin ToSet(values) \union {r})
    BY <1>2, CodesAre
  <1>6. PICK m \in Nat : names \in [1..m -> Names]
    <2>1. program.length \in Nat
      BY IndexesNat
    <2>2. PICK m \in 0..program.length : names \in [1..m -> Names]
      BY DEF BoundedSeq, SeqOf
    <2> QED BY <2>1, <2>2
  <1>7. DOMAIN names = 1..m /\ Len(names) = m /\ DOMAIN values = 1..m
    BY <1>6
  <1>8. ASSUME code = "OK"
        PROVE  r # NULL /\ o.type = "Module" /\ ObjectOK(heap, o) /\ View(heap, o) = members
    <2>1. r # NULL /\ \A i \in 1..m : values[i] # NULL
      BY <1>5, <1>7, <1>8 DEF ToSet
    <2>2. members = [i \in 1..m |-> members[i]] /\ \A i \in 1..m : members[i] = Get(values[i])
      BY <1>1, <1>7
    <2>3. IsSequence(members) /\ Len(members) = m /\ DOMAIN members = 1..m
      BY <2>2, SeqIs
    <2>4. \A i \in 1..m : IsValue(heap, members[i])
      BY <1>7, <2>1, <2>2, ArgValue
    <2>5. AreValues(heap, members)
      BY <2>3, <2>4 DEF AreValues
    <2>6. o.type = "Module" /\ ObjectOK(heap, o) /\ View(heap, o) = members
      BY <1>3, <1>7, <2>3, <2>5, ModuleMade
    <2> QED BY <2>1, <2>6
  <1> QED BY <1>4, <1>5, <1>8, MakeCall

\* Reading an export of a module.
LEMMA ModuleGetExport ==
    ASSUME HostInv, NEW h \in Args, NEW n \in Names, NEW r \in Results, tiro_module_get_export(h, n, r)
    PROVE  CallStep
  <1>1. PICK bad : bad = bad_type({h, r}, h, "Module")
    OBVIOUS
  <1>2. PICK code : code = IF bad = "OK" /\ n \notin DOMAIN Obj(h).exported THEN "EXPORT_NOT_FOUND" ELSE bad
    OBVIOUS
  <1>3. PICK v : v = find_exported(Obj(h), n)
    OBVIOUS
  <1>4. entry_point("modules", code, Writes(r, v))
    BY <1>1, <1>2, <1>3 DEF tiro_module_get_export
  <1>5. bad \in Codes /\ (bad = "OK" => r # NULL /\ IsA(h, "Module"))
    BY <1>1, CodesAre
  <1>6. code \in Codes /\ (code = "OK" => bad = "OK" /\ n \in DOMAIN Obj(h).exported)
    BY <1>2, <1>5 DEF Codes
  <1>7. ASSUME code = "OK"
        PROVE  r # NULL /\ IsValue(heap, v)
    <2>1. ObjectOK(heap, Obj(h)) /\ Obj(h).type = "Module"
      BY <1>5, <1>6, <1>7, ArgObject DEF ObjectTypes
    <2>2. ModuleOK(heap, Obj(h))
      BY <2>1, ObjectKinds
    <2> QED BY <1>3, <1>5, <1>6, <1>7, <2>2, ExportedValue
  <1> QED BY <1>4, <1>6, <1>7, WriteCall

\* Reading an export of a module that is loaded.
LEMMA VmGetExport ==
    ASSUME HostInv, NEW m \in Names, NEW n \in Names, NEW r \in Results, tiro_vm_get_export(m, n, r)
    PROVE  CallStep
  <1>1. PICK found : found = heap[registry[m]]
    OBVIOUS
  <1>2. PICK code : code = IF r = NULL THEN "BAD_ARG"
                           ELSE IF registry[m] = NoObject THEN "MODULE_NOT_FOUND"
                           ELSE IF n \notin DOMAIN found.exported THEN "EXPORT_NOT_FOUND" ELSE "OK"
    OBVIOUS
  <1>3. PICK v : v = find_exported(found, n)
    OBVIOUS
  <1>4. entry_point("modules", code, Writes(r, v))
    BY <1>1, <1>2, <1>3 DEF tiro_vm_get_export
  <1>5. code \in Codes /\ (code = "OK" => r # NULL /\ registry[m] # NoObject /\ n \in DOMAIN found.exported)
    BY <1>2 DEF Codes
  <1>6. ASSUME code = "OK"
        PROVE  r # NULL /\ IsValue(heap, v)
    <2>1. registry[m] \in Ids /\ found.type = "Module"
      BY <1>1, <1>5, <1>6 DEF HostInv, RootsOK
    <2>2. ModuleOK(heap, found)
      BY <1>1, <2>1, ObjectKinds DEF HostInv, HeapOK
    <2> QED BY <1>3, <1>5, <1>6, <2>2, ExportedValue
  <1> QED BY <1>4, <1>5, <1>6, WriteCall

-----------------------------------------------------------------------------
(* Coroutines. *)

\* Making a coroutine.
LEMMA MakeCoroutine ==
    ASSUME HostInv, NEW f \in Args, NEW a \in Args, NEW r \in Results, tiro_make_coroutine(f, a, r)
    PROVE  CallStep
  <1>1. PICK v : v = IF a = NULL THEN Null ELSE Get(a)
    OBVIOUS
  <1>2. PICK o : o = Coroutine_make(v)
    OBVIOUS
  <1>3. PICK code : code = IF NULL \in {f, r} THEN "BAD_ARG"
                ELSE IF ~\E type \in {"NativeFunction", "BoundMethod"} : IsA(f, type) THEN "BAD_TYPE"
                ELSE IF a # NULL /\ ~IsA(a, "Null") /\ ~IsA(a, "Tuple")
                THEN "BAD_TYPE" ELSE "OK"
    OBVIOUS
  <1>4. Makes("functions", code, o, <<>>, r)
    BY <1>1, <1>2, <1>3 DEF tiro_make_coroutine
  <1>5. code \in Codes /\ (code = "OK" => r # NULL)
    BY <1>3 DEF Codes
  <1>6. IsValue(heap, v) /\ IsValue(heap, Null)
    BY <1>1, ArgValue, PlainValues
  <1>7. /\ o.type = "Coroutine" /\ o.state = "New" /\ o.arguments = v /\ o.native_callback = NoObject
        /\ o.result = Null
        /\ o = [type |-> "Coroutine", state |-> "New", arguments |-> v, native_callback |-> NoObject, result |-> Null]
    BY <1>2 DEF Coroutine_make
  <1>8. CoroutineOK(heap, o)
    BY <1>6, <1>7 DEF CoroutineOK
  <1>9. ObjectOK(heap, o) /\ View(heap, o) = <<>>
    BY <1>7, <1>8 DEF ObjectOK, View
  <1> QED BY <1>4, <1>5, <1>7, <1>9, MakeCall

\* Reading the result of a coroutine that has completed.
LEMMA CoroutineResult ==
    ASSUME HostInv, NEW c \in Args, NEW r \in Results, tiro_coroutine_result(c, r)
    PROVE  CallStep
  <1>1. PICK bad : bad = bad_type({c, r}, c, "Coroutine")
    OBVIOUS
  <1>2. PICK code : code = IF bad = "OK" /\ Obj(c).state # "Done" THEN "BAD_STATE" ELSE bad
    OBVIOUS
  <1>3. PICK v : v = Obj(c).result
    OBVIOUS
  <1>4. entry_point("coroutines", code, Writes(r, v))
    BY <1>1, <1>2, <1>3 DEF tiro_coroutine_result
  <1>5. bad \in Codes /\ (bad = "OK" => r # NULL /\ IsA(c, "Coroutine"))
    BY <1>1, CodesAre
  <1>6. code \in Codes /\ (code = "OK" => bad = "OK")
    BY <1>2, <1>5 DEF Codes
  <1>7. ASSUME code = "OK"
        PROVE  r # NULL /\ IsValue(heap, v)
    <2>1. ObjectOK(heap, Obj(c)) /\ Obj(c).type = "Coroutine"
      BY <1>5, <1>6, <1>7, ArgObject DEF ObjectTypes
    <2>2. CoroutineOK(heap, Obj(c))
      BY <2>1, ObjectKinds
    <2> QED BY <1>3, <1>5, <1>6, <1>7, <2>2 DEF CoroutineOK
  <1> QED BY <1>4, <1>6, <1>7, WriteCall

-----------------------------------------------------------------------------
(* Steps that change neither objects nor what is recorded about userdata. *)

\* The objects are untouched.
LEMMA SameHeap ==
    ASSUME HostInv, UNCHANGED <<heap, spec>>
    PROVE  HeapOK' /\ Keeps(heap, heap', Ids)
  <1>1. Keeps(heap, heap', Ids)
    BY DEF Keeps
  <1> QED BY <1>1, HeapStep DEF HostInv, HeapOK

\* What is recorded about userdata is untouched.
LEMMA SameUsers ==
    ASSUME HostInv, UNCHANGED <<heap, users, frame>>
    PROVE  UsersOK'
  <1>1. Calm
    BY DEF Calm
  <1> QED BY <1>1, CalmUsers DEF HostInv

\* The queue is untouched, and the flags are flags.
LEMMA SameRoots ==
    ASSUME HostInv, UNCHANGED <<heap, program, registry, ready, frame, vm>>,
           running' \in BOOLEAN, crashed' \in BOOLEAN, err' \in Codes,
           frame # NoFrame => running', vm = "freed" => ~running'
    PROVE  RootsOK'
  BY DEF HostInv, RootsOK, ReadyOK, Live, NoFrame, Codes

\* The first free slot is one.
LEMMA FirstFree ==
    ASSUME StorageInv, first_free # NULL
    PROVE  first_free \in FreeSlots /\ first_free \in Slots
  <1>1. PICK list \in [1..free_slots -> FreeSlots] : first_free = IF free_slots = 0 THEN NULL ELSE list[1]
    BY DEF StorageInv, FreeListExact
  <1>2. free_slots \in Nat \ {0}
    BY <1>1 DEF StorageInv
  <1>3. first_free \in FreeSlots
    BY <1>1, <1>2
  <1>4. FreeSlots \subseteq Slots
    BY PageBounds DEF StorageInv, FreeSlots
  <1> QED BY <1>3, <1>4

\* A slot is taken from the list of free slots.
LEMMA GlobalNewSlots ==
    ASSUME HostInv, StorageInv, allocate_slot(Null), UNCHANGED heap
    PROVE  SlotsOK'
  <1>0. DOMAIN slot = Slots /\ allocated \in [Slots -> BOOLEAN]
    BY DEF StorageInv
  <1>1. IsValue(heap, Null) /\ heap' = heap
    BY PlainValues
  <1>2. CASE first_free # NULL
    <2>1. PICK top \in Slots : top = first_free
      BY <1>2, FirstFree
    <2>2. slot' = [slot EXCEPT ![top] = Stored(Null)] /\ allocated' = [allocated EXCEPT ![top] = TRUE]
      BY <1>2, <2>1 DEF allocate_slot
    <2>3. /\ DOMAIN slot' = Slots /\ slot'[top] = Stored(Null) /\ allocated'[top]
          /\ \A s \in Slots : s # top => slot'[s] = slot[s] /\ allocated'[s] = allocated[s]
      BY <1>0, <2>2
    <2>4. Stored(Null)[2] = Null
      BY DEF Stored
    <2> QED BY <1>1, <2>3, <2>4 DEF HostInv, SlotsOK
  <1>3. CASE first_free = NULL
    <2>1. pages < MaxPages /\ pages \in 0..MaxPages
      BY <1>3 DEF allocate_slot, StorageInv
    <2>2. PICK base \in Nat : base = pages * PageSlots
      BY <2>1, PageBounds
    <2>3. PICK top \in Nat : top = (pages + 1) * PageSlots
      BY <2>1, <2>2, PageBounds, Sizes
    <2>4. top = base + PageSlots /\ 1..top \subseteq Slots
      BY <2>1, <2>2, <2>3, PageBounds
    <2>5. top \in base + 1..top /\ top \in Slots
      BY <2>4, Sizes
    <2>6. /\ slot' = [link_page(pages) EXCEPT ![top] = Stored(Null)]
          /\ allocated' = [allocated EXCEPT ![top] = TRUE]
      BY <1>3, <2>3 DEF allocate_slot
    <2>7. /\ DOMAIN link_page(pages) = Slots
          /\ \A s \in Slots : link_page(pages)[s] =
                IF s \in base + 1..top THEN NextFree(IF s = base + 1 THEN NULL ELSE s - 1) ELSE slot[s]
      BY <2>2, <2>3 DEF link_page
    <2>8. /\ DOMAIN slot' = Slots /\ slot'[top] = Stored(Null) /\ allocated'[top]
          /\ \A s \in Slots : s # top => slot'[s] = link_page(pages)[s] /\ allocated'[s] = allocated[s]
      BY <1>0, <2>5, <2>6, <2>7
    <2>9. ASSUME NEW s \in Slots, s # top
          PROVE  IF allocated'[s] THEN slot'[s] = Stored(slot'[s][2]) /\ IsValue(heap', slot'[s][2])
                 ELSE slot'[s] = NextFree(slot'[s][2]) /\ slot'[s][2] \in Slots \union {NULL}
      <3>1. CASE s \in base + 1..top
        <4>1. ~allocated[s]
          <5>1. s \notin 1..base
            BY <2>2, <3>1
          <5> QED BY <2>2, <5>1 DEF StorageInv, Handles
        <4>2. PICK t : t = IF s = base + 1 THEN NULL ELSE s - 1
          OBVIOUS
        <4>3. t \in Slots \union {NULL}
          BY <2>2, <2>4, <3>1, <4>2
        <4>4. slot'[s] = NextFree(t)
          BY <2>7, <2>8, <2>9, <3>1, <4>2
        <4>5. slot'[s][2] = t
          BY <4>4 DEF NextFree
        <4> QED BY <2>8, <2>9, <4>1, <4>3, <4>4, <4>5
      <3>2. CASE s \notin base + 1..top
        <4>1. slot'[s] = slot[s] /\ allocated'[s] = allocated[s]
          BY <2>7, <2>8, <2>9, <3>2
        <4> QED BY <1>1, <4>1 DEF HostInv, SlotsOK
      <3> QED BY <3>1, <3>2
    <2>10. Stored(Null)[2] = Null
      BY DEF Stored
    <2> QED BY <1>1, <2>8, <2>9, <2>10 DEF SlotsOK
  <1> QED BY <1>2, <1>3

\* Taking a handle (tiro_global_new).
LEMMA GlobalNew ==
    ASSUME HostInv, StorageInv, tiro_global_new
    PROVE  HostInv'
  <1>1. /\ UNCHANGED <<heap, spec>> /\ UNCHANGED <<program, registry, ready, running, frame, users, vm, crashed>>
        /\ err' = err /\ allocate_slot(Null)
    BY DEF tiro_global_new, scheduling
  <1>2. RootsOK'
    BY <1>1, SameRoots DEF HostInv, RootsOK
  <1> QED BY <1>1, <1>2, SameHeap, SameUsers, GlobalNewSlots DEF HostInv

\* Giving a handle back (tiro_global_free).
LEMMA GlobalFree ==
    ASSUME HostInv, StorageInv, NEW g \in Handles, tiro_global_free(g)
    PROVE  HostInv'
  <1>1. /\ UNCHANGED <<heap, spec>> /\ UNCHANGED <<program, registry, ready, running, frame, users, vm, crashed>>
        /\ err' = err /\ free_slot(g)
    BY DEF tiro_global_free, scheduling
  <1>2. RootsOK'
    BY <1>1, SameRoots DEF HostInv, RootsOK
  <1>3. first_free \in Slots \union {NULL}
    BY FirstFree
  <1>4. DOMAIN slot = Slots /\ allocated \in [Slots -> BOOLEAN] /\ g \in Slots
    BY DEF StorageInv, Handles
  <1>5. /\ DOMAIN slot' = Slots /\ slot'[g] = NextFree(first_free) /\ ~allocated'[g]
        /\ \A s \in Slots : s # g => slot'[s] = slot[s] /\ allocated'[s] = allocated[s]
    BY <1>1, <1>4 DEF free_slot
  <1>6. NextFree(first_free)[2] = first_free
    BY DEF NextFree
  <1>7. heap' = heap
    BY <1>1
  <1>8. SlotsOK'
    BY <1>3, <1>5, <1>6, <1>7 DEF HostInv, SlotsOK
  <1> QED BY <1>1, <1>2, <1>8, SameHeap, SameUsers DEF HostInv

\* Neither slots, objects nor userdata change.
LEMMA Unchanged ==
    ASSUME HostInv, UNCHANGED <<slot, allocated, heap, spec, users, frame>>, RootsOK'
    PROVE  HostInv'
  <1>1. HeapOK' /\ Keeps(heap, heap', Ids)
    BY SameHeap
  <1>2. SlotsOK'
    BY <1>1, SlotsStep DEF HostInv
  <1>3. UsersOK'
    BY SameUsers
  <1> QED BY <1>1, <1>2, <1>3 DEF HostInv

\* Freeing an error.
LEMMA ErrorFree ==
    ASSUME HostInv, tiro_error_free
    PROVE  HostInv'
  <1>1. UNCHANGED <<program, slot, allocated, heap, registry, ready, running, frame, users, vm, crashed, spec>>
    BY DEF tiro_error_free, storage, scheduling
  <1>2. err' \in Codes
    BY DEF tiro_error_free, Codes
  <1>3. RootsOK'
    BY <1>1, <1>2, SameRoots DEF HostInv, RootsOK
  <1> QED BY <1>1, <1>3, Unchanged

\* Entering and leaving the loop that runs coroutines.
LEMMA RunReady ==
    ASSUME HostInv, tiro_vm_run_ready \/ RunReadyReturns
    PROVE  HostInv'
  <1>1. /\ UNCHANGED <<program, slot, allocated, heap, registry, ready, frame, users, vm, crashed, spec>>
        /\ running' \in BOOLEAN
    BY DEF tiro_vm_run_ready, RunReadyReturns, storage
  <1>2. err' \in Codes
    <2>1. "OK" \in Codes /\ "INTERNAL" \in Codes
      BY DEF Codes
    <2>2. ASSUME tiro_vm_run_ready
          PROVE  err' \in Codes
      <3>1. PICK code \in Codes : report_error(code)
        BY <2>1, <2>2 DEF tiro_vm_run_ready
      <3> QED BY <3>1, Reports
    <2> QED BY <2>2 DEF RunReadyReturns, HostInv, RootsOK
  <1>3. (frame # NoFrame => running') /\ (vm = "freed" => ~running')
    BY DEF tiro_vm_run_ready, RunReadyReturns, Uses
  <1>4. RootsOK'
    BY <1>1, <1>2, <1>3, SameRoots DEF HostInv, RootsOK
  <1> QED BY <1>1, <1>4, Unchanged

\* Loading a module.
LEMMA LoadModule ==
    ASSUME HostInv, NEW h \in Args, tiro_vm_load_module(h)
    PROVE  HostInv'
  <1>1. PICK code : code = bad_type({h}, h, "Module")
    OBVIOUS
  <1>2. PICK i : i = Id(h)
    OBVIOUS
  <1>3. PICK n : n = Obj(h).name
    OBVIOUS
  <1>4. /\ UNCHANGED <<program, slot, allocated, heap, ready, running, frame, users, vm, crashed, spec>>
        /\ \/ registry' = registry
           \/ code = "OK" /\ registry' = [registry EXCEPT ![n] = i]
        /\ report_error("MODULE_EXISTS") \/ report_error(code)
        /\ vm = "alive"
    BY <1>1, <1>2, <1>3 DEF tiro_vm_load_module, storage, Uses
  <1>5. code \in Codes /\ "MODULE_EXISTS" \in Codes
    BY <1>1, CodesAre DEF Codes
  <1>6. err' \in Codes
    BY <1>4, <1>5, Reports
  <1>7. code = "OK" => i \in Ids /\ heap[i].type = "Module"
    <2> SUFFICES ASSUME code = "OK"
                 PROVE  i \in Ids /\ heap[i].type = "Module"
      OBVIOUS
    <2>1. IsA(h, "Module")
      BY <1>1, CodesAre
    <2> QED BY <1>2, <2>1, ArgObject DEF ObjectTypes
  <1>8. /\ registry \in [Names -> Ids \union {NoObject}]
        /\ \A m \in Names : registry[m] # NoObject => heap[registry[m]].type = "Module"
    BY DEF HostInv, RootsOK
  <1>9. /\ registry' \in [Names -> Ids \union {NoObject}]
        /\ \A m \in Names : registry'[m] # NoObject => heap[registry'[m]].type = "Module"
    <2>1. CASE registry' = registry
      BY <1>8, <2>1
    <2>2. CASE code = "OK" /\ registry' = [registry EXCEPT ![n] = i]
      <3>1. registry' \in [Names -> Ids \union {NoObject}]
        BY <1>7, <1>8, <2>2
      <3>2. \A m \in Names : registry'[m] = i \/ registry'[m] = registry[m]
        BY <1>8, <2>2
      <3> QED BY <1>7, <1>8, <2>2, <3>1, <3>2
    <2> QED BY <1>4, <2>1, <2>2
  <1>10. RootsOK'
    BY <1>4, <1>6, <1>9 DEF HostInv, RootsOK, ReadyOK, Live, NoFrame, Codes
  <1> QED BY <1>4, <1>10, Unchanged

-----------------------------------------------------------------------------
(* Steps that change coroutines and native objects. *)

\* Only coroutines and native objects change, to well-formed ones.
LEMMA TypesKept ==
    ASSUME HostInv, UNCHANGED <<slot, allocated, spec>>, DOMAIN heap' = Ids,
           \A i \in Ids :
            \/ heap'[i] = heap[i]
            \/ /\ heap[i].type \in {"Coroutine", "NativeObject"} /\ heap'[i].type = heap[i].type
               /\ ObjectOK(heap, heap'[i])
    PROVE  Keeps(heap, heap', Ids) /\ HeapOK' /\ SlotsOK'
  <1>1. Keeps(heap, heap', Ids)
    BY DEF Keeps, Live
  <1>2. ASSUME NEW i \in Ids, heap'[i] # heap[i]
        PROVE  ObjectOK(heap', heap'[i]) /\ View(heap', heap'[i]) = spec'[i]
    <2>1. ObjectOK(heap, heap'[i]) /\ heap'[i].type \in {"Coroutine", "NativeObject"}
          /\ heap[i].type \in {"Coroutine", "NativeObject"}
      BY <1>2
    <2>2. PICK o : o = heap'[i]
      OBVIOUS
    <2>3. References(o) \subseteq Ids
      BY <2>1, <2>2, ReferencesLive DEF Live
    <2>4. ObjectOK(heap', o)
      BY <1>1, <2>1, <2>2, <2>3, KeepsObject
    <2>5. View(heap', o) = <<>> /\ View(heap, heap[i]) = <<>>
      BY <2>1, <2>2 DEF View
    <2>6. spec'[i] = <<>>
      BY <2>5 DEF HostInv, HeapOK
    <2> QED BY <2>2, <2>4, <2>5, <2>6
  <1>3. HeapOK'
    BY <1>1, <1>2, HeapStep DEF HostInv, HeapOK
  <1>4. SlotsOK'
    BY <1>1, SlotsStep DEF HostInv
  <1> QED BY <1>1, <1>3, <1>4

\* A coroutine with another state, result or callback is one.
LEMMA CoroutineSet ==
    ASSUME NEW h, NEW o, CoroutineOK(h, o), NEW state \in {"New", "Started", "Waiting", "Done"},
           NEW v, IsValue(h, v), NEW callback \in {o.native_callback, NoObject}
    PROVE  LET c == [type |-> "Coroutine", state |-> state, arguments |-> o.arguments,
                     native_callback |-> callback, result |-> v]
           IN  CoroutineOK(h, c) /\ ObjectOK(h, c) /\ c.type = "Coroutine"
  <1>1. PICK c : c = [type |-> "Coroutine", state |-> state, arguments |-> o.arguments,
                     native_callback |-> callback, result |-> v]
    OBVIOUS
  <1>2. /\ c.type = "Coroutine" /\ c.state = state /\ c.arguments = o.arguments
        /\ c.native_callback = callback /\ c.result = v
        /\ c = [type |-> "Coroutine", state |-> c.state, arguments |-> c.arguments,
                native_callback |-> c.native_callback, result |-> c.result]
    BY <1>1
  <1>3. CoroutineOK(h, c)
    BY <1>2 DEF CoroutineOK
  <1> QED BY <1>1, <1>2, <1>3 DEF ObjectOK

\* A coroutine refers to objects that exist, and its callback to a native object.
LEMMA CoroutineIs ==
    ASSUME HostInv, NEW c \in Ids, heap[c].type = "Coroutine"
    PROVE  /\ CoroutineOK(heap, heap[c])
           /\ heap[c].native_callback # NoObject => heap[c].native_callback \in Natives
  <1>1. CoroutineOK(heap, heap[c])
    BY ObjectKinds DEF HostInv, HeapOK
  <1> QED BY <1>1 DEF CoroutineOK, Natives

\* Native objects stay, and no callback becomes due.
LEMMA CallbacksKept ==
    ASSUME HostInv, UNCHANGED <<users, frame>>,
           \A i \in Ids :
            /\ heap'[i].type = heap[i].type
            /\ heap[i].type = "NativeObject" => heap'[i] = heap[i]
            /\ heap[i].type = "Coroutine" =>
                /\ heap'[i].native_callback \in {heap[i].native_callback, NoObject}
                /\ heap'[i].state # "Done" => heap[i].state # "Done"
    PROVE  UsersOK'
  <1>1. Natives' = Natives /\ \A i \in Natives : heap'[i] = heap[i]
    BY DEF Natives
  <1>2. Due' \subseteq Due
    <2> SUFFICES ASSUME NEW i \in Due'
                 PROVE  i \in Due
      OBVIOUS
    <2>1. i \in Natives' /\ i \in Ids
      BY DEF Due, Natives
    <2>2. PICK c \in Ids : heap'[c].type = "Coroutine" /\ heap'[c].state # "Done" /\ heap'[c].native_callback = i
      BY DEF Due
    <2>3. i # NoObject
      BY <2>1, IdFacts
    <2>4. heap[c].type = "Coroutine" /\ heap[c].native_callback = i /\ heap[c].state # "Done"
      BY <2>2, <2>3
    <2> QED BY <1>1, <2>1, <2>4 DEF Due
  <1>3. \A c, d \in Ids :
            /\ heap'[c].type = "Coroutine" /\ heap'[d].type = "Coroutine"
            /\ heap'[c].native_callback = heap'[d].native_callback /\ heap'[c].native_callback # NoObject
            => c = d
    <2> SUFFICES ASSUME NEW c \in Ids, NEW d \in Ids,
                        heap'[c].type = "Coroutine", heap'[d].type = "Coroutine",
                        heap'[c].native_callback = heap'[d].native_callback, heap'[c].native_callback # NoObject
                 PROVE  c = d
      OBVIOUS
    <2>1. /\ heap[c].type = "Coroutine" /\ heap[d].type = "Coroutine"
          /\ heap[c].native_callback = heap[d].native_callback /\ heap[c].native_callback # NoObject
      OBVIOUS
    <2> QED BY <2>1 DEF HostInv, UsersOK
  <1>4. frame # NoFrame => frame.callback \in Natives
    BY DEF HostInv, RootsOK, Natives
  <1>5. \A i \in Natives : User(i)' = User(i)
    BY <1>1 DEF User
  <1>6. users' = users /\ frame' = frame
    OBVIOUS
  <1>7. \A u \in Users : users[u].cleanup /\ users[u].cleaned = 0 =>
            \E i \in Natives' : heap'[i].userdata = u /\ heap'[i].cleanup
    BY <1>1 DEF HostInv, UsersOK
  <1>8. \A i \in Natives' :
            /\ User(i)'.registered
            /\ heap'[i].cleanup => User(i)'.cleanup /\ User(i)'.cleaned = 0
    BY <1>1, <1>5 DEF HostInv, UsersOK
  <1>9. \A i, j \in Natives' : heap'[i].userdata = heap'[j].userdata => i = j
    BY <1>1 DEF HostInv, UsersOK
  <1>10. \A i \in Due' : User(i)'.called = 0 /\ User(i)'.cleaned = 0
    <2>1. Due \subseteq Natives
      BY DEF Due
    <2> QED BY <1>2, <1>5, <2>1 DEF HostInv, UsersOK
  <1>11. frame # NoFrame => User(frame.callback)'.called = 1 /\ User(frame.callback)'.cleaned = 0
    BY <1>4, <1>5 DEF HostInv, UsersOK
  <1>12. DOMAIN users = Users /\ \A u \in Users : UserOK(users[u])
    BY DEF HostInv, UsersOK
  <1> QED BY <1>3, <1>6, <1>7, <1>8, <1>9, <1>10, <1>11, <1>12 DEF UsersOK, User, UserOK, NoFrame

\* One coroutine that had not completed gets another state.
LEMMA StateSet ==
    ASSUME HostInv, NEW c \in Ids, heap[c].type = "Coroutine",
           NEW state \in {"Started", "Waiting"}, heap[c].state # "Done",
           heap' = [heap EXCEPT ![c].state = state], UNCHANGED <<slot, allocated, spec, users, frame>>
    PROVE  /\ HeapOK' /\ SlotsOK' /\ UsersOK' /\ Keeps(heap, heap', Ids)
           /\ \A i \in Ids : i # c => heap'[i] = heap[i]
           /\ heap'[c].type = "Coroutine" /\ heap'[c].state = state
  <1>1. CoroutineOK(heap, heap[c]) /\ DOMAIN heap = Ids
    BY CoroutineIs DEF HostInv, HeapOK
  <1>2. PICK o : o = heap[c]
    OBVIOUS
  <1>3. PICK n : n = [type |-> "Coroutine", state |-> state, arguments |-> o.arguments,
                      native_callback |-> o.native_callback, result |-> o.result]
    OBVIOUS
  <1>4. heap'[c] = n /\ DOMAIN heap' = Ids /\ \A i \in Ids : i # c => heap'[i] = heap[i]
    <2>1. o = [type |-> "Coroutine", state |-> o.state, arguments |-> o.arguments,
               native_callback |-> o.native_callback, result |-> o.result]
      BY <1>1, <1>2 DEF CoroutineOK
    <2>2. heap' = [heap EXCEPT ![c] = [o EXCEPT !.state = state]]
      BY <1>1, <1>2
    <2> QED BY <1>1, <1>3, <2>1, <2>2
  <1>5. ObjectOK(heap, n) /\ n.type = "Coroutine"
    <2>1. IsValue(heap, o.result)
      BY <1>1, <1>2 DEF CoroutineOK
    <2> QED BY <1>1, <1>2, <1>3, <2>1, CoroutineSet
  <1>6. Keeps(heap, heap', Ids) /\ HeapOK' /\ SlotsOK'
    BY <1>2, <1>4, <1>5, TypesKept
  <1>7. n.native_callback = o.native_callback /\ n.state = state
    BY <1>3
  <1>8. UsersOK'
    BY <1>2, <1>4, <1>5, <1>7, CallbacksKept
  <1> QED BY <1>4, <1>5, <1>6, <1>7, <1>8

\* Which coroutines are ready, after they and another one have been changed.
LEMMA RootsStep ==
    ASSUME HostInv, Keeps(heap, heap', Ids), vm = "alive",
           program' = program, registry' = registry, running' = running, vm' = vm,
           err' \in Codes, crashed' \in BOOLEAN,
           ReadyOK(heap', ready'),
           \/ frame' = frame \/ frame' = NoFrame
           \/ running /\ frame'.coroutine \in Live(heap') /\ frame'.callback \in Ids
               /\ heap'[frame'.callback].type = "NativeObject"
    PROVE  RootsOK'
  <1>1. \A i \in Ids : heap[i].type # "Free" => heap'[i].type = heap[i].type
    BY DEF Keeps, Live
  <1>2. \A n \in Names : registry[n] # NoObject => heap'[registry[n]].type = "Module"
    BY <1>1 DEF HostInv, RootsOK
  <1>3. frame' # NoFrame =>
            /\ running /\ frame'.coroutine \in Live(heap') /\ frame'.callback \in Ids
            /\ heap'[frame'.callback].type = "NativeObject"
    <2>1. CASE frame' = frame
      BY <1>1, <2>1 DEF HostInv, RootsOK, Live
    <2>2. CASE frame' # frame
      BY <2>2
    <2> QED BY <2>1, <2>2
  <1>4. /\ registry \in [Names -> Ids \union {NoObject}]
        /\ program \in Programs /\ running \in BOOLEAN
    BY DEF HostInv, RootsOK
  <1>5. registry' = registry /\ running' = running /\ program' = program /\ vm' = "alive"
    OBVIOUS
  <1> QED BY <1>2, <1>3, <1>4, <1>5 DEF RootsOK, ReadyOK, NoFrame, Live, Codes

\* A coroutine that was not ready is at the end of the queue.
LEMMA Queued ==
    ASSUME HostInv, NEW c \in Ids, heap[c].type = "Coroutine", heap[c].state # "Started",
           ready' = Append(ready, c),
           \A i \in Ids : i # c => heap'[i] = heap[i],
           heap'[c].type = "Coroutine" /\ heap'[c].state = "Started"
    PROVE  ReadyOK(heap', ready')
  <1>1. /\ ready \in Seq(Ids)
        /\ \A k \in DOMAIN ready : heap[ready[k]].type = "Coroutine" /\ heap[ready[k]].state = "Started"
        /\ \A k, l \in DOMAIN ready : ready[k] = ready[l] => k = l
    BY DEF HostInv, RootsOK, ReadyOK
  <1>2. PICK n \in Nat : n = Len(ready) /\ DOMAIN ready = 1..n
    BY <1>1
  <1>3. /\ ready' \in Seq(Ids) /\ DOMAIN ready' = 1..n + 1 /\ ready'[n + 1] = c
        /\ \A k \in 1..n : ready'[k] = ready[k]
    BY <1>1, <1>2
  <1>4. \A k \in 1..n : ready[k] \in Ids /\ ready[k] # c
    BY <1>1, <1>2
  <1>5. \A k \in 1..n + 1 : k \in 1..n \/ k = n + 1
    OBVIOUS
  <1>6. \A k \in 1..n + 1 : heap'[ready'[k]].type = "Coroutine" /\ heap'[ready'[k]].state = "Started"
    BY <1>1, <1>2, <1>3, <1>4, <1>5
  <1>7. \A k, l \in 1..n + 1 : ready'[k] = ready'[l] => k = l
    BY <1>1, <1>2, <1>3, <1>4, <1>5
  <1> QED BY <1>3, <1>6, <1>7 DEF ReadyOK

\* Starting a coroutine (tiro_coroutine_start).
LEMMA CoroutineStart ==
    ASSUME HostInv, NEW h \in Args, tiro_coroutine_start(h)
    PROVE  HostInv'
  <1>1. PICK bad : bad = bad_type({h}, h, "Coroutine")
    OBVIOUS
  <1>2. PICK code : code = IF bad = "OK" /\ Obj(h).state # "New" THEN "BAD_STATE" ELSE bad
    OBVIOUS
  <1>3. PICK c : c = Id(h)
    OBVIOUS
  <1>4. /\ UNCHANGED <<program, slot, allocated, registry, running, frame, users, vm, crashed, spec>>
        /\ report_error(code) /\ vm = "alive"
        /\ IF code = "OK" THEN heap' = [heap EXCEPT ![c].state = "Started"] /\ ready' = Append(ready, c)
           ELSE UNCHANGED <<heap, ready>>
    BY <1>1, <1>2, <1>3 DEF tiro_coroutine_start, storage, Uses
  <1>5. code \in Codes /\ (code = "OK" => bad = "OK" /\ Obj(h).state = "New")
    <2>1. bad \in Codes
      BY <1>1, CodesAre
    <2> QED BY <1>2, <2>1 DEF Codes
  <1>6. err' \in Codes
    BY <1>4, <1>5, Reports
  <1>7. CASE code # "OK"
    <2>1. UNCHANGED <<heap, ready>>
      BY <1>4, <1>7
    <2>2. RootsOK'
      BY <1>4, <1>6, <2>1, SameRoots DEF HostInv, RootsOK
    <2> QED BY <1>4, <2>1, <2>2, Unchanged
  <1>8. CASE code = "OK"
    <2>1. c \in Ids /\ heap[c].type = "Coroutine" /\ heap[c].state = "New"
      <3>1. IsA(h, "Coroutine")
        BY <1>1, <1>5, <1>8, CodesAre
      <3> QED BY <1>3, <1>5, <1>8, <3>1, ArgObject DEF ObjectTypes
    <2>2. heap' = [heap EXCEPT ![c].state = "Started"] /\ ready' = Append(ready, c)
      BY <1>4, <1>8
    <2>3. /\ HeapOK' /\ SlotsOK' /\ UsersOK' /\ Keeps(heap, heap', Ids)
          /\ \A i \in Ids : i # c => heap'[i] = heap[i]
          /\ heap'[c].type = "Coroutine" /\ heap'[c].state = "Started"
      BY <1>4, <2>1, <2>2, StateSet
    <2>4. ReadyOK(heap', ready')
      BY <2>1, <2>2, <2>3, Queued
    <2>5. crashed' \in BOOLEAN
      BY <1>4 DEF HostInv, RootsOK
    <2>6. program' = program /\ registry' = registry /\ running' = running /\ vm' = vm /\ frame' = frame
          /\ vm = "alive"
      BY <1>4
    <2>7. RootsOK'
      BY <1>6, <2>3, <2>4, <2>5, <2>6, RootsStep
    <2> QED BY <2>3, <2>7 DEF HostInv
  <1> QED BY <1>7, <1>8

\* A waiting coroutine becomes ready again.
LEMMA CoroutineResumed ==
    ASSUME HostInv, NEW c \in Ids, ResumeCoroutine(c)
    PROVE  HostInv'
  <1>1. /\ UNCHANGED <<program, slot, allocated, registry, running, frame, users, vm, crashed, spec, err>>
        /\ vm = "alive" /\ heap[c].type = "Coroutine" /\ heap[c].state = "Waiting"
        /\ heap' = [heap EXCEPT ![c].state = "Started"] /\ ready' = Append(ready, c)
    BY DEF ResumeCoroutine, storage, Uses
  <1>2. /\ HeapOK' /\ SlotsOK' /\ UsersOK' /\ Keeps(heap, heap', Ids)
        /\ \A i \in Ids : i # c => heap'[i] = heap[i]
        /\ heap'[c].type = "Coroutine" /\ heap'[c].state = "Started"
    BY <1>1, StateSet
  <1>3. ReadyOK(heap', ready')
    BY <1>1, <1>2, Queued
  <1>4. crashed' \in BOOLEAN /\ err' \in Codes
    BY <1>1 DEF HostInv, RootsOK
  <1>5. program' = program /\ registry' = registry /\ running' = running /\ vm' = vm /\ frame' = frame
          /\ vm = "alive"
    BY <1>1
  <1>6. RootsOK'
    BY <1>2, <1>3, <1>4, <1>5, RootsStep
  <1> QED BY <1>2, <1>6 DEF HostInv

\* What is left of the queue when its first coroutine has run.
LEMMA Dequeued ==
    ASSUME HostInv, ready # <<>>, ready' = Tail(ready), \A i \in Ids : i # Head(ready) => heap'[i] = heap[i]
    PROVE  /\ Head(ready) \in Ids
           /\ heap[Head(ready)].type = "Coroutine" /\ heap[Head(ready)].state = "Started"
           /\ ReadyOK(heap', ready')
  <1>1. /\ ready \in Seq(Ids)
        /\ \A k \in DOMAIN ready : heap[ready[k]].type = "Coroutine" /\ heap[ready[k]].state = "Started"
        /\ \A k, l \in DOMAIN ready : ready[k] = ready[l] => k = l
    BY DEF HostInv, RootsOK, ReadyOK
  <1>2. PICK n \in Nat : n + 1 = Len(ready) /\ DOMAIN ready = 1..n + 1
    <2>1. Len(ready) \in Nat \ {0} /\ DOMAIN ready = 1..Len(ready)
      BY <1>1
    <2>2. Len(ready) - 1 \in Nat /\ (Len(ready) - 1) + 1 = Len(ready)
      BY <2>1
    <2> QED BY <2>1, <2>2
  <1>3. Head(ready) = ready[1] /\ 1 \in DOMAIN ready
    BY <1>1, <1>2
  <1>4. ready' \in Seq(Ids) /\ DOMAIN ready' = 1..n /\ \A k \in 1..n : ready'[k] = ready[k + 1]
    BY <1>1, <1>2
  <1>5. \A k \in 1..n : k + 1 \in 1..n + 1 /\ k + 1 # 1
    OBVIOUS
  <1>6. \A k \in 1..n : ready'[k] \in Ids /\ ready'[k] # Head(ready)
    BY <1>1, <1>2, <1>3, <1>4, <1>5
  <1>7. \A k \in 1..n : heap'[ready'[k]].type = "Coroutine" /\ heap'[ready'[k]].state = "Started"
    BY <1>1, <1>2, <1>4, <1>5, <1>6
  <1>8. \A k, l \in 1..n : ready'[k] = ready'[l] => k = l
    <2> SUFFICES ASSUME NEW k \in 1..n, NEW l \in 1..n, ready'[k] = ready'[l]
                 PROVE  k = l
      OBVIOUS
    <2>1. ready[k + 1] = ready[l + 1]
      BY <1>4
    <2>2. k + 1 = l + 1
      BY <1>1, <1>2, <1>5, <2>1
    <2> QED BY <2>2
  <1>9. Head(ready) \in Ids
    BY <1>1, <1>3
  <1> QED BY <1>1, <1>3, <1>4, <1>7, <1>8, <1>9 DEF ReadyOK

\* The first ready coroutine runs and waits.
LEMMA CoroutineWaits ==
    ASSUME HostInv, RunCoroutine(FALSE)
    PROVE  HostInv'
  <1>1. PICK c : c = Head(ready)
    OBVIOUS
  <1>2. /\ UNCHANGED <<program, slot, allocated, registry, running, frame, users, vm, crashed, spec, err>>
        /\ running /\ ready # <<>> /\ ready' = Tail(ready)
        /\ heap' = [heap EXCEPT ![c].state = "Waiting"]
    BY <1>1 DEF RunCoroutine, storage
  <1>3. DOMAIN heap = Ids /\ vm = "alive"
    BY <1>2 DEF HostInv, HeapOK, RootsOK
  <1>4. \A i \in Ids : i # c => heap'[i] = heap[i]
    BY <1>2, <1>3
  <1>5. /\ c \in Ids /\ heap[c].type = "Coroutine" /\ heap[c].state = "Started"
        /\ ReadyOK(heap', ready')
    BY <1>1, <1>2, <1>4, Dequeued
  <1>6. HeapOK' /\ SlotsOK' /\ UsersOK' /\ Keeps(heap, heap', Ids)
    BY <1>2, <1>5, StateSet
  <1>7. crashed' \in BOOLEAN /\ err' \in Codes
    BY <1>2 DEF HostInv, RootsOK
  <1>8. program' = program /\ registry' = registry /\ running' = running /\ vm' = vm /\ frame' = frame
    BY <1>2
  <1>9. RootsOK'
    BY <1>3, <1>5, <1>6, <1>7, <1>8, RootsStep
  <1> QED BY <1>6, <1>9 DEF HostInv

\* What the invariant says of a native object and of its userdata.
LEMMA NativeUser ==
    ASSUME HostInv, NEW i \in Natives
    PROVE  /\ i \in Ids /\ heap[i].userdata \in Users /\ heap[i].cleanup \in BOOLEAN
           /\ heap[i] = [type |-> "NativeObject", userdata |-> heap[i].userdata, cleanup |-> heap[i].cleanup]
           /\ User(i) = users[heap[i].userdata]
  <1>1. i \in Ids /\ NativeOK(heap[i])
    BY ObjectKinds DEF Natives, HostInv, HeapOK
  <1> QED BY <1>1 DEF NativeOK, User

\* A record about a userdata.
LEMMA UserMade ==
    ASSUME NEW registered \in BOOLEAN, NEW cleanup \in BOOLEAN, cleanup => registered,
           NEW called \in {0, 1}, NEW cleaned \in {0, 1}, cleaned = 1 => cleanup
    PROVE  UserOK([registered |-> registered, cleanup |-> cleanup, called |-> called, cleaned |-> cleaned])
  <1>1. PICK user : user = [registered |-> registered, cleanup |-> cleanup, called |-> called, cleaned |-> cleaned]
    OBVIOUS
  <1>2. /\ user.registered = registered /\ user.cleanup = cleanup /\ user.called = called /\ user.cleaned = cleaned
        /\ user = [registered |-> user.registered, cleanup |-> user.cleanup,
                   called |-> user.called, cleaned |-> user.cleaned]
    BY <1>1
  <1>3. UserOK(user)
    BY <1>2, Zenon DEF UserOK
  <1> QED BY <1>1, <1>3

\* The end of a coroutine is recorded about a userdata.
LEMMA UserCalled ==
    ASSUME NEW t, DOMAIN t = Users, NEW x \in Users, UserOK(t[x]), t[x].called = 0, t[x].cleaned = 0
    PROVE  LET after == [t EXCEPT ![x].called = @ + 1]
           IN  /\ DOMAIN after = Users /\ \A v \in Users : v # x => after[v] = t[v]
               /\ after[x].registered = t[x].registered /\ after[x].cleanup = t[x].cleanup
               /\ after[x].called = 1 /\ after[x].cleaned = 0
               /\ UserOK(after[x])
  <1>1. PICK r, k : r = t[x].registered /\ k = t[x].cleanup
    OBVIOUS
  <1>2. /\ r \in BOOLEAN /\ k \in BOOLEAN /\ (k => r)
        /\ t[x] = [registered |-> r, cleanup |-> k, called |-> 0, cleaned |-> 0]
    <2>1. t[x] = [registered |-> t[x].registered, cleanup |-> t[x].cleanup,
                  called |-> t[x].called, cleaned |-> t[x].cleaned]
      BY DEF UserOK
    <2>2. /\ t[x].registered \in BOOLEAN /\ t[x].cleanup \in BOOLEAN
          /\ t[x].cleanup => t[x].registered
      BY DEF UserOK
    <2> QED BY <1>1, <2>1, <2>2
  <1>3. PICK after : after = [t EXCEPT ![x] = [registered |-> r, cleanup |-> k, called |-> 1, cleaned |-> 0]]
    OBVIOUS
  <1>4. [t EXCEPT ![x].called = @ + 1] = after
    <2>1. [t EXCEPT ![x].called = @ + 1] = [t EXCEPT ![x] = [t[x] EXCEPT !.called = t[x].called + 1]]
      OBVIOUS
    <2>2. PICK user : user = t[x]
      OBVIOUS
    <2>3. user = [registered |-> r, cleanup |-> k, called |-> 0, cleaned |-> 0]
      BY <1>2, <2>2, Zenon
    <2>4. user.called + 1 = 1
      BY <2>2
    <2>5. PICK one : one = 1
      OBVIOUS
    <2>6. [user EXCEPT !.called = one] = [registered |-> r, cleanup |-> k, called |-> one, cleaned |-> 0]
      BY <2>3
    <2>7. [t[x] EXCEPT !.called = t[x].called + 1]
            = [registered |-> r, cleanup |-> k, called |-> 1, cleaned |-> 0]
      BY <2>2, <2>4, <2>5, <2>6, Zenon
    <2> QED BY <1>3, <2>1, <2>7, Zenon
  <1>5. /\ DOMAIN after = Users /\ \A v \in Users : v # x => after[v] = t[v]
        /\ after[x] = [registered |-> r, cleanup |-> k, called |-> 1, cleaned |-> 0]
    BY <1>3
  <1>6. /\ after[x].registered = r /\ after[x].cleanup = k /\ after[x].called = 1 /\ after[x].cleaned = 0
    BY <1>5
  <1>7. UserOK(after[x])
    <2>1. UserOK([registered |-> r, cleanup |-> k, called |-> 1, cleaned |-> 0])
      BY <1>2, UserMade
    <2> QED BY <1>5, <2>1
  <1> QED BY <1>1, <1>4, <1>5, <1>6, <1>7

\* The callback of a coroutine that completes is called, and is not due any more.
LEMMA CallbackCalled ==
    ASSUME HostInv, NEW c \in Ids, heap[c].type = "Coroutine", heap[c].state # "Done",
           heap'[c].type = "Coroutine", heap'[c].state = "Done",
           heap'[c].native_callback = heap[c].native_callback,
           \A i \in Ids : i # c => heap'[i] = heap[i],
           NEW callback, callback = heap[c].native_callback, callback # NoObject,
           frame' = [coroutine |-> c, callback |-> callback],
           users' = [users EXCEPT ![heap[callback].userdata].called = @ + 1]
    PROVE  UsersOK'
  <1> DEFINE u == heap[callback].userdata
  <1>1. callback \in Natives /\ c \notin Natives
    BY CoroutineIs DEF Natives
  <1>2. callback \in Due
    BY <1>1 DEF Due
  <1>3. /\ callback \in Ids /\ u \in Users /\ User(callback) = users[u]
    BY <1>1, NativeUser
  <1>4. users[u].called = 0 /\ users[u].cleaned = 0
    BY <1>2, <1>3 DEF HostInv, UsersOK
  <1>5. Natives' = Natives /\ \A i \in Natives : heap'[i] = heap[i]
    BY <1>1 DEF Natives
  <1>6. PICK x : x = u
    OBVIOUS
  <1>7. DOMAIN users = Users /\ \A v \in Users : UserOK(users[v])
    BY DEF HostInv, UsersOK
  <1> HIDE DEF u
  <1>8. x \in Users /\ users[x].called = 0 /\ users[x].cleaned = 0
    BY <1>3, <1>4, <1>6
  <1>9. /\ DOMAIN users' = Users /\ \A v \in Users : v # x => users'[v] = users[v]
        /\ users'[x].registered = users[x].registered /\ users'[x].cleanup = users[x].cleanup
        /\ users'[x].called = 1 /\ users'[x].cleaned = 0 /\ UserOK(users'[x])
    <2>1. users' = [users EXCEPT ![x].called = @ + 1]
      BY <1>6 DEF u
    <2>2. UserOK(users[x])
      BY <1>7, <1>8
    <2>3. PICK t : t = users
      OBVIOUS
    <2>4. PICK after : after = users'
      OBVIOUS
    <2>5. DOMAIN t = Users /\ UserOK(t[x]) /\ t[x].called = 0 /\ t[x].cleaned = 0
      BY <1>7, <1>8, <2>2, <2>3, Zenon
    <2>6. after = [t EXCEPT ![x].called = @ + 1]
      BY <2>1, <2>3, <2>4, Zenon
    <2>7. /\ DOMAIN after = Users /\ \A v \in Users : v # x => after[v] = t[v]
          /\ after[x].registered = t[x].registered /\ after[x].cleanup = t[x].cleanup
          /\ after[x].called = 1 /\ after[x].cleaned = 0 /\ UserOK(after[x])
      BY <1>8, <2>5, <2>6, UserCalled, Zenon
    <2> QED BY <2>3, <2>4, <2>7, Zenon
  <1>10. \A v \in Users : UserOK(users'[v])
    BY <1>7, <1>9
  <1>11. \A v \in Users : users'[v].cleanup /\ users'[v].cleaned = 0 =>
            \E i \in Natives' : heap'[i].userdata = v /\ heap'[i].cleanup
    <2> SUFFICES ASSUME NEW v \in Users, users'[v].cleanup, users'[v].cleaned = 0
                 PROVE  \E i \in Natives' : heap'[i].userdata = v /\ heap'[i].cleanup
      OBVIOUS
    <2>1. users[v].cleanup /\ users[v].cleaned = 0
      BY <1>8, <1>9
    <2>2. \E i \in Natives : heap[i].userdata = v /\ heap[i].cleanup
      BY <2>1 DEF HostInv, UsersOK
    <2> QED BY <1>5, <2>2
  <1>12. \A i \in Natives : heap[i].userdata \in Users /\ User(i) = users[heap[i].userdata]
    BY NativeUser
  <1>13. \A i \in Natives : users[heap[i].userdata].registered
            /\ (heap[i].cleanup => users[heap[i].userdata].cleanup /\ users[heap[i].userdata].cleaned = 0)
    BY <1>12 DEF HostInv, UsersOK
  <1>14. ASSUME NEW i \in Natives
         PROVE  /\ users'[heap[i].userdata].registered
                /\ heap[i].cleanup => users'[heap[i].userdata].cleanup /\ users'[heap[i].userdata].cleaned = 0
    <2>1. PICK v \in Users : v = heap[i].userdata
      BY <1>12
    <2>2. users'[v] = users[v] \/ v = x
      BY <1>9
    <2>3. users[v].registered /\ (heap[i].cleanup => users[v].cleanup /\ users[v].cleaned = 0)
      BY <1>13, <2>1
    <2>4. users'[v].registered /\ (heap[i].cleanup => users'[v].cleanup /\ users'[v].cleaned = 0)
      BY <1>9, <2>2, <2>3
    <2> QED BY <2>1, <2>4
  <1>15. \A i, j \in Natives : heap[i].userdata = heap[j].userdata => i = j
    BY DEF HostInv, UsersOK
  <1>16. Due' \subseteq Due \ {callback}
    <2> SUFFICES ASSUME NEW i \in Due'
                 PROVE  i \in Due /\ i # callback
      OBVIOUS
    <2>1. i \in Natives
      BY <1>5 DEF Due
    <2>2. PICK d \in Ids : heap'[d].type = "Coroutine" /\ heap'[d].state # "Done" /\ heap'[d].native_callback = i
      BY DEF Due
    <2>3. d # c /\ heap'[d] = heap[d]
      BY <2>2
    <2>4. i \in Due
      BY <2>1, <2>2, <2>3 DEF Due
    <2>5. i # callback
      <3> SUFFICES ASSUME i = callback
                   PROVE  FALSE
        OBVIOUS
      <3>1. /\ heap[d].type = "Coroutine" /\ heap[c].type = "Coroutine"
            /\ heap[d].native_callback = heap[c].native_callback /\ heap[d].native_callback # NoObject
        BY <2>2, <2>3
      <3>2. d = c
        BY <3>1 DEF HostInv, UsersOK
      <3> QED BY <2>3, <3>2
    <2> QED BY <2>4, <2>5
  <1>17. ASSUME NEW i \in Due'
         PROVE  users'[heap[i].userdata].called = 0 /\ users'[heap[i].userdata].cleaned = 0
    <2>1. i \in Due /\ i \in Natives /\ i # callback
      BY <1>16 DEF Due
    <2>2. heap[i].userdata # x
      BY <1>1, <1>6, <1>15, <2>1 DEF u
    <2>3. User(i).called = 0 /\ User(i).cleaned = 0
      BY <2>1 DEF HostInv, UsersOK
    <2>4. PICK v \in Users : v = heap[i].userdata /\ v # x
      BY <1>12, <2>1, <2>2
    <2>5. users'[v] = users[v] /\ users[v] = User(i)
      BY <1>9, <1>12, <2>1, <2>4
    <2> QED BY <2>3, <2>4, <2>5
  <1>18. \A d, e \in Ids :
            /\ heap'[d].type = "Coroutine" /\ heap'[e].type = "Coroutine"
            /\ heap'[d].native_callback = heap'[e].native_callback /\ heap'[d].native_callback # NoObject
            => d = e
    <2>1. \A d \in Ids : heap'[d].type = heap[d].type /\ (heap[d].type = "Coroutine" => heap'[d].native_callback = heap[d].native_callback)
      OBVIOUS
    <2> QED BY <2>1 DEF HostInv, UsersOK
  <1>19. frame'.callback = callback /\ users'[heap[callback].userdata].called = 1
          /\ users'[heap[callback].userdata].cleaned = 0
    BY <1>6, <1>9 DEF u
  <1>20. Due' \subseteq Natives
    BY <1>5 DEF Due
  <1>21. \A i \in Natives : User(i)' = users'[heap[i].userdata]
    BY <1>5 DEF User
  <1>22. \A i \in Natives' :
            /\ User(i)'.registered
            /\ heap'[i].cleanup => User(i)'.cleanup /\ User(i)'.cleaned = 0
    BY <1>5, <1>14, <1>21
  <1>23. \A i \in Due' : User(i)'.called = 0 /\ User(i)'.cleaned = 0
    BY <1>17, <1>20, <1>21
  <1>24. User(frame.callback)'.called = 1 /\ User(frame.callback)'.cleaned = 0
    <2>1. User(frame.callback)' = users'[heap'[callback].userdata] /\ heap'[callback] = heap[callback]
      BY <1>1, <1>5, <1>19 DEF User
    <2> QED BY <1>19, <2>1
  <1>25. \A i, j \in Natives' : heap'[i].userdata = heap'[j].userdata => i = j
    BY <1>5, <1>15
  <1>26. DOMAIN users' = Users
    BY <1>9
  <1>27. frame'.callback = callback
    BY <1>19
  <1> QED
    <2> HIDE DEF Natives, Due, User, UserOK, u
    <2> QED BY <1>10, <1>11, <1>18, <1>22, <1>23, <1>24, <1>25, <1>26 DEF UsersOK

\* The first ready coroutine runs and completes, which makes its callback run.
LEMMA CoroutineCompletes ==
    ASSUME HostInv, RunCoroutine(TRUE)
    PROVE  HostInv'
  <1>1. PICK c : c = Head(ready)
    OBVIOUS
  <1>2. PICK callback : callback = heap[c].native_callback
    OBVIOUS
  <1>3. /\ UNCHANGED <<program, slot, allocated, registry, running, vm, crashed, spec, err>>
        /\ running /\ frame = NoFrame /\ ready # <<>> /\ ready' = Tail(ready)
        /\ heap' = [heap EXCEPT ![c].state = "Done", ![c].result = heap[c].arguments]
        /\ execute_callbacks(c, callback)
    BY <1>1, <1>2 DEF RunCoroutine, storage
  <1>4. DOMAIN heap = Ids /\ vm = "alive"
    BY <1>3 DEF HostInv, HeapOK, RootsOK
  <1>5. \A i \in Ids : i # c => heap'[i] = heap[i]
    BY <1>3, <1>4
  <1>6. c \in Ids /\ heap[c].type = "Coroutine" /\ heap[c].state = "Started" /\ ReadyOK(heap', ready')
    BY <1>1, <1>3, <1>5, Dequeued
  <1>7. PICK o : o = heap[c]
    OBVIOUS
  <1>8. CoroutineOK(heap, o)
    BY <1>6, <1>7, CoroutineIs
  <1>9. PICK n : n = [type |-> "Coroutine", state |-> "Done", arguments |-> o.arguments,
                      native_callback |-> o.native_callback, result |-> o.arguments]
    OBVIOUS
  <1>10. heap'[c] = n /\ DOMAIN heap' = Ids
    <2>1. o = [type |-> "Coroutine", state |-> o.state, arguments |-> o.arguments,
               native_callback |-> o.native_callback, result |-> o.result]
      BY <1>8 DEF CoroutineOK
    <2>2. heap' = [heap EXCEPT ![c] = [o EXCEPT !.state = "Done", !.result = o.arguments]]
      BY <1>3, <1>4, <1>6, <1>7
    <2>3. [o EXCEPT !.state = "Done", !.result = o.arguments] = n
      <3>1. PICK a, b, r, s : a = o.arguments /\ b = o.native_callback /\ r = o.result /\ s = o.state
        OBVIOUS
      <3>2. o = [type |-> "Coroutine", state |-> s, arguments |-> a, native_callback |-> b, result |-> r]
        BY <2>1, <3>1, Zenon
      <3>3. n = [type |-> "Coroutine", state |-> "Done", arguments |-> a, native_callback |-> b, result |-> a]
        BY <1>9, <3>1
      <3>4. PICK m : m = [o EXCEPT !.state = "Done"]
        OBVIOUS
      <3>5. m = [type |-> "Coroutine", state |-> "Done", arguments |-> a, native_callback |-> b, result |-> r]
        BY <3>2, <3>4
      <3>6. [m EXCEPT !.result = a] = n
        BY <3>3, <3>5
      <3>7. [o EXCEPT !.state = "Done", !.result = a] = [m EXCEPT !.result = a]
        BY <3>4
      <3> QED BY <3>1, <3>6, <3>7
    <2>4. heap' = [heap EXCEPT ![c] = n]
      BY <2>2, <2>3
    <2> QED BY <1>4, <1>6, <2>4
  <1>11. ObjectOK(heap, n) /\ n.type = "Coroutine"
    <2>1. IsValue(heap, o.arguments)
      BY <1>8 DEF CoroutineOK
    <2> QED BY <1>8, <1>9, <2>1, CoroutineSet
  <1>12. Keeps(heap, heap', Ids) /\ HeapOK' /\ SlotsOK'
    BY <1>3, <1>5, <1>6, <1>10, <1>11, TypesKept
  <1>13. n.native_callback = callback /\ n.state = "Done"
    BY <1>2, <1>7, <1>9
  <1>14. UsersOK'
    <2>1. CASE callback = NoObject
      <3>1. UNCHANGED <<users, frame>>
        BY <1>3, <2>1 DEF execute_callbacks
      <3> QED BY <1>2, <1>5, <1>6, <1>10, <1>11, <1>13, <3>1, CallbacksKept
    <2>2. CASE callback # NoObject
      <3>1. /\ frame' = [coroutine |-> c, callback |-> callback]
            /\ users' = [users EXCEPT ![heap[callback].userdata].called = @ + 1]
        BY <1>3, <2>2 DEF execute_callbacks
      <3>2. heap[c].state # "Done" /\ heap'[c].type = "Coroutine" /\ heap'[c].state = "Done"
            /\ heap'[c].native_callback = callback
        BY <1>6, <1>10, <1>11, <1>13
      <3> QED BY <1>2, <1>5, <1>6, <2>2, <3>1, <3>2, CallbackCalled
    <2> QED BY <2>1, <2>2
  <1>15. \/ frame' = frame
         \/ /\ running /\ frame'.coroutine \in Live(heap') /\ frame'.callback \in Ids
            /\ heap'[frame'.callback].type = "NativeObject"
    <2>1. CASE callback = NoObject
      BY <1>3, <2>1 DEF execute_callbacks
    <2>2. CASE callback # NoObject
      <3>1. frame' = [coroutine |-> c, callback |-> callback]
        BY <1>3, <2>2 DEF execute_callbacks
      <3>2. callback \in Ids /\ heap[callback].type = "NativeObject"
        BY <1>2, <1>6, <2>2, CoroutineIs DEF Natives
      <3>3. callback # c
        BY <1>6, <3>2
      <3>4. c \in Live(heap')
        BY <1>6, <1>10, <1>11 DEF Live
      <3> QED BY <1>3, <1>5, <3>1, <3>2, <3>3, <3>4
    <2> QED BY <2>1, <2>2
  <1>16. crashed' \in BOOLEAN /\ err' \in Codes
    BY <1>3 DEF HostInv, RootsOK
  <1>17. program' = program /\ registry' = registry /\ running' = running /\ vm' = vm
    BY <1>3
  <1>18. RootsOK'
    BY <1>4, <1>6, <1>12, <1>15, <1>16, <1>17, RootsStep
  <1> QED BY <1>12, <1>14, <1>18 DEF HostInv

\* The userdata of two native objects, one of whose records has changed.
LEMMA OtherUser ==
    ASSUME HostInv, NEW i \in Natives, NEW j \in Natives, i # j
    PROVE  heap[i].userdata # heap[j].userdata
  BY DEF HostInv, UsersOK

\* A callback returns, and its userdata is cleaned up.
LEMMA CallbackDone ==
    ASSUME HostInv, CallbackReturns
    PROVE  HostInv'
  <1>1. PICK callback : callback = frame.callback
    OBVIOUS
  <1>2. PICK o : o = heap[callback]
    OBVIOUS
  <1>3. PICK x : x = o.userdata
    OBVIOUS
  <1>4. /\ UNCHANGED <<program, slot, allocated, registry, ready, running, vm, crashed, spec, err>>
        /\ frame # NoFrame /\ frame' = NoFrame
        /\ users' = IF o.cleanup THEN [users EXCEPT ![x].cleaned = @ + 1] ELSE users
        /\ heap' = [heap EXCEPT ![callback].cleanup = FALSE]
    BY <1>1, <1>2, <1>3 DEF CallbackReturns, storage
  <1>5. callback \in Natives /\ running
    BY <1>1, <1>4 DEF HostInv, RootsOK, Natives
  <1>6. /\ callback \in Ids /\ x \in Users /\ o.cleanup \in BOOLEAN /\ o.type = "NativeObject"
        /\ o = [type |-> "NativeObject", userdata |-> x, cleanup |-> o.cleanup]
        /\ User(callback) = users[x]
    BY <1>2, <1>3, <1>5, NativeUser DEF Natives
  <1>7. PICK n : n = [type |-> "NativeObject", userdata |-> x, cleanup |-> FALSE]
    OBVIOUS
  <1>8. DOMAIN heap = Ids
    BY DEF HostInv, HeapOK
  <1>9. heap'[callback] = n /\ DOMAIN heap' = Ids /\ \A i \in Ids : i # callback => heap'[i] = heap[i]
    <2>1. heap' = [heap EXCEPT ![callback] = [o EXCEPT !.cleanup = FALSE]]
      BY <1>2, <1>4, <1>6, <1>8
    <2>2. [o EXCEPT !.cleanup = FALSE] = n
      <3>1. PICK d : d = o.cleanup
        OBVIOUS
      <3>2. o = [type |-> "NativeObject", userdata |-> x, cleanup |-> d]
        BY <1>6, <3>1, Zenon
      <3>3. PICK f : f = FALSE
        OBVIOUS
      <3>4. [o EXCEPT !.cleanup = f] = [type |-> "NativeObject", userdata |-> x, cleanup |-> f]
        BY <3>2
      <3> QED BY <1>7, <3>3, <3>4, Zenon
    <2>3. heap' = [heap EXCEPT ![callback] = n]
      BY <2>1, <2>2
    <2> QED BY <1>6, <1>8, <2>3
  <1>10. n.type = "NativeObject" /\ n.userdata = x /\ n.cleanup = FALSE
    BY <1>7
  <1>11. ObjectOK(heap, n)
    <2>1. NativeOK(n)
      BY <1>6, <1>7, <1>10 DEF NativeOK
    <2> QED BY <2>1 DEF ObjectOK
  <1>12. Keeps(heap, heap', Ids) /\ HeapOK' /\ SlotsOK'
    BY <1>2, <1>4, <1>6, <1>9, <1>10, <1>11, TypesKept
  <1>13. vm = "alive"
    BY <1>5 DEF HostInv, RootsOK
  <1>14. ReadyOK(heap', ready')
    <2>1. ReadyOK(heap, ready)
      BY DEF HostInv, RootsOK
    <2>2. \A k \in DOMAIN ready : ready[k] \in Ids
      BY <2>1 DEF ReadyOK
    <2>3. \A k \in DOMAIN ready : heap'[ready[k]] = heap[ready[k]]
      BY <1>2, <1>6, <1>9, <2>1, <2>2 DEF ReadyOK
    <2>4. ready' = ready
      BY <1>4
    <2> QED BY <2>1, <2>3, <2>4 DEF ReadyOK
  <1>15. crashed' \in BOOLEAN /\ err' \in Codes
    BY <1>4 DEF HostInv, RootsOK
  <1>16. program' = program /\ registry' = registry /\ running' = running /\ vm' = vm /\ frame' = NoFrame
    BY <1>4
  <1>17. RootsOK'
    BY <1>12, <1>13, <1>14, <1>15, <1>16, RootsStep
  <1>18. users[x].called = 1 /\ users[x].cleaned = 0
    BY <1>1, <1>4, <1>6 DEF HostInv, UsersOK
  <1>19. DOMAIN users = Users /\ \A v \in Users : UserOK(users[v])
    BY DEF HostInv, UsersOK
  <1>20. o.cleanup => users[x].cleanup
    BY <1>2, <1>5, <1>6 DEF HostInv, UsersOK
  <1>21. PICK d : d = IF o.cleanup THEN 1 ELSE 0
    OBVIOUS
  <1>22. users[x] = [registered |-> users[x].registered, cleanup |-> users[x].cleanup, called |-> 1, cleaned |-> 0]
    BY <1>6, <1>18, <1>19 DEF UserOK
  <1>23. /\ DOMAIN users' = Users /\ \A v \in Users : v # x => users'[v] = users[v]
         /\ users'[x] = [registered |-> users[x].registered, cleanup |-> users[x].cleanup, called |-> 1, cleaned |-> d]
    <2>1. CASE o.cleanup
      <3>1. users' = [users EXCEPT ![x] = [users[x] EXCEPT !.cleaned = users[x].cleaned + 1]]
        BY <1>4, <1>6, <1>19, <2>1
      <3>2. users[x].cleaned + 1 = 1 /\ d = 1
        BY <1>18, <1>21, <2>1
      <3> QED BY <1>6, <1>19, <1>22, <3>1, <3>2
    <2>2. CASE ~o.cleanup
      BY <1>4, <1>19, <1>21, <1>22, <2>2
    <2> QED BY <2>1, <2>2
  <1>24. /\ users'[x].registered = users[x].registered /\ users'[x].cleanup = users[x].cleanup
         /\ users'[x].called = 1 /\ users'[x].cleaned = d
    BY <1>23
  <1>25. \A v \in Users : UserOK(users'[v])
    <2>1. /\ users[x].registered \in BOOLEAN /\ users[x].cleanup \in BOOLEAN
          /\ users[x].cleanup => users[x].registered
      BY <1>6, <1>19 DEF UserOK
    <2>2. d \in {0, 1} /\ (d = 1 => users[x].cleanup) /\ 1 \in {0, 1}
      BY <1>20, <1>21
    <2>3. PICK a : a = users[x].registered
      OBVIOUS
    <2>4. PICK b : b = users[x].cleanup
      OBVIOUS
    <2>5. UserOK([registered |-> a, cleanup |-> b, called |-> 1, cleaned |-> d])
      BY <2>1, <2>2, <2>3, <2>4, UserMade
    <2>6. UserOK(users'[x])
      BY <1>23, <2>3, <2>4, <2>5
    <2>7. \A v \in Users : v = x \/ users'[v] = users[v]
      BY <1>23
    <2> QED BY <1>19, <2>6, <2>7
  <1>26. /\ Natives' = Natives
         /\ \A i \in Natives : heap'[i].userdata = heap[i].userdata /\ (i # callback => heap'[i] = heap[i])
    BY <1>2, <1>3, <1>5, <1>6, <1>9, <1>10 DEF Natives
  <1>27. \A i \in Natives : i # callback => heap[i].userdata # x /\ heap[i].userdata \in Users
                                            /\ User(i) = users[heap[i].userdata]
    BY <1>2, <1>3, <1>5, OtherUser, NativeUser
  <1>28. \A i \in Natives : i # callback => User(i)' = User(i)
    BY <1>23, <1>26, <1>27 DEF User
  <1>29. User(callback)' = users'[x]
    BY <1>5, <1>9, <1>10 DEF User
  <1>30. ASSUME NEW v \in Users, users'[v].cleanup, users'[v].cleaned = 0
         PROVE  \E i \in Natives' : heap'[i].userdata = v /\ heap'[i].cleanup
    <2>1. CASE v = x
      <3>1. ~o.cleanup /\ users[x].cleanup
        BY <1>21, <1>24, <1>30, <2>1
      <3>2. PICK i \in Natives : heap[i].userdata = x /\ heap[i].cleanup
        BY <1>6, <1>18, <3>1 DEF HostInv, UsersOK
      <3>3. i = callback
        BY <1>27, <3>2
      <3> QED BY <1>2, <3>1, <3>2, <3>3
    <2>2. CASE v # x
      <3>1. users[v].cleanup /\ users[v].cleaned = 0
        BY <1>23, <1>30, <2>2
      <3>2. PICK i \in Natives : heap[i].userdata = v /\ heap[i].cleanup
        BY <3>1 DEF HostInv, UsersOK
      <3>3. i # callback
        BY <1>2, <1>3, <2>2, <3>2
      <3> QED BY <1>26, <3>2, <3>3
    <2> QED BY <2>1, <2>2
  <1>31. ASSUME NEW i \in Natives
         PROVE  User(i)'.registered /\ (heap'[i].cleanup => User(i)'.cleanup /\ User(i)'.cleaned = 0)
    <2>1. User(i).registered /\ (heap[i].cleanup => User(i).cleanup /\ User(i).cleaned = 0)
      BY DEF HostInv, UsersOK
    <2>2. CASE i = callback
      <3>1. User(i)' = users'[x] /\ User(i) = users[x] /\ ~heap'[i].cleanup
        BY <1>6, <1>9, <1>10, <1>29, <2>2
      <3> QED BY <1>24, <2>1, <3>1
    <2>3. CASE i # callback
      <3>1. User(i)' = User(i) /\ heap'[i] = heap[i]
        BY <1>26, <1>28, <2>3
      <3> QED BY <2>1, <3>1
    <2> QED BY <2>2, <2>3
  <1>32. \A i, j \in Natives' : heap'[i].userdata = heap'[j].userdata => i = j
    BY <1>26, OtherUser
  <1>33. Due' = Due /\ Due \subseteq Natives
    <2>1. \A d2 \in Ids : heap'[d2].type = "Coroutine" <=> heap[d2].type = "Coroutine"
      BY <1>2, <1>6, <1>9, <1>10
    <2>2. \A d2 \in Ids : heap[d2].type = "Coroutine" => heap'[d2] = heap[d2]
      BY <1>2, <1>6, <1>9
    <2> QED BY <1>26, <2>1, <2>2 DEF Due
  <1>34. ASSUME NEW i \in Due
         PROVE  User(i)'.called = 0 /\ User(i)'.cleaned = 0
    <2>1. i \in Natives /\ User(i).called = 0 /\ User(i).cleaned = 0
      BY <1>33 DEF HostInv, UsersOK
    <2>2. i # callback
      <3>1. 0 # 1
        OBVIOUS
      <3> QED BY <1>6, <1>18, <2>1, <3>1
    <2> QED BY <1>28, <2>1, <2>2
  <1>35. ASSUME NEW c \in Ids, NEW e \in Ids, heap'[c].type = "Coroutine", heap'[e].type = "Coroutine",
                heap'[c].native_callback = heap'[e].native_callback, heap'[c].native_callback # NoObject
         PROVE  c = e
    <2>1. heap'[c] = heap[c] /\ heap'[e] = heap[e]
      BY <1>9, <1>10, <1>35
    <2> QED BY <1>35, <2>1 DEF HostInv, UsersOK
  <1>36. \A i \in Natives' :
            User(i)'.registered /\ (heap'[i].cleanup => User(i)'.cleanup /\ User(i)'.cleaned = 0)
    BY <1>26, <1>31
  <1>37. \A i \in Due' : User(i)'.called = 0 /\ User(i)'.cleaned = 0
    BY <1>33, <1>34
  <1>38. frame' = NoFrame' /\ DOMAIN users' = Users
    BY <1>4, <1>23 DEF NoFrame
  <1>39. UsersOK'
    BY <1>25, <1>30, <1>32, <1>35, <1>36, <1>37, <1>38 DEF UsersOK, User, UserOK
  <1> QED BY <1>12, <1>17, <1>39 DEF HostInv

-----------------------------------------------------------------------------
(* Steps that register a userdata. *)

\* There is a userdata that is new, and no native object has it.
LEMMA NewUserFree ==
    ASSUME HostInv, UserLeft
    PROVE  /\ NewUser \in Users /\ ~users[NewUser].registered
           /\ \A i \in Natives : heap[i].userdata # NewUser
  <1>1. PICK T : T = {u \in Users : ~users[u].registered}
    OBVIOUS
  <1>2. T \subseteq Nat /\ T # {}
    <2>1. program.users \in 0..MaxUsers /\ MaxUsers \in Nat
      BY HostAssumption DEF HostInv, RootsOK
    <2>2. PICK u \in 1..program.users : ~users[u].registered
      BY DEF UserLeft
    <2>3. u \in Users
      BY <2>1, <2>2 DEF Users
    <2> QED BY <1>1, <2>1, <2>2, <2>3 DEF Users
  <1>3. PICK u \in T : \A v \in T : u <= v
    BY <1>2, LeastNumber
  <1>4. u \in Users /\ ~users[u].registered /\ \A v \in 1..u - 1 : users[v].registered
    <2>1. u \in Users /\ ~users[u].registered
      BY <1>1, <1>3
    <2>2. ASSUME NEW v \in 1..u - 1
          PROVE  users[v].registered
      <3>1. v \in Users /\ ~(u <= v)
        BY <2>1, HostAssumption DEF Users
      <3>2. v \notin T
        BY <1>3, <3>1
      <3> QED BY <1>1, <3>1, <3>2
    <2> QED BY <2>1, <2>2
  <1>5. NewUser \in Users /\ ~users[NewUser].registered
    BY <1>4, Zenon DEF NewUser
  <1>6. ASSUME NEW i \in Natives
        PROVE  heap[i].userdata # NewUser
    <2>1. User(i).registered /\ User(i) = users[heap[i].userdata]
      BY NativeUser DEF HostInv, UsersOK
    <2> QED BY <1>5, <2>1
  <1> QED BY <1>5, <1>6

\* A userdata x is registered, with a native object n or without one.
LEMMA UserRegistered ==
    ASSUME HostInv, NEW x \in Users, \A i \in Natives : heap[i].userdata # x,
           NEW cleanup \in BOOLEAN, NEW cleaned, users' = Registered(x, cleanup, cleaned), frame' = frame,
           NEW n,
           n = NoObject => cleaned = IF cleanup THEN 1 ELSE 0,
           n # NoObject =>
            /\ n \in Ids /\ heap[n].type = "Free" /\ heap'[n].type = "NativeObject"
            /\ heap'[n].userdata = x /\ heap'[n].cleanup = cleanup /\ cleaned = 0,
           \A i \in Ids : i # n => (heap'[i].type = "NativeObject" <=> heap[i].type = "NativeObject"),
           \A i \in Natives : heap'[i] = heap[i],
           \A c \in Ids : heap'[c].type = "Coroutine" =>
            \/ heap'[c].native_callback = NoObject
            \/ heap'[c].native_callback = n
            \/ /\ heap[c].type = "Coroutine" /\ heap'[c].native_callback = heap[c].native_callback
               /\ heap'[c].state = heap[c].state,
           \A c, d \in Ids :
            /\ heap'[c].type = "Coroutine" /\ heap'[d].type = "Coroutine"
            /\ heap'[c].native_callback = n /\ heap'[d].native_callback = n /\ n # NoObject
            => c = d
    PROVE  UsersOK'
  <1>1. DOMAIN users = Users /\ \A v \in Users : UserOK(users[v])
    BY DEF HostInv, UsersOK
  <1>2. /\ DOMAIN users' = Users /\ \A v \in Users : v # x => users'[v] = users[v]
        /\ users'[x] = [registered |-> TRUE, cleanup |-> cleanup, called |-> 0, cleaned |-> cleaned]
    BY <1>1 DEF Registered
  <1>3. cleaned \in {0, 1} /\ (cleaned = 1 => cleanup) /\ (n # NoObject => cleaned = 0)
    OBVIOUS
  <1>4. users'[x].registered /\ users'[x].cleanup = cleanup /\ users'[x].called = 0 /\ users'[x].cleaned = cleaned
    <2>1. users'[x].called = 0 /\ users'[x].cleaned = cleaned
      BY <1>2
    <2>2. PICK t \in BOOLEAN : t = TRUE
      OBVIOUS
    <2>3. users'[x] = [registered |-> t, cleanup |-> cleanup, called |-> 0, cleaned |-> cleaned]
      BY <1>2, <2>2, Zenon
    <2>4. users'[x].registered = t /\ users'[x].cleanup = cleanup
      BY <2>3
    <2> QED BY <2>1, <2>2, <2>4
  <1>5. \A v \in Users : UserOK(users'[v])
    <2>1. PICK t \in BOOLEAN : t
      OBVIOUS
    <2>2. UserOK([registered |-> t, cleanup |-> cleanup, called |-> 0, cleaned |-> cleaned])
      <3>1. 0 \in {0, 1}
        OBVIOUS
      <3> QED BY <1>3, <2>1, <3>1, UserMade
    <2>3. t = TRUE
      BY <2>1
    <2>4. UserOK(users'[x])
      BY <1>2, <2>2, <2>3, Zenon
    <2>5. \A v \in Users : v = x \/ users'[v] = users[v]
      BY <1>2
    <2> QED BY <1>1, <2>4, <2>5
  <1>6. n # NoObject => n \notin Natives
    BY DEF Natives
  <1>7. \A i \in Natives' : i \in Natives \/ (i = n /\ n # NoObject)
    <2>1. Natives' \subseteq Ids
      BY DEF Natives
    <2>2. \A i \in Natives' : heap'[i].type = "NativeObject"
      BY DEF Natives
    <2>3. NoObject \notin Ids
      BY IdFacts
    <2> QED BY <2>1, <2>2, <2>3 DEF Natives
  <1>8. Natives \subseteq Natives' /\ (n # NoObject => n \in Natives')
    BY DEF Natives
  <1>9. \A i \in Natives : heap[i].userdata \in Users /\ User(i) = users[heap[i].userdata]
    BY NativeUser
  <1>10. \A i \in Natives : users'[heap[i].userdata] = users[heap[i].userdata]
    BY <1>2, <1>9
  <1>11. \A i \in Natives : User(i)' = User(i)
    BY <1>9, <1>10 DEF User
  <1>12. n # NoObject => User(n)' = users'[x]
    BY DEF User
  <1>13. ASSUME NEW v \in Users, users'[v].cleanup, users'[v].cleaned = 0
         PROVE  \E i \in Natives' : heap'[i].userdata = v /\ heap'[i].cleanup
    <2>1. CASE v = x
      <3>1. cleanup /\ cleaned = 0
        BY <1>4, <1>13, <2>1
      <3>2. n # NoObject
        BY <3>1
      <3>3. n \in Natives' /\ heap'[n].userdata = v /\ heap'[n].cleanup
        BY <1>8, <2>1, <3>1, <3>2
      <3> QED BY <3>3
    <2>2. CASE v # x
      <3>1. users[v].cleanup /\ users[v].cleaned = 0
        BY <1>2, <1>13, <2>2
      <3>2. PICK i \in Natives : heap[i].userdata = v /\ heap[i].cleanup
        BY <3>1 DEF HostInv, UsersOK
      <3> QED BY <1>8, <3>2
    <2> QED BY <2>1, <2>2
  <1>14. ASSUME NEW i \in Natives'
         PROVE  User(i)'.registered /\ (heap'[i].cleanup => User(i)'.cleanup /\ User(i)'.cleaned = 0)
    <2>1. CASE i \in Natives
      <3>1. User(i).registered /\ (heap[i].cleanup => User(i).cleanup /\ User(i).cleaned = 0)
        BY <2>1 DEF HostInv, UsersOK
      <3> QED BY <1>11, <2>1, <3>1
    <2>2. CASE i = n /\ n # NoObject
      <3>1. User(i)' = users'[x] /\ heap'[i].cleanup = cleanup /\ cleaned = 0
        BY <1>12, <2>2
      <3> QED BY <1>4, <3>1
    <2> QED BY <1>7, <2>1, <2>2
  <1>15. ASSUME NEW i \in Natives', NEW j \in Natives', heap'[i].userdata = heap'[j].userdata
         PROVE  i = j
    <2>1. CASE i \in Natives /\ j \in Natives
      BY <1>15, <2>1 DEF HostInv, UsersOK
    <2>2. CASE i \in Natives /\ j \notin Natives
      BY <1>7, <1>15, <2>2
    <2>3. CASE i \notin Natives /\ j \in Natives
      BY <1>7, <1>15, <2>3
    <2>4. CASE i \notin Natives /\ j \notin Natives
      BY <1>7, <2>4
    <2> QED BY <2>1, <2>2, <2>3, <2>4
  <1>16. \A i \in Due' : i \in Due \/ (i = n /\ n # NoObject)
    <2> SUFFICES ASSUME NEW i \in Due', ~(i = n /\ n # NoObject)
                 PROVE  i \in Due
      OBVIOUS
    <2>1. i \in Natives'
      BY DEF Due
    <2>2. i \in Natives
      BY <1>7, <2>1
    <2>3. PICK c \in Ids : heap'[c].type = "Coroutine" /\ heap'[c].state # "Done" /\ heap'[c].native_callback = i
      BY DEF Due
    <2>4. i # NoObject
      BY <2>2, IdFacts DEF Natives
    <2>5. i # n
      BY <2>4
    <2>6. heap[c].type = "Coroutine" /\ heap[c].native_callback = i /\ heap[c].state # "Done"
      BY <2>3, <2>4, <2>5
    <2> QED BY <2>2, <2>6 DEF Due
  <1>17. ASSUME NEW i \in Due'
         PROVE  User(i)'.called = 0 /\ User(i)'.cleaned = 0
    <2>1. CASE i \in Due
      <3>1. User(i).called = 0 /\ User(i).cleaned = 0 /\ i \in Natives
        BY <2>1 DEF HostInv, UsersOK, Due
      <3> QED BY <1>11, <3>1
    <2>2. CASE i = n /\ n # NoObject
      BY <1>3, <1>4, <1>12, <2>2
    <2> QED BY <1>16, <2>1, <2>2
  <1>18. ASSUME NEW c \in Ids, NEW d \in Ids, heap'[c].type = "Coroutine", heap'[d].type = "Coroutine",
                heap'[c].native_callback = heap'[d].native_callback, heap'[c].native_callback # NoObject
         PROVE  c = d
    <2>1. CASE heap'[c].native_callback = n
      BY <1>18, <2>1
    <2>2. CASE heap'[c].native_callback # n
      <3>1. /\ heap[c].type = "Coroutine" /\ heap[d].type = "Coroutine"
            /\ heap[c].native_callback = heap[d].native_callback /\ heap[c].native_callback # NoObject
        BY <1>18, <2>2
      <3> QED BY <3>1 DEF HostInv, UsersOK
    <2> QED BY <2>1, <2>2
  <1>19. frame # NoFrame => User(frame.callback)'.called = 1 /\ User(frame.callback)'.cleaned = 0
    <2> SUFFICES ASSUME frame # NoFrame
                 PROVE  User(frame.callback)'.called = 1 /\ User(frame.callback)'.cleaned = 0
      OBVIOUS
    <2>1. PICK i : i = frame.callback
      OBVIOUS
    <2>2. i \in Natives /\ User(i).called = 1 /\ User(i).cleaned = 0
      BY <2>1 DEF HostInv, RootsOK, UsersOK, Natives
    <2>3. User(i)' = User(i)
      BY <1>11, <2>2
    <2>4. User(frame.callback)' = users'[heap'[i].userdata] /\ User(i)' = users'[heap'[i].userdata]
      BY <2>1 DEF User
    <2> QED BY <2>2, <2>3, <2>4
  <1>20. frame' = frame /\ NoFrame' = NoFrame
    BY DEF NoFrame
  <1> QED BY <1>2, <1>5, <1>13, <1>14, <1>15, <1>17, <1>18, <1>19, <1>20 DEF UsersOK, User, UserOK

\* The queue when coroutines have not changed their state.
LEMMA ReadyKept ==
    ASSUME HostInv, ready' = ready,
           \A i \in Ids : heap[i].type = "Coroutine" => heap'[i].type = "Coroutine" /\ heap'[i].state = heap[i].state
    PROVE  ReadyOK(heap', ready')
  <1>1. ReadyOK(heap, ready)
    BY DEF HostInv, RootsOK
  <1>2. \A k \in DOMAIN ready : ready[k] \in Ids
    BY <1>1 DEF ReadyOK
  <1> QED BY <1>1, <1>2 DEF ReadyOK

\* Making a native object, or failing to, with a finalizer (tiro_make_native).
LEMMA MakeNative ==
    ASSUME HostInv, NEW r \in Results, tiro_make_native(r)
    PROVE  HostInv'
  <1>1. /\ UNCHANGED <<program, allocated, registry, ready, running, frame, vm, crashed>>
        /\ vm = "alive" /\ UserLeft
        /\ \/ /\ r # NULL /\ FreeIds # {}
              /\ create_object(NativeObject_make(NewUser), <<>>, r)
              /\ users' = Registered(NewUser, TRUE, 0)
              /\ UNCHANGED err
           \/ /\ report_error(IF r = NULL THEN "BAD_ARG" ELSE "ALLOC")
              /\ UNCHANGED <<slot, heap, users, spec>>
    BY DEF tiro_make_native, storage, Uses
  <1>2. err' \in Codes
    <2>1. PICK code : code = IF r = NULL THEN "BAD_ARG" ELSE "ALLOC"
      OBVIOUS
    <2>2. code \in Codes
      BY <2>1 DEF Codes
    <2>3. CASE report_error(code)
      BY <2>2, <2>3, Reports
    <2>4. CASE UNCHANGED err
      BY <2>4 DEF HostInv, RootsOK
    <2> QED BY <1>1, <2>1, <2>3, <2>4
  <1>3. CASE UNCHANGED <<slot, heap, users, spec>>
    <2>1. RootsOK'
      BY <1>1, <1>2, <1>3, SameRoots DEF HostInv, RootsOK
    <2> QED BY <1>1, <1>3, <2>1, Unchanged
  <1>4. CASE /\ r # NULL /\ FreeIds # {}
             /\ create_object(NativeObject_make(NewUser), <<>>, r)
             /\ users' = Registered(NewUser, TRUE, 0)
    <2>1. PICK x : x = NewUser
      OBVIOUS
    <2>2. x \in Users /\ \A i \in Natives : heap[i].userdata # x
      BY <1>1, <2>1, NewUserFree
    <2>3. PICK o : o = NativeObject_make(x)
      OBVIOUS
    <2>4. o = [type |-> "NativeObject", userdata |-> x, cleanup |-> TRUE]
      BY <2>3 DEF NativeObject_make
    <2>5. o.type = "NativeObject" /\ o.userdata = x
      BY <2>4
    <2>6. o.cleanup = TRUE
      BY <2>4, Zenon
    <2>7. ObjectOK(heap, o) /\ View(heap, o) = <<>>
      <3>1. o = [type |-> "NativeObject", userdata |-> o.userdata, cleanup |-> o.cleanup]
        BY <2>4, <2>5, <2>6, Zenon
      <3>2. NativeOK(o)
        BY <2>2, <2>5, <2>6, <3>1 DEF NativeOK
      <3> QED BY <2>5, <3>2 DEF ObjectOK, View
    <2>8. Created(o, <<>>, r)
      <3>1. r \in Handles
        BY <1>4, ResultHandle
      <3> QED BY <1>4, <2>1, <2>3, <2>5, <2>7, <3>1 DEF Created
    <2>9. PICK n : n = NewId
      OBVIOUS
    <2>10. /\ Keeps(heap, heap', Ids) /\ HeapOK' /\ SlotsOK'
           /\ n \in Ids /\ heap[n].type = "Free" /\ heap'[n] = o
           /\ \A j \in Ids : j # n => heap'[j] = heap[j]
      BY <1>1, <2>8, <2>9, CreatedKeeps
    <2>11. UsersOK'
      <3>1. n # NoObject
        BY <2>10, IdFacts
      <3>2. \A i \in Natives : heap'[i] = heap[i]
        BY <2>10 DEF Natives
      <3>3. \A c \in Ids : heap'[c].type = "Coroutine" =>
              /\ heap[c].type = "Coroutine" /\ heap'[c].native_callback = heap[c].native_callback
              /\ heap'[c].state = heap[c].state
        BY <2>5, <2>10
      <3>4. \A c \in Ids : heap'[c].type = "Coroutine" => heap'[c].native_callback # n
        <4> SUFFICES ASSUME NEW c \in Ids, heap'[c].type = "Coroutine", heap'[c].native_callback = n
                     PROVE  FALSE
          OBVIOUS
        <4>1. heap[c].type = "Coroutine" /\ heap[c].native_callback = n
          BY <3>3
        <4>2. n \in Natives
          BY <3>1, <4>1, CoroutineIs
        <4> QED BY <2>10, <4>2 DEF Natives
      <3>5. PICK t \in BOOLEAN : t = TRUE
        OBVIOUS
      <3>6. users' = Registered(x, t, 0) /\ frame' = frame
        BY <1>1, <1>4, <2>1, <3>5
      <3>7. heap'[n].type = "NativeObject" /\ heap'[n].userdata = x /\ heap'[n].cleanup = t
        BY <2>5, <2>6, <2>10, <3>5
      <3>8. \A i \in Ids : i # n => (heap'[i].type = "NativeObject" <=> heap[i].type = "NativeObject")
        BY <2>10
      <3>9. n \in Ids /\ heap[n].type = "Free"
        BY <2>10
      <3> QED BY <2>2, <3>1, <3>2, <3>3, <3>4, <3>6, <3>7, <3>8, <3>9, UserRegistered
    <2>12. ReadyOK(heap', ready')
      BY <1>1, <2>10, ReadyKept
    <2>13. program' = program /\ registry' = registry /\ running' = running /\ vm' = vm /\ frame' = frame
      BY <1>1
    <2>14. crashed' \in BOOLEAN
      BY <1>1 DEF HostInv, RootsOK
    <2>15. RootsOK'
      BY <1>1, <1>2, <2>10, <2>12, <2>13, <2>14, RootsStep
    <2> QED BY <2>10, <2>11, <2>15 DEF HostInv
  <1> QED BY <1>1, <1>3, <1>4

\* Setting the callback of a coroutine, in place of the one it had or in vain.
LEMMA CallbackSet ==
    ASSUME HostInv, NEW h \in Args, NEW callback \in BOOLEAN, NEW cleanup \in BOOLEAN,
           tiro_coroutine_set_callback(h, callback, cleanup)
    PROVE  HostInv'
  <1>1. PICK code : code = IF ~callback THEN "BAD_ARG" ELSE bad_type({h}, h, "Coroutine")
    OBVIOUS
  <1>2. PICK c : c = Id(h)
    OBVIOUS
  <1>3. PICK x : x = NewUser
    OBVIOUS
  <1>4. PICK dropped : dropped = [heap EXCEPT ![c].native_callback = NoObject]
    OBVIOUS
  <1>5. PICK m : m = [NativeObject_make(x) EXCEPT !.cleanup = cleanup]
    OBVIOUS
  <1>6. PICK n : n = NewId
    OBVIOUS
  <1>7. PICK late : late = IF cleanup THEN 1 ELSE 0
    OBVIOUS
  <1>8. /\ program' = program /\ slot' = slot /\ allocated' = allocated /\ registry' = registry /\ ready' = ready
        /\ running' = running /\ frame' = frame /\ vm' = vm /\ spec' = spec /\ vm = "alive" /\ UserLeft
        /\ \/ /\ code # "OK" /\ report_error(code) /\ users' = Registered(x, cleanup, late)
              /\ crashed' = ~cleanup /\ heap' = heap
           \/ /\ code = "OK" /\ report_error("ALLOC") /\ heap' = dropped
              /\ users' = Registered(x, cleanup, late) /\ crashed' = crashed
           \/ /\ code = "OK" /\ FreeIds # {}
              /\ heap' = [dropped EXCEPT ![c].native_callback = n, ![n] = m]
              /\ users' = Registered(x, cleanup, 0) /\ err' = err /\ crashed' = crashed
    BY <1>1, <1>2, <1>3, <1>4, <1>5, <1>6, <1>7 DEF tiro_coroutine_set_callback, storage, Uses
  <1>9. x \in Users /\ \A i \in Natives : heap[i].userdata # x
    BY <1>3, <1>8, NewUserFree
  <1>10. code \in Codes /\ "ALLOC" \in Codes
    <2>1. bad_type({h}, h, "Coroutine") \in Codes /\ "BAD_ARG" \in Codes /\ "ALLOC" \in Codes
      BY CodesAre DEF Codes
    <2> QED BY <1>1, <2>1
  <1>11. err' \in Codes /\ crashed' \in BOOLEAN
    <2>1. err \in Codes /\ crashed \in BOOLEAN
      BY DEF HostInv, RootsOK
    <2>2. report_error(code) \/ report_error("ALLOC") => err' \in Codes
      BY <1>10, Reports
    <2> QED BY <1>8, <2>1, <2>2
  <1>12. DOMAIN heap = Ids /\ NoObject \notin Ids
    BY IdFacts DEF HostInv, HeapOK
  <1>13. ASSUME code = "OK"
         PROVE  c \in Ids /\ heap[c].type = "Coroutine"
    <2>1. bad_type({h}, h, "Coroutine") = "OK"
      BY <1>1, <1>13
    <2>2. IsA(h, "Coroutine")
      BY <2>1, CodesAre
    <2> QED BY <1>2, <2>2, ArgObject DEF ObjectTypes
  <1>14. CASE code # "OK"
    <2>1. heap' = heap /\ users' = Registered(x, cleanup, late)
      BY <1>8, <1>14
    <2>2. HeapOK' /\ Keeps(heap, heap', Ids)
      BY <1>8, <2>1, SameHeap
    <2>3. SlotsOK'
      BY <1>8, <2>2, SlotsStep DEF HostInv
    <2>4. UsersOK'
      <3>1. PICK none : none = NoObject
        OBVIOUS
      <3>2. none = NoObject => late = IF cleanup THEN 1 ELSE 0
        BY <1>7
      <3> QED BY <1>8, <1>9, <2>1, <3>1, <3>2, UserRegistered
    <2>5. ReadyOK(heap', ready')
      BY <1>8, <2>1, ReadyKept
    <2>6. RootsOK'
      BY <1>8, <1>11, <2>2, <2>5, RootsStep
    <2> QED BY <2>2, <2>3, <2>4, <2>6 DEF HostInv
  <1>15. ASSUME code = "OK"
         PROVE  \E o : /\ o = heap[c] /\ CoroutineOK(heap, o)
                       /\ o = [type |-> "Coroutine", state |-> o.state, arguments |-> o.arguments,
                               native_callback |-> o.native_callback, result |-> o.result]
    <2>1. CoroutineOK(heap, heap[c])
      BY <1>13, <1>15, CoroutineIs
    <2> QED BY <2>1 DEF CoroutineOK
  <1>16. CASE code = "OK" /\ heap' = dropped /\ users' = Registered(x, cleanup, late)
    <2>1. PICK o : /\ o = heap[c] /\ CoroutineOK(heap, o)
                   /\ o = [type |-> "Coroutine", state |-> o.state, arguments |-> o.arguments,
                           native_callback |-> o.native_callback, result |-> o.result]
      BY <1>15, <1>16
    <2>2. c \in Ids /\ heap[c].type = "Coroutine"
      BY <1>13, <1>16
    <2>3. PICK p : p = [type |-> "Coroutine", state |-> o.state, arguments |-> o.arguments,
                        native_callback |-> NoObject, result |-> o.result]
      OBVIOUS
    <2>4. heap'[c] = p /\ DOMAIN heap' = Ids /\ \A i \in Ids : i # c => heap'[i] = heap[i]
      <3>1. heap' = [heap EXCEPT ![c] = [o EXCEPT !.native_callback = NoObject]]
        BY <1>4, <1>12, <1>16, <2>1, <2>2
      <3> QED BY <1>12, <2>1, <2>2, <2>3, <3>1
    <2>5. ObjectOK(heap, p) /\ p.type = "Coroutine"
      <3>1. IsValue(heap, o.result) /\ o.state \in {"New", "Started", "Waiting", "Done"}
        BY <2>1 DEF CoroutineOK
      <3> QED BY <2>1, <2>3, <3>1, CoroutineSet
    <2>6. p.native_callback = NoObject /\ p.state = o.state
      BY <2>3
    <2>7. Keeps(heap, heap', Ids) /\ HeapOK' /\ SlotsOK'
      BY <1>8, <2>2, <2>4, <2>5, TypesKept
    <2>8. UsersOK'
      <3>1. PICK none : none = NoObject
        OBVIOUS
      <3>2. none = NoObject => late = IF cleanup THEN 1 ELSE 0
        BY <1>7
      <3>3. \A i \in Ids : heap'[i].type = "NativeObject" <=> heap[i].type = "NativeObject"
        BY <2>2, <2>4, <2>5
      <3>4. \A i \in Natives : heap'[i] = heap[i]
        BY <2>2, <2>4 DEF Natives
      <3>5. \A d \in Ids : heap'[d].type = "Coroutine" =>
              \/ heap'[d].native_callback = NoObject
              \/ /\ heap[d].type = "Coroutine" /\ heap'[d].native_callback = heap[d].native_callback
                 /\ heap'[d].state = heap[d].state
        BY <2>4, <2>6
      <3>6. users' = Registered(x, cleanup, late) /\ frame' = frame
        BY <1>8, <1>16
      <3> QED BY <1>9, <3>1, <3>2, <3>3, <3>4, <3>5, <3>6, UserRegistered
    <2>9. ReadyOK(heap', ready')
      <3>1. \A i \in Ids : heap[i].type = "Coroutine" => heap'[i].type = "Coroutine" /\ heap'[i].state = heap[i].state
        BY <2>1, <2>4, <2>5, <2>6
      <3> QED BY <1>8, <3>1, ReadyKept
    <2>10. RootsOK'
      BY <1>8, <1>11, <2>7, <2>9, RootsStep
    <2> QED BY <2>7, <2>8, <2>10 DEF HostInv
  <1>17. CASE /\ code = "OK" /\ FreeIds # {} /\ heap' = [dropped EXCEPT ![c].native_callback = n, ![n] = m]
              /\ users' = Registered(x, cleanup, 0)
    <2>1. PICK o : /\ o = heap[c] /\ CoroutineOK(heap, o)
                   /\ o = [type |-> "Coroutine", state |-> o.state, arguments |-> o.arguments,
                           native_callback |-> o.native_callback, result |-> o.result]
      BY <1>15, <1>17
    <2>2. c \in Ids /\ heap[c].type = "Coroutine"
      BY <1>13, <1>17
    <2>3. n \in Ids /\ heap[n].type = "Free" /\ n # c /\ n # NoObject
      <3>1. n \in Ids /\ heap[n].type = "Free"
        BY <1>6, <1>17, NewIdFree
      <3> QED BY <1>12, <2>2, <3>1
    <2>4. PICK p : p = [type |-> "Coroutine", state |-> o.state, arguments |-> o.arguments,
                        native_callback |-> n, result |-> o.result]
      OBVIOUS
    <2>5. /\ p.type = "Coroutine" /\ p.state = o.state /\ p.arguments = o.arguments
          /\ p.native_callback = n /\ p.result = o.result
      BY <2>4
    <2>6. m = [type |-> "NativeObject", userdata |-> x, cleanup |-> cleanup]
      <3>1. PICK t \in BOOLEAN : t = TRUE
        OBVIOUS
      <3>2. PICK k : k = NativeObject_make(x)
        OBVIOUS
      <3>3. k = [type |-> "NativeObject", userdata |-> x, cleanup |-> t]
        BY <3>1, <3>2, Zenon DEF NativeObject_make
      <3>4. [k EXCEPT !.cleanup = cleanup] = [type |-> "NativeObject", userdata |-> x, cleanup |-> cleanup]
        BY <3>3
      <3> QED BY <1>5, <3>2, <3>4
    <2>7. m.type = "NativeObject" /\ m.userdata = x /\ m.cleanup = cleanup
      BY <2>6
    <2>8. /\ heap'[c] = p /\ heap'[n] = m /\ DOMAIN heap' = Ids
          /\ \A i \in Ids : i # c /\ i # n => heap'[i] = heap[i]
      <3>1. PICK q : q = [o EXCEPT !.native_callback = NoObject]
        OBVIOUS
      <3>2. q = [type |-> "Coroutine", state |-> o.state, arguments |-> o.arguments,
                 native_callback |-> NoObject, result |-> o.result]
        BY <2>1, <3>1
      <3>3. [q EXCEPT !.native_callback = n] = p
        BY <2>4, <3>2
      <3>4. /\ dropped[c] = q /\ DOMAIN dropped = Ids /\ \A i \in Ids : i # c => dropped[i] = heap[i]
        BY <1>4, <1>12, <2>1, <2>2, <3>1
      <3>5. PICK g : g = [dropped EXCEPT ![c].native_callback = n]
        OBVIOUS
      <3>6. /\ g[c] = p /\ DOMAIN g = Ids /\ \A i \in Ids : i # c => g[i] = heap[i]
        BY <2>2, <3>3, <3>4, <3>5
      <3>7. heap' = [g EXCEPT ![n] = m]
        BY <1>17, <3>5
      <3> QED BY <2>2, <2>3, <3>6, <3>7
    <2>9. Keeps(heap, heap', Ids)
      BY <2>2, <2>3, <2>5, <2>8 DEF Keeps, Live
    <2>10. ObjectOK(heap', m) /\ View(heap', m) = <<>>
      <3>1. m = [type |-> "NativeObject", userdata |-> m.userdata, cleanup |-> m.cleanup]
        BY <2>6, <2>7
      <3>2. NativeOK(m)
        BY <1>9, <2>7, <3>1 DEF NativeOK
      <3> QED BY <2>7, <3>2 DEF ObjectOK, View
    <2>11. ObjectOK(heap', p) /\ View(heap', p) = <<>>
      <3>1. /\ IsValue(heap, o.arguments) /\ IsValue(heap, o.result)
            /\ o.state \in {"New", "Started", "Waiting", "Done"}
        BY <2>1 DEF CoroutineOK
      <3>2. IsValue(heap', o.arguments) /\ IsValue(heap', o.result)
        <4>1. \A v : IsValue(heap, v) /\ v[1] = "Object" => v[2] \in Ids
          BY DEF IsValue, Live
        <4> QED BY <2>9, <3>1, <4>1, KeepsValue
      <3>3. heap'[n].type = "NativeObject"
        BY <2>7, <2>8
      <3>4. p = [type |-> "Coroutine", state |-> p.state, arguments |-> p.arguments,
                 native_callback |-> p.native_callback, result |-> p.result]
        BY <2>4, <2>5
      <3>5. CoroutineOK(heap', p)
        BY <2>3, <2>5, <3>1, <3>2, <3>3, <3>4 DEF CoroutineOK
      <3> QED BY <2>5, <3>5 DEF ObjectOK, View
    <2>12. HeapOK'
      <3>1. spec[c] = <<>> /\ spec[n] = <<>>
        <4>1. View(heap, heap[c]) = <<>> /\ View(heap, heap[n]) = <<>>
          BY <2>2, <2>3 DEF View
        <4> QED BY <2>2, <2>3, <4>1 DEF HostInv, HeapOK
      <3>2. DOMAIN spec = Ids /\ spec' = spec
        BY <1>8 DEF HostInv, HeapOK
      <3>3. \A i \in Ids :
              \/ heap'[i] = heap[i] /\ spec'[i] = spec[i]
              \/ ObjectOK(heap', heap'[i]) /\ View(heap', heap'[i]) = spec'[i]
        BY <2>8, <2>10, <2>11, <3>1, <3>2
      <3> QED BY <2>8, <2>9, <3>2, <3>3, HeapStep DEF HostInv
    <2>13. SlotsOK'
      BY <1>8, <2>9, SlotsStep DEF HostInv
    <2>14. UsersOK'
      <3>1. \A i \in Ids : i # n => (heap'[i].type = "NativeObject" <=> heap[i].type = "NativeObject")
        BY <2>2, <2>5, <2>8
      <3>2. \A i \in Natives : heap'[i] = heap[i]
        BY <2>2, <2>3, <2>8 DEF Natives
      <3>3. \A d \in Ids : heap'[d].type = "Coroutine" =>
              \/ heap'[d].native_callback = n
              \/ /\ heap[d].type = "Coroutine" /\ heap'[d].native_callback = heap[d].native_callback
                 /\ heap'[d].state = heap[d].state
        BY <2>5, <2>7, <2>8
      <3>4. ASSUME NEW d \in Ids, heap'[d].type = "Coroutine", heap'[d].native_callback = n
            PROVE  d = c
        <4> SUFFICES ASSUME d # c
                     PROVE  FALSE
          OBVIOUS
        <4>1. d # n
          BY <2>7, <2>8, <3>4
        <4>2. heap[d].type = "Coroutine" /\ heap[d].native_callback = n
          BY <2>8, <3>4, <4>1
        <4>3. n \in Natives
          BY <2>3, <4>2, CoroutineIs
        <4> QED BY <2>3, <4>3 DEF Natives
      <3>5. users' = Registered(x, cleanup, 0) /\ frame' = frame
        BY <1>8, <1>17
      <3>6. heap'[n].type = "NativeObject" /\ heap'[n].userdata = x /\ heap'[n].cleanup = cleanup
        BY <2>7, <2>8
      <3> QED BY <1>9, <2>3, <3>1, <3>2, <3>3, <3>4, <3>5, <3>6, UserRegistered
    <2>15. ReadyOK(heap', ready')
      <3>1. \A i \in Ids : heap[i].type = "Coroutine" => heap'[i].type = "Coroutine" /\ heap'[i].state = heap[i].state
        BY <2>1, <2>3, <2>5, <2>8
      <3> QED BY <1>8, <3>1, ReadyKept
    <2>16. RootsOK'
      BY <1>8, <1>11, <2>9, <2>15, RootsStep
    <2> QED BY <2>12, <2>13, <2>14, <2>16 DEF HostInv
  <1> QED BY <1>8, <1>14, <1>16, <1>17

-----------------------------------------------------------------------------
(* Collections. *)

\* What the collector starts at exists.
LEMMA TraceLive ==
    ASSUME HostInv, NEW tokens \in SUBSET Waiting
    PROVE  /\ trace(tokens) \ {NoObject} \subseteq Live(heap)
           /\ \A s \in Handles : slot[s][2][1] = "Object" => slot[s][2][2] \in trace(tokens)
           /\ \A n \in Names : registry[n] \in trace(tokens)
           /\ \A k \in DOMAIN ready : ready[k] \in trace(tokens)
           /\ frame.coroutine \in trace(tokens) /\ frame.callback \in trace(tokens)
  <1>1. PICK held : held = [i \in 1..Cardinality(Slots) |-> IF allocated[i] THEN slot[i][2] ELSE Null]
    OBVIOUS
  <1>2. 1..Cardinality(Slots) = Slots
    <2>1. PICK n \in Nat \ {0} : n = PageSlots * MaxPages
      BY HostAssumption
    <2>2. Cardinality(1..n) = n
      BY <2>1, FS_Interval
    <2> QED BY <2>1, <2>2 DEF Slots
  <1>3. DOMAIN held = Slots /\ \A s \in Slots : held[s] = IF s \in Handles THEN slot[s][2] ELSE Null
    BY <1>1, <1>2 DEF Handles
  <1>4. \A s \in Handles : IsValue(heap, slot[s][2])
    BY DEF HostInv, SlotsOK, Handles
  <1>5. Refs(held) \subseteq Live(heap)
    <2>1. \A s \in Slots : IsValue(heap, held[s])
      BY <1>3, <1>4, PlainValues
    <2> QED BY <1>3, <2>1, RefsInside DEF IsValue
  <1>6. \A s \in Handles : slot[s][2][1] = "Object" => slot[s][2][2] \in Refs(held)
    <2> SUFFICES ASSUME NEW s \in Handles, slot[s][2][1] = "Object"
                 PROVE  slot[s][2][2] \in Refs(held)
      OBVIOUS
    <2>1. s \in DOMAIN held /\ held[s] = slot[s][2]
      BY <1>3 DEF Handles
    <2> QED BY <2>1, RefsOf
  <1>7. \A n \in Names : registry[n] \in Live(heap) \union {NoObject}
    BY DEF HostInv, RootsOK, Live
  <1>8. \A k \in DOMAIN ready : ready[k] \in Live(heap)
    <2>1. ReadyOK(heap, ready)
      BY DEF HostInv, RootsOK
    <2>2. \A k \in DOMAIN ready : ready[k] \in Ids
      BY <2>1 DEF ReadyOK
    <2> QED BY <2>1, <2>2 DEF ReadyOK, Live
  <1>9. frame.coroutine \in Live(heap) \union {NoObject} /\ frame.callback \in Live(heap) \union {NoObject}
    <2>1. CASE frame = NoFrame
      BY <2>1 DEF NoFrame
    <2>2. CASE frame # NoFrame
      BY <2>2 DEF HostInv, RootsOK, Live
    <2> QED BY <2>1, <2>2
  <1>10. tokens \subseteq Live(heap)
    BY DEF Waiting, Live
  <1>11. trace(tokens) = Refs(held) \union {registry[n] : n \in Names} \union ToSet(ready)
                          \union {frame.coroutine, frame.callback} \union tokens
    BY <1>1 DEF trace
  <1>12. ToSet(ready) \subseteq Live(heap) /\ \A k \in DOMAIN ready : ready[k] \in ToSet(ready)
    BY <1>8 DEF ToSet
  <1> QED BY <1>5, <1>6, <1>7, <1>9, <1>10, <1>11, <1>12

\* What can be reached exists, and refers to nothing else.
LEMMA ReachableKept ==
    ASSUME HostInv, NEW tokens \in SUBSET Waiting
    PROVE  LET R == Reachable(trace(tokens))
           IN  /\ R \subseteq Live(heap) /\ trace(tokens) \ {NoObject} \subseteq R
               /\ \A i \in R : References(heap[i]) \subseteq R
  <1>1. PICK roots : roots = trace(tokens) \ {NoObject}
    OBVIOUS
  <1>2. PICK refs : refs = [i \in Ids |-> References(heap[i])]
    OBVIOUS
  <1>3. PICK R : R = Closure(roots, refs)
    OBVIOUS
  <1>4. Reachable(trace(tokens)) = R
    BY <1>1, <1>2, <1>3 DEF Reachable
  <1>5. roots \subseteq Live(heap) /\ Live(heap) \subseteq Ids
    BY <1>1, TraceLive DEF Live
  <1>6. \A i \in Ids : refs[i] = References(heap[i]) /\ refs[i] \subseteq Live(heap)
    BY <1>2, ReferencesLive DEF HostInv, HeapOK
  <1>7. refs \in [Ids -> SUBSET Ids]
    BY <1>2, <1>5, <1>6
  <1>8. roots \subseteq R /\ R \subseteq Live(heap)
    <2>1. \A i \in Live(heap) : refs[i] \subseteq Live(heap)
      BY <1>5, <1>6
    <2> QED BY <1>3, <1>5, <2>1, ClosureInside
  <1>9. \A i \in R : refs[i] \subseteq R
    <2>1. roots \in SUBSET Ids
      BY <1>5
    <2> QED BY <1>3, <1>7, <2>1, ClosureClosed
  <1>10. \A i \in R : References(heap[i]) \subseteq R
    BY <1>5, <1>6, <1>8, <1>9
  <1> QED BY <1>1, <1>4, <1>8, <1>10

\* The objects of R are left as they are, all others are freed.
Collects(R) ==
    /\ R \subseteq Live(heap) /\ \A i \in R : References(heap[i]) \subseteq R
    /\ DOMAIN heap' = Ids /\ DOMAIN spec' = Ids
    /\ \A i \in R : heap'[i] = heap[i] /\ spec'[i] = spec[i]
    /\ \A i \in Ids \ R : heap'[i] = Free /\ spec'[i] = <<>>
    /\ users' = finalize(Live(heap) \ R)

\* A collection leaves what it can reach as it is.
LEMMA CollectedHeap ==
    ASSUME HostInv, NEW R, Collects(R)
    PROVE  Keeps(heap, heap', R) /\ HeapOK'
  <1>1. Keeps(heap, heap', R)
    BY DEF Collects, Keeps
  <1>2. ASSUME NEW i \in Ids
        PROVE  ObjectOK(heap', heap'[i]) /\ View(heap', heap'[i]) = spec'[i]
    <2>1. CASE i \in R
      <3>1. ObjectOK(heap, heap[i]) /\ View(heap, heap[i]) = spec[i]
        BY DEF HostInv, HeapOK
      <3>2. References(heap[i]) \subseteq R /\ heap'[i] = heap[i] /\ spec'[i] = spec[i]
        BY <2>1 DEF Collects
      <3>3. ObjectOK(heap', heap[i]) /\ View(heap', heap[i]) = View(heap, heap[i])
        BY <1>1, <3>1, <3>2, KeepsObject
      <3> QED BY <3>1, <3>2, <3>3
    <2>2. CASE i \notin R
      <3>1. heap'[i] = Free /\ spec'[i] = <<>>
        BY <2>2 DEF Collects
      <3>2. ObjectOK(heap', Free) /\ View(heap', Free) = <<>>
        BY DEF ObjectOK, View, Free
      <3> QED BY <3>1, <3>2
    <2> QED BY <2>1, <2>2
  <1>3. DOMAIN heap' = Ids /\ DOMAIN spec' = Ids
    BY DEF Collects
  <1>4. \A i \in Ids : ObjectOK(heap, heap[i])' = ObjectOK(heap', heap'[i])
    BY DEF ObjectOK, TupleOK, ArrayOK, BufferOK, SchemaOK, RecordOK, ResultOK, ModuleOK, MethodOK, CoroutineOK,
           NativeOK, AreValues, IsValue, Live, IsSequence
  <1> QED BY <1>1, <1>2, <1>3, <1>4 DEF HeapOK

\* What a finalizer records about a userdata.
LEMMA UserFinalized ==
    ASSUME NEW user, UserOK(user), NEW k \in {0, 1}, k = 1 => user.cleaned = 0 /\ user.cleanup,
           NEW p, p = [user EXCEPT !.cleaned = @ + k]
    PROVE  /\ UserOK(p) /\ p.registered = user.registered /\ p.cleanup = user.cleanup
           /\ p.called = user.called /\ p.cleaned = user.cleaned + k
  <1>1. PICK a, b, e, n : a = user.registered /\ b = user.cleanup /\ e = user.called /\ n = user.cleaned
    OBVIOUS
  <1>2. user = [registered |-> a, cleanup |-> b, called |-> e, cleaned |-> n]
    BY <1>1, Zenon DEF UserOK
  <1>3. /\ a \in BOOLEAN /\ b \in BOOLEAN /\ e \in {0, 1} /\ n \in {0, 1}
        /\ n = 1 => b
        /\ b => a
    BY <1>1, Zenon DEF UserOK
  <1>4. PICK m : m = n + k
    OBVIOUS
  <1>5. m \in {0, 1} /\ (m = 1 => b)
    <2>1. k = 1 => n = 0 /\ b
      BY <1>1
    <2> QED BY <1>3, <1>4, <2>1
  <1>6. p = [registered |-> a, cleanup |-> b, called |-> e, cleaned |-> m]
    BY <1>1, <1>2, <1>4
  <1>7. UserOK([registered |-> a, cleanup |-> b, called |-> e, cleaned |-> m])
    BY <1>3, <1>5, UserMade
  <1>8. p.registered = a /\ p.cleanup = b /\ p.called = e /\ p.cleaned = m
    BY <1>6
  <1> QED BY <1>1, <1>4, <1>6, <1>7, <1>8

\* A collection finalizes the userdata of the objects it frees, once.
LEMMA CollectedUsers ==
    ASSUME HostInv, NEW R, Collects(R), frame' = frame, frame # NoFrame => frame.callback \in R
    PROVE  UsersOK'
  <1> DEFINE pending(u) == {i \in Live(heap) \ R : /\ heap[i].type = "NativeObject" /\ heap[i].cleanup
                                                   /\ heap[i].userdata = u}
  <1>1. DOMAIN users = Users /\ \A v \in Users : UserOK(users[v])
    BY DEF HostInv, UsersOK
  <1>2. DOMAIN users' = Users /\ \A v \in Users : users'[v] = [users[v] EXCEPT !.cleaned = @ + Cardinality(pending(v))]
    BY DEF Collects, finalize
  <1>3. ASSUME NEW v \in Users
        PROVE  \/ Cardinality(pending(v)) = 0 /\ pending(v) = {}
               \/ Cardinality(pending(v)) = 1 /\ users[v].cleaned = 0 /\ users[v].cleanup
    <2>1. CASE pending(v) = {}
      BY <2>1, FS_EmptySet
    <2>2. CASE pending(v) # {}
      <3>1. PICK i : i \in pending(v)
        BY <2>2
      <3>2. \A j \in pending(v) : j \in Natives /\ heap[j].userdata = v /\ heap[j].cleanup
        BY DEF Natives, Live
      <3>3. pending(v) = {i}
        <4>1. \A j \in pending(v) : j = i
          <5> HIDE DEF pending
          <5> QED BY <3>1, <3>2 DEF HostInv, UsersOK
        <4> QED BY <3>1, <4>1
      <3>4. Cardinality(pending(v)) = 1
        BY <3>3, FS_Singleton
      <3>5. User(i).cleanup /\ User(i).cleaned = 0 /\ User(i) = users[v]
        <4>1. i \in Natives /\ heap[i].userdata = v /\ heap[i].cleanup
          BY <3>1, <3>2
        <4> QED BY <4>1 DEF HostInv, UsersOK, User
      <3> QED BY <3>4, <3>5
    <2> QED BY <2>1, <2>2
  <1>4. ASSUME NEW v \in Users
        PROVE  /\ UserOK(users'[v]) /\ users'[v].registered = users[v].registered
               /\ users'[v].cleanup = users[v].cleanup /\ users'[v].called = users[v].called
               /\ users'[v].cleaned = users[v].cleaned + Cardinality(pending(v))
    <2>1. PICK k : k = Cardinality(pending(v))
      OBVIOUS
    <2>2. PICK user : user = users[v]
      OBVIOUS
    <2>3. PICK p : p = users'[v]
      OBVIOUS
    <2> HIDE DEF pending
    <2>4. k \in {0, 1} /\ (k = 1 => user.cleaned = 0 /\ user.cleanup)
      BY <1>3, <2>1, <2>2
    <2>5. p = [user EXCEPT !.cleaned = @ + k]
      BY <1>2, <2>1, <2>2, <2>3
    <2>6. UserOK(user)
      BY <1>1, <2>2
    <2>7. /\ UserOK(p) /\ p.registered = user.registered /\ p.cleanup = user.cleanup
          /\ p.called = user.called /\ p.cleaned = user.cleaned + k
      BY <2>4, <2>5, <2>6, UserFinalized
    <2> QED BY <2>1, <2>2, <2>3, <2>7
  <1>5. \A v \in Users : users[v].cleaned \in {0, 1}
    BY <1>1 DEF UserOK
  <1>6. \A i \in Natives : i \in R => heap'[i] = heap[i]
    BY DEF Collects
  <1>7. Natives' = Natives \intersect R
    <2>1. R \subseteq Ids
      BY DEF Collects, Live
    <2>2. Free.type # "NativeObject"
      BY DEF Free
    <2> QED BY <2>1, <2>2 DEF Natives, Collects
  <1>8. ASSUME NEW i \in Natives, i \in R
        PROVE  pending(heap[i].userdata) = {}
    <2> SUFFICES ASSUME NEW j \in pending(heap[i].userdata)
                 PROVE  FALSE
      OBVIOUS
    <2>1. j \in Natives /\ heap[j].userdata = heap[i].userdata /\ j \notin R
      BY DEF Natives, Live
    <2>2. j = i
      BY <2>1 DEF HostInv, UsersOK
    <2> QED BY <1>8, <2>1, <2>2
  <1>9. ASSUME NEW i \in Natives, i \in R
        PROVE  /\ User(i)'.registered = User(i).registered /\ User(i)'.cleanup = User(i).cleanup
               /\ User(i)'.called = User(i).called /\ User(i)'.cleaned = User(i).cleaned
    <2>1. PICK v \in Users : v = heap[i].userdata
      BY NativeUser
    <2>2. Cardinality(pending(v)) = 0
      BY <1>8, <1>9, <2>1, FS_EmptySet
    <2>3. User(i) = users[v] /\ User(i)' = users'[v]
      BY <1>6, <1>9, <2>1 DEF User
    <2>4. users[v].cleaned + 0 = users[v].cleaned
      BY <1>5
    <2> HIDE DEF pending
    <2> QED BY <1>4, <2>2, <2>3, <2>4
  <1>10. ASSUME NEW v \in Users, users'[v].cleanup, users'[v].cleaned = 0
         PROVE  \E i \in Natives' : heap'[i].userdata = v /\ heap'[i].cleanup
    <2>1. users[v].cleanup
      BY <1>4, <1>10
    <2>2. pending(v) = {} /\ users[v].cleaned = 0
      <3>1. users[v].cleaned + Cardinality(pending(v)) = 0 /\ users[v].cleaned \in {0, 1}
        BY <1>4, <1>5, <1>10
      <3> HIDE DEF pending
      <3> QED BY <1>3, <3>1
    <2>3. PICK i \in Natives : heap[i].userdata = v /\ heap[i].cleanup
      BY <2>1, <2>2 DEF HostInv, UsersOK
    <2>4. i \in R
      BY <2>2, <2>3 DEF Natives, Live
    <2> QED BY <1>6, <1>7, <2>3, <2>4
  <1>11. ASSUME NEW i \in Natives'
         PROVE  User(i)'.registered /\ (heap'[i].cleanup => User(i)'.cleanup /\ User(i)'.cleaned = 0)
    <2>1. i \in Natives /\ i \in R /\ heap'[i] = heap[i]
      BY <1>6, <1>7
    <2>2. User(i).registered /\ (heap[i].cleanup => User(i).cleanup /\ User(i).cleaned = 0)
      BY <2>1 DEF HostInv, UsersOK
    <2> HIDE DEF pending
    <2> QED BY <1>9, <2>1, <2>2
  <1>12. \A i, j \in Natives' : heap'[i].userdata = heap'[j].userdata => i = j
    BY <1>6, <1>7 DEF HostInv, UsersOK
  <1>13. \A c \in Ids : heap'[c].type = "Coroutine" => c \in R /\ heap'[c] = heap[c]
    BY DEF Collects, Free
  <1>14. ASSUME NEW i \in Due'
         PROVE  User(i)'.called = 0 /\ User(i)'.cleaned = 0
    <2>1. i \in Natives' /\ i \in Natives /\ i \in R
      BY <1>7 DEF Due
    <2>2. i \in Due
      BY <1>13, <2>1 DEF Due
    <2>3. User(i).called = 0 /\ User(i).cleaned = 0
      BY <2>2 DEF HostInv, UsersOK
    <2> QED BY <1>9, <2>1, <2>3
  <1>15. ASSUME NEW c \in Ids, NEW d \in Ids, heap'[c].type = "Coroutine", heap'[d].type = "Coroutine",
                heap'[c].native_callback = heap'[d].native_callback, heap'[c].native_callback # NoObject
         PROVE  c = d
    <2>1. heap'[c] = heap[c] /\ heap'[d] = heap[d]
      BY <1>13, <1>15
    <2> QED BY <1>15, <2>1 DEF HostInv, UsersOK
  <1>16. frame # NoFrame => User(frame.callback)'.called = 1 /\ User(frame.callback)'.cleaned = 0
    <2> SUFFICES ASSUME frame # NoFrame
                 PROVE  User(frame.callback)'.called = 1 /\ User(frame.callback)'.cleaned = 0
      OBVIOUS
    <2>1. PICK i : i = frame.callback
      OBVIOUS
    <2>2. i \in Natives /\ User(i).called = 1 /\ User(i).cleaned = 0 /\ i \in R
      BY <2>1 DEF HostInv, RootsOK, UsersOK, Natives
    <2>3. User(i)'.called = 1 /\ User(i)'.cleaned = 0
      BY <1>9, <2>2
    <2>4. User(frame.callback)' = users'[heap'[i].userdata] /\ User(i)' = users'[heap'[i].userdata]
      BY <2>1 DEF User
    <2> QED BY <2>3, <2>4
  <1>17. frame' = frame /\ NoFrame' = NoFrame
    BY DEF NoFrame
  <1>18. \A v \in Users : UserOK(users'[v])
    BY <1>4
  <1> HIDE DEF pending
  <1> QED BY <1>2, <1>10, <1>11, <1>12, <1>14, <1>15, <1>16, <1>17, <1>18 DEF UsersOK, User, UserOK

\* The collector runs (vm/heap/collector.cpp).
LEMMA Collected ==
    ASSUME HostInv, NEW tokens \in SUBSET Waiting, collect(tokens)
    PROVE  HostInv'
  <1>1. PICK R : R = Reachable(trace(tokens))
    OBVIOUS
  <1>2. PICK roots : roots = trace(tokens)
    OBVIOUS
  <1>3. /\ R \subseteq Live(heap) /\ roots \ {NoObject} \subseteq R
        /\ \A i \in R : References(heap[i]) \subseteq R
    BY <1>1, <1>2, ReachableKept
  <1>4. /\ \A s \in Handles : slot[s][2][1] = "Object" => slot[s][2][2] \in roots
        /\ \A n \in Names : registry[n] \in roots
        /\ \A k \in DOMAIN ready : ready[k] \in roots
        /\ frame.coroutine \in roots /\ frame.callback \in roots
    BY <1>2, TraceLive
  <1>5. NoObject \notin Ids /\ Live(heap) \subseteq Ids
    BY IdFacts
  <1>6. /\ vm = "alive" /\ program' = program /\ slot' = slot /\ allocated' = allocated /\ registry' = registry
        /\ ready' = ready /\ running' = running /\ frame' = frame /\ vm' = vm /\ err' = err /\ crashed' = crashed
        /\ heap' = [i \in Ids |-> IF i \in Live(heap) \ R THEN Free ELSE heap[i]]
        /\ spec' = [i \in Ids |-> IF i \in Live(heap) \ R THEN <<>> ELSE spec[i]]
        /\ users' = finalize(Live(heap) \ R)
    BY <1>1 DEF collect, Live, storage
  <1>7. \A i \in Ids \ Live(heap) : heap[i] = Free /\ spec[i] = <<>>
    <2> SUFFICES ASSUME NEW i \in Ids, i \notin Live(heap)
                 PROVE  heap[i] = Free /\ spec[i] = <<>>
      OBVIOUS
    <2>1. heap[i].type = "Free" /\ ObjectOK(heap, heap[i]) /\ View(heap, heap[i]) = spec[i]
      BY DEF Live, HostInv, HeapOK
    <2>2. heap[i] = Free
      BY <2>1, ObjectKinds
    <2> QED BY <2>1, <2>2 DEF View
  <1>8. Collects(R)
    BY <1>3, <1>5, <1>6, <1>7 DEF Collects
  <1>9. Keeps(heap, heap', R) /\ HeapOK'
    BY <1>8, CollectedHeap
  <1>10. frame # NoFrame => frame.callback \in R /\ frame.coroutine \in R
    BY <1>3, <1>4, <1>5 DEF HostInv, RootsOK
  <1>11. UsersOK'
    BY <1>6, <1>8, <1>10, CollectedUsers
  <1>12. SlotsOK'
    <2>1. ASSUME NEW s \in Handles
          PROVE  IsValue(heap', slot[s][2])
      <3>1. PICK v : v = slot[s][2]
        OBVIOUS
      <3>2. IsValue(heap, v)
        BY <3>1 DEF HostInv, SlotsOK, Handles
      <3>3. v[1] = "Object" => v[2] \in R
        <4>1. v[1] = "Object" => v[2] \in roots /\ v[2] \in Ids
          BY <1>4, <3>1, <3>2 DEF IsValue, Live
        <4> QED BY <1>3, <1>5, <4>1
      <3> QED BY <1>9, <3>1, <3>2, <3>3, KeepsValue
    <2> QED BY <1>6, <2>1 DEF HostInv, SlotsOK, Handles
  <1>13. \A n \in Names : registry[n] # NoObject => heap'[registry[n]].type = "Module"
    <2> SUFFICES ASSUME NEW n \in Names, registry[n] # NoObject
                 PROVE  heap'[registry[n]].type = "Module"
      OBVIOUS
    <2>1. registry[n] \in R /\ heap[registry[n]].type = "Module"
      BY <1>3, <1>4 DEF HostInv, RootsOK
    <2> QED BY <1>8, <2>1 DEF Collects
  <1>14. ReadyOK(heap', ready)
    <2>1. ReadyOK(heap, ready)
      BY DEF HostInv, RootsOK
    <2>2. \A k \in DOMAIN ready : ready[k] \in Ids
      BY <2>1 DEF ReadyOK
    <2>3. \A k \in DOMAIN ready : ready[k] \in R
      BY <1>3, <1>4, <1>5, <2>2
    <2>4. \A k \in DOMAIN ready : heap'[ready[k]] = heap[ready[k]]
      BY <1>8, <2>3 DEF Collects
    <2> QED BY <2>1, <2>4 DEF ReadyOK
  <1>15. frame # NoFrame =>
            /\ running /\ frame.coroutine \in Live(heap') /\ frame.callback \in Ids
            /\ heap'[frame.callback].type = "NativeObject"
    <2> SUFFICES ASSUME frame # NoFrame
                 PROVE  /\ running /\ frame.coroutine \in Live(heap') /\ frame.callback \in Ids
                        /\ heap'[frame.callback].type = "NativeObject"
      OBVIOUS
    <2>1. /\ running /\ frame.coroutine \in Live(heap) /\ frame.callback \in Ids
          /\ heap[frame.callback].type = "NativeObject"
      BY DEF HostInv, RootsOK
    <2>2. heap'[frame.callback] = heap[frame.callback] /\ heap'[frame.coroutine] = heap[frame.coroutine]
      BY <1>8, <1>10 DEF Collects
    <2> QED BY <2>1, <2>2 DEF Live
  <1>16. RootsOK'
    <2>1. /\ registry \in [Names -> Ids \union {NoObject}] /\ program \in Programs /\ err \in Codes
          /\ running \in BOOLEAN /\ crashed \in BOOLEAN
      BY DEF HostInv, RootsOK
    <2> QED BY <1>6, <1>13, <1>14, <1>15, <2>1 DEF RootsOK, ReadyOK, NoFrame, Live, Codes
  <1> QED BY <1>9, <1>11, <1>12, <1>16 DEF HostInv

\* The virtual machine is freed, and with it all objects (tiro_vm_free).
LEMMA Freed ==
    ASSUME HostInv, tiro_vm_free
    PROVE  HostInv'
  <1>1. PICK dead : dead = {i \in Ids : heap[i].type # "Free"}
    OBVIOUS
  <1>2. /\ ~running /\ program' = program /\ running' = running /\ frame' = frame /\ err' = err /\ crashed' = crashed
        /\ vm' = "freed" /\ users' = finalize(dead)
        /\ heap' = [i \in Ids |-> Free] /\ spec' = [i \in Ids |-> <<>>]
        /\ registry' = [n \in Names |-> NoObject] /\ ready' = <<>>
        /\ slot' = [s \in Slots |-> NextFree(NULL)] /\ allocated' = [s \in Slots |-> FALSE]
    BY <1>1 DEF tiro_vm_free
  <1>3. frame = NoFrame
    BY <1>2 DEF HostInv, RootsOK
  <1>4. PICK none : none = {}
    OBVIOUS
  <1>5. Collects(none)
    <2>1. Live(heap) \ none = dead
      BY <1>1, <1>4 DEF Live
    <2> QED BY <1>2, <1>4, <2>1 DEF Collects
  <1>6. HeapOK'
    BY <1>5, CollectedHeap
  <1>7. UsersOK'
    BY <1>2, <1>3, <1>5, CollectedUsers
  <1>8. SlotsOK'
    <2>1. NextFree(NULL)[2] = NULL
      BY DEF NextFree
    <2> QED BY <1>2, <2>1 DEF SlotsOK
  <1>9. RootsOK'
    <2>1. program \in Programs /\ err \in Codes /\ running \in BOOLEAN /\ crashed \in BOOLEAN
      BY DEF HostInv, RootsOK
    <2>2. ReadyOK(heap', <<>>)
      BY DEF ReadyOK
    <2>3. registry' \in [Names -> Ids \union {NoObject}] /\ \A n \in Names : registry'[n] = NoObject
      BY <1>2
    <2>4. \A i \in Ids : heap'[i] = Free
      BY <1>2
    <2>5. frame' = NoFrame' /\ ~running'
      BY <1>2, <1>3 DEF NoFrame
    <2> QED BY <1>2, <2>1, <2>2, <2>3, <2>4, <2>5 DEF RootsOK, ReadyOK, Codes, Free
  <1> QED BY <1>6, <1>7, <1>8, <1>9 DEF HostInv

-----------------------------------------------------------------------------
(* The invariant holds. *)

\* The invariant holds of every host and everything it is given.
LEMMA InitHostInv ==
    ASSUME Init
    PROVE  HostInv
  <1>1. PICK p \in Programs : p = program
    BY DEF Init
  <1>2. PICK g : g = Given(p)
    OBVIOUS
  <1>3. /\ \A s \in DOMAIN p.held : IsValue(g, p.held[s])
        /\ \A i \in Ids : ObjectOK(g, g[i]) /\ g[i].type # "NativeObject"
        /\ \A i \in Ids : g[i].type = "Coroutine" => g[i].state = "New" /\ g[i].native_callback = NoObject
    BY <1>2, HostAssumption
  <1>4. /\ heap = g /\ allocated = [s \in Slots |-> s \in DOMAIN p.held]
        /\ slot = [s \in Slots |-> IF allocated[s] THEN Stored(p.held[s]) ELSE NextFree(NULL)]
        /\ spec = [i \in Ids |-> View(heap, heap[i])]
        /\ registry = [n \in Names |-> NoObject] /\ ready = <<>> /\ running = FALSE /\ frame = NoFrame
        /\ users = [u \in Users |-> NoUse] /\ vm = "alive" /\ err = "OK" /\ crashed = FALSE
    BY <1>1, <1>2 DEF Init
  <1>5. HeapOK
    <2>1. DOMAIN g = Ids
      BY <1>2 DEF Given
    <2> QED BY <1>3, <1>4, <2>1 DEF HeapOK
  <1>6. SlotsOK
    <2>1. NextFree(NULL)[2] = NULL /\ \A v : Stored(v)[2] = v
      BY DEF NextFree, Stored
    <2>2. ASSUME NEW s \in Slots
          PROVE  IF allocated[s] THEN slot[s] = Stored(slot[s][2]) /\ IsValue(heap, slot[s][2])
                 ELSE slot[s] = NextFree(slot[s][2]) /\ slot[s][2] \in Slots \union {NULL}
      <3>1. CASE s \in DOMAIN p.held
        <4>1. slot[s] = Stored(p.held[s]) /\ allocated[s]
          BY <1>4, <3>1
        <4> QED BY <1>3, <1>4, <2>1, <3>1, <4>1
      <3>2. CASE s \notin DOMAIN p.held
        <4>1. slot[s] = NextFree(NULL) /\ ~allocated[s]
          BY <1>4, <3>2
        <4> QED BY <2>1, <4>1
      <3> QED BY <3>1, <3>2
    <2> QED BY <1>4, <2>2 DEF SlotsOK
  <1>7. RootsOK
    <2>1. ReadyOK(heap, <<>>)
      BY DEF ReadyOK
    <2>2. "OK" \in Codes
      BY DEF Codes
    <2>3. registry \in [Names -> Ids \union {NoObject}] /\ \A n \in Names : registry[n] = NoObject
      BY <1>4
    <2> QED BY <1>1, <1>4, <2>1, <2>2, <2>3 DEF RootsOK
  <1>8. UsersOK
    <2>1. Natives = {} /\ Due = {}
      BY <1>3, <1>4 DEF Natives, Due
    <2>2. \A u \in Users : users[u] = NoUse
      BY <1>4
    <2>3. UserOK(NoUse) /\ ~NoUse.cleanup
      <3>1. PICK f \in BOOLEAN : f = FALSE
        OBVIOUS
      <3>2. NoUse = [registered |-> f, cleanup |-> f, called |-> 0, cleaned |-> 0]
        BY <3>1, Zenon DEF NoUse
      <3>3. 0 \in {0, 1} /\ 0 # 1
        OBVIOUS
      <3>4. UserOK([registered |-> f, cleanup |-> f, called |-> 0, cleaned |-> 0])
        BY <3>1, <3>3, UserMade
      <3>5. NoUse.cleanup = f
        BY <3>2
      <3> QED BY <3>1, <3>2, <3>4, <3>5
    <2>4. \A c \in Ids : heap[c].type = "Coroutine" => heap[c].native_callback = NoObject
      BY <1>3, <1>4
    <2>5. DOMAIN users = Users /\ frame = NoFrame
      BY <1>4
    <2> QED BY <2>1, <2>2, <2>3, <2>4, <2>5 DEF UsersOK
  <1> QED BY <1>5, <1>6, <1>7, <1>8 DEF HostInv

\* Calls about handles and plain values.
LEMMA HandleCalls ==
    ASSUME HostInv, StorageInv, CallHandle
    PROVE  HostInv'
  <1>1. CASE tiro_global_new
    BY <1>1, GlobalNew
  <1>2. CASE \E g \in Handles : tiro_global_free(g)
    BY <1>2, GlobalFree
  <1>3. CASE tiro_error_free
    BY <1>3, ErrorFree
  <1>4. ASSUME NEW r \in Results,
               \/ \E v \in Args : tiro_value_copy(v, r)
               \/ tiro_make_null(r)
               \/ \E n \in Numbers : tiro_make_integer(n, r)
               \/ \E n \in Names : tiro_make_string(n, r)
               \/ \E v \in Args : tiro_value_type(v, r)
               \/ \E k \in {"array", "function", "internal"} : tiro_kind_type(k, r)
               \/ \E t \in Args : tiro_type_name(t, r)
        PROVE  HostInv'
    <2>1. CallStep
      BY <1>4, PlainCall
    <2> QED BY <2>1, CallKeepsInv
  <1> QED BY <1>1, <1>2, <1>3, <1>4 DEF CallHandle

\* Calls about modules.
LEMMA ModuleCalls ==
    ASSUME HostInv, CallModule
    PROVE  HostInv'
  <1>1. ASSUME NEW n \in Names, NEW names \in BoundedSeq(Names, program.length), NEW r \in Results,
               NEW values \in [DOMAIN names -> Args], tiro_make_module(n, names, values, r)
        PROVE  HostInv'
    BY <1>1, MakeModule, CallKeepsInv
  <1>2. ASSUME NEW o \in Args, NEW n \in Names, NEW r \in Results, tiro_module_get_export(o, n, r)
        PROVE  HostInv'
    BY <1>2, ModuleGetExport, CallKeepsInv
  <1>3. ASSUME NEW o \in Args, tiro_vm_load_module(o)
        PROVE  HostInv'
    BY <1>3, LoadModule
  <1>4. ASSUME NEW m \in Names, NEW n \in Names, NEW r \in Results, tiro_vm_get_export(m, n, r)
        PROVE  HostInv'
    BY <1>4, VmGetExport, CallKeepsInv
  <1> QED BY <1>1, <1>2, <1>3, <1>4 DEF CallModule

\* Calls about coroutines, and what coroutines do.
LEMMA CoroutineCalls ==
    ASSUME HostInv, CallCoroutine
    PROVE  HostInv'
  <1>1. ASSUME NEW r \in Results, tiro_make_native(r)
        PROVE  HostInv'
    BY <1>1, MakeNative
  <1>2. ASSUME NEW r \in Results, MakeFunction(r)
        PROVE  HostInv'
    <2>1. CallStep
      BY <1>2, PlainCall
    <2> QED BY <2>1, CallKeepsInv
  <1>3. ASSUME NEW f \in Args, NEW a \in Args, NEW r \in Results, tiro_make_coroutine(f, a, r)
        PROVE  HostInv'
    BY <1>3, MakeCoroutine, CallKeepsInv
  <1>4. ASSUME NEW c \in Args, tiro_coroutine_start(c)
        PROVE  HostInv'
    BY <1>4, CoroutineStart
  <1>5. ASSUME NEW c \in Args, NEW r \in Results, tiro_coroutine_result(c, r)
        PROVE  HostInv'
    BY <1>5, CoroutineResult, CallKeepsInv
  <1>6. ASSUME NEW c \in Args, NEW callback \in BOOLEAN, NEW cleanup \in BOOLEAN,
               tiro_coroutine_set_callback(c, callback, cleanup)
        PROVE  HostInv'
    BY <1>6, CallbackSet
  <1>7. ASSUME tiro_vm_run_ready \/ RunReadyReturns
        PROVE  HostInv'
    BY <1>7, RunReady
  <1>8. ASSUME NEW completes \in BOOLEAN, RunCoroutine(completes)
        PROVE  HostInv'
    <2>1. CASE completes = TRUE
      BY <1>8, <2>1, CoroutineCompletes
    <2>2. CASE completes = FALSE
      BY <1>8, <2>2, CoroutineWaits
    <2> QED BY <2>1, <2>2
  <1>9. ASSUME NEW c \in Ids, ResumeCoroutine(c)
        PROVE  HostInv'
    BY <1>9, CoroutineResumed
  <1>10. ASSUME CallbackReturns
         PROVE  HostInv'
    BY <1>10, CallbackDone
  <1> QED BY <1>1, <1>2, <1>3, <1>4, <1>5, <1>6, <1>7, <1>8, <1>9, <1>10 DEF CallCoroutine

\* Every step keeps the invariant.
LEMMA HostStep ==
    ASSUME HostInv, StorageInv, [Next]_vars
    PROVE  HostInv'
  <1>1. CASE CallHandle
    BY <1>1, HandleCalls
  <1>2. CASE CallContainer
    BY <1>2, ContainerCalls, CallKeepsInv
  <1>3. CASE CallScript
    BY <1>3, ScriptCalls, CallKeepsInv
  <1>4. CASE CallModule
    BY <1>4, ModuleCalls
  <1>5. CASE CallCoroutine
    BY <1>5, CoroutineCalls
  <1>6. CASE \E tokens \in SUBSET Waiting : collect(tokens)
    BY <1>6, Collected
  <1>7. CASE tiro_vm_free
    BY <1>7, Freed
  <1>8. CASE UNCHANGED vars
    <2>1. UNCHANGED <<slot, allocated, heap, spec, users, frame, program, registry, ready, running, vm, err, crashed>>
      BY <1>8 DEF vars, storage, scheduling
    <2>2. RootsOK'
      BY <2>1, SameRoots DEF HostInv, RootsOK
    <2> QED BY <2>1, <2>2, Unchanged
  <1> QED BY <1>1, <1>2, <1>3, <1>4, <1>5, <1>6, <1>7, <1>8 DEF Next

-----------------------------------------------------------------------------
(* What the invariant implies. *)

\* The invariant gives every variable its type.
LEMMA Typed ==
    ASSUME HostInv, StorageInv
    PROVE  TypeOK
  <1>1. first_free \in Slots \union {NULL}
    BY FirstFree
  <1>2. free_slots \in 0..Cardinality(Slots)
    <2>1. PICK list \in [1..free_slots -> FreeSlots] : \A m, n \in 1..free_slots : list[m] = list[n] => m = n
      BY DEF StorageInv, FreeListExact
    <2>2. FreeSlots \subseteq Slots
      BY PageBounds DEF StorageInv, FreeSlots
    <2>3. list \in Injection(1..free_slots, Slots)
      BY <2>1, <2>2 DEF Injection, IsInjective
    <2>4. IsFiniteSet(Slots)
      <3>1. PICK n \in Nat : n = PageSlots * MaxPages
        BY HostAssumption
      <3> QED BY <3>1, FS_Interval DEF Slots
    <2>5. free_slots \in Nat
      BY DEF StorageInv
    <2>6. Cardinality(1..free_slots) = free_slots
      BY <2>5, FS_Interval
    <2>7. Cardinality(1..free_slots) <= Cardinality(Slots)
      BY <2>3, <2>4, FS_Injection
    <2>8. Cardinality(Slots) \in Nat
      BY <2>4, FS_CardinalityType
    <2> QED BY <2>5, <2>6, <2>7, <2>8
  <1>3. /\ \A s \in Slots : slot[s][1] = IF allocated[s] THEN "value" ELSE "next"
        /\ \A s \in Slots \ Handles : slot[s][2] \in Slots \union {NULL}
    <2> SUFFICES ASSUME NEW s \in Slots
                 PROVE  /\ slot[s][1] = IF allocated[s] THEN "value" ELSE "next"
                        /\ ~allocated[s] => slot[s][2] \in Slots \union {NULL}
      BY DEF Handles
    <2>1. /\ allocated[s] => slot[s] = Stored(slot[s][2])
          /\ ~allocated[s] => slot[s] = NextFree(slot[s][2]) /\ slot[s][2] \in Slots \union {NULL}
      BY DEF HostInv, SlotsOK
    <2>2. \A v : Stored(v)[1] = "value" /\ NextFree(v)[1] = "next"
      BY DEF Stored, NextFree
    <2>3. /\ allocated[s] => slot[s][1] = "value"
          /\ ~allocated[s] => slot[s][1] = "next"
      BY <2>1, <2>2, Zenon
    <2> QED BY <2>1, <2>3
  <1>4. \A i \in Ids : References(heap[i]) \subseteq Ids
    BY ReferencesLive DEF HostInv, HeapOK, Live
  <1>5. ToSet(ready) \subseteq Ids
    BY DEF HostInv, RootsOK, ReadyOK, ToSet
  <1>6. pages \in 0..MaxPages
    BY DEF StorageInv
  <1> QED BY <1>1, <1>2, <1>3, <1>4, <1>5, <1>6 DEF TypeOK, HostInv, RootsOK

\* What the calls have promised that an object refers to exists.
LEMMA PromisedLive ==
    ASSUME HostInv, NEW i \in Ids, heap[i].type # "Buffer"
    PROVE  PromisedRefs(i) \subseteq Live(heap)
  <1>1. PICK o : o = heap[i]
    OBVIOUS
  <1>2. ObjectOK(heap, o) /\ spec[i] = View(heap, o)
    BY <1>1 DEF HostInv, HeapOK
  <1>3. \A k \in DOMAIN View(heap, o) : IsValue(heap, View(heap, o)[k])
    <2>1. CASE o.type = "Tuple"
      <3>1. AreValues(heap, o.values) /\ View(heap, o) = o.values
        BY <1>2, <2>1, ObjectKinds DEF TupleOK, View
      <3> QED BY <3>1 DEF AreValues
    <2>2. CASE o.type = "Array"
      <3>1. AreValues(heap, o.values) /\ View(heap, o) = o.values
        BY <1>2, <2>2, ObjectKinds DEF ArrayOK, View
      <3> QED BY <3>1 DEF AreValues
    <2>3. CASE o.type = "Record"
      <3>1. ObjectOK(heap, heap[o.schema])
        <4>1. RecordOK(heap, o)
          BY <1>2, <2>3, ObjectKinds
        <4> QED BY <4>1 DEF RecordOK, HostInv, HeapOK
      <3>2. /\ RecordOK(heap, o)
            /\ \A k \in DOMAIN heap[o.schema].props : heap[o.schema].props[k] + 1 \in DOMAIN o.values
        BY <1>2, <2>3, <3>1, RecordIndex
      <3>3. View(heap, o) = [k \in DOMAIN heap[o.schema].props |-> o.values[heap[o.schema].props[k] + 1]]
        BY <2>3 DEF View, record_get, index_of
      <3> QED BY <3>2, <3>3 DEF RecordOK, AreValues
    <2>4. CASE o.type = "Result"
      <3>1. IsValue(heap, o.value) /\ View(heap, o) = <<o.value>>
        BY <1>2, <2>4, ObjectKinds DEF ResultOK, View
      <3> QED BY <3>1
    <2>5. CASE o.type = "Module"
      <3>1. AreValues(heap, o.members) /\ View(heap, o) = o.members
        BY <1>2, <2>5, ObjectKinds DEF ModuleOK, View
      <3> QED BY <3>1 DEF AreValues
    <2>6. CASE o.type = "BoundMethod"
      <3>1. IsValue(heap, o.object) /\ View(heap, o) = <<o.object>>
        BY <1>2, <2>6, ObjectKinds DEF MethodOK, View
      <3> QED BY <3>1
    <2>7. CASE o.type \in {"RecordSchema", "Coroutine", "NativeObject", "Free"}
      <3>1. View(heap, o) = <<>>
        BY <2>7 DEF View
      <3> QED BY <3>1
    <2>8. o.type \in ObjectTypes \union {"Free"} /\ o.type # "Buffer"
      BY <1>1, <1>2, ObjectKinds
    <2> QED BY <2>1, <2>2, <2>3, <2>4, <2>5, <2>6, <2>7, <2>8 DEF ObjectTypes
  <1>4. PICK s : s = [k \in DOMAIN spec[i] |-> spec[i][k]]
    OBVIOUS
  <1>5. \A k \in DOMAIN s : IsValue(heap, s[k])
    BY <1>2, <1>3, <1>4
  <1>6. Refs(s) \subseteq Live(heap)
    BY <1>5, RefsInside DEF IsValue
  <1> QED BY <1>4, <1>6 DEF PromisedRefs

\* What the host can reach exists, and holds what was promised.
LEMMA Kept ==
    ASSUME HostInv
    PROVE  ContentsKept
  <1>1. PICK roots : roots = (UNION {Refs(<<slot[h][2]>>) : h \in Handles}) \union ToSet(ready)
                                \union (({registry[n] : n \in Names} \union {frame.coroutine, frame.callback})
                                        \ {NoObject})
    OBVIOUS
  <1>2. PICK promised : promised = [i \in Ids |-> IF heap[i].type = "Buffer" THEN {} ELSE PromisedRefs(i)]
    OBVIOUS
  <1>3. roots \subseteq Live(heap)
    <2>1. \A h \in Handles : Refs(<<slot[h][2]>>) \subseteq Live(heap)
      <3>1. \A h \in Handles : IsValue(heap, slot[h][2])
        BY DEF HostInv, SlotsOK, Handles
      <3> QED BY <3>1, RefsOfOne DEF IsValue
    <2>2. PICK none \in SUBSET Waiting : none = {}
      OBVIOUS
    <2>3. trace(none) \ {NoObject} \subseteq Live(heap)
      BY TraceLive
    <2>4. /\ \A n \in Names : registry[n] \in trace(none)
          /\ \A k \in DOMAIN ready : ready[k] \in trace(none)
          /\ frame.coroutine \in trace(none) /\ frame.callback \in trace(none)
      BY TraceLive
    <2>5. ToSet(ready) \subseteq Live(heap)
      <3>1. \A k \in DOMAIN ready : ready[k] \in Ids
        BY DEF HostInv, RootsOK, ReadyOK
      <3>2. NoObject \notin Ids
        BY IdFacts
      <3> QED BY <2>3, <2>4, <3>1, <3>2 DEF ToSet
    <2> SUFFICES ASSUME NEW x \in roots PROVE x \in Live(heap)
      OBVIOUS
    <2>6. CASE \E h \in Handles : x \in Refs(<<slot[h][2]>>)
      BY <2>1, <2>6
    <2>7. CASE x \in ToSet(ready)
      BY <2>5, <2>7
    <2>8. CASE /\ x # NoObject
               /\ (\E n \in Names : x = registry[n]) \/ x = frame.coroutine \/ x = frame.callback
      BY <2>3, <2>4, <2>8
    <2>9. x \in UNION {Refs(<<slot[h][2]>>) : h \in Handles} \/ x \in ToSet(ready)
          \/ x \in ({registry[n] : n \in Names} \union {frame.coroutine, frame.callback}) \ {NoObject}
      BY <1>1, Zenon
    <2>10. x \in UNION {Refs(<<slot[h][2]>>) : h \in Handles}
             => \E h \in Handles : x \in Refs(<<slot[h][2]>>)
      BY Zenon
    <2>11. x \in ({registry[n] : n \in Names} \union {frame.coroutine, frame.callback}) \ {NoObject}
             => /\ x # NoObject
                /\ (\E n \in Names : x = registry[n]) \/ x = frame.coroutine \/ x = frame.callback
      BY Zenon
    <2> QED BY <2>6, <2>7, <2>8, <2>9, <2>10, <2>11, Zenon
  <1>4. \A i \in Live(heap) : promised[i] \subseteq Live(heap)
    BY <1>2, PromisedLive DEF Live
  <1>5. Closure(roots, promised) \subseteq Live(heap)
    BY <1>3, <1>4, ClosureInside
  <1>6. ASSUME NEW i \in Live(heap)
        PROVE  /\ heap[i].type # "Free"
               /\ heap[i].type = "Record" => heap[heap[i].schema].type = "RecordSchema"
               /\ View(heap, heap[i]) = spec[i]
    <2>1. i \in Ids /\ ObjectOK(heap, heap[i]) /\ View(heap, heap[i]) = spec[i]
      BY DEF Live, HostInv, HeapOK
    <2>2. heap[i].type = "Record" => RecordOK(heap, heap[i])
      BY <2>1, ObjectKinds
    <2> QED BY <2>1, <2>2 DEF Live, RecordOK
  <1>7. frame # NoFrame => heap[frame.callback].type = "NativeObject"
    BY DEF HostInv, RootsOK
  <1>8. \A i \in Closure(roots, promised) :
            /\ heap[i].type # "Free"
            /\ heap[i].type = "Record" => heap[heap[i].schema].type = "RecordSchema"
            /\ View(heap, heap[i]) = spec[i]
    BY <1>5, <1>6
  <1> QED BY <1>1, <1>2, <1>7, <1>8, Zenon DEF ContentsKept

\* Arrays and records have storage for their elements.
LEMMA Fits ==
    ASSUME HostInv
    PROVE  StorageFits
  <1> SUFFICES ASSUME NEW i \in Ids
               PROVE  /\ heap[i].type = "Array" => Len(heap[i].values) <= heap[i].capacity
                      /\ heap[i].type = "Record" => Len(heap[i].values) = schema_size(heap[heap[i].schema])
    BY DEF StorageFits
  <1>1. /\ heap[i].type = "Array" => ArrayOK(heap, heap[i])
        /\ heap[i].type = "Record" => RecordOK(heap, heap[i])
    BY ObjectKinds DEF HostInv, HeapOK
  <1> QED BY <1>1 DEF ArrayOK, RecordOK

\* The public types of what a host can hold.
Publics ==
    [Null |-> "Null", SmallInteger |-> "Integer", String |-> "String", Type |-> "Type",
     NativeFunction |-> "Function", BoundMethod |-> "Function", Tuple |-> "Tuple", Array |-> "Array",
     Buffer |-> "Buffer", RecordSchema |-> "RecordSchema", Record |-> "Record", Result |-> "Result",
     Module |-> "Module", Coroutine |-> "Coroutine", NativeObject |-> "NativeObject"]

\* Each internal type belongs to one of them, which is what its kind is mapped to.
LEMMA PublicTypes ==
    ASSUME NEW t \in DOMAIN Publics
    PROVE  /\ public_type(t) = Publics[t]
           /\ t \in DOMAIN Kinds => get_type[Kinds[t]] = Publics[t]
  <1>1. \A p \in DOMAIN to_value_types : t \in to_value_types[p] => p = Publics[t]
    BY DEF to_value_types, Publics
  <1>2. Publics[t] \in DOMAIN to_value_types /\ t \in to_value_types[Publics[t]]
    BY DEF to_value_types, Publics
  <1>3. public_type(t) = Publics[t]
    BY <1>1, <1>2 DEF public_type
  <1>4. t \in DOMAIN Kinds => get_type[Kinds[t]] = Publics[t]
    BY DEF Kinds, get_type, Publics
  <1> QED BY <1>3, <1>4

\* Kinds are those of the public types.
LEMMA KindsMatch ==
    ASSUME HostInv
    PROVE  KindsMatchTypes
  <1> SUFFICES ASSUME NEW h \in Handles, tiro_value_kind(heap, slot[h][2]) # "internal"
               PROVE  get_type[tiro_value_kind(heap, slot[h][2])] = type_of(heap, slot[h][2])
    BY DEF KindsMatchTypes
  <1>1. PICK v : v = slot[h][2]
    OBVIOUS
  <1>2. PICK t : t = value_type(heap, v)
    OBVIOUS
  <1>3. IsValue(heap, v)
    BY <1>1 DEF HostInv, SlotsOK, Handles
  <1>4. t \in DOMAIN Publics
    <2>1. CASE v[1] = "Object"
      <3>1. v[2] \in Ids /\ heap[v[2]].type # "Free" /\ t = heap[v[2]].type
        BY <1>2, <1>3, <2>1 DEF IsValue, Live, value_type
      <3>2. t \in ObjectTypes
        BY <3>1, ObjectKinds DEF HostInv, HeapOK
      <3> QED BY <3>2 DEF ObjectTypes, Publics
    <2>2. CASE v[1] # "Object"
      BY <1>2, <1>3, <2>2 DEF IsValue, value_type, Publics
    <2> QED BY <2>1, <2>2
  <1>5. t \in DOMAIN Kinds /\ tiro_value_kind(heap, v) = Kinds[t]
    BY <1>1, <1>2 DEF tiro_value_kind
  <1>6. type_of(heap, v) = public_type(t)
    BY <1>2 DEF type_of
  <1> QED BY <1>1, <1>4, <1>5, <1>6, PublicTypes

\* Callbacks are called, and userdata cleaned up, once.
LEMMA Cleaned ==
    ASSUME HostInv
    PROVE  CleanedOnce
  <1>1. ASSUME NEW u \in Users
        PROVE  /\ users[u].called <= 1
               /\ users[u].cleaned <= IF users[u].cleanup THEN 1 ELSE 0
               /\ vm = "freed" /\ users[u].cleanup => users[u].cleaned = 1
    <2>1. UserOK(users[u])
      BY DEF HostInv, UsersOK
    <2>2. users[u].called \in {0, 1} /\ users[u].cleaned \in {0, 1} /\ (users[u].cleaned = 1 => users[u].cleanup)
      BY <2>1 DEF UserOK
    <2>3. vm = "freed" /\ users[u].cleanup => users[u].cleaned # 0
      <3> SUFFICES ASSUME vm = "freed", users[u].cleanup, users[u].cleaned = 0
                   PROVE  FALSE
        OBVIOUS
      <3>1. PICK i \in Natives : heap[i].userdata = u /\ heap[i].cleanup
        BY DEF HostInv, UsersOK
      <3>2. \A j \in Ids : heap[j] = Free
        BY DEF HostInv, RootsOK
      <3> QED BY <3>1, <3>2 DEF Natives, Free
    <2> QED BY <2>2, <2>3
  <1>2. frame # NoFrame => users[heap[frame.callback].userdata].cleaned = 0
    BY DEF HostInv, UsersOK, User
  <1> QED BY <1>1, <1>2 DEF CleanedOnce

\* The three facts behind the theorems.
LEMMA Inductive ==
    /\ Init => HostInv /\ StorageInv
    /\ HostInv /\ StorageInv /\ [Next]_vars => HostInv' /\ StorageInv'
    /\ HostInv /\ StorageInv => ObjectsKept /\ CleanedOnce
  BY InitHostInv, InitInv, HostStep, StepInv, Typed, Kept, Fits, KindsMatch, Cleaned DEF ObjectsKept

\* Whatever a host can reach keeps its contents, its storage and its kind, whatever calls the
\* host and its scripts make of the API, in whatever order, and whatever the collector frees
\* between them (api/objects.cpp, vm/objects).
THEOREM ObjectsKeptCorrect == Spec => []ObjectsKept
  <1>1. Init => HostInv /\ StorageInv
    BY Inductive
  <1>2. HostInv /\ StorageInv /\ [Next]_vars => HostInv' /\ StorageInv'
    BY Inductive
  <1>3. HostInv /\ StorageInv => ObjectsKept
    BY Inductive
  <1> QED BY <1>1, <1>2, <1>3, PTL DEF Spec

\* The callback of a coroutine is called once at most, and what the host has handed over is
\* cleaned up exactly once, by the callback's end, a call that fails, or a finalizer
\* (vm/objects/coroutine.cpp, vm/objects/native.cpp, api/objects.cpp).
THEOREM CleanedOnceCorrect == Spec => []CleanedOnce
  <1>1. Init => HostInv /\ StorageInv
    BY Inductive
  <1>2. HostInv /\ StorageInv /\ [Next]_vars => HostInv' /\ StorageInv'
    BY Inductive
  <1>3. HostInv /\ StorageInv => CleanedOnce
    BY Inductive
  <1> QED BY <1>1, <1>2, <1>3, PTL DEF Spec
=============================================================================
