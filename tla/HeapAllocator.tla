----------------------------- MODULE HeapAllocator -----------------------------
(***************************************************************************)
(* memory-allocator/src/mem.c as a state machine: heap_init, _malloc,      *)
(* _free and heap_term over the blocks of HeapBlocks, with the kernel's    *)
(* mmap and munmap underneath.  A call of _malloc or heap_term takes one   *)
(* step per iteration of its loop.  The allocator has no lock, so its      *)
(* client is one thread: calls do not overlap, and the rest of the program *)
(* maps and unmaps its own pages only between calls.                       *)
(***************************************************************************)
EXTENDS HeapBlocks

CONSTANTS
  HEAP_START,    (* where heap_init asks for the first region              *)
  InitSizes,     (* sizes the client passes to heap_init                   *)
  Queries,       (* sizes the client passes to _malloc                     *)
  ForeignPages   (* pages that code outside the allocator may map          *)

ASSUME HeapAssumption ==
  /\ HEAP_START \in Nat \ {0}
  /\ HEAP_START % PageSize = 0
  /\ InitSizes \subseteq SizeT
  /\ Queries \subseteq SizeT
  /\ \A p \in ForeignPages : p \in Nat /\ p > 0 /\ p % PageSize = 0

VARIABLES
  heap,      (* header address |-> block header, for every block           *)
  owned,     (* bytes mapped by the allocator                              *)
  foreign,   (* bytes mapped by the rest of the program                    *)
  base,      (* what heap_init returned, NULL without a heap               *)
  held,      (* contents address |-> size asked for, for every live object *)
  pc,        (* where the allocator is                                     *)
  cur,       (* the block the running loop is at                           *)
  query,     (* the size the running _malloc was called with               *)
  grown,     (* whether the running _malloc has called grow_heap           *)
  rstart,    (* heap_term: start of the run of contiguous blocks           *)
  rsize      (* heap_term: bytes of that run walked so far                 *)

memory == <<heap, owned, foreign, base, held>>
call == <<pc, cur, query, grown, rstart, rsize>>
vars == <<heap, owned, foreign, base, held, pc, cur, query, grown, rstart, rsize>>

Bytes(a, n) == a .. (a + n - 1)

EmptyHeap == [a \in {} |-> BlockInit(Header, NULL)]
NoObjects == [p \in {} |-> 0]
-------------------------------------------------------------------------------
(* mmap: the range asked for when it is free and aligned, else a range of  *)
(* the kernel's choice.  An empty set is a failure of both attempts.       *)
IsFreeRange(a, n) ==
  /\ a > 0 /\ a % PageSize = 0
  /\ a + n <= AddrLimit
  /\ Bytes(a, n) \intersect (owned \union foreign) = {}

MapPages(a, n) == IF IsFreeRange(a, n) THEN {a} ELSE {r \in Addr : IsFreeRange(r, n)}

Unmapped(a, n) == IF a % PageSize = 0 THEN Bytes(a, RoundPages(n)) ELSE {}
-------------------------------------------------------------------------------
Init ==
  /\ heap = EmptyHeap /\ owned = {} /\ foreign = {} /\ base = NULL
  /\ held = NoObjects
  /\ pc = "off" /\ cur = NULL /\ query = 0 /\ grown = FALSE
  /\ rstart = NULL /\ rsize = 0

(* heap_init; a failed mmap returns NULL and changes nothing. *)
HeapInit(initial) ==
  /\ pc = "off"
  /\ \E r \in MapPages(HEAP_START, RegionSize(initial)) :
       /\ heap' = [a \in {r} |-> BlockInit(RegionSize(initial), NULL)]
       /\ owned' = owned \union Bytes(r, RegionSize(initial))
       /\ base' = r
  /\ pc' = "idle"
  /\ UNCHANGED <<foreign, held, cur, query, grown, rstart, rsize>>

(* _malloc starts its search at the constant HEAP_START. *)
Malloc(q) ==
  /\ pc = "idle"
  /\ pc' = "find" /\ cur' = HEAP_START /\ query' = q /\ grown' = FALSE
  /\ UNCHANGED <<memory, rstart, rsize>>

(* _free of a live object: its block is free and joins one free successor. *)
Free(p) ==
  /\ pc = "idle" /\ p \in DOMAIN held
  /\ heap' = TryMergeWithNext([heap EXCEPT ![p - Header].is_free = TRUE], p - Header)
  /\ held' = [o \in DOMAIN held \ {p} |-> held[o]]
  /\ UNCHANGED <<owned, foreign, base, call>>

Return ==
  pc' = "idle" /\ cur' = NULL /\ query' = 0 /\ grown' = FALSE /\ UNCHANGED <<rstart, rsize>>
-------------------------------------------------------------------------------
(* find_good_or_last, one step per merge and per block; memalloc raises the *)
(* query to the smallest capacity first.                                    *)
Need == SizeMax(query, BLOCK_MIN_CAPACITY)

Searching == pc = "find" /\ cur \in DOMAIN heap

GoodBlock == heap[cur].is_free /\ BigEnough(heap, cur, Need)

FindMerge ==
  /\ Searching /\ CanMergeWithNext(heap, cur)
  /\ heap' = MergeWithNext(heap, cur)
  /\ UNCHANGED <<owned, foreign, base, held, call>>

(* The mutant returns the block without marking it used. *)
FindGoodUnmarked ==
  /\ Searching /\ ~CanMergeWithNext(heap, cur) /\ GoodBlock
  /\ heap' = SplitIfTooBig(heap, cur, Need)
  /\ held' = [o \in DOMAIN held \union {Contents(cur)} |->
                IF o = Contents(cur) THEN query ELSE held[o]]
  /\ Return
  /\ UNCHANGED <<owned, foreign, base>>

FindGood ==
  /\ Searching /\ ~CanMergeWithNext(heap, cur) /\ GoodBlock
  /\ heap' = [SplitIfTooBig(heap, cur, Need) EXCEPT ![cur].is_free = FALSE]
  /\ held' = [o \in DOMAIN held \union {Contents(cur)} |->
                IF o = Contents(cur) THEN query ELSE held[o]]
  /\ Return
  /\ UNCHANGED <<owned, foreign, base>>

(* The mutants stay where they are, and go on before every merge is done. *)
FindNextStuck ==
  /\ Searching /\ ~CanMergeWithNext(heap, cur) /\ ~GoodBlock /\ heap[cur].next # NULL
  /\ cur' = cur
  /\ UNCHANGED <<memory, pc, query, grown, rstart, rsize>>

FindNextUnmerged ==
  /\ Searching /\ ~GoodBlock /\ heap[cur].next # NULL
  /\ cur' = heap[cur].next
  /\ UNCHANGED <<memory, pc, query, grown, rstart, rsize>>

FindNext ==
  /\ Searching /\ ~CanMergeWithNext(heap, cur) /\ ~GoodBlock /\ heap[cur].next # NULL
  /\ cur' = heap[cur].next
  /\ UNCHANGED <<memory, pc, query, grown, rstart, rsize>>

FindLast ==
  /\ Searching /\ ~GoodBlock /\ heap[cur].next = NULL /\ ~grown
  /\ pc' = "grow"
  /\ UNCHANGED <<memory, cur, query, grown, rstart, rsize>>

(* The search after grow_heap found nothing: _malloc returns NULL. *)
FindGiveUp ==
  /\ Searching /\ ~GoodBlock /\ heap[cur].next = NULL /\ grown
  /\ Return
  /\ UNCHANGED memory

(* heap[last] linked to a new region of one free block. *)
Linked(last, r, n) ==
  [c \in DOMAIN heap \union {r} |->
     IF c = r THEN BlockInit(n, NULL)
     ELSE IF c = last THEN [heap[c] EXCEPT !.next = r]
     ELSE heap[c]]

Grow ==
  /\ pc = "grow"
  /\ \E r \in MapPages(BlockAfter(heap, cur), RegionSize(Need)) :
       LET linked == Linked(cur, r, RegionSize(Need))
       IN /\ owned' = owned \union Bytes(r, RegionSize(Need))
          /\ heap' = TryMergeWithNext(linked, cur)
          /\ cur' = IF CanMergeWithNext(linked, cur) THEN cur ELSE r
  /\ pc' = "find" /\ grown' = TRUE
  /\ UNCHANGED <<foreign, base, held, query, rstart, rsize>>

(* Both mmap calls fail: try_memalloc_existing gets NULL, _malloc too. *)
GrowFail ==
  /\ pc = "grow"
  /\ Return
  /\ UNCHANGED memory
-------------------------------------------------------------------------------
(* heap_term also starts at HEAP_START; the client gives up its objects. *)
HeapTerm ==
  /\ pc = "idle"
  /\ pc' = "term" /\ cur' = HEAP_START /\ rstart' = HEAP_START /\ rsize' = 0
  /\ held' = NoObjects
  /\ UNCHANGED <<heap, owned, foreign, base, query, grown>>

Terminating == pc = "term" /\ cur \in DOMAIN heap

RunEnds ==
  heap[cur].next = NULL \/ ~BlocksContinuous(heap, cur, heap[cur].next)

(* The mutant: the block is not counted. *)
TermWalkUncounted ==
  /\ Terminating /\ ~RunEnds
  /\ cur' = heap[cur].next
  /\ UNCHANGED <<memory, pc, query, grown, rstart, rsize>>

TermWalk ==
  /\ Terminating /\ ~RunEnds
  /\ rsize' = rsize + SizeOf(heap, cur)
  /\ cur' = heap[cur].next
  /\ UNCHANGED <<memory, pc, query, grown, rstart>>

(* munmap of the run; the headers in it are gone with it.  The loop goes on *)
(* at the given address.                                                   *)
UnmapRun(following) ==
  /\ Terminating /\ RunEnds
  /\ LET gone == Unmapped(rstart, rsize + SizeOf(heap, cur))
     IN /\ owned' = owned \ gone
        /\ foreign' = foreign \ gone
        /\ heap' = [a \in DOMAIN heap \ gone |-> heap[a]]
  /\ rstart' = following /\ rsize' = 0 /\ cur' = following
  /\ pc' = IF heap[cur].next = NULL THEN "off" ELSE "term"
  /\ base' = IF heap[cur].next = NULL THEN NULL ELSE base
  /\ UNCHANGED <<held, query, grown>>

TermUnmap == UnmapRun(heap[cur].next)
-------------------------------------------------------------------------------
(* A loop that reads a header where the allocator never wrote one: nothing *)
(* is known of the program from here on, and the model stops there.        *)
Wild ==
  /\ pc \in {"find", "term"} /\ cur \notin DOMAIN heap
  /\ pc' = "wild"
  /\ UNCHANGED <<memory, cur, query, grown, rstart, rsize>>

Lost == pc = "wild" /\ UNCHANGED vars

ForeignMap(p) ==
  /\ pc \in {"off", "idle"} /\ IsFreeRange(p, PageSize)
  /\ foreign' = foreign \union Bytes(p, PageSize)
  /\ UNCHANGED <<heap, owned, base, held, call>>

ForeignUnmap(p) ==
  /\ pc \in {"off", "idle"} /\ Bytes(p, PageSize) \subseteq foreign
  /\ foreign' = foreign \ Bytes(p, PageSize)
  /\ UNCHANGED <<heap, owned, base, held, call>>

(* What the client and the rest of the program may do between calls. *)
Client ==
  \/ \E n \in InitSizes : HeapInit(n)
  \/ \E q \in Queries : Malloc(q)
  \/ \E p \in DOMAIN held : Free(p)
  \/ HeapTerm
  \/ \E p \in ForeignPages : ForeignMap(p) \/ ForeignUnmap(p)

(* The steps of a call in progress. *)
Step ==
  \/ FindMerge \/ FindGood \/ FindNext \/ FindLast \/ FindGiveUp
  \/ Grow \/ GrowFail
  \/ TermWalk \/ TermUnmap \/ Wild

Next == Client \/ Step \/ Lost

Spec == Init /\ [][Next]_vars

(* The thread inside a call keeps running; nobody is obliged to call. *)
FairSpec == Spec /\ WF_vars(Step)
-------------------------------------------------------------------------------
(* Types of the variables; an object's address and size fit size_t. *)
TypeOK ==
  /\ DOMAIN heap \subseteq Addr /\ heap \in [DOMAIN heap -> Block]
  /\ owned \subseteq Addr /\ foreign \subseteq Addr
  /\ base \in Addr \union {NULL}
  /\ DOMAIN held \subseteq Nat /\ held \in [DOMAIN held -> SizeT]
  /\ pc \in {"off", "idle", "find", "grow", "term", "wild"}
  /\ cur \in Nat /\ query \in SizeT /\ grown \in BOOLEAN
  /\ rstart \in Nat /\ rsize \in Nat

(* Two blocks, headers included, never share a byte, whatever splits,      *)
(* merges and regions placed anywhere came before.                         *)
NoOverlap ==
  \A a, b \in DOMAIN heap : a < b => BlockAfter(heap, a) <= b

(* Every block lies in memory the allocator has mapped, and nobody else's. *)
BlocksInOwnedMemory ==
  /\ \A a \in DOMAIN heap : Bytes(a, SizeOf(heap, a)) \subseteq owned
  /\ owned \intersect foreign = {}

(* No byte of a region is lost: each belongs to some block, until          *)
(* heap_term gives the regions back ("blocks fill the whole region").      *)
BlocksFillRegions ==
  pc # "term" =>
    \A x \in owned : \E a \in DOMAIN heap : x \in Bytes(a, SizeOf(heap, a))

(* A block is marked used exactly while the client holds the object in it, *)
(* and it has room for what the client asked.                              *)
UsedIffHeld ==
  pc \in {"idle", "find", "grow"} =>
    /\ \A p \in DOMAIN held :
         /\ p - Header \in DOMAIN heap
         /\ held[p] <= heap[p - Header].capacity
    /\ \A a \in DOMAIN heap : ~heap[a].is_free <=> Contents(a) \in DOMAIN held

(* Every block can be reached from the first one: a set of blocks that     *)
(* contains the first and all successors of its members is all of them.    *)
Closed(S) ==
  base \in S /\ \A a \in S : heap[a].next # NULL => heap[a].next \in S

AllReachable ==
  pc \in {"idle", "find", "grow"} =>
    /\ base \in DOMAIN heap
    /\ \A a \in DOMAIN heap : heap[a].next \in DOMAIN heap \union {NULL}
    /\ \A S \in SUBSET DOMAIN heap : Closed(S) => S = DOMAIN heap

(* No two links lead to the same block and none leads to the first, so     *)
(* that the list has no cycle and no shared tail.                          *)
ListIsSimple ==
  pc \in {"idle", "find", "grow"} =>
    /\ \A a \in DOMAIN heap : heap[a].next # base
    /\ \A a, b \in DOMAIN heap :
         heap[a].next # NULL /\ heap[a].next = heap[b].next => a = b

(* grow_heap is reached only after a search of the whole list: no free     *)
(* block is large enough, and no two neighbours could still be merged.     *)
GrowOnlyWhenExhausted ==
  pc = "grow" =>
    /\ heap[cur].next = NULL
    /\ \A a \in DOMAIN heap :
         /\ ~CanMergeWithNext(heap, a)
         /\ heap[a].is_free => ~BigEnough(heap, a, Need)

(* When heap_term is done no page of any region is still mapped, although  *)
(* the regions are not recorded: it infers them from the list.             *)
TermReleasesRegions == pc = "off" => owned = {} /\ DOMAIN heap = {}

(* While the client holds an object, no call of the allocator moves or     *)
(* shrinks the block under it.                                             *)
HeldBlocksStable ==
  [][\A p \in DOMAIN held \intersect DOMAIN held' :
       /\ p - Header \in DOMAIN heap'
       /\ BlockAfter(heap', p - Header) = BlockAfter(heap, p - Header)]_vars

(* Every call of _malloc and of heap_term returns, or is lost in memory    *)
(* that is not the allocator's.                                            *)
CallReturns == (pc \in {"find", "grow", "term"}) ~> (pc \in {"idle", "off", "wild"})

(* The client sees the contract: a request is pending during _malloc, and  *)
(* held is what has been granted.                                          *)
Contract ==
  INSTANCE HeapContract WITH
    granted <- held, want <- IF pc \in {"find", "grow"} THEN {query} ELSE {}

ContractSpec == Contract!CSpec
===============================================================================
