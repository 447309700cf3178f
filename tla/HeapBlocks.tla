------------------------------ MODULE HeapBlocks ------------------------------
(***************************************************************************)
(* The pure part of memory-allocator/src/mem.c: size arithmetic, block     *)
(* headers, splitting and merging.  A heap is a function from the address  *)
(* of a header to the header stored there; the null pointer is 0.          *)
(***************************************************************************)
EXTENDS Integers

CONSTANTS
  Header,              (* offsetof(struct block_header, contents)          *)
  BLOCK_MIN_CAPACITY,  (* smallest capacity a split leaves behind          *)
  PageSize,            (* getpagesize()                                    *)
  REGION_MIN_SIZE,     (* smallest region asked of mmap                    *)
  AddrLimit,           (* addresses the kernel hands out lie below it      *)
  SizeMod              (* 2^w for the w bits of size_t                     *)

(* Addresses are far below 2^w, so a sum of an address and a header does not *)
(* wrap; only the sizes a caller asks for can make the arithmetic wrap.      *)
ASSUME SizesAssumption ==
  /\ Header \in Nat \ {0}
  /\ BLOCK_MIN_CAPACITY \in Nat \ {0}
  /\ PageSize \in Nat \ {0}
  /\ REGION_MIN_SIZE \in Nat
  /\ Header < REGION_MIN_SIZE
  /\ AddrLimit \in Nat
  /\ SizeMod \in Nat
  /\ AddrLimit + Header + BLOCK_MIN_CAPACITY < SizeMod
  /\ REGION_MIN_SIZE < SizeMod
  /\ REGION_MIN_SIZE % PageSize = 0
  /\ SizeMod % PageSize = 0

NULL == 0
Addr == 1 .. (AddrLimit - 1)
SizeT == 0 .. (SizeMod - 1)

Block == [next : Addr \union {NULL}, capacity : Nat, is_free : BOOLEAN]
-------------------------------------------------------------------------------
SizeMax(x, y) == IF x >= y THEN x ELSE y

PagesCount(mem) == mem \div PageSize + (IF mem % PageSize > 0 THEN 1 ELSE 0)

RoundPages(mem) == (PageSize * PagesCount(mem)) % SizeMod

(* The length alloc_region maps for a query: both the sum and the rounding *)
(* are computed in size_t.                                                 *)
RegionSize(query) ==
  SizeMax(RoundPages((query + Header) % SizeMod), REGION_MIN_SIZE)

(* The query whose region is computed without a wrap. *)
Representable(query) ==
  /\ query + Header < SizeMod
  /\ PageSize * PagesCount(query + Header) < SizeMod
-------------------------------------------------------------------------------
Contents(a) == a + Header

SizeOf(h, a) == h[a].capacity + Header

BlockInit(size, nxt) == [next |-> nxt, capacity |-> size - Header, is_free |-> TRUE]

BlockAfter(h, a) == Contents(a) + h[a].capacity

(* The mutant compares with the whole size, header included. *)
BigEnoughBySize(h, a, query) == SizeOf(h, a) >= query

BigEnough(h, a, query) == h[a].capacity >= query

BlocksContinuous(h, fst, snd) == snd = BlockAfter(h, fst)

Mergeable(h, fst, snd) ==
  h[fst].is_free /\ h[snd].is_free /\ BlocksContinuous(h, fst, snd)

CanMergeWithNext(h, a) == h[a].next # NULL /\ Mergeable(h, a, h[a].next)

(* Block a gets a new size and link; the block behind it is no more. *)
Absorb(h, a, size, nxt) ==
  [c \in DOMAIN h \ {h[a].next} |-> IF c = a THEN BlockInit(size, nxt) ELSE h[c]]

(* The mutant loses the second header from the size. *)
MergeByCapacity(h, a) ==
  Absorb(h, a, SizeOf(h, a) + h[h[a].next].capacity, h[h[a].next].next)

MergeWithNext(h, a) ==
  Absorb(h, a, SizeOf(h, a) + SizeOf(h, h[a].next), h[h[a].next].next)

TryMergeWithNext(h, a) == IF CanMergeWithNext(h, a) THEN MergeWithNext(h, a) ELSE h

Splittable(h, a, query) ==
  h[a].is_free /\ query + Header + BLOCK_MIN_CAPACITY <= h[a].capacity

(* Block a becomes first, and a block second appears at address at. *)
SplitInto(h, a, at, first, second) ==
  [c \in DOMAIN h \union {at} |-> IF c = a THEN first ELSE IF c = at THEN second ELSE h[c]]

SplitAddress(a, query) == Contents(a) + SizeMax(query, BLOCK_MIN_CAPACITY)

(* The mutants: the list ends at the rest; the block does not shrink. *)
SplitLosingTail(h, a, query) ==
  LET cap == SizeMax(query, BLOCK_MIN_CAPACITY)
      at == SplitAddress(a, query)
  IN SplitInto(h, a, at, BlockInit(cap + Header, at), BlockInit(h[a].capacity - cap, NULL))

SplitWithoutShrinking(h, a, query) ==
  LET cap == SizeMax(query, BLOCK_MIN_CAPACITY)
      at == SplitAddress(a, query)
  IN SplitInto(h, a, at, [h[a] EXCEPT !.next = at], BlockInit(h[a].capacity - cap, h[a].next))

(* A splittable block becomes a block of the size asked for and the rest, a *)
(* free block that takes over the old link.                                 *)
Split(h, a, query) ==
  LET cap == SizeMax(query, BLOCK_MIN_CAPACITY)
      at == SplitAddress(a, query)
  IN SplitInto(h, a, at, BlockInit(cap + Header, at),
               BlockInit(h[a].capacity - cap, h[a].next))

SplitIfTooBig(h, a, query) == IF Splittable(h, a, query) THEN Split(h, a, query) ELSE h
===============================================================================
