------------------------------- MODULE PtChunks -------------------------------
(***************************************************************************)
(* The chunks, bins and system calls of ptmalloc, the malloc whose source  *)
(* lies beside the allocator of this repository as its reference           *)
(* (memory-allocator/docs/malloc-impl.c).  Every operation maps a heap h,  *)
(* the record of all that malloc and the kernel remember, to the heap      *)
(* after it.  The unit of addresses and sizes is a word (SIZE_SZ).         *)
(***************************************************************************)
EXTENDS Integers, Sequences, SequencesExt

CONSTANTS
  NULL,          (* no address                                             *)
  PageSize,
  BrkLimit,      (* sbrk fails beyond                                      *)
  MmapFloor, MmapTop,     (* mmap finds room between                       *)
  MinLargeSize,  (* MIN_LARGE_SIZE: chunks below have bins of one size     *)
  LargeWidth,    (* the sizes of a large bin                               *)
  NBINS,
  MAX_FAST_SIZE,
  TCACHE_MAX_BINS,
  MmapAsMorecoreSize,     (* MMAP_AS_MORECORE_SIZE                         *)
  TcacheBytes,   (* sizeof (tcache_perthread_struct)                       *)
  ConsolidationThreshold, (* FASTBIN_CONSOLIDATION_THRESHOLD               *)
  MmapThresholdMax,       (* DEFAULT_MMAP_THRESHOLD_MAX                    *)
  WordMod        (* the values of size_t                                   *)

SIZE_SZ == 1
CHUNK_HDR_SZ == 2 * SIZE_SZ
MALLOC_ALIGNMENT == 2 * SIZE_SZ
MINSIZE == 4 * SIZE_SZ
StructSize == 6 * SIZE_SZ
PTRDIFF_MAX == (WordMod \div 2) - 1

(* The powers of two that are sizes of a page, and alignments.             *)
Powers == {2 ^ k : k \in 2 .. 16}

ASSUME PtAssumption ==
  /\ NULL \notin Int
  /\ PageSize \in Nat /\ PageSize > StructSize /\ PageSize \in Powers
  /\ BrkLimit \in Nat /\ MmapFloor \in Nat /\ MmapTop \in Nat
  /\ BrkLimit <= MmapFloor /\ MmapFloor <= MmapTop /\ MmapFloor % PageSize = 0 /\ MmapTop % PageSize = 0
  /\ MinLargeSize \in Nat /\ MinLargeSize > MINSIZE /\ MinLargeSize % MALLOC_ALIGNMENT = 0
  /\ LargeWidth \in Nat \ {0} /\ NBINS \in Nat /\ NBINS > MinLargeSize \div MALLOC_ALIGNMENT
  /\ MAX_FAST_SIZE \in Nat /\ MAX_FAST_SIZE > 0 /\ TCACHE_MAX_BINS \in Nat /\ MmapAsMorecoreSize \in Nat
  /\ MmapAsMorecoreSize % PageSize = 0
  /\ TcacheBytes \in Nat /\ ConsolidationThreshold \in Nat /\ MmapThresholdMax \in Nat
  /\ WordMod \in Nat /\ WordMod % (2 * PageSize) = 0 /\ WordMod > 4 * MmapTop

AlignUp(n, a) == ((n + a - 1) \div a) * a
AlignDown(n, a) == (n \div a) * a
-------------------------------------------------------------------------------
(* Sizes and indices.                                                      *)
request2size(req) ==
  IF req + SIZE_SZ + MALLOC_ALIGNMENT - 1 < MINSIZE THEN MINSIZE
  ELSE AlignDown(req + SIZE_SZ + MALLOC_ALIGNMENT - 1, MALLOC_ALIGNMENT)

(* checked_request2size *)
Representable(req) == req <= PTRDIFF_MAX

in_smallbin_range(sz) == sz < MinLargeSize

(* The logarithmic scale of the large bins is cut to one width and a last  *)
(* bin for the rest.                                                       *)
largebin_index(sz) ==
  Min({NBINS - 1, (MinLargeSize \div MALLOC_ALIGNMENT) + ((sz - MinLargeSize) \div LargeWidth)})

bin_index(sz) ==
  IF in_smallbin_range(sz) THEN sz \div MALLOC_ALIGNMENT ELSE largebin_index(sz)

fastbin_index(sz) == (sz \div MALLOC_ALIGNMENT) - 2
NFASTBINS == fastbin_index(request2size(MAX_FAST_SIZE)) + 1

(* set_max_fast: 0 gives a size that no chunk has. *)
MaxFastOf(s) ==
  IF s <= MALLOC_ALIGNMENT - 1 - SIZE_SZ THEN MINSIZE \div 2
  ELSE AlignDown(s + SIZE_SZ, MALLOC_ALIGNMENT)

csize2tidx(x) == (x - MINSIZE + MALLOC_ALIGNMENT - 1) \div MALLOC_ALIGNMENT
-------------------------------------------------------------------------------
(* Chunks.  h.mem has the headers of the chunks there are; a word that is  *)
(* no header of a chunk, or a prev_size while the chunk before is in use,  *)
(* holds what its user put there, and reads as 0.                          *)
NoHead == [prev_size |-> 0, size |-> 0, prev_inuse |-> FALSE, mmapped |-> FALSE]

At(h, a) == IF a \in DOMAIN h.mem THEN h.mem[a] ELSE NoHead
Put(h, a, head) ==
  [h EXCEPT !.mem = [x \in DOMAIN h.mem \union {a} |-> IF x = a THEN head ELSE h.mem[x]]]
Drop(h, a) == [h EXCEPT !.mem = [x \in DOMAIN h.mem \ {a} |-> h.mem[x]]]

chunksize(h, p) == At(h, p).size
prev_inuse(h, p) == At(h, p).prev_inuse
prev_size(h, p) == At(h, p).prev_size
next_chunk(h, p) == p + chunksize(h, p)
inuse(h, p) == prev_inuse(h, next_chunk(h, p))
mmapped(h, p) == At(h, p).mmapped

(* chunksize_nomask (p) > n: the flags count. *)
NomaskExceeds(h, p, n) ==
  chunksize(h, p) > n \/ (chunksize(h, p) = n /\ (prev_inuse(h, p) \/ mmapped(h, p)))

set_head(h, p, s) == Put(h, p, [At(h, p) EXCEPT !.size = s, !.prev_inuse = TRUE, !.mmapped = FALSE])
set_head_size(h, p, s) == Put(h, p, [At(h, p) EXCEPT !.size = s])
set_foot(h, p, s) == Put(h, p + s, [At(h, p + s) EXCEPT !.prev_size = s])
set_inuse_bit(h, a) == Put(h, a, [At(h, a) EXCEPT !.prev_inuse = TRUE, !.prev_size = 0])
clear_inuse_bit(h, a) == Put(h, a, [At(h, a) EXCEPT !.prev_inuse = FALSE])

(* What the caller may use of a chunk (musable). *)
musable(h, p) == IF mmapped(h, p) THEN chunksize(h, p) - CHUNK_HDR_SZ ELSE chunksize(h, p) - SIZE_SZ

(* malloc_printerr and a failing assert end the program. *)
Check(h, ok) == IF ok THEN h ELSE [h EXCEPT !.aborted = TRUE]
-------------------------------------------------------------------------------
(* Bins.  A bin is the sequence of its chunks from first (fd) to last (bk).*)
InBin(h, p) == \E b \in DOMAIN h.bins : Contains(h.bins[b], p)

(* The nextsize list of a large bin is the first chunks of each size.      *)
unlink_chunk(h, p) ==
  [Check(h, chunksize(h, p) = prev_size(h, next_chunk(h, p)) /\ InBin(h, p))
     EXCEPT !.bins = [b \in DOMAIN h.bins |-> RemoveFirst(h.bins[b], p)]]

(* The head of unsorted_chunks. *)
PutUnsorted(h, p) == [h EXCEPT !.bins[1] = <<p>> \o @]

(* A chunk goes to the front of a small bin; into a large bin, before the  *)
(* first that is smaller, and behind the first of its own size.            *)
(* Mutant: a large chunk goes to the front of its bin, too. *)
PlaceInFront(h, p) ==
  LET b == bin_index(chunksize(h, p))
  IN [h EXCEPT !.bins[b] = <<p>> \o @, !.binmap = @ \union {b}]

Place(h, p, size, b, above) ==
  [h EXCEPT !.bins[b] =
     IF in_smallbin_range(size) THEN <<p>> \o @
     ELSE IF above < Len(@) /\ chunksize(h, @[above + 1]) = size THEN InsertAt(@, above + 2, p)
     ELSE InsertAt(@, above + 1, p),
   !.binmap = @ \union {b}]

Larger(h, bin, size) == Cardinality({k \in DOMAIN bin : chunksize(h, bin[k]) > size})

PlaceInBin(h, p) ==
  LET size == chunksize(h, p)
      b == bin_index(size)
  IN Place(h, p, size, b, Larger(h, h.bins[b], size))

(* The merge of a chunk that is given back with a free chunk on either     *)
(* side, and with top: _int_free and malloc_consolidate have it twice.     *)
MergedStart(h, p) == IF prev_inuse(h, p) THEN p ELSE p - prev_size(h, p)
MergedEnd(h, next) == IF next = h.top \/ ~inuse(h, next) THEN next_chunk(h, next) ELSE next

MergeBack(h, p, q) ==
  IF q = p THEN h ELSE Drop(unlink_chunk(Check(h, chunksize(h, q) = p - q), q), p)

MergeForth(h, next) ==
  IF next = h.top THEN Drop(h, next)
  ELSE IF inuse(h, next) THEN clear_inuse_bit(h, next)
  ELSE Drop(unlink_chunk(h, next), next)

Settle(h, p, size) ==
  IF h.top \in p .. p + size - 1 THEN [set_head(h, p, size) EXCEPT !.top = p]
  ELSE set_foot(PutUnsorted(set_head(h, p, size), p), p, size)

Merge(h, p, q, next) == Settle(MergeForth(MergeBack(h, p, q), next), q, MergedEnd(h, next) - q)

Coalesce(h, p) == Merge(h, p, MergedStart(h, p), next_chunk(h, p))

(* The fastbins are emptied, smallest size first. *)
malloc_consolidate(h) ==
  FoldLeft(Coalesce,
           [h EXCEPT !.fast = [i \in DOMAIN h.fast |-> <<>>], !.have_fastchunks = FALSE],
           FlattenSeq([i \in 1 .. NFASTBINS |-> h.fast[i - 1]]))

(* A chunk of size words, in no list, serves a request of nb: its end goes *)
(* to the unsorted chunks when it can be a chunk.                          *)
Serve(h, p, nb) ==
  LET size == chunksize(h, p)
      r == p + nb
  IN IF size - nb < MINSIZE THEN set_inuse_bit(h, p + size)
     ELSE set_foot(set_head(set_head(PutUnsorted(h, r), p, nb), r, size - nb), r, size - nb)

(* The lower part of top serves a request. *)
ServeFromTop(h, nb) ==
  [set_head(set_head(h, h.top, nb), h.top + nb, chunksize(h, h.top) - nb) EXCEPT !.top = h.top + nb]
-------------------------------------------------------------------------------
(* The kernel: sbrk, mmap, munmap, mremap.                                 *)
Failed == -1

Region(a, n) == a .. a + n - 1

(* MORECORE: brk is the break before, or Failed.  Words given back need    *)
(* not be zero when they come again (MORECORE_CLEARS is 1).                *)
Sbrk(h, n) ==
  IF h.brk + n > BrkLimit THEN [h |-> h, brk |-> Failed]
  ELSE [h |-> [h EXCEPT !.brk = @ + n], brk |-> h.brk]

Room(h, n) ==
  {a \in MmapFloor .. MmapTop - n :
     a % PageSize = 0 /\ \A r \in h.maps : a + n <= r[1] \/ r[1] + r[2] <= a}

(* mmap takes the highest room there is.                                   *)
Mmap(h, n) ==
  IF Room(h, n) = {} THEN [h |-> h, at |-> Failed]
  ELSE [h |-> [h EXCEPT !.maps = @ \union {<<Max(Room(h, n)), n>>}], at |-> Max(Room(h, n))]

Munmap(h, a, n) == [h EXCEPT !.maps = @ \ {<<a, n>>}, !.soiled = @ \ Region(a, n)]

(* mremap grows a mapping where it is when it can, else moves it.          *)
Mremap(h, a, n, m) ==
  LET without == [h EXCEPT !.maps = @ \ {<<a, n>>}, !.soiled = @ \ Region(a, n)]
      fits == a + m <= MmapTop /\ \A r \in without.maps : a + m <= r[1] \/ r[1] + r[2] <= a
  IN IF m <= n \/ fits THEN [h |-> [without EXCEPT !.maps = @ \union {<<a, m>>}], at |-> a]
     ELSE IF Room(h, m) = {} THEN [h |-> h, at |-> Failed]
     ELSE [h |-> [without EXCEPT !.maps = @ \union {<<Max(Room(h, m)), m>>}], at |-> Max(Room(h, m))]
===============================================================================
