----------------------------- MODULE PtHeapProofs -----------------------------
(***************************************************************************)
(* Proofs about PtHeap for every value of its constants: whatever a        *)
(* program asks of malloc, every address and size in the heap stays        *)
(* aligned, memalign's objects are aligned as asked, and the two things    *)
(* malloc remembers about its lists so as not to look at them - the map of *)
(* the bins and the flag of the fastbins - never hide a chunk.             *)
(*                                                                         *)
(* The invariant speaks of one heap at a time, and every operation of      *)
(* PtChunks and PtMalloc maps a heap that has it to one that has it: one   *)
(* lemma for each, from the macros up to the public functions.  The loops  *)
(* over lists are folds, of which the first lemmas say how they end.       *)
(*                                                                         *)
(* Then the layout of the memory, which PtMallocProofs and PtObjectsProofs *)
(* take on to the public functions and the program: what it is, and how    *)
(* it survives when chunks are written, cut and joined and when the kernel *)
(* gives and takes.                                                        *)
(***************************************************************************)
EXTENDS PtHeap, FunctionTheorems, FiniteSetTheorems, SequenceTheorems, WellFoundedInduction, TLAPS

(* The heaps that are well typed.                                          *)
Aligned == {n \in Int : n % MALLOC_ALIGNMENT = 0}
Lists == Seq(Aligned)
Heads == [prev_size : Aligned, size : Aligned, prev_inuse : BOOLEAN, mmapped : BOOLEAN]
Mems == UNION {[S -> Heads] : S \in SUBSET Aligned}
Settled == [max_fast : 0 .. request2size(MAX_FAST_SIZE), trim_threshold : Int, top_pad : 0 .. PTRDIFF_MAX, mmap_threshold : Int,
   n_mmaps : Int, n_mmaps_max : Nat, mmapped_mem : Int, no_dyn_threshold : BOOLEAN, sbrk_base : Int,
   tcache_count : Nat, tcache_unsorted_limit : Nat]
Bins == [1 .. NBINS - 1 -> Lists]
Fasts == [0 .. NFASTBINS - 1 -> Lists]
Caches == [0 .. TCACHE_MAX_BINS - 1 -> Lists]
Marks == {b \in Int : b <= NBINS - 1}

Heaps ==
  [mem : Mems, top : Aligned, last_remainder : Aligned \union {NULL},
   bins : Bins, binmap : SUBSET Marks, fast : Fasts, have_fastchunks : BOOLEAN,
   contiguous : BOOLEAN, system_mem : Int, max_system_mem : Int,
   tcache : Aligned \union {NULL}, entries : Caches, shutting_down : BOOLEAN,
   mp : Settled, brk : Aligned, maps : SUBSET (Int \X Int), soiled : SUBSET Int,
   needless : BOOLEAN, aborted : BOOLEAN]

(* malloc looks for a chunk only in bins that are marked, and for fast     *)
(* chunks only while the flag is up and in the fastbins up to max_fast.    *)
BinsAreMarked(bins, binmap) == \A b \in 2 .. NBINS - 1 : bins[b] # <<>> => b \in binmap
FastAreFlagged(fast, flag) == flag \/ \A i \in 0 .. NFASTBINS - 1 : fast[i] = <<>>
FastAreSmall(fast, max_fast) == \A i \in 0 .. NFASTBINS - 1 : i > fastbin_index(max_fast) => fast[i] = <<>>

Good == {h \in Heaps : /\ BinsAreMarked(h.bins, h.binmap)
                       /\ FastAreFlagged(h.fast, h.have_fastchunks)
                       /\ FastAreSmall(h.fast, h.mp.max_fast)}

(* An answer of malloc. *)
Fine(a) == a.h \in Good /\ a.p \in Aligned \union {NULL}

(* An object of memalign. *)
AlignedTo(p, a) == p # NULL => (p + CHUNK_HDR_SZ) % a = 0
-------------------------------------------------------------------------------
(* Induction, for a set of numbers. *)
LEMMA LeastNumber ==
  ASSUME NEW S \in SUBSET Nat, S # {}
  PROVE  \E n \in S : \A m \in S : n <= m
<1>1. IsWellFoundedOn(OpToRel(<, Nat), Nat)
  BY NatLessThanWellFounded
<1>2. \E n \in S : \A m \in S : <<m, n>> \notin OpToRel(<, Nat)
  BY <1>1, WFMin
<1>3. \A m, n \in Nat : <<m, n>> \notin OpToRel(<, Nat) => n <= m
  BY DEF OpToRel
<1> QED
  BY <1>2, <1>3

(* The least and the greatest of a bounded set of numbers. *)
LEMMA MinProperties ==
  ASSUME NEW S \in SUBSET Int, S # {}, NEW b \in Int, \A x \in S : b <= x
  PROVE  /\ Min(S) \in S
         /\ \A x \in S : Min(S) <= x
<1> DEFINE D == {n \in Nat : b + n \in S}
<1>1. PICK x \in S : TRUE
  OBVIOUS
<1>2. x - b \in D
  BY <1>1
<1>3. PICK n \in D : \A m \in D : n <= m
  BY <1>2, LeastNumber
<1>4. b + n \in S /\ \A y \in S : b + n <= y
  <2>1. \A y \in S : y - b \in D
    OBVIOUS
  <2> QED BY <1>3, <2>1
<1>5. \E y \in S : \A z \in S : y <= z
  BY <1>4
<1> QED
  BY <1>5 DEF Min

(* Max of a set of integers with an upper bound. *)
LEMMA MaxProperties ==
  ASSUME NEW S \in SUBSET Int, S # {}, NEW b \in Int, \A x \in S : x <= b
  PROVE  /\ Max(S) \in S
         /\ \A x \in S : x <= Max(S)
<1> DEFINE D == {n \in Nat : b - n \in S}
<1>1. PICK x \in S : TRUE
  OBVIOUS
<1>2. b - x \in D
  BY <1>1
<1>3. PICK n \in D : \A m \in D : n <= m
  BY <1>2, LeastNumber
<1>4. b - n \in S /\ \A y \in S : b - n >= y
  <2>1. \A y \in S : b - y \in D
    OBVIOUS
  <2> QED BY <1>3, <2>1
<1>5. \E y \in S : \A z \in S : y >= z
  BY <1>4
<1>6. /\ Max(S) \in S
      /\ \A y \in S : Max(S) >= y
  BY <1>5 DEF Max
<1> QED
  BY <1>6

(* Max of a set of indices. *)
LEMMA MaxInInterval ==
  ASSUME NEW n \in Nat
  PROVE  \A s \in SUBSET (1 .. n) : s # {} => Max(s) \in s /\ (n \in s => Max(s) = n)
<1> SUFFICES ASSUME NEW s \in SUBSET (1 .. n), s # {} PROVE Max(s) \in s /\ (n \in s => Max(s) = n)
  OBVIOUS
<1>1. s \in SUBSET Int /\ n \in Int /\ \A x \in s : x <= n
  OBVIOUS
<1>2. Max(s) \in s /\ \A x \in s : x <= Max(s)
  BY <1>1, MaxProperties
<1>3. Max(s) \in Int /\ Max(s) <= n /\ (n \in s => n <= Max(s))
  BY <1>1, <1>2
<1> QED BY <1>2, <1>3

(* Folds.  A fold over a list is the value at all its indices of a function*)
(* that is defined from the set without its greatest one: Steps says so.   *)
Steps(f, base, F, n) ==
  \A s \in SUBSET (1 .. n) : f[s] = IF s = {} THEN base ELSE F[<<f[s \ {Max(s)}], Max(s)>>]

(* Such a function exists. *)
LEMMA StepsExist ==
  ASSUME NEW S, NEW n \in Nat, NEW base \in S, NEW F \in [S \X (1 .. n) -> S]
  PROVE  \E f \in [SUBSET (1 .. n) -> S] : Steps(f, base, F, n)
<1> DEFINE P(m) == \E f \in [SUBSET (1 .. m) -> S] : Steps(f, base, F, m)
           D == {m \in 0 .. n : ~P(m)}
<1>0. SUFFICES P(n)
  OBVIOUS
<1> HIDE DEF P
<1>1. SUFFICES ASSUME D # {} PROVE FALSE
  OBVIOUS
<1>2. PICK m \in D : \A k \in D : m <= k
  <2>1. D \in SUBSET Nat
    OBVIOUS
  <2> HIDE DEF D
  <2> QED BY <1>1, <2>1, LeastNumber
<1>3. P(0)
  <2> DEFINE f == [s \in SUBSET (1 .. 0) |-> base]
  <2>0. 1 .. 0 = {}
    OBVIOUS
  <2>1. \A s \in SUBSET (1 .. 0) : s = {}
    BY <2>0
  <2>2. f \in [SUBSET (1 .. 0) -> S]
    OBVIOUS
  <2>4. \A s \in SUBSET (1 .. 0) : f[s] = base
    OBVIOUS
  <2> HIDE DEF f
  <2>3. Steps(f, base, F, 0)
    BY <2>1, <2>4 DEF Steps
  <2> QED BY <2>2, <2>3 DEF P
<1>4. m - 1 \in 0 .. n /\ m \in 1 .. n /\ P(m - 1)
  <2>1. m # 0 /\ m \in 0 .. n
    BY <1>2, <1>3
  <2>2. m - 1 \in 0 .. n /\ m \in 1 .. n /\ ~(m <= m - 1)
    BY <2>1
  <2>3. m - 1 \notin D
    BY <1>2, <2>2
  <2> QED BY <2>2, <2>3
<1>5. PICK f \in [SUBSET (1 .. (m - 1)) -> S] : Steps(f, base, F, m - 1)
  BY <1>4 DEF P
<1> DEFINE g == [s \in SUBSET (1 .. m) |-> IF m \in s THEN F[<<f[s \ {m}], m>>] ELSE f[s]]
<1>6. \A s \in SUBSET (1 .. m) : s \ {m} \in SUBSET (1 .. (m - 1)) /\ (m \notin s => s \in SUBSET (1 .. (m - 1)))
  BY <1>4
<1>7. \A s \in SUBSET (1 .. m) : s # {} => Max(s) \in s /\ (m \in s => Max(s) = m)
  BY <1>4, MaxInInterval
<1>8. g \in [SUBSET (1 .. m) -> S]
  <2> SUFFICES ASSUME NEW s \in SUBSET (1 .. m)
               PROVE  (IF m \in s THEN F[<<f[s \ {m}], m>>] ELSE f[s]) \in S
    OBVIOUS
  <2>1. f[s \ {m}] \in S /\ (m \notin s => f[s] \in S)
    BY <1>6
  <2> QED BY <1>4, <2>1
<1>9. \A s \in SUBSET (1 .. m) : g[s] = IF s = {} THEN base ELSE F[<<g[s \ {Max(s)}], Max(s)>>]
  <2> SUFFICES ASSUME NEW s \in SUBSET (1 .. m)
               PROVE  g[s] = IF s = {} THEN base ELSE F[<<g[s \ {Max(s)}], Max(s)>>]
    OBVIOUS
  <2>1. CASE m \in s
    <3>1. Max(s) = m /\ s # {} /\ s \ {m} \in SUBSET (1 .. m) /\ m \notin s \ {m}
      BY <1>7, <2>1
    <3>2. g[s] = F[<<f[s \ {m}], m>>] /\ g[s \ {m}] = f[s \ {m}]
      BY <2>1, <3>1
    <3> HIDE DEF g
    <3> QED BY <3>1, <3>2
  <2>2. CASE m \notin s
    <3>1. s \in SUBSET (1 .. (m - 1)) /\ g[s] = f[s]
      BY <1>6, <2>2
    <3>2. s # {} => s \ {Max(s)} \in SUBSET (1 .. m) /\ m \notin s \ {Max(s)}
      BY <2>2
    <3>3. s # {} => g[s \ {Max(s)}] = f[s \ {Max(s)}]
      BY <3>2
    <3>4. f[s] = IF s = {} THEN base ELSE F[<<f[s \ {Max(s)}], Max(s)>>]
      BY <1>5, <3>1 DEF Steps
    <3> HIDE DEF g
    <3> QED BY <3>1, <3>3, <3>4
  <2> QED BY <2>1, <2>2
<1> HIDE DEF g
<1>10. P(m)
  BY <1>8, <1>9 DEF P, Steps
<1> QED
  BY <1>2, <1>10

(* What the n-th step of a walk does, for n in turn, the walk does. *)
LEMMA StepsEnd ==
  ASSUME NEW I, NEW n \in Nat, NEW f,
         f[{}] \in I[0],
         \A m \in 1 .. n : f[1 .. (m - 1)] \in I[m - 1] => f[1 .. m] \in I[m]
  PROVE  f[1 .. n] \in I[n]
<1> DEFINE D == {m \in 0 .. n : f[1 .. m] \notin I[m]}
<1>1. SUFFICES ASSUME D # {} PROVE FALSE
  OBVIOUS
<1>2. PICK m \in D : \A k \in D : m <= k
  <2>1. D \in SUBSET Nat
    OBVIOUS
  <2> HIDE DEF D
  <2> QED BY <1>1, <2>1, LeastNumber
<1>3. 1 .. 0 = {}
  OBVIOUS
<1>4. m # 0
  BY <1>3
<1>5. m - 1 \in 0 .. n /\ m \in 1 .. n /\ ~(m <= m - 1)
  BY <1>4
<1>6. m - 1 \notin D
  BY <1>2, <1>5
<1> QED
  BY <1>5, <1>6

(* The indices up to m are those up to m - 1, and m. *)
LEMMA LastOfInterval ==
  ASSUME NEW n \in Nat, NEW m \in 1 .. n
  PROVE  Max(1 .. m) = m /\ (1 .. m) \ {m} = 1 .. (m - 1) /\ 1 .. m # {} /\ 1 .. m \in SUBSET (1 .. n)
<1>1. 1 .. m \in SUBSET Int /\ 1 .. m # {} /\ m \in Int /\ m \in 1 .. m /\ \A x \in 1 .. m : x <= m
  OBVIOUS
<1>2. Max(1 .. m) \in 1 .. m /\ \A x \in 1 .. m : x <= Max(1 .. m)
  BY <1>1, MaxProperties
<1>3. Max(1 .. m) = m
  BY <1>2
<1> QED BY <1>1, <1>3

(* The chunks of a list are merged one after the other. *)
LEMMA CoalesceFold ==
  ASSUME NEW S, NEW A, NEW h \in S, NEW seq \in Seq(A),
         \A g \in S, p \in A : Coalesce(g, p) \in S
  PROVE  FoldLeft(Coalesce, h, seq) \in S
<1> DEFINE n == Len(seq)
           F == [x \in S \X (1 .. n) |-> Coalesce(x[1], seq[x[2]])]
           Is(f) == f = [s \in SUBSET (DOMAIN seq) |->
                           IF s = {} THEN h ELSE Coalesce(f[s \ {Max(s)}], seq[Max(s)])]
           it == CHOOSE f : Is(f)
<1>0. FoldLeft(Coalesce, h, seq) = it[DOMAIN seq]
  BY DEF FoldLeft, MapThenFoldSet
<1>1. n \in Nat /\ DOMAIN seq = 1 .. n /\ \A m \in 1 .. n : seq[m] \in A
  OBVIOUS
<1>2. F \in [S \X (1 .. n) -> S] /\ \A x \in S, m \in 1 .. n : F[<<x, m>>] = Coalesce(x, seq[m])
  BY <1>1
<1> HIDE DEF n, F
<1>3. PICK f \in [SUBSET (1 .. n) -> S] : Steps(f, h, F, n)
  BY <1>1, <1>2, StepsExist
<1>4. \A s \in SUBSET (1 .. n) : s # {} => Max(s) \in s
  BY <1>1, MaxInInterval
<1>5. \A s \in SUBSET (1 .. n) : f[s] = IF s = {} THEN h ELSE Coalesce(f[s \ {Max(s)}], seq[Max(s)])
  BY <1>2, <1>3, <1>4 DEF Steps
<1>6. Is(f)
  BY <1>1, <1>5
<1>7. Is(it)
  BY <1>6
<1>8. \A s \in SUBSET (1 .. n) : it[s] = IF s = {} THEN h ELSE Coalesce(it[s \ {Max(s)}], seq[Max(s)])
  BY <1>1, <1>7
<1> HIDE DEF Is, it
<1>9. ASSUME NEW m \in 1 .. n, it[1 .. (m - 1)] \in S PROVE it[1 .. m] \in S
  <2>1. /\ 1 .. m \in SUBSET (1 .. n) /\ 1 .. m # {}
        /\ Max(1 .. m) = m /\ (1 .. m) \ {m} = 1 .. (m - 1)
    BY <1>1, LastOfInterval
  <2>2. it[1 .. m] = Coalesce(it[(1 .. m) \ {Max(1 .. m)}], seq[Max(1 .. m)])
    BY <1>8, <2>1
  <2>3. it[1 .. m] = Coalesce(it[1 .. (m - 1)], seq[m])
    BY <2>1, <2>2, Zenon
  <2>4. seq[m] \in A
    BY <1>1
  <2> QED BY <1>9, <2>3, <2>4
<1>10. it[{}] \in S
  BY <1>8
<1>11. it[1 .. n] \in S
  <2> DEFINE I == [m \in 0 .. n |-> S]
  <2>1. it[{}] \in I[0] /\ \A m \in 1 .. n : it[1 .. (m - 1)] \in I[m - 1] => it[1 .. m] \in I[m]
    BY <1>1, <1>9, <1>10
  <2>2. I[n] = S
    BY <1>1
  <2> HIDE DEF I
  <2> QED BY <1>1, <2>1, <2>2, StepsEnd
<1> QED
  BY <1>0, <1>1, <1>11

-------------------------------------------------------------------------------
(* A change of one field on which the marks do not depend. *)
LEMMA OtherFields ==
  ASSUME NEW h \in Good
  PROVE  /\ \A m \in Mems : [h EXCEPT !.mem = m] \in Good
         /\ \A a \in Aligned : [h EXCEPT !.top = a] \in Good
         /\ \A a \in Aligned : [h EXCEPT !.brk = a] \in Good
         /\ \A a \in Aligned \union {NULL} : [h EXCEPT !.last_remainder = a] \in Good
         /\ \A n \in Int : [h EXCEPT !.system_mem = n] \in Good
         /\ \A m \in Caches : [h EXCEPT !.entries = m] \in Good
BY DEF Good, Heaps

(* The last fastbin holds the largest fast chunks. *)
LEMMA SmallEnough == NFASTBINS \in Nat /\ fastbin_index(request2size(MAX_FAST_SIZE)) = NFASTBINS - 1
BY PtAssumption DEF NFASTBINS, fastbin_index, request2size, MALLOC_ALIGNMENT, SIZE_SZ, MINSIZE, AlignDown

(* A header, also of an address where no chunk is. *)
LEMMA AtType == ASSUME NEW h \in Heaps, NEW a PROVE At(h, a) \in Heads
BY DEF At, NoHead, Heaps, Heads, Mems, Aligned, MALLOC_ALIGNMENT, SIZE_SZ

(* The headers are a function on aligned addresses. *)
LEMMA MemType == ASSUME NEW m \in Mems PROVE m \in [DOMAIN m -> Heads] /\ DOMAIN m \in SUBSET Aligned
<1>1. PICK S \in SUBSET Aligned : m \in [S -> Heads]
  BY DEF Mems
<1> QED BY <1>1

(* A function of headers is what Heaps asks for. *)
LEMMA MemIs == ASSUME NEW S \in SUBSET Aligned, NEW m \in [S -> Heads] PROVE m \in Mems
BY DEF Mems

(* One header more. *)
LEMMA PutMem ==
  ASSUME NEW m \in Mems, NEW a \in Aligned, NEW head \in Heads
  PROVE  [x \in DOMAIN m \union {a} |-> IF x = a THEN head ELSE m[x]] \in Mems
<1> DEFINE S == DOMAIN m \union {a}
           g == [x \in S |-> IF x = a THEN head ELSE m[x]]
<1>1. S \in SUBSET Aligned /\ g \in [S -> Heads]
  BY MemType
<1> HIDE DEF g, S
<1>2. g \in Mems
  BY <1>1, MemIs
<1> QED BY <1>2 DEF g, S

(* One header less. *)
LEMMA DropMem ==
  ASSUME NEW m \in Mems, NEW a
  PROVE  [x \in DOMAIN m \ {a} |-> m[x]] \in Mems
<1> DEFINE S == DOMAIN m \ {a}
           g == [x \in S |-> m[x]]
<1>1. S \in SUBSET Aligned /\ g \in [S -> Heads]
  BY MemType
<1> HIDE DEF g, S
<1>2. g \in Mems
  BY <1>1, MemIs
<1> QED BY <1>2 DEF g, S

(* The headers. *)
LEMMA EvenSums ==
  ASSUME NEW a \in Aligned, NEW b \in Aligned
  PROVE  /\ a + b \in Aligned /\ a - b \in Aligned /\ 2 * a \in Aligned
         /\ MINSIZE \in Aligned /\ CHUNK_HDR_SZ \in Aligned /\ 0 \in Aligned /\ a \in Int
BY DEF Aligned, MALLOC_ALIGNMENT, SIZE_SZ, MINSIZE, CHUNK_HDR_SZ

(* Writing a header keeps the heap well formed. *)
LEMMA PutKeeps ==
  ASSUME NEW h \in Good, NEW a \in Aligned, NEW head \in Heads
  PROVE  Put(h, a, head) \in Good
<1>1. h.mem \in Mems
  BY DEF Good, Heaps
<1> QED
  BY <1>1, PutMem, OtherFields DEF Put

(* So does losing one. *)
LEMMA DropKeeps ==
  ASSUME NEW h \in Good, NEW a
  PROVE  Drop(h, a) \in Good
<1>1. h.mem \in Mems
  BY DEF Good, Heaps
<1> QED
  BY <1>1, DropMem, OtherFields DEF Drop

(* The fields of a header. *)
LEMMA HeadFields ==
  ASSUME NEW h \in Good, NEW a
  PROVE  /\ At(h, a) \in Heads
         /\ chunksize(h, a) \in Aligned /\ prev_size(h, a) \in Aligned
         /\ prev_inuse(h, a) \in BOOLEAN /\ mmapped(h, a) \in BOOLEAN
         /\ a \in Aligned => next_chunk(h, a) \in Aligned
<1>1. At(h, a) \in Heads
  BY AtType DEF Good
<1>2. At(h, a).size \in Aligned /\ At(h, a).prev_size \in Aligned
      /\ At(h, a).prev_inuse \in BOOLEAN /\ At(h, a).mmapped \in BOOLEAN
  BY <1>1 DEF Heads
<1> QED
  BY <1>1, <1>2, EvenSums DEF chunksize, prev_size, prev_inuse, mmapped, next_chunk

(* So do the macros that write sizes, feet and bits. *)
LEMMA HeadsKeep ==
  ASSUME NEW h \in Good, NEW a \in Aligned, NEW s \in Aligned
  PROVE  /\ set_head(h, a, s) \in Good /\ set_head_size(h, a, s) \in Good
         /\ set_foot(h, a, s) \in Good
         /\ set_inuse_bit(h, a) \in Good /\ clear_inuse_bit(h, a) \in Good
<1>1. At(h, a) \in Heads /\ At(h, a + s) \in Heads /\ a + s \in Aligned /\ 0 \in Aligned
  BY HeadFields, EvenSums
<1>2. /\ [At(h, a) EXCEPT !.size = s, !.prev_inuse = TRUE, !.mmapped = FALSE] \in Heads
      /\ [At(h, a) EXCEPT !.size = s] \in Heads
      /\ [At(h, a + s) EXCEPT !.prev_size = s] \in Heads
      /\ [At(h, a) EXCEPT !.prev_inuse = TRUE, !.prev_size = 0] \in Heads
      /\ [At(h, a) EXCEPT !.prev_inuse = FALSE] \in Heads
  BY <1>1 DEF Heads
<1> QED
  BY <1>1, <1>2, PutKeeps DEF set_head, set_head_size, set_foot, set_inuse_bit, clear_inuse_bit

(* So does a check, whatever it finds. *)
LEMMA CheckKeeps ==
  ASSUME NEW h \in Good, NEW ok
  PROVE  Check(h, ok) \in Good
<1>1. [h EXCEPT !.aborted = TRUE] \in Good
  BY DEF Good, Heaps
<1> QED BY <1>1 DEF Check

-------------------------------------------------------------------------------
(* A list without an element. *)
LEMMA RemovedAt ==
  ASSUME NEW A, NEW s \in Seq(A), NEW i \in 1 .. Len(s)
  PROVE  /\ RemoveAt(s, i) \in Seq(A) /\ Len(RemoveAt(s, i)) = Len(s) - 1
         /\ \A j \in 1 .. (Len(s) - 1) : RemoveAt(s, i)[j] = IF j < i THEN s[j] ELSE s[j + 1]
<1> DEFINE a == SubSeq(s, 1, i - 1)
           b == SubSeq(s, i + 1, Len(s))
<1>1. /\ Len(s) \in Nat /\ i - 1 \in Int /\ i + 1 \in Int
      /\ \A j \in 1 .. (i - 1) : s[j] \in A
      /\ \A j \in (i + 1) .. Len(s) : s[j] \in A
  OBVIOUS
<1>2. /\ a \in Seq(A) /\ Len(a) = i - 1
      /\ \A j \in 1 .. (i - 1) : a[j] = s[j]
  BY <1>1, SubSeqProperties
<1>3. /\ b \in Seq(A) /\ Len(b) = Len(s) - i
      /\ \A j \in 1 .. (Len(s) - i) : b[j] = s[j + i]
  BY <1>1, SubSeqProperties
<1> HIDE DEF a, b
<1>4. /\ a \o b \in Seq(A) /\ Len(a \o b) = Len(a) + Len(b)
      /\ \A j \in 1 .. Len(a) + Len(b) : (a \o b)[j] = IF j <= Len(a) THEN a[j] ELSE b[j - Len(a)]
  BY <1>2, <1>3, ConcatProperties
<1>5. RemoveAt(s, i) = a \o b
  BY DEF RemoveAt, a, b
<1>6. ASSUME NEW j \in 1 .. (Len(s) - 1)
      PROVE  (a \o b)[j] = IF j < i THEN s[j] ELSE s[j + 1]
  <2>1. /\ j \in 1 .. Len(a) + Len(b) /\ Len(a) = i - 1 /\ Len(b) = Len(s) - i
        /\ j < i => j \in 1 .. (i - 1) /\ j <= Len(a)
        /\ ~(j < i) => j - Len(a) \in 1 .. (Len(s) - i) /\ ~(j <= Len(a)) /\ j - Len(a) + i = j + 1
    BY <1>1, <1>2, <1>3
  <2>2. j < i => (a \o b)[j] = a[j] /\ a[j] = s[j]
    BY <1>2, <1>4, <2>1
  <2>3. ~(j < i) => (a \o b)[j] = b[j - Len(a)] /\ b[j - Len(a)] = s[j + 1]
    BY <1>3, <1>4, <2>1
  <2> QED BY <2>2, <2>3
<1>7. Len(a \o b) = Len(s) - 1
  BY <1>1, <1>2, <1>3, <1>4
<1> QED
  BY <1>4, <1>5, <1>6, <1>7

(* RemoveFirst removes at one index, or nothing. *)
LEMMA RemoveFirstIs ==
  ASSUME NEW A, NEW s \in Seq(A), NEW e
  PROVE  IF Contains(s, e) THEN \E i \in 1 .. Len(s) : s[i] = e /\ RemoveFirst(s, e) = RemoveAt(s, i)
         ELSE RemoveFirst(s, e) = s
<1>1. CASE ~Contains(s, e)
  BY <1>1 DEF Contains, RemoveFirst
<1>2. CASE Contains(s, e)
  <2> DEFINE I == {i \in 1 .. Len(s) : s[i] = e}
  <2>1. I # {} /\ I \in SUBSET Int /\ \A x \in I : 0 <= x
    BY <1>2 DEF Contains
  <2>2. Min(I) \in I
    <3> HIDE DEF I
    <3> QED BY <2>1, MinProperties
  <2>3. RemoveFirst(s, e) = RemoveAt(s, IF I # {} THEN Min(I) ELSE 0)
    <3>1. RemoveFirst(s, e)
          = IF \E i \in 1 .. Len(s) : s[i] = e
            THEN RemoveAt(s, IF {i \in 1 .. Len(s) : s[i] = e} # {} THEN Min({i \in 1 .. Len(s) : s[i] = e}) ELSE 0)
            ELSE s
      BY Zenon DEF RemoveFirst, SelectInSeq
    <3>2. \E i \in 1 .. Len(s) : s[i] = e
      BY <1>2 DEF Contains
    <3> QED BY <3>1, <3>2
  <2> QED BY <1>2, <2>1, <2>2, <2>3
<1> QED BY <1>1, <1>2

(* The lists joined, up to each of them in turn. *)
LEMMA FlattenSteps ==
  ASSUME NEW A, NEW seqs \in Seq(Seq(A)), seqs # << >>
  PROVE  \E flatten : /\ FlattenSeq(seqs) = flatten[Len(seqs)]
                      /\ \A i \in 1 .. Len(seqs) : flatten[i] = IF i = 1 THEN seqs[i] ELSE flatten[i - 1] \o seqs[i]
<1> DEFINE n == Len(seqs)
           Is(f, m) == f = [i \in 1 .. m |-> IF i = 1 THEN seqs[i] ELSE f[i - 1] \o seqs[i]]
           flatten == CHOOSE f : Is(f, n)
<1>1. n \in Nat /\ n # 0
  OBVIOUS
<1>2. FlattenSeq(seqs) = flatten[n]
  BY <1>1 DEF FlattenSeq
<1> HIDE DEF n
<1> DEFINE P(m) == \E f : Is(f, m)
           D == {m \in 0 .. n : ~P(m)}
<1> HIDE DEF P
<1>3. ASSUME D # {} PROVE FALSE
  <2>1. PICK m \in D : \A k \in D : m <= k
    <3>1. D \in SUBSET Nat
      BY <1>1
    <3> HIDE DEF D
    <3> QED BY <1>3, <3>1, LeastNumber
  <2>2. P(0)
    <3> DEFINE g(f) == [i \in 1 .. 0 |-> IF i = 1 THEN seqs[i] ELSE f[i - 1] \o seqs[i]]
               e == [i \in 1 .. 0 |-> << >>]
    <3>1. \A i \in 1 .. 0 : FALSE
      OBVIOUS
    <3>2. e = g(e)
      BY <3>1
    <3> QED BY <3>2 DEF P
  <2>3. m \in 1 .. n /\ P(m - 1)
    <3>1. m # 0 /\ m \in 0 .. n
      BY <2>1, <2>2
    <3>2. m - 1 \in 0 .. n /\ m \in 1 .. n /\ ~(m <= m - 1)
      BY <1>1, <3>1
    <3>3. m - 1 \notin D
      BY <2>1, <3>2
    <3> QED BY <3>2, <3>3
  <2>4. PICK f : Is(f, m - 1)
    BY <2>3 DEF P
  <2> DEFINE g == [i \in 1 .. m |-> IF i = 1 THEN seqs[i] ELSE f[i - 1] \o seqs[i]]
  <2>5. \A i \in 1 .. (m - 1) : f[i] = IF i = 1 THEN seqs[i] ELSE f[i - 1] \o seqs[i]
    BY <2>4
  <2>6. \A i \in 1 .. (m - 1) : g[i] = f[i]
    BY <1>1, <2>3, <2>5
  <2>7. \A i \in 1 .. m : i # 1 => i - 1 \in 1 .. (m - 1)
    BY <1>1, <2>3
  <2>8. \A i \in 1 .. m : g[i] = IF i = 1 THEN seqs[i] ELSE g[i - 1] \o seqs[i]
    BY <2>6, <2>7
  <2>9. g = [i \in 1 .. m |-> IF i = 1 THEN seqs[i] ELSE g[i - 1] \o seqs[i]]
    BY <2>8
  <2> HIDE DEF g
  <2>10. P(m)
    BY <2>9 DEF P
  <2> QED BY <2>1, <2>10
<1>4. P(n)
  BY <1>1, <1>3
<1>5. Is(flatten, n)
  BY <1>4 DEF P
<1>6. \A i \in 1 .. n : flatten[i] = IF i = 1 THEN seqs[i] ELSE flatten[i - 1] \o seqs[i]
  BY <1>5
<1> HIDE DEF flatten, Is
<1> QED BY <1>2, <1>6 DEF n

(* The list of all elements of lists. *)
LEMMA FlattenedType ==
  ASSUME NEW A, NEW seqs \in Seq(Seq(A))
  PROVE  FlattenSeq(seqs) \in Seq(A)
<1> DEFINE n == Len(seqs)
<1>1. n \in Nat /\ \A i \in 1 .. n : seqs[i] \in Seq(A)
  OBVIOUS
<1>2. CASE seqs = << >>
  BY <1>2 DEF FlattenSeq
<1>3. CASE seqs # << >>
  <2>1. PICK flatten : /\ FlattenSeq(seqs) = flatten[n]
                       /\ \A i \in 1 .. n : flatten[i] = IF i = 1 THEN seqs[i] ELSE flatten[i - 1] \o seqs[i]
    BY <1>3, FlattenSteps
  <2>0. n # 0
    BY <1>3
  <2> HIDE DEF n
  <2> DEFINE E == {m \in 1 .. n : flatten[m] \notin Seq(A)}
  <2>5. ASSUME E # {} PROVE FALSE
    <3>1. PICK m \in E : \A k \in E : m <= k
      <4>1. E \in SUBSET Nat
        BY <1>1
      <4> HIDE DEF E
      <4> QED BY <2>5, <4>1, LeastNumber
    <3>2. seqs[m] \in Seq(A) /\ m \in 1 .. n /\ m # 1
      BY <1>1, <2>1
    <3>3. m - 1 \in 1 .. n /\ ~(m <= m - 1)
      BY <1>1, <3>2
    <3>4. flatten[m - 1] \in Seq(A)
      BY <3>1, <3>3
    <3>5. flatten[m] = flatten[m - 1] \o seqs[m]
      BY <2>1, <3>2
    <3>6. flatten[m] \in Seq(A)
      BY <3>2, <3>4, <3>5, ConcatProperties
    <3> QED BY <3>6
  <2>6. flatten[n] \in Seq(A)
    <3>1. n \in 1 .. n
      BY <1>1, <2>0
    <3>2. n \notin E
      BY <2>5
    <3> QED BY <3>1, <3>2
  <2> QED BY <2>1, <2>6
<1> QED BY <1>2, <1>3

-------------------------------------------------------------------------------
(* The bins change, and the map still marks what is filled. *)
LEMMA BinsKeep ==
  ASSUME NEW h \in Good, NEW bins \in Bins, BinsAreMarked(bins, h.binmap)
  PROVE  [h EXCEPT !.bins = bins] \in Good
BY DEF Good, Heaps

(* Bins and map change together. *)
LEMMA MarkedBinsKeep ==
  ASSUME NEW h \in Good, NEW bins \in Bins, NEW binmap \in SUBSET Marks, BinsAreMarked(bins, binmap)
  PROVE  [h EXCEPT !.bins = bins, !.binmap = binmap] \in Good
BY DEF Good, Heaps

(* What is known of the lists of a well-formed heap. *)
LEMMA GoodBins ==
  ASSUME NEW h \in Good
  PROVE  /\ h.bins \in Bins /\ h.binmap \in SUBSET Marks /\ BinsAreMarked(h.bins, h.binmap)
         /\ h.fast \in Fasts /\ FastAreFlagged(h.fast, h.have_fastchunks) /\ FastAreSmall(h.fast, h.mp.max_fast)
         /\ h.mp \in Settled /\ h.entries \in Caches /\ h.have_fastchunks \in BOOLEAN
         /\ \A b \in 1 .. NBINS - 1 : h.bins[b] \in Lists
         /\ \A i \in 0 .. NFASTBINS - 1 : h.fast[i] \in Lists
         /\ \A i \in 0 .. TCACHE_MAX_BINS - 1 : h.entries[i] \in Lists
BY DEF Good, Heaps, Bins, Fasts, Caches

(* unlink_chunk: a bin loses a chunk; no mark is needed that was not       *)
(* before.                                                                 *)
LEMMA UnlinkKeeps ==
  ASSUME NEW h \in Good, NEW p
  PROVE  unlink_chunk(h, p) \in Good
<1> DEFINE g == Check(h, chunksize(h, p) = prev_size(h, next_chunk(h, p)) /\ InBin(h, p))
           bins == [b \in DOMAIN h.bins |-> RemoveFirst(h.bins[b], p)]
<1>1. g \in Good /\ g.binmap = h.binmap
  <2>1. g \in Good
    BY CheckKeeps
  <2>2. g.binmap = h.binmap
    BY DEF Check, Good, Heaps
  <2> QED BY <2>1, <2>2
<1>2. \A b \in 1 .. NBINS - 1 : RemoveFirst(h.bins[b], p) \in Lists /\ (h.bins[b] = << >> => RemoveFirst(h.bins[b], p) = << >>)
  <2> SUFFICES ASSUME NEW b \in 1 .. NBINS - 1
               PROVE  RemoveFirst(h.bins[b], p) \in Lists /\ (h.bins[b] = << >> => RemoveFirst(h.bins[b], p) = << >>)
    OBVIOUS
  <2>1. h.bins[b] \in Seq(Aligned)
    BY GoodBins DEF Lists
  <2>2. CASE Contains(h.bins[b], p)
    <3>1. PICK i \in 1 .. Len(h.bins[b]) : RemoveFirst(h.bins[b], p) = RemoveAt(h.bins[b], i)
      BY <2>1, <2>2, RemoveFirstIs
    <3>2. RemoveAt(h.bins[b], i) \in Seq(Aligned) /\ h.bins[b] # << >>
      BY <2>1, RemovedAt
    <3> QED BY <3>1, <3>2 DEF Lists
  <2>3. CASE ~Contains(h.bins[b], p)
    BY <2>1, <2>3, RemoveFirstIs DEF Lists
  <2> QED BY <2>2, <2>3
<1>3. DOMAIN h.bins = 1 .. NBINS - 1
  BY GoodBins DEF Bins
<1>4. bins \in Bins
  BY <1>2, <1>3 DEF Bins
<1>5. BinsAreMarked(bins, g.binmap)
  <2>0. \A b \in 1 .. NBINS - 1 : bins[b] # << >> => h.bins[b] # << >>
    BY <1>2, <1>3
  <2>1. \A b \in 2 .. NBINS - 1 : bins[b] # << >> => h.bins[b] # << >>
    <3>1. \A b \in 2 .. NBINS - 1 : b \in 1 .. NBINS - 1
      OBVIOUS
    <3> HIDE DEF bins
    <3> QED BY <2>0, <3>1
  <2> HIDE DEF bins
  <2> QED BY <1>1, <2>1, GoodBins DEF BinsAreMarked
<1> HIDE DEF g, bins
<1>6. [g EXCEPT !.bins = bins] \in Good
  BY <1>1, <1>4, <1>5, BinsKeep
<1> QED
  BY <1>6 DEF unlink_chunk, g, bins

(* One bin gets another list. *)
LEMMA OneBinKeeps ==
  ASSUME NEW h \in Good, NEW b, NEW list,
         b \in 1 .. NBINS - 1 => list \in Lists,
         b \in 2 .. NBINS - 1 => b \in h.binmap \/ list = << >>
  PROVE  [h EXCEPT !.bins[b] = list] \in Good
<1> DEFINE bins == [h.bins EXCEPT ![b] = list]
<1>1. bins \in Bins /\ \A c \in 1 .. NBINS - 1 : bins[c] = IF c = b THEN list ELSE h.bins[c]
  BY GoodBins DEF Bins
<1> HIDE DEF bins
<1>2. BinsAreMarked(bins, h.binmap)
  BY <1>1, GoodBins, PtAssumption DEF BinsAreMarked
<1>3. [h EXCEPT !.bins = bins] \in Good
  BY <1>1, <1>2, BinsKeep
<1> QED
  BY <1>3 DEF bins

(* One bin gets another list and its mark. *)
LEMMA OneMarkedBinKeeps ==
  ASSUME NEW h \in Good, NEW b \in Marks, NEW list,
         b \in 1 .. NBINS - 1 => list \in Lists
  PROVE  [h EXCEPT !.bins[b] = list, !.binmap = h.binmap \union {b}] \in Good
<1> DEFINE bins == [h.bins EXCEPT ![b] = list]
<1>1. bins \in Bins /\ \A c \in 1 .. NBINS - 1 : bins[c] = IF c = b THEN list ELSE h.bins[c]
  BY GoodBins DEF Bins
<1> HIDE DEF bins
<1>2. BinsAreMarked(bins, h.binmap \union {b}) /\ h.binmap \union {b} \in SUBSET Marks
  BY <1>1, GoodBins, PtAssumption DEF BinsAreMarked
<1>3. [h EXCEPT !.bins = bins, !.binmap = h.binmap \union {b}] \in Good
  BY <1>1, <1>2, MarkedBinsKeep
<1> QED
  BY <1>3 DEF bins

(* A chunk in front of a list. *)
LEMMA Pushed ==
  ASSUME NEW A, NEW p \in A, NEW s \in Seq(A)
  PROVE  /\ <<p>> \o s \in Seq(A) /\ Len(<<p>> \o s) = Len(s) + 1 /\ <<p>> \o s # << >>
<1>1. <<p>> \in Seq(A) /\ Len(<<p>>) = 1
  OBVIOUS
<1>2. <<p>> \o s \in Seq(A) /\ Len(<<p>> \o s) = Len(s) + 1
  BY <1>1, ConcatProperties
<1> QED
  BY <1>2

(* The unsorted bin needs no mark. *)
LEMMA PutUnsortedKeeps ==
  ASSUME NEW h \in Good, NEW p \in Aligned
  PROVE  PutUnsorted(h, p) \in Good
<1>1. 1 \in 1 .. NBINS - 1 => <<p>> \o h.bins[1] \in Lists
  BY Pushed, GoodBins DEF Lists
<1>2. 1 \notin 2 .. NBINS - 1
  BY PtAssumption
<1>3. [h EXCEPT !.bins[1] = <<p>> \o h.bins[1]] \in Good
  BY <1>1, <1>2, OneBinKeeps
<1> QED
  BY <1>3 DEF PutUnsorted

(* Min and Max of two. *)
LEMMA SmallerOfTwo ==
  ASSUME NEW a \in Int, NEW b \in Int
  PROVE  /\ Min({a, b}) \in {a, b} /\ Min({a, b}) <= a /\ Min({a, b}) <= b
         /\ Max({a, b}) \in {a, b} /\ Max({a, b}) >= a /\ Max({a, b}) >= b
<1> DEFINE S == {a, b}
<1>1. S \in SUBSET Int /\ S # {} /\ a \in S /\ b \in S
  OBVIOUS
<1>2. \E x \in S : \A y \in S : x <= y
  BY <1>1
<1>3. \E x \in S : \A y \in S : x >= y
  BY <1>1
<1>4. Min(S) \in S /\ \A y \in S : Min(S) <= y
  BY <1>2 DEF Min
<1>5. Max(S) \in S /\ \A y \in S : Max(S) >= y
  BY <1>3 DEF Max
<1> QED
  BY <1>1, <1>4, <1>5

(* bin_index gives a bin, or a number below the bins for what is no chunk. *)
LEMMA IndexInMarks ==
  ASSUME NEW size \in Aligned
  PROVE  bin_index(size) \in Marks
<1> DEFINE m == (MinLargeSize \div MALLOC_ALIGNMENT) + ((size - MinLargeSize) \div LargeWidth)
<1>1. size \in Int /\ NBINS - 1 \in Int
  BY PtAssumption DEF Aligned
<1>2. in_smallbin_range(size) => size \div MALLOC_ALIGNMENT \in Marks
  BY <1>1, PtAssumption DEF in_smallbin_range, Marks, MALLOC_ALIGNMENT, SIZE_SZ
<1>3. m \in Int
  <2>1. size - MinLargeSize \in Int /\ LargeWidth \in Nat \ {0} /\ MinLargeSize \in Nat
    BY <1>1, PtAssumption
  <2>2. (size - MinLargeSize) \div LargeWidth \in Int
    BY <2>1
  <2>3. MinLargeSize \div MALLOC_ALIGNMENT \in Int
    BY <2>1 DEF MALLOC_ALIGNMENT, SIZE_SZ
  <2> QED BY <2>2, <2>3
<1> HIDE DEF m
<1>4. largebin_index(size) \in Marks
  <2>1. Min({NBINS - 1, m}) \in Int /\ Min({NBINS - 1, m}) <= NBINS - 1
    BY <1>1, <1>3, SmallerOfTwo
  <2> QED BY <2>1 DEF largebin_index, m, Marks
<1> QED
  BY <1>2, <1>4 DEF bin_index

(* A list with one element more. *)
LEMMA InsertedType ==
  ASSUME NEW A, NEW s \in Seq(A), NEW i \in 1 .. Len(s) + 1, NEW e \in A
  PROVE  InsertAt(s, i, e) \in Seq(A)
<1> DEFINE a == SubSeq(s, 1, i - 1)
           b == SubSeq(s, i, Len(s))
<1>1. /\ Len(s) \in Nat /\ i - 1 \in Int /\ i \in Int
      /\ \A j \in 1 .. (i - 1) : s[j] \in A
      /\ \A j \in i .. Len(s) : s[j] \in A
  OBVIOUS
<1>2. a \in Seq(A) /\ b \in Seq(A)
  BY <1>1, SubSeqProperties
<1>3. <<e>> \in Seq(A)
  OBVIOUS
<1> HIDE DEF a, b
<1>4. a \o <<e>> \in Seq(A)
  BY <1>2, <1>3, ConcatProperties
<1>5. (a \o <<e>>) \o b \in Seq(A)
  BY <1>2, <1>4, ConcatProperties
<1> QED
  BY <1>5 DEF InsertAt, a, b

(* A set of indices is finite. *)
LEMMA CountUpTo ==
  ASSUME NEW n \in Nat, NEW K \in SUBSET (1 .. n)
  PROVE  IsFiniteSet(K) /\ Cardinality(K) \in 0 .. n
<1>1. IsFiniteSet(1 .. n) /\ Cardinality(1 .. n) = IF 1 > n THEN 0 ELSE n - 1 + 1
  <2>1. 1 \in Int /\ n \in Int
    OBVIOUS
  <2> QED BY <2>1, FS_Interval
<1>2. Cardinality(1 .. n) = n
  BY <1>1
<1>3. IsFiniteSet(K) /\ Cardinality(K) <= Cardinality(1 .. n)
  BY <1>1, FS_Subset
<1>4. Cardinality(K) \in Nat
  BY <1>3, FS_CardinalityType
<1> QED
  BY <1>2, <1>3, <1>4

(* Larger counts chunks of the bin. *)
LEMMA LargerCount ==
  ASSUME NEW h, NEW bin \in Lists, NEW size
  PROVE  Larger(h, bin, size) \in Nat /\ Larger(h, bin, size) <= Len(bin)
<1> DEFINE K == {k \in DOMAIN bin : chunksize(h, bin[k]) > size}
<1>1. DOMAIN bin = 1 .. Len(bin) /\ Len(bin) \in Nat
  BY DEF Lists
<1>3. K \in SUBSET (1 .. Len(bin))
  BY <1>1
<1> HIDE DEF K
<1>4. Cardinality(K) \in 0 .. Len(bin)
  BY <1>1, <1>3, CountUpTo
<1> QED
  BY <1>1, <1>4 DEF Larger, K

(* Place: the bin that gets the chunk is marked. *)
LEMMA PlaceKeeps ==
  ASSUME NEW h \in Good, NEW p \in Aligned, NEW size, NEW b \in Marks, NEW above,
         b \in 1 .. NBINS - 1 => above \in 0 .. Len(h.bins[b])
  PROVE  Place(h, p, size, b, above) \in Good
<1> DEFINE bin == h.bins[b]
           list == IF in_smallbin_range(size) THEN <<p>> \o bin
                   ELSE IF above < Len(bin) /\ chunksize(h, bin[above + 1]) = size THEN InsertAt(bin, above + 2, p)
                   ELSE InsertAt(bin, above + 1, p)
<1>1. ASSUME b \in 1 .. NBINS - 1 PROVE list \in Lists
  <2>1. bin \in Seq(Aligned) /\ above \in 0 .. Len(bin) /\ Len(bin) \in Nat
    BY <1>1, GoodBins DEF Lists
  <2> HIDE DEF bin
  <2>2. <<p>> \o bin \in Seq(Aligned)
    BY <2>1, Pushed
  <2>3. above < Len(bin) => InsertAt(bin, above + 2, p) \in Seq(Aligned)
    <3> SUFFICES ASSUME above < Len(bin) PROVE InsertAt(bin, above + 2, p) \in Seq(Aligned)
      OBVIOUS
    <3>1. above + 2 \in 1 .. Len(bin) + 1
      BY <2>1
    <3> QED BY <2>1, <3>1, InsertedType
  <2>4. InsertAt(bin, above + 1, p) \in Seq(Aligned)
    <3>1. above + 1 \in 1 .. Len(bin) + 1
      BY <2>1
    <3> QED BY <2>1, <3>1, InsertedType
  <2> QED BY <2>2, <2>3, <2>4 DEF Lists
<1> HIDE DEF list
<1>2. [h EXCEPT !.bins[b] = list, !.binmap = h.binmap \union {b}] \in Good
  BY <1>1, OneMarkedBinKeeps
<1> QED
  BY <1>2 DEF Place, list, bin

(* PlaceInBin, whose cached list stays as it is. *)
LEMMA PlaceInBinKeeps ==
  ASSUME NEW h \in Good, NEW p \in Aligned
  PROVE  PlaceInBin(h, p) \in Good /\ PlaceInBin(h, p).entries = h.entries
<1> DEFINE b == bin_index(chunksize(h, p))
           above == Larger(h, h.bins[b], chunksize(h, p))
<1>1. b \in Marks
  BY HeadFields, IndexInMarks
<1>2. b \in 1 .. NBINS - 1 => above \in 0 .. Len(h.bins[b])
  <2> HIDE DEF b
  <2>1. b \in 1 .. NBINS - 1 => h.bins[b] \in Lists
    BY GoodBins
  <2>2. \A bin \in Lists : Larger(h, bin, chunksize(h, p)) \in Nat /\ Larger(h, bin, chunksize(h, p)) <= Len(bin) /\ Len(bin) \in Nat
    BY LargerCount DEF Lists
  <2> QED BY <2>1, <2>2
<1> HIDE DEF b, above
<1>3. Place(h, p, chunksize(h, p), b, above) \in Good
  BY <1>1, <1>2, PlaceKeeps
<1>4. Place(h, p, chunksize(h, p), b, above).entries = h.entries
  BY DEF Place, Good, Heaps
<1> QED
  BY <1>3, <1>4 DEF PlaceInBin, b, above

-------------------------------------------------------------------------------
(* Merging. *)
LEMMA CoalesceKeeps ==
  ASSUME NEW h \in Good, NEW p \in Aligned
  PROVE  Coalesce(h, p) \in Good
<1> DEFINE q == MergedStart(h, p)
           next == next_chunk(h, p)
           back == MergeBack(h, p, q)
           forth == MergeForth(back, next)
<1>1. q \in Aligned /\ next \in Aligned
  BY HeadFields, EvenSums DEF MergedStart
<1> HIDE DEF q, next
<1>2. back \in Good
  BY CheckKeeps, UnlinkKeeps, DropKeeps DEF MergeBack
<1> HIDE DEF back
<1>3. forth \in Good
  BY <1>1, <1>2, UnlinkKeeps, DropKeeps, HeadsKeep, EvenSums DEF MergeForth
<1> HIDE DEF forth
<1>4. MergedEnd(forth, next) \in Aligned
  BY <1>1, <1>3, HeadFields DEF MergedEnd
<1>5. \A size \in Aligned : Settle(forth, q, size) \in Good
  <2> SUFFICES ASSUME NEW size \in Aligned PROVE Settle(forth, q, size) \in Good
    OBVIOUS
  <2>1. set_head(forth, q, size) \in Good
    BY <1>1, <1>3, HeadsKeep
  <2>2. [set_head(forth, q, size) EXCEPT !.top = q] \in Good
    BY <1>1, <2>1, OtherFields
  <2>3. set_foot(PutUnsorted(set_head(forth, q, size), q), q, size) \in Good
    BY <1>1, <2>1, PutUnsortedKeeps, HeadsKeep
  <2> QED BY <2>2, <2>3 DEF Settle
<1>6. MergedEnd(h, next) - q \in Aligned
  BY <1>1, HeadFields, EvenSums DEF MergedEnd
<1> QED
  BY <1>5, <1>6 DEF Coalesce, Merge, q, next, back, forth

(* What leaves the fastbins alone. *)
LEMMA FastFrame ==
  ASSUME NEW h \in Good, NEW a, NEW s, NEW p, NEW ok
  PROVE  /\ Put(h, a, s).fast = h.fast /\ Drop(h, a).fast = h.fast
         /\ set_head(h, a, s).fast = h.fast /\ set_foot(h, a, s).fast = h.fast
         /\ set_inuse_bit(h, a).fast = h.fast /\ clear_inuse_bit(h, a).fast = h.fast
         /\ Check(h, ok).fast = h.fast /\ PutUnsorted(h, a).fast = h.fast
         /\ [h EXCEPT !.top = a].fast = h.fast
BY DEF Good, Heaps, Put, Drop, set_head, set_foot, set_inuse_bit, clear_inuse_bit, Check, PutUnsorted

(* unlink_chunk leaves the fastbins alone. *)
LEMMA UnlinkFast ==
  ASSUME NEW h \in Good, NEW p
  PROVE  unlink_chunk(h, p).fast = h.fast
<1> DEFINE g == Check(h, chunksize(h, p) = prev_size(h, next_chunk(h, p)) /\ InBin(h, p))
<1>1. g \in Good /\ g.fast = h.fast
  BY CheckKeeps, FastFrame
<1> HIDE DEF g
<1>2. \A x : [g EXCEPT !.bins = x].fast = h.fast
  BY <1>1 DEF Good, Heaps
<1> QED
  BY <1>2 DEF unlink_chunk, g

(* So does Coalesce. *)
LEMMA CoalesceFast ==
  ASSUME NEW h \in Good, NEW p \in Aligned
  PROVE  Coalesce(h, p).fast = h.fast
<1> DEFINE q == MergedStart(h, p)
           next == next_chunk(h, p)
           checked == Check(h, chunksize(h, q) = p - q)
           back == MergeBack(h, p, q)
           forth == MergeForth(back, next)
           size == MergedEnd(h, next) - q
<1>1. q \in Aligned /\ next \in Aligned /\ size \in Aligned
  BY HeadFields, EvenSums DEF MergedStart, MergedEnd
<1> HIDE DEF q, next, size
<1>2. back \in Good /\ back.fast = h.fast
  <2>1. checked \in Good /\ checked.fast = h.fast
    BY CheckKeeps, FastFrame
  <2> HIDE DEF checked
  <2>2. unlink_chunk(checked, q) \in Good /\ unlink_chunk(checked, q).fast = h.fast
    BY <2>1, UnlinkKeeps, UnlinkFast
  <2>3. Drop(unlink_chunk(checked, q), p) \in Good /\ Drop(unlink_chunk(checked, q), p).fast = h.fast
    BY <2>2, DropKeeps, FastFrame
  <2> QED BY <2>3 DEF MergeBack, checked
<1> HIDE DEF back
<1>3. forth \in Good /\ forth.fast = h.fast
  <2>1. unlink_chunk(back, next) \in Good /\ unlink_chunk(back, next).fast = h.fast
    BY <1>2, UnlinkKeeps, UnlinkFast
  <2>2. Drop(unlink_chunk(back, next), next) \in Good /\ Drop(unlink_chunk(back, next), next).fast = h.fast
    BY <2>1, DropKeeps, FastFrame
  <2>3. Drop(back, next) \in Good /\ Drop(back, next).fast = h.fast
    BY <1>2, DropKeeps, FastFrame
  <2>4. clear_inuse_bit(back, next) \in Good /\ clear_inuse_bit(back, next).fast = h.fast
    BY <1>1, <1>2, HeadsKeep, EvenSums, FastFrame
  <2> QED BY <2>2, <2>3, <2>4 DEF MergeForth
<1> HIDE DEF forth
<1>4. Settle(forth, q, size).fast = h.fast
  <2>1. set_head(forth, q, size) \in Good /\ set_head(forth, q, size).fast = h.fast
    <3>1. set_head(forth, q, size) \in Good
      BY <1>1, <1>3, HeadsKeep
    <3>2. set_head(forth, q, size).fast = h.fast
      BY <1>3, FastFrame
    <3> QED BY <3>1, <3>2
  <2>2. [set_head(forth, q, size) EXCEPT !.top = q].fast = h.fast
    BY <2>1, FastFrame
  <2>3. PutUnsorted(set_head(forth, q, size), q) \in Good /\ PutUnsorted(set_head(forth, q, size), q).fast = h.fast
    BY <1>1, <2>1, PutUnsortedKeeps, FastFrame
  <2>4. set_foot(PutUnsorted(set_head(forth, q, size), q), q, size).fast = h.fast
    BY <2>3, FastFrame
  <2> QED BY <2>2, <2>4 DEF Settle
<1> QED
  BY <1>4 DEF Coalesce, Merge, q, next, back, forth, size

NoFast(fast) == \A i \in 0 .. NFASTBINS - 1 : fast[i] = << >>
Merged == {h \in Good : NoFast(h.fast)}

(* malloc_consolidate empties the fastbins, and only then is the flag down. *)
LEMMA ConsolidateKeeps ==
  ASSUME NEW h \in Good
  PROVE  malloc_consolidate(h) \in Merged
<1> DEFINE fast == [i \in DOMAIN h.fast |-> << >>]
           g == [h EXCEPT !.fast = fast, !.have_fastchunks = FALSE]
           lists == [i \in 1 .. NFASTBINS |-> h.fast[i - 1]]
<1>1. fast \in Fasts /\ NoFast(fast)
  <2>1. DOMAIN h.fast = 0 .. NFASTBINS - 1
    BY GoodBins DEF Fasts
  <2>2. << >> \in Lists
    BY DEF Lists
  <2>3. \A i \in 0 .. NFASTBINS - 1 : fast[i] = << >>
    BY <2>1
  <2>4. fast \in Fasts
    BY <2>1, <2>2 DEF Fasts
  <2> QED BY <2>3, <2>4 DEF NoFast
<1> HIDE DEF fast
<1>2. g \in Good /\ g.fast = fast
  <2>1. g \in Heaps /\ g.bins = h.bins /\ g.binmap = h.binmap /\ g.fast = fast /\ g.mp = h.mp /\ g.have_fastchunks = FALSE
    BY <1>1 DEF Good, Heaps
  <2> HIDE DEF g
  <2> QED BY <1>1, <2>1, GoodBins DEF Good, FastAreFlagged, FastAreSmall, NoFast
<1> HIDE DEF g
<1>3. g \in Merged
  BY <1>1, <1>2 DEF Merged
<1>4. FlattenSeq(lists) \in Seq(Aligned)
  <2>1. NFASTBINS \in Nat
    BY SmallEnough
  <2>2. \A i \in 1 .. NFASTBINS : h.fast[i - 1] \in Seq(Aligned)
    BY <2>1, GoodBins DEF Lists
  <2>3. lists \in Seq(Seq(Aligned))
    BY <2>1, <2>2
  <2> HIDE DEF lists
  <2> QED BY <2>3, FlattenedType
<1>5. \A x \in Merged, p \in Aligned : Coalesce(x, p) \in Merged
  BY CoalesceKeeps, CoalesceFast DEF Merged
<1> HIDE DEF lists
<1>6. FoldLeft(Coalesce, g, FlattenSeq(lists)) \in Merged
  BY <1>3, <1>4, <1>5, CoalesceFold
<1> QED
  BY <1>6 DEF malloc_consolidate, g, fast, lists

(* Serve: a chunk is cut, the rest goes to the unsorted. *)
LEMMA ServeKeeps ==
  ASSUME NEW h \in Good, NEW p \in Aligned, NEW nb \in Aligned
  PROVE  Serve(h, p, nb) \in Good
<1> DEFINE size == chunksize(h, p)
           r == p + nb
<1>1. size \in Aligned /\ r \in Aligned /\ p + size \in Aligned
  BY HeadFields, EvenSums
<1>2. size - nb \in Aligned
  BY <1>1, EvenSums
<1> HIDE DEF size, r
<1>3. set_inuse_bit(h, p + size) \in Good
  BY <1>1, <1>2, HeadsKeep
<1>4. PutUnsorted(h, r) \in Good
  BY <1>1, PutUnsortedKeeps
<1>5. set_head(PutUnsorted(h, r), p, nb) \in Good
  BY <1>4, HeadsKeep
<1>6. set_head(set_head(PutUnsorted(h, r), p, nb), r, size - nb) \in Good
  BY <1>1, <1>2, <1>5, HeadsKeep
<1>7. set_foot(set_head(set_head(PutUnsorted(h, r), p, nb), r, size - nb), r, size - nb) \in Good
  BY <1>1, <1>2, <1>6, HeadsKeep
<1> QED
  BY <1>3, <1>7 DEF Serve, size, r

(* ServeFromTop: the same of top. *)
LEMMA ServeFromTopKeeps ==
  ASSUME NEW h \in Good, NEW nb \in Aligned
  PROVE  ServeFromTop(h, nb) \in Good /\ h.top \in Aligned
<1>1. h.top \in Aligned
  BY DEF Good, Heaps
<1>2. chunksize(h, h.top) - nb \in Aligned /\ h.top + nb \in Aligned
  BY <1>1, HeadFields, EvenSums
<1>3. set_head(h, h.top, nb) \in Good
  BY <1>1, HeadsKeep
<1>4. set_head(set_head(h, h.top, nb), h.top + nb, chunksize(h, h.top) - nb) \in Good
  BY <1>2, <1>3, HeadsKeep
<1> QED
  BY <1>1, <1>2, <1>4, OtherFields DEF ServeFromTop

(* The multiples of a power of two from 4 on are aligned. *)
LEMMA PowerMultiple ==
  ASSUME NEW a \in Powers, NEW k \in Int
  PROVE  k * a \in Aligned /\ a \in Nat \ {0} /\ a \in Aligned
BY DEF Powers, Aligned, MALLOC_ALIGNMENT, SIZE_SZ

(* Pages are aligned, and so is what is rounded to them. *)
LEMMA PageSizes ==
  /\ PageSize \in Powers /\ PageSize \in Nat \ {0} /\ PageSize \in Aligned
  /\ WordMod \in Aligned /\ WordMod \in Nat \ {0}
  /\ \A n \in Int : AlignUp(n, PageSize) \in Aligned /\ AlignDown(n, PageSize) \in Aligned
<1>1. PageSize \in Powers /\ PageSize \in Nat \ {0} /\ PageSize \in Aligned
  BY PtAssumption, PowerMultiple
<1>2. WordMod \in Nat \ {0} /\ WordMod % PageSize = 0
  <2>1. WordMod \in Nat /\ WordMod % (2 * PageSize) = 0 /\ WordMod > 4 * MmapTop /\ MmapTop \in Nat
    BY PtAssumption
  <2>2. WordMod = (2 * PageSize) * (WordMod \div (2 * PageSize)) /\ WordMod \div (2 * PageSize) \in Int
    BY <1>1, <2>1, SMTT(30)
  <2> DEFINE k == WordMod \div (2 * PageSize)
  <2>3. k \in Int /\ WordMod = (2 * k) * PageSize
    BY <1>1, <2>2, SMTT(30)
  <2> HIDE DEF k
  <2>4. ((2 * k) * PageSize) % PageSize = 0
    BY <1>1, <2>3, SMTT(30)
  <2> QED BY <2>1, <2>3, <2>4
<1>3. WordMod = (WordMod \div PageSize) * PageSize /\ WordMod \div PageSize \in Int
  BY <1>1, <1>2, SMTT(30)
<1>4. WordMod \in Aligned
  <2>1. (WordMod \div PageSize) * PageSize \in Aligned
    BY <1>1, <1>3, PowerMultiple
  <2> QED BY <1>3, <2>1
<1>5. \A n \in Int : AlignUp(n, PageSize) \in Aligned /\ AlignDown(n, PageSize) \in Aligned
  <2> SUFFICES ASSUME NEW n \in Int PROVE AlignUp(n, PageSize) \in Aligned /\ AlignDown(n, PageSize) \in Aligned
    OBVIOUS
  <2>1. n \div PageSize \in Int /\ (n + PageSize - 1) \div PageSize \in Int
    BY <1>1
  <2> QED BY <1>1, <2>1, PowerMultiple DEF AlignUp, AlignDown
<1> QED BY <1>1, <1>2, <1>4, <1>5

(* sbrk by an aligned number. *)
LEMMA SbrkKeeps ==
  ASSUME NEW h \in Good, NEW n \in Aligned
  PROVE  /\ Sbrk(h, n).h \in Good
         /\ Sbrk(h, n).brk # Failed => Sbrk(h, n).brk \in Aligned /\ Sbrk(h, n).brk = h.brk
         /\ h.brk \in Aligned
<1>1. h.brk \in Aligned
  BY DEF Good, Heaps
<1>2. [h EXCEPT !.brk = h.brk + n] \in Good
  BY <1>1, EvenSums, OtherFields
<1> QED
  BY <1>1, <1>2 DEF Sbrk

(* The count of words got from the kernel changes. *)
LEMMA SystemMemKeeps ==
  ASSUME NEW h \in Good, NEW n \in Int
  PROVE  [h EXCEPT !.system_mem = n] \in Good /\ h.system_mem \in Int
BY DEF Good, Heaps

(* systrim gives back whole pages. *)
LEMMA SystrimKeeps ==
  ASSUME NEW h \in Good, NEW pad \in Int
  PROVE  systrim(h, pad).h \in Good
<1> DEFINE top_size == chunksize(h, h.top)
           top_area == (top_size - MINSIZE - 1) % WordMod
           extra == AlignDown((top_area - pad) % WordMod, PageSize)
           released == IF extra > PTRDIFF_MAX THEN extra - WordMod ELSE extra
           less == Sbrk(h, -released)
<1>1. top_size \in Aligned /\ h.top \in Aligned
  BY HeadFields DEF Good, Heaps
<1> HIDE DEF top_size
<1>2. top_area \in Int
  BY <1>1, PageSizes DEF Aligned, MINSIZE, SIZE_SZ
<1> HIDE DEF top_area
<1>3. extra \in Aligned
  BY <1>2, PageSizes
<1> HIDE DEF extra
<1>4. released \in Aligned /\ -released \in Aligned /\ released \in Int
  <2>1. released \in Aligned
    BY <1>3, PageSizes, EvenSums
  <2> HIDE DEF released
  <2>2. 0 - released \in Aligned
    BY <2>1, EvenSums
  <2> QED BY <2>1, <2>2 DEF Aligned
<1> HIDE DEF released
<1>5. less.h \in Good
  BY <1>4, SbrkKeeps
<1> HIDE DEF less
<1>6. [less.h EXCEPT !.system_mem = less.h.system_mem - released] \in Good
  <2>1. less.h.system_mem \in Int
    BY <1>5, SystemMemKeeps
  <2>2. less.h.system_mem - released \in Int
    BY <1>4, <2>1
  <2> QED BY <1>5, <2>2, SystemMemKeeps
<1>7. top_size - released \in Aligned
  BY <1>1, <1>4, EvenSums
<1>8. set_head([less.h EXCEPT !.system_mem = less.h.system_mem - released], h.top, top_size - released) \in Good
  BY <1>1, <1>6, <1>7, HeadsKeep
<1> QED
  BY <1>8 DEF systrim, top_size, top_area, extra, released, less

-------------------------------------------------------------------------------
(* The thread's cache. *)
LEMMA OneEntryKeeps ==
  ASSUME NEW h \in Good, NEW idx, NEW list, idx \in 0 .. TCACHE_MAX_BINS - 1 => list \in Lists
  PROVE  /\ [h EXCEPT !.entries[idx] = list] \in Good
         /\ idx \in 0 .. TCACHE_MAX_BINS - 1 => [h EXCEPT !.entries[idx] = list].entries[idx] = list
<1> DEFINE entries == [h.entries EXCEPT ![idx] = list]
<1>1. entries \in Caches /\ (idx \in 0 .. TCACHE_MAX_BINS - 1 => entries[idx] = list)
  BY GoodBins DEF Caches
<1> HIDE DEF entries
<1>2. [h EXCEPT !.entries = entries] \in Good /\ [h EXCEPT !.entries = entries].entries = entries
  BY <1>1 DEF Good, Heaps
<1> QED
  BY <1>1, <1>2 DEF entries

(* tcache_put. *)
LEMMA TcachePutKeeps ==
  ASSUME NEW h \in Good, NEW p \in Aligned, NEW idx
  PROVE  /\ tcache_put(h, p, idx) \in Good
         /\ idx \in 0 .. TCACHE_MAX_BINS - 1 => tcache_put(h, p, idx).entries[idx] # << >>
<1>1. idx \in 0 .. TCACHE_MAX_BINS - 1 => <<p>> \o h.entries[idx] \in Lists /\ <<p>> \o h.entries[idx] # << >>
  BY GoodBins, Pushed DEF Lists
<1> QED
  BY <1>1, OneEntryKeeps DEF tcache_put

(* The first element and the others. *)
LEMMA HeadAndTail ==
  ASSUME NEW A, NEW s \in Seq(A), s # << >>
  PROVE  Head(s) \in A /\ Tail(s) \in Seq(A)
OBVIOUS

(* tcache_get of a list that has a chunk. *)
LEMMA TcacheGetKeeps ==
  ASSUME NEW h \in Good, NEW idx \in 0 .. TCACHE_MAX_BINS - 1, h.entries[idx] # << >>
  PROVE  tcache_get(h, idx).h \in Good /\ tcache_get(h, idx).p \in Aligned
<1>1. Tail(h.entries[idx]) \in Lists /\ Head(h.entries[idx]) \in Aligned
  BY GoodBins, HeadAndTail DEF Lists
<1> QED
  BY <1>1, OneEntryKeeps DEF tcache_get, Answer

-------------------------------------------------------------------------------
(* free *)
LEMMA FreeToFastbinKeeps ==
  ASSUME NEW h \in Good, NEW p \in Aligned, chunksize(h, p) <= h.mp.max_fast
  PROVE  FreeToFastbin(h, p) \in Good
<1> DEFINE idx == fastbin_index(chunksize(h, p))
           g == Check(h, NextIsSane(h, p) /\ (h.fast[idx] # << >> => Head(h.fast[idx]) # p))
           fast == [h.fast EXCEPT ![idx] = <<p>> \o h.fast[idx]]
<1>1. g \in Good /\ g.fast = h.fast /\ g.mp = h.mp
  <2>1. g \in Good
    BY CheckKeeps
  <2>2. g.fast = h.fast /\ g.mp = h.mp
    BY DEF Check, Good, Heaps
  <2> QED BY <2>1, <2>2
<1>2. idx \in Int /\ idx <= fastbin_index(h.mp.max_fast) /\ fastbin_index(h.mp.max_fast) \in Int
  <2>1. chunksize(h, p) \in Int /\ h.mp.max_fast \in Int
    BY HeadFields, GoodBins, SmallEnough, PtAssumption
       DEF Aligned, Settled, request2size, AlignDown, MINSIZE, MALLOC_ALIGNMENT, SIZE_SZ
  <2> QED BY <2>1 DEF fastbin_index, MALLOC_ALIGNMENT, SIZE_SZ
<1> HIDE DEF idx
<1>3. idx \in 0 .. NFASTBINS - 1 => <<p>> \o h.fast[idx] \in Lists
  BY GoodBins, Pushed DEF Lists
<1>4. fast \in Fasts /\ \A i \in 0 .. NFASTBINS - 1 : i # idx => fast[i] = h.fast[i]
  BY <1>3, GoodBins DEF Fasts
<1> HIDE DEF fast
<1>5. FastAreSmall(fast, h.mp.max_fast)
  BY <1>2, <1>4, GoodBins DEF FastAreSmall
<1> HIDE DEF g
<1>6. [g EXCEPT !.fast = fast, !.have_fastchunks = TRUE] \in Good
  <2> DEFINE k == [g EXCEPT !.fast = fast, !.have_fastchunks = TRUE]
  <2>1. k \in Heaps /\ k.bins = g.bins /\ k.binmap = g.binmap /\ k.fast = fast /\ k.mp = h.mp /\ k.have_fastchunks = TRUE
    <3>1. g \in Heaps /\ fast \in Fasts /\ g.mp = h.mp
      BY <1>1, <1>4 DEF Good
    <3>2. k \in Heaps
      BY <3>1 DEF Heaps
    <3> QED BY <3>1, <3>2 DEF Heaps
  <2> HIDE DEF k
  <2>2. k \in Good
    BY <1>1, <1>5, <2>1, GoodBins DEF Good, FastAreFlagged
  <2> QED BY <2>2 DEF k
<1>7. FreeToFastbin(h, p) = [g EXCEPT !.fast[idx] = <<p>> \o h.fast[idx], !.have_fastchunks = TRUE]
  BY DEF FreeToFastbin, g, idx
<1>8. FreeToFastbin(h, p) = [g EXCEPT !.fast = fast, !.have_fastchunks = TRUE]
  BY <1>1, <1>7 DEF fast
<1> QED
  BY <1>6, <1>8

(* A chunk that is too large for a fastbin is freed. *)
LEMMA FreeToArenaKeeps ==
  ASSUME NEW h \in Good, NEW p \in Aligned
  PROVE  FreeToArena(h, p) \in Good
<1>1. Coalesce(Check(h, Releasable(h, p)), p) \in Good
  BY CheckKeeps, CoalesceKeeps
<1>2. \A g \in Good : TrimTop(g) \in Good
  <2> SUFFICES ASSUME NEW g \in Good PROVE TrimTop(g) \in Good
    OBVIOUS
  <2>1. g.mp.top_pad \in Int
    BY GoodBins DEF Settled
  <2> QED BY <2>1, SystrimKeeps DEF TrimTop
<1>3. \A g \in Good : \A size : Shrunk(g, size) \in Good
  BY <1>2, ConsolidateKeeps DEF Shrunk, Merged
<1> QED
  BY <1>1, <1>3 DEF FreeToArena

(* _int_free. *)
LEMMA FreeKeeps ==
  ASSUME NEW h \in Good, NEW p \in Aligned
  PROVE  int_free(h, p) \in Good
<1> DEFINE size == chunksize(h, p)
           idx == csize2tidx(size)
           g == Check(h, size >= MINSIZE /\ size % MALLOC_ALIGNMENT = 0 /\ p % MALLOC_ALIGNMENT = 0)
<1>1. g \in Good /\ chunksize(g, p) = size /\ g.mp = h.mp
  <2>1. g \in Good
    BY CheckKeeps
  <2>2. g.mem = h.mem /\ g.mp = h.mp
    BY DEF Check, Good, Heaps
  <2> QED BY <2>1, <2>2 DEF chunksize, At
<1> HIDE DEF g
<1>2. tcache_put(Check(g, ~Contains(h.entries[idx], p)), p, idx) \in Good
  BY <1>1, CheckKeeps, TcachePutKeeps
<1>3. size <= h.mp.max_fast => FreeToFastbin(g, p) \in Good
  BY <1>1, FreeToFastbinKeeps
<1>4. FreeToArena(g, p) \in Good
  BY <1>1, FreeToArenaKeeps
<1> QED
  BY <1>2, <1>3, <1>4 DEF int_free, g, size, idx

-------------------------------------------------------------------------------
(* A multiple of the page is aligned. *)
LEMMA PageAligned ==
  ASSUME NEW a \in Int, a % PageSize = 0
  PROVE  a \in Aligned
<1>1. PageSize \in Nat \ {0} /\ PageSize \in Powers
  BY PageSizes
<1>2. a = (a \div PageSize) * PageSize /\ a \div PageSize \in Int
  BY <1>1, SMTT(30)
<1>3. (a \div PageSize) * PageSize \in Aligned
  BY <1>1, <1>2, PowerMultiple
<1> QED BY <1>2, <1>3

(* The mappings and the dirty words change. *)
LEMMA MapsKeep ==
  ASSUME NEW h \in Good, NEW maps \in SUBSET (Int \X Int), NEW soiled \in SUBSET Int
  PROVE  /\ [h EXCEPT !.maps = maps] \in Good
         /\ [h EXCEPT !.maps = maps, !.soiled = soiled] \in Good
         /\ [h EXCEPT !.soiled = soiled] \in Good
         /\ h.maps \in SUBSET (Int \X Int) /\ h.soiled \in SUBSET Int
<1>1. [h EXCEPT !.maps = maps] \in Good
  BY DEF Good, Heaps
<1>2. [h EXCEPT !.maps = maps, !.soiled = soiled] \in Good
  BY DEF Good, Heaps
<1>3. [h EXCEPT !.soiled = soiled] \in Good
  BY DEF Good, Heaps
<1> QED BY <1>1, <1>2, <1>3 DEF Good, Heaps

(* mmap gives whole pages. *)
LEMMA RoomAligned ==
  ASSUME NEW h, NEW n \in Int, Room(h, n) # {}
  PROVE  Max(Room(h, n)) \in Aligned /\ Max(Room(h, n)) \in Int
<1> DEFINE R == Room(h, n)
<1>1. R \in SUBSET Int /\ MmapTop - n \in Int /\ \A a \in R : a <= MmapTop - n /\ a % PageSize = 0
  BY PtAssumption DEF Room
<1> HIDE DEF R
<1>2. R # {} => Max(R) \in R
  BY <1>1, MaxProperties
<1>3. R # {} => Max(R) \in Aligned /\ Max(R) \in Int
  BY <1>1, <1>2, PageAligned
<1> QED BY <1>3 DEF R

(* mmap. *)
LEMMA MmapKeeps ==
  ASSUME NEW h \in Good, NEW n \in Int
  PROVE  Mmap(h, n).h \in Good /\ (Mmap(h, n).at # Failed => Mmap(h, n).at \in Aligned)
<1>1. CASE Room(h, n) = {}
  BY <1>1 DEF Mmap
<1>2. CASE Room(h, n) # {}
  <2> DEFINE at == Max(Room(h, n))
  <2>1. at \in Aligned /\ at \in Int
    BY <1>2, RoomAligned
  <2> HIDE DEF at
  <2>2. h.maps \in SUBSET (Int \X Int) /\ h.soiled \in SUBSET Int
    BY DEF Good, Heaps
  <2>3. h.maps \union {<<at, n>>} \in SUBSET (Int \X Int)
    BY <2>1, <2>2
  <2>4. [h EXCEPT !.maps = h.maps \union {<<at, n>>}] \in Good
    BY <2>2, <2>3, MapsKeep
  <2> QED BY <1>2, <2>1, <2>4 DEF Mmap, at
<1> QED BY <1>1, <1>2

(* munmap. *)
LEMMA MunmapKeeps ==
  ASSUME NEW h \in Good, NEW a, NEW n
  PROVE  Munmap(h, a, n) \in Good
<1>1. h.maps \ {<<a, n>>} \in SUBSET (Int \X Int) /\ h.soiled \ Region(a, n) \in SUBSET Int
  BY MapsKeep
<1> QED BY <1>1, MapsKeep DEF Munmap

(* The counters and thresholds of mp_ change. *)
LEMMA CountersKeep ==
  ASSUME NEW h \in Good, NEW n \in Int, NEW m \in Int
  PROVE  /\ [h EXCEPT !.mp.n_mmaps = n, !.mp.mmapped_mem = m] \in Good
         /\ [h EXCEPT !.mp.mmapped_mem = m] \in Good
         /\ [h EXCEPT !.mp.mmap_threshold = n, !.mp.trim_threshold = m] \in Good
         /\ h.mp.n_mmaps \in Int /\ h.mp.mmapped_mem \in Int
         /\ h.mp.top_pad \in Nat /\ h.mp.tcache_count \in Nat
<1>1. h.mp \in Settled
  BY GoodBins
<1>2. \A mp \in Settled : mp.max_fast = h.mp.max_fast => [h EXCEPT !.mp = mp] \in Good
  BY DEF Good, Heaps
<1>4. [h EXCEPT !.mp.n_mmaps = n, !.mp.mmapped_mem = m] \in Good
  <2> DEFINE mp == [h.mp EXCEPT !.n_mmaps = n, !.mmapped_mem = m]
  <2>1. mp \in Settled /\ mp.max_fast = h.mp.max_fast
    BY <1>1 DEF Settled
  <2> HIDE DEF mp
  <2>2. [h EXCEPT !.mp = mp] \in Good
    BY <1>2, <2>1
  <2> QED BY <2>2 DEF mp
<1>5. [h EXCEPT !.mp.mmapped_mem = m] \in Good
  <2> DEFINE mp == [h.mp EXCEPT !.mmapped_mem = m]
  <2>1. mp \in Settled /\ mp.max_fast = h.mp.max_fast
    BY <1>1 DEF Settled
  <2> HIDE DEF mp
  <2>2. [h EXCEPT !.mp = mp] \in Good
    BY <1>2, <2>1
  <2> QED BY <2>2 DEF mp
<1>6. [h EXCEPT !.mp.mmap_threshold = n, !.mp.trim_threshold = m] \in Good
  <2> DEFINE mp == [h.mp EXCEPT !.mmap_threshold = n, !.trim_threshold = m]
  <2>1. mp \in Settled /\ mp.max_fast = h.mp.max_fast
    BY <1>1 DEF Settled
  <2> HIDE DEF mp
  <2>2. [h EXCEPT !.mp = mp] \in Good
    BY <1>2, <2>1
  <2> QED BY <2>2 DEF mp
<1> QED BY <1>1, <1>4, <1>5, <1>6 DEF Settled

(* Where the heap begins, and what it has got, change. *)
LEMMA BaseKeeps ==
  ASSUME NEW h \in Good, NEW n \in Int, NEW base \in Int, NEW flag \in BOOLEAN
  PROVE  /\ [h EXCEPT !.system_mem = n, !.mp.sbrk_base = base] \in Good
         /\ [h EXCEPT !.system_mem = n, !.mp.sbrk_base = base].top = h.top
         /\ [h EXCEPT !.contiguous = flag, !.system_mem = n, !.mp.sbrk_base = base] \in Good
<1> DEFINE mp == [h.mp EXCEPT !.sbrk_base = base]
<1>1. mp \in Settled /\ mp.max_fast = h.mp.max_fast
  BY GoodBins DEF Settled
<1> HIDE DEF mp
<1>2. /\ [h EXCEPT !.system_mem = n, !.mp = mp] \in Good
      /\ [h EXCEPT !.system_mem = n, !.mp = mp].top = h.top
  <2>1. [h EXCEPT !.system_mem = n, !.mp = mp] \in Good
    BY <1>1 DEF Good, Heaps
  <2> QED BY <2>1 DEF Good, Heaps
<1>3. [h EXCEPT !.contiguous = flag, !.system_mem = n, !.mp = mp] \in Good
  <2> DEFINE k == [h EXCEPT !.contiguous = flag, !.system_mem = n, !.mp = mp]
  <2>1. h \in Heaps
    BY DEF Good
  <2>2. k \in Heaps
    BY <1>1, <2>1 DEF Heaps
  <2>3. k.bins = h.bins /\ k.binmap = h.binmap /\ k.fast = h.fast /\ k.mp = mp
        /\ k.have_fastchunks = h.have_fastchunks
    BY <2>1 DEF Heaps
  <2> HIDE DEF k
  <2>4. k \in Good
    BY <1>1, <2>2, <2>3 DEF Good
  <2> QED BY <2>4 DEF k
<1> QED BY <1>2, <1>3 DEF mp

(* A chunk that is a mapping of its own. *)
LEMMA MmapChunkKeeps ==
  ASSUME NEW h \in Good, NEW nb \in Aligned
  PROVE  Fine(MmapChunk(h, nb))
<1> DEFINE size == AlignUp(nb + SIZE_SZ, PageSize)
           m == Mmap(h, size)
           g == Put(m.h, m.at, [NoHead EXCEPT !.size = size, !.mmapped = TRUE])
<1>1. size \in Aligned /\ size \in Int
  BY PageSizes DEF Aligned, SIZE_SZ
<1> HIDE DEF size
<1>2. m.h \in Good /\ (m.at # Failed => m.at \in Aligned)
  BY <1>1, MmapKeeps
<1> HIDE DEF m
<1>3. [NoHead EXCEPT !.size = size, !.mmapped = TRUE] \in Heads
  BY <1>1, EvenSums DEF NoHead, Heads
<1>4. m.at # Failed => g \in Good
  BY <1>2, <1>3, PutKeeps
<1> HIDE DEF g
<1>5. ASSUME m.at # Failed
      PROVE  [g EXCEPT !.mp.n_mmaps = g.mp.n_mmaps + 1, !.mp.mmapped_mem = g.mp.mmapped_mem + size] \in Good
  <2>1. g.mp.n_mmaps \in Int /\ g.mp.mmapped_mem \in Int /\ g \in Good
    BY <1>4, <1>5, GoodBins DEF Settled
  <2>2. g.mp.n_mmaps + 1 \in Int /\ g.mp.mmapped_mem + size \in Int
    BY <1>1, <2>1
  <2> QED BY <2>1, <2>2, CountersKeep
<1>6. MmapChunk(h, nb) = IF m.at = Failed THEN Answer(h, NULL)
                         ELSE Answer([g EXCEPT !.mp.n_mmaps = g.mp.n_mmaps + 1,
                                               !.mp.mmapped_mem = g.mp.mmapped_mem + size], m.at)
  BY DEF MmapChunk, g, m, size, Put
<1> QED
  BY <1>2, <1>5, <1>6 DEF Fine, Answer

(* A new top; the old one gets fenceposts and is freed. *)
LEMMA ReplaceTopKeeps ==
  ASSUME NEW h \in Good, NEW at \in Aligned, NEW size \in Aligned
  PROVE  ReplaceTop(h, at, size) \in Good
<1> DEFINE old == h.top
           rest == AlignDown(chunksize(h, old) - 2 * CHUNK_HDR_SZ, MALLOC_ALIGNMENT)
           moved == [set_head(h, at, size) EXCEPT !.top = at]
           one == set_head(moved, old, rest)
           two == set_head(one, old + rest, CHUNK_HDR_SZ)
           fenced == set_head(two, old + rest + CHUNK_HDR_SZ, CHUNK_HDR_SZ)
<1>1. old \in Aligned /\ chunksize(h, old) \in Aligned
  BY HeadFields DEF Good, Heaps
<1>2. rest \in Aligned
  BY <1>1 DEF AlignDown, Aligned, MALLOC_ALIGNMENT, SIZE_SZ, CHUNK_HDR_SZ
<1> HIDE DEF old, rest
<1>3. old + rest \in Aligned /\ old + rest + CHUNK_HDR_SZ \in Aligned /\ CHUNK_HDR_SZ \in Aligned
  BY <1>1, <1>2, EvenSums
<1>4. moved \in Good
  BY HeadsKeep, OtherFields
<1> HIDE DEF moved
<1>5. one \in Good
  BY <1>1, <1>2, <1>4, HeadsKeep
<1> HIDE DEF one
<1>6. two \in Good
  BY <1>3, <1>5, HeadsKeep
<1> HIDE DEF two
<1>7. fenced \in Good
  BY <1>3, <1>6, HeadsKeep
<1> HIDE DEF fenced
<1>8. int_free(fenced, old) \in Good
  BY <1>1, <1>7, FreeKeeps
<1> QED
  BY <1>4, <1>7, <1>8 DEF ReplaceTop, old, rest, moved, one, two, fenced

(* The end of the new top is brought to a page. *)
LEMMA AlignTopKeeps ==
  ASSUME NEW h \in Good, NEW at \in Aligned, NEW gap \in Aligned, NEW correction \in Aligned
  PROVE  AlignTop(h, at, gap, correction, Sbrk(h, correction)) \in Good
<1> DEFINE more == Sbrk(h, correction)
<1>1. more.h \in Good /\ (more.brk # Failed => more.brk \in Aligned) /\ h.brk \in Aligned
  BY SbrkKeeps
<1> HIDE DEF more
<1>2. [h EXCEPT !.system_mem = h.system_mem + gap] \in Good
  <2>1. h.system_mem \in Int /\ gap \in Int
    BY DEF Aligned, Good, Heaps
  <2>2. h.system_mem + gap \in Int
    BY <2>1
  <2> QED BY <2>2, SystemMemKeeps
<1>3. [more.h EXCEPT !.system_mem = more.h.system_mem + gap + correction] \in Good
  <2>1. more.h.system_mem \in Int /\ gap \in Int /\ correction \in Int
    BY <1>1 DEF Aligned, Good, Heaps
  <2>2. more.h.system_mem + gap + correction \in Int
    BY <2>1
  <2> QED BY <1>1, <2>2, SystemMemKeeps
<1>4. h.brk - at \in Aligned /\ (more.brk # Failed => (more.brk - at) + correction \in Aligned)
  BY <1>1, EvenSums
<1> QED
  BY <1>2, <1>3, <1>4, ReplaceTopKeeps DEF AlignTop, more

(* The break was moved: top grows, or there is a new one. *)
LEMMA GrowTopKeeps ==
  ASSUME NEW h \in Good, NEW brk \in Aligned, NEW size \in Aligned
  PROVE  GrowTop(h, brk, size) \in Good
<1> DEFINE old_size == chunksize(h, h.top)
           old_end == h.top + old_size
           g == [h EXCEPT !.system_mem = h.system_mem + size,
                          !.mp.sbrk_base = IF h.mp.sbrk_base = 0 THEN brk ELSE h.mp.sbrk_base]
           aligned == AlignUp(brk, MALLOC_ALIGNMENT)
           short == (aligned - brk) + old_size
           correction == AlignUp(brk + size + short, PageSize) - (brk + size)
           gap == IF old_size = 0 THEN 0 ELSE brk - old_end
<1>1. old_size \in Aligned /\ h.top \in Aligned /\ old_end \in Aligned
  BY HeadFields, EvenSums DEF Good, Heaps
<1> HIDE DEF old_size, old_end
<1>2. g \in Good /\ g.top = h.top
  <2>1. size \in Int /\ brk \in Int /\ h.system_mem \in Int /\ h.mp.sbrk_base \in Int
    BY DEF Aligned, Good, Heaps, Settled
  <2>2. h.system_mem + size \in Int
    BY <2>1
  <2> DEFINE base == IF h.mp.sbrk_base = 0 THEN brk ELSE h.mp.sbrk_base
  <2>3. base \in Int
    BY <2>1
  <2> HIDE DEF base
  <2>4. /\ [h EXCEPT !.system_mem = h.system_mem + size, !.mp.sbrk_base = base] \in Good
        /\ [h EXCEPT !.system_mem = h.system_mem + size, !.mp.sbrk_base = base].top = h.top
    <3>1. TRUE \in BOOLEAN
      OBVIOUS
    <3> QED BY <2>2, <2>3, <3>1, BaseKeeps
  <2> QED BY <2>4 DEF g, base
<1> HIDE DEF g
<1>3. aligned \in Aligned
  BY DEF AlignUp, Aligned, MALLOC_ALIGNMENT, SIZE_SZ
<1> HIDE DEF aligned
<1>4. short \in Aligned
  BY <1>1, <1>3, EvenSums
<1> HIDE DEF short
<1>5. correction \in Aligned
  <2>1. brk + size \in Aligned /\ brk + size + short \in Int
    BY <1>4, EvenSums DEF Aligned
  <2> QED BY <2>1, PageSizes, EvenSums
<1> HIDE DEF correction
<1>6. gap \in Aligned
  BY <1>1, EvenSums
<1> HIDE DEF gap
<1>7. set_head(g, h.top, size + old_size) \in Good
  BY <1>1, <1>2, EvenSums, HeadsKeep
<1>8. Check(g, FALSE) \in Good
  BY <1>2, CheckKeeps
<1>9. ReplaceTop(Check(g, brk = aligned), brk, g.brk - brk) \in Good
  BY <1>2, CheckKeeps, SbrkKeeps, EvenSums, ReplaceTopKeeps
<1>10. AlignTop(g, aligned, gap, correction, Sbrk(g, correction)) \in Good
  BY <1>2, <1>3, <1>5, <1>6, AlignTopKeeps
<1> QED
  BY <1>7, <1>8, <1>9, <1>10 DEF GrowTop, g, old_size, old_end, aligned, short, correction, gap

(* mmap served in place of sbrk. *)
LEMMA MapTopKeeps ==
  ASSUME NEW h \in Good, NEW size \in Aligned
  PROVE  MapTop(h, size, Mmap(h, size)) \in Good
<1> DEFINE m == Mmap(h, size)
           base == IF m.h.mp.sbrk_base = 0 THEN m.at ELSE m.h.mp.sbrk_base
           g == [m.h EXCEPT !.contiguous = FALSE, !.system_mem = m.h.system_mem + size, !.mp.sbrk_base = base]
<1>1. size \in Int
  BY DEF Aligned
<1>2. m.h \in Good /\ (m.at # Failed => m.at \in Aligned)
  BY <1>1, MmapKeeps
<1> HIDE DEF m
<1>3. m.at # Failed => base \in Int
  BY <1>2, GoodBins DEF Settled, Aligned
<1> HIDE DEF base
<1>4. m.h.system_mem + size \in Int
  <2>1. m.h.system_mem \in Int
    BY <1>2 DEF Good, Heaps
  <2> QED BY <1>1, <2>1
<1>5. m.at # Failed => g \in Good
  <2>1. FALSE \in BOOLEAN
    OBVIOUS
  <2> QED BY <1>2, <1>3, <1>4, <2>1, BaseKeeps
<1> HIDE DEF g
<1>6. m.at # Failed => ReplaceTop(g, m.at, size) \in Good
  BY <1>2, <1>5, ReplaceTopKeeps
<1>7. MapTop(h, size, m) = IF m.at = Failed THEN h ELSE ReplaceTop(g, m.at, size)
  BY DEF MapTop, g, base
<1> QED
  BY <1>6, <1>7 DEF m

(* The peak is noted. *)
LEMMA PeakKeeps ==
  ASSUME NEW h \in Good
  PROVE  WithPeak(h) \in Good
<1>1. h.system_mem \in Int /\ h.max_system_mem \in Int
  BY DEF Good, Heaps
<1>2. Max({h.max_system_mem, h.system_mem}) \in Int
  BY <1>1, SmallerOfTwo
<1>3. \A n \in Int : [h EXCEPT !.max_system_mem = n] \in Good
  BY DEF Good, Heaps
<1> QED
  BY <1>2, <1>3 DEF WithPeak

(* sysmalloc asks the kernel for a larger top. *)
LEMMA MoreTopKeeps ==
  ASSUME NEW h \in Good, NEW nb \in Aligned
  PROVE  MoreTop(h, nb) \in Good
<1> DEFINE old_size == IF h.contiguous THEN chunksize(h, h.top) ELSE 0
           size == AlignUp((nb + h.mp.top_pad + MINSIZE) - old_size, PageSize)
           more == Sbrk(h, size)
           backup == Max({AlignUp(size + old_size, PageSize), MmapAsMorecoreSize})
<1>1. old_size \in Aligned /\ old_size \in Int
  BY HeadFields, EvenSums DEF Aligned
<1> HIDE DEF old_size
<1>2. size \in Aligned /\ size \in Int
  <2>1. nb \in Int /\ h.mp.top_pad \in Int /\ MINSIZE \in Int
    BY GoodBins DEF Settled, Aligned, MINSIZE, SIZE_SZ
  <2>2. (nb + h.mp.top_pad + MINSIZE) - old_size \in Int
    BY <1>1, <2>1
  <2> QED BY <2>2, PageSizes DEF Aligned
<1> HIDE DEF size
<1>3. backup \in Aligned
  <2>1. AlignUp(size + old_size, PageSize) \in Aligned
    BY <1>1, <1>2, PageSizes
  <2>2. MmapAsMorecoreSize \in Aligned
    BY PtAssumption, PageAligned
  <2>3. backup \in {AlignUp(size + old_size, PageSize), MmapAsMorecoreSize}
    BY <2>1, <2>2, SmallerOfTwo DEF Aligned
  <2> QED BY <2>1, <2>2, <2>3
<1> HIDE DEF backup
<1>4. more.h \in Good /\ (more.brk # Failed => more.brk \in Aligned)
  BY <1>2, SbrkKeeps
<1> HIDE DEF more
<1>5. TopFrom(h, more, size, backup) \in Good
  BY <1>2, <1>3, <1>4, GrowTopKeeps, MapTopKeeps DEF TopFrom
<1> QED
  BY <1>5, PeakKeeps DEF MoreTop, old_size, size, more, backup

(* sysmalloc's answer is cut from top. *)
LEMMA ServedByTopKeeps ==
  ASSUME NEW h \in Good, NEW nb \in Aligned
  PROVE  Fine(ServedByTop(h, nb))
BY ServeFromTopKeeps DEF Fine, ServedByTop, Answer

(* sysmalloc. *)
LEMMA SysmallocKeeps ==
  ASSUME NEW h \in Good, NEW nb \in Aligned
  PROVE  Fine(sysmalloc(h, nb))
<1> DEFINE g == [h EXCEPT !.needless = h.needless \/ FreeChunkFits(h, nb)]
           mapped == ByMap(g, nb)
           k == mapped.h
<1>1. g \in Good
  <2>1. \A b \in BOOLEAN : [h EXCEPT !.needless = b] \in Good
    BY DEF Good, Heaps
  <2>2. (h.needless \/ FreeChunkFits(h, nb)) \in BOOLEAN
    OBVIOUS
  <2> QED BY <2>1, <2>2
<1> HIDE DEF g
<1>2. Fine(mapped)
  BY <1>1, MmapChunkKeeps DEF ByMap, Fine, Answer
<1> HIDE DEF mapped
<1>3. k \in Good
  BY <1>2 DEF Fine
<1> HIDE DEF k
<1>4. MoreTop(Check(k, TopIsSane(k) /\ chunksize(k, k.top) < nb + MINSIZE), nb) \in Good
  BY <1>3, CheckKeeps, MoreTopKeeps
<1>5. Fine(ServedByTop(MoreTop(Check(k, TopIsSane(k) /\ chunksize(k, k.top) < nb + MINSIZE), nb), nb))
  BY <1>4, ServedByTopKeeps
<1>6. sysmalloc(h, nb) = ElseByTop(mapped, nb)
  BY DEF sysmalloc, mapped, g
<1>7. ElseByTop(mapped, nb) = IF mapped.p # NULL THEN mapped
        ELSE ServedByTop(MoreTop(Check(k, TopIsSane(k) /\ chunksize(k, k.top) < nb + MINSIZE), nb), nb)
  BY DEF ElseByTop, k
<1> QED
  BY <1>2, <1>5, <1>6, <1>7

-------------------------------------------------------------------------------
(* The end of a fold. *)
LEMMA WalkEnds ==
  ASSUME NEW S, NEW n \in Nat, NEW it, it[{}] \in S,
         \A s \in SUBSET (1 .. n) : (s # {} /\ it[s \ {Max(s)}] \in S /\ Max(s) \in s) => it[s] \in S
  PROVE  it[1 .. n] \in S
<1> DEFINE I == [m \in 0 .. n |-> S]
<1>1. \A m \in 1 .. n : it[1 .. (m - 1)] \in S => it[1 .. m] \in S
  <2> SUFFICES ASSUME NEW m \in 1 .. n, it[1 .. (m - 1)] \in S PROVE it[1 .. m] \in S
    OBVIOUS
  <2>1. /\ 1 .. m \in SUBSET (1 .. n) /\ 1 .. m # {}
        /\ Max(1 .. m) = m /\ (1 .. m) \ {m} = 1 .. (m - 1)
    BY LastOfInterval
  <2>2. (1 .. m) \ {Max(1 .. m)} = 1 .. (m - 1) /\ Max(1 .. m) \in 1 .. m
    BY <2>1
  <2>3. it[(1 .. m) \ {Max(1 .. m)}] \in S
    BY <2>2, Zenon
  <2> QED BY <2>1, <2>2, <2>3
<1>2. it[{}] \in I[0] /\ \A m \in 1 .. n : it[1 .. (m - 1)] \in I[m - 1] => it[1 .. m] \in I[m]
  BY <1>1
<1>3. I[n] = S
  OBVIOUS
<1> HIDE DEF I
<1> QED BY <1>2, <1>3, StepsEnd

(* Some chunks of a list go to the cache. *)
LEMMA StashKeeps ==
  ASSUME NEW h \in Good, NEW idx, NEW list \in Lists
  PROVE  Stash(h, idx, list) \in Good
<1> DEFINE n == Len(list)
           F == [x \in Good \X (1 .. n) |-> tcache_put(x[1], list[x[2]], idx)]
           Is(f) == f = [s \in SUBSET (DOMAIN list) |->
                           IF s = {} THEN h ELSE tcache_put(f[s \ {Max(s)}], list[Max(s)], idx)]
           it == CHOOSE f : Is(f)
<1>0. Stash(h, idx, list) = it[DOMAIN list]
  BY DEF Stash, FoldLeft, MapThenFoldSet
<1>1. n \in Nat /\ DOMAIN list = 1 .. n /\ \A m \in 1 .. n : list[m] \in Aligned
  BY DEF Lists
<1>2. F \in [Good \X (1 .. n) -> Good] /\ \A x \in Good, m \in 1 .. n : F[<<x, m>>] = tcache_put(x, list[m], idx)
  BY <1>1, TcachePutKeeps
<1> HIDE DEF n, F
<1>3. PICK f \in [SUBSET (1 .. n) -> Good] : Steps(f, h, F, n)
  BY <1>1, <1>2, StepsExist
<1>4. \A s \in SUBSET (1 .. n) : s # {} => Max(s) \in s
  BY <1>1, MaxInInterval
<1>5. \A s \in SUBSET (1 .. n) : f[s] = IF s = {} THEN h ELSE tcache_put(f[s \ {Max(s)}], list[Max(s)], idx)
  BY <1>2, <1>3, <1>4 DEF Steps
<1>6. Is(f)
  BY <1>1, <1>5
<1>7. Is(it)
  BY <1>6
<1>8. \A s \in SUBSET (1 .. n) : it[s] = IF s = {} THEN h ELSE tcache_put(it[s \ {Max(s)}], list[Max(s)], idx)
  BY <1>1, <1>7
<1> HIDE DEF Is, it
<1>9. it[1 .. n] \in Good
  <2>1. it[{}] \in Good
    BY <1>8
  <2>2. \A s \in SUBSET (1 .. n) : (s # {} /\ it[s \ {Max(s)}] \in Good /\ Max(s) \in s) => it[s] \in Good
    <3>1. \A x \in Good, p \in Aligned : tcache_put(x, p, idx) \in Good
      BY TcachePutKeeps
    <3>2. \A x \in Good, m \in 1 .. n : tcache_put(x, list[m], idx) \in Good
      BY <1>1, <3>1
    <3> SUFFICES ASSUME NEW s \in SUBSET (1 .. n), s # {}, it[s \ {Max(s)}] \in Good, Max(s) \in s
                 PROVE  it[s] \in Good
      OBVIOUS
    <3>3. it[s] = tcache_put(it[s \ {Max(s)}], list[Max(s)], idx) /\ Max(s) \in 1 .. n
      BY <1>8
    <3> QED BY <3>2, <3>3
  <2> QED BY <1>1, <2>1, <2>2, WalkEnds
<1> QED
  BY <1>0, <1>1, <1>9

(* The chunks of a small bin are marked as in use. *)
LEMMA UsedKeeps ==
  ASSUME NEW h \in Good, NEW nb \in Aligned, NEW list \in Lists
  PROVE  Used(h, nb, list) \in Good
<1> DEFINE n == Len(list)
           F == [x \in Good \X (1 .. n) |-> set_inuse_bit(x[1], list[x[2]] + nb)]
           Is(f) == f = [s \in SUBSET (DOMAIN list) |->
                           IF s = {} THEN h ELSE set_inuse_bit(f[s \ {Max(s)}], list[Max(s)] + nb)]
           it == CHOOSE f : Is(f)
<1>0. Used(h, nb, list) = it[DOMAIN list]
  BY DEF Used, FoldLeft, MapThenFoldSet
<1>1. n \in Nat /\ DOMAIN list = 1 .. n /\ \A m \in 1 .. n : list[m] \in Aligned
  BY DEF Lists
<1>2. \A x \in Good, m \in 1 .. n : set_inuse_bit(x, list[m] + nb) \in Good
  <2> SUFFICES ASSUME NEW x \in Good, NEW m \in 1 .. n PROVE set_inuse_bit(x, list[m] + nb) \in Good
    OBVIOUS
  <2>1. list[m] + nb \in Aligned
    BY <1>1, EvenSums
  <2> QED BY <2>1, HeadsKeep
<1>3. F \in [Good \X (1 .. n) -> Good] /\ \A x \in Good, m \in 1 .. n : F[<<x, m>>] = set_inuse_bit(x, list[m] + nb)
  BY <1>2
<1> HIDE DEF n, F
<1>4. PICK f \in [SUBSET (1 .. n) -> Good] : Steps(f, h, F, n)
  BY <1>1, <1>3, StepsExist
<1>5. \A s \in SUBSET (1 .. n) : s # {} => Max(s) \in s
  BY <1>1, MaxInInterval
<1>6. \A s \in SUBSET (1 .. n) : f[s] = IF s = {} THEN h ELSE set_inuse_bit(f[s \ {Max(s)}], list[Max(s)] + nb)
  BY <1>3, <1>4, <1>5 DEF Steps
<1>7. Is(f)
  BY <1>1, <1>6
<1>8. Is(it)
  BY <1>7
<1>9. \A s \in SUBSET (1 .. n) : it[s] = IF s = {} THEN h ELSE set_inuse_bit(it[s \ {Max(s)}], list[Max(s)] + nb)
  BY <1>1, <1>8
<1> HIDE DEF Is, it
<1>10. it[1 .. n] \in Good
  <2>1. it[{}] \in Good
    BY <1>9
  <2>2. \A s \in SUBSET (1 .. n) : (s # {} /\ it[s \ {Max(s)}] \in Good /\ Max(s) \in s) => it[s] \in Good
    BY <1>2, <1>9
  <2> QED BY <1>1, <2>1, <2>2, WalkEnds
<1> QED
  BY <1>0, <1>1, <1>10

(* Requests. *)
LEMMA RequestIs ==
  ASSUME NEW req \in Int
  PROVE  request2size(req) \in Aligned /\ request2size(req) >= MINSIZE /\ request2size(req) \in Int
BY DEF request2size, Aligned, AlignDown, MALLOC_ALIGNMENT, SIZE_SZ, MINSIZE

Chunky == {nb \in Aligned : nb >= MINSIZE}

(* What is cached has a list of the cache. *)
LEMMA TidxIs ==
  ASSUME NEW nb \in Chunky, NEW h, Cacheable(h, nb)
  PROVE  csize2tidx(nb) \in 0 .. TCACHE_MAX_BINS - 1
BY PtAssumption DEF Cacheable, csize2tidx, Chunky, Aligned, MALLOC_ALIGNMENT, SIZE_SZ, MINSIZE

(* The bin for a request is none of the first two. *)
LEMMA BinIndexIs ==
  ASSUME NEW nb \in Chunky
  PROVE  bin_index(nb) \in 2 .. NBINS - 1
<1>1. nb \in Int /\ nb >= 4 /\ MinLargeSize \in Nat /\ MinLargeSize > 4 /\ MinLargeSize % 2 = 0
      /\ LargeWidth \in Nat \ {0} /\ NBINS \in Nat /\ NBINS > MinLargeSize \div 2
  BY PtAssumption DEF Chunky, Aligned, MALLOC_ALIGNMENT, SIZE_SZ, MINSIZE
<1>2. MinLargeSize \div 2 >= 3 /\ MinLargeSize \div 2 \in Int
  BY <1>1
<1>3. CASE nb < MinLargeSize
  <2>1. nb \div 2 >= 2 /\ nb \div 2 <= MinLargeSize \div 2 /\ nb \div 2 \in Int
    BY <1>1, <1>3
  <2> QED BY <1>1, <1>2, <1>3, <2>1 DEF bin_index, in_smallbin_range, MALLOC_ALIGNMENT, SIZE_SZ
<1>4. CASE ~(nb < MinLargeSize)
  <2>1. nb - MinLargeSize \in Nat
    BY <1>1, <1>4
  <2>2. (nb - MinLargeSize) \div LargeWidth \in Nat
    BY <1>1, <2>1, SMTT(30)
  <2> DEFINE m == (MinLargeSize \div 2) + ((nb - MinLargeSize) \div LargeWidth)
  <2>3. m \in Int /\ m >= 2
    BY <1>2, <2>2
  <2> HIDE DEF m
  <2>4. Min({NBINS - 1, m}) \in {NBINS - 1, m} /\ Min({NBINS - 1, m}) <= NBINS - 1
    BY <1>1, <2>3, SmallerOfTwo
  <2>5. Min({NBINS - 1, m}) \in 2 .. NBINS - 1
    BY <1>1, <1>2, <2>3, <2>4
  <2> QED BY <1>4, <2>5 DEF bin_index, in_smallbin_range, largebin_index, m, MALLOC_ALIGNMENT, SIZE_SZ
<1> QED BY <1>3, <1>4

(* A part of a list. *)
LEMMA PartOfList ==
  ASSUME NEW A, NEW s \in Seq(A), NEW i \in 1 .. Len(s) + 1, NEW j \in 0 .. Len(s)
  PROVE  SubSeq(s, i, j) \in Seq(A)
<1>1. \A k \in i .. j : s[k] \in A
  OBVIOUS
<1>2. i \in Int /\ j \in Int
  OBVIOUS
<1> QED BY <1>1, <1>2, SubSeqProperties

(* A list from its end. *)
LEMMA ReverseType ==
  ASSUME NEW A, NEW s \in Seq(A)
  PROVE  Reverse(s) \in Seq(A) /\ Len(Reverse(s)) = Len(s)
<1>1. Len(s) \in Nat
  OBVIOUS
<1>2. \A i \in 1 .. Len(s) : s[(Len(s) - i) + 1] \in A
  BY <1>1
<1>3. Reverse(s) \in [1 .. Len(s) -> A]
  BY <1>2 DEF Reverse
<1> HIDE DEF Reverse
<1> QED BY <1>1, <1>3

(* As many chunks are taken for the cache as there are at most. *)
LEMMA TakenIs ==
  ASSUME NEW h \in Good, NEW nb \in Chunky, NEW list \in Lists
  PROVE  Taken(h, nb, list) \in 0 .. Len(list)
<1>1. StashRoom(h, nb) \in Int
  <2>1. CASE Cacheable(h, nb)
    <3>1. csize2tidx(nb) \in 0 .. TCACHE_MAX_BINS - 1
      BY <2>1, TidxIs
    <3>2. h.entries[csize2tidx(nb)] \in Seq(Aligned)
      BY <3>1, GoodBins DEF Lists
    <3>3. Len(h.entries[csize2tidx(nb)]) \in Nat
      BY <3>2
    <3>4. h.mp.tcache_count \in Nat
      BY GoodBins DEF Settled
    <3> QED BY <2>1, <3>3, <3>4 DEF StashRoom
  <2>2. CASE ~Cacheable(h, nb)
    BY <2>2 DEF StashRoom
  <2> QED BY <2>1, <2>2
<1>2. Len(list) \in Nat
  BY DEF Lists
<1>3. Max({0, StashRoom(h, nb)}) \in Nat
  <2>1. 0 \in Int
    OBVIOUS
  <2>2. Max({0, StashRoom(h, nb)}) \in {0, StashRoom(h, nb)} /\ Max({0, StashRoom(h, nb)}) >= 0
    BY <1>1, <2>1, SmallerOfTwo
  <2> QED BY <1>1, <2>2
<1> DEFINE m == Max({0, StashRoom(h, nb)})
<1> HIDE DEF m
<1>4. m \in Nat
  BY <1>3 DEF m
<1>5. Min({Len(list), m}) \in {Len(list), m} /\ Min({Len(list), m}) <= Len(list)
  <2>1. Len(list) \in Int /\ m \in Int
    BY <1>2, <1>4
  <2> QED BY <2>1, SmallerOfTwo
<1>6. Min({Len(list), m}) \in 0 .. Len(list)
  BY <1>2, <1>4, <1>5
<1> QED BY <1>6 DEF Taken, m

(* A fastbin that is not empty gets another list. *)
LEMMA OneFastbinKeeps ==
  ASSUME NEW h \in Good, NEW idx \in 0 .. NFASTBINS - 1, NEW list \in Lists, h.fast[idx] # << >>
  PROVE  [h EXCEPT !.fast[idx] = list] \in Good
<1> DEFINE fast == [h.fast EXCEPT ![idx] = list]
<1>1. fast \in Fasts /\ \A i \in 0 .. NFASTBINS - 1 : fast[i] = IF i = idx THEN list ELSE h.fast[i]
  BY GoodBins DEF Fasts
<1> HIDE DEF fast
<1>2. FastAreFlagged(fast, h.have_fastchunks)
  BY GoodBins DEF FastAreFlagged
<1>3. FastAreSmall(fast, h.mp.max_fast)
  BY <1>1, GoodBins DEF FastAreSmall
<1>4. [h EXCEPT !.fast = fast] \in Good
  <2> DEFINE k == [h EXCEPT !.fast = fast]
  <2>1. k \in Heaps /\ k.bins = h.bins /\ k.binmap = h.binmap /\ k.fast = fast /\ k.mp = h.mp /\ k.have_fastchunks = h.have_fastchunks
    BY <1>1 DEF Good, Heaps
  <2> HIDE DEF k
  <2>2. k \in Good
    BY <1>2, <1>3, <2>1, GoodBins DEF Good
  <2> QED BY <2>2 DEF k
<1> QED BY <1>4 DEF fast

(* The fastbin for a request. *)
LEMMA FastIndexIs ==
  ASSUME NEW h \in Good, NEW nb \in Chunky, nb <= h.mp.max_fast
  PROVE  fastbin_index(nb) \in 0 .. NFASTBINS - 1
<1>1. h.mp.max_fast \in 0 .. request2size(MAX_FAST_SIZE) /\ request2size(MAX_FAST_SIZE) \in Int
  BY GoodBins, RequestIs, PtAssumption DEF Settled
<1>2. nb \in Int /\ nb >= 4 /\ nb <= request2size(MAX_FAST_SIZE)
  BY <1>1 DEF Chunky, Aligned, MINSIZE, SIZE_SZ
<1> QED BY <1>1, <1>2 DEF NFASTBINS, fastbin_index, MALLOC_ALIGNMENT, SIZE_SZ

(* A fastbin serves, and gives chunks to the cache. *)
LEMMA FastbinServes ==
  ASSUME NEW h \in Good, NEW nb \in Chunky, nb <= h.mp.max_fast, h.fast[fastbin_index(nb)] # << >>
  PROVE  Fine(FromFastbin(h, nb))
<1> DEFINE idx == fastbin_index(nb)
           rest == Tail(h.fast[idx])
           n == Taken(h, nb, rest)
           c == Check(h, chunksize(h, Head(h.fast[idx])) = nb)
           g == [c EXCEPT !.fast[idx] = SubSeq(rest, n + 1, Len(rest))]
<1>1. idx \in 0 .. NFASTBINS - 1
  BY FastIndexIs
<1>2. rest \in Lists /\ Head(h.fast[idx]) \in Aligned
  <2>1. h.fast[idx] \in Seq(Aligned)
    BY <1>1, GoodBins DEF Lists
  <2> QED BY <2>1, HeadAndTail DEF Lists
<1> HIDE DEF rest
<1>3. n \in 0 .. Len(rest) /\ Len(rest) \in Nat
  <2>1. Len(rest) \in Nat
    BY <1>2 DEF Lists
  <2> QED BY <1>2, <2>1, TakenIs
<1> HIDE DEF n
<1>4. SubSeq(rest, n + 1, Len(rest)) \in Lists /\ SubSeq(rest, 1, n) \in Lists
  <2>1. n + 1 \in 1 .. Len(rest) + 1 /\ Len(rest) \in 0 .. Len(rest) /\ 1 \in 1 .. Len(rest) + 1
    BY <1>3
  <2> QED BY <1>2, <1>3, <2>1, PartOfList DEF Lists
<1>5. c \in Good /\ c.fast[idx] # << >>
  BY CheckKeeps, FastFrame
<1> HIDE DEF c
<1>6. g \in Good
  BY <1>1, <1>4, <1>5, OneFastbinKeeps
<1>7. FromFastbin(h, nb) = Answer(Stash(g, csize2tidx(nb), SubSeq(rest, 1, n)), Head(h.fast[idx]))
  BY DEF FromFastbin, idx, rest, n, g, c
<1> HIDE DEF g, n, rest, idx
<1>8. Stash(g, csize2tidx(nb), SubSeq(rest, 1, n)) \in Good
  BY <1>4, <1>6, StashKeeps
<1> QED
  BY <1>2, <1>7, <1>8 DEF Fine, Answer

(* A small bin serves, and gives chunks to the cache. *)
LEMMA FromSmallbinKeeps ==
  ASSUME NEW h \in Good, NEW nb \in Chunky, h.bins[bin_index(nb)] # << >>
  PROVE  Fine(FromSmallbin(h, nb))
<1> DEFINE b == bin_index(nb)
           bin == Reverse(h.bins[b])
           n == Taken(h, nb, Tail(bin))
           left == Reverse(SubSeq(bin, n + 2, Len(bin)))
           g == [h EXCEPT !.bins[b] = left]
           used == Used(g, nb, SubSeq(bin, 1, n + 1))
<1>1. b \in 2 .. NBINS - 1 /\ b \in 1 .. NBINS - 1
  BY BinIndexIs
<1>2. bin \in Seq(Aligned) /\ bin # << >>
  <2>1. h.bins[b] \in Seq(Aligned) /\ h.bins[b] # << >>
    BY <1>1, GoodBins DEF Lists
  <2>2. bin \in Seq(Aligned) /\ Len(bin) = Len(h.bins[b]) /\ Len(h.bins[b]) # 0
    BY <2>1, ReverseType
  <2> HIDE DEF bin
  <2> QED BY <2>2
<1> HIDE DEF bin
<1>3. Head(bin) \in Aligned /\ Tail(bin) \in Lists /\ Len(Tail(bin)) = Len(bin) - 1 /\ Len(bin) \in Nat
  BY <1>2, HeadAndTail DEF Lists
<1>4. n \in 0 .. Len(bin) - 1
  BY <1>3, TakenIs
<1> HIDE DEF n
<1>5. /\ SubSeq(bin, n + 2, Len(bin)) \in Seq(Aligned)
      /\ SubSeq(bin, 1, n + 1) \in Lists
      /\ SubSeq(bin, 2, n + 1) \in Lists
  <2>1. n + 2 \in 1 .. Len(bin) + 1 /\ Len(bin) \in 0 .. Len(bin) /\ 1 \in 1 .. Len(bin) + 1
        /\ n + 1 \in 0 .. Len(bin) /\ 2 \in 1 .. Len(bin) + 1
    BY <1>3, <1>4
  <2> QED BY <1>2, <2>1, PartOfList DEF Lists
<1>6. left \in Lists
  BY <1>5, ReverseType DEF Lists
<1> HIDE DEF left
<1>7. g \in Good
  <2>1. b \in h.binmap
    BY <1>1, GoodBins DEF BinsAreMarked
  <2> QED BY <1>6, <2>1, OneBinKeeps
<1>8. FromSmallbin(h, nb) = Answer(Stash(used, csize2tidx(nb), SubSeq(bin, 2, n + 1)), Head(bin))
  BY DEF FromSmallbin, b, bin, n, left, g, used
<1> HIDE DEF g
<1>9. used \in Good
  BY <1>5, <1>7, UsedKeeps DEF Chunky
<1> HIDE DEF used
<1>10. Stash(used, csize2tidx(nb), SubSeq(bin, 2, n + 1)) \in Good
  BY <1>5, <1>9, StashKeeps
<1> QED
  BY <1>3, <1>8, <1>10 DEF Fine, Answer

(* Folds from the right. *)
StepsBack(f, base, F, n) ==
  \A s \in SUBSET (1 .. n) : f[s] = IF s = {} THEN base ELSE F[<<f[s \ {Min(s)}], Min(s)>>]

Mirror(n, s) == {(n + 1) - i : i \in s}

(* Min of a set of indices. *)
LEMMA MinInInterval ==
  ASSUME NEW n \in Nat, NEW s \in SUBSET (1 .. n), s # {}
  PROVE  Min(s) \in s /\ \A x \in s : Min(s) <= x
<1>1. s \in SUBSET Int /\ 0 \in Int /\ \A x \in s : 0 <= x
  OBVIOUS
<1> QED BY <1>1, MinProperties

(* Mirrored, the least index is the greatest. *)
LEMMA MirrorIs ==
  ASSUME NEW n \in Nat, NEW s \in SUBSET (1 .. n)
  PROVE  /\ Mirror(n, s) \in SUBSET (1 .. n) /\ (s = {} <=> Mirror(n, s) = {})
         /\ s # {} => /\ Max(Mirror(n, s)) = (n + 1) - Min(s) /\ Max(Mirror(n, s)) \in 1 .. n
                      /\ Mirror(n, s \ {Min(s)}) = Mirror(n, s) \ {Max(Mirror(n, s))}
                      /\ (n + 1) - Max(Mirror(n, s)) = Min(s)
<1> DEFINE t == Mirror(n, s)
<1>1. t \in SUBSET (1 .. n) /\ (s = {} <=> t = {}) /\ t \in SUBSET Int
  BY DEF Mirror
<1>2. ASSUME s # {}
      PROVE  /\ Max(t) = (n + 1) - Min(s)
             /\ Mirror(n, s \ {Min(s)}) = t \ {Max(t)}
  <2> DEFINE k == Min(s)
             j == (n + 1) - k
  <2>1. k \in s /\ \A x \in s : k <= x
    BY <1>2, MinInInterval
  <2> HIDE DEF k
  <2>2. k \in Int /\ j \in Int
    BY <2>1
  <2>3. j \in t
    BY <2>1 DEF Mirror
  <2>4. \A y \in t : y <= j
    BY <2>1, <2>2 DEF Mirror
  <2>5. \A i \in s : i # k => (n + 1) - i # j
    BY <2>1, <2>2
  <2>6. Mirror(n, s \ {k}) = t \ {j}
    <3>1. \A y : y \in Mirror(n, s \ {k}) => y \in t \ {j}
      BY <2>5 DEF Mirror
    <3>2. \A y : y \in t \ {j} => y \in Mirror(n, s \ {k})
      BY DEF Mirror
    <3> QED BY <3>1, <3>2
  <2> HIDE DEF t, j
  <2>7. Max(t) \in t /\ \A y \in t : y <= Max(t)
    BY <1>1, <2>2, <2>3, <2>4, MaxProperties
  <2>8. Max(t) = j
    <3>1. Max(t) \in Int /\ j <= Max(t) /\ Max(t) <= j
      BY <1>1, <2>3, <2>4, <2>7
    <3> QED BY <2>2, <3>1
  <2> QED BY <2>6, <2>8 DEF k, j
<1>3. s # {} => Max(t) \in 1 .. n /\ (n + 1) - Max(t) = Min(s)
  <2> SUFFICES ASSUME s # {} PROVE Max(t) \in 1 .. n /\ (n + 1) - Max(t) = Min(s)
    OBVIOUS
  <2>1. Min(s) \in 1 .. n
    BY MinInInterval
  <2> QED BY <1>2, <2>1
<1> QED BY <1>1, <1>2, <1>3

(* There is the function of a fold from the right. *)
LEMMA StepsBackExist ==
  ASSUME NEW S, NEW n \in Nat, NEW base \in S, NEW F \in [S \X (1 .. n) -> S]
  PROVE  \E f \in [SUBSET (1 .. n) -> S] : StepsBack(f, base, F, n)
<1> DEFINE G == [x \in S \X (1 .. n) |-> F[<<x[1], (n + 1) - x[2]>>]]
<1>1. G \in [S \X (1 .. n) -> S] /\ \A x \in S, i \in 1 .. n : G[<<x, i>>] = F[<<x, (n + 1) - i>>]
  <2>1. \A x \in S \X (1 .. n) : <<x[1], (n + 1) - x[2]>> \in S \X (1 .. n)
    OBVIOUS
  <2> QED BY <2>1
<1> HIDE DEF G
<1>2. PICK f \in [SUBSET (1 .. n) -> S] : Steps(f, base, G, n)
  BY <1>1, StepsExist
<1> DEFINE g == [s \in SUBSET (1 .. n) |-> f[Mirror(n, s)]]
<1>3. \A s \in SUBSET (1 .. n) : Mirror(n, s) \in SUBSET (1 .. n)
  BY MirrorIs
<1>4. g \in [SUBSET (1 .. n) -> S] /\ \A s \in SUBSET (1 .. n) : g[s] = f[Mirror(n, s)]
  BY <1>3
<1> HIDE DEF g
<1>5. StepsBack(g, base, F, n)
  <2> SUFFICES ASSUME NEW s \in SUBSET (1 .. n)
               PROVE  g[s] = IF s = {} THEN base ELSE F[<<g[s \ {Min(s)}], Min(s)>>]
    BY DEF StepsBack
  <2> DEFINE t == Mirror(n, s)
  <2>1. t \in SUBSET (1 .. n) /\ (s = {} <=> t = {}) /\ g[s] = f[t]
    BY <1>4, MirrorIs
  <2>2. s # {} => /\ Max(t) \in 1 .. n /\ (n + 1) - Max(t) = Min(s)
                  /\ Mirror(n, s \ {Min(s)}) = t \ {Max(t)}
    BY MirrorIs
  <2> HIDE DEF t
  <2>3. f[t] = IF t = {} THEN base ELSE G[<<f[t \ {Max(t)}], Max(t)>>]
    BY <1>2, <2>1 DEF Steps
  <2>4. s # {} => g[s \ {Min(s)}] = f[t \ {Max(t)}]
    BY <1>4, <2>2
  <2>5. t # {} => G[<<f[t \ {Max(t)}], Max(t)>>] = F[<<f[t \ {Max(t)}], (n + 1) - Max(t)>>]
    <3>1. t \ {Max(t)} \in SUBSET (1 .. n)
      BY <2>1
    <3>2. f[t \ {Max(t)}] \in S
      BY <3>1
    <3> QED BY <1>1, <2>1, <2>2, <3>2
  <2> QED BY <2>1, <2>2, <2>3, <2>4, <2>5
<1> QED BY <1>4, <1>5

(* The end of a fold from the right. *)
LEMMA WalkBackEnds ==
  ASSUME NEW S, NEW n \in Nat, NEW it, it[{}] \in S,
         \A s \in SUBSET (1 .. n) : (s # {} /\ it[s \ {Min(s)}] \in S /\ Min(s) \in s) => it[s] \in S
  PROVE  it[1 .. n] \in S
<1> DEFINE D == {m \in 0 .. n : it[((n + 1) - m) .. n] \notin S}
<1>1. SUFFICES ASSUME D # {} PROVE FALSE
  <2>1. n \in 0 .. n /\ (n + 1) - n = 1
    OBVIOUS
  <2>2. n \notin D
    BY <1>1
  <2> QED BY <2>1, <2>2
<1>2. PICK m \in D : \A k \in D : m <= k
  <2>1. D \in SUBSET Nat
    OBVIOUS
  <2> HIDE DEF D
  <2> QED BY <1>1, <2>1, LeastNumber
<1>3. ((n + 1) - 0) .. n = {}
  OBVIOUS
<1>4. m # 0
  BY <1>2, <1>3
<1>5. m - 1 \in 0 .. n /\ m \in 1 .. n /\ ~(m <= m - 1)
  BY <1>4
<1>6. m - 1 \notin D
  BY <1>2, <1>5
<1>7. it[((n + 1) - (m - 1)) .. n] \in S
  BY <1>5, <1>6
<1> DEFINE s == ((n + 1) - m) .. n
<1>8. s \in SUBSET (1 .. n) /\ s # {} /\ (n + 1) - m \in s /\ (\A x \in s : (n + 1) - m <= x)
      /\ s \ {(n + 1) - m} = ((n + 1) - (m - 1)) .. n
  <2>1. s \in SUBSET (1 .. n)
    BY <1>5
  <2>2. (n + 1) - m \in s /\ (\A x \in s : (n + 1) - m <= x)
    BY <1>5
  <2>3. \A x : x \in s \ {(n + 1) - m} <=> x \in ((n + 1) - (m - 1)) .. n
    BY <1>5
  <2> HIDE DEF s
  <2> QED BY <2>1, <2>2, <2>3
<1> HIDE DEF s
<1>9. Min(s) \in s /\ Min(s) = (n + 1) - m
  <2>1. Min(s) \in s /\ \A x \in s : Min(s) <= x
    BY <1>8, MinInInterval
  <2> QED BY <1>8, <2>1
<1>10. it[s \ {Min(s)}] \in S
  <2>1. s \ {Min(s)} = ((n + 1) - (m - 1)) .. n
    BY <1>8, <1>9
  <2> QED BY <1>7, <2>1
<1>11. it[s] \in S
  BY <1>8, <1>9, <1>10
<1> QED
  BY <1>2, <1>11 DEF s

-------------------------------------------------------------------------------
(* One turn of the loop over the unsorted chunks. *)
Cached(h, nb) == csize2tidx(nb) \in 0 .. TCACHE_MAX_BINS - 1 /\ h.entries[csize2tidx(nb)] # << >>
Turns(nb) ==
  {s \in [h : Good, p : Aligned \union {NULL}, cached : BOOLEAN, count : Int] :
     (s.cached /\ s.p = NULL) => Cached(s.h, nb)}

(* What a turn starts from and leads to. *)
LEMMA TurnIs ==
  ASSUME NEW nb, NEW s \in Turns(nb)
  PROVE  /\ s.h \in Good /\ s.p \in Aligned \union {NULL} /\ s.cached \in BOOLEAN /\ s.count \in Int
         /\ (s.cached /\ s.p = NULL) => Cached(s.h, nb)
BY DEF Turns

(* The changes that a turn makes. *)
LEMMA TurnsKeep ==
  ASSUME NEW nb, NEW s \in Turns(nb), NEW h \in Good
  PROVE  /\ \A p \in Aligned : [s EXCEPT !.h = h, !.p = p] \in Turns(nb)
         /\ Cached(h, nb) => [s EXCEPT !.h = h, !.cached = TRUE] \in Turns(nb)
         /\ h.entries = s.h.entries => [s EXCEPT !.h = h] \in Turns(nb)
         /\ h.entries = s.h.entries => [s EXCEPT !.h = h, !.count = s.count + 1] \in Turns(nb)
<1>1. NULL \notin Aligned
  BY PtAssumption DEF Aligned
<1>2. \A p \in Aligned : [s EXCEPT !.h = h, !.p = p] \in Turns(nb)
  BY <1>1 DEF Turns
<1>3. Cached(h, nb) => [s EXCEPT !.h = h, !.cached = TRUE] \in Turns(nb)
  BY DEF Turns
<1>4. h.entries = s.h.entries => (Cached(s.h, nb) <=> Cached(h, nb))
  BY DEF Cached
<1>5. h.entries = s.h.entries => [s EXCEPT !.h = h] \in Turns(nb)
  BY <1>4 DEF Turns
<1>6. h.entries = s.h.entries => [s EXCEPT !.h = h, !.count = s.count + 1] \in Turns(nb)
  <2>1. s.count + 1 \in Int
    BY DEF Turns
  <2> QED BY <1>4, <2>1 DEF Turns
<1> QED BY <1>2, <1>3, <1>5, <1>6

(* Once enough is cached, a chunk of the cache is the answer. *)
LEMMA UncachedKeeps ==
  ASSUME NEW nb, NEW s \in Turns(nb), s.p = NULL
  PROVE  Uncached(s, nb) \in Turns(nb)
<1>1. CASE s.cached
  <2>1. csize2tidx(nb) \in 0 .. TCACHE_MAX_BINS - 1 /\ s.h.entries[csize2tidx(nb)] # << >> /\ s.h \in Good
    BY <1>1, TurnIs DEF Cached
  <2>2. tcache_get(s.h, csize2tidx(nb)).h \in Good /\ tcache_get(s.h, csize2tidx(nb)).p \in Aligned
    BY <2>1, TcacheGetKeeps
  <2>3. Found(s, tcache_get(s.h, csize2tidx(nb))) \in Turns(nb)
    BY <2>2, TurnsKeep DEF Found
  <2> QED BY <2>3 DEF Uncached
<1>2. CASE ~s.cached
  BY <1>2 DEF Uncached
<1> QED BY <1>1, <1>2

(* What leaves the cache alone. *)
LEMMA EntriesFrame ==
  ASSUME NEW h \in Good, NEW a, NEW s, NEW ok, NEW list
  PROVE  /\ set_inuse_bit(h, a).entries = h.entries /\ Check(h, ok).entries = h.entries
         /\ [h EXCEPT !.bins[1] = list].entries = h.entries
BY DEF Good, Heaps, set_inuse_bit, Put, Check

(* One chunk is sorted: cached, served or placed in its bin. *)
LEMMA SortOutKeeps ==
  ASSUME NEW nb \in Chunky, NEW s \in Turns(nb), s.p = NULL, NEW p \in Aligned
  PROVE  SortOut(s, nb, p) \in Turns(nb)
<1>1. s.h \in Good /\ nb \in Aligned /\ p + nb \in Aligned
  BY TurnIs, EvenSums DEF Chunky
<1>2. [s EXCEPT !.h = Serve([s.h EXCEPT !.last_remainder = p + nb], p, nb), !.p = p] \in Turns(nb)
  <2>1. [s.h EXCEPT !.last_remainder = p + nb] \in Good
    BY <1>1, OtherFields
  <2>2. Serve([s.h EXCEPT !.last_remainder = p + nb], p, nb) \in Good
    BY <1>1, <2>1, ServeKeeps
  <2> QED BY <2>2, TurnsKeep
<1>3. Uncached([s EXCEPT !.h = PlaceInBin(s.h, p), !.count = s.count + 1], nb) \in Turns(nb)
  <2> DEFINE t == [s EXCEPT !.h = PlaceInBin(s.h, p), !.count = s.count + 1]
  <2>1. PlaceInBin(s.h, p) \in Good /\ PlaceInBin(s.h, p).entries = s.h.entries
    BY <1>1, PlaceInBinKeeps
  <2>2. t \in Turns(nb)
    BY <2>1, TurnsKeep
  <2>3. t.p = NULL
    BY DEF Turns
  <2> HIDE DEF t
  <2>4. Uncached(t, nb) \in Turns(nb)
    BY <2>2, <2>3, UncachedKeeps
  <2> QED BY <2>4 DEF t
<1>4. set_inuse_bit(s.h, p + nb) \in Good
  BY <1>1, HeadsKeep
<1>5. ASSUME Cacheable(s.h, nb)
      PROVE  [s EXCEPT !.h = tcache_put(set_inuse_bit(s.h, p + nb), p, csize2tidx(nb)), !.cached = TRUE] \in Turns(nb)
  <2>1. csize2tidx(nb) \in 0 .. TCACHE_MAX_BINS - 1
    BY <1>5, TidxIs
  <2>2. /\ tcache_put(set_inuse_bit(s.h, p + nb), p, csize2tidx(nb)) \in Good
        /\ tcache_put(set_inuse_bit(s.h, p + nb), p, csize2tidx(nb)).entries[csize2tidx(nb)] # << >>
    BY <1>4, <2>1, TcachePutKeeps
  <2>3. Cached(tcache_put(set_inuse_bit(s.h, p + nb), p, csize2tidx(nb)), nb)
    BY <2>1, <2>2 DEF Cached
  <2> QED BY <2>2, <2>3, TurnsKeep
<1>6. [s EXCEPT !.h = set_inuse_bit(s.h, p + nb), !.p = p] \in Turns(nb)
  BY <1>4, TurnsKeep
<1> QED
  BY <1>2, <1>3, <1>5, <1>6 DEF SortOut

(* A list without its last. *)
LEMMA FrontType ==
  ASSUME NEW A, NEW s \in Seq(A)
  PROVE  Front(s) \in Seq(A)
<1>1. Len(s) \in Nat /\ \A k \in 1 .. Len(s) - 1 : s[k] \in A
  OBVIOUS
<1>2. 1 \in Int /\ Len(s) - 1 \in Int
  BY <1>1
<1> QED BY <1>1, <1>2, SubSeqProperties DEF Front

(* A turn of the loop, unless the loop has ended. *)
LEMMA SortKeeps ==
  ASSUME NEW nb \in Chunky, NEW s \in Turns(nb), NEW p \in Aligned
  PROVE  Sort(nb, p, s) \in Turns(nb)
<1>1. CASE s.p # NULL
  BY <1>1 DEF Sort
<1>2. CASE s.p = NULL
  <2> DEFINE c == Check(s.h, UnsortedIsSane(s.h, p))
             g == [c EXCEPT !.bins[1] = Front(c.bins[1])]
             t == [s EXCEPT !.h = g]
  <2>1. c \in Good /\ c.entries = s.h.entries
    BY TurnIs, CheckKeeps, EntriesFrame
  <2> HIDE DEF c
  <2>2. 1 \in 1 .. NBINS - 1 => Front(c.bins[1]) \in Lists
    BY <2>1, GoodBins, FrontType DEF Lists
  <2>3. g \in Good /\ g.entries = s.h.entries
    <3>1. 1 \notin 2 .. NBINS - 1
      BY PtAssumption
    <3>2. g \in Good
      BY <2>1, <2>2, <3>1, OneBinKeeps
    <3>3. g.entries = c.entries
      BY <2>1, EntriesFrame
    <3> QED BY <2>1, <3>2, <3>3
  <2> HIDE DEF g
  <2>4. t \in Turns(nb) /\ t.p = NULL
    <3>1. t \in Turns(nb)
      BY <2>3, TurnsKeep
    <3>2. t.p = NULL
      BY <1>2 DEF Turns
    <3> QED BY <3>1, <3>2
  <2> HIDE DEF t
  <2>5. SortOut(t, nb, p) \in Turns(nb)
    BY <2>4, SortOutKeeps
  <2>6. Sort(nb, p, s) = SortOut([s EXCEPT !.h = [c EXCEPT !.bins[1] = Front(@)]], nb, p)
    BY <1>2 DEF Sort, c
  <2> QED BY <2>5, <2>6 DEF t, g
<1> QED BY <1>1, <1>2

(* The loop over the unsorted chunks. *)
LEMMA SortedKeeps ==
  ASSUME NEW nb \in Chunky, NEW h \in Good, NEW count \in Int
  PROVE  Sorted(h, nb, count) \in Turns(nb)
<1> DEFINE list == h.bins[1]
           n == Len(list)
           start == [h |-> h, p |-> NULL, cached |-> FALSE, count |-> count]
           T == Turns(nb)
           F == [x \in T \X (1 .. n) |-> Sort(nb, list[x[2]], x[1])]
           Is(f) == f = [s \in SUBSET (DOMAIN list) |->
                           IF s = {} THEN start ELSE Sort(nb, list[Min(s)], f[s \ {Min(s)}])]
           it == CHOOSE f : Is(f)
<1>0. Sorted(h, nb, count) = it[DOMAIN list]
  BY DEF Sorted, FoldRight, MapThenFoldSet
<1>1. n \in Nat /\ DOMAIN list = 1 .. n /\ \A m \in 1 .. n : list[m] \in Aligned
  <2>1. 1 \in 1 .. NBINS - 1
    <3>1. MINSIZE \in Chunky
      BY EvenSums DEF Chunky, MINSIZE, SIZE_SZ, Aligned, MALLOC_ALIGNMENT
    <3>2. bin_index(MINSIZE) \in 2 .. NBINS - 1
      BY <3>1, BinIndexIs
    <3> QED BY <3>2, PtAssumption
  <2>2. list \in Seq(Aligned)
    BY <2>1, GoodBins DEF Lists
  <2> QED BY <2>2
<1> HIDE DEF list
<1>2. start \in T
  BY DEF Turns
<1>3. \A x \in T, m \in 1 .. n : Sort(nb, list[m], x) \in T
  BY <1>1, SortKeeps
<1> HIDE DEF n, start, T
<1>4. F \in [T \X (1 .. n) -> T] /\ \A x \in T, m \in 1 .. n : F[<<x, m>>] = Sort(nb, list[m], x)
  BY <1>3
<1> HIDE DEF F
<1>5. PICK f \in [SUBSET (1 .. n) -> T] : StepsBack(f, start, F, n)
  BY <1>1, <1>2, <1>4, StepsBackExist
<1>6. \A s \in SUBSET (1 .. n) : s # {} => Min(s) \in s
  BY <1>1, MinInInterval
<1>7. \A s \in SUBSET (1 .. n) : f[s] = IF s = {} THEN start ELSE Sort(nb, list[Min(s)], f[s \ {Min(s)}])
  BY <1>4, <1>5, <1>6 DEF StepsBack
<1>8. Is(f)
  BY <1>1, <1>7
<1>9. Is(it)
  BY <1>8
<1>10. \A s \in SUBSET (1 .. n) : it[s] = IF s = {} THEN start ELSE Sort(nb, list[Min(s)], it[s \ {Min(s)}])
  BY <1>1, <1>9
<1> HIDE DEF Is, it
<1>11. it[1 .. n] \in T
  <2>1. it[{}] \in T
    BY <1>2, <1>10
  <2>2. \A s \in SUBSET (1 .. n) : (s # {} /\ it[s \ {Min(s)}] \in T /\ Min(s) \in s) => it[s] \in T
    <3> SUFFICES ASSUME NEW s \in SUBSET (1 .. n), s # {}, it[s \ {Min(s)}] \in T, Min(s) \in s PROVE it[s] \in T
      OBVIOUS
    <3>1. it[s] = Sort(nb, list[Min(s)], it[s \ {Min(s)}]) /\ Min(s) \in 1 .. n
      BY <1>10
    <3> QED BY <1>3, <3>1
  <2> QED BY <1>1, <2>1, <2>2, WalkBackEnds
<1> QED
  BY <1>0, <1>1, <1>11 DEF T

(* The second of the chunks of one size, or the first of them. *)
LEMMA SecondOfIs ==
  ASSUME NEW h, NEW bin \in Lists, NEW size, \E k \in DOMAIN bin : chunksize(h, bin[k]) = size
  PROVE  /\ SecondOf(h, bin, size) \in Aligned /\ SecondOf(h, bin, size) \in ToSet(bin)
         /\ chunksize(h, SecondOf(h, bin, size)) = size
<1> DEFINE same == {k \in DOMAIN bin : chunksize(h, bin[k]) = size}
           n == Len(bin)
           first == Min(same)
<1>1. n \in Nat /\ DOMAIN bin = 1 .. n /\ \A k \in 1 .. n : bin[k] \in Aligned /\ bin[k] \in ToSet(bin)
  BY DEF Lists, ToSet
<1>2. same \in SUBSET (1 .. n) /\ same # {}
  BY <1>1
<1>3. SecondOf(h, bin, size) = bin[IF first < n /\ chunksize(h, bin[first + 1]) = size THEN first + 1 ELSE first]
  BY DEF SecondOf
<1>4. first \in same
  <2> HIDE DEF same, n
  <2> QED BY <1>1, <1>2, MinInInterval
<1> HIDE DEF first
<1>5. first \in 1 .. n /\ chunksize(h, bin[first]) = size
  BY <1>2, <1>4
<1> HIDE DEF same, n
<1>6. ASSUME first < n PROVE first + 1 \in 1 .. n
  BY <1>1, <1>5, <1>6
<1> QED BY <1>1, <1>3, <1>5, <1>6

(* A chunk is taken from its bin and cut. *)
LEMMA TakingKeeps ==
  ASSUME NEW h \in Good, NEW p \in Aligned, NEW nb \in Aligned
  PROVE  Fine(Taking(h, p, nb)) /\ Taking(h, p, nb).p # NULL
<1>1. Serve(unlink_chunk(h, p), p, nb) \in Good
  BY UnlinkKeeps, ServeKeeps
<1>2. NULL \notin Aligned
  BY PtAssumption DEF Aligned
<1> QED BY <1>1, <1>2 DEF Taking, Fine, Answer

(* A large bin serves. *)
LEMMA FromLargeBinKeeps ==
  ASSUME NEW h \in Good, NEW nb \in Chunky, LargeBinServes(h, nb)
  PROVE  Fine(FromLargeBin(h, nb)) /\ FromLargeBin(h, nb).p # NULL
<1> DEFINE bin == h.bins[bin_index(nb)]
           sizes == {s \in {chunksize(h, bin[k]) : k \in DOMAIN bin} : s >= nb}
<1>1. bin \in Lists
  <2>1. bin_index(nb) \in 1 .. NBINS - 1
    BY BinIndexIs
  <2> QED BY <2>1, GoodBins
<1>2. sizes # {} /\ sizes \in SUBSET Int /\ nb \in Int /\ \A s \in sizes : nb <= s
  <2>1. sizes # {}
    BY DEF LargeBinServes
  <2>2. \A a : chunksize(h, a) \in Int
    BY HeadFields DEF Aligned
  <2>3. nb \in Int
    BY DEF Chunky, Aligned
  <2> QED BY <2>1, <2>2, <2>3
<1>3. \A s \in sizes : \E k \in DOMAIN bin : chunksize(h, bin[k]) = s
  OBVIOUS
<1>4. FitInLargeBin(h, bin, nb) = SecondOf(h, bin, Min(sizes))
  BY DEF FitInLargeBin
<1> HIDE DEF sizes, bin
<1>5. Min(sizes) \in sizes
  BY <1>2, MinProperties
<1>6. FitInLargeBin(h, bin, nb) \in Aligned
  BY <1>1, <1>3, <1>4, <1>5, SecondOfIs
<1> QED
  BY <1>6, TakingKeeps DEF FromLargeBin, bin, Chunky

(* The marks of bins that were seen to be empty are cleared. *)
LEMMA UnmarkKeeps ==
  ASSUME NEW h \in Good, NEW nb \in Chunky, NEW r \in Aligned \union {NULL}
  PROVE  /\ [h EXCEPT !.binmap = h.binmap \ SeenBins(h, nb)] \in Good
         /\ [h EXCEPT !.binmap = h.binmap \ SeenBins(h, nb), !.last_remainder = r] \in Good
<1> DEFINE binmap == h.binmap \ SeenBins(h, nb)
<1>1. binmap \in SUBSET Marks
  BY GoodBins
<1>2. \A b \in SeenBins(h, nb) : h.bins[b] = << >>
  <2>1. CASE FilledAbove(h, nb) = {}
    BY <2>1 DEF SeenBins, FilledAbove
  <2>2. CASE FilledAbove(h, nb) # {}
    <3> DEFINE M == FilledAbove(h, nb)
    <3>1. M \in SUBSET Int /\ bin_index(nb) \in Int /\ \A b \in M : bin_index(nb) <= b
      BY GoodBins, BinIndexIs DEF FilledAbove, MarkedAbove, Marks
    <3>2. \A b \in MarkedAbove(h, nb) : b \in Int /\ (b \notin M => h.bins[b] = << >>)
      BY GoodBins DEF FilledAbove, MarkedAbove, Marks
    <3> HIDE DEF M
    <3>3. M # {} => \A b \in M : Min(M) <= b /\ Min(M) \in Int
      BY <3>1, MinProperties
    <3>4. M # {} => \A b \in MarkedAbove(h, nb) : b < Min(M) => b \notin M
      BY <3>2, <3>3
    <3> QED BY <2>2, <3>2, <3>4 DEF SeenBins, M
  <2> QED BY <2>1, <2>2
<1>3. BinsAreMarked(h.bins, binmap)
  BY <1>2, GoodBins DEF BinsAreMarked
<1> HIDE DEF binmap
<1>4. [h EXCEPT !.binmap = binmap] \in Good
  BY <1>1, <1>3 DEF Good, Heaps
<1>5. [h EXCEPT !.binmap = binmap, !.last_remainder = r] \in Good
  BY <1>1, <1>3 DEF Good, Heaps
<1> QED BY <1>4, <1>5 DEF binmap

(* The next filled bin serves; the marks cleared on the way are those of   *)
(* empty bins.                                                             *)
LEMMA FromBinAboveKeeps ==
  ASSUME NEW h \in Good, NEW nb \in Chunky, FilledAbove(h, nb) # {}
  PROVE  Fine(FromBinAbove(h, nb)) /\ FromBinAbove(h, nb).p # NULL
<1> DEFINE M == FilledAbove(h, nb)
           b == Min(M)
           p == Last(h.bins[b])
           c == Check(h, chunksize(h, p) >= nb)
           r == IF chunksize(h, p) - nb >= MINSIZE /\ in_smallbin_range(nb) THEN p + nb ELSE h.last_remainder
           g == [c EXCEPT !.binmap = c.binmap \ SeenBins(c, nb), !.last_remainder = r]
<1>1. M \in SUBSET Int /\ bin_index(nb) \in Int /\ \A k \in M : bin_index(nb) <= k
  BY GoodBins, BinIndexIs DEF FilledAbove, MarkedAbove, Marks
<1>2. b \in M
  <2> HIDE DEF M
  <2>1. M # {}
    BY DEF M
  <2> QED BY <1>1, <2>1, MinProperties
<1>3. b \in 1 .. NBINS - 1 /\ h.bins[b] # << >>
  <2>1. \A k \in M : k \in h.binmap /\ k > bin_index(nb) /\ h.bins[k] # << >>
    BY DEF FilledAbove, MarkedAbove
  <2>2. b \in Marks /\ b > bin_index(nb) /\ h.bins[b] # << >>
    BY <1>2, <2>1, GoodBins
  <2> HIDE DEF b
  <2>3. bin_index(nb) \in 2 .. NBINS - 1
    BY BinIndexIs
  <2> QED BY <2>2, <2>3 DEF Marks
<1> HIDE DEF b, M
<1>4. p \in Aligned
  <2>1. h.bins[b] \in Seq(Aligned)
    BY <1>3, GoodBins DEF Lists
  <2> QED BY <1>3, <2>1 DEF Last
<1> HIDE DEF p
<1>5. c \in Good /\ c.last_remainder = h.last_remainder /\ c.binmap = h.binmap /\ SeenBins(c, nb) = SeenBins(h, nb)
  <2>1. c \in Good
    BY CheckKeeps
  <2>2. c.last_remainder = h.last_remainder /\ c.binmap = h.binmap /\ c.bins = h.bins
    BY DEF Check, Good, Heaps
  <2> HIDE DEF c
  <2> QED BY <2>1, <2>2 DEF SeenBins, FilledAbove, MarkedAbove
<1> HIDE DEF c
<1>6. r \in Aligned \union {NULL} /\ nb \in Aligned
  <2>1. h.last_remainder \in Aligned \union {NULL} /\ nb \in Aligned
    BY DEF Good, Heaps, Chunky
  <2>2. p + nb \in Aligned
    BY <1>4, <2>1, EvenSums
  <2> QED BY <2>1, <2>2
<1> HIDE DEF r
<1>7. g \in Good
  BY <1>5, <1>6, UnmarkKeeps
<1>8. TakingAbove(h, p, nb) = Taking(g, p, nb)
  BY <1>5 DEF TakingAbove, g, c, r
<1> HIDE DEF g
<1>9. FromBinAbove(h, nb) = Taking(g, p, nb)
  BY <1>8 DEF FromBinAbove, p, b, M
<1> QED
  BY <1>4, <1>6, <1>7, <1>9, TakingKeeps

(* Top serves, or the kernel. *)
LEMMA FromTopKeeps ==
  ASSUME NEW h \in Good, NEW nb \in Chunky
  PROVE  Fine(FromTop(h, nb))
<1>1. Check(h, chunksize(h, h.top) <= h.system_mem) \in Good
  BY CheckKeeps
<1> QED BY <1>1, ServedByTopKeeps DEF FromTop, Chunky

(* What the search leads to. *)
FineTurn(s) == s.h \in Good /\ s.p \in Aligned \union {NULL} /\ s.count \in Int

(* An answer is found. *)
LEMMA FoundIsFine ==
  ASSUME NEW nb, NEW s \in Turns(nb), NEW a, Fine(a)
  PROVE  FineTurn(Found(s, a))
BY DEF Found, Fine, FineTurn, Turns

(* A bin, a bin above or top serves what the loop has not. *)
LEMMA ChosenKeeps ==
  ASSUME NEW nb \in Chunky, NEW s \in Turns(nb)
  PROVE  FineTurn(Chosen(s, nb))
<1>1. s.h \in Good /\ s.p \in Aligned \union {NULL} /\ s.cached \in BOOLEAN /\ s.count \in Int
  BY TurnIs
<1>2. CASE s.p # NULL
  BY <1>1, <1>2 DEF Chosen, FineTurn
<1>3. CASE s.p = NULL /\ s.cached
  <2>1. csize2tidx(nb) \in 0 .. TCACHE_MAX_BINS - 1 /\ s.h.entries[csize2tidx(nb)] # << >>
    BY <1>3, TurnIs DEF Cached
  <2>2. Fine(tcache_get(s.h, csize2tidx(nb)))
    BY <1>1, <2>1, TcacheGetKeeps DEF Fine
  <2>3. FineTurn(Found(s, tcache_get(s.h, csize2tidx(nb))))
    BY <2>2, FoundIsFine
  <2> QED BY <1>3, <2>3 DEF Chosen
<1>4. CASE s.p = NULL /\ ~s.cached
  <2>1. LargeBinServes(s.h, nb) => FineTurn(Found(s, FromLargeBin(s.h, nb)))
    BY <1>1, FromLargeBinKeeps, FoundIsFine
  <2>2. FilledAbove(s.h, nb) # {} => FineTurn(Found(s, FromBinAbove(s.h, nb)))
    BY <1>1, FromBinAboveKeeps, FoundIsFine
  <2>3. FineTurn(Found(s, FromTop([s.h EXCEPT !.binmap = s.h.binmap \ SeenBins(s.h, nb)], nb)))
    <3>1. NULL \in Aligned \union {NULL}
      OBVIOUS
    <3>2. [s.h EXCEPT !.binmap = s.h.binmap \ SeenBins(s.h, nb)] \in Good
      BY <1>1, <3>1, UnmarkKeeps
    <3> QED BY <3>2, FromTopKeeps, FoundIsFine
  <2> QED BY <1>4, <2>1, <2>2, <2>3 DEF Chosen
<1> QED BY <1>2, <1>3, <1>4

(* One turn of the outer loop. *)
LEMMA SearchKeeps ==
  ASSUME NEW h \in Good, NEW nb \in Chunky, NEW count \in Int
  PROVE  FineTurn(Search(h, nb, count))
BY SortedKeeps, ChosenKeeps DEF Search

(* _int_malloc. *)
LEMMA MallocKeeps ==
  ASSUME NEW h \in Good, NEW nb \in Chunky
  PROVE  Fine(int_malloc(h, nb))
<1> DEFINE g == IF ~in_smallbin_range(nb) /\ h.have_fastchunks THEN malloc_consolidate(h) ELSE h
           s == Search(g, nb, 0)
           t == SearchAgain(s, nb)
<1>1. g \in Good
  BY ConsolidateKeeps DEF Merged
<1> HIDE DEF g
<1>2. FineTurn(s)
  BY <1>1, SearchKeeps
<1> HIDE DEF s
<1>3. FineTurn(t)
  <2>1. malloc_consolidate(s.h) \in Good
    BY <1>2, ConsolidateKeeps DEF Merged, FineTurn
  <2>2. FineTurn(Search(malloc_consolidate(s.h), nb, s.count))
    BY <1>2, <2>1, SearchKeeps DEF FineTurn
  <2> QED BY <1>2, <2>2 DEF SearchAgain
<1> HIDE DEF t
<1>4. Fine(ElseSysmalloc(t, nb))
  BY <1>3, SysmallocKeeps DEF ElseSysmalloc, FineTurn, Fine, Answer, Chunky
<1>5. CASE nb <= h.mp.max_fast /\ h.fast[fastbin_index(nb)] # << >>
  BY <1>5, FastbinServes DEF int_malloc
<1>6. CASE ~(nb <= h.mp.max_fast /\ h.fast[fastbin_index(nb)] # << >>)
  BY <1>4, <1>6, FromSmallbinKeeps DEF int_malloc, g, s, t
<1> QED BY <1>5, <1>6

(* A request is for a chunk. *)
LEMMA RequestIsChunky ==
  ASSUME NEW req \in Int
  PROVE  request2size(req) \in Chunky
BY RequestIs DEF Chunky

(* An empty cache. *)
LEMMA EmptyCaches ==
  ASSUME NEW h \in Good
  PROVE  [i \in DOMAIN h.entries |-> << >>] \in Caches
<1>1. DOMAIN h.entries = 0 .. TCACHE_MAX_BINS - 1 /\ << >> \in Lists
  BY GoodBins DEF Caches, Lists
<1> QED BY <1>1 DEF Caches

(* tcache_init. *)
LEMMA TcacheInitKeeps ==
  ASSUME NEW h \in Good
  PROVE  tcache_init(h) \in Good
<1> DEFINE a == int_malloc(h, request2size(TcacheBytes))
<1>1. Fine(a)
  <2>1. request2size(TcacheBytes) \in Chunky
    BY RequestIsChunky, PtAssumption
  <2> QED BY <2>1, MallocKeeps
<1> HIDE DEF a
<1>2. WithTcache(a) \in Good
  <2> DEFINE entries == [i \in DOMAIN a.h.entries |-> << >>]
  <2>1. a.h \in Good /\ a.p \in Aligned \union {NULL}
    BY <1>1 DEF Fine
  <2>2. entries \in Caches
    BY <2>1, EmptyCaches
  <2> HIDE DEF entries
  <2>3. ASSUME NEW h1 \in Good, NEW p \in Aligned \union {NULL}
        PROVE  [h1 EXCEPT !.tcache = p, !.entries = entries] \in Good
    <3> DEFINE k == [h1 EXCEPT !.tcache = p, !.entries = entries]
    <3>1. h1 \in Heaps
      BY DEF Good
    <3>2. k \in Heaps
      BY <2>2, <3>1 DEF Heaps
    <3>3. k.bins = h1.bins /\ k.binmap = h1.binmap /\ k.fast = h1.fast /\ k.mp = h1.mp
          /\ k.have_fastchunks = h1.have_fastchunks
      BY <3>1 DEF Heaps
    <3> HIDE DEF k
    <3>4. k \in Good
      BY <3>2, <3>3 DEF Good
    <3> QED BY <3>4 DEF k
  <2> QED BY <2>1, <2>3 DEF WithTcache, entries
<1> QED BY <1>2 DEF tcache_init, a

(* malloc, the cache being there. *)
LEMMA MallocFromKeeps ==
  ASSUME NEW h \in Good, NEW nb \in Chunky
  PROVE  Fine(MallocFrom(h, nb))
<1>1. CASE Cacheable(h, nb) /\ h.entries[csize2tidx(nb)] # << >>
  <2>1. csize2tidx(nb) \in 0 .. TCACHE_MAX_BINS - 1
    BY <1>1, TidxIs
  <2>2. Fine(tcache_get(h, csize2tidx(nb)))
    BY <1>1, <2>1, TcacheGetKeeps DEF Fine
  <2> QED BY <1>1, <2>2 DEF MallocFrom
<1>2. CASE ~(Cacheable(h, nb) /\ h.entries[csize2tidx(nb)] # << >>)
  BY <1>2, MallocKeeps DEF MallocFrom
<1> QED BY <1>1, <1>2

(* malloc. *)
LEMMA LibcMallocKeeps ==
  ASSUME NEW h \in Good, NEW bytes \in Int
  PROVE  Fine(libc_malloc(h, bytes))
<1>1. tcache_init(h) \in Good /\ request2size(bytes) \in Chunky
  BY TcacheInitKeeps, RequestIsChunky
<1>2. Fine(MallocFrom(tcache_init(h), request2size(bytes)))
  BY <1>1, MallocFromKeeps
<1>3. Fine(Answer(h, NULL))
  BY DEF Fine, Answer
<1> QED BY <1>2, <1>3 DEF libc_malloc

(* The mapping of a chunk, and its size. *)
LEMMA BlockIs ==
  ASSUME NEW h \in Good, NEW p \in Aligned
  PROVE  Block(h, p) \in Aligned /\ BlockSize(h, p) \in Aligned /\ BlockSize(h, p) \in Int
<1>1. prev_size(h, p) \in Aligned /\ chunksize(h, p) \in Aligned
  BY HeadFields
<1>2. p - prev_size(h, p) \in Aligned /\ prev_size(h, p) + chunksize(h, p) \in Aligned
  BY <1>1, EvenSums
<1> QED BY <1>2 DEF Block, BlockSize, Aligned

(* A mapping is given back. *)
LEMMA MunmapChunkKeeps ==
  ASSUME NEW h \in Good, NEW p \in Aligned
  PROVE  munmap_chunk(h, p) \in Good
<1> DEFINE g == Drop(Check(h, BlockIsSane(h, p)), p)
           k == [g EXCEPT !.mp.n_mmaps = g.mp.n_mmaps - 1, !.mp.mmapped_mem = g.mp.mmapped_mem - BlockSize(h, p)]
<1>1. g \in Good
  BY CheckKeeps, DropKeeps
<1>2. munmap_chunk(h, p) = Munmap(k, Block(h, p), BlockSize(h, p))
  BY DEF munmap_chunk, g, k
<1> HIDE DEF g
<1>3. k \in Good
  <2>1. g.mp.n_mmaps \in Int /\ g.mp.mmapped_mem \in Int
    BY <1>1, GoodBins DEF Settled
  <2>2. g.mp.n_mmaps - 1 \in Int /\ g.mp.mmapped_mem - BlockSize(h, p) \in Int
    BY <2>1, BlockIs
  <2> QED BY <1>1, <2>2, CountersKeep
<1> HIDE DEF k
<1> QED BY <1>2, <1>3, MunmapKeeps

(* free of a mapping raises the threshold. *)
LEMMA ThresholdsKeep ==
  ASSUME NEW h \in Good, NEW p
  PROVE  AdjustThresholds(h, p) \in Good
<1>1. chunksize(h, p) \in Int
  BY HeadFields DEF Aligned
<1>2. 2 * chunksize(h, p) \in Int
  BY <1>1
<1>3. [h EXCEPT !.mp.mmap_threshold = chunksize(h, p), !.mp.trim_threshold = 2 * chunksize(h, p)] \in Good
  BY <1>1, <1>2, CountersKeep
<1> QED BY <1>3 DEF AdjustThresholds

(* free. *)
LEMMA LibcFreeKeeps ==
  ASSUME NEW h \in Good, NEW p \in Aligned \union {NULL}
  PROVE  libc_free(h, p) \in Good
<1>1. ASSUME p # NULL PROVE munmap_chunk(AdjustThresholds(h, p), p) \in Good
  BY <1>1, ThresholdsKeep, MunmapChunkKeeps
<1>2. ASSUME p # NULL PROVE int_free(tcache_init(h), p) \in Good
  BY <1>2, TcacheInitKeeps, FreeKeeps
<1> QED BY <1>1, <1>2 DEF libc_free

(* free of each chunk of a list. *)
LEMMA FreedKeeps ==
  ASSUME NEW h \in Good, NEW list \in Lists
  PROVE  FoldLeft(libc_free, h, list) \in Good
<1> DEFINE n == Len(list)
           F == [x \in Good \X (1 .. n) |-> libc_free(x[1], list[x[2]])]
           Is(f) == f = [s \in SUBSET (DOMAIN list) |->
                           IF s = {} THEN h ELSE libc_free(f[s \ {Max(s)}], list[Max(s)])]
           it == CHOOSE f : Is(f)
<1>0. FoldLeft(libc_free, h, list) = it[DOMAIN list]
  BY DEF FoldLeft, MapThenFoldSet
<1>1. n \in Nat /\ DOMAIN list = 1 .. n /\ \A m \in 1 .. n : list[m] \in Aligned
  BY DEF Lists
<1>2. \A x \in Good, m \in 1 .. n : libc_free(x, list[m]) \in Good
  BY <1>1, LibcFreeKeeps
<1>3. F \in [Good \X (1 .. n) -> Good] /\ \A x \in Good, m \in 1 .. n : F[<<x, m>>] = libc_free(x, list[m])
  BY <1>2
<1> HIDE DEF n, F
<1>4. PICK f \in [SUBSET (1 .. n) -> Good] : Steps(f, h, F, n)
  BY <1>1, <1>3, StepsExist
<1>5. \A s \in SUBSET (1 .. n) : s # {} => Max(s) \in s
  BY <1>1, MaxInInterval
<1>6. \A s \in SUBSET (1 .. n) : f[s] = IF s = {} THEN h ELSE libc_free(f[s \ {Max(s)}], list[Max(s)])
  BY <1>3, <1>4, <1>5 DEF Steps
<1>7. Is(f)
  BY <1>1, <1>6
<1>8. Is(it)
  BY <1>7
<1>9. \A s \in SUBSET (1 .. n) : it[s] = IF s = {} THEN h ELSE libc_free(it[s \ {Max(s)}], list[Max(s)])
  BY <1>1, <1>8
<1> HIDE DEF Is, it
<1>10. it[1 .. n] \in Good
  <2>1. it[{}] \in Good
    BY <1>9
  <2>2. \A s \in SUBSET (1 .. n) : (s # {} /\ it[s \ {Max(s)}] \in Good /\ Max(s) \in s) => it[s] \in Good
    BY <1>2, <1>9
  <2> QED BY <1>1, <2>1, <2>2, WalkEnds
<1> QED
  BY <1>0, <1>1, <1>10

(* tcache_thread_shutdown frees all that was cached. *)
LEMMA ShutdownKeeps ==
  ASSUME NEW h \in Good
  PROVE  tcache_thread_shutdown(h) \in Good
<1> DEFINE lists == [i \in 1 .. TCACHE_MAX_BINS |-> h.entries[i - 1]]
           entries == [i \in DOMAIN h.entries |-> << >>]
           off == [h EXCEPT !.tcache = NULL, !.shutting_down = TRUE, !.entries = entries]
<1>1. off \in Good
  <2>1. entries \in Caches
    BY EmptyCaches
  <2> HIDE DEF entries
  <2> QED BY <2>1 DEF Good, Heaps
<1>2. FlattenSeq(lists) \in Lists
  <2>1. TCACHE_MAX_BINS \in Nat
    BY PtAssumption
  <2>2. \A i \in 1 .. TCACHE_MAX_BINS : h.entries[i - 1] \in Seq(Aligned)
    BY <2>1, GoodBins DEF Lists
  <2>3. lists \in Seq(Seq(Aligned))
    BY <2>1, <2>2
  <2> HIDE DEF lists
  <2> QED BY <2>3, FlattenedType DEF Lists
<1>3. h.tcache \in Aligned \union {NULL}
  BY DEF Good, Heaps
<1>4. tcache_thread_shutdown(h) = IF HasTcache(h) THEN libc_free(FoldLeft(libc_free, off, FlattenSeq(lists)), h.tcache) ELSE h
  BY DEF tcache_thread_shutdown
<1> HIDE DEF off, lists
<1>5. FoldLeft(libc_free, off, FlattenSeq(lists)) \in Good
  BY <1>1, <1>2, FreedKeeps
<1> QED BY <1>3, <1>4, <1>5, LibcFreeKeeps

-------------------------------------------------------------------------------
(* realloc *)
LEMMA MremapKeeps ==
  ASSUME NEW h \in Good, NEW a \in Aligned, NEW n, NEW m \in Int
  PROVE  /\ Mremap(h, a, n, m).h \in Good
         /\ Mremap(h, a, n, m).at # Failed => Mremap(h, a, n, m).at \in Aligned
<1> DEFINE maps == h.maps \ {<<a, n>>}
           soiled == h.soiled \ Region(a, n)
           without == [h EXCEPT !.maps = maps, !.soiled = soiled]
           fits == a + m <= MmapTop /\ \A r \in without.maps : a + m <= r[1] \/ r[1] + r[2] <= a
           b == Max(Room(h, m))
<1>1. maps \in SUBSET (Int \X Int) /\ soiled \in SUBSET Int
  BY DEF Good, Heaps
<1> HIDE DEF maps, soiled
<1>2. without \in Good
  BY <1>1, MapsKeep
<1>3. Mremap(h, a, n, m) =
        IF m <= n \/ fits THEN [h |-> [without EXCEPT !.maps = without.maps \union {<<a, m>>}], at |-> a]
        ELSE IF Room(h, m) = {} THEN [h |-> h, at |-> Failed]
        ELSE [h |-> [without EXCEPT !.maps = without.maps \union {<<b, m>>}], at |-> b]
  BY DEF Mremap, without, fits, b, maps, soiled
<1> HIDE DEF without, fits, b
<1>4. \A x \in Int : [without EXCEPT !.maps = without.maps \union {<<x, m>>}] \in Good
  <2> SUFFICES ASSUME NEW x \in Int PROVE [without EXCEPT !.maps = without.maps \union {<<x, m>>}] \in Good
    OBVIOUS
  <2>1. without.maps \in SUBSET (Int \X Int) /\ h.soiled \in SUBSET Int
    BY <1>2 DEF Good, Heaps
  <2>2. without.maps \union {<<x, m>>} \in SUBSET (Int \X Int)
    BY <2>1
  <2> QED BY <1>2, <2>1, <2>2, MapsKeep
<1>5. Room(h, m) # {} => b \in Aligned /\ b \in Int
  BY RoomAligned DEF b
<1>6. a \in Int
  BY DEF Aligned
<1> QED BY <1>3, <1>4, <1>5, <1>6

(* A mapping changes its size. *)
LEMMA MremapChunkKeeps ==
  ASSUME NEW h \in Good, NEW p \in Aligned, NEW nb \in Aligned
  PROVE  Fine(mremap_chunk(h, p, nb))
<1> DEFINE offset == prev_size(h, p)
           new_size == AlignUp(nb + offset + SIZE_SZ, PageSize)
           m == Mremap(Drop(h, p), Block(h, p), BlockSize(h, p), new_size)
           head == [At(h, p) EXCEPT !.size = new_size - offset]
           g == Put(m.h, m.at + offset, head)
           k == [g EXCEPT !.mp.mmapped_mem = g.mp.mmapped_mem + new_size - BlockSize(h, p)]
<1>1. offset \in Aligned
  BY HeadFields
<1> HIDE DEF offset
<1>2. new_size \in Aligned /\ new_size \in Int
  BY <1>1, PageSizes DEF Aligned, SIZE_SZ
<1> HIDE DEF new_size
<1>3. m.h \in Good /\ (m.at # Failed => m.at \in Aligned)
  <2>1. Drop(h, p) \in Good /\ Block(h, p) \in Aligned
    BY DropKeeps, BlockIs
  <2> QED BY <1>2, <2>1, MremapKeeps
<1> HIDE DEF m
<1>4. head \in Heads
  <2>1. new_size - offset \in Aligned /\ At(h, p) \in Heads
    BY <1>1, <1>2, EvenSums, HeadFields
  <2> QED BY <2>1 DEF Heads
<1> HIDE DEF head
<1>5. m.at # Failed => g \in Good /\ m.at + offset \in Aligned
  BY <1>1, <1>3, <1>4, EvenSums, PutKeeps
<1> HIDE DEF g
<1>6. m.at # Failed => k \in Good
  <2> SUFFICES ASSUME m.at # Failed PROVE k \in Good
    OBVIOUS
  <2>1. g \in Good /\ g.mp.mmapped_mem \in Int /\ BlockSize(h, p) \in Int /\ 0 \in Int
    BY <1>5, GoodBins, BlockIs DEF Settled
  <2>2. g.mp.mmapped_mem + new_size - BlockSize(h, p) \in Int
    BY <1>2, <2>1
  <2> QED BY <2>1, <2>2, CountersKeep
<1>7. mremap_chunk(h, p, nb) = IF new_size = BlockSize(h, p) THEN Answer(h, p)
                               ELSE IF m.at = Failed THEN Answer(h, NULL)
                               ELSE Answer(k, m.at + offset)
  BY DEF mremap_chunk, new_size, m, g, k, offset, head
<1> HIDE DEF k
<1> QED BY <1>5, <1>6, <1>7 DEF Fine, Answer

(* realloc of a mapping. *)
LEMMA ReallocMappedKeeps ==
  ASSUME NEW h \in Good, NEW p \in Aligned, NEW bytes \in Int
  PROVE  Fine(ReallocMapped(h, p, bytes))
<1> DEFINE c == Check(h, BlockIsSane(h, p))
           m == mremap_chunk(c, p, request2size(bytes))
           new == libc_malloc(m.h, bytes)
<1>1. c \in Good
  BY CheckKeeps
<1> HIDE DEF c
<1>2. Fine(m)
  <2>1. request2size(bytes) \in Aligned
    BY RequestIs
  <2> QED BY <1>1, <2>1, MremapChunkKeeps
<1> HIDE DEF m
<1>3. Fine(new)
  BY <1>2, LibcMallocKeeps DEF Fine
<1> HIDE DEF new
<1>4. Fine(CopyMapped(h, p, new))
  <2>1. new.h \in Good /\ new.p \in Aligned \union {NULL}
    BY <1>3 DEF Fine
  <2>2. munmap_chunk(new.h, p) \in Good
    BY <2>1, MunmapChunkKeeps
  <2> QED BY <2>1, <2>2 DEF CopyMapped, Moves, Refused, Fine
<1>5. ReallocMapped(h, p, bytes) = Remapped(h, p, bytes, m)
  BY DEF ReallocMapped, m, c
<1>6. Fine(Stays(m.h, p, musable(h, p))) /\ Fine(Stays(m.h, m.p, musable(h, p)))
  BY <1>2 DEF Fine, Stays
<1>7. Remapped(h, p, bytes, m) = IF m.p # NULL THEN Stays(m.h, m.p, musable(h, p))
        ELSE IF chunksize(h, p) - SIZE_SZ >= request2size(bytes) THEN Stays(m.h, p, musable(h, p))
        ELSE CopyMapped(h, p, new)
  BY DEF Remapped, new
<1> QED BY <1>4, <1>5, <1>6, <1>7

(* The end of a chunk is freed. *)
LEMMA TailKeeps ==
  ASSUME NEW h \in Good, NEW p \in Aligned, NEW size \in Aligned, NEW nb \in Aligned
  PROVE  GiveBackTail(h, p, size, nb) \in Good
<1>1. p + size \in Aligned /\ p + nb \in Aligned /\ size - nb \in Aligned
  BY EvenSums
<1>2. set_head_size(h, p, size) \in Good /\ set_head_size(h, p, nb) \in Good
  BY HeadsKeep
<1>3. set_inuse_bit(set_head_size(h, p, size), p + size) \in Good
  BY <1>1, <1>2, HeadsKeep
<1>4. set_head(set_head_size(h, p, nb), p + nb, size - nb) \in Good
  BY <1>1, <1>2, HeadsKeep
<1>5. set_inuse_bit(set_head(set_head_size(h, p, nb), p + nb, size - nb), p + size) \in Good
  BY <1>1, <1>4, HeadsKeep
<1>6. int_free(set_inuse_bit(set_head(set_head_size(h, p, nb), p + nb, size - nb), p + size), p + nb) \in Good
  BY <1>1, <1>5, FreeKeeps
<1> QED BY <1>3, <1>6 DEF GiveBackTail

(* A chunk grows into the free one behind it. *)
LEMMA JoinedKeeps ==
  ASSUME NEW h \in Good, NEW p \in Aligned, NEW next, NEW size \in Aligned, NEW nb \in Aligned
  PROVE  Joined(h, p, next, size, nb) \in Good
BY DropKeeps, TailKeeps DEF Joined

(* A chunk stays, grows or is copied. *)
LEMMA ResizedKeeps ==
  ASSUME NEW h \in Good, NEW p \in Aligned, NEW nb \in Chunky
  PROVE  Fine(Resized(h, p, nb))
<1> DEFINE oldsize == chunksize(h, p)
           next == next_chunk(h, p)
           both == oldsize + chunksize(h, next)
           all == Carried(oldsize)
           new == int_malloc(h, nb)
           g == set_head(set_head_size(Drop(h, next), p, nb), p + nb, both - nb)
<1>1. oldsize \in Aligned /\ next \in Aligned /\ chunksize(h, next) \in Aligned /\ nb \in Aligned
  BY HeadFields DEF Chunky
<1>2. both \in Aligned
  BY <1>1, EvenSums
<1>3. p + nb \in Aligned /\ both - nb \in Aligned
  BY <1>1, <1>2, EvenSums
<1>4. Fine(new)
  BY MallocKeeps
<1>5. Resized(h, p, nb) =
        IF oldsize >= nb THEN Stays(GiveBackTail(h, p, oldsize, nb), p, all)
        ELSE IF next = h.top /\ both >= nb + MINSIZE THEN Stays([g EXCEPT !.top = p + nb], p, all)
        ELSE IF next # h.top /\ ~inuse(h, next) /\ both >= nb THEN
          Stays(Joined(unlink_chunk(h, next), p, next, both, nb), p, all)
        ELSE CopyChunk(h, p, new, nb)
  BY DEF Resized, oldsize, next, both, all, new, g
<1>6. CopyChunk(h, p, new, nb) =
        IF new.p = NULL THEN Refused(new.h)
        ELSE IF new.p # next THEN Moves(int_free(new.h, p), new.p, all)
        ELSE Stays(Joined(new.h, p, next, oldsize + chunksize(new.h, next), nb), p, all)
  BY DEF CopyChunk, oldsize, next, all
<1> HIDE DEF oldsize, next, both, all, new
<1>7. Fine(Stays(GiveBackTail(h, p, oldsize, nb), p, all))
  BY <1>1, TailKeeps DEF Stays, Fine
<1>8. Fine(Stays([g EXCEPT !.top = p + nb], p, all))
  <2>1. set_head_size(Drop(h, next), p, nb) \in Good
    BY <1>1, DropKeeps, HeadsKeep
  <2>2. g \in Good
    BY <1>3, <2>1, HeadsKeep
  <2> HIDE DEF g
  <2>3. [g EXCEPT !.top = p + nb] \in Good
    BY <1>3, <2>2, OtherFields
  <2> QED BY <2>3 DEF Stays, Fine
<1>9. Fine(Stays(Joined(unlink_chunk(h, next), p, next, both, nb), p, all))
  BY <1>1, <1>2, UnlinkKeeps, JoinedKeeps DEF Stays, Fine
<1>10. Fine(CopyChunk(h, p, new, nb))
  <2>1. new.h \in Good /\ new.p \in Aligned \union {NULL}
    BY <1>4 DEF Fine
  <2>2. int_free(new.h, p) \in Good
    BY <2>1, FreeKeeps
  <2>3. oldsize + chunksize(new.h, next) \in Aligned
    BY <1>1, <2>1, HeadFields, EvenSums
  <2>4. Joined(new.h, p, next, oldsize + chunksize(new.h, next), nb) \in Good
    BY <1>1, <2>1, <2>3, JoinedKeeps
  <2> QED BY <1>6, <2>1, <2>2, <2>4 DEF Stays, Moves, Refused, Fine
<1> QED BY <1>5, <1>7, <1>8, <1>9, <1>10

(* realloc. *)
LEMMA LibcReallocKeeps ==
  ASSUME NEW h \in Good, NEW p \in Aligned, NEW bytes \in Int
  PROVE  Fine(libc_realloc(h, p, bytes))
<1>1. Fine(Refused(libc_free(h, p))) /\ Fine(Refused(h))
  <2>1. libc_free(h, p) \in Good
    BY LibcFreeKeeps
  <2> QED BY <2>1 DEF Fine, Refused
<1>2. Fine(ReallocHeld(tcache_init(h), p, bytes))
  <2> DEFINE g == tcache_init(h)
             c == Check(g, NomaskExceeds(g, p, CHUNK_HDR_SZ) /\ chunksize(g, p) < g.system_mem /\ NextIsSane(g, p))
  <2>1. g \in Good
    BY TcacheInitKeeps
  <2> HIDE DEF g
  <2>2. c \in Good
    BY <2>1, CheckKeeps
  <2>3. Fine(Resized(c, p, request2size(bytes)))
    BY <2>2, RequestIsChunky, ResizedKeeps
  <2>4. Fine(Refused(g))
    BY <2>1 DEF Fine, Refused
  <2> QED BY <2>3, <2>4 DEF ReallocHeld, int_realloc, c, g
<1>3. Fine(ReallocMapped(h, p, bytes))
  BY ReallocMappedKeeps
<1> QED BY <1>1, <1>2, <1>3 DEF libc_realloc

-------------------------------------------------------------------------------
(* memalign *)
LEMMA MultipleOf ==
  ASSUME NEW a \in Nat \ {0}, NEW k \in Int
  PROVE  (k * a) % a = 0 /\ (k * a + a) % a = 0
<1>1. (k * a) % a = 0
  BY SMTT(30)
<1>2. k * a + a = (k + 1) * a /\ k + 1 \in Int
  BY SMTT(30)
<1>3. ((k + 1) * a) % a = 0
  BY <1>2, SMTT(30)
<1> QED BY <1>1, <1>2, <1>3

(* Where memalign cuts a chunk, an aligned one and its object begin. *)
LEMMA AlignedAtIs ==
  ASSUME NEW p \in Aligned, NEW a \in Powers
  PROVE  AlignedAt(p, a) \in Aligned /\ (AlignedAt(p, a) + CHUNK_HDR_SZ) % a = 0
<1> DEFINE k == (p + CHUNK_HDR_SZ + a - 1) \div a
           q == k * a - CHUNK_HDR_SZ
<1>1. a \in Nat \ {0} /\ a \in Aligned
  BY PowerMultiple
<1>2. k \in Int
  BY <1>1 DEF Aligned, CHUNK_HDR_SZ, SIZE_SZ
<1>3. AlignedAt(p, a) = IF q # p /\ q - p < MINSIZE THEN q + a ELSE q
  BY DEF AlignedAt, AlignUp
<1> HIDE DEF k
<1>4. k * a \in Aligned /\ k * a \in Int
  BY <1>2, PowerMultiple DEF Aligned
<1>5. (k * a) % a = 0 /\ (k * a + a) % a = 0
  BY <1>1, <1>2, MultipleOf
<1>6. q \in Aligned /\ q + a \in Aligned
  BY <1>1, <1>4, EvenSums
<1>7. q + CHUNK_HDR_SZ = k * a /\ q + a + CHUNK_HDR_SZ = k * a + a
  BY <1>1, <1>4 DEF CHUNK_HDR_SZ, SIZE_SZ
<1> HIDE DEF q
<1> QED BY <1>3, <1>5, <1>6, <1>7

(* The lead goes back. *)
LEMMA LeadKeeps ==
  ASSUME NEW h \in Good, NEW p \in Aligned, NEW q \in Aligned
  PROVE  GiveBackLead(h, p, q) \in Good
<1> DEFINE newsize == chunksize(h, p) - (q - p)
<1>1. q - p \in Aligned /\ newsize \in Aligned /\ q + newsize \in Aligned
  BY HeadFields, EvenSums
<1> HIDE DEF newsize
<1>2. set_head(h, q, newsize) \in Good
  BY <1>1, HeadsKeep
<1>3. set_inuse_bit(set_head(h, q, newsize), q + newsize) \in Good
  BY <1>1, <1>2, HeadsKeep
<1>4. set_head_size(set_inuse_bit(set_head(h, q, newsize), q + newsize), p, q - p) \in Good
  BY <1>1, <1>3, HeadsKeep
<1>5. int_free(set_head_size(set_inuse_bit(set_head(h, q, newsize), q + newsize), p, q - p), p) \in Good
  BY <1>4, FreeKeeps
<1> QED BY <1>5 DEF GiveBackLead, newsize

(* The end goes back. *)
LEMMA SpareKeeps ==
  ASSUME NEW h \in Good, NEW p \in Aligned, NEW nb \in Aligned
  PROVE  GiveBackSpare(h, p, nb) \in Good
<1>1. p + nb \in Aligned /\ chunksize(h, p) - nb \in Aligned
  BY HeadFields, EvenSums
<1>2. set_head(h, p + nb, chunksize(h, p) - nb) \in Good
  BY <1>1, HeadsKeep
<1>3. set_head_size(set_head(h, p + nb, chunksize(h, p) - nb), p, nb) \in Good
  BY <1>2, HeadsKeep
<1>4. int_free(set_head_size(set_head(h, p + nb, chunksize(h, p) - nb), p, nb), p + nb) \in Good
  BY <1>1, <1>3, FreeKeeps
<1> QED BY <1>4 DEF GiveBackSpare

(* Lead and end of a chunk go back, and its middle stays. *)
LEMMA CutKeeps ==
  ASSUME NEW h \in Good, NEW p \in Aligned \union {NULL}, NEW q \in Aligned, NEW nb \in Aligned
  PROVE  Fine(CutAligned(h, p, q, nb)) /\ CutAligned(h, p, q, nb).p \in {NULL, q}
<1>1. ASSUME p # NULL PROVE ShiftMapped(h, p, q) \in Good
  <2> DEFINE d == q - p
             head == [At(h, p) EXCEPT !.prev_size = At(h, p).prev_size + d, !.size = At(h, p).size - d]
  <2>1. d \in Aligned
    BY <1>1, EvenSums
  <2> HIDE DEF d
  <2>2. At(h, p) \in Heads
    BY HeadFields
  <2>3. At(h, p).prev_size + d \in Aligned /\ At(h, p).size - d \in Aligned
    <3>1. At(h, p).prev_size \in Aligned /\ At(h, p).size \in Aligned
      BY <2>2 DEF Heads
    <3> QED BY <2>1, <3>1, EvenSums
  <2>4. head \in Heads
    BY <2>2, <2>3 DEF Heads
  <2>5. Put(Drop(h, p), q, head) \in Good
    BY <2>4, DropKeeps, PutKeeps
  <2> QED BY <2>5 DEF ShiftMapped, d
<1>2. \A g \in Good : GiveBackSpare(Check(g, chunksize(g, q) >= nb), q, nb) \in Good
  BY CheckKeeps, SpareKeeps
<1>3. ASSUME p # NULL PROVE (IF q = p THEN h ELSE GiveBackLead(h, p, q)) \in Good
  BY <1>3, LeadKeeps
<1> QED BY <1>1, <1>2, <1>3 DEF CutAligned, CutToSize, Fine, Answer

(* _int_memalign: its object is aligned as asked. *)
LEMMA IntMemalignKeeps ==
  ASSUME NEW h \in Good, NEW a \in Powers, NEW bytes \in Int
  PROVE  Fine(int_memalign(h, a, bytes)) /\ AlignedTo(int_memalign(h, a, bytes).p, a)
<1> DEFINE nb == request2size(bytes)
           m == int_malloc(h, request2size(nb + a + MINSIZE))
           q == AlignedAt(m.p, a)
<1>1. nb \in Aligned
  BY RequestIs
<1> HIDE DEF nb
<1>2. Fine(m)
  <2>1. nb + a + MINSIZE \in Int
    BY <1>1, PowerMultiple DEF Aligned, MINSIZE, SIZE_SZ
  <2> QED BY <2>1, RequestIsChunky, MallocKeeps
<1>3. int_memalign(h, a, bytes) = CutAligned(m.h, m.p, q, nb)
  BY DEF int_memalign, MemalignFrom, m, q, nb
<1> HIDE DEF m
<1>4. CASE m.p = NULL
  <2>1. CutAligned(m.h, m.p, q, nb) = Answer(m.h, NULL)
    BY <1>4 DEF CutAligned
  <2> QED BY <1>2, <1>3, <2>1 DEF Fine, Answer, AlignedTo
<1>5. CASE m.p # NULL
  <2>1. q \in Aligned /\ (q + CHUNK_HDR_SZ) % a = 0
    BY <1>2, <1>5, AlignedAtIs DEF Fine
  <2> HIDE DEF q
  <2>2. Fine(CutAligned(m.h, m.p, q, nb)) /\ CutAligned(m.h, m.p, q, nb).p \in {NULL, q}
    BY <1>1, <1>2, <2>1, CutKeeps DEF Fine
  <2> QED BY <1>3, <2>1, <2>2 DEF AlignedTo
<1> QED BY <1>4, <1>5

(* A power of two is not rounded. *)
LEMMA AlignmentIs ==
  ASSUME NEW a \in Powers
  PROVE  Alignment(a) = a /\ a > MALLOC_ALIGNMENT
<1> DEFINE S == {n \in Powers : n >= a /\ n >= MINSIZE}
<1>1. a \in S /\ a > MALLOC_ALIGNMENT
  BY DEF Powers, MINSIZE, MALLOC_ALIGNMENT, SIZE_SZ
<1>2. S \in SUBSET Int /\ a \in Int /\ \A n \in S : a <= n
  BY DEF Powers
<1> HIDE DEF S
<1>3. Min(S) \in S /\ \A n \in S : Min(S) <= n
  BY <1>1, <1>2, MinProperties
<1>4. Min(S) \in Int /\ a <= Min(S) /\ Min(S) <= a
  BY <1>1, <1>2, <1>3
<1> QED BY <1>1, <1>2, <1>4 DEF Alignment, S

(* memalign: its object is aligned as asked, whether malloc's alignment    *)
(* suffices or not.                                                        *)
LEMMA LibcMemalignKeeps ==
  ASSUME NEW h \in Good, NEW a \in {1, 2} \union Powers, NEW bytes \in Int
  PROVE  Fine(libc_memalign(h, a, bytes)) /\ AlignedTo(libc_memalign(h, a, bytes).p, a)
<1>1. CASE a \in {1, 2}
  <2>1. Fine(libc_malloc(h, bytes))
    BY LibcMallocKeeps
  <2>2. a <= MALLOC_ALIGNMENT
    BY <1>1 DEF MALLOC_ALIGNMENT, SIZE_SZ
  <2>3. \A p \in Aligned : (p + CHUNK_HDR_SZ) % a = 0
    BY <1>1 DEF Aligned, MALLOC_ALIGNMENT, CHUNK_HDR_SZ, SIZE_SZ
  <2>4. libc_memalign(h, a, bytes) = libc_malloc(h, bytes)
    BY <2>2 DEF libc_memalign
  <2> QED BY <2>1, <2>3, <2>4 DEF Fine, AlignedTo
<1>2. CASE a \in Powers
  <2>1. Alignment(a) = a /\ a > MALLOC_ALIGNMENT /\ a \in Nat
    BY <1>2, AlignmentIs, PowerMultiple
  <2>2. ~(a <= MALLOC_ALIGNMENT)
    BY <2>1 DEF MALLOC_ALIGNMENT, SIZE_SZ
  <2>3. libc_memalign(h, a, bytes) = IF ~Representable(bytes) THEN Answer(h, NULL) ELSE int_memalign(h, a, bytes)
    BY <2>1, <2>2 DEF libc_memalign
  <2>4. Fine(int_memalign(h, a, bytes)) /\ AlignedTo(int_memalign(h, a, bytes).p, a)
    BY <1>2, IntMemalignKeeps
  <2> QED BY <2>3, <2>4 DEF Fine, Answer, AlignedTo
<1> QED BY <1>1, <1>2

(* pvalloc, whose objects begin at a page; valloc is memalign. *)
LEMMA PvallocKeeps ==
  ASSUME NEW h \in Good, NEW bytes \in Int
  PROVE  Fine(libc_pvalloc(h, bytes)) /\ AlignedTo(libc_pvalloc(h, bytes).p, PageSize)
<1> DEFINE up == bytes + PageSize - 1
           n == AlignDown(up, PageSize) + (up % 2)
<1>1. up \in Int
  BY PageSizes
<1>2. AlignDown(up, PageSize) \in Int /\ up % 2 \in Int
  BY <1>1, PageSizes DEF Aligned
<1>3. n \in Int
  BY <1>2
<1>4. libc_pvalloc(h, bytes) = libc_memalign(h, PageSize, n)
  BY DEF libc_pvalloc, libc_valloc
<1> HIDE DEF n
<1> QED BY <1>3, <1>4, PageSizes, LibcMemalignKeeps

-------------------------------------------------------------------------------
(* calloc *)
LEMMA CallocKeeps ==
  ASSUME NEW h \in Good, NEW bytes \in Int
  PROVE  Fine(libc_calloc(h, bytes))
<1> DEFINE g == tcache_init(h)
           a == int_malloc(g, request2size(bytes))
<1>1. g \in Good
  BY TcacheInitKeeps
<1>2. Fine(a)
  BY <1>1, RequestIsChunky, MallocKeeps
<1>3. libc_calloc(h, bytes) = IF Representable(bytes) THEN CallocFrom(g, a) ELSE [h |-> g, p |-> NULL, cleared |-> 0]
  BY DEF libc_calloc, CallocIn, g, a
<1> HIDE DEF g, a
<1>4. Fine(CallocFrom(g, a))
  <2>1. \A n : Check(a.h, mmapped(a.h, a.p) \/ n >= 3) \in Good
    BY <1>2, CheckKeeps DEF Fine
  <2>2. \A n : Fine(Clean(a, n))
    BY <1>2, <2>1 DEF Clean, Fine
  <2> QED BY <1>2, <2>2 DEF CallocFrom, Fine
<1>5. Fine([h |-> g, p |-> NULL, cleared |-> 0])
  BY <1>1 DEF Fine
<1> QED BY <1>3, <1>4, <1>5

-------------------------------------------------------------------------------
(* malloc_trim and mallopt *)
LEMMA TrimKeeps ==
  ASSUME NEW h \in Good, NEW pad \in Int
  PROVE  mtrim(h, pad).h \in Good
<1> DEFINE g == malloc_consolidate(h)
           soiled == g.soiled \ Advised(g)
<1>1. g \in Good
  BY ConsolidateKeeps DEF Merged
<1> HIDE DEF g
<1>2. soiled \in SUBSET Int
  BY <1>1 DEF Good, Heaps
<1> HIDE DEF soiled
<1>3. [g EXCEPT !.soiled = soiled] \in Good
  BY <1>1, <1>2 DEF Good, Heaps
<1>4. systrim([g EXCEPT !.soiled = soiled], pad).h \in Good
  BY <1>3, SystrimKeeps
<1> QED BY <1>4 DEF mtrim, TrimAll, TrimBoth, g, soiled

(* mallopt: the fastbins have been emptied before max_fast is lowered. *)
LEMMA MalloptKeeps ==
  ASSUME NEW h \in Good, NEW param \in Tunables, NEW value \in 0 .. PTRDIFF_MAX
  PROVE  libc_mallopt(h, param, value) \in Good
<1> DEFINE g == malloc_consolidate(h)
<1>1. g \in Good /\ NoFast(g.fast)
  BY ConsolidateKeeps DEF Merged
<1> HIDE DEF g
<1>2. \A mp \in Settled : [g EXCEPT !.mp = mp] \in Good
  <2> SUFFICES ASSUME NEW mp \in Settled PROVE [g EXCEPT !.mp = mp] \in Good
    OBVIOUS
  <2> DEFINE k == [g EXCEPT !.mp = mp]
  <2>1. k \in Heaps /\ k.bins = g.bins /\ k.binmap = g.binmap /\ k.fast = g.fast /\ k.mp = mp /\ k.have_fastchunks = g.have_fastchunks
    BY <1>1 DEF Good, Heaps
  <2> HIDE DEF k
  <2>2. FastAreSmall(k.fast, k.mp.max_fast)
    BY <1>1, <2>1 DEF NoFast, FastAreSmall
  <2>3. k \in Good
    BY <1>1, <2>1, <2>2, GoodBins DEF Good
  <2> QED BY <2>3 DEF k
<1>3. g.mp \in Settled
  BY <1>1, GoodBins
<1>4. value <= MAX_FAST_SIZE => MaxFastOf(value) \in 0 .. request2size(MAX_FAST_SIZE)
  BY PtAssumption DEF MaxFastOf, request2size, AlignDown, MALLOC_ALIGNMENT, SIZE_SZ, MINSIZE
<1>5. /\ value <= MAX_FAST_SIZE => [g.mp EXCEPT !.max_fast = MaxFastOf(value)] \in Settled
      /\ [g.mp EXCEPT !.no_dyn_threshold = TRUE, !.trim_threshold = value] \in Settled
      /\ [g.mp EXCEPT !.no_dyn_threshold = TRUE, !.top_pad = value] \in Settled
      /\ [g.mp EXCEPT !.no_dyn_threshold = TRUE, !.mmap_threshold = value] \in Settled
      /\ [g.mp EXCEPT !.no_dyn_threshold = TRUE, !.n_mmaps_max = value] \in Settled
  <2>1. value <= MAX_FAST_SIZE => [g.mp EXCEPT !.max_fast = MaxFastOf(value)] \in Settled
    BY <1>3, <1>4 DEF Settled
  <2> DEFINE mp == [g.mp EXCEPT !.no_dyn_threshold = TRUE]
  <2>2. mp \in Settled
    BY <1>3 DEF Settled
  <2>3. value \in Nat
    OBVIOUS
  <2> HIDE DEF mp
  <2>4. /\ [mp EXCEPT !.trim_threshold = value] \in Settled /\ [mp EXCEPT !.top_pad = value] \in Settled
        /\ [mp EXCEPT !.mmap_threshold = value] \in Settled /\ [mp EXCEPT !.n_mmaps_max = value] \in Settled
    BY <2>2, <2>3 DEF Settled
  <2> QED BY <2>1, <2>4 DEF mp
<1>6. SetParameter(g, param, value) \in Good
  <2>1. CASE param = "max_fast"
    BY <1>1, <1>2, <1>5, <2>1 DEF SetParameter
  <2>2. CASE param = "trim_threshold"
    BY <1>1, <1>2, <1>5, <2>2 DEF SetParameter
  <2>3. CASE param = "top_pad"
    BY <1>1, <1>2, <1>5, <2>3 DEF SetParameter
  <2>4. CASE param = "mmap_threshold"
    BY <1>1, <1>2, <1>5, <2>4 DEF SetParameter
  <2>5. CASE param = "n_mmaps_max"
    BY <1>1, <1>2, <1>5, <2>5 DEF SetParameter
  <2> QED BY <2>1, <2>2, <2>3, <2>4, <2>5 DEF Tunables
<1> QED BY <1>6 DEF libc_mallopt, g

(* Words of chunks are dirty. *)
LEMMA TouchedKeeps ==
  ASSUME NEW h \in Good
  PROVE  Touched(h) \in Good
<1>1. \A a \in Int, n \in Int : Region(a, n) \in SUBSET Int
  BY DEF Region
<1>2. h.top \in Int /\ CHUNK_HDR_SZ \in Int
  BY DEF Good, Heaps, Aligned, CHUNK_HDR_SZ, SIZE_SZ
<1>3. \A a \in DOMAIN h.mem : a \in Int /\ h.mem[a].size \in Int
  <2>1. h.mem \in [DOMAIN h.mem -> Heads] /\ DOMAIN h.mem \in SUBSET Aligned
    BY MemType DEF Good, Heaps
  <2>2. \A a \in DOMAIN h.mem : a \in Aligned /\ h.mem[a].size \in Aligned
    BY <2>1 DEF Heads
  <2> QED BY <2>2 DEF Aligned
<1> DEFINE soiled == h.soiled \union Region(h.top, CHUNK_HDR_SZ) \union
                     UNION {Region(a, h.mem[a].size) : a \in DOMAIN h.mem \ {h.top}}
<1>4. soiled \in SUBSET Int
  <2>1. h.soiled \in SUBSET Int /\ Region(h.top, CHUNK_HDR_SZ) \in SUBSET Int
    BY <1>1, <1>2 DEF Good, Heaps
  <2>2. UNION {Region(a, h.mem[a].size) : a \in DOMAIN h.mem \ {h.top}} \in SUBSET Int
    BY <1>1, <1>3
  <2> QED BY <2>1, <2>2
<1> HIDE DEF soiled
<1>5. [h EXCEPT !.soiled = soiled] \in Good
  BY <1>4 DEF Good, Heaps
<1> QED BY <1>5 DEF Touched, soiled

Objects == Seq((Aligned \union {NULL}) \X Nat)

-------------------------------------------------------------------------------
(* The calls made before. *)
CallsMade(f, start, history, m) ==
  f = [s \in SUBSET (1 .. m) |-> IF s = {} THEN start ELSE After(f[s \ {Max(s)}], history[Max(s)])]

(* The fold over a history has such a function. *)
LEMMA CallsMadeExist ==
  ASSUME NEW start, NEW history, NEW n \in Nat
  PROVE  \E f : CallsMade(f, start, history, n)
<1> DEFINE P(m) == \E f : CallsMade(f, start, history, m)
           D == {m \in 0 .. n : ~P(m)}
<1>0. SUFFICES P(n)
  OBVIOUS
<1> HIDE DEF P
<1>1. SUFFICES ASSUME D # {} PROVE FALSE
  OBVIOUS
<1>2. PICK m \in D : \A k \in D : m <= k
  <2>1. D \in SUBSET Nat
    OBVIOUS
  <2> HIDE DEF D
  <2> QED BY <1>1, <2>1, LeastNumber
<1>3. P(0)
  <2> DEFINE f == [s \in SUBSET (1 .. 0) |-> start]
  <2>0. 1 .. 0 = {}
    OBVIOUS
  <2>1. \A s \in SUBSET (1 .. 0) : s = {}
    BY <2>0
  <2>2. f = [s \in SUBSET (1 .. 0) |-> IF s = {} THEN start ELSE After(f[s \ {Max(s)}], history[Max(s)])]
    BY <2>1
  <2> QED BY <2>2 DEF P, CallsMade
<1>4. m - 1 \in 0 .. n /\ m \in 1 .. n /\ P(m - 1)
  <2>1. m # 0 /\ m \in 0 .. n
    BY <1>2, <1>3
  <2>2. m - 1 \in 0 .. n /\ m \in 1 .. n /\ ~(m <= m - 1)
    BY <2>1
  <2>3. m - 1 \notin D
    BY <1>2, <2>2
  <2> QED BY <2>2, <2>3
<1>5. PICK f : CallsMade(f, start, history, m - 1)
  BY <1>4 DEF P
<1> DEFINE g == [s \in SUBSET (1 .. m) |-> IF m \in s THEN After(f[s \ {m}], history[m]) ELSE f[s]]
<1>6. \A s \in SUBSET (1 .. m) : s \ {m} \in SUBSET (1 .. (m - 1)) /\ (m \notin s => s \in SUBSET (1 .. (m - 1)))
  BY <1>4
<1>7. \A s \in SUBSET (1 .. m) : s # {} => Max(s) \in s /\ (m \in s => Max(s) = m)
  BY <1>4, MaxInInterval
<1>8. \A s \in SUBSET (1 .. (m - 1)) : f[s] = IF s = {} THEN start ELSE After(f[s \ {Max(s)}], history[Max(s)])
  BY <1>5 DEF CallsMade
<1>9. \A s \in SUBSET (1 .. m) : g[s] = IF s = {} THEN start ELSE After(g[s \ {Max(s)}], history[Max(s)])
  <2> SUFFICES ASSUME NEW s \in SUBSET (1 .. m)
               PROVE  g[s] = IF s = {} THEN start ELSE After(g[s \ {Max(s)}], history[Max(s)])
    OBVIOUS
  <2>1. CASE m \in s
    <3>1. Max(s) = m /\ s # {} /\ s \ {m} \in SUBSET (1 .. m) /\ m \notin s \ {m}
      BY <1>7, <2>1
    <3>2. g[s] = After(f[s \ {m}], history[m]) /\ g[s \ {m}] = f[s \ {m}]
      BY <2>1, <3>1
    <3> HIDE DEF g
    <3> QED BY <3>1, <3>2
  <2>2. CASE m \notin s
    <3>1. s \in SUBSET (1 .. (m - 1)) /\ g[s] = f[s]
      BY <1>6, <2>2
    <3>2. s # {} => s \ {Max(s)} \in SUBSET (1 .. m) /\ m \notin s \ {Max(s)}
      BY <2>2
    <3>3. s # {} => g[s \ {Max(s)}] = f[s \ {Max(s)}]
      BY <3>2
    <3>4. f[s] = IF s = {} THEN start ELSE After(f[s \ {Max(s)}], history[Max(s)])
      BY <1>8, <3>1
    <3> HIDE DEF g
    <3> QED BY <3>1, <3>3, <3>4
  <2> QED BY <2>1, <2>2
<1>10. g = [s \in SUBSET (1 .. m) |-> IF s = {} THEN start ELSE After(g[s \ {Max(s)}], history[Max(s)])]
  <2>1. \A s \in SUBSET (1 .. m) :
          g[s] = [t \in SUBSET (1 .. m) |-> IF t = {} THEN start ELSE After(g[t \ {Max(t)}], history[Max(t)])][s]
    BY <1>9
  <2> QED BY <2>1
<1> HIDE DEF g
<1>11. P(m)
  BY <1>10 DEF P, CallsMade
<1> QED
  BY <1>2, <1>11

Ready(history, m) ==
  {s \in [heap : Good, objects : Objects] : Len(s.objects) = Cardinality(Allocations(history, m))}

(* One call more, one allocation more or none. *)
LEMMA AllocationsCount ==
  ASSUME NEW history \in Seq(Int \ {0}), NEW m \in 1 .. Len(history)
  PROVE  /\ Cardinality(Allocations(history, m)) = Cardinality(Allocations(history, m - 1))
                                                   + (IF history[m] > 0 THEN 1 ELSE 0)
         /\ Cardinality(Allocations(history, m - 1)) \in Nat
<1>1. Allocations(history, m - 1) \in SUBSET (1 .. (m - 1)) /\ m - 1 \in Nat
  BY DEF Allocations
<1>2. IsFiniteSet(Allocations(history, m - 1)) /\ Cardinality(Allocations(history, m - 1)) \in Nat
  BY <1>1, CountUpTo
<1>3. m \notin Allocations(history, m - 1)
  BY <1>1
<1>4. CASE history[m] > 0
  <2>1. \A j : j \in Allocations(history, m) <=> j \in Allocations(history, m - 1) \union {m}
    BY <1>4 DEF Allocations
  <2>2. Allocations(history, m) = Allocations(history, m - 1) \union {m}
    BY <2>1
  <2> QED BY <1>2, <1>3, <1>4, <2>2, FS_AddElement
<1>5. CASE ~(history[m] > 0)
  <2>1. \A j : j \in Allocations(history, m) <=> j \in Allocations(history, m - 1)
    BY <1>5 DEF Allocations
  <2>2. Allocations(history, m) = Allocations(history, m - 1)
    BY <2>1
  <2> QED BY <1>2, <1>5, <2>2
<1> QED BY <1>4, <1>5

(* A call of a history. *)
LEMMA AfterKeeps ==
  ASSUME NEW history, Possible(history), NEW m \in 1 .. Len(history), NEW s \in Ready(history, m - 1)
  PROVE  After(s, history[m]) \in Ready(history, m)
<1> DEFINE n == history[m]
           k == Cardinality(Allocations(history, m - 1))
<1>1. n \in Int \ {0} /\ history \in Seq(Int \ {0}) /\ m \in DOMAIN history
  BY DEF Possible
<1>2. Cardinality(Allocations(history, m)) = k + (IF n > 0 THEN 1 ELSE 0) /\ k \in Nat
  BY <1>1, AllocationsCount
<1>3. s.heap \in Good /\ s.objects \in Objects /\ Len(s.objects) = k
  BY DEF Ready
<1>4. CASE n > 0
  <2> DEFINE a == libc_malloc(s.heap, n)
             o == <<a.p, n>>
  <2>1. a.h \in Good /\ a.p \in Aligned \union {NULL}
    BY <1>1, <1>3, LibcMallocKeeps DEF Fine
  <2> HIDE DEF a
  <2>2. o \in (Aligned \union {NULL}) \X Nat
    BY <1>1, <1>4, <2>1
  <2> HIDE DEF o
  <2>3. Append(s.objects, o) \in Objects /\ Len(Append(s.objects, o)) = k + 1
    BY <1>3, <2>2 DEF Objects
  <2>4. Touched(a.h) \in Good
    BY <2>1, TouchedKeeps
  <2>5. After(s, n) = [heap |-> Touched(a.h), objects |-> Append(s.objects, o)]
    BY <1>4 DEF After, Grant, a, o
  <2> HIDE DEF n
  <2>6. [heap |-> Touched(a.h), objects |-> Append(s.objects, o)] \in Ready(history, m)
    BY <1>2, <1>4, <2>3, <2>4 DEF Ready
  <2> QED BY <2>5, <2>6 DEF n
<1>5. CASE ~(n > 0)
  <2> DEFINE i == -n
             objects == [s.objects EXCEPT ![i] = <<NULL, 0>>]
  <2>1. i \in 1 .. k
    <3>1. n < 0 /\ i <= Cardinality(Allocations(history, m))
      BY <1>1, <1>5 DEF Possible
    <3> HIDE DEF n
    <3> QED BY <1>1, <1>2, <1>5, <3>1
  <2> HIDE DEF i
  <2>2. s.objects[i] \in (Aligned \union {NULL}) \X Nat
    BY <1>3, <2>1 DEF Objects
  <2>3. objects \in Objects /\ Len(objects) = k
    BY <1>3, <2>1 DEF Objects
  <2> HIDE DEF objects
  <2>4. Touched(libc_free(s.heap, s.objects[i][1])) \in Good
    <3>1. s.objects[i][1] \in Aligned \union {NULL}
      BY <2>2
    <3> QED BY <1>3, <3>1, LibcFreeKeeps, TouchedKeeps
  <2>5. After(s, n) = [heap |-> Touched(libc_free(s.heap, s.objects[i][1])), objects |-> objects]
    BY <1>5 DEF After, i, objects
  <2> HIDE DEF n
  <2>6. [heap |-> Touched(libc_free(s.heap, s.objects[i][1])), objects |-> objects] \in Ready(history, m)
    BY <1>2, <1>5, <2>3, <2>4 DEF Ready
  <2> QED BY <2>5, <2>6 DEF n
<1> QED BY <1>4, <1>5

(* malloc_init_state. *)
LEMMA FirstHeap ==
  ASSUME NEW mp \in Params
  PROVE  malloc_init_state(FirstBrk, mp) \in Good
<1> DEFINE mem == [a \in {} |-> NoHead]
           bins == [b \in 1 .. NBINS - 1 |-> << >>]
           fast == [i \in 0 .. NFASTBINS - 1 |-> << >>]
           entries == [i \in 0 .. TCACHE_MAX_BINS - 1 |-> << >>]
<1>1. mem \in Mems
  <2>1. {} \in SUBSET Aligned /\ mem \in [{} -> Heads]
    OBVIOUS
  <2> HIDE DEF mem
  <2> QED BY <2>1, MemIs
<1>2. bins \in Bins /\ fast \in Fasts /\ entries \in Caches
      /\ (\A b \in 1 .. NBINS - 1 : bins[b] = << >>) /\ (\A i \in 0 .. NFASTBINS - 1 : fast[i] = << >>)
  <2>1. << >> \in Lists
    BY DEF Lists
  <2> QED BY <2>1 DEF Bins, Fasts, Caches
<1>3. mp \in Settled
  BY PtHeapAssumption DEF Parameters, Settled
<1>4. FirstBrk \in Aligned /\ 0 \in Aligned
  BY PtHeapAssumption, EvenSums DEF Aligned
<1>5. malloc_init_state(FirstBrk, mp) =
        [mem |-> mem, top |-> 0, last_remainder |-> NULL,
         bins |-> bins, binmap |-> {},
         fast |-> fast, have_fastchunks |-> FALSE,
         contiguous |-> TRUE, system_mem |-> 0, max_system_mem |-> 0,
         tcache |-> NULL, entries |-> entries, shutting_down |-> FALSE,
         mp |-> mp, brk |-> FirstBrk, maps |-> {}, soiled |-> {}, needless |-> FALSE, aborted |-> FALSE]
  BY DEF malloc_init_state
<1> DEFINE h == malloc_init_state(FirstBrk, mp)
<1> HIDE DEF mem, bins, fast, entries
<1>6. h \in Heaps /\ h.bins = bins /\ h.binmap = {} /\ h.fast = fast /\ h.mp = mp
  BY <1>1, <1>2, <1>3, <1>4, <1>5 DEF Heaps
<1> HIDE DEF h
<1>7. BinsAreMarked(bins, {}) /\ FastAreFlagged(fast, h.have_fastchunks) /\ FastAreSmall(fast, mp.max_fast)
  <2>1. \A b \in 2 .. NBINS - 1 : b \in 1 .. NBINS - 1
    OBVIOUS
  <2> QED BY <1>2, <2>1 DEF BinsAreMarked, FastAreFlagged, FastAreSmall
<1> QED BY <1>6, <1>7 DEF Good, h

(* The heap that a possible history leaves. *)
LEMMA HistoryKeeps ==
  ASSUME NEW mp \in Params, NEW history \in Histories
  PROVE  FoldLeft(After, [heap |-> malloc_init_state(FirstBrk, mp), objects |-> << >>], history)
           \in [heap : Good, objects : Objects]
<1> DEFINE start == [heap |-> malloc_init_state(FirstBrk, mp), objects |-> << >>]
           n == Len(history)
           it == CHOOSE f : CallsMade(f, start, history, n)
           I == [m \in 0 .. n |-> Ready(history, m)]
<1>1. history \in Seq(Int \ {0}) /\ Possible(history) /\ n \in Nat /\ DOMAIN history = 1 .. n
  BY PtHeapAssumption DEF Possible
<1>2. FoldLeft(After, start, history) = it[1 .. n]
  BY <1>1 DEF FoldLeft, MapThenFoldSet, CallsMade
<1>3. CallsMade(it, start, history, n)
  BY <1>1, CallsMadeExist
<1> HIDE DEF it
<1>4. \A s \in SUBSET (1 .. n) : it[s] = IF s = {} THEN start ELSE After(it[s \ {Max(s)}], history[Max(s)])
  BY <1>3 DEF CallsMade
<1>5. start \in Ready(history, 0)
  <2>1. Allocations(history, 0) = {}
    BY DEF Allocations
  <2>2. Cardinality(Allocations(history, 0)) = 0
    BY <2>1, FS_EmptySet
  <2>3. << >> \in Objects /\ Len(<< >>) = 0
    BY DEF Objects
  <2> QED BY <2>2, <2>3, FirstHeap DEF Ready
<1> HIDE DEF start
<1>6. ASSUME NEW m \in 1 .. n, it[1 .. (m - 1)] \in Ready(history, m - 1)
      PROVE  it[1 .. m] \in Ready(history, m)
  <2>1. /\ 1 .. m \in SUBSET (1 .. n) /\ 1 .. m # {}
        /\ Max(1 .. m) = m /\ (1 .. m) \ {m} = 1 .. (m - 1)
    BY <1>1, LastOfInterval
  <2>2. it[1 .. m] = After(it[(1 .. m) \ {Max(1 .. m)}], history[Max(1 .. m)])
    BY <1>4, <2>1
  <2>3. it[1 .. m] = After(it[1 .. (m - 1)], history[m])
    BY <2>1, <2>2, Zenon
  <2>4. m \in 1 .. Len(history)
    BY <1>1
  <2> QED BY <1>1, <1>6, <2>3, <2>4, AfterKeeps
<1>7. it[1 .. n] \in Ready(history, n)
  <2>1. it[{}] \in I[0]
    <3>1. it[{}] = start
      BY <1>4
    <3>2. 0 \in 0 .. n
      BY <1>1
    <3>3. I[0] = Ready(history, 0)
      BY <3>2
    <3> HIDE DEF I
    <3> QED BY <1>5, <3>1, <3>3
  <2>2. \A m \in 1 .. n : m \in 0 .. n /\ m - 1 \in 0 .. n
    BY <1>1
  <2>3. \A m \in 1 .. n : it[1 .. (m - 1)] \in I[m - 1] => it[1 .. m] \in I[m]
    BY <1>6, <2>2
  <2>4. I[n] = Ready(history, n)
    BY <1>1
  <2> HIDE DEF I
  <2> QED BY <1>1, <2>1, <2>3, <2>4, StepsEnd
<1> QED
  BY <1>2, <1>7 DEF Ready, start

-------------------------------------------------------------------------------
(* The program.                                                            *)

(* The heap is well formed, and what the client holds is aligned. *)
TypeOK ==
  /\ heap \in Good
  /\ DOMAIN held \in SUBSET Aligned /\ held \in [DOMAIN held -> Nat]
  /\ foreign \in SUBSET Int
  /\ calls \in 0 .. MaxCalls

(* The inductive invariant. *)
Inv == TypeOK /\ AlignedAsAsked

(* The client gets an object. *)
LEMMA HoldingKeeps ==
  ASSUME TypeOK, NEW p \in Aligned \union {NULL}, NEW bytes \in Nat
  PROVE  DOMAIN Holding(p, bytes) \in SUBSET Aligned /\ Holding(p, bytes) \in [DOMAIN Holding(p, bytes) -> Nat]
BY DEF Holding, TypeOK

(* The client frees one. *)
LEMMA WithoutKeeps ==
  ASSUME TypeOK, NEW p
  PROVE  DOMAIN Without(p) \in SUBSET Aligned /\ Without(p) \in [DOMAIN Without(p) -> Nat]
BY DEF Without, TypeOK

(* Calls are counted. *)
LEMMA CallKeeps ==
  ASSUME TypeOK, Call
  PROVE  calls' \in 0 .. MaxCalls
BY PtHeapAssumption DEF TypeOK, Call

(* A call leaves a well-formed heap. *)
LEMMA BecomesKeeps ==
  ASSUME TypeOK, NEW h \in Good, Becomes(h)
  PROVE  heap' \in Good /\ foreign' \in SUBSET Int
BY TouchedKeeps DEF TypeOK, Becomes

(* AlignedAsAsked is about memalign only. *)
LEMMA OtherCallsAlign ==
  ASSUME last'.op # "memalign"
  PROVE  AlignedAsAsked'
BY DEF AlignedAsAsked

(* One lemma for each action. *)
LEMMA MallocKeepsInv == ASSUME Inv, NEW bytes \in Sizes, Malloc(bytes) PROVE Inv'
<1>1. bytes \in Nat /\ heap \in Good
  BY PtHeapAssumption DEF Inv, TypeOK
<1>2. PICK a : /\ a = libc_malloc(heap, bytes) /\ Becomes(a.h) /\ held' = Holding(a.p, bytes)
               /\ last' = [Nothing EXCEPT !.op = "malloc", !.p = a.p, !.need = bytes]
  BY DEF Malloc
<1>3. a.h \in Good /\ a.p \in Aligned \union {NULL}
  BY <1>1, <1>2, LibcMallocKeeps DEF Fine
<1>4. heap' \in Good /\ foreign' \in SUBSET Int
  BY <1>2, <1>3, BecomesKeeps DEF Inv
<1>5. DOMAIN held' \in SUBSET Aligned /\ held' \in [DOMAIN held' -> Nat]
  BY <1>1, <1>2, <1>3, HoldingKeeps DEF Inv
<1>6. calls' \in 0 .. MaxCalls
  BY CallKeeps DEF Malloc, Inv
<1>7. AlignedAsAsked'
  BY <1>2, OtherCallsAlign DEF Nothing
<1> QED BY <1>4, <1>5, <1>6, <1>7 DEF Inv, TypeOK

(* free, of an object the client holds. *)
LEMMA FreeKeepsInv == ASSUME Inv, NEW p \in DOMAIN held, Free(p) PROVE Inv'
<1>1. heap \in Good /\ p \in Aligned
  BY DEF Inv, TypeOK
<1>2. libc_free(heap, p) \in Good
  BY <1>1, LibcFreeKeeps
<1>3. heap' \in Good /\ foreign' \in SUBSET Int
  BY <1>2, BecomesKeeps DEF Inv, Free
<1>4. DOMAIN held' \in SUBSET Aligned /\ held' \in [DOMAIN held' -> Nat]
  BY WithoutKeeps DEF Inv, Free
<1>5. calls' \in 0 .. MaxCalls
  BY CallKeeps DEF Free, Inv
<1>6. AlignedAsAsked'
  BY OtherCallsAlign DEF Nothing, Free
<1> QED BY <1>3, <1>4, <1>5, <1>6 DEF Inv, TypeOK

(* realloc, which may move, free or refuse. *)
LEMMA ReallocKeepsInv ==
  ASSUME Inv, NEW p \in DOMAIN held, NEW bytes \in Sizes \union {0}, Realloc(p, bytes)
  PROVE  Inv'
<1>1. bytes \in Nat /\ heap \in Good /\ p \in Aligned
  BY PtHeapAssumption DEF Inv, TypeOK
<1>2. PICK a :
        /\ a = libc_realloc(heap, p, bytes) /\ Becomes(a.h)
        /\ held' = IF a.p = NULL /\ bytes # 0 THEN held
                   ELSE [q \in (DOMAIN held \ {p}) \union ({a.p} \ {NULL}) |-> IF q = a.p THEN bytes ELSE held[q]]
        /\ last'.op = "realloc"
  BY DEF Realloc, Nothing
<1>3. a.h \in Good /\ a.p \in Aligned \union {NULL}
  BY <1>1, <1>2, LibcReallocKeeps DEF Fine
<1>4. heap' \in Good /\ foreign' \in SUBSET Int
  BY <1>2, <1>3, BecomesKeeps DEF Inv
<1>5. DOMAIN held' \in SUBSET Aligned /\ held' \in [DOMAIN held' -> Nat]
  BY <1>1, <1>2, <1>3 DEF Inv, TypeOK
<1>6. calls' \in 0 .. MaxCalls
  BY CallKeeps DEF Realloc, Inv
<1>7. AlignedAsAsked'
  BY <1>2, OtherCallsAlign
<1> QED BY <1>4, <1>5, <1>6, <1>7 DEF Inv, TypeOK

(* calloc. *)
LEMMA CallocKeepsInv == ASSUME Inv, NEW bytes \in FewSizes, Calloc(bytes) PROVE Inv'
<1>1. bytes \in Nat /\ heap \in Good
  BY PtHeapAssumption DEF Inv, TypeOK
<1>2. PICK a : /\ a = libc_calloc(heap, bytes) /\ Becomes(a.h) /\ held' = Holding(a.p, bytes)
               /\ last'.op = "calloc"
  BY DEF Calloc, Nothing
<1>3. a.h \in Good /\ a.p \in Aligned \union {NULL}
  BY <1>1, <1>2, CallocKeeps DEF Fine
<1>4. heap' \in Good /\ foreign' \in SUBSET Int
  BY <1>2, <1>3, BecomesKeeps DEF Inv
<1>5. DOMAIN held' \in SUBSET Aligned /\ held' \in [DOMAIN held' -> Nat]
  BY <1>1, <1>2, <1>3, HoldingKeeps DEF Inv
<1>6. calls' \in 0 .. MaxCalls
  BY CallKeeps DEF Calloc, Inv
<1>7. AlignedAsAsked'
  BY <1>2, OtherCallsAlign
<1> QED BY <1>4, <1>5, <1>6, <1>7 DEF Inv, TypeOK

(* memalign and pvalloc answer with an aligned object. *)
LEMMA AlignedCallsAlign ==
  ASSUME NEW p, NEW a, AlignedTo(p, a), last' = [Nothing EXCEPT !.op = "memalign", !.p = p, !.need = a]
  PROVE  AlignedAsAsked'
<1>1. last'.p = p /\ last'.need = a
  BY DEF Nothing
<1> QED BY <1>1 DEF AlignedAsAsked, AlignedTo

(* memalign, with each alignment that is allowed. *)
LEMMA MemalignKeepsInv ==
  ASSUME Inv, NEW alignment \in Alignments, NEW bytes \in FewSizes, Memalign(alignment, bytes)
  PROVE  Inv'
<1>1. bytes \in Nat /\ heap \in Good /\ alignment \in {1, 2} \union Powers
  BY PtHeapAssumption DEF Inv, TypeOK
<1>2. PICK a : /\ a = libc_memalign(heap, alignment, bytes) /\ Becomes(a.h) /\ held' = Holding(a.p, bytes)
               /\ last' = [Nothing EXCEPT !.op = "memalign", !.p = a.p, !.need = alignment]
  BY DEF Memalign
<1>3. Fine(a) /\ AlignedTo(a.p, alignment)
  BY <1>1, <1>2, LibcMemalignKeeps
<1>4. a.h \in Good /\ a.p \in Aligned \union {NULL}
  BY <1>3 DEF Fine
<1>5. heap' \in Good /\ foreign' \in SUBSET Int
  BY <1>2, <1>4, BecomesKeeps DEF Inv
<1>6. DOMAIN held' \in SUBSET Aligned /\ held' \in [DOMAIN held' -> Nat]
  BY <1>1, <1>2, <1>4, HoldingKeeps DEF Inv
<1>7. calls' \in 0 .. MaxCalls
  BY CallKeeps DEF Memalign, Inv
<1>8. AlignedAsAsked'
  BY <1>2, <1>3, AlignedCallsAlign
<1> QED BY <1>5, <1>6, <1>7, <1>8 DEF Inv, TypeOK

(* pvalloc. *)
LEMMA PvallocKeepsInv == ASSUME Inv, NEW bytes \in FewSizes, Pvalloc(bytes) PROVE Inv'
<1>1. bytes \in Nat /\ heap \in Good
  BY PtHeapAssumption DEF Inv, TypeOK
<1>2. PICK a : /\ a = libc_pvalloc(heap, bytes) /\ Becomes(a.h) /\ held' = Holding(a.p, bytes)
               /\ last' = [Nothing EXCEPT !.op = "memalign", !.p = a.p, !.need = PageSize]
  BY DEF Pvalloc
<1>3. Fine(a) /\ AlignedTo(a.p, PageSize)
  BY <1>1, <1>2, PvallocKeeps
<1>4. a.h \in Good /\ a.p \in Aligned \union {NULL}
  BY <1>3 DEF Fine
<1>5. heap' \in Good /\ foreign' \in SUBSET Int
  BY <1>2, <1>4, BecomesKeeps DEF Inv
<1>6. DOMAIN held' \in SUBSET Aligned /\ held' \in [DOMAIN held' -> Nat]
  BY <1>1, <1>2, <1>4, HoldingKeeps DEF Inv
<1>7. calls' \in 0 .. MaxCalls
  BY CallKeeps DEF Pvalloc, Inv
<1>8. AlignedAsAsked'
  BY <1>2, <1>3, AlignedCallsAlign
<1> QED BY <1>5, <1>6, <1>7, <1>8 DEF Inv, TypeOK

(* malloc_trim. *)
LEMMA TrimKeepsInv == ASSUME Inv, NEW pad \in Pads, MallocTrim(pad) PROVE Inv'
<1>1. pad \in Nat /\ heap \in Good
  BY PtHeapAssumption DEF Inv, TypeOK
<1>2. PICK a : a = mtrim(heap, pad) /\ Becomes(a.h) /\ held' = held /\ last'.op = "trim"
  BY DEF MallocTrim, Nothing
<1>3. a.h \in Good
  BY <1>1, <1>2, TrimKeeps
<1>4. heap' \in Good /\ foreign' \in SUBSET Int
  BY <1>2, <1>3, BecomesKeeps DEF Inv
<1>5. calls' \in 0 .. MaxCalls
  BY CallKeeps DEF MallocTrim, Inv
<1>6. AlignedAsAsked'
  BY <1>2, OtherCallsAlign
<1> QED BY <1>2, <1>4, <1>5, <1>6 DEF Inv, TypeOK

(* mallopt. *)
LEMMA MalloptKeepsInv == ASSUME Inv, NEW setting \in Settings, Mallopt(setting) PROVE Inv'
<1>1. setting[1] \in Tunables /\ setting[2] \in 0 .. PTRDIFF_MAX /\ heap \in Good
  BY PtHeapAssumption DEF Inv, TypeOK
<1>2. libc_mallopt(heap, setting[1], setting[2]) \in Good
  BY <1>1, MalloptKeeps
<1>3. heap' \in Good /\ foreign' \in SUBSET Int
  BY <1>2, BecomesKeeps DEF Inv, Mallopt
<1>4. calls' \in 0 .. MaxCalls
  BY CallKeeps DEF Mallopt, Inv
<1>5. AlignedAsAsked'
  BY OtherCallsAlign DEF Nothing, Mallopt
<1> QED BY <1>3, <1>4, <1>5 DEF Inv, TypeOK, Mallopt

(* The thread ends. *)
LEMMA ShutdownKeepsInv == ASSUME Inv, ThreadShutdown PROVE Inv'
<1>1. tcache_thread_shutdown(heap) \in Good
  BY ShutdownKeeps DEF Inv, TypeOK
<1>2. heap' \in Good /\ foreign' \in SUBSET Int
  BY <1>1, BecomesKeeps DEF Inv, ThreadShutdown
<1>3. calls' \in 0 .. MaxCalls
  BY CallKeeps DEF ThreadShutdown, Inv
<1>4. AlignedAsAsked'
  BY OtherCallsAlign DEF Nothing, ThreadShutdown
<1> QED BY <1>2, <1>3, <1>4 DEF Inv, TypeOK, ThreadShutdown

(* Others move the break. *)
LEMMA ForeignKeepsInv == ASSUME Inv, NEW n \in ForeignSizes, ForeignSbrk(n) PROVE Inv'
<1>1. heap \in Good /\ heap.brk \in Aligned /\ n \in Aligned
  BY PtHeapAssumption DEF Inv, TypeOK, Good, Heaps, Aligned
<1>2. heap.brk + n \in Aligned /\ heap.brk \in Int /\ n \in Int
  BY <1>1, EvenSums DEF Aligned
<1>3. heap' = [heap EXCEPT !.brk = heap.brk + n]
  BY DEF ForeignSbrk
<1>4. heap' \in Good
  BY <1>1, <1>2, <1>3, OtherFields
<1>5. foreign' \in SUBSET Int
  BY <1>2 DEF ForeignSbrk, Region, Inv, TypeOK
<1>6. calls' \in 0 .. MaxCalls
  BY CallKeeps DEF ForeignSbrk, Inv
<1>7. AlignedAsAsked'
  BY OtherCallsAlign DEF Nothing, ForeignSbrk
<1> QED BY <1>4, <1>5, <1>6, <1>7 DEF Inv, TypeOK, ForeignSbrk

(* The heap of every possible history is well formed. *)
LEMMA InvStarts == Init => Inv
<1> SUFFICES ASSUME Init PROVE Inv
  OBVIOUS
<1> DEFINE Left(s) ==
      LET kept == {o \in ToSet(s.objects) : o[1] # NULL}
      IN /\ heap = s.heap
         /\ held = [p \in {o[1] : o \in kept} |-> CHOOSE n \in {o[2] : o \in kept} : <<p, n>> \in kept]
<1>0. PICK mp \in Params, history \in Histories :
        \E s \in {FoldLeft(After, [heap |-> malloc_init_state(FirstBrk, mp), objects |-> <<>>], history)} : Left(s)
  BY DEF Init
<1>1. PICK s : s = FoldLeft(After, [heap |-> malloc_init_state(FirstBrk, mp), objects |-> <<>>], history) /\ Left(s)
  BY <1>0
<1>2. s \in [heap : Good, objects : Objects]
  BY <1>1, HistoryKeeps
<1> DEFINE kept == {o \in ToSet(s.objects) : o[1] # NULL}
<1>3. kept \in SUBSET (Aligned \X Nat)
  <2>1. s.objects \in Seq((Aligned \union {NULL}) \X Nat)
    BY <1>2 DEF Objects
  <2>2. ToSet(s.objects) \in SUBSET ((Aligned \union {NULL}) \X Nat)
    BY <2>1 DEF ToSet
  <2> QED BY <2>2
<1>4. heap = s.heap /\ held = [p \in {o[1] : o \in kept} |-> CHOOSE n \in {o[2] : o \in kept} : <<p, n>> \in kept]
  BY <1>1
<1> HIDE DEF kept
<1>5. \A p \in {o[1] : o \in kept} : p \in Aligned /\ \E n \in {o[2] : o \in kept} : <<p, n>> \in kept
  <2> SUFFICES ASSUME NEW o \in kept
               PROVE  o[1] \in Aligned /\ \E n \in {x[2] : x \in kept} : <<o[1], n>> \in kept
    OBVIOUS
  <2>1. o[1] \in Aligned /\ o = <<o[1], o[2]>>
    BY <1>3
  <2> QED BY <2>1
<1>6. {o[2] : o \in kept} \in SUBSET Nat
  BY <1>3
<1>7. \A p \in {o[1] : o \in kept} : (CHOOSE n \in {o[2] : o \in kept} : <<p, n>> \in kept) \in Nat
  BY <1>5, <1>6
<1>8. DOMAIN held \in SUBSET Aligned /\ held \in [DOMAIN held -> Nat]
  BY <1>4, <1>5, <1>7
<1>9. foreign \in SUBSET Int /\ calls \in 0 .. MaxCalls /\ last.op # "memalign"
  BY PtHeapAssumption DEF Init, Nothing
<1> QED
  BY <1>2, <1>4, <1>8, <1>9 DEF Inv, TypeOK, AlignedAsAsked

(* Every call keeps it so. *)
LEMMA InvIsInductive == Inv /\ [Next]_vars => Inv'
<1> SUFFICES ASSUME Inv, [Next]_vars PROVE Inv'
  OBVIOUS
<1>1. ASSUME UNCHANGED vars PROVE Inv'
  BY <1>1 DEF vars, Inv, TypeOK, AlignedAsAsked
<1> QED
  BY <1>1, MallocKeepsInv, FreeKeepsInv, ReallocKeepsInv, CallocKeepsInv, MemalignKeepsInv, PvallocKeepsInv,
     TrimKeepsInv, MalloptKeepsInv, ShutdownKeepsInv, ForeignKeepsInv DEF Next

(* Every address and size in the headers, the lists, the cache and the     *)
(* client's hands stays aligned, all fields keep their types, and the marks*)
(* of Good hold after every call, whatever the calls before (the macros of *)
(* malloc-impl.c assume it of each other).                                 *)
THEOREM HeapIsWellFormed == Spec => []Inv
BY InvStarts, InvIsInductive, PTL DEF Spec

(* The objects of memalign, aligned_alloc, valloc and pvalloc are aligned  *)
(* as asked, wherever the chunk was cut from: a list, top, a mapping, the  *)
(* middle of a chunk (_int_memalign, malloc-impl.c:4915).                  *)
THEOREM MemalignAligns == Spec => []AlignedAsAsked
<1>1. Inv => AlignedAsAsked
  BY DEF Inv
<1> QED BY <1>1, HeapIsWellFormed, PTL

(* The client's objects are aligned to MALLOC_ALIGNMENT. *)
ObjectsAligned == \A p \in DOMAIN held : (p + CHUNK_HDR_SZ) % MALLOC_ALIGNMENT = 0

(* So are all that malloc, realloc and calloc return (chunk2mem), and they *)
(* stay so.                                                                *)
THEOREM ObjectsAreAligned == Spec => []ObjectsAligned
<1>1. Inv => ObjectsAligned
  BY DEF Inv, TypeOK, ObjectsAligned, Aligned, CHUNK_HDR_SZ, MALLOC_ALIGNMENT, SIZE_SZ
<1> QED BY <1>1, HeapIsWellFormed, PTL

(* A bin that is not empty is marked. *)
NoBinIsHidden == \A b \in DOMAIN heap.bins : IsMarked(heap, b)

(* _int_malloc looks only at marked bins and clears marks as it goes: it   *)
(* clears none of a bin that has a chunk, so no free chunk is passed over  *)
(* (the scan: malloc-impl.c:4208; "binmap is accurate": 2331).             *)
THEOREM BinmapHasNoHole == Spec => []NoBinIsHidden
<1>1. Inv => NoBinIsHidden
  <2> SUFFICES ASSUME Inv, NEW b \in DOMAIN heap.bins PROVE IsMarked(heap, b)
    BY DEF NoBinIsHidden
  <2>1. heap.bins \in [1 .. NBINS - 1 -> Lists] /\ BinsAreMarked(heap.bins, heap.binmap)
    BY DEF Inv, TypeOK, Good, Heaps, Bins
  <2>2. b \in 1 .. NBINS - 1
    BY <2>1
  <2> QED BY <2>1, <2>2, PtAssumption DEF IsMarked, BinsAreMarked
<1> QED BY <1>1, HeapIsWellFormed, PTL

(* A fast chunk is in a fastbin that is searched, and the flag says so. *)
NoFastChunkIsHidden ==
  /\ heap.mp.max_fast <= request2size(MAX_FAST_SIZE)
  /\ \A i \in DOMAIN heap.fast :
       TooLargeIsEmpty(heap, i) /\ (heap.fast[i] # <<>> => heap.have_fastchunks)

(* have_fastchunks is never down while there is a fast chunk, and no       *)
(* fastbin above max_fast has one, mallopt or not: no chunk is left where  *)
(* malloc_consolidate and _int_malloc do not look (set_max_fast, and the   *)
(* stores of the flag: malloc-impl.c:1765, 4479, 4682).                    *)
THEOREM FastChunksAreSeen == Spec => []NoFastChunkIsHidden
<1>1. Inv => NoFastChunkIsHidden
  <2> SUFFICES ASSUME Inv PROVE NoFastChunkIsHidden
    OBVIOUS
  <2>1. /\ heap.fast \in [0 .. NFASTBINS - 1 -> Lists]
        /\ FastAreSmall(heap.fast, heap.mp.max_fast) /\ FastAreFlagged(heap.fast, heap.have_fastchunks)
        /\ heap.mp \in Settled
    BY DEF Inv, TypeOK, Good, Heaps, Fasts
  <2>2. heap.mp.max_fast <= request2size(MAX_FAST_SIZE)
    <3>1. request2size(MAX_FAST_SIZE) \in Int
      BY RequestIsChunky, PtAssumption DEF Chunky, Aligned
    <3> QED BY <2>1, <3>1 DEF Settled
  <2>3. ASSUME NEW i \in DOMAIN heap.fast
        PROVE  TooLargeIsEmpty(heap, i) /\ (heap.fast[i] # <<>> => heap.have_fastchunks)
    BY <2>1 DEF TooLargeIsEmpty, FastAreSmall, FastAreFlagged
  <2> QED BY <2>2, <2>3 DEF NoFastChunkIsHidden
<1> QED BY <1>1, HeapIsWellFormed, PTL

-----------------------------------------------------------------------------
(* The layout of the memory: the chunks tile the words that the kernel     *)
(* gave, and each chunk is in one place, a list, top, or the hand of       *)
(* whoever works on it.  How it survives, from unlink_chunk and            *)
(* malloc_consolidate to systrim and _int_free.  A failed check ends the   *)
(* program, so that all is said of a heap in which none has failed.        *)

-----------------------------------------------------------------------------
(* Chunks of the memory: their shapes, and how they are cut and joined. *)

(* The layout of the memory.  Its shape: what a header says of where a     *)
(* chunk is; the words before the chunk of a mapping are of the chunk.     *)
ShapeOf(head) ==
  [size |-> head.size, mapped |-> head.mmapped, off |-> IF head.mmapped THEN head.prev_size ELSE 0]
Shape(h) == [p \in DOMAIN h.mem |-> ShapeOf(h.mem[p])]
Plain(n) == [size |-> n, mapped |-> FALSE, off |-> 0]

(* x is a word of the chunk p. *)
Has(s, p, x) == p - s[p].off <= x /\ x < p + s[p].size

Sized(s) ==
  /\ DOMAIN s \in SUBSET Int
  /\ \A p \in DOMAIN s : /\ s[p].size \in Int /\ s[p].size > 0
                         /\ s[p].off \in Int /\ s[p].off >= 0
                         /\ ~s[p].mapped => s[p].off = 0

(* The words W are the words of the chunks, each of one chunk. *)
Tiles(s, W) ==
  /\ \A x \in Int : x \in W <=> \E p \in DOMAIN s : Has(s, p, x)
  /\ \A p, q \in DOMAIN s : \A x \in Int : Has(s, p, x) /\ Has(s, q, x) => p = q

(* A header follows each chunk of the heap but top and the fenceposts.     *)
Followed(s, p) == p + s[p].size \in DOMAIN s /\ ~s[p + s[p].size].mapped
Ends(s, top) == \A p \in DOMAIN s : (~s[p].mapped /\ p # top /\ s[p].size >= MINSIZE) => Followed(s, p)

(* C is where the interval from a to z is; then D is.                      *)
Covers(s, C, a, z) == \A x \in Int : x \in a .. z - 1 <=> \E p \in C : Has(s, p, x)
Apart(s, C) == \A p, q \in C : \A x \in Int : Has(s, p, x) /\ Has(s, q, x) => p = q

(* The chunks C of an interval are cut anew, into the chunks D.            *)
LEMMA Recut ==
  ASSUME NEW s, NEW r, NEW W, NEW C, NEW D, NEW a \in Int, NEW z \in Int, NEW top, NEW new,
         Sized(s), Tiles(s, W), Ends(s, top),
         C \subseteq DOMAIN s, D \in SUBSET Int, DOMAIN r = (DOMAIN s \ C) \union D,
         \A p \in DOMAIN s \ C : r[p] = s[p],
         \A p \in C : ~s[p].mapped,
         \A p \in D : \E n \in Int : n > 0 /\ r[p] = Plain(n),
         Covers(s, C, a, z), Covers(r, D, a, z), Apart(r, D), a \in D,
         \A p \in D : p # new /\ r[p].size >= MINSIZE => Followed(r, p),
         new = top \/ top \in C
  PROVE  Sized(r) /\ Tiles(r, W) /\ Ends(r, new)
<1>1. \A p \in D : r[p].size \in Int /\ r[p].size > 0 /\ r[p].off = 0 /\ ~r[p].mapped
  BY DEF Plain
<1>2. Sized(r)
  <2>1. DOMAIN r \in SUBSET Int
    BY DEF Sized
  <2>2. ASSUME NEW p \in DOMAIN r
        PROVE  /\ r[p].size \in Int /\ r[p].size > 0 /\ r[p].off \in Int /\ r[p].off >= 0
               /\ (~r[p].mapped => r[p].off = 0)
    <3>1. CASE p \in D
      <4>1. r[p].size \in Int /\ r[p].size > 0 /\ r[p].off = 0
        BY <1>1, <3>1
      <4> QED BY <4>1
    <3>2. CASE p \notin D
      <4>1. p \in DOMAIN s \ C /\ r[p] = s[p]
        BY <3>2
      <4> QED BY <4>1 DEF Sized
    <3> QED BY <3>1, <3>2
  <2> QED BY <2>1, <2>2 DEF Sized
<1>3. \A p \in DOMAIN s \ C : \A x \in Int : Has(r, p, x) <=> Has(s, p, x)
  BY DEF Has
<1>4. \A p \in DOMAIN s \ C : \A x \in Int : Has(s, p, x) => x \notin a .. z - 1
  BY DEF Covers, Tiles
<1>5. Tiles(r, W)
  <2>1. ASSUME NEW x \in Int PROVE x \in W <=> \E p \in DOMAIN r : Has(r, p, x)
    <3>1. CASE x \in a .. z - 1
      BY <3>1 DEF Covers, Tiles
    <3>2. CASE x \notin a .. z - 1
      BY <3>2, <1>3 DEF Covers, Tiles
    <3> QED BY <3>1, <3>2
  <2>2. ASSUME NEW p \in DOMAIN r, NEW q \in DOMAIN r, NEW x \in Int, Has(r, p, x), Has(r, q, x) PROVE p = q
    <3>1. CASE x \in a .. z - 1
      <4>1. p \in D /\ q \in D
        BY <3>1, <2>2, <1>3, <1>4
      <4> QED BY <4>1, <2>2 DEF Apart
    <3>2. CASE x \notin a .. z - 1
      <4>1. p \in DOMAIN s \ C /\ q \in DOMAIN s \ C
        BY <3>2, <2>2 DEF Covers
      <4> QED BY <4>1, <2>2, <1>3 DEF Tiles
    <3> QED BY <3>1, <3>2
  <2> QED BY <2>1, <2>2 DEF Tiles
<1>6. Ends(r, new)
  <2> SUFFICES ASSUME NEW p \in DOMAIN r, ~r[p].mapped, p # new, r[p].size >= MINSIZE PROVE Followed(r, p)
    BY DEF Ends
  <2>1. CASE p \in D
    BY <2>1
  <2>2. CASE p \notin D
    <3>1. p \in DOMAIN s \ C /\ r[p] = s[p] /\ p # top
      BY <2>2
    <3>2. Followed(s, p)
      BY <3>1 DEF Ends
    <3> DEFINE e == p + s[p].size
    <3>3. e \in DOMAIN s /\ ~s[e].mapped /\ e \in Int /\ e - 1 \in Int
      BY <3>1, <3>2 DEF Followed, Sized
    <3>4. CASE e \notin C
      <4>1. e \in DOMAIN r /\ r[e] = s[e]
        BY <3>3, <3>4
      <4> QED BY <3>1, <3>3, <4>1 DEF Followed
    <3>5. CASE e \in C
      <4>1. Has(s, e, e) /\ Has(s, p, e - 1) /\ ~Has(s, p, e)
        BY <3>1, <3>3 DEF Has, Sized
      <4>2. e \in a .. z - 1 /\ e - 1 \notin a .. z - 1
        BY <3>1, <3>3, <3>5, <4>1, <1>4 DEF Covers
      <4>3. e = a
        BY <4>2, <3>3
      <4> QED BY <3>1, <4>3, <1>1 DEF Followed
    <3> QED BY <3>4, <3>5
  <2> QED BY <2>1, <2>2
<1> QED BY <1>2, <1>5, <1>6

(* The words of a chunk of shape v at p. *)
Words(p, v) == {x \in Int : p - v.off <= x /\ x < p + v.size}

(* The chunks but one are what they were. *)
ButAt(r, s, p) == \A q \in DOMAIN s \ {p} : r[q] = s[q]

(* A chunk of words that were of none. *)
LEMMA Lay ==
  ASSUME NEW s, NEW r, NEW W, NEW p \in Int, NEW top, NEW new,
         Sized(s), Tiles(s, W), Ends(s, top),
         DOMAIN r = DOMAIN s \union {p}, ButAt(r, s, p),
         r[p].size \in Int, r[p].size > 0, r[p].off \in Int, r[p].off >= 0,
         ~r[p].mapped => r[p].off = 0,
         Words(p, r[p]) \cap W = {},
         new = top \/ top \notin DOMAIN s, r[p].mapped \/ new = p
  PROVE  p \notin DOMAIN s /\ Sized(r) /\ Tiles(r, W \union Words(p, r[p])) /\ Ends(r, new)
<1> DEFINE A == Words(p, r[p])
<1>1. \A x \in Int : x \in A <=> Has(r, p, x)
  BY DEF Words, Has
<1>2. p \notin DOMAIN s
  <2>1. p \in A
    BY <1>1 DEF Has
  <2>2. p \in DOMAIN s => Has(s, p, p)
    BY DEF Sized, Has
  <2> QED BY <2>1, <2>2 DEF Tiles
<1>3. \A q \in DOMAIN s : q # p /\ r[q] = s[q] /\ \A x \in Int : Has(r, q, x) <=> Has(s, q, x)
  BY <1>2 DEF Has, ButAt
<1>4. Sized(r)
  <2>1. DOMAIN r \in SUBSET Int
    BY DEF Sized
  <2>2. ASSUME NEW q \in DOMAIN r
        PROVE  /\ r[q].size \in Int /\ r[q].size > 0 /\ r[q].off \in Int /\ r[q].off >= 0
               /\ (~r[q].mapped => r[q].off = 0)
    <3>1. CASE q = p
      BY <3>1
    <3>2. CASE q # p
      <4>1. q \in DOMAIN s /\ r[q] = s[q]
        BY <3>2, <1>3
      <4> QED BY <4>1 DEF Sized
    <3> QED BY <3>1, <3>2
  <2> QED BY <2>1, <2>2 DEF Sized
<1>5. Tiles(r, W \union A)
  <2> HIDE DEF A
  <2>1. ASSUME NEW x \in Int PROVE x \in W \union A <=> \E q \in DOMAIN r : Has(r, q, x)
    BY <1>1, <1>3 DEF Tiles
  <2>2. ASSUME NEW x \in Int PROVE x \in A => \A q \in DOMAIN s : ~Has(r, q, x)
    BY <1>1, <1>3 DEF Tiles, A
  <2>3. ASSUME NEW q1 \in DOMAIN r, NEW q2 \in DOMAIN r, NEW x \in Int, Has(r, q1, x), Has(r, q2, x)
        PROVE  q1 = q2
    BY <2>2, <2>3, <1>1, <1>3 DEF Tiles
  <2> QED BY <2>1, <2>3 DEF Tiles
<1>6. Ends(r, new)
  <2> SUFFICES ASSUME NEW q \in DOMAIN r, ~r[q].mapped, q # new, r[q].size >= MINSIZE PROVE Followed(r, q)
    BY DEF Ends
  <2>1. q # p /\ q \in DOMAIN s /\ r[q] = s[q] /\ q # top
    BY <1>3
  <2>2. Followed(s, q)
    BY <2>1 DEF Ends
  <2> QED BY <2>1, <2>2, <1>3 DEF Followed
<1> QED BY <1>2, <1>4, <1>5, <1>6 DEF A

(* The chunk of a mapping is given up. *)
LEMMA Lift ==
  ASSUME NEW s, NEW r, NEW W, NEW p \in DOMAIN s, NEW top,
         Sized(s), Tiles(s, W), Ends(s, top), s[p].mapped,
         DOMAIN r = DOMAIN s \ {p}, ButAt(r, s, p)
  PROVE  Sized(r) /\ Tiles(r, W \ Words(p, s[p])) /\ Ends(r, top)
<1> DEFINE A == Words(p, s[p])
<1>1. \A x \in Int : x \in A <=> Has(s, p, x)
  BY DEF Words, Has
<1>3. \A q \in DOMAIN r : q # p /\ q \in DOMAIN s /\ r[q] = s[q] /\ \A x \in Int : Has(r, q, x) <=> Has(s, q, x)
  BY DEF Has, ButAt
<1>4. Sized(r)
  <2>1. DOMAIN r \in SUBSET Int
    BY DEF Sized
  <2> QED BY <2>1, <1>3 DEF Sized
<1>5. Tiles(r, W \ A)
  <2> HIDE DEF A
  <2>1. ASSUME NEW x \in Int PROVE x \in W \ A <=> \E q \in DOMAIN r : Has(r, q, x)
    <3>1. CASE x \in A
      <4>1. \A q \in DOMAIN r : ~Has(s, q, x)
        BY <3>1, <1>1, <1>3 DEF Tiles
      <4> QED BY <3>1, <4>1, <1>3
    <3>2. CASE x \notin A
      BY <3>2, <1>1, <1>3 DEF Tiles
    <3> QED BY <3>1, <3>2
  <2>3. ASSUME NEW q1 \in DOMAIN r, NEW q2 \in DOMAIN r, NEW x \in Int, Has(r, q1, x), Has(r, q2, x)
        PROVE  q1 = q2
    BY <2>3, <1>3 DEF Tiles
  <2> QED BY <2>1, <2>3 DEF Tiles
<1>6. Ends(r, top)
  <2> SUFFICES ASSUME NEW q \in DOMAIN r, ~r[q].mapped, q # top, r[q].size >= MINSIZE PROVE Followed(r, q)
    BY DEF Ends
  <2>1. q \in DOMAIN s /\ r[q] = s[q]
    BY <1>3
  <2>2. Followed(s, q)
    BY <2>1 DEF Ends
  <2>3. q + s[q].size \in DOMAIN s \ {p}
    BY <2>2 DEF Followed
  <2> QED BY <2>1, <2>2, <2>3, <1>3 DEF Followed
<1> QED BY <1>4, <1>5, <1>6 DEF A

(* Top is made longer or shorter at its end. *)
LEMMA Stretch ==
  ASSUME NEW s, NEW r, NEW W, NEW V, NEW p \in DOMAIN s, NEW n \in Int,
         Sized(s), Tiles(s, W), Ends(s, p), ~s[p].mapped,
         DOMAIN r = DOMAIN s, ButAt(r, s, p), r[p] = Plain(n), n > 0,
         \/ n >= s[p].size /\ V = W \union Region(p + s[p].size, n - s[p].size)
                          /\ W \cap Region(p + s[p].size, n - s[p].size) = {}
         \/ n <= s[p].size /\ V = W \ Region(p + n, s[p].size - n)
  PROVE  Sized(r) /\ Tiles(r, V) /\ Ends(r, p)
<1>1. r[p].size = n /\ r[p].off = 0 /\ ~r[p].mapped
  BY DEF Plain
<1>2. p \in Int /\ s[p].size \in Int /\ s[p].size > 0 /\ s[p].off = 0
  BY DEF Sized
<1>3. \A q \in DOMAIN s \ {p} : r[q] = s[q] /\ \A x \in Int : Has(r, q, x) <=> Has(s, q, x)
  BY DEF Has, ButAt
<1>4. \A x \in Int : /\ Has(s, p, x) <=> p <= x /\ x < p + s[p].size
                     /\ Has(r, p, x) <=> p <= x /\ x < p + n
  BY <1>1, <1>2 DEF Has
<1>5. Sized(r)
  BY <1>1, <1>2, <1>3 DEF Sized
<1>6. ASSUME NEW x \in Int, NEW q \in DOMAIN s \ {p}, Has(r, q, x) PROVE x \in V /\ ~Has(r, p, x)
  <2>1. x \in W /\ ~Has(s, p, x)
    BY <1>6, <1>3 DEF Tiles
  <2> QED BY <2>1, <1>2, <1>4 DEF Region
<1>7. ASSUME NEW x \in Int, Has(r, p, x) PROVE x \in V
  <2>1. Has(s, p, x) => x \in W
    BY DEF Tiles
  <2> QED BY <2>1, <1>2, <1>4, <1>7 DEF Region
<1>8. ASSUME NEW x \in Int, x \in V PROVE \E q \in DOMAIN r : Has(r, q, x)
  <2>1. CASE x \in W
    <3>1. PICK q \in DOMAIN s : Has(s, q, x)
      BY <2>1 DEF Tiles
    <3>2. CASE q # p
      BY <3>1, <3>2, <1>3
    <3>3. CASE q = p
      BY <3>1, <3>3, <1>8, <1>2, <1>4 DEF Region
    <3> QED BY <3>2, <3>3
  <2>2. CASE x \notin W
    BY <2>2, <1>8, <1>2, <1>4 DEF Region
  <2> QED BY <2>1, <2>2
<1>9. ASSUME NEW q1 \in DOMAIN r, NEW q2 \in DOMAIN r, NEW x \in Int, Has(r, q1, x), Has(r, q2, x)
      PROVE  q1 = q2
  BY <1>9, <1>3, <1>6 DEF Tiles
<1>10. Tiles(r, V)
  BY <1>6, <1>7, <1>8, <1>9 DEF Tiles
<1>11. Ends(r, p)
  <2> SUFFICES ASSUME NEW q \in DOMAIN r, ~r[q].mapped, q # p, r[q].size >= MINSIZE PROVE Followed(r, q)
    BY DEF Ends
  <2>1. q \in DOMAIN s /\ r[q] = s[q]
    BY <1>3
  <2>2. Followed(s, q)
    BY <2>1 DEF Ends
  <2> QED BY <2>1, <2>2, <1>1, <1>3 DEF Followed
<1> QED BY <1>5, <1>10, <1>11

(* Lists that hold each of their chunks once. *)
LEMMA PushedOnce ==
  ASSUME NEW A, NEW p \in A, NEW l \in Seq(A)
  PROVE  /\ <<p>> \o l \in Seq(A) /\ ToSet(<<p>> \o l) = {p} \union ToSet(l)
         /\ IsInjective(l) /\ p \notin ToSet(l) => IsInjective(<<p>> \o l)
<1> DEFINE n == Len(l)
           m == <<p>> \o l
<1>1. n \in Nat /\ DOMAIN l = 1 .. n
  OBVIOUS
<1>2. m \in Seq(A) /\ DOMAIN m = 1 .. n + 1 /\ m[1] = p /\ \A i \in 1 .. n : m[i + 1] = l[i]
  OBVIOUS
<1> HIDE DEF m
<1>3. \A i \in DOMAIN m : i = 1 \/ (i - 1 \in DOMAIN l /\ m[i] = l[i - 1])
  <2> SUFFICES ASSUME NEW i \in 1 .. n + 1, i # 1 PROVE i - 1 \in 1 .. n /\ m[i] = l[i - 1]
    BY <1>1, <1>2
  <2>1. i - 1 \in 1 .. n /\ (i - 1) + 1 = i
    BY <1>1
  <2> QED BY <2>1, <1>2
<1>4. \A i \in DOMAIN l : i + 1 \in DOMAIN m /\ m[i + 1] = l[i]
  BY <1>1, <1>2
<1>5. 1 \in DOMAIN m
  BY <1>1, <1>2
<1>6. ToSet(m) = {p} \union ToSet(l)
  <2>1. ASSUME NEW i \in DOMAIN m PROVE m[i] \in {p} \union ToSet(l)
    BY <1>2, <1>3 DEF ToSet
  <2>2. p \in ToSet(m) /\ \A i \in DOMAIN l : l[i] \in ToSet(m)
    BY <1>2, <1>4, <1>5 DEF ToSet
  <2> QED BY <2>1, <2>2 DEF ToSet
<1>7. ASSUME IsInjective(l), p \notin ToSet(l) PROVE IsInjective(m)
  <2> SUFFICES ASSUME NEW i \in DOMAIN m, NEW j \in DOMAIN m, m[i] = m[j] PROVE i = j
    BY DEF IsInjective
  <2>1. i \in Int /\ j \in Int
    BY <1>1, <1>2
  <2>2. CASE i = 1 \/ j = 1
    BY <2>2, <1>2, <1>3, <1>7 DEF ToSet
  <2>3. CASE i # 1 /\ j # 1
    <3>1. i - 1 = j - 1
      BY <2>3, <1>3, <1>7 DEF IsInjective
    <3> QED BY <2>1, <3>1
  <2> QED BY <2>2, <2>3
<1> QED BY <1>2, <1>6, <1>7 DEF m

(* Without one of its elements. *)
LEMMA RemovedOnce ==
  ASSUME NEW A, NEW l \in Seq(A), NEW p, IsInjective(l)
  PROVE  IsInjective(RemoveFirst(l, p)) /\ ToSet(RemoveFirst(l, p)) = ToSet(l) \ {p}
<1> DEFINE n == Len(l)
           m == RemoveFirst(l, p)
<1>1. n \in Nat /\ DOMAIN l = 1 .. n
  OBVIOUS
<1>2. CASE ~Contains(l, p)
  <2>1. m = l
    BY <1>2, RemoveFirstIs
  <2>2. p \notin ToSet(l)
    BY <1>1, <1>2 DEF Contains, ToSet
  <2> QED BY <2>1, <2>2
<1>3. CASE Contains(l, p)
  <2>1. PICK k \in 1 .. n : l[k] = p /\ m = RemoveAt(l, k)
    BY <1>3, RemoveFirstIs
  <2> HIDE DEF m
  <2>2. m \in Seq(A) /\ Len(m) = n - 1 /\ \A j \in 1 .. n - 1 : m[j] = IF j < k THEN l[j] ELSE l[j + 1]
    BY <2>1, RemovedAt
  <2>3. DOMAIN m = 1 .. n - 1
    BY <2>2
  <2>4. \A j \in DOMAIN m : \E i \in DOMAIN l : i # k /\ m[j] = l[i] /\ i = (IF j < k THEN j ELSE j + 1)
    <3> SUFFICES ASSUME NEW j \in 1 .. n - 1
                 PROVE  \E i \in 1 .. n : i # k /\ m[j] = l[i] /\ i = (IF j < k THEN j ELSE j + 1)
      BY <2>3, <1>1
    <3>1. (IF j < k THEN j ELSE j + 1) \in 1 .. n /\ (IF j < k THEN j ELSE j + 1) # k
      BY <1>1, <2>1
    <3> QED BY <3>1, <2>2
  <2>5. \A i \in DOMAIN l : i # k => \E j \in DOMAIN m : m[j] = l[i]
    <3> SUFFICES ASSUME NEW i \in 1 .. n, i # k PROVE \E j \in 1 .. n - 1 : m[j] = l[i]
      BY <2>3, <1>1
    <3>1. CASE i < k
      <4>1. i \in 1 .. n - 1
        BY <3>1, <1>1, <2>1
      <4> QED BY <3>1, <4>1, <2>2
    <3>2. CASE i > k
      <4>1. i - 1 \in 1 .. n - 1 /\ ~(i - 1 < k) /\ (i - 1) + 1 = i
        BY <3>2, <1>1, <2>1
      <4> QED BY <4>1, <2>2
    <3> QED BY <3>1, <3>2, <2>1
  <2>6. ToSet(m) = ToSet(l) \ {p}
    <3>1. \A i \in DOMAIN l : l[i] = p => i = k
      BY <2>1, <1>1 DEF IsInjective
    <3>2. ASSUME NEW x PROVE x \in ToSet(m) => x \in ToSet(l) \ {p}
      BY <2>4, <3>1 DEF ToSet
    <3>3. ASSUME NEW x PROVE x \in ToSet(l) \ {p} => x \in ToSet(m)
      BY <2>5, <2>1 DEF ToSet
    <3> QED BY <3>2, <3>3
  <2>7. IsInjective(m)
    <3> SUFFICES ASSUME NEW i \in DOMAIN m, NEW j \in DOMAIN m, m[i] = m[j] PROVE i = j
      BY DEF IsInjective
    <3>1. i \in Int /\ j \in Int
      BY <2>3
    <3>2. (IF i < k THEN i ELSE i + 1) = (IF j < k THEN j ELSE j + 1)
      BY <2>4 DEF IsInjective
    <3> QED BY <3>1, <3>2, <2>1
  <2> QED BY <2>6, <2>7 DEF m
<1> QED BY <1>2, <1>3

(* Elements of one list at indices of their own. *)
LEMMA Reindexed ==
  ASSUME NEW l, NEW m, NEW f, IsInjective(l),
         \A i \in DOMAIN m : f[i] \in DOMAIN l /\ m[i] = l[f[i]],
         \A i, j \in DOMAIN m : f[i] = f[j] => i = j
  PROVE  IsInjective(m) /\ ToSet(m) \subseteq ToSet(l)
<1>1. IsInjective(m)
  BY DEF IsInjective
<1>2. ToSet(m) \subseteq ToSet(l)
  BY DEF ToSet
<1> QED BY <1>1, <1>2

(* The first n and the rest. *)
LEMMA PartsOnce ==
  ASSUME NEW A, NEW l \in Seq(A), NEW n \in 0 .. Len(l), IsInjective(l)
  PROVE  /\ SubSeq(l, 1, n) \in Seq(A) /\ SubSeq(l, n + 1, Len(l)) \in Seq(A)
         /\ IsInjective(SubSeq(l, 1, n)) /\ IsInjective(SubSeq(l, n + 1, Len(l)))
         /\ ToSet(SubSeq(l, 1, n)) \cap ToSet(SubSeq(l, n + 1, Len(l))) = {}
         /\ ToSet(SubSeq(l, 1, n)) \union ToSet(SubSeq(l, n + 1, Len(l))) = ToSet(l)
<1> DEFINE a == SubSeq(l, 1, n)
           b == SubSeq(l, n + 1, Len(l))
           N == Len(l)
<1>1. N \in Nat /\ DOMAIN l = 1 .. N /\ n \in 0 .. N
  OBVIOUS
<1>2. a \in Seq(A) /\ b \in Seq(A)
  BY PartOfList
<1>3. DOMAIN a = 1 .. n /\ \A i \in 1 .. n : a[i] = l[i]
  BY <1>1
<1>4. DOMAIN b = 1 .. N - n /\ \A i \in 1 .. N - n : b[i] = l[i + n]
  BY <1>1
<1> HIDE DEF a, b
<1>5. IsInjective(a)
  BY <1>1, <1>3 DEF IsInjective
<1>6. IsInjective(b)
  <2> SUFFICES ASSUME NEW i \in 1 .. N - n, NEW j \in 1 .. N - n, b[i] = b[j] PROVE i = j
    BY <1>4 DEF IsInjective
  <2>1. i + n = j + n
    BY <1>1, <1>4 DEF IsInjective
  <2> QED BY <1>1, <2>1
<1>7. ToSet(a) \cap ToSet(b) = {}
  <2> SUFFICES ASSUME NEW i \in 1 .. n, NEW j \in 1 .. N - n, a[i] = b[j] PROVE FALSE
    BY <1>3, <1>4 DEF ToSet
  <2>1. i = j + n
    BY <1>1, <1>3, <1>4 DEF IsInjective
  <2> QED BY <1>1, <2>1
<1>8. ToSet(a) \union ToSet(b) = ToSet(l)
  <2>1. ToSet(a) \subseteq ToSet(l)
    BY <1>1, <1>3 DEF ToSet
  <2>2. ToSet(b) \subseteq ToSet(l)
    BY <1>1, <1>4 DEF ToSet
  <2>3. ASSUME NEW i \in 1 .. N PROVE l[i] \in ToSet(a) \union ToSet(b)
    <3>1. CASE i <= n
      BY <3>1, <1>1, <1>3 DEF ToSet
    <3>2. CASE i > n
      <4>1. i - n \in 1 .. N - n /\ (i - n) + n = i
        BY <3>2, <1>1
      <4>2. b[i - n] = l[i]
        BY <4>1, <1>4
      <4> QED BY <4>1, <4>2, <1>4 DEF ToSet
    <3> QED BY <1>1, <3>1, <3>2
  <2>4. ToSet(l) \subseteq ToSet(a) \union ToSet(b)
    BY <2>3, <1>1 DEF ToSet
  <2> QED BY <2>1, <2>2, <2>4
<1> QED BY <1>2, <1>5, <1>6, <1>7, <1>8 DEF a, b

(* The first element and the others. *)
LEMMA HeadOnce ==
  ASSUME NEW A, NEW l \in Seq(A), l # << >>, IsInjective(l)
  PROVE  /\ Head(l) \in A /\ Tail(l) \in Seq(A) /\ IsInjective(Tail(l))
         /\ ToSet(l) = {Head(l)} \union ToSet(Tail(l)) /\ Head(l) \notin ToSet(Tail(l))
<1> DEFINE n == Len(l)
           m == Tail(l)
<1>1. n \in Nat /\ n >= 1 /\ DOMAIN l = 1 .. n /\ Head(l) = l[1] /\ Head(l) \in A /\ m \in Seq(A)
  OBVIOUS
<1>2. DOMAIN m = 1 .. n - 1 /\ \A i \in 1 .. n - 1 : m[i] = l[i + 1]
  OBVIOUS
<1> HIDE DEF m
<1>3. IsInjective(m)
  <2> SUFFICES ASSUME NEW i \in 1 .. n - 1, NEW j \in 1 .. n - 1, m[i] = m[j] PROVE i = j
    BY <1>2 DEF IsInjective
  <2>1. i + 1 = j + 1
    BY <1>1, <1>2 DEF IsInjective
  <2> QED BY <1>1, <2>1
<1>4. l[1] \notin ToSet(m)
  <2> SUFFICES ASSUME NEW i \in 1 .. n - 1, m[i] = l[1] PROVE FALSE
    BY <1>2 DEF ToSet
  <2>1. i + 1 = 1
    BY <1>1, <1>2 DEF IsInjective
  <2> QED BY <1>1, <2>1
<1>5. ToSet(m) \subseteq ToSet(l) /\ l[1] \in ToSet(l)
  <2>1. ASSUME NEW i \in DOMAIN m PROVE m[i] \in ToSet(l)
    <3>1. i + 1 \in DOMAIN l /\ m[i] = l[i + 1]
      BY <1>1, <1>2
    <3> QED BY <3>1 DEF ToSet
  <2> QED BY <2>1, <1>1 DEF ToSet
<1>6. ASSUME NEW i \in 1 .. n PROVE l[i] = l[1] \/ l[i] \in ToSet(m)
  <2>1. CASE i # 1
    <3>1. i - 1 \in 1 .. n - 1 /\ (i - 1) + 1 = i
      BY <2>1, <1>1
    <3>2. i - 1 \in DOMAIN m /\ m[i - 1] = l[i]
      BY <3>1, <1>2
    <3> QED BY <3>2 DEF ToSet
  <2> QED BY <2>1
<1>7. ToSet(l) = {l[1]} \union ToSet(m)
  <2>1. ASSUME NEW x PROVE x \in ToSet(l) => x \in {l[1]} \union ToSet(m)
    BY <1>1, <1>6 DEF ToSet
  <2> QED BY <2>1, <1>5
<1> QED BY <1>1, <1>3, <1>4, <1>7 DEF m

(* The last element and the others. *)
LEMMA LastOnce ==
  ASSUME NEW A, NEW l \in Seq(A), l # << >>, IsInjective(l)
  PROVE  /\ Last(l) \in A /\ Front(l) \in Seq(A) /\ IsInjective(Front(l))
         /\ ToSet(l) = {Last(l)} \union ToSet(Front(l)) /\ Last(l) \notin ToSet(Front(l))
<1> DEFINE n == Len(l)
           m == Front(l)
<1>1. n \in Nat /\ n >= 1 /\ DOMAIN l = 1 .. n /\ Last(l) = l[n] /\ l[n] \in A
  BY DEF Last
<1>2. m \in Seq(A)
  BY FrontType
<1>3. DOMAIN m = 1 .. n - 1 /\ \A i \in 1 .. n - 1 : m[i] = l[i]
  BY <1>1 DEF Front
<1> HIDE DEF m, n
<1>4. IsInjective(m)
  BY <1>1, <1>3 DEF IsInjective
<1>5. l[n] \notin ToSet(m)
  <2> SUFFICES ASSUME NEW i \in 1 .. n - 1, m[i] = l[n] PROVE FALSE
    BY <1>3 DEF ToSet
  <2>1. i = n
    BY <1>1, <1>3 DEF IsInjective
  <2> QED BY <1>1, <2>1
<1>6. ASSUME NEW i \in 1 .. n PROVE l[i] = l[n] \/ l[i] \in ToSet(m)
  <2>1. CASE i # n
    <3>1. i \in 1 .. n - 1
      BY <2>1, <1>1
    <3> QED BY <3>1, <1>3 DEF ToSet
  <2> QED BY <2>1
<1>7. ToSet(m) \subseteq ToSet(l) /\ l[n] \in ToSet(l)
  <2>1. \A i \in DOMAIN m : i \in DOMAIN l /\ m[i] = l[i]
    BY <1>1, <1>3
  <2>2. n \in DOMAIN l
    BY <1>1
  <2> QED BY <2>1, <2>2 DEF ToSet
<1>8. ToSet(l) = {l[n]} \union ToSet(m)
  <2>1. ASSUME NEW x PROVE x \in ToSet(l) => x \in {l[n]} \union ToSet(m)
    BY <1>1, <1>6 DEF ToSet
  <2> QED BY <2>1, <1>7
<1> QED BY <1>1, <1>2, <1>4, <1>5, <1>8 DEF m, n

(* From the other end. *)
LEMMA ReversedOnce ==
  ASSUME NEW A, NEW l \in Seq(A), IsInjective(l)
  PROVE  Reverse(l) \in Seq(A) /\ IsInjective(Reverse(l)) /\ ToSet(Reverse(l)) = ToSet(l)
<1> DEFINE n == Len(l)
           m == Reverse(l)
<1>1. n \in Nat /\ DOMAIN l = 1 .. n
  OBVIOUS
<1>2. DOMAIN m = 1 .. n /\ \A i \in 1 .. n : m[i] = l[(n - i) + 1]
  BY DEF Reverse
<1>3. m \in Seq(A)
  BY ReverseType
<1> HIDE DEF m
<1>4. \A i \in 1 .. n : (n - i) + 1 \in 1 .. n /\ (n - ((n - i) + 1)) + 1 = i
  BY <1>1
<1>5. IsInjective(m)
  <2> SUFFICES ASSUME NEW i \in 1 .. n, NEW j \in 1 .. n, m[i] = m[j] PROVE i = j
    BY <1>2 DEF IsInjective
  <2>1. (n - i) + 1 = (n - j) + 1
    BY <1>1, <1>2, <1>4 DEF IsInjective
  <2> QED BY <1>1, <2>1
<1>6. ASSUME NEW i \in 1 .. n PROVE m[i] \in ToSet(l) /\ l[i] \in ToSet(m)
  <2>1. (n - i) + 1 \in DOMAIN l /\ m[i] = l[(n - i) + 1]
    BY <1>1, <1>2, <1>4
  <2>2. (n - i) + 1 \in DOMAIN m /\ m[(n - i) + 1] = l[i]
    BY <1>1, <1>2, <1>4
  <2> QED BY <2>1, <2>2 DEF ToSet
<1>7. ToSet(m) = ToSet(l)
  BY <1>1, <1>2, <1>6 DEF ToSet
<1> QED BY <1>3, <1>5, <1>7 DEF m

(* With one more element. *)
LEMMA InsertedOnce ==
  ASSUME NEW A, NEW l \in Seq(A), NEW k \in 1 .. Len(l) + 1, NEW p \in A, IsInjective(l), p \notin ToSet(l)
  PROVE  /\ InsertAt(l, k, p) \in Seq(A) /\ IsInjective(InsertAt(l, k, p))
         /\ ToSet(InsertAt(l, k, p)) = {p} \union ToSet(l)
<1> DEFINE n == Len(l)
           m == InsertAt(l, k, p)
           a == SubSeq(l, 1, k - 1)
           b == SubSeq(l, k, n)
<1>1. n \in Nat /\ DOMAIN l = 1 .. n /\ k \in 1 .. n + 1
  OBVIOUS
<1>2. /\ a \in Seq(A) /\ Len(a) = k - 1 /\ \A i \in 1 .. k - 1 : a[i] = l[i]
      /\ b \in Seq(A) /\ Len(b) = (n - k) + 1 /\ \A i \in 1 .. (n - k) + 1 : b[i] = l[(i + k) - 1]
  <2>1. k - 1 \in 0 .. n /\ 1 \in 1 .. n + 1 /\ n \in 0 .. n
    BY <1>1
  <2>2. a \in Seq(A) /\ b \in Seq(A)
    BY <1>1, <2>1, PartOfList
  <2> QED BY <1>1, <2>2
<1> HIDE DEF a, b
<1>3. m = a \o <<p>> \o b
  BY DEF InsertAt, a, b
<1>4. /\ m \in Seq(A) /\ DOMAIN m = 1 .. n + 1
      /\ \A i \in 1 .. n + 1 : m[i] = IF i < k THEN a[i] ELSE IF i = k THEN p ELSE b[i - k]
  <2>0. <<p>> \in Seq(A) /\ Len(<<p>>) = 1 /\ <<p>>[1] = p
    OBVIOUS
  <2>1. a \o <<p>> \in Seq(A) /\ Len(a \o <<p>>) = k /\ \A i \in 1 .. k : (a \o <<p>>)[i] = IF i < k THEN a[i] ELSE p
    <3>1. Len(a) = k - 1 /\ k \in Nat /\ k - 1 \in Nat
      BY <1>1, <1>2
    <3>2. a \o <<p>> \in Seq(A) /\ Len(a \o <<p>>) = (k - 1) + 1
      BY <1>2, <2>0, <3>1, ConcatProperties
    <3>3. ASSUME NEW i \in 1 .. k PROVE (a \o <<p>>)[i] = IF i < k THEN a[i] ELSE p
      <4>1. i \in 1 .. Len(a) + Len(<<p>>)
        BY <2>0, <3>1
      <4>2. (a \o <<p>>)[i] = IF i <= Len(a) THEN a[i] ELSE <<p>>[i - Len(a)]
        BY <1>2, <2>0, <4>1, ConcatProperties
      <4>3. i >= k => i - Len(a) = 1
        BY <3>1
      <4>4. i <= Len(a) <=> i < k
        BY <3>1
      <4> QED BY <2>0, <4>2, <4>3, <4>4, <3>1
    <3> QED BY <3>1, <3>2, <3>3
  <2> DEFINE c == a \o <<p>>
  <2> HIDE DEF c
  <2>2. c \o b \in Seq(A) /\ Len(c \o b) = n + 1 /\ \A i \in 1 .. n + 1 : (c \o b)[i] = IF i <= k THEN c[i] ELSE b[i - k]
    <3>0. c \in Seq(A) /\ Len(c) = k
      BY <2>1 DEF c
    <3>1. k \in Nat /\ Len(c) + Len(b) = n + 1
      BY <1>1, <1>2, <3>0
    <3>2. c \o b \in Seq(A) /\ Len(c \o b) = n + 1
      BY <1>2, <3>0, <3>1, ConcatProperties
    <3>3. ASSUME NEW i \in 1 .. n + 1 PROVE (c \o b)[i] = IF i <= k THEN c[i] ELSE b[i - k]
      <4>1. i \in 1 .. Len(c) + Len(b)
        BY <3>1
      <4> QED BY <1>2, <3>0, <4>1, ConcatProperties
    <3> QED BY <3>2, <3>3
  <2> QED BY <1>1, <1>3, <2>1, <2>2 DEF c
<1> HIDE DEF m
<1>5. \A i \in 1 .. n + 1 : m[i] = IF i < k THEN l[i] ELSE IF i = k THEN p ELSE l[i - 1]
  <2> SUFFICES ASSUME NEW i \in 1 .. n + 1 PROVE m[i] = IF i < k THEN l[i] ELSE IF i = k THEN p ELSE l[i - 1]
    OBVIOUS
  <2>1. CASE i > k
    <3>1. i - k \in 1 .. (n - k) + 1 /\ ((i - k) + k) - 1 = i - 1 /\ ~(i < k) /\ i # k
      BY <2>1, <1>1
    <3>2. m[i] = b[i - k]
      BY <3>1, <1>4
    <3>3. b[i - k] = l[i - 1]
      BY <3>1, <1>2
    <3> QED BY <3>1, <3>2, <3>3
  <2>2. CASE i <= k
    <3>1. i < k => i \in 1 .. k - 1
      BY <1>1
    <3>2. ~(i > k) /\ i \in Int /\ k \in Int
      BY <2>2, <1>1
    <3> QED BY <3>1, <2>2, <1>1, <1>2, <1>4
  <2> QED BY <1>1, <2>1, <2>2
<1>6. \A i \in 1 .. n + 1 : i # k => /\ (IF i < k THEN i ELSE i - 1) \in DOMAIN l
                                    /\ m[i] = l[IF i < k THEN i ELSE i - 1]
  BY <1>1, <1>5
<1>7. m[k] = p
  BY <1>1, <1>5
<1>8. IsInjective(m)
  <2> SUFFICES ASSUME NEW i \in 1 .. n + 1, NEW j \in 1 .. n + 1, m[i] = m[j] PROVE i = j
    BY <1>4 DEF IsInjective
  <2>1. i = k <=> j = k
    BY <1>6, <1>7 DEF ToSet
  <2>2. CASE i # k /\ j # k
    <3>1. (IF i < k THEN i ELSE i - 1) = (IF j < k THEN j ELSE j - 1)
      BY <2>2, <1>6 DEF IsInjective
    <3> QED BY <3>1, <2>2, <1>1
  <2> QED BY <2>1, <2>2
<1>9. ToSet(m) = {p} \union ToSet(l)
  <2>1. ASSUME NEW i \in 1 .. n + 1 PROVE m[i] \in {p} \union ToSet(l)
    BY <1>6, <1>7 DEF ToSet
  <2>2. p \in ToSet(m)
    BY <1>4, <1>7 DEF ToSet
  <2>3. ASSUME NEW i \in 1 .. n PROVE l[i] \in ToSet(m)
    <3>1. (IF i < k THEN i ELSE i + 1) \in 1 .. n + 1 /\ m[IF i < k THEN i ELSE i + 1] = l[i]
      BY <1>1, <1>5
    <3> QED BY <3>1, <1>4 DEF ToSet
  <2> QED BY <2>1, <2>2, <2>3, <1>1, <1>4 DEF ToSet
<1> QED BY <1>4, <1>8, <1>9 DEF m

(* One list behind another. *)
LEMMA JoinedOnce ==
  ASSUME NEW A, NEW l \in Seq(A), NEW m \in Seq(A)
  PROVE  /\ l \o m \in Seq(A) /\ ToSet(l \o m) = ToSet(l) \union ToSet(m)
         /\ IsInjective(l) /\ IsInjective(m) /\ ToSet(l) \cap ToSet(m) = {} => IsInjective(l \o m)
<1> DEFINE a == Len(l)
           b == Len(m)
           c == l \o m
<1>1. a \in Nat /\ b \in Nat /\ DOMAIN l = 1 .. a /\ DOMAIN m = 1 .. b
  OBVIOUS
<1>2. c \in Seq(A) /\ Len(c) = a + b /\ \A i \in 1 .. a + b : c[i] = IF i <= a THEN l[i] ELSE m[i - a]
  BY ConcatProperties
<1> HIDE DEF a, b, c
<1>3. DOMAIN c = 1 .. a + b
  BY <1>1, <1>2
<1>4. ASSUME NEW i \in DOMAIN c
      PROVE  \/ i \in DOMAIN l /\ c[i] = l[i]
             \/ i - a \in DOMAIN m /\ c[i] = m[i - a]
  <2>1. CASE i <= a
    <3>1. i \in 1 .. a
      BY <2>1, <1>1, <1>3
    <3> QED BY <2>1, <3>1, <1>1, <1>2, <1>3
  <2>2. CASE ~(i <= a)
    <3>1. i - a \in 1 .. b
      BY <2>2, <1>1, <1>3
    <3> QED BY <2>2, <3>1, <1>1, <1>2, <1>3
  <2> QED BY <2>1, <2>2
<1>5. ASSUME NEW i \in DOMAIN l PROVE i \in DOMAIN c /\ c[i] = l[i]
  <2>1. i \in 1 .. a + b /\ i <= a
    BY <1>1
  <2> QED BY <2>1, <1>2, <1>3
<1>6. ASSUME NEW i \in DOMAIN m PROVE i + a \in DOMAIN c /\ c[i + a] = m[i]
  <2>1. i + a \in 1 .. a + b /\ ~(i + a <= a) /\ (i + a) - a = i
    BY <1>1
  <2> QED BY <2>1, <1>2, <1>3
<1>7. ToSet(c) = ToSet(l) \union ToSet(m)
  <2>1. ToSet(c) \subseteq ToSet(l) \union ToSet(m)
    BY <1>4 DEF ToSet
  <2>2. ToSet(l) \subseteq ToSet(c)
    BY <1>5 DEF ToSet
  <2>3. ToSet(m) \subseteq ToSet(c)
    BY <1>6 DEF ToSet
  <2> QED BY <2>1, <2>2, <2>3
<1>8. ASSUME IsInjective(l), IsInjective(m), ToSet(l) \cap ToSet(m) = {} PROVE IsInjective(c)
  <2> SUFFICES ASSUME NEW i \in DOMAIN c, NEW j \in DOMAIN c, c[i] = c[j] PROVE i = j
    BY DEF IsInjective
  <2>1. i \in Int /\ j \in Int
    BY <1>1, <1>3
  <2>2. CASE i \in DOMAIN l /\ c[i] = l[i] /\ j \in DOMAIN l /\ c[j] = l[j]
    BY <2>2, <1>8 DEF IsInjective
  <2>3. CASE i - a \in DOMAIN m /\ c[i] = m[i - a] /\ j - a \in DOMAIN m /\ c[j] = m[j - a]
    <3>1. i - a = j - a
      BY <2>3, <1>8 DEF IsInjective
    <3> QED BY <2>1, <3>1, <1>1
  <2>4. CASE i \in DOMAIN l /\ c[i] = l[i] /\ j - a \in DOMAIN m /\ c[j] = m[j - a]
    BY <2>4, <1>8 DEF ToSet
  <2>5. CASE i - a \in DOMAIN m /\ c[i] = m[i - a] /\ j \in DOMAIN l /\ c[j] = l[j]
    BY <2>5, <1>8 DEF ToSet
  <2> QED BY <1>4, <2>2, <2>3, <2>4, <2>5
<1> QED BY <1>2, <1>7, <1>8 DEF c

(* Lists that have no element in common, joined. *)
LEMMA FlattenedOnce ==
  ASSUME NEW A, NEW seqs \in Seq(Seq(A))
  PROVE  /\ ToSet(FlattenSeq(seqs)) = UNION {ToSet(seqs[i]) : i \in DOMAIN seqs}
         /\ (/\ \A i \in DOMAIN seqs : IsInjective(seqs[i])
             /\ \A i, j \in DOMAIN seqs : i # j => ToSet(seqs[i]) \cap ToSet(seqs[j]) = {})
            => IsInjective(FlattenSeq(seqs))
<1> DEFINE n == Len(seqs)
           U(k) == UNION {ToSet(seqs[i]) : i \in 1 .. k}
           Once == /\ \A i \in 1 .. n : IsInjective(seqs[i])
                   /\ \A i, j \in 1 .. n : i # j => ToSet(seqs[i]) \cap ToSet(seqs[j]) = {}
<1>1. n \in Nat /\ DOMAIN seqs = 1 .. n /\ \A i \in 1 .. n : seqs[i] \in Seq(A)
  OBVIOUS
<1>2. CASE seqs = << >>
  <2>1. FlattenSeq(seqs) = seqs /\ DOMAIN seqs = {}
    BY <1>2 DEF FlattenSeq
  <2>2. ToSet(seqs) = {} /\ UNION {ToSet(seqs[i]) : i \in DOMAIN seqs} = {} /\ IsInjective(seqs)
    BY <2>1 DEF ToSet, IsInjective
  <2> QED BY <2>1, <2>2
<1>3. CASE seqs # << >>
  <2>1. PICK f : /\ FlattenSeq(seqs) = f[n]
                 /\ \A i \in 1 .. n : f[i] = IF i = 1 THEN seqs[i] ELSE f[i - 1] \o seqs[i]
    BY <1>3, FlattenSteps
  <2>2. n \in 1 .. n
    BY <1>3
  <2> HIDE DEF n
  <2> DEFINE OK(k) == f[k] \in Seq(A) /\ ToSet(f[k]) = U(k) /\ (Once => IsInjective(f[k]))
             E == {k \in 1 .. n : ~OK(k)}
  <2> HIDE DEF OK, U, Once
  <2>3. OK(1)
    <3>1. 1 \in 1 .. n /\ 1 .. 1 = {1}
      BY <1>1, <2>2
    <3>2. U(1) = ToSet(seqs[1])
      BY <3>1 DEF U
    <3> QED BY <1>1, <2>1, <3>1, <3>2 DEF OK, Once
  <2>4. ASSUME NEW k \in 1 .. n, k # 1, OK(k - 1) PROVE OK(k)
    <3>1. f[k] = f[k - 1] \o seqs[k] /\ seqs[k] \in Seq(A) /\ f[k - 1] \in Seq(A) /\ ToSet(f[k - 1]) = U(k - 1)
      BY <1>1, <2>1, <2>4 DEF OK
    <3>2. f[k] \in Seq(A) /\ ToSet(f[k]) = U(k - 1) \union ToSet(seqs[k])
      BY <3>1, JoinedOnce
    <3>3. 1 .. k = (1 .. (k - 1)) \union {k}
      BY <1>1, <2>4
    <3>4. U(k) = U(k - 1) \union ToSet(seqs[k])
      BY <3>3 DEF U
    <3>5. ASSUME Once PROVE IsInjective(f[k])
      <4>1. \A i \in 1 .. (k - 1) : i # k /\ i \in 1 .. n
        BY <1>1, <2>4
      <4>2. U(k - 1) \cap ToSet(seqs[k]) = {}
        BY <3>5, <4>1 DEF Once, U
      <4>3. IsInjective(f[k - 1]) /\ IsInjective(seqs[k])
        BY <2>4, <3>5 DEF OK, Once
      <4> QED BY <3>1, <4>2, <4>3, JoinedOnce
    <3> QED BY <3>2, <3>4, <3>5 DEF OK
  <2>5. ASSUME E # {} PROVE FALSE
    <3>1. PICK k \in E : \A j \in E : k <= j
      <4>1. E \in SUBSET Nat
        BY <1>1
      <4> HIDE DEF E
      <4> QED BY <2>5, <4>1, LeastNumber
    <3>2. k # 1 /\ k \in 1 .. n
      BY <2>3, <3>1
    <3>3. k - 1 \in 1 .. n /\ ~(k <= k - 1)
      BY <1>1, <3>2
    <3>4. OK(k - 1)
      BY <3>1, <3>3
    <3> QED BY <2>4, <3>1, <3>2, <3>4
  <2>6. OK(n)
    BY <2>2, <2>5
  <2> QED BY <1>1, <2>1, <2>6 DEF OK, U, Once
<1> QED BY <1>2, <1>3

-----------------------------------------------------------------------------
(* Places: where each chunk is, and the layout as a whole. *)

(* The places of a chunk, by number: a bin has its own; the hands of a     *)
(* client or of an operation; top; the struct of the cache.                *)
Hand == 0
Top == -1
Own == -2
FastPlaces == NBINS .. NBINS + NFASTBINS - 1
CachePlaces == NBINS + NFASTBINS .. NBINS + NFASTBINS + TCACHE_MAX_BINS - 1

(* Where the chunks are; H are in hand. *)
Where(h, H) ==
  [x \in Int |-> IF x = Hand THEN H
                 ELSE IF x = Top THEN {h.top} \ {0}
                 ELSE IF x = Own THEN {h.tcache} \ {NULL}
                 ELSE IF x \in 1 .. NBINS - 1 THEN ToSet(h.bins[x])
                 ELSE IF x \in FastPlaces THEN ToSet(h.fast[x - NBINS])
                 ELSE IF x \in CachePlaces THEN ToSet(h.entries[x - NBINS - NFASTBINS])
                 ELSE {}]

(* A chunk of shape v may be at place x. *)
Suits(x, v) ==
  /\ v.mapped => x \in {Hand, Own}
  /\ ~v.mapped => v.size >= MINSIZE
  /\ x \in 2 .. NBINS - 1 => bin_index(v.size) = x
  /\ x \in FastPlaces => fastbin_index(v.size) = x - NBINS
  /\ x \in CachePlaces => csize2tidx(v.size) = x - NBINS - NFASTBINS

(* What is in a place is a chunk, and in no other; what is in none is too  *)
(* small to be one.                                                        *)
OkAt(s, E, p) ==
  /\ \A x \in Int : p \in E[x] => p \in DOMAIN s /\ Suits(x, s[p]) /\ \A y \in Int : p \in E[y] => x = y
  /\ (p \in DOMAIN s /\ \A x \in Int : p \notin E[x]) => ~s[p].mapped /\ s[p].size < MINSIZE

Placed(s, E) == \A p \in Int : OkAt(s, E, p)

Distinct(h) ==
  /\ \A b \in 1 .. NBINS - 1 : IsInjective(h.bins[b])
  /\ \A i \in 0 .. NFASTBINS - 1 : IsInjective(h.fast[i])
  /\ \A i \in 0 .. TCACHE_MAX_BINS - 1 : IsInjective(h.entries[i])

(* Without the struct of the cache there is nothing in it. *)
NoCache(h) == \A i \in 0 .. TCACHE_MAX_BINS - 1 : h.entries[i] = << >>
CacheIsOwned(h) == h.tcache = NULL => NoCache(h)

(* The words the kernel gave that are not of F. *)
MapWords(maps) == UNION {Region(r[1], r[2]) : r \in maps}
GivenTo(brk, maps, F) == (Region(FirstBrk, brk - FirstBrk) \union MapWords(maps)) \ F

Kernel(s, brk, maps, F) ==
  /\ brk \in Int /\ FirstBrk <= brk /\ brk <= BrkLimit
  /\ F \subseteq Region(FirstBrk, brk - FirstBrk) \union MapWords(maps)
  /\ \A r \in maps : r[1] \in Int /\ r[2] \in Int /\ r[1] >= MmapFloor /\ r[2] > 0
  /\ \A r, q \in maps : \A x \in Int : x \in Region(r[1], r[2]) /\ x \in Region(q[1], q[2]) => r = q
  /\ \A p \in DOMAIN s : s[p].mapped => <<p - s[p].off, s[p].off + s[p].size>> \in maps

Ground(s, top, brk, maps, F) ==
  Sized(s) /\ Tiles(s, GivenTo(brk, maps, F)) /\ Ends(s, top) /\ Kernel(s, brk, maps, F)

Layout(h, H, F) ==
  /\ Ground(Shape(h), h.top, h.brk, h.maps, F)
  /\ Placed(Shape(h), Where(h, H)) /\ Distinct(h) /\ CacheIsOwned(h)
  /\ ~h.needless

(* The heaps with chunks H in hand, while no check has failed: that ends   *)
(* the program.                                                            *)
Sound(H, F) == {h \in Good : ~h.aborted => Layout(h, H, F)}

(* From h to g the chunks of C stay as they are. *)
Onward(h, g, C) ==
  ~g.aborted => /\ ~h.aborted /\ g.tcache = h.tcache
                /\ \A q \in C : q \in DOMAIN Shape(h) => q \in DOMAIN Shape(g) /\ Shape(g)[q] = Shape(h)[q]
-------------------------------------------------------------------------------
(* The places of a heap, one kind after the other. *)
LEMMA WhereIs ==
  ASSUME NEW h, NEW H
  PROVE  /\ Where(h, H)[Hand] = H /\ Where(h, H)[Top] = {h.top} \ {0} /\ Where(h, H)[Own] = {h.tcache} \ {NULL}
         /\ \A b \in 1 .. NBINS - 1 : Where(h, H)[b] = ToSet(h.bins[b])
         /\ \A i \in 0 .. NFASTBINS - 1 : Where(h, H)[NBINS + i] = ToSet(h.fast[i]) /\ NBINS + i \in FastPlaces
         /\ \A i \in 0 .. TCACHE_MAX_BINS - 1 : /\ Where(h, H)[NBINS + NFASTBINS + i] = ToSet(h.entries[i])
                                                /\ NBINS + NFASTBINS + i \in CachePlaces
<1>1. NBINS \in Nat /\ NBINS > 0 /\ NFASTBINS \in Nat /\ TCACHE_MAX_BINS \in Nat
  BY PtAssumption, SmallEnough DEF MALLOC_ALIGNMENT, SIZE_SZ, MINSIZE
<1>2. /\ Where(h, H)[Hand] = H /\ Where(h, H)[Top] = {h.top} \ {0} /\ Where(h, H)[Own] = {h.tcache} \ {NULL}
  BY DEF Where, Hand, Top, Own
<1>3. \A b \in 1 .. NBINS - 1 : Where(h, H)[b] = ToSet(h.bins[b])
  BY <1>1 DEF Where, Hand, Top, Own
<1>4. ASSUME NEW i \in 0 .. NFASTBINS - 1
      PROVE  Where(h, H)[NBINS + i] = ToSet(h.fast[i]) /\ NBINS + i \in FastPlaces
  <2>1. NBINS + i \in FastPlaces /\ NBINS + i \in Int /\ NBINS + i > 0 /\ NBINS + i \notin 1 .. NBINS - 1 /\ (NBINS + i) - NBINS = i
    BY <1>1 DEF FastPlaces
  <2> QED BY <2>1 DEF Where, Hand, Top, Own
<1>5. ASSUME NEW i \in 0 .. TCACHE_MAX_BINS - 1
      PROVE  Where(h, H)[NBINS + NFASTBINS + i] = ToSet(h.entries[i]) /\ NBINS + NFASTBINS + i \in CachePlaces
  <2> DEFINE x == NBINS + NFASTBINS + i
  <2>1. x \in CachePlaces /\ x \in Int /\ x > 0 /\ x \notin 1 .. NBINS - 1 /\ x \notin FastPlaces /\ x - NBINS - NFASTBINS = i
    BY <1>1 DEF FastPlaces, CachePlaces
  <2> QED BY <2>1 DEF Where, Hand, Top, Own
<1> QED BY <1>2, <1>3, <1>4, <1>5

(* The places that are no list. *)
LEMMA Elsewhere ==
  /\ Hand \in Int /\ Top \in Int /\ Own \in Int
  /\ Hand # Top /\ Hand # Own /\ Top # Own
  /\ \A x \in (1 .. NBINS - 1) \union FastPlaces \union CachePlaces : x \in Int /\ x > 0 /\ x # Hand /\ x # Top /\ x # Own
  /\ \A x \in FastPlaces : x \notin 1 .. NBINS - 1 /\ x \notin CachePlaces
  /\ \A x \in CachePlaces : x \notin 1 .. NBINS - 1 /\ x \notin FastPlaces
<1>1. NBINS \in Nat /\ NBINS > 0 /\ NFASTBINS \in Nat /\ TCACHE_MAX_BINS \in Nat
  BY PtAssumption, SmallEnough DEF MALLOC_ALIGNMENT, SIZE_SZ, MINSIZE
<1> QED BY <1>1 DEF Hand, Top, Own, FastPlaces, CachePlaces

(* A chunk of one place is of no other. *)
Only(E, p, x) == \A y \in Int : p \in E[y] <=> y = x
Nowhere(E, p) == \A y \in Int : p \notin E[y]

(* What is in a place is in no other, and suits it. *)
LEMMA PlacedOnly ==
  ASSUME NEW s, NEW E, NEW p \in Int, NEW x \in Int, Placed(s, E), p \in E[x]
  PROVE  Only(E, p, x) /\ p \in DOMAIN s /\ Suits(x, s[p])
BY DEF Placed, OkAt, Only

(* A chunk in the one place that suits it is where it may be. *)
LEMMA OkOnly ==
  ASSUME NEW s, NEW E, NEW p, NEW x \in Int, Only(E, p, x), p \in DOMAIN s, Suits(x, s[p])
  PROVE  OkAt(s, E, p)
BY DEF OkAt, Only

(* What is in no place may be so when it is no chunk, or a fencepost. *)
LEMMA OkNowhere ==
  ASSUME NEW s, NEW E, NEW p, Nowhere(E, p), p \in DOMAIN s => ~s[p].mapped /\ s[p].size < MINSIZE
  PROVE  OkAt(s, E, p)
BY DEF OkAt, Nowhere

(* Only the chunks of C have changed, or their places. *)
LEMMA PlacedBut ==
  ASSUME NEW s, NEW E, NEW r, NEW D, NEW C, Placed(s, E),
         \A p \in Int \ C : /\ p \in DOMAIN r <=> p \in DOMAIN s
                            /\ p \in DOMAIN s => r[p] = s[p]
                            /\ \A x \in Int : p \in D[x] <=> p \in E[x],
         \A p \in C : p \in Int => OkAt(r, D, p)
  PROVE  Placed(r, D)
<1> SUFFICES ASSUME NEW p \in Int PROVE OkAt(r, D, p)
  BY DEF Placed
<1>1. CASE p \in C
  BY <1>1
<1>2. CASE p \notin C
  <2>1. OkAt(s, E, p)
    BY DEF Placed
  <2>2. /\ p \in DOMAIN r <=> p \in DOMAIN s
        /\ p \in DOMAIN s => r[p] = s[p]
        /\ \A x \in Int : p \in D[x] <=> p \in E[x]
    BY <1>2
  <2>3. ASSUME NEW x \in Int, p \in D[x]
        PROVE  p \in DOMAIN r /\ Suits(x, r[p]) /\ \A y \in Int : p \in D[y] => x = y
    <3>1. p \in E[x] /\ \A y \in Int : p \in D[y] => p \in E[y]
      BY <2>2, <2>3
    <3>2. p \in DOMAIN s /\ Suits(x, s[p]) /\ \A y \in Int : p \in E[y] => x = y
      BY <2>1, <3>1 DEF OkAt
    <3>3. p \in DOMAIN r /\ r[p] = s[p]
      BY <2>2, <3>2
    <3> QED BY <3>1, <3>2, <3>3
  <2>4. (p \in DOMAIN r /\ \A x \in Int : p \notin D[x]) => ~r[p].mapped /\ r[p].size < MINSIZE
    <3> SUFFICES ASSUME p \in DOMAIN r, \A x \in Int : p \notin D[x] PROVE ~r[p].mapped /\ r[p].size < MINSIZE
      OBVIOUS
    <3>1. p \in DOMAIN s /\ r[p] = s[p] /\ \A x \in Int : p \notin E[x]
      BY <2>2
    <3>2. ~s[p].mapped /\ s[p].size < MINSIZE
      BY <2>1, <3>1 DEF OkAt
    <3> QED BY <3>1, <3>2
  <2> QED BY <2>3, <2>4 DEF OkAt
<1> QED BY <1>1, <1>2

(* A chunk goes from one place to another. *)
LEMMA Moved ==
  ASSUME NEW s, NEW E, NEW D, NEW p \in Int, NEW x \in Int, NEW y \in Int, Placed(s, E),
         p \in E[x], x # y, Suits(y, s[p]), D[x] = E[x] \ {p}, D[y] = E[y] \union {p},
         \A z \in Int \ {x, y} : D[z] = E[z]
  PROVE  Placed(s, D)
<1>1. Only(E, p, x) /\ p \in DOMAIN s
  BY PlacedOnly
<1>2. Only(D, p, y)
  BY <1>1 DEF Only
<1>3. OkAt(s, D, p)
  BY <1>1, <1>2, OkOnly
<1>4. \A q \in Int \ {p} : \A z \in Int : q \in D[z] <=> q \in E[z]
  OBVIOUS
<1> DEFINE C == {p}
<1>5. /\ \A q \in Int \ C : /\ q \in DOMAIN s <=> q \in DOMAIN s
                            /\ q \in DOMAIN s => s[q] = s[q]
                            /\ \A z \in Int : q \in D[z] <=> q \in E[z]
      /\ \A q \in C : q \in Int => OkAt(s, D, q)
  BY <1>3, <1>4
<1> HIDE DEF C
<1> QED BY <1>5, PlacedBut

(* Nothing that the layout is about has changed. *)
SameLayout(h, g) ==
  /\ g.mem = h.mem /\ g.top = h.top /\ g.bins = h.bins /\ g.fast = h.fast /\ g.entries = h.entries
  /\ g.tcache = h.tcache /\ g.brk = h.brk /\ g.maps = h.maps /\ g.needless = h.needless

(* The layout is about the headers, the lists, top and the kernel's memory *)
(* only.                                                                   *)
LEMMA LayoutFrame ==
  ASSUME NEW h, NEW g, NEW H, NEW F, SameLayout(h, g), Layout(h, H, F)
  PROVE  Layout(g, H, F)
<1>1. Shape(g) = Shape(h)
  BY DEF Shape, SameLayout
<1>2. Where(g, H) = Where(h, H)
  BY DEF Where, SameLayout
<1> QED BY <1>1, <1>2 DEF Layout, SameLayout, Distinct, CacheIsOwned, NoCache

(* So a step that leaves these alone keeps it. *)
LEMMA SoundFrame ==
  ASSUME NEW H, NEW F, NEW h \in Sound(H, F), NEW g \in Good, NEW C, SameLayout(h, g), ~g.aborted => ~h.aborted
  PROVE  g \in Sound(H, F) /\ Onward(h, g, C)
<1>1. ~g.aborted => Layout(g, H, F)
  BY LayoutFrame DEF Sound
<1>2. Shape(g) = Shape(h) /\ g.tcache = h.tcache
  BY DEF Shape, SameLayout
<1> QED BY <1>1, <1>2 DEF Sound, Onward

(* A chunk of the heap is an interval of words; intervals side by side are *)
(* one.                                                                    *)
LEMMA OneCovers ==
  ASSUME NEW s, Sized(s), NEW p \in DOMAIN s, ~s[p].mapped
  PROVE  /\ p \in Int /\ s[p].size \in Int /\ s[p].size > 0 /\ s[p].off = 0
         /\ Covers(s, {p}, p, p + s[p].size)
<1>1. p \in Int /\ s[p].size \in Int /\ s[p].size > 0 /\ s[p].off = 0
  BY DEF Sized
<1>2. Covers(s, {p}, p, p + s[p].size)
  BY <1>1 DEF Covers, Has
<1> QED BY <1>1, <1>2

(* Chunks that cover two intervals side by side cover both together. *)
LEMMA TwoCover ==
  ASSUME NEW s, NEW A, NEW B, NEW a \in Int, NEW m \in Int, NEW z \in Int, a <= m, m <= z,
         Covers(s, A, a, m), Covers(s, B, m, z)
  PROVE  Covers(s, A \union B, a, z)
<1> SUFFICES ASSUME NEW x \in Int PROVE x \in a .. z - 1 <=> \E p \in A \union B : Has(s, p, x)
  BY DEF Covers
<1>1. x \in a .. m - 1 <=> \E p \in A : Has(s, p, x)
  BY DEF Covers
<1>2. x \in m .. z - 1 <=> \E p \in B : Has(s, p, x)
  BY DEF Covers
<1>3. x \in a .. z - 1 <=> (x \in a .. m - 1 \/ x \in m .. z - 1)
  OBVIOUS
<1> QED BY <1>1, <1>2, <1>3

(* The kernel has to do with the mapped chunks alone. *)
LEMMA KernelFrame ==
  ASSUME NEW s, NEW r, NEW brk, NEW maps, NEW F, Kernel(s, brk, maps, F),
         \A p \in DOMAIN r : r[p].mapped => p \in DOMAIN s /\ s[p] = r[p]
  PROVE  Kernel(r, brk, maps, F)
BY DEF Kernel

(* The chunks C of an interval become one. *)
LEMMA Whole ==
  ASSUME NEW s, NEW r, NEW C, NEW a \in Int, NEW z \in Int, NEW top, NEW new, NEW brk, NEW maps, NEW F,
         Ground(s, top, brk, maps, F), C \subseteq DOMAIN s, z > a, \A p \in C : ~s[p].mapped,
         Covers(s, C, a, z), DOMAIN r = (DOMAIN s \ C) \union {a}, \A p \in DOMAIN s \ C : r[p] = s[p],
         r[a] = Plain(z - a), new = top \/ top \in C, new # a => z \in DOMAIN s /\ ~s[z].mapped
  PROVE  Ground(r, new, brk, maps, F)
<1> DEFINE D == {a}
           W == GivenTo(brk, maps, F)
<1>1. Sized(s) /\ Tiles(s, W) /\ Ends(s, top) /\ Kernel(s, brk, maps, F)
  BY DEF Ground
<1>2. r[a].size = z - a /\ r[a].off = 0 /\ ~r[a].mapped
  BY DEF Plain
<1>3. Covers(r, D, a, z) /\ Apart(r, D) /\ a \in D /\ D \in SUBSET Int
  BY <1>2 DEF Covers, Has, Apart
<1>4. ASSUME new # a PROVE Followed(r, a)
  <2>1. z \in DOMAIN s /\ ~s[z].mapped
    BY <1>4
  <2>2. Has(s, z, z)
    <3>1. s[z].size \in Int /\ s[z].size > 0 /\ s[z].off = 0
      BY <1>1, <2>1 DEF Sized
    <3> QED BY <3>1 DEF Has
  <2>3. z \notin C
    BY <2>2 DEF Covers
  <2> QED BY <1>2, <2>1, <2>3 DEF Followed
<1>5. \A p \in D : (p # new /\ r[p].size >= MINSIZE) => Followed(r, p)
  BY <1>4
<1>6. \A p \in D : \E n \in Int : n > 0 /\ r[p] = Plain(n)
  <2>1. \E n \in Int : n > 0 /\ r[a] = Plain(n)
    <3> WITNESS z - a \in Int
    <3> QED OBVIOUS
  <2> QED BY <2>1
<1>7. Kernel(r, brk, maps, F)
  <2>1. \A p \in DOMAIN r : r[p].mapped => p \in DOMAIN s /\ s[p] = r[p]
    BY <1>2
  <2> QED BY <1>1, <2>1, KernelFrame
<1>8. DOMAIN r = (DOMAIN s \ C) \union D
  OBVIOUS
<1> HIDE DEF D, W
<1>9. Sized(r) /\ Tiles(r, W) /\ Ends(r, new)
  BY <1>1, <1>3, <1>5, <1>6, <1>8, Recut
<1> QED BY <1>7, <1>9 DEF Ground, W

(* A chunk is cut in two. *)
LEMMA CutInTwo ==
  ASSUME NEW s, NEW r, NEW p \in DOMAIN s, NEW n \in Int, NEW top, NEW brk, NEW maps, NEW F,
         Ground(s, top, brk, maps, F), ~s[p].mapped, s[p].size >= MINSIZE, 0 < n, n < s[p].size,
         DOMAIN r = DOMAIN s \union {p + n}, \A q \in DOMAIN s \ {p} : r[q] = s[q],
         r[p] = Plain(n), r[p + n] = Plain(s[p].size - n)
  PROVE  /\ p + n \notin DOMAIN s
         /\ Ground(r, IF p = top THEN p + n ELSE top, brk, maps, F)
<1> DEFINE C == {p}
           m == s[p].size
           q == p + n
           z == p + m
           D == {p, q}
           W == GivenTo(brk, maps, F)
           new == IF p = top THEN q ELSE top
<1>1. Sized(s) /\ Tiles(s, W) /\ Ends(s, top) /\ Kernel(s, brk, maps, F)
  BY DEF Ground
<1>2. p \in Int /\ m \in Int /\ Covers(s, C, p, z) /\ q \in Int /\ z \in Int /\ n < m /\ s[p].off = 0
  BY <1>1, OneCovers
<1>3. q \notin DOMAIN s
  <2>1. Has(s, p, q) /\ q # p
    BY <1>2 DEF Has
  <2>2. ASSUME q \in DOMAIN s PROVE FALSE
    <3>1. Has(s, q, q)
      BY <1>1, <1>2, <2>2 DEF Has, Sized
    <3> QED BY <1>1, <1>2, <2>1, <2>2, <3>1 DEF Tiles
  <2> QED BY <2>2
<1>4. r[p].size = n /\ r[p].off = 0 /\ ~r[p].mapped /\ r[q].size = m - n /\ r[q].off = 0 /\ ~r[q].mapped
  BY DEF Plain
<1>5. \A x \in Int : (Has(r, p, x) <=> p <= x /\ x < q) /\ (Has(r, q, x) <=> q <= x /\ x < z)
  BY <1>2, <1>4 DEF Has
<1>6. Covers(r, D, p, z) /\ Apart(r, D) /\ D \in SUBSET Int /\ p \in D
  BY <1>2, <1>5 DEF Covers, Apart
<1>7. \A x \in D : \E k \in Int : k > 0 /\ r[x] = Plain(k)
  <2>1. n \in Int /\ n > 0 /\ r[p] = Plain(n) /\ m - n \in Int /\ m - n > 0 /\ r[q] = Plain(m - n)
    BY <1>2
  <2> HIDE DEF m, q
  <2> QED BY <2>1
<1>8. \A x \in DOMAIN s \ C : r[x] = s[x]
  OBVIOUS
<1>9. \A x \in D : (x # new /\ r[x].size >= MINSIZE) => Followed(r, x)
  <2>1. Followed(r, p)
    BY <1>4 DEF Followed
  <2>2. ASSUME q # new PROVE Followed(r, q)
    <3>1. p # top
      BY <2>2
    <3>2. z \in DOMAIN s /\ ~s[z].mapped /\ z # p
      BY <1>1, <1>2, <3>1 DEF Ends, Followed
    <3>3. z \in DOMAIN r /\ r[z] = s[z] /\ q + r[q].size = z
      BY <1>2, <1>4, <3>2
    <3> QED BY <3>2, <3>3 DEF Followed
  <2> QED BY <2>1, <2>2
<1>10. Kernel(r, brk, maps, F)
  <2>1. \A x \in DOMAIN r : r[x].mapped => x \in DOMAIN s /\ s[x] = r[x]
    BY <1>4
  <2> QED BY <1>1, <2>1, KernelFrame
<1>11. DOMAIN r = (DOMAIN s \ C) \union D /\ C \subseteq DOMAIN s /\ \A x \in C : ~s[x].mapped
  OBVIOUS
<1>12. p = top => top \in C
  OBVIOUS
<1>13. new = top \/ top \in C
  BY <1>12
<1> HIDE DEF C, D, W, m, q, z, new
<1>14. Sized(r) /\ Tiles(r, W) /\ Ends(r, new)
  BY <1>1, <1>2, <1>6, <1>7, <1>8, <1>9, <1>11, <1>13, Recut
<1> QED BY <1>3, <1>10, <1>14 DEF Ground, W, new, q

(* Only the chunks of C have changed, or their places. *)
Besides(h, g, H, K, C) ==
  \A p \in Int \ C : /\ p \in DOMAIN Shape(g) <=> p \in DOMAIN Shape(h)
                     /\ p \in DOMAIN Shape(h) => Shape(g)[p] = Shape(h)[p]
                     /\ \A x \in Int : p \in Where(g, K)[x] <=> p \in Where(h, H)[x]

(* A step keeps the layout when it keeps the ground, and only the chunks   *)
(* of C have changed or moved, and each of them is where it may be.        *)
LEMMA Carved ==
  ASSUME NEW h, NEW g, NEW H, NEW K, NEW F, NEW C, Layout(h, H, F),
         Ground(Shape(g), g.top, g.brk, g.maps, F), Besides(h, g, H, K, C),
         \A p \in C : p \in Int => OkAt(Shape(g), Where(g, K), p),
         Distinct(g), CacheIsOwned(g), g.needless = h.needless
  PROVE  Layout(g, K, F)
<1> DEFINE s == Shape(h)
           r == Shape(g)
           E == Where(h, H)
           D == Where(g, K)
<1>1. Placed(s, E) /\ ~h.needless
  BY DEF Layout
<1>2. \A p \in Int \ C : /\ p \in DOMAIN r <=> p \in DOMAIN s
                         /\ p \in DOMAIN s => r[p] = s[p]
                         /\ \A x \in Int : p \in D[x] <=> p \in E[x]
  BY DEF Besides
<1>3. \A p \in C : p \in Int => OkAt(r, D, p)
  OBVIOUS
<1> HIDE DEF s, r, E, D
<1>4. Placed(r, D)
  BY <1>1, <1>2, <1>3, PlacedBut
<1> QED BY <1>1, <1>4 DEF Layout, r, D

(* The chunks that are as they were. *)
LEMMA OnwardBut ==
  ASSUME NEW h, NEW g, NEW H, NEW K, NEW C, NEW B, Besides(h, g, H, K, C), B \subseteq Int,
         \A p \in B \cap C : p \notin DOMAIN Shape(h), ~g.aborted => ~h.aborted, g.tcache = h.tcache
  PROVE  Onward(h, g, B)
BY DEF Onward, Besides

(* What stays in two steps stays in both together. *)
LEMMA OnwardTwice ==
  ASSUME NEW h, NEW g, NEW k, NEW B, NEW C, Onward(h, g, B), Onward(g, k, C), C \subseteq B
  PROVE  Onward(h, k, C)
BY DEF Onward
-------------------------------------------------------------------------------
(* The shape after a header was written, or is gone. *)
Upd(s, a, v) == [x \in DOMAIN s \union {a} |-> IF x = a THEN v ELSE s[x]]
Del(s, a) == [x \in DOMAIN s \ {a} |-> s[x]]

(* The shape read by the macros chunksize, chunk_is_mmapped and prev_size. *)
LEMMA ShapeIs ==
  ASSUME NEW h
  PROVE  /\ DOMAIN Shape(h) = DOMAIN h.mem
         /\ \A p \in DOMAIN h.mem : /\ Shape(h)[p].size = chunksize(h, p)
                                    /\ Shape(h)[p].mapped = mmapped(h, p)
                                    /\ Shape(h)[p].off = IF mmapped(h, p) THEN prev_size(h, p) ELSE 0
BY DEF Shape, ShapeOf, chunksize, mmapped, prev_size, At

(* A header that is written changes the shape there only. *)
LEMMA ShapePut ==
  ASSUME NEW h \in Heaps, NEW a, NEW head
  PROVE  Shape(Put(h, a, head)) = Upd(Shape(h), a, ShapeOf(head))
<1> DEFINE m == [x \in DOMAIN h.mem \union {a} |-> IF x = a THEN head ELSE h.mem[x]]
<1>1. Put(h, a, head).mem = m
  BY DEF Heaps, Put
<1>2. DOMAIN m = DOMAIN h.mem \union {a} /\ \A x \in DOMAIN m : m[x] = IF x = a THEN head ELSE h.mem[x]
  OBVIOUS
<1> HIDE DEF m
<1> QED BY <1>1, <1>2 DEF Shape, Upd

(* A header that is merged away is of the shape no more. *)
LEMMA ShapeDrop ==
  ASSUME NEW h \in Heaps, NEW a
  PROVE  Shape(Drop(h, a)) = Del(Shape(h), a)
<1> DEFINE m == [x \in DOMAIN h.mem \ {a} |-> h.mem[x]]
<1>1. Drop(h, a).mem = m
  BY DEF Heaps, Drop
<1>2. DOMAIN m = DOMAIN h.mem \ {a} /\ \A x \in DOMAIN m : m[x] = h.mem[x]
  OBVIOUS
<1> HIDE DEF m
<1> QED BY <1>1, <1>2 DEF Shape, Del

(* Nothing but the headers has changed. *)
HeadsOnly(h, g) ==
  /\ g.top = h.top /\ g.bins = h.bins /\ g.fast = h.fast /\ g.entries = h.entries /\ g.tcache = h.tcache
  /\ g.brk = h.brk /\ g.maps = h.maps /\ g.needless = h.needless /\ g.aborted = h.aborted

(* set_head makes a chunk of the heap of that size. *)
LEMMA HeadIsSet ==
  ASSUME NEW h \in Heaps, NEW p, NEW n
  PROVE  Shape(set_head(h, p, n)) = Upd(Shape(h), p, Plain(n)) /\ HeadsOnly(h, set_head(h, p, n))
<1> DEFINE v == [At(h, p) EXCEPT !.size = n, !.prev_inuse = TRUE, !.mmapped = FALSE]
<1>1. v.size = n /\ v.mmapped = FALSE
  BY AtType DEF Heads
<1>2. ShapeOf(v) = Plain(n)
  BY <1>1 DEF ShapeOf, Plain
<1>3. HeadsOnly(h, set_head(h, p, n))
  BY DEF Heaps, HeadsOnly, set_head, Put
<1> HIDE DEF v
<1>4. Shape(Put(h, p, v)) = Upd(Shape(h), p, Plain(n))
  BY <1>2, ShapePut
<1> QED BY <1>3, <1>4 DEF set_head, v

(* set_head_size keeps the flags, which do not matter in the heap. *)
LEMMA SizeIsSet ==
  ASSUME NEW h \in Heaps, NEW p, NEW n, ~mmapped(h, p)
  PROVE  Shape(set_head_size(h, p, n)) = Upd(Shape(h), p, Plain(n)) /\ HeadsOnly(h, set_head_size(h, p, n))
<1> DEFINE v == [At(h, p) EXCEPT !.size = n]
<1>1. v.size = n /\ v.mmapped = FALSE
  BY AtType DEF Heads, mmapped
<1>2. ShapeOf(v) = Plain(n)
  BY <1>1 DEF ShapeOf, Plain
<1>3. HeadsOnly(h, set_head_size(h, p, n))
  BY DEF Heaps, HeadsOnly, set_head_size, Put
<1> HIDE DEF v
<1>4. Shape(Put(h, p, v)) = Upd(Shape(h), p, Plain(n))
  BY <1>2, ShapePut
<1> QED BY <1>3, <1>4 DEF set_head_size, v

(* The other fields of a header of the heap are none of its shape. *)
LEMMA SameHead ==
  ASSUME NEW h \in Heaps, NEW a \in DOMAIN h.mem, NEW v, ~mmapped(h, a), v.size = chunksize(h, a), v.mmapped = FALSE
  PROVE  Shape(Put(h, a, v)) = Shape(h) /\ HeadsOnly(h, Put(h, a, v))
<1>1. Shape(h)[a] = ShapeOf(v) /\ a \in DOMAIN Shape(h)
  <2>1. h.mem[a].mmapped = FALSE /\ h.mem[a].size = v.size
    BY AtType DEF Heads, mmapped, chunksize, At
  <2> QED BY <2>1 DEF Shape, ShapeOf
<1>2. Upd(Shape(h), a, Shape(h)[a]) = Shape(h)
  <2> DEFINE s == Shape(h)
  <2>1. s = [x \in DOMAIN s |-> s[x]] /\ DOMAIN s \union {a} = DOMAIN s
    BY <1>1 DEF Shape
  <2> HIDE DEF s
  <2>2. Upd(s, a, s[a]) = [x \in DOMAIN s |-> s[x]]
    BY <2>1 DEF Upd
  <2> QED BY <2>1, <2>2 DEF s
<1>3. HeadsOnly(h, Put(h, a, v))
  BY DEF Heaps, HeadsOnly, Put
<1> QED BY <1>1, <1>2, <1>3, ShapePut

(* The in-use bits, in the header behind a chunk, are not of the shape. *)
LEMMA FlagsAreSet ==
  ASSUME NEW h \in Heaps, NEW a \in DOMAIN Shape(h), ~Shape(h)[a].mapped
  PROVE  /\ Shape(set_inuse_bit(h, a)) = Shape(h) /\ HeadsOnly(h, set_inuse_bit(h, a))
         /\ Shape(clear_inuse_bit(h, a)) = Shape(h) /\ HeadsOnly(h, clear_inuse_bit(h, a))
<1>1. a \in DOMAIN h.mem /\ ~mmapped(h, a)
  BY ShapeIs
<1> DEFINE v == [At(h, a) EXCEPT !.prev_inuse = TRUE, !.prev_size = 0]
           w == [At(h, a) EXCEPT !.prev_inuse = FALSE]
<1>2. v.size = chunksize(h, a) /\ v.mmapped = FALSE
  BY <1>1, AtType DEF Heads, chunksize, mmapped
<1>3. w.size = chunksize(h, a) /\ w.mmapped = FALSE
  BY <1>1, AtType DEF Heads, chunksize, mmapped
<1> HIDE DEF v, w
<1>4. Shape(Put(h, a, v)) = Shape(h) /\ HeadsOnly(h, Put(h, a, v))
  BY <1>1, <1>2, SameHead
<1>5. Shape(Put(h, a, w)) = Shape(h) /\ HeadsOnly(h, Put(h, a, w))
  BY <1>1, <1>3, SameHead
<1> QED BY <1>4, <1>5 DEF v, w, set_inuse_bit, clear_inuse_bit

(* Nor is the foot, in the header behind: it is of the shape of a mapping  *)
(* only.                                                                   *)
LEMMA FootIsSet ==
  ASSUME NEW h \in Heaps, NEW p, NEW n, p + n \in DOMAIN Shape(h), ~Shape(h)[p + n].mapped
  PROVE  Shape(set_foot(h, p, n)) = Shape(h) /\ HeadsOnly(h, set_foot(h, p, n))
<1> DEFINE a == p + n
           v == [At(h, a) EXCEPT !.prev_size = n]
<1>1. a \in DOMAIN h.mem /\ ~mmapped(h, a)
  BY ShapeIs
<1>2. v.size = chunksize(h, a) /\ v.mmapped = FALSE
  BY <1>1, AtType DEF Heads, chunksize, mmapped
<1> HIDE DEF v, a
<1>3. Shape(Put(h, a, v)) = Shape(h) /\ HeadsOnly(h, Put(h, a, v))
  BY <1>1, <1>2, SameHead
<1> QED BY <1>3 DEF v, a, set_foot

(* The places after one of them has changed. *)
LEMMA HeadsFrame ==
  ASSUME NEW h, NEW g, HeadsOnly(h, g), NEW H
  PROVE  /\ Where(g, H) = Where(h, H) /\ Distinct(g) = Distinct(h) /\ CacheIsOwned(g) = CacheIsOwned(h)
<1>1. Where(g, H) = Where(h, H)
  BY DEF Where, HeadsOnly
<1> QED BY <1>1 DEF HeadsOnly, Distinct, CacheIsOwned, NoCache

BinOnly(h, g, b, l) ==
  /\ h.bins \in Bins /\ g.bins = [h.bins EXCEPT ![b] = l]
  /\ g.top = h.top /\ g.fast = h.fast /\ g.entries = h.entries /\ g.tcache = h.tcache
FastOnly(h, g, i, l) ==
  /\ h.fast \in Fasts /\ g.fast = [h.fast EXCEPT ![i] = l]
  /\ g.top = h.top /\ g.bins = h.bins /\ g.entries = h.entries /\ g.tcache = h.tcache
EntryOnly(h, g, i, l) ==
  /\ h.entries \in Caches /\ g.entries = [h.entries EXCEPT ![i] = l]
  /\ g.top = h.top /\ g.bins = h.bins /\ g.fast = h.fast /\ g.tcache = h.tcache

Changes(h, g, H, K, b, l) ==
  /\ Where(g, K)[Hand] = K /\ Where(g, K)[b] = ToSet(l)
  /\ \A x \in Int \ {Hand, b} : Where(g, K)[x] = Where(h, H)[x]
  /\ IsInjective(l) /\ Distinct(h) => Distinct(g)

(* A bin that is written is the one place that changes. *)
LEMMA WhereBin ==
  ASSUME NEW h, NEW g, NEW H, NEW K, NEW b \in 1 .. NBINS - 1, NEW l, BinOnly(h, g, b, l)
  PROVE  /\ Changes(h, g, H, K, b, l)
         /\ CacheIsOwned(g) = CacheIsOwned(h)
<1>1. g.bins[b] = l /\ \A x \in (1 .. NBINS - 1) \ {b} : g.bins[x] = h.bins[x]
  BY DEF Bins, BinOnly
<1>2. Where(g, K)[Hand] = K /\ Where(g, K)[b] = ToSet(l)
  <2>1. Where(g, K)[Hand] = K /\ \A j \in 1 .. NBINS - 1 : Where(g, K)[j] = ToSet(g.bins[j])
    BY WhereIs
  <2> QED BY <1>1, <2>1
<1>3. ASSUME NEW x \in Int \ {Hand, b} PROVE Where(g, K)[x] = Where(h, H)[x]
  BY <1>1 DEF Where, BinOnly
<1>4. IsInjective(l) /\ Distinct(h) => Distinct(g)
  BY <1>1 DEF Distinct, BinOnly
<1> QED BY <1>2, <1>3, <1>4 DEF Changes, CacheIsOwned, NoCache, BinOnly

(* So for a fastbin. *)
LEMMA WhereFast ==
  ASSUME NEW h, NEW g, NEW H, NEW K, NEW i \in 0 .. NFASTBINS - 1, NEW l, FastOnly(h, g, i, l)
  PROVE  /\ Changes(h, g, H, K, NBINS + i, l)
         /\ CacheIsOwned(g) = CacheIsOwned(h)
<1>1. g.fast[i] = l /\ \A x \in (0 .. NFASTBINS - 1) \ {i} : g.fast[x] = h.fast[x]
  BY DEF Fasts, FastOnly
<1>2. Where(g, K)[Hand] = K /\ Where(g, K)[NBINS + i] = ToSet(l)
  <2>1. Where(g, K)[Hand] = K /\ \A j \in 0 .. NFASTBINS - 1 : Where(g, K)[NBINS + j] = ToSet(g.fast[j])
    BY WhereIs
  <2> QED BY <1>1, <2>1
<1>3. ASSUME NEW x \in Int \ {Hand, NBINS + i} PROVE Where(g, K)[x] = Where(h, H)[x]
  <2>1. CASE x \in FastPlaces
    <3>1. x - NBINS \in (0 .. NFASTBINS - 1) \ {i}
      BY <1>3, <2>1, PtAssumption, SmallEnough DEF FastPlaces
    <3> QED BY <1>1, <3>1 DEF Where, FastOnly
  <2>2. CASE x \notin FastPlaces
    BY <2>2 DEF Where, FastOnly
  <2> QED BY <2>1, <2>2
<1>4. IsInjective(l) /\ Distinct(h) => Distinct(g)
  BY <1>1 DEF Distinct, FastOnly
<1> QED BY <1>2, <1>3, <1>4 DEF Changes, CacheIsOwned, NoCache, FastOnly

(* So for an entry of the cache. *)
LEMMA WhereEntry ==
  ASSUME NEW h, NEW g, NEW H, NEW K, NEW i \in 0 .. TCACHE_MAX_BINS - 1, NEW l, EntryOnly(h, g, i, l)
  PROVE  Changes(h, g, H, K, NBINS + NFASTBINS + i, l)
<1>1. g.entries[i] = l /\ \A x \in (0 .. TCACHE_MAX_BINS - 1) \ {i} : g.entries[x] = h.entries[x]
  BY DEF Caches, EntryOnly
<1>2. Where(g, K)[Hand] = K /\ Where(g, K)[NBINS + NFASTBINS + i] = ToSet(l)
  <2>1. Where(g, K)[Hand] = K /\ \A j \in 0 .. TCACHE_MAX_BINS - 1 : Where(g, K)[NBINS + NFASTBINS + j] = ToSet(g.entries[j])
    BY WhereIs
  <2> QED BY <1>1, <2>1
<1>3. ASSUME NEW x \in Int \ {Hand, NBINS + NFASTBINS + i} PROVE Where(g, K)[x] = Where(h, H)[x]
  <2>1. CASE x \in CachePlaces
    <3>1. x - NBINS - NFASTBINS \in (0 .. TCACHE_MAX_BINS - 1) \ {i}
      BY <1>3, <2>1, PtAssumption, SmallEnough DEF CachePlaces
    <3> QED BY <1>1, <3>1 DEF Where, EntryOnly
  <2>2. CASE x \notin CachePlaces
    BY <2>2 DEF Where, EntryOnly
  <2> QED BY <2>1, <2>2
<1>4. IsInjective(l) /\ Distinct(h) => Distinct(g)
  BY <1>1 DEF Distinct, EntryOnly
<1> QED BY <1>2, <1>3, <1>4 DEF Changes

(* A chunk of one place is put in another as it is. *)
Rehouses(h, g, H, K, p, x, y) ==
  /\ p \in Int /\ x \in Int /\ y \in Int /\ x # y
  /\ Shape(g) = Shape(h) /\ g.top = h.top /\ g.brk = h.brk /\ g.maps = h.maps /\ g.needless = h.needless
  /\ Distinct(g) /\ CacheIsOwned(g)
  /\ p \in Where(h, H)[x] /\ Suits(y, Shape(h)[p])
  /\ Where(g, K)[x] = Where(h, H)[x] \ {p} /\ Where(g, K)[y] = Where(h, H)[y] \union {p}
  /\ \A z \in Int \ {x, y} : Where(g, K)[z] = Where(h, H)[z]

(* A chunk that goes from its place to another that suits it, as it is,    *)
(* keeps the layout.                                                       *)
LEMMA Rehoused ==
  ASSUME NEW h, NEW g, NEW H, NEW K, NEW F, NEW p, NEW x, NEW y, Layout(h, H, F), Rehouses(h, g, H, K, p, x, y)
  PROVE  Layout(g, K, F)
<1> DEFINE s == Shape(h)
           E == Where(h, H)
           D == Where(g, K)
<1>1. Placed(s, E)
  BY DEF Layout
<1>2. /\ p \in Int /\ x \in Int /\ y \in Int /\ x # y /\ p \in E[x] /\ Suits(y, s[p])
      /\ D[x] = E[x] \ {p} /\ D[y] = E[y] \union {p} /\ \A z \in Int \ {x, y} : D[z] = E[z]
  BY DEF Rehouses
<1> HIDE DEF s, E, D
<1>3. Placed(s, D)
  BY <1>1, <1>2, Moved
<1> QED BY <1>3 DEF Layout, Rehouses, s, D

(* The facts of a chunk in hand. *)
LEMMA InHand ==
  ASSUME NEW h, NEW H, NEW F, Layout(h, H, F), NEW p \in H, p \in Int
  PROVE  /\ Only(Where(h, H), p, Hand) /\ p \in DOMAIN Shape(h)
         /\ ~Shape(h)[p].mapped => Shape(h)[p].size >= MINSIZE /\ Followed(Shape(h), p)
         /\ p # h.top /\ p # h.tcache
<1>1. Placed(Shape(h), Where(h, H)) /\ p \in Where(h, H)[Hand] /\ Hand \in Int /\ Top \in Int /\ Own \in Int
  BY WhereIs, Elsewhere DEF Layout
<1>2. Only(Where(h, H), p, Hand) /\ p \in DOMAIN Shape(h) /\ Suits(Hand, Shape(h)[p])
  BY <1>1, PlacedOnly
<1>3. p \notin Where(h, H)[Top] /\ p \notin Where(h, H)[Own]
  BY <1>1, <1>2, Elsewhere DEF Only
<1>4. p # 0
  <2>1. Tiles(Shape(h), GivenTo(h.brk, h.maps, F)) /\ Sized(Shape(h)) /\ Kernel(Shape(h), h.brk, h.maps, F)
    BY DEF Layout, Ground
  <2>2. Has(Shape(h), p, p)
    BY <1>2, <2>1 DEF Sized, Has
  <2>3. p \in GivenTo(h.brk, h.maps, F)
    BY <1>2, <2>1, <2>2 DEF Tiles
  <2>4. \A r \in h.maps : 0 \notin Region(r[1], r[2])
    BY <2>1, PtAssumption, PtHeapAssumption DEF Kernel, Region
  <2>5. 0 \notin Region(FirstBrk, h.brk - FirstBrk)
    BY PtHeapAssumption DEF Region
  <2> QED BY <2>3, <2>4, <2>5 DEF GivenTo, MapWords
<1>5. p # h.top /\ p # h.tcache
  BY <1>3, <1>4, WhereIs, PtAssumption
<1>6. ~Shape(h)[p].mapped => Shape(h)[p].size >= MINSIZE /\ Followed(Shape(h), p)
  BY <1>2, <1>5 DEF Suits, Layout, Ground, Ends
<1> QED BY <1>2, <1>5, <1>6

(* Sound heaps are good, and laid out while no check has failed. *)
LEMMA SoundIs ==
  ASSUME NEW H, NEW F, NEW h \in Sound(H, F)
  PROVE  h \in Good /\ h \in Heaps /\ (~h.aborted => Layout(h, H, F))
BY DEF Sound, Good

(* A check (malloc_printerr) changes nothing, unless it ends the program. *)
LEMMA CheckIs ==
  ASSUME NEW h \in Good, NEW ok
  PROVE  /\ Check(h, ok) \in Good /\ SameLayout(h, Check(h, ok))
         /\ ~Check(h, ok).aborted => ok /\ ~h.aborted /\ Check(h, ok) = h
<1>1. Check(h, ok) \in Good
  BY CheckKeeps
<1>2. h \in Heaps
  BY DEF Good
<1>3. CASE ok
  BY <1>1, <1>3 DEF Check, SameLayout
<1>4. CASE ~ok
  <2>1. Check(h, ok).aborted = TRUE /\ SameLayout(h, Check(h, ok))
    BY <1>2, <1>4 DEF Check, Heaps, SameLayout
  <2> QED BY <1>1, <2>1
<1> QED BY <1>3, <1>4

(* So a check keeps the layout. *)
LEMMA CheckIsSound ==
  ASSUME NEW H, NEW F, NEW h \in Sound(H, F), NEW ok, NEW C
  PROVE  Check(h, ok) \in Sound(H, F) /\ Onward(h, Check(h, ok), C)
BY SoundIs, CheckIs, SoundFrame

(* What a header says, and the shape of the chunk. *)
LEMMA SizeIs ==
  ASSUME NEW h, NEW p \in DOMAIN Shape(h)
  PROVE  chunksize(h, p) = Shape(h)[p].size /\ mmapped(h, p) = Shape(h)[p].mapped /\ p \in DOMAIN h.mem
BY ShapeIs

(* Flags and feet that are written keep the layout. *)
LEMMA HeadsSound ==
  ASSUME NEW H, NEW F, NEW h \in Sound(H, F), NEW g \in Good, NEW C, Shape(g) = Shape(h), HeadsOnly(h, g)
  PROVE  g \in Sound(H, F) /\ Onward(h, g, C)
<1>1. h.aborted = g.aborted /\ Where(g, H) = Where(h, H) /\ Distinct(g) = Distinct(h) /\ CacheIsOwned(g) = CacheIsOwned(h)
  BY HeadsFrame DEF HeadsOnly
<1>2. Layout(h, H, F) => Layout(g, H, F)
  BY <1>1 DEF Layout, HeadsOnly
<1> QED BY <1>1, <1>2 DEF Sound, Onward, HeadsOnly

(* unlink_chunk: a chunk goes from its bin to the hand. *)
LEMMA UnlinkIsSound ==
  ASSUME NEW H \in SUBSET Int, NEW F, NEW h \in Sound(H, F), NEW p, NEW C
  PROVE  /\ unlink_chunk(h, p) \in Sound(H \union {p}, F) /\ Onward(h, unlink_chunk(h, p), C)
         /\ unlink_chunk(h, p).mem = h.mem /\ unlink_chunk(h, p).top = h.top
         /\ ~unlink_chunk(h, p).aborted =>
              /\ p \notin H /\ p \in DOMAIN Shape(h) /\ ~Shape(h)[p].mapped /\ Shape(h)[p].size >= MINSIZE
              /\ p # h.top /\ chunksize(h, p) = prev_size(h, next_chunk(h, p)) /\ p \in Int
<1> DEFINE ok == chunksize(h, p) = prev_size(h, next_chunk(h, p)) /\ InBin(h, p)
           c == Check(h, ok)
           g == unlink_chunk(h, p)
<1>1. h \in Good /\ (~h.aborted => Layout(h, H, F)) /\ g \in Good
  BY SoundIs, UnlinkKeeps
<1>2. c \in Good /\ SameLayout(h, c) /\ (~c.aborted => ok /\ ~h.aborted)
  BY <1>1, CheckIs
<1>3. /\ g.mem = c.mem /\ g.top = c.top /\ g.fast = c.fast /\ g.entries = c.entries /\ g.tcache = c.tcache
      /\ g.brk = c.brk /\ g.maps = c.maps /\ g.needless = c.needless /\ g.aborted = c.aborted
      /\ g.bins = [b \in DOMAIN h.bins |-> RemoveFirst(h.bins[b], p)]
  BY <1>2 DEF unlink_chunk, Good, Heaps
<1> HIDE DEF c, g
<1>4. /\ g.mem = h.mem /\ g.top = h.top /\ g.fast = h.fast /\ g.entries = h.entries /\ g.tcache = h.tcache
      /\ g.brk = h.brk /\ g.maps = h.maps /\ g.needless = h.needless
      /\ (~g.aborted => ok /\ ~h.aborted)
  BY <1>2, <1>3 DEF SameLayout
<1>5. Shape(g) = Shape(h)
  BY <1>4 DEF Shape
<1>6. ASSUME ~g.aborted
      PROVE  /\ Layout(g, H \union {p}, F)
             /\ p \notin H /\ p \in DOMAIN Shape(h) /\ ~Shape(h)[p].mapped /\ Shape(h)[p].size >= MINSIZE
             /\ p # h.top /\ chunksize(h, p) = prev_size(h, next_chunk(h, p)) /\ p \in Int
  <2> DEFINE E == Where(h, H)
             K == H \union {p}
             D == Where(g, K)
  <2>1. Layout(h, H, F) /\ ok /\ Placed(Shape(h), E) /\ Distinct(h) /\ CacheIsOwned(h)
    BY <1>1, <1>4, <1>6 DEF Layout
  <2>2. DOMAIN h.bins = 1 .. NBINS - 1 /\ \A b \in 1 .. NBINS - 1 : h.bins[b] \in Seq(Aligned)
    BY <1>1, GoodBins DEF Bins, Lists
  <2>3. \A b \in 1 .. NBINS - 1 : E[b] = ToSet(h.bins[b]) /\ D[b] = ToSet(g.bins[b])
    BY WhereIs
  <2>4. \A b \in 1 .. NBINS - 1 : /\ g.bins[b] = RemoveFirst(h.bins[b], p)
                                  /\ IsInjective(g.bins[b]) /\ ToSet(g.bins[b]) = ToSet(h.bins[b]) \ {p}
    BY <1>3, <2>1, <2>2, RemovedOnce DEF Distinct
  <2>5. PICK b \in 1 .. NBINS - 1 : p \in ToSet(h.bins[b])
    BY <2>1, <2>2 DEF InBin, Contains, ToSet
  <2>6. p \in Int /\ p \in E[b] /\ b \in Int /\ b # Hand /\ b # Top /\ b # Own
    <3>1. ToSet(h.bins[b]) \subseteq Aligned
      BY <2>2 DEF ToSet
    <3> QED BY <2>3, <2>5, <3>1, Elsewhere DEF Aligned
  <2> HIDE DEF E, D
  <2>7. Only(E, p, b) /\ p \in DOMAIN Shape(h) /\ Suits(b, Shape(h)[p])
    BY <2>1, <2>6, PlacedOnly
  <2>8. ~Shape(h)[p].mapped /\ Shape(h)[p].size >= MINSIZE /\ Suits(Hand, Shape(h)[p])
    BY <2>6, <2>7, Elsewhere DEF Suits
  <2>9. E[Hand] = H /\ E[Top] = {h.top} \ {0} /\ D[Hand] = K
    BY WhereIs DEF E, D
  <2>10. p \notin H /\ p # h.top
    <3>1. p \notin E[Hand] /\ p \notin E[Top]
      BY <2>6, <2>7, Elsewhere DEF Only
    <3>2. Tiles(Shape(h), GivenTo(h.brk, h.maps, F)) /\ Sized(Shape(h)) /\ Kernel(Shape(h), h.brk, h.maps, F)
      BY <2>1 DEF Layout, Ground
    <3>3. Has(Shape(h), p, p)
      BY <2>7, <3>2 DEF Sized, Has
    <3>4. p \in GivenTo(h.brk, h.maps, F)
      BY <2>6, <2>7, <3>2, <3>3 DEF Tiles
    <3>5. \A r \in h.maps : 0 \notin Region(r[1], r[2])
      BY <3>2, PtAssumption, PtHeapAssumption DEF Kernel, Region
    <3>6. 0 \notin Region(FirstBrk, h.brk - FirstBrk)
      BY PtHeapAssumption DEF Region
    <3>7. p # 0
      BY <3>4, <3>5, <3>6 DEF GivenTo, MapWords
    <3> QED BY <2>9, <3>1, <3>7
  <2>11. \A x \in Int \ {Hand, b} : D[x] = E[x]
    <3> SUFFICES ASSUME NEW x \in Int, x # Hand, x # b PROVE D[x] = E[x]
      OBVIOUS
    <3>1. CASE x \in 1 .. NBINS - 1
      <4>1. p \notin E[x]
        BY <2>7, <3>1 DEF Only
      <4> QED BY <2>3, <2>4, <3>1, <4>1 DEF E, D
    <3>2. CASE x \notin 1 .. NBINS - 1
      BY <1>4, <3>2 DEF E, D, Where
    <3> QED BY <3>1, <3>2
  <2>12. D[b] = E[b] \ {p} /\ D[Hand] = E[Hand] \union {p} /\ Distinct(g) /\ CacheIsOwned(g)
    <3>1. D[b] = E[b] \ {p}
      BY <2>3, <2>4 DEF E, D
    <3>2. Distinct(g)
      BY <1>4, <2>1, <2>4 DEF Distinct
    <3>3. CacheIsOwned(g)
      BY <1>4, <2>1 DEF CacheIsOwned, NoCache
    <3> QED BY <2>9, <3>1, <3>2, <3>3
  <2>13. Layout(g, K, F)
    <3> HIDE DEF K
    <3>1. Hand \in Int /\ \A x \in Int \ {b, Hand} : D[x] = E[x]
      BY <2>11, Elsewhere
    <3>2. Shape(g) = Shape(h) /\ g.top = h.top /\ g.brk = h.brk /\ g.maps = h.maps /\ g.needless = h.needless
      BY <1>4, <1>5
    <3>3. /\ Where(g, K)[b] = Where(h, H)[b] \ {p} /\ Where(g, K)[Hand] = Where(h, H)[Hand] \union {p}
          /\ \A x \in Int \ {b, Hand} : Where(g, K)[x] = Where(h, H)[x]
          /\ p \in Where(h, H)[b] /\ Distinct(g) /\ CacheIsOwned(g)
      BY <2>6, <2>12, <3>1 DEF E, D
    <3>4. p \in Int /\ b \in Int /\ Hand \in Int /\ b # Hand /\ Suits(Hand, Shape(h)[p]) /\ Layout(h, H, F)
      BY <2>1, <2>6, <2>8, Elsewhere
    <3>5. Rehouses(h, g, H, K, p, b, Hand)
      BY <3>2, <3>3, <3>4 DEF Rehouses
    <3> QED BY <3>4, <3>5, Rehoused
  <2> QED BY <2>1, <2>6, <2>7, <2>8, <2>10, <2>13
<1>7. g \in Sound(H \union {p}, F)
  BY <1>1, <1>6 DEF Sound
<1>8. Onward(h, g, C)
  BY <1>4, <1>5 DEF Onward
<1> QED BY <1>4, <1>6, <1>7, <1>8 DEF g

(* A chunk in hand is put in a bin. *)
LEMMA IntoBin ==
  ASSUME NEW h, NEW g, NEW H \in SUBSET Int, NEW F, NEW p \in H, NEW b \in 1 .. NBINS - 1, NEW l,
         Layout(h, H, F), ~Shape(h)[p].mapped, b # 1 => bin_index(Shape(h)[p].size) = b,
         BinOnly(h, g, b, l), g.mem = h.mem, g.brk = h.brk, g.maps = h.maps, g.needless = h.needless,
         p \notin ToSet(h.bins[b]) => IsInjective(l), ToSet(l) = ToSet(h.bins[b]) \union {p}
  PROVE  Layout(g, H \ {p}, F)
<1> DEFINE E == Where(h, H)
           K == H \ {p}
           D == Where(g, K)
<1>1. Only(E, p, Hand) /\ p \in DOMAIN Shape(h) /\ Shape(h)[p].size >= MINSIZE
  BY InHand
<1>2. E[Hand] = H /\ E[b] = ToSet(h.bins[b])
  <2>1. E[Hand] = H /\ \A j \in 1 .. NBINS - 1 : E[j] = ToSet(h.bins[j])
    BY WhereIs
  <2> QED BY <2>1
<1>3. b \in Int /\ b # Hand /\ Hand \in Int /\ b \notin FastPlaces /\ b \notin CachePlaces
  BY Elsewhere
<1>4. p \notin ToSet(h.bins[b])
  BY <1>1, <1>2, <1>3 DEF Only
<1>5. IsInjective(l) /\ Distinct(h) /\ CacheIsOwned(h)
  BY <1>4 DEF Layout
<1> HIDE DEF K
<1>6. /\ D[Hand] = K /\ D[b] = ToSet(l) /\ Distinct(g) /\ CacheIsOwned(g)
      /\ \A x \in Int \ {Hand, b} : D[x] = E[x]
  <2>1. Changes(h, g, H, K, b, l) /\ CacheIsOwned(g) = CacheIsOwned(h)
    BY WhereBin
  <2> QED BY <1>5, <2>1 DEF Changes
<1>7. Shape(g) = Shape(h) /\ g.top = h.top
  BY DEF Shape, BinOnly
<1>8. Suits(b, Shape(h)[p])
  <2>1. b \in 2 .. NBINS - 1 => b # 1
    OBVIOUS
  <2> QED BY <1>1, <1>3, <2>1 DEF Suits
<1>9. D[Hand] = E[Hand] \ {p} /\ D[b] = E[b] \union {p} /\ p \in E[Hand] /\ p \in Int
  BY <1>2, <1>6 DEF K
<1>10. Rehouses(h, g, H, K, p, Hand, b)
  BY <1>3, <1>6, <1>7, <1>8, <1>9 DEF Rehouses
<1>11. Layout(g, K, F)
  BY <1>10, Rehoused
<1> QED BY <1>11 DEF K

(* PutUnsorted *)
LEMMA PutUnsortedIsSound ==
  ASSUME NEW H \in SUBSET Int, NEW F, NEW h \in Sound(H, F), NEW p \in H, p \in Aligned, NEW C,
         ~h.aborted => ~Shape(h)[p].mapped
  PROVE  PutUnsorted(h, p) \in Sound(H \ {p}, F) /\ Onward(h, PutUnsorted(h, p), C)
<1> DEFINE l == <<p>> \o h.bins[1]
           g == PutUnsorted(h, p)
<1>1. h \in Good /\ h \in Heaps /\ (~h.aborted => Layout(h, H, F)) /\ g \in Good
  BY SoundIs, PutUnsortedKeeps
<1>2. /\ BinOnly(h, g, 1, l) /\ g.mem = h.mem /\ g.brk = h.brk /\ g.maps = h.maps /\ g.needless = h.needless
      /\ g.aborted = h.aborted /\ g.tcache = h.tcache
  BY <1>1 DEF PutUnsorted, BinOnly, Heaps
<1>3. 1 \in 1 .. NBINS - 1
  BY PtAssumption DEF MALLOC_ALIGNMENT, SIZE_SZ, MINSIZE
<1>4. h.bins[1] \in Seq(Aligned)
  BY <1>1, <1>3, GoodBins DEF Lists
<1>5. ToSet(l) = ToSet(h.bins[1]) \union {p}
  BY <1>4, PushedOnce
<1>6. ASSUME ~h.aborted PROVE Layout(g, H \ {p}, F)
  <2>1. Layout(h, H, F) /\ ~Shape(h)[p].mapped
    BY <1>1, <1>6
  <2>2. IsInjective(h.bins[1])
    BY <1>3, <2>1 DEF Layout, Distinct
  <2>3. p \notin ToSet(h.bins[1]) => IsInjective(l)
    BY <1>4, <2>2, PushedOnce
  <2> HIDE DEF l, g
  <2> QED BY <1>2, <1>3, <1>5, <2>1, <2>3, IntoBin
<1>7. Shape(g) = Shape(h)
  BY <1>2 DEF Shape
<1> HIDE DEF g
<1> QED BY <1>1, <1>2, <1>6, <1>7 DEF Sound, Onward, g

(* No chunk is at 0. *)
LEMMA NotZero ==
  ASSUME NEW h, NEW H, NEW F, Layout(h, H, F), NEW p \in DOMAIN Shape(h)
  PROVE  p \in Int /\ p > 0
<1>1. Tiles(Shape(h), GivenTo(h.brk, h.maps, F)) /\ Sized(Shape(h)) /\ Kernel(Shape(h), h.brk, h.maps, F)
  BY DEF Layout, Ground
<1>2. Has(Shape(h), p, p) /\ p \in Int
  BY <1>1 DEF Sized, Has
<1>3. p \in GivenTo(h.brk, h.maps, F)
  BY <1>1, <1>2 DEF Tiles
<1>4. \A r \in h.maps : \A x \in Region(r[1], r[2]) : x > 0
  BY <1>1, PtAssumption, PtHeapAssumption DEF Kernel, Region
<1>5. \A x \in Region(FirstBrk, h.brk - FirstBrk) : x > 0
  BY PtHeapAssumption DEF Region
<1> QED BY <1>2, <1>3, <1>4, <1>5 DEF GivenTo, MapWords

(* The facts of a chunk in a place. *)
LEMMA InPlace ==
  ASSUME NEW h, NEW H, NEW F, Layout(h, H, F), NEW p \in Int, NEW x \in Int, p \in Where(h, H)[x]
  PROVE  /\ Only(Where(h, H), p, x) /\ p \in DOMAIN Shape(h) /\ Suits(x, Shape(h)[p]) /\ p > 0
         /\ x > 0 => /\ p \notin H /\ p # h.top /\ p # h.tcache
                     /\ ~Shape(h)[p].mapped /\ Shape(h)[p].size >= MINSIZE /\ Followed(Shape(h), p)
         /\ Suits(Hand, Shape(h)[p])
<1>1. Placed(Shape(h), Where(h, H)) /\ Hand \in Int /\ Top \in Int /\ Own \in Int
  BY Elsewhere DEF Layout
<1>2. Only(Where(h, H), p, x) /\ p \in DOMAIN Shape(h) /\ Suits(x, Shape(h)[p])
  BY <1>1, PlacedOnly
<1>3. p > 0
  BY <1>2, NotZero
<1>4. Suits(Hand, Shape(h)[p])
  BY <1>2, Elsewhere DEF Suits
<1>5. ASSUME x > 0
      PROVE  /\ p \notin H /\ p # h.top /\ p # h.tcache
             /\ ~Shape(h)[p].mapped /\ Shape(h)[p].size >= MINSIZE /\ Followed(Shape(h), p)
  <2>1. x # Hand /\ x # Top /\ x # Own
    BY <1>5 DEF Hand, Top, Own
  <2>2. p \notin Where(h, H)[Hand] /\ p \notin Where(h, H)[Top] /\ p \notin Where(h, H)[Own]
    BY <1>1, <1>2, <2>1 DEF Only
  <2>3. p \notin H /\ p # h.top /\ p # h.tcache
    BY <1>3, <2>2, WhereIs, PtAssumption
  <2>4. ~Shape(h)[p].mapped /\ Shape(h)[p].size >= MINSIZE
    BY <1>2, <2>1 DEF Suits
  <2> QED BY <1>2, <2>3, <2>4 DEF Layout, Ground, Ends
<1> QED BY <1>2, <1>3, <1>4, <1>5

(* A chunk of a bin is in no other place, no mapping, large enough,        *)
(* followed by a chunk, and, but for the unsorted ones, of the sizes of    *)
(* the bin.                                                                *)
LEMMA InBinIs ==
  ASSUME NEW h, NEW H, NEW F, Layout(h, H, F), NEW b \in 1 .. NBINS - 1, NEW p \in ToSet(h.bins[b]), p \in Int
  PROVE  /\ Only(Where(h, H), p, b) /\ p \in DOMAIN Shape(h) /\ p \notin H /\ p # h.top /\ p # h.tcache /\ p > 0
         /\ ~Shape(h)[p].mapped /\ Shape(h)[p].size >= MINSIZE /\ Followed(Shape(h), p)
         /\ b \in 2 .. NBINS - 1 => bin_index(Shape(h)[p].size) = b
<1>1. \A j \in 1 .. NBINS - 1 : Where(h, H)[j] = ToSet(h.bins[j])
  BY WhereIs
<1>2. p \in Where(h, H)[b] /\ b \in Int /\ b > 0
  BY <1>1
<1> QED BY <1>2, InPlace DEF Suits

(* So for a chunk of a fastbin. *)
LEMMA InFastIs ==
  ASSUME NEW h, NEW H, NEW F, Layout(h, H, F), NEW i \in 0 .. NFASTBINS - 1, NEW p \in ToSet(h.fast[i]), p \in Int
  PROVE  /\ Only(Where(h, H), p, NBINS + i) /\ p \in DOMAIN Shape(h) /\ p \notin H /\ p # h.top /\ p # h.tcache /\ p > 0
         /\ ~Shape(h)[p].mapped /\ Shape(h)[p].size >= MINSIZE /\ Followed(Shape(h), p)
         /\ fastbin_index(Shape(h)[p].size) = i
<1>1. \A j \in 0 .. NFASTBINS - 1 : Where(h, H)[NBINS + j] = ToSet(h.fast[j]) /\ NBINS + j \in FastPlaces
  BY WhereIs
<1>2. p \in Where(h, H)[NBINS + i] /\ NBINS + i \in FastPlaces
  BY <1>1
<1>3. NBINS + i \in Int /\ NBINS + i > 0 /\ (NBINS + i) - NBINS = i
  BY <1>2, Elsewhere, PtAssumption, SmallEnough
<1>4. Suits(NBINS + i, Shape(h)[p])
  BY <1>2, <1>3, InPlace
<1>5. fastbin_index(Shape(h)[p].size) = i
  BY <1>2, <1>3, <1>4 DEF Suits
<1> QED BY <1>2, <1>3, <1>5, InPlace

(* So for a chunk of the cache. *)
LEMMA InEntryIs ==
  ASSUME NEW h, NEW H, NEW F, Layout(h, H, F), NEW i \in 0 .. TCACHE_MAX_BINS - 1, NEW p \in ToSet(h.entries[i]), p \in Int
  PROVE  /\ Only(Where(h, H), p, NBINS + NFASTBINS + i) /\ p \in DOMAIN Shape(h) /\ p \notin H /\ p # h.top /\ p # h.tcache
         /\ p > 0 /\ ~Shape(h)[p].mapped /\ Shape(h)[p].size >= MINSIZE /\ Followed(Shape(h), p)
         /\ csize2tidx(Shape(h)[p].size) = i
<1>1. \A j \in 0 .. TCACHE_MAX_BINS - 1 : /\ Where(h, H)[NBINS + NFASTBINS + j] = ToSet(h.entries[j])
                                          /\ NBINS + NFASTBINS + j \in CachePlaces
  BY WhereIs
<1> DEFINE x == NBINS + NFASTBINS + i
<1>2. p \in Where(h, H)[x] /\ x \in CachePlaces
  BY <1>1
<1>3. x \in Int /\ x > 0 /\ x - NBINS - NFASTBINS = i
  BY <1>2, Elsewhere, PtAssumption, SmallEnough
<1> HIDE DEF x
<1>4. Suits(x, Shape(h)[p])
  BY <1>2, <1>3, InPlace
<1>5. csize2tidx(Shape(h)[p].size) = i
  BY <1>2, <1>3, <1>4 DEF Suits
<1>6. /\ Only(Where(h, H), p, x) /\ p \in DOMAIN Shape(h) /\ p \notin H /\ p # h.top /\ p # h.tcache
      /\ p > 0 /\ ~Shape(h)[p].mapped /\ Shape(h)[p].size >= MINSIZE /\ Followed(Shape(h), p)
  BY <1>2, <1>3, InPlace
<1> QED BY <1>5, <1>6 DEF x

(* Chunks of the lists come to hand. *)
Releases(h, g, H, K, P) ==
  /\ P \subseteq Int
  /\ Shape(g) = Shape(h) /\ g.top = h.top /\ g.brk = h.brk /\ g.maps = h.maps /\ g.needless = h.needless
  /\ Distinct(g) /\ CacheIsOwned(g)
  /\ \A p \in P : \E x \in Int : p \in Where(h, H)[x]
  /\ Where(g, K)[Hand] = Where(h, H)[Hand] \union P
  /\ \A x \in Int \ {Hand} : Where(g, K)[x] = Where(h, H)[x] \ P

(* Chunks P that leave a list for the hand, as they are, keep the layout. *)
LEMMA Released ==
  ASSUME NEW h, NEW g, NEW H, NEW K, NEW F, NEW P, Layout(h, H, F), Releases(h, g, H, K, P)
  PROVE  Layout(g, K, F)
<1> DEFINE s == Shape(h)
           E == Where(h, H)
           D == Where(g, K)
<1>1. Placed(s, E) /\ Hand \in Int
  BY Elsewhere DEF Layout
<1>2. /\ \A p \in P : p \in Int /\ \E x \in Int : p \in E[x]
      /\ D[Hand] = E[Hand] \union P /\ \A x \in Int \ {Hand} : D[x] = E[x] \ P
  BY DEF Releases
<1>3. \A p \in P : \A x \in Int : p \in E[x] => p \in DOMAIN s /\ Suits(Hand, s[p])
  BY <1>2, InPlace
<1> HIDE DEF s, E, D
<1>4. \A p \in P : p \in Int => OkAt(s, D, p)
  <2> SUFFICES ASSUME NEW p \in P PROVE OkAt(s, D, p)
    OBVIOUS
  <2>1. p \in DOMAIN s /\ Suits(Hand, s[p])
    BY <1>2, <1>3
  <2>2. Only(D, p, Hand)
    BY <1>1, <1>2 DEF Only
  <2> QED BY <1>1, <2>1, <2>2, OkOnly
<1>5. \A p \in Int \ P : \A x \in Int : p \in D[x] <=> p \in E[x]
  BY <1>2
<1>6. \A p \in Int \ P : /\ p \in DOMAIN s <=> p \in DOMAIN s
                         /\ p \in DOMAIN s => s[p] = s[p]
                         /\ \A x \in Int : p \in D[x] <=> p \in E[x]
  BY <1>5
<1>7. Placed(s, D)
  BY <1>1, <1>4, <1>6, PlacedBut
<1> QED BY <1>7 DEF Layout, Releases, s, D

(* Chunks that are taken off a bin are in hand. *)
LEMMA OutOfBin ==
  ASSUME NEW h, NEW g, NEW H, NEW F, NEW b \in 1 .. NBINS - 1, NEW l, NEW P \in SUBSET Int, Layout(h, H, F),
         P \subseteq ToSet(h.bins[b]), IsInjective(l), ToSet(l) = ToSet(h.bins[b]) \ P,
         BinOnly(h, g, b, l), g.mem = h.mem, g.brk = h.brk, g.maps = h.maps, g.needless = h.needless
  PROVE  Layout(g, H \union P, F)
<1> DEFINE E == Where(h, H)
           K == H \union P
           D == Where(g, K)
<1>1. E[Hand] = H /\ \A j \in 1 .. NBINS - 1 : E[j] = ToSet(h.bins[j])
  BY WhereIs
<1>2. b \in Int /\ b # Hand /\ Hand \in Int
  BY Elsewhere
<1>3. \A p \in P : Only(E, p, b) /\ p \in E[b]
  BY <1>1, <1>2, InBinIs
<1> HIDE DEF K
<1>4. /\ D[Hand] = K /\ D[b] = ToSet(l) /\ Distinct(g) /\ CacheIsOwned(g)
      /\ \A x \in Int \ {Hand, b} : D[x] = E[x]
  <2>1. Distinct(h) /\ CacheIsOwned(h) /\ IsInjective(l)
    BY DEF Layout
  <2>2. Changes(h, g, H, K, b, l) /\ CacheIsOwned(g) = CacheIsOwned(h)
    BY WhereBin
  <2> QED BY <2>1, <2>2 DEF Changes
<1>5. Shape(g) = Shape(h) /\ g.top = h.top
  BY DEF Shape, BinOnly
<1> HIDE DEF E, D
<1>6. ASSUME NEW x \in Int \ {Hand} PROVE D[x] = E[x] \ P
  <2>1. CASE x = b
    BY <1>1, <1>4, <2>1
  <2>2. CASE x # b
    <3>1. \A p \in P : p \notin E[x]
      BY <1>3, <2>2, <1>6 DEF Only
    <3> QED BY <1>4, <1>6, <2>2, <3>1
  <2> QED BY <2>1, <2>2
<1>7. D[Hand] = E[Hand] \union P
  BY <1>1, <1>4 DEF K
<1>8. Releases(h, g, H, K, P)
  BY <1>2, <1>3, <1>4, <1>5, <1>6, <1>7 DEF Releases, E, D
<1>9. Layout(g, K, F)
  BY <1>8, Released
<1> QED BY <1>9 DEF K

(* Chunks that are taken off a fastbin are in hand. *)
LEMMA OutOfFast ==
  ASSUME NEW h, NEW g, NEW H, NEW F, NEW i \in 0 .. NFASTBINS - 1, NEW l, NEW P \in SUBSET Int, Layout(h, H, F),
         P \subseteq ToSet(h.fast[i]), IsInjective(l), ToSet(l) = ToSet(h.fast[i]) \ P,
         FastOnly(h, g, i, l), g.mem = h.mem, g.brk = h.brk, g.maps = h.maps, g.needless = h.needless
  PROVE  Layout(g, H \union P, F)
<1> DEFINE E == Where(h, H)
           K == H \union P
           D == Where(g, K)
           b == NBINS + i
<1>1. E[Hand] = H /\ \A j \in 0 .. NFASTBINS - 1 : E[NBINS + j] = ToSet(h.fast[j]) /\ NBINS + j \in FastPlaces
  BY WhereIs
<1>2. b \in Int /\ b # Hand /\ Hand \in Int
  BY <1>1, Elsewhere
<1>3. \A p \in P : Only(E, p, b) /\ p \in E[b]
  BY <1>1, <1>2, InFastIs
<1> HIDE DEF K
<1>4. /\ D[Hand] = K /\ D[b] = ToSet(l) /\ Distinct(g) /\ CacheIsOwned(g)
      /\ \A x \in Int \ {Hand, b} : D[x] = E[x]
  <2>1. Distinct(h) /\ CacheIsOwned(h) /\ IsInjective(l)
    BY DEF Layout
  <2>2. Changes(h, g, H, K, b, l) /\ CacheIsOwned(g) = CacheIsOwned(h)
    BY WhereFast
  <2> QED BY <2>1, <2>2 DEF Changes
<1>5. Shape(g) = Shape(h) /\ g.top = h.top
  BY DEF Shape, FastOnly
<1>51. E[b] = ToSet(h.fast[i])
  BY <1>1
<1> HIDE DEF E, D, b
<1>6. ASSUME NEW x \in Int \ {Hand} PROVE D[x] = E[x] \ P
  <2>1. CASE x = b
    BY <1>51, <1>4, <2>1
  <2>2. CASE x # b
    <3>1. \A p \in P : p \notin E[x]
      BY <1>3, <2>2, <1>6 DEF Only
    <3> QED BY <1>4, <1>6, <2>2, <3>1
  <2> QED BY <2>1, <2>2
<1>7. D[Hand] = E[Hand] \union P
  BY <1>1, <1>4 DEF K
<1>8. Releases(h, g, H, K, P)
  BY <1>2, <1>3, <1>4, <1>5, <1>6, <1>7 DEF Releases, E, D
<1>9. Layout(g, K, F)
  BY <1>8, Released
<1> QED BY <1>9 DEF K

(* Chunks that are taken out of the cache are in hand. *)
LEMMA OutOfEntry ==
  ASSUME NEW h, NEW g, NEW H, NEW F, NEW i \in 0 .. TCACHE_MAX_BINS - 1, NEW l, NEW P \in SUBSET Int, Layout(h, H, F),
         P \subseteq ToSet(h.entries[i]), IsInjective(l), ToSet(l) = ToSet(h.entries[i]) \ P, CacheIsOwned(g),
         EntryOnly(h, g, i, l), g.mem = h.mem, g.brk = h.brk, g.maps = h.maps, g.needless = h.needless
  PROVE  Layout(g, H \union P, F)
<1> DEFINE E == Where(h, H)
           K == H \union P
           D == Where(g, K)
           b == NBINS + NFASTBINS + i
<1>1. E[Hand] = H /\ \A j \in 0 .. TCACHE_MAX_BINS - 1 : /\ E[NBINS + NFASTBINS + j] = ToSet(h.entries[j])
                                                         /\ NBINS + NFASTBINS + j \in CachePlaces
  BY WhereIs
<1>2. b \in Int /\ b # Hand /\ Hand \in Int
  BY <1>1, Elsewhere
<1>3. \A p \in P : Only(E, p, b) /\ p \in E[b]
  BY <1>1, <1>2, InEntryIs
<1> HIDE DEF K
<1>4. /\ D[Hand] = K /\ D[b] = ToSet(l) /\ Distinct(g)
      /\ \A x \in Int \ {Hand, b} : D[x] = E[x]
  <2>1. Distinct(h) /\ CacheIsOwned(h) /\ IsInjective(l)
    BY DEF Layout
  <2>2. Changes(h, g, H, K, b, l)
    BY WhereEntry
  <2> QED BY <2>1, <2>2 DEF Changes
<1>5. Shape(g) = Shape(h) /\ g.top = h.top
  BY DEF Shape, EntryOnly
<1>51. E[b] = ToSet(h.entries[i])
  BY <1>1
<1> HIDE DEF E, D, b
<1>6. ASSUME NEW x \in Int \ {Hand} PROVE D[x] = E[x] \ P
  <2>1. CASE x = b
    BY <1>51, <1>4, <2>1
  <2>2. CASE x # b
    <3>1. \A p \in P : p \notin E[x]
      BY <1>3, <2>2, <1>6 DEF Only
    <3> QED BY <1>4, <1>6, <2>2, <3>1
  <2> QED BY <2>1, <2>2
<1>7. D[Hand] = E[Hand] \union P
  BY <1>1, <1>4 DEF K
<1>8. Releases(h, g, H, K, P)
  BY <1>2, <1>3, <1>4, <1>5, <1>6, <1>7 DEF Releases, E, D
<1>9. Layout(g, K, F)
  BY <1>8, Released
<1> QED BY <1>9 DEF K

(* A chunk in hand is put in a fastbin, or in the cache. *)
LEMMA IntoFast ==
  ASSUME NEW h, NEW g, NEW H \in SUBSET Int, NEW F, NEW p \in H, NEW i \in 0 .. NFASTBINS - 1, NEW l,
         Layout(h, H, F), ~Shape(h)[p].mapped, fastbin_index(Shape(h)[p].size) = i,
         FastOnly(h, g, i, l), g.mem = h.mem, g.brk = h.brk, g.maps = h.maps, g.needless = h.needless,
         p \notin ToSet(h.fast[i]) => IsInjective(l), ToSet(l) = ToSet(h.fast[i]) \union {p}
  PROVE  Layout(g, H \ {p}, F)
<1> DEFINE E == Where(h, H)
           K == H \ {p}
           D == Where(g, K)
           b == NBINS + i
<1>1. Only(E, p, Hand) /\ p \in DOMAIN Shape(h) /\ Shape(h)[p].size >= MINSIZE
  BY InHand
<1>2. E[Hand] = H /\ E[b] = ToSet(h.fast[i]) /\ b \in FastPlaces
  <2>1. E[Hand] = H /\ \A j \in 0 .. NFASTBINS - 1 : E[NBINS + j] = ToSet(h.fast[j]) /\ NBINS + j \in FastPlaces
    BY WhereIs
  <2> QED BY <2>1
<1>3. b \in Int /\ b # Hand /\ Hand \in Int /\ b \notin 1 .. NBINS - 1 /\ b \notin CachePlaces /\ b - NBINS = i
  BY <1>2, Elsewhere, PtAssumption
<1>4. p \notin ToSet(h.fast[i])
  BY <1>1, <1>2, <1>3 DEF Only
<1>5. IsInjective(l) /\ Distinct(h) /\ CacheIsOwned(h)
  BY <1>4 DEF Layout
<1> HIDE DEF K
<1>6. /\ D[Hand] = K /\ D[b] = ToSet(l) /\ Distinct(g) /\ CacheIsOwned(g)
      /\ \A x \in Int \ {Hand, b} : D[x] = E[x]
  <2>1. Changes(h, g, H, K, b, l) /\ CacheIsOwned(g) = CacheIsOwned(h)
    BY WhereFast
  <2> QED BY <1>5, <2>1 DEF Changes
<1>7. Shape(g) = Shape(h) /\ g.top = h.top
  BY DEF Shape, FastOnly
<1>8. Suits(b, Shape(h)[p])
  <2>1. b \notin 2 .. NBINS - 1
    BY <1>3
  <2> HIDE DEF b
  <2> QED BY <1>1, <1>3, <2>1 DEF Suits
<1>9. D[Hand] = E[Hand] \ {p} /\ D[b] = E[b] \union {p} /\ p \in E[Hand] /\ p \in Int
  BY <1>2, <1>6 DEF K
<1>10. Rehouses(h, g, H, K, p, Hand, b)
  BY <1>3, <1>6, <1>7, <1>8, <1>9 DEF Rehouses
<1>11. Layout(g, K, F)
  BY <1>10, Rehoused
<1> QED BY <1>11 DEF K

(* A chunk in hand that tcache_put puts into the entry of its size. *)
LEMMA IntoEntry ==
  ASSUME NEW h, NEW g, NEW H \in SUBSET Int, NEW F, NEW p \in H, NEW i \in 0 .. TCACHE_MAX_BINS - 1, NEW l,
         Layout(h, H, F), ~Shape(h)[p].mapped, csize2tidx(Shape(h)[p].size) = i, CacheIsOwned(g),
         EntryOnly(h, g, i, l), g.mem = h.mem, g.brk = h.brk, g.maps = h.maps, g.needless = h.needless,
         p \notin ToSet(h.entries[i]) => IsInjective(l), ToSet(l) = ToSet(h.entries[i]) \union {p}
  PROVE  Layout(g, H \ {p}, F)
<1> DEFINE E == Where(h, H)
           K == H \ {p}
           D == Where(g, K)
           b == NBINS + NFASTBINS + i
<1>1. Only(E, p, Hand) /\ p \in DOMAIN Shape(h) /\ Shape(h)[p].size >= MINSIZE
  BY InHand
<1>2. E[Hand] = H /\ E[b] = ToSet(h.entries[i]) /\ b \in CachePlaces
  <2>1. E[Hand] = H /\ \A j \in 0 .. TCACHE_MAX_BINS - 1 : /\ E[NBINS + NFASTBINS + j] = ToSet(h.entries[j])
                                                           /\ NBINS + NFASTBINS + j \in CachePlaces
    BY WhereIs
  <2> QED BY <2>1
<1>3. b \in Int /\ b # Hand /\ Hand \in Int /\ b \notin 1 .. NBINS - 1 /\ b \notin FastPlaces /\ b - NBINS - NFASTBINS = i
  BY <1>2, Elsewhere, PtAssumption, SmallEnough
<1>4. p \notin ToSet(h.entries[i])
  BY <1>1, <1>2, <1>3 DEF Only
<1>5. IsInjective(l) /\ Distinct(h)
  BY <1>4 DEF Layout
<1> HIDE DEF K
<1>6. /\ D[Hand] = K /\ D[b] = ToSet(l) /\ Distinct(g)
      /\ \A x \in Int \ {Hand, b} : D[x] = E[x]
  <2>1. Changes(h, g, H, K, b, l)
    BY WhereEntry
  <2> QED BY <1>5, <2>1 DEF Changes
<1>7. Shape(g) = Shape(h) /\ g.top = h.top
  BY DEF Shape, EntryOnly
<1>8. Suits(b, Shape(h)[p])
  <2>1. b \notin 2 .. NBINS - 1
    BY <1>3
  <2> HIDE DEF b
  <2> QED BY <1>1, <1>3, <2>1 DEF Suits
<1>9. D[Hand] = E[Hand] \ {p} /\ D[b] = E[b] \union {p} /\ p \in E[Hand] /\ p \in Int
  BY <1>2, <1>6 DEF K
<1>10. Rehouses(h, g, H, K, p, Hand, b)
  BY <1>3, <1>6, <1>7, <1>8, <1>9 DEF Rehouses
<1>11. Layout(g, K, F)
  BY <1>10, Rehoused
<1> QED BY <1>11 DEF K

(* tcache_put, of a chunk in hand. *)
LEMMA TcachePutIsSound ==
  ASSUME NEW H \in SUBSET Int, NEW F, NEW h \in Sound(H, F), NEW p \in H, p \in Aligned, NEW C,
         NEW i \in 0 .. TCACHE_MAX_BINS - 1, HasTcache(h),
         ~h.aborted => ~Shape(h)[p].mapped /\ csize2tidx(Shape(h)[p].size) = i
  PROVE  /\ tcache_put(h, p, i) \in Sound(H \ {p}, F) /\ Onward(h, tcache_put(h, p, i), C)
         /\ Shape(tcache_put(h, p, i)) = Shape(h) /\ tcache_put(h, p, i).bins = h.bins
         /\ tcache_put(h, p, i).tcache = h.tcache
<1> DEFINE l == <<p>> \o h.entries[i]
           g == tcache_put(h, p, i)
<1>1. h \in Good /\ h \in Heaps /\ (~h.aborted => Layout(h, H, F)) /\ g \in Good
  BY SoundIs, TcachePutKeeps
<1>2. /\ EntryOnly(h, g, i, l) /\ g.mem = h.mem /\ g.brk = h.brk /\ g.maps = h.maps /\ g.needless = h.needless
      /\ g.aborted = h.aborted /\ g.tcache = h.tcache /\ g.bins = h.bins
  BY <1>1 DEF tcache_put, EntryOnly, Heaps
<1>4. h.entries[i] \in Seq(Aligned)
  BY <1>1, GoodBins DEF Lists
<1>5. ToSet(l) = ToSet(h.entries[i]) \union {p}
  BY <1>4, PushedOnce
<1>6. ASSUME ~h.aborted PROVE Layout(g, H \ {p}, F)
  <2>1. Layout(h, H, F) /\ ~Shape(h)[p].mapped /\ csize2tidx(Shape(h)[p].size) = i
    BY <1>1, <1>6
  <2>2. IsInjective(h.entries[i])
    BY <2>1 DEF Layout, Distinct
  <2>3. p \notin ToSet(h.entries[i]) => IsInjective(l)
    BY <1>4, <2>2, PushedOnce
  <2>4. CacheIsOwned(g)
    BY <1>2 DEF CacheIsOwned, HasTcache
  <2> HIDE DEF l, g
  <2> QED BY <1>2, <1>5, <2>1, <2>3, <2>4, IntoEntry
<1>7. Shape(g) = Shape(h)
  BY <1>2 DEF Shape
<1> HIDE DEF g
<1> QED BY <1>1, <1>2, <1>6, <1>7 DEF Sound, Onward, g

(* What tcache_get takes from the list i. *)
Got(a, h, H, F, i) ==
  /\ a.h \in Sound(H \union {a.p}, F) /\ Onward(h, a.h, H) /\ a.p \in Aligned
  /\ ~a.h.aborted => /\ a.p \notin H /\ a.p \in DOMAIN Shape(a.h) /\ ~Shape(a.h)[a.p].mapped
                     /\ csize2tidx(Shape(a.h)[a.p].size) = i

(* tcache_get *)
LEMMA TcacheGetIsSound ==
  ASSUME NEW H \in SUBSET Int, NEW F, NEW h \in Sound(H, F), NEW i \in 0 .. TCACHE_MAX_BINS - 1, h.entries[i] # << >>
  PROVE  Got(tcache_get(h, i), h, H, F, i)
<1> DEFINE l == Tail(h.entries[i])
           g == tcache_get(h, i).h
           p == Head(h.entries[i])
           P == {p}
<1>0. tcache_get(h, i).p = p
  BY DEF tcache_get, Answer
<1>1. h \in Good /\ h \in Heaps /\ (~h.aborted => Layout(h, H, F)) /\ g \in Good /\ p \in Aligned
  BY <1>0, SoundIs, TcacheGetKeeps
<1>2. /\ EntryOnly(h, g, i, l) /\ g.mem = h.mem /\ g.brk = h.brk /\ g.maps = h.maps /\ g.needless = h.needless
      /\ g.aborted = h.aborted /\ g.tcache = h.tcache
  BY <1>1 DEF tcache_get, Answer, EntryOnly, Heaps
<1>4. h.entries[i] \in Seq(Aligned)
  BY <1>1, GoodBins DEF Lists
<1>6. ASSUME ~h.aborted
      PROVE  /\ Layout(g, H \union P, F)
             /\ p \notin H /\ p \in DOMAIN Shape(h) /\ ~Shape(h)[p].mapped /\ csize2tidx(Shape(h)[p].size) = i
  <2>1. Layout(h, H, F) /\ IsInjective(h.entries[i])
    BY <1>1, <1>6 DEF Layout, Distinct
  <2>2. IsInjective(l) /\ ToSet(h.entries[i]) = {p} \union ToSet(l) /\ p \notin ToSet(l)
    BY <1>4, <2>1, HeadOnce
  <2>3. p \in ToSet(h.entries[i]) /\ P \subseteq ToSet(h.entries[i]) /\ ToSet(l) = ToSet(h.entries[i]) \ P /\ P \in SUBSET Int
        /\ p \in Int
    BY <1>1, <2>2 DEF Aligned
  <2>4. CacheIsOwned(g)
    <3> SUFFICES ASSUME g.tcache = NULL PROVE FALSE
      BY DEF CacheIsOwned
    <3> QED BY <1>2, <2>1 DEF Layout, CacheIsOwned, NoCache
  <2>5. p \notin H /\ p \in DOMAIN Shape(h) /\ ~Shape(h)[p].mapped /\ csize2tidx(Shape(h)[p].size) = i
    BY <2>1, <2>3, InEntryIs
  <2> HIDE DEF l, g, P
  <2> QED BY <1>2, <2>1, <2>2, <2>3, <2>4, <2>5, OutOfEntry
<1>7. Shape(g) = Shape(h)
  BY <1>2 DEF Shape
<1> HIDE DEF g
<1>8. g \in Sound(H \union P, F) /\ Onward(h, g, H)
  BY <1>1, <1>2, <1>6, <1>7 DEF Sound, Onward
<1> DEFINE a == tcache_get(h, i)
<1>9. a.h = g /\ a.p = p
  BY <1>0 DEF g
<1> HIDE DEF a, p
<1> QED BY <1>1, <1>2, <1>6, <1>7, <1>8, <1>9 DEF Got, a

(* A chunk in hand goes to its fastbin. *)
LEMMA FreeToFastbinIsSound ==
  ASSUME NEW H \in SUBSET Int, NEW F, NEW h \in Sound(H, F), NEW p \in H, p \in Aligned, NEW C,
         chunksize(h, p) <= h.mp.max_fast, ~h.aborted => ~Shape(h)[p].mapped
  PROVE  FreeToFastbin(h, p) \in Sound(H \ {p}, F) /\ Onward(h, FreeToFastbin(h, p), C)
<1> DEFINE i == fastbin_index(chunksize(h, p))
           list == h.fast[i]
           c == Check(h, NextIsSane(h, p) /\ (list # <<>> => Head(list) # p))
           l == <<p>> \o list
           g == FreeToFastbin(h, p)
<1>1. h \in Good /\ h \in Heaps /\ (~h.aborted => Layout(h, H, F)) /\ g \in Good
  BY SoundIs, FreeToFastbinKeeps
<1>2. c \in Good /\ SameLayout(h, c) /\ (~c.aborted => ~h.aborted)
  BY <1>1, CheckIs
<1>3. /\ g.fast = [c.fast EXCEPT ![i] = l] /\ g.top = c.top /\ g.bins = c.bins /\ g.entries = c.entries /\ g.tcache = c.tcache
      /\ g.mem = c.mem /\ g.brk = c.brk /\ g.maps = c.maps /\ g.needless = c.needless
      /\ g.aborted = c.aborted
  BY <1>2 DEF FreeToFastbin, Good, Heaps
<1> HIDE DEF c
<1>4. /\ FastOnly(h, g, i, l) /\ g.mem = h.mem /\ g.brk = h.brk /\ g.maps = h.maps /\ g.needless = h.needless
      /\ (~g.aborted => ~h.aborted) /\ g.tcache = h.tcache
  <2>1. h.fast \in Fasts
    BY <1>1, GoodBins
  <2> HIDE DEF g, l, i
  <2> QED BY <1>2, <1>3, <2>1 DEF SameLayout, FastOnly
<1>6. ASSUME ~h.aborted PROVE Layout(g, H \ {p}, F)
  <2>1. Layout(h, H, F) /\ ~Shape(h)[p].mapped
    BY <1>1, <1>6
  <2>2. p \in DOMAIN Shape(h) /\ Shape(h)[p].size >= MINSIZE
    BY <2>1, InHand
  <2>3. chunksize(h, p) = Shape(h)[p].size /\ chunksize(h, p) \in Chunky
    BY <1>1, <2>2, SizeIs, HeadFields DEF Chunky
  <2>4. i \in 0 .. NFASTBINS - 1 /\ fastbin_index(Shape(h)[p].size) = i
    BY <1>1, <2>3, FastIndexIs
  <2>5. list \in Seq(Aligned) /\ IsInjective(list)
    BY <1>1, <2>1, <2>4, GoodBins DEF Lists, Layout, Distinct
  <2>6. ToSet(l) = ToSet(h.fast[i]) \union {p} /\ (p \notin ToSet(h.fast[i]) => IsInjective(l))
    BY <2>5, PushedOnce
  <2> HIDE DEF l, g, i
  <2> QED BY <1>4, <2>1, <2>4, <2>6, IntoFast
<1>7. Shape(g) = Shape(h)
  BY <1>4 DEF Shape
<1> HIDE DEF g
<1> QED BY <1>1, <1>4, <1>6, <1>7 DEF Sound, Onward, g

(* PlaceInBin *)
LEMMA PlaceInBinIsSound ==
  ASSUME NEW H \in SUBSET Int, NEW F, NEW h \in Sound(H, F), NEW p \in H, p \in Aligned, NEW C,
         ~h.aborted => ~Shape(h)[p].mapped
  PROVE  /\ PlaceInBin(h, p) \in Sound(H \ {p}, F) /\ Onward(h, PlaceInBin(h, p), C)
         /\ Shape(PlaceInBin(h, p)) = Shape(h) /\ PlaceInBin(h, p).tcache = h.tcache
         /\ ~h.aborted => /\ bin_index(Shape(h)[p].size) \in 2 .. NBINS - 1
                          /\ \A x \in (1 .. NBINS - 1) \ {bin_index(Shape(h)[p].size)} : PlaceInBin(h, p).bins[x] = h.bins[x]
<1> DEFINE size == chunksize(h, p)
           b == bin_index(size)
           bin == h.bins[b]
           above == Larger(h, bin, size)
           l == IF in_smallbin_range(size) THEN <<p>> \o bin
                ELSE IF above < Len(bin) /\ chunksize(h, bin[above + 1]) = size THEN InsertAt(bin, above + 2, p)
                ELSE InsertAt(bin, above + 1, p)
           g == PlaceInBin(h, p)
<1>1. h \in Good /\ h \in Heaps /\ (~h.aborted => Layout(h, H, F)) /\ g \in Good
  BY SoundIs, PlaceInBinKeeps
<1>2. /\ BinOnly(h, g, b, l) /\ g.mem = h.mem /\ g.brk = h.brk /\ g.maps = h.maps /\ g.needless = h.needless
      /\ g.aborted = h.aborted /\ g.tcache = h.tcache
  <2>1. g = [h EXCEPT !.bins[b] = l, !.binmap = @ \union {b}]
    BY DEF PlaceInBin, Place
  <2> HIDE DEF l, b, g
  <2> QED BY <1>1, <2>1 DEF BinOnly, Heaps
<1>6. ASSUME ~h.aborted
      PROVE  /\ Layout(g, H \ {p}, F) /\ b \in 2 .. NBINS - 1 /\ size = Shape(h)[p].size
             /\ \A x \in (1 .. NBINS - 1) \ {b} : g.bins[x] = h.bins[x]
  <2>1. Layout(h, H, F) /\ ~Shape(h)[p].mapped
    BY <1>1, <1>6
  <2>2. p \in DOMAIN Shape(h) /\ Shape(h)[p].size >= MINSIZE
    BY <2>1, InHand
  <2>3. size = Shape(h)[p].size /\ size \in Chunky
    BY <1>1, <2>2, SizeIs, HeadFields DEF Chunky
  <2>4. b \in 2 .. NBINS - 1 /\ b \in 1 .. NBINS - 1 /\ bin_index(Shape(h)[p].size) = b
    <3>1. bin_index(size) \in 2 .. NBINS - 1
      BY <2>3, BinIndexIs
    <3> HIDE DEF size
    <3> QED BY <2>3, <3>1
  <2>5. bin \in Seq(Aligned) /\ IsInjective(bin) /\ bin \in Lists
    <3> HIDE DEF b
    <3> QED BY <1>1, <2>1, <2>4, GoodBins DEF Lists, Layout, Distinct
  <2>6. above \in Nat /\ above <= Len(bin) /\ Len(bin) \in Nat
    <3> HIDE DEF bin, size
    <3> QED BY <2>5, LargerCount DEF Lists
  <2>7. ToSet(l) = ToSet(bin) \union {p} /\ (p \notin ToSet(bin) => IsInjective(l))
    <3> HIDE DEF bin, above, size
    <3>1. ToSet(<<p>> \o bin) = ToSet(bin) \union {p} /\ (p \notin ToSet(bin) => IsInjective(<<p>> \o bin))
      BY <2>5, PushedOnce
    <3>2. ASSUME NEW k \in 1 .. Len(bin) + 1, p \notin ToSet(bin)
          PROVE  ToSet(InsertAt(bin, k, p)) = ToSet(bin) \union {p} /\ IsInjective(InsertAt(bin, k, p))
      <4>1. IsInjective(InsertAt(bin, k, p)) /\ ToSet(InsertAt(bin, k, p)) = {p} \union ToSet(bin)
        BY <2>5, <3>2, InsertedOnce
      <4> QED BY <4>1
    <3>3. p \notin ToSet(bin)
      <4>1. p \in ToSet(bin) => p \notin H
        BY <2>1, <2>4, InBinIs DEF bin, Aligned
      <4> QED BY <4>1
    <3>4. above + 1 \in 1 .. Len(bin) + 1 /\ (above < Len(bin) => above + 2 \in 1 .. Len(bin) + 1)
      BY <2>6
    <3> QED BY <3>1, <3>2, <3>3, <3>4
  <2>8. \A x \in (1 .. NBINS - 1) \ {b} : g.bins[x] = h.bins[x]
    <3> HIDE DEF b, l, g
    <3> QED BY <1>2, <2>4 DEF BinOnly, Bins
  <2> HIDE DEF l, g, b, size
  <2>9. Layout(g, H \ {p}, F)
    BY <1>2, <2>1, <2>4, <2>7, IntoBin
  <2> QED BY <2>3, <2>4, <2>8, <2>9
<1>7. Shape(g) = Shape(h)
  BY <1>2 DEF Shape
<1>8. ~h.aborted => /\ bin_index(Shape(h)[p].size) \in 2 .. NBINS - 1
                    /\ \A x \in (1 .. NBINS - 1) \ {bin_index(Shape(h)[p].size)} : g.bins[x] = h.bins[x]
  <2> HIDE DEF g
  <2> QED BY <1>6
<1> HIDE DEF g
<1> QED BY <1>1, <1>2, <1>6, <1>7, <1>8 DEF Sound, Onward, g

-----------------------------------------------------------------------------
(* Merging: malloc_consolidate and the end of _int_free. *)

(* A header that is merged away: the others are as they were. *)
LEMMA DropIs ==
  ASSUME NEW h \in Heaps, NEW a
  PROVE  /\ Shape(Drop(h, a)) = Del(Shape(h), a) /\ HeadsOnly(h, Drop(h, a))
         /\ \A x : x # a => At(Drop(h, a), x) = At(h, x)
<1>1. Drop(h, a).mem = [x \in DOMAIN h.mem \ {a} |-> h.mem[x]] /\ HeadsOnly(h, Drop(h, a))
  BY DEF Drop, Heaps, HeadsOnly
<1>2. \A x : x # a => At(Drop(h, a), x) = At(h, x)
  BY <1>1 DEF At
<1> QED BY <1>1, <1>2, ShapeDrop

(* The chunk before, if it is free, has left its bin, and the header of p  *)
(* is gone.                                                                *)
Unlinked(h, p, q) == IF q = p THEN h ELSE unlink_chunk(Check(h, chunksize(h, q) = p - q), q)

Back(h, p, q, H, F) ==
  /\ Unlinked(h, p, q) \in Sound(H \union {q}, F) /\ Unlinked(h, p, q).mem = h.mem
  /\ Onward(h, Unlinked(h, p, q), H)
  /\ Unlinked(h, p, q).top = h.top
  /\ MergeBack(h, p, q) \in Good /\ HeadsOnly(Unlinked(h, p, q), MergeBack(h, p, q))
  /\ Shape(MergeBack(h, p, q)) = IF q = p THEN Shape(h) ELSE Del(Shape(h), p)
  /\ \A x : x # p => At(MergeBack(h, p, q), x) = At(h, x)
  /\ ~Unlinked(h, p, q).aborted =>
       /\ ~h.aborted
       /\ q # p => /\ q \notin H /\ q \in DOMAIN Shape(h) /\ ~Shape(h)[q].mapped /\ Shape(h)[q].size >= MINSIZE
                   /\ q # h.top /\ Shape(h)[q].size = p - q

(* The chunk before p that is free is taken off its bin into the hand      *)
(* (unlink_chunk), and p's header is gone.                                 *)
LEMMA MergeBackIs ==
  ASSUME NEW H \in SUBSET Int, NEW F, NEW h \in Sound(H, F), NEW p \in H, NEW q
  PROVE  Back(h, p, q, H, F)
<1> SUFFICES
    /\ Unlinked(h, p, q) \in Sound(H \union {q}, F) /\ Unlinked(h, p, q).mem = h.mem
    /\ Onward(h, Unlinked(h, p, q), H)
    /\ Unlinked(h, p, q).top = h.top
    /\ MergeBack(h, p, q) \in Good /\ HeadsOnly(Unlinked(h, p, q), MergeBack(h, p, q))
    /\ Shape(MergeBack(h, p, q)) = IF q = p THEN Shape(h) ELSE Del(Shape(h), p)
    /\ \A x : x # p => At(MergeBack(h, p, q), x) = At(h, x)
    /\ ~Unlinked(h, p, q).aborted =>
         /\ ~h.aborted
         /\ q # p => /\ q \notin H /\ q \in DOMAIN Shape(h) /\ ~Shape(h)[q].mapped /\ Shape(h)[q].size >= MINSIZE
                     /\ q # h.top /\ Shape(h)[q].size = p - q
  BY DEF Back
<1> DEFINE c == Check(h, chunksize(h, q) = p - q)
           u == Unlinked(h, p, q)
           g == MergeBack(h, p, q)
<1>1. h \in Good /\ h \in Heaps
  BY SoundIs
<1>2. CASE q = p
  <2>1. u = h /\ g = h /\ H \union {q} = H
    BY <1>2 DEF Unlinked, MergeBack
  <2>2. HeadsOnly(h, h) /\ Onward(h, h, H)
    BY DEF HeadsOnly, Onward
  <2> QED BY <1>1, <1>2, <2>1, <2>2
<1>3. CASE q # p
  <2>1. c \in Sound(H, F) /\ Onward(h, c, H) /\ c \in Good /\ c.mem = h.mem /\ c.top = h.top
        /\ (~c.aborted => chunksize(h, q) = p - q /\ ~h.aborted)
    <3> DEFINE ok == chunksize(h, q) = p - q
    <3> HIDE DEF ok
    <3>1. Check(h, ok) \in Sound(H, F) /\ Onward(h, Check(h, ok), H)
      BY CheckIsSound
    <3>2. Check(h, ok) \in Good /\ SameLayout(h, Check(h, ok)) /\ (~Check(h, ok).aborted => ok /\ ~h.aborted)
      BY <1>1, CheckIs
    <3> QED BY <3>1, <3>2 DEF SameLayout, ok
  <2>2. u = unlink_chunk(c, q) /\ g = Drop(u, p)
    BY <1>3 DEF Unlinked, MergeBack
  <2> HIDE DEF c
  <2>3. /\ u \in Sound(H \union {q}, F) /\ Onward(c, u, H) /\ u.mem = c.mem /\ u.top = c.top
        /\ ~u.aborted => /\ q \notin H /\ q \in DOMAIN Shape(c) /\ ~Shape(c)[q].mapped /\ Shape(c)[q].size >= MINSIZE
                         /\ q # c.top
    <3>1. /\ unlink_chunk(c, q) \in Sound(H \union {q}, F) /\ Onward(c, unlink_chunk(c, q), H)
          /\ unlink_chunk(c, q).mem = c.mem /\ unlink_chunk(c, q).top = c.top
          /\ ~unlink_chunk(c, q).aborted => /\ q \notin H /\ q \in DOMAIN Shape(c) /\ ~Shape(c)[q].mapped
                                            /\ Shape(c)[q].size >= MINSIZE /\ q # c.top
      BY <2>1, UnlinkIsSound
    <3> QED BY <3>1, <2>2
  <2> HIDE DEF u, g
  <2>4. ~u.aborted => ~c.aborted
    BY <2>3 DEF Onward
  <2>5. Shape(c) = Shape(h) /\ Shape(u) = Shape(h)
    BY <2>1, <2>3 DEF Shape
  <2>6. u \in Good /\ u \in Heaps
    BY <2>3, SoundIs
  <2>7. g \in Good
    BY <2>2, <2>6, DropKeeps
  <2>8. HeadsOnly(u, g) /\ Shape(g) = Del(Shape(h), p) /\ \A x : x # p => At(g, x) = At(u, x)
    BY <2>2, <2>5, <2>6, DropIs
  <2>9. \A x : At(u, x) = At(h, x)
    BY <2>1, <2>3 DEF At
  <2>10. Onward(h, u, H)
    BY <2>1, <2>3, OnwardTwice
  <2>11. ~u.aborted => Shape(h)[q].size = p - q
    BY <2>1, <2>3, <2>4, <2>5, SizeIs
  <2> QED BY <1>3, <2>1, <2>3, <2>4, <2>5, <2>7, <2>8, <2>9, <2>10, <2>11 DEF u, g
<1> QED BY <1>2, <1>3

(* So for the chunk behind. *)
Absorbs(h, next) == next = h.top \/ ~inuse(h, next)
UnlinkedNext(u, next) == IF next = u.top \/ inuse(u, next) THEN u ELSE unlink_chunk(u, next)

Follows(u, g, next, p) ==
  /\ HeadsOnly(u, g) /\ next # p /\ next_chunk(u, next) # p /\ \A x : x # p => At(g, x) = At(u, x)
  /\ ~u.aborted => next \in DOMAIN Shape(u) /\ next \in DOMAIN Shape(g) /\ ~Shape(g)[next].mapped

Forth(u, g, next, H, F) ==
  /\ UnlinkedNext(u, next) \in Sound(IF next = u.top \/ inuse(u, next) THEN H ELSE H \union {next}, F)
  /\ UnlinkedNext(u, next).mem = u.mem /\ Onward(u, UnlinkedNext(u, next), H) /\ UnlinkedNext(u, next).top = u.top
  /\ MergeForth(g, next) \in Good
  /\ ~MergeForth(g, next).aborted =>
       /\ ~UnlinkedNext(u, next).aborted /\ ~u.aborted /\ HeadsOnly(UnlinkedNext(u, next), MergeForth(g, next))
       /\ Shape(MergeForth(g, next)) = IF Absorbs(u, next) THEN Del(Shape(g), next) ELSE Shape(g)
       /\ (next # u.top /\ ~inuse(u, next)) =>
            /\ next \notin H /\ next \in DOMAIN Shape(u) /\ ~Shape(u)[next].mapped /\ Shape(u)[next].size >= MINSIZE

(* The chunk behind that is free is taken off its bin into the hand, and   *)
(* its header is gone; else only its in-use bit is cleared.                *)
LEMMA MergeForthIs ==
  ASSUME NEW H \in SUBSET Int, NEW F, NEW u \in Sound(H, F), NEW g \in Good, NEW next \in Aligned, NEW p, Follows(u, g, next, p)
  PROVE  Forth(u, g, next, H, F)
<1>0. /\ HeadsOnly(u, g) /\ next # p /\ next_chunk(u, next) # p /\ \A x : x # p => At(g, x) = At(u, x)
      /\ ~u.aborted => next \in DOMAIN Shape(u) /\ next \in DOMAIN Shape(g) /\ ~Shape(g)[next].mapped
  BY DEF Follows
<1> SUFFICES
    /\ UnlinkedNext(u, next) \in Sound(IF next = u.top \/ inuse(u, next) THEN H ELSE H \union {next}, F)
    /\ UnlinkedNext(u, next).mem = u.mem /\ Onward(u, UnlinkedNext(u, next), H) /\ UnlinkedNext(u, next).top = u.top
    /\ MergeForth(g, next) \in Good
    /\ ~MergeForth(g, next).aborted =>
         /\ ~UnlinkedNext(u, next).aborted /\ ~u.aborted /\ HeadsOnly(UnlinkedNext(u, next), MergeForth(g, next))
         /\ Shape(MergeForth(g, next)) = IF Absorbs(u, next) THEN Del(Shape(g), next) ELSE Shape(g)
         /\ (next # u.top /\ ~inuse(u, next)) =>
              /\ next \notin H /\ next \in DOMAIN Shape(u) /\ ~Shape(u)[next].mapped /\ Shape(u)[next].size >= MINSIZE
  BY DEF Forth
<1> USE <1>0
<1> DEFINE u2 == UnlinkedNext(u, next)
           g2 == MergeForth(g, next)
           x == unlink_chunk(g, next)
<1>1. u \in Good /\ u \in Heaps /\ g \in Heaps
  BY SoundIs DEF Good
<1>2. next_chunk(g, next) = next_chunk(u, next) /\ inuse(g, next) = inuse(u, next) /\ chunksize(g, next) = chunksize(u, next)
      /\ prev_size(g, next_chunk(g, next)) = prev_size(u, next_chunk(u, next))
  BY DEF next_chunk, inuse, prev_inuse, chunksize, prev_size
<1>3. g2 \in Good
  BY <1>1, UnlinkKeeps, DropKeeps, HeadsKeep, EvenSums DEF MergeForth
<1>4. g.top = u.top /\ g.bins = u.bins /\ g.aborted = u.aborted
  BY DEF HeadsOnly
<1>5. CASE next = u.top
  <2>1. u2 = u /\ g2 = Drop(g, next) /\ Absorbs(u, next)
    BY <1>4, <1>5 DEF UnlinkedNext, MergeForth, Absorbs
  <2>2. HeadsOnly(g, g2) /\ Shape(g2) = Del(Shape(g), next)
    BY <1>1, <2>1, DropIs
  <2>3. HeadsOnly(u, g2) /\ Onward(u, u, H)
    BY <2>2 DEF HeadsOnly, Onward
  <2>4. ~g2.aborted => ~u.aborted
    BY <2>3 DEF HeadsOnly
  <2> HIDE DEF u2, g2
  <2> QED BY <1>3, <1>5, <2>1, <2>2, <2>3, <2>4 DEF u2, g2
<1>6. CASE next # u.top /\ inuse(u, next)
  <2>1. u2 = u /\ g2 = clear_inuse_bit(g, next) /\ ~Absorbs(u, next)
    BY <1>2, <1>4, <1>6 DEF UnlinkedNext, MergeForth, Absorbs
  <2>2. ~u.aborted => HeadsOnly(g, g2) /\ Shape(g2) = Shape(g)
    BY <1>1, <2>1, FlagsAreSet
  <2>3. g2.aborted = g.aborted
    BY <1>1, <2>1 DEF clear_inuse_bit, Put, Heaps
  <2>4. ~u.aborted => HeadsOnly(u, g2)
    BY <2>2 DEF HeadsOnly
  <2>5. Onward(u, u, H)
    BY DEF Onward
  <2>6. ~g2.aborted => ~u.aborted
    BY <1>4, <2>3
  <2> HIDE DEF u2, g2
  <2> QED BY <1>3, <1>6, <2>1, <2>2, <2>4, <2>5, <2>6 DEF u2, g2
<1>7. CASE next # u.top /\ ~inuse(u, next)
  <2>1. u2 = unlink_chunk(u, next) /\ g2 = Drop(x, next) /\ Absorbs(u, next)
    BY <1>2, <1>4, <1>7 DEF UnlinkedNext, MergeForth, Absorbs
  <2>2. /\ u2 \in Sound(H \union {next}, F) /\ Onward(u, u2, H) /\ u2.mem = u.mem /\ u2.top = u.top
        /\ ~u2.aborted => /\ next \notin H /\ next \in DOMAIN Shape(u) /\ ~Shape(u)[next].mapped
                          /\ Shape(u)[next].size >= MINSIZE
    <3> DEFINE w == unlink_chunk(u, next)
    <3>1. /\ w \in Sound(H \union {next}, F) /\ Onward(u, w, H) /\ w.mem = u.mem /\ w.top = u.top
          /\ ~w.aborted => /\ next \notin H /\ next \in DOMAIN Shape(u) /\ ~Shape(u)[next].mapped
                            /\ Shape(u)[next].size >= MINSIZE
      BY UnlinkIsSound
    <3> HIDE DEF w, u2
    <3>2. u2 = w
      BY <2>1 DEF w
    <3> QED BY <3>1, <3>2
  <2>3. DOMAIN g.bins = DOMAIN u.bins /\ InBin(g, next) = InBin(u, next)
    BY <1>4 DEF InBin
  <2>4. HeadsOnly(u2, x) /\ x.mem = g.mem
    <3> DEFINE ok == chunksize(u, next) = prev_size(u, next_chunk(u, next)) /\ InBin(u, next)
               bins == [b \in DOMAIN u.bins |-> RemoveFirst(u.bins[b], next)]
    <3>1. u2 = [Check(u, ok) EXCEPT !.bins = bins]
      BY <2>1 DEF unlink_chunk
    <3>2. x = [Check(g, ok) EXCEPT !.bins = bins]
      BY <1>2, <1>4, <2>3 DEF unlink_chunk
    <3> HIDE DEF ok, bins, x, u2
    <3>3. HeadsOnly(Check(u, ok), Check(g, ok)) /\ Check(g, ok).mem = g.mem /\ Check(g, ok) \in Heaps /\ Check(u, ok) \in Heaps
      <4>1. Check(g, ok) \in Heaps /\ Check(u, ok) \in Heaps
        BY <1>1, CheckKeeps DEF Good
      <4>2. HeadsOnly(Check(u, ok), Check(g, ok)) /\ Check(g, ok).mem = g.mem
        BY <1>1 DEF Check, HeadsOnly, Heaps
      <4> QED BY <4>1, <4>2
    <3> QED BY <3>1, <3>2, <3>3 DEF HeadsOnly, Heaps
  <2>5. x \in Heaps
    BY UnlinkKeeps DEF Good
  <2>6. HeadsOnly(x, g2) /\ Shape(g2) = Del(Shape(g), next)
    <3>1. Shape(x) = Shape(g)
      BY <2>4 DEF Shape
    <3> HIDE DEF x, g2
    <3> QED BY <2>1, <2>5, <3>1, DropIs
  <2> HIDE DEF x, u2, g2
  <2>7. HeadsOnly(u2, g2)
    BY <2>4, <2>6 DEF HeadsOnly
  <2>8. ~g2.aborted => ~u2.aborted /\ ~u.aborted
    BY <2>2, <2>7 DEF HeadsOnly, Onward
  <2> QED BY <1>3, <1>7, <2>1, <2>2, <2>6, <2>7, <2>8 DEF u2, g2
<1> QED BY <1>5, <1>6, <1>7

(* The lists and the kernel are as they were. *)
ListsStay(h, g) ==
  /\ g.bins = h.bins /\ g.fast = h.fast /\ g.entries = h.entries /\ g.tcache = h.tcache
  /\ g.brk = h.brk /\ g.maps = h.maps /\ g.needless = h.needless

(* Where lists and cache stay as they are, only hand and top can hold      *)
(* other chunks.                                                           *)
LEMMA ListsFrame ==
  ASSUME NEW h, NEW g, ListsStay(h, g), NEW H, NEW K
  PROVE  /\ Distinct(h) => Distinct(g)
         /\ CacheIsOwned(h) => CacheIsOwned(g)
         /\ \A x \in Int \ {Hand, Top} : Where(g, K)[x] = Where(h, H)[x]
         /\ Where(g, K)[Hand] = K /\ Where(g, K)[Top] = {g.top} \ {0}
         /\ Where(h, H)[Hand] = H /\ Where(h, H)[Top] = {h.top} \ {0}
<1>1. \A x \in Int \ {Hand, Top} : Where(g, K)[x] = Where(h, H)[x]
  BY DEF Where, ListsStay
<1>2. (Distinct(h) => Distinct(g)) /\ (CacheIsOwned(h) => CacheIsOwned(g))
  BY DEF ListsStay, Distinct, CacheIsOwned, NoCache
<1>3. Where(g, K)[Hand] = K /\ Where(g, K)[Top] = {g.top} \ {0}
  BY WhereIs
<1>4. Where(h, H)[Hand] = H /\ Where(h, H)[Top] = {h.top} \ {0}
  BY WhereIs
<1> QED BY <1>1, <1>2, <1>3, <1>4

(* Chunks side by side, in hand or top, become one. *)
Gathers(h, g, K, L, C, q, z) ==
  /\ C \in SUBSET Int /\ q \in C /\ z \in Int /\ z - q >= MINSIZE
  /\ C \subseteq DOMAIN Shape(h) /\ \A x \in C : ~Shape(h)[x].mapped /\ (x \in K \/ x = h.top)
  /\ Covers(Shape(h), C, q, z)
  /\ DOMAIN Shape(g) = (DOMAIN Shape(h) \ C) \union {q}
  /\ \A x \in DOMAIN Shape(h) \ C : Shape(g)[x] = Shape(h)[x]
  /\ Shape(g)[q] = Plain(z - q)
  /\ \/ h.top \in C /\ g.top = q /\ L = K \ C
     \/ h.top \notin C /\ g.top = h.top /\ L = (K \ C) \union {q} /\ z \in DOMAIN Shape(h) /\ ~Shape(h)[z].mapped
  /\ ListsStay(h, g)

(* Chunks in hand that become one, with or without top, keep the layout. *)
LEMMA Gathered ==
  ASSUME NEW h, NEW g, NEW K \in SUBSET Int, NEW L, NEW F, NEW C, NEW q, NEW z, Layout(h, K, F), Gathers(h, g, K, L, C, q, z)
  PROVE  Layout(g, L, F)
<1> DEFINE s == Shape(h)
           r == Shape(g)
           E == Where(h, K)
           D == Where(g, L)
<1>1. /\ C \in SUBSET Int /\ q \in C /\ q \in Int /\ z \in Int /\ z - q >= MINSIZE /\ z > q
      /\ C \subseteq DOMAIN s /\ (\A x \in C : ~s[x].mapped /\ (x \in K \/ x = h.top))
      /\ Covers(s, C, q, z) /\ DOMAIN r = (DOMAIN s \ C) \union {q}
      /\ (\A x \in DOMAIN s \ C : r[x] = s[x]) /\ r[q] = Plain(z - q)
  BY DEF Gathers, MINSIZE, SIZE_SZ
<1>2. ListsStay(h, g)
  BY DEF Gathers
<1>3. Ground(s, h.top, h.brk, h.maps, F) /\ Distinct(h) /\ CacheIsOwned(h)
  BY DEF Layout
<1>4. /\ \A x \in Int \ {Hand, Top} : D[x] = E[x]
      /\ D[Hand] = L /\ D[Top] = {g.top} \ {0} /\ E[Hand] = K /\ E[Top] = {h.top} \ {0}
      /\ Distinct(g) /\ CacheIsOwned(g)
  BY <1>2, <1>3, ListsFrame
<1>5. Hand \in Int /\ Top \in Int /\ Hand # Top
  BY Elsewhere
<1>6. Ground(r, g.top, g.brk, g.maps, F)
  <2>1. (g.top = h.top \/ h.top \in C) /\ (g.top # q => z \in DOMAIN s /\ ~s[z].mapped)
    BY DEF Gathers
  <2>2. g.brk = h.brk /\ g.maps = h.maps
    BY <1>2 DEF ListsStay
  <2> HIDE DEF s, r
  <2>3. Ground(r, g.top, h.brk, h.maps, F)
    BY <1>1, <1>3, <2>1, Whole
  <2> QED BY <2>2, <2>3
<1>7. \A x \in C : x > 0 /\ (Only(E, x, Hand) \/ Only(E, x, Top))
  <2> SUFFICES ASSUME NEW x \in C PROVE x > 0 /\ (Only(E, x, Hand) \/ Only(E, x, Top))
    OBVIOUS
  <2>1. x > 0 /\ x \in Int
    BY <1>1, NotZero
  <2>2. x \in E[Hand] \/ x \in E[Top]
    BY <1>1, <1>4, <2>1
  <2> QED BY <1>5, <2>1, <2>2, InPlace
<1>8. (h.top \in C /\ g.top = q /\ L = K \ C) \/ (h.top \notin C /\ g.top = h.top /\ L = (K \ C) \union {q})
  BY DEF Gathers
<1>9. \A x \in C : \A y \in Int \ {Hand, Top} : x \notin D[y]
  BY <1>4, <1>5, <1>7 DEF Only
<1>10. Only(D, q, IF h.top \in C THEN Top ELSE Hand)
  <2>1. CASE h.top \in C
    <3>1. q \in D[Top] /\ q \notin D[Hand]
      BY <1>1, <1>4, <1>7, <1>8, <2>1
    <3> QED BY <1>1, <1>5, <1>9, <2>1, <3>1 DEF Only
  <2>2. CASE h.top \notin C
    <3>1. q \in D[Hand] /\ q \notin D[Top]
      BY <1>1, <1>4, <1>7, <1>8, <2>2
    <3> QED BY <1>1, <1>5, <1>9, <2>2, <3>1 DEF Only
  <2> QED BY <2>1, <2>2
<1>11. \A x \in C : x # q => Nowhere(D, x)
  <2> SUFFICES ASSUME NEW x \in C, x # q PROVE Nowhere(D, x)
    OBVIOUS
  <2>1. x \notin D[Hand] /\ x \notin D[Top]
    BY <1>1, <1>4, <1>8
  <2> QED BY <1>5, <1>9, <2>1 DEF Nowhere
<1>12. \A x \in C : x \in Int => OkAt(r, D, x)
  <2> SUFFICES ASSUME NEW x \in C PROVE OkAt(r, D, x)
    OBVIOUS
  <2>1. CASE x = q
    <3>1. r[q].size = z - q /\ r[q].mapped = FALSE /\ q \in DOMAIN r
      BY <1>1 DEF Plain
    <3>2. Suits(Hand, r[q]) /\ Suits(Top, r[q])
      BY <1>1, <3>1, Elsewhere DEF Suits, Hand, Top
    <3> DEFINE y == IF h.top \in C THEN Top ELSE Hand
    <3>3. y \in Int /\ Suits(y, r[q])
      BY <1>5, <3>2
    <3> HIDE DEF y, r, D
    <3>4. Only(D, q, y)
      BY <1>10 DEF y
    <3> QED BY <2>1, <3>1, <3>3, <3>4, OkOnly
  <2>2. CASE x # q
    <3>1. x \notin DOMAIN r
      BY <1>1, <2>2
    <3> HIDE DEF r, D
    <3> QED BY <1>11, <2>2, <3>1, OkNowhere
  <2> QED BY <2>1, <2>2
<1>13. Besides(h, g, K, L, C)
  <2> SUFFICES ASSUME NEW p \in Int \ C
               PROVE  /\ p \in DOMAIN r <=> p \in DOMAIN s
                      /\ p \in DOMAIN s => r[p] = s[p]
                      /\ \A x \in Int : p \in D[x] <=> p \in E[x]
    BY DEF Besides
  <2>1. (p \in DOMAIN r <=> p \in DOMAIN s) /\ (p \in DOMAIN s => r[p] = s[p])
    BY <1>1
  <2>2. (p \in D[Hand] <=> p \in E[Hand]) /\ (p \in D[Top] <=> p \in E[Top])
    BY <1>1, <1>4, <1>8
  <2> QED BY <1>4, <2>1, <2>2
<1>14. g.needless = h.needless
  BY <1>2 DEF ListsStay
<1> HIDE DEF s, r, E, D
<1> QED BY <1>4, <1>6, <1>12, <1>13, <1>14, Carved DEF s, r, E, D

(* A chunk in hand is cut in two. *)
Parts(h, g, K, L, p, n) ==
  /\ p \in K /\ n \in Int /\ n >= MINSIZE /\ ~Shape(h)[p].mapped /\ Shape(h)[p].size - n >= MINSIZE
  /\ DOMAIN Shape(g) = DOMAIN Shape(h) \union {p + n}
  /\ \A x \in DOMAIN Shape(h) \ {p} : Shape(g)[x] = Shape(h)[x]
  /\ Shape(g)[p] = Plain(n) /\ Shape(g)[p + n] = Plain(Shape(h)[p].size - n)
  /\ g.top = h.top /\ L = K \union {p + n} /\ ListsStay(h, g)

(* Where no chunk is, no list has one. *)
LEMMA NewIsNowhere ==
  ASSUME NEW h, NEW K, NEW F, Layout(h, K, F), NEW p \in Int \ DOMAIN Shape(h)
  PROVE  Nowhere(Where(h, K), p)
BY DEF Layout, Placed, OkAt, Nowhere

(* A chunk in hand that is cut in two, both in hand, keeps the layout, and *)
(* the second is a new one.                                                *)
LEMMA Parted ==
  ASSUME NEW h, NEW g, NEW K \in SUBSET Int, NEW L, NEW F, NEW p, NEW n, Layout(h, K, F), Parts(h, g, K, L, p, n)
  PROVE  Layout(g, L, F) /\ p + n \notin DOMAIN Shape(h) /\ p + n \notin K /\ p + n \in Int
<1> DEFINE s == Shape(h)
           r == Shape(g)
           E == Where(h, K)
           D == Where(g, L)
           q == p + n
           C == {p, q}
<1>1. /\ p \in K /\ p \in Int /\ n \in Int /\ n > 0 /\ n >= MINSIZE /\ ~s[p].mapped /\ s[p].size - n >= MINSIZE
      /\ q \in Int /\ q # p
      /\ DOMAIN r = DOMAIN s \union {q} /\ (\A x \in DOMAIN s \ {p} : r[x] = s[x])
      /\ r[p] = Plain(n) /\ r[q] = Plain(s[p].size - n) /\ g.top = h.top /\ L = K \union {q} /\ ListsStay(h, g)
  BY DEF Parts, MINSIZE, SIZE_SZ
<1>2. Ground(s, h.top, h.brk, h.maps, F) /\ Distinct(h) /\ CacheIsOwned(h)
  BY DEF Layout
<1>3. /\ \A x \in Int \ {Hand, Top} : D[x] = E[x]
      /\ D[Hand] = L /\ D[Top] = {g.top} \ {0} /\ E[Hand] = K /\ E[Top] = {h.top} \ {0}
      /\ Distinct(g) /\ CacheIsOwned(g)
  BY <1>1, <1>2, ListsFrame
<1>4. Hand \in Int /\ Top \in Int /\ Hand # Top
  BY Elsewhere
<1>5. Only(E, p, Hand) /\ p \in DOMAIN s /\ p # h.top /\ s[p].size \in Int
  <2>1. Sized(s)
    BY <1>2 DEF Ground
  <2> QED BY <1>1, <2>1, InHand DEF Sized
<1>6. q \notin DOMAIN s /\ Ground(r, g.top, g.brk, g.maps, F)
  <2>1. s[p].size >= MINSIZE /\ 0 < n /\ n < s[p].size
    BY <1>1, <1>5 DEF MINSIZE, SIZE_SZ
  <2>2. g.brk = h.brk /\ g.maps = h.maps
    BY <1>1 DEF ListsStay
  <2> HIDE DEF s, r
  <2>3. q \notin DOMAIN s /\ Ground(r, IF p = h.top THEN q ELSE h.top, h.brk, h.maps, F)
    BY <1>1, <1>2, <1>5, <2>1, CutInTwo
  <2> QED BY <1>1, <1>5, <2>2, <2>3
<1>7. Nowhere(E, q)
  BY <1>1, <1>6, NewIsNowhere
<1>8. q \notin K /\ q # h.top
  <2>1. q \notin K
    BY <1>3, <1>4, <1>7 DEF Nowhere
  <2>2. q # 0
    <3>1. p > 0
      BY <1>5, NotZero
    <3> QED BY <1>1, <3>1
  <2> QED BY <1>3, <1>4, <1>7, <2>1, <2>2 DEF Nowhere
<1>9. Only(D, p, Hand) /\ Only(D, q, Hand)
  <2>1. p \in D[Hand] /\ q \in D[Hand] /\ p \notin D[Top] /\ q \notin D[Top]
    BY <1>1, <1>3, <1>5, <1>8
  <2>2. \A y \in Int \ {Hand, Top} : p \notin D[y] /\ q \notin D[y]
    BY <1>3, <1>4, <1>5, <1>7 DEF Only, Nowhere
  <2> QED BY <1>4, <2>1, <2>2 DEF Only
<1>10. Suits(Hand, r[p]) /\ Suits(Hand, r[q]) /\ p \in DOMAIN r /\ q \in DOMAIN r
  BY <1>1, <1>5, Elsewhere DEF Suits, Hand, Plain
<1>11. \A x \in C : x \in Int => OkAt(r, D, x)
  <2> HIDE DEF r, D
  <2>1. OkAt(r, D, p) /\ OkAt(r, D, q)
    BY <1>1, <1>4, <1>9, <1>10, OkOnly
  <2> QED BY <2>1
<1>12. Besides(h, g, K, L, C)
  <2> SUFFICES ASSUME NEW x \in Int \ C
               PROVE  /\ x \in DOMAIN r <=> x \in DOMAIN s
                      /\ x \in DOMAIN s => r[x] = s[x]
                      /\ \A y \in Int : x \in D[y] <=> x \in E[y]
    BY DEF Besides
  <2>1. (x \in DOMAIN r <=> x \in DOMAIN s) /\ (x \in DOMAIN s => r[x] = s[x])
    BY <1>1
  <2>2. (x \in D[Hand] <=> x \in E[Hand]) /\ (x \in D[Top] <=> x \in E[Top])
    BY <1>1, <1>3
  <2> QED BY <1>3, <2>1, <2>2
<1>14. g.needless = h.needless
  BY <1>1 DEF ListsStay
<1> HIDE DEF s, r, E, D, C
<1>15. Layout(g, L, F)
  BY <1>3, <1>6, <1>11, <1>12, <1>14, Carved DEF s, r, E, D
<1> QED BY <1>1, <1>6, <1>8, <1>15 DEF s

(* Top, when there is one. *)
LEMMA TopIs ==
  ASSUME NEW h, NEW H, NEW F, Layout(h, H, F), h.top \in Int, h.top # 0
  PROVE  /\ h.top \in DOMAIN Shape(h) /\ ~Shape(h)[h.top].mapped /\ Shape(h)[h.top].size >= MINSIZE
         /\ h.top > 0 /\ h.top \notin H /\ Only(Where(h, H), h.top, Top)
<1>1. h.top \in Where(h, H)[Top] /\ Where(h, H)[Hand] = H
  BY WhereIs
<1>2. Only(Where(h, H), h.top, Top) /\ h.top \in DOMAIN Shape(h) /\ Suits(Top, Shape(h)[h.top]) /\ h.top > 0
  BY <1>1, InPlace, Elsewhere
<1>3. h.top \notin H
  BY <1>1, <1>2, Elsewhere DEF Only
<1>4. ~Shape(h)[h.top].mapped /\ Shape(h)[h.top].size >= MINSIZE
  BY <1>2, Elsewhere DEF Suits
<1> QED BY <1>2, <1>3, <1>4

(* A check that failed stays failed through the merge of a chunk. *)
LEMMA SettleIs ==
  ASSUME NEW h \in Good, NEW q \in Aligned, NEW n \in Aligned
  PROVE  Settle(h, q, n).aborted = h.aborted
<1>1. set_head(h, q, n) \in Good
  BY HeadsKeep
<1>2. set_head(h, q, n) \in Heaps /\ set_head(h, q, n).aborted = h.aborted
  BY <1>1, HeadIsSet DEF Good, HeadsOnly
<1> DEFINE k == set_head(h, q, n)
<1> HIDE DEF k
<1>3. ASSUME NEW x \in Heaps PROVE PutUnsorted(x, q).aborted = x.aborted /\ [x EXCEPT !.top = q].aborted = x.aborted
                                  /\ set_foot(x, q, n).aborted = x.aborted
  BY DEF Heaps, PutUnsorted, set_foot, Put
<1>4. PutUnsorted(k, q) \in Heaps
  BY <1>1, PutUnsortedKeeps DEF Good, k
<1> QED BY <1>2, <1>3, <1>4 DEF Settle, k

(* Once a check has failed, it stays so in a merge. *)
LEMMA MergeForthAborts ==
  ASSUME NEW g \in Good, NEW next \in Aligned, g.aborted
  PROVE  MergeForth(g, next).aborted
<1>1. \A x \in Heaps : Drop(x, next).aborted = x.aborted /\ clear_inuse_bit(x, next).aborted = x.aborted
  BY DEF Heaps, Drop, clear_inuse_bit, Put
<1>2. unlink_chunk(g, next) \in Heaps /\ g \in Heaps
  BY UnlinkKeeps DEF Good
<1>3. unlink_chunk(g, next).aborted
  <2> DEFINE ok == chunksize(g, next) = prev_size(g, next_chunk(g, next)) /\ InBin(g, next)
  <2> HIDE DEF ok
  <2>1. Check(g, ok) \in Heaps
    BY CheckKeeps DEF Good
  <2>3. Check(g, ok).aborted
    BY <1>2 DEF Check, Heaps
  <2>2. \A x : [Check(g, ok) EXCEPT !.bins = x].aborted
    BY <2>1, <2>3 DEF Heaps
  <2> QED BY <2>2 DEF unlink_chunk, ok
<1> QED BY <1>1, <1>2, <1>3 DEF MergeForth

(* Coalesce, for a chunk in hand: it goes to top or into the unsorted. *)
LEMMA CoalesceIsSound ==
  ASSUME NEW H \in SUBSET Int, NEW F, NEW h \in Sound(H, F), NEW p \in H, p \in Aligned,
         ~h.aborted => ~Shape(h)[p].mapped
  PROVE  Coalesce(h, p) \in Sound(H \ {p}, F) /\ Onward(h, Coalesce(h, p), H \ {p})
<1> DEFINE s == Shape(h)
           q == MergedStart(h, p)
           next == next_chunk(h, p)
           z == MergedEnd(h, next)
           u == Unlinked(h, p, q)
           g == MergeBack(h, p, q)
           u2 == UnlinkedNext(u, next)
           g2 == MergeForth(g, next)
           m == Coalesce(h, p)
           K1 == H \union {q}
           K2 == IF next = u.top \/ inuse(u, next) THEN K1 ELSE K1 \union {next}
           C == IF Absorbs(h, next) THEN {q, p, next} ELSE {q, p}
           L == IF next = h.top THEN H \ {p} ELSE (H \ {p}) \union {q}
           k == set_head(g2, q, z - q)
           i == IF next = h.top THEN [k EXCEPT !.top = q] ELSE k
<1>1. h \in Good /\ h \in Heaps /\ m \in Good /\ (~h.aborted => Layout(h, H, F))
  BY SoundIs, CoalesceKeeps
<1>2. q \in Aligned /\ next \in Aligned /\ z \in Aligned /\ z - q \in Aligned /\ q \in Int /\ next \in Int /\ z \in Int
  BY <1>1, HeadFields, EvenSums DEF MergedStart, MergedEnd
<1>3. m = Settle(g2, q, z - q)
  BY DEF Coalesce, Merge
<1> HIDE DEF q, next, z, m, g2
<1>4. /\ u \in Sound(K1, F) /\ u.mem = h.mem /\ Onward(h, u, H) /\ u.top = h.top
      /\ g \in Good /\ HeadsOnly(u, g)
      /\ Shape(g) = (IF q = p THEN s ELSE Del(s, p))
      /\ \A x : x # p => At(g, x) = At(h, x)
      /\ ~u.aborted =>
              /\ ~h.aborted
              /\ q # p => /\ q \notin H /\ q \in DOMAIN s /\ ~s[q].mapped /\ s[q].size >= MINSIZE
                          /\ q # h.top /\ s[q].size = p - q
  <2>1. Back(h, p, q, H, F)
    BY MergeBackIs
  <2> HIDE DEF u, g, s, K1
  <2> QED BY <2>1 DEF u, g, s, K1, Back
<1> HIDE DEF u, g
<1>5. g2 \in Good /\ (g.aborted => g2.aborted)
  BY <1>1, <1>2, <1>4, UnlinkKeeps, DropKeeps, HeadsKeep, MergeForthAborts DEF MergeForth, g2
<1>6. m.aborted = g2.aborted
  BY <1>2, <1>3, <1>5, SettleIs
<1>7. g.aborted = u.aborted
  BY <1>4 DEF HeadsOnly
<1> SUFFICES ASSUME ~m.aborted PROVE Layout(m, H \ {p}, F) /\ Onward(h, m, H \ {p})
  BY <1>1 DEF Sound, Onward, m
<1>8. ~g2.aborted /\ ~g.aborted /\ ~u.aborted /\ ~h.aborted
  BY <1>4, <1>5, <1>6, <1>7
<1>9. Layout(h, H, F) /\ ~s[p].mapped
  BY <1>1, <1>8
<1>10. /\ p \in DOMAIN s /\ s[p].size >= MINSIZE /\ Followed(s, p) /\ p # h.top /\ p \in Int
       /\ \A x \in H : x # h.top
  BY <1>9, InHand
<1>11. Sized(s) /\ Tiles(s, GivenTo(h.brk, h.maps, F)) /\ Ends(s, h.top)
  BY <1>9 DEF Layout, Ground
<1>12. /\ next = p + s[p].size /\ next \in DOMAIN s /\ ~s[next].mapped /\ s[next].size \in Int /\ s[next].size > 0
       /\ s[p].size \in Int /\ s[p].size > 0 /\ next > p
       /\ chunksize(h, next) = s[next].size /\ next_chunk(h, next) = next + s[next].size
  <2>1. chunksize(h, p) = s[p].size
    BY <1>10, SizeIs
  <2>2. next = p + s[p].size
    BY <2>1 DEF next, next_chunk
  <2>3. next \in DOMAIN s /\ ~s[next].mapped
    BY <1>10, <2>2 DEF Followed
  <2>4. s[next].size \in Int /\ s[next].size > 0 /\ s[p].size \in Int /\ s[p].size > 0
    BY <1>10, <1>11, <2>3 DEF Sized
  <2>5. chunksize(h, next) = s[next].size
    BY <2>3, SizeIs
  <2> QED BY <1>10, <2>2, <2>3, <2>4, <2>5 DEF next_chunk
<1>13. \A x : At(u, x) = At(h, x)
  BY <1>4 DEF At
<1>14. /\ inuse(u, next) = inuse(h, next) /\ next_chunk(u, next) = next_chunk(h, next)
       /\ Absorbs(u, next) = Absorbs(h, next) /\ Shape(u) = s
  BY <1>4, <1>13 DEF inuse, next_chunk, prev_inuse, chunksize, Absorbs, Shape
<1>15. next # p /\ next_chunk(u, next) # p /\ (\A x : x # p => At(g, x) = At(u, x))
       /\ (~u.aborted => next \in DOMAIN Shape(u) /\ next \in DOMAIN Shape(g) /\ ~Shape(g)[next].mapped)
  <2>1. next # p /\ next_chunk(u, next) # p
    BY <1>10, <1>12, <1>14
  <2>2. next \in DOMAIN Shape(g) /\ Shape(g)[next] = s[next]
    BY <1>4, <1>12, <2>1 DEF Del
  <2> QED BY <1>4, <1>12, <1>13, <1>14, <2>1, <2>2
<1>16. /\ u2 \in Sound(K2, F) /\ u2.mem = u.mem
       /\ Onward(u, u2, K1) /\ u2.top = u.top
       /\ ~g2.aborted =>
            /\ ~u2.aborted /\ ~u.aborted /\ HeadsOnly(u2, g2)
            /\ Shape(g2) = IF Absorbs(u, next) THEN Del(Shape(g), next) ELSE Shape(g)
            /\ (next # u.top /\ ~inuse(u, next)) =>
                 /\ next \notin K1 /\ next \in DOMAIN Shape(u) /\ ~Shape(u)[next].mapped /\ Shape(u)[next].size >= MINSIZE
  <2>1. K1 \in SUBSET Int
    BY <1>2
  <2> HIDE DEF K1
  <2>2. Follows(u, g, next, p)
    BY <1>4, <1>15 DEF Follows
  <2>3. Forth(u, g, next, K1, F)
    BY <1>2, <1>4, <2>1, <2>2, MergeForthIs
  <2> HIDE DEF u2
  <2> QED BY <2>3 DEF g2, u2, Forth
<1> HIDE DEF u2
<1>17. Layout(u2, K2, F) /\ Shape(u2) = s /\ u2.top = h.top /\ HeadsOnly(u2, g2) /\ g2.top = h.top
  BY <1>4, <1>8, <1>14, <1>16 DEF Sound, Shape, HeadsOnly
<1>18. K2 = (IF Absorbs(h, next) /\ next # h.top THEN K1 \union {next} ELSE K1)
       /\ (Absorbs(h, next) /\ next # h.top => next \notin K1 /\ s[next].size >= MINSIZE)
  BY <1>4, <1>8, <1>14, <1>16 DEF Absorbs
<1>19. z = (IF Absorbs(h, next) THEN next + s[next].size ELSE next)
  BY <1>12 DEF MergedEnd, Absorbs, z
<1>20. q <= p /\ (q # p => q \notin H /\ q \in DOMAIN s /\ ~s[q].mapped /\ s[q].size = p - q /\ q # h.top /\ q < p)
  <2>1. q # p => s[q].size >= MINSIZE /\ s[q].size = p - q
    BY <1>4, <1>8
  <2> QED BY <1>2, <1>4, <1>8, <1>10, <2>1 DEF MINSIZE, SIZE_SZ
<1>21. z - q >= MINSIZE /\ z > q /\ next < z + 1
  BY <1>2, <1>10, <1>12, <1>19, <1>20 DEF MINSIZE, SIZE_SZ
<1>22. Covers(s, C, q, z)
  <2>1. Covers(s, {p}, p, next)
    BY <1>9, <1>10, <1>11, <1>12, OneCovers
  <2>2. Covers(s, {q, p}, q, next)
    <3>1. CASE q = p
      <4>1. {q, p} = {p}
        BY <3>1
      <4> QED BY <2>1, <3>1, <4>1
    <3>2. CASE q # p
      <4>3. q \in DOMAIN s /\ ~s[q].mapped /\ q + s[q].size = p
        BY <1>2, <1>10, <1>20, <3>2
      <4>4. Covers(s, {q}, q, q + s[q].size)
        BY <1>11, <4>3, OneCovers
      <4>1. Covers(s, {q}, q, q + s[q].size) /\ q + s[q].size = p
        BY <4>3, <4>4
      <4>2. Covers(s, {q} \union {p}, q, next)
        BY <1>2, <1>10, <1>12, <1>20, <2>1, <4>1, TwoCover
      <4> QED BY <4>2
    <3> QED BY <3>1, <3>2
  <2>3. CASE Absorbs(h, next)
    <3>1. Covers(s, {next}, next, z)
      BY <1>11, <1>12, <1>19, <2>3, OneCovers
    <3>2. Covers(s, {q, p} \union {next}, q, z)
      BY <1>2, <1>10, <1>12, <1>19, <1>20, <2>2, <2>3, <3>1, TwoCover
    <3> QED BY <2>3, <3>2
  <2>4. CASE ~Absorbs(h, next)
    BY <1>19, <2>2, <2>4
  <2> QED BY <2>3, <2>4
<1>23. C \in SUBSET Int /\ q \in C /\ p \in C /\ C \subseteq DOMAIN s /\ \A x \in C : ~s[x].mapped /\ (x \in K2 \/ x = h.top)
  <2>1. q \in DOMAIN s /\ ~s[q].mapped /\ p \in DOMAIN s /\ next \in DOMAIN s /\ ~s[next].mapped
    BY <1>9, <1>10, <1>12, <1>20
  <2>2. q \in K2 /\ p \in K2 /\ (Absorbs(h, next) => next \in K2 \/ next = h.top)
    BY <1>18
  <2> QED BY <1>2, <1>9, <1>10, <2>1, <2>2
<1>24. h.top \in C <=> next = h.top
  BY <1>10, <1>20 DEF Absorbs
<1>25. \A x \in H \ {p} : x \notin C
  <2> SUFFICES ASSUME NEW x \in H, x # p, x \in C PROVE FALSE
    OBVIOUS
  <2>1. x # q
    BY <1>20
  <2>2. x = next /\ Absorbs(h, next)
    BY <2>1
  <2> QED BY <1>10, <1>18, <2>2
<1>26. (next = h.top => L = K2 \ C) /\ (next # h.top => L = (K2 \ C) \union {q} /\ q \in L /\ L \ {q} = H \ {p})
  <2>1. CASE next = h.top
    <3>1. K2 = K1
      BY <1>18, <2>1
    <3> QED BY <1>23, <1>25, <2>1, <3>1
  <2>2. CASE next # h.top
    <3>1. K2 \ C = K1 \ C
      BY <1>18, <2>2
    <3>2. K1 \ C = H \ {p}  \/ K1 \ C = (H \ {p}) \ {q}
      BY <1>23, <1>25
    <3>3. q \notin H \ {p}
      BY <1>20
    <3> QED BY <2>2, <3>1, <3>2, <3>3
  <2> QED BY <2>1, <2>2
<1>27. next # h.top => z \in DOMAIN s /\ ~s[z].mapped /\ z \notin C
  <2> SUFFICES ASSUME next # h.top PROVE z \in DOMAIN s /\ ~s[z].mapped /\ z \notin C
    OBVIOUS
  <2>1. z \in DOMAIN s /\ ~s[z].mapped
    <3>1. CASE Absorbs(h, next)
      BY <1>11, <1>12, <1>18, <1>19, <3>1 DEF Ends, Followed
    <3>2. CASE ~Absorbs(h, next)
      BY <1>12, <1>19, <3>2
    <3> QED BY <3>1, <3>2
  <2>2. Has(s, z, z)
    BY <1>2, <1>11, <2>1 DEF Sized, Has
  <2>3. z \notin q .. z - 1
    BY <1>2
  <2> QED BY <1>2, <1>22, <2>1, <2>2, <2>3 DEF Covers
<1>28. /\ k \in Good /\ k \in Heaps /\ Shape(k) = Upd(Shape(g2), q, Plain(z - q)) /\ HeadsOnly(g2, k)
  BY <1>2, <1>5, HeadsKeep, HeadIsSet DEF Good
<1>29. /\ i \in Good /\ i \in Heaps /\ Shape(i) = Shape(k) /\ ListsStay(k, i) /\ i.aborted = k.aborted
       /\ i.top = (IF next = h.top THEN q ELSE k.top)
  <2> HIDE DEF k
  <2>1. CASE next = h.top
    <3> DEFINE j == [k EXCEPT !.top = q]
    <3>1. j \in Good
      BY <1>2, <1>28, OtherFields
    <3>2. Shape(j) = Shape(k) /\ ListsStay(k, j) /\ j.top = q /\ j.aborted = k.aborted
      BY <1>28 DEF Heaps, Shape, ListsStay
    <3> QED BY <2>1, <3>1, <3>2 DEF Good
  <2>2. CASE next # h.top
    BY <1>28, <2>2 DEF ListsStay
  <2> QED BY <2>1, <2>2
<1> HIDE DEF k
<1> HIDE DEF i
<1>30. /\ DOMAIN Shape(i) = (DOMAIN s \ C) \union {q}
       /\ \A x \in DOMAIN s \ C : Shape(i)[x] = s[x]
       /\ Shape(i)[q] = Plain(z - q)
  <2>1. Shape(g2) = (IF Absorbs(h, next) THEN Del(Shape(g), next) ELSE Shape(g))
    BY <1>8, <1>14, <1>16
  <2>2. Shape(i) = Upd(Shape(g2), q, Plain(z - q))
    BY <1>28, <1>29
  <2>3. CASE Absorbs(h, next)
    <3>1. C = {q, p, next}
      BY <2>3
    <3>2. CASE q = p
      BY <1>4, <1>12, <2>1, <2>2, <2>3, <3>1, <3>2 DEF Upd, Del
    <3>3. CASE q # p
      BY <1>4, <1>12, <2>1, <2>2, <2>3, <3>1, <3>3 DEF Upd, Del
    <3> QED BY <3>2, <3>3
  <2>4. CASE ~Absorbs(h, next)
    <3>1. C = {q, p}
      BY <2>4
    <3>2. CASE q = p
      BY <1>4, <2>1, <2>2, <2>4, <3>1, <3>2 DEF Upd, Del
    <3>3. CASE q # p
      BY <1>4, <2>1, <2>2, <2>4, <3>1, <3>3 DEF Upd, Del
    <3> QED BY <3>2, <3>3
  <2> QED BY <2>3, <2>4
<1>31. Layout(i, L, F) /\ i.tcache = h.tcache /\ i.aborted = g2.aborted
  <2>1. ListsStay(u2, i) /\ i.top = (IF next = h.top THEN q ELSE h.top) /\ i.aborted = g2.aborted
    BY <1>17, <1>28, <1>29 DEF ListsStay, HeadsOnly
  <2>2. K2 \in SUBSET Int
    BY <1>2
  <2> HIDE DEF s, C, K2, L
  <2>3. \/ h.top \in C /\ i.top = q /\ L = K2 \ C
        \/ h.top \notin C /\ i.top = h.top /\ L = (K2 \ C) \union {q} /\ z \in DOMAIN s /\ ~s[z].mapped
    BY <1>24, <1>26, <1>27, <2>1
  <2>4. Gathers(u2, i, K2, L, C, q, z)
    BY <1>2, <1>17, <1>21, <1>22, <1>23, <1>30, <2>1, <2>3 DEF Gathers
  <2>5. Layout(i, L, F)
    BY <1>17, <2>2, <2>4, Gathered
  <2>6. u2.tcache = h.tcache
    BY <1>4, <1>8, <1>16 DEF Onward
  <2> QED BY <2>1, <2>5, <2>6 DEF ListsStay
<1>32. \A x \in H \ {p} : x \in DOMAIN s => x \in DOMAIN Shape(i) /\ Shape(i)[x] = s[x]
  BY <1>25, <1>30
<1>33. CASE next = h.top
  <2>1. h.top \in q .. q + (z - q) - 1
    <3>1. z = next + s[next].size
      BY <1>19, <1>33 DEF Absorbs
    <3>2. q <= next /\ next <= z - 1
      BY <1>2, <1>10, <1>12, <1>20, <3>1
    <3> QED BY <1>2, <1>33, <3>2
  <2>2. m = i
    BY <1>3, <1>17, <1>33, <2>1 DEF Settle, i, k
  <2>3. L = H \ {p}
    BY <1>33
  <2> QED BY <1>8, <1>31, <1>32, <2>2, <2>3 DEF Onward
<1>34. CASE next # h.top
  <2>1. h.top \notin q .. q + (z - q) - 1
    <3> SUFFICES ASSUME h.top \in q .. z - 1 PROVE FALSE
      BY <1>2
    <3>1. q > 0
      BY <1>9, <1>23, NotZero
    <3>2. h.top # 0 /\ h.top \in Int
      BY <1>2, <3>1
    <3>3. h.top \in DOMAIN s
      BY <1>9, <3>2, TopIs
    <3>4. Has(s, h.top, h.top)
      BY <1>11, <3>2, <3>3 DEF Sized, Has
    <3>5. PICK x \in C : Has(s, x, h.top)
      BY <1>22, <3>2 DEF Covers
    <3>6. x = h.top
      BY <1>11, <1>23, <3>2, <3>3, <3>4, <3>5 DEF Tiles
    <3> QED BY <1>24, <1>34, <3>5, <3>6
  <2> DEFINE j == PutUnsorted(i, q)
  <2>2. m = set_foot(j, q, z - q)
    BY <1>3, <1>17, <1>34, <2>1 DEF Settle, i, k
  <2>3. i \in Sound(L, F) /\ L \in SUBSET Int /\ q \in L /\ L \ {q} = H \ {p} /\ ~Shape(i)[q].mapped
    <3>1. i \in Sound(L, F)
      BY <1>29, <1>31 DEF Sound
    <3>2. q \in L /\ L \ {q} = H \ {p}
      BY <1>26, <1>34
    <3>3. L \in SUBSET Int
      BY <1>2
    <3>4. ~Shape(i)[q].mapped
      BY <1>30 DEF Plain
    <3> QED BY <3>1, <3>2, <3>3, <3>4
  <2>4. j \in Sound(L \ {q}, F) /\ Onward(i, j, H \ {p})
    <3> HIDE DEF L
    <3> QED BY <1>2, <2>3, PutUnsortedIsSound
  <2>5. Shape(j) = Shape(i) /\ j \in Good /\ j \in Heaps /\ j.tcache = i.tcache
    BY <1>29, <2>4, SoundIs DEF PutUnsorted, Heaps, Shape
  <2>6. z \in DOMAIN Shape(j) /\ ~Shape(j)[z].mapped /\ q + (z - q) = z
    BY <1>2, <1>27, <1>30, <1>34, <2>5
  <2> HIDE DEF j
  <2>7. Shape(m) = Shape(j) /\ HeadsOnly(j, m)
    BY <2>2, <2>5, <2>6, FootIsSet
  <2>8. m \in Sound(H \ {p}, F) /\ Onward(j, m, H \ {p})
    <3>1. j \in Sound(H \ {p}, F)
      BY <2>3, <2>4
    <3> QED BY <1>1, <2>7, <3>1, HeadsSound
  <2>9. Layout(m, H \ {p}, F)
    BY <2>8 DEF Sound
  <2>10. m.tcache = h.tcache
    BY <1>31, <2>5, <2>7 DEF HeadsOnly
  <2> QED BY <1>8, <1>32, <2>5, <2>7, <2>9, <2>10 DEF Onward
<1> QED BY <1>33, <1>34

(* What the m-th turn of a loop does, for m in turn, the loop does. *)
LEMMA TurnsEnd ==
  ASSUME NEW I, NEW n \in Nat, NEW it, it[0] \in I[0],
         \A m \in 1 .. n : it[m - 1] \in I[m - 1] => it[m] \in I[m]
  PROVE  it[n] \in I[n]
<1> DEFINE D == {m \in 0 .. n : it[m] \notin I[m]}
<1>1. SUFFICES ASSUME D # {} PROVE FALSE
  OBVIOUS
<1>2. PICK m \in D : \A k \in D : m <= k
  <2>1. D \in SUBSET Nat
    OBVIOUS
  <2> HIDE DEF D
  <2> QED BY <1>1, <2>1, LeastNumber
<1>3. m # 0
  OBVIOUS
<1>4. m - 1 \in 0 .. n /\ m \in 1 .. n /\ ~(m <= m - 1)
  BY <1>3
<1>5. m - 1 \notin D
  BY <1>2, <1>4
<1> QED
  BY <1>4, <1>5

(* The walk over a list as a sequence of turns. *)
LEMMA WalkTurns ==
  ASSUME NEW n \in Nat, NEW f, NEW F, NEW base,
         \A s \in SUBSET (1 .. n) : f[s] = IF s = {} THEN base ELSE F[<<f[s \ {Max(s)}], Max(s)>>]
  PROVE  /\ f[1 .. 0] = base
         /\ \A m \in 1 .. n : f[1 .. m] = F[<<f[1 .. (m - 1)], m>>]
<1>1. 1 .. 0 = {} /\ {} \in SUBSET (1 .. n)
  OBVIOUS
<1>2. ASSUME NEW m \in 1 .. n PROVE f[1 .. m] = F[<<f[1 .. (m - 1)], m>>]
  <2>1. Max(1 .. m) = m /\ (1 .. m) \ {m} = 1 .. (m - 1) /\ 1 .. m # {} /\ 1 .. m \in SUBSET (1 .. n)
    BY LastOfInterval
  <2>2. f[1 .. m] = F[<<f[(1 .. m) \ {Max(1 .. m)}], Max(1 .. m)>>]
    BY <2>1
  <2> QED BY <2>1, <2>2, Zenon
<1> QED BY <1>1, <1>2

(* malloc_consolidate's loop, turn by turn: a chunk of the list is         *)
(* coalesced in each.                                                      *)
LEMMA CoalesceTurns ==
  ASSUME NEW h \in Good, NEW seq \in Seq(Aligned)
  PROVE  \E it : /\ it[0] = h /\ FoldLeft(Coalesce, h, seq) = it[Len(seq)]
                 /\ \A m \in 0 .. Len(seq) : it[m] \in Good
                 /\ \A m \in 1 .. Len(seq) : it[m] = Coalesce(it[m - 1], seq[m])
<1> DEFINE n == Len(seq)
           F == [x \in Good \X (1 .. n) |-> Coalesce(x[1], seq[x[2]])]
           Is(f) == f = [s \in SUBSET (DOMAIN seq) |->
                           IF s = {} THEN h ELSE Coalesce(f[s \ {Max(s)}], seq[Max(s)])]
           it == CHOOSE f : Is(f)
<1>0. FoldLeft(Coalesce, h, seq) = it[DOMAIN seq]
  BY DEF FoldLeft, MapThenFoldSet
<1>1. n \in Nat /\ DOMAIN seq = 1 .. n /\ \A m \in 1 .. n : seq[m] \in Aligned
  OBVIOUS
<1>2. F \in [Good \X (1 .. n) -> Good] /\ \A x \in Good, m \in 1 .. n : F[<<x, m>>] = Coalesce(x, seq[m])
  BY <1>1, CoalesceKeeps
<1> HIDE DEF n, F
<1>3. PICK f \in [SUBSET (1 .. n) -> Good] : Steps(f, h, F, n)
  BY <1>1, <1>2, StepsExist
<1>4. \A s \in SUBSET (1 .. n) : s # {} => Max(s) \in s
  BY <1>1, MaxInInterval
<1>5. \A s \in SUBSET (1 .. n) : f[s] = IF s = {} THEN h ELSE Coalesce(f[s \ {Max(s)}], seq[Max(s)])
  BY <1>2, <1>3, <1>4 DEF Steps
<1>6. Is(f)
  BY <1>1, <1>5
<1>7. Is(it)
  BY <1>6
<1>8. \A s \in SUBSET (1 .. n) : it[s] = IF s = {} THEN h ELSE Coalesce(it[s \ {Max(s)}], seq[Max(s)])
  BY <1>1, <1>7
<1> HIDE DEF Is, it
<1> DEFINE k == [m \in 0 .. n |-> it[1 .. m]]
<1>9. k[0] = h
  <2>1. 1 .. 0 = {} /\ {} \in SUBSET (1 .. n) /\ 0 \in 0 .. n
    BY <1>1
  <2> QED BY <1>8, <2>1
<1>10. ASSUME NEW m \in 1 .. n PROVE k[m] = Coalesce(k[m - 1], seq[m])
  <2>1. Max(1 .. m) = m /\ (1 .. m) \ {m} = 1 .. (m - 1) /\ 1 .. m # {} /\ 1 .. m \in SUBSET (1 .. n)
    BY <1>1, LastOfInterval
  <2>2. it[1 .. m] = Coalesce(it[(1 .. m) \ {Max(1 .. m)}], seq[Max(1 .. m)])
    BY <1>8, <2>1
  <2>3. it[1 .. m] = Coalesce(it[1 .. (m - 1)], seq[m])
    BY <2>1, <2>2, Zenon
  <2>4. m \in 0 .. n /\ m - 1 \in 0 .. n
    BY <1>1
  <2> QED BY <2>3, <2>4
<1>11. FoldLeft(Coalesce, h, seq) = k[n]
  BY <1>0, <1>1
<1> HIDE DEF k
<1>12. ASSUME NEW m \in 0 .. n PROVE k[m] \in Good
  <2> DEFINE I == [j \in 0 .. m |-> Good]
  <2>1. k[0] \in I[0] /\ \A j \in 1 .. m : k[j - 1] \in I[j - 1] => k[j] \in I[j]
    <3>1. ASSUME NEW j \in 1 .. m, k[j - 1] \in Good PROVE k[j] \in Good
      <4>1. j \in 1 .. n
        BY <1>1
      <4> QED BY <1>1, <1>10, <3>1, <4>1, CoalesceKeeps
    <3> QED BY <1>9, <3>1
  <2>2. I[m] = Good /\ m \in Nat
    OBVIOUS
  <2> HIDE DEF I
  <2> QED BY <2>1, <2>2, TurnsEnd
<1>13. n = Len(seq)
  BY DEF n
<1> QED BY <1>9, <1>10, <1>11, <1>12, <1>13

(* A failed check remains. *)
LEMMA CoalesceOnward ==
  ASSUME NEW h \in Good, NEW p \in Aligned, ~Coalesce(h, p).aborted
  PROVE  ~h.aborted
<1> SUFFICES ASSUME h.aborted PROVE FALSE
  OBVIOUS
<1> DEFINE H == {p}
<1>1. H \in SUBSET Int /\ p \in H /\ h \in Sound(H, {})
  BY DEF Aligned, Sound
<1> HIDE DEF H
<1>2. Onward(h, Coalesce(h, p), H \ {p})
  BY <1>1, CoalesceIsSound
<1> QED BY <1>2 DEF Onward

(* The chunks of a list. *)
LEMMA ToSetType == ASSUME NEW A, NEW l \in Seq(A) PROVE ToSet(l) \subseteq A
BY DEF ToSet

(* An empty list has no chunks. *)
LEMMA ToSetNone == ToSet(<< >>) = {}
BY DEF ToSet

(* The fast chunks, all in hand. *)
FastGone(h) == [h EXCEPT !.fast = [i \in DOMAIN h.fast |-> <<>>], !.have_fastchunks = FALSE]
FastChunks(h) == UNION {ToSet(h.fast[i]) : i \in 0 .. NFASTBINS - 1}

(* malloc_consolidate takes all fast chunks in hand: they are chunks of    *)
(* the heap, none was in hand, and no two fastbins share one.              *)
LEMMA FastInHand ==
  ASSUME NEW h \in Good, NEW H \in SUBSET Int, NEW F, Layout(h, H, F)
  PROVE  /\ Layout(FastGone(h), H \union FastChunks(h), F) /\ FastChunks(h) \in SUBSET Int /\ FastChunks(h) \cap H = {}
         /\ \A p \in FastChunks(h) : p \in DOMAIN Shape(h) /\ ~Shape(h)[p].mapped
         /\ \A i, j \in 0 .. NFASTBINS - 1 : i # j => ToSet(h.fast[i]) \cap ToSet(h.fast[j]) = {}
<1> DEFINE g == FastGone(h)
           P == FastChunks(h)
           E == Where(h, H)
           K == H \union P
           D == Where(g, K)
<1>1. h \in Heaps /\ DOMAIN h.fast = 0 .. NFASTBINS - 1 /\ \A i \in 0 .. NFASTBINS - 1 : h.fast[i] \in Seq(Aligned)
  BY GoodBins DEF Good, Fasts, Lists
<1>2. \A i \in 0 .. NFASTBINS - 1 : ToSet(h.fast[i]) \subseteq Int
  <2>1. Aligned \subseteq Int
    BY DEF Aligned
  <2> QED BY <1>1, <2>1, ToSetType
<1>3. P \in SUBSET Int
  BY <1>2 DEF FastChunks
<1>4. /\ Where(h, H)[Hand] = H
      /\ \A i \in 0 .. NFASTBINS - 1 : E[NBINS + i] = ToSet(h.fast[i]) /\ NBINS + i \in FastPlaces
  BY WhereIs
<1>5. NBINS \in Nat /\ NFASTBINS \in Nat
  BY PtAssumption, SmallEnough
<1>14. \A i \in 0 .. NFASTBINS - 1 : D[NBINS + i] = ToSet(g.fast[i])
  <2> HIDE DEF g, K
  <2> QED BY WhereIs
<1>6. ASSUME NEW i \in 0 .. NFASTBINS - 1, NEW p \in ToSet(h.fast[i])
      PROVE  /\ Only(E, p, NBINS + i) /\ p \in DOMAIN Shape(h) /\ ~Shape(h)[p].mapped /\ p \notin H
             /\ NBINS + i \in Int /\ p \in E[NBINS + i]
  <2>1. p \in Int
    BY <1>2
  <2>2. Only(E, p, NBINS + i) /\ p \in DOMAIN Shape(h) /\ ~Shape(h)[p].mapped /\ p \notin H
    BY <2>1, InFastIs
  <2> QED BY <1>4, <1>5, <2>2
<1>7. P \cap H = {} /\ \A p \in P : p \in DOMAIN Shape(h) /\ ~Shape(h)[p].mapped
  BY <1>6 DEF FastChunks
<1>8. ASSUME NEW i \in 0 .. NFASTBINS - 1, NEW j \in 0 .. NFASTBINS - 1, i # j
      PROVE  ToSet(h.fast[i]) \cap ToSet(h.fast[j]) = {}
  <2> SUFFICES ASSUME NEW p \in ToSet(h.fast[i]), p \in ToSet(h.fast[j]) PROVE FALSE
    OBVIOUS
  <2>1. Only(E, p, NBINS + i) /\ Only(E, p, NBINS + j) /\ p \in E[NBINS + i] /\ NBINS + i \in Int /\ NBINS + j \in Int
    BY <1>6
  <2>2. NBINS + i = NBINS + j
    BY <2>1 DEF Only
  <2> QED BY <1>5, <1>8, <2>2
<1>9. /\ g.fast = [i \in 0 .. NFASTBINS - 1 |-> <<>>] /\ g.mem = h.mem /\ g.top = h.top /\ g.bins = h.bins
      /\ g.entries = h.entries /\ g.tcache = h.tcache /\ g.brk = h.brk /\ g.maps = h.maps /\ g.needless = h.needless
  BY <1>1 DEF Heaps, FastGone
<1> HIDE DEF K
<1>10. Releases(h, g, H, K, P)
  <2>1. Shape(g) = Shape(h) /\ g.top = h.top /\ g.brk = h.brk /\ g.maps = h.maps /\ g.needless = h.needless
    BY <1>9 DEF Shape
  <2>2. Distinct(g) /\ CacheIsOwned(g)
    <3>1. \A i \in 0 .. NFASTBINS - 1 : g.fast[i] = << >>
      BY <1>9
    <3>2. \A i \in 0 .. NFASTBINS - 1 : IsInjective(g.fast[i])
      BY <3>1 DEF IsInjective
    <3> QED BY <1>9, <3>2 DEF Distinct, CacheIsOwned, NoCache, Layout
  <2>3. \A p \in P : \E x \in Int : p \in E[x]
    BY <1>6 DEF FastChunks
  <2>4. D[Hand] = K /\ K = H \union P /\ E[Hand] = H
    BY <1>4, WhereIs DEF K
  <2>5. ASSUME NEW x \in Int \ {Hand} PROVE D[x] = E[x] \ P
    <3>1. CASE x \in FastPlaces
      <4>1. x - NBINS \in 0 .. NFASTBINS - 1
        BY <1>5, <3>1 DEF FastPlaces
      <4>2. PICK i \in 0 .. NFASTBINS - 1 : i = x - NBINS
        BY <4>1
      <4>3. x = NBINS + i
        BY <1>5, <4>2
      <4>4. E[x] = ToSet(h.fast[i])
        BY <1>4, <4>3
      <4>5. D[x] = ToSet(g.fast[i])
        BY <1>14, <4>3
      <4>6. ToSet(g.fast[i]) = {}
        <5>1. g.fast[i] = << >>
          BY <1>9
        <5> HIDE DEF g
        <5> QED BY <5>1, ToSetNone
      <4> QED BY <4>4, <4>5, <4>6 DEF FastChunks
    <3>2. CASE x \notin FastPlaces
      <4>1. D[x] = E[x]
        <5>1. /\ g.top = h.top /\ g.bins = h.bins /\ g.entries = h.entries /\ g.tcache = h.tcache
          BY <1>9
        <5> HIDE DEF g
        <5> QED BY <2>5, <3>2, <5>1 DEF Where
      <4>2. \A i \in 0 .. NFASTBINS - 1 : x # NBINS + i
        BY <1>4, <3>2
      <4>3. \A p \in P : p \notin E[x]
        BY <1>6, <2>5, <4>2 DEF Only, FastChunks
      <4> QED BY <4>1, <4>3
    <3> QED BY <3>1, <3>2
  <2> QED BY <1>3, <2>1, <2>2, <2>3, <2>4, <2>5 DEF Releases
<1>11. Layout(g, K, F)
  BY <1>10, Released
<1> QED BY <1>3, <1>7, <1>8, <1>11 DEF K

(* malloc_consolidate *)
LEMMA ConsolidateIsSound ==
  ASSUME NEW H \in SUBSET Int, NEW F, NEW h \in Sound(H, F)
  PROVE  malloc_consolidate(h) \in Sound(H, F) /\ Onward(h, malloc_consolidate(h), H)
<1> DEFINE g == FastGone(h)
           lists == [i \in 1 .. NFASTBINS |-> h.fast[i - 1]]
           seq == FlattenSeq(lists)
           m == malloc_consolidate(h)
           n == Len(seq)
           P == FastChunks(h)
           R(k) == {seq[j] : j \in k + 1 .. n}
<1>1. h \in Good /\ h \in Heaps /\ m \in Good /\ (~h.aborted => Layout(h, H, F))
  BY SoundIs, ConsolidateKeeps DEF Merged
<1>2. /\ lists \in Seq(Seq(Aligned)) /\ NFASTBINS \in Nat /\ DOMAIN lists = 1 .. NFASTBINS
      /\ \A i \in 1 .. NFASTBINS : lists[i] = h.fast[i - 1]
  <2>1. NFASTBINS \in Nat
    BY SmallEnough
  <2>2. \A i \in 1 .. NFASTBINS : h.fast[i - 1] \in Seq(Aligned)
    BY <1>1, <2>1, GoodBins DEF Lists
  <2> QED BY <2>1, <2>2
<1>3. m = FoldLeft(Coalesce, g, seq)
  BY DEF malloc_consolidate, FastGone
<1>4. seq \in Seq(Aligned) /\ n \in Nat /\ (\A k \in 1 .. n : seq[k] \in Aligned)
  <2> HIDE DEF lists
  <2>1. seq \in Seq(Aligned)
    BY <1>2, FlattenedType
  <2> QED BY <2>1
<1>5. g \in Good /\ g.aborted = h.aborted /\ g.tcache = h.tcache /\ Shape(g) = Shape(h)
  <2> DEFINE fast == [i \in DOMAIN h.fast |-> << >>]
  <2>1. fast \in Fasts /\ NoFast(fast)
    <3>1. DOMAIN h.fast = 0 .. NFASTBINS - 1
      BY <1>1, GoodBins DEF Fasts
    <3>2. << >> \in Lists
      BY DEF Lists
    <3>3. \A i \in 0 .. NFASTBINS - 1 : fast[i] = << >>
      BY <3>1
    <3>4. fast \in Fasts
      BY <3>1, <3>2 DEF Fasts
    <3> QED BY <3>3, <3>4 DEF NoFast
  <2> HIDE DEF fast
  <2>2. /\ g \in Heaps /\ g.bins = h.bins /\ g.binmap = h.binmap /\ g.fast = fast /\ g.mp = h.mp /\ g.have_fastchunks = FALSE
        /\ g.aborted = h.aborted /\ g.tcache = h.tcache /\ g.mem = h.mem
    <3> DEFINE e == [h EXCEPT !.fast = fast, !.have_fastchunks = FALSE]
    <3>1. /\ e \in Heaps /\ e.bins = h.bins /\ e.binmap = h.binmap /\ e.fast = fast /\ e.mp = h.mp /\ e.have_fastchunks = FALSE
          /\ e.aborted = h.aborted /\ e.tcache = h.tcache /\ e.mem = h.mem
      BY <1>1, <2>1 DEF Heaps
    <3>2. e = g
      BY DEF fast, FastGone
    <3> QED BY <3>1, <3>2
  <2> HIDE DEF g
  <2> QED BY <1>1, <2>1, <2>2, GoodBins DEF Good, FastAreFlagged, FastAreSmall, NoFast, Shape
<1> HIDE DEF g, seq, m, n
<1>6. PICK it : /\ it[0] = g /\ FoldLeft(Coalesce, g, seq) = it[n]
                /\ \A k \in 0 .. n : it[k] \in Good
                /\ \A k \in 1 .. n : it[k] = Coalesce(it[k - 1], seq[k])
  BY <1>4, <1>5, CoalesceTurns DEF n
<1> DEFINE I == [k \in 0 .. n |-> {x \in Sound(H \union R(k), F) : Onward(h, x, H \union R(k))}]
<1>7. R(n) = {}
  BY <1>4
<1>8. ~h.aborted => /\ Layout(g, H \union R(0), F) /\ R(0) = P /\ P \in SUBSET Int /\ P \cap H = {} /\ IsInjective(seq)
                    /\ \A p \in P : p \in DOMAIN Shape(h) /\ ~Shape(h)[p].mapped
  <2> SUFFICES ASSUME ~h.aborted
               PROVE  /\ Layout(g, H \union R(0), F) /\ R(0) = P /\ P \in SUBSET Int /\ P \cap H = {} /\ IsInjective(seq)
                      /\ \A p \in P : p \in DOMAIN Shape(h) /\ ~Shape(h)[p].mapped
    OBVIOUS
  <2>1. Layout(h, H, F)
    BY <1>1
  <2>2. /\ Layout(g, H \union P, F) /\ P \in SUBSET Int /\ P \cap H = {}
        /\ \A p \in P : p \in DOMAIN Shape(h) /\ ~Shape(h)[p].mapped
        /\ \A i, j \in 0 .. NFASTBINS - 1 : i # j => ToSet(h.fast[i]) \cap ToSet(h.fast[j]) = {}
    BY <1>1, <2>1, FastInHand DEF g
  <2>3. IsInjective(seq) /\ ToSet(seq) = UNION {ToSet(lists[i]) : i \in 1 .. NFASTBINS}
    <3>1. \A i \in 1 .. NFASTBINS : i - 1 \in 0 .. NFASTBINS - 1
      BY <1>2
    <3>2. \A i \in 1 .. NFASTBINS : IsInjective(lists[i])
      BY <1>2, <2>1, <3>1 DEF Layout, Distinct
    <3>3. ASSUME NEW i \in 1 .. NFASTBINS, NEW j \in 1 .. NFASTBINS, i # j PROVE ToSet(lists[i]) \cap ToSet(lists[j]) = {}
      <4>1. i - 1 # j - 1 /\ i - 1 \in 0 .. NFASTBINS - 1 /\ j - 1 \in 0 .. NFASTBINS - 1
        BY <1>2, <3>3
      <4>2. ToSet(h.fast[i - 1]) \cap ToSet(h.fast[j - 1]) = {}
        BY <2>2, <4>1
      <4> QED BY <1>2, <4>2
    <3> HIDE DEF lists
    <3>4. /\ ToSet(FlattenSeq(lists)) = UNION {ToSet(lists[i]) : i \in DOMAIN lists}
          /\ (/\ \A i \in DOMAIN lists : IsInjective(lists[i])
              /\ \A i, j \in DOMAIN lists : i # j => ToSet(lists[i]) \cap ToSet(lists[j]) = {})
            => IsInjective(FlattenSeq(lists))
      BY <1>2, FlattenedOnce
    <3>5. IsInjective(FlattenSeq(lists))
      BY <1>2, <3>2, <3>3, <3>4
    <3> QED BY <1>2, <3>4, <3>5 DEF seq
  <2>4. UNION {ToSet(lists[i]) : i \in 1 .. NFASTBINS} = P
    <3> USE DEF FastChunks
    <3>1. ASSUME NEW x \in P PROVE x \in UNION {ToSet(lists[i]) : i \in 1 .. NFASTBINS}
      <4>1. PICK i \in 0 .. NFASTBINS - 1 : x \in ToSet(h.fast[i])
        BY <3>1
      <4>2. i + 1 \in 1 .. NFASTBINS /\ (i + 1) - 1 = i
        BY <1>2
      <4>3. x \in ToSet(lists[i + 1])
        BY <1>2, <4>1, <4>2
      <4> QED BY <4>2, <4>3
    <3>2. ASSUME NEW i \in 1 .. NFASTBINS, NEW x \in ToSet(lists[i]) PROVE x \in P
      <4>1. i - 1 \in 0 .. NFASTBINS - 1 /\ x \in ToSet(h.fast[i - 1])
        BY <1>2
      <4> QED BY <4>1
    <3> QED BY <3>1, <3>2
  <2>5. R(0) = ToSet(seq)
    BY <1>4 DEF ToSet, n
  <2> QED BY <2>2, <2>3, <2>4, <2>5
<1> HIDE DEF P, R
<1>9. it[0] \in I[0]
  <2>1. I[0] = {x \in Sound(H \union R(0), F) : Onward(h, x, H \union R(0))}
    BY <1>4
  <2>2. g \in Sound(H \union R(0), F)
    BY <1>5, <1>8 DEF Sound
  <2>3. Onward(h, g, H \union R(0))
    BY <1>5 DEF Onward
  <2> QED BY <1>6, <2>1, <2>2, <2>3
<1>10. ASSUME NEW k \in 1 .. n, it[k - 1] \in I[k - 1] PROVE it[k] \in I[k]
  <2> DEFINE x == it[k - 1]
             y == it[k]
             p == seq[k]
             B == H \union R(k - 1)
  <2>1. k - 1 \in 0 .. n /\ k \in 0 .. n /\ p \in Aligned
    BY <1>4
  <2>2. x \in Sound(B, F) /\ Onward(h, x, B) /\ x \in Good /\ y \in Good /\ y = Coalesce(x, p)
    BY <1>6, <1>10, <2>1
  <2>3. I[k] = {w \in Sound(H \union R(k), F) : Onward(h, w, H \union R(k))}
    BY <2>1
  <2>4. CASE x.aborted
    <3>1. y.aborted
      BY <2>1, <2>2, <2>4, CoalesceOnward
    <3> HIDE DEF x, y
    <3> QED BY <2>2, <2>3, <3>1 DEF Sound, Onward, y
  <2>5. CASE ~x.aborted
    <3>1. ~h.aborted
      BY <2>2, <2>5 DEF Onward
    <3>2. R(k - 1) = R(k) \union {p} /\ p \notin R(k)
      <4>1. k .. n = {k} \union (k + 1 .. n) /\ (k - 1) + 1 = k
        BY <1>4
      <4>2. R(k - 1) = R(k) \union {p}
        BY <4>1 DEF R
      <4>3. \A j \in k + 1 .. n : seq[j] # seq[k]
        <5>1. DOMAIN seq = 1 .. n /\ \A j \in k + 1 .. n : j \in 1 .. n /\ j # k
          BY <1>4 DEF n
        <5>2. IsInjective(seq)
          BY <1>8, <3>1
        <5> QED BY <5>1, <5>2 DEF IsInjective
      <4>4. p \notin R(k)
        BY <4>3 DEF R
      <4> QED BY <4>2, <4>4
    <3>3. R(k - 1) \subseteq R(0)
      <4>1. \A j \in (k - 1) + 1 .. n : j \in 0 + 1 .. n
        BY <1>4
      <4> QED BY <4>1 DEF R
    <3>4. p \in P /\ p \notin H /\ P \in SUBSET Int /\ p \in DOMAIN Shape(h) /\ ~Shape(h)[p].mapped /\ R(k - 1) \subseteq P
      BY <1>8, <3>1, <3>2, <3>3
    <3>5. B \in SUBSET Int /\ p \in B /\ B \ {p} = H \union R(k)
      BY <3>2, <3>4
    <3>6. ~Shape(x)[p].mapped
      BY <2>2, <2>5, <3>4, <3>5 DEF Onward
    <3> HIDE DEF x, y, p, B, I
    <3>7. Coalesce(x, p) \in Sound(B \ {p}, F) /\ Onward(x, Coalesce(x, p), B \ {p})
      BY <2>1, <2>2, <3>5, <3>6, CoalesceIsSound
    <3>8. y \in Sound(B \ {p}, F) /\ Onward(x, y, B \ {p})
      BY <2>2, <3>7
    <3>9. Onward(h, y, B \ {p})
      BY <2>2, <3>8, OnwardTwice
    <3>10. y \in I[k]
      BY <2>3, <3>5, <3>8, <3>9
    <3> QED BY <3>10 DEF y
  <2> QED BY <2>4, <2>5
<1>11. it[n] \in I[n]
  <2> HIDE DEF I
  <2> QED BY <1>4, <1>9, <1>10, TurnsEnd
<1>12. I[n] = {x \in Sound(H, F) : Onward(h, x, H)}
  <2>1. n \in 0 .. n /\ H \union R(n) = H
    BY <1>4, <1>7
  <2> QED BY <2>1
<1> QED BY <1>3, <1>6, <1>11, <1>12 DEF m

-----------------------------------------------------------------------------
(* Cutting: chunks, top, and the kernel's memory. *)

(* What h may become when the chunks of C stay as they are. *)
Reach(h, K, F, C) == {g \in Sound(K, F) : Onward(h, g, C)}

(* What it says of g to be reached from h. *)
LEMMA ReachIs ==
  ASSUME NEW h, NEW K, NEW F, NEW C, NEW g \in Reach(h, K, F, C)
  PROVE  /\ g \in Sound(K, F) /\ g \in Good /\ g \in Heaps /\ Onward(h, g, C)
         /\ ~g.aborted => /\ Layout(g, K, F) /\ ~h.aborted /\ g.tcache = h.tcache
                          /\ \A q \in C : q \in DOMAIN Shape(h) => q \in DOMAIN Shape(g) /\ Shape(g)[q] = Shape(h)[q]
BY SoundIs DEF Reach, Onward

(* Two steps, one after the other. *)
LEMMA ReachTwice ==
  ASSUME NEW h, NEW K, NEW F, NEW B, NEW g \in Reach(h, K, F, B), NEW L, NEW G, NEW C, C \subseteq B,
         NEW k \in Reach(g, L, G, C)
  PROVE  k \in Reach(h, L, G, C)
BY OnwardTwice DEF Reach

(* A header that is written depends on the headers alone. *)
LEMMA HeadMem ==
  ASSUME NEW x \in Heaps, NEW y \in Heaps, x.mem = y.mem, NEW p, NEW n
  PROVE  set_head(x, p, n).mem = set_head(y, p, n).mem
BY DEF Heaps, set_head, Put, At

(* A chunk in hand that is large enough serves the request: what it has    *)
(* too much goes to the unsorted chunks, and the rest stays in hand.       *)
LEMMA ServeIsSound ==
  ASSUME NEW H \in SUBSET Int, NEW F, NEW h \in Sound(H, F), NEW p \in H, p \in Aligned, NEW nb \in Aligned, nb >= MINSIZE,
         ~h.aborted => ~Shape(h)[p].mapped /\ Shape(h)[p].size >= nb
  PROVE  /\ Serve(h, p, nb) \in Reach(h, H, F, H \ {p})
         /\ ~Serve(h, p, nb).aborted =>
              /\ p \in DOMAIN Shape(Serve(h, p, nb)) /\ ~Shape(Serve(h, p, nb))[p].mapped
              /\ Shape(Serve(h, p, nb))[p].size >= nb
<1> DEFINE g == Serve(h, p, nb)
           s == Shape(h)
           r == p + nb
           size == chunksize(h, p)
           w == PutUnsorted(h, r)
           a == set_head(set_head(h, p, nb), r, size - nb)
           b == PutUnsorted(a, r)
           c == set_head(set_head(w, p, nb), r, size - nb)
<1>1. h \in Good /\ h \in Heaps /\ g \in Good /\ (~h.aborted => Layout(h, H, F)) /\ nb \in Int
  BY SoundIs, ServeKeeps, EvenSums
<1>2. r \in Aligned /\ size \in Aligned /\ size - nb \in Aligned /\ r \in Int /\ size \in Int
  BY <1>1, HeadFields, EvenSums
<1>3. w \in Good /\ a \in Good /\ c \in Good /\ set_head(h, p, nb) \in Good /\ set_head(w, p, nb) \in Good /\ b \in Good
  BY <1>1, <1>2, HeadsKeep, PutUnsortedKeeps
<1>4. ASSUME NEW k, NEW n, NEW x \in Heaps
      PROVE  set_head(x, k, n).aborted = x.aborted /\ set_inuse_bit(x, k).aborted = x.aborted /\ set_foot(x, k, n).aborted = x.aborted
             /\ PutUnsorted(x, k).aborted = x.aborted
  BY DEF Heaps, set_head, set_inuse_bit, set_foot, Put, PutUnsorted
<1>5. g.aborted = h.aborted
  <2>1. c.aborted = h.aborted
    <3>1. c.aborted = set_head(w, p, nb).aborted
      BY <1>3, <1>4 DEF Good
    <3>2. set_head(w, p, nb).aborted = w.aborted
      BY <1>3, <1>4 DEF Good
    <3> QED BY <1>1, <1>4, <3>1, <3>2
  <2>2. g = set_inuse_bit(h, p + size) \/ g = set_foot(c, r, size - nb)
    BY DEF Serve
  <2>3. c \in Heaps
    BY <1>3 DEF Good
  <2> HIDE DEF c, g
  <2>4. set_inuse_bit(h, p + size).aborted = h.aborted /\ set_foot(c, r, size - nb).aborted = c.aborted
    BY <1>1, <1>4, <2>3
  <2> QED BY <2>1, <2>2, <2>4
<1> SUFFICES ASSUME ~h.aborted
             PROVE  /\ g \in Sound(H, F) /\ Onward(h, g, H \ {p})
                    /\ p \in DOMAIN Shape(g) /\ ~Shape(g)[p].mapped /\ Shape(g)[p].size >= nb
  BY <1>1, <1>5 DEF Sound, Reach, Onward
<1>6. Layout(h, H, F) /\ ~s[p].mapped /\ s[p].size >= nb
  BY <1>1
<1>7. p \in DOMAIN s /\ p \in Int /\ Followed(s, p) /\ s[p].size = size
  BY <1>6, InHand, SizeIs
<1>8. CASE size - nb < MINSIZE
  <2>1. g = set_inuse_bit(h, p + size)
    BY <1>8 DEF Serve
  <2>2. p + size \in DOMAIN s /\ ~s[p + size].mapped
    BY <1>7 DEF Followed
  <2>3. Shape(g) = s /\ HeadsOnly(h, g)
    BY <1>1, <2>1, <2>2, FlagsAreSet
  <2> HIDE DEF g
  <2>4. g \in Sound(H, F) /\ Onward(h, g, H \ {p})
    BY <1>1, <2>3, HeadsSound
  <2> QED BY <1>6, <1>7, <2>3, <2>4
<1>9. CASE ~(size - nb < MINSIZE)
  <2> DEFINE K == H \union {r}
  <2>1. g = set_foot(c, r, size - nb)
    BY <1>9 DEF Serve
  <2>2. /\ Shape(a) = Upd(Upd(s, p, Plain(nb)), r, Plain(size - nb))
        /\ HeadsOnly(h, a)
    <3> DEFINE x == set_head(h, p, nb)
    <3>1. x \in Heaps /\ Shape(x) = Upd(s, p, Plain(nb)) /\ HeadsOnly(h, x)
      BY <1>1, <1>3, HeadIsSet DEF Good
    <3> HIDE DEF x
    <3>2. Shape(set_head(x, r, size - nb)) = Upd(Shape(x), r, Plain(size - nb)) /\ HeadsOnly(x, set_head(x, r, size - nb))
      BY <3>1, HeadIsSet
    <3>3. a = set_head(x, r, size - nb)
      BY DEF x
    <3> HIDE DEF a
    <3> QED BY <3>1, <3>2, <3>3 DEF HeadsOnly
  <2> HIDE DEF a
  <2>3. r # p
    BY <1>1, <1>7 DEF MINSIZE, SIZE_SZ
  <2>4. /\ DOMAIN Shape(a) = DOMAIN s \union {r} /\ Shape(a)[p] = Plain(nb) /\ Shape(a)[r] = Plain(s[p].size - nb)
        /\ \A x \in DOMAIN s \ {p} : x # r => Shape(a)[x] = s[x]
    BY <1>7, <2>2, <2>3 DEF Upd
  <2>5. r \notin DOMAIN s
    <3>1. Sized(s) /\ Tiles(s, GivenTo(h.brk, h.maps, F))
      BY <1>6 DEF Layout, Ground
    <3>2. Has(s, p, r)
      BY <1>1, <1>2, <1>6, <1>7, <1>9, <3>1 DEF Sized, Has, MINSIZE, SIZE_SZ
    <3>3. r \in DOMAIN s => Has(s, r, r)
      BY <1>2, <3>1 DEF Sized, Has
    <3> QED BY <1>2, <1>7, <2>3, <3>1, <3>2, <3>3 DEF Tiles
  <2>6. Parts(h, a, H, K, p, nb)
    <3>1. ListsStay(h, a) /\ a.top = h.top
      BY <2>2 DEF HeadsOnly, ListsStay
    <3>2. nb \in Int /\ ~s[p].mapped /\ s[p].size - nb >= MINSIZE
      BY <1>1, <1>2, <1>6, <1>7, <1>9 DEF MINSIZE, SIZE_SZ
    <3> QED BY <2>4, <2>5, <3>1, <3>2 DEF Parts
  <2>7. Layout(a, K, F) /\ r \notin H
    BY <1>6, <2>6, Parted
  <2>8. a \in Sound(K, F) /\ K \in SUBSET Int /\ r \in K /\ ~Shape(a)[r].mapped
    BY <1>2, <1>3, <2>4, <2>7 DEF Sound, Plain
  <2>9. b \in Sound(K \ {r}, F) /\ b \in Heaps /\ K \ {r} = H
    <3> HIDE DEF K
    <3>1. PutUnsorted(a, r) \in Sound(K \ {r}, F)
      BY <1>2, <2>8, PutUnsortedIsSound
    <3>2. K \ {r} = H
      BY <2>7 DEF K
    <3> QED BY <3>1, <3>2, SoundIs
  <2>10. c \in Heaps /\ a \in Heaps /\ w \in Heaps /\ set_head(h, p, nb) \in Heaps /\ set_head(w, p, nb) \in Heaps
    BY <1>3 DEF Good
  <2>11. SameLayout(b, c)
    <3>1. w.mem = h.mem /\ w.bins = [h.bins EXCEPT ![1] = <<r>> \o @] /\ w.top = h.top /\ w.fast = h.fast /\ w.entries = h.entries
          /\ w.tcache = h.tcache /\ w.brk = h.brk /\ w.maps = h.maps /\ w.needless = h.needless
      BY <1>1 DEF Heaps, PutUnsorted
    <3>2. b.mem = a.mem /\ b.bins = [a.bins EXCEPT ![1] = <<r>> \o @] /\ b.top = a.top /\ b.fast = a.fast /\ b.entries = a.entries
          /\ b.tcache = a.tcache /\ b.brk = a.brk /\ b.maps = a.maps /\ b.needless = a.needless
      BY <2>10 DEF Heaps, PutUnsorted
    <3>3. HeadsOnly(w, set_head(w, p, nb)) /\ HeadsOnly(set_head(w, p, nb), c)
      BY <2>10, HeadIsSet
    <3>4. set_head(w, p, nb).mem = set_head(h, p, nb).mem
      BY <1>1, <2>10, <3>1, HeadMem
    <3>5. c.mem = a.mem
      BY <2>10, <3>4, HeadMem DEF a
    <3> HIDE DEF b, c, w
    <3> QED BY <2>2, <3>1, <3>2, <3>3, <3>5 DEF SameLayout, HeadsOnly
  <2>12. c.aborted = b.aborted /\ c.aborted = h.aborted
    <3>1. b.aborted = a.aborted /\ a.aborted = h.aborted
      BY <1>4, <2>2, <2>10 DEF HeadsOnly
    <3>2. c.aborted = w.aborted /\ w.aborted = h.aborted
      <4>1. c.aborted = set_head(w, p, nb).aborted
        BY <1>4, <2>10
      <4>2. set_head(w, p, nb).aborted = w.aborted
        BY <1>4, <2>10
      <4> QED BY <1>1, <1>4, <4>1, <4>2
    <3> QED BY <3>1, <3>2
  <2>13. c \in Sound(H, F) /\ Shape(c) = Shape(a)
    <3>1. Shape(c) = Shape(b) /\ Shape(b) = Shape(a)
      BY <2>10, <2>11 DEF SameLayout, Shape, PutUnsorted, Heaps
    <3> HIDE DEF b, c
    <3>2. c \in Sound(H, F)
      BY <1>3, <2>9, <2>11, <2>12, SoundFrame DEF c
    <3> QED BY <3>1, <3>2
  <2>14. r + (size - nb) \in DOMAIN Shape(c) /\ ~Shape(c)[r + (size - nb)].mapped
    <3>1. r + (size - nb) = p + size /\ p + size # p
      BY <1>1, <1>2, <1>7, <1>9 DEF MINSIZE, SIZE_SZ
    <3>2. p + size \in DOMAIN s /\ ~s[p + size].mapped
      BY <1>7 DEF Followed
    <3> QED BY <2>4, <2>5, <2>13, <3>1, <3>2
  <2> HIDE DEF c, b
  <2>15. Shape(g) = Shape(c) /\ HeadsOnly(c, g)
    BY <2>1, <2>10, <2>14, FootIsSet
  <2>16. g \in Sound(H, F)
    BY <1>1, <2>13, <2>15, HeadsSound
  <2>17. g.tcache = h.tcache
    <3>1. c.tcache = b.tcache /\ b.tcache = a.tcache /\ a.tcache = h.tcache
      BY <2>2, <2>10, <2>11 DEF HeadsOnly, SameLayout, PutUnsorted, Heaps, b
    <3> QED BY <2>15, <3>1 DEF HeadsOnly
  <2>18. \A x \in H \ {p} : x \in DOMAIN s => x \in DOMAIN Shape(g) /\ Shape(g)[x] = s[x]
    BY <2>4, <2>5, <2>13, <2>15
  <2>19. p \in DOMAIN Shape(g) /\ Shape(g)[p] = Plain(nb)
    BY <1>7, <2>4, <2>13, <2>15
  <2>20. Onward(h, g, H \ {p})
    BY <2>17, <2>18 DEF Onward
  <2> HIDE DEF g
  <2> QED BY <1>1, <2>16, <2>19, <2>20 DEF Plain
<1> QED BY <1>8, <1>9

(* Top is cut in two: its lower part is in hand. *)
PartsTop(h, g, K, L, p, n) ==
  /\ p = h.top /\ p \in Int /\ p # 0 /\ n \in Int /\ n >= MINSIZE /\ Shape(h)[p].size - n >= MINSIZE
  /\ DOMAIN Shape(g) = DOMAIN Shape(h) \union {p + n}
  /\ \A x \in DOMAIN Shape(h) \ {p} : x # p + n => Shape(g)[x] = Shape(h)[x]
  /\ Shape(g)[p] = Plain(n) /\ Shape(g)[p + n] = Plain(Shape(h)[p].size - n)
  /\ g.top = p + n /\ L = K \union {p} /\ ListsStay(h, g)

(* Top that is cut in two keeps the layout: the lower part is in hand. *)
LEMMA PartedTop ==
  ASSUME NEW h, NEW g, NEW K \in SUBSET Int, NEW L, NEW F, NEW p, NEW n, Layout(h, K, F), PartsTop(h, g, K, L, p, n)
  PROVE  Layout(g, L, F) /\ p + n \notin DOMAIN Shape(h) /\ p \notin K /\ p \in DOMAIN Shape(h)
<1> DEFINE s == Shape(h)
           r == Shape(g)
           E == Where(h, K)
           D == Where(g, L)
           q == p + n
           C == {p, q}
<1>1. /\ p = h.top /\ p \in Int /\ p # 0 /\ n \in Int /\ n > 0 /\ n >= MINSIZE /\ s[p].size - n >= MINSIZE
      /\ q \in Int /\ q # p
      /\ DOMAIN r = DOMAIN s \union {q} /\ (\A x \in DOMAIN s \ {p} : x # q => r[x] = s[x])
      /\ r[p] = Plain(n) /\ r[q] = Plain(s[p].size - n) /\ g.top = q /\ L = K \union {p} /\ ListsStay(h, g)
  BY DEF PartsTop, MINSIZE, SIZE_SZ
<1>2. Ground(s, h.top, h.brk, h.maps, F) /\ Distinct(h) /\ CacheIsOwned(h)
  BY DEF Layout
<1>3. /\ \A x \in Int \ {Hand, Top} : D[x] = E[x]
      /\ D[Hand] = L /\ D[Top] = {g.top} \ {0} /\ E[Hand] = K /\ E[Top] = {h.top} \ {0}
      /\ Distinct(g) /\ CacheIsOwned(g)
  BY <1>1, <1>2, ListsFrame
<1>4. Hand \in Int /\ Top \in Int /\ Hand # Top
  BY Elsewhere
<1>5. Only(E, p, Top) /\ p \in DOMAIN s /\ p \notin K /\ p > 0 /\ ~s[p].mapped /\ s[p].size \in Int
  <2>1. Sized(s)
    BY <1>2 DEF Ground
  <2>2. Only(E, p, Top) /\ p \in DOMAIN s /\ p \notin K /\ p > 0 /\ ~s[p].mapped
    BY <1>1, TopIs
  <2> QED BY <2>1, <2>2 DEF Sized
<1>6. q \notin DOMAIN s /\ Ground(r, g.top, g.brk, g.maps, F)
  <2>1. s[p].size >= MINSIZE /\ 0 < n /\ n < s[p].size
    BY <1>1, <1>5 DEF MINSIZE, SIZE_SZ
  <2>2. g.brk = h.brk /\ g.maps = h.maps
    BY <1>1 DEF ListsStay
  <2>3. q \notin DOMAIN s
    <3>1. Sized(s) /\ Tiles(s, GivenTo(h.brk, h.maps, F))
      BY <1>2 DEF Ground
    <3>2. Has(s, p, q)
      BY <1>1, <1>5, <2>1, <3>1 DEF Sized, Has
    <3>3. q \in DOMAIN s => Has(s, q, q)
      BY <1>1, <3>1 DEF Sized, Has
    <3> QED BY <1>1, <1>5, <3>1, <3>2, <3>3 DEF Tiles
  <2>4. \A x \in DOMAIN s \ {p} : r[x] = s[x]
    BY <1>1, <2>3
  <2> HIDE DEF s, r
  <2>5. q \notin DOMAIN s /\ Ground(r, IF p = h.top THEN q ELSE h.top, h.brk, h.maps, F)
    BY <1>1, <1>2, <1>5, <2>1, <2>4, CutInTwo
  <2> QED BY <1>1, <2>2, <2>5
<1>7. Nowhere(E, q)
  BY <1>1, <1>6, NewIsNowhere
<1>8. q \notin K /\ q # 0
  BY <1>1, <1>3, <1>4, <1>5, <1>7 DEF Nowhere
<1>9. Only(D, p, Hand) /\ Only(D, q, Top)
  <2>1. p \in D[Hand] /\ q \notin D[Hand] /\ p \notin D[Top] /\ q \in D[Top]
    BY <1>1, <1>3, <1>5, <1>8
  <2>2. \A y \in Int \ {Hand, Top} : p \notin D[y] /\ q \notin D[y]
    BY <1>3, <1>4, <1>5, <1>7 DEF Only, Nowhere
  <2> QED BY <1>4, <2>1, <2>2 DEF Only
<1>10. Suits(Hand, r[p]) /\ Suits(Top, r[q]) /\ p \in DOMAIN r /\ q \in DOMAIN r
  BY <1>1, <1>5, Elsewhere DEF Suits, Hand, Top, Plain
<1>11. \A x \in C : x \in Int => OkAt(r, D, x)
  <2> HIDE DEF r, D
  <2>1. OkAt(r, D, p) /\ OkAt(r, D, q)
    BY <1>1, <1>4, <1>9, <1>10, OkOnly
  <2> QED BY <2>1
<1>12. Besides(h, g, K, L, C)
  <2> SUFFICES ASSUME NEW x \in Int \ C
               PROVE  /\ x \in DOMAIN r <=> x \in DOMAIN s
                      /\ x \in DOMAIN s => r[x] = s[x]
                      /\ \A y \in Int : x \in D[y] <=> x \in E[y]
    BY DEF Besides
  <2>1. (x \in DOMAIN r <=> x \in DOMAIN s) /\ (x \in DOMAIN s => r[x] = s[x])
    BY <1>1
  <2>2. (x \in D[Hand] <=> x \in E[Hand]) /\ (x \in D[Top] <=> x \in E[Top])
    BY <1>1, <1>3
  <2> QED BY <1>3, <2>1, <2>2
<1>14. g.needless = h.needless
  BY <1>1 DEF ListsStay
<1> HIDE DEF s, r, E, D, C
<1>15. Layout(g, L, F)
  BY <1>3, <1>6, <1>11, <1>12, <1>14, Carved DEF s, r, E, D
<1> QED BY <1>5, <1>6, <1>15 DEF s

(* Two headers written, one behind the other, and perhaps top moved. *)
TwoHeads(h, p, n, m) == set_head(set_head(h, p, n), p + n, m)

(* The shape after two headers are written. *)
LEMMA TwoHeadsAre ==
  ASSUME NEW h \in Heaps, NEW p, NEW n, NEW m, set_head(h, p, n) \in Heaps
  PROVE  /\ Shape(TwoHeads(h, p, n, m)) = Upd(Upd(Shape(h), p, Plain(n)), p + n, Plain(m))
         /\ HeadsOnly(h, TwoHeads(h, p, n, m))
<1> DEFINE x == set_head(h, p, n)
<1>1. Shape(x) = Upd(Shape(h), p, Plain(n)) /\ HeadsOnly(h, x) /\ x \in Heaps
  BY HeadIsSet
<1> HIDE DEF x
<1>2. Shape(set_head(x, p + n, m)) = Upd(Shape(x), p + n, Plain(m)) /\ HeadsOnly(x, set_head(x, p + n, m))
  BY <1>1, HeadIsSet
<1>3. TwoHeads(h, p, n, m) = set_head(x, p + n, m)
  BY DEF TwoHeads, x
<1> QED BY <1>1, <1>2, <1>3 DEF HeadsOnly

(* The pointer to top is not of the shape. *)
LEMMA TopMoves ==
  ASSUME NEW h \in Heaps, NEW a
  PROVE  LET g == [h EXCEPT !.top = a]
         IN Shape(g) = Shape(h) /\ g.top = a /\ ListsStay(h, g) /\ g.aborted = h.aborted
BY DEF Heaps, Shape, ListsStay

(* What malloc cuts off the lower end of top. *)
LEMMA ServeFromTopIsSound ==
  ASSUME NEW H \in SUBSET Int, NEW F, NEW h \in Sound(H, F), NEW nb \in Aligned, nb >= MINSIZE,
         chunksize(h, h.top) >= nb + MINSIZE
  PROVE  /\ ServeFromTop(h, nb) \in Reach(h, H \union {h.top}, F, H) /\ h.top \in Aligned
         /\ ~ServeFromTop(h, nb).aborted =>
              /\ h.top \notin H /\ h.top \in DOMAIN Shape(ServeFromTop(h, nb)) /\ ~Shape(ServeFromTop(h, nb))[h.top].mapped
              /\ Shape(ServeFromTop(h, nb))[h.top].size >= nb
<1> DEFINE g == ServeFromTop(h, nb)
           s == Shape(h)
           p == h.top
           m == chunksize(h, p) - nb
           x == TwoHeads(h, p, nb, m)
           L == H \union {p}
<1>1. h \in Good /\ h \in Heaps /\ g \in Good /\ (~h.aborted => Layout(h, H, F)) /\ nb \in Int /\ p \in Aligned /\ p \in Int
  BY SoundIs, ServeFromTopKeeps, EvenSums
<1>2. chunksize(h, p) \in Aligned /\ m \in Aligned /\ p + nb \in Aligned /\ m \in Int /\ chunksize(h, p) \in Int
  BY <1>1, HeadFields, EvenSums
<1>3. set_head(h, p, nb) \in Good
  BY <1>1, HeadsKeep
<1>4. x \in Good
  BY <1>2, <1>3, HeadsKeep DEF TwoHeads
<1>5. Shape(x) = Upd(Upd(s, p, Plain(nb)), p + nb, Plain(m)) /\ HeadsOnly(h, x)
  BY <1>1, <1>3, TwoHeadsAre DEF Good
<1>6. g = [x EXCEPT !.top = p + nb]
  BY DEF ServeFromTop, TwoHeads
<1> HIDE DEF x
<1>7. Shape(g) = Shape(x) /\ g.top = p + nb /\ ListsStay(x, g) /\ g.aborted = h.aborted
  BY <1>4, <1>5, <1>6, TopMoves DEF Good, HeadsOnly
<1> HIDE DEF g
<1> SUFFICES ASSUME ~h.aborted
             PROVE  /\ Layout(g, L, F) /\ Onward(h, g, H)
                    /\ p \notin H /\ p \in DOMAIN Shape(g) /\ ~Shape(g)[p].mapped /\ Shape(g)[p].size >= nb
  BY <1>1, <1>7 DEF Sound, Reach, Onward, g
<1>8. Layout(h, H, F)
  BY <1>1
<1>9. p # 0 /\ chunksize(h, p) > 0
  <2>1. chunksize(h, p) > 0
    BY <1>1, <1>2 DEF MINSIZE, SIZE_SZ
  <2>2. p \in DOMAIN s
    <3>1. p \notin DOMAIN h.mem => chunksize(h, p) = 0
      BY DEF chunksize, At, NoHead
    <3> QED BY <2>1, <3>1, ShapeIs
  <2> QED BY <1>8, <2>1, <2>2, NotZero
<1>10. p \in DOMAIN s /\ s[p].size = chunksize(h, p)
  BY <1>1, <1>8, <1>9, TopIs, SizeIs
<1>11. p + nb # p
  BY <1>1 DEF MINSIZE, SIZE_SZ
<1>12. PartsTop(h, g, H, L, p, nb)
  <2>1. /\ DOMAIN Shape(g) = DOMAIN s \union {p + nb} /\ Shape(g)[p] = Plain(nb) /\ Shape(g)[p + nb] = Plain(m)
        /\ \A y \in DOMAIN s \ {p} : y # p + nb => Shape(g)[y] = s[y]
    BY <1>5, <1>7, <1>10, <1>11 DEF Upd
  <2>2. ListsStay(h, g)
    BY <1>5, <1>7 DEF ListsStay, HeadsOnly
  <2>3. s[p].size - nb >= MINSIZE
    BY <1>1, <1>2, <1>10 DEF MINSIZE, SIZE_SZ
  <2> QED BY <1>1, <1>7, <1>9, <1>10, <2>1, <2>2, <2>3 DEF PartsTop
<1>13. Layout(g, L, F) /\ p + nb \notin DOMAIN s /\ p \notin H
  BY <1>8, <1>12, PartedTop
<1>14. p \in DOMAIN Shape(g) /\ Shape(g)[p] = Plain(nb) /\ \A y \in H : y \in DOMAIN s => y \in DOMAIN Shape(g) /\ Shape(g)[y] = s[y]
  BY <1>10, <1>12, <1>13 DEF PartsTop
<1>15. g.tcache = h.tcache
  BY <1>12 DEF PartsTop, ListsStay
<1> QED BY <1>1, <1>13, <1>14, <1>15 DEF Plain, Onward

(* Neither a list nor top is another. *)
SameLists(h, g) ==
  /\ g.top = h.top /\ g.bins = h.bins /\ g.fast = h.fast /\ g.entries = h.entries /\ g.tcache = h.tcache
  /\ g.needless = h.needless

(* Where neither a list nor top changes, all chunks are in their places. *)
LEMMA SameListsFrame ==
  ASSUME NEW h, NEW g, SameLists(h, g), NEW H
  PROVE  /\ Where(g, H) = Where(h, H) /\ Distinct(g) = Distinct(h) /\ CacheIsOwned(g) = CacheIsOwned(h)
<1>1. Where(g, H) = Where(h, H)
  BY DEF Where, SameLists
<1> QED BY <1>1 DEF SameLists, Distinct, CacheIsOwned, NoCache

(* As Carved, where the words of others may have changed too. *)
LEMMA CarvedAnew ==
  ASSUME NEW h, NEW g, NEW H, NEW K, NEW F, NEW G, NEW C, Layout(h, H, F),
         Ground(Shape(g), g.top, g.brk, g.maps, G), Besides(h, g, H, K, C),
         \A p \in C : p \in Int => OkAt(Shape(g), Where(g, K), p),
         Distinct(g), CacheIsOwned(g), g.needless = h.needless
  PROVE  Layout(g, K, G)
<1> DEFINE s == Shape(h)
           r == Shape(g)
           E == Where(h, H)
           D == Where(g, K)
<1>1. Placed(s, E) /\ ~h.needless
  BY DEF Layout
<1>2. \A p \in Int \ C : /\ p \in DOMAIN r <=> p \in DOMAIN s
                         /\ p \in DOMAIN s => r[p] = s[p]
                         /\ \A x \in Int : p \in D[x] <=> p \in E[x]
  BY DEF Besides
<1>3. \A p \in C : p \in Int => OkAt(r, D, p)
  OBVIOUS
<1> HIDE DEF s, r, E, D
<1>4. Placed(r, D)
  BY <1>1, <1>2, <1>3, PlacedBut
<1> QED BY <1>1, <1>4 DEF Layout, r, D

(* Top is made longer or shorter at its end. *)
Longer(W, V, p, m, n) == n >= m /\ V = W \union Region(p + m, n - m) /\ W \cap Region(p + m, n - m) = {}
Shorter(W, V, p, m, n) == n <= m /\ V = W \ Region(p + n, m - n)

Stretches(h, g, n, F, G) ==
  /\ h.top \in Int /\ h.top # 0 /\ n \in Int /\ n >= MINSIZE /\ Shape(g) = Upd(Shape(h), h.top, Plain(n)) /\ SameLists(h, g)
  /\ Kernel(Shape(h), g.brk, g.maps, G)
  /\ \/ Longer(GivenTo(h.brk, h.maps, F), GivenTo(g.brk, g.maps, G), h.top, Shape(h)[h.top].size, n)
     \/ Shorter(GivenTo(h.brk, h.maps, F), GivenTo(g.brk, g.maps, G), h.top, Shape(h)[h.top].size, n)

(* Top that grows into words that were nobody's, or shrinks and leaves     *)
(* them to the kernel, keeps the layout.                                   *)
LEMMA Stretched ==
  ASSUME NEW h, NEW g, NEW H \in SUBSET Int, NEW F, NEW G, NEW n, Layout(h, H, F), Stretches(h, g, n, F, G)
  PROVE  Layout(g, H, G) /\ \A q \in H : q \in DOMAIN Shape(h) => q \in DOMAIN Shape(g) /\ Shape(g)[q] = Shape(h)[q]
<1> DEFINE s == Shape(h)
           r == Shape(g)
           p == h.top
           E == Where(h, H)
           W == GivenTo(h.brk, h.maps, F)
           V == GivenTo(g.brk, g.maps, G)
           C == {p}
<1>1. /\ p \in Int /\ p # 0 /\ n \in Int /\ n >= MINSIZE /\ n > 0 /\ r = Upd(s, p, Plain(n)) /\ SameLists(h, g)
      /\ Kernel(s, g.brk, g.maps, G) /\ (Longer(W, V, p, s[p].size, n) \/ Shorter(W, V, p, s[p].size, n))
  BY DEF Stretches, MINSIZE, SIZE_SZ
<1>2. p \in DOMAIN s /\ ~s[p].mapped /\ p \notin H /\ Only(E, p, Top)
  BY <1>1, TopIs
<1>3. DOMAIN r = DOMAIN s /\ r[p] = Plain(n) /\ ButAt(r, s, p)
  BY <1>1, <1>2 DEF Upd, ButAt
<1>4. Sized(s) /\ Tiles(s, W) /\ Ends(s, p)
  BY DEF Layout, Ground
<1>5. Sized(r) /\ Tiles(r, V) /\ Ends(r, p)
  <2> HIDE DEF s, r, W, V, p
  <2> QED BY <1>1, <1>2, <1>3, <1>4, Stretch DEF Longer, Shorter
<1>6. Kernel(r, g.brk, g.maps, G)
  <2>1. \A x \in DOMAIN r : r[x].mapped => x \in DOMAIN s /\ s[x] = r[x]
    BY <1>3 DEF Plain, ButAt
  <2> QED BY <1>1, <2>1, KernelFrame
<1>7. Ground(Shape(g), g.top, g.brk, g.maps, G)
  BY <1>1, <1>5, <1>6 DEF Ground, SameLists
<1>8. Where(g, H) = E /\ Distinct(g) /\ CacheIsOwned(g) /\ g.needless = h.needless
  BY <1>1, SameListsFrame DEF SameLists, Layout
<1>9. OkAt(r, E, p)
  <2>1. Suits(Top, r[p])
    BY <1>1, <1>3, Elsewhere DEF Suits, Top, Plain
  <2>2. p \in DOMAIN r /\ Only(E, p, Top) /\ Top \in Int
    BY <1>2, <1>3, Elsewhere
  <2> HIDE DEF r, E, p
  <2> QED BY <2>1, <2>2, OkOnly
<1>10. \A x \in C : x \in Int => OkAt(Shape(g), Where(g, H), x)
  BY <1>8, <1>9
<1>11. Besides(h, g, H, H, C)
  BY <1>3, <1>8 DEF Besides, ButAt
<1> HIDE DEF C, s, r, p, E, W, V
<1>12. Layout(g, H, G)
  BY <1>7, <1>8, <1>10, <1>11, CarvedAnew
<1> QED BY <1>2, <1>3, <1>12 DEF ButAt, s, r

(* Where the words of the heap lie: below the break, and top's too. *)
LEMMA MapsAbove ==
  ASSUME NEW s, NEW brk, NEW maps, NEW F, Kernel(s, brk, maps, F), NEW x \in MapWords(maps)
  PROVE  x \in Int /\ x >= MmapFloor /\ x >= BrkLimit
<1>1. PICK r \in maps : x \in Region(r[1], r[2])
  BY DEF MapWords
<1>2. r[1] \in Int /\ r[2] \in Int /\ r[1] >= MmapFloor
  BY DEF Kernel
<1>3. MmapFloor \in Int /\ BrkLimit \in Int /\ BrkLimit <= MmapFloor
  BY PtAssumption
<1> QED BY <1>1, <1>2, <1>3 DEF Region

(* ALIGN_DOWN and ALIGN_UP to pages. *)
LEMMA PageArithmetic ==
  /\ \A n \in Int : /\ AlignDown(n, PageSize) \in Int /\ AlignDown(n, PageSize) <= n /\ AlignDown(n, PageSize) > n - PageSize
                    /\ AlignUp(n, PageSize) \in Int /\ AlignUp(n, PageSize) >= n /\ AlignUp(n, PageSize) < n + PageSize
  /\ \A n, k \in Int : k * PageSize <= n => k * PageSize <= AlignDown(n, PageSize)
<1>1. PageSize \in Nat \ {0}
  BY PageSizes
<1>2. ASSUME NEW n \in Int
      PROVE  AlignDown(n, PageSize) \in Int /\ AlignDown(n, PageSize) <= n /\ AlignDown(n, PageSize) > n - PageSize
  BY <1>1, SMTT(30) DEF AlignDown
<1>3. ASSUME NEW n \in Int
      PROVE  AlignUp(n, PageSize) \in Int /\ AlignUp(n, PageSize) >= n /\ AlignUp(n, PageSize) < n + PageSize
  <2> DEFINE k == n + PageSize - 1
  <2>1. k \in Int /\ AlignUp(n, PageSize) = AlignDown(k, PageSize)
    BY <1>1 DEF AlignUp, AlignDown
  <2>2. AlignDown(k, PageSize) \in Int /\ AlignDown(k, PageSize) <= k /\ AlignDown(k, PageSize) > k - PageSize
    BY <1>2, <2>1
  <2> QED BY <1>1, <2>1, <2>2
<1>4. ASSUME NEW n \in Int, NEW k \in Int, k * PageSize <= n PROVE k * PageSize <= AlignDown(n, PageSize)
  <2> DEFINE j == n \div PageSize
  <2>1. j \in Int /\ n < (j + 1) * PageSize
    BY <1>1, SMTT(30)
  <2>2. k < j + 1
    <3>1. k * PageSize < (j + 1) * PageSize
      BY <1>1, <1>4, <2>1, SMTT(30)
    <3> HIDE DEF j
    <3> QED BY <1>1, <2>1, <3>1, SMTT(30)
  <2>3. k <= j
    BY <2>1, <2>2
  <2>4. k * PageSize <= j * PageSize
    <3> HIDE DEF j
    <3> QED BY <1>1, <2>1, <2>3, SMTT(30)
  <2> QED BY <2>4 DEF AlignDown
<1> QED BY <1>2, <1>3, <1>4

(* Sizes above PTRDIFF_MAX are the negative ones of a ptrdiff_t, and those *)
(* begin at a page.                                                        *)
LEMMA HalfOfWords ==
  /\ PTRDIFF_MAX \in Int /\ WordMod = 2 * (PTRDIFF_MAX + 1) /\ WordMod > 4 * MmapTop
  /\ \E k \in Int : PTRDIFF_MAX + 1 = k * PageSize
<1> DEFINE k == WordMod \div (2 * PageSize)
<1>1. PageSize \in Nat \ {0} /\ WordMod \in Nat /\ WordMod % (2 * PageSize) = 0 /\ WordMod > 4 * MmapTop
  BY PageSizes, PtAssumption
<1>2. k \in Int /\ WordMod = k * (2 * PageSize)
  BY <1>1, SMTT(30)
<1>3. WordMod = 2 * (k * PageSize) /\ k * PageSize \in Int
  <2> HIDE DEF k
  <2> QED BY <1>1, <1>2, SMTT(30)
<1>4. WordMod \div 2 = k * PageSize
  <2> DEFINE m == k * PageSize
  <2>1. m \in Int /\ WordMod = 2 * m
    BY <1>3
  <2> HIDE DEF m
  <2>2. WordMod \div 2 = m
    BY <2>1
  <2> QED BY <2>2 DEF m
<1>5. PTRDIFF_MAX = k * PageSize - 1
  BY <1>4 DEF PTRDIFF_MAX
<1>6. PTRDIFF_MAX \in Int /\ WordMod = 2 * (PTRDIFF_MAX + 1) /\ PTRDIFF_MAX + 1 = k * PageSize
  BY <1>3, <1>5
<1> QED BY <1>1, <1>2, <1>6

(* The break is raised, and the new words are of the heap or of others. *)
Grown(s, brk, maps, F, b) ==
         /\ Kernel(s, b, maps, F) /\ Kernel(s, b, maps, F \union Region(brk, b - brk))
         /\ GivenTo(b, maps, F) = GivenTo(brk, maps, F) \union Region(brk, b - brk)
         /\ GivenTo(b, maps, F \union Region(brk, b - brk)) = GivenTo(brk, maps, F)
         /\ GivenTo(brk, maps, F) \cap Region(brk, b - brk) = {}

(* The break is raised: the words below it are new. *)
LEMMA BrkGrows ==
  ASSUME NEW s, NEW brk, NEW maps, NEW F, Kernel(s, brk, maps, F), NEW b \in Int, brk <= b, b <= BrkLimit
  PROVE  Grown(s, brk, maps, F, b)
<1> DEFINE M == MapWords(maps)
           R == Region(brk, b - brk)
           A == Region(FirstBrk, brk - FirstBrk)
           B == Region(FirstBrk, b - FirstBrk)
<1>1. brk \in Int /\ FirstBrk \in Int /\ FirstBrk <= brk /\ F \subseteq A \union M
  BY PtHeapAssumption DEF Kernel
<1>2. B = A \union R /\ A \cap R = {}
  BY <1>1 DEF Region
<1>3. M \cap R = {}
  <2> SUFFICES ASSUME NEW x \in M, x \in R PROVE FALSE
    OBVIOUS
  <2>1. x \in Int /\ x >= BrkLimit
    BY MapsAbove
  <2> QED BY <1>1, <2>1, PtAssumption DEF Region
<1>4. Kernel(s, b, maps, F)
  BY <1>1, <1>2 DEF Kernel
<1>5. Kernel(s, b, maps, F \union R)
  BY <1>1, <1>2 DEF Kernel
<1> HIDE DEF M, R, A, B
<1>6. (B \union M) \ F = ((A \union M) \ F) \union R /\ (B \union M) \ (F \union R) = (A \union M) \ F /\ ((A \union M) \ F) \cap R = {}
  BY <1>1, <1>2, <1>3
<1> QED BY <1>4, <1>5, <1>6 DEF Grown, GivenTo, M, R, A, B

(* The break is lowered below words that are not of others. *)
LEMMA BrkShrinks ==
  ASSUME NEW s, NEW brk, NEW maps, NEW F, Kernel(s, brk, maps, F), NEW b \in Int, b <= brk, FirstBrk <= b,
         F \cap Region(b, brk - b) = {}
  PROVE  Kernel(s, b, maps, F) /\ GivenTo(b, maps, F) = GivenTo(brk, maps, F) \ Region(b, brk - b)
<1> DEFINE M == MapWords(maps)
           R == Region(b, brk - b)
           A == Region(FirstBrk, brk - FirstBrk)
           B == Region(FirstBrk, b - FirstBrk)
<1>1. brk \in Int /\ FirstBrk \in Int /\ brk <= BrkLimit /\ BrkLimit \in Int /\ F \subseteq A \union M
  BY PtHeapAssumption, PtAssumption DEF Kernel
<1>2. A = B \union R /\ B \cap R = {}
  BY <1>1 DEF Region
<1>3. M \cap R = {}
  <2> SUFFICES ASSUME NEW x \in M, x \in R PROVE FALSE
    OBVIOUS
  <2>1. x \in Int /\ x >= BrkLimit
    BY MapsAbove
  <2> QED BY <1>1, <2>1 DEF Region
<1>4. F \subseteq B \union M
  BY <1>1, <1>2
<1>5. Kernel(s, b, maps, F)
  BY <1>1, <1>4 DEF Kernel
<1> HIDE DEF M, R, A, B
<1>6. (B \union M) \ F = ((A \union M) \ F) \ R
  BY <1>2, <1>3
<1> QED BY <1>5, <1>6 DEF GivenTo, M, R, A, B

(* How much of top systrim gives back: less than there is, or, when top is *)
(* as small as can be, more is asked for.                                  *)
TrimArea(size) == (size - MINSIZE - 1) % WordMod
TrimExtra(size, pad) == AlignDown((TrimArea(size) - pad) % WordMod, PageSize)
TrimOf(size, pad) == IF TrimExtra(size, pad) > PTRDIFF_MAX THEN TrimExtra(size, pad) - WordMod ELSE TrimExtra(size, pad)

(* systrim leaves top as large as a chunk must be, whatever pad it is      *)
(* asked to leave: where top has no words to spare the difference          *)
(* underflows, and what is passed on to sbrk as a decrement is negative.   *)
LEMMA TrimIs ==
  ASSUME NEW size \in Int, size >= MINSIZE, size <= BrkLimit, NEW pad \in 0 .. PTRDIFF_MAX, TrimArea(size) > pad
  PROVE  TrimOf(size, pad) \in Int /\ size - TrimOf(size, pad) >= MINSIZE
<1> DEFINE W == WordMod
           area == TrimArea(size)
           v == (area - pad) % W
           extra == AlignDown(v, PageSize)
<1>1. W \in Int /\ W > 0 /\ PTRDIFF_MAX \in Int /\ W = 2 * (PTRDIFF_MAX + 1) /\ size < W /\ size <= PTRDIFF_MAX /\ PageSize \in Int /\ PageSize > 0
  BY HalfOfWords, PtAssumption, PageSizes DEF MINSIZE, SIZE_SZ
<1>2. area \in Int /\ area >= 0 /\ area < W /\ v \in Int /\ v >= 0 /\ v < W /\ extra \in Int /\ extra <= v
  BY <1>1, PageArithmetic DEF TrimArea, MINSIZE, SIZE_SZ
<1>3. extra >= 0
  <2>1. 0 * PageSize <= v /\ 0 * PageSize = 0
    BY <1>1, <1>2
  <2> QED BY <1>2, <2>1, PageArithmetic
<1>4. TrimOf(size, pad) = IF extra > PTRDIFF_MAX THEN extra - W ELSE extra
  BY DEF TrimOf, TrimExtra
<1>5. CASE size = 4
  <2>1. area = W - 1
    BY <1>1, <1>5 DEF TrimArea, MINSIZE, SIZE_SZ
  <2>2. v = W - 1 - pad
    BY <1>1, <2>1
  <2>3. v >= PTRDIFF_MAX + 1
    BY <1>1, <2>2
  <2>4. PICK k \in Int : PTRDIFF_MAX + 1 = k * PageSize
    BY HalfOfWords
  <2>5. extra >= PTRDIFF_MAX + 1
    BY <1>2, <2>3, <2>4, PageArithmetic
  <2> HIDE DEF extra, v, area
  <2> QED BY <1>1, <1>2, <1>4, <1>5, <2>5 DEF MINSIZE, SIZE_SZ
<1>6. CASE size # 4
  <2>1. area = size - 5
    BY <1>1, <1>6 DEF TrimArea, MINSIZE, SIZE_SZ
  <2>2. v = area - pad
    BY <1>1, <1>2, <2>1
  <2> HIDE DEF extra, v, area
  <2> QED BY <1>1, <1>2, <1>3, <1>4, <1>6, <2>1, <2>2 DEF MINSIZE, SIZE_SZ
<1> QED BY <1>5, <1>6

(* systrim keeps the layout, and every chunk in hand. *)
LEMMA SystrimIsSound ==
  ASSUME NEW H \in SUBSET Int, NEW F, NEW h \in Sound(H, F), NEW pad \in 0 .. PTRDIFF_MAX
  PROVE  systrim(h, pad).h \in Reach(h, H, F, H)
<1> DEFINE t == systrim(h, pad).h
           s == Shape(h)
           p == h.top
           size == chunksize(h, p)
           d == TrimOf(size, pad)
           n == size - d
           less == Sbrk(h, -d)
           x == [less.h EXCEPT !.system_mem = @ - d]
<1>1. h \in Good /\ h \in Heaps /\ t \in Good /\ (~h.aborted => Layout(h, H, F)) /\ p \in Aligned /\ p \in Int /\ pad \in Int
      /\ PTRDIFF_MAX \in Int
  <2>1. h \in Good /\ h \in Heaps /\ (~h.aborted => Layout(h, H, F)) /\ pad \in Int
    BY SoundIs, HalfOfWords
  <2>2. p \in Aligned
    BY <2>1 DEF Heaps
  <2> QED BY <2>1, <2>2, SystrimKeeps, EvenSums, HalfOfWords
<1>2. \/ t = h
      \/ /\ TrimArea(size) > pad /\ h.brk = p + size /\ less.brk # Failed
         /\ t = set_head(x, p, n)
  <2>1. TrimArea(size) \in Int
    <3>1. size \in Int
      BY <1>1, HeadFields, EvenSums
    <3>2. WordMod \in Nat \ {0} /\ size - MINSIZE - 1 \in Int
      BY <3>1, PageSizes DEF MINSIZE, SIZE_SZ
    <3> QED BY <3>2 DEF TrimArea
  <2>2. t = IF TrimArea(size) <= pad \/ TrimExtra(size, pad) = 0 \/ h.brk # p + size \/ less.brk = Failed
            THEN h ELSE set_head(x, p, n)
    BY DEF systrim, TrimArea, TrimExtra, TrimOf
  <2> HIDE DEF less, t, x, size
  <2> QED BY <1>1, <2>1, <2>2
<1>3. CASE t = h
  BY <1>3 DEF Reach, Onward
<1>4. CASE t # h
  <2>1. TrimArea(size) > pad /\ h.brk = p + size /\ less.brk # Failed /\ t = set_head(x, p, n)
    BY <1>2, <1>4
  <2>2. ~(h.brk + (-d) > BrkLimit) /\ less.h = [h EXCEPT !.brk = @ + (-d)]
    <3> HIDE DEF d
    <3>1. less = IF h.brk + (-d) > BrkLimit THEN [h |-> h, brk |-> Failed] ELSE [h |-> [h EXCEPT !.brk = @ + (-d)], brk |-> h.brk]
      BY DEF Sbrk
    <3>2. [h |-> h, brk |-> Failed].brk = Failed
      OBVIOUS
    <3> HIDE DEF less
    <3>3. ~(h.brk + (-d) > BrkLimit)
      BY <2>1, <3>1, <3>2
    <3> QED BY <3>1, <3>3
  <2>3. /\ x.mem = h.mem /\ x.brk = h.brk + (-d) /\ x.maps = h.maps /\ SameLists(h, x) /\ x.aborted = h.aborted
    BY <1>1, <2>2 DEF Heaps, SameLists
  <2>4. /\ t.mem = set_head(h, p, n).mem /\ t.brk = h.brk + (-d) /\ t.maps = h.maps /\ SameLists(h, t) /\ t.aborted = h.aborted
    <3>1. t.mem = set_head(h, p, n).mem
      <4>1. \A y : set_head(y, p, n).mem = [z \in DOMAIN y.mem \union {p} |->
                                              IF z = p THEN [At(y, p) EXCEPT !.size = n, !.prev_inuse = TRUE, !.mmapped = FALSE]
                                              ELSE y.mem[z]] \/ "mem" \notin DOMAIN y
        BY DEF set_head, Put
      <4>2. "mem" \in DOMAIN x /\ "mem" \in DOMAIN h
        BY <1>1, <2>2 DEF Heaps
      <4>3. At(x, p) = At(h, p)
        BY <2>3 DEF At
      <4> HIDE DEF x, n, p
      <4>4. /\ set_head(x, p, n).mem = [z \in DOMAIN x.mem \union {p} |->
                                          IF z = p THEN [At(x, p) EXCEPT !.size = n, !.prev_inuse = TRUE, !.mmapped = FALSE]
                                          ELSE x.mem[z]]
            /\ set_head(h, p, n).mem = [z \in DOMAIN h.mem \union {p} |->
                                          IF z = p THEN [At(h, p) EXCEPT !.size = n, !.prev_inuse = TRUE, !.mmapped = FALSE]
                                          ELSE h.mem[z]]
        BY <4>1, <4>2, Zenon
      <4>5. set_head(x, p, n).mem = set_head(h, p, n).mem
        BY <2>3, <4>3, <4>4
      <4> HIDE DEF t
      <4> QED BY <2>1, <4>5
    <3>2. t.brk = x.brk /\ t.maps = x.maps /\ SameLists(x, t) /\ t.aborted = x.aborted
      BY <2>1 DEF set_head, Put, SameLists
    <3> HIDE DEF t, x
    <3> QED BY <2>3, <3>1, <3>2 DEF SameLists
  <2> HIDE DEF t, x, less
  <2> SUFFICES ASSUME ~h.aborted PROVE Layout(t, H, F) /\ Onward(h, t, H)
    BY <1>1, <2>4 DEF Reach, Sound, Onward, t
  <2>5. Layout(h, H, F) /\ Kernel(s, h.brk, h.maps, F) /\ Tiles(s, GivenTo(h.brk, h.maps, F)) /\ Sized(s)
    BY <1>1 DEF Layout, Ground
  <2>6. p # 0 /\ p > 0 /\ p \in DOMAIN s /\ ~s[p].mapped /\ s[p].size = size /\ size >= MINSIZE /\ size \in Int
    <3>1. p # 0
      <4> SUFFICES ASSUME p = 0 PROVE FALSE
        OBVIOUS
      <4>1. p \notin DOMAIN s
        BY <2>5, NotZero
      <4>2. size = 0
        BY <4>1, ShapeIs DEF chunksize, At, NoHead
      <4> QED BY <2>1, <2>5, <4>2, PtHeapAssumption DEF Kernel
    <3>2. p \in DOMAIN s /\ ~s[p].mapped /\ s[p].size >= MINSIZE /\ p > 0
      BY <1>1, <2>5, <3>1, TopIs
    <3> QED BY <2>5, <3>1, <3>2, SizeIs DEF Sized
  <2>7. h.brk \in Int /\ h.brk <= BrkLimit /\ BrkLimit \in Int /\ size <= BrkLimit
    BY <1>1, <2>1, <2>5, <2>6, PtAssumption DEF Kernel
  <2>8. d \in Int /\ n >= MINSIZE /\ n \in Int
    <3>1. d \in Int /\ n >= MINSIZE
      BY <2>1, <2>6, <2>7, TrimIs
    <3> QED BY <2>6, <3>1
  <2>9. Shape(t) = Upd(s, p, Plain(n))
    <3>1. Shape(set_head(h, p, n)) = Upd(s, p, Plain(n))
      BY <1>1, HeadIsSet
    <3> QED BY <2>4, <3>1 DEF Shape
  <2> HIDE DEF d
  <2>10. Kernel(s, t.brk, t.maps, F)
         /\ \/ Longer(GivenTo(h.brk, h.maps, F), GivenTo(t.brk, t.maps, F), p, size, n)
            \/ Shorter(GivenTo(h.brk, h.maps, F), GivenTo(t.brk, t.maps, F), p, size, n)
    <3>1. t.brk = p + n /\ t.brk \in Int /\ t.brk - h.brk = n - size /\ h.brk = p + size
      BY <1>1, <2>1, <2>4, <2>6, <2>7, <2>8
    <3>2. CASE n >= size
      <4>1. h.brk <= t.brk /\ t.brk <= BrkLimit
        <5>1. t.brk = h.brk + (-d)
          BY <2>4
        <5> HIDE DEF p, size
        <5> QED BY <2>2, <2>6, <2>7, <2>8, <3>1, <3>2, <5>1
      <4>2. /\ Kernel(s, t.brk, h.maps, F)
            /\ GivenTo(t.brk, h.maps, F) = GivenTo(h.brk, h.maps, F) \union Region(h.brk, t.brk - h.brk)
            /\ GivenTo(h.brk, h.maps, F) \cap Region(h.brk, t.brk - h.brk) = {}
        <5>1. t.brk \in Int
          BY <3>1
        <5> HIDE DEF s
        <5>2. Grown(s, h.brk, h.maps, F, t.brk)
          BY <2>5, <4>1, <5>1, BrkGrows
        <5> QED BY <5>2 DEF Grown
      <4>3. t.maps = h.maps /\ h.brk = p + size /\ t.brk - h.brk = n - size
        BY <2>4, <3>1
      <4> HIDE DEF p, size, n
      <4> QED BY <3>2, <4>2, <4>3 DEF Longer
    <3>3. CASE n < size
      <4>1. p \in GivenTo(h.brk, h.maps, F) /\ \A y \in Int : (p <= y /\ y < p + size) => y \in GivenTo(h.brk, h.maps, F)
        <5>1. \A y \in Int : (p <= y /\ y < p + size) => Has(s, p, y)
          BY <2>5, <2>6 DEF Has, Sized
        <5>2. p <= p /\ p < p + size
          BY <1>1, <2>6 DEF MINSIZE, SIZE_SZ
        <5>3. \A y \in Int : (p <= y /\ y < p + size) => y \in GivenTo(h.brk, h.maps, F)
          BY <2>5, <2>6, <5>1 DEF Tiles
        <5> QED BY <1>1, <5>2, <5>3
      <4>2. p >= FirstBrk
        <5>1. p \notin MapWords(h.maps)
          <6>1. p < BrkLimit
            BY <1>1, <2>1, <2>6, <2>7 DEF MINSIZE, SIZE_SZ
          <6> QED BY <1>1, <2>5, <2>7, <6>1, MapsAbove
        <5> QED BY <4>1, <5>1 DEF GivenTo, Region
      <4>3. FirstBrk <= t.brk /\ t.brk <= h.brk
        BY <1>1, <2>6, <2>7, <2>8, <3>1, <3>3, <4>2, PtHeapAssumption DEF MINSIZE, SIZE_SZ
      <4>4. F \cap Region(t.brk, h.brk - t.brk) = {}
        <5> SUFFICES ASSUME NEW y \in F, y \in Region(t.brk, h.brk - t.brk) PROVE FALSE
          OBVIOUS
        <5>1. y \in Int /\ p <= y /\ y < p + size
          BY <1>1, <2>6, <2>7, <2>8, <3>1 DEF Region, MINSIZE, SIZE_SZ
        <5>2. y \in GivenTo(h.brk, h.maps, F)
          BY <4>1, <5>1
        <5> QED BY <5>2 DEF GivenTo
      <4>5. Kernel(s, t.brk, h.maps, F) /\ GivenTo(t.brk, h.maps, F) = GivenTo(h.brk, h.maps, F) \ Region(t.brk, h.brk - t.brk)
        BY <2>5, <3>1, <4>3, <4>4, BrkShrinks
      <4>6. t.maps = h.maps /\ t.brk = p + n /\ h.brk - t.brk = size - n /\ n <= size
        BY <1>1, <2>4, <2>6, <2>8, <3>1, <3>3
      <4> HIDE DEF p, size, n
      <4> QED BY <4>5, <4>6 DEF Shorter
    <3> QED BY <2>6, <2>8, <3>2, <3>3
  <2>11. Stretches(h, t, n, F, F)
    BY <1>1, <2>4, <2>6, <2>8, <2>9, <2>10 DEF Stretches
  <2> HIDE DEF n
  <2>12. Layout(t, H, F) /\ \A q \in H : q \in DOMAIN Shape(h) => q \in DOMAIN Shape(t) /\ Shape(t)[q] = Shape(h)[q]
    BY <2>5, <2>11, Stretched
  <2> QED BY <2>4, <2>12 DEF Onward, SameLists
<1> QED BY <1>3, <1>4

(* What free does beside: top is trimmed, the fast chunks are merged. *)
LEMMA Stay ==
  ASSUME NEW H, NEW F, NEW h \in Sound(H, F), NEW C
  PROVE  h \in Reach(h, H, F, C)
BY DEF Reach, Onward

(* Fewer chunks to keep. *)
LEMMA ReachLess ==
  ASSUME NEW h, NEW K, NEW F, NEW B, NEW g \in Reach(h, K, F, B), NEW C, C \subseteq B
  PROVE  g \in Reach(h, K, F, C)
BY DEF Reach, Onward

(* malloc_consolidate keeps the layout, and every chunk in hand. *)
LEMMA ConsolidateReaches ==
  ASSUME NEW H \in SUBSET Int, NEW F, NEW h \in Sound(H, F)
  PROVE  malloc_consolidate(h) \in Reach(h, H, F, H)
BY ConsolidateIsSound DEF Reach

(* So does the trim of top at the end of a large free. *)
LEMMA TrimTopIsSound ==
  ASSUME NEW H \in SUBSET Int, NEW F, NEW h \in Sound(H, F)
  PROVE  TrimTop(h) \in Reach(h, H, F, H)
<1>1. h.mp.top_pad \in 0 .. PTRDIFF_MAX
  BY SoundIs, GoodBins DEF Settled
<1>2. systrim(h, h.mp.top_pad).h \in Reach(h, H, F, H)
  BY <1>1, SystrimIsSound
<1>3. h \in Reach(h, H, F, H)
  BY Stay
<1> QED BY <1>2, <1>3 DEF TrimTop

(* So does all that follows a large free. *)
LEMMA ShrunkIsSound ==
  ASSUME NEW H \in SUBSET Int, NEW F, NEW h \in Sound(H, F), NEW size
  PROVE  Shrunk(h, size) \in Reach(h, H, F, H)
<1> DEFINE m == malloc_consolidate(h)
<1>1. m \in Reach(h, H, F, H) /\ h \in Reach(h, H, F, H)
  BY ConsolidateReaches, Stay
<1>2. m \in Sound(H, F)
  BY <1>1, ReachIs
<1> HIDE DEF m
<1>3. TrimTop(m) \in Reach(m, H, F, H) /\ TrimTop(h) \in Reach(h, H, F, H)
  BY <1>2, TrimTopIsSound
<1>4. TrimTop(m) \in Reach(h, H, F, H)
  BY <1>1, <1>3, ReachTwice
<1> QED BY <1>1, <1>3, <1>4 DEF Shrunk, m

(* A chunk in hand that is freed to the fastbins or to the unsorted chunks *)
(* is in hand no more; the others stay as they are.                        *)
LEMMA FreeToArenaIsSound ==
  ASSUME NEW H \in SUBSET Int, NEW F, NEW h \in Sound(H, F), NEW p \in H, p \in Aligned,
         ~h.aborted => ~Shape(h)[p].mapped
  PROVE  FreeToArena(h, p) \in Reach(h, H \ {p}, F, H \ {p})
<1> DEFINE g == Check(h, Releasable(h, p))
           m == Coalesce(g, p)
           K == H \ {p}
           n == MergedEnd(h, next_chunk(h, p)) - MergedStart(h, p)
<1>1. g \in Sound(H, F) /\ Onward(h, g, H) /\ (~g.aborted => g = h)
  BY SoundIs, CheckIs, CheckIsSound
<1>2. ~g.aborted => ~Shape(g)[p].mapped
  BY <1>1 DEF Onward
<1> HIDE DEF g
<1>3. Coalesce(g, p) \in Sound(H \ {p}, F) /\ Onward(g, Coalesce(g, p), H \ {p})
  BY <1>1, <1>2, CoalesceIsSound
<1>4. m \in Reach(g, K, F, K) /\ m \in Sound(K, F)
  BY <1>3 DEF Reach
<1>5. g \in Reach(h, H, F, H) /\ K \subseteq H /\ K \in SUBSET Int
  BY <1>1 DEF Reach
<1> HIDE DEF m, n, K
<1>6. m \in Reach(h, K, F, K)
  BY <1>4, <1>5, ReachTwice
<1>7. Shrunk(m, n) \in Reach(m, K, F, K)
  BY <1>4, <1>5, ShrunkIsSound
<1>8. Shrunk(m, n) \in Reach(h, K, F, K)
  BY <1>6, <1>7, ReachTwice
<1> QED BY <1>8 DEF FreeToArena, m, n, g, K

(* The index of a chunk in the cache. *)
LEMMA IndexIs ==
  ASSUME NEW size \in Int, size >= MINSIZE, csize2tidx(size) < TCACHE_MAX_BINS
  PROVE  csize2tidx(size) \in 0 .. TCACHE_MAX_BINS - 1
BY PtAssumption DEF csize2tidx, MINSIZE, MALLOC_ALIGNMENT, SIZE_SZ

(* So for _int_free, which may put it into the cache. *)
LEMMA FreeIsSound ==
  ASSUME NEW H \in SUBSET Int, NEW F, NEW h \in Sound(H, F), NEW p \in H, p \in Aligned,
         ~h.aborted => ~Shape(h)[p].mapped
  PROVE  int_free(h, p) \in Reach(h, H \ {p}, F, H \ {p})
<1> DEFINE size == chunksize(h, p)
           idx == csize2tidx(size)
           K == H \ {p}
           ok == size >= MINSIZE /\ size % MALLOC_ALIGNMENT = 0 /\ p % MALLOC_ALIGNMENT = 0
           g == Check(h, ok)
           c == Check(g, ~Contains(h.entries[idx], p))
           f == int_free(h, p)
<1>1. h \in Good /\ f \in Good /\ g \in Good /\ c \in Good /\ size \in Int
  BY SoundIs, CheckKeeps, FreeKeeps, HeadFields, EvenSums
<1>2. g \in Sound(H, F) /\ Onward(h, g, H) /\ (~g.aborted => g = h /\ ok)
  BY SoundIs, CheckIs, CheckIsSound
<1>3. g \in Reach(h, H, F, H) /\ K \subseteq H /\ K \in SUBSET Int /\ (~g.aborted => ~Shape(g)[p].mapped)
  BY <1>2 DEF Reach, Onward
<1>4. CASE Cacheable(h, size) /\ TcacheRoom(h, size)
  <2>1. f = tcache_put(c, p, idx)
    BY <1>4 DEF int_free
  <2>2. f.aborted = c.aborted
    BY <1>1, <2>1 DEF tcache_put, Good, Heaps
  <2> SUFFICES ASSUME ~f.aborted PROVE f \in Reach(h, K, F, K)
    BY <1>1 DEF Reach, Sound, Onward
  <2>3. c = g /\ ~g.aborted
    BY <1>1, <2>2, CheckIs
  <2>4. g = h /\ ok /\ ~h.aborted
    BY <1>2, <2>3
  <2>5. c = h
    BY <2>3, <2>4
  <2>6. idx \in 0 .. TCACHE_MAX_BINS - 1 /\ HasTcache(h)
    BY <1>1, <1>4, <2>4, IndexIs DEF Cacheable
  <2>7. Shape(h)[p].size = size /\ ~Shape(h)[p].mapped
    <3>1. Layout(h, H, F)
      BY <2>4, SoundIs
    <3> QED BY <2>4, <3>1, InHand, SizeIs
  <2> HIDE DEF idx, size, g, c, ok, f
  <2>8. tcache_put(h, p, idx) \in Sound(H \ {p}, F) /\ Onward(h, tcache_put(h, p, idx), K)
    BY <2>6, <2>7, TcachePutIsSound DEF idx
  <2> QED BY <2>1, <2>5, <2>8 DEF Reach
<1>5. CASE ~(Cacheable(h, size) /\ TcacheRoom(h, size)) /\ size <= h.mp.max_fast
  <2>1. f = FreeToFastbin(g, p)
    BY <1>5 DEF int_free
  <2>2. chunksize(g, p) <= g.mp.max_fast
    <3>1. g.mem = h.mem /\ g.mp = h.mp
      BY <1>1 DEF Check, Good, Heaps
    <3>2. chunksize(g, p) = size
      BY <3>1 DEF chunksize, At
    <3> QED BY <1>5, <3>1, <3>2
  <2> HIDE DEF g, f
  <2>3. FreeToFastbin(g, p) \in Sound(H \ {p}, F) /\ Onward(g, FreeToFastbin(g, p), K)
    BY <1>2, <1>3, <2>2, FreeToFastbinIsSound
  <2>4. f \in Reach(g, K, F, K)
    BY <2>1, <2>3 DEF Reach
  <2> QED BY <1>3, <2>4, ReachTwice DEF f
<1>6. CASE ~(Cacheable(h, size) /\ TcacheRoom(h, size)) /\ ~(size <= h.mp.max_fast)
  <2>1. f = FreeToArena(g, p)
    BY <1>6 DEF int_free
  <2> HIDE DEF g, f
  <2>2. FreeToArena(g, p) \in Reach(g, H \ {p}, F, H \ {p})
    BY <1>2, <1>3, FreeToArenaIsSound
  <2> QED BY <1>3, <2>1, <2>2, ReachTwice DEF f
<1> QED BY <1>4, <1>5, <1>6
===============================================================================
