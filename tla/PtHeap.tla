-------------------------------- MODULE PtHeap --------------------------------
(***************************************************************************)
(* A program with one thread calls ptmalloc as malloc.h allows it to; the  *)
(* break may be moved by others.  One call of the client is one step.      *)
(***************************************************************************)
EXTENDS PtChecks

CONSTANTS
  Sizes,        (* what is asked of malloc and realloc                     *)
  FewSizes,     (* what is asked of calloc and memalign                    *)
  Alignments,
  Pads,         (* arguments of malloc_trim                                *)
  Settings,     (* calls of mallopt: <<parameter, value>>                  *)
  ForeignSizes, (* what others ask of sbrk                                 *)
  Params,       (* values of mp at the start                               *)
  FirstBrk,
  Histories,    (* calls made before: n > 0 asks malloc for n words, -k    *)
                (* frees what the k-th of them returned                    *)
  MaxCalls

VARIABLES
  heap,
  held,     (* chunk |-> words asked for, of every object of the client    *)
  foreign,  (* words the break was moved over by others                    *)
  last,     (* the last call                                               *)
  calls

vars == <<heap, held, foreign, last, calls>>

(* What a history frees it has allocated, and not freed before. *)
Allocations(history, i) == {j \in 1 .. i : history[j] > 0}

Possible(history) ==
  /\ history \in Seq(Int \ {0})
  /\ \A i \in DOMAIN history : history[i] < 0 => -history[i] <= Cardinality(Allocations(history, i))
  /\ \A i, j \in DOMAIN history : (history[i] < 0 /\ history[i] = history[j]) => i = j

ASSUME PtHeapAssumption ==
  /\ FirstBrk \in Nat \ {0} /\ FirstBrk <= BrkLimit /\ MaxCalls \in Nat
  /\ Sizes \subseteq Nat /\ FewSizes \subseteq Nat /\ Pads \subseteq 0 .. PTRDIFF_MAX /\ ForeignSizes \subseteq Nat
  /\ Alignments \subseteq {1, 2} \union Powers
  /\ Settings \subseteq Tunables \X (0 .. PTRDIFF_MAX)
  /\ Params \subseteq Parameters
  /\ \A history \in Histories : Possible(history)
  (* Others leave the break aligned; sysmalloc itself asserts it where the *)
  (* heap is not contiguous (malloc-impl.c:2796).                          *)
  /\ FirstBrk % MALLOC_ALIGNMENT = 0 /\ \A n \in ForeignSizes : n % MALLOC_ALIGNMENT = 0

Nothing == [op |-> "none", p |-> NULL, need |-> 0, got |-> 0, copied |-> 0, words |-> {}, said |-> FALSE]

(* Words that have been part of a chunk, or of the header of top, since    *)
(* the kernel gave them.                                                   *)
Touched(h) ==
  [h EXCEPT !.soiled = @ \union Region(h.top, CHUNK_HDR_SZ) \union
                       UNION {Region(a, h.mem[a].size) : a \in DOMAIN h.mem \ {h.top}}]

Grant(s, a, n) == [heap |-> Touched(a.h), objects |-> Append(s.objects, <<a.p, n>>)]

After(s, n) ==
  IF n > 0 THEN Grant(s, libc_malloc(s.heap, n), n)
  ELSE [heap |-> Touched(libc_free(s.heap, s.objects[-n][1])), objects |-> [s.objects EXCEPT ![-n] = <<NULL, 0>>]]

Init ==
  /\ \E mp \in Params, history \in Histories :
       \E s \in {FoldLeft(After, [heap |-> malloc_init_state(FirstBrk, mp), objects |-> <<>>], history)} :
         LET kept == {o \in ToSet(s.objects) : o[1] # NULL}
         IN /\ heap = s.heap
            /\ held = [p \in {o[1] : o \in kept} |-> CHOOSE n \in {o[2] : o \in kept} : <<p, n>> \in kept]
  /\ foreign = {} /\ last = Nothing /\ calls = 0

Call == ~heap.aborted /\ calls < MaxCalls /\ calls' = calls + 1

Becomes(h) == heap' = Touched(h) /\ UNCHANGED foreign

Holding(p, bytes) == [q \in DOMAIN held \union ({p} \ {NULL}) |-> IF q = p THEN bytes ELSE held[q]]
Without(p) == [q \in DOMAIN held \ {p} |-> held[q]]

Malloc(bytes) ==
  /\ Call
  /\ \E a \in {libc_malloc(heap, bytes)} :
     /\ Becomes(a.h)
     /\ held' = Holding(a.p, bytes)
     /\ last' = [Nothing EXCEPT !.op = "malloc", !.p = a.p, !.need = bytes]

Free(p) ==
  /\ Call /\ Becomes(libc_free(heap, p))
  /\ held' = Without(p)
  /\ last' = [Nothing EXCEPT !.op = "free"]

(* need: the words that were asked for before and are now; got: those kept.*)
Realloc(p, bytes) ==
  /\ Call
  /\ \E a \in {libc_realloc(heap, p, bytes)} :
     /\ Becomes(a.h)
     /\ held' = IF a.p = NULL /\ bytes # 0 THEN held
                ELSE [q \in (DOMAIN held \ {p}) \union ({a.p} \ {NULL}) |-> IF q = a.p THEN bytes ELSE held[q]]
     /\ last' = [Nothing EXCEPT !.op = "realloc", !.p = a.p,
                                !.need = Min({held[p], bytes}), !.got = a.kept,
                                !.copied = a.copied]

(* words: those of the object that are not known to be 0.                  *)
Calloc(bytes) ==
  /\ Call
  /\ \E a \in {libc_calloc(heap, bytes)} :
     /\ Becomes(a.h)
     /\ held' = Holding(a.p, bytes)
     /\ last' = [Nothing EXCEPT !.op = "calloc", !.p = a.p, !.words =
                   IF a.p = NULL THEN {}
                   ELSE heap.soiled \cap ((a.p + CHUNK_HDR_SZ + a.cleared) .. (a.p + CHUNK_HDR_SZ + bytes - 1))]

Memalign(alignment, bytes) ==
  /\ Call
  /\ \E a \in {libc_memalign(heap, alignment, bytes)} :
     /\ Becomes(a.h)
     /\ held' = Holding(a.p, bytes)
     /\ last' = [Nothing EXCEPT !.op = "memalign", !.p = a.p, !.need = alignment]

Pvalloc(bytes) ==
  /\ Call
  /\ \E a \in {libc_pvalloc(heap, bytes)} :
     /\ Becomes(a.h)
     /\ held' = Holding(a.p, bytes)
     /\ last' = [Nothing EXCEPT !.op = "memalign", !.p = a.p, !.need = PageSize]

(* need and got: the words of the break before and after.                  *)
MallocTrim(pad) ==
  /\ Call
  /\ \E a \in {mtrim(heap, pad)} :
     /\ Becomes(a.h) /\ UNCHANGED held
     /\ last' = [Nothing EXCEPT !.op = "trim", !.words = a.advised, !.said = a.result,
                                !.need = heap.brk, !.got = a.h.brk]

Mallopt(setting) ==
  /\ Call /\ Becomes(libc_mallopt(heap, setting[1], setting[2])) /\ UNCHANGED held
  /\ last' = [Nothing EXCEPT !.op = "mallopt"]

ThreadShutdown ==
  /\ Call /\ ~heap.shutting_down /\ HasTcache(heap)
  /\ Becomes(tcache_thread_shutdown(heap)) /\ UNCHANGED held
  /\ last' = [Nothing EXCEPT !.op = "shutdown"]

ForeignSbrk(n) ==
  /\ Call /\ heap.brk + n <= BrkLimit
  /\ heap' = [heap EXCEPT !.brk = @ + n]
  /\ foreign' = foreign \union Region(heap.brk, n)
  /\ UNCHANGED held
  /\ last' = [Nothing EXCEPT !.op = "sbrk"]

Next ==
  \/ \E bytes \in Sizes : Malloc(bytes)
  \/ \E p \in DOMAIN held : Free(p)
  \/ \E p \in DOMAIN held, bytes \in Sizes \union {0} : Realloc(p, bytes)
  \/ \E bytes \in FewSizes : Calloc(bytes)
  \/ \E a \in Alignments, bytes \in FewSizes : Memalign(a, bytes)
  \/ \E bytes \in FewSizes : Pvalloc(bytes)
  \/ \E pad \in Pads : MallocTrim(pad)
  \/ \E s \in Settings : Mallopt(s)
  \/ ThreadShutdown
  \/ \E n \in ForeignSizes : ForeignSbrk(n)

Spec == Init /\ [][Next]_vars
-------------------------------------------------------------------------------
(* Properties.                                                             *)

(* Others move the break by whole pages. *)
MovedByPages ==
  /\ FirstBrk % PageSize = 0
  /\ \A w \in foreign : Region(AlignDown(w, PageSize), PageSize) \subseteq foreign

(* None of the checks and asserts of malloc-impl.c fails for a program that*)
(* passes only what malloc gave it, once: not malloc_printerr's            *)
(* "corrupted", "invalid" and "double free", and, while others move the    *)
(* break by whole pages only, not sysmalloc's assertion on the old top     *)
(* either.  (After a move by less, top ends inside a page if the sbrk of   *)
(* malloc-impl.c:2777 that is to correct it fails, and the assertion of    *)
(* 2539 stops a later call.)                                               *)
(* As long as none has failed, by pages or not, the heap passes            *)
(* do_check_malloc_state between calls; each object, and each chunk that   *)
(* the thread's cache keeps as if it were one, passes do_check_inuse_chunk;*)
(* and what malloc has just returned is no larger than it had to be        *)
(* (do_check_remalloced_chunk).                                            *)
ChunksAreSound ==
  /\ MovedByPages => ~heap.aborted
  /\ ~heap.aborted =>
       /\ do_check_malloc_state(heap)
       /\ \A p \in DOMAIN held : do_check_inuse_chunk(heap, p)
       /\ \A i \in DOMAIN heap.entries : \A p \in ToSet(heap.entries[i]) :
            do_check_inuse_chunk(heap, p) /\ csize2tidx(chunksize(heap, p)) = i
       /\ (last.op \in {"malloc", "realloc", "calloc"} /\ last.p # NULL) =>
            do_check_remalloced_chunk(heap, last.p, request2size(held[last.p]))

(* The words a chunk is made of: of a mapping, all of it.                  *)
WordsOf(p) == IF mmapped(heap, p) THEN Region(Block(heap, p), BlockSize(heap, p))
              ELSE Region(p, chunksize(heap, p))

Given ==
  (Region(FirstBrk, heap.brk - FirstBrk) \ foreign) \union UNION {Region(r[1], r[2]) : r \in heap.maps}

(* The chunks are a partition of the words that the kernel gave and still  *)
(* gives: no word is lost to malloc, none is in two chunks, and none is    *)
(* somebody else's or given back (Serve, Coalesce, ReplaceTop, systrim,    *)
(* mremap and munmap each move both ends of a chunk by hand).              *)
ChunksTileMemory ==
  /\ UNION {WordsOf(p) : p \in DOMAIN heap.mem} = Given
  /\ \A p, q \in DOMAIN heap.mem : p # q => WordsOf(p) \cap WordsOf(q) = {}

Listed ==
  FlattenSeq([i \in 1 .. NFASTBINS |-> heap.fast[i - 1]]) \o FlattenSeq(heap.bins) \o
  FlattenSeq([i \in 1 .. TCACHE_MAX_BINS |-> heap.entries[i - 1]])

(* Every chunk is in exactly one place: with the client, in one list, once,*)
(* or malloc's own (top, the cache's struct); what is in none is too small *)
(* to be a chunk, a fencepost.  So nothing leaks and nothing is handed out *)
(* twice, whichever lists a chunk has gone through.                        *)
ChunksInOnePlace ==
  LET own == ({heap.top} \ {0}) \union ({heap.tcache} \ {NULL})
      placed == DOMAIN held \union own \union ToSet(Listed)
  IN /\ IsInjective(Listed)
     /\ (DOMAIN held \union own) \cap ToSet(Listed) = {} /\ DOMAIN held \cap own = {}
     /\ placed \subseteq DOMAIN heap.mem
     /\ \A p \in DOMAIN heap.mem \ placed : chunksize(heap, p) < MINSIZE

(* sysmalloc is called only when no free chunk of the arena can serve: the *)
(* map of the bins has no hole, the fast chunks have been merged, the flag *)
(* that says whether there are any is not false too early, and top is too  *)
(* small.  And a request is refused only then.  (The thread's cache is not *)
(* the arena: calloc, realloc and memalign go past what it keeps.)         *)
GrowsOnlyWhenFull == ~heap.needless

(* What a call promises of the object it returns: realloc loses nothing of *)
(* what was asked for before and after, whether the chunk stays, grows into*)
(* a neighbour, is copied or remapped, and no copy is longer than the new  *)
(* object; calloc's is zero, though it clears neither a mapping nor the end*)
(* of top that it takes for fresh from the kernel; memalign's and its kin's*)
(* is aligned, whatever chunk it was cut from.                             *)
ReallocKeepsData ==
  (last.op = "realloc" /\ last.p # NULL) =>
    last.got >= last.need /\ last.copied <= musable(heap, last.p)

CallocIsClean == last.op = "calloc" => last.words = {}

AlignedAsAsked ==
  (last.op = "memalign" /\ last.p # NULL) => (last.p + CHUNK_HDR_SZ) % last.need = 0

CallsKeepTheirPromise == ReallocKeepsData /\ CallocIsClean /\ AlignedAsAsked

(* The pages that malloc_trim gives up inside of chunks hold neither an    *)
(* object of the client nor the fields malloc keeps in a chunk; the struct *)
(* of the cache and what is in it are objects for mtrim.                   *)
TrimSparesObjects ==
  last.op = "trim" =>
    /\ \A p \in DOMAIN held \union ({heap.tcache} \ {NULL}) : last.words \cap WordsOf(p) = {}
    /\ \A p \in DOMAIN heap.mem : last.words \cap Region(p, CHUNK_HDR_SZ) = {}
    /\ \A p \in ToSet(FlattenSeq(heap.bins)) : last.words \cap Region(p, StructSize) = {}

(* mallinfo: what is neither top nor in a bin or fastbin is counted as in  *)
(* use, to the word; the mappings are counted, and their words, though     *)
(* memalign may leave a chunk that does not begin where its mapping does.  *)
StatisticsAddUp ==
  LET m == int_mallinfo(heap)
      mapped == {p \in DOMAIN heap.mem : mmapped(heap, p)}
      free == {heap.top} \union ToSet(FlattenSeq([i \in 1 .. NFASTBINS |-> heap.fast[i - 1]]))
                         \union ToSet(FlattenSeq(heap.bins))
      used == DOMAIN heap.mem \ (mapped \union free)
  IN /\ m.hblks = Cardinality(mapped)
     /\ m.hblkhd = Cardinality(UNION {WordsOf(p) : p \in mapped})
     /\ foreign = {} => m.uordblks = Cardinality(UNION {WordsOf(p) : p \in used})

(* The contract: objects stay where they are and as large as they are, in  *)
(* words of their own, whatever malloc does for others.                    *)
Granted == [m \in {p + CHUNK_HDR_SZ : p \in DOMAIN held} |->
              [bytes |-> held[m - CHUNK_HDR_SZ], size |-> musable(heap, m - CHUNK_HDR_SZ)]]

Contract == INSTANCE PtContract WITH granted <- Granted, given <- Given
KeepsContract == Contract!PSpec

===============================================================================
