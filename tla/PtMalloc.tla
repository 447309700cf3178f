------------------------------- MODULE PtMalloc -------------------------------
(***************************************************************************)
(* malloc, free, realloc and their kin of ptmalloc, for one thread with    *)
(* its cache and the main arena: each maps a heap to the heap after it     *)
(* and, where it returns a chunk p, NULL when there is none.               *)
(***************************************************************************)
EXTENDS PtChunks

Answer(h, p) == [h |-> h, p |-> p]
-------------------------------------------------------------------------------
(* The thread's cache.                                                     *)
HasTcache(h) == h.tcache # NULL
Cacheable(h, nb) == HasTcache(h) /\ csize2tidx(nb) < TCACHE_MAX_BINS
TcacheRoom(h, nb) == Len(h.entries[csize2tidx(nb)]) < h.mp.tcache_count

tcache_put(h, p, idx) == [h EXCEPT !.entries[idx] = <<p>> \o @]
tcache_get(h, idx) == Answer([h EXCEPT !.entries[idx] = Tail(@)], Head(h.entries[idx]))

(* Up to n chunks of a list are put into the cache, one after the other.   *)
Stash(h, idx, list) == FoldLeft(LAMBDA g, p : tcache_put(g, p, idx), h, list)
StashRoom(h, nb) == IF Cacheable(h, nb) THEN h.mp.tcache_count - Len(h.entries[csize2tidx(nb)]) ELSE 0
Taken(h, nb, list) == Min({Len(list), Max({0, StashRoom(h, nb)})})
-------------------------------------------------------------------------------
(* free *)

(* Mutant: the break is moved though others have moved it. *)
SystrimBlind(h, pad) ==
  LET top_size == chunksize(h, h.top)
      top_area == (top_size - MINSIZE - 1) % WordMod
      extra == AlignDown((top_area - pad) % WordMod, PageSize)
      released == IF extra > PTRDIFF_MAX THEN extra - WordMod ELSE extra
      less == Sbrk(h, -released)
  IN IF top_area <= pad \/ extra = 0 \/ less.brk = Failed
     THEN [h |-> h, released |-> FALSE]
     ELSE [h |-> set_head([less.h EXCEPT !.system_mem = @ - released], h.top, top_size - released),
           released |-> TRUE]

systrim(h, pad) ==
  LET top_size == chunksize(h, h.top)
      top_area == (top_size - MINSIZE - 1) % WordMod
      extra == AlignDown((top_area - pad) % WordMod, PageSize)
      released == IF extra > PTRDIFF_MAX THEN extra - WordMod ELSE extra
      less == Sbrk(h, -released)
  IN IF top_area <= pad \/ extra = 0 \/ h.brk # h.top + top_size \/ less.brk = Failed
     THEN [h |-> h, released |-> FALSE]
     ELSE [h |-> set_head([less.h EXCEPT !.system_mem = @ - released], h.top, top_size - released),
           released |-> TRUE]

(* What _int_free looks at before it gives a chunk back to the arena.      *)
NextIsSane(h, p) ==
  LET next == next_chunk(h, p)
  IN NomaskExceeds(h, next, CHUNK_HDR_SZ) /\ chunksize(h, next) < h.system_mem

Releasable(h, p) ==
  /\ p # h.top
  /\ h.contiguous => next_chunk(h, p) < h.top + chunksize(h, h.top)
  /\ inuse(h, p)
  /\ NextIsSane(h, p)

(* A large merged chunk is the occasion to merge the fast ones and to trim.*)
TrimTop(h) ==
  IF chunksize(h, h.top) >= h.mp.trim_threshold THEN systrim(h, h.mp.top_pad).h ELSE h

Shrunk(h, size) ==
  IF size < ConsolidationThreshold THEN h
  ELSE TrimTop(IF h.have_fastchunks THEN malloc_consolidate(h) ELSE h)

FreeToArena(h, p) ==
  Shrunk(Coalesce(Check(h, Releasable(h, p)), p), MergedEnd(h, next_chunk(h, p)) - MergedStart(h, p))

(* Mutant: the flag is not raised. *)
FreeToFastbinSilent(h, p) ==
  LET idx == fastbin_index(chunksize(h, p))
  IN [Check(h, NextIsSane(h, p)) EXCEPT !.fast[idx] = <<p>> \o @]

FreeToFastbin(h, p) ==
  LET idx == fastbin_index(chunksize(h, p))
      list == h.fast[idx]
  IN [Check(h, NextIsSane(h, p) /\ (list # <<>> => Head(list) # p))
        EXCEPT !.fast[idx] = <<p>> \o list, !.have_fastchunks = TRUE]

int_free(h, p) ==
  LET size == chunksize(h, p)
      idx == csize2tidx(size)
      g == Check(h, size >= MINSIZE /\ size % MALLOC_ALIGNMENT = 0 /\ p % MALLOC_ALIGNMENT = 0)
  IN IF Cacheable(h, size) /\ TcacheRoom(h, size)
     THEN tcache_put(Check(g, ~Contains(h.entries[idx], p)), p, idx)
     ELSE IF size <= h.mp.max_fast THEN FreeToFastbin(g, p)
     ELSE FreeToArena(g, p)
-------------------------------------------------------------------------------
(* sysmalloc *)

(* The request as a mapping of its own. *)
MmapChunk(h, nb) ==
  LET size == AlignUp(nb + SIZE_SZ, PageSize)
      m == Mmap(h, size)
  IN IF m.at = Failed THEN Answer(h, NULL)
     ELSE Answer([Put(m.h, m.at, [NoHead EXCEPT !.size = size, !.mmapped = TRUE])
                    EXCEPT !.mp.n_mmaps = @ + 1, !.mp.mmapped_mem = @ + size],
                 m.at)

(* A top elsewhere: the old one ends in two fenceposts, and its rest is    *)
(* freed if it is a chunk.                                                 *)
ReplaceTop(h, at, size) ==
  LET old == h.top
      rest == AlignDown(chunksize(h, old) - 2 * CHUNK_HDR_SZ, MALLOC_ALIGNMENT)
      moved == [set_head(h, at, size) EXCEPT !.top = at]
      fenced == set_head(set_head(set_head(moved, old, rest), old + rest, CHUNK_HDR_SZ),
                         old + rest + CHUNK_HDR_SZ, CHUNK_HDR_SZ)
  IN IF chunksize(h, old) = 0 THEN moved
     ELSE IF rest >= MINSIZE THEN int_free(fenced, old)
     ELSE fenced

(* sbrk gave size words at brk, and more those that make its end a page's. *)
AlignTop(h, at, gap, correction, more) ==
  IF more.brk = Failed THEN ReplaceTop([h EXCEPT !.system_mem = @ + gap], at, h.brk - at)
  ELSE ReplaceTop([more.h EXCEPT !.system_mem = @ + gap + correction], at, (more.brk - at) + correction)

GrowTop(h, brk, size) ==
  LET old_size == chunksize(h, h.top)
      old_end == h.top + old_size
      g == [h EXCEPT !.system_mem = @ + size, !.mp.sbrk_base = IF @ = 0 THEN brk ELSE @]
      aligned == AlignUp(brk, MALLOC_ALIGNMENT)
      short == (aligned - brk) + old_size
      correction == AlignUp(brk + size + short, PageSize) - (brk + size)
  IN IF brk = old_end THEN set_head(g, h.top, size + old_size)
     ELSE IF h.contiguous /\ old_size # 0 /\ brk < old_end THEN Check(g, FALSE)
     ELSE IF ~h.contiguous THEN ReplaceTop(Check(g, brk = aligned), brk, g.brk - brk)
     ELSE AlignTop(g, aligned, IF old_size = 0 THEN 0 ELSE brk - old_end, correction, Sbrk(g, correction))

(* mmap as a backup, for a top that nothing joins to the old one.          *)
MapTop(h, size, m) ==
  IF m.at = Failed THEN h
  ELSE ReplaceTop([m.h EXCEPT !.contiguous = FALSE, !.system_mem = @ + size,
                              !.mp.sbrk_base = IF @ = 0 THEN m.at ELSE @],
                  m.at, size)

TopFrom(h, more, size, backup) ==
  IF more.brk # Failed THEN GrowTop(more.h, more.brk, size) ELSE MapTop(h, backup, Mmap(h, backup))

WithPeak(h) == [h EXCEPT !.max_system_mem = Max({@, h.system_mem})]

MoreTop(h, nb) ==
  LET old_size == IF h.contiguous THEN chunksize(h, h.top) ELSE 0
      size == AlignUp((nb + h.mp.top_pad + MINSIZE) - old_size, PageSize)
  IN WithPeak(TopFrom(h, Sbrk(h, size), size, Max({AlignUp(size + old_size, PageSize), MmapAsMorecoreSize})))

(* Needless remembers (for the properties) that the kernel is asked while  *)
(* a free chunk of the arena could serve: one of a bin, of a fastbin (they *)
(* would be merged first) or top.  What the thread's cache keeps is not    *)
(* looked for here: calloc, realloc and memalign go past it.               *)
FreeChunkFits(h, nb) ==
  \/ \E b \in DOMAIN h.bins : \E k \in DOMAIN h.bins[b] : chunksize(h, h.bins[b][k]) >= nb
  \/ \E i \in DOMAIN h.fast : h.fast[i] # <<>>
  \/ chunksize(h, h.top) >= nb + MINSIZE

TopIsSane(h) ==
  \/ chunksize(h, h.top) = 0
  \/ chunksize(h, h.top) >= MINSIZE /\ prev_inuse(h, h.top) /\ next_chunk(h, h.top) % PageSize = 0

ServedByTop(h, nb) ==
  IF chunksize(h, h.top) >= nb + MINSIZE THEN Answer(ServeFromTop(h, nb), h.top) ELSE Answer(h, NULL)

ByMap(h, nb) ==
  IF nb >= h.mp.mmap_threshold /\ h.mp.n_mmaps < h.mp.n_mmaps_max THEN MmapChunk(h, nb) ELSE Answer(h, NULL)

ElseByTop(mapped, nb) ==
  LET h == mapped.h
  IN IF mapped.p # NULL THEN mapped
     ELSE ServedByTop(MoreTop(Check(h, TopIsSane(h) /\ chunksize(h, h.top) < nb + MINSIZE), nb), nb)

sysmalloc(h, nb) == ElseByTop(ByMap([h EXCEPT !.needless = @ \/ FreeChunkFits(h, nb)], nb), nb)
-------------------------------------------------------------------------------
(* _int_malloc of a chunk of nb words.                                     *)

(* A fastbin: its first chunk, and the next ones into the cache.           *)
(* Mutant: those that went into the cache stay. *)
FromFastbinKeeps(h, nb) ==
  LET idx == fastbin_index(nb)
      rest == Tail(h.fast[idx])
  IN Answer(Stash([h EXCEPT !.fast[idx] = rest], csize2tidx(nb), SubSeq(rest, 1, Taken(h, nb, rest))),
            Head(h.fast[idx]))

FromFastbin(h, nb) ==
  LET idx == fastbin_index(nb)
      rest == Tail(h.fast[idx])
      n == Taken(h, nb, rest)
      g == [Check(h, chunksize(h, Head(h.fast[idx])) = nb)
              EXCEPT !.fast[idx] = SubSeq(rest, n + 1, Len(rest))]
  IN Answer(Stash(g, csize2tidx(nb), SubSeq(rest, 1, n)), Head(h.fast[idx]))

Used(h, nb, list) == FoldLeft(LAMBDA g, p : set_inuse_bit(g, p + nb), h, list)

(* A small bin: its last chunk, and those before it into the cache.        *)
FromSmallbin(h, nb) ==
  LET b == bin_index(nb)
      bin == Reverse(h.bins[b])
      n == Taken(h, nb, Tail(bin))
      g == [h EXCEPT !.bins[b] = Reverse(SubSeq(bin, n + 2, Len(bin)))]
  IN Answer(Stash(Used(g, nb, SubSeq(bin, 1, n + 1)), csize2tidx(nb), SubSeq(bin, 2, n + 1)), Head(bin))

UnsortedIsSane(h, p) ==
  LET next == next_chunk(h, p)
  IN /\ chunksize(h, p) > CHUNK_HDR_SZ /\ chunksize(h, p) <= h.system_mem
     /\ chunksize(h, next) >= CHUNK_HDR_SZ /\ chunksize(h, next) <= h.system_mem
     /\ prev_size(h, next) = chunksize(h, p) /\ ~prev_inuse(h, next)

Found(s, a) == [s EXCEPT !.h = a.h, !.p = a.p]

(* One unsorted chunk, the last: split, cached, taken or put in its bin.   *)
Uncached(s, nb) ==
  IF s.cached /\ s.h.mp.tcache_unsorted_limit \in 1 .. s.count - 1 THEN Found(s, tcache_get(s.h, csize2tidx(nb)))
  ELSE s

SplitsRemainder(h, nb, p) ==
  /\ in_smallbin_range(nb) /\ h.bins[1] = <<>>
  /\ p = h.last_remainder /\ chunksize(h, p) > nb + MINSIZE

SortOut(s, nb, p) ==
  IF SplitsRemainder(s.h, nb, p)
  THEN [s EXCEPT !.h = Serve([s.h EXCEPT !.last_remainder = p + nb], p, nb), !.p = p]
  ELSE IF chunksize(s.h, p) # nb THEN Uncached([s EXCEPT !.h = PlaceInBin(s.h, p), !.count = @ + 1], nb)
  ELSE IF Cacheable(s.h, nb) /\ TcacheRoom(s.h, nb)
  THEN [s EXCEPT !.h = tcache_put(set_inuse_bit(s.h, p + nb), p, csize2tidx(nb)), !.cached = TRUE]
  ELSE [s EXCEPT !.h = set_inuse_bit(s.h, p + nb), !.p = p]

Sort(nb, p, s) ==
  IF s.p # NULL THEN s
  ELSE SortOut([s EXCEPT !.h = [Check(s.h, UnsortedIsSane(s.h, p)) EXCEPT !.bins[1] = Front(@)]], nb, p)

(* The smallest chunk of its large bin that fits, not the first of its size.*)
SecondOf(h, bin, size) ==
  LET first == Min({k \in DOMAIN bin : chunksize(h, bin[k]) = size})
  IN bin[IF first < Len(bin) /\ chunksize(h, bin[first + 1]) = size THEN first + 1 ELSE first]

FitInLargeBin(h, bin, nb) ==
  SecondOf(h, bin, Min({s \in {chunksize(h, bin[k]) : k \in DOMAIN bin} : s >= nb}))

Taking(h, p, nb) == Answer(Serve(unlink_chunk(h, p), p, nb), p)

LargeBinServes(h, nb) ==
  ~in_smallbin_range(nb) /\ \E k \in DOMAIN h.bins[bin_index(nb)] : chunksize(h, h.bins[bin_index(nb)][k]) >= nb

FromLargeBin(h, nb) == Taking(h, FitInLargeBin(h, h.bins[bin_index(nb)], nb), nb)

(* The scan of the binmap above the bin of nb; marks of bins found empty   *)
(* are cleared.                                                            *)
MarkedAbove(h, nb) == {b \in h.binmap : b > bin_index(nb)}
FilledAbove(h, nb) == {b \in MarkedAbove(h, nb) : h.bins[b] # <<>>}

SeenBins(h, nb) ==
  IF FilledAbove(h, nb) = {} THEN MarkedAbove(h, nb)
  ELSE {b \in MarkedAbove(h, nb) : b < Min(FilledAbove(h, nb))}

TakingAbove(h, p, nb) ==
  LET splits == chunksize(h, p) - nb >= MINSIZE
  IN Taking([Check(h, chunksize(h, p) >= nb)
               EXCEPT !.binmap = @ \ SeenBins(h, nb),
                      !.last_remainder = IF splits /\ in_smallbin_range(nb) THEN p + nb ELSE @],
            p, nb)

FromBinAbove(h, nb) == TakingAbove(h, Last(h.bins[Min(FilledAbove(h, nb))]), nb)

(* One turn of the loop of _int_malloc: p is NULL if no list and not top   *)
(* can serve.                                                              *)
FromTop(h, nb) == ServedByTop(Check(h, chunksize(h, h.top) <= h.system_mem), nb)

Chosen(s, nb) ==
  IF s.p # NULL THEN s
  ELSE IF s.cached THEN Found(s, tcache_get(s.h, csize2tidx(nb)))
  ELSE IF LargeBinServes(s.h, nb) THEN Found(s, FromLargeBin(s.h, nb))
  ELSE IF FilledAbove(s.h, nb) # {} THEN Found(s, FromBinAbove(s.h, nb))
  ELSE Found(s, FromTop([s.h EXCEPT !.binmap = @ \ SeenBins(s.h, nb)], nb))

Sorted(h, nb, count) ==
  FoldRight(LAMBDA p, s : Sort(nb, p, s), h.bins[1],
            [h |-> h, p |-> NULL, cached |-> FALSE, count |-> count])

Search(h, nb, count) == Chosen(Sorted(h, nb, count), nb)

SearchAgain(s, nb) ==
  IF s.p = NULL /\ s.h.have_fastchunks THEN Search(malloc_consolidate(s.h), nb, s.count) ELSE s

ElseSysmalloc(s, nb) == IF s.p # NULL THEN Answer(s.h, s.p) ELSE sysmalloc(s.h, nb)

int_malloc(h, nb) ==
  IF nb <= h.mp.max_fast /\ h.fast[fastbin_index(nb)] # <<>> THEN FromFastbin(h, nb)
  ELSE IF in_smallbin_range(nb) /\ h.bins[bin_index(nb)] # <<>> THEN FromSmallbin(h, nb)
  ELSE ElseSysmalloc(SearchAgain(Search(IF ~in_smallbin_range(nb) /\ h.have_fastchunks
                                        THEN malloc_consolidate(h) ELSE h, nb, 0), nb), nb)
-------------------------------------------------------------------------------
(* The public functions.                                                   *)
WithTcache(a) ==
  IF a.p = NULL THEN a.h
  ELSE [a.h EXCEPT !.tcache = a.p, !.entries = [i \in DOMAIN @ |-> <<>>]]

tcache_init(h) ==
  IF h.shutting_down \/ HasTcache(h) THEN h ELSE WithTcache(int_malloc(h, request2size(TcacheBytes)))

MallocFrom(h, nb) ==
  IF Cacheable(h, nb) /\ h.entries[csize2tidx(nb)] # <<>> THEN tcache_get(h, csize2tidx(nb))
  ELSE int_malloc(h, nb)

libc_malloc(h, bytes) ==
  IF Representable(bytes) THEN MallocFrom(tcache_init(h), request2size(bytes)) ELSE Answer(h, NULL)

(* The block that was mapped starts prev_size before the chunk.            *)
Block(h, p) == p - prev_size(h, p)
BlockSize(h, p) == prev_size(h, p) + chunksize(h, p)
BlockIsSane(h, p) ==
  /\ Block(h, p) % PageSize = 0 /\ BlockSize(h, p) % PageSize = 0
  /\ (p + CHUNK_HDR_SZ) % PageSize \in {0, 1, 2} \union Powers

(* Mutant: what memalign cut off the front stays counted. *)
MunmapChunkSize(h, p) ==
  Munmap([Drop(Check(h, BlockIsSane(h, p)), p)
            EXCEPT !.mp.n_mmaps = @ - 1, !.mp.mmapped_mem = @ - chunksize(h, p)],
         Block(h, p), BlockSize(h, p))

munmap_chunk(h, p) ==
  Munmap([Drop(Check(h, BlockIsSane(h, p)), p)
            EXCEPT !.mp.n_mmaps = @ - 1, !.mp.mmapped_mem = @ - BlockSize(h, p)],
         Block(h, p), BlockSize(h, p))

(* The thresholds follow the largest mapping that was freed.               *)
AdjustThresholds(h, p) ==
  IF /\ ~h.mp.no_dyn_threshold
     /\ chunksize(h, p) >= h.mp.mmap_threshold /\ chunksize(h, p) < MmapThresholdMax
  THEN [h EXCEPT !.mp.mmap_threshold = chunksize(h, p), !.mp.trim_threshold = 2 * chunksize(h, p)]
  ELSE h

libc_free(h, p) ==
  IF p = NULL THEN h
  ELSE IF mmapped(h, p) THEN munmap_chunk(AdjustThresholds(h, p), p) ELSE int_free(tcache_init(h), p)

tcache_thread_shutdown(h) ==
  LET chunks == FlattenSeq([i \in 1 .. TCACHE_MAX_BINS |-> h.entries[i - 1]])
      off == [h EXCEPT !.tcache = NULL, !.shutting_down = TRUE, !.entries = [i \in DOMAIN @ |-> <<>>]]
  IN IF HasTcache(h) THEN libc_free(FoldLeft(libc_free, off, chunks), h.tcache) ELSE h

(* realloc: kept is what the object still has of its words, copied what of *)
(* them memcpy took over.                                                  *)
Stays(h, p, words) == [h |-> h, p |-> p, kept |-> words, copied |-> 0]
Moves(h, p, words) == [h |-> h, p |-> p, kept |-> words, copied |-> words]
Refused(h) == [h |-> h, p |-> NULL, kept |-> 0, copied |-> 0]

(* Mutant: the new size leaves no room for what memalign cut off. *)
MremapShort(h, p, nb) ==
  LET offset == prev_size(h, p)
      new_size == AlignUp(nb + SIZE_SZ, PageSize)
      m == Mremap(Drop(h, p), Block(h, p), BlockSize(h, p), new_size)
  IN IF new_size = BlockSize(h, p) THEN Answer(h, p)
     ELSE IF m.at = Failed THEN Answer(h, NULL)
     ELSE Answer([Put(m.h, m.at + offset, [At(h, p) EXCEPT !.size = new_size - offset])
                    EXCEPT !.mp.mmapped_mem = @ + new_size - BlockSize(h, p)],
                 m.at + offset)

mremap_chunk(h, p, nb) ==
  LET offset == prev_size(h, p)
      new_size == AlignUp(nb + offset + SIZE_SZ, PageSize)
      m == Mremap(Drop(h, p), Block(h, p), BlockSize(h, p), new_size)
  IN IF new_size = BlockSize(h, p) THEN Answer(h, p)
     ELSE IF m.at = Failed THEN Answer(h, NULL)
     ELSE Answer([Put(m.h, m.at + offset, [At(h, p) EXCEPT !.size = new_size - offset])
                    EXCEPT !.mp.mmapped_mem = @ + new_size - BlockSize(h, p)],
                 m.at + offset)

CopyMapped(h, p, new) ==
  IF new.p = NULL THEN Refused(new.h)
  ELSE Moves(munmap_chunk(new.h, p), new.p, chunksize(h, p) - CHUNK_HDR_SZ)

Remapped(h, p, bytes, m) ==
  IF m.p # NULL THEN Stays(m.h, m.p, musable(h, p))
  ELSE IF chunksize(h, p) - SIZE_SZ >= request2size(bytes) THEN Stays(m.h, p, musable(h, p))
  ELSE CopyMapped(h, p, libc_malloc(m.h, bytes))

ReallocMapped(h, p, bytes) ==
  Remapped(h, p, bytes, mremap_chunk(Check(h, BlockIsSane(h, p)), p, request2size(bytes)))

(* What is left beyond nb of a chunk of size words is freed as a chunk.    *)
GiveBackTail(h, p, size, nb) ==
  IF size - nb < MINSIZE THEN set_inuse_bit(set_head_size(h, p, size), p + size)
  ELSE int_free(set_inuse_bit(set_head(set_head_size(h, p, nb), p + nb, size - nb), p + size), p + nb)

(* The words of a chunk that memcpy takes over.                            *)
(* Mutant: the last one, the prev_size of the next chunk, is forgotten. *)
CarriedShort(oldsize) == oldsize - CHUNK_HDR_SZ

Carried(oldsize) == oldsize - SIZE_SZ

Joined(h, p, next, size, nb) == GiveBackTail(Drop(h, next), p, size, nb)

CopyChunk(h, p, new, nb) ==
  LET all == Carried(chunksize(h, p))
      next == next_chunk(h, p)
  IN IF new.p = NULL THEN Refused(new.h)
     ELSE IF new.p # next THEN Moves(int_free(new.h, p), new.p, all)
     ELSE Stays(Joined(new.h, p, next, chunksize(h, p) + chunksize(new.h, next), nb), p, all)

Resized(h, p, nb) ==
  LET oldsize == chunksize(h, p)
      next == next_chunk(h, p)
      both == oldsize + chunksize(h, next)
      all == Carried(oldsize)
  IN IF oldsize >= nb THEN Stays(GiveBackTail(h, p, oldsize, nb), p, all)
     ELSE IF next = h.top /\ both >= nb + MINSIZE THEN
       Stays([set_head(set_head_size(Drop(h, next), p, nb), p + nb, both - nb) EXCEPT !.top = p + nb], p, all)
     ELSE IF next # h.top /\ ~inuse(h, next) /\ both >= nb THEN
       Stays(Joined(unlink_chunk(h, next), p, next, both, nb), p, all)
     ELSE CopyChunk(h, p, int_malloc(h, nb), nb)

int_realloc(h, p, nb) ==
  Resized(Check(h, NomaskExceeds(h, p, CHUNK_HDR_SZ) /\ chunksize(h, p) < h.system_mem /\ NextIsSane(h, p)),
          p, nb)

ReallocHeld(h, p, bytes) ==
  IF Representable(bytes) THEN int_realloc(h, p, request2size(bytes)) ELSE Refused(h)

libc_realloc(h, p, bytes) ==
  IF bytes = 0 THEN Refused(libc_free(h, p))
  ELSE IF ~mmapped(h, p) THEN ReallocHeld(tcache_init(h), p, bytes)
  ELSE IF Representable(bytes) THEN ReallocMapped(h, p, bytes) ELSE Refused(h)

(* _mid_memalign and _int_memalign: more than enough is allocated, and     *)
(* what lies before and behind the aligned chunk is freed.                 *)
Alignment(a) ==
  Min({n \in Powers : n >= a /\ n >= MINSIZE})

AlignedAt(p, a) ==
  LET q == AlignUp(p + CHUNK_HDR_SZ, a) - CHUNK_HDR_SZ
  IN IF q # p /\ q - p < MINSIZE THEN q + a ELSE q

GiveBackLead(h, p, q) ==
  LET newsize == chunksize(h, p) - (q - p)
  IN int_free(set_head_size(set_inuse_bit(set_head(h, q, newsize), q + newsize), p, q - p), p)

GiveBackSpare(h, p, nb) ==
  IF chunksize(h, p) <= nb + MINSIZE THEN h
  ELSE int_free(set_head_size(set_head(h, p + nb, chunksize(h, p) - nb), p, nb), p + nb)

ShiftMapped(h, p, q) ==
  Put(Drop(h, p), q, [At(h, p) EXCEPT !.prev_size = @ + (q - p), !.size = @ - (q - p)])

CutToSize(h, q, nb) == Answer(GiveBackSpare(Check(h, chunksize(h, q) >= nb), q, nb), q)

CutAligned(h, p, q, nb) ==
  IF p = NULL THEN Answer(h, NULL)
  ELSE IF mmapped(h, p) THEN Answer(ShiftMapped(h, p, q), q)
  ELSE CutToSize(IF q = p THEN h ELSE GiveBackLead(h, p, q), q, nb)

MemalignFrom(m, alignment, nb) == CutAligned(m.h, m.p, AlignedAt(m.p, alignment), nb)

int_memalign(h, alignment, bytes) ==
  LET nb == request2size(bytes)
  IN MemalignFrom(int_malloc(h, request2size(nb + alignment + MINSIZE)), alignment, nb)

libc_memalign(h, a, bytes) ==
  IF a <= MALLOC_ALIGNMENT THEN libc_malloc(h, bytes)
  ELSE IF ~Representable(bytes) THEN Answer(h, NULL)
  ELSE int_memalign(h, Alignment(a), bytes)

libc_valloc(h, bytes) == libc_memalign(h, PageSize, bytes)

(* rounded_bytes & -(pagesize - 1): the lowest bit stays. *)
libc_pvalloc(h, bytes) ==
  LET up == bytes + PageSize - 1 IN libc_valloc(h, AlignDown(up, PageSize) + (up % 2))

(* calloc: the words from the second of mem on that it sets to 0.          *)
Fresh(h) == (h.mp.sbrk_base + h.max_system_mem - h.top) % WordMod

Cleared(h, a) ==
  LET csz == chunksize(a.h, a.p)
      known == Max({chunksize(h, h.top), Fresh(h)})
  IN IF mmapped(a.h, a.p) THEN 0
     ELSE (IF a.p = h.top THEN Min({csz, known}) ELSE csz) - SIZE_SZ

Clean(a, cleared) ==
  [h |-> Check(a.h, mmapped(a.h, a.p) \/ cleared >= 3), p |-> a.p, cleared |-> cleared]

CallocFrom(h, a) ==
  IF a.p = NULL THEN [h |-> a.h, p |-> NULL, cleared |-> 0] ELSE Clean(a, Cleared(h, a))

CallocIn(h, bytes) ==
  IF Representable(bytes) THEN CallocFrom(h, int_malloc(h, request2size(bytes)))
  ELSE [h |-> h, p |-> NULL, cleared |-> 0]

libc_calloc(h, bytes) == CallocIn(tcache_init(h), bytes)

(* mtrim: whole pages inside free chunks, then the end of top.             *)
(* Mutant: the links of the chunk are given up. *)
TrimmedLinks(h, p) ==
  LET from == AlignUp(p + CHUNK_HDR_SZ, PageSize)
  IN IF chunksize(h, p) <= PageSize - 1 + CHUNK_HDR_SZ THEN {}
     ELSE Region(from, AlignDown(p + chunksize(h, p) - from, PageSize))

Trimmed(h, p) ==
  LET from == AlignUp(p + StructSize, PageSize)
  IN IF chunksize(h, p) <= PageSize - 1 + StructSize THEN {}
     ELSE Region(from, AlignDown(p + chunksize(h, p) - from, PageSize))

TrimmedBins(h) == {1} \union (bin_index(PageSize) .. NBINS - 1)

Advised(h) ==
  UNION {UNION {Trimmed(h, h.bins[b][k]) : k \in DOMAIN h.bins[b]} : b \in TrimmedBins(h)}

TrimBoth(h, advised, pad) ==
  LET trimmed == systrim([h EXCEPT !.soiled = @ \ advised], pad)
  IN [h |-> trimmed.h, advised |-> advised, result |-> advised # {} \/ trimmed.released]

TrimAll(h, pad) == TrimBoth(h, Advised(h), pad)
mtrim(h, pad) == TrimAll(malloc_consolidate(h), pad)

(* mallopt: the parameters of the main arena.                              *)
Tunables == {"max_fast", "trim_threshold", "top_pad", "mmap_threshold", "n_mmaps_max"}

SetParameter(h, param, value) ==
  LET fixed == [h EXCEPT !.mp.no_dyn_threshold = TRUE]
  IN CASE param = "max_fast" ->
            IF value <= MAX_FAST_SIZE THEN [h EXCEPT !.mp.max_fast = MaxFastOf(value)] ELSE h
       [] param = "trim_threshold" -> [fixed EXCEPT !.mp.trim_threshold = value]
       [] param = "top_pad" -> [fixed EXCEPT !.mp.top_pad = value]
       [] param = "mmap_threshold" ->
            IF value <= MmapThresholdMax THEN [fixed EXCEPT !.mp.mmap_threshold = value] ELSE h
       [] param = "n_mmaps_max" -> [fixed EXCEPT !.mp.n_mmaps_max = value]

(* What mp_ may hold before the first call. *)
Parameters ==
  [max_fast : 0 .. request2size(MAX_FAST_SIZE), trim_threshold : Nat, top_pad : 0 .. PTRDIFF_MAX, mmap_threshold : Nat,
   n_mmaps : {0}, n_mmaps_max : Nat, mmapped_mem : {0}, no_dyn_threshold : BOOLEAN, sbrk_base : {0},
   tcache_count : Nat, tcache_unsorted_limit : Nat]

libc_mallopt(h, param, value) == SetParameter(malloc_consolidate(h), param, value)

(* int_mallinfo *)
SizesIn(h, list) == FoldLeft(LAMBDA n, p : n + chunksize(h, p), 0, list)

int_mallinfo(h) ==
  LET fast == FlattenSeq([i \in 1 .. NFASTBINS |-> h.fast[i - 1]])
      free == FlattenSeq(h.bins)
      avail == chunksize(h, h.top) + SizesIn(h, fast) + SizesIn(h, free)
  IN [arena |-> h.system_mem, ordblks |-> Len(free) + 1, smblks |-> Len(fast),
      fsmblks |-> SizesIn(h, fast), fordblks |-> avail, uordblks |-> h.system_mem - avail,
      hblks |-> h.mp.n_mmaps, hblkhd |-> h.mp.mmapped_mem, keepcost |-> chunksize(h, h.top)]
-------------------------------------------------------------------------------
(* malloc_init_state and ptmalloc_init: no top, empty bins.                *)
malloc_init_state(brk, mp) ==
  [mem |-> [a \in {} |-> NoHead], top |-> 0, last_remainder |-> NULL,
   bins |-> [b \in 1 .. NBINS - 1 |-> <<>>], binmap |-> {},
   fast |-> [i \in 0 .. NFASTBINS - 1 |-> <<>>], have_fastchunks |-> FALSE,
   contiguous |-> TRUE, system_mem |-> 0, max_system_mem |-> 0,
   tcache |-> NULL, entries |-> [i \in 0 .. TCACHE_MAX_BINS - 1 |-> <<>>], shutting_down |-> FALSE,
   mp |-> mp, brk |-> brk, maps |-> {}, soiled |-> {}, needless |-> FALSE, aborted |-> FALSE]
===============================================================================
