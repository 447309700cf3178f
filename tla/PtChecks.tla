------------------------------- MODULE PtChecks -------------------------------
(***************************************************************************)
(* The consistency checks that malloc-impl.c makes of itself when it is    *)
(* built with MALLOC_DEBUG, in one operator each.                          *)
(***************************************************************************)
EXTENDS PtMalloc

do_check_chunk(h, p) ==
  LET max_address == h.top + chunksize(h, h.top)
      min_address == max_address - h.system_mem
  IN /\ mmapped(h, p) =>
          /\ (h.contiguous /\ h.top # 0) => p \notin min_address .. max_address - 1
          /\ BlockSize(h, p) % PageSize = 0
          /\ p % MALLOC_ALIGNMENT = 0
     /\ (~mmapped(h, p) /\ p # h.top /\ h.contiguous) =>
          p >= min_address /\ next_chunk(h, p) <= h.top
     /\ p = h.top => chunksize(h, p) >= MINSIZE /\ prev_inuse(h, p)

do_check_free_chunk(h, p) ==
  LET next == next_chunk(h, p)
  IN /\ do_check_chunk(h, p)
     /\ ~inuse(h, p) /\ ~mmapped(h, p)
     /\ chunksize(h, p) >= MINSIZE
     /\ chunksize(h, p) % MALLOC_ALIGNMENT = 0 /\ p % MALLOC_ALIGNMENT = 0
     /\ prev_size(h, next) = chunksize(h, p)
     /\ prev_inuse(h, p)
     /\ next = h.top \/ inuse(h, next)

do_check_inuse_chunk(h, p) ==
  LET next == next_chunk(h, p)
      prev == p - prev_size(h, p)
  IN /\ do_check_chunk(h, p)
     /\ ~mmapped(h, p) =>
          /\ inuse(h, p)
          /\ ~prev_inuse(h, p) => next_chunk(h, prev) = p /\ do_check_free_chunk(h, prev)
          /\ next = h.top => prev_inuse(h, next) /\ chunksize(h, next) >= MINSIZE
          /\ (next # h.top /\ ~inuse(h, next)) => do_check_free_chunk(h, next)

do_check_remalloced_chunk(h, p, nb) ==
  /\ do_check_inuse_chunk(h, p)
  /\ chunksize(h, p) % MALLOC_ALIGNMENT = 0 /\ p % MALLOC_ALIGNMENT = 0
  /\ chunksize(h, p) >= MINSIZE
  /\ ~mmapped(h, p) => chunksize(h, p) - nb \in 0 .. MINSIZE - 1

(* The chunks behind a free one, up to a fencepost or a free chunk.        *)
Behind(h, p) ==
  {q \in DOMAIN h.mem :
     /\ ~mmapped(h, q) /\ q >= next_chunk(h, p) /\ q # h.top
     /\ \A r \in DOMAIN h.mem :
          (~mmapped(h, r) /\ r >= next_chunk(h, p) /\ r <= q) =>
            r # h.top /\ inuse(h, r) /\ chunksize(h, r) >= MINSIZE}

TooLargeIsEmpty(h, i) == i > fastbin_index(h.mp.max_fast) => h.fast[i] = <<>>

FastbinIsSound(h, i) ==
  /\ TooLargeIsEmpty(h, i)
  /\ \A p \in ToSet(h.fast[i]) : do_check_inuse_chunk(h, p) /\ fastbin_index(chunksize(h, p)) = i

IsMarked(h, b) == (b >= 2 /\ h.bins[b] # <<>>) => b \in h.binmap

BinIsSound(h, b) ==
  LET bin == h.bins[b]
  IN /\ IsMarked(h, b)
     /\ \A k \in DOMAIN bin :
          /\ do_check_free_chunk(h, bin[k])
          /\ b >= 2 => bin_index(chunksize(h, bin[k])) = b
          /\ (b >= 2 /\ k > 1) => chunksize(h, bin[k - 1]) >= chunksize(h, bin[k])
          /\ \A q \in Behind(h, bin[k]) : do_check_inuse_chunk(h, q)

do_check_malloc_state(h) ==
  h.top # 0 =>
    /\ h.contiguous => h.mp.sbrk_base + h.system_mem = next_chunk(h, h.top)
    /\ h.mp.max_fast <= request2size(MAX_FAST_SIZE)
    /\ \A i \in DOMAIN h.fast : FastbinIsSound(h, i)
    /\ \A b \in DOMAIN h.bins : BinIsSound(h, b)
    /\ do_check_chunk(h, h.top)
===============================================================================
