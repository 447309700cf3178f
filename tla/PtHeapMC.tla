------------------------------- MODULE PtHeapMC -------------------------------
EXTENDS PtHeap

(* The parameters of malloc at the start: without the cache of the thread  *)
(* and with a low threshold for mappings; with one chunk of each size in   *)
(* the cache and fewer fast sizes.                                         *)
MCParams ==
  LET Of(max_fast, threshold, n) ==
        [max_fast |-> max_fast, trim_threshold |-> 16, top_pad |-> 0,
         mmap_threshold |-> threshold, n_mmaps |-> 0, n_mmaps_max |-> 2, mmapped_mem |-> 0,
         no_dyn_threshold |-> FALSE, sbrk_base |-> 0,
         tcache_count |-> n, tcache_unsorted_limit |-> n]
  IN {Of(MaxFastOf(5), 12, 0), Of(MaxFastOf(3), 24, 1)}

(* An empty heap; one with chunks in the cache, the fastbins and unsorted; *)
(* one with sorted large and small bins; one that has mappings.            *)
MCHistories ==
  {<<>>,
   <<1, 5, 1, 5, 1, 7, 1, 7, 1, -2, -4, -6, -8, -1, -3>>,
   <<11, 1, 9, 1, 7, -1, -3, 13, 1>>,
   <<11, 11, 23, 9, -3>>}

MCSizes == {1, 5, 11, 23}
MCFewSizes == {9}
MCAlignments == {4, 8}
MCSettings == {<<"max_fast", 0>>, <<"top_pad", 8>>}
===============================================================================
