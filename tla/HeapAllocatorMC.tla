---------------------------- MODULE HeapAllocatorMC ----------------------------
(***************************************************************************)
(* Small instances of HeapAllocator.  A header is 1 unit, a page 4, the    *)
(* smallest region two pages, as in the code; the smallest capacity is 2,  *)
(* so that a fresh region (capacity 7) splits into two blocks at most and  *)
(* two merged regions into five.                                           *)
(***************************************************************************)
EXTENDS HeapAllocator

(* 0: raised to the minimum; 3: splits a region; 8: larger than a fresh    *)
(* region, so grow_heap needs two; SizeMod - 1: the size arithmetic wraps. *)
MCQueries == {0, 3, 8, SizeMod - 1}
MCInitSizes == {0, SizeMod - 1}

(* In the way of the fallback below the heap, at HEAP_START itself, and    *)
(* where grow_heap asks for the second region.                             *)
MCForeignPages == {8, 12, 20}
===============================================================================
