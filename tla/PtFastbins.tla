------------------------------ MODULE PtFastbins ------------------------------
(***************************************************************************)
(* Threads that share an arena of ptmalloc.  free pushes a chunk on its    *)
(* fastbin by compare-and-exchange, without the lock of the arena; malloc  *)
(* pops chunks, and malloc_consolidate takes whole bins, with it.  A step  *)
(* is one access to memory that other threads reach: the head of a bin,    *)
(* the fd of a chunk, have_fastchunks, the lock.                           *)
(***************************************************************************)
EXTENDS Integers, Sequences, SequencesExt, FiniteSets

CONSTANTS
  Threads, NoThread,
  Chunks,       (* chunks of fastbin sizes; they keep their sizes          *)
  NFASTBINS,
  Index,        (* chunk |-> fastbin_index of its size                     *)
  NULL,
  Garbage,      (* what clients and other lists write where fd is          *)
  tcache_count,
  Starts,       (* what the bins may hold at the start                     *)
  MaxCalls      (* calls of each thread                                    *)

Bins == 0 .. NFASTBINS - 1

ASSUME PtFastbinsAssumption ==
  /\ NFASTBINS \in Nat \ {0} /\ Index \in [Chunks -> Bins]
  /\ tcache_count \in Nat /\ MaxCalls \in Nat /\ IsFiniteSet(Chunks)
  /\ NoThread \notin Threads /\ NULL \notin Chunks /\ Garbage \notin Chunks
  /\ \A s \in Starts : s \in [Bins -> Seq(Chunks)] /\
       \A b \in Bins : IsInjective(s[b]) /\ \A c \in ToSet(s[b]) : Index[c] = b

VARIABLES
  fastbins,         (* bin |-> its first chunk                             *)
  fd,               (* chunk |-> the next in its list                      *)
  have_fastchunks,
  mutex,            (* the thread that holds the lock of the arena         *)
  arena,            (* free chunks in the other bins, and in top           *)
  tcache,           (* thread |-> bin |-> the chunks it keeps              *)
  held,             (* chunks that clients hold; any thread may free them  *)
  thread,           (* thread |-> where it is, and its local variables     *)
  calls, aborted

vars == <<fastbins, fd, have_fastchunks, mutex, arena, tcache, held, thread, calls, aborted>>

(* p: the chunk that is freed, popped or consolidated; next: old in free,  *)
(* pp in malloc; b: the bin of the call; fb: the bin that is consolidated. *)
Idle == [pc |-> "idle", op |-> "none", b |-> 0, fb |-> 0, p |-> NULL, next |-> NULL, got |-> NULL]

Linked(list) == [c \in ToSet(list) |->
                   LET i == CHOOSE k \in DOMAIN list : list[k] = c
                   IN IF i = Len(list) THEN NULL ELSE list[i + 1]]

Init ==
  /\ \E s \in Starts :
       LET filled == UNION {ToSet(s[b]) : b \in Bins}
       IN /\ fastbins = [b \in Bins |-> IF s[b] = <<>> THEN NULL ELSE Head(s[b])]
          /\ fd = [c \in Chunks |-> IF c \in filled THEN Linked(s[Index[c]])[c] ELSE Garbage]
          /\ have_fastchunks = (filled # {})
          /\ held = Chunks \ filled
  /\ mutex = NoThread /\ arena = {}
  /\ tcache = [t \in Threads |-> [b \in Bins |-> <<>>]]
  /\ thread = [t \in Threads |-> Idle]
  /\ calls = [t \in Threads |-> 0] /\ aborted = FALSE
-------------------------------------------------------------------------------
At(t, pc) == ~aborted /\ thread[t].pc = pc

Call(t) == At(t, "idle") /\ calls[t] < MaxCalls /\ calls' = [calls EXCEPT ![t] = @ + 1]

Keep(t, b, c) == tcache' = [tcache EXCEPT ![t][b] = <<c>> \o @]

(* free: into the thread's cache, or else onto the fastbin.                *)
Free(t, c) ==
  /\ Call(t) /\ c \in held /\ held' = held \ {c}
  /\ IF Len(tcache[t][Index[c]]) < tcache_count
     THEN Keep(t, Index[c], c) /\ fd' = [fd EXCEPT ![c] = Garbage] /\ UNCHANGED thread
     ELSE /\ thread' = [thread EXCEPT ![t] = [Idle EXCEPT !.pc = "flag", !.op = "free", !.b = Index[c], !.p = c]]
          /\ UNCHANGED <<tcache, fd>>
  /\ UNCHANGED <<fastbins, have_fastchunks, mutex, arena, aborted>>

RaiseFlag(t) ==
  /\ At(t, "flag")
  /\ have_fastchunks' = TRUE
  /\ thread' = [thread EXCEPT ![t].pc = "head"]
  /\ UNCHANGED <<fastbins, fd, mutex, arena, tcache, held, calls, aborted>>

ReadHead(t) ==
  /\ At(t, "head")
  /\ thread' = [thread EXCEPT ![t].pc = "link", ![t].next = fastbins[thread[t].b]]
  /\ UNCHANGED <<fastbins, fd, have_fastchunks, mutex, arena, tcache, held, calls, aborted>>

(* "double free or corruption (fasttop)" if p is the first chunk already.  *)
Link(t) ==
  /\ At(t, "link")
  /\ aborted' = (thread[t].next = thread[t].p)
  /\ fd' = [fd EXCEPT ![thread[t].p] = thread[t].next]
  /\ thread' = [thread EXCEPT ![t].pc = "push"]
  /\ UNCHANGED <<fastbins, have_fastchunks, mutex, arena, tcache, held, calls>>

(* Mutant: after a failed exchange fd is not written again. *)
PushStale(t) ==
  /\ At(t, "push")
  /\ IF fastbins[thread[t].b] = thread[t].next
     THEN /\ fastbins' = [fastbins EXCEPT ![thread[t].b] = thread[t].p]
          /\ thread' = [thread EXCEPT ![t] = Idle]
     ELSE thread' = [thread EXCEPT ![t].next = fastbins[thread[t].b]] /\ UNCHANGED fastbins
  /\ UNCHANGED <<fd, have_fastchunks, mutex, arena, tcache, held, calls, aborted>>

Push(t) ==
  /\ At(t, "push")
  /\ IF fastbins[thread[t].b] = thread[t].next
     THEN /\ fastbins' = [fastbins EXCEPT ![thread[t].b] = thread[t].p]
          /\ thread' = [thread EXCEPT ![t] = Idle]
     ELSE /\ thread' = [thread EXCEPT ![t].pc = "link", ![t].next = fastbins[thread[t].b]]
          /\ UNCHANGED fastbins
  /\ UNCHANGED <<fd, have_fastchunks, mutex, arena, tcache, held, calls, aborted>>
-------------------------------------------------------------------------------
(* malloc of a size of bin b: from the thread's cache, or else from the    *)
(* arena, whose lock it takes.                                             *)
Malloc(t, b) ==
  /\ Call(t)
  /\ IF tcache[t][b] # <<>>
     THEN /\ tcache' = [tcache EXCEPT ![t][b] = Tail(@)]
          /\ held' = held \union {Head(tcache[t][b])} /\ UNCHANGED thread
     ELSE /\ thread' = [thread EXCEPT ![t] = [Idle EXCEPT !.pc = "lock", !.op = "malloc", !.b = b]]
          /\ UNCHANGED <<tcache, held>>
  /\ UNCHANGED <<fastbins, fd, have_fastchunks, mutex, arena, aborted>>

(* A large malloc or free merges the fast chunks if the flag is up, and    *)
(* malloc_trim and mallopt do so always.                                   *)
Consolidation(t, op) ==
  /\ Call(t)
  /\ thread' = [thread EXCEPT ![t] = [Idle EXCEPT !.pc = "lock", !.op = op]]
  /\ UNCHANGED <<fastbins, fd, have_fastchunks, mutex, arena, tcache, held, aborted>>

Entry(op) == CASE op = "malloc" -> "front" [] op = "large" -> "check" [] op = "trim" -> "clear"

(* Mutant: two threads in the arena. *)
LockBroken(t) ==
  /\ At(t, "lock")
  /\ mutex' = t
  /\ thread' = [thread EXCEPT ![t].pc = Entry(thread[t].op)]
  /\ UNCHANGED <<fastbins, fd, have_fastchunks, arena, tcache, held, calls, aborted>>

Lock(t) ==
  /\ At(t, "lock") /\ mutex = NoThread
  /\ mutex' = t
  /\ thread' = [thread EXCEPT ![t].pc = Entry(thread[t].op)]
  /\ UNCHANGED <<fastbins, fd, have_fastchunks, arena, tcache, held, calls, aborted>>

(* REMOVE_FB: the head is read, its fd, and the head is exchanged for it.  *)
ReadFront(t) ==
  /\ At(t, "front")
  /\ thread' = [thread EXCEPT ![t].p = fastbins[thread[t].b],
                              ![t].pc = IF fastbins[thread[t].b] = NULL THEN "search" ELSE "reveal"]
  /\ UNCHANGED <<fastbins, fd, have_fastchunks, mutex, arena, tcache, held, calls, aborted>>

Reveal(t) ==
  /\ At(t, "reveal")
  /\ thread' = [thread EXCEPT ![t].next = fd[thread[t].p], ![t].pc = "pop"]
  /\ UNCHANGED <<fastbins, fd, have_fastchunks, mutex, arena, tcache, held, calls, aborted>>

(* The first chunk is the caller's, those after it go into its cache.      *)
Pop(t) ==
  LET me == thread[t] head == fastbins[me.b]
  IN /\ At(t, "pop") /\ head = me.p
     /\ fastbins' = [fastbins EXCEPT ![me.b] = me.next]
     /\ IF me.got = NULL
        THEN thread' = [thread EXCEPT ![t].got = me.p, ![t].pc = "more"] /\ UNCHANGED <<tcache, fd>>
        ELSE /\ Keep(t, me.b, me.p) /\ fd' = [fd EXCEPT ![me.p] = Garbage]
             /\ thread' = [thread EXCEPT ![t].pc = "more"]
     /\ UNCHANGED <<have_fastchunks, mutex, arena, held, calls, aborted>>

PopFails(t) ==
  LET me == thread[t] head == fastbins[me.b]
  IN /\ At(t, "pop") /\ head # me.p
     /\ thread' = [thread EXCEPT ![t].p = head, ![t].pc = IF head # NULL THEN "reveal"
                                                          ELSE IF me.got = NULL THEN "search" ELSE "unlock"]
     /\ UNCHANGED <<fastbins, fd, have_fastchunks, mutex, arena, tcache, held, calls, aborted>>

More(t) ==
  LET b == thread[t].b
  IN /\ At(t, "more")
     /\ thread' =
          IF Len(tcache[t][b]) < tcache_count /\ fastbins[b] # NULL
          THEN [thread EXCEPT ![t].p = fastbins[b], ![t].pc = "reveal"]
          ELSE [thread EXCEPT ![t].pc = "unlock"]
     /\ UNCHANGED <<fastbins, fd, have_fastchunks, mutex, arena, tcache, held, calls, aborted>>

(* The rest of _int_malloc: a chunk of the other bins or top, with others  *)
(* of its size for the cache, or else the fast chunks are merged and all   *)
(* is tried again.                                                         *)
Fits(t) == {c \in arena : Index[c] = thread[t].b}

Search(t) ==
  /\ At(t, "search")
  /\ \E c \in Fits(t) : \E rest \in SUBSET (Fits(t) \ {c}) :
       /\ Len(tcache[t][thread[t].b]) + Cardinality(rest) <= tcache_count
       /\ arena' = arena \ (rest \union {c})
       /\ tcache' = [tcache EXCEPT ![t][thread[t].b] = SetToSeq(rest) \o @]
       /\ thread' = [thread EXCEPT ![t].got = c, ![t].pc = "unlock"]
  /\ UNCHANGED <<fastbins, fd, have_fastchunks, mutex, held, calls, aborted>>

SearchFails(t) ==
  /\ At(t, "search") /\ Fits(t) = {}
  /\ thread' = [thread EXCEPT ![t].pc = IF have_fastchunks THEN "clear" ELSE "unlock"]
  /\ UNCHANGED <<fastbins, fd, have_fastchunks, mutex, arena, tcache, held, calls, aborted>>

(* Mutant: nobody waits for what returns without a chunk. *)
UnlockIfServed(t) ==
  /\ At(t, "unlock")
  /\ mutex' = IF thread[t].op = "malloc" /\ thread[t].got = NULL THEN mutex ELSE NoThread
  /\ held' = held \union ({thread[t].got} \ {NULL})
  /\ fd' = [c \in Chunks |-> IF c = thread[t].got THEN Garbage ELSE fd[c]]
  /\ thread' = [thread EXCEPT ![t] = Idle]
  /\ UNCHANGED <<fastbins, have_fastchunks, arena, tcache, calls, aborted>>

Unlock(t) ==
  /\ At(t, "unlock")
  /\ mutex' = NoThread
  /\ held' = held \union ({thread[t].got} \ {NULL})
  /\ fd' = [c \in Chunks |-> IF c = thread[t].got THEN Garbage ELSE fd[c]]
  /\ thread' = [thread EXCEPT ![t] = Idle]
  /\ UNCHANGED <<fastbins, have_fastchunks, arena, tcache, calls, aborted>>
-------------------------------------------------------------------------------
(* malloc_consolidate *)
Check(t) ==
  /\ At(t, "check")
  /\ thread' = [thread EXCEPT ![t].pc = IF have_fastchunks THEN "clear" ELSE "unlock"]
  /\ UNCHANGED <<fastbins, fd, have_fastchunks, mutex, arena, tcache, held, calls, aborted>>

Clear(t) ==
  /\ At(t, "clear")
  /\ have_fastchunks' = FALSE
  /\ thread' = [thread EXCEPT ![t].pc = "exchange", ![t].fb = 0]
  /\ UNCHANGED <<fastbins, fd, mutex, arena, tcache, held, calls, aborted>>

(* Where the thread goes from bin fb with the rest p of its list.          *)
Onward(me, p) ==
  IF p # NULL THEN [me EXCEPT !.p = p, !.pc = "merge"]
  ELSE IF me.fb < NFASTBINS - 1 THEN [me EXCEPT !.p = NULL, !.fb = @ + 1, !.pc = "exchange"]
  ELSE [me EXCEPT !.p = NULL, !.pc = IF me.op = "malloc" THEN "search" ELSE "unlock"]

Exchange(t) ==
  LET fb == thread[t].fb
  IN /\ At(t, "exchange")
     /\ fastbins' = [fastbins EXCEPT ![fb] = NULL]
     /\ thread' = [thread EXCEPT ![t] = Onward(@, fastbins[fb])]
     /\ UNCHANGED <<fd, have_fastchunks, mutex, arena, tcache, held, calls, aborted>>

(* "malloc_consolidate(): invalid chunk size" if p is not of bin fb.       *)
MergeChunk(t) ==
  LET p == thread[t].p
  IN /\ At(t, "merge")
     /\ aborted' = (Index[p] # thread[t].fb)
     /\ arena' = arena \union {p}
     /\ fd' = [fd EXCEPT ![p] = Garbage]
     /\ thread' = [thread EXCEPT ![t] = Onward(@, fd[p])]
     /\ UNCHANGED <<fastbins, have_fastchunks, mutex, tcache, held, calls>>
-------------------------------------------------------------------------------
Step(t) ==
  \/ RaiseFlag(t) \/ ReadHead(t) \/ Link(t) \/ Push(t)
  \/ Lock(t) \/ ReadFront(t) \/ Reveal(t) \/ Pop(t) \/ PopFails(t) \/ More(t)
  \/ Search(t) \/ SearchFails(t) \/ Unlock(t)
  \/ Check(t) \/ Clear(t) \/ Exchange(t) \/ MergeChunk(t)

Next ==
  \E t \in Threads :
    \/ \E c \in Chunks : Free(t, c)
    \/ \E b \in Bins : Malloc(t, b)
    \/ \E op \in {"large", "trim"} : Consolidation(t, op)
    \/ Step(t)

Spec == Init /\ [][Next]_vars

(* A thread inside a call keeps running; nobody is obliged to call.        *)
FairSpec == Spec /\ \A t \in Threads : WF_vars(Step(t))
-------------------------------------------------------------------------------
(* Properties.                                                             *)

(* The list that begins at c, as the links of f lead.                      *)
Extend(f, c, s) ==
  LET next == IF s = <<>> THEN c ELSE f[Last(s)]
  IN IF next \in Chunks THEN Append(s, next) ELSE s

Walk(f, c) ==
  LET walk[n \in 0 .. Cardinality(Chunks)] == IF n = 0 THEN <<>> ELSE Extend(f, c, walk[n - 1])
  IN walk

Chain(f, c) == Walk(f, c)[Cardinality(Chunks)]

(* It ends, and has no chunk twice.                                        *)
Nth(s, k) == IF k \in DOMAIN s THEN s[k] ELSE NULL

IsList(f, c, s) ==
  /\ s \in Seq(Chunks) /\ IsInjective(s)
  /\ c = Nth(s, 1) /\ \A k \in DOMAIN s : f[s[k]] = Nth(s, k + 1)

(* Where a chunk can be.  A thread has in its hands the chunk that it is   *)
(* about to push, the list that it merges, and the chunk that its call is  *)
(* going to return.                                                        *)
Freeing(t) == thread[t].pc \in {"flag", "head", "link", "push"}
Merging(t) == thread[t].pc = "merge"

Places ==
  {<<"client">>, <<"arena">>} \union ({"bin"} \X Bins) \union ({"cache"} \X Threads \X Bins) \union
  ({"free", "merge", "got"} \X Threads)

Contents(w) ==
  CASE w[1] = "client" -> held
    [] w[1] = "arena" -> arena
    [] w[1] = "bin" -> ToSet(Chain(fd, fastbins[w[2]]))
    [] w[1] = "cache" -> ToSet(tcache[w[2]][w[3]])
    [] w[1] = "free" -> {c \in Chunks : Freeing(w[2]) /\ thread[w[2]].p = c}
    [] w[1] = "merge" -> IF Merging(w[2]) THEN ToSet(Chain(fd, thread[w[2]].p)) ELSE {}
    [] w[1] = "got" -> {thread[w[2]].got} \ {NULL}

ListsEnd ==
  /\ \A b \in Bins : IsList(fd, fastbins[b], Chain(fd, fastbins[b]))
  /\ \A t \in Threads : Merging(t) => IsList(fd, thread[t].p, Chain(fd, thread[t].p))

(* Every chunk is in exactly one place (a client, a bin, a cache, another  *)
(* bin of the arena, or the hands of one thread) at every moment of every  *)
(* interleaving, the lists are what the fds say, and neither check of the  *)
(* code fails: nothing is lost or handed out twice, although free takes no *)
(* lock (the loop of _int_free, REMOVE_FB, malloc_consolidate).            *)
EveryChunkOnce ==
  /\ ~aborted /\ ListsEnd
  /\ \A t \in Threads, b \in Bins : IsInjective(tcache[t][b])
  /\ \A c \in Chunks : Cardinality({w \in Places : c \in Contents(w)}) = 1

(* Every call returns: no thread waits for ever for the lock, and no loop  *)
(* of exchanges goes on for ever once the others have made their calls.    *)
CallsReturn == \A t \in Threads : thread[t].pc # "idle" ~> thread[t].pc = "idle"

(* The bins are stacks whose operations happen at the moment of the        *)
(* exchange, and clients get chunks that nobody has.                       *)
Stacks ==
  INSTANCE PtStacks WITH
    stacks <- [b \in Bins |-> Chain(fd, fastbins[b])], granted <- held

BinsAreStacks == Stacks!SSpec
===============================================================================
