------------------------------- MODULE IOCache -------------------------------
(***************************************************************************)
(* io-cache's Cache.cpp: a block cache in user space shared by the threads *)
(* of a program, over the files of a kernel.  One action per iteration of  *)
(* a loop under cache.lock; lseek, open and close(fd) take no lock.  The   *)
(* position of a descriptor is the kernel's: lab2_read and lab2_write look *)
(* it up and do not move it.  A file is a sequence of cells, BLOCK_SIZE of *)
(* them to a block.                                                        *)
(***************************************************************************)
EXTENDS Integers, SequencesExt

CONSTANTS
  Threads, Files,
  Fds,            (* the descriptors a process may have                    *)
  Values,         (* cells clients write                                   *)
  Junk,           (* a cell of memory nobody has written                   *)
  BLOCK_SIZE, CACHE_CAPACITY,
  FileSize,       (* cells of every file at first                          *)
  Counts,         (* sizes of reads and writes                             *)
  Positions,      (* where clients seek to                                 *)
  Liberties,      (* what clients do that a careful one would not          *)
  Faults,         (* what may fail                                         *)
  NoThread, NoFile, NoFd, NoBlock, NoCall, Wild

(* "alias": open a file that is open already; "race": use a descriptor     *)
(* while or after it is closed; "beyond": seek past the end of the file.   *)
(* "pread": a load fails; "evict", "flush": the pwrite of evict_if_needed, *)
(* or of lab2_fsync and lab2_close, fails (EIO, ENOSPC, or EINVAL, as      *)
(* O_DIRECT wants whole sectors and valid_size need not be); "short":      *)
(* pwrite writes less than it was asked to.                                *)
ASSUME CacheAssumption ==
  /\ BLOCK_SIZE \in Nat \ {0} /\ CACHE_CAPACITY \in Nat \ {0}
  /\ Fds \subseteq Nat /\ FileSize \in Nat /\ Positions \subseteq Nat
  /\ Counts \subseteq Nat \ {0} /\ 0 \in Values /\ Junk \notin Values
  /\ NoThread \notin Threads /\ NoFile \notin Files /\ NoFd \notin Fds
  /\ Liberties \subseteq {"alias", "race", "beyond"}
  /\ Faults \subseteq {"pread", "evict", "flush", "short"}

Cells == Values \union {Junk}
Block == [fd : Fds, offset : Nat, data : [1 .. BLOCK_SIZE -> Cells],
          valid_size : 1 .. BLOCK_SIZE, is_dirty : BOOLEAN]
Call == [op : {"read", "write", "fsync", "close"}, fd : Fds, at : Nat, left : Nat,
         val : Values, got : Seq(Cells)]

FileRequest == [op : {"read", "write"}, file : Files, at : Nat, left : Nat,
                val : Values, got : Seq(Cells)]

ASSUME SentinelAssumption ==
  /\ NoBlock \notin Block
  /\ NoCall \notin Call \union FileRequest /\ Wild \notin Call \union {NoCall}

VARIABLES
  disk,      (* file |-> its cells, as the kernel has them                 *)
  fdfile,    (* descriptor |-> the file it is open on, or NoFile           *)
  pos,       (* descriptor |-> the kernel's position                       *)
  blocks,    (* cache.blocks                                               *)
  size,      (* cache.size                                                 *)
  leaked,    (* blocks erased from cache.blocks without being freed        *)
  lock,      (* the thread that has cache.lock, or NoThread                *)
  call,      (* the call of that thread: arguments and loop variables      *)
  fresh,     (* the block load_block returned, until add_block has put it  *)
  closing    (* thread |-> the descriptor it is about to close, or NoFd    *)

kernel == <<disk, fdfile, pos>>
cache == <<blocks, size, leaked>>
vars == <<disk, fdfile, pos, blocks, size, leaked, lock, call, fresh, closing>>
-------------------------------------------------------------------------------
(* The kernel. *)
LowestFree(fd) == fdfile[fd] = NoFile /\ \A e \in Fds : fdfile[e] = NoFile => fd <= e

Overwrite(s, at, cells) ==
  [i \in 1 .. (IF at + Len(cells) > Len(s) THEN at + Len(cells) ELSE Len(s)) |->
     IF i > at /\ i <= at + Len(cells) THEN cells[i - at] ELSE IF i <= Len(s) THEN s[i] ELSE 0]

(* Mutant: pwrite of the whole block, valid or not. *)
TransfersWhole(b) == {BLOCK_SIZE}

(* pwrite of the valid part of a block: all of it or, with "short", less. *)
Transfers(b) == {b.valid_size} \union (IF "short" \in Faults THEN 1 .. b.valid_size ELSE {})

Pwrite(b) ==
  /\ fdfile[b.fd] # NoFile
  /\ \E n \in Transfers(b) :
       disk' = [disk EXCEPT ![fdfile[b.fd]] = Overwrite(@, b.offset, SubSeq(b.data, 1, n))]

PwriteFails(b, site) == site \in Faults \/ fdfile[b.fd] = NoFile

(* pread of the block of f at offset o: min(BLOCK_SIZE, what is there). *)
Smaller(m, n) == IF m < n THEN m ELSE n
Pread(f, o) == SubSeq(disk[f], o + 1, Smaller(o + BLOCK_SIZE, Len(disk[f])))
-------------------------------------------------------------------------------
(* The file as the cache holds it: its cached blocks over the disk. *)
Holding(f, c) ==
  {i \in DOMAIN blocks : /\ fdfile[blocks[i].fd] = f
                         /\ blocks[i].offset < c /\ c <= blocks[i].offset + blocks[i].valid_size}

Contents(f) ==
  LET ends == {Len(disk[f])} \union
              {blocks[i].offset + blocks[i].valid_size : i \in {j \in DOMAIN blocks : fdfile[blocks[j].fd] = f}}
  IN [c \in 1 .. Max(ends) |->
        IF Holding(f, c) = {} THEN disk[f][c]
        ELSE LET b == blocks[Min(Holding(f, c))] IN b.data[c - b.offset]]
-------------------------------------------------------------------------------
Init ==
  /\ disk = [f \in Files |-> [i \in 1 .. FileSize |-> 0]]
  /\ fdfile = [fd \in Fds |-> NoFile] /\ pos = [fd \in Fds |-> 0]
  /\ blocks = <<>> /\ size = 0 /\ leaked = <<>>
  /\ lock = NoThread /\ call = NoCall /\ fresh = NoBlock
  /\ closing = [t \in Threads |-> NoFd]

Usable(fd) ==
  /\ fdfile[fd] # NoFile
  /\ "race" \in Liberties \/ \A t \in Threads : closing[t] # fd

(* lab2_open *)
Open(f) ==
  /\ "alias" \in Liberties \/ \A fd \in Fds : fdfile[fd] # f
  /\ \E fd \in Fds : LowestFree(fd) /\ fdfile' = [fdfile EXCEPT ![fd] = f]
                                    /\ pos' = [pos EXCEPT ![fd] = 0]
  /\ UNCHANGED <<disk, cache, lock, call, fresh, closing>>

(* lab2_lseek, by any thread at any time. *)
Lseek(fd, p) ==
  /\ Usable(fd)
  /\ "beyond" \in Liberties \/ p <= Len(Contents(fdfile[fd]))
  /\ pos' = [pos EXCEPT ![fd] = p]
  /\ UNCHANGED <<disk, fdfile, cache, lock, call, fresh, closing>>

(* A thread calls and gets cache.lock.  A read or write of a descriptor    *)
(* that is not open stops at lseek, with nothing changed.                  *)
Enter(t, c) ==
  /\ lock = NoThread /\ closing[t] = NoFd
  /\ lock' = t /\ call' = c
  /\ UNCHANGED <<kernel, cache, fresh, closing>>

CallReadWrite(t, op, fd, n, v) ==
  /\ Usable(fd)
  /\ Enter(t, [op |-> op, fd |-> fd, at |-> pos[fd], left |-> n, val |-> v, got |-> <<>>])

CallFsyncClose(t, op, fd) ==
  /\ Usable(fd) \/ "race" \in Liberties
  /\ Enter(t, [op |-> op, fd |-> fd, at |-> 0, left |-> 0, val |-> 0, got |-> <<>>])

Running(t, ops) == lock = t /\ call \notin {NoCall, Wild} /\ call.op \in ops

(* pthread_mutex_unlock and return. *)
Unlock == lock' = NoThread /\ call' = NoCall
-------------------------------------------------------------------------------
(* The loops of lab2_read and lab2_write. *)
Looping(t, ops) == Running(t, ops) /\ fresh = NoBlock /\ call.left > 0

Within == call.at % BLOCK_SIZE
BlockOffset == call.at - Within
ToCopy == Smaller(BLOCK_SIZE - Within, call.left)

(* find_block: the first block of the descriptor at the offset. *)
IsBlock(i, fd, o) == blocks[i].fd = fd /\ blocks[i].offset = o
Found(i) ==
  /\ i \in DOMAIN blocks /\ IsBlock(i, call.fd, BlockOffset)
  /\ \A j \in 1 .. (i - 1) : ~IsBlock(j, call.fd, BlockOffset)
(* Mutant: find_block starts at the second block. *)
MissingBehindFirst == \A i \in DOMAIN blocks : i > 1 => ~IsBlock(i, call.fd, BlockOffset)

Missing == \A i \in DOMAIN blocks : ~IsBlock(i, call.fd, BlockOffset)

Loadable == fdfile[call.fd] # NoFile

(* load_block; the memory behind what pread returns is as aligned_alloc    *)
(* left it.  lab2_write makes the block dirty.                             *)
Load(t) ==
  /\ Looping(t, {"read", "write"}) /\ Missing /\ Loadable
  /\ LET cells == Pread(fdfile[call.fd], BlockOffset) IN
     /\ cells # <<>>
     /\ fresh' = [fd |-> call.fd, offset |-> BlockOffset, valid_size |-> Len(cells),
                  data |-> cells \o [i \in 1 .. (BLOCK_SIZE - Len(cells)) |-> Junk],
                  is_dirty |-> (call.op = "write")]
  /\ UNCHANGED <<kernel, cache, lock, call, closing>>

(* pread returns 0: the loop stops, for a write as for a read. *)
LoadAtEnd(t) ==
  /\ Looping(t, {"read", "write"}) /\ Missing /\ Loadable
  /\ Pread(fdfile[call.fd], BlockOffset) = <<>>
  /\ call' = [call EXCEPT !.left = 0]
  /\ UNCHANGED <<kernel, cache, lock, fresh, closing>>

LoadFails(t) ==
  /\ Looping(t, {"read", "write"}) /\ Missing
  /\ "pread" \in Faults \/ ~Loadable
  /\ Unlock
  /\ UNCHANGED <<kernel, cache, fresh, closing>>

(* delete_block and the erase of its caller. *)
Delete(i) ==
  /\ IF blocks[i].is_dirty THEN Pwrite(blocks[i]) ELSE UNCHANGED disk
  /\ size' = size - 1
  /\ blocks' = RemoveAt(blocks, i)
  /\ UNCHANGED leaked

(* One round of evict_if_needed. *)
Evicting(t) == Running(t, {"read", "write"}) /\ fresh # NoBlock /\ size >= CACHE_CAPACITY

Evict(t) ==
  /\ Evicting(t)
  /\ \E i \in DOMAIN blocks : Delete(i)
  /\ UNCHANGED <<fdfile, pos, lock, call, fresh, closing>>

(* The caller of delete_block erases the block all the same. *)
EvictFails(t) ==
  /\ Evicting(t)
  /\ \E i \in DOMAIN blocks :
       /\ blocks[i].is_dirty /\ PwriteFails(blocks[i], "evict")
       /\ blocks' = RemoveAt(blocks, i) /\ leaked' = Append(leaked, blocks[i])
  /\ UNCHANGED <<kernel, size, lock, call, fresh, closing>>

(* uniform_int_distribution(0, -1): no index is right.  The thread does    *)
(* not come back.                                                          *)
EvictNothing(t) ==
  /\ Evicting(t) /\ blocks = <<>>
  /\ call' = Wild
  /\ UNCHANGED <<kernel, cache, lock, fresh, closing>>

(* Mutant: add_block without cache.size++. *)
AddBlockUncounted(t) ==
  /\ Running(t, {"read", "write"}) /\ fresh # NoBlock /\ size < CACHE_CAPACITY
  /\ blocks' = Append(blocks, fresh) /\ fresh' = NoBlock
  /\ UNCHANGED <<kernel, size, leaked, lock, call, closing>>

AddBlock(t) ==
  /\ Running(t, {"read", "write"}) /\ fresh # NoBlock /\ size < CACHE_CAPACITY
  /\ blocks' = Append(blocks, fresh) /\ size' = size + 1 /\ fresh' = NoBlock
  /\ UNCHANGED <<kernel, leaked, lock, call, closing>>

(* min(bytes_to_copy, valid_size - within) in size_t: within a block that  *)
(* ends before the position the difference wraps.                          *)
ValidBytes(b) ==
  IF b.valid_size < Within THEN ToCopy ELSE Smaller(b.valid_size - Within, ToCopy)

ReadCopy(t) ==
  /\ Looping(t, {"read"})
  /\ \E i \in DOMAIN blocks :
       /\ Found(i)
       /\ LET n == ValidBytes(blocks[i]) IN
          call' = [call EXCEPT !.at = @ + n, !.left = IF n < ToCopy THEN 0 ELSE @ - n,
                     !.got = @ \o SubSeq(blocks[i].data, Within + 1, Within + n)]
  /\ UNCHANGED <<kernel, cache, lock, fresh, closing>>

WriteCopy(t) ==
  /\ Looping(t, {"write"})
  /\ \E i \in DOMAIN blocks :
       /\ Found(i)
       /\ blocks' = [blocks EXCEPT
            ![i].is_dirty = TRUE,
            ![i].data = Overwrite(@, Within, [j \in 1 .. ToCopy |-> call.val]),
            ![i].valid_size = IF Within + ToCopy > @ THEN Within + ToCopy ELSE @]
  /\ call' = [call EXCEPT !.at = @ + ToCopy, !.left = @ - ToCopy]
  /\ UNCHANGED <<kernel, size, leaked, lock, fresh, closing>>

Return(t) ==
  /\ Running(t, {"read", "write"}) /\ fresh = NoBlock /\ call.left = 0
  /\ Unlock
  /\ UNCHANGED <<kernel, cache, fresh, closing>>
-------------------------------------------------------------------------------
(* lab2_fsync: the dirty blocks of the descriptor, front to back.  The     *)
(* fsync(fd) behind the unlock leaves the modelled state alone.            *)
DirtyOf(fd) == {i \in DOMAIN blocks : blocks[i].fd = fd /\ blocks[i].is_dirty}
FirstOf(i, S) == i \in S /\ \A j \in S : i <= j

(* Mutant: the block is marked clean, but not written. *)
SyncBlockUnwritten(t) ==
  /\ Running(t, {"fsync"})
  /\ \E i \in DOMAIN blocks :
       /\ FirstOf(i, DirtyOf(call.fd))
       /\ blocks' = [blocks EXCEPT ![i].is_dirty = FALSE]
  /\ UNCHANGED <<kernel, size, leaked, lock, call, fresh, closing>>

SyncBlock(t) ==
  /\ Running(t, {"fsync"})
  /\ \E i \in DOMAIN blocks :
       /\ FirstOf(i, DirtyOf(call.fd))
       /\ Pwrite(blocks[i])
       /\ blocks' = [blocks EXCEPT ![i].is_dirty = FALSE]
  /\ UNCHANGED <<fdfile, pos, size, leaked, lock, call, fresh, closing>>

(* Mutant: the error path returns without the unlock. *)
SyncFailsHolding(t) ==
  /\ Running(t, {"fsync"})
  /\ \E i \in DirtyOf(call.fd) : FirstOf(i, DirtyOf(call.fd)) /\ PwriteFails(blocks[i], "flush")
  /\ call' = NoCall
  /\ UNCHANGED <<kernel, cache, lock, fresh, closing>>

SyncFails(t) ==
  /\ Running(t, {"fsync"})
  /\ \E i \in DirtyOf(call.fd) : FirstOf(i, DirtyOf(call.fd)) /\ PwriteFails(blocks[i], "flush")
  /\ Unlock
  /\ UNCHANGED <<kernel, cache, fresh, closing>>

SyncDone(t) ==
  /\ Running(t, {"fsync"}) /\ DirtyOf(call.fd) = {}
  /\ Unlock
  /\ UNCHANGED <<kernel, cache, fresh, closing>>

(* lab2_close: delete_block for each block of the descriptor, then         *)
(* close(fd) without the lock.                                             *)
(* Mutant: lab2_close deletes the dirty blocks only. *)
BlocksOfDirty(fd) == {i \in DOMAIN blocks : blocks[i].fd = fd /\ blocks[i].is_dirty}

BlocksOf(fd) == {i \in DOMAIN blocks : blocks[i].fd = fd}

CloseBlock(t) ==
  /\ Running(t, {"close"})
  /\ \E i \in DOMAIN blocks : FirstOf(i, BlocksOf(call.fd)) /\ Delete(i)
  /\ UNCHANGED <<fdfile, pos, lock, call, fresh, closing>>

CloseFails(t) ==
  /\ Running(t, {"close"})
  /\ \E i \in BlocksOf(call.fd) :
       FirstOf(i, BlocksOf(call.fd)) /\ blocks[i].is_dirty /\ PwriteFails(blocks[i], "flush")
  /\ Unlock
  /\ UNCHANGED <<kernel, cache, fresh, closing>>

CloseUnlock(t) ==
  /\ Running(t, {"close"}) /\ BlocksOf(call.fd) = {}
  /\ Unlock /\ closing' = [closing EXCEPT ![t] = call.fd]
  /\ UNCHANGED <<kernel, cache, fresh>>

CloseFd(t) ==
  /\ closing[t] # NoFd
  /\ fdfile' = [fdfile EXCEPT ![closing[t]] = NoFile]
  /\ closing' = [closing EXCEPT ![t] = NoFd]
  /\ UNCHANGED <<disk, pos, cache, lock, call, fresh>>
-------------------------------------------------------------------------------
Client ==
  \/ \E f \in Files : Open(f)
  \/ \E fd \in Fds, p \in Positions : Lseek(fd, p)
  \/ \E t \in Threads, fd \in Fds :
       \/ \E n \in Counts : CallReadWrite(t, "read", fd, n, 0)
       \/ \E n \in Counts, v \in Values : CallReadWrite(t, "write", fd, n, v)
       \/ \E op \in {"fsync", "close"} : CallFsyncClose(t, op, fd)

Step(t) ==
  \/ Load(t) \/ LoadAtEnd(t) \/ LoadFails(t)
  \/ Evict(t) \/ EvictFails(t) \/ EvictNothing(t) \/ AddBlock(t)
  \/ ReadCopy(t) \/ WriteCopy(t) \/ Return(t)
  \/ SyncBlock(t) \/ SyncFails(t) \/ SyncDone(t)
  \/ CloseBlock(t) \/ CloseFails(t) \/ CloseUnlock(t)
  \/ CloseFd(t)

Next == Client \/ \E t \in Threads : Step(t)

Spec == Init /\ [][Next]_vars

(* A thread inside a call keeps running; no client has to call. *)
FairSpec == Spec /\ \A t \in Threads : WF_vars(Step(t))
-------------------------------------------------------------------------------
(* PROPERTIES *)

TypeOK ==
  /\ disk \in [Files -> Seq(Cells)]
  /\ fdfile \in [Fds -> Files \union {NoFile}]
  /\ pos \in [Fds -> Nat]
  /\ blocks \in Seq(Block) /\ leaked \in Seq(Block)
  /\ size \in 0 .. CACHE_CAPACITY
  /\ lock \in Threads \union {NoThread}
  /\ call \in Call \union {NoCall, Wild}
  /\ fresh \in Block \union {NoBlock}
  /\ closing \in [Threads -> Fds \union {NoFd}]

(* A descriptor has at most one block at an offset, also while one is      *)
(* being loaded: find_block and add_block never see two copies of the      *)
(* same cells.                                                             *)
NoDuplicates ==
  /\ \A i, j \in DOMAIN blocks : i # j =>
       ~IsBlock(i, blocks[j].fd, blocks[j].offset)
  /\ fresh # NoBlock => \A i \in DOMAIN blocks : ~IsBlock(i, fresh.fd, fresh.offset)

(* cache.size counts the blocks in memory, in the vector or lost to a      *)
(* failed eviction: there are never more than CACHE_CAPACITY of them, and  *)
(* the counter never wraps.                                                *)
SizeCounts == size = Len(blocks) + Len(leaked)

(* lab2_close deletes a descriptor's blocks before close(fd): no block     *)
(* outlives its descriptor, to be written to whatever file the number      *)
(* names next.                                                             *)
NoOrphans == \A i \in DOMAIN blocks : fdfile[blocks[i].fd] # NoFile

(* When lab2_fsync of a descriptor is about to report success, every block *)
(* written through it, in the cache or lost from it, is on the disk.       *)
OnDisk(b) ==
  \A j \in 1 .. b.valid_size :
    /\ b.offset + j <= Len(disk[fdfile[b.fd]])
    /\ disk[fdfile[b.fd]][b.offset + j] = b.data[j]

SyncReachesDisk ==
  [][\A t \in Threads : SyncDone(t) =>
       /\ \A i \in DOMAIN blocks : blocks[i].fd = call.fd => OnDisk(blocks[i])
       /\ \A i \in DOMAIN leaked : leaked[i].fd = call.fd => OnDisk(leaked[i])]_vars

(* Every cell lab2_read returns is a cell of the file. *)
ReadsFileData ==
  call \notin {NoCall, Wild} => \A i \in DOMAIN call.got : call.got[i] # Junk

(* evict_if_needed always has a block to choose. *)
EvictionPicksABlock == call # Wild

(* Every call gives the lock back. *)
LockReleased == lock # NoThread ~> lock = NoThread

(* Through the cache, the library is FileContract: a file has its          *)
(* contents, and a call of lab2_read or lab2_write asks for cells of it.   *)
Data == [f \in Files |-> Contents(f)]

Request ==
  IF call \in {NoCall, Wild} \/ call.op \in {"fsync", "close"} THEN NoCall
  ELSE [op |-> call.op, file |-> fdfile[call.fd], at |-> call.at,
        left |-> call.left, val |-> call.val, got |-> call.got]

Contract == INSTANCE FileContract WITH data <- Data, NoRequest <- NoCall, request <- Request

ContractSpec == Contract!CSpec
===============================================================================
