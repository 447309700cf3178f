---------------------------- MODULE IOCacheProofs ----------------------------
(***************************************************************************)
(* Theorems about IOCache, for any number of threads, files, descriptors   *)
(* and cells, any block size and capacity, and any choice of what clients  *)
(* and the kernel do.                                                      *)
(***************************************************************************)
EXTENDS IOCache, SequenceTheorems, WellFoundedInduction, TLAPS

(***************************************************************************)
(* Sequences.                                                              *)
(***************************************************************************)
LEMMA FunctionIsSeq ==
  ASSUME NEW S, NEW n \in Nat, NEW f \in [1 .. n -> S]
  PROVE  f \in Seq(S) /\ Len(f) = n
  OBVIOUS

LEMMA RemoveAtProperties ==
  ASSUME NEW S, NEW s \in Seq(S), NEW i \in 1 .. Len(s)
  PROVE  /\ RemoveAt(s, i) \in Seq(S)
         /\ Len(RemoveAt(s, i)) = Len(s) - 1
         /\ \A j \in 1 .. (Len(s) - 1) : RemoveAt(s, i)[j] = s[IF j < i THEN j ELSE j + 1]
<1> DEFINE a == SubSeq(s, 1, i - 1)
           b == SubSeq(s, i + 1, Len(s))
<1>1. /\ Len(s) \in Nat /\ i - 1 \in Int /\ i + 1 \in Int
      /\ \A j \in 1 .. (i - 1) : s[j] \in S
      /\ \A j \in (i + 1) .. Len(s) : s[j] \in S
      OBVIOUS
<1>2. /\ a \in Seq(S) /\ Len(a) = i - 1
      /\ \A j \in 1 .. (i - 1) : a[j] = s[j]
      BY <1>1, SubSeqProperties
<1>3. /\ b \in Seq(S) /\ Len(b) = Len(s) - i
      /\ \A j \in 1 .. (Len(s) - i) : b[j] = s[j + i]
      BY <1>1, SubSeqProperties
<1> HIDE DEF a, b
<1>4. /\ a \o b \in Seq(S) /\ Len(a \o b) = Len(a) + Len(b)
      /\ \A j \in 1 .. Len(a) + Len(b) : (a \o b)[j] = IF j <= Len(a) THEN a[j] ELSE b[j - Len(a)]
      BY <1>2, <1>3, ConcatProperties
<1>5. RemoveAt(s, i) = a \o b
      BY DEF RemoveAt, a, b
<1>6. ASSUME NEW j \in 1 .. (Len(s) - 1)
      PROVE  (a \o b)[j] = s[IF j < i THEN j ELSE j + 1]
  <2>1. CASE j < i
    BY <2>1, <1>1, <1>2, <1>3, <1>4
  <2>2. CASE ~(j < i)
    <3>1. (a \o b)[j] = b[j - (i - 1)]
      BY <2>2, <1>1, <1>2, <1>3, <1>4
    <3>2. b[j - (i - 1)] = s[(j - (i - 1)) + i]
      BY <2>2, <1>1, <1>3
    <3> QED BY <3>1, <3>2, <2>2, <1>1
  <2> QED BY <2>1, <2>2
<1>7. Len(a \o b) = Len(s) - 1
      BY <1>1, <1>2, <1>3, <1>4
<1> QED BY <1>4, <1>5, <1>6, <1>7

(* What is put over a sequence leaves a sequence of cells. *)
LEMMA OverwriteType ==
  ASSUME NEW s \in Seq(Cells), NEW at \in Nat, NEW c \in Seq(Cells)
  PROVE  /\ Overwrite(s, at, c) \in Seq(Cells)
         /\ Len(Overwrite(s, at, c)) = IF at + Len(c) > Len(s) THEN at + Len(c) ELSE Len(s)
<1> DEFINE n == IF at + Len(c) > Len(s) THEN at + Len(c) ELSE Len(s)
<1>1. n \in Nat /\ 0 \in Cells
      BY CacheAssumption DEF Cells
<1>2. \A i \in 1 .. n :
        (IF i > at /\ i <= at + Len(c) THEN c[i - at] ELSE IF i <= Len(s) THEN s[i] ELSE 0) \in Cells
      BY <1>1
<1>3. Overwrite(s, at, c) \in [1 .. n -> Cells]
      BY <1>2 DEF Overwrite
<1> QED BY <1>1, <1>3, FunctionIsSeq

(***************************************************************************)
(* The bookkeeping invariant: the three properties of the runs with any    *)
(* client and any fault are inductive together.                            *)
(***************************************************************************)
Inv == TypeOK /\ NoDuplicates /\ SizeCounts

LEMMA InitInv == Init => Inv
<1> SUFFICES ASSUME Init PROVE Inv
  OBVIOUS
<1>1. ASSUME NEW f \in Files PROVE [i \in 1 .. FileSize |-> 0] \in Seq(Cells)
  BY FunctionIsSeq, CacheAssumption DEF Cells
<1>2. disk \in [Files -> Seq(Cells)]
  BY <1>1 DEF Init
<1>3. /\ blocks \in Seq(Block) /\ leaked \in Seq(Block)
      /\ Len(blocks) = 0 /\ Len(leaked) = 0 /\ DOMAIN blocks = {}
  BY DEF Init
<1>4. TypeOK
  BY <1>2, <1>3, CacheAssumption DEF Init, TypeOK
<1> QED BY <1>3, <1>4 DEF Init, Inv, NoDuplicates, SizeCounts

(* NoDuplicates for a given vector and a given block. *)
Distinct(bs) ==
  \A i, j \in DOMAIN bs : i # j => ~(bs[i].fd = bs[j].fd /\ bs[i].offset = bs[j].offset)

Absent(b, bs) == \A i \in DOMAIN bs : ~(bs[i].fd = b.fd /\ bs[i].offset = b.offset)

(* Each block of the new vector has the descriptor of one of the old.      *)
FdsKept(bs, cs) == \A i \in DOMAIN cs : \E j \in DOMAIN bs : cs[i].fd = bs[j].fd

(* Taking a block out keeps the others' keys apart. *)
LEMMA RemovalKeepsKeys ==
  ASSUME NEW bs \in Seq(Block), NEW i \in DOMAIN bs, Distinct(bs)
  PROVE  /\ Distinct(RemoveAt(bs, i))
         /\ \A b : Absent(b, bs) => Absent(b, RemoveAt(bs, i))
<1> DEFINE r == RemoveAt(bs, i)
           old(j) == IF j < i THEN j ELSE j + 1
<1>1. i \in 1 .. Len(bs) /\ Len(bs) \in Nat /\ DOMAIN bs = 1 .. Len(bs)
  OBVIOUS
<1>2. /\ r \in Seq(Block) /\ Len(r) = Len(bs) - 1
      /\ \A j \in 1 .. (Len(bs) - 1) : r[j] = bs[old(j)]
  BY <1>1, RemoveAtProperties
<1> HIDE DEF r
<1>3. DOMAIN r = 1 .. (Len(bs) - 1)
  BY <1>1, <1>2
<1>4. /\ \A j \in DOMAIN r : old(j) \in DOMAIN bs
      /\ \A j, k \in DOMAIN r : j # k => old(j) # old(k)
  BY <1>1, <1>3
<1> HIDE DEF old
<1>5. \A j \in DOMAIN r : old(j) \in DOMAIN bs /\ r[j] = bs[old(j)]
  BY <1>2, <1>3, <1>4
<1>6. Distinct(r)
  BY <1>4, <1>5 DEF Distinct
<1>7. \A b : Absent(b, bs) => Absent(b, r)
  BY <1>5 DEF Absent
<1> QED BY <1>6, <1>7 DEF r

(* A block keeps its key when its cells or flags change. *)
LEMMA UpdateKeepsKeys ==
  ASSUME NEW bs \in Seq(Block), NEW cs \in Seq(Block), Len(cs) = Len(bs),
         \A j \in 1 .. Len(bs) : cs[j].fd = bs[j].fd /\ cs[j].offset = bs[j].offset,
         Distinct(bs)
  PROVE  /\ Distinct(cs)
         /\ \A b : Absent(b, bs) => Absent(b, cs)
  BY DEF Distinct, Absent

LEMMA KeysApart ==
  NoDuplicates <=> Distinct(blocks) /\ (fresh # NoBlock => Absent(fresh, blocks))
  BY DEF NoDuplicates, Distinct, Absent, IsBlock

(* pwrite puts cells of a block over cells of a file. *)
LEMMA PwriteType ==
  ASSUME TypeOK, NEW b \in Block, Pwrite(b)
  PROVE  disk' \in [Files -> Seq(Cells)]
<1>1. PICK n \in Transfers(b) :
        disk' = [disk EXCEPT ![fdfile[b.fd]] = Overwrite(@, b.offset, SubSeq(b.data, 1, n))]
  BY DEF Pwrite
<1>2. fdfile[b.fd] \in Files
  BY DEF Pwrite, TypeOK, Block
<1>3. n \in 1 .. BLOCK_SIZE
  BY CacheAssumption DEF Transfers, Block
<1>4. SubSeq(b.data, 1, n) \in Seq(Cells)
  <2>1. \A i \in 1 .. n : b.data[i] \in Cells
    BY <1>3, CacheAssumption DEF Block
  <2> QED BY <2>1, <1>3, CacheAssumption, SubSeqProperties
<1>5. Overwrite(disk[fdfile[b.fd]], b.offset, SubSeq(b.data, 1, n)) \in Seq(Cells)
  BY <1>2, <1>4, OverwriteType DEF TypeOK, Block
<1> QED BY <1>1, <1>2, <1>5 DEF TypeOK

(* What delete_block and the erase leave of the cache. *)
LEMMA DeleteKeeps ==
  ASSUME Inv, NEW i \in DOMAIN blocks, Delete(i)
  PROVE  /\ disk' \in [Files -> Seq(Cells)]
         /\ blocks' \in Seq(Block) /\ leaked' \in Seq(Block)
         /\ size' \in 0 .. CACHE_CAPACITY
         /\ Distinct(blocks)' /\ SizeCounts'
         /\ \A b : Absent(b, blocks) => Absent(b, blocks')
<1> USE DEF Inv
<1>1. i \in 1 .. Len(blocks) /\ blocks \in Seq(Block) /\ blocks[i] \in Block
  BY DEF TypeOK
<1>2. disk' \in [Files -> Seq(Cells)]
  BY <1>1, PwriteType DEF Delete, TypeOK
<1>3. blocks' \in Seq(Block) /\ Len(blocks') = Len(blocks) - 1
  BY <1>1, RemoveAtProperties DEF Delete
<1>4. /\ leaked' = leaked /\ size' = size - 1
      /\ leaked \in Seq(Block) /\ Len(leaked) \in Nat
      /\ size \in 0 .. CACHE_CAPACITY /\ CACHE_CAPACITY \in Nat
      /\ size = Len(blocks) + Len(leaked)
  BY CacheAssumption DEF Delete, TypeOK, SizeCounts
<1>5. size' \in 0 .. CACHE_CAPACITY /\ SizeCounts'
  BY <1>1, <1>3, <1>4 DEF SizeCounts
<1>6. Distinct(blocks)' /\ \A b : Absent(b, blocks) => Absent(b, blocks')
  BY <1>1, KeysApart, RemovalKeepsKeys DEF Delete
<1> QED BY <1>2, <1>3, <1>4, <1>5, <1>6

(* The loop variables of a read or a write. *)
LEMMA LoopTypes ==
  ASSUME TypeOK, call \notin {NoCall, Wild}
  PROVE  /\ call \in Call
         /\ Within \in 0 .. (BLOCK_SIZE - 1) /\ BlockOffset \in Nat
         /\ call.left > 0 => /\ ToCopy \in 1 .. call.left
                              /\ Within + ToCopy <= BLOCK_SIZE
<1>1. call \in Call
  BY DEF TypeOK
<1>2. call.at \in Nat /\ call.left \in Nat /\ BLOCK_SIZE \in Nat /\ BLOCK_SIZE > 0
  BY <1>1, CacheAssumption DEF Call
<1>3. Within \in 0 .. (BLOCK_SIZE - 1) /\ Within <= call.at
  <2>1. ASSUME NEW m \in Nat, NEW n \in Nat, n > 0
        PROVE  m % n \in 0 .. (n - 1) /\ m % n <= m
    BY <2>1
  <2> QED BY <2>1, <1>2 DEF Within
<1>4. BlockOffset \in Nat
  BY <1>2, <1>3 DEF BlockOffset
<1> HIDE DEF Within
<1>5. call.left > 0 => ToCopy \in 1 .. call.left /\ Within + ToCopy <= BLOCK_SIZE
  BY <1>2, <1>3 DEF ToCopy, Smaller
<1> QED BY <1>1, <1>3, <1>4, <1>5

(***************************************************************************)
(* One lemma per step that changes the cache.                              *)
(***************************************************************************)
(* pread answers with the cells of the block that the file has. *)
LEMMA PreadCells ==
  ASSUME TypeOK, NEW f \in Files, NEW o \in Nat
  PROVE  /\ Pread(f, o) \in Seq(Cells)
         /\ Len(Pread(f, o)) = IF o < Len(disk[f]) THEN Smaller(BLOCK_SIZE, Len(disk[f]) - o) ELSE 0
         /\ \A j \in 1 .. Len(Pread(f, o)) : Pread(f, o)[j] = disk[f][o + j]
<1> DEFINE d == disk[f]
           hi == Smaller(o + BLOCK_SIZE, Len(d))
<1>1. d \in Seq(Cells) /\ Len(d) \in Nat /\ BLOCK_SIZE \in Nat \ {0}
  BY CacheAssumption DEF TypeOK
<1> HIDE DEF d
<1>2. hi \in Nat /\ hi <= Len(d) /\ hi <= o + BLOCK_SIZE
  BY <1>1 DEF Smaller
<1>3. /\ o < Len(d) => hi - o = Smaller(BLOCK_SIZE, Len(d) - o) /\ hi - o > 0
      /\ ~(o < Len(d)) => hi <= o
  BY <1>1 DEF Smaller
<1> HIDE DEF hi
<1>4. \A i \in (o + 1) .. hi : d[i] \in Cells
  BY <1>1, <1>2
<1> DEFINE c == SubSeq(d, o + 1, hi)
<1>5. /\ c \in Seq(Cells)
      /\ Len(c) = IF o + 1 <= hi THEN hi - (o + 1) + 1 ELSE 0
      /\ \A j \in 1 .. (hi - (o + 1) + 1) : c[j] = d[(o + 1) + j - 1]
  BY <1>2, <1>4, SubSeqProperties
<1>6. Pread(f, o) = c
  BY DEF Pread, d, hi
<1> HIDE DEF c
<1>7. Len(c) = IF o < Len(d) THEN Smaller(BLOCK_SIZE, Len(d) - o) ELSE 0
  BY <1>1, <1>2, <1>3, <1>5
<1>8. \A j \in 1 .. Len(c) : c[j] = d[o + j]
  BY <1>2, <1>5
<1> QED BY <1>5, <1>6, <1>7, <1>8 DEF d

(* The bytes read, padded to the length of a block. *)
LEMMA PaddedCells ==
  ASSUME NEW c \in Seq(Cells), NEW pad \in Seq(Cells), Len(c) + Len(pad) = BLOCK_SIZE
  PROVE  /\ c \o pad \in [1 .. BLOCK_SIZE -> Cells]
         /\ \A j \in 1 .. Len(c) : (c \o pad)[j] = c[j]
<1>1. Len(c) \in Nat /\ Len(pad) \in Nat
  OBVIOUS
<1>2. /\ c \o pad \in Seq(Cells) /\ Len(c \o pad) = Len(c) + Len(pad)
      /\ \A j \in 1 .. Len(c) + Len(pad) : (c \o pad)[j] = IF j <= Len(c) THEN c[j] ELSE pad[j - Len(c)]
  BY ConcatProperties
<1>3. c \o pad \in [1 .. BLOCK_SIZE -> Cells]
  BY <1>2, LenProperties
<1>4. \A j \in 1 .. Len(c) : (c \o pad)[j] = c[j]
  BY <1>1, <1>2
<1> QED BY <1>3, <1>4

(* The block that load_block returns. *)
LEMMA LoadedBlock ==
  ASSUME TypeOK, NEW t \in Threads, Load(t)
  PROVE  LET c == Pread(fdfile[call.fd], BlockOffset) IN
         /\ call \in Call /\ call.fd \in Fds /\ fdfile[call.fd] \in Files /\ BlockOffset \in Nat
         /\ Len(c) \in 1 .. BLOCK_SIZE
         /\ fresh' \in Block /\ fresh'.fd = call.fd /\ fresh'.offset = BlockOffset
         /\ fresh'.valid_size = Len(c) /\ fresh'.is_dirty = (call.op = "write")
         /\ \A j \in 1 .. Len(c) : fresh'.data[j] = c[j]
<1> DEFINE c == Pread(fdfile[call.fd], BlockOffset)
           pad == [i \in 1 .. (BLOCK_SIZE - Len(c)) |-> Junk]
<1>1. /\ call \in Call /\ call.fd \in Fds /\ BlockOffset \in Nat /\ fdfile[call.fd] \in Files
      /\ BLOCK_SIZE \in Nat \ {0}
  BY LoopTypes, CacheAssumption DEF Load, Looping, Running, Loadable, Call, TypeOK
<1>2. c \in Seq(Cells) /\ Len(c) \in 0 .. BLOCK_SIZE
  BY <1>1, PreadCells DEF Smaller, TypeOK
<1>3. Len(c) \in 1 .. BLOCK_SIZE
  BY <1>2, EmptySeq DEF Load
<1>4. fresh' = [fd |-> call.fd, offset |-> BlockOffset, valid_size |-> Len(c),
                data |-> c \o pad, is_dirty |-> (call.op = "write")]
  BY DEF Load
<1> HIDE DEF c
<1>5. BLOCK_SIZE - Len(c) \in Nat /\ Junk \in Cells
  BY <1>1, <1>3 DEF Cells
<1>6. pad \in Seq(Cells) /\ Len(pad) = BLOCK_SIZE - Len(c)
  BY <1>5, FunctionIsSeq
<1> HIDE DEF pad
<1>7. /\ c \o pad \in [1 .. BLOCK_SIZE -> Cells]
      /\ \A j \in 1 .. Len(c) : (c \o pad)[j] = c[j]
  <2>1. c \in Seq(Cells) /\ pad \in Seq(Cells) /\ Len(c) + Len(pad) = BLOCK_SIZE
    BY <1>1, <1>2, <1>3, <1>6
  <2> QED BY <2>1, PaddedCells
<1>8. fresh' \in Block
  BY <1>1, <1>3, <1>4, <1>7 DEF Block
<1> QED BY <1>1, <1>3, <1>4, <1>7, <1>8 DEF c

LEMMA LoadInv == ASSUME Inv, NEW t \in Threads, Load(t) PROVE Inv'
<1>1. fresh' \in Block /\ fresh'.fd = call.fd /\ fresh'.offset = BlockOffset
  BY LoadedBlock DEF Inv
<1>2. UNCHANGED <<kernel, cache, lock, call, closing>>
  BY DEF Load
<1>3. TypeOK'
  BY <1>1, <1>2 DEF Inv, TypeOK, kernel, cache
<1>4. Absent(fresh', blocks)
  BY <1>1 DEF Load, Missing, IsBlock, Absent
<1>5. NoDuplicates'
  BY <1>2, <1>4, KeysApart DEF NoDuplicates, Inv, IsBlock, Absent, cache
<1> QED BY <1>2, <1>3, <1>5 DEF Inv, SizeCounts, cache

LEMMA EvictFailsInv == ASSUME Inv, NEW t \in Threads, EvictFails(t) PROVE Inv'
<1>1. PICK i \in DOMAIN blocks : /\ blocks' = RemoveAt(blocks, i)
                                 /\ leaked' = Append(leaked, blocks[i])
  BY DEF EvictFails
<1>2. UNCHANGED <<kernel, size, lock, call, fresh, closing>>
  BY DEF EvictFails
<1>3. i \in 1 .. Len(blocks) /\ blocks \in Seq(Block) /\ blocks[i] \in Block /\ leaked \in Seq(Block)
  BY DEF Inv, TypeOK
<1>4. blocks' \in Seq(Block) /\ Len(blocks') = Len(blocks) - 1
  BY <1>1, <1>3, RemoveAtProperties
<1>5. leaked' \in Seq(Block) /\ Len(leaked') = Len(leaked) + 1
  BY <1>1, <1>3
<1>6. TypeOK'
  BY <1>2, <1>4, <1>5 DEF Inv, TypeOK, kernel
<1>7. SizeCounts'
  BY <1>2, <1>3, <1>4, <1>5 DEF Inv, SizeCounts
<1>8. Distinct(blocks') /\ \A b : Absent(b, blocks) => Absent(b, blocks')
  BY <1>1, <1>3, KeysApart, RemovalKeepsKeys DEF Inv
<1>9. NoDuplicates'
  BY <1>2, <1>8, KeysApart DEF Inv, NoDuplicates, Distinct, Absent, IsBlock
<1> QED BY <1>6, <1>7, <1>9 DEF Inv

LEMMA AddBlockInv == ASSUME Inv, NEW t \in Threads, AddBlock(t) PROVE Inv'
<1>1. /\ blocks \in Seq(Block) /\ fresh \in Block /\ fresh # NoBlock
      /\ size \in 0 .. CACHE_CAPACITY /\ size < CACHE_CAPACITY /\ CACHE_CAPACITY \in Nat
  BY CacheAssumption DEF Inv, TypeOK, AddBlock
<1>2. /\ blocks' = Append(blocks, fresh) /\ size' = size + 1 /\ fresh' = NoBlock
      /\ UNCHANGED <<kernel, leaked, lock, call, closing>>
  BY DEF AddBlock
<1>3. /\ blocks' \in Seq(Block) /\ Len(blocks') = Len(blocks) + 1
      /\ \A i \in 1 .. Len(blocks) : blocks'[i] = blocks[i]
      /\ blocks'[Len(blocks) + 1] = fresh
  BY <1>1, <1>2, AppendProperties
<1>4. TypeOK'
  BY <1>1, <1>2, <1>3 DEF Inv, TypeOK, kernel
<1>5. SizeCounts'
  BY <1>1, <1>2, <1>3 DEF Inv, SizeCounts, TypeOK
<1>6. Distinct(blocks) /\ Absent(fresh, blocks)
  BY <1>1, KeysApart DEF Inv
<1>7. Distinct(blocks')
  BY <1>1, <1>3, <1>6 DEF Distinct, Absent
<1>8. NoDuplicates'
  BY <1>2, <1>7 DEF NoDuplicates, Distinct, IsBlock
<1> QED BY <1>4, <1>5, <1>8 DEF Inv

LEMMA ReadCopyInv ==
  ASSUME Inv, NEW t \in Threads, ReadCopy(t)
  PROVE  Inv' /\ call' \in Call /\ call'.fd = call.fd /\ call'.op = call.op
<1>1. /\ call \in Call /\ Within \in 0 .. (BLOCK_SIZE - 1) /\ call.left > 0
      /\ ToCopy \in 1 .. call.left /\ Within + ToCopy <= BLOCK_SIZE
  BY LoopTypes DEF Inv, ReadCopy, Looping, Running
<1>2. PICK i \in DOMAIN blocks :
        LET n == ValidBytes(blocks[i]) IN
          call' = [call EXCEPT !.at = @ + n, !.left = IF n < ToCopy THEN 0 ELSE @ - n,
                     !.got = @ \o SubSeq(blocks[i].data, Within + 1, Within + n)]
  BY DEF ReadCopy
<1>3. UNCHANGED <<kernel, cache, lock, fresh, closing>>
  BY DEF ReadCopy
<1> DEFINE n == ValidBytes(blocks[i])
           d == blocks[i].data
<1>4. blocks[i] \in Block
  BY DEF Inv, TypeOK
<1>5. /\ call.at \in Nat /\ call.left \in Nat /\ call.got \in Seq(Cells)
      /\ BLOCK_SIZE \in Nat \ {0} /\ blocks[i].valid_size \in 1 .. BLOCK_SIZE
      /\ d \in [1 .. BLOCK_SIZE -> Cells]
  BY <1>1, <1>4, CacheAssumption DEF Call, Block
<1>6. n \in 0 .. ToCopy
  BY <1>1, <1>5 DEF ValidBytes, Smaller
<1> HIDE DEF n, d
<1>7. \A j \in (Within + 1) .. (Within + n) : d[j] \in Cells
  BY <1>1, <1>5, <1>6
<1>8. SubSeq(d, Within + 1, Within + n) \in Seq(Cells)
  BY <1>1, <1>5, <1>6, <1>7, SubSeqProperties
<1>9. call.got \o SubSeq(d, Within + 1, Within + n) \in Seq(Cells)
  BY <1>5, <1>8, ConcatProperties
<1>10. call' = [call EXCEPT !.at = @ + n, !.left = IF n < ToCopy THEN 0 ELSE @ - n,
                  !.got = @ \o SubSeq(d, Within + 1, Within + n)]
  BY <1>2 DEF n, d
<1>11. (IF n < ToCopy THEN 0 ELSE call.left - n) \in Nat /\ call.at + n \in Nat
  BY <1>1, <1>5, <1>6
<1>12. call' \in Call /\ call'.fd = call.fd /\ call'.op = call.op
  BY <1>1, <1>9, <1>10, <1>11 DEF Call
<1>13. TypeOK'
  BY <1>3, <1>12 DEF Inv, TypeOK, kernel, cache
<1> QED BY <1>3, <1>12, <1>13 DEF Inv, NoDuplicates, SizeCounts, IsBlock, cache

(* The block that a write changes: the cells between the position and the  *)
(* end of what fits into it are the client's.                              *)
Rewrites(b, c) ==
  /\ b.fd = c.fd /\ b.offset = c.offset /\ b.is_dirty
  /\ b.valid_size = IF Within + ToCopy > c.valid_size THEN Within + ToCopy ELSE c.valid_size
  /\ \A j \in 1 .. BLOCK_SIZE :
       b.data[j] = IF j > Within /\ j <= Within + ToCopy THEN call.val ELSE c.data[j]

LEMMA WrittenBlock ==
  ASSUME Inv, NEW t \in Threads, WriteCopy(t)
  PROVE  \E i \in DOMAIN blocks, b \in Block :
           /\ Found(i) /\ blocks[i] \in Block
           /\ blocks' = [blocks EXCEPT ![i] = b] /\ Rewrites(b, blocks[i])
<1>1. /\ call \in Call /\ Within \in 0 .. (BLOCK_SIZE - 1) /\ call.left > 0
      /\ ToCopy \in 1 .. call.left /\ Within + ToCopy <= BLOCK_SIZE
  BY LoopTypes DEF Inv, WriteCopy, Looping, Running
<1> DEFINE buf == [j \in 1 .. ToCopy |-> call.val]
           end == Within + ToCopy
<1>2. PICK i \in DOMAIN blocks :
        /\ Found(i)
        /\ blocks' = [blocks EXCEPT
            ![i].is_dirty = TRUE,
            ![i].data = Overwrite(@, Within, buf),
            ![i].valid_size = IF end > @ THEN end ELSE @]
  BY DEF WriteCopy
<1>3. blocks \in Seq(Block) /\ blocks[i] \in Block
  BY DEF Inv, TypeOK
<1>4. /\ call.left \in Nat /\ call.val \in Cells
      /\ BLOCK_SIZE \in Nat \ {0} /\ blocks[i].valid_size \in 1 .. BLOCK_SIZE
      /\ blocks[i].data \in [1 .. BLOCK_SIZE -> Cells]
  BY <1>1, <1>3, CacheAssumption DEF Call, Block, Cells
<1>5. buf \in Seq(Cells) /\ Len(buf) = ToCopy /\ \A j \in 1 .. ToCopy : buf[j] = call.val
  <2>1. buf \in [1 .. ToCopy -> Cells] /\ ToCopy \in Nat
    BY <1>1, <1>4
  <2> QED BY <2>1, FunctionIsSeq
<1> HIDE DEF buf
<1> DEFINE data == Overwrite(blocks[i].data, Within, buf)
<1>6. blocks[i].data \in Seq(Cells) /\ Len(blocks[i].data) = BLOCK_SIZE
  BY <1>4, FunctionIsSeq
<1>7. data \in [1 .. BLOCK_SIZE -> Cells]
  <2>1. data \in Seq(Cells) /\ Len(data) = BLOCK_SIZE
    BY <1>1, <1>4, <1>5, <1>6, OverwriteType
  <2> QED BY <2>1
<1>8. \A j \in 1 .. BLOCK_SIZE :
        data[j] = IF j > Within /\ j <= end THEN call.val ELSE blocks[i].data[j]
  BY <1>1, <1>4, <1>5, <1>6 DEF Overwrite
<1>9. end \in 1 .. BLOCK_SIZE
  BY <1>1, <1>4
<1> HIDE DEF end, data
<1> DEFINE b == [blocks[i] EXCEPT !.is_dirty = TRUE, !.data = data,
                                 !.valid_size = IF end > @ THEN end ELSE @]
<1>10. b \in Block /\ b.fd = blocks[i].fd /\ b.offset = blocks[i].offset /\ b.is_dirty
  BY <1>3, <1>7, <1>9 DEF Block
<1>11. b.data = data /\ b.valid_size = IF end > blocks[i].valid_size THEN end ELSE blocks[i].valid_size
  BY <1>3 DEF Block
<1>12. blocks' = [blocks EXCEPT ![i] = b]
  BY <1>2 DEF data
<1>13. Found(i)
  BY <1>2
<1>14. \A j \in 1 .. BLOCK_SIZE :
         b.data[j] = IF j > Within /\ j <= end THEN call.val ELSE blocks[i].data[j]
  BY <1>8, <1>11
<1> HIDE DEF b
<1>15. Rewrites(b, blocks[i])
  BY <1>10, <1>11, <1>14 DEF Rewrites, end
<1> HIDE DEF b
<1> QED BY <1>3, <1>10, <1>12, <1>13, <1>15

LEMMA WriteCopyInv ==
  ASSUME Inv, NEW t \in Threads, WriteCopy(t)
  PROVE  /\ Inv' /\ FdsKept(blocks, blocks')
         /\ call' \in Call /\ call'.fd = call.fd /\ call'.op = call.op
<1>1. PICK i \in DOMAIN blocks, b \in Block :
        /\ blocks' = [blocks EXCEPT ![i] = b]
        /\ b.fd = blocks[i].fd /\ b.offset = blocks[i].offset
  BY WrittenBlock DEF Rewrites
<1>2. /\ call' = [call EXCEPT !.at = @ + ToCopy, !.left = @ - ToCopy]
      /\ UNCHANGED <<kernel, size, leaked, lock, fresh, closing>>
  BY DEF WriteCopy
<1>3. blocks \in Seq(Block) /\ i \in 1 .. Len(blocks)
  BY DEF Inv, TypeOK
<1>4. /\ blocks' \in Seq(Block) /\ Len(blocks') = Len(blocks)
      /\ \A j \in 1 .. Len(blocks) : blocks'[j].fd = blocks[j].fd /\ blocks'[j].offset = blocks[j].offset
  BY <1>1, <1>3, ExceptSeq
<1>5. call' \in Call /\ call'.fd = call.fd /\ call'.op = call.op
  <2>1. call \in Call /\ call.left > 0 /\ ToCopy \in 1 .. call.left
    BY LoopTypes DEF Inv, WriteCopy, Looping, Running
  <2>2. call.at + ToCopy \in Nat /\ call.left - ToCopy \in Nat
    BY <2>1 DEF Call
  <2> QED BY <1>2, <2>1, <2>2 DEF Call
<1>6. TypeOK'
  BY <1>2, <1>4, <1>5 DEF Inv, TypeOK, kernel
<1>7. Distinct(blocks') /\ \A c : Absent(c, blocks) => Absent(c, blocks')
  BY <1>3, <1>4, KeysApart, UpdateKeepsKeys DEF Inv
<1>8. NoDuplicates'
  BY <1>2, <1>7, KeysApart DEF Inv, NoDuplicates, Distinct, Absent, IsBlock
<1>9. FdsKept(blocks, blocks')
  BY <1>3, <1>4 DEF FdsKept
<1> QED BY <1>2, <1>4, <1>5, <1>6, <1>8, <1>9 DEF Inv, SizeCounts

LEMMA SyncBlockInv ==
  ASSUME Inv, NEW t \in Threads, SyncBlock(t)
  PROVE  Inv' /\ FdsKept(blocks, blocks')
<1>1. PICK i \in DOMAIN blocks :
        Pwrite(blocks[i]) /\ blocks' = [blocks EXCEPT ![i].is_dirty = FALSE]
  BY DEF SyncBlock
<1>2. UNCHANGED <<fdfile, pos, size, leaked, lock, call, fresh, closing>>
  BY DEF SyncBlock
<1>3. blocks \in Seq(Block) /\ i \in 1 .. Len(blocks) /\ blocks[i] \in Block
  BY DEF Inv, TypeOK
<1>4. disk' \in [Files -> Seq(Cells)]
  BY <1>1, <1>3, PwriteType DEF Inv
<1> DEFINE b == [blocks[i] EXCEPT !.is_dirty = FALSE]
<1>5. b \in Block /\ b.fd = blocks[i].fd /\ b.offset = blocks[i].offset
  BY <1>3 DEF Block
<1>6. blocks' = [blocks EXCEPT ![i] = b]
  BY <1>1
<1> HIDE DEF b
<1>7. /\ blocks' \in Seq(Block) /\ Len(blocks') = Len(blocks)
      /\ \A j \in 1 .. Len(blocks) : blocks'[j].fd = blocks[j].fd /\ blocks'[j].offset = blocks[j].offset
  BY <1>3, <1>5, <1>6, ExceptSeq
<1>8. TypeOK'
  BY <1>2, <1>4, <1>7 DEF Inv, TypeOK
<1>9. Distinct(blocks') /\ \A c : Absent(c, blocks) => Absent(c, blocks')
  BY <1>3, <1>7, KeysApart, UpdateKeepsKeys DEF Inv
<1>10. NoDuplicates'
  BY <1>2, <1>9, KeysApart DEF Inv, NoDuplicates, Distinct, Absent, IsBlock
<1>11. FdsKept(blocks, blocks')
  BY <1>3, <1>7 DEF FdsKept
<1> QED BY <1>2, <1>7, <1>8, <1>10, <1>11 DEF Inv, SizeCounts

LEMMA DeleteInv ==
  ASSUME Inv, NEW i \in DOMAIN blocks, Delete(i),
         UNCHANGED <<fdfile, pos, lock, call, fresh, closing>>
  PROVE  Inv'
<1>1. /\ disk' \in [Files -> Seq(Cells)]
      /\ blocks' \in Seq(Block) /\ leaked' \in Seq(Block)
      /\ size' \in 0 .. CACHE_CAPACITY
      /\ Distinct(blocks') /\ SizeCounts'
      /\ \A b : Absent(b, blocks) => Absent(b, blocks')
  BY DeleteKeeps DEF Distinct
<1>2. TypeOK'
  BY <1>1 DEF Inv, TypeOK
<1>3. NoDuplicates'
  BY <1>1, KeysApart DEF Inv, NoDuplicates, Distinct, Absent, IsBlock
<1> QED BY <1>1, <1>2, <1>3 DEF Inv

(* A step that leaves the cache and the block being loaded alone keeps the *)
(* invariant if it keeps the types of the rest.                            *)
LEMMA OutsideCache ==
  ASSUME Inv, UNCHANGED <<disk, cache, fresh>>,
         fdfile' \in [Fds -> Files \union {NoFile}], pos' \in [Fds -> Nat],
         lock' \in Threads \union {NoThread}, call' \in Call \union {NoCall, Wild},
         closing' \in [Threads -> Fds \union {NoFd}]
  PROVE  Inv'
  BY DEF Inv, TypeOK, NoDuplicates, SizeCounts, IsBlock, cache

LEMMA ClientInv == ASSUME Inv, Client PROVE Inv'
<1> USE DEF Inv
<1>1. ASSUME NEW f \in Files, Open(f) PROVE Inv'
  <2>1. PICK fd \in Fds : fdfile' = [fdfile EXCEPT ![fd] = f] /\ pos' = [pos EXCEPT ![fd] = 0]
    BY <1>1 DEF Open
  <2>2. UNCHANGED <<disk, cache, lock, call, fresh, closing>>
    BY <1>1 DEF Open
  <2> QED BY <2>1, <2>2, OutsideCache DEF TypeOK
<1>2. ASSUME NEW fd \in Fds, NEW p \in Positions, Lseek(fd, p) PROVE Inv'
  BY <1>2, CacheAssumption, OutsideCache DEF Lseek, TypeOK
<1>3. ASSUME NEW t \in Threads, NEW c \in Call, Enter(t, c) PROVE Inv'
  BY <1>3, OutsideCache DEF Enter, TypeOK, kernel
<1>4. ASSUME NEW t \in Threads, NEW fd \in Fds, NEW n \in Counts, NEW v \in Values,
             NEW op \in {"read", "write"}, CallReadWrite(t, op, fd, n, v)
      PROVE  Inv'
  <2> DEFINE c == [op |-> op, fd |-> fd, at |-> pos[fd], left |-> n, val |-> v, got |-> <<>>]
  <2>1. c \in Call
    BY CacheAssumption DEF Call, TypeOK
  <2>2. Enter(t, c)
    BY <1>4 DEF CallReadWrite
  <2> QED BY <2>1, <2>2, <1>3
<1>5. ASSUME NEW t \in Threads, NEW fd \in Fds, NEW op \in {"fsync", "close"},
             CallFsyncClose(t, op, fd)
      PROVE  Inv'
  <2> DEFINE c == [op |-> op, fd |-> fd, at |-> 0, left |-> 0, val |-> 0, got |-> <<>>]
  <2>1. c \in Call
    BY CacheAssumption DEF Call
  <2>2. Enter(t, c)
    BY <1>5 DEF CallFsyncClose
  <2> QED BY <2>1, <2>2, <1>3
<1> QED BY <1>1, <1>2, <1>4, <1>5, CacheAssumption DEF Client

LEMMA StepInv == ASSUME Inv, NEW t \in Threads, Step(t) PROVE Inv'
<1>1. CASE Load(t)
  BY <1>1, LoadInv
<1>2. CASE LoadAtEnd(t)
  <2>1. call \in Call
    BY <1>2, LoopTypes DEF Inv, LoadAtEnd, Looping, Running
  <2>2. call' \in Call
    BY <1>2, <2>1 DEF LoadAtEnd, Call
  <2> QED BY <1>2, <2>2, OutsideCache DEF LoadAtEnd, Inv, TypeOK, kernel
<1>3. CASE LoadFails(t) \/ Return(t) \/ SyncFails(t) \/ SyncDone(t) \/ CloseFails(t)
  <2>1. Unlock /\ UNCHANGED <<kernel, cache, fresh, closing>>
    BY <1>3 DEF LoadFails, Return, SyncFails, SyncDone, CloseFails
  <2> QED BY <2>1, OutsideCache DEF Unlock, Inv, TypeOK, kernel
<1>4. CASE Evict(t)
  BY <1>4, DeleteInv DEF Evict
<1>5. CASE EvictFails(t)
  BY <1>5, EvictFailsInv
<1>6. CASE EvictNothing(t)
  BY <1>6, OutsideCache DEF EvictNothing, Inv, TypeOK, kernel
<1>7. CASE AddBlock(t)
  BY <1>7, AddBlockInv
<1>8. CASE ReadCopy(t)
  BY <1>8, ReadCopyInv
<1>9. CASE WriteCopy(t)
  BY <1>9, WriteCopyInv
<1>10. CASE SyncBlock(t)
  BY <1>10, SyncBlockInv
<1>11. CASE CloseBlock(t)
  BY <1>11, DeleteInv DEF CloseBlock
<1>12. CASE CloseUnlock(t)
  <2>1. call.fd \in Fds
    BY <1>12, LoopTypes DEF Inv, CloseUnlock, Running, Call
  <2> QED BY <1>12, <2>1, OutsideCache DEF CloseUnlock, Unlock, Inv, TypeOK, kernel
<1>13. CASE CloseFd(t)
  BY <1>13, OutsideCache DEF CloseFd, Inv, TypeOK
<1> QED BY <1>1, <1>2, <1>3, <1>4, <1>5, <1>6, <1>7, <1>8, <1>9, <1>10, <1>11, <1>12, <1>13 DEF Step

(* The bookkeeping of the cache holds in every reachable state. *)
THEOREM Bookkeeping == Spec => []Inv
<1>1. Inv /\ [Next]_vars => Inv'
  <2> SUFFICES ASSUME Inv, [Next]_vars PROVE Inv'
    OBVIOUS
  <2>1. CASE Client
    BY <2>1, ClientInv
  <2>2. ASSUME NEW t \in Threads, Step(t) PROVE Inv'
    BY <2>2, StepInv
  <2>3. CASE UNCHANGED vars
    BY <2>3, OutsideCache DEF vars, cache, Inv, TypeOK
  <2> QED BY <2>1, <2>2, <2>3 DEF Next
<1> QED BY InitInv, <1>1, PTL DEF Spec

(* Every variable of the cache keeps its type; in particular cache.size    *)
(* never wraps and never passes CACHE_CAPACITY.                            *)
THEOREM CacheTypeCorrect == Spec => []TypeOK
  BY Bookkeeping, PTL DEF Inv

(* find_block and add_block never leave two blocks of one descriptor and   *)
(* offset in the cache, whatever fails and whoever closes what.            *)
THEOREM OneBlockPerPlace == Spec => []NoDuplicates
  BY Bookkeeping, PTL DEF Inv

(* cache.size is the number of blocks in memory, those a failed eviction   *)
(* lost included.                                                          *)
THEOREM SizeIsBlocksInMemory == Spec => []SizeCounts
  BY Bookkeeping, PTL DEF Inv

(***************************************************************************)
(* Clients that do not use a descriptor while or after it is closed.  Then *)
(* the descriptor of the running call stays open, and a thread about to    *)
(* close one finds it open, without blocks, and closed by nobody else.     *)
(***************************************************************************)
CallOnOpen ==
  /\ lock = NoThread => call = NoCall
  /\ call = NoCall => fresh = NoBlock
  /\ call \notin {NoCall, Wild} =>
       /\ fdfile[call.fd] # NoFile
       /\ \A t \in Threads : closing[t] # call.fd
       /\ fresh # NoBlock => fresh.fd = call.fd /\ call.op \in {"read", "write"}

ClosingClean ==
  \A t \in Threads : closing[t] # NoFd =>
    /\ fdfile[closing[t]] # NoFile
    /\ \A u \in Threads : u # t => closing[u] # closing[t]
    /\ \A i \in DOMAIN blocks : blocks[i].fd # closing[t]

DescriptorInv == Inv /\ NoOrphans /\ CallOnOpen /\ ClosingClean

Careful == "race" \notin Liberties

LEMMA FewerBlocks ==
  ASSUME DescriptorInv, FdsKept(blocks, blocks'),
         UNCHANGED <<fdfile, lock, fresh, closing>>,
         \/ call' = call
         \/ call # NoCall /\ call' = Wild
         \/ /\ call \notin {NoCall, Wild} /\ call' # NoCall
            /\ call'.fd = call.fd /\ call'.op = call.op
  PROVE  NoOrphans' /\ CallOnOpen' /\ ClosingClean'
<1>1. Wild # NoCall
  BY SentinelAssumption
<1>2. CallOnOpen'
  BY <1>1 DEF DescriptorInv, CallOnOpen
<1>3. NoOrphans'
  BY DEF DescriptorInv, NoOrphans, FdsKept
<1>4. ClosingClean'
  BY DEF DescriptorInv, ClosingClean, FdsKept
<1> QED BY <1>2, <1>3, <1>4

LEMMA RemovalKeepsFds ==
  ASSUME Inv, NEW i \in DOMAIN blocks, blocks' = RemoveAt(blocks, i)
  PROVE  FdsKept(blocks, blocks')
<1>1. /\ i \in 1 .. Len(blocks) /\ blocks \in Seq(Block)
  BY DEF Inv, TypeOK
<1>2. /\ blocks' \in Seq(Block) /\ Len(blocks') = Len(blocks) - 1
      /\ \A j \in 1 .. (Len(blocks) - 1) : blocks'[j] = blocks[IF j < i THEN j ELSE j + 1]
  BY <1>1, RemoveAtProperties
<1>3. \A j \in DOMAIN blocks' : (IF j < i THEN j ELSE j + 1) \in DOMAIN blocks
  BY <1>1, <1>2
<1>4. \A j \in DOMAIN blocks' : blocks'[j] = blocks[IF j < i THEN j ELSE j + 1]
  BY <1>1, <1>2
<1> QED BY <1>3, <1>4 DEF FdsKept

(* A call ends: the lock is free, nothing is being loaded. *)
LEMMA CallEnds ==
  ASSUME DescriptorInv, Unlock, UNCHANGED <<kernel, cache, closing>>, fresh = NoBlock, fresh' = NoBlock
  PROVE  NoOrphans' /\ CallOnOpen' /\ ClosingClean'
  BY DEF DescriptorInv, Unlock, NoOrphans, CallOnOpen, ClosingClean, kernel, cache

LEMMA FdTypes ==
  ASSUME TypeOK
  PROVE  /\ fdfile \in [Fds -> Files \union {NoFile}]
         /\ \A i \in DOMAIN blocks : blocks[i].fd \in Fds
         /\ call \notin {NoCall, Wild} => call.fd \in Fds
         /\ \A t \in Threads : closing[t] # NoFd => closing[t] \in Fds
<1>1. \A i \in DOMAIN blocks : blocks[i].fd \in Fds
  <2>1. \A i \in DOMAIN blocks : blocks[i] \in Block
    BY DEF TypeOK
  <2> QED BY <2>1 DEF Block
<1>2. call \notin {NoCall, Wild} => call.fd \in Fds
  BY DEF TypeOK, Call
<1> QED BY <1>1, <1>2 DEF TypeOK

LEMMA DescriptorClient == ASSUME Careful, DescriptorInv, Client PROVE NoOrphans' /\ CallOnOpen' /\ ClosingClean'
<1> USE DEF DescriptorInv
<1>1. ASSUME NEW f \in Files, Open(f) PROVE NoOrphans' /\ CallOnOpen' /\ ClosingClean'
  <2>1. PICK fd \in Fds : fdfile' = [fdfile EXCEPT ![fd] = f]
    BY <1>1 DEF Open
  <2>2. UNCHANGED <<disk, blocks, lock, call, fresh, closing>>
    BY <1>1 DEF Open, cache
  <2>3. f # NoFile /\ \A e \in Fds : fdfile[e] # NoFile => fdfile'[e] # NoFile
    BY <2>1, CacheAssumption DEF Inv, TypeOK
  <2>4. /\ \A i \in DOMAIN blocks : blocks[i].fd \in Fds
        /\ call \notin {NoCall, Wild} => call.fd \in Fds
        /\ \A t \in Threads : closing[t] # NoFd => closing[t] \in Fds
    BY FdTypes DEF Inv
  <2>5. NoOrphans'
    BY <2>2, <2>3, <2>4 DEF NoOrphans
  <2>6. CallOnOpen'
    BY <2>2, <2>3, <2>4 DEF CallOnOpen
  <2>7. ClosingClean'
    BY <2>2, <2>3, <2>4 DEF ClosingClean
  <2> QED BY <2>5, <2>6, <2>7
<1>2. ASSUME NEW fd \in Fds, NEW p \in Positions, Lseek(fd, p)
      PROVE  NoOrphans' /\ CallOnOpen' /\ ClosingClean'
  BY <1>2 DEF Lseek, NoOrphans, CallOnOpen, ClosingClean, cache
<1>3. ASSUME NEW t \in Threads, NEW c \in Call, Usable(c.fd), Enter(t, c)
      PROVE  NoOrphans' /\ CallOnOpen' /\ ClosingClean'
  <2>1. /\ lock = NoThread /\ lock' = t /\ call' = c
        /\ UNCHANGED <<fdfile, blocks, fresh, closing>>
    BY <1>3 DEF Enter, kernel, cache
  <2>2. /\ fdfile[c.fd] # NoFile /\ \A u \in Threads : closing[u] # c.fd
        /\ fresh = NoBlock
    BY <1>3, <2>1 DEF Usable, Careful, CallOnOpen
  <2>3. t # NoThread /\ c # NoCall
    BY CacheAssumption, SentinelAssumption
  <2>4. CallOnOpen'
    BY <2>1, <2>2, <2>3 DEF CallOnOpen
  <2> QED BY <2>1, <2>4 DEF NoOrphans, ClosingClean
<1>4. ASSUME NEW t \in Threads, NEW fd \in Fds, NEW n \in Counts, NEW v \in Values,
             NEW op \in {"read", "write"}, CallReadWrite(t, op, fd, n, v)
      PROVE  NoOrphans' /\ CallOnOpen' /\ ClosingClean'
  <2> DEFINE c == [op |-> op, fd |-> fd, at |-> pos[fd], left |-> n, val |-> v, got |-> <<>>]
  <2>1. c \in Call /\ c.fd = fd
    BY CacheAssumption DEF Call, Inv, TypeOK
  <2>2. Enter(t, c) /\ Usable(fd)
    BY <1>4 DEF CallReadWrite
  <2> HIDE DEF c
  <2> QED BY <2>1, <2>2, <1>3
<1>5. ASSUME NEW t \in Threads, NEW fd \in Fds, NEW op \in {"fsync", "close"},
             CallFsyncClose(t, op, fd)
      PROVE  NoOrphans' /\ CallOnOpen' /\ ClosingClean'
  <2> DEFINE c == [op |-> op, fd |-> fd, at |-> 0, left |-> 0, val |-> 0, got |-> <<>>]
  <2>1. c \in Call /\ c.fd = fd
    BY CacheAssumption DEF Call
  <2>2. Enter(t, c) /\ Usable(fd)
    BY <1>5 DEF CallFsyncClose, Careful
  <2> HIDE DEF c
  <2> QED BY <2>1, <2>2, <1>3
<1> QED BY <1>1, <1>2, <1>4, <1>5, CacheAssumption DEF Client

LEMMA DescriptorStep ==
  ASSUME Careful, DescriptorInv, NEW t \in Threads, Step(t)
  PROVE  NoOrphans' /\ CallOnOpen' /\ ClosingClean'
<1> USE DEF DescriptorInv
<1>1. CASE Load(t)
  <2>1. /\ UNCHANGED <<fdfile, blocks, lock, call, closing>>
        /\ fresh'.fd = call.fd /\ call \notin {NoCall, Wild} /\ call.op \in {"read", "write"}
    BY <1>1 DEF Load, Looping, Running, kernel, cache
  <2> QED BY <2>1 DEF NoOrphans, CallOnOpen, ClosingClean
<1>2. CASE LoadAtEnd(t)
  <2>1. /\ UNCHANGED <<fdfile, blocks, lock, fresh, closing>>
        /\ call \in Call /\ call' = [call EXCEPT !.left = 0] /\ call \notin {NoCall, Wild}
    BY <1>2, LoopTypes DEF LoadAtEnd, Looping, Running, Inv, kernel, cache
  <2>2. call' \in Call /\ call'.fd = call.fd /\ call'.op = call.op
    BY <2>1 DEF Call
  <2> QED BY <2>1, <2>2, SentinelAssumption, FewerBlocks DEF FdsKept
<1>3. CASE LoadFails(t) \/ Return(t)
  BY <1>3, CallEnds DEF LoadFails, Return, Looping
<1>4. CASE SyncFails(t) \/ SyncDone(t) \/ CloseFails(t)
  <2>1. /\ Unlock /\ UNCHANGED <<kernel, cache, fresh, closing>>
        /\ call \notin {NoCall, Wild} /\ call.op \in {"fsync", "close"}
    BY <1>4 DEF SyncFails, SyncDone, CloseFails, Running
  <2>2. fresh = NoBlock
    BY <2>1 DEF CallOnOpen
  <2> QED BY <2>1, <2>2, CallEnds
<1>5. CASE Evict(t) \/ CloseBlock(t)
  <2>1. PICK i \in DOMAIN blocks : Delete(i)
    BY <1>5 DEF Evict, CloseBlock
  <2>2. blocks' = RemoveAt(blocks, i) /\ UNCHANGED <<fdfile, lock, call, fresh, closing>>
    BY <1>5, <2>1 DEF Evict, CloseBlock, Delete
  <2> QED BY <2>1, <2>2, RemovalKeepsFds, FewerBlocks
<1>6. CASE EvictFails(t)
  <2>1. PICK i \in DOMAIN blocks : blocks' = RemoveAt(blocks, i)
    BY <1>6 DEF EvictFails
  <2> QED BY <1>6, <2>1, RemovalKeepsFds, FewerBlocks DEF EvictFails, kernel
<1>7. CASE EvictNothing(t)
  BY <1>7, FewerBlocks DEF EvictNothing, Evicting, Running, FdsKept, kernel, cache
<1>8. CASE AddBlock(t)
  <2>1. /\ UNCHANGED <<fdfile, lock, call, closing>> /\ fresh' = NoBlock
        /\ call \notin {NoCall, Wild} /\ fresh.fd = call.fd
        /\ blocks \in Seq(Block) /\ fresh \in Block /\ blocks' = Append(blocks, fresh)
    BY <1>8 DEF AddBlock, Running, CallOnOpen, kernel, Inv, TypeOK
  <2>2. \A i \in DOMAIN blocks' : (i \in DOMAIN blocks /\ blocks'[i] = blocks[i]) \/ blocks'[i] = fresh
    BY <2>1, AppendProperties
  <2>3. NoOrphans'
    BY <2>1, <2>2 DEF NoOrphans, CallOnOpen
  <2>4. CallOnOpen'
    BY <2>1 DEF CallOnOpen
  <2>5. ClosingClean'
    BY <2>1, <2>2 DEF ClosingClean, CallOnOpen
  <2> QED BY <2>3, <2>4, <2>5
<1>9. CASE ReadCopy(t)
  <2>1. /\ UNCHANGED <<fdfile, blocks, lock, fresh, closing>> /\ call \notin {NoCall, Wild}
    BY <1>9 DEF ReadCopy, Looping, Running, kernel, cache
  <2>2. call' \in Call /\ call'.fd = call.fd /\ call'.op = call.op
    BY <1>9, ReadCopyInv
  <2> QED BY <2>1, <2>2, SentinelAssumption, FewerBlocks DEF FdsKept
<1>10. CASE WriteCopy(t)
  <2>1. /\ UNCHANGED <<fdfile, lock, fresh, closing>> /\ call \notin {NoCall, Wild}
    BY <1>10 DEF WriteCopy, Looping, Running, kernel
  <2>2. /\ FdsKept(blocks, blocks')
        /\ call' \in Call /\ call'.fd = call.fd /\ call'.op = call.op
    BY <1>10, WriteCopyInv
  <2> QED BY <2>1, <2>2, SentinelAssumption, FewerBlocks
<1>11. CASE SyncBlock(t)
  BY <1>11, SyncBlockInv, FewerBlocks DEF SyncBlock
<1>12. CASE CloseUnlock(t)
  <2>1. /\ Unlock /\ closing' = [closing EXCEPT ![t] = call.fd]
        /\ UNCHANGED <<fdfile, blocks, fresh>>
        /\ call \notin {NoCall, Wild} /\ call.op = "close"
        /\ \A i \in DOMAIN blocks : blocks[i].fd # call.fd
    BY <1>12 DEF CloseUnlock, Running, BlocksOf, kernel, cache
  <2>2. fresh = NoBlock /\ fdfile[call.fd] # NoFile /\ \A u \in Threads : closing[u] # call.fd
    BY <2>1 DEF CallOnOpen
  <2>3. closing \in [Threads -> Fds \union {NoFd}]
    BY DEF Inv, TypeOK
  <2>4. ClosingClean'
    BY <2>1, <2>2, <2>3 DEF ClosingClean
  <2> QED BY <2>1, <2>2, <2>4 DEF NoOrphans, CallOnOpen, Unlock
<1>13. CASE CloseFd(t)
  <2>1. /\ closing[t] # NoFd /\ fdfile' = [fdfile EXCEPT ![closing[t]] = NoFile]
        /\ closing' = [closing EXCEPT ![t] = NoFd]
        /\ UNCHANGED <<blocks, lock, call, fresh>>
    BY <1>13 DEF CloseFd, cache
  <2>2. /\ \A i \in DOMAIN blocks : blocks[i].fd # closing[t]
        /\ \A u \in Threads : u # t => closing[u] # closing[t]
        /\ call \notin {NoCall, Wild} => call.fd # closing[t]
    BY <2>1 DEF ClosingClean, CallOnOpen
  <2>3. /\ closing \in [Threads -> Fds \union {NoFd}]
        /\ \A e \in Fds : e # closing[t] => fdfile'[e] = fdfile[e]
        /\ \A u \in Threads : closing'[u] = IF u = t THEN NoFd ELSE closing[u]
    BY <2>1, FdTypes DEF Inv, TypeOK
  <2>4. NoOrphans'
    BY <2>1, <2>2, <2>3, FdTypes DEF Inv, NoOrphans
  <2>5. CallOnOpen'
    <3>1. call \notin {NoCall, Wild} => call.fd \in Fds /\ call.fd # NoFd
      BY FdTypes, CacheAssumption DEF Inv
    <3> QED BY <2>1, <2>2, <2>3, <3>1 DEF CallOnOpen
  <2>6. ClosingClean'
    BY <2>1, <2>2, <2>3, FdTypes DEF Inv, ClosingClean
  <2> QED BY <2>4, <2>5, <2>6
<1> QED BY <1>1, <1>2, <1>3, <1>4, <1>5, <1>6, <1>7, <1>8, <1>9, <1>10, <1>11, <1>12, <1>13 DEF Step

(* While it is inductive under careful clients, the descriptor invariant   *)
(* says nothing of what fails.                                             *)
THEOREM DescriptorsKept == ASSUME Careful PROVE Spec => []DescriptorInv
<1>1. Init => DescriptorInv
  <2> SUFFICES ASSUME Init PROVE DescriptorInv
    OBVIOUS
  <2>1. NoOrphans /\ CallOnOpen /\ ClosingClean
    BY DEF Init, NoOrphans, CallOnOpen, ClosingClean
  <2> QED BY <2>1, InitInv DEF DescriptorInv
<1>2. DescriptorInv /\ [Next]_vars => DescriptorInv'
  <2> SUFFICES ASSUME DescriptorInv, [Next]_vars PROVE DescriptorInv'
    OBVIOUS
  <2>1. CASE Client
    BY <2>1, ClientInv, DescriptorClient DEF DescriptorInv
  <2>2. ASSUME NEW t \in Threads, Step(t) PROVE DescriptorInv'
    BY <2>2, StepInv, DescriptorStep DEF DescriptorInv
  <2>3. CASE UNCHANGED vars
    <3>1. Inv'
      BY <2>3, OutsideCache DEF vars, cache, DescriptorInv, Inv, TypeOK
    <3> QED BY <2>3, <3>1 DEF vars, DescriptorInv, NoOrphans, CallOnOpen, ClosingClean
  <2> QED BY <2>1, <2>2, <2>3 DEF Next
<1> QED BY <1>1, <1>2, PTL DEF Spec

(* With careful clients lab2_close leaves no block of a closed descriptor  *)
(* behind, even though close(fd) runs after the unlock and other threads   *)
(* fill the cache meanwhile.                                               *)
THEOREM BlocksDieWithDescriptor == ASSUME Careful PROVE Spec => []NoOrphans
  BY DescriptorsKept, PTL DEF DescriptorInv

(* As long as no eviction fails nothing leaks, and then the size of the    *)
(* cache is the length of the vector.                                      *)
NothingLeaks == leaked = <<>> /\ call # Wild

LEMMA NothingLeaksStep ==
  ASSUME "evict" \notin Faults, DescriptorInv, NothingLeaks, [Next]_vars
  PROVE  NothingLeaks'
<1> USE DEF DescriptorInv
<1>1. Wild \notin Call /\ Wild # NoCall
  BY SentinelAssumption
<1>2. CASE Client
  <2>1. ASSUME NEW t \in Threads, NEW c \in Call, Enter(t, c) PROVE NothingLeaks'
    BY <2>1, <1>1 DEF Enter, NothingLeaks, cache
  <2>2. ASSUME NEW t \in Threads, NEW fd \in Fds, NEW n \in Counts, NEW v \in Values,
               NEW op \in {"read", "write"}, CallReadWrite(t, op, fd, n, v)
        PROVE  NothingLeaks'
    <3>1. [op |-> op, fd |-> fd, at |-> pos[fd], left |-> n, val |-> v, got |-> <<>>] \in Call
      BY CacheAssumption DEF Call, Inv, TypeOK
    <3> QED BY <2>2, <3>1, <2>1 DEF CallReadWrite
  <2>3. ASSUME NEW t \in Threads, NEW fd \in Fds, NEW op \in {"fsync", "close"},
               CallFsyncClose(t, op, fd)
        PROVE  NothingLeaks'
    <3>1. [op |-> op, fd |-> fd, at |-> 0, left |-> 0, val |-> 0, got |-> <<>>] \in Call
      BY CacheAssumption DEF Call
    <3> QED BY <2>3, <3>1, <2>1 DEF CallFsyncClose
  <2>4. CASE (\E f \in Files : Open(f)) \/ (\E fd \in Fds, p \in Positions : Lseek(fd, p))
    BY <2>4 DEF Open, Lseek, NothingLeaks, cache
  <2> QED BY <1>2, <2>2, <2>3, <2>4, CacheAssumption DEF Client
<1>3. ASSUME NEW t \in Threads, Step(t) PROVE NothingLeaks'
  <2>1. CASE LoadAtEnd(t)
    <3>1. call \in Call
      BY <2>1, LoopTypes DEF Inv, LoadAtEnd, Looping, Running
    <3>2. call' \in Call
      BY <2>1, <3>1 DEF LoadAtEnd, Call
    <3> QED BY <2>1, <3>2, <1>1 DEF LoadAtEnd, NothingLeaks, cache
  <2>2. CASE LoadFails(t) \/ Return(t) \/ SyncFails(t) \/ SyncDone(t) \/ CloseFails(t) \/ CloseUnlock(t)
    BY <2>2, <1>1 DEF LoadFails, Return, SyncFails, SyncDone, CloseFails, CloseUnlock, Unlock, NothingLeaks, cache
  <2>3. CASE Load(t) \/ AddBlock(t) \/ SyncBlock(t) \/ CloseFd(t)
    BY <2>3 DEF Load, AddBlock, SyncBlock, CloseFd, NothingLeaks, cache
  <2>4. CASE Evict(t) \/ CloseBlock(t)
    BY <2>4 DEF Evict, CloseBlock, Delete, NothingLeaks
  <2>5. CASE ReadCopy(t) \/ WriteCopy(t)
    <3>1. call' \in Call /\ leaked' = leaked
      BY <2>5, ReadCopyInv, WriteCopyInv DEF ReadCopy, WriteCopy, cache
    <3> QED BY <3>1, <1>1 DEF NothingLeaks
  <2>6. ~EvictFails(t)
    BY DEF EvictFails, PwriteFails, NoOrphans
  <2>7. ~EvictNothing(t)
    <3>1. blocks = <<>> => size = 0
      BY DEF NothingLeaks, Inv, SizeCounts
    <3> QED BY <3>1, CacheAssumption DEF EvictNothing, Evicting
  <2> QED BY <1>3, <2>1, <2>2, <2>3, <2>4, <2>5, <2>6, <2>7 DEF Step
<1>4. CASE UNCHANGED vars
  BY <1>4 DEF vars, NothingLeaks
<1> QED BY <1>2, <1>3, <1>4 DEF Next

(* evict_if_needed never draws from an empty vector, provided clients are  *)
(* careful and the write-back of an eviction does not fail.                *)
THEOREM EvictionFindsABlock ==
  ASSUME Careful, "evict" \notin Faults
  PROVE  Spec => []EvictionPicksABlock
<1>1. Init => NothingLeaks
  BY SentinelAssumption DEF Init, NothingLeaks
<1>2. DescriptorInv /\ NothingLeaks /\ [Next]_vars => NothingLeaks'
  BY NothingLeaksStep
<1>3. NothingLeaks => EvictionPicksABlock
  BY DEF NothingLeaks, EvictionPicksABlock
<1> QED BY <1>1, <1>2, <1>3, DescriptorsKept, PTL DEF Spec

(***************************************************************************)
(* Blocks and the cells of their file.                                     *)
(***************************************************************************)
Multiple(o) == \E k \in Nat : o = BLOCK_SIZE * k

(* The valid part of a block is what the file has in its place. *)
InFile(b, s) ==
  \A j \in 1 .. b.valid_size : b.offset + j <= Len(s) /\ s[b.offset + j] = b.data[j]

(* A block begins inside its file, and only the last one is not full. *)
Placed(b, s) ==
  /\ Multiple(b.offset) /\ b.offset < Len(s)
  /\ b.valid_size < BLOCK_SIZE => Len(s) <= b.offset + b.valid_size

(* A block that is not dirty need not be written. *)
Sits(b, s) == Placed(b, s) /\ (~b.is_dirty => InFile(b, s))

(* The file after a write-back of the whole valid part. *)
Written(s, b) == Overwrite(s, b.offset, SubSeq(b.data, 1, b.valid_size))

LEMMA BlockOffsetMultiple ==
  ASSUME TypeOK, call \notin {NoCall, Wild}
  PROVE  Multiple(BlockOffset)
<1>1. ASSUME NEW m \in Nat, NEW n \in Nat, n > 0
      PROVE  m \div n \in Nat /\ m - (m % n) = n * (m \div n)
  BY <1>1, SMTT(30)
<1>2. call.at \in Nat /\ BLOCK_SIZE \in Nat /\ BLOCK_SIZE > 0
  BY LoopTypes, CacheAssumption DEF Call
<1> QED BY <1>1, <1>2 DEF Multiple, BlockOffset, Within

(* Two places of blocks do not overlap. *)
LEMMA BlocksApart ==
  ASSUME NEW a \in Nat, NEW b \in Nat, Multiple(a), Multiple(b), a < b
  PROVE  a + BLOCK_SIZE <= b
<1>1. PICK k \in Nat : a = BLOCK_SIZE * k
  BY DEF Multiple
<1>2. PICK m \in Nat : b = BLOCK_SIZE * m
  BY DEF Multiple
<1>3. BLOCK_SIZE \in Nat /\ BLOCK_SIZE > 0
  BY CacheAssumption
<1>4. k < m
  <2>1. m <= k => BLOCK_SIZE * m <= BLOCK_SIZE * k
    BY <1>3, SMTT(30)
  <2> QED BY <1>1, <1>2, <1>3, <2>1
<1>5. PICK d \in Nat : m = k + 1 + d
  <2>1. m - (k + 1) \in Nat
    BY <1>4
  <2> QED BY <2>1
<1>6. BLOCK_SIZE * m = BLOCK_SIZE * k + BLOCK_SIZE + BLOCK_SIZE * d /\ BLOCK_SIZE * d \in Nat
  BY <1>3, <1>5, SMTT(30)
<1>7. BLOCK_SIZE * k \in Nat
  BY <1>3
<1> QED BY <1>1, <1>2, <1>3, <1>6, <1>7

(* A write-back puts the block into the file, lengthens the file at most   *)
(* to the end of the block, and changes no other cell.                     *)
LEMMA WrittenCells ==
  ASSUME NEW s \in Seq(Cells), NEW b \in Block, b.offset <= Len(s)
  PROVE  /\ Written(s, b) \in Seq(Cells)
         /\ Len(Written(s, b)) = IF b.offset + b.valid_size > Len(s) THEN b.offset + b.valid_size ELSE Len(s)
         /\ InFile(b, Written(s, b))
         /\ \A c \in 1 .. Len(Written(s, b)) :
              c <= b.offset \/ b.offset + b.valid_size < c =>
                c <= Len(s) /\ Written(s, b)[c] = s[c]
<1>1. /\ b.offset \in Nat /\ b.valid_size \in 1 .. BLOCK_SIZE /\ BLOCK_SIZE \in Nat
      /\ b.data \in [1 .. BLOCK_SIZE -> Cells] /\ Len(s) \in Nat
  BY CacheAssumption DEF Block
<1> DEFINE v == SubSeq(b.data, 1, b.valid_size)
           o == b.offset
           n == IF o + Len(v) > Len(s) THEN o + Len(v) ELSE Len(s)
<1>2. v \in Seq(Cells) /\ Len(v) = b.valid_size /\ \A j \in 1 .. b.valid_size : v[j] = b.data[j]
  <2>1. \A j \in 1 .. b.valid_size : b.data[j] \in Cells
    BY <1>1
  <2> QED BY <1>1, <2>1, SubSeqProperties
<1>3. Written(s, b) = Overwrite(s, o, v)
  BY DEF Written
<1> HIDE DEF v
<1>4. Written(s, b) \in Seq(Cells) /\ Len(Written(s, b)) = n
  BY <1>1, <1>2, <1>3, OverwriteType
<1>5. \A c \in 1 .. n :
        Written(s, b)[c] = IF c > o /\ c <= o + Len(v) THEN v[c - o] ELSE IF c <= Len(s) THEN s[c] ELSE 0
  BY <1>3 DEF Overwrite
<1>6. ASSUME NEW j \in 1 .. b.valid_size
      PROVE  o + j <= n /\ Written(s, b)[o + j] = b.data[j]
  <2>1. o + j \in 1 .. n /\ (o + j) - o = j /\ o + j > o /\ o + j <= o + Len(v)
    BY <1>1, <1>2
  <2> QED BY <1>2, <1>5, <2>1
<1>7. InFile(b, Written(s, b))
  BY <1>4, <1>6 DEF InFile
<1>8. ASSUME NEW c \in 1 .. n, c <= o \/ o + b.valid_size < c
      PROVE  c <= Len(s) /\ Written(s, b)[c] = s[c]
  BY <1>1, <1>2, <1>5, <1>8
<1> QED BY <1>1, <1>2, <1>4, <1>7, <1>8

(* It leaves the other blocks of the file as they were. *)
LEMMA OthersSit ==
  ASSUME NEW s \in Seq(Cells), NEW b \in Block, NEW c \in Block,
         Placed(b, s), Placed(c, s), c.offset # b.offset
  PROVE  /\ Placed(c, Written(s, b))
         /\ InFile(c, s) => InFile(c, Written(s, b))
<1> DEFINE w == Written(s, b)
<1>1. /\ b.offset \in Nat /\ b.valid_size \in 1 .. BLOCK_SIZE /\ BLOCK_SIZE \in Nat
      /\ c.offset \in Nat /\ c.valid_size \in 1 .. BLOCK_SIZE /\ Len(s) \in Nat
  BY CacheAssumption DEF Block
<1>2. b.offset < Len(s) /\ c.offset < Len(s) /\ Multiple(b.offset) /\ Multiple(c.offset)
  BY DEF Placed
<1>3. c.offset + BLOCK_SIZE <= b.offset \/ b.offset + BLOCK_SIZE <= c.offset
  BY <1>1, <1>2, BlocksApart
<1>4. /\ w \in Seq(Cells)
      /\ Len(w) = IF b.offset + b.valid_size > Len(s) THEN b.offset + b.valid_size ELSE Len(s)
      /\ \A k \in 1 .. Len(w) :
           k <= b.offset \/ b.offset + b.valid_size < k => k <= Len(s) /\ w[k] = s[k]
  BY <1>1, <1>2, WrittenCells
<1> HIDE DEF w
<1>5. Placed(c, w)
  BY <1>1, <1>2, <1>3, <1>4 DEF Placed
<1>6. ASSUME InFile(c, s), NEW j \in 1 .. c.valid_size
      PROVE  c.offset + j <= Len(w) /\ w[c.offset + j] = c.data[j]
  <2>1. c.offset + j <= Len(s) /\ s[c.offset + j] = c.data[j]
    BY <1>6 DEF InFile
  <2>2. c.offset + j \in 1 .. Len(w)
    BY <1>1, <1>4, <2>1
  <2>3. c.offset + j <= b.offset \/ b.offset + b.valid_size < c.offset + j
    BY <1>1, <1>3
  <2> QED BY <1>4, <2>1, <2>2, <2>3
<1>7. InFile(c, s) => InFile(c, w)
  BY <1>6 DEF InFile
<1> QED BY <1>5, <1>7 DEF w

(* The block itself may be marked clean. *)
LEMMA WrittenSits ==
  ASSUME NEW s \in Seq(Cells), NEW b \in Block, Placed(b, s)
  PROVE  Placed(b, Written(s, b)) /\ InFile(b, Written(s, b))
<1>1. /\ b.offset \in Nat /\ b.valid_size \in 1 .. BLOCK_SIZE /\ BLOCK_SIZE \in Nat /\ Len(s) \in Nat
  BY CacheAssumption DEF Block
<1>2. b.offset < Len(s)
  BY DEF Placed
<1>3. /\ Written(s, b) \in Seq(Cells) /\ InFile(b, Written(s, b))
      /\ Len(Written(s, b)) = IF b.offset + b.valid_size > Len(s) THEN b.offset + b.valid_size ELSE Len(s)
  BY <1>1, <1>2, WrittenCells
<1> QED BY <1>1, <1>2, <1>3 DEF Placed

(***************************************************************************)
(* What is clean is on the disk, if no file is open twice and pwrite,      *)
(* other than that of lab2_fsync and lab2_close, does not fail or stop     *)
(* short.                                                                  *)
(***************************************************************************)
PlainUse ==
  /\ Careful /\ "alias" \notin Liberties
  /\ "evict" \notin Faults /\ "short" \notin Faults

OneDescriptor == \A d, e \in Fds : fdfile[d] # NoFile /\ fdfile[d] = fdfile[e] => d = e

BlocksSit(bs, files, cells) == \A i \in DOMAIN bs : Sits(bs[i], cells[files[bs[i].fd]])

FreshSits(b, files, cells) ==
  b # NoBlock => Placed(b, cells[files[b.fd]]) /\ InFile(b, cells[files[b.fd]])

FileInv ==
  /\ DescriptorInv /\ NothingLeaks /\ OneDescriptor
  /\ BlocksSit(blocks, fdfile, disk) /\ FreshSits(fresh, fdfile, disk)

(* The blocks that are in use, and where. *)
LEMMA OpenFiles ==
  ASSUME FileInv
  PROVE  /\ blocks \in Seq(Block) /\ disk \in [Files -> Seq(Cells)]
         /\ \A i \in DOMAIN blocks :
              blocks[i] \in Block /\ blocks[i].fd \in Fds /\ fdfile[blocks[i].fd] \in Files
         /\ call # NoCall => call \in Call /\ call.fd \in Fds /\ fdfile[call.fd] \in Files
         /\ fresh # NoBlock => /\ fresh \in Block /\ call # NoCall /\ fresh.fd = call.fd
<1> USE DEF FileInv, DescriptorInv
<1>1. TypeOK /\ call # Wild
  BY DEF Inv, NothingLeaks
<1>2. ASSUME NEW i \in DOMAIN blocks
      PROVE  blocks[i] \in Block /\ blocks[i].fd \in Fds /\ fdfile[blocks[i].fd] \in Files
  <2>1. blocks[i] \in Block /\ fdfile[blocks[i].fd] # NoFile
    BY <1>1 DEF TypeOK, NoOrphans
  <2> QED BY <1>1, <2>1 DEF TypeOK, Block
<1>3. call # NoCall => call \in Call /\ call.fd \in Fds /\ fdfile[call.fd] \in Files
  <2>1. call # NoCall => call \in Call /\ fdfile[call.fd] # NoFile
    BY <1>1 DEF TypeOK, CallOnOpen
  <2> QED BY <1>1, <2>1 DEF TypeOK, Call
<1>4. fresh # NoBlock => fresh \in Block /\ call # NoCall /\ fresh.fd = call.fd
  BY <1>1 DEF TypeOK, CallOnOpen
<1> QED BY <1>1, <1>2, <1>3, <1>4 DEF TypeOK

(* Descriptors of different numbers, and blocks of different places, do    *)
(* not meet in a file.                                                     *)
LEMMA WriteBack ==
  ASSUME PlainUse, FileInv, NEW i \in DOMAIN blocks, Pwrite(blocks[i])
  PROVE  LET b == blocks[i]
             f == fdfile[b.fd] IN
         /\ b \in Block /\ f \in Files /\ disk' = [disk EXCEPT ![f] = Written(disk[f], b)]
         /\ Placed(b, disk'[f]) /\ InFile(b, disk'[f])
         /\ \A j \in DOMAIN blocks : Sits(blocks[j], disk'[fdfile[blocks[j].fd]])
         /\ FreshSits(fresh, fdfile, disk')
<1> DEFINE b == blocks[i]
           f == fdfile[b.fd]
           w == Written(disk[f], b)
<1>1. /\ b \in Block /\ b.fd \in Fds /\ f \in Files /\ disk[f] \in Seq(Cells)
      /\ disk \in [Files -> Seq(Cells)]
  BY OpenFiles
<1>2. disk' = [disk EXCEPT ![f] = w]
  BY DEF Pwrite, Transfers, PlainUse, Written
<1>3. Placed(b, disk[f])
  BY DEF FileInv, BlocksSit, Sits
<1>4. Placed(b, w) /\ InFile(b, w)
  BY <1>1, <1>3, WrittenSits
<1>5. disk'[f] = w /\ \A g \in Files : g # f => disk'[g] = disk[g]
  BY <1>1, <1>2
<1> HIDE DEF w
<1>6. ASSUME NEW c \in Block, c.fd \in Fds, fdfile[c.fd] \in Files, Placed(c, disk[fdfile[c.fd]]),
             c.fd # b.fd \/ c.offset # b.offset
      PROVE  /\ Placed(c, disk'[fdfile[c.fd]])
             /\ InFile(c, disk[fdfile[c.fd]]) => InFile(c, disk'[fdfile[c.fd]])
  <2>1. CASE c.fd = b.fd
    BY <1>1, <1>3, <1>5, <1>6, <2>1, OthersSit DEF w
  <2>2. CASE c.fd # b.fd
    <3>1. fdfile[c.fd] # f
      BY <1>1, <1>6, <2>2, CacheAssumption DEF FileInv, OneDescriptor
    <3> QED BY <1>5, <1>6, <3>1
  <2> QED BY <2>1, <2>2
<1>7. ASSUME NEW j \in DOMAIN blocks PROVE Sits(blocks[j], disk'[fdfile[blocks[j].fd]])
  <2>1. /\ blocks[j] \in Block /\ blocks[j].fd \in Fds /\ fdfile[blocks[j].fd] \in Files
        /\ Placed(blocks[j], disk[fdfile[blocks[j].fd]])
        /\ ~blocks[j].is_dirty => InFile(blocks[j], disk[fdfile[blocks[j].fd]])
    BY OpenFiles DEF FileInv, BlocksSit, Sits
  <2>2. CASE j = i
    BY <1>4, <1>5, <2>2 DEF Sits
  <2>3. CASE j # i
    <3>1. blocks[j].fd # b.fd \/ blocks[j].offset # b.offset
      BY <2>3 DEF FileInv, DescriptorInv, Inv, NoDuplicates, IsBlock
    <3> QED BY <1>6, <2>1, <3>1 DEF Sits
  <2> QED BY <2>2, <2>3
<1>8. FreshSits(fresh, fdfile, disk')
  <2> SUFFICES ASSUME fresh # NoBlock
               PROVE  Placed(fresh, disk'[fdfile[fresh.fd]]) /\ InFile(fresh, disk'[fdfile[fresh.fd]])
    BY DEF FreshSits
  <2>1. /\ fresh \in Block /\ fresh.fd \in Fds /\ fdfile[fresh.fd] \in Files
        /\ Placed(fresh, disk[fdfile[fresh.fd]]) /\ InFile(fresh, disk[fdfile[fresh.fd]])
    BY OpenFiles DEF FileInv, FreshSits
  <2>2. fresh.fd # b.fd \/ fresh.offset # b.offset
    BY DEF FileInv, DescriptorInv, Inv, NoDuplicates, IsBlock
  <2> QED BY <1>6, <2>1, <2>2
<1> QED BY <1>1, <1>2, <1>4, <1>5, <1>7, <1>8 DEF w

Settled == OneDescriptor /\ BlocksSit(blocks, fdfile, disk) /\ FreshSits(fresh, fdfile, disk)

LEMMA OpenSettles == ASSUME PlainUse, FileInv, NEW f \in Files, Open(f) PROVE Settled'
<1>1. PICK fd \in Fds : fdfile[fd] = NoFile /\ fdfile' = [fdfile EXCEPT ![fd] = f]
  BY DEF Open, LowestFree
<1>2. UNCHANGED <<disk, blocks, fresh>> /\ \A e \in Fds : fdfile[e] # f
  BY DEF Open, cache, PlainUse
<1>3. fdfile \in [Fds -> Files \union {NoFile}]
  BY FdTypes DEF FileInv, DescriptorInv, Inv
<1>4. OneDescriptor'
  BY <1>1, <1>2, <1>3 DEF FileInv, OneDescriptor
<1>5. NoFile \notin Files
  BY CacheAssumption
<1>6. ASSUME NEW e \in Fds, fdfile[e] \in Files PROVE fdfile'[e] = fdfile[e]
  BY <1>1, <1>3, <1>5, <1>6
<1>7. BlocksSit(blocks, fdfile', disk)
  <2>1. ASSUME NEW i \in DOMAIN blocks PROVE fdfile'[blocks[i].fd] = fdfile[blocks[i].fd]
    BY <1>6, OpenFiles
  <2> QED BY <2>1 DEF FileInv, BlocksSit
<1>8. FreshSits(fresh, fdfile', disk)
  <2>1. fresh # NoBlock => fdfile'[fresh.fd] = fdfile[fresh.fd]
    BY <1>6, OpenFiles
  <2> QED BY <2>1 DEF FileInv, FreshSits
<1> QED BY <1>2, <1>4, <1>7, <1>8 DEF Settled

LEMMA CloseFdSettles == ASSUME FileInv, NEW t \in Threads, CloseFd(t) PROVE Settled'
<1> DEFINE fd == closing[t]
<1>1. /\ fd # NoFd /\ fdfile' = [fdfile EXCEPT ![fd] = NoFile]
      /\ UNCHANGED <<disk, blocks, fresh, call>>
  BY DEF CloseFd, cache
<1>2. /\ fdfile \in [Fds -> Files \union {NoFile}] /\ fd \in Fds
  BY <1>1, FdTypes DEF FileInv, DescriptorInv, Inv
<1>3. /\ \A i \in DOMAIN blocks : blocks[i].fd # fd
      /\ call # NoCall => call.fd # fd
  BY <1>1 DEF FileInv, DescriptorInv, ClosingClean, CallOnOpen, NothingLeaks
<1> HIDE DEF fd
<1>4. OneDescriptor'
  BY <1>1, <1>2 DEF FileInv, OneDescriptor
<1>5. ASSUME NEW e \in Fds, e # fd PROVE fdfile'[e] = fdfile[e]
  BY <1>1, <1>2, <1>5
<1>6. BlocksSit(blocks, fdfile', disk)
  <2>1. ASSUME NEW i \in DOMAIN blocks PROVE fdfile'[blocks[i].fd] = fdfile[blocks[i].fd]
    BY <1>3, <1>5, OpenFiles
  <2> QED BY <2>1 DEF FileInv, BlocksSit
<1>7. FreshSits(fresh, fdfile', disk)
  <2>1. fresh # NoBlock => fdfile'[fresh.fd] = fdfile[fresh.fd]
    BY <1>3, <1>5, OpenFiles
  <2> QED BY <2>1 DEF FileInv, FreshSits
<1> QED BY <1>1, <1>4, <1>6, <1>7 DEF Settled

LEMMA LoadSettles == ASSUME FileInv, NEW t \in Threads, Load(t) PROVE Settled'
<1> DEFINE f == fdfile[call.fd]
           c == Pread(f, BlockOffset)
<1>1. /\ f \in Files /\ BlockOffset \in Nat /\ Len(c) \in 1 .. BLOCK_SIZE
      /\ fresh'.fd = call.fd /\ fresh'.offset = BlockOffset /\ fresh'.valid_size = Len(c)
      /\ \A j \in 1 .. Len(c) : fresh'.data[j] = c[j]
  BY LoadedBlock DEF FileInv, DescriptorInv, Inv
<1>2. UNCHANGED <<disk, fdfile, blocks>> /\ call \notin {NoCall, Wild}
  BY DEF Load, Looping, Running, kernel, cache
<1>3. /\ Len(c) = IF BlockOffset < Len(disk[f]) THEN Smaller(BLOCK_SIZE, Len(disk[f]) - BlockOffset) ELSE 0
      /\ \A j \in 1 .. Len(c) : c[j] = disk[f][BlockOffset + j]
      /\ disk[f] \in Seq(Cells) /\ BLOCK_SIZE \in Nat
  BY <1>1, PreadCells, CacheAssumption DEF FileInv, DescriptorInv, Inv, TypeOK
<1>4. Multiple(BlockOffset)
  BY <1>2, BlockOffsetMultiple DEF FileInv, DescriptorInv, Inv
<1> HIDE DEF c
<1>5. /\ BlockOffset < Len(disk[f]) /\ BlockOffset + Len(c) <= Len(disk[f])
      /\ Len(c) < BLOCK_SIZE => Len(disk[f]) <= BlockOffset + Len(c)
  BY <1>1, <1>3 DEF Smaller
<1> HIDE DEF f
<1>6. Placed(fresh', disk[f])
  BY <1>1, <1>4, <1>5 DEF Placed
<1>7. InFile(fresh', disk[f])
  BY <1>1, <1>3, <1>5 DEF InFile
<1>8. FreshSits(fresh', fdfile, disk)
  BY <1>1, <1>6, <1>7 DEF FreshSits, f
<1> QED BY <1>2, <1>8 DEF FileInv, Settled, OneDescriptor

LEMMA AddBlockSettles == ASSUME FileInv, NEW t \in Threads, AddBlock(t) PROVE Settled'
<1>1. /\ fresh # NoBlock /\ blocks' = Append(blocks, fresh) /\ fresh' = NoBlock
      /\ UNCHANGED <<disk, fdfile>>
  BY DEF AddBlock, kernel
<1>2. blocks \in Seq(Block) /\ fresh \in Block
  BY <1>1, OpenFiles
<1>3. \A i \in DOMAIN blocks' : (i \in DOMAIN blocks /\ blocks'[i] = blocks[i]) \/ blocks'[i] = fresh
  BY <1>1, <1>2, AppendProperties
<1>4. Sits(fresh, disk[fdfile[fresh.fd]])
  BY <1>1 DEF FileInv, FreshSits, Sits
<1>5. BlocksSit(blocks', fdfile, disk)
  BY <1>3, <1>4 DEF FileInv, BlocksSit
<1> QED BY <1>1, <1>5 DEF FileInv, Settled, FreshSits, OneDescriptor

LEMMA DeleteSettles ==
  ASSUME PlainUse, FileInv, NEW i \in DOMAIN blocks, Delete(i), UNCHANGED <<fdfile, fresh>>
  PROVE  Settled'
<1>1. blocks' = RemoveAt(blocks, i) /\ blocks \in Seq(Block) /\ i \in 1 .. Len(blocks)
  BY OpenFiles DEF Delete
<1>2. \A j \in DOMAIN blocks' : \E k \in DOMAIN blocks : blocks'[j] = blocks[k]
  <2>1. /\ blocks' \in Seq(Block) /\ Len(blocks') = Len(blocks) - 1
        /\ \A j \in 1 .. (Len(blocks) - 1) : blocks'[j] = blocks[IF j < i THEN j ELSE j + 1]
    BY <1>1, RemoveAtProperties
  <2>2. \A j \in DOMAIN blocks' : (IF j < i THEN j ELSE j + 1) \in DOMAIN blocks
    BY <1>1, <2>1
  <2>3. \A j \in DOMAIN blocks' : blocks'[j] = blocks[IF j < i THEN j ELSE j + 1]
    BY <1>1, <2>1
  <2> QED BY <2>2, <2>3
<1>3. /\ \A j \in DOMAIN blocks : Sits(blocks[j], disk'[fdfile[blocks[j].fd]])
      /\ FreshSits(fresh, fdfile, disk')
  <2>1. CASE blocks[i].is_dirty
    <3>1. Pwrite(blocks[i])
      BY <2>1 DEF Delete
    <3> QED BY <3>1, WriteBack
  <2>2. CASE ~blocks[i].is_dirty
    BY <2>2 DEF Delete, FileInv, BlocksSit
  <2> QED BY <2>1, <2>2
<1>4. BlocksSit(blocks', fdfile, disk')
  BY <1>2, <1>3 DEF BlocksSit
<1> QED BY <1>3, <1>4 DEF FileInv, Settled, OneDescriptor

LEMMA SyncBlockSettles == ASSUME PlainUse, FileInv, NEW t \in Threads, SyncBlock(t) PROVE Settled'
<1>1. PICK i \in DOMAIN blocks : Pwrite(blocks[i]) /\ blocks' = [blocks EXCEPT ![i].is_dirty = FALSE]
  BY DEF SyncBlock
<1>2. UNCHANGED <<fdfile, fresh>>
  BY DEF SyncBlock
<1>3. /\ \A j \in DOMAIN blocks : Sits(blocks[j], disk'[fdfile[blocks[j].fd]])
      /\ FreshSits(fresh, fdfile, disk')
      /\ Placed(blocks[i], disk'[fdfile[blocks[i].fd]]) /\ InFile(blocks[i], disk'[fdfile[blocks[i].fd]])
  BY <1>1, WriteBack
<1> DEFINE b == [blocks[i] EXCEPT !.is_dirty = FALSE]
<1>4. blocks \in Seq(Block) /\ blocks[i] \in Block
  BY OpenFiles
<1>5. b.fd = blocks[i].fd /\ b.offset = blocks[i].offset /\ b.valid_size = blocks[i].valid_size
      /\ b.data = blocks[i].data
  BY <1>4 DEF Block
<1>6. blocks' = [blocks EXCEPT ![i] = b]
  BY <1>1
<1> HIDE DEF b
<1>7. Sits(b, disk'[fdfile[b.fd]])
  BY <1>3, <1>5 DEF Sits, Placed, InFile
<1>8. BlocksSit(blocks', fdfile, disk')
  BY <1>3, <1>4, <1>6, <1>7 DEF BlocksSit
<1> QED BY <1>2, <1>3, <1>8 DEF FileInv, Settled, OneDescriptor

LEMMA WriteCopySettles == ASSUME FileInv, NEW t \in Threads, WriteCopy(t) PROVE Settled'
<1>1. PICK i \in DOMAIN blocks, b \in Block : blocks' = [blocks EXCEPT ![i] = b] /\ Rewrites(b, blocks[i])
  BY WrittenBlock DEF FileInv, DescriptorInv
<1>2. UNCHANGED <<disk, fdfile, fresh>>
  BY DEF WriteCopy, kernel
<1>3. blocks \in Seq(Block) /\ blocks[i] \in Block /\ disk[fdfile[b.fd]] \in Seq(Cells)
  BY <1>1, OpenFiles DEF Rewrites
<1>4. Placed(blocks[i], disk[fdfile[b.fd]])
  BY <1>1 DEF Rewrites, FileInv, BlocksSit, Sits
<1>5. b.offset = blocks[i].offset /\ b.is_dirty /\ b.valid_size >= blocks[i].valid_size
  BY <1>1, <1>3 DEF Rewrites, Block
<1>6. /\ b.offset \in Nat /\ b.valid_size \in Nat /\ blocks[i].valid_size \in Nat /\ BLOCK_SIZE \in Nat
      /\ Len(disk[fdfile[b.fd]]) \in Nat
  BY <1>3, CacheAssumption DEF Block
<1>7. Sits(b, disk[fdfile[b.fd]])
  BY <1>4, <1>5, <1>6 DEF Sits, Placed
<1>8. BlocksSit(blocks', fdfile, disk)
  BY <1>1, <1>3, <1>7 DEF FileInv, BlocksSit
<1> QED BY <1>2, <1>8 DEF FileInv, Settled, OneDescriptor

LEMMA SettledNext == ASSUME PlainUse, FileInv, [Next]_vars PROVE Settled'
<1>1. CASE UNCHANGED <<disk, fdfile, blocks, fresh>>
  BY <1>1 DEF FileInv, Settled, OneDescriptor
<1>2. CASE Client
  <2>1. ASSUME NEW f \in Files, Open(f) PROVE Settled'
    BY <2>1, OpenSettles
  <2>2. ASSUME NEW fd \in Fds, NEW p \in Positions, Lseek(fd, p) PROVE Settled'
    BY <2>2, <1>1 DEF Lseek, cache
  <2>3. ASSUME NEW t \in Threads, NEW c, Enter(t, c) PROVE Settled'
    BY <2>3, <1>1 DEF Enter, kernel, cache
  <2> QED BY <1>2, <2>1, <2>2, <2>3 DEF Client, CallReadWrite, CallFsyncClose
<1>3. ASSUME NEW t \in Threads, Step(t) PROVE Settled'
  <2>1. CASE \/ LoadAtEnd(t) \/ LoadFails(t) \/ ReadCopy(t) \/ Return(t) \/ SyncFails(t) \/ SyncDone(t)
             \/ CloseFails(t) \/ CloseUnlock(t) \/ EvictNothing(t)
    BY <2>1, <1>1 DEF LoadAtEnd, LoadFails, ReadCopy, Return, SyncFails, SyncDone, CloseFails, CloseUnlock,
                      EvictNothing, kernel, cache
  <2>2. CASE Evict(t) \/ CloseBlock(t)
    BY <2>2, DeleteSettles DEF Evict, CloseBlock
  <2>3. ~EvictFails(t)
    BY DEF EvictFails, PwriteFails, PlainUse, FileInv, DescriptorInv, NoOrphans
  <2> QED BY <1>3, <2>1, <2>2, <2>3, LoadSettles, AddBlockSettles, WriteCopySettles, SyncBlockSettles,
             CloseFdSettles DEF Step
<1> QED BY <1>1, <1>2, <1>3 DEF Next, vars

LEMMA FilesKept == ASSUME PlainUse PROVE Spec => []FileInv
<1>1. Init => NothingLeaks /\ Settled
  <2> SUFFICES ASSUME Init PROVE NothingLeaks /\ Settled
    OBVIOUS
  <2>1. DOMAIN blocks = {}
    BY DEF Init
  <2> QED BY <2>1, SentinelAssumption
          DEF Init, NothingLeaks, Settled, OneDescriptor, BlocksSit, FreshSits
<1>2. DescriptorInv /\ NothingLeaks /\ Settled /\ [Next]_vars => NothingLeaks' /\ Settled'
  BY NothingLeaksStep, SettledNext DEF FileInv, Settled, PlainUse
<1>3. DescriptorInv /\ NothingLeaks /\ Settled <=> FileInv
  BY DEF FileInv, Settled
<1>4. Spec => []DescriptorInv
  BY DescriptorsKept DEF PlainUse
<1> QED BY <1>1, <1>2, <1>3, <1>4, PTL DEF Spec

(* When lab2_fsync is about to answer 0, everything written through its    *)
(* descriptor is on the disk: neither a fresh block of the running call,   *)
(* nor the write-back of one block over another, nor an eviction between   *)
(* the write and the sync can leave a clean block whose cells the disk     *)
(* does not have.                                                          *)
THEOREM SyncsReachTheDisk == ASSUME PlainUse PROVE Spec => SyncReachesDisk
<1>1. ASSUME FileInv, NEW t \in Threads, SyncDone(t)
      PROVE  /\ \A i \in DOMAIN blocks : blocks[i].fd = call.fd => OnDisk(blocks[i])
             /\ \A i \in DOMAIN leaked : leaked[i].fd = call.fd => OnDisk(leaked[i])
  <2>1. \A i \in DOMAIN blocks : blocks[i].fd = call.fd => ~blocks[i].is_dirty
    BY <1>1 DEF SyncDone, DirtyOf
  <2>2. \A i \in DOMAIN blocks : ~blocks[i].is_dirty => InFile(blocks[i], disk[fdfile[blocks[i].fd]])
    BY <1>1 DEF FileInv, BlocksSit, Sits
  <2>3. \A b : OnDisk(b) <=> InFile(b, disk[fdfile[b.fd]])
    BY DEF OnDisk, InFile
  <2>4. DOMAIN leaked = {}
    BY <1>1 DEF FileInv, NothingLeaks
  <2> QED BY <2>1, <2>2, <2>3, <2>4
<1> DEFINE A == \A t \in Threads : SyncDone(t) =>
                  /\ \A i \in DOMAIN blocks : blocks[i].fd = call.fd => OnDisk(blocks[i])
                  /\ \A i \in DOMAIN leaked : leaked[i].fd = call.fd => OnDisk(leaked[i])
<1>2. FileInv /\ [Next]_vars => [A]_vars
  BY <1>1
<1>3. SyncReachesDisk <=> [][A]_vars
  BY DEF SyncReachesDisk
<1> HIDE DEF A
<1> QED BY <1>2, <1>3, FilesKept, PTL DEF Spec

(***************************************************************************)
(* The contents of a file: what its blocks have, and elsewhere the disk.   *)
(***************************************************************************)
Holds(b, c) == b.offset < c /\ c <= b.offset + b.valid_size

(* s is the file f as the cache with blocks bs shows it. *)
Shows(bs, files, cells, f, s) ==
  /\ Len(cells[f]) <= Len(s)
  /\ \A i \in DOMAIN bs : files[bs[i].fd] = f => InFile(bs[i], s)
  /\ \A c \in 1 .. Len(s) :
       (\A i \in DOMAIN bs : files[bs[i].fd] = f => ~Holds(bs[i], c))
         => c <= Len(cells[f]) /\ s[c] = cells[f][c]

HoldingIn(bs, files, f, c) ==
  {i \in DOMAIN bs : /\ files[bs[i].fd] = f
                     /\ bs[i].offset < c /\ c <= bs[i].offset + bs[i].valid_size}

EndsIn(bs, files, cells, f) ==
  {Len(cells[f])} \union
  {bs[i].offset + bs[i].valid_size : i \in {j \in DOMAIN bs : files[bs[j].fd] = f}}

ContentsIn(bs, files, cells, f) ==
  [c \in 1 .. Max(EndsIn(bs, files, cells, f)) |->
     IF HoldingIn(bs, files, f, c) = {} THEN cells[f][c]
     ELSE bs[Min(HoldingIn(bs, files, f, c))].data[c - bs[Min(HoldingIn(bs, files, f, c))].offset]]

LEMMA ContentsAre ==
  \A f : /\ Contents(f) = ContentsIn(blocks, fdfile, disk, f)
         /\ Contents(f)' = ContentsIn(blocks', fdfile', disk', f)
  BY DEF Contents, Holding, ContentsIn, HoldingIn, EndsIn

LEMMA MaxIs ==
  ASSUME NEW S \in SUBSET Nat, NEW m \in S, \A n \in S : n <= m
  PROVE  Max(S) = m
<1>1. \A x \in S : (\A y \in S : x >= y) <=> x = m
  OBVIOUS
<1> QED BY <1>1 DEF Max

LEMMA MinIn ==
  ASSUME NEW S \in SUBSET Nat, S # {}
  PROVE  Min(S) \in S
<1>1. IsWellFoundedOn(OpToRel(<, Nat), Nat)
  BY NatLessThanWellFounded
<1>2. \E n \in S : \A m \in S : <<m, n>> \notin OpToRel(<, Nat)
  BY <1>1, WFMin
<1>3. \A m, n \in Nat : <<m, n>> \notin OpToRel(<, Nat) => n <= m
  BY DEF OpToRel
<1>4. \E n \in S : \A m \in S : n <= m
  BY <1>2, <1>3
<1> QED BY <1>4 DEF Min

(* There is only one such sequence: every holder of a cell has the same    *)
(* value in it, and the last cell is held or on the disk.                  *)
LEMMA ShownIsContents ==
  ASSUME NEW bs \in Seq(Block), NEW files, NEW cells, NEW f, NEW s \in Seq(Cells),
         cells[f] \in Seq(Cells), Shows(bs, files, cells, f, s)
  PROVE  ContentsIn(bs, files, cells, f) = s
<1> DEFINE Mine == {j \in DOMAIN bs : files[bs[j].fd] = f}
           Ends == EndsIn(bs, files, cells, f)
<1>1. Len(s) \in Nat /\ Len(cells[f]) \in Nat /\ DOMAIN bs \subseteq Nat
  OBVIOUS
<1>2. \A i \in Mine : /\ bs[i].offset \in Nat /\ bs[i].valid_size \in Nat /\ bs[i].valid_size > 0
                      /\ InFile(bs[i], s)
  <2>1. ASSUME NEW i \in Mine
        PROVE  bs[i].offset \in Nat /\ bs[i].valid_size \in Nat /\ bs[i].valid_size > 0
    <3>1. bs[i] \in Block
      OBVIOUS
    <3> QED BY <3>1, CacheAssumption DEF Block
  <2>2. \A i \in Mine : InFile(bs[i], s)
    BY DEF Shows
  <2> QED BY <2>1, <2>2
<1>3. \A i \in Mine : bs[i].offset + bs[i].valid_size <= Len(s)
  BY <1>2 DEF InFile
<1>4. Max(Ends) = Len(s)
  <2>1. Ends \in SUBSET Nat /\ \A n \in Ends : n <= Len(s)
    <3>1. Ends = {Len(cells[f])} \union {bs[i].offset + bs[i].valid_size : i \in Mine}
      BY DEF EndsIn
    <3>2. Len(cells[f]) <= Len(s)
      BY DEF Shows
    <3> HIDE DEF Ends, Mine
    <3> QED BY <1>1, <1>2, <1>3, <3>1, <3>2
  <2>2. Len(s) \in Ends
    <3>1. CASE Len(s) = 0
      <4>1. Len(cells[f]) = Len(s)
        BY <1>1, <3>1 DEF Shows
      <4> QED BY <4>1 DEF EndsIn
    <3>2. CASE Len(s) # 0
      <4>1. Len(s) \in 1 .. Len(s)
        BY <1>1, <3>2
      <4>2. CASE \E i \in Mine : Holds(bs[i], Len(s))
        <5>1. PICK i \in Mine : Holds(bs[i], Len(s))
          BY <4>2
        <5>2. bs[i].offset + bs[i].valid_size = Len(s)
          BY <1>1, <1>2, <1>3, <5>1 DEF Holds
        <5> QED BY <5>2 DEF EndsIn
      <4>3. CASE ~\E i \in Mine : Holds(bs[i], Len(s))
        <5>1. Len(s) <= Len(cells[f]) /\ Len(cells[f]) <= Len(s)
          BY <4>1, <4>3 DEF Shows
        <5>2. Len(s) = Len(cells[f])
          BY <1>1, <5>1
        <5> QED BY <5>2 DEF EndsIn
      <4> QED BY <4>2, <4>3
    <3> QED BY <3>1, <3>2
  <2> QED BY <2>1, <2>2, MaxIs
<1>5. ASSUME NEW c \in 1 .. Len(s)
      PROVE  s[c] = IF HoldingIn(bs, files, f, c) = {} THEN cells[f][c]
                    ELSE bs[Min(HoldingIn(bs, files, f, c))].data[c - bs[Min(HoldingIn(bs, files, f, c))].offset]
  <2> DEFINE H == HoldingIn(bs, files, f, c)
  <2>1. \A i : i \in H <=> i \in Mine /\ Holds(bs[i], c)
    BY DEF HoldingIn, Holds
  <2>2. CASE H = {}
    <3>1. \A i \in DOMAIN bs : files[bs[i].fd] = f => ~Holds(bs[i], c)
      BY <2>1, <2>2
    <3>2. s[c] = cells[f][c]
      BY <3>1 DEF Shows
    <3> QED BY <2>2, <3>2
  <2>3. CASE H # {}
    <3>1. PICK i : i = Min(H)
      OBVIOUS
    <3>2. i \in Mine /\ Holds(bs[i], c)
      <4>1. H \in SUBSET Nat
        BY <1>1, <2>1
      <4> HIDE DEF H
      <4> QED BY <2>1, <2>3, <3>1, <4>1, MinIn
    <3>3. /\ bs[i].offset \in Nat /\ bs[i].valid_size \in Nat /\ InFile(bs[i], s)
      BY <1>2, <3>2
    <3>4. c - bs[i].offset \in 1 .. bs[i].valid_size /\ bs[i].offset + (c - bs[i].offset) = c
      BY <1>1, <3>2, <3>3 DEF Holds
    <3>5. s[c] = bs[i].data[c - bs[i].offset]
      BY <3>3, <3>4 DEF InFile
    <3> QED BY <2>3, <3>1, <3>5
  <2> QED BY <2>2, <2>3
<1>6. s = [c \in 1 .. Len(s) |-> s[c]]
  OBVIOUS
<1> QED BY <1>4, <1>5, <1>6 DEF ContentsIn

ViewInv ==
  \A f \in Files : Contents(f) \in Seq(Cells) /\ Shows(blocks, fdfile, disk, f, Contents(f))

(* The contents after a step, once they are known to be shown. *)
LEMMA NextContents ==
  ASSUME NEW f \in Files, NEW s \in Seq(Cells), blocks' \in Seq(Block), disk' \in [Files -> Seq(Cells)],
         Shows(blocks', fdfile', disk', f, s)
  PROVE  Contents(f)' = s
<1>1. disk'[f] \in Seq(Cells)
  OBVIOUS
<1>2. ContentsIn(blocks', fdfile', disk', f) = s
  BY <1>1, ShownIsContents
<1> QED BY <1>2, ContentsAre

(* Blocks of one file lie beside one another in it. *)
LEMMA BlocksBeside ==
  ASSUME NEW b \in Block, NEW c \in Block, NEW s \in Seq(Cells), Placed(b, s), Placed(c, s),
         b.offset # c.offset
  PROVE  b.offset + BLOCK_SIZE <= c.offset \/ c.offset + BLOCK_SIZE <= b.offset
<1>1. b.offset \in Nat /\ c.offset \in Nat
  BY DEF Block
<1> QED BY <1>1, BlocksApart DEF Placed

LEMMA SameFileBlocks ==
  ASSUME FileInv, NEW i \in DOMAIN blocks, NEW j \in DOMAIN blocks,
         fdfile[blocks[i].fd] = fdfile[blocks[j].fd]
  PROVE  i = j \/ blocks[i].offset + BLOCK_SIZE <= blocks[j].offset
               \/ blocks[j].offset + BLOCK_SIZE <= blocks[i].offset
<1>1. /\ blocks[i] \in Block /\ blocks[j] \in Block /\ blocks[i].fd \in Fds /\ blocks[j].fd \in Fds
      /\ fdfile[blocks[i].fd] \in Files /\ disk[fdfile[blocks[i].fd]] \in Seq(Cells)
  BY OpenFiles
<1>2. blocks[i].fd = blocks[j].fd
  BY <1>1, CacheAssumption DEF FileInv, OneDescriptor
<1>3. Placed(blocks[i], disk[fdfile[blocks[i].fd]]) /\ Placed(blocks[j], disk[fdfile[blocks[i].fd]])
  BY <1>2 DEF FileInv, BlocksSit, Sits
<1>4. i # j => blocks[i].offset # blocks[j].offset
  BY <1>2 DEF FileInv, DescriptorInv, Inv, NoDuplicates, IsBlock
<1> QED BY <1>1, <1>3, <1>4, BlocksBeside

(* Files, blocks and descriptors of blocks stay: so do the contents. *)
LEMMA ViewOutside ==
  ASSUME FileInv, ViewInv, UNCHANGED <<disk, blocks>>,
         \A i \in DOMAIN blocks : fdfile'[blocks[i].fd] = fdfile[blocks[i].fd]
  PROVE  \A f \in Files : Contents(f)' = Contents(f) /\ Shows(blocks', fdfile', disk', f, Contents(f))
<1>1. ASSUME NEW f \in Files PROVE Contents(f)' = Contents(f) /\ Shows(blocks', fdfile', disk', f, Contents(f))
  <2>1. Shows(blocks, fdfile, disk, f, Contents(f)) /\ Contents(f) \in Seq(Cells)
    BY DEF ViewInv
  <2>2. PICK s \in Seq(Cells) : s = Contents(f)
    BY <2>1
  <2>3. Shows(blocks, fdfile', disk, f, s)
    BY <2>1, <2>2 DEF Shows
  <2>4. blocks' \in Seq(Block) /\ disk' \in [Files -> Seq(Cells)]
    BY OpenFiles
  <2> QED BY <2>2, <2>3, <2>4, NextContents
<1> QED BY <1>1

(* A block that is loaded shows what the disk has. *)
LEMMA ViewAddBlock ==
  ASSUME FileInv, ViewInv, NEW t \in Threads, AddBlock(t), blocks' \in Seq(Block)
  PROVE  \A f \in Files : Contents(f)' = Contents(f) /\ Shows(blocks', fdfile', disk', f, Contents(f))
<1>1. /\ fresh # NoBlock /\ blocks' = Append(blocks, fresh) /\ UNCHANGED <<disk, fdfile>>
  BY DEF AddBlock, kernel
<1>2. /\ blocks \in Seq(Block) /\ fresh \in Block /\ disk \in [Files -> Seq(Cells)]
      /\ call # NoCall /\ fresh.fd = call.fd /\ fresh.fd \in Fds
  BY <1>1, OpenFiles
<1>3. /\ Len(blocks) \in Nat /\ Len(blocks') = Len(blocks) + 1
      /\ \A i \in 1 .. Len(blocks) : blocks'[i] = blocks[i]
      /\ blocks'[Len(blocks) + 1] = fresh
  BY <1>1, <1>2, AppendProperties
<1>4. ASSUME NEW f \in Files PROVE Contents(f)' = Contents(f) /\ Shows(blocks', fdfile', disk', f, Contents(f))
  <2>1. PICK s \in Seq(Cells) : s = Contents(f) /\ Shows(blocks, fdfile, disk, f, s)
    BY DEF ViewInv
  <2>2. disk[f] \in Seq(Cells)
    BY <1>2
  <2>3. ASSUME fdfile[fresh.fd] = f PROVE InFile(fresh, s)
    <3>1. Placed(fresh, disk[f]) /\ InFile(fresh, disk[f])
      BY <1>1, <2>3 DEF FileInv, FreshSits
    <3>2. /\ fresh.offset \in Nat /\ fresh.valid_size \in 1 .. BLOCK_SIZE /\ BLOCK_SIZE \in Nat
      BY <1>2, CacheAssumption DEF Block
    <3> SUFFICES ASSUME NEW j \in 1 .. fresh.valid_size
                 PROVE  fresh.offset + j <= Len(s) /\ s[fresh.offset + j] = fresh.data[j]
      BY DEF InFile
    <3>3. fresh.offset + j <= Len(disk[f]) /\ disk[f][fresh.offset + j] = fresh.data[j]
      BY <3>1 DEF InFile
    <3>4. Len(disk[f]) <= Len(s) /\ Len(s) \in Nat
      BY <2>1 DEF Shows
    <3>5. fresh.offset + j \in 1 .. Len(s)
      BY <2>2, <3>2, <3>3, <3>4
    <3>6. ASSUME NEW i \in DOMAIN blocks, fdfile[blocks[i].fd] = f
          PROVE  ~Holds(blocks[i], fresh.offset + j)
      <4>1. /\ blocks[i] \in Block /\ blocks[i].fd \in Fds
        BY OpenFiles
      <4>2. blocks[i].fd = fresh.fd
        BY <1>2, <2>3, <3>6, <4>1, CacheAssumption DEF FileInv, OneDescriptor
      <4>3. blocks[i].offset # fresh.offset
        BY <1>1, <4>2 DEF FileInv, DescriptorInv, Inv, NoDuplicates, IsBlock
      <4>4. Placed(blocks[i], disk[f])
        BY <3>6 DEF FileInv, BlocksSit, Sits
      <4>5. fresh.offset + BLOCK_SIZE <= blocks[i].offset \/ blocks[i].offset + BLOCK_SIZE <= fresh.offset
        BY <1>2, <2>2, <3>1, <4>1, <4>3, <4>4, BlocksBeside
      <4>6. blocks[i].offset \in Nat /\ blocks[i].valid_size \in 1 .. BLOCK_SIZE
        BY <4>1 DEF Block
      <4> QED BY <3>2, <4>5, <4>6 DEF Holds
    <3>7. s[fresh.offset + j] = disk[f][fresh.offset + j]
      BY <2>1, <3>5, <3>6 DEF Shows
    <3> QED BY <3>3, <3>5, <3>7
  <2>4. Shows(blocks', fdfile, disk, f, s)
    <3>1. \A i \in DOMAIN blocks' : (i \in DOMAIN blocks /\ blocks'[i] = blocks[i]) \/ blocks'[i] = fresh
      BY <1>1, <1>2, <1>3
    <3>2. \A i \in DOMAIN blocks : i \in DOMAIN blocks' /\ blocks'[i] = blocks[i]
      BY <1>1, <1>2, <1>3
    <3> QED BY <2>1, <2>3, <3>1, <3>2 DEF Shows
  <2> QED BY <1>1, <1>2, <2>1, <2>4, NextContents
<1> QED BY <1>4

(* old becomes new when the block is on the disk: by its write-back, or    *)
(* because it was there.                                                   *)
Flushed(b, old, new) ==
  /\ InFile(b, new)
  /\ Len(new) <= Len(old) \/ Len(new) <= b.offset + b.valid_size
  /\ \A c \in 1 .. Len(old) : ~Holds(b, c) => c <= Len(new) /\ new[c] = old[c]

LEMMA WriteBackFlushes ==
  ASSUME PlainUse, FileInv, NEW i \in DOMAIN blocks,
         Pwrite(blocks[i]) \/ (~blocks[i].is_dirty /\ UNCHANGED disk)
  PROVE  /\ disk' \in [Files -> Seq(Cells)] /\ fdfile[blocks[i].fd] \in Files
         /\ Flushed(blocks[i], disk[fdfile[blocks[i].fd]], disk'[fdfile[blocks[i].fd]])
         /\ \A g \in Files : g # fdfile[blocks[i].fd] => disk'[g] = disk[g]
<1> DEFINE b == blocks[i]
           f == fdfile[b.fd]
           w == Written(disk[f], b)
<1>1. /\ b \in Block /\ f \in Files /\ disk \in [Files -> Seq(Cells)] /\ disk[f] \in Seq(Cells)
      /\ Placed(b, disk[f]) /\ (~b.is_dirty => InFile(b, disk[f]))
  BY OpenFiles DEF FileInv, BlocksSit, Sits
<1>2. CASE Pwrite(b)
  <2>1. disk' = [disk EXCEPT ![f] = w]
    BY <1>2, WriteBack
  <2>2. /\ b.offset \in Nat /\ b.valid_size \in Nat /\ b.offset <= Len(disk[f]) /\ Len(disk[f]) \in Nat
    BY <1>1, CacheAssumption DEF Placed, Block
  <2>3. /\ w \in Seq(Cells) /\ InFile(b, w)
        /\ Len(w) = IF b.offset + b.valid_size > Len(disk[f]) THEN b.offset + b.valid_size ELSE Len(disk[f])
        /\ \A c \in 1 .. Len(w) :
             c <= b.offset \/ b.offset + b.valid_size < c => c <= Len(disk[f]) /\ w[c] = disk[f][c]
    BY <1>1, <2>2, WrittenCells
  <2> HIDE DEF w, f, b
  <2>4. \A c \in 1 .. Len(disk[f]) : ~Holds(b, c) => c <= Len(w) /\ w[c] = disk[f][c]
    BY <2>2, <2>3 DEF Holds
  <2>5. Len(w) <= Len(disk[f]) \/ Len(w) <= b.offset + b.valid_size
    BY <2>2, <2>3
  <2>6. Flushed(b, disk[f], w)
    BY <2>3, <2>4, <2>5 DEF Flushed
  <2>7. w = disk'[f] /\ disk' \in [Files -> Seq(Cells)] /\ \A g \in Files : g # f => disk'[g] = disk[g]
    BY <1>1, <2>1, <2>3
  <2> QED BY <1>1, <2>6, <2>7 DEF b, f
<1>3. CASE ~b.is_dirty /\ UNCHANGED disk
  <2>1. Len(disk[f]) \in Nat
    BY <1>1
  <2>2. Flushed(b, disk[f], disk[f])
    BY <1>1, <1>3, <2>1 DEF Flushed
  <2> QED BY <1>1, <1>3, <2>2
<1> QED BY <1>2, <1>3

(* What a block shows may be left to the disk once it is there.            *)
LEMMA ViewFlush ==
  ASSUME PlainUse, FileInv, ViewInv, NEW i \in DOMAIN blocks,
         Pwrite(blocks[i]) \/ (~blocks[i].is_dirty /\ UNCHANGED disk),
         blocks' \in Seq(Block), UNCHANGED fdfile,
         \A j \in DOMAIN blocks' : \E k \in DOMAIN blocks :
            blocks'[j].fd = blocks[k].fd /\ blocks'[j].offset = blocks[k].offset
            /\ blocks'[j].valid_size = blocks[k].valid_size /\ blocks'[j].data = blocks[k].data,
         \A k \in DOMAIN blocks : k # i => \E j \in DOMAIN blocks' :
            blocks'[j].fd = blocks[k].fd /\ blocks'[j].offset = blocks[k].offset
            /\ blocks'[j].valid_size = blocks[k].valid_size
  PROVE  \A f \in Files : Contents(f)' = Contents(f) /\ Shows(blocks', fdfile', disk', f, Contents(f))
<1> DEFINE b == blocks[i]
           g == fdfile[b.fd]
<1>1. /\ disk' \in [Files -> Seq(Cells)] /\ disk \in [Files -> Seq(Cells)] /\ g \in Files /\ b \in Block
      /\ Flushed(b, disk[g], disk'[g])
      /\ \A f \in Files : f # g => disk'[f] = disk[f]
  BY WriteBackFlushes, OpenFiles
<1>2. b.offset \in Nat /\ b.valid_size \in Nat /\ b.valid_size > 0
  BY <1>1, CacheAssumption DEF Block
<1>3. ASSUME NEW f \in Files PROVE Contents(f)' = Contents(f) /\ Shows(blocks', fdfile', disk', f, Contents(f))
  <2>1. PICK s \in Seq(Cells) : s = Contents(f) /\ Shows(blocks, fdfile, disk, f, s)
    BY DEF ViewInv
  <2>2. /\ Len(s) \in Nat /\ Len(disk[f]) \in Nat /\ Len(disk'[f]) \in Nat /\ Len(disk[f]) <= Len(s)
    BY <1>1, <2>1 DEF Shows
  <2>3. g = f => InFile(b, s)
    BY <2>1 DEF Shows
  <2>4. Len(disk'[f]) <= Len(s)
    <3>1. CASE f # g
      BY <1>1, <2>2, <3>1
    <3>2. CASE f = g
      <4>1. b.offset + b.valid_size <= Len(s)
        BY <1>2, <2>3, <3>2 DEF InFile
      <4> QED BY <1>1, <1>2, <2>2, <3>2, <4>1 DEF Flushed
    <3> QED BY <3>1, <3>2
  <2>5. ASSUME NEW j \in DOMAIN blocks', fdfile'[blocks'[j].fd] = f PROVE InFile(blocks'[j], s)
    <3>1. PICK k \in DOMAIN blocks :
            /\ blocks'[j].fd = blocks[k].fd /\ blocks'[j].offset = blocks[k].offset
            /\ blocks'[j].valid_size = blocks[k].valid_size /\ blocks'[j].data = blocks[k].data
      OBVIOUS
    <3>2. fdfile[blocks[k].fd] = f
      BY <2>5, <3>1
    <3>3. InFile(blocks[k], s)
      BY <2>1, <3>2 DEF Shows
    <3> QED BY <3>1, <3>3 DEF InFile
  <2>6. ASSUME NEW c \in 1 .. Len(s),
               \A j \in DOMAIN blocks' : fdfile'[blocks'[j].fd] = f => ~Holds(blocks'[j], c)
        PROVE  c <= Len(disk'[f]) /\ s[c] = disk'[f][c]
    <3>1. ASSUME NEW k \in DOMAIN blocks, k # i, fdfile[blocks[k].fd] = f PROVE ~Holds(blocks[k], c)
      <4>1. PICK j \in DOMAIN blocks' :
              blocks'[j].fd = blocks[k].fd /\ blocks'[j].offset = blocks[k].offset
              /\ blocks'[j].valid_size = blocks[k].valid_size
        BY <3>1
      <4>2. fdfile'[blocks'[j].fd] = f
        BY <3>1, <4>1
      <4> QED BY <2>6, <4>1, <4>2 DEF Holds
    <3>2. CASE f = g /\ Holds(b, c)
      <4>1. c - b.offset \in 1 .. b.valid_size /\ b.offset + (c - b.offset) = c
        BY <1>2, <2>2, <3>2 DEF Holds
      <4>2. s[c] = b.data[c - b.offset]
        BY <2>3, <3>2, <4>1 DEF InFile
      <4>3. InFile(b, disk'[f])
        BY <1>1, <3>2 DEF Flushed
      <4>4. c <= Len(disk'[f]) /\ disk'[f][c] = b.data[c - b.offset]
        BY <4>1, <4>3 DEF InFile
      <4> QED BY <4>2, <4>4
    <3>3. CASE ~(f = g /\ Holds(b, c))
      <4>1. \A k \in DOMAIN blocks : fdfile[blocks[k].fd] = f => ~Holds(blocks[k], c)
        BY <3>1, <3>3
      <4>2. c \in 1 .. Len(disk[f]) /\ s[c] = disk[f][c]
        BY <2>1, <2>2, <4>1 DEF Shows
      <4>3. CASE f = g
        BY <1>1, <3>3, <4>2, <4>3 DEF Flushed
      <4>4. CASE f # g
        BY <1>1, <4>2, <4>4
      <4> QED BY <4>3, <4>4
    <3> QED BY <3>2, <3>3
  <2>7. Shows(blocks', fdfile', disk', f, s)
    BY <2>4, <2>5, <2>6 DEF Shows
  <2> QED BY <1>1, <2>1, <2>7, NextContents
<1> QED BY <1>3

LEMMA ViewDelete ==
  ASSUME PlainUse, FileInv, ViewInv, NEW i \in DOMAIN blocks, Delete(i), UNCHANGED fdfile
  PROVE  \A f \in Files : Contents(f)' = Contents(f) /\ Shows(blocks', fdfile', disk', f, Contents(f))
<1>1. blocks \in Seq(Block) /\ i \in 1 .. Len(blocks) /\ blocks' = RemoveAt(blocks, i)
  BY OpenFiles DEF Delete
<1>2. /\ blocks' \in Seq(Block) /\ Len(blocks') = Len(blocks) - 1
      /\ \A j \in 1 .. (Len(blocks) - 1) : blocks'[j] = blocks[IF j < i THEN j ELSE j + 1]
  BY <1>1, RemoveAtProperties
<1>3. \A j \in DOMAIN blocks' : \E k \in DOMAIN blocks : blocks'[j] = blocks[k]
  <2>1. \A j \in DOMAIN blocks' : (IF j < i THEN j ELSE j + 1) \in DOMAIN blocks
    BY <1>1, <1>2
  <2>2. \A j \in DOMAIN blocks' : blocks'[j] = blocks[IF j < i THEN j ELSE j + 1]
    BY <1>1, <1>2
  <2> QED BY <2>1, <2>2
<1>4. \A k \in DOMAIN blocks : k # i => \E j \in DOMAIN blocks' : blocks'[j] = blocks[k]
  <2> SUFFICES ASSUME NEW k \in DOMAIN blocks, k # i PROVE \E j \in DOMAIN blocks' : blocks'[j] = blocks[k]
    OBVIOUS
  <2>1. PICK j \in Int : j = IF k < i THEN k ELSE k - 1
    BY <1>1
  <2>2. j \in DOMAIN blocks' /\ (IF j < i THEN j ELSE j + 1) = k
    BY <1>1, <1>2, <2>1
  <2>3. blocks'[j] = blocks[k]
    BY <1>1, <1>2, <2>2
  <2> QED BY <2>2, <2>3
<1>5. Pwrite(blocks[i]) \/ (~blocks[i].is_dirty /\ UNCHANGED disk)
  <2>1. CASE blocks[i].is_dirty
    <3>1. Pwrite(blocks[i])
      BY <2>1 DEF Delete
    <3> QED BY <3>1
  <2>2. CASE ~blocks[i].is_dirty
    BY <2>2 DEF Delete
  <2> QED BY <2>1, <2>2
<1>6. /\ \A j \in DOMAIN blocks' : \E k \in DOMAIN blocks :
            blocks'[j].fd = blocks[k].fd /\ blocks'[j].offset = blocks[k].offset
            /\ blocks'[j].valid_size = blocks[k].valid_size /\ blocks'[j].data = blocks[k].data
      /\ \A k \in DOMAIN blocks : k # i => \E j \in DOMAIN blocks' :
            blocks'[j].fd = blocks[k].fd /\ blocks'[j].offset = blocks[k].offset
            /\ blocks'[j].valid_size = blocks[k].valid_size
  <2>1. ASSUME NEW j \in DOMAIN blocks'
        PROVE  \E k \in DOMAIN blocks :
            blocks'[j].fd = blocks[k].fd /\ blocks'[j].offset = blocks[k].offset
            /\ blocks'[j].valid_size = blocks[k].valid_size /\ blocks'[j].data = blocks[k].data
    <3>1. PICK k \in DOMAIN blocks : blocks'[j] = blocks[k]
      BY <1>3
    <3> QED BY <3>1
  <2>2. ASSUME NEW k \in DOMAIN blocks, k # i
        PROVE  \E j \in DOMAIN blocks' :
            blocks'[j].fd = blocks[k].fd /\ blocks'[j].offset = blocks[k].offset
            /\ blocks'[j].valid_size = blocks[k].valid_size
    <3>1. PICK j \in DOMAIN blocks' : blocks'[j] = blocks[k]
      BY <1>4, <2>2
    <3> QED BY <3>1
  <2> QED BY <2>1, <2>2
<1> QED BY <1>2, <1>5, <1>6, ViewFlush

LEMMA ViewSyncBlock ==
  ASSUME PlainUse, FileInv, ViewInv, NEW t \in Threads, SyncBlock(t), blocks' \in Seq(Block)
  PROVE  \A f \in Files : Contents(f)' = Contents(f) /\ Shows(blocks', fdfile', disk', f, Contents(f))
<1>1. PICK i \in DOMAIN blocks : Pwrite(blocks[i]) /\ blocks' = [blocks EXCEPT ![i].is_dirty = FALSE]
  BY DEF SyncBlock
<1>2. UNCHANGED fdfile
  BY DEF SyncBlock
<1> DEFINE b == [blocks[i] EXCEPT !.is_dirty = FALSE]
<1>3. blocks \in Seq(Block) /\ blocks[i] \in Block
  BY OpenFiles
<1>4. b.fd = blocks[i].fd /\ b.offset = blocks[i].offset /\ b.valid_size = blocks[i].valid_size
      /\ b.data = blocks[i].data
  BY <1>3 DEF Block
<1>5. blocks' = [blocks EXCEPT ![i] = b]
  BY <1>1
<1> HIDE DEF b
<1>6. DOMAIN blocks' = DOMAIN blocks
  BY <1>5
<1>7. \A k \in DOMAIN blocks :
        blocks'[k].fd = blocks[k].fd /\ blocks'[k].offset = blocks[k].offset
        /\ blocks'[k].valid_size = blocks[k].valid_size /\ blocks'[k].data = blocks[k].data
  BY <1>3, <1>4, <1>5
<1>8. /\ \A j \in DOMAIN blocks' : \E k \in DOMAIN blocks :
            blocks'[j].fd = blocks[k].fd /\ blocks'[j].offset = blocks[k].offset
            /\ blocks'[j].valid_size = blocks[k].valid_size /\ blocks'[j].data = blocks[k].data
      /\ \A k \in DOMAIN blocks : k # i => \E j \in DOMAIN blocks' :
            blocks'[j].fd = blocks[k].fd /\ blocks'[j].offset = blocks[k].offset
            /\ blocks'[j].valid_size = blocks[k].valid_size
  BY <1>6, <1>7
<1>9. Pwrite(blocks[i])
  BY <1>1
<1> QED BY <1>2, <1>8, <1>9, ViewFlush

(***************************************************************************)
(* Clients that do not seek behind the end stay inside the file.           *)
(***************************************************************************)
Transferring == call \notin {NoCall, Wild} /\ call.op \in {"read", "write"}

PositionInv ==
  /\ \A fd \in Fds : fdfile[fd] # NoFile => pos[fd] <= Len(Data[fdfile[fd]])
  /\ Transferring => call.at <= Len(Data[fdfile[call.fd]])

(* A block that is not full ends with the file. *)
LEMMA LastBlock ==
  ASSUME FileInv, NEW i \in DOMAIN blocks, NEW s \in Seq(Cells),
         Shows(blocks, fdfile, disk, fdfile[blocks[i].fd], s), blocks[i].valid_size < BLOCK_SIZE
  PROVE  Len(s) = blocks[i].offset + blocks[i].valid_size
<1> DEFINE b == blocks[i]
           f == fdfile[b.fd]
<1>1. /\ b \in Block /\ f \in Files /\ disk[f] \in Seq(Cells) /\ Placed(b, disk[f])
  BY OpenFiles DEF FileInv, BlocksSit, Sits
<1>2. /\ b.offset \in Nat /\ b.valid_size \in 1 .. BLOCK_SIZE /\ BLOCK_SIZE \in Nat
      /\ Len(s) \in Nat /\ Len(disk[f]) \in Nat
  BY <1>1, CacheAssumption DEF Block
<1>3. Len(disk[f]) <= b.offset + b.valid_size
  BY <1>1 DEF Placed
<1>4. InFile(b, s)
  BY DEF Shows
<1>5. b.offset + b.valid_size <= Len(s)
  BY <1>2, <1>4 DEF InFile
<1>6. ASSUME Len(s) > b.offset + b.valid_size PROVE FALSE
  <2>1. Len(s) \in 1 .. Len(s)
    BY <1>2, <1>6
  <2>2. ASSUME NEW j \in DOMAIN blocks, fdfile[blocks[j].fd] = f PROVE ~Holds(blocks[j], Len(s))
    <3>1. /\ blocks[j] \in Block /\ Placed(blocks[j], disk[f])
      BY <2>2, OpenFiles DEF FileInv, BlocksSit, Sits
    <3>2. blocks[j].offset \in Nat /\ blocks[j].valid_size \in 1 .. BLOCK_SIZE /\ blocks[j].offset < Len(disk[f])
      BY <3>1 DEF Block, Placed
    <3>3. j = i \/ b.offset + BLOCK_SIZE <= blocks[j].offset \/ blocks[j].offset + BLOCK_SIZE <= b.offset
      BY <2>2, SameFileBlocks
    <3>4. j = i \/ blocks[j].offset + blocks[j].valid_size <= b.offset
      BY <1>2, <1>3, <3>2, <3>3
    <3> QED BY <1>2, <1>6, <3>2, <3>4 DEF Holds
  <2>3. Len(s) <= Len(disk[f])
    BY <2>1, <2>2 DEF Shows
  <2> QED BY <1>2, <1>3, <1>6, <2>3
<1> QED BY <1>2, <1>5, <1>6

(* Where a call is in the block it has found. *)
LEMMA AtBlock ==
  ASSUME FileInv, NEW i, Found(i), call \notin {NoCall, Wild}, call.left > 0
  PROVE  /\ i \in DOMAIN blocks /\ blocks[i] \in Block /\ blocks[i].fd = call.fd
         /\ call \in Call /\ fdfile[call.fd] \in Files
         /\ Within \in 0 .. (BLOCK_SIZE - 1) /\ call.at = blocks[i].offset + Within
         /\ ToCopy \in 1 .. call.left /\ Within + ToCopy <= BLOCK_SIZE
<1>1. /\ call \in Call /\ Within \in 0 .. (BLOCK_SIZE - 1) /\ BlockOffset \in Nat
      /\ ToCopy \in 1 .. call.left /\ Within + ToCopy <= BLOCK_SIZE
  BY LoopTypes DEF FileInv, DescriptorInv, Inv
<1>2. i \in DOMAIN blocks /\ blocks[i].fd = call.fd /\ blocks[i].offset = BlockOffset
  BY DEF Found, IsBlock
<1>3. call.at \in Nat /\ BLOCK_SIZE \in Nat
  BY <1>1, CacheAssumption DEF Call
<1>4. call.at = BlockOffset + Within
  <2>1. BlockOffset = call.at - Within
    BY DEF BlockOffset
  <2> HIDE DEF Within
  <2> QED BY <1>1, <1>3, <2>1
<1> QED BY <1>1, <1>2, <1>4, OpenFiles

(* A write puts the client's cells into the file and changes no other. *)
LEMMA ViewWriteCopy ==
  ASSUME FileInv, ViewInv, PositionInv, NEW t \in Threads, WriteCopy(t), blocks' \in Seq(Block)
  PROVE  LET g == fdfile[call.fd] IN
         /\ g \in Files /\ call.at <= Len(Contents(g))
         /\ \A f \in Files :
              /\ Contents(f)' = IF f = g THEN Contract!Stored(Contents(g), call.at, ToCopy, call.val)
                                ELSE Contents(f)
              /\ Contents(f)' \in Seq(Cells)
              /\ Shows(blocks', fdfile', disk', f, Contents(f)')
<1> PICK g : g = fdfile[call.fd]
  OBVIOUS
<1> DEFINE n == ToCopy
<1>1. PICK i \in DOMAIN blocks, b \in Block :
        Found(i) /\ blocks' = [blocks EXCEPT ![i] = b] /\ Rewrites(b, blocks[i])
  BY WrittenBlock DEF FileInv, DescriptorInv
<1> DEFINE a == blocks[i]
<1>2. UNCHANGED <<disk, fdfile>> /\ Transferring /\ call.left > 0
  BY DEF WriteCopy, Looping, Running, kernel, Transferring
<1>3. /\ a \in Block /\ a.fd = call.fd /\ g \in Files /\ call \in Call
      /\ Within \in 0 .. (BLOCK_SIZE - 1) /\ call.at = a.offset + Within
      /\ n \in 1 .. call.left /\ Within + n <= BLOCK_SIZE
  BY <1>1, <1>2, AtBlock DEF Transferring
<1>4. /\ b.fd = a.fd /\ b.offset = a.offset
      /\ b.valid_size = IF Within + n > a.valid_size THEN Within + n ELSE a.valid_size
      /\ \A j \in 1 .. BLOCK_SIZE : b.data[j] = IF j > Within /\ j <= Within + n THEN call.val ELSE a.data[j]
  BY <1>1 DEF Rewrites
<1>5. /\ a.offset \in Nat /\ a.valid_size \in 1 .. BLOCK_SIZE /\ BLOCK_SIZE \in Nat /\ call.at \in Nat
      /\ call.left \in Nat /\ call.val \in Cells /\ 0 \in Cells
  BY <1>3, CacheAssumption DEF Block, Call, Cells
<1>6. /\ blocks \in Seq(Block) /\ disk' \in [Files -> Seq(Cells)]
      /\ DOMAIN blocks' = DOMAIN blocks /\ blocks'[i] = b
      /\ \A j \in DOMAIN blocks : j # i => blocks'[j] = blocks[j]
  BY <1>1, <1>2, OpenFiles
<1>7. PICK s \in Seq(Cells) : s = Contents(g) /\ Shows(blocks, fdfile, disk, g, s)
  BY <1>3 DEF ViewInv
<1>8. Len(s) \in Nat /\ call.at <= Len(s) /\ InFile(a, s)
  BY <1>2, <1>3, <1>7 DEF PositionInv, Shows, Data
<1>9. a.valid_size < BLOCK_SIZE => Len(s) = a.offset + a.valid_size
  BY <1>3, <1>7, LastBlock
<1>10. Within <= a.valid_size
  BY <1>3, <1>5, <1>8, <1>9
<1> DEFINE r == Contract!Stored(s, call.at, n, call.val)
           top == IF call.at + n > Len(s) THEN call.at + n ELSE Len(s)
<1> HIDE DEF n, a
<1>11. /\ n \in Nat /\ n > 0 /\ Within \in Nat /\ b.offset = a.offset /\ b.offset \in Nat
       /\ b.valid_size \in 1 .. BLOCK_SIZE /\ a.valid_size <= b.valid_size /\ Within + n <= b.valid_size
       /\ b.valid_size = a.valid_size \/ b.valid_size = Within + n
       /\ a.offset \in Nat /\ call.at \in Nat /\ call.at = a.offset + Within
       /\ BLOCK_SIZE \in Nat /\ Within + n <= BLOCK_SIZE /\ Len(s) \in Nat /\ call.at <= Len(s)
  BY <1>3, <1>4, <1>5, <1>8
<1>12. /\ top \in Nat /\ Len(s) <= top /\ call.at + n <= top
       /\ top = Len(s) \/ top = call.at + n
  BY <1>5, <1>8, <1>11
<1>13. r \in Seq(Cells) /\ Len(r) = top
       /\ \A c \in 1 .. top : r[c] = IF c > call.at /\ c <= call.at + n THEN call.val ELSE s[c]
  <2>1. top \in Nat
    BY <1>12
  <2>2. \A c \in 1 .. top : (IF c > call.at /\ c <= call.at + n THEN call.val ELSE s[c]) \in Cells
    BY <1>3, <1>5, <1>8
  <2>3. r = [c \in 1 .. top |-> IF c > call.at /\ c <= call.at + n THEN call.val ELSE s[c]]
    BY DEF Contract!Stored
  <2> HIDE DEF r, top
  <2> QED BY <2>1, <2>2, <2>3
<1> HIDE DEF r, top
<1>14. InFile(b, r)
  <2> SUFFICES ASSUME NEW j \in 1 .. b.valid_size
               PROVE  b.offset + j <= Len(r) /\ r[b.offset + j] = b.data[j]
    BY DEF InFile
  <2>1. j \in 1 .. BLOCK_SIZE
    BY <1>5, <1>11
  <2>2. CASE j > Within /\ j <= Within + n
    <3>1. b.data[j] = call.val
      BY <1>4, <2>1, <2>2
    <3>2. /\ b.offset + j \in 1 .. top
          /\ b.offset + j > call.at /\ b.offset + j <= call.at + n
      BY <1>11, <1>12, <2>1, <2>2, SMTT(60)
    <3> QED BY <1>13, <3>1, <3>2
  <2>3. CASE ~(j > Within /\ j <= Within + n)
    <3>1. j \in 1 .. a.valid_size
      BY <1>5, <1>10, <1>11, <2>1, <2>3
    <3>2. a.offset + j <= Len(s) /\ s[a.offset + j] = a.data[j]
      BY <1>8, <3>1 DEF InFile
    <3>3. a.offset + j \in 1 .. top /\ ~(a.offset + j > call.at /\ a.offset + j <= call.at + n)
      BY <1>11, <1>12, <2>1, <2>3, <3>2, SMTT(60)
    <3> QED BY <1>4, <1>13, <2>1, <2>3, <3>2, <3>3
  <2> QED BY <2>2, <2>3
<1>15. ASSUME NEW j \in DOMAIN blocks, j # i, fdfile[blocks[j].fd] = g PROVE InFile(blocks[j], r)
  <2>1. blocks[j] \in Block /\ InFile(blocks[j], s)
    BY <1>7, <1>15, OpenFiles DEF Shows
  <2>2. blocks[j].offset \in Nat /\ blocks[j].valid_size \in 1 .. BLOCK_SIZE
    BY <2>1 DEF Block
  <2>3. a.offset + BLOCK_SIZE <= blocks[j].offset \/ blocks[j].offset + BLOCK_SIZE <= a.offset
    BY <1>3, <1>15, SameFileBlocks DEF a
  <2> SUFFICES ASSUME NEW k \in 1 .. blocks[j].valid_size
               PROVE  blocks[j].offset + k <= Len(r) /\ r[blocks[j].offset + k] = blocks[j].data[k]
    BY DEF InFile
  <2>4. blocks[j].offset + k <= Len(s) /\ s[blocks[j].offset + k] = blocks[j].data[k]
    BY <2>1 DEF InFile
  <2>5. /\ blocks[j].offset + k \in 1 .. top
        /\ ~(blocks[j].offset + k > call.at /\ blocks[j].offset + k <= call.at + n)
    BY <1>11, <1>12, <2>2, <2>3, <2>4, SMTT(60)
  <2> QED BY <1>13, <2>4, <2>5
<1>16. ASSUME NEW c \in 1 .. Len(r),
              \A j \in DOMAIN blocks' : fdfile'[blocks'[j].fd] = g => ~Holds(blocks'[j], c)
       PROVE  c <= Len(disk[g]) /\ r[c] = disk[g][c]
  <2>1. ~Holds(b, c)
    BY <1>2, <1>3, <1>4, <1>6, <1>16
  <2>2. c \in 1 .. top
    BY <1>13, <1>12
  <2>3. ~Holds(a, c) /\ ~(c > call.at /\ c <= call.at + n)
    <3>1. a.valid_size \in Nat
      BY <1>5
    <3> QED BY <1>11, <1>12, <2>1, <2>2, <3>1, SMTT(60) DEF Holds
  <2>4. c \in 1 .. Len(s) /\ r[c] = s[c]
    BY <1>13, <1>11, <1>12, <2>2, <2>3
  <2>5. ASSUME NEW j \in DOMAIN blocks, fdfile[blocks[j].fd] = g PROVE ~Holds(blocks[j], c)
    <3>1. CASE j = i
      BY <2>3, <3>1 DEF a
    <3>2. CASE j # i
      BY <1>2, <1>6, <1>16, <2>5, <3>2
    <3> QED BY <3>1, <3>2
  <2> QED BY <1>7, <2>4, <2>5 DEF Shows
<1>17. Shows(blocks', fdfile', disk', g, r)
  <2>1. Len(disk'[g]) <= Len(r)
    <3>1. disk[g] \in Seq(Cells) /\ Len(disk[g]) <= Len(s)
      BY <1>2, <1>3, <1>6, <1>7 DEF Shows
    <3> QED BY <1>2, <1>8, <1>13, <1>12, <3>1
  <2>2. ASSUME NEW j \in DOMAIN blocks', fdfile'[blocks'[j].fd] = g PROVE InFile(blocks'[j], r)
    BY <1>2, <1>6, <1>14, <1>15, <2>2
  <2>3. ASSUME NEW c \in 1 .. Len(r),
               \A j \in DOMAIN blocks' : fdfile'[blocks'[j].fd] = g => ~Holds(blocks'[j], c)
        PROVE  c <= Len(disk'[g]) /\ r[c] = disk'[g][c]
    BY <1>2, <1>16, <2>3
  <2> QED BY <2>1, <2>2, <2>3 DEF Shows
<1>18. Contents(g)' = r
  BY <1>3, <1>6, <1>13, <1>17, NextContents
<1>19. ASSUME NEW f \in Files, f # g
       PROVE  Contents(f)' = Contents(f) /\ Contents(f) \in Seq(Cells) /\ Shows(blocks', fdfile', disk', f, Contents(f))
  <2>1. PICK u \in Seq(Cells) : u = Contents(f) /\ Shows(blocks, fdfile, disk, f, u)
    BY DEF ViewInv
  <2>2. fdfile[a.fd] # f /\ fdfile[b.fd] # f
    BY <1>3, <1>4, <1>19
  <2>3. \A j \in DOMAIN blocks : fdfile[blocks[j].fd] = f => j # i
    BY <2>2 DEF a
  <2>4. \A j \in DOMAIN blocks : fdfile[blocks'[j].fd] = f => j # i
    BY <1>6, <2>2
  <2>5. Shows(blocks', fdfile', disk', f, u)
    BY <1>2, <1>6, <2>1, <2>3, <2>4 DEF Shows
  <2> QED BY <1>6, <2>1, <2>5, NextContents
<1> QED BY <1>3, <1>7, <1>8, <1>13, <1>17, <1>18, <1>19 DEF r, n

(***************************************************************************)
(* The cache implements a file.                                            *)
(***************************************************************************)
PlainFiles == PlainUse /\ "beyond" \notin Liberties

ContractInv == FileInv /\ ViewInv /\ PositionInv

DataAfterWrite(g) == [Data EXCEPT ![g] = Contract!Stored(Data[g], call.at, ToCopy, call.val)]

LEMMA DataIs ==
  /\ Data = [f \in Files |-> Contents(f)] /\ Data' = [f \in Files |-> Contents(f)']
  BY DEF Data

SameView == \A f \in Files : Contents(f)' = Contents(f) /\ Shows(blocks', fdfile', disk', f, Contents(f))

LEMMA SameViewKeeps == ASSUME ViewInv, SameView PROVE ViewInv' /\ Data' = Data
<1>1. ViewInv'
  BY DEF ViewInv, SameView
<1> QED BY <1>1, DataIs DEF SameView

(* What the files contain changes when a write puts cells into a block,    *)
(* and at no other step: not when a block is loaded, evicted or synced,    *)
(* nor when a descriptor is opened or closed.                              *)
LEMMA ViewOthers ==
  ASSUME FileInv, ViewInv, UNCHANGED <<disk, fdfile, blocks>> PROVE SameView
  BY ViewOutside DEF SameView

LEMMA ViewClient ==
  ASSUME PlainUse, FileInv, ViewInv, Client
  PROVE  ViewInv' /\ Data' = Data
<1>1. ASSUME NEW f \in Files, Open(f) PROVE SameView
  <2>1. PICK fd \in Fds : fdfile[fd] = NoFile /\ fdfile' = [fdfile EXCEPT ![fd] = f]
    BY <1>1 DEF Open, LowestFree
  <2>2. ASSUME NEW i \in DOMAIN blocks PROVE fdfile'[blocks[i].fd] = fdfile[blocks[i].fd]
    <3>1. blocks[i].fd \in Fds /\ blocks[i].fd # fd /\ fdfile \in [Fds -> Files \union {NoFile}]
      BY <2>1, OpenFiles, FdTypes, CacheAssumption DEF FileInv, DescriptorInv, Inv
    <3> QED BY <2>1, <3>1
  <2> QED BY <1>1, <2>2, ViewOutside DEF Open, SameView, cache
<1>2. ASSUME NEW fd \in Fds, NEW p \in Positions, Lseek(fd, p) PROVE SameView
  BY <1>2, ViewOthers DEF Lseek, cache
<1>3. ASSUME NEW t \in Threads, NEW c, Enter(t, c) PROVE SameView
  BY <1>3, ViewOthers DEF Enter, kernel, cache
<1>4. SameView
  BY <1>1, <1>2, <1>3 DEF Client, CallReadWrite, CallFsyncClose
<1> QED BY <1>4, SameViewKeeps

LEMMA ViewWrite ==
  ASSUME FileInv, ViewInv, PositionInv, FileInv', NEW t \in Threads, WriteCopy(t)
  PROVE  ViewInv' /\ Data' = DataAfterWrite(fdfile[call.fd])
<1> PICK g : g = fdfile[call.fd]
  OBVIOUS
<1>1. blocks' \in Seq(Block)
  BY DEF FileInv, DescriptorInv, Inv, TypeOK
<1>2. /\ g \in Files
      /\ \A f \in Files :
            /\ Contents(f)' = IF f = g THEN Contract!Stored(Contents(g), call.at, ToCopy, call.val)
                              ELSE Contents(f)
            /\ Contents(f)' \in Seq(Cells)
            /\ Shows(blocks', fdfile', disk', f, Contents(f)')
  BY <1>1, ViewWriteCopy
<1>3. ViewInv'
  BY <1>2 DEF ViewInv
<1>4. Data[g] = Contents(g)
  BY <1>2, DataIs
<1>5. Data' = [f \in Files |-> IF f = g THEN Contract!Stored(Data[g], call.at, ToCopy, call.val) ELSE Data[f]]
  BY <1>2, <1>4, DataIs
<1>6. Data' = DataAfterWrite(g)
  BY <1>2, <1>5, DataIs DEF DataAfterWrite
<1> QED BY <1>3, <1>6

LEMMA ViewStep ==
  ASSUME PlainUse, FileInv, ViewInv, FileInv', NEW t \in Threads, Step(t), ~WriteCopy(t)
  PROVE  ViewInv' /\ Data' = Data
<1>1. blocks' \in Seq(Block)
  BY DEF FileInv, DescriptorInv, Inv, TypeOK
<1>2. CASE \/ Load(t) \/ LoadAtEnd(t) \/ LoadFails(t) \/ ReadCopy(t) \/ Return(t) \/ SyncFails(t) \/ SyncDone(t)
           \/ CloseFails(t) \/ CloseUnlock(t) \/ EvictNothing(t)
  <2>1. UNCHANGED <<disk, fdfile, blocks>>
    BY <1>2 DEF Load, LoadAtEnd, LoadFails, ReadCopy, Return, SyncFails, SyncDone, CloseFails, CloseUnlock,
                EvictNothing, kernel, cache
  <2> QED BY <2>1, ViewOthers, SameViewKeeps
<1>3. CASE Evict(t) \/ CloseBlock(t)
  BY <1>3, ViewDelete, SameViewKeeps DEF Evict, CloseBlock, SameView
<1>4. ~EvictFails(t)
  BY DEF EvictFails, PwriteFails, PlainUse, FileInv, DescriptorInv, NoOrphans
<1>5. CASE AddBlock(t)
  BY <1>1, <1>5, ViewAddBlock, SameViewKeeps DEF SameView
<1>6. CASE SyncBlock(t)
  BY <1>1, <1>6, ViewSyncBlock, SameViewKeeps DEF SameView
<1>7. CASE CloseFd(t)
  <2>1. /\ closing[t] # NoFd /\ fdfile' = [fdfile EXCEPT ![closing[t]] = NoFile]
        /\ UNCHANGED <<disk, blocks>>
    BY <1>7 DEF CloseFd, cache
  <2>2. ASSUME NEW i \in DOMAIN blocks PROVE fdfile'[blocks[i].fd] = fdfile[blocks[i].fd]
    <3>1. blocks[i].fd \in Fds /\ blocks[i].fd # closing[t] /\ fdfile \in [Fds -> Files \union {NoFile}]
      BY <2>1, OpenFiles, FdTypes DEF FileInv, DescriptorInv, Inv, ClosingClean
    <3> QED BY <2>1, <3>1
  <2>3. SameView
    BY <2>1, <2>2, ViewOutside DEF SameView
  <2> QED BY <2>3, SameViewKeeps
<1> QED BY <1>2, <1>3, <1>4, <1>5, <1>6, <1>7 DEF Step

LEMMA DataTypes ==
  ASSUME ViewInv
  PROVE  Data \in [Files -> Seq(Cells)]
         /\ \A f \in Files : Data[f] = Contents(f) /\ Shows(blocks, fdfile, disk, f, Data[f])
  BY DataIs DEF ViewInv

(* A read takes the next cells of the file, and ends early only at its end. *)
LEMMA ReadCells ==
  ASSUME FileInv, ViewInv, PositionInv, NEW t \in Threads, ReadCopy(t)
  PROVE  LET s == Data[fdfile[call.fd]] IN
         \E n \in 0 .. call.left :
           /\ call.at + n <= Len(s)
           /\ call'.at = call.at + n
           /\ call'.got = call.got \o SubSeq(s, call.at + 1, call.at + n)
           /\ call'.left = call.left - n \/ (call'.left = 0 /\ call.at + n = Len(s))
<1>1. PICK i \in DOMAIN blocks :
        /\ Found(i)
        /\ LET n == ValidBytes(blocks[i]) IN
             call' = [call EXCEPT !.at = @ + n, !.left = IF n < ToCopy THEN 0 ELSE @ - n,
                        !.got = @ \o SubSeq(blocks[i].data, Within + 1, Within + n)]
  BY DEF ReadCopy
<1> DEFINE a == blocks[i]
           n == ValidBytes(a)
<1>2. call \notin {NoCall, Wild} /\ call.left > 0 /\ Transferring
  BY DEF ReadCopy, Looping, Running, Transferring
<1> PICK s : s = Data[fdfile[call.fd]]
  OBVIOUS
<1>3. /\ a \in Block /\ a.fd = call.fd /\ call \in Call /\ fdfile[call.fd] \in Files
      /\ Within \in 0 .. (BLOCK_SIZE - 1) /\ call.at = a.offset + Within
      /\ ToCopy \in 1 .. call.left /\ Within + ToCopy <= BLOCK_SIZE
  BY <1>1, <1>2, AtBlock
<1>4. /\ a.offset \in Nat /\ a.valid_size \in 1 .. BLOCK_SIZE /\ BLOCK_SIZE \in Nat /\ call.at \in Nat
      /\ a.data \in [1 .. BLOCK_SIZE -> Cells] /\ call.left \in Nat
  BY <1>3, CacheAssumption DEF Block, Call
<1>5. /\ s \in Seq(Cells) /\ Len(s) \in Nat /\ Shows(blocks, fdfile, disk, fdfile[a.fd], s)
      /\ call.at <= Len(s)
  BY <1>2, <1>3, DataTypes DEF PositionInv
<1>6. InFile(a, s)
  BY <1>5 DEF Shows
<1>7. a.valid_size < BLOCK_SIZE => Len(s) = a.offset + a.valid_size
  BY <1>5, LastBlock
<1>8. Within <= a.valid_size
  BY <1>3, <1>4, <1>5, <1>7
<1>9. /\ n \in 0 .. ToCopy /\ n \in 0 .. call.left /\ Within + n <= a.valid_size
      /\ n < ToCopy => n = a.valid_size - Within /\ a.valid_size < BLOCK_SIZE
  BY <1>3, <1>4, <1>8 DEF ValidBytes, Smaller
<1>10. call' = [call EXCEPT !.at = @ + n, !.left = IF n < ToCopy THEN 0 ELSE @ - n,
                        !.got = @ \o SubSeq(a.data, Within + 1, Within + n)]
  BY <1>1
<1> HIDE DEF n, a
<1>11. a.offset + a.valid_size <= Len(s)
  BY <1>4, <1>6 DEF InFile
<1>12. PICK o \in Nat, w \in Nat, z \in Nat, p \in Nat, e \in Nat :
         o = a.offset /\ w = Within /\ z = a.valid_size /\ p = call.at /\ e = Len(s)
  <2>1. a.valid_size \in Nat
    BY <1>4
  <2>2. Within \in Nat
    <3>1. \A w \in 0 .. (BLOCK_SIZE - 1) : w \in Nat
      OBVIOUS
    <3> QED BY <1>3, <3>1
  <2> QED BY <1>4, <1>5, <2>1, <2>2
<1>13. /\ p = o + w /\ n \in Nat /\ w + n <= z /\ o + z <= e
       /\ n < ToCopy => n = z - w /\ e = o + z
  BY <1>3, <1>4, <1>5, <1>7, <1>9, <1>11, <1>12
<1>14. p + n <= e /\ (n < ToCopy => p + n = e)
  BY <1>13
<1>15. SubSeq(a.data, w + 1, w + n) = SubSeq(s, p + 1, p + n)
  <2> DEFINE u == SubSeq(a.data, w + 1, w + n)
             v == SubSeq(s, p + 1, p + n)
  <2>1. \A k \in (w + 1) .. (w + n) : a.data[k] \in Cells
    <3>1. \A k \in (w + 1) .. (w + n) : k \in 1 .. z
      BY <1>13
    <3> QED BY <1>4, <1>12, <3>1
  <2>2. \A k \in (p + 1) .. (p + n) : s[k] \in Cells
    <3>1. \A k \in (p + 1) .. (p + n) : k \in 1 .. e
      BY <1>13, <1>14
    <3>2. \A k \in 1 .. Len(s) : s[k] \in Cells
      BY <1>5, ElementOfSeq
    <3> QED BY <1>12, <3>1, <3>2
  <2>3. /\ u \in Seq(Cells) /\ Len(u) = n
        /\ \A k \in 1 .. n : u[k] = a.data[w + k]
    <3>1. /\ u \in Seq(Cells)
          /\ Len(u) = IF w + 1 <= w + n THEN (w + n) - (w + 1) + 1 ELSE 0
          /\ \A k \in 1 .. ((w + n) - (w + 1) + 1) : u[k] = a.data[(w + 1) + k - 1]
      BY <1>13, <2>1, SubSeqProperties
    <3> HIDE DEF u
    <3> QED BY <1>13, <3>1
  <2>4. /\ v \in Seq(Cells) /\ Len(v) = n
        /\ \A k \in 1 .. n : v[k] = s[p + k]
    <3>1. /\ v \in Seq(Cells)
          /\ Len(v) = IF p + 1 <= p + n THEN (p + n) - (p + 1) + 1 ELSE 0
          /\ \A k \in 1 .. ((p + n) - (p + 1) + 1) : v[k] = s[(p + 1) + k - 1]
      BY <1>13, <2>2, SubSeqProperties
    <3> HIDE DEF v
    <3> QED BY <1>13, <3>1
  <2>5. ASSUME NEW k \in 1 .. n PROVE a.data[w + k] = s[p + k]
    <3>1. w + k \in 1 .. z
      BY <1>13
    <3>2. s[o + (w + k)] = a.data[w + k]
      BY <1>6, <1>12, <3>1 DEF InFile
    <3>3. o + (w + k) = p + k
      BY <1>13
    <3> QED BY <3>2, <3>3
  <2> HIDE DEF u, v
  <2>6. u = v
    <3>1. /\ Len(u) = Len(v)
          /\ \A k \in 1 .. Len(u) : u[k] = v[k]
      BY <2>3, <2>4, <2>5
    <3> QED BY <2>3, <2>4, <3>1, SeqEqual
  <2> QED BY <2>6 DEF u, v
<1>16. /\ call'.at = call.at + n
       /\ call'.got = call.got \o SubSeq(s, call.at + 1, call.at + n)
       /\ call'.left = IF n < ToCopy THEN 0 ELSE call.left - n
  BY <1>3, <1>10, <1>12, <1>15 DEF Call
<1>17. call.at + n <= Len(s) /\ (n < ToCopy => call.at + n = Len(s))
  BY <1>12, <1>14
<1>18. n \in 0 .. call.left
  BY <1>9
<1>19. call'.left = call.left - n \/ (call'.left = 0 /\ call.at + n = Len(s))
  BY <1>16, <1>17
<1> HIDE DEF Data
<1> QED BY <1>16, <1>17, <1>18, <1>19

(* Where descriptors and the running call are. *)
LEMMA Reached ==
  ASSUME FileInv, ViewInv, PositionInv
  PROVE  /\ Data \in [Files -> Seq(Cells)]
         /\ pos \in [Fds -> Nat] /\ fdfile \in [Fds -> Files \union {NoFile}] /\ NoFile \notin Files
         /\ \A fd \in Fds : fdfile[fd] # NoFile => fdfile[fd] \in Files /\ pos[fd] <= Len(Data[fdfile[fd]])
         /\ Transferring => /\ call \in Call /\ call.fd \in Fds /\ call.at \in Nat /\ call.left \in Nat
                            /\ fdfile[call.fd] \in Files
                            /\ call.at <= Len(Data[fdfile[call.fd]])
<1>1. /\ pos \in [Fds -> Nat] /\ fdfile \in [Fds -> Files \union {NoFile}] /\ NoFile \notin Files
  BY CacheAssumption DEF FileInv, DescriptorInv, Inv, TypeOK
<1>2. Transferring => call \in Call /\ call.fd \in Fds /\ fdfile[call.fd] \in Files
  BY OpenFiles DEF Transferring
<1>3. Transferring => call.at \in Nat /\ call.left \in Nat
  BY <1>2 DEF Call
<1> QED BY <1>1, <1>2, <1>3, DataTypes DEF PositionInv

LEMMA PositionsClient ==
  ASSUME PlainFiles, ContractInv, Client
  PROVE  PositionInv'
<1> USE DEF ContractInv
<1>1. Data' = Data
  BY ViewClient DEF PlainFiles
<1>2. ASSUME NEW f \in Files, Open(f) PROVE PositionInv'
  <2>1. PICK fd \in Fds : /\ fdfile[fd] = NoFile /\ fdfile' = [fdfile EXCEPT ![fd] = f]
                          /\ pos' = [pos EXCEPT ![fd] = 0]
    BY <1>2 DEF Open, LowestFree
  <2>2. UNCHANGED call
    BY <1>2 DEF Open
  <2>3. \A e \in Fds : fdfile'[e] # NoFile => pos'[e] <= Len(Data'[fdfile'[e]])
    <3> SUFFICES ASSUME NEW e \in Fds, fdfile'[e] # NoFile PROVE pos'[e] <= Len(Data'[fdfile'[e]])
      OBVIOUS
    <3>1. CASE e = fd
      <4>1. pos'[e] = 0 /\ fdfile'[e] = f /\ Len(Data[f]) \in Nat
        BY <2>1, <3>1, Reached
      <4> QED BY <1>1, <4>1
    <3>2. CASE e # fd
      BY <1>1, <2>1, <3>2, Reached
    <3> QED BY <3>1, <3>2
  <2>4. Transferring => fdfile'[call.fd] = fdfile[call.fd]
    BY <2>1, Reached
  <2>5. Transferring' => call'.at <= Len(Data'[fdfile'[call'.fd]])
    BY <1>1, <2>2, <2>4, Reached DEF Transferring
  <2> QED BY <2>3, <2>5 DEF PositionInv
<1>3. ASSUME NEW fd \in Fds, NEW p \in Positions, Lseek(fd, p) PROVE PositionInv'
  <2>1. /\ fdfile[fd] # NoFile /\ p <= Len(Contents(fdfile[fd])) /\ pos' = [pos EXCEPT ![fd] = p]
        /\ UNCHANGED <<fdfile, call>>
    BY <1>3 DEF Lseek, Usable, PlainFiles
  <2>2. Data[fdfile[fd]] = Contents(fdfile[fd])
    BY <2>1, Reached, DataTypes
  <2>3. \A e \in Fds : fdfile'[e] # NoFile => pos'[e] <= Len(Data'[fdfile'[e]])
    BY <1>1, <2>1, <2>2, Reached
  <2>4. Transferring' => call'.at <= Len(Data'[fdfile'[call'.fd]])
    BY <1>1, <2>1, Reached DEF Transferring
  <2> QED BY <2>3, <2>4 DEF PositionInv
<1>4. ASSUME NEW t \in Threads, NEW fd \in Fds, NEW n \in Counts, NEW v \in Values,
             NEW op \in {"read", "write"}, CallReadWrite(t, op, fd, n, v)
      PROVE  PositionInv'
  <2>1. /\ fdfile[fd] # NoFile /\ call'.fd = fd /\ call'.at = pos[fd]
        /\ UNCHANGED <<fdfile, pos>>
    BY <1>4 DEF CallReadWrite, Enter, Usable, kernel
  <2> QED BY <1>1, <2>1, Reached DEF PositionInv
<1>5. ASSUME NEW t \in Threads, NEW fd \in Fds, NEW op \in {"fsync", "close"}, CallFsyncClose(t, op, fd)
      PROVE  PositionInv'
  <2>1. call'.op = op /\ UNCHANGED <<fdfile, pos>>
    BY <1>5 DEF CallFsyncClose, Enter, kernel
  <2> QED BY <1>1, <2>1, Reached DEF PositionInv, Transferring
<1> QED BY <1>2, <1>3, <1>4, <1>5, CacheAssumption DEF Client

(* A write leaves the file at least as long as the place it reached. *)
LEMMA StoredReaches ==
  ASSUME NEW s, NEW at \in Nat, NEW n \in Nat, NEW v, Len(s) \in Nat
  PROVE  at + n <= Len(Contract!Stored(s, at, n, v)) /\ Len(s) <= Len(Contract!Stored(s, at, n, v))
<1> DEFINE top == IF at + n > Len(s) THEN at + n ELSE Len(s)
           f == [i \in 1 .. top |-> IF i > at /\ i <= at + n THEN v ELSE s[i]]
<1>1. top \in Nat /\ at + n <= top /\ Len(s) <= top
  OBVIOUS
<1>2. Contract!Stored(s, at, n, v) = f /\ DOMAIN f = 1 .. top
  BY DEF Contract!Stored
<1> HIDE DEF top, f
<1>3. Len(f) = top
  BY <1>1, <1>2
<1> QED BY <1>1, <1>2, <1>3

LEMMA PositionsStep ==
  ASSUME PlainFiles, ContractInv, FileInv', NEW t \in Threads, Step(t)
  PROVE  PositionInv'
<1> USE DEF ContractInv
<1>1. CASE WriteCopy(t)
  <2> PICK g : g = fdfile[call.fd]
    OBVIOUS
  <2>1. Data' = DataAfterWrite(g)
    BY <1>1, ViewWrite
  <2>2. /\ UNCHANGED <<fdfile, pos>> /\ Transferring /\ call.left > 0
        /\ call' = [call EXCEPT !.at = @ + ToCopy, !.left = @ - ToCopy]
    BY <1>1 DEF WriteCopy, Looping, Running, Transferring, kernel
  <2>3. ToCopy \in Nat
    <3>1. ToCopy \in 1 .. call.left /\ call.left \in Nat
      BY <2>2, LoopTypes, Reached DEF Transferring, FileInv, DescriptorInv, Inv
    <3> QED BY <3>1
  <2>4. g \in Files /\ call \in Call /\ call.at \in Nat /\ Len(Data[g]) \in Nat
    BY <2>2, Reached
  <2>5. call'.at = call.at + ToCopy /\ call'.fd = call.fd
    BY <2>2, <2>4 DEF Call
  <2>6. /\ Data'[g] = Contract!Stored(Data[g], call.at, ToCopy, call.val)
        /\ \A f \in Files : f # g => Data'[f] = Data[f]
    BY <2>1, <2>4, Reached DEF DataAfterWrite
  <2>7. call.at + ToCopy <= Len(Data'[g]) /\ Len(Data[g]) <= Len(Data'[g])
    BY <2>3, <2>4, <2>6, StoredReaches
  <2>8. Len(Data'[g]) \in Nat
    <3>1. ViewInv'
      BY <1>1, ViewWrite
    <3>2. Data'[g] \in Seq(Cells)
      BY <2>4, <3>1, DataIs DEF ViewInv
    <3> QED BY <3>2
  <2>9. ASSUME NEW fd \in Fds, fdfile[fd] # NoFile PROVE pos[fd] <= Len(Data'[fdfile[fd]])
    <3>1. fdfile[fd] \in Files /\ pos[fd] \in Nat /\ pos[fd] <= Len(Data[fdfile[fd]])
      BY <2>9, Reached
    <3>2. CASE fdfile[fd] = g
      BY <2>4, <2>7, <2>8, <3>1, <3>2
    <3>3. CASE fdfile[fd] # g
      BY <2>6, <3>1, <3>3
    <3> QED BY <3>2, <3>3
  <2>10. call'.at <= Len(Data'[fdfile'[call'.fd]])
    BY <2>2, <2>5, <2>7
  <2> QED BY <2>2, <2>9, <2>10 DEF PositionInv
<1>2. CASE ~WriteCopy(t)
  <2>1. Data' = Data
    BY <1>2, ViewStep DEF PlainFiles
  <2>2. CASE ReadCopy(t)
    <3>1. UNCHANGED <<fdfile, pos>> /\ Transferring
      BY <2>2 DEF ReadCopy, Looping, Running, Transferring, kernel
    <3>2. call'.at <= Len(Data[fdfile[call.fd]])
      BY <2>2, ReadCells
    <3>3. call'.fd = call.fd
      BY <2>2, <3>1, Reached DEF ReadCopy, Call
    <3> QED BY <2>1, <3>1, <3>2, <3>3, Reached DEF PositionInv
  <2>3. CASE LoadAtEnd(t)
    <3>1. UNCHANGED <<fdfile, pos>> /\ Transferring /\ call' = [call EXCEPT !.left = 0]
      BY <2>3 DEF LoadAtEnd, Looping, Running, Transferring, kernel
    <3>2. call'.at = call.at /\ call'.fd = call.fd
      BY <3>1, Reached DEF Call
    <3> QED BY <2>1, <3>1, <3>2, Reached DEF PositionInv
  <2>4. CASE CloseFd(t)
    <3>1. /\ closing[t] # NoFd /\ fdfile' = [fdfile EXCEPT ![closing[t]] = NoFile]
          /\ UNCHANGED <<pos, call>>
      BY <2>4 DEF CloseFd
    <3>2. Transferring => call.fd # closing[t]
      BY <3>1 DEF Transferring, FileInv, DescriptorInv, CallOnOpen
    <3>3. Transferring => fdfile'[call.fd] = fdfile[call.fd]
      BY <3>1, <3>2, Reached
    <3>4. \A fd \in Fds : fdfile'[fd] # NoFile => fdfile'[fd] = fdfile[fd] /\ fdfile[fd] # NoFile
      BY <3>1, Reached
    <3>5. \A fd \in Fds : fdfile'[fd] # NoFile => pos'[fd] <= Len(Data'[fdfile'[fd]])
      BY <2>1, <3>1, <3>4, Reached
    <3>6. Transferring' => call'.at <= Len(Data'[fdfile'[call'.fd]])
      BY <2>1, <3>1, <3>3, Reached DEF Transferring
    <3> QED BY <3>5, <3>6 DEF PositionInv
  <2>5. CASE \/ Load(t) \/ LoadFails(t) \/ Evict(t) \/ EvictFails(t) \/ EvictNothing(t) \/ AddBlock(t)
             \/ Return(t) \/ SyncBlock(t) \/ SyncFails(t) \/ SyncDone(t)
             \/ CloseBlock(t) \/ CloseFails(t) \/ CloseUnlock(t)
    <3>1. UNCHANGED <<fdfile, pos>> /\ (call' = call \/ call' \in {NoCall, Wild})
      BY <2>5 DEF Load, LoadFails, Evict, EvictFails, EvictNothing, AddBlock, Return, SyncBlock, SyncFails,
                  SyncDone, CloseBlock, CloseFails, CloseUnlock, Unlock, kernel
    <3> QED BY <2>1, <3>1, Reached DEF PositionInv, Transferring
  <2> QED BY <1>2, <2>2, <2>3, <2>4, <2>5 DEF Step
<1> QED BY <1>1, <1>2

(* The request that a call is, on the file of its descriptor. *)
Ask(c, f) == [op |-> c.op, file |-> f, at |-> c.at, left |-> c.left, val |-> c.val, got |-> c.got]

Asked(c, files) ==
  IF c \in {NoCall, Wild} \/ c.op \in {"fsync", "close"} THEN NoCall ELSE Ask(c, files[c.fd])

LEMMA RequestIs == Request = Asked(call, fdfile) /\ Request' = Asked(call', fdfile')
<1>1. Request = Asked(call, fdfile)
  BY Zenon DEF Request, Asked, Ask
<1>2. Request' = Asked(call', fdfile')
  BY Zenon DEF Request, Asked, Ask
<1> QED BY <1>1, <1>2

LEMMA AskIn ==
  ASSUME NEW c \in Call, NEW f \in Files, c.op \in {"read", "write"}
  PROVE  Ask(c, f) \in FileRequest /\ Ask(c, f) # NoCall
<1>1. Ask(c, f) \in FileRequest
  BY DEF Ask, FileRequest, Call
<1> QED BY <1>1, SentinelAssumption

LEMMA Requests ==
  ASSUME FileInv, ViewInv, PositionInv
  PROVE  /\ Transferring => Request = Ask(call, fdfile[call.fd]) /\ Request # NoCall
         /\ ~Transferring => Request = NoCall
<1>1. ASSUME Transferring PROVE Request = Ask(call, fdfile[call.fd]) /\ Request # NoCall
  BY <1>1, RequestIs, AskIn, Reached DEF Asked, Transferring
<1>2. ASSUME ~Transferring PROVE Request = NoCall
  <2>1. call \notin {NoCall, Wild} => call.op \in {"read", "write", "fsync", "close"}
    BY OpenFiles DEF Call
  <2> QED BY <1>2, <2>1, RequestIs DEF Asked, Transferring
<1> QED BY <1>1, <1>2

(* A call that got further.  The updates of records and the appending have *)
(* names, so that the lemmas about them can be instantiated.               *)
Cat(g, x) == g \o x
SetGot(r, h) == [r EXCEPT !.got = h]
SetLeft(r, left) == [r EXCEPT !.left = left]
SetPlace(r, at, left) == [r EXCEPT !.at = at, !.left = left]
Moved(r, at, left, x) == [r EXCEPT !.at = at, !.left = left, !.got = Cat(@, x)]

As(o, f, a, l, v, g) == [op |-> o, file |-> f, at |-> a, left |-> l, val |-> v, got |-> g]

LEMMA AskAs == \A c, f : Ask(c, f) = As(c.op, f, c.at, c.left, c.val, c.got)
  BY DEF Ask, As

LEMMA AsSets ==
  ASSUME NEW o, NEW f, NEW a, NEW l, NEW v, NEW g, NEW b, NEW m
  PROVE  /\ As(o, f, a, l, v, g).got = g
         /\ SetPlace(As(o, f, a, l, v, g), b, m) = As(o, f, b, m, v, g)
<1>1. [As(o, f, a, l, v, g) EXCEPT !.at = b] = As(o, f, b, l, v, g)
  BY DEF As
<1>2. [As(o, f, b, l, v, g) EXCEPT !.left = m] = As(o, f, b, m, v, g)
  BY DEF As
<1>3. SetPlace(As(o, f, a, l, v, g), b, m) = As(o, f, b, m, v, g)
  BY <1>1, <1>2 DEF SetPlace
<1>4. As(o, f, a, l, v, g).got = g
  BY DEF As
<1> QED BY <1>3, <1>4

LEMMA AsGot ==
  ASSUME NEW o, NEW f, NEW a, NEW l, NEW v, NEW g, NEW h
  PROVE  SetGot(As(o, f, a, l, v, g), h) = As(o, f, a, l, v, h)
  BY DEF As, SetGot

LEMMA AsLeft ==
  ASSUME NEW o, NEW f, NEW a, NEW l, NEW v, NEW g, NEW m
  PROVE  SetLeft(As(o, f, a, l, v, g), m) = As(o, f, a, m, v, g)
  BY DEF As, SetLeft

LEMMA AsMoved ==
  ASSUME NEW o, NEW f, NEW a, NEW l, NEW v, NEW g, NEW b, NEW m, NEW x
  PROVE  Moved(As(o, f, a, l, v, g), b, m, x) = As(o, f, b, m, v, Cat(g, x))
<1>1. SetPlace(As(o, f, a, l, v, g), b, m) = As(o, f, b, m, v, g)
  BY AsSets
<1>2. As(o, f, b, m, v, g).got = g
  BY AsSets
<1>3. SetGot(As(o, f, b, m, v, g), Cat(g, x)) = As(o, f, b, m, v, Cat(g, x))
  BY AsGot
<1>4. Moved(As(o, f, a, l, v, g), b, m, x) = SetGot(As(o, f, b, m, v, g), Cat(As(o, f, b, m, v, g).got, x))
  BY <1>1 DEF Moved, SetPlace, SetGot
<1> QED BY <1>2, <1>3, <1>4

LEMMA AskMoves ==
  ASSUME NEW c, NEW d, NEW f, NEW x, d.op = c.op, d.val = c.val, d.got = Cat(c.got, x)
  PROVE  Ask(d, f) = Moved(Ask(c, f), d.at, d.left, x)
  BY AskAs, AsMoved

LEMMA MovedLittle ==
  ASSUME NEW c, NEW f, c.got \in Seq(Cells)
  PROVE  /\ \A at, left : Moved(Ask(c, f), at, left, <<>>) = SetPlace(Ask(c, f), at, left)
         /\ \A left : Moved(Ask(c, f), c.at, left, <<>>) = SetLeft(Ask(c, f), left)
         /\ Moved(Ask(c, f), c.at, c.left, <<>>) = Ask(c, f)
<1>1. Cat(c.got, <<>>) = c.got
  BY DEF Cat
<1>2. Ask(c, f) = As(c.op, f, c.at, c.left, c.val, c.got)
  BY AskAs
<1>3. ASSUME NEW at, NEW left
      PROVE  Moved(Ask(c, f), at, left, <<>>) = As(c.op, f, at, left, c.val, c.got)
  BY <1>1, <1>2, AsMoved
<1>4. ASSUME NEW at, NEW left
      PROVE  Moved(Ask(c, f), at, left, <<>>) = SetPlace(Ask(c, f), at, left)
  BY <1>2, <1>3, AsSets
<1>5. ASSUME NEW left
      PROVE  Moved(Ask(c, f), c.at, left, <<>>) = SetLeft(Ask(c, f), left)
  BY <1>2, <1>3, AsLeft
<1>6. Moved(Ask(c, f), c.at, c.left, <<>>) = Ask(c, f)
  BY <1>2, <1>3
<1> QED BY <1>4, <1>5, <1>6

(* pread finds nothing only where the file ends, with its cached blocks:   *)
(* the block that holds its last cell is on the disk too, in part.         *)
LEMMA EndsThere ==
  ASSUME FileInv, ViewInv, PositionInv, NEW t \in Threads, LoadAtEnd(t)
  PROVE  Len(Data[fdfile[call.fd]]) <= call.at
<1> PICK g : g = fdfile[call.fd]
  OBVIOUS
<1>1. Transferring /\ call.left > 0 /\ Pread(g, BlockOffset) = <<>>
  BY DEF LoadAtEnd, Looping, Running, Transferring
<1>2. TypeOK
  BY DEF FileInv, DescriptorInv, Inv
<1>3. g \in Files /\ call \in Call /\ call.at \in Nat
  BY <1>1, Reached
<1>4. Within \in 0 .. (BLOCK_SIZE - 1) /\ BlockOffset \in Nat /\ BLOCK_SIZE \in Nat \ {0}
  BY <1>1, <1>2, LoopTypes, CacheAssumption DEF Transferring
<1>5. BlockOffset <= call.at
  BY <1>3, <1>4 DEF BlockOffset
<1> PICK s : s = Data[g]
  OBVIOUS
<1>6. s \in Seq(Cells) /\ Len(s) \in Nat /\ Shows(blocks, fdfile, disk, g, s) /\ disk[g] \in Seq(Cells)
  BY <1>3, DataTypes, OpenFiles
<1>7. Len(disk[g]) <= BlockOffset
  <2>1. 0 = IF BlockOffset < Len(disk[g]) THEN Smaller(BLOCK_SIZE, Len(disk[g]) - BlockOffset) ELSE 0
    BY <1>1, <1>2, <1>3, <1>4, PreadCells
  <2>2. Len(disk[g]) \in Nat
    BY <1>6
  <2> QED BY <1>4, <2>1, <2>2 DEF Smaller
<1>8. SUFFICES ASSUME Len(s) > call.at PROVE FALSE
  BY <1>3, <1>6
<1>9. Len(s) \in 1 .. Len(s) /\ ~(Len(s) <= Len(disk[g]))
  <2>1. Len(disk[g]) \in Nat
    BY <1>6
  <2> QED BY <1>3, <1>4, <1>5, <1>6, <1>7, <1>8, <2>1
<1>10. PICK i \in DOMAIN blocks : fdfile[blocks[i].fd] = g /\ Holds(blocks[i], Len(s))
  BY <1>6, <1>9 DEF Shows
<1>11. blocks[i] \in Block /\ Placed(blocks[i], disk[g])
  BY <1>10, OpenFiles DEF FileInv, BlocksSit, Sits
<1>12. /\ blocks[i].offset \in Nat /\ blocks[i].valid_size \in 1 .. BLOCK_SIZE
       /\ Multiple(blocks[i].offset) /\ blocks[i].offset < Len(disk[g])
  BY <1>11 DEF Block, Placed
<1>13. Multiple(BlockOffset)
  BY <1>1, <1>2, BlockOffsetMultiple DEF Transferring
<1>14. blocks[i].offset < BlockOffset
  <2>1. Len(disk[g]) \in Nat
    BY <1>6
  <2> QED BY <1>4, <1>7, <1>12, <2>1
<1>15. blocks[i].offset + BLOCK_SIZE <= BlockOffset
  BY <1>4, <1>12, <1>13, <1>14, BlocksApart
<1> QED BY <1>3, <1>4, <1>5, <1>6, <1>8, <1>10, <1>12, <1>15 DEF Holds

(* The steps of a call are steps of its request. *)
LEMMA RequestMoves ==
  ASSUME FileInv, ViewInv, PositionInv, Transferring, NEW at, NEW left, NEW x,
         call'.op = call.op, call'.fd = call.fd, call'.val = call.val, call' \notin {NoCall, Wild},
         call'.at = at, call'.left = left, call'.got = Cat(call.got, x), UNCHANGED fdfile
  PROVE  Request' = Moved(Request, at, left, x)
<1> PICK g : g = fdfile[call.fd]
  OBVIOUS
<1>1. Request = Ask(call, g)
  BY Requests
<1>2. Request' = Ask(call', g)
  <2>1. call'.op \in {"read", "write"} /\ fdfile'[call'.fd] = g
    BY DEF Transferring
  <2> QED BY <2>1, RequestIs DEF Asked
<1>3. Ask(call', g) = Moved(Ask(call, g), call'.at, call'.left, x)
  BY AskMoves
<1> QED BY <1>1, <1>2, <1>3

LEMMA RequestFields ==
  ASSUME FileInv, ViewInv, PositionInv, Transferring
  PROVE  /\ Request.op = call.op /\ Request.file = fdfile[call.fd] /\ Request.at = call.at
         /\ Request.left = call.left /\ Request.val = call.val /\ Request.got = call.got
  BY Requests DEF Ask

LEMMA ReadGets ==
  ASSUME FileInv, ViewInv, PositionInv, FileInv', NEW t \in Threads, ReadCopy(t), Data' = Data
  PROVE  \/ UNCHANGED <<Data, Request>>
         \/ Contract!Stop
         \/ \E n \in 1 .. Request.left : Contract!Get(n)
<1>1. Transferring /\ call.op = "read" /\ call.left > 0 /\ UNCHANGED fdfile
  BY DEF ReadCopy, Looping, Running, Transferring, kernel
<1>2. /\ call \in Call /\ call.at \in Nat /\ call.left \in Nat /\ fdfile[call.fd] \in Files
      /\ Data[fdfile[call.fd]] \in Seq(Cells)
  BY <1>1, Reached
<1>3. /\ call'.op = call.op /\ call'.fd = call.fd /\ call'.val = call.val
  BY <1>2 DEF ReadCopy, Call
<1> PICK s : s = Data[fdfile[call.fd]]
  OBVIOUS
<1>4. PICK n \in 0 .. call.left :
        /\ call.at + n <= Len(s)
        /\ call'.at = call.at + n
        /\ call'.got = call.got \o SubSeq(s, call.at + 1, call.at + n)
        /\ call'.left = call.left - n \/ (call'.left = 0 /\ call.at + n = Len(s))
  BY ReadCells
<1>5. call' \notin {NoCall, Wild}
  BY ReadCopyInv, SentinelAssumption DEF FileInv, DescriptorInv
<1>6. Request' = Moved(Request, call.at + n, call'.left, SubSeq(s, call.at + 1, call.at + n))
  <2>1. call'.got = Cat(call.got, SubSeq(s, call.at + 1, call.at + n))
    BY <1>4 DEF Cat
  <2> QED BY <1>1, <1>3, <1>4, <1>5, <2>1, RequestMoves
<1>7. /\ Request.op = "read" /\ Request.at = call.at /\ Request.left = call.left /\ Data[Request.file] = s
  BY <1>1, RequestFields
<1>8. Len(s) \in Nat
  BY <1>2
<1>9. CASE n > 0
  <2>1. n \in 1 .. Request.left
    BY <1>4, <1>7, <1>9
  <2>2. call'.left \in {Request.left - n} \union (IF call.at + n = Len(s) THEN {0} ELSE {})
    BY <1>4, <1>7
  <2>3. Contract!Get(n)
    BY <1>4, <1>6, <1>7, <2>1, <2>2 DEF Contract!Get, Moved, Cat
  <2> QED BY <2>1, <2>3
<1>10. CASE n = 0
  <2>1. SubSeq(s, call.at + 1, call.at + n) = <<>>
    BY <1>2, <1>10
  <2> PICK g : g = fdfile[call.fd]
    OBVIOUS
  <2>2. /\ Request = Ask(call, g) /\ call.got \in Seq(Cells)
        /\ Request' = Moved(Ask(call, g), call.at, call'.left, <<>>)
    <3>1. Request = Ask(call, g)
      BY <1>1, Requests
    <3>2. call.got \in Seq(Cells)
      BY <1>2 DEF Call
    <3>3. call.at + n = call.at
      BY <1>2, <1>10
    <3> QED BY <1>6, <2>1, <3>1, <3>2, <3>3
  <2>3. CASE call'.left = call.left
    <3>1. Request' = Request
      BY <2>2, <2>3, MovedLittle
    <3> QED BY <3>1
  <2>4. CASE call'.left = 0 /\ call.at = Len(s)
    <3>1. Contract!AtEnd
      BY <1>2, <1>7, <1>8, <2>4 DEF Contract!AtEnd
    <3>2. Request' = SetLeft(Request, 0)
      BY <2>2, <2>4, MovedLittle
    <3> QED BY <3>1, <3>2 DEF Contract!Stop, SetLeft
  <2> QED BY <1>2, <1>4, <1>10, <2>3, <2>4
<1> QED BY <1>4, <1>9, <1>10

LEMMA WritePuts ==
  ASSUME FileInv, ViewInv, PositionInv, FileInv', NEW t \in Threads, WriteCopy(t)
  PROVE  \E n \in 1 .. Request.left : Contract!Put(n)
<1>1. /\ Transferring /\ call.op = "write" /\ call.left > 0 /\ UNCHANGED fdfile
      /\ call' = [call EXCEPT !.at = @ + ToCopy, !.left = @ - ToCopy]
  BY DEF WriteCopy, Looping, Running, Transferring, kernel
<1>2. /\ call \in Call /\ fdfile[call.fd] \in Files /\ call.at <= Len(Data[fdfile[call.fd]])
      /\ call.got \in Seq(Cells)
  BY <1>1, Reached DEF Call
<1>3. ToCopy \in 1 .. call.left
  BY <1>1, LoopTypes DEF Transferring, FileInv, DescriptorInv, Inv
<1> PICK n : n = ToCopy
  OBVIOUS
<1> PICK g : g = fdfile[call.fd]
  OBVIOUS
<1>4. /\ Request.op = "write" /\ Request.at = call.at /\ Request.left = call.left
      /\ Request.val = call.val /\ Request.file = g
  BY <1>1, RequestFields
<1>5. Request' = [Request EXCEPT !.at = @ + n, !.left = @ - n]
  <2>1. /\ call'.op = call.op /\ call'.fd = call.fd /\ call'.val = call.val /\ call'.got = call.got
        /\ call'.at = call.at + n /\ call'.left = call.left - n
    BY <1>1, <1>2 DEF Call
  <2>2. call'.got = Cat(call.got, <<>>)
    BY <1>2, <2>1 DEF Cat
  <2>3. call' \notin {NoCall, Wild}
    BY WriteCopyInv, SentinelAssumption DEF FileInv, DescriptorInv
  <2>4. Request' = Moved(Request, call.at + n, call.left - n, <<>>)
    BY <1>1, <2>1, <2>2, <2>3, RequestMoves
  <2>5. Request = Ask(call, g)
    BY <1>1, Requests
  <2>6. Request' = SetPlace(Request, call.at + n, call.left - n)
    BY <1>2, <2>4, <2>5, MovedLittle
  <2> QED BY <1>4, <2>6 DEF SetPlace
<1>6. Data' = [Data EXCEPT ![g] = Contract!Stored(Data[g], call.at, n, call.val)]
  BY ViewWrite DEF DataAfterWrite
<1>7. Data' = [Data EXCEPT ![Request.file] = Contract!Stored(@, Request.at, n, Request.val)]
  BY <1>4, <1>6
<1>8. Contract!Put(n)
  BY <1>2, <1>3, <1>4, <1>5, <1>7 DEF Contract!Put
<1> QED BY <1>3, <1>4, <1>8

LEMMA EndStops ==
  ASSUME FileInv, ViewInv, PositionInv, FileInv', NEW t \in Threads, LoadAtEnd(t), Data' = Data
  PROVE  Request # NoCall /\ Contract!Stop
<1>1. Transferring /\ UNCHANGED fdfile /\ call' = [call EXCEPT !.left = 0]
  BY DEF LoadAtEnd, Looping, Running, Transferring, kernel
<1>2. call \in Call /\ call.got \in Seq(Cells)
  BY <1>1, Reached DEF Call
<1>3. call' \notin {NoCall, Wild}
  <2>1. call' \in Call
    BY <1>1, <1>2 DEF Call
  <2> QED BY <2>1, SentinelAssumption
<1>4. Request' = [Request EXCEPT !.left = 0]
  <2>1. /\ call'.op = call.op /\ call'.fd = call.fd /\ call'.val = call.val /\ call'.got = call.got
        /\ call'.at = call.at /\ call'.left = 0
    BY <1>1, <1>2 DEF Call
  <2>2. call'.got = Cat(call.got, <<>>)
    BY <1>2, <2>1 DEF Cat
  <2>3. Request' = Moved(Request, call.at, 0, <<>>)
    BY <1>1, <1>3, <2>1, <2>2, RequestMoves
  <2> PICK g : g = fdfile[call.fd]
    OBVIOUS
  <2>4. Request = Ask(call, g)
    BY <1>1, Requests
  <2>5. Request' = SetLeft(Request, 0)
    BY <1>2, <2>3, <2>4, MovedLittle
  <2> QED BY <2>5 DEF SetLeft
<1>5. Contract!AtEnd
  BY <1>1, EndsThere, RequestFields DEF Contract!AtEnd
<1> QED BY <1>1, <1>4, <1>5, Requests DEF Contract!Stop

(* What the other steps do to the request. *)
LEMMA RequestStays ==
  ASSUME FileInv, ViewInv, PositionInv, UNCHANGED call,
         Transferring => fdfile'[call.fd] = fdfile[call.fd]
  PROVE  Request' = Request
<1>1. CASE Transferring
  BY <1>1, RequestIs DEF Asked, Transferring
<1>2. CASE ~Transferring
  <2>1. call \notin {NoCall, Wild} => call.op \in {"read", "write", "fsync", "close"}
    BY OpenFiles DEF Call
  <2>2. Request = NoCall /\ Request' = NoCall
    BY <1>2, <2>1, RequestIs DEF Asked, Transferring
  <2> QED BY <2>2
<1> QED BY <1>1, <1>2

LEMMA RequestEnds == ASSUME call' \in {NoCall, Wild} PROVE Request' = NoCall
  BY RequestIs DEF Asked

LEMMA ClientBegins ==
  ASSUME PlainFiles, ContractInv, Client
  PROVE  [Contract!CNext]_(Contract!cvars)
<1> USE DEF ContractInv
<1>1. Data' = Data
  BY ViewClient DEF PlainFiles
<1>2. ASSUME NEW f \in Files, Open(f) PROVE Request' = Request
  <2>1. PICK fd \in Fds : fdfile[fd] = NoFile /\ fdfile' = [fdfile EXCEPT ![fd] = f]
    BY <1>2 DEF Open, LowestFree
  <2>2. Transferring => fdfile'[call.fd] = fdfile[call.fd]
    BY <2>1, Reached
  <2>3. UNCHANGED call
    BY <1>2 DEF Open
  <2> QED BY <2>2, <2>3, RequestStays
<1>3. ASSUME NEW fd \in Fds, NEW p \in Positions, Lseek(fd, p) PROVE Request' = Request
  BY <1>3, RequestStays DEF Lseek
<1>4. ASSUME NEW t \in Threads, NEW fd \in Fds, NEW n \in Counts, NEW v \in Values,
             NEW op \in {"read", "write"}, CallReadWrite(t, op, fd, n, v)
      PROVE  Request = NoCall /\ Contract!Begin(Request')
  <2> DEFINE c == [op |-> op, fd |-> fd, at |-> pos[fd], left |-> n, val |-> v, got |-> <<>>]
  <2>1. lock = NoThread /\ call' = c /\ fdfile[fd] # NoFile /\ UNCHANGED fdfile
    BY <1>4 DEF CallReadWrite, Enter, Usable, kernel
  <2>2. call = NoCall
    BY <2>1 DEF FileInv, DescriptorInv, CallOnOpen
  <2>3. Request = NoCall
    BY <2>2, RequestIs DEF Asked
  <2>4. fdfile[fd] \in Files /\ pos[fd] \in Nat /\ n \in Nat
    BY <2>1, Reached, CacheAssumption
  <2>5. c \in Call
    BY <2>4 DEF Call
  <2>6. c.op = op /\ c.fd = fd /\ c.got = <<>>
    OBVIOUS
  <2> HIDE DEF c
  <2>7. Request' = Ask(c, fdfile[fd])
    <3>1. c \notin {NoCall, Wild}
      BY <2>5, SentinelAssumption
    <3> QED BY <2>1, <2>6, <3>1, RequestIs DEF Asked
  <2>8. Request' # NoCall
    BY <2>4, <2>5, <2>6, <2>7, AskIn
  <2>9. Request'.op = op /\ Request'.got = <<>>
    BY <2>6, <2>7 DEF Ask
  <2> QED BY <1>1, <2>3, <2>8, <2>9 DEF Contract!Begin
<1>5. ASSUME NEW t \in Threads, NEW fd \in Fds, NEW op \in {"fsync", "close"}, CallFsyncClose(t, op, fd)
      PROVE  Request' = Request
  <2>1. lock = NoThread /\ call'.op = op
    BY <1>5 DEF CallFsyncClose, Enter
  <2>2. call = NoCall
    BY <2>1 DEF FileInv, DescriptorInv, CallOnOpen
  <2> QED BY <2>1, <2>2, RequestIs DEF Asked
<1>6. ASSUME Request = NoCall, Contract!Begin(Request') PROVE Contract!CNext
  BY <1>6 DEF Contract!CNext
<1>7. ASSUME Request' = Request PROVE UNCHANGED Contract!cvars
  BY <1>1, <1>7 DEF Contract!cvars
<1> QED BY <1>2, <1>3, <1>4, <1>5, <1>6, <1>7, CacheAssumption DEF Client

LEMMA StepServes ==
  ASSUME PlainFiles, ContractInv, FileInv', NEW t \in Threads, Step(t)
  PROVE  [Contract!CNext]_(Contract!cvars)
<1> USE DEF ContractInv
<1>1. CASE WriteCopy(t)
  <2>1. Transferring
    BY <1>1 DEF WriteCopy, Looping, Running, Transferring
  <2>2. Request # NoCall
    BY <2>1, Requests
  <2> QED BY <1>1, <2>2, WritePuts DEF Contract!CNext
<1>2. CASE ~WriteCopy(t)
  <2>1. Data' = Data
    BY <1>2, ViewStep DEF PlainFiles
  <2>2. ASSUME Request' = Request PROVE UNCHANGED Contract!cvars
    BY <2>1, <2>2 DEF Contract!cvars
  <2>3. CASE ReadCopy(t)
    <3>1. Transferring
      BY <2>3 DEF ReadCopy, Looping, Running, Transferring
    <3>2. Request # NoCall
      BY <3>1, Requests
    <3>3. \/ Request' = Request
          \/ Contract!Stop
          \/ \E n \in 1 .. Request.left : Contract!Get(n)
      BY <2>1, <2>3, ReadGets
    <3> QED BY <2>2, <3>2, <3>3 DEF Contract!CNext
  <2>4. CASE LoadAtEnd(t)
    BY <2>1, <2>4, EndStops DEF Contract!CNext
  <2>5. CASE CloseFd(t)
    <3>1. /\ closing[t] # NoFd /\ fdfile' = [fdfile EXCEPT ![closing[t]] = NoFile] /\ UNCHANGED call
      BY <2>5 DEF CloseFd
    <3>2. Transferring => call.fd # closing[t]
      BY <3>1 DEF Transferring, FileInv, DescriptorInv, CallOnOpen
    <3>3. Transferring => fdfile'[call.fd] = fdfile[call.fd]
      BY <3>1, <3>2, Reached
    <3> QED BY <2>2, <3>1, <3>3, RequestStays
  <2>6. CASE \/ Load(t) \/ Evict(t) \/ EvictFails(t) \/ AddBlock(t) \/ SyncBlock(t) \/ CloseBlock(t)
    <3>1. UNCHANGED <<fdfile, call>>
      BY <2>6 DEF Load, Evict, EvictFails, AddBlock, SyncBlock, CloseBlock, kernel
    <3> QED BY <2>2, <3>1, RequestStays
  <2>7. CASE \/ LoadFails(t) \/ EvictNothing(t) \/ Return(t) \/ SyncFails(t) \/ SyncDone(t)
             \/ CloseFails(t) \/ CloseUnlock(t)
    <3>1. call' \in {NoCall, Wild}
      BY <2>7 DEF LoadFails, EvictNothing, Return, SyncFails, SyncDone, CloseFails, CloseUnlock, Unlock
    <3>2. Request' = NoCall
      BY <3>1, RequestEnds
    <3>3. CASE Request = NoCall
      BY <2>2, <3>2, <3>3
    <3>4. CASE Request # NoCall
      <4>1. Contract!Answer
        BY <2>1, <3>2 DEF Contract!Answer
      <4> QED BY <3>4, <4>1 DEF Contract!CNext
    <3> QED BY <3>3, <3>4
  <2> QED BY <1>2, <2>3, <2>4, <2>5, <2>6, <2>7 DEF Step
<1> QED BY <1>1, <1>2

LEMMA ContractStep ==
  ASSUME PlainFiles, ContractInv, FileInv', [Next]_vars
  PROVE  ContractInv' /\ [Contract!CNext]_(Contract!cvars)
<1>1. CASE Client
  BY <1>1, ClientBegins, PositionsClient, ViewClient DEF ContractInv, PlainFiles
<1>2. ASSUME NEW t \in Threads, Step(t) PROVE ContractInv' /\ [Contract!CNext]_(Contract!cvars)
  <2>1. ViewInv'
    BY <1>2, ViewWrite, ViewStep DEF ContractInv, PlainFiles
  <2> QED BY <1>2, <2>1, StepServes, PositionsStep DEF ContractInv
<1>3. CASE UNCHANGED vars
  <2>1. UNCHANGED <<disk, fdfile, pos, blocks, call>>
    BY <1>3 DEF vars
  <2>2. SameView
    BY <2>1, ViewOthers DEF ContractInv
  <2>3. ViewInv' /\ Data' = Data
    BY <2>2, SameViewKeeps DEF ContractInv
  <2>4. PositionInv'
    BY <2>1, <2>3 DEF ContractInv, PositionInv, Transferring
  <2>5. Request' = Request
    BY <2>1, RequestStays DEF ContractInv
  <2> QED BY <2>3, <2>4, <2>5 DEF ContractInv, Contract!cvars
<1> QED BY <1>1, <1>2, <1>3 DEF Next

LEMMA ContractInit == ASSUME Init, FileInv PROVE ContractInv /\ Request = NoCall
<1>1. DOMAIN blocks = {} /\ fdfile = [fd \in Fds |-> NoFile] /\ call = NoCall
  BY DEF Init
<1>2. ASSUME NEW f \in Files
      PROVE  Contents(f) \in Seq(Cells) /\ Shows(blocks, fdfile, disk, f, Contents(f))
  <2>1. blocks \in Seq(Block) /\ disk[f] \in Seq(Cells)
    BY OpenFiles
  <2>2. Shows(blocks, fdfile, disk, f, disk[f])
    BY <1>1, <2>1 DEF Shows
  <2>3. ContentsIn(blocks, fdfile, disk, f) = disk[f]
    BY <2>1, <2>2, ShownIsContents
  <2> QED BY <2>1, <2>2, <2>3, ContentsAre
<1>3. PositionInv
  BY <1>1 DEF PositionInv, Transferring
<1>4. Request = NoCall
  BY <1>1, RequestIs DEF Asked
<1> QED BY <1>2, <1>3, <1>4 DEF ContractInv, ViewInv

(* A program that opens no file twice, uses no descriptor that is being    *)
(* closed and seeks to places inside the file sees files, and no cache:    *)
(* every read returns the cells the calls before it left there, every      *)
(* write puts its cells at its place, neither stops early but at the end   *)
(* of the file, and no eviction, load, fsync or close changes what a file  *)
(* contains.  pread may fail, and so may the pwrite of fsync and close.    *)
THEOREM LibraryIsAFile == ASSUME PlainFiles PROVE Spec => ContractSpec
<1>1. Spec => []FileInv
  BY FilesKept DEF PlainFiles
<1>2. Init /\ FileInv => ContractInv /\ Request = NoCall
  BY ContractInit
<1>3. ContractInv /\ FileInv' /\ [Next]_vars => ContractInv' /\ [Contract!CNext]_(Contract!cvars)
  BY ContractStep
<1> QED BY <1>1, <1>2, <1>3, PTL DEF Spec, ContractSpec, Contract!CSpec
===============================================================================
