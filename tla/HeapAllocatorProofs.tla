-------------------------- MODULE HeapAllocatorProofs --------------------------
(***************************************************************************)
(* Proofs about HeapAllocator for every value of its constants: typing,    *)
(* the layout of the heap, who holds which block, the contract of          *)
(* HeapContract, and that no memory is lost, asked for too early or left   *)
(* behind.                                                                 *)
(***************************************************************************)
EXTENDS HeapAllocator, TLAPS

(* What is true of the block list on its own: headers are typed, blocks do *)
(* not overlap and lie in the bytes o; links lead to blocks, no two to the *)
(* same one and none to the root, from which every block is reached.       *)
Typed(h) == DOMAIN h \subseteq Addr /\ h \in [DOMAIN h -> Block]
Disjoint(h) == \A a, b \in DOMAIN h : a < b => BlockAfter(h, a) <= b
Within(h, o) == \A a \in DOMAIN h : Bytes(a, SizeOf(h, a)) \subseteq o
Layout(h, o) == Typed(h) /\ Disjoint(h) /\ Within(h, o)

Linking(h) == \A a \in DOMAIN h : h[a].next \in DOMAIN h \union {NULL}
Injective(h) ==
  \A a, b \in DOMAIN h : h[a].next # NULL /\ h[a].next = h[b].next => a = b
ClosedFrom(h, root, S) ==
  root \in S /\ \A a \in S : h[a].next # NULL => h[a].next \in S
Rooted(h, root) ==
  /\ root \in DOMAIN h
  /\ \A a \in DOMAIN h : h[a].next # root
  /\ \A S \in SUBSET DOMAIN h : ClosedFrom(h, root, S) => S = DOMAIN h
List(h, root) == Linking(h) /\ Injective(h) /\ Rooted(h, root)
-------------------------------------------------------------------------------
(* Arithmetic of sizes. *)
LEMMA SizeFacts ==
  /\ Header \in Nat /\ Header > 0
  /\ BLOCK_MIN_CAPACITY \in Nat /\ BLOCK_MIN_CAPACITY > 0
  /\ PageSize \in Nat /\ PageSize > 0
  /\ REGION_MIN_SIZE \in Nat /\ Header < REGION_MIN_SIZE
  /\ AddrLimit \in Nat /\ SizeMod \in Nat /\ SizeMod > 0
  BY SizesAssumption DEF SizesAssumption

(* A region has room for a header, and its length is a natural number. *)
LEMMA RegionSizeType ==
  ASSUME NEW q \in Nat
  PROVE  RegionSize(q) \in Nat /\ RegionSize(q) > Header
<1> DEFINE m == (q + Header) % SizeMod
<1>1. m \in Nat
  BY SizeFacts
<1>2. PagesCount(m) \in Nat
  BY <1>1, SizeFacts DEF PagesCount
<1>3. PageSize * PagesCount(m) \in Nat
  BY <1>2, SizeFacts
<1>4. RoundPages(m) \in Nat
  <2> HIDE DEF m
  <2>1. (PageSize * PagesCount(m)) % SizeMod \in Nat
    BY <1>3, SizeFacts
  <2> QED  BY <2>1 DEF RoundPages
<1> QED
  <2> HIDE DEF m
  <2>1. RegionSize(q) = SizeMax(RoundPages(m), REGION_MIN_SIZE)
    BY DEF RegionSize, m
  <2> QED  BY <2>1, <1>4, SizeFacts DEF SizeMax
-------------------------------------------------------------------------------
(* What a merge of block a with its successor makes of the heap h. *)
Merged(h, a, g) ==
  LET b == h[a].next
  IN /\ a \in Nat /\ b \in Nat /\ h[a].capacity \in Nat /\ h[b].capacity \in Nat
     /\ b \in DOMAIN h /\ b # a /\ b # NULL /\ h[a].is_free /\ h[b].is_free
     /\ b = a + Header + h[a].capacity
     /\ DOMAIN g = DOMAIN h \ {b}
     /\ g[a] = [next |-> h[b].next,
                capacity |-> h[a].capacity + Header + h[b].capacity,
                is_free |-> TRUE]
     /\ \A c \in DOMAIN g \ {a} : g[c] = h[c]
     /\ Typed(g)

LEMMA MergeEffect ==
  ASSUME NEW h, NEW a \in DOMAIN h, Typed(h), Linking(h), CanMergeWithNext(h, a)
  PROVE  Merged(h, a, MergeWithNext(h, a))
<1> DEFINE b == h[a].next
           g == MergeWithNext(h, a)
<1>1. /\ b \in DOMAIN h /\ b # NULL /\ h[a].is_free /\ h[b].is_free
      /\ b = a + Header + h[a].capacity
  BY DEF CanMergeWithNext, Mergeable, BlocksContinuous, BlockAfter, Contents, Linking, NULL
<1>2. /\ a \in Nat /\ b \in Nat /\ h[a] \in Block /\ h[b] \in Block
      /\ h[a].capacity \in Nat /\ h[b].capacity \in Nat
  BY <1>1 DEF Typed, Addr, Block
<1>3. b # a
  BY <1>1, <1>2, SizeFacts
<1>4. /\ DOMAIN g = DOMAIN h \ {b}
      /\ g[a] = [next |-> h[b].next, capacity |-> h[a].capacity + Header + h[b].capacity,
                 is_free |-> TRUE]
      /\ \A c \in DOMAIN g \ {a} : g[c] = h[c]
  <2>1. (SizeOf(h, a) + SizeOf(h, b)) - Header = h[a].capacity + Header + h[b].capacity
    BY <1>2, SizeFacts DEF SizeOf
  <2>2. g = [c \in DOMAIN h \ {b} |->
               IF c = a THEN BlockInit(SizeOf(h, a) + SizeOf(h, b), h[b].next) ELSE h[c]]
    BY DEF MergeWithNext, Absorb
  <2>3. BlockInit(SizeOf(h, a) + SizeOf(h, b), h[b].next)
          = [next |-> h[b].next, capacity |-> h[a].capacity + Header + h[b].capacity,
             is_free |-> TRUE]
    BY <2>1 DEF BlockInit
  <2> HIDE DEF g, b
  <2>4. DOMAIN g = DOMAIN h \ {b}
    BY <2>2
  <2>5. g[a] = BlockInit(SizeOf(h, a) + SizeOf(h, b), h[b].next)
    BY <1>3, <2>2
  <2>6. \A c \in DOMAIN g \ {a} : g[c] = h[c]
    BY <2>2
  <2> QED  BY <2>3, <2>4, <2>5, <2>6
<1> HIDE DEF g
<1>5. Typed(g)
  <2>1. g[a] \in Block
    BY <1>1, <1>2, <1>4, SizeFacts DEF Block
  <2>2. \A c \in DOMAIN g : g[c] \in Block
    BY <2>1, <1>4 DEF Typed
  <2>3. g = [c \in DOMAIN g |-> g[c]]
    BY DEF g, MergeWithNext, Absorb
  <2> QED  BY <2>2, <2>3, <1>4 DEF Typed
<1> QED
  BY <1>1, <1>2, <1>3, <1>4, <1>5 DEF g, Merged

(* A merge keeps the blocks apart and inside the same bytes. *)
LEMMA MergeKeepsLayout ==
  ASSUME NEW h, NEW o, NEW a \in DOMAIN h,
         Layout(h, o), Linking(h), CanMergeWithNext(h, a)
  PROVE  Layout(MergeWithNext(h, a), o)
<1> DEFINE b == h[a].next
           g == MergeWithNext(h, a)
<1>1. Merged(h, a, g)
  BY MergeEffect DEF Layout
<1> HIDE DEF g
<1> USE <1>1 DEF Merged
<1>2. Disjoint(g)
  <2> SUFFICES ASSUME NEW c \in DOMAIN g, NEW d \in DOMAIN g, c < d
               PROVE  BlockAfter(g, c) <= d
    BY DEF Disjoint
  <2>1. c \in Nat /\ d \in Nat /\ c \in DOMAIN h /\ d \in DOMAIN h /\ d # b /\ c # b
    BY <1>1 DEF Layout, Typed, Addr
  <2>2. CASE c # a
    BY <2>1, <2>2, <1>1 DEF Layout, Disjoint, BlockAfter
  <2>3. CASE c = a
    <3>1. b <= d
      BY <1>1, <2>1, <2>3 DEF Layout, Disjoint, BlockAfter, Contents
    <3>2. BlockAfter(h, b) <= d
      BY <3>1, <2>1, <1>1 DEF Layout, Disjoint
    <3> QED  BY <3>2, <2>3, <1>1, SizeFacts DEF BlockAfter, Contents
  <2> QED  BY <2>2, <2>3
<1>3. Within(g, o)
  <2> SUFFICES ASSUME NEW c \in DOMAIN g, NEW x \in Bytes(c, SizeOf(g, c))
               PROVE  x \in o
    BY DEF Within
  <2>1. CASE c # a
    BY <2>1, <1>1 DEF Layout, Within, SizeOf
  <2>2. CASE c = a
    <3>1. x \in Bytes(a, SizeOf(h, a)) \/ x \in Bytes(b, SizeOf(h, b))
      BY <2>2, <1>1, SizeFacts DEF Bytes, SizeOf
    <3> QED  BY <3>1, <1>1 DEF Layout, Within
  <2> QED  BY <2>1, <2>2
<1> QED
  BY <1>1, <1>2, <1>3 DEF g, Layout

(* A merge takes the second block out of the list and nothing else. *)
LEMMA MergeKeepsList ==
  ASSUME NEW h, NEW root, NEW a \in DOMAIN h,
         Typed(h), List(h, root), CanMergeWithNext(h, a)
  PROVE  List(MergeWithNext(h, a), root)
<1> DEFINE b == h[a].next
           g == MergeWithNext(h, a)
<1>1. Merged(h, a, g)
  BY MergeEffect DEF List
<1> HIDE DEF g
<1> USE <1>1 DEF Merged
<1>2. \A c \in DOMAIN h \ {a} : h[c].next # b
  BY <1>1 DEF List, Injective
<1>3. h[b].next # b
  BY <1>1, <1>2
<1>4. Linking(g)
  BY <1>1, <1>2, <1>3 DEF List, Linking
<1>5. Injective(g)
  BY <1>1 DEF List, Injective
<1>6. Rooted(g, root)
  <2>1. root \in DOMAIN g
    BY <1>1 DEF List, Rooted
  <2>2. \A c \in DOMAIN g : g[c].next # root
    BY <1>1 DEF List, Rooted
  <2>3. ASSUME NEW S \in SUBSET DOMAIN g, ClosedFrom(g, root, S)
        PROVE  S = DOMAIN g
    <3>1. CASE a \in S
      <4>1. ClosedFrom(h, root, S \union {b})
        BY <2>3, <3>1, <1>1, <1>2 DEF ClosedFrom
      <4>2. S \union {b} = DOMAIN h
        BY <4>1, <1>1 DEF List, Rooted
      <4> QED  BY <4>2, <1>1
    <3>2. CASE a \notin S
      <4>1. ClosedFrom(h, root, S)
        BY <2>3, <3>2, <1>1 DEF ClosedFrom
      <4>2. S = DOMAIN h
        BY <4>1, <1>1 DEF List, Rooted
      <4> QED  BY <4>2, <3>2
    <3> QED  BY <3>1, <3>2
  <2> QED  BY <2>1, <2>2, <2>3 DEF Rooted
<1> QED
  BY <1>4, <1>5, <1>6 DEF g, List
-------------------------------------------------------------------------------
(* What a split of block a at capacity cap makes of the heap h. *)
SplitAt(h, a, cap, g) ==
  LET rest == a + Header + cap
  IN /\ a \in Nat /\ cap \in Nat /\ h[a].capacity \in Nat
     /\ cap + Header + BLOCK_MIN_CAPACITY <= h[a].capacity
     /\ rest \notin DOMAIN h
     /\ DOMAIN g = DOMAIN h \union {rest}
     /\ g[a] = [next |-> rest, capacity |-> cap, is_free |-> TRUE]
     /\ g[rest] = [next |-> h[a].next,
                   capacity |-> h[a].capacity - cap - Header, is_free |-> TRUE]
     /\ \A c \in DOMAIN h \ {a} : g[c] = h[c]
     /\ g = [c \in DOMAIN g |-> g[c]]

LEMMA SplitEffect ==
  ASSUME NEW h, NEW a \in DOMAIN h, NEW q \in Nat, q >= BLOCK_MIN_CAPACITY,
         Typed(h), Disjoint(h), Splittable(h, a, q)
  PROVE  SplitAt(h, a, q, Split(h, a, q))
<1> DEFINE rest == a + Header + q
           g == Split(h, a, q)
<1>1. /\ a \in Nat /\ h[a] \in Block /\ h[a].capacity \in Nat
      /\ q + Header + BLOCK_MIN_CAPACITY <= h[a].capacity
  BY DEF Typed, Addr, Block, Splittable
<1>2. SizeMax(q, BLOCK_MIN_CAPACITY) = q
  BY SizeFacts DEF SizeMax
<1>3. g = [c \in DOMAIN h \union {rest} |->
             IF c = a THEN BlockInit(q + Header, rest)
             ELSE IF c = rest THEN BlockInit(h[a].capacity - q, h[a].next)
             ELSE h[c]]
  BY <1>2 DEF Split, SplitInto, SplitAddress, Contents
<1>4. rest # a
  BY <1>1, SizeFacts
<1>5. rest \notin DOMAIN h
  BY <1>1, SizeFacts DEF Disjoint, BlockAfter, Contents
<1>6. /\ BlockInit(q + Header, rest) = [next |-> rest, capacity |-> q, is_free |-> TRUE]
      /\ BlockInit(h[a].capacity - q, h[a].next)
           = [next |-> h[a].next, capacity |-> h[a].capacity - q - Header, is_free |-> TRUE]
  <2>1. (q + Header) - Header = q
    BY SizeFacts
  <2> QED  BY <2>1 DEF BlockInit
<1> HIDE DEF g, rest
<1>7. g = [c \in DOMAIN g |-> g[c]]
  BY <1>3
<1>8. DOMAIN g = DOMAIN h \union {rest}
  BY <1>3
<1>9. g[a] = BlockInit(q + Header, rest) /\ g[rest] = BlockInit(h[a].capacity - q, h[a].next)
  BY <1>3, <1>4
<1>10. \A c \in DOMAIN h \ {a} : g[c] = h[c]
  BY <1>3, <1>5
<1> QED
  BY <1>1, <1>5, <1>6, <1>7, <1>8, <1>9, <1>10 DEF g, rest, SplitAt

(* A split keeps the blocks apart and inside the same bytes. *)
LEMMA SplitKeepsLayout ==
  ASSUME NEW h, NEW o \in SUBSET Addr, NEW a \in DOMAIN h, NEW cap, NEW g,
         Layout(h, o), SplitAt(h, a, cap, g), h[a].next \in Addr \union {NULL}
  PROVE  Layout(g, o)
<1> DEFINE rest == a + Header + cap
<1> USE DEF SplitAt
<1>1. rest \in Nat /\ rest # a /\ rest \in Bytes(a, SizeOf(h, a))
  BY SizeFacts DEF Bytes, SizeOf
<1>2. rest \in Addr
  BY <1>1 DEF Layout, Within
<1>3. g[rest].capacity \in Nat /\ g[rest].capacity = h[a].capacity - cap - Header
  BY SizeFacts
<1>4. Typed(g)
  <2>1. g[a] \in Block
    BY <1>2 DEF Block
  <2>2. g[rest] \in Block
    BY <1>3 DEF Block
  <2>3. \A c \in DOMAIN h \ {a} : g[c] \in Block
    BY DEF Layout, Typed
  <2>4. \A c \in DOMAIN g : g[c] \in Block
    BY <2>1, <2>2, <2>3
  <2>5. DOMAIN g \subseteq Addr
    BY <1>2 DEF Layout, Typed
  <2> QED  BY <2>4, <2>5 DEF Typed
<1>5. Disjoint(g)
  <2> SUFFICES ASSUME NEW c \in DOMAIN g, NEW d \in DOMAIN g, c < d
               PROVE  BlockAfter(g, c) <= d
    BY DEF Disjoint
  <2>1. \A x \in DOMAIN h : x \in Nat /\ h[x].capacity \in Nat
    BY DEF Layout, Typed, Addr, Block
  <2>2. BlockAfter(g, a) = rest /\ BlockAfter(g, rest) = BlockAfter(h, a)
    BY <1>1, <1>3, SizeFacts DEF BlockAfter, Contents
  <2>3. \A x \in DOMAIN h \ {a} : BlockAfter(g, x) = BlockAfter(h, x)
    BY DEF BlockAfter
  <2>4. CASE c = rest
    <3>1. d \in DOMAIN h /\ a < d
      BY <2>1, <2>4, <1>1, SizeFacts
    <3> QED  BY <3>1, <2>2, <2>4 DEF Layout, Disjoint
  <2>5. CASE d = rest /\ c # rest
    <3>1. c \in DOMAIN h
      BY <2>5
    <3>2. CASE c = a
      BY <3>2, <2>2, <2>5, <1>1
    <3>3. CASE c < a
      BY <3>1, <3>3, <2>3, <2>1, <2>5, <1>1, SizeFacts DEF Layout, Disjoint, BlockAfter, Contents
    <3>4. CASE a < c
      <4>1. BlockAfter(h, a) <= c
        BY <3>1, <3>4 DEF Layout, Disjoint
      <4> QED  BY <4>1, <3>1, <2>1, <2>5, SizeFacts DEF BlockAfter, Contents
    <3> QED  BY <3>1, <3>2, <3>3, <3>4, <2>1
  <2>6. CASE c # rest /\ d # rest
    <3>1. c \in DOMAIN h /\ d \in DOMAIN h
      BY <2>6
    <3>2. CASE c = a
      <4>1. BlockAfter(h, a) <= d
        BY <3>1, <3>2 DEF Layout, Disjoint
      <4> QED  BY <4>1, <3>1, <3>2, <2>1, <2>2, SizeFacts DEF BlockAfter, Contents
    <3>3. CASE c # a
      BY <3>1, <3>3, <2>3 DEF Layout, Disjoint
    <3> QED  BY <3>2, <3>3
  <2> QED  BY <2>4, <2>5, <2>6
<1>6. Within(g, o)
  <2> SUFFICES ASSUME NEW c \in DOMAIN g, NEW x \in Bytes(c, SizeOf(g, c))
               PROVE  x \in o
    BY DEF Within
  <2>1. CASE c \in {a, rest}
    <3>1. x \in Bytes(a, SizeOf(h, a))
      BY <2>1, <1>1, <1>3, SizeFacts DEF Bytes, SizeOf
    <3> QED  BY <3>1 DEF Layout, Within
  <2>2. CASE c \in DOMAIN h \ {a}
    BY <2>2 DEF Layout, Within, SizeOf
  <2> QED  BY <2>1, <2>2
<1> QED
  BY <1>4, <1>5, <1>6 DEF Layout

(* A split puts the rest into the list, between the block and its successor. *)
LEMMA SplitKeepsList ==
  ASSUME NEW h, NEW root, NEW a \in DOMAIN h, NEW cap, NEW g,
         List(h, root), SplitAt(h, a, cap, g)
  PROVE  List(g, root)
<1> DEFINE rest == a + Header + cap
<1> USE DEF SplitAt
<1>1. rest # a /\ rest # NULL
  BY SizeFacts DEF NULL
<1>2. g[a].next = rest /\ g[rest].next = h[a].next
  OBVIOUS
<1> HIDE DEF rest
<1>3. /\ DOMAIN g = DOMAIN h \union {rest} /\ rest \notin DOMAIN h
      /\ \A c \in DOMAIN h \ {a} : g[c] = h[c]
  BY DEF rest
<1> HIDE DEF SplitAt
<1>4. \A c \in DOMAIN h : h[c].next # rest
  BY <1>1, <1>3 DEF List, Linking
<1>5. Linking(g)
  BY <1>2, <1>3 DEF List, Linking
<1>6. Injective(g)
  <2> SUFFICES ASSUME NEW c \in DOMAIN g, NEW d \in DOMAIN g,
                      g[c].next # NULL, g[c].next = g[d].next
               PROVE  c = d
    BY DEF Injective
  <2>1. CASE c = a \/ d = a
    BY <2>1, <1>1, <1>2, <1>3, <1>4
  <2>2. CASE c # a /\ d # a
    BY <2>2, <1>2, <1>3 DEF List, Injective
  <2> QED  BY <2>1, <2>2
<1>7. Rooted(g, root)
  <2>1. root \in DOMAIN g
    BY <1>3 DEF List, Rooted
  <2>2. \A c \in DOMAIN g : g[c].next # root
    BY <1>2, <1>3 DEF List, Rooted
  <2>3. ASSUME NEW S \in SUBSET DOMAIN g, ClosedFrom(g, root, S)
        PROVE  S = DOMAIN g
    <3>1. \A c \in S \ {rest} : h[c].next # NULL => h[c].next \in S \ {rest}
      BY <2>3, <1>1, <1>2, <1>3, <1>4 DEF ClosedFrom
    <3>2. ClosedFrom(h, root, S \ {rest})
      BY <3>1, <2>3, <1>3 DEF ClosedFrom, List, Rooted
    <3>3. S \ {rest} = DOMAIN h
      BY <3>2, <1>3 DEF List, Rooted
    <3>4. rest \in S
      BY <3>3, <2>3, <1>1, <1>2 DEF ClosedFrom
    <3> QED  BY <3>3, <3>4, <1>3
  <2> QED  BY <2>1, <2>2, <2>3 DEF Rooted
<1> QED
  BY <1>5, <1>6, <1>7 DEF List
-------------------------------------------------------------------------------
(* A heap that differs only in the marks has the same layout and list. *)
Marked(h, a, f, g) ==
  /\ DOMAIN g = DOMAIN h /\ g[a].is_free = f
  /\ \A c \in DOMAIN h : g[c].next = h[c].next /\ g[c].capacity = h[c].capacity
  /\ \A c \in DOMAIN h \ {a} : g[c] = h[c]

LEMMA MarkKeepsShape ==
  ASSUME NEW h, NEW o, NEW a \in DOMAIN h, NEW f \in BOOLEAN, Layout(h, o)
  PROVE  LET g == [h EXCEPT ![a].is_free = f]
         IN  /\ Layout(g, o) /\ Marked(h, a, f, g)
             /\ \A root : List(h, root) => List(g, root)
<1> DEFINE g == [h EXCEPT ![a].is_free = f]
<1>1. h[a] \in Block
  BY DEF Layout, Typed
<1>2. /\ DOMAIN g = DOMAIN h
      /\ g[a] = [h[a] EXCEPT !.is_free = f]
      /\ \A c \in DOMAIN h \ {a} : g[c] = h[c]
  BY DEF Layout, Typed
<1> HIDE DEF g
<1>3. g[a] \in Block /\ g[a].is_free = f
      /\ g[a].next = h[a].next /\ g[a].capacity = h[a].capacity
  BY <1>1, <1>2 DEF Block
<1>4. \A c \in DOMAIN h : g[c].next = h[c].next /\ g[c].capacity = h[c].capacity
  BY <1>2, <1>3
<1>5. g \in [DOMAIN h -> Block]
  BY <1>1 DEF g, Layout, Typed, Block
<1>6. Layout(g, o)
  <2>1. Typed(g)
    BY <1>2, <1>5 DEF Layout, Typed
  <2>2. Disjoint(g)
    BY <1>2, <1>4 DEF Layout, Disjoint, BlockAfter
  <2>3. Within(g, o)
    BY <1>2, <1>4 DEF Layout, Within, SizeOf
  <2> QED  BY <2>1, <2>2, <2>3 DEF Layout
<1>7. ASSUME NEW root, List(h, root)
      PROVE  List(g, root)
  BY <1>2, <1>4, <1>7 DEF List, Linking, Injective, Rooted, ClosedFrom
<1> QED
  BY <1>2, <1>3, <1>4, <1>6, <1>7 DEF g, Marked

(* A new region of n bytes at r, in fresh memory, linked behind the last   *)
(* block.                                                                  *)
LinkedAt(h, last, r, n, g) ==
  /\ DOMAIN g = DOMAIN h \union {r}
  /\ g[r] = [next |-> NULL, capacity |-> n - Header, is_free |-> TRUE]
  /\ g[last].next = r /\ g[last].capacity = h[last].capacity
  /\ g[last].is_free = h[last].is_free
  /\ \A c \in DOMAIN h \ {last} : g[c] = h[c]
  /\ Typed(g)

LEMMA LinkKeepsLayout ==
  ASSUME NEW h, NEW o \in SUBSET Addr, NEW last \in DOMAIN h, NEW n \in Nat, n > Header,
         NEW r \in Addr, NEW g, Layout(h, o), Bytes(r, n) \intersect o = {},
         LinkedAt(h, last, r, n, g)
  PROVE  r \notin DOMAIN h /\ Layout(g, o \union Bytes(r, n))
<1> USE DEF LinkedAt
<1>1. r \in Nat
  BY DEF Addr
<1>2. \A c \in DOMAIN h : c \in Nat /\ h[c].capacity \in Nat /\ c \in o
  <2> SUFFICES ASSUME NEW c \in DOMAIN h
               PROVE  c \in Nat /\ h[c].capacity \in Nat /\ c \in o
    OBVIOUS
  <2>1. c \in Nat /\ h[c].capacity \in Nat
    BY DEF Layout, Typed, Addr, Block
  <2>2. c \in Bytes(c, SizeOf(h, c))
    BY <2>1, SizeFacts DEF Bytes, SizeOf
  <2> QED  BY <2>1, <2>2 DEF Layout, Within
<1>3. r \in Bytes(r, n)
  BY <1>1, SizeFacts DEF Bytes
<1>4. r \notin DOMAIN h
  BY <1>2, <1>3
<1>5. \A c \in DOMAIN h : SizeOf(g, c) = SizeOf(h, c) /\ BlockAfter(g, c) = BlockAfter(h, c)
  BY DEF SizeOf, BlockAfter
<1>6. SizeOf(g, r) = n /\ BlockAfter(g, r) = r + n
  BY <1>1, SizeFacts DEF SizeOf, BlockAfter, Contents
<1>7. Disjoint(g)
  <2> SUFFICES ASSUME NEW c \in DOMAIN g, NEW d \in DOMAIN g, c < d
               PROVE  BlockAfter(g, c) <= d
    BY DEF Disjoint
  <2>1. CASE c \in DOMAIN h /\ d \in DOMAIN h
    BY <2>1, <1>5 DEF Layout, Disjoint
  <2>2. CASE c = r /\ d \in DOMAIN h
    <3>1. d \notin Bytes(r, n)
      BY <2>2, <1>2
    <3> QED  BY <3>1, <2>2, <1>1, <1>2, <1>6 DEF Bytes
  <2>3. CASE c \in DOMAIN h /\ d = r
    <3>1. r \notin Bytes(c, SizeOf(h, c))
      BY <2>3, <1>3 DEF Layout, Within
    <3> QED  BY <3>1, <2>3, <1>1, <1>2, <1>5, SizeFacts DEF Bytes, SizeOf, BlockAfter, Contents
  <2> QED  BY <2>1, <2>2, <2>3, <1>1
<1>8. Within(g, o \union Bytes(r, n))
  BY <1>5, <1>6 DEF Layout, Within
<1> QED
  BY <1>4, <1>7, <1>8 DEF Layout

LEMMA LinkKeepsList ==
  ASSUME NEW h, NEW root, root # NULL, NEW last \in DOMAIN h, NEW n, NEW r, r # NULL, NEW g,
         List(h, root), h[last].next = NULL, r \notin DOMAIN h, LinkedAt(h, last, r, n, g)
  PROVE  List(g, root)
<1> USE DEF LinkedAt
<1>1. /\ DOMAIN g = DOMAIN h \union {r} /\ r # last
      /\ g[r].next = NULL /\ g[last].next = r
      /\ \A c \in DOMAIN h \ {last} : g[c].next = h[c].next
  OBVIOUS
<1> HIDE DEF LinkedAt
<1>2. \A c \in DOMAIN h : h[c].next # r
  BY DEF List, Linking
<1>3. Linking(g)
  BY <1>1 DEF List, Linking
<1>4. Injective(g)
  BY <1>1, <1>2 DEF List, Injective
<1>5. Rooted(g, root)
  <2>1. root \in DOMAIN g /\ \A c \in DOMAIN g : g[c].next # root
    BY <1>1 DEF List, Rooted
  <2>2. ASSUME NEW S \in SUBSET DOMAIN g, ClosedFrom(g, root, S)
        PROVE  S = DOMAIN g
    <3>1. ClosedFrom(h, root, S \ {r})
      BY <2>2, <1>1, <1>2 DEF ClosedFrom, List, Rooted
    <3>2. S \ {r} = DOMAIN h
      BY <3>1, <1>1 DEF List, Rooted
    <3> QED  BY <3>2, <2>2, <1>1 DEF ClosedFrom
  <2> QED  BY <2>1, <2>2 DEF Rooted
<1> QED
  BY <1>3, <1>4, <1>5 DEF List
-------------------------------------------------------------------------------
(* The objects of hd are the used blocks of h, each with room enough. *)
HeldIn(h, hd) ==
  /\ \A p \in DOMAIN hd : p - Header \in DOMAIN h /\ hd[p] <= h[p - Header].capacity
  /\ \A a \in DOMAIN h : ~h[a].is_free <=> Contents(a) \in DOMAIN hd

LEMMA ContentsInverse ==
  ASSUME NEW a \in Nat, NEW p \in Nat
  PROVE  /\ Contents(a) \in Nat /\ Contents(a) - Header = a
         /\ p - Header = a => p = Contents(a)
  BY SizeFacts DEF Contents

LEMMA MergeKeepsHeld ==
  ASSUME NEW h, NEW hd, NEW a \in DOMAIN h, NEW g, DOMAIN hd \subseteq Nat,
         Typed(h), HeldIn(h, hd), Merged(h, a, g)
  PROVE  HeldIn(g, hd)
<1> USE DEF Merged
<1>1. \A c \in DOMAIN h : c \in Nat
  BY DEF Typed, Addr
<1>2. ASSUME NEW p \in DOMAIN hd
      PROVE  p - Header \in DOMAIN g /\ hd[p] <= g[p - Header].capacity
  <2>1. p - Header \in DOMAIN h /\ hd[p] <= h[p - Header].capacity
    BY DEF HeldIn
  <2>2. ~h[p - Header].is_free
    BY <2>1, <1>1, ContentsInverse DEF HeldIn
  <2>3. p - Header # a /\ p - Header # h[a].next
    BY <2>2
  <2> QED  BY <2>1, <2>3
<1>3. ASSUME NEW c \in DOMAIN g
      PROVE  ~g[c].is_free <=> Contents(c) \in DOMAIN hd
  BY DEF HeldIn
<1> QED
  BY <1>2, <1>3 DEF HeldIn

LEMMA SplitKeepsHeld ==
  ASSUME NEW h, NEW hd, NEW a \in DOMAIN h, NEW cap, NEW g, DOMAIN hd \subseteq Nat,
         Typed(h), HeldIn(h, hd), SplitAt(h, a, cap, g), h[a].is_free
  PROVE  HeldIn(g, hd)
<1> USE DEF SplitAt
<1> DEFINE rest == a + Header + cap
<1>1. rest \in Nat /\ \A c \in DOMAIN h : c \in Nat
  BY SizeFacts DEF Typed, Addr
<1>2. ASSUME NEW p \in DOMAIN hd
      PROVE  p - Header \in DOMAIN g /\ hd[p] <= g[p - Header].capacity
  <2>1. p - Header \in DOMAIN h /\ hd[p] <= h[p - Header].capacity
    BY DEF HeldIn
  <2>2. ~h[p - Header].is_free
    BY <2>1, <1>1, ContentsInverse DEF HeldIn
  <2> QED  BY <2>1, <2>2
<1>3. Contents(rest) \notin DOMAIN hd
  BY <1>1, ContentsInverse DEF HeldIn
<1>4. ASSUME NEW c \in DOMAIN g
      PROVE  ~g[c].is_free <=> Contents(c) \in DOMAIN hd
  BY <1>3 DEF HeldIn
<1> QED
  BY <1>2, <1>4 DEF HeldIn

(* Taking block a for p, and giving it back. *)
LEMMA TakeKeepsHeld ==
  ASSUME NEW h, NEW hd, NEW a \in DOMAIN h, NEW n \in Nat, NEW g, NEW hg,
         DOMAIN hd \subseteq Nat, Typed(h), HeldIn(h, hd), n <= h[a].capacity,
         DOMAIN g = DOMAIN h, ~g[a].is_free,
         \A c \in DOMAIN h : g[c].capacity = h[c].capacity,
         \A c \in DOMAIN h \ {a} : g[c] = h[c],
         hg = [o \in DOMAIN hd \union {Contents(a)} |-> IF o = Contents(a) THEN n ELSE hd[o]]
  PROVE  HeldIn(g, hg)
<1>1. \A c \in DOMAIN h : c \in Nat
  BY DEF Typed, Addr
<1>2. Contents(a) - Header = a
  BY <1>1, ContentsInverse
<1>3. ASSUME NEW p \in DOMAIN hg
      PROVE  p - Header \in DOMAIN g /\ hg[p] <= g[p - Header].capacity
  BY <1>2 DEF HeldIn
<1>4. ASSUME NEW c \in DOMAIN g
      PROVE  ~g[c].is_free <=> Contents(c) \in DOMAIN hg
  <2>1. Contents(c) = Contents(a) => c = a
    BY <1>1, ContentsInverse
  <2> QED  BY <2>1 DEF HeldIn
<1> QED
  BY <1>3, <1>4 DEF HeldIn

LEMMA DropKeepsHeld ==
  ASSUME NEW h, NEW hd, NEW p \in DOMAIN hd, NEW g, NEW hg,
         DOMAIN hd \subseteq Nat, Typed(h), HeldIn(h, hd),
         DOMAIN g = DOMAIN h, g[p - Header].is_free,
         \A c \in DOMAIN h \ {p - Header} : g[c] = h[c],
         hg = [o \in DOMAIN hd \ {p} |-> hd[o]]
  PROVE  HeldIn(g, hg)
<1>1. p - Header \in DOMAIN h /\ \A c \in DOMAIN h : c \in Nat
  BY DEF Typed, Addr, HeldIn
<1>2. Contents(p - Header) = p
  BY <1>1, ContentsInverse
<1>3. ASSUME NEW o \in DOMAIN hg
      PROVE  o - Header \in DOMAIN g /\ hg[o] <= g[o - Header].capacity
  <2>1. o - Header # p - Header
    BY <1>1, ContentsInverse
  <2> QED  BY <2>1 DEF HeldIn
<1>4. ASSUME NEW c \in DOMAIN g
      PROVE  ~g[c].is_free <=> Contents(c) \in DOMAIN hg
  <2>1. Contents(c) = p <=> c = p - Header
    BY <1>1, <1>2, ContentsInverse
  <2> QED  BY <2>1 DEF HeldIn
<1> QED
  BY <1>3, <1>4 DEF HeldIn
-------------------------------------------------------------------------------
(* The inductive invariant.  The list is complete only outside heap_term,  *)
(* which takes it apart from the front; there the start of the current run *)
(* is enough, because a run that begins at a block cuts no other block.    *)
Live == pc \in {"idle", "find", "grow"}

LiveInv == Live => List(heap, base) /\ HeldIn(heap, held)
CallInv ==
  /\ pc \in {"off", "term"} => DOMAIN held = {}
  /\ pc = "grow" => cur \in DOMAIN heap /\ heap[cur].next = NULL
  /\ pc = "term" => rstart = cur \/ rstart \in DOMAIN heap
Inv ==
  /\ TypeOK
  /\ Layout(heap, owned) /\ owned \intersect foreign = {}
  /\ LiveInv /\ CallInv

LEMMA InvInit == Init => Inv
<1> SUFFICES ASSUME Init PROVE Inv
  OBVIOUS
<1>1. heap = EmptyHeap /\ DOMAIN heap = {} /\ DOMAIN held = {}
  BY DEF Init, EmptyHeap, NoObjects
<1>2. heap \in [DOMAIN heap -> Block] /\ held \in [DOMAIN held -> SizeT]
  BY DEF Init, EmptyHeap, NoObjects
<1>3. TypeOK
  <2>1. 0 \in SizeT
    BY SizeFacts DEF SizeT
  <2> QED  BY <1>1, <1>2, <2>1 DEF Init, TypeOK, NULL
<1>4. Layout(heap, owned)
  BY <1>1, <1>2 DEF Layout, Typed, Disjoint, Within
<1> QED
  BY <1>1, <1>3, <1>4 DEF Init, Inv, LiveInv, Live, CallInv

(* The step keeps every used block in place and at its size, outside X. *)
SparesUsed(X) ==
  \A c \in DOMAIN heap \ X :
    ~heap[c].is_free => c \in DOMAIN heap' /\ heap'[c].capacity = heap[c].capacity

LEMMA InvTypes ==
  ASSUME Inv
  PROVE  /\ Typed(heap) /\ Layout(heap, owned)
         /\ owned \in SUBSET Addr /\ DOMAIN held \subseteq Nat
         /\ \A a \in DOMAIN heap : a \in Nat /\ a # NULL
                                   /\ heap[a] \in Block /\ heap[a].capacity \in Nat
BY DEF Inv, TypeOK, Layout, Typed, Addr, Block, NULL

LEMMA NeedFacts ==
  ASSUME query \in SizeT
  PROVE  Need \in Nat /\ Need >= BLOCK_MIN_CAPACITY /\ query <= Need /\ query \in Nat
BY SizeFacts DEF Need, SizeMax, SizeT

LEMMA HeapInitKeepsInv ==
  ASSUME Inv, NEW n \in InitSizes, HeapInit(n)
  PROVE  Inv'
<1> DEFINE size == RegionSize(n)
<1>1. n \in Nat
  BY HeapAssumption, SizeFacts DEF HeapAssumption, SizeT
<1>2. size \in Nat /\ size > Header
  BY <1>1, RegionSizeType
<1> HIDE DEF size
<1>3. PICK r \in MapPages(HEAP_START, size) :
        /\ heap' = [a \in {r} |-> BlockInit(size, NULL)]
        /\ owned' = owned \union Bytes(r, size)
        /\ base' = r
  BY DEF HeapInit, size
<1>4. r \in Addr /\ r \in Nat /\ IsFreeRange(r, size)
  BY <1>2, <1>3, HeapAssumption, SizeFacts DEF MapPages, IsFreeRange, HeapAssumption, Addr
<1>5. Bytes(r, size) \subseteq Addr /\ Bytes(r, size) \intersect (owned \union foreign) = {}
  BY <1>2, <1>4, SizeFacts DEF IsFreeRange, Bytes, Addr
<1>6. DOMAIN heap' = {r} /\ heap'[r] = [next |-> NULL, capacity |-> size - Header, is_free |-> TRUE]
  BY <1>3 DEF BlockInit
<1>7. heap'[r] \in Block /\ SizeOf(heap', r) = size /\ heap'[r].next = NULL /\ heap'[r].is_free
  BY <1>2, <1>6, SizeFacts DEF Block, SizeOf
<1>8. Typed(heap')
  BY <1>3, <1>4, <1>6, <1>7 DEF Typed
<1>9. Disjoint(heap')
  BY <1>4, <1>6 DEF Disjoint
<1>10. Within(heap', owned')
  BY <1>3, <1>6, <1>7 DEF Within
<1>11. List(heap', base')
  <2>1. Linking(heap') /\ Injective(heap')
    BY <1>6, <1>7 DEF Linking, Injective
  <2>2. base' = r /\ r # NULL /\ DOMAIN heap' = {r} /\ heap'[r].next = NULL
    BY <1>3, <1>4, <1>6, <1>7 DEF Addr, NULL
  <2>3. Rooted(heap', base')
    BY <2>2 DEF Rooted, ClosedFrom
  <2> QED  BY <2>1, <2>3 DEF List
<1>12. DOMAIN held' = {}
  BY DEF HeapInit, Inv, CallInv
<1>13. HeldIn(heap', held')
  BY <1>6, <1>7, <1>12 DEF HeldIn
<1>14. TypeOK'
  BY <1>3, <1>4, <1>5, <1>8 DEF HeapInit, Inv, TypeOK, Typed
<1> QED
  BY <1>3, <1>5, <1>8, <1>9, <1>10, <1>11, <1>13, <1>14
     DEF HeapInit, Inv, Layout, LiveInv, CallInv

LEMMA MallocKeepsInv ==
  ASSUME Inv, NEW q \in Queries, Malloc(q)
  PROVE  Inv'
<1>1. TypeOK'
  BY HeapAssumption DEF HeapAssumption, Inv, TypeOK, Malloc, memory
<1> QED
  BY <1>1 DEF Inv, Malloc, memory, LiveInv, Live, CallInv

LEMMA FreeKeepsInv ==
  ASSUME Inv, NEW p \in DOMAIN held, Free(p)
  PROVE  Inv' /\ SparesUsed({p - Header})
<1> DEFINE a == p - Header
           g == [heap EXCEPT ![a].is_free = TRUE]
           hg == [o \in DOMAIN held \ {p} |-> held[o]]
<1>1. /\ pc = "idle" /\ heap' = TryMergeWithNext(g, a) /\ held' = hg
      /\ UNCHANGED <<owned, foreign, base, call>>
  BY DEF Free
<1>2. List(heap, base) /\ HeldIn(heap, held) /\ a \in DOMAIN heap
  BY <1>1 DEF Inv, LiveInv, Live, HeldIn
<1> HIDE DEF a
<1>3. /\ Layout(g, owned) /\ List(g, base) /\ DOMAIN g = DOMAIN heap /\ g[a].is_free
      /\ \A c \in DOMAIN heap \ {a} : g[c] = heap[c]
  <2>1. Layout(g, owned) /\ Marked(heap, a, TRUE, g) /\ (\A root : List(heap, root) => List(g, root))
    BY <1>2, InvTypes, MarkKeepsShape
  <2> QED  BY <1>2, <2>1 DEF Marked
<1> HIDE DEF g
<1>4. HeldIn(g, hg)
  BY <1>2, <1>3, InvTypes, DropKeepsHeld DEF a
<1>5. Typed(g) /\ Linking(g) /\ a \in DOMAIN g
  BY <1>2, <1>3 DEF Layout, List
<1>6. DOMAIN hg \subseteq Nat /\ hg \in [DOMAIN hg -> SizeT]
  BY InvTypes DEF Inv, TypeOK
<1> HIDE DEF hg
<1>7. Layout(heap', owned) /\ List(heap', base) /\ HeldIn(heap', hg)
  <2>1. CASE CanMergeWithNext(g, a)
    <3>1. heap' = MergeWithNext(g, a)
      BY <1>1, <2>1 DEF TryMergeWithNext
    <3>2. Merged(g, a, heap')
      BY <1>5, <2>1, <3>1, MergeEffect
    <3>3. Layout(heap', owned)
      BY <1>3, <1>5, <2>1, <3>1, MergeKeepsLayout
    <3>4. List(heap', base)
      BY <1>3, <1>5, <2>1, <3>1, MergeKeepsList
    <3>5. HeldIn(heap', hg)
      BY <1>4, <1>5, <1>6, <3>2, MergeKeepsHeld
    <3> QED  BY <3>3, <3>4, <3>5
  <2>2. CASE ~CanMergeWithNext(g, a)
    BY <1>1, <1>3, <1>4, <2>2 DEF TryMergeWithNext
  <2> QED  BY <2>1, <2>2
<1>8. TypeOK'
  BY <1>1, <1>6, <1>7 DEF Inv, TypeOK, Layout, Typed, call
<1>9. SparesUsed({a})
  <2>1. CASE CanMergeWithNext(g, a)
    <3>1. Merged(g, a, heap')
      BY <1>1, <1>5, <2>1, MergeEffect DEF TryMergeWithNext
    <3> QED  BY <1>3, <3>1 DEF SparesUsed, Merged
  <2>2. CASE ~CanMergeWithNext(g, a)
    BY <1>1, <1>3, <2>2 DEF TryMergeWithNext, SparesUsed
  <2> QED  BY <2>1, <2>2
<1> QED
  BY <1>1, <1>7, <1>8, <1>9 DEF a, Inv, LiveInv, CallInv, call

LEMMA FindMergeKeepsInv ==
  ASSUME Inv, FindMerge
  PROVE  Inv' /\ SparesUsed({})
<1>1. /\ pc = "find" /\ cur \in DOMAIN heap /\ CanMergeWithNext(heap, cur)
      /\ heap' = MergeWithNext(heap, cur)
      /\ UNCHANGED <<owned, foreign, base, held, pc, cur, query, grown, rstart, rsize>>
  BY DEF FindMerge, Searching, call
<1>2. List(heap, base) /\ Linking(heap) /\ HeldIn(heap, held)
  BY <1>1 DEF Inv, LiveInv, Live, List
<1>3. Merged(heap, cur, heap')
  BY <1>1, <1>2, InvTypes, MergeEffect
<1>4. Layout(heap', owned)
  BY <1>1, <1>2, InvTypes, MergeKeepsLayout
<1>5. List(heap', base)
  BY <1>1, <1>2, InvTypes, MergeKeepsList
<1>6. HeldIn(heap', held)
  BY <1>1, <1>2, <1>3, InvTypes, MergeKeepsHeld
<1>7. TypeOK'
  BY <1>1, <1>4 DEF Inv, TypeOK, Layout, Typed
<1>8. SparesUsed({})
  BY <1>3 DEF SparesUsed, Merged
<1> QED
  BY <1>1, <1>4, <1>5, <1>6, <1>7, <1>8 DEF Inv, LiveInv, CallInv

(* The heap after split_if_too_big, before the block is marked. *)
LEMMA SplitIfTooBigFacts ==
  ASSUME NEW h, NEW o \in SUBSET Addr, NEW root, NEW hd, NEW a \in DOMAIN h,
         NEW q \in Nat, q >= BLOCK_MIN_CAPACITY, DOMAIN hd \subseteq Nat,
         Layout(h, o), List(h, root), HeldIn(h, hd), h[a].is_free, q <= h[a].capacity
  PROVE  LET g == SplitIfTooBig(h, a, q)
         IN /\ Layout(g, o) /\ List(g, root) /\ HeldIn(g, hd)
            /\ a \in DOMAIN g /\ q <= g[a].capacity
            /\ DOMAIN h \subseteq DOMAIN g /\ \A c \in DOMAIN h \ {a} : g[c] = h[c]
<1> DEFINE g == SplitIfTooBig(h, a, q)
<1>1. CASE Splittable(h, a, q)
  <2>1. g = Split(h, a, q) /\ Typed(h) /\ Disjoint(h)
    BY <1>1 DEF SplitIfTooBig, Layout
  <2> HIDE DEF g
  <2>2. SplitAt(h, a, q, g)
    BY <1>1, <2>1, SplitEffect
  <2>3. h[a].next \in Addr \union {NULL}
    BY DEF List, Linking, Layout, Typed
  <2>4. Layout(g, o)
    BY <2>2, <2>3, SplitKeepsLayout
  <2>5. List(g, root)
    BY <2>2, SplitKeepsList
  <2>6. HeldIn(g, hd)
    BY <2>1, <2>2, SplitKeepsHeld
  <2> QED  BY <2>2, <2>4, <2>5, <2>6 DEF SplitAt, g
<1>2. CASE ~Splittable(h, a, q)
  BY <1>2 DEF SplitIfTooBig
<1> QED
  BY <1>1, <1>2

LEMMA FindGoodKeepsInv ==
  ASSUME Inv, FindGood
  PROVE  Inv' /\ SparesUsed({})
<1> DEFINE g == SplitIfTooBig(heap, cur, Need)
           p == Contents(cur)
           hg == [o \in DOMAIN held \union {p} |-> IF o = p THEN query ELSE held[o]]
<1>1. /\ pc = "find" /\ cur \in DOMAIN heap /\ heap[cur].is_free /\ Need <= heap[cur].capacity
      /\ heap' = [g EXCEPT ![cur].is_free = FALSE] /\ held' = hg
      /\ pc' = "idle" /\ cur' = NULL /\ query' = 0 /\ grown' = FALSE
      /\ UNCHANGED <<owned, foreign, base, rstart, rsize>>
  <2>1. GoodBlock /\ cur \in DOMAIN heap /\ cur \in Nat
    BY InvTypes DEF FindGood, Searching
  <2>2. Need \in Nat /\ heap[cur].capacity \in Nat
    BY <2>1, InvTypes, NeedFacts DEF Inv, TypeOK
  <2>3. Need <= heap[cur].capacity /\ heap[cur].is_free
    BY <2>1, <2>2 DEF GoodBlock, BigEnough
  <2> QED  BY <2>1, <2>3 DEF FindGood, Searching, Return
<1>2. Need \in Nat /\ Need >= BLOCK_MIN_CAPACITY /\ query <= Need /\ query \in Nat
      /\ query \in SizeT
  BY NeedFacts DEF Inv, TypeOK
<1>3. List(heap, base) /\ HeldIn(heap, held)
  BY <1>1 DEF Inv, LiveInv, Live
<1>4. /\ Layout(g, owned) /\ List(g, base) /\ HeldIn(g, held)
      /\ cur \in DOMAIN g /\ Need <= g[cur].capacity
      /\ DOMAIN heap \subseteq DOMAIN g /\ \A c \in DOMAIN heap \ {cur} : g[c] = heap[c]
  BY <1>1, <1>2, <1>3, InvTypes, SplitIfTooBigFacts
<1> HIDE DEF g
<1>5. Layout(heap', owned) /\ Marked(g, cur, FALSE, heap') /\ List(heap', base)
  <2>1. FALSE \in BOOLEAN
    OBVIOUS
  <2> QED  BY <1>1, <1>4, <2>1, MarkKeepsShape
<1>6. query <= g[cur].capacity /\ Typed(g)
  <2>1. g[cur].capacity \in Nat
    BY <1>4 DEF Layout, Typed, Block
  <2> QED  BY <2>1, <1>2, <1>4 DEF Layout
<1>7. HeldIn(heap', hg)
  BY <1>2, <1>4, <1>5, <1>6, InvTypes, TakeKeepsHeld DEF Marked
<1>8. DOMAIN hg \subseteq Nat /\ hg \in [DOMAIN hg -> SizeT]
  <2>1. p \in Nat
    BY <1>1, InvTypes, ContentsInverse
  <2> QED  BY <2>1, <1>2 DEF Inv, TypeOK
<1>9. TypeOK'
  <2>1. 0 \in SizeT /\ 0 \in Nat
    BY SizeFacts DEF SizeT
  <2> HIDE DEF hg
  <2> QED  BY <1>1, <1>5, <1>8, <2>1 DEF Inv, TypeOK, Layout, Typed, NULL
<1> HIDE DEF hg
<1>10. SparesUsed({})
  BY <1>1, <1>4, <1>5 DEF SparesUsed, Marked
<1> QED
  BY <1>1, <1>5, <1>7, <1>9, <1>10 DEF Inv, LiveInv, CallInv

LEMMA SearchKeepsInv ==
  ASSUME Inv, FindNext \/ FindLast \/ FindGiveUp \/ GrowFail
  PROVE  Inv'
<1>0. 0 \in SizeT /\ 0 \in Nat
  BY SizeFacts DEF SizeT
<1>1. CASE FindNext
  <2>1. pc = "find" /\ cur \in DOMAIN heap
    BY <1>1 DEF FindNext, Searching
  <2>2. heap[cur].next \in Nat
    BY <2>1, InvTypes DEF Block, Addr, NULL
  <2> QED  BY <1>1, <2>1, <2>2 DEF FindNext, memory, Inv, TypeOK, LiveInv, Live, CallInv
<1>2. CASE FindLast
  BY <1>2 DEF FindLast, Searching, memory, Inv, TypeOK, LiveInv, Live, CallInv
<1>3. CASE FindGiveUp
  BY <1>0, <1>3 DEF FindGiveUp, Searching, Return, memory, Inv, TypeOK, LiveInv, Live, CallInv, NULL
<1>4. CASE GrowFail
  BY <1>0, <1>4 DEF GrowFail, Return, memory, Inv, TypeOK, LiveInv, Live, CallInv, NULL
<1> QED
  BY <1>1, <1>2, <1>3, <1>4

(* The heap with a new region behind the last block, before they are merged. *)
LEMMA GrowLinks ==
  ASSUME Inv, pc = "grow", NEW r \in MapPages(BlockAfter(heap, cur), RegionSize(Need))
  PROVE  LET size == RegionSize(Need)
         IN  /\ r \in Addr /\ r \in Nat /\ IsFreeRange(r, size) /\ size \in Nat /\ size > Header
             /\ Bytes(r, size) \subseteq Addr
             /\ Bytes(r, size) \intersect (owned \union foreign) = {}
             /\ cur \in Nat /\ r \notin DOMAIN heap
             /\ LinkedAt(heap, cur, r, size, Linked(cur, r, size))
<1> DEFINE size == RegionSize(Need)
           g == Linked(cur, r, size)
<1>1. cur \in DOMAIN heap /\ heap[cur].next = NULL
  BY DEF Inv, CallInv
<1>2. size \in Nat /\ size > Header
  BY NeedFacts, RegionSizeType DEF Inv, TypeOK
<1> HIDE DEF size
<1>4. r \in Addr /\ r \in Nat /\ IsFreeRange(r, size)
  <2>1. BlockAfter(heap, cur) \in Nat
    BY <1>1, InvTypes, SizeFacts DEF BlockAfter, Contents
  <2> QED  BY <1>2, <2>1, SizeFacts DEF MapPages, IsFreeRange, Addr, size
<1>5. Bytes(r, size) \subseteq Addr /\ Bytes(r, size) \intersect (owned \union foreign) = {}
  BY <1>2, <1>4, SizeFacts DEF IsFreeRange, Bytes, Addr
<1>6. cur \in Nat /\ cur \in owned
  <2>1. cur \in Nat /\ heap[cur].capacity \in Nat
    BY <1>1, InvTypes
  <2>2. cur \in Bytes(cur, SizeOf(heap, cur))
    BY <2>1, SizeFacts DEF Bytes, SizeOf
  <2> QED  BY <2>1, <2>2, <1>1 DEF Inv, Layout, Within
<1>7. r # cur
  BY <1>2, <1>4, <1>5, <1>6, SizeFacts DEF Bytes
<1>8. r \notin DOMAIN heap
  <2>1. \A c \in DOMAIN heap : c \in owned
    <3> SUFFICES ASSUME NEW c \in DOMAIN heap PROVE c \in owned
      OBVIOUS
    <3>1. c \in Nat /\ heap[c].capacity \in Nat
      BY InvTypes
    <3>2. c \in Bytes(c, SizeOf(heap, c))
      BY <3>1, SizeFacts DEF Bytes, SizeOf
    <3> QED  BY <3>2 DEF Inv, Layout, Within
  <2>2. r \in Bytes(r, size)
    BY <1>2, <1>4, SizeFacts DEF Bytes
  <2> QED  BY <2>1, <2>2, <1>5
<1>9. LinkedAt(heap, cur, r, size, g)
  <2>1. DOMAIN g = DOMAIN heap \union {r}
    BY DEF Linked
  <2>2. g[r] = [next |-> NULL, capacity |-> size - Header, is_free |-> TRUE]
    BY DEF Linked, BlockInit
  <2>3. g[cur] = [heap[cur] EXCEPT !.next = r]
    BY <1>1, <1>7 DEF Linked
  <2>4. heap[cur] \in Block
    BY <1>1, InvTypes
  <2>5. g[cur] \in Block /\ g[cur].next = r /\ g[cur].capacity = heap[cur].capacity
        /\ g[cur].is_free = heap[cur].is_free
    BY <1>4, <2>3, <2>4 DEF Block
  <2>6. g[r] \in Block
    BY <1>2, <2>2, SizeFacts DEF Block
  <2>8. \A c \in DOMAIN heap \ {cur} : g[c] = heap[c]
    BY <1>8 DEF Linked
  <2>9. Typed(g)
    <3>1. \A c \in DOMAIN g : g[c] \in Block
      BY <2>1, <2>5, <2>6, <2>8, InvTypes
    <3>2. g = [c \in DOMAIN g |-> g[c]]
      BY DEF Linked
    <3>3. DOMAIN g \subseteq Addr
      BY <1>4, <2>1, InvTypes DEF Typed
    <3> QED  BY <3>1, <3>2, <3>3 DEF Typed
  <2> QED  BY <2>1, <2>2, <2>5, <2>8, <2>9 DEF LinkedAt
<1> QED
  BY <1>2, <1>4, <1>5, <1>6, <1>8, <1>9 DEF size

LEMMA GrowKeepsInv ==
  ASSUME Inv, Grow
  PROVE  Inv' /\ SparesUsed({})
<1> DEFINE size == RegionSize(Need)
<1>1. /\ pc = "grow" /\ pc' = "find"
      /\ UNCHANGED <<foreign, base, held, query, rstart, rsize>>
      /\ grown' = TRUE
      /\ cur \in DOMAIN heap /\ heap[cur].next = NULL
      /\ List(heap, base) /\ HeldIn(heap, held)
  BY DEF Grow, Inv, LiveInv, Live, CallInv
<1>2. size \in Nat /\ size > Header
  BY NeedFacts, RegionSizeType DEF Inv, TypeOK
<1> HIDE DEF size
<1>3. PICK r \in MapPages(BlockAfter(heap, cur), size) :
        LET linked == Linked(cur, r, size)
        IN /\ owned' = owned \union Bytes(r, size)
           /\ heap' = TryMergeWithNext(linked, cur)
           /\ cur' = IF CanMergeWithNext(linked, cur) THEN cur ELSE r
  BY DEF Grow, size
<1> DEFINE g == Linked(cur, r, size)
<1>4. r \in Addr /\ r \in Nat
  BY <1>1, <1>3, GrowLinks DEF size
<1>5. Bytes(r, size) \subseteq Addr /\ Bytes(r, size) \intersect (owned \union foreign) = {}
  BY <1>1, <1>3, GrowLinks DEF size
<1>6. cur \in Nat
  BY <1>1, InvTypes
<1>8. LinkedAt(heap, cur, r, size, g)
  BY <1>1, <1>3, GrowLinks DEF size
<1>9. /\ heap' = TryMergeWithNext(g, cur)
      /\ cur' = IF CanMergeWithNext(g, cur) THEN cur ELSE r
      /\ owned' = owned \union Bytes(r, size)
  BY <1>3
<1> HIDE DEF g
<1>10. r \notin DOMAIN heap /\ Layout(g, owned')
  BY <1>1, <1>2, <1>4, <1>5, <1>8, <1>9, InvTypes, LinkKeepsLayout
<1>11. List(g, base)
  <2>1. base # NULL /\ r # NULL
    BY <1>1, <1>4, InvTypes DEF List, Rooted, Addr, NULL
  <2> QED  BY <1>1, <1>8, <1>10, <2>1, LinkKeepsList
<1>12. HeldIn(g, held)
  <2>1. Contents(r) \notin DOMAIN held
    BY <1>1, <1>4, <1>10, ContentsInverse DEF HeldIn
  <2> QED  BY <2>1, <1>1, <1>8, <1>10 DEF HeldIn, LinkedAt
<1>13. Typed(g) /\ Linking(g) /\ cur \in DOMAIN g /\ r \in DOMAIN g
  BY <1>1, <1>8, <1>10, <1>11 DEF Layout, List, LinkedAt
<1>14. Layout(heap', owned') /\ List(heap', base) /\ HeldIn(heap', held)
  <2>1. CASE CanMergeWithNext(g, cur)
    <3>1. heap' = MergeWithNext(g, cur)
      BY <1>9, <2>1 DEF TryMergeWithNext
    <3>2. Merged(g, cur, heap')
      BY <1>13, <2>1, <3>1, MergeEffect
    <3>3. Layout(heap', owned')
      BY <1>10, <1>13, <2>1, <3>1, MergeKeepsLayout
    <3>4. List(heap', base)
      BY <1>11, <1>13, <2>1, <3>1, MergeKeepsList
    <3>5. HeldIn(heap', held)
      BY <1>12, <1>13, <3>2, InvTypes, MergeKeepsHeld
    <3> QED  BY <3>3, <3>4, <3>5
  <2>2. CASE ~CanMergeWithNext(g, cur)
    BY <1>9, <1>10, <1>11, <1>12, <2>2 DEF TryMergeWithNext
  <2> QED  BY <2>1, <2>2
<1>15. cur' \in Nat
  BY <1>4, <1>6, <1>9
<1>16. TypeOK'
  BY <1>1, <1>5, <1>9, <1>14, <1>15 DEF Inv, TypeOK, Layout, Typed
<1>17. SparesUsed({})
  <2>1. \A c \in DOMAIN heap : c \in DOMAIN g /\ g[c].capacity = heap[c].capacity
                               /\ g[c].is_free = heap[c].is_free
    BY <1>8, <1>10 DEF LinkedAt
  <2>2. CASE CanMergeWithNext(g, cur)
    <3>1. Merged(g, cur, heap')
      BY <1>9, <1>13, <2>2, MergeEffect DEF TryMergeWithNext
    <3> QED  BY <2>1, <3>1 DEF SparesUsed, Merged
  <2>3. CASE ~CanMergeWithNext(g, cur)
    BY <1>9, <2>1, <2>3 DEF TryMergeWithNext, SparesUsed
  <2> QED  BY <2>2, <2>3
<1> QED
  BY <1>1, <1>5, <1>9, <1>14, <1>16, <1>17 DEF Inv, LiveInv, CallInv

LEMMA TermWalkKeepsInv ==
  ASSUME Inv, HeapTerm \/ TermWalk
  PROVE  Inv'
<1>1. CASE HeapTerm
  <2>1. HEAP_START \in Nat
    BY HeapAssumption DEF HeapAssumption
  <2>2. DOMAIN NoObjects = {} /\ NoObjects \in [DOMAIN NoObjects -> SizeT]
    BY DEF NoObjects
  <2> QED  BY <1>1, <2>1, <2>2 DEF HeapTerm, Inv, TypeOK, LiveInv, Live, CallInv
<1>2. CASE TermWalk
  <2>1. pc = "term" /\ cur \in DOMAIN heap
    BY <1>2 DEF TermWalk, Terminating
  <2>2. heap[cur].next \in Nat /\ rsize + SizeOf(heap, cur) \in Nat
    BY <2>1, InvTypes, SizeFacts DEF Block, Addr, NULL, SizeOf, Inv, TypeOK
  <2> QED  BY <1>2, <2>1, <2>2 DEF TermWalk, memory, Inv, TypeOK, LiveInv, Live, CallInv
<1> QED
  BY <1>1, <1>2

(* The bytes unmapped begin at a block: a block in front of them ends      *)
(* before them, and one that starts among them goes with them.             *)
LEMMA TermUnmapKeepsInv ==
  ASSUME Inv, TermUnmap
  PROVE  Inv'
<1> DEFINE n == RoundPages(rsize + SizeOf(heap, cur))
           gone == Unmapped(rstart, rsize + SizeOf(heap, cur))
<1>1. /\ pc = "term" /\ cur \in DOMAIN heap /\ rstart \in DOMAIN heap
      /\ owned' = owned \ gone /\ foreign' = foreign \ gone
      /\ heap' = [a \in DOMAIN heap \ gone |-> heap[a]]
      /\ rstart' = heap[cur].next /\ rsize' = 0 /\ cur' = heap[cur].next
      /\ pc' \in {"off", "term"} /\ (base' = NULL \/ base' = base)
      /\ UNCHANGED <<held, query, grown>>
  BY DEF TermUnmap, UnmapRun, Terminating, Inv, CallInv
<1>2. \E k \in Int : gone = {} \/ gone = rstart .. k
  <2>1. rsize + SizeOf(heap, cur) \in Nat
    BY <1>1, InvTypes, SizeFacts DEF SizeOf, Inv, TypeOK
  <2>2. PagesCount(rsize + SizeOf(heap, cur)) \in Nat
    BY <2>1, SizeFacts DEF PagesCount
  <2>3. PageSize * PagesCount(rsize + SizeOf(heap, cur)) \in Nat
    BY <2>2, SizeFacts
  <2>4. n \in Nat
    BY <2>3, SizeFacts DEF RoundPages
  <2> HIDE DEF n
  <2>5. gone = {} \/ gone = rstart .. (rstart + n - 1)
    BY DEF Unmapped, Bytes, n
  <2> QED  BY <2>4, <2>5, <1>1, InvTypes
<1> HIDE DEF gone
<1>3. \A c \in DOMAIN heap' : c \in DOMAIN heap /\ c \notin gone /\ heap'[c] = heap[c]
  BY <1>1
<1>4. Typed(heap')
  BY <1>1, InvTypes DEF Typed
<1>5. Disjoint(heap')
  BY <1>3 DEF Inv, Layout, Disjoint, BlockAfter
<1>6. Within(heap', owned')
  <2> SUFFICES ASSUME NEW c \in DOMAIN heap', NEW x \in Bytes(c, SizeOf(heap', c))
               PROVE  x \in owned \ gone
    BY <1>1 DEF Within
  <2>1. /\ c \in DOMAIN heap /\ c \notin gone /\ c \in Nat /\ heap[c].capacity \in Nat
        /\ x \in Bytes(c, SizeOf(heap, c)) /\ rstart \in Nat
    BY <1>1, <1>3, InvTypes DEF SizeOf
  <2>2. x \in owned
    BY <2>1 DEF Inv, Layout, Within
  <2>3. x \notin gone
    <3>1. CASE gone = {}
      BY <3>1
    <3>2. CASE gone # {}
      <4>1. PICK k \in Int : gone = rstart .. k
        BY <1>2, <3>2
      <4>2. CASE c < rstart
        <5>1. BlockAfter(heap, c) <= rstart
          BY <1>1, <2>1, <4>2 DEF Inv, Layout, Disjoint
        <5> QED  BY <5>1, <4>1, <2>1, SizeFacts DEF BlockAfter, Contents, Bytes, SizeOf
      <4>3. CASE c >= rstart
        BY <4>1, <4>3, <2>1, SizeFacts DEF Bytes, SizeOf
      <4> QED  BY <4>2, <4>3, <2>1
    <3> QED  BY <3>1, <3>2
  <2> QED  BY <2>2, <2>3
<1>7. TypeOK'
  <2>1. heap[cur].next \in Nat /\ NULL \in Addr \union {NULL}
    BY <1>1, InvTypes DEF Block, Addr, NULL
  <2> QED  BY <1>1, <1>4, <2>1 DEF Inv, TypeOK, Typed
<1>8. LiveInv' /\ CallInv'
  BY <1>1 DEF LiveInv, Live, CallInv, Inv
<1> QED
  BY <1>1, <1>4, <1>5, <1>6, <1>7, <1>8 DEF Inv, Layout

LEMMA ForeignKeepsInv ==
  ASSUME Inv, NEW p \in ForeignPages, ForeignMap(p) \/ ForeignUnmap(p)
  PROVE  Inv'
<1>1. /\ UNCHANGED <<heap, owned, base, held, pc, cur, query, grown, rstart, rsize>>
      /\ foreign' \subseteq Addr /\ owned \intersect foreign' = {}
  <2>1. CASE ForeignMap(p)
    <3>1. p \in Nat /\ p > 0
      BY HeapAssumption DEF HeapAssumption
    <3>2. Bytes(p, PageSize) \subseteq Addr /\ Bytes(p, PageSize) \intersect owned = {}
      BY <2>1, <3>1, SizeFacts DEF ForeignMap, IsFreeRange, Bytes, Addr
    <3> QED  BY <2>1, <3>2 DEF ForeignMap, Inv, TypeOK, call
  <2>2. CASE ForeignUnmap(p)
    BY <2>2 DEF ForeignUnmap, Inv, TypeOK, call
  <2> QED  BY <2>1, <2>2
<1> QED
  BY <1>1 DEF Inv, TypeOK, LiveInv, Live, CallInv

LEMMA InvNext == Inv /\ [Next]_vars => Inv'
<1> SUFFICES ASSUME Inv, [Next]_vars PROVE Inv'
  OBVIOUS
<1>1. CASE Client
  BY <1>1, HeapInitKeepsInv, MallocKeepsInv, FreeKeepsInv, TermWalkKeepsInv, ForeignKeepsInv
     DEF Client
<1>2. CASE Step /\ ~Wild
  BY <1>2, FindMergeKeepsInv, FindGoodKeepsInv, SearchKeepsInv, GrowKeepsInv,
     TermWalkKeepsInv, TermUnmapKeepsInv DEF Step
<1>3. CASE Wild
  BY <1>3 DEF Wild, memory, Inv, TypeOK, LiveInv, Live, CallInv
<1>4. CASE Lost \/ UNCHANGED vars
  BY <1>4 DEF Lost, vars, Inv, TypeOK, LiveInv, Live, CallInv
<1> QED
  BY <1>1, <1>2, <1>3, <1>4 DEF Next

(* Inv holds in every reachable state of the allocator. *)
THEOREM Invariance == Spec => []Inv
BY InvInit, InvNext, PTL DEF Spec
-------------------------------------------------------------------------------
(* The variables keep their types. *)
THEOREM TypeCorrect == Spec => []TypeOK
<1>1. Inv => TypeOK
  BY DEF Inv
<1> QED  BY <1>1, Invariance, PTL

(* However blocks are split, merged and regions placed, no two of them     *)
(* share a byte, and all lie in the allocator's own mappings.              *)
THEOREM BlocksApart == Spec => [](NoOverlap /\ BlocksInOwnedMemory)
<1>1. Inv => NoOverlap /\ BlocksInOwnedMemory
  BY DEF Inv, Layout, Disjoint, Within, NoOverlap, BlocksInOwnedMemory
<1> QED  BY <1>1, Invariance, PTL

(* A block is marked used exactly while its object is live, and has room   *)
(* for the size that was asked for.                                        *)
THEOREM UsedExactlyWhileHeld == Spec => []UsedIffHeld
<1>1. Inv => UsedIffHeld
  BY DEF Inv, LiveInv, Live, HeldIn, UsedIffHeld
<1> QED  BY <1>1, Invariance, PTL

(* Every block is reachable from the first, over a list without cycle or   *)
(* shared tail: memory that is not in use can be found again.              *)
THEOREM NoBlockLost == Spec => [](AllReachable /\ ListIsSimple)
<1>1. Inv => AllReachable
  BY DEF Inv, LiveInv, Live, List, Linking, Rooted, ClosedFrom, AllReachable, Closed
<1>2. Inv => ListIsSimple
  BY DEF Inv, LiveInv, Live, List, Injective, Rooted, ListIsSimple
<1> QED  BY <1>1, <1>2, Invariance, PTL

(* No call moves or resizes the block under an object the client keeps. *)
THEOREM HeldStaysPut == Spec => HeldBlocksStable
<1> DEFINE Stable == \A p \in DOMAIN held \intersect DOMAIN held' :
                       /\ p - Header \in DOMAIN heap'
                       /\ BlockAfter(heap', p - Header) = BlockAfter(heap, p - Header)
<1>1. ASSUME Inv, [Next]_vars PROVE [Stable]_vars
  <2> SUFFICES ASSUME Next, vars' # vars, NEW p \in DOMAIN held, p \in DOMAIN held'
               PROVE  /\ p - Header \in DOMAIN heap'
                      /\ BlockAfter(heap', p - Header) = BlockAfter(heap, p - Header)
    BY <1>1
  <2> DEFINE a == p - Header
  <2>1. Live
    <3>1. pc # "wild"
      BY DEF Next, Client, Step, HeapInit, Malloc, Free, HeapTerm, ForeignMap, ForeignUnmap,
             FindMerge, FindGood, FindNext, FindLast, FindGiveUp, Searching, Grow, GrowFail,
             TermWalk, TermUnmap, UnmapRun, Terminating, Wild, Lost
    <3> QED  BY <1>1, <3>1 DEF Inv, TypeOK, CallInv, Live
  <2>2. a \in DOMAIN heap /\ ~heap[a].is_free
    <3>1. p - Header \in DOMAIN heap /\ p \in Nat
      BY <1>1, <2>1, InvTypes DEF Inv, LiveInv, HeldIn
    <3>2. Contents(p - Header) = p
      BY <1>1, <3>1, InvTypes, ContentsInverse
    <3> QED  BY <1>1, <2>1, <3>1, <3>2 DEF Inv, LiveInv, HeldIn
  <2>3. a \in DOMAIN heap' /\ heap'[a].capacity = heap[a].capacity
    <3>1. CASE heap' = heap
      BY <2>2, <3>1
    <3>2. CASE FindMerge \/ FindGood \/ Grow
      <4>1. SparesUsed({})
        BY <1>1, <3>2, FindMergeKeepsInv, FindGoodKeepsInv, GrowKeepsInv
      <4> QED  BY <2>2, <4>1 DEF SparesUsed
    <3>3. CASE \E q \in DOMAIN held : Free(q)
      <4>1. PICK q \in DOMAIN held : Free(q)
        BY <3>3
      <4>2. q # p
        BY <4>1 DEF Free
      <4>3. q - Header # a
        BY <1>1, <4>2, InvTypes, SizeFacts
      <4>4. SparesUsed({q - Header})
        BY <1>1, <4>1, FreeKeepsInv
      <4> QED  BY <2>2, <4>3, <4>4 DEF SparesUsed
    <3>4. CASE (\E n \in InitSizes : HeapInit(n)) \/ TermUnmap
      BY <2>1, <3>4 DEF HeapInit, TermUnmap, UnmapRun, Terminating, Live
    <3> QED
      BY <3>1, <3>2, <3>3, <3>4
         DEF Next, Client, Step, memory, Malloc, HeapTerm, ForeignMap, ForeignUnmap,
             FindNext, FindLast, FindGiveUp, GrowFail, TermWalk, Wild, Lost, vars
  <2> HIDE DEF a
  <2> QED  BY <2>3 DEF a, BlockAfter
<1> QED  BY <1>1, Invariance, PTL DEF Spec, HeldBlocksStable

(* The object that _malloc returns shares no byte with a live one: its      *)
(* block is apart from theirs, and each object fits its block.              *)
LEMMA GrantIsApart ==
  ASSUME Inv, FindGood, NEW o \in DOMAIN held
  PROVE  Contract!Apart(Contents(cur), query, o, held[o])
<1> DEFINE b == o - Header
           p == Contents(cur)
<1>1. /\ cur \in DOMAIN heap /\ heap[cur].is_free /\ Live
      /\ cur \in Nat /\ heap[cur].capacity \in Nat
  BY InvTypes DEF FindGood, Searching, GoodBlock, Live
<1>2. query <= heap[cur].capacity /\ query \in Nat
  <2>1. Need \in Nat /\ query <= Need /\ query \in Nat
    BY NeedFacts DEF Inv, TypeOK
  <2> QED  BY <1>1, <2>1 DEF FindGood, GoodBlock, BigEnough
<1>3. b \in DOMAIN heap /\ held[o] <= heap[b].capacity /\ o \in Nat /\ held[o] \in Nat
  BY <1>1, InvTypes, SizeFacts DEF Inv, LiveInv, HeldIn, TypeOK, SizeT
<1>4. b \in Nat /\ heap[b].capacity \in Nat /\ Contents(b) = o
  BY <1>3, InvTypes, ContentsInverse
<1>5. b # cur
  BY <1>1, <1>3, <1>4 DEF Inv, LiveInv, HeldIn
<1>6. p \in Nat /\ p = cur + Header /\ o = b + Header
  BY <1>1, <1>4, SizeFacts DEF Contents
<1> HIDE DEF b, p
<1>7. CASE b < cur
  <2>1. BlockAfter(heap, b) <= cur
    BY <1>1, <1>3, <1>7 DEF Inv, Layout, Disjoint
  <2>2. o + held[o] <= p
    BY <2>1, <1>1, <1>3, <1>4, <1>6, SizeFacts DEF BlockAfter
  <2>3. p # o
    BY <1>1, <1>4, <1>6, <1>7, SizeFacts
  <2> QED  BY <2>2, <2>3 DEF Contract!Apart, p
<1>8. CASE cur < b
  <2>1. BlockAfter(heap, cur) <= b
    BY <1>1, <1>3, <1>8 DEF Inv, Layout, Disjoint
  <2>2. p + query <= o
    BY <2>1, <1>1, <1>2, <1>4, <1>6, SizeFacts DEF BlockAfter, p
  <2>3. p # o
    BY <1>1, <1>4, <1>6, <1>8, SizeFacts
  <2> QED  BY <2>2, <2>3 DEF Contract!Apart, p
<1> QED
  BY <1>1, <1>4, <1>5, <1>7, <1>8

(* The allocator keeps the contract of malloc and free towards its client. *)
THEOREM AllocatorKeepsContract == Spec => ContractSpec
<1> DEFINE want == IF pc \in {"find", "grow"} THEN {query} ELSE {}
<1>1. Init => Contract!CInit
  BY DEF Init, Contract!CInit, NoObjects
<1>2. ASSUME Inv, [Next]_vars PROVE [Contract!CNext]_(Contract!cvars)
  <2>1. ASSUME NEW q \in Queries, Malloc(q) PROVE Contract!Request(q)
    BY <2>1 DEF Malloc, memory, Contract!Request
  <2>2. ASSUME FindGood PROVE Contract!Grant(Contents(cur), query)
    <3>1. \A o \in DOMAIN held : Contract!Apart(Contents(cur), query, o, held[o])
      BY <1>2, <2>2, GrantIsApart
    <3> QED  BY <2>2, <3>1 DEF FindGood, Searching, Return, Contract!Grant
  <2>3. ASSUME FindGiveUp \/ GrowFail \/ (Wild /\ pc = "find") PROVE Contract!Refuse
    BY <2>3 DEF FindGiveUp, GrowFail, Wild, Searching, Return, memory, Contract!Refuse
  <2>4. ASSUME NEW p \in DOMAIN held, Free(p) PROVE Contract!Release(p)
    BY <2>4 DEF Free, call, Contract!Release
  <2>5. ASSUME HeapTerm PROVE Contract!ReleaseAll
    BY <2>5 DEF HeapTerm, NoObjects, Contract!ReleaseAll
  <2>6. ASSUME \/ \E n \in InitSizes : HeapInit(n)
               \/ \E p \in ForeignPages : ForeignMap(p) \/ ForeignUnmap(p)
               \/ FindMerge \/ FindNext \/ FindLast \/ Grow
               \/ TermWalk \/ TermUnmap \/ Lost \/ (Wild /\ pc = "term")
               \/ UNCHANGED vars
        PROVE  UNCHANGED Contract!cvars
    BY <2>6 DEF HeapInit, ForeignMap, ForeignUnmap, FindMerge, FindNext, FindLast, Searching,
         Grow, TermWalk, TermUnmap, UnmapRun, Terminating, Lost, Wild, memory, call, vars, Contract!cvars
  <2>7. ASSUME NEW q \in Queries, Malloc(q) PROVE Contract!CNext
    BY <2>1, <2>7 DEF Contract!CNext, Contract!Request
  <2>8. ASSUME FindGood PROVE Contract!CNext
    BY <2>2, <2>8 DEF Contract!CNext, Contract!Grant
  <2> QED
    BY <1>2, <2>3, <2>4, <2>5, <2>6, <2>7, <2>8 DEF Next, Client, Step, Wild, Contract!CNext
<1> QED  BY <1>1, <1>2, Invariance, PTL DEF Spec, ContractSpec, Contract!CSpec
-------------------------------------------------------------------------------
(* Memory is neither lost nor left behind.  heap_term does not know where  *)
(* the regions begin and end: it takes a break between two neighbours of   *)
(* the list for the end of a region.  That is right because every block    *)
(* that does not touch its successor ends on a page, and the successor     *)
(* begins on one (Seams), and because the blocks it has walked over since  *)
(* rstart are a contiguous piece of the list (TermRun).                    *)
Covering(h, o) == \A x \in o : \E a \in DOMAIN h : x \in Bytes(a, SizeOf(h, a))

Aligned(x) == x % PageSize = 0
Seam(h, a) ==
  h[a].next = BlockAfter(h, a) \/ (Aligned(BlockAfter(h, a)) /\ Aligned(h[a].next))
Seams(h) == \A a \in DOMAIN h : Seam(h, a)

(* R are the blocks of the list from the block from up to, without, to.    *)
Walked(h, from, to, R) ==
  /\ R \subseteq DOMAIN h /\ from \in R \union {to} /\ to \notin R
  /\ \A a \in R : h[a].next \in R \union {to}
  /\ \A a \in DOMAIN h : h[a].next \in R \union {to} => a \in R

(* Together they fill the bytes between the two addresses.                 *)
Contiguous(h, from, to, R) ==
  /\ from <= to
  /\ \A a \in R : from <= a /\ BlockAfter(h, a) <= to
  /\ \A x \in from .. (to - 1) : \E a \in R : x \in Bytes(a, SizeOf(h, a))

(* From the start of a run to the end of its last block.                   *)
RunBytes(h, from, a) == from .. (BlockAfter(h, a) - 1)

TermRun ==
  /\ List(heap, rstart) /\ Seams(heap) /\ Aligned(rstart) /\ cur = rstart + rsize
  /\ \E R \in SUBSET DOMAIN heap :
       Walked(heap, rstart, cur, R) /\ Contiguous(heap, rstart, cur, R)

(* Nothing among the blocks R could be merged or would serve the request.  *)
Unfit(h, need, R) ==
  \A a \in R : ~CanMergeWithNext(h, a) /\ (h[a].is_free => ~BigEnough(h, a, need))

(* A heap that is not at HEAP_START is never entered: the search and       *)
(* heap_term begin at HEAP_START whatever heap_init got.                   *)
ElsewhereInv ==
  /\ Live /\ base # HEAP_START => DOMAIN heap = {base} /\ DOMAIN held = {}
  /\ pc = "find" /\ base # HEAP_START => cur = HEAP_START
  /\ pc = "grow" => base = HEAP_START

RegionInv ==
  /\ Covering(heap, owned)
  /\ Live => Seams(heap) /\ Aligned(base)
  /\ pc = "off" => DOMAIN heap = {} /\ owned = {}
  /\ pc = "term" /\ cur \in DOMAIN heap => TermRun

SearchInv ==
  /\ pc = "find" /\ ~grown /\ cur \in DOMAIN heap =>
       \E R \in SUBSET DOMAIN heap : Walked(heap, base, cur, R) /\ Unfit(heap, Need, R)
  /\ GrowOnlyWhenExhausted

MemoryInv == ElsewhereInv /\ RegionInv /\ SearchInv
FullInv == Inv /\ MemoryInv
-------------------------------------------------------------------------------
(* Arithmetic of pages: the multiples of the page size, and what           *)
(* round_pages makes of a length.                                          *)
LEMMA DivMod ==
  ASSUME NEW p \in Nat, p > 0, NEW x \in Int
  PROVE  /\ x \div p \in Int /\ x % p \in 0 .. p - 1
         /\ x = p * (x \div p) + (x % p)
BY SMTT(30)

LEMMA Multiple ==
  ASSUME NEW x \in Int
  PROVE  Aligned(x) <=> \E k \in Int : x = PageSize * k
<1>1. /\ PageSize \in Nat /\ PageSize > 0
      /\ x \div PageSize \in Int /\ x % PageSize \in 0 .. PageSize - 1
      /\ x = PageSize * (x \div PageSize) + (x % PageSize)
  BY SizeFacts, DivMod
<1>2. ASSUME Aligned(x) PROVE \E k \in Int : x = PageSize * k
  BY <1>1, <1>2 DEF Aligned
<1>3. ASSUME NEW k \in Int, x = PageSize * k PROVE Aligned(x)
  <2>1. PICK r \in Int, d \in Int : r = x % PageSize /\ d = k - (x \div PageSize)
    BY <1>1
  <2>2. PageSize * d = r
    BY <1>1, <1>3, <2>1, SMTT(30)
  <2>3. d >= 1 => PageSize * d >= PageSize
    BY <1>1, <2>1, SMTT(30)
  <2>4. d <= -1 => PageSize * d <= -PageSize
    BY <1>1, <2>1, SMTT(30)
  <2>5. d = 0
    BY <1>1, <2>1, <2>2, <2>3, <2>4
  <2> QED  BY <1>1, <2>1, <2>2, <2>5 DEF Aligned
<1> QED  BY <1>2, <1>3

LEMMA AlignedSum ==
  ASSUME NEW x \in Int, NEW y \in Int, Aligned(x), Aligned(y)
  PROVE  Aligned(x + y) /\ Aligned(x - y)
<1>1. PICK k \in Int : x = PageSize * k
  BY Multiple
<1>2. PICK n \in Int : y = PageSize * n
  BY Multiple
<1>3. x + y = PageSize * (k + n) /\ x - y = PageSize * (k - n)
  BY <1>1, <1>2, SizeFacts, SMTT(30)
<1>4. k + n \in Int /\ k - n \in Int /\ x + y \in Int /\ x - y \in Int
  OBVIOUS
<1>5. Aligned(x + y)
  BY <1>3, <1>4, Multiple
<1>6. Aligned(x - y)
  BY <1>3, <1>4, Multiple
<1> QED  BY <1>5, <1>6

LEMMA RoundPagesAligned ==
  ASSUME NEW m \in Nat
  PROVE  /\ RoundPages(m) \in Nat /\ Aligned(RoundPages(m))
         /\ Aligned(m) /\ m < SizeMod => RoundPages(m) = m
<1>1. PageSize \in Nat /\ PageSize > 0 /\ SizeMod \in Nat /\ SizeMod > 0
  BY SizeFacts
<1>2. PagesCount(m) \in Int
  BY <1>1, DivMod DEF PagesCount
<1> DEFINE n == PageSize * PagesCount(m)
<1>3. n \in Int /\ Aligned(n)
  BY <1>1, <1>2, Multiple
<1>4. Aligned(m) => n = m
  <2>1. Aligned(m) => PagesCount(m) = m \div PageSize /\ m % PageSize = 0
    BY <1>1, DivMod DEF PagesCount, Aligned
  <2> QED  BY <2>1, <1>1, DivMod
<1> HIDE DEF n
<1>5. /\ n \div SizeMod \in Int /\ n % SizeMod \in 0 .. SizeMod - 1
      /\ n = SizeMod * (n \div SizeMod) + (n % SizeMod)
  BY <1>1, <1>3, DivMod
<1>6. PICK s \in Int : SizeMod = PageSize * s
  BY <1>1, SizesAssumption, Multiple DEF SizesAssumption, Aligned
<1>7. SizeMod * (n \div SizeMod) = PageSize * (s * (n \div SizeMod))
  BY <1>1, <1>5, <1>6, SMTT(30)
<1>8. s * (n \div SizeMod) \in Int
  BY <1>5
<1>9. Aligned(SizeMod * (n \div SizeMod)) /\ SizeMod * (n \div SizeMod) \in Int
  <2>1. SizeMod * (n \div SizeMod) \in Int
    BY <1>1, <1>5
  <2> QED  BY <2>1, <1>7, <1>8, Multiple
<1>10. n - (SizeMod * (n \div SizeMod)) = n % SizeMod
  BY <1>3, <1>5, <1>9
<1>11. Aligned(n % SizeMod)
  BY <1>3, <1>9, <1>10, AlignedSum
<1>12. n \in Nat /\ n < SizeMod => n % SizeMod = n
  BY <1>1
<1>13. RoundPages(m) = n % SizeMod
  BY DEF n, RoundPages
<1> QED  BY <1>4, <1>5, <1>11, <1>12, <1>13

LEMMA RegionSizeAligned ==
  ASSUME NEW q \in Nat
  PROVE  Aligned(RegionSize(q))
<1> DEFINE m == (q + Header) % SizeMod
<1>1. m \in Nat
  BY SizeFacts
<1> HIDE DEF m
<1>2. Aligned(RoundPages(m))
  BY <1>1, RoundPagesAligned
<1>3. Aligned(REGION_MIN_SIZE)
  BY SizesAssumption DEF SizesAssumption, Aligned
<1>4. RegionSize(q) = RoundPages(m) \/ RegionSize(q) = REGION_MIN_SIZE
  BY DEF RegionSize, SizeMax, m
<1> QED  BY <1>2, <1>3, <1>4
-------------------------------------------------------------------------------
(* The operations on the heap lose no byte and keep the seams.  A merge    *)
(* hands the second block's end and link to the first. *)
LEMMA MergeKeepsCover ==
  ASSUME NEW h, NEW o, NEW a \in DOMAIN h, NEW g, Typed(h), Merged(h, a, g)
  PROVE  /\ Covering(h, o) => Covering(g, o)
         /\ Seams(h) => Seams(g)
<1> USE DEF Merged
<1> DEFINE b == h[a].next
<1>1. \A c \in DOMAIN h : c \in Nat /\ h[c].capacity \in Nat
  BY DEF Typed, Addr, Block
<1>2. ASSUME Covering(h, o), NEW x \in o
      PROVE  \E c \in DOMAIN g : x \in Bytes(c, SizeOf(g, c))
  <2>1. PICK c \in DOMAIN h : x \in Bytes(c, SizeOf(h, c))
    BY <1>2 DEF Covering
  <2>2. CASE c \in {a, b}
    <3>1. x \in Bytes(a, SizeOf(g, a))
      BY <2>1, <2>2, SizeFacts DEF Bytes, SizeOf
    <3> QED  BY <3>1
  <2>3. CASE c \notin {a, b}
    BY <2>1, <2>3 DEF SizeOf
  <2> QED  BY <2>2, <2>3
<1>3. ASSUME Seams(h), NEW c \in DOMAIN g
      PROVE  Seam(g, c)
  <2>1. CASE c = a
    <3>1. BlockAfter(g, a) = BlockAfter(h, b) /\ g[a].next = h[b].next
      BY SizeFacts DEF BlockAfter, Contents
    <3>2. Seam(h, b)
      BY <1>3 DEF Seams
    <3> QED  BY <2>1, <3>1, <3>2 DEF Seam
  <2>2. CASE c # a
    <3>1. BlockAfter(g, c) = BlockAfter(h, c) /\ g[c].next = h[c].next /\ c \in DOMAIN h
      BY <2>2 DEF BlockAfter
    <3>2. Seam(h, c)
      BY <1>3, <3>1 DEF Seams
    <3> QED  BY <3>1, <3>2 DEF Seam
  <2> QED  BY <2>1, <2>2
<1> QED
  BY <1>2, <1>3 DEF Covering, Seams

(* A split puts a new seam inside the block: the rest follows at once. *)
LEMMA SplitKeepsCover ==
  ASSUME NEW h, NEW o, NEW a \in DOMAIN h, NEW cap, NEW g, Typed(h), SplitAt(h, a, cap, g)
  PROVE  /\ Covering(h, o) => Covering(g, o)
         /\ Seams(h) => Seams(g)
<1> USE DEF SplitAt
<1> DEFINE rest == a + Header + cap
<1>1. rest \in DOMAIN g /\ a \in DOMAIN g /\ rest # a /\ rest \in Nat
  BY SizeFacts
<1>2. ASSUME Covering(h, o), NEW x \in o
      PROVE  \E c \in DOMAIN g : x \in Bytes(c, SizeOf(g, c))
  <2>1. PICK c \in DOMAIN h : x \in Bytes(c, SizeOf(h, c))
    BY <1>2 DEF Covering
  <2>2. CASE c = a
    <3>1. x \in Bytes(a, SizeOf(g, a)) \/ x \in Bytes(rest, SizeOf(g, rest))
      BY <2>1, <2>2, SizeFacts DEF Bytes, SizeOf
    <3> QED  BY <3>1, <1>1
  <2>3. CASE c # a
    BY <2>1, <2>3 DEF SizeOf
  <2> QED  BY <2>2, <2>3
<1>3. ASSUME Seams(h), NEW c \in DOMAIN g
      PROVE  Seam(g, c)
  <2>1. CASE c = a
    BY <2>1 DEF Seam, BlockAfter, Contents
  <2>2. CASE c = rest
    <3>1. BlockAfter(g, rest) = BlockAfter(h, a) /\ g[rest].next = h[a].next
      BY SizeFacts DEF BlockAfter, Contents
    <3>2. Seam(h, a)
      BY <1>3 DEF Seams
    <3> QED  BY <2>2, <3>1, <3>2 DEF Seam
  <2>3. CASE c # a /\ c # rest
    <3>1. BlockAfter(g, c) = BlockAfter(h, c) /\ g[c].next = h[c].next /\ c \in DOMAIN h
      BY <2>3 DEF BlockAfter
    <3>2. Seam(h, c)
      BY <1>3, <3>1 DEF Seams
    <3> QED  BY <3>1, <3>2 DEF Seam
  <2> QED  BY <2>1, <2>2, <2>3
<1> QED
  BY <1>2, <1>3 DEF Covering, Seams

LEMMA MarkKeepsCover ==
  ASSUME NEW h, NEW o, NEW a, NEW f, NEW g, Marked(h, a, f, g)
  PROVE  /\ Covering(h, o) => Covering(g, o)
         /\ Seams(h) => Seams(g)
BY DEF Marked, Covering, Seams, Seam, SizeOf, BlockAfter

(* A new region has its seams on page borders, wherever it lies. *)
LEMMA LinkKeepsCover ==
  ASSUME NEW h, NEW o, NEW last \in DOMAIN h, NEW r \in Nat, NEW n \in Nat, NEW g,
         Typed(h), LinkedAt(h, last, r, n, g), r \notin DOMAIN h, h[last].next = NULL,
         Aligned(r), Aligned(n)
  PROVE  /\ Covering(h, o) => Covering(g, o \union Bytes(r, n))
         /\ Seams(h) => Seams(g)
<1> USE DEF LinkedAt
<1>1. Aligned(NULL)
  BY SizeFacts DEF Aligned, NULL
<1>2. SizeOf(g, r) = n /\ BlockAfter(g, r) = r + n /\ Aligned(r + n)
  BY SizeFacts, AlignedSum DEF SizeOf, BlockAfter, Contents
<1>3. ASSUME Covering(h, o), NEW x \in o \union Bytes(r, n)
      PROVE  \E c \in DOMAIN g : x \in Bytes(c, SizeOf(g, c))
  <2>1. CASE x \in Bytes(r, n)
    BY <2>1, <1>2
  <2>2. CASE x \in o
    <3>1. PICK c \in DOMAIN h : x \in Bytes(c, SizeOf(h, c))
      BY <1>3, <2>2 DEF Covering
    <3> QED  BY <3>1 DEF SizeOf
  <2> QED  BY <1>3, <2>1, <2>2
<1>4. ASSUME Seams(h), NEW c \in DOMAIN g
      PROVE  Seam(g, c)
  <2>1. CASE c = r
    BY <2>1, <1>1, <1>2 DEF Seam
  <2>2. CASE c = last
    <3>1. BlockAfter(g, last) = BlockAfter(h, last) /\ g[last].next = r
      BY DEF BlockAfter
    <3>2. Seam(h, last) /\ BlockAfter(h, last) # NULL
      <4>1. last \in Nat /\ h[last].capacity \in Nat
        BY DEF Typed, Addr, Block
      <4> QED  BY <4>1, <1>4, SizeFacts DEF Seams, BlockAfter, Contents, NULL
    <3> QED  BY <2>2, <3>1, <3>2 DEF Seam
  <2>3. CASE c # r /\ c # last
    <3>1. BlockAfter(g, c) = BlockAfter(h, c) /\ g[c].next = h[c].next /\ c \in DOMAIN h
      BY <2>3 DEF BlockAfter
    <3>2. Seam(h, c)
      BY <1>4, <3>1 DEF Seams
    <3> QED  BY <3>1, <3>2 DEF Seam
  <2> QED  BY <2>1, <2>2, <2>3
<1> QED
  BY <1>3, <1>4 DEF Covering, Seams
-------------------------------------------------------------------------------
(* Walking the list from its root: one step on, and to the end. *)
LEMMA WalkOn ==
  ASSUME NEW h, NEW root, NEW a \in DOMAIN h, NEW R,
         Linking(h), Injective(h), Walked(h, root, a, R), h[a].next # NULL
  PROVE  h[a].next \in DOMAIN h /\ Walked(h, root, h[a].next, R \union {a})
<1>1. h[a].next \in DOMAIN h
  BY DEF Linking
<1>2. h[a].next \notin R \union {a}
  BY DEF Walked
<1>3. \A c \in DOMAIN h : h[c].next = h[a].next => c = a
  BY DEF Injective
<1> QED
  BY <1>1, <1>2, <1>3 DEF Walked

LEMMA WalkedAll ==
  ASSUME NEW h, NEW root, NEW a \in DOMAIN h, NEW R,
         Linking(h), Rooted(h, root), Walked(h, root, a, R), h[a].next = NULL
  PROVE  R \union {a} = DOMAIN h
<1>1. ClosedFrom(h, root, R \union {a})
  BY DEF Walked, ClosedFrom
<1>2. R \union {a} \subseteq DOMAIN h
  BY DEF Walked
<1> QED
  BY <1>1, <1>2 DEF Rooted

(* A merge at the block the search is at changes nothing behind it. *)
LEMMA MergeKeepsWalk ==
  ASSUME NEW h, NEW root, NEW a \in DOMAIN h, NEW g, NEW need, NEW R,
         Merged(h, a, g), Walked(h, root, a, R), Unfit(h, need, R)
  PROVE  Walked(g, root, a, R) /\ Unfit(g, need, R)
<1> USE DEF Merged
<1> DEFINE b == h[a].next
<1>1. b \notin R
  BY DEF Walked
<1>2. a \notin R /\ R \subseteq DOMAIN g /\ \A c \in R : g[c] = h[c]
  BY <1>1 DEF Walked
<1>3. Walked(g, root, a, R)
  <2>1. ASSUME NEW c \in DOMAIN g, g[c].next \in R \union {a}
        PROVE  c \in R
    <3>1. c # a
      BY <2>1, <1>1 DEF Walked
    <3> QED  BY <2>1, <3>1 DEF Walked
  <2> QED  BY <1>2, <2>1 DEF Walked
<1>4. ASSUME NEW c \in R
      PROVE  ~CanMergeWithNext(g, c) /\ (g[c].is_free => ~BigEnough(g, c, need))
  <2>1. g[c] = h[c] /\ h[c].next \in R \union {a}
    BY <1>2 DEF Walked
  <2>2. g[h[c].next].is_free <=> h[h[c].next].is_free
    BY <2>1, <1>2
  <2>3. CanMergeWithNext(g, c) <=> CanMergeWithNext(h, c)
    BY <2>1, <2>2 DEF CanMergeWithNext, Mergeable, BlocksContinuous, BlockAfter
  <2>4. BigEnough(g, c, need) <=> BigEnough(h, c, need)
    BY <2>1 DEF BigEnough
  <2> QED  BY <2>1, <2>3, <2>4 DEF Unfit
<1> QED
  BY <1>3, <1>4 DEF Unfit

(* The walk of heap_term: the next block follows at once, so that the      *)
(* piece stays contiguous.                                                 *)
LEMMA RunOn ==
  ASSUME NEW h, NEW from \in Nat, NEW a \in DOMAIN h, NEW R, Typed(h),
         R \subseteq DOMAIN h, Contiguous(h, from, a, R)
  PROVE  Contiguous(h, from, BlockAfter(h, a), R \union {a})
<1> DEFINE end == BlockAfter(h, a)
<1>1. \A c \in DOMAIN h : c \in Nat /\ h[c].capacity \in Nat
  BY DEF Typed, Addr, Block
<1>2. end = a + SizeOf(h, a) /\ end \in Nat /\ a < end
  BY <1>1, SizeFacts DEF BlockAfter, Contents, SizeOf
<1>3. from <= end
  BY <1>1, <1>2 DEF Contiguous
<1>4. ASSUME NEW c \in R \union {a}
      PROVE  from <= c /\ BlockAfter(h, c) <= end
  <2>1. CASE c = a
    BY <2>1, <1>2 DEF Contiguous
  <2>2. CASE c # a
    <3>1. c \in R /\ BlockAfter(h, c) \in Nat
      BY <2>2, <1>1, SizeFacts DEF BlockAfter, Contents
    <3> QED  BY <3>1, <1>1, <1>2 DEF Contiguous
  <2> QED  BY <2>1, <2>2
<1>5. ASSUME NEW x \in from .. (end - 1)
      PROVE  \E c \in R \union {a} : x \in Bytes(c, SizeOf(h, c))
  <2>1. CASE x < a
    <3>1. x \in from .. (a - 1)
      BY <2>1, <1>1, <1>2
    <3> QED  BY <3>1 DEF Contiguous
  <2>2. CASE x >= a
    <3>1. x \in Bytes(a, SizeOf(h, a))
      BY <2>2, <1>1, <1>2, SizeFacts DEF Bytes, SizeOf
    <3> QED  BY <3>1
  <2> QED  BY <2>1, <2>2, <1>1, <1>2
<1> QED
  BY <1>3, <1>4, <1>5 DEF Contiguous

(* When the run from .. gone with it, the rest of the list is a list from  *)
(* the run's successor, and covers what is left of the bytes.              *)
LEMMA RunUnmapped ==
  ASSUME NEW h, NEW o, NEW from \in Nat, NEW a \in DOMAIN h, NEW R,
         NEW g, DOMAIN g = DOMAIN h \ RunBytes(h, from, a), \A c \in DOMAIN g : g[c] = h[c],
         Typed(h), Disjoint(h), List(h, from), Covering(h, o), Seams(h),
         Walked(h, from, a, R), Contiguous(h, from, a, R)
  PROVE  /\ Covering(g, o \ RunBytes(h, from, a)) /\ Seams(g)
         /\ h[a].next = NULL => DOMAIN g = {}
         /\ h[a].next # NULL => List(g, h[a].next)
<1> DEFINE all == R \union {a}
           b == h[a].next
           gone == RunBytes(h, from, a)
<1>1. \A c \in DOMAIN h : c \in Nat /\ h[c].capacity \in Nat
                          /\ c \in Bytes(c, SizeOf(h, c)) /\ BlockAfter(h, c) \in Nat
  <2> SUFFICES ASSUME NEW c \in DOMAIN h
               PROVE  /\ c \in Nat /\ h[c].capacity \in Nat
                      /\ c \in Bytes(c, SizeOf(h, c)) /\ BlockAfter(h, c) \in Nat
    OBVIOUS
  <2>1. c \in Nat /\ h[c].capacity \in Nat
    BY DEF Typed, Addr, Block
  <2> QED  BY <2>1, SizeFacts DEF Bytes, SizeOf, BlockAfter, Contents
<1>2. all \subseteq DOMAIN h /\ Contiguous(h, from, BlockAfter(h, a), all)
  BY RunOn DEF Walked
<1> HIDE DEF all, gone
<1>3. \A c \in all : Bytes(c, SizeOf(h, c)) \subseteq gone
  <2> SUFFICES ASSUME NEW c \in all, NEW x \in Bytes(c, SizeOf(h, c))
               PROVE  x \in gone
    OBVIOUS
  <2>1. c \in DOMAIN h /\ from <= c /\ BlockAfter(h, c) <= BlockAfter(h, a)
    BY <1>2 DEF Contiguous
  <2>2. x \in Int /\ c <= x /\ x < BlockAfter(h, c)
    BY <1>1, <2>1, SizeFacts DEF Bytes, SizeOf, BlockAfter, Contents
  <2> QED  BY <1>1, <2>1, <2>2 DEF gone, RunBytes
<1>4. \A c \in DOMAIN h : c \in gone => c \in all
  <2> SUFFICES ASSUME NEW c \in DOMAIN h, c \in gone
               PROVE  c \in all
    OBVIOUS
  <2>1. PICK d \in all : c \in Bytes(d, SizeOf(h, d))
    BY <1>2 DEF Contiguous, gone, RunBytes
  <2>2. d \in DOMAIN h /\ d <= c /\ c < BlockAfter(h, d)
    BY <2>1, <1>1, <1>2, SizeFacts DEF Bytes, SizeOf, BlockAfter, Contents
  <2>3. d = c
    BY <2>2, <1>1 DEF Disjoint
  <2> QED  BY <2>1, <2>3
<1>5. DOMAIN g = DOMAIN h \ all /\ \A c \in DOMAIN g : g[c] = h[c]
  <2>1. \A c \in all : c \in gone
    BY <1>1, <1>2, <1>3
  <2> QED  BY <2>1, <1>4 DEF gone
<1> HIDE DEF b
<1>6. Covering(g, o \ gone)
  <2> SUFFICES ASSUME NEW x \in o, x \notin gone
               PROVE  \E c \in DOMAIN g : x \in Bytes(c, SizeOf(g, c))
    BY DEF Covering
  <2>1. PICK c \in DOMAIN h : x \in Bytes(c, SizeOf(h, c))
    BY DEF Covering
  <2>2. c \in DOMAIN g
    BY <2>1, <1>3, <1>5
  <2> QED  BY <2>1, <2>2, <1>5 DEF SizeOf
<1>7. Seams(g)
  BY <1>5 DEF Seams, Seam, BlockAfter
<1>8. ASSUME b = NULL
      PROVE  DOMAIN g = {}
  <2>1. R \union {a} = DOMAIN h
    BY <1>8, WalkedAll DEF List, b
  <2> QED  BY <2>1, <1>5 DEF all
<1>9. ASSUME b # NULL
      PROVE  List(g, b)
  <2>1. b \in DOMAIN h /\ b \notin all /\ from \in all /\ (\A c \in DOMAIN h : h[c].next = b => c = a)
    <3>1. h[a].next \in DOMAIN h /\ Walked(h, from, h[a].next, R \union {a})
      BY <1>9, WalkOn DEF List, b
    <3> QED  BY <3>1, <1>9 DEF Walked, List, Injective, all, b
  <2>2. ASSUME NEW c \in DOMAIN g
        PROVE  h[c].next \notin all
    BY <1>5 DEF Walked, all
  <2>3. Linking(g)
    BY <1>5, <2>2 DEF List, Linking
  <2>4. Injective(g)
    BY <1>5 DEF List, Injective
  <2>5. b \in DOMAIN g /\ \A c \in DOMAIN g : g[c].next # b
    BY <1>5, <2>1 DEF all
  <2>6. ASSUME NEW S \in SUBSET DOMAIN g, ClosedFrom(g, b, S)
        PROVE  S = DOMAIN g
    <3>1. ASSUME NEW c \in S \union all, h[c].next # NULL
          PROVE  h[c].next \in S \union all
      <4>1. CASE c \in R
        BY <4>1 DEF Walked, all
      <4>2. CASE c = a
        BY <4>2, <2>6 DEF ClosedFrom, b
      <4>3. CASE c \in S
        BY <4>3, <2>6, <3>1, <1>5 DEF ClosedFrom
      <4> QED  BY <4>1, <4>2, <4>3 DEF all
    <3>2. ClosedFrom(h, from, S \union all) /\ S \union all \subseteq DOMAIN h
      BY <3>1, <2>1, <1>2, <1>5 DEF ClosedFrom
    <3>3. S \union all = DOMAIN h
      BY <3>2 DEF List, Rooted
    <3> QED  BY <3>3, <1>5
  <2> QED  BY <2>3, <2>4, <2>5, <2>6 DEF List, Rooted
<1> QED
  BY <1>6, <1>7, <1>8, <1>9 DEF b, gone

LEMMA TryMergeKeepsCover ==
  ASSUME NEW h, NEW o, NEW a \in DOMAIN h, Typed(h), Linking(h), Covering(h, o), Seams(h)
  PROVE  Covering(TryMergeWithNext(h, a), o) /\ Seams(TryMergeWithNext(h, a))
<1>1. CASE CanMergeWithNext(h, a)
  <2>1. TryMergeWithNext(h, a) = MergeWithNext(h, a)
    BY <1>1 DEF TryMergeWithNext
  <2>2. Merged(h, a, MergeWithNext(h, a))
    BY <1>1, MergeEffect
  <2> QED  BY <2>1, <2>2, MergeKeepsCover
<1>2. CASE ~CanMergeWithNext(h, a)
  BY <1>2 DEF TryMergeWithNext
<1> QED
  BY <1>1, <1>2
-------------------------------------------------------------------------------
(* The strengthened invariant holds at the start and every step keeps it.  *)
LEMMA MemoryInit == Init => MemoryInv
<1> SUFFICES ASSUME Init PROVE MemoryInv
  OBVIOUS
<1>1. pc = "off" /\ owned = {} /\ DOMAIN heap = {}
  BY DEF Init, EmptyHeap
<1> QED
  BY <1>1 DEF MemoryInv, ElsewhereInv, RegionInv, SearchInv, GrowOnlyWhenExhausted, Live, Covering

LEMMA HeapInitKeepsMemory ==
  ASSUME FullInv, NEW n \in InitSizes, HeapInit(n)
  PROVE  MemoryInv'
<1> DEFINE size == RegionSize(n)
<1>1. n \in Nat
  BY HeapAssumption, SizeFacts DEF HeapAssumption, SizeT
<1>2. size \in Nat /\ size > Header /\ Aligned(size)
  BY <1>1, RegionSizeType, RegionSizeAligned
<1> HIDE DEF size
<1>3. PICK r \in MapPages(HEAP_START, size) :
        /\ heap' = [a \in {r} |-> BlockInit(size, NULL)]
        /\ owned' = owned \union Bytes(r, size)
        /\ base' = r
  BY DEF HeapInit, size
<1>4. r \in Nat /\ Aligned(r)
  BY <1>3, HeapAssumption DEF MapPages, IsFreeRange, HeapAssumption, Addr, Aligned
<1>5. owned = {} /\ DOMAIN held' = {} /\ pc' = "idle"
  BY DEF FullInv, MemoryInv, RegionInv, Inv, CallInv, HeapInit
<1>6. DOMAIN heap' = {r} /\ heap'[r] = [next |-> NULL, capacity |-> size - Header, is_free |-> TRUE]
  BY <1>3 DEF BlockInit
<1>7. SizeOf(heap', r) = size /\ BlockAfter(heap', r) = r + size /\ heap'[r].next = NULL
  BY <1>2, <1>4, <1>6, SizeFacts DEF SizeOf, BlockAfter, Contents
<1>8. Covering(heap', owned')
  BY <1>3, <1>5, <1>6, <1>7 DEF Covering
<1>9. Seams(heap') /\ Aligned(base')
  <2>1. Aligned(r + size) /\ Aligned(NULL)
    BY <1>2, <1>4, AlignedSum, SizeFacts DEF Aligned, NULL
  <2> QED  BY <2>1, <1>3, <1>4, <1>6, <1>7 DEF Seams, Seam
<1> QED
  BY <1>3, <1>5, <1>6, <1>8, <1>9
     DEF MemoryInv, ElsewhereInv, RegionInv, SearchInv, GrowOnlyWhenExhausted, Live

(* The search begins at the root: nothing is behind it. *)
LEMMA MallocKeepsMemory ==
  ASSUME FullInv, NEW q \in Queries, Malloc(q)
  PROVE  MemoryInv'
<1>1. /\ pc = "idle" /\ pc' = "find" /\ cur' = HEAP_START
      /\ UNCHANGED <<heap, owned, foreign, base, held, rstart, rsize>>
  BY DEF Malloc, memory
<1>2. ElsewhereInv' /\ RegionInv'
  BY <1>1 DEF FullInv, MemoryInv, ElsewhereInv, RegionInv, Live
<1>3. ASSUME HEAP_START \in DOMAIN heap
      PROVE  Walked(heap, base, HEAP_START, {}) /\ Unfit(heap, Need', {})
  <2>1. List(heap, base)
    BY <1>1 DEF FullInv, Inv, LiveInv, Live
  <2>2. base = HEAP_START
    BY <1>1, <1>3 DEF FullInv, MemoryInv, ElsewhereInv, Live
  <2> QED  BY <2>1, <2>2 DEF Walked, Unfit, List, Rooted
<1>4. SearchInv'
  BY <1>1, <1>3 DEF SearchInv, GrowOnlyWhenExhausted
<1> QED
  BY <1>2, <1>4 DEF MemoryInv

LEMMA FreeKeepsMemory ==
  ASSUME FullInv, NEW p \in DOMAIN held, Free(p)
  PROVE  MemoryInv'
<1> DEFINE a == p - Header
           g == [heap EXCEPT ![a].is_free = TRUE]
<1>1. /\ pc = "idle" /\ heap' = TryMergeWithNext(g, a)
      /\ UNCHANGED <<owned, foreign, base, pc, cur, query, grown, rstart, rsize>>
  BY DEF Free, call
<1>2. /\ List(heap, base) /\ a \in DOMAIN heap /\ Inv
      /\ Covering(heap, owned) /\ Seams(heap) /\ Aligned(base) /\ base = HEAP_START
  BY <1>1 DEF FullInv, Inv, LiveInv, Live, HeldIn, MemoryInv, ElsewhereInv, RegionInv
<1> HIDE DEF a
<1>3. Layout(g, owned) /\ Marked(heap, a, TRUE, g) /\ (\A root : List(heap, root) => List(g, root))
  BY <1>2, InvTypes, MarkKeepsShape
<1> HIDE DEF g
<1>4. /\ Typed(g) /\ Linking(g) /\ a \in DOMAIN g
      /\ Covering(g, owned) /\ Seams(g)
  BY <1>2, <1>3, MarkKeepsCover DEF Layout, List, Marked
<1>5. Covering(heap', owned) /\ Seams(heap')
  BY <1>1, <1>4, TryMergeKeepsCover
<1> QED
  BY <1>1, <1>2, <1>5
     DEF MemoryInv, ElsewhereInv, RegionInv, SearchInv, GrowOnlyWhenExhausted, Live

LEMMA FindMergeKeepsMemory ==
  ASSUME FullInv, FindMerge
  PROVE  MemoryInv'
<1>1. /\ pc = "find" /\ cur \in DOMAIN heap /\ CanMergeWithNext(heap, cur)
      /\ heap' = MergeWithNext(heap, cur)
      /\ UNCHANGED <<owned, foreign, base, held, pc, cur, query, grown, rstart, rsize>>
  BY DEF FindMerge, Searching, call
<1>2. /\ Inv /\ Linking(heap) /\ Typed(heap)
      /\ Covering(heap, owned) /\ Seams(heap) /\ Aligned(base)
  BY <1>1, InvTypes DEF FullInv, Inv, LiveInv, Live, List, MemoryInv, RegionInv
<1>3. base = HEAP_START
  BY <1>1 DEF FullInv, MemoryInv, ElsewhereInv, Live
<1>4. Merged(heap, cur, heap')
  BY <1>1, <1>2, MergeEffect
<1>5. Covering(heap', owned) /\ Seams(heap')
  BY <1>1, <1>2, <1>4, MergeKeepsCover
<1>6. ElsewhereInv' /\ RegionInv'
  BY <1>1, <1>2, <1>3, <1>5 DEF ElsewhereInv, RegionInv, Live
<1>7. Need' = Need
  BY <1>1 DEF Need
<1>8. ASSUME ~grown
      PROVE  \E R \in SUBSET DOMAIN heap' : Walked(heap', base, cur, R) /\ Unfit(heap', Need, R)
  <2>1. PICK R \in SUBSET DOMAIN heap : Walked(heap, base, cur, R) /\ Unfit(heap, Need, R)
    BY <1>1, <1>8 DEF FullInv, MemoryInv, SearchInv
  <2>2. Walked(heap', base, cur, R) /\ Unfit(heap', Need, R)
    BY <1>1, <1>4, <2>1, MergeKeepsWalk
  <2> QED  BY <2>2 DEF Walked
<1>9. SearchInv'
  BY <1>1, <1>7, <1>8 DEF SearchInv, GrowOnlyWhenExhausted
<1> QED
  BY <1>6, <1>9 DEF MemoryInv

LEMMA FindGoodKeepsMemory ==
  ASSUME FullInv, FindGood
  PROVE  MemoryInv'
<1> DEFINE g == SplitIfTooBig(heap, cur, Need)
<1>1. /\ pc = "find" /\ cur \in DOMAIN heap /\ heap[cur].is_free /\ Need <= heap[cur].capacity
      /\ heap' = [g EXCEPT ![cur].is_free = FALSE] /\ pc' = "idle"
      /\ UNCHANGED <<owned, foreign, base, rstart, rsize>>
  <2>1. GoodBlock /\ cur \in DOMAIN heap /\ cur \in Nat
    BY InvTypes DEF FullInv, FindGood, Searching
  <2>2. Need \in Nat /\ heap[cur].capacity \in Nat
    BY <2>1, InvTypes, NeedFacts DEF FullInv, Inv, TypeOK
  <2>3. Need <= heap[cur].capacity /\ heap[cur].is_free
    BY <2>1, <2>2 DEF GoodBlock, BigEnough
  <2> QED  BY <2>1, <2>3 DEF FindGood, Searching, Return
<1>2. Need \in Nat /\ Need >= BLOCK_MIN_CAPACITY
  BY NeedFacts DEF FullInv, Inv, TypeOK
<1>3. /\ Inv /\ List(heap, base) /\ HeldIn(heap, held)
      /\ Covering(heap, owned) /\ Seams(heap) /\ Aligned(base) /\ base = HEAP_START
  BY <1>1 DEF FullInv, Inv, LiveInv, Live, MemoryInv, ElsewhereInv, RegionInv
<1>4. Layout(g, owned) /\ cur \in DOMAIN g
  BY <1>1, <1>2, <1>3, InvTypes, SplitIfTooBigFacts
<1>5. Covering(g, owned) /\ Seams(g)
  <2>1. CASE Splittable(heap, cur, Need)
    <3>1. g = Split(heap, cur, Need) /\ Typed(heap) /\ Disjoint(heap)
      BY <1>3, <2>1, InvTypes DEF SplitIfTooBig, Layout
    <3> HIDE DEF g
    <3>2. SplitAt(heap, cur, Need, g)
      BY <1>1, <1>2, <2>1, <3>1, SplitEffect
    <3> QED  BY <1>1, <1>3, <3>1, <3>2, SplitKeepsCover
  <2>2. CASE ~Splittable(heap, cur, Need)
    BY <1>3, <2>2 DEF SplitIfTooBig
  <2> QED  BY <2>1, <2>2
<1> HIDE DEF g
<1>6. Marked(g, cur, FALSE, heap')
  <2>1. FALSE \in BOOLEAN
    OBVIOUS
  <2> QED  BY <1>1, <1>4, <2>1, MarkKeepsShape
<1>7. Covering(heap', owned) /\ Seams(heap')
  BY <1>5, <1>6, MarkKeepsCover
<1> QED
  BY <1>1, <1>3, <1>7
     DEF MemoryInv, ElsewhereInv, RegionInv, SearchInv, GrowOnlyWhenExhausted, Live

(* The search leaves a block only when nothing more can be merged with it  *)
(* and it does not serve: at the last block that is true of all.           *)
LEMMA SearchKeepsMemory ==
  ASSUME FullInv, FindNext \/ FindLast \/ FindGiveUp \/ GrowFail
  PROVE  MemoryInv'
<1>1. CASE FindNext \/ FindLast
  <2>1. /\ pc = "find" /\ cur \in DOMAIN heap /\ Inv /\ List(heap, base)
        /\ Typed(heap) /\ base = HEAP_START
        /\ UNCHANGED <<heap, owned, foreign, base, held, query, grown, rstart, rsize>>
    BY <1>1, InvTypes DEF FindNext, FindLast, Searching, memory, FullInv, Inv, LiveInv, Live,
                          MemoryInv, ElsewhereInv
  <2>2. Need' = Need
    BY <2>1 DEF Need
  <2>3. ElsewhereInv' /\ RegionInv'
    BY <1>1, <2>1 DEF FindNext, FindLast, FullInv, MemoryInv, ElsewhereInv, RegionInv, Live
  <2>4. ASSUME ~grown, ~GoodBlock, ~CanMergeWithNext(heap, cur)
        PROVE  \E R \in SUBSET DOMAIN heap :
                 Walked(heap, base, cur, R) /\ Unfit(heap, Need, R \union {cur})
    <3>1. PICK R \in SUBSET DOMAIN heap : Walked(heap, base, cur, R) /\ Unfit(heap, Need, R)
      BY <2>1, <2>4 DEF FullInv, MemoryInv, SearchInv
    <3> QED  BY <2>4, <3>1 DEF Unfit, GoodBlock
  <2>5. CASE FindNext
    <3>1. ASSUME ~grown
          PROVE  \E R \in SUBSET DOMAIN heap :
                   Walked(heap, base, heap[cur].next, R) /\ Unfit(heap, Need, R)
      <4>1. PICK R \in SUBSET DOMAIN heap :
              Walked(heap, base, cur, R) /\ Unfit(heap, Need, R \union {cur})
        BY <2>4, <2>5, <3>1 DEF FindNext
      <4>2. Walked(heap, base, heap[cur].next, R \union {cur})
        BY <2>1, <2>5, <4>1, WalkOn DEF FindNext, List
      <4> QED  BY <2>1, <4>1, <4>2
    <3>2. SearchInv'
      BY <2>1, <2>2, <2>5, <3>1 DEF FindNext, SearchInv, GrowOnlyWhenExhausted
    <3> QED  BY <2>3, <3>2 DEF MemoryInv
  <2>6. CASE FindLast
    <3>1. ~grown /\ ~GoodBlock /\ ~CanMergeWithNext(heap, cur) /\ heap[cur].next = NULL
          /\ pc' = "grow" /\ cur' = cur
      BY <2>6 DEF FindLast, CanMergeWithNext
    <3>2. PICK R \in SUBSET DOMAIN heap :
            Walked(heap, base, cur, R) /\ Unfit(heap, Need, R \union {cur})
      BY <2>4, <3>1
    <3>3. R \union {cur} = DOMAIN heap
      BY <2>1, <3>1, <3>2, WalkedAll DEF List
    <3>4. SearchInv'
      BY <2>1, <2>2, <3>1, <3>2, <3>3 DEF SearchInv, GrowOnlyWhenExhausted, Unfit
    <3> QED  BY <2>3, <3>4 DEF MemoryInv
  <2> QED  BY <1>1, <2>5, <2>6
<1>2. CASE FindGiveUp \/ GrowFail
  <2>1. pc \in {"find", "grow"} /\ pc' = "idle" /\ UNCHANGED memory
    BY <1>2 DEF FindGiveUp, Searching, GrowFail, Return
  <2> QED
    BY <2>1 DEF memory, FullInv, MemoryInv, ElsewhereInv, RegionInv, SearchInv,
                GrowOnlyWhenExhausted, Live
<1> QED
  BY <1>1, <1>2

LEMMA GrowKeepsMemory ==
  ASSUME FullInv, Grow
  PROVE  MemoryInv'
<1> DEFINE size == RegionSize(Need)
<1>1. /\ pc = "grow" /\ pc' = "find" /\ grown' = TRUE /\ base' = base /\ Inv
      /\ cur \in DOMAIN heap /\ heap[cur].next = NULL /\ List(heap, base)
      /\ Covering(heap, owned) /\ Seams(heap) /\ Aligned(base) /\ base = HEAP_START
  BY DEF Grow, FullInv, Inv, LiveInv, Live, CallInv, MemoryInv, ElsewhereInv, RegionInv
<1>2. size \in Nat /\ Aligned(size)
  <2>1. Need \in Nat
    BY NeedFacts DEF FullInv, Inv, TypeOK
  <2> QED  BY <2>1, RegionSizeType, RegionSizeAligned
<1> HIDE DEF size
<1>3. PICK r \in MapPages(BlockAfter(heap, cur), size) :
        /\ owned' = owned \union Bytes(r, size)
        /\ heap' = TryMergeWithNext(Linked(cur, r, size), cur)
  BY DEF Grow, size
<1> DEFINE g == Linked(cur, r, size)
<1>4. /\ r \in Nat /\ IsFreeRange(r, size) /\ Bytes(r, size) \subseteq Addr
      /\ Bytes(r, size) \intersect owned = {} /\ size > Header /\ r \in Addr
      /\ r \notin DOMAIN heap /\ LinkedAt(heap, cur, r, size, g)
  BY <1>1, <1>3, GrowLinks DEF size
<1>5. Aligned(r)
  BY <1>4 DEF IsFreeRange, Aligned
<1> HIDE DEF g
<1>6. Covering(g, owned') /\ Seams(g)
  <2>1. Typed(heap)
    BY <1>1, InvTypes
  <2> QED  BY <1>1, <1>2, <1>3, <1>4, <1>5, <2>1, LinkKeepsCover
<1>7. Typed(g) /\ cur \in DOMAIN g /\ Linking(g)
  <2>1. Typed(g) /\ DOMAIN g = DOMAIN heap \union {r} /\ g[r].next = NULL /\ g[cur].next = r
        /\ \A c \in DOMAIN heap \ {cur} : g[c] = heap[c]
    BY <1>4 DEF LinkedAt
  <2> QED  BY <1>1, <2>1 DEF List, Linking
<1>8. Covering(heap', owned') /\ Seams(heap')
  BY <1>3, <1>6, <1>7, TryMergeKeepsCover DEF g
<1> QED
  BY <1>1, <1>8
     DEF MemoryInv, ElsewhereInv, RegionInv, SearchInv, GrowOnlyWhenExhausted, Live

LEMMA TermWalkKeepsMemory ==
  ASSUME FullInv, HeapTerm \/ TermWalk
  PROVE  MemoryInv'
<1>1. CASE HeapTerm
  <2>1. /\ pc = "idle" /\ pc' = "term" /\ cur' = HEAP_START /\ rstart' = HEAP_START /\ rsize' = 0
        /\ UNCHANGED <<heap, owned, base>> /\ List(heap, base)
        /\ Covering(heap, owned) /\ Seams(heap) /\ Aligned(base) /\ HEAP_START \in Nat
    BY <1>1, HeapAssumption
       DEF HeapTerm, FullInv, Inv, LiveInv, Live, MemoryInv, RegionInv, HeapAssumption
  <2>2. ASSUME HEAP_START \in DOMAIN heap
        PROVE  TermRun'
    <3>1. base = HEAP_START
      BY <2>1, <2>2 DEF FullInv, MemoryInv, ElsewhereInv, Live
    <3>2. Walked(heap, HEAP_START, HEAP_START, {})
      BY <2>1, <3>1 DEF Walked, List, Rooted
    <3>3. Contiguous(heap, HEAP_START, HEAP_START, {})
      BY <2>1 DEF Contiguous
    <3>4. HEAP_START = HEAP_START + 0
      BY <2>1
    <3> QED  BY <2>1, <3>1, <3>2, <3>3, <3>4 DEF TermRun
  <2> QED
    BY <2>1, <2>2 DEF MemoryInv, ElsewhereInv, RegionInv, SearchInv, GrowOnlyWhenExhausted, Live
<1>2. CASE TermWalk
  <2>1. /\ pc = "term" /\ pc' = "term" /\ cur \in DOMAIN heap /\ Inv
        /\ heap[cur].next # NULL /\ heap[cur].next = BlockAfter(heap, cur)
        /\ rsize' = rsize + SizeOf(heap, cur) /\ cur' = heap[cur].next
        /\ UNCHANGED <<heap, owned, base, rstart>>
    BY <1>2 DEF TermWalk, Terminating, RunEnds, BlocksContinuous, memory, FullInv
  <2>2. Covering(heap, owned) /\ TermRun
    BY <2>1 DEF FullInv, MemoryInv, RegionInv
  <2>3. PICK R \in SUBSET DOMAIN heap :
          Walked(heap, rstart, cur, R) /\ Contiguous(heap, rstart, cur, R)
    BY <2>2 DEF TermRun
  <2>4. cur' \in DOMAIN heap /\ Walked(heap, rstart, cur', R \union {cur})
    BY <2>1, <2>2, <2>3, WalkOn DEF TermRun, List
  <2>5. /\ Typed(heap) /\ cur \in Nat /\ heap[cur].capacity \in Nat
        /\ rstart \in Nat /\ rsize \in Nat
    BY <2>1, InvTypes DEF Inv, TypeOK
  <2>6. Contiguous(heap, rstart, cur', R \union {cur})
    BY <2>1, <2>3, <2>5, RunOn
  <2>7. cur' = rstart + rsize'
    BY <2>1, <2>2, <2>5, SizeFacts DEF TermRun, BlockAfter, Contents, SizeOf
  <2>8. TermRun'
    <3>1. R \union {cur} \in SUBSET DOMAIN heap
      BY <2>1
    <3> QED  BY <2>1, <2>2, <2>4, <2>6, <2>7, <3>1 DEF TermRun
  <2> QED
    BY <2>1, <2>2, <2>8
       DEF MemoryInv, ElsewhereInv, RegionInv, SearchInv, GrowOnlyWhenExhausted, Live
<1> QED
  BY <1>1, <1>2

(* The length given to munmap is that of the run, a whole number of pages: *)
(* rounding it up takes nothing of what follows.                           *)
LEMMA TermUnmapKeepsMemory ==
  ASSUME FullInv, TermUnmap
  PROVE  MemoryInv' /\ foreign' = foreign
<1> DEFINE gone == Unmapped(rstart, rsize + SizeOf(heap, cur))
           b == heap[cur].next
<1>1. /\ pc = "term" /\ cur \in DOMAIN heap /\ Inv
      /\ owned' = owned \ gone /\ foreign' = foreign \ gone
      /\ heap' = [a \in DOMAIN heap \ gone |-> heap[a]]
      /\ rstart' = b /\ rsize' = 0 /\ cur' = b
      /\ pc' = IF b = NULL THEN "off" ELSE "term"
      /\ b = NULL \/ b # BlockAfter(heap, cur)
  BY DEF TermUnmap, UnmapRun, Terminating, RunEnds, BlocksContinuous, FullInv
<1>2. Covering(heap, owned) /\ TermRun
  BY <1>1 DEF FullInv, MemoryInv, RegionInv
<1>3. PICK R \in SUBSET DOMAIN heap :
        Walked(heap, rstart, cur, R) /\ Contiguous(heap, rstart, cur, R)
  BY <1>2 DEF TermRun
<1>4. /\ Typed(heap) /\ Disjoint(heap) /\ cur \in Nat /\ heap[cur].capacity \in Nat
      /\ rstart \in Nat /\ rsize \in Nat /\ b \in Nat
  <2>1. b \in Nat
    BY <1>1, InvTypes DEF Block, Addr, NULL
  <2> QED  BY <1>1, <2>1, InvTypes DEF Inv, TypeOK, Layout
<1> HIDE DEF gone
<1>5. /\ rsize + SizeOf(heap, cur) = BlockAfter(heap, cur) - rstart
      /\ rsize + SizeOf(heap, cur) \in Nat /\ BlockAfter(heap, cur) \in Nat
      /\ BlockAfter(heap, cur) # NULL
  BY <1>2, <1>4, SizeFacts DEF TermRun, BlockAfter, Contents, SizeOf, NULL
<1>6. Aligned(BlockAfter(heap, cur)) /\ Aligned(b) /\ Aligned(rstart)
  <2>1. Seam(heap, cur)
    BY <1>1, <1>2 DEF TermRun, Seams
  <2> QED  BY <1>1, <1>2, <1>5, <2>1 DEF TermRun, Seam
<1>7. rsize + SizeOf(heap, cur) < SizeMod
  <2>1. BlockAfter(heap, cur) - 1 \in Bytes(cur, SizeOf(heap, cur))
    BY <1>4, SizeFacts DEF BlockAfter, Contents, SizeOf, Bytes
  <2>2. BlockAfter(heap, cur) - 1 \in Addr
    BY <1>1, <2>1, InvTypes DEF Layout, Within
  <2>3. AddrLimit < SizeMod
    BY SizesAssumption, SizeFacts DEF SizesAssumption
  <2> QED  BY <1>4, <1>5, <2>2, <2>3, SizeFacts DEF Addr
<1>8. gone = RunBytes(heap, rstart, cur)
  <2>1. Aligned(rsize + SizeOf(heap, cur))
    <3>1. Aligned(BlockAfter(heap, cur) - rstart)
      BY <1>4, <1>5, <1>6, AlignedSum
    <3> QED  BY <1>5, <3>1
  <2>2. RoundPages(rsize + SizeOf(heap, cur)) = rsize + SizeOf(heap, cur)
    BY <1>5, <1>7, <2>1, RoundPagesAligned
  <2>3. gone = Bytes(rstart, rsize + SizeOf(heap, cur))
    BY <1>6, <2>2 DEF gone, Unmapped, Aligned
  <2>4. rstart + (rsize + SizeOf(heap, cur)) - 1 = BlockAfter(heap, cur) - 1
    BY <1>4, <1>5
  <2> QED  BY <2>3, <2>4 DEF Bytes, RunBytes
<1>9. /\ Covering(heap', owned') /\ Seams(heap')
      /\ b = NULL => DOMAIN heap' = {}
      /\ b # NULL => List(heap', b)
  <2>1. /\ rstart \in Nat /\ cur \in DOMAIN heap
        /\ DOMAIN heap' = DOMAIN heap \ RunBytes(heap, rstart, cur)
        /\ \A c \in DOMAIN heap' : heap'[c] = heap[c]
        /\ Typed(heap) /\ Disjoint(heap) /\ List(heap, rstart)
        /\ Covering(heap, owned) /\ Seams(heap)
        /\ Walked(heap, rstart, cur, R) /\ Contiguous(heap, rstart, cur, R)
    BY <1>1, <1>2, <1>3, <1>4, <1>8 DEF TermRun
  <2>2. /\ Covering(heap', owned \ RunBytes(heap, rstart, cur)) /\ Seams(heap')
        /\ heap[cur].next = NULL => DOMAIN heap' = {}
        /\ heap[cur].next # NULL => List(heap', heap[cur].next)
    BY <2>1, RunUnmapped
  <2>3. owned' = owned \ RunBytes(heap, rstart, cur)
    BY <1>1, <1>8
  <2> QED  BY <2>2, <2>3
<1> HIDE DEF b
<1>10. b = NULL => owned' = {}
  BY <1>9 DEF Covering
<1>11. b # NULL => TermRun'
  <2> SUFFICES ASSUME b # NULL PROVE TermRun'
    OBVIOUS
  <2>1. Walked(heap', b, b, {})
    BY <1>9 DEF Walked, List, Rooted
  <2>2. Contiguous(heap', b, b, {})
    BY <1>4 DEF Contiguous
  <2>3. b = b + 0
    BY <1>4
  <2> QED  BY <1>1, <1>6, <1>9, <2>1, <2>2, <2>3 DEF TermRun
<1>12. foreign' = foreign
  <2>1. Contiguous(heap, rstart, BlockAfter(heap, cur), R \union {cur})
        /\ R \union {cur} \subseteq DOMAIN heap
    BY <1>1, <1>3, <1>4, RunOn
  <2>2. gone \subseteq owned
    <3> SUFFICES ASSUME NEW x \in gone PROVE x \in owned
      OBVIOUS
    <3>1. PICK c \in R \union {cur} : x \in Bytes(c, SizeOf(heap, c))
      BY <1>8, <2>1 DEF Contiguous, RunBytes
    <3> QED  BY <1>1, <2>1, <3>1 DEF Inv, Layout, Within
  <2> QED  BY <1>1, <2>2 DEF Inv
<1> QED
  BY <1>1, <1>9, <1>10, <1>11, <1>12
     DEF MemoryInv, ElsewhereInv, RegionInv, SearchInv, GrowOnlyWhenExhausted, Live

LEMMA MemoryNext == FullInv /\ [Next]_vars => MemoryInv'
<1> SUFFICES ASSUME FullInv, [Next]_vars PROVE MemoryInv'
  OBVIOUS
<1>1. ASSUME UNCHANGED <<heap, owned, base, held, pc, cur, query, grown, rstart, rsize>>
      PROVE  MemoryInv'
  BY <1>1 DEF FullInv, MemoryInv, ElsewhereInv, RegionInv, SearchInv, GrowOnlyWhenExhausted,
              Live, TermRun, Need
<1>2. CASE Client
  <2>1. ASSUME NEW p \in ForeignPages, ForeignMap(p) \/ ForeignUnmap(p)
        PROVE  MemoryInv'
    BY <1>1, <2>1 DEF ForeignMap, ForeignUnmap, call
  <2> QED
    BY <1>2, <2>1, HeapInitKeepsMemory, MallocKeepsMemory, FreeKeepsMemory, TermWalkKeepsMemory
       DEF Client
<1>3. CASE Step /\ ~Wild
  BY <1>3, FindMergeKeepsMemory, FindGoodKeepsMemory, SearchKeepsMemory, GrowKeepsMemory,
     TermWalkKeepsMemory, TermUnmapKeepsMemory DEF Step
<1>4. CASE Wild
  BY <1>4 DEF Wild, memory, FullInv, MemoryInv, ElsewhereInv, RegionInv, SearchInv,
              GrowOnlyWhenExhausted, Live
<1>5. CASE Lost \/ UNCHANGED vars
  BY <1>1, <1>5 DEF Lost, vars
<1> QED
  BY <1>2, <1>3, <1>4, <1>5 DEF Next

THEOREM FullInvariance == Spec => []FullInv
<1>1. Init => FullInv
  BY InvInit, MemoryInit DEF FullInv
<1>2. FullInv /\ [Next]_vars => FullInv'
  BY InvNext, MemoryNext DEF FullInv
<1> QED  BY <1>1, <1>2, PTL DEF Spec
-------------------------------------------------------------------------------
(* No byte of a region is lost to the allocator while it runs: every byte  *)
(* it has mapped belongs to a block ("blocks fill the whole region").      *)
THEOREM NoByteLost == Spec => []BlocksFillRegions
<1>1. FullInv => BlocksFillRegions
  BY DEF FullInv, MemoryInv, RegionInv, Covering, BlocksFillRegions
<1> QED  BY <1>1, FullInvariance, PTL

(* _malloc asks the kernel for a region only after a search of the whole   *)
(* list: no free block was large enough and no two could be merged.        *)
THEOREM GrowsOnlyWhenExhausted == Spec => []GrowOnlyWhenExhausted
<1>1. FullInv => GrowOnlyWhenExhausted
  BY DEF FullInv, MemoryInv, SearchInv
<1> QED  BY <1>1, FullInvariance, PTL

(* heap_term unmaps every page of every region, exactly, although it knows *)
(* the regions only from breaks in the list.                               *)
THEOREM TermUnmapsAll == Spec => []TermReleasesRegions
<1>1. FullInv => TermReleasesRegions
  BY DEF FullInv, MemoryInv, RegionInv, TermReleasesRegions
<1> QED  BY <1>1, FullInvariance, PTL

(* No call of the allocator touches the mappings of the rest of the        *)
(* program: the lengths heap_term computes are those of whole regions.     *)
THEOREM OthersKeepTheirPages == Spec => [][foreign' # foreign => pc \in {"off", "idle"}]_vars
<1>1. ASSUME FullInv, Next, foreign' # foreign
      PROVE  pc \in {"off", "idle"}
  <2>1. ~TermUnmap
    BY <1>1, TermUnmapKeepsMemory
  <2> QED
    BY <1>1, <2>1
       DEF Next, Client, Step, memory, call, vars, HeapInit, Malloc, Free, HeapTerm, ForeignMap,
           ForeignUnmap, FindMerge, FindGood, FindNext, FindLast, FindGiveUp, Grow, GrowFail,
           TermWalk, Wild, Lost
<1> QED  BY <1>1, FullInvariance, PTL DEF Spec
===============================================================================
