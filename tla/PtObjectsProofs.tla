---------------------------- MODULE PtObjectsProofs ----------------------------
(***************************************************************************)
(* The layout of the memory under realloc, memalign and the steps of       *)
(* PtHeap, for every value of the constants, and what follows for the      *)
(* objects of a program: no word is lost or shared, every chunk is in one  *)
(* place, memory grows only when none is free that would do, realloc and   *)
(* malloc_trim spare the data, and PtHeap implements PtContract.           *)
(***************************************************************************)
EXTENDS PtMallocProofs

-----------------------------------------------------------------------------
(* realloc. *)

(* A failed check remains when a chunk is given back. *)
LEMMA GivenBackAborts ==
  ASSUME NEW h \in Good, NEW p \in Aligned, h.aborted
  PROVE  int_free(h, p).aborted /\ int_free(h, p) \in Good
<1> DEFINE H == {p}
<1>1. H \in SUBSET Int /\ p \in H /\ h \in Sound(H, {})
  BY DEF Aligned, Sound
<1> HIDE DEF H
<1>2. int_free(h, p) \in Reach(h, H \ {p}, {}, H \ {p})
  BY <1>1, FreeIsSound
<1> QED BY <1>2, ReachIs

(* The header of a chunk, that of what lies behind it, and the mark of the *)
(* chunk after both.                                                       *)
ThreeHeads(h, p, size, nb) == set_inuse_bit(set_head(set_head_size(h, p, nb), p + nb, size - nb), p + size)

(* The shape after realloc's split has written its headers. *)
LEMMA ThreeHeadsAre ==
  ASSUME NEW h \in Good, NEW p \in Aligned, NEW size \in Aligned, NEW nb \in Aligned
  PROVE  /\ ThreeHeads(h, p, size, nb) \in Good /\ ThreeHeads(h, p, size, nb).aborted = h.aborted
         /\ ~mmapped(h, p) /\ p + size \in DOMAIN Shape(h) /\ ~Shape(h)[p + size].mapped /\ p + size # p /\ p + size # p + nb =>
              /\ Shape(ThreeHeads(h, p, size, nb)) = Upd(Upd(Shape(h), p, Plain(nb)), p + nb, Plain(size - nb))
              /\ HeadsOnly(h, ThreeHeads(h, p, size, nb))
<1> DEFINE q == p + nb
           e == p + size
           x == set_head_size(h, p, nb)
           y == set_head(x, q, size - nb)
           g == ThreeHeads(h, p, size, nb)
<1>1. q \in Aligned /\ e \in Aligned /\ size - nb \in Aligned
  BY EvenSums
<1>2. g = set_inuse_bit(y, e)
  BY DEF ThreeHeads
<1> HIDE DEF q, e
<1>3. x \in Good
  BY HeadsKeep
<1> HIDE DEF x
<1>4. y \in Good
  BY <1>1, <1>3, HeadsKeep
<1> HIDE DEF y
<1>5. g \in Good
  BY <1>1, <1>2, <1>4, HeadsKeep
<1>6. h \in Heaps /\ x \in Heaps /\ y \in Heaps
  BY <1>3, <1>4 DEF Good
<1>7. ASSUME NEW k \in Heaps, NEW a, NEW n
      PROVE  set_head_size(k, a, n).aborted = k.aborted /\ set_head(k, a, n).aborted = k.aborted /\ set_inuse_bit(k, a).aborted = k.aborted
  BY DEF Heaps, set_head, set_head_size, set_inuse_bit, Put
<1>8. g.aborted = h.aborted
  <2>1. x.aborted = h.aborted
    BY <1>6, <1>7 DEF x
  <2>2. y.aborted = x.aborted
    BY <1>6, <1>7 DEF y
  <2>3. g.aborted = y.aborted
    BY <1>2, <1>6, <1>7
  <2> QED BY <2>1, <2>2, <2>3
<1>9. ASSUME ~mmapped(h, p), e \in DOMAIN Shape(h), ~Shape(h)[e].mapped, e # p, e # q
      PROVE  /\ Shape(g) = Upd(Upd(Shape(h), p, Plain(nb)), q, Plain(size - nb))
             /\ HeadsOnly(h, g)
  <2>1. Shape(x) = Upd(Shape(h), p, Plain(nb)) /\ HeadsOnly(h, x)
    BY <1>6, <1>9, SizeIsSet DEF x
  <2>2. Shape(y) = Upd(Shape(x), q, Plain(size - nb)) /\ HeadsOnly(x, y)
    BY <1>6, HeadIsSet DEF y
  <2>3. e \in DOMAIN Shape(y) /\ ~Shape(y)[e].mapped
    BY <1>9, <2>1, <2>2 DEF Upd
  <2>4. Shape(g) = Shape(y) /\ HeadsOnly(y, g)
    BY <1>2, <1>6, <2>3, FlagsAreSet
  <2> QED BY <2>1, <2>2, <2>4 DEF HeadsOnly
<1> QED BY <1>5, <1>8, <1>9 DEF q, e

(* p stays, and is not smaller than nb. *)
KeepsRoom(k, g, H, F, p, nb) ==
  /\ g \in Reach(k, H, F, H \ {p})
  /\ ~g.aborted => p \in DOMAIN Shape(g) /\ ~Shape(g)[p].mapped /\ Shape(g)[p].size >= nb

(* What lies behind the first nb words of a chunk of size words is freed.  *)
LEMMA TailIsSound ==
  ASSUME NEW H \in SUBSET Int, NEW F, NEW h \in Good, NEW p \in H, p \in Aligned, NEW size \in Aligned, NEW nb \in Chunky,
         NEW k, k = set_head_size(h, p, size), k \in Sound(H, F), ~h.aborted => ~mmapped(h, p) /\ size >= nb
  PROVE  KeepsRoom(k, GiveBackTail(h, p, size, nb), H, F, p, nb)
<1> DEFINE g == GiveBackTail(h, p, size, nb)
           q == p + nb
           x == ThreeHeads(h, p, size, nb)
           s == Shape(h)
           t == Shape(k)
<1>1. nb \in Aligned /\ nb \in Int /\ nb >= MINSIZE /\ nb > 0 /\ size \in Int /\ p \in Int
  BY DEF Chunky, Aligned, MINSIZE, SIZE_SZ
<1>2. h \in Heaps /\ k \in Good /\ k \in Heaps /\ g \in Good /\ q \in Aligned /\ q \in Int /\ p + size \in Aligned
  <2>1. q \in Aligned /\ p + size \in Aligned
    BY <1>1, EvenSums
  <2>2. g \in Good
    BY <1>1, TailKeeps
  <2> QED BY <2>1, <2>2, SoundIs DEF Good, Aligned
<1>3. k.aborted = h.aborted
  BY <1>2 DEF Heaps, set_head_size, Put
<1>4. x \in Good /\ x.aborted = h.aborted
  BY <1>1, ThreeHeadsAre
<1>5. g = IF size - nb < MINSIZE THEN set_inuse_bit(k, p + size) ELSE int_free(x, q)
  BY DEF GiveBackTail, ThreeHeads
<1> HIDE DEF g, x, q
<1>6. CASE h.aborted
  <2>1. int_free(x, q).aborted
    BY <1>2, <1>4, <1>6, GivenBackAborts
  <2>2. set_inuse_bit(k, p + size).aborted
    BY <1>2, <1>3, <1>6 DEF Heaps, set_inuse_bit, Put
  <2>3. g.aborted
    BY <1>5, <2>1, <2>2
  <2>4. g \in Reach(k, H, F, H \ {p})
    BY <1>2, <2>3, AbortedReaches
  <2> QED BY <2>3, <2>4 DEF KeepsRoom, g
<1>7. CASE ~h.aborted
  <2>1. Layout(k, H, F) /\ ~mmapped(h, p) /\ size >= nb
    BY <1>3, <1>7 DEF Sound
  <2>2. t = Upd(s, p, Plain(size)) /\ HeadsOnly(h, k)
    BY <1>2, <2>1, SizeIsSet
  <2>3. p \in DOMAIN t /\ t[p] = Plain(size) /\ t[p].size = size /\ ~t[p].mapped /\ Followed(t, p)
    <3>1. p \in DOMAIN t /\ t[p] = Plain(size)
      BY <2>2 DEF Upd
    <3>2. t[p].size = size /\ ~t[p].mapped
      BY <3>1 DEF Plain
    <3> QED BY <1>1, <2>1, <3>1, <3>2, InHand
  <2>4. p + size \in DOMAIN t /\ ~t[p + size].mapped
    BY <2>3 DEF Followed
  <2>5. CASE size - nb < MINSIZE
    <3>1. g = set_inuse_bit(k, p + size)
      BY <1>5, <2>5
    <3>2. Shape(g) = t /\ HeadsOnly(k, g)
      BY <1>2, <2>4, <3>1, FlagsAreSet
    <3>3. g \in Sound(H, F) /\ Onward(k, g, H \ {p})
      BY <1>2, <3>2, HeadsSound
    <3>4. g \in Reach(k, H, F, H \ {p})
      BY <3>3 DEF Reach
    <3> QED BY <2>1, <2>3, <3>2, <3>4 DEF KeepsRoom, g
  <2>6. CASE ~(size - nb < MINSIZE)
    <3> DEFINE K == H \union {q}
    <3>1. g = int_free(x, q)
      BY <1>5, <2>6
    <3>2. size - nb >= MINSIZE /\ p + size # p /\ p + size # q /\ q # p /\ nb < size
      BY <1>1, <2>6 DEF MINSIZE, SIZE_SZ, q
    <3>3. q \notin DOMAIN t
      <4>1. Sized(t) /\ Tiles(t, GivenTo(k.brk, k.maps, F))
        BY <2>1 DEF Layout, Ground
      <4>2. Has(t, p, q)
        BY <1>1, <2>3, <3>2 DEF Plain, Has, q
      <4>3. q \in DOMAIN t => Has(t, q, q)
        BY <1>2, <4>1 DEF Sized, Has
      <4> QED BY <1>2, <2>3, <3>2, <4>1, <4>2, <4>3 DEF Tiles
    <3>4. p + size \in DOMAIN s /\ ~s[p + size].mapped
      BY <2>2, <2>4, <3>2 DEF Upd
    <3>5. Shape(x) = Upd(Upd(s, p, Plain(nb)), q, Plain(size - nb)) /\ HeadsOnly(h, x)
      BY <1>1, <2>1, <3>2, <3>4, ThreeHeadsAre DEF x, q
    <3>6. Parts(k, x, H, K, p, nb)
      <4>1. ListsStay(k, x) /\ x.top = k.top
        BY <2>2, <3>5 DEF HeadsOnly, ListsStay
      <4>2. /\ DOMAIN Shape(x) = DOMAIN t \union {q} /\ Shape(x)[p] = Plain(nb) /\ Shape(x)[q] = Plain(size - nb)
            /\ \A a \in DOMAIN t \ {p} : Shape(x)[a] = t[a]
        BY <2>2, <3>2, <3>3, <3>5 DEF Upd
      <4> QED BY <1>1, <2>3, <3>2, <4>1, <4>2 DEF Parts, q
    <3>7. Layout(x, K, F) /\ q \notin H
      BY <2>1, <3>6, Parted DEF q
    <3>8. K \ {q} = H /\ q \in K /\ K \in SUBSET Int
      BY <1>2, <3>7
    <3> HIDE DEF K
    <3>9. x \in Sound(K, F) /\ ~Shape(x)[q].mapped
      BY <1>4, <3>5, <3>7 DEF Sound, Upd, Plain
    <3>10. int_free(x, q) \in Reach(x, K \ {q}, F, K \ {q})
      BY <1>2, <3>8, <3>9, FreeIsSound
    <3>11. g \in Reach(x, H, F, H)
      BY <3>1, <3>8, <3>10
    <3>12. x \in Reach(k, K, F, H \ {p})
      <4>1. x.tcache = k.tcache
        BY <2>2, <3>5 DEF HeadsOnly
      <4>2. ASSUME NEW a \in H \ {p}, a \in DOMAIN t PROVE a \in DOMAIN Shape(x) /\ Shape(x)[a] = t[a]
        BY <2>2, <3>3, <3>5, <4>2 DEF Upd
      <4> QED BY <1>3, <1>4, <3>9, <4>1, <4>2 DEF Reach, Onward
    <3>13. g \in Reach(x, H, F, H \ {p})
      BY <3>11, ReachLess
    <3>14. g \in Reach(k, H, F, H \ {p})
      BY <3>12, <3>13, ReachTwice
    <3>15. ~g.aborted => p \in DOMAIN Shape(g) /\ ~Shape(g)[p].mapped /\ Shape(g)[p].size >= nb
      <4>1. p \in DOMAIN Shape(x) /\ Shape(x)[p] = Plain(nb)
        BY <3>2, <3>5 DEF Upd
      <4>2. ~g.aborted => p \in DOMAIN Shape(g) /\ Shape(g)[p] = Plain(nb)
        BY <3>11, <4>1, ReachIs
      <4> QED BY <1>1, <4>2 DEF Plain
    <3> QED BY <3>14, <3>15 DEF KeepsRoom, g
  <2> QED BY <2>5, <2>6
<1> QED BY <1>6, <1>7

(* A chunk takes in the one behind it, which is in hand as well. *)
TakesIn(h, k, H, p, next, size) ==
  /\ next \notin H /\ next = p + Shape(h)[p].size /\ size = Shape(h)[p].size + Shape(h)[next].size
  /\ ~Shape(h)[p].mapped /\ ~Shape(h)[next].mapped
  /\ Shape(k) = Upd(Del(Shape(h), next), p, Plain(size)) /\ HeadsOnly(h, k)

TookIn(h, k, H, F, p) ==
  Layout(k, H, F) /\ \A q \in H \ {p} : q \in DOMAIN Shape(h) => q \in DOMAIN Shape(k) /\ Shape(k)[q] = Shape(h)[q]

(* Two chunks in hand, side by side, become one. *)
LEMMA TakenIn ==
  ASSUME NEW h, NEW k, NEW H \in SUBSET Int, NEW F, NEW p \in H, NEW next \in Int, NEW size, Layout(h, H \union {next}, F),
         TakesIn(h, k, H, p, next, size)
  PROVE  TookIn(h, k, H, F, p)
<1> DEFINE s == Shape(h)
           r == Shape(k)
           K == H \union {next}
           C == {p, next}
           z == p + size
<1>1. K \in SUBSET Int /\ p \in K /\ next \in K /\ p \in Int
  OBVIOUS
<1> HIDE DEF K
<1>2. /\ next \notin H /\ next = p + s[p].size /\ size = s[p].size + s[next].size /\ ~s[p].mapped /\ ~s[next].mapped
      /\ r = Upd(Del(s, next), p, Plain(size)) /\ HeadsOnly(h, k)
  BY DEF TakesIn
<1>3. Layout(h, K, F)
  BY DEF K
<1>4. /\ p \in DOMAIN s /\ next \in DOMAIN s /\ p # h.top /\ next # h.top /\ s[p].size >= MINSIZE /\ s[next].size >= MINSIZE
      /\ Followed(s, next)
  BY <1>1, <1>2, <1>3, InHand
<1>5. Sized(s)
  BY <1>3 DEF Layout, Ground
<1>6. s[p].size \in Int /\ s[next].size \in Int /\ size \in Int /\ z \in Int /\ size >= MINSIZE
  BY <1>1, <1>2, <1>4, <1>5 DEF Sized, MINSIZE, SIZE_SZ
<1>7. z = next + s[next].size /\ p # next
  BY <1>1, <1>2, <1>4, <1>6 DEF MINSIZE, SIZE_SZ
<1>8. Covers(s, C, p, z)
  <2>1. Covers(s, {p}, p, next)
    BY <1>2, <1>4, <1>5, OneCovers
  <2>2. Covers(s, {next}, next, z)
    BY <1>2, <1>4, <1>5, <1>7, OneCovers
  <2>3. p <= next /\ next <= z /\ C = {p} \union {next}
    BY <1>1, <1>2, <1>4, <1>6, <1>7 DEF MINSIZE, SIZE_SZ
  <2> QED BY <1>1, <1>6, <2>1, <2>2, <2>3, TwoCover
<1>9. Gathers(h, k, K, H, C, p, z)
  <2>1. DOMAIN r = (DOMAIN s \ C) \union {p} /\ (\A x \in DOMAIN s \ C : r[x] = s[x]) /\ r[p] = Plain(size)
    BY <1>2, <1>4, <1>7 DEF Upd, Del
  <2>2. z - p = size /\ z - p >= MINSIZE
    BY <1>1, <1>6
  <2>3. z \in DOMAIN s /\ ~s[z].mapped
    BY <1>4, <1>7 DEF Followed
  <2>4. H = (K \ C) \union {p}
    BY <1>2 DEF K
  <2>5. ListsStay(h, k) /\ k.top = h.top
    BY <1>2 DEF HeadsOnly, ListsStay
  <2> QED BY <1>1, <1>2, <1>4, <1>6, <1>8, <2>1, <2>2, <2>3, <2>4, <2>5 DEF Gathers
<1>10. Layout(k, H, F)
  BY <1>1, <1>3, <1>9, Gathered
<1>11. ASSUME NEW q \in H \ {p}, q \in DOMAIN s PROVE q \in DOMAIN r /\ r[q] = s[q]
  BY <1>2, <1>11 DEF Upd, Del
<1> QED BY <1>10, <1>11 DEF TookIn

(* What is beyond nb of two chunks side by side is freed. *)
LEMMA JoinedIsSound ==
  ASSUME NEW H \in SUBSET Int, NEW F, NEW p \in H, p \in Aligned, NEW next \in Aligned, NEW h \in Sound(H \union {next}, F),
         NEW size \in Aligned, NEW nb \in Chunky,
         ~h.aborted => /\ next \notin H /\ next = p + Shape(h)[p].size /\ size = Shape(h)[p].size + Shape(h)[next].size
                       /\ ~Shape(h)[p].mapped /\ ~Shape(h)[next].mapped /\ size >= nb
  PROVE  KeepsRoom(h, Joined(h, p, next, size, nb), H, F, p, nb)
<1> DEFINE d == Drop(h, next)
           k == set_head_size(d, p, size)
           g == Joined(h, p, next, size, nb)
<1>1. h \in Good /\ h \in Heaps /\ (~h.aborted => Layout(h, H \union {next}, F)) /\ next \in Int /\ p \in Int
  BY SoundIs DEF Aligned
<1>2. d \in Good /\ d \in Heaps /\ Shape(d) = Del(Shape(h), next) /\ HeadsOnly(h, d)
  BY <1>1, DropKeeps, DropIs DEF Good
<1>3. g = GiveBackTail(d, p, size, nb)
  BY DEF Joined
<1> HIDE DEF d, g
<1>4. k \in Good
  BY <1>2, HeadsKeep
<1>5. k.aborted = d.aborted /\ d.aborted = h.aborted
  BY <1>2 DEF Heaps, set_head_size, Put, HeadsOnly
<1>6. ~h.aborted => ~mmapped(d, p) /\ size >= nb /\ k \in Sound(H, F) /\ Onward(h, k, H \ {p})
  <2> SUFFICES ASSUME ~h.aborted PROVE ~mmapped(d, p) /\ size >= nb /\ k \in Sound(H, F) /\ Onward(h, k, H \ {p})
    OBVIOUS
  <2>1. /\ next \notin H /\ next = p + Shape(h)[p].size /\ size = Shape(h)[p].size + Shape(h)[next].size
        /\ ~Shape(h)[p].mapped /\ ~Shape(h)[next].mapped /\ size >= nb /\ Layout(h, H \union {next}, F)
    BY <1>1
  <2>2. p \in DOMAIN Shape(h) /\ p # next
    <3> DEFINE K == H \union {next}
    <3>1. p \in K /\ Layout(h, K, F)
      BY <2>1
    <3> HIDE DEF K
    <3> QED BY <1>1, <2>1, <3>1, InHand
  <2>3. ~mmapped(d, p)
    <3>1. At(d, p) = At(h, p)
      BY <1>1, <2>2, DropIs DEF d
    <3>2. ~mmapped(h, p)
      BY <2>1, <2>2, SizeIs
    <3> QED BY <3>1, <3>2 DEF mmapped
  <2>4. Shape(k) = Upd(Shape(d), p, Plain(size)) /\ HeadsOnly(d, k)
    BY <1>2, <2>3, SizeIsSet
  <2> HIDE DEF k
  <2>5. TakesIn(h, k, H, p, next, size)
    BY <1>2, <2>1, <2>4 DEF TakesIn, HeadsOnly
  <2>6. TookIn(h, k, H, F, p)
    BY <1>1, <2>1, <2>5, TakenIn
  <2>7. k.tcache = h.tcache
    BY <2>5 DEF TakesIn, HeadsOnly
  <2> QED BY <1>4, <2>1, <2>3, <2>6, <2>7 DEF Sound, Onward, TookIn
<1>7. k \in Reach(h, H, F, H \ {p})
  BY <1>4, <1>5, <1>6 DEF Reach, Sound, Onward
<1>8. KeepsRoom(k, GiveBackTail(d, p, size, nb), H, F, p, nb)
  <2>1. k \in Sound(H, F) /\ (~d.aborted => ~mmapped(d, p) /\ size >= nb)
    BY <1>5, <1>6, <1>7, ReachIs
  <2> HIDE DEF k
  <2>2. k = set_head_size(d, p, size)
    BY DEF k
  <2> QED BY <1>2, <2>1, <2>2, TailIsSound
<1> HIDE DEF k
<1>9. g \in Reach(k, H, F, H \ {p}) /\ (~g.aborted => p \in DOMAIN Shape(g) /\ ~Shape(g)[p].mapped /\ Shape(g)[p].size >= nb)
  BY <1>3, <1>8 DEF KeepsRoom
<1>10. g \in Reach(h, H, F, H \ {p})
  BY <1>7, <1>9, ReachTwice
<1> QED BY <1>9, <1>10 DEF KeepsRoom, g

(* The words of a chunk of shape v that its user may use. *)
Usable(v) == v.size - (IF v.mapped THEN CHUNK_HDR_SZ ELSE SIZE_SZ)

(* What realloc answers: NULL, and p is as it was; or a chunk in place of  *)
(* p, which is large enough, nothing of p is lost, and no more is copied   *)
(* than there is room for.                                                 *)
Replaces(g, h, H, F, p, q, nb) ==
  /\ g \in Later(h, (H \ {p}) \union {q}, F, H \ {p})
  /\ ~g.aborted => q \notin H \ {p} /\ Fits(g, q, nb)

Regrants(a, h, H, F, p, nb) ==
  /\ a.h \in Good /\ a.p \in Aligned \union {NULL}
  /\ a.p = NULL => a.h \in Later(h, H, F, H)
  /\ a.p # NULL => Replaces(a.h, h, H, F, p, a.p, nb)
  /\ ~a.h.aborted /\ a.p # NULL => a.kept = Usable(Shape(h)[p]) /\ a.copied <= Usable(Shape(a.h)[a.p])

(* realloc answers NULL: the object is as it was. *)
LEMMA RefusedRegrants ==
  ASSUME NEW h, NEW H, NEW F, NEW p, NEW nb, NEW g \in Later(h, H, F, H)
  PROVE  Regrants(Refused(g), h, H, F, p, nb)
<1>1. g \in Good
  BY LaterIs
<1> QED BY <1>1 DEF Regrants, Refused

(* A chunk that is large enough has room. *)
LEMMA FitsHasRoom ==
  ASSUME NEW H, NEW F, NEW g \in Sound(H, F), ~g.aborted, NEW q, NEW nb \in Int, Fits(g, q, nb)
  PROVE  Usable(Shape(g)[q]) \in Int /\ Usable(Shape(g)[q]) >= nb - SIZE_SZ /\ Shape(g)[q].size \in Int
<1>1. Sized(Shape(g))
  BY SoundIs DEF Layout, Ground
<1>2. q \in DOMAIN Shape(g) /\ Shape(g)[q].size >= nb /\ (Shape(g)[q].mapped => Shape(g)[q].size >= nb + 1)
  BY DEF Fits
<1>3. Shape(g)[q].size \in Int
  BY <1>1, <1>2 DEF Sized
<1> QED BY <1>2, <1>3 DEF Usable, CHUNK_HDR_SZ, SIZE_SZ

(* realloc answers a chunk at which the object's words still are. *)
LEMMA StaysRegrants ==
  ASSUME NEW h, NEW H, NEW F, NEW p, NEW q \in Aligned, NEW nb \in Chunky, NEW g, Replaces(g, h, H, F, p, q, nb), NEW n,
         ~g.aborted => n = Usable(Shape(h)[p])
  PROVE  Regrants(Stays(g, q, n), h, H, F, p, nb)
<1>1. g \in Good /\ g \in Sound((H \ {p}) \union {q}, F)
  BY LaterIs DEF Replaces
<1>2. q # NULL
  BY PtAssumption DEF Aligned
<1>3. ~g.aborted => 0 <= Usable(Shape(g)[q])
  <2> SUFFICES ASSUME ~g.aborted PROVE 0 <= Usable(Shape(g)[q])
    OBVIOUS
  <2>1. Fits(g, q, nb) /\ nb \in Int /\ nb >= MINSIZE
    BY DEF Replaces, Chunky, Aligned
  <2>2. Usable(Shape(g)[q]) \in Int /\ Usable(Shape(g)[q]) >= nb - SIZE_SZ
    BY <1>1, <2>1, FitsHasRoom
  <2> QED BY <2>1, <2>2 DEF MINSIZE, SIZE_SZ
<1> DEFINE a == Stays(g, q, n)
<1>4. a.h = g /\ a.p = q /\ a.kept = n /\ a.copied = 0
  BY DEF Stays
<1> HIDE DEF a
<1>5. Regrants(a, h, H, F, p, nb)
  BY <1>1, <1>2, <1>3, <1>4 DEF Regrants
<1> QED BY <1>5 DEF a

(* realloc answers another chunk, into which they were copied, and there   *)
(* is room for them.                                                       *)
LEMMA MovesRegrants ==
  ASSUME NEW h, NEW H, NEW F, NEW p, NEW q \in Aligned, NEW nb, NEW g, Replaces(g, h, H, F, p, q, nb), NEW n,
         ~g.aborted => n = Usable(Shape(h)[p]) /\ n <= Usable(Shape(g)[q])
  PROVE  Regrants(Moves(g, q, n), h, H, F, p, nb)
<1>1. g \in Good
  BY LaterIs DEF Replaces
<1>2. q # NULL
  BY PtAssumption DEF Aligned
<1> DEFINE a == Moves(g, q, n)
<1>4. a.h = g /\ a.p = q /\ a.kept = n /\ a.copied = n
  BY DEF Moves
<1> HIDE DEF a
<1>5. Regrants(a, h, H, F, p, nb)
  BY <1>1, <1>2, <1>4 DEF Regrants
<1> QED BY <1>5 DEF a

(* realloc's answer after a step that kept the chunks in hand. *)
LEMMA RegrantsOnward ==
  ASSUME NEW H \in SUBSET Int, NEW F, NEW h \in Sound(H, F), NEW g \in Later(h, H, F, H), NEW p \in H, NEW nb, NEW a,
         Regrants(a, g, H, F, p, nb)
  PROVE  Regrants(a, h, H, F, p, nb)
<1>1. /\ a.h \in Good /\ a.p \in Aligned \union {NULL}
      /\ a.p = NULL => a.h \in Later(g, H, F, H)
      /\ a.p # NULL => Replaces(a.h, g, H, F, p, a.p, nb)
      /\ ~a.h.aborted /\ a.p # NULL => a.kept = Usable(Shape(g)[p]) /\ a.copied <= Usable(Shape(a.h)[a.p])
  BY DEF Regrants
<1>2. a.p = NULL => a.h \in Later(h, H, F, H)
  <2> SUFFICES ASSUME a.p = NULL PROVE a.h \in Later(h, H, F, H)
    OBVIOUS
  <2> QED BY <1>1, LaterTwice
<1>3. a.p # NULL => Replaces(a.h, h, H, F, p, a.p, nb)
  <2> SUFFICES ASSUME a.p # NULL PROVE Replaces(a.h, h, H, F, p, a.p, nb)
    OBVIOUS
  <2> DEFINE B == H \ {p}
             K == B \union {a.p}
  <2>1. a.h \in Later(g, K, F, B) /\ B \subseteq H
    BY <1>1 DEF Replaces
  <2> HIDE DEF B, K
  <2>2. a.h \in Later(h, K, F, B)
    BY <2>1, LaterTwice
  <2> QED BY <1>1, <2>2 DEF Replaces, B, K
<1>4. ~a.h.aborted /\ a.p # NULL => Shape(g)[p] = Shape(h)[p]
  <2> SUFFICES ASSUME ~a.h.aborted, a.p # NULL PROVE Shape(g)[p] = Shape(h)[p]
    OBVIOUS
  <2>1. ~g.aborted
    BY <1>1 DEF Replaces, Later
  <2>2. ~h.aborted /\ Same(h, g, H)
    BY <2>1 DEF Later
  <2>3. p \in DOMAIN Shape(h)
    BY <2>2, SoundIs, InHand
  <2> QED BY <2>2, <2>3 DEF Same
<1> QED BY <1>1, <1>2, <1>3, <1>4 DEF Regrants

(* The chunk that stays where it is and is large enough replaces itself. *)
LEMMA KeepsReplaces ==
  ASSUME NEW h, NEW L, NEW H, NEW F, NEW p \in H, NEW nb, NEW k \in Reach(h, L, F, H \ {p}), NEW g, KeepsRoom(k, g, H, F, p, nb)
  PROVE  Replaces(g, h, H, F, p, p, nb)
<1> DEFINE B == H \ {p}
<1>1. g \in Reach(k, H, F, B) /\ k \in Reach(h, L, F, B)
      /\ (~g.aborted => p \in DOMAIN Shape(g) /\ ~Shape(g)[p].mapped /\ Shape(g)[p].size >= nb)
  BY DEF KeepsRoom
<1>2. B \union {p} = H /\ p \notin B
  OBVIOUS
<1> HIDE DEF B
<1>3. g \in Reach(h, H, F, B)
  BY <1>1, ReachTwice
<1>4. g \in Later(h, H, F, B)
  BY <1>3, ReachIsLater
<1> QED BY <1>1, <1>2, <1>4 DEF Replaces, Fits, B

(* p is large enough as it is. *)
LEMMA ResizedInPlace ==
  ASSUME NEW H \in SUBSET Int, NEW F, NEW h \in Sound(H, F), NEW p \in H, p \in Aligned, NEW nb \in Chunky,
         ~h.aborted => ~Shape(h)[p].mapped, chunksize(h, p) >= nb
  PROVE  Replaces(GiveBackTail(h, p, chunksize(h, p), nb), h, H, F, p, p, nb)
<1> DEFINE size == chunksize(h, p)
           k == set_head_size(h, p, size)
<1>1. h \in Good /\ h \in Heaps /\ (~h.aborted => Layout(h, H, F)) /\ size \in Aligned /\ size >= nb
  BY SoundIs, HeadFields
<1>2. k \in Good
  BY <1>1, HeadsKeep
<1>3. k.aborted = h.aborted
  BY <1>1 DEF Heaps, set_head_size, Put
<1>4. ~h.aborted => ~mmapped(h, p) /\ Shape(k) = Shape(h) /\ HeadsOnly(h, k)
  <2> SUFFICES ASSUME ~h.aborted PROVE ~mmapped(h, p) /\ Shape(k) = Shape(h) /\ HeadsOnly(h, k)
    OBVIOUS
  <2>1. p \in DOMAIN Shape(h) /\ ~Shape(h)[p].mapped
    BY <1>1, InHand
  <2>2. ~mmapped(h, p) /\ p \in DOMAIN h.mem
    BY <2>1, SizeIs
  <2>3. k = Put(h, p, [At(h, p) EXCEPT !.size = size])
    BY DEF set_head_size
  <2> DEFINE v == [At(h, p) EXCEPT !.size = size]
  <2>4. v.size = chunksize(h, p) /\ v.mmapped = FALSE
    <3>1. At(h, p) \in Heads /\ ~At(h, p).mmapped
      BY <1>1, <2>2, HeadFields DEF mmapped
    <3> QED BY <3>1 DEF Heads
  <2> HIDE DEF v
  <2>5. Shape(Put(h, p, v)) = Shape(h) /\ HeadsOnly(h, Put(h, p, v))
    BY <1>1, <2>2, <2>4, SameHead
  <2> QED BY <2>2, <2>3, <2>5 DEF v
<1> HIDE DEF k, size
<1>5. k \in Reach(h, H, F, H \ {p}) /\ k \in Sound(H, F)
  <2>1. CASE h.aborted
    BY <1>2, <1>3, <2>1, AbortedReaches, ReachIs
  <2>2. CASE ~h.aborted
    <3>1. k \in Sound(H, F) /\ Onward(h, k, H \ {p})
      BY <1>2, <1>4, <2>2, HeadsSound
    <3> QED BY <3>1 DEF Reach
  <2> QED BY <2>1, <2>2
<1>6. KeepsRoom(k, GiveBackTail(h, p, size, nb), H, F, p, nb)
  <2>1. k = set_head_size(h, p, size)
    BY DEF k
  <2> QED BY <1>1, <1>4, <1>5, <2>1, TailIsSound
<1>7. Replaces(GiveBackTail(h, p, size, nb), h, H, F, p, p, nb)
  BY <1>5, <1>6, KeepsReplaces
<1> QED BY <1>7 DEF size

(* p takes in the free chunk behind it. *)
LEMMA ResizedForth ==
  ASSUME NEW H \in SUBSET Int, NEW F, NEW h \in Sound(H, F), NEW p \in H, p \in Aligned, NEW nb \in Chunky,
         ~h.aborted => ~Shape(h)[p].mapped, chunksize(h, p) + chunksize(h, next_chunk(h, p)) >= nb
  PROVE  Replaces(Joined(unlink_chunk(h, next_chunk(h, p)), p, next_chunk(h, p),
                         chunksize(h, p) + chunksize(h, next_chunk(h, p)), nb), h, H, F, p, p, nb)
<1> DEFINE next == next_chunk(h, p)
           size == chunksize(h, p) + chunksize(h, next)
           u == unlink_chunk(h, next)
<1>1. h \in Good /\ (~h.aborted => Layout(h, H, F)) /\ next \in Aligned /\ size \in Aligned /\ size >= nb /\ next = p + chunksize(h, p)
  BY SoundIs, HeadFields, EvenSums DEF next_chunk
<1> HIDE DEF next, size
<1>2. /\ u \in Sound(H \union {next}, F) /\ Onward(h, u, H) /\ u.mem = h.mem
      /\ ~u.aborted => next \notin H /\ next \in DOMAIN Shape(h) /\ ~Shape(h)[next].mapped
  <2>1. ASSUME NEW q
        PROVE  /\ unlink_chunk(h, q) \in Sound(H \union {q}, F) /\ Onward(h, unlink_chunk(h, q), H)
               /\ unlink_chunk(h, q).mem = h.mem /\ unlink_chunk(h, q).top = h.top
               /\ ~unlink_chunk(h, q).aborted =>
                    /\ q \notin H /\ q \in DOMAIN Shape(h) /\ ~Shape(h)[q].mapped /\ Shape(h)[q].size >= MINSIZE
                    /\ q # h.top /\ chunksize(h, q) = prev_size(h, next_chunk(h, q)) /\ q \in Int
    BY UnlinkIsSound
  <2> QED BY <2>1
<1>3. Shape(u) = Shape(h)
  BY <1>2 DEF Shape
<1> HIDE DEF u
<1>4. ~u.aborted => /\ next \notin H /\ next = p + Shape(u)[p].size /\ size = Shape(u)[p].size + Shape(u)[next].size
                    /\ ~Shape(u)[p].mapped /\ ~Shape(u)[next].mapped
  <2> SUFFICES ASSUME ~u.aborted
               PROVE  /\ next \notin H /\ next = p + Shape(h)[p].size /\ size = Shape(h)[p].size + Shape(h)[next].size
                      /\ ~Shape(h)[p].mapped /\ ~Shape(h)[next].mapped
    BY <1>3
  <2>1. ~h.aborted /\ next \notin H /\ next \in DOMAIN Shape(h) /\ ~Shape(h)[next].mapped
    BY <1>2 DEF Onward
  <2>2. p \in DOMAIN Shape(h)
    BY <1>1, <2>1, InHand
  <2>3. chunksize(h, p) = Shape(h)[p].size /\ chunksize(h, next) = Shape(h)[next].size
    BY <2>1, <2>2, SizeIs
  <2> QED BY <1>1, <2>1, <2>3 DEF size
<1>5. KeepsRoom(u, Joined(u, p, next, size, nb), H, F, p, nb)
  BY <1>1, <1>2, <1>4, JoinedIsSound
<1>6. u \in Reach(h, H \union {next}, F, H \ {p})
  <2>1. u \in Reach(h, H \union {next}, F, H)
    BY <1>2 DEF Reach
  <2> QED BY <2>1, ReachLess
<1>7. Replaces(Joined(u, p, next, size, nb), h, H, F, p, p, nb)
  BY <1>5, <1>6, KeepsReplaces
<1> QED BY <1>7 DEF u, size, next

(* p takes nb words of itself and of top behind it, and top is what is left. *)
IntoTop(h, p, next, size, nb) ==
  [set_head(set_head_size(Drop(h, next), p, nb), p + nb, size - nb) EXCEPT !.top = p + nb]

GrewIntoTop(h, g, p, nb, size) ==
  /\ Shape(g) = Upd(Upd(Del(Shape(h), h.top), p, Plain(nb)), p + nb, Plain(size - nb))
  /\ ListsStay(h, g) /\ g.top = p + nb

(* The shape when a chunk takes words of top. *)
LEMMA IntoTopIs ==
  ASSUME NEW h \in Good, NEW p \in Aligned, p # h.top, NEW size \in Aligned, NEW nb \in Aligned
  PROVE  /\ IntoTop(h, p, h.top, size, nb) \in Good /\ IntoTop(h, p, h.top, size, nb).aborted = h.aborted
         /\ ~mmapped(h, p) => GrewIntoTop(h, IntoTop(h, p, h.top, size, nb), p, nb, size)
<1> DEFINE d == Drop(h, h.top)
           x == set_head_size(d, p, nb)
           y == set_head(x, p + nb, size - nb)
           g == IntoTop(h, p, h.top, size, nb)
<1>1. p + nb \in Aligned /\ size - nb \in Aligned
  BY EvenSums
<1>2. d \in Good /\ h \in Heaps
  BY DropKeeps DEF Good
<1>3. Shape(d) = Del(Shape(h), h.top) /\ HeadsOnly(h, d) /\ At(d, p) = At(h, p)
  BY <1>2, DropIs
<1> HIDE DEF d
<1>4. x \in Good
  BY <1>2, HeadsKeep
<1>5. x.aborted = d.aborted
  BY <1>2 DEF Good, Heaps, set_head_size, Put
<1>6. ~mmapped(h, p) => Shape(x) = Upd(Shape(d), p, Plain(nb)) /\ HeadsOnly(d, x)
  BY <1>2, <1>3, SizeIsSet DEF mmapped, Good
<1> HIDE DEF x
<1>7. y \in Good
  BY <1>1, <1>4, HeadsKeep
<1>8. Shape(y) = Upd(Shape(x), p + nb, Plain(size - nb)) /\ HeadsOnly(x, y) /\ y \in Heaps
  BY <1>4, <1>7, HeadIsSet DEF Good
<1>9. g = [y EXCEPT !.top = p + nb]
  BY DEF IntoTop, x, d
<1> HIDE DEF y
<1>10. g \in Good
  BY <1>1, <1>7, <1>9, OtherFields
<1>11. Shape(g) = Shape(y) /\ g.top = p + nb /\ ListsStay(y, g) /\ g.aborted = y.aborted
  BY <1>8, <1>9, TopMoves
<1> HIDE DEF g
<1>12. g.aborted = h.aborted
  BY <1>3, <1>5, <1>8, <1>11 DEF HeadsOnly
<1>13. ASSUME ~mmapped(h, p) PROVE GrewIntoTop(h, g, p, nb, size)
  BY <1>3, <1>6, <1>8, <1>11, <1>13 DEF HeadsOnly, ListsStay, GrewIntoTop
<1> QED BY <1>10, <1>12, <1>13 DEF g

(* p and top behind it are one: an intermediate heap, for the proof. *)
LEMMA TopTaken ==
  ASSUME NEW H \in SUBSET Int, NEW F, NEW h \in Good, Layout(h, H, F), NEW p \in H, p \in Aligned, ~Shape(h)[p].mapped,
         p + Shape(h)[p].size = h.top
  PROVE  \E m \in Good : /\ Layout(m, H \ {p}, F) /\ ListsStay(h, m) /\ m.top = p
                         /\ Shape(m) = Upd(Del(Shape(h), h.top), p, Plain(Shape(h)[p].size + Shape(h)[h.top].size))
<1> DEFINE s == Shape(h)
           n == h.top
           size == s[p].size + s[n].size
           d == Drop(h, n)
           k == set_head(d, p, size)
           m == [k EXCEPT !.top = p]
           z == p + size
           C == {p, n}
<1>1. p \in DOMAIN s /\ p # n /\ Followed(s, p) /\ p \in Int /\ s[p].size >= MINSIZE
  BY InHand
<1>2. n \in DOMAIN s
  BY <1>1 DEF Followed
<1>3. n \in Int /\ n > 0
  BY <1>2, NotZero
<1>4. ~s[n].mapped /\ s[n].size >= MINSIZE /\ n \notin H
  BY <1>3, TopIs
<1>5. Sized(s)
  BY DEF Layout, Ground
<1>6. s[p].size \in Int /\ s[n].size \in Int /\ size \in Int /\ z \in Int /\ size >= MINSIZE /\ z = n + s[n].size
  BY <1>1, <1>2, <1>4, <1>5 DEF Sized, MINSIZE, SIZE_SZ
<1>7. h \in Heaps /\ size \in Aligned
  <2>1. chunksize(h, p) \in Aligned /\ chunksize(h, n) \in Aligned
    BY HeadFields
  <2>2. chunksize(h, p) = s[p].size /\ chunksize(h, n) = s[n].size
    BY <1>1, <1>2, SizeIs
  <2> QED BY <2>1, <2>2, EvenSums DEF Good
<1> HIDE DEF size
<1>8. d \in Good /\ d \in Heaps /\ Shape(d) = Del(s, n) /\ HeadsOnly(h, d)
  BY <1>7, DropKeeps, DropIs DEF Good
<1> HIDE DEF d
<1>9. k \in Good /\ k \in Heaps /\ Shape(k) = Upd(Shape(d), p, Plain(size)) /\ HeadsOnly(d, k)
  BY <1>7, <1>8, HeadsKeep, HeadIsSet DEF Good
<1> HIDE DEF k
<1>10. m \in Good
  BY <1>9, OtherFields
<1>11. Shape(m) = Shape(k) /\ m.top = p /\ ListsStay(k, m)
  BY <1>9, TopMoves
<1> HIDE DEF m
<1>12. Shape(m) = Upd(Del(s, n), p, Plain(size)) /\ ListsStay(h, m)
  BY <1>8, <1>9, <1>11 DEF HeadsOnly, ListsStay
<1>13. Covers(s, C, p, z)
  <2>1. Covers(s, {p}, p, n)
    BY <1>1, <1>5, OneCovers
  <2>2. Covers(s, {n}, n, z)
    BY <1>2, <1>4, <1>5, <1>6, OneCovers
  <2>3. p <= n /\ n <= z /\ C = {p} \union {n}
    BY <1>1, <1>3, <1>4, <1>6 DEF MINSIZE, SIZE_SZ
  <2> QED BY <1>1, <1>3, <1>6, <2>1, <2>2, <2>3, TwoCover
<1>14. Gathers(h, m, H, H \ {p}, C, p, z)
  <2>1. DOMAIN Shape(m) = (DOMAIN s \ C) \union {p} /\ (\A x \in DOMAIN s \ C : Shape(m)[x] = s[x]) /\ Shape(m)[p] = Plain(size)
    BY <1>1, <1>12 DEF Upd, Del
  <2>2. z - p = size /\ z - p >= MINSIZE
    BY <1>1, <1>6
  <2>3. H \ {p} = H \ C
    BY <1>4
  <2>4. h.top \in C
    OBVIOUS
  <2> QED BY <1>1, <1>2, <1>3, <1>4, <1>6, <1>11, <1>12, <1>13, <2>1, <2>2, <2>3, <2>4 DEF Gathers
<1>15. Layout(m, H \ {p}, F)
  BY <1>14, Gathered
<1> QED BY <1>10, <1>11, <1>12, <1>15 DEF size, n

(* realloc into top keeps the layout. *)
LEMMA ResizedIntoTop ==
  ASSUME NEW H \in SUBSET Int, NEW F, NEW h \in Sound(H, F), NEW p \in H, p \in Aligned, NEW nb \in Chunky, NEW next, NEW size,
         ~h.aborted => ~Shape(h)[p].mapped, next = next_chunk(h, p), next = h.top, size = chunksize(h, p) + chunksize(h, next),
         size >= nb + MINSIZE
  PROVE  Replaces(IntoTop(h, p, next, size, nb), h, H, F, p, p, nb)
<1> DEFINE g == IntoTop(h, p, next, size, nb)
           B == H \ {p}
<1>1. h \in Good /\ (~h.aborted => Layout(h, H, F)) /\ nb \in Aligned /\ nb >= MINSIZE /\ nb \in Int /\ p \in Int
  BY SoundIs DEF Chunky, Aligned
<1>2. chunksize(h, p) \in Aligned /\ chunksize(h, next) \in Aligned /\ next \in Aligned
  BY <1>1, HeadFields
<1>3. size \in Aligned /\ size \in Int
  BY <1>2, EvenSums DEF Aligned
<1>4. CASE h.aborted
  <2>1. g \in Good /\ g.aborted
    <3>1. CASE p = h.top
      <4>1. Drop(h, next) \in Good
        BY <1>1, DropKeeps
      <4>2. set_head_size(Drop(h, next), p, nb) \in Good
        BY <1>1, <4>1, HeadsKeep
      <4>3. p + nb \in Aligned /\ size - nb \in Aligned
        BY <1>1, <1>3, EvenSums
      <4> DEFINE k == set_head_size(Drop(h, next), p, nb)
                 y == set_head(k, p + nb, size - nb)
      <4>4. k.aborted
        BY <1>1, <1>4, <4>1 DEF Good, Heaps, Drop, set_head_size, Put
      <4> HIDE DEF k
      <4>5. y \in Good
        BY <4>2, <4>3, HeadsKeep DEF k
      <4>6. y.aborted
        BY <4>2, <4>4 DEF k, Good, Heaps, set_head, Put
      <4>7. g = [y EXCEPT !.top = p + nb]
        BY DEF IntoTop, k
      <4> HIDE DEF y, g
      <4>8. g \in Good
        BY <4>3, <4>5, <4>7, OtherFields
      <4>9. g.aborted
        BY <4>5, <4>6, <4>7 DEF Good, Heaps
      <4> QED BY <4>8, <4>9
    <3>2. CASE p # h.top
      BY <1>1, <1>3, <1>4, <3>2, IntoTopIs
    <3> QED BY <3>1, <3>2
  <2> HIDE DEF g
  <2>2. g \in Later(h, (H \ {p}) \union {p}, F, H \ {p})
    BY <2>1, AbortedIsLater
  <2> QED BY <2>1, <2>2 DEF Replaces, g
<1>5. CASE ~h.aborted
  <2> DEFINE s == Shape(h)
  <2>1. Layout(h, H, F) /\ ~s[p].mapped
    BY <1>1, <1>5
  <2>2. p \in DOMAIN s /\ p # h.top /\ Followed(s, p)
    BY <2>1, InHand
  <2>3. next \in DOMAIN s /\ p + s[p].size = h.top /\ size = s[p].size + s[h.top].size /\ ~mmapped(h, p)
    <3>1. chunksize(h, p) = s[p].size /\ ~mmapped(h, p)
      BY <2>1, <2>2, SizeIs
    <3>2. p + s[p].size = next
      BY <3>1 DEF next_chunk
    <3>3. next \in DOMAIN s
      BY <2>2, <3>2 DEF Followed
    <3>4. chunksize(h, next) = s[next].size
      BY <3>3, SizeIs
    <3> QED BY <3>1, <3>2, <3>3, <3>4
  <2>4. g \in Good /\ g.aborted = h.aborted /\ GrewIntoTop(h, g, p, nb, size)
    BY <1>1, <1>3, <2>2, <2>3, IntoTopIs
  <2>5. PICK m \in Good : /\ Layout(m, H \ {p}, F) /\ ListsStay(h, m) /\ m.top = p
                          /\ Shape(m) = Upd(Del(s, h.top), p, Plain(s[p].size + s[h.top].size))
    BY <1>1, <2>1, <2>3, TopTaken
  <2> DEFINE t == Shape(m)
             q == p + nb
  <2> HIDE DEF g, s
  <2>6. t = Upd(Del(s, h.top), p, Plain(size))
    BY <2>3, <2>5
  <2>7. Shape(g) = Upd(Upd(Del(s, h.top), p, Plain(nb)), q, Plain(size - nb)) /\ ListsStay(h, g) /\ g.top = q
    BY <2>4 DEF GrewIntoTop, s
  <2>8. q # p /\ size - nb >= MINSIZE /\ q \in Int
    BY <1>1, <1>3 DEF MINSIZE, SIZE_SZ
  <2>9. p # 0
    <3>1. p > 0
      BY <2>1, <2>2, NotZero DEF s
    <3> QED BY <1>1, <3>1
  <2>10. PartsTop(m, g, B, H, p, nb)
    <3>1. t[p] = Plain(size) /\ t[p].size = size /\ p \in DOMAIN t
      BY <2>6 DEF Upd, Plain
    <3>2. DOMAIN Shape(g) = DOMAIN t \union {q}
      BY <2>6, <2>7 DEF Upd
    <3>3. ASSUME NEW x \in DOMAIN t \ {p}, x # q PROVE Shape(g)[x] = t[x]
      BY <2>6, <2>7, <3>3 DEF Upd
    <3>4. Shape(g)[p] = Plain(nb) /\ Shape(g)[q] = Plain(size - nb)
      BY <2>7, <2>8 DEF Upd
    <3>5. ListsStay(m, g)
      BY <2>5, <2>7 DEF ListsStay
    <3>6. H = B \union {p}
      OBVIOUS
    <3> QED BY <1>1, <2>5, <2>7, <2>8, <2>9, <3>1, <3>2, <3>3, <3>4, <3>5, <3>6 DEF PartsTop
  <2>11. Layout(g, H, F) /\ q \notin DOMAIN t
    <3>1. Layout(m, B, F) /\ B \in SUBSET Int
      BY <2>5
    <3> HIDE DEF B
    <3> QED BY <2>10, <3>1, PartedTop
  <2>12. ASSUME NEW x \in B, x \in DOMAIN s PROVE x \in DOMAIN Shape(g) /\ Shape(g)[x] = s[x]
    <3>1. x # p /\ x # h.top
      <4>1. x \in H
        BY <2>12
      <4>2. x # h.top
        BY <2>1, <4>1, InHand
      <4> QED BY <2>12, <4>2
    <3>2. x \in DOMAIN t /\ t[x] = s[x]
      BY <2>6, <2>12, <3>1 DEF Upd, Del
    <3>3. x # q
      BY <2>11, <3>2
    <3> QED BY <2>7, <2>12, <3>1, <3>3 DEF Upd, Del
  <2>13. B \union {p} = H /\ p \notin B
    OBVIOUS
  <2> HIDE DEF B
  <2>14. Same(h, g, B)
    BY <2>12 DEF Same, s
  <2>15. g \in Later(h, H, F, B)
    BY <1>5, <2>4, <2>11, <2>14 DEF Later, Sound
  <2>16. Fits(g, p, nb)
    BY <1>1, <2>7, <2>8 DEF Fits, Upd, Plain
  <2> QED BY <2>13, <2>15, <2>16 DEF Replaces, B, g
<1> QED BY <1>4, <1>5

(* The old chunk is freed when the new one is elsewhere. *)
LEMMA FreedAfterMove ==
  ASSUME NEW H \in SUBSET Int, NEW F, NEW h \in Sound(H, F), NEW p \in H, p \in Aligned, NEW nb \in Chunky, NEW q \in Aligned,
         NEW k, k \in Reach(h, H \union {q}, F, H), ~k.aborted => q \notin H /\ Fits(k, q, nb),
         ~h.aborted => ~Shape(h)[p].mapped /\ Shape(h)[p].size < nb
  PROVE  /\ Replaces(int_free(k, p), h, H, F, p, q, nb)
         /\ ~int_free(k, p).aborted => Usable(Shape(h)[p]) <= Usable(Shape(int_free(k, p))[q])
<1> DEFINE g == int_free(k, p)
           K == H \union {q}
           L == (H \ {p}) \union {q}
           B == H \ {p}
<1>1. q \in Int /\ p \in Int /\ nb \in Int /\ K \in SUBSET Int /\ p \in K
  BY DEF Aligned, Chunky
<1>2. k \in Sound(K, F) /\ k \in Good /\ (~k.aborted => ~h.aborted /\ Layout(k, K, F) /\ Same(h, k, H))
  BY ReachIs DEF Same
<1>3. ~k.aborted => p \in DOMAIN Shape(h) /\ p \in DOMAIN Shape(k) /\ Shape(k)[p] = Shape(h)[p]
  BY <1>1, <1>2, SoundIs, InHand DEF Same
<1>4. g \in Reach(k, K \ {p}, F, K \ {p})
  <2>1. ~k.aborted => ~Shape(k)[p].mapped
    BY <1>2, <1>3
  <2> HIDE DEF K
  <2> QED BY <1>1, <1>2, <2>1, FreeIsSound
<1> HIDE DEF g
<1>5. g \in Good
  BY <1>4, ReachIs
<1>6. CASE g.aborted
  <2>1. g \in Later(h, L, F, B)
    BY <1>5, <1>6, AbortedIsLater
  <2> QED BY <1>6, <2>1 DEF Replaces, g
<1>7. CASE ~g.aborted
  <2>1. ~k.aborted /\ Same(k, g, K \ {p})
    BY <1>4, <1>7, ReachIs DEF Same
  <2>2. ~h.aborted /\ q \notin H /\ Fits(k, q, nb) /\ p # q
    BY <1>2, <2>1
  <2>3. K \ {p} = L /\ B \subseteq L /\ B \subseteq H
    BY <2>2
  <2>4. q \in L
    OBVIOUS
  <2>5. Fits(g, q, nb)
    BY <2>1, <2>2, <2>3, <2>4 DEF Fits, Same
  <2> HIDE DEF K, L
  <2>6. g \in Reach(k, L, F, L)
    BY <1>4, <2>3
  <2>7. g \in Reach(k, L, F, B)
    BY <2>3, <2>6, ReachLess
  <2>8. k \in Reach(h, K, F, H)
    BY DEF K
  <2>9. g \in Reach(h, L, F, B)
    <3>1. B \subseteq B /\ k \in Reach(h, K, F, B)
      BY <2>3, <2>8, ReachLess
    <3> HIDE DEF B
    <3> QED BY <2>7, <3>1, ReachTwice
  <2>10. g \in Later(h, L, F, B)
    BY <2>9, ReachIsLater
  <2>11. Replaces(g, h, H, F, p, q, nb)
    BY <2>2, <2>5, <2>10 DEF Replaces, L
  <2>12. Usable(Shape(h)[p]) <= Usable(Shape(g)[q])
    <3>1. g \in Sound(L, F)
      BY <2>9, ReachIs
    <3>2. Usable(Shape(g)[q]) \in Int /\ Usable(Shape(g)[q]) >= nb - SIZE_SZ
      BY <1>1, <1>7, <2>5, <3>1, FitsHasRoom
    <3>3. ~Shape(h)[p].mapped /\ Shape(h)[p].size < nb
      BY <2>2
    <3>4. Shape(h)[p].size \in Int
      <4>1. Sized(Shape(h))
        BY <2>2, SoundIs DEF Layout, Ground
      <4> QED BY <1>3, <2>1, <4>1 DEF Sized
    <3>5. Usable(Shape(h)[p]) = Shape(h)[p].size - SIZE_SZ
      BY <3>3 DEF Usable
    <3> QED BY <1>1, <3>2, <3>3, <3>4, <3>5 DEF SIZE_SZ
  <2> QED BY <2>11, <2>12 DEF g
<1> QED BY <1>6, <1>7

(* A new chunk is allocated for p. *)
LEMMA CopyIsSound ==
  ASSUME NEW H \in SUBSET Int, NEW F, NEW h \in Sound(H, F), NEW p \in H, p \in Aligned, NEW nb \in Chunky,
         NEW a \in Gives(h, H, F, nb), chunksize(h, p) < nb, ~h.aborted => ~Shape(h)[p].mapped
  PROVE  Regrants(CopyChunk(h, p, a, nb), h, H, F, p, nb)
<1> DEFINE all == Carried(chunksize(h, p))
           next == next_chunk(h, p)
           size == chunksize(h, p) + chunksize(a.h, next)
           q == a.p
           k == a.h
<1>1. /\ k \in Good /\ q \in Aligned \union {NULL}
      /\ q = NULL => k \in Reach(h, H, F, H)
      /\ q # NULL => q \in Aligned /\ q \in Int /\ k \in Reach(h, H \union {q}, F, H)
      /\ ~k.aborted /\ q # NULL => q \notin H /\ Fits(k, q, nb)
  BY GivesIs
<1>2. CopyChunk(h, p, a, nb) = IF q = NULL THEN Refused(k)
                               ELSE IF q # next THEN Moves(int_free(k, p), q, all)
                               ELSE Stays(Joined(k, p, next, size, nb), p, all)
  BY DEF CopyChunk
<1>3. ~h.aborted => /\ Shape(h)[p].size < nb /\ Shape(h)[p].size = chunksize(h, p) /\ all = Usable(Shape(h)[p])
                    /\ p \in DOMAIN Shape(h) /\ next = p + Shape(h)[p].size /\ ~Shape(h)[p].mapped
  <2> SUFFICES ASSUME ~h.aborted
               PROVE  /\ Shape(h)[p].size < nb /\ Shape(h)[p].size = chunksize(h, p) /\ all = Usable(Shape(h)[p])
                      /\ p \in DOMAIN Shape(h) /\ next = p + Shape(h)[p].size /\ ~Shape(h)[p].mapped
    OBVIOUS
  <2>1. p \in DOMAIN Shape(h) /\ ~Shape(h)[p].mapped
    BY SoundIs, InHand
  <2>2. chunksize(h, p) = Shape(h)[p].size
    BY <2>1, SizeIs
  <2> QED BY <2>1, <2>2 DEF Carried, Usable, next_chunk
<1>4. h \in Good /\ chunksize(h, p) \in Aligned /\ next \in Aligned /\ chunksize(k, next) \in Aligned /\ size \in Aligned
  BY <1>1, SoundIs, HeadFields, EvenSums
<1> HIDE DEF all, next, q, k
<1>5. CASE q = NULL
  <2>1. k \in Later(h, H, F, H)
    BY <1>1, <1>5, ReachIsLater
  <2>2. Regrants(Refused(k), h, H, F, p, nb)
    BY <2>1, RefusedRegrants
  <2> QED BY <1>2, <1>5, <2>2
<1>6. CASE q # NULL /\ q # next
  <2>1. /\ Replaces(int_free(k, p), h, H, F, p, q, nb)
        /\ ~int_free(k, p).aborted => Usable(Shape(h)[p]) <= Usable(Shape(int_free(k, p))[q])
    BY <1>1, <1>3, <1>6, FreedAfterMove
  <2> DEFINE g == int_free(k, p)
  <2> HIDE DEF g
  <2>2. Replaces(g, h, H, F, p, q, nb) /\ (~g.aborted => Usable(Shape(h)[p]) <= Usable(Shape(g)[q]))
    BY <2>1 DEF g
  <2>3. ~g.aborted => all = Usable(Shape(h)[p]) /\ all <= Usable(Shape(g)[q])
    BY <1>3, <2>2 DEF Replaces, Later
  <2>4. Regrants(Moves(g, q, all), h, H, F, p, nb)
    BY <1>1, <1>6, <2>2, <2>3, MovesRegrants
  <2> QED BY <1>2, <1>6, <2>4 DEF g
<1>7. CASE q # NULL /\ q = next
  <2> DEFINE K == H \union {next}
             g == Joined(k, p, next, size, nb)
  <2>1. K \in SUBSET Int /\ p \in K /\ k \in Reach(h, K, F, H) /\ p \in Int /\ next \in Int
    BY <1>1, <1>7
  <2>2. ~k.aborted => /\ next \notin H /\ next = p + Shape(k)[p].size /\ size = Shape(k)[p].size + Shape(k)[next].size
                      /\ ~Shape(k)[p].mapped /\ ~Shape(k)[next].mapped /\ size >= nb
    <3> SUFFICES ASSUME ~k.aborted
                 PROVE  /\ next \notin H /\ next = p + Shape(k)[p].size /\ size = Shape(k)[p].size + Shape(k)[next].size
                        /\ ~Shape(k)[p].mapped /\ ~Shape(k)[next].mapped /\ size >= nb
      OBVIOUS
    <3> HIDE DEF K
    <3>1. Layout(k, K, F) /\ ~h.aborted /\ Same(h, k, H) /\ next \notin H /\ Fits(k, next, nb)
      BY <1>1, <1>7, <2>1, ReachIs DEF Same
    <3>2. Shape(k)[p] = Shape(h)[p]
      BY <1>3, <3>1 DEF Same
    <3>3. next = p + Shape(k)[p].size /\ ~Shape(k)[p].mapped /\ chunksize(h, p) = Shape(k)[p].size
      BY <1>3, <3>1, <3>2
    <3>4. Followed(Shape(k), p)
      BY <2>1, <3>1, <3>3, InHand
    <3>5. next \in DOMAIN Shape(k) /\ ~Shape(k)[next].mapped
      BY <3>3, <3>4 DEF Followed
    <3>6. chunksize(k, next) = Shape(k)[next].size
      BY <3>5, SizeIs
    <3>7. Shape(k)[p].size > 0 /\ Shape(k)[p].size \in Int /\ Shape(k)[next].size \in Int /\ Shape(k)[next].size >= nb
      <4>1. Sized(Shape(k)) /\ p \in DOMAIN Shape(k)
        BY <2>1, <3>1, InHand DEF Layout, Ground
      <4> QED BY <3>1, <3>5, <4>1 DEF Sized, Fits
    <3>8. nb \in Int /\ size = Shape(k)[p].size + Shape(k)[next].size
      <4>1. size = chunksize(h, p) + chunksize(k, next)
        BY DEF k
      <4> QED BY <3>3, <3>6, <4>1 DEF Chunky, Aligned
    <3>9. size >= nb
      BY <3>7, <3>8
    <3> QED BY <3>1, <3>3, <3>5, <3>8, <3>9
  <2>3. k \in Sound(H \union {next}, F)
    BY <2>1, ReachIs
  <2> HIDE DEF size, K
  <2>4. KeepsRoom(k, g, H, F, p, nb)
    BY <1>4, <2>2, <2>3, JoinedIsSound
  <2> HIDE DEF g
  <2>5. k \in Reach(h, K, F, H \ {p})
    BY <2>1, ReachLess
  <2>6. Replaces(g, h, H, F, p, p, nb)
    BY <2>4, <2>5, KeepsReplaces
  <2>7. ~g.aborted => all = Usable(Shape(h)[p])
    BY <1>3, <2>6 DEF Replaces, Later
  <2>8. Regrants(Stays(g, p, all), h, H, F, p, nb)
    BY <2>6, <2>7, StaysRegrants
  <2> QED BY <1>2, <1>7, <2>8 DEF g
<1> QED BY <1>5, <1>6, <1>7

(* realloc of a chunk of the heap. *)
LEMMA ResizedIsSound ==
  ASSUME NEW H \in SUBSET Int, NEW F, NEW h \in Sound(H, F), NEW p \in H, p \in Aligned, NEW nb \in Chunky,
         ~h.aborted => ~Shape(h)[p].mapped
  PROVE  Regrants(Resized(h, p, nb), h, H, F, p, nb)
<1> DEFINE oldsize == chunksize(h, p)
           next == next_chunk(h, p)
           both == oldsize + chunksize(h, next)
           all == Carried(oldsize)
<1>1. Resized(h, p, nb) =
        IF oldsize >= nb THEN Stays(GiveBackTail(h, p, oldsize, nb), p, all)
        ELSE IF next = h.top /\ both >= nb + MINSIZE THEN Stays(IntoTop(h, p, next, both, nb), p, all)
        ELSE IF next # h.top /\ ~inuse(h, next) /\ both >= nb THEN
          Stays(Joined(unlink_chunk(h, next), p, next, both, nb), p, all)
        ELSE CopyChunk(h, p, int_malloc(h, nb), nb)
  BY DEF Resized, IntoTop
<1>2. ~h.aborted => all = Usable(Shape(h)[p])
  <2> SUFFICES ASSUME ~h.aborted PROVE all = Usable(Shape(h)[p])
    OBVIOUS
  <2>1. p \in DOMAIN Shape(h) /\ ~Shape(h)[p].mapped
    BY SoundIs, InHand
  <2>2. chunksize(h, p) = Shape(h)[p].size
    BY <2>1, SizeIs
  <2> QED BY <2>1, <2>2 DEF Carried, Usable
<1>3. ASSUME NEW g, Replaces(g, h, H, F, p, p, nb)
      PROVE  Regrants(Stays(g, p, all), h, H, F, p, nb)
  <2>1. ~g.aborted => all = Usable(Shape(h)[p])
    BY <1>2, <1>3 DEF Replaces, Later
  <2> HIDE DEF all
  <2> QED BY <1>3, <2>1, StaysRegrants
<1>4. CASE oldsize >= nb
  <2>1. Replaces(GiveBackTail(h, p, chunksize(h, p), nb), h, H, F, p, p, nb)
    BY <1>4, ResizedInPlace
  <2> QED BY <1>1, <1>3, <1>4, <2>1
<1>5. CASE ~(oldsize >= nb) /\ next = h.top /\ both >= nb + MINSIZE
  <2> DEFINE g == IntoTop(h, p, next, both, nb)
  <2>1. Replaces(g, h, H, F, p, p, nb)
    <3>1. both = chunksize(h, p) + chunksize(h, next) /\ next = next_chunk(h, p)
      OBVIOUS
    <3> HIDE DEF both, next
    <3> QED BY <1>5, <3>1, ResizedIntoTop
  <2> HIDE DEF g, all
  <2>2. Regrants(Stays(g, p, all), h, H, F, p, nb)
    BY <1>3, <2>1
  <2> QED BY <1>1, <1>5, <2>2 DEF g
<1>6. CASE ~(oldsize >= nb) /\ ~(next = h.top /\ both >= nb + MINSIZE) /\ next # h.top /\ ~inuse(h, next) /\ both >= nb
  <2> DEFINE g == Joined(unlink_chunk(h, next), p, next, both, nb)
  <2>1. Replaces(g, h, H, F, p, p, nb)
    BY <1>6, ResizedForth
  <2> HIDE DEF g, all
  <2>2. Regrants(Stays(g, p, all), h, H, F, p, nb)
    BY <1>3, <2>1
  <2> QED BY <1>1, <1>6, <2>2 DEF g
<1>7. CASE ~(oldsize >= nb) /\ ~(next = h.top /\ both >= nb + MINSIZE) /\ ~(next # h.top /\ ~inuse(h, next) /\ both >= nb)
  <2> DEFINE a == int_malloc(h, nb)
  <2>1. a \in Gives(h, H, F, nb)
    BY MallocIsSound
  <2>2. chunksize(h, p) < nb
    <3>1. chunksize(h, p) \in Int /\ nb \in Int
      BY SoundIs, HeadFields DEF Aligned, Chunky
    <3> QED BY <1>7, <3>1
  <2> HIDE DEF a
  <2>3. Regrants(CopyChunk(h, p, a, nb), h, H, F, p, nb)
    BY <2>1, <2>2, CopyIsSound
  <2> QED BY <1>1, <1>7, <2>3 DEF a
<1> QED BY <1>4, <1>5, <1>6, <1>7

(* _int_realloc keeps the layout, and its answer keeps realloc's promise. *)
LEMMA IntReallocIsSound ==
  ASSUME NEW H \in SUBSET Int, NEW F, NEW h \in Sound(H, F), NEW p \in H, p \in Aligned, NEW nb \in Chunky,
         ~h.aborted => ~Shape(h)[p].mapped
  PROVE  Regrants(int_realloc(h, p, nb), h, H, F, p, nb)
<1> DEFINE ok == NomaskExceeds(h, p, CHUNK_HDR_SZ) /\ chunksize(h, p) < h.system_mem /\ NextIsSane(h, p)
           c == Check(h, ok)
<1>1. int_realloc(h, p, nb) = Resized(c, p, nb)
  BY DEF int_realloc
<1> HIDE DEF ok
<1>2. c \in Reach(h, H, F, H) /\ c \in Sound(H, F) /\ (~c.aborted => ~h.aborted /\ c = h)
  BY CheckReaches
<1> HIDE DEF c
<1>3. c \in Later(h, H, F, H)
  BY <1>2, ReachIsLater
<1>4. ~c.aborted => ~Shape(c)[p].mapped
  BY <1>2
<1>5. Regrants(Resized(c, p, nb), c, H, F, p, nb)
  BY <1>2, <1>4, ResizedIsSound
<1>6. Regrants(Resized(c, p, nb), h, H, F, p, nb)
  <2> DEFINE a == Resized(c, p, nb)
  <2> HIDE DEF a
  <2>1. Regrants(a, c, H, F, p, nb)
    BY <1>5 DEF a
  <2>2. Regrants(a, h, H, F, p, nb)
    BY <1>3, <2>1, RegrantsOnward
  <2> QED BY <2>2 DEF a
<1> QED BY <1>1, <1>6

(* So does realloc of a chunk of the heap, with the cache made first. *)
LEMMA ReallocHeldIsSound ==
  ASSUME NEW H \in SUBSET Int, NEW F, NEW h \in Sound(H, F), NEW p \in H, p \in Aligned, NEW bytes \in Int,
         ~h.aborted => ~Shape(h)[p].mapped
  PROVE  Regrants(ReallocHeld(tcache_init(h), p, bytes), h, H, F, p, request2size(bytes))
<1> DEFINE g == tcache_init(h)
           nb == request2size(bytes)
           a == ReallocHeld(g, p, bytes)
<1>1. g \in Later(h, H, F, H)
  BY TcacheInitIsSound
<1>2. nb \in Chunky
  BY RequestIsChunky
<1> HIDE DEF g
<1>3. g \in Sound(H, F) /\ (~g.aborted => ~h.aborted /\ Same(h, g, H))
  BY <1>1, LaterIs
<1>4. ~g.aborted => ~Shape(g)[p].mapped
  <2> SUFFICES ASSUME ~g.aborted PROVE ~Shape(g)[p].mapped
    OBVIOUS
  <2>1. p \in DOMAIN Shape(h)
    BY <1>3, SoundIs, InHand
  <2> QED BY <1>3, <2>1 DEF Same
<1>5. Regrants(a, g, H, F, p, nb)
  <2>1. CASE Representable(bytes)
    <3>1. a = int_realloc(g, p, nb)
      BY <2>1 DEF ReallocHeld
    <3> HIDE DEF a, nb
    <3>2. Regrants(int_realloc(g, p, nb), g, H, F, p, nb)
      BY <1>2, <1>3, <1>4, IntReallocIsSound
    <3> QED BY <3>1, <3>2
  <2>2. CASE ~Representable(bytes)
    <3>1. a = Refused(g)
      BY <2>2 DEF ReallocHeld
    <3>2. g \in Later(g, H, F, H)
      BY <1>3, StayLater
    <3> HIDE DEF a, nb
    <3>3. Regrants(Refused(g), g, H, F, p, nb)
      BY <3>2, RefusedRegrants
    <3> QED BY <3>1, <3>3
  <2> QED BY <2>1, <2>2
<1> HIDE DEF a, nb
<1>6. Regrants(a, h, H, F, p, nb)
  BY <1>1, <1>5, RegrantsOnward
<1> QED BY <1>6 DEF a, nb, g

(* Disjoint from all the mappings but its own, a mapping of n words at a. *)
LEMMA OwnRoom ==
  ASSUME NEW s, NEW brk, NEW maps, NEW F, Kernel(s, brk, maps, F), NEW a, NEW n, <<a, n>> \in maps
  PROVE  /\ a \in Int /\ n \in Int /\ a >= MmapFloor /\ n > 0
         /\ \A r \in maps \ {<<a, n>>} : a + n <= r[1] \/ r[1] + r[2] <= a
<1>1. /\ \A r \in maps : r[1] \in Int /\ r[2] \in Int /\ r[1] >= MmapFloor /\ r[2] > 0
      /\ \A r, q \in maps : \A x \in Int : x \in Region(r[1], r[2]) /\ x \in Region(q[1], q[2]) => r = q
  BY DEF Kernel
<1> DEFINE o == <<a, n>>
<1>2. o[1] = a /\ o[2] = n /\ o \in maps
  OBVIOUS
<1> HIDE DEF o
<1>3. a \in Int /\ n \in Int /\ a >= MmapFloor /\ n > 0
  BY <1>1, <1>2
<1>4. ASSUME NEW r \in maps \ {o} PROVE a + n <= r[1] \/ r[1] + r[2] <= a
  <2> SUFFICES ASSUME a + n > r[1], r[1] + r[2] > a PROVE FALSE
    BY <1>1, <1>3
  <2>1. r[1] \in Int /\ r[2] \in Int /\ r[2] > 0
    BY <1>1
  <2> DEFINE x == IF a >= r[1] THEN a ELSE r[1]
  <2>2. x \in Int /\ a <= x /\ x < a + n /\ r[1] <= x /\ x < r[1] + r[2]
    BY <1>3, <2>1
  <2> HIDE DEF x
  <2>3. x \in Region(a, n) /\ x \in Region(r[1], r[2])
    BY <1>3, <2>1, <2>2 DEF Region
  <2>4. r = o
    BY <1>1, <1>2, <2>2, <2>3
  <2> QED BY <2>4
<1> QED BY <1>3, <1>4 DEF o

(* A mapping is lost and another taken at once. *)
LEMMA MremapIs ==
  ASSUME NEW h \in Good, NEW a \in Aligned, NEW n \in Int, NEW m \in Int, a >= MmapFloor,
         \A r \in h.maps \ {<<a, n>>} : a + n <= r[1] \/ r[1] + r[2] <= a
  PROVE  Mremap(h, a, n, m).at # Failed => Mapped(Munmap(h, a, n), Mremap(h, a, n, m).h, Mremap(h, a, n, m).at, m)
<1> DEFINE w == Munmap(h, a, n)
           fits == a + m <= MmapTop /\ \A r \in w.maps : a + m <= r[1] \/ r[1] + r[2] <= a
           b == Max(Room(h, m))
<1>1. Mremap(h, a, n, m) =
        IF m <= n \/ fits THEN [h |-> [w EXCEPT !.maps = w.maps \union {<<a, m>>}], at |-> a]
        ELSE IF Room(h, m) = {} THEN [h |-> h, at |-> Failed]
        ELSE [h |-> [w EXCEPT !.maps = w.maps \union {<<b, m>>}], at |-> b]
  BY DEF Mremap, Munmap
<1>2. w.maps = h.maps \ {<<a, n>>} /\ w.maps \subseteq h.maps /\ h.maps \in SUBSET (Int \X Int)
  BY DEF Munmap, Good, Heaps
<1>3. w \in Good
  BY MunmapKeeps
<1> HIDE DEF w
<1>4. w \in Heaps /\ a \in Int
  BY <1>3 DEF Good, Aligned
<1>5. ASSUME NEW x \in Int, x >= MmapFloor, \A r \in w.maps : x + m <= r[1] \/ r[1] + r[2] <= x
      PROVE  Mapped(w, [w EXCEPT !.maps = w.maps \union {<<x, m>>}], x, m)
  BY <1>4, <1>5 DEF Mapped, SameLists, Heaps
<1>6. ASSUME m <= n \/ fits PROVE \A r \in w.maps : a + m <= r[1] \/ r[1] + r[2] <= a
  <2>1. CASE fits
    BY <2>1
  <2>2. CASE m <= n
    <3> SUFFICES ASSUME NEW r \in w.maps PROVE a + m <= r[1] \/ r[1] + r[2] <= a
      OBVIOUS
    <3>1. r[1] \in Int /\ r[2] \in Int /\ (a + n <= r[1] \/ r[1] + r[2] <= a)
      BY <1>2
    <3> QED BY <1>4, <2>2, <3>1
  <2> QED BY <1>6, <2>1, <2>2
<1>7. ASSUME Room(h, m) # {} PROVE b \in Int /\ b >= MmapFloor /\ \A r \in w.maps : b + m <= r[1] \/ r[1] + r[2] <= b
  <2> DEFINE R == Room(h, m)
  <2>1. R \in SUBSET Int /\ MmapTop - m \in Int /\ \A x \in R : x <= MmapTop - m
    BY PtAssumption DEF Room
  <2>2. b \in R
    <3> HIDE DEF R
    <3> QED BY <1>7, <2>1, MaxProperties DEF R
  <2>3. \A x \in R : x \in Int /\ x >= MmapFloor /\ \A r \in h.maps : x + m <= r[1] \/ r[1] + r[2] <= x
    BY <2>1, PtAssumption DEF Room
  <2> HIDE DEF R, b
  <2> QED BY <1>2, <2>2, <2>3
<1> HIDE DEF fits, b
<1>8. CASE m <= n \/ fits
  <2>1. Mapped(w, [w EXCEPT !.maps = w.maps \union {<<a, m>>}], a, m)
    BY <1>4, <1>5, <1>6, <1>8
  <2> QED BY <1>1, <1>8, <2>1 DEF w
<1>9. CASE ~(m <= n \/ fits)
  <2>1. CASE Room(h, m) = {}
    BY <1>1, <1>9, <2>1
  <2>2. CASE Room(h, m) # {}
    <3>1. Mapped(w, [w EXCEPT !.maps = w.maps \union {<<b, m>>}], b, m)
      BY <1>5, <1>7, <2>2
    <3> QED BY <1>1, <1>9, <2>2, <3>1 DEF w
  <2> QED BY <2>1, <2>2
<1> QED BY <1>8, <1>9

(* mremap is no check. *)
LEMMA MremapAborts ==
  ASSUME NEW h \in Good, NEW a, NEW n, NEW m
  PROVE  Mremap(h, a, n, m).h.aborted = h.aborted
<1> DEFINE w == Munmap(h, a, n)
           fits == a + m <= MmapTop /\ \A r \in w.maps : a + m <= r[1] \/ r[1] + r[2] <= a
           b == Max(Room(h, m))
<1>1. Mremap(h, a, n, m) =
        IF m <= n \/ fits THEN [h |-> [w EXCEPT !.maps = w.maps \union {<<a, m>>}], at |-> a]
        ELSE IF Room(h, m) = {} THEN [h |-> h, at |-> Failed]
        ELSE [h |-> [w EXCEPT !.maps = w.maps \union {<<b, m>>}], at |-> b]
  BY DEF Mremap, Munmap
<1>2. w \in Heaps /\ w.aborted = h.aborted
  <2>1. w \in Good
    BY MunmapKeeps
  <2> QED BY <2>1 DEF Munmap, Good, Heaps
<1> HIDE DEF w, fits, b
<1>3. ASSUME NEW x PROVE [w EXCEPT !.maps = x].aborted = h.aborted
  BY <1>2 DEF Heaps
<1> QED BY <1>1, <1>3

(* A mapping that moves or changes its size, with the chunk in it. *)
Relocates(h, d, w, m, k, p, ms) ==
  LET o == Shape(h)[p].off
      a == p - o
      n == o + Shape(h)[p].size
  IN /\ Shape(d) = Del(Shape(h), p) /\ HeadsOnly(h, d) /\ w = Munmap(d, a, n)
     /\ Mapped(w, m.h, m.at, ms) /\ ms \in Int /\ o < ms
     /\ Shape(k) = Upd(Shape(m.h), m.at + o, Mapping(ms, o)) /\ HeadsOnly(m.h, k)

Relocated(h, H, F, p, m, k, ms) ==
  LET o == Shape(h)[p].off
      q == m.at + o
  IN /\ Layout(k, (H \ {p}) \union {q}, F) /\ q \notin H \ {p}
     /\ q \in DOMAIN Shape(k) /\ Shape(k)[q] = Mapping(ms, o)
     /\ Same(h, k, H \ {p}) /\ k.aborted = h.aborted

(* A mapping that the kernel moves or resizes, with its chunk, keeps the   *)
(* layout.                                                                 *)
LEMMA RelocatedIsSound ==
  ASSUME NEW h \in Good, NEW H \in SUBSET Int, NEW F, NEW p \in H, Layout(h, H, F), Shape(h)[p].mapped,
         NEW d \in Good, NEW w, NEW m, NEW k, NEW ms, Relocates(h, d, w, m, k, p, ms)
  PROVE  Relocated(h, H, F, p, m, k, ms)
<1> DEFINE s == Shape(h)
           o == s[p].off
           a == p - o
           n == o + s[p].size
           B == H \ {p}
           q == m.at + o
           G == F \union Region(m.at, ms)
<1>1. /\ Shape(d) = Del(s, p) /\ HeadsOnly(h, d) /\ w = Munmap(d, a, n)
      /\ Mapped(w, m.h, m.at, ms) /\ ms \in Int /\ o < ms
      /\ Shape(k) = Upd(Shape(m.h), q, Mapping(ms, o)) /\ HeadsOnly(m.h, k)
  BY DEF Relocates
<1>2. p \in DOMAIN s /\ Sized(s)
  BY InHand DEF Layout, Ground
<1>3. o \in Int /\ o >= 0 /\ ms > 0
  <2>1. o \in Int /\ o >= 0
    BY <1>2 DEF Sized
  <2> HIDE DEF o
  <2> QED BY <1>1, <2>1
<1> HIDE DEF o
<1>4. d \in Heaps
  BY DEF Good
<1>5. w.mem = d.mem /\ SameLists(d, w) /\ w.brk = d.brk /\ w.maps = d.maps \ {<<a, n>>} /\ w.aborted = d.aborted
  BY <1>1, <1>4 DEF Munmap, SameLists, Heaps
<1>6. Shape(w) = Del(s, p)
  BY <1>1, <1>5 DEF Shape
<1>7. LosesMap(h, w, p)
  <2>1. SameLists(h, w) /\ w.brk = h.brk /\ w.maps = h.maps \ {<<a, n>>}
    BY <1>1, <1>5 DEF SameLists, HeadsOnly
  <2> QED BY <1>6, <2>1 DEF LosesMap, o
<1>8. Layout(w, B, F) /\ Same(h, w, B)
  <2>1. OneLess(h, w, H, F, p)
    BY <1>7, MapLost
  <2> QED BY <2>1 DEF OneLess, Same
<1>9. Layout(m.h, B, G) /\ Shape(m.h) = Shape(w) /\ Claims(m.h, G, F, m.at, ms)
  BY <1>1, <1>3, <1>8, MapMoved
<1>10. TakesMap(m.h, k, G, F, m.at, ms, o)
  <2>1. SameLists(m.h, k) /\ k.brk = m.h.brk /\ k.maps = m.h.maps
    BY <1>1 DEF HeadsOnly, SameLists
  <2>2. <<m.at, ms>> \in m.h.maps
    BY <1>1 DEF Mapped
  <2> QED BY <1>1, <1>3, <1>9, <2>1, <2>2 DEF TakesMap
<1>11. OneMore(m.h, k, B, F, q, Mapping(ms, o))
  <2>1. B \in SUBSET Int
    OBVIOUS
  <2> HIDE DEF B, G
  <2> QED BY <1>9, <1>10, <2>1, MapTaken
<1>12. k.aborted = h.aborted
  BY <1>1, <1>5 DEF HeadsOnly, Mapped
<1>13. Same(h, k, B)
  BY <1>8, <1>9, <1>11 DEF Same, OneMore
<1> QED BY <1>11, <1>12, <1>13 DEF OneMore, o, Relocated

(* mremap_chunk: the chunk stays where it is, or a larger one is in its    *)
(* place, or the kernel refuses and nothing changes.                       *)
LEMMA MremapChunkIsSound ==
  ASSUME NEW H \in SUBSET Int, NEW F, NEW h \in Sound(H, F), NEW p \in H, p \in Aligned, NEW nb \in Chunky,
         ~h.aborted => Shape(h)[p].mapped
  PROVE  LET m == mremap_chunk(h, p, nb)
         IN /\ m.h \in Good /\ m.p \in Aligned \union {NULL}
            /\ m.p = NULL => m.h = h
            /\ m.p # NULL => Replaces(m.h, h, H, F, p, m.p, nb)
<1> DEFINE offset == prev_size(h, p)
           new_size == AlignUp(nb + offset + SIZE_SZ, PageSize)
           a == Block(h, p)
           n == BlockSize(h, p)
           d == Drop(h, p)
           w == Munmap(d, a, n)
           m == Mremap(d, a, n, new_size)
           head == [At(h, p) EXCEPT !.size = new_size - offset]
           g == Put(m.h, m.at + offset, head)
           k == [g EXCEPT !.mp.mmapped_mem = g.mp.mmapped_mem + new_size - n]
           r == mremap_chunk(h, p, nb)
<1>1. r = IF new_size = n THEN Answer(h, p) ELSE IF m.at = Failed THEN Answer(h, NULL) ELSE Answer(k, m.at + offset)
  BY DEF mremap_chunk
<1>2. h \in Good /\ h \in Heaps /\ (~h.aborted => Layout(h, H, F)) /\ nb \in Aligned /\ nb \in Int /\ nb >= MINSIZE
  BY SoundIs DEF Chunky, Aligned
<1>3. r.h \in Good /\ r.p \in Aligned \union {NULL}
  BY <1>2, MremapChunkKeeps DEF Fine
<1>4. offset \in Aligned /\ offset \in Int /\ p \in Int /\ p # NULL
  BY <1>2, HeadFields, PtAssumption DEF Aligned
<1>5. new_size \in Aligned /\ new_size \in Int /\ new_size >= nb + offset + 1
  <2> HIDE DEF offset
  <2>1. nb + offset + SIZE_SZ \in Int /\ SIZE_SZ = 1
    BY <1>2, <1>4 DEF SIZE_SZ
  <2> DEFINE z == nb + offset + SIZE_SZ
  <2> HIDE DEF z
  <2>2. z \in Int
    BY <2>1 DEF z
  <2>3. AlignUp(z, PageSize) \in Aligned /\ AlignUp(z, PageSize) \in Int /\ AlignUp(z, PageSize) >= z
    BY <2>2, PageSizes, PageArithmetic DEF Aligned
  <2> QED BY <2>1, <2>3 DEF z
<1> HIDE DEF new_size, r
<1>6. ~h.aborted => /\ p \in DOMAIN Shape(h) /\ Shape(h)[p].mapped /\ offset = Shape(h)[p].off /\ offset >= 0
                    /\ a = p - offset /\ n = offset + Shape(h)[p].size /\ Shape(h)[p].size \in Int /\ mmapped(h, p)
  <2> SUFFICES ASSUME ~h.aborted
               PROVE  /\ p \in DOMAIN Shape(h) /\ Shape(h)[p].mapped /\ offset = Shape(h)[p].off /\ offset >= 0
                      /\ a = p - offset /\ n = offset + Shape(h)[p].size /\ Shape(h)[p].size \in Int /\ mmapped(h, p)
    OBVIOUS
  <2>1. p \in DOMAIN Shape(h) /\ Sized(Shape(h))
    BY <1>2, InHand DEF Layout, Ground
  <2>2. Shape(h)[p].size = chunksize(h, p) /\ Shape(h)[p].mapped = mmapped(h, p) /\ Shape(h)[p].mapped /\ Shape(h)[p].off = offset
    BY <2>1, ShapeIs
  <2> QED BY <2>1, <2>2 DEF Sized, Block, BlockSize
<1>7. CASE new_size = n
  <2>1. r.h = h /\ r.p = p
    BY <1>1, <1>7 DEF Answer
  <2>2. ~h.aborted => Fits(h, p, nb)
    BY <1>2, <1>4, <1>5, <1>6, <1>7 DEF Fits
  <2>3. Replaces(h, h, H, F, p, p, nb)
    <3>1. h \in Later(h, H, F, H \ {p}) /\ (H \ {p}) \union {p} = H /\ p \notin H \ {p}
      BY StayLater
    <3> QED BY <2>2, <3>1 DEF Replaces
  <2> QED BY <1>3, <1>4, <2>1, <2>3 DEF r
<1>8. CASE new_size # n /\ m.at = Failed
  <2>1. r.h = h /\ r.p = NULL
    BY <1>1, <1>8 DEF Answer
  <2> QED BY <1>3, <2>1 DEF r
<1>9. CASE new_size # n /\ m.at # Failed
  <2> DEFINE q == m.at + offset
  <2>1. r.h = k /\ r.p = q
    BY <1>1, <1>9 DEF Answer
  <2>2. d \in Good /\ Shape(d) = Del(Shape(h), p) /\ HeadsOnly(h, d)
    BY <1>2, DropKeeps, DropIs
  <2>3. a \in Aligned /\ n \in Int
    BY <1>2, BlockIs
  <2> HIDE DEF d, a, n, offset
  <2>4. m.h \in Good /\ m.at \in Aligned
    BY <1>5, <1>9, <2>2, <2>3, MremapKeeps
  <2>5. m.h.aborted = d.aborted
    BY <2>2, MremapAborts
  <2>6. head \in Heads
    <3>1. new_size - offset \in Aligned /\ At(h, p) \in Heads
      BY <1>2, <1>4, <1>5, EvenSums, HeadFields
    <3> QED BY <3>1 DEF Heads
  <2>7. ~h.aborted => ShapeOf(head) = Mapping(new_size, offset)
    <3>1. At(h, p) \in Heads /\ (~h.aborted => At(h, p).mmapped /\ At(h, p).prev_size = offset)
      BY <1>2, <1>6, HeadFields DEF mmapped, prev_size, offset
    <3>2. head.size = new_size - offset /\ head.mmapped = At(h, p).mmapped /\ head.prev_size = At(h, p).prev_size
      BY <3>1 DEF Heads
    <3>3. At(h, p).mmapped \in BOOLEAN
      BY <3>1 DEF Heads
    <3> HIDE DEF head
    <3> QED BY <3>1, <3>2, <3>3 DEF ShapeOf, Mapping
  <2> HIDE DEF head, m
  <2>8. q \in Aligned /\ g \in Good
    BY <1>4, <2>4, <2>6, EvenSums, PutKeeps
  <2>9. Shape(g) = Upd(Shape(m.h), q, ShapeOf(head)) /\ HeadsOnly(m.h, g)
    <3>1. m.h \in Heaps
      BY <2>4 DEF Good
    <3> HIDE DEF q
    <3>2. Shape(Put(m.h, q, head)) = Upd(Shape(m.h), q, ShapeOf(head))
      BY <3>1, ShapePut
    <3>3. HeadsOnly(m.h, Put(m.h, q, head))
      BY <3>1 DEF Put, HeadsOnly, Heaps
    <3> QED BY <3>2, <3>3 DEF q
  <2> HIDE DEF g
  <2>10. k.mem = g.mem /\ HeadsOnly(g, k)
    BY <2>8 DEF HeadsOnly, Good, Heaps
  <2>11. k \in Good
    BY <1>3, <2>1
  <2> HIDE DEF k
  <2>12. Shape(k) = Upd(Shape(m.h), q, ShapeOf(head)) /\ HeadsOnly(m.h, k) /\ k.aborted = h.aborted
    <3>1. Shape(k) = Shape(g)
      BY <2>10 DEF Shape
    <3> QED BY <2>2, <2>5, <2>9, <2>10, <3>1 DEF HeadsOnly
  <2>13. CASE h.aborted
    <3>1. k \in Later(h, (H \ {p}) \union {q}, F, H \ {p})
      BY <2>11, <2>12, <2>13, AbortedIsLater
    <3>2. Replaces(k, h, H, F, p, q, nb)
      BY <2>12, <2>13, <3>1 DEF Replaces
    <3>3. q # NULL
      BY <2>8, PtAssumption DEF Aligned
    <3> QED BY <1>3, <2>1, <3>2, <3>3 DEF r
  <2>14. CASE ~h.aborted
    <3>1. Layout(h, H, F) /\ Shape(h)[p].mapped /\ offset = Shape(h)[p].off
      BY <1>2, <1>6, <2>14
    <3>2. Mapped(w, m.h, m.at, new_size)
      <4>1. Kernel(Shape(h), h.brk, h.maps, F) /\ <<a, n>> \in h.maps
        <5>1. Kernel(Shape(h), h.brk, h.maps, F)
          BY <3>1 DEF Layout, Ground
        <5>2. <<p - Shape(h)[p].off, Shape(h)[p].off + Shape(h)[p].size>> \in h.maps
          BY <1>6, <2>14, <5>1 DEF Kernel
        <5> QED BY <1>6, <2>14, <5>1, <5>2
      <4>2. a >= MmapFloor /\ \A x \in h.maps \ {<<a, n>>} : a + n <= x[1] \/ x[1] + x[2] <= a
        BY <4>1, OwnRoom
      <4>3. d.maps = h.maps
        BY <2>2 DEF HeadsOnly
      <4>4. Mapped(w, Mremap(d, a, n, new_size).h, Mremap(d, a, n, new_size).at, new_size)
        <5>1. Mremap(d, a, n, new_size).at # Failed
          BY <1>9 DEF m
        <5> QED BY <1>5, <2>2, <2>3, <4>2, <4>3, <5>1, MremapIs
      <4> QED BY <4>4 DEF m
    <3> HIDE DEF w
    <3>3. Relocates(h, d, w, m, k, p, new_size)
      <4>1. w = Munmap(d, p - Shape(h)[p].off, Shape(h)[p].off + Shape(h)[p].size)
        BY <1>6, <2>14 DEF w
      <4>2. Shape(k) = Upd(Shape(m.h), m.at + Shape(h)[p].off, Mapping(new_size, Shape(h)[p].off))
        BY <2>7, <2>12, <2>14, <3>1
      <4>3. Shape(h)[p].off < new_size
        BY <1>2, <1>4, <1>5, <3>1 DEF MINSIZE, SIZE_SZ
      <4> QED BY <1>5, <2>2, <2>12, <3>2, <4>1, <4>2, <4>3 DEF Relocates
    <3>4. /\ Layout(k, (H \ {p}) \union {q}, F) /\ q \notin H \ {p} /\ q \in DOMAIN Shape(k)
          /\ Shape(k)[q] = Mapping(new_size, offset) /\ Same(h, k, H \ {p})
      <4>1. Relocated(h, H, F, p, m, k, new_size)
        BY <1>2, <2>2, <3>1, <3>3, RelocatedIsSound
      <4>2. m.at + Shape(h)[p].off = q
        BY <3>1
      <4> HIDE DEF q
      <4> QED BY <3>1, <4>1, <4>2 DEF Relocated
    <3>5. k \in Later(h, (H \ {p}) \union {q}, F, H \ {p})
      BY <2>11, <2>12, <2>14, <3>4 DEF Later, Sound
    <3>6. Fits(k, q, nb)
      BY <1>2, <1>4, <1>5, <3>4 DEF Fits, Mapping
    <3>7. Replaces(k, h, H, F, p, q, nb)
      BY <3>4, <3>5, <3>6 DEF Replaces
    <3>8. q # NULL
      BY <2>8, PtAssumption DEF Aligned
    <3> QED BY <1>3, <2>1, <3>7, <3>8 DEF r
  <2> QED BY <2>13, <2>14
<1> QED BY <1>7, <1>8, <1>9

(* The old mapping is given back when the new chunk is elsewhere. *)
LEMMA ReplacedBy ==
  ASSUME NEW H \in SUBSET Int, NEW F, NEW h \in Sound(H, F), NEW p \in H, NEW q, NEW nb \in Chunky,
         NEW k, k \in Later(h, H \union {q}, F, H), ~k.aborted => q \notin H /\ Fits(k, q, nb),
         NEW g, g \in Reach(k, (H \union {q}) \ {p}, F, (H \union {q}) \ {p})
  PROVE  Replaces(g, h, H, F, p, q, nb)
<1> DEFINE K == H \union {q}
           L == (H \ {p}) \union {q}
           B == H \ {p}
<1>1. g \in Good
  BY ReachIs
<1>2. CASE g.aborted
  <2>1. g \in Later(h, L, F, B)
    BY <1>1, <1>2, AbortedIsLater
  <2> QED BY <1>2, <2>1 DEF Replaces
<1>3. CASE ~g.aborted
  <2>1. ~k.aborted /\ Same(k, g, K \ {p})
    BY <1>3, ReachIs DEF Same
  <2>2. q \notin H /\ Fits(k, q, nb) /\ p # q
    BY <2>1
  <2>3. K \ {p} = L /\ B \subseteq L /\ B \subseteq H /\ q \in L
    BY <2>2
  <2>4. Fits(g, q, nb)
    BY <2>1, <2>2, <2>3 DEF Fits, Same
  <2>5. g \in Reach(k, K \ {p}, F, K \ {p})
    OBVIOUS
  <2>6. k \in Later(h, K, F, H)
    OBVIOUS
  <2> HIDE DEF K, L, B
  <2>7. g \in Later(k, L, F, L)
    BY <2>3, <2>5, ReachIsLater
  <2>8. g \in Later(k, L, F, B)
    BY <2>3, <2>7, LaterLess
  <2>9. g \in Later(h, L, F, B)
    <3>1. B \subseteq B /\ k \in Later(h, K, F, B)
      BY <2>3, <2>6, LaterLess
    <3> HIDE DEF B
    <3> QED BY <2>8, <3>1, LaterTwice
  <2> QED BY <2>2, <2>4, <2>9 DEF Replaces, L, B
<1> QED BY <1>2, <1>3

(* realloc of a mapping by malloc, copy and munmap keeps realloc's         *)
(* promise.                                                                *)
LEMMA CopyMappedIsSound ==
  ASSUME NEW H \in SUBSET Int, NEW F, NEW h \in Sound(H, F), NEW p \in H, p \in Aligned, NEW nb \in Chunky,
         NEW new \in Provides(h, H, F, nb), chunksize(h, p) - SIZE_SZ < nb, ~h.aborted => Shape(h)[p].mapped
  PROVE  Regrants(CopyMapped(h, p, new), h, H, F, p, nb)
<1> DEFINE n == chunksize(h, p) - CHUNK_HDR_SZ
           q == new.p
           k == new.h
           g == munmap_chunk(k, p)
<1>1. CopyMapped(h, p, new) = IF q = NULL THEN Refused(k) ELSE Moves(g, q, n)
  BY DEF CopyMapped
<1>2. /\ k \in Good /\ q \in Aligned \union {NULL}
      /\ q = NULL => k \in Later(h, H, F, H)
      /\ q # NULL => q \in Aligned /\ q \in Int /\ k \in Later(h, H \union {q}, F, H)
      /\ ~k.aborted /\ q # NULL => q \notin H /\ Fits(k, q, nb)
  BY ProvidesIs
<1>3. ~h.aborted => p \in DOMAIN Shape(h) /\ n = Usable(Shape(h)[p]) /\ n < nb - SIZE_SZ
  <2> SUFFICES ASSUME ~h.aborted PROVE p \in DOMAIN Shape(h) /\ n = Usable(Shape(h)[p]) /\ n < nb - SIZE_SZ
    OBVIOUS
  <2>1. p \in DOMAIN Shape(h)
    BY SoundIs, InHand
  <2>2. chunksize(h, p) = Shape(h)[p].size
    BY <2>1, SizeIs
  <2>3. chunksize(h, p) \in Int /\ nb \in Int
    BY SoundIs, HeadFields DEF Aligned, Chunky
  <2> QED BY <2>1, <2>2, <2>3 DEF Usable, CHUNK_HDR_SZ, SIZE_SZ
<1> HIDE DEF n, q, k
<1>4. CASE q = NULL
  <2>1. Regrants(Refused(k), h, H, F, p, nb)
    BY <1>2, <1>4, RefusedRegrants
  <2> QED BY <1>1, <1>4, <2>1
<1>5. CASE q # NULL
  <2> DEFINE K == H \union {q}
  <2>1. K \in SUBSET Int /\ p \in K /\ k \in Later(h, K, F, H)
    BY <1>2, <1>5
  <2>2. ~k.aborted => Shape(k)[p].mapped
    BY <1>3, <2>1, LaterIs DEF Same
  <2>3. k \in Sound(K, F)
    BY <2>1, LaterIs
  <2>4. g \in Reach(k, K \ {p}, F, K \ {p})
    <3> HIDE DEF K
    <3> QED BY <2>1, <2>2, <2>3, MunmapChunkIsSound
  <2> HIDE DEF g
  <2>5. Replaces(g, h, H, F, p, q, nb)
    BY <1>2, <1>5, <2>4, ReplacedBy
  <2>6. ~g.aborted => n = Usable(Shape(h)[p]) /\ n <= Usable(Shape(g)[q])
    <3> SUFFICES ASSUME ~g.aborted PROVE n = Usable(Shape(h)[p]) /\ n <= Usable(Shape(g)[q])
      OBVIOUS
    <3>1. ~h.aborted /\ Fits(g, q, nb) /\ g \in Sound((H \ {p}) \union {q}, F)
      BY <2>5 DEF Replaces, Later
    <3>2. nb \in Int
      BY DEF Chunky, Aligned
    <3>3. Usable(Shape(g)[q]) \in Int /\ Usable(Shape(g)[q]) >= nb - SIZE_SZ
      BY <3>1, <3>2, FitsHasRoom
    <3>4. n \in Int
      <4>1. chunksize(h, p) \in Int
        <5>1. h \in Good
          BY SoundIs
        <5>2. chunksize(h, p) \in Aligned
          BY <5>1, HeadFields
        <5> QED BY <5>2 DEF Aligned
      <4> QED BY <4>1 DEF n, CHUNK_HDR_SZ, SIZE_SZ
    <3> QED BY <1>3, <3>1, <3>2, <3>3, <3>4 DEF SIZE_SZ
  <2>7. Regrants(Moves(g, q, n), h, H, F, p, nb)
    BY <1>2, <1>5, <2>5, <2>6, MovesRegrants
  <2> QED BY <1>1, <1>5, <2>7
<1> QED BY <1>4, <1>5

(* realloc of a mapping. *)
LEMMA ReallocMappedIsSound ==
  ASSUME NEW H \in SUBSET Int, NEW F, NEW h \in Sound(H, F), NEW p \in H, p \in Aligned, NEW bytes \in Int,
         ~h.aborted => Shape(h)[p].mapped
  PROVE  Regrants(ReallocMapped(h, p, bytes), h, H, F, p, request2size(bytes))
<1> DEFINE nb == request2size(bytes)
           ok == BlockIsSane(h, p)
           c == Check(h, ok)
           m == mremap_chunk(c, p, nb)
           n == musable(h, p)
           size == chunksize(h, p)
           new == libc_malloc(m.h, bytes)
           a == ReallocMapped(h, p, bytes)
<1>1. nb \in Chunky
  BY RequestIsChunky
<1>2. a = IF m.p # NULL THEN Stays(m.h, m.p, n)
          ELSE IF size - SIZE_SZ >= nb THEN Stays(m.h, p, n)
          ELSE CopyMapped(h, p, new)
  BY DEF ReallocMapped, Remapped
<1> HIDE DEF ok, a
<1>3. c \in Reach(h, H, F, H) /\ c \in Sound(H, F) /\ (~c.aborted => ~h.aborted /\ c = h)
  BY CheckReaches
<1> HIDE DEF c
<1>4. c \in Later(h, H, F, H)
  BY <1>3, ReachIsLater
<1>5. /\ m.h \in Good /\ m.p \in Aligned \union {NULL}
      /\ m.p = NULL => m.h = c
      /\ m.p # NULL => Replaces(m.h, c, H, F, p, m.p, nb)
  <2> HIDE DEF nb
  <2> QED BY <1>1, <1>3, MremapChunkIsSound
<1>6. ~h.aborted => p \in DOMAIN Shape(h) /\ n = Usable(Shape(h)[p]) /\ size = Shape(h)[p].size
  <2> SUFFICES ASSUME ~h.aborted PROVE p \in DOMAIN Shape(h) /\ n = Usable(Shape(h)[p]) /\ size = Shape(h)[p].size
    OBVIOUS
  <2>1. p \in DOMAIN Shape(h)
    BY SoundIs, InHand
  <2>2. chunksize(h, p) = Shape(h)[p].size /\ mmapped(h, p)
    BY <2>1, SizeIs
  <2> QED BY <2>1, <2>2 DEF Usable, musable
<1> HIDE DEF m, n, nb
<1>7. CASE m.p # NULL
  <2> DEFINE g == m.h
             q == m.p
  <2>1. Replaces(g, c, H, F, p, q, nb) /\ q \in Aligned /\ g \in Good
    BY <1>5, <1>7
  <2> HIDE DEF g, q
  <2>2. ~g.aborted => n = Usable(Shape(c)[p])
    BY <1>3, <1>6, <2>1 DEF Replaces, Later
  <2> DEFINE r == Stays(g, q, n)
  <2>3. Regrants(Stays(g, q, n), c, H, F, p, nb)
    BY <1>1, <2>1, <2>2, StaysRegrants
  <2> HIDE DEF r
  <2>4. Regrants(r, c, H, F, p, nb)
    BY <2>3 DEF r
  <2>5. Regrants(r, h, H, F, p, nb)
    BY <1>4, <2>4, RegrantsOnward
  <2> QED BY <1>2, <1>7, <2>5 DEF r, g, q, nb, a
<1>8. CASE m.p = NULL /\ size - SIZE_SZ >= nb
  <2>1. m.h = c
    BY <1>5, <1>8
  <2>2. Replaces(c, h, H, F, p, p, nb)
    <3>1. (H \ {p}) \union {p} = H /\ p \notin H \ {p} /\ c \in Later(h, H, F, H \ {p})
      BY <1>4, LaterLess
    <3>2. ~c.aborted => Fits(c, p, nb)
      <4>1. size \in Int /\ nb \in Int
        BY <1>1, SoundIs, HeadFields DEF Aligned, Chunky
      <4> QED BY <1>3, <1>6, <1>8, <4>1 DEF Fits, SIZE_SZ
    <3> QED BY <3>1, <3>2 DEF Replaces
  <2>3. ~c.aborted => n = Usable(Shape(h)[p])
    BY <1>3, <1>6
  <2>4. Regrants(Stays(c, p, n), h, H, F, p, nb)
    BY <1>1, <2>2, <2>3, StaysRegrants
  <2> QED BY <1>2, <1>8, <2>1, <2>4 DEF nb, a
<1>9. CASE m.p = NULL /\ ~(size - SIZE_SZ >= nb)
  <2>1. m.h = c
    BY <1>5, <1>9
  <2>2. libc_malloc(c, bytes) \in Provides(c, H, F, request2size(bytes))
    BY <1>3, LibcMallocIsSound
  <2> DEFINE x == libc_malloc(c, bytes)
  <2> HIDE DEF x
  <2>3. x \in Provides(c, H, F, nb)
    BY <2>2 DEF x, nb
  <2>4. x \in Provides(h, H, F, nb)
    BY <1>4, <2>3, ProvidesOnward
  <2>5. chunksize(h, p) - SIZE_SZ < nb
    <3>1. size \in Int /\ nb \in Int
      BY <1>1, SoundIs, HeadFields DEF Aligned, Chunky
    <3> QED BY <1>9, <3>1 DEF SIZE_SZ
  <2>6. Regrants(CopyMapped(h, p, x), h, H, F, p, nb)
    BY <1>1, <2>4, <2>5, CopyMappedIsSound
  <2> QED BY <1>2, <1>9, <2>1, <2>6 DEF x, nb, a
<1> QED BY <1>7, <1>8, <1>9

(* realloc keeps the layout: of 0 bytes it frees; else its answer keeps    *)
(* its promise.                                                            *)
LEMMA LibcReallocIsSound ==
  ASSUME NEW H \in SUBSET Int, NEW F, NEW h \in Sound(H, F), NEW p \in H, p \in Aligned, NEW bytes \in Int
  PROVE  /\ bytes = 0 => /\ libc_realloc(h, p, bytes).h \in Later(h, H \ {p}, F, H \ {p})
                         /\ libc_realloc(h, p, bytes).p = NULL
         /\ bytes # 0 => Regrants(libc_realloc(h, p, bytes), h, H, F, p, request2size(bytes))
<1>1. ~h.aborted => mmapped(h, p) = Shape(h)[p].mapped
  <2> SUFFICES ASSUME ~h.aborted PROVE mmapped(h, p) = Shape(h)[p].mapped
    OBVIOUS
  <2>1. p \in DOMAIN Shape(h)
    BY SoundIs, InHand
  <2> QED BY <2>1, SizeIs
<1>2. ASSUME bytes = 0 PROVE libc_realloc(h, p, bytes).h \in Later(h, H \ {p}, F, H \ {p}) /\ libc_realloc(h, p, bytes).p = NULL
  <2>1. libc_free(h, p) \in Later(h, H \ {p}, F, H \ {p})
    BY LibcFreeIsSound
  <2>2. libc_realloc(h, p, bytes) = Refused(libc_free(h, p))
    BY <1>2 DEF libc_realloc
  <2> QED BY <2>1, <2>2 DEF Refused
<1>3. ASSUME bytes # 0 PROVE Regrants(libc_realloc(h, p, bytes), h, H, F, p, request2size(bytes))
  <2>1. CASE ~mmapped(h, p)
    <3>1. libc_realloc(h, p, bytes) = ReallocHeld(tcache_init(h), p, bytes)
      BY <1>3, <2>1 DEF libc_realloc
    <3>2. ~h.aborted => ~Shape(h)[p].mapped
      BY <1>1, <2>1
    <3> QED BY <3>1, <3>2, ReallocHeldIsSound
  <2>2. CASE mmapped(h, p) /\ Representable(bytes)
    <3>1. libc_realloc(h, p, bytes) = ReallocMapped(h, p, bytes)
      BY <1>3, <2>2 DEF libc_realloc
    <3>2. ~h.aborted => Shape(h)[p].mapped
      BY <1>1, <2>2
    <3> QED BY <3>1, <3>2, ReallocMappedIsSound
  <2>3. CASE mmapped(h, p) /\ ~Representable(bytes)
    <3>1. libc_realloc(h, p, bytes) = Refused(h)
      BY <1>3, <2>3 DEF libc_realloc
    <3> DEFINE nb == request2size(bytes)
    <3> HIDE DEF nb
    <3>2. h \in Later(h, H, F, H)
      BY StayLater
    <3>3. Regrants(Refused(h), h, H, F, p, nb)
      BY <3>2, RefusedRegrants
    <3> QED BY <3>1, <3>3 DEF nb
  <2> QED BY <2>1, <2>2, <2>3
<1> QED BY <1>2, <1>3

-----------------------------------------------------------------------------
(* memalign and its kin. *)

(* A chunk in hand is cut in two, and both parts are in hand. *)
Splits(h, x, p, n) ==
  /\ n \in Int /\ n >= MINSIZE /\ ~Shape(h)[p].mapped /\ Shape(h)[p].size - n >= MINSIZE
  /\ \/ Shape(x) = Upd(Upd(Shape(h), p, Plain(n)), p + n, Plain(Shape(h)[p].size - n))
     \/ Shape(x) = Upd(Upd(Shape(h), p + n, Plain(Shape(h)[p].size - n)), p, Plain(n))
  /\ HeadsOnly(h, x)

IsSplit(h, x, H, F, p, n) ==
  /\ x \in Reach(h, H \union {p + n}, F, H \ {p})
  /\ ~x.aborted => /\ p + n \notin H /\ p + n \in DOMAIN Shape(x) /\ Shape(x)[p + n] = Plain(Shape(h)[p].size - n)
                   /\ p \in DOMAIN Shape(x) /\ Shape(x)[p] = Plain(n)

(* A chunk in hand that is cut in two, the headers written in either       *)
(* order.                                                                  *)
LEMMA SplitIsSound ==
  ASSUME NEW H \in SUBSET Int, NEW F, NEW h \in Sound(H, F), NEW p \in H, NEW x \in Good, NEW n, x.aborted = h.aborted,
         ~h.aborted => Splits(h, x, p, n)
  PROVE  IsSplit(h, x, H, F, p, n)
<1> DEFINE K == H \union {p + n}
           q == p + n
           s == Shape(h)
           r == Shape(x)
<1>1. CASE h.aborted
  BY <1>1, AbortedReaches DEF IsSplit
<1>2. CASE ~h.aborted
  <2>1. Layout(h, H, F) /\ Splits(h, x, p, n)
    BY <1>2, SoundIs
  <2>2. /\ n \in Int /\ n >= MINSIZE /\ ~s[p].mapped /\ s[p].size - n >= MINSIZE /\ HeadsOnly(h, x) /\ p \in Int
        /\ r = Upd(Upd(s, p, Plain(n)), q, Plain(s[p].size - n)) \/ r = Upd(Upd(s, q, Plain(s[p].size - n)), p, Plain(n))
    BY <2>1 DEF Splits
  <2>3. p \in DOMAIN s /\ q # p /\ q \in Int
    BY <2>1, <2>2, InHand DEF MINSIZE, SIZE_SZ
  <2>4. q \notin DOMAIN s
    <3>1. Sized(s) /\ Tiles(s, GivenTo(h.brk, h.maps, F))
      BY <2>1 DEF Layout, Ground
    <3>2. s[p].off = 0 /\ s[p].size \in Int
      BY <2>2, <2>3, <3>1 DEF Sized
    <3>3. Has(s, p, q)
      BY <2>2, <2>3, <3>2 DEF Has, MINSIZE, SIZE_SZ
    <3>4. q \in DOMAIN s => Has(s, q, q)
      BY <2>3, <3>1 DEF Sized, Has
    <3> QED BY <2>3, <3>1, <3>3, <3>4 DEF Tiles
  <2>5. /\ DOMAIN r = DOMAIN s \union {q} /\ r[p] = Plain(n) /\ r[q] = Plain(s[p].size - n)
        /\ \A a \in DOMAIN s \ {p} : r[a] = s[a]
    <3> HIDE DEF s, r, q
    <3> QED BY <2>2, <2>3, <2>4 DEF Upd
  <2>6. Parts(h, x, H, K, p, n)
    <3>1. ListsStay(h, x) /\ x.top = h.top
      BY <2>2 DEF HeadsOnly, ListsStay
    <3> QED BY <2>2, <2>5, <3>1 DEF Parts
  <2>7. Layout(x, K, F) /\ q \notin H
    BY <2>1, <2>6, Parted
  <2>8. ASSUME NEW a \in H \ {p}, a \in DOMAIN s PROVE a \in DOMAIN r /\ r[a] = s[a]
    BY <2>5, <2>8
  <2>9. Onward(h, x, H \ {p})
    <3>1. x.tcache = h.tcache
      BY <2>2 DEF HeadsOnly
    <3> QED BY <1>2, <2>8, <3>1 DEF Onward
  <2> HIDE DEF K
  <2>10. x \in Reach(h, K, F, H \ {p})
    BY <2>7, <2>9 DEF Reach, Sound
  <2> QED BY <2>3, <2>5, <2>7, <2>10 DEF K, IsSplit
<1> QED BY <1>1, <1>2

(* One part of the two is freed. *)
FreesLower(h, g, H, F, p, n) ==
  /\ g \in Reach(h, (H \ {p}) \union {p + n}, F, H \ {p})
  /\ ~g.aborted => p + n \notin H /\ p + n \in DOMAIN Shape(g) /\ Shape(g)[p + n] = Plain(Shape(h)[p].size - n)

FreesUpper(h, g, H, F, p, n) ==
  /\ g \in Reach(h, H, F, H \ {p})
  /\ ~g.aborted => p \in DOMAIN Shape(g) /\ Shape(g)[p] = Plain(n)

(* _int_memalign gives back what is before the aligned chunk, or what is   *)
(* behind it.                                                              *)
LEMMA SplitAndFreed ==
  ASSUME NEW H \in SUBSET Int, NEW F, NEW h \in Sound(H, F), NEW p \in H, NEW x \in Good, NEW n \in Int, x.aborted = h.aborted,
         p \in Aligned, p + n \in Aligned, ~h.aborted => Splits(h, x, p, n)
  PROVE  FreesLower(h, int_free(x, p), H, F, p, n) /\ FreesUpper(h, int_free(x, p + n), H, F, p, n)
<1> DEFINE q == p + n
           K == H \union {q}
           B == H \ {p}
           L == B \union {q}
           f == int_free(x, p)
           g == int_free(x, q)
<1>1. /\ x \in Reach(h, K, F, B)
      /\ ~x.aborted => /\ q \notin H /\ q \in DOMAIN Shape(x) /\ Shape(x)[q] = Plain(Shape(h)[p].size - n)
                       /\ p \in DOMAIN Shape(x) /\ Shape(x)[p] = Plain(n)
  <2>1. IsSplit(h, x, H, F, p, n)
    BY SplitIsSound
  <2> QED BY <2>1 DEF IsSplit
<1> HIDE DEF q
<1>2. x \in Sound(K, F) /\ K \in SUBSET Int /\ p \in K /\ q \in K /\ p \in Aligned /\ q \in Aligned
  <2>1. x \in Sound(K, F)
    BY <1>1, ReachIs
  <2>2. q \in Aligned /\ q \in Int
    BY DEF q, Aligned
  <2> QED BY <2>1, <2>2
<1>3. ~x.aborted => ~Shape(x)[p].mapped /\ ~Shape(x)[q].mapped
  BY <1>1 DEF Plain
<1>4. f \in Reach(x, K \ {p}, F, K \ {p}) /\ g \in Reach(x, K \ {q}, F, K \ {q})
  <2> HIDE DEF K
  <2> QED BY <1>2, <1>3, FreeIsSound
<1> HIDE DEF f, g
<1>5. f \in Good /\ g \in Good /\ (~f.aborted => ~x.aborted /\ Same(x, f, K \ {p})) /\ (~g.aborted => ~x.aborted /\ Same(x, g, K \ {q}))
  BY <1>4, ReachIs DEF Same
<1>6. f \in Reach(h, L, F, B)
  <2>1. CASE f.aborted
    BY <1>5, <2>1, AbortedReaches
  <2>2. CASE ~f.aborted
    <3>1. q \notin H
      BY <1>1, <1>5, <2>2
    <3>2. K \ {p} = L /\ B \subseteq L
      BY <3>1
    <3> HIDE DEF K, L, B
    <3>3. f \in Reach(x, L, F, B)
      BY <1>4, <3>2, ReachLess
    <3>4. B \subseteq B
      OBVIOUS
    <3> QED BY <1>1, <3>3, <3>4, ReachTwice
  <2> QED BY <2>1, <2>2
<1>7. g \in Reach(h, H, F, B)
  <2>1. CASE g.aborted
    BY <1>5, <2>1, AbortedReaches
  <2>2. CASE ~g.aborted
    <3>1. q \notin H
      BY <1>1, <1>5, <2>2
    <3>2. K \ {q} = H /\ B \subseteq H
      BY <3>1
    <3> HIDE DEF K, B
    <3>3. g \in Reach(x, H, F, B)
      BY <1>4, <3>2, ReachLess
    <3>4. B \subseteq B
      OBVIOUS
    <3> QED BY <1>1, <3>3, <3>4, ReachTwice
  <2> QED BY <2>1, <2>2
<1>8. ~f.aborted => q \notin H /\ q \in DOMAIN Shape(f) /\ Shape(f)[q] = Plain(Shape(h)[p].size - n)
  <2> SUFFICES ASSUME ~f.aborted PROVE q \notin H /\ q \in DOMAIN Shape(f) /\ Shape(f)[q] = Plain(Shape(h)[p].size - n)
    OBVIOUS
  <2>1. q \in K \ {p}
    BY <1>1, <1>5
  <2> QED BY <1>1, <1>5, <2>1 DEF Same
<1>9. ~g.aborted => p \in DOMAIN Shape(g) /\ Shape(g)[p] = Plain(n)
  <2> SUFFICES ASSUME ~g.aborted PROVE p \in DOMAIN Shape(g) /\ Shape(g)[p] = Plain(n)
    OBVIOUS
  <2>1. p \in K \ {q}
    BY <1>1, <1>5
  <2> QED BY <1>1, <1>5, <2>1 DEF Same
<1> QED BY <1>6, <1>7, <1>8, <1>9 DEF f, g, q, FreesLower, FreesUpper

(* What precedes q in the chunk p goes back. *)
LEMMA LeadIsSound ==
  ASSUME NEW H \in SUBSET Int, NEW F, NEW h \in Sound(H, F), NEW p \in H, p \in Aligned, NEW q \in Aligned, q - p >= MINSIZE,
         ~h.aborted => ~Shape(h)[p].mapped /\ Shape(h)[p].size - (q - p) >= MINSIZE
  PROVE  FreesLower(h, GiveBackLead(h, p, q), H, F, p, q - p)
<1> DEFINE n == q - p
           newsize == chunksize(h, p) - n
           x == set_head(h, q, newsize)
           y == set_inuse_bit(x, q + newsize)
           z == set_head_size(y, p, n)
           s == Shape(h)
<1>1. h \in Good /\ h \in Heaps /\ (~h.aborted => Layout(h, H, F)) /\ p \in Int /\ q \in Int
  BY SoundIs DEF Aligned
<1>2. chunksize(h, p) \in Aligned /\ n \in Aligned
  BY <1>1, HeadFields, EvenSums
<1>3. n \in Int /\ n >= MINSIZE /\ p + n = q
  BY <1>1
<1> HIDE DEF n
<1>4. newsize \in Aligned /\ q + newsize \in Aligned
  BY <1>2, EvenSums
<1>5. newsize \in Int /\ q + newsize = p + chunksize(h, p)
  <2>1. chunksize(h, p) \in Int
    BY <1>2 DEF Aligned
  <2> QED BY <1>1, <1>3, <2>1
<1> HIDE DEF newsize
<1>6. GiveBackLead(h, p, q) = int_free(z, p)
  BY DEF GiveBackLead, n, newsize
<1>7. x \in Good /\ x \in Heaps /\ Shape(x) = Upd(s, q, Plain(newsize)) /\ HeadsOnly(h, x)
  BY <1>1, <1>4, HeadsKeep, HeadIsSet DEF Good
<1>8. p # q => At(x, p) = At(h, p)
  BY <1>1 DEF set_head, Put, At, Heaps
<1> HIDE DEF x
<1>9. y \in Good /\ y \in Heaps /\ y.aborted = x.aborted
  <2>1. y \in Good
    BY <1>4, <1>7, HeadsKeep
  <2> QED BY <1>7, <2>1 DEF set_inuse_bit, Put, Good, Heaps
<1>10. p # q + newsize => At(y, p) = At(x, p)
  BY <1>7 DEF set_inuse_bit, Put, At, Heaps
<1>11. q + newsize \in DOMAIN Shape(x) /\ ~Shape(x)[q + newsize].mapped => Shape(y) = Shape(x) /\ HeadsOnly(x, y)
  BY <1>7, FlagsAreSet
<1> HIDE DEF y
<1>12. z \in Good /\ z.aborted = y.aborted /\ (~mmapped(y, p) => Shape(z) = Upd(Shape(y), p, Plain(n)) /\ HeadsOnly(y, z))
  <2>1. z \in Good
    BY <1>2, <1>9, HeadsKeep
  <2>2. z.aborted = y.aborted
    BY <1>9 DEF set_head_size, Put, Heaps
  <2> QED BY <1>9, <2>1, <2>2, SizeIsSet
<1> HIDE DEF z
<1>13. z.aborted = h.aborted
  BY <1>7, <1>9, <1>12 DEF HeadsOnly
<1>14. ASSUME ~h.aborted PROVE Splits(h, z, p, n)
  <2>1. Layout(h, H, F) /\ ~s[p].mapped /\ s[p].size - n >= MINSIZE
    BY <1>1, <1>14 DEF n
  <2>2. p \in DOMAIN s /\ Followed(s, p)
    BY <1>1, <2>1, InHand
  <2>3. chunksize(h, p) = s[p].size /\ ~mmapped(h, p)
    BY <2>1, <2>2, SizeIs
  <2>4. q + newsize = p + s[p].size /\ newsize = s[p].size - n
    BY <1>5, <2>3 DEF newsize
  <2>5. q + newsize # q /\ q # p /\ q + newsize # p
    BY <1>1, <1>3, <1>5, <2>1, <2>4 DEF MINSIZE, SIZE_SZ
  <2>6. q + newsize \in DOMAIN Shape(x) /\ ~Shape(x)[q + newsize].mapped
    BY <1>7, <2>2, <2>4, <2>5 DEF Followed, Upd
  <2>7. ~mmapped(y, p)
    <3>1. At(y, p) = At(h, p)
      BY <1>8, <1>10, <2>5
    <3> QED BY <2>3, <3>1 DEF mmapped
  <2>8. Shape(z) = Upd(Upd(s, q, Plain(newsize)), p, Plain(n)) /\ HeadsOnly(h, z)
    BY <1>7, <1>11, <1>12, <2>6, <2>7 DEF HeadsOnly
  <2>9. Shape(z) = Upd(Upd(s, p + n, Plain(s[p].size - n)), p, Plain(n))
    BY <1>3, <2>4, <2>8
  <2> QED BY <1>3, <2>1, <2>8, <2>9 DEF Splits
<1>15. FreesLower(h, int_free(z, p), H, F, p, n)
  <2>1. p + n \in Aligned
    BY <1>3
  <2> QED BY <1>3, <1>12, <1>13, <1>14, <2>1, SplitAndFreed
<1> QED BY <1>6, <1>15 DEF n

(* What is beyond nb of the chunk q goes back. *)
LEMMA SpareIsSound ==
  ASSUME NEW H \in SUBSET Int, NEW F, NEW h \in Sound(H, F), NEW q \in H, q \in Aligned, NEW nb \in Chunky,
         ~h.aborted => ~Shape(h)[q].mapped /\ Shape(h)[q].size >= nb
  PROVE  KeepsRoom(h, GiveBackSpare(h, q, nb), H, F, q, nb)
<1> DEFINE size == chunksize(h, q)
           rest == size - nb
           x == set_head(h, q + nb, rest)
           z == set_head_size(x, q, nb)
           s == Shape(h)
<1>1. h \in Good /\ h \in Heaps /\ (~h.aborted => Layout(h, H, F)) /\ q \in Int /\ nb \in Aligned /\ nb \in Int /\ nb >= MINSIZE
  BY SoundIs DEF Aligned, Chunky
<1>2. size \in Aligned /\ size \in Int
  BY <1>1, HeadFields DEF Aligned
<1>3. ~h.aborted => q \in DOMAIN s /\ s[q].size = size /\ ~mmapped(h, q)
  <2> SUFFICES ASSUME ~h.aborted PROVE q \in DOMAIN s /\ s[q].size = size /\ ~mmapped(h, q)
    OBVIOUS
  <2>1. q \in DOMAIN s
    BY <1>1, InHand
  <2> QED BY <2>1, SizeIs
<1>4. GiveBackSpare(h, q, nb) = IF size <= nb + MINSIZE THEN h ELSE int_free(z, q + nb)
  BY DEF GiveBackSpare
<1> HIDE DEF size
<1>5. CASE size <= nb + MINSIZE
  <2>1. h \in Reach(h, H, F, H \ {q})
    BY Stay
  <2> QED BY <1>3, <1>4, <1>5, <2>1 DEF KeepsRoom
<1>6. CASE ~(size <= nb + MINSIZE)
  <2>1. rest \in Aligned /\ q + nb \in Aligned
    BY <1>1, <1>2, EvenSums
  <2>2. rest \in Int /\ rest >= MINSIZE /\ q + nb # q
    BY <1>1, <1>2, <1>6 DEF MINSIZE, SIZE_SZ
  <2> HIDE DEF rest
  <2>3. x \in Good /\ x \in Heaps /\ Shape(x) = Upd(s, q + nb, Plain(rest)) /\ HeadsOnly(h, x)
    BY <1>1, <2>1, HeadsKeep, HeadIsSet DEF Good
  <2>4. At(x, q) = At(h, q)
    BY <1>1, <2>2 DEF set_head, Put, At, Heaps
  <2> HIDE DEF x
  <2>5. z \in Good /\ z.aborted = x.aborted /\ (~mmapped(x, q) => Shape(z) = Upd(Shape(x), q, Plain(nb)) /\ HeadsOnly(x, z))
    <3>1. z \in Good
      BY <1>1, <2>3, HeadsKeep
    <3>2. z.aborted = x.aborted
      BY <2>3 DEF set_head_size, Put, Heaps
    <3> QED BY <2>3, <3>1, <3>2, SizeIsSet
  <2> HIDE DEF z
  <2>6. z.aborted = h.aborted
    BY <2>3, <2>5 DEF HeadsOnly
  <2>7. ASSUME ~h.aborted PROVE Splits(h, z, q, nb)
    <3>1. ~s[q].mapped /\ s[q].size = size /\ ~mmapped(h, q)
      BY <1>3, <2>7
    <3>2. ~mmapped(x, q)
      BY <2>4, <3>1 DEF mmapped
    <3>3. Shape(z) = Upd(Upd(s, q + nb, Plain(rest)), q, Plain(nb)) /\ HeadsOnly(h, z)
      BY <2>3, <2>5, <3>2 DEF HeadsOnly
    <3>4. s[q].size - nb = rest
      BY <3>1 DEF rest
    <3> QED BY <1>1, <2>2, <3>1, <3>3, <3>4 DEF Splits
  <2>8. FreesUpper(h, int_free(z, q + nb), H, F, q, nb)
    BY <1>1, <2>1, <2>5, <2>6, <2>7, SplitAndFreed
  <2> DEFINE g == int_free(z, q + nb)
  <2> HIDE DEF g
  <2>9. g \in Reach(h, H, F, H \ {q}) /\ (~g.aborted => q \in DOMAIN Shape(g) /\ Shape(g)[q] = Plain(nb))
    BY <2>8 DEF FreesUpper, g
  <2>10. KeepsRoom(h, g, H, F, q, nb)
    BY <1>1, <2>9 DEF KeepsRoom, Plain
  <2> QED BY <1>4, <1>6, <2>10 DEF g
<1> QED BY <1>5, <1>6

(* The chunk in a mapping begins later in it. *)
Shifts(h, k, p, q) ==
  LET o == Shape(h)[p].off
      n == o + Shape(h)[p].size
  IN /\ q \in Int /\ q >= p /\ q - p < Shape(h)[p].size
     /\ Shape(k) = Upd(Del(Shape(h), p), q, Mapping(n, o + (q - p))) /\ HeadsOnly(h, k)

Shifted(h, k, H, F, q, v) ==
  /\ Layout(k, H \union {q}, F) /\ q \notin H /\ q \in DOMAIN Shape(k) /\ Shape(k)[q] = v
  /\ Same(h, k, H) /\ k.aborted = h.aborted

(* In a mapping the chunk begins later, and the words before it are        *)
(* counted in prev_size.                                                   *)
LEMMA ShiftedIsSound ==
  ASSUME NEW h \in Good, NEW H \in SUBSET Int, NEW F, NEW p \in Int, p \notin H, Layout(h, H \union {p}, F), Shape(h)[p].mapped,
         NEW k, NEW q, Shifts(h, k, p, q)
  PROVE  Shifted(h, k, H, F, q, Mapping(Shape(h)[p].off + Shape(h)[p].size, Shape(h)[p].off + (q - p)))
<1> DEFINE s == Shape(h)
           o == s[p].off
           a == p - o
           n == o + s[p].size
           b == o + (q - p)
           K == H \union {p}
           w == [Drop(h, p) EXCEPT !.maps = h.maps \ {<<a, n>>}]
           m == [w EXCEPT !.maps = w.maps \union {<<a, n>>}]
           G == F \union Region(a, n)
<1>1. /\ q \in Int /\ q >= p /\ q - p < s[p].size
      /\ Shape(k) = Upd(Del(s, p), q, Mapping(n, b)) /\ HeadsOnly(h, k)
  BY DEF Shifts
<1>2. p \in DOMAIN s /\ Sized(s)
  <2>1. p \in K /\ K \in SUBSET Int
    OBVIOUS
  <2>2. Layout(h, K, F)
    OBVIOUS
  <2> HIDE DEF K
  <2> QED BY <2>1, <2>2, InHand DEF Layout, Ground
<1>3. o \in Int /\ o >= 0 /\ s[p].size \in Int /\ s[p].size > 0
  BY <1>2 DEF Sized
<1>4. Kernel(s, h.brk, h.maps, F) /\ <<a, n>> \in h.maps
  <2>1. Kernel(s, h.brk, h.maps, F)
    BY DEF Layout, Ground
  <2>2. <<p - s[p].off, s[p].off + s[p].size>> \in h.maps
    BY <1>2, <2>1 DEF Kernel
  <2> QED BY <2>1, <2>2
<1> HIDE DEF o
<1>5. a \in Int /\ n \in Int /\ b \in Int /\ b >= 0 /\ b < n /\ a + b = q /\ n > 0
  BY <1>1, <1>3
<1>6. a >= MmapFloor /\ \A r \in h.maps \ {<<a, n>>} : a + n <= r[1] \/ r[1] + r[2] <= a
  <2> HIDE DEF a, n
  <2> QED BY <1>4, OwnRoom
<1> HIDE DEF a, n, b
<1>7. Drop(h, p) \in Heaps /\ Shape(Drop(h, p)) = Del(s, p) /\ HeadsOnly(h, Drop(h, p))
  <2>1. Drop(h, p) \in Good
    BY DropKeeps
  <2> QED BY <2>1, DropIs DEF Good
<1>8. Shape(w) = Del(s, p) /\ SameLists(h, w) /\ w.brk = h.brk /\ w.maps = h.maps \ {<<a, n>>} /\ w.aborted = h.aborted
  <2>1. /\ w.mem = Drop(h, p).mem /\ SameLists(Drop(h, p), w) /\ w.brk = Drop(h, p).brk /\ w.maps = h.maps \ {<<a, n>>}
        /\ w.aborted = Drop(h, p).aborted
    BY <1>7 DEF Heaps, SameLists
  <2> HIDE DEF w
  <2>2. Shape(w) = Shape(Drop(h, p))
    BY <2>1 DEF Shape
  <2> QED BY <1>7, <2>1, <2>2 DEF HeadsOnly, SameLists
<1>9. /\ m.mem = w.mem /\ SameLists(w, m) /\ m.brk = w.brk /\ m.maps = w.maps \union {<<a, n>>} /\ m.aborted = w.aborted
  BY <1>7 DEF Heaps, SameLists
<1> HIDE DEF w, m
<1>10. LosesMap(h, w, p)
  BY <1>8 DEF LosesMap, a, n, o
<1>11. Layout(w, H, F) /\ Same(h, w, H)
  <2>1. K \ {p} = H /\ p \in K /\ K \in SUBSET Int /\ Layout(h, K, F)
    OBVIOUS
  <2> HIDE DEF K
  <2>2. OneLess(h, w, K, F, p)
    BY <1>10, <2>1, MapLost
  <2> QED BY <2>1, <2>2 DEF OneLess, Same
<1>12. Mapped(w, m, a, n)
  BY <1>5, <1>6, <1>8, <1>9 DEF Mapped
<1>13. Layout(m, H, G) /\ Shape(m) = Shape(w) /\ Claims(m, G, F, a, n)
  BY <1>5, <1>11, <1>12, MapMoved
<1>14. TakesMap(m, k, G, F, a, n, b)
  <2>1. m.maps = h.maps /\ m.brk = h.brk
    BY <1>4, <1>8, <1>9
  <2>2. SameLists(m, k) /\ k.brk = m.brk /\ k.maps = m.maps
    BY <1>1, <1>8, <1>9, <2>1 DEF HeadsOnly, SameLists
  <2>3. Shape(k) = Upd(Shape(m), a + b, Mapping(n, b))
    BY <1>1, <1>5, <1>8, <1>13
  <2> HIDE DEF G
  <2> QED BY <1>4, <1>5, <1>13, <2>1, <2>2, <2>3 DEF TakesMap
<1>15. OneMore(m, k, H, F, q, Mapping(n, b))
  <2> HIDE DEF G
  <2>1. OneMore(m, k, H, F, a + b, Mapping(n, b))
    BY <1>13, <1>14, MapTaken
  <2> QED BY <1>5, <2>1
<1>16. k.aborted = h.aborted
  BY <1>1 DEF HeadsOnly
<1>17. Same(h, k, H)
  BY <1>11, <1>13, <1>15 DEF Same, OneMore
<1> QED BY <1>15, <1>16, <1>17 DEF OneMore, Shifted, b, n, o

(* A heap in which what was taken for q is not lost. *)
LEMMA GivesAfter ==
  ASSUME NEW h, NEW K, NEW H, NEW F, NEW nb, NEW g \in Reach(h, K, F, H), NEW a \in Gives(g, H, F, nb)
  PROVE  a \in Gives(h, H, F, nb)
<1> DEFINE L == H \union ({a.p} \ {NULL})
<1>1. a.h \in Reach(g, L, F, H) /\ a \in [h : Good, p : Aligned \union {NULL}]
  BY DEF Gives
<1>2. ~a.h.aborted /\ a.p # NULL => a.p \notin H /\ Fits(a.h, a.p, nb)
  BY DEF Gives
<1> HIDE DEF L
<1>3. H \subseteq H
  OBVIOUS
<1>4. a.h \in Reach(h, L, F, H)
  BY <1>1, <1>3, ReachTwice
<1> QED BY <1>1, <1>2, <1>4 DEF Gives, L

(* memalign of a mapping. *)
LEMMA ShiftIsSound ==
  ASSUME NEW H \in SUBSET Int, NEW F, NEW p \in Aligned, NEW h \in Sound(H \union {p}, F), NEW q \in Aligned, NEW nb \in Chunky,
         ~h.aborted => /\ p \notin H /\ Shape(h)[p].mapped
                       /\ q >= p /\ Shape(h)[p].size >= nb + 1 + (q - p)
  PROVE  Answer(ShiftMapped(h, p, q), q) \in Gives(h, H, F, nb)
<1> DEFINE d == q - p
           head == [At(h, p) EXCEPT !.prev_size = At(h, p).prev_size + d, !.size = At(h, p).size - d]
           k == Put(Drop(h, p), q, head)
           s == Shape(h)
           n == s[p].off + s[p].size
           b == s[p].off + d
<1>1. h \in Good /\ h \in Heaps /\ (~h.aborted => Layout(h, H \union {p}, F)) /\ p \in Int /\ q \in Int /\ nb \in Int /\ nb >= MINSIZE /\ d \in Aligned
  BY SoundIs, EvenSums DEF Aligned, Chunky
<1>2. ShiftMapped(h, p, q) = k
  BY DEF ShiftMapped
<1>3. d \in Int
  BY <1>1
<1> HIDE DEF d
<1>4. At(h, p) \in Heads /\ At(h, p).prev_size \in Aligned /\ At(h, p).size \in Aligned
  BY <1>1, HeadFields DEF Heads
<1>5. head \in Heads
  <2>1. At(h, p).prev_size + d \in Aligned /\ At(h, p).size - d \in Aligned
    BY <1>1, <1>4, EvenSums
  <2> QED BY <1>4, <2>1 DEF Heads
<1>6. ShapeOf(head) = [size |-> At(h, p).size - d, mapped |-> mmapped(h, p), off |-> IF mmapped(h, p) THEN At(h, p).prev_size + d ELSE 0]
  BY <1>4 DEF ShapeOf, Heads, mmapped
<1> HIDE DEF head
<1>7. Drop(h, p) \in Good /\ Drop(h, p) \in Heaps /\ Shape(Drop(h, p)) = Del(s, p) /\ HeadsOnly(h, Drop(h, p))
  <2>1. Drop(h, p) \in Good
    BY <1>1, DropKeeps
  <2> QED BY <1>1, <2>1, DropIs DEF Good
<1>8. k \in Good
  BY <1>5, <1>7, PutKeeps
<1>9. Shape(k) = Upd(Del(s, p), q, ShapeOf(head)) /\ HeadsOnly(h, k)
  <2>1. Shape(k) = Upd(Shape(Drop(h, p)), q, ShapeOf(head))
    BY <1>7, ShapePut
  <2>2. HeadsOnly(Drop(h, p), k)
    BY <1>7 DEF Put, HeadsOnly, Heaps
  <2> QED BY <1>7, <2>1, <2>2 DEF HeadsOnly
<1> HIDE DEF k
<1>10. k.aborted = h.aborted
  BY <1>9 DEF HeadsOnly
<1>11. CASE h.aborted
  <2>1. k \in Reach(h, H \union {q}, F, H)
    BY <1>8, <1>10, <1>11, AbortedReaches
  <2> QED BY <1>2, <1>10, <1>11, <2>1, GivesThis
<1>12. CASE ~h.aborted
  <2>1. p \notin H /\ s[p].mapped /\ q >= p /\ s[p].size >= nb + 1 + (q - p) /\ Layout(h, H \union {p}, F)
    BY <1>1, <1>12
  <2>2. p \in DOMAIN s /\ Sized(s)
    <3> DEFINE K == H \union {p}
    <3>1. p \in K /\ K \in SUBSET Int /\ Layout(h, K, F)
      BY <1>1, <2>1
    <3> HIDE DEF K
    <3> QED BY <3>1, InHand DEF Layout, Ground
  <2>3. s[p].off = At(h, p).prev_size /\ s[p].size = At(h, p).size /\ mmapped(h, p)
    BY <2>1, <2>2, ShapeIs DEF chunksize, prev_size
  <2>4. s[p].off \in Int /\ s[p].off >= 0 /\ s[p].size \in Int
    BY <2>2 DEF Sized
  <2>5. ShapeOf(head) = Mapping(n, b)
    <3>1. n - b = At(h, p).size - d
      BY <1>3, <2>3, <2>4
    <3> QED BY <1>6, <2>3, <3>1 DEF Mapping
  <2>6. Shifts(h, k, p, q)
    <3>1. q - p < s[p].size
      BY <1>1, <2>1, <2>4 DEF MINSIZE, SIZE_SZ
    <3>2. Shape(k) = Upd(Del(s, p), q, Mapping(n, s[p].off + (q - p)))
      BY <1>9, <2>5 DEF d
    <3> QED BY <1>1, <1>9, <2>1, <3>1, <3>2 DEF Shifts
  <2>7. Shifted(h, k, H, F, q, Mapping(n, s[p].off + (q - p)))
    BY <1>1, <2>1, <2>6, ShiftedIsSound
  <2>8. Layout(k, H \union {q}, F) /\ q \notin H /\ q \in DOMAIN Shape(k) /\ Shape(k)[q] = Mapping(n, s[p].off + (q - p)) /\ Same(h, k, H)
    BY <2>7 DEF Shifted
  <2>9. k \in Reach(h, H \union {q}, F, H)
    <3>1. k.tcache = h.tcache
      BY <1>9 DEF HeadsOnly
    <3> QED BY <1>8, <1>10, <2>8, <3>1 DEF Reach, Sound, Onward, Same
  <2>10. Fits(k, q, nb)
    <3>1. Shape(k)[q].size = s[p].size - (q - p)
      BY <1>1, <2>4, <2>8 DEF Mapping
    <3> QED BY <1>1, <2>1, <2>4, <2>8, <3>1 DEF Fits
  <2> QED BY <1>2, <2>8, <2>9, <2>10, GivesThis
<1> QED BY <1>11, <1>12

(* memalign of a chunk of the heap: what precedes q goes back, then what is not needed. *)
LEMMA CutFromHeap ==
  ASSUME NEW H \in SUBSET Int, NEW F, NEW p \in Aligned, NEW h \in Sound(H \union {p}, F), NEW q \in Aligned, NEW nb \in Chunky,
         q = p \/ q - p >= MINSIZE,
         ~h.aborted => /\ p \notin H /\ ~Shape(h)[p].mapped
                       /\ Shape(h)[p].size >= nb + (q - p)
  PROVE  CutToSize(IF q = p THEN h ELSE GiveBackLead(h, p, q), q, nb) \in Gives(h, H, F, nb)
<1> DEFINE K == H \union {p}
           B == K \ {p}
           L == B \union {q}
           g == IF q = p THEN h ELSE GiveBackLead(h, p, q)
           ok == chunksize(g, q) >= nb
           c == Check(g, ok)
           k == GiveBackSpare(c, q, nb)
<1>1. h \in Good /\ h \in Sound(K, F) /\ p \in Int /\ q \in Int /\ nb \in Int /\ nb >= MINSIZE /\ K \in SUBSET Int /\ p \in K
  BY SoundIs DEF Aligned, Chunky
<1>2. CutToSize(g, q, nb) = Answer(k, q)
  BY DEF CutToSize
<1>3. ~h.aborted => Layout(h, K, F)
  BY SoundIs
<1>4. ~h.aborted => p \in DOMAIN Shape(h) /\ Shape(h)[p].size \in Int /\ B = H
  <2> SUFFICES ASSUME ~h.aborted PROVE p \in DOMAIN Shape(h) /\ Shape(h)[p].size \in Int /\ B = H
    OBVIOUS
  <2> HIDE DEF K
  <2>1. p \in DOMAIN Shape(h) /\ Sized(Shape(h))
    BY <1>1, <1>3, InHand DEF Layout, Ground
  <2>2. Shape(h)[p].size \in Int
    BY <2>1 DEF Sized
  <2> QED BY <2>1, <2>2 DEF K
<1>5. /\ g \in Reach(h, L, F, B)
      /\ ~g.aborted => ~h.aborted /\ q \notin B /\ q \in DOMAIN Shape(g) /\ ~Shape(g)[q].mapped
  <2>1. CASE q = p
    <3>1. g = h /\ L = K
      BY <1>1, <2>1
    <3>2. h \in Reach(h, K, F, B)
      <4> HIDE DEF K, B
      <4> QED BY <1>1, Stay
    <3> HIDE DEF g, L, K
    <3> QED BY <1>4, <2>1, <3>1, <3>2 DEF K
  <2>2. CASE q # p
    <3>1. g = GiveBackLead(h, p, q)
      BY <2>2
    <3> DEFINE n == q - p
    <3>2. n \in Int /\ n >= MINSIZE /\ p + n = q
      BY <1>1, <2>2
    <3>3. ~h.aborted => ~Shape(h)[p].mapped /\ Shape(h)[p].size - (q - p) >= MINSIZE
      BY <1>1, <1>4 DEF MINSIZE, SIZE_SZ
    <3>4. q - p >= MINSIZE
      BY <2>2
    <3> HIDE DEF g, K
    <3>5. FreesLower(h, GiveBackLead(h, p, q), K, F, p, q - p)
      BY <1>1, <3>3, <3>4, LeadIsSound
    <3>6. FreesLower(h, g, K, F, p, n)
      BY <3>1, <3>5
    <3> HIDE DEF n
    <3>7. g \in Reach(h, B \union {p + n}, F, B)
      BY <3>6 DEF FreesLower
    <3>8. ~g.aborted => p + n \notin K /\ p + n \in DOMAIN Shape(g) /\ Shape(g)[p + n] = Plain(Shape(h)[p].size - n)
      BY <3>6 DEF FreesLower
    <3>9. ~g.aborted => ~h.aborted
      BY <3>7, ReachIs
    <3> HIDE DEF B
    <3>10. p + n = q
      BY <3>2
    <3>11. g \in Reach(h, B \union {q}, F, B) /\ (~g.aborted => q \notin K /\ q \in DOMAIN Shape(g) /\ Shape(g)[q] = Plain(Shape(h)[p].size - n))
      BY <3>7, <3>8, <3>10
    <3>12. ~g.aborted => q \notin B /\ ~Shape(g)[q].mapped
      BY <3>11 DEF B, Plain
    <3> QED BY <3>9, <3>11, <3>12
  <2> QED BY <2>1, <2>2
<1> HIDE DEF g, K, ok
<1>6. L \in SUBSET Int /\ q \in L /\ L \ {q} \subseteq B /\ (q \notin B => L \ {q} = B)
  BY <1>1
<1>7. g \in Sound(L, F)
  BY <1>5, ReachIs
<1> HIDE DEF L, B
<1>8. c \in Reach(g, L, F, L) /\ c \in Sound(L, F) /\ (~c.aborted => ok /\ ~g.aborted /\ c = g)
  BY <1>7, CheckReaches
<1> HIDE DEF c
<1>9. ~c.aborted => ~Shape(c)[q].mapped /\ Shape(c)[q].size >= nb
  BY <1>5, <1>8, SizeIs DEF ok
<1>10. KeepsRoom(c, k, L, F, q, nb)
  BY <1>6, <1>8, <1>9, SpareIsSound
<1> HIDE DEF k
<1>11. k \in Reach(c, L, F, L \ {q}) /\ (~k.aborted => q \in DOMAIN Shape(k) /\ ~Shape(k)[q].mapped /\ Shape(k)[q].size >= nb)
  BY <1>10 DEF KeepsRoom
<1>12. CASE k.aborted
  <2>1. k \in Good
    BY <1>11, ReachIs
  <2>2. k \in Reach(h, H \union {q}, F, H)
    BY <1>12, <2>1, AbortedReaches
  <2>3. Answer(k, q) \in Gives(h, H, F, nb)
    BY <1>12, <2>2, GivesThis
  <2> QED BY <1>2, <2>3 DEF g
<1>13. CASE ~k.aborted
  <2>1. ~c.aborted /\ ~g.aborted /\ ~h.aborted /\ q \notin B
    BY <1>5, <1>8, <1>11, <1>13, ReachIs
  <2>2. B = H /\ L \ {q} = H /\ L = H \union {q} /\ q \notin H
    BY <1>4, <1>6, <2>1 DEF L
  <2>3. c = g
    BY <1>8, <2>1
  <2>4. k \in Reach(g, L, F, H) /\ g \in Reach(h, L, F, H) /\ H \subseteq H
    BY <1>5, <1>11, <2>2, <2>3
  <2>5. k \in Reach(h, L, F, H)
    BY <2>4, ReachTwice
  <2>6. Fits(k, q, nb)
    BY <1>11, <1>13 DEF Fits
  <2>7. Answer(k, q) \in Gives(h, H, F, nb)
    <3>1. k \in Reach(h, H \union {q}, F, H)
      BY <2>2, <2>5
    <3> QED BY <2>2, <2>6, <3>1, GivesThis
  <2> QED BY <1>2, <2>7 DEF g
<1> QED BY <1>12, <1>13

(* Where memalign cuts a chunk, there is room for a chunk before it. *)
LEMMA AlignedAtNear ==
  ASSUME NEW p \in Aligned, NEW a \in Powers, NEW q, q = AlignedAt(p, a)
  PROVE  q \in Int /\ q >= p /\ q - p < a + MINSIZE /\ (q = p \/ q - p >= MINSIZE)
<1> DEFINE n == p + CHUNK_HDR_SZ + a - 1
           k == n \div a
           z == k * a
           b == z - CHUNK_HDR_SZ
<1>1. a \in Nat \ {0} /\ a >= 4 /\ p \in Int /\ n \in Int
  <2>1. a \in Nat \ {0} /\ p \in Int
    BY PowerMultiple DEF Aligned
  <2>2. a >= 4
    BY DEF Powers
  <2> QED BY <2>1, <2>2 DEF CHUNK_HDR_SZ, SIZE_SZ
<1>2. q = IF b # p /\ b - p < MINSIZE THEN b + a ELSE b
  BY DEF AlignedAt, AlignUp
<1> HIDE DEF n
<1>3. k \in Int /\ k * a <= n /\ n < k * a + a
  BY <1>1, SMTT(30)
<1> HIDE DEF k
<1>4. z \in Int /\ z <= n /\ n < z + a
  BY <1>1, <1>3
<1> HIDE DEF z
<1>5. b \in Int /\ b >= p /\ b - p < a
  BY <1>1, <1>4 DEF n, CHUNK_HDR_SZ, SIZE_SZ
<1> HIDE DEF b
<1> QED BY <1>1, <1>2, <1>5 DEF MINSIZE, SIZE_SZ

(* A chunk is larger than its object by one word. *)
LEMMA RequestHasRoom ==
  ASSUME NEW n \in Int
  PROVE  request2size(n) \in Int /\ request2size(n) >= n + SIZE_SZ
<1>1. request2size(n) \in Int
  BY RequestIs
<1>2. ((n + 2) \div 2) * 2 >= n + 1
  OBVIOUS
<1>3. request2size(n) = IF n + 2 < 4 THEN 4 ELSE ((n + 2) \div 2) * 2
  BY DEF request2size, AlignDown, MALLOC_ALIGNMENT, MINSIZE, SIZE_SZ
<1> QED BY <1>1, <1>2, <1>3 DEF SIZE_SZ

(* _int_memalign's cuts of the chunk it has allocated give a chunk that    *)
(* fits.                                                                   *)
LEMMA CutIsSound ==
  ASSUME NEW H \in SUBSET Int, NEW F, NEW p \in Aligned, NEW h \in Sound(H \union {p}, F), NEW q \in Aligned, NEW nb \in Chunky,
         q >= p, q = p \/ q - p >= MINSIZE,
         ~h.aborted => p \notin H /\ Fits(h, p, nb + 1 + (q - p))
  PROVE  CutAligned(h, p, q, nb) \in Gives(h, H, F, nb)
<1> DEFINE g == IF q = p THEN h ELSE GiveBackLead(h, p, q)
<1>1. CutAligned(h, p, q, nb) = IF mmapped(h, p) THEN Answer(ShiftMapped(h, p, q), q) ELSE CutToSize(g, q, nb)
  <2>1. p # NULL
    BY PtAssumption DEF Aligned
  <2> QED BY <2>1 DEF CutAligned
<1>2. ~h.aborted => p \notin H /\ Shape(h)[p].size >= nb + 1 + (q - p) /\ Shape(h)[p].mapped = mmapped(h, p)
  BY SizeIs DEF Fits
<1>3. ~h.aborted => Shape(h)[p].size >= nb + (q - p)
  <2> SUFFICES ASSUME ~h.aborted PROVE Shape(h)[p].size >= nb + (q - p)
    OBVIOUS
  <2>1. Shape(h)[p].size = chunksize(h, p)
    BY SizeIs DEF Fits
  <2>2. chunksize(h, p) \in Aligned
    BY SoundIs, HeadFields
  <2>3. chunksize(h, p) \in Int /\ nb \in Int /\ q \in Int /\ p \in Int
    BY <2>2 DEF Aligned, Chunky
  <2> QED BY <1>2, <2>1, <2>3
<1>4. CASE mmapped(h, p)
  <2>1. ~h.aborted => /\ p \notin H /\ Shape(h)[p].mapped
                      /\ q >= p /\ Shape(h)[p].size >= nb + 1 + (q - p)
    BY <1>2, <1>4
  <2>2. Answer(ShiftMapped(h, p, q), q) \in Gives(h, H, F, nb)
    BY <2>1, ShiftIsSound
  <2> QED BY <1>1, <1>4, <2>2
<1>5. CASE ~mmapped(h, p)
  <2>1. ~h.aborted => /\ p \notin H /\ ~Shape(h)[p].mapped
                      /\ Shape(h)[p].size >= nb + (q - p)
    BY <1>2, <1>3, <1>5
  <2>2. CutToSize(IF q = p THEN h ELSE GiveBackLead(h, p, q), q, nb) \in Gives(h, H, F, nb)
    BY <2>1, CutFromHeap
  <2> QED BY <1>1, <1>5, <2>2
<1> QED BY <1>4, <1>5

(* A chunk that fits a request fits a smaller one. *)
LEMMA FitsLess ==
  ASSUME NEW H, NEW F, NEW h \in Sound(H, F), ~h.aborted, NEW p, NEW n \in Int, Fits(h, p, n), NEW m \in Int, m <= n
  PROVE  Fits(h, p, m)
<1>1. Shape(h)[p].size \in Int
  BY FitsHasRoom
<1> QED BY <1>1 DEF Fits

(* _int_memalign answers a chunk that fits, or NULL, and keeps the layout. *)
LEMMA IntMemalignIsSound ==
  ASSUME NEW H \in SUBSET Int, NEW F, NEW h \in Sound(H, F), NEW a \in Powers, NEW bytes \in Int
  PROVE  int_memalign(h, a, bytes) \in Gives(h, H, F, request2size(bytes))
<1> DEFINE nb == request2size(bytes)
           r == request2size(nb + a + MINSIZE)
           m == int_malloc(h, r)
           x == m.h
           p == m.p
           q == AlignedAt(p, a)
<1>1. nb \in Chunky /\ nb \in Int
  BY RequestIsChunky, RequestIs
<1> HIDE DEF nb
<1>2. a \in Int /\ r \in Chunky /\ r \in Int /\ r >= nb + a + MINSIZE + 1
  <2>1. a \in Int /\ nb + a + MINSIZE \in Int
    BY <1>1, PowerMultiple DEF MINSIZE, SIZE_SZ
  <2>2. r \in Chunky
    BY <2>1, RequestIsChunky
  <2>3. r \in Int /\ r >= nb + a + MINSIZE + SIZE_SZ
    BY <2>1, RequestHasRoom
  <2> QED BY <2>1, <2>2, <2>3 DEF SIZE_SZ
<1> HIDE DEF r
<1>3. m \in Gives(h, H, F, r)
  BY <1>2, MallocIsSound
<1>4. int_memalign(h, a, bytes) = CutAligned(x, p, q, nb)
  BY DEF int_memalign, MemalignFrom, nb, r
<1> HIDE DEF m
<1>5. /\ x \in Good /\ p \in Aligned \union {NULL} /\ m = Answer(x, p)
      /\ p = NULL => x \in Reach(h, H, F, H)
      /\ p # NULL => p \in Aligned /\ p \in Int /\ x \in Reach(h, H \union {p}, F, H)
      /\ ~x.aborted /\ p # NULL => p \notin H /\ Fits(x, p, r)
  BY <1>3, GivesIs
<1> HIDE DEF x, p
<1>6. CASE p = NULL
  <2>1. CutAligned(x, p, q, nb) = Answer(x, NULL)
    BY <1>6 DEF CutAligned
  <2>2. Answer(x, NULL) \in Gives(h, H, F, nb)
    BY <1>5, <1>6, GivesNothing
  <2> QED BY <1>4, <2>1, <2>2 DEF nb
<1>7. CASE p # NULL
  <2> DEFINE K == H \union {p}
  <2>1. p \in Aligned /\ p \in Int /\ x \in Reach(h, K, F, H)
    BY <1>5, <1>7
  <2>2. x \in Sound(H \union {p}, F)
    BY <2>1, ReachIs
  <2>3. q \in Aligned
    BY <2>1, AlignedAtIs
  <2>4. q \in Int /\ q >= p /\ q - p < a + MINSIZE /\ (q = p \/ q - p >= MINSIZE)
    BY <2>1, AlignedAtNear
  <2> HIDE DEF q
  <2>5. nb + 1 + (q - p) \in Int /\ nb + 1 + (q - p) <= r
    BY <1>1, <1>2, <2>1, <2>4 DEF MINSIZE, SIZE_SZ
  <2>6. ~x.aborted => p \notin H /\ Fits(x, p, nb + 1 + (q - p))
    <3> DEFINE z == nb + 1 + (q - p)
    <3>1. z \in Int /\ z <= r
      BY <2>5
    <3> HIDE DEF z
    <3>2. ~x.aborted => p \notin H /\ Fits(x, p, z)
      <4> DEFINE L == H \union {p}
      <4>1. x \in Sound(L, F)
        BY <2>2
      <4> HIDE DEF L, K
      <4> QED BY <1>2, <1>5, <1>7, <3>1, <4>1, FitsLess
    <3> QED BY <3>2 DEF z
  <2>7. CutAligned(x, p, q, nb) \in Gives(x, H, F, nb)
    BY <1>1, <2>1, <2>2, <2>3, <2>4, <2>6, CutIsSound
  <2> DEFINE g == CutAligned(x, p, q, nb)
  <2> HIDE DEF g, K
  <2>8. g \in Gives(x, H, F, nb)
    BY <2>7 DEF g
  <2>9. g \in Gives(h, H, F, nb)
    BY <2>1, <2>8, GivesAfter
  <2> QED BY <1>4, <2>9 DEF g, nb
<1> QED BY <1>6, <1>7

(* So do memalign, *)
LEMMA LibcMemalignIsSound ==
  ASSUME NEW H \in SUBSET Int, NEW F, NEW h \in Sound(H, F), NEW a \in {1, 2} \union Powers, NEW bytes \in Int
  PROVE  libc_memalign(h, a, bytes) \in Provides(h, H, F, request2size(bytes))
<1> DEFINE nb == request2size(bytes)
<1>1. h \in Later(h, H, F, H)
  BY StayLater
<1>2. CASE a \in {1, 2}
  <2>1. a <= MALLOC_ALIGNMENT
    BY <1>2 DEF MALLOC_ALIGNMENT, SIZE_SZ
  <2>2. libc_memalign(h, a, bytes) = libc_malloc(h, bytes)
    BY <2>1 DEF libc_memalign
  <2> QED BY <2>2, LibcMallocIsSound
<1>3. CASE a \in Powers
  <2>1. Alignment(a) = a /\ a > MALLOC_ALIGNMENT /\ a \in Nat
    BY <1>3, AlignmentIs, PowerMultiple
  <2>2. ~(a <= MALLOC_ALIGNMENT)
    BY <2>1 DEF MALLOC_ALIGNMENT, SIZE_SZ
  <2>3. libc_memalign(h, a, bytes) = IF ~Representable(bytes) THEN Answer(h, NULL) ELSE int_memalign(h, a, bytes)
    BY <2>1, <2>2 DEF libc_memalign
  <2>4. int_memalign(h, a, bytes) \in Gives(h, H, F, nb)
    BY <1>3, IntMemalignIsSound
  <2> DEFINE g == int_memalign(h, a, bytes)
  <2> HIDE DEF nb, g
  <2>5. g \in Provides(h, H, F, nb)
    BY <1>1, <2>4, GivesProvides DEF g
  <2>6. Answer(h, NULL) \in Provides(h, H, F, nb)
    BY <1>1, ProvidesNothing
  <2> QED BY <2>3, <2>5, <2>6 DEF nb, g
<1> QED BY <1>2, <1>3

(* A larger request. *)
LEMMA RequestGrows ==
  ASSUME NEW n \in Int, NEW m \in Int, n <= m
  PROVE  request2size(n) <= request2size(m)
<1>1. \A k \in Int : request2size(k) = IF k + 2 < 4 THEN 4 ELSE ((k + 2) \div 2) * 2
  BY DEF request2size, AlignDown, MALLOC_ALIGNMENT, MINSIZE, SIZE_SZ
<1>2. ((n + 2) \div 2) * 2 <= ((m + 2) \div 2) * 2
  OBVIOUS
<1>3. m + 2 >= 4 => ((m + 2) \div 2) * 2 >= 4
  OBVIOUS
<1> QED BY <1>1, <1>2, <1>3

(* and pvalloc. *)
LEMMA PvallocIsSound ==
  ASSUME NEW H \in SUBSET Int, NEW F, NEW h \in Sound(H, F), NEW bytes \in Int
  PROVE  libc_pvalloc(h, bytes) \in Provides(h, H, F, request2size(bytes))
<1> DEFINE up == bytes + PageSize - 1
           n == AlignDown(up, PageSize) + (up % 2)
           nb == request2size(bytes)
           a == libc_memalign(h, PageSize, n)
<1>1. up \in Int /\ PageSize \in Int
  BY PageSizes
<1>2. n \in Int /\ n >= bytes
  <2>1. AlignDown(up, PageSize) \in Int /\ AlignDown(up, PageSize) > up - PageSize
    BY <1>1, PageArithmetic
  <2>2. up % 2 \in Int /\ up % 2 >= 0
    BY <1>1
  <2> QED BY <1>1, <2>1, <2>2
<1>3. libc_pvalloc(h, bytes) = a
  BY DEF libc_pvalloc, libc_valloc
<1> HIDE DEF n
<1>4. a \in Provides(h, H, F, request2size(n))
  BY <1>2, PageSizes, LibcMemalignIsSound
<1> DEFINE z == request2size(n)
           x == a.h
           p == a.p
<1>5. nb \in Int /\ z \in Int /\ nb <= z
  BY <1>2, RequestIs, RequestGrows
<1> HIDE DEF a, z, nb
<1>6. /\ x \in Good /\ p \in Aligned \union {NULL} /\ a = Answer(x, p)
      /\ p = NULL => x \in Later(h, H, F, H)
      /\ p # NULL => p \in Aligned /\ p \in Int /\ x \in Later(h, H \union {p}, F, H)
      /\ ~x.aborted /\ p # NULL => p \notin H /\ Fits(x, p, z)
  BY <1>4, ProvidesIs DEF z
<1> HIDE DEF x, p
<1>7. CASE p = NULL
  BY <1>3, <1>6, <1>7, ProvidesNothing DEF nb
<1>8. CASE p # NULL
  <2> DEFINE L == H \union {p}
  <2>1. x \in Later(h, L, F, H)
    BY <1>6, <1>8
  <2>2. x \in Sound(L, F)
    BY <2>1, LaterIs
  <2> HIDE DEF L
  <2>3. ~x.aborted => p \notin H /\ Fits(x, p, nb)
    BY <1>5, <1>6, <1>8, <2>2, FitsLess
  <2>4. Answer(x, p) \in Provides(h, H, F, nb)
    BY <1>6, <1>8, <2>3, ProvidesThis
  <2> QED BY <1>3, <1>6, <2>4 DEF nb
<1> QED BY <1>7, <1>8

-----------------------------------------------------------------------------
(* The steps of PtHeap, and the inductive invariant. *)

(* Settings, statistics and what is known of the words do not concern the chunks. *)
Notes(h, g) == SameLayout(h, g) /\ g.aborted = h.aborted

(* What is known of the words, settings and statistics does not concern    *)
(* the layout.                                                             *)
LEMMA NotesReach ==
  ASSUME NEW H, NEW F, NEW h \in Sound(H, F), NEW g \in Good, Notes(h, g), NEW C
  PROVE  g \in Reach(h, H, F, C) /\ g \in Sound(H, F) /\ Shape(g) = Shape(h)
<1>1. SameLayout(h, g) /\ (~g.aborted => ~h.aborted)
  BY DEF Notes
<1>2. g \in Sound(H, F) /\ Onward(h, g, C)
  BY <1>1, SoundFrame
<1>3. Shape(g) = Shape(h)
  BY <1>1 DEF SameLayout, Shape
<1> QED BY <1>2, <1>3 DEF Reach

(* calloc answers as malloc does, and keeps the layout. *)
LEMMA CallocIsSound ==
  ASSUME NEW H \in SUBSET Int, NEW F, NEW h \in Sound(H, F), NEW bytes \in Int
  PROVE  Answer(libc_calloc(h, bytes).h, libc_calloc(h, bytes).p) \in Provides(h, H, F, request2size(bytes))
<1> DEFINE nb == request2size(bytes)
           g == tcache_init(h)
           a == int_malloc(g, nb)
           x == a.h
           p == a.p
           r == libc_calloc(h, bytes)
           ok == mmapped(x, p) \/ Cleared(g, a) >= 3
           c == Check(x, ok)
<1>1. nb \in Chunky
  BY RequestIsChunky
<1>2. g \in Later(h, H, F, H) /\ g \in Sound(H, F)
  BY TcacheInitIsSound, LaterIs
<1> HIDE DEF g, nb
<1>3. a \in Gives(g, H, F, nb)
  BY <1>1, <1>2, MallocIsSound
<1>4. r = IF Representable(bytes) THEN CallocFrom(g, a) ELSE [h |-> g, p |-> NULL, cleared |-> 0]
  BY DEF libc_calloc, CallocIn, g, nb
<1> HIDE DEF a, r
<1>5. a \in Provides(h, H, F, nb)
  BY <1>2, <1>3, GivesProvides
<1>6. /\ x \in Good /\ p \in Aligned \union {NULL} /\ a = Answer(x, p)
      /\ p = NULL => x \in Later(h, H, F, H)
      /\ p # NULL => p \in Aligned /\ p \in Int /\ x \in Later(h, H \union {p}, F, H)
      /\ ~x.aborted /\ p # NULL => p \notin H /\ Fits(x, p, nb)
  BY <1>5, ProvidesIs
<1> HIDE DEF x
<1>7. CASE ~Representable(bytes)
  <2>1. r.h = g /\ r.p = NULL
    BY <1>4, <1>7
  <2>2. Answer(g, NULL) \in Provides(h, H, F, nb)
    BY <1>2, ProvidesNothing
  <2> QED BY <2>1, <2>2 DEF nb, r
<1>8. CASE Representable(bytes) /\ p = NULL
  <2>1. r.h = x /\ r.p = NULL
    BY <1>4, <1>8 DEF CallocFrom, x
  <2>2. Answer(x, NULL) \in Provides(h, H, F, nb)
    BY <1>6, <1>8, ProvidesNothing
  <2> QED BY <2>1, <2>2 DEF nb, r
<1>9. CASE Representable(bytes) /\ p # NULL
  <2>1. r.h = c /\ r.p = p
    BY <1>4, <1>9 DEF CallocFrom, Clean, x
  <2> DEFINE L == H \union {p}
  <2>2. L \in SUBSET Int /\ x \in Later(h, L, F, H) /\ x \in Sound(L, F)
    BY <1>6, <1>9, LaterIs
  <2> HIDE DEF ok, L, p
  <2>3. c \in Reach(x, L, F, H) /\ (~c.aborted => c = x)
    BY <2>2, CheckReaches
  <2> HIDE DEF c
  <2>4. c \in Later(x, L, F, H) /\ H \subseteq H
    BY <2>3, ReachIsLater
  <2>5. c \in Later(h, L, F, H)
    BY <2>2, <2>4, LaterTwice
  <2>6. ~c.aborted => p \notin H /\ Fits(c, p, nb)
    BY <1>6, <1>9, <2>3
  <2>7. Answer(c, p) \in Provides(h, H, F, nb)
    <3>1. c \in Later(h, H \union {p}, F, H)
      BY <2>5 DEF L
    <3> QED BY <1>6, <1>9, <2>6, <3>1, ProvidesThis
  <2> QED BY <2>1, <2>7 DEF nb, r
<1> QED BY <1>7, <1>8, <1>9

(* malloc_trim keeps the layout and all objects. *)
LEMMA MtrimIsSound ==
  ASSUME NEW H \in SUBSET Int, NEW F, NEW h \in Sound(H, F), NEW pad \in 0 .. PTRDIFF_MAX
  PROVE  mtrim(h, pad).h \in Reach(h, H, F, H)
<1> DEFINE g == malloc_consolidate(h)
           soiled == g.soiled \ Advised(g)
           k == [g EXCEPT !.soiled = soiled]
           r == systrim(k, pad).h
<1>1. g \in Reach(h, H, F, H) /\ g \in Sound(H, F) /\ g \in Good
  BY ConsolidateReaches, ReachIs
<1>2. mtrim(h, pad).h = r
  BY DEF mtrim, TrimAll, TrimBoth
<1> HIDE DEF g
<1>3. soiled \in SUBSET Int
  BY <1>1 DEF Good, Heaps
<1> HIDE DEF soiled
<1>4. k \in Good /\ Notes(g, k)
  BY <1>1, <1>3 DEF Good, Heaps, Notes, SameLayout
<1> HIDE DEF k
<1>5. k \in Reach(g, H, F, H) /\ k \in Sound(H, F)
  BY <1>1, <1>4, NotesReach
<1>6. r \in Reach(k, H, F, H)
  BY <1>5, SystrimIsSound
<1> HIDE DEF r
<1>7. H \subseteq H
  OBVIOUS
<1>8. k \in Reach(h, H, F, H)
  BY <1>1, <1>5, <1>7, ReachTwice
<1>9. r \in Reach(h, H, F, H)
  BY <1>6, <1>7, <1>8, ReachTwice
<1> QED BY <1>2, <1>9

(* So does mallopt, which consolidates. *)
LEMMA MalloptIsSound ==
  ASSUME NEW H \in SUBSET Int, NEW F, NEW h \in Sound(H, F), NEW param \in Tunables, NEW value \in 0 .. PTRDIFF_MAX
  PROVE  libc_mallopt(h, param, value) \in Reach(h, H, F, H)
<1> DEFINE g == malloc_consolidate(h)
           r == SetParameter(g, param, value)
<1>1. g \in Reach(h, H, F, H) /\ g \in Sound(H, F) /\ g \in Good
  BY ConsolidateReaches, ReachIs
<1>2. libc_mallopt(h, param, value) = r
  BY DEF libc_mallopt
<1>3. r \in Good
  BY <1>2, MalloptKeeps, SoundIs
<1> HIDE DEF g
<1>4. g \in Heaps
  BY <1>1 DEF Good
<1>5. Notes(g, r)
  <2>1. \A x : Notes(g, [g EXCEPT !.mp = x])
    BY <1>4 DEF Notes, SameLayout, Heaps
  <2>2. Notes(g, g)
    BY DEF Notes, SameLayout
  <2>3. \E x : r = g \/ r = [g EXCEPT !.mp = x]
    <3> DEFINE m == [g EXCEPT !.mp.no_dyn_threshold = TRUE]
    <3>1. CASE param = "max_fast"
      BY <3>1 DEF SetParameter
    <3>2. CASE param = "trim_threshold"
      BY <1>4, <3>2 DEF SetParameter, Heaps
    <3>3. CASE param = "top_pad"
      BY <1>4, <3>3 DEF SetParameter, Heaps
    <3>4. CASE param = "mmap_threshold"
      BY <1>4, <3>4 DEF SetParameter, Heaps
    <3>5. CASE param = "n_mmaps_max"
      BY <1>4, <3>5 DEF SetParameter, Heaps
    <3> QED BY <3>1, <3>2, <3>3, <3>4, <3>5 DEF Tunables
  <2> QED BY <2>1, <2>2, <2>3
<1> HIDE DEF r
<1>6. r \in Reach(g, H, F, H) /\ H \subseteq H
  BY <1>1, <1>3, <1>5, NotesReach
<1>7. r \in Reach(h, H, F, H)
  BY <1>1, <1>6, ReachTwice
<1> QED BY <1>2, <1>7

(* The client writes its objects; that changes no header. *)
LEMMA TouchedReaches ==
  ASSUME NEW H, NEW F, NEW h \in Sound(H, F), NEW C
  PROVE  Touched(h) \in Reach(h, H, F, C) /\ Touched(h) \in Sound(H, F) /\ Shape(Touched(h)) = Shape(h)
<1>1. h \in Good /\ h \in Heaps /\ Touched(h) \in Good
  BY SoundIs, TouchedKeeps
<1>2. Notes(h, Touched(h))
  BY <1>1 DEF Touched, Notes, SameLayout, Heaps
<1> QED BY <1>1, <1>2, NotesReach

(* The objects f of the client are in the heap h, as large as was asked.   *)
Sits(h, f, F) ==
  ~h.aborted => Layout(h, DOMAIN f, F) /\ \A p \in DOMAIN f : Fits(h, p, request2size(f[p]))

(* Those in C are in f and e, and stay where and as they are.              *)
Unmoved(h, f, g, e, C) ==
  /\ C \subseteq DOMAIN f /\ C \subseteq DOMAIN e
  /\ \A q \in C : e[q] = f[q] /\ q \in DOMAIN Shape(h) /\ q \in DOMAIN Shape(g) /\ Shape(g)[q] = Shape(h)[q]

(* What a call does to the objects: nothing, or one is new, gone, or in    *)
(* another's place.                                                        *)
Outcome(h, f, g, e) ==
  \/ DOMAIN e = DOMAIN f /\ Unmoved(h, f, g, e, DOMAIN f)
  \/ \E p \in Aligned \ DOMAIN f : DOMAIN e = DOMAIN f \union {p} /\ Unmoved(h, f, g, e, DOMAIN f)
  \/ \E p \in DOMAIN f : DOMAIN e = DOMAIN f \ {p} /\ Unmoved(h, f, g, e, DOMAIN e)
  \/ \E p \in DOMAIN f, q \in Aligned : DOMAIN e = (DOMAIN f \ {p}) \union {q} /\ Unmoved(h, f, g, e, DOMAIN f \ {p})

Comes(h, f, g, e, F) == Sits(g, e, F) /\ (~g.aborted => ~h.aborted /\ Outcome(h, f, g, e))

(* An object that stays has the room it had. *)
LEMMA RoomStays ==
  ASSUME NEW h, NEW g, NEW C, Same(h, g, C), NEW p \in C, NEW n, Fits(h, p, n)
  PROVE  Fits(g, p, n) /\ p \in DOMAIN Shape(g) /\ Shape(g)[p] = Shape(h)[p]
BY DEF Same, Fits

(* Objects of the client are chunks in hand. *)
LEMMA SitsIsSound ==
  ASSUME NEW h \in Good, NEW f, NEW F, Sits(h, f, F)
  PROVE  h \in Sound(DOMAIN f, F)
BY DEF Sits, Sound

(* Those in C stay. *)
LEMMA StaysUnmoved ==
  ASSUME NEW h, NEW f, NEW F, Sits(h, f, F), ~h.aborted, NEW g, NEW C, C \subseteq DOMAIN f, Same(h, g, C),
         NEW e, C \subseteq DOMAIN e, \A q \in C : e[q] = f[q]
  PROVE  Unmoved(h, f, g, e, C) /\ \A q \in C : Fits(g, q, request2size(e[q]))
<1>1. ASSUME NEW q \in C
      PROVE  /\ q \in DOMAIN Shape(h) /\ q \in DOMAIN Shape(g) /\ Shape(g)[q] = Shape(h)[q]
             /\ Fits(g, q, request2size(e[q]))
  <2>1. Fits(h, q, request2size(f[q])) /\ e[q] = f[q]
    BY DEF Sits
  <2>2. q \in DOMAIN Shape(h)
    BY <2>1 DEF Fits
  <2>3. Fits(g, q, request2size(f[q])) /\ q \in DOMAIN Shape(g) /\ Shape(g)[q] = Shape(h)[q]
    BY <2>1, RoomStays
  <2> QED BY <2>1, <2>2, <2>3
<1> QED BY <1>1 DEF Unmoved

(* free. *)
LEMMA ComesOfFree ==
  ASSUME NEW h, NEW f, NEW F, Sits(h, f, F), NEW p \in DOMAIN f, NEW e, e = [q \in DOMAIN f \ {p} |-> f[q]],
         NEW g, g \in Later(h, DOMAIN f \ {p}, F, DOMAIN f \ {p})
  PROVE  Comes(h, f, g, e, F)
<1> DEFINE C == DOMAIN f \ {p}
<1>1. DOMAIN e = C /\ C \subseteq DOMAIN f /\ C \subseteq DOMAIN e /\ \A q \in C : e[q] = f[q]
  OBVIOUS
<1>2. g \in Later(h, C, F, C)
  OBVIOUS
<1> SUFFICES ASSUME ~g.aborted PROVE Comes(h, f, g, e, F)
  BY DEF Comes, Sits
<1>3. Layout(g, C, F) /\ ~h.aborted /\ Same(h, g, C)
  <2> HIDE DEF C
  <2> QED BY <1>2, LaterIs
<1> DEFINE D == C
<1>4. Unmoved(h, f, g, e, C) /\ \A q \in C : Fits(g, q, request2size(e[q]))
  <2> HIDE DEF C
  <2> QED BY <1>1, <1>3, StaysUnmoved
<1> QED BY <1>1, <1>3, <1>4 DEF Comes, Sits, Outcome

(* A call that leaves the objects alone. *)
LEMMA ComesOfNothing ==
  ASSUME NEW h, NEW f, NEW F, Sits(h, f, F), NEW g, g \in Later(h, DOMAIN f, F, DOMAIN f)
  PROVE  Comes(h, f, g, f, F)
<1> SUFFICES ASSUME ~g.aborted PROVE Comes(h, f, g, f, F)
  BY DEF Comes, Sits
<1> DEFINE C == DOMAIN f
<1>1. g \in Later(h, C, F, C) /\ C \subseteq DOMAIN f /\ \A q \in C : f[q] = f[q]
  OBVIOUS
<1>2. Layout(g, C, F) /\ ~h.aborted /\ Same(h, g, C)
  <2> HIDE DEF C
  <2> QED BY <1>1, LaterIs
<1>3. Unmoved(h, f, g, f, C) /\ \A q \in C : Fits(g, q, request2size(f[q]))
  <2> HIDE DEF C
  <2> QED BY <1>1, <1>2, StaysUnmoved
<1> QED BY <1>2, <1>3 DEF Comes, Sits, Outcome

(* malloc and its kin. *)
LEMMA ComesOfMalloc ==
  ASSUME NEW h, NEW f, NEW F, Sits(h, f, F), NEW bytes, NEW a \in Provides(h, DOMAIN f, F, request2size(bytes)),
         f = [q \in DOMAIN f |-> f[q]],
         NEW e, e = [q \in DOMAIN f \union ({a.p} \ {NULL}) |-> IF q = a.p THEN bytes ELSE f[q]]
  PROVE  Comes(h, f, a.h, e, F)
<1> DEFINE H == DOMAIN f
           nb == request2size(bytes)
           g == a.h
           p == a.p
<1>1. /\ a.p \in Aligned \union {NULL}
      /\ a.p = NULL => a.h \in Later(h, H, F, H)
      /\ a.p # NULL => a.p \in Aligned /\ a.p \in Int /\ a.h \in Later(h, H \union {a.p}, F, H)
      /\ ~a.h.aborted /\ a.p # NULL => a.p \notin H /\ Fits(a.h, a.p, nb)
  <2> HIDE DEF H, nb
  <2>1. a \in Provides(h, H, F, nb)
    BY DEF H, nb
  <2> QED BY <2>1, ProvidesIs
<1> SUFFICES ASSUME ~g.aborted PROVE Comes(h, f, g, e, F)
  BY DEF Comes, Sits
<1>2. p = NULL => g \in Later(h, H, F, H)
  BY <1>1
<1>3. p # NULL => p \in Aligned /\ g \in Later(h, H \union {p}, F, H) /\ p \notin H /\ Fits(g, p, nb)
  BY <1>1
<1> HIDE DEF g, nb
<1>4. CASE p = NULL /\ NULL \notin H
  <2>1. e = f
    BY <1>4
  <2>2. Comes(h, f, g, f, F)
    BY <1>2, <1>4, ComesOfNothing
  <2> QED BY <2>1, <2>2
<1>5. CASE p # NULL
  <2> DEFINE L == H \union {p}
  <2>1. DOMAIN e = L /\ e[p] = bytes /\ H \subseteq DOMAIN e
    BY <1>5
  <2>2. \A q \in H : e[q] = f[q]
    BY <1>3, <1>5
  <2>3. g \in Later(h, L, F, H) /\ H \subseteq DOMAIN f
    BY <1>3, <1>5
  <2> HIDE DEF L, H, p
  <2>4. Layout(g, L, F) /\ ~h.aborted /\ Same(h, g, H)
    BY <2>3, LaterIs
  <2>5. Unmoved(h, f, g, e, H) /\ \A q \in H : Fits(g, q, request2size(e[q]))
    BY <2>1, <2>2, <2>3, <2>4, StaysUnmoved
  <2>6. Fits(g, p, request2size(e[p]))
    BY <1>3, <1>5, <2>1 DEF nb
  <2>7. Sits(g, e, F)
    BY <2>1, <2>4, <2>5, <2>6 DEF Sits, L
  <2>8. Outcome(h, f, g, e)
    BY <1>3, <1>5, <2>1, <2>5 DEF Outcome, L, H
  <2> QED BY <2>4, <2>7, <2>8 DEF Comes
<1>6. ASSUME NULL \in H, p = NULL PROVE FALSE
  <2>1. ~h.aborted
    BY <1>2, <1>6, LaterIs
  <2>2. NULL \in DOMAIN Shape(h) /\ Sized(Shape(h))
    BY <1>6, <2>1 DEF Sits, Fits, Layout, Ground
  <2> QED BY <2>2, PtAssumption DEF Sized
<1> QED BY <1>4, <1>5, <1>6

(* realloc that does not free. *)
LEMMA ComesOfRealloc ==
  ASSUME NEW h, NEW f, NEW F, Sits(h, f, F), NEW p \in DOMAIN f, NEW bytes, NEW a, Regrants(a, h, DOMAIN f, F, p, request2size(bytes)),
         NEW e, e = IF a.p = NULL THEN f
                    ELSE [q \in (DOMAIN f \ {p}) \union ({a.p} \ {NULL}) |-> IF q = a.p THEN bytes ELSE f[q]]
  PROVE  Comes(h, f, a.h, e, F)
<1> DEFINE H == DOMAIN f
           B == H \ {p}
           nb == request2size(bytes)
           g == a.h
           q == a.p
<1>1. /\ a.h \in Good /\ a.p \in Aligned \union {NULL}
      /\ a.p = NULL => a.h \in Later(h, H, F, H)
      /\ a.p # NULL => Replaces(a.h, h, H, F, p, a.p, nb)
  BY DEF Regrants
<1> SUFFICES ASSUME ~g.aborted PROVE Comes(h, f, g, e, F)
  BY DEF Comes, Sits
<1> HIDE DEF nb
<1>2. CASE q = NULL
  <2>1. e = f /\ g \in Later(h, H, F, H)
    BY <1>1, <1>2
  <2> QED BY <2>1, ComesOfNothing
<1>3. CASE q # NULL
  <2> DEFINE L == B \union {q}
  <2>1. q \in Aligned /\ Replaces(g, h, H, F, p, q, nb)
    BY <1>1, <1>3
  <2> HIDE DEF g
  <2>2. g \in Later(h, L, F, B) /\ q \notin B /\ Fits(g, q, nb)
    BY <2>1 DEF Replaces
  <2>3. DOMAIN e = L /\ e[q] = bytes /\ B \subseteq DOMAIN e /\ B \subseteq DOMAIN f
    BY <1>3
  <2>4. \A x \in B : e[x] = f[x]
    BY <1>3, <2>2
  <2> HIDE DEF L, q
  <2>5. Layout(g, L, F) /\ ~h.aborted /\ Same(h, g, B)
    <3> HIDE DEF B
    <3> QED BY <2>2, LaterIs
  <2>6. Unmoved(h, f, g, e, B) /\ \A x \in B : Fits(g, x, request2size(e[x]))
    <3> HIDE DEF B
    <3> QED BY <2>3, <2>4, <2>5, StaysUnmoved
  <2>7. Fits(g, q, request2size(e[q]))
    BY <2>2, <2>3 DEF nb
  <2>8. Sits(g, e, F)
    BY <2>3, <2>5, <2>6, <2>7 DEF Sits, L
  <2>9. Outcome(h, f, g, e)
    BY <2>1, <2>3, <2>6 DEF Outcome, L
  <2> QED BY <2>5, <2>8, <2>9 DEF Comes
<1> QED BY <1>2, <1>3

(* Between the call and the next one the words of the chunks get dirty. *)
LEMMA ComesTouched ==
  ASSUME NEW h, NEW f, NEW g \in Good, NEW e, NEW F, Comes(h, f, g, e, F)
  PROVE  Comes(h, f, Touched(g), e, F)
<1> DEFINE t == Touched(g)
<1>1. g \in Sound(DOMAIN e, F)
  BY SitsIsSound DEF Comes
<1>2. t \in Sound(DOMAIN e, F) /\ Shape(t) = Shape(g)
  BY <1>1, TouchedReaches
<1>3. t.aborted = g.aborted
  BY DEF Touched, Good, Heaps
<1> HIDE DEF t
<1>4. Sits(t, e, F)
  BY <1>2, <1>3 DEF Comes, Sits, Sound, Fits
<1>5. Outcome(h, f, g, e) => Outcome(h, f, t, e)
  BY <1>2 DEF Outcome, Unmoved
<1> QED BY <1>3, <1>4, <1>5 DEF Comes, t

(* What the client holds is in the heap, and what others took of the break *)
(* is below its limit.                                                     *)
HeldSits == Sits(heap, held, foreign)
ForeignIsLow == \A x \in foreign : x < BrkLimit

Sitting == Inv /\ HeldSits /\ ForeignIsLow

(* The state of PtHeap, in the terms of the lemmas about functions. *)
LEMMA HeapIsSound ==
  ASSUME Inv, HeldSits
  PROVE  /\ heap \in Good /\ heap \in Sound(DOMAIN held, foreign) /\ DOMAIN held \in SUBSET Int
         /\ DOMAIN held \in SUBSET Aligned /\ held = [q \in DOMAIN held |-> held[q]]
         /\ \A p \in DOMAIN held : held[p] \in Nat
<1>1. heap \in Good /\ DOMAIN held \in SUBSET Aligned /\ held \in [DOMAIN held -> Nat]
  BY DEF Inv, TypeOK
<1>2. heap \in Sound(DOMAIN held, foreign)
  BY <1>1, SitsIsSound DEF HeldSits
<1> QED BY <1>1, <1>2 DEF Aligned

(* The heap after the call, with its words dirty. *)
LEMMA BecomesComes ==
  ASSUME NEW h \in Good, Becomes(h), Comes(heap, held, h, held', foreign)
  PROVE  Comes(heap, held, heap', held', foreign')
<1>1. heap' = Touched(h) /\ foreign' = foreign
  BY DEF Becomes
<1> DEFINE e == held'
<1>2. Comes(heap, held, h, e, foreign)
  OBVIOUS
<1> HIDE DEF e
<1>3. Comes(heap, held, Touched(h), e, foreign)
  BY <1>2, ComesTouched
<1> QED BY <1>1, <1>3 DEF e

(* An allocation function that provides a chunk for the request keeps the  *)
(* objects in the heap.                                                    *)
LEMMA HoldingComes ==
  ASSUME Inv, HeldSits, NEW bytes, NEW a \in Provides(heap, DOMAIN held, foreign, request2size(bytes)),
         Becomes(a.h), held' = Holding(a.p, bytes)
  PROVE  Comes(heap, held, heap', held', foreign')
<1> DEFINE e == [q \in DOMAIN held \union ({a.p} \ {NULL}) |-> IF q = a.p THEN bytes ELSE held[q]]
<1>1. held' = e
  BY DEF Holding
<1>2. held = [q \in DOMAIN held |-> held[q]] /\ a.h \in Good
  BY HeapIsSound DEF Provides
<1>3. Comes(heap, held, a.h, e, foreign)
  BY <1>2, ComesOfMalloc DEF HeldSits
<1>4. Comes(heap, held, a.h, held', foreign)
  BY <1>1, <1>3
<1> QED BY <1>2, <1>4, BecomesComes

(* So malloc, *)
LEMMA MallocComes == ASSUME Inv, HeldSits, NEW bytes \in Sizes, Malloc(bytes) PROVE Comes(heap, held, heap', held', foreign')
<1>1. bytes \in Int
  BY PtHeapAssumption
<1>2. PICK a : a = libc_malloc(heap, bytes) /\ Becomes(a.h) /\ held' = Holding(a.p, bytes)
  BY DEF Malloc
<1>3. heap \in Sound(DOMAIN held, foreign) /\ DOMAIN held \in SUBSET Int
  BY HeapIsSound
<1>4. a \in Provides(heap, DOMAIN held, foreign, request2size(bytes))
  BY <1>1, <1>2, <1>3, LibcMallocIsSound
<1> QED BY <1>2, <1>4, HoldingComes

(* calloc, *)
LEMMA CallocComes == ASSUME Inv, HeldSits, NEW bytes \in FewSizes, Calloc(bytes) PROVE Comes(heap, held, heap', held', foreign')
<1>1. bytes \in Int
  BY PtHeapAssumption
<1>2. PICK a : a = libc_calloc(heap, bytes) /\ Becomes(a.h) /\ held' = Holding(a.p, bytes)
  BY DEF Calloc
<1>3. heap \in Sound(DOMAIN held, foreign) /\ DOMAIN held \in SUBSET Int
  BY HeapIsSound
<1> DEFINE b == Answer(a.h, a.p)
<1>4. b \in Provides(heap, DOMAIN held, foreign, request2size(bytes))
  BY <1>1, <1>2, <1>3, CallocIsSound
<1>5. b.h = a.h /\ b.p = a.p
  BY DEF Answer
<1> HIDE DEF b
<1> QED BY <1>2, <1>4, <1>5, HoldingComes

(* memalign, *)
LEMMA MemalignComes ==
  ASSUME Inv, HeldSits, NEW alignment \in Alignments, NEW bytes \in FewSizes, Memalign(alignment, bytes)
  PROVE  Comes(heap, held, heap', held', foreign')
<1>1. bytes \in Int /\ alignment \in {1, 2} \union Powers
  BY PtHeapAssumption
<1>2. PICK a : a = libc_memalign(heap, alignment, bytes) /\ Becomes(a.h) /\ held' = Holding(a.p, bytes)
  BY DEF Memalign
<1>3. heap \in Sound(DOMAIN held, foreign) /\ DOMAIN held \in SUBSET Int
  BY HeapIsSound
<1>4. a \in Provides(heap, DOMAIN held, foreign, request2size(bytes))
  BY <1>1, <1>2, <1>3, LibcMemalignIsSound
<1> QED BY <1>2, <1>4, HoldingComes

(* pvalloc, *)
LEMMA PvallocComes == ASSUME Inv, HeldSits, NEW bytes \in FewSizes, Pvalloc(bytes) PROVE Comes(heap, held, heap', held', foreign')
<1>1. bytes \in Int
  BY PtHeapAssumption
<1>2. PICK a : a = libc_pvalloc(heap, bytes) /\ Becomes(a.h) /\ held' = Holding(a.p, bytes)
  BY DEF Pvalloc
<1>3. heap \in Sound(DOMAIN held, foreign) /\ DOMAIN held \in SUBSET Int
  BY HeapIsSound
<1>4. a \in Provides(heap, DOMAIN held, foreign, request2size(bytes))
  BY <1>1, <1>2, <1>3, PvallocIsSound
<1> QED BY <1>2, <1>4, HoldingComes

(* free of any object, *)
LEMMA FreeComes == ASSUME Inv, HeldSits, NEW p \in DOMAIN held, Free(p) PROVE Comes(heap, held, heap', held', foreign')
<1> DEFINE g == libc_free(heap, p)
           H == DOMAIN held
<1>1. heap \in Good /\ heap \in Sound(H, foreign) /\ H \in SUBSET Int /\ p \in H /\ p \in Aligned
  BY HeapIsSound
<1>2. Becomes(g) /\ held' = [q \in H \ {p} |-> held[q]]
  BY DEF Free, Without
<1>3. g \in Good
  BY <1>1, LibcFreeKeeps
<1>4. g \in Later(heap, H \ {p}, foreign, H \ {p})
  <2> HIDE DEF H, g
  <2> QED BY <1>1, LibcFreeIsSound DEF g
<1> HIDE DEF g
<1> DEFINE e == [q \in DOMAIN held \ {p} |-> held[q]]
<1>5. Comes(heap, held, g, e, foreign)
  BY <1>4, ComesOfFree DEF HeldSits
<1>6. Comes(heap, held, g, held', foreign)
  BY <1>2, <1>5
<1> QED BY <1>2, <1>3, <1>6, BecomesComes

(* realloc of any object, *)
LEMMA ReallocComes ==
  ASSUME Inv, HeldSits, NEW p \in DOMAIN held, NEW bytes \in Sizes \union {0}, Realloc(p, bytes)
  PROVE  Comes(heap, held, heap', held', foreign')
<1> DEFINE H == DOMAIN held
<1>1. bytes \in Int /\ heap \in Good /\ heap \in Sound(H, foreign) /\ H \in SUBSET Int /\ p \in H /\ p \in Aligned
  BY HeapIsSound, PtHeapAssumption
<1>2. PICK a :
        /\ a = libc_realloc(heap, p, bytes) /\ Becomes(a.h)
        /\ held' = IF a.p = NULL /\ bytes # 0 THEN held
                   ELSE [q \in (DOMAIN held \ {p}) \union ({a.p} \ {NULL}) |-> IF q = a.p THEN bytes ELSE held[q]]
  BY DEF Realloc
<1>3. a.h \in Good
  BY <1>1, <1>2, LibcReallocKeeps DEF Fine
<1>4. /\ bytes = 0 => a.h \in Later(heap, H \ {p}, foreign, H \ {p}) /\ a.p = NULL
      /\ bytes # 0 => Regrants(a, heap, H, foreign, p, request2size(bytes))
  <2> HIDE DEF H
  <2> QED BY <1>1, <1>2, LibcReallocIsSound
<1>5. Comes(heap, held, a.h, held', foreign)
  <2>1. CASE bytes = 0
    <3> DEFINE e == [q \in DOMAIN held \ {p} |-> held[q]]
               g == a.h
    <3>1. held' = e
      <4>1. a.p = NULL /\ (DOMAIN held \ {p}) \union ({a.p} \ {NULL}) = DOMAIN held \ {p} /\ NULL \notin DOMAIN held
        BY <1>1, <1>4, <2>1, PtAssumption
      <4> QED BY <1>2, <2>1, <4>1
    <3>2. g \in Later(heap, DOMAIN held \ {p}, foreign, DOMAIN held \ {p})
      BY <1>4, <2>1
    <3> HIDE DEF g
    <3>3. Comes(heap, held, g, e, foreign)
      BY <3>2, ComesOfFree DEF HeldSits
    <3> QED BY <3>1, <3>3 DEF g
  <2>2. CASE bytes # 0
    <3> DEFINE e == IF a.p = NULL THEN held
                    ELSE [q \in (DOMAIN held \ {p}) \union ({a.p} \ {NULL}) |-> IF q = a.p THEN bytes ELSE held[q]]
    <3>1. held' = e
      BY <1>2, <2>2
    <3>2. Regrants(a, heap, DOMAIN held, foreign, p, request2size(bytes))
      BY <1>4, <2>2
    <3>3. Comes(heap, held, a.h, e, foreign)
      BY <3>2, ComesOfRealloc DEF HeldSits
    <3> QED BY <3>1, <3>3
  <2> QED BY <2>1, <2>2
<1> QED BY <1>2, <1>3, <1>5, BecomesComes

(* A call after which the client holds what it held. *)
LEMMA SameHeldComes ==
  ASSUME Inv, HeldSits, NEW g \in Later(heap, DOMAIN held, foreign, DOMAIN held), Becomes(g), UNCHANGED held
  PROVE  Comes(heap, held, heap', held', foreign')
<1>1. g \in Good
  BY LaterIs
<1>2. Comes(heap, held, g, held, foreign)
  BY ComesOfNothing DEF HeldSits
<1>3. Comes(heap, held, g, held', foreign)
  BY <1>2
<1> QED BY <1>1, <1>3, BecomesComes

(* malloc_trim, *)
LEMMA TrimComes == ASSUME Inv, HeldSits, NEW pad \in Pads, MallocTrim(pad) PROVE Comes(heap, held, heap', held', foreign')
<1> DEFINE H == DOMAIN held
           g == mtrim(heap, pad).h
<1>1. pad \in 0 .. PTRDIFF_MAX /\ heap \in Sound(H, foreign) /\ H \in SUBSET Int
  BY HeapIsSound, PtHeapAssumption
<1>2. Becomes(g) /\ UNCHANGED held
  BY DEF MallocTrim
<1>3. g \in Reach(heap, H, foreign, H)
  <2> HIDE DEF H
  <2> QED BY <1>1, MtrimIsSound
<1> HIDE DEF g
<1>4. g \in Later(heap, H, foreign, H)
  BY <1>3, ReachIsLater
<1> QED BY <1>2, <1>4, SameHeldComes

(* mallopt, *)
LEMMA MalloptComes == ASSUME Inv, HeldSits, NEW setting \in Settings, Mallopt(setting) PROVE Comes(heap, held, heap', held', foreign')
<1> DEFINE H == DOMAIN held
           g == libc_mallopt(heap, setting[1], setting[2])
<1>1. setting[1] \in Tunables /\ setting[2] \in 0 .. PTRDIFF_MAX /\ heap \in Sound(H, foreign) /\ H \in SUBSET Int
  BY HeapIsSound, PtHeapAssumption
<1>2. Becomes(g) /\ UNCHANGED held
  BY DEF Mallopt
<1>3. g \in Reach(heap, H, foreign, H)
  <2> HIDE DEF H
  <2> QED BY <1>1, MalloptIsSound
<1> HIDE DEF g
<1>4. g \in Later(heap, H, foreign, H)
  BY <1>3, ReachIsLater
<1> QED BY <1>2, <1>4, SameHeldComes

(* the end of a thread, and *)
LEMMA ShutdownComes == ASSUME Inv, HeldSits, ThreadShutdown PROVE Comes(heap, held, heap', held', foreign')
<1> DEFINE H == DOMAIN held
           g == tcache_thread_shutdown(heap)
<1>1. heap \in Sound(H, foreign) /\ H \in SUBSET Int
  BY HeapIsSound
<1>2. Becomes(g) /\ UNCHANGED held
  BY DEF ThreadShutdown
<1>3. g \in Later(heap, H, foreign, H)
  <2> HIDE DEF H
  <2> QED BY <1>1, ShutdownIsSound
<1> QED BY <1>2, <1>3, SameHeldComes

(* an sbrk of somebody else, whose words are foreign from then on. *)
LEMMA ForeignComes == ASSUME Inv, HeldSits, NEW n \in ForeignSizes, ForeignSbrk(n) PROVE Comes(heap, held, heap', held', foreign')
<1> DEFINE H == DOMAIN held
           g == [heap EXCEPT !.brk = heap.brk + n]
           G == foreign \union Region(heap.brk, n)
<1>1. heap \in Sound(H, foreign) /\ H \in SUBSET Int /\ heap \in Good
  BY HeapIsSound
<1>2. heap.brk \in Aligned /\ n \in Aligned /\ n \in Int /\ n >= 0
  BY <1>1, PtHeapAssumption DEF Good, Heaps, Aligned
<1>3. heap.brk + n \in Aligned
  BY <1>2, EvenSums
<1>4. heap' = g /\ foreign' = G /\ held' = held /\ heap.brk + n <= BrkLimit
  BY DEF ForeignSbrk
<1>5. g \in Good
  BY <1>1, <1>3, OtherFields
<1>6. Brked(heap, g, n) /\ g.brk = heap.brk + n
  BY <1>1 DEF Brked, SameLists, Good, Heaps
<1> HIDE DEF g
<1>7. g \in Reach(heap, H, G, H)
  <2> HIDE DEF H
  <2> QED BY <1>1, <1>2, <1>4, <1>5, <1>6, BrkReaches
<1>8. g \in Later(heap, H, G, H)
  <2> HIDE DEF G
  <2> QED BY <1>7, ReachIsLater
<1>9. Comes(heap, held, g, held, G)
  <2> DEFINE C == H
  <2> SUFFICES ASSUME ~g.aborted PROVE Comes(heap, held, g, held, G)
    BY DEF Comes, Sits
  <2>1. C \subseteq DOMAIN held /\ \A q \in C : held[q] = held[q]
    OBVIOUS
  <2>2. Layout(g, C, G) /\ ~heap.aborted /\ Same(heap, g, C)
    <3> HIDE DEF G, C
    <3> QED BY <1>8, LaterIs DEF C
  <2>3. Unmoved(heap, held, g, held, C) /\ \A q \in C : Fits(g, q, request2size(held[q]))
    <3> HIDE DEF C
    <3> QED BY <2>1, <2>2, StaysUnmoved DEF HeldSits
  <2> QED BY <2>2, <2>3 DEF Comes, Sits, Outcome
<1> QED BY <1>4, <1>9

(* f holds what the calls of a history returned and did not free, each of  *)
(* another call.                                                           *)
Kept(objects) == {objects[i][1] : i \in DOMAIN objects} \ {NULL}
Single(objects) ==
  \A i, j \in DOMAIN objects : objects[i][1] # NULL /\ objects[i][1] = objects[j][1] => i = j
Records(f, objects) ==
  /\ DOMAIN f = Kept(objects) /\ f = [q \in DOMAIN f |-> f[q]]
  /\ Single(objects)
  /\ \A i \in DOMAIN objects : objects[i][1] # NULL => f[objects[i][1]] = objects[i][2]

Settles(s) == ~s.heap.aborted => \E f : Records(f, s.objects) /\ Sits(s.heap, f, {})

(* The ghost list of objects, when one is allocated. *)
LEMMA RecordsAppend ==
  ASSUME NEW objects \in Objects, NEW f, Records(f, objects), NEW p, NEW n, p \notin DOMAIN f,
         NEW e, e = [q \in DOMAIN f \union ({p} \ {NULL}) |-> IF q = p THEN n ELSE f[q]]
  PROVE  Records(e, Append(objects, <<p, n>>))
<1> DEFINE o == Append(objects, <<p, n>>)
           k == Len(objects)
<1>1. /\ k \in Nat /\ DOMAIN objects = 1 .. k /\ DOMAIN o = 1 .. (k + 1)
      /\ o[k + 1] = <<p, n>> /\ \A i \in 1 .. k : o[i] = objects[i]
  BY DEF Objects
<1>2. \A i \in 1 .. (k + 1) : i \in 1 .. k \/ i = k + 1
  BY <1>1
<1> HIDE DEF o, k
<1>3. o[k + 1][1] = p /\ o[k + 1][2] = n /\ k + 1 \in DOMAIN o /\ \A i \in 1 .. k : i \in DOMAIN o
  BY <1>1
<1>4. \A i \in DOMAIN objects : objects[i][1] # NULL => objects[i][1] \in DOMAIN f /\ objects[i][1] # p
  BY DEF Records, Kept
<1>5. Kept(o) = DOMAIN f \union ({p} \ {NULL})
  <2>1. ASSUME NEW x \in Kept(o) PROVE x \in DOMAIN f \union ({p} \ {NULL})
    <3>1. PICK i \in DOMAIN o : x = o[i][1] /\ x # NULL
      BY DEF Kept
    <3> QED BY <1>1, <1>2, <1>3, <1>4, <3>1
  <2>2. ASSUME NEW x \in DOMAIN f PROVE x \in Kept(o)
    <3>1. PICK i \in DOMAIN objects : x = objects[i][1] /\ x # NULL
      BY DEF Records, Kept
    <3>2. o[i] = objects[i] /\ i \in DOMAIN o
      BY <1>1, <1>3
    <3> QED BY <3>1, <3>2 DEF Kept
  <2>3. p # NULL => p \in Kept(o)
    BY <1>3 DEF Kept
  <2> QED BY <2>1, <2>2, <2>3
<1>6. Single(o)
  <2> SUFFICES ASSUME NEW i \in DOMAIN o, NEW j \in DOMAIN o, o[i][1] # NULL, o[i][1] = o[j][1] PROVE i = j
    BY DEF Single
  <2>1. CASE i \in 1 .. k /\ j \in 1 .. k
    BY <1>1, <2>1 DEF Records, Single
  <2>2. CASE i = k + 1 /\ j = k + 1
    BY <2>2
  <2>3. CASE i = k + 1 /\ j \in 1 .. k
    BY <1>1, <1>3, <1>4, <2>3
  <2>4. CASE j = k + 1 /\ i \in 1 .. k
    BY <1>1, <1>3, <1>4, <2>4
  <2> QED BY <1>1, <1>2, <2>1, <2>2, <2>3, <2>4
<1>7. ASSUME NEW i \in DOMAIN o, o[i][1] # NULL PROVE e[o[i][1]] = o[i][2]
  <2>1. CASE i \in 1 .. k
    BY <1>1, <1>4, <1>7, <2>1 DEF Records
  <2>2. CASE i = k + 1
    BY <1>3, <1>7, <2>2
  <2> QED BY <1>1, <1>2, <2>1, <2>2
<1>8. DOMAIN e = Kept(o) /\ e = [q \in DOMAIN e |-> e[q]]
  BY <1>5
<1> QED BY <1>6, <1>7, <1>8 DEF Records, o

(* The ghost list of objects, when one is freed. *)
LEMMA RecordsDrop ==
  ASSUME NEW objects \in Objects, NEW f, Records(f, objects), NEW i \in DOMAIN objects, NEW p, p = objects[i][1],
         NEW e, e = [q \in DOMAIN f \ {p} |-> f[q]]
  PROVE  Records(e, [objects EXCEPT ![i] = <<NULL, 0>>])
<1> DEFINE o == [objects EXCEPT ![i] = <<NULL, 0>>]
<1>1. DOMAIN o = DOMAIN objects /\ o[i][1] = NULL /\ \A j \in DOMAIN objects \ {i} : o[j] = objects[j]
  BY DEF Objects
<1> HIDE DEF o
<1>2. \A j \in DOMAIN o : o[j][1] # NULL => j # i /\ o[j] = objects[j] /\ j \in DOMAIN objects
  BY <1>1
<1>3. \A j \in DOMAIN objects \ {i} : objects[j][1] # NULL => objects[j][1] # p /\ objects[j][1] \in DOMAIN f
  BY DEF Records, Single, Kept
<1>4. Kept(o) = DOMAIN f \ {p}
  <2>1. ASSUME NEW x \in Kept(o) PROVE x \in DOMAIN f \ {p}
    <3>1. PICK j \in DOMAIN o : x = o[j][1] /\ x # NULL
      BY DEF Kept
    <3> QED BY <1>2, <1>3, <3>1
  <2>2. ASSUME NEW x \in DOMAIN f \ {p} PROVE x \in Kept(o)
    <3>1. PICK j \in DOMAIN objects : x = objects[j][1] /\ x # NULL
      BY DEF Records, Kept
    <3>2. j # i /\ o[j] = objects[j] /\ j \in DOMAIN o
      BY <1>1, <3>1
    <3> QED BY <3>1, <3>2 DEF Kept
  <2> QED BY <2>1, <2>2
<1>5. Single(o)
  BY <1>2 DEF Single, Records
<1>6. \A j \in DOMAIN o : o[j][1] # NULL => e[o[j][1]] = o[j][2]
  BY <1>2, <1>3 DEF Records
<1>7. DOMAIN e = Kept(o) /\ e = [q \in DOMAIN e |-> e[q]]
  BY <1>4
<1> QED BY <1>5, <1>6, <1>7 DEF Records, o

(* A call of a history. *)
LEMMA AfterSettles ==
  ASSUME NEW history, Possible(history), NEW m \in 1 .. Len(history), NEW s \in Ready(history, m - 1), Settles(s)
  PROVE  Settles(After(s, history[m]))
<1> DEFINE n == history[m]
           k == Cardinality(Allocations(history, m - 1))
           h == s.heap
           o == s.objects
<1>1. n \in Int \ {0} /\ history \in Seq(Int \ {0}) /\ m \in DOMAIN history
  BY DEF Possible
<1>2. Cardinality(Allocations(history, m)) = k + (IF n > 0 THEN 1 ELSE 0) /\ k \in Nat
  BY <1>1, AllocationsCount
<1>3. h \in Good /\ o \in Objects /\ Len(o) = k
  BY DEF Ready
<1>4. \A i \in 1 .. k : i \in DOMAIN o /\ o[i][1] \in Aligned \union {NULL}
  BY <1>3 DEF Objects
<1> HIDE DEF h, o, k
<1>5. CASE n > 0
  <2> DEFINE a == libc_malloc(h, n)
             t == After(s, n)
  <2>1. t.heap = Touched(a.h) /\ t.objects = Append(o, <<a.p, n>>)
    BY <1>5 DEF After, Grant, h, o
  <2>2. a.h \in Good
    BY <1>1, <1>3, LibcMallocKeeps DEF Fine
  <2> HIDE DEF a, t
  <2>3. Touched(a.h).aborted = a.h.aborted
    BY <2>2 DEF Touched, Good, Heaps
  <2> SUFFICES ASSUME ~t.heap.aborted PROVE Settles(t)
    BY DEF Settles, t
  <2>4. ~h.aborted
    <3>1. h.aborted => h \in Sound({}, {})
      BY <1>3 DEF Sound
    <3>2. h.aborted => a \in Provides(h, {}, {}, request2size(n))
      BY <1>1, <3>1, LibcMallocIsSound DEF a
    <3> DEFINE L == {} \union ({a.p} \ {NULL})
    <3>3. h.aborted => a.h \in Later(h, L, {}, {})
      BY <3>2 DEF Provides
    <3> HIDE DEF L
    <3>4. h.aborted => (~a.h.aborted => ~h.aborted)
      BY <3>3, LaterIs
    <3> QED BY <2>1, <2>3, <3>4
  <2>5. PICK f : Records(f, o) /\ Sits(h, f, {})
    BY <2>4 DEF Settles, h, o
  <2> DEFINE H == DOMAIN f
             e == [q \in DOMAIN f \union ({a.p} \ {NULL}) |-> IF q = a.p THEN n ELSE f[q]]
  <2>6. H \in SUBSET Int /\ NULL \notin H
    <3>1. H = Kept(o)
      BY <2>5 DEF Records
    <3>2. H \in SUBSET Aligned /\ NULL \notin H
      BY <1>3, <3>1 DEF Kept, Objects
    <3> QED BY <3>2 DEF Aligned
  <2>7. h \in Sound(H, {})
    BY <1>3, <2>5, SitsIsSound
  <2>8. a \in Provides(h, H, {}, request2size(n))
    <3> HIDE DEF H
    <3> QED BY <1>1, <2>6, <2>7, LibcMallocIsSound DEF a
  <2>9. a.p \notin H
    <3> HIDE DEF H
    <3>1. a.p # NULL => a.p \notin H
      BY <2>1, <2>3, <2>8, ProvidesIs
    <3> QED BY <2>6, <3>1
  <2>10. Records(e, t.objects)
    <3>1. e = [q \in DOMAIN f \union ({a.p} \ {NULL}) |-> IF q = a.p THEN n ELSE f[q]] /\ a.p \notin DOMAIN f
      BY <2>9
    <3> HIDE DEF e, n
    <3>2. Records(e, Append(o, <<a.p, n>>))
      BY <1>3, <2>5, <3>1, RecordsAppend
    <3> QED BY <2>1, <3>2 DEF n
  <2>11. Comes(h, f, a.h, e, {})
    <3>1. f = [q \in DOMAIN f |-> f[q]] /\ Sits(h, f, {})
      BY <2>5 DEF Records
    <3> QED BY <2>8, <3>1, ComesOfMalloc
  <2> HIDE DEF e
  <2>12. Comes(h, f, Touched(a.h), e, {})
    BY <2>2, <2>11, ComesTouched
  <2> QED BY <2>1, <2>10, <2>12 DEF Settles, Comes
<1>6. CASE ~(n > 0)
  <2> DEFINE i == -n
             p == o[i][1]
             g == libc_free(h, p)
             t == After(s, n)
  <2>1. i \in 1 .. k
    <3>1. n < 0 /\ i <= Cardinality(Allocations(history, m))
      BY <1>1, <1>6 DEF Possible
    <3> HIDE DEF n
    <3> QED BY <1>1, <1>2, <1>6, <3>1
  <2>2. t.heap = Touched(g) /\ t.objects = [o EXCEPT ![i] = <<NULL, 0>>]
    BY <1>6 DEF After, h, o
  <2> HIDE DEF i, t
  <2>3. i \in DOMAIN o /\ p \in Aligned \union {NULL}
    BY <1>4, <2>1
  <2> HIDE DEF p, g
  <2>4. g \in Good
    BY <1>3, <2>3, LibcFreeKeeps DEF g
  <2>5. Touched(g).aborted = g.aborted
    BY <2>4 DEF Touched, Good, Heaps
  <2> SUFFICES ASSUME ~t.heap.aborted PROVE Settles(t)
    BY DEF Settles, t
  <2>6. p = NULL => g = h
    BY DEF libc_free, g
  <2>7. ~h.aborted
    <3>1. CASE p = NULL
      BY <2>2, <2>5, <2>6, <3>1
    <3>2. CASE p # NULL
      <4>1. p \in Aligned /\ {p} \in SUBSET Int /\ p \in {p} /\ (h.aborted => h \in Sound({p}, {}))
        BY <1>3, <2>3, <3>2 DEF Sound, Aligned
      <4> DEFINE H == {p}
                 L == H \ {p}
      <4>2. h.aborted => g \in Later(h, L, {}, L)
        <5>1. H \in SUBSET Int /\ p \in H /\ (h.aborted => h \in Sound(H, {}))
          BY <4>1
        <5> HIDE DEF H
        <5> QED BY <4>1, <5>1, LibcFreeIsSound DEF g, L
      <4> HIDE DEF L
      <4>3. h.aborted => (~g.aborted => ~h.aborted)
        BY <4>2, LaterIs
      <4> QED BY <2>2, <2>5, <4>3
    <3> QED BY <3>1, <3>2
  <2>8. PICK f : Records(f, o) /\ Sits(h, f, {})
    BY <2>7 DEF Settles, h, o
  <2> DEFINE H == DOMAIN f
             e == [q \in DOMAIN f \ {p} |-> f[q]]
  <2>9. H \in SUBSET Int /\ NULL \notin H /\ (p # NULL => p \in H)
    <3>1. H = Kept(o)
      BY <2>8 DEF Records
    <3>2. H \in SUBSET Aligned /\ NULL \notin H
      BY <1>3, <3>1 DEF Kept, Objects
    <3>3. p # NULL => p \in H
      BY <2>3, <3>1 DEF Kept, p
    <3> QED BY <3>2, <3>3 DEF Aligned
  <2>10. Records(e, t.objects)
    <3>1. e = [q \in DOMAIN f \ {p} |-> f[q]] /\ p = o[i][1]
      BY DEF p
    <3> HIDE DEF e
    <3>2. Records(e, [o EXCEPT ![i] = <<NULL, 0>>])
      BY <1>3, <2>3, <2>8, <3>1, RecordsDrop
    <3> QED BY <2>2, <3>2
  <2>11. h \in Sound(H, {})
    BY <1>3, <2>8, SitsIsSound
  <2>12. Sits(g, e, {})
    <3>1. CASE p = NULL
      <4>1. e = f
        BY <2>8, <2>9, <3>1 DEF Records
      <4> QED BY <2>6, <2>8, <3>1, <4>1
    <3>2. CASE p # NULL
      <4>1. p \in Aligned /\ p \in H
        BY <2>3, <2>9, <3>2
      <4>2. g \in Later(h, H \ {p}, {}, H \ {p})
        <5> HIDE DEF H
        <5> QED BY <2>9, <2>11, <4>1, LibcFreeIsSound DEF g
      <4>3. Comes(h, f, g, e, {})
        BY <2>8, <4>1, <4>2, ComesOfFree
      <4> QED BY <4>3 DEF Comes
    <3> QED BY <3>1, <3>2
  <2> HIDE DEF e
  <2>13. Sits(Touched(g), e, {})
    <3>1. g \in Sound(DOMAIN e, {})
      BY <2>4, <2>12, SitsIsSound
    <3>2. Touched(g) \in Sound(DOMAIN e, {}) /\ Shape(Touched(g)) = Shape(g)
      BY <3>1, TouchedReaches
    <3> QED BY <2>5, <2>12, <3>2 DEF Sits, Sound, Fits
  <2> QED BY <2>2, <2>10, <2>13 DEF Settles
<1> QED BY <1>5, <1>6

(* The static arena, before the first call, is well laid out. *)
LEMMA FirstLayout ==
  ASSUME NEW mp \in Params
  PROVE  Sits(malloc_init_state(FirstBrk, mp), << >>, {})
<1> DEFINE h == malloc_init_state(FirstBrk, mp)
           s == Shape(h)
           E == Where(h, {})
<1>1. /\ h.mem = [a \in {} |-> NoHead] /\ h.top = 0 /\ h.tcache = NULL /\ h.brk = FirstBrk /\ h.maps = {}
      /\ h.bins = [b \in 1 .. NBINS - 1 |-> << >>] /\ h.fast = [i \in 0 .. NFASTBINS - 1 |-> << >>]
      /\ h.entries = [i \in 0 .. TCACHE_MAX_BINS - 1 |-> << >>] /\ h.needless = FALSE
  BY DEF malloc_init_state
<1> HIDE DEF h
<1>2. DOMAIN s = {}
  <2>1. DOMAIN h.mem = {}
    BY <1>1
  <2> QED BY <2>1 DEF Shape
<1>3. FirstBrk \in Int /\ FirstBrk <= BrkLimit /\ Region(FirstBrk, FirstBrk - FirstBrk) = {}
  BY PtHeapAssumption DEF Region
<1>4. GivenTo(h.brk, h.maps, {}) = {} /\ MapWords(h.maps) = {}
  BY <1>1, <1>3 DEF GivenTo, MapWords
<1> HIDE DEF s
<1>5. Ground(s, h.top, h.brk, h.maps, {})
  <2>1. Sized(s) /\ Ends(s, h.top)
    BY <1>2 DEF Sized, Ends
  <2>2. Tiles(s, {})
    BY <1>2 DEF Tiles
  <2>3. Kernel(s, h.brk, h.maps, {})
    BY <1>1, <1>2, <1>3 DEF Kernel
  <2> QED BY <1>4, <2>1, <2>2, <2>3 DEF Ground
<1>6. \A x \in Int : E[x] = {}
  <2>1. \A b \in 1 .. NBINS - 1 : ToSet(h.bins[b]) = {}
    BY <1>1 DEF ToSet
  <2>2. \A i \in 0 .. NFASTBINS - 1 : ToSet(h.fast[i]) = {}
    BY <1>1 DEF ToSet
  <2>3. \A i \in 0 .. TCACHE_MAX_BINS - 1 : ToSet(h.entries[i]) = {}
    BY <1>1 DEF ToSet
  <2>4. NBINS \in Int /\ NFASTBINS \in Int /\ TCACHE_MAX_BINS \in Int
    BY PtAssumption, SmallEnough DEF MALLOC_ALIGNMENT, SIZE_SZ, MINSIZE
  <2>5. \A x \in FastPlaces : x - NBINS \in 0 .. NFASTBINS - 1
    BY <2>4 DEF FastPlaces
  <2>6. \A x \in CachePlaces : x - NBINS - NFASTBINS \in 0 .. TCACHE_MAX_BINS - 1
    BY <2>4 DEF CachePlaces
  <2> QED BY <1>1, <2>1, <2>2, <2>3, <2>5, <2>6 DEF Where, Hand, Top, Own
<1> HIDE DEF E
<1>7. Placed(s, E)
  BY <1>2, <1>6 DEF Placed, OkAt
<1>8. IsInjective(<< >>)
  BY DEF IsInjective
<1>9. Distinct(h) /\ CacheIsOwned(h)
  BY <1>1, <1>8 DEF Distinct, CacheIsOwned, NoCache
<1>10. Layout(h, {}, {})
  BY <1>1, <1>5, <1>7, <1>9 DEF Layout, s, E
<1>11. DOMAIN << >> = {}
  OBVIOUS
<1> QED BY <1>10, <1>11 DEF Sits, h

(* The heap that a possible history leaves. *)
LEMMA HistorySettles ==
  ASSUME NEW mp \in Params, NEW history \in Histories, NEW s,
         s = FoldLeft(After, [heap |-> malloc_init_state(FirstBrk, mp), objects |-> << >>], history)
  PROVE  Settles(s) /\ s \in [heap : Good, objects : Objects]
<1> DEFINE start == [heap |-> malloc_init_state(FirstBrk, mp), objects |-> << >>]
           n == Len(history)
           it == CHOOSE f : CallsMade(f, start, history, n)
           I == [m \in 0 .. n |-> {t \in Ready(history, m) : Settles(t)}]
<1>1. history \in Seq(Int \ {0}) /\ Possible(history) /\ n \in Nat /\ DOMAIN history = 1 .. n
  BY PtHeapAssumption DEF Possible
<1>2. FoldLeft(After, start, history) = it[1 .. n]
  BY <1>1 DEF FoldLeft, MapThenFoldSet, CallsMade
<1>3. CallsMade(it, start, history, n)
  BY <1>1, CallsMadeExist
<1> HIDE DEF it
<1>4. \A d \in SUBSET (1 .. n) : it[d] = IF d = {} THEN start ELSE After(it[d \ {Max(d)}], history[Max(d)])
  BY <1>3 DEF CallsMade
<1>5. start \in Ready(history, 0)
  <2>1. Allocations(history, 0) = {}
    BY DEF Allocations
  <2>2. Cardinality(Allocations(history, 0)) = 0
    BY <2>1, FS_EmptySet
  <2>3. << >> \in Objects /\ Len(<< >>) = 0
    BY DEF Objects
  <2> QED BY <2>2, <2>3, FirstHeap DEF Ready
<1>6. Settles(start)
  <2> DEFINE f == << >>
             o == << >>
  <2>1. DOMAIN o = {} /\ DOMAIN f = {} /\ f = [q \in DOMAIN f |-> f[q]]
    OBVIOUS
  <2>2. Sits(start.heap, f, {}) /\ start.objects = o
    BY FirstLayout
  <2> HIDE DEF f, o, start
  <2>3. Records(f, o)
    BY <2>1 DEF Records, Kept, Single
  <2> QED BY <2>2, <2>3 DEF Settles
<1> HIDE DEF start
<1>7. ASSUME NEW m \in 1 .. n, it[1 .. (m - 1)] \in Ready(history, m - 1), Settles(it[1 .. (m - 1)])
      PROVE  it[1 .. m] \in Ready(history, m) /\ Settles(it[1 .. m])
  <2>1. /\ 1 .. m \in SUBSET (1 .. n) /\ 1 .. m # {}
        /\ Max(1 .. m) = m /\ (1 .. m) \ {m} = 1 .. (m - 1)
    BY <1>1, LastOfInterval
  <2>2. it[1 .. m] = After(it[(1 .. m) \ {Max(1 .. m)}], history[Max(1 .. m)])
    BY <1>4, <2>1
  <2>3. it[1 .. m] = After(it[1 .. (m - 1)], history[m])
    BY <2>1, <2>2, Zenon
  <2>4. m \in 1 .. Len(history)
    BY <1>1
  <2> DEFINE t == it[1 .. (m - 1)]
  <2>5. t \in Ready(history, m - 1) /\ Settles(t)
    BY <1>7
  <2> HIDE DEF t
  <2>6. After(t, history[m]) \in Ready(history, m) /\ Settles(After(t, history[m]))
    BY <1>1, <2>4, <2>5, AfterKeeps, AfterSettles
  <2> QED BY <2>3, <2>6 DEF t
<1>8. it[1 .. n] \in Ready(history, n) /\ Settles(it[1 .. n])
  <2>1. it[{}] \in I[0]
    <3>1. it[{}] = start
      BY <1>4
    <3>2. 0 \in 0 .. n
      BY <1>1
    <3>3. I[0] = {t \in Ready(history, 0) : Settles(t)}
      BY <3>2
    <3> HIDE DEF I
    <3> QED BY <1>5, <1>6, <3>1, <3>3
  <2>2. \A m \in 1 .. n : m \in 0 .. n /\ m - 1 \in 0 .. n
    BY <1>1
  <2>3. \A m \in 1 .. n : it[1 .. (m - 1)] \in I[m - 1] => it[1 .. m] \in I[m]
    BY <1>7, <2>2
  <2>4. I[n] = {t \in Ready(history, n) : Settles(t)}
    BY <1>1
  <2> HIDE DEF I
  <2>5. it[1 .. n] \in I[n]
    BY <1>1, <2>1, <2>3, StepsEnd
  <2> QED BY <2>4, <2>5
<1>9. s = it[1 .. n]
  BY <1>2 DEF start
<1> QED
  BY <1>8, <1>9 DEF Ready

(* At the start the invariant holds. *)
LEMMA SittingStarts == Init => Sitting
<1> SUFFICES ASSUME Init PROVE Sitting
  OBVIOUS
<1> DEFINE Left(s) ==
      LET kept == {o \in ToSet(s.objects) : o[1] # NULL}
      IN /\ heap = s.heap
         /\ held = [p \in {o[1] : o \in kept} |-> CHOOSE n \in {o[2] : o \in kept} : <<p, n>> \in kept]
<1>0. PICK mp \in Params, history \in Histories :
        \E s \in {FoldLeft(After, [heap |-> malloc_init_state(FirstBrk, mp), objects |-> <<>>], history)} : Left(s)
  BY DEF Init
<1>1. PICK s : s = FoldLeft(After, [heap |-> malloc_init_state(FirstBrk, mp), objects |-> <<>>], history) /\ Left(s)
  BY <1>0
<1>2. Settles(s) /\ s \in [heap : Good, objects : Objects]
  BY <1>1, HistorySettles
<1> DEFINE kept == {o \in ToSet(s.objects) : o[1] # NULL}
           objects == s.objects
<1>3. heap = s.heap /\ held = [p \in {o[1] : o \in kept} |-> CHOOSE n \in {o[2] : o \in kept} : <<p, n>> \in kept]
  BY <1>1
<1>4. foreign = {}
  BY DEF Init
<1>5. ASSUME ~heap.aborted PROVE Sits(heap, held, {})
  <2>1. PICK f : Records(f, objects) /\ Sits(s.heap, f, {})
    BY <1>2, <1>3, <1>5 DEF Settles
  <2>2. objects \in Seq((Aligned \union {NULL}) \X Nat)
    BY <1>2 DEF Objects
  <2> HIDE DEF objects
  <2>3. \A o : o \in kept <=> \E i \in DOMAIN objects : o = objects[i] /\ o[1] # NULL
    BY DEF ToSet, objects
  <2>4. \A i \in DOMAIN objects : objects[i] = <<objects[i][1], objects[i][2]>>
    BY <2>2
  <2> HIDE DEF kept
  <2>5. {o[1] : o \in kept} = DOMAIN f
    <3>1. DOMAIN f = Kept(objects)
      BY <2>1 DEF Records
    <3> QED BY <2>3, <3>1 DEF Kept
  <2>6. \A o \in kept : f[o[1]] = o[2] /\ o = <<o[1], o[2]>>
    BY <2>1, <2>3, <2>4 DEF Records
  <2>7. ASSUME NEW p \in DOMAIN f PROVE held[p] = f[p]
    <3>1. PICK o \in kept : o[1] = p
      BY <2>5
    <3>2. <<p, f[p]>> \in kept /\ f[p] \in {x[2] : x \in kept}
      BY <2>6, <3>1
    <3>3. \A n \in {x[2] : x \in kept} : <<p, n>> \in kept => n = f[p]
      <4> SUFFICES ASSUME NEW n, <<p, n>> \in kept PROVE n = f[p]
        OBVIOUS
      <4> DEFINE o2 == <<p, n>>
      <4>1. o2[1] = p /\ o2[2] = n /\ o2 \in kept
        OBVIOUS
      <4> HIDE DEF o2
      <4> QED BY <2>6, <4>1
    <3>4. (CHOOSE n \in {x[2] : x \in kept} : <<p, n>> \in kept) = f[p]
      BY <3>2, <3>3
    <3> QED BY <1>3, <2>5, <3>4
  <2>8. DOMAIN held = DOMAIN f
    BY <1>3, <2>5
  <2>9. f = [q \in DOMAIN f |-> f[q]]
    BY <2>1 DEF Records
  <2>10. held = [q \in DOMAIN f |-> held[q]]
    <3> DEFINE c(p) == CHOOSE n \in {o[2] : o \in kept} : <<p, n>> \in kept
    <3>1. held = [p \in DOMAIN f |-> c(p)]
      BY <1>3, <2>5
    <3> HIDE DEF c
    <3> QED BY <3>1
  <2>11. held = f
    BY <2>7, <2>9, <2>10
  <2> QED BY <1>3, <2>1, <2>11
<1>6. HeldSits
  BY <1>4, <1>5 DEF HeldSits, Sits
<1>7. ForeignIsLow
  BY <1>4 DEF ForeignIsLow
<1> QED BY <1>6, <1>7, InvStarts DEF Sitting

(* A call comes about. *)
LEMMA StepComes ==
  ASSUME Sitting, Next
  PROVE  Comes(heap, held, heap', held', foreign')
<1> USE DEF Sitting
<1>1. CASE \E bytes \in Sizes : Malloc(bytes)
  BY <1>1, MallocComes
<1>2. CASE \E p \in DOMAIN held : Free(p)
  BY <1>2, FreeComes
<1>3. CASE \E p \in DOMAIN held, bytes \in Sizes \union {0} : Realloc(p, bytes)
  BY <1>3, ReallocComes
<1>4. CASE \E bytes \in FewSizes : Calloc(bytes)
  BY <1>4, CallocComes
<1>5. CASE \E a \in Alignments, bytes \in FewSizes : Memalign(a, bytes)
  BY <1>5, MemalignComes
<1>6. CASE \E bytes \in FewSizes : Pvalloc(bytes)
  BY <1>6, PvallocComes
<1>7. CASE \E pad \in Pads : MallocTrim(pad)
  BY <1>7, TrimComes
<1>8. CASE \E s \in Settings : Mallopt(s)
  BY <1>8, MalloptComes
<1>9. CASE ThreadShutdown
  BY <1>9, ShutdownComes
<1>10. CASE \E n \in ForeignSizes : ForeignSbrk(n)
  BY <1>10, ForeignComes
<1> QED
  BY <1>1, <1>2, <1>3, <1>4, <1>5, <1>6, <1>7, <1>8, <1>9, <1>10 DEF Next

(* Others take words of the break only. *)
LEMMA ForeignStaysLow ==
  ASSUME Sitting, Next
  PROVE  ForeignIsLow'
<1>1. CASE foreign' = foreign
  BY <1>1 DEF Sitting, ForeignIsLow
<1>2. CASE \E n \in ForeignSizes : ForeignSbrk(n)
  <2>1. PICK n \in ForeignSizes : ForeignSbrk(n)
    BY <1>2
  <2>2. heap.brk \in Int /\ n \in Int /\ BrkLimit \in Int
    BY PtAssumption, PtHeapAssumption DEF Sitting, Inv, TypeOK, Good, Heaps, Aligned
  <2>3. foreign' = foreign \union Region(heap.brk, n) /\ heap.brk + n <= BrkLimit
    BY <2>1 DEF ForeignSbrk
  <2> QED BY <2>2, <2>3 DEF Sitting, ForeignIsLow, Region
<1>3. foreign' = foreign \/ \E n \in ForeignSizes : ForeignSbrk(n)
  BY DEF Next, Malloc, Free, Realloc, Calloc, Memalign, Pvalloc, MallocTrim, Mallopt, ThreadShutdown, Becomes
<1> QED BY <1>1, <1>2, <1>3

(* Every step keeps the layout: a call by what it makes of the heap, a     *)
(* step without a call because nothing changes.                            *)
LEMMA SittingIsInductive == Sitting /\ [Next]_vars => Sitting'
<1> SUFFICES ASSUME Sitting, [Next]_vars PROVE Sitting'
  OBVIOUS
<1>1. Inv'
  BY InvIsInductive DEF Sitting
<1>2. CASE Next
  <2>1. HeldSits'
    BY <1>2, StepComes DEF Comes, HeldSits
  <2> QED BY <1>1, <1>2, <2>1, ForeignStaysLow DEF Sitting
<1>3. CASE UNCHANGED vars
  BY <1>1, <1>3 DEF Sitting, HeldSits, ForeignIsLow, vars
<1> QED BY <1>2, <1>3

(* Between calls, while no check has failed, the heap is well laid out:    *)
(* the chunks tile the words the kernel gave, the header behind each is a  *)
(* chunk's, each chunk is in one place that suits its size, the client's   *)
(* among them, and each object is as large as was asked; whatever calls of *)
(* malloc, free, realloc and the others came before.                       *)
THEOREM ObjectsSit == Spec => []Sitting
BY SittingStarts, SittingIsInductive, PTL DEF Spec

-----------------------------------------------------------------------------
(* What follows from it. *)

(* The layout of the heap between calls. *)
LEMMA HeldLayout ==
  ASSUME Sitting, ~heap.aborted
  PROVE  /\ Layout(heap, DOMAIN held, foreign) /\ heap \in Good
         /\ DOMAIN heap.mem = DOMAIN Shape(heap) /\ DOMAIN heap.mem \in SUBSET Int
         /\ Ground(Shape(heap), heap.top, heap.brk, heap.maps, foreign) /\ Sized(Shape(heap))
         /\ \A p \in DOMAIN held : Fits(heap, p, request2size(held[p]))
         /\ held \in [DOMAIN held -> Nat] /\ DOMAIN held \in SUBSET Aligned
<1>1. Layout(heap, DOMAIN held, foreign) /\ heap \in Good
  BY DEF Sitting, HeldSits, Sits, Inv, TypeOK
<1>2. DOMAIN heap.mem = DOMAIN Shape(heap)
  BY ShapeIs
<1> QED BY <1>1, <1>2 DEF Layout, Ground, Sized, Sitting, HeldSits, Sits, Inv, TypeOK

(* The words of a chunk. *)
LEMMA WordsAre ==
  ASSUME Sitting, ~heap.aborted, NEW p \in DOMAIN heap.mem
  PROVE  /\ WordsOf(p) \in SUBSET Int /\ \A x \in Int : x \in WordsOf(p) <=> Has(Shape(heap), p, x)
         /\ ~Shape(heap)[p].mapped => WordsOf(p) = Region(p, Shape(heap)[p].size)
<1> DEFINE v == Shape(heap)[p]
<1>1. /\ p \in Int /\ v.size \in Int /\ v.off \in Int /\ (~v.mapped => v.off = 0)
      /\ v.size = chunksize(heap, p) /\ v.mapped = mmapped(heap, p) /\ v.off = IF mmapped(heap, p) THEN prev_size(heap, p) ELSE 0
  BY HeldLayout, ShapeIs DEF Sized
<1>2. \A x : Has(Shape(heap), p, x) <=> p - v.off <= x /\ x < p + v.size
  BY DEF Has
<1> HIDE DEF v
<1>3. CASE v.mapped
  <2>1. WordsOf(p) = p - v.off .. (p - v.off) + (v.off + v.size) - 1
    BY <1>1, <1>3 DEF WordsOf, Region, Block, BlockSize
  <2>2. p \in Int /\ v.off \in Int /\ v.size \in Int
    BY <1>1
  <2> DEFINE o == v.off
             n == v.size
  <2> HIDE DEF o, n
  <2>3. p - o .. (p - o) + (o + n) - 1 \in SUBSET Int /\ \A x \in Int : x \in p - o .. (p - o) + (o + n) - 1 <=> p - o <= x /\ x < p + n
    BY <2>2 DEF o, n
  <2>4. WordsOf(p) \in SUBSET Int /\ \A x \in Int : x \in WordsOf(p) <=> p - v.off <= x /\ x < p + v.size
    BY <2>1, <2>3 DEF o, n
  <2> QED BY <1>2, <1>3, <2>4 DEF v
<1>4. CASE ~v.mapped
  <2>1. WordsOf(p) = Region(p, v.size) /\ WordsOf(p) = p .. p + v.size - 1
    BY <1>1, <1>4 DEF WordsOf, Region
  <2> QED BY <1>1, <1>2, <1>4, <2>1 DEF v
<1> QED BY <1>3, <1>4

(* What others took is of the break, and below every mapping. *)
LEMMA GivenIs ==
  ASSUME Sitting, ~heap.aborted
  PROVE  Given = GivenTo(heap.brk, heap.maps, foreign) /\ Given \in SUBSET Int
<1>1. Kernel(Shape(heap), heap.brk, heap.maps, foreign)
  BY HeldLayout DEF Ground
<1> DEFINE M == MapWords(heap.maps)
           R == Region(FirstBrk, heap.brk - FirstBrk)
<1>2. \A x \in M : x \in Int /\ x >= BrkLimit
  BY <1>1, MapsAbove
<1>3. \A x \in M : x \notin foreign
  <2>1. BrkLimit \in Int /\ foreign \in SUBSET Int /\ \A x \in foreign : x < BrkLimit
    BY PtAssumption DEF Sitting, ForeignIsLow, Inv, TypeOK
  <2> QED BY <1>2, <2>1
<1>4. Given = (R \ foreign) \union M /\ GivenTo(heap.brk, heap.maps, foreign) = (R \union M) \ foreign
  BY DEF Given, GivenTo, MapWords
<1>5. R \in SUBSET Int
  BY PtHeapAssumption, <1>1 DEF Kernel, Region
<1> HIDE DEF M, R
<1> QED BY <1>2, <1>3, <1>4, <1>5

(* While no check has failed, the chunks are a partition of the words that *)
(* the kernel gave and still gives: _int_malloc, _int_free, sysmalloc,     *)
(* systrim and the mremap and munmap paths lose no word, share none and    *)
(* touch none of somebody else's.                                          *)
THEOREM MemoryIsTiled == Spec => [](~heap.aborted => ChunksTileMemory)
<1>1. Sitting => (~heap.aborted => ChunksTileMemory)
  <2> SUFFICES ASSUME Sitting, ~heap.aborted PROVE ChunksTileMemory
    OBVIOUS
  <2> DEFINE s == Shape(heap)
             D == DOMAIN heap.mem
  <2>1. Tiles(s, Given) /\ DOMAIN s = D
    BY HeldLayout, GivenIs DEF Ground
  <2>2. \A p \in D : WordsOf(p) \in SUBSET Int /\ \A x \in Int : x \in WordsOf(p) <=> Has(s, p, x)
    BY WordsAre
  <2>3. Given \in SUBSET Int
    BY GivenIs
  <2> HIDE DEF s, D
  <2>4. UNION {WordsOf(p) : p \in D} = Given
    <3>1. ASSUME NEW x \in UNION {WordsOf(p) : p \in D} PROVE x \in Given
      BY <2>1, <2>2 DEF Tiles
    <3>2. ASSUME NEW x \in Given PROVE x \in UNION {WordsOf(p) : p \in D}
      BY <2>1, <2>2, <2>3 DEF Tiles
    <3> QED BY <3>1, <3>2
  <2>5. ASSUME NEW p \in D, NEW q \in D, p # q PROVE WordsOf(p) \cap WordsOf(q) = {}
    BY <2>1, <2>2, <2>5 DEF Tiles
  <2> QED BY <2>4, <2>5 DEF ChunksTileMemory, D
<1> QED BY <1>1, ObjectsSit, PTL

(* While no check has failed, _int_malloc has called sysmalloc only when   *)
(* no free chunk could serve the request: the map of bins, have_fastchunks *)
(* and the large bins hide none.                                           *)
THEOREM GrowthIsNeeded == Spec => [](~heap.aborted => GrowsOnlyWhenFull)
<1>1. Sitting => (~heap.aborted => GrowsOnlyWhenFull)
  BY HeldLayout DEF Layout, GrowsOnlyWhenFull
<1> QED BY <1>1, ObjectsSit, PTL

(* The words of an object. *)
LEMMA ObjectIs ==
  ASSUME Sitting, ~heap.aborted, NEW p \in DOMAIN held
  PROVE  /\ p \in DOMAIN heap.mem /\ p \in Int /\ p \notin {heap.top} /\ musable(heap, p) \in Int
         /\ held[p] \in Nat /\ held[p] <= musable(heap, p)
         /\ Shape(heap)[p].size \in Int /\ Shape(heap)[p].size > 0
         /\ Shape(heap)[p].mapped \/ (Shape(heap)[p].size >= MINSIZE /\ Followed(Shape(heap), p))
         /\ musable(heap, p) = IF Shape(heap)[p].mapped THEN Shape(heap)[p].size - CHUNK_HDR_SZ ELSE Shape(heap)[p].size - SIZE_SZ
<1> DEFINE s == Shape(heap)
           H == DOMAIN held
           E == Where(heap, H)
<1>1. Layout(heap, H, foreign) /\ Fits(heap, p, request2size(held[p])) /\ held[p] \in Nat /\ p \in Int
  BY HeldLayout DEF Aligned
<1>2. p \in DOMAIN s /\ p \in DOMAIN heap.mem /\ s[p].size \in Int /\ s[p].size > 0
  BY <1>1, HeldLayout DEF Fits, Sized
<1>3. chunksize(heap, p) = s[p].size /\ mmapped(heap, p) = s[p].mapped
  BY <1>2, SizeIs
<1>4. musable(heap, p) = IF s[p].mapped THEN s[p].size - CHUNK_HDR_SZ ELSE s[p].size - SIZE_SZ
  BY <1>3 DEF musable
<1> HIDE DEF s
<1>5. p \in E[Hand] /\ Hand \in Int
  BY WhereIs, Elsewhere
<1>6. Only(E, p, Hand) /\ Suits(Hand, s[p])
  BY <1>1, <1>5, InPlace DEF s
<1>7. p # heap.top
  <2>1. Top \in Int /\ Top # Hand /\ E[Top] = {heap.top} \ {0}
    BY WhereIs, Elsewhere
  <2>2. p \notin {heap.top} \ {0}
    BY <1>6, <2>1 DEF Only
  <2>3. p # 0
    BY <1>1, <1>2, NoChunkAtZero DEF s
  <2> QED BY <2>2, <2>3
<1>8. s[p].mapped \/ (s[p].size >= MINSIZE /\ Followed(s, p))
  <2>1. Ends(s, heap.top)
    BY <1>1 DEF Layout, Ground, s
  <2> QED BY <1>2, <1>6, <1>7, <2>1 DEF Suits, Ends
<1>9. request2size(held[p]) \in Int /\ request2size(held[p]) >= held[p] + SIZE_SZ
  BY <1>1, RequestHasRoom
<1>10. s[p].size >= request2size(held[p]) /\ (s[p].mapped => s[p].size >= request2size(held[p]) + 1)
  BY <1>1 DEF Fits, s
<1>11. musable(heap, p) \in Int /\ held[p] <= musable(heap, p)
  BY <1>1, <1>2, <1>4, <1>9, <1>10 DEF SIZE_SZ, CHUNK_HDR_SZ
<1> QED BY <1>1, <1>2, <1>4, <1>7, <1>8, <1>11 DEF s

(* The lists of one kind, one behind the other: their chunks are those at  *)
(* the places from n + 1 to n + k.                                         *)
OfKind(seqs, E, n, k) ==
  /\ n \in Int /\ k \in Nat /\ seqs \in Seq(Seq(Int)) /\ Len(seqs) = k
  /\ \A i \in 1 .. k : ToSet(seqs[i]) = E[n + i] /\ IsInjective(seqs[i])
ListOf(list, E, n, k) ==
  list \in Seq(Int) /\ IsInjective(list) /\ ToSet(list) = UNION {E[x] : x \in n + 1 .. n + k}

(* Lists of one kind have each of their chunks once, and no other. *)
LEMMA ListsOfKind ==
  ASSUME NEW h, NEW H, NEW F, Layout(h, H, F), NEW seqs, NEW n, NEW k, OfKind(seqs, Where(h, H), n, k)
  PROVE  ListOf(FlattenSeq(seqs), Where(h, H), n, k)
<1> DEFINE E == Where(h, H)
<1>0. /\ n \in Int /\ k \in Nat /\ seqs \in Seq(Seq(Int)) /\ Len(seqs) = k
      /\ \A i \in 1 .. k : ToSet(seqs[i]) = E[n + i] /\ IsInjective(seqs[i])
  BY DEF OfKind
<1>1. DOMAIN seqs = 1 .. k
  BY <1>0
<1>2. \A i \in 1 .. k : n + i \in Int /\ n + i \in n + 1 .. n + k
  BY <1>0
<1>3. ASSUME NEW i \in 1 .. k PROVE ToSet(seqs[i]) \in SUBSET Int
  <2>1. seqs[i] \in Seq(Int)
    BY <1>0, <1>1
  <2> DEFINE l == seqs[i]
  <2> HIDE DEF l
  <2>2. l \in Seq(Int) => ToSet(l) \in SUBSET Int
    BY DEF ToSet
  <2> QED BY <2>1, <2>2 DEF l
<1>4. ASSUME NEW i \in 1 .. k, NEW j \in 1 .. k, i # j PROVE ToSet(seqs[i]) \cap ToSet(seqs[j]) = {}
  <2> SUFFICES ASSUME NEW p \in ToSet(seqs[i]), p \in ToSet(seqs[j]) PROVE FALSE
    OBVIOUS
  <2> DEFINE x == n + i
             y == n + j
  <2>1. p \in Int /\ x \in Int /\ y \in Int /\ p \in E[x] /\ p \in E[y]
    BY <1>0, <1>2, <1>3
  <2>2. x # y
    BY <1>0, <1>4
  <2> HIDE DEF x, y, E
  <2>3. Only(E, p, x)
    BY <2>1, InPlace DEF E
  <2> QED BY <2>1, <2>2, <2>3 DEF Only
<1>5. ToSet(FlattenSeq(seqs)) = UNION {ToSet(seqs[i]) : i \in DOMAIN seqs}
  BY <1>0, FlattenedOnce
<1>6. IsInjective(FlattenSeq(seqs))
  BY <1>0, <1>1, <1>4, FlattenedOnce
<1>7. FlattenSeq(seqs) \in Seq(Int)
  BY <1>0, FlattenedType
<1>8. UNION {ToSet(seqs[i]) : i \in DOMAIN seqs} = UNION {E[x] : x \in n + 1 .. n + k}
  <2>1. ASSUME NEW p, NEW x \in n + 1 .. n + k, p \in E[x] PROVE \E i \in 1 .. k : p \in ToSet(seqs[i])
    <3>1. x - n \in 1 .. k /\ n + (x - n) = x
      BY <1>0
    <3> HIDE DEF E
    <3> QED BY <1>0, <2>1, <3>1
  <2>2. ASSUME NEW p, NEW i \in 1 .. k, p \in ToSet(seqs[i]) PROVE \E x \in n + 1 .. n + k : p \in E[x]
    BY <1>0, <1>2, <2>2
  <2> HIDE DEF E
  <2>3. ASSUME NEW p \in UNION {ToSet(seqs[i]) : i \in DOMAIN seqs} PROVE p \in UNION {E[x] : x \in n + 1 .. n + k}
    BY <1>1, <2>2
  <2>4. ASSUME NEW p \in UNION {E[x] : x \in n + 1 .. n + k} PROVE p \in UNION {ToSet(seqs[i]) : i \in DOMAIN seqs}
    BY <1>1, <2>1
  <2> QED BY <2>3, <2>4
<1> QED BY <1>5, <1>6, <1>7, <1>8 DEF ListOf

(* So all the lists, one behind the other. *)
LEMMA ListedIs ==
  ASSUME Sitting, ~heap.aborted
  PROVE  /\ IsInjective(Listed)
         /\ ToSet(Listed) = UNION {Where(heap, DOMAIN held)[x] : x \in (1 .. NBINS - 1) \union FastPlaces \union CachePlaces}
<1> DEFINE h == heap
           H == DOMAIN held
           E == Where(h, H)
           fs == [i \in 1 .. NFASTBINS |-> h.fast[i - 1]]
           cs == [i \in 1 .. TCACHE_MAX_BINS |-> h.entries[i - 1]]
           bs == h.bins
<1>1. Layout(h, H, foreign) /\ h \in Good /\ Distinct(h)
  BY HeldLayout DEF Layout
<1>2. NBINS \in Nat /\ NBINS > 0 /\ NFASTBINS \in Nat /\ TCACHE_MAX_BINS \in Nat
  BY PtAssumption, SmallEnough DEF MALLOC_ALIGNMENT, SIZE_SZ, MINSIZE
<1>3. h.bins \in [1 .. NBINS - 1 -> Seq(Aligned)] /\ h.fast \in [0 .. NFASTBINS - 1 -> Seq(Aligned)]
      /\ h.entries \in [0 .. TCACHE_MAX_BINS - 1 -> Seq(Aligned)]
  BY <1>1 DEF Good, Heaps, Bins, Fasts, Caches, Lists
<1>4. Seq(Aligned) \subseteq Seq(Int)
  BY DEF Aligned
<1>5. bs \in Seq(Seq(Int)) /\ Len(bs) = NBINS - 1
  <2>1. NBINS - 1 \in Nat /\ \A b \in 1 .. NBINS - 1 : bs[b] \in Seq(Int)
    BY <1>2, <1>3, <1>4
  <2>2. bs = [b \in 1 .. NBINS - 1 |-> bs[b]]
    BY <1>3
  <2> QED BY <2>1, <2>2
<1>6. fs \in Seq(Seq(Int)) /\ Len(fs) = NFASTBINS
  <2>1. \A i \in 1 .. NFASTBINS : i - 1 \in 0 .. NFASTBINS - 1
    BY <1>2
  <2> QED BY <1>2, <1>3, <1>4, <2>1
<1>7. cs \in Seq(Seq(Int)) /\ Len(cs) = TCACHE_MAX_BINS
  <2>1. \A i \in 1 .. TCACHE_MAX_BINS : i - 1 \in 0 .. TCACHE_MAX_BINS - 1
    BY <1>2
  <2> QED BY <1>2, <1>3, <1>4, <2>1
<1>8. \A i \in 1 .. NBINS - 1 : ToSet(bs[i]) = E[0 + i] /\ IsInjective(bs[i])
  <2>1. \A i \in 1 .. NBINS - 1 : 0 + i = i
    BY <1>2
  <2> QED BY <1>1, <2>1, WhereIs DEF Distinct
<1>9. ASSUME NEW i \in 1 .. NFASTBINS PROVE ToSet(fs[i]) = E[(NBINS - 1) + i] /\ IsInjective(fs[i])
  <2> DEFINE j == i - 1
  <2>1. j \in 0 .. NFASTBINS - 1 /\ (NBINS - 1) + i = NBINS + j /\ fs[i] = h.fast[j]
    BY <1>2
  <2> HIDE DEF j, fs
  <2> QED BY <1>1, <2>1, WhereIs DEF Distinct
<1>10. ASSUME NEW i \in 1 .. TCACHE_MAX_BINS PROVE ToSet(cs[i]) = E[(NBINS + NFASTBINS - 1) + i] /\ IsInjective(cs[i])
  <2> DEFINE j == i - 1
  <2>1. j \in 0 .. TCACHE_MAX_BINS - 1 /\ (NBINS + NFASTBINS - 1) + i = NBINS + NFASTBINS + j /\ cs[i] = h.entries[j]
    BY <1>2
  <2> HIDE DEF j, cs
  <2> QED BY <1>1, <2>1, WhereIs DEF Distinct
<1> DEFINE B == UNION {E[x] : x \in 0 + 1 .. 0 + (NBINS - 1)}
           S == UNION {E[x] : x \in (NBINS - 1) + 1 .. (NBINS - 1) + NFASTBINS}
           C == UNION {E[x] : x \in (NBINS + NFASTBINS - 1) + 1 .. (NBINS + NFASTBINS - 1) + TCACHE_MAX_BINS}
           b == FlattenSeq(bs)
           f == FlattenSeq(fs)
           c == FlattenSeq(cs)
<1> HIDE DEF fs, cs, bs
<1>11. b \in Seq(Int) /\ IsInjective(b) /\ ToSet(b) = B
  <2> DEFINE n == 0
             k == NBINS - 1
  <2>1. n \in Int /\ k \in Nat
    BY <1>2
  <2>2. OfKind(bs, E, n, k)
    BY <1>5, <1>8, <2>1 DEF OfKind
  <2> HIDE DEF n, k
  <2>3. ListOf(b, E, n, k)
    BY <1>1, <2>2, ListsOfKind
  <2> HIDE DEF b, E
  <2> QED BY <2>3 DEF ListOf, n, k
<1>12. f \in Seq(Int) /\ IsInjective(f) /\ ToSet(f) = S
  <2> DEFINE n == NBINS - 1
             k == NFASTBINS
  <2>1. n \in Int /\ k \in Nat
    BY <1>2
  <2>2. OfKind(fs, E, n, k)
    BY <1>6, <1>9, <2>1 DEF OfKind
  <2> HIDE DEF n, k
  <2>3. ListOf(f, E, n, k)
    BY <1>1, <2>2, ListsOfKind
  <2> HIDE DEF f, E
  <2> QED BY <2>3 DEF ListOf, n, k
<1>13. c \in Seq(Int) /\ IsInjective(c) /\ ToSet(c) = C
  <2> DEFINE n == NBINS + NFASTBINS - 1
             k == TCACHE_MAX_BINS
  <2>1. n \in Int /\ k \in Nat
    BY <1>2
  <2>2. OfKind(cs, E, n, k)
    BY <1>7, <1>10, <2>1 DEF OfKind
  <2> HIDE DEF n, k
  <2>3. ListOf(c, E, n, k)
    BY <1>1, <2>2, ListsOfKind
  <2> HIDE DEF c, E
  <2> QED BY <2>3 DEF ListOf, n, k
<1>14. /\ 0 + 1 .. 0 + (NBINS - 1) = 1 .. NBINS - 1
       /\ (NBINS - 1) + 1 .. (NBINS - 1) + NFASTBINS = FastPlaces
       /\ (NBINS + NFASTBINS - 1) + 1 .. (NBINS + NFASTBINS - 1) + TCACHE_MAX_BINS = CachePlaces
  BY <1>2 DEF FastPlaces, CachePlaces
<1>15. \A p \in Int : \A x, y \in Int : p \in E[x] /\ p \in E[y] => x = y
  <2> SUFFICES ASSUME NEW p \in Int, NEW x \in Int, NEW y \in Int, p \in E[x], p \in E[y] PROVE x = y
    OBVIOUS
  <2> HIDE DEF E
  <2>1. Only(E, p, x)
    BY <1>1, InPlace DEF E
  <2> QED BY <2>1 DEF Only
<1>16. B = UNION {E[x] : x \in 1 .. NBINS - 1} /\ S = UNION {E[x] : x \in FastPlaces} /\ C = UNION {E[x] : x \in CachePlaces}
  BY <1>14
<1> HIDE DEF B, S, C, E
<1>17. ToSet(b) \subseteq Int /\ ToSet(f) \subseteq Int /\ ToSet(c) \subseteq Int
  BY <1>11, <1>12, <1>13 DEF ToSet
<1> HIDE DEF b, c, f
<1>18. \A p \in Int : ~(p \in S /\ p \in B) /\ ~(p \in S /\ p \in C) /\ ~(p \in B /\ p \in C)
  <2> SUFFICES ASSUME NEW p \in Int PROVE ~(p \in S /\ p \in B) /\ ~(p \in S /\ p \in C) /\ ~(p \in B /\ p \in C)
    OBVIOUS
  <2> DEFINE N == 1 .. NBINS - 1
  <2>1. \A x, y : x \in N \union FastPlaces \union CachePlaces /\ y \in N \union FastPlaces \union CachePlaces
                  /\ p \in E[x] /\ p \in E[y] => x = y
    BY <1>15, Elsewhere
  <2>2. (\A x \in FastPlaces : x \notin N /\ x \notin CachePlaces) /\ (\A x \in CachePlaces : x \notin N)
    BY Elsewhere
  <2>3. B = UNION {E[x] : x \in N} /\ S = UNION {E[x] : x \in FastPlaces} /\ C = UNION {E[x] : x \in CachePlaces}
    BY <1>16
  <2> HIDE DEF N
  <2>4. p \in B => \E x \in N : p \in E[x]
    BY <2>3
  <2>5. p \in S => \E x \in FastPlaces : p \in E[x]
    BY <2>3
  <2>6. p \in C => \E x \in CachePlaces : p \in E[x]
    BY <2>3
  <2>7. ~(p \in S /\ p \in B)
    BY <2>1, <2>2, <2>4, <2>5
  <2>8. ~(p \in S /\ p \in C)
    BY <2>1, <2>2, <2>5, <2>6
  <2>9. ~(p \in B /\ p \in C)
    BY <2>1, <2>2, <2>4, <2>6
  <2> QED BY <2>7, <2>8, <2>9
<1>19. f \o b \in Seq(Int) /\ ToSet(f \o b) = S \union B /\ IsInjective(f \o b)
  <2>1. ToSet(f) \cap ToSet(b) = {}
    BY <1>11, <1>12, <1>17, <1>18
  <2> QED BY <1>11, <1>12, <2>1, JoinedOnce
<1> DEFINE fb == f \o b
<1> HIDE DEF fb
<1>20. fb \o c \in Seq(Int) /\ ToSet(fb \o c) = (S \union B) \union C /\ IsInjective(fb \o c)
  <2>1. fb \in Seq(Int) /\ ToSet(fb) = S \union B /\ IsInjective(fb)
    BY <1>19 DEF fb
  <2>2. ToSet(fb) \cap ToSet(c) = {}
    BY <1>13, <1>17, <1>18, <2>1
  <2> QED BY <1>13, <2>1, <2>2, JoinedOnce
<1>21. Listed = fb \o c
  BY DEF Listed, fb, f, b, c, fs, bs, cs
<1> QED BY <1>16, <1>20, <1>21 DEF E

(* While no check has failed, every chunk is with the client, in one list  *)
(* once, or malloc's own, and what is in none is a fencepost: free,        *)
(* tcache_put, unlink_chunk and malloc_consolidate leak none and list none *)
(* twice.                                                                  *)
THEOREM ChunksHaveOnePlace == Spec => [](~heap.aborted => ChunksInOnePlace)
<1>1. Sitting => (~heap.aborted => ChunksInOnePlace)
  <2> SUFFICES ASSUME Sitting, ~heap.aborted PROVE ChunksInOnePlace
    OBVIOUS
  <2> DEFINE H == DOMAIN held
             s == Shape(heap)
             E == Where(heap, H)
             own == ({heap.top} \ {0}) \union ({heap.tcache} \ {NULL})
             P == (1 .. NBINS - 1) \union FastPlaces \union CachePlaces
             L == ToSet(Listed)
  <2>1. Layout(heap, H, foreign) /\ DOMAIN heap.mem = DOMAIN s /\ DOMAIN s \in SUBSET Int /\ H \in SUBSET Int
    BY HeldLayout DEF Aligned
  <2>2. Placed(s, E)
    BY <2>1 DEF Layout
  <2>3. E[Hand] = H /\ E[Top] = {heap.top} \ {0} /\ E[Own] = {heap.tcache} \ {NULL} /\ own = E[Top] \union E[Own]
    BY WhereIs
  <2>4. IsInjective(Listed) /\ L = UNION {E[x] : x \in P}
    BY ListedIs
  <2>5. own \in SUBSET Int /\ L \in SUBSET Int
    <3>1. heap \in Good
      BY HeldLayout
    <3>10. \A l \in Lists : ToSet(l) \in SUBSET Int
      BY DEF Lists, ToSet, Aligned
    <3>2. heap.top \in Int /\ heap.tcache \in Int \union {NULL}
      BY <3>1 DEF Good, Heaps, Aligned
    <3>3. \A b \in 1 .. NBINS - 1 : ToSet(heap.bins[b]) \in SUBSET Int
      BY <3>1, <3>10 DEF Good, Heaps, Bins, Fasts, Caches
    <3>4. \A i \in 0 .. NFASTBINS - 1 : ToSet(heap.fast[i]) \in SUBSET Int
      BY <3>1, <3>10 DEF Good, Heaps, Bins, Fasts, Caches
    <3>5. \A i \in 0 .. TCACHE_MAX_BINS - 1 : ToSet(heap.entries[i]) \in SUBSET Int
      BY <3>1, <3>10 DEF Good, Heaps, Bins, Fasts, Caches
    <3>6. NBINS \in Nat /\ NFASTBINS \in Nat /\ TCACHE_MAX_BINS \in Nat
      BY PtAssumption, SmallEnough DEF MALLOC_ALIGNMENT, SIZE_SZ, MINSIZE
    <3>7. \A x \in FastPlaces : x - NBINS \in 0 .. NFASTBINS - 1
      BY <3>6 DEF FastPlaces
    <3>8. \A x \in CachePlaces : x - NBINS - NFASTBINS \in 0 .. TCACHE_MAX_BINS - 1
      BY <3>6 DEF CachePlaces
    <3>9. \A x \in P : E[x] \in SUBSET Int
      BY <3>3, <3>4, <3>5, <3>7, <3>8, Elsewhere DEF Where
    <3> HIDE DEF E, P
    <3> QED BY <2>4, <3>2, <3>9
  <2>6. \A x \in P : x \in Int /\ x # Hand /\ x # Top /\ x # Own
    BY Elsewhere
  <2>7. Hand \in Int /\ Top \in Int /\ Own \in Int /\ Hand # Top /\ Hand # Own
    BY Elsewhere
  <2> HIDE DEF s, E, P, H, L, own
  <2>8. \A p \in Int : \A x, y \in Int : p \in E[x] /\ p \in E[y] => x = y /\ p \in DOMAIN s
    BY <2>2 DEF Placed, OkAt
  <2>9. (H \union own) \cap L = {} /\ H \cap own = {}
    BY <2>1, <2>3, <2>4, <2>5, <2>6, <2>7, <2>8
  <2>10. (H \union own) \union L \subseteq DOMAIN s
    <3>1. \A p \in H \union own : p \in DOMAIN s
      BY <2>1, <2>3, <2>5, <2>7, <2>8
    <3>2. \A p \in L : p \in DOMAIN s
      BY <2>4, <2>5, <2>6, <2>8
    <3> QED BY <3>1, <3>2
  <2>11. ASSUME NEW p \in DOMAIN s, p \notin (H \union own) \union L PROVE chunksize(heap, p) < MINSIZE
    <3>1. \A x \in Int : p \notin E[x]
      <4> SUFFICES ASSUME NEW x \in Int, p \in E[x] PROVE FALSE
        OBVIOUS
      <4>1. x \notin P /\ x # Hand /\ x # Top /\ x # Own
        BY <2>3, <2>4, <2>11
      <4> QED BY <4>1 DEF E, Where, P
    <3>2. s[p].size < MINSIZE
      BY <2>1, <2>2, <2>11, <3>1 DEF Placed, OkAt
    <3> QED BY <3>2, SizeIs DEF s
  <2> QED BY <2>1, <2>4, <2>9, <2>10, <2>11 DEF ChunksInOnePlace, H, L, own
<1> QED BY <1>1, ObjectsSit, PTL

(* The words of the object p: those after the header, and in the heap the  *)
(* first of the next chunk, whose field is unused while p is in use.       *)
ObjectWords(p) == p + CHUNK_HDR_SZ .. p + CHUNK_HDR_SZ + musable(heap, p) - 1

(* A word of an object is of its chunk, or the first of the chunk behind   *)
(* (the prev_size that malloc lends to its user).                          *)
LEMMA ObjectWordsAre ==
  ASSUME Sitting, ~heap.aborted, NEW p \in DOMAIN held, NEW x \in ObjectWords(p)
  PROVE  /\ x \in Int /\ x > p + 1
         /\ \/ Has(Shape(heap), p, x)
            \/ /\ ~Shape(heap)[p].mapped /\ x = p + Shape(heap)[p].size /\ Shape(heap)[p].size >= MINSIZE
               /\ x \in DOMAIN Shape(heap) /\ Has(Shape(heap), x, x) /\ Has(Shape(heap), p, x - 1)
<1> DEFINE s == Shape(heap)
           n == s[p].size
<1>1. /\ p \in DOMAIN heap.mem /\ p \in Int /\ musable(heap, p) \in Int /\ n \in Int
      /\ s[p].mapped \/ (n >= MINSIZE /\ Followed(s, p))
      /\ musable(heap, p) = IF s[p].mapped THEN n - CHUNK_HDR_SZ ELSE n - SIZE_SZ
  BY ObjectIs
<1>2. Sized(s) /\ p \in DOMAIN s /\ s[p].off \in Int /\ s[p].off >= 0 /\ (~s[p].mapped => s[p].off = 0)
  BY <1>1, HeldLayout DEF Sized
<1>3. x \in Int /\ x > p + 1 /\ x <= p + 2 + musable(heap, p) - 1
  BY <1>1 DEF ObjectWords, CHUNK_HDR_SZ, SIZE_SZ
<1> HIDE DEF s, n
<1>4. CASE x < p + n
  <2>1. Has(s, p, x)
    BY <1>1, <1>2, <1>3, <1>4 DEF Has, n
  <2> QED BY <1>3, <2>1 DEF s
<1>5. CASE ~(x < p + n)
  <2>1. ~s[p].mapped /\ x = p + n
    BY <1>1, <1>3, <1>5 DEF CHUNK_HDR_SZ, SIZE_SZ
  <2>2. n >= MINSIZE /\ x \in DOMAIN s /\ ~s[x].mapped
    BY <1>1, <2>1 DEF Followed, n
  <2>3. Has(s, x, x)
    BY <1>2, <1>3, <2>2 DEF Has, Sized
  <2>4. Has(s, p, x - 1)
    BY <1>1, <1>2, <1>3, <2>1, <2>2 DEF Has, n, MINSIZE, SIZE_SZ
  <2> QED BY <1>3, <2>1, <2>2, <2>3, <2>4 DEF s, n
<1> QED BY <1>4, <1>5

(* Objects have words of their own, of those that the kernel gave. *)
LEMMA ObjectsApart ==
  ASSUME Sitting, ~heap.aborted, NEW p \in DOMAIN held
  PROVE  ObjectWords(p) \subseteq Given /\ \A q \in DOMAIN held \ {p} : ObjectWords(p) \cap ObjectWords(q) = {}
<1> DEFINE s == Shape(heap)
<1>1. Tiles(s, Given)
  BY HeldLayout, GivenIs DEF Ground
<1>2. \A q \in DOMAIN held : q \in DOMAIN s /\ q \in Int
  BY ObjectIs, HeldLayout
<1>3. ASSUME NEW q \in DOMAIN held, NEW x \in ObjectWords(q)
      PROVE  /\ x \in Int /\ x > q + 1
             /\ \/ Has(s, q, x)
                \/ /\ ~s[q].mapped /\ x = q + s[q].size /\ s[q].size >= MINSIZE
                   /\ x \in DOMAIN s /\ Has(s, x, x) /\ Has(s, q, x - 1)
  BY <1>3, ObjectWordsAre
<1> HIDE DEF s
<1>4. ObjectWords(p) \subseteq Given
  BY <1>1, <1>2, <1>3 DEF Tiles
<1>5. \A a, b \in DOMAIN s : \A x \in Int : Has(s, a, x) /\ Has(s, b, x) => a = b
  BY <1>1 DEF Tiles
<1>6. ASSUME NEW q \in DOMAIN held, q # p, NEW x \in ObjectWords(p), x \in ObjectWords(q) PROVE FALSE
  <2>1. x \in Int /\ x - 1 \in Int /\ x > p + 1 /\ x > q + 1 /\ x # p /\ x # q
    BY <1>2, <1>3, <1>6
  <2>2. CASE Has(s, p, x) /\ Has(s, q, x)
    BY <1>2, <1>5, <1>6, <2>1, <2>2
  <2>3. CASE Has(s, p, x) /\ x \in DOMAIN s /\ Has(s, x, x)
    BY <1>2, <1>5, <2>1, <2>3
  <2>4. CASE Has(s, q, x) /\ x \in DOMAIN s /\ Has(s, x, x)
    BY <1>2, <1>5, <2>1, <2>4
  <2>5. CASE Has(s, p, x - 1) /\ Has(s, q, x - 1)
    BY <1>2, <1>5, <1>6, <2>1, <2>5
  <2> QED BY <1>3, <1>6, <2>2, <2>3, <2>4, <2>5
<1> QED BY <1>4, <1>6

(* The contract is kept in every state. *)
LEMMA ObjectsAreSafe ==
  ASSUME Sitting, ~heap.aborted
  PROVE  Contract!PSafe
<1> DEFINE G == DOMAIN Granted
<1>1. ASSUME NEW m \in G
      PROVE  /\ m - CHUNK_HDR_SZ \in DOMAIN held
             /\ Granted[m].bytes <= Granted[m].size
             /\ Contract!Words(m) = ObjectWords(m - CHUNK_HDR_SZ)
  <2>1. PICK p \in DOMAIN held : m = p + CHUNK_HDR_SZ
    BY DEF Granted
  <2>2. p \in Int /\ held[p] <= musable(heap, p)
    BY ObjectIs
  <2>3. m - CHUNK_HDR_SZ = p
    BY <2>1, <2>2 DEF CHUNK_HDR_SZ, SIZE_SZ
  <2>4. Granted[m] = [bytes |-> held[p], size |-> musable(heap, p)]
    BY <2>1, <2>3 DEF Granted
  <2> QED BY <2>1, <2>2, <2>3, <2>4 DEF Contract!Words, ObjectWords
<1>2. \A m, n \in G : m # n => m - CHUNK_HDR_SZ # n - CHUNK_HDR_SZ
  <2>1. \A m \in G : m \in Int
    BY ObjectIs DEF Granted, CHUNK_HDR_SZ, SIZE_SZ
  <2> QED BY <2>1 DEF CHUNK_HDR_SZ, SIZE_SZ
<1> HIDE DEF G
<1>3. \A m \in G : Contract!Words(m) \subseteq Given
  BY <1>1, ObjectsApart
<1>4. \A m \in G : \A n \in G \ {m} : Contract!Words(m) \cap Contract!Words(n) = {}
  BY <1>1, <1>2, ObjectsApart
<1> QED BY <1>1, <1>3, <1>4 DEF Contract!PSafe, G

-----------------------------------------------------------------------------
(* What the client is granted, of a heap and its objects. *)
GrantedOf(h, f) ==
  [m \in {p + CHUNK_HDR_SZ : p \in DOMAIN f} |->
     [bytes |-> f[m - CHUNK_HDR_SZ], size |-> musable(h, m - CHUNK_HDR_SZ)]]
Keeps(a, b, C) == \A m \in C : m \in DOMAIN b /\ b[m] = a[m]

(* What did not move is granted as it was. *)
LEMMA KeptGrants ==
  ASSUME NEW h, NEW f, NEW g, NEW e, DOMAIN f \in SUBSET Int, DOMAIN e \in SUBSET Int,
         NEW C, Unmoved(h, f, g, e, C), NEW p \in C
  PROVE  /\ p + CHUNK_HDR_SZ \in DOMAIN GrantedOf(g, e)
         /\ GrantedOf(g, e)[p + CHUNK_HDR_SZ] = GrantedOf(h, f)[p + CHUNK_HDR_SZ]
<1> DEFINE m == p + CHUNK_HDR_SZ
<1>1. p \in DOMAIN f /\ p \in DOMAIN e /\ e[p] = f[p] /\ p \in DOMAIN Shape(h) /\ p \in DOMAIN Shape(g) /\ Shape(g)[p] = Shape(h)[p]
  BY DEF Unmoved
<1>2. m - CHUNK_HDR_SZ = p
  BY <1>1 DEF CHUNK_HDR_SZ, SIZE_SZ
<1>3. musable(g, p) = musable(h, p)
  <2>1. chunksize(h, p) = chunksize(g, p) /\ mmapped(h, p) = mmapped(g, p)
    BY <1>1, SizeIs
  <2> QED BY <2>1 DEF musable
<1> HIDE DEF m
<1>4. m \in {q + CHUNK_HDR_SZ : q \in DOMAIN f} /\ m \in {q + CHUNK_HDR_SZ : q \in DOMAIN e}
  BY <1>1 DEF m
<1>5. GrantedOf(h, f)[m] = [bytes |-> f[p], size |-> musable(h, p)]
  BY <1>2, <1>4 DEF GrantedOf
<1>6. GrantedOf(g, e)[m] = [bytes |-> e[p], size |-> musable(g, p)] /\ m \in DOMAIN GrantedOf(g, e)
  BY <1>2, <1>4 DEF GrantedOf
<1> QED BY <1>1, <1>3, <1>5, <1>6 DEF m

(* What happens to the objects happens to what is granted. *)
LEMMA GrantsFollow ==
  ASSUME NEW h, NEW f, NEW g, NEW e, DOMAIN f \in SUBSET Int, DOMAIN e \in SUBSET Int, Outcome(h, f, g, e),
         NEW a, NEW b, a = GrantedOf(h, f), b = GrantedOf(g, e)
  PROVE  \/ b = a
         \/ \E m \in DOMAIN b \ DOMAIN a : DOMAIN b = DOMAIN a \union {m} /\ Keeps(a, b, DOMAIN a)
         \/ \E m \in DOMAIN a : DOMAIN b = DOMAIN a \ {m} /\ Keeps(a, b, DOMAIN b)
         \/ \E m \in DOMAIN a, n \in DOMAIN b : DOMAIN b = (DOMAIN a \ {m}) \union {n} /\ Keeps(a, b, DOMAIN a \ {m})
<1> DEFINE H == DOMAIN f
           K == DOMAIN e
           A == DOMAIN a
           B == DOMAIN b
           at(p) == p + CHUNK_HDR_SZ
<1>1. A = {at(p) : p \in H} /\ B = {at(p) : p \in K} /\ a = [m \in A |-> a[m]] /\ b = [m \in B |-> b[m]]
  BY DEF GrantedOf
<1>2. \A p, q \in H \union K : at(p) = at(q) => p = q
  BY DEF CHUNK_HDR_SZ, SIZE_SZ
<1>3. ASSUME NEW C, Unmoved(h, f, g, e, C), NEW p \in C PROVE at(p) \in B /\ b[at(p)] = a[at(p)]
  BY <1>3, KeptGrants
<1> HIDE DEF A, B, at, H, K
<1>4. ASSUME K = H, Unmoved(h, f, g, e, H) PROVE b = a
  <2>1. B = A /\ \A m \in A : b[m] = a[m]
    BY <1>1, <1>3, <1>4
  <2> QED BY <1>1, <2>1
<1>5. ASSUME NEW p, p \notin H, K = H \union {p}, Unmoved(h, f, g, e, H)
      PROVE  \E m \in B \ A : B = A \union {m} /\ Keeps(a, b, A)
  <2>1. at(p) \in B /\ at(p) \notin A /\ B = A \union {at(p)}
    BY <1>1, <1>2, <1>5
  <2>2. Keeps(a, b, A)
    BY <1>1, <1>3, <1>5 DEF Keeps, B
  <2> QED BY <2>1, <2>2
<1>6. ASSUME NEW p \in H, K = H \ {p}, Unmoved(h, f, g, e, K)
      PROVE  \E m \in A : B = A \ {m} /\ Keeps(a, b, B)
  <2>1. at(p) \in A /\ B = A \ {at(p)}
    BY <1>1, <1>2, <1>6
  <2>2. Keeps(a, b, B)
    BY <1>1, <1>3, <1>6 DEF Keeps, B
  <2> QED BY <2>1, <2>2
<1>7. ASSUME NEW p \in H, NEW q, K = (H \ {p}) \union {q}, Unmoved(h, f, g, e, H \ {p})
      PROVE  \E m \in A, n \in B : B = (A \ {m}) \union {n} /\ Keeps(a, b, A \ {m})
  <2>1. at(p) \in A /\ at(q) \in B
    BY <1>1, <1>7
  <2>2. A \ {at(p)} = {at(x) : x \in H \ {p}}
    BY <1>1, <1>2
  <2>3. B = (A \ {at(p)}) \union {at(q)}
    BY <1>1, <1>7, <2>2
  <2>4. Keeps(a, b, A \ {at(p)})
    BY <1>3, <1>7, <2>2 DEF Keeps, B
  <2> QED BY <2>1, <2>3, <2>4
<1>8. \/ K = H /\ Unmoved(h, f, g, e, H)
      \/ \E p \in Aligned \ H : K = H \union {p} /\ Unmoved(h, f, g, e, H)
      \/ \E p \in H : K = H \ {p} /\ Unmoved(h, f, g, e, K)
      \/ \E p \in H, q \in Aligned : K = (H \ {p}) \union {q} /\ Unmoved(h, f, g, e, H \ {p})
  BY DEF Outcome, H, K
<1>9. \/ b = a
      \/ \E m \in B \ A : B = A \union {m} /\ Keeps(a, b, A)
      \/ \E m \in A : B = A \ {m} /\ Keeps(a, b, B)
      \/ \E m \in A, n \in B : B = (A \ {m}) \union {n} /\ Keeps(a, b, A \ {m})
  BY <1>4, <1>5, <1>6, <1>7, <1>8
<1> QED BY <1>9 DEF A, B

(* Every step keeps the contract. *)
LEMMA StepsKeepContract ==
  ASSUME Sitting, Sitting', ~heap'.aborted, Contract!PSafe', [Next]_vars
  PROVE  [Contract!PNext]_(Contract!pvars)
<1>1. CASE UNCHANGED vars
  BY <1>1 DEF vars, Contract!pvars, Granted, Given, musable, mmapped, chunksize, At
<1>2. CASE Next
  <2>1. Outcome(heap, held, heap', held')
    BY <1>2, StepComes DEF Comes
  <2>2. DOMAIN held \in SUBSET Int /\ DOMAIN held' \in SUBSET Int
    BY DEF Sitting, Inv, TypeOK, Aligned
  <2> DEFINE h == heap
             f == held
             g == heap'
             e == held'
             a == GrantedOf(h, f)
             b == GrantedOf(g, e)
  <2>3. Granted = a /\ Granted' = b
    BY DEF Granted, GrantedOf, musable, mmapped, chunksize, At
  <2> HIDE DEF h, f, g, e
  <2>4. \/ b = a
        \/ \E m \in DOMAIN b \ DOMAIN a : DOMAIN b = DOMAIN a \union {m} /\ Keeps(a, b, DOMAIN a)
        \/ \E m \in DOMAIN a : DOMAIN b = DOMAIN a \ {m} /\ Keeps(a, b, DOMAIN b)
        \/ \E m \in DOMAIN a, n \in DOMAIN b : DOMAIN b = (DOMAIN a \ {m}) \union {n} /\ Keeps(a, b, DOMAIN a \ {m})
    BY <2>1, <2>2, GrantsFollow DEF h, f, g, e
  <2> HIDE DEF a, b
  <2>5. CASE b = a
    BY <2>3, <2>5 DEF Contract!PNext, Contract!Kernel
  <2>6. ASSUME NEW m \in DOMAIN b \ DOMAIN a, DOMAIN b = DOMAIN a \union {m}, Keeps(a, b, DOMAIN a) PROVE Contract!PNext
    <3>1. Contract!New
      BY <2>3, <2>6 DEF Contract!New, Contract!Keep, Keeps
    <3> QED BY <3>1 DEF Contract!PNext
  <2>7. ASSUME NEW m \in DOMAIN a, DOMAIN b = DOMAIN a \ {m}, Keeps(a, b, DOMAIN b) PROVE Contract!PNext
    <3>1. Contract!Drop
      BY <2>3, <2>7 DEF Contract!Drop, Contract!Keep, Keeps
    <3> QED BY <3>1 DEF Contract!PNext
  <2>8. ASSUME NEW m \in DOMAIN a, NEW n \in DOMAIN b, DOMAIN b = (DOMAIN a \ {m}) \union {n}, Keeps(a, b, DOMAIN a \ {m})
        PROVE  Contract!PNext
    <3>1. Contract!Resize
      BY <2>3, <2>8 DEF Contract!Resize, Contract!Keep, Keeps
    <3> QED BY <3>1 DEF Contract!PNext
  <2> QED BY <2>4, <2>5, <2>6, <2>7, <2>8
<1> QED BY <1>1, <1>2

Unbroken == ~heap.aborted

(* While no check fails, the allocator implements PtContract: a call gives *)
(* its caller an object in words of nobody else, as large as asked, takes  *)
(* back one, or none, and leaves every other object where it is and as     *)
(* large as it is.                                                         *)
THEOREM ContractIsKept == Spec /\ []~heap.aborted => KeepsContract
<1>1. Sitting /\ Unbroken => Contract!PSafe
  BY ObjectsAreSafe DEF Unbroken
<1>2. Sitting /\ Sitting' /\ Unbroken' /\ Contract!PSafe' /\ [Next]_vars => [Contract!PNext]_(Contract!pvars)
  BY StepsKeepContract DEF Unbroken
<1>3. ~heap.aborted => Unbroken
  BY DEF Unbroken
<1> QED BY <1>1, <1>2, <1>3, ObjectsSit, PTL DEF Spec, KeepsContract, Contract!PSpec, Contract!PInit

(* realloc. *)
LEMMA ReallocKeepsItsData ==
  ASSUME Sitting, NEW p \in DOMAIN held, NEW bytes \in Sizes \union {0}, Realloc(p, bytes), ~heap'.aborted
  PROVE  ReallocKeepsData'
<1> DEFINE H == DOMAIN held
<1>1. bytes \in Nat /\ heap \in Good /\ heap \in Sound(H, foreign) /\ H \in SUBSET Int /\ p \in H /\ p \in Aligned
  BY HeapIsSound, PtHeapAssumption DEF Sitting
<1>2. PICK a :
        /\ a = libc_realloc(heap, p, bytes) /\ Becomes(a.h)
        /\ last' = [Nothing EXCEPT !.op = "realloc", !.p = a.p, !.need = Min({held[p], bytes}), !.got = a.kept,
                                   !.copied = a.copied]
  BY DEF Realloc
<1>3. last'.p = a.p /\ last'.need = Min({held[p], bytes}) /\ last'.got = a.kept /\ last'.copied = a.copied
  BY <1>2 DEF Nothing
<1>4. a.h \in Good
  BY <1>1, <1>2, LibcReallocKeeps DEF Fine
<1> SUFFICES ASSUME a.p # NULL PROVE last'.got >= last'.need /\ last'.copied <= musable(heap', a.p)
  BY <1>3 DEF ReallocKeepsData
<1>5. /\ bytes = 0 => a.p = NULL
      /\ bytes # 0 => Regrants(a, heap, H, foreign, p, request2size(bytes))
  <2> HIDE DEF H
  <2>1. a = libc_realloc(heap, p, bytes)
    BY <1>2
  <2>2. bytes \in Int /\ heap \in Sound(H, foreign) /\ H \in SUBSET Int /\ p \in H /\ p \in Aligned
    BY <1>1
  <2> QED BY <2>1, <2>2, LibcReallocIsSound
<1>6. Comes(heap, held, heap', held', foreign') /\ ~heap.aborted
  BY ReallocComes DEF Sitting, Comes
<1>7. heap' = Touched(a.h) /\ ~a.h.aborted
  BY <1>2, <1>4 DEF Becomes, Touched, Good, Heaps
<1>8. /\ a.kept = Usable(Shape(heap)[p]) /\ a.copied <= Usable(Shape(a.h)[a.p])
      /\ Replaces(a.h, heap, H, foreign, p, a.p, request2size(bytes))
  BY <1>5, <1>7 DEF Regrants
<1>9. a.p \in DOMAIN Shape(a.h) /\ a.h \in Sound((H \ {p}) \union {a.p}, foreign)
  BY <1>7, <1>8, LaterIs DEF Replaces, Fits
<1>10. Shape(heap') = Shape(a.h)
  BY <1>7, <1>9, TouchedReaches
<1>11. musable(heap, p) = Usable(Shape(heap)[p]) /\ held[p] <= musable(heap, p) /\ held[p] \in Nat /\ musable(heap, p) \in Int
  BY <1>6, ObjectIs DEF Usable
<1>12. musable(heap', a.p) = Usable(Shape(a.h)[a.p])
  <2> DEFINE g == heap'
  <2>1. Shape(g) = Shape(a.h) /\ a.p \in DOMAIN Shape(g)
    BY <1>9, <1>10
  <2> HIDE DEF g
  <2>2. chunksize(g, a.p) = Shape(a.h)[a.p].size /\ mmapped(g, a.p) = Shape(a.h)[a.p].mapped
    BY <2>1, SizeIs
  <2>3. musable(g, a.p) = Usable(Shape(a.h)[a.p])
    BY <2>2 DEF musable, Usable
  <2> QED BY <2>3 DEF g
<1>13. Min({held[p], bytes}) <= held[p] /\ Min({held[p], bytes}) \in Int
  <2>1. held[p] \in Int /\ bytes \in Int
    BY <1>1, <1>11
  <2> QED BY <2>1, SmallerOfTwo
<1> QED BY <1>3, <1>8, <1>11, <1>12, <1>13

(* No other step answers a realloc. *)
LEMMA StepKeepsData ==
  ASSUME Sitting, Next, ~heap'.aborted
  PROVE  ReallocKeepsData'
<1>1. CASE \E p \in DOMAIN held, bytes \in Sizes \union {0} : Realloc(p, bytes)
  BY <1>1, ReallocKeepsItsData
<1>2. last'.op # "realloc" \/ \E p \in DOMAIN held, bytes \in Sizes \union {0} : Realloc(p, bytes)
  BY DEF Next, Malloc, Free, Calloc, Memalign, Pvalloc, MallocTrim, Mallopt, ThreadShutdown, ForeignSbrk, Nothing
<1> QED BY <1>1, <1>2 DEF ReallocKeepsData

(* While no check has failed, realloc's object has all words that were     *)
(* asked for before and after, whether it stayed, took in its neighbour,   *)
(* was copied or remapped, and no copy was longer than the new object      *)
(* (_int_realloc, mremap_chunk, __libc_realloc).                           *)
THEOREM ReallocLosesNothing == Spec => [](~heap.aborted => ReallocKeepsData)
<1> DEFINE I == ~heap.aborted => ReallocKeepsData
<1>1. Init => I
  BY DEF Init, Nothing, ReallocKeepsData
<1>2. Sitting /\ I /\ [Next]_vars => I'
  <2> SUFFICES ASSUME Sitting, I, [Next]_vars, ~heap'.aborted PROVE ReallocKeepsData'
    OBVIOUS
  <2>1. CASE UNCHANGED vars
    BY <2>1 DEF vars, ReallocKeepsData, musable, mmapped, chunksize, At
  <2> QED BY <2>1, StepKeepsData
<1> HIDE DEF I
<1>3. Spec => []I
  BY <1>1, <1>2, ObjectsSit, PTL DEF Spec
<1> QED BY <1>3 DEF I

(* systrim moves the end of top, and nothing else. *)
LEMMA SystrimLeaves ==
  ASSUME NEW h \in Good, NEW pad, NEW t, t = systrim(h, pad).h
  PROVE  t.bins = h.bins /\ \A c \in DOMAIN h.mem \ {h.top} : chunksize(t, c) = chunksize(h, c)
<1> DEFINE p == h.top
           size == chunksize(h, p)
           d == LET extra == AlignDown((((size - MINSIZE - 1) % WordMod) - pad) % WordMod, PageSize)
                IN IF extra > PTRDIFF_MAX THEN extra - WordMod ELSE extra
           n == size - d
           less == Sbrk(h, -d)
           x == [less.h EXCEPT !.system_mem = @ - d]
<1>1. t = h \/ (less.brk # Failed /\ t = set_head(x, p, n))
  BY DEF systrim
<1>2. CASE t = h
  BY <1>2
<1>3. CASE less.brk # Failed /\ t = set_head(x, p, n)
  <2> HIDE DEF d, n
  <2>1. less.h = h \/ less.h = [h EXCEPT !.brk = h.brk + (-d)]
    BY DEF Sbrk
  <2> HIDE DEF less
  <2>2. h \in Heaps
    BY DEF Good
  <2>3. x.mem = h.mem /\ x.bins = h.bins /\ "mem" \in DOMAIN x /\ "bins" \in DOMAIN x
    BY <2>1, <2>2 DEF Heaps
  <2> DEFINE head == [At(x, p) EXCEPT !.size = n, !.prev_inuse = TRUE, !.mmapped = FALSE]
  <2>4. t = Put(x, p, head)
    BY <1>3 DEF set_head
  <2> HIDE DEF x, head
  <2>5. t.bins = x.bins /\ t.mem = [z \in DOMAIN x.mem \union {p} |-> IF z = p THEN head ELSE x.mem[z]]
    BY <2>3, <2>4 DEF Put
  <2>6. ASSUME NEW c \in DOMAIN h.mem \ {p} PROVE chunksize(t, c) = chunksize(h, c)
    BY <2>3, <2>5, <2>6 DEF chunksize, At
  <2> QED BY <2>3, <2>5, <2>6
<1> QED BY <1>1, <1>2, <1>3

(* The pages that may be given up of a chunk are behind its fields. *)
LEMMA TrimmedIs ==
  ASSUME NEW h, NEW p \in Int, chunksize(h, p) \in Int, NEW w \in Trimmed(h, p)
  PROVE  w \in Int /\ p + StructSize <= w /\ w < p + chunksize(h, p)
<1> DEFINE n == chunksize(h, p)
           m == p + StructSize
           from == AlignUp(m, PageSize)
           k == p + n - from
           z == AlignDown(k, PageSize)
<1>1. StructSize \in Int /\ m \in Int /\ n \in Int /\ PageSize \in Int
  BY PtAssumption DEF StructSize, SIZE_SZ
<1>2. n > PageSize - 1 + StructSize /\ w \in Region(from, z)
  BY <1>1 DEF Trimmed
<1> HIDE DEF n
<1>3. from \in Int /\ from >= m
  BY <1>1, PageArithmetic
<1> HIDE DEF m, from
<1>4. k \in Int
  BY <1>1, <1>3
<1>5. z \in Int /\ z <= k
  BY <1>4, PageArithmetic
<1> HIDE DEF z
<1>6. w \in Int /\ from <= w /\ w < from + z
  BY <1>2, <1>3, <1>5 DEF Region
<1>7. m = p + StructSize
  BY DEF m
<1>8. w < p + n
  BY <1>1, <1>3, <1>5, <1>6
<1>9. p + StructSize <= w
  BY <1>1, <1>3, <1>6, <1>7
<1> QED BY <1>6, <1>8, <1>9 DEF n

(* The words malloc_trim gives up are in binned chunks, behind the fields. *)
Inside ==
  last.op = "trim" =>
    \A w \in last.words :
      w \in Int /\ \E b \in 1 .. NBINS - 1 : \E c \in ToSet(heap.bins[b]) :
                     c \in Int /\ c + StructSize <= w /\ w < c + chunksize(heap, c)

(* The words malloc_trim gives up stay inside of free chunks of the bins,  *)
(* behind their fields, for systrim, which runs last, moves only the end   *)
(* of top.                                                                 *)
LEMMA TrimStaysInside ==
  ASSUME Sitting, NEW pad \in Pads, MallocTrim(pad), ~heap'.aborted
  PROVE  Inside'
<1> DEFINE H == DOMAIN held
           k == malloc_consolidate(heap)
           advised == Advised(k)
           soiled == k.soiled \ advised
           g == [k EXCEPT !.soiled = soiled]
           t == systrim(g, pad).h
<1>1. /\ heap \in Good /\ heap \in Sound(H, foreign) /\ H \in SUBSET Int /\ pad \in 0 .. PTRDIFF_MAX
  BY HeapIsSound, PtHeapAssumption DEF Sitting
<1>2. heap' = Touched(t) /\ last'.words = advised
  BY DEF MallocTrim, mtrim, TrimAll, TrimBoth, Becomes, Nothing
<1>3. k \in Good /\ k \in Sound(H, foreign)
  BY <1>1, ConsolidateReaches, ReachIs
<1> HIDE DEF k, advised
<1>4. soiled \in SUBSET Int
  BY <1>3 DEF Good, Heaps
<1> HIDE DEF soiled
<1>5. g \in Good /\ Notes(k, g) /\ g.bins = k.bins /\ g.mem = k.mem /\ g.top = k.top /\ g.aborted = k.aborted
  BY <1>3, <1>4 DEF Good, Heaps, Notes, SameLayout
<1> HIDE DEF g
<1>6. g \in Sound(H, foreign)
  BY <1>3, <1>5, NotesReach
<1>7. t \in Reach(g, H, foreign, H)
  BY <1>1, <1>6, SystrimIsSound
<1>8. t \in Good
  BY <1>7, ReachIs
<1>9. t.bins = g.bins /\ \A c \in DOMAIN g.mem \ {g.top} : chunksize(t, c) = chunksize(g, c)
  BY <1>5, SystrimLeaves
<1> HIDE DEF t
<1>10. heap'.bins = k.bins /\ heap'.mem = t.mem /\ ~t.aborted
  BY <1>2, <1>5, <1>8, <1>9 DEF Touched, Good, Heaps
<1>11. ~k.aborted
  BY <1>5, <1>7, <1>10 DEF Reach, Onward
<1>12. Layout(k, H, foreign)
  BY <1>3, <1>11, SoundIs
<1> SUFFICES ASSUME NEW w \in advised
             PROVE  w \in Int /\ \E b \in 1 .. NBINS - 1 : \E c \in ToSet(heap'.bins[b]) :
                                    c \in Int /\ c + StructSize <= w /\ w < c + chunksize(heap', c)
  BY <1>2 DEF Inside
<1>13. PICK b \in TrimmedBins(k) : \E i \in DOMAIN k.bins[b] : w \in Trimmed(k, k.bins[b][i])
  BY DEF advised, Advised
<1>14. PICK i \in DOMAIN k.bins[b] : w \in Trimmed(k, k.bins[b][i])
  BY <1>13
<1> DEFINE c == k.bins[b][i]
<1>15. b \in 1 .. NBINS - 1
  <2>1. PageSize \in Chunky /\ 1 \in 1 .. NBINS - 1
    BY PageSizes, PtAssumption DEF Chunky, StructSize, MALLOC_ALIGNMENT, MINSIZE, SIZE_SZ
  <2>2. bin_index(PageSize) \in 2 .. NBINS - 1
    BY <2>1, BinIndexIs
  <2> QED BY <2>1, <2>2 DEF TrimmedBins
<1>16. c \in ToSet(k.bins[b]) /\ c \in Int
  <2>1. k.bins[b] \in Seq(Aligned)
    BY <1>3, <1>15 DEF Good, Heaps, Bins, Lists
  <2> QED BY <2>1 DEF ToSet, Aligned
<1>17. w \in Trimmed(k, c)
  BY <1>14
<1> HIDE DEF c
<1>18. c \in DOMAIN Shape(k) /\ c # k.top
  BY <1>12, <1>15, <1>16, InBinIs
<1>19. c \in DOMAIN g.mem \ {g.top} /\ chunksize(k, c) \in Int
  BY <1>3, <1>5, <1>18, ShapeIs, HeadFields DEF Aligned
<1>20. chunksize(heap', c) = chunksize(k, c)
  <2>1. chunksize(t, c) = chunksize(g, c)
    BY <1>9, <1>19
  <2> QED BY <1>5, <1>10, <2>1 DEF chunksize, At
<1>21. w \in Int /\ c + StructSize <= w /\ w < c + chunksize(k, c)
  BY <1>16, <1>17, <1>19, TrimmedIs
<1> QED BY <1>10, <1>15, <1>16, <1>20, <1>21

(* A chunk begins with a header of two words. *)
LEMMA HeaderIs ==
  ASSUME Sitting, ~heap.aborted, NEW p \in DOMAIN heap.mem, NEW x \in Region(p, CHUNK_HDR_SZ)
  PROVE  Has(Shape(heap), p, x) /\ x \in Int /\ x < p + 2
<1> DEFINE s == Shape(heap)
           n == s[p].size
<1>1. p \in Int /\ n \in Int /\ n > 0 /\ s[p].off \in Int /\ s[p].off >= 0 /\ heap \in Good
  BY HeldLayout DEF Sized
<1>2. n = chunksize(heap, p)
  BY ShapeIs
<1>3. n \in Aligned
  BY <1>1, <1>2, HeadFields
<1>4. n >= 2
  <2> HIDE DEF n
  <2> QED BY <1>1, <1>3 DEF Aligned, MALLOC_ALIGNMENT, SIZE_SZ
<1>5. x \in Int /\ p <= x /\ x < p + 2
  BY <1>1 DEF Region, CHUNK_HDR_SZ, SIZE_SZ
<1> HIDE DEF s
<1> QED BY <1>1, <1>4, <1>5 DEF Has, s

(* What is inside of a binned chunk is in no other. *)
LEMMA InsideIsSpared ==
  ASSUME Sitting, ~heap.aborted, Inside
  PROVE  TrimSparesObjects
<1> SUFFICES ASSUME last.op = "trim" PROVE TrimSparesObjects
  BY DEF TrimSparesObjects
<1> DEFINE s == Shape(heap)
           H == DOMAIN held
           D == DOMAIN heap.mem
<1>1. Layout(heap, H, foreign) /\ Tiles(s, Given) /\ DOMAIN s = D /\ D \in SUBSET Int /\ heap \in Good
  BY HeldLayout, GivenIs DEF Ground
<1>2. \A p, q \in D : \A x \in Int : Has(s, p, x) /\ Has(s, q, x) => p = q
  BY <1>1 DEF Tiles
<1>3. ASSUME NEW b \in 1 .. NBINS - 1, NEW c \in ToSet(heap.bins[b]), c \in Int
      PROVE  /\ c \in D /\ c \notin H /\ c # heap.tcache /\ ~s[c].mapped /\ s[c].off = 0 /\ s[c].size \in Int /\ s[c].size >= MINSIZE
             /\ Followed(s, c) /\ s[c].size = chunksize(heap, c)
  BY <1>1, <1>3, InBinIs, ShapeIs DEF Layout, Ground, Sized
<1>4. ASSUME NEW w \in last.words
      PROVE  w \in Int /\ \E c \in D : c \in Int /\ c \notin H /\ c # heap.tcache /\ Has(s, c, w) /\ c + StructSize <= w
  <2>1. w \in Int
    BY <1>4 DEF Inside
  <2>2. PICK b \in 1 .. NBINS - 1 : \E c \in ToSet(heap.bins[b]) : c \in Int /\ c + StructSize <= w /\ w < c + chunksize(heap, c)
    BY <1>4 DEF Inside
  <2>3. PICK c \in ToSet(heap.bins[b]) : c \in Int /\ c + StructSize <= w /\ w < c + chunksize(heap, c)
    BY <2>2
  <2>4. c \in D /\ c \notin H /\ c # heap.tcache /\ s[c].off = 0 /\ s[c].size = chunksize(heap, c) /\ s[c].size \in Int
    BY <1>3, <2>3
  <2>5. Has(s, c, w)
    <3> HIDE DEF s
    <3> QED BY <2>1, <2>3, <2>4 DEF Has, StructSize, SIZE_SZ
  <2> QED BY <2>1, <2>3, <2>4, <2>5
<1>5. ASSUME NEW p \in H \union ({heap.tcache} \ {NULL}) PROVE last.words \cap WordsOf(p) = {}
  <2>1. p \in D
    <3>1. CASE p \in H
      BY <3>1, ObjectIs
    <3>2. CASE p \in {heap.tcache} \ {NULL}
      <4>1. p \in Where(heap, H)[Own] /\ Own \in Int /\ p \in Int
        BY <1>1, <3>2, WhereIs, Elsewhere DEF Good, Heaps, Aligned
      <4>2. p \in DOMAIN Shape(heap)
        BY <1>1, <4>1, InPlace
      <4> QED BY <1>1, <4>2
    <3> QED BY <3>1, <3>2, <1>5
  <2>2. \A x \in Int : x \in WordsOf(p) <=> Has(s, p, x)
    BY <2>1, WordsAre
  <2> HIDE DEF s, D, H
  <2> QED BY <1>2, <1>4, <1>5, <2>1, <2>2
<1>6. ASSUME NEW p \in D, NEW w \in last.words, w \in Region(p, CHUNK_HDR_SZ) PROVE FALSE
  <2>1. Has(s, p, w) /\ w \in Int /\ w < p + 2 /\ p \in Int
    BY <1>1, <1>6, HeaderIs
  <2>2. PICK c \in D : c \in Int /\ Has(s, c, w) /\ c + StructSize <= w
    BY <1>4, <1>6
  <2> HIDE DEF s, D
  <2>3. c = p
    BY <1>2, <2>1, <2>2
  <2> QED BY <2>1, <2>2, <2>3 DEF StructSize, SIZE_SZ
<1>7. \A p \in ToSet(FlattenSeq(heap.bins)) : p \in Int /\ \E b \in 1 .. NBINS - 1 : p \in ToSet(heap.bins[b])
  <2>1. heap.bins \in [1 .. NBINS - 1 -> Seq(Aligned)]
    BY <1>1 DEF Good, Heaps, Bins, Lists
  <2>2. NBINS - 1 \in Nat
    BY PtAssumption, SmallEnough DEF MALLOC_ALIGNMENT, SIZE_SZ, MINSIZE
  <2>3. heap.bins \in Seq(Seq(Aligned)) /\ DOMAIN heap.bins = 1 .. NBINS - 1
    <3>1. heap.bins = [b \in 1 .. NBINS - 1 |-> heap.bins[b]] /\ \A b \in 1 .. NBINS - 1 : heap.bins[b] \in Seq(Aligned)
      BY <2>1
    <3> QED BY <2>2, <3>1
  <2>4. ToSet(FlattenSeq(heap.bins)) = UNION {ToSet(heap.bins[b]) : b \in DOMAIN heap.bins}
    BY <2>3, FlattenedOnce
  <2>5. \A l \in Seq(Aligned) : ToSet(l) \in SUBSET Int
    BY DEF ToSet, Aligned
  <2> QED BY <2>1, <2>3, <2>4, <2>5
<1>8. ASSUME NEW p \in ToSet(FlattenSeq(heap.bins)), NEW w \in last.words, w \in Region(p, StructSize) PROVE FALSE
  <2>1. PICK b \in 1 .. NBINS - 1 : p \in ToSet(heap.bins[b]) /\ p \in Int
    BY <1>7
  <2> DEFINE n == s[p].size
  <2>2. p \in D /\ ~s[p].mapped /\ s[p].off = 0 /\ n \in Int /\ n >= MINSIZE /\ Followed(s, p) /\ n = chunksize(heap, p)
    BY <1>3, <2>1
  <2>3. w \in Int /\ p <= w /\ w < p + 6
    BY <2>1, <1>8 DEF Region, StructSize, SIZE_SZ
  <2>4. n \in Aligned
    BY <1>1, <2>2, HeadFields
  <2>5. PICK c \in D : c \in Int /\ Has(s, c, w) /\ c + StructSize <= w
    BY <1>4, <1>8
  <2>6. CASE w < p + n
    <3> HIDE DEF s, D
    <3>1. Has(s, p, w)
      BY <2>1, <2>2, <2>3, <2>6 DEF Has
    <3>2. c = p
      BY <1>2, <2>2, <2>3, <2>5, <3>1
    <3> QED BY <2>3, <2>5, <3>2 DEF StructSize, SIZE_SZ
  <2>7. CASE ~(w < p + n)
    <3> DEFINE q == p + n
    <3>1. q \in D
      BY <1>1, <2>2 DEF Followed
    <3>2. n = 4
      <4> HIDE DEF n
      <4> QED BY <2>1, <2>2, <2>3, <2>4, <2>7 DEF Aligned, MALLOC_ALIGNMENT, MINSIZE, SIZE_SZ
    <3>3. w \in Region(q, CHUNK_HDR_SZ)
      BY <2>1, <2>3, <2>7, <3>2 DEF Region, CHUNK_HDR_SZ, SIZE_SZ
    <3> HIDE DEF q
    <3> QED BY <1>6, <1>8, <3>1, <3>3
  <2> QED BY <2>6, <2>7
<1> QED BY <1>5, <1>6, <1>8 DEF TrimSparesObjects

(* While no check has failed, no page that mtrim gives up inside a chunk   *)
(* holds a word of an object, of the cache, of a header or of the fields   *)
(* of a free chunk.                                                        *)
THEOREM TrimIsSafe == Spec => [](~heap.aborted => TrimSparesObjects)
<1> DEFINE I == ~heap.aborted => Inside
           T == ~heap.aborted => TrimSparesObjects
<1>1. Init => I
  BY DEF Init, Nothing, Inside
<1>2. Sitting /\ I /\ [Next]_vars => I'
  <2> SUFFICES ASSUME Sitting, I, [Next]_vars, ~heap'.aborted PROVE Inside'
    OBVIOUS
  <2>1. CASE UNCHANGED vars
    BY <2>1 DEF vars, Inside, chunksize, At
  <2>2. CASE \E pad \in Pads : MallocTrim(pad)
    BY <2>2, TrimStaysInside
  <2>3. CASE last'.op # "trim"
    BY <2>3 DEF Inside
  <2>4. Next => last'.op # "trim" \/ \E pad \in Pads : MallocTrim(pad)
    BY DEF Next, Malloc, Free, Realloc, Calloc, Memalign, Pvalloc, Mallopt, ThreadShutdown, ForeignSbrk, Nothing
  <2> QED BY <2>1, <2>2, <2>3, <2>4
<1>3. Sitting /\ I => T
  BY InsideIsSpared
<1> HIDE DEF I, T
<1>4. Spec => []T
  BY <1>1, <1>2, <1>3, ObjectsSit, PTL DEF Spec
<1> QED BY <1>4 DEF T
===============================================================================
