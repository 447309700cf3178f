---------------------------- MODULE PtMallocProofs ----------------------------
(***************************************************************************)
(* The layout of the memory under sysmalloc, _int_malloc and munmap_chunk, *)
(* and under malloc and free with the cache in front of them, for every    *)
(* value of the constants.                                                 *)
(***************************************************************************)
EXTENDS PtHeapProofs

-----------------------------------------------------------------------------
(* More memory: sysmalloc. *)

(* Words of nobody in the heap, or of F, which the heap may take for the   *)
(* chunk at a.                                                             *)
Claims(h, G, F, a, n) ==
  /\ a \in Int /\ n \in Int /\ n > 0
  /\ Kernel(Shape(h), h.brk, h.maps, F)
  /\ GivenTo(h.brk, h.maps, F) = GivenTo(h.brk, h.maps, G) \union Region(a, n)
  /\ GivenTo(h.brk, h.maps, G) \cap Region(a, n) = {}

(* Words that may be claimed still may be where shape and kernel are the   *)
(* same.                                                                   *)
LEMMA ClaimsFrame ==
  ASSUME NEW h, NEW g, NEW G, NEW F, NEW a, NEW n, Claims(h, G, F, a, n),
         Shape(g) = Shape(h), g.brk = h.brk, g.maps = h.maps
  PROVE  Claims(g, G, F, a, n)
BY DEF Claims

(* The kernel gives no word at 0, where NULL points. *)
LEMMA GivenPositive ==
  ASSUME NEW s, NEW brk, NEW maps, NEW F, Kernel(s, brk, maps, F), NEW x \in GivenTo(brk, maps, F)
  PROVE  x \in Int /\ x > 0
<1>1. CASE x \in MapWords(maps)
  <2>1. x \in Int /\ x >= BrkLimit
    BY <1>1, MapsAbove
  <2> QED BY <2>1, PtHeapAssumption, PtAssumption
<1>2. CASE x \notin MapWords(maps)
  BY <1>2, PtHeapAssumption DEF GivenTo, Region, Kernel
<1> QED BY <1>1, <1>2

(* Fenceposts at the end of a top that is given up. *)
Fenced(s, p, n) == Upd(Upd(Upd(s, p, Plain(n)), p + n, Plain(2)), p + n + 2, Plain(2))

Recuts(s, r, W, C, D, a, z, top, new) ==
  /\ a \in Int /\ z \in Int /\ Sized(s) /\ Tiles(s, W) /\ Ends(s, top)
  /\ C \subseteq DOMAIN s /\ D \subseteq Int /\ DOMAIN r = (DOMAIN s \ C) \union D
  /\ \A p \in DOMAIN s \ C : r[p] = s[p]
  /\ \A p \in C : ~s[p].mapped
  /\ \A p \in D : \E n \in Int : n > 0 /\ r[p] = Plain(n)
  /\ Covers(s, C, a, z) /\ Covers(r, D, a, z) /\ Apart(r, D) /\ a \in D
  /\ \A p \in D : p # new /\ r[p].size >= MINSIZE => Followed(r, p)
  /\ new = top \/ top \in C

(* Recut, with its hypotheses in one definition. *)
LEMMA RecutThere ==
  ASSUME NEW s, NEW r, NEW W, NEW C, NEW D, NEW a, NEW z, NEW top, NEW new, Recuts(s, r, W, C, D, a, z, top, new)
  PROVE  Sized(r) /\ Tiles(r, W) /\ Ends(r, new)
<1>1. D \in SUBSET Int
  BY DEF Recuts
<1> QED BY <1>1, Recut DEF Recuts

FencedOff(s, W, p, n, new) ==
  /\ Sized(Fenced(s, p, n)) /\ Tiles(Fenced(s, p, n), W) /\ Ends(Fenced(s, p, n), new)
  /\ \A x \in DOMAIN s \ {p} : x \in DOMAIN Fenced(s, p, n) /\ Fenced(s, p, n)[x] = s[x]
  /\ DOMAIN Fenced(s, p, n) = DOMAIN s \union {p, p + n, p + n + 2}
  /\ \A x \in {p, p + n, p + n + 2} : /\ ~Fenced(s, p, n)[x].mapped /\ x \in W /\ (x # p => x \notin DOMAIN s)
                                      /\ x # p => Fenced(s, p, n)[x].size = 2
  /\ Fenced(s, p, n)[p] = IF n = 0 THEN Plain(2) ELSE Plain(n)

(* The old top, cut into a chunk and two fenceposts, has the words it had. *)
LEMMA FencedIs ==
  ASSUME NEW s, NEW W, NEW p \in DOMAIN s, NEW n \in Int, NEW new, Sized(s), Tiles(s, W), Ends(s, p), ~s[p].mapped,
         s[p].size = n + 4, n >= 0
  PROVE  FencedOff(s, W, p, n, new)
<1> DEFINE r == Fenced(s, p, n)
           a == p + n
           b == p + n + 2
           C == {p}
           D == {p, a, b}
           z == p + s[p].size
<1>1. p \in Int /\ s[p].off = 0 /\ a \in Int /\ b \in Int /\ z \in Int /\ z = b + 2 /\ s[p].size > 0
  BY DEF Sized
<1>2. \A x \in Int : Has(s, p, x) <=> (p <= x /\ x < z)
  BY <1>1 DEF Has
<1>3. ASSUME NEW x \in Int, p <= x, x < z, x # p PROVE x \in W /\ x \notin DOMAIN s
  <2>1. Has(s, p, x)
    BY <1>2, <1>3
  <2>2. x \in DOMAIN s => Has(s, x, x)
    BY DEF Sized, Has
  <2> QED BY <1>3, <2>1, <2>2 DEF Tiles
<1>4. p \in W
  BY <1>1, <1>2 DEF Tiles
<1>5. (a # p => a \in W /\ a \notin DOMAIN s) /\ b \in W /\ b \notin DOMAIN s /\ b # p /\ b # a
  BY <1>1, <1>3
<1>6. /\ DOMAIN r = DOMAIN s \union D
      /\ r[b] = Plain(2) /\ r[a] = Plain(2) /\ (a # p => r[p] = Plain(n))
      /\ \A x \in DOMAIN s \ {p} : r[x] = s[x]
  <2>1. DOMAIN r = DOMAIN s \union D
    BY DEF Upd, Fenced
  <2>2. r[b] = Plain(2) /\ r[a] = Plain(2) /\ (a # p => r[p] = Plain(n))
    BY <1>5 DEF Upd, Fenced
  <2>3. \A x \in DOMAIN s \ {p} : r[x] = s[x]
    <3> SUFFICES ASSUME NEW x \in DOMAIN s \ {p} PROVE r[x] = s[x]
      OBVIOUS
    <3>1. x # a /\ x # b
      BY <1>5
    <3> QED BY <3>1 DEF Upd, Fenced
  <2> QED BY <2>1, <2>2, <2>3
<1>7. /\ r[b].size = 2 /\ r[b].off = 0 /\ ~r[b].mapped /\ r[a].size = 2 /\ r[a].off = 0 /\ ~r[a].mapped
      /\ a # p => r[p].size = n /\ r[p].off = 0 /\ ~r[p].mapped
  BY <1>6 DEF Plain
<1>8. \A x \in Int : /\ Has(r, b, x) <=> (b <= x /\ x < z)
                     /\ Has(r, a, x) <=> (a <= x /\ x < b)
                     /\ a # p => (Has(r, p, x) <=> (p <= x /\ x < a))
  BY <1>1, <1>7 DEF Has
<1>9. \A x \in D : \E k \in Int : k > 0 /\ r[x] = Plain(k)
  <2>1. a # p => n > 0
    BY <1>1
  <2> HIDE DEF r
  <2>2. \E k \in Int : k > 0 /\ r[b] = Plain(k)
    BY <1>6
  <2>3. \E k \in Int : k > 0 /\ r[a] = Plain(k)
    BY <1>6
  <2>4. a # p => \E k \in Int : k > 0 /\ r[p] = Plain(k)
    BY <1>6, <2>1
  <2> HIDE DEF a, b
  <2> QED BY <2>2, <2>3, <2>4
<1>10. Covers(s, C, p, z)
  BY <1>1, <1>2 DEF Covers
<1> HIDE DEF r
<1>11. Covers(r, D, p, z) /\ Apart(r, D)
  <2>1. CASE a = p
    <3>1. D = {p, b}
      BY <2>1
    <3>2. \A x \in Int : /\ Has(r, b, x) <=> (b <= x /\ x < z)
                         /\ Has(r, p, x) <=> (p <= x /\ x < b)
      BY <1>8, <2>1, Zenon
    <3>3. p < b /\ b < z
      BY <1>1, <2>1
    <3> HIDE DEF a, b, z, D
    <3> QED BY <1>1, <3>1, <3>2, <3>3 DEF Covers, Apart
  <2>2. CASE a # p
    <3>1. \A x \in Int : /\ Has(r, b, x) <=> (b <= x /\ x < z)
                         /\ Has(r, a, x) <=> (a <= x /\ x < b)
                         /\ (Has(r, p, x) <=> (p <= x /\ x < a))
      BY <1>8, <2>2
    <3>2. p < a /\ a < b /\ b < z
      BY <1>1, <2>2
    <3> HIDE DEF a, b, z
    <3> QED BY <1>1, <3>1, <3>2 DEF Covers, Apart
  <2> QED BY <2>1, <2>2
<1>12. \A x \in D : (x # new /\ r[x].size >= MINSIZE) => Followed(r, x)
  <2>1. ASSUME r[p].size >= MINSIZE PROVE Followed(r, p)
    <3>1. a # p
      BY <1>7, <2>1 DEF MINSIZE, SIZE_SZ
    <3>2. p + r[p].size = a
      BY <1>7, <3>1
    <3> QED BY <1>6, <1>7, <3>2 DEF Followed
  <2>2. ~(r[a].size >= MINSIZE) /\ ~(r[b].size >= MINSIZE)
    BY <1>7 DEF MINSIZE, SIZE_SZ
  <2> QED BY <2>1, <2>2
<1>13. DOMAIN r = (DOMAIN s \ C) \union D /\ D \in SUBSET Int /\ C \subseteq DOMAIN s /\ p \in D /\ \A x \in C : ~s[x].mapped
  BY <1>1, <1>6
<1>14. \A x \in DOMAIN s \ C : r[x] = s[x]
  BY <1>6
<1>15. new = p \/ p \in C
  OBVIOUS
<1> HIDE DEF C, D, z
<1>16. Sized(r) /\ Tiles(r, W) /\ Ends(r, new)
  <2>1. /\ Sized(s) /\ Tiles(s, W) /\ Ends(s, p) /\ z \in Int /\ p \in Int
        /\ \A x \in D : \E k \in Int : k > 0 /\ r[x] = Plain(k)
        /\ \A x \in D : x # new /\ r[x].size >= MINSIZE => Followed(r, x)
        /\ Covers(s, C, p, z) /\ Covers(r, D, p, z) /\ Apart(r, D)
    BY <1>1, <1>9, <1>10, <1>11, <1>12
  <2> HIDE DEF a, b
  <2>2. Recuts(s, r, W, C, D, p, z, p, new)
    BY <2>1, <1>13, <1>14, <1>15 DEF Recuts
  <2> QED BY <2>2, RecutThere
<1>17. r[p] = IF n = 0 THEN Plain(2) ELSE Plain(n)
  <2>1. a = p <=> n = 0
    BY <1>1
  <2> HIDE DEF a
  <2> QED BY <1>6, <2>1
<1>18. \A x \in {p, a, b} : ~r[x].mapped /\ x \in W /\ (x # p => x \notin DOMAIN s) /\ (x # p => r[x].size = 2)
  BY <1>4, <1>5, <1>7
<1> QED BY <1>6, <1>16, <1>17, <1>18 DEF r, D, FencedOff

(* Top moves to words that the heap may claim.  Where there was no top     *)
(* nothing else changes; else the old top is cut into a chunk that is in   *)
(* hand, if it can be one, and fenceposts.                                 *)
EndsTop(h, g, K, L, a, n, m) ==
  /\ h.top \in Int /\ h.top # 0 /\ m \in Int /\ m >= 0 /\ Shape(h)[h.top].size = m + 4
  /\ L = IF m >= MINSIZE THEN K \union {h.top} ELSE K
  /\ Shape(g) = Fenced(Upd(Shape(h), a, Plain(n)), h.top, m)

NewTops(h, g, K, L, G, F, a, n) ==
  /\ n >= MINSIZE /\ Claims(h, G, F, a, n) /\ g.top = a /\ ListsStay(h, g)
  /\ \/ h.top = 0 /\ L = K /\ Shape(g) = Upd(Shape(h), a, Plain(n))
     \/ \E m \in Int : EndsTop(h, g, K, L, a, n, m)

(* The words that are claimed are of no chunk. *)
LEMMA ClaimedIs ==
  ASSUME NEW h, NEW K \in SUBSET Int, NEW G, NEW F, NEW a, NEW n, Layout(h, K, G), Claims(h, G, F, a, n)
  PROVE  /\ a \in Int /\ a > 0 /\ n \in Int /\ n > 0 /\ a \notin GivenTo(h.brk, h.maps, G) /\ a \notin DOMAIN Shape(h)
         /\ Nowhere(Where(h, K), a) /\ Words(a, Plain(n)) = Region(a, n)
<1> DEFINE s == Shape(h)
           W == GivenTo(h.brk, h.maps, G)
<1>1. a \in Int /\ n \in Int /\ n > 0 /\ Kernel(s, h.brk, h.maps, F)
      /\ GivenTo(h.brk, h.maps, F) = W \union Region(a, n) /\ W \cap Region(a, n) = {}
  BY DEF Claims
<1>2. a \in Region(a, n)
  BY <1>1 DEF Region
<1>3. a \in GivenTo(h.brk, h.maps, F) /\ a \notin W
  BY <1>1, <1>2
<1>4. a > 0
  <2> HIDE DEF s
  <2> QED BY <1>1, <1>3, GivenPositive
<1>5. a \notin DOMAIN s
  <2>1. Sized(s) /\ Tiles(s, W)
    BY DEF Layout, Ground
  <2>2. a \in DOMAIN s => Has(s, a, a)
    BY <2>1, <1>1 DEF Sized, Has
  <2> QED BY <1>1, <1>3, <2>1, <2>2 DEF Tiles
<1>6. Nowhere(Where(h, K), a)
  BY <1>1, <1>5, NewIsNowhere
<1>7. Words(a, Plain(n)) = Region(a, n)
  BY <1>1 DEF Words, Plain, Region
<1> QED BY <1>1, <1>3, <1>4, <1>5, <1>6, <1>7

(* The first top keeps the layout. *)
LEMMA FirstTop ==
  ASSUME NEW h, NEW g, NEW K \in SUBSET Int, NEW G, NEW F, NEW a, NEW n, Layout(h, K, G), n >= MINSIZE,
         Claims(h, G, F, a, n), g.top = a, ListsStay(h, g), h.top = 0, Shape(g) = Upd(Shape(h), a, Plain(n))
  PROVE  Layout(g, K, F) /\ \A q \in K : q \in DOMAIN Shape(h) => q \in DOMAIN Shape(g) /\ Shape(g)[q] = Shape(h)[q]
<1> DEFINE s == Shape(h)
           r == Shape(g)
           E == Where(h, K)
           D == Where(g, K)
           W == GivenTo(h.brk, h.maps, G)
           C == {a}
<1>1. a \in Int /\ a > 0 /\ n \in Int /\ n > 0 /\ a \notin W /\ a \notin DOMAIN s /\ Nowhere(E, a) /\ Words(a, Plain(n)) = Region(a, n)
  BY ClaimedIs
<1>2. Kernel(s, h.brk, h.maps, F) /\ GivenTo(h.brk, h.maps, F) = W \union Region(a, n) /\ W \cap Region(a, n) = {}
  BY DEF Claims
<1>3. Ground(s, h.top, h.brk, h.maps, G) /\ Distinct(h) /\ CacheIsOwned(h) /\ Placed(s, E)
  BY DEF Layout
<1>4. /\ \A x \in Int \ {Hand, Top} : D[x] = E[x]
      /\ D[Hand] = K /\ D[Top] = {g.top} \ {0} /\ E[Hand] = K /\ E[Top] = {h.top} \ {0}
      /\ Distinct(g) /\ CacheIsOwned(g)
  BY <1>3, ListsFrame
<1>5. DOMAIN r = DOMAIN s \union {a} /\ r[a] = Plain(n) /\ ButAt(r, s, a) /\ \A x \in DOMAIN s : r[x] = s[x]
  BY <1>1 DEF Upd, ButAt
<1>6. 0 \notin DOMAIN s
  <2>1. 0 \notin W
    <3>1. Kernel(s, h.brk, h.maps, G)
      BY <1>3 DEF Ground
    <3> HIDE DEF s
    <3> QED BY <3>1, GivenPositive
  <2>2. Sized(s) /\ Tiles(s, W)
    BY <1>3 DEF Ground
  <2>3. 0 \in DOMAIN s => Has(s, 0, 0)
    BY <2>2 DEF Sized, Has
  <2> QED BY <2>1, <2>2, <2>3 DEF Tiles
<1>7. Sized(r) /\ Tiles(r, GivenTo(h.brk, h.maps, F)) /\ Ends(r, a)
  <2>1. Sized(s) /\ Tiles(s, W) /\ Ends(s, h.top)
    BY <1>3 DEF Ground
  <2>2. r[a].size \in Int /\ r[a].size > 0 /\ r[a].off \in Int /\ r[a].off >= 0 /\ (~r[a].mapped => r[a].off = 0)
    BY <1>1, <1>5 DEF Plain
  <2>3. h.top \notin DOMAIN s /\ Words(a, r[a]) = Region(a, n)
    BY <1>1, <1>5, <1>6
  <2>4. Words(a, r[a]) \cap W = {}
    BY <1>2, <2>3
  <2> HIDE DEF s, r, W
  <2>5. Sized(r) /\ Tiles(r, W \union Words(a, r[a])) /\ Ends(r, a)
    BY <1>1, <1>5, <2>1, <2>2, <2>3, <2>4, Lay
  <2> QED BY <1>2, <2>3, <2>5
<1>8. Ground(r, g.top, g.brk, g.maps, F)
  <2>1. \A x \in DOMAIN r : r[x].mapped => x \in DOMAIN s /\ s[x] = r[x]
    <3>1. ~r[a].mapped
      BY <1>5 DEF Plain
    <3> HIDE DEF s, r
    <3> QED BY <1>5, <3>1
  <2>2. Kernel(r, h.brk, h.maps, F)
    BY <1>2, <2>1, KernelFrame
  <2> HIDE DEF s, r
  <2> QED BY <1>7, <2>2 DEF Ground, ListsStay
<1>9. Besides(h, g, K, K, C)
  <2> SUFFICES ASSUME NEW x \in Int \ C
               PROVE  /\ x \in DOMAIN r <=> x \in DOMAIN s
                      /\ x \in DOMAIN s => r[x] = s[x]
                      /\ \A y \in Int : x \in D[y] <=> x \in E[y]
    BY DEF Besides
  <2>1. (x \in DOMAIN r <=> x \in DOMAIN s) /\ (x \in DOMAIN s => r[x] = s[x])
    BY <1>5
  <2>2. (x \in D[Hand] <=> x \in E[Hand]) /\ (x \in D[Top] <=> x \in E[Top])
    BY <1>4
  <2> QED BY <1>4, <2>1, <2>2
<1>10. Only(D, a, Top)
  <2>1. a \in D[Top] /\ a \notin D[Hand] /\ \A y \in Int \ {Hand, Top} : a \notin D[y]
    BY <1>1, <1>4, Elsewhere DEF Nowhere
  <2> QED BY <2>1, Elsewhere DEF Only
<1>11. \A p \in C : p \in Int => OkAt(r, D, p)
  <2>1. a \in DOMAIN r /\ Suits(Top, r[a])
    BY <1>1, <1>5, Elsewhere DEF Suits, Hand, Top, Plain
  <2> HIDE DEF r, D
  <2>2. OkAt(r, D, a)
    BY <1>10, <2>1, OkOnly, Elsewhere
  <2> QED BY <2>2
<1>12. g.needless = h.needless
  BY DEF ListsStay
<1> HIDE DEF C
<1>13. Layout(g, K, F)
  BY <1>4, <1>8, <1>9, <1>11, <1>12, CarvedAnew
<1> QED BY <1>5, <1>13

(* A new top keeps it, and gives up the old one between fenceposts. *)
LEMMA NextTop ==
  ASSUME NEW h, NEW g, NEW K \in SUBSET Int, NEW L, NEW G, NEW F, NEW a, NEW n, NEW m, Layout(h, K, G), n >= MINSIZE,
         Claims(h, G, F, a, n), g.top = a, ListsStay(h, g), EndsTop(h, g, K, L, a, n, m)
  PROVE  Layout(g, L, F) /\ \A q \in K : q \in DOMAIN Shape(h) => q \in DOMAIN Shape(g) /\ Shape(g)[q] = Shape(h)[q]
<1> DEFINE s == Shape(h)
           r == Shape(g)
           E == Where(h, K)
           D == Where(g, L)
           W == GivenTo(h.brk, h.maps, G)
           o == h.top
           f == Fenced(s, o, m)
           B == {o, o + m, o + m + 2}
           C == {a, o, o + m, o + m + 2}
<1> m \in Int /\ m >= 0 /\ h.top \in Int /\ h.top # 0 /\ Shape(h)[h.top].size = m + 4
  BY DEF EndsTop
<1>0. L = IF m >= MINSIZE THEN K \union {h.top} ELSE K
  BY DEF EndsTop
<1>1. a \in Int /\ a > 0 /\ n \in Int /\ n > 0 /\ a \notin W /\ a \notin DOMAIN s /\ Nowhere(E, a) /\ Words(a, Plain(n)) = Region(a, n)
  BY ClaimedIs
<1>2. Kernel(s, h.brk, h.maps, F) /\ GivenTo(h.brk, h.maps, F) = W \union Region(a, n) /\ W \cap Region(a, n) = {}
  BY DEF Claims
<1>3. Ground(s, h.top, h.brk, h.maps, G) /\ Distinct(h) /\ CacheIsOwned(h) /\ Placed(s, E)
  BY DEF Layout
<1>4. /\ \A x \in Int \ {Hand, Top} : D[x] = E[x]
      /\ D[Hand] = L /\ D[Top] = {g.top} \ {0} /\ E[Hand] = K /\ E[Top] = {h.top} \ {0}
      /\ Distinct(g) /\ CacheIsOwned(g)
  BY <1>3, ListsFrame
<1>5. Only(E, o, Top) /\ o \in DOMAIN s /\ o \notin K /\ ~s[o].mapped /\ o # a
  <2>1. Only(E, o, Top) /\ o \in DOMAIN s /\ o \notin K /\ ~s[o].mapped
    BY TopIs
  <2> QED BY <1>1, <2>1
<1>6. Sized(s) /\ Tiles(s, W) /\ Ends(s, o)
  BY <1>3 DEF Ground
<1>7. /\ Sized(f) /\ Tiles(f, W) /\ Ends(f, a)
      /\ \A x \in DOMAIN s \ {o} : x \in DOMAIN f /\ f[x] = s[x]
      /\ DOMAIN f = DOMAIN s \union B
      /\ \A x \in B : /\ ~f[x].mapped /\ x \in W /\ (x # o => x \notin DOMAIN s)
                      /\ x # o => f[x].size = 2
      /\ f[o] = IF m = 0 THEN Plain(2) ELSE Plain(m)
  <2>1. FencedOff(s, W, o, m, a)
    <3>1. s[o].size = m + 4 /\ ~s[o].mapped /\ o \in DOMAIN s
      BY <1>5
    <3> HIDE DEF s, W, o
    <3> QED BY <1>6, <3>1, FencedIs
  <2> HIDE DEF s, W
  <2> QED BY <2>1 DEF FencedOff
<1>8. DOMAIN r = DOMAIN f \union {a} /\ r[a] = Plain(n) /\ ButAt(r, f, a) /\ a \notin DOMAIN f /\ \A x \in DOMAIN f : r[x] = f[x]
  <2>1. a \notin B /\ a \notin DOMAIN f
    BY <1>1, <1>7
  <2>2. r = Fenced(Upd(s, a, Plain(n)), o, m)
    BY DEF EndsTop
  <2>3. DOMAIN r = DOMAIN f \union {a} /\ r[a] = Plain(n) /\ \A x \in DOMAIN f : r[x] = f[x]
    <3>1. DOMAIN r = DOMAIN s \union {a, o, o + m, o + m + 2}
      BY <2>2 DEF Fenced, Upd
    <3>2. r[a] = Plain(n)
      BY <2>1, <2>2 DEF Fenced, Upd
    <3>3. ASSUME NEW x \in DOMAIN f PROVE r[x] = f[x]
      <4>1. x # a /\ x \in DOMAIN s \union B
        BY <1>7, <2>1
      <4> HIDE DEF s, o, r
      <4> QED BY <2>2, <4>1 DEF Fenced, Upd, f
    <3> QED BY <1>7, <3>1, <3>2, <3>3
  <2> QED BY <2>1, <2>3 DEF ButAt
<1>9. Sized(r) /\ Tiles(r, GivenTo(h.brk, h.maps, F)) /\ Ends(r, a)
  <2>2. r[a].size \in Int /\ r[a].size > 0 /\ r[a].off \in Int /\ r[a].off >= 0 /\ (~r[a].mapped => r[a].off = 0)
    BY <1>1, <1>8 DEF Plain
  <2>3. Words(a, r[a]) = Region(a, n)
    BY <1>1, <1>8
  <2>4. Words(a, r[a]) \cap W = {}
    BY <1>2, <2>3
  <2> HIDE DEF s, r, W, f
  <2>5. Sized(r) /\ Tiles(r, W \union Words(a, r[a])) /\ Ends(r, a)
    BY <1>1, <1>7, <1>8, <2>2, <2>4, Lay
  <2> QED BY <1>2, <2>3, <2>5
<1>10. DOMAIN r = DOMAIN s \union C /\ \A x \in DOMAIN s \ {o} : x \in DOMAIN r /\ r[x] = s[x]
  <2> HIDE DEF s, r, f
  <2> QED BY <1>7, <1>8
<1>11. Ground(r, g.top, g.brk, g.maps, F)
  <2>1. \A x \in DOMAIN r : r[x].mapped => x \in DOMAIN s /\ s[x] = r[x]
    <3> SUFFICES ASSUME NEW x \in DOMAIN r, r[x].mapped PROVE x \in DOMAIN s /\ s[x] = r[x]
      OBVIOUS
    <3>1. ~r[a].mapped /\ \A y \in B : ~r[y].mapped
      <4> HIDE DEF s, r, f, o
      <4> QED BY <1>7, <1>8 DEF Plain
    <3>2. x \in DOMAIN s /\ x # o
      <4> HIDE DEF s, r
      <4> QED BY <1>10, <3>1
    <3> QED BY <1>10, <3>2
  <2>2. Kernel(r, h.brk, h.maps, F)
    BY <1>2, <2>1, KernelFrame
  <2> HIDE DEF s, r
  <2> QED BY <1>9, <2>2 DEF Ground, ListsStay
<1>12. \A x \in B : x # o => Nowhere(E, x) /\ x # a
  <2> SUFFICES ASSUME NEW x \in B, x # o PROVE Nowhere(E, x) /\ x # a
    OBVIOUS
  <2>1. x \in Int \ DOMAIN s /\ x # a
    <3> HIDE DEF s, f
    <3> QED BY <1>1, <1>7
  <2> QED BY <2>1, NewIsNowhere
<1>13. \A x \in C : x \in Int
  BY <1>1
<1>14. Besides(h, g, K, L, C)
  <2> SUFFICES ASSUME NEW x \in Int \ C
               PROVE  /\ x \in DOMAIN r <=> x \in DOMAIN s
                      /\ x \in DOMAIN s => r[x] = s[x]
                      /\ \A y \in Int : x \in D[y] <=> x \in E[y]
    BY DEF Besides
  <2>1. (x \in DOMAIN r <=> x \in DOMAIN s) /\ (x \in DOMAIN s => r[x] = s[x])
    <3> HIDE DEF s, r
    <3> QED BY <1>10
  <2>2. (x \in D[Hand] <=> x \in E[Hand]) /\ (x \in D[Top] <=> x \in E[Top])
    BY <1>0, <1>4
  <2> QED BY <1>4, <2>1, <2>2
<1>15. OkAt(r, D, a)
  <2>1. a \in D[Top] /\ a \notin D[Hand] /\ \A y \in Int \ {Hand, Top} : a \notin D[y]
    <3>1. a \notin K
      BY <1>1, <1>4, Elsewhere DEF Nowhere
    <3>2. a \notin L
      BY <1>0, <1>5, <3>1
    <3>3. a \in D[Top] /\ a \notin D[Hand]
      BY <1>1, <1>4, <3>2
    <3>4. \A y \in Int \ {Hand, Top} : a \notin D[y]
      BY <1>1, <1>4 DEF Nowhere
    <3> QED BY <3>3, <3>4
  <2>2. Only(D, a, Top)
    BY <2>1, Elsewhere DEF Only
  <2>3. a \in DOMAIN r /\ Suits(Top, r[a])
    BY <1>1, <1>8, Elsewhere DEF Suits, Hand, Top, Plain
  <2> HIDE DEF r, D
  <2> QED BY <2>2, <2>3, OkOnly, Elsewhere
<1>16. OkAt(r, D, o)
  <2>1. r[o] = IF m = 0 THEN Plain(2) ELSE Plain(m)
    <3>1. o \in DOMAIN f
      BY <1>7
    <3> QED BY <1>7, <1>8, <3>1
  <2>2. o \notin D[Top] /\ \A y \in Int \ {Hand, Top} : o \notin D[y]
    BY <1>4, <1>5, Elsewhere DEF Only
  <2>3. o \in DOMAIN r
    BY <1>10
  <2>4. CASE m >= MINSIZE
    <3>1. Only(D, o, Hand)
      BY <1>0, <1>4, <2>2, <2>4, Elsewhere DEF Only
    <3>2. Suits(Hand, r[o])
      BY <2>1, <2>4, Elsewhere DEF Suits, Hand, Plain, MINSIZE, SIZE_SZ
    <3> HIDE DEF r, D
    <3> QED BY <2>3, <3>1, <3>2, OkOnly, Elsewhere
  <2>5. CASE ~(m >= MINSIZE)
    <3>1. Nowhere(D, o)
      BY <1>0, <1>4, <1>5, <2>2, <2>5, Elsewhere DEF Nowhere
    <3>2. ~r[o].mapped /\ r[o].size < MINSIZE
      BY <2>1, <2>5 DEF Plain, MINSIZE, SIZE_SZ
    <3> HIDE DEF r, D
    <3> QED BY <3>1, <3>2, OkNowhere
  <2> QED BY <2>4, <2>5
<1>17. ASSUME NEW x \in B, x # o PROVE OkAt(r, D, x)
  <2>1. x \in Int /\ Nowhere(E, x) /\ x # a
    BY <1>12, <1>17
  <2>2. Nowhere(D, x)
    BY <1>0, <1>4, <1>17, <2>1, Elsewhere DEF Nowhere
  <2>3. ~r[x].mapped /\ r[x].size = 2
    <3> HIDE DEF s, f, r, B, o
    <3> QED BY <1>7, <1>8, <1>17
  <2>4. ~r[x].mapped /\ r[x].size < MINSIZE
    BY <2>3 DEF MINSIZE, SIZE_SZ
  <2> HIDE DEF r, D
  <2> QED BY <2>2, <2>4, OkNowhere
<1>18. \A p \in C : p \in Int => OkAt(r, D, p)
  BY <1>15, <1>16, <1>17
<1>19. g.needless = h.needless
  BY DEF ListsStay
<1>20. Layout(g, L, F)
  <2> HIDE DEF C
  <2> QED BY <1>4, <1>11, <1>14, <1>18, <1>19, CarvedAnew
<1> QED BY <1>5, <1>10, <1>20

(* Both cases in one. *)
LEMMA TopIsNew ==
  ASSUME NEW h, NEW g, NEW K \in SUBSET Int, NEW L, NEW G, NEW F, NEW a, NEW n, Layout(h, K, G), NewTops(h, g, K, L, G, F, a, n)
  PROVE  Layout(g, L, F) /\ \A q \in K : q \in DOMAIN Shape(h) => q \in DOMAIN Shape(g) /\ Shape(g)[q] = Shape(h)[q]
<1>1. n >= MINSIZE /\ Claims(h, G, F, a, n) /\ g.top = a /\ ListsStay(h, g)
  BY DEF NewTops
<1>2. CASE h.top = 0 /\ L = K /\ Shape(g) = Upd(Shape(h), a, Plain(n))
  BY <1>1, <1>2, FirstTop
<1>3. CASE ~(h.top = 0 /\ L = K /\ Shape(g) = Upd(Shape(h), a, Plain(n)))
  <2>1. PICK m \in Int : EndsTop(h, g, K, L, a, n, m)
    BY <1>3 DEF NewTops
  <2> QED BY <1>1, <2>1, NextTop
<1> QED BY <1>2, <1>3

(* Top at another place, and the rest of the old one freed. *)
LEMMA FencedHeads ==
  ASSUME NEW h \in Good, NEW at \in Aligned, NEW size \in Aligned, NEW rest \in Aligned
  PROVE  LET moved == [set_head(h, at, size) EXCEPT !.top = at]
             fenced == set_head(set_head(set_head(moved, h.top, rest), h.top + rest, CHUNK_HDR_SZ),
                                h.top + rest + CHUNK_HDR_SZ, CHUNK_HDR_SZ)
         IN /\ moved \in Good /\ fenced \in Good /\ moved.aborted = h.aborted /\ fenced.aborted = h.aborted
            /\ ListsStay(h, moved) /\ ListsStay(h, fenced) /\ moved.top = at /\ fenced.top = at
            /\ Shape(moved) = Upd(Shape(h), at, Plain(size))
            /\ Shape(fenced) = Fenced(Upd(Shape(h), at, Plain(size)), h.top, rest)
<1> DEFINE w == set_head(h, at, size)
           m == [w EXCEPT !.top = at]
           x == set_head(m, h.top, rest)
           y == set_head(x, h.top + rest, CHUNK_HDR_SZ)
           z == set_head(y, h.top + rest + CHUNK_HDR_SZ, CHUNK_HDR_SZ)
<1>1. CHUNK_HDR_SZ = 2 /\ 2 \in Aligned /\ h.top \in Aligned /\ h.top \in Int /\ rest \in Int /\ h \in Heaps
  <2>1. 2 \in Aligned
    BY DEF Aligned, MALLOC_ALIGNMENT, SIZE_SZ
  <2>2. h \in Heaps /\ h.top \in Aligned
    BY DEF Good, Heaps
  <2> QED BY <2>1, <2>2 DEF Aligned, CHUNK_HDR_SZ, SIZE_SZ
<1>2. w \in Good /\ m \in Good
  <2>1. w \in Good
    BY HeadsKeep
  <2> HIDE DEF w
  <2> QED BY <2>1, OtherFields
<1>3. h.top + rest \in Aligned /\ h.top + rest + 2 \in Aligned
  BY <1>1, EvenSums
<1>4. x \in Good /\ y \in Good /\ z \in Good
  BY <1>1, <1>2, <1>3, HeadsKeep
<1>5. Shape(w) = Upd(Shape(h), at, Plain(size)) /\ HeadsOnly(h, w)
  BY <1>1, HeadIsSet
<1>6. Shape(m) = Shape(w) /\ m.top = at /\ ListsStay(w, m) /\ m.aborted = w.aborted
  <2>1. w \in Heaps
    BY <1>2 DEF Good
  <2> HIDE DEF w
  <2> QED BY <2>1, TopMoves
<1> HIDE DEF w, m
<1>7. Shape(x) = Upd(Shape(m), h.top, Plain(rest)) /\ HeadsOnly(m, x)
  BY <1>2, HeadIsSet DEF Good
<1> HIDE DEF x
<1>8. Shape(y) = Upd(Shape(x), h.top + rest, Plain(2)) /\ HeadsOnly(x, y)
  BY <1>1, <1>4, HeadIsSet DEF Good
<1> HIDE DEF y
<1>9. Shape(z) = Upd(Shape(y), h.top + rest + 2, Plain(2)) /\ HeadsOnly(y, z)
  BY <1>1, <1>4, HeadIsSet DEF Good
<1> HIDE DEF z
<1>10. Shape(z) = Fenced(Upd(Shape(h), at, Plain(size)), h.top, rest)
  BY <1>5, <1>6, <1>7, <1>8, <1>9 DEF Fenced
<1>11. /\ ListsStay(h, m) /\ ListsStay(h, z) /\ z.top = at /\ m.aborted = h.aborted /\ z.aborted = h.aborted
  BY <1>5, <1>6, <1>7, <1>8, <1>9 DEF ListsStay, HeadsOnly
<1> QED BY <1>2, <1>4, <1>5, <1>6, <1>10, <1>11 DEF w, m, x, y, z

(* No chunk is at address 0. *)
LEMMA NoChunkAtZero ==
  ASSUME NEW h, NEW H, NEW F, Layout(h, H, F)
  PROVE  0 \notin DOMAIN Shape(h)
BY NotZero

(* sysmalloc's new top, in words that it may claim, keeps the layout and   *)
(* all chunks in hand; the old top is freed.                               *)
LEMMA ReplaceTopIsSound ==
  ASSUME NEW H \in SUBSET Int, NEW F, NEW G, NEW h \in Sound(H, G), NEW at \in Aligned, NEW size \in Aligned,
         ~h.aborted => size >= MINSIZE /\ Claims(h, G, F, at, size)
  PROVE  ReplaceTop(h, at, size) \in Reach(h, H, F, H)
<1> DEFINE old == h.top
           c == chunksize(h, old)
           rest == AlignDown(c - 2 * CHUNK_HDR_SZ, MALLOC_ALIGNMENT)
           moved == [set_head(h, at, size) EXCEPT !.top = at]
           fenced == set_head(set_head(set_head(moved, old, rest), old + rest, CHUNK_HDR_SZ),
                              old + rest + CHUNK_HDR_SZ, CHUNK_HDR_SZ)
           s == Shape(h)
           L == IF rest >= MINSIZE THEN H \union {old} ELSE H
<1>1. h \in Good /\ h \in Heaps /\ (~h.aborted => Layout(h, H, G)) /\ old \in Aligned /\ old \in Int /\ c \in Aligned /\ c \in Int
  <2>1. h \in Good /\ h \in Heaps /\ (~h.aborted => Layout(h, H, G))
    BY SoundIs
  <2>2. old \in Aligned
    BY <2>1 DEF Heaps
  <2>3. c \in Aligned
    BY <2>1, HeadFields
  <2> QED BY <2>1, <2>2, <2>3, EvenSums
<1>2. rest \in Aligned /\ rest = c - 4 /\ rest \in Int
  <2>1. c % 2 = 0 /\ (c - 4) % 2 = 0
    BY <1>1 DEF Aligned, MALLOC_ALIGNMENT, SIZE_SZ
  <2>2. rest = ((c - 4) \div 2) * 2
    BY DEF AlignDown, CHUNK_HDR_SZ, MALLOC_ALIGNMENT, SIZE_SZ
  <2>3. rest = c - 4
    BY <1>1, <2>1, <2>2
  <2> QED BY <1>1, <2>1, <2>3 DEF Aligned, MALLOC_ALIGNMENT, SIZE_SZ
<1>3. /\ moved \in Good /\ fenced \in Good /\ moved.aborted = h.aborted /\ fenced.aborted = h.aborted
      /\ ListsStay(h, moved) /\ ListsStay(h, fenced) /\ moved.top = at /\ fenced.top = at
      /\ Shape(moved) = Upd(s, at, Plain(size)) /\ Shape(fenced) = Fenced(Upd(s, at, Plain(size)), old, rest)
  <2> HIDE DEF rest, c, s, L
  <2>1. rest \in Aligned
    BY <1>2
  <2> QED BY <2>1, <1>1, FencedHeads DEF s
<1>4. ReplaceTop(h, at, size) = IF c = 0 THEN moved ELSE IF rest >= MINSIZE THEN int_free(fenced, old) ELSE fenced
  BY DEF ReplaceTop
<1> HIDE DEF moved, fenced, rest, c
<1>5. ASSUME ~h.aborted PROVE (c = 0 <=> old = 0) /\ (old # 0 => s[old].size = c /\ c >= MINSIZE /\ old \notin H)
  <2>1. Layout(h, H, G)
    BY <1>1, <1>5
  <2>2. CASE old = 0
    <3>1. old \notin DOMAIN h.mem
      BY <2>1, <2>2, NoChunkAtZero, ShapeIs
    <3> QED BY <2>2, <3>1 DEF c, chunksize, At, NoHead
  <2>3. CASE old # 0
    <3>1. old \in DOMAIN s /\ s[old].size >= MINSIZE /\ old \notin H
      BY <1>1, <2>1, <2>3, TopIs
    <3>2. s[old].size = c
      BY <3>1, SizeIs DEF c
    <3> QED BY <2>3, <3>1, <3>2 DEF MINSIZE, SIZE_SZ
  <2> QED BY <2>2, <2>3
<1>6. L \in SUBSET Int
  BY <1>1
<1>7. CASE c = 0
  <2>1. ASSUME ~h.aborted PROVE Layout(moved, H, F) /\ \A q \in H : q \in DOMAIN s => q \in DOMAIN Shape(moved) /\ Shape(moved)[q] = s[q]
    <3>1. NewTops(h, moved, H, H, G, F, at, size)
      BY <1>3, <1>5, <1>7, <2>1 DEF NewTops
    <3> HIDE DEF s
    <3> QED BY <1>1, <2>1, <3>1, TopIsNew DEF s
  <2>2. moved.tcache = h.tcache
    BY <1>3 DEF ListsStay
  <2>3. moved \in Reach(h, H, F, H)
    BY <1>3, <2>1, <2>2 DEF Reach, Sound, Onward
  <2> QED BY <1>4, <1>7, <2>3
<1>8. CASE c # 0
  <2>1. ASSUME ~h.aborted
        PROVE  Layout(fenced, L, F) /\ \A q \in H : q \in DOMAIN s => q \in DOMAIN Shape(fenced) /\ Shape(fenced)[q] = s[q]
    <3>1. old # 0 /\ s[old].size = rest + 4 /\ rest >= 0
      BY <1>1, <1>2, <1>5, <1>8, <2>1 DEF MINSIZE, SIZE_SZ
    <3>2. EndsTop(h, fenced, H, L, at, size, rest)
      BY <1>1, <1>2, <1>3, <3>1 DEF EndsTop
    <3>3. NewTops(h, fenced, H, L, G, F, at, size)
      BY <1>2, <1>3, <2>1, <3>2 DEF NewTops
    <3> HIDE DEF s, L
    <3> QED BY <1>1, <2>1, <3>3, TopIsNew DEF s
  <2>2. fenced.tcache = h.tcache
    BY <1>3 DEF ListsStay
  <2>3. fenced \in Reach(h, L, F, H)
    <3> HIDE DEF L
    <3> QED BY <1>3, <2>1, <2>2 DEF Reach, Sound, Onward
  <2>4. CASE ~(rest >= MINSIZE)
    BY <1>4, <1>8, <2>3, <2>4
  <2>5. CASE rest >= MINSIZE
    <3>1. L = H \union {old}
      BY <2>5
    <3>2. ASSUME ~fenced.aborted PROVE ~Shape(fenced)[old].mapped
      <4>1. Layout(fenced, L, F)
        BY <1>3, <2>1, <3>2
      <4>2. Suits(Hand, Shape(fenced)[old]) => TRUE
        OBVIOUS
      <4>3. old \in DOMAIN Shape(fenced) /\ old # at /\ Shape(fenced)[old] = Plain(rest)
        <5>1. rest # 0 /\ rest \in Int /\ rest > 0
          BY <1>2, <2>5 DEF MINSIZE, SIZE_SZ
        <5>2. old \in DOMAIN Fenced(Upd(s, at, Plain(size)), old, rest) /\ Fenced(Upd(s, at, Plain(size)), old, rest)[old] = Plain(rest)
          BY <1>1, <5>1 DEF Fenced, Upd
        <5>3. ~h.aborted /\ old # 0
          BY <1>3, <1>5, <1>8, <3>2
        <5>4. old \in DOMAIN s
          BY <1>1, <5>3, TopIs
        <5>5. at \notin DOMAIN s
          <6>1. Layout(h, H, G) /\ Claims(h, G, F, at, size)
            BY <1>1, <5>3
          <6> QED BY <6>1, ClaimedIs
        <5> QED BY <1>3, <5>2, <5>4, <5>5
      <4> QED BY <4>3 DEF Plain
    <3>3. fenced \in Sound(L, F)
      BY <2>3, ReachIs
    <3>4. old \in L
      BY <3>1
    <3> HIDE DEF L, s
    <3>5. int_free(fenced, old) \in Reach(fenced, L \ {old}, F, L \ {old})
      BY <1>1, <1>6, <3>2, <3>3, <3>4, FreeIsSound
    <3> DEFINE k == int_free(fenced, old)
    <3> HIDE DEF k
    <3>6. k \in Reach(fenced, L \ {old}, F, L \ {old})
      BY <3>5 DEF k
    <3>7. CASE h.aborted
      <4>1. k \in Good /\ k.aborted
        <5>1. k \in Good /\ Onward(fenced, k, L \ {old})
          BY <3>6 DEF Reach, Sound
        <5> QED BY <1>3, <3>7, <5>1 DEF Onward
      <4>2. k \in Reach(h, H, F, H)
        BY <4>1 DEF Reach, Sound, Onward
      <4> QED BY <1>4, <1>8, <2>5, <4>2 DEF k
    <3>8. CASE ~h.aborted
      <4>1. old \notin H
        BY <1>5, <1>8, <3>8
      <4>2. L \ {old} = H
        BY <3>1, <4>1
      <4>3. k \in Reach(fenced, H, F, H)
        BY <3>6, <4>2
      <4>4. k \in Reach(h, H, F, H)
        BY <2>3, <4>3, ReachTwice
      <4> QED BY <1>4, <1>8, <2>5, <4>4 DEF k
    <3> QED BY <3>7, <3>8
  <2> QED BY <2>4, <2>5
<1> QED BY <1>7, <1>8

(* The break is moved up, for words that are nobody's as yet.              *)
Brked(h, g, n) ==
  /\ g.mem = h.mem /\ SameLists(h, g) /\ g.maps = h.maps /\ g.brk = h.brk + n /\ g.aborted = h.aborted

(* A break that is moved up: the new words are of others for now, and the  *)
(* heap may claim them.                                                    *)
LEMMA BrkMoved ==
  ASSUME NEW h, NEW g, NEW H, NEW F, NEW n \in Int, Layout(h, H, F), Brked(h, g, n), n >= 0, g.brk <= BrkLimit
  PROVE  /\ Layout(g, H, F \union Region(h.brk, n)) /\ Shape(g) = Shape(h) /\ h.brk \in Int /\ h.brk >= FirstBrk
         /\ n > 0 => Claims(g, F \union Region(h.brk, n), F, h.brk, n)
<1> DEFINE s == Shape(h)
           R == Region(h.brk, n)
<1>1. Shape(g) = s
  BY DEF Shape, Brked
<1>2. Sized(s) /\ Tiles(s, GivenTo(h.brk, h.maps, F)) /\ Ends(s, h.top) /\ Kernel(s, h.brk, h.maps, F)
      /\ Placed(s, Where(h, H)) /\ Distinct(h) /\ CacheIsOwned(h) /\ ~h.needless
  BY DEF Layout, Ground
<1>3. h.brk \in Int /\ h.brk >= FirstBrk
  BY <1>2, PtHeapAssumption DEF Kernel
<1>4. g.brk \in Int /\ g.brk - h.brk = n /\ h.brk <= g.brk /\ g.maps = h.maps
  BY <1>3 DEF Brked
<1>5. Grown(s, h.brk, h.maps, F, g.brk)
  <2> HIDE DEF s
  <2> QED BY <1>2, <1>4, BrkGrows
<1>6. /\ Kernel(s, g.brk, g.maps, F) /\ Kernel(s, g.brk, g.maps, F \union R)
      /\ GivenTo(g.brk, g.maps, F) = GivenTo(h.brk, h.maps, F) \union R
      /\ GivenTo(g.brk, g.maps, F \union R) = GivenTo(h.brk, h.maps, F)
      /\ GivenTo(h.brk, h.maps, F) \cap R = {}
  BY <1>4, <1>5 DEF Grown
<1>7. Where(g, H) = Where(h, H) /\ Distinct(g) /\ CacheIsOwned(g) /\ ~g.needless /\ g.top = h.top
  BY <1>2, SameListsFrame DEF Brked, SameLists
<1> HIDE DEF s, R
<1>8. Layout(g, H, F \union R)
  BY <1>1, <1>2, <1>6, <1>7 DEF Layout, Ground
<1>9. n > 0 => Claims(g, F \union R, F, h.brk, n)
  BY <1>1, <1>3, <1>6 DEF Claims, R
<1> QED BY <1>1, <1>3, <1>8, <1>9 DEF s, R

(* So for a heap in which no check has failed. *)
LEMMA BrkReaches ==
  ASSUME NEW H \in SUBSET Int, NEW F, NEW h \in Sound(H, F), NEW g \in Good, NEW n \in Int, Brked(h, g, n),
         ~h.aborted => n >= 0 /\ g.brk <= BrkLimit
  PROVE  /\ g \in Reach(h, H, F \union Region(h.brk, n), H) /\ g \in Sound(H, F \union Region(h.brk, n))
         /\ ~h.aborted /\ n > 0 => Claims(g, F \union Region(h.brk, n), F, h.brk, n)
<1>1. ~h.aborted => Layout(h, H, F)
  BY SoundIs
<1>2. ~h.aborted => /\ Layout(g, H, F \union Region(h.brk, n)) /\ Shape(g) = Shape(h)
                    /\ n > 0 => Claims(g, F \union Region(h.brk, n), F, h.brk, n)
  BY <1>1, BrkMoved
<1>3. g.aborted = h.aborted /\ g.tcache = h.tcache
  BY DEF Brked, SameLists
<1> QED BY <1>2, <1>3 DEF Reach, Sound, Onward

(* MORECORE: either it fails and nothing changes, or the break is moved by *)
(* n and the old one is returned.                                          *)
LEMMA SbrkIs ==
  ASSUME NEW h \in Good, NEW n \in Aligned
  PROVE  /\ Sbrk(h, n).brk = Failed => Sbrk(h, n).h = h
         /\ Sbrk(h, n).brk # Failed => /\ Sbrk(h, n).brk = h.brk /\ h.brk + n <= BrkLimit
                                       /\ Brked(h, Sbrk(h, n).h, n) /\ Sbrk(h, n).h \in Good
         /\ h.brk \in Aligned /\ h.brk \in Int /\ n \in Int
<1>1. h \in Heaps /\ h.brk \in Aligned /\ h.brk \in Int /\ n \in Int /\ h.brk # Failed
  BY DEF Good, Heaps, Aligned, Failed, MALLOC_ALIGNMENT, SIZE_SZ
<1>2. BrkLimit \in Int
  BY PtAssumption
<1>3. CASE h.brk + n > BrkLimit
  BY <1>1, <1>3 DEF Sbrk
<1>4. CASE ~(h.brk + n > BrkLimit)
  <2>1. Sbrk(h, n) = [h |-> [h EXCEPT !.brk = h.brk + n], brk |-> h.brk]
    BY <1>4 DEF Sbrk
  <2>2. Brked(h, [h EXCEPT !.brk = h.brk + n], n)
    BY <1>1 DEF Brked, SameLists, Heaps
  <2>3. h.brk + n <= BrkLimit
    BY <1>1, <1>2, <1>4
  <2> QED BY <1>1, <2>1, <2>2, <2>3, SbrkKeeps
<1> QED BY <1>3, <1>4

(* Only what is counted has changed. *)
Counted(h, g) ==
  /\ g.mem = h.mem /\ SameLists(h, g) /\ g.maps = h.maps /\ g.brk = h.brk /\ g.aborted = h.aborted

(* system_mem, sbrk_base and the contiguous flag do not concern the        *)
(* layout.                                                                 *)
LEMMA CountersReach ==
  ASSUME NEW H \in SUBSET Int, NEW F, NEW h \in Sound(H, F), NEW g \in Good, Counted(h, g)
  PROVE  g \in Reach(h, H, F, H) /\ g \in Sound(H, F) /\ Shape(g) = Shape(h)
<1>1. SameLayout(h, g) /\ g.aborted = h.aborted
  BY DEF Counted, SameLists, SameLayout
<1>2. g \in Sound(H, F) /\ Onward(h, g, H)
  BY <1>1, SoundFrame
<1> QED BY <1>2 DEF Reach, Shape, Counted

(* A new top in the words the break was moved over. *)
LEMMA TopAtBreak ==
  ASSUME NEW H \in SUBSET Int, NEW F, NEW h \in Sound(H, F), NEW g \in Good, NEW n \in Aligned, Brked(h, g, n),
         ~h.aborted => n >= MINSIZE /\ g.brk <= BrkLimit
  PROVE  ReplaceTop(g, h.brk, n) \in Reach(h, H, F, H)
<1> DEFINE G == F \union Region(h.brk, n)
<1>1. n \in Int /\ h.brk \in Aligned
  BY SoundIs, SbrkIs
<1>2. ~h.aborted => n >= 0 /\ n > 0
  BY <1>1 DEF MINSIZE, SIZE_SZ
<1>3. g \in Reach(h, H, G, H) /\ g \in Sound(H, G) /\ (~h.aborted /\ n > 0 => Claims(g, G, F, h.brk, n))
  BY <1>1, <1>2, BrkReaches
<1>4. ~g.aborted => n >= MINSIZE /\ Claims(g, G, F, h.brk, n)
  BY <1>2, <1>3 DEF Brked
<1> HIDE DEF G
<1>5. ReplaceTop(g, h.brk, n) \in Reach(g, H, F, H)
  BY <1>1, <1>3, <1>4, ReplaceTopIsSound
<1> QED BY <1>3, <1>5, ReachTwice

(* Moves of the break and changes of counters, one after the other. *)
LEMMA BrkedTwice ==
  ASSUME NEW h, NEW g, NEW k, NEW n \in Int, NEW m \in Int, h.brk \in Int, Brked(h, g, n)
  PROVE  (Brked(g, k, m) => Brked(h, k, n + m)) /\ (Counted(g, k) => Brked(h, k, n))
<1>1. g.brk + m = h.brk + (n + m)
  BY DEF Brked
<1> QED BY <1>1 DEF Brked, Counted, SameLists

(* The counters are of no account. *)
LEMMA MemoryIsCounted ==
  ASSUME NEW h \in Good, NEW n \in Int
  PROVE  [h EXCEPT !.system_mem = n] \in Good /\ Counted(h, [h EXCEPT !.system_mem = n])
<1>1. h \in Heaps
  BY DEF Good
<1>2. Counted(h, [h EXCEPT !.system_mem = n])
  BY <1>1 DEF Heaps, Counted, SameLists
<1> QED BY <1>2, SystemMemKeeps

(* These are what AlignTop writes. *)
LEMMA CountersAre ==
  ASSUME NEW h \in Good, NEW n \in Int, NEW base \in Int, NEW flag \in BOOLEAN
  PROVE  /\ [h EXCEPT !.system_mem = n, !.mp.sbrk_base = base] \in Good
         /\ Counted(h, [h EXCEPT !.system_mem = n, !.mp.sbrk_base = base])
         /\ [h EXCEPT !.contiguous = flag, !.system_mem = n, !.mp.sbrk_base = base] \in Good
         /\ Counted(h, [h EXCEPT !.contiguous = flag, !.system_mem = n, !.mp.sbrk_base = base])
<1>1. h \in Heaps
  BY DEF Good
<1>2. /\ Counted(h, [h EXCEPT !.system_mem = n, !.mp.sbrk_base = base])
      /\ Counted(h, [h EXCEPT !.contiguous = flag, !.system_mem = n, !.mp.sbrk_base = base])
  BY <1>1 DEF Heaps, Counted, SameLists
<1> QED BY <1>2, BaseKeeps

(* sysmalloc's correction to the alignment of a foreign break, with its    *)
(* second sbrk, keeps the layout, whether that one fails or not.           *)
LEMMA AlignTopIsSound ==
  ASSUME NEW H \in SUBSET Int, NEW F, NEW h \in Sound(H, F), NEW g \in Good, NEW n \in Aligned, Brked(h, g, n),
         NEW gap \in Aligned, NEW correction \in Aligned,
         ~h.aborted => n >= MINSIZE /\ g.brk <= BrkLimit /\ correction >= 0
  PROVE  AlignTop(g, h.brk, gap, correction, Sbrk(g, correction)) \in Reach(h, H, F, H)
<1> DEFINE more == Sbrk(g, correction)
           x == [g EXCEPT !.system_mem = g.system_mem + gap]
           y == [more.h EXCEPT !.system_mem = more.h.system_mem + gap + correction]
           k == AlignTop(g, h.brk, gap, correction, more)
<1>1. h.brk \in Int /\ n \in Int /\ gap \in Int /\ correction \in Int /\ g.brk = h.brk + n /\ g.brk \in Int
  BY SoundIs, SbrkIs, EvenSums DEF Brked
<1>2. CASE more.brk = Failed
  <2>1. k = ReplaceTop(x, h.brk, g.brk - h.brk)
    BY <1>2 DEF AlignTop
  <2>2. g.brk - h.brk = n
    BY <1>1
  <2>3. g.system_mem + gap \in Int
    <3>1. g.system_mem \in Int
      BY DEF Good, Heaps
    <3> QED BY <1>1, <3>1
  <2>4. x \in Good /\ Counted(g, x)
    BY <2>3, MemoryIsCounted
  <2> HIDE DEF x
  <2>5. Brked(h, x, n) /\ x.brk = g.brk
    BY <1>1, <2>4, BrkedTwice DEF Counted
  <2>6. ReplaceTop(x, h.brk, n) \in Reach(h, H, F, H)
    BY <2>4, <2>5, TopAtBreak
  <2> QED BY <2>1, <2>2, <2>6
<1>3. CASE more.brk # Failed
  <2>1. more.brk = g.brk /\ g.brk + correction <= BrkLimit /\ Brked(g, more.h, correction) /\ more.h \in Good
    BY <1>3, SbrkIs
  <2>2. k = ReplaceTop(y, h.brk, (g.brk - h.brk) + correction)
    BY <1>3, <2>1 DEF AlignTop
  <2>3. (g.brk - h.brk) + correction = n + correction /\ n + correction \in Aligned /\ n + correction \in Int
    <3>1. n + correction \in Aligned
      BY EvenSums
    <3> QED BY <1>1, <3>1
  <2> HIDE DEF more
  <2>4. more.h.system_mem + gap + correction \in Int
    <3>1. more.h.system_mem \in Int
      BY <2>1 DEF Good, Heaps
    <3> QED BY <1>1, <3>1
  <2>5. y \in Good /\ Counted(more.h, y)
    BY <2>1, <2>4, MemoryIsCounted
  <2> HIDE DEF y
  <2>6. Brked(h, more.h, n + correction)
    BY <1>1, <2>1, BrkedTwice
  <2>7. Brked(h, y, n + correction)
    BY <1>1, <2>3, <2>5, <2>6, BrkedTwice
  <2>8. ~h.aborted => n + correction >= MINSIZE /\ y.brk <= BrkLimit
    <3>1. y.brk = g.brk + correction
      BY <2>1, <2>5 DEF Counted, Brked
    <3> QED BY <1>1, <2>1, <3>1 DEF MINSIZE, SIZE_SZ
  <2>9. ReplaceTop(y, h.brk, n + correction) \in Reach(h, H, F, H)
    BY <2>3, <2>5, <2>7, <2>8, TopAtBreak
  <2> QED BY <2>2, <2>3, <2>9 DEF more
<1> QED BY <1>2, <1>3

(* Top itself grows. *)
LEMMA TopGrows ==
  ASSUME NEW H \in SUBSET Int, NEW F, NEW h \in Sound(H, F), NEW g \in Good, NEW n \in Aligned, Brked(h, g, n),
         ~h.aborted => n >= MINSIZE /\ g.brk <= BrkLimit,
         h.brk = h.top + chunksize(h, h.top)
  PROVE  set_head(g, h.top, n + chunksize(h, h.top)) \in Reach(h, H, F, H)
<1> DEFINE c == chunksize(h, h.top)
           k == set_head(g, h.top, n + c)
           s == Shape(h)
           R == Region(h.brk, n)
<1>1. h \in Good /\ (~h.aborted => Layout(h, H, F)) /\ h.top \in Aligned /\ h.top \in Int /\ c \in Aligned /\ c \in Int /\ n \in Int
  <2>1. h \in Good /\ h \in Heaps /\ (~h.aborted => Layout(h, H, F))
    BY SoundIs
  <2>2. h.top \in Aligned
    BY <2>1 DEF Heaps
  <2>3. c \in Aligned
    BY <2>1, HeadFields
  <2> QED BY <2>1, <2>2, <2>3, EvenSums
<1>2. k \in Good
  <2>1. n + c \in Aligned
    BY <1>1, EvenSums
  <2> HIDE DEF c
  <2> QED BY <1>1, <2>1, HeadsKeep
<1>3. Shape(k) = Upd(Shape(g), h.top, Plain(n + c)) /\ HeadsOnly(g, k)
  BY HeadIsSet DEF Good
<1>4. Shape(g) = s
  BY DEF Shape, Brked
<1> HIDE DEF k
<1>5. k.aborted = h.aborted /\ k.tcache = h.tcache
  BY <1>3 DEF HeadsOnly, Brked, SameLists
<1>6. ASSUME ~h.aborted
      PROVE  Layout(k, H, F) /\ \A q \in H : q \in DOMAIN s => q \in DOMAIN Shape(k) /\ Shape(k)[q] = s[q]
  <2>1. Layout(h, H, F) /\ n >= MINSIZE /\ g.brk <= BrkLimit
    BY <1>1, <1>6
  <2>2. Kernel(s, h.brk, h.maps, F) /\ h.brk > 0 /\ h.brk \in Int
    BY <2>1, PtHeapAssumption DEF Layout, Ground, Kernel
  <2>3. h.top # 0
    <3> SUFFICES ASSUME h.top = 0 PROVE FALSE
      OBVIOUS
    <3>1. 0 \notin DOMAIN h.mem
      BY <2>1, NoChunkAtZero, ShapeIs
    <3>2. c = 0
      BY <3>1 DEF chunksize, At, NoHead
    <3> QED BY <2>2, <3>2
  <2>4. h.top \in DOMAIN s /\ s[h.top].size = c /\ c >= MINSIZE
    <3>1. h.top \in DOMAIN s /\ s[h.top].size >= MINSIZE
      BY <1>1, <2>1, <2>3, TopIs
    <3> QED BY <3>1, SizeIs
  <2>5. g.brk \in Int /\ g.brk - h.brk = n /\ h.brk <= g.brk /\ g.maps = h.maps
    BY <1>1, <2>1, <2>2 DEF Brked, MINSIZE, SIZE_SZ
  <2>6. Grown(s, h.brk, h.maps, F, g.brk)
    <3> HIDE DEF s
    <3> QED BY <2>1, <2>2, <2>5, BrkGrows
  <2>7. k.brk = g.brk /\ k.maps = h.maps /\ SameLists(h, k)
    BY <1>3, <2>5 DEF HeadsOnly, Brked, SameLists
  <2>8. Kernel(s, k.brk, k.maps, F)
    BY <2>6, <2>7 DEF Grown
  <2>9. Longer(GivenTo(h.brk, h.maps, F), GivenTo(k.brk, k.maps, F), h.top, s[h.top].size, n + c)
    <3>1. GivenTo(k.brk, k.maps, F) = GivenTo(h.brk, h.maps, F) \union R /\ GivenTo(h.brk, h.maps, F) \cap R = {}
      BY <2>5, <2>6, <2>7 DEF Grown
    <3>2. R = Region(h.top + c, (n + c) - c)
      <4>1. (n + c) - c = n
        BY <1>1
      <4> QED BY <4>1
    <3>3. n + c >= c
      BY <1>1, <2>1 DEF MINSIZE, SIZE_SZ
    <3> HIDE DEF R, c, s
    <3> QED BY <2>4, <3>1, <3>2, <3>3 DEF Longer
  <2>10. n + c \in Int /\ n + c >= MINSIZE
    BY <1>1, <2>1, <2>4 DEF MINSIZE, SIZE_SZ
  <2>11. Stretches(h, k, n + c, F, F)
    <3> HIDE DEF c
    <3> QED BY <1>1, <1>3, <1>4, <2>3, <2>7, <2>8, <2>9, <2>10 DEF Stretches
  <2> HIDE DEF c, s
  <2> QED BY <2>1, <2>11, Stretched DEF s
<1>7. ~k.aborted => Layout(k, H, F)
  BY <1>5, <1>6
<1>8. Onward(h, k, H)
  BY <1>5, <1>6 DEF Onward
<1> QED BY <1>2, <1>7, <1>8 DEF Reach, Sound, k

(* The size of top, or 0 where there is none. *)
LEMMA TopSize ==
  ASSUME NEW H, NEW F, NEW h \in Sound(H, F)
  PROVE  /\ h.top \in Aligned /\ h.top \in Int /\ chunksize(h, h.top) \in Aligned /\ chunksize(h, h.top) \in Int
         /\ ~h.aborted => chunksize(h, h.top) >= 0
<1>1. h \in Good /\ h \in Heaps /\ (~h.aborted => Layout(h, H, F))
  BY SoundIs
<1>2. h.top \in Aligned /\ h.top \in Int
  BY <1>1 DEF Heaps, Aligned
<1>3. chunksize(h, h.top) \in Aligned
  BY <1>1, HeadFields
<1>4. chunksize(h, h.top) \in Int
  BY <1>3 DEF Aligned
<1>5. ASSUME ~h.aborted PROVE chunksize(h, h.top) >= 0
  <2>1. Layout(h, H, F)
    BY <1>1, <1>5
  <2>2. CASE h.top = 0
    <3>1. h.top \notin DOMAIN h.mem
      BY <2>1, <2>2, NoChunkAtZero, ShapeIs
    <3> QED BY <3>1 DEF chunksize, At, NoHead
  <2>3. CASE h.top # 0
    <3>1. h.top \in DOMAIN Shape(h) /\ Shape(h)[h.top].size >= MINSIZE
      BY <1>2, <2>1, <2>3, TopIs
    <3>2. chunksize(h, h.top) >= MINSIZE
      BY <3>1, SizeIs
    <3> QED BY <1>4, <3>2 DEF MINSIZE, SIZE_SZ
  <2> QED BY <2>2, <2>3
<1> QED BY <1>2, <1>3, <1>4, <1>5

(* sysmalloc's use of the words of sbrk keeps the layout: top is extended, *)
(* or a new one replaces it.                                               *)
LEMMA GrowTopIsSound ==
  ASSUME NEW H \in SUBSET Int, NEW F, NEW h \in Sound(H, F), NEW m \in Good, NEW size \in Aligned, Brked(h, m, size),
         ~h.aborted => size >= MINSIZE /\ m.brk <= BrkLimit
  PROVE  GrowTop(m, h.brk, size) \in Reach(h, H, F, H)
<1> DEFINE brk == h.brk
           old_size == chunksize(m, m.top)
           old_end == m.top + old_size
           base == IF m.mp.sbrk_base = 0 THEN brk ELSE m.mp.sbrk_base
           g == [m EXCEPT !.system_mem = m.system_mem + size, !.mp.sbrk_base = base]
           aligned == AlignUp(brk, MALLOC_ALIGNMENT)
           short == (aligned - brk) + old_size
           correction == AlignUp(brk + size + short, PageSize) - (brk + size)
           gap == IF old_size = 0 THEN 0 ELSE brk - old_end
           k == GrowTop(m, brk, size)
<1>1. brk \in Aligned /\ brk \in Int /\ size \in Int
  BY SoundIs, SbrkIs
<1>2. /\ m.top = h.top /\ old_size = chunksize(h, h.top) /\ h.top \in Aligned /\ h.top \in Int
      /\ old_size \in Aligned /\ old_size \in Int /\ (~h.aborted => old_size >= 0)
  <2>1. m.top = h.top /\ old_size = chunksize(h, h.top)
    BY DEF Brked, SameLists, chunksize, At
  <2> QED BY <2>1, TopSize
<1>3. g \in Good /\ Counted(m, g)
  <2>1. m.system_mem \in Int /\ m.mp.sbrk_base \in Int
    BY DEF Good, Heaps, Settled
  <2>2. m.system_mem + size \in Int /\ base \in Int
    BY <1>1, <2>1
  <2> HIDE DEF base
  <2>3. TRUE \in BOOLEAN
    OBVIOUS
  <2> QED BY <2>2, <2>3, CountersAre
<1>4. Brked(h, g, size) /\ g.brk = m.brk /\ g.top = h.top /\ m.brk = brk + size
  <2>1. Brked(h, g, size)
    BY <1>1, <1>3, BrkedTwice
  <2> QED BY <1>2, <1>3, <2>1 DEF Counted, Brked, SameLists
<1>5. aligned = brk
  <2>1. brk % 2 = 0
    BY <1>1 DEF Aligned, MALLOC_ALIGNMENT, SIZE_SZ
  <2>2. aligned = ((brk + 2 - 1) \div 2) * 2
    BY DEF AlignUp, MALLOC_ALIGNMENT, SIZE_SZ
  <2> HIDE DEF aligned
  <2> QED BY <1>1, <2>1, <2>2
<1>6. k = IF brk = old_end THEN set_head(g, m.top, size + old_size)
          ELSE IF m.contiguous /\ old_size # 0 /\ brk < old_end THEN Check(g, FALSE)
          ELSE IF ~m.contiguous THEN ReplaceTop(Check(g, brk = aligned), brk, g.brk - brk)
          ELSE AlignTop(g, aligned, gap, correction, Sbrk(g, correction))
  BY DEF GrowTop
<1> HIDE DEF g, k, aligned, old_size, base
<1>7. CASE brk = old_end
  <2>1. brk = h.top + chunksize(h, h.top)
    BY <1>2, <1>7
  <2>2. ~h.aborted => size >= MINSIZE /\ g.brk <= BrkLimit
    BY <1>4
  <2>3. set_head(g, h.top, size + chunksize(h, h.top)) \in Reach(h, H, F, H)
    BY <1>3, <1>4, <2>1, <2>2, TopGrows
  <2> QED BY <1>2, <1>6, <1>7, <2>3 DEF k
<1>8. CASE brk # old_end /\ m.contiguous /\ old_size # 0 /\ brk < old_end
  <2>1. k = Check(g, FALSE)
    BY <1>6, <1>8
  <2>2. k \in Good /\ k.aborted
    <3>1. k \in Good
      BY <1>3, <2>1, CheckIs
    <3> QED BY <2>1, <3>1, <1>3, CheckIs
  <2> QED BY <2>2 DEF Reach, Sound, Onward, k
<1>9. CASE brk # old_end /\ ~(m.contiguous /\ old_size # 0 /\ brk < old_end) /\ ~m.contiguous
  <2> DEFINE x == Check(g, brk = aligned)
  <2>1. k = ReplaceTop(x, brk, g.brk - brk) /\ g.brk - brk = size
    BY <1>1, <1>4, <1>6, <1>9
  <2>2. x = g
    BY <1>5 DEF Check
  <2>3. ReplaceTop(g, brk, size) \in Reach(h, H, F, H)
    BY <1>3, <1>4, TopAtBreak
  <2> QED BY <2>1, <2>2, <2>3 DEF k
<1>10. CASE brk # old_end /\ ~(m.contiguous /\ old_size # 0 /\ brk < old_end) /\ m.contiguous
  <2>1. k = AlignTop(g, brk, gap, correction, Sbrk(g, correction))
    BY <1>5, <1>6, <1>10
  <2>2. gap \in Aligned
    <3>1. old_end \in Aligned
      BY <1>2, EvenSums
    <3> HIDE DEF old_end
    <3> QED BY <1>1, <3>1, EvenSums
  <2>3. correction \in Aligned /\ (~h.aborted => correction >= 0)
    <3> DEFINE e == brk + size + short
    <3>1. short = old_size
      BY <1>1, <1>2, <1>5
    <3> HIDE DEF short
    <3>2. e \in Int /\ brk + size \in Aligned /\ (~h.aborted => e >= brk + size)
      <4>1. brk + size \in Aligned
        BY <1>1, EvenSums
      <4>2. e = brk + size + old_size
        BY <3>1
      <4> HIDE DEF e
      <4> QED BY <1>1, <1>2, <4>1, <4>2
    <3>3. AlignUp(e, PageSize) \in Aligned /\ AlignUp(e, PageSize) >= e /\ AlignUp(e, PageSize) \in Int
      BY <3>2, PageSizes, PageArithmetic
    <3>4. correction = AlignUp(e, PageSize) - (brk + size)
      OBVIOUS
    <3> HIDE DEF correction, e
    <3>5. correction \in Aligned
      BY <3>2, <3>3, <3>4, EvenSums
    <3> QED BY <1>1, <3>2, <3>3, <3>4, <3>5
  <2> HIDE DEF gap, correction
  <2>4. ~h.aborted => size >= MINSIZE /\ g.brk <= BrkLimit /\ correction >= 0
    BY <1>4, <2>3
  <2>5. AlignTop(g, brk, gap, correction, Sbrk(g, correction)) \in Reach(h, H, F, H)
    BY <1>3, <1>4, <2>2, <2>3, <2>4, AlignTopIsSound
  <2> QED BY <2>1, <2>5 DEF k
<1> QED BY <1>7, <1>8, <1>9, <1>10

(* mmap: a new mapping, of words that are nobody's as yet.                 *)
Mapped(h, g, a, n) ==
  /\ a \in Int /\ a >= MmapFloor
  /\ \A r \in h.maps : a + n <= r[1] \/ r[1] + r[2] <= a
  /\ g.mem = h.mem /\ SameLists(h, g) /\ g.brk = h.brk /\ g.maps = h.maps \union {<<a, n>>} /\ g.aborted = h.aborted

(* mmap: either it fails and nothing changes, or a mapping of n words at a *)
(* page below MmapTop is new.                                              *)
LEMMA MmapIs ==
  ASSUME NEW h \in Good, NEW n \in Int
  PROVE  /\ Mmap(h, n).at = Failed => Mmap(h, n).h = h
         /\ Mmap(h, n).at # Failed => /\ Mmap(h, n).at \in Aligned /\ Mmap(h, n).h \in Good
                                      /\ Mapped(h, Mmap(h, n).h, Mmap(h, n).at, n)
                                      /\ Mmap(h, n).at % PageSize = 0 /\ Mmap(h, n).at <= MmapTop - n
<1>1. h \in Heaps
  BY DEF Good
<1>2. CASE Room(h, n) = {}
  BY <1>2 DEF Mmap
<1>3. CASE Room(h, n) # {}
  <2> DEFINE R == Room(h, n)
             a == Max(R)
  <2>1. R \in SUBSET Int /\ MmapTop - n \in Int /\ \A x \in R : x <= MmapTop - n
    BY PtAssumption DEF Room
  <2>2. a \in R
    <3> HIDE DEF R
    <3> QED BY <1>3, <2>1, MaxProperties DEF R
  <2>3. \A x \in R : x \in Int /\ x >= MmapFloor /\ x % PageSize = 0 /\ \A r \in h.maps : x + n <= r[1] \/ r[1] + r[2] <= x
    BY <2>1, PtAssumption DEF Room
  <2> DEFINE w == [h EXCEPT !.maps = h.maps \union {<<a, n>>}]
  <2>4. Mmap(h, n) = [h |-> w, at |-> a]
    BY <1>3 DEF Mmap
  <2> HIDE DEF R
  <2>5. a \in Int /\ a >= MmapFloor /\ a % PageSize = 0 /\ a <= MmapTop - n /\ \A r \in h.maps : a + n <= r[1] \/ r[1] + r[2] <= a
    BY <2>1, <2>2, <2>3
  <2> HIDE DEF a
  <2>6. Mapped(h, w, a, n)
    BY <1>1, <2>5 DEF Heaps, Mapped, SameLists
  <2>7. a # Failed
    BY <2>5, PtAssumption DEF Failed
  <2> HIDE DEF w
  <2>8. Mmap(h, n).h = w /\ Mmap(h, n).at = a
    BY <2>4
  <2>9. w \in Good /\ a \in Aligned
    BY <2>7, <2>8, MmapKeeps
  <2> QED BY <2>5, <2>6, <2>7, <2>8, <2>9
<1> QED BY <1>2, <1>3

(* A new mapping: its words are of others for now, and the heap may claim  *)
(* them.                                                                   *)
LEMMA MapMoved ==
  ASSUME NEW h, NEW g, NEW H, NEW F, NEW a, NEW n \in Int, Layout(h, H, F), Mapped(h, g, a, n), n > 0
  PROVE  /\ Layout(g, H, F \union Region(a, n)) /\ Shape(g) = Shape(h)
         /\ Claims(g, F \union Region(a, n), F, a, n)
<1> DEFINE s == Shape(h)
           R == Region(a, n)
           X == Region(FirstBrk, h.brk - FirstBrk)
           M == MapWords(h.maps)
           maps == h.maps \union {<<a, n>>}
           W == GivenTo(h.brk, h.maps, F)
<1>1. Shape(g) = s
  BY DEF Shape, Mapped
<1>2. Sized(s) /\ Tiles(s, W) /\ Ends(s, h.top) /\ Kernel(s, h.brk, h.maps, F)
      /\ Placed(s, Where(h, H)) /\ Distinct(h) /\ CacheIsOwned(h) /\ ~h.needless
  BY DEF Layout, Ground
<1>3. /\ h.brk \in Int /\ FirstBrk <= h.brk /\ h.brk <= BrkLimit
      /\ F \subseteq X \union M
      /\ \A r \in h.maps : r[1] \in Int /\ r[2] \in Int /\ r[1] >= MmapFloor /\ r[2] > 0
      /\ \A r, q \in h.maps : \A x \in Int : x \in Region(r[1], r[2]) /\ x \in Region(q[1], q[2]) => r = q
      /\ \A p \in DOMAIN s : s[p].mapped => <<p - s[p].off, s[p].off + s[p].size>> \in h.maps
  BY <1>2 DEF Kernel
<1>4. /\ a \in Int /\ a >= MmapFloor /\ \A r \in h.maps : a + n <= r[1] \/ r[1] + r[2] <= a
      /\ g.maps = maps /\ g.brk = h.brk
  BY DEF Mapped
<1>5. MapWords(maps) = M \union R
  <2> SUFFICES ASSUME NEW x PROVE x \in MapWords(maps) <=> x \in M \/ x \in R
    OBVIOUS
  <2>1. x \in MapWords(maps) <=> \E r \in maps : x \in Region(r[1], r[2])
    BY DEF MapWords
  <2>2. x \in M <=> \E r \in h.maps : x \in Region(r[1], r[2])
    BY DEF MapWords
  <2>3. <<a, n>>[1] = a /\ <<a, n>>[2] = n
    OBVIOUS
  <2> HIDE DEF M, R
  <2> QED BY <2>1, <2>2, <2>3 DEF R
<1>6. R \cap X = {}
  <2>1. FirstBrk \in Int /\ BrkLimit \in Int /\ MmapFloor \in Int /\ BrkLimit <= MmapFloor
    BY PtAssumption, PtHeapAssumption
  <2> QED BY <1>3, <1>4, <2>1 DEF Region
<1>7. \A r \in h.maps : Region(r[1], r[2]) \cap R = {}
  <2> SUFFICES ASSUME NEW r \in h.maps PROVE Region(r[1], r[2]) \cap R = {}
    OBVIOUS
  <2>1. r[1] \in Int /\ r[2] \in Int /\ (a + n <= r[1] \/ r[1] + r[2] <= a)
    BY <1>3, <1>4
  <2> QED BY <1>4, <2>1 DEF Region
<1>8. R \cap M = {}
  BY <1>7 DEF MapWords
<1>9. R \cap F = {}
  BY <1>3, <1>6, <1>8
<1>10. /\ GivenTo(g.brk, g.maps, F) = W \union R
       /\ GivenTo(g.brk, g.maps, F \union R) = W
       /\ W \cap R = {}
  <2>1. W = (X \union M) \ F
    BY DEF GivenTo
  <2>2. GivenTo(g.brk, g.maps, F) = (X \union (M \union R)) \ F /\ GivenTo(g.brk, g.maps, F \union R) = (X \union (M \union R)) \ (F \union R)
    BY <1>4, <1>5 DEF GivenTo
  <2> HIDE DEF X, M, R, W
  <2> QED BY <1>6, <1>8, <1>9, <2>1, <2>2
<1>11. ASSUME NEW r \in maps PROVE r[1] \in Int /\ r[2] \in Int /\ r[1] >= MmapFloor /\ r[2] > 0
  <2>1. CASE r \in h.maps
    BY <1>3, <2>1
  <2>2. CASE r = <<a, n>>
    BY <1>4, <2>2
  <2> QED BY <2>1, <2>2
<1>12. ASSUME NEW r \in maps, NEW q \in maps, NEW x \in Int, x \in Region(r[1], r[2]), x \in Region(q[1], q[2]) PROVE r = q
  <2>1. CASE r \in h.maps /\ q \in h.maps
    BY <1>3, <1>12, <2>1
  <2>2. CASE r = <<a, n>> /\ q = <<a, n>>
    BY <2>2
  <2>3. CASE r = <<a, n>> /\ q \in h.maps
    <3>1. Region(r[1], r[2]) = R
      BY <2>3
    <3> HIDE DEF R
    <3> QED BY <1>7, <1>12, <2>3, <3>1
  <2>4. CASE q = <<a, n>> /\ r \in h.maps
    <3>1. Region(q[1], q[2]) = R
      BY <2>4
    <3> HIDE DEF R
    <3> QED BY <1>7, <1>12, <2>4, <3>1
  <2> QED BY <2>1, <2>2, <2>3, <2>4
<1>13. ASSUME NEW G, G \subseteq (X \union M) \union R PROVE Kernel(s, g.brk, g.maps, G)
  <2>1. G \subseteq Region(FirstBrk, g.brk - FirstBrk) \union MapWords(g.maps)
    BY <1>4, <1>5, <1>13
  <2>2. \A p \in DOMAIN s : s[p].mapped => <<p - s[p].off, s[p].off + s[p].size>> \in maps
    BY <1>3
  <2> HIDE DEF X, M, R, maps, s
  <2>3. /\ \A r \in maps : r[1] \in Int /\ r[2] \in Int /\ r[1] >= MmapFloor /\ r[2] > 0
        /\ \A r, q \in maps : \A x \in Int : x \in Region(r[1], r[2]) /\ x \in Region(q[1], q[2]) => r = q
    BY <1>11, <1>12
  <2> QED BY <1>3, <1>4, <2>1, <2>2, <2>3 DEF Kernel
<1>14. Kernel(s, g.brk, g.maps, F) /\ Kernel(s, g.brk, g.maps, F \union R)
  <2>1. F \subseteq (X \union M) \union R /\ F \union R \subseteq (X \union M) \union R
    BY <1>3
  <2> HIDE DEF X, M, R, s
  <2> QED BY <1>13, <2>1
<1>15. Where(g, H) = Where(h, H) /\ Distinct(g) /\ CacheIsOwned(g) /\ ~g.needless /\ g.top = h.top
  BY <1>2, SameListsFrame DEF Mapped, SameLists
<1> HIDE DEF s, R, W
<1>16. Layout(g, H, F \union R)
  BY <1>1, <1>2, <1>10, <1>14, <1>15 DEF Layout, Ground
<1>17. Claims(g, F \union R, F, a, n)
  BY <1>1, <1>4, <1>10, <1>14 DEF Claims, R
<1> QED BY <1>1, <1>16, <1>17 DEF s, R

(* So for a heap in which no check has failed. *)
LEMMA MapReaches ==
  ASSUME NEW H \in SUBSET Int, NEW F, NEW h \in Sound(H, F), NEW g \in Good, NEW a, NEW n \in Int, Mapped(h, g, a, n),
         ~h.aborted => n > 0
  PROVE  /\ g \in Reach(h, H, F \union Region(a, n), H) /\ g \in Sound(H, F \union Region(a, n))
         /\ ~h.aborted => Claims(g, F \union Region(a, n), F, a, n)
<1>1. ~h.aborted => Layout(h, H, F)
  BY SoundIs
<1>2. ~h.aborted => /\ Layout(g, H, F \union Region(a, n)) /\ Shape(g) = Shape(h)
                    /\ Claims(g, F \union Region(a, n), F, a, n)
  BY <1>1, MapMoved
<1>3. g.aborted = h.aborted /\ g.tcache = h.tcache
  BY DEF Mapped, SameLists
<1> QED BY <1>2, <1>3 DEF Reach, Sound, Onward

(* Where sbrk fails, top is a mapping. *)
LEMMA MapTopIsSound ==
  ASSUME NEW H \in SUBSET Int, NEW F, NEW h \in Sound(H, F), NEW size \in Aligned, ~h.aborted => size >= MINSIZE
  PROVE  MapTop(h, size, Mmap(h, size)) \in Reach(h, H, F, H)
<1> DEFINE m == Mmap(h, size)
           base == IF m.h.mp.sbrk_base = 0 THEN m.at ELSE m.h.mp.sbrk_base
           g == [m.h EXCEPT !.contiguous = FALSE, !.system_mem = m.h.system_mem + size, !.mp.sbrk_base = base]
           G == F \union Region(m.at, size)
<1>1. h \in Good /\ size \in Int
  BY SoundIs DEF Aligned
<1>2. CASE m.at = Failed
  <2>1. MapTop(h, size, m) = h
    BY <1>2 DEF MapTop
  <2>2. Counted(h, h)
    BY DEF Counted, SameLists
  <2>3. h \in Reach(h, H, F, H)
    BY <1>1, <2>2, CountersReach
  <2> QED BY <2>1, <2>3
<1>3. CASE m.at # Failed
  <2>1. m.at \in Aligned /\ m.h \in Good /\ Mapped(h, m.h, m.at, size)
    BY <1>1, <1>3, MmapIs
  <2>2. MapTop(h, size, m) = ReplaceTop(g, m.at, size)
    BY <1>3 DEF MapTop
  <2> HIDE DEF m
  <2>3. base \in Int
    BY <2>1, GoodBins DEF Settled, Aligned
  <2>4. m.h.system_mem + size \in Int
    <3>1. m.h.system_mem \in Int
      BY <2>1 DEF Good, Heaps
    <3> QED BY <1>1, <3>1
  <2> HIDE DEF base
  <2>5. g \in Good /\ Counted(m.h, g)
    <3>1. FALSE \in BOOLEAN
      OBVIOUS
    <3> QED BY <2>1, <2>3, <2>4, <3>1, CountersAre
  <2> HIDE DEF g
  <2>6. Mapped(h, g, m.at, size) /\ g.aborted = h.aborted
    BY <2>1, <2>5 DEF Mapped, Counted, SameLists
  <2>7. ~h.aborted => size > 0
    BY <1>1 DEF MINSIZE, SIZE_SZ
  <2>8. g \in Reach(h, H, G, H) /\ g \in Sound(H, G) /\ (~h.aborted => Claims(g, G, F, m.at, size))
    BY <1>1, <2>5, <2>6, <2>7, MapReaches
  <2> HIDE DEF G
  <2>9. ~g.aborted => size >= MINSIZE /\ Claims(g, G, F, m.at, size)
    BY <2>6, <2>8
  <2>10. ReplaceTop(g, m.at, size) \in Reach(g, H, F, H)
    BY <2>1, <2>8, <2>9, ReplaceTopIsSound
  <2>11. ReplaceTop(g, m.at, size) \in Reach(h, H, F, H)
    BY <2>8, <2>10, ReachTwice
  <2> QED BY <2>2, <2>11 DEF m
<1> QED BY <1>2, <1>3

(* The peak of the memory is a number of the statistics. *)
LEMMA PeakIsCounted ==
  ASSUME NEW h \in Good
  PROVE  WithPeak(h) \in Good /\ Counted(h, WithPeak(h))
<1>1. WithPeak(h) \in Good
  BY PeakKeeps
<1>2. Counted(h, WithPeak(h))
  <2> DEFINE n == Max({h.max_system_mem, h.system_mem})
  <2>1. WithPeak(h) = [h EXCEPT !.max_system_mem = n]
    BY DEF WithPeak
  <2> HIDE DEF n
  <2>2. h \in Heaps
    BY DEF Good
  <2> QED BY <2>1, <2>2 DEF Heaps, Counted, SameLists
<1> QED BY <1>1, <1>2

(* A whole number of pages that is positive has room for a chunk. *)
LEMMA WholePages ==
  ASSUME NEW n \in Int, n > 0
  PROVE  AlignUp(n, PageSize) >= MINSIZE
<1> DEFINE k == (n + PageSize - 1) \div PageSize
<1>1. PageSize \in Int /\ PageSize > 6
  BY PtAssumption DEF StructSize, SIZE_SZ
<1>2. k \in Int /\ AlignUp(n, PageSize) = k * PageSize
  BY <1>1 DEF AlignUp
<1>3. AlignUp(n, PageSize) >= n
  BY PageArithmetic
<1> HIDE DEF k
<1>4. k > 0
  <2>1. ASSUME k <= 0 PROVE k * PageSize <= 0
    BY <1>1, <1>2, <2>1, SMTT(30)
  <2>2. ~(k * PageSize <= 0)
    BY <1>1, <1>2, <1>3
  <2> QED BY <1>2, <2>1, <2>2
<1>5. k * PageSize >= PageSize
  BY <1>1, <1>2, <1>4, SMTT(30)
<1> QED BY <1>1, <1>2, <1>5 DEF MINSIZE, SIZE_SZ

(* sysmalloc's ways to more top, by sbrk, or by mmap where sbrk fails,     *)
(* keep the layout and every chunk in hand.                                *)
LEMMA MoreTopIsSound ==
  ASSUME NEW H \in SUBSET Int, NEW F, NEW h \in Sound(H, F), NEW nb \in Aligned, nb >= MINSIZE,
         ~h.aborted => chunksize(h, h.top) < nb + MINSIZE
  PROVE  MoreTop(h, nb) \in Reach(h, H, F, H)
<1> DEFINE old_size == IF h.contiguous THEN chunksize(h, h.top) ELSE 0
           need == (nb + h.mp.top_pad + MINSIZE) - old_size
           size == AlignUp(need, PageSize)
           more == Sbrk(h, size)
           backup == Max({AlignUp(size + old_size, PageSize), MmapAsMorecoreSize})
           g == TopFrom(h, more, size, backup)
<1>0. h \in Good
  BY SoundIs
<1>1. old_size \in Aligned /\ old_size \in Int /\ (~h.aborted => old_size >= 0 /\ old_size < nb + MINSIZE)
  <2>1. chunksize(h, h.top) \in Aligned /\ chunksize(h, h.top) \in Int /\ (~h.aborted => chunksize(h, h.top) >= 0)
    BY TopSize
  <2>2. 0 \in Aligned
    BY EvenSums
  <2>3. nb \in Int
    BY DEF Aligned
  <2> QED BY <2>1, <2>2, <2>3 DEF MINSIZE, SIZE_SZ
<1> HIDE DEF old_size
<1>2. need \in Int /\ (~h.aborted => need > 0)
  <2>1. nb \in Int /\ h.mp.top_pad \in Int /\ h.mp.top_pad >= 0 /\ MINSIZE = 4
    BY <1>0, GoodBins DEF Settled, Aligned, MINSIZE, SIZE_SZ
  <2> QED BY <1>1, <2>1
<1> HIDE DEF need
<1>3. size \in Aligned /\ size \in Int /\ (~h.aborted => size >= MINSIZE)
  <2>1. size \in Aligned
    BY <1>2, PageSizes
  <2> QED BY <1>2, <2>1, WholePages DEF Aligned
<1> HIDE DEF size
<1>4. backup \in Aligned /\ (~h.aborted => backup >= MINSIZE)
  <2> DEFINE a == AlignUp(size + old_size, PageSize)
  <2>1. a \in Aligned /\ a \in Int
    BY <1>1, <1>3, PageSizes DEF Aligned
  <2>2. MmapAsMorecoreSize \in Aligned /\ MmapAsMorecoreSize \in Int
    BY PtAssumption, PageAligned
  <2>3. ~h.aborted => a >= MINSIZE
    <3>1. size + old_size \in Int
      BY <1>1, <1>3
    <3>2. ~h.aborted => size + old_size > 0
      BY <1>1, <1>3 DEF MINSIZE, SIZE_SZ
    <3> QED BY <3>1, <3>2, WholePages
  <2> HIDE DEF a
  <2>4. backup \in {a, MmapAsMorecoreSize} /\ backup >= a /\ backup \in Int
    <3>1. backup = Max({a, MmapAsMorecoreSize})
      BY DEF a
    <3> HIDE DEF backup
    <3> QED BY <2>1, <2>2, <3>1, SmallerOfTwo
  <2> HIDE DEF backup
  <2>5. backup \in Aligned
    BY <2>1, <2>2, <2>4
  <2> QED BY <2>1, <2>3, <2>4, <2>5 DEF MINSIZE, SIZE_SZ
<1> HIDE DEF backup
<1>5. g \in Reach(h, H, F, H)
  <2>1. CASE more.brk = Failed
    <3>1. g = MapTop(h, backup, Mmap(h, backup))
      BY <2>1 DEF TopFrom
    <3> QED BY <1>4, <3>1, MapTopIsSound
  <2>2. CASE more.brk # Failed
    <3>1. g = GrowTop(more.h, more.brk, size)
      BY <2>2 DEF TopFrom
    <3>2. more.brk = h.brk /\ h.brk + size <= BrkLimit /\ Brked(h, more.h, size) /\ more.h \in Good
      BY <1>0, <1>3, <2>2, SbrkIs
    <3>3. more.h.brk <= BrkLimit
      BY <3>2 DEF Brked
    <3> HIDE DEF more
    <3>4. GrowTop(more.h, h.brk, size) \in Reach(h, H, F, H)
      BY <1>3, <3>2, <3>3, GrowTopIsSound
    <3> QED BY <3>1, <3>2, <3>4 DEF more
  <2> QED BY <2>1, <2>2
<1> HIDE DEF g
<1>6. g \in Sound(H, F) /\ g \in Good
  BY <1>5, ReachIs
<1>7. WithPeak(g) \in Reach(g, H, F, H)
  BY <1>6, PeakIsCounted, CountersReach
<1>8. WithPeak(g) \in Reach(h, H, F, H)
  BY <1>5, <1>7, ReachTwice
<1> QED BY <1>8 DEF MoreTop, g, size, need, old_size, more, backup

(* The chunk of a mapping of n words, o of them before it. *)
Mapping(n, o) == [size |-> n - o, mapped |-> TRUE, off |-> o]

(* The words of a mapping become a chunk, which is in hand. *)
TakesMap(h, g, G, F, a, n, o) ==
  /\ Claims(h, G, F, a, n) /\ <<a, n>> \in h.maps /\ o \in Int /\ o >= 0 /\ o < n
  /\ Shape(g) = Upd(Shape(h), a + o, Mapping(n, o))
  /\ SameLists(h, g) /\ g.brk = h.brk /\ g.maps = h.maps

(* One more chunk is in hand, and those that were are as they were. *)
OneMore(h, g, H, F, p, v) ==
  /\ Layout(g, H \union {p}, F) /\ p \notin DOMAIN Shape(h) /\ p \notin H /\ p \in Int
  /\ \A q \in H : q \in DOMAIN Shape(h) => q \in DOMAIN Shape(g) /\ Shape(g)[q] = Shape(h)[q]
  /\ p \in DOMAIN Shape(g) /\ Shape(g)[p] = v

(* The mapping becomes one more chunk in hand. *)
LEMMA MapTaken ==
  ASSUME NEW h, NEW g, NEW H \in SUBSET Int, NEW G, NEW F, NEW a, NEW n, NEW o, Layout(h, H, G), TakesMap(h, g, G, F, a, n, o)
  PROVE  OneMore(h, g, H, F, a + o, Mapping(n, o))
<1> DEFINE s == Shape(h)
           r == Shape(g)
           p == a + o
           K == H \union {p}
           E == Where(h, H)
           D == Where(g, K)
           W == GivenTo(h.brk, h.maps, G)
           C == {p}
<1>1. /\ a \in Int /\ n \in Int /\ n > 0 /\ o \in Int /\ o >= 0 /\ o < n /\ p \in Int
      /\ Kernel(s, h.brk, h.maps, F) /\ GivenTo(h.brk, h.maps, F) = W \union Region(a, n) /\ W \cap Region(a, n) = {}
      /\ <<a, n>> \in h.maps /\ r = Upd(s, p, Mapping(n, o)) /\ SameLists(h, g) /\ g.brk = h.brk /\ g.maps = h.maps
  BY DEF TakesMap, Claims
<1>2. Ground(s, h.top, h.brk, h.maps, G) /\ Distinct(h) /\ CacheIsOwned(h) /\ Placed(s, E)
  BY DEF Layout
<1>3. Sized(s) /\ Tiles(s, W) /\ Ends(s, h.top)
  BY <1>2 DEF Ground
<1>4. p \in Region(a, n) /\ p \notin W
  BY <1>1 DEF Region
<1>5. p \notin DOMAIN s
  <2>1. p \in DOMAIN s => Has(s, p, p)
    BY <1>1, <1>3 DEF Sized, Has
  <2> QED BY <1>1, <1>3, <1>4, <2>1 DEF Tiles
<1>6. Nowhere(E, p)
  BY <1>1, <1>5, NewIsNowhere
<1>7. DOMAIN r = DOMAIN s \union {p} /\ r[p] = Mapping(n, o) /\ ButAt(r, s, p) /\ \A x \in DOMAIN s : r[x] = s[x]
  BY <1>1, <1>5 DEF Upd, ButAt
<1>8. Words(p, r[p]) = Region(a, n)
  <2>1. r[p].off = o /\ r[p].size = n - o
    BY <1>7 DEF Mapping
  <2>2. p - o = a /\ p + (n - o) = a + n
    BY <1>1
  <2> HIDE DEF p, r
  <2> QED BY <1>1, <2>1, <2>2 DEF Words, Region
<1>9. Sized(r) /\ Tiles(r, W \union Region(a, n)) /\ Ends(r, h.top)
  <2>1. r[p].size \in Int /\ r[p].size > 0 /\ r[p].off \in Int /\ r[p].off >= 0 /\ r[p].mapped
    BY <1>1, <1>7 DEF Mapping
  <2> HIDE DEF p, r, s, W
  <2>2. Words(p, r[p]) \cap W = {}
    BY <1>1, <1>8
  <2>3. Sized(r) /\ Tiles(r, W \union Words(p, r[p])) /\ Ends(r, h.top)
    BY <1>1, <1>3, <1>7, <2>1, <2>2, Lay
  <2> QED BY <1>8, <2>3
<1>10. Kernel(r, h.brk, h.maps, F)
  <2>1. ASSUME NEW x \in DOMAIN r, r[x].mapped PROVE <<x - r[x].off, r[x].off + r[x].size>> \in h.maps
    <3>1. CASE x = p
      <4>1. r[p].off = o /\ r[p].size = n - o
        BY <1>7 DEF Mapping
      <4>2. p - o = a /\ o + (n - o) = n
        BY <1>1
      <4> HIDE DEF p, r
      <4> QED BY <1>1, <3>1, <4>1, <4>2
    <3>2. CASE x # p
      <4>1. x \in DOMAIN s /\ r[x] = s[x]
        BY <1>7, <3>2
      <4> HIDE DEF r, s
      <4> QED BY <1>1, <2>1, <4>1 DEF Kernel
    <3> QED BY <3>1, <3>2
  <2> HIDE DEF r, s
  <2> QED BY <1>1, <2>1 DEF Kernel
<1>11. Ground(r, g.top, g.brk, g.maps, F)
  <2>1. g.top = h.top
    BY <1>1 DEF SameLists
  <2> HIDE DEF r, s, W
  <2> QED BY <1>1, <1>9, <1>10, <2>1 DEF Ground
<1>12. Where(g, H) = E /\ Distinct(g) /\ CacheIsOwned(g)
  BY <1>1, <1>2, SameListsFrame
<1>13. \A x \in Int : D[x] = IF x = Hand THEN K ELSE E[x]
  <2>1. \A x \in Int : x # Hand => D[x] = Where(g, H)[x]
    BY DEF Where
  <2>2. D[Hand] = K
    BY WhereIs
  <2> HIDE DEF D, E
  <2> QED BY <1>12, <2>1, <2>2
<1>14. E[Hand] = H
  BY WhereIs
<1>15. Besides(h, g, H, K, C)
  <2> SUFFICES ASSUME NEW x \in Int \ C
               PROVE  /\ x \in DOMAIN r <=> x \in DOMAIN s
                      /\ x \in DOMAIN s => r[x] = s[x]
                      /\ \A y \in Int : x \in D[y] <=> x \in E[y]
    BY DEF Besides
  <2>1. (x \in DOMAIN r <=> x \in DOMAIN s) /\ (x \in DOMAIN s => r[x] = s[x])
    BY <1>7
  <2>2. x \in K <=> x \in H
    OBVIOUS
  <2> HIDE DEF D, E, K
  <2> QED BY <1>13, <1>14, <2>1, <2>2
<1>16. Only(D, p, Hand)
  <2>1. p \in K
    OBVIOUS
  <2> HIDE DEF D, E, K, p
  <2> QED BY <1>6, <1>13, <2>1 DEF Only, Nowhere
<1>17. OkAt(r, D, p)
  <2>1. p \in DOMAIN r /\ r[p].mapped
    BY <1>7 DEF Mapping
  <2>0. Suits(Hand, r[p])
    BY <2>1, Elsewhere DEF Suits, Hand
  <2> HIDE DEF r, D, p
  <2> QED BY <1>16, <2>0, <2>1, OkOnly, Elsewhere
<1>18. \A x \in C : x \in Int => OkAt(r, D, x)
  BY <1>17
<1>19. g.needless = h.needless
  BY <1>1 DEF SameLists
<1> HIDE DEF C
<1>20. Layout(g, K, F)
  BY <1>2, <1>11, <1>12, <1>15, <1>18, <1>19, CarvedAnew
<1>21. p \notin H
  BY <1>6, <1>14, Elsewhere DEF Nowhere
<1> QED BY <1>1, <1>5, <1>7, <1>20, <1>21 DEF OneMore

(* What malloc answers for a chunk of nb words: NULL, or one more chunk in *)
(* hand, which is large enough; a mapping has a word less for its user.    *)
Fits(h, p, nb) ==
  /\ p \in DOMAIN Shape(h) /\ Shape(h)[p].size >= nb
  /\ Shape(h)[p].mapped => Shape(h)[p].size >= nb + 1

Gives(h, H, F, nb) ==
  {a \in [h : Good, p : Aligned \union {NULL}] :
     /\ a.h \in Reach(h, H \union ({a.p} \ {NULL}), F, H)
     /\ ~a.h.aborted /\ a.p # NULL => a.p \notin H /\ Fits(a.h, a.p, nb)}

(* An answer of NULL. *)
LEMMA GivesNothing ==
  ASSUME NEW h, NEW H, NEW F, NEW nb, NEW g \in Reach(h, H, F, H)
  PROVE  Answer(g, NULL) \in Gives(h, H, F, nb)
<1>1. g \in Good
  BY ReachIs
<1>2. Answer(g, NULL) = [h |-> g, p |-> NULL]
  BY DEF Answer
<1> DEFINE b == Answer(g, NULL)
<1>3. b \in [h : Good, p : Aligned \union {NULL}] /\ b.h = g /\ b.p = NULL
  BY <1>1, <1>2
<1> HIDE DEF b
<1>4. H \union ({b.p} \ {NULL}) = H
  BY <1>3
<1>5. b \in Gives(h, H, F, nb)
  BY <1>3, <1>4 DEF Gives
<1> QED BY <1>5 DEF b

(* An answer of a chunk that fits. *)
LEMMA GivesThis ==
  ASSUME NEW h, NEW H, NEW F, NEW nb, NEW p \in Aligned, NEW g \in Reach(h, H \union {p}, F, H),
         ~g.aborted => p \notin H /\ Fits(g, p, nb)
  PROVE  Answer(g, p) \in Gives(h, H, F, nb)
<1>1. g \in Good
  BY ReachIs
<1>2. Answer(g, p) = [h |-> g, p |-> p]
  BY DEF Answer
<1>3. p # NULL
  BY PtAssumption DEF Aligned
<1> DEFINE b == Answer(g, p)
<1>4. b \in [h : Good, p : Aligned \union {NULL}] /\ b.h = g /\ b.p = p
  BY <1>1, <1>2
<1> HIDE DEF b
<1>5. {b.p} \ {NULL} = {p}
  BY <1>3, <1>4
<1>6. b \in Gives(h, H, F, nb)
  BY <1>4, <1>5 DEF Gives
<1> QED BY <1>6 DEF b

(* What an answer says. *)
LEMMA GivesIs ==
  ASSUME NEW h, NEW H, NEW F, NEW nb, NEW a \in Gives(h, H, F, nb)
  PROVE  /\ a.h \in Good /\ a.p \in Aligned \union {NULL} /\ a = Answer(a.h, a.p)
         /\ a.p = NULL => a.h \in Reach(h, H, F, H)
         /\ a.p # NULL => a.p \in Aligned /\ a.p \in Int /\ a.h \in Reach(h, H \union {a.p}, F, H)
         /\ ~a.h.aborted /\ a.p # NULL => a.p \notin H /\ Fits(a.h, a.p, nb)
<1>1. /\ a \in [h : Good, p : Aligned \union {NULL}]
      /\ a.h \in Reach(h, H \union ({a.p} \ {NULL}), F, H)
      /\ ~a.h.aborted /\ a.p # NULL => a.p \notin H /\ Fits(a.h, a.p, nb)
  BY DEF Gives
<1>2. a = [h |-> a.h, p |-> a.p] /\ a.h \in Good /\ a.p \in Aligned \union {NULL}
  BY <1>1
<1>3. a.p = NULL => H \union ({a.p} \ {NULL}) = H
  OBVIOUS
<1>4. a.p # NULL => {a.p} \ {NULL} = {a.p}
  OBVIOUS
<1> QED BY <1>1, <1>2, <1>3, <1>4 DEF Answer, Aligned

(* An answer after a step that kept the chunks in hand. *)
LEMMA GivesOnward ==
  ASSUME NEW h, NEW H, NEW F, NEW nb, NEW g \in Reach(h, H, F, H), NEW a \in Gives(g, H, F, nb)
  PROVE  a \in Gives(h, H, F, nb)
<1>1. /\ a \in [h : Good, p : Aligned \union {NULL}]
      /\ a.h \in Reach(g, H \union ({a.p} \ {NULL}), F, H)
      /\ ~a.h.aborted /\ a.p # NULL => a.p \notin H /\ Fits(a.h, a.p, nb)
  BY DEF Gives
<1>2. a.h \in Reach(h, H \union ({a.p} \ {NULL}), F, H)
  BY <1>1, ReachTwice
<1> QED BY <1>1, <1>2 DEF Gives

(* A request that is a mapping of its own. *)
LEMMA MmapChunkIsSound ==
  ASSUME NEW H \in SUBSET Int, NEW F, NEW h \in Sound(H, F), NEW nb \in Aligned, nb >= MINSIZE
  PROVE  MmapChunk(h, nb) \in Gives(h, H, F, nb)
<1> DEFINE size == AlignUp(nb + SIZE_SZ, PageSize)
           m == Mmap(h, size)
           a == m.at
           head == [NoHead EXCEPT !.size = size, !.mmapped = TRUE]
           g == Put(m.h, a, head)
           k == [g EXCEPT !.mp.n_mmaps = g.mp.n_mmaps + 1, !.mp.mmapped_mem = g.mp.mmapped_mem + size]
           G == F \union Region(a, size)
<1>0. h \in Good /\ nb \in Int
  BY SoundIs DEF Aligned
<1>1. size \in Aligned /\ size \in Int /\ size >= nb + 1 /\ size > 0
  BY <1>0, PageSizes, PageArithmetic DEF Aligned, SIZE_SZ, MINSIZE
<1> HIDE DEF size
<1>2. MmapChunk(h, nb) = IF a = Failed THEN Answer(h, NULL) ELSE Answer(k, a)
  BY DEF MmapChunk, size, Put
<1>3. CASE a = Failed
  <2>1. h \in Reach(h, H, F, H)
    BY Stay
  <2> QED BY <1>2, <1>3, <2>1, GivesNothing
<1>4. CASE a # Failed
  <2>1. a \in Aligned /\ m.h \in Good /\ Mapped(h, m.h, a, size)
    BY <1>0, <1>1, <1>4, MmapIs
  <2> HIDE DEF m
  <2>2. m.h \in Reach(h, H, G, H) /\ m.h \in Sound(H, G) /\ (~h.aborted => Claims(m.h, G, F, a, size))
    BY <1>1, <2>1, MapReaches
  <2> HIDE DEF G
  <2>3. head \in Heads /\ ShapeOf(head) = Mapping(size, 0)
    <3>1. head \in Heads
      BY <1>1, EvenSums DEF NoHead, Heads
    <3>2. size - 0 = size
      BY <1>1
    <3>3. head.prev_size = 0 /\ head.size = size /\ head.mmapped = TRUE
      BY DEF NoHead
    <3> HIDE DEF head
    <3> QED BY <3>1, <3>2, <3>3 DEF ShapeOf, Mapping
  <2>4. g \in Good
    BY <2>1, <2>3, PutKeeps
  <2>5. Shape(g) = Upd(Shape(m.h), a, Mapping(size, 0))
    <3>1. m.h \in Heaps
      BY <2>1 DEF Good
    <3> HIDE DEF head, a
    <3>2. Shape(Put(m.h, a, head)) = Upd(Shape(m.h), a, ShapeOf(head))
      BY <3>1, ShapePut
    <3> QED BY <2>3, <3>2
  <2>6. HeadsOnly(m.h, g)
    BY <2>1 DEF Put, HeadsOnly, Good, Heaps
  <2> HIDE DEF g
  <2>7. k \in Good
    <3>1. g.mp.n_mmaps \in Int /\ g.mp.mmapped_mem \in Int
      BY <2>4, GoodBins DEF Settled
    <3>2. g.mp.n_mmaps + 1 \in Int /\ g.mp.mmapped_mem + size \in Int
      BY <1>1, <3>1
    <3> QED BY <2>4, <3>2, CountersKeep
  <2>8. k.mem = g.mem /\ HeadsOnly(m.h, k) /\ Shape(k) = Shape(g)
    <3>1. k.mem = g.mem /\ HeadsOnly(m.h, k)
      BY <2>4, <2>6 DEF HeadsOnly, Good, Heaps
    <3> QED BY <3>1 DEF Shape
  <2> HIDE DEF k
  <2>9. k.aborted = m.h.aborted /\ k.tcache = m.h.tcache /\ SameLists(m.h, k) /\ k.brk = m.h.brk /\ k.maps = m.h.maps
    BY <2>8 DEF HeadsOnly, SameLists
  <2>10. m.h.aborted = h.aborted
    BY <2>1 DEF Mapped
  <2>11. ASSUME ~h.aborted
         PROVE  /\ Layout(k, H \union {a}, F) /\ a \notin H
                /\ \A q \in H : q \in DOMAIN Shape(m.h) => q \in DOMAIN Shape(k) /\ Shape(k)[q] = Shape(m.h)[q]
                /\ a \in DOMAIN Shape(k) /\ Shape(k)[a] = Mapping(size, 0)
    <3>1. Layout(m.h, H, G)
      BY <2>2, <2>10, <2>11, SoundIs
    <3>2. a + 0 = a /\ a \in Int
      BY <2>1 DEF Aligned
    <3>3. <<a, size>> \in m.h.maps
      BY <2>1 DEF Mapped
    <3>4. TakesMap(m.h, k, G, F, a, size, 0)
      BY <1>1, <2>2, <2>5, <2>8, <2>9, <2>11, <3>2, <3>3 DEF TakesMap
    <3> HIDE DEF a
    <3>5. OneMore(m.h, k, H, F, a + 0, Mapping(size, 0))
      BY <3>1, <3>4, MapTaken
    <3> QED BY <3>2, <3>5 DEF OneMore
  <2> HIDE DEF a
  <2>12. k \in Reach(m.h, H \union {a}, F, H)
    <3>1. ~k.aborted => Layout(k, H \union {a}, F)
      BY <2>9, <2>10, <2>11
    <3>2. Onward(m.h, k, H)
      BY <2>9, <2>10, <2>11 DEF Onward
    <3> QED BY <2>7, <3>1, <3>2 DEF Reach, Sound
  <2>13. k \in Reach(h, H \union {a}, F, H)
    BY <2>2, <2>12, ReachTwice
  <2>14. ~k.aborted => a \notin H /\ Fits(k, a, nb)
    <3>1. ASSUME ~k.aborted PROVE a \notin H /\ Fits(k, a, nb)
      <4>1. a \notin H /\ a \in DOMAIN Shape(k) /\ Shape(k)[a] = Mapping(size, 0)
        BY <2>9, <2>10, <2>11, <3>1
      <4> QED BY <1>0, <1>1, <4>1 DEF Fits, Mapping
    <3> QED BY <3>1
  <2> QED BY <1>2, <1>4, <2>1, <2>13, <2>14, GivesThis
<1> QED BY <1>3, <1>4

(* The lower part of top, if it is large enough. *)
LEMMA ServedByTopIsSound ==
  ASSUME NEW H \in SUBSET Int, NEW F, NEW h \in Sound(H, F), NEW nb \in Aligned, nb >= MINSIZE
  PROVE  ServedByTop(h, nb) \in Gives(h, H, F, nb)
<1>1. CASE chunksize(h, h.top) >= nb + MINSIZE
  <2>1. ServedByTop(h, nb) = Answer(ServeFromTop(h, nb), h.top)
    BY <1>1 DEF ServedByTop
  <2> DEFINE g == ServeFromTop(h, nb)
             p == h.top
  <2>2. /\ g \in Reach(h, H \union {p}, F, H) /\ p \in Aligned
        /\ ~g.aborted => p \notin H /\ p \in DOMAIN Shape(g) /\ ~Shape(g)[p].mapped /\ Shape(g)[p].size >= nb
    BY <1>1, ServeFromTopIsSound
  <2> HIDE DEF g, p
  <2>3. ~g.aborted => p \notin H /\ Fits(g, p, nb)
    BY <2>2 DEF Fits
  <2>4. Answer(g, p) \in Gives(h, H, F, nb)
    BY <2>2, <2>3, GivesThis
  <2> QED BY <2>1, <2>4 DEF g, p
<1>2. CASE ~(chunksize(h, h.top) >= nb + MINSIZE)
  <2>1. h \in Reach(h, H, F, H)
    BY Stay
  <2> QED BY <1>2, <2>1, GivesNothing DEF ServedByTop
<1> QED BY <1>1, <1>2

(* sysmalloc_mmap gives a chunk that fits, or NULL. *)
LEMMA ByMapIsSound ==
  ASSUME NEW H \in SUBSET Int, NEW F, NEW h \in Sound(H, F), NEW nb \in Aligned, nb >= MINSIZE
  PROVE  ByMap(h, nb) \in Gives(h, H, F, nb)
<1>1. h \in Reach(h, H, F, H)
  BY Stay
<1>2. Answer(h, NULL) \in Gives(h, H, F, nb)
  BY <1>1, GivesNothing
<1>3. MmapChunk(h, nb) \in Gives(h, H, F, nb)
  BY MmapChunkIsSound
<1> QED BY <1>2, <1>3 DEF ByMap

(* A failed check leaves nothing to keep. *)
LEMMA CheckReaches ==
  ASSUME NEW H, NEW F, NEW h \in Sound(H, F), NEW ok, NEW C
  PROVE  /\ Check(h, ok) \in Reach(h, H, F, C) /\ Check(h, ok) \in Sound(H, F)
         /\ ~Check(h, ok).aborted => ok /\ ~h.aborted /\ Check(h, ok) = h
<1>1. Check(h, ok) \in Sound(H, F) /\ Onward(h, Check(h, ok), C)
  BY CheckIsSound
<1>2. h \in Good
  BY SoundIs
<1>3. ~Check(h, ok).aborted => ok /\ ~h.aborted /\ Check(h, ok) = h
  BY <1>2, CheckIs
<1> QED BY <1>1, <1>3 DEF Reach

(* Where it gave NULL, a piece of top does, or sysmalloc answers NULL. *)
LEMMA ElseByTopIsSound ==
  ASSUME NEW H \in SUBSET Int, NEW F, NEW h, NEW nb \in Aligned, nb >= MINSIZE, NEW a \in Gives(h, H, F, nb)
  PROVE  ElseByTop(a, nb) \in Gives(h, H, F, nb)
<1> DEFINE x == a.h
           ok == TopIsSane(x) /\ chunksize(x, x.top) < nb + MINSIZE
           y == Check(x, ok)
           z == MoreTop(y, nb)
           b == ServedByTop(z, nb)
<1>1. CASE a.p # NULL
  BY <1>1 DEF ElseByTop
<1>2. CASE a.p = NULL
  <2>1. ElseByTop(a, nb) = b
    BY <1>2 DEF ElseByTop
  <2>2. x \in Reach(h, H, F, H) /\ x \in Sound(H, F)
    BY <1>2, GivesIs, ReachIs
  <2>3. ok => chunksize(x, x.top) < nb + MINSIZE
    OBVIOUS
  <2> HIDE DEF x, ok
  <2>4. y \in Reach(x, H, F, H) /\ y \in Sound(H, F) /\ (~y.aborted => ok /\ y = x)
    BY <2>2, CheckReaches
  <2>5. ~y.aborted => chunksize(y, y.top) < nb + MINSIZE
    BY <2>3, <2>4
  <2> HIDE DEF y
  <2>6. z \in Reach(y, H, F, H)
    BY <2>4, <2>5, MoreTopIsSound
  <2>7. z \in Sound(H, F)
    BY <2>6, ReachIs
  <2> HIDE DEF z
  <2>8. b \in Gives(z, H, F, nb)
    BY <2>7, ServedByTopIsSound
  <2> HIDE DEF b
  <2>9. z \in Reach(x, H, F, H)
    BY <2>4, <2>6, ReachTwice
  <2>10. z \in Reach(h, H, F, H)
    BY <2>2, <2>9, ReachTwice
  <2>11. b \in Gives(h, H, F, nb)
    BY <2>8, <2>10, GivesOnward
  <2> QED BY <2>1, <2>11
<1> QED BY <1>1, <1>2

(* sysmalloc, when no chunk in a list can serve. *)
LEMMA SysmallocIsSound ==
  ASSUME NEW H \in SUBSET Int, NEW F, NEW h \in Sound(H, F), NEW nb \in Aligned, nb >= MINSIZE,
         ~h.aborted => ~FreeChunkFits(h, nb)
  PROVE  sysmalloc(h, nb) \in Gives(h, H, F, nb)
<1> DEFINE g == [h EXCEPT !.needless = h.needless \/ FreeChunkFits(h, nb)]
<1>1. h \in Good /\ h \in Heaps /\ (~h.aborted => ~h.needless)
  BY SoundIs DEF Layout
<1>2. g \in Good
  <2>1. \A b \in BOOLEAN : [h EXCEPT !.needless = b] \in Good
    BY <1>1 DEF Good, Heaps
  <2>2. (h.needless \/ FreeChunkFits(h, nb)) \in BOOLEAN
    OBVIOUS
  <2> QED BY <2>1, <2>2
<1>3. /\ g.mem = h.mem /\ g.top = h.top /\ g.bins = h.bins /\ g.fast = h.fast /\ g.entries = h.entries
      /\ g.tcache = h.tcache /\ g.brk = h.brk /\ g.maps = h.maps /\ g.aborted = h.aborted
      /\ g.needless = (h.needless \/ FreeChunkFits(h, nb))
  BY <1>1 DEF Heaps
<1>4. sysmalloc(h, nb) = ElseByTop(ByMap(g, nb), nb)
  BY DEF sysmalloc
<1> HIDE DEF g
<1>5. g \in Reach(h, H, F, H) /\ g \in Sound(H, F)
  <2>1. CASE h.aborted
    BY <1>2, <1>3, <2>1 DEF Reach, Sound, Onward
  <2>2. CASE ~h.aborted
    <3>1. g.needless = FALSE /\ h.needless = FALSE
      BY <1>1, <1>3, <2>2 DEF Heaps
    <3>2. SameLayout(h, g)
      BY <1>3, <3>1 DEF SameLayout
    <3>3. g \in Sound(H, F) /\ Onward(h, g, H)
      BY <1>2, <1>3, <3>2, SoundFrame
    <3> QED BY <3>3 DEF Reach
  <2> QED BY <2>1, <2>2
<1>6. ByMap(g, nb) \in Gives(g, H, F, nb)
  BY <1>5, ByMapIsSound
<1>7. ElseByTop(ByMap(g, nb), nb) \in Gives(g, H, F, nb)
  BY <1>6, ElseByTopIsSound
<1>8. ElseByTop(ByMap(g, nb), nb) \in Gives(h, H, F, nb)
  BY <1>5, <1>7, GivesOnward
<1> QED BY <1>4, <1>8

-----------------------------------------------------------------------------
(* Less memory, and the search: _int_malloc. *)

(* A chunk in hand and its mapping are no more. *)
LosesMap(h, g, p) ==
  /\ Shape(h)[p].mapped /\ Shape(g) = Del(Shape(h), p) /\ SameLists(h, g) /\ g.brk = h.brk
  /\ g.maps = h.maps \ {<<p - Shape(h)[p].off, Shape(h)[p].off + Shape(h)[p].size>>}

OneLess(h, g, H, F, p) ==
  /\ Layout(g, H \ {p}, F)
  /\ \A q \in H \ {p} : q \in DOMAIN Shape(h) => q \in DOMAIN Shape(g) /\ Shape(g)[q] = Shape(h)[q]

(* A mapping that is unmapped, with the chunk in it, keeps the layout. *)
LEMMA MapLost ==
  ASSUME NEW h, NEW g, NEW H \in SUBSET Int, NEW F, NEW p \in H, Layout(h, H, F), LosesMap(h, g, p)
  PROVE  OneLess(h, g, H, F, p)
<1> DEFINE s == Shape(h)
           r == Shape(g)
           K == H \ {p}
           E == Where(h, H)
           D == Where(g, K)
           W == GivenTo(h.brk, h.maps, F)
           X == Region(FirstBrk, h.brk - FirstBrk)
           M == MapWords(h.maps)
           a == p - s[p].off
           n == s[p].off + s[p].size
           R == Region(a, n)
           C == {p}
<1>1. /\ s[p].mapped /\ r = Del(s, p) /\ SameLists(h, g) /\ g.brk = h.brk /\ g.maps = h.maps \ {<<a, n>>} /\ p \in Int
  BY DEF LosesMap
<1>2. Ground(s, h.top, h.brk, h.maps, F) /\ Distinct(h) /\ CacheIsOwned(h) /\ Placed(s, E)
  BY DEF Layout
<1>3. Sized(s) /\ Tiles(s, W) /\ Ends(s, h.top) /\ Kernel(s, h.brk, h.maps, F)
  BY <1>2 DEF Ground
<1>4. Only(E, p, Hand) /\ p \in DOMAIN s
  BY <1>1, InHand
<1>5. a \in Int /\ n \in Int /\ n > 0 /\ Words(p, s[p]) = R
  <2>1. s[p].off \in Int /\ s[p].off >= 0 /\ s[p].size \in Int /\ s[p].size > 0
    BY <1>3, <1>4 DEF Sized
  <2> HIDE DEF s
  <2> QED BY <1>1, <2>1 DEF Words, Region
<1>6. DOMAIN r = DOMAIN s \ {p} /\ ButAt(r, s, p) /\ \A x \in DOMAIN r : x \in DOMAIN s /\ r[x] = s[x]
  BY <1>1 DEF Del, ButAt
<1>7. Sized(r) /\ Tiles(r, W \ R) /\ Ends(r, h.top)
  <2> HIDE DEF r, s, W, R
  <2>1. Sized(r) /\ Tiles(r, W \ Words(p, s[p])) /\ Ends(r, h.top)
    BY <1>1, <1>3, <1>4, <1>6, Lift
  <2> QED BY <1>5, <2>1
<1>8. <<a, n>> \in h.maps
  <2> HIDE DEF s
  <2> QED BY <1>1, <1>3, <1>4 DEF Kernel
<1>9. /\ h.brk \in Int /\ FirstBrk <= h.brk /\ h.brk <= BrkLimit /\ F \subseteq X \union M
      /\ \A x \in h.maps : x[1] \in Int /\ x[2] \in Int /\ x[1] >= MmapFloor /\ x[2] > 0
      /\ \A x, q \in h.maps : \A y \in Int : y \in Region(x[1], x[2]) /\ y \in Region(q[1], q[2]) => x = q
      /\ \A q \in DOMAIN s : s[q].mapped => <<q - s[q].off, s[q].off + s[q].size>> \in h.maps
  <2> HIDE DEF s
  <2> QED BY <1>3 DEF Kernel
<1>10. <<a, n>>[1] = a /\ <<a, n>>[2] = n
  OBVIOUS
<1>11. a >= MmapFloor
  BY <1>8, <1>9, <1>10
<1>12. R \cap X = {}
  <2>1. FirstBrk \in Int /\ BrkLimit \in Int /\ MmapFloor \in Int /\ BrkLimit <= MmapFloor
    BY PtAssumption, PtHeapAssumption
  <2> HIDE DEF a, n
  <2> QED BY <1>5, <1>9, <1>11, <2>1 DEF Region
<1>13. \A x \in h.maps \ {<<a, n>>} : Region(x[1], x[2]) \cap R = {}
  <2> SUFFICES ASSUME NEW x \in h.maps, x # <<a, n>>, NEW y \in Region(x[1], x[2]), y \in R PROVE FALSE
    OBVIOUS
  <2>1. y \in Int
    BY DEF Region
  <2>2. y \in Region(<<a, n>>[1], <<a, n>>[2])
    BY <1>10
  <2> HIDE DEF a, n
  <2> QED BY <1>8, <1>9, <2>1, <2>2
<1>14. MapWords(g.maps) = M \ R
  <2> SUFFICES ASSUME NEW y PROVE y \in MapWords(g.maps) <=> y \in M /\ y \notin R
    OBVIOUS
  <2>1. y \in MapWords(g.maps) <=> \E x \in h.maps \ {<<a, n>>} : y \in Region(x[1], x[2])
    BY <1>1 DEF MapWords
  <2>2. y \in M <=> \E x \in h.maps : y \in Region(x[1], x[2])
    BY DEF MapWords
  <2>3. Region(<<a, n>>[1], <<a, n>>[2]) = R
    BY <1>10
  <2> HIDE DEF M, R, a, n
  <2> QED BY <1>8, <1>13, <2>1, <2>2, <2>3
<1>15. R \subseteq W
  <2> SUFFICES ASSUME NEW x \in R PROVE x \in W
    OBVIOUS
  <2>1. x \in Int /\ Has(s, p, x)
    BY <1>5 DEF Words, Has
  <2> HIDE DEF s, W, R
  <2> QED BY <1>3, <1>4, <2>1 DEF Tiles
<1>16. R \cap F = {}
  BY <1>15 DEF GivenTo
<1>17. GivenTo(g.brk, g.maps, F) = W \ R
  <2>1. W = (X \union M) \ F /\ GivenTo(g.brk, g.maps, F) = (X \union (M \ R)) \ F
    BY <1>1, <1>14 DEF GivenTo
  <2> HIDE DEF X, M, R, W
  <2> QED BY <1>12, <2>1
<1>18. Kernel(r, g.brk, g.maps, F)
  <2>1. F \subseteq X \union MapWords(g.maps)
    <3> HIDE DEF X, M, R
    <3> QED BY <1>9, <1>14, <1>16
  <2>2. ASSUME NEW x \in DOMAIN r, r[x].mapped PROVE <<x - r[x].off, r[x].off + r[x].size>> \in g.maps
    <3>1. x \in DOMAIN s /\ r[x] = s[x] /\ x # p /\ x \in Int
      BY <1>3, <1>6 DEF Sized
    <3>2. <<x - s[x].off, s[x].off + s[x].size>> \in h.maps
      BY <1>9, <2>2, <3>1
    <3>3. <<x - s[x].off, s[x].off + s[x].size>> # <<a, n>>
      <4>1. SUFFICES ASSUME x - s[x].off = a, s[x].off + s[x].size = n PROVE FALSE
        OBVIOUS
      <4>2. s[x].off \in Int /\ s[x].size \in Int /\ s[x].off >= 0 /\ s[x].size > 0
            /\ s[p].off \in Int /\ s[p].size \in Int /\ s[p].off >= 0 /\ s[p].size > 0
        BY <1>3, <1>4, <3>1 DEF Sized
      <4>3. Has(s, x, x) /\ Has(s, p, x)
        <5> HIDE DEF s
        <5> QED BY <1>1, <3>1, <4>1, <4>2 DEF Has
      <4> HIDE DEF s
      <4> QED BY <1>3, <1>4, <3>1, <4>3 DEF Tiles
    <3> HIDE DEF s, r, a, n
    <3> QED BY <1>1, <3>1, <3>2, <3>3
  <2>3. /\ \A x \in g.maps : x[1] \in Int /\ x[2] \in Int /\ x[1] >= MmapFloor /\ x[2] > 0
        /\ \A x, q \in g.maps : \A y \in Int : y \in Region(x[1], x[2]) /\ y \in Region(q[1], q[2]) => x = q
    BY <1>1, <1>9
  <2> HIDE DEF X, r
  <2> QED BY <1>1, <1>9, <2>1, <2>2, <2>3 DEF Kernel, X
<1>19. Ground(r, g.top, g.brk, g.maps, F)
  <2>1. g.top = h.top
    BY <1>1 DEF SameLists
  <2> HIDE DEF r, W, R
  <2> QED BY <1>7, <1>17, <1>18, <2>1 DEF Ground
<1>20. Where(g, H) = E /\ Distinct(g) /\ CacheIsOwned(g)
  BY <1>1, <1>2, SameListsFrame
<1>21. \A x \in Int : D[x] = IF x = Hand THEN K ELSE E[x]
  <2>1. \A x \in Int : x # Hand => D[x] = Where(g, H)[x]
    BY DEF Where
  <2>2. D[Hand] = K
    BY WhereIs
  <2> HIDE DEF D, E
  <2> QED BY <1>20, <2>1, <2>2
<1>22. E[Hand] = H
  BY WhereIs
<1>23. Besides(h, g, H, K, C)
  <2> SUFFICES ASSUME NEW x \in Int \ C
               PROVE  /\ x \in DOMAIN r <=> x \in DOMAIN s
                      /\ x \in DOMAIN s => r[x] = s[x]
                      /\ \A y \in Int : x \in D[y] <=> x \in E[y]
    BY DEF Besides
  <2>1. (x \in DOMAIN r <=> x \in DOMAIN s) /\ (x \in DOMAIN s => r[x] = s[x])
    BY <1>6
  <2>2. x \in K <=> x \in H
    OBVIOUS
  <2> HIDE DEF D, E, K
  <2> QED BY <1>21, <1>22, <2>1, <2>2
<1>24. OkAt(r, D, p)
  <2>1. Nowhere(D, p)
    <3>1. p \notin K
      OBVIOUS
    <3> HIDE DEF D, E, K
    <3> QED BY <1>4, <1>21, <3>1 DEF Only, Nowhere
  <2>2. p \notin DOMAIN r
    BY <1>6
  <2> HIDE DEF r, D
  <2> QED BY <2>1, <2>2, OkNowhere
<1>25. \A x \in C : x \in Int => OkAt(r, D, x)
  BY <1>24
<1>26. g.needless = h.needless
  BY <1>1 DEF SameLists
<1> HIDE DEF C
<1>27. Layout(g, K, F)
  BY <1>2, <1>19, <1>20, <1>23, <1>25, <1>26, CarvedAnew
<1> QED BY <1>6, <1>27 DEF OneLess

(* munmap_chunk, of a mapping in hand. *)
LEMMA MunmapChunkIsSound ==
  ASSUME NEW H \in SUBSET Int, NEW F, NEW h \in Sound(H, F), NEW p \in H, p \in Aligned,
         ~h.aborted => Shape(h)[p].mapped
  PROVE  munmap_chunk(h, p) \in Reach(h, H \ {p}, F, H \ {p})
<1> DEFINE c == Check(h, BlockIsSane(h, p))
           a == Block(h, p)
           n == BlockSize(h, p)
           d == Drop(c, p)
           e == [d EXCEPT !.mp.n_mmaps = d.mp.n_mmaps - 1, !.mp.mmapped_mem = d.mp.mmapped_mem - n]
           k == munmap_chunk(h, p)
           K == H \ {p}
<1>1. h \in Good /\ h \in Heaps /\ c \in Good /\ k \in Good
  BY SoundIs, CheckKeeps, MunmapChunkKeeps
<1>2. k = [e EXCEPT !.maps = e.maps \ {<<a, n>>}, !.soiled = e.soiled \ Region(a, n)]
  BY DEF munmap_chunk, Munmap
<1>3. c \in Heaps /\ d \in Heaps
  BY <1>1, DropKeeps DEF Good
<1> HIDE DEF c
<1>4. /\ k.mem = d.mem /\ SameLists(d, k) /\ k.brk = d.brk /\ k.maps = d.maps \ {<<a, n>>} /\ k.aborted = d.aborted
  <2> HIDE DEF d, a, n
  <2>1. e.mem = d.mem /\ SameLists(d, e) /\ e.brk = d.brk /\ e.maps = d.maps /\ e.aborted = d.aborted
    BY <1>3 DEF Heaps, SameLists
  <2>2. DOMAIN e = DOMAIN d
    OBVIOUS
  <2> HIDE DEF e, k
  <2>3. k.mem = e.mem /\ SameLists(e, k) /\ k.brk = e.brk /\ k.maps = e.maps \ {<<a, n>>} /\ k.aborted = e.aborted
    BY <1>2, <1>3, <2>2 DEF Heaps, SameLists
  <2> QED BY <2>1, <2>3 DEF SameLists
<1>5. /\ d.mem = Drop(c, p).mem /\ SameLists(c, d) /\ d.brk = c.brk /\ d.maps = c.maps /\ d.aborted = c.aborted
      /\ Shape(d) = Del(Shape(c), p)
  BY <1>3, ShapeDrop DEF Drop, SameLists, Heaps
<1> HIDE DEF d, k
<1>6. ~k.aborted => c = h /\ ~h.aborted
  BY <1>1, <1>4, <1>5, CheckIs DEF c
<1>7. ASSUME ~k.aborted PROVE OneLess(h, k, H, F, p)
  <2>1. c = h /\ ~h.aborted /\ Layout(h, H, F) /\ Shape(h)[p].mapped
    BY <1>6, <1>7, SoundIs
  <2>2. p \in DOMAIN Shape(h)
    BY <2>1, InHand
  <2>3. a = p - Shape(h)[p].off /\ n = Shape(h)[p].off + Shape(h)[p].size
    BY <2>1, <2>2, ShapeIs DEF Block, BlockSize
  <2>4. Shape(k) = Del(Shape(h), p)
    BY <1>4, <1>5, <2>1 DEF Shape
  <2> HIDE DEF a, n
  <2>5. LosesMap(h, k, p)
    BY <1>4, <1>5, <2>1, <2>3, <2>4 DEF LosesMap, SameLists
  <2> QED BY <2>1, <2>5, MapLost
<1>8. ~k.aborted => Layout(k, K, F)
  BY <1>7 DEF OneLess
<1>9. Onward(h, k, K)
  <2>1. ~k.aborted => k.tcache = h.tcache
    BY <1>4, <1>5, <1>6 DEF SameLists
  <2> QED BY <1>6, <1>7, <2>1 DEF Onward, OneLess
<1> QED BY <1>1, <1>8, <1>9 DEF Reach, Sound, k

(* The thresholds follow. *)
LEMMA ThresholdsReach ==
  ASSUME NEW H \in SUBSET Int, NEW F, NEW h \in Sound(H, F), NEW p
  PROVE  /\ AdjustThresholds(h, p) \in Reach(h, H, F, H) /\ AdjustThresholds(h, p) \in Sound(H, F)
         /\ Shape(AdjustThresholds(h, p)) = Shape(h) /\ AdjustThresholds(h, p).aborted = h.aborted
<1> DEFINE g == AdjustThresholds(h, p)
<1>1. h \in Good /\ h \in Heaps /\ g \in Good
  BY SoundIs, ThresholdsKeep
<1>2. g.mem = h.mem /\ SameLists(h, g) /\ g.maps = h.maps /\ g.brk = h.brk /\ g.aborted = h.aborted
  BY <1>1 DEF AdjustThresholds, Heaps, SameLists
<1> HIDE DEF g
<1>3. Counted(h, g)
  BY <1>2 DEF Counted
<1>4. g \in Reach(h, H, F, H) /\ g \in Sound(H, F) /\ Shape(g) = Shape(h)
  BY <1>1, <1>3, CountersReach
<1> QED BY <1>2, <1>4 DEF g

(* Stash, put by put. *)
LEMMA StashTurns ==
  ASSUME NEW h \in Good, NEW i, NEW seq \in Seq(Aligned)
  PROVE  \E it : /\ it[0] = h /\ Stash(h, i, seq) = it[Len(seq)]
                 /\ \A m \in 1 .. Len(seq) : it[m] = tcache_put(it[m - 1], seq[m], i)
<1> DEFINE n == Len(seq)
           F == [x \in Good \X (1 .. n) |-> tcache_put(x[1], seq[x[2]], i)]
           Is(f) == f = [s \in SUBSET (DOMAIN seq) |->
                           IF s = {} THEN h ELSE tcache_put(f[s \ {Max(s)}], seq[Max(s)], i)]
           it == CHOOSE f : Is(f)
<1>0. Stash(h, i, seq) = it[DOMAIN seq]
  BY DEF Stash, FoldLeft, MapThenFoldSet
<1>1. n \in Nat /\ DOMAIN seq = 1 .. n /\ \A m \in 1 .. n : seq[m] \in Aligned
  OBVIOUS
<1>2. F \in [Good \X (1 .. n) -> Good] /\ \A x \in Good, m \in 1 .. n : F[<<x, m>>] = tcache_put(x, seq[m], i)
  BY <1>1, TcachePutKeeps
<1> HIDE DEF n, F
<1>3. PICK f \in [SUBSET (1 .. n) -> Good] : Steps(f, h, F, n)
  BY <1>1, <1>2, StepsExist
<1>4. \A s \in SUBSET (1 .. n) : s # {} => Max(s) \in s
  BY <1>1, MaxInInterval
<1>5. \A s \in SUBSET (1 .. n) : f[s] = IF s = {} THEN h ELSE tcache_put(f[s \ {Max(s)}], seq[Max(s)], i)
  BY <1>2, <1>3, <1>4 DEF Steps
<1>6. Is(f)
  BY <1>1, <1>5
<1>7. Is(it)
  BY <1>6
<1>8. \A s \in SUBSET (1 .. n) : it[s] = IF s = {} THEN h ELSE tcache_put(it[s \ {Max(s)}], seq[Max(s)], i)
  BY <1>1, <1>7
<1> HIDE DEF Is, it
<1> DEFINE k == [m \in 0 .. n |-> it[1 .. m]]
<1>9. k[0] = h
  <2>1. 1 .. 0 = {} /\ {} \in SUBSET (1 .. n) /\ 0 \in 0 .. n
    BY <1>1
  <2> QED BY <1>8, <2>1
<1>10. ASSUME NEW m \in 1 .. n PROVE k[m] = tcache_put(k[m - 1], seq[m], i)
  <2>1. Max(1 .. m) = m /\ (1 .. m) \ {m} = 1 .. (m - 1) /\ 1 .. m # {} /\ 1 .. m \in SUBSET (1 .. n)
    BY <1>1, LastOfInterval
  <2>2. it[1 .. m] = tcache_put(it[(1 .. m) \ {Max(1 .. m)}], seq[Max(1 .. m)], i)
    BY <1>8, <2>1
  <2>3. it[1 .. m] = tcache_put(it[1 .. (m - 1)], seq[m], i)
    BY <2>1, <2>2, Zenon
  <2>4. m \in 0 .. n /\ m - 1 \in 0 .. n
    BY <1>1
  <2> QED BY <2>3, <2>4
<1>11. Stash(h, i, seq) = k[n]
  BY <1>0, <1>1
<1> HIDE DEF k
<1>13. n = Len(seq)
  BY DEF n
<1> QED BY <1>9, <1>10, <1>11, <1>13

(* A failed check remains failed. *)
LEMMA StashAborts ==
  ASSUME NEW h \in Good, NEW i, NEW seq \in Seq(Aligned), h.aborted
  PROVE  Stash(h, i, seq) \in Good /\ Stash(h, i, seq).aborted
<1> DEFINE n == Len(seq)
           S == {g \in Good : g.aborted}
           I == [m \in 0 .. n |-> S]
<1>1. n \in Nat /\ \A m \in 1 .. n : seq[m] \in Aligned
  OBVIOUS
<1>2. PICK it : /\ it[0] = h /\ Stash(h, i, seq) = it[n]
                /\ \A m \in 1 .. n : it[m] = tcache_put(it[m - 1], seq[m], i)
  BY StashTurns
<1> HIDE DEF n
<1>3. ASSUME NEW m \in 1 .. n, NEW g \in S PROVE tcache_put(g, seq[m], i) \in S
  <2>1. g \in Good /\ g.aborted /\ seq[m] \in Aligned
    BY <1>1
  <2>2. tcache_put(g, seq[m], i) \in Good
    BY <2>1, TcachePutKeeps
  <2>3. tcache_put(g, seq[m], i).aborted = g.aborted
    BY <2>1 DEF tcache_put, Good, Heaps
  <2> QED BY <2>1, <2>2, <2>3
<1>4. I[0] = S /\ I[n] = S /\ \A m \in 1 .. n : I[m - 1] = S /\ I[m] = S
  BY <1>1
<1>5. h \in S
  OBVIOUS
<1> HIDE DEF S, I
<1>6. it[0] \in I[0]
  BY <1>2, <1>4, <1>5
<1>7. \A m \in 1 .. n : it[m - 1] \in I[m - 1] => it[m] \in I[m]
  BY <1>2, <1>3, <1>4
<1>8. it[n] \in I[n]
  BY <1>1, <1>6, <1>7, TurnsEnd
<1> QED BY <1>2, <1>4, <1>8 DEF S

(* Chunks in hand, all of one size, go into the cache. *)
Stashes(h, H, i, seq) ==
  /\ seq \in Seq(Aligned) /\ IsInjective(seq) /\ ToSet(seq) \subseteq H
  /\ seq # << >> => i \in 0 .. TCACHE_MAX_BINS - 1 /\ HasTcache(h)
  /\ ~h.aborted => \A p \in ToSet(seq) : ~Shape(h)[p].mapped /\ csize2tidx(Shape(h)[p].size) = i

(* tcache_put, chunk by chunk, of chunks in hand that belong into one      *)
(* entry.                                                                  *)
LEMMA StashIsSound ==
  ASSUME NEW H \in SUBSET Int, NEW F, NEW h \in Sound(H, F), NEW i, NEW seq, Stashes(h, H, i, seq), NEW C
  PROVE  Stash(h, i, seq) \in Reach(h, H \ ToSet(seq), F, C) /\ Shape(Stash(h, i, seq)) = Shape(h)
<1> DEFINE n == Len(seq)
           Rest(m) == H \ {seq[j] : j \in 1 .. m}
           I == [m \in 0 .. n |-> {g \in Reach(h, Rest(m), F, C) : Shape(g) = Shape(h) /\ g.tcache = h.tcache
                                                                    /\ (~g.aborted => ~h.aborted)}]
<1>1. /\ seq \in Seq(Aligned) /\ n \in Nat /\ DOMAIN seq = 1 .. n /\ \A m \in 1 .. n : seq[m] \in Aligned
      /\ \A m \in 1 .. n : seq[m] \in H
      /\ \A j, m \in 1 .. n : seq[j] = seq[m] => j = m
      /\ n > 0 => i \in 0 .. TCACHE_MAX_BINS - 1 /\ HasTcache(h)
      /\ ~h.aborted => \A m \in 1 .. n : ~Shape(h)[seq[m]].mapped /\ csize2tidx(Shape(h)[seq[m]].size) = i
  BY DEF Stashes, ToSet, IsInjective
<1>2. h \in Good
  BY SoundIs
<1>3. PICK it : /\ it[0] = h /\ Stash(h, i, seq) = it[n]
                /\ \A m \in 1 .. n : it[m] = tcache_put(it[m - 1], seq[m], i)
  BY <1>1, <1>2, StashTurns
<1> HIDE DEF n
<1>4. it[0] \in I[0]
  <2>1. Rest(0) = H
    OBVIOUS
  <2>2. h \in Reach(h, H, F, C)
    BY Stay
  <2> HIDE DEF Rest
  <2>3. I[0] = {g \in Reach(h, Rest(0), F, C) : Shape(g) = Shape(h) /\ g.tcache = h.tcache /\ (~g.aborted => ~h.aborted)}
    BY <1>1
  <2> QED BY <1>3, <2>1, <2>2, <2>3
<1>5. ASSUME NEW m \in 1 .. n, it[m - 1] \in I[m - 1] PROVE it[m] \in I[m]
  <2> DEFINE g == it[m - 1]
             k == it[m]
             p == seq[m]
             K == Rest(m - 1)
  <2>1. g \in Reach(h, K, F, C) /\ Shape(g) = Shape(h) /\ g.tcache = h.tcache /\ (~g.aborted => ~h.aborted)
    BY <1>1, <1>5
  <2>2. k = tcache_put(g, p, i)
    BY <1>3
  <2>3. p \in Aligned /\ p \in H /\ K \in SUBSET Int
    BY <1>1
  <2>4. p \in K /\ K \ {p} = Rest(m)
    <3>1. \A j \in 1 .. (m - 1) : seq[j] # p
      BY <1>1
    <3>2. 1 .. m = (1 .. (m - 1)) \union {m}
      BY <1>1
    <3> QED BY <2>3, <3>1, <3>2
  <2>5. i \in 0 .. TCACHE_MAX_BINS - 1 /\ HasTcache(g)
    BY <1>1, <2>1 DEF HasTcache
  <2>6. ~g.aborted => ~Shape(g)[p].mapped /\ csize2tidx(Shape(g)[p].size) = i
    BY <1>1, <2>1
  <2>7. g \in Sound(K, F)
    BY <2>1, ReachIs
  <2>8. I[m] = {x \in Reach(h, Rest(m), F, C) : Shape(x) = Shape(h) /\ x.tcache = h.tcache /\ (~x.aborted => ~h.aborted)}
    BY <1>1
  <2> HIDE DEF g, k, p, K, I, Rest
  <2>9. k \in Sound(K \ {p}, F) /\ Onward(g, k, C) /\ Shape(k) = Shape(g) /\ k.tcache = g.tcache
    BY <2>2, <2>3, <2>4, <2>5, <2>6, <2>7, TcachePutIsSound
  <2>10. k \in Reach(g, Rest(m), F, C) /\ (~k.aborted => ~g.aborted)
    BY <2>4, <2>9 DEF Reach, Onward
  <2>11. k \in Reach(h, Rest(m), F, C)
    BY <2>1, <2>10, ReachTwice
  <2> QED BY <2>1, <2>8, <2>9, <2>10, <2>11 DEF k
<1>6. I[n] = {g \in Reach(h, Rest(n), F, C) : Shape(g) = Shape(h) /\ g.tcache = h.tcache /\ (~g.aborted => ~h.aborted)}
  BY <1>1
<1>7. Rest(n) = H \ ToSet(seq)
  BY <1>1 DEF ToSet
<1> HIDE DEF I, Rest
<1>8. it[n] \in I[n]
  BY <1>1, <1>4, <1>5, TurnsEnd
<1> QED BY <1>3, <1>6, <1>7, <1>8

(* Used, chunk by chunk. *)
LEMMA UseTurns ==
  ASSUME NEW h \in Good, NEW nb \in Aligned, NEW seq \in Seq(Aligned)
  PROVE  \E it : /\ it[0] = h /\ Used(h, nb, seq) = it[Len(seq)]
                 /\ \A m \in 1 .. Len(seq) : it[m] = set_inuse_bit(it[m - 1], seq[m] + nb)
<1> DEFINE n == Len(seq)
           F == [x \in Good \X (1 .. n) |-> set_inuse_bit(x[1], seq[x[2]] + nb)]
           Is(f) == f = [s \in SUBSET (DOMAIN seq) |->
                           IF s = {} THEN h ELSE set_inuse_bit(f[s \ {Max(s)}], seq[Max(s)] + nb)]
           it == CHOOSE f : Is(f)
<1>0. Used(h, nb, seq) = it[DOMAIN seq]
  BY DEF Used, FoldLeft, MapThenFoldSet
<1>1. n \in Nat /\ DOMAIN seq = 1 .. n /\ \A m \in 1 .. n : seq[m] \in Aligned
  OBVIOUS
<1>2. F \in [Good \X (1 .. n) -> Good] /\ \A x \in Good, m \in 1 .. n : F[<<x, m>>] = set_inuse_bit(x, seq[m] + nb)
  <2>1. \A m \in 1 .. n : seq[m] + nb \in Aligned
    BY <1>1, EvenSums
  <2>2. \A x \in Good, m \in 1 .. n : set_inuse_bit(x, seq[m] + nb) \in Good
    BY <2>1, HeadsKeep
  <2> QED BY <1>1, <2>2
<1> HIDE DEF n, F
<1>3. PICK f \in [SUBSET (1 .. n) -> Good] : Steps(f, h, F, n)
  BY <1>1, <1>2, StepsExist
<1>4. \A s \in SUBSET (1 .. n) : s # {} => Max(s) \in s
  BY <1>1, MaxInInterval
<1>5. \A s \in SUBSET (1 .. n) : f[s] = IF s = {} THEN h ELSE set_inuse_bit(f[s \ {Max(s)}], seq[Max(s)] + nb)
  BY <1>2, <1>3, <1>4 DEF Steps
<1>6. Is(f)
  BY <1>1, <1>5
<1>7. Is(it)
  BY <1>6
<1>8. \A s \in SUBSET (1 .. n) : it[s] = IF s = {} THEN h ELSE set_inuse_bit(it[s \ {Max(s)}], seq[Max(s)] + nb)
  BY <1>1, <1>7
<1> HIDE DEF Is, it
<1> DEFINE k == [m \in 0 .. n |-> it[1 .. m]]
<1>9. k[0] = h
  <2>1. 1 .. 0 = {} /\ {} \in SUBSET (1 .. n) /\ 0 \in 0 .. n
    BY <1>1
  <2> QED BY <1>8, <2>1
<1>10. ASSUME NEW m \in 1 .. n PROVE k[m] = set_inuse_bit(k[m - 1], seq[m] + nb)
  <2>1. Max(1 .. m) = m /\ (1 .. m) \ {m} = 1 .. (m - 1) /\ 1 .. m # {} /\ 1 .. m \in SUBSET (1 .. n)
    BY <1>1, LastOfInterval
  <2>2. it[1 .. m] = set_inuse_bit(it[(1 .. m) \ {Max(1 .. m)}], seq[Max(1 .. m)] + nb)
    BY <1>8, <2>1
  <2>3. it[1 .. m] = set_inuse_bit(it[1 .. (m - 1)], seq[m] + nb)
    BY <2>1, <2>2, Zenon
  <2>4. m \in 0 .. n /\ m - 1 \in 0 .. n
    BY <1>1
  <2> QED BY <2>3, <2>4
<1>11. Used(h, nb, seq) = k[n]
  BY <1>0, <1>1
<1> HIDE DEF k
<1>13. n = Len(seq)
  BY DEF n
<1> QED BY <1>9, <1>10, <1>11, <1>13

(* Once a check has failed, it stays so while in-use bits are set. *)
LEMMA UsedAborts ==
  ASSUME NEW h \in Good, NEW nb \in Aligned, NEW seq \in Seq(Aligned), h.aborted
  PROVE  Used(h, nb, seq) \in Good /\ Used(h, nb, seq).aborted
<1> DEFINE n == Len(seq)
           S == {g \in Good : g.aborted}
           I == [m \in 0 .. n |-> S]
<1>1. n \in Nat /\ \A m \in 1 .. n : seq[m] \in Aligned
  OBVIOUS
<1>2. PICK it : /\ it[0] = h /\ Used(h, nb, seq) = it[n]
                /\ \A m \in 1 .. n : it[m] = set_inuse_bit(it[m - 1], seq[m] + nb)
  BY UseTurns
<1> HIDE DEF n
<1>3. ASSUME NEW m \in 1 .. n, NEW g \in S PROVE set_inuse_bit(g, seq[m] + nb) \in S
  <2>1. g \in Good /\ g.aborted /\ seq[m] \in Aligned
    BY <1>1
  <2>2. set_inuse_bit(g, seq[m] + nb) \in Good
    <3>1. seq[m] + nb \in Aligned
      BY <2>1, EvenSums
    <3> QED BY <2>1, <3>1, HeadsKeep
  <2>3. set_inuse_bit(g, seq[m] + nb).aborted = g.aborted
    BY <2>1 DEF set_inuse_bit, Put, Good, Heaps
  <2> QED BY <2>1, <2>2, <2>3
<1>4. I[0] = S /\ I[n] = S /\ \A m \in 1 .. n : I[m - 1] = S /\ I[m] = S
  BY <1>1
<1>5. h \in S
  OBVIOUS
<1> HIDE DEF S, I
<1>6. it[0] \in I[0]
  BY <1>2, <1>4, <1>5
<1>7. \A m \in 1 .. n : it[m - 1] \in I[m - 1] => it[m] \in I[m]
  BY <1>2, <1>3, <1>4
<1>8. it[n] \in I[n]
  BY <1>1, <1>6, <1>7, TurnsEnd
<1> QED BY <1>2, <1>4, <1>8 DEF S

(* The flag of the chunk behind one in hand. *)
LEMMA InuseIsSound ==
  ASSUME NEW H \in SUBSET Int, NEW F, NEW h \in Sound(H, F), NEW p \in H, p \in Aligned, NEW nb \in Aligned, NEW C,
         ~h.aborted => ~Shape(h)[p].mapped /\ Shape(h)[p].size = nb
  PROVE  /\ set_inuse_bit(h, p + nb) \in Reach(h, H, F, C) /\ set_inuse_bit(h, p + nb) \in Sound(H, F)
         /\ HeadsOnly(h, set_inuse_bit(h, p + nb))
         /\ ~h.aborted => Shape(set_inuse_bit(h, p + nb)) = Shape(h)
<1> DEFINE a == p + nb
           g == set_inuse_bit(h, a)
<1>1. h \in Good /\ h \in Heaps
  BY SoundIs
<1>2. a \in Aligned
  BY EvenSums
<1> HIDE DEF a
<1>3. g \in Good
  BY <1>1, <1>2, HeadsKeep
<1>4. HeadsOnly(h, g)
  BY <1>1 DEF HeadsOnly, set_inuse_bit, Put, Heaps
<1>5. ASSUME ~h.aborted PROVE Shape(g) = Shape(h)
  <2>1. Layout(h, H, F) /\ ~Shape(h)[p].mapped /\ Shape(h)[p].size = nb
    BY <1>5, SoundIs
  <2>2. a \in DOMAIN Shape(h) /\ ~Shape(h)[a].mapped
    <3>1. p \in Int
      BY DEF Aligned
    <3>2. Followed(Shape(h), p)
      BY <2>1, <3>1, InHand
    <3> QED BY <2>1, <3>2 DEF Followed, a
  <2> QED BY <1>1, <2>2, FlagsAreSet
<1> HIDE DEF g
<1>6. g.aborted = h.aborted
  BY <1>4 DEF HeadsOnly
<1>7. g \in Sound(H, F) /\ Onward(h, g, C)
  <2>1. CASE h.aborted
    BY <1>3, <1>6, <2>1 DEF Sound, Onward
  <2>2. CASE ~h.aborted
    BY <1>3, <1>4, <1>5, <2>2, HeadsSound
  <2> QED BY <2>1, <2>2
<1> QED BY <1>4, <1>5, <1>7 DEF Reach, g, a

Uses(h, H, nb, seq) ==
  /\ seq \in Seq(Aligned) /\ ToSet(seq) \subseteq H
  /\ ~h.aborted => \A p \in ToSet(seq) : ~Shape(h)[p].mapped /\ Shape(h)[p].size = nb

(* The in-use bits behind the chunks that go to the cache change no shape. *)
LEMMA UsedIsSound ==
  ASSUME NEW H \in SUBSET Int, NEW F, NEW h \in Sound(H, F), NEW nb \in Aligned, NEW seq, Uses(h, H, nb, seq), NEW C
  PROVE  /\ Used(h, nb, seq) \in Reach(h, H, F, C) /\ Used(h, nb, seq) \in Sound(H, F) /\ HeadsOnly(h, Used(h, nb, seq))
         /\ ~h.aborted => Shape(Used(h, nb, seq)) = Shape(h)
<1> DEFINE n == Len(seq)
           S == {g \in Reach(h, H, F, C) : HeadsOnly(h, g) /\ (~h.aborted => Shape(g) = Shape(h))}
           I == [m \in 0 .. n |-> S]
<1>1. /\ seq \in Seq(Aligned) /\ n \in Nat /\ \A m \in 1 .. n : seq[m] \in Aligned
      /\ \A m \in 1 .. n : seq[m] \in H
      /\ ~h.aborted => \A m \in 1 .. n : ~Shape(h)[seq[m]].mapped /\ Shape(h)[seq[m]].size = nb
  BY DEF Uses, ToSet
<1>2. h \in Good
  BY SoundIs
<1>3. PICK it : /\ it[0] = h /\ Used(h, nb, seq) = it[n]
                /\ \A m \in 1 .. n : it[m] = set_inuse_bit(it[m - 1], seq[m] + nb)
  BY <1>1, <1>2, UseTurns
<1> HIDE DEF n
<1>4. h \in S
  BY Stay DEF HeadsOnly
<1>5. ASSUME NEW m \in 1 .. n, NEW g \in S PROVE set_inuse_bit(g, seq[m] + nb) \in S
  <2> DEFINE p == seq[m]
             k == set_inuse_bit(g, p + nb)
  <2>1. g \in Reach(h, H, F, C) /\ HeadsOnly(h, g) /\ (~h.aborted => Shape(g) = Shape(h)) /\ g.aborted = h.aborted
    BY DEF HeadsOnly
  <2>2. g \in Sound(H, F)
    BY <2>1, ReachIs
  <2>3. p \in Aligned /\ p \in H /\ (~g.aborted => ~Shape(g)[p].mapped /\ Shape(g)[p].size = nb)
    BY <1>1, <2>1
  <2> HIDE DEF p, S
  <2>4. k \in Reach(g, H, F, C) /\ HeadsOnly(g, k) /\ (~g.aborted => Shape(k) = Shape(g))
    BY <2>2, <2>3, InuseIsSound
  <2> HIDE DEF k
  <2>5. k \in Reach(h, H, F, C)
    BY <2>1, <2>4, ReachTwice
  <2>6. HeadsOnly(h, k)
    BY <2>1, <2>4 DEF HeadsOnly
  <2> QED BY <2>1, <2>4, <2>5, <2>6 DEF S, k, p
<1>6. I[0] = S /\ I[n] = S /\ \A m \in 1 .. n : I[m - 1] = S /\ I[m] = S
  BY <1>1
<1> HIDE DEF S, I
<1>10. it[0] \in I[0]
  BY <1>3, <1>4, <1>6
<1>11. \A m \in 1 .. n : it[m - 1] \in I[m - 1] => it[m] \in I[m]
  BY <1>3, <1>5, <1>6
<1>7. it[n] \in I[n]
  BY <1>1, <1>10, <1>11, TurnsEnd
<1>8. it[n] \in S
  BY <1>6, <1>7
<1>9. it[n] \in Sound(H, F)
  BY <1>8, ReachIs DEF S
<1> QED BY <1>3, <1>8, <1>9 DEF S

(* Lists of one size. *)
LEMMA OneSize ==
  ASSUME NEW x \in Aligned, NEW y \in Aligned
  PROVE  /\ fastbin_index(x) = fastbin_index(y) => x = y
         /\ csize2tidx(x) = csize2tidx(y) => x = y
         /\ in_smallbin_range(x) /\ x >= MINSIZE /\ y >= MINSIZE /\ bin_index(x) = bin_index(y) => x = y
<1>1. x \in Int /\ y \in Int /\ x % 2 = 0 /\ y % 2 = 0
  BY DEF Aligned, MALLOC_ALIGNMENT, SIZE_SZ
<1>2. x \div 2 = y \div 2 => x = y
  BY <1>1
<1>3. fastbin_index(x) = (x \div 2) - 2 /\ fastbin_index(y) = (y \div 2) - 2
  BY DEF fastbin_index, MALLOC_ALIGNMENT, SIZE_SZ
<1>4. csize2tidx(x) = (x - 3) \div 2 /\ csize2tidx(y) = (y - 3) \div 2
  <2>1. (x - 4) + 2 - 1 = x - 3 /\ (y - 4) + 2 - 1 = y - 3
    BY <1>1
  <2> QED BY <2>1 DEF csize2tidx, MINSIZE, MALLOC_ALIGNMENT, SIZE_SZ
<1>5. csize2tidx(x) = csize2tidx(y) => x = y
  BY <1>1, <1>4
<1>6. ASSUME in_smallbin_range(x), x >= MINSIZE, y >= MINSIZE, bin_index(x) = bin_index(y) PROVE x = y
  <2>1. bin_index(x) = x \div 2 /\ x < MinLargeSize
    BY <1>6 DEF bin_index, in_smallbin_range, MALLOC_ALIGNMENT, SIZE_SZ
  <2>2. CASE in_smallbin_range(y)
    <3>1. bin_index(y) = y \div 2
      BY <2>2 DEF bin_index, MALLOC_ALIGNMENT, SIZE_SZ
    <3> QED BY <1>2, <1>6, <2>1, <3>1
  <2>3. CASE ~in_smallbin_range(y)
    <3> DEFINE m == MinLargeSize \div 2
               k == m + ((y - MinLargeSize) \div LargeWidth)
    <3>1. MinLargeSize \in Int /\ MinLargeSize % 2 = 0 /\ MinLargeSize > 4 /\ LargeWidth \in Int /\ LargeWidth > 0
          /\ NBINS \in Int /\ NBINS > MinLargeSize \div 2
      BY PtAssumption DEF MINSIZE, MALLOC_ALIGNMENT, SIZE_SZ
    <3>2. y - MinLargeSize \in Int /\ y - MinLargeSize >= 0
      BY <1>1, <2>3, <3>1 DEF in_smallbin_range
    <3> DEFINE w == y - MinLargeSize
    <3>3. w \div LargeWidth \in Int /\ w \div LargeWidth >= 0
      <4> HIDE DEF w
      <4> QED BY <3>1, <3>2, SMTT(30) DEF w
    <3>4. m \in Int /\ k \in Int /\ k >= m /\ NBINS - 1 \in Int /\ NBINS - 1 >= m
      BY <3>1, <3>3
    <3>5. bin_index(y) = Min({NBINS - 1, k})
      BY <2>3 DEF bin_index, largebin_index, MALLOC_ALIGNMENT, SIZE_SZ
    <3> HIDE DEF k
    <3>6. Min({NBINS - 1, k}) \in {NBINS - 1, k}
      BY <3>4, SmallerOfTwo
    <3>7. bin_index(y) >= m
      <4> HIDE DEF m
      <4> QED BY <3>4, <3>5, <3>6
    <3>8. x \div 2 < m /\ x \div 2 \in Int
      BY <1>1, <2>1, <3>1
    <3> HIDE DEF m
    <3> DEFINE u == x \div 2
    <3>9. bin_index(y) = u
      BY <1>6, <2>1
    <3> HIDE DEF u
    <3>10. u \in Int /\ u < m
      BY <3>8 DEF u
    <3> QED BY <3>4, <3>7, <3>9, <3>10
  <2> QED BY <2>2, <2>3
<1>7. fastbin_index(x) = fastbin_index(y) => x = y
  BY <1>1, <1>2, <1>3
<1> QED BY <1>5, <1>6, <1>7

(* Chunks are taken for the cache only where there is one. *)
LEMMA TakenRoom ==
  ASSUME NEW h \in Good, NEW nb \in Chunky, NEW list \in Lists, Taken(h, nb, list) # 0
  PROVE  HasTcache(h) /\ csize2tidx(nb) \in 0 .. TCACHE_MAX_BINS - 1
<1>1. ASSUME ~Cacheable(h, nb) PROVE FALSE
  <2>1. StashRoom(h, nb) = 0
    BY <1>1 DEF StashRoom
  <2>2. Len(list) \in Nat
    BY DEF Lists
  <2>3. Max({0, 0}) = 0
    <3>1. \A m \in Int : Max({0, m}) \in {0, m}
      BY SmallerOfTwo
    <3> QED BY <3>1
  <2>4. Min({Len(list), 0}) <= 0
    <3> DEFINE m == Len(list)
    <3>1. m \in Int
      BY <2>2
    <3> HIDE DEF m
    <3> DEFINE o == 0
    <3>2. o \in Int
      OBVIOUS
    <3> HIDE DEF o
    <3>3. Min({m, o}) <= o
      BY <3>1, <3>2, SmallerOfTwo
    <3> QED BY <3>3 DEF m, o
  <2>5. Taken(h, nb, list) = Min({Len(list), 0})
    <3>1. Taken(h, nb, list) = Min({Len(list), Max({0, StashRoom(h, nb)})})
      BY DEF Taken
    <3>2. Max({0, StashRoom(h, nb)}) = Max({0, 0})
      BY <2>1, Zenon
    <3>3. Max({0, StashRoom(h, nb)}) = 0
      BY <2>3, <3>2
    <3> QED BY <3>1, <3>3
  <2>6. Taken(h, nb, list) \in 0 .. Len(list)
    BY TakenIs
  <2> QED BY <2>2, <2>4, <2>5, <2>6
<1>2. Cacheable(h, nb)
  BY <1>1
<1> QED BY <1>2, TidxIs DEF Cacheable

(* The first of a list is served, and the next ones go elsewhere. *)
LEMMA FirstOnes ==
  ASSUME NEW A, NEW l \in Seq(A), l # << >>, IsInjective(l), NEW n \in 0 .. Len(Tail(l))
  PROVE  LET one == Head(l)
             some == SubSeq(Tail(l), 1, n)
             left == SubSeq(Tail(l), n + 1, Len(Tail(l)))
         IN /\ one \in A /\ some \in Seq(A) /\ left \in Seq(A) /\ IsInjective(some) /\ IsInjective(left)
            /\ one \notin ToSet(some) /\ one \in ToSet(l) /\ ToSet(some) \subseteq ToSet(l)
            /\ ToSet(left) = ToSet(l) \ ({one} \union ToSet(some))
<1> DEFINE t == Tail(l)
           one == Head(l)
           some == SubSeq(t, 1, n)
           left == SubSeq(t, n + 1, Len(t))
<1>1. /\ one \in A /\ t \in Seq(A) /\ IsInjective(t)
      /\ ToSet(l) = {one} \union ToSet(t) /\ one \notin ToSet(t)
  BY HeadOnce
<1> HIDE DEF t, one
<1>2. n \in 0 .. Len(t)
  BY DEF t
<1>3. /\ some \in Seq(A) /\ left \in Seq(A) /\ IsInjective(some) /\ IsInjective(left)
      /\ ToSet(some) \cap ToSet(left) = {} /\ ToSet(some) \union ToSet(left) = ToSet(t)
  BY <1>1, <1>2, PartsOnce
<1> HIDE DEF some, left
<1>4. /\ one \notin ToSet(some) /\ one \in ToSet(l) /\ ToSet(some) \subseteq ToSet(l)
      /\ ToSet(left) = ToSet(l) \ ({one} \union ToSet(some))
  BY <1>1, <1>3
<1> QED BY <1>1, <1>3, <1>4 DEF t, one, some, left

(* A chunk of the fastbin of the request serves it, and others of the      *)
(* fastbin fill the cache.                                                 *)
LEMMA FromFastbinIsSound ==
  ASSUME NEW H \in SUBSET Int, NEW F, NEW h \in Sound(H, F), NEW nb \in Chunky, nb <= h.mp.max_fast,
         h.fast[fastbin_index(nb)] # << >>
  PROVE  FromFastbin(h, nb) \in Gives(h, H, F, nb)
<1> DEFINE idx == fastbin_index(nb)
           l == h.fast[idx]
           t == Tail(l)
           one == Head(l)
           n == Taken(h, nb, t)
           c == Check(h, chunksize(h, one) = nb)
           some == SubSeq(t, 1, n)
           left == SubSeq(t, n + 1, Len(t))
           g == [c EXCEPT !.fast[idx] = left]
           i == csize2tidx(nb)
           k == Stash(g, i, some)
           P == {one} \union ToSet(some)
<1>1. h \in Good /\ h \in Heaps /\ idx \in 0 .. NFASTBINS - 1 /\ nb \in Aligned /\ nb >= MINSIZE
  BY SoundIs, FastIndexIs DEF Chunky
<1>2. l \in Seq(Aligned) /\ l # << >>
  BY <1>1, GoodBins DEF Lists
<1>3. t \in Lists /\ one \in Aligned
  BY <1>2, HeadAndTail DEF Lists
<1>4. n \in 0 .. Len(t)
  BY <1>1, <1>3, TakenIs
<1>5. n # 0 => HasTcache(h) /\ i \in 0 .. TCACHE_MAX_BINS - 1
  BY <1>1, <1>3, TakenRoom
<1>6. FromFastbin(h, nb) = Answer(k, one)
  BY DEF FromFastbin
<1>7. some \in Seq(Aligned) /\ left \in Seq(Aligned) /\ (n = 0 => some = << >>)
  <2>1. t \in Seq(Aligned) /\ Len(t) \in Nat
    BY <1>3 DEF Lists
  <2> HIDE DEF t, n
  <2>2. n + 1 \in 1 .. Len(t) + 1 /\ Len(t) \in 0 .. Len(t) /\ 1 \in 1 .. Len(t) + 1
    BY <1>4, <2>1
  <2>3. some \in Seq(Aligned) /\ left \in Seq(Aligned)
    BY <1>4, <2>1, <2>2, PartOfList
  <2> QED BY <2>3
<1>8. c \in Good /\ SameLayout(h, c) /\ (~c.aborted => chunksize(h, one) = nb /\ ~h.aborted /\ c = h)
  BY <1>1, CheckIs
<1>9. g \in Good
  <2>1. c.fast[idx] # << >>
    BY <1>2, <1>8 DEF SameLayout
  <2> HIDE DEF c, l, left, idx
  <2> QED BY <1>1, <1>7, <1>8, <2>1, OneFastbinKeeps DEF Lists
<1>10. /\ g.mem = h.mem /\ g.top = h.top /\ g.brk = h.brk /\ g.maps = h.maps /\ g.needless = h.needless /\ g.tcache = h.tcache
       /\ g.aborted = c.aborted /\ FastOnly(h, g, idx, left)
  <2>1. c \in Heaps /\ c.fast = h.fast
    BY <1>8 DEF Good, SameLayout
  <2>2. h.fast \in Fasts
    BY <1>1 DEF Heaps
  <2> HIDE DEF c, left, idx
  <2> QED BY <1>8, <2>1, <2>2 DEF SameLayout, FastOnly, Heaps
<1> HIDE DEF c, g
<1>11. ASSUME ~g.aborted
       PROVE  /\ Layout(g, H \union P, F) /\ Stashes(g, H \union P, i, some)
              /\ one \notin ToSet(some) /\ P \cap H = {}
              /\ one \in DOMAIN Shape(h) /\ ~Shape(h)[one].mapped /\ Shape(h)[one].size = nb
              /\ ~h.aborted /\ Shape(g) = Shape(h) /\ P \in SUBSET Int
  <2>1. ~h.aborted /\ Layout(h, H, F) /\ Shape(g) = Shape(h)
    BY <1>8, <1>10, <1>11, SoundIs DEF Shape
  <2>2. IsInjective(l)
    BY <1>1, <2>1 DEF Layout, Distinct
  <2> HIDE DEF l, idx, n
  <2>3. /\ IsInjective(some) /\ IsInjective(left)
        /\ one \notin ToSet(some) /\ one \in ToSet(l) /\ ToSet(some) \subseteq ToSet(l)
        /\ ToSet(left) = ToSet(l) \ P
    BY <1>2, <1>4, <2>2, FirstOnes
  <2> HIDE DEF t, some, left, one
  <2>4. ToSet(l) \in SUBSET Int
    <3>1. ToSet(l) \subseteq Aligned
      BY <1>2, ToSetType
    <3> QED BY <3>1 DEF Aligned
  <2>5. P \subseteq ToSet(l) /\ P \in SUBSET Int
    BY <2>3, <2>4
  <2> HIDE DEF P
  <2>6. Layout(g, H \union P, F)
    BY <1>1, <1>10, <2>1, <2>3, <2>5, OutOfFast DEF l
  <2>7. ASSUME NEW p \in P
        PROVE  p \in DOMAIN Shape(h) /\ p \notin H /\ ~Shape(h)[p].mapped /\ Shape(h)[p].size = nb
    <3>1. p \in ToSet(h.fast[idx]) /\ p \in Int
      BY <2>5, <2>7 DEF l
    <3>2. p \in DOMAIN Shape(h) /\ p \notin H /\ ~Shape(h)[p].mapped /\ fastbin_index(Shape(h)[p].size) = idx
      BY <1>1, <2>1, <3>1, InFastIs
    <3>3. Shape(h)[p].size \in Aligned
      <4>1. Shape(h)[p].size = chunksize(h, p)
        BY <3>2, SizeIs
      <4> QED BY <1>1, <4>1, HeadFields
    <3>4. Shape(h)[p].size = nb
      BY <1>1, <3>2, <3>3, OneSize DEF idx
    <3> QED BY <3>2, <3>4
  <2>8. one \in P /\ ToSet(some) \subseteq P
    BY DEF P
  <2>9. some # << >> => i \in 0 .. TCACHE_MAX_BINS - 1 /\ HasTcache(g)
    BY <1>5, <1>7, <1>10 DEF HasTcache
  <2>10. \A p \in ToSet(some) : ~Shape(g)[p].mapped /\ csize2tidx(Shape(g)[p].size) = i
    BY <2>1, <2>7, <2>8
  <2>11. Stashes(g, H \union P, i, some)
    <3> HIDE DEF i
    <3> QED BY <1>7, <2>3, <2>8, <2>9, <2>10 DEF Stashes
  <2> QED BY <2>1, <2>3, <2>5, <2>6, <2>7, <2>8, <2>11
<1> HIDE DEF one, some, left, n, t, l, idx, P
<1>12. k \in Reach(h, H \union {one}, F, H) /\ (~k.aborted => one \notin H /\ Fits(k, one, nb))
  <2>1. CASE g.aborted
    <3>1. k \in Good /\ k.aborted
      BY <1>7, <1>9, <2>1, StashAborts
    <3> QED BY <3>1 DEF Reach, Sound, Onward
  <2>2. CASE ~g.aborted
    <3> DEFINE K == H \union P
    <3>1. g \in Sound(K, F) /\ K \in SUBSET Int /\ Stashes(g, K, i, some)
      BY <1>9, <1>11, <2>2 DEF Sound
    <3>2. K \ ToSet(some) = H \union {one}
      BY <1>11, <2>2 DEF P
    <3> HIDE DEF K, i, k
    <3>3. k \in Reach(g, K \ ToSet(some), F, H) /\ Shape(k) = Shape(g)
      BY <3>1, StashIsSound DEF k
    <3>4. Onward(h, g, H)
      BY <1>10, <1>11, <2>2 DEF Onward
    <3>5. k \in Sound(H \union {one}, F) /\ Onward(g, k, H)
      BY <3>2, <3>3 DEF Reach
    <3>6. Onward(h, k, H)
      BY <3>4, <3>5, OnwardTwice
    <3>7. one \notin H /\ Fits(k, one, nb)
      <4>1. one \in P
        BY DEF P
      <4>2. nb \in Int
        BY <1>1 DEF Aligned
      <4> QED BY <1>11, <2>2, <3>3, <4>1, <4>2 DEF Fits
    <3> QED BY <3>5, <3>6, <3>7 DEF Reach
  <2> QED BY <2>1, <2>2
<1> HIDE DEF k
<1>13. one \in Aligned
  BY <1>3
<1>14. Answer(k, one) \in Gives(h, H, F, nb)
  BY <1>12, <1>13, GivesThis
<1> QED BY <1>6, <1>14

(* The first of a list, some after it, and the rest. *)
LEMMA FirstSome ==
  ASSUME NEW A, NEW l \in Seq(A), l # << >>, IsInjective(l), NEW n \in 0 .. Len(l) - 1
  PROVE  LET front == SubSeq(l, 1, n + 1)
             some == SubSeq(l, 2, n + 1)
             rest == SubSeq(l, n + 2, Len(l))
         IN /\ Head(l) \in A /\ front \in Seq(A) /\ some \in Seq(A) /\ rest \in Seq(A)
            /\ IsInjective(some) /\ IsInjective(rest)
            /\ ToSet(front) = {Head(l)} \union ToSet(some) /\ Head(l) \notin ToSet(some)
            /\ ToSet(front) \subseteq ToSet(l) /\ ToSet(rest) = ToSet(l) \ ToSet(front)
            /\ n = 0 => some = << >>
<1> DEFINE front == SubSeq(l, 1, n + 1)
           some == SubSeq(l, 2, n + 1)
           rest == SubSeq(l, n + 2, Len(l))
           m == n + 1
<1>1. m \in 0 .. Len(l) /\ m \in 1 .. Len(l) /\ m + 1 = n + 2 /\ Len(l) \in Nat /\ n \in Nat
  OBVIOUS
<1>2. /\ front \in Seq(A) /\ rest \in Seq(A) /\ IsInjective(front) /\ IsInjective(rest)
      /\ ToSet(front) \cap ToSet(rest) = {} /\ ToSet(front) \union ToSet(rest) = ToSet(l)
  <2> HIDE DEF m
  <2>1. /\ SubSeq(l, 1, m) \in Seq(A) /\ SubSeq(l, m + 1, Len(l)) \in Seq(A)
        /\ IsInjective(SubSeq(l, 1, m)) /\ IsInjective(SubSeq(l, m + 1, Len(l)))
        /\ ToSet(SubSeq(l, 1, m)) \cap ToSet(SubSeq(l, m + 1, Len(l))) = {}
        /\ ToSet(SubSeq(l, 1, m)) \union ToSet(SubSeq(l, m + 1, Len(l))) = ToSet(l)
    BY <1>1, PartsOnce
  <2>2. front = SubSeq(l, 1, m) /\ rest = SubSeq(l, m + 1, Len(l))
    BY <1>1 DEF m
  <2> HIDE DEF front, rest
  <2> QED BY <2>1, <2>2
<1>3. Head(front) = Head(l) /\ Tail(front) = some /\ front # << >>
  <2>1. Len(front) = n + 1
    BY <1>1
  <2>2. Head(front) = l[1] /\ Tail(front) = SubSeq(l, 1 + 1, n + 1)
    BY <1>1, HeadTailOfSubSeq
  <2> QED BY <1>1, <2>1, <2>2
<1>4. n = 0 => some = << >>
  BY <1>1
<1> HIDE DEF front, some, rest
<1>5. /\ Head(l) \in A /\ some \in Seq(A) /\ IsInjective(some)
      /\ ToSet(front) = {Head(l)} \union ToSet(some) /\ Head(l) \notin ToSet(some)
  BY <1>2, <1>3, HeadOnce
<1> QED BY <1>2, <1>4, <1>5 DEF front, some, rest

(* A small bin serves with its last chunk; those before it are cached.     *)
LEMMA FromSmallbinIsSound ==
  ASSUME NEW H \in SUBSET Int, NEW F, NEW h \in Sound(H, F), NEW nb \in Chunky, in_smallbin_range(nb),
         h.bins[bin_index(nb)] # << >>
  PROVE  FromSmallbin(h, nb) \in Gives(h, H, F, nb)
<1> DEFINE b == bin_index(nb)
           list == h.bins[b]
           bin == Reverse(list)
           t == Tail(bin)
           one == Head(bin)
           n == Taken(h, nb, t)
           front == SubSeq(bin, 1, n + 1)
           some == SubSeq(bin, 2, n + 1)
           rest == SubSeq(bin, n + 2, Len(bin))
           left == Reverse(rest)
           g == [h EXCEPT !.bins[b] = left]
           i == csize2tidx(nb)
           u == Used(g, nb, front)
           k == Stash(u, i, some)
<1>1. h \in Good /\ h \in Heaps /\ b \in 2 .. NBINS - 1 /\ b \in 1 .. NBINS - 1 /\ nb \in Aligned /\ nb >= MINSIZE
  BY SoundIs, BinIndexIs DEF Chunky
<1>2. list \in Seq(Aligned) /\ list # << >>
  BY <1>1, GoodBins DEF Lists
<1>3. bin \in Seq(Aligned) /\ bin # << >>
  <2> HIDE DEF list
  <2>1. bin \in Seq(Aligned) /\ Len(bin) = Len(list) /\ Len(list) # 0
    BY <1>2, ReverseType
  <2> HIDE DEF bin
  <2> QED BY <2>1
<1>4. FromSmallbin(h, nb) = Answer(k, one)
  BY DEF FromSmallbin
<1> HIDE DEF bin
<1>5. one \in Aligned /\ t \in Lists /\ Len(t) = Len(bin) - 1 /\ Len(bin) \in Nat
  BY <1>3, HeadAndTail DEF Lists
<1>6. n \in 0 .. Len(bin) - 1
  BY <1>1, <1>5, TakenIs
<1>7. n # 0 => HasTcache(h) /\ i \in 0 .. TCACHE_MAX_BINS - 1
  BY <1>1, <1>5, TakenRoom
<1> HIDE DEF n, t
<1>8. rest \in Seq(Aligned) /\ front \in Seq(Aligned) /\ some \in Seq(Aligned)
  <2>1. n + 2 \in 1 .. Len(bin) + 1 /\ Len(bin) \in 0 .. Len(bin) /\ 1 \in 1 .. Len(bin) + 1
        /\ n + 1 \in 0 .. Len(bin) /\ 2 \in 1 .. Len(bin) + 1
    BY <1>5, <1>6
  <2> QED BY <1>3, <2>1, PartOfList
<1> HIDE DEF one, front, some, rest
<1>9. left \in Seq(Aligned)
  BY <1>8, ReverseType
<1> HIDE DEF left, list
<1>10. g \in Good
  <2>1. b \in h.binmap
    BY <1>1, <1>2, GoodBins DEF BinsAreMarked, list
  <2> HIDE DEF b
  <2> QED BY <1>1, <1>9, <2>1, OneBinKeeps DEF Lists
<1>11. /\ g.mem = h.mem /\ g.top = h.top /\ g.brk = h.brk /\ g.maps = h.maps /\ g.needless = h.needless /\ g.tcache = h.tcache
       /\ g.aborted = h.aborted /\ BinOnly(h, g, b, left)
  <2>1. h.bins \in Bins
    BY <1>1 DEF Heaps
  <2> HIDE DEF b
  <2> QED BY <1>1, <2>1 DEF BinOnly, Heaps, Bins
<1> HIDE DEF g
<1> DEFINE P == ToSet(front)
           K == H \union P
<1>12. ASSUME ~h.aborted
       PROVE  /\ g \in Sound(K, F) /\ K \in SUBSET Int /\ IsInjective(some) /\ (n = 0 => some = << >>)
              /\ P = {one} \union ToSet(some) /\ one \notin ToSet(some) /\ P \cap H = {}
              /\ Shape(g) = Shape(h)
              /\ \A p \in P : p \in DOMAIN Shape(h) /\ ~Shape(h)[p].mapped /\ Shape(h)[p].size = nb
  <2>1. Layout(h, H, F) /\ Shape(g) = Shape(h)
    BY <1>11, <1>12, SoundIs DEF Shape
  <2>2. IsInjective(list)
    BY <1>1, <2>1 DEF Layout, Distinct, list
  <2>3. IsInjective(bin) /\ ToSet(bin) = ToSet(list)
    BY <1>2, <2>2, ReversedOnce DEF bin
  <2>4. /\ IsInjective(some) /\ IsInjective(rest)
        /\ P = {one} \union ToSet(some) /\ one \notin ToSet(some)
        /\ P \subseteq ToSet(bin) /\ ToSet(rest) = ToSet(bin) \ P
        /\ n = 0 => some = << >>
    <3>1. n \in 0 .. Len(bin) - 1 /\ bin # << >>
      BY <1>3, <1>6
    <3> QED BY <1>3, <2>3, <3>1, FirstSome DEF one, front, some, rest
  <2> HIDE DEF P
  <2>5. IsInjective(left) /\ ToSet(left) = ToSet(list) \ P
    <3>1. IsInjective(left) /\ ToSet(left) = ToSet(rest)
      BY <1>8, <2>4, ReversedOnce DEF left
    <3> QED BY <2>3, <2>4, <3>1
  <2>6. P \subseteq ToSet(list) /\ P \in SUBSET Int
    <3>1. ToSet(list) \subseteq Aligned
      BY <1>2, ToSetType
    <3> QED BY <2>3, <2>4, <3>1 DEF Aligned
  <2>7. Layout(g, K, F)
    <3> HIDE DEF b
    <3> QED BY <1>1, <1>11, <2>1, <2>5, <2>6, OutOfBin DEF list
  <2>8. ASSUME NEW p \in P
        PROVE  p \in DOMAIN Shape(h) /\ p \notin H /\ ~Shape(h)[p].mapped /\ Shape(h)[p].size = nb
    <3>1. p \in ToSet(h.bins[b]) /\ p \in Int
      BY <2>6, <2>8 DEF list
    <3>2. p \in DOMAIN Shape(h) /\ p \notin H /\ ~Shape(h)[p].mapped /\ bin_index(Shape(h)[p].size) = b /\ Shape(h)[p].size >= MINSIZE
      <4> HIDE DEF b
      <4> QED BY <1>1, <2>1, <3>1, InBinIs
    <3>3. Shape(h)[p].size \in Aligned
      <4>1. Shape(h)[p].size = chunksize(h, p)
        BY <3>2, SizeIs
      <4> QED BY <1>1, <4>1, HeadFields
    <3>4. nb = Shape(h)[p].size
      BY <1>1, <3>2, <3>3, OneSize
    <3> QED BY <3>2, <3>4
  <2>9. g \in Sound(K, F) /\ K \in SUBSET Int
    BY <1>10, <2>6, <2>7 DEF Sound
  <2> QED BY <2>1, <2>4, <2>8, <2>9
<1> HIDE DEF P, b, bin, list
<1>13. k \in Reach(h, H \union {one}, F, H) /\ (~k.aborted => one \notin H /\ Fits(k, one, nb))
  <2>1. CASE h.aborted
    <3>1. u \in Good /\ u.aborted
      BY <1>1, <1>8, <1>10, <1>11, <2>1, UsedAborts
    <3> HIDE DEF u
    <3>2. k \in Good /\ k.aborted
      BY <1>8, <3>1, StashAborts
    <3> QED BY <3>2 DEF Reach, Sound, Onward
  <2>2. CASE ~h.aborted
    <3>1. g \in Sound(K, F) /\ K \in SUBSET Int /\ ToSet(some) \subseteq K /\ K \ ToSet(some) = H \union {one} /\ one \in P
      BY <1>12, <2>2
    <3> DEFINE C == H
    <3>2. Uses(g, K, nb, front)
      <4>1. \A p \in P : ~Shape(g)[p].mapped /\ Shape(g)[p].size = nb
        BY <1>12, <2>2
      <4>2. P \subseteq K
        OBVIOUS
      <4> HIDE DEF K
      <4> QED BY <1>8, <4>1, <4>2 DEF Uses, P
    <3> HIDE DEF K
    <3>3. u \in Reach(g, K, F, H) /\ u \in Sound(K, F) /\ HeadsOnly(g, u) /\ Shape(u) = Shape(g)
      <4>1. ~g.aborted
        BY <1>11, <2>2
      <4> QED BY <1>1, <3>1, <3>2, <4>1, UsedIsSound
    <3> HIDE DEF u
    <3>4. Stashes(u, K, i, some)
      <4>1. some # << >> => i \in 0 .. TCACHE_MAX_BINS - 1 /\ HasTcache(u)
        BY <1>7, <1>11, <1>12, <2>2, <3>3 DEF HasTcache, HeadsOnly
      <4>2. \A p \in ToSet(some) : p \in P
        BY <1>12, <2>2
      <4>3. \A p \in ToSet(some) : ~Shape(u)[p].mapped /\ csize2tidx(Shape(u)[p].size) = i
        BY <1>12, <2>2, <3>3, <4>2
      <4> HIDE DEF i
      <4> QED BY <1>8, <1>12, <2>2, <3>1, <4>1, <4>3 DEF Stashes
    <3> HIDE DEF i, k
    <3>5. k \in Reach(u, K \ ToSet(some), F, H) /\ Shape(k) = Shape(u)
      BY <3>1, <3>3, <3>4, StashIsSound DEF k
    <3>6. Onward(h, g, H) /\ Onward(g, u, H)
      BY <1>11, <1>12, <2>2, <3>3 DEF Onward, Reach
    <3>7. k \in Sound(H \union {one}, F) /\ Onward(u, k, H)
      BY <3>1, <3>5 DEF Reach
    <3>8. Onward(h, k, H)
      <4>1. Onward(h, u, H)
        BY <3>6, OnwardTwice
      <4> QED BY <3>7, <4>1, OnwardTwice
    <3>9. one \notin H /\ Fits(k, one, nb)
      <4>1. nb \in Int
        BY <1>1 DEF Aligned
      <4>2. one \notin H /\ ~Shape(k)[one].mapped /\ Shape(k)[one].size = nb /\ one \in DOMAIN Shape(k)
        BY <1>12, <2>2, <3>1, <3>3, <3>5
      <4> QED BY <4>1, <4>2 DEF Fits
    <3> QED BY <3>7, <3>8, <3>9 DEF Reach
  <2> QED BY <2>1, <2>2
<1> HIDE DEF k
<1>14. Answer(k, one) \in Gives(h, H, F, nb)
  BY <1>5, <1>13, GivesThis
<1> QED BY <1>4, <1>14

(* An aborted heap is sound, whatever it was. *)
LEMMA AbortedReaches ==
  ASSUME NEW g \in Good, g.aborted, NEW h, NEW K, NEW F, NEW C
  PROVE  g \in Reach(h, K, F, C) /\ g \in Sound(K, F)
BY DEF Reach, Sound, Onward

(* The last unsorted chunk, p, is taken in hand. *)
Popped(h) == [h EXCEPT !.bins[1] = Front(@)]

TakesUnsorted(h, g, H, F, p) ==
  /\ g \in Reach(h, H \union {p}, F, H) /\ g.aborted = h.aborted
  /\ g.fast = h.fast /\ g.have_fastchunks = h.have_fastchunks
  /\ ~g.aborted => /\ p \notin H /\ p \in DOMAIN Shape(g) /\ ~Shape(g)[p].mapped
                   /\ g.bins = [h.bins EXCEPT ![1] = Front(h.bins[1])]

(* The last unsorted chunk leaves its list for the hand. *)
LEMMA UnsortedIsTaken ==
  ASSUME NEW H \in SUBSET Int, NEW F, NEW h \in Sound(H, F), NEW p \in Aligned,
         ~h.aborted => h.bins[1] # << >> /\ p = Last(h.bins[1])
  PROVE  TakesUnsorted(h, Popped(h), H, F, p)
<1> DEFINE list == h.bins[1]
           left == Front(list)
           g == [h EXCEPT !.bins[1] = left]
           P == {p}
<1>1. h \in Good /\ h \in Heaps /\ (~h.aborted => Layout(h, H, F)) /\ 1 \in 1 .. NBINS - 1 /\ 1 \notin 2 .. NBINS - 1
  <2>1. 1 \in 1 .. NBINS - 1
    BY PtAssumption DEF MALLOC_ALIGNMENT, MINSIZE, SIZE_SZ
  <2> QED BY <2>1, SoundIs
<1>2. list \in Seq(Aligned)
  BY <1>1, GoodBins DEF Lists
<1>3. left \in Lists
  BY <1>2, FrontType DEF Lists
<1> HIDE DEF left
<1>4. g \in Good
  BY <1>1, <1>3, OneBinKeeps
<1>5. /\ g.mem = h.mem /\ g.top = h.top /\ g.brk = h.brk /\ g.maps = h.maps /\ g.needless = h.needless /\ g.tcache = h.tcache
      /\ g.aborted = h.aborted /\ g.fast = h.fast /\ g.have_fastchunks = h.have_fastchunks
      /\ g.bins = [h.bins EXCEPT ![1] = left] /\ BinOnly(h, g, 1, left)
  <2>1. h.bins \in Bins
    BY <1>1 DEF Heaps
  <2> QED BY <1>1, <2>1 DEF BinOnly, Heaps, Bins
<1> HIDE DEF g, list
<1>6. ASSUME ~h.aborted
      PROVE  g \in Sound(H \union P, F) /\ p \notin H /\ p \in DOMAIN Shape(g) /\ ~Shape(g)[p].mapped /\ Shape(g) = Shape(h)
  <2>1. Layout(h, H, F) /\ Shape(g) = Shape(h) /\ list # << >> /\ p = Last(list)
    BY <1>1, <1>5, <1>6 DEF Shape, list
  <2>2. IsInjective(list)
    BY <1>1, <2>1 DEF Layout, Distinct, list
  <2>3. IsInjective(left) /\ ToSet(list) = P \union ToSet(left) /\ p \notin ToSet(left)
    BY <1>2, <2>1, <2>2, LastOnce DEF left
  <2>4. P \subseteq ToSet(list) /\ P \in SUBSET Int /\ ToSet(left) = ToSet(list) \ P /\ p \in P /\ p \in Int
    BY <2>3 DEF Aligned
  <2> HIDE DEF P
  <2>5. Layout(g, H \union P, F)
    BY <1>1, <1>5, <2>1, <2>3, <2>4, OutOfBin DEF list
  <2>6. p \in DOMAIN Shape(h) /\ p \notin H /\ ~Shape(h)[p].mapped
    BY <1>1, <2>1, <2>4, InBinIs DEF list
  <2> QED BY <1>4, <2>1, <2>5, <2>6 DEF Sound
<1>7. g \in Reach(h, H \union {p}, F, H)
  <2>1. CASE h.aborted
    BY <1>4, <1>5, <2>1, AbortedReaches
  <2>2. CASE ~h.aborted
    <3>1. Onward(h, g, H)
      BY <1>5, <1>6, <2>2 DEF Onward
    <3> QED BY <1>6, <2>2, <3>1 DEF Reach
  <2> QED BY <2>1, <2>2
<1>8. TakesUnsorted(h, g, H, F, p)
  BY <1>5, <1>6, <1>7 DEF TakesUnsorted, left, list
<1> QED BY <1>8 DEF g, left, list, Popped

(* What cannot serve a request of nb before cannot after. *)
Quiet(h, g, nb) ==
  ~g.aborted => /\ g.fast = h.fast /\ g.have_fastchunks = h.have_fastchunks
                /\ in_smallbin_range(nb) /\ h.bins[bin_index(nb)] = << >> => g.bins[bin_index(nb)] = << >>

(* A turn of the loop over the unsorted chunks; l are those that are left. *)
Sorting(h, H, F, nb, s, l) ==
  /\ s \in Turns(nb) /\ Answer(s.h, s.p) \in Gives(h, H, F, nb)
  /\ s.p = NULL => Quiet(h, s.h, nb) /\ (~s.h.aborted => s.h.bins[1] = l)

(* A chunk p in hand that a turn is about. *)
Turning(h, H, F, nb, s, l, p) ==
  /\ s \in Turns(nb) /\ s.p = NULL /\ s.h \in Reach(h, H \union {p}, F, H)
  /\ ~s.h.aborted => /\ p \notin H /\ p \in DOMAIN Shape(s.h) /\ ~Shape(s.h)[p].mapped
                     /\ s.h.bins[1] = l /\ Quiet(h, s.h, nb)

(* What follows for it. *)
TurnsOn(h, H, F, nb, s, l, p) ==
  /\ s \in Turns(nb) /\ s.p = NULL /\ s.h \in Good /\ s.h \in Heaps /\ s.h \in Reach(h, H \union {p}, F, H)
  /\ s.h \in Sound(H \union {p}, F) /\ H \union {p} \in SUBSET Int /\ p \in H \union {p}
  /\ ~s.h.aborted => /\ p \notin H /\ p \in DOMAIN Shape(s.h) /\ ~Shape(s.h)[p].mapped
                     /\ s.h.bins[1] = l /\ Quiet(h, s.h, nb) /\ (H \union {p}) \ {p} = H
                     /\ Shape(s.h)[p].size = chunksize(s.h, p)
  /\ nb \in Aligned /\ nb \in Int /\ nb >= MINSIZE /\ chunksize(s.h, p) \in Aligned /\ chunksize(s.h, p) \in Int

(* A turn of the loop of _int_malloc: the chunk in hand serves the         *)
(* request, goes to the cache, or to the bin of its size.                  *)
LEMMA TurningIs ==
  ASSUME NEW h, NEW H \in SUBSET Int, NEW F, NEW nb \in Chunky, NEW s, NEW l, NEW p \in Aligned, Turning(h, H, F, nb, s, l, p)
  PROVE  TurnsOn(h, H, F, nb, s, l, p)
<1>1. s \in Turns(nb) /\ s.p = NULL /\ s.h \in Good /\ s.h \in Heaps /\ s.h \in Reach(h, H \union {p}, F, H)
      /\ s.h \in Sound(H \union {p}, F)
  BY TurnIs, ReachIs DEF Turning
<1>2. H \union {p} \in SUBSET Int /\ p \in H \union {p} /\ nb \in Aligned /\ nb \in Int /\ nb >= MINSIZE
  BY DEF Aligned, Chunky
<1>3. chunksize(s.h, p) \in Aligned
  BY <1>1, HeadFields
<1>4. ~s.h.aborted => Shape(s.h)[p].size = chunksize(s.h, p)
  BY SizeIs DEF Turning
<1>5. chunksize(s.h, p) \in Int
  BY <1>3 DEF Aligned
<1>6. ~s.h.aborted => /\ p \notin H /\ p \in DOMAIN Shape(s.h) /\ ~Shape(s.h)[p].mapped
                      /\ s.h.bins[1] = l /\ Quiet(h, s.h, nb) /\ (H \union {p}) \ {p} = H
  BY DEF Turning
<1> QED BY <1>1, <1>2, <1>3, <1>4, <1>5, <1>6 DEF TurnsOn

(* It has the right size. *)
LEMMA SortServes ==
  ASSUME NEW h, NEW H \in SUBSET Int, NEW F, NEW nb \in Chunky, NEW s, NEW l, NEW p \in Aligned, Turning(h, H, F, nb, s, l, p),
         chunksize(s.h, p) = nb
  PROVE  Answer(set_inuse_bit(s.h, p + nb), p) \in Gives(h, H, F, nb)
<1> DEFINE K == H \union {p}
           g == s.h
           k == set_inuse_bit(g, p + nb)
<1>1. /\ g \in Sound(K, F) /\ g \in Reach(h, K, F, H) /\ K \in SUBSET Int /\ p \in K /\ nb \in Aligned /\ nb \in Int
      /\ ~g.aborted => p \notin H /\ p \in DOMAIN Shape(g) /\ ~Shape(g)[p].mapped /\ Shape(g)[p].size = nb
  <2>1. TurnsOn(h, H, F, nb, s, l, p)
    BY TurningIs
  <2> QED BY <2>1 DEF TurnsOn
<1> HIDE DEF K, g, k
<1>2. k \in Reach(g, K, F, H) /\ (~g.aborted => Shape(k) = Shape(g))
  BY <1>1, InuseIsSound DEF k
<1>3. k \in Reach(h, K, F, H)
  BY <1>1, <1>2, ReachTwice
<1>4. ~k.aborted => ~g.aborted
  BY <1>2, ReachIs
<1>5. ~k.aborted => p \notin H /\ Fits(k, p, nb)
  BY <1>1, <1>2, <1>4 DEF Fits
<1>6. Answer(k, p) \in Gives(h, H, F, nb)
  BY <1>3, <1>5, GivesThis DEF K
<1> QED BY <1>6 DEF k, g

(* It is split: the remainder of the request before. *)
LEMMA SortSplits ==
  ASSUME NEW h, NEW H \in SUBSET Int, NEW F, NEW nb \in Chunky, NEW s, NEW l, NEW p \in Aligned, Turning(h, H, F, nb, s, l, p),
         chunksize(s.h, p) > nb + MINSIZE
  PROVE  Answer(Serve([s.h EXCEPT !.last_remainder = p + nb], p, nb), p) \in Gives(h, H, F, nb)
<1> DEFINE K == H \union {p}
           g == s.h
           w == [g EXCEPT !.last_remainder = p + nb]
           k == Serve(w, p, nb)
           size == chunksize(g, p)
<1>1. /\ g \in Sound(K, F) /\ g \in Reach(h, K, F, H) /\ K \in SUBSET Int /\ p \in K /\ nb \in Aligned /\ nb \in Int /\ nb >= MINSIZE
      /\ ~g.aborted => p \notin H /\ p \in DOMAIN Shape(g) /\ ~Shape(g)[p].mapped /\ Shape(g)[p].size = size /\ K \ {p} = H
      /\ size \in Int /\ g \in Good /\ g \in Heaps
  <2>1. TurnsOn(h, H, F, nb, s, l, p)
    BY TurningIs
  <2> QED BY <2>1 DEF TurnsOn
<1>2. size > nb + MINSIZE /\ p + nb \in Aligned
  BY <1>1, EvenSums
<1> HIDE DEF K, g, size
<1>3. w \in Good /\ SameLayout(g, w) /\ w.aborted = g.aborted /\ Shape(w) = Shape(g)
  <2>1. w \in Good
    BY <1>1, <1>2, OtherFields
  <2> QED BY <1>1, <2>1 DEF SameLayout, Heaps, Shape
<1> HIDE DEF w
<1>4. w \in Sound(K, F) /\ Onward(g, w, H)
  BY <1>1, <1>3, SoundFrame
<1>5. ~w.aborted => ~Shape(w)[p].mapped /\ Shape(w)[p].size >= nb
  BY <1>1, <1>2, <1>3 DEF MINSIZE, SIZE_SZ
<1> HIDE DEF k
<1>6. /\ k \in Reach(w, K, F, K \ {p})
      /\ ~k.aborted => p \in DOMAIN Shape(k) /\ ~Shape(k)[p].mapped /\ Shape(k)[p].size >= nb
  BY <1>1, <1>4, <1>5, ServeIsSound DEF k
<1>7. ~k.aborted => ~g.aborted
  BY <1>3, <1>6, ReachIs
<1>8. k \in Reach(h, K, F, H)
  <2>1. CASE k.aborted
    BY <1>6, <2>1, AbortedReaches, ReachIs
  <2>2. CASE ~k.aborted
    <3>1. K \ {p} = H
      BY <1>1, <1>7, <2>2
    <3>2. w \in Reach(h, K, F, H)
      <4>1. w \in Reach(g, K, F, H)
        BY <1>4 DEF Reach
      <4> QED BY <1>1, <4>1, ReachTwice
    <3> QED BY <1>6, <3>1, <3>2, ReachTwice
  <2> QED BY <2>1, <2>2
<1>9. ~k.aborted => p \notin H /\ Fits(k, p, nb)
  BY <1>1, <1>6, <1>7 DEF Fits
<1>10. Answer(k, p) \in Gives(h, H, F, nb)
  BY <1>8, <1>9, GivesThis DEF K
<1> QED BY <1>10 DEF k, w, g

(* A chunk of the cache has the size that is asked for. *)
LEMMA CachedServes ==
  ASSUME NEW h, NEW H \in SUBSET Int, NEW F, NEW nb \in Chunky, NEW g \in Reach(h, H, F, H), Cached(g, nb)
  PROVE  tcache_get(g, csize2tidx(nb)) \in Gives(h, H, F, nb)
<1> DEFINE i == csize2tidx(nb)
           a == tcache_get(g, i)
           k == a.h
           p == a.p
           K == H \union {p}
<1>1. g \in Sound(H, F) /\ i \in 0 .. TCACHE_MAX_BINS - 1 /\ g.entries[i] # << >> /\ nb \in Aligned /\ nb \in Int
  BY ReachIs DEF Cached, Chunky, Aligned
<1> HIDE DEF i
<1>2. /\ k \in Sound(K, F) /\ Onward(g, k, H) /\ p \in Aligned
      /\ ~k.aborted => p \notin H /\ p \in DOMAIN Shape(k) /\ ~Shape(k)[p].mapped /\ csize2tidx(Shape(k)[p].size) = i
  <2>1. Got(tcache_get(g, i), g, H, F, i)
    BY <1>1, TcacheGetIsSound
  <2> QED BY <2>1 DEF Got
<1>3. a = Answer(k, p)
  BY DEF tcache_get, Answer
<1> HIDE DEF a, k, p
<1>4. k \in Reach(h, K, F, H)
  <2>1. k \in Reach(g, K, F, H)
    BY <1>2 DEF Reach
  <2> QED BY <2>1, ReachTwice
<1>5. ~k.aborted => p \notin H /\ Fits(k, p, nb)
  <2> SUFFICES ASSUME ~k.aborted PROVE p \notin H /\ Fits(k, p, nb)
    OBVIOUS
  <2>1. p \in DOMAIN Shape(k) /\ ~Shape(k)[p].mapped /\ csize2tidx(Shape(k)[p].size) = csize2tidx(nb) /\ p \notin H
    BY <1>2 DEF i
  <2>2. Shape(k)[p].size \in Aligned
    <3>1. Shape(k)[p].size = chunksize(k, p) /\ k \in Good
      BY <1>2, <2>1, SizeIs, SoundIs
    <3> QED BY <3>1, HeadFields
  <2>3. Shape(k)[p].size = nb
    BY <1>1, <2>1, <2>2, OneSize
  <2> QED BY <1>1, <2>1, <2>3 DEF Fits
<1>6. Answer(k, p) \in Gives(h, H, F, nb)
  BY <1>2, <1>4, <1>5, GivesThis DEF K
<1> QED BY <1>3, <1>6 DEF a, i

(* The limit of unsorted chunks that a request looks at: a chunk of the    *)
(* cache is returned.                                                      *)
LEMMA UncachedIsSound ==
  ASSUME NEW h, NEW H \in SUBSET Int, NEW F, NEW nb \in Chunky, NEW s, NEW l, Sorting(h, H, F, nb, s, l), s.p = NULL
  PROVE  Sorting(h, H, F, nb, Uncached(s, nb), l)
<1> DEFINE a == tcache_get(s.h, csize2tidx(nb))
<1>1. CASE Uncached(s, nb) = s
  BY <1>1
<1>2. CASE Uncached(s, nb) # s
  <2>1. Uncached(s, nb) = Found(s, a) /\ s.cached
    BY <1>2 DEF Uncached
  <2>2. s \in Turns(nb) /\ Answer(s.h, NULL) \in Gives(h, H, F, nb)
    BY DEF Sorting
  <2>3. Cached(s.h, nb) /\ s.h \in Good
    BY <2>1, <2>2, TurnIs
  <2>4. s.h \in Reach(h, H, F, H)
    <3>1. Answer(s.h, NULL).h = s.h /\ Answer(s.h, NULL).p = NULL
      BY DEF Answer
    <3> QED BY <2>2, <3>1, GivesIs
  <2>5. a \in Gives(h, H, F, nb)
    BY <2>3, <2>4, CachedServes
  <2>6. a.p # NULL
    <3>1. csize2tidx(nb) \in 0 .. TCACHE_MAX_BINS - 1 /\ s.h.entries[csize2tidx(nb)] # << >>
      BY <2>3 DEF Cached
    <3>2. a.p \in Aligned
      BY <2>3, <3>1, TcacheGetKeeps
    <3> QED BY <3>2, PtAssumption DEF Aligned
  <2>7. Uncached(s, nb) \in Turns(nb)
    BY <2>2, UncachedKeeps
  <2> HIDE DEF a
  <2>8. Found(s, a).h = a.h /\ Found(s, a).p = a.p
    BY <2>2 DEF Found, Turns
  <2>9. a = Answer(a.h, a.p)
    BY <2>5 DEF Gives, Answer
  <2> QED BY <2>1, <2>5, <2>6, <2>7, <2>8, <2>9 DEF Sorting
<1> QED BY <1>1, <1>2

(* It goes to its bin. *)
LEMMA SortPlaces ==
  ASSUME NEW h, NEW H \in SUBSET Int, NEW F, NEW nb \in Chunky, NEW s, NEW l, NEW p \in Aligned, Turning(h, H, F, nb, s, l, p),
         chunksize(s.h, p) # nb
  PROVE  Sorting(h, H, F, nb, [s EXCEPT !.h = PlaceInBin(s.h, p), !.count = s.count + 1], l)
<1> DEFINE K == H \union {p}
           g == s.h
           k == PlaceInBin(g, p)
           size == chunksize(g, p)
           b == bin_index(size)
           t == [s EXCEPT !.h = k, !.count = s.count + 1]
<1>1. /\ g \in Sound(K, F) /\ g \in Reach(h, K, F, H) /\ K \in SUBSET Int /\ p \in K /\ nb \in Aligned /\ nb \in Int /\ nb >= MINSIZE
      /\ ~g.aborted => /\ p \notin H /\ p \in DOMAIN Shape(g) /\ ~Shape(g)[p].mapped /\ Shape(g)[p].size = size /\ K \ {p} = H
                       /\ g.bins[1] = l /\ Quiet(h, g, nb)
      /\ size \in Int /\ size \in Aligned /\ g \in Good /\ g \in Heaps /\ s.p = NULL /\ s \in Turns(nb)
  <2>1. TurnsOn(h, H, F, nb, s, l, p)
    BY TurningIs
  <2> QED BY <2>1 DEF TurnsOn
<1>2. t \in Turns(nb) /\ t.p = NULL /\ t.h = k
  <2>1. k \in Good /\ k.entries = g.entries
    BY <1>1, PlaceInBinKeeps
  <2> HIDE DEF k, g
  <2>2. t \in Turns(nb)
    BY <1>1, <2>1, TurnsKeep DEF g
  <2>3. t.p = s.p /\ t.h = k
    BY <1>1 DEF Turns
  <2> QED BY <1>1, <2>2, <2>3
<1>3. k.fast = g.fast /\ k.have_fastchunks = g.have_fastchunks /\ k.aborted = g.aborted
  BY <1>1 DEF PlaceInBin, Place, Heaps
<1> HIDE DEF K, g, k, size, t
<1>4. /\ k \in Sound(K \ {p}, F) /\ Onward(g, k, H)
      /\ ~g.aborted => /\ b \in 2 .. NBINS - 1
                       /\ \A x \in (1 .. NBINS - 1) \ {b} : k.bins[x] = g.bins[x]
  <2>1. ~g.aborted => ~Shape(g)[p].mapped
    BY <1>1
  <2>2. /\ k \in Sound(K \ {p}, F) /\ Onward(g, k, H)
        /\ ~g.aborted => /\ bin_index(Shape(g)[p].size) \in 2 .. NBINS - 1
                         /\ \A x \in (1 .. NBINS - 1) \ {bin_index(Shape(g)[p].size)} : k.bins[x] = g.bins[x]
    BY <1>1, <2>1, PlaceInBinIsSound DEF k
  <2>3. ~g.aborted => bin_index(Shape(g)[p].size) = b
    BY <1>1
  <2> HIDE DEF b
  <2> QED BY <2>2, <2>3
<1>5. k \in Reach(h, H, F, H)
  <2>1. CASE k.aborted
    BY <1>4, <2>1, AbortedReaches, SoundIs
  <2>2. CASE ~k.aborted
    <3>1. k \in Reach(g, H, F, H)
      BY <1>1, <1>3, <1>4, <2>2 DEF Reach
    <3> QED BY <1>1, <3>1, ReachTwice
  <2> QED BY <2>1, <2>2
<1>6. Answer(k, NULL) \in Gives(h, H, F, nb)
  BY <1>5, GivesNothing
<1>7. ASSUME ~k.aborted PROVE k.bins[1] = l /\ Quiet(h, k, nb)
  <2>1. 1 \in 1 .. NBINS - 1 /\ 1 # b /\ ~g.aborted
    BY <1>3, <1>4, <1>7, PtAssumption DEF MALLOC_ALIGNMENT, MINSIZE, SIZE_SZ
  <2>2. k.bins[1] = g.bins[1]
    BY <1>4, <2>1
  <2>3. ASSUME in_smallbin_range(nb) PROVE k.bins[bin_index(nb)] = g.bins[bin_index(nb)]
    <3>1. size >= MINSIZE
      <4>1. Layout(g, K, F)
        BY <1>1, <2>1, SoundIs
      <4> QED BY <1>1, <2>1, <4>1, InHand
    <3>2. bin_index(nb) # b
      BY <1>1, <2>3, <3>1, OneSize DEF size, g
    <3>3. bin_index(nb) \in 1 .. NBINS - 1
      BY BinIndexIs
    <3> QED BY <1>4, <2>1, <3>2, <3>3
  <2> HIDE DEF b
  <2> QED BY <1>1, <1>3, <2>1, <2>2, <2>3 DEF Quiet
<1>8. Quiet(h, k, nb)
  BY <1>7 DEF Quiet
<1>9. Sorting(h, H, F, nb, t, l)
  BY <1>2, <1>6, <1>7, <1>8 DEF Sorting
<1> QED BY <1>9 DEF t, k, g

(* It goes to the cache. *)
LEMMA SortCaches ==
  ASSUME NEW h, NEW H \in SUBSET Int, NEW F, NEW nb \in Chunky, NEW s, NEW l, NEW p \in Aligned, Turning(h, H, F, nb, s, l, p),
         chunksize(s.h, p) = nb, Cacheable(s.h, nb)
  PROVE  Sorting(h, H, F, nb, [s EXCEPT !.h = tcache_put(set_inuse_bit(s.h, p + nb), p, csize2tidx(nb)), !.cached = TRUE], l)
<1> DEFINE K == H \union {p}
           g == s.h
           i == csize2tidx(nb)
           u == set_inuse_bit(g, p + nb)
           k == tcache_put(u, p, i)
           t == [s EXCEPT !.h = k, !.cached = TRUE]
<1>1. /\ g \in Sound(K, F) /\ g \in Reach(h, K, F, H) /\ K \in SUBSET Int /\ p \in K /\ nb \in Aligned /\ nb \in Int /\ nb >= MINSIZE
      /\ ~g.aborted => /\ p \notin H /\ p \in DOMAIN Shape(g) /\ ~Shape(g)[p].mapped /\ Shape(g)[p].size = nb /\ K \ {p} = H
                       /\ g.bins[1] = l /\ Quiet(h, g, nb)
      /\ g \in Good /\ g \in Heaps /\ s.p = NULL /\ s \in Turns(nb)
  <2>1. TurnsOn(h, H, F, nb, s, l, p)
    BY TurningIs
  <2> QED BY <2>1 DEF TurnsOn
<1>2. i \in 0 .. TCACHE_MAX_BINS - 1 /\ HasTcache(g)
  BY TidxIs DEF Cacheable
<1>3. u \in Good /\ p + nb \in Aligned
  BY <1>1, EvenSums, HeadsKeep
<1>4. t \in Turns(nb) /\ t.p = NULL /\ t.h = k
  <2> HIDE DEF u, i
  <2>1. k \in Good /\ k.entries[i] # << >>
    BY <1>2, <1>3, TcachePutKeeps
  <2>2. Cached(k, nb)
    BY <1>2, <2>1 DEF Cached, i
  <2> HIDE DEF k, g
  <2>3. t \in Turns(nb)
    BY <1>1, <2>1, <2>2, TurnsKeep DEF g
  <2>4. t.p = s.p /\ t.h = k
    BY <1>1 DEF Turns
  <2> QED BY <1>1, <2>3, <2>4
<1> HIDE DEF i
<1>5. u.fast = g.fast /\ u.have_fastchunks = g.have_fastchunks /\ u.aborted = g.aborted /\ u.bins = g.bins /\ u.tcache = g.tcache
  BY <1>1 DEF set_inuse_bit, Put, Heaps
<1>6. k.fast = u.fast /\ k.have_fastchunks = u.have_fastchunks /\ k.aborted = u.aborted /\ k.bins = u.bins
  <2>1. u \in Heaps
    BY <1>3 DEF Good
  <2> HIDE DEF u
  <2> QED BY <2>1 DEF tcache_put, Heaps
<1> HIDE DEF K, g, k, u, t
<1>7. u \in Reach(g, K, F, H) /\ u \in Sound(K, F) /\ (~g.aborted => Shape(u) = Shape(g))
  BY <1>1, InuseIsSound DEF u
<1>8. k \in Sound(K \ {p}, F) /\ Onward(u, k, H)
  <2>1. HasTcache(u) /\ (~u.aborted => ~Shape(u)[p].mapped /\ csize2tidx(Shape(u)[p].size) = i)
    BY <1>1, <1>2, <1>5, <1>7 DEF i, HasTcache
  <2> QED BY <1>1, <1>2, <1>7, <2>1, TcachePutIsSound DEF k
<1>9. k \in Reach(h, H, F, H)
  <2>1. CASE k.aborted
    BY <1>8, <2>1, AbortedReaches, SoundIs
  <2>2. CASE ~k.aborted
    <3>1. k \in Reach(u, H, F, H) /\ u \in Reach(h, K, F, H)
      BY <1>1, <1>5, <1>6, <1>7, <1>8, <2>2, ReachTwice DEF Reach
    <3> QED BY <3>1, ReachTwice
  <2> QED BY <2>1, <2>2
<1>10. Answer(k, NULL) \in Gives(h, H, F, nb)
  BY <1>9, GivesNothing
<1>11. ~k.aborted => k.bins[1] = l /\ Quiet(h, k, nb)
  BY <1>1, <1>5, <1>6 DEF Quiet
<1>12. Quiet(h, k, nb)
  BY <1>11 DEF Quiet
<1>13. Sorting(h, H, F, nb, t, l)
  BY <1>4, <1>10, <1>11, <1>12 DEF Sorting
<1> QED BY <1>13 DEF t, k, u, g, i

(* The cases of a turn together. *)
LEMMA SortOutIsSound ==
  ASSUME NEW h, NEW H \in SUBSET Int, NEW F, NEW nb \in Chunky, NEW s, NEW l, NEW p \in Aligned, Turning(h, H, F, nb, s, l, p)
  PROVE  Sorting(h, H, F, nb, SortOut(s, nb, p), l)
<1>1. s \in Turns(nb) /\ s.p = NULL /\ p # NULL
  BY PtAssumption DEF Turning, Aligned
<1>2. SortOut(s, nb, p) \in Turns(nb)
  BY <1>1, SortOutKeeps
<1>3. ASSUME NEW k, Answer(k, p) \in Gives(h, H, F, nb), SortOut(s, nb, p) = [s EXCEPT !.h = k, !.p = p]
      PROVE  Sorting(h, H, F, nb, SortOut(s, nb, p), l)
  <2>1. SortOut(s, nb, p).h = k /\ SortOut(s, nb, p).p = p
    BY <1>1, <1>3 DEF Turns
  <2> QED BY <1>1, <1>2, <1>3, <2>1 DEF Sorting
<1>4. CASE SplitsRemainder(s.h, nb, p)
  <2> DEFINE k == Serve([s.h EXCEPT !.last_remainder = p + nb], p, nb)
  <2>1. chunksize(s.h, p) > nb + MINSIZE
    BY <1>4 DEF SplitsRemainder
  <2>2. Answer(k, p) \in Gives(h, H, F, nb)
    BY <2>1, SortSplits
  <2>3. SortOut(s, nb, p) = [s EXCEPT !.h = k, !.p = p]
    BY <1>4 DEF SortOut
  <2> HIDE DEF k
  <2> QED BY <1>3, <2>2, <2>3
<1>5. CASE ~SplitsRemainder(s.h, nb, p) /\ chunksize(s.h, p) # nb
  <2> DEFINE t == [s EXCEPT !.h = PlaceInBin(s.h, p), !.count = s.count + 1]
  <2>1. Sorting(h, H, F, nb, t, l)
    BY <1>5, SortPlaces
  <2>2. t.p = NULL
    BY <1>1 DEF Turns
  <2>3. SortOut(s, nb, p) = Uncached(t, nb)
    BY <1>5 DEF SortOut
  <2> HIDE DEF t
  <2> QED BY <2>1, <2>2, <2>3, UncachedIsSound
<1>6. CASE ~SplitsRemainder(s.h, nb, p) /\ chunksize(s.h, p) = nb /\ Cacheable(s.h, nb) /\ TcacheRoom(s.h, nb)
  <2> DEFINE t == [s EXCEPT !.h = tcache_put(set_inuse_bit(s.h, p + nb), p, csize2tidx(nb)), !.cached = TRUE]
  <2>1. Sorting(h, H, F, nb, t, l)
    BY <1>6, SortCaches
  <2>2. SortOut(s, nb, p) = t
    BY <1>6 DEF SortOut
  <2> QED BY <2>1, <2>2
<1>7. CASE ~SplitsRemainder(s.h, nb, p) /\ chunksize(s.h, p) = nb /\ ~(Cacheable(s.h, nb) /\ TcacheRoom(s.h, nb))
  <2> DEFINE k == set_inuse_bit(s.h, p + nb)
  <2>1. Answer(k, p) \in Gives(h, H, F, nb)
    BY <1>7, SortServes
  <2>2. SortOut(s, nb, p) = [s EXCEPT !.h = k, !.p = p]
    BY <1>7 DEF SortOut
  <2> HIDE DEF k
  <2> QED BY <1>3, <2>1, <2>2
<1> QED BY <1>4, <1>5, <1>6, <1>7

(* A turn of the loop, with its last chunk taken off the list, keeps what  *)
(* the loop is known to keep.                                              *)
LEMMA SortIsSound ==
  ASSUME NEW h, NEW H \in SUBSET Int, NEW F, NEW nb \in Chunky, NEW s, NEW l, NEW p \in Aligned, Sorting(h, H, F, nb, s, l),
         l # << >>, p = Last(l)
  PROVE  Sorting(h, H, F, nb, Sort(nb, p, s), Front(l))
<1>1. CASE s.p # NULL
  <2>1. Sort(nb, p, s) = s
    BY <1>1 DEF Sort
  <2> QED BY <1>1, <2>1 DEF Sorting
<1>2. CASE s.p = NULL
  <2> DEFINE ok == UnsortedIsSane(s.h, p)
             c == Check(s.h, ok)
             g == Popped(c)
             t == [s EXCEPT !.h = g]
  <2>1. s \in Turns(nb) /\ s.h \in Reach(h, H, F, H) /\ Quiet(h, s.h, nb) /\ (~s.h.aborted => s.h.bins[1] = l)
    <3>1. Answer(s.h, NULL) \in Gives(h, H, F, nb)
      BY <1>2 DEF Sorting
    <3>2. Answer(s.h, NULL).h = s.h /\ Answer(s.h, NULL).p = NULL
      BY DEF Answer
    <3>3. s.h \in Reach(h, H, F, H)
      BY <3>1, <3>2, GivesIs
    <3> QED BY <1>2, <3>3 DEF Sorting
  <2>2. s.h \in Sound(H, F) /\ s.h \in Good
    BY <2>1, ReachIs
  <2> HIDE DEF ok
  <2>3. c \in Sound(H, F) /\ c \in Reach(s.h, H, F, H) /\ c \in Good /\ (~c.aborted => ~s.h.aborted /\ c = s.h)
    BY <2>2, CheckReaches, SoundIs
  <2>4. c.entries = s.h.entries
    BY <2>2, EntriesFrame
  <2> HIDE DEF c
  <2>5. ~c.aborted => c.bins[1] # << >> /\ p = Last(c.bins[1])
    BY <2>1, <2>3
  <2>6. /\ g \in Reach(c, H \union {p}, F, H) /\ g.aborted = c.aborted
        /\ g.fast = c.fast /\ g.have_fastchunks = c.have_fastchunks
        /\ ~g.aborted => /\ p \notin H /\ p \in DOMAIN Shape(g) /\ ~Shape(g)[p].mapped
                         /\ g.bins = [c.bins EXCEPT ![1] = Front(c.bins[1])]
    <3>1. TakesUnsorted(c, g, H, F, p)
      BY <2>3, <2>5, UnsortedIsTaken
    <3> QED BY <3>1 DEF TakesUnsorted
  <2>7. g.entries = s.h.entries
    BY <2>3, <2>4, EntriesFrame DEF Popped
  <2>8. g \in Good
    BY <2>6, ReachIs
  <2> HIDE DEF g
  <2>9. g \in Reach(h, H \union {p}, F, H)
    <3>1. c \in Reach(h, H, F, H)
      BY <2>1, <2>3, ReachTwice
    <3> QED BY <2>6, <3>1, ReachTwice
  <2>10. t \in Turns(nb) /\ t.p = NULL /\ t.h = g
    <3>1. t \in Turns(nb)
      BY <2>1, <2>7, <2>8, TurnsKeep
    <3>2. t.p = NULL /\ t.h = g
      BY <1>2, <2>1 DEF Turns
    <3> QED BY <3>1, <3>2
  <2>11. ASSUME ~g.aborted PROVE g.bins[1] = Front(l) /\ Quiet(h, g, nb)
    <3>1. c = s.h /\ ~s.h.aborted /\ s.h.bins[1] = l /\ ~c.aborted
      BY <2>1, <2>3, <2>6, <2>11
    <3>2. bin_index(nb) \in 2 .. NBINS - 1
      BY BinIndexIs
    <3>3. c.bins \in Bins /\ 1 \in 1 .. NBINS - 1 /\ bin_index(nb) # 1 /\ bin_index(nb) \in 1 .. NBINS - 1
      BY <2>3, <3>2, PtAssumption DEF Good, Heaps
    <3>4. g.bins[1] = Front(l) /\ g.bins[bin_index(nb)] = c.bins[bin_index(nb)]
      BY <2>6, <2>11, <3>1, <3>3 DEF Bins
    <3>5. Quiet(h, g, nb)
      BY <2>1, <2>6, <3>1, <3>4 DEF Quiet
    <3> QED BY <3>4, <3>5
  <2>12. Turning(h, H, F, nb, t, Front(l), p)
    BY <2>6, <2>9, <2>10, <2>11 DEF Turning
  <2> HIDE DEF t
  <2>13. Sorting(h, H, F, nb, SortOut(t, nb, p), Front(l))
    BY <2>12, SortOutIsSound
  <2>14. Sort(nb, p, s) = SortOut(t, nb, p)
    BY <1>2 DEF Sort, t, g, c, ok, Popped
  <2> QED BY <2>13, <2>14
<1> QED BY <1>1, <1>2

(* The least of the indices that are left, which is how the fold takes     *)
(* them.                                                                   *)
LEMMA FirstOfInterval ==
  ASSUME NEW n \in Nat, NEW m \in 1 .. n
  PROVE  LET s == (n - m + 1) .. n
         IN /\ Min(s) = n - m + 1 /\ s \ {n - m + 1} = (n - (m - 1) + 1) .. n
            /\ s # {} /\ s \in SUBSET (1 .. n)
<1> DEFINE s == (n - m + 1) .. n
           k == n - m + 1
<1>1. k \in Int /\ k \in s /\ \A x \in s : k <= x
  OBVIOUS
<1>2. s \in SUBSET (1 .. n) /\ s # {}
  BY <1>1
<1>3. s \ {k} = (n - (m - 1) + 1) .. n
  BY <1>1
<1> HIDE DEF k, s
<1>4. Min(s) \in s /\ \A x \in s : Min(s) <= x
  BY <1>2, MinInInterval
<1>5. Min(s) \in Int
  <2>1. Min(s) \in 1 .. n
    BY <1>2, <1>4
  <2> QED BY <2>1
<1>6. Min(s) = k
  BY <1>1, <1>4, <1>5
<1> QED BY <1>2, <1>3, <1>6 DEF k, s

(* The loop over the unsorted chunks, turn by turn. *)
LEMMA SortTurns ==
  ASSUME NEW h \in Good, NEW nb \in Chunky, NEW count \in Int
  PROVE  \E it : /\ it[0] = [h |-> h, p |-> NULL, cached |-> FALSE, count |-> count]
                 /\ Sorted(h, nb, count) = it[Len(h.bins[1])]
                 /\ \A m \in 1 .. Len(h.bins[1]) : it[m] = Sort(nb, h.bins[1][Len(h.bins[1]) - m + 1], it[m - 1])
<1> DEFINE list == h.bins[1]
           n == Len(list)
           start == [h |-> h, p |-> NULL, cached |-> FALSE, count |-> count]
           T == Turns(nb)
           F == [x \in T \X (1 .. n) |-> Sort(nb, list[x[2]], x[1])]
           Is(f) == f = [s \in SUBSET (DOMAIN list) |->
                           IF s = {} THEN start ELSE Sort(nb, list[Min(s)], f[s \ {Min(s)}])]
           it == CHOOSE f : Is(f)
<1>0. Sorted(h, nb, count) = it[DOMAIN list]
  BY DEF Sorted, FoldRight, MapThenFoldSet
<1>1. n \in Nat /\ DOMAIN list = 1 .. n /\ \A m \in 1 .. n : list[m] \in Aligned
  <2>1. 1 \in 1 .. NBINS - 1
    BY PtAssumption DEF MALLOC_ALIGNMENT, MINSIZE, SIZE_SZ
  <2>2. list \in Seq(Aligned)
    BY <2>1, GoodBins DEF Lists
  <2> QED BY <2>2
<1> HIDE DEF list
<1>2. start \in T
  BY DEF Turns
<1>3. \A x \in T, m \in 1 .. n : Sort(nb, list[m], x) \in T
  BY <1>1, SortKeeps
<1> HIDE DEF n, T
<1>4. F \in [T \X (1 .. n) -> T] /\ \A x \in T, m \in 1 .. n : F[<<x, m>>] = Sort(nb, list[m], x)
  BY <1>3
<1> HIDE DEF F, start
<1>5. PICK f \in [SUBSET (1 .. n) -> T] : StepsBack(f, start, F, n)
  BY <1>1, <1>2, <1>4, StepsBackExist
<1>6. \A s \in SUBSET (1 .. n) : s # {} => Min(s) \in s
  BY <1>1, MinInInterval
<1>7. \A s \in SUBSET (1 .. n) : f[s] = IF s = {} THEN start ELSE Sort(nb, list[Min(s)], f[s \ {Min(s)}])
  BY <1>4, <1>5, <1>6 DEF StepsBack
<1>8. Is(f)
  BY <1>1, <1>7
<1>9. Is(it)
  BY <1>8
<1>10. \A s \in SUBSET (1 .. n) : it[s] = IF s = {} THEN start ELSE Sort(nb, list[Min(s)], it[s \ {Min(s)}])
  BY <1>1, <1>9
<1> HIDE DEF Is, it
<1> DEFINE k == [m \in 0 .. n |-> it[(n - m + 1) .. n]]
<1>11. k[0] = start
  <2>1. (n - 0 + 1) .. n = {} /\ {} \in SUBSET (1 .. n) /\ 0 \in 0 .. n
    BY <1>1
  <2> QED BY <1>10, <2>1
<1>12. ASSUME NEW m \in 1 .. n PROVE k[m] = Sort(nb, list[n - m + 1], k[m - 1])
  <2> DEFINE s == (n - m + 1) .. n
             r == (n - (m - 1) + 1) .. n
             x == n - m + 1
  <2>1. Min(s) = x /\ s \ {x} = r /\ s # {} /\ s \in SUBSET (1 .. n)
    BY <1>1, FirstOfInterval
  <2>2. m \in 0 .. n /\ m - 1 \in 0 .. n
    BY <1>1
  <2>3. k[m] = it[s] /\ k[m - 1] = it[r]
    BY <2>2
  <2> HIDE DEF s, r, x, k
  <2>4. it[s] = Sort(nb, list[Min(s)], it[s \ {Min(s)}])
    BY <1>10, <2>1
  <2>5. it[s] = Sort(nb, list[x], it[r])
    BY <2>1, <2>4, Zenon
  <2> QED BY <2>3, <2>5 DEF x
<1>13. Sorted(h, nb, count) = k[n]
  <2>1. (n - n + 1) .. n = 1 .. n /\ n \in 0 .. n
    BY <1>1
  <2>2. k[n] = it[1 .. n]
    BY <2>1
  <2> QED BY <1>0, <1>1, <2>2
<1> HIDE DEF k
<1>14. \E a : a[0] = start /\ Sorted(h, nb, count) = a[n] /\ \A m \in 1 .. n : a[m] = Sort(nb, list[n - m + 1], a[m - 1])
  BY <1>11, <1>12, <1>13
<1> QED BY <1>14 DEF start, n, list

(* The unsorted chunks are sorted, until one serves. *)
LEMMA SortedIsSound ==
  ASSUME NEW H \in SUBSET Int, NEW F, NEW h \in Sound(H, F), NEW nb \in Chunky, NEW count \in Int
  PROVE  Sorting(h, H, F, nb, Sorted(h, nb, count), << >>)
<1> DEFINE list == h.bins[1]
           n == Len(list)
           start == [h |-> h, p |-> NULL, cached |-> FALSE, count |-> count]
<1>1. h \in Good /\ list \in Seq(Aligned)
  <2>1. 1 \in 1 .. NBINS - 1 /\ h \in Good
    BY PtAssumption, SoundIs DEF MALLOC_ALIGNMENT, MINSIZE, SIZE_SZ
  <2> QED BY <2>1, GoodBins DEF Lists
<1>2. PICK it : /\ it[0] = start /\ Sorted(h, nb, count) = it[n]
                /\ \A m \in 1 .. n : it[m] = Sort(nb, list[n - m + 1], it[m - 1])
  BY <1>1, SortTurns
<1>3. n \in Nat /\ Len(list) = n /\ (DOMAIN list = 1 .. n)
  BY <1>1
<1>4. Sorting(h, H, F, nb, start, list)
  <2>1. start \in Turns(nb)
    BY <1>1 DEF Turns
  <2>2. h \in Reach(h, H, F, H)
    BY DEF Reach, Onward
  <2>3. Answer(h, NULL) \in Gives(h, H, F, nb)
    BY <2>2, GivesNothing
  <2>4. Quiet(h, h, nb)
    BY DEF Quiet
  <2> QED BY <2>1, <2>3, <2>4 DEF Sorting
<1> HIDE DEF start, n
<1> DEFINE l(m) == SubSeq(list, 1, n - m)
           S(m) == {s \in Turns(nb) : Sorting(h, H, F, nb, s, l(m))}
           I == [m \in 0 .. n |-> S(m)]
<1>5. it[0] \in I[0]
  <2>1. l(0) = list
    <3>1. n - 0 = Len(list)
      BY <1>3
    <3>2. SubSeq(list, 1, Len(list)) = list
      BY <1>1, SubSeqFull
    <3> QED BY <3>1, <3>2
  <2>2. start \in S(0)
    BY <1>4, <2>1 DEF Sorting
  <2>3. 0 \in 0 .. n
    BY <1>3
  <2> QED BY <1>2, <2>2, <2>3
<1>6. ASSUME NEW m \in 1 .. n, it[m - 1] \in I[m - 1] PROVE it[m] \in I[m]
  <2> DEFINE q == l(m - 1)
             j == n - m + 1
             p == list[j]
  <2>1. m - 1 \in 0 .. n /\ m \in 0 .. n /\ j \in 1 .. n /\ n - (m - 1) = j /\ n - m = j - 1 /\ j \in Nat
    BY <1>3
  <2>2. Sorting(h, H, F, nb, it[m - 1], q)
    BY <1>6, <2>1
  <2>3. p \in Aligned
    BY <1>1, <1>3, <2>1
  <2>4. q = SubSeq(list, 1, j) /\ l(m) = SubSeq(list, 1, j - 1)
    BY <2>1
  <2> HIDE DEF j, q, l
  <2>5. q # << >> /\ p = Last(q) /\ Front(q) = l(m)
    <3>1. Len(q) = j /\ q \in Seq(Aligned)
      BY <1>1, <1>3, <2>1, <2>4, SubSeqProperties
    <3>2. q[j] = list[j]
      BY <1>1, <1>3, <2>1, <2>4
    <3>3. Front(q) = SubSeq(q, 1, j - 1)
      BY <3>1 DEF Front
    <3>4. SubSeq(q, 1, j - 1) = SubSeq(list, 1, j - 1)
      <4>1. j \in 1 .. Len(list) /\ 1 \in 1 .. j /\ j - 1 \in 0 .. j
        BY <1>3, <2>1
      <4>2. DOMAIN SubSeq(q, 1, j - 1) = 1 .. j - 1 /\ DOMAIN SubSeq(list, 1, j - 1) = 1 .. j - 1
        BY <1>1, <3>1, <4>1, <2>1
      <4>3. ASSUME NEW i \in 1 .. j - 1 PROVE SubSeq(q, 1, j - 1)[i] = SubSeq(list, 1, j - 1)[i]
        BY <1>1, <1>3, <2>1, <2>4, <3>1, <4>1
      <4>4. SubSeq(q, 1, j - 1) \in Seq(Aligned) /\ SubSeq(list, 1, j - 1) \in Seq(Aligned)
        BY <1>1, <1>3, <2>1, <3>1, <4>1, PartOfList
      <4> QED BY <4>2, <4>3, <4>4
    <3>5. Last(q) = q[j] /\ q # << >>
      BY <2>1, <3>1 DEF Last
    <3> QED BY <2>4, <3>2, <3>3, <3>4, <3>5
  <2> HIDE DEF p
  <2>6. Sorting(h, H, F, nb, Sort(nb, p, it[m - 1]), l(m))
    BY <2>2, <2>3, <2>5, SortIsSound
  <2>7. it[m] = Sort(nb, p, it[m - 1])
    BY <1>2 DEF p, j
  <2>8. it[m] \in S(m)
    BY <2>6, <2>7 DEF Sorting
  <2> QED BY <2>1, <2>8
<1> HIDE DEF I
<1>7. it[n] \in I[n]
  BY <1>3, <1>5, <1>6, TurnsEnd
<1>8. Sorting(h, H, F, nb, it[n], l(n))
  <2>1. n \in 0 .. n
    BY <1>3
  <2> QED BY <1>7, <2>1 DEF I
<1>9. l(n) = << >>
  <2>1. n - n = 0
    BY <1>3
  <2>2. SubSeq(list, 1, 0) = << >>
    OBVIOUS
  <2> QED BY <2>1, <2>2
<1> QED BY <1>2, <1>8, <1>9

(* A chunk that is large enough is taken from its bin and cut. *)
LEMMA TakingIsSound ==
  ASSUME NEW H \in SUBSET Int, NEW F, NEW h \in Sound(H, F), NEW p \in Aligned, NEW nb \in Chunky,
         ~h.aborted => chunksize(h, p) >= nb
  PROVE  Taking(h, p, nb) \in Gives(h, H, F, nb)
<1> DEFINE K == H \union {p}
           g == unlink_chunk(h, p)
           k == Serve(g, p, nb)
<1>1. /\ g \in Sound(K, F) /\ Onward(h, g, H) /\ g.mem = h.mem
      /\ ~g.aborted => p \notin H /\ p \in DOMAIN Shape(h) /\ ~Shape(h)[p].mapped
  BY UnlinkIsSound
<1>2. p \in Int /\ K \in SUBSET Int /\ p \in K /\ nb \in Aligned /\ nb >= MINSIZE /\ g \in Good
  BY <1>1, SoundIs DEF Aligned, Chunky
<1>3. ~g.aborted => ~h.aborted /\ Shape(g) = Shape(h) /\ chunksize(h, p) = Shape(h)[p].size /\ K \ {p} = H
  <2>1. Shape(g) = Shape(h)
    BY <1>1 DEF Shape
  <2> HIDE DEF g
  <2> QED BY <1>1, <2>1, SizeIs DEF Onward
<1>4. k \in Good
  BY <1>2, ServeKeeps
<1> HIDE DEF K, g
<1>5. /\ k \in Reach(g, K, F, K \ {p})
      /\ ~k.aborted => p \in DOMAIN Shape(k) /\ ~Shape(k)[p].mapped /\ Shape(k)[p].size >= nb
  <2>1. ~g.aborted => ~Shape(g)[p].mapped /\ Shape(g)[p].size >= nb
    BY <1>1, <1>3
  <2> QED BY <1>1, <1>2, <2>1, ServeIsSound
<1> HIDE DEF k
<1>6. CASE k.aborted
  <2>1. k \in Reach(h, H \union {p}, F, H)
    BY <1>4, <1>6, AbortedReaches
  <2>2. Answer(k, p) \in Gives(h, H, F, nb)
    BY <1>6, <2>1, GivesThis
  <2> QED BY <2>2 DEF Taking, k, g
<1>7. CASE ~k.aborted
  <2>1. ~g.aborted /\ Layout(k, K, F)
    BY <1>5, <1>7, ReachIs
  <2>2. g \in Reach(h, K, F, H) /\ k \in Reach(g, K, F, H) /\ p \notin H
    BY <1>1, <1>3, <1>5, <2>1 DEF Reach
  <2>3. k \in Reach(h, K, F, H)
    BY <2>2, ReachTwice
  <2>4. Fits(k, p, nb)
    BY <1>5, <1>7 DEF Fits
  <2>5. Answer(k, p) \in Gives(h, H, F, nb)
    BY <2>2, <2>3, <2>4, GivesThis DEF K
  <2> QED BY <2>5 DEF Taking, k, g
<1> QED BY <1>6, <1>7

(* The large bin of the request serves it. *)
LEMMA FromLargeBinIsSound ==
  ASSUME NEW H \in SUBSET Int, NEW F, NEW h \in Sound(H, F), NEW nb \in Chunky, LargeBinServes(h, nb)
  PROVE  FromLargeBin(h, nb) \in Gives(h, H, F, nb)
<1> DEFINE bin == h.bins[bin_index(nb)]
           sizes == {s \in {chunksize(h, bin[k]) : k \in DOMAIN bin} : s >= nb}
           p == FitInLargeBin(h, bin, nb)
<1>0. h \in Good
  BY SoundIs
<1>1. bin \in Lists
  <2>1. bin_index(nb) \in 1 .. NBINS - 1
    BY BinIndexIs
  <2> QED BY <1>0, <2>1, GoodBins
<1>2. sizes # {} /\ sizes \in SUBSET Int /\ nb \in Int /\ \A s \in sizes : nb <= s
  <2>1. sizes # {}
    BY DEF LargeBinServes
  <2>2. \A a : chunksize(h, a) \in Int
    BY <1>0, HeadFields DEF Aligned
  <2>3. nb \in Int
    BY DEF Chunky, Aligned
  <2> QED BY <2>1, <2>2, <2>3
<1>3. \A s \in sizes : s >= nb /\ \E k \in DOMAIN bin : chunksize(h, bin[k]) = s
  OBVIOUS
<1>4. p = SecondOf(h, bin, Min(sizes))
  BY DEF FitInLargeBin
<1>7. FromLargeBin(h, nb) = Taking(h, p, nb)
  BY DEF FromLargeBin
<1> HIDE DEF sizes, bin, p
<1>5. Min(sizes) \in sizes
  BY <1>2, MinProperties
<1>6. p \in Aligned /\ chunksize(h, p) >= nb
  BY <1>1, <1>3, <1>4, <1>5, SecondOfIs
<1> QED BY <1>6, <1>7, TakingIsSound

(* A bin above serves it. *)
LEMMA FromBinAboveIsSound ==
  ASSUME NEW H \in SUBSET Int, NEW F, NEW h \in Sound(H, F), NEW nb \in Chunky, FilledAbove(h, nb) # {}
  PROVE  FromBinAbove(h, nb) \in Gives(h, H, F, nb)
<1> DEFINE M == FilledAbove(h, nb)
           b == Min(M)
           p == Last(h.bins[b])
           c == Check(h, chunksize(h, p) >= nb)
           r == IF chunksize(h, p) - nb >= MINSIZE /\ in_smallbin_range(nb) THEN p + nb ELSE h.last_remainder
           g == [c EXCEPT !.binmap = c.binmap \ SeenBins(c, nb), !.last_remainder = r]
<1>0. h \in Good
  BY SoundIs
<1>1. M \in SUBSET Int /\ bin_index(nb) \in Int /\ \A k \in M : bin_index(nb) <= k
  BY <1>0, GoodBins, BinIndexIs DEF FilledAbove, MarkedAbove, Marks
<1>2. b \in M
  <2> HIDE DEF M
  <2>1. M # {}
    BY DEF M
  <2> QED BY <1>1, <2>1, MinProperties
<1>3. b \in 1 .. NBINS - 1 /\ h.bins[b] # << >>
  <2>1. \A k \in M : k \in h.binmap /\ k > bin_index(nb) /\ h.bins[k] # << >>
    BY DEF FilledAbove, MarkedAbove
  <2>2. b \in Marks /\ b > bin_index(nb) /\ h.bins[b] # << >>
    BY <1>0, <1>2, <2>1, GoodBins
  <2> HIDE DEF b
  <2>3. bin_index(nb) \in 2 .. NBINS - 1
    BY BinIndexIs
  <2> QED BY <2>2, <2>3 DEF Marks
<1> HIDE DEF b, M
<1>4. p \in Aligned
  <2>1. h.bins[b] \in Seq(Aligned)
    BY <1>0, <1>3, GoodBins DEF Lists
  <2> QED BY <1>3, <2>1 DEF Last
<1> HIDE DEF p
<1>5. c \in Good /\ c \in Sound(H, F) /\ c.last_remainder = h.last_remainder /\ c.binmap = h.binmap /\ SeenBins(c, nb) = SeenBins(h, nb)
      /\ (~c.aborted => chunksize(c, p) >= nb) /\ c \in Reach(h, H, F, H)
  <2>1. /\ c \in Reach(h, H, F, H) /\ c \in Sound(H, F)
        /\ ~c.aborted => chunksize(h, p) >= nb /\ ~h.aborted /\ c = h
    <3> DEFINE ok == chunksize(h, p) >= nb
    <3>1. c = Check(h, ok)
      OBVIOUS
    <3> HIDE DEF ok, c
    <3>2. /\ Check(h, ok) \in Reach(h, H, F, H) /\ Check(h, ok) \in Sound(H, F)
          /\ ~Check(h, ok).aborted => ok /\ ~h.aborted /\ Check(h, ok) = h
      BY CheckReaches
    <3> QED BY <3>1, <3>2 DEF ok
  <2>2. c \in Good
    BY <2>1, SoundIs
  <2>3. c.last_remainder = h.last_remainder /\ c.binmap = h.binmap /\ c.bins = h.bins
    BY <1>0 DEF Check, Good, Heaps
  <2> HIDE DEF c
  <2> QED BY <2>1, <2>2, <2>3 DEF SeenBins, FilledAbove, MarkedAbove
<1> HIDE DEF c
<1>6. r \in Aligned \union {NULL} /\ nb \in Aligned
  <2>1. h.last_remainder \in Aligned \union {NULL} /\ nb \in Aligned
    BY <1>0 DEF Good, Heaps, Chunky
  <2>2. p + nb \in Aligned
    BY <1>4, <2>1, EvenSums
  <2> QED BY <2>1, <2>2
<1> HIDE DEF r
<1>7. g \in Good
  BY <1>5, <1>6, UnmarkKeeps
<1>8. FromBinAbove(h, nb) = Taking(g, p, nb)
  <2>1. TakingAbove(h, p, nb) = Taking(g, p, nb)
    BY <1>5 DEF TakingAbove, g, c, r
  <2> QED BY <2>1 DEF FromBinAbove, p, b, M
<1>9. SameLayout(c, g) /\ g.aborted = c.aborted /\ g.mem = c.mem
  BY <1>5 DEF Good, Heaps, SameLayout
<1> HIDE DEF g
<1>10. g \in Sound(H, F) /\ Onward(c, g, H)
  BY <1>5, <1>7, <1>9, SoundFrame
<1>11. chunksize(g, p) = chunksize(c, p)
  BY <1>9 DEF chunksize, At
<1>12. g \in Reach(h, H, F, H)
  <2>1. g \in Reach(c, H, F, H)
    BY <1>10 DEF Reach
  <2> QED BY <1>5, <2>1, ReachTwice
<1>13. Taking(g, p, nb) \in Gives(g, H, F, nb)
  BY <1>4, <1>5, <1>9, <1>10, <1>11, TakingIsSound
<1> QED BY <1>8, <1>12, <1>13, GivesOnward

(* Top serves it, or nothing. *)
LEMMA UnmarkedReaches ==
  ASSUME NEW H \in SUBSET Int, NEW F, NEW h \in Sound(H, F), NEW nb \in Chunky, NEW C
  PROVE  /\ [h EXCEPT !.binmap = h.binmap \ SeenBins(h, nb)] \in Reach(h, H, F, C)
         /\ SameLayout(h, [h EXCEPT !.binmap = h.binmap \ SeenBins(h, nb)])
         /\ [h EXCEPT !.binmap = h.binmap \ SeenBins(h, nb)].have_fastchunks = h.have_fastchunks
<1> DEFINE g == [h EXCEPT !.binmap = h.binmap \ SeenBins(h, nb)]
<1>1. g \in Good /\ h \in Good
  <2>1. NULL \in Aligned \union {NULL} /\ h \in Good
    BY SoundIs
  <2> QED BY <2>1, UnmarkKeeps
<1>2. SameLayout(h, g) /\ g.aborted = h.aborted /\ g.have_fastchunks = h.have_fastchunks
  BY <1>1 DEF Good, Heaps, SameLayout
<1> HIDE DEF g
<1>3. g \in Sound(H, F) /\ Onward(h, g, C)
  BY <1>1, <1>2, SoundFrame
<1>4. g \in Reach(h, H, F, C) /\ SameLayout(h, g) /\ g.have_fastchunks = h.have_fastchunks
  BY <1>2, <1>3 DEF Reach
<1> QED BY <1>4 DEF g

(* A merge puts chunks into the unsorted ones only, so that a bin that is  *)
(* empty stays it.                                                         *)
StaysEmpty(h, g, b) == h.bins[b] = << >> => g.bins[b] = << >>

(* unlink_chunk fills no bin. *)
LEMMA UnlinkStaysEmpty ==
  ASSUME NEW h \in Good, NEW p, NEW b \in 2 .. NBINS - 1
  PROVE  StaysEmpty(h, unlink_chunk(h, p), b)
<1> DEFINE g == Check(h, chunksize(h, p) = prev_size(h, next_chunk(h, p)) /\ InBin(h, p))
<1>1. g \in Good /\ g.bins = h.bins
  <2>1. g.bins = h.bins
    BY DEF Check, Good, Heaps
  <2> QED BY <2>1, CheckKeeps
<1> HIDE DEF g
<1>2. \A x : [g EXCEPT !.bins = x].bins = x
  BY <1>1 DEF Good, Heaps
<1>3. unlink_chunk(h, p).bins[b] = RemoveFirst(h.bins[b], p)
  <2>1. b \in DOMAIN h.bins
    <3>1. h.bins \in Bins /\ b \in 1 .. NBINS - 1
      BY GoodBins
    <3> QED BY <3>1 DEF Bins
  <2> QED BY <1>2, <2>1 DEF unlink_chunk, g
<1>4. RemoveFirst(<< >>, p) = << >>
  BY DEF RemoveFirst
<1> QED BY <1>3, <1>4 DEF StaysEmpty

(* Nor does a turn of malloc_consolidate, but for the unsorted chunks. *)
LEMMA CoalesceStaysEmpty ==
  ASSUME NEW h \in Good, NEW p \in Aligned, NEW b \in 2 .. NBINS - 1
  PROVE  StaysEmpty(h, Coalesce(h, p), b)
<1> DEFINE q == MergedStart(h, p)
           next == next_chunk(h, p)
           back == MergeBack(h, p, q)
           forth == MergeForth(back, next)
           size == MergedEnd(h, next) - q
<1>1. q \in Aligned /\ next \in Aligned
  BY HeadFields, EvenSums DEF MergedStart
<1>2. size \in Aligned
  BY <1>1, HeadFields, EvenSums DEF MergedEnd
<1> HIDE DEF q, next, size
<1>3. back \in Good /\ StaysEmpty(h, back, b)
  <2> DEFINE c == Check(h, chunksize(h, q) = p - q)
             u == unlink_chunk(c, q)
  <2>1. c \in Good /\ c.bins = h.bins
    <3>1. c.bins = h.bins
      BY DEF Check, Good, Heaps
    <3> QED BY <3>1, CheckKeeps
  <2> HIDE DEF c
  <2>2. u \in Good /\ StaysEmpty(c, u, b)
    BY <2>1, UnlinkKeeps, UnlinkStaysEmpty
  <2> HIDE DEF u
  <2>3. Drop(u, p) \in Good /\ Drop(u, p).bins = u.bins
    <3>1. Drop(u, p).bins = u.bins
      BY <2>2 DEF Drop, Good, Heaps
    <3> QED BY <2>2, <3>1, DropKeeps
  <2>4. back = IF q = p THEN h ELSE Drop(u, p)
    BY DEF MergeBack, u, c
  <2> QED BY <2>1, <2>2, <2>3, <2>4 DEF StaysEmpty
<1> HIDE DEF back
<1>4. forth \in Good /\ StaysEmpty(back, forth, b)
  <2>1. unlink_chunk(back, next) \in Good /\ StaysEmpty(back, unlink_chunk(back, next), b)
    BY <1>3, UnlinkKeeps, UnlinkStaysEmpty
  <2> DEFINE u == unlink_chunk(back, next)
  <2>2. u \in Good /\ StaysEmpty(back, u, b)
    BY <2>1
  <2>3. forth = IF next = back.top THEN Drop(back, next)
                ELSE IF inuse(back, next) THEN clear_inuse_bit(back, next) ELSE Drop(u, next)
    BY DEF MergeForth
  <2> HIDE DEF u, forth
  <2>4. \A x \in Good : Drop(x, next) \in Good /\ Drop(x, next).bins = x.bins
    <3>1. ASSUME NEW x \in Good PROVE Drop(x, next).bins = x.bins
      BY DEF Drop, Good, Heaps
    <3> QED BY <3>1, DropKeeps
  <2>5. clear_inuse_bit(back, next) \in Good /\ clear_inuse_bit(back, next).bins = back.bins
    <3>1. clear_inuse_bit(back, next).bins = back.bins
      BY <1>3 DEF clear_inuse_bit, Put, Good, Heaps
    <3>2. 0 \in Aligned
      BY DEF Aligned, MALLOC_ALIGNMENT, SIZE_SZ
    <3> QED BY <1>1, <1>3, <3>1, <3>2, HeadsKeep
  <2> QED BY <1>3, <2>2, <2>3, <2>4, <2>5 DEF StaysEmpty
<1> HIDE DEF forth
<1>5. StaysEmpty(forth, Settle(forth, q, size), b)
  <2> DEFINE g == set_head(forth, q, size)
             k == PutUnsorted(g, q)
  <2>1. g \in Good /\ g.bins = forth.bins
    <3>1. g.bins = forth.bins
      BY <1>4 DEF set_head, Put, Good, Heaps
    <3> QED BY <1>1, <1>2, <1>4, <3>1, HeadsKeep
  <2> HIDE DEF g
  <2>2. [g EXCEPT !.top = q].bins = g.bins
    BY <2>1 DEF Good, Heaps
  <2>3. k \in Good /\ k.bins[b] = g.bins[b]
    <3>1. k.bins = [g.bins EXCEPT ![1] = <<q>> \o @]
      BY <2>1 DEF PutUnsorted, Good, Heaps
    <3>2. g.bins \in Bins /\ b \in 1 .. NBINS - 1 /\ b # 1
      BY <2>1, GoodBins
    <3> HIDE DEF k
    <3>3. k.bins[b] = g.bins[b]
      BY <3>1, <3>2 DEF Bins
    <3> QED BY <1>1, <2>1, <3>3, PutUnsortedKeeps DEF k
  <2> HIDE DEF k
  <2>4. set_foot(k, q, size).bins = k.bins
    BY <2>3 DEF set_foot, Put, Good, Heaps
  <2>5. Settle(forth, q, size) = IF forth.top \in q .. q + size - 1 THEN [g EXCEPT !.top = q] ELSE set_foot(k, q, size)
    BY DEF Settle, g, k
  <2> QED BY <2>1, <2>2, <2>3, <2>4, <2>5 DEF StaysEmpty
<1>6. Coalesce(h, p) = Settle(forth, q, size)
  BY DEF Coalesce, Merge, q, next, back, forth, size
<1> QED BY <1>3, <1>4, <1>5, <1>6 DEF StaysEmpty

(* So it is while the fastbins are merged. *)
LEMMA ConsolidateStaysEmpty ==
  ASSUME NEW h \in Good, NEW b \in 2 .. NBINS - 1
  PROVE  StaysEmpty(h, malloc_consolidate(h), b)
<1> DEFINE fast == [i \in DOMAIN h.fast |-> << >>]
           g == [h EXCEPT !.fast = fast, !.have_fastchunks = FALSE]
           lists == [i \in 1 .. NFASTBINS |-> h.fast[i - 1]]
           seq == FlattenSeq(lists)
<1>1. fast \in Fasts /\ NoFast(fast)
  <2>1. DOMAIN h.fast = 0 .. NFASTBINS - 1
    BY GoodBins DEF Fasts
  <2>2. << >> \in Lists
    BY DEF Lists
  <2>3. \A i \in 0 .. NFASTBINS - 1 : fast[i] = << >>
    BY <2>1
  <2>4. fast \in Fasts
    BY <2>1, <2>2 DEF Fasts
  <2> QED BY <2>3, <2>4 DEF NoFast
<1> HIDE DEF fast
<1>2. g \in Good /\ g.bins = h.bins
  <2>1. g \in Heaps /\ g.bins = h.bins /\ g.binmap = h.binmap /\ g.fast = fast /\ g.mp = h.mp /\ g.have_fastchunks = FALSE
    BY <1>1 DEF Good, Heaps
  <2> HIDE DEF g
  <2> QED BY <1>1, <2>1, GoodBins DEF Good, FastAreFlagged, FastAreSmall, NoFast
<1> HIDE DEF g
<1>4. seq \in Seq(Aligned)
  <2>1. NFASTBINS \in Nat
    BY SmallEnough
  <2>2. \A i \in 1 .. NFASTBINS : h.fast[i - 1] \in Seq(Aligned)
    BY <2>1, GoodBins DEF Lists
  <2>3. lists \in Seq(Seq(Aligned))
    BY <2>1, <2>2
  <2> HIDE DEF lists
  <2> QED BY <2>3, FlattenedType
<1>7. malloc_consolidate(h) = FoldLeft(Coalesce, g, seq)
  BY DEF malloc_consolidate, g, fast, lists
<1> HIDE DEF seq
<1>5. PICK it : /\ it[0] = g /\ FoldLeft(Coalesce, g, seq) = it[Len(seq)]
                /\ \A m \in 0 .. Len(seq) : it[m] \in Good
                /\ \A m \in 1 .. Len(seq) : it[m] = Coalesce(it[m - 1], seq[m])
  BY <1>2, <1>4, CoalesceTurns
<1> DEFINE n == Len(seq)
           S == {x \in Good : StaysEmpty(h, x, b)}
           I == [m \in 0 .. n |-> S]
<1>6. n \in Nat /\ \A m \in 1 .. n : seq[m] \in Aligned
  BY <1>4
<1> HIDE DEF n
<1>8. it[0] \in I[0]
  BY <1>2, <1>5, <1>6 DEF StaysEmpty
<1>9. ASSUME NEW m \in 1 .. n, it[m - 1] \in I[m - 1] PROVE it[m] \in I[m]
  <2>1. m - 1 \in 0 .. n /\ m \in 0 .. n /\ seq[m] \in Aligned
    BY <1>6
  <2>2. it[m - 1] \in Good /\ StaysEmpty(h, it[m - 1], b)
    BY <1>9, <2>1
  <2>3. StaysEmpty(it[m - 1], Coalesce(it[m - 1], seq[m]), b)
    BY <2>1, <2>2, CoalesceStaysEmpty
  <2>4. it[m] \in S
    BY <1>5, <2>1, <2>2, <2>3 DEF StaysEmpty, n
  <2> QED BY <2>1, <2>4
<1> HIDE DEF I
<1>10. it[n] \in I[n]
  BY <1>6, <1>8, <1>9, TurnsEnd
<1>11. it[n] \in S
  BY <1>6, <1>10 DEF I
<1> QED BY <1>5, <1>7, <1>11 DEF n

(* The bins of smaller indices have smaller chunks. *)
LEMMA BinIndexRises ==
  ASSUME NEW x \in Chunky, NEW y \in Chunky, x >= y
  PROVE  bin_index(x) >= bin_index(y)
<1>1. x \in Int /\ y \in Int /\ y >= 4 /\ MinLargeSize \in Nat /\ MinLargeSize > 4 /\ MinLargeSize % 2 = 0
      /\ LargeWidth \in Nat \ {0} /\ NBINS \in Nat /\ NBINS > MinLargeSize \div 2
  BY PtAssumption DEF Chunky, Aligned, MALLOC_ALIGNMENT, SIZE_SZ, MINSIZE
<1> DEFINE m(z) == (MinLargeSize \div 2) + ((z - MinLargeSize) \div LargeWidth)
<1>2. ASSUME NEW z \in Int, z >= MinLargeSize
      PROVE  /\ bin_index(z) = Min({NBINS - 1, m(z)}) /\ m(z) \in Int /\ m(z) >= MinLargeSize \div 2
             /\ bin_index(z) \in {NBINS - 1, m(z)} /\ bin_index(z) <= NBINS - 1 /\ bin_index(z) <= m(z)
  <2>1. z - MinLargeSize \in Nat
    BY <1>1, <1>2
  <2>2. (z - MinLargeSize) \div LargeWidth \in Nat
    BY <1>1, <2>1, SMTT(30)
  <2>3. m(z) \in Int /\ m(z) >= MinLargeSize \div 2
    BY <1>1, <2>2
  <2>4. bin_index(z) = Min({NBINS - 1, m(z)})
    BY <1>1, <1>2 DEF bin_index, in_smallbin_range, largebin_index, MALLOC_ALIGNMENT, SIZE_SZ
  <2> HIDE DEF m
  <2>5. Min({NBINS - 1, m(z)}) \in {NBINS - 1, m(z)} /\ Min({NBINS - 1, m(z)}) <= NBINS - 1 /\ Min({NBINS - 1, m(z)}) <= m(z)
    <3> DEFINE o == NBINS - 1
               w == m(z)
    <3>1. o \in Int /\ w \in Int
      BY <1>1, <2>3
    <3> HIDE DEF o, w
    <3>2. Min({o, w}) \in {o, w} /\ Min({o, w}) <= o /\ Min({o, w}) <= w
      BY <3>1, SmallerOfTwo
    <3> QED BY <3>2 DEF o, w
  <2> QED BY <2>3, <2>4, <2>5
<1>3. ASSUME NEW z \in Int, z < MinLargeSize PROVE bin_index(z) = z \div 2
  <2>1. bin_index(z) = z \div MALLOC_ALIGNMENT
    BY <1>3 DEF bin_index, in_smallbin_range
  <2> QED BY <2>1 DEF MALLOC_ALIGNMENT, SIZE_SZ
<1>4. CASE x < MinLargeSize
  <2>1. y < MinLargeSize /\ x \div 2 >= y \div 2
    BY <1>1, <1>4
  <2> QED BY <1>1, <1>3, <1>4, <2>1
<1>5. CASE ~(x < MinLargeSize) /\ y < MinLargeSize
  <2>1. y \div 2 <= MinLargeSize \div 2 /\ y \div 2 \in Int /\ MinLargeSize \div 2 \in Int /\ x >= MinLargeSize
    BY <1>1, <1>5
  <2>2. bin_index(x) \in {NBINS - 1, m(x)} /\ m(x) \in Int /\ m(x) >= MinLargeSize \div 2
    BY <1>1, <1>2, <2>1
  <2>3. bin_index(y) = y \div 2
    BY <1>1, <1>3, <1>5
  <2> HIDE DEF m
  <2> QED BY <1>1, <2>1, <2>2, <2>3
<1>6. CASE ~(x < MinLargeSize) /\ ~(y < MinLargeSize)
  <2>1. x >= MinLargeSize /\ y >= MinLargeSize
    BY <1>1, <1>6
  <2>2. m(x) >= m(y)
    <3> DEFINE u == x - MinLargeSize
               v == y - MinLargeSize
    <3>1. u \in Nat /\ v \in Nat /\ u >= v
      BY <1>1, <2>1
    <3> HIDE DEF u, v
    <3>2. u \div LargeWidth >= v \div LargeWidth /\ u \div LargeWidth \in Int /\ v \div LargeWidth \in Int
      BY <1>1, <3>1, SMTT(60)
    <3>3. MinLargeSize \div 2 \in Int
      BY <1>1
    <3> QED BY <3>2, <3>3 DEF u, v
  <2>3. /\ bin_index(x) \in {NBINS - 1, m(x)} /\ m(x) \in Int /\ bin_index(y) <= NBINS - 1 /\ bin_index(y) <= m(y)
        /\ bin_index(y) \in {NBINS - 1, m(y)} /\ m(y) \in Int
    BY <1>1, <1>2, <2>1
  <2> HIDE DEF m
  <2> QED BY <1>1, <2>2, <2>3
<1> QED BY <1>4, <1>5, <1>6

(* No chunk of a bin can serve nb words. *)
BinsAreSmall(h, nb) == \A b \in 1 .. NBINS - 1 : \A q \in ToSet(h.bins[b]) : ~(chunksize(h, q) >= nb)
SmallIsEmpty(h, nb) == in_smallbin_range(nb) => h.bins[bin_index(nb)] = << >>

(* Nor can top. *)
TopIsSmall(h, nb) == ~(chunksize(h, h.top) >= nb + MINSIZE)

(* When neither the small bin, nor the large bin, nor the bins above serve *)
(* a request, no chunk of a bin could: the bins are by size.               *)
LEMMA NothingFits ==
  ASSUME NEW H \in SUBSET Int, NEW F, NEW h \in Good, Layout(h, H, F), NEW nb \in Chunky, h.bins[1] = << >>,
         SmallIsEmpty(h, nb), ~LargeBinServes(h, nb), FilledAbove(h, nb) = {}
  PROVE  BinsAreSmall(h, nb)
<1> SUFFICES ASSUME NEW b \in 1 .. NBINS - 1, NEW q \in ToSet(h.bins[b]), chunksize(h, q) >= nb
             PROVE  FALSE
  BY DEF BinsAreSmall
<1> DEFINE i == bin_index(nb)
           list == h.bins[b]
<1>1. i \in 2 .. NBINS - 1 /\ list \in Seq(Aligned)
  BY BinIndexIs, GoodBins DEF Lists
<1>2. PICK k \in DOMAIN list : q = list[k]
  BY DEF ToSet
<1>3. list # << >> /\ q \in Aligned /\ b # 1
  BY <1>1, <1>2
<1>4. q \in Int
  BY <1>3 DEF Aligned
<1>5. q \in DOMAIN Shape(h) /\ Shape(h)[q].size >= MINSIZE /\ bin_index(Shape(h)[q].size) = b
  <2>1. b \in 2 .. NBINS - 1
    BY <1>3
  <2> QED BY <1>4, <2>1, InBinIs
<1> DEFINE size == chunksize(h, q)
<1>6. size \in Chunky /\ bin_index(size) = b
  <2>1. size = Shape(h)[q].size
    BY <1>5, SizeIs
  <2>2. size \in Aligned
    BY HeadFields
  <2> QED BY <1>5, <2>1, <2>2 DEF Chunky
<1>7. b >= i
  BY <1>6, BinIndexRises
<1>8. CASE b > i
  <2>1. b \in h.binmap
    <3>1. b \in 2 .. NBINS - 1
      BY <1>3
    <3> QED BY <1>3, <3>1, GoodBins DEF BinsAreMarked
  <2>2. b \in FilledAbove(h, nb)
    BY <1>3, <1>8, <2>1 DEF FilledAbove, MarkedAbove
  <2> QED BY <2>2
<1>9. CASE b = i
  <2>1. ~in_smallbin_range(nb)
    BY <1>3, <1>9 DEF SmallIsEmpty
  <2>2. LargeBinServes(h, nb)
    BY <1>2, <1>9, <2>1 DEF LargeBinServes
  <2> QED BY <2>2
<1> QED BY <1>1, <1>7, <1>8, <1>9

(* What a search leads to. *)
Searched(h, H, F, nb, s) ==
  /\ FineTurn(s) /\ Answer(s.h, s.p) \in Gives(h, H, F, nb)
  /\ s.p = NULL /\ ~s.h.aborted =>
       /\ s.h.fast = h.fast /\ TopIsSmall(s.h, nb)
       /\ SmallIsEmpty(h, nb) => SmallIsEmpty(s.h, nb) /\ BinsAreSmall(s.h, nb)

(* A search that ended with a chunk, or with a failed check. *)
LEMMA FoundIsSearched ==
  ASSUME NEW h, NEW H, NEW F, NEW nb, NEW s \in Turns(nb), NEW a \in Gives(h, H, F, nb),
         ~(a.p = NULL /\ ~a.h.aborted)
  PROVE  Searched(h, H, F, nb, Found(s, a))
<1>1. a.h \in Good /\ a.p \in Aligned \union {NULL} /\ a = Answer(a.h, a.p)
  BY GivesIs
<1>2. FineTurn(Found(s, a))
  BY <1>1, FoundIsFine DEF Fine
<1>3. Found(s, a).h = a.h /\ Found(s, a).p = a.p
  BY DEF Found, Turns
<1> QED BY <1>1, <1>2, <1>3 DEF Searched

(* A bin, a bin above or top serves what the loop over the unsorted chunks *)
(* has not, or none of them can.                                           *)
LEMMA TopIsSearched ==
  ASSUME NEW h, NEW H \in SUBSET Int, NEW F, NEW nb \in Chunky, NEW s \in Turns(nb),
         Sorting(h, H, F, nb, s, << >>), s.p = NULL, s.h \in Reach(h, H, F, H),
         ~LargeBinServes(s.h, nb), FilledAbove(s.h, nb) = {}
  PROVE  Searched(h, H, F, nb, Found(s, FromTop([s.h EXCEPT !.binmap = s.h.binmap \ SeenBins(s.h, nb)], nb)))
<1> DEFINE g == s.h
           u == [g EXCEPT !.binmap = g.binmap \ SeenBins(g, nb)]
           ok == chunksize(u, u.top) <= u.system_mem
           c == Check(u, ok)
           a == ServedByTop(c, nb)
<1>1. g \in Sound(H, F) /\ g \in Good /\ nb \in Aligned /\ nb >= MINSIZE
  BY ReachIs DEF Chunky
<1>2. u \in Reach(g, H, F, H) /\ SameLayout(g, u)
  BY <1>1, UnmarkedReaches
<1>3. FromTop(u, nb) = a
  BY DEF FromTop
<1> HIDE DEF u, ok
<1>4. u \in Sound(H, F) /\ u \in Reach(h, H, F, H)
  BY <1>2, ReachIs, ReachTwice
<1>5. c \in Sound(H, F) /\ c \in Reach(u, H, F, H) /\ (~c.aborted => ~u.aborted /\ c = u)
  BY <1>4, CheckReaches
<1> HIDE DEF c
<1>6. c \in Reach(h, H, F, H)
  BY <1>4, <1>5, ReachTwice
<1>7. a \in Gives(c, H, F, nb)
  BY <1>1, <1>5, ServedByTopIsSound
<1>8. a \in Gives(h, H, F, nb)
  BY <1>6, <1>7, GivesOnward
<1>9. a.p = NULL => a.h = c /\ TopIsSmall(c, nb)
  <2>1. c.top \in Aligned /\ NULL \notin Aligned
    <3>1. c \in Good
      BY <1>5, SoundIs
    <3> QED BY <3>1, PtAssumption DEF Good, Heaps, Aligned
  <2>2. a = Answer(ServeFromTop(c, nb), c.top) \/ (a = Answer(c, NULL) /\ TopIsSmall(c, nb))
    BY DEF ServedByTop, TopIsSmall
  <2> QED BY <2>1, <2>2 DEF Answer
<1> HIDE DEF a
<1>10. ASSUME a.p = NULL, ~a.h.aborted
       PROVE  /\ a.h.fast = h.fast /\ TopIsSmall(a.h, nb)
              /\ SmallIsEmpty(h, nb) => SmallIsEmpty(a.h, nb) /\ BinsAreSmall(a.h, nb)
  <2>1. a.h = u /\ ~u.aborted /\ TopIsSmall(a.h, nb)
    BY <1>5, <1>9, <1>10
  <2>2. u.bins = g.bins /\ u.fast = g.fast /\ u.mem = g.mem
    BY <1>2 DEF SameLayout
  <2>3. ~g.aborted /\ Layout(g, H, F)
    <3>1. ~g.aborted
      BY <1>2, <2>1, ReachIs
    <3> QED BY <1>1, <3>1 DEF Sound
  <2>4. Quiet(h, g, nb) /\ g.bins[1] = << >>
    BY <2>3 DEF Sorting
  <2>5. g.fast = h.fast /\ (SmallIsEmpty(h, nb) => SmallIsEmpty(g, nb))
    BY <2>3, <2>4 DEF Quiet, SmallIsEmpty
  <2>6. SmallIsEmpty(g, nb) => BinsAreSmall(g, nb)
    BY <1>1, <2>3, <2>4, NothingFits
  <2>7. SmallIsEmpty(g, nb) => SmallIsEmpty(u, nb)
    BY <2>2 DEF SmallIsEmpty
  <2>8. BinsAreSmall(g, nb) => BinsAreSmall(u, nb)
    BY <2>2 DEF BinsAreSmall, chunksize, At
  <2> QED BY <2>1, <2>2, <2>5, <2>6, <2>7, <2>8
<1>11. a.h \in Good /\ a.p \in Aligned \union {NULL} /\ a = Answer(a.h, a.p)
  BY <1>8 DEF Gives, Answer
<1>12. FineTurn(Found(s, a))
  BY <1>11, FoundIsFine DEF Fine
<1> DEFINE t == Found(s, a)
<1>13. t.h = a.h /\ t.p = a.p
  BY DEF Found, Turns
<1> HIDE DEF t
<1>14. Searched(h, H, F, nb, t)
  <2>1. Answer(t.h, t.p) \in Gives(h, H, F, nb)
    BY <1>8, <1>11, <1>13
  <2>2. FineTurn(t)
    BY <1>12 DEF t
  <2>3. t.p = NULL /\ ~t.h.aborted =>
          /\ t.h.fast = h.fast /\ TopIsSmall(t.h, nb)
          /\ SmallIsEmpty(h, nb) => SmallIsEmpty(t.h, nb) /\ BinsAreSmall(t.h, nb)
    BY <1>10, <1>13
  <2> QED BY <2>1, <2>2, <2>3 DEF Searched
<1> QED BY <1>3, <1>14 DEF u, g, t

(* What the choice after the loop, of a large bin or by the map of bins,   *)
(* leads to.                                                               *)
LEMMA ChosenIsSearched ==
  ASSUME NEW h, NEW H \in SUBSET Int, NEW F, NEW nb \in Chunky, NEW s, Sorting(h, H, F, nb, s, << >>)
  PROVE  Searched(h, H, F, nb, Chosen(s, nb))
<1>1. s \in Turns(nb) /\ Answer(s.h, s.p) \in Gives(h, H, F, nb)
  BY DEF Sorting
<1>2. s.h \in Good /\ s.p \in Aligned \union {NULL} /\ s.cached \in BOOLEAN /\ s.count \in Int
  BY <1>1, TurnIs
<1>3. CASE s.p # NULL
  <2>1. Chosen(s, nb) = s
    BY <1>3 DEF Chosen
  <2>2. FineTurn(s)
    BY <1>2 DEF FineTurn
  <2> QED BY <1>1, <1>3, <2>1, <2>2 DEF Searched
<1>4. ASSUME s.p = NULL PROVE s.h \in Reach(h, H, F, H) /\ s.h \in Sound(H, F)
  <2>1. Answer(s.h, NULL).h = s.h /\ Answer(s.h, NULL).p = NULL
    BY DEF Answer
  <2>2. s.h \in Reach(h, H, F, H)
    BY <1>1, <1>4, <2>1, GivesIs
  <2> QED BY <2>2, ReachIs
<1>5. CASE s.p = NULL /\ s.cached
  <2> DEFINE a == tcache_get(s.h, csize2tidx(nb))
  <2>1. Cached(s.h, nb)
    BY <1>1, <1>5, TurnIs
  <2>2. a \in Gives(h, H, F, nb)
    BY <1>4, <1>5, <2>1, CachedServes
  <2>3. a.p # NULL
    <3>1. csize2tidx(nb) \in 0 .. TCACHE_MAX_BINS - 1 /\ s.h.entries[csize2tidx(nb)] # << >>
      BY <2>1 DEF Cached
    <3>2. a.p \in Aligned
      BY <1>2, <3>1, TcacheGetKeeps
    <3> QED BY <3>2, PtAssumption DEF Aligned
  <2>4. Chosen(s, nb) = Found(s, a)
    BY <1>5 DEF Chosen
  <2> HIDE DEF a
  <2> QED BY <1>1, <2>2, <2>3, <2>4, FoundIsSearched
<1>6. CASE s.p = NULL /\ ~s.cached /\ LargeBinServes(s.h, nb)
  <2> DEFINE a == FromLargeBin(s.h, nb)
  <2>1. a \in Gives(s.h, H, F, nb)
    BY <1>4, <1>6, FromLargeBinIsSound
  <2>2. a \in Gives(h, H, F, nb)
    BY <1>4, <1>6, <2>1, GivesOnward
  <2>3. a.p # NULL
    BY <1>2, <1>6, FromLargeBinKeeps
  <2>4. Chosen(s, nb) = Found(s, a)
    BY <1>6 DEF Chosen
  <2> HIDE DEF a
  <2> QED BY <1>1, <2>2, <2>3, <2>4, FoundIsSearched
<1>7. CASE s.p = NULL /\ ~s.cached /\ ~LargeBinServes(s.h, nb) /\ FilledAbove(s.h, nb) # {}
  <2> DEFINE a == FromBinAbove(s.h, nb)
  <2>1. a \in Gives(s.h, H, F, nb)
    BY <1>4, <1>7, FromBinAboveIsSound
  <2>2. a \in Gives(h, H, F, nb)
    BY <1>4, <1>7, <2>1, GivesOnward
  <2>3. a.p # NULL
    BY <1>2, <1>7, FromBinAboveKeeps
  <2>4. Chosen(s, nb) = Found(s, a)
    BY <1>7 DEF Chosen
  <2> HIDE DEF a
  <2> QED BY <1>1, <2>2, <2>3, <2>4, FoundIsSearched
<1>8. CASE s.p = NULL /\ ~s.cached /\ ~LargeBinServes(s.h, nb) /\ FilledAbove(s.h, nb) = {}
  <2> DEFINE a == FromTop([s.h EXCEPT !.binmap = s.h.binmap \ SeenBins(s.h, nb)], nb)
  <2>1. Searched(h, H, F, nb, Found(s, a))
    BY <1>1, <1>4, <1>8, TopIsSearched
  <2>2. Chosen(s, nb) = Found(s, a)
    BY <1>8 DEF Chosen
  <2> QED BY <2>1, <2>2
<1> QED BY <1>2, <1>3, <1>5, <1>6, <1>7, <1>8

(* A round of _int_malloc's search keeps the layout, gives a chunk that    *)
(* fits, or shows that no bin has one.                                     *)
LEMMA SearchIsSound ==
  ASSUME NEW H \in SUBSET Int, NEW F, NEW h \in Sound(H, F), NEW nb \in Chunky, NEW count \in Int
  PROVE  Searched(h, H, F, nb, Search(h, nb, count))
<1>1. Sorting(h, H, F, nb, Sorted(h, nb, count), << >>)
  BY SortedIsSound
<1> QED BY <1>1, ChosenIsSearched DEF Search

(* Once more after the fast chunks were merged. *)
LEMMA SearchedOnward ==
  ASSUME NEW h, NEW H, NEW F, NEW nb, NEW g \in Reach(h, H, F, H), NEW s, Searched(g, H, F, nb, s)
  PROVE  /\ FineTurn(s) /\ Answer(s.h, s.p) \in Gives(h, H, F, nb)
         /\ s.p = NULL => s.h \in Reach(g, H, F, H)
<1>1. FineTurn(s) /\ Answer(s.h, s.p) \in Gives(g, H, F, nb)
  BY DEF Searched
<1>2. Answer(s.h, s.p).h = s.h /\ Answer(s.h, s.p).p = s.p
  BY DEF Answer
<1>3. Answer(s.h, s.p) \in Gives(h, H, F, nb)
  BY <1>1, GivesOnward
<1>4. s.p = NULL => s.h \in Reach(g, H, F, H)
  BY <1>1, <1>2, GivesIs
<1> QED BY <1>1, <1>3, <1>4

(* What the loop of _int_malloc leads to: without a chunk, neither a list  *)
(* nor top has one that could serve.                                       *)
Exhausted(h, H, F, nb, s) ==
  /\ FineTurn(s) /\ Answer(s.h, s.p) \in Gives(h, H, F, nb)
  /\ s.p = NULL => s.h \in Reach(h, H, F, H) /\ (~s.h.aborted => ~FreeChunkFits(s.h, nb))

(* Then none is free that would fit. *)
LEMMA NoneFits ==
  ASSUME NEW h \in Good, NEW nb, BinsAreSmall(h, nb), TopIsSmall(h, nb), \A i \in 0 .. NFASTBINS - 1 : h.fast[i] = << >>
  PROVE  ~FreeChunkFits(h, nb)
<1>1. DOMAIN h.bins = 1 .. NBINS - 1 /\ DOMAIN h.fast = 0 .. NFASTBINS - 1
  BY GoodBins DEF Bins, Fasts
<1>2. \A b \in 1 .. NBINS - 1 : \A k \in DOMAIN h.bins[b] : h.bins[b][k] \in ToSet(h.bins[b])
  BY DEF ToSet
<1>3. \A b \in 1 .. NBINS - 1 : \A k \in DOMAIN h.bins[b] : ~(chunksize(h, h.bins[b][k]) >= nb)
  BY <1>2 DEF BinsAreSmall
<1> QED BY <1>1, <1>3 DEF FreeChunkFits, TopIsSmall

(* The second round, after malloc_consolidate has emptied the fastbins. *)
LEMMA AgainIsSound ==
  ASSUME NEW h, NEW H \in SUBSET Int, NEW F, NEW nb \in Chunky, NEW g \in Reach(h, H, F, H), SmallIsEmpty(g, nb),
         NEW s, Searched(g, H, F, nb, s)
  PROVE  Exhausted(h, H, F, nb, SearchAgain(s, nb))
<1>1. /\ FineTurn(s) /\ Answer(s.h, s.p) \in Gives(h, H, F, nb)
      /\ s.p = NULL => s.h \in Reach(g, H, F, H)
  BY SearchedOnward
<1>2. s.h \in Good /\ s.count \in Int
  BY <1>1 DEF FineTurn
<1>3. CASE s.p # NULL
  BY <1>1, <1>3 DEF SearchAgain, Exhausted
<1>4. CASE s.p = NULL /\ ~s.h.have_fastchunks
  <2>1. SearchAgain(s, nb) = s
    BY <1>4 DEF SearchAgain
  <2>2. s.h \in Reach(h, H, F, H)
    BY <1>1, <1>4, ReachTwice
  <2>3. ASSUME ~s.h.aborted PROVE ~FreeChunkFits(s.h, nb)
    <3>1. BinsAreSmall(s.h, nb) /\ TopIsSmall(s.h, nb)
      BY <1>4, <2>3 DEF Searched
    <3>2. \A i \in 0 .. NFASTBINS - 1 : s.h.fast[i] = << >>
      BY <1>2, <1>4, GoodBins DEF FastAreFlagged
    <3> QED BY <1>2, <3>1, <3>2, NoneFits
  <2> QED BY <1>1, <2>1, <2>2, <2>3 DEF Exhausted
<1>5. CASE s.p = NULL /\ s.h.have_fastchunks
  <2> DEFINE m == malloc_consolidate(s.h)
             t == Search(m, nb, s.count)
  <2>1. SearchAgain(s, nb) = t
    BY <1>5 DEF SearchAgain
  <2>2. s.h \in Sound(H, F) /\ s.h \in Reach(h, H, F, H) /\ s.h \in Reach(g, H, F, H)
    BY <1>1, <1>5, ReachTwice, ReachIs
  <2>3. m \in Reach(s.h, H, F, H)
    BY <2>2, ConsolidateReaches
  <2>4. m \in Merged /\ \A b \in 2 .. NBINS - 1 : StaysEmpty(s.h, m, b)
    BY <1>2, ConsolidateKeeps, ConsolidateStaysEmpty
  <2> HIDE DEF m
  <2>5. m \in Sound(H, F) /\ m \in Reach(h, H, F, H)
    BY <2>2, <2>3, ReachTwice, ReachIs
  <2>6. Searched(m, H, F, nb, t)
    BY <1>2, <2>5, SearchIsSound
  <2> HIDE DEF t
  <2>7. /\ FineTurn(t) /\ Answer(t.h, t.p) \in Gives(h, H, F, nb)
        /\ t.p = NULL => t.h \in Reach(m, H, F, H)
    BY <2>5, <2>6, SearchedOnward
  <2>8. t.p = NULL => t.h \in Reach(h, H, F, H)
    BY <2>5, <2>7, ReachTwice
  <2>9. ASSUME t.p = NULL, ~t.h.aborted PROVE ~FreeChunkFits(t.h, nb)
    <3>1. ~m.aborted
      BY <2>7, <2>9, ReachIs
    <3>2. ~s.h.aborted
      BY <2>3, <3>1, ReachIs
    <3>3. SmallIsEmpty(s.h, nb)
      BY <1>5, <3>2 DEF Searched
    <3>4. SmallIsEmpty(m, nb)
      <4>1. bin_index(nb) \in 2 .. NBINS - 1
        BY BinIndexIs
      <4> QED BY <2>4, <3>3, <4>1 DEF SmallIsEmpty, StaysEmpty
    <3>5. BinsAreSmall(t.h, nb) /\ t.h.fast = m.fast /\ TopIsSmall(t.h, nb)
      BY <2>6, <2>9, <3>4 DEF Searched
    <3>6. \A i \in 0 .. NFASTBINS - 1 : t.h.fast[i] = << >>
      BY <2>4, <3>5 DEF Merged, NoFast
    <3>7. t.h \in Good
      BY <2>7 DEF FineTurn
    <3> QED BY <3>5, <3>6, <3>7, NoneFits
  <2> QED BY <2>1, <2>7, <2>8, <2>9 DEF Exhausted
<1> QED BY <1>3, <1>4, <1>5

(* sysmalloc is called when no free chunk fits, and not before: h.needless *)
(* stays.                                                                  *)
LEMMA ElseSysmallocIsSound ==
  ASSUME NEW h, NEW H \in SUBSET Int, NEW F, NEW nb \in Chunky, NEW s, Exhausted(h, H, F, nb, s)
  PROVE  ElseSysmalloc(s, nb) \in Gives(h, H, F, nb)
<1>1. CASE s.p # NULL
  BY <1>1 DEF ElseSysmalloc, Exhausted
<1>2. CASE s.p = NULL
  <2>1. s.h \in Reach(h, H, F, H) /\ (~s.h.aborted => ~FreeChunkFits(s.h, nb))
    BY <1>2 DEF Exhausted
  <2>2. s.h \in Sound(H, F) /\ nb \in Aligned /\ nb >= MINSIZE
    BY <2>1, ReachIs DEF Chunky
  <2>3. sysmalloc(s.h, nb) \in Gives(s.h, H, F, nb)
    BY <2>1, <2>2, SysmallocIsSound
  <2>4. ElseSysmalloc(s, nb) = sysmalloc(s.h, nb)
    BY <1>2 DEF ElseSysmalloc
  <2> QED BY <2>1, <2>3, <2>4, GivesOnward
<1> QED BY <1>1, <1>2

(* _int_malloc. *)
LEMMA MallocIsSound ==
  ASSUME NEW H \in SUBSET Int, NEW F, NEW h \in Sound(H, F), NEW nb \in Chunky
  PROVE  int_malloc(h, nb) \in Gives(h, H, F, nb)
<1> DEFINE g == IF ~in_smallbin_range(nb) /\ h.have_fastchunks THEN malloc_consolidate(h) ELSE h
           s == Search(g, nb, 0)
           t == SearchAgain(s, nb)
<1>1. CASE nb <= h.mp.max_fast /\ h.fast[fastbin_index(nb)] # << >>
  BY <1>1, FromFastbinIsSound DEF int_malloc
<1>2. CASE ~(nb <= h.mp.max_fast /\ h.fast[fastbin_index(nb)] # << >>) /\ in_smallbin_range(nb) /\ h.bins[bin_index(nb)] # << >>
  BY <1>2, FromSmallbinIsSound DEF int_malloc
<1>3. CASE ~(nb <= h.mp.max_fast /\ h.fast[fastbin_index(nb)] # << >>) /\ ~(in_smallbin_range(nb) /\ h.bins[bin_index(nb)] # << >>)
  <2>1. int_malloc(h, nb) = ElseSysmalloc(t, nb)
    BY <1>3 DEF int_malloc
  <2>2. g \in Reach(h, H, F, H) /\ SmallIsEmpty(g, nb)
    <3>1. CASE in_smallbin_range(nb)
      <4>1. g = h /\ SmallIsEmpty(h, nb)
        BY <1>3, <3>1 DEF SmallIsEmpty
      <4> HIDE DEF g
      <4> QED BY <4>1, Stay
    <3>2. CASE ~in_smallbin_range(nb)
      <4>1. SmallIsEmpty(g, nb)
        BY <3>2 DEF SmallIsEmpty
      <4>2. h \in Reach(h, H, F, H) /\ malloc_consolidate(h) \in Reach(h, H, F, H)
        BY Stay, ConsolidateReaches
      <4> QED BY <4>1, <4>2
    <3> QED BY <3>1, <3>2
  <2> HIDE DEF g
  <2>3. g \in Sound(H, F) /\ 0 \in Int
    BY <2>2, ReachIs
  <2>4. Searched(g, H, F, nb, s)
    BY <2>3, SearchIsSound
  <2> HIDE DEF s
  <2>5. Exhausted(h, H, F, nb, t)
    BY <2>2, <2>4, AgainIsSound
  <2> HIDE DEF t
  <2>6. ElseSysmalloc(t, nb) \in Gives(h, H, F, nb)
    BY <2>5, ElseSysmallocIsSound
  <2> QED BY <2>1, <2>6
<1> QED BY <1>1, <1>2, <1>3

-----------------------------------------------------------------------------
(* The public functions, and the cache. *)

(* The chunks of C stay as they are. *)
Same(h, g, C) == \A q \in C : q \in DOMAIN Shape(h) => q \in DOMAIN Shape(g) /\ Shape(g)[q] = Shape(h)[q]

(* What a public function makes of h: the cache may be new, or gone. *)
Later(h, K, F, C) == {g \in Sound(K, F) : ~g.aborted => ~h.aborted /\ Same(h, g, C)}

Provides(h, H, F, nb) ==
  {a \in [h : Good, p : Aligned \union {NULL}] :
     /\ a.h \in Later(h, H \union ({a.p} \ {NULL}), F, H)
     /\ ~a.h.aborted /\ a.p # NULL => a.p \notin H /\ Fits(a.h, a.p, nb)}

(* What it says of g to be later than h. *)
LEMMA LaterIs ==
  ASSUME NEW h, NEW K, NEW F, NEW C, NEW g \in Later(h, K, F, C)
  PROVE  /\ g \in Sound(K, F) /\ g \in Good /\ (~g.aborted => Layout(g, K, F) /\ ~h.aborted /\ Same(h, g, C))
BY SoundIs DEF Later

(* What an internal function leads to is what a public one may. *)
LEMMA ReachIsLater ==
  ASSUME NEW h, NEW K, NEW F, NEW C, NEW g \in Reach(h, K, F, C)
  PROVE  g \in Later(h, K, F, C)
BY DEF Reach, Onward, Later, Same

(* Two steps, one after the other. *)
LEMMA LaterTwice ==
  ASSUME NEW h, NEW K, NEW F, NEW B, NEW g \in Later(h, K, F, B), NEW L, NEW G, NEW C, C \subseteq B,
         NEW k \in Later(g, L, G, C)
  PROVE  k \in Later(h, L, G, C)
<1>1. k \in Sound(L, G) /\ (~k.aborted => ~h.aborted /\ Same(h, g, B) /\ Same(g, k, C))
  BY DEF Later
<1>2. Same(h, g, B) /\ Same(g, k, C) => Same(h, k, C)
  BY DEF Same
<1> QED BY <1>1, <1>2 DEF Later

(* Fewer chunks to keep. *)
LEMMA LaterLess ==
  ASSUME NEW h, NEW K, NEW F, NEW B, NEW g \in Later(h, K, F, B), NEW C, C \subseteq B
  PROVE  g \in Later(h, K, F, C)
BY DEF Later, Same

(* After a failed check nothing is promised. *)
LEMMA AbortedIsLater ==
  ASSUME NEW g \in Good, g.aborted, NEW h, NEW K, NEW F, NEW C
  PROVE  g \in Later(h, K, F, C)
BY AbortedReaches, ReachIsLater

(* No step at all. *)
LEMMA StayLater ==
  ASSUME NEW H, NEW F, NEW h \in Sound(H, F), NEW C
  PROVE  h \in Later(h, H, F, C)
BY Stay, ReachIsLater

(* What an internal function answers, after other steps, a public one may. *)
LEMMA GivesProvides ==
  ASSUME NEW h, NEW H, NEW F, NEW nb, NEW g \in Later(h, H, F, H), NEW a \in Gives(g, H, F, nb)
  PROVE  a \in Provides(h, H, F, nb)
<1> DEFINE K == H \union ({a.p} \ {NULL})
<1>1. /\ a \in [h : Good, p : Aligned \union {NULL}] /\ a.h \in Reach(g, K, F, H)
      /\ ~a.h.aborted /\ a.p # NULL => a.p \notin H /\ Fits(a.h, a.p, nb)
  BY DEF Gives
<1> HIDE DEF K
<1>2. a.h \in Later(g, K, F, H)
  BY <1>1, ReachIsLater
<1>3. a.h \in Later(h, K, F, H)
  BY <1>2, LaterTwice
<1> QED BY <1>1, <1>3 DEF Provides, K

(* An answer of NULL. *)
LEMMA ProvidesNothing ==
  ASSUME NEW h, NEW H, NEW F, NEW nb, NEW g \in Later(h, H, F, H)
  PROVE  Answer(g, NULL) \in Provides(h, H, F, nb)
<1>1. g \in Good /\ g \in Sound(H, F)
  BY LaterIs
<1>2. g \in Reach(g, H, F, H)
  BY <1>1, Stay
<1>3. Answer(g, NULL) \in Gives(g, H, F, nb)
  BY <1>2, GivesNothing
<1> QED BY <1>3, GivesProvides

(* An answer of a chunk that fits. *)
LEMMA ProvidesThis ==
  ASSUME NEW h, NEW H, NEW F, NEW nb, NEW p \in Aligned, NEW g \in Later(h, H \union {p}, F, H),
         ~g.aborted => p \notin H /\ Fits(g, p, nb)
  PROVE  Answer(g, p) \in Provides(h, H, F, nb)
<1>1. g \in Good
  BY LaterIs
<1>2. Answer(g, p) = [h |-> g, p |-> p]
  BY DEF Answer
<1>3. p # NULL
  BY PtAssumption DEF Aligned
<1> DEFINE b == Answer(g, p)
<1>4. b \in [h : Good, p : Aligned \union {NULL}] /\ b.h = g /\ b.p = p
  BY <1>1, <1>2
<1> HIDE DEF b
<1>5. {b.p} \ {NULL} = {p}
  BY <1>3, <1>4
<1>6. b \in Provides(h, H, F, nb)
  BY <1>4, <1>5 DEF Provides
<1> QED BY <1>6 DEF b

(* What an answer says. *)
LEMMA ProvidesIs ==
  ASSUME NEW h, NEW H, NEW F, NEW nb, NEW a \in Provides(h, H, F, nb)
  PROVE  /\ a.h \in Good /\ a.p \in Aligned \union {NULL} /\ a = Answer(a.h, a.p)
         /\ a.p = NULL => a.h \in Later(h, H, F, H)
         /\ a.p # NULL => a.p \in Aligned /\ a.p \in Int /\ a.h \in Later(h, H \union {a.p}, F, H)
         /\ ~a.h.aborted /\ a.p # NULL => a.p \notin H /\ Fits(a.h, a.p, nb)
<1>1. /\ a \in [h : Good, p : Aligned \union {NULL}] /\ a.h \in Later(h, H \union ({a.p} \ {NULL}), F, H)
      /\ ~a.h.aborted /\ a.p # NULL => a.p \notin H /\ Fits(a.h, a.p, nb)
  BY DEF Provides
<1>2. a.h \in Good /\ a.p \in Aligned \union {NULL} /\ a = Answer(a.h, a.p)
  BY <1>1 DEF Answer
<1>3. a.p = NULL => H \union ({a.p} \ {NULL}) = H
  OBVIOUS
<1>4. a.p # NULL => H \union ({a.p} \ {NULL}) = H \union {a.p} /\ a.p \in Aligned /\ a.p \in Int
  BY <1>2 DEF Aligned
<1> QED BY <1>1, <1>2, <1>3, <1>4

(* An answer after a step that kept the chunks in hand. *)
LEMMA ProvidesOnward ==
  ASSUME NEW h, NEW H, NEW F, NEW nb, NEW g \in Later(h, H, F, H), NEW a \in Provides(g, H, F, nb)
  PROVE  a \in Provides(h, H, F, nb)
<1> DEFINE K == H \union ({a.p} \ {NULL})
<1>1. /\ a \in [h : Good, p : Aligned \union {NULL}] /\ a.h \in Later(g, K, F, H)
      /\ ~a.h.aborted /\ a.p # NULL => a.p \notin H /\ Fits(a.h, a.p, nb)
  BY DEF Provides
<1> HIDE DEF K
<1>2. a.h \in Later(h, K, F, H)
  BY <1>1, LaterTwice
<1> QED BY <1>1, <1>2 DEF Provides, K

(* The struct of the cache goes from the hand to its place. *)
StartsCache(g, k, p) ==
  /\ k.mem = g.mem /\ k.top = g.top /\ k.bins = g.bins /\ k.fast = g.fast /\ k.brk = g.brk /\ k.maps = g.maps
  /\ k.needless = g.needless /\ k.aborted = g.aborted /\ k.tcache = p /\ k.entries = g.entries

(* tcache_init: the chunk just allocated holds the struct of the cache,    *)
(* which is empty.                                                         *)
LEMMA CacheStarts ==
  ASSUME NEW g, NEW k, NEW H \in SUBSET Int, NEW F, NEW p \in Int, p \notin H, p # NULL,
         Layout(g, H \union {p}, F), g.tcache = NULL, StartsCache(g, k, p)
  PROVE  Layout(k, H, F)
<1> DEFINE s == Shape(g)
           E == Where(g, H \union {p})
           D == Where(k, H)
<1>1. Shape(k) = s
  BY DEF Shape, StartsCache
<1>2. Ground(s, g.top, g.brk, g.maps, F) /\ Placed(s, E) /\ Distinct(g) /\ ~g.needless
  BY DEF Layout
<1>3. E[Hand] = H \union {p} /\ E[Own] = {} /\ D[Hand] = H /\ D[Own] = {p} /\ Hand \in Int /\ Own \in Int /\ Hand # Own
  BY WhereIs, Elsewhere DEF StartsCache
<1>4. \A z \in Int \ {Hand, Own} : D[z] = E[z]
  BY DEF Where, StartsCache
<1> HIDE DEF E, D, s
<1>5. Suits(Own, s[p])
  <2>1. Suits(Hand, s[p])
    BY <1>2, <1>3, PlacedOnly
  <2>2. Own \notin 2 .. NBINS - 1 /\ Own \notin FastPlaces /\ Own \notin CachePlaces
    <3>1. 2 .. NBINS - 1 \subseteq 1 .. NBINS - 1
      OBVIOUS
    <3> QED BY <3>1, Elsewhere
  <2> QED BY <2>1, <2>2 DEF Suits
<1>6. Placed(s, D)
  <2>1. p \in E[Hand] /\ D[Hand] = E[Hand] \ {p} /\ D[Own] = E[Own] \union {p}
    BY <1>3
  <2> QED BY <1>2, <1>3, <1>4, <1>5, <2>1, Moved
<1>7. Distinct(k) /\ CacheIsOwned(k) /\ ~k.needless /\ Ground(s, k.top, k.brk, k.maps, F)
  BY <1>2 DEF Distinct, CacheIsOwned, StartsCache
<1> QED BY <1>1, <1>6, <1>7 DEF Layout, D, s

(* tcache_init. *)
LEMMA TcacheInitIsSound ==
  ASSUME NEW H \in SUBSET Int, NEW F, NEW h \in Sound(H, F)
  PROVE  tcache_init(h) \in Later(h, H, F, H)
<1> DEFINE nb == request2size(TcacheBytes)
           a == int_malloc(h, nb)
           g == a.h
           p == a.p
           entries == [i \in DOMAIN g.entries |-> << >>]
           k == [g EXCEPT !.tcache = p, !.entries = entries]
<1>1. h \in Good /\ tcache_init(h) \in Good
  BY SoundIs, TcacheInitKeeps
<1>2. CASE h.shutting_down \/ HasTcache(h)
  BY <1>2, StayLater DEF tcache_init
<1>3. CASE ~(h.shutting_down \/ HasTcache(h))
  <2>1. a \in Gives(h, H, F, nb)
    <3>1. nb \in Chunky
      BY RequestIsChunky, PtAssumption
    <3> QED BY <3>1, MallocIsSound
  <2>2. tcache_init(h) = IF p = NULL THEN g ELSE k
    BY <1>3 DEF tcache_init, WithTcache
  <2> HIDE DEF a, nb
  <2>3. /\ g \in Good /\ p \in Aligned \union {NULL}
        /\ p = NULL => g \in Reach(h, H, F, H)
        /\ p # NULL => p \in Aligned /\ p \in Int /\ g \in Reach(h, H \union {p}, F, H)
        /\ ~g.aborted /\ p # NULL => p \notin H
    BY <2>1, GivesIs
  <2> HIDE DEF g, p
  <2>4. CASE p = NULL
    BY <2>2, <2>3, <2>4, ReachIsLater
  <2>5. CASE p # NULL
    <3>1. g.entries \in Caches /\ g \in Heaps
      BY <2>3, GoodBins DEF Good
    <3>2. k.aborted = g.aborted /\ k \in Good
      BY <1>1, <2>2, <2>5, <3>1 DEF Heaps
    <3>3. CASE k.aborted
      BY <2>2, <2>5, <3>2, <3>3, AbortedIsLater
    <3>4. CASE ~k.aborted
      <4>1. Layout(g, H \union {p}, F) /\ ~h.aborted /\ g.tcache = h.tcache /\ Same(h, g, H) /\ p \notin H /\ p \in Int
        BY <2>3, <2>5, <3>2, <3>4, ReachIs DEF Same
      <4>2. g.tcache = NULL
        BY <1>3, <4>1 DEF HasTcache
      <4>3. entries = g.entries
        <5>1. \A i \in 0 .. TCACHE_MAX_BINS - 1 : g.entries[i] = << >>
          BY <4>1, <4>2 DEF Layout, CacheIsOwned, NoCache
        <5> QED BY <3>1, <5>1 DEF Caches
      <4> HIDE DEF entries
      <4>4. StartsCache(g, k, p)
        BY <3>1, <4>3 DEF Heaps, StartsCache
      <4>5. Shape(k) = Shape(g)
        BY <4>4 DEF StartsCache, Shape
      <4> HIDE DEF k
      <4>6. Layout(k, H, F)
        BY <2>5, <4>1, <4>2, <4>4, CacheStarts
      <4>7. Same(h, k, H)
        BY <4>1, <4>5 DEF Same
      <4>8. k \in Later(h, H, F, H)
        BY <3>2, <4>1, <4>6, <4>7 DEF Later, Sound
      <4> QED BY <2>2, <2>5, <4>8
    <3> QED BY <3>3, <3>4
  <2> QED BY <2>4, <2>5
<1> QED BY <1>2, <1>3

(* malloc, with the cache. *)
LEMMA MallocFromIsSound ==
  ASSUME NEW H \in SUBSET Int, NEW F, NEW h \in Sound(H, F), NEW nb \in Chunky
  PROVE  MallocFrom(h, nb) \in Gives(h, H, F, nb)
<1>1. CASE Cacheable(h, nb) /\ h.entries[csize2tidx(nb)] # << >>
  <2>1. Cached(h, nb)
    BY <1>1, TidxIs DEF Cached
  <2>2. h \in Reach(h, H, F, H)
    BY Stay
  <2>3. tcache_get(h, csize2tidx(nb)) \in Gives(h, H, F, nb)
    BY <2>1, <2>2, CachedServes
  <2> QED BY <1>1, <2>3 DEF MallocFrom
<1>2. CASE ~(Cacheable(h, nb) /\ h.entries[csize2tidx(nb)] # << >>)
  BY <1>2, MallocIsSound DEF MallocFrom
<1> QED BY <1>1, <1>2

(* malloc. *)
LEMMA LibcMallocIsSound ==
  ASSUME NEW H \in SUBSET Int, NEW F, NEW h \in Sound(H, F), NEW bytes \in Int
  PROVE  libc_malloc(h, bytes) \in Provides(h, H, F, request2size(bytes))
<1> DEFINE nb == request2size(bytes)
           g == tcache_init(h)
<1>1. nb \in Chunky
  BY RequestIsChunky
<1>2. g \in Later(h, H, F, H)
  BY TcacheInitIsSound
<1>3. libc_malloc(h, bytes) = IF Representable(bytes) THEN MallocFrom(g, nb) ELSE Answer(h, NULL)
  BY DEF libc_malloc
<1> HIDE DEF nb, g
<1>4. g \in Sound(H, F)
  BY <1>2, LaterIs
<1>5. MallocFrom(g, nb) \in Gives(g, H, F, nb)
  BY <1>1, <1>4, MallocFromIsSound
<1>6. MallocFrom(g, nb) \in Provides(h, H, F, nb)
  BY <1>2, <1>5, GivesProvides
<1>7. h \in Later(h, H, F, H)
  BY StayLater
<1>8. Answer(h, NULL) \in Provides(h, H, F, nb)
  BY <1>7, ProvidesNothing
<1> QED BY <1>3, <1>6, <1>8 DEF nb

(* free of a chunk of the arena. *)
LEMMA FreeIsLater ==
  ASSUME NEW H \in SUBSET Int, NEW F, NEW h, NEW g \in Later(h, H, F, H), NEW p \in H, p \in Aligned,
         ~h.aborted => p \in DOMAIN Shape(h) /\ ~Shape(h)[p].mapped
  PROVE  int_free(g, p) \in Later(h, H \ {p}, F, H \ {p})
<1>1. g \in Sound(H, F) /\ (~g.aborted => ~h.aborted /\ Same(h, g, H))
  BY LaterIs
<1>2. ~g.aborted => ~Shape(g)[p].mapped
  BY <1>1 DEF Same
<1>3. int_free(g, p) \in Reach(g, H \ {p}, F, H \ {p})
  BY <1>1, <1>2, FreeIsSound
<1> DEFINE K == H \ {p}
<1>4. int_free(g, p) \in Later(g, K, F, K) /\ K \subseteq H
  BY <1>3, ReachIsLater
<1> HIDE DEF K
<1>5. int_free(g, p) \in Later(h, K, F, K)
  BY <1>4, LaterTwice
<1> QED BY <1>5 DEF K

(* free. *)
LEMMA LibcFreeIsSound ==
  ASSUME NEW H \in SUBSET Int, NEW F, NEW h \in Sound(H, F), NEW p \in H, p \in Aligned
  PROVE  libc_free(h, p) \in Later(h, H \ {p}, F, H \ {p})
<1> DEFINE K == H \ {p}
           u == AdjustThresholds(h, p)
           g == tcache_init(h)
<1>1. p # NULL
  BY PtAssumption DEF Aligned
<1>2. ~h.aborted => p \in DOMAIN Shape(h) /\ mmapped(h, p) = Shape(h)[p].mapped
  <2> SUFFICES ASSUME ~h.aborted PROVE p \in DOMAIN Shape(h) /\ mmapped(h, p) = Shape(h)[p].mapped
    OBVIOUS
  <2>1. Layout(h, H, F)
    BY DEF Sound
  <2>2. p \in DOMAIN Shape(h)
    BY <2>1, InHand DEF Layout
  <2> QED BY <2>2, SizeIs
<1>3. CASE mmapped(h, p)
  <2>1. libc_free(h, p) = munmap_chunk(u, p)
    BY <1>1, <1>3 DEF libc_free
  <2>2. u \in Reach(h, H, F, H) /\ u \in Sound(H, F) /\ Shape(u) = Shape(h) /\ u.aborted = h.aborted
    BY ThresholdsReach
  <2> HIDE DEF u
  <2>3. ~u.aborted => Shape(u)[p].mapped
    BY <1>2, <1>3, <2>2
  <2>4. munmap_chunk(u, p) \in Reach(u, K, F, K)
    BY <2>2, <2>3, MunmapChunkIsSound
  <2> HIDE DEF K
  <2>5. munmap_chunk(u, p) \in Later(u, K, F, K) /\ u \in Later(h, H, F, H)
    BY <2>2, <2>4, ReachIsLater
  <2>6. K \subseteq H
    BY DEF K
  <2>7. munmap_chunk(u, p) \in Later(h, K, F, K)
    BY <2>5, <2>6, LaterTwice
  <2> QED BY <2>1, <2>7 DEF K
<1>4. CASE ~mmapped(h, p)
  <2>1. libc_free(h, p) = int_free(g, p)
    BY <1>1, <1>4 DEF libc_free
  <2>2. g \in Later(h, H, F, H)
    BY TcacheInitIsSound
  <2>3. ~h.aborted => p \in DOMAIN Shape(h) /\ ~Shape(h)[p].mapped
    BY <1>2, <1>4
  <2> HIDE DEF g
  <2>4. int_free(g, p) \in Later(h, H \ {p}, F, H \ {p})
    BY <2>2, <2>3, FreeIsLater
  <2> QED BY <2>1, <2>4
<1> QED BY <1>3, <1>4

(* What is in the cache goes to the hand, and its struct too. *)
CacheChunks(h) == UNION {ToSet(h.entries[i]) : i \in 0 .. TCACHE_MAX_BINS - 1}

EmptiesCache(h, g) ==
  /\ g.mem = h.mem /\ g.top = h.top /\ g.bins = h.bins /\ g.fast = h.fast /\ g.brk = h.brk /\ g.maps = h.maps
  /\ g.needless = h.needless /\ g.tcache = h.tcache /\ g.entries = [i \in 0 .. TCACHE_MAX_BINS - 1 |-> << >>]

(* tcache_thread_shutdown takes all chunks of the cache in hand: none was, *)
(* and no two entries share one.                                           *)
LEMMA CacheInHand ==
  ASSUME NEW h \in Good, NEW g, EmptiesCache(h, g), NEW H \in SUBSET Int, NEW F, Layout(h, H, F)
  PROVE  /\ Layout(g, H \union CacheChunks(h), F) /\ CacheChunks(h) \in SUBSET Int /\ CacheChunks(h) \cap H = {}
         /\ \A p \in CacheChunks(h) : p \in DOMAIN Shape(h) /\ p # h.tcache
         /\ \A i, j \in 0 .. TCACHE_MAX_BINS - 1 : i # j => ToSet(h.entries[i]) \cap ToSet(h.entries[j]) = {}
<1> DEFINE P == CacheChunks(h)
           E == Where(h, H)
           K == H \union P
           D == Where(g, K)
           at == NBINS + NFASTBINS
<1>1. \A i \in 0 .. TCACHE_MAX_BINS - 1 : h.entries[i] \in Seq(Aligned)
  BY GoodBins DEF Lists
<1>2. \A i \in 0 .. TCACHE_MAX_BINS - 1 : ToSet(h.entries[i]) \subseteq Int
  <2>1. Aligned \subseteq Int
    BY DEF Aligned
  <2> QED BY <1>1, <2>1, ToSetType
<1>3. P \in SUBSET Int
  BY <1>2 DEF CacheChunks
<1>4. /\ Where(h, H)[Hand] = H
      /\ \A i \in 0 .. TCACHE_MAX_BINS - 1 : E[at + i] = ToSet(h.entries[i]) /\ at + i \in CachePlaces
  BY WhereIs
<1>5. at \in Nat /\ TCACHE_MAX_BINS \in Nat
  BY PtAssumption, SmallEnough
<1>6. \A i \in 0 .. TCACHE_MAX_BINS - 1 : D[at + i] = ToSet(g.entries[i])
  <2> HIDE DEF K
  <2> QED BY WhereIs
<1>7. CachePlaces = at .. at + TCACHE_MAX_BINS - 1
  BY <1>5 DEF CachePlaces
<1> HIDE DEF at
<1>8. ASSUME NEW i \in 0 .. TCACHE_MAX_BINS - 1, NEW p \in ToSet(h.entries[i])
      PROVE  /\ Only(E, p, at + i) /\ p \in DOMAIN Shape(h) /\ p \notin H /\ p # h.tcache
             /\ at + i \in Int /\ p \in E[at + i]
  <2>1. p \in Int
    BY <1>2
  <2>2. Only(E, p, at + i) /\ p \in DOMAIN Shape(h) /\ p \notin H /\ p # h.tcache
    BY <2>1, InEntryIs DEF at
  <2> QED BY <1>4, <1>5, <2>2
<1>9. P \cap H = {} /\ \A p \in P : p \in DOMAIN Shape(h) /\ p # h.tcache
  BY <1>8 DEF CacheChunks
<1>10. ASSUME NEW i \in 0 .. TCACHE_MAX_BINS - 1, NEW j \in 0 .. TCACHE_MAX_BINS - 1, i # j
       PROVE  ToSet(h.entries[i]) \cap ToSet(h.entries[j]) = {}
  <2> SUFFICES ASSUME NEW p \in ToSet(h.entries[i]), p \in ToSet(h.entries[j]) PROVE FALSE
    OBVIOUS
  <2>1. Only(E, p, at + i) /\ Only(E, p, at + j) /\ p \in E[at + i] /\ at + i \in Int /\ at + j \in Int
    BY <1>8
  <2>2. at + i = at + j
    BY <2>1 DEF Only
  <2> QED BY <1>5, <1>10, <2>2
<1>11. \A i \in 0 .. TCACHE_MAX_BINS - 1 : g.entries[i] = << >>
  BY DEF EmptiesCache
<1> HIDE DEF K
<1>12. Releases(h, g, H, K, P)
  <2>1. Shape(g) = Shape(h) /\ g.top = h.top /\ g.brk = h.brk /\ g.maps = h.maps /\ g.needless = h.needless
    BY DEF Shape, EmptiesCache
  <2>2. Distinct(g) /\ CacheIsOwned(g)
    <3>1. \A i \in 0 .. TCACHE_MAX_BINS - 1 : IsInjective(g.entries[i])
      BY <1>11 DEF IsInjective
    <3>2. g.bins = h.bins /\ g.fast = h.fast /\ Distinct(h)
      BY DEF EmptiesCache, Layout
    <3> QED BY <1>11, <3>1, <3>2 DEF Distinct, CacheIsOwned, NoCache
  <2>3. \A p \in P : \E x \in Int : p \in E[x]
    BY <1>8 DEF CacheChunks
  <2>4. D[Hand] = K /\ K = H \union P /\ E[Hand] = H
    BY <1>4, WhereIs DEF K
  <2>5. ASSUME NEW x \in Int \ {Hand} PROVE D[x] = E[x] \ P
    <3>1. CASE x \in CachePlaces
      <4>1. x - at \in 0 .. TCACHE_MAX_BINS - 1
        BY <1>5, <1>7, <3>1
      <4>2. PICK i \in 0 .. TCACHE_MAX_BINS - 1 : i = x - at
        BY <4>1
      <4>3. x = at + i
        BY <1>5, <4>2
      <4>4. E[x] = ToSet(h.entries[i])
        BY <1>4, <4>3
      <4>5. D[x] = ToSet(g.entries[i])
        BY <1>6, <4>3
      <4>6. ToSet(g.entries[i]) = {}
        BY <1>11, ToSetNone
      <4> QED BY <4>4, <4>5, <4>6 DEF CacheChunks
    <3>2. CASE x \notin CachePlaces
      <4>1. D[x] = E[x]
        BY <2>5, <3>2 DEF Where, EmptiesCache
      <4>2. \A i \in 0 .. TCACHE_MAX_BINS - 1 : x # at + i
        BY <1>4, <3>2
      <4>3. \A p \in P : p \notin E[x]
        BY <1>8, <2>5, <4>2 DEF Only, CacheChunks
      <4> QED BY <4>1, <4>3
    <3> QED BY <3>1, <3>2
  <2> QED BY <1>3, <2>1, <2>2, <2>3, <2>4, <2>5 DEF Releases
<1>13. Layout(g, K, F)
  BY <1>12, Released
<1> QED BY <1>3, <1>9, <1>10, <1>13 DEF K

(* The struct of an empty cache goes to the hand. *)
StopsCache(g, k) ==
  /\ k.mem = g.mem /\ k.top = g.top /\ k.bins = g.bins /\ k.fast = g.fast /\ k.brk = g.brk /\ k.maps = g.maps
  /\ k.needless = g.needless /\ k.tcache = NULL /\ k.entries = g.entries

(* Then the struct itself is in hand. *)
LEMMA CacheStops ==
  ASSUME NEW g, NEW k, NEW H \in SUBSET Int, NEW F, NEW p \in Int, p = g.tcache, p # NULL,
         Layout(g, H, F), StopsCache(g, k), NoCache(g)
  PROVE  Layout(k, H \union {p}, F) /\ p \notin H /\ p \in DOMAIN Shape(g)
<1> DEFINE s == Shape(g)
           E == Where(g, H)
           K == H \union {p}
           D == Where(k, K)
<1>1. Shape(k) = s
  BY DEF Shape, StopsCache
<1>2. Ground(s, g.top, g.brk, g.maps, F) /\ Placed(s, E) /\ Distinct(g) /\ ~g.needless
  BY DEF Layout
<1>3. E[Hand] = H /\ E[Own] = {p} /\ D[Hand] = K /\ D[Own] = {} /\ Hand \in Int /\ Own \in Int /\ Hand # Own
  <2> HIDE DEF K
  <2> QED BY WhereIs, Elsewhere DEF StopsCache
<1>4. \A z \in Int \ {Hand, Own} : D[z] = E[z]
  BY DEF Where, StopsCache
<1>5. p \in Where(g, H)[Own]
  BY <1>3
<1>6. Suits(Hand, Shape(g)[p]) /\ Only(E, p, Own) /\ p \in DOMAIN s
  BY <1>3, <1>5, InPlace
<1>7. p \notin H
  BY <1>3, <1>6 DEF Only
<1> HIDE DEF E, D, s
<1>8. Placed(s, D)
  <2>1. p \in E[Own] /\ D[Own] = E[Own] \ {p} /\ D[Hand] = E[Hand] \union {p} /\ Suits(Hand, s[p])
    BY <1>3, <1>6 DEF s
  <2> QED BY <1>2, <1>3, <1>4, <2>1, Moved
<1>9. Distinct(k) /\ CacheIsOwned(k) /\ ~k.needless /\ Ground(s, k.top, k.brk, k.maps, F)
  BY <1>2 DEF Distinct, CacheIsOwned, NoCache, StopsCache
<1> QED BY <1>1, <1>6, <1>7, <1>8, <1>9 DEF Layout, D, s

(* free of the chunks of a list, one after the other. *)
LEMMA FreesGood ==
  ASSUME NEW h \in Good, NEW p \in Aligned
  PROVE  libc_free(h, p) \in Good
BY LibcFreeKeeps

(* The loop that frees them, turn by turn. *)
LEMMA FreedTurns ==
  ASSUME NEW h \in Good, NEW seq \in Seq(Aligned)
  PROVE  \E it : /\ it[0] = h /\ FoldLeft(libc_free, h, seq) = it[Len(seq)]
                 /\ \A m \in 0 .. Len(seq) : it[m] \in Good
                 /\ \A m \in 1 .. Len(seq) : it[m] = libc_free(it[m - 1], seq[m])
<1> DEFINE n == Len(seq)
           F == [x \in Good \X (1 .. n) |-> libc_free(x[1], seq[x[2]])]
           Is(f) == f = [s \in SUBSET (DOMAIN seq) |->
                           IF s = {} THEN h ELSE libc_free(f[s \ {Max(s)}], seq[Max(s)])]
           it == CHOOSE f : Is(f)
<1>0. FoldLeft(libc_free, h, seq) = it[DOMAIN seq]
  BY DEF FoldLeft, MapThenFoldSet
<1>1. n \in Nat /\ DOMAIN seq = 1 .. n /\ \A m \in 1 .. n : seq[m] \in Aligned
  OBVIOUS
<1>2. F \in [Good \X (1 .. n) -> Good] /\ \A x \in Good, m \in 1 .. n : F[<<x, m>>] = libc_free(x, seq[m])
  BY <1>1, FreesGood
<1> HIDE DEF n, F
<1>3. PICK f \in [SUBSET (1 .. n) -> Good] : Steps(f, h, F, n)
  BY <1>1, <1>2, StepsExist
<1>4. \A s \in SUBSET (1 .. n) : s # {} => Max(s) \in s
  BY <1>1, MaxInInterval
<1>5. \A s \in SUBSET (1 .. n) : f[s] = IF s = {} THEN h ELSE libc_free(f[s \ {Max(s)}], seq[Max(s)])
  BY <1>2, <1>3, <1>4 DEF Steps
<1>6. Is(f)
  BY <1>1, <1>5
<1>7. Is(it)
  BY <1>6
<1>8. \A s \in SUBSET (1 .. n) : it[s] = IF s = {} THEN h ELSE libc_free(it[s \ {Max(s)}], seq[Max(s)])
  BY <1>1, <1>7
<1> HIDE DEF Is, it
<1> DEFINE k == [m \in 0 .. n |-> it[1 .. m]]
<1>9. k[0] = h
  <2>1. 1 .. 0 = {} /\ {} \in SUBSET (1 .. n) /\ 0 \in 0 .. n
    BY <1>1
  <2> QED BY <1>8, <2>1
<1>10. ASSUME NEW m \in 1 .. n PROVE k[m] = libc_free(k[m - 1], seq[m])
  <2>1. Max(1 .. m) = m /\ (1 .. m) \ {m} = 1 .. (m - 1) /\ 1 .. m # {} /\ 1 .. m \in SUBSET (1 .. n)
    BY <1>1, LastOfInterval
  <2>2. it[1 .. m] = libc_free(it[(1 .. m) \ {Max(1 .. m)}], seq[Max(1 .. m)])
    BY <1>8, <2>1
  <2>3. it[1 .. m] = libc_free(it[1 .. (m - 1)], seq[m])
    BY <2>1, <2>2, Zenon
  <2>4. m \in 0 .. n /\ m - 1 \in 0 .. n
    BY <1>1
  <2> QED BY <2>3, <2>4
<1>11. FoldLeft(libc_free, h, seq) = k[n]
  BY <1>0, <1>1
<1> HIDE DEF k
<1>12. ASSUME NEW m \in 0 .. n PROVE k[m] \in Good
  <2> DEFINE I == [j \in 0 .. m |-> Good]
  <2>1. k[0] \in I[0] /\ \A j \in 1 .. m : k[j - 1] \in I[j - 1] => k[j] \in I[j]
    <3>1. ASSUME NEW j \in 1 .. m, k[j - 1] \in Good PROVE k[j] \in Good
      <4>1. j \in 1 .. n
        BY <1>1
      <4> QED BY <1>1, <1>10, <3>1, <4>1, FreesGood
    <3> QED BY <1>9, <3>1
  <2>2. I[m] = Good /\ m \in Nat
    OBVIOUS
  <2> HIDE DEF I
  <2> QED BY <2>1, <2>2, TurnsEnd
<1>13. n = Len(seq)
  BY DEF n
<1> QED BY <1>9, <1>10, <1>11, <1>12, <1>13

(* A failed check remains. *)
LEMMA FreeOnward ==
  ASSUME NEW h \in Good, NEW p \in Aligned, ~libc_free(h, p).aborted
  PROVE  ~h.aborted
<1> SUFFICES ASSUME h.aborted PROVE FALSE
  OBVIOUS
<1> DEFINE H == {p}
<1>1. H \in SUBSET Int /\ p \in H /\ h \in Sound(H, {})
  BY DEF Aligned, Sound
<1> HIDE DEF H
<1>2. libc_free(h, p) \in Later(h, H \ {p}, {}, H \ {p})
  BY <1>1, LibcFreeIsSound
<1> QED BY <1>2 DEF Later

(* The chunks of a list in hand are freed. *)
LEMMA FreedIsSound ==
  ASSUME NEW H \in SUBSET Int, NEW F, NEW g \in Good, NEW seq \in Seq(Aligned), NEW P,
         P = ToSet(seq), P \cap H = {}, ~g.aborted => Layout(g, H \union P, F) /\ IsInjective(seq)
  PROVE  FoldLeft(libc_free, g, seq) \in Later(g, H, F, H)
<1> DEFINE n == Len(seq)
           R(k) == {seq[j] : j \in k + 1 .. n}
<1>1. n \in Nat /\ (\A k \in 1 .. n : seq[k] \in Aligned) /\ DOMAIN seq = 1 .. n
  OBVIOUS
<1>2. PICK it : /\ it[0] = g /\ FoldLeft(libc_free, g, seq) = it[Len(seq)]
                /\ \A k \in 0 .. Len(seq) : it[k] \in Good
                /\ \A k \in 1 .. Len(seq) : it[k] = libc_free(it[k - 1], seq[k])
  BY FreedTurns
<1>3. R(0) = P /\ P \in SUBSET Int
  BY <1>1 DEF ToSet, Aligned
<1> HIDE DEF n
<1> DEFINE I == [k \in 0 .. n |-> Later(g, H \union R(k), F, H \union R(k))]
<1>4. R(n) = {}
  BY <1>1
<1> HIDE DEF R
<1>5. it[0] \in I[0]
  <2>1. I[0] = Later(g, H \union R(0), F, H \union R(0))
    BY <1>1
  <2>2. g \in Sound(H \union R(0), F)
    BY <1>3 DEF Sound
  <2>3. g \in Later(g, H \union R(0), F, H \union R(0))
    BY <2>2, StayLater
  <2> QED BY <1>2, <2>1, <2>3
<1>6. ASSUME NEW k \in 1 .. n, it[k - 1] \in I[k - 1] PROVE it[k] \in I[k]
  <2> DEFINE x == it[k - 1]
             y == it[k]
             p == seq[k]
             B == H \union R(k - 1)
  <2>1. k - 1 \in 0 .. n /\ k \in 0 .. n /\ p \in Aligned
    BY <1>1
  <2>2. x \in Later(g, B, F, B) /\ x \in Good /\ y \in Good /\ y = libc_free(x, p)
    BY <1>2, <1>6, <2>1 DEF n
  <2>3. I[k] = Later(g, H \union R(k), F, H \union R(k))
    BY <2>1
  <2>4. CASE x.aborted
    <3>1. y.aborted
      BY <2>1, <2>2, <2>4, FreeOnward
    <3> HIDE DEF x, y, I
    <3>2. y \in Later(g, H \union R(k), F, H \union R(k))
      BY <2>2, <3>1, AbortedIsLater
    <3> QED BY <2>3, <3>2 DEF y
  <2>5. CASE ~x.aborted
    <3>1. ~g.aborted
      BY <2>2, <2>5 DEF Later
    <3>2. R(k - 1) = R(k) \union {p} /\ p \notin R(k)
      <4>1. k .. n = {k} \union (k + 1 .. n) /\ (k - 1) + 1 = k
        BY <1>1
      <4>2. R(k - 1) = R(k) \union {p}
        BY <4>1 DEF R
      <4>3. \A j \in k + 1 .. n : seq[j] # seq[k]
        <5>1. \A j \in k + 1 .. n : j \in 1 .. n /\ j # k
          BY <1>1
        <5> QED BY <1>1, <3>1, <5>1 DEF IsInjective
      <4>4. p \notin R(k)
        BY <4>3 DEF R
      <4> QED BY <4>2, <4>4
    <3>3. R(k - 1) \subseteq R(0)
      <4>1. \A j \in (k - 1) + 1 .. n : j \in 0 + 1 .. n
        BY <1>1
      <4> QED BY <4>1 DEF R
    <3>4. p \notin H /\ R(k - 1) \subseteq P
      BY <1>3, <3>2, <3>3
    <3>5. B \in SUBSET Int /\ p \in B /\ B \ {p} = H \union R(k)
      BY <1>3, <3>2, <3>4
    <3> HIDE DEF x, y, p, B, I
    <3>6. x \in Sound(B, F)
      BY <2>2, LaterIs
    <3>7. y \in Later(x, B \ {p}, F, B \ {p})
      BY <2>1, <2>2, <3>5, <3>6, LibcFreeIsSound
    <3>8. y \in Later(g, B \ {p}, F, B \ {p})
      BY <2>2, <3>7, LaterTwice
    <3> QED BY <2>3, <3>5, <3>8 DEF y
  <2> QED BY <2>4, <2>5
<1>7. it[n] \in I[n]
  <2> HIDE DEF I
  <2> QED BY <1>1, <1>5, <1>6, TurnsEnd
<1>8. I[n] = Later(g, H, F, H)
  <2>1. n \in 0 .. n /\ H \union R(n) = H
    BY <1>1, <1>4
  <2> QED BY <2>1
<1> QED BY <1>2, <1>7, <1>8 DEF n

(* What the cache had, as a list. *)
CacheList(h) == FlattenSeq([i \in 1 .. TCACHE_MAX_BINS |-> h.entries[i - 1]])

(* The list of the chunks of the cache has each of them once. *)
LEMMA CacheListIs ==
  ASSUME NEW h \in Good
  PROVE  /\ CacheList(h) \in Seq(Aligned) /\ ToSet(CacheList(h)) = CacheChunks(h)
         /\ (/\ \A i \in 0 .. TCACHE_MAX_BINS - 1 : IsInjective(h.entries[i])
             /\ \A i, j \in 0 .. TCACHE_MAX_BINS - 1 : i # j => ToSet(h.entries[i]) \cap ToSet(h.entries[j]) = {})
            => IsInjective(CacheList(h))
<1> DEFINE lists == [i \in 1 .. TCACHE_MAX_BINS |-> h.entries[i - 1]]
           n == TCACHE_MAX_BINS
<1>1. n \in Nat
  BY PtAssumption
<1>2. \A i \in 1 .. n : i - 1 \in 0 .. n - 1
  BY <1>1
<1>3. \A i \in 1 .. n : h.entries[i - 1] \in Seq(Aligned)
  BY <1>2, GoodBins DEF Lists
<1>4. lists \in Seq(Seq(Aligned)) /\ DOMAIN lists = 1 .. n /\ \A i \in 1 .. n : lists[i] = h.entries[i - 1]
  BY <1>1, <1>3
<1>5. CacheList(h) = FlattenSeq(lists)
  BY DEF CacheList
<1> HIDE DEF lists
<1>6. CacheList(h) \in Seq(Aligned)
  BY <1>4, <1>5, FlattenedType
<1>7. /\ ToSet(FlattenSeq(lists)) = UNION {ToSet(lists[i]) : i \in DOMAIN lists}
      /\ (/\ \A i \in DOMAIN lists : IsInjective(lists[i])
          /\ \A i, j \in DOMAIN lists : i # j => ToSet(lists[i]) \cap ToSet(lists[j]) = {})
         => IsInjective(FlattenSeq(lists))
  BY <1>4, FlattenedOnce
<1>8. UNION {ToSet(lists[i]) : i \in DOMAIN lists} = CacheChunks(h)
  <2>1. ASSUME NEW x \in CacheChunks(h) PROVE x \in UNION {ToSet(lists[i]) : i \in DOMAIN lists}
    <3>1. PICK i \in 0 .. n - 1 : x \in ToSet(h.entries[i])
      BY <2>1 DEF CacheChunks
    <3>2. i + 1 \in 1 .. n /\ (i + 1) - 1 = i
      BY <1>1
    <3>3. x \in ToSet(lists[i + 1])
      BY <1>4, <3>1, <3>2
    <3> QED BY <1>4, <3>2, <3>3
  <2>2. ASSUME NEW i \in 1 .. n, NEW x \in ToSet(lists[i]) PROVE x \in CacheChunks(h)
    <3>1. i - 1 \in 0 .. n - 1 /\ x \in ToSet(h.entries[i - 1])
      BY <1>2, <1>4
    <3> QED BY <3>1 DEF CacheChunks
  <2> QED BY <1>4, <2>1, <2>2
<1>9. ASSUME \A i \in 0 .. n - 1 : IsInjective(h.entries[i]),
             \A i, j \in 0 .. n - 1 : i # j => ToSet(h.entries[i]) \cap ToSet(h.entries[j]) = {}
      PROVE  IsInjective(CacheList(h))
  <2>1. \A i \in 1 .. n : IsInjective(lists[i])
    BY <1>2, <1>4, <1>9
  <2>2. ASSUME NEW i \in 1 .. n, NEW j \in 1 .. n, i # j PROVE ToSet(lists[i]) \cap ToSet(lists[j]) = {}
    <3>1. i - 1 # j - 1 /\ i - 1 \in 0 .. n - 1 /\ j - 1 \in 0 .. n - 1
      BY <1>1, <2>2
    <3>2. ToSet(h.entries[i - 1]) \cap ToSet(h.entries[j - 1]) = {}
      BY <1>9, <3>1
    <3> QED BY <1>4, <3>2
  <2> QED BY <1>4, <1>5, <1>7, <2>1, <2>2
<1> QED BY <1>5, <1>6, <1>7, <1>8, <1>9

(* tcache_thread_shutdown *)
LEMMA ShutdownIsSound ==
  ASSUME NEW H \in SUBSET Int, NEW F, NEW h \in Sound(H, F)
  PROVE  tcache_thread_shutdown(h) \in Later(h, H, F, H)
<1> DEFINE entries == [i \in DOMAIN h.entries |-> << >>]
           off == [h EXCEPT !.tcache = NULL, !.shutting_down = TRUE, !.entries = entries]
           g == [h EXCEPT !.entries = entries]
           seq == CacheList(h)
           x == FoldLeft(libc_free, off, seq)
           t == h.tcache
           P == CacheChunks(h)
<1>1. tcache_thread_shutdown(h) = IF HasTcache(h) THEN libc_free(x, t) ELSE h
  BY DEF tcache_thread_shutdown, CacheList
<1>2. CASE ~HasTcache(h)
  BY <1>1, <1>2, StayLater
<1>3. CASE HasTcache(h)
  <2>1. h \in Good /\ h \in Heaps /\ (~h.aborted => Layout(h, H, F))
    BY SoundIs
  <2>2. entries \in Caches /\ entries = [i \in 0 .. TCACHE_MAX_BINS - 1 |-> << >>]
    <3>1. DOMAIN h.entries = 0 .. TCACHE_MAX_BINS - 1
      BY <2>1, GoodBins DEF Caches
    <3> QED BY <2>1, <3>1, EmptyCaches
  <2>3. t \in Aligned /\ t \in Int /\ t # NULL
    BY <1>3, <2>1 DEF Heaps, HasTcache, Aligned
  <2> HIDE DEF entries
  <2>4. off \in Good /\ off.aborted = h.aborted /\ off.mem = h.mem
    BY <2>1, <2>2 DEF Good, Heaps
  <2>5. EmptiesCache(h, g) /\ StopsCache(g, off) /\ NoCache(g) /\ g.tcache = t
    BY <2>1, <2>2 DEF Heaps, EmptiesCache, StopsCache, NoCache
  <2>6. seq \in Seq(Aligned) /\ ToSet(seq) = P
    BY <2>1, CacheListIs
  <2>7. Shape(off) = Shape(h)
    BY <2>4 DEF Shape
  <2>8. tcache_thread_shutdown(h) = libc_free(x, t)
    BY <1>1, <1>3
  <2> HIDE DEF off, seq, g, t, x
  <2>9. CASE h.aborted
    <3>1. P = ToSet(seq) /\ P \cap {} = {} /\ {} \in SUBSET Int /\ off.aborted
      BY <2>4, <2>6, <2>9
    <3>2. x \in Later(off, {}, F, {})
      BY <2>4, <2>6, <3>1, FreedIsSound DEF x
    <3>3. x.aborted /\ x \in Good
      BY <3>1, <3>2, LaterIs
    <3>4. libc_free(x, t) \in Good /\ libc_free(x, t).aborted
      BY <2>3, <3>3, FreeOnward, FreesGood
    <3> QED BY <2>8, <3>4, AbortedIsLater
  <2>10. CASE ~h.aborted
    <3>1. Layout(h, H, F)
      BY <2>1, <2>10
    <3>2. /\ Layout(g, H \union P, F) /\ P \in SUBSET Int /\ P \cap H = {}
          /\ \A p \in P : p \in DOMAIN Shape(h) /\ p # t
          /\ \A i, j \in 0 .. TCACHE_MAX_BINS - 1 : i # j => ToSet(h.entries[i]) \cap ToSet(h.entries[j]) = {}
      BY <2>1, <2>5, <3>1, CacheInHand DEF t
    <3>3. IsInjective(seq)
      <4>1. \A i \in 0 .. TCACHE_MAX_BINS - 1 : IsInjective(h.entries[i])
        BY <3>1 DEF Layout, Distinct
      <4> QED BY <2>1, <3>2, <4>1, CacheListIs DEF seq
    <3> HIDE DEF P
    <3> DEFINE B == H \union P
               K == H \union {t}
    <3>4. B \in SUBSET Int /\ K \in SUBSET Int
      BY <2>3, <3>2
    <3>5. Layout(off, B \union {t}, F) /\ t \notin B
      <4>1. Layout(g, B, F)
        BY <3>2
      <4> HIDE DEF B
      <4> QED BY <2>3, <2>5, <3>4, <4>1, CacheStops
    <3>6. Layout(off, K \union P, F) /\ P \cap K = {} /\ t \notin H
      <4>1. B \union {t} = K \union P
        OBVIOUS
      <4> QED BY <3>2, <3>5, <4>1
    <3> HIDE DEF B
    <3>7. x \in Later(off, K, F, K)
      <4> HIDE DEF K
      <4> QED BY <2>4, <2>6, <3>3, <3>4, <3>6, FreedIsSound DEF x
    <3>8. x \in Later(h, K, F, K)
      BY <2>4, <2>7, <3>7 DEF Later, Same
    <3>9. K \ {t} = H /\ t \in K
      BY <3>6
    <3> HIDE DEF K
    <3>10. x \in Sound(K, F)
      BY <3>8, LaterIs
    <3>11. libc_free(x, t) \in Later(x, K \ {t}, F, K \ {t})
      BY <2>3, <3>4, <3>9, <3>10, LibcFreeIsSound
    <3>12. libc_free(x, t) \in Later(x, H, F, H) /\ H \subseteq K
      BY <3>9, <3>11
    <3>13. libc_free(x, t) \in Later(h, H, F, H)
      BY <3>8, <3>12, LaterTwice
    <3> QED BY <2>8, <3>13
  <2> QED BY <2>9, <2>10
<1> QED BY <1>2, <1>3
===============================================================================
