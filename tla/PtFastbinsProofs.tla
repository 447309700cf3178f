--------------------------- MODULE PtFastbinsProofs ---------------------------
(***************************************************************************)
(* Nothing is lost and nothing is handed out twice, and the bins are       *)
(* stacks, for every number of threads, of bins and of chunks.             *)
(***************************************************************************)
EXTENDS PtFastbins, FunctionTheorems, FiniteSetTheorems, SequenceTheorems, WellFoundedInduction, TLAPS

(* Induction, for a set of numbers. *)
LEMMA LeastNumber ==
  ASSUME NEW S \in SUBSET Nat, S # {}
  PROVE  \E n \in S : \A m \in S : n <= m
<1>1. IsWellFoundedOn(OpToRel(<, Nat), Nat)
  BY NatLessThanWellFounded
<1>2. \E n \in S : \A m \in S : <<m, n>> \notin OpToRel(<, Nat)
  BY <1>1, WFMin
<1>3. \A m, n \in Nat : <<m, n>> \notin OpToRel(<, Nat) => n <= m
  BY DEF OpToRel
<1> QED
  BY <1>2, <1>3
-------------------------------------------------------------------------------
(* Lists. *)
LEMMA NthType ==
  ASSUME NEW s \in Seq(Chunks), NEW k \in Nat
  PROVE  /\ DOMAIN s = 1 .. Len(s) /\ Len(s) \in Nat
         /\ Nth(s, k) \in Chunks <=> k \in 1 .. Len(s)
         /\ Nth(s, k) \notin Chunks => Nth(s, k) = NULL
BY PtFastbinsAssumption DEF Nth

LEMMA Follow ==
  ASSUME NEW f, NEW c, NEW s, IsList(f, c, s), NEW k \in 1 .. Len(s)
  PROVE  s[k] \in Chunks /\ Nth(s, k) = s[k] /\ Nth(s, k + 1) = f[s[k]]
<1>1. s \in Seq(Chunks) /\ DOMAIN s = 1 .. Len(s)
  BY DEF IsList
<1> QED
  BY <1>1 DEF IsList, Nth

(* A chunk leads one list. *)
LEMMA OneList ==
  ASSUME NEW f, NEW c, NEW s, NEW t, IsList(f, c, s), IsList(f, c, t)
  PROVE  s = t
<1>1. s \in Seq(Chunks) /\ t \in Seq(Chunks)
  BY DEF IsList
<1>2. \A k \in Nat \ {0} : Nth(s, k) = Nth(t, k)
  <2> DEFINE D == {k \in Nat \ {0} : Nth(s, k) # Nth(t, k)}
  <2>1. SUFFICES ASSUME D # {} PROVE FALSE
    OBVIOUS
  <2>2. PICK k \in D : \A m \in D : k <= m
    BY <2>1, LeastNumber
  <2>3. k # 1
    BY DEF IsList
  <2>4. PICK j \in Nat \ {0} : k = j + 1 /\ Nth(s, j) = Nth(t, j)
    <3>1. k \in Nat /\ k - 1 \in Nat \ {0} /\ ~ (k <= k - 1) /\ k = (k - 1) + 1
      BY <2>3
    <3>2. k - 1 \notin D
      BY <2>2, <3>1
    <3> QED
      BY <3>1, <3>2
  <2>5. CASE j \in 1 .. Len(s)
    <3>1. j \in 1 .. Len(t)
      BY <1>1, <2>4, <2>5, NthType
    <3>2. Nth(s, j + 1) = Nth(t, j + 1)
      BY <2>4, <2>5, <3>1, Follow
    <3> QED
      BY <2>4, <3>2
  <2>6. CASE j \notin 1 .. Len(s)
    <3>1. j \notin 1 .. Len(t)
      BY <1>1, <2>4, <2>6, NthType
    <3> QED
      BY <1>1, <2>4, <2>6, <3>1, NthType DEF Nth
  <2> QED
    BY <2>5, <2>6
<1>3. \A k \in Nat \ {0} : k \in 1 .. Len(s) <=> k \in 1 .. Len(t)
  BY <1>1, <1>2, NthType
<1>4. Len(s) = Len(t)
  <2>1. Len(s) \in Nat /\ Len(t) \in Nat
    BY <1>1
  <2> QED
    BY <1>3, <2>1
<1>5. \A k \in 1 .. Len(s) : s[k] = t[k]
  BY <1>1, <1>2, <1>4 DEF Nth
<1> QED
  BY <1>1, <1>4, <1>5, SeqEqual

LEMMA ListFits ==
  ASSUME NEW s \in Seq(Chunks), IsInjective(s)
  PROVE  Len(s) <= Cardinality(Chunks) /\ Cardinality(Chunks) \in Nat
<1>1. IsFiniteSet(Chunks) /\ Cardinality(Chunks) \in Nat
  BY PtFastbinsAssumption, FS_CardinalityType
<1>2. s \in Injection(1 .. Len(s), Chunks) /\ Len(s) \in Nat
  BY DEF Injection
<1>3. Cardinality(1 .. Len(s)) <= Cardinality(Chunks)
  BY <1>1, <1>2, FS_Injection
<1>4. Cardinality(1 .. Len(s)) = Len(s)
  <2>1. Len(s) \in Int /\ 1 \in Int
    BY <1>2
  <2>2. Cardinality(1 .. Len(s)) = IF 1 > Len(s) THEN 0 ELSE Len(s) - 1 + 1
    BY <2>1, FS_Interval
  <2> QED
    BY <1>2, <2>2
<1> QED
  BY <1>1, <1>3, <1>4

(* One step of the walk along a list adds its next chunk. *)
LEMMA ExtendPrefix ==
  ASSUME NEW f, NEW c, NEW s, IsList(f, c, s), NEW m \in 0 .. Len(s)
  PROVE  Extend(f, c, SubSeq(s, 1, m)) = SubSeq(s, 1, IF m < Len(s) THEN m + 1 ELSE m)
<1> DEFINE p == SubSeq(s, 1, m)
           next == IF p = <<>> THEN c ELSE f[Last(p)]
<1>1. s \in Seq(Chunks) /\ Len(s) \in Nat /\ m \in Nat
  BY DEF IsList
<1>2. p \in Seq(Chunks) /\ Len(p) = m /\ \A k \in 1 .. m : p[k] = s[k]
  BY <1>1
<1>3. next = Nth(s, m + 1)
  <2>1. CASE m = 0
    BY <1>2, <2>1 DEF IsList
  <2>2. CASE m # 0
    <3>1. p # <<>> /\ Last(p) = s[m]
      BY <1>1, <1>2, <2>2 DEF Last
    <3> QED
      BY <1>1, <2>2, <3>1, Follow
  <2> QED
    BY <2>1, <2>2
<1>4. CASE m < Len(s)
  <2>1. m + 1 \in 1 .. Len(s) /\ next = s[m + 1] /\ next \in Chunks
    <3>1. m + 1 \in 1 .. Len(s)
      BY <1>1, <1>4
    <3>2. s[m + 1] \in Chunks /\ Nth(s, m + 1) = s[m + 1]
      BY <3>1, Follow
    <3> HIDE DEF next
    <3> QED
      BY <1>3, <3>1, <3>2
  <2>2. SubSeq(s, 1, m + 1) = Append(p, s[m + 1])
    <3> DEFINE x == s[m + 1]  a == SubSeq(s, 1, m + 1)  b == Append(p, x)
    <3>1. x \in Chunks
      BY <1>1, <2>1
    <3>2. a \in Seq(Chunks) /\ Len(a) = m + 1 /\ \A k \in 1 .. m + 1 : a[k] = s[k]
      BY <1>1, <2>1
    <3>3. b \in Seq(Chunks) /\ Len(b) = m + 1 /\ \A k \in 1 .. m : b[k] = s[k]
      BY <1>1, <1>2, <3>1, AppendProperties
    <3>4. b[m + 1] = s[m + 1]
      BY <1>1, <1>2, <3>1, AppendProperties
    <3>5. \A k \in 1 .. m + 1 : a[k] = b[k]
      BY <1>1, <3>2, <3>3, <3>4
    <3> HIDE DEF a, b, x
    <3>6. a = b
      BY <3>2, <3>3, <3>5, SeqEqual
    <3> QED
      BY <3>6 DEF a, b, x
  <2> QED
    BY <1>4, <2>1, <2>2 DEF Extend
<1>5. CASE ~ (m < Len(s))
  <2>1. next \notin Chunks
    BY <1>1, <1>3, <1>5, NthType
  <2> QED
    BY <1>5, <2>1 DEF Extend
<1> QED
  BY <1>4, <1>5

(* The walk along a list ends with the list. *)
LEMMA ChainIs ==
  ASSUME NEW f, NEW c, NEW s, IsList(f, c, s)
  PROVE  Chain(f, c) = s
<1> DEFINE N == Cardinality(Chunks)
           upto(n) == IF n <= Len(s) THEN n ELSE Len(s)
           g == [n \in 0 .. N |-> SubSeq(s, 1, upto(n))]
           W == Walk(f, c)
<1>1. s \in Seq(Chunks) /\ Len(s) \in Nat /\ N \in Nat /\ Len(s) <= N
  BY ListFits DEF IsList
<1>2. \A n \in 1 .. N : g[n] = Extend(f, c, g[n - 1])
  <2> SUFFICES ASSUME NEW n \in 1 .. N PROVE g[n] = Extend(f, c, g[n - 1])
    OBVIOUS
  <2>1. n - 1 \in 0 .. N /\ n \in 0 .. N /\ upto(n - 1) \in 0 .. Len(s)
    BY <1>1
  <2>2. (IF upto(n - 1) < Len(s) THEN upto(n - 1) + 1 ELSE upto(n - 1)) = upto(n)
    BY <1>1
  <2>3. Extend(f, c, SubSeq(s, 1, upto(n - 1))) = SubSeq(s, 1, upto(n))
    BY <2>1, <2>2, ExtendPrefix
  <2> QED
    BY <2>1, <2>3
<1>3. g[0] = <<>>
  BY <1>1
<1>4. W = [n \in 0 .. N |-> IF n = 0 THEN <<>> ELSE Extend(f, c, W[n - 1])]
  <2>1. g = [n \in 0 .. N |-> IF n = 0 THEN <<>> ELSE Extend(f, c, g[n - 1])]
    <3> DEFINE h == [n \in 0 .. N |-> IF n = 0 THEN <<>> ELSE Extend(f, c, g[n - 1])]
    <3>1. DOMAIN g = 0 .. N /\ DOMAIN h = 0 .. N
      OBVIOUS
    <3>2. \A n \in 0 .. N : h[n] = IF n = 0 THEN <<>> ELSE Extend(f, c, g[n - 1])
      OBVIOUS
    <3>3. g = [n \in 0 .. N |-> g[n]] /\ h = [n \in 0 .. N |-> h[n]]
      OBVIOUS
    <3> HIDE DEF g, h, N
    <3>4. \A n \in 0 .. N : n = 0 \/ n \in 1 .. N
      BY <1>1
    <3>5. \A n \in 0 .. N : g[n] = h[n]
      BY <1>2, <1>3, <3>2, <3>4
    <3>6. g = h
      BY <3>3, <3>5
    <3> QED
      BY <3>6 DEF h
  <2> HIDE DEF g, N
  <2> QED
    BY <2>1 DEF Walk, N
<1>5. \A n \in 0 .. N : W[n] = g[n]
  <2> DEFINE D == {n \in 0 .. N : W[n] # g[n]}
  <2> HIDE DEF W, g
  <2>1. SUFFICES ASSUME D # {} PROVE FALSE
    OBVIOUS
  <2>2. PICK n \in D : \A m \in D : n <= m
    <3>1. D \in SUBSET Nat
      BY <1>1
    <3> HIDE DEF D
    <3> QED
      BY <2>1, <3>1, LeastNumber
  <2>3. n # 0
    BY <1>1, <1>3, <1>4
  <2>4. n - 1 \in 0 .. N /\ n \in 1 .. N /\ ~ (n <= n - 1)
    BY <1>1, <2>3
  <2>5. W[n - 1] = g[n - 1]
    BY <2>2, <2>4
  <2>6. W[n] = Extend(f, c, W[n - 1])
    BY <1>4, <2>4
  <2> QED
    BY <1>2, <2>4, <2>5, <2>6
<1>6. W[N] = SubSeq(s, 1, Len(s))
  BY <1>1, <1>5
<1> QED
  BY <1>1, <1>6 DEF Chain

LEMMA ToSetProperties ==
  ASSUME NEW s \in Seq(Chunks)
  PROVE  /\ ToSet(s) = {s[k] : k \in 1 .. Len(s)} /\ ToSet(s) \subseteq Chunks
         /\ \A c : c \in ToSet(s) <=> \E k \in 1 .. Len(s) : s[k] = c
         /\ ToSet(<<>>) = {}
         /\ s # <<>> => ToSet(s) # {}
BY DEF ToSet

LEMMA PushList ==
  ASSUME NEW s \in Seq(Chunks), IsInjective(s), NEW p \in Chunks, p \notin ToSet(s)
  PROVE  /\ <<p>> \o s \in Seq(Chunks) /\ IsInjective(<<p>> \o s)
         /\ ToSet(<<p>> \o s) = {p} \union ToSet(s)
         /\ \A f : IsList(f, f[p], s) => IsList(f, p, <<p>> \o s)
<1> DEFINE t == <<p>> \o s
<1>1. /\ t \in Seq(Chunks) /\ Len(s) \in Nat /\ Len(t) = Len(s) + 1
      /\ t[1] = p /\ \A k \in 1 .. Len(s) : t[k + 1] = s[k]
  OBVIOUS
<1>2. \A k \in 1 .. Len(t) : k = 1 \/ (k - 1 \in 1 .. Len(s) /\ t[k] = s[k - 1])
  <2> SUFFICES ASSUME NEW k \in 1 .. Len(t), k # 1 PROVE k - 1 \in 1 .. Len(s) /\ t[k] = s[k - 1]
    OBVIOUS
  <2>1. k - 1 \in 1 .. Len(s) /\ k = (k - 1) + 1
    BY <1>1
  <2> QED
    BY <1>1, <2>1
<1>3. DOMAIN s = 1 .. Len(s) /\ DOMAIN t = 1 .. Len(t)
  BY <1>1
<1> HIDE DEF t
<1>4. ToSet(t) = {p} \union ToSet(s)
  <2>1. \A c : c \in ToSet(t) <=> \E k \in 1 .. Len(t) : t[k] = c
    BY <1>1, ToSetProperties
  <2>2. \A c : c \in ToSet(s) <=> \E k \in 1 .. Len(s) : s[k] = c
    BY ToSetProperties
  <2>3. \A k \in 1 .. Len(s) : k + 1 \in 1 .. Len(t)
    BY <1>1
  <2>4. 1 \in 1 .. Len(t)
    BY <1>1
  <2>5. \A c \in ToSet(s) : c \in ToSet(t)
    BY <1>1, <2>1, <2>2, <2>3
  <2>6. \A c \in ToSet(t) : c = p \/ c \in ToSet(s)
    BY <1>1, <1>2, <2>1, <2>2
  <2>7. p \in ToSet(t)
    BY <1>1, <2>1, <2>4
  <2> QED
    BY <2>5, <2>6, <2>7
<1>5. IsInjective(t)
  <2> SUFFICES ASSUME NEW j \in 1 .. Len(t), NEW k \in 1 .. Len(t), t[j] = t[k] PROVE j = k
    BY <1>3 DEF IsInjective
  <2>1. \A i \in 1 .. Len(s) : s[i] # p
    BY ToSetProperties
  <2>2. CASE j = 1
    BY <1>1, <1>2, <2>1, <2>2
  <2>3. CASE k = 1
    BY <1>1, <1>2, <2>1, <2>3
  <2>4. CASE j # 1 /\ k # 1
    <3>1. j - 1 \in DOMAIN s /\ k - 1 \in DOMAIN s /\ s[j - 1] = s[k - 1]
      BY <1>2, <1>3, <2>4
    <3>2. j - 1 = k - 1
      BY <3>1 DEF IsInjective
    <3>3. j \in Int /\ k \in Int
      OBVIOUS
    <3> QED
      BY <3>2, <3>3
  <2> QED
    BY <2>2, <2>3, <2>4
<1>6. ASSUME NEW f, IsList(f, f[p], s) PROVE IsList(f, p, t)
  <2>1. \A k \in 1 .. Len(s) : Nth(t, k + 1) = Nth(s, k)
    <3> SUFFICES ASSUME NEW k \in 1 .. Len(s) PROVE Nth(t, k + 1) = Nth(s, k)
      OBVIOUS
    <3>1. k + 1 \in 1 .. Len(t)
      BY <1>1
    <3> QED
      BY <1>1, <1>3, <3>1 DEF Nth
  <2>2. Nth(t, Len(t) + 1) = NULL /\ Nth(s, Len(s) + 1) = NULL
    BY <1>1, <1>3 DEF Nth
  <2>3. \A k \in 1 .. Len(s) + 1 : Nth(t, k + 1) = Nth(s, k)
    <3>1. \A k \in 1 .. Len(s) + 1 : k \in 1 .. Len(s) \/ k = Len(s) + 1
      BY <1>1
    <3> QED
      BY <1>1, <2>1, <2>2, <3>1
  <2>4. p = Nth(t, 1)
    BY <1>1, <1>3 DEF Nth
  <2>5. ASSUME NEW k \in 1 .. Len(t) PROVE f[t[k]] = Nth(t, k + 1)
    <3>1. Nth(t, k + 1) = Nth(s, k)
      BY <1>1, <2>3
    <3>2. CASE k = 1
      BY <1>1, <1>6, <3>1, <3>2 DEF IsList
    <3>3. CASE k # 1
      <4>1. k - 1 \in 1 .. Len(s) /\ t[k] = s[k - 1] /\ (k - 1) + 1 = k
        BY <1>2, <3>3
      <4>2. Nth(s, (k - 1) + 1) = f[s[k - 1]]
        BY <1>6, <4>1, Follow
      <4> QED
        BY <3>1, <4>1, <4>2
    <3> QED
      BY <3>2, <3>3
  <2> QED
    BY <1>1, <1>3, <1>5, <2>4, <2>5 DEF IsList
<1> QED
  BY <1>1, <1>4, <1>5, <1>6 DEF t

LEMMA TailOfInjective ==
  ASSUME NEW s \in Seq(Chunks), IsInjective(s), s # <<>>
  PROVE  /\ Head(s) = s[1] /\ Head(s) \in ToSet(s) /\ Tail(s) \in Seq(Chunks) /\ IsInjective(Tail(s))
         /\ ToSet(Tail(s)) = ToSet(s) \ {Head(s)}
<1> DEFINE t == Tail(s)
<1>1. /\ Head(s) = s[1] /\ t \in Seq(Chunks) /\ Len(s) \in Nat \ {0} /\ Len(t) = Len(s) - 1
      /\ \A k \in 1 .. Len(t) : t[k] = s[k + 1]
  OBVIOUS
<1>2. DOMAIN s = 1 .. Len(s) /\ DOMAIN t = 1 .. Len(t)
  BY <1>1
<1> HIDE DEF t
<1>3. \A k \in 1 .. Len(t) : k + 1 \in 1 .. Len(s) /\ k + 1 # 1
  BY <1>1
<1>4. \A k \in 1 .. Len(s) : k = 1 \/ (k - 1 \in 1 .. Len(t) /\ (k - 1) + 1 = k)
  BY <1>1
<1>5. 1 \in 1 .. Len(s)
  BY <1>1
<1>6. IsInjective(t)
  <2> SUFFICES ASSUME NEW j \in 1 .. Len(t), NEW k \in 1 .. Len(t), t[j] = t[k] PROVE j = k
    BY <1>2 DEF IsInjective
  <2>1. j + 1 = k + 1
    BY <1>1, <1>2, <1>3 DEF IsInjective
  <2> QED
    BY <2>1
<1>7. \A c : c \in ToSet(t) <=> \E k \in 1 .. Len(t) : t[k] = c
  BY <1>1, ToSetProperties
<1>8. \A c : c \in ToSet(s) <=> \E k \in 1 .. Len(s) : s[k] = c
  BY ToSetProperties
<1>9. \A c \in ToSet(t) : c \in ToSet(s) /\ c # s[1]
  BY <1>1, <1>2, <1>3, <1>5, <1>7, <1>8 DEF IsInjective
<1>10. \A c \in ToSet(s) : c = s[1] \/ c \in ToSet(t)
  <2> SUFFICES ASSUME NEW k \in 1 .. Len(s), k # 1 PROVE s[k] \in ToSet(t)
    BY <1>8
  <2>1. k - 1 \in 1 .. Len(t) /\ t[k - 1] = s[k]
    BY <1>1, <1>4
  <2> QED
    BY <1>7, <2>1
<1> QED
  BY <1>1, <1>5, <1>6, <1>8, <1>9, <1>10 DEF t

LEMMA PopList ==
  ASSUME NEW f, NEW c, NEW s, IsList(f, c, s), c # NULL
  PROVE  /\ s # <<>> /\ c = Head(s) /\ c \in ToSet(s)
         /\ IsList(f, f[c], Tail(s)) /\ ToSet(Tail(s)) = ToSet(s) \ {c}
<1>1. s \in Seq(Chunks) /\ IsInjective(s)
  BY DEF IsList
<1>2. s # <<>> /\ c = s[1]
  BY <1>1 DEF IsList, Nth
<1> DEFINE t == Tail(s)
<1>3. /\ Head(s) = s[1] /\ t \in Seq(Chunks) /\ Len(s) \in Nat \ {0} /\ Len(t) = Len(s) - 1
      /\ \A k \in 1 .. Len(t) : t[k] = s[k + 1]
  BY <1>1, <1>2
<1>4. DOMAIN s = 1 .. Len(s) /\ DOMAIN t = 1 .. Len(t)
  BY <1>3
<1>5. /\ Head(s) \in ToSet(s) /\ IsInjective(t) /\ ToSet(t) = ToSet(s) \ {Head(s)}
  BY <1>1, <1>2, TailOfInjective
<1> HIDE DEF t
<1>6. \A k \in 1 .. Len(s) : Nth(t, k) = Nth(s, k + 1)
  <2> SUFFICES ASSUME NEW k \in 1 .. Len(s) PROVE Nth(t, k) = Nth(s, k + 1)
    OBVIOUS
  <2>1. CASE k \in 1 .. Len(t)
    <3>1. k + 1 \in 1 .. Len(s)
      BY <1>3, <2>1
    <3> QED
      BY <1>3, <1>4, <2>1, <3>1 DEF Nth
  <2>2. CASE k \notin 1 .. Len(t)
    <3>1. k + 1 \notin 1 .. Len(s)
      BY <1>3, <2>2
    <3> QED
      BY <1>4, <2>2, <3>1 DEF Nth
  <2> QED
    BY <2>1, <2>2
<1>7. f[c] = Nth(t, 1)
  <2>1. 1 \in 1 .. Len(s)
    BY <1>3
  <2> QED
    BY <1>2, <1>6, <2>1, Follow
<1>8. ASSUME NEW k \in 1 .. Len(t) PROVE f[t[k]] = Nth(t, k + 1)
  <2>1. k + 1 \in 1 .. Len(s)
    BY <1>3
  <2>2. Nth(s, (k + 1) + 1) = f[s[k + 1]]
    BY <2>1, Follow
  <2> QED
    BY <1>3, <1>6, <2>1, <2>2
<1> QED
  BY <1>2, <1>3, <1>4, <1>5, <1>7, <1>8 DEF IsList, t

LEMMA EmptyList ==
  ASSUME NEW f, NEW s
  PROVE  IsList(f, NULL, s) <=> s = <<>>
<1>1. ASSUME IsList(f, NULL, s), s # <<>> PROVE FALSE
  <2>1. s \in Seq(Chunks) /\ 1 \in 1 .. Len(s)
    BY <1>1 DEF IsList
  <2>2. s[1] \in Chunks /\ Nth(s, 1) = s[1]
    BY <1>1, <2>1, Follow
  <2> QED
    BY <1>1, <2>2, PtFastbinsAssumption DEF IsList
<1>2. IsList(f, NULL, <<>>)
  BY DEF IsList, Nth, IsInjective
<1> QED
  BY <1>1, <1>2

(* A list is what the links of its own chunks say. *)
LEMMA SameLinks ==
  ASSUME NEW f, NEW g, NEW c, NEW s, IsList(f, c, s), \A x \in ToSet(s) : g[x] = f[x]
  PROVE  IsList(g, c, s)
<1>1. s \in Seq(Chunks) /\ DOMAIN s = 1 .. Len(s)
  BY DEF IsList
<1>2. \A k \in DOMAIN s : s[k] \in ToSet(s)
  BY DEF ToSet
<1> QED
  BY <1>1, <1>2 DEF IsList
-------------------------------------------------------------------------------
(* Places. *)
Client == <<"client">>
Arena == <<"arena">>
InBin(b) == <<"bin", b>>
Cached(t, b) == <<"cache", t, b>>
Freed(t) == <<"free", t>>
Merged(t) == <<"merge", t>>
Got(t) == <<"got", t>>

LEMMA PlacesExist ==
  /\ Client \in Places /\ Arena \in Places
  /\ \A b \in Bins : InBin(b) \in Places
  /\ \A t \in Threads : /\ Freed(t) \in Places /\ Merged(t) \in Places /\ Got(t) \in Places
                        /\ \A b \in Bins : Cached(t, b) \in Places
BY DEF Places, Client, Arena, InBin, Cached, Freed, Merged, Got

LEMMA PlacesDiffer ==
  /\ Client # Arena
  /\ \A b : InBin(b) # Client /\ InBin(b) # Arena
  /\ \A a, b : InBin(a) = InBin(b) => a = b
  /\ \A t : /\ Freed(t) # Client /\ Freed(t) # Arena /\ Merged(t) # Client /\ Merged(t) # Arena
            /\ Got(t) # Client /\ Got(t) # Arena
            /\ \A b : /\ Cached(t, b) # Client /\ Cached(t, b) # Arena
                      /\ InBin(b) # Freed(t) /\ InBin(b) # Merged(t) /\ InBin(b) # Got(t)
  /\ \A t, u : /\ Freed(t) # Merged(u) /\ Freed(t) # Got(u) /\ Merged(t) # Got(u)
               /\ (Freed(t) = Freed(u) \/ Merged(t) = Merged(u) \/ Got(t) = Got(u)) => t = u
               /\ \A a, b : /\ Cached(t, b) # Freed(u) /\ Cached(t, b) # Merged(u) /\ Cached(t, b) # Got(u)
                            /\ Cached(t, b) # InBin(a)
                            /\ Cached(t, a) = Cached(u, b) => t = u /\ a = b
BY DEF Client, Arena, InBin, Cached, Freed, Merged, Got

LEMMA PlaceKinds ==
  ASSUME NEW w \in Places
  PROVE  \/ w = Client \/ w = Arena
         \/ \E b \in Bins : w = InBin(b)
         \/ \E t \in Threads : \/ w = Freed(t) \/ w = Merged(t) \/ w = Got(t)
                               \/ \E b \in Bins : w = Cached(t, b)
BY DEF Places, Client, Arena, InBin, Cached, Freed, Merged, Got
-------------------------------------------------------------------------------
(* The invariant: L has the lists of the bins, M those that are merged, and*)
(* at says where each chunk is.                                            *)
Locked == {"front", "reveal", "pop", "more", "search", "unlock", "check", "clear", "exchange", "merge"}

Thread ==
  [pc : {"idle", "flag", "head", "link", "push", "lock"} \union Locked,
   op : {"none", "free", "malloc", "large", "trim"}, b : Bins, fb : Bins,
   p : Chunks \union {NULL}, next : Chunks \union {NULL, Garbage}, got : Chunks \union {NULL}]

TypeOK ==
  /\ fastbins \in [Bins -> Chunks \union {NULL}]
  /\ fd \in [Chunks -> Chunks \union {NULL, Garbage}]
  /\ have_fastchunks \in BOOLEAN /\ mutex \in Threads \union {NoThread}
  /\ arena \in SUBSET Chunks /\ held \in SUBSET Chunks
  /\ tcache \in [Threads -> [Bins -> Seq(Chunks)]]
  /\ thread \in [Threads -> Thread] /\ calls \in [Threads -> Nat] /\ aborted = FALSE

(* What a thread has read still holds, as far as it relies on it.          *)
Local(t, at) ==
  LET me == thread[t]
  IN /\ me.pc \in Locked <=> mutex = t
     /\ me.pc = "lock" => me.op \in {"malloc", "large", "trim"}
     /\ Freeing(t) => me.p \in Chunks /\ Index[me.p] = me.b
     /\ me.pc \in {"link", "push"} => me.next # me.p /\ me.next \in Chunks \union {NULL}
     /\ me.pc \in {"push", "pop"} => me.next = fd[me.p]
     /\ me.pc \in {"reveal", "pop"} => me.p \in Chunks /\ at[me.p] = InBin(me.b)
     /\ Merging(t) => me.p \in Chunks
     /\ me.got # NULL => me.pc \in {"reveal", "pop", "more", "unlock"}

Linking(L, M) ==
  /\ L \in [Bins -> Seq(Chunks)] /\ M \in [Threads -> Seq(Chunks)]
  /\ \A b \in Bins : IsList(fd, fastbins[b], L[b])
  /\ \A t \in Threads : IF Merging(t) THEN IsList(fd, thread[t].p, M[t]) ELSE M[t] = <<>>
  /\ \A t \in Threads, b \in Bins : IsInjective(tcache[t][b])

Located(c, w, L, M) ==
  /\ c \in held <=> w = Client
  /\ c \in arena <=> w = Arena
  /\ \A b \in Bins : /\ c \in ToSet(L[b]) <=> w = InBin(b)
                     /\ w = InBin(b) => Index[c] = b
  /\ \A t \in Threads :
       /\ (Freeing(t) /\ thread[t].p = c) <=> w = Freed(t)
       /\ c \in ToSet(M[t]) <=> w = Merged(t)
       /\ w = Merged(t) => Index[c] = thread[t].fb
       /\ thread[t].got = c <=> w = Got(t)
       /\ \A b \in Bins : c \in ToSet(tcache[t][b]) <=> w = Cached(t, b)

Owned(L, M, at) == \A c \in Chunks : Located(c, at[c], L, M)

Sound(L, M, at) ==
  /\ TypeOK /\ at \in [Chunks -> Places] /\ Linking(L, M) /\ Owned(L, M, at)
  /\ \A t \in Threads : Local(t, at)

FastbinsInv == \E L, M, at : Sound(L, M, at)

(* What a step does to the stacks and to what clients hold.                *)
Moves(L, K) ==
  \/ K = L /\ held' = held
  \/ \E c \in Chunks : /\ c \notin held /\ \A b \in Bins : c \notin ToSet(L[b])
                       /\ \/ K = [L EXCEPT ![Index[c]] = <<c>> \o @] /\ held' = held
                          \/ K = L /\ held' = held \union {c}
  \/ \E c \in Chunks : c \in held /\ K = L /\ held' = held \ {c}
  \/ \E b \in Bins : /\ held' = held
                     /\ \/ L[b] # <<>> /\ K = [L EXCEPT ![b] = Tail(@)]
                        \/ K = [L EXCEPT ![b] = <<>>]

Keeps(L, M, at) == \E K, N, as : Sound(K, N, as)' /\ Moves(L, K)

(* A step of t that touches no list and leaves in its hands what it had.   *)
LEMMA QuietStep ==
  ASSUME NEW L, NEW M, NEW at, Sound(L, M, at), NEW t \in Threads, NEW me \in Thread,
         UNCHANGED <<fastbins, fd, arena, tcache, held, aborted>>,
         thread' = [thread EXCEPT ![t] = me],
         have_fastchunks' \in BOOLEAN, mutex' \in Threads \union {NoThread}, calls' \in [Threads -> Nat],
         \A u \in Threads \ {t} : mutex' = u <=> mutex = u,
         me.got = thread[t].got,
         Freeing(t) <=> me.pc \in {"flag", "head", "link", "push"},
         Freeing(t) => me.p = thread[t].p,
         me.pc # "merge" /\ ~ Merging(t),
         Local(t, at)'
  PROVE  Keeps(L, M, at)
<1>1. /\ thread'[t] = me /\ \A u \in Threads \ {t} : thread'[u] = thread[u]
      /\ thread' \in [Threads -> Thread]
  BY DEF Sound, TypeOK
<1>2. TypeOK'
  BY <1>1 DEF Sound, TypeOK
<1>3. \A u \in Threads : (Merging(u)' <=> Merging(u)) /\ (u # t => thread'[u] = thread[u])
  BY <1>1 DEF Merging
<1>4. Linking(L, M)'
  <2>1. \A u \in Threads : IF Merging(u)' THEN IsList(fd', thread'[u].p, M[u]) ELSE M[u] = <<>>
    BY <1>1, <1>3 DEF Sound, Linking
  <2> QED
    BY <2>1 DEF Sound, Linking
<1>5. \A u \in Threads : /\ Freeing(u)' <=> Freeing(u)
                         /\ Freeing(u) => thread'[u].p = thread[u].p
                         /\ thread'[u].got = thread[u].got
  BY <1>1 DEF Freeing
<1>6. M[t] = <<>>
  BY DEF Sound, Linking
<1>7. Owned(L, M, at)'
  <2> SUFFICES ASSUME NEW c \in Chunks PROVE Located(c, at[c], L, M)'
    BY DEF Owned
  <2>1. c \notin ToSet(M[t])
    BY <1>6 DEF ToSet
  <2> QED
    BY <1>1, <1>5, <2>1 DEF Sound, Owned, Located
<1>8. \A u \in Threads : Local(u, at)'
  <2> SUFFICES ASSUME NEW u \in Threads, u # t PROVE Local(u, at)'
    OBVIOUS
  <2>1. thread'[u] = thread[u] /\ (mutex' = u <=> mutex = u) /\ Local(u, at)
    BY <1>1 DEF Sound
  <2> QED
    BY <2>1 DEF Local, Freeing, Merging
<1>9. Sound(L, M, at)'
  BY <1>2, <1>4, <1>7, <1>8 DEF Sound
<1>10. Moves(L, L)
  BY DEF Moves
<1> QED
  BY <1>9, <1>10 DEF Keeps

(* The head of a bin is in it, and in no hands. *)
LEMMA HeadOfBin ==
  ASSUME NEW L, NEW M, NEW at, Sound(L, M, at), NEW b \in Bins, fastbins[b] # NULL
  PROVE  /\ fastbins[b] \in Chunks /\ at[fastbins[b]] = InBin(b) /\ Index[fastbins[b]] = b
         /\ \A t \in Threads : Freeing(t) => thread[t].p # fastbins[b]
<1>1. fastbins[b] \in Chunks
  BY DEF Sound, TypeOK
<1>2. fastbins[b] \in ToSet(L[b])
  BY PopList DEF Sound, Linking
<1>3. at[fastbins[b]] = InBin(b) /\ Index[fastbins[b]] = b
  BY <1>1, <1>2 DEF Sound, Owned, Located
<1>4. \A t \in Threads : Freeing(t) => thread[t].p # fastbins[b]
  BY <1>1, <1>3, PlacesDiffer DEF Sound, Owned, Located
<1> QED
  BY <1>1, <1>3, <1>4

LEMMA HeadRead ==
  ASSUME NEW L, NEW M, NEW at, Sound(L, M, at), NEW t \in Threads
  PROVE  LET h == fastbins[thread[t].b]
         IN /\ h \in Chunks \union {NULL} /\ Freeing(t) => thread[t].p # h
            /\ h # NULL => h \in Chunks /\ at[h] = InBin(thread[t].b)
<1>1. thread[t].b \in Bins /\ (Freeing(t) => thread[t].p \in Chunks)
  BY DEF Sound, TypeOK, Thread, Local
<1> DEFINE b == thread[t].b
<1> HIDE DEF b
<1>2. b \in Bins
  BY <1>1 DEF b
<1>3. fastbins[b] \in Chunks \union {NULL}
  BY <1>2 DEF Sound, TypeOK
<1>4. fastbins[b] # NULL => /\ fastbins[b] \in Chunks /\ at[fastbins[b]] = InBin(b)
                            /\ Freeing(t) => thread[t].p # fastbins[b]
  BY <1>2, HeadOfBin
<1> QED
  BY <1>1, <1>3, <1>4, PtFastbinsAssumption DEF b

LEMMA IdleThread == Idle \in Thread /\ 0 \in Bins /\ Idle.pc = "idle" /\ Idle.got = NULL
BY PtFastbinsAssumption DEF Idle, Thread, Bins

-------------------------------------------------------------------------------
(* Steps that move no chunk.                                               *)

LEMMA RaiseFlagKeeps ==
  ASSUME NEW L, NEW M, NEW at, Sound(L, M, at), NEW t \in Threads
  PROVE  RaiseFlag(t) => Keeps(L, M, at)
<1> SUFFICES ASSUME RaiseFlag(t) PROVE Keeps(L, M, at)
  OBVIOUS
<1> DEFINE me == [thread[t] EXCEPT !.pc = "head"]
<1>1. TypeOK /\ thread[t] \in Thread /\ Local(t, at)
  BY DEF Sound, TypeOK
<1>2. me \in Thread
  BY <1>1 DEF RaiseFlag, At, Call, TypeOK, Thread, Locked
<1>3. /\ UNCHANGED <<fastbins, fd, arena, tcache, held, aborted>> /\ thread' = [thread EXCEPT ![t] = me]
      /\ have_fastchunks' \in BOOLEAN /\ mutex' \in Threads \union {NoThread} /\ calls' \in [Threads -> Nat]
      /\ \A u \in Threads \ {t} : mutex' = u <=> mutex = u
  BY <1>1, PtFastbinsAssumption DEF RaiseFlag, At, Call, TypeOK, Thread, Local, Locked
<1>4. /\ me.got = thread[t].got /\ ~ Merging(t) /\ me.pc # "merge"
      /\ Freeing(t) <=> me.pc \in {"flag", "head", "link", "push"}
      /\ Freeing(t) => me.p = thread[t].p
  BY <1>1 DEF RaiseFlag, At, Call, TypeOK, Thread, Local, Freeing, Merging, Locked
<1>5. Local(t, at)'
  <2>1. thread'[t] = me
    BY <1>1, <1>3 DEF TypeOK
  <2> QED
    BY <1>1, <1>3, <1>4, <2>1, PtFastbinsAssumption DEF RaiseFlag, At, Call, TypeOK, Thread, Local, Freeing, Merging, Locked
<1> HIDE DEF me
<1> QED
  BY <1>2, <1>3, <1>4, <1>5, QuietStep

LEMMA ReadHeadKeeps ==
  ASSUME NEW L, NEW M, NEW at, Sound(L, M, at), NEW t \in Threads
  PROVE  ReadHead(t) => Keeps(L, M, at)
<1> SUFFICES ASSUME ReadHead(t) PROVE Keeps(L, M, at)
  OBVIOUS
<1> DEFINE me == [thread[t] EXCEPT !.pc = "link", !.next = fastbins[thread[t].b]]
<1>1. TypeOK /\ thread[t] \in Thread /\ Local(t, at)
  BY DEF Sound, TypeOK
<1>6. LET h == fastbins[thread[t].b]
      IN /\ h \in Chunks \union {NULL} /\ Freeing(t) => thread[t].p # h
         /\ h # NULL => h \in Chunks /\ at[h] = InBin(thread[t].b)
  BY HeadRead
<1>2. me \in Thread
  BY <1>1, <1>6 DEF ReadHead, At, Call, TypeOK, Thread, Locked
<1>3. /\ UNCHANGED <<fastbins, fd, arena, tcache, held, aborted>> /\ thread' = [thread EXCEPT ![t] = me]
      /\ have_fastchunks' \in BOOLEAN /\ mutex' \in Threads \union {NoThread} /\ calls' \in [Threads -> Nat]
      /\ \A u \in Threads \ {t} : mutex' = u <=> mutex = u
  BY <1>1, <1>6, PtFastbinsAssumption DEF ReadHead, At, Call, TypeOK, Thread, Local, Locked
<1>4. /\ me.got = thread[t].got /\ ~ Merging(t) /\ me.pc # "merge"
      /\ Freeing(t) <=> me.pc \in {"flag", "head", "link", "push"}
      /\ Freeing(t) => me.p = thread[t].p
  BY <1>1, <1>6 DEF ReadHead, At, Call, TypeOK, Thread, Local, Freeing, Merging, Locked
<1>5. Local(t, at)'
  <2>1. thread'[t] = me
    BY <1>1, <1>3 DEF TypeOK
  <2> QED
    BY <1>1, <1>3, <1>4, <2>1, <1>6, PtFastbinsAssumption DEF ReadHead, At, Call, TypeOK, Thread, Local, Freeing, Merging, Locked
<1> HIDE DEF me
<1> QED
  BY <1>2, <1>3, <1>4, <1>5, QuietStep

LEMMA PushFailsKeeps ==
  ASSUME NEW L, NEW M, NEW at, Sound(L, M, at), NEW t \in Threads
  PROVE  Push(t) /\ fastbins[thread[t].b] # thread[t].next => Keeps(L, M, at)
<1> SUFFICES ASSUME Push(t), fastbins[thread[t].b] # thread[t].next PROVE Keeps(L, M, at)
  OBVIOUS
<1> DEFINE me == [thread[t] EXCEPT !.pc = "link", !.next = fastbins[thread[t].b]]
<1>1. TypeOK /\ thread[t] \in Thread /\ Local(t, at)
  BY DEF Sound, TypeOK
<1>6. LET h == fastbins[thread[t].b]
      IN /\ h \in Chunks \union {NULL} /\ Freeing(t) => thread[t].p # h
         /\ h # NULL => h \in Chunks /\ at[h] = InBin(thread[t].b)
  BY HeadRead
<1>2. me \in Thread
  BY <1>1, <1>6 DEF Push, At, Call, TypeOK, Thread, Locked
<1>3. /\ UNCHANGED <<fastbins, fd, arena, tcache, held, aborted>> /\ thread' = [thread EXCEPT ![t] = me]
      /\ have_fastchunks' \in BOOLEAN /\ mutex' \in Threads \union {NoThread} /\ calls' \in [Threads -> Nat]
      /\ \A u \in Threads \ {t} : mutex' = u <=> mutex = u
  BY <1>1, <1>6, PtFastbinsAssumption DEF Push, At, Call, TypeOK, Thread, Local, Locked
<1>4. /\ me.got = thread[t].got /\ ~ Merging(t) /\ me.pc # "merge"
      /\ Freeing(t) <=> me.pc \in {"flag", "head", "link", "push"}
      /\ Freeing(t) => me.p = thread[t].p
  BY <1>1, <1>6 DEF Push, At, Call, TypeOK, Thread, Local, Freeing, Merging, Locked
<1>5. Local(t, at)'
  <2>1. thread'[t] = me
    BY <1>1, <1>3 DEF TypeOK
  <2> QED
    BY <1>1, <1>3, <1>4, <2>1, <1>6, PtFastbinsAssumption DEF Push, At, Call, TypeOK, Thread, Local, Freeing, Merging, Locked
<1> HIDE DEF me
<1> QED
  BY <1>2, <1>3, <1>4, <1>5, QuietStep

LEMMA MallocWaitsKeeps ==
  ASSUME NEW L, NEW M, NEW at, Sound(L, M, at), NEW t \in Threads, NEW b \in Bins
  PROVE  Malloc(t, b) /\ tcache[t][b] = <<>> => Keeps(L, M, at)
<1> SUFFICES ASSUME Malloc(t, b), tcache[t][b] = <<>> PROVE Keeps(L, M, at)
  OBVIOUS
<1> DEFINE me == [Idle EXCEPT !.pc = "lock", !.op = "malloc", !.b = b]
<1>1. TypeOK /\ thread[t] \in Thread /\ Local(t, at)
  BY DEF Sound, TypeOK
<1>2. me \in Thread
  BY IdleThread DEF Thread, Locked
<1>3. /\ UNCHANGED <<fastbins, fd, arena, tcache, held, aborted>> /\ thread' = [thread EXCEPT ![t] = me]
      /\ have_fastchunks' \in BOOLEAN /\ mutex' \in Threads \union {NoThread} /\ calls' \in [Threads -> Nat]
      /\ \A u \in Threads \ {t} : mutex' = u <=> mutex = u
  <2> HIDE DEF me
  <2>1. calls' \in [Threads -> Nat]
    BY <1>1 DEF Malloc, Call, TypeOK
  <2>2. thread' = [thread EXCEPT ![t] = me]
    BY DEF Malloc, me
  <2> QED
    BY <1>1, <2>1, <2>2 DEF Malloc, TypeOK
<1>4. /\ me.got = thread[t].got /\ ~ Merging(t) /\ me.pc # "merge"
      /\ Freeing(t) <=> me.pc \in {"flag", "head", "link", "push"}
      /\ Freeing(t) => me.p = thread[t].p
  BY <1>1, PtFastbinsAssumption DEF Malloc, At, Call, TypeOK, Thread, Local, Freeing, Merging, Locked, Idle
<1>5. Local(t, at)'
  <2>1. thread'[t] = me
    BY <1>1, <1>3 DEF TypeOK
  <2> QED
    BY <1>1, <1>3, <1>4, <2>1, PtFastbinsAssumption DEF Malloc, At, Call, TypeOK, Thread, Local, Freeing, Merging, Locked, Idle
<1> HIDE DEF me
<1> QED
  BY <1>2, <1>3, <1>4, <1>5, QuietStep

LEMMA ConsolidationKeeps ==
  ASSUME NEW L, NEW M, NEW at, Sound(L, M, at), NEW t \in Threads, NEW op \in {"large", "trim"}
  PROVE  Consolidation(t, op) => Keeps(L, M, at)
<1> SUFFICES ASSUME Consolidation(t, op) PROVE Keeps(L, M, at)
  OBVIOUS
<1> DEFINE me == [Idle EXCEPT !.pc = "lock", !.op = op]
<1>1. TypeOK /\ thread[t] \in Thread /\ Local(t, at)
  BY DEF Sound, TypeOK
<1>2. me \in Thread
  BY IdleThread DEF Thread, Locked
<1>3. /\ UNCHANGED <<fastbins, fd, arena, tcache, held, aborted>> /\ thread' = [thread EXCEPT ![t] = me]
      /\ have_fastchunks' \in BOOLEAN /\ mutex' \in Threads \union {NoThread} /\ calls' \in [Threads -> Nat]
      /\ \A u \in Threads \ {t} : mutex' = u <=> mutex = u
  <2> HIDE DEF me
  <2>1. calls' \in [Threads -> Nat]
    BY <1>1 DEF Consolidation, Call, TypeOK
  <2>2. thread' = [thread EXCEPT ![t] = me]
    BY DEF Consolidation, me
  <2> QED
    BY <1>1, <2>1, <2>2 DEF Consolidation, TypeOK
<1>4. /\ me.got = thread[t].got /\ ~ Merging(t) /\ me.pc # "merge"
      /\ Freeing(t) <=> me.pc \in {"flag", "head", "link", "push"}
      /\ Freeing(t) => me.p = thread[t].p
  BY <1>1, PtFastbinsAssumption DEF Consolidation, At, Call, TypeOK, Thread, Local, Freeing, Merging, Locked, Idle
<1>5. Local(t, at)'
  <2>1. thread'[t] = me
    BY <1>1, <1>3 DEF TypeOK
  <2> QED
    BY <1>1, <1>3, <1>4, <2>1, PtFastbinsAssumption DEF Consolidation, At, Call, TypeOK, Thread, Local, Freeing, Merging, Locked, Idle
<1> HIDE DEF me
<1> QED
  BY <1>2, <1>3, <1>4, <1>5, QuietStep

LEMMA LockKeeps ==
  ASSUME NEW L, NEW M, NEW at, Sound(L, M, at), NEW t \in Threads
  PROVE  Lock(t) => Keeps(L, M, at)
<1> SUFFICES ASSUME Lock(t) PROVE Keeps(L, M, at)
  OBVIOUS
<1> DEFINE me == [thread[t] EXCEPT !.pc = Entry(thread[t].op)]
<1>1. TypeOK /\ thread[t] \in Thread /\ Local(t, at)
  BY DEF Sound, TypeOK
<1>2. me \in Thread
  BY <1>1 DEF Lock, At, Call, TypeOK, Thread, Locked, Bins, Entry, Local
<1>3. /\ UNCHANGED <<fastbins, fd, arena, tcache, held, aborted>> /\ thread' = [thread EXCEPT ![t] = me]
      /\ have_fastchunks' \in BOOLEAN /\ mutex' \in Threads \union {NoThread} /\ calls' \in [Threads -> Nat]
      /\ \A u \in Threads \ {t} : mutex' = u <=> mutex = u
  BY <1>1, PtFastbinsAssumption DEF Lock, At, Call, TypeOK, Thread, Local, Locked, Entry, Local
<1>4. /\ me.got = thread[t].got /\ ~ Merging(t) /\ me.pc # "merge"
      /\ Freeing(t) <=> me.pc \in {"flag", "head", "link", "push"}
      /\ Freeing(t) => me.p = thread[t].p
  BY <1>1 DEF Lock, At, Call, TypeOK, Thread, Local, Freeing, Merging, Locked, Entry, Local
<1>5. Local(t, at)'
  <2>1. thread'[t] = me
    BY <1>1, <1>3 DEF TypeOK
  <2> QED
    BY <1>1, <1>3, <1>4, <2>1, PtFastbinsAssumption DEF Lock, At, Call, TypeOK, Thread, Local, Freeing, Merging, Locked, Entry, Local
<1> HIDE DEF me
<1> QED
  BY <1>2, <1>3, <1>4, <1>5, QuietStep

LEMMA ReadFrontKeeps ==
  ASSUME NEW L, NEW M, NEW at, Sound(L, M, at), NEW t \in Threads
  PROVE  ReadFront(t) => Keeps(L, M, at)
<1> SUFFICES ASSUME ReadFront(t) PROVE Keeps(L, M, at)
  OBVIOUS
<1> DEFINE me == [thread[t] EXCEPT !.p = fastbins[thread[t].b], !.pc = IF fastbins[thread[t].b] = NULL THEN "search" ELSE "reveal"]
<1>1. TypeOK /\ thread[t] \in Thread /\ Local(t, at)
  BY DEF Sound, TypeOK
<1>6. LET h == fastbins[thread[t].b]
      IN /\ h \in Chunks \union {NULL} /\ Freeing(t) => thread[t].p # h
         /\ h # NULL => h \in Chunks /\ at[h] = InBin(thread[t].b)
  BY HeadRead
<1>2. me \in Thread
  BY <1>1, <1>6 DEF ReadFront, At, Call, TypeOK, Thread, Locked
<1>3. /\ UNCHANGED <<fastbins, fd, arena, tcache, held, aborted>> /\ thread' = [thread EXCEPT ![t] = me]
      /\ have_fastchunks' \in BOOLEAN /\ mutex' \in Threads \union {NoThread} /\ calls' \in [Threads -> Nat]
      /\ \A u \in Threads \ {t} : mutex' = u <=> mutex = u
  BY <1>1, <1>6, PtFastbinsAssumption DEF ReadFront, At, Call, TypeOK, Thread, Local, Locked
<1>4. /\ me.got = thread[t].got /\ ~ Merging(t) /\ me.pc # "merge"
      /\ Freeing(t) <=> me.pc \in {"flag", "head", "link", "push"}
      /\ Freeing(t) => me.p = thread[t].p
  BY <1>1, <1>6 DEF ReadFront, At, Call, TypeOK, Thread, Local, Freeing, Merging, Locked
<1>5. Local(t, at)'
  <2>1. thread'[t] = me
    BY <1>1, <1>3 DEF TypeOK
  <2> QED
    BY <1>1, <1>3, <1>4, <2>1, <1>6, PtFastbinsAssumption DEF ReadFront, At, Call, TypeOK, Thread, Local, Freeing, Merging, Locked
<1> HIDE DEF me
<1> QED
  BY <1>2, <1>3, <1>4, <1>5, QuietStep

LEMMA RevealKeeps ==
  ASSUME NEW L, NEW M, NEW at, Sound(L, M, at), NEW t \in Threads
  PROVE  Reveal(t) => Keeps(L, M, at)
<1> SUFFICES ASSUME Reveal(t) PROVE Keeps(L, M, at)
  OBVIOUS
<1> DEFINE me == [thread[t] EXCEPT !.next = fd[thread[t].p], !.pc = "pop"]
<1>1. TypeOK /\ thread[t] \in Thread /\ Local(t, at)
  BY DEF Sound, TypeOK
<1>2. me \in Thread
  BY <1>1 DEF Reveal, At, Call, TypeOK, Thread, Locked, Bins, Local
<1>3. /\ UNCHANGED <<fastbins, fd, arena, tcache, held, aborted>> /\ thread' = [thread EXCEPT ![t] = me]
      /\ have_fastchunks' \in BOOLEAN /\ mutex' \in Threads \union {NoThread} /\ calls' \in [Threads -> Nat]
      /\ \A u \in Threads \ {t} : mutex' = u <=> mutex = u
  BY <1>1, PtFastbinsAssumption DEF Reveal, At, Call, TypeOK, Thread, Local, Locked, Local
<1>4. /\ me.got = thread[t].got /\ ~ Merging(t) /\ me.pc # "merge"
      /\ Freeing(t) <=> me.pc \in {"flag", "head", "link", "push"}
      /\ Freeing(t) => me.p = thread[t].p
  BY <1>1 DEF Reveal, At, Call, TypeOK, Thread, Local, Freeing, Merging, Locked, Local
<1>5. Local(t, at)'
  <2>1. thread'[t] = me
    BY <1>1, <1>3 DEF TypeOK
  <2> QED
    BY <1>1, <1>3, <1>4, <2>1, PtFastbinsAssumption DEF Reveal, At, Call, TypeOK, Thread, Local, Freeing, Merging, Locked, Local
<1> HIDE DEF me
<1> QED
  BY <1>2, <1>3, <1>4, <1>5, QuietStep

LEMMA PopFailsKeeps ==
  ASSUME NEW L, NEW M, NEW at, Sound(L, M, at), NEW t \in Threads
  PROVE  PopFails(t) => Keeps(L, M, at)
<1> SUFFICES ASSUME PopFails(t) PROVE Keeps(L, M, at)
  OBVIOUS
<1> DEFINE me == [thread[t] EXCEPT !.p = fastbins[thread[t].b], !.pc = IF fastbins[thread[t].b] # NULL THEN "reveal"
                                                        ELSE IF thread[t].got = NULL THEN "search" ELSE "unlock"]
<1>1. TypeOK /\ thread[t] \in Thread /\ Local(t, at)
  BY DEF Sound, TypeOK
<1>6. LET h == fastbins[thread[t].b]
      IN /\ h \in Chunks \union {NULL} /\ Freeing(t) => thread[t].p # h
         /\ h # NULL => h \in Chunks /\ at[h] = InBin(thread[t].b)
  BY HeadRead
<1>2. me \in Thread
  BY <1>1, <1>6 DEF PopFails, At, Call, TypeOK, Thread, Locked
<1>3. /\ UNCHANGED <<fastbins, fd, arena, tcache, held, aborted>> /\ thread' = [thread EXCEPT ![t] = me]
      /\ have_fastchunks' \in BOOLEAN /\ mutex' \in Threads \union {NoThread} /\ calls' \in [Threads -> Nat]
      /\ \A u \in Threads \ {t} : mutex' = u <=> mutex = u
  BY <1>1, <1>6, PtFastbinsAssumption DEF PopFails, At, Call, TypeOK, Thread, Local, Locked
<1>4. /\ me.got = thread[t].got /\ ~ Merging(t) /\ me.pc # "merge"
      /\ Freeing(t) <=> me.pc \in {"flag", "head", "link", "push"}
      /\ Freeing(t) => me.p = thread[t].p
  BY <1>1, <1>6 DEF PopFails, At, Call, TypeOK, Thread, Local, Freeing, Merging, Locked
<1>5. Local(t, at)'
  <2>1. thread'[t] = me
    BY <1>1, <1>3 DEF TypeOK
  <2> QED
    BY <1>1, <1>3, <1>4, <2>1, <1>6, PtFastbinsAssumption DEF PopFails, At, Call, TypeOK, Thread, Local, Freeing, Merging, Locked
<1> HIDE DEF me
<1> QED
  BY <1>2, <1>3, <1>4, <1>5, QuietStep

LEMMA MoreKeeps ==
  ASSUME NEW L, NEW M, NEW at, Sound(L, M, at), NEW t \in Threads
  PROVE  More(t) => Keeps(L, M, at)
<1> SUFFICES ASSUME More(t) PROVE Keeps(L, M, at)
  OBVIOUS
<1> DEFINE me == IF Len(tcache[t][thread[t].b]) < tcache_count /\ fastbins[thread[t].b] # NULL
                 THEN [thread[t] EXCEPT !.p = fastbins[thread[t].b], !.pc = "reveal"]
                 ELSE [thread[t] EXCEPT !.pc = "unlock"]
<1>1. TypeOK /\ thread[t] \in Thread /\ Local(t, at)
  BY DEF Sound, TypeOK
<1>6. LET h == fastbins[thread[t].b]
      IN /\ h \in Chunks \union {NULL} /\ Freeing(t) => thread[t].p # h
         /\ h # NULL => h \in Chunks /\ at[h] = InBin(thread[t].b)
  BY HeadRead
<1>2. me \in Thread
  BY <1>1, <1>6 DEF More, At, Call, TypeOK, Thread, Locked
<1>3. /\ UNCHANGED <<fastbins, fd, arena, tcache, held, aborted>> /\ thread' = [thread EXCEPT ![t] = me]
      /\ have_fastchunks' \in BOOLEAN /\ mutex' \in Threads \union {NoThread} /\ calls' \in [Threads -> Nat]
      /\ \A u \in Threads \ {t} : mutex' = u <=> mutex = u
  BY <1>1, <1>6, PtFastbinsAssumption DEF More, At, Call, TypeOK, Thread, Local, Locked
<1>4. /\ me.got = thread[t].got /\ ~ Merging(t) /\ me.pc # "merge"
      /\ Freeing(t) <=> me.pc \in {"flag", "head", "link", "push"}
      /\ Freeing(t) => me.p = thread[t].p
  BY <1>1, <1>6 DEF More, At, Call, TypeOK, Thread, Local, Freeing, Merging, Locked
<1>5. Local(t, at)'
  <2>1. thread'[t] = me
    BY <1>1, <1>3 DEF TypeOK
  <2> QED
    BY <1>1, <1>3, <1>4, <2>1, <1>6, PtFastbinsAssumption DEF More, At, Call, TypeOK, Thread, Local, Freeing, Merging, Locked
<1> HIDE DEF me
<1> QED
  BY <1>2, <1>3, <1>4, <1>5, QuietStep

LEMMA SearchFailsKeeps ==
  ASSUME NEW L, NEW M, NEW at, Sound(L, M, at), NEW t \in Threads
  PROVE  SearchFails(t) => Keeps(L, M, at)
<1> SUFFICES ASSUME SearchFails(t) PROVE Keeps(L, M, at)
  OBVIOUS
<1> DEFINE me == [thread[t] EXCEPT !.pc = IF have_fastchunks THEN "clear" ELSE "unlock"]
<1>1. TypeOK /\ thread[t] \in Thread /\ Local(t, at)
  BY DEF Sound, TypeOK
<1>2. me \in Thread
  BY <1>1 DEF SearchFails, At, Call, TypeOK, Thread, Locked
<1>3. /\ UNCHANGED <<fastbins, fd, arena, tcache, held, aborted>> /\ thread' = [thread EXCEPT ![t] = me]
      /\ have_fastchunks' \in BOOLEAN /\ mutex' \in Threads \union {NoThread} /\ calls' \in [Threads -> Nat]
      /\ \A u \in Threads \ {t} : mutex' = u <=> mutex = u
  BY <1>1, PtFastbinsAssumption DEF SearchFails, At, Call, TypeOK, Thread, Local, Locked
<1>4. /\ me.got = thread[t].got /\ ~ Merging(t) /\ me.pc # "merge"
      /\ Freeing(t) <=> me.pc \in {"flag", "head", "link", "push"}
      /\ Freeing(t) => me.p = thread[t].p
  BY <1>1 DEF SearchFails, At, Call, TypeOK, Thread, Local, Freeing, Merging, Locked
<1>5. Local(t, at)'
  <2>1. thread'[t] = me
    BY <1>1, <1>3 DEF TypeOK
  <2> QED
    BY <1>1, <1>3, <1>4, <2>1, PtFastbinsAssumption DEF SearchFails, At, Call, TypeOK, Thread, Local, Freeing, Merging, Locked
<1> HIDE DEF me
<1> QED
  BY <1>2, <1>3, <1>4, <1>5, QuietStep

LEMMA UnlockEmptyKeeps ==
  ASSUME NEW L, NEW M, NEW at, Sound(L, M, at), NEW t \in Threads
  PROVE  Unlock(t) /\ thread[t].got = NULL => Keeps(L, M, at)
<1> SUFFICES ASSUME Unlock(t), thread[t].got = NULL PROVE Keeps(L, M, at)
  OBVIOUS
<1> DEFINE me == Idle
<1>1. TypeOK /\ thread[t] \in Thread /\ Local(t, at)
  BY DEF Sound, TypeOK
<1>2. me \in Thread
  BY IdleThread
<1>3. /\ UNCHANGED <<fastbins, fd, arena, tcache, held, aborted>> /\ thread' = [thread EXCEPT ![t] = me]
      /\ have_fastchunks' \in BOOLEAN /\ mutex' \in Threads \union {NoThread} /\ calls' \in [Threads -> Nat]
      /\ \A u \in Threads \ {t} : mutex' = u <=> mutex = u
  <2>1. \A c \in Chunks : c # thread[t].got
    BY PtFastbinsAssumption
  <2>2. fd' = fd
    BY <1>1, <2>1 DEF Unlock, TypeOK
  <2>3. held' = held
    BY DEF Unlock
  <2> QED
    BY <1>1, <2>2, <2>3, PtFastbinsAssumption DEF Unlock, At, TypeOK, Local, Locked
<1>4. /\ me.got = thread[t].got /\ ~ Merging(t) /\ me.pc # "merge"
      /\ Freeing(t) <=> me.pc \in {"flag", "head", "link", "push"}
      /\ Freeing(t) => me.p = thread[t].p
  BY <1>1, PtFastbinsAssumption DEF Unlock, At, Call, TypeOK, Thread, Local, Freeing, Merging, Locked, Idle
<1>5. Local(t, at)'
  <2>1. thread'[t] = me
    BY <1>1, <1>3 DEF TypeOK
  <2> QED
    BY <1>1, <1>3, <1>4, <2>1, PtFastbinsAssumption DEF Unlock, At, Call, TypeOK, Thread, Local, Freeing, Merging, Locked, Idle
<1> HIDE DEF me
<1> QED
  BY <1>2, <1>3, <1>4, <1>5, QuietStep

LEMMA CheckKeeps ==
  ASSUME NEW L, NEW M, NEW at, Sound(L, M, at), NEW t \in Threads
  PROVE  Check(t) => Keeps(L, M, at)
<1> SUFFICES ASSUME Check(t) PROVE Keeps(L, M, at)
  OBVIOUS
<1> DEFINE me == [thread[t] EXCEPT !.pc = IF have_fastchunks THEN "clear" ELSE "unlock"]
<1>1. TypeOK /\ thread[t] \in Thread /\ Local(t, at)
  BY DEF Sound, TypeOK
<1>2. me \in Thread
  BY <1>1 DEF Check, At, Call, TypeOK, Thread, Locked
<1>3. /\ UNCHANGED <<fastbins, fd, arena, tcache, held, aborted>> /\ thread' = [thread EXCEPT ![t] = me]
      /\ have_fastchunks' \in BOOLEAN /\ mutex' \in Threads \union {NoThread} /\ calls' \in [Threads -> Nat]
      /\ \A u \in Threads \ {t} : mutex' = u <=> mutex = u
  BY <1>1, PtFastbinsAssumption DEF Check, At, Call, TypeOK, Thread, Local, Locked
<1>4. /\ me.got = thread[t].got /\ ~ Merging(t) /\ me.pc # "merge"
      /\ Freeing(t) <=> me.pc \in {"flag", "head", "link", "push"}
      /\ Freeing(t) => me.p = thread[t].p
  BY <1>1 DEF Check, At, Call, TypeOK, Thread, Local, Freeing, Merging, Locked
<1>5. Local(t, at)'
  <2>1. thread'[t] = me
    BY <1>1, <1>3 DEF TypeOK
  <2> QED
    BY <1>1, <1>3, <1>4, <2>1, PtFastbinsAssumption DEF Check, At, Call, TypeOK, Thread, Local, Freeing, Merging, Locked
<1> HIDE DEF me
<1> QED
  BY <1>2, <1>3, <1>4, <1>5, QuietStep

LEMMA ClearKeeps ==
  ASSUME NEW L, NEW M, NEW at, Sound(L, M, at), NEW t \in Threads
  PROVE  Clear(t) => Keeps(L, M, at)
<1> SUFFICES ASSUME Clear(t) PROVE Keeps(L, M, at)
  OBVIOUS
<1> DEFINE me == [thread[t] EXCEPT !.pc = "exchange", !.fb = 0]
<1>1. TypeOK /\ thread[t] \in Thread /\ Local(t, at)
  BY DEF Sound, TypeOK
<1>2. me \in Thread
  BY <1>1, IdleThread DEF Clear, At, Call, TypeOK, Thread, Locked
<1>3. /\ UNCHANGED <<fastbins, fd, arena, tcache, held, aborted>> /\ thread' = [thread EXCEPT ![t] = me]
      /\ have_fastchunks' \in BOOLEAN /\ mutex' \in Threads \union {NoThread} /\ calls' \in [Threads -> Nat]
      /\ \A u \in Threads \ {t} : mutex' = u <=> mutex = u
  BY <1>1, PtFastbinsAssumption DEF Clear, At, Call, TypeOK, Thread, Local, Locked
<1>4. /\ me.got = thread[t].got /\ ~ Merging(t) /\ me.pc # "merge"
      /\ Freeing(t) <=> me.pc \in {"flag", "head", "link", "push"}
      /\ Freeing(t) => me.p = thread[t].p
  BY <1>1, PtFastbinsAssumption DEF Clear, At, Call, TypeOK, Thread, Local, Freeing, Merging, Locked
<1>5. Local(t, at)'
  <2>1. thread'[t] = me
    BY <1>1, <1>3 DEF TypeOK
  <2> QED
    BY <1>1, <1>3, <1>4, <2>1, PtFastbinsAssumption DEF Clear, At, Call, TypeOK, Thread, Local, Freeing, Merging, Locked
<1> HIDE DEF me
<1> QED
  BY <1>2, <1>3, <1>4, <1>5, QuietStep
-------------------------------------------------------------------------------
(* Steps that move chunks.  The thread touches what is with the client, in *)
(* the arena, its own, or in a bin if it holds the lock.                   *)
Reach(t, w) ==
  \/ w \in {Client, Arena, Freed(t), Merged(t), Got(t)} \/ \E b \in Bins : w = Cached(t, b)
  \/ mutex = t /\ \E b \in Bins : w = InBin(b)

LEMMA Unmoved ==
  ASSUME NEW L, NEW M, NEW K, NEW N, NEW w, NEW c \in Chunks, Located(c, w, L, M),
         c \in held' <=> c \in held, c \in arena' <=> c \in arena,
         \A b \in Bins : c \in ToSet(K[b]) <=> c \in ToSet(L[b]),
         \A u \in Threads : /\ (Freeing(u)' /\ thread'[u].p = c) <=> (Freeing(u) /\ thread[u].p = c)
                            /\ c \in ToSet(N[u]) <=> c \in ToSet(M[u])
                            /\ c \in ToSet(M[u]) => thread'[u].fb = thread[u].fb
                            /\ thread'[u].got = c <=> thread[u].got = c
                            /\ \A b \in Bins : c \in ToSet(tcache'[u][b]) <=> c \in ToSet(tcache[u][b])
  PROVE  Located(c, w, K, N)'
BY DEF Located

LEMMA NotReached ==
  ASSUME NEW t, NEW u, t # u
  PROVE  /\ ~ Reach(t, Merged(u)) /\ ~ Reach(t, Freed(u))
         /\ mutex = u => \A b : ~ Reach(t, InBin(b))
<1>1. ~ Reach(t, Merged(u))
  BY PlacesDiffer DEF Reach
<1>2. ~ Reach(t, Freed(u))
  BY PlacesDiffer DEF Reach
<1>3. ASSUME NEW b, mutex = u PROVE ~ Reach(t, InBin(b))
  BY <1>3, PlacesDiffer DEF Reach
<1> QED
  BY <1>1, <1>2, <1>3

LEMMA BinFrame ==
  ASSUME NEW L, NEW M, NEW at, Sound(L, M, at), NEW b \in Bins, fastbins'[b] = fastbins[b],
         \A c \in Chunks : at[c] = InBin(b) => fd'[c] = fd[c]
  PROVE  IsList(fd', fastbins'[b], L[b])
<1>1. IsList(fd, fastbins[b], L[b]) /\ L[b] \in Seq(Chunks)
  BY DEF Sound, Linking
<1>2. \A c \in ToSet(L[b]) : c \in Chunks /\ at[c] = InBin(b)
  BY <1>1, ToSetProperties DEF Sound, Owned, Located
<1> QED
  BY <1>1, <1>2, SameLinks

LEMMA MoveStep ==
  ASSUME NEW L, NEW M, NEW at, Sound(L, M, at), NEW t \in Threads, NEW K, NEW N, NEW as \in [Chunks -> Places],
         TypeOK', Owned(K, N, as)', Local(t, as)', Moves(L, K),
         K \in [Bins -> Seq(Chunks)], N \in [Threads -> Seq(Chunks)],
         \A b \in Bins : IsList(fd', fastbins'[b], K[b]),
         IF Merging(t)' THEN IsList(fd', thread'[t].p, N[t]) ELSE N[t] = <<>>,
         \A b \in Bins : IsInjective(tcache'[t][b]),
         \A u \in Threads \ {t} : /\ thread'[u] = thread[u] /\ tcache'[u] = tcache[u] /\ N[u] = M[u]
                                  /\ mutex' = u <=> mutex = u,
         \A c \in Chunks : (fd'[c] = fd[c] /\ as[c] = at[c]) \/ Reach(t, at[c])
  PROVE  Keeps(L, M, at)
<1>1. ASSUME NEW u \in Threads, u # t, NEW c \in Chunks, at[c] \in {Merged(u), Freed(u)}
      PROVE  fd'[c] = fd[c] /\ as[c] = at[c]
  BY <1>1, NotReached
<1>2. ASSUME NEW u \in Threads, u # t, mutex = u, NEW c \in Chunks, NEW b \in Bins, at[c] = InBin(b)
      PROVE  fd'[c] = fd[c] /\ as[c] = at[c]
  BY <1>2, NotReached
<1>3. ASSUME NEW u \in Threads, u # t
      PROVE  IF Merging(u)' THEN IsList(fd', thread'[u].p, N[u]) ELSE N[u] = <<>>
  <2>1. thread'[u] = thread[u] /\ N[u] = M[u]
    BY <1>3
  <2>2. CASE Merging(u)
    <3>1. IsList(fd, thread[u].p, M[u]) /\ M[u] \in Seq(Chunks)
      BY <2>2 DEF Sound, Linking
    <3>2. \A c \in ToSet(M[u]) : c \in Chunks /\ at[c] = Merged(u)
      BY <3>1, ToSetProperties DEF Sound, Owned, Located
    <3>3. \A c \in ToSet(M[u]) : fd'[c] = fd[c]
      BY <1>1, <1>3, <3>2
    <3> QED
      BY <2>1, <2>2, <3>1, <3>3, SameLinks DEF Merging
  <2>3. CASE ~ Merging(u)
    BY <2>1, <2>3 DEF Sound, Linking, Merging
  <2> QED
    BY <2>2, <2>3
<1>4. ASSUME NEW u \in Threads, u # t PROVE Local(u, as)'
  <2>1. thread'[u] = thread[u] /\ (mutex' = u <=> mutex = u) /\ Local(u, at) /\ thread[u].b \in Bins
    BY <1>4 DEF Sound, TypeOK, Thread
  <2>2. Freeing(u) => fd'[thread[u].p] = fd[thread[u].p]
    <3>1. Freeing(u) => thread[u].p \in Chunks /\ at[thread[u].p] = Freed(u)
      BY <2>1 DEF Local, Sound, Owned, Located
    <3> QED
      BY <1>1, <1>4, <3>1
  <2>3. thread[u].pc \in {"reveal", "pop"} =>
          /\ thread[u].p \in Chunks /\ fd'[thread[u].p] = fd[thread[u].p]
          /\ as[thread[u].p] = InBin(thread[u].b)
    BY <1>2, <1>4, <2>1 DEF Local, Locked
  <2> QED
    BY <2>1, <2>2, <2>3 DEF Local, Freeing, Merging, Locked
<1>5. \A u \in Threads : Local(u, as)'
  BY <1>4
<1>6. Linking(K, N)'
  <2>1. \A u \in Threads : IF Merging(u)' THEN IsList(fd', thread'[u].p, N[u]) ELSE N[u] = <<>>
    BY <1>3
  <2>2. \A u \in Threads, b \in Bins : IsInjective(tcache'[u][b])
    BY DEF Sound, Linking
  <2> QED
    BY <2>1, <2>2 DEF Linking
<1>7. Sound(K, N, as)'
  BY <1>5, <1>6 DEF Sound
<1> QED
  BY <1>7 DEF Keeps

LEMMA FreeCachedKeeps ==
  ASSUME NEW L, NEW M, NEW at, Sound(L, M, at), NEW t \in Threads, NEW c \in Chunks,
         Free(t, c), Len(tcache[t][Index[c]]) < tcache_count
  PROVE  Keeps(L, M, at)
<1> DEFINE i == Index[c]
           kept == <<c>> \o tcache[t][i]
           as == [at EXCEPT ![c] = Cached(t, i)]
<1>1. /\ i \in Bins /\ c \in held /\ at[c] = Client /\ tcache[t][i] \in Seq(Chunks)
      /\ IsInjective(tcache[t][i]) /\ c \notin ToSet(tcache[t][i])
  <2>1. i \in Bins
    BY PtFastbinsAssumption
  <2>2. c \in held /\ Located(c, at[c], L, M) /\ tcache[t][i] \in Seq(Chunks) /\ IsInjective(tcache[t][i])
    BY <2>1 DEF Free, Sound, TypeOK, Linking, Owned
  <2> HIDE DEF i
  <2> QED
    BY <2>1, <2>2, PlacesDiffer DEF Located
<1>2. /\ kept \in Seq(Chunks) /\ IsInjective(kept) /\ ToSet(kept) = {c} \union ToSet(tcache[t][i])
  BY <1>1, PushList
<1>3. /\ tcache' = [tcache EXCEPT ![t] = [tcache[t] EXCEPT ![i] = kept]]
      /\ fd' = [fd EXCEPT ![c] = Garbage] /\ held' = held \ {c}
      /\ UNCHANGED <<fastbins, have_fastchunks, mutex, arena, thread, aborted>>
  BY DEF Free, Keep
<1> HIDE DEF kept, i
<1>4. \A u \in Threads, b \in Bins : tcache'[u][b] = IF u = t /\ b = i THEN kept ELSE tcache[u][b]
  BY <1>1, <1>3 DEF Sound, TypeOK
<1>5. TypeOK'
  <2>1. calls' \in [Threads -> Nat]
    BY DEF Free, Call, Sound, TypeOK
  <2>2. tcache' \in [Threads -> [Bins -> Seq(Chunks)]]
    BY <1>2, <1>3 DEF Sound, TypeOK
  <2> QED
    BY <1>3, <2>1, <2>2 DEF Sound, TypeOK
<1>6. as \in [Chunks -> Places]
  BY <1>1, PlacesExist DEF Sound
<1>7. Owned(L, M, as)'
  <2> SUFFICES ASSUME NEW x \in Chunks PROVE Located(x, as[x], L, M)'
    BY DEF Owned
  <2>1. as[x] = IF x = c THEN Cached(t, i) ELSE at[x]
    BY DEF Sound
  <2>2. \A u \in Threads, b \in Bins : x \in ToSet(tcache'[u][b]) <=>
                                         x \in ToSet(tcache[u][b]) \/ (x = c /\ u = t /\ b = i)
    BY <1>2, <1>4
  <2>3. CASE x = c
    <3> HIDE DEF as
    <3> QED
      BY <1>1, <1>3, <2>1, <2>2, <2>3, PlacesDiffer DEF Sound, Owned, Located, Freeing
  <2>4. CASE x # c
    <3> HIDE DEF as
    <3> QED
      BY <1>3, <2>1, <2>2, <2>4 DEF Sound, Owned, Located, Freeing
  <2> QED
    BY <2>3, <2>4
<1>8. ASSUME NEW b \in Bins PROVE IsList(fd', fastbins'[b], L[b])
  <2>1. \A x \in Chunks : at[x] = InBin(b) => fd'[x] = fd[x]
    <3>1. \A x \in Chunks : at[x] = InBin(b) => x # c
      BY <1>1, PlacesDiffer
    <3> QED
      BY <1>3, <3>1 DEF Sound, TypeOK
  <2>2. fastbins'[b] = fastbins[b]
    BY <1>3
  <2> QED
    BY <2>1, <2>2, BinFrame
<1>9. \A x \in Chunks : (fd'[x] = fd[x] /\ as[x] = at[x]) \/ Reach(t, at[x])
  BY <1>1, <1>3 DEF Sound, TypeOK, Reach
<1>10. thread[t].pc = "idle" /\ Local(t, at) /\ L \in [Bins -> Seq(Chunks)] /\ M \in [Threads -> Seq(Chunks)]
  BY DEF Free, Call, At, Sound, Linking
<1>11. Local(t, as)'
  BY <1>3, <1>10 DEF Local, Freeing, Merging, Locked
<1>12. IF Merging(t)' THEN IsList(fd', thread'[t].p, M[t]) ELSE M[t] = <<>>
  BY <1>3, <1>10 DEF Merging, Sound, Linking
<1>13. Moves(L, L)
  BY <1>1, <1>3 DEF Moves
<1>14. \A b \in Bins : IsInjective(tcache'[t][b])
  BY <1>2, <1>4 DEF Sound, Linking
<1>15. \A u \in Threads \ {t} : /\ thread'[u] = thread[u] /\ tcache'[u] = tcache[u]
                                /\ mutex' = u <=> mutex = u
  BY <1>3 DEF Sound, TypeOK
<1> HIDE DEF as
<1> QED
  BY <1>5, <1>6, <1>7, <1>8, <1>9, <1>10, <1>11, <1>12, <1>13, <1>14, <1>15, MoveStep

LEMMA FreeKeeps ==
  ASSUME NEW L, NEW M, NEW at, Sound(L, M, at), NEW t \in Threads, NEW c \in Chunks,
         Free(t, c), ~ (Len(tcache[t][Index[c]]) < tcache_count)
  PROVE  Keeps(L, M, at)
<1> DEFINE me == [Idle EXCEPT !.pc = "flag", !.op = "free", !.b = Index[c], !.p = c]
           as == [at EXCEPT ![c] = Freed(t)]
<1>1. /\ Index[c] \in Bins /\ c \in held /\ at[c] = Client /\ thread[t].pc = "idle"
      /\ Local(t, at) /\ thread[t] \in Thread /\ thread[t].got = NULL
  <2>1. Index[c] \in Bins
    BY PtFastbinsAssumption
  <2>2. /\ thread[t].pc = "idle" /\ c \in held /\ Located(c, at[c], L, M) /\ Local(t, at)
        /\ thread[t] \in Thread
    BY DEF Sound, TypeOK, Owned, Free, Call, At
  <2> QED
    BY <2>1, <2>2 DEF Local, Located
<1>2. me \in Thread /\ me.got = NULL /\ me.pc = "flag" /\ me.p = c /\ me.b = Index[c]
  BY <1>1, IdleThread DEF Thread
<1>3. /\ thread' = [thread EXCEPT ![t] = me] /\ held' = held \ {c}
      /\ UNCHANGED <<fastbins, fd, have_fastchunks, mutex, arena, tcache, aborted>>
  BY DEF Free
<1> HIDE DEF me
<1>4. /\ thread'[t] = me /\ \A u \in Threads \ {t} : thread'[u] = thread[u]
      /\ thread' \in [Threads -> Thread]
  BY <1>2, <1>3 DEF Sound, TypeOK
<1>5. TypeOK'
  <2>1. calls' \in [Threads -> Nat]
    BY DEF Free, Call, Sound, TypeOK
  <2> QED
    BY <1>3, <1>4, <2>1 DEF Sound, TypeOK
<1>6. as \in [Chunks -> Places] /\ \A x \in Chunks : as[x] = IF x = c THEN Freed(t) ELSE at[x]
  BY PlacesExist DEF Sound
<1>7. L \in [Bins -> Seq(Chunks)] /\ M \in [Threads -> Seq(Chunks)] /\ M[t] = <<>>
  BY <1>1 DEF Sound, Linking, Merging
<1> HIDE DEF as
<1>8. Owned(L, M, as)'
  <2> SUFFICES ASSUME NEW x \in Chunks PROVE Located(x, as[x], L, M)'
    BY DEF Owned
  <2>1. /\ Located(x, at[x], L, M) /\ x \notin ToSet(M[t])
        /\ \A u \in Threads : thread'[u].got = thread[u].got
        /\ \A u \in Threads : (Freeing(u)' /\ thread'[u].p = x) <=>
                                (Freeing(u) /\ thread[u].p = x) \/ (x = c /\ u = t)
    BY <1>1, <1>2, <1>4, <1>7 DEF Sound, Owned, ToSet, Freeing
  <2>2. CASE x = c
    <3>1. Located(c, Client, L, M) /\ as[x] = Freed(t)
      BY <1>1, <1>6, <2>1, <2>2
    <3>2. Located(c, Freed(t), L, M)'
      BY <1>3, <1>4, <2>1, <2>2, <3>1, PlacesDiffer DEF Located
    <3> QED
      BY <2>2, <3>1, <3>2
  <2>3. CASE x # c
    <3>1. Located(x, at[x], L, M)'
      BY <1>3, <1>4, <2>1, <2>3, Unmoved
    <3> QED
      BY <1>6, <2>3, <3>1
  <2> QED
    BY <2>2, <2>3
<1>9. ASSUME NEW b \in Bins PROVE IsList(fd', fastbins'[b], L[b])
  BY <1>3 DEF Sound, Linking
<1>10. Local(t, as)'
  BY <1>1, <1>2, <1>3, <1>4 DEF Local, Freeing, Merging, Locked
<1>11. ~ Merging(t)'
  BY <1>2, <1>4 DEF Merging
<1>12. Moves(L, L)
  BY <1>1, <1>3 DEF Moves
<1>13. \A b \in Bins : IsInjective(tcache'[t][b])
  BY <1>3 DEF Sound, Linking
<1>14. \A x \in Chunks : (fd'[x] = fd[x] /\ as[x] = at[x]) \/ Reach(t, at[x])
  BY <1>1, <1>3, <1>6 DEF Reach
<1>15. \A u \in Threads \ {t} : tcache'[u] = tcache[u] /\ (mutex' = u <=> mutex = u)
  BY <1>3
<1> QED
  BY <1>4, <1>5, <1>6, <1>7, <1>8, <1>9, <1>10, <1>11, <1>12, <1>13, <1>14, <1>15, MoveStep

LEMMA LinkKeeps ==
  ASSUME NEW L, NEW M, NEW at, Sound(L, M, at), NEW t \in Threads, Link(t)
  PROVE  Keeps(L, M, at)
<1> DEFINE p == thread[t].p
           me == [thread[t] EXCEPT !.pc = "push"]
<1>1. /\ thread[t].pc = "link" /\ Freeing(t) /\ p \in Chunks /\ at[p] = Freed(t) /\ Index[p] = thread[t].b
      /\ thread[t].next # p /\ thread[t].next \in Chunks \union {NULL}
      /\ Local(t, at) /\ thread[t] \in Thread
  BY DEF Sound, TypeOK, Owned, Located, Link, At, Local, Freeing
<1>2. me \in Thread
  BY <1>1 DEF Thread
<1>3. /\ thread' = [thread EXCEPT ![t] = me] /\ fd' = [fd EXCEPT ![p] = thread[t].next] /\ aborted' = FALSE
      /\ UNCHANGED <<fastbins, have_fastchunks, mutex, arena, tcache, held, calls>>
  BY <1>1 DEF Link
<1> HIDE DEF me
<1>4. /\ thread'[t] = me /\ \A u \in Threads \ {t} : thread'[u] = thread[u]
      /\ thread' \in [Threads -> Thread]
  BY <1>2, <1>3 DEF Sound, TypeOK
<1>5. /\ fd'[p] = thread[t].next /\ \A c \in Chunks : c # p => fd'[c] = fd[c]
      /\ fd' \in [Chunks -> Chunks \union {NULL, Garbage}]
  BY <1>1, <1>3 DEF Sound, TypeOK
<1>6. TypeOK'
  BY <1>3, <1>4, <1>5 DEF Sound, TypeOK
<1>7. /\ L \in [Bins -> Seq(Chunks)] /\ M \in [Threads -> Seq(Chunks)] /\ M[t] = <<>>
      /\ at \in [Chunks -> Places]
  BY <1>1 DEF Sound, Linking, Merging
<1>8. Owned(L, M, at)'
  <2> SUFFICES ASSUME NEW x \in Chunks PROVE Located(x, at[x], L, M)'
    BY DEF Owned
  <2>1. /\ Located(x, at[x], L, M) /\ x \notin ToSet(M[t])
        /\ \A u \in Threads : thread'[u].got = thread[u].got
        /\ \A u \in Threads : (Freeing(u)' /\ thread'[u].p = x) <=> (Freeing(u) /\ thread[u].p = x)
    <3>1. me.got = thread[t].got /\ me.p = p /\ me.pc = "push"
      BY <1>1 DEF me, Thread
    <3>2. Located(x, at[x], L, M) /\ x \notin ToSet(M[t])
      BY <1>7 DEF Sound, Owned, ToSet
    <3> QED
      BY <1>1, <1>4, <3>1, <3>2 DEF Freeing
  <2> QED
    BY <1>3, <1>4, <2>1 DEF Located
<1>9. ASSUME NEW b \in Bins PROVE IsList(fd', fastbins'[b], L[b])
  <2>1. \A x \in Chunks : at[x] = InBin(b) => x # p
    BY <1>1, PlacesDiffer
  <2>2. \A x \in Chunks : at[x] = InBin(b) => fd'[x] = fd[x]
    BY <1>5, <2>1
  <2>3. fastbins'[b] = fastbins[b]
    BY <1>3
  <2> QED
    BY <2>2, <2>3, BinFrame
<1>10. Local(t, at)'
  BY <1>1, <1>3, <1>4, <1>5 DEF Local, Freeing, Merging, Locked, me, Thread
<1>11. ~ Merging(t)'
  BY <1>1, <1>4 DEF Merging, me, Thread
<1>12. Moves(L, L)
  BY <1>3 DEF Moves
<1>13. \A b \in Bins : IsInjective(tcache'[t][b])
  BY <1>3 DEF Sound, Linking
<1>14. \A x \in Chunks : (fd'[x] = fd[x] /\ at[x] = at[x]) \/ Reach(t, at[x])
  BY <1>1, <1>5 DEF Reach
<1>15. \A u \in Threads \ {t} : tcache'[u] = tcache[u] /\ (mutex' = u <=> mutex = u)
  BY <1>3
<1> QED
  BY <1>4, <1>6, <1>7, <1>8, <1>9, <1>10, <1>11, <1>12, <1>13, <1>14, <1>15, MoveStep

LEMMA PushKeeps ==
  ASSUME NEW L, NEW M, NEW at, Sound(L, M, at), NEW t \in Threads, Push(t),
         NEW b, b = thread[t].b, NEW p, p = thread[t].p, fastbins[b] = thread[t].next
  PROVE  Keeps(L, M, at)
<1> DEFINE pushed == <<p>> \o L[b]
           K == [L EXCEPT ![b] = pushed]
           as == [at EXCEPT ![p] = InBin(b)]
<1>1. /\ thread[t].pc = "push" /\ Freeing(t) /\ p \in Chunks /\ at[p] = Freed(t) /\ Index[p] = b
      /\ fd[p] = fastbins[b] /\ b \in Bins /\ Local(t, at) /\ thread[t] \in Thread /\ thread[t].got = NULL
  <2>1. thread[t].pc = "push" /\ Freeing(t) /\ Local(t, at) /\ thread[t] \in Thread
    BY DEF Sound, TypeOK, Push, At, Freeing
  <2>2. p \in Chunks /\ Index[p] = b /\ b \in Bins /\ fd[p] = fastbins[b] /\ thread[t].got = NULL
    BY <2>1 DEF Local, Thread
  <2>3. Located(p, at[p], L, M)
    BY <2>2 DEF Sound, Owned
  <2> QED
    BY <2>1, <2>2, <2>3 DEF Located
<1>2. /\ L \in [Bins -> Seq(Chunks)] /\ M \in [Threads -> Seq(Chunks)] /\ M[t] = <<>>
      /\ IsList(fd, fd[p], L[b]) /\ IsInjective(L[b]) /\ L[b] \in Seq(Chunks) /\ p \notin ToSet(L[b])
  <2>1. IsList(fd, fastbins[b], L[b]) /\ M[t] = <<>>
    BY <1>1 DEF Sound, Linking, Merging
  <2>2. p \notin ToSet(L[b])
    BY <1>1, PlacesDiffer DEF Sound, Owned, Located
  <2> QED
    BY <1>1, <2>1, <2>2 DEF IsList, Sound, Linking
<1>3. pushed \in Seq(Chunks) /\ ToSet(pushed) = {p} \union ToSet(L[b]) /\ IsList(fd, p, pushed)
  BY <1>1, <1>2, PushList
<1>4. /\ thread' = [thread EXCEPT ![t] = Idle] /\ fastbins' = [fastbins EXCEPT ![b] = p]
      /\ UNCHANGED <<fd, have_fastchunks, mutex, arena, tcache, held, calls, aborted>>
  BY DEF Push
<1> HIDE DEF pushed
<1>5. /\ thread'[t] = Idle /\ \A u \in Threads \ {t} : thread'[u] = thread[u]
      /\ thread' \in [Threads -> Thread]
  BY <1>4, IdleThread DEF Sound, TypeOK
<1>6. TypeOK'
  BY <1>1, <1>4, <1>5 DEF Sound, TypeOK
<1>7. as \in [Chunks -> Places] /\ \A x \in Chunks : as[x] = IF x = p THEN InBin(b) ELSE at[x]
  BY <1>1, PlacesExist DEF Sound
<1>8. K \in [Bins -> Seq(Chunks)] /\ \A a \in Bins : K[a] = IF a = b THEN pushed ELSE L[a]
  BY <1>2, <1>3
<1> HIDE DEF as, K
<1>9. Owned(K, M, as)'
  <2> SUFFICES ASSUME NEW x \in Chunks PROVE Located(x, as[x], K, M)'
    BY DEF Owned
  <2>1. Located(x, at[x], L, M) /\ x \notin ToSet(M[t])
    BY <1>2 DEF Sound, Owned, ToSet
  <2>2. \A u \in Threads : /\ thread'[u].got = thread[u].got
                           /\ (Freeing(u)' /\ thread'[u].p = x) <=> (u # t /\ Freeing(u) /\ thread[u].p = x)
                           /\ x \in ToSet(M[u]) => thread'[u].fb = thread[u].fb
    BY <1>1, <1>5, <2>1, IdleThread DEF Freeing
  <2>3. \A a \in Bins : x \in ToSet(K[a]) <=> x \in ToSet(L[a]) \/ (x = p /\ a = b)
    BY <1>3, <1>8
  <2>4. CASE x = p
    <3>1. Located(p, Freed(t), L, M) /\ as[x] = InBin(b)
      BY <1>1, <1>7, <2>1, <2>4
    <3>2. Located(p, InBin(b), K, M)'
      BY <1>1, <1>4, <2>2, <2>3, <2>4, <3>1, PlacesDiffer DEF Located
    <3> QED
      BY <2>4, <3>1, <3>2
  <2>5. CASE x # p
    <3>1. \A u \in Threads : (Freeing(u)' /\ thread'[u].p = x) <=> (Freeing(u) /\ thread[u].p = x)
      BY <2>2, <2>5
    <3>2. Located(x, at[x], K, M)'
      BY <1>4, <2>1, <2>2, <2>3, <2>5, <3>1, Unmoved
    <3> QED
      BY <1>7, <2>5, <3>2
  <2> QED
    BY <2>4, <2>5
<1>10. ASSUME NEW a \in Bins PROVE IsList(fd', fastbins'[a], K[a])
  <2>1. fd' = fd /\ fastbins'[a] = IF a = b THEN p ELSE fastbins[a]
    BY <1>1, <1>4 DEF Sound, TypeOK
  <2> QED
    BY <1>3, <1>8, <2>1 DEF Sound, Linking
<1>11. Local(t, as)'
  BY <1>1, <1>4, <1>5, IdleThread DEF Local, Freeing, Merging, Locked
<1>12. ~ Merging(t)'
  BY <1>5, IdleThread DEF Merging
<1>13. Moves(L, K)
  <2>1. p \notin held /\ \A a \in Bins : p \notin ToSet(L[a])
    BY <1>1, PlacesDiffer DEF Sound, Owned, Located
  <2> QED
    BY <1>1, <1>4, <2>1 DEF Moves, K, pushed
<1>14. \A a \in Bins : IsInjective(tcache'[t][a])
  BY <1>4 DEF Sound, Linking
<1>15. \A x \in Chunks : (fd'[x] = fd[x] /\ as[x] = at[x]) \/ Reach(t, at[x])
  BY <1>1, <1>4, <1>7 DEF Reach
<1>16. \A u \in Threads \ {t} : tcache'[u] = tcache[u] /\ (mutex' = u <=> mutex = u)
  BY <1>4
<1> QED
  BY <1>2, <1>5, <1>6, <1>7, <1>8, <1>9, <1>10, <1>11, <1>12, <1>13, <1>14, <1>15, <1>16, MoveStep
LEMMA ListHead ==
  ASSUME NEW f, NEW c, NEW s, IsList(f, c, s)
  PROVE  c \in Chunks \union {NULL} /\ (c = NULL <=> s = <<>>)
<1>1. s \in Seq(Chunks) /\ c = Nth(s, 1)
  BY DEF IsList
<1>2. c \in Chunks \union {NULL}
  BY <1>1, NthType
<1>3. c = NULL => s = <<>>
  BY EmptyList
<1>4. s = <<>> => c = NULL
  BY <1>1 DEF Nth
<1> QED
  BY <1>2, <1>3, <1>4

LEMMA MallocCachedKeeps ==
  ASSUME NEW L, NEW M, NEW at, Sound(L, M, at), NEW t \in Threads, NEW b \in Bins,
         Malloc(t, b), NEW s, s = tcache[t][b], s # <<>>
  PROVE  Keeps(L, M, at)
<1> DEFINE c == Head(s)
           as == [at EXCEPT ![c] = Client]
<1>1. /\ s \in Seq(Chunks) /\ IsInjective(s) /\ thread[t].pc = "idle" /\ Local(t, at)
      /\ L \in [Bins -> Seq(Chunks)] /\ M \in [Threads -> Seq(Chunks)]
  BY DEF Sound, TypeOK, Linking, Malloc, Call, At
<1>2. /\ c \in ToSet(s) /\ c \in Chunks /\ Tail(s) \in Seq(Chunks) /\ IsInjective(Tail(s))
      /\ ToSet(Tail(s)) = ToSet(s) \ {c}
  BY <1>1, TailOfInjective, ToSetProperties
<1> HIDE DEF c
<1>3. at[c] = Cached(t, b)
  BY <1>2 DEF Sound, Owned, Located
<1>4. /\ tcache' = [tcache EXCEPT ![t] = [tcache[t] EXCEPT ![b] = Tail(s)]] /\ held' = held \union {c}
      /\ UNCHANGED <<fastbins, fd, have_fastchunks, mutex, arena, thread, aborted>>
  BY <1>1 DEF Malloc, c
<1>5. \A u \in Threads, a \in Bins : tcache'[u][a] = IF u = t /\ a = b THEN Tail(s) ELSE tcache[u][a]
  BY <1>4 DEF Sound, TypeOK
<1>6. TypeOK'
  <2>1. calls' \in [Threads -> Nat]
    BY DEF Malloc, Call, Sound, TypeOK
  <2>2. tcache' \in [Threads -> [Bins -> Seq(Chunks)]]
    BY <1>2, <1>4 DEF Sound, TypeOK
  <2> QED
    BY <1>2, <1>4, <2>1, <2>2 DEF Sound, TypeOK
<1>7. as \in [Chunks -> Places] /\ \A x \in Chunks : as[x] = IF x = c THEN Client ELSE at[x]
  BY <1>2, PlacesExist DEF Sound
<1> HIDE DEF as
<1>8. Owned(L, M, as)'
  <2> SUFFICES ASSUME NEW x \in Chunks PROVE Located(x, as[x], L, M)'
    BY DEF Owned
  <2>1. /\ Located(x, at[x], L, M)
        /\ \A u \in Threads : Freeing(u)' /\ thread'[u].p = x <=> Freeing(u) /\ thread[u].p = x
        /\ \A u \in Threads, a \in Bins : x \in ToSet(tcache'[u][a]) <=>
                              x \in ToSet(tcache[u][a]) /\ ~ (x = c /\ u = t /\ a = b)
    BY <1>2, <1>4, <1>5 DEF Sound, Owned, Freeing
  <2>2. CASE x = c
    <3>1. Located(c, Cached(t, b), L, M) /\ as[x] = Client
      BY <1>3, <1>7, <2>1, <2>2
    <3>2. Located(c, Client, L, M)'
      BY <1>4, <2>1, <2>2, <3>1, PlacesDiffer DEF Located
    <3> QED
      BY <2>2, <3>1, <3>2
  <2>3. CASE x # c
    <3>1. Located(x, at[x], L, M)'
      BY <1>4, <2>1, <2>3, Unmoved
    <3> QED
      BY <1>7, <2>3, <3>1
  <2> QED
    BY <2>2, <2>3
<1>9. ASSUME NEW a \in Bins PROVE IsList(fd', fastbins'[a], L[a])
  BY <1>4 DEF Sound, Linking
<1>10. Local(t, as)'
  BY <1>1, <1>4 DEF Local, Freeing, Merging, Locked
<1>11. IF Merging(t)' THEN IsList(fd', thread'[t].p, M[t]) ELSE M[t] = <<>>
  BY <1>1, <1>4 DEF Merging, Sound, Linking
<1>12. Moves(L, L)
  <2>1. c \notin held /\ \A a \in Bins : c \notin ToSet(L[a])
    BY <1>2, <1>3, PlacesDiffer DEF Sound, Owned, Located
  <2> QED
    BY <1>2, <1>4, <2>1 DEF Moves
<1>13. \A a \in Bins : IsInjective(tcache'[t][a])
  BY <1>2, <1>5 DEF Sound, Linking
<1>14. \A x \in Chunks : (fd'[x] = fd[x] /\ as[x] = at[x]) \/ Reach(t, at[x])
  BY <1>3, <1>4, <1>7 DEF Reach
<1>15. \A u \in Threads \ {t} : thread'[u] = thread[u] /\ tcache'[u] = tcache[u] /\ (mutex' = u <=> mutex = u)
  BY <1>4 DEF Sound, TypeOK
<1> QED
  BY <1>1, <1>6, <1>7, <1>8, <1>9, <1>10, <1>11, <1>12, <1>13, <1>14, <1>15, MoveStep

(* What a thread that holds the lock finds first in a bin. *)
First(L, M, at, t, b, p) ==
  /\ b \in Bins /\ p \in Chunks /\ at[p] = InBin(b) /\ Index[p] = b /\ mutex = t
  /\ thread[t].pc = "pop" /\ thread[t].next = fd[p] /\ fd[p] \in Chunks \union {NULL}
  /\ L \in [Bins -> Seq(Chunks)] /\ M \in [Threads -> Seq(Chunks)] /\ M[t] = <<>>
  /\ L[b] # <<>> /\ Tail(L[b]) \in Seq(Chunks) /\ IsList(fd, fd[p], Tail(L[b]))
  /\ p \notin ToSet(Tail(L[b])) /\ ToSet(L[b]) = {p} \union ToSet(Tail(L[b]))

LEMMA FirstOfBin ==
  ASSUME NEW L, NEW M, NEW at, Sound(L, M, at), NEW t \in Threads, Pop(t)
  PROVE  First(L, M, at, t, thread[t].b, thread[t].p)
<1> DEFINE b == thread[t].b
           p == thread[t].p
<1>1. /\ thread[t].pc = "pop" /\ fastbins[b] = p /\ b \in Bins /\ Local(t, at)
      /\ p \in Chunks /\ at[p] = InBin(b) /\ thread[t].next = fd[p] /\ mutex = t
  BY DEF Sound, TypeOK, Pop, At, Local, Thread, Locked
<1>2. L \in [Bins -> Seq(Chunks)] /\ M \in [Threads -> Seq(Chunks)] /\ M[t] = <<>> /\ IsList(fd, p, L[b])
  BY <1>1 DEF Sound, Linking, Merging
<1> HIDE DEF b, p
<1>3. Index[p] = b
  BY <1>1 DEF Sound, Owned, Located
<1>4. p # NULL
  BY <1>1, PtFastbinsAssumption
<1>5. /\ L[b] # <<>> /\ p \in ToSet(L[b]) /\ IsList(fd, fd[p], Tail(L[b]))
      /\ ToSet(Tail(L[b])) = ToSet(L[b]) \ {p}
  BY <1>2, <1>4, PopList
<1>6. Tail(L[b]) \in Seq(Chunks)
  BY <1>5 DEF IsList
<1>7. fd[p] \in Chunks \union {NULL}
  BY <1>5, ListHead
<1>8. First(L, M, at, t, b, p)
  BY <1>1, <1>2, <1>3, <1>5, <1>6, <1>7 DEF First
<1> QED
  BY <1>8 DEF b, p

LEMMA PopKeeps ==
  ASSUME NEW L, NEW M, NEW at, Sound(L, M, at), NEW t \in Threads, Pop(t), thread[t].got = NULL
  PROVE  Keeps(L, M, at)
<1>1. PICK b : b = thread[t].b
  OBVIOUS
<1>2. PICK p : p = thread[t].p
  OBVIOUS
<1> DEFINE me == [thread[t] EXCEPT !.got = p, !.pc = "more"]
           K == [L EXCEPT ![b] = Tail(L[b])]
           as == [at EXCEPT ![p] = Got(t)]
<1>3. /\ b \in Bins /\ p \in Chunks /\ at[p] = InBin(b) /\ Index[p] = b /\ mutex = t
      /\ thread[t].pc = "pop" /\ thread[t].next = fd[p] /\ fd[p] \in Chunks \union {NULL}
      /\ L \in [Bins -> Seq(Chunks)] /\ M \in [Threads -> Seq(Chunks)] /\ M[t] = <<>>
      /\ L[b] # <<>> /\ Tail(L[b]) \in Seq(Chunks) /\ IsList(fd, fd[p], Tail(L[b]))
      /\ p \notin ToSet(Tail(L[b])) /\ ToSet(L[b]) = {p} \union ToSet(Tail(L[b]))
  <2>1. First(L, M, at, t, b, p)
    BY <1>1, <1>2, FirstOfBin
  <2> QED
    BY <2>1 DEF First
<1>4. thread[t] \in Thread /\ Local(t, at)
  BY DEF Sound, TypeOK
<1>5. me \in Thread /\ me.got = p /\ me.pc = "more" /\ me.b = b /\ me.p = p /\ me.fb = thread[t].fb
  BY <1>1, <1>2, <1>3, <1>4 DEF Thread, Locked
<1>6. /\ thread' = [thread EXCEPT ![t] = me] /\ fastbins' = [fastbins EXCEPT ![b] = fd[p]]
      /\ UNCHANGED <<fd, have_fastchunks, mutex, arena, tcache, held, calls, aborted>>
  BY <1>1, <1>2, <1>3 DEF Pop
<1> HIDE DEF me
<1>7. /\ thread'[t] = me /\ \A u \in Threads \ {t} : thread'[u] = thread[u]
      /\ thread' \in [Threads -> Thread]
  BY <1>5, <1>6 DEF Sound, TypeOK
<1>8. TypeOK'
  BY <1>3, <1>6, <1>7 DEF Sound, TypeOK
<1>9. as \in [Chunks -> Places] /\ \A x \in Chunks : as[x] = IF x = p THEN Got(t) ELSE at[x]
  BY <1>3, PlacesExist DEF Sound
<1>10. K \in [Bins -> Seq(Chunks)] /\ \A a \in Bins : K[a] = IF a = b THEN Tail(L[b]) ELSE L[a]
  BY <1>3
<1> HIDE DEF as, K
<1>11. Owned(K, M, as)'
  <2> SUFFICES ASSUME NEW x \in Chunks PROVE Located(x, as[x], K, M)'
    BY DEF Owned
  <2>1. Located(x, at[x], L, M) /\ x \notin ToSet(M[t])
    BY <1>3 DEF Sound, Owned, ToSet
  <2>2. \A u \in Threads : /\ (thread'[u].got = x) <=> (thread[u].got = x \/ (u = t /\ x = p))
                           /\ (Freeing(u)' /\ thread'[u].p = x) <=> (Freeing(u) /\ thread[u].p = x)
                           /\ thread'[u].fb = thread[u].fb
    BY <1>2, <1>3, <1>5, <1>7, PtFastbinsAssumption DEF Freeing
  <2>3. \A a \in Bins : x \in ToSet(K[a]) <=> x \in ToSet(L[a]) /\ ~ (x = p /\ a = b)
    BY <1>3, <1>10
  <2>4. CASE x = p
    <3>1. Located(p, InBin(b), L, M) /\ as[x] = Got(t)
      BY <1>3, <1>9, <2>1, <2>4
    <3>2. Located(p, Got(t), K, M)'
      BY <1>3, <1>6, <2>2, <2>3, <2>4, <3>1, PlacesDiffer DEF Located
    <3> QED
      BY <2>4, <3>1, <3>2
  <2>5. CASE x # p
    <3>1. Located(x, at[x], K, M)'
      BY <1>6, <2>1, <2>2, <2>3, <2>5, Unmoved
    <3> QED
      BY <1>9, <2>5, <3>1
  <2> QED
    BY <2>4, <2>5
<1>12. ASSUME NEW a \in Bins PROVE IsList(fd', fastbins'[a], K[a])
  <2>1. fd' = fd /\ fastbins'[a] = IF a = b THEN fd[p] ELSE fastbins[a]
    BY <1>3, <1>6 DEF Sound, TypeOK
  <2> QED
    BY <1>3, <1>10, <2>1 DEF Sound, Linking
<1>13. Local(t, as)'
  BY <1>3, <1>4, <1>5, <1>6, <1>7 DEF Local, Freeing, Merging, Locked
<1>14. (IF Merging(t)' THEN IsList(fd', thread'[t].p, M[t]) ELSE M[t] = <<>>) /\ M \in [Threads -> Seq(Chunks)]
  BY <1>3, <1>5, <1>7 DEF Merging
<1>15. Moves(L, K)
  BY <1>3, <1>6 DEF Moves, K
<1>16. \A a \in Bins : IsInjective(tcache'[t][a])
  BY <1>6 DEF Sound, Linking
<1>17. \A x \in Chunks : (fd'[x] = fd[x] /\ as[x] = at[x]) \/ Reach(t, at[x])
  BY <1>3, <1>6, <1>9 DEF Reach
<1>18. \A u \in Threads \ {t} : tcache'[u] = tcache[u] /\ (mutex' = u <=> mutex = u)
  BY <1>6
<1> QED
  BY <1>7, <1>8, <1>9, <1>10, <1>11, <1>12, <1>13, <1>14, <1>15, <1>16, <1>17, <1>18, MoveStep

LEMMA PopMoreKeeps ==
  ASSUME NEW L, NEW M, NEW at, Sound(L, M, at), NEW t \in Threads, Pop(t), thread[t].got # NULL
  PROVE  Keeps(L, M, at)
<1>1. PICK b : b = thread[t].b
  OBVIOUS
<1>2. PICK p : p = thread[t].p
  OBVIOUS
<1> DEFINE me == [thread[t] EXCEPT !.pc = "more"]
           K == [L EXCEPT ![b] = Tail(L[b])]
           as == [at EXCEPT ![p] = Cached(t, b)]
           kept == <<p>> \o tcache[t][b]
<1>3. /\ b \in Bins /\ p \in Chunks /\ at[p] = InBin(b) /\ Index[p] = b /\ mutex = t
      /\ thread[t].pc = "pop" /\ thread[t].next = fd[p] /\ fd[p] \in Chunks \union {NULL}
      /\ L \in [Bins -> Seq(Chunks)] /\ M \in [Threads -> Seq(Chunks)] /\ M[t] = <<>>
      /\ L[b] # <<>> /\ Tail(L[b]) \in Seq(Chunks) /\ IsList(fd, fd[p], Tail(L[b]))
      /\ p \notin ToSet(Tail(L[b])) /\ ToSet(L[b]) = {p} \union ToSet(Tail(L[b]))
  <2>1. First(L, M, at, t, b, p)
    BY <1>1, <1>2, FirstOfBin
  <2> QED
    BY <2>1 DEF First
<1>4. thread[t] \in Thread /\ Local(t, at)
  BY DEF Sound, TypeOK
<1>5. me \in Thread /\ me.got = thread[t].got /\ me.pc = "more" /\ me.b = b /\ me.p = p /\ me.fb = thread[t].fb
  BY <1>1, <1>2, <1>3, <1>4 DEF Thread, Locked
<1>6. /\ thread' = [thread EXCEPT ![t] = me] /\ fastbins' = [fastbins EXCEPT ![b] = fd[p]]
      /\ fd' = [fd EXCEPT ![p] = Garbage] /\ tcache' = [tcache EXCEPT ![t] = [tcache[t] EXCEPT ![b] = kept]]
      /\ UNCHANGED <<have_fastchunks, mutex, arena, held, calls, aborted>>
  BY <1>1, <1>2, <1>3 DEF Pop, Keep
<1>7. kept \in Seq(Chunks) /\ IsInjective(kept) /\ ToSet(kept) = {p} \union ToSet(tcache[t][b])
  <2>1. /\ tcache[t][b] \in Seq(Chunks) /\ IsInjective(tcache[t][b])
        /\ p \notin ToSet(tcache[t][b])
    BY <1>3, PlacesDiffer DEF Sound, TypeOK, Linking, Owned, Located
  <2> QED
    BY <1>3, <2>1, PushList
<1> HIDE DEF me, kept
<1>8. /\ thread'[t] = me /\ \A u \in Threads \ {t} : thread'[u] = thread[u]
      /\ thread' \in [Threads -> Thread]
  BY <1>5, <1>6 DEF Sound, TypeOK
<1>9. \A u \in Threads, a \in Bins : tcache'[u][a] = IF u = t /\ a = b THEN kept ELSE tcache[u][a]
  BY <1>3, <1>6 DEF Sound, TypeOK
<1>10. fd'[p] = Garbage /\ \A c \in Chunks : c # p => fd'[c] = fd[c]
  BY <1>3, <1>6 DEF Sound, TypeOK
<1>11. TypeOK'
  <2>1. tcache' \in [Threads -> [Bins -> Seq(Chunks)]]
    BY <1>3, <1>6, <1>7 DEF Sound, TypeOK
  <2>2. fastbins' \in [Bins -> Chunks \union {NULL}] /\ fd' \in [Chunks -> Chunks \union {NULL, Garbage}]
    BY <1>3, <1>6 DEF Sound, TypeOK
  <2> QED
    BY <1>6, <1>8, <2>1, <2>2 DEF Sound, TypeOK
<1>12. as \in [Chunks -> Places] /\ \A x \in Chunks : as[x] = IF x = p THEN Cached(t, b) ELSE at[x]
  BY <1>3, PlacesExist DEF Sound
<1>13. K \in [Bins -> Seq(Chunks)] /\ \A a \in Bins : K[a] = IF a = b THEN Tail(L[b]) ELSE L[a]
  BY <1>3
<1> HIDE DEF as, K
<1>14. Owned(K, M, as)'
  <2> SUFFICES ASSUME NEW x \in Chunks PROVE Located(x, as[x], K, M)'
    BY DEF Owned
  <2>1. Located(x, at[x], L, M) /\ x \notin ToSet(M[t])
    BY <1>3 DEF Sound, Owned, ToSet
  <2>2. \A u \in Threads : /\ thread'[u].got = thread[u].got
                           /\ (Freeing(u)' /\ thread'[u].p = x) <=> (Freeing(u) /\ thread[u].p = x)
                           /\ thread'[u].fb = thread[u].fb
    BY <1>3, <1>5, <1>8 DEF Freeing
  <2>3. \A a \in Bins : x \in ToSet(K[a]) <=> x \in ToSet(L[a]) /\ ~ (x = p /\ a = b)
    BY <1>3, <1>13
  <2>4. \A u \in Threads, a \in Bins : x \in ToSet(tcache'[u][a]) <=>
                                         x \in ToSet(tcache[u][a]) \/ (x = p /\ u = t /\ a = b)
    BY <1>7, <1>9
  <2>5. CASE x = p
    <3>1. Located(p, InBin(b), L, M) /\ as[x] = Cached(t, b)
      BY <1>3, <1>12, <2>1, <2>5
    <3>2. Located(p, Cached(t, b), K, M)'
      BY <1>3, <1>6, <2>2, <2>3, <2>4, <2>5, <3>1, PlacesDiffer DEF Located
    <3> QED
      BY <2>5, <3>1, <3>2
  <2>6. CASE x # p
    <3>1. Located(x, at[x], K, M)'
      BY <1>6, <2>1, <2>2, <2>3, <2>4, <2>6, Unmoved
    <3> QED
      BY <1>12, <2>6, <3>1
  <2> QED
    BY <2>5, <2>6
<1>15. ASSUME NEW a \in Bins PROVE IsList(fd', fastbins'[a], K[a])
  <2>1. fastbins'[a] = IF a = b THEN fd[p] ELSE fastbins[a]
    BY <1>3, <1>6 DEF Sound, TypeOK
  <2>2. CASE a = b
    <3>1. \A x \in ToSet(Tail(L[b])) : fd'[x] = fd[x]
      BY <1>3, <1>10, ToSetProperties
    <3>2. IsList(fd', fd[p], Tail(L[b]))
      BY <1>3, <3>1, SameLinks
    <3> QED
      BY <1>13, <2>1, <2>2, <3>2
  <2>3. CASE a # b
    <3>1. \A x \in Chunks : at[x] = InBin(a) => fd'[x] = fd[x]
      BY <1>3, <1>10, <2>3, PlacesDiffer
    <3>2. IsList(fd', fastbins'[a], L[a])
      BY <2>1, <2>3, <3>1, BinFrame
    <3> QED
      BY <1>13, <2>3, <3>2
  <2> QED
    BY <2>2, <2>3
<1>16. Local(t, as)'
  BY <1>3, <1>4, <1>5, <1>6, <1>8 DEF Local, Freeing, Merging, Locked
<1>17. (IF Merging(t)' THEN IsList(fd', thread'[t].p, M[t]) ELSE M[t] = <<>>) /\ M \in [Threads -> Seq(Chunks)]
  BY <1>3, <1>5, <1>8 DEF Merging
<1>18. Moves(L, K)
  BY <1>3, <1>6 DEF Moves, K
<1>19. \A a \in Bins : IsInjective(tcache'[t][a])
  BY <1>7, <1>9 DEF Sound, Linking
<1>20. \A x \in Chunks : (fd'[x] = fd[x] /\ as[x] = at[x]) \/ Reach(t, at[x])
  BY <1>3, <1>10, <1>12 DEF Reach
<1>21. \A u \in Threads \ {t} : tcache'[u] = tcache[u] /\ (mutex' = u <=> mutex = u)
  BY <1>6 DEF Sound, TypeOK
<1> QED
  BY <1>8, <1>11, <1>12, <1>13, <1>14, <1>15, <1>16, <1>17, <1>18, <1>19, <1>20, <1>21, MoveStep

LEMMA UnlockKeeps ==
  ASSUME NEW L, NEW M, NEW at, Sound(L, M, at), NEW t \in Threads, Unlock(t), thread[t].got # NULL
  PROVE  Keeps(L, M, at)
<1>1. PICK c : c = thread[t].got
  OBVIOUS
<1> DEFINE as == [at EXCEPT ![c] = Client]
<1>2. /\ thread[t].pc = "unlock" /\ mutex = t /\ Local(t, at) /\ c \in Chunks /\ at[c] = Got(t)
      /\ L \in [Bins -> Seq(Chunks)] /\ M \in [Threads -> Seq(Chunks)] /\ M[t] = <<>>
  <2>1. thread[t].pc = "unlock" /\ Local(t, at) /\ thread[t] \in Thread
    BY DEF Unlock, At, Sound, TypeOK
  <2>2. mutex = t /\ c \in Chunks
    BY <1>1, <2>1 DEF Local, Locked, Thread
  <2>3. L \in [Bins -> Seq(Chunks)] /\ M \in [Threads -> Seq(Chunks)] /\ M[t] = <<>>
    BY <2>1 DEF Sound, Linking, Merging
  <2>4. at[c] = Got(t)
    BY <1>1, <2>2 DEF Sound, Owned, Located
  <2> QED
    BY <2>1, <2>2, <2>3, <2>4
<1>3. /\ thread' = [thread EXCEPT ![t] = Idle] /\ mutex' = NoThread /\ held' = held \union {c}
      /\ fd' = [x \in Chunks |-> IF x = c THEN Garbage ELSE fd[x]]
      /\ UNCHANGED <<fastbins, have_fastchunks, arena, tcache, calls, aborted>>
  BY <1>1 DEF Unlock
<1>4. /\ thread'[t] = Idle /\ \A u \in Threads \ {t} : thread'[u] = thread[u]
      /\ thread' \in [Threads -> Thread]
  BY <1>3, IdleThread DEF Sound, TypeOK
<1>5. \A x \in Chunks : x # c => fd'[x] = fd[x]
  BY <1>3
<1>6. TypeOK'
  <2>1. fd' \in [Chunks -> Chunks \union {NULL, Garbage}]
    BY <1>3 DEF Sound, TypeOK
  <2> QED
    BY <1>2, <1>3, <1>4, <2>1 DEF Sound, TypeOK
<1>7. as \in [Chunks -> Places] /\ \A x \in Chunks : as[x] = IF x = c THEN Client ELSE at[x]
  BY <1>2, PlacesExist DEF Sound
<1> HIDE DEF as
<1>8. Owned(L, M, as)'
  <2> SUFFICES ASSUME NEW x \in Chunks PROVE Located(x, as[x], L, M)'
    BY DEF Owned
  <2>1. Located(x, at[x], L, M) /\ x \notin ToSet(M[t]) /\ x # NULL
    BY <1>2, PtFastbinsAssumption DEF Sound, Owned, ToSet
  <2>2. \A u \in Threads : /\ (thread'[u].got = x) <=> (thread[u].got = x /\ ~ (u = t /\ x = c))
                           /\ (Freeing(u)' /\ thread'[u].p = x) <=> (Freeing(u) /\ thread[u].p = x)
                           /\ x \in ToSet(M[u]) => thread'[u].fb = thread[u].fb
    BY <1>1, <1>2, <1>4, <2>1, IdleThread DEF Freeing
  <2>3. CASE x = c
    <3>1. Located(c, Got(t), L, M) /\ as[x] = Client
      BY <1>2, <1>7, <2>1, <2>3
    <3>2. Located(c, Client, L, M)'
      BY <1>3, <2>2, <2>3, <3>1, PlacesDiffer DEF Located
    <3> QED
      BY <2>3, <3>1, <3>2
  <2>4. CASE x # c
    <3>1. Located(x, at[x], L, M)'
      BY <1>3, <2>1, <2>2, <2>4, Unmoved
    <3> QED
      BY <1>7, <2>4, <3>1
  <2> QED
    BY <2>3, <2>4
<1>9. ASSUME NEW b \in Bins PROVE IsList(fd', fastbins'[b], L[b])
  <2>1. \A x \in Chunks : at[x] = InBin(b) => fd'[x] = fd[x]
    BY <1>2, <1>5, PlacesDiffer
  <2>2. fastbins'[b] = fastbins[b]
    BY <1>3
  <2> QED
    BY <2>1, <2>2, BinFrame
<1>10. Local(t, as)'
  BY <1>3, <1>4, IdleThread, PtFastbinsAssumption DEF Local, Freeing, Merging, Locked
<1>11. (IF Merging(t)' THEN IsList(fd', thread'[t].p, M[t]) ELSE M[t] = <<>>)
  BY <1>2, <1>4, IdleThread DEF Merging
<1>12. Moves(L, L) /\ L \in [Bins -> Seq(Chunks)] /\ M \in [Threads -> Seq(Chunks)]
  <2>1. c \notin held /\ \A b \in Bins : c \notin ToSet(L[b])
    BY <1>2, PlacesDiffer DEF Sound, Owned, Located
  <2> QED
    BY <1>2, <1>3, <2>1 DEF Moves
<1>13. \A b \in Bins : IsInjective(tcache'[t][b])
  BY <1>3 DEF Sound, Linking
<1>14. \A x \in Chunks : (fd'[x] = fd[x] /\ as[x] = at[x]) \/ Reach(t, at[x])
  BY <1>2, <1>5, <1>7 DEF Reach
<1>15. \A u \in Threads \ {t} : tcache'[u] = tcache[u] /\ (mutex' = u <=> mutex = u)
  BY <1>2, <1>3, PtFastbinsAssumption
<1> QED
  BY <1>4, <1>6, <1>7, <1>8, <1>9, <1>10, <1>11, <1>12, <1>13, <1>14, <1>15, MoveStep

(* SetToSeq lists a set without repetition. *)
LEMMA SetToSeqLists ==
  ASSUME NEW S \in SUBSET Chunks
  PROVE  SetToSeq(S) \in Seq(Chunks) /\ IsInjective(SetToSeq(S)) /\ ToSet(SetToSeq(S)) = S
<1> DEFINE n == Cardinality(S)
           f == SetToSeq(S)
<1>1. IsFiniteSet(S) /\ n \in Nat /\ ExistsBijection(1 .. n, S)
  BY PtFastbinsAssumption, FS_Subset, FS_CardinalityType
<1>2. \E g \in [1 .. n -> S] : IsInjective(g)
  BY <1>1 DEF ExistsBijection, Bijection, Injection, IsInjective
<1>3. f \in [1 .. n -> S] /\ IsInjective(f)
  BY <1>2 DEF SetToSeq
<1> HIDE DEF f
<1>4. f \in Seq(Chunks)
  BY <1>1, <1>3
<1>5. f \in Injection(1 .. n, S)
  BY <1>3 DEF Injection, IsInjective
<1>6. IsFiniteSet(1 .. n) /\ Cardinality(1 .. n) = n
  <2>1. 1 \in Int /\ n \in Int
    BY <1>1
  <2>2. IsFiniteSet(1 .. n) /\ Cardinality(1 .. n) = IF 1 > n THEN 0 ELSE n - 1 + 1
    BY <2>1, FS_Interval
  <2> HIDE DEF n
  <2> QED
    BY <1>1, <2>2
<1>7. f \in Surjection(1 .. n, S)
  BY <1>1, <1>5, <1>6, FS_Injection
<1>8. ToSet(f) = S
  BY <1>3, <1>7 DEF Surjection, ToSet
<1> QED
  BY <1>3, <1>4, <1>8 DEF f

LEMMA JoinLists ==
  ASSUME NEW r \in Seq(Chunks), NEW s \in Seq(Chunks), IsInjective(r), IsInjective(s),
         \A c \in ToSet(r) : c \notin ToSet(s)
  PROVE  r \o s \in Seq(Chunks) /\ IsInjective(r \o s) /\ ToSet(r \o s) = ToSet(r) \union ToSet(s)
<1> DEFINE q == r \o s
<1>1. /\ q \in Seq(Chunks) /\ Len(r) \in Nat /\ Len(s) \in Nat /\ Len(q) = Len(r) + Len(s)
      /\ \A k \in 1 .. Len(r) : q[k] = r[k]
      /\ \A k \in 1 .. Len(s) : q[Len(r) + k] = s[k]
  BY ConcatProperties
<1> HIDE DEF q
<1>2. \A k \in 1 .. Len(q) : \/ k \in 1 .. Len(r) /\ q[k] = r[k]
                             \/ k - Len(r) \in 1 .. Len(s) /\ q[k] = s[k - Len(r)]
  <2> SUFFICES ASSUME NEW k \in 1 .. Len(q), k \notin 1 .. Len(r)
               PROVE  k - Len(r) \in 1 .. Len(s) /\ q[k] = s[k - Len(r)]
    BY <1>1
  <2>1. k - Len(r) \in 1 .. Len(s) /\ Len(r) + (k - Len(r)) = k
    BY <1>1
  <2> QED
    BY <1>1, <2>1
<1>3. /\ \A c : c \in ToSet(q) <=> \E k \in 1 .. Len(q) : q[k] = c
      /\ \A c : c \in ToSet(r) <=> \E k \in 1 .. Len(r) : r[k] = c
      /\ \A c : c \in ToSet(s) <=> \E k \in 1 .. Len(s) : s[k] = c
  BY <1>1, ToSetProperties
<1>4. /\ \A k \in 1 .. Len(r) : k \in 1 .. Len(q)
      /\ \A k \in 1 .. Len(s) : Len(r) + k \in 1 .. Len(q)
  BY <1>1
<1>5. ToSet(q) = ToSet(r) \union ToSet(s)
  <2>1. \A c \in ToSet(q) : c \in ToSet(r) \/ c \in ToSet(s)
    BY <1>2, <1>3
  <2>2. \A c \in ToSet(r) : c \in ToSet(q)
    BY <1>1, <1>3, <1>4
  <2>3. \A c \in ToSet(s) : c \in ToSet(q)
    BY <1>1, <1>3, <1>4
  <2> QED
    BY <2>1, <2>2, <2>3
<1>6. IsInjective(q)
  <2>1. DOMAIN q = 1 .. Len(q) /\ DOMAIN r = 1 .. Len(r) /\ DOMAIN s = 1 .. Len(s)
    BY <1>1
  <2> SUFFICES ASSUME NEW j \in 1 .. Len(q), NEW k \in 1 .. Len(q), q[j] = q[k] PROVE j = k
    BY <2>1 DEF IsInjective
  <2>2. ~ (j \in 1 .. Len(r) /\ q[j] = r[j] /\ k - Len(r) \in 1 .. Len(s) /\ q[k] = s[k - Len(r)])
    BY <1>3
  <2>3. ~ (k \in 1 .. Len(r) /\ q[k] = r[k] /\ j - Len(r) \in 1 .. Len(s) /\ q[j] = s[j - Len(r)])
    BY <1>3
  <2>4. CASE j \in 1 .. Len(r) /\ q[j] = r[j] /\ k \in 1 .. Len(r) /\ q[k] = r[k]
    BY <2>1, <2>4 DEF IsInjective
  <2>5. CASE /\ j - Len(r) \in 1 .. Len(s) /\ q[j] = s[j - Len(r)]
             /\ k - Len(r) \in 1 .. Len(s) /\ q[k] = s[k - Len(r)]
    <3>1. j - Len(r) = k - Len(r)
      BY <2>1, <2>5 DEF IsInjective
    <3>2. j \in Int /\ k \in Int
      OBVIOUS
    <3> QED
      BY <1>1, <3>1, <3>2
  <2> QED
    BY <1>2, <2>2, <2>3, <2>4, <2>5
<1> QED
  BY <1>1, <1>5, <1>6 DEF q

LEMMA SearchKeeps ==
  ASSUME NEW L, NEW M, NEW at, Sound(L, M, at), NEW t \in Threads, Search(t)
  PROVE  Keeps(L, M, at)
<1>1. PICK b : b = thread[t].b
  OBVIOUS
<1>2. \E c \in Fits(t) : \E rest \in SUBSET (Fits(t) \ {c}) :
         /\ arena' = arena \ (rest \union {c})
         /\ tcache' = [tcache EXCEPT ![t] = [tcache[t] EXCEPT ![b] = SetToSeq(rest) \o tcache[t][b]]]
         /\ thread' = [thread EXCEPT ![t] = [thread[t] EXCEPT !.got = c, !.pc = "unlock"]]
  BY <1>1 DEF Search
<1>3. PICK c \in Fits(t) : \E rest \in SUBSET (Fits(t) \ {c}) :
         /\ arena' = arena \ (rest \union {c})
         /\ tcache' = [tcache EXCEPT ![t] = [tcache[t] EXCEPT ![b] = SetToSeq(rest) \o tcache[t][b]]]
         /\ thread' = [thread EXCEPT ![t] = [thread[t] EXCEPT !.got = c, !.pc = "unlock"]]
  BY <1>2
<1>4. PICK rest \in SUBSET (Fits(t) \ {c}) :
         /\ arena' = arena \ (rest \union {c})
         /\ tcache' = [tcache EXCEPT ![t] = [tcache[t] EXCEPT ![b] = SetToSeq(rest) \o tcache[t][b]]]
         /\ thread' = [thread EXCEPT ![t] = [thread[t] EXCEPT !.got = c, !.pc = "unlock"]]
  BY <1>3
<1> DEFINE me == [thread[t] EXCEPT !.got = c, !.pc = "unlock"]
           kept == SetToSeq(rest) \o tcache[t][b]
           as == [x \in Chunks |-> IF x = c THEN Got(t) ELSE IF x \in rest THEN Cached(t, b) ELSE at[x]]
<1>5. /\ thread[t].pc = "search" /\ thread[t] \in Thread /\ b \in Bins /\ Local(t, at) /\ mutex = t
      /\ thread[t].got = NULL
      /\ L \in [Bins -> Seq(Chunks)] /\ M \in [Threads -> Seq(Chunks)] /\ M[t] = <<>>
  <2>1. thread[t].pc = "search" /\ thread[t] \in Thread /\ Local(t, at)
    BY DEF Search, At, Sound, TypeOK
  <2>2. b \in Bins /\ mutex = t /\ thread[t].got = NULL
    BY <1>1, <2>1 DEF Thread, Local, Locked
  <2>3. L \in [Bins -> Seq(Chunks)] /\ M \in [Threads -> Seq(Chunks)] /\ M[t] = <<>>
    BY <2>1 DEF Sound, Linking, Merging
  <2> QED
    BY <2>1, <2>2, <2>3
<1>6. /\ c \in Chunks /\ rest \in SUBSET Chunks /\ c \notin rest /\ at[c] = Arena
      /\ \A x \in rest : at[x] = Arena
  BY DEF Fits, Sound, TypeOK, Owned, Located
<1>7. /\ kept \in Seq(Chunks) /\ IsInjective(kept) /\ ToSet(kept) = rest \union ToSet(tcache[t][b])
  <2>1. SetToSeq(rest) \in Seq(Chunks) /\ IsInjective(SetToSeq(rest)) /\ ToSet(SetToSeq(rest)) = rest
    BY <1>6, SetToSeqLists
  <2>2. tcache[t][b] \in Seq(Chunks) /\ IsInjective(tcache[t][b])
    BY <1>5 DEF Sound, TypeOK, Linking
  <2>3. \A x \in rest : x \notin ToSet(tcache[t][b])
    BY <1>5, <1>6, PlacesDiffer DEF Sound, Owned, Located
  <2> QED
    BY <2>1, <2>2, <2>3, JoinLists
<1>8. me \in Thread /\ me.got = c /\ me.pc = "unlock" /\ me.p = thread[t].p /\ me.fb = thread[t].fb
  BY <1>5, <1>6 DEF Thread, Locked
<1>9. /\ thread' = [thread EXCEPT ![t] = me] /\ arena' = arena \ (rest \union {c})
      /\ tcache' = [tcache EXCEPT ![t] = [tcache[t] EXCEPT ![b] = kept]]
      /\ UNCHANGED <<fastbins, fd, have_fastchunks, mutex, held, calls, aborted>>
  BY <1>4 DEF Search
<1> HIDE DEF me, kept
<1>10. /\ thread'[t] = me /\ \A u \in Threads \ {t} : thread'[u] = thread[u]
      /\ thread' \in [Threads -> Thread]
  BY <1>8, <1>9 DEF Sound, TypeOK
<1>11. \A u \in Threads, a \in Bins : tcache'[u][a] = IF u = t /\ a = b THEN kept ELSE tcache[u][a]
  BY <1>5, <1>9 DEF Sound, TypeOK
<1>12. TypeOK'
  <2>1. tcache' \in [Threads -> [Bins -> Seq(Chunks)]]
    BY <1>5, <1>7, <1>9 DEF Sound, TypeOK
  <2> QED
    BY <1>9, <1>10, <2>1 DEF Sound, TypeOK
<1>13. /\ as \in [Chunks -> Places]
       /\ \A x \in Chunks : as[x] = IF x = c THEN Got(t) ELSE IF x \in rest THEN Cached(t, b) ELSE at[x]
  BY <1>5, PlacesExist DEF Sound
<1> HIDE DEF as
<1>14. Owned(L, M, as)'
  <2> SUFFICES ASSUME NEW x \in Chunks PROVE Located(x, as[x], L, M)'
    BY DEF Owned
  <2>1. Located(x, at[x], L, M) /\ x \notin ToSet(M[t]) /\ x # NULL
    BY <1>5, PtFastbinsAssumption DEF Sound, Owned, ToSet
  <2>2. \A u \in Threads : /\ (thread'[u].got = x) <=> (thread[u].got = x \/ (u = t /\ x = c))
                           /\ (Freeing(u)' /\ thread'[u].p = x) <=> (Freeing(u) /\ thread[u].p = x)
                           /\ thread'[u].fb = thread[u].fb
    BY <1>5, <1>8, <1>10, <2>1 DEF Freeing
  <2>3. \A u \in Threads, a \in Bins : x \in ToSet(tcache'[u][a]) <=>
                                         x \in ToSet(tcache[u][a]) \/ (x \in rest /\ u = t /\ a = b)
    BY <1>7, <1>11
  <2>4. CASE x = c
    <3>1. Located(c, Arena, L, M) /\ as[x] = Got(t)
      BY <1>6, <1>13, <2>1, <2>4
    <3>2. Located(c, Got(t), L, M)'
      BY <1>6, <1>9, <2>2, <2>3, <2>4, <3>1, PlacesDiffer DEF Located
    <3> QED
      BY <2>4, <3>1, <3>2
  <2>5. CASE x \in rest
    <3>1. Located(x, Arena, L, M) /\ as[x] = Cached(t, b)
      BY <1>6, <1>13, <2>1, <2>5
    <3>2. Located(x, Cached(t, b), L, M)'
      BY <1>6, <1>9, <2>2, <2>3, <2>5, <3>1, PlacesDiffer DEF Located
    <3> QED
      BY <3>1, <3>2
  <2>6. CASE x # c /\ x \notin rest
    <3>1. Located(x, at[x], L, M)'
      BY <1>9, <2>1, <2>2, <2>3, <2>6, Unmoved
    <3> QED
      BY <1>13, <2>6, <3>1
  <2> QED
    BY <2>4, <2>5, <2>6
<1>15. ASSUME NEW a \in Bins PROVE IsList(fd', fastbins'[a], L[a])
  BY <1>9 DEF Sound, Linking
<1>16. Local(t, as)'
  BY <1>5, <1>8, <1>9, <1>10 DEF Local, Freeing, Merging, Locked
<1>17. (IF Merging(t)' THEN IsList(fd', thread'[t].p, M[t]) ELSE M[t] = <<>>)
  BY <1>5, <1>8, <1>10 DEF Merging
<1>18. Moves(L, L) /\ L \in [Bins -> Seq(Chunks)] /\ M \in [Threads -> Seq(Chunks)]
  BY <1>5, <1>9 DEF Moves
<1>19. \A a \in Bins : IsInjective(tcache'[t][a])
  BY <1>7, <1>11 DEF Sound, Linking
<1>20. \A x \in Chunks : (fd'[x] = fd[x] /\ as[x] = at[x]) \/ Reach(t, at[x])
  BY <1>6, <1>9, <1>13 DEF Reach
<1>21. \A u \in Threads \ {t} : tcache'[u] = tcache[u] /\ (mutex' = u <=> mutex = u)
  BY <1>9 DEF Sound, TypeOK
<1> QED
  BY <1>10, <1>12, <1>13, <1>14, <1>15, <1>16, <1>17, <1>18, <1>19, <1>20, <1>21, MoveStep

(* Where a thread goes on from a bin. *)
LEMMA OnwardThread ==
  ASSUME NEW me \in Thread, NEW p \in Chunks \union {NULL}
  PROVE  LET on == Onward(me, p)
         IN /\ on \in Thread /\ on.got = me.got /\ on.pc \in {"merge", "exchange", "search", "unlock"}
            /\ p # NULL => on.pc = "merge" /\ on.p = p /\ on.fb = me.fb
            /\ p = NULL => on.pc # "merge"
<1>1. CASE p # NULL
  BY <1>1 DEF Onward, Thread, Locked
<1>2. CASE p = NULL /\ me.fb < NFASTBINS - 1
  <2>1. me.fb + 1 \in Bins
    BY <1>2, PtFastbinsAssumption DEF Thread, Bins
  <2> QED
    BY <1>2, <2>1 DEF Onward, Thread, Locked
<1>3. CASE p = NULL /\ ~ (me.fb < NFASTBINS - 1)
  BY <1>3 DEF Onward, Thread, Locked
<1> QED
  BY <1>1, <1>2, <1>3

LEMMA ExchangeKeeps ==
  ASSUME NEW L, NEW M, NEW at, Sound(L, M, at), NEW t \in Threads, Exchange(t)
  PROVE  Keeps(L, M, at)
<1>1. PICK b : b = thread[t].fb
  OBVIOUS
<1>2. PICK h : h = fastbins[b]
  OBVIOUS
<1>3. PICK me : me = Onward(thread[t], h)
  OBVIOUS
<1> DEFINE K == [L EXCEPT ![b] = <<>>]
           N == [M EXCEPT ![t] = L[b]]
           as == [x \in Chunks |-> IF at[x] = InBin(b) THEN Merged(t) ELSE at[x]]
<1>4. /\ thread[t].pc = "exchange" /\ thread[t] \in Thread /\ b \in Bins /\ Local(t, at) /\ mutex = t
      /\ thread[t].got = NULL /\ h \in Chunks \union {NULL} /\ IsList(fd, h, L[b]) /\ L[b] \in Seq(Chunks)
      /\ L \in [Bins -> Seq(Chunks)] /\ M \in [Threads -> Seq(Chunks)] /\ M[t] = <<>>
  <2>1. thread[t].pc = "exchange" /\ thread[t] \in Thread /\ Local(t, at)
    BY DEF Exchange, At, Sound, TypeOK
  <2>2. b \in Bins /\ mutex = t /\ thread[t].got = NULL
    BY <1>1, <2>1 DEF Thread, Local, Locked
  <2>3. L \in [Bins -> Seq(Chunks)] /\ M \in [Threads -> Seq(Chunks)] /\ M[t] = <<>>
    BY <2>1 DEF Sound, Linking, Merging
  <2>4. IsList(fd, h, L[b])
    BY <1>2, <2>2 DEF Sound, Linking
  <2>5. h \in Chunks \union {NULL}
    BY <2>4, ListHead
  <2> QED
    BY <2>1, <2>2, <2>3, <2>4, <2>5
<1>5. /\ me \in Thread /\ me.got = NULL /\ me.pc \in {"merge", "exchange", "search", "unlock"}
      /\ h # NULL => me.pc = "merge" /\ me.p = h /\ me.fb = b
      /\ h = NULL => me.pc # "merge" /\ L[b] = <<>>
  <2>1. h = NULL => L[b] = <<>>
    BY <1>4, EmptyList
  <2> QED
    BY <1>1, <1>3, <1>4, <2>1, OnwardThread
<1>6. /\ thread' = [thread EXCEPT ![t] = me] /\ fastbins' = [fastbins EXCEPT ![b] = NULL]
      /\ UNCHANGED <<fd, have_fastchunks, mutex, arena, tcache, held, calls, aborted>>
  BY <1>1, <1>2, <1>3 DEF Exchange
<1>7. /\ thread'[t] = me /\ \A u \in Threads \ {t} : thread'[u] = thread[u]
      /\ thread' \in [Threads -> Thread]
  BY <1>5, <1>6 DEF Sound, TypeOK
<1>8. TypeOK'
  BY <1>4, <1>6, <1>7 DEF Sound, TypeOK
<1>9. as \in [Chunks -> Places] /\ \A x \in Chunks : as[x] = IF at[x] = InBin(b) THEN Merged(t) ELSE at[x]
  BY PlacesExist DEF Sound
<1>10. K \in [Bins -> Seq(Chunks)] /\ \A a \in Bins : K[a] = IF a = b THEN <<>> ELSE L[a]
  BY <1>4
<1>11. N \in [Threads -> Seq(Chunks)] /\ \A u \in Threads : N[u] = IF u = t THEN L[b] ELSE M[u]
  BY <1>4
<1> HIDE DEF as, K, N
<1>12. Owned(K, N, as)'
  <2> SUFFICES ASSUME NEW x \in Chunks PROVE Located(x, as[x], K, N)'
    BY DEF Owned
  <2>1. Located(x, at[x], L, M) /\ x \notin ToSet(<<>>) /\ x # NULL
    BY PtFastbinsAssumption DEF Sound, Owned, ToSet
  <2>2. \A u \in Threads : /\ thread'[u].got = thread[u].got
                           /\ (Freeing(u)' /\ thread'[u].p = x) <=> (Freeing(u) /\ thread[u].p = x)
                           /\ x \in ToSet(M[u]) => thread'[u].fb = thread[u].fb
    BY <1>4, <1>5, <1>7, <2>1 DEF Freeing
  <2>3. \A a \in Bins : x \in ToSet(K[a]) <=> x \in ToSet(L[a]) /\ a # b
    BY <1>10, <2>1
  <2>4. \A u \in Threads : x \in ToSet(N[u]) <=> (x \in ToSet(M[u]) \/ (x \in ToSet(L[b]) /\ u = t))
    BY <1>4, <1>11, <2>1
  <2>5. CASE at[x] = InBin(b)
    <3>1. Located(x, InBin(b), L, M) /\ as[x] = Merged(t) /\ x \in ToSet(L[b]) /\ Index[x] = b
      <4>1. Located(x, InBin(b), L, M) /\ as[x] = Merged(t)
        BY <1>9, <2>1, <2>5
      <4>2. x \in ToSet(L[b]) /\ Index[x] = b
        BY <1>4, <4>1 DEF Located
      <4> QED
        BY <4>1, <4>2
    <3>2. thread'[t].fb = b
      BY <1>5, <1>7, <2>1, <3>1
    <3>3. \A a \in Bins : x \notin ToSet(K[a])
      <4>1. \A a \in Bins : x \in ToSet(L[a]) <=> InBin(b) = InBin(a)
        BY <3>1 DEF Located
      <4>2. \A a \in Bins : x \in ToSet(L[a]) => a = b
        BY <4>1, PlacesDiffer
      <4> QED
        BY <2>3, <4>2
    <3>4. \A u \in Threads : x \in ToSet(N[u]) <=> u = t
      BY <2>4, <3>1, PlacesDiffer DEF Located
    <3>5. Located(x, Merged(t), K, N)'
      BY <1>6, <2>2, <3>1, <3>2, <3>3, <3>4, PlacesDiffer DEF Located
    <3> QED
      BY <3>1, <3>5
  <2>6. CASE at[x] # InBin(b)
    <3>1. x \notin ToSet(L[b])
      BY <1>4, <2>1, <2>6 DEF Located
    <3>2. \A a \in Bins : x \in ToSet(K[a]) <=> x \in ToSet(L[a])
      BY <2>3, <3>1
    <3>3. Located(x, at[x], K, N)'
      BY <1>6, <2>1, <2>2, <2>4, <3>1, <3>2, Unmoved
    <3> QED
      BY <1>9, <2>6, <3>3
  <2> QED
    BY <2>5, <2>6
<1>13. ASSUME NEW a \in Bins PROVE IsList(fd', fastbins'[a], K[a])
  <2>1. fd' = fd /\ fastbins'[a] = IF a = b THEN NULL ELSE fastbins[a]
    BY <1>4, <1>6 DEF Sound, TypeOK
  <2>2. IsList(fd, NULL, <<>>)
    BY EmptyList
  <2> QED
    BY <1>10, <2>1, <2>2 DEF Sound, Linking
<1>14. Local(t, as)'
  BY <1>4, <1>5, <1>6, <1>7 DEF Local, Freeing, Merging, Locked
<1>15. IF Merging(t)' THEN IsList(fd', thread'[t].p, N[t]) ELSE N[t] = <<>>
  BY <1>4, <1>5, <1>6, <1>7, <1>11 DEF Merging
<1>16. Moves(L, K)
  BY <1>4, <1>6 DEF Moves, K
<1>17. \A a \in Bins : IsInjective(tcache'[t][a])
  BY <1>6 DEF Sound, Linking
<1>18. \A x \in Chunks : (fd'[x] = fd[x] /\ as[x] = at[x]) \/ Reach(t, at[x])
  BY <1>4, <1>6, <1>9 DEF Reach
<1>19. \A u \in Threads \ {t} : tcache'[u] = tcache[u] /\ N[u] = M[u] /\ (mutex' = u <=> mutex = u)
  BY <1>6, <1>11
<1> QED
  BY <1>7, <1>8, <1>9, <1>10, <1>11, <1>12, <1>13, <1>14, <1>15, <1>16, <1>17, <1>18, <1>19, MoveStep

LEMMA MergeChunkKeeps ==
  ASSUME NEW L, NEW M, NEW at, Sound(L, M, at), NEW t \in Threads, MergeChunk(t)
  PROVE  Keeps(L, M, at)
<1>1. PICK p : p = thread[t].p
  OBVIOUS
<1>2. PICK next : next = fd[p]
  OBVIOUS
<1>3. PICK me : me = Onward(thread[t], next)
  OBVIOUS
<1> DEFINE rest == Tail(M[t])
           N == [M EXCEPT ![t] = rest]
           as == [at EXCEPT ![p] = Arena]
<1>4. /\ thread[t].pc = "merge" /\ thread[t] \in Thread /\ Local(t, at) /\ mutex = t
      /\ thread[t].got = NULL /\ p \in Chunks /\ p # NULL /\ IsList(fd, p, M[t])
      /\ L \in [Bins -> Seq(Chunks)] /\ M \in [Threads -> Seq(Chunks)]
  <2>1. thread[t].pc = "merge" /\ thread[t] \in Thread /\ Local(t, at)
    BY DEF MergeChunk, At, Sound, TypeOK
  <2>2. p \in Chunks /\ p # NULL /\ mutex = t /\ thread[t].got = NULL
    BY <1>1, <2>1, PtFastbinsAssumption DEF Thread, Local, Locked, Merging
  <2>3. L \in [Bins -> Seq(Chunks)] /\ M \in [Threads -> Seq(Chunks)] /\ IsList(fd, p, M[t])
    BY <1>1, <2>1 DEF Sound, Linking, Merging
  <2> QED
    BY <2>1, <2>2, <2>3
<1>5. /\ p \in ToSet(M[t]) /\ IsList(fd, next, rest) /\ ToSet(rest) = ToSet(M[t]) \ {p}
      /\ rest \in Seq(Chunks) /\ next \in Chunks \union {NULL}
  <2>1. p \in ToSet(M[t]) /\ IsList(fd, next, rest) /\ ToSet(rest) = ToSet(M[t]) \ {p}
    BY <1>2, <1>4, PopList
  <2>2. rest \in Seq(Chunks)
    BY <2>1 DEF IsList
  <2>3. next \in Chunks \union {NULL}
    BY <2>1, ListHead
  <2> QED
    BY <2>1, <2>2, <2>3
<1>6. at[p] = Merged(t) /\ Index[p] = thread[t].fb
  BY <1>4, <1>5 DEF Sound, Owned, Located
<1> HIDE DEF rest
<1>7. /\ me \in Thread /\ me.got = NULL /\ me.pc \in {"merge", "exchange", "search", "unlock"}
      /\ next # NULL => me.pc = "merge" /\ me.p = next /\ me.fb = thread[t].fb
      /\ next = NULL => me.pc # "merge" /\ rest = <<>>
  <2>1. next = NULL => rest = <<>>
    BY <1>5, EmptyList
  <2> QED
    BY <1>3, <1>4, <1>5, <2>1, OnwardThread
<1>8. /\ thread' = [thread EXCEPT ![t] = me] /\ fd' = [fd EXCEPT ![p] = Garbage]
      /\ arena' = arena \union {p} /\ aborted' = FALSE
      /\ UNCHANGED <<fastbins, have_fastchunks, mutex, tcache, held, calls>>
  BY <1>1, <1>2, <1>3, <1>6 DEF MergeChunk
<1>9. /\ thread'[t] = me /\ \A u \in Threads \ {t} : thread'[u] = thread[u]
      /\ thread' \in [Threads -> Thread]
  BY <1>7, <1>8 DEF Sound, TypeOK
<1>10. \A c \in Chunks : c # p => fd'[c] = fd[c]
  BY <1>8 DEF Sound, TypeOK
<1>11. TypeOK'
  <2>1. fd' \in [Chunks -> Chunks \union {NULL, Garbage}]
    BY <1>8 DEF Sound, TypeOK
  <2> QED
    BY <1>4, <1>8, <1>9, <2>1 DEF Sound, TypeOK
<1>12. as \in [Chunks -> Places] /\ \A x \in Chunks : as[x] = IF x = p THEN Arena ELSE at[x]
  BY <1>4, PlacesExist DEF Sound
<1>13. N \in [Threads -> Seq(Chunks)] /\ \A u \in Threads : N[u] = IF u = t THEN rest ELSE M[u]
  BY <1>4, <1>5
<1> HIDE DEF as, N
<1>14. Owned(L, N, as)'
  <2> SUFFICES ASSUME NEW x \in Chunks PROVE Located(x, as[x], L, N)'
    BY DEF Owned
  <2>1. Located(x, at[x], L, M) /\ x \notin ToSet(<<>>) /\ x # NULL
    BY PtFastbinsAssumption DEF Sound, Owned, ToSet
  <2>2. \A u \in Threads : /\ thread'[u].got = thread[u].got
                           /\ (Freeing(u)' /\ thread'[u].p = x) <=> (Freeing(u) /\ thread[u].p = x)
                           /\ x \in ToSet(N[u]) => thread'[u].fb = thread[u].fb
    BY <1>4, <1>7, <1>9, <1>13, <2>1 DEF Freeing
  <2>3. \A u \in Threads : x \in ToSet(N[u]) <=> (x \in ToSet(M[u]) /\ ~ (x = p /\ u = t))
    BY <1>5, <1>13
  <2>4. CASE x = p
    <3>1. Located(p, Merged(t), L, M) /\ as[x] = Arena
      BY <1>6, <1>12, <2>1, <2>4
    <3>2. Located(p, Arena, L, N)'
      BY <1>8, <2>2, <2>3, <2>4, <3>1, PlacesDiffer DEF Located
    <3> QED
      BY <2>4, <3>1, <3>2
  <2>5. CASE x # p
    <3>1. \A u \in Threads : x \in ToSet(N[u]) <=> x \in ToSet(M[u])
      BY <2>3, <2>5
    <3>2. \A u \in Threads : x \in ToSet(M[u]) => thread'[u].fb = thread[u].fb
      BY <2>2, <3>1
    <3>3. Located(x, at[x], L, N)'
      BY <1>8, <2>1, <2>2, <2>5, <3>1, <3>2, Unmoved
    <3> QED
      BY <1>12, <2>5, <3>3
  <2> QED
    BY <2>4, <2>5
<1>15. ASSUME NEW b \in Bins PROVE IsList(fd', fastbins'[b], L[b])
  <2>1. \A x \in Chunks : at[x] = InBin(b) => fd'[x] = fd[x]
    BY <1>6, <1>10, PlacesDiffer
  <2>2. fastbins'[b] = fastbins[b]
    BY <1>8
  <2> QED
    BY <2>1, <2>2, BinFrame
<1>16. Local(t, as)'
  BY <1>4, <1>5, <1>7, <1>8, <1>9 DEF Local, Freeing, Merging, Locked
<1>17. IF Merging(t)' THEN IsList(fd', thread'[t].p, N[t]) ELSE N[t] = <<>>
  <2>1. \A x \in ToSet(rest) : fd'[x] = fd[x]
    BY <1>5, <1>10, ToSetProperties
  <2>2. IsList(fd', next, rest)
    BY <1>5, <2>1, SameLinks
  <2> QED
    BY <1>7, <1>9, <1>13, <2>2 DEF Merging
<1>18. Moves(L, L) /\ L \in [Bins -> Seq(Chunks)]
  BY <1>4, <1>8 DEF Moves
<1>19. \A a \in Bins : IsInjective(tcache'[t][a])
  BY <1>8 DEF Sound, Linking
<1>20. \A x \in Chunks : (fd'[x] = fd[x] /\ as[x] = at[x]) \/ Reach(t, at[x])
  BY <1>6, <1>10, <1>12 DEF Reach
<1>21. \A u \in Threads \ {t} : tcache'[u] = tcache[u] /\ N[u] = M[u] /\ (mutex' = u <=> mutex = u)
  BY <1>8, <1>13
<1> QED
  BY <1>9, <1>11, <1>12, <1>13, <1>14, <1>15, <1>16, <1>17, <1>18, <1>19, <1>20, <1>21, MoveStep
-------------------------------------------------------------------------------
(* The bins at the start are the lists of Starts. *)
LEMMA LinkedList ==
  ASSUME NEW s \in Seq(Chunks), IsInjective(s), NEW f, \A c \in ToSet(s) : f[c] = Linked(s)[c]
  PROVE  IsList(f, IF s = <<>> THEN NULL ELSE Head(s), s)
<1>1. DOMAIN s = 1 .. Len(s) /\ Len(s) \in Nat
  OBVIOUS
<1>2. ASSUME NEW k \in DOMAIN s PROVE f[s[k]] = Nth(s, k + 1)
  <2>1. s[k] \in ToSet(s)
    BY DEF ToSet
  <2>2. (CHOOSE j \in DOMAIN s : s[j] = s[k]) = k
    BY DEF IsInjective
  <2>3. Linked(s)[s[k]] = IF k = Len(s) THEN NULL ELSE s[k + 1]
    BY <2>1, <2>2 DEF Linked
  <2>4. k \in 1 .. Len(s)
    BY <1>1
  <2>5. k + 1 \in DOMAIN s <=> k # Len(s)
    BY <1>1, <2>4
  <2> QED
    BY <2>1, <2>3, <2>5 DEF Nth
<1>3. (IF s = <<>> THEN NULL ELSE Head(s)) = Nth(s, 1)
  BY <1>1 DEF Nth
<1> QED
  BY <1>2, <1>3 DEF IsList

LEMMA InitSound ==
  ASSUME Init
  PROVE  \E L, M, at : Sound(L, M, at) /\ L \in Starts /\ held = Chunks \ UNION {ToSet(L[b]) : b \in Bins}
<1>1. PICK s \in Starts :
        LET filled == UNION {ToSet(s[b]) : b \in Bins}
        IN /\ fastbins = [b \in Bins |-> IF s[b] = <<>> THEN NULL ELSE Head(s[b])]
           /\ fd = [c \in Chunks |-> IF c \in filled THEN Linked(s[Index[c]])[c] ELSE Garbage]
           /\ have_fastchunks = (filled # {})
           /\ held = Chunks \ filled
  BY DEF Init
<1> DEFINE filled == UNION {ToSet(s[b]) : b \in Bins}
           M == [t \in Threads |-> <<>>]
           at == [c \in Chunks |-> IF c \in filled THEN InBin(Index[c]) ELSE Client]
<1>2. /\ s \in [Bins -> Seq(Chunks)]
      /\ \A b \in Bins : IsInjective(s[b]) /\ \A c \in ToSet(s[b]) : Index[c] = b /\ c \in filled /\ c \in Chunks
  <2>1. /\ s \in [Bins -> Seq(Chunks)]
        /\ \A b \in Bins : IsInjective(s[b]) /\ \A c \in ToSet(s[b]) : Index[c] = b
    BY PtFastbinsAssumption
  <2> QED
    BY <2>1, ToSetProperties
<1>3. \A c \in filled : c \in Chunks /\ Index[c] \in Bins /\ c \in ToSet(s[Index[c]])
  BY <1>2
<1> HIDE DEF filled
<1>4. /\ fastbins = [b \in Bins |-> IF s[b] = <<>> THEN NULL ELSE Head(s[b])]
      /\ fd = [c \in Chunks |-> IF c \in filled THEN Linked(s[Index[c]])[c] ELSE Garbage]
      /\ have_fastchunks = (filled # {}) /\ held = Chunks \ filled
  BY <1>1 DEF filled
<1>5. /\ mutex = NoThread /\ arena = {} /\ tcache = [t \in Threads |-> [b \in Bins |-> <<>>]]
      /\ thread = [t \in Threads |-> Idle] /\ calls = [t \in Threads |-> 0] /\ aborted = FALSE
  BY DEF Init
<1>6. ASSUME NEW b \in Bins PROVE IsList(fd, fastbins[b], s[b])
  <2>1. \A c \in ToSet(s[b]) : fd[c] = Linked(s[b])[c]
    BY <1>2, <1>4
  <2>2. fastbins[b] = IF s[b] = <<>> THEN NULL ELSE Head(s[b])
    BY <1>4
  <2>3. s[b] \in Seq(Chunks) /\ IsInjective(s[b])
    BY <1>2
  <2>4. IsList(fd, IF s[b] = <<>> THEN NULL ELSE Head(s[b]), s[b])
    BY <2>1, <2>3, LinkedList
  <2> QED
    BY <2>2, <2>4
<1>7. TypeOK
  <2>1. fastbins \in [Bins -> Chunks \union {NULL}]
    <3>1. \A b \in Bins : fastbins[b] \in Chunks \union {NULL}
      BY <1>6, ListHead
    <3> QED
      BY <1>4, <3>1
  <2>2. fd \in [Chunks -> Chunks \union {NULL, Garbage}]
    <3>1. ASSUME NEW c \in filled PROVE fd[c] \in Chunks \union {NULL}
      <4>1. PICK b \in Bins : b = Index[c] /\ c \in ToSet(s[b])
        BY <1>3
      <4>2. s[b] \in Seq(Chunks) /\ IsList(fd, fastbins[b], s[b])
        BY <1>2, <1>6
      <4>3. PICK k \in 1 .. Len(s[b]) : s[b][k] = c
        BY <4>1, <4>2, ToSetProperties
      <4>4. fd[c] = Nth(s[b], k + 1)
        BY <4>2, <4>3, Follow
      <4> QED
        BY <4>2, <4>4, NthType
    <3>2. \A c \in Chunks : fd[c] \in Chunks \union {NULL, Garbage}
      BY <1>4, <3>1
    <3> QED
      BY <1>4, <3>2
  <2>3. tcache \in [Threads -> [Bins -> Seq(Chunks)]]
    BY <1>5
  <2> QED
    BY <1>4, <1>5, <2>1, <2>2, <2>3, IdleThread DEF TypeOK
<1>8. at \in [Chunks -> Places]
  BY PlacesExist, PtFastbinsAssumption
<1>9. M \in [Threads -> Seq(Chunks)]
  OBVIOUS
<1>10. \A t \in Threads : /\ thread[t] = Idle /\ ~ Merging(t) /\ ~ Freeing(t) /\ mutex # t /\ M[t] = <<>>
                          /\ \A b \in Bins : tcache[t][b] = <<>>
  BY <1>5, IdleThread, PtFastbinsAssumption DEF Merging, Freeing
<1>11. Linking(s, M)
  <2>1. IsInjective(<<>>)
    BY DEF IsInjective
  <2> HIDE DEF M
  <2> QED
    BY <1>2, <1>6, <1>9, <1>10, <2>1 DEF Linking
<1>12. Owned(s, M, at)
  <2> SUFFICES ASSUME NEW c \in Chunks PROVE Located(c, at[c], s, M)
    BY DEF Owned
  <2>1. /\ c \notin ToSet(<<>>) /\ c # NULL /\ c \notin arena /\ (c \in held <=> c \notin filled)
        /\ \A b \in Bins : c \in ToSet(s[b]) <=> c \in filled /\ Index[c] = b
        /\ at[c] = IF c \in filled THEN InBin(Index[c]) ELSE Client
    BY <1>2, <1>3, <1>4, <1>5, PtFastbinsAssumption DEF ToSet
  <2> HIDE DEF at, M
  <2>2. CASE c \in filled
    <3>1. at[c] = InBin(Index[c])
      BY <2>1, <2>2
    <3>2. \A b \in Bins : /\ c \in ToSet(s[b]) <=> at[c] = InBin(b)
                          /\ at[c] = InBin(b) => Index[c] = b
      BY <2>1, <2>2, <3>1, PlacesDiffer
    <3>3. /\ at[c] # Client /\ at[c] # Arena
          /\ \A t \in Threads : /\ at[c] # Freed(t) /\ at[c] # Merged(t) /\ at[c] # Got(t)
                                /\ \A b \in Bins : at[c] # Cached(t, b)
      <4>1. \A i : /\ InBin(i) # Client /\ InBin(i) # Arena
                   /\ \A t : /\ InBin(i) # Freed(t) /\ InBin(i) # Merged(t) /\ InBin(i) # Got(t)
                             /\ \A b : InBin(i) # Cached(t, b)
        BY PlacesDiffer
      <4> QED
        BY <3>1, <4>1
    <3> QED
      BY <1>10, <2>1, <2>2, <3>2, <3>3, IdleThread DEF Located
  <2>3. CASE c \notin filled
    <3>1. /\ at[c] = Client /\ at[c] # Arena
          /\ \A b \in Bins : at[c] # InBin(b)
          /\ \A t \in Threads : /\ at[c] # Freed(t) /\ at[c] # Merged(t) /\ at[c] # Got(t)
                                /\ \A b \in Bins : at[c] # Cached(t, b)
      BY <2>1, <2>3, PlacesDiffer
    <3> QED
      BY <1>10, <2>1, <2>3, <3>1, IdleThread DEF Located
  <2> QED
    BY <2>2, <2>3
<1>13. \A t \in Threads : Local(t, at)
  BY <1>10, IdleThread DEF Local, Locked
<1>14. Sound(s, M, at)
  BY <1>7, <1>8, <1>11, <1>12, <1>13 DEF Sound
<1> QED
  BY <1>4, <1>14 DEF filled

(* Every step keeps the invariant, and moves the stacks as it may. *)
LEMMA NextKeeps ==
  ASSUME NEW L, NEW M, NEW at, Sound(L, M, at), [Next]_vars
  PROVE  Keeps(L, M, at)
<1>1. CASE UNCHANGED vars
  <2>1. Sound(L, M, at)'
    <3>1. TypeOK'
      BY <1>1 DEF Sound, TypeOK, vars
    <3>2. Linking(L, M)'
      BY <1>1 DEF Sound, Linking, vars, Merging
    <3>3. Owned(L, M, at)'
      BY <1>1 DEF Sound, Owned, Located, vars, Freeing
    <3>4. \A t \in Threads : Local(t, at)'
      BY <1>1 DEF Sound, Local, vars, Freeing, Merging
    <3> QED
      BY <3>1, <3>2, <3>3, <3>4 DEF Sound
  <2>2. Moves(L, L)
    BY <1>1 DEF Moves, vars
  <2> QED
    BY <2>1, <2>2 DEF Keeps
<1>2. ASSUME NEW t \in Threads, NEW c \in Chunks, Free(t, c) PROVE Keeps(L, M, at)
  BY <1>2, FreeCachedKeeps, FreeKeeps
<1>3. ASSUME NEW t \in Threads, NEW b \in Bins, Malloc(t, b) PROVE Keeps(L, M, at)
  <2>1. PICK s : s = tcache[t][b]
    OBVIOUS
  <2>2. CASE s = <<>>
    BY <1>3, <2>1, <2>2, MallocWaitsKeeps
  <2>3. CASE s # <<>>
    BY <1>3, <2>1, <2>3, MallocCachedKeeps
  <2> QED
    BY <2>2, <2>3
<1>4. ASSUME NEW t \in Threads, NEW op \in {"large", "trim"}, Consolidation(t, op) PROVE Keeps(L, M, at)
  BY <1>4, ConsolidationKeeps
<1>5. ASSUME NEW t \in Threads, Step(t) PROVE Keeps(L, M, at)
  <2>1. CASE RaiseFlag(t)
    BY <2>1, RaiseFlagKeeps
  <2>2. CASE ReadHead(t)
    BY <2>2, ReadHeadKeeps
  <2>3. CASE Link(t)
    BY <2>3, LinkKeeps
  <2>4. CASE Push(t)
    <3>1. CASE fastbins[thread[t].b] # thread[t].next
      BY <2>4, <3>1, PushFailsKeeps
    <3>2. CASE fastbins[thread[t].b] = thread[t].next
      <4>1. PICK b : b = thread[t].b
        OBVIOUS
      <4>2. PICK p : p = thread[t].p
        OBVIOUS
      <4>3. fastbins[b] = thread[t].next
        BY <3>2, <4>1
      <4> QED
        BY <2>4, <4>1, <4>2, <4>3, PushKeeps
    <3> QED
      BY <3>1, <3>2
  <2>5. CASE Lock(t)
    BY <2>5, LockKeeps
  <2>6. CASE ReadFront(t)
    BY <2>6, ReadFrontKeeps
  <2>7. CASE Reveal(t)
    BY <2>7, RevealKeeps
  <2>8. CASE Pop(t)
    BY <2>8, PopKeeps, PopMoreKeeps
  <2>9. CASE PopFails(t)
    BY <2>9, PopFailsKeeps
  <2>10. CASE More(t)
    BY <2>10, MoreKeeps
  <2>11. CASE Search(t)
    BY <2>11, SearchKeeps
  <2>12. CASE SearchFails(t)
    BY <2>12, SearchFailsKeeps
  <2>13. CASE Unlock(t)
    BY <2>13, UnlockKeeps, UnlockEmptyKeeps
  <2>14. CASE Check(t)
    BY <2>14, CheckKeeps
  <2>15. CASE Clear(t)
    BY <2>15, ClearKeeps
  <2>16. CASE Exchange(t)
    BY <2>16, ExchangeKeeps
  <2>17. CASE MergeChunk(t)
    BY <2>17, MergeChunkKeeps
  <2> QED
    BY <1>5, <2>1, <2>2, <2>3, <2>4, <2>5, <2>6, <2>7, <2>8, <2>9, <2>10, <2>11, <2>12, <2>13, <2>14,
       <2>15, <2>16, <2>17 DEF Step
<1> QED
  BY <1>1, <1>2, <1>3, <1>4, <1>5 DEF Next
-------------------------------------------------------------------------------
(* The chains are the lists of the invariant. *)
LEMMA ChainsAre ==
  ASSUME NEW L, NEW M, NEW at, Sound(L, M, at)
  PROVE  /\ \A b \in Bins : Chain(fd, fastbins[b]) = L[b] /\ IsList(fd, fastbins[b], L[b])
         /\ \A t \in Threads : Merging(t) => Chain(fd, thread[t].p) = M[t] /\ IsList(fd, thread[t].p, M[t])
<1>1. \A b \in Bins : IsList(fd, fastbins[b], L[b])
  BY DEF Sound, Linking
<1>2. \A t \in Threads : Merging(t) => IsList(fd, thread[t].p, M[t])
  BY DEF Sound, Linking
<1> QED
  BY <1>1, <1>2, ChainIs

LEMMA ContentsAre ==
  ASSUME NEW L, NEW M, NEW at, Sound(L, M, at), NEW c \in Chunks, NEW w \in Places
  PROVE  c \in Contents(w) <=> at[c] = w
<1>1. Located(c, at[c], L, M) /\ c # NULL /\ c \notin ToSet(<<>>)
  BY PtFastbinsAssumption DEF Sound, Owned, ToSet
<1>2. CASE w = Client
  <2>1. Contents(w) = held
    BY <1>2 DEF Contents, Client
  <2> QED
    BY <1>1, <1>2, <2>1 DEF Located
<1>3. CASE w = Arena
  <2>1. Contents(w) = arena
    BY <1>3 DEF Contents, Arena
  <2> QED
    BY <1>1, <1>3, <2>1 DEF Located
<1>4. ASSUME NEW b \in Bins, w = InBin(b) PROVE c \in Contents(w) <=> at[c] = w
  <2>1. Contents(w) = ToSet(L[b])
    <3>1. Contents(w) = ToSet(Chain(fd, fastbins[b]))
      BY <1>4 DEF Contents, InBin
    <3> QED
      BY <3>1, ChainsAre
  <2> QED
    BY <1>1, <1>4, <2>1 DEF Located
<1>5. ASSUME NEW t \in Threads, w = Freed(t) PROVE c \in Contents(w) <=> at[c] = w
  <2>1. Contents(w) = {x \in Chunks : Freeing(t) /\ thread[t].p = x}
    BY <1>5 DEF Contents, Freed
  <2> QED
    BY <1>1, <1>5, <2>1 DEF Located
<1>6. ASSUME NEW t \in Threads, w = Merged(t) PROVE c \in Contents(w) <=> at[c] = w
  <2>1. Contents(w) = IF Merging(t) THEN ToSet(Chain(fd, thread[t].p)) ELSE {}
    BY <1>6 DEF Contents, Merged
  <2>2. c \in Contents(w) <=> c \in ToSet(M[t])
    <3>1. ~ Merging(t) => M[t] = <<>>
      BY DEF Sound, Linking
    <3> QED
      BY <1>1, <2>1, <3>1, ChainsAre
  <2> QED
    BY <1>1, <1>6, <2>2 DEF Located
<1>7. ASSUME NEW t \in Threads, w = Got(t) PROVE c \in Contents(w) <=> at[c] = w
  <2>1. Contents(w) = {thread[t].got} \ {NULL}
    BY <1>7 DEF Contents, Got
  <2> QED
    BY <1>1, <1>7, <2>1 DEF Located
<1>8. ASSUME NEW t \in Threads, NEW b \in Bins, w = Cached(t, b) PROVE c \in Contents(w) <=> at[c] = w
  <2>1. Contents(w) = ToSet(tcache[t][b])
    BY <1>8 DEF Contents, Cached
  <2> QED
    BY <1>1, <1>8, <2>1 DEF Located
<1> QED
  BY <1>2, <1>3, <1>4, <1>5, <1>6, <1>7, <1>8, PlaceKinds

LEMMA InvImpliesOnce == FastbinsInv => EveryChunkOnce
<1> SUFFICES ASSUME FastbinsInv PROVE EveryChunkOnce
  OBVIOUS
<1>1. PICK L, M, at : Sound(L, M, at)
  BY DEF FastbinsInv
<1>2. ~ aborted
  BY <1>1 DEF Sound, TypeOK
<1>3. ListsEnd
  BY <1>1, ChainsAre DEF ListsEnd
<1>4. \A t \in Threads, b \in Bins : IsInjective(tcache[t][b])
  BY <1>1 DEF Sound, Linking
<1>5. ASSUME NEW c \in Chunks PROVE Cardinality({w \in Places : c \in Contents(w)}) = 1
  <2>1. \A w \in Places : c \in Contents(w) <=> at[c] = w
    BY <1>1, ContentsAre
  <2>2. at[c] \in Places
    BY <1>1 DEF Sound
  <2>3. {w \in Places : c \in Contents(w)} = {at[c]}
    BY <2>1, <2>2
  <2> QED
    BY <2>3, FS_Singleton
<1> QED
  BY <1>2, <1>3, <1>4, <1>5 DEF EveryChunkOnce

(* Every chunk is in exactly one place at every moment of every            *)
(* interleaving, the links agree with it, and no check of the code fails   *)
(* (the loops of _int_free, REMOVE_FB and malloc_consolidate).             *)
THEOREM ChunksAreKept == Spec => []EveryChunkOnce
<1>1. Init => FastbinsInv
  BY InitSound DEF FastbinsInv
<1>2. FastbinsInv /\ [Next]_vars => FastbinsInv'
  BY NextKeeps DEF FastbinsInv, Keeps
<1>3. FastbinsInv => EveryChunkOnce
  BY InvImpliesOnce
<1> QED
  BY <1>1, <1>2, <1>3, PTL DEF Spec

(* A step of the invariant's lists is a step of the stacks, or none. *)
LEMMA InitStacks == Init => Stacks!SInit
<1> SUFFICES ASSUME Init PROVE Stacks!SInit
  OBVIOUS
<1>1. PICK L, M, at : /\ Sound(L, M, at) /\ L \in Starts
                      /\ held = Chunks \ UNION {ToSet(L[b]) : b \in Bins}
  BY InitSound
<1>2. [b \in Bins |-> Chain(fd, fastbins[b])] = L
  BY <1>1, ChainsAre DEF Sound, Linking
<1>3. Stacks!Bins = Bins /\ \A r : Stacks!ToSet(r) = ToSet(r)
  BY DEF Stacks!Bins, Bins, Stacks!ToSet, ToSet
<1>4. Stacks!Stacked = UNION {ToSet(L[b]) : b \in Bins}
  BY <1>2, <1>3 DEF Stacks!Stacked
<1> QED
  BY <1>1, <1>2, <1>4 DEF Stacks!SInit

LEMMA StepStacks ==
  ASSUME NEW L, NEW K, Moves(L, K), L \in [Bins -> Seq(Chunks)],
         [b \in Bins |-> Chain(fd, fastbins[b])] = L,
         [b \in Bins |-> Chain(fd', fastbins'[b])] = K
  PROVE  [Stacks!SNext]_<<[b \in Bins |-> Chain(fd, fastbins[b])], held>>
<1>1. CASE K = L /\ held' = held
  BY <1>1
<1>2. ASSUME NEW c \in Chunks, c \notin held, \A b \in Bins : c \notin ToSet(L[b]),
             \/ K = [L EXCEPT ![Index[c]] = <<c>> \o @] /\ held' = held
             \/ K = L /\ held' = held \union {c}
      PROVE  Stacks!Push(c) \/ Stacks!Grant(c)
  <2>1. c \notin held \union Stacks!Stacked
    BY <1>2 DEF Stacks!Stacked, Stacks!Bins, Bins, Stacks!ToSet, ToSet
  <2> QED
    BY <1>2, <2>1 DEF Stacks!Push, Stacks!Grant
<1>3. ASSUME NEW c \in Chunks, c \in held, K = L, held' = held \ {c} PROVE Stacks!Release(c)
  BY <1>3 DEF Stacks!Release
<1>4. ASSUME NEW b \in Bins, held' = held,
             \/ L[b] # <<>> /\ K = [L EXCEPT ![b] = Tail(@)]
             \/ K = [L EXCEPT ![b] = <<>>]
      PROVE  Stacks!Pop(b) \/ Stacks!TakeAll(b)
  BY <1>4 DEF Stacks!Pop, Stacks!TakeAll
<1> QED
  BY <1>1, <1>2, <1>3, <1>4 DEF Moves, Stacks!SNext, Stacks!Bins, Bins

(* Clients may rely on the fastbins as on stacks whose operations happen   *)
(* at one moment, with as many threads and bins as there are.              *)
THEOREM FastbinsAreStacks == Spec => BinsAreStacks
<1>1. Init => FastbinsInv /\ Stacks!SInit
  BY InitSound, InitStacks DEF FastbinsInv
<1>2. FastbinsInv /\ [Next]_vars =>
        FastbinsInv' /\ [Stacks!SNext]_<<[b \in Bins |-> Chain(fd, fastbins[b])], held>>
  <2> SUFFICES ASSUME FastbinsInv, [Next]_vars
               PROVE  FastbinsInv' /\ [Stacks!SNext]_<<[b \in Bins |-> Chain(fd, fastbins[b])], held>>
    OBVIOUS
  <2>1. PICK L, M, at : Sound(L, M, at)
    BY DEF FastbinsInv
  <2>2. PICK K, N, as : Sound(K, N, as)' /\ Moves(L, K)
    BY <2>1, NextKeeps DEF Keeps
  <2>3. L \in [Bins -> Seq(Chunks)] /\ [b \in Bins |-> Chain(fd, fastbins[b])] = L
    BY <2>1, ChainsAre DEF Sound, Linking
  <2>4. [b \in Bins |-> Chain(fd', fastbins'[b])] = K
    <3>1. \A b \in Bins : Chain(fd', fastbins'[b]) = K[b]
      <4>1. \A b \in Bins : IsList(fd', fastbins'[b], K[b])
        BY <2>2 DEF Sound, Linking
      <4> QED
        BY <4>1, ChainIs
    <3>2. K \in [Bins -> Seq(Chunks)]
      BY <2>2 DEF Sound, Linking
    <3> QED
      BY <3>1, <3>2
  <2>5. FastbinsInv'
    BY <2>2 DEF FastbinsInv
  <2> QED
    BY <2>2, <2>3, <2>4, <2>5, StepStacks
<1> QED
  BY <1>1, <1>2, PTL DEF Spec, BinsAreStacks, Stacks!SSpec
===============================================================================
