---------------------------- MODULE MallocProofs ----------------------------
(***************************************************************************)
(* The allocator, for any buffer and any requests of at least one byte, up *)
(* to the first call that makes chunks meet: such a state is reached, but  *)
(* not left.                                                               *)
(***************************************************************************)
EXTENDS Malloc, ListLemmas, FiniteSetTheorems, TLAPS

\* A request of no bytes is given the static head.
SomeBytes == 0 \notin Sizes

SpecToOverlap == Init /\ [][Next /\ ChunksApart]_vars

LEMMA SizeFacts ==
    /\ INIT_BUF_SIZE \in Nat /\ INIT_BUF_SIZE > 8 /\ HEADER = 4 /\ NULL \notin Int
    /\ \A s \in Sizes : s \in Nat /\ (SomeBytes => s > 0)
    /\ Addr \subseteq Nat /\ 0 \in Addr /\ 4 \in Addr /\ IsFiniteSet(Addr)
    /\ \A c \in Int : c \in Addr <=> 0 <= c /\ c <= 2 * INIT_BUF_SIZE
<1>1. INIT_BUF_SIZE \in Nat /\ INIT_BUF_SIZE > 8 /\ HEADER = 4
  BY BufferAssumption DEF HEADER
<1>2. IsFiniteSet(Addr)
  BY <1>1, FS_Interval DEF Addr
<1> QED BY <1>1, <1>2, SizesAssumption, NoAddressAssumption DEF Addr, SomeBytes

-----------------------------------------------------------------------------
(* One chunk behind the other in a set *)

Behind(S, p, i) == i \in S /\ p < i /\ \A h \in S : p < h => i <= h
Final(S, p)     == \A h \in S : h <= p

(* The free list: nx is next, and F are its chunks.  The static head, at 0,  *)
(* stands before them.                                                       *)

Link(F, p, x) == \/ Final(F, p) /\ x = NULL
                 \/ x \in F /\ Behind(F, p, x)

Linked(nx, F) == \A p \in F \union {0} : Link(F, p, nx[p])

\* What is allocated whole leaves the list.
LEMMA LinkRemove ==
    ASSUME NEW nx \in [Addr -> Addr \union {NULL}], NEW F, F \subseteq Addr \ {0}, Linked(nx, F),
           NEW p \in F \union {0}, NEW j, Behind(F, p, j)
    PROVE  Linked([nx EXCEPT ![p] = nx[j]], F \ {j})
<1> DEFINE n == [nx EXCEPT ![p] = nx[j]]
           G == F \ {j}
<1>0. /\ j \in F /\ p < j /\ \A h \in F \union {0} : h \in Nat /\ h \in Addr
      /\ \A h \in F : h > 0
  BY SizeFacts DEF Behind
<1> SUFFICES ASSUME NEW q \in G \union {0} PROVE Link(G, q, n[q])
  BY DEF Linked
<1>1. q \in F \union {0} /\ q # j
  BY <1>0
<1>2. CASE q = p
  <2>1. n[q] = nx[j]
    BY <1>0, <1>2
  <2>2. Link(F, j, nx[j])
    BY <1>0 DEF Linked
  <2>3. Final(F, j) => Final(G, q)
    <3> SUFFICES ASSUME Final(F, j), NEW h \in G PROVE h <= p
      BY <1>2 DEF Final
    <3>1. h \in F /\ h # j /\ h <= j
      BY DEF Final
    <3>2. ~ (p < h)
      BY <1>0, <3>1 DEF Behind
    <3> QED BY <1>0, <3>1, <3>2
  <2>4. ASSUME NEW i \in F, Behind(F, j, i) PROVE i \in G /\ Behind(G, q, i)
    <3>1. i \in G /\ j < i /\ p < i
      BY <1>0, <2>4 DEF Behind
    <3>2. ASSUME NEW h \in G, p < h PROVE i <= h
      <4>1. j <= h /\ h # j
        BY <1>0, <3>2 DEF Behind
      <4> QED BY <1>0, <2>4, <4>1 DEF Behind
    <3> QED BY <1>2, <3>1, <3>2 DEF Behind
  <2> QED BY <2>1, <2>2, <2>3, <2>4 DEF Link
<1>3. CASE q # p
  <2>1. n[q] = nx[q]
    BY <1>0, <1>1, <1>3
  <2>2. Link(F, q, nx[q])
    BY <1>1 DEF Linked
  <2>3. Final(F, q) => Final(G, q)
    BY DEF Final
  <2>4. ASSUME NEW i \in F, Behind(F, q, i) PROVE i \in G /\ Behind(G, q, i)
    <3>1. i # j
      <4> SUFFICES ASSUME i = j PROVE FALSE
        OBVIOUS
      <4>1. q < j /\ ~ (p < q /\ q \in F) /\ ~ (q < p /\ p \in F)
        BY <1>0, <1>1, <2>4 DEF Behind
      <4> QED BY <1>0, <1>1, <1>3, <4>1
    <3> QED BY <2>4, <3>1 DEF Behind
  <2> QED BY <2>1, <2>2, <2>3, <2>4 DEF Link
<1> QED BY <1>2, <1>3

\* A chunk is inserted where its address says.
LEMMA LinkInsert ==
    ASSUME NEW nx \in [Addr -> Addr \union {NULL}], NEW F, F \subseteq Addr \ {0}, Linked(nx, F),
           NEW p \in F \union {0}, NEW j \in Addr, p < j, \A h \in F : p < h => j < h
    PROVE  Linked([nx EXCEPT ![j] = nx[p], ![p] = j], F \union {j})
<1> DEFINE n == [nx EXCEPT ![j] = nx[p], ![p] = j]
           G == F \union {j}
<1>0. /\ j \in Nat /\ p \in Nat /\ p \in Addr /\ j \notin F /\ j > 0
      /\ \A h \in G \union {0} : h \in Nat /\ h \in Addr
      /\ \A h \in F : h > 0
  BY SizeFacts
<1> SUFFICES ASSUME NEW q \in G \union {0} PROVE Link(G, q, n[q])
  BY DEF Linked
<1>1. CASE q = p
  <2>1. n[q] = j
    BY <1>0, <1>1
  <2>2. Behind(G, p, j)
    BY <1>0 DEF Behind
  <2> QED BY <1>1, <2>1, <2>2 DEF Link
<1>2. CASE q = j
  <2>1. n[q] = nx[p]
    BY <1>0, <1>2
  <2>2. Link(F, p, nx[p])
    BY DEF Linked
  <2>3. Final(F, p) => Final(G, j)
    BY <1>0 DEF Final
  <2>4. ASSUME NEW i \in F, Behind(F, p, i) PROVE Behind(G, j, i)
    <3>1. j < i /\ i \in G
      BY <2>4 DEF Behind
    <3>2. \A h \in G : j < h => i <= h
      BY <1>0, <2>4 DEF Behind
    <3> QED BY <3>1, <3>2 DEF Behind
  <2> QED BY <1>2, <2>1, <2>2, <2>3, <2>4 DEF Link
<1>3. CASE q # p /\ q # j
  <2>0. q \in F \union {0}
    BY <1>0, <1>3
  <2>1. n[q] = nx[q]
    BY <1>3, <1>0
  <2>2. Link(F, q, nx[q])
    BY <2>0 DEF Linked
  <2>3. q < j => q < p
    <3>1. q < j => ~ (p < q /\ q \in F)
      BY <1>0, <2>0
    <3> QED BY <1>0, <1>3, <2>0, <3>1
  <2>4. Final(F, q) => Final(G, q)
    <3>1. q < p => p \in F
      BY <2>0, <1>0
    <3> QED BY <1>0, <1>3, <2>0, <2>3, <3>1 DEF Final
  <2>5. ASSUME NEW i \in F, Behind(F, q, i) PROVE Behind(G, q, i)
    <3>1. q < j => i <= j
      <4> SUFFICES ASSUME q < j PROVE i <= j
        OBVIOUS
      <4>1. q < p /\ p \in F
        BY <2>0, <1>0, <2>3
      <4> QED BY <1>0, <2>5, <4>1 DEF Behind
    <3> QED BY <2>5, <3>1 DEF Behind
  <2> QED BY <2>1, <2>2, <2>4, <2>5 DEF Link
<1> QED BY <1>1, <1>2, <1>3

-----------------------------------------------------------------------------
(* Sums over chunks, in whatever order they are taken *)

\* The chunks of K with their headers.
Bytes(sz, K) == MapThenSumSet(LAMBDA c : HEADER + sz[c], K)

\* The defining equation of the fold.
IsSum(sz, K, f) ==
    f = [s \in SUBSET K |->
            IF s = {} THEN 0
            ELSE LET x == CHOOSE x \in s : TRUE IN (HEADER + sz[x]) + f[s \ {x}]]

LEMMA SubsetFacts ==
    ASSUME NEW K, IsFiniteSet(K), NEW s \in SUBSET K
    PROVE  /\ IsFiniteSet(s) /\ Cardinality(s) \in Nat /\ Cardinality(s) <= Cardinality(K) /\ Cardinality(K) \in Nat
           /\ (Cardinality(s) = 0) <=> (s = {})
           /\ \A x \in s : s \ {x} \in SUBSET K /\ Cardinality(s \ {x}) = Cardinality(s) - 1
<1>1. IsFiniteSet(s) /\ Cardinality(s) <= Cardinality(K)
  BY FS_Subset
<1> QED BY <1>1, FS_CardinalityType, FS_RemoveElement, FS_EmptySet

LEMMA SumExists ==
    ASSUME NEW sz, NEW K, IsFiniteSet(K)
    PROVE  \E f : IsSum(sz, K, f)
<1> DEFINE One(s) == CHOOSE x \in s : TRUE
           Go(s, y) == IF s = {} THEN 0 ELSE (HEADER + sz[One(s)]) + y
           Right(f, s) == f[s] = Go(s, f[s \ {One(s)}])
           S == {n \in Nat : \E f : /\ f = [s \in SUBSET K |-> f[s]]
                                    /\ \A s \in SUBSET K : Cardinality(s) <= n => Right(f, s)}
<1>0. ASSUME NEW s \in SUBSET K, s # {} PROVE One(s) \in s
  BY <1>0
<1> HIDE DEF Go, One
<1>1. 0 \in S
  <2> DEFINE f == [s \in SUBSET K |-> 0]
  <2>1. ASSUME NEW s \in SUBSET K, Cardinality(s) <= 0 PROVE Right(f, s)
    <3>1. Cardinality(s) = 0
      BY <2>1, SubsetFacts
    <3>2. s = {} /\ f[s] = 0
      BY <3>1, SubsetFacts
    <3> QED BY <3>2 DEF Go
  <2>2. f = [s \in SUBSET K |-> f[s]]
    OBVIOUS
  <2> HIDE DEF Right, f
  <2> QED BY <2>1, <2>2
<1>2. ASSUME NEW n \in Nat, n \in S PROVE n + 1 \in S
  <2>1. PICK f : /\ f = [s \in SUBSET K |-> f[s]]
                 /\ \A s \in SUBSET K : Cardinality(s) <= n => Right(f, s)
    BY <1>2
  <2> DEFINE g == [s \in SUBSET K |-> IF Cardinality(s) = n + 1 THEN Go(s, f[s \ {One(s)}]) ELSE f[s]]
  <2>2. /\ g = [s \in SUBSET K |-> g[s]]
        /\ \A s \in SUBSET K : Cardinality(s) # n + 1 => g[s] = f[s]
        /\ \A s \in SUBSET K : Cardinality(s) = n + 1 => g[s] = Go(s, f[s \ {One(s)}])
    OBVIOUS
  <2> HIDE DEF g
  <2>3. ASSUME NEW s \in SUBSET K, Cardinality(s) <= n + 1 PROVE Right(g, s)
    <3>0. Cardinality(s) \in Nat
      BY SubsetFacts
    <3>1. ASSUME s # {} PROVE g[s \ {One(s)}] = f[s \ {One(s)}]
      <4>1. s \ {One(s)} \in SUBSET K /\ Cardinality(s \ {One(s)}) = Cardinality(s) - 1
        BY <1>0, <3>1, SubsetFacts
      <4>2. Cardinality(s \ {One(s)}) # n + 1
        BY <2>3, <3>0, <4>1
      <4> QED BY <2>2, <4>1, <4>2
    <3>2. CASE Cardinality(s) = n + 1
      BY <2>2, <3>1, <3>2 DEF Go
    <3>3. CASE Cardinality(s) # n + 1
      <4>1. Cardinality(s) <= n
        BY <2>3, <3>0, <3>3
      <4> QED BY <2>1, <2>2, <3>1, <3>3, <4>1 DEF Go
    <3> QED BY <3>2, <3>3
  <2>4. n + 1 \in Nat
    OBVIOUS
  <2> HIDE DEF Right
  <2> QED BY <2>2, <2>3, <2>4
<1>3. Nat \subseteq S
  <2> HIDE DEF S
  <2> QED BY <1>1, <1>2, Induction
<1>4. Cardinality(K) \in Nat
  BY FS_CardinalityType
<1>5. PICK f : /\ f = [s \in SUBSET K |-> f[s]]
               /\ \A s \in SUBSET K : Cardinality(s) <= Cardinality(K) => Right(f, s)
  BY <1>3, <1>4
<1>6. ASSUME NEW s \in SUBSET K PROVE Right(f, s)
  <2>1. Cardinality(s) <= Cardinality(K)
    BY SubsetFacts
  <2> HIDE DEF Right
  <2> QED BY <1>5, <2>1
<1>7. f = [s \in SUBSET K |-> Go(s, f[s \ {One(s)}])]
  BY <1>5, <1>6
<1> QED BY <1>7 DEF IsSum, Go, One

LEMMA BytesAreSum ==
    ASSUME NEW sz, NEW K, IsFiniteSet(K)
    PROVE  \E f : IsSum(sz, K, f) /\ Bytes(sz, K) = f[K]
<1> DEFINE f == CHOOSE f : IsSum(sz, K, f)
<1>1. IsSum(sz, K, f)
  BY SumExists
<1>2. Bytes(sz, K) = f[K]
  BY DEF Bytes, MapThenSumSet, MapThenFoldSet, IsSum
<1> QED BY <1>1, <1>2

\* Any element may be taken first, and only what is summed up matters.
LEMMA SumAgrees ==
    ASSUME NEW sy, NEW K, IsFiniteSet(K), NEW f, IsSum(sy, K, f),
           NEW sz, NEW L, IsFiniteSet(L), NEW g, IsSum(sz, L, g),
           \A x \in K : sy[x] \in Nat, \A x \in K \cap L : sy[x] = sz[x]
    PROVE  /\ \A s \in SUBSET (K \cap L) : f[s] = g[s]
           /\ \A s \in SUBSET K : f[s] \in Nat /\ \A x \in s : f[s] = HEADER + sy[x] + f[s \ {x}]
<1> DEFINE Agree(s) == s \in SUBSET L => f[s] = g[s]
           Take(s) == f[s] \in Nat /\ \A x \in s : f[s] = HEADER + sy[x] + f[s \ {x}]
           S == {n \in Nat : \A s \in SUBSET K : Cardinality(s) <= n => Agree(s) /\ Take(s)}
<1>1. 0 \in S
  <2>1. f[{}] = 0 /\ (\A s \in SUBSET L : s = {} => g[s] = 0)
    BY DEF IsSum
  <2>2. ASSUME NEW s \in SUBSET K, Cardinality(s) <= 0 PROVE Agree(s) /\ Take(s)
    <3>1. Cardinality(s) = 0
      BY <2>2, SubsetFacts
    <3>2. s = {}
      BY <3>1, SubsetFacts
    <3> QED BY <2>1, <3>2
  <2> HIDE DEF Agree, Take
  <2> QED BY <2>2
<1>2. ASSUME NEW n \in Nat, n \in S PROVE n + 1 \in S
  <2>0. ASSUME NEW s \in SUBSET K, Cardinality(s) <= n PROVE Agree(s) /\ Take(s)
    <3> HIDE DEF Agree, Take
    <3> QED BY <1>2, <2>0
  <2>a. ASSUME NEW s \in SUBSET K, Cardinality(s) = n + 1 PROVE Agree(s) /\ Take(s)
    <3>1. s # {}
      BY <2>a, SubsetFacts
    <3> DEFINE y == CHOOSE x \in s : TRUE
    <3>2. y \in s
      BY <3>1
    <3>3. f[s] = HEADER + sy[y] + f[s \ {y}]
      BY <3>1 DEF IsSum
    <3>4. s \in SUBSET L => g[s] = HEADER + sz[y] + g[s \ {y}]
      BY <3>1 DEF IsSum
    <3> HIDE DEF y
    <3>5. ASSUME NEW x \in s PROVE Agree(s \ {x}) /\ Take(s \ {x}) /\ Cardinality(s \ {x}) = n /\ s \ {x} \in SUBSET K
      <4>1. s \ {x} \in SUBSET K /\ Cardinality(s \ {x}) = Cardinality(s) - 1
        BY SubsetFacts
      <4>2. Cardinality(s \ {x}) = n
        BY <2>a, <4>1
      <4>3. n <= n
        OBVIOUS
      <4> HIDE DEF Agree, Take
      <4> QED BY <2>0, <4>1, <4>2, <4>3
    <3>6. Agree(s)
      BY <3>2, <3>3, <3>4, <3>5
    <3>7. f[s \ {y}] \in Nat /\ sy[y] \in Nat
      BY <3>2, <3>5
    <3>8. f[s] \in Nat
      BY <3>3, <3>7 DEF HEADER
    <3>9. ASSUME NEW x \in s PROVE f[s] = HEADER + sy[x] + f[s \ {x}]
      <4>1. CASE x = y
        BY <3>3, <4>1
      <4>2. CASE x # y
        <5>1. (s \ {y}) \ {x} = (s \ {x}) \ {y} /\ x \in s \ {y} /\ y \in s \ {x}
          BY <3>2, <4>2
        <5>2. f[s \ {y}] = HEADER + sy[x] + f[(s \ {y}) \ {x}]
          BY <3>2, <3>5, <5>1
        <5>3. f[s \ {x}] = HEADER + sy[y] + f[(s \ {x}) \ {y}]
          BY <3>5, <5>1
        <5>4. f[(s \ {y}) \ {x}] \in Nat
          <6>1. s \ {y} \in SUBSET K /\ Cardinality(s \ {y}) = n
            BY <3>2, <3>5
          <6>2. (s \ {y}) \ {x} \in SUBSET K /\ Cardinality((s \ {y}) \ {x}) = n - 1
            BY <5>1, <6>1, SubsetFacts
          <6>3. n - 1 <= n
            OBVIOUS
          <6> QED BY <2>0, <6>2, <6>3
        <5>5. sy[x] \in Nat /\ sy[y] \in Nat
          BY <3>2
        <5> QED BY <3>3, <5>1, <5>2, <5>3, <5>4, <5>5 DEF HEADER
      <4> QED BY <4>1, <4>2
    <3> QED BY <3>6, <3>8, <3>9
  <2>b. ASSUME NEW s \in SUBSET K, Cardinality(s) <= n + 1 PROVE Agree(s) /\ Take(s)
    <3>1. Cardinality(s) \in Nat
      BY SubsetFacts
    <3>2. Cardinality(s) <= n \/ Cardinality(s) = n + 1
      BY <2>b, <3>1
    <3> HIDE DEF Agree, Take
    <3> QED BY <2>0, <2>a, <3>2
  <2>c. n + 1 \in Nat
    OBVIOUS
  <2> HIDE DEF Agree, Take
  <2> QED BY <2>b, <2>c
<1>3. Nat \subseteq S
  <2> HIDE DEF S
  <2> QED BY <1>1, <1>2, Induction
<1>4. ASSUME NEW s \in SUBSET K PROVE Agree(s) /\ Take(s)
  <2>1. Cardinality(s) \in Nat
    BY SubsetFacts
  <2>2. Cardinality(s) \in S /\ Cardinality(s) <= Cardinality(s)
    BY <1>3, <2>1
  <2> HIDE DEF Agree, Take
  <2> QED BY <2>2
<1> QED BY <1>4

LEMMA BytesAdd ==
    ASSUME NEW sz, NEW K, IsFiniteSet(K), NEW x, x \notin K, \A c \in K \union {x} : sz[c] \in Nat
    PROVE  Bytes(sz, K) \in Nat /\ Bytes(sz, K \union {x}) = HEADER + sz[x] + Bytes(sz, K)
<1> DEFINE L == K \union {x}
<1>1. IsFiniteSet(L)
  BY FS_AddElement
<1>2. PICK f : IsSum(sz, L, f) /\ Bytes(sz, L) = f[L]
  BY <1>1, BytesAreSum
<1>3. PICK g : IsSum(sz, K, g) /\ Bytes(sz, K) = g[K]
  BY BytesAreSum
<1>4. L \ {x} = K /\ L \cap K = K /\ x \in L
  OBVIOUS
<1>5. \A c \in L : sz[c] \in Nat
  OBVIOUS
<1> HIDE DEF L
<1>6. f[K] = g[K]
  BY <1>1, <1>2, <1>3, <1>4, <1>5, SumAgrees
<1>7. \A s \in SUBSET L : f[s] \in Nat /\ \A y \in s : f[s] = HEADER + sz[y] + f[s \ {y}]
  BY <1>1, <1>2, <1>5, SumAgrees
<1>8. K \in SUBSET L /\ L \in SUBSET L
  BY <1>4
<1>9. f[K] \in Nat /\ f[L] = HEADER + sz[x] + f[L \ {x}]
  BY <1>4, <1>7, <1>8
<1> QED BY <1>2, <1>3, <1>4, <1>6, <1>9 DEF L

LEMMA BytesSame ==
    ASSUME NEW sy, NEW sz, NEW K, IsFiniteSet(K), \A c \in K : sz[c] \in Nat /\ sz[c] = sy[c]
    PROVE  Bytes(sy, K) = Bytes(sz, K)
<1>1. PICK f : IsSum(sy, K, f) /\ Bytes(sy, K) = f[K]
  BY BytesAreSum
<1>2. PICK g : IsSum(sz, K, g) /\ Bytes(sz, K) = g[K]
  BY BytesAreSum
<1>3. \A c \in K : sy[c] \in Nat
  OBVIOUS
<1>4. K \cap K = K
  OBVIOUS
<1>5. f[K] = g[K]
  BY <1>1, <1>2, <1>3, <1>4, SumAgrees
<1> QED BY <1>1, <1>2, <1>5

\* Taking one chunk out of the sum.
LEMMA BytesWithout ==
    ASSUME NEW sz, NEW K, IsFiniteSet(K), NEW x \in K, \A c \in K : sz[c] \in Nat
    PROVE  Bytes(sz, K \ {x}) \in Nat /\ Bytes(sz, K) = HEADER + sz[x] + Bytes(sz, K \ {x})
<1>1. IsFiniteSet(K \ {x}) /\ (K \ {x}) \union {x} = K /\ x \notin K \ {x}
  BY FS_RemoveElement
<1>2. \A c \in (K \ {x}) \union {x} : sz[c] \in Nat
  OBVIOUS
<1>3. /\ Bytes(sz, K \ {x}) \in Nat
      /\ Bytes(sz, (K \ {x}) \union {x}) = HEADER + sz[x] + Bytes(sz, K \ {x})
  BY <1>1, <1>2, BytesAdd
<1> QED BY <1>1, <1>3

\* The chunk at c is split in two, the second one at e; read from the right to the
\* left, the chunk at c takes over the one at e.
LEMMA BytesSplit ==
    ASSUME NEW y \in [Addr -> Nat], NEW z \in [Addr -> Nat], NEW K, K \subseteq Addr, IsFiniteSet(K),
           NEW c \in K, NEW e \in Addr, e \notin K,
           \A a \in K : a # c => z[a] = y[a],
           z[c] + HEADER + z[e] = y[c]
    PROVE  Bytes(z, K \union {e}) = Bytes(y, K)
<1> DEFINE L == K \ {c}
<1>1. IsFiniteSet(L) /\ \A a \in L : y[a] \in Nat /\ y[a] = z[a]
  BY FS_RemoveElement
<1>2. Bytes(z, L) = Bytes(y, L)
  <2> HIDE DEF L
  <2> QED BY <1>1, BytesSame
<1>3. /\ \A a \in K : y[a] \in Nat /\ z[a] \in Nat
      /\ \A a \in K \union {e} : z[a] \in Nat
  OBVIOUS
<1>4. Bytes(y, L) \in Nat /\ Bytes(y, K) = HEADER + y[c] + Bytes(y, L)
  BY <1>3, BytesWithout
<1>5. Bytes(z, K) = HEADER + z[c] + Bytes(z, L)
  BY <1>3, BytesWithout
<1>6. Bytes(z, K \union {e}) = HEADER + z[e] + Bytes(z, K)
  BY <1>3, BytesAdd
<1>7. z[c] \in Nat /\ z[e] \in Nat /\ y[c] \in Nat
  OBVIOUS
<1> HIDE DEF L
<1> QED BY <1>2, <1>4, <1>5, <1>6, <1>7 DEF HEADER

\* Fewer chunks, fewer bytes.
LEMMA BytesSubset ==
    ASSUME NEW sz, NEW K, IsFiniteSet(K), NEW L \in SUBSET K, \A c \in K : sz[c] \in Nat
    PROVE  Bytes(sz, L) \in Nat /\ Bytes(sz, L) <= Bytes(sz, K)
<1>1. PICK f : IsSum(sz, K, f) /\ Bytes(sz, K) = f[K]
  BY BytesAreSum
<1>2. IsFiniteSet(L)
  BY FS_Subset
<1>3. PICK g : IsSum(sz, L, g) /\ Bytes(sz, L) = g[L]
  BY <1>2, BytesAreSum
<1>4. K \cap L = L
  OBVIOUS
<1>5. f[L] = g[L]
  BY <1>1, <1>2, <1>3, <1>4, SumAgrees
<1>6. \A s \in SUBSET K : f[s] \in Nat /\ \A x \in s : f[s] = HEADER + sz[x] + f[s \ {x}]
  <2>1. IsFiniteSet(K) /\ IsSum(sz, K, f) /\ \A x \in K : sz[x] \in Nat
    BY <1>1
  <2> QED BY <2>1, SumAgrees
<1> DEFINE S == {n \in Nat : \A s \in SUBSET K : Cardinality(s) <= n /\ L \subseteq s => f[L] <= f[s]}
<1>7. 0 \in S
  <2>1. ASSUME NEW s \in SUBSET K, Cardinality(s) <= 0, L \subseteq s PROVE f[L] <= f[s]
    <3>1. Cardinality(s) = 0
      BY <2>1, SubsetFacts
    <3>2. s = {} /\ L = {}
      BY <2>1, <3>1, SubsetFacts
    <3> QED BY <1>6, <3>2
  <2> QED BY <2>1
<1>8. ASSUME NEW n \in Nat, n \in S PROVE n + 1 \in S
  <2>1. ASSUME NEW s \in SUBSET K, Cardinality(s) <= n + 1, L \subseteq s, s # L PROVE f[L] <= f[s]
    <3>1. PICK x \in s : x \notin L
      BY <2>1
    <3>2. s \ {x} \in SUBSET K /\ Cardinality(s \ {x}) = Cardinality(s) - 1 /\ Cardinality(s) \in Nat
      BY SubsetFacts
    <3>3. Cardinality(s \ {x}) <= n /\ L \subseteq s \ {x}
      BY <2>1, <3>1, <3>2
    <3>4. f[L] <= f[s \ {x}]
      BY <1>8, <3>2, <3>3
    <3>5. f[s] = HEADER + sz[x] + f[s \ {x}] /\ sz[x] \in Nat /\ f[s \ {x}] \in Nat /\ f[L] \in Nat
      BY <1>6, <3>2
    <3> QED BY <3>4, <3>5 DEF HEADER
  <2>2. f[L] <= f[L]
    BY <1>6
  <2> QED BY <2>1, <2>2
<1>9. Nat \subseteq S
  <2> HIDE DEF S
  <2> QED BY <1>7, <1>8, Induction
<1>10. Cardinality(K) \in S /\ Cardinality(K) <= Cardinality(K)
  BY <1>9, FS_CardinalityType
<1>11. f[L] <= f[K]
  BY <1>10
<1> QED BY <1>1, <1>3, <1>5, <1>6, <1>11

-----------------------------------------------------------------------------
(* The walk *)

\* The defining equation of Node.
IsNode(f) ==
    f = [k \in 0..INIT_BUF_SIZE |->
            IF k = 0 THEN free_list_head
            ELSE LET prev == f[k-1] IN IF prev = NULL THEN NULL ELSE next[prev]]

LEMMA NodeExists == \E f : IsNode(f)
<1> DEFINE B == INIT_BUF_SIZE
           Go(x) == IF x = NULL THEN NULL ELSE next[x]
           Right(f, k) == f[k] = IF k = 0 THEN free_list_head ELSE Go(f[k-1])
           S == {n \in Nat : \E f : /\ f = [k \in 0..B |-> f[k]]
                                    /\ \A k \in 0..B : k <= n => Right(f, k)}
<1>0. B \in Nat
  BY BufferAssumption
<1> HIDE DEF Go, B
<1>1. 0 \in S
  <2> DEFINE f == [k \in 0..B |-> free_list_head]
  <2>1. f = [k \in 0..B |-> f[k]] /\ \A k \in 0..B : k <= 0 => Right(f, k)
    BY <1>0
  <2> HIDE DEF Right
  <2> QED BY <2>1
<1>2. ASSUME NEW n \in Nat, n \in S PROVE n + 1 \in S
  <2>1. PICK f : /\ f = [k \in 0..B |-> f[k]]
                 /\ \A k \in 0..B : k <= n => Right(f, k)
    BY <1>2
  <2> DEFINE g == [k \in 0..B |-> IF k = n + 1 THEN Go(f[k - 1]) ELSE f[k]]
  <2>2. /\ g = [k \in 0..B |-> g[k]]
        /\ \A k \in 0..B : k # n + 1 => g[k] = f[k]
        /\ \A k \in 0..B : k = n + 1 => g[k] = Go(f[k - 1])
    OBVIOUS
  <2> HIDE DEF g
  <2>3. ASSUME NEW k \in 0..B, k <= n + 1 PROVE Right(g, k)
    <3>1. k # 0 => k - 1 \in 0..B /\ k - 1 # n + 1
      BY <1>0, <2>3
    <3>2. CASE k = n + 1
      BY <2>2, <3>1, <3>2
    <3>3. CASE k # n + 1
      <4>1. k <= n
        BY <1>0, <2>3, <3>3
      <4> QED BY <2>1, <2>2, <3>1, <3>3, <4>1
    <3> QED BY <3>2, <3>3
  <2>4. n + 1 \in Nat
    OBVIOUS
  <2> HIDE DEF Right
  <2> QED BY <2>2, <2>3, <2>4
<1>3. Nat \subseteq S
  <2> HIDE DEF S
  <2> QED BY <1>1, <1>2, Induction
<1>4. PICK f : /\ f = [k \in 0..B |-> f[k]]
               /\ \A k \in 0..B : k <= B => Right(f, k)
  BY <1>0, <1>3
<1> HIDE DEF Right
<1>a. \A k \in 0..B : k <= B => Right(f, k)
  BY ONLY <1>4
<1>5. ASSUME NEW k \in 0..B PROVE Right(f, k)
  <2>1. k <= B
    BY <1>0
  <2> QED BY <1>a, <2>1, Zenon
<1> DEFINE H(k) == IF k = 0 THEN free_list_head
                   ELSE LET prev == f[k-1] IN IF prev = NULL THEN NULL ELSE next[prev]
<1>6. \A k \in 0..B : f[k] = H(k)
  BY <1>5 DEF Right, Go
<1> HIDE DEF H
<1>7. [k \in 0..B |-> f[k]] = [k \in 0..B |-> H(k)]
  BY ONLY <1>6
<1>8. f = [k \in 0..B |-> H(k)]
  BY ONLY <1>4, <1>7
<1> QED BY <1>8 DEF IsNode, H, B

LEMMA NodeSteps ==
    /\ DOMAIN Node = 0..INIT_BUF_SIZE
    /\ Node[0] = free_list_head
    /\ \A k \in 0..INIT_BUF_SIZE : k # 0 => Node[k] = IF Node[k-1] = NULL THEN NULL ELSE next[Node[k-1]]
<1>1. IsNode(Node)
  <2>1. Node = CHOOSE f : IsNode(f)
    BY DEF Node, IsNode
  <2> QED BY <2>1, NodeExists
<1> HIDE DEF Node
<1> QED BY <1>1, BufferAssumption DEF IsNode

\* The chunks C begin behind the static head, with room for a header and a byte.
Spaced(C) ==
    /\ \A c \in C : HEADER <= c
    /\ \A c, d \in C : c < d => c + HEADER + 1 <= d

\* The walk goes from the static head over all free chunks and ends.
LEMMA Walk ==
    ASSUME free_list_head = 0, NEW F, F \subseteq Addr, Spaced(F), Linked(next, F)
    PROVE  /\ \A k \in 0..INIT_BUF_SIZE : Node[k] = NULL \/ Node[k] \in F \union {0}
           /\ \E k \in 0..INIT_BUF_SIZE : Node[k] = NULL
           /\ FreeChunks = F
<1> DEFINE B == INIT_BUF_SIZE
           Seen(k, i) == \E m \in 0..B : m <= k /\ Node[m] = i
           Over(k) == Node[k] = NULL /\ \A i \in F : Seen(k, i)
           On(k, p) == Node[k] = p /\ 5 * k <= p + 1 /\ \A i \in F : i <= p => Seen(k, i)
           S == {n \in Nat : n <= B => Over(n) \/ \E p \in F \union {0} : On(n, p)}
<1>0. B \in Nat /\ B > 8
  BY SizeFacts
<1>a. /\ \A p \in F \union {0} : p # NULL /\ p \in Nat /\ p <= 2 * B
      /\ \A i \in F : i >= 4
      /\ \A i, j \in F : i < j => i + 5 <= j
  BY SizeFacts DEF Spaced
<1>1. 0 \in S
  <2>1. On(0, 0)
    <3>1. Node[0] = 0 /\ 5 * 0 <= 0 + 1 /\ \A i \in F : ~ (i <= 0)
      BY <1>a, NodeSteps
    <3> QED BY <3>1
  <2> HIDE DEF On
  <2> QED BY <2>1
<1>2. ASSUME NEW n \in Nat, n \in S PROVE n + 1 \in S
  <2> SUFFICES ASSUME n + 1 <= B PROVE Over(n + 1) \/ \E p \in F \union {0} : On(n + 1, p)
    OBVIOUS
  <2>1. n + 1 \in 0..B /\ n \in 0..B /\ n + 1 # 0 /\ n + 1 - 1 = n
    BY <1>0
  <2>2. Node[n + 1] = IF Node[n] = NULL THEN NULL ELSE next[Node[n]]
    BY <2>1, NodeSteps
  <2>3. \A i \in F : Seen(n, i) => Seen(n + 1, i)
    BY <2>1
  <2>4. CASE Over(n)
    BY <2>2, <2>3, <2>4
  <2>5. ASSUME NEW p \in F \union {0}, On(n, p)
        PROVE  Over(n + 1) \/ \E q \in F \union {0} : On(n + 1, q)
    <3>1. Node[n + 1] = next[p] /\ 5 * n <= p + 1 /\ \A i \in F : i <= p => Seen(n + 1, i)
      BY <1>a, <2>2, <2>3, <2>5
    <3>2. Link(F, p, next[p])
      BY DEF Linked
    <3>3. CASE Final(F, p) /\ next[p] = NULL
      BY <3>1, <3>3 DEF Final
    <3>4. ASSUME NEW i \in F, Behind(F, p, i), next[p] = i PROVE On(n + 1, i)
      <4>1. Node[n + 1] = i /\ Seen(n + 1, i)
        BY <2>1, <3>1, <3>4
      <4>2. p < i /\ 5 * (n + 1) <= i + 1
        <5>1. p < i
          BY <3>4 DEF Behind
        <5>2. CASE p \in F
          BY <1>a, <3>1, <5>1, <5>2
        <5>3. CASE p = 0
          BY <1>a, <3>1, <5>1, <5>3
        <5> QED BY <5>1, <5>2, <5>3
      <4>3. ASSUME NEW h \in F, h <= i PROVE Seen(n + 1, h)
        <5>1. h <= p \/ h = i
          BY <1>a, <3>4, <4>3 DEF Behind
        <5> HIDE DEF Seen
        <5> QED BY <3>1, <4>1, <5>1
      <4> HIDE DEF Seen
      <4> QED BY <4>1, <4>2, <4>3
    <3>5. ASSUME next[p] \in F /\ Behind(F, p, next[p]) PROVE On(n + 1, next[p])
      <4> HIDE DEF On
      <4> QED BY <3>4, <3>5
    <3> HIDE DEF On, Over
    <3> QED BY <3>2, <3>3, <3>5 DEF Link
  <2> HIDE DEF On, Over
  <2> QED BY <1>2, <2>1, <2>4, <2>5
<1>3. Nat \subseteq S
  <2> HIDE DEF S
  <2> QED BY <1>1, <1>2, Induction
<1>4. \A k \in 0..B : Over(k) \/ \E p \in F \union {0} : On(k, p)
  <2> HIDE DEF Over, On
  <2> QED BY <1>0, <1>3
<1>5. Over(B)
  <2>1. ASSUME NEW p \in F \union {0}, On(B, p) PROVE FALSE
    <3>1. 5 * B <= p + 1 /\ p <= 2 * B /\ p \in Nat
      BY <1>a, <2>1
    <3> QED BY <1>0, <3>1
  <2> HIDE DEF Over, On
  <2> QED BY <1>0, <1>4, <2>1
<1>6. \A k \in 0..B : Node[k] = NULL \/ Node[k] \in F \union {0}
  BY <1>4
<1>7. FreeChunks = F
  <2>1. ASSUME NEW k \in 0..B, Node[k] \notin {0, NULL} PROVE Node[k] \in F
    BY <1>6, <2>1
  <2>2. ASSUME NEW j \in F PROVE j \notin {0, NULL} /\ \E k \in 0..B : Node[k] = j
    <3>1. j # 0 /\ j # NULL
      BY <1>a
    <3> QED BY <1>5, <3>1
  <2> QED BY <2>1, <2>2 DEF FreeChunks
<1> QED BY <1>0, <1>5, <1>6, <1>7

\* Where a loop ends that looks for a free chunk in S, and where it was before.
LEMMA WalkEnds ==
    ASSUME free_list_head = 0, NEW F, F \subseteq Addr, Spaced(F), Linked(next, F),
           NEW S, NEW k \in Steps(S), Node[k] # NULL
    PROVE  /\ k \in 0..INIT_BUF_SIZE /\ Node[k] \in F \union {0} /\ Node[k] \in S
           /\ 0 \notin S => /\ k # 0 /\ Node[k-1] \in F \union {0}
                            /\ Node[k] \in F /\ Behind(F, Node[k-1], Node[k])
<1>1. k \in 0..INIT_BUF_SIZE /\ Node[k] \in S /\ INIT_BUF_SIZE \in Nat
      /\ \A j \in 0..INIT_BUF_SIZE : Node[j] = NULL => k <= j
  BY BufferAssumption DEF Steps
<1>2. Node[k] \in F \union {0}
  BY <1>1, Walk
<1>3. ASSUME 0 \notin S
      PROVE  /\ k # 0 /\ Node[k-1] \in F \union {0}
             /\ Node[k] \in F /\ Behind(F, Node[k-1], Node[k])
  <2>1. k # 0
    BY <1>1, <1>3, NodeSteps
  <2>2. k - 1 \in 0..INIT_BUF_SIZE /\ ~ (k <= k - 1)
    BY <1>1, <2>1
  <2>3. Node[k-1] # NULL
    BY <1>1, <2>2
  <2>4. Node[k-1] \in F \union {0}
    BY <2>2, <2>3, Walk
  <2>5. Node[k] = next[Node[k-1]]
    BY <1>1, <2>1, <2>3, NodeSteps
  <2>6. Link(F, Node[k-1], Node[k])
    BY <2>4, <2>5 DEF Linked
  <2> QED BY <2>1, <2>4, <2>6 DEF Link
<1> QED BY <1>1, <1>2, <1>3

-----------------------------------------------------------------------------
(* The inductive invariant *)

\* The bytes of the chunks before c.
Prefix(sz, C, c) == Bytes(sz, {d \in C : d < c})

\* F are the free chunks, H the held ones: the list is linked in their order, no
\* chunk is empty, no byte is lost, and no chunk begins further behind its place than
\* one byte for each chunk in front of it, which has five bytes or more.
Paid(sz, C) ==
    /\ C \subseteq Addr /\ Spaced(C)
    /\ sz[0] = 0 /\ \A c \in C : sz[c] > 0
    /\ Bytes(sz, C) = INIT_BUF_SIZE - HEADER
    /\ \A c \in C : 5 * (c - HEADER) <= 6 * Prefix(sz, C, c)

Laid(sz, nx, F, H) == F \cap H = {} /\ Linked(nx, F) /\ Paid(sz, F \union H)

\* No two users hold the same block.
OneHolder == \A b, d \in live \union lost : b.ptr = d.ptr => b = d

\* Only what lies behind the buffer is refused.
LostBehind == \A b \in lost : b.ptr > INIT_BUF_SIZE - 1

Inv ==
    /\ TypeOK
    /\ OneHolder
    /\ LostBehind
    /\ free_list_head = NULL => live = {} /\ lost = {}
    /\ free_list_head = 0 => \E F : Laid(size, next, F, Held)

LEMMA Initially == Init => Inv
BY BufferAssumption, NoAddressAssumption DEF Init, Inv, TypeOK, OneHolder, LostBehind, Block

\* The chunks, and what each may take: its end, and where its block begins, are
\* addresses.
LEMMA LaidFacts ==
    ASSUME NEW sz \in [Addr -> 0..INIT_BUF_SIZE], NEW C, Paid(sz, C), NEW j \in C
    PROVE  /\ C \subseteq Addr /\ C \subseteq Nat /\ IsFiniteSet(C)
           /\ \A c \in C : sz[c] \in 1..INIT_BUF_SIZE /\ c >= 4 /\ c \in Nat /\ c \in Addr
           /\ Prefix(sz, C, j) \in Nat
           /\ 5 * (j - 4) <= 6 * Prefix(sz, C, j)
           /\ Prefix(sz, C, j) + 4 + sz[j] <= INIT_BUF_SIZE - 4
           /\ 5 * (j + 4 + sz[j]) <= 10 * INIT_BUF_SIZE
           /\ Payload(j) \in Addr /\ Payload(j) = j + 5
<1>1. C \subseteq Addr /\ C \subseteq Nat /\ IsFiniteSet(C)
  BY SizeFacts, FS_Subset DEF Paid
<1>2. \A c \in C : sz[c] \in 1..INIT_BUF_SIZE /\ c >= 4 /\ c \in Nat /\ c \in Addr
  <2>1. \A c \in C : c \in Addr /\ c \in Nat /\ sz[c] \in 0..INIT_BUF_SIZE /\ sz[c] > 0 /\ HEADER <= c
    BY <1>1 DEF Paid, Spaced
  <2> QED BY <2>1, SizeFacts
<1>3. 5 * (j - 4) <= 6 * Prefix(sz, C, j) /\ Bytes(sz, C) = INIT_BUF_SIZE - 4
  BY SizeFacts DEF Paid
<1> DEFINE L == {d \in C : d < j}
<1>4. L \in SUBSET C /\ j \notin L /\ L \union {j} \in SUBSET C
  BY <1>2
<1>5. IsFiniteSet(L) /\ \A c \in C : sz[c] \in Nat
  BY <1>1, <1>2, <1>4, FS_Subset, SizeFacts
<1>6. Bytes(sz, L) \in Nat /\ Bytes(sz, L \union {j}) = HEADER + sz[j] + Bytes(sz, L)
  <2> HIDE DEF L
  <2>1. \A c \in L \union {j} : sz[c] \in Nat
    BY <1>4, <1>5
  <2> QED BY <1>4, <1>5, <2>1, BytesAdd
<1>7. Bytes(sz, L \union {j}) <= Bytes(sz, C)
  <2> HIDE DEF L
  <2> QED BY <1>1, <1>4, <1>5, BytesSubset
<1>8. Prefix(sz, C, j) = Bytes(sz, L)
  BY DEF Prefix
<1> HIDE DEF L
<1> PICK P : P = Prefix(sz, C, j)
  OBVIOUS
<1> PICK B : B = Bytes(sz, L)
  OBVIOUS
<1> PICK T : T = Bytes(sz, L \union {j})
  OBVIOUS
<1>9. P \in Nat /\ P + 4 + sz[j] <= INIT_BUF_SIZE - 4 /\ 5 * (j - 4) <= 6 * P
  <2>1. B \in Nat /\ T = HEADER + sz[j] + B
    BY <1>6
  <2>2. T <= INIT_BUF_SIZE - 4
    BY <1>3, <1>7
  <2>3. P = B
    BY <1>8
  <2>4. 5 * (j - 4) <= 6 * P
    BY <1>3
  <2>5. HEADER = 4 /\ sz[j] \in Nat
    BY <1>5, SizeFacts
  <2> QED BY ONLY <2>1, <2>2, <2>3, <2>4, <2>5
<1>10. j \in Nat /\ sz[j] \in Nat /\ sz[j] >= 1 /\ INIT_BUF_SIZE \in Nat /\ INIT_BUF_SIZE > 8
  BY <1>2, <1>5, SizeFacts
<1>11. 5 * (j + 4 + sz[j]) <= 10 * INIT_BUF_SIZE /\ 5 * (j + 5) <= 10 * INIT_BUF_SIZE
  BY ONLY <1>9, <1>10
<1>12. Payload(j) = j + 5 /\ Payload(j) \in Addr
  <2>1. Payload(j) = j + 5
    BY <1>10 DEF Payload, HEADER
  <2> QED BY <1>10, <1>11, <2>1, SizeFacts
<1> QED BY <1>1, <1>2, <1>9, <1>11, <1>12

\* The chunks of a laid out buffer.
LEMMA LaidChunks ==
    ASSUME free_list_head = 0, TypeOK, NEW F, Laid(size, next, F, Held)
    PROVE  FreeChunks = F /\ Chunks = F \union Held
<1>1. F \subseteq Addr /\ Spaced(F) /\ Linked(next, F)
  BY DEF Laid, Paid, Spaced
<1>2. FreeChunks = F
  BY <1>1, Walk
<1> QED BY <1>2 DEF Chunks

\* The buffer becomes one chunk.
LEMMA InitKeeps ==
    ASSUME Inv, init_free_list PROVE Inv'
<1>1. live' = {} /\ lost' = {} /\ free_list_head' = 0 /\ Held' = {}
  BY DEF Inv, init_free_list, Held
<1>2. TypeOK'
  BY <1>1, SizeFacts DEF Inv, TypeOK, init_free_list
<1>3. /\ size'[0] = 0 /\ size'[4] = INIT_BUF_SIZE - 8
      /\ next'[0] = 4 /\ next'[4] = NULL
  BY SizeFacts DEF Inv, TypeOK, init_free_list
<1>4. Linked(next', {4})
  BY <1>3 DEF Linked, Link, Behind, Final
<1>5. size'[4] \in Nat /\ size'[4] > 0
  BY <1>3, SizeFacts
<1>6. Bytes(size', {}) = 0 /\ Bytes(size', {4}) = INIT_BUF_SIZE - HEADER
  <2>1. IsFiniteSet({}) /\ 4 \notin {} /\ \A c \in {} \union {4} : size'[c] \in Nat
    BY <1>5, FS_EmptySet
  <2>2. Bytes(size', {} \union {4}) = HEADER + size'[4] + Bytes(size', {})
    BY <2>1, BytesAdd
  <2>3. Bytes(size', {}) = 0
    <3>1. PICK f : IsSum(size', {}, f) /\ Bytes(size', {}) = f[{}]
      BY <2>1, BytesAreSum
    <3> QED BY <3>1 DEF IsSum
  <2>4. {} \union {4} = {4}
    OBVIOUS
  <2> QED BY <1>3, <2>2, <2>3, <2>4, SizeFacts
<1>7. Prefix(size', {4}, 4) = 0
  <2>1. {d \in {4} : d < 4} = {}
    OBVIOUS
  <2> QED BY <1>6, <2>1 DEF Prefix
<1>8. Laid(size', next', {4}, {})
  <2>1. {4} \union {} = {4} /\ {4} \cap {} = {} /\ {4} \subseteq Addr /\ Spaced({4})
    BY SizeFacts DEF Spaced
  <2>2. \A c \in {4} : 5 * (c - HEADER) <= 6 * Prefix(size', {4}, c)
    BY <1>7, SizeFacts
  <2> QED BY <1>3, <1>4, <1>5, <1>6, <2>1, <2>2 DEF Laid, Paid
<1> QED BY <1>1, <1>2, <1>8, SizeFacts DEF Inv, OneHolder, LostBehind

-----------------------------------------------------------------------------
(* What split, whole allocation, merge and insertion make of the chunks *)

\* No chunk reaches into another.
Apart(sz, C) == \A c, d \in C : c < d => c + 5 + sz[c] <= d

\* A chunk is handed out whole.
LEMMA TakeLaid ==
    ASSUME NEW sz, NEW nx \in [Addr -> Addr \union {NULL}], NEW F, NEW H, Laid(sz, nx, F, H),
           NEW p \in F \union {0}, NEW j \in F, Behind(F, p, j)
    PROVE  Laid(sz, [nx EXCEPT ![p] = nx[j]], F \ {j}, H \union {j})
<1>1. F \subseteq Addr \ {0} /\ Linked(nx, F)
  BY SizeFacts DEF Laid, Paid, Spaced
<1>2. Linked([nx EXCEPT ![p] = nx[j]], F \ {j})
  BY <1>1, LinkRemove
<1>3. (F \ {j}) \union (H \union {j}) = F \union H
  OBVIOUS
<1>4. F \cap H = {} => (F \ {j}) \cap (H \union {j}) = {}
  OBVIOUS
<1> QED BY <1>2, <1>3, <1>4 DEF Laid

\* A chunk comes back to the list and meets none there.
LEMMA PutLaid ==
    ASSUME NEW sz, NEW nx \in [Addr -> Addr \union {NULL}], NEW F, NEW H, Laid(sz, nx, F, H),
           NEW p \in F \union {0}, NEW j \in H, p < j, \A h \in F : p < h => j < h
    PROVE  Laid(sz, [nx EXCEPT ![j] = nx[p], ![p] = j], F \union {j}, H \ {j})
<1>1. F \subseteq Addr \ {0} /\ Linked(nx, F) /\ j \in Addr
  BY SizeFacts DEF Laid, Paid, Spaced
<1>2. Linked([nx EXCEPT ![j] = nx[p], ![p] = j], F \union {j})
  BY <1>1, LinkInsert
<1>3. (F \union {j}) \union (H \ {j}) = F \union H
  OBVIOUS
<1>4. F \cap H = {} => (F \union {j}) \cap (H \ {j}) = {}
  OBVIOUS
<1> QED BY <1>2, <1>3, <1>4 DEF Laid

\* What takes the same bytes before c in the same chunks.
LEMMA PrefixSame ==
    ASSUME NEW sy, NEW sz, NEW C, NEW D, NEW c, IsFiniteSet(C),
           {d \in C : d < c} = {d \in D : d < c},
           \A d \in C : d < c => sy[d] \in Nat /\ sy[d] = sz[d]
    PROVE  Prefix(sz, D, c) = Prefix(sy, C, c)
<1> DEFINE L == {d \in C : d < c}
<1>1. IsFiniteSet(L)
  BY FS_Subset
<1>2. \A d \in L : sy[d] \in Nat /\ sy[d] = sz[d]
  OBVIOUS
<1>3. Prefix(sz, D, c) = Bytes(sz, L) /\ Prefix(sy, C, c) = Bytes(sy, L)
  BY DEF Prefix
<1> HIDE DEF L
<1> QED BY <1>1, <1>2, <1>3, BytesSame

\* Where the second part of a chunk begins that is split.
LEMMA SplitFits ==
    ASSUME NEW sz \in [Addr -> 0..INIT_BUF_SIZE], NEW C, Paid(sz, C), Apart(sz, C), NEW j \in C,
           NEW s \in Nat, s > 0, sz[j] - s - 4 > 0, NEW e, e = j + 5 + s
    PROVE  /\ j \in Nat /\ sz[j] \in Nat /\ e \in Nat /\ j < e /\ e < j + 5 + sz[j]
           /\ e \in Addr /\ e \notin C /\ e # j /\ e # 0 /\ j # 0 /\ j \in Addr
           /\ \A d \in C : j < d => j + 5 + sz[j] <= d /\ e < d
           /\ \A d \in C : d < e => d <= j
           /\ s \in 0..INIT_BUF_SIZE /\ sz[j] - s - 4 \in 0..INIT_BUF_SIZE
<1>1. /\ \A c \in C : sz[c] \in 1..INIT_BUF_SIZE /\ c >= 4 /\ c \in Nat /\ c \in Addr
      /\ 5 * (j + 4 + sz[j]) <= 10 * INIT_BUF_SIZE
  BY LaidFacts
<1>2. j \in Nat /\ sz[j] \in Nat /\ e \in Nat /\ j < e /\ e < j + 5 + sz[j] /\ INIT_BUF_SIZE \in Nat
  BY <1>1, SizeFacts
<1>3. ASSUME NEW d \in C, j < d PROVE j + 5 + sz[j] <= d /\ e < d
  <2>1. j + 5 + sz[j] <= d /\ d \in Nat
    BY <1>1, <1>3 DEF Apart
  <2> QED BY <1>2, <2>1
<1>4. ASSUME NEW d \in C, d < e PROVE d <= j
  <2>1. d \in Nat /\ (j < d => e < d)
    BY <1>1, <1>3
  <2> QED BY <1>2, <1>4, <2>1
<1>5. e \in Addr
  <2>1. e <= 2 * INIT_BUF_SIZE
    BY <1>1, <1>2
  <2> QED BY <1>2, <2>1, SizeFacts
<1>6. e \notin C
  BY <1>2, <1>3
<1>7. j # 0 /\ j \in Addr /\ sz[j] \in 0..INIT_BUF_SIZE
  BY <1>1
<1>8. s \in 0..INIT_BUF_SIZE /\ sz[j] - s - 4 \in 0..INIT_BUF_SIZE
  BY <1>2, <1>7
<1> QED BY <1>2, <1>3, <1>4, <1>5, <1>6, <1>7, <1>8

\* The second part takes the place of the chunk on the list.
LEMMA LinkSplit ==
    ASSUME NEW nx \in [Addr -> Addr \union {NULL}], NEW F, F \subseteq Addr \ {0}, Linked(nx, F),
           NEW p \in F \union {0}, NEW j \in F, Behind(F, p, j),
           NEW e \in Addr, j < e, \A h \in F : j < h => e < h
    PROVE  /\ [nx EXCEPT ![e] = nx[j], ![p] = e] \in [Addr -> Addr \union {NULL}]
           /\ Linked([nx EXCEPT ![e] = nx[j], ![p] = e], (F \ {j}) \union {e})
<1> DEFINE n == [nx EXCEPT ![p] = nx[j]]
           G == F \ {j}
           x == [n EXCEPT ![e] = n[p], ![p] = e]
<1>1. p \in Addr /\ p \in Nat /\ j \in Addr /\ j \in Nat /\ e \in Nat /\ p < j /\ p # e
  <2>1. p \in Addr /\ p \in Nat /\ j \in Addr /\ j \in Nat /\ e \in Nat
    BY SizeFacts
  <2>2. p < j
    BY DEF Behind
  <2> QED BY <2>1, <2>2
<1>2. Linked(n, G)
  BY LinkRemove
<1>3. nx[j] \in Addr \union {NULL}
  BY <1>1
<1>4. n \in [Addr -> Addr \union {NULL}] /\ n[p] = nx[j]
  BY <1>1, <1>3
<1>5. x = [nx EXCEPT ![e] = nx[j], ![p] = e] /\ x \in [Addr -> Addr \union {NULL}]
  BY <1>1, <1>3, <1>4
<1>6. p \in G \union {0} /\ p < e /\ (\A h \in G : p < h => e < h) /\ G \subseteq Addr \ {0}
  <2>1. ASSUME NEW h \in G, p < h PROVE e < h
    <3>1. j <= h /\ h # j /\ h \in Nat
      BY <2>1, SizeFacts DEF Behind
    <3>2. j < h
      BY <1>1, <3>1
    <3> QED BY <3>2
  <2> QED BY <1>1, <2>1
<1>7. Linked(x, G \union {e})
  <2> HIDE DEF n, G
  <2> QED BY <1>2, <1>4, <1>6, LinkInsert
<1> HIDE DEF x
<1> QED BY <1>5, <1>7

\* A chunk is split and its first part handed out: the second begins one byte further
\* than the two headers and sizes account for.
LEMMA SplitPaid ==
    ASSUME NEW sz \in [Addr -> 0..INIT_BUF_SIZE], NEW C, Paid(sz, C), Apart(sz, C), NEW j \in C,
           NEW s \in Nat, s > 0, sz[j] - s - 4 > 0, NEW e, e = j + 5 + s,
           NEW z \in [Addr -> 0..INIT_BUF_SIZE], z[j] = s, z[e] = sz[j] - s - 4,
           \A a \in Addr : a # j /\ a # e => z[a] = sz[a],
           NEW D, D = C \union {e}
    PROVE  /\ Paid(z, D)
           /\ Apart(z, D) <=> j + 5 + sz[j] \notin C
<1>1. /\ C \subseteq Addr /\ C \subseteq Nat /\ IsFiniteSet(C)
      /\ \A c \in C : sz[c] \in 1..INIT_BUF_SIZE /\ c >= 4 /\ c \in Nat /\ c \in Addr
      /\ Prefix(sz, C, j) \in Nat
      /\ 5 * (j - 4) <= 6 * Prefix(sz, C, j)
  BY LaidFacts
<1>2. /\ sz[0] = 0 /\ HEADER = 4
      /\ Bytes(sz, C) = INIT_BUF_SIZE - HEADER /\ Spaced(C)
      /\ \A c \in C : 5 * (c - HEADER) <= 6 * Prefix(sz, C, c)
  BY SizeFacts DEF Paid
<1>3. j \in Nat /\ sz[j] \in Nat /\ e \in Nat /\ j < e /\ e < j + 5 + sz[j] /\ INIT_BUF_SIZE \in Nat
  BY SplitFits, SizeFacts
<1>5. e \in Addr /\ e \notin C /\ e # j /\ e # 0 /\ j # 0 /\ j \in Addr
  BY SplitFits
<1>4. /\ \A d \in C : j < d => j + 5 + sz[j] <= d
      /\ \A d \in C : d < e => d <= j
  BY SplitFits
<1>7. z[0] = 0
  BY <1>2, <1>5, SizeFacts
<1>12. D \subseteq Addr
  BY <1>1, <1>5
<1>14. Spaced(D)
  <2>1. \A c \in D : HEADER <= c
    BY <1>1, <1>2, <1>3
  <2>2. ASSUME NEW c \in D, NEW d \in D, c < d PROVE c + HEADER + 1 <= d
    <3>1. CASE c \in C /\ d \in C
      BY <1>2, <2>2, <3>1 DEF Spaced
    <3>2. CASE c \in C /\ d = e
      <4>1. c <= j /\ c \in Nat
        BY <1>1, <1>4, <2>2, <3>2
      <4> QED BY <1>2, <1>3, <3>2, <4>1
    <3>3. CASE c = e /\ d \in C
      <4>1. d \in Nat /\ j < d
        BY <1>1, <1>3, <2>2, <3>3
      <4>2. j + 5 + sz[j] <= d
        BY <1>4, <3>3, <4>1
      <4> QED BY <1>2, <1>3, <3>3, <4>1, <4>2
    <3> QED BY <1>3, <2>2, <3>1, <3>2, <3>3
  <2> QED BY <2>1, <2>2 DEF Spaced
<1>15. \A c \in D : z[c] > 0
  <2>1. \A c \in C : c # j => z[c] = sz[c] /\ sz[c] > 0
    BY <1>1, <1>5
  <2> QED BY <1>3, <2>1
<1>16. sz \in [Addr -> Nat] /\ z \in [Addr -> Nat] /\ z[j] + HEADER + z[e] = sz[j]
       /\ \A a \in C : a # j => z[a] = sz[a]
  <2>1. z[j] + HEADER + z[e] = sz[j]
    BY <1>2, <1>3
  <2>2. \A a \in C : a # j => z[a] = sz[a]
    BY <1>1, <1>5
  <2>3. \A a \in Addr : sz[a] \in Nat /\ z[a] \in Nat
    BY <1>3
  <2> QED BY <2>1, <2>2, <2>3
<1>17. Bytes(z, D) = INIT_BUF_SIZE - HEADER
  <2>1. C \subseteq Addr /\ IsFiniteSet(C) /\ j \in C /\ e \in Addr /\ e \notin C
    BY <1>1, <1>5
  <2>2. Bytes(z, C \union {e}) = Bytes(sz, C)
    BY ONLY <1>16, <2>1, BytesSplit
  <2> QED BY <1>2, <2>2
<1>18. ASSUME NEW c \in D PROVE 5 * (c - HEADER) <= 6 * Prefix(z, D, c)
  <2>1. CASE c \in C /\ c <= j
    <3>1. {d \in C : d < c} = {d \in D : d < c}
      BY <1>1, <1>3, <2>1
    <3>2. \A d \in C : d < c => sz[d] \in Nat /\ sz[d] = z[d]
      <4> SUFFICES ASSUME NEW d \in C, d < c PROVE sz[d] \in Nat /\ d # j
        BY <1>16
      <4> QED BY <1>1, <1>3, <2>1
    <3>a. IsFiniteSet(C)
      BY <1>1
    <3>3. Prefix(z, D, c) = Prefix(sz, C, c)
      BY ONLY <3>a, <3>1, <3>2, PrefixSame
    <3> QED BY <1>2, <2>1, <3>3
  <2>2. CASE c \in C /\ j < c
    <3> DEFINE L == {d \in C : d < c}
    <3>1. e < c /\ {d \in D : d < c} = L \union {e}
      <4>1. j + 5 + sz[j] <= c /\ c \in Nat
        BY <1>1, <1>4, <2>2
      <4>2. e < c
        BY <1>3, <4>1
      <4> QED BY <4>2
    <3>2. j \in L /\ L \subseteq Addr /\ IsFiniteSet(L) /\ e \notin L
      BY <1>1, <1>5, <2>2, FS_Subset
    <3>3. \A a \in L : a # j => z[a] = sz[a]
      BY <1>16
    <3>4. Prefix(sz, C, c) = Bytes(sz, L) /\ Prefix(z, D, c) = Bytes(z, L \union {e})
      BY <3>1 DEF Prefix
    <3> HIDE DEF L
    <3>a. e \in Addr /\ sz \in [Addr -> Nat] /\ z \in [Addr -> Nat] /\ z[j] + HEADER + z[e] = sz[j]
      BY <1>5, <1>16
    <3>5. Bytes(z, L \union {e}) = Bytes(sz, L)
      BY ONLY <3>a, <3>2, <3>3, BytesSplit
    <3> QED BY <1>2, <2>2, <3>4, <3>5
  <2>3. CASE c = e
    <3> DEFINE L == {d \in C : d < j}
    <3>1. {d \in D : d < e} = L \union {j}
      <4>1. \A d \in C : d < e <=> d < j \/ d = j
        <5> SUFFICES ASSUME NEW d \in C PROVE d < e <=> d < j \/ d = j
          OBVIOUS
        <5>1. d \in Nat /\ (d < e => d <= j)
          BY <1>1, <1>4
        <5> QED BY <1>3, <5>1
      <4>2. j \in C /\ e \notin C /\ ~ (e < e)
        BY <1>3, <1>5
      <4> QED BY <4>1, <4>2
    <3>2. IsFiniteSet(L) /\ j \notin L /\ L \subseteq C
      BY <1>1, <1>3, FS_Subset
    <3>3. Prefix(sz, C, j) = Bytes(sz, L) /\ Prefix(z, D, c) = Bytes(z, L \union {j})
      BY <2>3, <3>1 DEF Prefix
    <3>4. (\A d \in L \union {j} : z[d] \in Nat) /\ \A d \in L : sz[d] \in Nat /\ sz[d] = z[d]
      <4>1. \A d \in L \union {j} : d \in Addr
        BY <1>5, <3>2, <1>1
      <4> QED BY <1>16, <3>2, <4>1
    <3> HIDE DEF L
    <3>5. Bytes(z, L \union {j}) = HEADER + z[j] + Bytes(z, L)
      BY <3>2, <3>4, BytesAdd
    <3>6. Bytes(z, L) = Bytes(sz, L)
      BY <3>2, <3>4, BytesSame
    <3> PICK P : P = Prefix(sz, C, j)
      OBVIOUS
    <3>7. Prefix(z, D, c) = 4 + s + P /\ P \in Nat /\ 5 * (j - 4) <= 6 * P
      BY <1>1, <1>2, <1>7, <3>3, <3>5, <3>6
    <3>8. c = j + 5 + s
      BY <2>3
    <3>9. 5 * (c - 4) <= 6 * (4 + s + P)
      BY ONLY <1>3, <3>7, <3>8, s \in Nat, s > 0
    <3> QED BY <1>2, <3>7, <3>9
  <2> QED BY <1>1, <1>3, <2>1, <2>2, <2>3
<1>19. Paid(z, D)
  BY <1>7, <1>12, <1>14, <1>15, <1>17, <1>18 DEF Paid
<1>20. Apart(z, D) <=> j + 5 + sz[j] \notin C
  <2>1. ASSUME j + 5 + sz[j] \in C, Apart(z, D) PROVE FALSE
    <3>1. e + 5 + z[e] <= j + 5 + sz[j]
      BY <1>3, <2>1 DEF Apart
    <3> QED BY <1>3, <1>7, <3>1
  <2>2. ASSUME j + 5 + sz[j] \notin C, NEW c \in D, NEW d \in D, c < d PROVE c + 5 + z[c] <= d
    <3>0. c \in Nat /\ d \in Nat
      BY <1>1, <1>3
    <3>1. CASE c = e
      <4>1. d \in C /\ j < d
        BY <1>3, <2>2, <3>0, <3>1
      <4>2. j + 5 + sz[j] <= d /\ d # j + 5 + sz[j]
        BY <1>4, <2>2, <4>1
      <4> QED BY <1>3, <1>7, <3>0, <3>1, <4>2
    <3>2. CASE c = j
      <4>1. CASE d = e
        BY <1>7, <3>2, <4>1
      <4>2. CASE d # e
        <5>1. j + 5 + sz[j] <= d
          BY <1>4, <2>2, <3>2, <4>2
        <5> QED BY <1>3, <1>7, <3>0, <3>2, <5>1
      <4> QED BY <4>1, <4>2
    <3>3. CASE c # e /\ c # j
      <4>1. c \in C /\ z[c] = sz[c] /\ sz[c] \in Nat
        BY <1>1, <1>16, <3>3
      <4>2. CASE d \in C
        BY <2>2, <4>1, <4>2 DEF Apart
      <4>3. CASE d = e
        <5>1. c < j
          BY <1>3, <1>4, <2>2, <3>0, <3>3, <4>1, <4>3
        <5>2. c + 5 + sz[c] <= j
          BY <1>1, <4>1, <5>1 DEF Apart
        <5> QED BY <1>3, <3>0, <4>1, <4>3, <5>2
      <4> QED BY <4>2, <4>3
    <3> QED BY <3>1, <3>2, <3>3
  <2> QED BY <2>1, <2>2 DEF Apart
<1> QED BY <1>19, <1>20

\* A chunk that comes back takes the place of the one behind it on the list.
LEMMA LinkMerge ==
    ASSUME NEW nx \in [Addr -> Addr \union {NULL}], NEW F, F \subseteq Addr \ {0}, Linked(nx, F),
           NEW p \in F \union {0}, NEW i \in F, Behind(F, p, i),
           NEW j \in Addr, p < j, j < i
    PROVE  /\ [nx EXCEPT ![j] = nx[i], ![p] = j] \in [Addr -> Addr \union {NULL}]
           /\ Linked([nx EXCEPT ![j] = nx[i], ![p] = j], (F \ {i}) \union {j})
<1> DEFINE n == [nx EXCEPT ![p] = nx[i]]
           G == F \ {i}
           x == [n EXCEPT ![j] = n[p], ![p] = j]
<1>1. p \in Addr /\ p \in Nat /\ j \in Nat /\ i \in Addr /\ i \in Nat /\ p # j /\ p # i
  BY SizeFacts DEF Behind
<1>2. Linked(n, G)
  BY LinkRemove
<1>3. nx[i] \in Addr \union {NULL}
  BY <1>1
<1>4. n \in [Addr -> Addr \union {NULL}] /\ n[p] = nx[i]
  BY <1>1, <1>3
<1>5. x = [nx EXCEPT ![j] = nx[i], ![p] = j] /\ x \in [Addr -> Addr \union {NULL}]
  BY <1>1, <1>3, <1>4
<1>6. p \in G \union {0} /\ (\A h \in G : p < h => j < h) /\ G \subseteq Addr \ {0}
  <2>1. ASSUME NEW h \in G, p < h PROVE j < h
    <3>1. i <= h /\ h \in Nat
      BY <2>1, SizeFacts DEF Behind
    <3> QED BY <1>1, <3>1
  <2> QED BY <1>1, <2>1
<1>7. Linked(x, G \union {j})
  <2> HIDE DEF n, G
  <2> QED BY <1>2, <1>4, <1>6, LinkInsert
<1> HIDE DEF x
<1> QED BY <1>5, <1>7

\* It takes over the bytes of the one behind it and its header.
LEMMA MergePaid ==
    ASSUME NEW sz \in [Addr -> 0..INIT_BUF_SIZE], NEW C, Paid(sz, C), Apart(sz, C),
           NEW j \in C, NEW i \in C, i = j + 5 + sz[j],
           NEW z \in [Addr -> Nat], z[j] = sz[j] + 4 + sz[i], \A a \in Addr : a # j => z[a] = sz[a],
           NEW D, D = C \ {i}
    PROVE  /\ z \in [Addr -> 0..INIT_BUF_SIZE] /\ Paid(z, D) /\ Apart(z, D)
<1>1. /\ C \subseteq Addr /\ C \subseteq Nat /\ IsFiniteSet(C)
      /\ \A c \in C : sz[c] \in 1..INIT_BUF_SIZE /\ c >= 4 /\ c \in Nat /\ c \in Addr
  BY LaidFacts
<1>2. /\ sz[0] = 0 /\ HEADER = 4
      /\ Bytes(sz, C) = INIT_BUF_SIZE - HEADER /\ Spaced(C)
      /\ \A c \in C : 5 * (c - HEADER) <= 6 * Prefix(sz, C, c)
  BY SizeFacts DEF Paid
<1>3. j \in Nat /\ sz[j] \in Nat /\ sz[i] \in Nat /\ i \in Nat /\ j < i /\ INIT_BUF_SIZE \in Nat
      /\ INIT_BUF_SIZE > 8
  BY <1>1, SizeFacts
<1>4. \A d \in C : j < d => i <= d
  BY <1>1 DEF Apart
<1>5. i \in Addr /\ j \in Addr /\ j # 0 /\ i # j
  BY <1>1, <1>3
<1>6. z[0] = 0
  BY <1>2, <1>5, SizeFacts
<1>7. D \subseteq Addr /\ IsFiniteSet(D) /\ j \in D /\ i \notin D /\ D \union {i} = C
  BY <1>1, <1>5, FS_Subset
<1>8. Spaced(D)
  BY <1>2 DEF Spaced
<1>9. \A c \in D : z[c] > 0
  <2>1. \A c \in D : c # j => z[c] = sz[c] /\ sz[c] > 0
    BY <1>1
  <2> QED BY <1>3, <2>1
<1>10. z \in [Addr -> Nat] /\ sz \in [Addr -> Nat] /\ sz[j] + HEADER + sz[i] = z[j]
       /\ \A a \in D : a # j => sz[a] = z[a]
  <2>1. \A a \in Addr : sz[a] \in Nat
    BY <1>3
  <2> QED BY <1>2, <1>3, <1>7, <2>1
<1>11. Bytes(z, D) = INIT_BUF_SIZE - HEADER
  <2>1. Bytes(sz, D \union {i}) = Bytes(z, D)
    BY ONLY <1>5, <1>7, <1>10, BytesSplit
  <2> QED BY <1>2, <1>7, <2>1
<1>12. z \in [Addr -> 0..INIT_BUF_SIZE]
  <2>1. \A c \in D : z[c] \in Nat
    BY <1>7
  <2>2. Bytes(z, D \ {j}) \in Nat /\ Bytes(z, D) = HEADER + z[j] + Bytes(z, D \ {j})
    BY ONLY <1>7, <2>1, BytesWithout
  <2>3. z[j] \in 0..INIT_BUF_SIZE
    BY <1>2, <1>3, <1>11, <2>2
  <2>4. \A a \in Addr : z[a] \in 0..INIT_BUF_SIZE
    BY <2>3
  <2> QED BY <2>4
<1>13. ASSUME NEW c \in D PROVE 5 * (c - HEADER) <= 6 * Prefix(z, D, c)
  <2>1. CASE c <= j
    <3>1. {d \in C : d < c} = {d \in D : d < c}
      BY <1>1, <1>3, <2>1
    <3>2. \A d \in C : d < c => sz[d] \in Nat /\ sz[d] = z[d]
      <4> SUFFICES ASSUME NEW d \in C, d < c PROVE d \in Addr /\ d # j
        BY <1>10
      <4> QED BY <1>1, <1>3, <2>1
    <3>3. IsFiniteSet(C)
      BY <1>1
    <3>4. Prefix(z, D, c) = Prefix(sz, C, c)
      BY ONLY <3>1, <3>2, <3>3, PrefixSame
    <3> QED BY <1>2, <3>4
  <2>2. CASE j < c
    <3> DEFINE L == {d \in D : d < c}
    <3>1. c \in C /\ c \in Nat /\ i < c
      <4>1. c \in C /\ c \in Nat /\ c # i /\ i <= c
        BY <1>1, <1>4, <2>2
      <4> QED BY <1>3, <4>1
    <3>2. {d \in C : d < c} = L \union {i}
      BY <3>1
    <3>3. j \in L /\ L \subseteq Addr /\ IsFiniteSet(L) /\ i \notin L
      BY <1>7, <2>2, FS_Subset
    <3>4. \A a \in L : a # j => sz[a] = z[a]
      BY <1>10
    <3>5. Prefix(sz, C, c) = Bytes(sz, L \union {i}) /\ Prefix(z, D, c) = Bytes(z, L)
      BY <3>2 DEF Prefix
    <3> HIDE DEF L
    <3>6. Bytes(sz, L \union {i}) = Bytes(z, L)
      BY ONLY <1>5, <1>10, <3>3, <3>4, BytesSplit
    <3> QED BY <1>2, <3>1, <3>5, <3>6
  <2> QED BY <1>1, <1>3, <2>1, <2>2
<1>14. ASSUME NEW c \in D, NEW d \in D, c < d PROVE c + 5 + z[c] <= d
  <2>1. c \in Nat /\ d \in Nat /\ c \in C /\ d \in C
    BY <1>1
  <2>2. CASE c = j
    <3>1. i <= d /\ i # d
      BY <1>4, <1>14, <2>1, <2>2
    <3>2. i + 5 + sz[i] <= d
      BY <1>3, <2>1, <3>1 DEF Apart
    <3> QED BY <1>3, <2>1, <2>2, <3>2
  <2>3. CASE c # j
    <3>1. z[c] = sz[c]
      BY <1>10, <2>3
    <3> QED BY <1>14, <2>1, <3>1 DEF Apart
  <2> QED BY <2>2, <2>3
<1> QED BY <1>6, <1>7, <1>8, <1>9, <1>11, <1>12, <1>13, <1>14 DEF Paid, Apart

-----------------------------------------------------------------------------
(* The steps *)

\* What the chunks of a laid out buffer are.
ChunksAsLaid ==
    \A F : free_list_head = 0 /\ TypeOK /\ Laid(size, next, F, Held) =>
              /\ FreeChunks = F /\ Chunks = F \union Held
              /\ ChunksApart <=> Apart(size, F \union Held)

LEMMA ChunksLaid == ChunksAsLaid
<1> SUFFICES ASSUME NEW F, free_list_head = 0, TypeOK, Laid(size, next, F, Held)
             PROVE  /\ FreeChunks = F /\ Chunks = F \union Held
                    /\ ChunksApart <=> Apart(size, F \union Held)
  BY DEF ChunksAsLaid
<1>1. FreeChunks = F /\ Chunks = F \union Held
  BY LaidChunks
<1>2. \A c \in F \union Held : Payload(c) = c + 5
  <2>1. F \union Held \subseteq Nat
    BY SizeFacts DEF Laid, Paid
  <2> QED BY <2>1 DEF Payload, HEADER
<1> QED BY <1>1, <1>2 DEF ChunksApart, Apart

LEMMA ChunksLaidNext == ChunksAsLaid'
BY ChunksLaid, PTL

\* Nothing is on the list or held before init_free_list.
LEMMA ChunksBefore ==
    ASSUME Inv, free_list_head = NULL PROVE Chunks = {}
<1>1. live = {} /\ Held = {}
  BY DEF Inv, Held
<1> DEFINE S == {n \in Nat : n <= INIT_BUF_SIZE => Node[n] = NULL}
<1>2. 0 \in S
  BY NodeSteps
<1>3. ASSUME NEW n \in Nat, n \in S PROVE n + 1 \in S
  <2>1. n + 1 \in Nat /\ n + 1 - 1 = n /\ n + 1 # 0
    OBVIOUS
  <2>2. n + 1 <= INIT_BUF_SIZE => n + 1 \in 0..INIT_BUF_SIZE /\ n <= INIT_BUF_SIZE
    BY BufferAssumption
  <2> QED BY <1>3, <2>1, <2>2, NodeSteps
<1>4. Nat \subseteq S
  <2> HIDE DEF S
  <2> QED BY <1>2, <1>3, Induction
<1>5. \A k \in 0..INIT_BUF_SIZE : Node[k] = NULL
  BY <1>4, BufferAssumption
<1> QED BY <1>1, <1>5 DEF Chunks, FreeChunks

\* What OverlapsBySplit says of a step.
Told ==
    ~ChunksApart' <=>
        \E b \in live' \ live :
            LET c == ChunkOf(b.ptr)
            IN  size[c] - b.req > HEADER /\ Payload(c) + size[c] \in Chunks

\* A step that hands out no chunk tells the truth if the chunks stay apart.
LEMMA ToldApart == ASSUME live' \subseteq live, ChunksApart' PROVE Told
BY DEF Told

\* The blocks of a buffer in use.
LEMMA HeldFacts ==
    ASSUME TypeOK
    PROVE  \A b \in live \union lost :
              /\ b.ptr \in Nat /\ ChunkOf(b.ptr) \in Int /\ ChunkOf(b.ptr) \in Held
              /\ b.ptr = ChunkOf(b.ptr) + 5
<1> SUFFICES ASSUME NEW b \in live \union lost
             PROVE  /\ b.ptr \in Nat /\ ChunkOf(b.ptr) \in Int /\ ChunkOf(b.ptr) \in Held
                    /\ b.ptr = ChunkOf(b.ptr) + 5
  OBVIOUS
<1>1. b.ptr \in Nat
  BY SizeFacts DEF TypeOK, Block
<1> QED BY <1>1 DEF ChunkOf, HEADER, Held

\* Where the chunks stay as they are laid out, they stay apart.
LEMMA StayApart ==
    ASSUME free_list_head = 0, TypeOK, ChunksApart, NEW F, Laid(size, next, F, Held),
           free_list_head' = 0, TypeOK', NEW G, Laid(size', next', G, Held'),
           size' = size, G \union Held' = F \union Held
    PROVE  ChunksApart'
<1>1. Apart(size, F \union Held)
  BY ChunksLaid DEF ChunksAsLaid
<1>2. ChunksApart' <=> Apart(size', G \union Held')
  BY ChunksLaidNext DEF ChunksAsLaid
<1> QED BY <1>1, <1>2

\* my_malloc takes the first chunk that is large enough, and puts what it leaves back
\* in its place.
LEMMA MallocKeeps ==
    ASSUME SomeBytes, Inv, ChunksApart, free_list_head = 0, NEW s \in Sizes,
           my_malloc(s), UNCHANGED <<lost, free_list_head>>
    PROVE  Inv' /\ Told
<1>0. /\ s > 0 /\ s \in Nat /\ TypeOK /\ NULL # 0 /\ INIT_BUF_SIZE \in Nat /\ HEADER = 4 /\ NULL \notin Int
      /\ next \in [Addr -> Addr \union {NULL}] /\ size \in [Addr -> 0..INIT_BUF_SIZE]
      /\ free_list_head' = 0 /\ lost' = lost
  BY SizeFacts DEF Inv, TypeOK
<1>1. PICK F : Laid(size, next, F, Held)
  BY DEF Inv
<1> DEFINE C == F \union Held
<1>2. /\ F \subseteq Addr \ {0} /\ Linked(next, F) /\ F \cap Held = {} /\ Paid(size, C) /\ Spaced(F)
      /\ size[0] = 0
  <2>1. Linked(next, F) /\ F \cap Held = {} /\ Paid(size, C)
    BY <1>1 DEF Laid
  <2>2. C \subseteq Addr /\ Spaced(C) /\ size[0] = 0
    BY <2>1 DEF Paid
  <2>3. F \subseteq C /\ \A c \in C : HEADER <= c
    BY <2>2 DEF Spaced
  <2> QED BY <1>0, <2>1, <2>2, <2>3 DEF Spaced
<1>3. Chunks = C /\ Apart(size, C)
  BY <1>0, <1>1, ChunksLaid DEF ChunksAsLaid
<1>4. PICK k \in Steps(Fits(s)) :
        LET cur  == Node[k]
            prev == Node[IF k = 0 THEN 0 ELSE k - 1]
            new  == SplitAt(cur, s)
        IN  \/ cur = NULL /\ UNCHANGED <<size, next, live>>
            \/ /\ cur # NULL /\ Splits(cur, s)
               /\ size' = [size EXCEPT ![cur] = s, ![new] = Remainder(cur, s)]
               /\ next' = [next EXCEPT ![new] = next[cur], ![prev] = new]
               /\ live' = live \union {[ptr |-> Payload(cur), req |-> s]}
            \/ /\ cur # NULL /\ ~Splits(cur, s)
               /\ next' = [next EXCEPT ![prev] = next[cur]]
               /\ live' = live \union {[ptr |-> Payload(cur), req |-> s]}
               /\ UNCHANGED size
  BY DEF my_malloc
<1>5. CASE Node[k] = NULL
  <2>1. live' = live /\ size' = size /\ next' = next
    BY <1>4, <1>5
  <2>2. Held' = Held
    BY <1>0, <2>1 DEF Held
  <2>3. TypeOK' /\ OneHolder' /\ LostBehind' /\ Laid(size', next', F, Held')
    BY <1>0, <1>1, <2>1, <2>2 DEF Inv, TypeOK, OneHolder, LostBehind
  <2>4. Inv'
    BY <1>0, <2>3 DEF Inv
  <2>5. F \union Held' = F \union Held
    BY <2>2
  <2>6. ChunksApart'
    BY <1>0, <1>1, <2>1, <2>3, <2>5, StayApart
  <2> QED BY <2>1, <2>4, <2>6, ToldApart
<1>6. CASE Node[k] # NULL
  <2>1. 0 \notin Fits(s)
    BY <1>0, <1>2 DEF Fits
  <2>2. PICK p \in F \union {0}, j \in F :
           k # 0 /\ Node[k-1] = p /\ Behind(F, p, j) /\ Node[k] = j /\ j \in Fits(s)
    <3>1. F \subseteq Addr
      BY <1>2
    <3>2. /\ k # 0 /\ Node[k-1] \in F \union {0} /\ Node[k] \in F /\ Node[k] \in Fits(s)
          /\ Behind(F, Node[k-1], Node[k])
      BY <1>2, <1>6, <2>1, <3>1, WalkEnds
    <3> QED BY <3>2
  <2> DEFINE d == [ptr |-> Payload(j), req |-> s]
  <2>3. /\ j \in C /\ j \notin Held /\ j \in Addr /\ j \in Nat /\ size[j] \in 1..INIT_BUF_SIZE
        /\ Payload(j) \in Addr /\ Payload(j) = j + 5 /\ size[j] >= s
    <3>1. j \in C /\ j \notin Held
      BY <1>2
    <3>2. /\ j \in Addr /\ j \in Nat /\ size[j] \in 1..INIT_BUF_SIZE
          /\ Payload(j) \in Addr /\ Payload(j) = j + 5
      BY <1>0, <1>2, <3>1, LaidFacts
    <3> QED BY <2>2, <3>1, <3>2 DEF Fits
  <2>4. d \in Block /\ d.ptr = j + 5 /\ d.req = s /\ ChunkOf(d.ptr) = j
    BY <2>3 DEF Block, ChunkOf, HEADER
  <2> HIDE DEF d, C
  <2>5. live' = live \union {d}
    BY <1>4, <1>6, <2>2 DEF d
  <2>6. Held' = Held \union {j}
    BY <1>0, <2>4, <2>5 DEF Held
  <2>7. \A b \in live \union lost : b.ptr # d.ptr
    <3>1. ASSUME NEW b \in live \union lost, b.ptr = d.ptr PROVE FALSE
      <4>1. ChunkOf(b.ptr) \in Held
        BY <1>0, HeldFacts
      <4> QED BY <2>3, <2>4, <3>1, <4>1
    <3> QED BY <3>1
  <2>8. OneHolder'
    <3>1. \A b \in live' \union lost' : b \in live \union lost \/ b = d
      BY <1>0, <2>5
    <3>2. ASSUME NEW b \in live' \union lost', NEW c \in live' \union lost', b.ptr = c.ptr PROVE b = c
      BY <2>7, <3>1, <3>2 DEF Inv, OneHolder
    <3> QED BY <3>2 DEF OneHolder
  <2>9. LostBehind' /\ live' \subseteq Block /\ lost' \subseteq Block
    BY <1>0, <2>4, <2>5 DEF Inv, LostBehind, TypeOK
  <2>10. live' \ live = {d}
    BY <2>5, <2>7
  <2>11. CASE ~Splits(j, s)
    <3>1. next' = [next EXCEPT ![p] = next[j]] /\ size' = size
      BY <1>4, <1>6, <2>2, <2>11
    <3>2. Laid(size', next', F \ {j}, Held')
      BY <1>0, <1>1, <2>2, <2>6, <3>1, TakeLaid
    <3>3. next' \in [Addr -> Addr \union {NULL}]
      BY <1>0, <2>3, <3>1
    <3>4. TypeOK'
      BY <1>0, <2>9, <3>1, <3>3 DEF TypeOK
    <3>5. Inv'
      BY <1>0, <2>8, <2>9, <3>2, <3>4 DEF Inv
    <3>6. (F \ {j}) \union Held' = F \union Held
      BY <2>6
    <3>7. ChunksApart'
      BY <1>0, <1>1, <3>1, <3>2, <3>4, <3>6, StayApart
    <3>8. ~ (size[j] - d.req > HEADER)
      BY <1>0, <2>3, <2>4, <2>11 DEF Splits, Remainder
    <3>9. Told
      BY <2>4, <2>10, <3>7, <3>8 DEF Told
    <3> QED BY <3>5, <3>9
  <2>12. CASE Splits(j, s)
    <3> DEFINE e == j + 5 + s
               D == C \union {e}
    <3>1. e = SplitAt(j, s) /\ Remainder(j, s) = size[j] - s - 4 /\ size[j] - s - 4 > 0
      BY <1>0, <2>3, <2>12 DEF Splits, Remainder, SplitAt
    <3>2. /\ e \in Addr /\ e \notin C /\ e # j /\ e # 0 /\ j < e /\ j \in Addr
          /\ \A h \in C : j < h => e < h
          /\ s \in 0..INIT_BUF_SIZE /\ size[j] - s - 4 \in 0..INIT_BUF_SIZE
      <4> HIDE DEF e
      <4>1. e = j + 5 + s
        BY DEF e
      <4> QED BY <1>0, <1>2, <1>3, <2>3, <3>1, <4>1, SplitFits
    <3>3. /\ size' = [size EXCEPT ![j] = s, ![e] = size[j] - s - 4]
          /\ next' = [next EXCEPT ![e] = next[j], ![p] = e]
      BY <1>4, <1>6, <2>2, <2>12, <3>1
    <3>4. /\ size' \in [Addr -> 0..INIT_BUF_SIZE] /\ size'[j] = s /\ size'[e] = size[j] - s - 4
          /\ \A a \in Addr : a # j /\ a # e => size'[a] = size[a]
      <4> HIDE DEF e
      <4> QED BY <1>0, <3>2, <3>3
    <3>5. next' \in [Addr -> Addr \union {NULL}] /\ Linked(next', (F \ {j}) \union {e})
      <4>1. \A h \in F : j < h => e < h
        BY <3>2 DEF C
      <4> HIDE DEF e
      <4> QED BY <1>0, <1>2, <2>2, <3>2, <3>3, <4>1, LinkSplit
    <3>6. Paid(size', D) /\ (Apart(size', D) <=> j + 5 + size[j] \notin C)
      <4>1. e = j + 5 + s /\ D = C \union {e}
        OBVIOUS
      <4> HIDE DEF e, D
      <4> QED BY <1>0, <1>2, <1>3, <2>3, <3>1, <3>4, <4>1, SplitPaid
    <3>7. (F \ {j}) \union {e} \union Held' = D /\ ((F \ {j}) \union {e}) \cap Held' = {}
      BY <1>2, <2>6, <3>2 DEF C
    <3> HIDE DEF e, D
    <3>8. Laid(size', next', (F \ {j}) \union {e}, Held')
      BY <3>5, <3>6, <3>7 DEF Laid
    <3>9. TypeOK'
      BY <1>0, <2>9, <3>4, <3>5 DEF TypeOK
    <3>10. Inv'
      BY <1>0, <2>8, <2>9, <3>8, <3>9 DEF Inv
    <3>11. ChunksApart' <=> Apart(size', D)
      BY <1>0, <3>7, <3>8, <3>9, ChunksLaidNext DEF ChunksAsLaid
    <3>12. size[j] - d.req > HEADER
      BY <1>0, <2>3, <2>4, <3>1
    <3>13. Told
      <4>1. Payload(j) + size[j] = j + 5 + size[j]
        BY <2>3
      <4> QED BY <1>3, <2>4, <2>10, <3>6, <3>11, <3>12, <4>1 DEF Told
    <3> QED BY <3>10, <3>13
  <2> QED BY <2>11, <2>12
<1> QED BY <1>5, <1>6

\* A block comes back: it is refused, or put where its address says, and takes over
\* the chunk behind it if that is free.
LEMMA FreeKeeps ==
    ASSUME Inv, ChunksApart, free_list_head = 0, NEW b \in live, my_free(b), UNCHANGED free_list_head
    PROVE  Inv' /\ Told
<1>0. /\ TypeOK /\ NULL # 0 /\ INIT_BUF_SIZE \in Nat /\ HEADER = 4 /\ NULL \notin Int
      /\ next \in [Addr -> Addr \union {NULL}] /\ size \in [Addr -> 0..INIT_BUF_SIZE]
      /\ free_list_head' = 0 /\ live' = live \ {b} /\ b \in Block
  BY SizeFacts DEF Inv, TypeOK, my_free
<1>1. PICK F : Laid(size, next, F, Held)
  BY DEF Inv
<1> DEFINE C == F \union Held
<1>2. /\ F \subseteq Addr \ {0} /\ Linked(next, F) /\ F \cap Held = {} /\ Paid(size, C) /\ Spaced(F)
      /\ C \subseteq Addr
  <2>1. Linked(next, F) /\ F \cap Held = {} /\ Paid(size, C)
    BY <1>1 DEF Laid
  <2>2. C \subseteq Addr /\ Spaced(C)
    BY <2>1 DEF Paid
  <2>3. F \subseteq C /\ \A c \in C : HEADER <= c
    BY <2>2 DEF Spaced
  <2> QED BY <1>0, <2>1, <2>2, <2>3 DEF Spaced
<1>3. Apart(size, C)
  BY <1>0, <1>1, ChunksLaid DEF ChunksAsLaid
<1>4. CASE /\ b.ptr > INIT_BUF_SIZE - 1
           /\ lost' = lost \union {b}
           /\ UNCHANGED <<size, next>>
  <2>1. live' \union lost' = live \union lost
    BY <1>0, <1>4
  <2>2. Held' = Held
    BY <2>1 DEF Held
  <2>3. Laid(size', next', F, Held')
    BY <1>1, <1>4, <2>2
  <2>4. TypeOK' /\ OneHolder' /\ LostBehind'
    BY <1>0, <1>4, <2>1 DEF TypeOK, OneHolder, LostBehind, Inv
  <2>5. Inv'
    BY <1>0, <2>3, <2>4 DEF Inv
  <2>6. F \union Held' = F \union Held
    BY <2>2
  <2>7. ChunksApart'
    BY <1>0, <1>1, <1>4, <2>3, <2>4, <2>6, StayApart
  <2>8. live' \subseteq live
    BY <1>0
  <2> QED BY <2>5, <2>7, <2>8, ToldApart
<1>5. CASE /\ b.ptr <= INIT_BUF_SIZE - 1
           /\ \E k \in Steps(Before(b.ptr)) : Node[k] # NULL /\ Insert(ChunkOf(b.ptr), Node[k])
           /\ UNCHANGED lost
  <2> DEFINE j == ChunkOf(b.ptr)
  <2>1. j \in Int /\ j \in Held /\ b.ptr = j + 5 /\ b.ptr \in Nat
    BY <1>0, HeldFacts
  <2> HIDE DEF j
  <2>2. /\ j \in C /\ j \notin F /\ j \in Addr /\ j \in Nat /\ j > 0 /\ size[j] \in 1..INIT_BUF_SIZE
        /\ \A c \in C : c \in Nat /\ c \in Addr /\ size[c] \in 1..INIT_BUF_SIZE /\ c > 0
    <3>1. j \in C /\ j \notin F
      BY <1>2, <2>1
    <3>2. \A c \in C : c \in Nat /\ c \in Addr /\ size[c] \in 1..INIT_BUF_SIZE /\ c >= 4
      BY <1>0, <1>2, <3>1, LaidFacts
    <3> QED BY <3>1, <3>2
  <2>3. PICK k \in Steps(Before(b.ptr)) : Node[k] # NULL /\ Insert(j, Node[k])
    BY <1>5 DEF j
  <2>4. PICK p \in F \union {0} : Node[k] = p /\ p \in Before(b.ptr)
    <3>1. F \subseteq Addr
      BY <1>2
    <3>2. Node[k] \in F \union {0} /\ Node[k] \in Before(b.ptr)
      BY <1>2, <2>3, <3>1, WalkEnds
    <3> QED BY <3>2
  <2>5. Insert(j, p) /\ p \in Addr /\ p \in Nat /\ p < j + 5 /\ (next[p] = NULL \/ j + 5 < next[p])
        /\ Link(F, p, next[p])
    BY <1>2, <2>1, <2>3, <2>4, SizeFacts DEF Before, Linked
  <2> HIDE DEF C
  <2>6. p < j
    <3>1. CASE p = 0
      BY <2>2, <3>1
    <3>2. CASE p \in F
      <4>1. p \in C /\ p # j
        BY <2>2, <3>2 DEF C
      <4>2. j < p => j + 5 + size[j] <= p
        BY <1>3, <2>2, <4>1 DEF Apart
      <4> QED BY <2>2, <2>5, <4>1, <4>2
    <3> QED BY <3>1, <3>2
  <2>7. ASSUME NEW i \in F, Behind(F, p, i), next[p] = i PROVE i \in C /\ i \in Nat /\ j < i
    <3>1. i \in C /\ i \in Nat
      BY <2>2, <2>7 DEF C
    <3>2. i # NULL /\ j + 5 < i
      BY <1>0, <2>5, <2>7, <3>1
    <3> QED BY <2>2, <3>1, <3>2
  <2>8. Held' = Held \ {j}
    <3>1. ASSUME NEW d \in live' \union lost' PROVE d \in live \union lost /\ ChunkOf(d.ptr) # j
      <4>1. d \in live \union lost
        BY <1>0, <1>5, <3>1
      <4>2. d # b
        <5>1. b \in lost => b.ptr > INIT_BUF_SIZE - 1
          BY DEF Inv, LostBehind
        <5> QED BY <1>0, <1>5, <2>1, <5>1
      <4>3. d.ptr # b.ptr
        BY <4>1, <4>2 DEF Inv, OneHolder
      <4>4. d.ptr = ChunkOf(d.ptr) + 5
        BY <1>0, <4>1, HeldFacts
      <4> QED BY <2>1, <4>1, <4>3, <4>4
    <3>2. ASSUME NEW d \in live \union lost, ChunkOf(d.ptr) # j PROVE d \in live' \union lost'
      BY <1>0, <1>5, <3>2 DEF j
    <3> QED BY <3>1, <3>2 DEF Held
  <2>9. OneHolder' /\ LostBehind' /\ live' \subseteq Block /\ lost' \subseteq Block /\ live' \subseteq live
    BY <1>0, <1>5 DEF Inv, OneHolder, LostBehind, TypeOK
  <2>10. Payload(j) = j + 5
    BY <2>2 DEF Payload, HEADER
  \* It takes over the chunk behind it.
  <2>11. CASE j + 5 + size[j] = next[p]
    <3>1. next[p] # NULL
      BY <1>0, <2>2, <2>11
    <3>2. PICK i \in F : Behind(F, p, i) /\ next[p] = i
      BY <2>5, <3>1 DEF Link
    <3>3. i \in C /\ i \in Nat /\ j < i /\ i = j + 5 + size[j] /\ size[i] \in Nat
      BY <2>2, <2>7, <2>11, <3>2
    <3>4. /\ size' = [size EXCEPT ![j] = size[j] + 4 + size[i]]
          /\ next' = [next EXCEPT ![j] = next[i], ![p] = j]
      BY <1>0, <2>5, <2>10, <2>11, <3>2 DEF Insert
    <3>5. size' \in [Addr -> Nat] /\ size'[j] = size[j] + 4 + size[i]
          /\ \A a \in Addr : a # j => size'[a] = size[a]
      <4>1. size[j] + 4 + size[i] \in Nat
        BY <2>2, <3>3
      <4> QED BY <1>0, <2>2, <3>4, <4>1
    <3> DEFINE D == C \ {i}
    <3>6. size' \in [Addr -> 0..INIT_BUF_SIZE] /\ Paid(size', D) /\ Apart(size', D)
      <4>1. D = C \ {i}
        OBVIOUS
      <4> HIDE DEF D
      <4>2. Paid(size, C)
        BY <1>2
      <4> QED BY <1>0, <1>3, <2>2, <3>3, <3>5, <4>1, <4>2, MergePaid
    <3>7. next' \in [Addr -> Addr \union {NULL}] /\ Linked(next', (F \ {i}) \union {j})
      BY <1>0, <1>2, <2>2, <2>6, <3>2, <3>3, <3>4, LinkMerge
    <3>8. (F \ {i}) \union {j} \union Held' = D /\ ((F \ {i}) \union {j}) \cap Held' = {}
      BY <1>2, <2>1, <2>2, <2>8, <3>2 DEF C
    <3> HIDE DEF D
    <3>9. Laid(size', next', (F \ {i}) \union {j}, Held')
      BY <3>6, <3>7, <3>8 DEF Laid
    <3>10. TypeOK'
      BY <1>0, <2>9, <3>6, <3>7 DEF TypeOK
    <3>11. Inv'
      BY <1>0, <2>9, <3>9, <3>10 DEF Inv
    <3>12. ChunksApart'
      BY <1>0, <3>6, <3>8, <3>9, <3>10, ChunksLaidNext DEF ChunksAsLaid
    <3> QED BY <2>9, <3>11, <3>12, ToldApart
  \* The chunk in front of it never ends where it begins.
  <2>12. CASE j + 5 + size[j] # next[p]
    <3>1. ~ (p # free_list_head /\ p + 2 * HEADER + size[p] = Payload(j))
      <4> SUFFICES ASSUME p # 0 PROVE p + 8 + size[p] # j + 5
        BY <1>0, <2>10
      <4>1. p \in C /\ size[p] \in Nat
        BY <2>2, <2>4 DEF C
      <4>2. p + 5 + size[p] <= j
        BY <1>3, <2>2, <2>6, <4>1 DEF Apart
      <4> QED BY <2>2, <2>5, <4>1, <4>2
    <3>2. size' = size /\ next' = [next EXCEPT ![j] = next[p], ![p] = j]
      BY <2>5, <2>10, <2>12, <3>1 DEF Insert
    <3>3. \A h \in F : p < h => j < h
      <4>1. CASE Final(F, p)
        <5>1. \A h \in F : h \in Nat
          BY <2>2 DEF C
        <5> QED BY <2>5, <4>1, <5>1 DEF Final
      <4>2. ASSUME NEW i \in F, Behind(F, p, i), next[p] = i, NEW h \in F, p < h PROVE j < h
        <5>1. j < i /\ i <= h /\ i \in Nat /\ h \in Nat
          BY <2>2, <2>7, <4>2 DEF Behind, C
        <5> QED BY <2>2, <5>1
      <4> QED BY <2>5, <4>1, <4>2 DEF Link
    <3>4. Laid(size', next', F \union {j}, Held')
      BY <1>0, <1>1, <2>1, <2>6, <2>8, <3>2, <3>3, PutLaid
    <3>5. next' \in [Addr -> Addr \union {NULL}]
      <4>1. next[p] \in Addr \union {NULL}
        BY <1>0, <2>5
      <4> QED BY <1>0, <2>2, <3>2, <4>1
    <3>6. TypeOK'
      BY <1>0, <2>9, <3>2, <3>5 DEF TypeOK
    <3>7. Inv'
      BY <1>0, <2>9, <3>4, <3>6 DEF Inv
    <3>8. (F \union {j}) \union Held' = F \union Held
      BY <2>1, <2>8
    <3>9. ChunksApart'
      BY <1>0, <1>1, <3>2, <3>4, <3>6, <3>8, StayApart
    <3> QED BY <2>9, <3>7, <3>9, ToldApart
  <2> QED BY <2>11, <2>12
<1> QED BY <1>4, <1>5 DEF my_free

\* The first chunk has nothing to meet.
LEMMA InitTold ==
    ASSUME Inv, init_free_list PROVE Told
<1>1. Inv' /\ free_list_head' = 0 /\ live' = live
  BY InitKeeps DEF init_free_list
<1>2. Held' = {}
  BY DEF Inv, init_free_list, Held
<1>3. PICK F : Laid(size', next', F, Held')
  BY <1>1 DEF Inv
<1>4. next'[0] = 4 /\ next'[4] = NULL /\ Linked(next', F) /\ F \subseteq Addr \ {0}
  <2>1. next'[0] = 4 /\ next'[4] = NULL
    BY SizeFacts DEF Inv, TypeOK, init_free_list
  <2> QED BY <1>3, <2>1, SizeFacts DEF Laid, Paid, Spaced
<1>5. F = {4}
  <2>1. 4 \in F /\ Behind(F, 0, 4)
    BY <1>4, SizeFacts DEF Linked, Link
  <2>2. Final(F, 4)
    <3>1. Link(F, 4, NULL)
      BY <1>4, <2>1 DEF Linked
    <3>2. NULL \notin F
      <4>1. \A h \in F : h \in Int
        BY <1>4, SizeFacts
      <4>2. NULL \notin Int
        BY SizeFacts
      <4> QED BY <4>1, <4>2
    <3> QED BY <3>1, <3>2 DEF Link
  <2>3. \A h \in F : h \in Nat /\ h > 0
    BY <1>4, SizeFacts
  <2> QED BY <2>1, <2>2, <2>3 DEF Behind, Final
<1>6. Apart(size', F \union Held')
  BY <1>2, <1>5 DEF Apart
<1>7. ChunksApart'
  BY <1>1, <1>3, <1>6, ChunksLaidNext DEF ChunksAsLaid, Inv
<1> QED BY <1>1, <1>7, ToldApart

LEMMA Stepwise == ASSUME SomeBytes, Inv, [Next /\ ChunksApart]_vars PROVE Inv'
<1>1. CASE UNCHANGED vars
  BY <1>1 DEF Inv, TypeOK, OneHolder, LostBehind, Held, vars
<1>2. CASE init_free_list
  BY <1>2, InitKeeps
<1>3. free_list_head # NULL => free_list_head = 0
  BY DEF Inv, TypeOK
<1>4. ASSUME ChunksApart, free_list_head # NULL, NEW s \in Sizes, my_malloc(s), UNCHANGED <<lost, free_list_head>>
      PROVE  Inv'
  BY <1>3, <1>4, MallocKeeps
<1>5. ASSUME ChunksApart, free_list_head # NULL, NEW b \in live, my_free(b), UNCHANGED free_list_head
      PROVE  Inv'
  BY <1>3, <1>5, FreeKeeps
<1> QED BY <1>1, <1>2, <1>4, <1>5 DEF Next

\* Until chunks meet: the free list is linked in the order of its chunks' addresses, no
\* chunk is empty, and none begins further behind its place than one byte for each
\* chunk in front of it; my_malloc and my_free keep it so.
THEOREM Invariance == ASSUME SomeBytes PROVE SpecToOverlap => []Inv
<1>1. Init => Inv
  BY Initially
<1>2. Inv /\ [Next /\ ChunksApart]_vars => Inv'
  BY Stepwise
<1> QED BY <1>1, <1>2, PTL DEF SpecToOverlap

\* Until chunks meet the state keeps its type: no split or merge makes a size negative
\* or puts a header anywhere but at an address.
THEOREM TypeCorrect == ASSUME SomeBytes PROVE SpecToOverlap => []TypeOK
<1>1. Inv => TypeOK
  BY DEF Inv
<1>2. SpecToOverlap => []Inv
  BY Invariance
<1> QED BY <1>1, <1>2, PTL

\* Until chunks meet the free list is sorted, the walks of my_malloc and my_free end,
\* and no chunk on the list is in a user's hands.
THEOREM ListStaysSorted == ASSUME SomeBytes PROVE SpecToOverlap => []FreeListSorted
<1>1. Inv => FreeListSorted
  <2> SUFFICES ASSUME Inv, free_list_head # NULL
               PROVE  /\ \E k \in DOMAIN Node : Node[k] = NULL
                      /\ \A c \in {free_list_head} \union FreeChunks : next[c] # NULL => c < next[c]
                      /\ FreeChunks \cap Held = {}
    BY DEF FreeListSorted
  <2>1. free_list_head = 0 /\ TypeOK
    BY DEF Inv, TypeOK
  <2>2. PICK F : Laid(size, next, F, Held)
    BY <2>1 DEF Inv
  <2>3. FreeChunks = F /\ F \cap Held = {} /\ Linked(next, F) /\ F \subseteq Addr /\ Spaced(F)
    BY <2>1, <2>2, LaidChunks DEF Laid, Paid, Spaced
  <2>4. \E k \in DOMAIN Node : Node[k] = NULL
    BY <2>1, <2>3, Walk, NodeSteps
  <2>5. ASSUME NEW c \in F \union {0}, next[c] # NULL PROVE c < next[c]
    BY <2>3, <2>5 DEF Linked, Link, Behind
  <2> QED BY <2>1, <2>3, <2>4, <2>5
<1>2. SpecToOverlap => []Inv
  BY Invariance
<1> QED BY <1>1, <1>2, PTL

\* Until chunks meet, splits, merges and whole allocations lose no byte and invent
\* none.
THEOREM BytesStay == ASSUME SomeBytes PROVE SpecToOverlap => []BytesConserved
<1>1. Inv => BytesConserved
  <2> SUFFICES ASSUME Inv, free_list_head # NULL PROVE Bytes(size, Chunks) = INIT_BUF_SIZE - HEADER
    BY DEF BytesConserved, Bytes
  <2>1. free_list_head = 0 /\ TypeOK
    BY DEF Inv, TypeOK
  <2>2. PICK F : Laid(size, next, F, Held)
    BY <2>1 DEF Inv
  <2> QED BY <2>1, <2>2, LaidChunks DEF Laid, Paid
<1>2. SpecToOverlap => []Inv
  BY Invariance
<1> QED BY <1>1, <1>2, PTL

\* Chunks that are apart meet by a split with no byte to spare in front of the next
\* chunk, and by nothing else.
THEOREM OverlapsAreKnown == ASSUME SomeBytes PROVE SpecToOverlap => OverlapsBySplit
<1>1. ASSUME SomeBytes, Inv, [Next /\ ChunksApart]_vars, ~ UNCHANGED vars, ChunksApart PROVE Told
  <2>1. CASE init_free_list
    BY <1>1, <2>1, InitTold
  <2>2. free_list_head # NULL => free_list_head = 0
    BY <1>1 DEF Inv, TypeOK
  <2>3. ASSUME free_list_head # NULL, NEW s \in Sizes, my_malloc(s), UNCHANGED <<lost, free_list_head>>
        PROVE  Told
    BY <1>1, <2>2, <2>3, MallocKeeps
  <2>4. ASSUME free_list_head # NULL, NEW b \in live, my_free(b), UNCHANGED free_list_head
        PROVE  Told
    BY <1>1, <2>2, <2>4, FreeKeeps
  <2> QED BY <1>1, <2>1, <2>3, <2>4 DEF Next
<1>2. ASSUME SomeBytes, Inv, [Next /\ ChunksApart]_vars PROVE [ChunksApart => Told]_vars
  BY <1>1, <1>2
<1>3. SpecToOverlap => []Inv
  BY Invariance
<1> QED BY <1>2, <1>3, PTL DEF SpecToOverlap, OverlapsBySplit, Told

=============================================================================
