----------------------------- MODULE CoffeeLemmas ----------------------------
(***************************************************************************)
(* What the parts of Coffee do, for any flash, any files and any number of *)
(* descriptors: the walk, what it finds and what a new extent and each     *)
(* step of garbage collection do to it; the search for free pages; the     *)
(* machine states in which flash, cache and descriptors agree, and that    *)
(* each part of a call takes such a state to such a state.                 *)
(***************************************************************************)
EXTENDS Coffee, ListLemmas, FiniteSetTheorems, TLAPS

-----------------------------------------------------------------------------
(* Pages and headers *)

HeaderT == [kind : {"free", "file", "log", "obsolete", "isolated", "data"},
            name : Names \union {NULL}, max_pages : 1..COFFEE_PAGE_COUNT,
            log_page : Pages \union {INVALID_PAGE}, whole : BOOLEAN]
Images  == [Pages -> HeaderT]

LEMMA Constants ==
    /\ COFFEE_SECTOR_COUNT \in Nat /\ COFFEE_SECTOR_COUNT >= 1
    /\ COFFEE_PAGES_PER_SECTOR \in Nat /\ COFFEE_PAGES_PER_SECTOR >= 1
    /\ COFFEE_PAGE_COUNT \in Nat /\ COFFEE_PAGE_COUNT >= 1
    /\ Pages = 0 .. (COFFEE_PAGE_COUNT - 1) /\ Pages \subseteq Nat
    /\ INVALID_PAGE = -1 /\ FAILURE = -1
    /\ Slots \subseteq Nat /\ FDs \subseteq Nat /\ NULL \notin Slots
<1>1. /\ COFFEE_SECTOR_COUNT \in Nat /\ COFFEE_SECTOR_COUNT >= 1
      /\ COFFEE_PAGES_PER_SECTOR \in Nat /\ COFFEE_PAGES_PER_SECTOR >= 1
  BY CoffeeAssumption
<1>2. \A i, j \in Nat : i >= 1 /\ j >= 1 => i * j \in Nat /\ i * j >= 1
  OBVIOUS
<1>3. COFFEE_PAGE_COUNT \in Nat /\ COFFEE_PAGE_COUNT >= 1
  BY <1>1, <1>2 DEF COFFEE_PAGE_COUNT
<1> QED BY <1>1, <1>3, CoffeeAssumption DEF Pages, Slots, FDs, INVALID_PAGE, FAILURE

\* The first page of a sector.
LEMMA SectorStart ==
    ASSUME NEW s \in Nat
    PROVE  s * COFFEE_PAGES_PER_SECTOR \in Nat
BY Constants

LEMMA BehindLater ==
    ASSUME NEW page \in Nat
    PROVE  SectorBehind(page) \in Nat /\ SectorBehind(page) > page
<1> DEFINE P == COFFEE_PAGES_PER_SECTOR
           d == page \div P
<1>1. P \in Nat /\ P >= 1
  BY Constants
<1> HIDE DEF P
<1>2. d \in Nat
  BY <1>1
<1>3. d * P > page - P
  BY <1>1
<1> HIDE DEF d
<1>4. (d + 1) * P = d * P + P /\ d * P \in Nat
  BY <1>1, <1>2
<1> QED BY <1>1, <1>3, <1>4 DEF SectorBehind, P, d

LEMMA NextLater ==
    ASSUME NEW page \in Nat, NEW h, h.max_pages \in Nat, h.max_pages >= 1
    PROVE  next_file(page, h) \in Nat /\ next_file(page, h) > page
BY BehindLater DEF next_file, HDR_FREE, HDR_ISOLATED

LEMMA HeaderFacts ==
    ASSUME NEW image \in Images, NEW page \in Pages
    PROVE  /\ image[page] \in HeaderT /\ page \in Nat
           /\ image[page].max_pages \in Nat /\ image[page].max_pages >= 1
           /\ next_file(page, image[page]) \in Nat /\ next_file(page, image[page]) > page
BY Constants, NextLater DEF Images, HeaderT

-----------------------------------------------------------------------------
(* The walk *)

\* The defining equation of the walks.
From(image, f) ==
    f = [page \in Nat |-> IF page >= COFFEE_PAGE_COUNT THEN {}
                          ELSE {page} \union f[next_file(page, image[page])]]

LEMMA FromExists ==
    ASSUME NEW image \in Images
    PROVE  \E f : From(image, f)
<1> DEFINE N == COFFEE_PAGE_COUNT
           Right(f, page) == f[page] = IF page >= N THEN {}
                                       ELSE {page} \union f[next_file(page, image[page])]
           S == {n \in Nat : \E f : /\ f = [page \in Nat |-> f[page]]
                                    /\ \A page \in Nat : page >= N - n => Right(f, page)}
<1>0. N \in Nat /\ Pages = 0 .. (N - 1)
  BY Constants
<1>1. \A page \in Nat : page < N =>
          next_file(page, image[page]) \in Nat /\ next_file(page, image[page]) > page
  BY <1>0, HeaderFacts
<1>2. 0 \in S
  <2> DEFINE f == [page \in Nat |-> {}]
  <2>1. f = [page \in Nat |-> f[page]]
    OBVIOUS
  <2>2. \A page \in Nat : page >= N - 0 => Right(f, page)
    BY <1>0
  <2> QED BY <2>1, <2>2
<1>3. ASSUME NEW n \in Nat, n \in S PROVE n + 1 \in S
  <2>1. PICK f : /\ f = [page \in Nat |-> f[page]]
                 /\ \A page \in Nat : page >= N - n => Right(f, page)
    BY <1>3
  <2> DEFINE p == N - (n + 1)
             v == {p} \union f[next_file(p, image[p])]
             g == [page \in Nat |-> IF page = p THEN v ELSE f[page]]
  <2>2. /\ g = [page \in Nat |-> g[page]]
        /\ \A page \in Nat : page # p => g[page] = f[page]
        /\ p \in Nat => g[p] = v
    OBVIOUS
  <2>3. p \in Int /\ p < N /\ \A page \in Nat : page >= p => page = p \/ page >= N - n
    BY <1>0
  <2> HIDE DEF g
  <2>4. \A page \in Nat : page >= p /\ page < N =>
            next_file(page, image[page]) \in Nat /\ next_file(page, image[page]) # p
    BY <1>1, <2>3
  <2>5. ASSUME p \in Nat PROVE Right(g, p)
    <3>1. next_file(p, image[p]) \in Nat /\ next_file(p, image[p]) # p
      BY <2>3, <2>4, <2>5
    <3>2. ~(p >= N)
      BY <1>0, <2>3
    <3> HIDE DEF p
    <3> QED BY <2>2, <2>5, <3>1, <3>2
  <2>6. ASSUME NEW page \in Nat, page >= N - n, page # p, page >= p PROVE Right(g, page)
    <3>1. Right(f, page) /\ g[page] = f[page]
      BY <2>1, <2>2, <2>6
    <3>2. ~(page >= N) => page < N
      BY <1>0
    <3>3. ~(page >= N) => g[next_file(page, image[page])] = f[next_file(page, image[page])]
      BY <2>2, <2>4, <2>6, <3>2
    <3> QED BY <3>1, <3>3
  <2>7. \A page \in Nat : page >= p => Right(g, page)
    <3> HIDE DEF Right
    <3> QED BY <1>0, <2>3, <2>5, <2>6
  <2>8. n + 1 \in Nat /\ p = N - (n + 1)
    OBVIOUS
  <2> HIDE DEF Right, p
  <2> QED BY <2>2, <2>7, <2>8
<1>4. Nat \subseteq S
  <2> HIDE DEF S
  <2> QED BY <1>2, <1>3, Induction
<1>5. PICK f : /\ f = [page \in Nat |-> f[page]]
               /\ \A page \in Nat : page >= N - N => Right(f, page)
  BY <1>0, <1>4
<1>6. \A page \in Nat : Right(f, page)
  BY <1>0, <1>5
<1> QED BY <1>5, <1>6 DEF From

\* W is the walk from start: it begins there, goes on with next_file, and nothing
\* else is on it.
IsWalk(image, start, W) ==
    /\ W \subseteq Pages
    /\ start < COFFEE_PAGE_COUNT => start \in W
    /\ \A x \in W : /\ x >= start
                    /\ next_file(x, image[x]) < COFFEE_PAGE_COUNT => next_file(x, image[x]) \in W
                    /\ x # start => \E q \in W : q < x /\ next_file(q, image[q]) = x

LEMMA FromIsWalk ==
    ASSUME NEW image \in Images, NEW f, From(image, f), NEW start \in Nat
    PROVE  IsWalk(image, start, f[start])
<1> DEFINE N == COFFEE_PAGE_COUNT
           S == {n \in Nat : \A page \in Nat : page >= N - n => IsWalk(image, page, f[page])}
<1>0. N \in Nat /\ Pages = 0 .. (N - 1)
  BY Constants
<1>1. \A page \in Nat : page >= N => f[page] = {}
  BY DEF From
<1>2. ASSUME NEW page \in Nat, page < N
      PROVE  f[page] = {page} \union f[next_file(page, image[page])]
  <2>1. ~(page >= N)
    BY <1>0, <1>2
  <2> QED BY <2>1 DEF From
<1>3. \A page \in Nat : page < N =>
          /\ page \in Pages
          /\ next_file(page, image[page]) \in Nat /\ next_file(page, image[page]) > page
  BY <1>0, HeaderFacts
<1>4. \A page \in Nat : page >= N => IsWalk(image, page, f[page])
  BY <1>0, <1>1 DEF IsWalk
<1>5. 0 \in S
  BY <1>0, <1>4
<1>6. ASSUME NEW n \in Nat, n \in S PROVE n + 1 \in S
  <2>1. ASSUME NEW page \in Nat, page >= N - (n + 1) PROVE IsWalk(image, page, f[page])
    <3>1. CASE page >= N
      BY <1>4, <3>1
    <3>2. CASE ~(page >= N)
      <4>1. page < N
        BY <1>0, <3>2
      <4>2. PICK next : next = next_file(page, image[page])
        OBVIOUS
      <4>3. next \in Nat /\ next > page /\ page \in Pages
        BY <1>3, <4>1, <4>2
      <4>4. next >= N - n
        BY <1>0, <2>1, <4>3
      <4>5. IsWalk(image, next, f[next])
        BY <1>6, <4>3, <4>4
      <4>6. f[page] = {page} \union f[next]
        BY <1>2, <4>1, <4>2
      <4>7. f[next] \subseteq Pages /\ \A x \in f[next] : x >= next /\ x \in Nat
        BY <4>5, Constants DEF IsWalk
      <4>8. \A x \in f[page] : x >= page
        BY <4>3, <4>6, <4>7
      <4>9. \A x \in f[page] : next_file(x, image[x]) < N => next_file(x, image[x]) \in f[page]
        BY <4>2, <4>5, <4>6 DEF IsWalk
      <4>10. ASSUME NEW x \in f[page], x # page
             PROVE  \E q \in f[page] : q < x /\ next_file(q, image[q]) = x
        <5>1. CASE x = next
          BY <4>2, <4>3, <4>6, <5>1
        <5>2. CASE x # next
          BY <4>5, <4>6, <4>10, <5>2 DEF IsWalk
        <5> QED BY <5>1, <5>2
      <4> QED BY <4>3, <4>6, <4>7, <4>8, <4>9, <4>10 DEF IsWalk
    <3> QED BY <3>1, <3>2
  <2> QED BY <2>1
<1>7. Nat \subseteq S
  <2> HIDE DEF S
  <2> QED BY <1>5, <1>6, Induction
<1>8. N \in S
  BY <1>0, <1>7
<1> QED BY <1>0, <1>8

LEMMA WalkFromIsWalk ==
    ASSUME NEW image \in Images, NEW start \in Nat
    PROVE  IsWalk(image, start, WalkFrom(image, start))
<1> DEFINE f == CHOOSE f : From(image, f)
<1>1. From(image, f)
  BY FromExists
<1>2. WalkFrom(image, start) = f[start]
  BY DEF WalkFrom, From
<1> HIDE DEF f
<1> QED BY <1>1, <1>2, FromIsWalk

LEMMA WalkIsWalk ==
    ASSUME NEW image \in Images
    PROVE  /\ IsWalk(image, 0, Walk(image))
           /\ 0 \in Walk(image) /\ Walk(image) \subseteq Pages
BY Constants, WalkFromIsWalk DEF Walk, IsWalk

\* No page the walk reads lies inside an extent or free area it has jumped over.
LEMMA NothingBetween ==
    ASSUME NEW image \in Images, NEW start \in Nat, NEW W, IsWalk(image, start, W),
           NEW p \in W, NEW x \in W, p < x
    PROVE  next_file(p, image[p]) <= x
<1> DEFINE T == {y \in W : \E q \in W : q < y /\ y < next_file(q, image[q])}
<1>0. W \subseteq Pages /\ Pages \subseteq Nat
  BY Constants DEF IsWalk
<1>1. \A y \in W : y \in Nat /\ next_file(y, image[y]) \in Nat /\ next_file(y, image[y]) > y
  BY <1>0, HeaderFacts
<1> SUFFICES ASSUME T # {} PROVE FALSE
  BY <1>1
<1>2. T \subseteq Nat
  BY <1>1
<1>3. PICK y \in T : \A z \in T : y <= z
  <2> HIDE DEF T
  <2> QED BY <1>2, LeastNat
<1>4. PICK q \in W : q < y /\ y < next_file(q, image[q])
  OBVIOUS
<1>5. y # start
  BY <1>0, <1>1, <1>4 DEF IsWalk
<1>6. PICK r \in W : r < y /\ next_file(r, image[r]) = y
  BY <1>5 DEF IsWalk
<1>7. CASE r < q
  \* q lies inside what r jumps over, and comes before y
  BY <1>1, <1>3, <1>4, <1>6, <1>7
<1>8. CASE q < r
  BY <1>1, <1>3, <1>4, <1>6, <1>8
<1>9. r = q \/ r < q \/ q < r
  BY <1>1
<1> QED BY <1>1, <1>4, <1>6, <1>7, <1>8, <1>9

\* The extent a page lies in.
LEMMA ExtentFacts ==
    ASSUME NEW image \in Images, NEW page \in Nat
    PROVE  /\ Extent(Walk(image), page) \in Walk(image)
           /\ Extent(Walk(image), page) <= page
           /\ \A x \in Walk(image) : x <= page => x <= Extent(Walk(image), page)
<1> DEFINE T == {x \in Walk(image) : x <= page}
<1>1. T \subseteq Nat /\ T # {} /\ \A x \in T : x <= page
  BY Constants, WalkIsWalk
<1>2. Max(T) \in T /\ \A y \in T : y <= Max(T)
  <2> HIDE DEF T
  <2> QED BY <1>1, MaxFacts
<1> QED BY <1>2 DEF Extent

LEMMA ExtentIs ==
    ASSUME NEW image \in Images, NEW p \in Walk(image), NEW page \in Nat,
           p <= page, page < next_file(p, image[p])
    PROVE  Extent(Walk(image), page) = p
<1> DEFINE e == Extent(Walk(image), page)
<1>1. e \in Walk(image) /\ e <= page /\ p <= e
  BY ExtentFacts
<1>2. p \in Nat /\ e \in Nat /\ next_file(p, image[p]) \in Nat
  BY <1>1, Constants, WalkIsWalk, HeaderFacts
<1>3. p < e => next_file(p, image[p]) <= e
  BY <1>1, WalkIsWalk, NothingBetween
<1> HIDE DEF e
<1>4. e = p
  BY <1>1, <1>2, <1>3
<1> QED BY <1>4 DEF e

\* From a page on both, two walks go the same way.
LEMMA WalksMeet ==
    ASSUME NEW image \in Images, NEW i \in Nat, NEW V, IsWalk(image, i, V),
           NEW k \in Nat, NEW W, IsWalk(image, k, W), NEW start \in V, start \in W
    PROVE  \A c \in W : c >= start => c \in V
<1> DEFINE T == {c \in W : c >= start /\ c \notin V}
<1>0. W \subseteq Pages /\ V \subseteq Pages /\ Pages \subseteq Nat
  BY Constants DEF IsWalk
<1>1. \A y \in Pages : y \in Nat /\ y < COFFEE_PAGE_COUNT
                       /\ next_file(y, image[y]) \in Nat /\ next_file(y, image[y]) > y
  BY HeaderFacts, Constants
<1> SUFFICES ASSUME T # {} PROVE FALSE
  OBVIOUS
<1>2. PICK c \in T : \A d \in T : c <= d
  <2>1. T \subseteq Nat
    BY <1>0
  <2> HIDE DEF T
  <2> QED BY <2>1, LeastNat
<1>3. c > start /\ c # k /\ c \in Nat /\ start \in Nat
  <2>1. start >= k
    BY DEF IsWalk
  <2> QED BY <1>0, <2>1
<1>4. PICK q \in W : q < c /\ next_file(q, image[q]) = c
  BY <1>3 DEF IsWalk
<1>5. CASE q >= start
  <2>1. q \in V
    BY <1>0, <1>2, <1>3, <1>4, <1>5
  <2>2. c < COFFEE_PAGE_COUNT
    BY <1>0, <1>1
  <2> QED BY <1>4, <2>1, <2>2 DEF IsWalk
<1>6. CASE q < start
  <2>1. next_file(q, image[q]) <= start
    BY <1>4, <1>6, NothingBetween
  <2> QED BY <1>3, <1>4, <2>1
<1>7. q \in Nat
  BY <1>0
<1> QED BY <1>3, <1>5, <1>6, <1>7

-----------------------------------------------------------------------------
(* Extents in use, and what garbage collection and reservations leave alone *)

\* Extents in use end inside the flash, and their pages are their data.
Sound(image) ==
    \A p \in Pages : HDR_ACTIVE(image[p]) =>
        /\ p + image[p].max_pages <= COFFEE_PAGE_COUNT
        /\ \A x \in Pages : p < x /\ x < p + image[p].max_pages => image[x].kind = "data"

InUse(image, x) ==
    \E p \in Pages : HDR_ACTIVE(image[p]) /\ p <= x /\ x < p + image[p].max_pages

\* From i to j only pages that are not in use are written, and none becomes a header
\* in use.
Cleaned(i, j) ==
    /\ j \in Images
    /\ \A x \in Pages : j[x] = i[x] \/ (~InUse(i, x) /\ ~HDR_ACTIVE(j[x]))

LEMMA ActiveInUse ==
    ASSUME NEW image \in Images, NEW p \in Pages, HDR_ACTIVE(image[p])
    PROVE  InUse(image, p)
BY HeaderFacts DEF InUse

LEMMA CleanedActive ==
    ASSUME NEW i \in Images, NEW j, Cleaned(i, j)
    PROVE  \A p \in Pages : /\ HDR_ACTIVE(i[p]) => j[p] = i[p]
                            /\ HDR_ACTIVE(j[p]) => j[p] = i[p]
BY ActiveInUse DEF Cleaned

LEMMA CleanedSound ==
    ASSUME NEW i \in Images, NEW j, Cleaned(i, j), Sound(i)
    PROVE  Sound(j)
<1> SUFFICES ASSUME NEW p \in Pages, HDR_ACTIVE(j[p])
             PROVE  /\ p + j[p].max_pages <= COFFEE_PAGE_COUNT
                    /\ \A x \in Pages : p < x /\ x < p + j[p].max_pages => j[x].kind = "data"
  BY DEF Sound
<1>1. j[p] = i[p] /\ HDR_ACTIVE(i[p])
  BY CleanedActive
<1>2. p + j[p].max_pages <= COFFEE_PAGE_COUNT
  BY <1>1 DEF Sound
<1>3. ASSUME NEW x \in Pages, p < x, x < p + j[p].max_pages PROVE j[x].kind = "data"
  <2>1. p <= x
    BY <1>3, Constants
  <2>2. InUse(i, x)
    BY <1>1, <1>3, <2>1 DEF InUse
  <2> QED BY <1>1, <1>3, <2>2 DEF Sound, Cleaned
<1> QED BY <1>2, <1>3

LEMMA CleanedSame == ASSUME NEW i \in Images PROVE Cleaned(i, i)
BY DEF Cleaned

LEMMA CleanedPage ==
    ASSUME NEW i \in Images, NEW j, Cleaned(i, j), NEW h \in HeaderT, ~HDR_ACTIVE(h),
           NEW page, page \in Pages => ~InUse(i, page)
    PROVE  Cleaned(i, [j EXCEPT ![page] = h])
BY DEF Cleaned, Images

LEMMA PageType ==
    ASSUME NEW kind \in {"free", "obsolete", "isolated", "data"}
    PROVE  Page(kind) \in HeaderT /\ ~HDR_ACTIVE(Page(kind)) /\ Page(kind).kind = kind
BY Constants DEF Page, HeaderT, HDR_ACTIVE

\* If the walk finds an extent, the header the statistics of its pages are taken
\* from is its own.
LEMMA InUseExtent ==
    ASSUME NEW image \in Images, AllFound(image), NEW x \in Pages, InUse(image, x)
    PROVE  HDR_ACTIVE(image[Extent(Walk(image), x)])
<1>1. PICK p \in Pages : HDR_ACTIVE(image[p]) /\ p <= x /\ x < p + image[p].max_pages
  BY DEF InUse
<1>2. p \in Walk(image)
  BY <1>1 DEF AllFound
<1>3. next_file(p, image[p]) = p + image[p].max_pages
  BY <1>1 DEF next_file, HDR_ACTIVE, HDR_FREE, HDR_ISOLATED
<1>4. x \in Nat
  BY Constants
<1> QED BY <1>1, <1>2, <1>3, <1>4, ExtentIs

\* A sector that is erased has no page in use.
LEMMA ErasableUnused ==
    ASSUME NEW image \in Images, AllFound(image), NEW s, Erasable(image, Walk(image), s),
           NEW x \in Pages, x \in SectorPages(s)
    PROVE  ~InUse(image, x)
<1>1. image[Extent(Walk(image), x)].kind \in Stats(image, Walk(image), s)
  BY DEF Stats
<1>2. ~HDR_ACTIVE(image[Extent(Walk(image), x)])
  BY <1>1 DEF Erasable, HDR_ACTIVE
<1> QED BY <1>2, InUseExtent

\* Neither is a page that is isolated.
LEMMA IsolatedUnused ==
    ASSUME NEW image \in Images, AllFound(image), NEW s \in Nat,
           NEW k \in Nat, k >= 1, k <= IsolationCount(image, Walk(image), s)
    PROVE  LET x == (s + 1) * COFFEE_PAGES_PER_SECTOR + k - 1
           IN  x \in Nat /\ (x \in Pages => ~InUse(image, x))
<1> DEFINE W   == Walk(image)
           end == (s + 1) * COFFEE_PAGES_PER_SECTOR
           p   == Extent(W, end - 1)
           x   == end + k - 1
<1>0. end \in Nat /\ end >= 1
  <2>1. s + 1 \in Nat /\ s + 1 >= 1 /\ COFFEE_PAGES_PER_SECTOR \in Nat /\ COFFEE_PAGES_PER_SECTOR >= 1
    BY Constants
  <2>2. \A i, j \in Nat : i >= 1 /\ j >= 1 => i * j \in Nat /\ i * j >= 1
    OBVIOUS
  <2> QED BY <2>1, <2>2
<1>1. k <= IF image[p].kind = "obsolete" /\ 0 < p + image[p].max_pages - end
              /\ p + image[p].max_pages - end < COFFEE_PAGES_PER_SECTOR
           THEN p + image[p].max_pages - end ELSE 0
  BY DEF IsolationCount
<1> HIDE DEF end
<1>2. p \in W /\ p <= end - 1 /\ p \in Pages /\ p \in Nat
  BY <1>0, ExtentFacts, WalkIsWalk, Constants
<1> HIDE DEF p
<1>3. image[p].kind = "obsolete" /\ image[p].max_pages \in Nat
  BY <1>1, <1>2, HeaderFacts
<1>4. k <= p + image[p].max_pages - end
  BY <1>1
<1>5. x \in Nat /\ p <= x /\ x < p + image[p].max_pages
  BY <1>0, <1>2, <1>3, <1>4
<1>6. next_file(p, image[p]) = p + image[p].max_pages
  BY <1>3 DEF next_file, HDR_FREE, HDR_ISOLATED
<1> HIDE DEF x
<1>7. Extent(W, x) = p
  BY <1>2, <1>5, <1>6, ExtentIs
<1>8. x \in Pages => ~InUse(image, x)
  BY <1>3, <1>7, InUseExtent DEF HDR_ACTIVE
<1> QED BY <1>5, <1>8 DEF x, end

-----------------------------------------------------------------------------
(* Sectors *)

First(s) == s * COFFEE_PAGES_PER_SECTOR
SectorOf(page) == page \div COFFEE_PAGES_PER_SECTOR

LEMMA FirstFacts ==
    ASSUME NEW s \in Nat
    PROVE  /\ First(s) \in Nat /\ First(s + 1) = First(s) + COFFEE_PAGES_PER_SECTOR
           /\ First(s + 1) \in Nat /\ First(s) < First(s + 1)
           /\ SectorPages(s) = First(s) .. (First(s + 1) - 1)
           /\ First(0) = 0 /\ First(COFFEE_SECTOR_COUNT) = COFFEE_PAGE_COUNT
<1>1. /\ First(s) \in Nat /\ First(s + 1) = First(s) + COFFEE_PAGES_PER_SECTOR
      /\ SectorPages(s) = First(s) .. (First(s + 1) - 1)
      /\ First(0) = 0 /\ First(COFFEE_SECTOR_COUNT) = COFFEE_PAGE_COUNT
  BY Constants DEF First, SectorPages, COFFEE_PAGE_COUNT
<1>2. COFFEE_PAGES_PER_SECTOR \in Nat /\ COFFEE_PAGES_PER_SECTOR >= 1
  BY Constants
<1> QED BY <1>1, <1>2

LEMMA FirstOrder ==
    ASSUME NEW s \in Nat, NEW t \in Nat, s < t
    PROVE  First(s + 1) <= First(t)
<1> DEFINE P == COFFEE_PAGES_PER_SECTOR
           d == t - (s + 1)
<1>1. P \in Nat /\ d \in Nat /\ t = (s + 1) + d
  BY Constants
<1> HIDE DEF P, d
<1>2. \A i, j, k \in Nat : (i + j) * k = i * k + j * k /\ j * k \in Nat /\ i * k \in Nat
  OBVIOUS
<1>3. t * P = (s + 1) * P + d * P /\ d * P \in Nat /\ (s + 1) * P \in Nat
  BY <1>1, <1>2
<1> QED BY <1>3 DEF First, P

LEMMA SectorFacts ==
    ASSUME NEW page \in Nat
    PROVE  /\ SectorOf(page) \in Nat
           /\ First(SectorOf(page)) <= page /\ page < First(SectorOf(page) + 1)
           /\ page \in SectorPages(SectorOf(page))
           /\ SectorBehind(page) = First(SectorOf(page) + 1)
           /\ page \in Pages => SectorOf(page) \in Sectors
<1> DEFINE P == COFFEE_PAGES_PER_SECTOR
           d == page \div P
<1>1. P \in Nat /\ P >= 1
  BY Constants
<1> HIDE DEF P
<1>2. d \in Nat /\ d * P <= page /\ page < d * P + P
  BY <1>1
<1> HIDE DEF d
<1>3. First(d) = d * P /\ First(d) \in Nat /\ First(d + 1) = First(d) + P
      /\ SectorPages(d) = First(d) .. (First(d + 1) - 1)
      /\ First(COFFEE_SECTOR_COUNT) = COFFEE_PAGE_COUNT
  BY <1>2, FirstFacts DEF First, P
<1>4. d = SectorOf(page) /\ SectorBehind(page) = First(d + 1)
  BY DEF SectorOf, SectorBehind, First, d, P
<1>5. ASSUME page \in Pages, ~(d < COFFEE_SECTOR_COUNT) PROVE FALSE
  <2>1. COFFEE_SECTOR_COUNT \in Nat /\ page < COFFEE_PAGE_COUNT
    BY <1>5, Constants
  <2>2. d = COFFEE_SECTOR_COUNT \/ First(COFFEE_SECTOR_COUNT + 1) <= First(d)
    BY <1>2, <1>5, <2>1, FirstOrder
  <2>3. First(COFFEE_SECTOR_COUNT + 1) = COFFEE_PAGE_COUNT + P
    BY <1>3, <2>1, FirstFacts DEF P
  <2> QED BY <1>1, <1>2, <1>3, <2>1, <2>2, <2>3, Constants
<1>6. page \in Pages => d \in Sectors
  BY <1>2, <1>5, Constants DEF Sectors
<1>7. First(d) <= page /\ page < First(d + 1) /\ page \in SectorPages(d)
  BY <1>1, <1>2, <1>3
<1> HIDE DEF P
<1> QED BY <1>2, <1>4, <1>6, <1>7

\* A page is in one sector.
LEMMA SectorIs ==
    ASSUME NEW page \in Nat, NEW s \in Nat, First(s) <= page, page < First(s + 1)
    PROVE  SectorOf(page) = s
<1> DEFINE d == SectorOf(page)
<1>1. d \in Nat /\ First(d) <= page /\ page < First(d + 1)
  BY SectorFacts
<1>2. d + 1 \in Nat /\ s + 1 \in Nat
  BY <1>1
<1>3. First(d) \in Nat /\ First(s) \in Nat /\ First(d + 1) \in Nat /\ First(s + 1) \in Nat
  BY <1>1, <1>2, FirstFacts
<1> HIDE DEF d
<1>4. ~(d < s) /\ ~(s < d)
  BY <1>1, <1>3, FirstOrder
<1>5. d = s
  BY <1>1, <1>4
<1> QED BY <1>5 DEF d

LEMMA SectorMonotone ==
    ASSUME NEW x \in Nat, NEW y \in Nat, x <= y
    PROVE  SectorOf(x) <= SectorOf(y)
<1> DEFINE s == SectorOf(x)
           t == SectorOf(y)
<1>1. s \in Nat /\ t \in Nat /\ First(s) <= x /\ y < First(t + 1)
  BY SectorFacts
<1>3. t + 1 \in Nat
  BY <1>1
<1>4. First(s) \in Nat /\ First(t + 1) \in Nat
  BY <1>1, <1>3, FirstFacts
<1> HIDE DEF s, t
<1>2. ~(t < s)
  BY <1>1, <1>4, FirstOrder
<1>5. s <= t
  BY <1>1, <1>2
<1> QED BY <1>5 DEF s, t

LEMMA SectorOfFirst ==
    ASSUME NEW s \in Nat
    PROVE  SectorOf(First(s)) = s
<1>1. First(s) \in Nat /\ First(s + 1) = First(s) + COFFEE_PAGES_PER_SECTOR
  BY FirstFacts
<1>2. COFFEE_PAGES_PER_SECTOR \in Nat /\ COFFEE_PAGES_PER_SECTOR >= 1
  BY Constants
<1>3. First(s) <= First(s) /\ First(s) < First(s + 1)
  BY <1>1, <1>2
<1> QED BY <1>1, <1>3, SectorIs

\* The pages of a sector of the flash.
LEMMA SectorInside ==
    ASSUME NEW s \in Sectors
    PROVE  /\ s \in Nat /\ s < COFFEE_SECTOR_COUNT
           /\ First(s) \in Pages /\ First(s + 1) <= COFFEE_PAGE_COUNT
           /\ \A x \in SectorPages(s) : x \in Pages /\ SectorOf(x) = s /\ First(s) <= x /\ x < First(s + 1)
           /\ \A x \in Pages : SectorOf(x) = s => x \in SectorPages(s)
<1>1. s \in Nat /\ s < COFFEE_SECTOR_COUNT /\ COFFEE_SECTOR_COUNT \in Nat
  BY Constants DEF Sectors
<1>2. First(s + 1) <= COFFEE_PAGE_COUNT
  BY <1>1, FirstOrder, FirstFacts
<1>3. First(s) \in Nat /\ First(s + 1) = First(s) + COFFEE_PAGES_PER_SECTOR
      /\ SectorPages(s) = First(s) .. (First(s + 1) - 1)
  BY <1>1, FirstFacts
<1>4. ASSUME NEW x \in SectorPages(s)
      PROVE  x \in Pages /\ SectorOf(x) = s /\ First(s) <= x /\ x < First(s + 1)
  <2>1. x \in Nat /\ First(s) <= x /\ x < First(s + 1) /\ x \in Pages
    BY <1>2, <1>3, Constants
  <2> QED BY <1>1, <2>1, SectorIs
<1>5. ASSUME NEW x \in Pages, SectorOf(x) = s PROVE x \in SectorPages(s)
  BY <1>5, SectorFacts, Constants
<1>6. First(s) \in Pages
  BY <1>2, <1>3, Constants
<1> QED BY <1>1, <1>2, <1>4, <1>5, <1>6

-----------------------------------------------------------------------------
(* Being on the walk *)

\* The walk is the least set that has the start and where each of its pages leads.
LEMMA WalkInside ==
    ASSUME NEW image \in Images, NEW S, 0 \in S,
           \A q \in Walk(image) :
               q \in S /\ next_file(q, image[q]) < COFFEE_PAGE_COUNT => next_file(q, image[q]) \in S
    PROVE  Walk(image) \subseteq S
<1> DEFINE W == Walk(image)
           T == {x \in W : x \notin S}
<1> SUFFICES ASSUME T # {} PROVE FALSE
  OBVIOUS
<1>1. IsWalk(image, 0, W) /\ W \subseteq Pages /\ Pages \subseteq Nat
  BY WalkIsWalk, Constants
<1> HIDE DEF W
<1>2. PICK c \in T : \A d \in T : c <= d
  <2>1. T \subseteq Nat
    BY <1>1
  <2> HIDE DEF T
  <2> QED BY <2>1, LeastNat
<1>3. PICK q \in W : q < c /\ next_file(q, image[q]) = c
  BY <1>1, <1>2 DEF IsWalk
<1>4. q \in Nat /\ c \in Nat /\ c < COFFEE_PAGE_COUNT /\ COFFEE_PAGE_COUNT \in Nat
  BY <1>1, <1>2, Constants
<1>5. q \in S
  BY <1>2, <1>3, <1>4
<1> QED BY <1>2, <1>3, <1>4, <1>5 DEF W

\* What lies in the extent of a page does so up to the next.
LEMMA ExtentEnd ==
    ASSUME NEW image \in Images, NEW page \in Pages
    PROVE  LET e == Extent(Walk(image), page)
           IN  /\ e \in Walk(image) /\ e \in Pages /\ e <= page
               /\ page < next_file(e, image[e])
               /\ next_file(e, image[e]) \in Nat
<1> DEFINE e == Extent(Walk(image), page)
           n == next_file(e, image[e])
<1>1. page \in Nat /\ page < COFFEE_PAGE_COUNT /\ COFFEE_PAGE_COUNT \in Nat
  BY Constants
<1>2. e \in Walk(image) /\ e <= page /\ \A x \in Walk(image) : x <= page => x <= e
  BY <1>1, ExtentFacts
<1>3. e \in Pages /\ e \in Nat /\ n \in Nat /\ n > e
  BY <1>2, WalkIsWalk, Constants, HeaderFacts
<1>4. n < COFFEE_PAGE_COUNT => n \in Walk(image)
  BY <1>2, WalkIsWalk DEF IsWalk
<1> HIDE DEF e, n
<1>5. page < n
  BY <1>1, <1>2, <1>3, <1>4
<1> QED BY <1>2, <1>3, <1>5 DEF e, n

\* A page that the walk does not jump over is on it.
LEMMA WalkReaches ==
    ASSUME NEW image \in Images, NEW x \in Pages,
           \A q \in Walk(image) : q < x => next_file(q, image[q]) <= x
    PROVE  x \in Walk(image)
<1> DEFINE e == Extent(Walk(image), x)
<1>1. e \in Walk(image) /\ e <= x /\ x < next_file(e, image[e]) /\ next_file(e, image[e]) \in Nat
      /\ e \in Pages
  BY ExtentEnd
<1> HIDE DEF e
<1>2. x \in Nat /\ e \in Nat
  BY <1>1, Constants
<1>3. ~(e < x)
  BY <1>1, <1>2
<1> QED BY <1>1, <1>2, <1>3

-----------------------------------------------------------------------------
(* How the flash is laid out when the walk is right *)

\* Behind a free page that the walk reads, its sector is free.
FreeTail(image) ==
    \A p \in Walk(image) : HDR_FREE(image[p]) =>
        \A x \in Pages : p <= x /\ x < SectorBehind(p) => HDR_FREE(image[x])

\* A sector that an obsolete extent covers still has its data.
Covered(image) ==
    \A e \in Walk(image), s \in Sectors :
        /\ image[e].kind = "obsolete"
        /\ e < First(s) /\ First(s + 1) <= e + image[e].max_pages
        => image[First(s)].kind = "data"

Laid(image) == AllFound(image) /\ FreeTail(image) /\ Covered(image)

\* No sector is worth erasing, unless it is erased already.
Swept(image) ==
    \A s \in Sectors :
        Erasable(image, Walk(image), s) => \A p \in SectorPages(s) : HDR_FREE(image[p])

\* No free page lies before next_free, and the search starts on the walk.
Unhidden(image, next) ==
    /\ \A p \in Walk(image) : HDR_FREE(image[p]) => next <= p
    /\ next < COFFEE_PAGE_COUNT => next \in Walk(image)

LEMMA KindFacts ==
    ASSUME NEW image \in Images, NEW p \in Pages
    PROVE  /\ HDR_FREE(image[p]) => next_file(p, image[p]) = First(SectorOf(p) + 1)
           /\ HDR_ISOLATED(image[p]) => next_file(p, image[p]) = p + 1
           /\ image[p].kind \in {"file", "log", "data", "obsolete"} =>
                  next_file(p, image[p]) = p + image[p].max_pages
           /\ image[p].kind \in {"free", "isolated", "file", "log", "data", "obsolete"}
           /\ HDR_FREE(image[p]) <=> image[p].kind = "free"
           /\ HDR_ISOLATED(image[p]) <=> image[p].kind = "isolated"
           /\ HDR_ACTIVE(image[p]) <=> image[p].kind \in {"file", "log"}
<1>1. image[p] \in HeaderT /\ p \in Nat
  BY HeaderFacts
<1>2. SectorBehind(p) = First(SectorOf(p) + 1)
  BY <1>1, SectorFacts
<1> QED BY <1>1, <1>2 DEF HeaderT, next_file, HDR_FREE, HDR_ISOLATED, HDR_ACTIVE

LEMMA ErasableMeans ==
    ASSUME NEW image, NEW W, NEW s
    PROVE  Erasable(image, W, s) <=>
               /\ \A x \in SectorPages(s) : image[Extent(W, x)].kind \notin {"file", "log", "data"}
               /\ \E x \in SectorPages(s) : image[Extent(W, x)].kind \in {"obsolete", "isolated"}
BY DEF Erasable, Stats

\* A page of an obsolete extent that the walk reads.
LEMMA CoversPage ==
    ASSUME NEW image \in Images, NEW e \in Walk(image), image[e].kind = "obsolete",
           NEW x \in Nat, e <= x, x < e + image[e].max_pages
    PROVE  Extent(Walk(image), x) = e
<1>1. e \in Pages
  BY WalkIsWalk
<1>2. next_file(e, image[e]) = e + image[e].max_pages
  BY <1>1, KindFacts
<1> QED BY <1>2, ExtentIs

\* A sector that an obsolete extent covers is erasable.
LEMMA CoveredErasable ==
    ASSUME NEW image \in Images, NEW e \in Walk(image), image[e].kind = "obsolete",
           NEW s \in Sectors, e <= First(s), First(s + 1) <= e + image[e].max_pages
    PROVE  Erasable(image, Walk(image), s)
<1>1. e \in Pages /\ e \in Nat /\ image[e].max_pages \in Nat
  BY WalkIsWalk, HeaderFacts
<1>2. s \in Nat /\ First(s) \in Pages /\ First(s) \in Nat /\ First(s + 1) = First(s) + COFFEE_PAGES_PER_SECTOR
      /\ SectorPages(s) = First(s) .. (First(s + 1) - 1)
      /\ COFFEE_PAGES_PER_SECTOR \in Nat /\ COFFEE_PAGES_PER_SECTOR >= 1
  BY SectorInside, FirstFacts, Constants
<1>3. ASSUME NEW x \in SectorPages(s) PROVE image[Extent(Walk(image), x)].kind = "obsolete"
  <2>1. x \in Nat /\ e <= x /\ x < e + image[e].max_pages
    BY <1>1, <1>2
  <2> QED BY <2>1, CoversPage
<1>4. First(s) \in SectorPages(s)
  BY <1>2
<1> QED BY <1>3, <1>4, ErasableMeans

-----------------------------------------------------------------------------
(* Images that garbage collection leaves on the way *)

\* The page is in a sector that has been erased before sector k is looked at.
Erased(i, k, x) == SectorOf(x) < k /\ Erasable(i, Walk(i), SectorOf(x))

\* The page is isolated because the sector before is erased.
TailPage(i, x) ==
    \E s \in Sectors : /\ s + 1 = SectorOf(x)
                       /\ Erasable(i, Walk(i), s)
                       /\ x < First(s + 1) + IsolationCount(i, Walk(i), s)

\* The flash j that garbage collection has made of i when it has dealt with the
\* sectors before k; it may have isolated some of what reaches out of sector k.
Sweep(i, j, k) ==
    /\ j \in Images
    /\ \A x \in Pages :
          /\ Erased(i, k, x) => j[x] = Page("free")
          /\ ~Erased(i, k, x) /\ TailPage(i, x) =>
                 j[x] = Page("isolated") \/ (j[x] = i[x] /\ SectorOf(x) > k)
          /\ ~Erased(i, k, x) /\ ~TailPage(i, x) => j[x] = i[x]

\* A tail is what an obsolete extent has in the sector behind, and the walk goes on
\* where it ends.
LEMMA TailFacts ==
    ASSUME NEW i \in Images, NEW x \in Pages, TailPage(i, x)
    PROVE  /\ \E e \in Walk(i) : i[e].kind = "obsolete" /\ e < x /\ x < e + i[e].max_pages
           /\ x \notin Walk(i)
           /\ x + 1 < COFFEE_PAGE_COUNT =>
                 \/ x + 1 \in Walk(i)
                 \/ TailPage(i, x + 1) /\ SectorOf(x + 1) = SectorOf(x)
           /\ \A y \in Pages : y <= x /\ SectorOf(y) = SectorOf(x) => TailPage(i, y)
<1>1. PICK s \in Sectors : /\ s + 1 = SectorOf(x) /\ Erasable(i, Walk(i), s)
                           /\ x < First(s + 1) + IsolationCount(i, Walk(i), s)
  BY DEF TailPage
<1> DEFINE end  == First(s + 1)
           e    == Extent(Walk(i), end - 1)
           skip == e + i[e].max_pages - end
           count == IsolationCount(i, Walk(i), s)
           P == COFFEE_PAGES_PER_SECTOR
<1>2. count = IF i[e].kind = "obsolete" /\ 0 < skip /\ skip < P THEN skip ELSE 0
  BY DEF IsolationCount, First
<1>3. s \in Nat /\ end \in Nat /\ end >= 1 /\ end <= COFFEE_PAGE_COUNT /\ COFFEE_PAGE_COUNT \in Nat
      /\ First((s + 1) + 1) = end + P /\ P \in Nat
  <2>0. s \in Nat /\ First(s + 1) <= COFFEE_PAGE_COUNT
    BY SectorInside
  <2>1. s \in Nat /\ s + 1 \in Nat /\ First(s) \in Nat /\ First(s + 1) <= COFFEE_PAGE_COUNT
    BY <2>0, FirstFacts
  <2>2. First(s + 1) \in Nat /\ First((s + 1) + 1) = First(s + 1) + P
        /\ First(s + 1) = First(s) + P
    BY <2>1, FirstFacts
  <2> QED BY <2>1, <2>2, Constants
<1>4. x \in Nat /\ end <= x
  BY <1>1, SectorFacts, Constants
<1> HIDE DEF end
<1>5. e \in Walk(i) /\ e <= end - 1 /\ e \in Pages /\ e \in Nat /\ i[e].max_pages \in Nat
  BY <1>3, ExtentFacts, WalkIsWalk, HeaderFacts
<1> HIDE DEF e, count
<1>6. i[e].kind = "obsolete" /\ count = skip /\ skip < P /\ x < e + i[e].max_pages /\ e < x
  BY <1>1, <1>2, <1>3, <1>4, <1>5 DEF end, count
<1>7. next_file(e, i[e]) = e + i[e].max_pages
  BY <1>5, <1>6, KindFacts
<1>8. x \notin Walk(i)
  <2> SUFFICES ASSUME x \in Walk(i) PROVE FALSE
    OBVIOUS
  <2>1. next_file(e, i[e]) <= x
    BY <1>5, <1>6, WalkIsWalk, NothingBetween, 0 \in Nat
  <2> QED BY <1>4, <1>5, <1>6, <1>7, <2>1
<1>9. ASSUME x + 1 < COFFEE_PAGE_COUNT
      PROVE  x + 1 \in Walk(i) \/ (TailPage(i, x + 1) /\ SectorOf(x + 1) = SectorOf(x))
  <2>1. CASE x + 1 = e + i[e].max_pages
    BY <1>5, <1>7, <1>9, <2>1, WalkIsWalk DEF IsWalk
  <2>2. CASE x + 1 # e + i[e].max_pages
    <3>1. x + 1 < e + i[e].max_pages /\ x + 1 < end + P /\ x + 1 \in Nat /\ end <= x + 1
      BY <1>3, <1>4, <1>5, <1>6, <2>2
    <3>2. SectorOf(x + 1) = s + 1
      BY <1>3, <3>1, SectorIs DEF end
    <3>3. x + 1 < end + count
      BY <1>3, <1>4, <1>5, <1>6, <3>1
    <3> QED BY <1>1, <3>2, <3>3 DEF TailPage, end, count
  <2> QED BY <2>1, <2>2
<1>10. ASSUME NEW y \in Pages, y <= x, SectorOf(y) = SectorOf(x) PROVE TailPage(i, y)
  <2>1. y \in Nat /\ count \in Nat /\ x < end + count
    BY <1>1, <1>3, <1>4, <1>5, <1>6, Constants DEF end, count
  <2>2. y < end + count
    BY <1>3, <1>4, <1>10, <2>1
  <2> QED BY <1>1, <1>10, <2>2 DEF TailPage, end, count
<1> QED BY <1>5, <1>6, <1>8, <1>9, <1>10

\* Before it has looked at any sector, garbage collection has done nothing.
LEMMA SweepNone ==
    ASSUME NEW i \in Images
    PROVE  Sweep(i, i, 0)
<1> SUFFICES ASSUME NEW x \in Pages
             PROVE  ~Erased(i, 0, x) /\ (TailPage(i, x) => SectorOf(x) > 0)
  BY DEF Sweep
<1>1. SectorOf(x) \in Nat /\ \A s \in Sectors : s \in Nat
  BY SectorFacts, SectorInside, Constants
<1> QED BY <1>1 DEF Erased, TailPage

LEMMA SweepKinds ==
    ASSUME NEW i \in Images, NEW k \in Nat, NEW j, Sweep(i, j, k), NEW x \in Pages
    PROVE  /\ Erased(i, k, x) => j[x].kind = "free"
           /\ j[x].kind \notin {"free", "isolated"} => ~Erased(i, k, x) /\ j[x] = i[x]
           /\ ~Erased(i, k, x) /\ TailPage(i, x) /\ SectorOf(x) <= k => j[x].kind = "isolated"
           /\ x \in Walk(i) /\ ~Erased(i, k, x) => j[x] = i[x]
           /\ ~Erased(i, k, x) /\ ~TailPage(i, x) => j[x] = i[x]
<1>1. Page("free").kind = "free" /\ Page("isolated").kind = "isolated"
  BY PageType
<1>2. SectorOf(x) \in Nat
  BY SectorFacts, Constants
<1>3. x \in Walk(i) => ~TailPage(i, x)
  BY TailFacts
<1> QED BY <1>1, <1>2, <1>3 DEF Sweep

LEMMA SweepKeeps ==
    ASSUME NEW i \in Images, NEW k \in Nat, NEW j, Sweep(i, j, k), NEW x \in Pages,
           x \in Walk(i), ~Erased(i, k, x)
    PROVE  j[x] = i[x]
BY SweepKinds

\* What is erased or isolated is not in use.
LEMMA SweepCleaned ==
    ASSUME NEW i \in Images, AllFound(i), NEW k \in Nat, NEW j, Sweep(i, j, k)
    PROVE  Cleaned(i, j)
<1>1. ASSUME NEW x \in Pages
      PROVE  j[x] = i[x] \/ (~InUse(i, x) /\ ~HDR_ACTIVE(j[x]))
  <2>1. CASE Erased(i, k, x)
    <3>1. Erasable(i, Walk(i), SectorOf(x)) /\ x \in SectorPages(SectorOf(x))
      BY <2>1, SectorFacts, Constants DEF Erased
    <3>2. ~InUse(i, x)
      BY <3>1, ErasableUnused
    <3> QED BY <2>1, <3>2, PageType DEF Sweep
  <2>2. CASE ~Erased(i, k, x) /\ TailPage(i, x)
    <3>1. PICK e \in Walk(i) : i[e].kind = "obsolete" /\ e < x /\ x < e + i[e].max_pages
      BY <2>2, TailFacts
    <3>2. e \in Nat /\ x \in Nat /\ e <= x
      BY <3>1, WalkIsWalk, Constants
    <3>3. Extent(Walk(i), x) = e
      BY <3>1, <3>2, CoversPage
    <3>4. ~InUse(i, x)
      BY <3>1, <3>3, InUseExtent DEF HDR_ACTIVE
    <3>5. j[x] = i[x] \/ j[x] = Page("isolated")
      BY <2>2 DEF Sweep
    <3> QED BY <3>4, <3>5, PageType
  <2> QED BY <2>1, <2>2 DEF Sweep
<1> QED BY <1>1 DEF Cleaned, Sweep

\* When a sector that is erased ends inside an obsolete extent that covers the whole next
\* one, the walk comes to data there, unless that one is erased, too.
LEMMA SweepBehind ==
    ASSUME NEW i \in Images, Covered(i), NEW k \in Nat, NEW j, Sweep(i, j, k),
           k = COFFEE_SECTOR_COUNT \/ HeadersOnly(j),
           NEW s \in Sectors, s < k, Erasable(i, Walk(i), s),
           First(s + 1) \in Walk(j)
    PROVE  LET y == First(s + 1)
           IN  y \in Walk(i) \/ Erased(i, k, y) \/ (TailPage(i, y) /\ SectorOf(y) <= k)
<1> DEFINE W == Walk(i)
           y == First(s + 1)
           e == Extent(W, y - 1)
           P == COFFEE_PAGES_PER_SECTOR
           n == next_file(e, i[e])
<1>1. /\ s \in Nat /\ s + 1 \in Nat /\ k \in Nat /\ s + 1 <= k
      /\ y \in Nat /\ y \in Pages /\ y - 1 \in Pages /\ y - 1 \in SectorPages(s)
      /\ First((s + 1) + 1) = y + P /\ SectorOf(y) = s + 1
      /\ P \in Nat /\ P >= 1
  <2>1. s \in Nat /\ s + 1 \in Nat /\ k \in Nat /\ P \in Nat /\ P >= 1
    BY SectorInside, Constants
  <2>2. First(s) \in Nat /\ y = First(s) + P /\ y \in Nat /\ First((s + 1) + 1) = y + P
        /\ SectorPages(s) = First(s) .. (y - 1)
    BY <2>1, FirstFacts
  <2>3. y \in Pages /\ SectorOf(y) = s + 1
    BY <2>1, WalkIsWalk, SectorOfFirst DEF Sweep
  <2> HIDE DEF y, P
  <2> QED BY <2>1, <2>2, <2>3, Constants
<1> HIDE DEF y, P
<1>2. e \in W /\ e \in Pages /\ e <= y - 1 /\ y - 1 < n /\ n \in Nat
  BY <1>1, ExtentEnd
<1>3. e \in Nat /\ i[e].max_pages \in Nat /\ y < COFFEE_PAGE_COUNT
  BY <1>1, <1>2, HeaderFacts, Constants
<1>4. n = y => y \in W
  BY <1>2, <1>3, WalkIsWalk DEF IsWalk
<1>5. i[e].kind \notin {"file", "log", "data"}
  BY <1>1, ErasableMeans
<1>6. CASE i[e].kind = "free"
  <2>1. n = First(SectorOf(e) + 1)
    BY <1>2, <1>6, KindFacts
  <2>2. SectorOf(e) \in Nat /\ SectorOf(e) <= SectorOf(y - 1) /\ SectorOf(y - 1) = s
    <3>1. SectorOf(y - 1) = s
      BY <1>1, SectorInside
    <3>2. y - 1 \in Nat
      BY <1>1, Constants
    <3> QED BY <1>2, <1>3, <3>1, <3>2, SectorFacts, SectorMonotone
  <2>3. SectorOf(e) < s => n <= First(s)
    BY <1>1, <2>1, <2>2, FirstOrder
  <2>4. First(s) <= y - 1
    BY <1>1, SectorInside
  <2>5. First(s) \in Nat
    BY <1>1, FirstFacts
  <2>6. SectorOf(e) = s
    BY <1>1, <1>2, <2>2, <2>3, <2>4, <2>5
  <2> QED BY <1>4, <2>1, <2>6 DEF y
<1>7. CASE i[e].kind = "isolated"
  <2>1. n = e + 1
    BY <1>2, <1>7, KindFacts
  <2>2. n = y
    BY <1>1, <1>2, <1>3, <2>1
  <2> QED BY <1>4, <2>2 DEF y
<1>8. CASE i[e].kind = "obsolete"
  <2> DEFINE skip == e + i[e].max_pages - y
             count == IsolationCount(i, W, s)
  <2>1. n = y + skip /\ skip \in Nat
    <3>1. n = e + i[e].max_pages
      BY <1>2, <1>8, KindFacts
    <3> QED BY <1>1, <1>2, <1>3, <3>1
  <2>2. count = IF 0 < skip /\ skip < P THEN skip ELSE 0
    BY <1>8 DEF IsolationCount, First, y, P
  <2> HIDE DEF count
  <2>3. CASE skip = 0
    BY <1>4, <1>1, <2>1, <2>3 DEF y
  <2>4. CASE 0 < skip /\ skip < P
    <3>1. y < y + count
      BY <1>1, <2>1, <2>2, <2>4
    <3>2. TailPage(i, y)
      BY <1>1, <3>1 DEF TailPage, count, y
    <3> QED BY <1>1, <3>2 DEF y
  <2>5. CASE P <= skip
    <3>1. s + 1 \in Sectors
      BY <1>1, SectorFacts, Constants
    <3>2. e < First(s + 1) /\ First((s + 1) + 1) <= e + i[e].max_pages
      BY <1>1, <1>2, <1>3, <2>5 DEF y
    <3>6. e <= First(s + 1)
      BY <1>1, <1>3, <3>2 DEF y
    <3>3. Erasable(i, W, s + 1)
      BY <1>2, <1>8, <3>1, <3>2, <3>6, CoveredErasable
    <3>4. CASE s + 1 < k
      BY <1>1, <3>3, <3>4 DEF Erased, y
    <3>5. CASE s + 1 = k
      <4>1. HeadersOnly(j)
        BY <3>1, <3>5, SectorInside
      <4>2. i[y].kind = "data"
        BY <1>2, <1>8, <3>1, <3>2 DEF Covered, y
      <4>3. ~Erased(i, k, y)
        BY <1>1, <3>5 DEF Erased
      <4>4. ~TailPage(i, y)
        <5>1. count = 0
          BY <1>1, <2>1, <2>2, <2>5
        <5>2. ASSUME NEW t \in Sectors, t + 1 = SectorOf(y) PROVE t = s
          BY <1>1, <5>2, SectorInside
        <5> QED BY <1>1, <5>1, <5>2 DEF TailPage, count, y
      <4>5. j[y] = i[y]
        BY <1>1, <4>3, <4>4, SweepKinds
      <4> QED BY <4>1, <4>2, <4>5 DEF HeadersOnly, y
    <3> QED BY <1>1, <3>4, <3>5
  <2> QED BY <1>1, <2>1, <2>3, <2>4, <2>5
<1> QED BY <1>2, <1>5, <1>6, <1>7, <1>8, KindFacts

\* Garbage collection leads the walk to erased sectors and isolated pages only, and
\* otherwise where it has been before.
LEMMA SweepWalk ==
    ASSUME NEW i \in Images, Covered(i), NEW k \in Nat, NEW j, Sweep(i, j, k),
           k = COFFEE_SECTOR_COUNT \/ HeadersOnly(j)
    PROVE  \A x \in Walk(j) :
               x \in Walk(i) \/ Erased(i, k, x) \/ (TailPage(i, x) /\ SectorOf(x) <= k)
<1> DEFINE S == {x \in Pages : x \in Walk(i) \/ Erased(i, k, x) \/ (TailPage(i, x) /\ SectorOf(x) <= k)}
<1>0. j \in Images
  BY DEF Sweep
<1>1. 0 \in S
  BY WalkIsWalk
<1>2. ASSUME NEW q \in Walk(j), q \in S, next_file(q, j[q]) < COFFEE_PAGE_COUNT
      PROVE  next_file(q, j[q]) \in S
  <2> DEFINE y == next_file(q, j[q])
  <2>1. q \in Pages /\ q \in Nat /\ y \in Walk(j) /\ y \in Pages
    BY <1>0, <1>2, WalkIsWalk, Constants DEF IsWalk
  <2>2. CASE Erased(i, k, q)
    <3>1. SectorOf(q) \in Sectors /\ SectorOf(q) < k /\ Erasable(i, Walk(i), SectorOf(q))
      BY <2>1, <2>2, SectorFacts DEF Erased
    <3>2. y = First(SectorOf(q) + 1)
      BY <1>0, <2>1, <2>2, SweepKinds, KindFacts
    <3> QED BY <2>1, <3>1, <3>2, SweepBehind
  <2>3. CASE ~Erased(i, k, q) /\ TailPage(i, q) /\ SectorOf(q) <= k
    <3>1. y = q + 1
      BY <1>0, <2>1, <2>3, SweepKinds, KindFacts
    <3> QED BY <1>2, <2>1, <2>3, <3>1, TailFacts
  <2>4. CASE ~Erased(i, k, q) /\ q \in Walk(i)
    <3>1. j[q] = i[q]
      BY <2>1, <2>4, SweepKinds
    <3> QED BY <1>2, <2>1, <2>4, <3>1, WalkIsWalk DEF IsWalk
  <2> QED BY <1>2, <2>2, <2>3, <2>4
<1> HIDE DEF S
<1>3. Walk(j) \subseteq S
  BY <1>0, <1>1, <1>2, WalkInside
<1> QED BY <1>3 DEF S

\* What the walk has read it still reads, unless it is erased.
LEMMA SweepStays ==
    ASSUME NEW i \in Images, Covered(i), NEW k \in Nat, NEW j, Sweep(i, j, k),
           k = COFFEE_SECTOR_COUNT \/ HeadersOnly(j),
           NEW x \in Walk(i), ~Erased(i, k, x)
    PROVE  x \in Walk(j) /\ j[x] = i[x]
<1>0. j \in Images /\ x \in Pages /\ x \in Nat
  BY WalkIsWalk, Constants DEF Sweep
<1>1. ASSUME NEW q \in Walk(j), q < x
      PROVE  next_file(q, j[q]) <= x
  <2>1. q \in Pages /\ q \in Nat
    BY <1>0, WalkIsWalk, Constants
  <2>2. q \in Walk(i) \/ Erased(i, k, q) \/ (TailPage(i, q) /\ SectorOf(q) <= k)
    BY SweepWalk
  <2>3. CASE Erased(i, k, q)
    <3>1. next_file(q, j[q]) = First(SectorOf(q) + 1)
      BY <1>0, <2>1, <2>3, SweepKinds, KindFacts
    <3>2. SectorOf(q) \in Nat /\ SectorOf(x) \in Nat /\ SectorOf(q) <= SectorOf(x)
      BY <1>0, <1>1, <2>1, SectorFacts, SectorMonotone
    <3>3. SectorOf(q) # SectorOf(x)
      BY <2>3 DEF Erased
    <3>4. First(SectorOf(q) + 1) <= First(SectorOf(x))
      BY <3>2, <3>3, FirstOrder
    <3>5. First(SectorOf(x)) <= x
      BY <1>0, SectorFacts
    <3>6. First(SectorOf(q) + 1) \in Nat /\ First(SectorOf(x)) \in Nat
      BY <3>2, FirstFacts
    <3> QED BY <1>0, <3>1, <3>4, <3>5, <3>6
  <2>4. CASE ~Erased(i, k, q) /\ TailPage(i, q) /\ SectorOf(q) <= k
    <3>1. next_file(q, j[q]) = q + 1
      BY <1>0, <2>1, <2>4, SweepKinds, KindFacts
    <3> QED BY <1>0, <1>1, <2>1, <3>1
  <2>5. CASE ~Erased(i, k, q) /\ q \in Walk(i)
    <3>1. j[q] = i[q]
      BY <2>1, <2>5, SweepKinds
    <3> QED BY <1>1, <2>5, <3>1, NothingBetween, WalkIsWalk, 0 \in Nat
  <2> QED BY <2>2, <2>3, <2>4, <2>5
<1> QED BY <1>0, <1>1, WalkReaches, SweepKinds

\* The first page of an erased sector is on the walk, if the tails have gone.
LEMMA SweepFirst ==
    ASSUME NEW i \in Images, Covered(i), TailsGo(i, Walk(i)), NEW j, Sweep(i, j, COFFEE_SECTOR_COUNT),
           NEW s \in Sectors, Erasable(i, Walk(i), s)
    PROVE  First(s) \in Walk(j)
<1> DEFINE x == First(s)
           k == COFFEE_SECTOR_COUNT
<1>0. j \in Images /\ x \in Pages /\ x \in Nat /\ s \in Nat /\ k \in Nat
  BY SectorInside, Constants DEF Sweep
<1> HIDE DEF x
<1>1. ASSUME NEW q \in Walk(j), q < x
      PROVE  next_file(q, j[q]) <= x
  <2>1. q \in Pages /\ q \in Nat
    BY <1>0, WalkIsWalk, Constants
  <2>2. q \in Walk(i) \/ Erased(i, k, q) \/ (TailPage(i, q) /\ SectorOf(q) <= k)
    BY <1>0, SweepWalk
  <2>3. CASE Erased(i, k, q)
    <3>1. next_file(q, j[q]) = First(SectorOf(q) + 1)
      BY <1>0, <2>1, <2>3, SweepKinds, KindFacts
    <3>2. SectorOf(q) \in Nat /\ First(SectorOf(q)) <= q /\ q < First(SectorOf(q) + 1)
      BY <2>1, SectorFacts
    <3>3. SectorOf(q) < s
      <4>1. ~(s < SectorOf(q)) /\ SectorOf(q) # s
        <5>1. s < SectorOf(q) => First(s + 1) <= First(SectorOf(q))
          BY <1>0, <3>2, FirstOrder
        <5>2. First(s) < First(s + 1) /\ First(SectorOf(q)) \in Nat /\ First(s) \in Nat /\ First(s + 1) \in Nat
          BY <1>0, <3>2, FirstFacts
        <5> QED BY <1>1, <2>1, <3>2, <5>1, <5>2 DEF x
      <4> QED BY <1>0, <3>2, <4>1
    <3> QED BY <1>0, <3>1, <3>2, <3>3, FirstOrder DEF x
  <2>4. CASE ~Erased(i, k, q) /\ TailPage(i, q) /\ SectorOf(q) <= k
    <3>1. next_file(q, j[q]) = q + 1
      BY <1>0, <2>1, <2>4, SweepKinds, KindFacts
    <3> QED BY <1>0, <1>1, <2>1, <3>1
  <2>5. CASE ~Erased(i, k, q) /\ q \in Walk(i)
    <3>1. j[q] = i[q] /\ next_file(q, i[q]) \in Nat
      BY <1>0, <2>1, <2>5, SweepKinds, HeaderFacts
    <3>2. ASSUME x < next_file(q, i[q]) PROVE FALSE
      <4>1. q <= x
        BY <1>0, <1>1, <2>1
      <4>2. Extent(Walk(i), x) = q
        BY <1>0, <2>5, <3>2, <4>1, ExtentIs
      <4>5. i[q].kind = "obsolete"
        <5>1. First(SectorOf(q) + 1) <= x \/ SectorOf(q) = s
          <6>1. SectorOf(q) \in Nat /\ SectorOf(q) <= s /\ SectorOf(x) = s
            BY <1>0, <2>1, <4>1, SectorMonotone, SectorOfFirst, SectorFacts DEF x
          <6>2. SectorOf(q) < s => First(SectorOf(q) + 1) <= x
            BY <1>0, <6>1, FirstOrder DEF x
          <6> QED BY <1>0, <6>1, <6>2
        <5>2. SectorOf(q) # s
          <6> SUFFICES ASSUME SectorOf(q) = s PROVE FALSE
            OBVIOUS
          <6>1. First(s) <= q
            BY <2>1, SectorFacts
          <6> QED BY <1>0, <1>1, <2>1, <6>1 DEF x
        <5>3. ~HDR_FREE(i[q]) /\ ~HDR_ISOLATED(i[q])
          <6>1. HDR_FREE(i[q]) => next_file(q, i[q]) <= x
            BY <2>1, <5>1, <5>2, KindFacts
          <6>2. HDR_ISOLATED(i[q]) => next_file(q, i[q]) <= x
            BY <1>0, <1>1, <2>1, KindFacts
          <6> QED BY <1>0, <3>1, <3>2, <6>1, <6>2
        <5>4. x \in SectorPages(s)
          BY <1>0, SectorInside, FirstFacts, SectorFacts DEF SectorPages, First, x
        <5>5. i[q].kind \notin {"file", "log", "data"}
          BY <4>2, <5>4, ErasableMeans
        <5> QED BY <2>1, <5>3, <5>5, KindFacts
      <4>3. Erasable(i, Walk(i), SectorOf(q))
        BY <4>2, <4>5 DEF TailsGo, SectorOf, First, x
      <4>4. SectorOf(q) < k
        BY <2>1, SectorFacts, SectorInside
      <4> QED BY <2>5, <4>3, <4>4 DEF Erased
    <3> QED BY <1>0, <3>1, <3>2
  <2> QED BY <2>2, <2>3, <2>4, <2>5
<1>2. x \in Walk(j)
  BY <1>0, <1>1, WalkReaches
<1> QED BY <1>2 DEF x

\* A flash stays laid out as it should be, wherever garbage collection is cut off, unless
\* the walk comes to data.
LEMMA SweepLaid ==
    ASSUME NEW i \in Images, Laid(i), TailsGo(i, Walk(i)), NEW k \in Nat, NEW j, Sweep(i, j, k),
           k = COFFEE_SECTOR_COUNT \/ HeadersOnly(j)
    PROVE  Laid(j)
<1>0. j \in Images /\ Covered(i) /\ AllFound(i) /\ FreeTail(i)
  BY DEF Sweep, Laid
<1>1. AllFound(j)
  <2> SUFFICES ASSUME NEW p \in Pages, HDR_ACTIVE(j[p]) PROVE p \in Walk(j)
    BY DEF AllFound
  <2>1. ~Erased(i, k, p) /\ j[p] = i[p]
    BY SweepKinds DEF HDR_ACTIVE
  <2>2. p \in Walk(i)
    BY <1>0, <2>1 DEF AllFound
  <2> QED BY <1>0, <2>1, <2>2, SweepStays
<1>2. FreeTail(j)
  <2> SUFFICES ASSUME NEW p \in Walk(j), HDR_FREE(j[p]), NEW x \in Pages, p <= x, x < SectorBehind(p)
               PROVE  HDR_FREE(j[x])
    BY DEF FreeTail
  <2>1. p \in Pages /\ p \in Nat /\ x \in Nat
    BY <1>0, WalkIsWalk, Constants
  <2>2. SectorOf(x) = SectorOf(p)
    <3>1. SectorOf(p) \in Nat /\ First(SectorOf(p)) <= p /\ SectorBehind(p) = First(SectorOf(p) + 1)
      BY <2>1, SectorFacts
    <3>2. First(SectorOf(p)) \in Nat
      BY <3>1, FirstFacts
    <3>3. First(SectorOf(p)) <= x
      BY <2>1, <3>1, <3>2
    <3> QED BY <2>1, <3>1, <3>3, SectorIs
  <2>3. p \in Walk(i) \/ Erased(i, k, p) \/ (TailPage(i, p) /\ SectorOf(p) <= k)
    BY <1>0, SweepWalk
  <2>4. CASE Erased(i, k, p)
    <3>1. Erased(i, k, x)
      BY <2>2, <2>4 DEF Erased
    <3> QED BY <3>1, SweepKinds DEF HDR_FREE
  <2>5. CASE ~Erased(i, k, p) /\ TailPage(i, p) /\ SectorOf(p) <= k
    BY <2>1, <2>5, SweepKinds DEF HDR_FREE
  <2>6. CASE ~Erased(i, k, p) /\ p \in Walk(i)
    <3>1. j[p] = i[p]
      BY <2>1, <2>6, SweepKeeps
    <3>2. HDR_FREE(i[x])
      BY <1>0, <2>6, <3>1 DEF FreeTail
    <3>3. ~Erased(i, k, x)
      BY <2>2, <2>6 DEF Erased
    <3>4. ~TailPage(i, x)
      BY <2>1, <2>2, <2>6, TailFacts
    <3> QED BY <3>2, <3>3, <3>4, SweepKinds, ZenonT(40)
  <2> QED BY <2>3, <2>4, <2>5, <2>6
<1>3. Covered(j)
  <2> SUFFICES ASSUME NEW e \in Walk(j), NEW s \in Sectors, j[e].kind = "obsolete",
                      e < First(s), First(s + 1) <= e + j[e].max_pages
               PROVE  j[First(s)].kind = "data"
    BY DEF Covered
  <2>1. e \in Pages /\ e \in Nat /\ s \in Nat /\ s < COFFEE_SECTOR_COUNT
        /\ First(s) \in Pages /\ First(s) \in Nat
    BY <1>0, WalkIsWalk, Constants, SectorInside
  <2>2. ~Erased(i, k, e) /\ j[e] = i[e]
    BY <2>1, SweepKinds
  <2>3. e \in Walk(i)
    <3>1. ~(TailPage(i, e) /\ SectorOf(e) <= k)
      BY <2>1, <2>2, SweepKinds
    <3> QED BY <1>0, <2>2, <3>1, SweepWalk
  <2>4. i[First(s)].kind = "data"
    BY <1>0, <2>2, <2>3 DEF Covered
  <2>13. e <= First(s)
    BY <2>1
  <2>5. e <= First(s) /\ First(s) < First(s + 1) /\ First(s + 1) \in Nat
        /\ First(s + 1) = First(s) + COFFEE_PAGES_PER_SECTOR
    BY <2>1, <2>13, FirstFacts
  <2>6. Extent(Walk(i), First(s)) = e
    BY <2>1, <2>2, <2>3, <2>5, HeaderFacts, CoversPage
  <2>7. Erasable(i, Walk(i), s)
    BY <2>2, <2>3, <2>5, CoveredErasable
  <2>8. Erasable(i, Walk(i), SectorOf(e))
    BY <2>2, <2>6, <2>7 DEF TailsGo, First, SectorOf
  <2>9. SectorOf(e) <= s /\ SectorOf(e) \in Nat /\ SectorOf(First(s)) = s
    BY <2>1, <2>5, SectorMonotone, SectorOfFirst, SectorFacts
  <2>10. ~(s < k)
    BY <2>1, <2>2, <2>8, <2>9 DEF Erased
  <2>11. ~Erased(i, k, First(s))
    BY <2>9, <2>10 DEF Erased
  <2>12. ~TailPage(i, First(s))
    <3> SUFFICES ASSUME NEW t \in Sectors, t + 1 = s,
                        First(s) < First(t + 1) + IsolationCount(i, Walk(i), t)
                 PROVE  FALSE
      BY <2>9 DEF TailPage
    <3>1. First(s) - 1 \in Nat /\ e <= First(s) - 1 /\ First(s) - 1 < e + i[e].max_pages
          /\ i[e].max_pages \in Nat
      BY <2>1, <2>2, <2>5, HeaderFacts
    <3>2. Extent(Walk(i), First(s) - 1) = e
      BY <2>2, <2>3, <3>1, CoversPage
    <3>3. IsolationCount(i, Walk(i), t) = 0
      <4> DEFINE skip == e + i[e].max_pages - First(s)
      <4>1. IsolationCount(i, Walk(i), t) =
                IF i[e].kind = "obsolete" /\ 0 < skip /\ skip < COFFEE_PAGES_PER_SECTOR THEN skip ELSE 0
        BY <3>2 DEF IsolationCount, First
      <4>2. COFFEE_PAGES_PER_SECTOR \in Nat
        BY Constants
      <4>3. ~(skip < COFFEE_PAGES_PER_SECTOR)
        BY <2>1, <2>2, <2>5, <3>1, <4>2
      <4> QED BY <4>1, <4>3
    <3> QED BY <2>1, <3>3
  <2> QED BY <2>1, <2>4, <2>11, <2>12, SweepKinds
<1> QED BY <1>1, <1>2, <1>3 DEF Laid

\* Completed, it leaves no data on the walk,
LEMMA SweepHeaders ==
    ASSUME NEW i \in Images, Laid(i), HeadersOnly(i), NEW j, Sweep(i, j, COFFEE_SECTOR_COUNT)
    PROVE  HeadersOnly(j)
<1> DEFINE k == COFFEE_SECTOR_COUNT
<1>0. j \in Images /\ Covered(i) /\ k \in Nat
  BY Constants DEF Sweep, Laid
<1> SUFFICES ASSUME NEW x \in Walk(j) PROVE j[x].kind # "data"
  BY DEF HeadersOnly
<1>1. x \in Pages
  BY <1>0, WalkIsWalk
<1>2. x \in Walk(i) \/ Erased(i, k, x) \/ (TailPage(i, x) /\ SectorOf(x) <= k)
  BY <1>0, SweepWalk
<1>3. CASE Erased(i, k, x)
  BY <1>0, <1>1, <1>3, SweepKinds
<1>4. CASE ~Erased(i, k, x) /\ TailPage(i, x) /\ SectorOf(x) <= k
  BY <1>0, <1>1, <1>4, SweepKinds
<1>5. CASE ~Erased(i, k, x) /\ x \in Walk(i)
  BY <1>0, <1>1, <1>5, SweepKinds DEF HeadersOnly
<1> QED BY <1>2, <1>3, <1>4, <1>5

\* and no sector that is worth erasing.
LEMMA SweepSwept ==
    ASSUME NEW i \in Images, Laid(i), NEW j, Sweep(i, j, COFFEE_SECTOR_COUNT)
    PROVE  Swept(j)
<1> DEFINE k == COFFEE_SECTOR_COUNT
           W == Walk(i)
           V == Walk(j)
<1>0. j \in Images /\ Covered(i) /\ k \in Nat
  BY Constants DEF Sweep, Laid
<1> SUFFICES ASSUME NEW s \in Sectors, Erasable(j, V, s)
             PROVE  \A p \in SectorPages(s) : HDR_FREE(j[p])
  BY DEF Swept
<1>1. s \in Nat /\ s < k /\ \A x \in SectorPages(s) : x \in Pages /\ SectorOf(x) = s /\ First(s) <= x
  BY SectorInside
<1>2. ASSUME Erasable(i, W, s), NEW p \in SectorPages(s) PROVE HDR_FREE(j[p])
  <2>1. Erased(i, k, p) /\ p \in Pages
    BY <1>1, <1>2 DEF Erased
  <2> QED BY <1>0, <2>1, SweepKinds DEF HDR_FREE
<1>3. ASSUME ~Erasable(i, W, s) PROVE FALSE
  <2>1. ASSUME NEW x \in SectorPages(s)
        PROVE  \/ i[Extent(W, x)].kind = j[Extent(V, x)].kind
               \/ i[Extent(W, x)].kind = "obsolete"
    <3> DEFINE a == Extent(W, x)
    <3>1. a \in W /\ a \in Pages /\ a <= x /\ x < next_file(a, i[a]) /\ next_file(a, i[a]) \in Nat
          /\ x \in Pages /\ SectorOf(x) = s /\ First(s) <= x
      BY <1>1, ExtentEnd
    <3>2. a \in Nat /\ x \in Nat /\ First(s) \in Nat
      BY <1>1, <3>1, Constants, FirstFacts
    <3> HIDE DEF a
    <3>3. CASE ~Erased(i, k, a)
      <4>1. a \in V /\ j[a] = i[a]
        BY <1>0, <3>1, <3>3, SweepStays
      <4>2. Extent(V, x) = a
        BY <1>0, <3>1, <3>2, <4>1, ExtentIs
      <4> QED BY <4>1, <4>2 DEF a
    <3>4. CASE Erased(i, k, a)
      <4> DEFINE t == SectorOf(a)
      <4>1. t \in Nat /\ t <= s /\ t # s /\ a \in SectorPages(t) /\ Erasable(i, W, t) /\ a < First(t + 1)
        <5>1. t <= s
          BY <3>1, <3>2, SectorMonotone
        <5>2. t \in Nat /\ a \in SectorPages(t) /\ a < First(t + 1)
          BY <3>2, SectorFacts
        <5> QED BY <1>3, <3>4, <5>1, <5>2 DEF Erased
      <4>2. First(t + 1) <= First(s) /\ First(t + 1) \in Nat
        BY <1>1, <4>1, FirstOrder, FirstFacts
      <4>3. Extent(W, a) = a
        BY <3>1, <3>2, HeaderFacts, ExtentIs
      <4>4. i[a].kind \notin {"file", "log", "data"}
        BY <4>1, <4>3, ErasableMeans
      <4>5. i[a].kind # "free"
        <5>1. i[a].kind = "free" => next_file(a, i[a]) = First(t + 1)
          BY <3>1, KindFacts
        <5> QED BY <3>1, <3>2, <4>2, <5>1
      <4>6. i[a].kind # "isolated"
        <5>1. i[a].kind = "isolated" => next_file(a, i[a]) = a + 1
          BY <3>1, KindFacts
        <5> QED BY <3>1, <3>2, <4>1, <4>2, <5>1
      <4> QED BY <3>1, <4>4, <4>5, <4>6, KindFacts DEF a
    <3> QED BY <3>3, <3>4
  <2>2. /\ \A x \in SectorPages(s) : j[Extent(V, x)].kind \notin {"file", "log", "data"}
        /\ \E x \in SectorPages(s) : j[Extent(V, x)].kind \in {"obsolete", "isolated"}
    BY ErasableMeans
  <2>3. Erasable(i, W, s)
    <3>1. \A x \in SectorPages(s) : i[Extent(W, x)].kind \notin {"file", "log", "data"}
      BY <2>1, <2>2
    <3>2. \E x \in SectorPages(s) : i[Extent(W, x)].kind \in {"obsolete", "isolated"}
      BY <2>1, <2>2
    <3> QED BY <3>1, <3>2, ErasableMeans
  <2> QED BY <1>3, <2>3
<1> QED BY <1>2, <1>3

\* next_free has come down to the lowest erased sector, or stayed where it was below.
LEMMA SweepUnhidden ==
    ASSUME NEW i \in Images, Laid(i), TailsGo(i, Walk(i)), NEW j, Sweep(i, j, COFFEE_SECTOR_COUNT),
           NEW old \in Nat, Unhidden(i, old), NEW next \in Nat, next <= old,
           \A s \in Sectors : Erasable(i, Walk(i), s) => next <= First(s),
           next = old \/ \E s \in Sectors : Erasable(i, Walk(i), s) /\ next = First(s)
    PROVE  Unhidden(j, next)
<1> DEFINE k == COFFEE_SECTOR_COUNT
<1>0. j \in Images /\ Covered(i) /\ k \in Nat
  BY Constants DEF Sweep, Laid
<1>1. ASSUME NEW p \in Walk(j), HDR_FREE(j[p]) PROVE next <= p
  <2>1. p \in Pages /\ p \in Nat
    BY <1>0, WalkIsWalk, Constants
  <2>2. p \in Walk(i) \/ Erased(i, k, p) \/ (TailPage(i, p) /\ SectorOf(p) <= k)
    BY <1>0, SweepWalk
  <2>3. CASE Erased(i, k, p)
    <3>1. SectorOf(p) \in Sectors /\ Erasable(i, Walk(i), SectorOf(p)) /\ First(SectorOf(p)) <= p
      BY <2>1, <2>3, SectorFacts DEF Erased
    <3>2. First(SectorOf(p)) \in Nat
      BY <3>1, SectorInside, FirstFacts
    <3> QED BY <2>1, <3>1, <3>2
  <2>4. CASE ~Erased(i, k, p) /\ TailPage(i, p) /\ SectorOf(p) <= k
    BY <1>0, <1>1, <2>1, <2>4, SweepKinds DEF HDR_FREE
  <2>5. CASE ~Erased(i, k, p) /\ p \in Walk(i)
    <3>1. j[p] = i[p]
      BY <1>0, <2>1, <2>5, SweepKinds
    <3> QED BY <1>1, <2>1, <2>5, <3>1 DEF Unhidden
  <2> QED BY <2>2, <2>3, <2>4, <2>5
<1>2. ASSUME next < COFFEE_PAGE_COUNT PROVE next \in Walk(j)
  <2>1. CASE \E s \in Sectors : Erasable(i, Walk(i), s) /\ next = First(s)
    BY <2>1, <1>0, SweepFirst
  <2>2. CASE next = old
    <3>1. next \in Walk(i) /\ next \in Pages
      BY <1>2, <2>2, WalkIsWalk DEF Unhidden
    <3>2. CASE ~Erased(i, k, next)
      BY <1>0, <3>1, <3>2, SweepStays
    <3>3. CASE Erased(i, k, next)
      <4>1. SectorOf(next) \in Sectors /\ Erasable(i, Walk(i), SectorOf(next)) /\ First(SectorOf(next)) <= next
        BY <3>1, <3>3, SectorFacts DEF Erased
      <4>2. First(SectorOf(next)) \in Nat
        BY <4>1, SectorInside, FirstFacts
      <4>3. next = First(SectorOf(next))
        BY <4>1, <4>2
      <4> QED BY <1>0, <4>1, <4>3, SweepFirst
    <3> QED BY <3>2, <3>3
  <2> QED BY <2>1, <2>2
<1> QED BY <1>1, <1>2 DEF Unhidden

-----------------------------------------------------------------------------
(* Headers that are rewritten *)

LEMMA SameWalk ==
    ASSUME NEW i \in Images, NEW j \in Images,
           \A p \in Pages : next_file(p, j[p]) = next_file(p, i[p])
    PROVE  Walk(j) = Walk(i)
<1>1. /\ 0 \in Walk(i) /\ Walk(i) \subseteq Pages /\ IsWalk(i, 0, Walk(i))
      /\ 0 \in Walk(j) /\ Walk(j) \subseteq Pages /\ IsWalk(j, 0, Walk(j))
  BY WalkIsWalk
<1>2. \A q \in Walk(j) : q \in Walk(i) /\ next_file(q, j[q]) < COFFEE_PAGE_COUNT
                             => next_file(q, j[q]) \in Walk(i)
  BY <1>1 DEF IsWalk
<1>3. \A q \in Walk(i) : q \in Walk(j) /\ next_file(q, i[q]) < COFFEE_PAGE_COUNT
                             => next_file(q, i[q]) \in Walk(j)
  BY <1>1 DEF IsWalk
<1>4. Walk(j) \subseteq Walk(i)
  BY <1>1, <1>2, WalkInside
<1>5. Walk(i) \subseteq Walk(j)
  BY <1>1, <1>3, WalkInside
<1> QED BY <1>4, <1>5

\* The header of an extent in use is rewritten, or becomes obsolete.
LEMMA Rewritten ==
    ASSUME NEW i \in Images, Sound(i), NEW p \in Pages, HDR_ACTIVE(i[p]),
           NEW h \in HeaderT, h.kind \in {"file", "log", "obsolete"}, h.max_pages = i[p].max_pages,
           NEW j, j = [i EXCEPT ![p] = h]
    PROVE  /\ j \in Images /\ Walk(j) = Walk(i)
           /\ Laid(i) => Laid(j)
           /\ HeadersOnly(i) => HeadersOnly(j)
           /\ \A next : Unhidden(i, next) => Unhidden(j, next)
           /\ h.kind # "obsolete" /\ Swept(i) => Swept(j)
<1>0. j \in Images /\ j[p] = h /\ \A x \in Pages \ {p} : j[x] = i[x]
  BY DEF Images
<1>1. i[p].kind \in {"file", "log"}
  BY DEF HDR_ACTIVE
<1>2. Walk(j) = Walk(i)
  <2>1. next_file(p, j[p]) = next_file(p, i[p])
    BY <1>0, <1>1 DEF next_file, HDR_FREE, HDR_ISOLATED
  <2> QED BY <1>0, <2>1, SameWalk
<1>3. Walk(i) \subseteq Pages
  BY WalkIsWalk
<1>4. \A x \in Pages : HDR_FREE(j[x]) <=> HDR_FREE(i[x])
  BY <1>0, <1>1 DEF HDR_FREE
<1>5. ASSUME Laid(i) PROVE Laid(j)
  <2>1. AllFound(j)
    BY <1>0, <1>2, <1>5 DEF AllFound, Laid
  <2>2. FreeTail(j)
    BY <1>2, <1>3, <1>4, <1>5 DEF FreeTail, Laid
  <2>3. Covered(j)
    <3> SUFFICES ASSUME NEW e \in Walk(i), NEW s \in Sectors, j[e].kind = "obsolete",
                        e < First(s), First(s + 1) <= e + j[e].max_pages
                 PROVE  j[First(s)].kind = "data"
      BY <1>2 DEF Covered
    <3>1. j[e].max_pages = i[e].max_pages /\ e \in Pages
      BY <1>0, <1>3
    <3>2. First(s) \in Pages /\ First(s) \in Nat /\ First(s) < First(s + 1) /\ First(s + 1) \in Nat
          /\ e \in Nat /\ i[e].max_pages \in Nat
      BY <3>1, SectorInside, FirstFacts, HeaderFacts
    <3>3. i[First(s)].kind = "data"
      <4>1. CASE e = p
        <5>1. First(s) < p + i[p].max_pages
          BY <3>1, <3>2, <4>1
        <5> QED BY <3>2, <4>1, <5>1 DEF Sound
      <4>2. CASE e # p
        BY <1>0, <1>5, <3>1, <4>2 DEF Laid, Covered
      <4> QED BY <4>1, <4>2
    <3> QED BY <1>0, <1>1, <3>2, <3>3
  <2> QED BY <2>1, <2>2, <2>3 DEF Laid
<1>6. HeadersOnly(i) => HeadersOnly(j)
  BY <1>0, <1>2, <1>3 DEF HeadersOnly
<1>7. \A next : Unhidden(i, next) => Unhidden(j, next)
  BY <1>2, <1>3, <1>4 DEF Unhidden
<1>8. ASSUME h.kind # "obsolete", Swept(i) PROVE Swept(j)
  <2> SUFFICES ASSUME NEW s \in Sectors, Erasable(j, Walk(i), s)
               PROVE  \A x \in SectorPages(s) : HDR_FREE(j[x])
    BY <1>2 DEF Swept
  <2>1. \A x \in SectorPages(s) : x \in Pages /\ Extent(Walk(i), x) \in Pages
    BY SectorInside, ExtentEnd
  <2>2. \A x \in SectorPages(s) : j[Extent(Walk(i), x)] = i[Extent(Walk(i), x)]
    BY <1>0, <1>8, <2>1, ErasableMeans
  <2>3. Erasable(i, Walk(i), s)
    BY <2>2, ErasableMeans
  <2> QED BY <1>4, <1>8, <2>1, <2>3 DEF Swept
<1> QED BY <1>0, <1>2, <1>5, <1>6, <1>7, <1>8

\* A search from the start of the flash misses nothing.
LEMMA UnhiddenAll == ASSUME NEW i \in Images PROVE Unhidden(i, 0)
BY WalkIsWalk, Constants DEF Unhidden

\* An empty flash.
LEMMA EmptyLaid ==
    ASSUME NEW i, i = [p \in Pages |-> Page("free")]
    PROVE  i \in Images /\ Laid(i) /\ HeadersOnly(i) /\ Sound(i)
<1>1. i \in Images /\ \A p \in Pages : i[p].kind = "free"
  BY PageType DEF Images
<1>2. Walk(i) \subseteq Pages
  BY <1>1, WalkIsWalk
<1> QED BY <1>1, <1>2 DEF Laid, AllFound, FreeTail, Covered, HeadersOnly, Sound, HDR_ACTIVE, HDR_FREE

-----------------------------------------------------------------------------
(* New extents *)

\* The flash with a new extent.
Placed(i, h, page) ==
    [p \in Pages |-> CASE p = page -> h
                       [] page < p /\ p < page + h.max_pages -> Page("data")
                       [] OTHER -> i[p]]

\* The walk reads free headers only from page on, for so many pages.
Vacant(i, page, amount) ==
    /\ page \in Walk(i) /\ HDR_FREE(i[page]) /\ page + amount < COFFEE_PAGE_COUNT
    /\ \A x \in Walk(i) : page <= x /\ x < page + amount => HDR_FREE(i[x])

\* Then these pages are free, and what follows in their last sector.
LEMMA VacantFree ==
    ASSUME NEW i \in Images, FreeTail(i), NEW page, NEW amount \in Nat, amount >= 1,
           Vacant(i, page, amount)
    PROVE  LET b == SectorBehind(page + amount - 1)
           IN  /\ page \in Pages /\ page \in Nat
               /\ b \in Nat /\ b >= page + amount
               /\ b < COFFEE_PAGE_COUNT => b \in Walk(i)
               /\ \A x \in Pages : page <= x /\ x < b => HDR_FREE(i[x])
               /\ \A x \in Nat : page + amount <= x /\ x < b => SectorBehind(x) = b
               /\ \A s \in Nat : page + amount <= First(s) => b <= First(s)
<1> DEFINE W == Walk(i)
           l == page + amount - 1
           b == SectorBehind(l)
           f == Extent(W, l)
<1>1. page \in Pages /\ page \in Nat /\ page \in W
  BY WalkIsWalk, Constants DEF Vacant
<1>2. l \in Nat /\ l \in Pages /\ page <= l /\ page + amount = l + 1
  BY <1>1, Constants DEF Vacant
<1> HIDE DEF l
<1>3. b \in Nat /\ b > l /\ SectorOf(l) \in Nat /\ b = First(SectorOf(l) + 1) /\ First(SectorOf(l)) <= l
      /\ First(SectorOf(l)) \in Nat
  BY <1>2, BehindLater, SectorFacts, FirstFacts
<1> HIDE DEF b
<1>4. f \in W /\ f \in Pages /\ f \in Nat /\ f <= l /\ l < next_file(f, i[f]) /\ page <= f
  BY <1>1, <1>2, ExtentEnd, ExtentFacts, Constants
<1> HIDE DEF f
<1>5. HDR_FREE(i[f])
  BY <1>1, <1>2, <1>4 DEF Vacant
<1>6. next_file(f, i[f]) = b /\ SectorBehind(f) = b
  <2>1. next_file(f, i[f]) = First(SectorOf(f) + 1) /\ SectorBehind(f) = First(SectorOf(f) + 1)
        /\ SectorOf(f) \in Nat /\ First(SectorOf(f)) <= f
    BY <1>4, <1>5, KindFacts, SectorFacts
  <2>2. First(SectorOf(f)) \in Nat
    BY <2>1, FirstFacts
  <2>3. First(SectorOf(f)) <= l
    BY <1>2, <1>4, <2>1, <2>2
  <2>4. SectorOf(l) = SectorOf(f)
    BY <1>2, <1>4, <2>1, <2>3, SectorIs
  <2> QED BY <1>3, <2>1, <2>4
<1>7. b < COFFEE_PAGE_COUNT => b \in W
  BY <1>4, <1>6, WalkIsWalk DEF IsWalk
<1>8. ASSUME NEW x \in Pages, page <= x, x < b PROVE HDR_FREE(i[x])
  <2>1. CASE x <= l
    <3> DEFINE g == Extent(W, x)
    <3>1. g \in W /\ g \in Pages /\ g <= x /\ x < next_file(g, i[g]) /\ page <= g /\ g \in Nat /\ x \in Nat
      BY <1>1, <1>8, ExtentEnd, ExtentFacts, Constants
    <3> HIDE DEF g
    <3>2. HDR_FREE(i[g])
      BY <1>1, <1>2, <2>1, <3>1 DEF Vacant
    <3>3. next_file(g, i[g]) = SectorBehind(g)
      BY <3>1, <3>2, KindFacts, SectorFacts
    <3> QED BY <3>1, <3>2, <3>3 DEF FreeTail
  <2>2. CASE l < x
    <3>1. f <= x /\ x < SectorBehind(f)
      BY <1>2, <1>4, <1>6, <1>8, <2>2, Constants
    <3> QED BY <1>4, <1>5, <3>1 DEF FreeTail
  <2> QED BY <1>2, <2>1, <2>2, Constants
<1>9. ASSUME NEW x \in Nat, l + 1 <= x, x < b PROVE SectorBehind(x) = b
  <2>1. First(SectorOf(l)) <= x
    BY <1>2, <1>3, <1>9
  <2>2. SectorOf(x) = SectorOf(l)
    BY <1>3, <1>9, <2>1, SectorIs
  <2> QED BY <1>3, <2>2, SectorFacts
<1>10. ASSUME NEW s \in Nat, l + 1 <= First(s) PROVE b <= First(s)
  <2>1. SectorOf(l) < s
    <3>1. First(s) \in Nat
      BY FirstFacts
    <3>2. l <= First(s)
      BY <1>2, <1>10, <3>1
    <3>3. SectorOf(l) <= SectorOf(First(s)) /\ SectorOf(First(s)) = s
      BY <1>2, <3>1, <3>2, SectorMonotone, SectorOfFirst
    <3>4. SectorOf(l) # s
      BY <1>2, <1>3, <1>10, <3>1
    <3> QED BY <1>3, <3>3, <3>4
  <2> QED BY <1>3, <2>1, FirstOrder
<1>11. b >= page + amount
  BY <1>2, <1>3
<1> QED BY <1>1, <1>2, <1>3, <1>7, <1>8, <1>9, <1>10, <1>11 DEF b, l

\* What is on the walk once an extent has been placed: its header, the page behind it,
\* and what is not in its place or in what is left of the last sector.
LEMMA PlacedWalk ==
    ASSUME NEW i \in Images, FreeTail(i), NEW h \in HeaderT, HDR_ACTIVE(h), NEW page,
           Vacant(i, page, h.max_pages), NEW j, j = Placed(i, h, page)
    PROVE  LET z == page + h.max_pages
               b == SectorBehind(z - 1)
           IN  /\ j \in Images /\ page \in Pages /\ z \in Pages /\ page < z /\ z <= b /\ b \in Nat
               /\ j[page] = h
               /\ \A x \in Pages : page < x /\ x < z => j[x] = Page("data")
               /\ \A x \in Pages : x < page \/ z <= x => j[x] = i[x]
               /\ \A x \in Pages : page <= x /\ x < b => HDR_FREE(i[x])
               /\ b < COFFEE_PAGE_COUNT => b \in Walk(i)
               /\ z < b => SectorBehind(z) = b
               /\ \A x \in Walk(j) : (x \in Walk(i) /\ (x <= page \/ b <= x)) \/ x = z
               /\ \A x \in Walk(i) : x <= page \/ b <= x => x \in Walk(j)
               /\ z \in Walk(j)
<1> DEFINE W == Walk(i)
           V == Walk(j)
           a == h.max_pages
           z == page + a
           b == SectorBehind(z - 1)
           S == {x \in Pages : (x \in W /\ (x <= page \/ b <= x)) \/ x = z}
<1>0. a \in Nat /\ a >= 1
  BY Constants DEF HeaderT
<1>1. /\ page \in Pages /\ page \in Nat /\ b \in Nat /\ b >= z
      /\ b < COFFEE_PAGE_COUNT => b \in W
      /\ \A x \in Pages : page <= x /\ x < b => HDR_FREE(i[x])
      /\ \A x \in Nat : z <= x /\ x < b => SectorBehind(x) = b
  BY <1>0, VacantFree
<1>2. z \in Nat /\ z \in Pages /\ z < COFFEE_PAGE_COUNT /\ page < z /\ page \in W
  BY <1>0, <1>1, Constants DEF Vacant
<1> HIDE DEF z, b, a
<1>3. j[page] = h
  BY <1>1 DEF Placed
<1>4. \A x \in Pages : page < x /\ x < z => j[x] = Page("data")
  BY <1>1, Constants DEF Placed, z, a
<1>5. \A x \in Pages : x < page \/ z <= x => j[x] = i[x]
  BY <1>1, <1>2, Constants DEF Placed, z, a
<1>6. j \in Images
  <2>1. \A x \in Pages : j[x] \in HeaderT
    BY <1>1, <1>2, <1>3, <1>4, <1>5, PageType, Constants DEF Images
  <2> QED BY <2>1 DEF Placed, Images
<1>7. \A x \in W : x \in Pages /\ x \in Nat
  BY WalkIsWalk, Constants
<1>8. next_file(page, j[page]) = z
  BY <1>3 DEF next_file, HDR_ACTIVE, HDR_FREE, HDR_ISOLATED, z, a
<1>9. z < b => next_file(z, j[z]) = b
  <2>1. z < b => HDR_FREE(j[z]) /\ SectorBehind(z) = b
    <3>1. z <= z /\ page <= z
      BY <1>1, <1>2
    <3>2. j[z] = i[z]
      BY <1>2, <1>5, <3>1
    <3>3. z < b => HDR_FREE(i[z])
      BY <1>1, <1>2, <3>1
    <3>4. z < b => SectorBehind(z) = b
      BY <1>1, <1>2, <3>1
    <3> QED BY <3>2, <3>3, <3>4 DEF HDR_FREE
  <2> QED BY <2>1 DEF next_file, HDR_FREE, HDR_ISOLATED
<1>10. \A x, y \in W : x < y => next_file(x, i[x]) <= y
  BY WalkIsWalk, NothingBetween, 0 \in Nat
<1>11. z = b => z \in W
  BY <1>1, <1>2
<1>12. V \subseteq S
  <2>1. 0 \in S
    BY <1>1, WalkIsWalk, Constants
  <2>2. ASSUME NEW q \in V, q \in S, next_file(q, j[q]) < COFFEE_PAGE_COUNT
        PROVE  next_file(q, j[q]) \in S
    <3>1. CASE q = page
      BY <1>2, <1>8, <3>1
    <3>2. CASE q = z /\ z < b
      BY <1>1, <1>9, <2>2, <3>2, <1>7
    <3>3. CASE q \in W /\ q < page
      <4>1. j[q] = i[q] /\ next_file(q, i[q]) \in W
        BY <1>5, <1>7, <2>2, <3>3, WalkIsWalk DEF IsWalk
      <4>2. next_file(q, i[q]) <= page
        BY <1>2, <1>10, <3>3
      <4> QED BY <1>7, <4>1, <4>2
    <3>4. CASE q \in W /\ b <= q
      <4>1. j[q] = i[q] /\ next_file(q, i[q]) \in W
        BY <1>1, <1>2, <1>5, <1>7, <2>2, <3>4, WalkIsWalk DEF IsWalk
      <4>2. next_file(q, i[q]) > q /\ next_file(q, i[q]) \in Nat
        BY <1>7, <3>4, HeaderFacts
      <4>3. b <= next_file(q, i[q])
        BY <1>1, <1>7, <3>4, <4>2
      <4> QED BY <1>7, <4>1, <4>3
    <3>5. q \in Nat
      BY <2>2, Constants
    <3> QED BY <1>1, <1>2, <1>11, <2>2, <3>1, <3>2, <3>3, <3>4, <3>5
  <2> HIDE DEF S, V
  <2> QED BY <1>6, <2>1, <2>2, WalkInside DEF V
<1>13. ASSUME NEW x \in S PROVE x \in V
  <2>1. ASSUME NEW q \in V, q < x PROVE next_file(q, j[q]) <= x
    <3>0. q \in S /\ q \in Nat /\ x \in Nat
      BY <1>12, Constants
    <3>1. CASE q = page
      BY <1>1, <1>2, <1>8, <2>1, <3>0, <3>1
    <3>2. CASE q = z /\ z < b
      BY <1>1, <1>2, <1>9, <2>1, <3>0, <3>2
    <3>3. CASE q \in W /\ q < page
      <4>1. j[q] = i[q] /\ next_file(q, i[q]) \in Nat
        BY <1>5, <1>7, <3>3, HeaderFacts
      <4>2. next_file(q, i[q]) <= page
        BY <1>2, <1>10, <3>3
      <4>3. x \in W => next_file(q, i[q]) <= x
        BY <1>10, <2>1, <3>3
      <4> QED BY <1>1, <1>2, <4>1, <4>2, <4>3
    <3>4. CASE q \in W /\ b <= q
      <4>1. j[q] = i[q] /\ z <= q
        BY <1>1, <1>2, <1>5, <1>7, <3>4
      <4>2. x \in W
        BY <1>1, <1>2, <2>1, <3>0, <4>1
      <4> QED BY <1>10, <2>1, <3>4, <4>1, <4>2
    <3> QED BY <1>1, <1>2, <1>11, <3>0, <3>1, <3>2, <3>3, <3>4
  <2> QED BY <1>6, <2>1, WalkReaches
<1> HIDE DEF V
<1>14. \A x \in V : (x \in W /\ (x <= page \/ b <= x)) \/ x = z
  BY <1>12
<1>15. /\ \A x \in W : x <= page \/ b <= x => x \in V
       /\ z \in V
  BY <1>2, <1>7, <1>13
<1>16. z < b => SectorBehind(z) = b
  BY <1>1, <1>2
<1> QED BY <1>1, <1>2, <1>3, <1>4, <1>5, <1>6, <1>14, <1>15, <1>16 DEF V, z, b, a

LEMMA PlacedLaid ==
    ASSUME NEW i \in Images, Laid(i), NEW h \in HeaderT, HDR_ACTIVE(h), NEW page,
           Vacant(i, page, h.max_pages), NEW j, j = Placed(i, h, page)
    PROVE  /\ j \in Images /\ Laid(j)
           /\ HeadersOnly(i) => HeadersOnly(j)
<1> DEFINE W == Walk(i)
           V == Walk(j)
           z == page + h.max_pages
           b == SectorBehind(z - 1)
<1>0. AllFound(i) /\ FreeTail(i) /\ Covered(i)
  BY DEF Laid
<1>1. /\ j \in Images /\ page \in Pages /\ z \in Pages /\ page < z /\ z <= b /\ b \in Nat
      /\ j[page] = h
      /\ \A x \in Pages : page < x /\ x < z => j[x] = Page("data")
      /\ \A x \in Pages : x < page \/ z <= x => j[x] = i[x]
      /\ \A x \in Pages : page <= x /\ x < b => HDR_FREE(i[x])
      /\ b < COFFEE_PAGE_COUNT => b \in W
      /\ z < b => SectorBehind(z) = b
      /\ \A x \in V : (x \in W /\ (x <= page \/ b <= x)) \/ x = z
      /\ \A x \in W : x <= page \/ b <= x => x \in V
      /\ z \in V
  BY <1>0, PlacedWalk
<1> HIDE DEF z, b
<1>2. \A x \in W : x \in Pages /\ x \in Nat
  BY WalkIsWalk, Constants
<1>3. page \in W /\ page \in Nat /\ z \in Nat /\ z < COFFEE_PAGE_COUNT
  BY <1>1, Constants DEF Vacant
<1>4. \A x, y \in W : x < y => next_file(x, i[x]) <= y
  BY WalkIsWalk, NothingBetween, 0 \in Nat
<1>5. Page("data").kind = "data" /\ ~HDR_ACTIVE(Page("data"))
  BY PageType
<1>6. \A x \in Pages : HDR_FREE(i[x]) => i[x].kind = "free" /\ ~HDR_ACTIVE(i[x])
  BY DEF HDR_FREE, HDR_ACTIVE
<1>7. \A x \in V : \/ x = page /\ HDR_ACTIVE(j[x])
                   \/ x = z /\ HDR_FREE(j[x]) /\ SectorBehind(x) = b
                   \/ x \in W /\ x < page /\ j[x] = i[x] /\ next_file(x, i[x]) <= page
                   \/ x \in W /\ b <= x /\ z <= x /\ j[x] = i[x]
  <2> SUFFICES ASSUME NEW x \in V, x # page
               PROVE  \/ x = z /\ HDR_FREE(j[x]) /\ SectorBehind(x) = b
                      \/ x \in W /\ x < page /\ j[x] = i[x] /\ next_file(x, i[x]) <= page
                      \/ x \in W /\ b <= x /\ z <= x /\ j[x] = i[x]
    BY <1>1
  <2>1. CASE x \in W /\ x <= page
    <3>1. x < page
      BY <1>2, <1>3, <2>1
    <3> QED BY <1>1, <1>2, <1>3, <1>4, <2>1, <3>1
  <2>2. CASE x \in W /\ b <= x
    BY <1>1, <1>2, <1>3, <2>2
  <2>3. CASE x = z /\ z < b
    <3>1. page <= z /\ z <= z
      BY <1>1, <1>3
    <3> QED BY <1>1, <2>3, <3>1
  <2>4. x = z => z < b \/ (x \in W /\ b <= x)
    <3>1. z < b \/ (z = b /\ b <= z)
      BY <1>1, <1>3
    <3> QED BY <1>1, <1>3, <3>1
  <2> QED BY <1>1, <2>1, <2>2, <2>3, <2>4
<1>8. AllFound(j)
  <2> SUFFICES ASSUME NEW p \in Pages, HDR_ACTIVE(j[p]) PROVE p \in V
    BY DEF AllFound
  <2>0. p \in Nat
    BY Constants
  <2>1. p = page \/ p < page \/ z <= p
    BY <1>1, <1>3, <1>5, <2>0
  <2>2. CASE p = page
    BY <1>1, <1>3, <2>2
  <2>3. CASE p < page
    <3>1. p \in W
      BY <1>0, <1>1, <2>3 DEF AllFound
    <3> QED BY <1>1, <1>3, <2>0, <2>3, <3>1
  <2>4. CASE z <= p
    <3>1. HDR_ACTIVE(i[p]) /\ p \in W
      BY <1>0, <1>1, <2>4 DEF AllFound
    <3>2. ~(p < b)
      BY <1>1, <1>3, <1>6, <2>0, <2>4, <3>1
    <3> QED BY <1>1, <2>0, <3>1, <3>2
  <2> QED BY <2>1, <2>2, <2>3, <2>4
<1>9. FreeTail(j)
  <2> SUFFICES ASSUME NEW p \in V, HDR_FREE(j[p]), NEW x \in Pages, p <= x, x < SectorBehind(p)
               PROVE  HDR_FREE(j[x])
    BY DEF FreeTail
  <2>0. x \in Nat
    BY Constants
  <2>1. p # page
    BY <1>7, <1>1 DEF HDR_FREE, HDR_ACTIVE
  <2>2. CASE p = z /\ SectorBehind(p) = b
    <3>1. page <= x
      BY <1>1, <1>3, <2>0, <2>2
    <3> QED BY <1>1, <2>2, <3>1
  <2>3. CASE p \in W /\ p < page /\ j[p] = i[p] /\ next_file(p, i[p]) <= page
    <3>1. next_file(p, i[p]) = SectorBehind(p) /\ SectorBehind(p) \in Nat
      BY <1>2, <2>3, KindFacts, SectorFacts, BehindLater
    <3>2. x < page
      BY <1>3, <2>0, <2>3, <3>1
    <3> QED BY <1>0, <1>1, <2>3, <3>2 DEF FreeTail
  <2>4. CASE p \in W /\ z <= p /\ j[p] = i[p]
    <3>1. z <= x
      BY <1>2, <1>3, <2>0, <2>4
    <3> QED BY <1>0, <1>1, <2>4, <3>1 DEF FreeTail
  <2> QED BY <1>7, <2>1, <2>2, <2>3, <2>4
<1>10. Covered(j)
  <2> SUFFICES ASSUME NEW e \in V, NEW s \in Sectors, j[e].kind = "obsolete",
                      e < First(s), First(s + 1) <= e + j[e].max_pages
               PROVE  j[First(s)].kind = "data"
    BY DEF Covered
  <2>0. First(s) \in Pages /\ First(s) \in Nat /\ First(s) < First(s + 1) /\ First(s + 1) \in Nat
    BY SectorInside, FirstFacts
  <2>1. CASE e \in W /\ e < page /\ j[e] = i[e] /\ next_file(e, i[e]) <= page
    <3>1. i[First(s)].kind = "data"
      BY <1>0, <2>1 DEF Covered
    <3>2. next_file(e, i[e]) = e + i[e].max_pages /\ e + i[e].max_pages \in Nat
      BY <1>2, <2>1, KindFacts, HeaderFacts
    <3>3. First(s) < page
      BY <1>3, <2>0, <2>1, <3>2
    <3> QED BY <1>1, <2>0, <3>1, <3>3
  <2>2. CASE e \in W /\ z <= e /\ j[e] = i[e]
    <3>1. i[First(s)].kind = "data"
      BY <1>0, <2>2 DEF Covered
    <3>2. z <= First(s)
      <4>1. e \in Nat /\ z <= e /\ e < First(s)
        BY <1>2, <2>2
      <4> QED BY <1>3, <2>0, <4>1
    <3> QED BY <1>1, <2>0, <3>1, <3>2
  <2> QED BY <1>7, <2>1, <2>2 DEF HDR_FREE, HDR_ACTIVE
<1>11. HeadersOnly(i) => HeadersOnly(j)
  BY <1>7 DEF HeadersOnly, HDR_ACTIVE, HDR_FREE
<1> QED BY <1>1, <1>8, <1>9, <1>10, <1>11 DEF Laid

\* The sectors that lie before a new extent or behind it are as they were.
LEMMA PlacedSwept ==
    ASSUME NEW i \in Images, Laid(i), NEW h \in HeaderT, HDR_ACTIVE(h), NEW page,
           Vacant(i, page, h.max_pages), NEW j, j = Placed(i, h, page), Swept(i)
    PROVE  Swept(j)
<1> DEFINE W == Walk(i)
           V == Walk(j)
           z == page + h.max_pages
           b == SectorBehind(z - 1)
<1>0. AllFound(i) /\ FreeTail(i) /\ Covered(i)
  BY DEF Laid
<1>1. /\ j \in Images /\ page \in Pages /\ z \in Pages /\ page < z /\ z <= b /\ b \in Nat
      /\ j[page] = h
      /\ \A x \in Pages : page < x /\ x < z => j[x] = Page("data")
      /\ \A x \in Pages : x < page \/ z <= x => j[x] = i[x]
      /\ \A x \in Pages : page <= x /\ x < b => HDR_FREE(i[x])
      /\ b < COFFEE_PAGE_COUNT => b \in W
      /\ z < b => SectorBehind(z) = b
      /\ \A x \in V : (x \in W /\ (x <= page \/ b <= x)) \/ x = z
      /\ \A x \in W : x <= page \/ b <= x => x \in V
      /\ z \in V
  BY <1>0, PlacedWalk
<1>2. next_file(page, j[page]) = z
  BY <1>1 DEF next_file, HDR_ACTIVE, HDR_FREE, HDR_ISOLATED
<1> HIDE DEF z, b
<1>3. page \in W /\ page \in Nat /\ z \in Nat /\ z < COFFEE_PAGE_COUNT /\ page \in V
  BY <1>1, Constants DEF Vacant
<1> SUFFICES ASSUME NEW s \in Sectors, Erasable(j, V, s)
             PROVE  \A x \in SectorPages(s) : HDR_FREE(j[x])
  BY DEF Swept
<1>4. \A x \in SectorPages(s) : x \in Pages /\ x \in Nat
  BY SectorInside, Constants
<1>5. ASSUME NEW x \in SectorPages(s)
      PROVE  /\ x < page \/ z <= x
             /\ i[Extent(W, x)].kind = j[Extent(V, x)].kind
  <2> DEFINE a == Extent(W, x)
  <2>0. x \in Pages /\ x \in Nat
    BY <1>4
  <2>1. /\ a \in W /\ a \in Pages /\ a <= x /\ x < next_file(a, i[a]) /\ next_file(a, i[a]) \in Nat
        /\ a \in Nat /\ \A y \in W : y <= x => y <= a
    BY <2>0, ExtentEnd, ExtentFacts, Constants
  <2> HIDE DEF a
  <2>2. ~(page <= x /\ x < z)
    <3> SUFFICES ASSUME page <= x, x < z PROVE FALSE
      OBVIOUS
    <3>1. Extent(V, x) = page
      BY <1>1, <1>2, <1>3, <2>0, ExtentIs
    <3> QED BY <1>1, <3>1, ErasableMeans DEF HDR_ACTIVE
  <2>3. x < page \/ z <= x
    BY <1>3, <2>0, <2>2
  <2>4. CASE a < page \/ b <= a
    <3>1. a \in V /\ j[a] = i[a]
      BY <1>1, <1>3, <2>1, <2>4
    <3>2. Extent(V, x) = a
      BY <1>1, <2>0, <2>1, <3>1, ExtentIs
    <3> QED BY <2>3, <3>1, <3>2 DEF a
  <2>5. CASE page <= a /\ a < b
    <3>1. z <= x
      BY <1>3, <2>0, <2>1, <2>3, <2>5
    <3>2. x < b
      <4>1. b < COFFEE_PAGE_COUNT => ~(b <= x)
        BY <1>1, <2>1, <2>5
      <4>2. x < COFFEE_PAGE_COUNT /\ COFFEE_PAGE_COUNT \in Nat
        BY <2>0, Constants
      <4> QED BY <1>1, <2>0, <4>1, <4>2
    <3>3. HDR_FREE(i[a]) /\ z <= z /\ page <= z /\ z < b
      <4>1. z < b /\ z <= z /\ page <= z
        BY <1>1, <1>3, <2>0, <3>1, <3>2
      <4> QED BY <1>1, <2>1, <2>5, <4>1
    <3>4. j[z] = i[z] /\ HDR_FREE(i[z])
      BY <1>1, <3>3
    <3>5. next_file(z, j[z]) = b
      <4>1. SectorBehind(z) = b
        BY <1>1, <3>3
      <4> QED BY <3>4, <4>1 DEF next_file, HDR_FREE, HDR_ISOLATED
    <3>6. Extent(V, x) = z
      BY <1>1, <2>0, <3>1, <3>2, <3>5, ExtentIs
    <3> QED BY <2>3, <3>3, <3>4, <3>6 DEF a, HDR_FREE
  <2> QED BY <1>1, <1>3, <2>1, <2>4, <2>5
<1>6. Erasable(i, W, s)
  BY <1>5, ErasableMeans
<1> QED BY <1>1, <1>4, <1>5, <1>6 DEF Swept

\* Neither does next_free hide anything when it has moved behind the extent, if it was
\* at its first page.
LEMMA PlacedUnhidden ==
    ASSUME NEW i \in Images, FreeTail(i), NEW h \in HeaderT, HDR_ACTIVE(h), NEW page,
           Vacant(i, page, h.max_pages), NEW j, j = Placed(i, h, page),
           NEW old \in Nat, Unhidden(i, old), old <= page,
           NEW next, next = IF page = old THEN page + h.max_pages ELSE old
    PROVE  Unhidden(j, next)
<1> DEFINE W == Walk(i)
           V == Walk(j)
           z == page + h.max_pages
           b == SectorBehind(z - 1)
<1>1. /\ j \in Images /\ page \in Pages /\ z \in Pages /\ page < z /\ z <= b /\ b \in Nat
      /\ j[page] = h
      /\ \A x \in Pages : x < page \/ z <= x => j[x] = i[x]
      /\ \A x \in V : (x \in W /\ (x <= page \/ b <= x)) \/ x = z
      /\ \A x \in W : x <= page \/ b <= x => x \in V
      /\ z \in V
  BY PlacedWalk
<1>2. next = IF page = old THEN z ELSE old
  OBVIOUS
<1> HIDE DEF z, b
<1>3. page \in Nat /\ z \in Nat /\ \A x \in V : x \in Pages /\ x \in Nat
  BY <1>1, WalkIsWalk, Constants
<1>4. ASSUME NEW p \in V, HDR_FREE(j[p]) PROVE next <= p
  <2>0. p # page /\ p \in Nat
    BY <1>1, <1>3, <1>4 DEF HDR_FREE, HDR_ACTIVE
  <2>4. (p \in W /\ (p <= page \/ b <= p)) \/ p = z
    BY <1>1
  <2>5. page < z /\ z <= b /\ b \in Nat /\ page \in Nat /\ z \in Nat
    BY <1>1, <1>3
  <2>1. CASE p \in W /\ p < page
    <3>1. old <= p
      BY <1>1, <1>3, <1>4, <2>1 DEF Unhidden
    <3> QED BY <1>2, <1>3, <2>1, <3>1
  <2>2. CASE z <= p
    BY <1>2, <2>0, <2>2, <2>5
  <2>3. (p \in W /\ p < page) \/ z <= p
    BY <2>0, <2>4, <2>5
  <2> QED BY <2>1, <2>2, <2>3
<1>5. ASSUME next < COFFEE_PAGE_COUNT PROVE next \in V
  BY <1>1, <1>2, <1>5 DEF Unhidden
<1> QED BY <1>4, <1>5 DEF Unhidden

\* The pages of a new extent were not in use.
LEMMA VacantUnused ==
    ASSUME NEW i \in Images, FreeTail(i), Sound(i), NEW page, NEW amount \in Nat, amount >= 1,
           Vacant(i, page, amount)
    PROVE  \A x \in Pages : page <= x /\ x < page + amount => ~InUse(i, x)
<1> SUFFICES ASSUME NEW x \in Pages, page <= x, x < page + amount, InUse(i, x) PROVE FALSE
  OBVIOUS
<1>1. PICK p \in Pages : HDR_ACTIVE(i[p]) /\ p <= x /\ x < p + i[p].max_pages
  BY DEF InUse
<1>2. HDR_FREE(i[x])
  <2> DEFINE b == SectorBehind(page + amount - 1)
  <2>1. page \in Nat /\ b \in Nat /\ b >= page + amount /\ x \in Nat
        /\ \A y \in Pages : page <= y /\ y < b => HDR_FREE(i[y])
    BY VacantFree, Constants
  <2> HIDE DEF b
  <2>2. x < b
    BY <2>1
  <2> QED BY <2>1, <2>2
<1>3. p = x \/ p < x
  BY <1>1, Constants
<1>4. i[x].kind = "data" \/ HDR_ACTIVE(i[x])
  BY <1>1, <1>3 DEF Sound
<1> QED BY <1>2, <1>4 DEF HDR_FREE, HDR_ACTIVE

-----------------------------------------------------------------------------
(* The steps of garbage collection *)

LEMMA CountFacts ==
    ASSUME NEW i \in Images, NEW s \in Sectors
    PROVE  /\ IsolationCount(i, Walk(i), s) \in Nat
           /\ IsolationCount(i, Walk(i), s) < COFFEE_PAGES_PER_SECTOR
<1> DEFINE end == First(s + 1)
           e   == Extent(Walk(i), end - 1)
           skip == e + i[e].max_pages - end
           P == COFFEE_PAGES_PER_SECTOR
<1>1. IsolationCount(i, Walk(i), s) =
          IF i[e].kind = "obsolete" /\ 0 < skip /\ skip < P THEN skip ELSE 0
  BY DEF IsolationCount, First
<1>2. s \in Nat /\ First(s) \in Nat /\ end \in Nat /\ end = First(s) + P /\ P \in Nat /\ P >= 1
  BY SectorInside, FirstFacts, Constants
<1> HIDE DEF end, P
<1>3. end - 1 \in Nat
  BY <1>2
<1>4. e \in Walk(i) /\ e \in Pages
  BY <1>3, ExtentFacts, WalkIsWalk
<1> HIDE DEF e
<1>5. e \in Nat /\ i[e].max_pages \in Nat
  BY <1>4, HeaderFacts
<1>6. skip \in Int
  BY <1>2, <1>5
<1> HIDE DEF skip
<1> QED BY <1>1, <1>2, <1>6 DEF P

\* Which pages the step that deals with sector s concerns.
LEMMA StepFacts ==
    ASSUME NEW i \in Images, NEW s \in Sectors, NEW x \in Pages
    PROVE  /\ s \in Nat /\ SectorOf(x) \in Nat
           /\ x \in SectorPages(s) <=> SectorOf(x) = s
           /\ Erased(i, s + 1, x) <=> (Erased(i, s, x) \/ (SectorOf(x) = s /\ Erasable(i, Walk(i), s)))
           /\ TailPage(i, x) /\ SectorOf(x) = s + 1 =>
                 /\ Erasable(i, Walk(i), s)
                 /\ First(s + 1) <= x /\ x < First(s + 1) + IsolationCount(i, Walk(i), s)
<1>1. s \in Nat /\ SectorOf(x) \in Nat
  BY SectorInside, SectorFacts, Constants
<1>2. x \in SectorPages(s) <=> SectorOf(x) = s
  BY SectorInside
<1>3. Erased(i, s + 1, x) <=> (Erased(i, s, x) \/ (SectorOf(x) = s /\ Erasable(i, Walk(i), s)))
  <2>1. SectorOf(x) < s + 1 <=> (SectorOf(x) < s \/ SectorOf(x) = s)
    BY <1>1
  <2> QED BY <2>1 DEF Erased
<1>4. ASSUME TailPage(i, x), SectorOf(x) = s + 1
      PROVE  /\ Erasable(i, Walk(i), s)
             /\ First(s + 1) <= x /\ x < First(s + 1) + IsolationCount(i, Walk(i), s)
  <2>1. PICK t \in Sectors : /\ t + 1 = SectorOf(x) /\ Erasable(i, Walk(i), t)
                             /\ x < First(t + 1) + IsolationCount(i, Walk(i), t)
    BY <1>4 DEF TailPage
  <2>2. t = s
    BY <1>1, <1>4, <2>1, SectorInside
  <2>3. First(s + 1) <= x
    BY <1>4, SectorFacts, Constants
  <2> QED BY <2>1, <2>2, <2>3
<1> QED BY <1>1, <1>2, <1>3, <1>4

\* A sector that is not erased is left alone.
LEMMA SweepSkip ==
    ASSUME NEW i \in Images, NEW s \in Sectors, ~Erasable(i, Walk(i), s), NEW j, Sweep(i, j, s)
    PROVE  Sweep(i, j, s + 1)
<1> SUFFICES ASSUME NEW x \in Pages
             PROVE  /\ Erased(i, s + 1, x) => j[x] = Page("free")
                    /\ ~Erased(i, s + 1, x) /\ TailPage(i, x) =>
                           j[x] = Page("isolated") \/ (j[x] = i[x] /\ SectorOf(x) > s + 1)
                    /\ ~Erased(i, s + 1, x) /\ ~TailPage(i, x) => j[x] = i[x]
  BY DEF Sweep
<1>1. Erased(i, s + 1, x) <=> Erased(i, s, x)
  BY StepFacts
<1>2. TailPage(i, x) /\ SectorOf(x) > s => SectorOf(x) > s + 1
  <2>1. TailPage(i, x) => SectorOf(x) # s + 1
    BY StepFacts
  <2>2. s \in Nat /\ SectorOf(x) \in Nat
    BY StepFacts
  <2> QED BY <2>1, <2>2
<1> QED BY <1>1, <1>2 DEF Sweep

\* A page in front of the next extent is isolated.
LEMMA SweepIsolate ==
    ASSUME NEW i \in Images, NEW s \in Sectors, Erasable(i, Walk(i), s), NEW j, Sweep(i, j, s),
           NEW k \in Nat, k < IsolationCount(i, Walk(i), s),
           NEW y, y = First(s + 1) + k
    PROVE  Sweep(i, [j EXCEPT ![y] = Page("isolated")], s)
<1> DEFINE n == [j EXCEPT ![y] = Page("isolated")]
<1>0. j \in Images /\ Page("isolated") \in HeaderT
  BY PageType DEF Sweep
<1>1. n \in Images /\ \A x \in Pages : n[x] = IF x = y THEN Page("isolated") ELSE j[x]
  BY <1>0 DEF Images
<1>2. s \in Nat /\ First(s + 1) \in Nat /\ First((s + 1) + 1) = First(s + 1) + COFFEE_PAGES_PER_SECTOR
  <2>1. s \in Nat /\ s + 1 \in Nat
    BY SectorInside
  <2> QED BY <2>1, FirstFacts
<1>3. y \in Nat /\ First(s + 1) <= y /\ y < First((s + 1) + 1)
      /\ y < First(s + 1) + IsolationCount(i, Walk(i), s)
  BY <1>2, CountFacts, Constants
<1>4. SectorOf(y) = s + 1
  BY <1>2, <1>3, SectorIs
<1>5. TailPage(i, y) /\ ~Erased(i, s, y) /\ SectorOf(y) > s
  BY <1>2, <1>3, <1>4 DEF TailPage, Erased
<1> HIDE DEF n
<1> SUFFICES ASSUME NEW x \in Pages
             PROVE  /\ Erased(i, s, x) => n[x] = Page("free")
                    /\ ~Erased(i, s, x) /\ TailPage(i, x) =>
                           n[x] = Page("isolated") \/ (n[x] = i[x] /\ SectorOf(x) > s)
                    /\ ~Erased(i, s, x) /\ ~TailPage(i, x) => n[x] = i[x]
  BY <1>1 DEF Sweep, n
<1> QED BY <1>1, <1>5 DEF Sweep

\* A sector is erased, when what reaches out of it is isolated.
LEMMA SweepErase ==
    ASSUME NEW i \in Images, NEW s \in Sectors, Erasable(i, Walk(i), s), NEW j, Sweep(i, j, s),
           \A x \in Pages :
               First(s + 1) <= x /\ x < First(s + 1) + IsolationCount(i, Walk(i), s) =>
                   j[x] = Page("isolated")
    PROVE  Sweep(i, [p \in Pages |-> IF p \in SectorPages(s) THEN Page("free") ELSE j[p]], s + 1)
<1> DEFINE n == [p \in Pages |-> IF p \in SectorPages(s) THEN Page("free") ELSE j[p]]
<1>1. n \in Images /\ \A x \in Pages : n[x] = IF SectorOf(x) = s THEN Page("free") ELSE j[x]
  <2>1. j \in Images /\ Page("free") \in HeaderT
    BY PageType DEF Sweep
  <2>2. n \in Images
    BY <2>1 DEF Images
  <2> QED BY <2>2, StepFacts
<1> HIDE DEF n
<1> SUFFICES ASSUME NEW x \in Pages
             PROVE  /\ Erased(i, s + 1, x) => n[x] = Page("free")
                    /\ ~Erased(i, s + 1, x) /\ TailPage(i, x) =>
                           n[x] = Page("isolated") \/ (n[x] = i[x] /\ SectorOf(x) > s + 1)
                    /\ ~Erased(i, s + 1, x) /\ ~TailPage(i, x) => n[x] = i[x]
  BY <1>1 DEF Sweep, n
<1>2. CASE SectorOf(x) = s
  BY <1>1, <1>2, StepFacts
<1>3. CASE SectorOf(x) # s
  <2>1. n[x] = j[x] /\ (Erased(i, s + 1, x) <=> Erased(i, s, x))
    BY <1>1, <1>3, StepFacts
  <2>2. TailPage(i, x) /\ SectorOf(x) = s + 1 => j[x] = Page("isolated")
    BY StepFacts
  <2>3. s \in Nat /\ SectorOf(x) \in Nat
    BY StepFacts
  <2>4. SectorOf(x) > s => SectorOf(x) = s + 1 \/ SectorOf(x) > s + 1
    BY <2>3
  <2> QED BY <2>1, <2>2, <2>4 DEF Sweep
<1> QED BY <1>2, <1>3

-----------------------------------------------------------------------------
(* Machine states one after the other: once garbage collection has erased    *)
(* the tail of an extent whose header stays, nothing is said of the rest of  *)
(* the call                                                                  *)

Fields == {"hdr", "files", "fds", "next_free", "gc_wait", "intact", "ret", "seen"}

Rec(m) == m = [x \in Fields |-> m[x]] /\ m.intact \in BOOLEAN

Later(m, n) ==
    /\ Rec(n)
    /\ n.intact => m.intact
    /\ \A cut \in n.seen : cut \in m.seen \/ (cut.intact => m.intact)

LEMMA LaterSame == ASSUME NEW m, Rec(m) PROVE Later(m, m)
BY DEF Later

LEMMA LaterTwice == ASSUME NEW m, NEW n, NEW k, Later(m, n), Later(n, k) PROVE Later(m, k)
BY DEF Later

LEMMA LaterAnswer == ASSUME NEW m, Rec(m), NEW r PROVE Later(m, Answer(m, r))
BY DEF Later, Rec, Fields, Answer

LEMMA FlashFields ==
    ASSUME NEW m, Rec(m), NEW image
    PROVE  LET n == Flash(m, image)
           IN  /\ Rec(n)
               /\ n.hdr = image /\ n.files = m.files /\ n.fds = m.fds /\ n.next_free = m.next_free
               /\ n.gc_wait = m.gc_wait /\ n.intact = m.intact /\ n.ret = m.ret
               /\ n.seen = m.seen \union {[hdr |-> image, intact |-> m.intact]}
<1> DEFINE cut == [hdr |-> image, intact |-> m.intact]
           n == [m EXCEPT !.hdr = image, !.seen = @ \union {cut}]
<1>1. n = Flash(m, image)
  BY DEF Flash
<1>2. n.seen = m.seen \union {cut}
  <2> HIDE DEF cut
  <2> QED BY DEF Rec, Fields
<1>3. Rec(n)
  <2> HIDE DEF cut
  <2> QED BY DEF Rec, Fields
<1>4. /\ n.hdr = image /\ n.files = m.files /\ n.fds = m.fds /\ n.next_free = m.next_free
      /\ n.gc_wait = m.gc_wait /\ n.intact = m.intact /\ n.ret = m.ret
  <2> HIDE DEF cut
  <2> QED BY DEF Rec, Fields
<1> HIDE DEF n
<1> QED BY <1>1, <1>2, <1>3, <1>4 DEF cut

LEMMA LaterFlash == ASSUME NEW m, Rec(m), NEW image PROVE Later(m, Flash(m, image))
<1> DEFINE n == Flash(m, image)
<1>1. Rec(n) /\ n.intact = m.intact /\ n.seen = m.seen \union {[hdr |-> image, intact |-> m.intact]}
  BY FlashFields
<1> HIDE DEF n
<1>2. Later(m, n)
  BY <1>1 DEF Later
<1> QED BY <1>2 DEF n

LEMMA LaterHeader == ASSUME NEW m, Rec(m), NEW h, NEW page PROVE Later(m, write_header(m, h, page))
BY LaterFlash DEF write_header

LEMMA LaterErase == ASSUME NEW m, Rec(m), NEW s PROVE Later(m, COFFEE_ERASE(m, s))
BY LaterFlash DEF COFFEE_ERASE

LEMMA LaterIntact ==
    ASSUME NEW m, Rec(m), NEW b \in BOOLEAN
    PROVE  Later(m, [m EXCEPT !.intact = @ /\ b])
BY DEF Later, Rec, Fields

LEMMA LaterExtent == ASSUME NEW m, Rec(m), NEW h, NEW page PROVE Later(m, NewExtent(m, h, page))
BY LaterFlash DEF NewExtent

\* The defining equation of the loop of isolate_pages.
Isolated(m, start, count, f) ==
    f = [k \in 0..COFFEE_PAGES_PER_SECTOR |->
            CASE k = 0 -> m
              [] 0 < k /\ k <= count -> write_header(f[k - 1], Page("isolated"), start + k - 1)
              [] OTHER -> f[k - 1]]

LEMMA IsolatedExists ==
    ASSUME NEW m, NEW start, NEW count
    PROVE  \E f : Isolated(m, start, count, f)
<1> DEFINE P == COFFEE_PAGES_PER_SECTOR
           Loop(k, x) == IF 0 < k /\ k <= count THEN write_header(x, Page("isolated"), start + k - 1)
                         ELSE x
           Right(f, k) == f[k] = IF k = 0 THEN m ELSE Loop(k, f[k - 1])
           S == {n \in Nat : \E f : /\ f = [k \in 0..P |-> f[k]]
                                    /\ \A k \in 0..P : k <= n => Right(f, k)}
<1>0. P \in Nat
  BY Constants
<1> HIDE DEF Loop
<1>1. 0 \in S
  <2> DEFINE f == [k \in 0..P |-> m]
  <2>1. f = [k \in 0..P |-> f[k]] /\ \A k \in 0..P : k <= 0 => Right(f, k)
    BY <1>0
  <2> HIDE DEF Right
  <2> QED BY <2>1
<1>2. ASSUME NEW n \in Nat, n \in S PROVE n + 1 \in S
  <2>1. PICK f : /\ f = [k \in 0..P |-> f[k]]
                 /\ \A k \in 0..P : k <= n => Right(f, k)
    BY <1>2
  <2> DEFINE g == [k \in 0..P |-> IF k = n + 1 THEN Loop(k, f[k - 1]) ELSE f[k]]
  <2>2. /\ g = [k \in 0..P |-> g[k]]
        /\ \A k \in 0..P : k # n + 1 => g[k] = f[k]
        /\ \A k \in 0..P : k = n + 1 => g[k] = Loop(k, f[k - 1])
    OBVIOUS
  <2> HIDE DEF g
  <2>3. ASSUME NEW k \in 0..P, k <= n + 1 PROVE Right(g, k)
    <3>1. k # 0 => k - 1 \in 0..P /\ k - 1 # n + 1
      BY <1>0, <2>3
    <3>2. CASE k = n + 1
      BY <2>2, <3>1, <3>2
    <3>3. CASE k # n + 1
      <4>1. k <= n
        BY <1>0, <2>3, <3>3
      <4> QED BY <2>1, <2>2, <3>1, <3>3, <4>1
    <3> QED BY <3>2, <3>3
  <2>4. n + 1 \in Nat
    OBVIOUS
  <2> HIDE DEF Right
  <2> QED BY <2>2, <2>3, <2>4
<1>3. Nat \subseteq S
  <2> HIDE DEF S
  <2> QED BY <1>1, <1>2, Induction
<1>4. PICK f : /\ f = [k \in 0..P |-> f[k]]
               /\ \A k \in 0..P : k <= P => Right(f, k)
  BY <1>0, <1>3
<1>5. ASSUME NEW k \in 0..P
      PROVE  f[k] = CASE k = 0 -> m
                      [] 0 < k /\ k <= count -> write_header(f[k - 1], Page("isolated"), start + k - 1)
                      [] OTHER -> f[k - 1]
  <2>1. Right(f, k)
    <3>1. k <= P
      BY <1>0
    <3> HIDE DEF Right
    <3> QED BY <1>4, <3>1
  <2>2. k # 0 <=> 0 < k
    BY <1>0
  <2>3. CASE k = 0
    BY <2>1, <2>2, <2>3
  <2>4. CASE k # 0
    BY <2>1, <2>2, <2>4 DEF Loop
  <2> QED BY <2>3, <2>4
<1> QED BY <1>4, <1>5 DEF Isolated

\* The steps of the loop.
LEMMA IsolatedSteps ==
    ASSUME NEW m, NEW start, NEW count
    PROVE  \E f : /\ f[0] = m
                  /\ \A k \in 1..COFFEE_PAGES_PER_SECTOR :
                        f[k] = IF k <= count
                               THEN write_header(f[k - 1], Page("isolated"), start + k - 1)
                               ELSE f[k - 1]
                  /\ isolate_pages(m, start, count) = f[COFFEE_PAGES_PER_SECTOR]
<1> DEFINE f == CHOOSE f : Isolated(m, start, count, f)
<1>1. Isolated(m, start, count, f)
  BY IsolatedExists
<1>2. isolate_pages(m, start, count) = f[COFFEE_PAGES_PER_SECTOR]
  BY DEF isolate_pages, Isolated
<1> HIDE DEF f
<1>3. f[0] = m
  BY <1>1, Constants DEF Isolated
<1>4. ASSUME NEW k \in 1..COFFEE_PAGES_PER_SECTOR
      PROVE  f[k] = IF k <= count THEN write_header(f[k - 1], Page("isolated"), start + k - 1)
                    ELSE f[k - 1]
  <2>1. k \in 0..COFFEE_PAGES_PER_SECTOR /\ k # 0 /\ 0 < k
    BY Constants
  <2>2. f[k] = IF 0 < k /\ k <= count THEN write_header(f[k - 1], Page("isolated"), start + k - 1)
               ELSE f[k - 1]
    BY <1>1, <2>1 DEF Isolated
  <2> QED BY <2>1, <2>2
<1> QED BY <1>2, <1>3, <1>4

LEMMA LaterIsolated ==
    ASSUME NEW m, Rec(m), NEW start, NEW count
    PROVE  Later(m, isolate_pages(m, start, count))
<1> DEFINE P == COFFEE_PAGES_PER_SECTOR
<1>1. PICK f : /\ f[0] = m
               /\ \A k \in 1..P :
                     f[k] = IF k <= count
                            THEN write_header(f[k - 1], Page("isolated"), start + k - 1)
                            ELSE f[k - 1]
               /\ isolate_pages(m, start, count) = f[P]
  BY IsolatedSteps
<1> DEFINE S == {n \in Nat : n <= P => Later(m, f[n])}
<1>2. P \in Nat
  BY Constants
<1>3. 0 \in S
  BY <1>1, LaterSame
<1>4. ASSUME NEW n \in Nat, n \in S PROVE n + 1 \in S
  <2> SUFFICES ASSUME n + 1 <= P PROVE Later(m, f[n + 1])
    OBVIOUS
  <2>1. Later(m, f[n]) /\ Rec(f[n])
    BY <1>2, <1>4 DEF Later
  <2>2. n + 1 \in 1..P /\ (n + 1) - 1 = n
    BY <1>2
  <2>3. \/ f[n + 1] = f[n]
        \/ f[n + 1] = write_header(f[n], Page("isolated"), start + (n + 1) - 1)
    BY <1>1, <2>2
  <2> QED BY <2>1, <2>3, LaterHeader, LaterTwice
<1>5. Nat \subseteq S
  <2> HIDE DEF S
  <2> QED BY <1>3, <1>4, Induction
<1> QED BY <1>1, <1>2, <1>5

LEMMA LaterSector ==
    ASSUME NEW m, Rec(m), NEW image, NEW walk, NEW s
    PROVE  Later(m, CollectSector(m, image, walk, s))
<1> DEFINE n == [m EXCEPT !.next_free = Lowest(s * COFFEE_PAGES_PER_SECTOR, m)]
           k == isolate_pages(n, (s + 1) * COFFEE_PAGES_PER_SECTOR, IsolationCount(image, walk, s))
<1>1. n.seen = m.seen /\ n.intact = m.intact /\ Rec(n)
  BY DEF Rec, Fields
<1>2. Later(m, n)
  <2> HIDE DEF n
  <2> QED BY <1>1 DEF Later
<1> HIDE DEF n
<1>3. Later(n, k)
  BY <1>1, LaterIsolated
<1>4. CollectSector(m, image, walk, s) \in {m, COFFEE_ERASE(k, s)}
  BY DEF CollectSector, n
<1> HIDE DEF k
<1>5. Later(k, COFFEE_ERASE(k, s))
  BY <1>3, LaterErase DEF Later
<1> QED BY <1>2, <1>3, <1>4, <1>5, LaterTwice, LaterSame

\* The defining equation of the loop of collect_garbage.
Collected(m, f) ==
    f = [s \in 0..COFFEE_SECTOR_COUNT |->
            IF s = 0 THEN [m EXCEPT !.intact = @ /\ TailsGo(m.hdr, Walk(m.hdr))]
            ELSE CollectSector(f[s - 1], m.hdr, Walk(m.hdr), s - 1)]

LEMMA CollectedExists ==
    ASSUME NEW m
    PROVE  \E f : Collected(m, f)
<1> DEFINE P == COFFEE_SECTOR_COUNT
           b == [m EXCEPT !.intact = @ /\ TailsGo(m.hdr, Walk(m.hdr))]
           Loop(s, x) == CollectSector(x, m.hdr, Walk(m.hdr), s - 1)
           Right(f, k) == f[k] = IF k = 0 THEN b ELSE Loop(k, f[k - 1])
           S == {n \in Nat : \E f : /\ f = [k \in 0..P |-> f[k]]
                                    /\ \A k \in 0..P : k <= n => Right(f, k)}
<1>0. P \in Nat
  BY Constants
<1> HIDE DEF Loop, b
<1>1. 0 \in S
  <2> DEFINE f == [k \in 0..P |-> b]
  <2>1. f = [k \in 0..P |-> f[k]] /\ \A k \in 0..P : k <= 0 => Right(f, k)
    BY <1>0
  <2> HIDE DEF Right
  <2> QED BY <2>1
<1>2. ASSUME NEW n \in Nat, n \in S PROVE n + 1 \in S
  <2>1. PICK f : /\ f = [k \in 0..P |-> f[k]]
                 /\ \A k \in 0..P : k <= n => Right(f, k)
    BY <1>2
  <2> DEFINE g == [k \in 0..P |-> IF k = n + 1 THEN Loop(k, f[k - 1]) ELSE f[k]]
  <2>2. /\ g = [k \in 0..P |-> g[k]]
        /\ \A k \in 0..P : k # n + 1 => g[k] = f[k]
        /\ \A k \in 0..P : k = n + 1 => g[k] = Loop(k, f[k - 1])
    OBVIOUS
  <2> HIDE DEF g
  <2>3. ASSUME NEW k \in 0..P, k <= n + 1 PROVE Right(g, k)
    <3>1. k # 0 => k - 1 \in 0..P /\ k - 1 # n + 1
      BY <1>0, <2>3
    <3>2. CASE k = n + 1
      BY <2>2, <3>1, <3>2
    <3>3. CASE k # n + 1
      <4>1. k <= n
        BY <1>0, <2>3, <3>3
      <4> QED BY <2>1, <2>2, <3>1, <3>3, <4>1
    <3> QED BY <3>2, <3>3
  <2>4. n + 1 \in Nat
    OBVIOUS
  <2> HIDE DEF Right
  <2> QED BY <2>2, <2>3, <2>4
<1>3. Nat \subseteq S
  <2> HIDE DEF S
  <2> QED BY <1>1, <1>2, Induction
<1>4. PICK f : /\ f = [k \in 0..P |-> f[k]]
               /\ \A k \in 0..P : k <= P => Right(f, k)
  BY <1>0, <1>3
<1>5. ASSUME NEW k \in 0..P
      PROVE  f[k] = IF k = 0 THEN b ELSE CollectSector(f[k - 1], m.hdr, Walk(m.hdr), k - 1)
  <2>1. Right(f, k)
    <3>1. k <= P
      BY <1>0
    <3> HIDE DEF Right
    <3> QED BY <1>4, <3>1
  <2> QED BY <2>1 DEF Loop
<1>6. f = [k \in 0..P |-> IF k = 0 THEN b ELSE CollectSector(f[k - 1], m.hdr, Walk(m.hdr), k - 1)]
  BY <1>4, <1>5
<1> QED BY <1>6 DEF Collected, b

LEMMA CollectedSteps ==
    ASSUME NEW m
    PROVE  \E f : /\ f[0] = [m EXCEPT !.intact = @ /\ TailsGo(m.hdr, Walk(m.hdr))]
                  /\ \A s \in 1..COFFEE_SECTOR_COUNT :
                        f[s] = CollectSector(f[s - 1], m.hdr, Walk(m.hdr), s - 1)
                  /\ collect_garbage(m) = f[COFFEE_SECTOR_COUNT]
<1> DEFINE f == CHOOSE f : Collected(m, f)
<1>1. Collected(m, f)
  BY CollectedExists
<1>2. collect_garbage(m) = f[COFFEE_SECTOR_COUNT]
  BY DEF collect_garbage, Collected
<1> HIDE DEF f
<1>3. f[0] = [m EXCEPT !.intact = @ /\ TailsGo(m.hdr, Walk(m.hdr))]
  BY <1>1, Constants DEF Collected
<1>4. ASSUME NEW s \in 1..COFFEE_SECTOR_COUNT
      PROVE  f[s] = CollectSector(f[s - 1], m.hdr, Walk(m.hdr), s - 1)
  <2>1. s \in 0..COFFEE_SECTOR_COUNT /\ s # 0
    BY Constants
  <2> QED BY <1>1, <2>1 DEF Collected
<1> QED BY <1>2, <1>3, <1>4

LEMMA LaterCollected ==
    ASSUME NEW m, Rec(m)
    PROVE  /\ Later(m, collect_garbage(m))
           /\ collect_garbage(m).intact => TailsGo(m.hdr, Walk(m.hdr))
<1> DEFINE P == COFFEE_SECTOR_COUNT
           b == [m EXCEPT !.intact = @ /\ TailsGo(m.hdr, Walk(m.hdr))]
<1>1. PICK f : /\ f[0] = b
               /\ \A s \in 1..P : f[s] = CollectSector(f[s - 1], m.hdr, Walk(m.hdr), s - 1)
               /\ collect_garbage(m) = f[P]
  BY CollectedSteps
<1>2. Later(m, b) /\ (b.intact => TailsGo(m.hdr, Walk(m.hdr))) /\ Rec(b)
  <2>1. TailsGo(m.hdr, Walk(m.hdr)) \in BOOLEAN
    BY DEF TailsGo
  <2> QED BY <2>1, LaterIntact DEF Rec, Fields, Later
<1> HIDE DEF b
<1> DEFINE S == {n \in Nat : n <= P => Later(b, f[n])}
<1>3. P \in Nat
  BY Constants
<1>4. 0 \in S
  BY <1>1, <1>2, LaterSame
<1>5. ASSUME NEW n \in Nat, n \in S PROVE n + 1 \in S
  <2> SUFFICES ASSUME n + 1 <= P PROVE Later(b, f[n + 1])
    OBVIOUS
  <2>1. Later(b, f[n]) /\ Rec(f[n])
    BY <1>3, <1>5 DEF Later
  <2>2. n + 1 \in 1..P /\ (n + 1) - 1 = n
    BY <1>3
  <2>3. f[n + 1] = CollectSector(f[n], m.hdr, Walk(m.hdr), n)
    BY <1>1, <2>2
  <2> QED BY <2>1, <2>3, LaterSector, LaterTwice
<1>6. Nat \subseteq S
  <2> HIDE DEF S
  <2> QED BY <1>4, <1>5, Induction
<1>7. Later(b, f[P])
  BY <1>3, <1>6
<1>8. f[P].intact => b.intact
  BY <1>7 DEF Later
<1> QED BY <1>1, <1>2, <1>7, <1>8, LaterTwice

LEMMA LaterRec == ASSUME NEW m, NEW n, Later(m, n) PROVE Rec(n)
BY DEF Later

LEMMA LaterLoad == ASSUME NEW m, Rec(m), NEW page PROVE Later(m, load_file(m, page))
<1> DEFINE free == {s \in Slots : FILE_FREE(m.files[s])}
           idle == {s \in Slots : m.files[s].references = 0}
           slot == IF free # {} THEN Min(free) ELSE Max(idle)
           h    == m.hdr[page]
           n    == [m EXCEPT !.files[slot] = [page |-> page, max_pages |-> h.max_pages,
                                              modified |-> HDR_MODIFIED(h),
                                              references |-> m.files[slot].references]]
<1>1. load_file(m, page) \in {Answer(m, NULL), Answer(n, slot)}
  BY DEF load_file
<1> HIDE DEF slot, h
<1>2. n.seen = m.seen /\ n.intact = m.intact /\ Rec(n)
  BY DEF Rec, Fields
<1> HIDE DEF n
<1>3. Later(m, n)
  BY <1>2 DEF Later
<1> QED BY <1>1, <1>2, <1>3, LaterAnswer, LaterTwice

LEMMA LaterFind == ASSUME NEW m, Rec(m), NEW name PROVE Later(m, find_file(m, name))
<1>1. \/ \E r : find_file(m, name) = Answer(m, r)
      \/ \E page : find_file(m, name) = load_file(m, page)
  BY DEF find_file
<1> QED BY <1>1, LaterAnswer, LaterLoad

LEMMA LaterTake == ASSUME NEW m, Rec(m), NEW start, NEW amount PROVE Later(m, Take(m, start, amount))
<1> DEFINE n == [m EXCEPT !.next_free = IF start = @ THEN start + amount ELSE @]
<1>1. n.seen = m.seen /\ n.intact = m.intact /\ Rec(n)
  BY DEF Rec, Fields
<1>2. Take(m, start, amount) = Answer(n, start)
  BY DEF Take
<1> HIDE DEF n
<1>3. Later(m, n)
  BY <1>1 DEF Later
<1> QED BY <1>1, <1>2, <1>3, LaterAnswer, LaterTwice

LEMMA LaterSearch ==
    ASSUME NEW m, Rec(m), NEW amount PROVE Later(m, find_contiguous_pages(m, amount))
BY LaterTake DEF find_contiguous_pages

LEMMA LaterAgain == ASSUME NEW m, Rec(m), NEW amount PROVE Later(m, SearchAgain(m, amount))
<1>1. Later(m, collect_garbage(m)) /\ Rec(collect_garbage(m))
  BY LaterCollected DEF Later
<1>2. Later(m, find_contiguous_pages(collect_garbage(m), amount))
  BY <1>1, LaterSearch, LaterTwice
<1> QED BY <1>2, LaterSame DEF SearchAgain

LEMMA LaterOccupy == ASSUME NEW m, Rec(m), NEW h PROVE Later(m, Occupy(m, h))
<1>1. Later(m, [m EXCEPT !.gc_wait = TRUE]) /\ Rec([m EXCEPT !.gc_wait = TRUE])
  <2> DEFINE n == [m EXCEPT !.gc_wait = TRUE]
  <2>1. n.seen = m.seen /\ n.intact = m.intact /\ Rec(n)
    BY DEF Rec, Fields
  <2> HIDE DEF n
  <2>2. Later(m, n) /\ Rec(n)
    BY <2>1 DEF Later
  <2> QED BY <2>2 DEF n
<1>2. Later(m, Answer([m EXCEPT !.gc_wait = TRUE], NULL))
  BY <1>1, LaterAnswer, LaterTwice
<1>3. Later(m, NewExtent(m, h, m.ret)) /\ Rec(NewExtent(m, h, m.ret))
  BY LaterExtent DEF Later
<1>4. Later(m, load_file(NewExtent(m, h, m.ret), m.ret))
  BY <1>3, LaterLoad, LaterTwice
<1> QED BY <1>2, <1>4 DEF Occupy

LEMMA LaterReserve == ASSUME NEW m, Rec(m), NEW h PROVE Later(m, reserve(m, h))
<1> DEFINE n == find_contiguous_pages(m, h.max_pages)
           k == SearchAgain(n, h.max_pages)
<1>1. Later(m, n) /\ Rec(n)
  BY LaterSearch DEF Later
<1> HIDE DEF n
<1>2. Later(n, k) /\ Rec(k)
  BY <1>1, LaterAgain DEF Later
<1> HIDE DEF k
<1>3. Later(k, Occupy(k, h))
  BY <1>2, LaterOccupy
<1> QED BY <1>1, <1>2, <1>3, LaterTwice DEF reserve, n, k

LEMMA LaterObsolete ==
    ASSUME NEW m, Rec(m), NEW page, NEW close PROVE Later(m, Obsolete(m, page, close))
<1> DEFINE h == [Page("obsolete") EXCEPT !.max_pages = m.hdr[page].max_pages]
           n == write_header(m, h, page)
           fds == [fd \in FDs |-> IF /\ close
                                     /\ m.fds[fd] # NULL /\ m.files[m.fds[fd]].page = page
                                  THEN NULL ELSE n.fds[fd]]
           files == [s \in Slots |-> IF n.files[s].page = page THEN NoFile ELSE n.files[s]]
           k == [n EXCEPT !.gc_wait = FALSE, !.fds = fds, !.files = files]
<1> HIDE DEF h
<1>1. Later(m, n) /\ Rec(n)
  BY LaterHeader DEF Later
<1>2. Obsolete(m, page, close) = Answer(k, 0)
  BY DEF Obsolete, Awake, h, Rec, Fields
<1> HIDE DEF n, fds, files
<1>3. k.seen = n.seen /\ k.intact = n.intact /\ Rec(k)
  BY <1>1 DEF Rec, Fields
<1> HIDE DEF k
<1>4. Later(n, k)
  BY <1>3 DEF Later
<1> QED BY <1>1, <1>2, <1>3, <1>4, LaterAnswer, LaterTwice

LEMMA LaterRemove ==
    ASSUME NEW m, Rec(m), NEW page, NEW log, NEW close
    PROVE  Later(m, remove_by_page(m, page, log, close))
<1> DEFINE n == Obsolete(m, m.hdr[page].log_page, FALSE)
<1>1. Later(m, n) /\ Rec(n)
  BY LaterObsolete DEF Later
<1>2. Later(m, Obsolete(n, page, close))
  BY <1>1, LaterObsolete, LaterTwice
<1>3. remove_by_page(m, page, log, close)
          \in {Answer(m, FAILURE), Obsolete(m, page, close), Obsolete(n, page, close)}
  BY DEF remove_by_page
<1> QED BY <1>2, <1>3, LaterAnswer, LaterObsolete

LEMMA LaterConnect == ASSUME NEW m, Rec(m), NEW fd, NEW slot PROVE Later(m, Connect(m, fd, slot))
<1> DEFINE n == [m EXCEPT !.fds[fd] = slot, !.files[slot].references = @ + 1]
<1>1. n.seen = m.seen /\ n.intact = m.intact /\ Rec(n)
  BY DEF Rec, Fields
<1>2. Connect(m, fd, slot) = Answer(n, fd)
  BY DEF Connect
<1> HIDE DEF n
<1>3. Later(m, n)
  BY <1>1 DEF Later
<1> QED BY <1>1, <1>2, <1>3, LaterAnswer, LaterTwice

LEMMA LaterOpen == ASSUME NEW m, Rec(m), NEW name, NEW create PROVE Later(m, Open(m, name, create))
<1> DEFINE n == find_file(m, name)
           k == CreateMissing(n, name, create)
<1>1. Later(m, n) /\ Rec(n)
  BY LaterFind DEF Later
<1> HIDE DEF n
<1>2. Later(n, k) /\ Rec(k)
  BY <1>1, LaterReserve, LaterSame DEF CreateMissing, Later
<1> HIDE DEF k
<1>3. Later(k, ConnectFound(k))
  BY <1>2, LaterAnswer, LaterConnect DEF ConnectFound
<1>4. Later(m, ConnectFound(k))
  BY <1>1, <1>2, <1>3, LaterTwice
<1> QED BY <1>4, LaterAnswer DEF Open, n, k

LEMMA LaterClose == ASSUME NEW m, Rec(m), NEW fd PROVE Later(m, Close(m, fd))
<1> DEFINE n == [m EXCEPT !.files[m.fds[fd]].references = (@ - 1) % 256, !.fds[fd] = NULL]
<1>1. n.seen = m.seen /\ n.intact = m.intact /\ Rec(n)
  BY ZenonT(40) DEF Rec, Fields
<1>2. Close(m, fd) = n
  BY DEF Close
<1> HIDE DEF n
<1> QED BY <1>1, <1>2 DEF Later

LEMMA LaterLink ==
    ASSUME NEW m, Rec(m), NEW slot, NEW page, NEW h, NEW at
    PROVE  Later(m, LinkLog(m, slot, page, h, at))
<1> DEFINE n == [m EXCEPT !.files[slot].modified = TRUE]
           k == write_header(n, [h EXCEPT !.log_page = at], page)
<1>1. n.seen = m.seen /\ n.intact = m.intact /\ Rec(n)
  BY DEF Rec, Fields
<1>2. LinkLog(m, slot, page, h, at) = Answer(k, at)
  BY DEF LinkLog
<1> HIDE DEF n
<1>3. Later(m, n)
  BY <1>1 DEF Later
<1>4. Later(n, k) /\ Rec(k)
  BY <1>1, LaterHeader DEF Later
<1> HIDE DEF k
<1> QED BY <1>2, <1>3, <1>4, LaterAnswer, LaterTwice

LEMMA LaterCreateLog == ASSUME NEW m, Rec(m), NEW slot PROVE Later(m, create_log(m, slot))
<1> DEFINE page == m.files[slot].page
           h == m.hdr[page]
           n == reserve(m, NewLog(h.name))
<1>1. Later(m, n) /\ Rec(n)
  BY LaterReserve DEF Later
<1>2. create_log(m, slot) = FinishLog(n, slot, page, h)
  BY DEF create_log
<1> HIDE DEF n, page, h
<1>3. Later(n, FinishLog(n, slot, page, h))
  BY <1>1, LaterAnswer, LaterLink DEF FinishLog
<1> QED BY <1>1, <1>2, <1>3, LaterTwice

LEMMA LaterRedirect ==
    ASSUME NEW m, Rec(m), NEW page, NEW slot PROVE Later(m, Redirect(m, page, slot))
<1> DEFINE moved == {fd \in FDs : m.fds[fd] # NULL /\ m.files[m.fds[fd]].page = page}
           fds == [fd \in FDs |-> IF fd \in moved THEN slot ELSE m.fds[fd]]
           n == [m EXCEPT !.fds = fds, !.files[slot].references = @ + Cardinality(moved)]
<1>1. Redirect(m, page, slot) = n
  BY DEF Redirect, Rec, Fields
<1> HIDE DEF moved, fds
<1>2. n.seen = m.seen /\ n.intact = m.intact /\ Rec(n)
  BY DEF Rec, Fields
<1> HIDE DEF n
<1> QED BY <1>1, <1>2 DEF Later

LEMMA LaterFinish ==
    ASSUME NEW m, Rec(m), NEW fd, NEW at PROVE Later(m, FinishMerge(m, fd, at))
<1> DEFINE n == remove_by_page(m, at, FALSE, FALSE)
           k == Close(n, fd)
<1>1. Later(m, n) /\ Rec(n)
  BY LaterRemove DEF Later
<1>2. Later(n, k) /\ Rec(k)
  BY <1>1, LaterClose DEF Later
<1>3. Later(m, Answer(k, FAILURE))
  BY <1>1, <1>2, LaterAnswer, LaterTwice, Zenon
<1> QED BY <1>3, LaterClose, Zenon DEF FinishMerge

LEMMA LaterReplace ==
    ASSUME NEW m, Rec(m), NEW fd, NEW page, NEW at, NEW whole
    PROVE  Later(m, Replace(m, fd, page, at, whole))
<1> DEFINE n == write_header(m, [m.hdr[at] EXCEPT !.whole = whole], at)
           k == Redirect(n, page, m.ret)
           j == remove_by_page(k, page, TRUE, FALSE)
<1>1. Later(m, n) /\ Rec(n)
  BY LaterHeader DEF Later
<1>2. Replace(m, fd, page, at, whole) = FinishMerge(j, fd, at)
  BY DEF Replace
<1> HIDE DEF n
<1>3. Later(n, k) /\ Rec(k)
  BY <1>1, LaterRedirect DEF Later
<1> HIDE DEF k
<1>4. Later(k, j) /\ Rec(j)
  BY <1>3, LaterRemove DEF Later
<1> HIDE DEF j
<1> QED BY <1>1, <1>2, <1>3, <1>4, LaterFinish, LaterTwice

LEMMA LaterCopy ==
    ASSUME NEW m, Rec(m), NEW fd, NEW page, NEW whole
    PROVE  Later(m, CopyTo(m, fd, page, whole))
<1>1. Later(m, Close(m, fd)) /\ Rec(Close(m, fd))
  BY LaterClose DEF Later
<1>2. Later(m, Answer(Close(m, fd), FAILURE))
  BY <1>1, LaterAnswer, LaterTwice
<1> QED BY <1>2, LaterReplace DEF CopyTo

LEMMA LaterMerge ==
    ASSUME NEW m, Rec(m), NEW page, NEW extend PROVE Later(m, merge_log(m, page, extend))
<1> DEFINE n == Open(m, m.hdr[page].name, FALSE)
<1>1. Later(m, n) /\ Rec(n)
  BY LaterOpen DEF Later
<1> HIDE DEF n
<1>2. ASSUME NEW h PROVE Later(n, reserve(n, h)) /\ Rec(reserve(n, h))
  BY <1>1, LaterReserve DEF Later
<1>3. \/ MergeOpened(n, page, extend) = n
      \/ \E h, fd, whole : MergeOpened(n, page, extend) = CopyTo(reserve(n, h), fd, page, whole)
  BY Zenon DEF MergeOpened
<1>4. Later(n, MergeOpened(n, page, extend))
  BY <1>1, <1>2, <1>3, LaterSame, LaterCopy, LaterTwice
<1> QED BY <1>1, <1>4, LaterTwice DEF merge_log, n

LEMMA LaterLogPage ==
    ASSUME NEW m, Rec(m), NEW slot, NEW full PROVE Later(m, write_log_page(m, slot, full))
<1> DEFINE n == create_log(m, slot)
<1>1. Later(m, n) /\ Rec(n)
  BY LaterCreateLog DEF Later
<1>2. Later(m, OneRecord(n))
  <2> HIDE DEF n
  <2> QED BY <1>1, LaterSame, LaterAnswer, LaterTwice DEF OneRecord
<1> QED BY <1>2, LaterMerge, LaterAnswer DEF write_log_page

-----------------------------------------------------------------------------
(* Garbage collection *)

\* Between m and n, garbage was collected in the sectors before k, on the flash
\* that m has.
Garbage(m, n, k) ==
    /\ Rec(n)
    /\ n.files = m.files /\ n.fds = m.fds /\ n.gc_wait = m.gc_wait /\ n.intact = m.intact
    /\ n.ret = m.ret
    /\ Sweep(m.hdr, n.hdr, k)
    /\ \A cut \in n.seen :
          cut \in m.seen \/ \E l \in 0..COFFEE_SECTOR_COUNT : Sweep(m.hdr, cut.hdr, l)

\* And next_free went down to the first sector that was erased, if it was behind.
Lowered(m, next, k) ==
    /\ next \in Nat /\ next <= m.next_free
    /\ next = m.next_free \/ \E s \in Sectors : Erasable(m.hdr, Walk(m.hdr), s) /\ next = First(s)
    /\ \A s \in Sectors : s < k /\ Erasable(m.hdr, Walk(m.hdr), s) => next <= First(s)

LEMMA GarbageWrite ==
    ASSUME NEW m, NEW n, NEW k, Garbage(m, n, k), NEW l \in 0..COFFEE_SECTOR_COUNT,
           NEW image, Sweep(m.hdr, image, l)
    PROVE  LET f == Flash(n, image)
           IN  Garbage(m, f, l) /\ f.next_free = n.next_free /\ f.hdr = image
<1> DEFINE f == Flash(n, image)
<1>0. Rec(n)
  BY DEF Garbage
<1>1. /\ Rec(f)
      /\ f.hdr = image /\ f.files = n.files /\ f.fds = n.fds /\ f.next_free = n.next_free
      /\ f.gc_wait = n.gc_wait /\ f.intact = n.intact /\ f.ret = n.ret
      /\ f.seen = n.seen \union {[hdr |-> image, intact |-> n.intact]}
  BY <1>0, FlashFields
<1> HIDE DEF f
<1>2. Garbage(m, f, l)
  BY <1>1 DEF Garbage
<1> QED BY <1>1, <1>2 DEF f

\* What an obsolete extent has in the sector behind s is isolated.
LEMMA GarbageIsolated ==
    ASSUME NEW m, m.hdr \in Images, NEW s \in Sectors, Erasable(m.hdr, Walk(m.hdr), s),
           NEW n, Garbage(m, n, s)
    PROVE  LET count == IsolationCount(m.hdr, Walk(m.hdr), s)
               g     == isolate_pages(n, First(s + 1), count)
           IN  /\ Garbage(m, g, s) /\ g.next_free = n.next_free
               /\ \A x \in Pages :
                     First(s + 1) <= x /\ x < First(s + 1) + count => g.hdr[x] = Page("isolated")
<1> DEFINE P == COFFEE_PAGES_PER_SECTOR
           start == First(s + 1)
           count == IsolationCount(m.hdr, Walk(m.hdr), s)
<1>1. PICK f : /\ f[0] = n
               /\ \A k \in 1..P :
                     f[k] = IF k <= count
                            THEN write_header(f[k - 1], Page("isolated"), start + k - 1)
                            ELSE f[k - 1]
               /\ isolate_pages(n, start, count) = f[P]
  BY IsolatedSteps
<1>2. P \in Nat /\ start \in Nat /\ s \in Nat /\ s \in 0..COFFEE_SECTOR_COUNT
  <2>1. s \in Nat /\ s < COFFEE_SECTOR_COUNT
    BY SectorInside
  <2> QED BY <2>1, Constants, FirstFacts DEF Sectors
<1>3. count \in Nat /\ count < P
  BY CountFacts
<1> HIDE DEF start, count, P
<1> DEFINE Right(g, k) ==
               /\ Garbage(m, g, s) /\ g.next_free = n.next_free
               /\ \A x \in Pages : /\ start <= x /\ x < start + count /\ x < start + k
                                   => g.hdr[x] = Page("isolated")
           S == {k \in Nat : k <= P => Right(f[k], k)}
<1>4. 0 \in S
  BY <1>1, <1>2, Constants
<1>5. ASSUME NEW k \in Nat, k \in S PROVE k + 1 \in S
  <2> SUFFICES ASSUME k + 1 <= P PROVE Right(f[k + 1], k + 1)
    OBVIOUS
  <2> DEFINE g == f[k]
  <2>1. Right(g, k)
    BY <1>2, <1>5
  <2>2. k + 1 \in 1..P /\ (k + 1) - 1 = k
    BY <1>2
  <2>3. f[k + 1] = IF k + 1 <= count THEN write_header(g, Page("isolated"), start + (k + 1) - 1)
                   ELSE g
    BY <1>1, <2>2
  <2> HIDE DEF g
  <2>4. CASE k + 1 <= count
    <3> DEFINE y == start + (k + 1) - 1
               image == [g.hdr EXCEPT ![y] = Page("isolated")]
    <3>1. y = start + k /\ k < count
      BY <1>2, <1>3, <2>4
    <3>2. Sweep(m.hdr, g.hdr, s) /\ g.hdr \in Images
      BY <2>1 DEF Garbage, Sweep
    <3> HIDE DEF y
    <3>3. Sweep(m.hdr, image, s)
      BY <3>1, <3>2, SweepIsolate DEF start, count
    <3>4. ASSUME NEW x \in Pages, start <= x, x < start + count, x < start + (k + 1)
          PROVE  image[x] = Page("isolated")
      <4>1. x \in Nat /\ (x = y \/ x < start + k)
        BY <1>2, <3>1, <3>4, Constants
      <4> QED BY <2>1, <3>2, <3>4, <4>1 DEF Images
    <3> HIDE DEF image
    <3>5. f[k + 1] = Flash(g, image)
      BY <2>3, <2>4 DEF write_header, image, y
    <3>6. /\ Garbage(m, f[k + 1], s) /\ f[k + 1].next_free = g.next_free
          /\ f[k + 1].hdr = image
      BY <1>2, <2>1, <3>3, <3>5, GarbageWrite
    <3> QED BY <2>1, <3>4, <3>6
  <2>5. CASE ~(k + 1 <= count)
    <3>1. f[k + 1] = g
      BY <2>3, <2>5
    <3>2. \A x \in Pages : start <= x /\ x < start + count => x < start + k
      BY <1>2, <1>3, <2>5, Constants
    <3> QED BY <2>1, <3>1, <3>2
  <2> QED BY <2>4, <2>5
<1>6. Nat \subseteq S
  <2> HIDE DEF S
  <2> QED BY <1>4, <1>5, Induction
<1>7. Right(f[P], P)
  BY <1>2, <1>6
<1>8. \A x \in Pages : start <= x /\ x < start + count => x < start + P
  BY <1>2, <1>3, Constants
<1> QED BY <1>1, <1>7, <1>8 DEF start, count

LEMMA LoweredBy ==
    ASSUME NEW m, NEW n, NEW s \in Sectors, Lowered(m, n.next_free, s), m.next_free \in Nat
    PROVE  /\ ~Erasable(m.hdr, Walk(m.hdr), s) => Lowered(m, n.next_free, s + 1)
           /\ Erasable(m.hdr, Walk(m.hdr), s) => Lowered(m, Lowest(First(s), n), s + 1)
<1>1. s \in Nat /\ First(s) \in Nat
  BY SectorInside, FirstFacts
<1>2. \A t \in Sectors : t < s + 1 <=> (t < s \/ t = s)
  BY SectorInside
<1>3. CASE ~Erasable(m.hdr, Walk(m.hdr), s)
  BY <1>2, <1>3 DEF Lowered
<1>4. CASE Erasable(m.hdr, Walk(m.hdr), s)
  <2> DEFINE l == Lowest(First(s), n)
  <2>1. l \in Nat /\ l <= n.next_free /\ l <= First(s) /\ (l = n.next_free \/ l = First(s))
    BY <1>1 DEF Lowest, Lowered
  <2> HIDE DEF l
  <2>2. l <= m.next_free
    BY <2>1 DEF Lowered
  <2>3. l = m.next_free \/ \E t \in Sectors : Erasable(m.hdr, Walk(m.hdr), t) /\ l = First(t)
    BY <1>4, <2>1 DEF Lowered
  <2>4. ASSUME NEW t \in Sectors, t < s + 1, Erasable(m.hdr, Walk(m.hdr), t)
        PROVE  l <= First(t)
    <3>1. CASE t < s
      <4>1. n.next_free <= First(t) /\ n.next_free \in Nat
        BY <2>4, <3>1 DEF Lowered
      <4>2. First(t) \in Nat
        BY SectorInside, FirstFacts
      <4> QED BY <2>1, <4>1, <4>2
    <3>2. CASE t = s
      BY <2>1, <3>2
    <3> QED BY <1>2, <2>4, <3>1, <3>2
  <2>5. Lowered(m, l, s + 1)
    BY <2>1, <2>2, <2>3, <2>4 DEF Lowered
  <2> QED BY <1>4, <2>5 DEF l
<1> QED BY <1>3, <1>4

LEMMA GarbageSector ==
    ASSUME NEW m, m.hdr \in Images, m.next_free \in Nat, NEW s \in Sectors,
           NEW n, Garbage(m, n, s), Lowered(m, n.next_free, s)
    PROVE  LET g == CollectSector(n, m.hdr, Walk(m.hdr), s)
           IN  Garbage(m, g, s + 1) /\ Lowered(m, g.next_free, s + 1)
<1>1. CASE ~Erasable(m.hdr, Walk(m.hdr), s)
  <2>1. CollectSector(n, m.hdr, Walk(m.hdr), s) = n
    BY <1>1 DEF CollectSector
  <2>2. Sweep(m.hdr, n.hdr, s + 1)
    BY <1>1, SweepSkip DEF Garbage
  <2> QED BY <1>1, <2>1, <2>2, LoweredBy DEF Garbage
<1>2. CASE Erasable(m.hdr, Walk(m.hdr), s)
  <2> DEFINE first == s * COFFEE_PAGES_PER_SECTOR
             next == Lowest(first, n)
             k == [n EXCEPT !.next_free = next]
             j == isolate_pages(k, (s + 1) * COFFEE_PAGES_PER_SECTOR,
                                IsolationCount(m.hdr, Walk(m.hdr), s))
             image == [p \in Pages |-> IF p \in SectorPages(s) THEN Page("free") ELSE j.hdr[p]]
  <2>1. CollectSector(n, m.hdr, Walk(m.hdr), s) = Flash(j, image)
    BY <1>2 DEF CollectSector, COFFEE_ERASE
  <2>2. Lowered(m, next, s + 1)
    BY <1>2, LoweredBy DEF First
  <2> HIDE DEF next
  <2>3. Garbage(m, k, s) /\ k.next_free = next
    <3>1. /\ Rec(k) /\ k.hdr = n.hdr /\ k.files = n.files /\ k.fds = n.fds /\ k.gc_wait = n.gc_wait
          /\ k.intact = n.intact /\ k.ret = n.ret /\ k.seen = n.seen /\ k.next_free = next
      BY DEF Garbage, Rec, Fields
    <3> HIDE DEF k
    <3> QED BY <3>1 DEF Garbage
  <2> HIDE DEF k
  <2>4. /\ Garbage(m, j, s) /\ j.next_free = next
        /\ \A x \in Pages :
              First(s + 1) <= x /\ x < First(s + 1) + IsolationCount(m.hdr, Walk(m.hdr), s) =>
                  j.hdr[x] = Page("isolated")
    BY <1>2, <2>3, GarbageIsolated DEF First
  <2> HIDE DEF j
  <2>5. Sweep(m.hdr, image, s + 1)
    BY <1>2, <2>4, SweepErase DEF Garbage
  <2> HIDE DEF image
  <2>6. s + 1 \in 0..COFFEE_SECTOR_COUNT
    BY SectorInside, Constants
  <2> QED BY <2>1, <2>2, <2>4, <2>5, <2>6, GarbageWrite
<1> QED BY <1>1, <1>2

\* What collect_garbage does is a sweep of all sectors.
LEMMA GarbageCollected ==
    ASSUME NEW m, Rec(m), m.hdr \in Images, m.next_free \in Nat, TailsGo(m.hdr, Walk(m.hdr))
    PROVE  LET g == collect_garbage(m)
           IN  Garbage(m, g, COFFEE_SECTOR_COUNT) /\ Lowered(m, g.next_free, COFFEE_SECTOR_COUNT)
<1> DEFINE P == COFFEE_SECTOR_COUNT
           b == [m EXCEPT !.intact = @ /\ TailsGo(m.hdr, Walk(m.hdr))]
<1>1. PICK f : /\ f[0] = b
               /\ \A s \in 1..P : f[s] = CollectSector(f[s - 1], m.hdr, Walk(m.hdr), s - 1)
               /\ collect_garbage(m) = f[P]
  BY CollectedSteps
<1>2. Garbage(m, b, 0) /\ Lowered(m, b.next_free, 0)
  <2>1. /\ Rec(b) /\ b.hdr = m.hdr /\ b.files = m.files /\ b.fds = m.fds /\ b.gc_wait = m.gc_wait
        /\ b.intact = m.intact /\ b.ret = m.ret /\ b.seen = m.seen /\ b.next_free = m.next_free
    BY DEF Rec, Fields
  <2> HIDE DEF b
  <2>2. \A s \in Sectors : ~(s < 0)
    BY SectorInside
  <2> QED BY <2>1, <2>2, SweepNone DEF Garbage, Lowered
<1> HIDE DEF b
<1> DEFINE Right(n) == n <= P => Garbage(m, f[n], n) /\ Lowered(m, f[n].next_free, n)
           S == {n \in Nat : Right(n)}
<1>3. P \in Nat /\ Sectors = 0 .. (P - 1)
  BY Constants DEF Sectors
<1>4. 0 \in S
  BY <1>1, <1>2
<1>5. ASSUME NEW n \in Nat, n \in S PROVE n + 1 \in S
  <2> SUFFICES ASSUME n + 1 <= P PROVE Garbage(m, f[n + 1], n + 1) /\ Lowered(m, f[n + 1].next_free, n + 1)
    OBVIOUS
  <2>1. Garbage(m, f[n], n) /\ Lowered(m, f[n].next_free, n)
    BY <1>3, <1>5
  <2>2. n + 1 \in 1..P /\ (n + 1) - 1 = n /\ n \in Sectors
    BY <1>3
  <2>3. f[n + 1] = CollectSector(f[n], m.hdr, Walk(m.hdr), n)
    BY <1>1, <2>2
  <2> QED BY <2>1, <2>2, <2>3, GarbageSector
<1>6. Nat \subseteq S
  <2> HIDE DEF S
  <2> QED BY <1>4, <1>5, Induction
<1> QED BY <1>1, <1>3, <1>6

\* If a tail is erased whose header stays, nothing is said from then on.
LEMMA CollectedLater ==
    ASSUME NEW m, Rec(m), ~TailsGo(m.hdr, Walk(m.hdr))
    PROVE  LET g == collect_garbage(m)
           IN  /\ Rec(g) /\ ~g.intact
               /\ \A cut \in g.seen : cut \in m.seen \/ ~cut.intact
<1> DEFINE P == COFFEE_SECTOR_COUNT
           b == [m EXCEPT !.intact = @ /\ TailsGo(m.hdr, Walk(m.hdr))]
<1>1. PICK f : /\ f[0] = b
               /\ \A s \in 1..P : f[s] = CollectSector(f[s - 1], m.hdr, Walk(m.hdr), s - 1)
               /\ collect_garbage(m) = f[P]
  BY CollectedSteps
<1>2. Rec(b) /\ ~b.intact /\ b.seen = m.seen
  BY DEF Rec, Fields
<1> HIDE DEF b
<1> DEFINE S == {n \in Nat : n <= P => Later(b, f[n])}
<1>3. P \in Nat
  BY Constants
<1>4. 0 \in S
  BY <1>1, <1>2, LaterSame
<1>5. ASSUME NEW n \in Nat, n \in S PROVE n + 1 \in S
  <2> SUFFICES ASSUME n + 1 <= P PROVE Later(b, f[n + 1])
    OBVIOUS
  <2>1. Later(b, f[n]) /\ Rec(f[n])
    BY <1>3, <1>5 DEF Later
  <2>2. n + 1 \in 1..P /\ (n + 1) - 1 = n
    BY <1>3
  <2>3. f[n + 1] = CollectSector(f[n], m.hdr, Walk(m.hdr), n)
    BY <1>1, <2>2
  <2> QED BY <2>1, <2>3, LaterSector, LaterTwice
<1>6. Nat \subseteq S
  <2> HIDE DEF S
  <2> QED BY <1>4, <1>5, Induction
<1>7. Later(b, f[P])
  BY <1>3, <1>6
<1> QED BY <1>1, <1>2, <1>7 DEF Later

-----------------------------------------------------------------------------
(* The search for free pages *)

\* What m has answered is a page from which on the walk reads free headers only; if
\* next_free was there, it has moved behind what is taken.
Room(m, amount) ==
    \/ m.ret = INVALID_PAGE /\ Unhidden(m.hdr, m.next_free)
    \/ /\ m.ret \in Pages /\ Vacant(m.hdr, m.ret, amount)
       /\ \E old \in Nat : /\ Unhidden(m.hdr, old) /\ old <= m.ret
                           /\ m.next_free = IF m.ret = old THEN m.ret + amount ELSE old

\* A search from next_free goes the way of the walk.
LEMMA SearchWalk ==
    ASSUME NEW image \in Images, NEW next \in 0..COFFEE_PAGE_COUNT, Unhidden(image, next)
    PROVE  LET V == WalkFrom(image, next)
           IN  /\ V \subseteq Walk(image)
               /\ \A c \in V : c >= next
               /\ \A c \in Walk(image) : c >= next => c \in V
<1> DEFINE V == WalkFrom(image, next)
           W == Walk(image)
<1>1. next \in Nat /\ Pages \subseteq Nat /\ Pages = 0 .. (COFFEE_PAGE_COUNT - 1) /\ COFFEE_PAGE_COUNT \in Nat
  BY Constants
<1>2. IsWalk(image, next, V) /\ V \subseteq Pages
  BY <1>1, WalkFromIsWalk DEF IsWalk
<1>3. IsWalk(image, 0, W) /\ W \subseteq Pages
  BY WalkIsWalk DEF IsWalk
<1> HIDE DEF V, W
<1>4. CASE next = COFFEE_PAGE_COUNT
  <2>1. V = {}
    <3> SUFFICES ASSUME V # {} PROVE FALSE
      OBVIOUS
    <3>1. PICK c \in V : \A d \in V : c <= d
      BY <1>1, <1>2, LeastNat
    <3>2. c \in Nat /\ c < COFFEE_PAGE_COUNT
      BY <1>1, <1>2
    <3> QED BY <1>1, <1>2, <1>4, <3>1, <3>2 DEF IsWalk
  <2> QED BY <1>1, <1>3, <1>4, <2>1 DEF V, W
<1>5. CASE next < COFFEE_PAGE_COUNT
  <2>1. next \in W
    BY <1>5 DEF Unhidden, W
  <2>2. next \in V
    BY <1>2, <1>5 DEF IsWalk
  <2>3. \A c \in W : c >= next => c \in V
    BY <1>1, <1>2, <1>3, <2>1, <2>2, WalksMeet
  <2>4. \A c \in V : c >= next
    BY <1>2 DEF IsWalk
  <2>5. \A c \in V : c \in W
    BY <1>1, <1>2, <1>3, <2>1, <2>2, <2>4, WalksMeet
  <2> QED BY <2>3, <2>4, <2>5 DEF V, W
<1> QED BY <1>1, <1>4, <1>5

LEMMA SearchFinds ==
    ASSUME NEW m, Rec(m), m.hdr \in Images, m.next_free \in 0..COFFEE_PAGE_COUNT,
           Unhidden(m.hdr, m.next_free), NEW amount \in Nat, amount >= 1
    PROVE  LET n == find_contiguous_pages(m, amount)
           IN  /\ Rec(n) /\ n.hdr = m.hdr /\ n.files = m.files /\ n.fds = m.fds
               /\ n.gc_wait = m.gc_wait /\ n.intact = m.intact /\ n.seen = m.seen
               /\ n.next_free \in 0..COFFEE_PAGE_COUNT
               /\ Room(n, amount)
<1> DEFINE N      == COFFEE_PAGE_COUNT
           V      == WalkFrom(m.hdr, m.next_free)
           taken  == {p \in V : ~HDR_FREE(m.hdr[p])}
           end(p) == Min({q \in taken \union {N} : q > p})
           fits   == {p \in V \ taken : Enough(p, amount, end(p))}
           page   == IF fits = {} \/ Min(fits) + amount >= N THEN INVALID_PAGE ELSE Min(fits)
           n      == find_contiguous_pages(m, amount)
<1>0. N \in Nat /\ Pages = 0 .. (N - 1) /\ Pages \subseteq Nat /\ INVALID_PAGE = -1
  BY Constants
<1>1. n = Take(m, page, amount)
  BY DEF find_contiguous_pages
<1>2. /\ V \subseteq Walk(m.hdr) /\ V \subseteq Pages
      /\ \A c \in V : c >= m.next_free
      /\ \A c \in Walk(m.hdr) : c >= m.next_free => c \in V
  BY SearchWalk, WalkIsWalk DEF IsWalk
<1> HIDE DEF V
<1>3. page # INVALID_PAGE => page \in fits /\ page + amount < N
  <2> SUFFICES ASSUME page # INVALID_PAGE PROVE page \in fits /\ page + amount < N
    OBVIOUS
  <2>1. fits # {} /\ page = Min(fits) /\ ~(Min(fits) + amount >= N)
    OBVIOUS
  <2>2. fits \subseteq Nat
    BY <1>0, <1>2
  <2>3. page \in fits
    <3> HIDE DEF fits
    <3> QED BY <2>1, <2>2, MinFacts
  <2>4. page \in Nat
    BY <2>2, <2>3
  <2> QED BY <1>0, <2>1, <2>3, <2>4
<1> HIDE DEF page
<1>4. page = INVALID_PAGE \/ (page \in Nat /\ page + amount < N)
  BY <1>0, <1>2, <1>3
<1>5. /\ Rec(n) /\ n.hdr = m.hdr /\ n.files = m.files /\ n.fds = m.fds
      /\ n.gc_wait = m.gc_wait /\ n.intact = m.intact /\ n.seen = m.seen /\ n.ret = page
      /\ n.next_free = IF page = m.next_free THEN page + amount ELSE m.next_free
  <2> DEFINE k == [m EXCEPT !.next_free = IF page = @ THEN page + amount ELSE @]
  <2>1. /\ Rec(k) /\ k.hdr = m.hdr /\ k.files = m.files /\ k.fds = m.fds
        /\ k.gc_wait = m.gc_wait /\ k.intact = m.intact /\ k.seen = m.seen
        /\ k.next_free = IF page = m.next_free THEN page + amount ELSE m.next_free
    BY DEF Rec, Fields
  <2>2. n = Answer(k, page)
    BY <1>1 DEF Take
  <2> HIDE DEF k, n
  <2> QED BY <2>1, <2>2 DEF Rec, Fields, Answer
<1> HIDE DEF n
<1>6. n.next_free \in 0..N
  BY <1>0, <1>4, <1>5
<1>7. ASSUME page = INVALID_PAGE PROVE Room(n, amount)
  <2>1. n.next_free = m.next_free
    BY <1>0, <1>5, <1>7
  <2> QED BY <1>5, <1>7, <2>1 DEF Room
<1>8. ASSUME page # INVALID_PAGE PROVE Room(n, amount)
  <2>1. page \in V /\ page \notin taken /\ Enough(page, amount, end(page)) /\ page + amount < N
    BY <1>3, <1>8
  <2>2. page \in Pages /\ HDR_FREE(m.hdr[page]) /\ page \in Walk(m.hdr) /\ page >= m.next_free
    BY <1>2, <2>1
  <2>3. ASSUME NEW x \in Walk(m.hdr), page <= x, x < page + amount PROVE HDR_FREE(m.hdr[x])
    <3> SUFFICES ASSUME ~HDR_FREE(m.hdr[x]) PROVE FALSE
      OBVIOUS
    <3>1. x \in Pages /\ x \in Nat /\ page \in Nat /\ m.next_free \in Nat
      BY <1>0, <2>2, WalkIsWalk DEF IsWalk
    <3>2. x \in taken /\ x > page
      BY <1>2, <2>2, <2>3, <3>1
    <3> DEFINE later == {q \in taken \union {N} : q > page}
    <3>3. x \in later /\ later \subseteq Nat
      BY <1>0, <1>2, <3>2
    <3>4. Min(later) \in Nat /\ Min(later) <= x
      <4> HIDE DEF later
      <4> QED BY <3>3, MinFacts
    <3>5. page + amount <= Min(later)
      BY <2>1 DEF Enough
    <3> HIDE DEF later
    <3> QED BY <2>3, <3>1, <3>4, <3>5
  <2>4. Vacant(m.hdr, page, amount)
    BY <2>1, <2>2, <2>3 DEF Vacant
  <2> QED BY <1>0, <1>5, <2>2, <2>4 DEF Room
<1> QED BY <1>5, <1>6, <1>7, <1>8 DEF n

-----------------------------------------------------------------------------
(* Machine states in which everything agrees *)

FileT == [page : Pages \union {INVALID_PAGE}, max_pages : 0..COFFEE_PAGE_COUNT,
          modified : BOOLEAN, references : 0..COFFEE_FD_SET_SIZE]

Typed(m) ==
    /\ m.hdr \in Images
    /\ m.files \in [Slots -> FileT]
    /\ m.fds \in [FDs -> Slots \union {NULL}]
    /\ m.next_free \in 0..COFFEE_PAGE_COUNT
    /\ m.gc_wait \in BOOLEAN

\* The descriptors that refer to a slot.
Refs(m, s) == {fd \in FDs : m.fds[fd] = s}

\* What is known of the file in a slot, and of a slot without a file.
CachedFile(m, s) ==
    LET file == m.files[s]
    IN  /\ file.page \in Pages /\ HDR_ACTIVE(m.hdr[file.page])
        /\ file.max_pages = m.hdr[file.page].max_pages
        /\ file.modified = HDR_MODIFIED(m.hdr[file.page])
        /\ \A t \in Slots : m.files[t].page = file.page => s = t

Cached(m) ==
    \A s \in Slots : IF FILE_FREE(m.files[s]) THEN m.files[s].page = INVALID_PAGE
                     ELSE CachedFile(m, s)

\* gone: slots whose descriptors have been moved elsewhere and that are about to be
\* freed.
Counted(m, gone) ==
    \A s \in Slots : IF s \in gone THEN Refs(m, s) = {}
                     ELSE m.files[s].references = Cardinality(Refs(m, s))

\* Descriptors are on files, never on logs.
Connected(m) ==
    \A fd \in FDs : m.fds[fd] # NULL =>
        /\ ~FILE_FREE(m.files[m.fds[fd]])
        /\ m.hdr[m.files[m.fds[fd]].page].kind = "file"

Strong(m, gone) ==
    Typed(m) /\ Sound(m.hdr) /\ Cached(m) /\ Counted(m, gone) /\ Connected(m)

\* The walk finds every extent and every free page, the search for free pages starts
\* early enough, and it is only suppressed when garbage collection has nothing to do.
Space(m) ==
    /\ Laid(m.hdr) /\ HeadersOnly(m.hdr)
    /\ Unhidden(m.hdr, m.next_free)
    /\ m.gc_wait => Swept(m.hdr)

\* The flash a reset may leave.  If it comes between two erasures, the walk may get
\* into the data of an extent of which the header has been erased.
CutsOK(m) ==
    \A cut \in m.seen :
        cut.intact => /\ cut.hdr \in Images /\ Sound(cut.hdr)
                      /\ HeadersOnly(cut.hdr) => Laid(cut.hdr)

Good(m, gone) == Rec(m) /\ CutsOK(m) /\ (m.intact => Strong(m, gone) /\ Space(m))

\* A slot load_file can take.
SpareSlot(m) == \E s \in Slots : FILE_FREE(m.files[s]) \/ m.files[s].references = 0

\* A slot holds the file called name.
Holds(m, s, name) == ~FILE_FREE(m.files[s]) /\ IsNamed(m.hdr[m.files[s].page], name)

LEMMA CutsOff ==
    ASSUME NEW m, CutsOK(m), ~m.intact, NEW n, Later(m, n), NEW others
    PROVE  Good(n, others) /\ ~n.intact
BY DEF Good, Later, CutsOK

LEMMA GoodOff ==
    ASSUME NEW m, NEW gone, Good(m, gone), ~m.intact, NEW n, Later(m, n), NEW others
    PROVE  Good(n, others) /\ ~n.intact
BY CutsOff DEF Good

\* Space is a matter of these only.
LEMMA SpaceSame ==
    ASSUME NEW m, Space(m), NEW n, n.hdr = m.hdr, n.next_free = m.next_free, n.gc_wait = m.gc_wait
    PROVE  Space(n)
BY DEF Space

LEMMA StrongSame ==
    ASSUME NEW m, NEW gone, Strong(m, gone), NEW n, n.hdr = m.hdr, n.files = m.files, n.fds = m.fds,
           n.next_free = m.next_free, n.gc_wait = m.gc_wait
    PROVE  Strong(n, gone)
<1>1. Typed(n) /\ Sound(n.hdr)
  BY DEF Strong, Typed
<1>2. Cached(n)
  <2>1. Cached(m)
    BY DEF Strong
  <2>2. \A s \in Slots : CachedFile(m, s) => CachedFile(n, s)
    BY DEF CachedFile
  <2> QED BY <2>1, <2>2 DEF Cached
<1>3. Counted(n, gone)
  <2>1. \A s \in Slots : Refs(n, s) = Refs(m, s)
    BY DEF Refs
  <2> QED BY <2>1 DEF Strong, Counted
<1>4. Connected(n)
  BY DEF Strong, Connected
<1> QED BY <1>1, <1>2, <1>3, <1>4 DEF Strong

\* Where m and n differ in the answer only.
LEMMA GoodAnswer ==
    ASSUME NEW m, NEW gone, Good(m, gone), NEW r
    PROVE  LET n == Answer(m, r)
           IN  /\ Good(n, gone) /\ n.ret = r /\ n.hdr = m.hdr /\ n.files = m.files /\ n.fds = m.fds
               /\ n.intact = m.intact /\ n.gc_wait = m.gc_wait /\ n.next_free = m.next_free
               /\ n.seen = m.seen
<1> DEFINE n == Answer(m, r)
<1>1. /\ Rec(n) /\ n.ret = r /\ n.hdr = m.hdr /\ n.files = m.files /\ n.fds = m.fds
      /\ n.intact = m.intact /\ n.gc_wait = m.gc_wait /\ n.next_free = m.next_free
      /\ n.seen = m.seen
  BY DEF Good, Rec, Fields, Answer
<1> HIDE DEF n
<1>2. Strong(m, gone) => Strong(n, gone)
  BY <1>1, StrongSame
<1>3. Good(n, gone)
  BY <1>1, <1>2, SpaceSame DEF Good, CutsOK
<1> QED BY <1>1, <1>3 DEF n

LEMMA SlotFacts ==
    ASSUME NEW m, NEW gone, Strong(m, gone), NEW s \in Slots
    PROVE  /\ m.files[s] \in FileT
           /\ FILE_FREE(m.files[s]) => m.files[s].page = INVALID_PAGE /\ Refs(m, s) = {}
           /\ ~FILE_FREE(m.files[s]) => CachedFile(m, s)
           /\ Refs(m, s) \subseteq FDs
           /\ IsFiniteSet(Refs(m, s)) /\ Cardinality(Refs(m, s)) \in 0..COFFEE_FD_SET_SIZE
           /\ s # NULL
<1>1. m.files[s] \in FileT
  BY DEF Strong, Typed
<1>2. FILE_FREE(m.files[s]) => m.files[s].page = INVALID_PAGE /\ Refs(m, s) = {}
  BY Constants DEF Strong, Cached, Connected, Refs
<1>3. ~FILE_FREE(m.files[s]) => CachedFile(m, s)
  BY DEF Strong, Cached
<1>4. COFFEE_FD_SET_SIZE \in Nat /\ COFFEE_FD_SET_SIZE >= 1
  BY CoffeeAssumption
<1>5. IsFiniteSet(FDs) /\ Cardinality(FDs) = COFFEE_FD_SET_SIZE
  BY <1>4, FS_Interval DEF FDs
<1>6. Refs(m, s) \in SUBSET FDs
  BY DEF Refs
<1>7. IsFiniteSet(Refs(m, s)) /\ Cardinality(Refs(m, s)) <= COFFEE_FD_SET_SIZE
  BY <1>5, <1>6, FS_Subset
<1>8. Cardinality(Refs(m, s)) \in Nat
  BY <1>7, FS_CardinalityType
<1> QED BY <1>1, <1>2, <1>3, <1>4, <1>6, <1>7, <1>8, Constants

LEMMA FdFacts ==
    ASSUME NEW m, NEW gone, Strong(m, gone), NEW fd \in FDs, m.fds[fd] # NULL
    PROVE  /\ m.fds[fd] \in Slots /\ fd \in Refs(m, m.fds[fd]) /\ ~FILE_FREE(m.files[m.fds[fd]])
           /\ CachedFile(m, m.fds[fd]) /\ m.files[m.fds[fd]].page \in Pages
           /\ m.hdr[m.files[m.fds[fd]].page].kind = "file"
           /\ m.fds[fd] \notin gone
<1>1. m.fds[fd] \in Slots /\ fd \in Refs(m, m.fds[fd])
  BY DEF Strong, Typed, Refs
<1>2. ~FILE_FREE(m.files[m.fds[fd]]) /\ m.hdr[m.files[m.fds[fd]].page].kind = "file"
  BY DEF Strong, Connected
<1>3. m.fds[fd] \notin gone
  BY <1>1 DEF Strong, Counted
<1> QED BY <1>1, <1>2, <1>3, SlotFacts DEF CachedFile

\* Everything still agrees after pages that are not in use are written.
LEMMA CleanedStrong ==
    ASSUME NEW m, NEW gone, Strong(m, gone), NEW n, n.files = m.files, n.fds = m.fds,
           n.next_free \in 0..COFFEE_PAGE_COUNT, n.gc_wait \in BOOLEAN, Cleaned(m.hdr, n.hdr)
    PROVE  Strong(n, gone)
<1>0. m.hdr \in Images /\ Sound(m.hdr)
  BY DEF Strong, Typed
<1>1. Sound(n.hdr) /\ n.hdr \in Images
  BY <1>0, CleanedSound DEF Cleaned
<1>2. \A p \in Pages : HDR_ACTIVE(m.hdr[p]) => n.hdr[p] = m.hdr[p]
  BY <1>0, CleanedActive
<1>3. Typed(n) /\ Counted(n, gone)
  BY <1>1 DEF Strong, Typed, Counted, Refs
<1>4. Cached(n)
  <2> SUFFICES ASSUME NEW s \in Slots, ~FILE_FREE(n.files[s]) PROVE CachedFile(n, s)
    BY DEF Strong, Cached
  <2>1. CachedFile(m, s)
    BY SlotFacts
  <2> QED BY <1>2, <2>1 DEF CachedFile
<1>5. Connected(n)
  <2> SUFFICES ASSUME NEW fd \in FDs, n.fds[fd] # NULL
               PROVE  ~FILE_FREE(n.files[n.fds[fd]]) /\ n.hdr[n.files[n.fds[fd]].page].kind = "file"
    BY DEF Connected
  <2>1. ~FILE_FREE(m.files[m.fds[fd]]) /\ m.hdr[m.files[m.fds[fd]].page].kind = "file"
        /\ m.files[m.fds[fd]].page \in Pages
    <3>1. m.fds[fd] # NULL
      BY <1>1
    <3> QED BY <3>1, FdFacts
  <2> QED BY <1>2, <2>1 DEF HDR_ACTIVE
<1> QED BY <1>1, <1>3, <1>4, <1>5 DEF Strong

\* What reservations and searches leave alone.
Kept(m, n) ==
    /\ \A p \in Pages : HDR_ACTIVE(m.hdr[p]) => n.hdr[p] = m.hdr[p]
    /\ \A fd \in FDs : m.fds[fd] # NULL =>
           n.fds[fd] = m.fds[fd] /\ n.files[m.fds[fd]].page = m.files[m.fds[fd]].page

LEMMA KeptTwice == ASSUME NEW m, NEW n, NEW k, Kept(m, n), Kept(n, k) PROVE Kept(m, k)
BY DEF Kept, HDR_ACTIVE

LEMMA GoodCollected ==
    ASSUME NEW m, Good(m, {})
    PROVE  LET g == collect_garbage(m)
           IN  Good(g, {}) /\ (g.intact => m.intact /\ Kept(m, g) /\ g.fds = m.fds /\ g.files = m.files
                                          /\ Swept(g.hdr)
                                          /\ \A p \in Pages : HDR_ACTIVE(g.hdr[p]) => g.hdr[p] = m.hdr[p])
<1> DEFINE g == collect_garbage(m)
<1>0. Rec(m)
  BY DEF Good
<1>1. CASE ~m.intact
  BY <1>0, <1>1, GoodOff, LaterCollected
<1>2. CASE m.intact /\ ~TailsGo(m.hdr, Walk(m.hdr))
  <2>1. Rec(g) /\ ~g.intact /\ \A cut \in g.seen : cut \in m.seen \/ ~cut.intact
    BY <1>0, <1>2, CollectedLater
  <2> HIDE DEF g
  <2>2. Good(g, {})
    BY <2>1 DEF Good, CutsOK
  <2> QED BY <2>1, <2>2 DEF g
<1>3. CASE m.intact /\ TailsGo(m.hdr, Walk(m.hdr))
  <2> DEFINE N == COFFEE_SECTOR_COUNT
  <2>0. /\ Strong(m, {}) /\ m.hdr \in Images /\ m.next_free \in 0..COFFEE_PAGE_COUNT
        /\ Sound(m.hdr) /\ m.gc_wait \in BOOLEAN
        /\ N \in Nat /\ COFFEE_PAGE_COUNT \in Nat /\ m.next_free \in Nat
    BY <1>3, Constants DEF Good, Strong, Typed
  <2>1. /\ Laid(m.hdr) /\ AllFound(m.hdr) /\ HeadersOnly(m.hdr) /\ Unhidden(m.hdr, m.next_free)
    BY <1>3 DEF Good, Space, Laid
  <2>2. Garbage(m, g, N) /\ Lowered(m, g.next_free, N)
    BY <1>0, <1>3, <2>0, GarbageCollected
  <2> HIDE DEF g
  <2>3. /\ Sweep(m.hdr, g.hdr, N) /\ g.files = m.files /\ g.fds = m.fds /\ g.gc_wait = m.gc_wait
        /\ g.intact = m.intact /\ Rec(g)
    BY <2>2 DEF Garbage
  <2>4. Cleaned(m.hdr, g.hdr)
    BY <2>0, <2>1, <2>3, SweepCleaned
  <2>5. g.next_free \in Nat /\ g.next_free <= m.next_free /\ g.next_free \in 0..COFFEE_PAGE_COUNT
    BY <2>0, <2>2 DEF Lowered
  <2>6. Strong(g, {})
    BY <2>0, <2>3, <2>4, <2>5, CleanedStrong
  <2>7. Laid(g.hdr) /\ HeadersOnly(g.hdr) /\ Swept(g.hdr)
    BY <1>3, <2>0, <2>1, <2>3, SweepLaid, SweepHeaders, SweepSwept
  <2>8. Unhidden(g.hdr, g.next_free)
    <3>1. \A s \in Sectors : s < N
      BY SectorInside
    <3>2. /\ \A s \in Sectors : Erasable(m.hdr, Walk(m.hdr), s) => g.next_free <= First(s)
          /\ \/ g.next_free = m.next_free
             \/ \E s \in Sectors : Erasable(m.hdr, Walk(m.hdr), s) /\ g.next_free = First(s)
      BY <2>2, <3>1 DEF Lowered
    <3> QED BY <1>3, <2>0, <2>1, <2>3, <2>5, <3>2, SweepUnhidden
  <2>9. CutsOK(g)
    <3> SUFFICES ASSUME NEW cut \in g.seen, cut.intact
                 PROVE  cut.hdr \in Images /\ Sound(cut.hdr) /\ (HeadersOnly(cut.hdr) => Laid(cut.hdr))
      BY DEF CutsOK
    <3>1. CASE cut \in m.seen
      BY <3>1 DEF Good, CutsOK
    <3>2. CASE cut \notin m.seen
      <4>1. PICK l \in 0..N : Sweep(m.hdr, cut.hdr, l)
        BY <2>2, <3>2 DEF Garbage
      <4>2. Cleaned(m.hdr, cut.hdr) /\ l \in Nat
        BY <2>0, <2>1, <4>1, SweepCleaned
      <4>3. cut.hdr \in Images /\ Sound(cut.hdr)
        BY <2>0, <4>2, CleanedSound DEF Cleaned
      <4>4. HeadersOnly(cut.hdr) => Laid(cut.hdr)
        BY <1>3, <2>0, <2>1, <4>1, <4>2, SweepLaid
      <4> QED BY <4>3, <4>4
    <3> QED BY <3>1, <3>2
  <2>10. Good(g, {})
    BY <2>3, <2>6, <2>7, <2>8, <2>9 DEF Good, Space
  <2>11. \A p \in Pages : HDR_ACTIVE(m.hdr[p]) => g.hdr[p] = m.hdr[p]
    BY <2>0, <2>4, CleanedActive
  <2>12. \A p \in Pages : HDR_ACTIVE(g.hdr[p]) => g.hdr[p] = m.hdr[p]
    BY <2>0, <2>4, CleanedActive
  <2> QED BY <1>3, <2>3, <2>7, <2>10, <2>11, <2>12 DEF Kept, g
<1> QED BY <1>1, <1>2, <1>3

-----------------------------------------------------------------------------
(* The cache, and reservations *)

\* load_file is right for an extent in use that no slot holds.
LEMMA GoodLoad ==
    ASSUME NEW m, Good(m, {}), m.intact, NEW page \in Pages, HDR_ACTIVE(m.hdr[page]),
           \A s \in Slots : m.files[s].page # page
    PROVE  LET n == load_file(m, page)
           IN  /\ Good(n, {}) /\ n.intact /\ n.hdr = m.hdr /\ n.fds = m.fds /\ Kept(m, n)
               /\ n.ret = NULL \/ (n.ret \in Slots /\ n.files[n.ret].page = page)
               /\ SpareSlot(m) => n.ret # NULL
               /\ \A s \in Slots : s # n.ret => n.files[s] = m.files[s]
<1> DEFINE free == {s \in Slots : FILE_FREE(m.files[s])}
           idle == {s \in Slots : m.files[s].references = 0}
           slot == IF free # {} THEN Min(free) ELSE Max(idle)
           h    == m.hdr[page]
           file == [page |-> page, max_pages |-> h.max_pages, modified |-> HDR_MODIFIED(h),
                    references |-> m.files[slot].references]
           k    == [m EXCEPT !.files[slot] = file]
<1>0. Rec(m) /\ Strong(m, {})
  BY DEF Good
<1>1. CASE free \union idle = {}
  <2>1. load_file(m, page) = Answer(m, NULL)
    BY <1>1 DEF load_file
  <2> DEFINE n == Answer(m, NULL)
  <2>2. Good(n, {}) /\ n.ret = NULL /\ n.hdr = m.hdr /\ n.files = m.files /\ n.fds = m.fds /\ n.intact
    BY GoodAnswer
  <2> HIDE DEF n
  <2>3. Kept(m, n)
    BY <2>2 DEF Kept
  <2>4. ~SpareSlot(m)
    BY <1>1 DEF SpareSlot
  <2> QED BY <2>1, <2>2, <2>3, <2>4 DEF n
<1>2. CASE free \union idle # {}
  <2>1. slot \in free \/ slot \in idle
    <3>1. CASE free # {}
      <4>1. free \subseteq Nat
        BY Constants
      <4> HIDE DEF free
      <4> QED BY <3>1, <4>1, MinFacts
    <3>2. CASE free = {}
      <4>1. idle \subseteq Nat /\ idle # {} /\ COFFEE_MAX_OPEN_FILES \in Nat
            /\ \A s \in idle : s <= COFFEE_MAX_OPEN_FILES
        BY <1>2, <3>2, CoffeeAssumption DEF Slots
      <4> HIDE DEF idle
      <4>2. Max(idle) \in idle
        BY <4>1, MaxFacts
      <4> QED BY <3>2, <4>2
    <3> QED BY <3>1, <3>2
  <2>2. slot \in Slots
    BY <2>1
  <2>3. Refs(m, slot) = {}
    <3>1. slot \in free => Refs(m, slot) = {}
      BY <1>0, <2>2, SlotFacts
    <3>2. slot \in idle => Cardinality(Refs(m, slot)) = 0
      BY <1>0, <2>2 DEF Strong, Counted
    <3>3. slot \in idle => Refs(m, slot) = {}
      BY <1>0, <2>2, <3>2, SlotFacts, FS_EmptySet
    <3> QED BY <2>1, <3>1, <3>3
  <2>4. load_file(m, page) = Answer(k, slot)
    BY <1>2 DEF load_file
  <2> HIDE DEF slot, idle, free
  <2>5. h \in HeaderT /\ h.max_pages \in 1..COFFEE_PAGE_COUNT /\ HDR_MODIFIED(h) \in BOOLEAN
        /\ m.hdr \in Images /\ m.files \in [Slots -> FileT]
    BY <1>0 DEF Strong, Typed, Images, HeaderT, HDR_MODIFIED
  <2>6. m.files[slot] \in FileT
    BY <2>2, <2>5
  <2>7. /\ file \in FileT /\ file.page = page /\ file.max_pages = h.max_pages
        /\ file.modified = HDR_MODIFIED(h) /\ file.references = m.files[slot].references
        /\ ~FILE_FREE(file)
    <3> HIDE DEF h
    <3> QED BY <2>5, <2>6, Constants DEF FileT, FILE_FREE
  <2> HIDE DEF file
  <2>8. /\ Rec(k) /\ k.hdr = m.hdr /\ k.fds = m.fds /\ k.intact = m.intact /\ k.seen = m.seen
        /\ k.next_free = m.next_free /\ k.gc_wait = m.gc_wait
        /\ k.files = [m.files EXCEPT ![slot] = file]
    BY <1>0 DEF Rec, Fields
  <2> HIDE DEF k
  <2>9. k.files \in [Slots -> FileT] /\ k.files[slot] = file
        /\ \A s \in Slots : s # slot => k.files[s] = m.files[s]
    BY <2>2, <2>5, <2>7, <2>8
  <2>10. Cached(k)
    <3> SUFFICES ASSUME NEW s \in Slots
                 PROVE  IF FILE_FREE(k.files[s]) THEN k.files[s].page = INVALID_PAGE ELSE CachedFile(k, s)
      BY DEF Cached
    <3>1. CASE s = slot
      BY <2>7, <2>8, <2>9, <3>1 DEF CachedFile
    <3>2. CASE s # slot
      <4>1. k.files[s] = m.files[s]
        BY <2>9, <3>2
      <4>2. FILE_FREE(m.files[s]) => m.files[s].page = INVALID_PAGE
        BY <1>0, SlotFacts
      <4>3. ~FILE_FREE(m.files[s]) => CachedFile(m, s)
        BY <1>0, SlotFacts
      <4> QED BY <2>2, <2>7, <2>8, <2>9, <4>1, <4>2, <4>3 DEF CachedFile
    <3> QED BY <3>1, <3>2
  <2>11. Counted(k, {})
    <3> SUFFICES ASSUME NEW s \in Slots PROVE k.files[s].references = Cardinality(Refs(k, s))
      BY DEF Counted
    <3>1. Refs(k, s) = Refs(m, s)
      BY <2>8 DEF Refs
    <3>2. m.files[s].references = Cardinality(Refs(m, s))
      BY <1>0 DEF Strong, Counted
    <3> QED BY <2>7, <2>9, <3>1, <3>2
  <2>12. ASSUME NEW fd \in FDs, m.fds[fd] # NULL PROVE k.files[m.fds[fd]] = m.files[m.fds[fd]]
    <3>1. m.fds[fd] \in Slots /\ m.fds[fd] # slot
      BY <1>0, <2>3, <2>12, FdFacts
    <3> QED BY <2>9, <3>1
  <2>13. Connected(k)
    BY <1>0, <2>8, <2>12, SMTT(30) DEF Strong, Connected
  <2>14. Good(k, {})
    <3>1. Strong(k, {})
      BY <1>0, <2>8, <2>9, <2>10, <2>11, <2>13 DEF Strong, Typed
    <3> QED BY <2>8, <3>1, SpaceSame DEF Good, CutsOK
  <2>15. Kept(m, k)
    BY <2>8, <2>12 DEF Kept
  <2> DEFINE n == Answer(k, slot)
  <2>16. Good(n, {}) /\ n.ret = slot /\ n.hdr = k.hdr /\ n.files = k.files /\ n.fds = k.fds
         /\ n.intact = k.intact
    BY <2>14, GoodAnswer
  <2> HIDE DEF n
  <2>17. Kept(m, n)
    BY <2>15, <2>16 DEF Kept
  <2>18. n.files[n.ret].page = page /\ \A s \in Slots : s # n.ret => n.files[s] = m.files[s]
    BY <2>7, <2>9, <2>16
  <2>19. n.ret # NULL
    BY <2>2, <2>16, Constants
  <2> QED BY <2>2, <2>4, <2>8, <2>16, <2>17, <2>18, <2>19 DEF n
<1> QED BY <1>1, <1>2

LEMMA NamedFile ==
    ASSUME NEW h, NEW name, IsNamed(h, name)
    PROVE  HDR_ACTIVE(h) /\ h.kind = "file" /\ h.name = name
BY DEF IsNamed, HDR_ACTIVE

LEMMA GoodFind ==
    ASSUME NEW m, Good(m, {}), m.intact, NEW name
    PROVE  LET n == find_file(m, name)
           IN  /\ Good(n, {}) /\ n.intact /\ n.hdr = m.hdr /\ n.fds = m.fds /\ Kept(m, n)
               /\ n.ret = NULL \/ (/\ n.ret \in Slots /\ n.files[n.ret].page \in Pages
                                   /\ IsNamed(n.hdr[n.files[n.ret].page], name))
               /\ n.ret = NULL /\ SpareSlot(m) =>
                      SpareSlot(n) /\ \A p \in Pages : ~IsNamed(m.hdr[p], name)
               /\ (\E s \in Slots : Holds(m, s, name)) => n.files = m.files /\ n.ret # NULL
               /\ \A s \in Slots : s # n.ret => n.files[s] = m.files[s]
<1> DEFINE cached == {s \in Slots : /\ ~FILE_FREE(m.files[s])
                                    /\ IsNamed(m.hdr[m.files[s].page], name)}
           named  == {p \in Walk(m.hdr) : IsNamed(m.hdr[p], name)}
           n == find_file(m, name)
<1>0. Rec(m) /\ Strong(m, {}) /\ m.hdr \in Images
  BY DEF Good, Strong, Typed
<1>1. ASSUME NEW r, n = Answer(m, r) PROVE Good(n, {}) /\ n.intact /\ n.hdr = m.hdr /\ n.fds = m.fds
                                           /\ n.files = m.files /\ Kept(m, n) /\ n.ret = r
  BY <1>1, GoodAnswer DEF Kept
<1>2. CASE cached # {}
  <2>1. n = Answer(m, Min(cached))
    BY <1>2 DEF find_file
  <2>2. cached \subseteq Nat
    BY Constants
  <2>3. Min(cached) \in cached
    <3> HIDE DEF cached
    <3> QED BY <1>2, <2>2, MinFacts
  <2>4. m.files[Min(cached)].page \in Pages
    <3> DEFINE s == Min(cached)
    <3>1. s \in Slots /\ ~FILE_FREE(m.files[s])
      BY <2>3, Zenon
    <3> HIDE DEF s
    <3>2. m.files[s].page \in Pages
      BY <1>0, <3>1, SlotFacts DEF CachedFile
    <3> QED BY <3>2 DEF s
  <2>5. Min(cached) # NULL
    BY <2>3, Constants, Zenon
  <2> HIDE DEF n
  <2> QED BY <1>1, <2>1, <2>3, <2>4, <2>5, Zenon DEF n
<1>3. CASE cached = {} /\ named # {}
  <2>1. n = load_file(m, Min(named))
    BY <1>3 DEF find_file
  <2>2. named \subseteq Nat /\ Walk(m.hdr) \subseteq Pages
    BY <1>0, Constants, WalkIsWalk
  <2>3. Min(named) \in named
    <3> HIDE DEF named
    <3> QED BY <1>3, <2>2, MinFacts
  <2>4. PICK page : page = Min(named)
    OBVIOUS
  <2>5. page \in Pages /\ IsNamed(m.hdr[page], name)
    BY <2>2, <2>3, <2>4
  <2>6. ASSUME NEW s \in Slots PROVE m.files[s].page # page
    <3>1. CASE FILE_FREE(m.files[s])
      BY <1>0, <2>5, <3>1, SlotFacts, Constants
    <3>2. CASE ~FILE_FREE(m.files[s])
      BY <1>3, <2>5, <3>2
    <3> QED BY <3>1, <3>2
  <2>7. HDR_ACTIVE(m.hdr[page])
    BY <2>5, NamedFile
  <2>10. \A s \in Slots : ~Holds(m, s, name)
    BY <1>3 DEF Holds
  <2> HIDE DEF named, cached, n
  <2>8. n = load_file(m, page)
    BY <2>1, <2>4
  <2>9. /\ Good(n, {}) /\ n.intact /\ n.hdr = m.hdr /\ n.fds = m.fds /\ Kept(m, n)
        /\ n.ret = NULL \/ (n.ret \in Slots /\ n.files[n.ret].page = page)
        /\ SpareSlot(m) => n.ret # NULL
        /\ \A s \in Slots : s # n.ret => n.files[s] = m.files[s]
    BY <2>5, <2>6, <2>7, <2>8, GoodLoad
  <2> QED BY <2>5, <2>9, <2>10 DEF n
<1>4. CASE cached = {} /\ named = {}
  <2>1. n = Answer(m, NULL)
    BY <1>4 DEF find_file
  <2>2. \A p \in Pages : ~IsNamed(m.hdr[p], name)
    BY <1>4, NamedFile DEF Good, Space, Laid, AllFound
  <2>3. \A s \in Slots : ~Holds(m, s, name)
    BY <1>4 DEF Holds
  <2> HIDE DEF n
  <2> QED BY <1>1, <2>1, <2>2, <2>3 DEF n, SpareSlot
<1> QED BY <1>2, <1>3, <1>4

\* The headers reserve is asked to write.
Asked == [kind : {"file", "log"}, name : Names \union {NULL}, max_pages : Nat \ {0},
          log_page : {INVALID_PAGE}, whole : BOOLEAN]

LEMMA AskedFits ==
    ASSUME NEW h \in Asked, h.max_pages <= COFFEE_PAGE_COUNT
    PROVE  h \in HeaderT /\ HDR_ACTIVE(h)
BY Constants DEF Asked, HeaderT, HDR_ACTIVE

\* What is true when a search has ended: next_free may be ahead of what it has found.
Searched(m, amount) ==
    /\ Rec(m) /\ CutsOK(m)
    /\ m.intact => /\ Strong(m, {}) /\ Laid(m.hdr) /\ HeadersOnly(m.hdr) /\ Room(m, amount)
                   /\ m.gc_wait => Swept(m.hdr)

LEMMA SearchedNone ==
    ASSUME NEW m, NEW amount \in Nat, Searched(m, amount), m.ret = INVALID_PAGE
    PROVE  Good(m, {})
<1>1. INVALID_PAGE \notin Pages
  BY Constants
<1> QED BY <1>1 DEF Searched, Room, Good, Space

\* A search, the second one included, leaves all as it was but for garbage collection.
LEMMA GoodSearch ==
    ASSUME NEW m, Good(m, {}), m.intact, NEW amount \in Nat, amount >= 1
    PROVE  LET n == find_contiguous_pages(m, amount)
           IN  /\ Searched(n, amount) /\ n.intact /\ Kept(m, n) /\ n.fds = m.fds /\ n.hdr = m.hdr
               /\ n.files = m.files
               /\ \A p \in Pages : HDR_ACTIVE(n.hdr[p]) => n.hdr[p] = m.hdr[p]
<1> DEFINE n == find_contiguous_pages(m, amount)
<1>0. /\ Rec(m) /\ Strong(m, {}) /\ m.hdr \in Images /\ m.next_free \in 0..COFFEE_PAGE_COUNT
      /\ m.gc_wait \in BOOLEAN
      /\ Laid(m.hdr) /\ HeadersOnly(m.hdr) /\ Unhidden(m.hdr, m.next_free)
      /\ m.gc_wait => Swept(m.hdr)
  BY DEF Good, Strong, Typed, Space
<1>1. /\ Rec(n) /\ n.hdr = m.hdr /\ n.files = m.files /\ n.fds = m.fds
      /\ n.gc_wait = m.gc_wait /\ n.intact = m.intact /\ n.seen = m.seen
      /\ n.next_free \in 0..COFFEE_PAGE_COUNT /\ Room(n, amount)
  BY <1>0, SearchFinds
<1> HIDE DEF n
<1>2. Strong(n, {})
  BY <1>0, <1>1, CleanedSame, CleanedStrong
<1>3. Searched(n, amount) /\ Kept(m, n)
  BY <1>0, <1>1, <1>2 DEF Good, Searched, CutsOK, Kept
<1> QED BY <1>1, <1>3 DEF n

LEMMA GoodAgain ==
    ASSUME NEW m, m.intact, NEW amount \in Nat, amount >= 1, Searched(m, amount)
    PROVE  LET n == SearchAgain(m, amount)
           IN  /\ Searched(n, amount)
               /\ n.intact => /\ Kept(m, n) /\ n.fds = m.fds /\ n.files = m.files
                              /\ n.ret = INVALID_PAGE => Swept(n.hdr)
                              /\ \A p \in Pages : HDR_ACTIVE(n.hdr[p]) => n.hdr[p] = m.hdr[p]
<1> DEFINE g == collect_garbage(m)
           n == find_contiguous_pages(g, amount)
<1>1. CASE m.ret # INVALID_PAGE \/ m.gc_wait
  <2>1. SearchAgain(m, amount) = m
    BY <1>1 DEF SearchAgain
  <2>2. m.ret = INVALID_PAGE => Swept(m.hdr)
    BY <1>1 DEF Searched
  <2> QED BY <2>1, <2>2 DEF Kept
<1>2. CASE ~(m.ret # INVALID_PAGE \/ m.gc_wait)
  <2>1. SearchAgain(m, amount) = n
    BY <1>2 DEF SearchAgain
  <2>2. Good(g, {}) /\ (g.intact => Kept(m, g) /\ g.fds = m.fds /\ g.files = m.files /\ Swept(g.hdr)
                                   /\ \A p \in Pages : HDR_ACTIVE(g.hdr[p]) => g.hdr[p] = m.hdr[p])
    BY <1>2, SearchedNone, GoodCollected
  <2> HIDE DEF g
  <2>3. CASE ~g.intact
    <3>1. Later(g, n)
      BY <2>2, LaterSearch DEF Good
    <3> HIDE DEF n
    <3>2. Good(n, {}) /\ ~n.intact
      BY <2>2, <2>3, <3>1, GoodOff
    <3>3. Searched(n, amount)
      BY <3>2 DEF Good, Searched
    <3> QED BY <2>1, <3>2, <3>3 DEF Kept
  <2>4. CASE g.intact
    <3>1. /\ Searched(n, amount) /\ n.intact /\ Kept(g, n) /\ n.fds = g.fds /\ n.hdr = g.hdr
          /\ n.files = g.files
          /\ \A p \in Pages : HDR_ACTIVE(n.hdr[p]) => n.hdr[p] = g.hdr[p]
      BY <2>2, <2>4, GoodSearch
    <3> HIDE DEF n
    <3>2. Kept(m, n) /\ \A p \in Pages : HDR_ACTIVE(n.hdr[p]) => n.hdr[p] = m.hdr[p]
      BY <2>2, <2>4, <3>1, KeptTwice
    <3> QED BY <2>1, <2>2, <2>4, <3>1, <3>2
  <2>5. g.intact \in BOOLEAN
    BY <2>2 DEF Good, Rec
  <2> QED BY <2>3, <2>4, <2>5
<1> QED BY <1>1, <1>2

\* The header of a new extent is written, and the pages behind it are its data.
LEMMA GoodExtent ==
    ASSUME NEW m, m.intact, NEW h \in Asked, Searched(m, h.max_pages), m.ret # INVALID_PAGE
    PROVE  LET n == NewExtent(m, h, m.ret)
           IN  /\ Good(n, {}) /\ n.intact /\ Kept(m, n) /\ n.fds = m.fds /\ n.files = m.files
               /\ m.ret \in Pages /\ ~HDR_ACTIVE(m.hdr[m.ret]) /\ n.hdr[m.ret] = h
               /\ HDR_ACTIVE(h)
               /\ \A p \in Pages \ {m.ret} : HDR_ACTIVE(n.hdr[p]) => n.hdr[p] = m.hdr[p]
<1> DEFINE at == m.ret
           end == at + h.max_pages
           image == [p \in Pages |-> CASE p = at -> h
                                       [] at < p /\ p < at + h.max_pages -> Page("data")
                                       [] OTHER -> m.hdr[p]]
           n == NewExtent(m, h, at)
<1>0. /\ Rec(m) /\ Strong(m, {}) /\ m.hdr \in Images /\ Sound(m.hdr) /\ CutsOK(m)
      /\ Laid(m.hdr) /\ HeadersOnly(m.hdr) /\ FreeTail(m.hdr)
      /\ m.gc_wait => Swept(m.hdr)
  BY DEF Searched, Strong, Typed, Laid
<1>1. n = Flash(m, image)
  BY DEF NewExtent
<1>2. /\ Rec(n) /\ n.hdr = image /\ n.files = m.files /\ n.fds = m.fds /\ n.next_free = m.next_free
      /\ n.gc_wait = m.gc_wait /\ n.intact = m.intact /\ n.ret = m.ret
      /\ n.seen = m.seen \union {[hdr |-> image, intact |-> m.intact]}
  <2> HIDE DEF n, image
  <2> QED BY <1>0, <1>1, FlashFields
<1>3. image = Placed(m.hdr, h, at)
  BY DEF Placed
<1>4. Room(m, h.max_pages)
  BY DEF Searched
<1>5. Vacant(m.hdr, at, h.max_pages) /\ at \in Pages
  BY <1>4 DEF Room
<1> QED
  <2>2. at \in Nat /\ h.max_pages \in Nat /\ h.max_pages >= 1 /\ COFFEE_PAGE_COUNT \in Nat
        /\ Pages \subseteq Nat
    BY <1>5, Constants DEF Asked
  <2>1. /\ at \in Pages /\ HDR_FREE(m.hdr[at]) /\ end < COFFEE_PAGE_COUNT
        /\ \A x \in Pages : at <= x /\ x < end => ~InUse(m.hdr, x)
    BY <1>0, <1>5, <2>2, VacantUnused DEF Vacant
  <2>3. h \in HeaderT /\ HDR_ACTIVE(h)
    BY <2>1, <2>2, AskedFits
  <2>4. /\ image \in [Pages -> HeaderT] /\ image[at] = h
        /\ \A p \in Pages : at < p /\ p < end => image[p] = Page("data")
        /\ \A p \in Pages : ~(at <= p /\ p < end) => image[p] = m.hdr[p]
    <3>1. \A p \in Pages : image[p] = CASE p = at -> h
                                       [] at < p /\ p < at + h.max_pages -> Page("data")
                                       [] OTHER -> m.hdr[p]
      OBVIOUS
    <3>2. image = [p \in Pages |-> image[p]]
      OBVIOUS
    <3> HIDE DEF image
    <3>3. image[at] = h
      <4>1. ~(at < at)
        BY <2>2
      <4> QED BY <2>1, <3>1, <4>1
    <3>4. ASSUME NEW p \in Pages, at < p /\ p < end PROVE image[p] = Page("data")
      <4>1. p # at
        BY <2>2, <3>4
      <4> QED BY <3>1, <3>4, <4>1
    <3>5. ASSUME NEW p \in Pages, ~(at <= p /\ p < end) PROVE image[p] = m.hdr[p]
      <4>1. p # at /\ ~(at < p /\ p < at + h.max_pages)
        BY <2>2, <3>5
      <4> QED BY <3>1, <4>1
    <3>6. ASSUME NEW p \in Pages PROVE image[p] \in HeaderT
      <4>1. CASE p = at
        BY <2>3, <3>3, <4>1
      <4>2. CASE p # at /\ at <= p /\ p < end
        <5>1. at < p
          BY <2>2, <4>2
        <5> QED BY <3>4, <4>2, <5>1, PageType
      <4>3. CASE ~(at <= p /\ p < end)
        BY <1>0, <3>5, <4>3 DEF Images
      <4> QED BY <4>1, <4>2, <4>3
    <3> QED BY <3>2, <3>3, <3>4, <3>5, <3>6
  <2> HIDE DEF image
  <2>5. \A p \in Pages : HDR_ACTIVE(m.hdr[p]) => image[p] = m.hdr[p] /\ p # at
    BY <1>0, <2>1, <2>4, ActiveInUse DEF HDR_ACTIVE, HDR_FREE
  <2>6. \A p \in Pages \ {at} : HDR_ACTIVE(image[p]) => image[p] = m.hdr[p]
    <3> SUFFICES ASSUME NEW p \in Pages, p # at, HDR_ACTIVE(image[p]) PROVE image[p] = m.hdr[p]
      OBVIOUS
    <3>1. ~(at < p /\ p < end)
      BY <2>4, PageType
    <3>2. ~(at <= p /\ p < end)
      BY <2>2, <3>1
    <3> QED BY <2>4, <3>2
  <2>7. Sound(image)
    <3> SUFFICES ASSUME NEW p \in Pages, HDR_ACTIVE(image[p])
                 PROVE  /\ p + image[p].max_pages <= COFFEE_PAGE_COUNT
                        /\ \A x \in Pages : p < x /\ x < p + image[p].max_pages => image[x].kind = "data"
      BY DEF Sound
    <3>1. CASE p = at
      BY <2>1, <2>2, <2>4, <3>1, PageType
    <3>2. CASE p # at
      <4>1. image[p] = m.hdr[p] /\ HDR_ACTIVE(m.hdr[p])
        BY <2>6, <3>2
      <4>2. p + image[p].max_pages <= COFFEE_PAGE_COUNT
        BY <1>0, <4>1 DEF Sound
      <4>3. ASSUME NEW x \in Pages, p < x, x < p + image[p].max_pages PROVE image[x].kind = "data"
        <5>1. m.hdr[x].kind = "data"
          BY <1>0, <4>1, <4>3 DEF Sound
        <5>2. p <= x
          BY <2>2, <4>3
        <5>3. InUse(m.hdr, x)
          BY <4>1, <4>3, <5>2 DEF InUse
        <5>4. ~(at <= x /\ x < end)
          BY <2>1, <5>3
        <5> QED BY <2>4, <5>1, <5>4
      <4> QED BY <4>2, <4>3
    <3> QED BY <3>1, <3>2
  <2> HIDE DEF n
  <2>8. Typed(n) /\ Counted(n, {})
    BY <1>0, <1>2, <2>4 DEF Strong, Typed, Images, Counted, Refs
  <2>9. Cached(n)
    <3> SUFFICES ASSUME NEW s \in Slots, ~FILE_FREE(n.files[s]) PROVE CachedFile(n, s)
      BY <1>0, <1>2 DEF Strong, Cached
    <3>1. CachedFile(m, s)
      BY <1>0, <1>2, SlotFacts
    <3> QED BY <1>2, <2>5, <3>1 DEF CachedFile
  <2>10. Connected(n)
    <3> SUFFICES ASSUME NEW fd \in FDs, n.fds[fd] # NULL
                 PROVE  ~FILE_FREE(n.files[n.fds[fd]]) /\ n.hdr[n.files[n.fds[fd]].page].kind = "file"
      BY DEF Connected
    <3>1. ~FILE_FREE(m.files[m.fds[fd]]) /\ m.hdr[m.files[m.fds[fd]].page].kind = "file"
          /\ m.files[m.fds[fd]].page \in Pages
      <4>1. Strong(m, {}) /\ m.fds[fd] # NULL
        BY <1>0, <1>2
      <4> QED BY ONLY <4>1, fd \in FDs, FdFacts
    <3> QED BY <1>2, <2>5, <3>1 DEF HDR_ACTIVE
  <2>15. Laid(image) /\ HeadersOnly(image) /\ (Swept(m.hdr) => Swept(image))
    BY <1>0, <1>3, <1>5, <2>3, PlacedLaid, PlacedSwept
  <2>16. Unhidden(image, m.next_free)
    <3>1. PICK old \in Nat : /\ Unhidden(m.hdr, old) /\ old <= at
                             /\ m.next_free = IF at = old THEN at + h.max_pages ELSE old
      BY <1>4, <1>5, <2>2, Constants DEF Room
    <3> QED BY <1>0, <1>3, <1>5, <2>3, <3>1, PlacedUnhidden
  <2>11. CutsOK(n)
    BY <1>0, <1>2, <2>4, <2>7, <2>15 DEF CutsOK, Images
  <2>12. Good(n, {})
    <3>1. Strong(n, {})
      BY <1>2, <2>7, <2>8, <2>9, <2>10 DEF Strong
    <3>2. Space(n)
      BY <1>0, <1>2, <2>15, <2>16 DEF Space
    <3> QED BY <1>2, <2>11, <3>1, <3>2 DEF Good
  <2>13. ~HDR_ACTIVE(m.hdr[at])
    BY <2>1 DEF HDR_ACTIVE, HDR_FREE
  <2>14. Kept(m, n)
    BY <1>2, <2>5 DEF Kept
  <2> QED BY <1>2, <2>1, <2>3, <2>4, <2>6, <2>12, <2>13, <2>14 DEF n

\* n has answered a slot with a new extent that m does not have, of header h, or none;
\* with a slot to spare, no other extent is new, and none at all if it has not.
Reserved(m, n, h) ==
    /\ Kept(m, n) /\ n.fds = m.fds
    /\ n.ret # NULL => /\ n.ret \in Slots /\ n.files[n.ret].page \in Pages
                       /\ ~HDR_ACTIVE(m.hdr[n.files[n.ret].page])
                       /\ n.hdr[n.files[n.ret].page] = h
    /\ SpareSlot(m) => \A p \in Pages :
           HDR_ACTIVE(n.hdr[p]) => \/ n.hdr[p] = m.hdr[p]
                                   \/ n.ret # NULL /\ p = n.files[n.ret].page
    /\ \A s \in Slots : s # n.ret => n.files[s] = m.files[s]

LEMMA GoodOccupy ==
    ASSUME NEW m, m.intact, NEW h \in Asked, Searched(m, h.max_pages),
           m.ret = INVALID_PAGE => Swept(m.hdr)
    PROVE  LET n == Occupy(m, h) IN Good(n, {}) /\ (n.intact => Reserved(m, n, h))
<1> DEFINE n == Occupy(m, h)
<1>0. /\ Rec(m) /\ Strong(m, {}) /\ m.hdr \in Images /\ m.next_free \in 0..COFFEE_PAGE_COUNT
      /\ h.max_pages \in Nat
  BY DEF Searched, Strong, Typed, Asked
<1>1. CASE m.ret = INVALID_PAGE
  <2> DEFINE k == [m EXCEPT !.gc_wait = TRUE]
  <2>1. n = Answer(k, NULL)
    BY <1>1 DEF Occupy
  <2>2. /\ Rec(k) /\ k.hdr = m.hdr /\ k.files = m.files /\ k.fds = m.fds /\ k.next_free = m.next_free
        /\ k.gc_wait = TRUE /\ k.seen = m.seen /\ k.intact = m.intact
    BY <1>0 DEF Rec, Fields
  <2> HIDE DEF k, n
  <2>3. Strong(k, {})
    BY <1>0, <2>2, CleanedSame, CleanedStrong
  <2>4. Good(k, {})
    <3>1. Good(m, {})
      BY <1>0, <1>1, SearchedNone
    <3>2. Space(k)
      BY <1>1, <2>2, <3>1 DEF Good, Space
    <3> QED BY <2>2, <2>3, <3>1, <3>2 DEF Good, CutsOK
  <2>5. Good(n, {}) /\ n.ret = NULL /\ n.hdr = m.hdr /\ n.files = m.files /\ n.fds = m.fds
    BY <2>1, <2>2, <2>4, GoodAnswer
  <2>6. Reserved(m, n, h)
    BY <2>5 DEF Reserved, Kept
  <2> QED BY <2>5, <2>6 DEF n
<1>2. CASE m.ret # INVALID_PAGE
  <2> DEFINE at == m.ret
             k == NewExtent(m, h, at)
  <2>1. n = load_file(k, at)
    BY <1>2 DEF Occupy
  <2>2. /\ Good(k, {}) /\ k.intact /\ Kept(m, k) /\ k.fds = m.fds /\ k.files = m.files
        /\ at \in Pages /\ ~HDR_ACTIVE(m.hdr[at]) /\ k.hdr[at] = h /\ HDR_ACTIVE(h)
        /\ \A p \in Pages \ {at} : HDR_ACTIVE(k.hdr[p]) => k.hdr[p] = m.hdr[p]
    BY <1>2, GoodExtent
  <2> HIDE DEF k, n
  <2>3. ASSUME NEW s \in Slots PROVE k.files[s].page # at
    <3>1. FILE_FREE(m.files[s]) => m.files[s].page = INVALID_PAGE
      BY <1>0, SlotFacts
    <3>2. ~FILE_FREE(m.files[s]) => HDR_ACTIVE(m.hdr[m.files[s].page])
      BY <1>0, SlotFacts DEF CachedFile
    <3> QED BY <2>2, <3>1, <3>2, Constants
  <2>4. /\ Good(n, {}) /\ n.intact /\ n.hdr = k.hdr /\ n.fds = k.fds /\ Kept(k, n)
        /\ n.ret = NULL \/ (n.ret \in Slots /\ n.files[n.ret].page = at)
        /\ SpareSlot(k) => n.ret # NULL
        /\ \A s \in Slots : s # n.ret => n.files[s] = k.files[s]
    BY <2>1, <2>2, <2>3, GoodLoad
  <2>6. SpareSlot(m) => SpareSlot(k)
    BY <2>2 DEF SpareSlot
  <2>5. Reserved(m, n, h)
    BY <2>2, <2>4, <2>6, KeptTwice DEF Reserved
  <2> QED BY <2>4, <2>5 DEF n
<1> QED BY <1>1, <1>2

LEMMA GoodReserve ==
    ASSUME NEW m, Good(m, {}), m.intact, NEW h \in Asked
    PROVE  LET n == reserve(m, h) IN Good(n, {}) /\ (n.intact => Reserved(m, n, h))
<1> DEFINE amount == h.max_pages
           k == find_contiguous_pages(m, amount)
           j == SearchAgain(k, amount)
           n == Occupy(j, h)
<1>0. amount \in Nat /\ amount >= 1
  BY DEF Asked
<1>1. /\ Searched(k, amount) /\ k.intact /\ Kept(m, k) /\ k.fds = m.fds /\ k.files = m.files
      /\ \A p \in Pages : HDR_ACTIVE(k.hdr[p]) => k.hdr[p] = m.hdr[p]
  BY <1>0, GoodSearch
<1> HIDE DEF k
<1>2. /\ Searched(j, amount)
      /\ j.intact => /\ Kept(k, j) /\ j.fds = k.fds /\ j.files = k.files
                     /\ j.ret = INVALID_PAGE => Swept(j.hdr)
                     /\ \A p \in Pages : HDR_ACTIVE(j.hdr[p]) => j.hdr[p] = k.hdr[p]
  BY <1>0, <1>1, GoodAgain
<1> HIDE DEF j
<1>3. CASE ~j.intact
  <2>1. Later(j, n) /\ CutsOK(j)
    BY <1>2, LaterOccupy DEF Searched
  <2> HIDE DEF n
  <2>2. Good(n, {}) /\ ~n.intact
    BY <1>3, <2>1, CutsOff
  <2> QED BY <2>2 DEF reserve, k, j, n
<1>4. CASE j.intact
  <2>1. Good(n, {}) /\ (n.intact => Reserved(j, n, h))
    BY <1>2, <1>4, GoodOccupy
  <2> HIDE DEF n
  <2>2. Kept(m, j) /\ j.fds = m.fds
    BY <1>1, <1>2, <1>4, KeptTwice
  <2>3. ASSUME n.intact PROVE Reserved(m, n, h)
    <3>1. Kept(m, n) /\ n.fds = m.fds
      BY <2>1, <2>2, <2>3, KeptTwice DEF Reserved
    <3>2. \A p \in Pages : HDR_ACTIVE(m.hdr[p]) => HDR_ACTIVE(j.hdr[p])
      BY <2>2 DEF Kept
    <3>3. \A p \in Pages : HDR_ACTIVE(j.hdr[p]) => j.hdr[p] = m.hdr[p]
      BY <1>1, <1>2, <1>4
    <3>4. j.files = m.files /\ (SpareSlot(m) => SpareSlot(j))
      BY <1>1, <1>2, <1>4 DEF SpareSlot
    <3> QED BY <2>1, <2>3, <3>1, <3>2, <3>3, <3>4 DEF Reserved
  <2> QED BY <2>1, <2>3 DEF reserve, k, j, n
<1>5. j.intact \in BOOLEAN
  BY <1>2 DEF Searched, Rec
<1> QED BY <1>3, <1>4, <1>5

-----------------------------------------------------------------------------
(* Descriptors *)

LEMMA RefsFinite ==
    ASSUME NEW m, NEW s
    PROVE  IsFiniteSet(Refs(m, s)) /\ Cardinality(Refs(m, s)) \in 0..COFFEE_FD_SET_SIZE
<1>4. COFFEE_FD_SET_SIZE \in Nat /\ COFFEE_FD_SET_SIZE >= 1
  BY CoffeeAssumption
<1>5. IsFiniteSet(FDs) /\ Cardinality(FDs) = COFFEE_FD_SET_SIZE
  BY <1>4, FS_Interval DEF FDs
<1>6. Refs(m, s) \in SUBSET FDs
  BY DEF Refs
<1>7. IsFiniteSet(Refs(m, s)) /\ Cardinality(Refs(m, s)) <= COFFEE_FD_SET_SIZE
  BY <1>5, <1>6, FS_Subset
<1>8. Cardinality(Refs(m, s)) \in Nat
  BY <1>7, FS_CardinalityType
<1> QED BY <1>4, <1>7, <1>8

\* From m to k only the descriptors and the references of slot change.
Rerouted(m, k, slot) ==
    /\ Rec(k) /\ k.hdr = m.hdr /\ k.next_free = m.next_free /\ k.gc_wait = m.gc_wait
    /\ k.seen = m.seen /\ k.intact = m.intact
    /\ k.fds \in [FDs -> Slots \union {NULL}]
    /\ k.files = [m.files EXCEPT ![slot].references = Cardinality(Refs(k, slot))]
    /\ \A s \in Slots \ {slot} : Refs(k, s) = Refs(m, s)
    /\ \A fd \in FDs : k.fds[fd] # NULL /\ k.fds[fd] # m.fds[fd] =>
          /\ ~FILE_FREE(m.files[k.fds[fd]])
          /\ m.hdr[m.files[k.fds[fd]].page].kind = "file"

LEMMA GoodRefs ==
    ASSUME NEW m, Good(m, {}), m.intact, NEW slot \in Slots, NEW k, Rerouted(m, k, slot)
    PROVE  Good(k, {}) /\ \A s \in Slots : k.files[s].page = m.files[s].page
<1> DEFINE c == Cardinality(Refs(k, slot))
<1>0. Rec(m) /\ Strong(m, {}) /\ m.files \in [Slots -> FileT]
  BY DEF Good, Strong, Typed
<1>1. c \in 0..COFFEE_FD_SET_SIZE
  BY RefsFinite
<1> DEFINE fds == k.fds
<1>7. /\ Rec(k) /\ k.hdr = m.hdr /\ k.next_free = m.next_free /\ k.gc_wait = m.gc_wait
      /\ k.seen = m.seen /\ k.intact = m.intact /\ fds \in [FDs -> Slots \union {NULL}]
  BY DEF Rerouted
<1>8. \A s \in Slots \ {slot} : Refs(k, s) = Refs(m, s)
  BY DEF Rerouted
<1>9. \A fd \in FDs : fds[fd] # NULL /\ fds[fd] # m.fds[fd] =>
          /\ ~FILE_FREE(m.files[fds[fd]])
          /\ m.hdr[m.files[fds[fd]].page].kind = "file"
  BY DEF Rerouted
<1> HIDE DEF c
<1>2. k.files = [m.files EXCEPT ![slot].references = c]
  BY DEF c, Rerouted
<1>3. /\ k.files \in [Slots -> FileT] /\ k.files[slot].references = c
      /\ \A s \in Slots \ {slot} : k.files[s] = m.files[s]
      /\ \A s \in Slots : /\ k.files[s].page = m.files[s].page
                          /\ k.files[s].max_pages = m.files[s].max_pages
                          /\ k.files[s].modified = m.files[s].modified
  BY <1>0, <1>1, <1>2 DEF FileT
<1>4. Counted(k, {})
  BY <1>0, <1>3, <1>8 DEF Strong, Counted, c
<1>5. Cached(k)
  <2> SUFFICES ASSUME NEW s \in Slots
               PROVE  IF FILE_FREE(k.files[s]) THEN k.files[s].page = INVALID_PAGE ELSE CachedFile(k, s)
    BY DEF Cached
  <2>1. IF FILE_FREE(m.files[s]) THEN m.files[s].page = INVALID_PAGE ELSE CachedFile(m, s)
    BY <1>0 DEF Strong, Cached
  <2> QED BY <1>3, <1>7, <2>1 DEF CachedFile, FILE_FREE
<1>6. Connected(k)
  <2> SUFFICES ASSUME NEW fd \in FDs, fds[fd] # NULL
               PROVE  ~FILE_FREE(k.files[fds[fd]]) /\ k.hdr[k.files[fds[fd]].page].kind = "file"
    BY DEF Connected
  <2>1. ~FILE_FREE(m.files[fds[fd]]) /\ m.hdr[m.files[fds[fd]].page].kind = "file"
    BY <1>0, <1>9 DEF Strong, Connected
  <2>2. fds[fd] \in Slots
    BY <1>7
  <2> QED BY <1>3, <1>7, <2>1, <2>2 DEF FILE_FREE
<1>10. Strong(k, {})
  BY <1>0, <1>3, <1>4, <1>5, <1>6, <1>7 DEF Strong, Typed
<1> QED BY <1>3, <1>7, <1>10, SpaceSame DEF Good, CutsOK

LEMMA GoodConnect ==
    ASSUME NEW m, Good(m, {}), m.intact, NEW fd \in FDs, m.fds[fd] = NULL, NEW slot \in Slots,
           m.files[slot].page \in Pages, m.hdr[m.files[slot].page].kind = "file"
    PROVE  LET n == Connect(m, fd, slot)
           IN  /\ Good(n, {}) /\ n.intact /\ n.hdr = m.hdr /\ Kept(m, n) /\ n.ret = fd
               /\ n.fds[fd] = slot /\ n.files[slot].page = m.files[slot].page
               /\ \A s \in Slots : s # slot => n.files[s] = m.files[s]
               /\ \A d \in FDs : d # fd => n.fds[d] = m.fds[d]
<1> DEFINE k == [m EXCEPT !.fds[fd] = slot, !.files[slot].references = @ + 1]
<1>0. Rec(m) /\ Strong(m, {}) /\ m.files \in [Slots -> FileT] /\ m.fds \in [FDs -> Slots \union {NULL}]
  BY DEF Good, Strong, Typed
<1>1. Connect(m, fd, slot) = Answer(k, fd)
  BY DEF Connect
<1>2. /\ Rec(k) /\ k.hdr = m.hdr /\ k.fds = [m.fds EXCEPT ![fd] = slot] /\ k.next_free = m.next_free
      /\ k.gc_wait = m.gc_wait /\ k.seen = m.seen /\ k.intact = m.intact
      /\ k.files = [m.files EXCEPT ![slot].references = m.files[slot].references + 1]
  BY <1>0 DEF Rec, Fields
<1> HIDE DEF k
<1>3. k.fds \in [FDs -> Slots \union {NULL}] /\ k.fds[fd] = slot
      /\ \A d \in FDs : d # fd => k.fds[d] = m.fds[d]
  BY <1>0, <1>2
<1>4. Refs(k, slot) = Refs(m, slot) \union {fd} /\ fd \notin Refs(m, slot)
  BY <1>3, Constants DEF Refs
<1>5. \A s \in Slots \ {slot} : Refs(k, s) = Refs(m, s)
  BY <1>3, Constants DEF Refs
<1>6. m.files[slot].references + 1 = Cardinality(Refs(k, slot))
  <2>1. m.files[slot].references = Cardinality(Refs(m, slot))
    BY <1>0 DEF Strong, Counted
  <2>2. IsFiniteSet(Refs(m, slot))
    BY RefsFinite
  <2>3. Cardinality(Refs(m, slot) \union {fd}) = Cardinality(Refs(m, slot)) + 1
    BY <1>4, <2>2, FS_AddElement
  <2> QED BY <1>4, <2>1, <2>3
<1>7. ~FILE_FREE(m.files[slot])
  BY <1>0, SlotFacts, Constants
<1>8. Good(k, {}) /\ \A s \in Slots : k.files[s].page = m.files[s].page
  <2>1. k.files = [m.files EXCEPT ![slot].references = Cardinality(Refs(k, slot))]
    BY <1>2, <1>6
  <2>2. \A d \in FDs : k.fds[d] # NULL /\ k.fds[d] # m.fds[d] =>
            /\ ~FILE_FREE(m.files[k.fds[d]])
            /\ m.hdr[m.files[k.fds[d]].page].kind = "file"
    BY <1>3, <1>7
  <2>3. Rerouted(m, k, slot)
    BY <1>2, <1>3, <1>5, <2>1, <2>2 DEF Rerouted
  <2> QED BY <2>3, GoodRefs
<1> DEFINE n == Answer(k, fd)
<1>9. Good(n, {}) /\ n.ret = fd /\ n.hdr = k.hdr /\ n.files = k.files /\ n.fds = k.fds /\ n.intact = k.intact
  BY <1>8, GoodAnswer
<1> HIDE DEF n
<1>10. Kept(m, n)
  <2>1. \A d \in FDs : m.fds[d] # NULL => m.fds[d] \in Slots
    BY <1>0
  <2> QED BY <1>2, <1>3, <1>8, <1>9, <2>1 DEF Kept
<1>11. \A s \in Slots : s # slot => n.files[s] = m.files[s]
  BY <1>0, <1>2, <1>9
<1> QED BY <1>1, <1>2, <1>3, <1>8, <1>9, <1>10, <1>11 DEF n

LEMMA GoodClose ==
    ASSUME NEW m, Good(m, {}), m.intact, NEW fd \in FDs, m.fds[fd] # NULL
    PROVE  LET n == Close(m, fd)
           IN  /\ Good(n, {}) /\ n.intact /\ n.hdr = m.hdr /\ n.ret = m.ret
               /\ n.fds[fd] = NULL /\ \A d \in FDs : d # fd => n.fds[d] = m.fds[d]
               /\ \A s \in Slots : n.files[s].page = m.files[s].page
<1> DEFINE slot == m.fds[fd]
           less == (m.files[slot].references - 1) % 256
           k == Close(m, fd)
<1>0. Rec(m) /\ Strong(m, {}) /\ m.files \in [Slots -> FileT] /\ m.fds \in [FDs -> Slots \union {NULL}]
  BY DEF Good, Strong, Typed
<1>1. slot \in Slots /\ fd \in Refs(m, slot)
  BY <1>0, FdFacts
<1>2. /\ Rec(k) /\ k.hdr = m.hdr /\ k.fds = [m.fds EXCEPT ![fd] = NULL] /\ k.next_free = m.next_free
      /\ k.gc_wait = m.gc_wait /\ k.seen = m.seen /\ k.intact = m.intact /\ k.ret = m.ret
      /\ k.files = [m.files EXCEPT ![slot].references = less]
  BY <1>0, ZenonT(40) DEF Rec, Fields, Close
<1> HIDE DEF k, slot
<1>3. k.fds \in [FDs -> Slots \union {NULL}] /\ k.fds[fd] = NULL
      /\ \A d \in FDs : d # fd => k.fds[d] = m.fds[d]
  BY <1>0, <1>2
<1>4. Refs(k, slot) = Refs(m, slot) \ {fd}
  BY <1>1, <1>3, Constants DEF Refs
<1>5. \A s \in Slots \ {slot} : Refs(k, s) = Refs(m, s)
  BY <1>3, Constants DEF Refs, slot
<1>6. less = Cardinality(Refs(k, slot))
  <2>1. m.files[slot].references = Cardinality(Refs(m, slot))
    BY <1>0, <1>1 DEF Strong, Counted
  <2>2. IsFiniteSet(Refs(m, slot)) /\ Cardinality(Refs(m, slot)) \in 0..COFFEE_FD_SET_SIZE
    BY RefsFinite
  <2>3. Cardinality(Refs(m, slot) \ {fd}) = Cardinality(Refs(m, slot)) - 1
    BY <1>1, <2>2, FS_RemoveElement
  <2>4. Cardinality(Refs(m, slot) \ {fd}) \in Nat
    BY <2>2, FS_RemoveElement, FS_CardinalityType
  <2>5. Cardinality(Refs(m, slot)) - 1 \in 0..255
    BY <2>2, <2>3, <2>4, CoffeeAssumption
  <2>6. less = Cardinality(Refs(m, slot)) - 1
    BY <2>1, <2>5
  <2> QED BY <1>4, <2>3, <2>6
<1>8. Good(k, {}) /\ \A s \in Slots : k.files[s].page = m.files[s].page
  <2>1. k.files = [m.files EXCEPT ![slot].references = Cardinality(Refs(k, slot))]
    BY <1>2, <1>6
  <2>2. \A d \in FDs : k.fds[d] # NULL /\ k.fds[d] # m.fds[d] =>
            /\ ~FILE_FREE(m.files[k.fds[d]])
            /\ m.hdr[m.files[k.fds[d]].page].kind = "file"
    BY <1>3
  <2>3. Rerouted(m, k, slot)
    BY <1>2, <1>3, <1>5, <2>1, <2>2 DEF Rerouted
  <2> QED BY <1>1, <2>3, GoodRefs
<1> QED BY <1>2, <1>3, <1>8 DEF k

\* The same extents are in use, or also one at page at with header h.
Same(i, j) == \A p \in Pages : HDR_ACTIVE(i[p]) \/ HDR_ACTIVE(j[p]) => j[p] = i[p]
Added(i, j, at, h) ==
    /\ at \in Pages /\ ~HDR_ACTIVE(i[at]) /\ j[at] = h
    /\ \A p \in Pages \ {at} : HDR_ACTIVE(i[p]) \/ HDR_ACTIVE(j[p]) => j[p] = i[p]

LEMMA ReservedIs ==
    ASSUME NEW m, NEW n, NEW h, Reserved(m, n, h), SpareSlot(m)
    PROVE  /\ n.ret = NULL => Same(m.hdr, n.hdr)
           /\ n.ret # NULL => Added(m.hdr, n.hdr, n.files[n.ret].page, h)
BY DEF Reserved, Kept, Same, Added

\* A file is created only if there is none of its name.
Grown(i, j, name) ==
    \/ Same(i, j)
    \/ /\ \A p \in Pages : ~IsNamed(i[p], name)
       /\ \E at \in Pages : Added(i, j, at, NewFile(name, DynPages))

\* One slot holds the file called name, and a descriptor is on it.
Busy(m, name) ==
    \E fd \in FDs :
        /\ m.fds[fd] # NULL /\ Holds(m, m.fds[fd], name)
        /\ \A s \in Slots : Holds(m, s, name) => s = m.fds[fd]

\* What a descriptor is opened on has the name asked for, and it is the lowest free
\* one; a file is created only if there is none; and another descriptor on a file
\* takes no slot.
Opened(m, n, name, create) ==
    /\ create \/ n.hdr = m.hdr
    /\ \A fd \in FDs : fd # n.ret => n.fds[fd] = m.fds[fd]
    /\ n.ret # FAILURE => \A fd \in FDs : m.fds[fd] = NULL => n.ret <= fd
    /\ n.ret # FAILURE => IsNamed(n.hdr[n.files[n.fds[n.ret]].page], name)
    /\ SpareSlot(m) => Grown(m.hdr, n.hdr, name)
    /\ SpareSlot(m) /\ Busy(m, name) => SpareSlot(n)

LEMMA ConnectedSlot ==
    ASSUME NEW m, Good(m, {}), m.intact, NEW fd \in FDs, m.fds[fd] # NULL
    PROVE  m.fds[fd] \in Slots
BY FdFacts DEF Good

LEMMA BusySlot ==
    ASSUME NEW m, NEW gone, Strong(m, gone), NEW name, Busy(m, name), NEW slot \in Slots,
           Holds(m, slot, name)
    PROVE  m.files[slot].references # 0
<1>1. PICK fd \in FDs : m.fds[fd] # NULL /\ slot = m.fds[fd]
  BY DEF Busy
<1>2. fd \in Refs(m, slot) /\ slot \notin gone
  BY <1>1, FdFacts
<1>3. m.files[slot].references = Cardinality(Refs(m, slot)) /\ IsFiniteSet(Refs(m, slot))
  BY <1>2, SlotFacts DEF Strong, Counted
<1> QED BY <1>2, <1>3, FS_EmptySet

\* What reserve has answered is connected, or what find_file has found.
LEMMA GoodOpen ==
    ASSUME NEW m, Good(m, {}), m.intact, NEW name \in Names \union {NULL}, NEW create \in BOOLEAN
    PROVE  LET n == Open(m, name, create)
           IN  /\ Good(n, {})
               /\ n.intact /\ n.ret # FAILURE => /\ Kept(m, n) /\ n.ret \in FDs
                                                 /\ m.fds[n.ret] = NULL /\ n.fds[n.ret] # NULL
               /\ n.intact /\ n.ret = FAILURE => Kept(m, n)
               /\ n.intact => Opened(m, n, name, create)
<1> DEFINE f == find_file(m, name)
           c == CreateMissing(f, name, create)
           n == ConnectFound(c)
<1>1. /\ Good(f, {}) /\ f.intact /\ f.hdr = m.hdr /\ f.fds = m.fds /\ Kept(m, f)
      /\ f.ret = NULL \/ (/\ f.ret \in Slots /\ f.files[f.ret].page \in Pages
                          /\ IsNamed(f.hdr[f.files[f.ret].page], name))
  BY GoodFind
<1>5. /\ f.ret = NULL /\ SpareSlot(m) =>
             SpareSlot(f) /\ \A p \in Pages : ~IsNamed(m.hdr[p], name)
      /\ (\E s \in Slots : Holds(m, s, name)) => f.files = m.files /\ f.ret # NULL
  BY GoodFind
<1> HIDE DEF f
<1>2. /\ Good(c, {})
      /\ c.intact => /\ Kept(m, c) /\ c.fds = m.fds
                     /\ c.ret # NULL => /\ c.ret \in Slots /\ c.files[c.ret].page \in Pages
                                        /\ c.hdr[c.files[c.ret].page].kind = "file"
                                        /\ IsNamed(c.hdr[c.files[c.ret].page], name)
                     /\ create \/ c.hdr = m.hdr
                     /\ SpareSlot(m) => Grown(m.hdr, c.hdr, name)
                     /\ (\E s \in Slots : Holds(m, s, name)) => c.files = m.files
  <2>1. CASE f.ret = NULL /\ create
    <3> DEFINE h == NewFile(name, DynPages)
    <3>1. h \in Asked /\ h.kind = "file" /\ IsNamed(h, name)
      BY CoffeeAssumption DEF NewFile, Page, Asked, IsNamed
    <3>4. h = NewFile(name, DynPages)
      OBVIOUS
    <3> HIDE DEF h
    <3>2. Good(reserve(f, h), {}) /\ (reserve(f, h).intact => Reserved(f, reserve(f, h), h))
      BY <1>1, <3>1, GoodReserve
    <3>3. c = reserve(f, h)
      BY <2>1 DEF CreateMissing, h
    <3> HIDE DEF c
    <3>5. ASSUME c.intact, SpareSlot(m) PROVE Grown(m.hdr, c.hdr, name)
      <4>1. Reserved(f, c, h) /\ SpareSlot(f) /\ f.hdr = m.hdr
        BY <1>1, <1>5, <2>1, <3>2, <3>3, <3>5
      <4>2. \/ c.ret = NULL /\ Same(m.hdr, c.hdr)
            \/ \E at \in Pages : Added(m.hdr, c.hdr, at, h)
        BY <4>1, ReservedIs DEF Added
      <4> QED BY <1>5, <2>1, <3>4, <3>5, <4>2 DEF Grown
    <3>6. ~(\E s \in Slots : Holds(m, s, name))
      BY <1>5, <2>1
    <3>7. c.intact => /\ Kept(m, c) /\ c.fds = m.fds
                      /\ c.ret # NULL => /\ c.ret \in Slots /\ c.files[c.ret].page \in Pages
                                         /\ c.hdr[c.files[c.ret].page].kind = "file"
                                         /\ IsNamed(c.hdr[c.files[c.ret].page], name)
      BY <1>1, <3>1, <3>2, <3>3, KeptTwice DEF Reserved
    <3> QED BY <2>1, <3>2, <3>3, <3>5, <3>6, <3>7
  <2>2. CASE ~(f.ret = NULL /\ create)
    <3>1. c = f
      BY <2>2 DEF CreateMissing
    <3> HIDE DEF c
    <3>2. Grown(m.hdr, c.hdr, name)
      BY <1>1, <3>1 DEF Grown, Same
    <3> QED BY <1>1, <1>5, <3>1, <3>2, NamedFile
  <2> QED BY <2>1, <2>2
<1> HIDE DEF c
<1>3. CASE FreeFds(m) = {}
  <2> DEFINE k == Answer(m, FAILURE)
  <2>1. Open(m, name, create) = k
    BY <1>3 DEF Open
  <2>2. Good(k, {}) /\ k.hdr = m.hdr /\ k.files = m.files /\ k.fds = m.fds /\ k.ret = FAILURE
    BY GoodAnswer
  <2> HIDE DEF k
  <2>3. Opened(m, k, name, create)
    BY <2>2 DEF Opened, Grown, Same, SpareSlot
  <2> QED BY <2>1, <2>2, <2>3 DEF Kept
<1>4. CASE FreeFds(m) # {}
  <2>1. Open(m, name, create) = n
    BY <1>4 DEF Open, f, c
  <2>2. CASE ~c.intact
    <3>1. Rec(c)
      BY <1>2 DEF Good
    <3>2. Later(c, n)
      BY <3>1, LaterAnswer, LaterConnect DEF ConnectFound
    <3> HIDE DEF n
    <3>3. Good(n, {}) /\ ~n.intact
      BY <1>2, <2>2, <3>2, GoodOff
    <3> QED BY <2>1, <3>3
  <2>3. CASE c.intact /\ c.ret = NULL
    <3>1. n = Answer(c, FAILURE)
      BY <2>3 DEF ConnectFound
    <3> HIDE DEF n
    <3>2. Good(n, {}) /\ n.hdr = c.hdr /\ n.files = c.files /\ n.fds = c.fds /\ n.ret = FAILURE
      BY <1>2, <3>1, GoodAnswer
    <3>3. Kept(m, n)
      BY <1>2, <2>3, <3>2 DEF Kept
    <3>4. Busy(m, name) => n.files = m.files
      BY <1>2, <2>3, <3>2, ConnectedSlot DEF Busy
    <3>5. Opened(m, n, name, create)
      BY <1>2, <2>3, <3>2, <3>4 DEF Opened, SpareSlot
    <3> QED BY <2>1, <3>2, <3>3, <3>5
  <2>4. CASE c.intact /\ c.ret # NULL
    <3> DEFINE fd == Min(FreeFds(c))
    <3>1. FreeFds(c) # {} /\ FreeFds(c) \subseteq Nat
      BY <1>2, <1>4, <2>4, Constants DEF FreeFds
    <3>2. fd \in FreeFds(c) /\ \A d \in FreeFds(c) : fd <= d
      BY <3>1, MinFacts
    <3>3. n = Connect(c, fd, c.ret)
      BY <2>4 DEF ConnectFound
    <3> HIDE DEF fd, n
    <3>4. fd \in FDs /\ c.fds[fd] = NULL
      BY <3>2 DEF FreeFds
    <3>5. /\ Good(n, {}) /\ n.intact /\ n.hdr = c.hdr /\ Kept(c, n) /\ n.ret = fd /\ n.fds[fd] = c.ret
          /\ n.files[c.ret].page = c.files[c.ret].page
          /\ \A s \in Slots : s # c.ret => n.files[s] = c.files[s]
          /\ \A d \in FDs : d # fd => n.fds[d] = c.fds[d]
      BY <1>2, <2>4, <3>3, <3>4, GoodConnect
    <3>6. Kept(m, n) /\ m.fds[fd] = NULL
      BY <1>2, <2>4, <3>4, <3>5, KeptTwice
    <3>7. fd # FAILURE
      BY <3>4, Constants
    <3>8. ASSUME SpareSlot(m), Busy(m, name) PROVE SpareSlot(n)
      <4>1. c.files = m.files
        BY <1>2, <2>4, <3>8, ConnectedSlot DEF Busy
      <4>2. PICK s \in Slots : FILE_FREE(m.files[s]) \/ m.files[s].references = 0
        BY <3>8 DEF SpareSlot
      <4>3. ~FILE_FREE(m.files[c.ret]) /\ Holds(m, c.ret, name)
        <5>1. Strong(c, {}) /\ c.ret \in Slots /\ c.files[c.ret].page \in Pages
          BY <1>2, <2>4 DEF Good
        <5>2. ~FILE_FREE(c.files[c.ret])
          <6> PICK s1 \in Slots : s1 = c.ret
            BY <5>1
          <6>1. INVALID_PAGE \notin Pages
            BY Constants
          <6>2. FILE_FREE(c.files[s1]) => c.files[s1].page = INVALID_PAGE
            BY <5>1, SlotFacts
          <6> QED BY <5>1, <6>1, <6>2
        <5>3. Strong(m, {})
          BY DEF Good
        <5>4. CachedFile(m, c.ret)
          BY <4>1, <5>1, <5>2, <5>3, SlotFacts
        <5>5. c.hdr[c.files[c.ret].page] = m.hdr[m.files[c.ret].page]
          BY <1>2, <2>4, <4>1, <5>4 DEF Kept, CachedFile
        <5> QED BY <1>2, <2>4, <4>1, <5>2, <5>5 DEF Holds
      <4>4. s # c.ret
        BY <1>2, <2>4, <3>8, <4>2, <4>3, BusySlot DEF Good
      <4>5. n.files[s] = m.files[s]
        BY <3>5, <4>1, <4>4
      <4> QED BY <4>2, <4>5 DEF SpareSlot
    <3>10. \A d \in FDs : d # n.ret => n.fds[d] = m.fds[d]
      BY <1>2, <2>4, <3>5
    <3>11. \A d \in FDs : m.fds[d] = NULL => n.ret <= d
      BY <1>2, <2>4, <3>2, <3>5 DEF FreeFds
    <3>9. Opened(m, n, name, create)
      BY <1>2, <2>4, <3>5, <3>7, <3>8, <3>10, <3>11 DEF Opened
    <3> QED BY <2>1, <2>4, <3>4, <3>5, <3>6, <3>7, <3>9
  <2> QED BY <1>2, <2>2, <2>3, <2>4, Zenon DEF Good, Rec
<1> QED BY <1>3, <1>4

-----------------------------------------------------------------------------
(* Extents become obsolete *)

LEMMA FlashOn ==
    ASSUME NEW m, Rec(m), NEW image
    PROVE  LET n == Flash(m, image)
           IN  /\ Rec(n) /\ n.hdr = image
               /\ n.files = m.files /\ n.fds = m.fds /\ n.next_free = m.next_free
               /\ n.gc_wait = m.gc_wait /\ n.ret = m.ret /\ (n.intact <=> m.intact)
               /\ \A cut \in n.seen : cut \in m.seen \/ cut.hdr = image
<1> DEFINE n == Flash(m, image)
<1>1. /\ Rec(n) /\ n.hdr = image /\ n.files = m.files /\ n.fds = m.fds /\ n.next_free = m.next_free
      /\ n.gc_wait = m.gc_wait /\ n.ret = m.ret /\ n.intact = m.intact
      /\ n.seen = m.seen \union {[hdr |-> image, intact |-> m.intact]}
  BY FlashFields
<1> HIDE DEF n
<1> QED BY <1>1 DEF n

\* The slots of the file at page.
Holding(m, page) == {s \in Slots : m.files[s].page = page}

\* The extent at page is not there any more, and nobody refers to it.
Obsoleted(m, n, page) ==
    /\ n.intact /\ n.ret = 0
    /\ ~HDR_ACTIVE(n.hdr[page])
    /\ \A p \in Pages \ {page} : n.hdr[p] = m.hdr[p]
    /\ \A s \in Slots : m.files[s].page = page => n.files[s] = NoFile
    /\ \A s \in Slots : m.files[s].page # page => n.files[s] = m.files[s]
    /\ \A fd \in FDs : n.fds[fd] = IF m.fds[fd] # NULL /\ m.files[m.fds[fd]].page = page
                                   THEN NULL ELSE m.fds[fd]

\* No descriptor is on the file at page.
Unused(m, page) == \A fd \in FDs : m.fds[fd] # NULL => m.files[m.fds[fd]].page # page

LEMMA LogUnused ==
    ASSUME NEW m, NEW gone, Strong(m, gone), NEW at, m.hdr[at].kind = "log"
    PROVE  Unused(m, at)
<1> SUFFICES ASSUME NEW fd \in FDs, m.fds[fd] # NULL PROVE m.files[m.fds[fd]].page # at
  BY DEF Unused
<1>1. m.hdr[m.files[m.fds[fd]].page].kind = "file"
  BY FdFacts
<1> QED BY <1>1

LEMMA GoodObsolete ==
    ASSUME NEW m, NEW gone, Good(m, gone), m.intact, NEW page \in Pages, HDR_ACTIVE(m.hdr[page]),
           NEW close \in BOOLEAN, close \/ Unused(m, page)
    PROVE  LET n == Obsolete(m, page, close)
           IN  Good(n, gone \ Holding(m, page)) /\ Obsoleted(m, n, page)
<1> DEFINE h == [Page("obsolete") EXCEPT !.max_pages = m.hdr[page].max_pages]
           image == [m.hdr EXCEPT ![page] = h]
           w == write_header(m, h, page)
           fds == [fd \in FDs |-> IF close /\ m.fds[fd] # NULL /\ m.files[m.fds[fd]].page = page
                                  THEN NULL ELSE w.fds[fd]]
           files == [s \in Slots |-> IF w.files[s].page = page THEN NoFile ELSE w.files[s]]
           k == [w EXCEPT !.gc_wait = FALSE, !.fds = fds, !.files = files]
           on == {s \in Slots : m.files[s].page = page}
           n == Obsolete(m, page, close)
<1>0. Rec(m) /\ Strong(m, gone) /\ m.hdr \in Images /\ Sound(m.hdr) /\ m.files \in [Slots -> FileT]
      /\ m.fds \in [FDs -> Slots \union {NULL}] /\ m.next_free \in 0..COFFEE_PAGE_COUNT
      /\ Laid(m.hdr) /\ HeadersOnly(m.hdr) /\ Unhidden(m.hdr, m.next_free)
  BY DEF Good, Strong, Typed, Space
<1>19. close \/ \A fd \in FDs : m.fds[fd] # NULL => m.files[m.fds[fd]].page # page
  BY DEF Unused
<1>1. h \in HeaderT /\ ~HDR_ACTIVE(h) /\ h.kind = "obsolete" /\ h.max_pages = m.hdr[page].max_pages
  <2>1. m.hdr[page].max_pages \in 1..COFFEE_PAGE_COUNT
    BY <1>0 DEF Images, HeaderT
  <2> QED BY <2>1, PageType DEF Page, HeaderT, HDR_ACTIVE
<1> HIDE DEF h
<1>20. Laid(image) /\ HeadersOnly(image) /\ Unhidden(image, m.next_free)
  BY <1>0, <1>1, Rewritten
<1>2. /\ image \in Images /\ image[page] = h /\ \A p \in Pages : p # page => image[p] = m.hdr[p]
  BY <1>0, <1>1 DEF Images
<1>3. /\ Rec(w) /\ w.hdr = image /\ w.files = m.files /\ w.fds = m.fds /\ w.next_free = m.next_free
      /\ w.intact /\ \A cut \in w.seen : cut \in m.seen \/ cut.hdr = image
  <2>1. Rec(m)
    BY <1>0
  <2>2. w = Flash(m, image)
    BY DEF write_header
  <2> HIDE DEF w, image
  <2> QED BY <2>1, <2>2, FlashOn
<1>4. n = Answer(k, 0)
  BY DEF Obsolete, Awake, h, Rec, Fields
<1> HIDE DEF w, image
<1>5. /\ Rec(k) /\ k.hdr = image /\ k.files = files /\ k.fds = fds /\ k.next_free = m.next_free
      /\ k.gc_wait = FALSE /\ k.intact
      /\ \A cut \in k.seen : cut \in m.seen \/ cut.hdr = image
  <2> HIDE DEF files, fds
  <2> QED BY <1>3 DEF Rec, Fields
<1> HIDE DEF k
<1>6. NoFile \in FileT /\ NoFile.page = INVALID_PAGE /\ FILE_FREE(NoFile) /\ NoFile.references = 0
  BY Constants, CoffeeAssumption DEF NoFile, FileT, FILE_FREE
<1>7. /\ files \in [Slots -> FileT]
      /\ \A s \in on : files[s] = NoFile
      /\ \A s \in Slots \ on : files[s] = m.files[s]
  BY <1>0, <1>3, <1>6
<1>8. /\ fds \in [FDs -> Slots \union {NULL}]
      /\ \A fd \in FDs : fds[fd] = IF m.fds[fd] # NULL /\ m.files[m.fds[fd]].page = page THEN NULL
                                   ELSE m.fds[fd]
  BY <1>0, <1>3, <1>19
<1> HIDE DEF files, fds
<1>9. \A p \in Pages : HDR_ACTIVE(image[p]) => p # page /\ image[p] = m.hdr[p] /\ HDR_ACTIVE(m.hdr[p])
  BY <1>1, <1>2
<1>10. Sound(image)
  <2> SUFFICES ASSUME NEW p \in Pages, HDR_ACTIVE(image[p])
               PROVE  /\ p + image[p].max_pages <= COFFEE_PAGE_COUNT
                      /\ \A x \in Pages : p < x /\ x < p + image[p].max_pages => image[x].kind = "data"
    BY DEF Sound
  <2>1. image[p] = m.hdr[p] /\ HDR_ACTIVE(m.hdr[p])
    BY <1>9
  <2>2. p + image[p].max_pages <= COFFEE_PAGE_COUNT
        /\ \A x \in Pages : p < x /\ x < p + image[p].max_pages => m.hdr[x].kind = "data"
    BY <1>0, <2>1 DEF Sound
  <2> QED BY <1>2, <2>2 DEF HDR_ACTIVE
<1>11. CutsOK(k)
  BY <1>2, <1>5, <1>10, <1>20 DEF Good, CutsOK
<1>12. Cached(k)
  <2> SUFFICES ASSUME NEW s \in Slots
               PROVE  IF FILE_FREE(k.files[s]) THEN k.files[s].page = INVALID_PAGE ELSE CachedFile(k, s)
    BY DEF Cached
  <2>1. CASE s \in on
    BY <1>5, <1>6, <1>7, <2>1
  <2>2. CASE s \notin on
    <3>1. k.files[s] = m.files[s] /\ m.files[s].page # page
      BY <1>5, <1>7, <2>2
    <3>2. CASE FILE_FREE(m.files[s])
      BY <1>0, <3>1, <3>2, SlotFacts
    <3>3. CASE ~FILE_FREE(m.files[s])
      <4>1. CachedFile(m, s)
        BY <1>0, <3>3, SlotFacts
      <4>2. \A t \in Slots : k.files[t].page = m.files[s].page => s = t
        BY <1>5, <1>6, <1>7, <4>1, Constants DEF CachedFile
      <4> QED BY <1>2, <1>5, <3>1, <3>3, <4>1, <4>2 DEF CachedFile
    <3> QED BY <3>2, <3>3
  <2> QED BY <2>1, <2>2
<1>13. \A s \in on : Refs(k, s) = {}
  <2> SUFFICES ASSUME NEW s \in on, NEW fd \in FDs, fds[fd] = s PROVE FALSE
    BY <1>5 DEF Refs
  <2>1. s # NULL /\ m.files[s].page = page
    BY Constants
  <2>2. m.fds[fd] = s
    BY <1>8, <2>1
  <2> QED BY <1>8, <2>1, <2>2
<1>14. \A s \in Slots \ on : Refs(k, s) = Refs(m, s)
  BY <1>5, <1>8, Constants DEF Refs
<1>15. Counted(k, gone \ on)
  <2> SUFFICES ASSUME NEW s \in Slots
               PROVE  IF s \in gone \ on THEN Refs(k, s) = {}
                      ELSE k.files[s].references = Cardinality(Refs(k, s))
    BY DEF Counted
  <2>1. CASE s \in on
    BY <1>5, <1>6, <1>7, <1>13, <2>1, FS_EmptySet
  <2>2. CASE s \notin on
    <3>1. IF s \in gone THEN Refs(m, s) = {} ELSE m.files[s].references = Cardinality(Refs(m, s))
      BY <1>0 DEF Strong, Counted
    <3> QED BY <1>5, <1>7, <1>14, <2>2, <3>1
  <2> QED BY <2>1, <2>2
<1>16. Connected(k)
  <2> SUFFICES ASSUME NEW fd \in FDs, k.fds[fd] # NULL
               PROVE  ~FILE_FREE(k.files[k.fds[fd]]) /\ k.hdr[k.files[k.fds[fd]].page].kind = "file"
    BY DEF Connected
  <2>1. m.fds[fd] # NULL /\ k.fds[fd] = m.fds[fd] /\ m.files[m.fds[fd]].page # page
    BY <1>5, <1>8
  <2>2. m.fds[fd] \in Slots /\ ~FILE_FREE(m.files[m.fds[fd]]) /\ m.files[m.fds[fd]].page \in Pages
        /\ m.hdr[m.files[m.fds[fd]].page].kind = "file"
    <3>1. Strong(m, gone)
      BY <1>0
    <3> QED BY ONLY <2>1, <3>1, fd \in FDs, FdFacts
  <2>3. k.files[k.fds[fd]] = m.files[m.fds[fd]]
    BY <1>5, <1>7, <2>1, <2>2
  <2> QED BY <1>2, <1>5, <2>1, <2>2, <2>3
<1>17. Good(k, gone \ on)
  <2>1. Strong(k, gone \ on)
    BY <1>0, <1>2, <1>5, <1>7, <1>8, <1>10, <1>12, <1>15, <1>16 DEF Strong, Typed
  <2>2. Space(k)
    BY <1>5, <1>20 DEF Space
  <2> QED BY <1>5, <1>11, <2>1, <2>2 DEF Good
<1> HIDE DEF n
<1>18. Good(n, gone \ on) /\ n.ret = 0 /\ n.hdr = k.hdr /\ n.files = k.files /\ n.fds = k.fds
       /\ n.intact = k.intact
  BY <1>4, <1>17, GoodAnswer
<1>21. /\ ~HDR_ACTIVE(n.hdr[page])
       /\ \A p \in Pages \ {page} : n.hdr[p] = m.hdr[p]
  BY <1>2, <1>5, <1>9, <1>18
<1>22. /\ \A s \in Slots : m.files[s].page = page => n.files[s] = NoFile
       /\ \A s \in Slots : m.files[s].page # page => n.files[s] = m.files[s]
  BY <1>5, <1>7, <1>18
<1>23. \A fd \in FDs : n.fds[fd] = IF m.fds[fd] # NULL /\ m.files[m.fds[fd]].page = page
                                   THEN NULL ELSE m.fds[fd]
  BY <1>5, <1>8, <1>18
<1>24. Obsoleted(m, n, page)
  BY <1>5, <1>18, <1>21, <1>22, <1>23 DEF Obsoleted
<1> QED BY <1>18, <1>24 DEF n, Holding

-----------------------------------------------------------------------------
(* Headers that change, and logs *)

\* From m to b only what slots say of the file at page changes, to what header h says.
Remarked(m, b, page, h) ==
    /\ Rec(b) /\ b.hdr = m.hdr /\ b.fds = m.fds /\ b.next_free = m.next_free
    /\ b.gc_wait = m.gc_wait /\ b.seen = m.seen /\ b.intact
    /\ b.files \in [Slots -> FileT]
    /\ \A s \in Slots :
          /\ b.files[s].page = m.files[s].page
          /\ b.files[s].max_pages = m.files[s].max_pages
          /\ b.files[s].references = m.files[s].references
          /\ b.files[s].modified = IF m.files[s].page = page THEN HDR_MODIFIED(h)
                                   ELSE m.files[s].modified

LEMMA GoodRewrite ==
    ASSUME NEW m, NEW gone, Good(m, gone), m.intact, NEW page \in Pages, HDR_ACTIVE(m.hdr[page]),
           NEW h \in HeaderT, h.kind = m.hdr[page].kind, h.max_pages = m.hdr[page].max_pages,
           NEW b, Remarked(m, b, page, h)
    PROVE  LET n == write_header(b, h, page)
           IN  /\ Good(n, gone) /\ n.intact /\ n.hdr[page] = h
               /\ \A p \in Pages \ {page} : n.hdr[p] = m.hdr[p]
               /\ n.fds = m.fds /\ n.files = b.files /\ n.ret = b.ret
<1> DEFINE image == [m.hdr EXCEPT ![page] = h]
           n == write_header(b, h, page)
<1>0. /\ Strong(m, gone) /\ m.hdr \in Images /\ Sound(m.hdr) /\ m.files \in [Slots -> FileT]
      /\ m.fds \in [FDs -> Slots \union {NULL}] /\ m.next_free \in 0..COFFEE_PAGE_COUNT
      /\ m.gc_wait \in BOOLEAN
      /\ Laid(m.hdr) /\ HeadersOnly(m.hdr) /\ Unhidden(m.hdr, m.next_free)
      /\ m.gc_wait => Swept(m.hdr)
  BY DEF Good, Strong, Typed, Space
<1>1. /\ Rec(b) /\ b.hdr = m.hdr /\ b.fds = m.fds /\ b.next_free = m.next_free
      /\ b.gc_wait = m.gc_wait /\ b.seen = m.seen /\ b.intact
      /\ b.files \in [Slots -> FileT]
  BY DEF Remarked
<1>2. \A s \in Slots :
          /\ b.files[s].page = m.files[s].page
          /\ b.files[s].max_pages = m.files[s].max_pages
          /\ b.files[s].references = m.files[s].references
          /\ b.files[s].modified = IF m.files[s].page = page THEN HDR_MODIFIED(h)
                                   ELSE m.files[s].modified
  BY DEF Remarked
<1>3. /\ image \in Images /\ image[page] = h /\ \A p \in Pages \ {page} : image[p] = m.hdr[p]
      /\ \A p \in Pages : image[p].kind = m.hdr[p].kind /\ image[p].max_pages = m.hdr[p].max_pages
  BY <1>0 DEF Images
<1>4. n = Flash(b, image)
  BY <1>1 DEF write_header
<1>13. /\ Laid(image) /\ HeadersOnly(image) /\ Unhidden(image, m.next_free)
       /\ Swept(m.hdr) => Swept(image)
  <2>1. h.kind \in {"file", "log", "obsolete"} /\ h.kind # "obsolete"
    BY DEF HDR_ACTIVE
  <2> QED BY <1>0, <2>1, Rewritten
<1> HIDE DEF n, image
<1>5. /\ Rec(n) /\ n.hdr = image /\ n.files = b.files /\ n.fds = b.fds /\ n.next_free = b.next_free
      /\ n.gc_wait = b.gc_wait /\ n.ret = b.ret /\ (n.intact <=> b.intact)
      /\ \A cut \in n.seen : cut \in b.seen \/ cut.hdr = image
  BY <1>1, <1>4, FlashOn
<1>6. Sound(image)
  BY <1>0, <1>3 DEF Sound, HDR_ACTIVE
<1>7. CutsOK(n)
  BY <1>1, <1>3, <1>5, <1>6, <1>13 DEF Good, CutsOK
<1>8. Typed(n)
  BY <1>0, <1>1, <1>3, <1>5 DEF Typed
<1>9. Cached(n)
  <2> SUFFICES ASSUME NEW s \in Slots
               PROVE  IF FILE_FREE(n.files[s]) THEN n.files[s].page = INVALID_PAGE ELSE CachedFile(n, s)
    BY DEF Cached
  <2>1. CASE FILE_FREE(m.files[s])
    BY <1>0, <1>2, <1>5, <2>1, SlotFacts DEF FILE_FREE
  <2>2. CASE ~FILE_FREE(m.files[s])
    <3>1. CachedFile(m, s)
      BY <1>0, <2>2, SlotFacts
    <3>2. n.files[s].modified = HDR_MODIFIED(image[n.files[s].page])
      BY <1>2, <1>3, <1>5, <3>1 DEF CachedFile
    <3>3. CachedFile(n, s)
      BY <1>2, <1>3, <1>5, <3>1, <3>2 DEF CachedFile, HDR_ACTIVE
    <3>4. ~FILE_FREE(n.files[s])
      BY <1>2, <1>5, <2>2 DEF FILE_FREE
    <3> QED BY <3>3, <3>4
  <2> QED BY <2>1, <2>2
<1>10. Counted(n, gone)
  BY <1>0, <1>1, <1>2, <1>5 DEF Strong, Counted, Refs
<1>11. Connected(n)
  <2> SUFFICES ASSUME NEW fd \in FDs, n.fds[fd] # NULL
               PROVE  ~FILE_FREE(n.files[n.fds[fd]]) /\ n.hdr[n.files[n.fds[fd]].page].kind = "file"
    BY DEF Connected
  <2>1. m.fds[fd] \in Slots /\ ~FILE_FREE(m.files[m.fds[fd]]) /\ m.files[m.fds[fd]].page \in Pages
        /\ m.hdr[m.files[m.fds[fd]].page].kind = "file"
    <3>1. Strong(m, gone) /\ m.fds[fd] # NULL
      BY <1>0, <1>1, <1>5
    <3> QED BY ONLY <3>1, fd \in FDs, FdFacts
  <2> QED BY <1>1, <1>2, <1>3, <1>5, <2>1 DEF FILE_FREE
<1>12. Good(n, gone) /\ n.intact
  <2>1. Strong(n, gone)
    BY <1>5, <1>6, <1>8, <1>9, <1>10, <1>11 DEF Strong
  <2>2. Space(n)
    BY <1>0, <1>1, <1>5, <1>13 DEF Space
  <2> QED BY <1>1, <1>5, <1>7, <2>1, <2>2 DEF Good
<1> QED BY <1>1, <1>3, <1>5, <1>12 DEF n

LEMMA GoodLink ==
    ASSUME NEW m, Good(m, {}), m.intact, NEW slot \in Slots, NEW at \in Pages,
           NEW page \in Pages, m.files[slot].page = page,
           NEW k, k = LinkLog(m, slot, page, m.hdr[page], at)
    PROVE  /\ Good(k, {})
           /\ \A p \in Pages : k.hdr[p] = IF p = page
                                          THEN [m.hdr[p] EXCEPT !.log_page = at] ELSE m.hdr[p]
           /\ k.fds = m.fds /\ \A s \in Slots : k.files[s].page = m.files[s].page
<1> DEFINE h == [m.hdr[page] EXCEPT !.log_page = at]
           b == [m EXCEPT !.files[slot].modified = TRUE]
           n == write_header(b, h, page)
<1>0. Rec(m) /\ Strong(m, {}) /\ m.hdr \in Images /\ m.files \in [Slots -> FileT]
  BY DEF Good, Strong, Typed
<1>1. k = Answer(n, at)
  BY DEF LinkLog
<1>2. /\ Rec(b) /\ b.hdr = m.hdr /\ b.fds = m.fds /\ b.next_free = m.next_free
      /\ b.gc_wait = m.gc_wait /\ b.seen = m.seen /\ b.intact
      /\ b.files = [m.files EXCEPT ![slot].modified = TRUE]
  BY <1>0 DEF Rec, Fields
<1> HIDE DEF b
<1>3. CachedFile(m, slot)
  BY <1>0, SlotFacts, Constants
<1>4. m.hdr[page] \in HeaderT /\ HDR_ACTIVE(m.hdr[page])
  BY <1>0, <1>3 DEF Images, CachedFile
<1>5. h \in HeaderT /\ h.kind = m.hdr[page].kind /\ h.max_pages = m.hdr[page].max_pages
      /\ HDR_MODIFIED(h)
  <2> PICK g \in HeaderT : g = m.hdr[page]
    BY <1>4
  <2>1. /\ [g EXCEPT !.log_page = at] \in HeaderT
        /\ [g EXCEPT !.log_page = at].kind = g.kind /\ [g EXCEPT !.log_page = at].log_page = at
        /\ [g EXCEPT !.log_page = at].max_pages = g.max_pages
    BY ONLY g \in HeaderT, at \in Pages DEF HeaderT
  <2> QED BY <2>1, Constants DEF HDR_MODIFIED
<1> HIDE DEF h
<1>6. \A s \in Slots : m.files[s].page = page <=> s = slot
  BY <1>3 DEF CachedFile
<1>7. /\ b.files \in [Slots -> FileT]
      /\ \A s \in Slots :
          /\ b.files[s].page = m.files[s].page
          /\ b.files[s].max_pages = m.files[s].max_pages
          /\ b.files[s].references = m.files[s].references
          /\ b.files[s].modified = IF s = slot THEN TRUE ELSE m.files[s].modified
  <2> DEFINE file == [m.files[slot] EXCEPT !.modified = TRUE]
  <2>1. m.files[slot] \in FileT
    BY <1>0
  <2>2. /\ file \in FileT /\ file.page = m.files[slot].page /\ file.modified = TRUE
        /\ file.max_pages = m.files[slot].max_pages /\ file.references = m.files[slot].references
    BY <2>1 DEF FileT
  <2>3. b.files = [m.files EXCEPT ![slot] = file]
    BY <1>2
  <2> HIDE DEF file
  <2>4. b.files[slot] = file /\ (\A s \in Slots : s # slot => b.files[s] = m.files[s])
        /\ b.files \in [Slots -> FileT]
    BY <1>0, <2>2, <2>3
  <2> QED BY <2>2, <2>4
<1>8. HDR_MODIFIED(h) = TRUE
  BY <1>5 DEF HDR_MODIFIED
<1>9. Remarked(m, b, page, h)
  BY <1>2, <1>6, <1>7, <1>8 DEF Remarked
<1>10. /\ Good(n, {}) /\ n.hdr[page] = h
       /\ \A p \in Pages \ {page} : n.hdr[p] = m.hdr[p]
       /\ n.fds = m.fds /\ n.files = b.files
  BY <1>4, <1>5, <1>9, GoodRewrite, SMTT(30)
<1>11. \A p \in Pages : n.hdr[p] = IF p = page THEN [m.hdr[p] EXCEPT !.log_page = at] ELSE m.hdr[p]
  BY <1>10, Zenon DEF h
<1> HIDE DEF n
<1>12. /\ Good(Answer(n, at), {}) /\ Answer(n, at).hdr = n.hdr
       /\ Answer(n, at).fds = m.fds /\ Answer(n, at).files = b.files
  BY <1>10, GoodAnswer
<1>13. \A s \in Slots : b.files[s].page = m.files[s].page
  BY <1>7
<1> HIDE DEF b
<1> QED BY <1>1, <1>11, <1>12, <1>13

\* Every descriptor is as open as it was, on the file of the same name.
FName(m, fd) == IF m.fds[fd] = NULL THEN NULL ELSE m.hdr[m.files[m.fds[fd]].page].name
Keeping(m, n) ==
    \A fd \in FDs : (n.fds[fd] = NULL <=> m.fds[fd] = NULL) /\ FName(n, fd) = FName(m, fd)

LEMMA KeptKeeping ==
    ASSUME NEW m, Strong(m, {}), NEW n, Kept(m, n), \A fd \in FDs : n.fds[fd] = m.fds[fd]
    PROVE  Keeping(m, n)
BY FdFacts DEF Kept, Keeping, FName, HDR_ACTIVE

LEMMA KeepingTwice ==
    ASSUME NEW m, NEW n, NEW k, Keeping(m, n), Keeping(n, k)
    PROVE  Keeping(m, k)
BY DEF Keeping

\* A log is at page at now, and the file at page says so.
Linked(i, j, page, at) ==
    /\ at \in Pages /\ ~HDR_ACTIVE(i[at])
    /\ j[at] = NewLog(i[page].name)
    /\ j[page] = [i[page] EXCEPT !.log_page = at]
    /\ \A p \in Pages \ {at, page} : HDR_ACTIVE(i[p]) \/ HDR_ACTIVE(j[p]) => j[p] = i[p]

Logged(i, j, page) == Same(i, j) \/ \E at \in Pages : Linked(i, j, page, at)

LEMMA GoodLog ==
    ASSUME NEW m, Good(m, {}), m.intact, NEW fd \in FDs, m.fds[fd] # NULL
    PROVE  LET n == create_log(m, m.fds[fd])
           IN  /\ Good(n, {})
               /\ n.intact => Keeping(m, n)
               /\ n.intact /\ SpareSlot(m) => Logged(m.hdr, n.hdr, m.files[m.fds[fd]].page)
<1> DEFINE slot == m.fds[fd]
           page == m.files[slot].page
           h == NewLog(m.hdr[page].name)
           n == reserve(m, h)
<1>0. Rec(m) /\ Strong(m, {}) /\ m.hdr \in Images
  BY DEF Good, Strong, Typed
<1>1. slot \in Slots /\ page \in Pages
  BY <1>0, FdFacts
<1>2. create_log(m, slot) = FinishLog(n, slot, page, m.hdr[page])
  BY DEF create_log
<1>3. h \in Asked
  <2>1. m.hdr[page].name \in Names \union {NULL}
    BY <1>0, <1>1 DEF Images, HeaderT
  <2> QED BY <2>1, CoffeeAssumption DEF NewLog, Page, Asked
<1> HIDE DEF h
<1>4. Good(n, {}) /\ (n.intact => Reserved(m, n, h))
  BY <1>3, GoodReserve
<1> HIDE DEF n
<1>5. CASE ~n.intact
  <2>1. Rec(n)
    BY <1>4 DEF Good
  <2>2. Later(n, FinishLog(n, slot, page, m.hdr[page]))
    BY <2>1, LaterAnswer, LaterLink DEF FinishLog
  <2> QED BY <1>2, <1>4, <1>5, <2>2, GoodOff
<1>6. CASE n.intact /\ n.ret = NULL
  <2>1. FinishLog(n, slot, page, m.hdr[page]) = Answer(n, FAILURE)
    BY <1>6 DEF FinishLog
  <2>2. SpareSlot(m) => Logged(m.hdr, n.hdr, page)
    BY <1>4, <1>6, ReservedIs DEF Logged
  <2>3. /\ Good(Answer(n, FAILURE), {}) /\ Answer(n, FAILURE).hdr = n.hdr
        /\ Answer(n, FAILURE).fds = n.fds /\ Answer(n, FAILURE).files = n.files
    BY <1>4, GoodAnswer
  <2>4. Keeping(m, Answer(n, FAILURE))
    <3>1. Kept(m, n) /\ n.fds = m.fds
      BY <1>4, <1>6 DEF Reserved
    <3>2. Kept(m, Answer(n, FAILURE))
      BY <2>3, <3>1 DEF Kept
    <3> QED BY <1>0, <2>3, <3>1, <3>2, KeptKeeping
  <2> QED BY <1>2, <2>1, <2>2, <2>3, <2>4
<1>7. CASE n.intact /\ n.ret # NULL
  <2>1. n.files[slot].page = page
    BY <1>4, <1>7 DEF Reserved, Kept
  <2>2. n.files[n.ret].page \in Pages
    BY <1>4, <1>7 DEF Reserved
  <2>10. n.hdr[page] = m.hdr[page]
    <3>1. HDR_ACTIVE(m.hdr[page])
      BY <1>0, FdFacts DEF CachedFile
    <3> QED BY <1>1, <1>4, <1>7, <3>1 DEF Reserved, Kept
  <2>3. FinishLog(n, slot, page, m.hdr[page]) = LinkLog(n, slot, page, n.hdr[page], n.files[n.ret].page)
    BY <1>7, <2>10 DEF FinishLog
  <2> DEFINE at == n.files[n.ret].page
             k == LinkLog(n, slot, page, n.hdr[page], at)
  <2>5. /\ Good(k, {})
        /\ \A p \in Pages : k.hdr[p] = IF p = page
                                       THEN [n.hdr[p] EXCEPT !.log_page = at] ELSE n.hdr[p]
        /\ k.fds = n.fds /\ \A s \in Slots : k.files[s].page = n.files[s].page
    <3> PICK at1 \in Pages : at1 = at
      BY <2>2
    <3> PICK slot1 \in Slots : slot1 = slot
      BY <1>1
    <3> PICK page1 \in Pages : page1 = page
      BY <1>1
    <3> PICK k1 : k1 = LinkLog(n, slot1, page1, n.hdr[page1], at1)
      OBVIOUS
    <3>1. Good(n, {}) /\ n.intact /\ n.files[slot1].page = page1
      BY <1>4, <1>7, <2>1
    <3> HIDE DEF at, slot, page
    <3>2. /\ Good(k1, {})
          /\ \A p \in Pages : k1.hdr[p] = IF p = page1
                                          THEN [n.hdr[p] EXCEPT !.log_page = at1] ELSE n.hdr[p]
          /\ k1.fds = n.fds /\ \A s \in Slots : k1.files[s].page = n.files[s].page
      BY ONLY <3>1, slot1 \in Slots, at1 \in Pages, page1 \in Pages, GoodLink,
              k1 = LinkLog(n, slot1, page1, n.hdr[page1], at1)
    <3>3. k1 = k /\ at1 = at /\ slot1 = slot /\ page1 = page
      OBVIOUS
    <3> QED BY <3>2, <3>3
  <2> HIDE DEF k
  <2>6. ASSUME SpareSlot(m) PROVE Linked(m.hdr, k.hdr, page, at)
    <3>1. Added(m.hdr, n.hdr, at, h)
      BY <1>4, <1>7, <2>6, ReservedIs
    <3>2. HDR_ACTIVE(m.hdr[page])
      BY <1>0, FdFacts DEF CachedFile
    <3>3. n.hdr[page] = m.hdr[page] /\ at # page
      BY <1>1, <3>1, <3>2, Zenon DEF Added
    <3> QED BY <1>1, <2>1, <2>5, <3>1, <3>2, <3>3, ZenonT(40) DEF Added, Linked, h
  <2>7. SpareSlot(m) => Logged(m.hdr, k.hdr, page)
    BY <2>2, <2>6 DEF Logged
  <2>8. create_log(m, slot) = k
    BY <1>2, <2>3 DEF k
  <2>9. Keeping(m, k)
    <3>1. Kept(m, n) /\ n.fds = m.fds /\ Strong(n, {}) /\ n.hdr \in Images
      BY <1>4, <1>7 DEF Reserved, Good, Strong, Typed
    <3>2. Keeping(m, n)
      BY <1>0, <3>1, KeptKeeping
    <3>3. ASSUME NEW p \in Pages PROVE k.hdr[p].name = n.hdr[p].name
      <4>1. n.hdr[p] \in HeaderT
        BY <3>1 DEF Images
      <4>2. [n.hdr[p] EXCEPT !.log_page = at].name = n.hdr[p].name
        BY <4>1 DEF HeaderT
      <4> QED BY <2>5, <4>2
    <3>4. Keeping(n, k)
      <4> SUFFICES ASSUME NEW d \in FDs, n.fds[d] # NULL PROVE FName(k, d) = FName(n, d)
        BY <2>5 DEF Keeping, FName
      <4>1. n.fds[d] \in Slots /\ n.files[n.fds[d]].page \in Pages
        BY <3>1, FdFacts
      <4>2. k.fds[d] = n.fds[d] /\ k.files[n.fds[d]].page = n.files[n.fds[d]].page
        BY <2>5, <4>1
      <4> QED BY <3>3, <4>1, <4>2 DEF FName
    <3> QED BY <3>2, <3>4, KeepingTwice
  <2> QED BY <2>5, <2>7, <2>8, <2>9
<1> QED BY <1>4, <1>5, <1>6, <1>7 DEF Good, Rec

-----------------------------------------------------------------------------
(* Merges *)

LEMMA GoodRedirect ==
    ASSUME NEW m, Good(m, {}), m.intact, NEW page \in Pages, NEW slot \in Slots,
           m.files[slot].page \in Pages, m.files[slot].page # page,
           m.hdr[m.files[slot].page].kind = "file"
    PROVE  LET n == Redirect(m, page, slot)
           IN  /\ Good(n, Holding(m, page)) /\ n.intact /\ n.hdr = m.hdr
               /\ \A s \in Slots : n.files[s].page = m.files[s].page
               /\ \A fd \in FDs :
                     n.fds[fd] = IF m.fds[fd] # NULL /\ m.files[m.fds[fd]].page = page THEN slot
                                 ELSE m.fds[fd]
               /\ Unused(n, page)
<1> DEFINE moved == {fd \in FDs : m.fds[fd] # NULL /\ m.files[m.fds[fd]].page = page}
           fds == [fd \in FDs |-> IF fd \in moved THEN slot ELSE m.fds[fd]]
           c == m.files[slot].references + Cardinality(moved)
           n == [m EXCEPT !.fds = fds, !.files[slot].references = c]
           gone == {s \in Slots : m.files[s].page = page}
<1>0. Rec(m) /\ Strong(m, {}) /\ m.files \in [Slots -> FileT] /\ m.fds \in [FDs -> Slots \union {NULL}]
  BY DEF Good, Strong, Typed
<1>1. Redirect(m, page, slot) = n
  BY <1>0 DEF Redirect, Rec, Fields
<1>2. fds \in [FDs -> Slots \union {NULL}] /\ \A fd \in FDs : fds[fd] = IF fd \in moved THEN slot ELSE m.fds[fd]
  BY <1>0
<1> HIDE DEF fds, c
<1>3. /\ Rec(n) /\ n.hdr = m.hdr /\ n.fds = fds /\ n.next_free = m.next_free /\ n.gc_wait = m.gc_wait
      /\ n.seen = m.seen /\ n.intact = m.intact
      /\ n.files = [m.files EXCEPT ![slot].references = c]
  BY <1>0 DEF Rec, Fields
<1> HIDE DEF n
<1>4. slot # NULL
  BY Constants
<1>5. Refs(n, slot) = Refs(m, slot) \union moved /\ Refs(m, slot) \cap moved = {}
  BY <1>2, <1>3, <1>4 DEF Refs
<1>6. \A s \in gone : Refs(n, s) = {}
  <2> SUFFICES ASSUME NEW s \in gone, NEW fd \in FDs, fds[fd] = s PROVE FALSE
    BY <1>3 DEF Refs
  <2>1. s # slot /\ s # NULL
    BY Constants
  <2>2. fd \notin moved /\ m.fds[fd] = s
    BY <1>2, <2>1
  <2> QED BY <2>1, <2>2
<1>7. \A s \in Slots : s # slot /\ s \notin gone => Refs(n, s) = Refs(m, s)
  <2> SUFFICES ASSUME NEW s \in Slots, s # slot, s \notin gone PROVE Refs(n, s) = Refs(m, s)
    OBVIOUS
  <2>1. \A fd \in FDs : fds[fd] = s <=> m.fds[fd] = s
    BY <1>2
  <2> QED BY <1>3, <2>1 DEF Refs
<1>8. c = Cardinality(Refs(n, slot))
  <2>1. IsFiniteSet(Refs(m, slot)) /\ IsFiniteSet(Refs(n, slot))
        /\ Cardinality(Refs(m, slot)) \in Nat
    BY RefsFinite
  <2>2. moved \in SUBSET Refs(n, slot)
    BY <1>5
  <2>3. IsFiniteSet(moved)
    BY <2>1, <2>2, FS_Subset
  <2> HIDE DEF moved
  <2>4. Cardinality(Refs(n, slot)) = Cardinality(Refs(m, slot)) + Cardinality(moved)
                                     - Cardinality(Refs(m, slot) \cap moved)
    BY <1>5, <2>1, <2>3, FS_Union
  <2>5. Cardinality(moved) \in Nat /\ Cardinality(Refs(m, slot) \cap moved) = 0
    BY <1>5, <2>3, FS_CardinalityType, FS_EmptySet
  <2>6. m.files[slot].references = Cardinality(Refs(m, slot))
    BY <1>0 DEF Strong, Counted
  <2> QED BY <2>1, <2>4, <2>5, <2>6 DEF c
<1>9. c \in 0..COFFEE_FD_SET_SIZE
  BY <1>8, RefsFinite
<1>10. /\ n.files \in [Slots -> FileT] /\ n.files[slot].references = c
       /\ \A s \in Slots \ {slot} : n.files[s] = m.files[s]
       /\ \A s \in Slots : /\ n.files[s].page = m.files[s].page
                           /\ n.files[s].max_pages = m.files[s].max_pages
                           /\ n.files[s].modified = m.files[s].modified
  BY <1>0, <1>3, <1>9 DEF FileT
<1>11. Counted(n, gone)
  <2> SUFFICES ASSUME NEW s \in Slots
               PROVE  IF s \in gone THEN Refs(n, s) = {}
                      ELSE n.files[s].references = Cardinality(Refs(n, s))
    BY DEF Counted
  <2>1. m.files[s].references = Cardinality(Refs(m, s))
    BY <1>0 DEF Strong, Counted
  <2>2. CASE s \in gone
    BY <1>6, <2>2
  <2>3. CASE s \notin gone /\ s = slot
    BY <1>8, <1>10, <2>3
  <2>4. CASE s \notin gone /\ s # slot
    BY <1>7, <1>10, <2>1, <2>4
  <2> QED BY <2>2, <2>3, <2>4
<1>12. Cached(n)
  <2> SUFFICES ASSUME NEW s \in Slots
               PROVE  IF FILE_FREE(n.files[s]) THEN n.files[s].page = INVALID_PAGE ELSE CachedFile(n, s)
    BY DEF Cached
  <2>1. IF FILE_FREE(m.files[s]) THEN m.files[s].page = INVALID_PAGE ELSE CachedFile(m, s)
    BY <1>0 DEF Strong, Cached
  <2> QED BY <1>3, <1>10, <2>1 DEF CachedFile, FILE_FREE
<1>13. ASSUME NEW fd \in FDs, n.fds[fd] # NULL
       PROVE  /\ ~FILE_FREE(n.files[n.fds[fd]]) /\ n.hdr[n.files[n.fds[fd]].page].kind = "file"
              /\ n.files[n.fds[fd]].page # page
  <2>1. CASE fd \in moved
    <3>1. n.fds[fd] = slot
      BY <1>2, <1>3, <2>1
    <3>2. ~FILE_FREE(m.files[slot])
      BY <1>0, SlotFacts, Constants
    <3> QED BY <1>3, <1>10, <3>1, <3>2 DEF FILE_FREE
  <2>2. CASE fd \notin moved
    <3>1. n.fds[fd] = m.fds[fd] /\ m.fds[fd] # NULL /\ m.files[m.fds[fd]].page # page
      BY <1>2, <1>3, <1>13, <2>2
    <3>2. m.fds[fd] \in Slots /\ ~FILE_FREE(m.files[m.fds[fd]])
          /\ m.hdr[m.files[m.fds[fd]].page].kind = "file"
      BY <1>0, <3>1, FdFacts
    <3>3. n.files[m.fds[fd]].page = m.files[m.fds[fd]].page
          /\ n.files[m.fds[fd]].max_pages = m.files[m.fds[fd]].max_pages
      BY <1>10, <3>2
    <3> QED BY <1>3, <3>1, <3>2, <3>3 DEF FILE_FREE
  <2> QED BY <2>1, <2>2
<1>14. Good(n, gone)
  <2>1. Strong(n, gone)
    BY <1>0, <1>2, <1>3, <1>10, <1>11, <1>12, <1>13, Zenon DEF Strong, Typed, Connected
  <2> QED BY <1>3, <2>1, SpaceSame DEF Good, CutsOK
<1>15. \A fd \in FDs :
          n.fds[fd] = IF m.fds[fd] # NULL /\ m.files[m.fds[fd]].page = page THEN slot ELSE m.fds[fd]
  BY <1>2, <1>3
<1>16. Good(n, Holding(m, page))
  BY <1>14 DEF Holding
<1>17. Unused(n, page) /\ \A s \in Slots : n.files[s].page = m.files[s].page
  BY <1>10, <1>13 DEF Unused
<1> QED BY <1>1, <1>3, <1>15, <1>16, <1>17

\* The file at page, the log it has included.
WithLog(image, page) == {page} \union (IF HDR_MODIFIED(image[page]) THEN {image[page].log_page} ELSE {})

\* A removal that has succeeded, with or without closing descriptors.
Removed(m, n, page, close) ==
    /\ n.intact /\ n.ret = 0
    /\ \A fd \in FDs :
          n.fds[fd] = IF close /\ m.fds[fd] # NULL /\ m.files[m.fds[fd]].page = page THEN NULL
                      ELSE m.fds[fd]
    /\ \A p \in Pages : IF p \in WithLog(m.hdr, page) THEN ~HDR_ACTIVE(n.hdr[p])
                                                      ELSE n.hdr[p] = m.hdr[p]
    /\ \A s \in Slots : n.files[s] = IF m.files[s].page \in WithLog(m.hdr, page) THEN NoFile
                                     ELSE m.files[s]

\* The old extent and its log go.
LEMMA GoodRemoved ==
    ASSUME NEW m, NEW page \in Pages, NEW gone \in SUBSET Holding(m, page), Good(m, gone), m.intact,
           m.hdr[page].kind = "file", LogAlive(m.hdr, page), NEW close \in BOOLEAN,
           close \/ Unused(m, page)
    PROVE  LET n == remove_by_page(m, page, TRUE, close)
           IN  Good(n, {}) /\ Removed(m, n, page, close)
<1> DEFINE n == remove_by_page(m, page, TRUE, close)
           at == m.hdr[page].log_page
           k == Obsolete(m, at, FALSE)
<1>1. Rec(m) /\ Strong(m, gone) /\ m.hdr \in Images /\ HDR_ACTIVE(m.hdr[page])
  BY DEF Good, Strong, Typed, HDR_ACTIVE
<1>2. CASE ~HDR_MODIFIED(m.hdr[page])
  <2>1. n = Obsolete(m, page, close)
    BY <1>1, <1>2 DEF remove_by_page
  <2> HIDE DEF n
  <2>2. Good(n, gone \ Holding(m, page)) /\ Obsoleted(m, n, page)
    BY <1>1, <2>1, GoodObsolete
  <2>3. gone \ Holding(m, page) = {}
    OBVIOUS
  <2>4. WithLog(m.hdr, page) = {page}
    BY <1>2 DEF WithLog
  <2>5. Removed(m, n, page, close)
    BY <2>2, <2>4 DEF Obsoleted, Unused, Removed
  <2> QED BY <2>2, <2>3, <2>5 DEF n
<1>3. CASE HDR_MODIFIED(m.hdr[page])
  <2>1. at \in Pages /\ m.hdr[at].kind = "log" /\ HDR_ACTIVE(m.hdr[at]) /\ at # page
    BY <1>1, <1>3 DEF LogAlive, HDR_MODIFIED, HDR_ACTIVE, Images, HeaderT
  <2>2. n = Obsolete(k, page, close)
    BY <1>1, <1>3, <2>1 DEF remove_by_page
  <2>11. WithLog(m.hdr, page) = {page, at}
    BY <1>3 DEF WithLog
  <2> HIDE DEF n, at
  <2>3. Unused(m, at)
    BY <1>1, <2>1, LogUnused
  <2>4. Good(k, gone \ Holding(m, at)) /\ Obsoleted(m, k, at)
    BY <2>1, <2>3, GoodObsolete
  <2> HIDE DEF k
  <2>5. k.intact /\ \A fd \in FDs : k.fds[fd] = m.fds[fd]
    BY <2>3, <2>4 DEF Obsoleted, Unused
  <2>6. HDR_ACTIVE(k.hdr[page])
    BY <1>1, <2>1, <2>4 DEF Obsoleted
  <2>7. close \/ Unused(k, page)
    <3> SUFFICES ASSUME ~close, NEW fd \in FDs, k.fds[fd] # NULL PROVE k.files[k.fds[fd]].page # page
      BY DEF Unused
    <3>1. m.fds[fd] # NULL /\ m.files[m.fds[fd]].page # page /\ m.files[m.fds[fd]].page # at
      BY <2>3, <2>5 DEF Unused
    <3>2. m.fds[fd] \in Slots
      BY <1>1, <3>1, FdFacts
    <3> QED BY <2>4, <2>5, <3>1, <3>2 DEF Obsoleted
  <2> DEFINE rest == gone \ Holding(m, at)
  <2>8. Good(n, rest \ Holding(k, page)) /\ Obsoleted(k, n, page)
    <3>1. Good(k, rest)
      BY <2>4
    <3> HIDE DEF rest
    <3> QED BY <2>2, <2>5, <2>6, <2>7, <3>1, GoodObsolete
  <2>9. Holding(m, page) \subseteq Holding(k, page)
    BY <2>1, <2>4 DEF Holding, Obsoleted
  <2>10. rest \ Holding(k, page) = {}
    BY <2>9
  <2>12. ASSUME NEW p \in Pages
         PROVE  IF p \in {page, at} THEN ~HDR_ACTIVE(n.hdr[p]) ELSE n.hdr[p] = m.hdr[p]
    BY <2>1, <2>4, <2>8 DEF Obsoleted
  <2>13. ASSUME NEW s \in Slots
         PROVE  n.files[s] = IF m.files[s].page \in {page, at} THEN NoFile ELSE m.files[s]
    <3>1. NoFile.page # page
      BY Constants DEF NoFile
    <3> QED BY <2>1, <2>4, <2>8, <3>1 DEF Obsoleted
  <2>15. ASSUME NEW fd \in FDs
         PROVE  n.fds[fd] = IF close /\ m.fds[fd] # NULL /\ m.files[m.fds[fd]].page = page THEN NULL
                            ELSE m.fds[fd]
    <3>1. m.fds[fd] # NULL => m.fds[fd] \in Slots /\ m.files[m.fds[fd]].page # at
      BY <1>1, <2>3, FdFacts DEF Unused
    <3>2. m.fds[fd] # NULL => k.files[m.fds[fd]].page = m.files[m.fds[fd]].page
      BY <2>4, <3>1 DEF Obsoleted
    <3>3. n.fds[fd] = IF m.fds[fd] # NULL /\ m.files[m.fds[fd]].page = page THEN NULL ELSE m.fds[fd]
      BY <2>5, <2>8, <3>2 DEF Obsoleted
    <3>4. ~close => ~(m.fds[fd] # NULL /\ m.files[m.fds[fd]].page = page)
      BY <2>5, <2>7, <3>2 DEF Unused
    <3> QED BY <3>3, <3>4
  <2>14. Removed(m, n, page, close)
    BY <2>8, <2>11, <2>12, <2>13, <2>15 DEF Obsoleted, Removed
  <2> QED BY <2>8, <2>10, <2>14 DEF n
<1> QED BY <1>2, <1>3

LEMMA GoodWhole ==
    ASSUME NEW m, Good(m, {}), m.intact, NEW at \in Pages, HDR_ACTIVE(m.hdr[at]), NEW whole \in BOOLEAN
    PROVE  LET n == write_header(m, [m.hdr[at] EXCEPT !.whole = whole], at)
           IN  /\ Good(n, {}) /\ n.intact /\ n.hdr[at].kind = m.hdr[at].kind
               /\ n.hdr[at] = [m.hdr[at] EXCEPT !.whole = whole]
               /\ \A p \in Pages \ {at} : n.hdr[p] = m.hdr[p]
               /\ n.fds = m.fds /\ n.files = m.files /\ n.ret = m.ret
<1> DEFINE h == [m.hdr[at] EXCEPT !.whole = whole]
           n == write_header(m, h, at)
<1>0. Rec(m) /\ Strong(m, {}) /\ m.hdr \in Images /\ m.files \in [Slots -> FileT]
  BY DEF Good, Strong, Typed
<1>1. m.hdr[at] \in HeaderT
  BY <1>0 DEF Images
<1>2. h \in HeaderT /\ h.kind = m.hdr[at].kind /\ h.max_pages = m.hdr[at].max_pages
      /\ h.log_page = m.hdr[at].log_page
  BY <1>1 DEF HeaderT
<1> HIDE DEF h
<1>3. HDR_MODIFIED(h) = HDR_MODIFIED(m.hdr[at])
  BY <1>2 DEF HDR_MODIFIED
<1>4. ASSUME NEW s \in Slots, m.files[s].page = at PROVE m.files[s].modified = HDR_MODIFIED(h)
  <2>1. CachedFile(m, s)
    BY <1>0, <1>4, SlotFacts, Constants
  <2> QED BY <1>3, <1>4, <2>1 DEF CachedFile
<1>5. Remarked(m, m, at, h)
  BY <1>0, <1>4 DEF Remarked
<1>6. /\ Good(n, {}) /\ n.intact /\ n.hdr[at] = h
      /\ \A p \in Pages \ {at} : n.hdr[p] = m.hdr[p]
      /\ n.fds = m.fds /\ n.files = m.files /\ n.ret = m.ret
  BY <1>2, <1>5, GoodRewrite
<1> QED BY <1>2, <1>6 DEF h

\* The file at page and its log are gone, and what they held is at page at.
Replaced(m, n, fd, page, at, whole) ==
    /\ n.intact
    /\ \A d \in FDs :
          n.fds[d] = IF d = fd THEN NULL
                     ELSE IF m.fds[d] # NULL /\ m.files[m.fds[d]].page = page THEN m.ret ELSE m.fds[d]
    /\ n.hdr[at] = [m.hdr[at] EXCEPT !.whole = whole]
    /\ \A p \in Pages \ {at} : IF p \in WithLog(m.hdr, page) THEN ~HDR_ACTIVE(n.hdr[p])
                                                          ELSE n.hdr[p] = m.hdr[p]
    /\ \A s \in Slots : n.files[s].page = IF m.files[s].page \in WithLog(m.hdr, page)
                                          THEN INVALID_PAGE ELSE m.files[s].page

LEMMA GoodReplaced ==
    ASSUME NEW m, Good(m, {}), m.intact, NEW page \in Pages, m.hdr[page].kind = "file",
           LogAlive(m.hdr, page), NEW fd \in FDs, m.fds[fd] # NULL, m.ret \in Slots,
           NEW at \in Pages, m.files[m.ret].page = at, m.hdr[at].kind = "file", at # page,
           NEW whole \in BOOLEAN
    PROVE  LET n == Replace(m, fd, page, at, whole)
           IN  Good(n, {}) /\ Replaced(m, n, fd, page, at, whole)
<1> DEFINE c == write_header(m, [m.hdr[at] EXCEPT !.whole = whole], at)
           k == Redirect(c, page, m.ret)
           r == remove_by_page(k, page, TRUE, FALSE)
           n == Close(r, fd)
<1>0. Rec(m) /\ Strong(m, {}) /\ m.hdr \in Images
  BY DEF Good, Strong, Typed
<1>14. c.hdr[at] = [m.hdr[at] EXCEPT !.whole = whole]
  BY GoodWhole DEF HDR_ACTIVE
<1>1. /\ Good(c, {}) /\ c.intact /\ c.hdr[at].kind = "file"
      /\ \A p \in Pages \ {at} : c.hdr[p] = m.hdr[p]
      /\ c.fds = m.fds /\ c.files = m.files
  BY GoodWhole DEF HDR_ACTIVE
<1>2. Replace(m, fd, page, at, whole) = FinishMerge(r, fd, at)
  BY DEF Replace
<1> HIDE DEF c
<1>3. /\ Good(k, Holding(c, page)) /\ k.intact /\ k.hdr = c.hdr
      /\ \A s \in Slots : k.files[s].page = c.files[s].page
      /\ \A d \in FDs : k.fds[d] = IF c.fds[d] # NULL /\ c.files[c.fds[d]].page = page THEN m.ret
                                   ELSE c.fds[d]
      /\ Unused(k, page)
  BY <1>1, GoodRedirect
<1> HIDE DEF k
<1>4. Holding(c, page) \in SUBSET Holding(k, page)
  BY <1>3 DEF Holding
<1>5. k.hdr[page] = m.hdr[page] /\ k.hdr[page].kind = "file"
  BY <1>1, <1>3
<1>6. LogAlive(k.hdr, page)
  <2> SUFFICES ASSUME HDR_MODIFIED(m.hdr[page])
               PROVE  k.hdr[m.hdr[page].log_page] = m.hdr[m.hdr[page].log_page]
    BY <1>5 DEF LogAlive
  <2>1. m.hdr[page].log_page \in Pages
    BY <1>0 DEF HDR_MODIFIED, Images, HeaderT
  <2>2. m.hdr[page].log_page # at
    BY DEF LogAlive
  <2> QED BY <1>1, <1>3, <2>1, <2>2
<1>11. WithLog(k.hdr, page) = WithLog(m.hdr, page) /\ at \notin WithLog(m.hdr, page)
  BY <1>5 DEF WithLog, LogAlive
<1>7. /\ Good(r, {}) /\ r.intact /\ r.ret = 0 /\ \A d \in FDs : r.fds[d] = k.fds[d]
      /\ Removed(k, r, page, FALSE)
  <2> PICK no \in BOOLEAN : no = FALSE
    OBVIOUS
  <2>1. r = remove_by_page(k, page, TRUE, no)
    OBVIOUS
  <2>2. no \/ Unused(k, page)
    BY <1>3
  <2> HIDE DEF r
  <2> PICK gone \in SUBSET Holding(k, page) : Good(k, gone)
    BY <1>3, <1>4
  <2>3. k.intact
    BY <1>3
  <2>4. Good(r, {}) /\ Removed(k, r, page, no)
    BY <1>5, <1>6, <2>1, <2>2, <2>3, GoodRemoved
  <2>5. no = FALSE
    OBVIOUS
  <2> HIDE DEF k
  <2> QED BY <2>4, <2>5 DEF Removed
<1> HIDE DEF r
<1>8. FinishMerge(r, fd, at) = n
  BY <1>7, Constants DEF FinishMerge
<1>9. r.fds[fd] # NULL
  BY <1>1, <1>3, <1>7, Constants
<1>10. /\ Good(n, {}) /\ n.intact /\ n.hdr = r.hdr
       /\ n.fds[fd] = NULL /\ \A d \in FDs : d # fd => n.fds[d] = r.fds[d]
       /\ \A s \in Slots : n.files[s].page = r.files[s].page
  BY <1>7, <1>9, GoodClose
<1> HIDE DEF n
<1>12. /\ n.hdr[at] = [m.hdr[at] EXCEPT !.whole = whole]
       /\ \A p \in Pages \ {at} : IF p \in WithLog(m.hdr, page) THEN ~HDR_ACTIVE(n.hdr[p])
                                                             ELSE n.hdr[p] = m.hdr[p]
  BY <1>1, <1>3, <1>7, <1>10, <1>11, <1>14 DEF Removed
<1>13. \A s \in Slots : n.files[s].page = IF m.files[s].page \in WithLog(m.hdr, page)
                                          THEN INVALID_PAGE ELSE m.files[s].page
  <2>1. NoFile.page = INVALID_PAGE
    BY DEF NoFile
  <2> QED BY <1>1, <1>3, <1>7, <1>10, <1>11, <2>1 DEF Removed
<1>15. \A d \in FDs :
          n.fds[d] = IF d = fd THEN NULL
                     ELSE IF m.fds[d] # NULL /\ m.files[m.fds[d]].page = page THEN m.ret ELSE m.fds[d]
  BY <1>1, <1>3, <1>7, <1>10
<1> QED BY <1>2, <1>8, <1>10, <1>12, <1>13, <1>15 DEF Replaced

\* What a merge needs of the cache: a slot to spare, and one slot that holds the file.
Ready(m, page) ==
    /\ SpareSlot(m) /\ Busy(m, m.hdr[page].name)
    /\ \E s \in Slots : m.files[s].page = page

\* The file at page is at page at now, with what the file of its name at page from
\* held; it and its log are gone, and no other extent has changed.
Moved(i, j, page, at, from) ==
    /\ at \in Pages /\ ~HDR_ACTIVE(i[at])
    /\ from \in Pages /\ IsNamed(i[from], i[page].name)
    /\ \E pages \in Nat : j[at] = [NewFile(i[page].name, pages) EXCEPT !.whole = i[from].whole]
    /\ \A p \in Pages \ {at} : IF p \in WithLog(i, page) THEN ~HDR_ACTIVE(j[p])
                               ELSE HDR_ACTIVE(i[p]) \/ HDR_ACTIVE(j[p]) => j[p] = i[p]

\* The descriptors of the file at page are on its copy at page at.
LEMMA ReplacedKeeping ==
    ASSUME NEW m, Strong(m, {}), NEW k, NEW fd \in FDs, m.fds[fd] = NULL, Kept(m, k),
           \A d \in FDs : d # fd => k.fds[d] = m.fds[d],
           NEW page \in Pages, m.hdr[page].kind = "file", LogAlive(m.hdr, page),
           k.ret \in Slots, NEW at \in Pages, k.files[k.ret].page = at, ~HDR_ACTIVE(m.hdr[at]),
           k.hdr[at] \in HeaderT, k.hdr[at].name = m.hdr[page].name,
           NEW whole, NEW n, Replaced(k, n, fd, page, at, whole)
    PROVE  Keeping(m, n)
<1>1. \A p \in Pages : HDR_ACTIVE(m.hdr[p]) => k.hdr[p] = m.hdr[p] /\ p # at
  BY DEF Kept
<1>2. k.hdr[page] = m.hdr[page] /\ page # at
  BY <1>1 DEF HDR_ACTIVE
<1>3. at \notin WithLog(k.hdr, page)
      /\ \A p \in Pages : m.hdr[p].kind = "file" /\ p # page => p \notin WithLog(k.hdr, page)
  BY <1>2 DEF WithLog, LogAlive, HDR_ACTIVE
<1>4. n.hdr[at].name = m.hdr[page].name
  BY DEF Replaced, HeaderT
<1>5. k.ret # NULL
  BY Constants
<1> SUFFICES ASSUME NEW d \in FDs
             PROVE  (n.fds[d] = NULL <=> m.fds[d] = NULL) /\ FName(n, d) = FName(m, d)
  BY DEF Keeping
<1>6. CASE d = fd
  BY <1>6 DEF Replaced, FName
<1>7. CASE d # fd /\ m.fds[d] = NULL
  BY <1>7 DEF Replaced, FName
<1>8. CASE d # fd /\ m.fds[d] # NULL
  <2> DEFINE p == m.files[m.fds[d]].page
  <2>1. m.fds[d] \in Slots /\ p \in Pages /\ m.hdr[p].kind = "file"
    BY <1>8, FdFacts, SMTT(30)
  <2>2. k.fds[d] = m.fds[d] /\ k.files[m.fds[d]].page = p
    BY <1>8 DEF Kept
  <2> HIDE DEF p
  <2>3. CASE p = page
    <3>1. n.fds[d] = k.ret
      BY <1>8, <2>2, <2>3 DEF Replaced
    <3>2. n.files[k.ret].page = at
      BY <1>3 DEF Replaced
    <3> QED BY <1>4, <1>5, <1>8, <2>3, <3>1, <3>2 DEF FName, p
  <2>4. CASE p # page
    <3>1. n.fds[d] = m.fds[d]
      BY <1>8, <2>2, <2>4 DEF Replaced
    <3>2. n.files[m.fds[d]].page = p
      BY <1>3, <2>1, <2>2, <2>4 DEF Replaced
    <3>3. n.hdr[p] = m.hdr[p]
      BY <1>1, <1>3, <2>1, <2>4 DEF Replaced, HDR_ACTIVE
    <3> QED BY <1>8, <3>1, <3>2, <3>3 DEF FName, p
  <2> QED BY <2>3, <2>4
<1> QED BY <1>6, <1>7, <1>8

LEMMA ClosedKeeping ==
    ASSUME NEW m, Strong(m, {}), NEW k, NEW fd \in FDs, m.fds[fd] = NULL, Kept(m, k),
           \A d \in FDs : d # fd => k.fds[d] = m.fds[d],
           NEW n, n.hdr = k.hdr, n.fds[fd] = NULL, \A d \in FDs : d # fd => n.fds[d] = k.fds[d],
           \A s \in Slots : n.files[s].page = k.files[s].page
    PROVE  Keeping(m, n)
<1>1. \A d \in FDs : n.fds[d] = m.fds[d]
  OBVIOUS
<1>2. \A d \in FDs : m.fds[d] # NULL => m.fds[d] \in Slots
  BY FdFacts
<1>3. Kept(m, n)
  BY <1>1, <1>2 DEF Kept
<1> QED BY <1>1, <1>3, KeptKeeping

Merged(m, n, page) ==
    \/ n.ret = FAILURE /\ Same(m.hdr, n.hdr)
    \/ SpareSlot(n) /\ \E at, from \in Pages : Moved(m.hdr, n.hdr, page, at, from)

LEMMA ReadySlot ==
    ASSUME NEW m, Good(m, {}), m.intact, NEW page \in Pages, m.hdr[page].kind = "file",
           Ready(m, page), NEW k, Kept(m, k)
    PROVE  \E s \in Slots : k.files[s].page = page
<1>1. PICK s \in Slots : m.files[s].page = page
  BY DEF Ready
<1>2. Strong(m, {})
  BY DEF Good
<1>3. ~FILE_FREE(m.files[s])
  <2>1. INVALID_PAGE \notin Pages
    BY Constants
  <2> QED BY <1>1, <1>2, <2>1, SlotFacts
<1>4. Holds(m, s, m.hdr[page].name)
  BY <1>1, <1>3 DEF Holds, IsNamed
<1>5. PICK fd \in FDs : m.fds[fd] # NULL /\ s = m.fds[fd]
  BY <1>4 DEF Ready, Busy
<1> QED BY <1>1, <1>5 DEF Kept

LEMMA WholeTwice ==
    ASSUME NEW name, NEW pages, NEW a, NEW b
    PROVE  [[NewFile(name, pages) EXCEPT !.whole = a] EXCEPT !.whole = b]
               = [NewFile(name, pages) EXCEPT !.whole = b]
BY DEF NewFile, Page

LEMMA GoodMerge ==
    ASSUME NEW m, Good(m, {}), m.intact, NEW page \in Pages, m.hdr[page].kind = "file",
           LogAlive(m.hdr, page), NEW extend
    PROVE  LET n == merge_log(m, page, extend)
           IN  /\ Good(n, {}) /\ (n.intact => Keeping(m, n))
               /\ n.intact /\ Ready(m, page) => Merged(m, n, page)
<1> DEFINE o == Open(m, m.hdr[page].name, FALSE)
           h == o.hdr[page]
           new == [NewFile(h.name, Extended(h.max_pages, extend)) EXCEPT !.whole = FALSE]
           whole == o.hdr[o.files[o.fds[o.ret]].page].whole
           k == reserve(o, new)
           n == CopyTo(k, o.ret, page, whole)
<1>0. Rec(m) /\ Strong(m, {}) /\ m.hdr \in Images /\ m.hdr[page] \in HeaderT
  BY DEF Good, Strong, Typed, Images
<1>1. /\ Good(o, {})
      /\ o.intact /\ o.ret # FAILURE => /\ Kept(m, o) /\ o.ret \in FDs
                                        /\ m.fds[o.ret] = NULL /\ o.fds[o.ret] # NULL
      /\ o.intact /\ o.ret = FAILURE => Kept(m, o)
      /\ o.intact => Opened(m, o, m.hdr[page].name, FALSE)
  <2>1. m.hdr[page].name \in Names \union {NULL}
    BY <1>0 DEF HeaderT
  <2> PICK no \in BOOLEAN : no = FALSE
    OBVIOUS
  <2>2. o = Open(m, m.hdr[page].name, no)
    OBVIOUS
  <2> HIDE DEF o
  <2> QED BY <2>1, <2>2, GoodOpen
<1>2. merge_log(m, page, extend) = IF o.ret = FAILURE THEN o ELSE n
  BY DEF merge_log, MergeOpened
<1>3. CASE o.ret = FAILURE
  <2>1. merge_log(m, page, extend) = o
    BY <1>2, <1>3, Zenon
  <2> HIDE DEF o
  <2>2. o.intact => Merged(m, o, page)
    BY <1>1, <1>3 DEF Opened, Merged, Same
  <2>3. o.intact => \A d \in FDs : o.fds[d] = m.fds[d]
    BY <1>1, <1>3, Constants DEF Opened
  <2>4. o.intact => Keeping(m, o)
    BY <1>0, <1>1, <1>3, <2>3, KeptKeeping
  <2> QED BY <1>1, <1>3, <2>1, <2>2, <2>4
<1>4. CASE o.ret # FAILURE
  <2>1. merge_log(m, page, extend) = n
    BY <1>2, <1>4, Zenon
  <2> HIDE DEF o
  <2>2. CASE ~o.intact
    <3>1. Later(o, k) /\ Rec(k)
      BY <1>1, LaterReserve, LaterRec DEF Good
    <3> HIDE DEF k
    <3>2. Later(o, n)
      BY <3>1, LaterCopy, LaterTwice
    <3> HIDE DEF n
    <3>3. Good(n, {}) /\ ~n.intact
      BY <1>1, <2>2, <3>2, GoodOff
    <3> QED BY <2>1, <3>3
  <2>3. CASE o.intact
    <3> DEFINE fd == o.ret
    <3>1. Kept(m, o) /\ fd \in FDs /\ m.fds[fd] = NULL /\ o.fds[fd] # NULL
      BY <1>1, <1>4, <2>3
    <3>2. h = m.hdr[page] /\ h \in HeaderT /\ HDR_ACTIVE(h)
      BY <1>0, <3>1 DEF Kept, HDR_ACTIVE
    <3>3. new \in Asked /\ new.kind = "file"
      <4>1. h.name \in Names \union {NULL} /\ h.max_pages \in Nat /\ h.max_pages >= 1
        BY <3>2 DEF HeaderT
      <4>2. Extended(h.max_pages, extend) \in Nat \ {0}
        BY <4>1 DEF Extended
      <4> QED BY <4>1, <4>2 DEF NewFile, Page, Asked
    <3>4. whole \in BOOLEAN
      <4>1. Strong(o, {}) /\ o.hdr \in Images
        BY <1>1, <2>3 DEF Good, Strong, Typed
      <4>2. o.files[o.fds[fd]].page \in Pages
        BY <3>1, <4>1, FdFacts
      <4> QED BY <4>1, <4>2 DEF Images, HeaderT
    <3> HIDE DEF new, whole, h
    <3>5. Good(k, {}) /\ (k.intact => Reserved(o, k, new))
      BY <1>1, <2>3, <3>3, GoodReserve
    <3> HIDE DEF k
    <3>6. CASE ~k.intact
      <4>1. Later(k, n)
        BY <3>5, LaterCopy DEF Good
      <4> HIDE DEF n
      <4>2. Good(n, {}) /\ ~n.intact
        BY <3>5, <3>6, <4>1, GoodOff
      <4> QED BY <2>1, <4>2
    <3>7. CASE k.intact
      <4>1. k.fds = o.fds /\ k.fds[fd] # NULL /\ Kept(m, k)
        BY <3>1, <3>5, <3>7, KeptTwice DEF Reserved
      <4>2. \A d \in FDs : d # fd => k.fds[d] = m.fds[d]
        BY <1>1, <2>3, <4>1 DEF Opened
      <4>5. o.hdr = m.hdr /\ (Ready(m, page) => SpareSlot(o))
        BY <1>1, <2>3 DEF Opened, Ready
      <4>3. CASE k.ret = NULL
        <5> DEFINE c == Close(k, fd)
        <5>1. n = Answer(c, FAILURE)
          BY <4>3 DEF CopyTo
        <5>2. /\ Good(c, {}) /\ c.intact /\ c.hdr = k.hdr /\ c.fds[fd] = NULL
              /\ \A d \in FDs : d # fd => c.fds[d] = k.fds[d]
              /\ \A s \in Slots : c.files[s].page = k.files[s].page
          BY <3>1, <3>5, <3>7, <4>1, GoodClose
        <5> HIDE DEF c, n
        <5>3. Good(n, {}) /\ n.fds = c.fds /\ n.ret = FAILURE /\ n.hdr = k.hdr /\ n.files = c.files
          BY <5>1, <5>2, GoodAnswer
        <5>5. Keeping(m, n)
          BY <1>0, <3>1, <4>1, <4>2, <5>2, <5>3, ClosedKeeping
        <5>4. Ready(m, page) => Merged(m, n, page)
          BY <3>5, <3>7, <4>3, <4>5, <5>3, ReservedIs DEF Merged
        <5> QED BY <2>1, <5>3, <5>4, <5>5
      <4>4. CASE k.ret # NULL
        <5> DEFINE at == k.files[k.ret].page
        <5>1. /\ k.ret \in Slots /\ at \in Pages /\ ~HDR_ACTIVE(o.hdr[at])
              /\ k.hdr[at].kind = "file"
          BY <3>3, <3>5, <3>7, <4>4 DEF Reserved
        <5>2. n = Replace(k, fd, page, at, whole)
          BY <4>4 DEF CopyTo
        <5>3. k.hdr[page] = m.hdr[page]
          BY <4>1 DEF Kept, HDR_ACTIVE
        <5>4. at # page
          BY <3>2, <5>1 DEF h
        <5>5. LogAlive(k.hdr, page)
          <6> SUFFICES ASSUME HDR_MODIFIED(m.hdr[page])
                       PROVE  k.hdr[m.hdr[page].log_page] = m.hdr[m.hdr[page].log_page]
            BY <5>3 DEF LogAlive
          <6>1. m.hdr[page].log_page \in Pages
            BY <1>0 DEF HDR_MODIFIED, HeaderT
          <6>2. HDR_ACTIVE(m.hdr[m.hdr[page].log_page])
            BY DEF LogAlive, HDR_ACTIVE
          <6> QED BY <4>1, <6>1, <6>2 DEF Kept
        <5>6. k.hdr[page].kind = "file"
          BY <5>3
        <5> HIDE DEF n, at
        <5>8. k.files[k.ret].page = at
          BY DEF at
        <5>9. at \in Pages /\ k.hdr[at].kind = "file" /\ k.ret \in Slots
          BY <5>1
        <5>7. Good(n, {}) /\ Replaced(k, n, fd, page, at, whole)
          BY <3>1, <3>4, <3>5, <3>7, <4>1, <5>2, <5>4, <5>5, <5>6, <5>8, <5>9, GoodReplaced
        <5>11. Keeping(m, n)
          <6>1. k.hdr[at] = new /\ new \in HeaderT /\ new.name = m.hdr[page].name
            <7>1. k.hdr[at] = new
              BY <3>5, <3>7, <4>4, <5>8 DEF Reserved
            <7>2. new.name = m.hdr[page].name
              BY <3>2 DEF new, NewFile, Page
            <7>3. k.hdr \in Images
              BY <3>5, <3>7 DEF Good, Strong, Typed
            <7> QED BY <5>9, <7>1, <7>2, <7>3 DEF Images
          <6>2. ~HDR_ACTIVE(m.hdr[at])
            BY <4>5, <5>1 DEF at
          <6> QED BY <1>0, <3>1, <4>1, <4>2, <5>7, <5>8, <5>9, <6>1, <6>2, ReplacedKeeping
        <5>10. ASSUME Ready(m, page) PROVE Merged(m, n, page)
          <6>1. Added(m.hdr, k.hdr, at, new)
            BY <3>5, <3>7, <4>4, <4>5, <5>8, <5>10, ReservedIs
          <6> DEFINE from == o.files[o.fds[fd]].page
          <6>2. from \in Pages /\ IsNamed(m.hdr[from], m.hdr[page].name) /\ whole = m.hdr[from].whole
            <7>1. from \in Pages
              BY <1>1, <2>3, <3>1, FdFacts DEF Good
            <7>2. IsNamed(o.hdr[from], m.hdr[page].name)
              BY <1>1, <1>4, <2>3 DEF Opened
            <7> QED BY <4>5, <7>1, <7>2 DEF whole
          <6> HIDE DEF from
          <6>3. \E pages \in Nat : n.hdr[at] = [NewFile(m.hdr[page].name, pages) EXCEPT !.whole = m.hdr[from].whole]
            <7> DEFINE pages == Extended(h.max_pages, extend)
            <7>1. pages \in Nat
              <8>1. h.max_pages \in Nat
                BY <3>2 DEF HeaderT
              <8> QED BY <8>1 DEF Extended
            <7>2. k.hdr[at] = [NewFile(m.hdr[page].name, pages) EXCEPT !.whole = FALSE]
              BY <3>2, <6>1 DEF Added, new
            <7>3. n.hdr[at] = [k.hdr[at] EXCEPT !.whole = whole]
              BY <5>7 DEF Replaced
            <7> HIDE DEF pages
            <7>4. n.hdr[at] = [NewFile(m.hdr[page].name, pages) EXCEPT !.whole = whole]
              BY <7>2, <7>3, WholeTwice, Zenon
            <7> QED BY <6>2, <7>1, <7>4
          <6>4. WithLog(k.hdr, page) = WithLog(m.hdr, page)
            BY <5>3 DEF WithLog
          <6>5. ASSUME NEW p \in Pages \ {at}
                PROVE  IF p \in WithLog(m.hdr, page) THEN ~HDR_ACTIVE(n.hdr[p])
                       ELSE HDR_ACTIVE(m.hdr[p]) \/ HDR_ACTIVE(n.hdr[p]) => n.hdr[p] = m.hdr[p]
            BY <5>7, <6>1, <6>4 DEF Replaced, Added
          <6>6. Moved(m.hdr, n.hdr, page, at, from)
            BY <6>1, <6>2, <6>3, <6>5 DEF Moved, Added
          <6>7. SpareSlot(n)
            <7>1. PICK s \in Slots : k.files[s].page = page
              BY <4>1, <5>10, ReadySlot
            <7>2. n.files[s].page = INVALID_PAGE
              BY <5>7, <7>1 DEF Replaced, WithLog
            <7>3. FILE_FREE(n.files[s])
              <8>1. INVALID_PAGE \notin Pages
                BY Constants
              <8> QED BY <5>7, <7>2, <8>1, SlotFacts DEF Good, Replaced, CachedFile
            <7> QED BY <7>3 DEF SpareSlot
          <6> QED BY <5>9, <6>2, <6>6, <6>7 DEF Merged
        <5> QED BY <2>1, <5>7, <5>10, <5>11
      <4> QED BY <4>3, <4>4
    <3> QED BY <3>5, <3>6, <3>7 DEF Good, Rec
  <2> QED BY <1>1, <2>2, <2>3 DEF Good, Rec
<1> QED BY <1>3, <1>4

-----------------------------------------------------------------------------
(* Writes, removals and reservations *)

LEMMA GoodOneRecord ==
    ASSUME NEW m, Good(m, {})
    PROVE  LET n == OneRecord(m) IN Good(n, {}) /\ n.ret # 0
<1>1. CASE m.ret = FAILURE
  BY <1>1, Constants DEF OneRecord
<1>2. CASE m.ret # FAILURE
  <2> DEFINE n == Answer(m, 1)
  <2>1. Good(n, {}) /\ n.ret = 1
    BY GoodAnswer
  <2> HIDE DEF n
  <2>2. OneRecord(m) = n
    BY <1>2 DEF OneRecord, n
  <2> QED BY <2>1, <2>2
<1> QED BY <1>1, <1>2

LEMMA GoodLogPage ==
    ASSUME NEW m, Good(m, {}), m.intact, NEW fd \in FDs, m.fds[fd] # NULL, NEW full \in BOOLEAN,
           full => LogAlive(m.hdr, m.files[m.fds[fd]].page)
    PROVE  LET n == write_log_page(m, m.fds[fd], full)
           IN  Good(n, {}) /\ (n.intact /\ n.ret = 0 => n.fds[fd] # NULL)
<1> DEFINE slot == m.fds[fd]
           page == m.files[slot].page
           n == write_log_page(m, slot, full)
<1>0. Strong(m, {}) /\ page \in Pages /\ m.hdr[page].kind = "file"
  BY FdFacts DEF Good
<1>1. CASE ~HDR_MODIFIED(m.hdr[page])
  <2>1. n = OneRecord(create_log(m, slot))
    BY <1>1 DEF write_log_page
  <2>2. Good(create_log(m, slot), {})
    BY GoodLog
  <2> HIDE DEF n
  <2>3. Good(n, {}) /\ n.ret # 0
    BY <2>1, <2>2, GoodOneRecord
  <2> QED BY <2>3 DEF n
<1>2. CASE HDR_MODIFIED(m.hdr[page]) /\ full
  <2>1. n = merge_log(m, page, 0)
    BY <1>2 DEF write_log_page
  <2> HIDE DEF n, page
  <2>2. Good(n, {}) /\ (n.intact => Keeping(m, n))
    BY <1>0, <1>2, <2>1, GoodMerge, Zenon DEF page
  <2> QED BY <2>2 DEF n, Keeping
<1>3. CASE HDR_MODIFIED(m.hdr[page]) /\ ~full
  <2>1. n = Answer(m, 1)
    BY <1>3 DEF write_log_page
  <2> HIDE DEF n
  <2>2. Good(n, {}) /\ n.ret = 1
    BY <2>1, GoodAnswer
  <2> QED BY <2>2 DEF n
<1> QED BY <1>1, <1>2, <1>3

\* What Write does after the file has grown, if it had to.
WriteData(m, fd, log, full) ==
    LET after(n) == IF n.ret = 0 THEN write_log_page(n, n.fds[fd], FALSE) ELSE n
    IN  IF m.ret = FAILURE THEN m
        ELSE IF ~log /\ ~m.files[m.fds[fd]].modified THEN Answer(m, 1)
        ELSE after(write_log_page(m, m.fds[fd], full))

LEMMA LaterData ==
    ASSUME NEW m, Rec(m), NEW fd, NEW log, NEW full
    PROVE  Later(m, WriteData(m, fd, log, full))
<1> DEFINE k == write_log_page(m, m.fds[fd], full)
<1>1. Later(m, k) /\ Rec(k)
  BY LaterLogPage, LaterRec
<1> HIDE DEF k
<1>2. Later(m, write_log_page(k, k.fds[fd], FALSE))
  BY <1>1, LaterLogPage, LaterTwice
<1>3. WriteData(m, fd, log, full) \in {m, Answer(m, 1), k, write_log_page(k, k.fds[fd], FALSE)}
  BY DEF WriteData, k
<1> QED BY <1>1, <1>2, <1>3, LaterSame, LaterAnswer

LEMMA GoodData ==
    ASSUME NEW m, Good(m, {}), m.intact, NEW fd \in FDs, m.fds[fd] # NULL, NEW log, NEW full \in BOOLEAN,
           full => LogAlive(m.hdr, m.files[m.fds[fd]].page)
    PROVE  Good(WriteData(m, fd, log, full), {})
<1> DEFINE k == write_log_page(m, m.fds[fd], full)
           j == write_log_page(k, k.fds[fd], FALSE)
<1>1. Good(k, {}) /\ (k.intact /\ k.ret = 0 => k.fds[fd] # NULL)
  BY GoodLogPage
<1>2. \/ WriteData(m, fd, log, full) = m
      \/ WriteData(m, fd, log, full) = Answer(m, 1)
      \/ WriteData(m, fd, log, full) = k
      \/ k.ret = 0 /\ WriteData(m, fd, log, full) = j
  <2>1. CASE k.ret = 0
    BY <2>1 DEF WriteData
  <2>2. CASE k.ret # 0
    BY <2>2 DEF WriteData
  <2> QED BY <2>1, <2>2
<1> HIDE DEF k
<1>3. k.ret = 0 => Good(j, {})
  <2>1. CASE ~k.intact
    <3>1. Later(k, j)
      BY <1>1, LaterLogPage DEF Good
    <3> HIDE DEF j
    <3> QED BY <1>1, <2>1, <3>1, GoodOff
  <2>2. CASE k.intact
    <3> SUFFICES ASSUME k.ret = 0 PROVE Good(j, {})
      OBVIOUS
    <3> PICK no \in BOOLEAN : no = FALSE
      OBVIOUS
    <3>1. j = write_log_page(k, k.fds[fd], no)
      OBVIOUS
    <3> HIDE DEF j
    <3> QED BY <1>1, <2>2, <3>1, GoodLogPage
  <2> QED BY <1>1, <2>1, <2>2 DEF Good, Rec
<1>4. Good(Answer(m, 1), {})
  BY GoodAnswer
<1> QED BY <1>1, <1>2, <1>3, <1>4

LEMMA WriteIs ==
    ASSUME NEW m, NEW fd, NEW grow, NEW log, NEW full
    PROVE  Write(m, fd, grow, log, full) =
               WriteData(IF grow THEN merge_log(m, m.files[m.fds[fd]].page, 1) ELSE Answer(m, 0),
                         fd, log, full)
BY DEF Write, WriteData

LEMMA GoodWrite ==
    ASSUME NEW m, Good(m, {}), m.intact, NEW fd \in FDs, m.fds[fd] # NULL,
           LogAlive(m.hdr, m.files[m.fds[fd]].page),
           NEW grow \in BOOLEAN, NEW log \in BOOLEAN, NEW full \in BOOLEAN, ~(grow /\ full)
    PROVE  Good(Write(m, fd, grow, log, full), {})
<1> DEFINE page == m.files[m.fds[fd]].page
           k == IF grow THEN merge_log(m, page, 1) ELSE Answer(m, 0)
           n == Write(m, fd, grow, log, full)
<1>0. Strong(m, {}) /\ page \in Pages /\ m.hdr[page].kind = "file"
  BY FdFacts DEF Good
<1>1. n = WriteData(k, fd, log, full)
  BY WriteIs
<1> HIDE DEF n
<1>2. CASE grow
  <2>1. Good(k, {}) /\ (k.intact => Keeping(m, k))
    <3>1. k = merge_log(m, page, 1)
      BY <1>2
    <3> HIDE DEF k, page
    <3> QED BY <1>0, <3>1, GoodMerge DEF page
  <2> HIDE DEF k
  <2>2. CASE ~k.intact
    <3>1. Later(k, n)
      BY <1>1, <2>1, LaterData DEF Good
    <3> QED BY <2>1, <2>2, <3>1, GoodOff DEF n
  <2>3. CASE k.intact
    <3>1. k.fds[fd] # NULL /\ ~full
      BY <1>2, <2>1, <2>3 DEF Keeping
    <3> QED BY <1>1, <2>1, <2>3, <3>1, GoodData DEF n
  <2> QED BY <2>1, <2>2, <2>3 DEF Good, Rec
<1>3. CASE ~grow
  <2>1. k = Answer(m, 0)
    BY <1>3
  <2> HIDE DEF k
  <2>2. Good(k, {}) /\ k.hdr = m.hdr /\ k.files = m.files /\ k.fds = m.fds /\ k.intact = m.intact
    BY <2>1, GoodAnswer, ZenonT(40)
  <2>3. k.fds[fd] # NULL /\ LogAlive(k.hdr, k.files[k.fds[fd]].page)
    BY <2>2
  <2> QED BY <1>1, <2>2, <2>3, GoodData DEF n
<1> QED BY <1>2, <1>3

LEMMA GoodRemove ==
    ASSUME NEW m, Good(m, {}), m.intact, NEW name,
           \A p \in Pages : HDR_ACTIVE(m.hdr[p]) => LogAlive(m.hdr, p)
    PROVE  Good(RemoveFound(find_file(m, name)), {})
<1> DEFINE f == find_file(m, name)
<1>1. /\ Good(f, {}) /\ f.intact /\ f.hdr = m.hdr
      /\ f.ret = NULL \/ (/\ f.ret \in Slots /\ f.files[f.ret].page \in Pages
                          /\ IsNamed(f.hdr[f.files[f.ret].page], name))
  BY GoodFind
<1> HIDE DEF f
<1>2. CASE f.ret = NULL
  <2>1. RemoveFound(f) = Answer(f, FAILURE)
    BY <1>2 DEF RemoveFound
  <2> QED BY <1>1, <2>1, GoodAnswer DEF f
<1>3. CASE f.ret # NULL
  <2> PICK page : page = f.files[f.ret].page
    OBVIOUS
  <2> PICK yes \in BOOLEAN : yes = TRUE
    OBVIOUS
  <2> PICK gone \in SUBSET Holding(f, page) : gone = {}
    OBVIOUS
  <2>1. RemoveFound(f) = remove_by_page(f, page, TRUE, yes)
    BY <1>3 DEF RemoveFound
  <2>2. page \in Pages /\ IsNamed(f.hdr[page], name)
    BY <1>1, <1>3
  <2>3. f.hdr[page].kind = "file" /\ LogAlive(f.hdr, page)
    BY <1>1, <2>2, NamedFile
  <2> QED BY <1>1, <2>1, <2>2, <2>3, GoodRemoved DEF f
<1> QED BY <1>2, <1>3

LEMMA GoodMissing ==
    ASSUME NEW m, Good(m, {}), m.intact, NEW name \in Names
    PROVE  Good(ReserveMissing(find_file(m, name), name), {})
<1> DEFINE f == find_file(m, name)
           h == NewFile(name, DynPages)
<1>1. Good(f, {}) /\ f.intact
  BY GoodFind
<1>2. h \in Asked
  BY CoffeeAssumption DEF NewFile, Page, Asked
<1> HIDE DEF f, h
<1>3. ReserveMissing(f, name) = IF f.ret # NULL THEN Answer(f, FAILURE) ELSE reserve(f, h)
  BY DEF ReserveMissing, h
<1>4. Good(Answer(f, FAILURE), {})
  BY <1>1, GoodAnswer
<1>5. Good(reserve(f, h), {})
  BY <1>1, <1>2, GoodReserve
<1> QED BY <1>3, <1>4, <1>5 DEF f
=============================================================================
