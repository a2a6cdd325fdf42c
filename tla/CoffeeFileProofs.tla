------------------------- MODULE CoffeeFileProofs -------------------------
(***************************************************************************)
(* What a Coffee file holds, for every size of pages, extents and logs:    *)
(* the type of the state, that descriptors stand inside their file, that   *)
(* a search of the flash finds the end of the file, and that reads return  *)
(* what was written.                                                       *)
(***************************************************************************)
EXTENDS CoffeeFile, ListLemmas, FiniteSetTheorems, TLAPS

LastOffset == MaxPages * COFFEE_PAGE_SIZE

-----------------------------------------------------------------------------
(* Extents and their capacity *)

LEMMA Products ==
    ASSUME NEW p \in 1..MaxPages
    PROVE  /\ p * COFFEE_PAGE_SIZE \in Nat
           /\ Capacity(p) \in Nat /\ Capacity(p) >= 1
           /\ Capacity(p) <= p * COFFEE_PAGE_SIZE
           /\ p * COFFEE_PAGE_SIZE <= LastOffset
           /\ Capacity(p) <= Capacity(MaxPages)
           /\ p * COFFEE_PAGE_SIZE < Capacity(2 * p)
           /\ Capacity(p) <= Capacity(2 * p)
<1> USE FileAssumption
<1>1. p \in Nat /\ p >= 1 /\ p <= MaxPages /\ MaxPages \in Nat
  OBVIOUS
<1>2. COFFEE_PAGE_SIZE \in Nat /\ HEADER \in Nat /\ HEADER < COFFEE_PAGE_SIZE
  OBVIOUS
<1>3. \A i, j \in Nat : i <= j => i * COFFEE_PAGE_SIZE <= j * COFFEE_PAGE_SIZE
  BY <1>2
<1>4. p * COFFEE_PAGE_SIZE \in Nat /\ p * COFFEE_PAGE_SIZE >= COFFEE_PAGE_SIZE
  BY <1>1, <1>2
<1>5. (2 * p) * COFFEE_PAGE_SIZE = p * COFFEE_PAGE_SIZE + p * COFFEE_PAGE_SIZE
  BY <1>1, <1>2
<1>6. MaxPages * COFFEE_PAGE_SIZE \in Nat /\ p * COFFEE_PAGE_SIZE <= MaxPages * COFFEE_PAGE_SIZE
  BY <1>1, <1>2, <1>3
<1> DEFINE n == p * COFFEE_PAGE_SIZE
           m == MaxPages * COFFEE_PAGE_SIZE
           d == (2 * p) * COFFEE_PAGE_SIZE
<1>7. /\ Capacity(p) = n - HEADER /\ Capacity(MaxPages) = m - HEADER
      /\ Capacity(2 * p) = d - HEADER /\ LastOffset = m
  BY DEF Capacity, LastOffset
<1>8. n \in Nat /\ m \in Nat /\ n >= COFFEE_PAGE_SIZE /\ n <= m /\ d = n + n
  BY <1>4, <1>5, <1>6
<1> HIDE DEF n, m, d
<1>9. /\ Capacity(p) \in Nat /\ Capacity(p) >= 1 /\ Capacity(p) <= n
      /\ n <= LastOffset /\ Capacity(p) <= Capacity(MaxPages)
      /\ n < Capacity(2 * p) /\ Capacity(p) <= Capacity(2 * p)
  BY <1>2, <1>7, <1>8
<1> QED BY <1>8, <1>9 DEF n

LEMMA ErasedDomain ==
    ASSUME NEW p
    PROVE  /\ DOMAIN Erased(p) = 0 .. (Capacity(p) - 1)
           /\ \A i \in DOMAIN Erased(p) : Erased(p)[i] = 0
           /\ Erased(p) \in [DOMAIN Erased(p) -> Byte]
BY FileAssumption DEF Erased

\* One behind the last byte of f that is not zero.
LastOf(f) == Max({0} \union {i + 1 : i \in {j \in DOMAIN f : f[j] # 0}})

LEMMA LastFacts ==
    ASSUME NEW f, NEW n \in Nat, DOMAIN f = 0 .. (n - 1)
    PROVE  /\ LastOf(f) \in 0..n
           /\ \A i \in DOMAIN f : f[i] # 0 => i < LastOf(f)
           /\ \A m \in Nat : (\A i \in DOMAIN f : i >= m => f[i] = 0) => LastOf(f) <= m
<1> DEFINE N == {j \in DOMAIN f : f[j] # 0}
           S == {0} \union {i + 1 : i \in N}
<1>1. \A i \in N : i \in Nat /\ i + 1 \in Nat /\ i + 1 <= n
  OBVIOUS
<1>2. S \subseteq Nat /\ 0 \in S /\ \A i \in N : i + 1 \in S
  BY <1>1
<1>3. \A x \in S : x <= n
  BY <1>1
<1>4. \A x \in S : x = 0 \/ \E i \in N : x = i + 1
  OBVIOUS
<1>5. Max(S) \in S /\ \A y \in S : y <= Max(S)
  <2> HIDE DEF S
  <2> QED BY <1>2, <1>3, MaxFacts
<1>6. LastOf(f) = Max(S)
  BY DEF LastOf
<1> HIDE DEF S
<1>7. LastOf(f) \in 0..n
  <2>1. LastOf(f) \in Nat
    BY <1>2, <1>5, <1>6
  <2>2. LastOf(f) <= n
    BY <1>3, <1>5, <1>6
  <2> QED BY <2>1, <2>2
<1>8. \A i \in N : i < LastOf(f)
  BY <1>1, <1>2, <1>5, <1>6, <1>7
<1>9. ASSUME NEW m \in Nat, \A i \in DOMAIN f : i >= m => f[i] = 0
      PROVE  LastOf(f) <= m
  <2>1. CASE LastOf(f) = 0
    BY <2>1
  <2>2. ASSUME NEW i \in N, LastOf(f) = i + 1
        PROVE  LastOf(f) <= m
    BY <1>1, <1>9, <2>2
  <2> QED BY <1>4, <1>5, <1>6, <2>1, <2>2
<1> QED BY <1>7, <1>8, <1>9

-----------------------------------------------------------------------------
(* The invariant *)

\* Offsets lie inside the extent, and as long as nothing is overwritten the
\* header's size is not forgotten.
InExtent ==
    /\ end <= max_pages * COFFEE_PAGE_SIZE
    /\ sure => end <= Capacity(max_pages)
    /\ \A fd \in FDs : fds[fd] # NULL => fds[fd] <= end

\* c holds what was written, and nothing was written behind it.
Holds(c) == \A i \in DOMAIN written : written[i] = IF i \in DOMAIN c THEN c[i] ELSE 0

\* As long as nothing is overwritten there is no log, the extent holds what was
\* written, and nothing was written behind the end the cache knows.
Mirror ==
    sure => /\ ~modified /\ hung = "no"
            /\ Holds(cell)
            /\ end # UNKNOWN_OFFSET => \A i \in DOMAIN written : i >= end => written[i] = 0

IInv == TypeOK /\ InExtent /\ Mirror

LEMMA Constants ==
    /\ COFFEE_PAGE_SIZE \in Nat /\ HEADER \in Nat /\ HEADER < COFFEE_PAGE_SIZE
    /\ LogRecords \in Nat \ {0} /\ Heap \in Nat
    /\ 0 \in Byte /\ Byte \subseteq 0..255 /\ Offsets \subseteq Int /\ NULL \notin Int
    /\ MaxPages \in 1..MaxPages /\ DynPages \in 1..MaxPages /\ LastOffset \in Nat
    /\ UNKNOWN_OFFSET = -1 /\ FAILURE = -1
<1>1. MaxPages \in 1..MaxPages
  BY FileAssumption
<1> QED BY <1>1, Products, FileAssumption DEF LastOffset, UNKNOWN_OFFSET, FAILURE

LEMMA InitHolds == Init => IInv
<1> SUFFICES ASSUME Init PROVE IInv
  OBVIOUS
<1> USE Constants
<1>1. /\ max_pages = DynPages /\ cell = Erased(DynPages) /\ modified = FALSE /\ index = {}
      /\ end = 0 /\ record_count = -1 /\ fds = [fd \in FDs |-> NULL]
      /\ heap = Heap /\ hung = "no" /\ written = Erased(MaxPages) /\ sure = TRUE
  BY DEF Init
<1>2. TypeOK
  <2>0. max_pages \in 1..MaxPages /\ end \in -1..LastOffset
    BY <1>1
  <2>1. record_count \in -1..LogRecords /\ heap \in 0..Heap
    BY <1>1
  <2>5. modified \in BOOLEAN /\ index \subseteq 0..(LogRecords - 1) /\ sure \in BOOLEAN
        /\ hung \in {"no", "log", "merge"}
    BY <1>1
  <2>2. fds \in [FDs -> (0..LastOffset) \union {NULL}]
    BY <1>1
  <2>3. cell \in [DOMAIN Erased(max_pages) -> Byte]
    BY <1>1, ErasedDomain
  <2>4. written \in [DOMAIN Erased(MaxPages) -> Byte]
    BY <1>1, ErasedDomain
  <2> QED BY <2>0, <2>1, <2>2, <2>3, <2>4, <2>5 DEF TypeOK, LastOffset
<1>3. DynPages * COFFEE_PAGE_SIZE \in Nat /\ Capacity(DynPages) \in Nat
  BY Products
<1>4. InExtent
  BY <1>1, <1>3 DEF InExtent
<1>5. \A i \in DOMAIN written : written[i] = 0
  BY <1>1, ErasedDomain
<1>6. Mirror
  BY <1>1, <1>5, ErasedDomain DEF Mirror, Holds
<1> QED BY <1>2, <1>4, <1>6 DEF IInv

-----------------------------------------------------------------------------
(* The states of a write *)

Cells == UNION {[DOMAIN Erased(p) -> Byte] : p \in 1..MaxPages}

WriteStates ==
    [max_pages : 1..MaxPages, cell : Cells, modified : BOOLEAN,
     index : SUBSET (0..(LogRecords - 1)), end : 0..LastOffset,
     record_count : -1..LogRecords, heap : 0..Heap, offset : 0..LastOffset,
     direct : BOOLEAN, state : {"on", "failed", "log", "merge"}]

\* s can be a state of a write that began when the end of the file was end.
Proper(s) ==
    /\ s \in WriteStates
    /\ s.cell \in [DOMAIN Erased(s.max_pages) -> Byte]
    /\ s.end <= s.max_pages * COFFEE_PAGE_SIZE
    /\ s.offset <= s.end /\ end <= s.end

LEMMA Begins ==
    ASSUME IInv, NEW fd \in FDs, fds[fd] # NULL
    PROVE  /\ Proper(Now(fd)) /\ ~Now(fd).direct /\ Now(fd).state = "on"
           /\ end \in Nat /\ fds[fd] \in Nat /\ fds[fd] <= end
<1> USE Constants
<1>1. /\ fds[fd] \in 0..LastOffset /\ fds[fd] <= end /\ end \in -1..LastOffset
      /\ max_pages \in 1..MaxPages /\ cell \in [DOMAIN Erased(max_pages) -> Byte]
      /\ modified \in BOOLEAN /\ index \in SUBSET (0..(LogRecords - 1))
      /\ record_count \in -1..LogRecords /\ heap \in 0..Heap
      /\ end <= max_pages * COFFEE_PAGE_SIZE
  BY DEF IInv, TypeOK, InExtent, LastOffset
<1>2. end \in 0..LastOffset /\ cell \in Cells
  BY <1>1 DEF Cells
<1> QED BY <1>1, <1>2 DEF Now, Proper, WriteStates

LEMMA CostNat == ASSUME NEW s, s.end \in Nat PROVE Cost(s) \in Nat
<1>1. IsFiniteSet(0 .. (s.end - 1))
  BY FS_Interval
<1>2. IsFiniteSet(Parts(s)) /\ IsFiniteSet(Looks(s))
  BY <1>1, FS_Subset DEF Parts, Looks
<1>3. Cardinality(Parts(s)) \in Nat /\ Cardinality(Looks(s)) \in Nat
  BY <1>2, FS_CardinalityType
<1> QED BY <1>3 DEF Cost

LEMMA MergeFacts ==
    ASSUME NEW s, Proper(s), end \in Nat, NEW pages \in Nat, s.max_pages <= pages,
           NEW t \in merge_log(s, pages)
    PROVE  /\ Proper(t)
           /\ t.direct = s.direct /\ t.end = s.end /\ t.offset = s.offset
           /\ \/ t.state \in {"failed", "merge"} /\ t = [s EXCEPT !.state = t.state]
              \/ /\ t.state = s.state /\ t.max_pages = pages /\ ~t.modified
                 /\ t.cell \in Copies(pages, s.end)
<1> USE Constants
<1>1. s \in WriteStates
  BY DEF Proper
<1>2. CASE t = Failed(s) \/ t = Hung(s, "merge")
  BY <1>1, <1>2 DEF Failed, Hung, Proper, WriteStates
<1>3. CASE /\ pages <= MaxPages /\ ~(s.heap < Cost(s))
           /\ \E c \in Copies(pages, s.end) :
                t = [s EXCEPT !.max_pages = pages, !.cell = c, !.modified = FALSE,
                              !.index = {}, !.record_count = -1, !.heap = s.heap - Cost(s)]
  <2>1. PICK c \in Copies(pages, s.end) :
                t = [s EXCEPT !.max_pages = pages, !.cell = c, !.modified = FALSE,
                              !.index = {}, !.record_count = -1, !.heap = s.heap - Cost(s)]
    BY <1>3
  <2>2. pages \in 1..MaxPages /\ s.max_pages \in 1..MaxPages
    BY <1>1, <1>3 DEF WriteStates
  <2>3. c \in [DOMAIN Erased(pages) -> Byte] /\ c \in Cells
    BY <2>2 DEF Copies, Cells
  <2>4. Cost(s) \in Nat /\ s.heap - Cost(s) \in 0..Heap
    <3>1. s.heap \in 0..Heap /\ s.end \in Nat
      BY <1>1 DEF WriteStates
    <3>2. Cost(s) \in Nat
      BY <3>1, CostNat
    <3> QED BY <1>3, <3>1, <3>2
  <2>5. t \in WriteStates
    <3>1. {} \in SUBSET (0..(LogRecords - 1)) /\ -1 \in -1..LogRecords
      OBVIOUS
    <3> QED BY <1>1, <2>1, <2>2, <2>3, <2>4, <3>1 DEF WriteStates
  <2>6. /\ t.max_pages = pages /\ t.cell = c /\ t.modified = FALSE /\ t.end = s.end
        /\ t.offset = s.offset /\ t.direct = s.direct /\ t.state = s.state
    BY <1>1, <2>1 DEF WriteStates
  <2>7. s.max_pages * COFFEE_PAGE_SIZE <= pages * COFFEE_PAGE_SIZE
    BY <2>2
  <2>8. Proper(t)
    <3>1. /\ s.end \in Nat /\ s.max_pages * COFFEE_PAGE_SIZE \in Nat
          /\ pages * COFFEE_PAGE_SIZE \in Nat
      BY <1>1, <2>2, Products DEF WriteStates
    <3> QED BY <2>3, <2>5, <2>6, <2>7, <3>1 DEF Proper
  <2> QED BY <2>1, <2>6, <2>8
<1>4. t = Failed(s) \/ t \in merge_log(s, pages) \ {Failed(s)}
  OBVIOUS
<1>5. ASSUME t # Failed(s)
      PROVE  \/ t = Hung(s, "merge")
             \/ /\ pages <= MaxPages /\ ~(s.heap < Cost(s))
                /\ \E c \in Copies(pages, s.end) :
                     t = [s EXCEPT !.max_pages = pages, !.cell = c, !.modified = FALSE,
                                   !.index = {}, !.record_count = -1, !.heap = s.heap - Cost(s)]
  BY <1>5 DEF merge_log, Part
<1> QED BY <1>2, <1>3, <1>5

LEMMA MaxOfTwo == ASSUME NEW a \in Int, NEW b \in Int PROVE Max({a, b}) = IF a >= b THEN a ELSE b
BY DEF Max

LEMMA MaxByte == Max(Byte) \in Byte
<1>1. PICK n \in Nat : Byte \subseteq Nat /\ Byte # {} /\ \A b \in Byte : b <= n
  <2>1. 255 \in Nat /\ Byte \subseteq Nat /\ Byte # {} /\ \A b \in Byte : b <= 255
    BY Constants
  <2> QED BY <2>1
<1> QED BY <1>1, MaxFacts

LEMMA ProgrammedByte == ASSUME NEW a \in Byte, NEW b \in Byte PROVE Programmed(a, b) \in Byte
<1>1. a \in Int /\ b \in Int
  BY Constants
<1> QED BY <1>1, MaxOfTwo DEF Programmed

\* A byte that is written in the extent, and the offsets behind it.
LEMMA Advance ==
    ASSUME NEW s, Proper(s), end \in Nat, s.offset < Capacity(s.max_pages)
    PROVE  /\ s.offset + 1 \in 0..LastOffset
           /\ Max({s.end, s.offset + 1}) \in 0..LastOffset
           /\ Max({s.end, s.offset + 1}) <= s.max_pages * COFFEE_PAGE_SIZE
           /\ s.offset + 1 <= Max({s.end, s.offset + 1})
           /\ s.end <= Max({s.end, s.offset + 1})
           /\ s.offset \in DOMAIN s.cell
<1> USE Constants
<1>1. /\ s.max_pages \in 1..MaxPages /\ s.offset \in 0..LastOffset /\ s.end \in 0..LastOffset
      /\ s.end <= s.max_pages * COFFEE_PAGE_SIZE
      /\ s.cell \in [DOMAIN Erased(s.max_pages) -> Byte]
  BY DEF Proper, WriteStates
<1>2. /\ Capacity(s.max_pages) \in Nat
      /\ s.max_pages * COFFEE_PAGE_SIZE \in Nat
      /\ Capacity(s.max_pages) <= s.max_pages * COFFEE_PAGE_SIZE
      /\ s.max_pages * COFFEE_PAGE_SIZE <= LastOffset
  BY <1>1, Products
<1>3. DOMAIN s.cell = 0 .. (Capacity(s.max_pages) - 1)
  BY <1>1, ErasedDomain
<1>4. s.offset \in DOMAIN s.cell
  BY <1>1, <1>2, <1>3
<1>5. Max({s.end, s.offset + 1}) = IF s.end >= s.offset + 1 THEN s.end ELSE s.offset + 1
  BY <1>1, MaxOfTwo
<1>6. s.offset + 1 <= s.max_pages * COFFEE_PAGE_SIZE
  BY <1>1, <1>2
<1> HIDE DEF LastOffset
<1> QED BY <1>1, <1>2, <1>4, <1>5, <1>6

LEMMA RecordFacts ==
    ASSUME NEW s, Proper(s), end \in Nat, s.offset < Capacity(s.max_pages),
           NEW r \in 0..(LogRecords - 1)
    PROVE  /\ Proper(Record(s, r)) /\ Record(s, r).direct = s.direct
           /\ Record(s, r).state \in {s.state, "log"}
<1> USE Constants
<1>1. s \in WriteStates
  BY DEF Proper
<1>2. CASE s.heap < 2
  <2>1. Record(s, r) = [s EXCEPT !.state = "log"]
    BY <1>2 DEF Record, Hung
  <2> QED BY <1>1, <2>1 DEF Proper, WriteStates
<1>3. CASE ~(s.heap < 2)
  <2> DEFINE c == IF s.offset >= s.end /\ s.offset \in DOMAIN s.cell
                  THEN [s.cell EXCEPT ![s.offset] = Programmed(s.cell[s.offset], Max(Byte))]
                  ELSE s.cell
             e == Max({s.end, s.offset + 1})
             t == [s EXCEPT !.index = s.index \union {r}, !.record_count = r + 1,
                            !.heap = s.heap - 2, !.offset = s.offset + 1, !.end = e,
                            !.cell = c]
  <2>1. Record(s, r) = t
    BY <1>3 DEF Record
  <2>2. s.max_pages \in 1..MaxPages /\ s.cell \in [DOMAIN Erased(s.max_pages) -> Byte]
    BY <1>1 DEF Proper, WriteStates
  <2>3. c \in [DOMAIN Erased(s.max_pages) -> Byte]
    BY <2>2, MaxByte, ProgrammedByte
  <2>4. c \in Cells
    BY <2>2, <2>3 DEF Cells
  <2>5. s.index \union {r} \in SUBSET (0..(LogRecords - 1))
    BY <1>1 DEF WriteStates
  <2>6. r + 1 \in -1..LogRecords /\ s.heap - 2 \in 0..Heap
    BY <1>1, <1>3 DEF WriteStates
  <2>7. s.offset + 1 \in 0..LastOffset /\ e \in 0..LastOffset
    BY Advance
  <2> HIDE DEF c, e
  <2>8. t \in WriteStates
    BY <1>1, <2>4, <2>5, <2>6, <2>7 DEF WriteStates
  <2>9. /\ t.max_pages = s.max_pages /\ t.cell = c /\ t.end = e /\ t.offset = s.offset + 1
        /\ t.direct = s.direct /\ t.state = s.state
    BY <1>1 DEF WriteStates
  <2> HIDE DEF t
  <2>10. /\ e <= s.max_pages * COFFEE_PAGE_SIZE /\ s.offset + 1 <= e /\ s.end <= e
    BY Advance DEF e
  <2>11. end <= e
    <3>1. s.end \in Nat /\ e \in Nat /\ end <= s.end
      BY <1>1, <2>7 DEF Proper, WriteStates
    <3> QED BY <2>10, <3>1
  <2>12. Proper(t)
    BY <2>3, <2>8, <2>9, <2>10, <2>11 DEF Proper
  <2> QED BY <2>1, <2>9, <2>12
<1> QED BY <1>2, <1>3

\* Marking a file as modified changes nothing else.
LEMMA CreateFacts ==
    ASSUME NEW s, Proper(s), end \in Nat, s.offset < Capacity(s.max_pages), NEW t \in create_log(s)
    PROVE  /\ Proper(t) /\ t.direct = s.direct
           /\ t = Failed(s) \/ t.state \in {s.state, "log"}
<1> USE Constants
<1>1. s \in WriteStates
  BY DEF Proper
<1>2. CASE t = Failed(s)
  BY <1>1, <1>2 DEF Failed, Proper, WriteStates
<1>3. CASE t = Record([s EXCEPT !.modified = TRUE], 0)
  <2> DEFINE u == [s EXCEPT !.modified = TRUE]
  <2>1. u \in WriteStates
    BY <1>1 DEF WriteStates
  <2>2. /\ u.max_pages = s.max_pages /\ u.cell = s.cell /\ u.end = s.end /\ u.offset = s.offset
        /\ u.direct = s.direct /\ u.state = s.state
    BY <1>1 DEF WriteStates
  <2> HIDE DEF u
  <2>3. Proper(u) /\ u.offset < Capacity(u.max_pages)
    BY <2>1, <2>2 DEF Proper
  <2>4. 0 \in 0..(LogRecords - 1)
    OBVIOUS
  <2>5. Proper(Record(u, 0)) /\ Record(u, 0).direct = u.direct /\ Record(u, 0).state \in {u.state, "log"}
    BY <2>3, <2>4, RecordFacts
  <2> QED BY <1>3, <2>2, <2>5 DEF u
<1> QED BY <1>2, <1>3 DEF create_log

\* What goes to the log leaves a proper state, written but not in the extent; a
\* file without a log gets one or stays as it is.
LEMMA LogFacts ==
    ASSUME NEW s, Proper(s), end \in Nat, s.offset < Capacity(s.max_pages),
           s.state = "on", ~s.direct, NEW w \in write_log_page(s)
    PROVE  /\ Proper(w) /\ ~w.direct
           /\ ~s.modified => w = Failed(s) \/ w.state \in {"on", "log"}
<1> USE Constants
<1>1. s \in WriteStates
  BY DEF Proper
<1>2. CASE ~s.modified
  <2>1. w \in create_log(s)
    BY <1>2 DEF write_log_page
  <2> QED BY <1>2, <2>1, CreateFacts
<1>3. CASE s.modified
  <2> DEFINE t == IF s.record_count >= 0 THEN s ELSE [s EXCEPT !.heap = s.heap - 1]
             merged == UNION {IF u.state = "on" THEN create_log(u) ELSE {u} :
                                  u \in merge_log(t, t.max_pages)}
  <2>1. \/ t.heap < 0 /\ w = Hung(s, "log")
        \/ /\ ~(t.heap < 0)
           /\ \E r \in find_next_record(s) : w \in IF ~Full(r) THEN {Record(t, r)} ELSE merged
    BY <1>3 DEF write_log_page
  <2>2. CASE w = Hung(s, "log")
    BY <1>1, <1>3, <2>2 DEF Hung, Proper, WriteStates
  <2>3. ASSUME ~(t.heap < 0), NEW r \in find_next_record(s),
               w \in IF ~Full(r) THEN {Record(t, r)} ELSE merged
        PROVE  Proper(w) /\ ~w.direct
    <3>1. t \in WriteStates
      <4>1. CASE s.record_count >= 0
        BY <1>1, <4>1
      <4>2. CASE ~(s.record_count >= 0)
        <5>1. t = [s EXCEPT !.heap = s.heap - 1] /\ t.heap = s.heap - 1
          BY <1>1, <4>2 DEF WriteStates
        <5>2. s.heap - 1 \in 0..Heap
          BY <1>1, <2>3, <5>1 DEF WriteStates
        <5> HIDE DEF t
        <5> QED BY <1>1, <5>1, <5>2 DEF WriteStates
      <4> QED BY <4>1, <4>2
    <3>2. /\ t.max_pages = s.max_pages /\ t.cell = s.cell /\ t.end = s.end /\ t.offset = s.offset
          /\ t.direct = s.direct /\ t.state = s.state
      BY <1>1 DEF WriteStates
    <3> HIDE DEF t
    <3>3. Proper(t) /\ t.offset < Capacity(t.max_pages) /\ t.max_pages \in Nat
      BY <1>1, <3>1, <3>2 DEF Proper, WriteStates
    <3>4. CASE ~Full(r) /\ w = Record(t, r)
      <4>1. r \in 0..(LogRecords - 1)
        BY <1>1, <2>3, <3>4 DEF Full, find_next_record, WriteStates
      <4> QED BY <3>2, <3>3, <3>4, <4>1, RecordFacts
    <3>5. ASSUME NEW u \in merge_log(t, t.max_pages),
                 w \in IF u.state = "on" THEN create_log(u) ELSE {u}
          PROVE  Proper(w) /\ ~w.direct
      <4>1. /\ Proper(u) /\ ~u.direct /\ u.offset = t.offset
            /\ \/ u.state \in {"failed", "merge"}
               \/ u.max_pages = t.max_pages
        BY <3>2, <3>3, MergeFacts
      <4>2. CASE u.state # "on"
        BY <3>5, <4>1, <4>2
      <4>3. CASE u.state = "on"
        <5>1. u.offset < Capacity(u.max_pages)
          BY <3>3, <4>1, <4>3
        <5>2. w \in create_log(u)
          BY <3>5, <4>3
        <5> QED BY <4>1, <5>1, <5>2, CreateFacts
      <4> QED BY <4>2, <4>3
    <3> QED BY <2>3, <3>4, <3>5
  <2> QED BY <1>3, <2>1, <2>2, <2>3
<1> QED BY <1>2, <1>3

\* Growing leaves room for the byte, and as long as nothing was overwritten the
\* copy holds what was written.
LEMMA GrowFacts ==
    ASSUME IInv, NEW fd \in FDs, fds[fd] # NULL, NEW s \in Grow(Now(fd))
    PROVE  /\ Proper(s) /\ ~s.direct /\ s.end = end /\ s.offset = fds[fd]
           /\ s.state \in {"on", "failed", "merge"}
           /\ s.state = "on" => s.offset < Capacity(s.max_pages)
           /\ sure /\ s.state # "merge" =>
                ~s.modified /\ Holds(s.cell) /\ s.end <= Capacity(s.max_pages)
<1> USE Constants
<1> DEFINE n == Now(fd)
<1>1. /\ Proper(n) /\ ~n.direct /\ n.state = "on" /\ end \in Nat
      /\ fds[fd] \in Nat /\ fds[fd] <= end
  BY Begins
<1>2. /\ n.max_pages = max_pages /\ n.cell = cell /\ n.modified = modified /\ n.end = end
      /\ n.offset = fds[fd]
  BY DEF Now
<1>3. sure => ~modified /\ Holds(cell) /\ end <= Capacity(max_pages)
  BY DEF IInv, Mirror, InExtent
<1>4. max_pages \in 1..MaxPages
  BY DEF IInv, TypeOK
<1> HIDE DEF n
<1>5. CASE n.offset < Capacity(n.max_pages)
  <2>1. s = n
    BY <1>5 DEF Grow, n
  <2> QED BY <1>1, <1>2, <1>3, <1>5, <2>1
<1>6. CASE ~(n.offset < Capacity(n.max_pages))
  <2>1. s \in merge_log(n, 2 * max_pages)
    BY <1>2, <1>6 DEF Grow, n
  <2>2. n.max_pages <= 2 * max_pages /\ 2 * max_pages \in Nat
    BY <1>2, <1>4
  <2>3. /\ Proper(s) /\ s.direct = n.direct /\ s.end = n.end /\ s.offset = n.offset
        /\ \/ s.state \in {"failed", "merge"} /\ s = [n EXCEPT !.state = s.state]
           \/ /\ s.state = n.state /\ s.max_pages = 2 * max_pages /\ ~s.modified
              /\ s.cell \in Copies(2 * max_pages, n.end)
    BY <1>1, <2>1, <2>2, MergeFacts
  <2>4. CASE s.state \in {"failed", "merge"} /\ s = [n EXCEPT !.state = s.state]
    <3>1. n \in WriteStates
      BY <1>1 DEF Proper
    <3>2. s.max_pages = n.max_pages /\ s.cell = n.cell /\ s.modified = n.modified
      BY <2>4, <3>1 DEF WriteStates
    <3> QED BY <1>1, <1>2, <1>3, <2>3, <2>4, <3>2
  <2>5. CASE /\ s.state = n.state /\ s.max_pages = 2 * max_pages /\ ~s.modified
             /\ s.cell \in Copies(2 * max_pages, n.end)
    <3>1. /\ max_pages * COFFEE_PAGE_SIZE < Capacity(2 * max_pages)
          /\ Capacity(max_pages) <= Capacity(2 * max_pages)
          /\ Capacity(max_pages) \in Nat /\ max_pages * COFFEE_PAGE_SIZE \in Nat
      BY <1>4, Products
    <3>2. Capacity(2 * max_pages) \in Nat
      <4>1. s.max_pages \in 1..MaxPages
        BY <2>3 DEF Proper, WriteStates
      <4> QED BY <2>5, <4>1, Products
    <3>3. end <= max_pages * COFFEE_PAGE_SIZE
      BY DEF IInv, InExtent
    <3>4. s.offset < Capacity(s.max_pages)
      BY <1>1, <1>2, <2>3, <2>5, <3>1, <3>2, <3>3
    <3>5. ASSUME sure PROVE s.end <= Capacity(s.max_pages)
      BY <1>1, <1>2, <1>3, <2>3, <2>5, <3>1, <3>2, <3>5
    <3>6. ASSUME sure PROVE Holds(s.cell)
      <4>1. /\ DOMAIN cell = 0 .. (Capacity(max_pages) - 1)
            /\ DOMAIN s.cell = 0 .. (Capacity(2 * max_pages) - 1)
            /\ DOMAIN written = 0 .. (Capacity(MaxPages) - 1)
        <5>1. cell \in [DOMAIN Erased(max_pages) -> Byte] /\ written \in [DOMAIN Erased(MaxPages) -> Byte]
          BY DEF IInv, TypeOK
        <5>2. s.cell \in [DOMAIN Erased(s.max_pages) -> Byte]
          BY <2>3 DEF Proper
        <5> QED BY <2>5, <5>1, <5>2, ErasedDomain
      <4>2. \A i \in DOMAIN s.cell : s.cell[i] \in IF i < end THEN ReadAt(i) ELSE {0}
        BY <1>2, <2>5 DEF Copies
      <4>3. \A i \in DOMAIN written : i >= end => written[i] = 0
        BY <1>1, <3>6 DEF IInv, Mirror
      <4>4. ASSUME NEW i \in DOMAIN written
            PROVE  written[i] = IF i \in DOMAIN s.cell THEN s.cell[i] ELSE 0
        <5>1. i \in Nat
          BY <4>1
        <5>2. CASE i < end
          <6>1. i \in DOMAIN cell /\ i \in DOMAIN s.cell
            BY <1>1, <1>3, <3>1, <3>2, <3>6, <4>1, <5>1, <5>2
          <6>2. s.cell[i] = cell[i]
            BY <1>3, <3>6, <4>2, <5>2, <6>1 DEF ReadAt
          <6>3. written[i] = cell[i]
            BY <1>3, <3>6, <6>1 DEF Holds
          <6> QED BY <6>1, <6>2, <6>3
        <5>3. CASE ~(i < end)
          <6>1. written[i] = 0
            BY <1>1, <4>3, <5>1, <5>3
          <6>2. i \in DOMAIN s.cell => s.cell[i] = 0
            BY <4>2, <5>3
          <6> QED BY <6>1, <6>2
        <5> QED BY <5>2, <5>3
      <4> QED BY <4>4 DEF Holds
    <3> QED BY <1>1, <1>2, <2>3, <2>5, <3>4, <3>5, <3>6
  <2> QED BY <2>3, <2>4, <2>5
<1> QED BY <1>5, <1>6

\* After the write of a byte: a failure has changed nothing that can be read, and a
\* byte that is appended in place is where it belongs.
LEMMA PutFacts ==
    ASSUME IInv, NEW fd \in FDs, fds[fd] # NULL, NEW b \in Byte,
           NEW t \in Grow(Now(fd)), NEW s \in Put(t, b)
    PROVE  /\ Proper(s)
           /\ sure /\ s.state = "failed" =>
                ~s.modified /\ Holds(s.cell) /\ s.end = end /\ s.end <= Capacity(s.max_pages)
           /\ s.direct => s.state = "on"
           /\ sure /\ s.direct =>
                /\ ~s.modified /\ s.end = fds[fd] + 1 /\ s.end <= Capacity(s.max_pages)
                /\ \A i \in DOMAIN written :
                      [written EXCEPT ![fds[fd]] = b][i] =
                          IF i \in DOMAIN s.cell THEN s.cell[i] ELSE 0
<1> USE Constants
<1>1. /\ Proper(t) /\ ~t.direct /\ t.end = end /\ t.offset = fds[fd]
      /\ t.state \in {"on", "failed", "merge"}
      /\ t.state = "on" => t.offset < Capacity(t.max_pages)
      /\ sure /\ t.state # "merge" =>
           ~t.modified /\ Holds(t.cell) /\ t.end <= Capacity(t.max_pages)
  BY GrowFacts
<1>2. end \in Nat /\ fds[fd] \in Nat /\ fds[fd] <= end
  BY Begins
<1>3. t \in WriteStates
  BY <1>1 DEF Proper
<1>4. CASE t.state # "on"
  <2>1. s = t
    BY <1>4 DEF Put
  <2> QED BY <1>1, <1>4, <2>1
<1>5. CASE t.state = "on" /\ ~Appends(t)
  <2>1. s \in write_log_page(t)
    BY <1>5 DEF Put
  <2>2. Proper(s) /\ ~s.direct /\ (~t.modified => s = Failed(t) \/ s.state \in {"on", "log"})
    BY <1>1, <1>2, <1>5, <2>1, LogFacts
  <2>3. Failed(t).modified = t.modified /\ Failed(t).cell = t.cell /\ Failed(t).end = t.end
        /\ Failed(t).max_pages = t.max_pages
    BY <1>3 DEF Failed, WriteStates
  <2> QED BY <1>1, <1>5, <2>2, <2>3
<1>6. CASE t.state = "on" /\ Appends(t)
  <2> DEFINE e == Max({t.end, t.offset + 1})
             c == [t.cell EXCEPT ![t.offset] = Programmed(t.cell[t.offset], b)]
             u == [t EXCEPT !.cell = c, !.offset = t.offset + 1, !.end = e, !.direct = TRUE]
  <2>1. s = u
    BY <1>6 DEF Put
  <2>2. ~t.modified /\ t.offset >= t.end
    BY <1>6 DEF Appends
  <2>3. /\ t.offset + 1 \in 0..LastOffset /\ e \in 0..LastOffset
        /\ e <= t.max_pages * COFFEE_PAGE_SIZE /\ t.offset + 1 <= e /\ t.end <= e
        /\ t.offset \in DOMAIN t.cell
    BY <1>1, <1>2, <1>6, Advance
  <2>4. e = fds[fd] + 1
    <3>1. fds[fd] = end /\ t.end = end /\ t.offset + 1 = end + 1
      BY <1>1, <1>2, <2>2
    <3>2. Max({end, end + 1}) = end + 1
      BY <1>2, MaxOfTwo
    <3> QED BY <3>1, <3>2
  <2>5. t.max_pages \in 1..MaxPages /\ t.cell \in [DOMAIN Erased(t.max_pages) -> Byte]
    BY <1>1, <1>3 DEF Proper, WriteStates
  <2>6. c \in [DOMAIN Erased(t.max_pages) -> Byte]
    BY <2>3, <2>5, ProgrammedByte
  <2>7. c \in Cells
    BY <2>5, <2>6 DEF Cells
  <2> HIDE DEF c, e
  <2>8. u \in WriteStates
    BY <1>3, <2>3, <2>7 DEF WriteStates
  <2>9. /\ u.max_pages = t.max_pages /\ u.cell = c /\ u.end = e /\ u.offset = t.offset + 1
        /\ u.direct = TRUE /\ u.state = t.state /\ u.modified = t.modified
    BY <1>3 DEF WriteStates
  <2> HIDE DEF u
  <2>10. end <= e
    BY <1>1, <2>3
  <2>11. Proper(u)
    BY <2>3, <2>5, <2>6, <2>8, <2>9, <2>10 DEF Proper
  <2>12. ASSUME sure
         PROVE  /\ e <= Capacity(t.max_pages)
                /\ \A i \in DOMAIN written :
                      [written EXCEPT ![fds[fd]] = b][i] = IF i \in DOMAIN c THEN c[i] ELSE 0
    <3>1. e <= Capacity(t.max_pages)
      <4>1. Capacity(t.max_pages) \in Nat
        BY <2>5, Products
      <4> QED BY <1>1, <1>2, <1>6, <2>4, <4>1
    <3>2. fds[fd] = end
      BY <1>1, <1>2, <2>2
    <3>3. /\ DOMAIN t.cell = 0 .. (Capacity(t.max_pages) - 1)
          /\ DOMAIN written = 0 .. (Capacity(MaxPages) - 1)
      <4>1. written \in [DOMAIN Erased(MaxPages) -> Byte]
        BY DEF IInv, TypeOK
      <4> QED BY <2>5, <4>1, ErasedDomain
    <3>4. fds[fd] \in DOMAIN written
      <4>1. Capacity(t.max_pages) \in Nat /\ Capacity(t.max_pages) <= Capacity(MaxPages)
            /\ Capacity(MaxPages) \in Nat
        BY <2>5, Products
      <4> QED BY <1>1, <1>2, <1>6, <3>3, <4>1
    <3>5. written[fds[fd]] = 0 /\ t.cell[fds[fd]] = 0
      <4>1. written[fds[fd]] = 0
        BY <1>2, <2>12, <3>2, <3>4 DEF IInv, Mirror
      <4> QED BY <1>1, <1>6, <2>3, <2>12, <3>4, <4>1 DEF Holds
    <3>6. Programmed(0, b) = b
      <4>1. b \in Int /\ b >= 0
        OBVIOUS
      <4>2. Max({0, b}) = b
        BY <4>1, MaxOfTwo
      <4> QED BY <4>2 DEF Programmed
    <3>7. c = [t.cell EXCEPT ![fds[fd]] = b]
      BY <1>1, <3>5, <3>6 DEF c
    <3>8. \A i \in DOMAIN written : written[i] = IF i \in DOMAIN t.cell THEN t.cell[i] ELSE 0
      BY <1>1, <1>6, <2>12 DEF Holds
    <3>9. DOMAIN c = DOMAIN t.cell /\ fds[fd] \in DOMAIN t.cell
      BY <1>1, <2>3, <3>7
    <3>10. ASSUME NEW i \in DOMAIN written
           PROVE  [written EXCEPT ![fds[fd]] = b][i] = IF i \in DOMAIN c THEN c[i] ELSE 0
      <4>1. CASE i = fds[fd]
        BY <3>7, <3>9, <4>1
      <4>2. CASE i # fds[fd]
        BY <3>7, <3>8, <3>9, <4>2
      <4> QED BY <4>1, <4>2
    <3> QED BY <3>1, <3>10
  <2> QED BY <1>6, <2>1, <2>2, <2>4, <2>9, <2>11, <2>12
<1> QED BY <1>4, <1>5, <1>6

-----------------------------------------------------------------------------
(* The steps *)

LEMMA WriteStep ==
    ASSUME IInv, NEW fd \in FDs, fds[fd] # NULL, NEW b \in Byte, cfs_write(fd, b)
    PROVE  IInv'
<1> USE Constants
<1>1. PICK s \in UNION {Put(t, b) : t \in Grow(Now(fd))} :
            /\ max_pages' = s.max_pages /\ cell' = s.cell
            /\ modified' = s.modified /\ index' = s.index
            /\ end' = s.end /\ record_count' = s.record_count /\ heap' = s.heap
            /\ fds' = [fds EXCEPT ![fd] = s.offset]
            /\ hung' = IF s.state \in {"log", "merge"} THEN s.state ELSE "no"
            /\ sure' = (sure /\ (s.direct \/ s.state = "failed"))
            /\ written' = CASE sure' /\ s.direct -> [written EXCEPT ![fds[fd]] = b]
                             [] sure' /\ ~s.direct -> written
                             [] OTHER -> Erased(MaxPages)
  BY DEF cfs_write
<1>2. PICK t \in Grow(Now(fd)) : s \in Put(t, b)
  BY <1>1
<1>3. /\ Proper(s)
      /\ sure /\ s.state = "failed" =>
           ~s.modified /\ Holds(s.cell) /\ s.end = end /\ s.end <= Capacity(s.max_pages)
      /\ s.direct => s.state = "on"
      /\ sure /\ s.direct =>
           /\ ~s.modified /\ s.end = fds[fd] + 1 /\ s.end <= Capacity(s.max_pages)
           /\ \A i \in DOMAIN written :
                 [written EXCEPT ![fds[fd]] = b][i] =
                     IF i \in DOMAIN s.cell THEN s.cell[i] ELSE 0
  BY <1>2, PutFacts
<1>4. s \in WriteStates /\ s.cell \in [DOMAIN Erased(s.max_pages) -> Byte]
      /\ s.end <= s.max_pages * COFFEE_PAGE_SIZE /\ s.offset <= s.end /\ end <= s.end
  BY <1>3 DEF Proper
<1>5. end \in Nat /\ fds[fd] \in Nat /\ fds[fd] <= end
  BY Begins
<1>6. written \in [DOMAIN Erased(MaxPages) -> Byte] /\ sure \in BOOLEAN
      /\ fds \in [FDs -> (0..LastOffset) \union {NULL}]
  BY DEF IInv, TypeOK, LastOffset
<1>7. /\ max_pages' \in 1..MaxPages /\ modified' \in BOOLEAN
      /\ index' \subseteq 0..(LogRecords - 1) /\ end' \in 0..LastOffset
      /\ record_count' \in -1..LogRecords /\ heap' \in 0..Heap
      /\ s.offset \in 0..LastOffset /\ s.direct \in BOOLEAN
      /\ s.state \in {"on", "failed", "log", "merge"}
  BY <1>1, <1>4 DEF WriteStates
<1>8. TypeOK'
  <2>1. cell' \in [DOMAIN Erased(max_pages') -> Byte]
    BY <1>1, <1>4
  <2>2. fds' \in [FDs -> (0..LastOffset) \union {NULL}]
    BY <1>1, <1>6, <1>7
  <2>3. hung' \in {"no", "log", "merge"} /\ sure' \in BOOLEAN
    BY <1>1, <1>6, <1>7
  <2>4. written' \in [DOMAIN Erased(MaxPages) -> Byte]
    <3>1. [written EXCEPT ![fds[fd]] = b] \in [DOMAIN Erased(MaxPages) -> Byte]
      BY <1>6
    <3>2. written' = [written EXCEPT ![fds[fd]] = b] \/ written' = written \/ written' = Erased(MaxPages)
      BY <1>1
    <3> QED BY <1>6, <3>1, <3>2, ErasedDomain
  <2>5. end' \in -1..LastOffset
    BY <1>7
  <2>6. Erased(max_pages)' = Erased(max_pages') /\ Erased(MaxPages)' = Erased(MaxPages)
    BY DEF Erased, Capacity
  <2> QED BY <1>7, <2>1, <2>2, <2>3, <2>4, <2>5, <2>6 DEF TypeOK, LastOffset
<1>9. InExtent'
  <2>1. \A g \in FDs : fds'[g] # NULL => fds'[g] <= end'
    <3>1. TAKE g \in FDs
    <3>2. CASE g = fd
      BY <1>1, <1>4, <1>6, <3>2
    <3>3. CASE g # fd
      <4>1. fds'[g] = fds[g]
        BY <1>1, <1>6, <3>3
      <4>2. fds[g] # NULL => fds[g] <= end /\ fds[g] \in Nat
        BY <1>6 DEF IInv, InExtent
      <4> QED BY <1>1, <1>4, <1>5, <1>7, <4>1, <4>2
    <3> QED BY <3>2, <3>3
  <2>2. sure' => end' <= Capacity(max_pages')
    BY <1>1, <1>3
  <2> QED BY <1>1, <1>4, <2>1, <2>2 DEF InExtent, Capacity
<1>10. Mirror'
  <2> SUFFICES ASSUME sure'
               PROVE  /\ ~modified' /\ hung' = "no" /\ Holds(cell)'
                      /\ end' # UNKNOWN_OFFSET =>
                           \A i \in DOMAIN written' : i >= end' => written'[i] = 0
    BY DEF Mirror, UNKNOWN_OFFSET
  <2>1. sure /\ (s.direct \/ s.state = "failed")
    BY <1>1
  <2>2. \A i \in DOMAIN written : i >= end => written[i] = 0
    BY <1>5, <2>1 DEF IInv, Mirror
  <2>3. CASE s.direct
    <3>1. written' = [written EXCEPT ![fds[fd]] = b]
      BY <1>1, <2>3
    <3>2. \A i \in DOMAIN written' : written'[i] = IF i \in DOMAIN cell' THEN cell'[i] ELSE 0
      BY <1>1, <1>3, <2>1, <2>3, <3>1
    <3>3. ASSUME NEW i \in DOMAIN written', i >= end' PROVE written'[i] = 0
      <4>0. DOMAIN written' = DOMAIN Erased(MaxPages)
        BY <1>6, <3>1
      <4>1. i \in Nat
        <5>1. Capacity(MaxPages) \in Nat
          BY Products
        <5>2. i \in 0 .. (Capacity(MaxPages) - 1)
          BY <3>3, <4>0, ErasedDomain
        <5> QED BY <5>1, <5>2
      <4>2. i # fds[fd] /\ i >= end
        BY <1>1, <1>3, <1>4, <1>5, <1>7, <2>1, <2>3, <3>3, <4>1
      <4> QED BY <1>6, <2>2, <3>1, <4>2
    <3> QED BY <1>1, <1>3, <2>1, <2>3, <3>2, <3>3 DEF Holds
  <2>4. CASE ~s.direct
    <3>1. written' = written /\ s.state = "failed"
      BY <1>1, <2>1, <2>4
    <3> QED BY <1>1, <1>3, <2>1, <2>2, <3>1 DEF Holds
  <2> QED BY <2>3, <2>4
<1> QED BY <1>8, <1>9, <1>10 DEF IInv

\* The bytes of the file, and where a search finds its end.
LEMMA FileFacts ==
    ASSUME IInv
    PROVE  /\ DOMAIN cell = 0 .. (Capacity(max_pages) - 1)
           /\ DOMAIN written = 0 .. (Capacity(MaxPages) - 1)
           /\ Capacity(max_pages) \in Nat /\ Capacity(MaxPages) \in Nat
           /\ Capacity(max_pages) <= Capacity(MaxPages)
           /\ Capacity(max_pages) <= max_pages * COFFEE_PAGE_SIZE
           /\ max_pages * COFFEE_PAGE_SIZE \in Nat
           /\ max_pages * COFFEE_PAGE_SIZE <= LastOffset
           /\ file_end \in 0 .. Capacity(max_pages)
           /\ \A i \in DOMAIN cell : i >= file_end => cell[i] = 0
<1> USE Constants
<1>1. /\ max_pages \in 1..MaxPages /\ cell \in [DOMAIN Erased(max_pages) -> Byte]
      /\ written \in [DOMAIN Erased(MaxPages) -> Byte]
  BY DEF IInv, TypeOK
<1>2. /\ DOMAIN cell = 0 .. (Capacity(max_pages) - 1)
      /\ DOMAIN written = 0 .. (Capacity(MaxPages) - 1)
  BY <1>1, ErasedDomain
<1>3. /\ Capacity(max_pages) \in Nat /\ Capacity(MaxPages) \in Nat
      /\ Capacity(max_pages) <= Capacity(MaxPages)
      /\ Capacity(max_pages) <= max_pages * COFFEE_PAGE_SIZE
      /\ max_pages * COFFEE_PAGE_SIZE \in Nat
      /\ max_pages * COFFEE_PAGE_SIZE <= LastOffset
  BY <1>1, Products
<1>4. file_end = LastOf(cell)
  BY DEF file_end, LastOf
<1>5. LastOf(cell) \in 0 .. Capacity(max_pages)
      /\ \A i \in DOMAIN cell : cell[i] # 0 => i < LastOf(cell)
  BY <1>2, <1>3, LastFacts
<1>6. \A i \in DOMAIN cell : i >= file_end => cell[i] = 0
  BY <1>2, <1>3, <1>4, <1>5
<1> QED BY <1>2, <1>3, <1>4, <1>5, <1>6

\* The type is kept by a step that leaves the flash and the history as they are.
LEMMA TypeKept ==
    ASSUME IInv, UNCHANGED <<flash, written>>,
           end' \in -1..LastOffset, record_count' \in -1..LogRecords, heap' \in 0..Heap,
           fds' \in [FDs -> (0..LastOffset) \union {NULL}],
           hung' \in {"no", "log", "merge"}, sure' \in BOOLEAN
    PROVE  TypeOK'
<1>1. /\ max_pages' = max_pages /\ cell' = cell /\ modified' = modified /\ index' = index
      /\ written' = written
  BY DEF flash
<1>2. Erased(max_pages)' = Erased(max_pages) /\ Erased(MaxPages)' = Erased(MaxPages)
  BY <1>1 DEF Erased, Capacity
<1> QED BY <1>1, <1>2 DEF IInv, TypeOK, LastOffset

LEMMA OpenStep == ASSUME IInv, cfs_open PROVE IInv'
<1> USE Constants
<1>1. /\ end' = IF end = UNKNOWN_OFFSET THEN file_end ELSE end
      /\ UNCHANGED <<flash, record_count, heap, hung, written, sure>>
  BY DEF cfs_open
<1>2. PICK free \in FDs : fds' = [fds EXCEPT ![free] = 0] /\ fds[free] = NULL
  <2> DEFINE S == {fd \in FDs : fds[fd] = NULL}
  <2>1. S # {} /\ fds' = [fds EXCEPT ![Min(S)] = 0]
    BY DEF cfs_open
  <2>2. S \subseteq Nat
    BY FileAssumption DEF FDs
  <2>3. Min(S) \in S
    <3> HIDE DEF S
    <3> QED BY <2>1, <2>2, MinFacts
  <2> QED BY <2>1, <2>3
<1>3. /\ max_pages' = max_pages /\ cell' = cell /\ modified' = modified /\ written' = written
      /\ sure' = sure /\ hung' = hung /\ heap' = heap /\ record_count' = record_count
  BY <1>1 DEF flash
<1>4. /\ end \in -1..LastOffset /\ record_count \in -1..LogRecords /\ heap \in 0..Heap
      /\ fds \in [FDs -> (0..LastOffset) \union {NULL}]
      /\ hung \in {"no", "log", "merge"} /\ sure \in BOOLEAN
  BY DEF IInv, TypeOK, LastOffset
<1>5. end' \in 0..LastOffset /\ end <= end'
  BY <1>1, <1>4, FileFacts
<1>6. TypeOK'
  <2>1. fds' \in [FDs -> (0..LastOffset) \union {NULL}]
    BY <1>2, <1>4
  <2>2. end' \in -1..LastOffset
    BY <1>5
  <2> QED BY <1>1, <1>3, <1>4, <2>1, <2>2, TypeKept
<1>7. InExtent'
  <2>1. end' <= max_pages * COFFEE_PAGE_SIZE /\ (sure => end' <= Capacity(max_pages))
    BY <1>1, FileFacts DEF IInv, InExtent
  <2>2. \A fd \in FDs : fds'[fd] # NULL => fds'[fd] <= end'
    <3>1. TAKE fd \in FDs
    <3>2. fds[fd] # NULL => fds[fd] \in Nat /\ fds[fd] <= end
      BY <1>4 DEF IInv, InExtent
    <3>3. fds'[fd] = IF fd = free THEN 0 ELSE fds[fd]
      BY <1>2, <1>4
    <3> QED BY <1>4, <1>5, <3>2, <3>3
  <2> QED BY <1>3, <2>1, <2>2 DEF InExtent, Capacity
<1>8. Mirror'
  <2>1. sure => \A i \in DOMAIN written : i >= end' => written[i] = 0
    <3>1. CASE end = UNKNOWN_OFFSET
      <4>1. end' = file_end
        BY <1>1, <3>1
      <4> QED BY <4>1, FileFacts DEF IInv, Mirror, Holds
    <3>2. CASE end # UNKNOWN_OFFSET
      BY <1>1, <3>2 DEF IInv, Mirror
    <3> QED BY <3>1, <3>2
  <2> QED BY <1>3, <2>1 DEF IInv, Mirror, Holds, UNKNOWN_OFFSET
<1> QED BY <1>6, <1>7, <1>8 DEF IInv

\* Closing a file, reading from it, and a call that hangs in it.
LEMMA CloseReadStep ==
    ASSUME IInv, NEW fd \in FDs, fds[fd] # NULL, cfs_close(fd) \/ cfs_read(fd)
    PROVE  IInv'
<1> USE Constants
<1>1. /\ end \in -1..LastOffset /\ record_count \in -1..LogRecords /\ heap \in 0..Heap
      /\ fds \in [FDs -> (0..LastOffset) \union {NULL}]
      /\ hung \in {"no", "log", "merge"} /\ sure \in BOOLEAN
  BY DEF IInv, TypeOK, LastOffset
<1>2. CASE \E call : Hang(call)
  <2>1. /\ max_pages' = max_pages /\ cell' = cell /\ modified' = modified /\ index' = index
        /\ end' = end /\ record_count' = record_count /\ fds' = fds /\ heap' = heap
        /\ hung' = "log" /\ sure' = FALSE /\ written' = Erased(MaxPages)
    BY <1>2 DEF Hang, flash
  <2>2. Erased(max_pages)' = Erased(max_pages) /\ Erased(MaxPages)' = Erased(MaxPages)
    BY <2>1 DEF Erased, Capacity
  <2>3. TypeOK'
    BY <2>1, <2>2, ErasedDomain DEF IInv, TypeOK
  <2>4. InExtent' /\ Mirror'
    BY <2>1 DEF IInv, InExtent, Mirror
  <2> QED BY <2>3, <2>4 DEF IInv
<1>3. CASE /\ UNCHANGED <<flash, end, record_count, hung, written, sure>>
           /\ heap' \in 0..Heap
           /\ fds' \in [FDs -> (0..LastOffset) \union {NULL}]
           /\ \A g \in FDs : fds'[g] # NULL => fds'[g] <= end
  <2>1. /\ max_pages' = max_pages /\ cell' = cell /\ modified' = modified /\ written' = written
        /\ sure' = sure /\ hung' = hung /\ end' = end /\ record_count' = record_count
    BY <1>3 DEF flash
  <2>2. TypeOK'
    BY <1>1, <1>3, <2>1, TypeKept
  <2>3. InExtent' /\ Mirror'
    BY <1>3, <2>1 DEF IInv, InExtent, Mirror, Capacity, Holds, UNKNOWN_OFFSET
  <2> QED BY <2>2, <2>3 DEF IInv
<1>4. \A g \in FDs : fds[g] # NULL => fds[g] <= end /\ fds[g] \in Nat
  BY <1>1 DEF IInv, InExtent
<1>5. CASE cfs_close(fd)
  <2>1. fds' = [fds EXCEPT ![fd] = NULL]
        /\ UNCHANGED <<flash, end, record_count, heap, hung, written, sure>>
    BY <1>5 DEF cfs_close
  <2>2. \A g \in FDs : fds'[g] # NULL => fds'[g] <= end
    BY <1>1, <1>4, <2>1
  <2> QED BY <1>1, <1>3, <2>1, <2>2
<1>6. CASE cfs_read(fd)
  <2>1. CASE UNCHANGED <<flash, end, record_count, fds, heap, hung, written, sure>>
    BY <1>1, <1>3, <1>4, <2>1
  <2>2. CASE /\ Readable(fds[fd]) /\ (modified => heap > 0)
             /\ heap' = (IF modified THEN heap - 1 ELSE heap)
             /\ fds' = [fds EXCEPT ![fd] = fds[fd] + 1]
             /\ UNCHANGED <<flash, end, record_count, hung, written, sure>>
    <3>1. fds[fd] \in Nat /\ fds[fd] < end
      BY <1>4, <2>2 DEF Readable
    <3>2. fds' \in [FDs -> (0..LastOffset) \union {NULL}]
      BY <1>1, <2>2, <3>1
    <3>3. \A g \in FDs : fds'[g] # NULL => fds'[g] <= end
      BY <1>1, <1>4, <2>2, <3>1
    <3>4. heap' \in 0..Heap
      BY <1>1, <2>2
    <3> QED BY <1>3, <2>2, <3>2, <3>3, <3>4
  <2> QED BY <1>2, <1>6, <2>1, <2>2 DEF cfs_read
<1> QED BY <1>5, <1>6

LEMMA SeekStep ==
    ASSUME IInv, NEW fd \in FDs, fds[fd] # NULL, NEW offset \in Offsets,
           NEW from \in {0, fds[fd], end}, cfs_seek(fd, offset, from)
    PROVE  IInv'
<1> USE Constants
<1> DEFINE new == from + offset
<1>1. /\ end \in -1..LastOffset /\ record_count \in -1..LogRecords /\ heap \in 0..Heap
      /\ fds \in [FDs -> (0..LastOffset) \union {NULL}]
      /\ hung \in {"no", "log", "merge"} /\ sure \in BOOLEAN
      /\ written \in [DOMAIN Erased(MaxPages) -> Byte]
  BY DEF IInv, TypeOK, LastOffset
<1>2. \A g \in FDs : fds[g] # NULL => fds[g] <= end /\ fds[g] \in Nat
  BY <1>1 DEF IInv, InExtent
<1>3. new \in Int
  BY <1>1, <1>2
<1>4. CASE new < 0 \/ new > max_pages * COFFEE_PAGE_SIZE
  <2>1. UNCHANGED <<flash, end, record_count, fds, heap, hung, written, sure>>
    BY <1>4 DEF cfs_seek
  <2>2. /\ max_pages' = max_pages /\ cell' = cell /\ modified' = modified /\ written' = written
        /\ sure' = sure /\ hung' = hung /\ end' = end /\ record_count' = record_count
        /\ fds' = fds
    BY <2>1 DEF flash
  <2>3. TypeOK'
    BY <1>1, <2>1, TypeKept
  <2> QED BY <2>2, <2>3 DEF IInv, InExtent, Mirror, Capacity, Holds, UNKNOWN_OFFSET
<1>5. CASE ~(new < 0 \/ new > max_pages * COFFEE_PAGE_SIZE)
  <2>1. /\ end' = Max({end, new}) /\ fds' = [fds EXCEPT ![fd] = new]
        /\ sure' = (sure /\ new <= Capacity(max_pages))
        /\ written' = IF sure' THEN written ELSE Erased(MaxPages)
        /\ UNCHANGED <<flash, record_count, heap, hung>>
    BY <1>5 DEF cfs_seek
  <2>2. /\ max_pages' = max_pages /\ cell' = cell /\ modified' = modified /\ index' = index
        /\ record_count' = record_count /\ heap' = heap /\ hung' = hung
    BY <2>1 DEF flash
  <2>3. /\ Capacity(max_pages) \in Nat /\ max_pages * COFFEE_PAGE_SIZE \in Nat
        /\ max_pages * COFFEE_PAGE_SIZE <= LastOffset
    BY FileFacts
  <2>4. new \in 0..LastOffset /\ new <= max_pages * COFFEE_PAGE_SIZE
    BY <1>3, <1>5, <2>3
  <2> HIDE DEF new
  <2>5. end' = IF end >= new THEN end ELSE new
    BY <1>1, <1>3, <2>1, MaxOfTwo
  <2>6. end' \in 0..LastOffset /\ end <= end' /\ new <= end'
    BY <1>1, <2>4, <2>5
  <2>7. fds' \in [FDs -> (0..LastOffset) \union {NULL}]
    BY <1>1, <2>1, <2>4
  <2>8. TypeOK'
    <3>1. Erased(max_pages)' = Erased(max_pages) /\ Erased(MaxPages)' = Erased(MaxPages)
      BY <2>2 DEF Erased, Capacity
    <3>2. written' \in [DOMAIN Erased(MaxPages) -> Byte]
      BY <1>1, <2>1, ErasedDomain
    <3>3. end' \in -1..LastOffset /\ sure' \in BOOLEAN
      BY <1>1, <2>1, <2>6
    <3> QED BY <2>2, <2>7, <3>1, <3>2, <3>3 DEF IInv, TypeOK, LastOffset
  <2>9. InExtent'
    <3>1. end' <= max_pages * COFFEE_PAGE_SIZE
      BY <2>4, <2>5 DEF IInv, InExtent
    <3>2. sure' => end' <= Capacity(max_pages)
      BY <2>1, <2>5 DEF IInv, InExtent
    <3>3. \A g \in FDs : fds'[g] # NULL => fds'[g] <= end'
      <4>1. TAKE g \in FDs
      <4>2. fds'[g] = IF g = fd THEN new ELSE fds[g]
        BY <1>1, <2>1
      <4> QED BY <1>1, <1>2, <2>6, <4>2
    <3> QED BY <2>2, <3>1, <3>2, <3>3 DEF InExtent, Capacity
  <2>10. Mirror'
    <3> SUFFICES ASSUME sure'
                 PROVE  /\ ~modified' /\ hung' = "no" /\ Holds(cell)'
                        /\ end' # UNKNOWN_OFFSET =>
                             \A i \in DOMAIN written' : i >= end' => written'[i] = 0
      BY DEF Mirror, UNKNOWN_OFFSET
    <3>1. sure /\ written' = written
      BY <2>1
    <3>2. end # UNKNOWN_OFFSET /\ end \in Nat
      BY <1>1, <1>2
    <3>3. \A i \in DOMAIN written : i >= end' => i >= end
      BY <1>1, <2>6, FileFacts
    <3> QED BY <2>2, <3>1, <3>2, <3>3 DEF IInv, Mirror, Holds
  <2> QED BY <2>8, <2>9, <2>10 DEF IInv
<1> QED BY <1>4, <1>5

LEMMA EvictStep == ASSUME IInv, Evict PROVE IInv'
<1> USE Constants
<1>1. /\ record_count \in -1..LogRecords /\ heap \in 0..Heap
      /\ fds \in [FDs -> (0..LastOffset) \union {NULL}]
      /\ hung \in {"no", "log", "merge"} /\ sure \in BOOLEAN
  BY DEF IInv, TypeOK, LastOffset
<1>2. /\ \A fd \in FDs : fds[fd] = NULL
      /\ end' = UNKNOWN_OFFSET /\ record_count' = -1
      /\ UNCHANGED <<flash, fds, heap, hung, written, sure>>
  BY DEF Evict
<1>3. /\ max_pages' = max_pages /\ cell' = cell /\ modified' = modified /\ written' = written
      /\ sure' = sure /\ hung' = hung /\ fds' = fds
  BY <1>2 DEF flash
<1>4. TypeOK'
  BY <1>1, <1>2, TypeKept
<1>5. InExtent'
  BY <1>2, <1>3, FileFacts DEF InExtent, Capacity
<1>6. Mirror'
  BY <1>2, <1>3 DEF IInv, Mirror, Holds, UNKNOWN_OFFSET
<1> QED BY <1>4, <1>5, <1>6 DEF IInv

LEMMA ResetStep == ASSUME IInv, Reset PROVE IInv'
<1> USE Constants
<1>1. /\ end' = UNKNOWN_OFFSET /\ record_count' = -1 /\ fds' = [fd \in FDs |-> NULL]
      /\ heap' = Heap /\ hung' = "no" /\ written' = written /\ sure' = sure
  BY DEF Reset
<1>2. /\ fds' \in [FDs -> (0..LastOffset) \union {NULL}] /\ end' \in -1..LastOffset
      /\ record_count' \in -1..LogRecords /\ heap' \in 0..Heap
      /\ hung' \in {"no", "log", "merge"} /\ sure' \in BOOLEAN
  BY <1>1 DEF IInv, TypeOK
<1>3. CASE UNCHANGED flash
  <2>1. /\ max_pages' = max_pages /\ cell' = cell /\ modified' = modified
    BY <1>3 DEF flash
  <2>2. TypeOK'
    BY <1>1, <1>2, <1>3, TypeKept
  <2>3. InExtent'
    BY <1>1, <2>1, FileFacts, SMTT(30) DEF InExtent, Capacity
  <2>4. Mirror'
    BY <1>1, <2>1 DEF IInv, Mirror, Holds, UNKNOWN_OFFSET
  <2> QED BY <2>2, <2>3, <2>4 DEF IInv
<1>4. CASE /\ hung = "merge"
           /\ max_pages' \in {p \in {max_pages, 2 * max_pages} : p <= MaxPages}
           /\ \E n \in 0..end : cell' \in Copies(max_pages', n)
           /\ modified' = FALSE /\ index' = {}
  <2>1. ~sure
    BY <1>4 DEF IInv, Mirror
  <2>2. max_pages' \in 1..MaxPages
    BY <1>4 DEF IInv, TypeOK
  <2>3. cell' \in [DOMAIN Erased(max_pages') -> Byte]
    BY <1>4 DEF Copies
  <2>4. TypeOK'
    <3>1. Erased(max_pages)' = Erased(max_pages') /\ Erased(MaxPages)' = Erased(MaxPages)
      BY DEF Erased, Capacity
    <3>2. written' \in [DOMAIN Erased(MaxPages) -> Byte]
      BY <1>1 DEF IInv, TypeOK
    <3>3. index' \subseteq 0..(LogRecords - 1) /\ modified' \in BOOLEAN
      BY <1>4
    <3> QED BY <1>2, <2>2, <2>3, <3>1, <3>2, <3>3 DEF TypeOK, LastOffset
  <2>5. InExtent'
    <3>1. max_pages' * COFFEE_PAGE_SIZE \in Nat
      BY <2>2, Products
    <3> QED BY <1>1, <2>1, <3>1 DEF InExtent
  <2>6. Mirror'
    BY <1>1, <2>1 DEF Mirror
  <2> QED BY <2>4, <2>5, <2>6 DEF IInv
<1> QED BY <1>3, <1>4 DEF Reset

LEMMA StutterStep == ASSUME IInv, UNCHANGED vars PROVE IInv'
<1>1. /\ max_pages' = max_pages /\ cell' = cell /\ modified' = modified /\ index' = index
      /\ end' = end /\ record_count' = record_count /\ fds' = fds /\ heap' = heap
      /\ hung' = hung /\ written' = written /\ sure' = sure
  BY DEF vars, flash
<1>2. Erased(max_pages)' = Erased(max_pages) /\ Erased(MaxPages)' = Erased(MaxPages)
  BY <1>1 DEF Erased, Capacity
<1> QED BY <1>1, <1>2 DEF IInv, TypeOK, InExtent, Mirror, Holds, Capacity, UNKNOWN_OFFSET

LEMMA Step == IInv /\ [Next]_vars => IInv'
<1> SUFFICES ASSUME IInv, [Next]_vars PROVE IInv'
  OBVIOUS
<1>1. CASE cfs_open
  BY <1>1, OpenStep
<1>2. CASE Evict
  BY <1>2, EvictStep
<1>3. ASSUME NEW fd \in FDs, fds[fd] # NULL, cfs_close(fd) \/ cfs_read(fd) PROVE IInv'
  BY <1>3, CloseReadStep
<1>4. ASSUME NEW fd \in FDs, fds[fd] # NULL, NEW b \in Byte, cfs_write(fd, b) PROVE IInv'
  BY <1>4, WriteStep
<1>5. ASSUME NEW fd \in FDs, fds[fd] # NULL, NEW offset \in Offsets,
             NEW from \in {0, fds[fd], end}, cfs_seek(fd, offset, from)
      PROVE  IInv'
  BY <1>5, SeekStep
<1>6. CASE Reset
  BY <1>6, ResetStep
<1>7. CASE UNCHANGED vars
  BY <1>7, StutterStep
<1> QED BY <1>1, <1>2, <1>3, <1>4, <1>5, <1>6, <1>7 DEF Next

-----------------------------------------------------------------------------
(* What follows *)

\* The invariant holds of every behaviour of a file.
THEOREM Invariance == Spec => []IInv
<1>1. Init => IInv
  BY InitHolds
<1>2. IInv /\ [Next]_vars => IInv'
  BY Step
<1> QED BY <1>1, <1>2, PTL DEF Spec

\* The state of the file, its extent and its file object keep their types: no write,
\* growth or log record leaves the extent, the log or the heap (cfs_write, merge_log,
\* write_log_page).
THEOREM TypeCorrect == Spec => []TypeOK
<1>1. IInv => TypeOK
  BY DEF IInv
<1> QED BY <1>1, Invariance, PTL

\* No descriptor stands behind the end of its file, nor, as long as nothing is
\* overwritten, the end behind the extent: the subtraction in cfs_read never wraps.
THEOREM PositionsStayInFile == Spec => []PositionInFile
<1>1. IInv => PositionInFile
  BY DEF IInv, InExtent, PositionInFile
<1> QED BY <1>1, Invariance, PTL

LEMMA EndFollows == IInv => EndFound
<1> SUFFICES ASSUME IInv, sure
             PROVE  /\ end # UNKNOWN_OFFSET => LastOf(written) <= end
                    /\ file_end = LastOf(written)
  BY DEF EndFound, LastOf
<1> USE Constants
<1>1. /\ Holds(cell)
      /\ end # UNKNOWN_OFFSET => \A i \in DOMAIN written : i >= end => written[i] = 0
      /\ end \in -1..LastOffset
  BY DEF IInv, Mirror, TypeOK, LastOffset
<1>2. /\ DOMAIN cell = 0 .. (Capacity(max_pages) - 1)
      /\ DOMAIN written = 0 .. (Capacity(MaxPages) - 1)
      /\ Capacity(max_pages) \in Nat /\ Capacity(MaxPages) \in Nat
      /\ Capacity(max_pages) <= Capacity(MaxPages)
  BY FileFacts
<1>3. end # UNKNOWN_OFFSET => LastOf(written) <= end
  <2>1. end # UNKNOWN_OFFSET => end \in Nat
    BY <1>1
  <2> QED BY <1>1, <1>2, <2>1, LastFacts
<1>4. {j \in DOMAIN cell : cell[j] # 0} = {j \in DOMAIN written : written[j] # 0}
  <2>1. DOMAIN cell \subseteq DOMAIN written
    BY <1>2
  <2> QED BY <1>1, <2>1 DEF Holds
<1>5. file_end = LastOf(written)
  BY <1>4 DEF file_end, LastOf
<1> QED BY <1>3, <1>5

\* As long as nothing is overwritten, the search for the end of a file that is not
\* cached finds the end of what was written, through growth, eviction and resets
\* (file_end, merge_log).
THEOREM EndIsFound == Spec => []EndFound
<1> QED BY EndFollows, Invariance, PTL

LEMMA ReadStep ==
    ASSUME IInv, Next, sure, reply'.op = "read", reply'.result = 1
    PROVE  reply'.byte = written[reply'.offset]
<1> USE Constants
<1>1. ASSUME NEW fd \in FDs, fds[fd] # NULL, cfs_read(fd)
      PROVE  reply'.byte = written[reply'.offset]
  <2>0. PICK call : call = [NoReply EXCEPT !.op = "read", !.fd = fd, !.offset = fds[fd]]
    OBVIOUS
  <2>1. call.op = "read" /\ call.offset = fds[fd] /\ call.result = 0
        /\ DOMAIN call = {"op", "fd", "offset", "byte", "result"}
    BY <2>0 DEF NoReply
  <2>2. PICK b \in ReadAt(fds[fd]) :
           reply' = [[call EXCEPT !.byte = b] EXCEPT !.result = 1] /\ Readable(fds[fd])
    <3>1. \/ \E b \in ReadAt(fds[fd]) :
               reply' = [[call EXCEPT !.byte = b] EXCEPT !.result = 1] /\ Readable(fds[fd])
          \/ reply' = [call EXCEPT !.result = 0]
          \/ reply' = call
      BY <1>1, <2>0 DEF cfs_read, Answer, Hang
    <3>2. reply' # call
      BY <2>1
    <3>3. reply' # [call EXCEPT !.result = 0]
      BY <2>1
    <3> QED BY <3>1, <3>2, <3>3
  <2>3. reply'.byte = b /\ reply'.offset = fds[fd]
    BY <2>1, <2>2
  <2>4. fds[fd] \in Nat /\ fds[fd] < end /\ end <= Capacity(max_pages) /\ end \in Int
    <3>1. fds[fd] \in (0..LastOffset) \union {NULL} /\ end \in -1..LastOffset
      BY DEF IInv, TypeOK, LastOffset
    <3> QED BY <1>1, <2>2, <3>1 DEF Readable, IInv, InExtent
  <2>5. fds[fd] \in DOMAIN cell /\ fds[fd] \in DOMAIN written
    BY <2>4, FileFacts
  <2>6. b = cell[fds[fd]]
    BY <2>2, <2>5 DEF ReadAt, IInv, Mirror
  <2>7. written[fds[fd]] = cell[fds[fd]]
    BY <2>5 DEF IInv, Mirror, Holds
  <2> QED BY <2>3, <2>6, <2>7
<1>2. ASSUME cfs_open PROVE reply'.op = "open"
  BY <1>2 DEF cfs_open, Answer, NoReply
<1>3. ASSUME Evict \/ Reset PROVE reply'.op \in {"evict", "reset"}
  BY <1>3 DEF Evict, Reset, NoReply
<1>4. ASSUME NEW fd \in FDs, cfs_close(fd) PROVE reply'.op = "close"
  BY <1>4 DEF cfs_close, Answer, NoReply
<1>5. ASSUME NEW fd \in FDs, NEW b \in Byte, cfs_write(fd, b) PROVE reply'.op = "write"
  BY <1>5 DEF cfs_write, Answer, NoReply
<1>6. ASSUME NEW fd \in FDs, NEW offset \in Offsets, NEW from, cfs_seek(fd, offset, from)
      PROVE  reply'.op = "seek"
  BY <1>6 DEF cfs_seek, Answer, NoReply
<1> QED BY <1>1, <1>2, <1>3, <1>4, <1>5, <1>6 DEF Next

\* As long as nothing is overwritten, a read returns the byte that was last written
\* at its offset, or zero: through other descriptors, growth, eviction and resets
\* (cfs_read, cfs_write, merge_log).
THEOREM ReadsReturnTheWritten == Spec => ReadsBack
<1>1. IInv /\ [Next]_vars =>
        [sure /\ reply'.op = "read" /\ reply'.result = 1 =>
            reply'.byte = written[reply'.offset]]_vars
  BY ReadStep
<1> QED BY <1>1, Invariance, PTL DEF Spec, ReadsBack
=============================================================================
