---------------------------- MODULE CoffeeProofs ----------------------------
(***************************************************************************)
(* Coffee, for any flash, any files and any number of descriptors: extents *)
(* stay apart, the cache and the descriptors agree with the flash, every   *)
(* free page is found by the search for it, there is one copy of each      *)
(* name, no step loses a file, and every call is one that SFS expects of   *)
(* its back-end, as long as garbage collection leaves the walk intact.     *)
(***************************************************************************)
EXTENDS CoffeeLemmas
-----------------------------------------------------------------------------
(* The calls *)

Inv ==
    /\ Strong(Mem, {})
    /\ Unhidden(hdr, next_free)
    /\ HeadersOnly(hdr) => Space(Mem)

\* After a reset nothing is cached and nothing is open.
LEMMA StrongReset ==
    ASSUME NEW n, n.hdr \in Images, Sound(n.hdr), n.files = [s \in Slots |-> NoFile],
           n.fds = [fd \in FDs |-> NULL], n.next_free = 0, n.gc_wait = FALSE
    PROVE  Strong(n, {})
<1>1. NoFile \in FileT /\ NoFile.page = INVALID_PAGE /\ FILE_FREE(NoFile) /\ NoFile.references = 0
  BY Constants, CoffeeAssumption DEF NoFile, FileT, FILE_FREE
<1>2. Typed(n)
  <2>1. n.files \in [Slots -> FileT] /\ n.fds \in [FDs -> Slots \union {NULL}]
    BY <1>1
  <2>2. n.next_free \in 0..COFFEE_PAGE_COUNT
    BY Constants
  <2>3. n.gc_wait \in BOOLEAN
    BY Zenon
  <2> QED BY <2>1, <2>2, <2>3 DEF Typed
<1>3. Cached(n)
  BY <1>1 DEF Cached
<1>4. \A s \in Slots : Refs(n, s) = {}
  BY Constants DEF Refs
<1>5. Counted(n, {})
  BY <1>1, <1>4, FS_EmptySet DEF Counted
<1>6. Connected(n)
  BY DEF Connected
<1> QED BY <1>2, <1>3, <1>5, <1>6 DEF Strong

\* And all free space is found that the walk can find.
LEMMA SpaceReset ==
    ASSUME NEW n, n.hdr \in Images, HeadersOnly(n.hdr) => Laid(n.hdr), n.next_free = 0, n.gc_wait = FALSE
    PROVE  Unhidden(n.hdr, n.next_free) /\ (HeadersOnly(n.hdr) => Space(n))
BY UnhiddenAll DEF Space

\* So is an empty flash.
LEMMA StrongFormat ==
    ASSUME NEW n, n.hdr = [p \in Pages |-> Page("free")], n.files = [s \in Slots |-> NoFile],
           n.fds = [fd \in FDs |-> NULL], n.next_free = 0, n.gc_wait = FALSE
    PROVE  Strong(n, {}) /\ Unhidden(n.hdr, n.next_free) /\ (HeadersOnly(n.hdr) => Space(n))
<1>1. n.hdr \in Images /\ \A p \in Pages : ~HDR_ACTIVE(n.hdr[p])
  BY PageType DEF Images
<1>2. Sound(n.hdr)
  BY <1>1 DEF Sound
<1>3. Laid(n.hdr)
  BY EmptyLaid
<1> QED BY <1>1, <1>2, <1>3, StrongReset, SpaceReset

LEMMA MemFields ==
    /\ Mem.hdr = hdr /\ Mem.files = coffee_files /\ Mem.fds = coffee_fd_set
    /\ Mem.next_free = next_free /\ Mem.gc_wait = gc_wait /\ Mem.intact = TRUE
    /\ Mem.seen = {[hdr |-> hdr, intact |-> TRUE]}
BY DEF Mem

LEMMA MemGood ==
    ASSUME Inv, HeadersOnly(hdr)
    PROVE  Good(Mem, {}) /\ Mem.intact
<1>2. Rec(Mem)
  BY DEF Rec, Fields, Mem
<1>3. hdr \in Images /\ Sound(hdr)
  BY MemFields DEF Inv, Strong, Typed
<1>4. Space(Mem) /\ Laid(hdr)
  BY MemFields DEF Inv, Space
<1>5. CutsOK(Mem)
  BY <1>3, <1>4, MemFields DEF CutsOK
<1> QED BY <1>2, <1>4, <1>5, MemFields DEF Good, Inv

\* A call whose end is intact begins so, and finds what calls leave.
LEMMA CallFrom ==
    ASSUME NEW m, NEW call, Call(m, call)
    PROVE  /\ clean' \in BOOLEAN /\ intact' \in BOOLEAN
           /\ intact' => intact /\ LogsAlive /\ HeadersOnly(hdr)
           /\ clean' => clean /\ Spare
BY DEF Call, Return, Reset, Followed

LEMMA CallsFrom ==
    ASSUME Calls
    PROVE  /\ clean' \in BOOLEAN /\ intact' \in BOOLEAN
           /\ intact' => intact /\ LogsAlive /\ HeadersOnly(hdr)
           /\ clean' => clean /\ Spare
<1>1. \E m, call : Call(m, call)
  BY DEF Calls, cfs_open, cfs_remove, cfs_coffee_reserve, cfs_close, cfs_write
<1> QED BY <1>1, CallFrom

\* What a reset of the node makes of the flash image.
LEMMA ZeroedKeeps ==
    ASSUME Zeroed, hdr' \in Images, Sound(hdr'), HeadersOnly(hdr') => Laid(hdr')
    PROVE  Inv'
<1> DEFINE n == Mem'
<1>1. /\ n.hdr = hdr' /\ n.files = [s \in Slots |-> NoFile]
      /\ n.fds = [fd \in FDs |-> NULL] /\ n.next_free = 0 /\ n.gc_wait = FALSE
      /\ next_free' = 0
  BY DEF Zeroed, Mem
<1> HIDE DEF n
<1>2. Strong(n, {})
  BY <1>1, StrongReset
<1>3. Unhidden(n.hdr, n.next_free) /\ (HeadersOnly(n.hdr) => Space(n))
  BY <1>1, SpaceReset
<1> QED BY <1>1, <1>2, <1>3 DEF Inv, n

LEMMA CallKeeps ==
    ASSUME NEW m, Good(m, {}), NEW call, Call(m, call), intact'
    PROVE  Inv'
<1>1. CASE Return(m)
  <2>1. Strong(m, {}) /\ Space(m)
    BY <1>1 DEF Return, Good
  <2>2. /\ Mem'.hdr = m.hdr /\ Mem'.files = m.files /\ Mem'.fds = m.fds
        /\ Mem'.next_free = m.next_free /\ Mem'.gc_wait = m.gc_wait
    BY <1>1 DEF Return, Mem
  <2>3. Strong(Mem', {})
    BY <2>1, <2>2, StrongSame
  <2>4. Space(Mem') /\ Unhidden(hdr', next_free')
    BY <1>1, <2>1, <2>2, SpaceSame DEF Return, Space
  <2> QED BY <2>1, <2>3, <2>4 DEF Inv
<1>2. CASE Reset(m)
  <2>1. PICK cut \in m.seen : hdr' = cut.hdr /\ Zeroed /\ cut.intact
    BY <1>2 DEF Reset
  <2>2. cut.hdr \in Images /\ Sound(cut.hdr) /\ (HeadersOnly(cut.hdr) => Laid(cut.hdr))
    BY <2>1 DEF Good, CutsOK
  <2> QED BY <2>1, <2>2, ZeroedKeeps
<1> QED BY <1>1, <1>2 DEF Call

LEMMA Initially == Init => Inv
<1> SUFFICES ASSUME Init PROVE Inv
  OBVIOUS
<1>1. Strong(Mem, {}) /\ Unhidden(Mem.hdr, Mem.next_free) /\ (HeadersOnly(Mem.hdr) => Space(Mem))
  BY MemFields, StrongFormat DEF Init
<1> QED BY <1>1, MemFields DEF Init, Inv

\* What the call starts from.
LEMMA AtCall ==
    ASSUME Inv, LogsAlive, HeadersOnly(hdr)
    PROVE  /\ Good(Mem, {}) /\ Mem.intact
           /\ \A p \in Pages : HDR_ACTIVE(Mem.hdr[p]) => LogAlive(Mem.hdr, p)
           /\ \A fd : FD_VALID(fd) =>
                 /\ fd \in FDs /\ Mem.fds[fd] # NULL
                 /\ LogAlive(Mem.hdr, Mem.files[Mem.fds[fd]].page)
<1>1. Good(Mem, {}) /\ Mem.intact
  BY MemGood
<1>2. \A p \in Pages : HDR_ACTIVE(Mem.hdr[p]) => LogAlive(Mem.hdr, p)
  BY MemFields DEF LogsAlive, Active
<1>3. ASSUME NEW fd, FD_VALID(fd)
      PROVE  /\ fd \in FDs /\ Mem.fds[fd] # NULL
             /\ LogAlive(Mem.hdr, Mem.files[Mem.fds[fd]].page)
  <2>1. fd \in FDs /\ Mem.fds[fd] # NULL
    BY <1>3, MemFields DEF FD_VALID
  <2>2. Mem.files[Mem.fds[fd]].page \in Pages /\ Mem.hdr[Mem.files[Mem.fds[fd]].page].kind = "file"
    BY <2>1, FdFacts DEF Inv
  <2> QED BY <1>2, <2>1, <2>2 DEF HDR_ACTIVE
<1> QED BY <1>1, <1>2, <1>3

LEMMA Stepwise ==
    ASSUME intact => Inv, [Next]_vars, intact'
    PROVE  Inv'
<1>1. CASE UNCHANGED vars
  <2>1. hdr' = hdr /\ next_free' = next_free /\ Mem' = Mem /\ intact
    BY <1>1 DEF Mem, vars
  <2> QED BY <1>1, <2>1 DEF Inv, vars
<1>2. CASE Calls
  <2>0. /\ Good(Mem, {}) /\ Mem.intact
        /\ \A p \in Pages : HDR_ACTIVE(Mem.hdr[p]) => LogAlive(Mem.hdr, p)
        /\ \A fd : FD_VALID(fd) =>
              /\ fd \in FDs /\ Mem.fds[fd] # NULL
              /\ LogAlive(Mem.hdr, Mem.files[Mem.fds[fd]].page)
    BY <1>2, CallsFrom, AtCall
  <2>1. ASSUME NEW name \in Names, cfs_open(name) PROVE Inv'
    <3> PICK yes \in BOOLEAN : yes = TRUE
      OBVIOUS
    <3>1. Good(Open(Mem, name, yes), {})
      BY <2>0, GoodOpen
    <3> QED BY <1>2, <2>0, <2>1, <3>1, CallKeeps DEF cfs_open
  <2>2. ASSUME NEW name \in Names, cfs_remove(name) PROVE Inv'
    <3>1. Good(RemoveFound(find_file(Mem, name)), {})
      BY <2>0, GoodRemove
    <3> QED BY <1>2, <2>0, <2>2, <3>1, CallKeeps DEF cfs_remove
  <2>3. ASSUME NEW name \in Names, cfs_coffee_reserve(name) PROVE Inv'
    <3>1. Good(ReserveMissing(find_file(Mem, name), name), {})
      BY <2>0, GoodMissing
    <3> QED BY <1>2, <2>0, <2>3, <3>1, CallKeeps DEF cfs_coffee_reserve
  <2>4. ASSUME NEW fd \in FDs, cfs_close(fd) PROVE Inv'
    <3>1. FD_VALID(fd) /\ Mem.fds[fd] # NULL
      BY <2>0, <2>4 DEF cfs_close
    <3>2. Good(Close(Mem, fd), {})
      BY <2>0, <3>1, GoodClose
    <3> QED BY <1>2, <2>0, <2>4, <3>2, CallKeeps DEF cfs_close
  <2>5. ASSUME NEW fd \in FDs, NEW grow \in BOOLEAN, NEW log \in BOOLEAN, NEW full \in BOOLEAN,
               ~(grow /\ full), cfs_write(fd, grow, log, full)
        PROVE  Inv'
    <3>1. Mem.fds[fd] # NULL /\ LogAlive(Mem.hdr, Mem.files[Mem.fds[fd]].page)
      BY <2>0, <2>5 DEF cfs_write
    <3>2. Good(Write(Mem, fd, grow, log, full), {})
      BY <2>0, <2>5, <3>1, GoodWrite
    <3> QED BY <1>2, <2>0, <2>5, <3>2, CallKeeps DEF cfs_write
  <2>8. ASSUME NEW fd \in FDs, NEW grow \in BOOLEAN, NEW log \in BOOLEAN, cfs_write(fd, grow, log, FALSE)
        PROVE  Inv'
    BY <2>5, <2>8
  <2>9. ASSUME NEW fd \in FDs, cfs_write(fd, FALSE, TRUE, TRUE) PROVE Inv'
    BY <2>5, <2>9
  <2> QED BY <1>2, <2>1, <2>2, <2>3, <2>4, <2>8, <2>9 DEF Calls
<1>3. CASE cfs_format
  <2>1. Zeroed /\ hdr' = [p \in Pages |-> Page("free")]
    BY <1>3 DEF cfs_format
  <2>2. hdr' \in Images /\ \A p \in Pages : ~HDR_ACTIVE(hdr'[p])
    BY <2>1, PageType DEF Images
  <2>3. Sound(hdr') /\ Laid(hdr')
    BY <2>1, <2>2, EmptyLaid DEF Sound
  <2> QED BY <2>1, <2>2, <2>3, ZeroedKeeps
<1>4. CASE ResetBetweenCalls
  <2>1. Inv /\ Zeroed /\ hdr' = hdr
    BY <1>4 DEF ResetBetweenCalls
  <2>2. hdr \in Images /\ Sound(hdr) /\ (HeadersOnly(hdr) => Laid(hdr))
    BY <2>1, MemFields DEF Inv, Strong, Typed, Space
  <2> QED BY <2>1, <2>2, ZeroedKeeps
<1> QED BY <1>1, <1>2, <1>3, <1>4 DEF Next

\* The history variables.
LEMMA Histories ==
    ASSUME clean \in BOOLEAN, intact \in BOOLEAN, [Next]_vars
    PROVE  clean' \in BOOLEAN /\ intact' \in BOOLEAN
<1>1. CASE UNCHANGED vars
  BY <1>1 DEF vars
<1>2. CASE Calls
  BY <1>2, CallsFrom
<1>3. CASE cfs_format
  BY <1>3 DEF cfs_format
<1>4. CASE ResetBetweenCalls
  BY <1>4 DEF ResetBetweenCalls
<1> QED BY <1>1, <1>2, <1>3, <1>4 DEF Next

Always == clean \in BOOLEAN /\ intact \in BOOLEAN /\ (intact => Inv)

\* The inductive invariant: after every call, and after every reset, also one between
\* two writes of a call (a reservation with its garbage collection, a removal of a file
\* and its log, a merge), the flash, the cache and the descriptors agree, and no free
\* page lies before next_free; and unless the reset has left data where the walk looks
\* for a header, the walk finds every extent and every free page, and garbage
\* collection is suppressed only when there is nothing to erase.  All this as long as
\* the flash is intact.
THEOREM Invariance == Spec => []Always
<1>1. Init => Always
  BY Initially DEF Init, Always
<1>2. Always /\ [Next]_vars => Always'
  BY Stepwise, Histories DEF Always
<1> QED BY <1>1, <1>2, PTL DEF Spec

\* As long as the flash is intact, the state keeps its type: headers, slots of the
\* cache, references that stay in a byte, descriptors, next_free and gc_wait.
THEOREM TypeCorrect == Spec => []TypeOK
<1>1. Always => TypeOK
  <2> SUFFICES ASSUME Always, intact => Inv PROVE TypeOK
    BY DEF Always
  <2>1. clean \in BOOLEAN /\ intact \in BOOLEAN
    BY DEF Always
  <2>2. ASSUME intact PROVE Typed(Mem)
    BY <2>2 DEF Inv, Strong
  <2> QED BY <2>1, <2>2, MemFields DEF TypeOK, Typed, Images, HeaderT, FileT
<1> QED BY <1>1, Invariance, PTL

\* As long as no garbage collection has erased the tail of an obsolete extent whose
\* header stays, and resets have left what calls can go on from: extents in use lie
\* inside the flash and do not overlap, and their pages are their data, whatever
\* find_contiguous_pages found free, collect_garbage erased and merge_log moved, and
\* wherever a reset cut a call.
THEOREM Apart == Spec => []ExtentsApart
<1>1. Always => ExtentsApart
  <2> SUFFICES ASSUME Inv, NEW p \in Active
               PROVE  /\ ExtentOf(p) \subseteq Pages
                      /\ \A q \in ExtentOf(p) \ {p} : hdr[q].kind = "data"
                      /\ \A q \in Active \ {p} : ExtentOf(p) \cap ExtentOf(q) = {}
    BY DEF ExtentsApart, Always
  <2>1. hdr \in Images /\ Sound(hdr)
    BY MemFields DEF Inv, Strong, Typed
  <2>2. ASSUME NEW q \in Active
        PROVE  /\ q \in Pages /\ q \in Nat /\ HDR_ACTIVE(hdr[q]) /\ hdr[q].max_pages \in Nat
               /\ ExtentOf(q) \subseteq Pages
               /\ \A x \in ExtentOf(q) : x \in Nat /\ (x # q => x > q /\ hdr[x].kind = "data")
    <3>1. q \in Pages /\ q \in Nat /\ HDR_ACTIVE(hdr[q]) /\ hdr[q].max_pages \in Nat
      BY <2>1, HeaderFacts DEF Active
    <3>2. q + hdr[q].max_pages <= COFFEE_PAGE_COUNT
      BY <2>1, <3>1 DEF Sound
    <3>3. ExtentOf(q) \subseteq Pages
      BY <3>1, <3>2, Constants DEF ExtentOf
    <3>4. ASSUME NEW x \in ExtentOf(q) PROVE x \in Nat /\ (x # q => x > q /\ hdr[x].kind = "data")
      <4>1. x \in Nat /\ x \in Pages /\ x >= q /\ x < q + hdr[q].max_pages
        BY <3>1, <3>3, Constants, SMTT(30) DEF ExtentOf
      <4>2. x # q => q < x
        BY <3>1, <4>1
      <4> QED BY <2>1, <3>1, <4>1, <4>2 DEF Sound
    <3> QED BY <3>1, <3>3, <3>4
  <2>3. ASSUME NEW a \in Active, NEW b \in Active, a < b PROVE ExtentOf(a) \cap ExtentOf(b) = {}
    <3> SUFFICES ASSUME NEW x \in ExtentOf(a), x \in ExtentOf(b) PROVE FALSE
      OBVIOUS
    <3>1. b \in ExtentOf(a)
      BY <2>2, <2>3 DEF ExtentOf
    <3>2. hdr[b].kind = "data" /\ HDR_ACTIVE(hdr[b])
      BY <2>2, <2>3, <3>1
    <3> QED BY <3>2 DEF HDR_ACTIVE
  <2>4. ASSUME NEW q \in Active, q # p PROVE ExtentOf(p) \cap ExtentOf(q) = {}
    <3>1. p < q \/ q < p
      BY <2>2, <2>4
    <3> QED BY <2>3, <3>1
  <2> QED BY <2>2, <2>4
<1> QED BY <1>1, Invariance, PTL

\* As long as the flash is intact: what load_file, create_log, merge_log and
\* remove_by_page leave in coffee_files is what the headers on flash say, and no extent
\* is cached twice.
THEOREM Agreement == Spec => []CacheAgrees
<1>1. Always => CacheAgrees
  <2> SUFFICES ASSUME Inv, NEW s \in Slots, ~FILE_FREE(coffee_files[s])
               PROVE  LET file == coffee_files[s]
                      IN  /\ file.page \in Active
                          /\ file.max_pages = hdr[file.page].max_pages
                          /\ file.modified = HDR_MODIFIED(hdr[file.page])
                          /\ \A t \in Slots : coffee_files[t].page = file.page => s = t
    BY DEF CacheAgrees, Always
  <2>1. CachedFile(Mem, s)
    BY MemFields, SlotFacts DEF Inv
  <2> QED BY <2>1, MemFields DEF CachedFile, Active
<1> QED BY <1>1, Invariance, PTL

\* As long as the flash is intact: references count the descriptors of a file, also when
\* merge_log has moved them to its new extent or load_file has taken a slot, and a valid
\* descriptor has a file.
THEOREM Exact == Spec => []RefsExact
<1>1. Always => RefsExact
  <2> SUFFICES ASSUME Inv PROVE RefsExact
    BY DEF RefsExact, Always
  <2>1. \A s \in Slots : coffee_files[s].references = Cardinality({fd \in FDs : coffee_fd_set[fd] = s})
    BY MemFields DEF Inv, Strong, Counted, Refs
  <2>2. \A fd \in FDs : FD_VALID(fd) => ~FILE_FREE(coffee_files[coffee_fd_set[fd]])
    BY MemFields DEF Inv, Strong, Connected, FD_VALID
  <2> QED BY <2>1, <2>2 DEF RefsExact
<1> QED BY <1>1, Invariance, PTL

\* As long as the flash is intact, no space is kept from the search of a reservation: no
\* free page the walk comes to lies before next_free, where find_contiguous_pages starts,
\* however collect_garbage lowered and find_contiguous_pages raised it; and while gc_wait
\* suppresses garbage collection, a sector it would erase is erased already.
THEOREM NothingWasted == Spec => []SpaceFound
<1>1. Always => SpaceFound
  <2> SUFFICES ASSUME Inv PROVE SpaceFound
    BY DEF SpaceFound, Always
  <2>1. NothingHidden
    BY DEF Inv, Unhidden, NothingHidden
  <2>2. ASSUME gc_wait, WalkFinds PROVE Swept(hdr)
    BY <2>2, MemFields DEF Inv, Space, WalkFinds
  <2>3. GcWaitSound
    BY <2>2 DEF GcWaitSound, Swept
  <2> QED BY <2>1, <2>3 DEF SpaceFound
<1> QED BY <1>1, Invariance, PTL
-----------------------------------------------------------------------------
(* One copy of each name *)

\* OneCopy, and logs have no logs.
Single(i) ==
    /\ \A p, q \in Pages :
          HDR_ACTIVE(i[p]) /\ HDR_ACTIVE(i[q]) /\ i[p].kind = i[q].kind /\ i[p].name = i[q].name => p = q
    /\ \A p \in Pages : HDR_ACTIVE(i[p]) => i[p].whole /\ LogAlive(i, p)
    /\ \A p \in Pages : i[p].kind = "log" =>
          ~HDR_MODIFIED(i[p]) /\ \E q \in Pages : HDR_ACTIVE(i[q]) /\ i[q].log_page = p

\* The owner of a log is the file of its name.
LEMMA LogOwner ==
    ASSUME NEW i \in Images, Single(i), NEW p \in Pages, i[p].kind = "log"
    PROVE  \E q \in Pages : i[q].kind = "file" /\ i[q].log_page = p /\ i[q].name = i[p].name
<1>1. PICK q \in Pages : HDR_ACTIVE(i[q]) /\ i[q].log_page = p
  BY DEF Single
<1>2. HDR_MODIFIED(i[q])
  BY <1>1, Constants DEF HDR_MODIFIED
<1>3. i[q].kind = "file"
  BY <1>1, <1>2 DEF Single, HDR_ACTIVE
<1>4. i[p].name = i[q].name
  BY <1>1, <1>2 DEF Single, LogAlive
<1> QED BY <1>1, <1>3, <1>4

LEMMA LogThere ==
    ASSUME NEW i \in Images, Single(i), NEW p \in Pages, HDR_ACTIVE(i[p]), HDR_MODIFIED(i[p])
    PROVE  /\ i[p].log_page \in Pages /\ i[i[p].log_page].kind = "log"
           /\ i[i[p].log_page].name = i[p].name /\ HDR_ACTIVE(i[i[p].log_page]) /\ i[p].kind = "file"
<1>1. i[p].log_page \in Pages
  BY DEF HDR_MODIFIED, Images, HeaderT
<1>2. i[i[p].log_page].kind = "log" /\ i[i[p].log_page].name = i[p].name
  BY DEF Single, LogAlive
<1>3. i[p].kind = "file"
  BY DEF Single, HDR_ACTIVE
<1> QED BY <1>1, <1>2, <1>3 DEF HDR_ACTIVE

LEMMA SingleSame ==
    ASSUME NEW i \in Images, Single(i), NEW j, Same(i, j)
    PROVE  Single(j)
<1>1. \A p, q \in Pages :
          HDR_ACTIVE(j[p]) /\ HDR_ACTIVE(j[q]) /\ j[p].kind = j[q].kind /\ j[p].name = j[q].name => p = q
  BY DEF Single, Same
<1>2. ASSUME NEW p \in Pages, HDR_ACTIVE(j[p]) PROVE j[p].whole /\ LogAlive(j, p)
  <2>1. j[p] = i[p] /\ i[p].whole
    BY <1>2 DEF Single, Same
  <2>2. CASE HDR_MODIFIED(i[p])
    BY <1>2, <2>1, <2>2, LogThere DEF Same, LogAlive
  <2>3. CASE ~HDR_MODIFIED(i[p])
    BY <2>1, <2>3 DEF LogAlive
  <2> QED BY <2>1, <2>2, <2>3
<1>3. ASSUME NEW p \in Pages, j[p].kind = "log"
      PROVE  ~HDR_MODIFIED(j[p]) /\ \E q \in Pages : HDR_ACTIVE(j[q]) /\ j[q].log_page = p
  <2>1. j[p] = i[p] /\ i[p].kind = "log"
    BY <1>3 DEF Same, HDR_ACTIVE
  <2>2. PICK q \in Pages : HDR_ACTIVE(i[q]) /\ i[q].log_page = p
    BY <2>1 DEF Single
  <2> QED BY <2>1, <2>2 DEF Single, Same
<1> QED BY <1>1, <1>2, <1>3 DEF Single

\* A file with a new name.
LEMMA SingleAdded ==
    ASSUME NEW i \in Images, Single(i), NEW j, NEW at, NEW h, Added(i, j, at, h),
           h.kind = "file", h.whole, ~HDR_MODIFIED(h), \A p \in Pages : ~IsNamed(i[p], h.name)
    PROVE  Single(j)
<1>1. at \in Pages /\ HDR_ACTIVE(j[at]) /\ ~HDR_ACTIVE(i[at]) /\ j[at] = h
  BY DEF Added, HDR_ACTIVE
<1>2. \A p \in Pages \ {at} : HDR_ACTIVE(i[p]) \/ HDR_ACTIVE(j[p]) => j[p] = i[p]
  BY DEF Added
<1>3. ASSUME NEW p \in Pages, NEW q \in Pages, HDR_ACTIVE(j[p]), HDR_ACTIVE(j[q]),
             j[p].kind = j[q].kind, j[p].name = j[q].name
      PROVE  p = q
  <2>1. ASSUME NEW x \in Pages, x # at, HDR_ACTIVE(j[x]), j[x].kind = "file" PROVE j[x].name # h.name
    BY <1>2, <2>1 DEF IsNamed
  <2>2. CASE p # at /\ q # at
    BY <1>2, <1>3, <2>2 DEF Single
  <2> QED BY <1>1, <1>3, <2>1, <2>2
<1>4. ASSUME NEW p \in Pages, HDR_ACTIVE(j[p]) PROVE j[p].whole /\ LogAlive(j, p)
  <2>1. CASE p = at
    BY <1>1, <2>1 DEF LogAlive
  <2>2. CASE p # at
    <3>1. j[p] = i[p] /\ i[p].whole
      BY <1>2, <1>4, <2>2 DEF Single
    <3>2. CASE HDR_MODIFIED(i[p])
      <4>1. /\ i[p].log_page \in Pages /\ i[i[p].log_page].kind = "log"
            /\ i[i[p].log_page].name = i[p].name /\ HDR_ACTIVE(i[i[p].log_page])
        BY <1>4, <3>1, <3>2, LogThere
      <4>2. j[i[p].log_page] = i[i[p].log_page]
        BY <1>1, <1>2, <4>1
      <4> QED BY <3>1, <4>1, <4>2 DEF LogAlive
    <3>3. CASE ~HDR_MODIFIED(i[p])
      BY <3>1, <3>3 DEF LogAlive
    <3> QED BY <3>1, <3>2, <3>3
  <2> QED BY <2>1, <2>2
<1>5. ASSUME NEW p \in Pages, j[p].kind = "log"
      PROVE  ~HDR_MODIFIED(j[p]) /\ \E q \in Pages : HDR_ACTIVE(j[q]) /\ j[q].log_page = p
  <2>1. p # at /\ j[p] = i[p] /\ i[p].kind = "log"
    BY <1>1, <1>2, <1>5 DEF HDR_ACTIVE
  <2>2. PICK q \in Pages : HDR_ACTIVE(i[q]) /\ i[q].log_page = p
    BY <2>1 DEF Single
  <2>3. q # at
    BY <1>1, <2>2
  <2> QED BY <1>2, <2>1, <2>2, <2>3 DEF Single
<1> QED BY <1>3, <1>4, <1>5 DEF Single

LEMMA SingleGrown ==
    ASSUME NEW i \in Images, Single(i), NEW j, NEW name, Grown(i, j, name)
    PROVE  Single(j)
<1>1. CASE Same(i, j)
  BY <1>1, SingleSame
<1>2. CASE ~Same(i, j)
  <2> DEFINE h == NewFile(name, DynPages)
  <2>1. h.kind = "file" /\ h.whole /\ ~HDR_MODIFIED(h) /\ h.name = name
    BY DEF NewFile, Page, HDR_MODIFIED
  <2>2. PICK at \in Pages : Added(i, j, at, h)
    BY <1>2 DEF Grown
  <2>3. \A p \in Pages : ~IsNamed(i[p], name)
    BY <1>2 DEF Grown
  <2> HIDE DEF h
  <2> QED BY <2>1, <2>2, <2>3, SingleAdded
<1> QED BY <1>1, <1>2

\* A file without a log gets one.
LEMMA SingleLogged ==
    ASSUME NEW i \in Images, Single(i), NEW j, NEW page \in Pages, i[page].kind = "file",
           ~HDR_MODIFIED(i[page]), Logged(i, j, page)
    PROVE  Single(j)
<1>1. CASE Same(i, j)
  BY <1>1, SingleSame
<1>2. ASSUME NEW at \in Pages, Linked(i, j, page, at) PROVE Single(j)
  <2>1. /\ HDR_ACTIVE(i[page]) /\ ~HDR_ACTIVE(i[at]) /\ at # page /\ i[page] \in HeaderT
    BY <1>2 DEF Linked, HDR_ACTIVE, Images
  <2>2. /\ j[at].kind = "log" /\ j[at].name = i[page].name /\ j[at].whole
        /\ ~HDR_MODIFIED(j[at]) /\ HDR_ACTIVE(j[at])
    BY <1>2 DEF Linked, NewLog, Page, HDR_MODIFIED, HDR_ACTIVE
  <2>3. /\ j[page].kind = "file" /\ j[page].name = i[page].name /\ j[page].whole = i[page].whole
        /\ j[page].log_page = at /\ HDR_ACTIVE(j[page])
    <3>1. j[page] = [i[page] EXCEPT !.log_page = at]
      BY <1>2 DEF Linked
    <3> QED BY <2>1, <3>1 DEF HeaderT, HDR_ACTIVE
  <2>4. \A p \in Pages : p # at /\ p # page => (HDR_ACTIVE(i[p]) \/ HDR_ACTIVE(j[p]) => j[p] = i[p])
    BY <1>2 DEF Linked
  <2>5. ASSUME NEW p \in Pages, i[p].kind = "log" PROVE i[p].name # i[page].name
    <3>1. PICK q \in Pages : i[q].kind = "file" /\ i[q].log_page = p /\ i[q].name = i[p].name
      BY <2>5, LogOwner
    <3>2. HDR_MODIFIED(i[q]) /\ HDR_ACTIVE(i[q])
      BY <3>1, Constants DEF HDR_MODIFIED, HDR_ACTIVE
    <3>3. q # page
      BY <3>2
    <3> QED BY <2>1, <3>1, <3>2, <3>3 DEF Single
  <2>6. ASSUME NEW p \in Pages, NEW q \in Pages, HDR_ACTIVE(j[p]), HDR_ACTIVE(j[q]),
               j[p].kind = j[q].kind, j[p].name = j[q].name
        PROVE  p = q
    <3>1. ASSUME NEW x \in Pages, x # at, HDR_ACTIVE(j[x])
          PROVE  HDR_ACTIVE(i[x]) /\ j[x].kind = i[x].kind /\ j[x].name = i[x].name
      BY <2>1, <2>3, <2>4, <3>1
    <3>2. ASSUME NEW x \in Pages, x # at, HDR_ACTIVE(j[x]), j[x].kind = "log" PROVE j[x].name # j[at].name
      BY <2>2, <2>5, <3>1, <3>2
    <3>3. CASE p # at /\ q # at
      BY <2>6, <3>1, <3>3 DEF Single
    <3> QED BY <2>2, <2>6, <3>2, <3>3
  <2>7. ASSUME NEW p \in Pages, HDR_ACTIVE(j[p]) PROVE j[p].whole /\ LogAlive(j, p)
    <3>1. CASE p = at
      BY <2>2, <3>1 DEF LogAlive
    <3>2. CASE p = page
      BY <2>1, <2>2, <2>3, <3>2 DEF LogAlive, Single
    <3>3. CASE p # at /\ p # page
      <4>1. j[p] = i[p] /\ i[p].whole /\ HDR_ACTIVE(i[p])
        BY <2>4, <2>7, <3>3 DEF Single
      <4>2. CASE HDR_MODIFIED(i[p])
        <5>1. /\ i[p].log_page \in Pages /\ i[i[p].log_page].kind = "log"
              /\ i[i[p].log_page].name = i[p].name /\ HDR_ACTIVE(i[i[p].log_page])
          BY <4>1, <4>2, LogThere
        <5>2. i[p].log_page # page /\ i[p].log_page # at
          BY <2>1, <5>1
        <5>3. j[i[p].log_page] = i[i[p].log_page]
          BY <2>4, <5>1, <5>2
        <5> QED BY <4>1, <5>1, <5>3 DEF LogAlive
      <4>3. CASE ~HDR_MODIFIED(i[p])
        BY <4>1, <4>3 DEF LogAlive
      <4> QED BY <4>1, <4>2, <4>3
    <3> QED BY <3>1, <3>2, <3>3
  <2>8. ASSUME NEW p \in Pages, j[p].kind = "log"
        PROVE  ~HDR_MODIFIED(j[p]) /\ \E q \in Pages : HDR_ACTIVE(j[q]) /\ j[q].log_page = p
    <3>1. CASE p = at
      BY <2>2, <2>3, <3>1
    <3>2. CASE p # at
      <4>1. p # page /\ HDR_ACTIVE(j[p])
        BY <2>3, <2>8 DEF HDR_ACTIVE
      <4>2. j[p] = i[p] /\ i[p].kind = "log"
        BY <2>4, <2>8, <3>2, <4>1
      <4>3. PICK q \in Pages : HDR_ACTIVE(i[q]) /\ i[q].log_page = p
        BY <4>2 DEF Single
      <4>4. q # page /\ q # at
        BY <2>1, <4>3, Constants DEF HDR_MODIFIED
      <4> QED BY <2>4, <4>2, <4>3, <4>4 DEF Single
    <3> QED BY <3>1, <3>2
  <2> QED BY <2>6, <2>7, <2>8 DEF Single
<1> QED BY <1>1, <1>2 DEF Logged

\* A file and its log go.
Gone(i, j, page) ==
    \A p \in Pages : IF p \in WithLog(i, page) THEN ~HDR_ACTIVE(j[p])
                     ELSE HDR_ACTIVE(i[p]) \/ HDR_ACTIVE(j[p]) => j[p] = i[p]

LEMMA SingleGone ==
    ASSUME NEW i \in Images, Single(i), NEW j, NEW page \in Pages, i[page].kind = "file", Gone(i, j, page)
    PROVE  Single(j) /\ \A p \in Pages : ~IsNamed(j[p], i[page].name)
<1> DEFINE W == WithLog(i, page)
<1>1. page \in W /\ HDR_ACTIVE(i[page])
  BY DEF WithLog, HDR_ACTIVE
<1>2. \A p \in Pages : HDR_ACTIVE(j[p]) => p \notin W /\ j[p] = i[p]
  BY DEF Gone
<1>3. \A p \in Pages : p \notin W /\ HDR_ACTIVE(i[p]) => j[p] = i[p]
  BY DEF Gone
<1>4. ASSUME NEW p \in W, p \in Pages, p # page
      PROVE  HDR_MODIFIED(i[page]) /\ i[page].log_page = p /\ i[p].kind = "log" /\ i[p].name = i[page].name
  <2>1. HDR_MODIFIED(i[page]) /\ i[page].log_page = p
    BY <1>4 DEF WithLog
  <2> QED BY <1>1, <2>1, LogThere
<1> HIDE DEF W
<1>5. \A p, q \in Pages :
          HDR_ACTIVE(j[p]) /\ HDR_ACTIVE(j[q]) /\ j[p].kind = j[q].kind /\ j[p].name = j[q].name => p = q
  BY <1>2 DEF Single
<1>6. \A p \in Pages : ~IsNamed(j[p], i[page].name)
  <2> SUFFICES ASSUME NEW p \in Pages, IsNamed(j[p], i[page].name) PROVE FALSE
    OBVIOUS
  <2>1. HDR_ACTIVE(j[p]) /\ j[p].kind = "file" /\ j[p].name = i[page].name
    BY NamedFile
  <2>2. j[p] = i[p] /\ p # page
    BY <1>1, <1>2, <2>1
  <2> QED BY <1>1, <2>1, <2>2 DEF Single
<1>7. ASSUME NEW p \in Pages, HDR_ACTIVE(j[p]) PROVE j[p].whole /\ LogAlive(j, p)
  <2>1. j[p] = i[p] /\ i[p].whole /\ HDR_ACTIVE(i[p]) /\ p # page
    BY <1>1, <1>2, <1>7 DEF Single
  <2>2. CASE HDR_MODIFIED(i[p])
    <3> DEFINE at == i[p].log_page
    <3>1. /\ at \in Pages /\ i[at].kind = "log" /\ i[at].name = i[p].name /\ HDR_ACTIVE(i[at])
          /\ i[p].kind = "file"
      BY <2>1, <2>2, LogThere
    <3> HIDE DEF at
    <3>2. at \notin W
      <4> SUFFICES ASSUME at \in W PROVE FALSE
        OBVIOUS
      <4>1. at # page
        BY <3>1
      <4>2. i[at].name = i[page].name
        BY <1>4, <3>1, <4>1
      <4> QED BY <1>1, <2>1, <3>1, <4>2 DEF Single
    <3>3. j[at] = i[at]
      BY <1>3, <3>1, <3>2
    <3> QED BY <2>1, <3>1, <3>3 DEF LogAlive, at
  <2>3. CASE ~HDR_MODIFIED(i[p])
    BY <2>1, <2>3 DEF LogAlive
  <2> QED BY <2>1, <2>2, <2>3
<1>8. ASSUME NEW p \in Pages, j[p].kind = "log"
      PROVE  ~HDR_MODIFIED(j[p]) /\ \E q \in Pages : HDR_ACTIVE(j[q]) /\ j[q].log_page = p
  <2>1. j[p] = i[p] /\ i[p].kind = "log" /\ p \notin W
    BY <1>2, <1>8 DEF HDR_ACTIVE
  <2>2. PICK q \in Pages : i[q].kind = "file" /\ i[q].log_page = p
    BY <2>1, LogOwner
  <2>3. HDR_ACTIVE(i[q]) /\ HDR_MODIFIED(i[q])
    BY <2>2, Constants DEF HDR_ACTIVE, HDR_MODIFIED
  <2>4. q # page
    BY <2>1, <2>2, <2>3 DEF W, WithLog
  <2>5. q \notin W
    BY <1>4, <2>2, <2>4
  <2> QED BY <1>3, <2>1, <2>2, <2>3, <2>5 DEF Single
<1> QED BY <1>5, <1>6, <1>7, <1>8 DEF Single

\* The names of the files.
Directory(i) == {i[p].name : p \in {q \in Pages : i[q].kind = "file"}}

LEMMA DirectorySame ==
    ASSUME NEW i, NEW j, Same(i, j)
    PROVE  Directory(j) = Directory(i)
<1>1. \A p \in Pages : i[p].kind = "file" \/ j[p].kind = "file" => j[p] = i[p]
  BY DEF Same, HDR_ACTIVE
<1> QED BY <1>1 DEF Directory

LEMMA DirectoryAdded ==
    ASSUME NEW i, NEW j, NEW at, NEW h, Added(i, j, at, h), h.kind = "file"
    PROVE  Directory(j) = Directory(i) \union {h.name}
<1>1. at \in Pages /\ j[at] = h /\ i[at].kind # "file"
  BY DEF Added, HDR_ACTIVE
<1>2. \A p \in Pages : p # at /\ (i[p].kind = "file" \/ j[p].kind = "file") => j[p] = i[p]
  BY DEF Added, HDR_ACTIVE
<1>3. Directory(j) \subseteq Directory(i) \union {h.name}
  BY <1>1, <1>2 DEF Directory
<1>4. Directory(i) \subseteq Directory(j)
  BY <1>1, <1>2 DEF Directory
<1>5. h.name \in Directory(j)
  BY <1>1 DEF Directory
<1> QED BY <1>3, <1>4, <1>5

LEMMA DirectoryGrown ==
    ASSUME NEW i, NEW j, NEW name, Grown(i, j, name)
    PROVE  Directory(j) \in {Directory(i), Directory(i) \union {name}}
<1>1. CASE Same(i, j)
  BY <1>1, DirectorySame
<1>2. CASE ~Same(i, j)
  <2> DEFINE h == NewFile(name, DynPages)
  <2>1. h.kind = "file" /\ h.name = name
    BY DEF NewFile, Page
  <2>2. PICK at \in Pages : Added(i, j, at, h)
    BY <1>2 DEF Grown
  <2> HIDE DEF h
  <2> QED BY <2>1, <2>2, DirectoryAdded
<1> QED BY <1>1, <1>2

LEMMA DirectoryLogged ==
    ASSUME NEW i \in Images, NEW j, NEW page \in Pages, i[page].kind = "file", Logged(i, j, page)
    PROVE  Directory(j) = Directory(i)
<1>1. CASE Same(i, j)
  BY <1>1, DirectorySame
<1>2. ASSUME NEW at \in Pages, Linked(i, j, page, at) PROVE Directory(j) = Directory(i)
  <2>1. i[at].kind # "file" /\ j[at].kind # "file"
    BY <1>2 DEF Linked, HDR_ACTIVE, NewLog, Page
  <2>2. j[page].kind = "file" /\ j[page].name = i[page].name
    <3>1. i[page] \in HeaderT
      BY DEF Images
    <3> QED BY <1>2, <3>1 DEF Linked, HeaderT
  <2>3. \A p \in Pages : p # at /\ p # page /\ (i[p].kind = "file" \/ j[p].kind = "file") => j[p] = i[p]
    BY <1>2 DEF Linked, HDR_ACTIVE
  <2>4. \A p \in Pages : /\ i[p].kind = "file" <=> j[p].kind = "file"
                         /\ i[p].kind = "file" => j[p].name = i[p].name
    BY <2>1, <2>2, <2>3
  <2> QED BY <2>4 DEF Directory
<1> QED BY <1>1, <1>2 DEF Logged

LEMMA DirectoryGone ==
    ASSUME NEW i \in Images, Single(i), NEW j, NEW page \in Pages, i[page].kind = "file", Gone(i, j, page)
    PROVE  Directory(j) = Directory(i) \ {i[page].name}
<1>1. \A p \in Pages : j[p].kind = "file" => j[p].name # i[page].name
  BY SingleGone DEF IsNamed
<1>2. \A p \in Pages : i[p].kind = "file" /\ p # page => p \notin WithLog(i, page)
  BY LogThere DEF WithLog, HDR_ACTIVE
<1>3. \A p \in Pages : j[p].kind = "file" => j[p] = i[p]
  BY DEF Gone, HDR_ACTIVE
<1>4. \A p \in Pages : i[p].kind = "file" /\ i[p].name # i[page].name => j[p] = i[p]
  BY <1>2 DEF Gone, HDR_ACTIVE
<1>5. Directory(j) \subseteq Directory(i) \ {i[page].name}
  BY <1>1, <1>3 DEF Directory
<1>6. Directory(i) \ {i[page].name} \subseteq Directory(j)
  BY <1>4 DEF Directory
<1> QED BY <1>5, <1>6

\* A file moves to a new extent: what held it goes, and what holds it now is there.
LEMMA SingleMoved ==
    ASSUME NEW i \in Images, Single(i), NEW j \in Images, NEW page \in Pages, i[page].kind = "file",
           NEW at \in Pages, NEW from \in Pages, Moved(i, j, page, at, from)
    PROVE  Single(j) /\ Directory(j) = Directory(i)
<1> DEFINE mid == [j EXCEPT ![at] = i[at]]
<1>1. mid \in Images /\ mid[at] = i[at] /\ \A p \in Pages \ {at} : mid[p] = j[p]
  BY DEF Images
<1> HIDE DEF mid
<1>2. ~HDR_ACTIVE(i[at]) /\ HDR_ACTIVE(i[page])
  BY DEF Moved, HDR_ACTIVE
<1>3. at \notin WithLog(i, page)
  <2>1. HDR_MODIFIED(i[page]) => HDR_ACTIVE(i[i[page].log_page])
    BY <1>2, LogThere
  <2> QED BY <1>2, <2>1 DEF WithLog
<1>4. Gone(i, mid, page)
  <2>1. ASSUME NEW p \in Pages, p # at
        PROVE  IF p \in WithLog(i, page) THEN ~HDR_ACTIVE(mid[p])
               ELSE HDR_ACTIVE(i[p]) \/ HDR_ACTIVE(mid[p]) => mid[p] = i[p]
    BY <1>1, <2>1 DEF Moved
  <2> QED BY <1>1, <1>3, <2>1 DEF Gone
<1>5. Single(mid) /\ \A p \in Pages : ~IsNamed(mid[p], i[page].name)
  BY <1>4, SingleGone
<1>6. PICK pages \in Nat : j[at] = [NewFile(i[page].name, pages) EXCEPT !.whole = i[from].whole]
  BY DEF Moved
<1>7. i[from].whole
  <2>1. HDR_ACTIVE(i[from])
    BY NamedFile DEF Moved
  <2> QED BY <2>1 DEF Single
<1>8. /\ j[at].kind = "file" /\ j[at].whole /\ ~HDR_MODIFIED(j[at]) /\ j[at].name = i[page].name
      /\ HDR_ACTIVE(j[at])
  BY <1>6, <1>7 DEF NewFile, Page, HDR_MODIFIED, HDR_ACTIVE
<1>9. Added(mid, j, at, j[at])
  BY <1>1, <1>2 DEF Added
<1>10. Single(j)
  BY <1>5, <1>8, <1>9, SingleAdded, <1>1
<1>11. Directory(j) = (Directory(i) \ {i[page].name}) \union {i[page].name}
  BY <1>4, <1>8, <1>9, DirectoryAdded, DirectoryGone
<1>12. i[page].name \in Directory(i)
  BY DEF Directory
<1> QED BY <1>10, <1>11, <1>12

\* A file with a descriptor on it can be merged: one slot holds it.
LEMMA SingleReady ==
    ASSUME NEW m, Strong(m, {}), Single(m.hdr), SpareSlot(m), NEW fd \in FDs, m.fds[fd] # NULL
    PROVE  Ready(m, m.files[m.fds[fd]].page)
<1> DEFINE slot == m.fds[fd]
           page == m.files[slot].page
           name == m.hdr[page].name
<1>1. slot \in Slots /\ ~FILE_FREE(m.files[slot]) /\ page \in Pages /\ m.hdr[page].kind = "file"
      /\ CachedFile(m, slot)
  BY FdFacts
<1> HIDE DEF slot, page
<1>2. Holds(m, slot, name)
  BY <1>1 DEF Holds, IsNamed, page
<1>3. ASSUME NEW s \in Slots, Holds(m, s, name) PROVE s = slot
  <2>1. CachedFile(m, s) /\ IsNamed(m.hdr[m.files[s].page], name)
    BY <1>3, SlotFacts DEF Holds
  <2>2. m.files[s].page \in Pages /\ HDR_ACTIVE(m.hdr[m.files[s].page])
        /\ m.hdr[m.files[s].page].kind = "file" /\ m.hdr[m.files[s].page].name = name
    BY <2>1, NamedFile DEF CachedFile
  <2>3. HDR_ACTIVE(m.hdr[page])
    BY <1>1 DEF HDR_ACTIVE
  <2>4. m.files[s].page = page
    BY <1>1, <2>2, <2>3 DEF Single
  <2> QED BY <1>1, <2>1, <2>4 DEF CachedFile, page
<1>4. Busy(m, name)
  BY <1>2, <1>3 DEF Busy, slot
<1> QED BY <1>1, <1>4, Zenon DEF Ready, page, slot

\* What is known of a state at which only one copy of each file is there.
One(m) == Good(m, {}) /\ (m.intact => Single(m.hdr))

\* What a call on an open file leaves as it is.
Serves(m, n) == Keeping(m, n) /\ Directory(n.hdr) = Directory(m.hdr)

LEMMA ServesTwice == ASSUME NEW m, NEW n, NEW k, Serves(m, n), Serves(n, k) PROVE Serves(m, k)
BY KeepingTwice DEF Serves

LEMMA ServesAnswer ==
    ASSUME NEW m, NEW gone, Good(m, gone), NEW r
    PROVE  Serves(m, Answer(m, r))
BY GoodAnswer DEF Serves, Keeping, FName

LEMMA OneMerge ==
    ASSUME NEW m, One(m), m.intact, SpareSlot(m), NEW fd \in FDs, m.fds[fd] # NULL, NEW extend
    PROVE  LET n == merge_log(m, m.files[m.fds[fd]].page, extend)
           IN  /\ One(n)
               /\ n.intact => Serves(m, n) /\ (n.ret = FAILURE \/ SpareSlot(n))
<1> DEFINE page == m.files[m.fds[fd]].page
           n == merge_log(m, page, extend)
<1>0. Strong(m, {}) /\ Good(m, {}) /\ Single(m.hdr) /\ m.hdr \in Images
  BY DEF One, Good, Strong, Typed
<1>1. page \in Pages /\ m.hdr[page].kind = "file" /\ Ready(m, page)
  BY <1>0, FdFacts, SingleReady
<1> HIDE DEF page
<1>2. LogAlive(m.hdr, page)
  BY <1>0, <1>1 DEF Single, HDR_ACTIVE
<1>3. /\ Good(n, {}) /\ (n.intact => Keeping(m, n))
      /\ n.intact => Merged(m, n, page)
  BY <1>0, <1>1, <1>2, GoodMerge
<1> HIDE DEF n
<1>4. n.intact => n.hdr \in Images
  BY <1>3 DEF Good, Strong, Typed
<1>5. ASSUME n.intact PROVE Single(n.hdr) /\ Directory(n.hdr) = Directory(m.hdr)
  <2>1. CASE Same(m.hdr, n.hdr)
    BY <1>0, <2>1, SingleSame, DirectorySame
  <2>2. ASSUME NEW at \in Pages, NEW from \in Pages, Moved(m.hdr, n.hdr, page, at, from)
        PROVE  Single(n.hdr) /\ Directory(n.hdr) = Directory(m.hdr)
    BY <1>0, <1>1, <1>4, <1>5, <2>2, SingleMoved
  <2> QED BY <1>3, <1>5, <2>1, <2>2 DEF Merged
<1>6. n.intact => Serves(m, n) /\ (n.ret = FAILURE \/ SpareSlot(n))
  BY <1>3, <1>5 DEF Merged, Serves
<1> QED BY <1>3, <1>5, <1>6 DEF One, n, page

LEMMA OneLogPage ==
    ASSUME NEW m, One(m), m.intact, SpareSlot(m), NEW fd \in FDs, m.fds[fd] # NULL, NEW full \in BOOLEAN
    PROVE  LET n == write_log_page(m, m.fds[fd], full)
           IN  /\ One(n) /\ (n.intact => Serves(m, n))
               /\ n.intact /\ n.ret = 0 => SpareSlot(n)
<1> DEFINE slot == m.fds[fd]
           page == m.files[slot].page
           n == write_log_page(m, slot, full)
<1>0. Strong(m, {}) /\ Good(m, {}) /\ Single(m.hdr) /\ m.hdr \in Images
  BY DEF One, Good, Strong, Typed
<1>1. page \in Pages /\ m.hdr[page].kind = "file"
  BY <1>0, FdFacts
<1>2. CASE ~HDR_MODIFIED(m.hdr[page])
  <2> DEFINE k == create_log(m, slot)
  <2>1. n = OneRecord(k)
    BY <1>2 DEF write_log_page
  <2>2. Good(k, {}) /\ (k.intact => Logged(m.hdr, k.hdr, page) /\ Keeping(m, k))
    BY <1>0, GoodLog
  <2> HIDE DEF k, n, page
  <2>3. k.intact => Single(k.hdr) /\ Serves(m, k)
    BY <1>0, <1>1, <1>2, <2>2, SingleLogged, DirectoryLogged DEF Serves
  <2>4. Good(n, {}) /\ n.ret # 0
    BY <2>1, <2>2, GoodOneRecord
  <2>5. n.hdr = k.hdr /\ n.intact = k.intact
    BY <2>1, <2>2, GoodAnswer DEF OneRecord
  <2>6. n.intact => Serves(m, n)
    BY <2>1, <2>2, <2>3, <2>5, ServesAnswer, ServesTwice DEF OneRecord
  <2> QED BY <2>3, <2>4, <2>5, <2>6 DEF One, n
<1>3. CASE HDR_MODIFIED(m.hdr[page]) /\ full
  <2>1. n = merge_log(m, page, 0)
    BY <1>3 DEF write_log_page
  <2>2. One(n) /\ (n.intact => Serves(m, n) /\ (n.ret = FAILURE \/ SpareSlot(n)))
    <3> HIDE DEF n
    <3> QED BY <2>1, OneMerge
  <2> HIDE DEF n
  <2>3. n.ret = 0 => n.ret # FAILURE
    BY Constants
  <2> QED BY <2>2, <2>3 DEF n
<1>4. CASE HDR_MODIFIED(m.hdr[page]) /\ ~full
  <2>1. n = Answer(m, 1)
    BY <1>4 DEF write_log_page
  <2> HIDE DEF n
  <2>2. Good(n, {}) /\ n.ret = 1 /\ n.hdr = m.hdr /\ Serves(m, n)
    BY <1>0, <2>1, GoodAnswer, ServesAnswer
  <2> QED BY <1>0, <2>2 DEF n, One
<1> QED BY <1>2, <1>3, <1>4

LEMMA OneData ==
    ASSUME NEW m, One(m), m.intact, SpareSlot(m), NEW fd \in FDs, m.fds[fd] # NULL,
           NEW log, NEW full \in BOOLEAN
    PROVE  LET n == WriteData(m, fd, log, full)
           IN  One(n) /\ (n.intact => Serves(m, n))
<1> DEFINE k == write_log_page(m, m.fds[fd], full)
           j == write_log_page(k, k.fds[fd], FALSE)
<1>1. One(k) /\ (k.intact => Serves(m, k)) /\ (k.intact /\ k.ret = 0 => SpareSlot(k))
  BY OneLogPage
<1>2. \/ WriteData(m, fd, log, full) = m
      \/ WriteData(m, fd, log, full) = Answer(m, 1)
      \/ WriteData(m, fd, log, full) = k
      \/ k.ret = 0 /\ WriteData(m, fd, log, full) = j
  <2>1. CASE k.ret = 0
    BY <2>1 DEF WriteData
  <2>2. CASE k.ret # 0
    BY <2>2 DEF WriteData
  <2> QED BY <2>1, <2>2
<1> HIDE DEF k
<1>3. k.ret = 0 => One(j) /\ (j.intact => Serves(m, j))
  <2>1. CASE ~k.intact
    <3>1. Later(k, j) /\ Good(k, {})
      BY <1>1, LaterLogPage DEF Good, One
    <3> HIDE DEF j
    <3> QED BY <2>1, <3>1, GoodOff DEF One
  <2>2. CASE k.intact
    <3> SUFFICES ASSUME k.ret = 0 PROVE One(j) /\ (j.intact => Serves(m, j))
      OBVIOUS
    <3> PICK no \in BOOLEAN : no = FALSE
      OBVIOUS
    <3>1. j = write_log_page(k, k.fds[fd], no)
      OBVIOUS
    <3> HIDE DEF j
    <3>2. k.fds[fd] # NULL
      BY <1>1, <2>2 DEF Serves, Keeping
    <3> QED BY <1>1, <2>2, <3>1, <3>2, OneLogPage, ServesTwice
  <2>3. k.intact \in BOOLEAN
    BY <1>1 DEF One, Good, Rec
  <2> QED BY <2>1, <2>2, <2>3
<1>4. One(Answer(m, 1)) /\ Serves(m, Answer(m, 1))
  BY GoodAnswer, ServesAnswer DEF One
<1>5. Serves(m, m)
  BY DEF Serves, Keeping
<1> QED BY <1>1, <1>2, <1>3, <1>4, <1>5

LEMMA OneWrite ==
    ASSUME NEW m, One(m), m.intact, SpareSlot(m), NEW fd \in FDs, m.fds[fd] # NULL,
           NEW grow \in BOOLEAN, NEW log \in BOOLEAN, NEW full \in BOOLEAN
    PROVE  LET n == Write(m, fd, grow, log, full)
           IN  One(n) /\ (n.intact => Serves(m, n))
<1> DEFINE k == IF grow THEN merge_log(m, m.files[m.fds[fd]].page, 1) ELSE Answer(m, 0)
           n == Write(m, fd, grow, log, full)
<1>1. n = WriteData(k, fd, log, full)
  BY WriteIs
<1> HIDE DEF n
<1>2. One(k) /\ (k.intact => Serves(m, k) /\ (k.ret = FAILURE \/ SpareSlot(k)))
  <2>1. CASE grow
    BY <2>1, OneMerge
  <2>2. CASE ~grow
    <3>1. k = Answer(m, 0)
      BY <2>2
    <3> HIDE DEF k
    <3>2. Good(k, {}) /\ k.hdr = m.hdr /\ k.files = m.files /\ k.fds = m.fds /\ k.intact = m.intact
      BY <3>1, GoodAnswer, ZenonT(40) DEF One
    <3>3. SpareSlot(k) /\ Serves(m, k)
      BY <3>1, <3>2, ServesAnswer DEF SpareSlot, One
    <3> QED BY <3>2, <3>3 DEF One
  <2> QED BY <2>1, <2>2
<1> HIDE DEF k
<1>3. CASE ~k.intact
  <2>1. Later(k, n) /\ Good(k, {})
    BY <1>1, <1>2, LaterData DEF Good, One
  <2> QED BY <1>3, <2>1, GoodOff DEF One, n
<1>4. CASE k.intact /\ k.ret = FAILURE
  <2>1. n = k
    BY <1>1, <1>4 DEF WriteData
  <2> QED BY <1>2, <2>1 DEF n
<1>5. CASE k.intact /\ k.ret # FAILURE
  <2>1. k.fds[fd] # NULL
    BY <1>2, <1>5 DEF Serves, Keeping
  <2>2. One(n) /\ (n.intact => Serves(k, n))
    BY <1>1, <1>2, <1>5, <2>1, OneData
  <2> QED BY <1>2, <1>5, <2>2, ServesTwice DEF n
<1>6. k.intact \in BOOLEAN
  BY <1>2 DEF One, Good, Rec
<1> QED BY <1>3, <1>4, <1>5, <1>6

LEMMA OneRemove ==
    ASSUME NEW m, One(m), m.intact, NEW name
    PROVE  One(RemoveFound(find_file(m, name)))
<1> DEFINE f == find_file(m, name)
           n == RemoveFound(f)
<1>0. Good(m, {}) /\ Single(m.hdr) /\ m.hdr \in Images
  BY DEF One, Good, Strong, Typed
<1>1. /\ Good(f, {}) /\ f.intact /\ f.hdr = m.hdr
      /\ f.ret = NULL \/ (/\ f.ret \in Slots /\ f.files[f.ret].page \in Pages
                          /\ IsNamed(f.hdr[f.files[f.ret].page], name))
  BY <1>0, GoodFind
<1> HIDE DEF f
<1>2. CASE f.ret = NULL
  <2>1. n = Answer(f, FAILURE)
    BY <1>2 DEF RemoveFound
  <2> HIDE DEF n
  <2>2. Good(n, {}) /\ n.hdr = f.hdr
    BY <1>1, <2>1, GoodAnswer
  <2> QED BY <1>0, <1>1, <2>2 DEF One, f, n
<1>3. CASE f.ret # NULL
  <2> PICK page : page = f.files[f.ret].page
    OBVIOUS
  <2> PICK yes \in BOOLEAN : yes = TRUE
    OBVIOUS
  <2> PICK gone \in SUBSET Holding(f, page) : gone = {}
    OBVIOUS
  <2>1. n = remove_by_page(f, page, TRUE, yes)
    BY <1>3 DEF RemoveFound
  <2> HIDE DEF n
  <2>2. page \in Pages /\ IsNamed(f.hdr[page], name)
    BY <1>1, <1>3
  <2>3. f.hdr[page].kind = "file" /\ LogAlive(f.hdr, page)
    BY <1>0, <1>1, <2>2, NamedFile DEF Single
  <2>4. Good(n, {}) /\ Removed(f, n, page, yes)
    BY <1>1, <2>1, <2>2, <2>3, GoodRemoved
  <2>5. Gone(m.hdr, n.hdr, page)
    BY <1>1, <2>4 DEF Removed, Gone
  <2>6. Single(n.hdr)
    BY <1>0, <1>1, <2>2, <2>3, <2>5, SingleGone
  <2> QED BY <2>4, <2>6 DEF One, n, f
<1> QED BY <1>2, <1>3

LEMMA OneMissing ==
    ASSUME NEW m, One(m), m.intact, SpareSlot(m), NEW name \in Names
    PROVE  One(ReserveMissing(find_file(m, name), name))
<1> DEFINE f == find_file(m, name)
           h == NewFile(name, DynPages)
           r == reserve(f, h)
           n == ReserveMissing(f, name)
<1>0. Good(m, {}) /\ Single(m.hdr) /\ m.hdr \in Images
  BY DEF One, Good, Strong, Typed
<1>1. /\ Good(f, {}) /\ f.intact /\ f.hdr = m.hdr
      /\ f.ret = NULL => SpareSlot(f) /\ \A p \in Pages : ~IsNamed(m.hdr[p], name)
  BY <1>0, GoodFind
<1>2. h \in Asked
  BY CoffeeAssumption DEF NewFile, Page, Asked
<1>3. n = IF f.ret # NULL THEN Answer(f, FAILURE) ELSE r
  BY DEF ReserveMissing
<1> HIDE DEF f, n
<1>4. CASE f.ret # NULL
  <2>1. Good(n, {}) /\ n.hdr = f.hdr
    BY <1>1, <1>3, <1>4, GoodAnswer
  <2> QED BY <1>0, <1>1, <2>1 DEF One, f, n
<1>5. CASE f.ret = NULL
  <2>1. Good(r, {}) /\ (r.intact => Reserved(f, r, h))
    BY <1>1, <1>2, GoodReserve
  <2> HIDE DEF r
  <2>2. r.intact => Grown(m.hdr, r.hdr, name)
    <3> SUFFICES ASSUME r.intact PROVE Grown(m.hdr, r.hdr, name)
      OBVIOUS
    <3>1. CASE r.ret = NULL
      BY <1>1, <1>5, <2>1, <3>1, ReservedIs DEF Grown
    <3>2. CASE r.ret # NULL
      <4>1. Added(m.hdr, r.hdr, r.files[r.ret].page, h)
        BY <1>1, <1>5, <2>1, <3>2, ReservedIs
      <4>2. r.files[r.ret].page \in Pages
        BY <4>1 DEF Added
      <4> QED BY <1>1, <1>5, <4>1, <4>2 DEF Grown
    <3> QED BY <3>1, <3>2
  <2>3. One(r)
    BY <1>0, <2>1, <2>2, SingleGrown DEF One
  <2> QED BY <1>3, <1>5, <2>3 DEF n, f
<1> QED BY <1>4, <1>5

LEMMA OneOpen ==
    ASSUME NEW m, One(m), m.intact, SpareSlot(m), NEW name \in Names, NEW create \in BOOLEAN
    PROVE  One(Open(m, name, create))
<1> DEFINE n == Open(m, name, create)
<1>0. Good(m, {}) /\ Single(m.hdr) /\ m.hdr \in Images
  BY DEF One, Good, Strong, Typed
<1>1. Good(n, {}) /\ (n.intact => Opened(m, n, name, create))
  BY <1>0, GoodOpen
<1> HIDE DEF n
<1>2. n.intact => Grown(m.hdr, n.hdr, name)
  BY <1>1 DEF Opened
<1> QED BY <1>0, <1>1, <1>2, SingleGrown DEF One, n

-----------------------------------------------------------------------------
(* The calls again *)

InvOne == Inv /\ (clean => Single(hdr))

\* A reset that cuts no call comes behind its last write.
LEMMA CallClean ==
    ASSUME NEW m, NEW call, Call(m, call), intact', clean'
    PROVE  hdr' = m.hdr /\ m.intact
<1>1. CASE Return(m)
  BY <1>1 DEF Return
<1>2. CASE Reset(m)
  <2>1. PICK cut : hdr' = cut.hdr /\ cut = [hdr |-> m.hdr, intact |-> m.intact] /\ cut.intact
    BY <1>2 DEF Reset
  <2> QED BY <2>1
<1> QED BY <1>1, <1>2 DEF Call

LEMMA CallOne ==
    ASSUME NEW m, One(m), NEW call, Call(m, call), intact', clean'
    PROVE  Single(hdr')
BY CallClean DEF One

LEMMA EmptySingle ==
    ASSUME NEW i, i = [p \in Pages |-> Page("free")]
    PROVE  Single(i)
BY DEF Single, Page, HDR_ACTIVE

LEMMA StepwiseOne ==
    ASSUME intact => InvOne, [Next]_vars, intact'
    PROVE  InvOne'
<1>1. Inv'
  BY Stepwise DEF InvOne
<1>2. CASE UNCHANGED vars
  BY <1>1, <1>2 DEF InvOne, vars
<1> DEFINE P == Single(hdr')
<1>3. ASSUME Calls, clean' PROVE P
  <2>0. /\ Good(Mem, {}) /\ Mem.intact /\ SpareSlot(Mem) /\ One(Mem)
        /\ \A fd : FD_VALID(fd) => fd \in FDs /\ Mem.fds[fd] # NULL
    <3>0. InvOne /\ LogsAlive /\ HeadersOnly(hdr) /\ clean /\ Spare
      BY <1>3, CallsFrom
    <3>1. /\ Good(Mem, {}) /\ Mem.intact
          /\ \A fd : FD_VALID(fd) => fd \in FDs /\ Mem.fds[fd] # NULL
      BY <3>0, AtCall DEF InvOne
    <3>2. SpareSlot(Mem)
      BY <3>0, MemFields DEF Spare, SpareSlot
    <3>3. One(Mem)
      BY <3>0, <3>1, MemFields DEF InvOne, One
    <3> QED BY <3>1, <3>2, <3>3
  <2>1. ASSUME NEW name \in Names, cfs_open(name) PROVE P
    <3> PICK yes \in BOOLEAN : yes = TRUE
      OBVIOUS
    <3>1. One(Open(Mem, name, yes))
      BY <2>0, OneOpen
    <3> QED BY <1>3, <2>0, <2>1, <3>1, CallOne DEF cfs_open
  <2>2. ASSUME NEW name \in Names, cfs_remove(name) PROVE P
    <3>1. One(RemoveFound(find_file(Mem, name)))
      BY <2>0, OneRemove
    <3> QED BY <1>3, <2>0, <2>2, <3>1, CallOne DEF cfs_remove
  <2>3. ASSUME NEW name \in Names, cfs_coffee_reserve(name) PROVE P
    <3>1. One(ReserveMissing(find_file(Mem, name), name))
      BY <2>0, OneMissing
    <3> QED BY <1>3, <2>0, <2>3, <3>1, CallOne DEF cfs_coffee_reserve
  <2>4. ASSUME NEW fd \in FDs, cfs_close(fd) PROVE P
    <3> DEFINE n == Close(Mem, fd)
    <3>1. Mem.fds[fd] # NULL
      BY <2>0, <2>4 DEF cfs_close
    <3>2. Good(n, {}) /\ n.hdr = Mem.hdr
      BY <2>0, <3>1, GoodClose
    <3> HIDE DEF n
    <3>3. One(n)
      BY <2>0, <3>2 DEF One
    <3>4. Call(n, [NoReply EXCEPT !.op = "close", !.fd = fd])
      BY <2>4 DEF cfs_close, n
    <3> QED BY <1>3, <2>0, <3>3, <3>4, CallOne
  <2>5. ASSUME NEW fd \in FDs, NEW grow \in BOOLEAN, NEW log \in BOOLEAN, NEW full \in BOOLEAN,
               cfs_write(fd, grow, log, full)
        PROVE  P
    <3>1. Mem.fds[fd] # NULL
      BY <2>0, <2>5 DEF cfs_write
    <3>2. One(Write(Mem, fd, grow, log, full))
      BY <2>0, <3>1, OneWrite
    <3> QED BY <1>3, <2>0, <2>5, <3>2, CallOne DEF cfs_write
  <2>8. ASSUME NEW fd \in FDs, NEW grow \in BOOLEAN, NEW log \in BOOLEAN, cfs_write(fd, grow, log, FALSE)
        PROVE  P
    BY <2>5, <2>8
  <2>9. ASSUME NEW fd \in FDs, cfs_write(fd, FALSE, TRUE, TRUE) PROVE P
    BY <2>5, <2>9
  <2> QED BY <1>3, <2>1, <2>2, <2>3, <2>4, <2>8, <2>9 DEF Calls
<1>4. ASSUME cfs_format PROVE P
  BY <1>4, EmptySingle DEF cfs_format
<1>5. ASSUME ResetBetweenCalls, clean' PROVE P
  BY <1>5 DEF ResetBetweenCalls, InvOne
<1>6. CASE Next
  BY <1>1, <1>3, <1>4, <1>5, <1>6 DEF Next, InvOne
<1> QED BY <1>2, <1>6

\* With one more slot in the cache than files are open, as long as no reset cuts a call
\* and the flash is intact, there is one extent of each name and kind, all of it there,
\* with its log, and every log has an owner: reserve never adds a second file of a name,
\* because find_file comes to every file, and merge_log never leaves two copies of one,
\* because its own removal of the old copy finds the log it needs.
THEOREM OneOfEach == Spec => []OneCopy
<1>1. Init => (intact => InvOne)
  BY Initially, EmptySingle DEF Init, InvOne
<1>2. (intact => InvOne) /\ [Next]_vars => (intact => InvOne)'
  BY StepwiseOne
<1>3. (intact => InvOne) => OneCopy
  BY DEF InvOne, Single, OneCopy, Active, HDR_ACTIVE
<1> QED BY <1>1, <1>2, <1>3, PTL DEF Spec

-----------------------------------------------------------------------------
(* No file is lost *)

\* The names of the files of which all the data is there, and the log, and of those
\* that have an extent other than the one at page.
Whole(i) == {i[p].name : p \in {q \in Pages : i[q].kind = "file" /\ i[q].whole /\ LogAlive(i, q)}}
Others(i, page) ==
    {i[p].name : p \in {q \in Pages : q # page /\ i[q].kind = "file" /\ i[q].whole /\ LogAlive(i, q)}}

\* Only files have logs, and no two the same.
Unshared(i) ==
    /\ \A p \in Pages : HDR_ACTIVE(i[p]) /\ HDR_MODIFIED(i[p]) => i[p].kind = "file"
    /\ \A p, q \in Pages :
          HDR_ACTIVE(i[p]) /\ HDR_ACTIVE(i[q]) /\ HDR_MODIFIED(i[p]) /\ i[p].log_page = i[q].log_page => p = q

AllAlive(i) == \A p \in Pages : HDR_ACTIVE(i[p]) => LogAlive(i, p)

\* Every extent in use stays, but for those in W, and a new one has no log.
Stays(i, j, W) ==
    \A p \in Pages : /\ HDR_ACTIVE(i[p]) /\ p \notin W => j[p] = i[p]
                     /\ HDR_ACTIVE(j[p]) => j[p] = i[p] \/ ~HDR_MODIFIED(j[p])

LEMMA StaysTwice ==
    ASSUME NEW i, NEW j, NEW k, NEW W, Stays(i, j, {}), Stays(j, k, W)
    PROVE  Stays(i, k, W)
BY DEF Stays

LEMMA AliveLog ==
    ASSUME NEW i \in Images, NEW p \in Pages, HDR_MODIFIED(i[p]), LogAlive(i, p)
    PROVE  LET at == i[p].log_page
           IN  at \in Pages /\ i[at].kind = "log" /\ HDR_ACTIVE(i[at]) /\ i[at].name = i[p].name
<1>1. i[p].log_page \in Pages
  BY DEF HDR_MODIFIED, Images, HeaderT
<1> QED BY <1>1 DEF LogAlive, HDR_ACTIVE

LEMMA StaysUnshared ==
    ASSUME NEW i, Unshared(i), NEW j, NEW W, Stays(i, j, W)
    PROVE  Unshared(j)
<1>1. ASSUME NEW p \in Pages, HDR_ACTIVE(j[p]), HDR_MODIFIED(j[p]) PROVE j[p] = i[p]
  BY <1>1 DEF Stays
<1>2. ASSUME NEW p \in Pages, NEW q \in Pages, HDR_ACTIVE(j[p]), HDR_ACTIVE(j[q]),
             HDR_MODIFIED(j[p]), j[p].log_page = j[q].log_page
      PROVE  p = q
  <2>1. HDR_MODIFIED(j[q])
    BY <1>2 DEF HDR_MODIFIED
  <2>2. j[p] = i[p] /\ j[q] = i[q]
    BY <1>1, <1>2, <2>1
  <2> QED BY <1>2, <2>2 DEF Unshared
<1> QED BY <1>1, <1>2 DEF Unshared

LEMMA AliveStays ==
    ASSUME NEW i \in Images, NEW j, NEW W, Stays(i, j, W),
           NEW p \in Pages, HDR_ACTIVE(i[p]), p \notin W, LogAlive(i, p),
           HDR_MODIFIED(i[p]) => i[p].log_page \notin W
    PROVE  j[p] = i[p] /\ LogAlive(j, p)
<1>1. j[p] = i[p]
  BY DEF Stays
<1>2. CASE HDR_MODIFIED(i[p])
  <2> DEFINE at == i[p].log_page
  <2>1. at \in Pages /\ i[at].kind = "log" /\ HDR_ACTIVE(i[at]) /\ i[at].name = i[p].name /\ at \notin W
    BY <1>2, AliveLog
  <2>2. j[at] = i[at]
    BY <2>1 DEF Stays
  <2> QED BY <1>1, <2>1, <2>2 DEF LogAlive
<1>3. CASE ~HDR_MODIFIED(i[p])
  BY <1>1, <1>3 DEF LogAlive
<1> QED BY <1>1, <1>2, <1>3

LEMMA StaysWhole ==
    ASSUME NEW i \in Images, NEW j, Stays(i, j, {})
    PROVE  /\ Whole(i) \subseteq Whole(j)
           /\ AllAlive(i) => AllAlive(j)
<1>1. ASSUME NEW p \in Pages, HDR_ACTIVE(i[p]), LogAlive(i, p) PROVE j[p] = i[p] /\ LogAlive(j, p)
  BY <1>1, AliveStays
<1>2. Whole(i) \subseteq Whole(j)
  <2> SUFFICES ASSUME NEW p \in Pages, i[p].kind = "file", i[p].whole, LogAlive(i, p)
               PROVE  i[p].name \in Whole(j)
    BY DEF Whole
  <2>1. j[p] = i[p] /\ LogAlive(j, p)
    BY <1>1 DEF HDR_ACTIVE
  <2> QED BY <2>1 DEF Whole
<1>3. ASSUME AllAlive(i), NEW p \in Pages, HDR_ACTIVE(j[p]) PROVE LogAlive(j, p)
  <2>1. CASE HDR_MODIFIED(j[p])
    <3>1. j[p] = i[p]
      BY <1>3, <2>1 DEF Stays
    <3> QED BY <1>1, <1>3, <3>1 DEF AllAlive
  <2>2. CASE ~HDR_MODIFIED(j[p])
    BY <2>2 DEF LogAlive
  <2> QED BY <2>1, <2>2
<1> QED BY <1>2, <1>3 DEF AllAlive

\* When a file and its log go, or only its log, the others stay.
LEMMA OthersStay ==
    ASSUME NEW i \in Images, Unshared(i), NEW page \in Pages, i[page].kind = "file", LogAlive(i, page),
           NEW j, Stays(i, j, WithLog(i, page))
    PROVE  /\ Others(i, page) \subseteq Whole(j)
           /\ Unshared(j)
           /\ AllAlive(i) /\ ~HDR_ACTIVE(j[page]) => AllAlive(j)
<1> DEFINE W == WithLog(i, page)
<1>0. HDR_ACTIVE(i[page])
  BY DEF HDR_ACTIVE
<1>1. ASSUME NEW p \in Pages, p # page, i[p].kind = "file", LogAlive(i, p)
      PROVE  j[p] = i[p] /\ LogAlive(j, p)
  <2>1. HDR_ACTIVE(i[p])
    BY <1>1 DEF HDR_ACTIVE
  <2>2. p \notin W
    BY <1>1, AliveLog DEF WithLog
  <2>3. HDR_MODIFIED(i[p]) => i[p].log_page \notin W
    <3> SUFFICES ASSUME HDR_MODIFIED(i[p]), i[p].log_page \in W PROVE FALSE
      OBVIOUS
    <3>1. i[i[p].log_page].kind = "log"
      BY <1>1, AliveLog
    <3>2. HDR_MODIFIED(i[page]) /\ i[p].log_page = i[page].log_page
      BY <3>1 DEF WithLog
    <3> QED BY <1>0, <1>1, <2>1, <3>2 DEF Unshared
  <2> QED BY <1>1, <2>1, <2>2, <2>3, AliveStays
<1>2. Others(i, page) \subseteq Whole(j)
  <2> SUFFICES ASSUME NEW p \in Pages, p # page, i[p].kind = "file", i[p].whole, LogAlive(i, p)
               PROVE  i[p].name \in Whole(j)
    BY DEF Others
  <2>1. j[p] = i[p] /\ LogAlive(j, p)
    BY <1>1
  <2> QED BY <2>1 DEF Whole
<1>3. ASSUME AllAlive(i), ~HDR_ACTIVE(j[page]), NEW p \in Pages, HDR_ACTIVE(j[p]) PROVE LogAlive(j, p)
  <2>1. CASE HDR_MODIFIED(j[p])
    <3>1. j[p] = i[p] /\ p # page /\ HDR_ACTIVE(i[p])
      BY <1>3, <2>1 DEF Stays
    <3>2. i[p].kind = "file" /\ LogAlive(i, p)
      BY <1>3, <2>1, <3>1 DEF Unshared, AllAlive
    <3> QED BY <1>1, <3>1, <3>2
  <2>2. CASE ~HDR_MODIFIED(j[p])
    BY <2>2 DEF LogAlive
  <2> QED BY <2>1, <2>2
<1>4. Unshared(j)
  BY StaysUnshared
<1> QED BY <1>2, <1>3, <1>4 DEF AllAlive

\* A file without a log gets the one at page at, which no file had.
LEMMA LinkStays ==
    ASSUME NEW i \in Images, Unshared(i), AllAlive(i), NEW page \in Pages, i[page].kind = "file",
           ~HDR_MODIFIED(i[page]), NEW at \in Pages, i[at].kind = "log", i[at].name = i[page].name,
           \A q \in Pages : HDR_ACTIVE(i[q]) => i[q].log_page # at,
           NEW j, \A p \in Pages : j[p] = IF p = page THEN [i[p] EXCEPT !.log_page = at] ELSE i[p]
    PROVE  Whole(i) \subseteq Whole(j) /\ Unshared(j) /\ AllAlive(j)
<1>1. /\ j[page].kind = "file" /\ j[page].name = i[page].name /\ j[page].whole = i[page].whole
      /\ j[page].log_page = at /\ HDR_ACTIVE(j[page]) /\ HDR_ACTIVE(i[page])
      /\ at # page /\ j[at] = i[at]
  <2>1. i[page] \in HeaderT
    BY DEF Images
  <2> QED BY <2>1 DEF HeaderT, HDR_ACTIVE
<1>2. \A p \in Pages : p # page => j[p] = i[p]
  OBVIOUS
<1>3. \A p \in Pages : HDR_ACTIVE(j[p]) <=> HDR_ACTIVE(i[p])
  BY <1>1, <1>2
<1>4. LogAlive(j, page)
  BY <1>1 DEF LogAlive
<1>5. ASSUME NEW p \in Pages, p # page, LogAlive(i, p), HDR_ACTIVE(i[p]) PROVE LogAlive(j, p)
  <2>1. CASE HDR_MODIFIED(i[p])
    <3>1. /\ i[p].log_page \in Pages /\ i[i[p].log_page].kind = "log"
          /\ i[i[p].log_page].name = i[p].name
      BY <1>5, <2>1, AliveLog
    <3>2. i[p].log_page # page
      BY <3>1
    <3> QED BY <1>2, <1>5, <3>1, <3>2 DEF LogAlive
  <2>2. CASE ~HDR_MODIFIED(i[p])
    BY <1>2, <1>5, <2>2 DEF LogAlive
  <2> QED BY <2>1, <2>2
<1>6. AllAlive(j)
  BY <1>3, <1>4, <1>5 DEF AllAlive
<1>7. Whole(i) \subseteq Whole(j)
  <2> SUFFICES ASSUME NEW p \in Pages, i[p].kind = "file", i[p].whole, LogAlive(i, p)
               PROVE  i[p].name \in Whole(j)
    BY DEF Whole
  <2>1. LogAlive(j, p)
    BY <1>4, <1>5 DEF HDR_ACTIVE
  <2>2. j[p].kind = "file" /\ j[p].whole /\ j[p].name = i[p].name
    BY <1>1, <1>2
  <2> QED BY <2>1, <2>2 DEF Whole
<1>8. ASSUME NEW p \in Pages, NEW q \in Pages, HDR_ACTIVE(j[p]), HDR_ACTIVE(j[q]),
             HDR_MODIFIED(j[p]), j[p].log_page = j[q].log_page
      PROVE  p = q
  <2>1. ASSUME NEW x \in Pages, x # page, HDR_ACTIVE(j[x]) PROVE j[x].log_page # at
    BY <1>2, <1>3, <2>1
  <2>2. CASE p # page /\ q # page
    BY <1>2, <1>3, <1>8, <2>2 DEF Unshared
  <2> QED BY <1>1, <1>8, <2>1, <2>2
<1>9. \A p \in Pages : HDR_ACTIVE(j[p]) /\ HDR_MODIFIED(j[p]) => j[p].kind = "file"
  BY <1>1, <1>2 DEF Unshared
<1> QED BY <1>6, <1>7, <1>8, <1>9 DEF Unshared

\* The flash is not written.
Unwritten(m, n) == Rec(n) /\ n.hdr = m.hdr /\ n.seen = m.seen /\ n.intact = m.intact

LEMMA AnswerUnwritten == ASSUME NEW m, Rec(m), NEW r PROVE Unwritten(m, Answer(m, r))
BY DEF Unwritten, Rec, Fields, Answer

LEMMA UnwrittenTwice ==
    ASSUME NEW m, NEW n, NEW k, Unwritten(m, n), Unwritten(n, k) PROVE Unwritten(m, k)
BY DEF Unwritten

LEMMA LoadUnwritten == ASSUME NEW m, Rec(m), NEW page PROVE Unwritten(m, load_file(m, page))
<1> DEFINE free == {s \in Slots : FILE_FREE(m.files[s])}
           idle == {s \in Slots : m.files[s].references = 0}
           slot == IF free # {} THEN Min(free) ELSE Max(idle)
           h    == m.hdr[page]
           n    == [m EXCEPT !.files[slot] = [page |-> page, max_pages |-> h.max_pages,
                                              modified |-> HDR_MODIFIED(h),
                                              references |-> m.files[slot].references]]
<1>1. load_file(m, page) \in {Answer(m, NULL), Answer(n, slot)}
  BY DEF load_file
<1> HIDE DEF slot, h
<1>2. Unwritten(m, n) /\ Rec(n)
  BY DEF Unwritten, Rec, Fields
<1> HIDE DEF n
<1> QED BY <1>1, <1>2, AnswerUnwritten, UnwrittenTwice

LEMMA FindUnwritten == ASSUME NEW m, Rec(m), NEW name PROVE Unwritten(m, find_file(m, name))
<1>1. \/ \E r : find_file(m, name) = Answer(m, r)
      \/ \E page : find_file(m, name) = load_file(m, page)
  BY DEF find_file
<1> QED BY <1>1, AnswerUnwritten, LoadUnwritten

LEMMA SearchUnwritten ==
    ASSUME NEW m, Rec(m), NEW amount PROVE Unwritten(m, find_contiguous_pages(m, amount))
<1>1. ASSUME NEW start PROVE Unwritten(m, Take(m, start, amount))
  <2> DEFINE n == [m EXCEPT !.next_free = IF start = @ THEN start + amount ELSE @]
  <2>1. Unwritten(m, n) /\ Rec(n)
    BY DEF Unwritten, Rec, Fields
  <2>2. Take(m, start, amount) = Answer(n, start)
    BY DEF Take
  <2> HIDE DEF n
  <2> QED BY <2>1, <2>2, AnswerUnwritten, UnwrittenTwice
<1> QED BY <1>1 DEF find_contiguous_pages

LEMMA ConnectUnwritten ==
    ASSUME NEW m, Rec(m), NEW fd, NEW slot PROVE Unwritten(m, Connect(m, fd, slot))
<1> DEFINE n == [m EXCEPT !.fds[fd] = slot, !.files[slot].references = @ + 1]
<1>1. Unwritten(m, n) /\ Rec(n)
  BY DEF Unwritten, Rec, Fields
<1>2. Connect(m, fd, slot) = Answer(n, fd)
  BY DEF Connect
<1> HIDE DEF n
<1> QED BY <1>1, <1>2, AnswerUnwritten, UnwrittenTwice

LEMMA CloseUnwritten == ASSUME NEW m, Rec(m), NEW fd PROVE Unwritten(m, Close(m, fd))
<1> DEFINE n == [m EXCEPT !.files[m.fds[fd]].references = (@ - 1) % 256, !.fds[fd] = NULL]
<1>1. n.hdr = m.hdr /\ n.seen = m.seen /\ n.intact = m.intact /\ Rec(n)
  BY ZenonT(40) DEF Rec, Fields
<1>2. Close(m, fd) = n
  BY DEF Close
<1> HIDE DEF n
<1> QED BY <1>1, <1>2 DEF Unwritten

LEMMA RedirectUnwritten ==
    ASSUME NEW m, Rec(m), NEW page, NEW slot PROVE Unwritten(m, Redirect(m, page, slot))
<1> DEFINE moved == {fd \in FDs : m.fds[fd] # NULL /\ m.files[m.fds[fd]].page = page}
           fds == [fd \in FDs |-> IF fd \in moved THEN slot ELSE m.fds[fd]]
           n == [m EXCEPT !.fds = fds, !.files[slot].references = @ + Cardinality(moved)]
<1>1. Redirect(m, page, slot) = n
  BY DEF Redirect, Rec, Fields
<1> HIDE DEF moved, fds
<1>2. Unwritten(m, n)
  BY DEF Unwritten, Rec, Fields
<1> HIDE DEF n
<1> QED BY <1>1, <1>2

\* From m to n, and wherever a reset may come in between, every extent in use stays.
Trail(m, n) ==
    /\ Later(m, n)
    /\ n.intact => Stays(m.hdr, n.hdr, {})
    /\ \A cut \in n.seen : cut \in m.seen \/ ~cut.intact \/ Stays(m.hdr, cut.hdr, {})

LEMMA TrailUnwritten == ASSUME NEW m, NEW n, Unwritten(m, n) PROVE Trail(m, n)
BY DEF Unwritten, Trail, Later, Stays

LEMMA TrailTwice == ASSUME NEW m, NEW n, NEW k, Trail(m, n), Trail(n, k) PROVE Trail(m, k)
<1>1. Later(m, k)
  BY LaterTwice DEF Trail
<1>2. k.intact => Stays(m.hdr, k.hdr, {})
  BY StaysTwice DEF Trail, Later
<1>3. ASSUME NEW cut \in k.seen, cut \notin m.seen, cut.intact PROVE Stays(m.hdr, cut.hdr, {})
  <2>1. CASE cut \in n.seen
    BY <1>3, <2>1 DEF Trail
  <2>2. CASE cut \notin n.seen
    <3>1. n.intact /\ Stays(n.hdr, cut.hdr, {})
      BY <1>3, <2>2 DEF Trail, Later
    <3> QED BY <3>1, StaysTwice DEF Trail
  <2> QED BY <2>1, <2>2
<1> QED BY <1>1, <1>2, <1>3 DEF Trail

LEMMA TrailOff ==
    ASSUME NEW m, NEW n, NEW k, Trail(m, n), ~n.intact, Later(n, k)
    PROVE  Trail(m, k)
BY LaterTwice DEF Trail, Later

LEMMA TrailFlash ==
    ASSUME NEW m, Rec(m), NEW image, Stays(m.hdr, image, {})
    PROVE  Trail(m, Flash(m, image))
<1> DEFINE n == Flash(m, image)
<1>1. n.hdr = image /\ n.seen = m.seen \union {[hdr |-> image, intact |-> m.intact]}
  BY FlashFields
<1>2. Later(m, n)
  BY LaterFlash
<1> HIDE DEF n
<1>3. Trail(m, n)
  BY <1>1, <1>2 DEF Trail
<1> QED BY <1>3 DEF n

LEMMA CleanedStays ==
    ASSUME NEW i \in Images, NEW j, Cleaned(i, j) PROVE Stays(i, j, {})
BY CleanedActive DEF Stays

\* Garbage collection, whichever of its erasures is the last.
LEMMA TrailCollected ==
    ASSUME NEW m, Good(m, {}), m.intact
    PROVE  Trail(m, collect_garbage(m))
<1> DEFINE g == collect_garbage(m)
<1>0. Rec(m) /\ Later(m, g)
  BY LaterCollected DEF Good
<1>1. CASE ~TailsGo(m.hdr, Walk(m.hdr))
  <2>1. ~g.intact /\ \A cut \in g.seen : cut \in m.seen \/ ~cut.intact
    BY <1>0, <1>1, CollectedLater
  <2> HIDE DEF g
  <2> QED BY <1>0, <2>1 DEF g, Trail
<1>2. CASE TailsGo(m.hdr, Walk(m.hdr))
  <2>1. m.hdr \in Images /\ m.next_free \in Nat /\ AllFound(m.hdr) /\ COFFEE_SECTOR_COUNT \in Nat
    BY Constants DEF Good, Strong, Typed, Space, Laid
  <2>2. Garbage(m, g, COFFEE_SECTOR_COUNT)
    BY <1>0, <1>2, <2>1, GarbageCollected
  <2> HIDE DEF g
  <2>3. ASSUME NEW l \in 0..COFFEE_SECTOR_COUNT, NEW j, Sweep(m.hdr, j, l) PROVE Stays(m.hdr, j, {})
    BY <2>1, <2>3, SweepCleaned, CleanedStays
  <2>4. COFFEE_SECTOR_COUNT \in 0..COFFEE_SECTOR_COUNT
    BY <2>1
  <2>5. Trail(m, g)
    BY <1>0, <2>2, <2>3, <2>4 DEF Garbage, Trail
  <2> QED BY <2>5 DEF g
<1> QED BY <1>1, <1>2

LEMMA TrailAgain ==
    ASSUME NEW m, m.intact, NEW amount \in Nat, Searched(m, amount)
    PROVE  Trail(m, SearchAgain(m, amount))
<1> DEFINE g == collect_garbage(m)
           n == find_contiguous_pages(g, amount)
<1>1. CASE m.ret # INVALID_PAGE \/ m.gc_wait
  <2>1. SearchAgain(m, amount) = m /\ Unwritten(m, m)
    BY <1>1 DEF SearchAgain, Searched, Unwritten
  <2> QED BY <2>1, TrailUnwritten
<1>2. CASE ~(m.ret # INVALID_PAGE \/ m.gc_wait)
  <2>1. SearchAgain(m, amount) = n
    BY <1>2 DEF SearchAgain
  <2>2. Trail(m, g) /\ Rec(g)
    BY <1>2, SearchedNone, TrailCollected, LaterRec DEF Trail
  <2> HIDE DEF g
  <2>3. Trail(g, n)
    BY <2>2, SearchUnwritten, TrailUnwritten
  <2> HIDE DEF n
  <2> QED BY <2>1, <2>2, <2>3, TrailTwice
<1> QED BY <1>1, <1>2

LEMMA TrailOccupy ==
    ASSUME NEW m, m.intact, NEW h \in Asked, Searched(m, h.max_pages)
    PROVE  Trail(m, Occupy(m, h))
<1> DEFINE n == Occupy(m, h)
<1>0. Rec(m)
  BY DEF Searched
<1>1. CASE m.ret = INVALID_PAGE
  <2> DEFINE k == [m EXCEPT !.gc_wait = TRUE]
  <2>1. n = Answer(k, NULL)
    BY <1>1 DEF Occupy
  <2>2. Unwritten(m, k) /\ Rec(k)
    BY <1>0 DEF Unwritten, Rec, Fields
  <2> HIDE DEF k, n
  <2>3. Trail(m, n)
    BY <2>1, <2>2, AnswerUnwritten, UnwrittenTwice, TrailUnwritten
  <2> QED BY <2>3 DEF n
<1>2. CASE m.ret # INVALID_PAGE
  <2> DEFINE at == m.ret
             image == [p \in Pages |-> CASE p = at -> h
                                         [] at < p /\ p < at + h.max_pages -> Page("data")
                                         [] OTHER -> m.hdr[p]]
             k == NewExtent(m, h, at)
  <2>1. n = load_file(k, at)
    BY <1>2 DEF Occupy
  <2>2. /\ Kept(m, k) /\ at \in Pages /\ ~HDR_ACTIVE(m.hdr[at]) /\ k.hdr[at] = h
        /\ \A p \in Pages \ {at} : HDR_ACTIVE(k.hdr[p]) => k.hdr[p] = m.hdr[p]
    BY <1>2, GoodExtent
  <2>3. k = Flash(m, image)
    BY DEF NewExtent
  <2> HIDE DEF k, n, image
  <2>4. k.hdr = image
    BY <1>0, <2>3, FlashFields
  <2>5. ~HDR_MODIFIED(h)
    BY DEF Asked, HDR_MODIFIED
  <2>6. Stays(m.hdr, image, {})
    BY <2>2, <2>4, <2>5 DEF Kept, Stays
  <2>7. Trail(m, k) /\ Rec(k)
    BY <1>0, <2>3, <2>6, TrailFlash, LaterRec DEF Trail
  <2>8. Trail(k, n)
    BY <2>1, <2>7, LoadUnwritten, TrailUnwritten
  <2> QED BY <2>7, <2>8, TrailTwice DEF n
<1> QED BY <1>1, <1>2

LEMMA TrailReserve ==
    ASSUME NEW m, Good(m, {}), m.intact, NEW h \in Asked
    PROVE  Trail(m, reserve(m, h))
<1> DEFINE amount == h.max_pages
           k == find_contiguous_pages(m, amount)
           j == SearchAgain(k, amount)
           n == Occupy(j, h)
<1>0. amount \in Nat /\ amount >= 1 /\ Rec(m)
  BY DEF Asked, Good
<1>1. Searched(k, amount) /\ k.intact /\ Trail(m, k)
  BY <1>0, GoodSearch, SearchUnwritten, TrailUnwritten
<1> HIDE DEF k
<1>2. Searched(j, amount) /\ Trail(k, j)
  BY <1>0, <1>1, GoodAgain, TrailAgain
<1> HIDE DEF j
<1>3. Trail(m, j) /\ Rec(j)
  BY <1>1, <1>2, TrailTwice DEF Searched
<1>4. CASE ~j.intact
  <2>1. Later(j, n)
    BY <1>3, LaterOccupy
  <2> HIDE DEF n
  <2>2. Trail(m, n)
    BY <1>3, <1>4, <2>1, TrailOff
  <2> QED BY <2>2 DEF reserve, k, j, n
<1>5. CASE j.intact
  <2>1. Trail(j, n)
    BY <1>2, <1>5, TrailOccupy
  <2> HIDE DEF n
  <2>2. Trail(m, n)
    BY <1>3, <2>1, TrailTwice
  <2> QED BY <2>2 DEF reserve, k, j, n
<1>6. j.intact \in BOOLEAN
  BY <1>3 DEF Rec
<1> QED BY <1>4, <1>5, <1>6

LEMMA NewFileAsked ==
    ASSUME NEW name \in Names \union {NULL}
    PROVE  NewFile(name, DynPages) \in Asked /\ NewLog(name) \in Asked
BY CoffeeAssumption DEF NewFile, NewLog, Page, Asked

LEMMA TrailOpen ==
    ASSUME NEW m, Good(m, {}), m.intact, NEW name \in Names \union {NULL}, NEW create
    PROVE  Trail(m, Open(m, name, create))
<1> DEFINE f == find_file(m, name)
           h == NewFile(name, DynPages)
           c == CreateMissing(f, name, create)
           n == ConnectFound(c)
<1>0. Rec(m) /\ h \in Asked
  BY NewFileAsked DEF Good
<1>1. Good(f, {}) /\ f.intact /\ Trail(m, f) /\ Rec(f)
  BY <1>0, GoodFind, FindUnwritten, TrailUnwritten DEF Good
<1> HIDE DEF f
<1>2. c = f \/ c = reserve(f, h)
  BY DEF CreateMissing
<1> HIDE DEF h, c
<1>3. Trail(f, c) /\ Rec(c)
  <2>1. Trail(f, reserve(f, h))
    BY <1>0, <1>1, TrailReserve
  <2>2. Trail(f, f)
    BY <1>1, TrailUnwritten DEF Unwritten
  <2> QED BY <1>2, <2>1, <2>2, LaterRec DEF Trail
<1>4. Unwritten(c, n)
  BY <1>3, AnswerUnwritten, ConnectUnwritten DEF ConnectFound
<1> HIDE DEF n
<1>5. Trail(m, n)
  BY <1>1, <1>3, <1>4, TrailTwice, TrailUnwritten
<1>6. Open(m, name, create) \in {Answer(m, FAILURE), n}
  BY DEF Open, n, c, f
<1>7. Trail(m, Answer(m, FAILURE))
  BY <1>0, AnswerUnwritten, TrailUnwritten
<1> QED BY <1>5, <1>6, <1>7

\* The files in C are there, and go on to be as long as the next image is.
Safe(C, i) == C \subseteq Whole(i) /\ Unshared(i)

Guarded(C, m) ==
    /\ m.intact => Safe(C, m.hdr)
    /\ \A cut \in m.seen : cut.intact => Safe(C, cut.hdr)

\* No two slots hold files of one name.
Once(m) == \A s, t \in Slots : \A name : Holds(m, s, name) /\ Holds(m, t, name) => s = t

Calm(C, m) == Good(m, {}) /\ Guarded(C, m) /\ (m.intact => AllAlive(m.hdr) /\ Once(m))

LEMMA GuardTrail ==
    ASSUME NEW C, NEW m, Good(m, {}), m.intact, Guarded(C, m), NEW n, Trail(m, n)
    PROVE  Guarded(C, n) /\ (n.intact /\ AllAlive(m.hdr) => AllAlive(n.hdr))
<1>1. m.hdr \in Images /\ Safe(C, m.hdr)
  BY DEF Good, Strong, Typed, Guarded
<1>2. ASSUME NEW i, Stays(m.hdr, i, {}) PROVE Safe(C, i) /\ (AllAlive(m.hdr) => AllAlive(i))
  BY <1>1, <1>2, StaysWhole, StaysUnshared DEF Safe
<1> QED BY <1>2 DEF Guarded, Trail

LEMMA GuardOff ==
    ASSUME NEW C, NEW m, Guarded(C, m), ~m.intact, NEW n, Later(m, n)
    PROVE  Guarded(C, n)
BY DEF Guarded, Later

LEMMA GuardUnwritten ==
    ASSUME NEW C, NEW m, Guarded(C, m), NEW n, Unwritten(m, n)
    PROVE  Guarded(C, n)
BY DEF Guarded, Unwritten

LEMMA GuardFlash ==
    ASSUME NEW C, NEW m, Rec(m), Guarded(C, m), NEW image, Safe(C, image)
    PROVE  Guarded(C, Flash(m, image))
<1> DEFINE n == Flash(m, image)
<1>1. n.hdr = image /\ n.seen = m.seen \union {[hdr |-> image, intact |-> m.intact]}
  BY FlashFields
<1> HIDE DEF n
<1>2. Guarded(C, n)
  BY <1>1 DEF Guarded
<1> QED BY <1>2 DEF n

LEMMA CalmOff ==
    ASSUME NEW C, NEW m, Calm(C, m), ~m.intact, NEW n, Later(m, n)
    PROVE  Calm(C, n)
BY GoodOff, GuardOff DEF Calm

LEMMA CalmAnswer ==
    ASSUME NEW C, NEW m, Calm(C, m), NEW r
    PROVE  Calm(C, Answer(m, r))
<1> DEFINE n == Answer(m, r)
<1>1. Good(n, {}) /\ n.hdr = m.hdr /\ n.files = m.files /\ n.intact = m.intact
  BY GoodAnswer DEF Calm
<1>2. Guarded(C, n)
  BY AnswerUnwritten, GuardUnwritten DEF Calm, Good
<1> HIDE DEF n
<1>3. Calm(C, n)
  BY <1>1, <1>2 DEF Calm, Once, Holds
<1> QED BY <1>3 DEF n

\* What a slot holds, by its header alone.
LEMMA HoldsFacts ==
    ASSUME NEW m, Strong(m, {}), NEW s \in Slots, NEW name, Holds(m, s, name)
    PROVE  /\ m.files[s].page \in Pages /\ HDR_ACTIVE(m.hdr[m.files[s].page])
           /\ m.hdr[m.files[s].page].kind = "file" /\ m.hdr[m.files[s].page].name = name
           /\ \A t \in Slots : m.files[t].page = m.files[s].page => s = t
<1>1. CachedFile(m, s) /\ IsNamed(m.hdr[m.files[s].page], name)
  BY SlotFacts DEF Holds
<1> QED BY <1>1, NamedFile DEF CachedFile

\* All slots but one stay as they are, and the one holds a name that none has held.
LEMMA OnceMore ==
    ASSUME NEW m, Strong(m, {}), Once(m), NEW n,
           \A p \in Pages : HDR_ACTIVE(m.hdr[p]) => n.hdr[p] = m.hdr[p],
           \A s \in Slots : s # n.ret => n.files[s] = m.files[s],
           \A name : n.ret \in Slots /\ Holds(n, n.ret, name) => \A s \in Slots : ~Holds(m, s, name)
    PROVE  Once(n)
<1>1. ASSUME NEW s \in Slots, s # n.ret, NEW name, Holds(n, s, name) PROVE Holds(m, s, name)
  <2>1. n.files[s] = m.files[s] /\ ~FILE_FREE(m.files[s])
    BY <1>1 DEF Holds
  <2>2. CachedFile(m, s)
    BY <2>1, SlotFacts
  <2>3. n.hdr[m.files[s].page] = m.hdr[m.files[s].page]
    BY <2>2 DEF CachedFile
  <2> QED BY <1>1, <2>1, <2>3 DEF Holds
<1> SUFFICES ASSUME NEW s \in Slots, NEW t \in Slots, NEW name, Holds(n, s, name), Holds(n, t, name)
             PROVE  s = t
  BY DEF Once
<1>2. CASE s # n.ret /\ t # n.ret
  BY <1>1, <1>2 DEF Once
<1>3. CASE s = n.ret /\ t # n.ret
  BY <1>1, <1>3
<1>4. CASE s # n.ret /\ t = n.ret
  BY <1>1, <1>4
<1> QED BY <1>2, <1>3, <1>4

LEMMA CalmFind ==
    ASSUME NEW C, NEW m, Calm(C, m), m.intact, NEW name
    PROVE  LET f == find_file(m, name)
           IN  /\ Calm(C, f) /\ f.intact
               /\ f.ret = NULL => \A s \in Slots : ~Holds(f, s, name)
<1> DEFINE f == find_file(m, name)
<1>0. Good(m, {}) /\ Strong(m, {}) /\ Once(m) /\ AllAlive(m.hdr) /\ Rec(m) /\ Guarded(C, m)
  BY DEF Calm, Good
<1>1. /\ Good(f, {}) /\ f.intact /\ f.hdr = m.hdr /\ Kept(m, f)
      /\ f.ret = NULL \/ (/\ f.ret \in Slots /\ f.files[f.ret].page \in Pages
                          /\ IsNamed(f.hdr[f.files[f.ret].page], name))
      /\ (\E s \in Slots : Holds(m, s, name)) => f.files = m.files /\ f.ret # NULL
      /\ \A s \in Slots : s # f.ret => f.files[s] = m.files[s]
  BY <1>0, GoodFind
<1>2. Guarded(C, f)
  BY <1>0, FindUnwritten, GuardUnwritten
<1> HIDE DEF f
<1>3. CASE \E s \in Slots : Holds(m, s, name)
  <2>1. f.files = m.files /\ f.ret # NULL
    BY <1>1, <1>3
  <2> QED BY <1>0, <1>1, <1>2, <2>1 DEF Calm, Once, Holds, f
<1>4. CASE ~\E s \in Slots : Holds(m, s, name)
  <2>1. ASSUME NEW x, f.ret \in Slots, Holds(f, f.ret, x) PROVE \A s \in Slots : ~Holds(m, s, x)
    <3>1. f.ret # NULL
      BY <2>1, Constants
    <3>2. x = name
      BY <1>1, <2>1, <3>1 DEF Holds, IsNamed
    <3> QED BY <1>4, <3>2
  <2>2. \A p \in Pages : HDR_ACTIVE(m.hdr[p]) => f.hdr[p] = m.hdr[p]
    BY <1>1
  <2>3. Once(f)
    BY <1>0, <1>1, <2>1, <2>2, OnceMore
  <2>4. f.ret = NULL => \A s \in Slots : ~Holds(f, s, name)
    <3> SUFFICES ASSUME f.ret = NULL, NEW s \in Slots, Holds(f, s, name) PROVE FALSE
      OBVIOUS
    <3>1. f.files[s] = m.files[s]
      BY <1>1, Constants
    <3> QED BY <1>1, <1>4, <3>1 DEF Holds
  <2> QED BY <1>0, <1>1, <1>2, <2>3, <2>4 DEF Calm, f
<1> QED BY <1>3, <1>4

\* A reservation, unless the name is held.
LEMMA CalmReserve ==
    ASSUME NEW C, NEW m, Calm(C, m), m.intact, NEW h \in Asked,
           h.kind = "file" => \A s \in Slots : ~Holds(m, s, h.name)
    PROVE  Calm(C, reserve(m, h))
<1> DEFINE n == reserve(m, h)
<1>0. Good(m, {}) /\ Strong(m, {}) /\ Once(m) /\ AllAlive(m.hdr) /\ Guarded(C, m)
  BY DEF Calm, Good
<1>1. Good(n, {}) /\ (n.intact => Reserved(m, n, h)) /\ Trail(m, n)
  BY <1>0, GoodReserve, TrailReserve
<1> HIDE DEF n
<1>2. Guarded(C, n) /\ (n.intact => AllAlive(n.hdr))
  BY <1>0, <1>1, GuardTrail
<1>3. ASSUME n.intact PROVE Once(n)
  <2>1. Reserved(m, n, h)
    BY <1>1, <1>3
  <2>2. \A p \in Pages : HDR_ACTIVE(m.hdr[p]) => n.hdr[p] = m.hdr[p]
    BY <2>1 DEF Reserved, Kept
  <2>3. \A s \in Slots : s # n.ret => n.files[s] = m.files[s]
    BY <2>1 DEF Reserved
  <2>4. ASSUME NEW x, n.ret \in Slots, Holds(n, n.ret, x) PROVE \A s \in Slots : ~Holds(m, s, x)
    <3>1. n.hdr[n.files[n.ret].page] = h
      BY <2>1, <2>4, Constants DEF Reserved
    <3>2. h.kind = "file" /\ h.name = x
      BY <2>4, <3>1 DEF Holds, IsNamed
    <3> QED BY <3>2
  <2> QED BY <1>0, <2>2, <2>3, <2>4, OnceMore
<1> QED BY <1>1, <1>2, <1>3 DEF Calm, n

LEMMA CalmConnect ==
    ASSUME NEW C, NEW m, Calm(C, m), m.intact, NEW fd \in FDs, m.fds[fd] = NULL, NEW slot \in Slots,
           m.files[slot].page \in Pages, m.hdr[m.files[slot].page].kind = "file"
    PROVE  Calm(C, Connect(m, fd, slot))
<1> DEFINE n == Connect(m, fd, slot)
<1>0. Good(m, {}) /\ Strong(m, {}) /\ Once(m) /\ AllAlive(m.hdr) /\ Guarded(C, m) /\ Rec(m)
  BY DEF Calm, Good
<1>1. /\ Good(n, {}) /\ n.intact /\ n.hdr = m.hdr
      /\ n.files[slot].page = m.files[slot].page
      /\ \A s \in Slots : s # slot => n.files[s] = m.files[s]
  BY <1>0, GoodConnect
<1>2. Guarded(C, n)
  BY <1>0, ConnectUnwritten, GuardUnwritten
<1> HIDE DEF n
<1>3. ASSUME NEW s \in Slots, NEW name, Holds(n, s, name) PROVE Holds(m, s, name)
  <2>1. n.files[s].page = m.files[s].page
    BY <1>1
  <2>2. n.files[s].page \in Pages
    BY <1>1, <1>3, HoldsFacts DEF Good
  <2>3. INVALID_PAGE \notin Pages
    BY Constants
  <2>4. ~FILE_FREE(m.files[s])
    BY <1>0, <2>1, <2>2, <2>3, SlotFacts
  <2> QED BY <1>1, <1>3, <2>1, <2>4 DEF Holds
<1>4. Once(n)
  BY <1>0, <1>3 DEF Once
<1> QED BY <1>0, <1>1, <1>2, <1>4 DEF Calm, n

\* Where the pages of the slots stay, or go, each name is still held once.
LEMMA OnceLess ==
    ASSUME NEW m, Strong(m, {}), Once(m), NEW n, Strong(n, {}),
           \A s \in Slots : n.files[s].page \in Pages => n.files[s].page = m.files[s].page,
           \A p \in Pages : n.hdr[p].kind = "file" => m.hdr[p].kind = "file" /\ n.hdr[p].name = m.hdr[p].name
    PROVE  Once(n)
<1>1. ASSUME NEW s \in Slots, NEW name, Holds(n, s, name) PROVE Holds(m, s, name)
  <2>1. /\ n.files[s].page \in Pages /\ n.hdr[n.files[s].page].kind = "file"
        /\ n.hdr[n.files[s].page].name = name
    BY <1>1, HoldsFacts
  <2>2. n.files[s].page = m.files[s].page
    BY <2>1
  <2>3. INVALID_PAGE \notin Pages
    BY Constants
  <2>4. ~FILE_FREE(m.files[s])
    BY <2>1, <2>2, <2>3, SlotFacts
  <2> QED BY <2>1, <2>2, <2>4 DEF Holds, IsNamed
<1> QED BY <1>1 DEF Once

LEMMA CalmClose ==
    ASSUME NEW C, NEW m, Calm(C, m), m.intact, NEW fd \in FDs, m.fds[fd] # NULL
    PROVE  Calm(C, Close(m, fd))
<1> DEFINE n == Close(m, fd)
<1>0. Good(m, {}) /\ Strong(m, {}) /\ Once(m) /\ AllAlive(m.hdr) /\ Guarded(C, m) /\ Rec(m)
  BY DEF Calm, Good
<1>1. /\ Good(n, {}) /\ n.intact /\ n.hdr = m.hdr
      /\ \A s \in Slots : n.files[s].page = m.files[s].page
  BY <1>0, GoodClose
<1>2. Guarded(C, n)
  BY <1>0, CloseUnwritten, GuardUnwritten
<1> HIDE DEF n
<1>3. Once(n)
  BY <1>0, <1>1, OnceLess DEF Good
<1> QED BY <1>0, <1>1, <1>2, <1>3 DEF Calm, n

LEMMA CalmOpen ==
    ASSUME NEW C, NEW m, Calm(C, m), m.intact, NEW name \in Names \union {NULL}, NEW create \in BOOLEAN
    PROVE  Calm(C, Open(m, name, create))
<1> DEFINE f == find_file(m, name)
           h == NewFile(name, DynPages)
           c == CreateMissing(f, name, create)
           n == ConnectFound(c)
<1>0. h \in Asked /\ h.kind = "file" /\ h.name = name /\ IsNamed(h, name)
  BY NewFileAsked, Zenon DEF NewFile, Page, IsNamed
<1>1. /\ Calm(C, f) /\ f.intact
      /\ f.ret = NULL => \A s \in Slots : ~Holds(f, s, name)
  BY CalmFind
<1>2. /\ f.fds = m.fds /\ Good(f, {})
      /\ f.ret = NULL \/ (/\ f.ret \in Slots /\ f.files[f.ret].page \in Pages
                          /\ IsNamed(f.hdr[f.files[f.ret].page], name))
  BY GoodFind DEF Calm
<1> HIDE DEF f
<1>3. /\ Calm(C, c)
      /\ c.intact => /\ c.fds = m.fds
                     /\ c.ret # NULL => /\ c.ret \in Slots /\ c.files[c.ret].page \in Pages
                                        /\ c.hdr[c.files[c.ret].page].kind = "file"
  <2>1. CASE f.ret = NULL /\ create
    <3>1. c = reserve(f, h)
      BY <2>1 DEF CreateMissing
    <3> HIDE DEF c, h
    <3>2. Calm(C, c)
      BY <1>0, <1>1, <2>1, <3>1, CalmReserve
    <3>3. c.intact => Reserved(f, c, h)
      BY <1>0, <1>1, <1>2, <3>1, GoodReserve
    <3> QED BY <1>0, <1>2, <3>2, <3>3 DEF Reserved
  <2>2. CASE ~(f.ret = NULL /\ create)
    <3>1. c = f
      BY <2>2 DEF CreateMissing
    <3> HIDE DEF c
    <3> QED BY <1>1, <1>2, <3>1, NamedFile
  <2> QED BY <2>1, <2>2
<1> HIDE DEF c
<1>4. CASE FreeFds(m) = {}
  <2>1. Open(m, name, create) = Answer(m, FAILURE)
    BY <1>4 DEF Open
  <2> QED BY <2>1, CalmAnswer
<1>5. CASE FreeFds(m) # {}
  <2>1. Open(m, name, create) = n
    BY <1>5 DEF Open, f, c
  <2>2. CASE ~c.intact
    <3>1. Rec(c)
      BY <1>3 DEF Good, Calm
    <3>2. Later(c, n)
      BY <3>1, LaterAnswer, LaterConnect DEF ConnectFound
    <3> HIDE DEF n
    <3> QED BY <1>3, <2>1, <2>2, <3>2, CalmOff
  <2>3. CASE c.intact /\ c.ret = NULL
    <3>1. n = Answer(c, FAILURE)
      BY <2>3 DEF ConnectFound
    <3> HIDE DEF n
    <3> QED BY <1>3, <2>1, <3>1, CalmAnswer
  <2>4. CASE c.intact /\ c.ret # NULL
    <3> DEFINE fd == Min(FreeFds(c))
    <3>1. FreeFds(c) # {} /\ FreeFds(c) \subseteq Nat
      BY <1>3, <1>5, <2>4, Constants DEF FreeFds
    <3>2. fd \in FreeFds(c)
      BY <3>1, MinFacts
    <3>3. n = Connect(c, fd, c.ret)
      BY <2>4 DEF ConnectFound
    <3> HIDE DEF fd, n
    <3>4. fd \in FDs /\ c.fds[fd] = NULL
      BY <3>2 DEF FreeFds
    <3>5. c.ret \in Slots /\ c.files[c.ret].page \in Pages /\ c.hdr[c.files[c.ret].page].kind = "file"
      BY <1>3, <2>4
    <3> PICK slot \in Slots : slot = c.ret
      BY <3>5
    <3> QED BY <1>3, <2>1, <2>4, <3>3, <3>4, <3>5, CalmConnect
  <2>5. c.intact \in BOOLEAN
    BY <1>3 DEF Calm, Good, Rec
  <2> QED BY <2>2, <2>3, <2>4, <2>5
<1> QED BY <1>4, <1>5

-----------------------------------------------------------------------------
(* Removals and logs lose nothing else *)

LEMMA ObsoleteSeen ==
    ASSUME NEW m, Rec(m), NEW page, NEW close
    PROVE  LET n == Obsolete(m, page, close)
           IN  n.seen = m.seen \union {[hdr |-> n.hdr, intact |-> m.intact]}
<1> DEFINE h == [Page("obsolete") EXCEPT !.max_pages = m.hdr[page].max_pages]
           image == [m.hdr EXCEPT ![page] = h]
           w == write_header(m, h, page)
           fds == [fd \in FDs |-> IF close /\ m.fds[fd] # NULL /\ m.files[m.fds[fd]].page = page
                                  THEN NULL ELSE w.fds[fd]]
           files == [s \in Slots |-> IF w.files[s].page = page THEN NoFile ELSE w.files[s]]
           k == [w EXCEPT !.gc_wait = FALSE, !.fds = fds, !.files = files]
           n == Obsolete(m, page, close)
<1>1. n = Answer(k, 0)
  BY DEF Obsolete, Awake, h, Rec, Fields
<1> HIDE DEF n, h, fds, files
<1>2. w = Flash(m, image)
  BY DEF write_header
<1> HIDE DEF w, image
<1>3. w.hdr = image /\ w.seen = m.seen \union {[hdr |-> image, intact |-> m.intact]} /\ Rec(w)
  BY <1>2, FlashFields
<1>4. k.hdr = w.hdr /\ k.seen = w.seen /\ Rec(k)
  BY <1>3 DEF Rec, Fields
<1> HIDE DEF k
<1>5. n.hdr = k.hdr /\ n.seen = k.seen
  BY <1>1, <1>4 DEF Answer, Rec, Fields
<1>6. n.seen = m.seen \union {[hdr |-> n.hdr, intact |-> m.intact]}
  BY <1>3, <1>4, <1>5
<1> QED BY <1>6 DEF n

\* When the file at page is removed, wherever that is cut, the others stay.
LEMMA GuardRemoved ==
    ASSUME NEW C, NEW m, NEW page \in Pages, NEW gone \in SUBSET Holding(m, page), Good(m, gone), m.intact,
           m.hdr[page].kind = "file", LogAlive(m.hdr, page), NEW close \in BOOLEAN,
           close \/ Unused(m, page),
           Guarded(C, m), C \subseteq Others(m.hdr, page)
    PROVE  Guarded(C, remove_by_page(m, page, TRUE, close))
<1> DEFINE n == remove_by_page(m, page, TRUE, close)
           at == m.hdr[page].log_page
           k == Obsolete(m, at, FALSE)
           W == WithLog(m.hdr, page)
<1>1. Rec(m) /\ Strong(m, gone) /\ m.hdr \in Images /\ HDR_ACTIVE(m.hdr[page]) /\ Unshared(m.hdr)
  BY DEF Good, Strong, Typed, HDR_ACTIVE, Guarded, Safe
<1>2. ASSUME NEW i, Stays(m.hdr, i, W) PROVE Safe(C, i)
  BY <1>1, <1>2, OthersStay DEF Safe
<1>3. ASSUME NEW i, \A p \in Pages : IF p \in W THEN i[p] = m.hdr[p] \/ ~HDR_ACTIVE(i[p])
                                     ELSE i[p] = m.hdr[p]
      PROVE  Safe(C, i)
  BY <1>2, <1>3 DEF Stays
<1>4. CASE ~HDR_MODIFIED(m.hdr[page])
  <2>1. n = Obsolete(m, page, close)
    BY <1>1, <1>4 DEF remove_by_page
  <2> HIDE DEF n
  <2>2. Obsoleted(m, n, page)
    BY <1>1, <2>1, GoodObsolete
  <2>3. Safe(C, n.hdr)
    BY <1>3, <2>2 DEF Obsoleted, WithLog
  <2>4. n.seen = m.seen \union {[hdr |-> n.hdr, intact |-> m.intact]}
    BY <1>1, <2>1, ObsoleteSeen
  <2>5. Guarded(C, n)
    BY <2>3, <2>4 DEF Guarded
  <2> QED BY <2>5 DEF n
<1>5. CASE HDR_MODIFIED(m.hdr[page])
  <2>1. at \in Pages /\ m.hdr[at].kind = "log" /\ HDR_ACTIVE(m.hdr[at]) /\ at # page
    BY <1>1, <1>5, AliveLog
  <2>2. n = Obsolete(k, page, close)
    BY <1>1, <1>5, <2>1 DEF remove_by_page
  <2>3. W = {page, at}
    BY <1>5 DEF WithLog
  <2> HIDE DEF n, at
  <2>4. Unused(m, at)
    BY <1>1, <2>1, LogUnused
  <2> PICK no \in BOOLEAN : no = FALSE
    OBVIOUS
  <2>5. Good(k, gone \ Holding(m, at)) /\ Obsoleted(m, k, at)
    BY <2>1, <2>4, GoodObsolete
  <2>6. k.seen = m.seen \union {[hdr |-> k.hdr, intact |-> m.intact]}
    BY <1>1, ObsoleteSeen
  <2> HIDE DEF k
  <2>7. k.intact /\ \A fd \in FDs : k.fds[fd] = m.fds[fd]
    BY <2>4, <2>5 DEF Obsoleted, Unused
  <2>8. HDR_ACTIVE(k.hdr[page]) /\ Rec(k)
    BY <1>1, <2>1, <2>5 DEF Obsoleted, Good
  <2>9. close \/ Unused(k, page)
    <3> SUFFICES ASSUME ~close, NEW fd \in FDs, k.fds[fd] # NULL PROVE k.files[k.fds[fd]].page # page
      BY DEF Unused
    <3>1. m.fds[fd] # NULL /\ m.files[m.fds[fd]].page # page /\ m.files[m.fds[fd]].page # at
      BY <2>4, <2>7 DEF Unused
    <3>2. m.fds[fd] \in Slots
      BY <1>1, <3>1, FdFacts
    <3> QED BY <2>5, <2>7, <3>1, <3>2 DEF Obsoleted
  <2> DEFINE rest == gone \ Holding(m, at)
  <2>10. Obsoleted(k, n, page)
    <3>1. Good(k, rest)
      BY <2>5
    <3> HIDE DEF rest
    <3> QED BY <2>2, <2>7, <2>8, <2>9, <3>1, GoodObsolete
  <2>11. n.seen = k.seen \union {[hdr |-> n.hdr, intact |-> k.intact]}
    BY <2>2, <2>8, ObsoleteSeen
  <2>12. Safe(C, k.hdr)
    BY <1>3, <2>1, <2>3, <2>5 DEF Obsoleted
  <2>13. Safe(C, n.hdr)
    BY <1>3, <2>1, <2>3, <2>5, <2>10 DEF Obsoleted
  <2>14. Guarded(C, n)
    BY <2>6, <2>11, <2>12, <2>13 DEF Guarded
  <2> QED BY <2>14 DEF n
<1> QED BY <1>4, <1>5

LEMMA RemovedStays ==
    ASSUME NEW m, NEW n, NEW page, NEW close, Removed(m, n, page, close)
    PROVE  Stays(m.hdr, n.hdr, WithLog(m.hdr, page))
BY DEF Removed, Stays

LEMMA RemovedOnce ==
    ASSUME NEW m, Once(m), NEW n, NEW page, NEW close, Removed(m, n, page, close), Strong(m, {}), Strong(n, {})
    PROVE  Once(n)
<1>1. NoFile.page = INVALID_PAGE /\ INVALID_PAGE \notin Pages
  BY Constants DEF NoFile
<1>2. \A s \in Slots : n.files[s].page \in Pages => n.files[s].page = m.files[s].page
  BY <1>1 DEF Removed
<1>3. \A p \in Pages : n.hdr[p].kind = "file" => m.hdr[p].kind = "file" /\ n.hdr[p].name = m.hdr[p].name
  BY DEF Removed, HDR_ACTIVE
<1> QED BY <1>2, <1>3, OnceLess

\* cfs_remove, as to the files of other names.
LEMMA CalmRemove ==
    ASSUME NEW m, NEW name, NEW C, Calm(C, m), m.intact, C \subseteq Whole(m.hdr) \ {name}
    PROVE  Calm(C, RemoveFound(find_file(m, name)))
<1> DEFINE f == find_file(m, name)
           n == RemoveFound(f)
<1>1. /\ f.intact /\ f.hdr = m.hdr
      /\ f.ret = NULL \/ (/\ f.ret \in Slots /\ f.files[f.ret].page \in Pages
                          /\ IsNamed(f.hdr[f.files[f.ret].page], name))
  BY GoodFind DEF Calm
<1>2. Calm(C, f)
  BY CalmFind
<1> HIDE DEF f
<1>3. CASE f.ret = NULL
  <2>1. n = Answer(f, FAILURE)
    BY <1>3 DEF RemoveFound
  <2> HIDE DEF n
  <2> QED BY <1>2, <2>1, CalmAnswer DEF n, f
<1>4. CASE f.ret # NULL
  <2> PICK page : page = f.files[f.ret].page
    OBVIOUS
  <2> PICK yes \in BOOLEAN : yes = TRUE
    OBVIOUS
  <2> PICK gone \in SUBSET Holding(f, page) : gone = {}
    OBVIOUS
  <2>1. n = remove_by_page(f, page, TRUE, yes)
    BY <1>4 DEF RemoveFound
  <2> HIDE DEF n
  <2>2. page \in Pages /\ IsNamed(f.hdr[page], name)
    BY <1>1, <1>4
  <2>3. f.hdr[page].kind = "file" /\ f.hdr[page].name = name /\ HDR_ACTIVE(f.hdr[page])
    BY <2>2, NamedFile
  <2>4. Good(f, {}) /\ Guarded(C, f) /\ AllAlive(f.hdr) /\ Once(f) /\ Strong(f, {}) /\ f.hdr \in Images
        /\ Unshared(f.hdr)
    BY <1>1, <1>2 DEF Calm, Good, Strong, Typed, Guarded, Safe
  <2>5. LogAlive(f.hdr, page)
    BY <2>2, <2>3, <2>4 DEF AllAlive
  <2>6. C \subseteq Others(f.hdr, page)
    <3> SUFFICES ASSUME NEW x \in C PROVE x \in Others(f.hdr, page)
      OBVIOUS
    <3>1. x # name /\ x \in Whole(f.hdr)
      BY <1>1
    <3>2. PICK p \in Pages : f.hdr[p].kind = "file" /\ f.hdr[p].whole /\ LogAlive(f.hdr, p) /\ x = f.hdr[p].name
      BY <3>1 DEF Whole
    <3>3. p # page
      BY <2>3, <3>1, <3>2
    <3> QED BY <3>2, <3>3 DEF Others
  <2>7. Good(n, {}) /\ Removed(f, n, page, yes)
    BY <1>1, <2>1, <2>2, <2>3, <2>4, <2>5, GoodRemoved, Zenon
  <2>8. Guarded(C, n)
    BY <1>1, <2>1, <2>2, <2>3, <2>4, <2>5, <2>6, GuardRemoved, Zenon
  <2>9. AllAlive(n.hdr)
    <3>1. ~HDR_ACTIVE(n.hdr[page])
      BY <2>2, <2>7, Zenon DEF Removed, WithLog
    <3>2. Stays(f.hdr, n.hdr, WithLog(f.hdr, page))
      BY <2>7, RemovedStays
    <3> QED BY <2>2, <2>3, <2>4, <2>5, <3>1, <3>2, OthersStay, ZenonT(40)
  <2>10. n.intact => Once(n)
    BY <2>4, <2>7, RemovedOnce DEF Good
  <2> QED BY <2>7, <2>8, <2>9, <2>10 DEF Calm, n, f
<1> QED BY <1>3, <1>4

LEMMA CalmMissing ==
    ASSUME NEW C, NEW m, Calm(C, m), m.intact, NEW name \in Names
    PROVE  Calm(C, ReserveMissing(find_file(m, name), name))
<1> DEFINE f == find_file(m, name)
           h == NewFile(name, DynPages)
<1>1. Calm(C, f) /\ f.intact /\ (f.ret = NULL => \A s \in Slots : ~Holds(f, s, name))
  BY CalmFind
<1>2. h \in Asked /\ h.name = name
  BY NewFileAsked, Zenon DEF NewFile, Page
<1> HIDE DEF f, h
<1>3. ReserveMissing(f, name) = IF f.ret # NULL THEN Answer(f, FAILURE) ELSE reserve(f, h)
  BY DEF ReserveMissing, h
<1>4. Calm(C, Answer(f, FAILURE))
  BY <1>1, CalmAnswer
<1>5. f.ret = NULL => Calm(C, reserve(f, h))
  BY <1>1, <1>2, CalmReserve
<1> QED BY <1>3, <1>4, <1>5 DEF f

\* The file in slot has its log at page at now.
Pointed(m, n, page, at) ==
    /\ Rec(n) /\ n.intact = m.intact
    /\ \A p \in Pages : n.hdr[p] = IF p = page THEN [m.hdr[p] EXCEPT !.log_page = at] ELSE m.hdr[p]
    /\ n.seen = m.seen \union {[hdr |-> n.hdr, intact |-> m.intact]}
    /\ \A s \in Slots : n.files[s].page = m.files[s].page

LEMMA LinkFields ==
    ASSUME NEW m, Rec(m), NEW slot \in Slots, NEW page \in Pages, NEW at, m.hdr \in Images,
           m.files \in [Slots -> FileT],
           NEW n, n = LinkLog(m, slot, page, m.hdr[page], at)
    PROVE  Pointed(m, n, page, at)
<1> DEFINE h == [m.hdr[page] EXCEPT !.log_page = at]
           b == [m EXCEPT !.files[slot].modified = TRUE]
           image == [b.hdr EXCEPT ![page] = h]
           w == Flash(b, image)
<1>1. n = Answer(w, at)
  BY DEF LinkLog, write_header
<1> HIDE DEF h
<1>2. /\ Rec(b) /\ b.hdr = m.hdr /\ b.seen = m.seen /\ b.intact = m.intact
      /\ b.files = [m.files EXCEPT ![slot].modified = TRUE]
  BY DEF Rec, Fields
<1> HIDE DEF b
<1>3. \A s \in Slots : b.files[s].page = m.files[s].page
  <2> DEFINE file == [m.files[slot] EXCEPT !.modified = TRUE]
  <2>1. m.files[slot] \in FileT
    OBVIOUS
  <2>2. file.page = m.files[slot].page
    BY <2>1 DEF FileT
  <2>3. b.files = [m.files EXCEPT ![slot] = file]
    BY <1>2
  <2> HIDE DEF file
  <2>4. b.files[slot] = file /\ (\A s \in Slots : s # slot => b.files[s] = m.files[s])
    BY <2>3
  <2> QED BY <2>2, <2>4
<1> HIDE DEF image
<1>4. /\ Rec(w) /\ w.hdr = image /\ w.seen = b.seen \union {[hdr |-> image, intact |-> b.intact]}
      /\ w.files = b.files /\ w.intact = b.intact
  BY <1>2, FlashFields
<1> HIDE DEF w
<1>5. Rec(n) /\ n.hdr = w.hdr /\ n.seen = w.seen /\ n.files = w.files /\ n.intact = w.intact
  BY <1>1, <1>4 DEF Answer, Rec, Fields
<1>6. \A p \in Pages : n.hdr[p] = IF p = page THEN [m.hdr[p] EXCEPT !.log_page = at] ELSE m.hdr[p]
  <2>1. n.hdr = [m.hdr EXCEPT ![page] = h]
    BY <1>2, <1>4, <1>5 DEF image
  <2>2. \A p \in Pages : n.hdr[p] = IF p = page THEN h ELSE m.hdr[p]
    BY <2>1 DEF Images
  <2> QED BY <2>2 DEF h
<1>7. n.seen = m.seen \union {[hdr |-> n.hdr, intact |-> m.intact]}
  BY <1>2, <1>4, <1>5
<1>8. \A s \in Slots : n.files[s].page = m.files[s].page
  BY <1>3, <1>4, <1>5
<1>9. Rec(n) /\ n.intact = m.intact
  BY <1>2, <1>4, <1>5
<1> QED BY ONLY <1>6, <1>7, <1>8, <1>9 DEF Pointed

LEMMA CalmLog ==
    ASSUME NEW C, NEW m, Calm(C, m), m.intact, NEW fd \in FDs, m.fds[fd] # NULL,
           ~HDR_MODIFIED(m.hdr[m.files[m.fds[fd]].page])
    PROVE  Calm(C, create_log(m, m.fds[fd]))
<1> DEFINE slot == m.fds[fd]
           page == m.files[slot].page
           h == NewLog(m.hdr[page].name)
           r == reserve(m, h)
<1>0. /\ Good(m, {}) /\ Rec(m) /\ Strong(m, {}) /\ m.hdr \in Images /\ AllAlive(m.hdr)
      /\ Guarded(C, m) /\ Unshared(m.hdr)
  BY DEF Calm, Good, Strong, Typed, Guarded, Safe
<1>1. slot \in Slots /\ page \in Pages /\ m.hdr[page].kind = "file" /\ HDR_ACTIVE(m.hdr[page])
      /\ ~HDR_MODIFIED(m.hdr[page])
  BY <1>0, FdFacts, Zenon DEF CachedFile
<1>2. create_log(m, slot) = FinishLog(r, slot, page, m.hdr[page])
  BY DEF create_log
<1>3. h \in Asked /\ h.kind = "log" /\ h.name = m.hdr[page].name
  <2>1. m.hdr[page].name \in Names \union {NULL}
    BY <1>0, <1>1, Zenon DEF Images, HeaderT
  <2> QED BY <2>1, NewFileAsked, Zenon DEF NewLog, Page
<1> HIDE DEF h, slot, page
<1>4. /\ Good(r, {}) /\ (r.intact => Reserved(m, r, h)) /\ Calm(C, r) /\ Trail(m, r)
  BY <1>0, <1>3, GoodReserve, CalmReserve, TrailReserve
<1> HIDE DEF r
<1>5. CASE ~r.intact
  <2>1. Rec(r)
    BY <1>4 DEF Good
  <2>2. Later(r, FinishLog(r, slot, page, m.hdr[page]))
    BY <2>1, LaterAnswer, LaterLink DEF FinishLog
  <2> QED BY <1>2, <1>4, <1>5, <2>2, CalmOff DEF slot
<1>6. CASE r.intact /\ r.ret = NULL
  <2>1. FinishLog(r, slot, page, m.hdr[page]) = Answer(r, FAILURE)
    BY <1>6 DEF FinishLog
  <2> QED BY <1>2, <1>4, <2>1, CalmAnswer DEF slot
<1>7. CASE r.intact /\ r.ret # NULL
  <2> DEFINE at == r.files[r.ret].page
             n == LinkLog(r, slot, page, r.hdr[page], at)
  <2>1. /\ r.fds = m.fds /\ r.files[slot].page = page /\ r.hdr[page] = m.hdr[page]
        /\ at \in Pages /\ ~HDR_ACTIVE(m.hdr[at]) /\ r.hdr[at] = h
        /\ \A p \in Pages : HDR_ACTIVE(m.hdr[p]) => r.hdr[p] = m.hdr[p]
    BY <1>1, <1>4, <1>7, Zenon DEF Reserved, Kept, slot, page
  <2>2. create_log(m, slot) = n
    BY <1>2, <1>7, <2>1 DEF FinishLog
  <2>3. /\ Rec(r) /\ Strong(r, {}) /\ r.hdr \in Images /\ r.files \in [Slots -> FileT] /\ Once(r)
        /\ Guarded(C, r) /\ AllAlive(r.hdr) /\ Unshared(r.hdr) /\ Safe(C, r.hdr)
    BY <1>4, <1>7 DEF Calm, Good, Strong, Typed, Guarded, Safe
  <2> HIDE DEF at
  <2>4. Good(n, {})
    <3> PICK slot1 \in Slots : slot1 = slot
      BY <1>1
    <3> PICK page1 \in Pages : page1 = page
      BY <1>1
    <3> PICK at1 \in Pages : at1 = at
      BY <2>1
    <3>1. n = LinkLog(r, slot1, page1, r.hdr[page1], at1)
      OBVIOUS
    <3> HIDE DEF n
    <3>2. Good(r, {}) /\ r.intact /\ r.files[slot1].page = page1
      BY <1>4, <1>7, <2>1
    <3> QED BY ONLY <3>1, <3>2, GoodLink, slot1 \in Slots, page1 \in Pages, at1 \in Pages
  <2>5. /\ Rec(n) /\ n.intact = r.intact
        /\ \A p \in Pages : n.hdr[p] = IF p = page THEN [r.hdr[p] EXCEPT !.log_page = at] ELSE r.hdr[p]
        /\ n.seen = r.seen \union {[hdr |-> n.hdr, intact |-> r.intact]}
        /\ \A s \in Slots : n.files[s].page = r.files[s].page
    <3> PICK slot1 \in Slots : slot1 = slot
      BY <1>1
    <3> PICK page1 \in Pages : page1 = page
      BY <1>1
    <3>1. n = LinkLog(r, slot1, page1, r.hdr[page1], at)
      OBVIOUS
    <3> HIDE DEF n
    <3>2. Rec(r) /\ r.hdr \in Images /\ r.files \in [Slots -> FileT]
      BY <2>3
    <3> PICK m1 : m1 = r
      OBVIOUS
    <3> PICK n1 : n1 = n
      OBVIOUS
    <3> PICK at1 : at1 = at
      OBVIOUS
    <3>3. /\ Rec(m1) /\ m1.hdr \in Images /\ m1.files \in [Slots -> FileT]
          /\ n1 = LinkLog(m1, slot1, page1, m1.hdr[page1], at1)
      BY <3>1, <3>2
    <3>4. Pointed(m1, n1, page1, at1)
      BY ONLY <3>3, LinkFields, slot1 \in Slots, page1 \in Pages
    <3>5. Pointed(r, n, page, at)
      BY <3>4
    <3> QED BY <3>5 DEF Pointed
  <2> HIDE DEF n
  <2>6. \A p \in Pages : n.hdr[p] = IF p = page THEN [r.hdr[p] EXCEPT !.log_page = at] ELSE r.hdr[p]
    BY <2>5
  <2>7. ASSUME NEW q \in Pages, HDR_ACTIVE(r.hdr[q]) PROVE r.hdr[q].log_page # at
    <3> SUFFICES ASSUME r.hdr[q].log_page = at PROVE FALSE
      OBVIOUS
    <3>1. HDR_MODIFIED(r.hdr[q])
      BY <2>1, Constants DEF HDR_MODIFIED
    <3>2. r.hdr[q] = m.hdr[q]
      BY <1>4, <1>7, <2>7, <3>1 DEF Trail, Stays
    <3>3. HDR_ACTIVE(m.hdr[at])
      BY <1>0, <2>7, <3>1, <3>2, AliveLog DEF AllAlive
    <3> QED BY <2>1, <3>3
  <2>8. r.hdr[at].kind = "log" /\ r.hdr[at].name = r.hdr[page].name /\ r.hdr[page].kind = "file"
        /\ ~HDR_MODIFIED(r.hdr[page])
    BY <1>1, <1>3, <2>1
  <2>9. Whole(r.hdr) \subseteq Whole(n.hdr) /\ Unshared(n.hdr) /\ AllAlive(n.hdr)
    <3> PICK i \in Images : i = r.hdr
      BY <2>3
    <3> PICK j : j = n.hdr
      OBVIOUS
    <3> PICK page1 \in Pages : page1 = page
      BY <1>1
    <3> PICK at1 \in Pages : at1 = at
      BY <2>1
    <3>1. Unshared(i) /\ AllAlive(i) /\ i[page1].kind = "file" /\ ~HDR_MODIFIED(i[page1])
          /\ i[at1].kind = "log" /\ i[at1].name = i[page1].name
      BY <2>3, <2>8
    <3>2. \A q \in Pages : HDR_ACTIVE(i[q]) => i[q].log_page # at1
      BY <2>7
    <3>3. \A p \in Pages : j[p] = IF p = page1 THEN [i[p] EXCEPT !.log_page = at1] ELSE i[p]
      BY <2>6
    <3>4. Whole(i) \subseteq Whole(j) /\ Unshared(j) /\ AllAlive(j)
      BY ONLY <3>1, <3>2, <3>3, LinkStays, i \in Images, page1 \in Pages, at1 \in Pages
    <3> QED BY <3>4
  <2>10. Safe(C, n.hdr)
    BY <2>3, <2>9 DEF Safe
  <2>11. Guarded(C, n)
    BY <1>7, <2>3, <2>5, <2>10 DEF Guarded
  <2>12. Once(n)
    <3>1. r.hdr[page] \in HeaderT
      BY <1>1, <2>3 DEF Images
    <3>2. n.hdr[page].name = r.hdr[page].name
      BY <1>1, <2>6, <3>1 DEF HeaderT
    <3>3. \A p \in Pages : n.hdr[p].kind = "file" => r.hdr[p].kind = "file" /\ n.hdr[p].name = r.hdr[p].name
      BY <2>6, <2>8, <3>2
    <3>4. n.intact
      BY <1>7, <2>5
    <3>5. Strong(r, {}) /\ Once(r) /\ Strong(n, {})
      BY <2>3, <2>4, <3>4 DEF Good
    <3>6. \A s \in Slots : n.files[s].page = r.files[s].page
      BY <2>5
    <3> QED BY ONLY <3>3, <3>5, <3>6, OnceLess
  <2>13. Calm(C, n)
    BY <2>4, <2>9, <2>11, <2>12 DEF Calm
  <2> QED BY <2>2, <2>13 DEF slot
<1>8. r.intact \in BOOLEAN
  BY <1>4 DEF Good, Rec
<1> QED BY <1>5, <1>6, <1>7, <1>8

-----------------------------------------------------------------------------
(* A merge copies before it removes *)

\* When all that the file at page holds is at page at too, no file depends on page.
LEMMA CopyKeeps ==
    ASSUME NEW i \in Images, NEW page \in Pages, i[page].kind = "file",
           NEW j \in Images, Stays(i, j, {}), NEW at \in Pages, ~HDR_ACTIVE(i[at]), j[at].kind = "file",
           j[at].name = i[page].name, ~HDR_MODIFIED(j[at]),
           NEW c, \A p \in Pages \ {at} : c[p] = j[p], c[at] = [j[at] EXCEPT !.whole = i[page].whole]
    PROVE  Stays(i, c, {}) /\ Whole(i) \subseteq Others(c, page)
<1>1. /\ c[at].kind = "file" /\ c[at].name = i[page].name /\ c[at].whole = i[page].whole
      /\ ~HDR_MODIFIED(c[at])
  <2>1. j[at] \in HeaderT
    BY DEF Images
  <2> QED BY <2>1 DEF HeaderT, HDR_MODIFIED
<1>2. at # page
  BY DEF HDR_ACTIVE
<1>3. Stays(i, c, {})
  BY <1>1 DEF Stays
<1>4. Whole(i) \subseteq Others(c, page)
  <2> SUFFICES ASSUME NEW p \in Pages, i[p].kind = "file", i[p].whole, LogAlive(i, p)
               PROVE  i[p].name \in Others(c, page)
    BY DEF Whole
  <2>1. CASE p = page
    <3>1. LogAlive(c, at)
      BY <1>1 DEF LogAlive
    <3> QED BY <1>1, <1>2, <2>1, <3>1 DEF Others
  <2>2. CASE p # page
    <3>1. c[p] = i[p] /\ LogAlive(c, p)
      BY <1>3, AliveStays DEF HDR_ACTIVE
    <3> QED BY <2>2, <3>1 DEF Others
  <2> QED BY <2>1, <2>2
<1> QED BY <1>3, <1>4

\* The copy is marked whole, descriptors move, and the old extent and its log go.
LEMMA GuardReplaced ==
    ASSUME NEW m, Good(m, {}), m.intact, NEW page \in Pages, m.hdr[page].kind = "file",
           LogAlive(m.hdr, page), NEW fd \in FDs, m.fds[fd] # NULL, m.ret \in Slots,
           NEW at \in Pages, m.files[m.ret].page = at, m.hdr[at].kind = "file", at # page,
           NEW whole \in BOOLEAN, NEW C, Guarded(C, m),
           \A i : (/\ i[at] = [m.hdr[at] EXCEPT !.whole = whole]
                   /\ \A p \in Pages \ {at} : i[p] = m.hdr[p])
                      => Safe(C, i) /\ C \subseteq Others(i, page)
    PROVE  Guarded(C, Replace(m, fd, page, at, whole))
<1> DEFINE c == write_header(m, [m.hdr[at] EXCEPT !.whole = whole], at)
           k == Redirect(c, page, m.ret)
           r == remove_by_page(k, page, TRUE, FALSE)
           n == Close(r, fd)
<1>0. Rec(m) /\ Strong(m, {}) /\ m.hdr \in Images
  BY DEF Good, Strong, Typed
<1>1. c.hdr[at] = [m.hdr[at] EXCEPT !.whole = whole]
  BY GoodWhole DEF HDR_ACTIVE
<1>2. /\ Good(c, {}) /\ c.intact /\ c.hdr[at].kind = "file"
      /\ \A p \in Pages \ {at} : c.hdr[p] = m.hdr[p]
      /\ c.fds = m.fds /\ c.files = m.files
  BY GoodWhole DEF HDR_ACTIVE
<1>3. Safe(C, c.hdr) /\ C \subseteq Others(c.hdr, page)
  BY <1>1, <1>2
<1>4. Replace(m, fd, page, at, whole) = FinishMerge(r, fd, at)
  BY DEF Replace
<1>5. Guarded(C, c)
  <2> DEFINE image == [m.hdr EXCEPT ![at] = [m.hdr[at] EXCEPT !.whole = whole]]
  <2>1. c = Flash(m, image)
    BY DEF write_header
  <2> HIDE DEF image, c
  <2>2. c.hdr = image
    BY <1>0, <2>1, FlashFields
  <2> QED BY <1>0, <1>3, <2>1, <2>2, GuardFlash
<1> HIDE DEF c
<1>6. /\ Good(k, Holding(c, page)) /\ k.intact /\ k.hdr = c.hdr
      /\ \A s \in Slots : k.files[s].page = c.files[s].page
      /\ Unused(k, page)
  BY <1>2, GoodRedirect
<1>7. Guarded(C, k)
  BY <1>2, <1>5, RedirectUnwritten, GuardUnwritten DEF Good
<1> HIDE DEF k
<1>8. Holding(c, page) \in SUBSET Holding(k, page)
  BY <1>6 DEF Holding
<1>9. k.hdr[page] = m.hdr[page] /\ k.hdr[page].kind = "file"
  BY <1>2, <1>6
<1>10. LogAlive(k.hdr, page)
  <2> SUFFICES ASSUME HDR_MODIFIED(m.hdr[page])
               PROVE  k.hdr[m.hdr[page].log_page] = m.hdr[m.hdr[page].log_page]
    BY <1>9 DEF LogAlive
  <2>1. m.hdr[page].log_page \in Pages
    BY <1>0 DEF HDR_MODIFIED, Images, HeaderT
  <2>2. m.hdr[page].log_page # at
    BY DEF LogAlive
  <2> QED BY <1>2, <1>6, <2>1, <2>2
<1>11. Guarded(C, r) /\ Rec(r) /\ r.ret = 0
  <2> PICK no \in BOOLEAN : no = FALSE
    OBVIOUS
  <2>1. r = remove_by_page(k, page, TRUE, no)
    OBVIOUS
  <2>2. no \/ Unused(k, page)
    BY <1>6
  <2> HIDE DEF r
  <2> PICK gone \in SUBSET Holding(k, page) : Good(k, gone)
    BY <1>6, <1>8
  <2>3. k.intact /\ C \subseteq Others(k.hdr, page)
    BY <1>3, <1>6
  <2>4. Good(r, {}) /\ Removed(k, r, page, no)
    BY <1>9, <1>10, <2>1, <2>2, <2>3, GoodRemoved
  <2>5. Guarded(C, r)
    BY <1>7, <1>9, <1>10, <2>1, <2>2, <2>3, GuardRemoved
  <2> QED BY <2>4, <2>5 DEF Removed, Good
<1> HIDE DEF r
<1>12. FinishMerge(r, fd, at) = n
  BY <1>11, Constants DEF FinishMerge
<1>13. Guarded(C, n)
  BY <1>11, CloseUnwritten, GuardUnwritten
<1> HIDE DEF n
<1> QED BY <1>4, <1>12, <1>13

\* The slot of the copy holds the name now, and the slot of what it replaces is free.
LEMMA OnceMoved ==
    ASSUME NEW o, Strong(o, {}), Once(o), NEW name, NEW t \in Slots, Holds(o, t, name),
           NEW k, Strong(k, {}), Kept(o, k), k.ret \in Slots,
           \A s \in Slots : s # k.ret => k.files[s] = o.files[s],
           NEW page \in Pages, k.files[t].page = page, NEW at \in Pages, k.files[k.ret].page = at,
           at # page, k.hdr[at].name = name,
           NEW n, Strong(n, {}), NEW fd, NEW whole, Replaced(k, n, fd, page, at, whole)
    PROVE  Once(n)
<1>1. n.hdr[at].name = name
  <2>1. k.hdr[at] \in HeaderT /\ n.hdr[at] = [k.hdr[at] EXCEPT !.whole = whole]
    BY DEF Strong, Typed, Images, Replaced
  <2> QED BY <2>1 DEF HeaderT
<1>2. INVALID_PAGE \notin Pages
  BY Constants
<1>3. ASSUME NEW s \in Slots, NEW x, Holds(n, s, x)
      PROVE  n.files[s].page \in Pages /\ n.hdr[n.files[s].page].kind = "file"
             /\ n.hdr[n.files[s].page].name = x /\ n.files[s].page = k.files[s].page
  <2>1. n.files[s].page \in Pages /\ n.hdr[n.files[s].page].kind = "file"
        /\ n.hdr[n.files[s].page].name = x
    BY <1>3, HoldsFacts
  <2> QED BY <1>2, <2>1 DEF Replaced
<1>4. ASSUME NEW x, Holds(n, k.ret, x) PROVE x = name
  BY <1>1, <1>3, <1>4
<1>5. ASSUME NEW s \in Slots, s # k.ret, NEW x, Holds(n, s, x) PROVE Holds(o, s, x) /\ s # t
  <2> DEFINE p == k.files[s].page
  <2>1. p \in Pages /\ n.files[s].page = p /\ n.hdr[p].kind = "file" /\ n.hdr[p].name = x
    BY <1>3, <1>5
  <2>2. s # t
    BY <1>2, <2>1 DEF Replaced, WithLog
  <2>3. ~FILE_FREE(k.files[s]) /\ ~FILE_FREE(k.files[k.ret])
    BY <1>2, <2>1, SlotFacts
  <2>4. p # at
    BY <1>5, <2>3, SlotFacts DEF CachedFile
  <2>5. o.files[s] = k.files[s]
    BY <1>5
  <2>6. HDR_ACTIVE(o.hdr[p])
    BY <2>3, <2>5, SlotFacts DEF CachedFile
  <2>7. n.hdr[p] = k.hdr[p] /\ k.hdr[p] = o.hdr[p]
    <3>1. HDR_ACTIVE(n.hdr[p])
      BY <2>1 DEF HDR_ACTIVE
    <3> QED BY <2>1, <2>4, <2>6, <3>1 DEF Replaced, Kept
  <2> QED BY <2>1, <2>2, <2>3, <2>5, <2>7 DEF Holds, IsNamed
<1> SUFFICES ASSUME NEW s \in Slots, NEW u \in Slots, NEW x, Holds(n, s, x), Holds(n, u, x)
             PROVE  s = u
  BY DEF Once
<1>6. ASSUME NEW v \in Slots, v # k.ret PROVE ~Holds(n, v, name)
  BY <1>5, <1>6 DEF Once
<1>7. CASE s # k.ret /\ u # k.ret
  BY <1>5, <1>7 DEF Once
<1>8. CASE s = k.ret \/ u = k.ret
  BY <1>4, <1>6, <1>8
<1> QED BY <1>7, <1>8

\* The copying, from the answer of Open on.
LEMMA CalmCopied ==
    ASSUME NEW C, NEW o, Calm(C, o), o.intact, NEW page \in Pages, o.hdr[page].kind = "file",
           NEW fd \in FDs, o.fds[fd] # NULL, o.files[o.fds[fd]].page = page, NEW extend
    PROVE  LET h == o.hdr[page]
               new == [NewFile(h.name, Extended(h.max_pages, extend)) EXCEPT !.whole = FALSE]
           IN  Calm(C, CopyTo(reserve(o, new), fd, page, h.whole))
<1> DEFINE h == o.hdr[page]
           new == [NewFile(h.name, Extended(h.max_pages, extend)) EXCEPT !.whole = FALSE]
           k == reserve(o, new)
           n == CopyTo(k, fd, page, h.whole)
<1>0. /\ Good(o, {}) /\ Strong(o, {}) /\ Once(o) /\ AllAlive(o.hdr) /\ Guarded(C, o) /\ Rec(o)
      /\ o.hdr \in Images /\ Safe(C, o.hdr) /\ h \in HeaderT /\ HDR_ACTIVE(h)
  BY DEF Calm, Good, Strong, Typed, Guarded, Images, HDR_ACTIVE
<1>1. new \in Asked /\ new.kind = "file" /\ new.name = h.name /\ ~HDR_MODIFIED(new)
  <2>1. h.name \in Names \union {NULL} /\ h.max_pages \in Nat /\ h.max_pages >= 1
    BY <1>0 DEF HeaderT
  <2>2. Extended(h.max_pages, extend) \in Nat \ {0}
    BY <2>1 DEF Extended
  <2> QED BY <2>1, <2>2 DEF NewFile, Page, Asked, HDR_MODIFIED
<1>2. h.whole \in BOOLEAN
  BY <1>0 DEF HeaderT
<1>3. LogAlive(o.hdr, page)
  BY <1>0 DEF AllAlive
<1> DEFINE t == o.fds[fd]
<1>4. t \in Slots /\ Holds(o, t, h.name)
  BY <1>0, FdFacts DEF Holds, IsNamed
<1> HIDE DEF new, h
<1>5. Good(k, {}) /\ (k.intact => Reserved(o, k, new)) /\ Trail(o, k)
  BY <1>0, <1>1, GoodReserve, TrailReserve
<1> HIDE DEF k
<1>6. Guarded(C, k) /\ (k.intact => AllAlive(k.hdr))
  BY <1>0, <1>5, GuardTrail
<1>7. CASE ~k.intact
  <2>1. Later(k, n)
    BY <1>5, LaterCopy DEF Good
  <2> HIDE DEF n
  <2>2. Good(n, {}) /\ Guarded(C, n) /\ ~n.intact
    BY <1>5, <1>6, <1>7, <2>1, GoodOff, GuardOff
  <2> QED BY <2>2 DEF Calm, n, k, new, h
<1>8. CASE k.intact /\ k.ret = NULL
  <2> DEFINE c == Close(k, fd)
  <2>1. n = Answer(c, FAILURE)
    BY <1>8 DEF CopyTo
  <2>2. Once(k)
    <3>1. \A p \in Pages : HDR_ACTIVE(o.hdr[p]) => k.hdr[p] = o.hdr[p]
      BY <1>5, <1>8 DEF Reserved, Kept
    <3>2. \A s \in Slots : s # k.ret => k.files[s] = o.files[s]
      BY <1>5, <1>8 DEF Reserved
    <3>3. k.ret \notin Slots
      BY <1>8, Constants
    <3> QED BY <1>0, <3>1, <3>2, <3>3, OnceMore
  <2>3. Calm(C, k) /\ k.fds[fd] # NULL
    BY <1>5, <1>6, <1>8, <2>2 DEF Calm, Reserved
  <2>4. Calm(C, c)
    BY <1>8, <2>3, CalmClose
  <2> HIDE DEF c, n
  <2>5. Calm(C, n)
    BY <2>1, <2>4, CalmAnswer
  <2> QED BY <2>5 DEF n, k, new, h
<1>9. CASE k.intact /\ k.ret # NULL
  <2> DEFINE at == k.files[k.ret].page
  <2>1. /\ k.ret \in Slots /\ at \in Pages /\ ~HDR_ACTIVE(o.hdr[at]) /\ k.hdr[at] = new
        /\ Kept(o, k) /\ k.fds = o.fds
        /\ \A s \in Slots : s # k.ret => k.files[s] = o.files[s]
    BY <1>5, <1>9 DEF Reserved
  <2>2. n = Replace(k, fd, page, at, h.whole)
    BY <1>9 DEF CopyTo
  <2>3. Strong(k, {}) /\ k.hdr \in Images /\ Stays(o.hdr, k.hdr, {})
    BY <1>5, <1>9 DEF Good, Strong, Typed, Trail
  <2>4. k.hdr[page] = h /\ at # page
    BY <1>0, <2>1 DEF Kept, h
  <2>5. LogAlive(k.hdr, page) /\ k.hdr[page].kind = "file"
    BY <1>6, <1>9, <2>4, <1>0 DEF AllAlive, h
  <2>6. k.fds[fd] # NULL /\ k.files[t].page = page
    BY <2>1 DEF Kept
  <2> HIDE DEF at, n
  <2>7. k.files[k.ret].page = at /\ k.hdr[at].kind = "file" /\ k.hdr[at].name = h.name
        /\ ~HDR_MODIFIED(k.hdr[at])
    BY <1>1, <2>1 DEF at
  <2>8. ASSUME NEW i, i[at] = [k.hdr[at] EXCEPT !.whole = h.whole],
               \A p \in Pages \ {at} : i[p] = k.hdr[p]
        PROVE  Safe(C, i) /\ C \subseteq Others(i, page) /\ Stays(o.hdr, i, {})
    <3>1. Stays(o.hdr, i, {}) /\ Whole(o.hdr) \subseteq Others(i, page)
      <4> PICK j \in Images : j = k.hdr
        BY <2>3
      <4> PICK x \in Images : x = o.hdr
        BY <1>0
      <4>1. /\ Stays(x, j, {}) /\ ~HDR_ACTIVE(x[at]) /\ j[at].kind = "file" /\ x[page].kind = "file"
            /\ j[at].name = x[page].name /\ ~HDR_MODIFIED(j[at]) /\ at \in Pages
        BY <2>1, <2>3, <2>7 DEF h
      <4>2. i[at] = [j[at] EXCEPT !.whole = x[page].whole]
        BY <2>8 DEF h
      <4>3. \A p \in Pages \ {at} : i[p] = j[p]
        BY <2>8
      <4>4. Stays(x, i, {}) /\ Whole(x) \subseteq Others(i, page)
        BY ONLY <4>1, <4>2, <4>3, CopyKeeps, x \in Images, j \in Images, page \in Pages
      <4> QED BY <4>4
    <3>2. Whole(o.hdr) \subseteq Whole(i) /\ Unshared(i)
      BY <1>0, <3>1, StaysWhole, StaysUnshared DEF Safe
    <3> QED BY <1>0, <3>1, <3>2 DEF Safe
  <2>9. Good(n, {}) /\ Replaced(k, n, fd, page, at, h.whole)
    BY <1>2, <1>5, <1>9, <2>1, <2>2, <2>4, <2>5, <2>6, <2>7, GoodReplaced
  <2>10. Guarded(C, n)
    <3> PICK whole \in BOOLEAN : whole = h.whole
      BY <1>2
    <3>1. \A i : (i[at] = [k.hdr[at] EXCEPT !.whole = whole] /\ \A p \in Pages \ {at} : i[p] = k.hdr[p])
                     => Safe(C, i) /\ C \subseteq Others(i, page)
      BY <2>8
    <3>2. n = Replace(k, fd, page, at, whole)
      BY <2>2
    <3>3. at \in Pages /\ k.ret \in Slots
      BY <2>1
    <3> QED BY <1>5, <1>6, <1>9, <2>4, <2>5, <2>6, <2>7, <3>1, <3>2, <3>3, GuardReplaced
  <2>11. Strong(n, {}) /\ n.intact
    BY <2>9 DEF Good, Replaced
  <2>12. Once(n)
    <3> PICK name : name = h.name
      OBVIOUS
    <3> PICK at1 \in Pages : at1 = at
      BY <2>1
    <3> PICK slot \in Slots : slot = t
      BY <1>4
    <3>1. k.ret \in Slots
      BY <2>1
    <3>2. Holds(o, slot, name) /\ k.hdr[at1].name = name /\ k.files[k.ret].page = at1
          /\ k.files[slot].page = page /\ at1 # page /\ Replaced(k, n, fd, page, at1, h.whole)
      BY <1>4, <2>4, <2>6, <2>7, <2>9
    <3>3. Strong(o, {}) /\ Once(o) /\ Strong(k, {}) /\ Kept(o, k) /\ Strong(n, {})
      BY <1>0, <2>1, <2>3, <2>11
    <3>4. \A s \in Slots : s # k.ret => k.files[s] = o.files[s]
      BY <2>1
    <3> PICK whole : whole = h.whole
      OBVIOUS
    <3>5. Replaced(k, n, fd, page, at1, whole)
      BY <3>2
    <3> QED BY ONLY <3>1, <3>2, <3>3, <3>4, <3>5, OnceMoved, slot \in Slots, at1 \in Pages,
              page \in Pages, ZenonT(40)
  <2>13. AllAlive(n.hdr)
    <3> DEFINE i == [k.hdr EXCEPT ![at] = [k.hdr[at] EXCEPT !.whole = h.whole]]
    <3>1. i[at] = [k.hdr[at] EXCEPT !.whole = h.whole] /\ \A p \in Pages \ {at} : i[p] = k.hdr[p]
      BY <2>1, <2>3 DEF Images
    <3>2. i \in Images
      BY <1>2, <2>1, <2>3 DEF Images, HeaderT
    <3> HIDE DEF i
    <3>3. Safe(C, i) /\ Stays(o.hdr, i, {})
      BY <2>8, <3>1
    <3>4. AllAlive(i) /\ Unshared(i)
      BY <1>0, <3>3, StaysWhole DEF Safe
    <3>5. i[page] = k.hdr[page]
      BY <2>4, <3>1
    <3>6. LogAlive(i, page) /\ i[page].kind = "file" /\ WithLog(i, page) = WithLog(k.hdr, page)
      BY <2>5, <3>4, <3>5 DEF AllAlive, HDR_ACTIVE, WithLog
    <3>7. Stays(i, n.hdr, WithLog(i, page)) /\ ~HDR_ACTIVE(n.hdr[page])
      <4>1. \A p \in Pages : IF p \in WithLog(i, page) THEN n.hdr[p] = i[p] \/ ~HDR_ACTIVE(n.hdr[p])
                             ELSE n.hdr[p] = i[p]
        BY <2>9, <3>1, <3>6 DEF Replaced
      <4>2. ~HDR_ACTIVE(n.hdr[page])
        BY <2>4, <2>9 DEF Replaced, WithLog
      <4> QED BY <4>1, <4>2 DEF Stays
    <3> QED BY <3>2, <3>4, <3>6, <3>7, OthersStay
  <2>14. Calm(C, n)
    BY <2>9, <2>10, <2>12, <2>13 DEF Calm
  <2> QED BY <2>14 DEF n, k, new, h
<1>10. k.intact \in BOOLEAN
  BY <1>5 DEF Good, Rec
<1> QED BY <1>7, <1>8, <1>9, <1>10

LEMMA CalmMerge ==
    ASSUME NEW C, NEW m, Calm(C, m), m.intact, NEW fd \in FDs, m.fds[fd] # NULL, NEW extend
    PROVE  LET n == merge_log(m, m.files[m.fds[fd]].page, extend)
           IN  Calm(C, n) /\ (n.intact => n.fds[fd] # NULL)
<1> DEFINE slot == m.fds[fd]
           page == m.files[slot].page
           h == m.hdr[page]
           o == Open(m, h.name, FALSE)
           new == [NewFile(o.hdr[page].name, Extended(o.hdr[page].max_pages, extend)) EXCEPT !.whole = FALSE]
           from == o.files[o.fds[o.ret]].page
           k == CopyTo(reserve(o, new), o.ret, page, o.hdr[from].whole)
           n == merge_log(m, page, extend)
<1>0. /\ Good(m, {}) /\ Strong(m, {}) /\ m.hdr \in Images /\ AllAlive(m.hdr) /\ Rec(m)
  BY DEF Calm, Good, Strong, Typed
<1>1. /\ slot \in Slots /\ page \in Pages /\ h.kind = "file" /\ LogAlive(m.hdr, page) /\ h \in HeaderT
      /\ ~FILE_FREE(m.files[slot])
  <2>1. slot \in Slots /\ page \in Pages /\ h.kind = "file" /\ ~FILE_FREE(m.files[slot])
    BY <1>0, FdFacts
  <2> QED BY <1>0, <2>1 DEF AllAlive, HDR_ACTIVE, Images
<1>2. n = IF o.ret = FAILURE THEN o ELSE k
  BY DEF merge_log, MergeOpened
<1> HIDE DEF slot, page, h
<1>3. Good(n, {}) /\ (n.intact => n.fds[fd] # NULL)
  BY <1>0, <1>1, GoodMerge DEF h, Keeping
<1> HIDE DEF n
<1>4. /\ Calm(C, o)
      /\ o.intact /\ o.ret # FAILURE => Kept(m, o) /\ o.ret \in FDs /\ o.fds[o.ret] # NULL
      /\ o.intact => Opened(m, o, h.name, FALSE)
  <2>1. h.name \in Names \union {NULL}
    BY <1>1 DEF HeaderT
  <2> PICK no \in BOOLEAN : no = FALSE
    OBVIOUS
  <2>2. o = Open(m, h.name, no)
    OBVIOUS
  <2> HIDE DEF o
  <2>3. Calm(C, o)
    BY <2>1, <2>2, CalmOpen
  <2> QED BY <1>0, <2>1, <2>2, <2>3, GoodOpen
<1> HIDE DEF o
<1>5. CASE o.ret = FAILURE
  BY <1>2, <1>3, <1>4, <1>5 DEF n, page, slot
<1>6. CASE o.ret # FAILURE /\ ~o.intact
  <2> DEFINE r == reserve(o, new)
  <2>1. Later(o, r) /\ Rec(r)
    BY <1>4, LaterReserve, LaterRec DEF Calm, Good
  <2> HIDE DEF r
  <2>2. Later(o, k)
    BY <2>1, LaterCopy, LaterTwice DEF r
  <2>3. Calm(C, n)
    <3> HIDE DEF k
    <3> QED BY <1>2, <1>4, <1>6, <2>2, CalmOff
  <2> QED BY <1>3, <2>3 DEF n, page, slot
<1>7. CASE o.ret # FAILURE /\ o.intact
  <2>1. Kept(m, o) /\ o.ret \in FDs /\ o.fds[o.ret] # NULL /\ o.hdr = m.hdr
    BY <1>4, <1>7 DEF Opened
  <2>2. Good(o, {}) /\ Strong(o, {}) /\ Once(o)
    BY <1>4, <1>7 DEF Calm, Good
  <2>3. o.fds[o.ret] \in Slots /\ ~FILE_FREE(o.files[o.fds[o.ret]]) /\ IsNamed(o.hdr[from], h.name)
    BY <1>4, <1>7, <2>1, <2>2, FdFacts DEF Opened
  <2>4. o.fds[fd] = slot /\ o.files[slot].page = page
    BY <2>1 DEF Kept, slot, page
  <2>5. o.fds[fd] # NULL
    BY <2>4 DEF slot
  <2>6. ~FILE_FREE(o.files[slot])
    BY <2>2, <2>4, <2>5, FdFacts
  <2>7. Holds(o, slot, h.name)
    BY <1>1, <2>1, <2>4, <2>6 DEF Holds, IsNamed, h
  <2>8. Holds(o, o.fds[o.ret], h.name)
    BY <2>3 DEF Holds
  <2>9. o.fds[o.ret] = slot
    BY <1>1, <2>2, <2>3, <2>7, <2>8 DEF Once
  <2>10. from = page
    BY <2>4, <2>9
  <2>11. k = CopyTo(reserve(o, new), o.ret, page, o.hdr[page].whole)
    BY <2>10
  <2>12. o.hdr[page].kind = "file" /\ o.files[o.fds[o.ret]].page = page
    BY <1>1, <2>1, <2>10 DEF h
  <2> HIDE DEF k, from
  <2> PICK d \in FDs : d = o.ret
    BY <2>1
  <2>13. Calm(C, k)
    BY <1>1, <1>4, <1>7, <2>1, <2>11, <2>12, CalmCopied
  <2>14. Calm(C, n)
    BY <1>2, <1>7, <2>13
  <2> QED BY <1>3, <2>14 DEF n, page, slot
<1>8. o.intact \in BOOLEAN
  BY <1>4 DEF Calm, Good, Rec
<1> QED BY <1>5, <1>6, <1>7, <1>8

-----------------------------------------------------------------------------
(* Writes lose no file *)

LEMMA CalmLogPage ==
    ASSUME NEW C, NEW m, Calm(C, m), m.intact, NEW fd \in FDs, m.fds[fd] # NULL, NEW full \in BOOLEAN
    PROVE  LET n == write_log_page(m, m.fds[fd], full)
           IN  Calm(C, n) /\ (n.intact /\ n.ret = 0 => n.fds[fd] # NULL)
<1> DEFINE slot == m.fds[fd]
           page == m.files[slot].page
           n == write_log_page(m, slot, full)
<1>1. CASE ~HDR_MODIFIED(m.hdr[page])
  <2> DEFINE k == create_log(m, slot)
  <2>1. n = OneRecord(k)
    BY <1>1 DEF write_log_page
  <2>2. Calm(C, k)
    BY <1>1, CalmLog
  <2> HIDE DEF k, n
  <2>3. n.ret # 0
    BY <2>1, <2>2, GoodOneRecord DEF Calm
  <2>4. Calm(C, n)
    BY <2>1, <2>2, CalmAnswer DEF OneRecord
  <2> QED BY <2>3, <2>4 DEF n
<1>2. CASE HDR_MODIFIED(m.hdr[page]) /\ full
  <2>1. n = merge_log(m, page, 0)
    BY <1>2 DEF write_log_page
  <2>2. Calm(C, n) /\ (n.intact => n.fds[fd] # NULL)
    <3> HIDE DEF n
    <3> QED BY <2>1, CalmMerge
  <2> QED BY <2>2
<1>3. CASE HDR_MODIFIED(m.hdr[page]) /\ ~full
  <2>1. n = Answer(m, 1)
    BY <1>3 DEF write_log_page
  <2> HIDE DEF n
  <2>2. Calm(C, n) /\ n.ret = 1
    BY <2>1, CalmAnswer, GoodAnswer DEF Calm
  <2> QED BY <2>2 DEF n
<1> QED BY <1>1, <1>2, <1>3

LEMMA CalmData ==
    ASSUME NEW C, NEW m, Calm(C, m), m.intact, NEW fd \in FDs, m.fds[fd] # NULL,
           NEW log, NEW full \in BOOLEAN
    PROVE  Calm(C, WriteData(m, fd, log, full))
<1> DEFINE k == write_log_page(m, m.fds[fd], full)
           j == write_log_page(k, k.fds[fd], FALSE)
<1>1. Calm(C, k) /\ (k.intact /\ k.ret = 0 => k.fds[fd] # NULL)
  BY CalmLogPage
<1>2. \/ WriteData(m, fd, log, full) = m
      \/ WriteData(m, fd, log, full) = Answer(m, 1)
      \/ WriteData(m, fd, log, full) = k
      \/ k.ret = 0 /\ WriteData(m, fd, log, full) = j
  <2>1. CASE k.ret = 0
    BY <2>1 DEF WriteData
  <2>2. CASE k.ret # 0
    BY <2>2 DEF WriteData
  <2> QED BY <2>1, <2>2
<1> HIDE DEF k
<1>3. k.ret = 0 => Calm(C, j)
  <2>1. CASE ~k.intact
    <3>1. Later(k, j)
      BY <1>1, LaterLogPage DEF Good, Calm
    <3> HIDE DEF j
    <3> QED BY <1>1, <2>1, <3>1, CalmOff
  <2>2. CASE k.intact
    <3> SUFFICES ASSUME k.ret = 0 PROVE Calm(C, j)
      OBVIOUS
    <3> PICK no \in BOOLEAN : no = FALSE
      OBVIOUS
    <3>1. j = write_log_page(k, k.fds[fd], no)
      OBVIOUS
    <3> HIDE DEF j
    <3> QED BY <1>1, <2>2, <3>1, CalmLogPage
  <2>3. k.intact \in BOOLEAN
    BY <1>1 DEF Calm, Good, Rec
  <2> QED BY <2>1, <2>2, <2>3
<1>4. Calm(C, Answer(m, 1))
  BY CalmAnswer
<1> QED BY <1>1, <1>2, <1>3, <1>4

LEMMA CalmWrite ==
    ASSUME NEW C, NEW m, Calm(C, m), m.intact, NEW fd \in FDs, m.fds[fd] # NULL,
           NEW grow \in BOOLEAN, NEW log \in BOOLEAN, NEW full \in BOOLEAN
    PROVE  Calm(C, Write(m, fd, grow, log, full))
<1> DEFINE k == IF grow THEN merge_log(m, m.files[m.fds[fd]].page, 1) ELSE Answer(m, 0)
           n == Write(m, fd, grow, log, full)
<1>1. n = WriteData(k, fd, log, full)
  BY WriteIs
<1> HIDE DEF n
<1>2. Calm(C, k) /\ (k.intact => k.fds[fd] # NULL)
  <2>1. CASE grow
    BY <2>1, CalmMerge
  <2>2. CASE ~grow
    <3>1. k = Answer(m, 0)
      BY <2>2
    <3> HIDE DEF k
    <3>2. Calm(C, k) /\ k.fds = m.fds
      BY <3>1, CalmAnswer, GoodAnswer DEF Calm
    <3> QED BY <3>2
  <2> QED BY <2>1, <2>2
<1> HIDE DEF k
<1>3. CASE ~k.intact
  <2>1. Later(k, n)
    BY <1>1, <1>2, LaterData DEF Good, Calm
  <2> QED BY <1>2, <1>3, <2>1, CalmOff DEF n
<1>4. CASE k.intact
  BY <1>1, <1>2, <1>4, CalmData DEF n
<1>5. k.intact \in BOOLEAN
  BY <1>2 DEF Calm, Good, Rec
<1> QED BY <1>3, <1>4, <1>5

-----------------------------------------------------------------------------
(* Every call *)

\* Between calls only files have logs, no two the same, and no name is held twice.
InvKeep == Inv /\ Unshared(hdr) /\ Once(Mem)

LEMMA NoneOnce ==
    ASSUME NEW m, m.files = [s \in Slots |-> NoFile]
    PROVE  Once(m)
BY DEF Once, Holds, NoFile, FILE_FREE

LEMMA CallCalm ==
    ASSUME NEW C, NEW m, Calm(C, m), NEW call, Call(m, call), intact'
    PROVE  Safe(C, hdr') /\ Once(Mem')
<1>1. CASE Return(m)
  <2>1. m.intact /\ Safe(C, m.hdr) /\ Once(m)
    <3>1. m.intact
      BY <1>1 DEF Return
    <3> QED BY <3>1 DEF Calm, Guarded
  <2>2. Mem'.hdr = m.hdr /\ Mem'.files = m.files /\ hdr' = m.hdr
    BY <1>1 DEF Return, Mem
  <2> QED BY <2>1, <2>2 DEF Once, Holds
<1>2. CASE Reset(m)
  <2>1. PICK cut \in m.seen : hdr' = cut.hdr /\ coffee_files' = [s \in Slots |-> NoFile] /\ cut.intact
    BY <1>2 DEF Reset, Zeroed
  <2>2. Safe(C, hdr')
    BY <2>1 DEF Calm, Guarded
  <2>3. Mem'.files = [s \in Slots |-> NoFile]
    BY <2>1 DEF Mem
  <2> QED BY <2>2, <2>3, NoneOnce
<1> QED BY <1>1, <1>2 DEF Call

LEMMA EmptyKeep == Init => InvKeep
<1> SUFFICES ASSUME Init PROVE InvKeep
  OBVIOUS
<1>1. Inv
  BY Initially
<1>2. Unshared(hdr)
  BY DEF Init, Unshared, Page, HDR_ACTIVE
<1>3. Once(Mem)
  BY MemFields, NoneOnce DEF Init
<1> QED BY <1>1, <1>2, <1>3 DEF InvKeep

\* What a step may lose.
Lost == IF reply'.op = "remove" THEN {reply'.name} ELSE {}

LEMMA StepKeep ==
    ASSUME intact => InvKeep, [Next]_vars, intact'
    PROVE  /\ InvKeep'
           /\ hdr' # hdr /\ reply'.op # "format" => Whole(hdr) \ Lost \subseteq Whole(hdr')
<1>1. Inv'
  BY Stepwise DEF InvKeep
<1>2. CASE UNCHANGED vars
  <2>1. hdr' = hdr /\ Mem' = Mem /\ intact
    BY <1>2 DEF Mem, vars
  <2> QED BY <1>1, <2>1 DEF InvKeep
<1> DEFINE P == /\ Unshared(hdr') /\ Once(Mem')
                /\ reply'.op # "format" => Whole(hdr) \ Lost \subseteq Whole(hdr')
<1>3. ASSUME Safe(Whole(hdr), hdr'), Once(Mem') PROVE P
  BY <1>3 DEF Safe
<1> HIDE DEF P
<1>4. ASSUME Calls PROVE P
  <2>0. /\ \A C : C \subseteq Whole(hdr) => Calm(C, Mem)
        /\ Mem.intact /\ Mem.hdr = hdr
        /\ \A fd : FD_VALID(fd) => fd \in FDs /\ Mem.fds[fd] # NULL
    <3>0. InvKeep /\ LogsAlive /\ HeadersOnly(hdr)
      BY <1>4, CallsFrom
    <3>1. /\ Good(Mem, {}) /\ Mem.intact /\ AllAlive(Mem.hdr)
          /\ \A fd : FD_VALID(fd) => fd \in FDs /\ Mem.fds[fd] # NULL
      BY <3>0, AtCall DEF InvKeep, AllAlive
    <3>2. ASSUME NEW C, C \subseteq Whole(hdr) PROVE Calm(C, Mem)
      <4>1. Safe(C, hdr)
        BY <3>0, <3>2 DEF Safe, InvKeep
      <4>2. Guarded(C, Mem)
        BY <4>1, MemFields DEF Guarded
      <4> QED BY <3>0, <3>1, <4>2 DEF Calm, InvKeep
    <3> QED BY <3>1, <3>2, MemFields
  <2>2. ASSUME NEW m, Calm(Whole(hdr), m), NEW call, Call(m, call) PROVE P
    BY <1>3, <2>2, CallCalm
  <2>3. Calm(Whole(hdr), Mem)
    BY <2>0
  <2>4. ASSUME NEW name \in Names, cfs_open(name) PROVE P
    <3> PICK yes \in BOOLEAN : yes = TRUE
      OBVIOUS
    <3>1. Calm(Whole(hdr), Open(Mem, name, yes))
      BY <2>0, <2>3, CalmOpen
    <3> QED BY <2>2, <2>4, <3>1 DEF cfs_open
  <2>5. ASSUME NEW name \in Names, cfs_remove(name) PROVE P
    <3> DEFINE C == Whole(hdr) \ {name}
               n == RemoveFound(find_file(Mem, name))
    <3>1. Calm(C, Mem) /\ C \subseteq Whole(Mem.hdr) \ {name}
      BY <2>0
    <3> HIDE DEF C
    <3>2. Calm(C, n)
      BY <2>0, <3>1, CalmRemove
    <3>3. Call(n, [NoReply EXCEPT !.op = "remove", !.name = name])
      BY <2>5 DEF cfs_remove
    <3> HIDE DEF n
    <3>4. Safe(C, hdr') /\ Once(Mem')
      BY <3>2, <3>3, CallCalm
    <3>5. reply'.op = "remove" /\ reply'.name = name
      BY <3>3 DEF Call, NoReply
    <3>6. Lost = {name}
      BY <3>5 DEF Lost
    <3> QED BY <3>4, <3>6 DEF P, Safe, C
  <2>6. ASSUME NEW name \in Names, cfs_coffee_reserve(name) PROVE P
    <3>1. Calm(Whole(hdr), ReserveMissing(find_file(Mem, name), name))
      BY <2>0, <2>3, CalmMissing
    <3> QED BY <2>2, <2>6, <3>1 DEF cfs_coffee_reserve
  <2>7. ASSUME NEW fd \in FDs, cfs_close(fd) PROVE P
    <3>1. Mem.fds[fd] # NULL
      BY <2>0, <2>7 DEF cfs_close
    <3>2. Calm(Whole(hdr), Close(Mem, fd))
      BY <2>0, <2>3, <3>1, CalmClose
    <3> QED BY <2>2, <2>7, <3>2 DEF cfs_close
  <2>8. ASSUME NEW fd \in FDs, NEW grow \in BOOLEAN, NEW log \in BOOLEAN, NEW full \in BOOLEAN,
               cfs_write(fd, grow, log, full)
        PROVE  P
    <3>1. Mem.fds[fd] # NULL
      BY <2>0, <2>8 DEF cfs_write
    <3>2. Calm(Whole(hdr), Write(Mem, fd, grow, log, full))
      BY <2>0, <2>3, <3>1, CalmWrite
    <3> QED BY <2>2, <2>8, <3>2 DEF cfs_write
  <2>11. ASSUME NEW fd \in FDs, NEW grow \in BOOLEAN, NEW log \in BOOLEAN, cfs_write(fd, grow, log, FALSE)
         PROVE  P
    BY <2>8, <2>11
  <2>12. ASSUME NEW fd \in FDs, cfs_write(fd, FALSE, TRUE, TRUE) PROVE P
    BY <2>8, <2>12
  <2> QED BY <1>4, <2>4, <2>5, <2>6, <2>7, <2>11, <2>12 DEF Calls
<1>5. ASSUME cfs_format PROVE P
  <2>1. /\ hdr' = [p \in Pages |-> Page("free")] /\ coffee_files' = [s \in Slots |-> NoFile]
        /\ reply'.op = "format"
    BY <1>5 DEF cfs_format, Zeroed, NoReply
  <2>2. Unshared(hdr')
    BY <2>1 DEF Unshared, Page, HDR_ACTIVE
  <2>3. Mem'.files = [s \in Slots |-> NoFile]
    BY <2>1 DEF Mem
  <2> QED BY <2>1, <2>2, <2>3, NoneOnce DEF P
<1>6. ASSUME ResetBetweenCalls PROVE P
  <2>1. InvKeep /\ hdr' = hdr /\ coffee_files' = [s \in Slots |-> NoFile]
    BY <1>6 DEF ResetBetweenCalls, Zeroed
  <2>2. Mem'.files = [s \in Slots |-> NoFile]
    BY <2>1 DEF Mem
  <2>3. Safe(Whole(hdr), hdr')
    BY <2>1 DEF Safe, InvKeep
  <2> QED BY <1>3, <2>2, <2>3, NoneOnce
<1>7. CASE Next
  <2>1. P
    BY <1>4, <1>5, <1>6, <1>7 DEF Next
  <2> QED BY <1>1, <2>1 DEF InvKeep, P
<1> QED BY <1>2, <1>7

\* As long as the flash stays intact, no step loses a file, whatever call is made and
\* between whichever two writes to flash a reset comes: every file of which there was an
\* extent with all of its data and with its log still has one, unless it was to be
\* removed.  merge_log marks the copy whole before remove_by_page touches the old extent
\* or its log, no two files share a log, and as long as the walk finds every extent,
\* neither collect_garbage nor find_contiguous_pages reaches into one in use.
THEOREM NoFileLost == Spec => KeepsFiles
<1> DEFINE Keeps == intact' /\ hdr' # hdr /\ reply'.op # "format" =>
                        Complete(hdr) \ (IF reply'.op = "remove" THEN {reply'.name} ELSE {})
                            \subseteq Complete(hdr')
<1>1. ASSUME NEW i PROVE Complete(i) \subseteq Whole(i)
  BY DEF Complete, Whole
<1>2. ASSUME NEW i, Sound(i) PROVE Whole(i) \subseteq Complete(i)
  BY <1>2 DEF Complete, Whole, Sound, HDR_ACTIVE
<1>3. (intact => InvKeep) /\ [Next]_vars => (intact => InvKeep)'
  BY StepKeep
<1>4. (intact => InvKeep) /\ [Next]_vars => Keeps
  <2> SUFFICES ASSUME intact => InvKeep, [Next]_vars, intact', hdr' # hdr, reply'.op # "format"
               PROVE  Complete(hdr) \ Lost \subseteq Complete(hdr')
    BY DEF Lost
  <2>1. Whole(hdr) \ Lost \subseteq Whole(hdr') /\ Inv'
    BY StepKeep DEF InvKeep
  <2>2. Strong(Mem', {}) /\ Mem'.hdr = hdr'
    BY <2>1 DEF Inv, Mem
  <2>3. Sound(hdr')
    BY <2>2 DEF Strong
  <2> QED BY <1>1, <1>2, <2>1, <2>3
<1> QED BY <1>3, <1>4, EmptyKeep, PTL DEF Spec, KeepsFiles
-----------------------------------------------------------------------------
(* The contract with the front-end *)

\* A removal closes the descriptors of the file, and no other.
LEMMA RemovedKeeping ==
    ASSUME NEW m, Strong(m, {}), NEW f, Kept(m, f), f.fds = m.fds, NEW page \in Pages,
           f.hdr[page].kind = "file", LogAlive(f.hdr, page), f.hdr = m.hdr,
           \A fd \in FDs : m.fds[fd] # NULL => FName(m, fd) # f.hdr[page].name,
           NEW n, NEW close, Removed(f, n, page, close)
    PROVE  Keeping(m, n)
<1> SUFFICES ASSUME NEW fd \in FDs
             PROVE  (n.fds[fd] = NULL <=> m.fds[fd] = NULL) /\ FName(n, fd) = FName(m, fd)
  BY DEF Keeping
<1>1. CASE m.fds[fd] = NULL
  BY <1>1, SMTT(30) DEF Removed, FName
<1>2. CASE m.fds[fd] # NULL
  <2> DEFINE slot == m.fds[fd]
             p == m.files[slot].page
  <2>1. slot \in Slots /\ p \in Pages /\ m.hdr[p].kind = "file" /\ slot # NULL
    BY <1>2, FdFacts, SMTT(30)
  <2>2. f.fds[fd] = slot /\ f.files[slot].page = p
    BY <1>2 DEF Kept
  <2>3. m.hdr[p].name # f.hdr[page].name
    BY <1>2 DEF FName
  <2> HIDE DEF slot, p
  <2>4. p # page
    BY <2>3
  <2>5. p \notin WithLog(f.hdr, page)
    BY <2>1, <2>4 DEF WithLog, LogAlive
  <2>6. n.fds[fd] = slot /\ n.files[slot].page = p /\ n.hdr[p] = m.hdr[p]
    BY <2>1, <2>2, <2>4, <2>5 DEF Removed
  <2> QED BY <1>2, <2>1, <2>6, Zenon DEF FName, slot, p
<1> QED BY <1>1, <1>2

\* No descriptor is open on a file called name.
Shut(m, name) == \A fd \in FDs : m.fds[fd] # NULL => FName(m, fd) # name

\* cfs_remove(name)
LEMMA ServeRemove ==
    ASSUME NEW m, One(m), m.intact, SpareSlot(m), NEW name
    PROVE  LET n == RemoveFound(find_file(m, name))
           IN  n.intact => /\ Directory(n.hdr) = Directory(m.hdr) \ {name}
                           /\ name \in Directory(m.hdr) => n.ret = 0
                           /\ Shut(m, name) => Keeping(m, n)
<1> DEFINE f == find_file(m, name)
           n == RemoveFound(f)
<1>0. Good(m, {}) /\ Strong(m, {}) /\ Single(m.hdr) /\ m.hdr \in Images
  BY DEF One, Good, Strong, Typed
<1>1. /\ Good(f, {}) /\ f.intact /\ f.hdr = m.hdr /\ f.fds = m.fds /\ Kept(m, f)
      /\ f.ret = NULL \/ (/\ f.ret \in Slots /\ f.files[f.ret].page \in Pages
                          /\ IsNamed(f.hdr[f.files[f.ret].page], name))
      /\ f.ret = NULL => \A p \in Pages : ~IsNamed(m.hdr[p], name)
  BY <1>0, GoodFind
<1> HIDE DEF f
<1>2. CASE f.ret = NULL
  <2>1. n = Answer(f, FAILURE)
    BY <1>2 DEF RemoveFound
  <2> HIDE DEF n
  <2>2. n.hdr = m.hdr /\ Serves(f, n)
    BY <1>1, <2>1, GoodAnswer, ServesAnswer
  <2>3. Keeping(m, f)
    BY <1>0, <1>1, KeptKeeping
  <2>4. name \notin Directory(m.hdr)
    BY <1>1, <1>2 DEF Directory, IsNamed
  <2> QED BY <2>2, <2>3, <2>4, KeepingTwice DEF n, f, Serves
<1>3. CASE f.ret # NULL
  <2> PICK page : page = f.files[f.ret].page
    OBVIOUS
  <2> PICK yes \in BOOLEAN : yes = TRUE
    OBVIOUS
  <2> PICK gone \in SUBSET Holding(f, page) : gone = {}
    OBVIOUS
  <2>1. n = remove_by_page(f, page, TRUE, yes)
    BY <1>3 DEF RemoveFound
  <2> HIDE DEF n
  <2>2. page \in Pages /\ IsNamed(f.hdr[page], name)
    BY <1>1, <1>3
  <2>3. f.hdr[page].kind = "file" /\ f.hdr[page].name = name /\ LogAlive(f.hdr, page)
    <3>1. f.hdr[page].kind = "file" /\ f.hdr[page].name = name /\ HDR_ACTIVE(f.hdr[page])
      BY <2>2, NamedFile
    <3>2. f.hdr = m.hdr /\ Single(m.hdr)
      BY <1>0, <1>1
    <3> QED BY <2>2, <3>1, <3>2 DEF Single
  <2>4. Removed(f, n, page, yes)
    BY <1>1, <2>1, <2>2, <2>3, GoodRemoved
  <2>5. Gone(m.hdr, n.hdr, page)
    BY <1>1, <2>4 DEF Removed, Gone
  <2>6. Directory(n.hdr) = Directory(m.hdr) \ {name}
    <3>1. m.hdr \in Images /\ Single(m.hdr) /\ m.hdr[page].kind = "file" /\ m.hdr[page].name = name
      BY <1>0, <1>1, <2>3
    <3>2. page \in Pages
      BY <2>2
    <3> QED BY ONLY <2>5, <3>1, <3>2, DirectoryGone
  <2>7. Shut(m, name) => Keeping(m, n)
    BY <1>0, <1>1, <2>2, <2>3, <2>4, RemovedKeeping DEF Shut
  <2> QED BY <2>4, <2>6, <2>7 DEF Removed, n, f
<1> QED BY <1>2, <1>3

\* cfs_coffee_reserve(name)
LEMMA ServeMissing ==
    ASSUME NEW m, One(m), m.intact, SpareSlot(m), NEW name \in Names
    PROVE  LET n == ReserveMissing(find_file(m, name), name)
           IN  n.intact => Keeping(m, n) /\ Directory(n.hdr) \subseteq Directory(m.hdr) \union {name}
<1> DEFINE f == find_file(m, name)
           h == NewFile(name, DynPages)
           r == reserve(f, h)
           n == ReserveMissing(f, name)
<1>0. Good(m, {}) /\ Strong(m, {}) /\ Single(m.hdr) /\ m.hdr \in Images
  BY DEF One, Good, Strong, Typed
<1>1. /\ Good(f, {}) /\ f.intact /\ f.hdr = m.hdr /\ f.fds = m.fds /\ Kept(m, f)
      /\ f.ret = NULL => SpareSlot(f)
  BY <1>0, GoodFind
<1>2. h \in Asked /\ h.kind = "file" /\ h.name = name
  BY CoffeeAssumption DEF NewFile, Page, Asked
<1>3. n = IF f.ret # NULL THEN Answer(f, FAILURE) ELSE r
  BY DEF ReserveMissing
<1>4. Keeping(m, f)
  BY <1>0, <1>1, KeptKeeping
<1> HIDE DEF f, n, h
<1>5. CASE f.ret # NULL
  <2>1. Serves(f, n)
    BY <1>1, <1>3, <1>5, ServesAnswer
  <2> QED BY <1>1, <1>4, <2>1, KeepingTwice DEF Serves, n, f
<1>6. CASE f.ret = NULL
  <2>1. Good(r, {}) /\ (r.intact => Reserved(f, r, h)) /\ n = r
    BY <1>1, <1>2, <1>3, <1>6, GoodReserve
  <2> HIDE DEF r
  <2> SUFFICES ASSUME r.intact
               PROVE  Keeping(m, r) /\ Directory(r.hdr) \subseteq Directory(m.hdr) \union {name}
    BY <2>1 DEF n, f
  <2>2. Reserved(f, r, h) /\ Strong(f, {})
    BY <1>1, <2>1 DEF Good
  <2>3. Keeping(f, r)
    BY <2>2, KeptKeeping DEF Reserved
  <2>4. CASE r.ret = NULL
    <3>1. Directory(r.hdr) = Directory(f.hdr)
      BY <1>1, <1>6, <2>2, <2>4, ReservedIs, DirectorySame
    <3> QED BY <1>1, <1>4, <2>3, <3>1, KeepingTwice
  <2>5. CASE r.ret # NULL
    <3>1. Added(f.hdr, r.hdr, r.files[r.ret].page, h)
      BY <1>1, <1>6, <2>2, <2>5, ReservedIs
    <3>2. Directory(r.hdr) = Directory(f.hdr) \union {name}
      BY <1>2, <3>1, DirectoryAdded
    <3> QED BY <1>1, <1>4, <2>3, <3>2, KeepingTwice
  <2> QED BY <2>4, <2>5
<1> QED BY <1>5, <1>6

\* What is open afterwards, and what is in the directory.
OpenServed(m, n, name) ==
    /\ \A fd \in FDs : fd # n.ret =>
           (n.fds[fd] = NULL <=> m.fds[fd] = NULL) /\ FName(n, fd) = FName(m, fd)
    /\ Directory(n.hdr) \in {Directory(m.hdr), Directory(m.hdr) \union {name}}
    /\ n.ret # FAILURE =>
           /\ n.ret \in FDs /\ m.fds[n.ret] = NULL
           /\ \A fd \in FDs : m.fds[fd] = NULL => n.ret <= fd
           /\ n.fds[n.ret] # NULL /\ FName(n, n.ret) = name
           /\ Directory(n.hdr) = Directory(m.hdr) \union {name}

\* cfs_open(name)
LEMMA ServeOpen ==
    ASSUME NEW m, One(m), m.intact, SpareSlot(m), NEW name \in Names, NEW create \in BOOLEAN
    PROVE  LET n == Open(m, name, create)
           IN  n.intact => OpenServed(m, n, name)
<1> DEFINE n == Open(m, name, create)
<1>0. Good(m, {}) /\ Strong(m, {}) /\ Single(m.hdr) /\ m.hdr \in Images
  BY DEF One, Good, Strong, Typed
<1>1. /\ Good(n, {})
      /\ n.intact /\ n.ret # FAILURE => n.ret \in FDs /\ m.fds[n.ret] = NULL /\ n.fds[n.ret] # NULL
      /\ n.intact => Kept(m, n) /\ Opened(m, n, name, create)
  BY <1>0, GoodOpen
<1> HIDE DEF n
<1> SUFFICES ASSUME n.intact PROVE OpenServed(m, n, name)
  BY DEF n
<1>2. ASSUME NEW fd \in FDs, fd # n.ret
      PROVE  (n.fds[fd] = NULL <=> m.fds[fd] = NULL) /\ FName(n, fd) = FName(m, fd)
  <2>1. n.fds[fd] = m.fds[fd]
    BY <1>1, <1>2 DEF Opened
  <2>2. m.fds[fd] # NULL =>
            /\ m.hdr[m.files[m.fds[fd]].page] = n.hdr[m.files[m.fds[fd]].page]
            /\ n.files[m.fds[fd]].page = m.files[m.fds[fd]].page
    BY <1>0, <1>1, FdFacts, SMTT(30) DEF Kept, HDR_ACTIVE
  <2> QED BY <2>1, <2>2 DEF FName
<1>3. Directory(n.hdr) \in {Directory(m.hdr), Directory(m.hdr) \union {name}}
  BY <1>1, DirectoryGrown DEF Opened
<1>4. ASSUME n.ret # FAILURE
      PROVE  /\ \A fd \in FDs : m.fds[fd] = NULL => n.ret <= fd
             /\ FName(n, n.ret) = name
             /\ Directory(n.hdr) = Directory(m.hdr) \union {name}
  <2> DEFINE p == n.files[n.fds[n.ret]].page
  <2>1. n.ret \in FDs /\ n.fds[n.ret] # NULL
    BY <1>1, <1>4
  <2>2. IsNamed(n.hdr[p], name)
    BY <1>1, <1>4 DEF Opened
  <2>3. p \in Pages
    BY <1>1, <2>1, FdFacts DEF Good
  <2>4. n.hdr[p].kind = "file" /\ n.hdr[p].name = name
    BY <2>2 DEF IsNamed
  <2> HIDE DEF p
  <2>5. name \in Directory(n.hdr)
    BY <2>3, <2>4 DEF Directory
  <2>6. Directory(n.hdr) = Directory(m.hdr) \union {name}
    BY <1>3, <2>5
  <2>7. \A fd \in FDs : m.fds[fd] = NULL => n.ret <= fd
    BY <1>1, <1>4 DEF Opened
  <2>8. FName(n, n.ret) = name
    BY <2>1, <2>4 DEF FName, p
  <2> QED BY <2>6, <2>7, <2>8
<1> QED BY <1>1, <1>2, <1>3, <1>4 DEF OpenServed

\* No file is called NULL.
InvDir == InvOne /\ (clean => NULL \notin Directory(hdr))

\* The state between calls, as a machine state.
LEMMA NamesSeen ==
    ASSUME InvDir, clean
    PROVE  /\ Dir = Directory(Mem.hdr) /\ NULL \notin Dir
           /\ \A fd \in FDs : FdName(fd) = FName(Mem, fd) /\ (FdName(fd) = NULL <=> Mem.fds[fd] = NULL)
<1>1. /\ Mem.hdr = hdr /\ Mem.fds = coffee_fd_set /\ Mem.files = coffee_files
      /\ Strong(Mem, {})
  BY MemFields, MemGood DEF InvDir, InvOne, Inv
<1>2. Dir = Directory(hdr) /\ NULL \notin Directory(hdr)
  BY DEF Dir, Directory, InvDir
<1>3. ASSUME NEW fd \in FDs PROVE FdName(fd) = FName(Mem, fd)
  BY <1>1 DEF FdName, FName, FD_VALID
<1>4. ASSUME NEW fd \in FDs, Mem.fds[fd] # NULL PROVE FName(Mem, fd) # NULL
  <2> DEFINE p == Mem.files[Mem.fds[fd]].page
  <2>1. p \in Pages /\ Mem.hdr[p].kind = "file"
    BY <1>1, <1>4, FdFacts
  <2> HIDE DEF p
  <2>2. Mem.hdr[p].name \in Directory(Mem.hdr)
    BY <2>1 DEF Directory
  <2> QED BY <1>1, <1>2, <1>4, <2>2 DEF FName, p
<1> QED BY <1>1, <1>2, <1>3, <1>4 DEF FName
\* A call that comes back answers with its result, and the machine state it leaves is the
\* state of the program.
LEMMA Returned ==
    ASSUME NEW m, Return(m)
    PROVE  Dir' = Directory(m.hdr) /\ \A d \in FDs : FdName(d)' = FName(m, d)
<1>1. Dir' = Directory(m.hdr)
  BY DEF Return, Dir, Directory
<1>2. ASSUME NEW d \in FDs PROVE FdName(d)' = FName(m, d)
  BY DEF Return, FdName, FName, FD_VALID
<1> QED BY <1>1, <1>2

LEMMA NameAnswered ==
    ASSUME NEW m, NEW kind, NEW file, Call(m, [NoReply EXCEPT !.op = kind, !.name = file]),
           ~reply'.reset
    PROVE  /\ Dir' = Directory(m.hdr)
           /\ reply'.op = kind /\ reply'.name = file /\ reply'.result = m.ret
           /\ \A d \in FDs : FdName(d)' = FName(m, d)
<1> DEFINE call == [NoReply EXCEPT !.op = kind, !.name = file]
<1>1. [call EXCEPT !.reset = TRUE].reset
  BY DEF NoReply
<1>2. Return(m) /\ reply' = [call EXCEPT !.result = m.ret]
  BY <1>1 DEF Call
<1>3. /\ [call EXCEPT !.result = m.ret].op = kind
      /\ [call EXCEPT !.result = m.ret].name = file
      /\ [call EXCEPT !.result = m.ret].result = m.ret
  BY DEF NoReply
<1>4. reply'.op = kind /\ reply'.name = file /\ reply'.result = m.ret
  BY <1>2, <1>3
<1> HIDE DEF call
<1> QED BY <1>2, <1>4, Returned

LEMMA FdAnswered ==
    ASSUME NEW m, NEW kind, NEW d, Call(m, [NoReply EXCEPT !.op = kind, !.fd = d]),
           ~reply'.reset
    PROVE  /\ Dir' = Directory(m.hdr)
           /\ reply'.op = kind /\ reply'.fd = d /\ reply'.result = m.ret
           /\ \A g \in FDs : FdName(g)' = FName(m, g)
<1> DEFINE call == [NoReply EXCEPT !.op = kind, !.fd = d]
<1>1. [call EXCEPT !.reset = TRUE].reset
  BY DEF NoReply
<1>2. Return(m) /\ reply' = [call EXCEPT !.result = m.ret]
  BY <1>1 DEF Call
<1>3. /\ [call EXCEPT !.result = m.ret].op = kind
      /\ [call EXCEPT !.result = m.ret].fd = d
      /\ [call EXCEPT !.result = m.ret].result = m.ret
  BY DEF NoReply
<1>4. reply'.op = kind /\ reply'.fd = d /\ reply'.result = m.ret
  BY <1>2, <1>3
<1> HIDE DEF call
<1> QED BY <1>2, <1>4, Returned

\* What AsSFSSays says of each call.
LEMMA SaysNothing ==
    ASSUME ~clean' \/ ~intact' \/ reply'.reset \/ reply'.op = "format"
    PROVE  AsSFSSays
BY DEF AsSFSSays

LEMMA SaysOpen ==
    ASSUME reply'.op = "open", NEW name, reply'.name = name, NEW fd, reply'.result = fd,
           [fd |-> fd, dir |-> Dir'] \in F!cfs_open(name),
           \A d \in FDs : FdName(d)' = IF d = fd THEN name ELSE FdName(d)
    PROVE  AsSFSSays
BY DEF AsSFSSays

LEMMA SaysClose ==
    ASSUME reply'.op = "close", NEW fd \in FDs, reply'.fd = fd, Dir' = Dir,
           \A d \in FDs : FdName(d)' = IF d = fd THEN NULL ELSE FdName(d)
    PROVE  AsSFSSays
BY DEF AsSFSSays

LEMMA SaysRemove ==
    ASSUME reply'.op = "remove", NEW name, reply'.name = name, NEW r, reply'.result = r,
           (\A fd \in FDs : FdName(fd) # name) =>
               /\ \A d \in FDs : FdName(d)' = FdName(d)
               /\ [ok |-> r = 0, dir |-> Dir'] \in F!cfs_remove(name)
               /\ name \in Dir => r = 0
    PROVE  AsSFSSays
BY DEF AsSFSSays

LEMMA SaysWrite ==
    ASSUME reply'.op = "write", Dir' = Dir, \A d \in FDs : FdName(d)' = FdName(d)
    PROVE  AsSFSSays
BY DEF AsSFSSays

LEMMA SaysReserve ==
    ASSUME reply'.op = "reserve", \A d \in FDs : FdName(d)' = FdName(d)
    PROVE  AsSFSSays
BY DEF AsSFSSays

LEMMA OpenAnswers ==
    ASSUME NEW name, NEW fd, NEW dir, dir \in {Dir, Dir \union {name}},
           fd # FAILURE => /\ fd \in FDs /\ FdName(fd) = NULL /\ dir = Dir \union {name}
                           /\ \A d \in FDs : FdName(d) = NULL => fd <= d
    PROVE  [fd |-> fd, dir |-> dir] \in F!cfs_open(name)
<1>1. F!Dir = Dir /\ F!FAILURE = FAILURE
  BY DEF F!Dir, F!FAILURE, FAILURE
<1>2. F!FreeFds = {d \in FDs : FdName(d) = NULL}
  BY DEF F!FreeFds, F!FDs, FDs
<1>3. CASE fd = FAILURE
  BY <1>1, <1>3 DEF F!cfs_open
<1>4. CASE fd # FAILURE
  <2>1. fd \in {f \in F!FreeFds : \A g \in F!FreeFds : f <= g}
    BY <1>2, <1>4
  <2> QED BY <1>1, <1>4, <2>1 DEF F!cfs_open
<1> QED BY <1>3, <1>4

LEMMA RemoveAnswers ==
    ASSUME NEW name, NEW r, name \in Dir => r = 0, NEW dir, dir = Dir \ {name}
    PROVE  [ok |-> r = 0, dir |-> dir] \in F!cfs_remove(name)
<1>1. F!Dir = Dir
  BY DEF F!Dir
<1>2. CASE r = 0
  <2>1. (r = 0) = TRUE
    BY <1>2
  <2> QED BY <1>1, <2>1 DEF F!cfs_remove
<1>3. CASE r # 0
  <2>1. (r = 0) = FALSE /\ dir = Dir
    BY <1>3
  <2> QED BY <1>1, <2>1 DEF F!cfs_remove
<1> QED BY <1>2, <1>3

\* A call that no reset cuts, from a state of the invariant.
Legal == LogsAlive /\ HeadersOnly(hdr) /\ Spare /\ clean /\ clean' /\ intact'

LEMMA AtLegal ==
    ASSUME InvDir, Legal
    PROVE  /\ Good(Mem, {}) /\ Mem.intact /\ SpareSlot(Mem) /\ Mem.hdr = hdr
           /\ One(Mem) /\ NULL \notin Directory(hdr)
           /\ \A fd : FD_VALID(fd) => fd \in FDs /\ Mem.fds[fd] # NULL
<1>1. Good(Mem, {}) /\ Mem.intact /\ \A fd : FD_VALID(fd) => fd \in FDs /\ Mem.fds[fd] # NULL
  BY AtCall DEF InvDir, InvOne, Legal
<1>2. SpareSlot(Mem)
  BY MemFields DEF Legal, Spare, SpareSlot
<1>3. One(Mem) /\ NULL \notin Directory(hdr)
  BY <1>1, MemFields DEF Legal, InvDir, InvOne, One
<1> QED BY <1>1, <1>2, <1>3, MemFields

LEMMA NamesKept ==
    ASSUME InvDir, clean, NEW m, Keeping(Mem, m), \A d \in FDs : FdName(d)' = FName(m, d)
    PROVE  \A d \in FDs : FdName(d)' = FdName(d)
BY NamesSeen DEF Keeping

\* Every call does what SFS says, and no file comes to be called NULL.
LEMMA StepOpen ==
    ASSUME InvDir, Legal, NEW name \in Names, cfs_open(name)
    PROVE  AsSFSSays /\ NULL \notin Directory(hdr')
<1> PICK yes \in BOOLEAN : yes = TRUE
  OBVIOUS
<1> DEFINE n == Open(Mem, name, yes)
<1>0. /\ SpareSlot(Mem) /\ Mem.intact /\ One(Mem) /\ Mem.hdr = hdr /\ NULL \notin Directory(hdr)
      /\ clean /\ intact' /\ clean'
  BY AtLegal DEF Legal
<1>1. Call(n, [NoReply EXCEPT !.op = "open", !.name = name])
  BY DEF cfs_open
<1>2. n.intact => OpenServed(Mem, n, name)
  BY <1>0, ServeOpen
<1> HIDE DEF n
<1>3. NULL # name
  BY CoffeeAssumption
<1>6. hdr' = n.hdr /\ OpenServed(Mem, n, name)
  BY <1>0, <1>1, <1>2, CallClean
<1>4. NULL \notin Directory(hdr')
  BY <1>0, <1>3, <1>6 DEF OpenServed
<1>5. CASE ~reply'.reset
  <2>1. /\ Dir' = Directory(n.hdr)
        /\ reply'.op = "open" /\ reply'.name = name /\ reply'.result = n.ret
        /\ \A d \in FDs : FdName(d)' = FName(n, d)
    BY <1>1, <1>5, NameAnswered, Zenon
  <2>2. /\ [fd |-> n.ret, dir |-> Dir'] \in F!cfs_open(name)
        /\ \A d \in FDs : FdName(d)' = IF d = n.ret THEN name ELSE FdName(d)
    <3>1. /\ Dir = Directory(Mem.hdr)
          /\ \A fd \in FDs : FdName(fd) = FName(Mem, fd) /\ (FdName(fd) = NULL <=> Mem.fds[fd] = NULL)
      BY <1>0, NamesSeen
    <3>2. FAILURE \notin FDs
      BY Constants DEF FDs
    <3>3. Dir' \in {Dir, Dir \union {name}}
      BY <1>6, <2>1, <3>1 DEF OpenServed
    <3>4. n.ret # FAILURE => /\ n.ret \in FDs /\ FdName(n.ret) = NULL /\ Dir' = Dir \union {name}
                             /\ \A d \in FDs : FdName(d) = NULL => n.ret <= d
      BY <1>6, <2>1, <3>1 DEF OpenServed
    <3>5. [fd |-> n.ret, dir |-> Dir'] \in F!cfs_open(name)
      BY <3>3, <3>4, OpenAnswers
    <3>6. \A d \in FDs : FdName(d)' = IF d = n.ret THEN name ELSE FdName(d)
      BY <1>6, <2>1, <3>1, <3>2 DEF OpenServed
    <3> QED BY <3>5, <3>6
  <2> QED BY <1>4, <2>1, <2>2, SaysOpen
<1>7. CASE reply'.reset
  BY <1>4, <1>7, SaysNothing
<1> QED BY <1>5, <1>7

LEMMA StepRemove ==
    ASSUME InvDir, Legal, NEW name \in Names, cfs_remove(name)
    PROVE  AsSFSSays /\ NULL \notin Directory(hdr')
<1> DEFINE n == RemoveFound(find_file(Mem, name))
<1>0. /\ SpareSlot(Mem) /\ Mem.intact /\ One(Mem) /\ Mem.hdr = hdr /\ NULL \notin Directory(hdr)
      /\ clean /\ intact' /\ clean'
  BY AtLegal DEF Legal
<1>1. Call(n, [NoReply EXCEPT !.op = "remove", !.name = name])
  BY DEF cfs_remove
<1>2. n.intact => /\ Directory(n.hdr) = Directory(Mem.hdr) \ {name}
                  /\ name \in Directory(Mem.hdr) => n.ret = 0
                  /\ Shut(Mem, name) => Keeping(Mem, n)
  BY <1>0, ServeRemove
<1> HIDE DEF n
<1>3. hdr' = n.hdr /\ n.intact
  BY <1>0, <1>1, CallClean
<1>4. NULL \notin Directory(hdr')
  BY <1>0, <1>2, <1>3
<1>5. CASE ~reply'.reset
  <2>1. /\ Dir' = Directory(n.hdr)
        /\ reply'.op = "remove" /\ reply'.name = name /\ reply'.result = n.ret
        /\ \A d \in FDs : FdName(d)' = FName(n, d)
    BY <1>1, <1>5, NameAnswered, Zenon
  <2>2. ASSUME \A fd \in FDs : FdName(fd) # name
        PROVE  /\ \A d \in FDs : FdName(d)' = FdName(d)
               /\ [ok |-> n.ret = 0, dir |-> Dir'] \in F!cfs_remove(name)
               /\ name \in Dir => n.ret = 0
    <3>1. /\ Dir = Directory(Mem.hdr) /\ \A fd \in FDs : FdName(fd) = FName(Mem, fd)
      BY <1>0, NamesSeen
    <3>2. Shut(Mem, name)
      BY <2>2, <3>1 DEF Shut
    <3>3. Dir' = Dir \ {name} /\ (name \in Dir => n.ret = 0) /\ Keeping(Mem, n)
      BY <1>2, <1>3, <2>1, <3>1, <3>2
    <3>4. \A d \in FDs : FdName(d)' = FdName(d)
      BY <1>0, <2>1, <3>3, NamesKept
    <3> QED BY <3>3, <3>4, RemoveAnswers
  <2> QED BY <1>4, <2>1, <2>2, SaysRemove
<1>6. CASE reply'.reset
  BY <1>4, <1>6, SaysNothing
<1> QED BY <1>5, <1>6

LEMMA StepReserve ==
    ASSUME InvDir, Legal, NEW name \in Names, cfs_coffee_reserve(name)
    PROVE  AsSFSSays /\ NULL \notin Directory(hdr')
<1> DEFINE n == ReserveMissing(find_file(Mem, name), name)
<1>0. /\ SpareSlot(Mem) /\ Mem.intact /\ One(Mem) /\ Mem.hdr = hdr /\ NULL \notin Directory(hdr)
      /\ clean /\ intact' /\ clean'
  BY AtLegal DEF Legal
<1>1. Call(n, [NoReply EXCEPT !.op = "reserve", !.name = name])
  BY DEF cfs_coffee_reserve
<1>2. n.intact => Keeping(Mem, n) /\ Directory(n.hdr) \subseteq Directory(Mem.hdr) \union {name}
  BY <1>0, ServeMissing
<1> HIDE DEF n
<1>3. NULL # name
  BY CoffeeAssumption
<1>7. hdr' = n.hdr /\ n.intact
  BY <1>0, <1>1, CallClean
<1>4. NULL \notin Directory(hdr')
  BY <1>0, <1>2, <1>3, <1>7
<1>5. CASE ~reply'.reset
  <2>1. reply'.op = "reserve" /\ \A d \in FDs : FdName(d)' = FName(n, d)
    BY <1>1, <1>5, NameAnswered, Zenon
  <2>2. \A d \in FDs : FdName(d)' = FdName(d)
    BY <1>0, <1>2, <1>7, <2>1, NamesKept
  <2> QED BY <1>4, <2>1, <2>2, SaysReserve
<1>6. CASE reply'.reset
  BY <1>4, <1>6, SaysNothing
<1> QED BY <1>5, <1>6

LEMMA StepClose ==
    ASSUME InvDir, Legal, NEW fd \in FDs, cfs_close(fd)
    PROVE  AsSFSSays /\ NULL \notin Directory(hdr')
<1> DEFINE n == Close(Mem, fd)
<1>0. /\ Good(Mem, {}) /\ Mem.intact /\ Mem.hdr = hdr /\ Mem.fds[fd] # NULL
      /\ Strong(Mem, {}) /\ NULL \notin Directory(hdr) /\ clean /\ intact' /\ clean'
  BY AtLegal DEF Legal, cfs_close, Good
<1>1. Call(n, [NoReply EXCEPT !.op = "close", !.fd = fd])
  BY DEF cfs_close
<1>2. /\ n.hdr = Mem.hdr /\ n.fds[fd] = NULL /\ \A d \in FDs : d # fd => n.fds[d] = Mem.fds[d]
      /\ \A s \in Slots : n.files[s].page = Mem.files[s].page
  BY <1>0, GoodClose
<1> HIDE DEF n
<1>3. \A d \in FDs : FName(n, d) = IF d = fd THEN NULL ELSE FName(Mem, d)
  <2>1. \A d \in FDs : Mem.fds[d] # NULL => Mem.fds[d] \in Slots
    BY <1>0, FdFacts
  <2> QED BY <1>2, <2>1 DEF FName
<1>4. NULL \notin Directory(hdr')
  BY <1>0, <1>1, <1>2, CallClean
<1>5. CASE ~reply'.reset
  <2>1. /\ Dir' = Directory(n.hdr) /\ reply'.op = "close" /\ reply'.fd = fd
        /\ \A d \in FDs : FdName(d)' = FName(n, d)
    BY <1>1, <1>5, FdAnswered, Zenon
  <2>2. Dir' = Dir /\ \A d \in FDs : FdName(d)' = IF d = fd THEN NULL ELSE FdName(d)
    BY <1>0, <1>2, <1>3, <2>1, NamesSeen
  <2> QED BY <1>4, <2>1, <2>2, SaysClose
<1>6. CASE reply'.reset
  BY <1>4, <1>6, SaysNothing
<1> QED BY <1>5, <1>6

LEMMA StepWrite ==
    ASSUME InvDir, Legal, NEW fd \in FDs, NEW grow \in BOOLEAN, NEW log \in BOOLEAN,
           NEW full \in BOOLEAN, cfs_write(fd, grow, log, full)
    PROVE  AsSFSSays /\ NULL \notin Directory(hdr')
<1> DEFINE n == Write(Mem, fd, grow, log, full)
<1>0. /\ SpareSlot(Mem) /\ Mem.intact /\ One(Mem) /\ Mem.hdr = hdr /\ NULL \notin Directory(hdr)
      /\ clean /\ intact' /\ clean' /\ Mem.fds[fd] # NULL
  BY AtLegal DEF Legal, cfs_write
<1>1. Call(n, [NoReply EXCEPT !.op = "write", !.fd = fd])
  BY DEF cfs_write
<1>2. n.intact => Keeping(Mem, n) /\ Directory(n.hdr) = Directory(Mem.hdr)
  BY <1>0, OneWrite DEF Serves
<1> HIDE DEF n
<1>3. hdr' = n.hdr /\ n.intact
  BY <1>0, <1>1, CallClean
<1>4. NULL \notin Directory(hdr')
  BY <1>0, <1>2, <1>3
<1>5. CASE ~reply'.reset
  <2>1. /\ Dir' = Directory(n.hdr) /\ reply'.op = "write"
        /\ \A d \in FDs : FdName(d)' = FName(n, d)
    BY <1>1, <1>5, FdAnswered, Zenon
  <2>2. Dir' = Dir /\ \A d \in FDs : FdName(d)' = FdName(d)
    BY <1>0, <1>2, <1>3, <2>1, NamesSeen, NamesKept
  <2> QED BY <1>4, <2>1, <2>2, SaysWrite
<1>6. CASE reply'.reset
  BY <1>4, <1>6, SaysNothing
<1> QED BY <1>5, <1>6

LEMMA StepDir ==
    ASSUME intact => InvDir, [Next]_vars
    PROVE  (intact' => InvDir') /\ [AsSFSSays]_vars
<1>1. intact' => InvOne'
  BY StepwiseOne DEF InvDir
<1>2. CASE UNCHANGED vars
  BY <1>1, <1>2 DEF InvDir, vars
<1> DEFINE P == AsSFSSays /\ (clean' /\ intact' => NULL \notin Directory(hdr'))
<1>3. ASSUME ~(clean' /\ intact') PROVE P
  BY <1>3, SaysNothing
<1>4. ASSUME Calls /\ clean' /\ intact' PROVE P
  <2>0. InvDir /\ Legal
    BY <1>4, CallsFrom DEF Legal
  <2>1. ASSUME NEW name \in Names, cfs_open(name) \/ cfs_remove(name) \/ cfs_coffee_reserve(name) PROVE P
    BY <2>0, <2>1, StepOpen, StepRemove, StepReserve
  <2>2. ASSUME NEW fd \in FDs, cfs_close(fd) PROVE P
    BY <2>0, <2>2, StepClose
  <2>3. ASSUME NEW fd \in FDs, NEW grow \in BOOLEAN, NEW log \in BOOLEAN, cfs_write(fd, grow, log, FALSE)
        PROVE  P
    BY <2>0, <2>3, StepWrite
  <2>4. ASSUME NEW fd \in FDs, cfs_write(fd, FALSE, TRUE, TRUE) PROVE P
    BY <2>0, <2>4, StepWrite
  <2> HIDE DEF P
  <2> QED BY <1>4, <2>1, <2>2, <2>3, <2>4 DEF Calls
<1>5. ASSUME cfs_format /\ clean' /\ intact' PROVE P
  <2>1. reply'.op = "format"
    BY <1>5 DEF cfs_format, NoReply
  <2>2. Directory(hdr') = {}
    BY <1>5 DEF cfs_format, Directory, Page
  <2> QED BY <2>1, <2>2, SaysNothing
<1>6. ASSUME ResetBetweenCalls /\ clean' /\ intact' PROVE P
  <2>1. reply'.reset /\ hdr' = hdr /\ clean /\ intact
    BY <1>6 DEF ResetBetweenCalls, NoReply
  <2> QED BY <2>1, SaysNothing DEF InvDir
<1>7. CASE Next
  <2>1. P
    <3> HIDE DEF P
    <3> QED BY <1>3, <1>4, <1>5, <1>6, <1>7 DEF Next
  <2> QED BY <1>1, <2>1 DEF InvDir
<1> QED BY <1>2, <1>7

\* To its callers Coffee is the back-end SFS was checked with: as long as the flash is
\* intact, with a slot to spare and no reset in the middle of a call, cfs_open answers
\* the lowest free descriptor or fails, and enters at most the name it was asked for;
\* cfs_remove takes the file of that name away, and nothing else; and no other call
\* changes the directory or what another descriptor is open on, though merge_log moves
\* files and their descriptors about.
THEOREM ContractKept == Spec => KeepsContract
<1>1. Init => (intact => InvDir)
  <2>1. Init => Directory(hdr) = {}
    BY DEF Init, Directory, Page
  <2>2. Init => InvOne
    BY Initially, EmptySingle DEF Init, InvOne
  <2> QED BY <2>1, <2>2 DEF InvDir
<1>2. (intact => InvDir) /\ [Next]_vars => (intact => InvDir)' /\ [AsSFSSays]_vars
  BY StepDir
<1> QED BY <1>1, <1>2, PTL DEF Spec, KeepsContract
=============================================================================
