------------------------------- MODULE Coffee -------------------------------
(***************************************************************************)
(* Coffee, cfs-coffee.c: the extents of files and logs on flash, the cache *)
(* of file objects, reservation, garbage collection and log merging, and   *)
(* resets of the node between any two writes to flash.  What files contain *)
(* is the subject of CoffeeFile; here a write is what it does to extents.  *)
(*                                                                         *)
(* A call is a function from machine states to machine states.  Besides    *)
(* the variables, a machine state holds the call's answer (ret) and every  *)
(* state the flash was in during the call (seen): a reset leaves one of    *)
(* these and loses the rest.  One program command of the chip is atomic.   *)
(***************************************************************************)
EXTENDS Integers, SequencesExt

CONSTANTS
    Names,
    COFFEE_SECTOR_COUNT, COFFEE_PAGES_PER_SECTOR,
    COFFEE_MAX_OPEN_FILES, COFFEE_FD_SET_SIZE,
    DynPages,           \* page_count(COFFEE_DYN_SIZE): the size of a new file
    LogPages,           \* the size of a log
    NULL

COFFEE_PAGE_COUNT == COFFEE_SECTOR_COUNT * COFFEE_PAGES_PER_SECTOR
Pages   == 0 .. (COFFEE_PAGE_COUNT - 1)
Sectors == 0 .. (COFFEE_SECTOR_COUNT - 1)
SectorPages(sector) ==
    (sector * COFFEE_PAGES_PER_SECTOR) .. ((sector + 1) * COFFEE_PAGES_PER_SECTOR - 1)
Slots   == 0 .. (COFFEE_MAX_OPEN_FILES - 1)
FDs     == 0 .. (COFFEE_FD_SET_SIZE - 1)

INVALID_PAGE == -1
FAILURE == -1

ASSUME CoffeeAssumption ==
    /\ COFFEE_SECTOR_COUNT \in Nat \ {0}
    /\ COFFEE_PAGES_PER_SECTOR \in Nat \ {0}
    /\ COFFEE_MAX_OPEN_FILES \in Nat \ {0}
    /\ COFFEE_FD_SET_SIZE \in 1..255       \* references is a byte
    /\ DynPages \in Nat \ {0} /\ LogPages \in Nat \ {0}
    /\ NULL \notin (Names \union Slots)

VARIABLES
    hdr,                \* flash: what a page reads as, taken for a header
    coffee_files,       \* the cache of file objects
    coffee_fd_set,      \* descriptor -> the slot of its file, or NULL
    next_free,
    gc_wait,
    clean,              \* history: since the last format no reset has cut a call, and
                        \* every call has found a slot to spare in the cache
    intact,             \* history: since the last format the flash has been such that
                        \* the code could go on from it (see Followed, TailsGo)
    reply               \* the last call and its answer

vars == <<hdr, coffee_files, coffee_fd_set, next_free, gc_wait, clean, intact, reply>>

\* A header.  log_page # INVALID_PAGE is HDR_FLAG_MODIFIED; whole is history:
\* the extent holds all of the file.  "data" is a page inside an extent, whose
\* bytes mean nothing as a header.
Page(kind) == [kind |-> kind, name |-> NULL, max_pages |-> 1,
               log_page |-> INVALID_PAGE, whole |-> TRUE]
NewFile(name, pages) == [Page("file") EXCEPT !.name = name, !.max_pages = pages]
NewLog(name) == [Page("log") EXCEPT !.name = name, !.max_pages = LogPages]

HDR_FREE(h)     == h.kind = "free"
HDR_ISOLATED(h) == h.kind = "isolated"
HDR_ACTIVE(h)   == h.kind \in {"file", "log"}
HDR_MODIFIED(h) == h.log_page # INVALID_PAGE

NoFile == [page |-> INVALID_PAGE, max_pages |-> 0, modified |-> FALSE, references |-> 0]
FILE_FREE(file) == file.max_pages = 0

NoReply == [op |-> "none", name |-> NULL, fd |-> FAILURE, result |-> 0,
            reset |-> FALSE]

\* What cfs_format leaves.
Init ==
    /\ hdr = [p \in Pages |-> Page("free")]
    /\ coffee_files = [s \in Slots |-> NoFile]
    /\ coffee_fd_set = [fd \in FDs |-> NULL]
    /\ next_free = 0
    /\ gc_wait = FALSE
    /\ clean = TRUE
    /\ intact = TRUE
    /\ reply = NoReply

-----------------------------------------------------------------------------
(* The walk over the extents *)

SectorBehind(page) == (page \div COFFEE_PAGES_PER_SECTOR + 1) * COFFEE_PAGES_PER_SECTOR

next_file(page, h) ==
    CASE HDR_FREE(h)     -> SectorBehind(page)
      [] HDR_ISOLATED(h) -> page + 1
      [] OTHER           -> page + h.max_pages

\* The pages whose headers a walk reads that starts at a page.
WalkFrom(image, start) ==
    LET from[page \in Nat] ==
            IF page >= COFFEE_PAGE_COUNT THEN {}
            ELSE {page} \union from[next_file(page, image[page])]
    IN  from[start]

\* The walk from the start of the flash.
Walk(image) == WalkFrom(image, 0)

\* The walk comes to every file and log.
AllFound(image) == \A p \in Pages : HDR_ACTIVE(image[p]) => p \in Walk(image)

\* The walk takes no data for a header.
HeadersOnly(image) == \A p \in Walk(image) : image[p].kind # "data"

\* The header, among those the walk reads, of the extent or free area page lies in.
Extent(walk, page) == Max({p \in walk : p <= page})

\* The log a file's header names is a log of that file.  False when a reset comes
\* between the two writes of remove_by_page.
LogAlive(image, p) ==
    HDR_MODIFIED(image[p]) =>
        image[image[p].log_page].kind = "log" /\ image[image[p].log_page].name = image[p].name

Active == {p \in Pages : HDR_ACTIVE(hdr[p])}
LogsAlive == \A p \in Active : LogAlive(hdr, p)

\* What a call finds on flash is what calls leave: a reset before it has left no file
\* without its log, and no data where the walk looks for a header.
Followed == LogsAlive /\ HeadersOnly(hdr)

\* The cache has a slot to spare, as it has when no more files are open than the
\* front-end lists (MAX_NB_FILES, sfs-ram.c:40, is less than COFFEE_MAX_OPEN_FILES,
\* cfs-coffee-arch.h:62).
Spare == \E s \in Slots : FILE_FREE(coffee_files[s]) \/ coffee_files[s].references = 0

-----------------------------------------------------------------------------
(* Machine states *)

\* intact: so far the call has erased no tail of an extent whose header stays.
Mem == [hdr |-> hdr, files |-> coffee_files, fds |-> coffee_fd_set, next_free |-> next_free,
        gc_wait |-> gc_wait, intact |-> TRUE, ret |-> 0,
        seen |-> {[hdr |-> hdr, intact |-> TRUE]}]

Answer(m, r) == [m EXCEPT !.ret = r]

\* The flash is written: afterwards it reads as image.
Flash(m, image) ==
    [m EXCEPT !.hdr = image, !.seen = @ \union {[hdr |-> image, intact |-> m.intact]}]

write_header(m, h, page) == Flash(m, [m.hdr EXCEPT ![page] = h])

\* The header of a new extent; its other pages are its data from now on.
NewExtent(m, h, page) ==
    Flash(m, [p \in Pages |-> CASE p = page -> h
                                [] page < p /\ p < page + h.max_pages -> Page("data")
                                [] OTHER -> m.hdr[p]])

COFFEE_ERASE(m, sector) ==
    Flash(m, [p \in Pages |-> IF p \in SectorPages(sector) THEN Page("free") ELSE m.hdr[p]])

-----------------------------------------------------------------------------
(* Garbage collection *)

\* fault: what reaches into a sector from the one before is forgotten
Stats_inside(image, walk, sector) == {image[p].kind : p \in walk \cap SectorPages(sector)}

\* The kinds of pages in a sector.
Stats(image, walk, sector) == {image[Extent(walk, p)].kind : p \in SectorPages(sector)}

\* How many pages of the next sector an obsolete extent reaches into, if it ends
\* there.
IsolationCount(image, walk, sector) ==
    LET end  == (sector + 1) * COFFEE_PAGES_PER_SECTOR
        p    == Extent(walk, end - 1)
        skip == p + image[p].max_pages - end
    IN  IF image[p].kind = "obsolete" /\ 0 < skip /\ skip < COFFEE_PAGES_PER_SECTOR
        THEN skip ELSE 0

Erasable(image, walk, sector) ==
    LET kinds == Stats(image, walk, sector)
    IN  /\ kinds \cap {"file", "log", "data"} = {}
        /\ kinds \cap {"obsolete", "isolated"} # {}

\* With an erased page, the header goes of the obsolete extent that reaches into its
\* sector from before.  Where it does not, the walk skips what is put there next.
TailsGo(image, walk) ==
    \A s \in Sectors :
        LET p == Extent(walk, s * COFFEE_PAGES_PER_SECTOR)
        IN  Erasable(image, walk, s) /\ image[p].kind = "obsolete" =>
                Erasable(image, walk, p \div COFFEE_PAGES_PER_SECTOR)

isolate_pages(m, start, count) ==
    LET isolated[k \in 0..COFFEE_PAGES_PER_SECTOR] ==
            CASE k = 0 -> m
              [] 0 < k /\ k <= count -> write_header(isolated[k - 1], Page("isolated"), start + k - 1)
              [] OTHER -> isolated[k - 1]
    IN  isolated[COFFEE_PAGES_PER_SECTOR]

\* fault: next_free stays behind the erased sectors
Lowest_stays(page, m) == m.next_free

Lowest(page, m) == IF page < m.next_free THEN page ELSE m.next_free

\* What is done to a sector of which the statistics are those of image.
CollectSector(m, image, walk, sector) ==
    LET first(s) == s * COFFEE_PAGES_PER_SECTOR
    IN  IF ~Erasable(image, walk, sector) THEN m
        ELSE COFFEE_ERASE(isolate_pages([m EXCEPT !.next_free = Lowest(first(sector), m)],
                                        first(sector + 1), IsolationCount(image, walk, sector)),
                          sector)

\* GC_GREEDY; with COFFEE_EXTENDED_WEAR_LEVELLING the only mode compiled in.
\* The statistics of a sector do not depend on what is done to those before it.
collect_garbage(m) ==
    LET walk == Walk(m.hdr)
        collected[s \in 0..COFFEE_SECTOR_COUNT] ==
            IF s = 0 THEN [m EXCEPT !.intact = @ /\ TailsGo(m.hdr, walk)]
            ELSE CollectSector(collected[s - 1], m.hdr, walk, s - 1)
    IN  collected[COFFEE_SECTOR_COUNT]

-----------------------------------------------------------------------------
(* The cache *)

\* A slot for the file at page: the first free one, or else the last that no
\* descriptor refers to, or else none.
load_file(m, page) ==
    LET free == {s \in Slots : FILE_FREE(m.files[s])}
        idle == {s \in Slots : m.files[s].references = 0}
        slot == IF free # {} THEN Min(free) ELSE Max(idle)
        h    == m.hdr[page]
    IN  IF free \union idle = {} THEN Answer(m, NULL)
        ELSE Answer([m EXCEPT !.files[slot] =
                        [page |-> page, max_pages |-> h.max_pages,
                         modified |-> HDR_MODIFIED(h),
                         references |-> m.files[slot].references]], slot)

\* fault: logs are not told from files
IsNamed_log(h, name) == HDR_ACTIVE(h) /\ h.name = name

IsNamed(h, name) == h.kind = "file" /\ h.name = name

\* fault: the cache is not looked at
find_file_walk(m, name) ==
    LET named == {p \in Walk(m.hdr) : IsNamed(m.hdr[p], name)}
    IN  IF named = {} THEN Answer(m, NULL) ELSE load_file(m, Min(named))

find_file(m, name) ==
    LET cached == {s \in Slots : /\ ~FILE_FREE(m.files[s])
                                 /\ IsNamed(m.hdr[m.files[s].page], name)}
        named  == {p \in Walk(m.hdr) : IsNamed(m.hdr[p], name)}
    IN  CASE cached # {} -> Answer(m, Min(cached))
          [] cached = {} /\ named # {} -> load_file(m, Min(named))
          [] OTHER -> Answer(m, NULL)

-----------------------------------------------------------------------------
(* Reserving and releasing extents *)

Enough(start, amount, end) == start + amount <= end

\* next_free moves behind what is taken from it.
Take(m, start, amount) ==
    Answer([m EXCEPT !.next_free = IF start = @ THEN start + amount ELSE @], start)

\* The lowest free page with enough free pages behind it, before the next page the
\* walk from next_free finds taken.  An extent that would end exactly at the end of
\* the flash is refused.
find_contiguous_pages(m, amount) ==
    LET walk   == WalkFrom(m.hdr, m.next_free)
        taken  == {p \in walk : ~HDR_FREE(m.hdr[p])}
        end(p) == Min({q \in taken \union {COFFEE_PAGE_COUNT} : q > p})
        fits   == {p \in walk \ taken : Enough(p, amount, end(p))}
    IN  Take(m, IF fits = {} \/ Min(fits) + amount >= COFFEE_PAGE_COUNT THEN INVALID_PAGE
                ELSE Min(fits), amount)

\* One more search after garbage collection, unless that is known to be in vain.
SearchAgain(m, amount) ==
    IF m.ret # INVALID_PAGE \/ m.gc_wait THEN m
    ELSE find_contiguous_pages(collect_garbage(m), amount)

\* The header is written before load_file looks for a slot.
Occupy(m, h) ==
    IF m.ret = INVALID_PAGE THEN Answer([m EXCEPT !.gc_wait = TRUE], NULL)
    ELSE load_file(NewExtent(m, h, m.ret), m.ret)

reserve(m, h) ==
    Occupy(SearchAgain(find_contiguous_pages(m, h.max_pages), h.max_pages), h)

\* fault: gc_wait is left alone
Awake_not(m) == m

Awake(m) == [m EXCEPT !.gc_wait = FALSE]

\* The part of remove_by_page that succeeds.
Obsolete(m, page, close_fds) ==
    LET of(fd) == m.fds[fd] # NULL /\ m.files[m.fds[fd]].page = page
        n == write_header(m, [Page("obsolete") EXCEPT !.max_pages = m.hdr[page].max_pages], page)
    IN  Answer([Awake(n) EXCEPT
                   !.fds = [fd \in FDs |-> IF close_fds /\ of(fd) THEN NULL ELSE @[fd]],
                   !.files = [s \in Slots |-> IF @[s].page = page THEN NoFile ELSE @[s]]], 0)

\* fault: a log is left behind
remove_by_page_log(m, page, remove_log, close_fds) == Obsolete(m, page, close_fds)

\* The log goes first; without it the file stays.
remove_by_page(m, page, remove_log, close_fds) ==
    LET h   == m.hdr[page]
        log == h.log_page
    IN  CASE ~HDR_ACTIVE(h) -> Answer(m, FAILURE)
          [] HDR_ACTIVE(h) /\ ~(remove_log /\ HDR_MODIFIED(h)) -> Obsolete(m, page, close_fds)
          [] OTHER -> IF ~HDR_ACTIVE(m.hdr[log]) THEN Answer(m, FAILURE)
                      ELSE Obsolete(Obsolete(m, log, FALSE), page, close_fds)

-----------------------------------------------------------------------------
(* Descriptors *)

Connect(m, fd, slot) ==
    Answer([m EXCEPT !.fds[fd] = slot, !.files[slot].references = @ + 1], fd)

FreeFds(m) == {fd \in FDs : m.fds[fd] = NULL}

\* What find_file or reserve has answered gets the lowest free descriptor.
ConnectFound(m) ==
    IF m.ret = NULL THEN Answer(m, FAILURE) ELSE Connect(m, Min(FreeFds(m)), m.ret)

\* The file is created if it has not been found.
CreateMissing(m, name, create) ==
    IF m.ret = NULL /\ create THEN reserve(m, NewFile(name, DynPages)) ELSE m

Open(m, name, create) ==
    IF FreeFds(m) = {} THEN Answer(m, FAILURE)
    ELSE ConnectFound(CreateMissing(find_file(m, name), name, create))

\* references is a byte
Close(m, fd) ==
    [m EXCEPT !.files[m.fds[fd]].references = (@ - 1) % 256, !.fds[fd] = NULL]

-----------------------------------------------------------------------------
(* Logs *)

\* The log is at page at, and the header h of the file in slot, written again, says so.
LinkLog(m, slot, page, h, at) ==
    Answer(write_header([m EXCEPT !.files[slot].modified = TRUE],
                        [h EXCEPT !.log_page = at], page), at)

\* m has answered the slot of the log, whose header is written.
FinishLog(m, slot, page, h) ==
    IF m.ret = NULL THEN Answer(m, FAILURE)
    ELSE LinkLog(m, slot, page, h, m.files[m.ret].page)

\* The file's header was read before the log is reserved.
create_log(m, slot) ==
    LET page == m.files[slot].page
        h    == m.hdr[page]
    IN  FinishLog(reserve(m, NewLog(h.name)), slot, page, h)

\* fault: descriptors stay with the old extent
Redirect_none(m, page, slot) == m

\* The descriptors of the file at page move to slot.
Redirect(m, page, slot) ==
    LET moved == {fd \in FDs : m.fds[fd] # NULL /\ m.files[m.fds[fd]].page = page}
    IN  [m EXCEPT !.fds = [fd \in FDs |-> IF fd \in moved THEN slot ELSE @[fd]],
                  !.files[slot].references = @ + Cardinality(moved)]

Extended(pages, extend) == IF extend = 1 THEN 2 * pages ELSE pages

\* The old extent and its log are removed; if that fails, the copy at page at is.
FinishMerge(m, fd, at) ==
    IF m.ret = FAILURE THEN Answer(Close(remove_by_page(m, at, FALSE, FALSE), fd), FAILURE)
    ELSE Close(m, fd)

\* m has answered the slot of the new extent, at page at.
Replace(m, fd, page, at, whole) ==
    LET copied == write_header(m, [m.hdr[at] EXCEPT !.whole = whole], at)
    IN  FinishMerge(remove_by_page(Redirect(copied, page, m.ret), page, TRUE, FALSE), fd, at)

CopyTo(m, fd, page, whole) ==
    IF m.ret = NULL THEN Answer(Close(m, fd), FAILURE)
    ELSE Replace(m, fd, page, m.files[m.ret].page, whole)

\* m has answered a descriptor on the file, which it is copied through.
MergeOpened(m, page, extend) ==
    LET h == m.hdr[page]
        new == [NewFile(h.name, Extended(h.max_pages, extend)) EXCEPT !.whole = FALSE]
    IN  IF m.ret = FAILURE THEN m
        ELSE CopyTo(reserve(m, new), m.ret, page, m.hdr[m.files[m.fds[m.ret]].page].whole)

\* The file at page, with what its log says, is copied to a new extent, twice as
\* long if extend is 1; then its log and itself are obsolete.
merge_log(m, page, extend) == MergeOpened(Open(m, m.hdr[page].name, FALSE), page, extend)

OneRecord(m) == IF m.ret = FAILURE THEN m ELSE Answer(m, 1)

\* 1: a record was written; 0: the log was full and has been merged.
write_log_page(m, slot, full) ==
    LET page == m.files[slot].page
    IN  IF ~HDR_MODIFIED(m.hdr[page]) THEN OneRecord(create_log(m, slot))
        ELSE IF full THEN merge_log(m, page, 0)
        ELSE Answer(m, 1)

\* grow: the data does not fit the extent.  log: it goes to the log, which an
\* unmodified file that is appended to does not need.  full: the log is full
\* before it (at most once in a call, and a file that has grown has no log).
Write(m, fd, grow, log, full) ==
    LET afterMerge(n) == IF n.ret = 0 THEN write_log_page(n, n.fds[fd], FALSE) ELSE n
        data(n) == IF n.ret = FAILURE THEN n
                   ELSE IF ~log /\ ~n.files[n.fds[fd]].modified THEN Answer(n, 1)
                   ELSE afterMerge(write_log_page(n, n.fds[fd], full))
    IN  data(IF grow THEN merge_log(m, m.files[m.fds[fd]].page, 1) ELSE Answer(m, 0))

-----------------------------------------------------------------------------
(* The calls *)

\* protected_mem is zero.
Zeroed ==
    /\ coffee_files' = [s \in Slots |-> NoFile]
    /\ coffee_fd_set' = [fd \in FDs |-> NULL]
    /\ next_free' = 0
    /\ gc_wait' = FALSE

Return(m) ==
    /\ hdr' = m.hdr
    /\ coffee_files' = m.files
    /\ coffee_fd_set' = m.fds
    /\ next_free' = m.next_free
    /\ gc_wait' = m.gc_wait
    /\ clean' = (clean /\ Spare)
    /\ intact' = (intact /\ Followed /\ m.intact)

\* The node resets after one of the call's writes, and the front-end does not format
\* the flash (NO_CFS_FORMAT).
Reset(m) ==
    \E cut \in m.seen :
        /\ cut.hdr # hdr
        /\ hdr' = cut.hdr
        /\ Zeroed
        /\ clean' = (clean /\ Spare /\ cut = [hdr |-> m.hdr, intact |-> m.intact])
        /\ intact' = (intact /\ Followed /\ cut.intact)

Call(m, call) ==
    \/ Return(m) /\ reply' = [call EXCEPT !.result = m.ret]
    \/ Reset(m) /\ reply' = [call EXCEPT !.reset = TRUE]

ResetBetweenCalls ==
    Zeroed /\ UNCHANGED <<hdr, clean, intact>> /\ reply' = [NoReply EXCEPT !.reset = TRUE]

FD_VALID(fd) == fd \in FDs /\ coffee_fd_set[fd] # NULL

cfs_open(name) ==
    Call(Open(Mem, name, TRUE), [NoReply EXCEPT !.op = "open", !.name = name])

cfs_close(fd) ==
    /\ FD_VALID(fd)
    /\ Call(Close(Mem, fd), [NoReply EXCEPT !.op = "close", !.fd = fd])

RemoveFound(m) ==
    IF m.ret = NULL THEN Answer(m, FAILURE)
    ELSE remove_by_page(m, m.files[m.ret].page, TRUE, TRUE)

cfs_remove(name) ==
    Call(RemoveFound(find_file(Mem, name)), [NoReply EXCEPT !.op = "remove", !.name = name])

cfs_write(fd, grow, log, full) ==
    /\ FD_VALID(fd)
    /\ Call(Write(Mem, fd, grow, log, full), [NoReply EXCEPT !.op = "write", !.fd = fd])

\* No duplicate of a file is reserved.
ReserveMissing(m, name) ==
    IF m.ret # NULL THEN Answer(m, FAILURE) ELSE reserve(m, NewFile(name, DynPages))

cfs_coffee_reserve(name) ==
    Call(ReserveMissing(find_file(Mem, name), name),
         [NoReply EXCEPT !.op = "reserve", !.name = name])

\* The flash with its first sectors erased.
ErasedTo(sectors) ==
    [p \in Pages |-> IF p < sectors * COFFEE_PAGES_PER_SECTOR THEN Page("free") ELSE hdr[p]]

\* One sector is erased after the other.  A format that is cut has to be repeated.
cfs_format ==
    /\ Zeroed
    /\ \/ /\ hdr' = [p \in Pages |-> Page("free")]
          /\ clean' = TRUE /\ intact' = TRUE
          /\ reply' = [NoReply EXCEPT !.op = "format"]
       \/ /\ \E sectors \in 1..(COFFEE_SECTOR_COUNT - 1) : hdr' = ErasedTo(sectors)
          /\ clean' = FALSE /\ intact' = FALSE
          /\ reply' = [NoReply EXCEPT !.op = "format", !.reset = TRUE]

Calls ==
    \/ \E name \in Names : cfs_open(name) \/ cfs_remove(name) \/ cfs_coffee_reserve(name)
    \/ \E fd \in FDs :
           \/ cfs_close(fd)
           \/ \E grow, log \in BOOLEAN : cfs_write(fd, grow, log, FALSE)
           \/ cfs_write(fd, FALSE, TRUE, TRUE)

Next == Calls \/ cfs_format \/ ResetBetweenCalls

Spec == Init /\ [][Next]_vars

-----------------------------------------------------------------------------
(* Properties *)

\* What is said of Coffee is said as long as it is intact: from the last format on
\* no garbage collection has erased the tail of an obsolete extent whose header stays,
\* no call has come after a reset that left a file without its log or data where the
\* walk looks for a header, and no format was cut.  WalkIntact says what is left of
\* the first condition alone; the README tells how often each fails.

\* The type of the state, as long as it is intact.
TypeOK ==
    /\ clean \in BOOLEAN /\ intact \in BOOLEAN
    /\ intact =>
          /\ hdr \in [Pages -> [kind : {"free", "file", "log", "obsolete", "isolated", "data"},
                                name : Names \union {NULL}, max_pages : 1..COFFEE_PAGE_COUNT,
                                log_page : Pages \union {INVALID_PAGE}, whole : BOOLEAN]]
          /\ coffee_files \in [Slots -> [page : Pages \union {INVALID_PAGE},
                                         max_pages : 0..COFFEE_PAGE_COUNT, modified : BOOLEAN,
                                         references : 0..COFFEE_FD_SET_SIZE]]
          /\ coffee_fd_set \in [FDs -> Slots \union {NULL}]
          /\ next_free \in 0..COFFEE_PAGE_COUNT
          /\ gc_wait \in BOOLEAN

ExtentOf(p) == p .. (p + hdr[p].max_pages - 1)

\* The walk finds every file, and never takes data for a header.
WalkFinds == AllFound(hdr) /\ HeadersOnly(hdr)

\* As long as no reset cuts a call, the walk finds every file.  False from the moment
\* garbage collection erases a sector into which an obsolete extent reaches whose own
\* header stays, and a new file is put there (next_file, cfs-coffee.c:437).
WalkIntact == clean => WalkFinds

\* As long as it is intact: extents in use lie inside the flash, do not overlap, and
\* no garbage collection and no reservation has touched a page of them, whatever calls
\* and resets came since (find_contiguous_pages, collect_garbage, isolate_pages).
ExtentsApart ==
    intact => \A p \in Active :
        /\ ExtentOf(p) \subseteq Pages
        /\ \A q \in ExtentOf(p) \ {p} : hdr[q].kind = "data"
        /\ \A q \in Active \ {p} : ExtentOf(p) \cap ExtentOf(q) = {}

\* As long as it is intact: what the cache says of an extent agrees with its header,
\* and no extent is cached twice, so descriptors of one file share one file object
\* (load_file, remove_by_page).
CacheAgrees ==
    intact => \A s \in Slots :
        LET file == coffee_files[s]
        IN  ~FILE_FREE(file) =>
                /\ file.page \in Active
                /\ file.max_pages = hdr[file.page].max_pages
                /\ file.modified = HDR_MODIFIED(hdr[file.page])
                /\ \A t \in Slots : coffee_files[t].page = file.page => s = t

\* As long as it is intact: references is the number of descriptors, through removals
\* that close them and merges that move them; no open descriptor is left without a file.
RefsExact ==
    intact =>
        /\ \A s \in Slots :
              coffee_files[s].references = Cardinality({fd \in FDs : coffee_fd_set[fd] = s})
        /\ \A fd \in FDs : FD_VALID(fd) => ~FILE_FREE(coffee_files[coffee_fd_set[fd]])

\* next_free hides no free page from find_contiguous_pages.
NothingHidden == \A p \in Walk(hdr) : HDR_FREE(hdr[p]) => next_free <= p

\* While gc_wait suppresses garbage collection there is nothing it could gain: a
\* sector it would erase is erased already (only what reaches into it is left).
GcWaitSound ==
    gc_wait /\ WalkFinds => \A s \in Sectors :
        Erasable(hdr, Walk(hdr), s) => \A p \in SectorPages(s) : HDR_FREE(hdr[p])

\* The files of which image holds an extent with all of their data, and their log.
Complete(image) ==
    {image[p].name : p \in {q \in Pages :
        /\ image[q].kind = "file" /\ image[q].whole /\ LogAlive(image, q)
        /\ \A r \in Pages : q < r /\ r < q + image[q].max_pages => image[r].kind = "data"}}

\* As long as it stays intact, no step loses a file: whatever call is made and wherever
\* a reset cuts it, a complete copy of every file remains on flash, with its log, except
\* for the file that was to be removed (merge_log copies before it removes;
\* collect_garbage).
KeepsFiles ==
    [][intact' /\ hdr' # hdr /\ reply'.op # "format" =>
         Complete(hdr) \ (IF reply'.op = "remove" THEN {reply'.name} ELSE {})
             \subseteq Complete(hdr')]_vars

\* As long as it is intact, no space that is free or could be reclaimed is kept from
\* the search of a reservation.  (What the search finds may still be refused: an area
\* that would end exactly at the end of the flash.)
SpaceFound == intact => NothingHidden /\ GcWaitSound

\* As long as it is intact, no reset has cut a call and no call was short of a slot in
\* the cache, there is one extent of each name, all of it there, and one owner of each
\* log (reserve allows duplicates).
OneCopy ==
    clean /\ intact =>
        /\ \A p, q \in Active :
              hdr[p].kind = hdr[q].kind /\ hdr[p].name = hdr[q].name => p = q
        /\ \A p \in Active : hdr[p].whole /\ LogAlive(hdr, p)
        /\ \A p \in Active : hdr[p].kind = "log" => \E q \in Active : hdr[q].log_page = p

\* The back-end as SFS sees it.
Dir == {hdr[p].name : p \in {q \in Pages : hdr[q].kind = "file"}}
FdName(fd) ==
    IF FD_VALID(fd) THEN hdr[coffee_files[coffee_fd_set[fd]].page].name ELSE NULL

F == INSTANCE SFS WITH
         SMs <- {}, Bits <- {}, Wanted <- {}, Granted <- {}, MAX_NB_FILES <- 1,
         MAX_NB_PERMS <- 1, MAX_NB_OPEN_FILES <- COFFEE_FD_SET_SIZE,
         NO_CFS_FORMAT <- TRUE, INIT_DONE <- TRUE,
         perm_pool <- <<>>, file_pool <- <<>>, open_file_list <- <<>>,
         free_perm_list <- <<>>, free_file_list <- <<>>,
         fd_cache <- [fd \in FDs |-> FdName(fd)],
         cfs_fd <- [fd \in FDs |-> FdName(fd)],
         cfs_dir <- Dir

\* What SFS says of a call to its back-end.  The front-end removes no open file.
AsSFSSays ==
    LET kept(S) == \A fd \in S : FdName(fd)' = FdName(fd)
        opened  == IF reply'.op = "open" THEN {reply'.result} \cap FDs ELSE {}
        closed  == IF reply'.op = "close" THEN {reply'.fd} ELSE {}
        ofFront == reply'.op # "remove" \/ \A fd \in FDs : FdName(fd) # reply'.name
    IN  clean' /\ intact' /\ ~reply'.reset /\ reply'.op # "format" /\ ofFront =>
            /\ reply'.op = "open" =>
                  [fd |-> reply'.result, dir |-> Dir'] \in F!cfs_open(reply'.name)
            /\ \A fd \in opened : FdName(fd)' = reply'.name
            /\ \A fd \in closed : FdName(fd)' = NULL
            /\ kept(FDs \ (opened \union closed))
            /\ reply'.op = "remove" =>
                  /\ [ok |-> reply'.result = 0, dir |-> Dir'] \in F!cfs_remove(reply'.name)
                  /\ reply'.name \in Dir => reply'.result = 0
            /\ reply'.op \in {"close", "write"} => Dir' = Dir

\* As long as it is intact, no reset has cut a call and no call was short of a slot in
\* the cache, every call of the front-end does to the directory and the descriptors what
\* SFS says it does, and the removal of a file succeeds, also when a call merges a log
\* on the way or collects garbage.
KeepsContract == [][AsSFSSays]_vars
=============================================================================
