----------------------------- MODULE CoffeeFile -----------------------------
(***************************************************************************)
(* What one file of Coffee holds, cfs-coffee.c: its bytes on flash, the    *)
(* end of file the cache remembers, seeks, appends, the growth of the      *)
(* extent by merge_log, and the micro log.  Bytes are moved one at a time, *)
(* as the front-end does.  Where the extents lie, and resets during calls, *)
(* are the subject of Coffee; here the node resets between calls, or when  *)
(* a call hangs.                                                           *)
(*                                                                         *)
(* get_record_index and find_next_record read the index of the log into    *)
(* the pointer to their buffer and then look where that points to          *)
(* (:740-750, :911-922).  Which record they find is left open, and so is   *)
(* what is read through the log.  With more than one record they also      *)
(* overwrite what lies behind the pointer, which is undefined: from the    *)
(* first such call on, the model stands only for builds in which nothing   *)
(* that is used lies there.                                                *)
(***************************************************************************)
EXTENDS Integers, FiniteSetsExt

CONSTANTS
    COFFEE_PAGE_SIZE,
    HEADER,             \* sizeof(struct file_header)
    DynPages, MaxPages, \* of a new file; and what the flash has room for
    LogRecords,         \* COFFEE_LOG_SIZE / COFFEE_PAGE_SIZE
    PointerSize,        \* sizeof(buf): how much merge_log copies at a time
    COFFEE_FD_SET_SIZE,
    Heap,               \* how often malloc succeeds after a reset
    Byte,               \* 0, the erased byte, and others; programming 0 does nothing
    Offsets,            \* the arguments of cfs_seek
    NULL

FDs == 0 .. (COFFEE_FD_SET_SIZE - 1)
FAILURE == -1
UNKNOWN_OFFSET == -1

\* how many bytes of a file fit an extent
Capacity(pages) == pages * COFFEE_PAGE_SIZE - HEADER

ASSUME FileAssumption ==
    /\ COFFEE_PAGE_SIZE \in Nat /\ HEADER \in Nat /\ HEADER < COFFEE_PAGE_SIZE
    /\ DynPages \in Nat \ {0} /\ MaxPages \in Nat /\ DynPages <= MaxPages
    /\ LogRecords \in Nat \ {0} /\ PointerSize \in Nat \ {0}
    /\ COFFEE_FD_SET_SIZE \in Nat \ {0} /\ Heap \in Nat
    /\ 0 \in Byte /\ Byte \subseteq 0..255 /\ Offsets \subseteq Int /\ NULL \notin Int

VARIABLES
    max_pages, cell,    \* flash: the extent, and its bytes behind the header
    modified, index,    \* flash: there is a log, and its records in use
    end, record_count,  \* the cached file object: both -1 if unknown
    fds,                \* descriptor -> its offset, or NULL
    heap,               \* how often malloc will still succeed
    hung,               \* whether DO_MALLOC is in its endless loop, and where
    written,            \* history: offset -> the byte last written there, or 0
    sure,               \* history: no byte was overwritten, no seek went past the
                        \* capacity, no call hung
    reply

flash == <<max_pages, cell, modified, index>>
vars == <<flash, end, record_count, fds, heap, hung, written, sure, reply>>

NoReply == [op |-> "none", fd |-> FAILURE, offset |-> 0, byte |-> 0, result |-> 0]
Erased(pages) == [i \in 0 .. (Capacity(pages) - 1) |-> 0]

\* The file has just been created.
Init ==
    /\ max_pages = DynPages /\ cell = Erased(DynPages)
    /\ modified = FALSE /\ index = {}
    /\ end = 0 /\ record_count = -1
    /\ fds = [fd \in FDs |-> NULL]
    /\ heap = Heap /\ hung = "no"
    /\ written = Erased(MaxPages) /\ sure = TRUE
    /\ reply = NoReply

Answer(call, result) == reply' = [call EXCEPT !.result = result]

-----------------------------------------------------------------------------
(* Reading *)

\* fault: the byte found is not counted
file_end_short == Max({0} \union {i \in DOMAIN cell : cell[i] # 0})

\* One behind the last byte of the extent that is not zero.
file_end == Max({0} \union {i + 1 : i \in {j \in DOMAIN cell : cell[j] # 0}})

\* What a read at offset i may return: behind the extent lies the header of
\* another, and through the log comes whatever the record found holds.
ReadAt(i) == IF modified \/ i \notin DOMAIN cell THEN Byte ELSE {cell[i]}

\* The lowest free descriptor; the first open of a file that is not cached
\* looks for its end.
cfs_open ==
    LET free == {fd \in FDs : fds[fd] = NULL}
    IN  /\ free # {}
        /\ end' = IF end = UNKNOWN_OFFSET THEN file_end ELSE end
        /\ fds' = [fds EXCEPT ![Min(free)] = 0]
        /\ Answer([NoReply EXCEPT !.op = "open"], Min(free))
        /\ UNCHANGED <<flash, record_count, heap, hung, written, sure>>

cfs_close(fd) ==
    /\ fds' = [fds EXCEPT ![fd] = NULL]
    /\ Answer([NoReply EXCEPT !.op = "close", !.fd = fd], 0)
    /\ UNCHANGED <<flash, end, record_count, heap, hung, written, sure>>

\* fault: the end of the file is not looked at
Readable_past(offset) == offset < Capacity(max_pages)

Readable(offset) == offset < end

\* malloc fails and the node hangs.
Hang(call) ==
    /\ hung' = "log"
    /\ sure' = FALSE
    /\ written' = Erased(MaxPages)
    /\ reply' = call
    /\ UNCHANGED <<flash, end, record_count, fds, heap>>

\* get_record_index takes memory and never frees it.
cfs_read(fd) ==
    LET call == [NoReply EXCEPT !.op = "read", !.fd = fd, !.offset = fds[fd]]
    IN  \/ /\ ~Readable(fds[fd])
           /\ Answer(call, 0)
           /\ UNCHANGED <<flash, end, record_count, fds, heap, hung, written, sure>>
        \/ /\ Readable(fds[fd]) /\ modified /\ heap = 0
           /\ Hang(call)
        \/ /\ Readable(fds[fd]) /\ (modified => heap > 0)
           /\ heap' = IF modified THEN heap - 1 ELSE heap
           /\ fds' = [fds EXCEPT ![fd] = @ + 1]
           /\ \E b \in ReadAt(fds[fd]) : Answer([call EXCEPT !.byte = b], 1)
           /\ UNCHANGED <<flash, end, record_count, hung, written, sure>>

\* The bound is the extent with its header, which leaves that many bytes too many.
cfs_seek(fd, offset, from) ==
    LET call == [NoReply EXCEPT !.op = "seek", !.fd = fd, !.offset = offset]
        new_offset == from + offset
    IN  IF new_offset < 0 \/ new_offset > max_pages * COFFEE_PAGE_SIZE
        THEN /\ Answer(call, FAILURE)
             /\ UNCHANGED <<flash, end, record_count, fds, heap, hung, written, sure>>
        ELSE /\ end' = Max({end, new_offset})
             /\ fds' = [fds EXCEPT ![fd] = new_offset]
             /\ sure' = (sure /\ new_offset <= Capacity(max_pages))
             /\ written' = IF sure' THEN written ELSE Erased(MaxPages)
             /\ Answer(call, new_offset)
             /\ UNCHANGED <<flash, record_count, heap, hung>>

-----------------------------------------------------------------------------
(* Writing.  A state s of a write holds the flash, the file object, the     *)
(* heap, the offset, and whether the write went on, failed or hung where.   *)

Now(fd) == [max_pages |-> max_pages, cell |-> cell, modified |-> modified, index |-> index,
            end |-> end, record_count |-> record_count, heap |-> heap, offset |-> fds[fd],
            direct |-> FALSE, state |-> "on"]

Failed(s) == [s EXCEPT !.state = "failed"]
Hung(s, where) == [s EXCEPT !.state = where]

\* A byte is programmed where old is: bits are set and never cleared.
Programmed(old, b) == Max({old, b})

\* The parts in which merge_log reads the file, and what malloc is asked for: a
\* buffer for each part and for the read that finds no more, and, if there is a
\* log, one in each look at its index.
Parts(s) == {i \in 0 .. (s.end - 1) : i % PointerSize = 0}
Looks(s) == {i \in 0 .. (s.end - 1) : i % PointerSize = 0 \/ i % COFFEE_PAGE_SIZE = 0}
Cost(s) == Cardinality(Parts(s)) + 1 + (IF s.modified THEN Cardinality(Looks(s)) ELSE 0)

\* fault: the last, incomplete part is not copied
Part_whole(n) == n - (n % PointerSize)

\* how many bytes merge_log copies of a file of n
Part(n) == n

\* What an extent of pages may hold after the first n bytes were copied to it.  What
\* lies behind its capacity is written elsewhere.
Copies(pages, n) ==
    {c \in [DOMAIN Erased(pages) -> Byte] :
        \A i \in DOMAIN c : c[i] \in IF i < n THEN ReadAt(i) ELSE {0}}

\* The file moves to an extent of pages, if there is a descriptor, an extent, and
\* memory for it.  (Nothing else has been written by then.)
merge_log(s, pages) ==
    LET room == {fd \in FDs : fds[fd] = NULL} # {} /\ pages <= MaxPages
    IN  {Failed(s)} \union
        IF ~room THEN {}
        ELSE IF s.heap < Cost(s) THEN {Hung(s, "merge")}
        ELSE {[s EXCEPT !.max_pages = pages, !.cell = c, !.modified = FALSE, !.index = {},
                        !.record_count = -1, !.heap = @ - Cost(s)] :
                 c \in Copies(pages, Part(s.end))}

Grow(s) == IF s.offset < Capacity(s.max_pages) THEN {s} ELSE merge_log(s, 2 * s.max_pages)

\* The record goes to slot r of the log, in buffers that are never freed.  Behind
\* the end, a byte that is not zero marks the new end in the extent.
Record(s, r) ==
    IF s.heap < 2 THEN Hung(s, "log")
    ELSE [s EXCEPT !.index = @ \union {r}, !.record_count = r + 1, !.heap = @ - 2,
                   !.offset = @ + 1, !.end = Max({@, s.offset + 1}),
                   !.cell = IF s.offset >= s.end /\ s.offset \in DOMAIN s.cell
                            THEN [s.cell EXCEPT ![s.offset] = Programmed(@, Max(Byte))]
                            ELSE s.cell]

create_log(s) == {Failed(s), Record([s EXCEPT !.modified = TRUE], 0)}

\* Any record may be found.  Of what COFFEE_READ overwrites, a batch of indices long, only
\* the pointer itself is in the model (:922; of get_record_index :750).
find_next_record(s) == IF s.record_count >= 0 THEN {s.record_count} ELSE 0..LogRecords

\* fault: one record too many
Full_late(r) == r > LogRecords

Full(r) == r >= LogRecords

\* A full log is merged, and a new one begun; the search takes memory.
write_log_page(s) ==
    LET t == IF s.record_count >= 0 THEN s ELSE [s EXCEPT !.heap = @ - 1]
        logged(r) ==
            IF ~Full(r) THEN {Record(t, r)}
            ELSE UNION {IF u.state = "on" THEN create_log(u) ELSE {u} :
                            u \in merge_log(t, t.max_pages)}
    IN  IF ~s.modified THEN create_log(s)
        ELSE IF t.heap < 0 THEN {Hung(s, "log")}
        ELSE UNION {logged(r) : r \in find_next_record(s)}

Appends(s) == ~s.modified /\ s.offset >= s.end

\* One byte: appended in place to a file without a log, otherwise to the log.
Put(s, b) ==
    IF s.state # "on" THEN {s}
    ELSE IF ~Appends(s) THEN write_log_page(s)
    ELSE {[s EXCEPT !.cell[s.offset] = Programmed(@, b), !.offset = @ + 1,
                    !.end = Max({@, s.offset + 1}), !.direct = TRUE]}

cfs_write(fd, b) ==
    LET call == [NoReply EXCEPT !.op = "write", !.fd = fd, !.offset = fds[fd], !.byte = b]
    IN  \E s \in UNION {Put(t, b) : t \in Grow(Now(fd))} :
            /\ max_pages' = s.max_pages /\ cell' = s.cell
            /\ modified' = s.modified /\ index' = s.index
            /\ end' = s.end /\ record_count' = s.record_count /\ heap' = s.heap
            /\ fds' = [fds EXCEPT ![fd] = s.offset]
            /\ hung' = IF s.state \in {"log", "merge"} THEN s.state ELSE "no"
            /\ sure' = (sure /\ (s.direct \/ s.state = "failed"))
            /\ written' = CASE sure' /\ s.direct -> [written EXCEPT ![fds[fd]] = b]
                             [] sure' /\ ~s.direct -> written
                             [] OTHER -> Erased(MaxPages)
            /\ Answer(call, IF s.state = "failed" THEN FAILURE ELSE 1)

-----------------------------------------------------------------------------
\* Another file takes the file object, which no descriptor refers to.
Evict ==
    /\ \A fd \in FDs : fds[fd] = NULL
    /\ end' = UNKNOWN_OFFSET /\ record_count' = -1
    /\ reply' = [NoReply EXCEPT !.op = "evict"]
    /\ UNCHANGED <<flash, fds, heap, hung, written, sure>>

\* After a merge that hung, the walk may find the incomplete copy.
Reset ==
    /\ \/ UNCHANGED flash
       \/ /\ hung = "merge"
          /\ max_pages' \in {p \in {max_pages, 2 * max_pages} : p <= MaxPages}
          /\ \E n \in 0..end : cell' \in Copies(max_pages', n)
          /\ modified' = FALSE /\ index' = {}
    /\ end' = UNKNOWN_OFFSET /\ record_count' = -1
    /\ fds' = [fd \in FDs |-> NULL]
    /\ heap' = Heap /\ hung' = "no"
    /\ reply' = [NoReply EXCEPT !.op = "reset"]
    /\ UNCHANGED <<written, sure>>

Next ==
    \/ /\ hung = "no"
       /\ \/ cfs_open \/ Evict
          \/ \E fd \in FDs :
                 /\ fds[fd] # NULL
                 /\ \/ cfs_close(fd) \/ cfs_read(fd)
                    \/ \E b \in Byte : cfs_write(fd, b)
                    \/ \E offset \in Offsets, from \in {0, fds[fd], end} :
                           cfs_seek(fd, offset, from)
    \/ Reset

Spec == Init /\ [][Next]_vars

-----------------------------------------------------------------------------
(* Properties *)

\* The type of the state.
TypeOK ==
    /\ max_pages \in 1..MaxPages
    /\ cell \in [DOMAIN Erased(max_pages) -> Byte]
    /\ modified \in BOOLEAN /\ index \subseteq 0..(LogRecords - 1)
    /\ end \in -1 .. (MaxPages * COFFEE_PAGE_SIZE)
    /\ record_count \in -1..LogRecords
    /\ fds \in [FDs -> (0 .. (MaxPages * COFFEE_PAGE_SIZE)) \union {NULL}]
    /\ heap \in 0..Heap /\ hung \in {"no", "log", "merge"}
    /\ written \in [DOMAIN Erased(MaxPages) -> Byte] /\ sure \in BOOLEAN

\* No descriptor stands behind the end of its file, which the subtraction in
\* cfs_read relies on, whoever else moved the end or the extent meanwhile; and
\* the end is one the extent can have.
PositionInFile ==
    \A fd \in FDs : fds[fd] # NULL =>
        /\ fds[fd] <= end
        /\ sure => end <= Capacity(max_pages)

\* As long as nothing is overwritten, the end a search of the flash finds is the end
\* of what was written but for the zeros it ends with, and no end in the cache is
\* before that: nothing that was written is cut off (file_end, merge_log).
EndFound ==
    sure => LET last == Max({0} \union {i + 1 : i \in {j \in DOMAIN written : written[j] # 0}})
            IN  /\ end # UNKNOWN_OFFSET => last <= end
                /\ file_end = last

\* As long as nothing is overwritten, a read returns what was last written at its
\* offset, or zero, through other descriptors, growth, eviction and resets.
ReadsBack ==
    [][sure /\ reply'.op = "read" /\ reply'.result = 1 =>
          reply'.byte = written[reply'.offset]]_vars

\* "Fill the buffer by copying from the log in first hand" (cfs-coffee.c:1157): a
\* byte reads as it was last written, also when it was overwritten.
OverwritesReadBack ==
    [][reply.op = "write" /\ reply.result = 1 /\ reply'.op = "read" /\ reply'.result = 1
          /\ reply'.offset = reply.offset => reply'.byte = reply.byte]_vars
=============================================================================
