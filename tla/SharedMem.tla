----------------------------- MODULE SharedMem -----------------------------
(***************************************************************************)
(* The shared-memory back-end, shared-mem.c.  The allocator is its         *)
(* contract: a request gets a block nobody holds, or fails.  What files    *)
(* contain is left out; an access is the block and the offset it goes to.  *)
(*                                                                         *)
(* shm_list is the sequence of its entries.  An entry is the block it      *)
(* lives in; a freed block keeps its contents until it is handed out       *)
(* again.  The clients of these calls are the handlers of SFS.             *)
(***************************************************************************)
EXTENDS Integers, SequencesExt

CONSTANTS
    Names,
    Block,              \* the blocks the allocator has
    FileSizes,          \* the sizes files are created with
    Offsets,            \* the arguments of cfs_seek
    MAX_NB_OPEN_FILES,
    NULL

SUCCESS == 1
FAILURE == -1
CFS_SEEK_SET == 0
CFS_SEEK_CUR == 1
CFS_SEEK_END == 2

FDs == 0 .. (MAX_NB_OPEN_FILES - 1)

\* cfs_offset_t is an int of 16 bits
INT_MAX == 32767
Wrap(n) == ((n + INT_MAX + 1) % (2 * (INT_MAX + 1))) - (INT_MAX + 1)
OffsetT == -(INT_MAX + 1) .. INT_MAX

ASSUME ShmAssumption ==
    /\ MAX_NB_OPEN_FILES \in Nat \ {0}
    /\ FileSizes \subseteq 0..INT_MAX /\ Offsets \subseteq OffsetT
    /\ NULL \notin (Block \union Names \union [shm : Block, offset : OffsetT, at : Block])

VARIABLES
    live,               \* the blocks in use, as the allocator sees it
    entry,              \* what is in a block that holds, or held, a shm_entry
    shm_list,
    open_fd_cache,      \* fd -> its open_shm_entry (at: the block it is in), or NULL
    reply

vars == <<live, entry, shm_list, open_fd_cache, reply>>

NoEntry == [name |-> NULL, malloc_ptr |-> NULL, size |-> 0]
\* freed: the block the call passed to my_free, if it is not one of its own
NoReply == [op |-> "none", name |-> NULL, fd |-> FAILURE, result |-> SUCCESS, freed |-> NULL]

\* What cfs_format, the first call of the front-end, leaves.
Init ==
    /\ live = {}
    /\ entry = [b \in Block |-> NoEntry]
    /\ shm_list = <<>>
    /\ open_fd_cache = [fd \in FDs |-> NULL]
    /\ reply = NoReply

-----------------------------------------------------------------------------
(* Helpers *)

Entries == ToSet(shm_list)

my_malloc(used) == (Block \ used) \union {NULL}

\* fault: only the newest entry is looked at
Find_newest(name) ==
    IF shm_list # <<>> /\ entry[Head(shm_list)].name = name THEN Head(shm_list) ELSE NULL

\* The entry called name, the only one (NamesUnique); or NULL.
Find(name) ==
    LET found == {e \in Entries : entry[e].name = name}
    IN  IF found = {} THEN NULL ELSE CHOOSE e \in found : TRUE

Unlink(s, x) == RemoveAt(s, CHOOSE i \in 1..Len(s) : s[i] = x)

\* fault: any descriptor will do
FreeFd_any == FDs

\* the first free descriptor, if there is one
FreeFd == {fd \in FDs : /\ open_fd_cache[fd] = NULL
                        /\ \A g \in FDs : open_fd_cache[g] = NULL => fd <= g}

\* fault: CHK_MALLOC is forgotten
Structs_unchecked(used) == my_malloc(used)

\* what an open_shm_entry can be put in
Structs(used) == my_malloc(used) \ {NULL}

\* A descriptor and a struct for entry shm, with used being in use; or failure.
Opened(call, shm, used) ==
    \E fd \in FreeFd, e \in Structs(used) :
        /\ open_fd_cache' = [open_fd_cache EXCEPT ![fd] = [shm |-> shm, offset |-> 0, at |-> e]]
        /\ live' = used \union {e}
        /\ reply' = [call EXCEPT !.fd = fd, !.result = fd]

\* my_malloc may fail for want of memory whatever is in use.
NotOpened(call, used) ==
    /\ live' = used
    /\ reply' = [call EXCEPT !.result = FAILURE]
    /\ UNCHANGED open_fd_cache

-----------------------------------------------------------------------------
(* The calls *)

OpenExisting(call) ==
    /\ Find(call.name) # NULL
    /\ Opened(call, Find(call.name), live) \/ NotOpened(call, live)
    /\ UNCHANGED <<entry, shm_list>>

\* fault: the entry and the data of a new file share a block
Memory_shared == {<<b, b>> : b \in my_malloc(live)}

\* The memory of a new file, its data and its entry: both are got, or neither.
Memory == {m \in my_malloc(live) \X my_malloc(live) : m[1] = NULL \/ m[1] # m[2]}

\* The entry is linked before a descriptor is looked for; if there is none, both
\* blocks are freed and the entry stays linked.
OpenNew(call, size) ==
    /\ Find(call.name) = NULL
    /\ \E m \in Memory :
        \/ /\ NULL \in {m[1], m[2]}
           /\ NotOpened(call, live)
           /\ UNCHANGED <<entry, shm_list>>
        \/ /\ NULL \notin {m[1], m[2]}
           /\ entry' = [entry EXCEPT ![m[2]] =
                  [name |-> call.name, malloc_ptr |-> m[1], size |-> size]]
           /\ shm_list' = <<m[2]>> \o shm_list
           /\ Opened(call, m[2], live \union {m[1], m[2]}) \/ NotOpened(call, live)

cfs_open(name, size) ==
    LET call == [NoReply EXCEPT !.op = "open", !.name = name]
    IN  OpenExisting(call) \/ OpenNew(call, size)

Fail(call) ==
    /\ reply' = [call EXCEPT !.result = FAILURE]
    /\ UNCHANGED <<live, entry, shm_list, open_fd_cache>>

cfs_close(fd) ==
    LET call == [NoReply EXCEPT !.op = "close", !.fd = fd]
    IN  \/ open_fd_cache[fd] = NULL /\ Fail(call)
        \/ /\ open_fd_cache[fd] # NULL
           /\ live' = live \ {open_fd_cache[fd].at}
           /\ open_fd_cache' = [open_fd_cache EXCEPT ![fd] = NULL]
           /\ reply' = [call EXCEPT !.freed = open_fd_cache[fd].at]
           /\ UNCHANGED <<entry, shm_list>>

\* Descriptor fd goes to new_offset if that may be; otherwise the call fails.
Move(call, new_offset, valid) ==
    \/ ~valid /\ Fail(call)
    \/ /\ valid
       /\ open_fd_cache' = [open_fd_cache EXCEPT ![call.fd].offset = new_offset]
       /\ reply' = call
       /\ UNCHANGED <<live, entry, shm_list>>

\* One byte, at the offset, which moves on; EOF at the end.  cfs_read and
\* cfs_write differ only in the direction.
Transfer(op, fd) ==
    LET call == [NoReply EXCEPT !.op = op, !.fd = fd]
        e    == open_fd_cache[fd]
    IN  \/ e = NULL /\ Fail(call)
        \/ e # NULL /\ Move(call, Wrap(e.offset + 1), e.offset < entry[e.shm].size)

\* fault: the sign of the new offset is not looked at
InFile_unsigned(offset, e) == offset < entry[e.shm].size

InFile(offset, e) == 0 <= offset /\ offset < entry[e.shm].size

cfs_seek(fd, offset, whence) ==
    LET call == [NoReply EXCEPT !.op = "seek", !.fd = fd]
        e    == open_fd_cache[fd]
        new_offset == IF whence = CFS_SEEK_SET THEN offset ELSE Wrap(e.offset + offset)
    IN  \/ e = NULL /\ Fail(call)
        \/ /\ e # NULL
           /\ Move(call, new_offset,
                   whence \in {CFS_SEEK_SET, CFS_SEEK_CUR} /\ InFile(new_offset, e))

\* "the front-end ensures a logical file is not removed when there are still
\* open fds"; it does (SFS!OpenCountExact, SFS!BackendInSync).  The entry is
\* freed, the file's data is not.
cfs_remove(name) ==
    LET call == [NoReply EXCEPT !.op = "remove", !.name = name]
        cur  == Find(name)
    IN  /\ \A fd \in FDs : open_fd_cache[fd] # NULL =>
               entry[open_fd_cache[fd].shm].name # name
        /\ \/ /\ cur = NULL
              /\ reply' = call
              /\ UNCHANGED <<live, shm_list>>
           \/ /\ cur # NULL
              /\ shm_list' = Unlink(shm_list, cur)
              /\ live' = live \ {cur}
              /\ reply' = [call EXCEPT !.freed = cur]
        /\ UNCHANGED <<entry, open_fd_cache>>

Next ==
    \/ \E name \in Names :
           \/ \E size \in FileSizes : cfs_open(name, size)
           \/ cfs_remove(name)
    \/ \E fd \in FDs :
           \/ cfs_close(fd)
           \/ \E op \in {"read", "write"} : Transfer(op, fd)
           \/ \E offset \in Offsets, whence \in {CFS_SEEK_SET, CFS_SEEK_CUR, CFS_SEEK_END} :
                  cfs_seek(fd, offset, whence)

Spec == Init /\ [][Next]_vars

-----------------------------------------------------------------------------
(* Properties, checked up to the first open that leaves a freed entry on the   *)
(* list: such a state is reached, but not left.                                *)

\* The type of the state.
TypeOK ==
    /\ live \subseteq Block
    /\ entry \in [Block -> [name : Names \union {NULL}, malloc_ptr : Block \union {NULL},
                            size : FileSizes \union {0}]]
    /\ shm_list \in Seq(Block)
    /\ open_fd_cache \in [FDs -> [shm : Block, offset : OffsetT, at : Block] \union {NULL}]

OpenFds == {fd \in FDs : open_fd_cache[fd] # NULL}

\* What is on shm_list is memory in use.  False from the moment an open fails for
\* want of a descriptor or a struct for it: the new entry is freed but not unlinked.
EntriesLive == \A e \in Entries : {e, entry[e].malloc_ptr} \subseteq live

\* Unless a freed entry is on the list, every block in use has one purpose: it is
\* the entry of one file, the data of one file, or the struct of one descriptor.
OnePurpose ==
    EntriesLive =>
        /\ IsInjective(shm_list)
        /\ \A d, e \in Entries :
              /\ entry[d].malloc_ptr # e
              /\ entry[d].malloc_ptr = entry[e].malloc_ptr => d = e
        /\ \A fd \in OpenFds :
              /\ open_fd_cache[fd].at \in live
              /\ \A e \in Entries : open_fd_cache[fd].at \notin {e, entry[e].malloc_ptr}
              /\ \A g \in OpenFds : open_fd_cache[fd].at = open_fd_cache[g].at => fd = g

\* Until an open fails after it has linked its entry (EntriesLive; from then on the
\* list goes through memory that anybody may be given): a descriptor leads to a file
\* on the list, whatever was created and removed since it was opened, and stands in
\* it or at its end, wherever it was sent (cfs_seek, cfs_read, cfs_write).
PositionInFile ==
    \A fd \in OpenFds :
        LET e == open_fd_cache[fd]
        IN  /\ e.shm \in Entries
            /\ e.offset \in 0 .. entry[e.shm].size

\* Until such an open, a name is on the list once, so the search of cfs_remove removes
\* the file (cfs_open, cfs_remove).
NamesUnique == \A d, e \in Entries : entry[d].name = entry[e].name => d = e

\* The back-end as SFS sees it.
Dir == {entry[e].name : e \in Entries}
FdName(fd) == IF open_fd_cache[fd] = NULL THEN NULL ELSE entry[open_fd_cache[fd].shm].name

F == INSTANCE SFS WITH
         SMs <- {}, Bits <- {}, Wanted <- {}, Granted <- {}, MAX_NB_FILES <- 1,
         MAX_NB_PERMS <- 1, NO_CFS_FORMAT <- TRUE, INIT_DONE <- TRUE,
         perm_pool <- <<>>, file_pool <- <<>>, open_file_list <- <<>>,
         free_perm_list <- <<>>, free_file_list <- <<>>,
         fd_cache <- [fd \in FDs |-> FdName(fd)],
         cfs_fd <- [fd \in FDs |-> FdName(fd)],
         cfs_dir <- Dir

\* Until such an open, and in the call that does it, every call does to the directory
\* and the descriptors what the model of the front-end says it does (SFS!cfs_open,
\* SFS!CLOSE_FD, SFS!cfs_remove).
KeepsContract ==
    [][LET kept(S) == \A fd \in S : FdName(fd)' = FdName(fd)
           opened  == IF reply'.op = "open" THEN {reply'.result} ELSE {}
           closed  == IF reply'.op = "close" THEN {reply'.fd} ELSE {}
       IN  /\ reply'.op = "open" =>
                 [fd |-> reply'.result, dir |-> Dir'] \in F!cfs_open(reply'.name)
           /\ \A fd \in FDs \cap opened : FdName(fd)' = reply'.name
           /\ \A fd \in closed : FdName(fd)' = NULL
           /\ kept(FDs \ (opened \union closed))
           /\ reply'.op = "remove" =>
                 [ok |-> reply'.result # FAILURE, dir |-> Dir'] \in F!cfs_remove(reply'.name)
           /\ reply'.op \notin {"open", "remove"} => Dir' = Dir]_vars

-----------------------------------------------------------------------------
(* A statement of the comments that the code does not keep *)

\* my_free is only called with "a pointer obtained by a call to my_malloc()"
\* that has not been freed since (my_malloc.h:25-26).
FreesWhatItHolds == [][reply'.freed # NULL => reply'.freed \in live]_vars
=============================================================================
