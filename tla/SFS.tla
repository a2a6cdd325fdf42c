-------------------------------- MODULE SFS --------------------------------
(***************************************************************************)
(* The protected file system front-end, sfs-ram.c.  Client modules (SMs)   *)
(* call it one at a time: the processor has a single core, takes no        *)
(* interrupts inside the protected module, and every entry point runs to   *)
(* its return.  A call is therefore one action, and what interleaves is    *)
(* the calls of the SMs.                                                   *)
(*                                                                         *)
(* The linked lists of the code are sequences of slot numbers, a slot is   *)
(* an index of perm_pool or file_pool, NULL is the null pointer, and a     *)
(* flags word is the set of its one bits.                                  *)
(***************************************************************************)
EXTENDS Integers, FiniteSets, SequencesExt

CONSTANTS
    SMs,                \* ids sancus_get_caller_id() can return
    Names,              \* file names, one character each
    Bits,               \* bit positions of a flags word
    Wanted,             \* flags words the clients pass to sfs_open
    Granted,            \* flags words the clients pass to sfs_chmod
    MAX_NB_FILES, MAX_NB_PERMS, MAX_NB_OPEN_FILES,
    NO_CFS_FORMAT,      \* build option: keep the back-end's files at start
    NULL

SFS_NIL     == {}
SFS_READ    == {0}
SFS_WRITE   == {1}
SFS_ROOT    == 0..6
SFS_CREATOR == 0..7

FAILURE == -1

Files == 1 .. MAX_NB_FILES
Perms == 1 .. MAX_NB_PERMS
FDs   == 0 .. (MAX_NB_OPEN_FILES - 1)
Flags == SUBSET Bits

ASSUME SizeAssumption ==
    /\ MAX_NB_FILES \in Nat \ {0}
    /\ MAX_NB_PERMS \in Nat \ {0}
    /\ MAX_NB_OPEN_FILES \in Nat \ {0}
ASSUME FlagAssumption ==
    SFS_CREATOR \subseteq Bits /\ Wanted \subseteq Flags /\ Granted \subseteq Flags
ASSUME NullAssumption ==
    NULL \notin (SMs \union Names \union Files \union Perms \union [sm : SMs, name : Names])
ASSUME FormatAssumption == NO_CFS_FORMAT \in BOOLEAN

VARIABLES
    INIT_DONE,          \* data structures are initialised
    perm_pool,          \* FILE_PERM structs
    file_pool,          \* OPEN_FILE structs, acl being the list of its entries
    open_file_list,     \* the listed files, newest first
    free_perm_list,
    free_file_list,
    fd_cache,           \* descriptor -> the ACL entry it was opened with
    cfs_fd,             \* back-end: descriptor -> name of the open file
    cfs_dir,            \* back-end: names of the files it holds
    reply               \* the last call, its arguments and its answer

listVars == <<perm_pool, file_pool, open_file_list>>
freeVars == <<free_perm_list, free_file_list>>
connVars == <<fd_cache, cfs_fd>>
vars == <<INIT_DONE, listVars, freeVars, connVars, cfs_dir, reply>>

\* The contents of a slot on a free list.  The code leaves the old values
\* there, but ALLOC_PERM and ALLOC_FILE overwrite every field before any use
\* and (NoStaleFd, SlotsConserved) nothing else reaches a free slot.
NoPerm == [sm_id |-> NULL, flags |-> SFS_NIL, file |-> NULL]
NoFile == [name |-> NULL, open_count |-> 0, acl |-> <<>>]

NoReply == [op |-> "none", sm |-> NULL, name |-> NULL, fd |-> FAILURE,
            id |-> NULL, flags |-> SFS_NIL, create |-> FALSE, ok |-> TRUE, back |-> NULL]

\* A Sancus module starts with all its protected data zero.  The flash of a
\* back-end may still hold the files of an earlier run.
Init ==
    /\ INIT_DONE = FALSE
    /\ perm_pool = [p \in Perms |-> NoPerm]
    /\ file_pool = [f \in Files |-> NoFile]
    /\ open_file_list = <<>>
    /\ free_perm_list = <<>>
    /\ free_file_list = <<>>
    /\ fd_cache = [fd \in FDs |-> NULL]
    /\ cfs_fd = [fd \in FDs |-> NULL]
    /\ cfs_dir \in SUBSET Names
    /\ reply = NoReply

-----------------------------------------------------------------------------
\* DO_INIT: every handler but sfs_ping and sfs_attest first initialises the
\* data structures if no call has done so.  The lists and caches it empties
\* are still zero then, so what a handler sees differently is:

\* fault: the loop of init_data_structures runs one too far
FreePerms_past == IF INIT_DONE THEN free_perm_list ELSE [i \in 1..MAX_NB_PERMS+1 |-> i]

FreePerms == IF INIT_DONE THEN free_perm_list ELSE [i \in Perms |-> i]
FreeFiles == IF INIT_DONE THEN free_file_list ELSE [i \in Files |-> i]
Dir       == IF INIT_DONE \/ NO_CFS_FORMAT THEN cfs_dir ELSE {}

-----------------------------------------------------------------------------
(* Look-ups and checks *)

LOOKUP_FILE(name) ==
    LET found == {f \in ToSet(open_file_list) : file_pool[f].name = name}
    IN  IF found = {} THEN NULL ELSE CHOOSE f \in found : TRUE

\* fault: the walk stops at the head of the ACL
LOOKUP_PERM_head(file, id) ==
    LET p == Head(file_pool[file].acl) IN IF perm_pool[p].sm_id = id THEN p ELSE NULL

LOOKUP_PERM(file, id) ==
    LET found == {p \in ToSet(file_pool[file].acl) : perm_pool[p].sm_id = id}
    IN  IF found = {} THEN NULL ELSE CHOOSE p \in found : TRUE

\* fault: (p_have & p_want) != 0
CHK_PERM_any(have, want) == want = {} \/ have \cap want # {}

\* (p_have & p_want) == p_want
CHK_PERM(have, want) == want \subseteq have

\* fault: the owner of the descriptor is not compared
CHK_FD_any_sm(fd, sm) == fd \in FDs /\ fd_cache[fd] # NULL

CHK_FD(fd, sm) ==
    /\ fd \in FDs
    /\ fd_cache[fd] # NULL
    /\ perm_pool[fd_cache[fd]].sm_id = sm

\* fault: the creator's entry is not guarded
IsCreator_never(p) == FALSE

\* flags == SFS_CREATOR: the entry may be neither revoked nor overridden.
IsCreator(p) == perm_pool[p].flags = SFS_CREATOR

\* The entry of SM id on the file called name, if it has all of want; or NULL.
two_phase_lookup(name, want, id) ==
    LET file == LOOKUP_FILE(name)
        p    == IF file = NULL THEN NULL ELSE LOOKUP_PERM(file, id)
    IN  IF p # NULL /\ CHK_PERM(perm_pool[p].flags, want) THEN p ELSE NULL

-----------------------------------------------------------------------------
(* List surgery *)

Unlink(s, x) == RemoveAt(s, CHOOSE i \in 1..Len(s) : s[i] = x)

\* fault: the next pointer is read after FREE_PERM has overwritten it
FREE_PERM_lost(entries) == <<Head(entries)>> \o FreePerms

\* FREE_PERM of entries unlinked one after the other, the first of them first.
FREE_PERM(entries) == Reverse(entries) \o FreePerms

\* fault: prev is not advanced
UnlinkPerm_head(acl, p) == <<p>> \o FreePerms

\* prev->next = cur->next followed by FREE_PERM(cur).  For the head of the list
\* prev is cur itself: nothing is unlinked, and the ACL runs on into the free
\* list.
UnlinkPerm(acl, p) ==
    IF Head(acl) = p THEN <<p>> \o FreePerms ELSE Unlink(acl, p)

-----------------------------------------------------------------------------
(* The back-end, as the front-end sees it: a directory and a descriptor    *)
(* table that hands out the lowest free descriptor.  Opening may fail for  *)
(* want of memory or flash, before or after a new name has been entered.   *)

FreeFds == {fd \in FDs : cfs_fd[fd] = NULL}

\* the answers of cfs_open(name): its descriptor, or FAILURE, and the directory
cfs_open(name) ==
    {[fd |-> FAILURE, dir |-> d] : d \in {Dir, Dir \union {name}}}
        \union
    {[fd |-> fd, dir |-> Dir \union {name}] :
        fd \in {f \in FreeFds : \A g \in FreeFds : f <= g}}

\* the answers of cfs_remove(name), and the directory.  A failure may leave the file
\* (Coffee: its log is dead, the walk does not find it, the cache is full); without
\* a file, shared memory succeeds and Coffee fails.
cfs_remove(name) == {[ok |-> TRUE, dir |-> Dir \ {name}], [ok |-> FALSE, dir |-> Dir]}

-----------------------------------------------------------------------------
(* Replies *)

\* The call is answered and changes nothing but what DO_INIT does.
Unaltered ==
    /\ INIT_DONE' = TRUE
    /\ free_perm_list' = FreePerms
    /\ free_file_list' = FreeFiles
    /\ cfs_dir' = Dir
    /\ UNCHANGED <<listVars, connVars>>

Refuse(call) == Unaltered /\ reply' = [call EXCEPT !.ok = FALSE]

-----------------------------------------------------------------------------
(* The entry points.  A look-up that succeeds finds initialised structures, *)
(* so an action guarded by one leaves INIT_DONE alone.                     *)

\* sfs_init; sfs_dump (in debug builds) has the same effect on the state.
sfs_init(sm) ==
    /\ Unaltered
    /\ reply' = [NoReply EXCEPT !.op = "init", !.sm = sm]

\* fault: counted before the back-end's answer is checked
counted_always(n, r) == n + 1

\* One more connection if the back-end gave a descriptor.
counted(n, r) == IF r.fd \in FDs THEN n + 1 ELSE n

\* Answer r of the back-end is connected to ACL entry p and returned; counted
\* is the other half, in the struct of the file.
open_back_end_file(call, r, p) ==
    /\ cfs_dir' = r.dir
    /\ \/ /\ r.fd \in FDs
          /\ fd_cache' = [fd_cache EXCEPT ![r.fd] = p]
          /\ cfs_fd' = [cfs_fd EXCEPT ![r.fd] = call.name]
          /\ reply' = [call EXCEPT !.fd = r.fd, !.back = call.name]
       \/ /\ r.fd \notin FDs
          /\ UNCHANGED connVars
          /\ reply' = [call EXCEPT !.ok = FALSE]

\* No such file: it is created, listed first, with the caller as its creator.
\* If the back-end then fails, the new file and its entry stay.
sfs_open_new(call) ==
    LET file == Head(FreeFiles)
        p    == Head(FreePerms)
    IN  \E r \in cfs_open(call.name) :
            /\ INIT_DONE' = TRUE
            /\ free_file_list' = Tail(FreeFiles)
            /\ free_perm_list' = Tail(FreePerms)
            /\ open_file_list' = <<file>> \o open_file_list
            /\ file_pool' = [file_pool EXCEPT ![file] =
                   [name |-> call.name, open_count |-> counted(0, r), acl |-> <<p>>]]
            /\ perm_pool' = [perm_pool EXCEPT ![p] =
                   [sm_id |-> call.sm, flags |-> SFS_CREATOR, file |-> file]]
            /\ open_back_end_file(call, r, p)

sfs_open_existing(call, p) ==
    \E r \in cfs_open(call.name) :
        /\ INIT_DONE' = TRUE
        /\ free_perm_list' = FreePerms
        /\ free_file_list' = FreeFiles
        /\ file_pool' = [file_pool EXCEPT
               ![perm_pool[p].file].open_count = counted(@, r)]
        /\ UNCHANGED <<perm_pool, open_file_list>>
        /\ open_back_end_file(call, r, p)

\* create: size >= 0
sfs_open(sm, name, flags, create) ==
    LET call == [NoReply EXCEPT !.op = "open", !.sm = sm, !.name = name,
                                !.flags = flags, !.create = create]
        file == LOOKUP_FILE(name)
        p    == two_phase_lookup(name, flags, sm)
    IN  \/ /\ file = NULL
           /\ ~create \/ FreePerms = <<>> \/ FreeFiles = <<>>
           /\ Refuse(call)
        \/ /\ file = NULL
           /\ create /\ FreePerms # <<>> /\ FreeFiles # <<>>
           /\ sfs_open_new(call)
        \/ /\ file # NULL /\ p = NULL
           /\ Refuse(call)
        \/ /\ file # NULL /\ p # NULL
           /\ sfs_open_existing(call, p)

\* fault: the loop over the descriptors stops at the first match
CLOSE_FD_first(fds) ==
    /\ fd_cache' = [fd \in FDs |->
          IF fd \in fds /\ \A g \in fds : fd <= g THEN NULL ELSE fd_cache[fd]]
    /\ cfs_fd' = [fd \in FDs |->
          IF fd \in fds /\ \A g \in fds : fd <= g THEN NULL ELSE cfs_fd[fd]]

\* fault: the back-end is not told
CLOSE_FD_front(fds) ==
    /\ fd_cache' = [fd \in FDs |-> IF fd \in fds THEN NULL ELSE fd_cache[fd]]
    /\ UNCHANGED cfs_fd

\* CLOSE_FD on a set of descriptors of one file
CLOSE_FD(fds) ==
    /\ fd_cache' = [fd \in FDs |-> IF fd \in fds THEN NULL ELSE fd_cache[fd]]
    /\ cfs_fd'   = [fd \in FDs |-> IF fd \in fds THEN NULL ELSE cfs_fd[fd]]

sfs_close(sm, fd) ==
    LET call == [NoReply EXCEPT !.op = "close", !.sm = sm, !.fd = fd]
    IN  \/ ~CHK_FD(fd, sm) /\ Refuse(call)
        \/ /\ CHK_FD(fd, sm)
           /\ file_pool' = [file_pool EXCEPT
                  ![perm_pool[fd_cache[fd]].file].open_count = @ - 1]
           /\ CLOSE_FD({fd})
           /\ reply' = call
           /\ UNCHANGED <<INIT_DONE, perm_pool, open_file_list, freeVars, cfs_dir>>

\* The ACL of the file is freed entry by entry; what the back-end then answers
\* is the answer of the call, which may be that the file is still there.
sfs_remove(sm, name) ==
    LET call == [NoReply EXCEPT !.op = "remove", !.sm = sm, !.name = name]
        p    == two_phase_lookup(name, SFS_ROOT, sm)
        cur  == perm_pool[p].file
        acl  == file_pool[cur].acl
    IN  \/ p = NULL /\ Refuse(call)
        \/ p # NULL /\ file_pool[cur].open_count # 0 /\ Refuse(call)
        \/ /\ p # NULL
           /\ file_pool[cur].open_count = 0
           /\ open_file_list' = Unlink(open_file_list, cur)
           /\ free_perm_list' = FREE_PERM(acl)
           /\ perm_pool' = [q \in Perms |-> IF q \in ToSet(acl) THEN NoPerm ELSE perm_pool[q]]
           /\ free_file_list' = <<cur>> \o FreeFiles
           /\ file_pool' = [file_pool EXCEPT ![cur] = NoFile]
           /\ \E r \in cfs_remove(name) :
                 cfs_dir' = r.dir /\ reply' = [call EXCEPT !.ok = r.ok]
           /\ UNCHANGED <<INIT_DONE, connVars>>

\* A call through descriptor fd that needs the rights need.  The back-end may
\* still refuse (end of file, seek out of range); back is the back-end's file
\* it was asked to act on.
Access(call, need) ==
    LET fd == call.fd
        granted == CHK_FD(fd, call.sm) /\ CHK_PERM(perm_pool[fd_cache[fd]].flags, need)
    IN  \/ ~granted /\ Refuse(call)
        \/ /\ granted /\ Unaltered
           /\ \E ok \in BOOLEAN : reply' = [call EXCEPT !.ok = ok, !.back = cfs_fd[fd]]

sfs_getc(sm, fd) == Access([NoReply EXCEPT !.op = "getc", !.sm = sm, !.fd = fd], SFS_READ)
sfs_putc(sm, fd) == Access([NoReply EXCEPT !.op = "putc", !.sm = sm, !.fd = fd], SFS_WRITE)
sfs_seek(sm, fd) == Access([NoReply EXCEPT !.op = "seek", !.sm = sm, !.fd = fd], SFS_NIL)

\* A creator's entry stays; another one is freed after the descriptors that were
\* opened with it have been closed; no entry, nothing to do.
revoke_acl(call, file) ==
    LET acl == file_pool[file].acl
        cur == LOOKUP_PERM(file, call.id)
        fds == {fd \in FDs : fd_cache[fd] = cur}
    IN  \/ cur = NULL /\ Unaltered /\ reply' = call
        \/ cur # NULL /\ IsCreator(cur) /\ Refuse(call)
        \/ /\ cur # NULL /\ ~IsCreator(cur)
           /\ CLOSE_FD(fds)
           /\ file_pool' = [file_pool EXCEPT ![file].open_count = @ - Cardinality(fds),
                                             ![file].acl = UnlinkPerm(acl, cur)]
           /\ free_perm_list' = FREE_PERM(<<cur>>)
           /\ perm_pool' = [perm_pool EXCEPT ![cur] = NoPerm]
           /\ reply' = call
           /\ UNCHANGED <<INIT_DONE, open_file_list, free_file_list, cfs_dir>>

\* A creator's entry stays; another one is overridden, by any flags; a new one
\* is appended unless it is a creator's or no struct is left.
add_acl(call, file) ==
    LET acl == file_pool[file].acl
        p   == LOOKUP_PERM(file, call.id)
        new == Head(FreePerms)
    IN  \/ p # NULL /\ IsCreator(p) /\ Refuse(call)
        \/ /\ p # NULL /\ ~IsCreator(p)
           /\ perm_pool' = [perm_pool EXCEPT ![p].flags = call.flags]
           /\ reply' = call
           /\ UNCHANGED <<INIT_DONE, file_pool, open_file_list, freeVars, connVars, cfs_dir>>
        \/ p = NULL /\ (call.flags = SFS_CREATOR \/ FreePerms = <<>>) /\ Refuse(call)
        \/ /\ p = NULL /\ call.flags # SFS_CREATOR /\ FreePerms # <<>>
           /\ free_perm_list' = Tail(FreePerms)
           /\ perm_pool' = [perm_pool EXCEPT ![new] =
                  [sm_id |-> call.id, flags |-> call.flags, file |-> file]]
           /\ file_pool' = [file_pool EXCEPT ![file].acl = Append(acl, new)]
           /\ reply' = call
           /\ UNCHANGED <<INIT_DONE, open_file_list, free_file_list, connVars, cfs_dir>>

sfs_chmod(sm, name, id, perm_flags) ==
    LET call == [NoReply EXCEPT !.op = "chmod", !.sm = sm, !.name = name,
                                !.id = id, !.flags = perm_flags]
        p_caller == two_phase_lookup(name, SFS_ROOT, sm)
    IN  \/ p_caller = NULL /\ Refuse(call)
        \/ p_caller # NULL /\ perm_flags = SFS_NIL /\ revoke_acl(call, perm_pool[p_caller].file)
        \/ p_caller # NULL /\ perm_flags # SFS_NIL /\ add_acl(call, perm_pool[p_caller].file)

\* Does not initialise, and answers any caller.
sfs_attest(sm, name, owner) ==
    /\ reply' = [NoReply EXCEPT !.op = "attest", !.sm = sm, !.name = name, !.id = owner,
                     !.ok = (two_phase_lookup(name, SFS_CREATOR, owner) # NULL)]
    /\ UNCHANGED <<INIT_DONE, listVars, freeVars, connVars, cfs_dir>>

-----------------------------------------------------------------------------

ClientFDs == FDs \union {FAILURE, MAX_NB_OPEN_FILES}    \* and the nearest invalid ones

Next ==
    \E sm \in SMs :
        \/ sfs_init(sm)
        \/ \E name \in Names, flags \in Wanted, create \in BOOLEAN :
               sfs_open(sm, name, flags, create)
        \/ \E name \in Names : sfs_remove(sm, name)
        \/ \E name \in Names, id \in SMs, perm_flags \in Granted :
               sfs_chmod(sm, name, id, perm_flags)
        \/ \E name \in Names, owner \in SMs : sfs_attest(sm, name, owner)
        \/ \E fd \in ClientFDs :
               \/ sfs_close(sm, fd)
               \/ sfs_getc(sm, fd)
               \/ sfs_putc(sm, fd)
               \/ sfs_seek(sm, fd)

Spec == Init /\ [][Next]_vars

-----------------------------------------------------------------------------
(* Properties *)

Reply == [op : {"none", "init", "open", "close", "remove", "getc", "putc", "seek",
                "chmod", "attest"},
          sm : SMs \union {NULL}, name : Names \union {NULL},
          fd : FDs \union {FAILURE, MAX_NB_OPEN_FILES},
          id : SMs \union {NULL}, flags : Flags, create : BOOLEAN,
          ok : BOOLEAN, back : Names \union {NULL}]

\* The type of the state.
TypeOK ==
    /\ INIT_DONE \in BOOLEAN
    /\ perm_pool \in [Perms -> [sm_id : SMs \union {NULL}, flags : Flags,
                                file : Files \union {NULL}]]
    /\ file_pool \in [Files -> [name : Names \union {NULL}, open_count : Int,
                                acl : Seq(Perms)]]
    /\ open_file_list \in Seq(Files)
    /\ free_perm_list \in Seq(Perms)
    /\ free_file_list \in Seq(Files)
    /\ fd_cache \in [FDs -> Perms \union {NULL}]
    /\ cfs_fd \in [FDs -> Names \union {NULL}]
    /\ cfs_dir \in SUBSET Names
    /\ reply \in Reply

Listed == ToSet(open_file_list)
Acl(f) == ToSet(file_pool[f].acl)

\* The ACL of a listed file starts with the entry of its creator, whatever
\* chmod calls it has seen: the walk of revoke_acl, whose prev is wrong for the
\* head of the list, never has to unlink the head (sfs-ram.c:342-362).
HeadIsCreator ==
    \A f \in Listed : file_pool[f].acl # <<>> /\ IsCreator(Head(file_pool[f].acl))

\* No struct is lost, and none is in use twice: each FILE_PERM is exactly once
\* on the free list (as the next call will find it) or in the ACL of one listed
\* file, each OPEN_FILE exactly once free or listed (ALLOC_PERM, FREE_PERM,
\* ALLOC_FILE, FREE_FILE).
SlotsConserved ==
    /\ IsInjective(FreePerms) /\ IsInjective(FreeFiles) /\ IsInjective(open_file_list)
    /\ \A f \in Listed :
          /\ IsInjective(file_pool[f].acl)
          /\ Acl(f) \cap ToSet(FreePerms) = {}
          /\ \A g \in Listed \ {f} : Acl(f) \cap Acl(g) = {}
    /\ Perms = ToSet(FreePerms) \union UNION {Acl(f) : f \in Listed}
    /\ Listed \cap ToSet(FreeFiles) = {}
    /\ Files = Listed \union ToSet(FreeFiles)

\* A name denotes at most one listed file and an SM has at most one entry in
\* its ACL, which points back at the file: the first match of the linear
\* searches is the only one (LOOKUP_FILE, LOOKUP_PERM).
LookupsUnambiguous ==
    /\ \A f, g \in Listed : file_pool[f].name = file_pool[g].name => f = g
    /\ \A f \in Listed : \A p, q \in Acl(f) :
          /\ perm_pool[p].file = f
          /\ perm_pool[p].sm_id = perm_pool[q].sm_id => p = q

\* The descriptors through which file f is open.
Connections(f) == {fd \in FDs : fd_cache[fd] # NULL /\ perm_pool[fd_cache[fd]].file = f}

\* open_count is the number of connections, across opens that fail in the
\* back-end, closes and revocations: what sfs_remove refuses on.
OpenCountExact ==
    \A f \in Listed : file_pool[f].open_count = Cardinality(Connections(f))

\* No descriptor outlives its permission: what fd_cache points at is an entry
\* in the ACL of a listed file, never a struct that was freed.
NoStaleFd ==
    \A fd \in FDs : fd_cache[fd] # NULL =>
        \E f \in Listed : fd_cache[fd] \in Acl(f)

\* Both ends agree on what is open: a descriptor connected in the front-end is
\* open in the back-end on the file whose ACL the front-end checks, and no
\* other descriptor is open there.  open_back_end_file overwrites
\* fd_cache[fd] without looking.
BackendInSync ==
    \A fd \in FDs :
        cfs_fd[fd] = IF fd_cache[fd] = NULL THEN NULL
                     ELSE file_pool[perm_pool[fd_cache[fd]].file].name

\* The rights of an SM on a name: the flags of its entry on the listed file.
Entries(sm, name) ==
    {p \in UNION {Acl(f) : f \in {g \in Listed : file_pool[g].name = name}} :
        perm_pool[p].sm_id = sm}
Rights(sm, name) == UNION {perm_pool[p].flags : p \in Entries(sm, name)}

\* The SM and the file at the ends of a connection.
Connection(fd) ==
    IF fd_cache[fd] = NULL THEN NULL
    ELSE [sm |-> perm_pool[fd_cache[fd]].sm_id,
          name |-> file_pool[perm_pool[fd_cache[fd]].file].name]

\* The front-end keeps the promise of AccessControl: its rights are the flags in
\* the ACLs of the listed files, its connections those of fd_cache.
RightsTable == [name \in Names |-> [sm \in SMs |-> Rights(sm, name)]]
ConnTable   == [fd \in FDs |-> Connection(fd)]

AC == INSTANCE AccessControl WITH
          rights <- RightsTable, conn <- ConnTable,
          ROOT <- SFS_ROOT, CREATOR <- SFS_CREATOR, READ <- SFS_READ,
          WRITE <- SFS_WRITE, NIL <- SFS_NIL,
          BadFDs <- {FAILURE, MAX_NB_OPEN_FILES}, NoCall <- NoReply
ImplementsAccessControl == AC!Spec

\* The back-end reads, or writes, a file for an SM only if the ACL of that very
\* file gives the SM the right at the time of the call, however long ago the
\* descriptor was opened and with whatever flags (sfs_getc, sfs_putc).
AccessSound ==
    [][/\ reply'.op = "getc" /\ reply'.back # NULL
            => SFS_READ \subseteq Rights(reply'.sm, reply'.back)
       /\ reply'.op = "putc" /\ reply'.back # NULL
            => SFS_WRITE \subseteq Rights(reply'.sm, reply'.back)]_reply

\* The rights on a file change only by a call of an SM that has all SFS_ROOT
\* rights on it, or by its creation (sfs_chmod, sfs_remove, CHK_ROOT).
OnlyRootChangesRights ==
    [][\A sm \in SMs, name \in Names :
         Rights(sm, name)' # Rights(sm, name) =>
             \/ SFS_ROOT \subseteq Rights(reply'.sm, name)
             \/ reply'.op = "open" /\ \A id \in SMs : Entries(id, name) = {}]_listVars

\* Once an SM has the creator's rights on a file it has them until the file is
\* removed (sfs.h:73-75: neither assignable nor revocable), exactly these: a flags
\* word is an int, and one with a bit more than SFS_CREATOR is not protected.
CreatorForLife ==
    [][\A sm \in SMs, name \in Names :
         Rights(sm, name) = SFS_CREATOR =>
             \/ Rights(sm, name)' = SFS_CREATOR
             \/ reply'.op = "remove" /\ reply'.name = name]_listVars

\* A connection ends only when its SM closes it or when the SM's permission on
\* that file is revoked, and never turns into another connection in one step.
ConnectionsEndInOrder ==
    [][\A fd \in FDs :
         fd_cache[fd] # NULL /\ fd_cache'[fd] # fd_cache[fd] =>
             /\ fd_cache'[fd] = NULL
             /\ LET c == Connection(fd)
                IN  \/ reply'.op = "close" /\ reply'.sm = c.sm /\ reply'.fd = fd
                    \/ /\ reply'.op = "chmod" /\ reply'.id = c.sm
                       /\ reply'.name = c.name /\ reply'.flags = SFS_NIL]_connVars

\* The files of the back-end on which no SM has an entry: whoever creates such a name
\* anew finds what the file holds.
Forgotten == {name \in Dir : \A sm \in SMs : Entries(sm, name) = {}}

\* No file of the back-end is forgotten, whatever is revoked, created or refused for
\* want of structs, except by a removal that its caller is told has failed (sfs_remove
\* has dropped the ACL by then, sfs-ram.c:572-590; revoke_acl, open_back_end_file).
NoFileForgotten ==
    [][\A name \in Forgotten' \ Forgotten :
         reply'.op = "remove" /\ reply'.name = name /\ ~reply'.ok
      ]_<<INIT_DONE, listVars, cfs_dir>>

-----------------------------------------------------------------------------
(* Statements of the comments and of sfs.h that the code does not keep *)

\* "a file has exactly one creator ACL entry" (sfs-ram.c:55)
ExactlyOneCreator ==
    \A f \in Listed : Cardinality({p \in Acl(f) : IsCreator(p)}) = 1
=============================================================================
