----------------------------- MODULE SFSProofs -----------------------------
(***************************************************************************)
(* Proofs about the front-end, for every number of clients, names, structs *)
(* and descriptors: the types and the structural invariants of SFS hold in *)
(* every reachable state, and, resting on those, the properties of its     *)
(* steps: who may read and write, whose calls change rights, and what ends *)
(* a connection; and the front-end implements AccessControl.               *)
(***************************************************************************)
EXTENDS SFS, ListLemmas, FiniteSetTheorems, TLAPS

\* Before the first call nothing is listed and nothing is open.
ZeroBeforeInit ==
    ~INIT_DONE => open_file_list = <<>> /\ \A fd \in FDs : fd_cache[fd] = NULL

\* A listed file is no free struct: it has a name.
ListedNamed == \A f \in Listed : file_pool[f].name \in Names

\* The inductive invariant: the parts need one another.  The ACL surgery of a
\* chmod keeps HeadIsCreator only because lists share no slot, lists share no
\* slot only because freed entries have no descriptor left to count them, and
\* a removed file has no descriptor left only because open_count is exact.
IInv ==
    /\ TypeOK
    /\ ZeroBeforeInit
    /\ HeadIsCreator
    /\ SlotsConserved
    /\ LookupsUnambiguous
    /\ ListedNamed
    /\ NoStaleFd
    /\ BackendInSync
    /\ OpenCountExact

USE SizeAssumption, NullAssumption

\* Connections, of given tables.
ConnsIn(cache, pool, f) == {fd \in FDs : cache[fd] # NULL /\ pool[cache[fd]].file = f}

LEMMA OpenCountForm ==
    /\ OpenCountExact <=>
         \A f \in Listed : file_pool[f].open_count = Cardinality(ConnsIn(fd_cache, perm_pool, f))
    /\ OpenCountExact' <=>
         \A f \in Listed' : file_pool'[f].open_count = Cardinality(ConnsIn(fd_cache', perm_pool', f))
BY DEF OpenCountExact, Connections, ConnsIn

-----------------------------------------------------------------------------
(* Lists and look-ups *)

LEMMA UnlinkFacts ==
    ASSUME NEW S, NEW s \in Seq(S), NEW x \in ToSet(s), IsInjective(s)
    PROVE  /\ Unlink(s, x) \in Seq(S)
           /\ ToSet(Unlink(s, x)) = ToSet(s) \ {x}
           /\ IsInjective(Unlink(s, x))
           /\ Head(s) # x => Unlink(s, x) # <<>> /\ Head(Unlink(s, x)) = Head(s)
<1> DEFINE k == CHOOSE i \in 1..Len(s) : s[i] = x
<1>1. k \in 1..Len(s) /\ s[k] = x
  BY ListPositions
<1>2. Unlink(s, x) = RemoveAt(s, k)
  BY DEF Unlink
<1> HIDE DEF k
<1> QED BY <1>1, <1>2, ListRemoveAt

\* What the free lists are when a handler looks at them.
LEMMA FreeFacts ==
    ASSUME TypeOK
    PROVE  FreePerms \in Seq(Perms) /\ FreeFiles \in Seq(Files)
<1>1. MAX_NB_PERMS \in Nat /\ MAX_NB_FILES \in Nat
  BY DEF SizeAssumption
<1>2. [i \in Perms |-> i] \in Seq(Perms) /\ [i \in Files |-> i] \in Seq(Files)
  BY <1>1, ListSlots DEF Perms, Files
<1> QED BY <1>2 DEF TypeOK, FreePerms, FreeFiles

LEMMA ListedFacts ==
    ASSUME TypeOK
    PROVE  /\ Listed \subseteq Files
           /\ \A f \in Files : Acl(f) \subseteq Perms /\ file_pool[f].acl \in Seq(Perms)
<1>1. Listed \subseteq Files
  BY ListElements DEF TypeOK, Listed
<1>2. \A f \in Files : file_pool[f].acl \in Seq(Perms)
  BY DEF TypeOK
<1>3. \A f \in Files : Acl(f) \subseteq Perms
  BY <1>2, ListElements DEF Acl
<1> QED BY <1>1, <1>2, <1>3

\* LOOKUP_FILE finds the listed file of that name, if there is one.
LEMMA LookupFile ==
    ASSUME TypeOK, NEW name
    PROVE  \/ LOOKUP_FILE(name) = NULL /\ \A f \in Listed : file_pool[f].name # name
           \/ LOOKUP_FILE(name) \in Listed /\ file_pool[LOOKUP_FILE(name)].name = name
BY DEF LOOKUP_FILE, Listed

\* LOOKUP_PERM finds an SM's entry in the ACL, if it has one.
LEMMA LookupPerm ==
    ASSUME TypeOK, NEW f \in Listed, NEW id
    PROVE  \/ LOOKUP_PERM(f, id) = NULL /\ \A p \in Acl(f) : perm_pool[p].sm_id # id
           \/ LOOKUP_PERM(f, id) \in Acl(f) /\ perm_pool[LOOKUP_PERM(f, id)].sm_id = id
BY DEF LOOKUP_PERM, Acl

\* A two-phase look-up that succeeds ends on an entry of the listed file.
LEMMA TwoPhase ==
    ASSUME IInv, NEW name, NEW want, NEW id, two_phase_lookup(name, want, id) # NULL
    PROVE  LET p == two_phase_lookup(name, want, id)
               f == perm_pool[p].file
           IN  /\ INIT_DONE
               /\ p \in Perms /\ f \in Files /\ f \in Listed /\ p \in Acl(f)
               /\ file_pool[f].name = name
               /\ perm_pool[p].sm_id = id
               /\ want \subseteq perm_pool[p].flags
<1> DEFINE f == LOOKUP_FILE(name)
           p == LOOKUP_PERM(f, id)
<1>1. f # NULL /\ p # NULL /\ two_phase_lookup(name, want, id) = p
      /\ want \subseteq perm_pool[p].flags
  BY DEF two_phase_lookup, CHK_PERM
<1>2. f \in Listed /\ file_pool[f].name = name
  BY <1>1, LookupFile DEF IInv
<1> HIDE DEF f
<1>3. p \in Acl(f) /\ perm_pool[p].sm_id = id
  BY <1>1, <1>2, LookupPerm DEF IInv
<1> HIDE DEF p
<1>4. perm_pool[p].file = f
  BY <1>2, <1>3 DEF IInv, LookupsUnambiguous
<1>5. f \in Files /\ p \in Perms
  BY <1>2, <1>3, ListedFacts DEF IInv
<1>6. INIT_DONE
  BY <1>2, ListEmpty DEF IInv, ZeroBeforeInit, Listed
<1> QED BY <1>1, <1>2, <1>3, <1>4, <1>5, <1>6

\* A descriptor that passes CHK_FD is connected to an entry of a listed file.
LEMMA ConnectedFd ==
    ASSUME IInv, NEW fd \in FDs, fd_cache[fd] # NULL
    PROVE  LET p == fd_cache[fd]
               f == perm_pool[p].file
           IN  /\ INIT_DONE
               /\ p \in Perms /\ f \in Files /\ f \in Listed /\ p \in Acl(f)
               /\ cfs_fd[fd] = file_pool[f].name /\ cfs_fd[fd] # NULL
<1>1. PICK f \in Listed : fd_cache[fd] \in Acl(f)
  BY DEF IInv, NoStaleFd
<1>2. perm_pool[fd_cache[fd]].file = f
  BY <1>1 DEF IInv, LookupsUnambiguous
<1>3. fd_cache[fd] \in Perms /\ f \in Files
  BY <1>1, ListedFacts DEF IInv
<1>4. INIT_DONE
  BY DEF IInv, ZeroBeforeInit
<1>5. cfs_fd[fd] = file_pool[perm_pool[fd_cache[fd]].file].name
  BY DEF IInv, BackendInSync
<1>6. file_pool[f].name \in Names
  BY DEF IInv, ListedNamed
<1> QED BY <1>1, <1>2, <1>3, <1>4, <1>5, <1>6

-----------------------------------------------------------------------------
(* The initial state *)

LEMMA InitEstablishes == Init => IInv
<1> SUFFICES ASSUME Init PROVE IInv
  OBVIOUS
<1>1. NoReply \in Reply
  BY FlagAssumption DEF NoReply, Reply, Flags, SFS_NIL, FAILURE
<1>2. TypeOK
  <2>1. NoPerm \in [sm_id : SMs \union {NULL}, flags : Flags, file : Files \union {NULL}]
    BY DEF NoPerm, Flags, SFS_NIL
  <2>2. NoFile \in [name : Names \union {NULL}, open_count : Int, acl : Seq(Perms)]
    BY DEF NoFile
  <2>3. <<>> \in Seq(Files) /\ <<>> \in Seq(Perms)
    OBVIOUS
  <2>4. cfs_dir \in SUBSET Names /\ INIT_DONE \in BOOLEAN /\ reply \in Reply
    BY <1>1 DEF Init
  <2>5. /\ perm_pool \in [Perms -> [sm_id : SMs \union {NULL}, flags : Flags,
                                   file : Files \union {NULL}]]
        /\ file_pool \in [Files -> [name : Names \union {NULL}, open_count : Int,
                                   acl : Seq(Perms)]]
    BY <2>1, <2>2 DEF Init
  <2>6. fd_cache \in [FDs -> Perms \union {NULL}] /\ cfs_fd \in [FDs -> Names \union {NULL}]
    BY DEF Init
  <2> QED BY <2>3, <2>4, <2>5, <2>6 DEF Init, TypeOK
<1>3. Listed = {}
  BY ListEmpty DEF Init, Listed
<1>4. MAX_NB_PERMS \in Nat /\ MAX_NB_FILES \in Nat
  BY DEF SizeAssumption
<1>5. /\ ToSet(FreePerms) = Perms /\ IsInjective(FreePerms)
      /\ ToSet(FreeFiles) = Files /\ IsInjective(FreeFiles)
  BY <1>4, ListSlots DEF Init, FreePerms, FreeFiles, Perms, Files
<1>6. SlotsConserved
  BY <1>3, <1>5, ListEmpty DEF Init, SlotsConserved
<1>7. ZeroBeforeInit /\ NoStaleFd /\ BackendInSync
  BY DEF Init, ZeroBeforeInit, NoStaleFd, BackendInSync
<1>8. HeadIsCreator /\ LookupsUnambiguous /\ ListedNamed /\ OpenCountExact
  BY <1>3 DEF HeadIsCreator, LookupsUnambiguous, ListedNamed, OpenCountExact
<1> QED BY <1>2, <1>6, <1>7, <1>8 DEF IInv
-----------------------------------------------------------------------------
(* The steps *)

\* A step that changes nothing but the reply and what DO_INIT changes.
LEMMA FrameStep ==
    ASSUME IInv, UNCHANGED <<listVars, connVars>>, INIT_DONE' \in BOOLEAN,
           INIT_DONE => INIT_DONE', FreePerms' = FreePerms, FreeFiles' = FreeFiles,
           free_perm_list' \in Seq(Perms), free_file_list' \in Seq(Files),
           cfs_dir' \in SUBSET Names, reply' \in Reply
    PROVE  IInv'
<1>1. TypeOK'
  BY DEF IInv, TypeOK, listVars, connVars
<1>2. ZeroBeforeInit'
  BY DEF IInv, ZeroBeforeInit, listVars, connVars
<1>3. HeadIsCreator'
  BY DEF IInv, HeadIsCreator, IsCreator, Listed, listVars
<1>4. SlotsConserved'
  <2>1. SlotsConserved
    BY DEF IInv
  <2>2. open_file_list' = open_file_list /\ file_pool' = file_pool /\ FreePerms' = FreePerms /\ FreeFiles' = FreeFiles
    BY DEF listVars
  <2> QED BY ONLY <2>1, <2>2 DEF SlotsConserved, Listed, Acl
<1>5. LookupsUnambiguous' /\ ListedNamed'
  BY DEF IInv, LookupsUnambiguous, ListedNamed, Listed, Acl, listVars
<1>6. NoStaleFd'
  BY DEF IInv, NoStaleFd, Listed, Acl, listVars, connVars
<1>7. BackendInSync'
  BY DEF IInv, BackendInSync, listVars, connVars
<1>8. OpenCountExact'
  BY DEF IInv, OpenCountExact, Connections, Listed, listVars, connVars
<1> QED BY <1>1, <1>2, <1>3, <1>4, <1>5, <1>6, <1>7, <1>8 DEF IInv

LEMMA DirType ==
    ASSUME TypeOK
    PROVE  Dir \in SUBSET Names
BY DEF TypeOK, Dir

LEMMA UnalteredStep ==
    ASSUME IInv, Unaltered, reply' \in Reply
    PROVE  IInv'
<1>1. FreePerms \in Seq(Perms) /\ FreeFiles \in Seq(Files) /\ Dir \in SUBSET Names
  BY FreeFacts, DirType DEF IInv
<1>2. FreePerms' = FreePerms /\ FreeFiles' = FreeFiles
  BY DEF Unaltered, FreePerms, FreeFiles
<1> QED BY <1>1, <1>2, FrameStep DEF Unaltered

\* The answers of the back-end: a descriptor that is free at both ends, or none.
LEMMA CfsOpenFacts ==
    ASSUME IInv, NEW name \in Names, NEW r \in cfs_open(name)
    PROVE  /\ r.dir \in SUBSET Names
           /\ r.fd \in FDs => fd_cache[r.fd] = NULL
<1>1. Dir \in SUBSET Names
  BY DirType DEF IInv
<1>2. r.dir \in SUBSET Names
  BY <1>1 DEF cfs_open
<1>3. ASSUME r.fd \in FDs
      PROVE  cfs_fd[r.fd] = NULL
  <2>1. FAILURE \notin FDs
    BY DEF FAILURE, FDs, SizeAssumption
  <2> QED BY <1>3, <2>1 DEF cfs_open, FreeFds
<1>4. ASSUME r.fd \in FDs, fd_cache[r.fd] # NULL
      PROVE  FALSE
  <2>1. cfs_fd[r.fd] # NULL
    BY <1>4, ConnectedFd
  <2> QED BY <1>3, <1>4, <2>1
<1> QED BY <1>2, <1>4

\* A new file: the first free structs become listed, and its only entry's.
LEMMA OpenNewStep ==
    ASSUME IInv, NEW call, call.name \in Names, call.sm \in SMs,
           LOOKUP_FILE(call.name) = NULL, FreePerms # <<>>, FreeFiles # <<>>,
           sfs_open_new(call), reply' \in Reply
    PROVE  IInv'
<1> DEFINE file == Head(FreeFiles)
           p == Head(FreePerms)
<1>1. PICK r \in cfs_open(call.name) :
        /\ INIT_DONE' = TRUE
        /\ free_file_list' = Tail(FreeFiles)
        /\ free_perm_list' = Tail(FreePerms)
        /\ open_file_list' = <<file>> \o open_file_list
        /\ file_pool' = [file_pool EXCEPT ![file] =
               [name |-> call.name, open_count |-> counted(0, r), acl |-> <<p>>]]
        /\ perm_pool' = [perm_pool EXCEPT ![p] =
               [sm_id |-> call.sm, flags |-> SFS_CREATOR, file |-> file]]
        /\ open_back_end_file(call, r, p)
  BY DEF sfs_open_new
<1>2. /\ FreePerms \in Seq(Perms) /\ FreeFiles \in Seq(Files)
      /\ open_file_list \in Seq(Files)
  BY FreeFacts DEF IInv, TypeOK
<1>3. /\ file \in Files /\ file \in ToSet(FreeFiles)
      /\ p \in Perms /\ p \in ToSet(FreePerms)
  BY <1>2, ListTail, ListHead
<1> HIDE DEF file, p
<1>4. file \notin Listed /\ \A f \in Listed : p \notin Acl(f)
  BY <1>3 DEF IInv, SlotsConserved
<1>5. \A fd \in FDs : fd_cache[fd] # NULL => fd_cache[fd] # p /\ perm_pool[fd_cache[fd]].file # file
  BY <1>4, ConnectedFd
<1>6. Listed' = {file} \union Listed /\ IsInjective(open_file_list')
  BY <1>1, <1>2, <1>3, <1>4, ListCons DEF IInv, SlotsConserved, Listed
<1>7. Listed \subseteq Files /\ \A f \in Files : Acl(f) \subseteq Perms
  BY ListedFacts DEF IInv
<1>8. /\ file_pool'[file] = [name |-> call.name, open_count |-> counted(0, r), acl |-> <<p>>]
      /\ \A f \in Files \ {file} : file_pool'[f] = file_pool[f]
  BY <1>1, <1>3 DEF IInv, TypeOK
<1>9. /\ perm_pool'[p] = [sm_id |-> call.sm, flags |-> SFS_CREATOR, file |-> file]
      /\ \A q \in Perms \ {p} : perm_pool'[q] = perm_pool[q]
  BY <1>1, <1>3 DEF IInv, TypeOK
<1>10. /\ ToSet(file_pool'[file].acl) = {p}
       /\ \A f \in Files \ {file} : ToSet(file_pool'[f].acl) = Acl(f)
  <2>1. ToSet(<<p>>) = {p}
    BY <1>3, ListSingle
  <2> QED BY <1>8, <2>1 DEF Acl
<1>11. /\ FreePerms' = Tail(FreePerms) /\ FreeFiles' = Tail(FreeFiles)
       /\ Tail(FreePerms) \in Seq(Perms) /\ Tail(FreeFiles) \in Seq(Files)
       /\ ToSet(FreePerms) = {p} \union ToSet(FreePerms') /\ p \notin ToSet(FreePerms')
       /\ ToSet(FreeFiles) = {file} \union ToSet(FreeFiles') /\ file \notin ToSet(FreeFiles')
       /\ IsInjective(FreePerms') /\ IsInjective(FreeFiles')
  <2>1. FreePerms' = Tail(FreePerms) /\ FreeFiles' = Tail(FreeFiles)
    BY <1>1 DEF FreePerms, FreeFiles
  <2> QED BY <1>2, <2>1, ListTail DEF IInv, SlotsConserved, file, p
<1>12. \A f \in Listed : file_pool[f].name # call.name
  <2>1. NULL \notin Listed
    BY <1>7
  <2> QED BY <2>1, LookupFile DEF IInv
<1>13. /\ r.dir \in SUBSET Names /\ cfs_dir' = r.dir
       /\ \/ /\ r.fd \in FDs /\ fd_cache[r.fd] = NULL
             /\ fd_cache' = [fd_cache EXCEPT ![r.fd] = p]
             /\ cfs_fd' = [cfs_fd EXCEPT ![r.fd] = call.name]
          \/ r.fd \notin FDs /\ UNCHANGED <<fd_cache, cfs_fd>>
  BY <1>1, CfsOpenFacts DEF open_back_end_file, connVars
<1>14. TypeOK'
  <2>1. <<p>> \in Seq(Perms) /\ counted(0, r) \in Int
    BY <1>3 DEF counted
  <2>2. file_pool' \in [Files -> [name : Names \union {NULL}, open_count : Int, acl : Seq(Perms)]]
    <3>1. [name |-> call.name, open_count |-> counted(0, r), acl |-> <<p>>]
            \in [name : Names \union {NULL}, open_count : Int, acl : Seq(Perms)]
      BY <2>1
    <3>2. file_pool \in [Files -> [name : Names \union {NULL}, open_count : Int, acl : Seq(Perms)]]
      BY DEF IInv, TypeOK
    <3> QED BY ONLY <1>1, <1>3, <3>1, <3>2
  <2>3. perm_pool' \in [Perms -> [sm_id : SMs \union {NULL}, flags : Flags,
                                 file : Files \union {NULL}]]
    <3>1. [sm_id |-> call.sm, flags |-> SFS_CREATOR, file |-> file]
            \in [sm_id : SMs \union {NULL}, flags : Flags, file : Files \union {NULL}]
      BY <1>3, FlagAssumption DEF Flags
    <3>2. perm_pool \in [Perms -> [sm_id : SMs \union {NULL}, flags : Flags,
                                 file : Files \union {NULL}]]
      BY DEF IInv, TypeOK
    <3> QED BY ONLY <1>1, <1>3, <3>1, <3>2
  <2>4. fd_cache' \in [FDs -> Perms \union {NULL}] /\ cfs_fd' \in [FDs -> Names \union {NULL}]
    <3>1. fd_cache \in [FDs -> Perms \union {NULL}] /\ cfs_fd \in [FDs -> Names \union {NULL}]
      BY DEF IInv, TypeOK
    <3>2. CASE r.fd \in FDs
      <4>1. fd_cache' = [fd_cache EXCEPT ![r.fd] = p] /\ cfs_fd' = [cfs_fd EXCEPT ![r.fd] = call.name]
        BY <1>13, <3>2
      <4> QED BY <1>3, <3>1, <4>1
    <3>3. CASE r.fd \notin FDs
      BY <1>13, <3>1, <3>3
    <3> QED BY <3>2, <3>3
  <2>5. open_file_list' \in Seq(Files)
    BY <1>1, <1>2, <1>3, ListCons
  <2> QED BY <1>1, <1>11, <1>13, <2>2, <2>3, <2>4, <2>5 DEF TypeOK
<1>15. ZeroBeforeInit'
  BY <1>1 DEF ZeroBeforeInit
<1>16. HeadIsCreator'
  <2>1. file_pool'[file].acl # <<>> /\ Head(file_pool'[file].acl) = p
    BY <1>8
  <2>2. \A f \in Listed : Head(file_pool[f].acl) \in Acl(f)
    BY <1>7, ListedFacts, ListHead DEF IInv, HeadIsCreator, Acl
  <2> QED BY <1>4, <1>6, <1>7, <1>8, <1>9, <2>1, <2>2 DEF IInv, HeadIsCreator, IsCreator
<1>17. SlotsConserved'
  <2>1. IsInjective(file_pool'[file].acl)
    <3>1. IsInjective(<<p>>)
      BY <1>3, ListSingle
    <3> QED BY <1>8, <3>1
  <2>2. \A f \in Listed : IsInjective(file_pool'[f].acl)
    BY <1>4, <1>7, <1>8 DEF IInv, SlotsConserved
  <2>3. \A f \in Listed : Acl(f) \cap ToSet(FreePerms) = {}
    BY DEF IInv, SlotsConserved
  <2>4. \A f, g \in Listed : f # g => Acl(f) \cap Acl(g) = {}
    BY DEF IInv, SlotsConserved
  <2>5. \A f \in Listed' : ToSet(file_pool'[f].acl) \cap ToSet(FreePerms') = {}
    <3>1. {p} \cap ToSet(FreePerms') = {} /\ ToSet(FreePerms') \subseteq ToSet(FreePerms)
      BY ONLY <1>11
    <3>2. \A f \in Listed : ToSet(file_pool'[f].acl) = Acl(f)
      BY ONLY <1>4, <1>7, <1>10
    <3>3. \A f \in Listed : Acl(f) \cap ToSet(FreePerms') = {}
      BY ONLY <2>3, <3>1
    <3> QED BY ONLY <1>6, <1>10, <3>1, <3>2, <3>3
  <2>6. \A f, g \in Listed' : f # g => ToSet(file_pool'[f].acl) \cap ToSet(file_pool'[g].acl) = {}
    BY ONLY <1>3, <1>4, <1>6, <1>7, <1>10, <2>3, <2>4
  <2>7. Perms = ToSet(FreePerms') \union UNION {ToSet(file_pool'[f].acl) : f \in Listed'}
    <3>1. Perms = ToSet(FreePerms) \union UNION {Acl(f) : f \in Listed}
      BY DEF IInv, SlotsConserved
    <3>2. UNION {ToSet(file_pool'[f].acl) : f \in Listed'} = {p} \union UNION {Acl(f) : f \in Listed}
      BY ONLY <1>4, <1>6, <1>7, <1>10
    <3>3. ToSet(FreePerms) = {p} \union ToSet(FreePerms')
      BY <1>11
    <3> QED BY ONLY <3>1, <3>2, <3>3
  <2>8. Listed' \cap ToSet(FreeFiles') = {} /\ Files = Listed' \union ToSet(FreeFiles')
    BY <1>4, <1>6, <1>11 DEF IInv, SlotsConserved
  <2> QED BY <1>6, <1>11, <2>1, <2>2, <2>5, <2>6, <2>7, <2>8 DEF SlotsConserved, Acl
<1>18. LookupsUnambiguous' /\ ListedNamed'
  <2>1. \A f, g \in Listed' : file_pool'[f].name = file_pool'[g].name => f = g
    BY <1>4, <1>6, <1>7, <1>8, <1>12 DEF IInv, LookupsUnambiguous
  <2>2. \A f \in Listed' : \A q \in ToSet(file_pool'[f].acl) : perm_pool'[q].file = f
    BY <1>4, <1>6, <1>7, <1>9, <1>10 DEF IInv, LookupsUnambiguous
  <2>3. \A f \in Listed' : \A q, t \in ToSet(file_pool'[f].acl) :
            perm_pool'[q].sm_id = perm_pool'[t].sm_id => q = t
    BY <1>4, <1>6, <1>7, <1>9, <1>10 DEF IInv, LookupsUnambiguous
  <2>4. \A f \in Listed' : file_pool'[f].name \in Names
    BY <1>4, <1>6, <1>7, <1>8 DEF IInv, ListedNamed
  <2> QED BY <2>1, <2>2, <2>3, <2>4 DEF LookupsUnambiguous, ListedNamed, Acl
<1>19. NoStaleFd'
  <2> SUFFICES ASSUME NEW fd \in FDs, fd_cache'[fd] # NULL
               PROVE  \E f \in Listed' : fd_cache'[fd] \in ToSet(file_pool'[f].acl)
    BY DEF NoStaleFd, Acl
  <2>1. CASE r.fd \in FDs /\ fd = r.fd
    BY <1>6, <1>10, <1>13, <2>1 DEF IInv, TypeOK
  <2>2. CASE r.fd \notin FDs \/ fd # r.fd
    <3>1. fd_cache'[fd] = fd_cache[fd]
      BY <1>13, <2>2 DEF IInv, TypeOK
    <3>2. PICK f \in Listed : fd_cache[fd] \in Acl(f)
      BY <3>1 DEF IInv, NoStaleFd
    <3> QED BY <1>4, <1>6, <1>7, <1>10, <3>1, <3>2
  <2> QED BY <2>1, <2>2
<1>20. BackendInSync'
  <2> SUFFICES ASSUME NEW fd \in FDs
               PROVE  cfs_fd'[fd] = IF fd_cache'[fd] = NULL THEN NULL
                                    ELSE file_pool'[perm_pool'[fd_cache'[fd]].file].name
    BY DEF BackendInSync
  <2>1. p # NULL
    BY <1>3
  <2>2. CASE r.fd \in FDs /\ fd = r.fd
    BY <1>8, <1>9, <1>13, <2>1, <2>2 DEF IInv, TypeOK
  <2>3. CASE r.fd \notin FDs \/ fd # r.fd
    <3>1. fd_cache'[fd] = fd_cache[fd] /\ cfs_fd'[fd] = cfs_fd[fd]
      BY <1>13, <2>3 DEF IInv, TypeOK
    <3>2. CASE fd_cache[fd] = NULL
      BY <3>1, <3>2 DEF IInv, BackendInSync
    <3>3. CASE fd_cache[fd] # NULL
      BY <1>5, <1>8, <1>9, <3>1, <3>3, ConnectedFd
    <3> QED BY <3>2, <3>3
  <2> QED BY <2>2, <2>3
<1>21. OpenCountExact'
  <2>1. \A fd \in FDs : fd = r.fd \/ fd_cache'[fd] = fd_cache[fd]
    BY <1>13 DEF IInv, TypeOK
  <2>2. r.fd \in FDs => fd_cache[r.fd] = NULL /\ fd_cache'[r.fd] = p /\ p # NULL
    BY <1>3, <1>13 DEF IInv, TypeOK
  <2>3. r.fd \notin FDs => \A fd \in FDs : fd_cache'[fd] = fd_cache[fd]
    BY <1>13
  <2>4. \A fd \in FDs : fd_cache[fd] # NULL => perm_pool'[fd_cache[fd]] = perm_pool[fd_cache[fd]]
    BY <1>5, <1>9, ConnectedFd
  <2>5. perm_pool'[p].file = file
    BY <1>9
  <2>6. \A f \in Listed : ConnsIn(fd_cache', perm_pool', f) = ConnsIn(fd_cache, perm_pool, f)
    BY ONLY <1>4, <2>1, <2>2, <2>3, <2>4, <2>5 DEF ConnsIn
  <2>7. ConnsIn(fd_cache', perm_pool', file) = IF r.fd \in FDs THEN {r.fd} ELSE {}
    BY ONLY <1>5, <2>1, <2>2, <2>3, <2>4, <2>5 DEF ConnsIn
  <2>8. file_pool'[file].open_count = Cardinality(ConnsIn(fd_cache', perm_pool', file))
    <3>1. file_pool'[file].open_count = counted(0, r)
      BY <1>8
    <3>2. Cardinality({}) = 0 /\ Cardinality({r.fd}) = 1
      BY ONLY FS_EmptySet, FS_Singleton
    <3> QED BY ONLY <2>7, <3>1, <3>2 DEF counted
  <2>9. \A f \in Listed : file_pool'[f].open_count = Cardinality(ConnsIn(fd_cache', perm_pool', f))
    <3>1. \A f \in Listed : file_pool[f].open_count = Cardinality(ConnsIn(fd_cache, perm_pool, f))
      BY OpenCountForm DEF IInv
    <3> QED BY ONLY <1>4, <1>7, <1>8, <2>6, <3>1
  <2> QED BY <1>6, <2>8, <2>9, OpenCountForm
<1> QED BY <1>14, <1>15, <1>16, <1>17, <1>18, <1>19, <1>20, <1>21 DEF IInv

\* A step that moves no struct from list to list and keeps the identity of each:
\* what is on which list stays true.
LEMMA ListsKept ==
    ASSUME IInv, UNCHANGED open_file_list, FreePerms' = FreePerms, FreeFiles' = FreeFiles,
           \A f \in Files : /\ file_pool'[f].acl = file_pool[f].acl
                            /\ file_pool'[f].name = file_pool[f].name,
           \A q \in Perms : /\ perm_pool'[q].sm_id = perm_pool[q].sm_id
                            /\ perm_pool'[q].file = perm_pool[q].file
                            /\ IsCreator(q) => perm_pool'[q].flags = SFS_CREATOR
    PROVE  HeadIsCreator' /\ SlotsConserved' /\ LookupsUnambiguous' /\ ListedNamed'
<1>1. /\ Listed' = Listed /\ Listed \subseteq Files
      /\ \A f \in Files : Acl(f) \subseteq Perms /\ file_pool[f].acl \in Seq(Perms)
  BY ListedFacts DEF IInv, Listed
<1>2. \A f \in Listed : ToSet(file_pool'[f].acl) = Acl(f)
  BY <1>1 DEF Acl
<1>3. HeadIsCreator'
  <2>1. \A f \in Listed : file_pool[f].acl # <<>> /\ Head(file_pool[f].acl) \in Perms
    BY <1>1, ListTail DEF IInv, HeadIsCreator
  <2> QED BY <1>1, <2>1 DEF IInv, HeadIsCreator, IsCreator
<1>4. SlotsConserved'
  <2>1. /\ IsInjective(FreePerms') /\ IsInjective(FreeFiles') /\ IsInjective(open_file_list')
        /\ Listed' \cap ToSet(FreeFiles') = {} /\ Files = Listed' \union ToSet(FreeFiles')
    BY <1>1 DEF IInv, SlotsConserved
  <2>2. \A f \in Listed' : IsInjective(file_pool'[f].acl)
    BY <1>1 DEF IInv, SlotsConserved
  <2>3. \A f \in Listed' : ToSet(file_pool'[f].acl) \cap ToSet(FreePerms') = {}
    BY <1>1, <1>2 DEF IInv, SlotsConserved
  <2>4. \A f, g \in Listed' : f # g => ToSet(file_pool'[f].acl) \cap ToSet(file_pool'[g].acl) = {}
    <3>1. \A f, g \in Listed : f # g => Acl(f) \cap Acl(g) = {}
      BY DEF IInv, SlotsConserved
    <3> QED BY ONLY <1>1, <1>2, <3>1
  <2>5. Perms = ToSet(FreePerms') \union UNION {ToSet(file_pool'[f].acl) : f \in Listed'}
    <3>1. Perms = ToSet(FreePerms) \union UNION {Acl(f) : f \in Listed}
      BY DEF IInv, SlotsConserved
    <3>2. UNION {ToSet(file_pool'[f].acl) : f \in Listed'} = UNION {Acl(f) : f \in Listed}
      BY ONLY <1>1, <1>2
    <3> QED BY <3>1, <3>2
  <2> QED BY <2>1, <2>2, <2>3, <2>4, <2>5 DEF SlotsConserved, Acl
<1>5. LookupsUnambiguous'
  <2>1. \A f, g \in Listed' : file_pool'[f].name = file_pool'[g].name => f = g
    BY <1>1 DEF IInv, LookupsUnambiguous
  <2>2. \A f \in Listed' : \A q \in ToSet(file_pool'[f].acl) : perm_pool'[q].file = f
    BY <1>1, <1>2 DEF IInv, LookupsUnambiguous
  <2>3. \A f \in Listed' : \A q, t \in ToSet(file_pool'[f].acl) :
            perm_pool'[q].sm_id = perm_pool'[t].sm_id => q = t
    BY <1>1, <1>2 DEF IInv, LookupsUnambiguous
  <2> QED BY <2>1, <2>2, <2>3 DEF LookupsUnambiguous, Acl
<1>6. ListedNamed'
  BY <1>1 DEF IInv, ListedNamed
<1> QED BY <1>3, <1>4, <1>5, <1>6

LEMMA ConnsFinite ==
    ASSUME NEW cache, NEW pool, NEW f
    PROVE  ConnsIn(cache, pool, f) \subseteq FDs /\ IsFiniteSet(ConnsIn(cache, pool, f))
<1>1. 0 \in Int /\ MAX_NB_OPEN_FILES - 1 \in Int
  BY DEF SizeAssumption
<1>2. IsFiniteSet(FDs)
  BY <1>1, FS_Interval DEF FDs
<1>3. ConnsIn(cache, pool, f) \subseteq FDs
  BY DEF ConnsIn
<1> QED BY <1>2, <1>3, FS_Subset

\* One more connection to an existing file.
LEMMA OpenExistingStep ==
    ASSUME IInv, NEW call, call.name \in Names, NEW want, NEW sm,
           NEW p, p = two_phase_lookup(call.name, want, sm), p # NULL,
           sfs_open_existing(call, p), reply' \in Reply
    PROVE  IInv'
<1> DEFINE file == perm_pool[p].file
<1>1. PICK r \in cfs_open(call.name) :
        /\ INIT_DONE' = TRUE
        /\ free_perm_list' = FreePerms
        /\ free_file_list' = FreeFiles
        /\ file_pool' = [file_pool EXCEPT ![file].open_count = counted(@, r)]
        /\ UNCHANGED <<perm_pool, open_file_list>>
        /\ open_back_end_file(call, r, p)
  BY DEF sfs_open_existing
<1>2. /\ p \in Perms /\ file \in Files /\ file \in Listed /\ p \in Acl(file)
      /\ file_pool[file].name = call.name
  BY TwoPhase
<1>3. /\ r.dir \in SUBSET Names /\ cfs_dir' = r.dir
      /\ \/ /\ r.fd \in FDs /\ fd_cache[r.fd] = NULL
            /\ fd_cache' = [fd_cache EXCEPT ![r.fd] = p]
            /\ cfs_fd' = [cfs_fd EXCEPT ![r.fd] = call.name]
         \/ r.fd \notin FDs /\ UNCHANGED <<fd_cache, cfs_fd>>
  BY <1>1, CfsOpenFacts DEF open_back_end_file, connVars
<1>4. perm_pool[p].file = file
  OBVIOUS
<1> HIDE DEF file
<1>5. /\ file_pool \in [Files -> [name : Names \union {NULL}, open_count : Int, acl : Seq(Perms)]]
      /\ fd_cache \in [FDs -> Perms \union {NULL}] /\ cfs_fd \in [FDs -> Names \union {NULL}]
  BY DEF IInv, TypeOK
<1>6. /\ \A f \in Files : file_pool'[f].name = file_pool[f].name /\ file_pool'[f].acl = file_pool[f].acl
      /\ \A f \in Files \ {file} : file_pool'[f] = file_pool[f]
      /\ file_pool'[file].open_count = counted(file_pool[file].open_count, r)
  BY ONLY <1>1, <1>2, <1>5
<1>7. FreePerms' = FreePerms /\ FreeFiles' = FreeFiles
  BY <1>1 DEF FreePerms, FreeFiles
<1>8. TypeOK'
  <2>1. FreePerms \in Seq(Perms) /\ FreeFiles \in Seq(Files)
    BY FreeFacts DEF IInv
  <2>2. file_pool' \in [Files -> [name : Names \union {NULL}, open_count : Int, acl : Seq(Perms)]]
    <3>1. counted(file_pool[file].open_count, r) \in Int
      BY <1>2, <1>5 DEF counted
    <3> QED BY ONLY <1>1, <1>2, <1>5, <3>1
  <2>3. fd_cache' \in [FDs -> Perms \union {NULL}] /\ cfs_fd' \in [FDs -> Names \union {NULL}]
    <3>1. CASE r.fd \in FDs
      <4>1. fd_cache' = [fd_cache EXCEPT ![r.fd] = p] /\ cfs_fd' = [cfs_fd EXCEPT ![r.fd] = call.name]
        BY <1>3, <3>1
      <4> QED BY <1>2, <1>5, <4>1
    <3>2. CASE r.fd \notin FDs
      BY <1>3, <1>5, <3>2
    <3> QED BY <3>1, <3>2
  <2> QED BY <1>1, <1>3, <2>1, <2>2, <2>3 DEF IInv, TypeOK
<1>9. ZeroBeforeInit'
  BY <1>1 DEF ZeroBeforeInit
<1>10. HeadIsCreator' /\ SlotsConserved' /\ LookupsUnambiguous' /\ ListedNamed'
  BY <1>1, <1>6, <1>7, ListsKept DEF IsCreator
<1>11. Listed' = Listed /\ Listed \subseteq Files
  BY <1>1, ListedFacts DEF IInv, Listed
<1>12. \A fd \in FDs : fd = r.fd \/ (fd_cache'[fd] = fd_cache[fd] /\ cfs_fd'[fd] = cfs_fd[fd])
  BY <1>3, <1>5
<1>13. r.fd \in FDs => fd_cache[r.fd] = NULL /\ fd_cache'[r.fd] = p /\ cfs_fd'[r.fd] = call.name
  BY <1>3, <1>5
<1>14. p # NULL /\ perm_pool' = perm_pool
  BY <1>1, <1>2
<1>15. NoStaleFd'
  <2> SUFFICES ASSUME NEW fd \in FDs, fd_cache'[fd] # NULL
               PROVE  \E f \in Listed : fd_cache'[fd] \in ToSet(file_pool'[f].acl)
    BY <1>11 DEF NoStaleFd, Acl
  <2>1. CASE fd = r.fd
    BY <1>2, <1>6, <1>13, <2>1 DEF Acl
  <2>2. CASE fd # r.fd
    <3>1. PICK f \in Listed : fd_cache[fd] \in Acl(f)
      BY <1>12, <2>2 DEF IInv, NoStaleFd
    <3> QED BY <1>6, <1>11, <1>12, <2>2, <3>1 DEF Acl
  <2> QED BY <2>1, <2>2
<1>16. BackendInSync'
  <2> SUFFICES ASSUME NEW fd \in FDs
               PROVE  cfs_fd'[fd] = IF fd_cache'[fd] = NULL THEN NULL
                                    ELSE file_pool'[perm_pool[fd_cache'[fd]].file].name
    BY <1>14 DEF BackendInSync
  <2>1. CASE fd = r.fd
    BY <1>2, <1>4, <1>6, <1>13, <1>14, <2>1
  <2>2. CASE fd # r.fd
    <3>1. CASE fd_cache[fd] = NULL
      BY <1>12, <2>2, <3>1 DEF IInv, BackendInSync
    <3>2. CASE fd_cache[fd] # NULL
      BY <1>6, <1>12, <2>2, <3>2, ConnectedFd
    <3> QED BY <3>1, <3>2
  <2> QED BY <2>1, <2>2
<1>17. OpenCountExact'
  <2>1. \A f \in Listed : file_pool[f].open_count = Cardinality(ConnsIn(fd_cache, perm_pool, f))
    BY OpenCountForm DEF IInv
  <2>2. \A f \in Listed \ {file} : ConnsIn(fd_cache', perm_pool, f) = ConnsIn(fd_cache, perm_pool, f)
    <3>1. CASE r.fd \in FDs
      BY ONLY <1>4, <1>12, <1>13, <3>1 DEF ConnsIn
    <3>2. CASE r.fd \notin FDs
      BY ONLY <1>12, <3>2 DEF ConnsIn
    <3> QED BY <3>1, <3>2
  <2>3. file_pool'[file].open_count = Cardinality(ConnsIn(fd_cache', perm_pool, file))
    <3>1. CASE r.fd \in FDs
      <4>1. r.fd \notin ConnsIn(fd_cache, perm_pool, file)
        BY <1>13, <3>1 DEF ConnsIn
      <4>2. ConnsIn(fd_cache', perm_pool, file) = ConnsIn(fd_cache, perm_pool, file) \union {r.fd}
        BY ONLY <1>4, <1>12, <1>13, <1>14, <3>1 DEF ConnsIn
      <4>3. Cardinality(ConnsIn(fd_cache', perm_pool, file))
              = Cardinality(ConnsIn(fd_cache, perm_pool, file)) + 1
        BY <4>1, <4>2, ConnsFinite, FS_AddElement
      <4> QED BY <1>2, <1>6, <2>1, <3>1, <4>3 DEF counted
    <3>2. CASE r.fd \notin FDs
      <4>1. ConnsIn(fd_cache', perm_pool, file) = ConnsIn(fd_cache, perm_pool, file)
        BY ONLY <1>12, <3>2 DEF ConnsIn
      <4> QED BY <1>2, <1>6, <2>1, <3>2, <4>1 DEF counted
    <3> QED BY <3>1, <3>2
  <2>4. \A f \in Listed : file_pool'[f].open_count = Cardinality(ConnsIn(fd_cache', perm_pool, f))
    BY ONLY <1>6, <1>11, <2>1, <2>2, <2>3
  <2> QED BY <1>11, <1>14, <2>4, OpenCountForm
<1> QED BY <1>8, <1>9, <1>10, <1>15, <1>16, <1>17 DEF IInv

\* One connection less.
LEMMA CloseStep ==
    ASSUME IInv, NEW sm, NEW fd, CHK_FD(fd, sm), reply' \in Reply, CLOSE_FD({fd}),
           file_pool' = [file_pool EXCEPT ![perm_pool[fd_cache[fd]].file].open_count = @ - 1],
           UNCHANGED <<INIT_DONE, perm_pool, open_file_list, freeVars, cfs_dir>>
    PROVE  IInv'
<1> DEFINE p == fd_cache[fd]
           file == perm_pool[p].file
<1>1. fd \in FDs /\ p # NULL
  BY DEF CHK_FD
<1>2. p \in Perms /\ file \in Files /\ file \in Listed /\ INIT_DONE
  BY <1>1, ConnectedFd
<1>3. /\ file_pool \in [Files -> [name : Names \union {NULL}, open_count : Int, acl : Seq(Perms)]]
      /\ fd_cache \in [FDs -> Perms \union {NULL}] /\ cfs_fd \in [FDs -> Names \union {NULL}]
  BY DEF IInv, TypeOK
<1>4. /\ file_pool' = [file_pool EXCEPT ![file].open_count = @ - 1]
      /\ fd_cache' = [g \in FDs |-> IF g = fd THEN NULL ELSE fd_cache[g]]
      /\ cfs_fd' = [g \in FDs |-> IF g = fd THEN NULL ELSE cfs_fd[g]]
      /\ INIT_DONE' = INIT_DONE /\ perm_pool' = perm_pool /\ open_file_list' = open_file_list
      /\ free_perm_list' = free_perm_list /\ free_file_list' = free_file_list /\ cfs_dir' = cfs_dir
  BY DEF CLOSE_FD, freeVars
<1>5. fd \in ConnsIn(fd_cache, perm_pool, file)
  BY <1>1 DEF ConnsIn
<1> HIDE DEF p, file
<1>6. /\ \A f \in Files : file_pool'[f].name = file_pool[f].name /\ file_pool'[f].acl = file_pool[f].acl
      /\ \A f \in Files \ {file} : file_pool'[f] = file_pool[f]
      /\ file_pool'[file].open_count = file_pool[file].open_count - 1
  BY ONLY <1>2, <1>3, <1>4
<1>7. FreePerms' = FreePerms /\ FreeFiles' = FreeFiles
  BY <1>4 DEF FreePerms, FreeFiles
<1>8. /\ \A g \in FDs \ {fd} : fd_cache'[g] = fd_cache[g] /\ cfs_fd'[g] = cfs_fd[g]
      /\ fd_cache'[fd] = NULL /\ cfs_fd'[fd] = NULL
  <2>1. \A g \in FDs : fd_cache'[g] = IF g = fd THEN NULL ELSE fd_cache[g]
    BY ONLY <1>4
  <2>2. \A g \in FDs : cfs_fd'[g] = IF g = fd THEN NULL ELSE cfs_fd[g]
    BY ONLY <1>4
  <2> QED BY ONLY <1>1, <2>1, <2>2
<1>9. TypeOK'
  <2>1. file_pool' \in [Files -> [name : Names \union {NULL}, open_count : Int, acl : Seq(Perms)]]
    <3> DEFINE n == file_pool[file].open_count - 1
    <3>1. n \in Int
      <4>1. file_pool[file] \in [name : Names \union {NULL}, open_count : Int, acl : Seq(Perms)]
        BY ONLY <1>2, <1>3
      <4>2. file_pool[file].open_count \in Int
        BY ONLY <4>1
      <4> QED BY ONLY <4>2
    <3>2. file_pool' = [file_pool EXCEPT ![file].open_count = n]
      BY ONLY <1>4
    <3> HIDE DEF n
    <3> QED BY ONLY <1>2, <1>3, <3>1, <3>2
  <2>2. fd_cache' \in [FDs -> Perms \union {NULL}] /\ cfs_fd' \in [FDs -> Names \union {NULL}]
    BY ONLY <1>3, <1>4
  <2> QED BY <1>4, <2>1, <2>2 DEF IInv, TypeOK
<1>10. ZeroBeforeInit'
  BY <1>2, <1>4 DEF ZeroBeforeInit
<1>11. HeadIsCreator' /\ SlotsConserved' /\ LookupsUnambiguous' /\ ListedNamed'
  BY <1>4, <1>6, <1>7, ListsKept DEF IsCreator
<1>12. Listed' = Listed /\ Listed \subseteq Files
  BY <1>4, ListedFacts DEF IInv, Listed
<1>13. NoStaleFd'
  <2> SUFFICES ASSUME NEW g \in FDs, fd_cache'[g] # NULL
               PROVE  \E f \in Listed : fd_cache'[g] \in ToSet(file_pool'[f].acl)
    BY <1>12 DEF NoStaleFd, Acl
  <2>1. g # fd
    BY <1>8
  <2>2. PICK f \in Listed : fd_cache[g] \in Acl(f)
    BY <1>8, <2>1 DEF IInv, NoStaleFd
  <2> QED BY <1>6, <1>8, <1>12, <2>1, <2>2 DEF Acl
<1>14. BackendInSync'
  <2> SUFFICES ASSUME NEW g \in FDs
               PROVE  cfs_fd'[g] = IF fd_cache'[g] = NULL THEN NULL
                                   ELSE file_pool'[perm_pool[fd_cache'[g]].file].name
    BY <1>4 DEF BackendInSync
  <2>1. CASE g = fd
    BY <1>8, <2>1
  <2>2. CASE g # fd /\ fd_cache[g] = NULL
    BY <1>8, <2>2 DEF IInv, BackendInSync
  <2>3. CASE g # fd /\ fd_cache[g] # NULL
    <3>1. /\ cfs_fd[g] = file_pool[perm_pool[fd_cache[g]].file].name
          /\ perm_pool[fd_cache[g]].file \in Files
      BY <2>3, ConnectedFd
    <3>2. fd_cache'[g] = fd_cache[g] /\ cfs_fd'[g] = cfs_fd[g]
      BY <1>8, <2>3
    <3> QED BY ONLY <1>6, <2>3, <3>1, <3>2
  <2> QED BY <2>1, <2>2, <2>3
<1>15. OpenCountExact'
  <2>1. \A f \in Listed : file_pool[f].open_count = Cardinality(ConnsIn(fd_cache, perm_pool, f))
    BY OpenCountForm DEF IInv
  <2>2. \A f \in Listed \ {file} : ConnsIn(fd_cache', perm_pool, f) = ConnsIn(fd_cache, perm_pool, f)
    BY ONLY <1>5, <1>8 DEF ConnsIn
  <2>3. ConnsIn(fd_cache', perm_pool, file) = ConnsIn(fd_cache, perm_pool, file) \ {fd}
    BY ONLY <1>8 DEF ConnsIn
  <2>4. Cardinality(ConnsIn(fd_cache', perm_pool, file))
          = Cardinality(ConnsIn(fd_cache, perm_pool, file)) - 1
    <3>1. IsFiniteSet(ConnsIn(fd_cache, perm_pool, file))
      BY ONLY ConnsFinite
    <3> QED BY ONLY <1>5, <2>3, <3>1, FS_RemoveElement
  <2>5. \A f \in Listed : file_pool'[f].open_count = Cardinality(ConnsIn(fd_cache', perm_pool, f))
    BY ONLY <1>2, <1>6, <1>12, <2>1, <2>2, <2>4
  <2> QED BY <1>4, <1>12, <2>5, OpenCountForm
<1> QED BY <1>9, <1>10, <1>11, <1>13, <1>14, <1>15 DEF IInv

\* A file without connections is unlisted; its struct and its entries are freed.
LEMMA RemoveStep ==
    ASSUME IInv, NEW name, NEW sm,
           NEW p, p = two_phase_lookup(name, SFS_ROOT, sm), p # NULL,
           NEW cur, cur = perm_pool[p].file, file_pool[cur].open_count = 0,
           open_file_list' = Unlink(open_file_list, cur),
           free_perm_list' = FREE_PERM(file_pool[cur].acl),
           perm_pool' = [q \in Perms |-> IF q \in Acl(cur) THEN NoPerm ELSE perm_pool[q]],
           free_file_list' = <<cur>> \o FreeFiles,
           file_pool' = [file_pool EXCEPT ![cur] = NoFile],
           cfs_dir' \in SUBSET Dir, reply' \in Reply,
           UNCHANGED <<INIT_DONE, connVars>>
    PROVE  IInv'
<1>1. cur \in Files /\ cur \in Listed /\ INIT_DONE
  BY TwoPhase
<1>2. /\ file_pool \in [Files -> [name : Names \union {NULL}, open_count : Int, acl : Seq(Perms)]]
      /\ perm_pool \in [Perms -> [sm_id : SMs \union {NULL}, flags : Flags,
                                 file : Files \union {NULL}]]
      /\ open_file_list \in Seq(Files) /\ FreePerms \in Seq(Perms) /\ FreeFiles \in Seq(Files)
      /\ Listed \subseteq Files /\ \A f \in Files : Acl(f) \subseteq Perms
      /\ file_pool[cur].acl \in Seq(Perms)
  BY <1>1, FreeFacts, ListedFacts DEF IInv, TypeOK
<1>3. /\ open_file_list' \in Seq(Files) /\ Listed' = Listed \ {cur} /\ IsInjective(open_file_list')
  <2>1. IsInjective(open_file_list) /\ cur \in ToSet(open_file_list)
    BY <1>1 DEF IInv, SlotsConserved, Listed
  <2> QED BY <1>2, <2>1, UnlinkFacts DEF Listed
<1>4. /\ FreePerms' = Reverse(file_pool[cur].acl) \o FreePerms
      /\ FreeFiles' = <<cur>> \o FreeFiles
      /\ free_perm_list' = FreePerms' /\ free_file_list' = FreeFiles'
  BY <1>1 DEF FreePerms, FreeFiles, FREE_PERM
<1>5. /\ FreePerms' \in Seq(Perms) /\ ToSet(FreePerms') = Acl(cur) \union ToSet(FreePerms)
      /\ IsInjective(FreePerms')
  <2>1. /\ IsInjective(file_pool[cur].acl) /\ IsInjective(FreePerms)
        /\ ToSet(file_pool[cur].acl) \cap ToSet(FreePerms) = {}
    BY <1>1 DEF IInv, SlotsConserved, Acl
  <2> DEFINE acl == file_pool[cur].acl
  <2>2. /\ Reverse(acl) \o FreePerms \in Seq(Perms)
        /\ ToSet(Reverse(acl) \o FreePerms) = ToSet(acl) \union ToSet(FreePerms)
        /\ IsInjective(Reverse(acl) \o FreePerms)
    <3>1. acl \in Seq(Perms) /\ FreePerms \in Seq(Perms)
      BY <1>2
    <3> HIDE DEF acl
    <3> QED BY ONLY <2>1, <3>1, ListReverse DEF acl
  <2> QED BY ONLY <1>4, <2>2 DEF Acl
<1>6. /\ FreeFiles' \in Seq(Files) /\ ToSet(FreeFiles') = {cur} \union ToSet(FreeFiles)
      /\ IsInjective(FreeFiles')
  <2>1. IsInjective(FreeFiles) /\ cur \notin ToSet(FreeFiles)
    BY <1>1 DEF IInv, SlotsConserved
  <2>2. /\ <<cur>> \o FreeFiles \in Seq(Files)
        /\ ToSet(<<cur>> \o FreeFiles) = {cur} \union ToSet(FreeFiles)
        /\ IsInjective(<<cur>> \o FreeFiles)
    <3>1. FreeFiles \in Seq(Files)
      BY <1>2
    <3> QED BY ONLY <1>1, <2>1, <3>1, ListCons
  <2> QED BY ONLY <1>4, <2>2
<1>7. \A f \in Files \ {cur} : file_pool'[f] = file_pool[f]
  BY ONLY <1>2, file_pool' = [file_pool EXCEPT ![cur] = NoFile]
<1>8. \A q \in Perms \ Acl(cur) : perm_pool'[q] = perm_pool[q]
  BY ONLY perm_pool' = [q \in Perms |-> IF q \in Acl(cur) THEN NoPerm ELSE perm_pool[q]]
<1>9. \A f \in Listed' : /\ f \in Files \ {cur} /\ f \in Listed
                         /\ file_pool'[f] = file_pool[f]
                         /\ ToSet(file_pool'[f].acl) = Acl(f)
  BY <1>2, <1>3, <1>7 DEF Acl
<1>10. \A f \in Listed' : \A q \in Acl(f) : q \in Perms \ Acl(cur) /\ perm_pool'[q] = perm_pool[q]
  <2>1. \A f \in Listed \ {cur} : Acl(f) \cap Acl(cur) = {}
    BY <1>1 DEF IInv, SlotsConserved
  <2> QED BY ONLY <1>2, <1>3, <1>8, <2>1
\* The file has no connection: open_count says so.
<1>11. \A fd \in FDs : fd_cache[fd] # NULL => perm_pool[fd_cache[fd]].file # cur
  <2>1. Cardinality(ConnsIn(fd_cache, perm_pool, cur)) = 0
    BY <1>1, OpenCountForm DEF IInv
  <2>2. ConnsIn(fd_cache, perm_pool, cur) = {}
    BY <2>1, ConnsFinite, FS_EmptySet
  <2> QED BY <2>2 DEF ConnsIn
<1>12. fd_cache' = fd_cache /\ cfs_fd' = cfs_fd /\ INIT_DONE' = INIT_DONE
  BY DEF connVars
<1>13. \A fd \in FDs : fd_cache[fd] # NULL =>
          \E f \in Listed' : /\ fd_cache[fd] \in Acl(f) /\ perm_pool[fd_cache[fd]].file = f
                             /\ perm_pool'[fd_cache[fd]] = perm_pool[fd_cache[fd]]
  <2> SUFFICES ASSUME NEW fd \in FDs, fd_cache[fd] # NULL
               PROVE  \E f \in Listed' : /\ fd_cache[fd] \in Acl(f) /\ perm_pool[fd_cache[fd]].file = f
                                        /\ perm_pool'[fd_cache[fd]] = perm_pool[fd_cache[fd]]
    OBVIOUS
  <2>1. PICK f \in Listed : fd_cache[fd] \in Acl(f)
    BY DEF IInv, NoStaleFd
  <2>2. perm_pool[fd_cache[fd]].file = f
    BY <2>1 DEF IInv, LookupsUnambiguous
  <2>3. f \in Listed'
    BY <1>3, <1>11, <2>2
  <2> QED BY <1>10, <2>1, <2>2, <2>3
<1>14. TypeOK'
  <2>1. NoPerm \in [sm_id : SMs \union {NULL}, flags : Flags, file : Files \union {NULL}]
    BY DEF NoPerm, Flags, SFS_NIL
  <2>2. NoFile \in [name : Names \union {NULL}, open_count : Int, acl : Seq(Perms)]
    BY DEF NoFile
  <2>3. perm_pool' \in [Perms -> [sm_id : SMs \union {NULL}, flags : Flags,
                                 file : Files \union {NULL}]]
    BY ONLY <1>2, <2>1, perm_pool' = [q \in Perms |-> IF q \in Acl(cur) THEN NoPerm ELSE perm_pool[q]]
  <2>4. file_pool' \in [Files -> [name : Names \union {NULL}, open_count : Int, acl : Seq(Perms)]]
    BY ONLY <1>1, <1>2, <2>2, file_pool' = [file_pool EXCEPT ![cur] = NoFile]
  <2>5. cfs_dir' \in SUBSET Names
    BY DirType DEF IInv
  <2> QED BY <1>3, <1>4, <1>5, <1>6, <1>12, <2>3, <2>4, <2>5 DEF IInv, TypeOK
<1>15. ZeroBeforeInit'
  BY <1>1, <1>12 DEF ZeroBeforeInit
<1>16. HeadIsCreator'
  <2>1. \A f \in Listed : file_pool[f].acl # <<>> /\ Head(file_pool[f].acl) \in Acl(f)
    BY <1>2, ListedFacts, ListHead DEF IInv, HeadIsCreator, Acl
  <2>2. \A f \in Listed : perm_pool[Head(file_pool[f].acl)].flags = SFS_CREATOR
    BY DEF IInv, HeadIsCreator, IsCreator
  <2> QED BY ONLY <1>9, <1>10, <2>1, <2>2 DEF HeadIsCreator, IsCreator
<1>17. SlotsConserved'
  <2>1. \A f \in Listed' : IsInjective(file_pool'[f].acl)
    BY <1>9 DEF IInv, SlotsConserved
  <2>2. \A f, g \in Listed : f # g => Acl(f) \cap Acl(g) = {}
    BY DEF IInv, SlotsConserved
  <2>3. \A f \in Listed : Acl(f) \cap ToSet(FreePerms) = {}
    BY DEF IInv, SlotsConserved
  <2>4. \A f \in Listed' : ToSet(file_pool'[f].acl) \cap ToSet(FreePerms') = {}
    BY ONLY <1>1, <1>5, <1>9, <2>2, <2>3
  <2>5. \A f, g \in Listed' : f # g => ToSet(file_pool'[f].acl) \cap ToSet(file_pool'[g].acl) = {}
    BY ONLY <1>9, <2>2
  <2>6. Perms = ToSet(FreePerms') \union UNION {ToSet(file_pool'[f].acl) : f \in Listed'}
    <3>1. Perms = ToSet(FreePerms) \union UNION {Acl(f) : f \in Listed}
      BY DEF IInv, SlotsConserved
    <3>2. UNION {ToSet(file_pool'[f].acl) : f \in Listed'} = UNION {Acl(f) : f \in Listed'}
      BY ONLY <1>9
    <3>3. UNION {Acl(f) : f \in Listed} = Acl(cur) \union UNION {Acl(f) : f \in Listed'}
      BY ONLY <1>1, <1>3
    <3> QED BY ONLY <1>5, <3>1, <3>2, <3>3
  <2>7. Listed' \cap ToSet(FreeFiles') = {} /\ Files = Listed' \union ToSet(FreeFiles')
    <3>1. Listed \cap ToSet(FreeFiles) = {} /\ Files = Listed \union ToSet(FreeFiles)
      BY DEF IInv, SlotsConserved
    <3> QED BY ONLY <1>1, <1>3, <1>6, <3>1
  <2>8. IsInjective(FreePerms') /\ IsInjective(FreeFiles') /\ IsInjective(open_file_list')
    BY <1>3, <1>5, <1>6
  <2> QED BY ONLY <2>1, <2>4, <2>5, <2>6, <2>7, <2>8 DEF SlotsConserved, Acl
<1>18. LookupsUnambiguous' /\ ListedNamed'
  <2>1. \A f, g \in Listed' : file_pool'[f].name = file_pool'[g].name => f = g
    BY <1>9 DEF IInv, LookupsUnambiguous
  <2>2. \A f \in Listed' : \A q \in ToSet(file_pool'[f].acl) : perm_pool'[q].file = f
    BY <1>9, <1>10 DEF IInv, LookupsUnambiguous
  <2>3. \A f \in Listed' : \A q, t \in ToSet(file_pool'[f].acl) :
            perm_pool'[q].sm_id = perm_pool'[t].sm_id => q = t
    <3>1. \A f \in Listed : \A q, t \in Acl(f) : perm_pool[q].sm_id = perm_pool[t].sm_id => q = t
      BY DEF IInv, LookupsUnambiguous
    <3> QED BY ONLY <1>9, <1>10, <3>1
  <2>4. \A f \in Listed' : file_pool'[f].name \in Names
    BY <1>9 DEF IInv, ListedNamed
  <2>5. LookupsUnambiguous'
    BY ONLY <2>1, <2>2, <2>3 DEF LookupsUnambiguous, Acl
  <2>6. ListedNamed'
    BY ONLY <2>4 DEF ListedNamed
  <2> QED BY <2>5, <2>6
<1>19. NoStaleFd'
  <2>1. \A fd \in FDs : fd_cache[fd] # NULL =>
          \E f \in Listed' : fd_cache[fd] \in ToSet(file_pool'[f].acl)
    BY ONLY <1>9, <1>13
  <2> QED BY <1>12, <2>1 DEF NoStaleFd, Acl
<1>20. BackendInSync'
  <2> SUFFICES ASSUME NEW fd \in FDs
               PROVE  cfs_fd[fd] = IF fd_cache[fd] = NULL THEN NULL
                                   ELSE file_pool'[perm_pool'[fd_cache[fd]].file].name
    BY <1>12 DEF BackendInSync
  <2>1. CASE fd_cache[fd] = NULL
    BY <2>1 DEF IInv, BackendInSync
  <2>2. CASE fd_cache[fd] # NULL
    BY <1>9, <1>13, <2>2 DEF IInv, BackendInSync
  <2> QED BY <2>1, <2>2
<1>21. OpenCountExact'
  <2>1. \A f \in Listed : file_pool[f].open_count = Cardinality(ConnsIn(fd_cache, perm_pool, f))
    BY OpenCountForm DEF IInv
  <2>2. \A f \in Listed' : ConnsIn(fd_cache', perm_pool', f) = ConnsIn(fd_cache, perm_pool, f)
    BY ONLY <1>12, <1>13 DEF ConnsIn
  <2>3. \A f \in Listed' : file_pool'[f].open_count = Cardinality(ConnsIn(fd_cache', perm_pool', f))
    BY ONLY <1>9, <2>1, <2>2
  <2> QED BY <2>3, OpenCountForm
<1> QED BY <1>14, <1>15, <1>16, <1>17, <1>18, <1>19, <1>20, <1>21 DEF IInv

\* An entry that is not a creator's gets other flags.
LEMMA OverrideStep ==
    ASSUME IInv, NEW p \in Perms, ~IsCreator(p), NEW flags \in Flags,
           perm_pool' = [perm_pool EXCEPT ![p].flags = flags], reply' \in Reply,
           UNCHANGED <<INIT_DONE, file_pool, open_file_list, freeVars, connVars, cfs_dir>>
    PROVE  IInv'
<1>1. /\ perm_pool \in [Perms -> [sm_id : SMs \union {NULL}, flags : Flags,
                                 file : Files \union {NULL}]]
      /\ fd_cache \in [FDs -> Perms \union {NULL}]
  BY DEF IInv, TypeOK
<1>2. /\ \A q \in Perms : perm_pool'[q].sm_id = perm_pool[q].sm_id /\ perm_pool'[q].file = perm_pool[q].file
      /\ \A q \in Perms \ {p} : perm_pool'[q] = perm_pool[q]
  BY ONLY <1>1, perm_pool' = [perm_pool EXCEPT ![p].flags = flags]
<1>3. FreePerms' = FreePerms /\ FreeFiles' = FreeFiles
  BY DEF FreePerms, FreeFiles, freeVars
<1>4. TypeOK'
  <2>1. perm_pool' \in [Perms -> [sm_id : SMs \union {NULL}, flags : Flags,
                                 file : Files \union {NULL}]]
    BY ONLY <1>1, flags \in Flags, perm_pool' = [perm_pool EXCEPT ![p].flags = flags]
  <2> QED BY <2>1 DEF IInv, TypeOK, freeVars, connVars
<1>5. ZeroBeforeInit' /\ NoStaleFd'
  BY DEF IInv, ZeroBeforeInit, NoStaleFd, Listed, Acl, connVars
<1>6. HeadIsCreator' /\ SlotsConserved' /\ LookupsUnambiguous' /\ ListedNamed'
  BY <1>2, <1>3, ListsKept DEF IsCreator
<1>7. BackendInSync'
  <2> SUFFICES ASSUME NEW fd \in FDs
               PROVE  cfs_fd[fd] = IF fd_cache[fd] = NULL THEN NULL
                                   ELSE file_pool[perm_pool'[fd_cache[fd]].file].name
    BY DEF BackendInSync, connVars
  <2> QED BY <1>1, <1>2 DEF IInv, BackendInSync
<1>8. OpenCountExact'
  <2>1. \A f \in Listed : ConnsIn(fd_cache, perm_pool', f) = ConnsIn(fd_cache, perm_pool, f)
    BY ONLY <1>1, <1>2 DEF ConnsIn
  <2>2. Listed' = Listed /\ fd_cache' = fd_cache /\ file_pool' = file_pool
    BY DEF Listed, connVars
  <2> QED BY <2>1, <2>2, OpenCountForm DEF IInv
<1> QED BY <1>4, <1>5, <1>6, <1>7, <1>8 DEF IInv

\* A free struct becomes the last entry of an ACL, for an SM that has none.
LEMMA AppendStep ==
    ASSUME IInv, INIT_DONE, NEW file \in Listed, NEW id \in SMs, NEW flags \in Flags,
           LOOKUP_PERM(file, id) = NULL, FreePerms # <<>>,
           NEW new, new = Head(FreePerms),
           free_perm_list' = Tail(FreePerms),
           perm_pool' = [perm_pool EXCEPT ![new] =
               [sm_id |-> id, flags |-> flags, file |-> file]],
           file_pool' = [file_pool EXCEPT ![file].acl = Append(file_pool[file].acl, new)],
           reply' \in Reply,
           UNCHANGED <<INIT_DONE, open_file_list, free_file_list, connVars, cfs_dir>>
    PROVE  IInv'
<1> DEFINE acl2 == Append(file_pool[file].acl, new)
<1>1. /\ file_pool \in [Files -> [name : Names \union {NULL}, open_count : Int, acl : Seq(Perms)]]
      /\ perm_pool \in [Perms -> [sm_id : SMs \union {NULL}, flags : Flags,
                                 file : Files \union {NULL}]]
      /\ FreePerms \in Seq(Perms) /\ FreeFiles \in Seq(Files)
      /\ Listed \subseteq Files /\ \A f \in Files : Acl(f) \subseteq Perms
      /\ file \in Files /\ file_pool[file].acl \in Seq(Perms)
  BY FreeFacts, ListedFacts DEF IInv, TypeOK
<1>2. new \in Perms /\ new \in ToSet(FreePerms)
  BY <1>1, ListTail, ListHead
<1>3. \A f \in Listed : new \notin Acl(f)
  BY <1>2 DEF IInv, SlotsConserved
<1>4. \A fd \in FDs : fd_cache[fd] # NULL => fd_cache[fd] # new /\ fd_cache[fd] \in Perms
  BY <1>3, ConnectedFd
<1>5. /\ acl2 \in Seq(Perms) /\ acl2 # <<>> /\ Head(acl2) = Head(file_pool[file].acl)
      /\ ToSet(acl2) = {new} \union Acl(file) /\ IsInjective(acl2)
  <2>1. file_pool[file].acl # <<>> /\ IsInjective(file_pool[file].acl) /\ new \notin ToSet(file_pool[file].acl)
    BY <1>3 DEF IInv, HeadIsCreator, SlotsConserved, Acl
  <2>2. file_pool[file].acl \in Seq(Perms)
    BY <1>1
  <2> QED BY ONLY <1>2, <2>1, <2>2, ListAppend DEF Acl
<1> HIDE DEF acl2
<1>6. file_pool' = [file_pool EXCEPT ![file].acl = acl2]
  BY DEF acl2
<1>7. /\ \A f \in Files \ {file} : file_pool'[f] = file_pool[f]
      /\ \A f \in Files : /\ file_pool'[f].name = file_pool[f].name
                          /\ file_pool'[f].open_count = file_pool[f].open_count
      /\ file_pool'[file].acl = acl2
  BY ONLY <1>1, <1>6
<1>8. /\ perm_pool'[new] = [sm_id |-> id, flags |-> flags, file |-> file]
      /\ \A q \in Perms \ {new} : perm_pool'[q] = perm_pool[q]
  BY <1>1, <1>2
<1>9. /\ FreePerms' = Tail(FreePerms) /\ FreeFiles' = FreeFiles
      /\ FreePerms' \in Seq(Perms) /\ IsInjective(FreePerms')
      /\ ToSet(FreePerms) = {new} \union ToSet(FreePerms') /\ new \notin ToSet(FreePerms')
  <2>1. FreePerms' = Tail(FreePerms) /\ FreeFiles' = FreeFiles
    BY DEF FreePerms, FreeFiles
  <2>2. IsInjective(FreePerms) /\ FreePerms \in Seq(Perms)
    BY <1>1 DEF IInv, SlotsConserved
  <2> QED BY <2>1, <2>2, ListTail
<1>10. Listed' = Listed /\ fd_cache' = fd_cache /\ cfs_fd' = cfs_fd /\ open_file_list' = open_file_list
  BY DEF Listed, connVars
<1>11. /\ ToSet(file_pool'[file].acl) = {new} \union Acl(file)
       /\ \A f \in Listed \ {file} : ToSet(file_pool'[f].acl) = Acl(f)
  <2>1. \A f \in Listed \ {file} : file_pool'[f].acl = file_pool[f].acl
    BY <1>1, <1>7
  <2> QED BY <1>5, <1>7, <2>1 DEF Acl
<1>12. TypeOK'
  <2>1. file_pool' \in [Files -> [name : Names \union {NULL}, open_count : Int, acl : Seq(Perms)]]
    BY ONLY <1>1, <1>5, <1>6
  <2>2. perm_pool' \in [Perms -> [sm_id : SMs \union {NULL}, flags : Flags,
                                 file : Files \union {NULL}]]
    <3>1. [sm_id |-> id, flags |-> flags, file |-> file]
            \in [sm_id : SMs \union {NULL}, flags : Flags, file : Files \union {NULL}]
      BY <1>1
    <3> QED BY ONLY <1>1, <1>2, <3>1,
            perm_pool' = [perm_pool EXCEPT ![new] = [sm_id |-> id, flags |-> flags, file |-> file]]
  <2>3. free_perm_list' \in Seq(Perms)
    BY <1>9
  <2> QED BY <2>1, <2>2, <2>3 DEF IInv, TypeOK, connVars
<1>13. ZeroBeforeInit'
  BY DEF ZeroBeforeInit
<1>14. HeadIsCreator'
  <2>1. \A f \in Listed : file_pool[f].acl # <<>> /\ Head(file_pool[f].acl) \in Acl(f)
    BY <1>1, ListedFacts, ListHead DEF IInv, HeadIsCreator, Acl
  <2>2. \A f \in Listed : file_pool'[f].acl # <<>> /\ Head(file_pool'[f].acl) = Head(file_pool[f].acl)
    BY <1>1, <1>5, <1>7, <2>1
  <2>3. \A f \in Listed : perm_pool'[Head(file_pool[f].acl)] = perm_pool[Head(file_pool[f].acl)]
    BY <1>1, <1>3, <1>8, <2>1
  <2> QED BY <1>10, <2>2, <2>3 DEF IInv, HeadIsCreator, IsCreator
<1>15. SlotsConserved'
  <2>1. \A f \in Listed' : IsInjective(file_pool'[f].acl)
    BY <1>1, <1>5, <1>7, <1>10 DEF IInv, SlotsConserved
  <2>2. \A f, g \in Listed : f # g => Acl(f) \cap Acl(g) = {}
    BY DEF IInv, SlotsConserved
  <2>3. \A f \in Listed : Acl(f) \cap ToSet(FreePerms) = {}
    BY DEF IInv, SlotsConserved
  <2>4. \A f \in Listed' : ToSet(file_pool'[f].acl) \cap ToSet(FreePerms') = {}
    <3>1. {new} \cap ToSet(FreePerms') = {} /\ ToSet(FreePerms') \subseteq ToSet(FreePerms)
      BY ONLY <1>9
    <3>2. \A f \in Listed : Acl(f) \cap ToSet(FreePerms') = {}
      BY ONLY <2>3, <3>1
    <3> QED BY ONLY <1>10, <1>11, <3>1, <3>2
  <2>5. \A f, g \in Listed' : f # g => ToSet(file_pool'[f].acl) \cap ToSet(file_pool'[g].acl) = {}
    BY ONLY <1>3, <1>10, <1>11, <2>2
  <2>6. Perms = ToSet(FreePerms') \union UNION {ToSet(file_pool'[f].acl) : f \in Listed'}
    <3>1. Perms = ToSet(FreePerms) \union UNION {Acl(f) : f \in Listed}
      BY DEF IInv, SlotsConserved
    <3>2. UNION {ToSet(file_pool'[f].acl) : f \in Listed'} = {new} \union UNION {Acl(f) : f \in Listed}
      BY ONLY <1>10, <1>11, file \in Listed
    <3>3. ToSet(FreePerms) = {new} \union ToSet(FreePerms')
      BY <1>9
    <3> QED BY ONLY <3>1, <3>2, <3>3
  <2>7. /\ IsInjective(FreePerms') /\ IsInjective(FreeFiles') /\ IsInjective(open_file_list')
        /\ Listed' \cap ToSet(FreeFiles') = {} /\ Files = Listed' \union ToSet(FreeFiles')
    BY <1>9, <1>10 DEF IInv, SlotsConserved
  <2> QED BY ONLY <2>1, <2>4, <2>5, <2>6, <2>7 DEF SlotsConserved, Acl
<1>16. LookupsUnambiguous' /\ ListedNamed'
  <2>1. \A f, g \in Listed' : file_pool'[f].name = file_pool'[g].name => f = g
    BY <1>1, <1>7, <1>10 DEF IInv, LookupsUnambiguous
  <2>2. \A f \in Listed : \A q \in Acl(f) :
            q \in Perms \ {new} /\ perm_pool'[q] = perm_pool[q] /\ perm_pool[q].file = f
    BY <1>1, <1>3, <1>8 DEF IInv, LookupsUnambiguous
  <2>3. \A f \in Listed' : \A q \in ToSet(file_pool'[f].acl) : perm_pool'[q].file = f
    BY ONLY <1>8, <1>10, <1>11, <2>2
  <2>4. \A q \in Acl(file) : perm_pool[q].sm_id # id
    <3>1. NULL \notin Acl(file)
      BY <1>1
    <3> QED BY <3>1, LookupPerm DEF IInv
  <2>5. \A f \in Listed : \A q, t \in Acl(f) : perm_pool[q].sm_id = perm_pool[t].sm_id => q = t
    BY DEF IInv, LookupsUnambiguous
  <2>6. \A f \in Listed' : \A q, t \in ToSet(file_pool'[f].acl) :
            perm_pool'[q].sm_id = perm_pool'[t].sm_id => q = t
    BY ONLY <1>8, <1>10, <1>11, <2>2, <2>4, <2>5
  <2>7. \A f \in Listed' : file_pool'[f].name \in Names
    BY <1>1, <1>7, <1>10 DEF IInv, ListedNamed
  <2> QED BY <2>1, <2>3, <2>6, <2>7 DEF LookupsUnambiguous, ListedNamed, Acl
<1>17. \A fd \in FDs : fd_cache[fd] # NULL => perm_pool'[fd_cache[fd]] = perm_pool[fd_cache[fd]]
  BY ONLY <1>4, <1>8
<1>18. NoStaleFd'
  <2>1. \A fd \in FDs : fd_cache[fd] # NULL => \E f \in Listed : fd_cache[fd] \in Acl(f)
    BY DEF IInv, NoStaleFd
  <2>2. \A fd \in FDs : fd_cache'[fd] # NULL => \E f \in Listed' : fd_cache'[fd] \in ToSet(file_pool'[f].acl)
    BY ONLY <1>10, <1>11, <2>1
  <2> QED BY <2>2 DEF NoStaleFd, Acl
<1>19. BackendInSync'
  <2> SUFFICES ASSUME NEW fd \in FDs
               PROVE  cfs_fd[fd] = IF fd_cache[fd] = NULL THEN NULL
                                   ELSE file_pool'[perm_pool'[fd_cache[fd]].file].name
    BY <1>10 DEF BackendInSync
  <2>1. CASE fd_cache[fd] = NULL
    BY <2>1 DEF IInv, BackendInSync
  <2>2. CASE fd_cache[fd] # NULL
    BY <1>7, <1>17, <2>2, ConnectedFd
  <2> QED BY <2>1, <2>2
<1>20. OpenCountExact'
  <2>1. \A f \in Listed : file_pool[f].open_count = Cardinality(ConnsIn(fd_cache, perm_pool, f))
    BY OpenCountForm DEF IInv
  <2>2. \A f \in Listed' : ConnsIn(fd_cache', perm_pool', f) = ConnsIn(fd_cache, perm_pool, f)
    BY ONLY <1>10, <1>17 DEF ConnsIn
  <2>3. \A f \in Listed' : file_pool'[f].open_count = Cardinality(ConnsIn(fd_cache', perm_pool', f))
    BY ONLY <1>1, <1>7, <1>10, <2>1, <2>2
  <2> QED BY <2>3, OpenCountForm
<1> QED BY <1>12, <1>13, <1>14, <1>15, <1>16, <1>18, <1>19, <1>20 DEF IInv

\* An entry that is not a creator's leaves its ACL and is freed; the descriptors
\* that were opened with it are closed.
LEMMA RevokeStep ==
    ASSUME IInv, INIT_DONE, NEW file \in Listed, NEW cur \in Acl(file), ~IsCreator(cur),
           NEW fds, fds = {fd \in FDs : fd_cache[fd] = cur}, CLOSE_FD(fds),
           file_pool' = [file_pool EXCEPT ![file].open_count = @ - Cardinality(fds),
                                          ![file].acl = UnlinkPerm(file_pool[file].acl, cur)],
           free_perm_list' = FREE_PERM(<<cur>>),
           perm_pool' = [perm_pool EXCEPT ![cur] = NoPerm],
           reply' \in Reply,
           UNCHANGED <<INIT_DONE, open_file_list, free_file_list, cfs_dir>>
    PROVE  IInv'
<1> DEFINE acl == file_pool[file].acl
           acl2 == UnlinkPerm(acl, cur)
           count2 == file_pool[file].open_count - Cardinality(fds)
<1>1. /\ file_pool \in [Files -> [name : Names \union {NULL}, open_count : Int, acl : Seq(Perms)]]
      /\ perm_pool \in [Perms -> [sm_id : SMs \union {NULL}, flags : Flags,
                                 file : Files \union {NULL}]]
      /\ fd_cache \in [FDs -> Perms \union {NULL}] /\ cfs_fd \in [FDs -> Names \union {NULL}]
      /\ FreePerms \in Seq(Perms)
      /\ Listed \subseteq Files /\ \A f \in Files : Acl(f) \subseteq Perms
      /\ file \in Files /\ acl \in Seq(Perms) /\ cur \in Perms /\ cur # NULL
  BY FreeFacts, ListedFacts DEF IInv, TypeOK
\* The head of the ACL is the creator's, so cur has a predecessor.
<1>2. acl # <<>> /\ Head(acl) # cur /\ IsInjective(acl) /\ cur \in ToSet(acl)
  BY DEF IInv, HeadIsCreator, SlotsConserved, Acl
<1>3. /\ acl2 \in Seq(Perms) /\ acl2 # <<>> /\ Head(acl2) = Head(acl)
      /\ ToSet(acl2) = Acl(file) \ {cur} /\ IsInjective(acl2)
  <2>1. acl2 = Unlink(acl, cur)
    BY <1>2 DEF UnlinkPerm
  <2>2. ToSet(acl) = Acl(file)
    BY DEF Acl
  <2> HIDE DEF acl, acl2
  <2>3. acl \in Seq(Perms)
    BY <1>1
  <2> QED BY ONLY <1>2, <2>1, <2>2, <2>3, UnlinkFacts
<1>4. fds \subseteq FDs /\ IsFiniteSet(fds) /\ Cardinality(fds) \in Nat
  <2>1. 0 \in Int /\ MAX_NB_OPEN_FILES - 1 \in Int
    BY DEF SizeAssumption
  <2> QED BY <2>1, FS_Interval, FS_Subset, FS_CardinalityType DEF FDs
<1>5. count2 \in Int
  <2>1. file_pool[file].open_count \in Int
    BY <1>1
  <2> QED BY <1>4, <2>1
<1>6. file_pool' = [file_pool EXCEPT ![file].open_count = count2, ![file].acl = acl2]
  OBVIOUS
<1> HIDE DEF acl2, count2
<1>7. /\ \A f \in Files \ {file} : file_pool'[f] = file_pool[f]
      /\ \A f \in Files : file_pool'[f].name = file_pool[f].name
      /\ file_pool'[file].acl = acl2 /\ file_pool'[file].open_count = count2
  BY ONLY <1>1, <1>6
<1>8. \A q \in Perms \ {cur} : perm_pool'[q] = perm_pool[q]
  BY ONLY <1>1, perm_pool' = [perm_pool EXCEPT ![cur] = NoPerm]
<1>9. /\ FreePerms' = free_perm_list' /\ FreeFiles' = FreeFiles
      /\ FreePerms' \in Seq(Perms) /\ IsInjective(FreePerms')
      /\ ToSet(FreePerms') = {cur} \union ToSet(FreePerms)
  <2>1. /\ FreePerms' = free_perm_list' /\ FreeFiles' = FreeFiles
        /\ free_perm_list' = Reverse(<<cur>>) \o FreePerms
    BY DEF FreePerms, FreeFiles, FREE_PERM
  <2>2. <<cur>> \in Seq(Perms) /\ ToSet(<<cur>>) = {cur} /\ IsInjective(<<cur>>)
    BY <1>1, ListSingle
  <2>3. FreePerms \in Seq(Perms) /\ IsInjective(FreePerms) /\ {cur} \cap ToSet(FreePerms) = {}
    BY <1>1 DEF IInv, SlotsConserved
  <2>4. /\ Reverse(<<cur>>) \o FreePerms \in Seq(Perms)
        /\ ToSet(Reverse(<<cur>>) \o FreePerms) = {cur} \union ToSet(FreePerms)
        /\ IsInjective(Reverse(<<cur>>) \o FreePerms)
    <3> DEFINE one == <<cur>>
    <3>1. one \in Seq(Perms) /\ ToSet(one) = {cur} /\ IsInjective(one)
      BY <2>2
    <3> HIDE DEF one
    <3>2. /\ Reverse(one) \o FreePerms \in Seq(Perms)
          /\ ToSet(Reverse(one) \o FreePerms) = {cur} \union ToSet(FreePerms)
          /\ IsInjective(Reverse(one) \o FreePerms)
      BY ONLY <2>3, <3>1, ListReverse
    <3> QED BY ONLY <3>2 DEF one
  <2> QED BY ONLY <2>1, <2>4
<1>10. Listed' = Listed /\ open_file_list' = open_file_list
  BY DEF Listed
<1>11. /\ ToSet(file_pool'[file].acl) = Acl(file) \ {cur}
       /\ \A f \in Listed \ {file} : ToSet(file_pool'[f].acl) = Acl(f)
  <2>1. \A f \in Listed \ {file} : file_pool'[f].acl = file_pool[f].acl
    BY <1>1, <1>7
  <2> QED BY <1>3, <1>7, <2>1 DEF Acl
<1>12. \A f \in Listed \ {file} : cur \notin Acl(f)
  BY DEF IInv, SlotsConserved
<1>13. \A fd \in FDs : /\ fd_cache'[fd] = IF fd_cache[fd] = cur THEN NULL ELSE fd_cache[fd]
                       /\ cfs_fd'[fd] = IF fd_cache[fd] = cur THEN NULL ELSE cfs_fd[fd]
  <2>1. \A fd \in FDs : fd_cache'[fd] = IF fd \in fds THEN NULL ELSE fd_cache[fd]
    BY DEF CLOSE_FD
  <2>2. \A fd \in FDs : cfs_fd'[fd] = IF fd \in fds THEN NULL ELSE cfs_fd[fd]
    BY DEF CLOSE_FD
  <2> QED BY <2>1, <2>2
<1>14. \A fd \in FDs : fd_cache'[fd] # NULL =>
          /\ fd_cache[fd] # NULL /\ fd_cache[fd] # cur /\ fd_cache'[fd] = fd_cache[fd]
          /\ perm_pool'[fd_cache[fd]] = perm_pool[fd_cache[fd]]
  BY <1>1, <1>8, <1>13
<1>15. TypeOK'
  <2>1. file_pool' \in [Files -> [name : Names \union {NULL}, open_count : Int, acl : Seq(Perms)]]
    <3> DEFINE g == [file_pool EXCEPT ![file].open_count = count2]
    <3>1. g \in [Files -> [name : Names \union {NULL}, open_count : Int, acl : Seq(Perms)]]
      BY ONLY <1>1, <1>5
    <3>2. file_pool' = [g EXCEPT ![file].acl = acl2]
      BY ONLY <1>1, <1>6
    <3> HIDE DEF g
    <3> QED BY ONLY <1>1, <1>3, <3>1, <3>2
  <2>2. perm_pool' \in [Perms -> [sm_id : SMs \union {NULL}, flags : Flags,
                                 file : Files \union {NULL}]]
    <3>1. NoPerm \in [sm_id : SMs \union {NULL}, flags : Flags, file : Files \union {NULL}]
      BY DEF NoPerm, Flags, SFS_NIL
    <3> QED BY ONLY <1>1, <3>1, perm_pool' = [perm_pool EXCEPT ![cur] = NoPerm]
  <2>3. fd_cache' \in [FDs -> Perms \union {NULL}] /\ cfs_fd' \in [FDs -> Names \union {NULL}]
    BY <1>1 DEF CLOSE_FD
  <2> QED BY <1>9, <2>1, <2>2, <2>3 DEF IInv, TypeOK
<1>16. ZeroBeforeInit'
  BY DEF ZeroBeforeInit
<1>17. HeadIsCreator'
  <2>1. \A f \in Listed : file_pool[f].acl # <<>> /\ Head(file_pool[f].acl) \in Acl(f)
    BY <1>1, ListedFacts, ListHead DEF IInv, HeadIsCreator, Acl
  <2>2. \A f \in Listed : file_pool'[f].acl # <<>> /\ Head(file_pool'[f].acl) = Head(file_pool[f].acl)
    BY <1>1, <1>3, <1>7, <2>1
  <2>3. \A f \in Listed : Head(file_pool[f].acl) # cur
    BY <1>2, <1>12, <2>1
  <2>4. \A f \in Listed : perm_pool'[Head(file_pool[f].acl)] = perm_pool[Head(file_pool[f].acl)]
    BY ONLY <1>1, <1>8, <2>1, <2>3
  <2> QED BY <1>10, <2>2, <2>4 DEF IInv, HeadIsCreator, IsCreator
<1>18. SlotsConserved'
  <2>1. \A f \in Listed' : IsInjective(file_pool'[f].acl)
    BY <1>1, <1>3, <1>7, <1>10 DEF IInv, SlotsConserved
  <2>2. \A f, g \in Listed : f # g => Acl(f) \cap Acl(g) = {}
    BY DEF IInv, SlotsConserved
  <2>3. \A f \in Listed : Acl(f) \cap ToSet(FreePerms) = {}
    BY DEF IInv, SlotsConserved
  <2>4. \A f \in Listed' : ToSet(file_pool'[f].acl) \cap ToSet(FreePerms') = {}
    BY ONLY <1>9, <1>10, <1>11, <1>12, <2>3
  <2>5. \A f, g \in Listed' : f # g => ToSet(file_pool'[f].acl) \cap ToSet(file_pool'[g].acl) = {}
    BY ONLY <1>10, <1>11, <2>2
  <2>6. Perms = ToSet(FreePerms') \union UNION {ToSet(file_pool'[f].acl) : f \in Listed'}
    <3>1. Perms = ToSet(FreePerms) \union UNION {Acl(f) : f \in Listed}
      BY DEF IInv, SlotsConserved
    <3>2. UNION {ToSet(file_pool'[f].acl) : f \in Listed'} = (UNION {Acl(f) : f \in Listed}) \ {cur}
      BY ONLY <1>10, <1>11, <1>12, file \in Listed
    <3>3. cur \in Perms
      BY <1>1
    <3> QED BY ONLY <1>9, <3>1, <3>2, <3>3
  <2>7. /\ IsInjective(FreePerms') /\ IsInjective(FreeFiles') /\ IsInjective(open_file_list')
        /\ Listed' \cap ToSet(FreeFiles') = {} /\ Files = Listed' \union ToSet(FreeFiles')
    BY <1>9, <1>10 DEF IInv, SlotsConserved
  <2> QED BY ONLY <2>1, <2>4, <2>5, <2>6, <2>7 DEF SlotsConserved, Acl
<1>19. LookupsUnambiguous' /\ ListedNamed'
  <2>1. \A f, g \in Listed' : file_pool'[f].name = file_pool'[g].name => f = g
    BY <1>1, <1>7, <1>10 DEF IInv, LookupsUnambiguous
  <2>2. \A f \in Listed : \A q \in ToSet(file_pool'[f].acl) : q \in Acl(f) /\ q # cur /\ q \in Perms
    BY ONLY <1>1, <1>11, <1>12
  <2>3. \A f \in Listed : \A q \in Acl(f) : perm_pool[q].file = f
    BY DEF IInv, LookupsUnambiguous
  <2>4. \A f \in Listed' : \A q \in ToSet(file_pool'[f].acl) : perm_pool'[q].file = f
    BY ONLY <1>8, <1>10, <2>2, <2>3
  <2>5. \A f \in Listed : \A q, t \in Acl(f) : perm_pool[q].sm_id = perm_pool[t].sm_id => q = t
    BY DEF IInv, LookupsUnambiguous
  <2>6. \A f \in Listed' : \A q, t \in ToSet(file_pool'[f].acl) :
            perm_pool'[q].sm_id = perm_pool'[t].sm_id => q = t
    BY ONLY <1>8, <1>10, <2>2, <2>5
  <2>7. \A f \in Listed' : file_pool'[f].name \in Names
    BY <1>1, <1>7, <1>10 DEF IInv, ListedNamed
  <2> QED BY <2>1, <2>4, <2>6, <2>7 DEF LookupsUnambiguous, ListedNamed, Acl
<1>20. NoStaleFd'
  <2>1. \A fd \in FDs : fd_cache[fd] # NULL => \E f \in Listed : fd_cache[fd] \in Acl(f)
    BY DEF IInv, NoStaleFd
  <2>2. \A fd \in FDs : fd_cache'[fd] # NULL => \E f \in Listed' : fd_cache'[fd] \in ToSet(file_pool'[f].acl)
    BY ONLY <1>10, <1>11, <1>14, <2>1
  <2> QED BY <2>2 DEF NoStaleFd, Acl
<1>21. BackendInSync'
  <2> SUFFICES ASSUME NEW fd \in FDs
               PROVE  cfs_fd'[fd] = IF fd_cache'[fd] = NULL THEN NULL
                                    ELSE file_pool'[perm_pool'[fd_cache'[fd]].file].name
    BY DEF BackendInSync
  <2>1. CASE fd_cache'[fd] = NULL
    <3>1. CASE fd_cache[fd] = cur
      BY <1>13, <2>1, <3>1
    <3>2. CASE fd_cache[fd] # cur
      BY <1>13, <2>1, <3>2 DEF IInv, BackendInSync
    <3> QED BY <3>1, <3>2
  <2>2. CASE fd_cache'[fd] # NULL
    <3>1. cfs_fd'[fd] = cfs_fd[fd]
      BY <1>13, <1>14, <2>2
    <3>2. cfs_fd[fd] = file_pool[perm_pool[fd_cache[fd]].file].name /\ perm_pool[fd_cache[fd]].file \in Files
      BY <1>14, <2>2, ConnectedFd
    <3>3. perm_pool'[fd_cache'[fd]] = perm_pool[fd_cache[fd]]
      BY <1>14, <2>2
    <3> QED BY ONLY <1>7, <2>2, <3>1, <3>2, <3>3
  <2> QED BY <2>1, <2>2
<1>22. OpenCountExact'
  <2> DEFINE conns == ConnsIn(fd_cache, perm_pool, file)
             conns2 == ConnsIn(fd_cache', perm_pool', file)
  <2>1. \A f \in Listed : file_pool[f].open_count = Cardinality(ConnsIn(fd_cache, perm_pool, f))
    BY OpenCountForm DEF IInv
  <2>2. perm_pool[cur].file = file
    BY DEF IInv, LookupsUnambiguous
  <2>3. \A f \in Listed \ {file} : ConnsIn(fd_cache', perm_pool', f) = ConnsIn(fd_cache, perm_pool, f)
    BY ONLY <1>1, <1>13, <1>14, <2>2 DEF ConnsIn
  <2>4. conns2 \union fds = conns /\ conns2 \cap fds = {}
    BY ONLY <1>1, <1>13, <1>14, <2>2, fds = {fd \in FDs : fd_cache[fd] = cur} DEF ConnsIn
  <2>5. IsFiniteSet(conns2) /\ Cardinality(conns2) \in Nat
    BY ConnsFinite, FS_CardinalityType
  <2>6. Cardinality(conns) = Cardinality(conns2) + Cardinality(fds)
    <3> HIDE DEF conns, conns2
    <3>1. Cardinality(conns) = Cardinality(conns2) + Cardinality(fds) - Cardinality({})
      BY ONLY <1>4, <2>4, <2>5, FS_Union
    <3> QED BY ONLY <1>4, <2>5, <3>1, FS_EmptySet
  <2>7. file_pool'[file].open_count = Cardinality(conns2)
    <3> HIDE DEF conns2
    <3>1. count2 = Cardinality(conns) - Cardinality(fds)
      BY <2>1 DEF count2
    <3> QED BY ONLY <1>4, <1>7, <2>5, <2>6, <3>1
  <2> HIDE DEF conns, conns2
  <2>8. \A f \in Listed' : file_pool'[f].open_count = Cardinality(ConnsIn(fd_cache', perm_pool', f))
    BY ONLY <1>1, <1>7, <1>10, <2>1, <2>3, <2>7 DEF conns2
  <2> QED BY <2>8, OpenCountForm
<1> QED BY <1>15, <1>16, <1>17, <1>18, <1>19, <1>20, <1>21, <1>22 DEF IInv

-----------------------------------------------------------------------------
(* The entry points *)

\* A reply built from a well-typed call is well typed.
LEMMA ReplyFacts ==
    ASSUME NEW call \in Reply
    PROVE  /\ \A ok \in BOOLEAN : [call EXCEPT !.ok = ok] \in Reply
           /\ \A ok \in BOOLEAN, b \in Names \union {NULL} :
                 [call EXCEPT !.ok = ok, !.back = b] \in Reply
           /\ \A fd \in FDs, b \in Names \union {NULL} :
                 [call EXCEPT !.fd = fd, !.back = b] \in Reply
<1>1. ASSUME NEW ok \in BOOLEAN PROVE [call EXCEPT !.ok = ok] \in Reply
  BY DEF Reply
<1>2. ASSUME NEW ok \in BOOLEAN, NEW b \in Names \union {NULL}
      PROVE  [call EXCEPT !.ok = ok, !.back = b] \in Reply
  BY DEF Reply
<1>3. ASSUME NEW fd \in FDs, NEW b \in Names \union {NULL}
      PROVE  [call EXCEPT !.fd = fd, !.back = b] \in Reply
  BY DEF Reply
<1> QED BY <1>1, <1>2, <1>3

LEMMA RefuseStep ==
    ASSUME IInv, NEW call \in Reply, Refuse(call)
    PROVE  IInv'
<1>1. [call EXCEPT !.ok = FALSE] \in Reply
  BY ReplyFacts
<1> QED BY <1>1, UnalteredStep DEF Refuse

LEMMA sfs_initStep ==
    ASSUME IInv, NEW sm \in SMs, sfs_init(sm)
    PROVE  IInv'
<1>1. [NoReply EXCEPT !.op = "init", !.sm = sm] \in Reply
  BY FlagAssumption DEF NoReply, Reply, Flags, SFS_NIL, FAILURE
<1> QED BY <1>1, UnalteredStep DEF sfs_init

LEMMA sfs_openStep ==
    ASSUME IInv, NEW sm \in SMs, NEW name \in Names, NEW flags \in Wanted,
           NEW create \in BOOLEAN, sfs_open(sm, name, flags, create)
    PROVE  IInv'
<1> DEFINE call == [NoReply EXCEPT !.op = "open", !.sm = sm, !.name = name,
                                   !.flags = flags, !.create = create]
           file == LOOKUP_FILE(name)
           p    == two_phase_lookup(name, flags, sm)
<1>1. call \in Reply /\ call.name = name /\ call.sm = sm
  BY FlagAssumption DEF NoReply, Reply, Flags, SFS_NIL, FAILURE
<1>2. \/ Refuse(call)
      \/ file = NULL /\ FreePerms # <<>> /\ FreeFiles # <<>> /\ sfs_open_new(call)
      \/ p # NULL /\ sfs_open_existing(call, p)
  BY DEF sfs_open
<1> HIDE DEF call, file, p
<1>3. CASE Refuse(call)
  BY <1>1, <1>3, RefuseStep
<1>4. ASSUME NEW r, NEW q, open_back_end_file(call, r, q)
      PROVE  reply' \in Reply
  <2>1. CASE r.fd \in FDs /\ reply' = [call EXCEPT !.fd = r.fd, !.back = call.name]
    BY <1>1, <2>1, ReplyFacts
  <2>2. CASE reply' = [call EXCEPT !.ok = FALSE]
    BY <1>1, <2>2, ReplyFacts
  <2> QED BY <1>4, <2>1, <2>2 DEF open_back_end_file
<1>5. CASE file = NULL /\ FreePerms # <<>> /\ FreeFiles # <<>> /\ sfs_open_new(call)
  <2>1. reply' \in Reply
    BY <1>4, <1>5 DEF sfs_open_new
  <2>2. LOOKUP_FILE(call.name) = NULL /\ call.name \in Names /\ call.sm \in SMs
    BY <1>1, <1>5 DEF file
  <2> QED BY <1>5, <2>1, <2>2, OpenNewStep
<1>6. CASE p # NULL /\ sfs_open_existing(call, p)
  <2>1. reply' \in Reply
    BY <1>4, <1>6 DEF sfs_open_existing
  <2>2. p = two_phase_lookup(call.name, flags, sm) /\ call.name \in Names
    BY <1>1 DEF p
  <2> QED BY <1>6, <2>1, <2>2, OpenExistingStep
<1> QED BY <1>2, <1>3, <1>5, <1>6

LEMMA sfs_closeStep ==
    ASSUME IInv, NEW sm \in SMs, NEW fd \in ClientFDs, sfs_close(sm, fd)
    PROVE  IInv'
<1> DEFINE call == [NoReply EXCEPT !.op = "close", !.sm = sm, !.fd = fd]
<1>1. call \in Reply
  BY FlagAssumption DEF NoReply, Reply, Flags, SFS_NIL, FAILURE, ClientFDs
<1>2. CASE Refuse(call)
  BY <1>1, <1>2, RefuseStep
<1>3. CASE /\ CHK_FD(fd, sm)
           /\ file_pool' = [file_pool EXCEPT
                  ![perm_pool[fd_cache[fd]].file].open_count = @ - 1]
           /\ CLOSE_FD({fd})
           /\ reply' = call
           /\ UNCHANGED <<INIT_DONE, perm_pool, open_file_list, freeVars, cfs_dir>>
  <2> HIDE DEF call
  <2>1. reply' \in Reply
    BY <1>1, <1>3, ReplyFacts
  <2> QED BY <1>3, <2>1, CloseStep
<1> QED BY <1>2, <1>3 DEF sfs_close

LEMMA RemoveFacts ==
    ASSUME NEW name, NEW r \in cfs_remove(name)
    PROVE  r.ok \in BOOLEAN /\ r.dir \subseteq Dir
<1>1. r = [ok |-> TRUE, dir |-> Dir \ {name}] \/ r = [ok |-> FALSE, dir |-> Dir]
  BY DEF cfs_remove
<1>2. CASE r = [ok |-> TRUE, dir |-> Dir \ {name}]
  BY <1>2
<1>3. CASE r = [ok |-> FALSE, dir |-> Dir]
  BY <1>3
<1> QED BY <1>1, <1>2, <1>3

LEMMA sfs_removeStep ==
    ASSUME IInv, NEW sm \in SMs, NEW name \in Names, sfs_remove(sm, name)
    PROVE  IInv'
<1> DEFINE call == [NoReply EXCEPT !.op = "remove", !.sm = sm, !.name = name]
           p    == two_phase_lookup(name, SFS_ROOT, sm)
           cur  == perm_pool[p].file
<1>1. call \in Reply
  BY FlagAssumption DEF NoReply, Reply, Flags, SFS_NIL, FAILURE
<1>2. \/ Refuse(call)
      \/ /\ p # NULL /\ file_pool[cur].open_count = 0
         /\ open_file_list' = Unlink(open_file_list, cur)
         /\ free_perm_list' = FREE_PERM(file_pool[cur].acl)
         /\ perm_pool' = [q \in Perms |-> IF q \in Acl(cur) THEN NoPerm ELSE perm_pool[q]]
         /\ free_file_list' = <<cur>> \o FreeFiles
         /\ file_pool' = [file_pool EXCEPT ![cur] = NoFile]
         /\ \E r \in cfs_remove(name) : cfs_dir' = r.dir /\ reply' = [call EXCEPT !.ok = r.ok]
         /\ UNCHANGED <<INIT_DONE, connVars>>
  BY DEF sfs_remove, Acl
<1> HIDE DEF call, cur, p
<1>3. CASE Refuse(call)
  BY <1>1, <1>3, RefuseStep
<1>4. CASE ~Refuse(call)
  <2>1. PICK r \in cfs_remove(name) : cfs_dir' = r.dir /\ reply' = [call EXCEPT !.ok = r.ok]
    BY <1>2, <1>4
  <2>2. r.ok \in BOOLEAN /\ r.dir \subseteq Dir
    BY RemoveFacts
  <2>3. reply' \in Reply /\ cfs_dir' \in SUBSET Dir
    BY <1>1, <2>1, <2>2, ReplyFacts
  <2>4. p = two_phase_lookup(name, SFS_ROOT, sm) /\ cur = perm_pool[p].file
    BY DEF p, cur
  <2> QED BY <1>2, <1>4, <2>3, <2>4, RemoveStep
<1> QED BY <1>3, <1>4

LEMMA AccessStep ==
    ASSUME IInv, NEW call \in Reply, NEW need, Access(call, need)
    PROVE  IInv'
<1>1. CASE Refuse(call)
  BY <1>1, RefuseStep
<1>2. CASE /\ CHK_FD(call.fd, call.sm) /\ Unaltered
           /\ \E ok \in BOOLEAN : reply' = [call EXCEPT !.ok = ok, !.back = cfs_fd[call.fd]]
  <2>1. cfs_fd[call.fd] \in Names \union {NULL}
    BY <1>2 DEF CHK_FD, IInv, TypeOK
  <2>2. PICK ok \in BOOLEAN : reply' = [call EXCEPT !.ok = ok, !.back = cfs_fd[call.fd]]
    BY <1>2
  <2>3. reply' \in Reply
    <3> DEFINE b == cfs_fd[call.fd]
    <3> HIDE DEF b
    <3>1. [call EXCEPT !.ok = ok, !.back = b] \in Reply
      BY <2>1, ReplyFacts DEF b
    <3> QED BY <2>2, <3>1 DEF b
  <2> QED BY <1>2, <2>3, UnalteredStep
<1> QED BY <1>1, <1>2 DEF Access

LEMMA AccessSteps ==
    ASSUME IInv, NEW sm \in SMs, NEW fd \in ClientFDs,
           sfs_getc(sm, fd) \/ sfs_putc(sm, fd) \/ sfs_seek(sm, fd)
    PROVE  IInv'
<1>1. \A op \in {"getc", "putc", "seek"} :
          [NoReply EXCEPT !.op = op, !.sm = sm, !.fd = fd] \in Reply
  BY FlagAssumption DEF NoReply, Reply, Flags, SFS_NIL, FAILURE, ClientFDs
<1>2. CASE sfs_getc(sm, fd)
  BY <1>1, <1>2, AccessStep DEF sfs_getc
<1>3. CASE sfs_putc(sm, fd)
  BY <1>1, <1>3, AccessStep DEF sfs_putc
<1>4. CASE sfs_seek(sm, fd)
  BY <1>1, <1>4, AccessStep DEF sfs_seek
<1> QED BY <1>2, <1>3, <1>4

LEMMA sfs_chmodStep ==
    ASSUME IInv, NEW sm \in SMs, NEW name \in Names, NEW id \in SMs,
           NEW perm_flags \in Granted, sfs_chmod(sm, name, id, perm_flags)
    PROVE  IInv'
<1> DEFINE call == [NoReply EXCEPT !.op = "chmod", !.sm = sm, !.name = name,
                                   !.id = id, !.flags = perm_flags]
           p_caller == two_phase_lookup(name, SFS_ROOT, sm)
           file == perm_pool[p_caller].file
<1>1. call \in Reply /\ call.id = id /\ call.flags = perm_flags /\ perm_flags \in Flags
  BY FlagAssumption DEF NoReply, Reply, Flags, SFS_NIL, FAILURE
<1>2. \/ Refuse(call)
      \/ p_caller # NULL /\ (revoke_acl(call, file) \/ add_acl(call, file))
  BY DEF sfs_chmod
<1>3. p_caller # NULL => INIT_DONE /\ file \in Files /\ file \in Listed
  BY TwoPhase
<1> HIDE DEF call, p_caller, file
<1>4. CASE Refuse(call)
  BY <1>1, <1>4, RefuseStep
<1>5. CASE p_caller # NULL /\ revoke_acl(call, file)
  <2> DEFINE cur == LOOKUP_PERM(file, id)
             fds == {fd \in FDs : fd_cache[fd] = cur}
  <2>1. cur = NULL \/ cur \in Acl(file)
    BY <1>3, <1>5, LookupPerm DEF IInv
  <2>2. \/ Refuse(call)
        \/ Unaltered /\ reply' = call
        \/ /\ cur # NULL /\ ~IsCreator(cur)
           /\ CLOSE_FD(fds)
           /\ file_pool' = [file_pool EXCEPT ![file].open_count = @ - Cardinality(fds),
                                             ![file].acl = UnlinkPerm(file_pool[file].acl, cur)]
           /\ free_perm_list' = FREE_PERM(<<cur>>)
           /\ perm_pool' = [perm_pool EXCEPT ![cur] = NoPerm]
           /\ reply' = call
           /\ UNCHANGED <<INIT_DONE, open_file_list, free_file_list, cfs_dir>>
    BY <1>1, <1>5 DEF revoke_acl
  <2> HIDE DEF cur
  <2>3. CASE Refuse(call) \/ (Unaltered /\ reply' = call)
    BY <1>1, <2>3, RefuseStep, UnalteredStep
  <2>4. CASE cur # NULL /\ ~(Refuse(call) \/ (Unaltered /\ reply' = call))
    BY <1>1, <1>3, <1>5, <2>1, <2>2, <2>4, RevokeStep
  <2> QED BY <2>2, <2>3, <2>4
<1>6. CASE p_caller # NULL /\ add_acl(call, file)
  <2> DEFINE p == LOOKUP_PERM(file, id)
             new == Head(FreePerms)
  <2>1. (p = NULL \/ p \in Acl(file)) /\ Acl(file) \subseteq Perms
    BY <1>3, <1>6, LookupPerm, ListedFacts DEF IInv
  <2>2. \/ Refuse(call)
        \/ /\ p # NULL /\ ~IsCreator(p)
           /\ perm_pool' = [perm_pool EXCEPT ![p].flags = perm_flags]
           /\ reply' = call
           /\ UNCHANGED <<INIT_DONE, file_pool, open_file_list, freeVars, connVars, cfs_dir>>
        \/ /\ p = NULL /\ FreePerms # <<>>
           /\ free_perm_list' = Tail(FreePerms)
           /\ perm_pool' = [perm_pool EXCEPT ![new] =
                  [sm_id |-> id, flags |-> perm_flags, file |-> file]]
           /\ file_pool' = [file_pool EXCEPT ![file].acl = Append(file_pool[file].acl, new)]
           /\ reply' = call
           /\ UNCHANGED <<INIT_DONE, open_file_list, free_file_list, connVars, cfs_dir>>
    BY <1>1, <1>6 DEF add_acl
  <2> HIDE DEF p
  <2>3. CASE Refuse(call)
    BY <1>1, <2>3, RefuseStep
  <2>4. CASE p # NULL /\ ~Refuse(call)
    BY <1>1, <2>1, <2>2, <2>4, OverrideStep
  <2>5. CASE p = NULL /\ ~Refuse(call)
    <3>1. /\ FreePerms # <<>> /\ new = Head(FreePerms)
          /\ free_perm_list' = Tail(FreePerms)
          /\ perm_pool' = [perm_pool EXCEPT ![new] =
                 [sm_id |-> id, flags |-> perm_flags, file |-> file]]
          /\ file_pool' = [file_pool EXCEPT ![file].acl = Append(file_pool[file].acl, new)]
          /\ reply' = call
          /\ UNCHANGED <<INIT_DONE, open_file_list, free_file_list, connVars, cfs_dir>>
      BY <2>2, <2>5
    <3>2. LOOKUP_PERM(file, id) = NULL
      BY <2>5 DEF p
    <3> HIDE DEF new
    <3>3. file \in Listed /\ INIT_DONE /\ id \in SMs /\ perm_flags \in Flags /\ reply' \in Reply
      BY <1>1, <1>3, <1>6, <3>1
    <3> QED BY <3>1, <3>2, <3>3, AppendStep
  <2> QED BY <2>3, <2>4, <2>5
<1> QED BY <1>2, <1>4, <1>5, <1>6

LEMMA sfs_attestStep ==
    ASSUME IInv, NEW sm \in SMs, NEW name \in Names, NEW owner \in SMs,
           sfs_attest(sm, name, owner)
    PROVE  IInv'
<1>1. reply' \in Reply
  <2>1. \A ok \in BOOLEAN : [NoReply EXCEPT !.op = "attest", !.sm = sm, !.name = name,
                                            !.id = owner, !.ok = ok] \in Reply
    BY FlagAssumption DEF NoReply, Reply, Flags, SFS_NIL, FAILURE
  <2> QED BY <2>1 DEF sfs_attest
<1>2. FreePerms' = FreePerms /\ FreeFiles' = FreeFiles
  BY DEF sfs_attest, FreePerms, FreeFiles, freeVars
<1> QED BY <1>1, <1>2, FrameStep DEF sfs_attest, IInv, TypeOK, freeVars

LEMMA NextPreserves ==
    ASSUME IInv, [Next]_vars
    PROVE  IInv'
<1>1. CASE UNCHANGED vars
  <2>1. FreePerms' = FreePerms /\ FreeFiles' = FreeFiles
    BY <1>1 DEF FreePerms, FreeFiles, vars, freeVars
  <2> QED BY <1>1, <2>1, FrameStep DEF IInv, TypeOK, vars, freeVars
<1>2. CASE Next
  BY <1>2, sfs_initStep, sfs_openStep, sfs_closeStep, sfs_removeStep, AccessSteps,
     sfs_chmodStep, sfs_attestStep DEF Next
<1> QED BY <1>1, <1>2

\* IInv holds in every reachable state, whatever the sizes of the pools, the
\* names, the clients and the flags they pass.
THEOREM Invariance == Spec => []IInv
<1>1. Init => IInv
  BY InitEstablishes
<1>2. IInv /\ [Next]_vars => IInv'
  BY NextPreserves
<1> QED BY <1>1, <1>2, PTL DEF Spec

\* Every variable has its type in every reachable state.
THEOREM TypeCorrect == Spec => []TypeOK
BY Invariance, PTL DEF IInv

\* revoke_acl never has to unlink the head of an ACL: it is its creator's.
THEOREM HeadStaysCreator == Spec => []HeadIsCreator
BY Invariance, PTL DEF IInv

\* No FILE_PERM or OPEN_FILE struct is ever lost or in two lists.
THEOREM StructsConserved == Spec => []SlotsConserved
BY Invariance, PTL DEF IInv

\* The first match of every look-up is the only one.
THEOREM LookupsExact == Spec => []LookupsUnambiguous
BY Invariance, PTL DEF IInv

\* open_count is the number of descriptors connected to the file.
THEOREM OpenCountCorrect == Spec => []OpenCountExact
BY Invariance, PTL DEF IInv

\* fd_cache never holds an entry that is in no ACL.
THEOREM NoDanglingFd == Spec => []NoStaleFd
BY Invariance, PTL DEF IInv

\* Front-end and back-end agree on what every descriptor is connected to.
THEOREM BothEndsAgree == Spec => []BackendInSync
BY Invariance, PTL DEF IInv

-----------------------------------------------------------------------------
(* Rights *)

\* An entry in the ACL of a listed file gives its SM the rights in its flags.
LEMMA EntryGives ==
    ASSUME NEW f \in Listed, NEW p \in Acl(f)
    PROVE  perm_pool[p].flags \subseteq Rights(perm_pool[p].sm_id, file_pool[f].name)
<1> DEFINE sm == perm_pool[p].sm_id
           name == file_pool[f].name
<1>1. p \in Entries(sm, name)
  BY DEF Entries
<1> QED BY <1>1 DEF Rights

LEMMA RootLookup ==
    ASSUME IInv, NEW name, NEW sm, two_phase_lookup(name, SFS_ROOT, sm) # NULL
    PROVE  SFS_ROOT \subseteq Rights(sm, name)
<1> DEFINE p == two_phase_lookup(name, SFS_ROOT, sm)
           f == perm_pool[p].file
<1>1. /\ f \in Listed /\ p \in Acl(f) /\ file_pool[f].name = name
      /\ perm_pool[p].sm_id = sm /\ SFS_ROOT \subseteq perm_pool[p].flags
  BY TwoPhase
<1> HIDE DEF p, f
<1> QED BY <1>1, EntryGives

\* The rights on a file stay if its struct, its ACL and the entries do.
LEMMA SameRights ==
    ASSUME NEW n,
           {f \in Listed' : file_pool'[f].name = n} = {f \in Listed : file_pool[f].name = n},
           \A f \in Listed : file_pool[f].name = n =>
               /\ ToSet(file_pool'[f].acl) = Acl(f)
               /\ \A p \in Acl(f) : perm_pool'[p] = perm_pool[p]
    PROVE  \A sm : Rights(sm, n)' = Rights(sm, n)
<1> SUFFICES ASSUME NEW sm PROVE Rights(sm, n)' = Rights(sm, n)
  OBVIOUS
<1> DEFINE F1 == {f \in Listed : file_pool[f].name = n}
<1>1. \A f \in F1 : ToSet(file_pool'[f].acl) = Acl(f)
  OBVIOUS
<1>2. Entries(sm, n)' = {p \in UNION {ToSet(file_pool'[f].acl) : f \in F1} : perm_pool'[p].sm_id = sm}
  BY DEF Entries, Acl
<1>3. UNION {ToSet(file_pool'[f].acl) : f \in F1} = UNION {Acl(f) : f \in F1}
  BY <1>1
<1>4. \A p \in UNION {Acl(f) : f \in F1} : perm_pool'[p] = perm_pool[p]
  OBVIOUS
<1>5. Entries(sm, n) = {p \in UNION {Acl(f) : f \in F1} : perm_pool[p].sm_id = sm}
  BY DEF Entries
<1>6. Entries(sm, n)' = Entries(sm, n)
  <2> HIDE DEF F1
  <2> QED BY <1>2, <1>3, <1>4, <1>5
<1>7. \A p \in Entries(sm, n) : perm_pool'[p] = perm_pool[p]
  BY <1>4, <1>5
<1> QED BY <1>6, <1>7 DEF Rights

\* The steps that leave all rights alone.
Keeps ==
    /\ UNCHANGED <<perm_pool, open_file_list>>
    /\ \A f \in Files : /\ file_pool'[f].name = file_pool[f].name
                        /\ file_pool'[f].acl = file_pool[f].acl

LEMMA KeepsRights == ASSUME IInv, Keeps PROVE \A sm, n : Rights(sm, n)' = Rights(sm, n)
<1> SUFFICES ASSUME NEW n PROVE \A sm : Rights(sm, n)' = Rights(sm, n)
  OBVIOUS
<1>1. Listed' = Listed /\ Listed \subseteq Files
  BY ListedFacts DEF Keeps, Listed, IInv
<1>2. \A f \in Listed : file_pool'[f].name = file_pool[f].name /\ file_pool'[f].acl = file_pool[f].acl
  BY <1>1 DEF Keeps
<1>3. {f \in Listed' : file_pool'[f].name = n} = {f \in Listed : file_pool[f].name = n}
  BY <1>1, <1>2
<1>4. \A f \in Listed : ToSet(file_pool'[f].acl) = Acl(f)
  BY <1>2 DEF Acl
<1> QED BY <1>3, <1>4, SameRights DEF Keeps

\* What happens to the list, the struct and the entries of one file leaves the
\* rights on the others alone.
LEMMA OtherRights ==
    ASSUME IInv, NEW file \in Listed, Listed' \in {Listed, Listed \ {file}},
           \A g \in Listed \ {file} : file_pool'[g] = file_pool[g],
           file_pool'[file].name = file_pool[file].name \/ file \notin Listed',
           \A q \in Perms \ Acl(file) : perm_pool'[q] = perm_pool[q] \/ q \in ToSet(FreePerms),
           NEW n, n # file_pool[file].name
    PROVE  \A sm : Rights(sm, n)' = Rights(sm, n)
<1>1. \A f \in Listed : file_pool[f].name = n => f # file
  OBVIOUS
<1>2. {f \in Listed' : file_pool'[f].name = n} = {f \in Listed : file_pool[f].name = n}
  OBVIOUS
<1>3. ASSUME NEW f \in Listed, file_pool[f].name = n
      PROVE  ToSet(file_pool'[f].acl) = Acl(f) /\ \A p \in Acl(f) : perm_pool'[p] = perm_pool[p]
  <2>1. file_pool'[f] = file_pool[f] /\ f # file
    BY <1>1, <1>3
  <2>2. Acl(f) \subseteq Perms /\ Acl(f) \cap Acl(file) = {} /\ Acl(f) \cap ToSet(FreePerms) = {}
    BY <2>1, ListedFacts DEF IInv, SlotsConserved
  <2> QED BY <2>1, <2>2 DEF Acl
<1> QED BY <1>2, <1>3, SameRights

-----------------------------------------------------------------------------
(* What each call does to the rights *)

LEMMA RefuseKeeps == ASSUME NEW call, Refuse(call) PROVE Keeps
BY DEF Refuse, Unaltered, listVars, Keeps

LEMMA OpenRights ==
    ASSUME IInv, NEW sm \in SMs, NEW name \in Names, NEW flags \in Wanted, NEW create \in BOOLEAN,
           sfs_open(sm, name, flags, create)
    PROVE  /\ reply'.op = "open"
           /\ \A id, n : Rights(id, n)' # Rights(id, n) => \A k : Entries(k, n) = {}
<1> DEFINE call == [NoReply EXCEPT !.op = "open", !.sm = sm, !.name = name,
                                   !.flags = flags, !.create = create]
           p    == two_phase_lookup(name, flags, sm)
<1>1. \/ Refuse(call)
      \/ LOOKUP_FILE(name) = NULL /\ FreePerms # <<>> /\ FreeFiles # <<>> /\ sfs_open_new(call)
      \/ p # NULL /\ sfs_open_existing(call, p)
  BY DEF sfs_open
<1>2. /\ call.name = name
      /\ \A ok : [call EXCEPT !.ok = ok].op = "open"
      /\ \A fd, b : [call EXCEPT !.fd = fd, !.back = b].op = "open"
  BY DEF NoReply
<1> HIDE DEF call
<1>3. CASE Refuse(call)
  BY <1>2, <1>3, RefuseKeeps, KeepsRights DEF Refuse
<1>4. ASSUME NEW r, NEW q, open_back_end_file(call, r, q) PROVE reply'.op = "open"
  <2>1. CASE reply' = [call EXCEPT !.fd = r.fd, !.back = call.name]
    BY <1>2, <2>1
  <2>2. CASE reply' = [call EXCEPT !.ok = FALSE]
    BY <1>2, <2>2
  <2> QED BY <1>4, <2>1, <2>2 DEF open_back_end_file
<1>5. CASE p # NULL /\ sfs_open_existing(call, p)
  <2>1. perm_pool[p].file \in Files /\ file_pool \in [Files -> [name : Names \union {NULL},
                                                open_count : Int, acl : Seq(Perms)]]
    BY <1>5, TwoPhase DEF IInv, TypeOK
  <2> HIDE DEF p
  <2>2. Keeps
    BY <1>5, <2>1 DEF sfs_open_existing, Keeps
  <2> QED BY <1>4, <1>5, <2>2, KeepsRights DEF sfs_open_existing
<1>6. CASE LOOKUP_FILE(name) = NULL /\ FreePerms # <<>> /\ FreeFiles # <<>> /\ sfs_open_new(call)
  <2> DEFINE file == Head(FreeFiles)
             new  == Head(FreePerms)
  <2>1. PICK r : /\ open_file_list' = <<file>> \o open_file_list
                 /\ file_pool' = [file_pool EXCEPT ![file] =
                        [name |-> name, open_count |-> counted(0, r), acl |-> <<new>>]]
                 /\ perm_pool' = [perm_pool EXCEPT ![new] =
                        [sm_id |-> call.sm, flags |-> SFS_CREATOR, file |-> file]]
                 /\ open_back_end_file(call, r, new)
    BY <1>2, <1>6 DEF sfs_open_new
  <2>2. /\ file \in ToSet(FreeFiles) /\ new \in ToSet(FreePerms)
        /\ file \in Files /\ new \in Perms
    BY <1>6, FreeFacts, ListHead, ListTail DEF IInv
  <2>3. file \notin Listed /\ \A f \in Listed : new \notin Acl(f)
    BY <2>2 DEF IInv, SlotsConserved
  <2>4. /\ file_pool \in [Files -> [name : Names \union {NULL}, open_count : Int, acl : Seq(Perms)]]
        /\ perm_pool \in [Perms -> [sm_id : SMs \union {NULL}, flags : Flags, file : Files \union {NULL}]]
        /\ open_file_list \in Seq(Files)
    BY DEF IInv, TypeOK
  <2>5. Listed' = Listed \union {file}
    BY <2>1, <2>2, <2>4, ListCons DEF Listed
  <2>6. \A f \in Listed : file_pool[f].name # name
    <3>1. NULL \notin Listed
      BY ListedFacts, NullAssumption DEF IInv, NullAssumption
    <3> QED BY <1>6, <3>1, LookupFile DEF IInv
  <2> HIDE DEF file, new
  <2>7. \A k : Entries(k, name) = {}
    BY <2>6 DEF Entries
  <2>8. ASSUME NEW n, n # name PROVE \A id : Rights(id, n)' = Rights(id, n)
    <3>1. file_pool'[file].name = name /\ \A f \in Listed : file_pool'[f] = file_pool[f]
      BY <2>1, <2>2, <2>3, <2>4, ListedFacts DEF IInv
    <3>2. {f \in Listed' : file_pool'[f].name = n} = {f \in Listed : file_pool[f].name = n}
      BY <2>5, <2>8, <3>1
    <3>3. \A f \in Listed : \A q \in Acl(f) : perm_pool'[q] = perm_pool[q]
      BY <2>1, <2>3, <2>4, ListedFacts DEF IInv
    <3>4. \A f \in Listed : ToSet(file_pool'[f].acl) = Acl(f)
      BY <3>1 DEF Acl
    <3> QED BY <3>2, <3>3, <3>4, SameRights
  <2> QED BY <1>4, <2>1, <2>7, <2>8
<1> QED BY <1>1, <1>3, <1>5, <1>6

LEMMA CloseRights ==
    ASSUME IInv, NEW sm \in SMs, NEW fd \in ClientFDs, sfs_close(sm, fd)
    PROVE  /\ reply'.op = "close" /\ reply'.sm = sm /\ reply'.fd = fd
           /\ Keeps
           /\ \A g \in FDs : fd_cache'[g] # fd_cache[g] =>
                  g = fd /\ fd_cache'[g] = NULL /\ CHK_FD(fd, sm)
<1> DEFINE call == [NoReply EXCEPT !.op = "close", !.sm = sm, !.fd = fd]
<1>1. /\ call.op = "close" /\ call.sm = sm /\ call.fd = fd
      /\ \A ok : LET r == [call EXCEPT !.ok = ok] IN r.op = "close" /\ r.sm = sm /\ r.fd = fd
  BY DEF NoReply
<1> HIDE DEF call
<1>2. CASE Refuse(call)
  <2>1. UNCHANGED fd_cache /\ \E ok : reply' = [call EXCEPT !.ok = ok]
    BY <1>2 DEF Refuse, Unaltered, connVars
  <2> QED BY <1>1, <1>2, <2>1, RefuseKeeps
<1>3. CASE /\ CHK_FD(fd, sm)
           /\ file_pool' = [file_pool EXCEPT
                  ![perm_pool[fd_cache[fd]].file].open_count = @ - 1]
           /\ CLOSE_FD({fd})
           /\ reply' = call
           /\ UNCHANGED <<INIT_DONE, perm_pool, open_file_list, freeVars, cfs_dir>>
  <2>1. file_pool \in [Files -> [name : Names \union {NULL}, open_count : Int, acl : Seq(Perms)]]
    BY DEF IInv, TypeOK
  <2>2. Keeps
    BY <1>3, <2>1 DEF Keeps
  <2> QED BY <1>1, <1>3, <2>2 DEF CLOSE_FD
<1> QED BY <1>2, <1>3 DEF sfs_close, call

LEMMA RemoveRights ==
    ASSUME IInv, NEW sm \in SMs, NEW name \in Names, sfs_remove(sm, name)
    PROVE  /\ reply'.op = "remove" /\ reply'.sm = sm
           /\ \A id, n : Rights(id, n)' # Rights(id, n) => SFS_ROOT \subseteq Rights(sm, n)
<1> DEFINE call == [NoReply EXCEPT !.op = "remove", !.sm = sm, !.name = name]
           p    == two_phase_lookup(name, SFS_ROOT, sm)
           cur  == perm_pool[p].file
<1>1. \A ok : LET r == [call EXCEPT !.ok = ok] IN r.op = "remove" /\ r.sm = sm
  BY DEF NoReply
<1>2. \/ Refuse(call)
      \/ /\ p # NULL
         /\ open_file_list' = Unlink(open_file_list, cur)
         /\ perm_pool' = [q \in Perms |-> IF q \in Acl(cur) THEN NoPerm ELSE perm_pool[q]]
         /\ file_pool' = [file_pool EXCEPT ![cur] = NoFile]
         /\ \E r \in cfs_remove(name) : reply' = [call EXCEPT !.ok = r.ok]
  BY DEF sfs_remove, Acl
<1> HIDE DEF call
<1>3. CASE Refuse(call)
  BY <1>1, <1>3, RefuseKeeps, KeepsRights DEF Refuse
<1>4. CASE ~Refuse(call)
  <2>1. cur \in Listed /\ file_pool[cur].name = name
    BY <1>2, <1>4, TwoPhase
  <2>2. SFS_ROOT \subseteq Rights(sm, name)
    BY <1>2, <1>4, RootLookup
  <2> HIDE DEF p, cur
  <2>3. Listed' = Listed \ {cur}
    BY <1>2, <1>4, <2>1, UnlinkFacts DEF IInv, TypeOK, SlotsConserved, Listed
  <2>4. file_pool \in [Files -> [name : Names \union {NULL}, open_count : Int, acl : Seq(Perms)]]
        /\ Listed \subseteq Files
    BY ListedFacts DEF IInv, TypeOK
  <2>5. \A g \in Listed \ {cur} : file_pool'[g] = file_pool[g]
    BY <1>2, <1>4, <2>4
  <2>6. \A q \in Perms \ Acl(cur) : perm_pool'[q] = perm_pool[q]
    BY <1>2, <1>4
  <2>7. \A n : n # name => \A id : Rights(id, n)' = Rights(id, n)
    BY <2>1, <2>3, <2>5, <2>6, OtherRights
  <2> QED BY <1>1, <1>2, <1>4, <2>2, <2>7
<1> QED BY <1>3, <1>4

LEMMA ChmodRights ==
    ASSUME IInv, NEW sm \in SMs, NEW name \in Names, NEW id \in SMs, NEW perm_flags \in Granted,
           sfs_chmod(sm, name, id, perm_flags)
    PROVE  /\ reply'.op = "chmod" /\ reply'.sm = sm /\ reply'.name = name
           /\ reply'.id = id /\ reply'.flags = perm_flags
           /\ \A k, n : Rights(k, n)' # Rights(k, n) => SFS_ROOT \subseteq Rights(sm, n)
           /\ \A fd \in FDs : fd_cache'[fd] # fd_cache[fd] =>
                  /\ fd_cache'[fd] = NULL /\ perm_flags = SFS_NIL
                  /\ Connection(fd).sm = id /\ Connection(fd).name = name
<1> DEFINE call == [NoReply EXCEPT !.op = "chmod", !.sm = sm, !.name = name,
                                   !.id = id, !.flags = perm_flags]
           pc   == two_phase_lookup(name, SFS_ROOT, sm)
           file == perm_pool[pc].file
           cur  == LOOKUP_PERM(file, id)
           OK(r) == r.op = "chmod" /\ r.sm = sm /\ r.name = name /\ r.id = id /\ r.flags = perm_flags
<1>1. OK(call) /\ \A ok : OK([call EXCEPT !.ok = ok])
  BY DEF NoReply
<1>2. \/ Refuse(call)
      \/ pc # NULL /\ perm_flags = SFS_NIL /\ revoke_acl(call, file)
      \/ pc # NULL /\ add_acl(call, file)
  BY DEF sfs_chmod
<1>3. call.id = id /\ call.flags = perm_flags
  BY <1>1
<1> HIDE DEF call
<1>4. CASE Refuse(call)
  BY <1>1, <1>4, RefuseKeeps, KeepsRights DEF Refuse, Unaltered, connVars
<1>5. CASE pc # NULL
  <2>1. file \in Listed /\ file \in Files /\ file_pool[file].name = name
    BY <1>5, TwoPhase
  <2>2. SFS_ROOT \subseteq Rights(sm, name)
    BY <1>5, RootLookup
  <2> HIDE DEF pc, file
  <2>3. /\ file_pool \in [Files -> [name : Names \union {NULL}, open_count : Int, acl : Seq(Perms)]]
        /\ perm_pool \in [Perms -> [sm_id : SMs \union {NULL}, flags : Flags, file : Files \union {NULL}]]
        /\ Listed \subseteq Files
    BY ListedFacts DEF IInv, TypeOK
  <2>4. cur # NULL => cur \in Acl(file) /\ perm_pool[cur].sm_id = id
    BY <2>1, LookupPerm DEF IInv
  <2> HIDE DEF cur
  <2>5. ASSUME reply' = call, UNCHANGED open_file_list,
               \A g \in Listed \ {file} : file_pool'[g] = file_pool[g],
               file_pool'[file].name = file_pool[file].name,
               \A q \in Perms \ Acl(file) : perm_pool'[q] = perm_pool[q] \/ q \in ToSet(FreePerms)
        PROVE  OK(reply') /\ \A k, n : Rights(k, n)' # Rights(k, n) => SFS_ROOT \subseteq Rights(sm, n)
    <3>1. Listed' = Listed
      BY <2>5 DEF Listed
    <3>2. \A n : n # name => \A k : Rights(k, n)' = Rights(k, n)
      BY <2>1, <2>5, <3>1, OtherRights
    <3> QED BY <1>1, <2>2, <2>5, <3>2
  <2>6. CASE perm_flags = SFS_NIL /\ revoke_acl(call, file)
    <3> DEFINE fds == {fd \in FDs : fd_cache[fd] = cur}
    <3>1. \/ Refuse(call)
          \/ Unaltered /\ reply' = call
          \/ /\ cur # NULL
             /\ CLOSE_FD(fds)
             /\ file_pool' = [file_pool EXCEPT ![file].open_count = @ - Cardinality(fds),
                                               ![file].acl = UnlinkPerm(@, cur)]
             /\ perm_pool' = [perm_pool EXCEPT ![cur] = NoPerm]
             /\ reply' = call
             /\ UNCHANGED open_file_list
      BY <1>3, <2>6 DEF revoke_acl, cur
    <3>2. CASE Unaltered /\ reply' = call
      <4>1. Keeps /\ UNCHANGED fd_cache
        BY <3>2 DEF Unaltered, listVars, connVars, Keeps
      <4> QED BY <1>1, <3>2, <4>1, KeepsRights
    <3>3. CASE cur # NULL /\ CLOSE_FD(fds) /\ perm_pool' = [perm_pool EXCEPT ![cur] = NoPerm]
               /\ file_pool' = [file_pool EXCEPT ![file].open_count = @ - Cardinality(fds),
                                                 ![file].acl = UnlinkPerm(@, cur)]
               /\ reply' = call /\ UNCHANGED open_file_list
      <4>1. \A g \in Listed \ {file} : file_pool'[g] = file_pool[g]
        BY <2>3, <3>3
      <4>2. file_pool'[file].name = file_pool[file].name
        BY <2>1, <2>3, <3>3
      <4>3. \A q \in Perms \ Acl(file) : perm_pool'[q] = perm_pool[q]
        BY <2>3, <2>4, <3>3
      <4>4. OK(reply') /\ \A k, n : Rights(k, n)' # Rights(k, n) => SFS_ROOT \subseteq Rights(sm, n)
        BY <2>5, <3>3, <4>1, <4>2, <4>3
      <4>5. ASSUME NEW fd \in FDs, fd_cache'[fd] # fd_cache[fd]
            PROVE  /\ fd_cache'[fd] = NULL
                   /\ Connection(fd).sm = id /\ Connection(fd).name = name
        <5>1. fd_cache[fd] = cur /\ fd_cache'[fd] = NULL
          BY <3>3, <4>5 DEF CLOSE_FD
        <5>2. perm_pool[cur].file = file
          BY <2>1, <2>4, <3>3 DEF IInv, LookupsUnambiguous
        <5> QED BY <2>1, <2>4, <3>3, <5>1, <5>2 DEF Connection
      <4> QED BY <2>6, <4>4, <4>5
    <3> QED BY <1>4, <3>1, <3>2, <3>3
  <2>7. CASE add_acl(call, file)
    <3> DEFINE new == Head(FreePerms)
    <3>1. \/ Refuse(call)
          \/ /\ cur # NULL
             /\ perm_pool' = [perm_pool EXCEPT ![cur].flags = perm_flags]
             /\ reply' = call
             /\ UNCHANGED <<file_pool, open_file_list, connVars>>
          \/ /\ FreePerms # <<>>
             /\ perm_pool' = [perm_pool EXCEPT ![new] =
                    [sm_id |-> id, flags |-> perm_flags, file |-> file]]
             /\ file_pool' = [file_pool EXCEPT ![file].acl = Append(@, new)]
             /\ reply' = call
             /\ UNCHANGED <<open_file_list, connVars>>
      BY <1>3, <2>7 DEF add_acl, cur
    <3>2. CASE cur # NULL /\ perm_pool' = [perm_pool EXCEPT ![cur].flags = perm_flags]
               /\ reply' = call /\ UNCHANGED <<file_pool, open_file_list, connVars>>
      <4>1. \A q \in Perms \ Acl(file) : perm_pool'[q] = perm_pool[q]
        BY <2>3, <2>4, <3>2
      <4> QED BY <2>5, <3>2, <4>1 DEF connVars
    <3>3. CASE /\ FreePerms # <<>>
               /\ perm_pool' = [perm_pool EXCEPT ![new] =
                      [sm_id |-> id, flags |-> perm_flags, file |-> file]]
               /\ file_pool' = [file_pool EXCEPT ![file].acl = Append(@, new)]
               /\ reply' = call /\ UNCHANGED <<open_file_list, connVars>>
      <4>1. new \in ToSet(FreePerms)
        BY <3>3, FreeFacts, ListHead DEF IInv
      <4> HIDE DEF new
      <4>2. \A q \in Perms : perm_pool'[q] = perm_pool[q] \/ q \in ToSet(FreePerms)
        BY <2>3, <3>3, <4>1
      <4>3. \A g \in Listed \ {file} : file_pool'[g] = file_pool[g]
        BY <2>3, <3>3
      <4>4. file_pool'[file].name = file_pool[file].name
        BY <2>1, <2>3, <3>3
      <4> QED BY <2>5, <3>3, <4>2, <4>3, <4>4 DEF connVars
    <3> HIDE DEF new
    <3> QED BY <1>4, <3>1, <3>2, <3>3
  <2> QED BY <1>2, <1>4, <2>6, <2>7
<1> QED BY <1>2, <1>4, <1>5

LEMMA AccessRights ==
    ASSUME IInv, NEW call, NEW need, Access(call, need),
           \A ok, b : LET r == [call EXCEPT !.ok = ok, !.back = b]
                      IN  r.op = call.op /\ r.sm = call.sm /\ r.back = b,
           \A ok : LET r == [call EXCEPT !.ok = ok] IN r.op = call.op /\ r.back = NULL
    PROVE  /\ reply'.op = call.op /\ Keeps /\ UNCHANGED fd_cache
           /\ reply'.back # NULL => need \subseteq Rights(reply'.sm, reply'.back)
<1> DEFINE fd == call.fd
<1>1. CASE Refuse(call)
  BY <1>1, RefuseKeeps DEF Refuse, Unaltered, connVars
<1>2. CASE ~Refuse(call)
  <2>1. /\ CHK_FD(fd, call.sm) /\ need \subseteq perm_pool[fd_cache[fd]].flags
        /\ Unaltered
        /\ \E ok \in BOOLEAN : reply' = [call EXCEPT !.ok = ok, !.back = cfs_fd[fd]]
    BY <1>2 DEF Access, CHK_PERM
  <2>2. reply'.op = call.op /\ reply'.sm = call.sm /\ reply'.back = cfs_fd[fd]
    BY <2>1
  <2> DEFINE p == fd_cache[fd]
             f == perm_pool[p].file
  <2>3. f \in Listed /\ p \in Acl(f) /\ cfs_fd[fd] = file_pool[f].name
    BY <2>1, ConnectedFd DEF CHK_FD
  <2>4. perm_pool[p].sm_id = call.sm
    BY <2>1 DEF CHK_FD
  <2> HIDE DEF p, f
  <2>5. perm_pool[p].flags \subseteq Rights(call.sm, cfs_fd[fd])
    BY <2>3, <2>4, EntryGives
  <2>6. Keeps /\ UNCHANGED fd_cache
    BY <2>1 DEF Unaltered, listVars, connVars, Keeps
  <2> QED BY <2>1, <2>2, <2>5, <2>6 DEF p
<1> QED BY <1>1, <1>2

\* The calls that go through a descriptor.
LEMMA AccessCalls ==
    ASSUME IInv, NEW sm \in SMs, NEW fd \in ClientFDs
    PROVE  /\ sfs_getc(sm, fd) =>
                 /\ reply'.op = "getc" /\ Keeps /\ UNCHANGED fd_cache
                 /\ reply'.back # NULL => SFS_READ \subseteq Rights(reply'.sm, reply'.back)
           /\ sfs_putc(sm, fd) =>
                 /\ reply'.op = "putc" /\ Keeps /\ UNCHANGED fd_cache
                 /\ reply'.back # NULL => SFS_WRITE \subseteq Rights(reply'.sm, reply'.back)
           /\ sfs_seek(sm, fd) => reply'.op = "seek" /\ Keeps /\ UNCHANGED fd_cache
<1>1. ASSUME NEW op, NEW need, Access([NoReply EXCEPT !.op = op, !.sm = sm, !.fd = fd], need)
      PROVE  /\ reply'.op = op /\ Keeps /\ UNCHANGED fd_cache
             /\ reply'.back # NULL => need \subseteq Rights(reply'.sm, reply'.back)
  <2> DEFINE call == [NoReply EXCEPT !.op = op, !.sm = sm, !.fd = fd]
  <2>1. /\ call.op = op
        /\ \A ok, b : LET r == [call EXCEPT !.ok = ok, !.back = b]
                      IN  r.op = call.op /\ r.sm = call.sm /\ r.back = b
        /\ \A ok : LET r == [call EXCEPT !.ok = ok] IN r.op = call.op /\ r.back = NULL
    BY DEF NoReply
  <2>2. Access(call, need)
    BY <1>1
  <2> HIDE DEF call
  <2> QED BY <2>1, <2>2, AccessRights
<1> QED BY <1>1 DEF sfs_getc, sfs_putc, sfs_seek

LEMMA OtherCalls ==
    ASSUME IInv, NEW sm \in SMs
    PROVE  /\ sfs_init(sm) => reply'.op = "init" /\ Keeps /\ UNCHANGED fd_cache
           /\ \A name \in Names, owner \in SMs :
                 sfs_attest(sm, name, owner) => reply'.op = "attest" /\ Keeps /\ UNCHANGED fd_cache
BY DEF sfs_init, sfs_attest, Unaltered, NoReply, Keeps, listVars, connVars

\* A descriptor the back-end gives out is not connected.
LEMMA OpenConnects ==
    ASSUME IInv, NEW sm \in SMs, NEW name \in Names, NEW flags \in Wanted, NEW create \in BOOLEAN,
           sfs_open(sm, name, flags, create), NEW fd \in FDs, fd_cache'[fd] # fd_cache[fd]
    PROVE  fd_cache[fd] = NULL
<1> DEFINE call == [NoReply EXCEPT !.op = "open", !.sm = sm, !.name = name,
                                   !.flags = flags, !.create = create]
           p    == two_phase_lookup(name, flags, sm)
<1>1. Refuse(call) \/ sfs_open_new(call) \/ sfs_open_existing(call, p)
  BY DEF sfs_open
<1> HIDE DEF call, p
<1>2. ~Refuse(call)
  BY DEF Refuse, Unaltered, connVars
<1>3. \E r \in cfs_open(call.name) : \E q : open_back_end_file(call, r, q)
  BY <1>1, <1>2 DEF sfs_open_new, sfs_open_existing
<1>4. PICK r \in cfs_open(call.name) : \E q : open_back_end_file(call, r, q)
  BY <1>3
<1>5. r.fd \in FDs => r.fd \in FreeFds
  BY DEF cfs_open, FreeFds, FAILURE, FDs
<1>6. r.fd \in FDs /\ fd = r.fd
  BY <1>4 DEF open_back_end_file, connVars, IInv, TypeOK
<1>7. cfs_fd[fd] = NULL
  BY <1>5, <1>6 DEF FreeFds
<1> QED BY <1>7, ConnectedFd

-----------------------------------------------------------------------------
(* The theorems *)

LEMMA StepAccess ==
    ASSUME IInv, Next
    PROVE  /\ reply'.op = "getc" /\ reply'.back # NULL
                 => SFS_READ \subseteq Rights(reply'.sm, reply'.back)
           /\ reply'.op = "putc" /\ reply'.back # NULL
                 => SFS_WRITE \subseteq Rights(reply'.sm, reply'.back)
<1> PICK sm \in SMs :
        \/ sfs_init(sm)
        \/ \E name \in Names, flags \in Wanted, create \in BOOLEAN :
               sfs_open(sm, name, flags, create)
        \/ \E name \in Names : sfs_remove(sm, name)
        \/ \E name \in Names, id \in SMs, perm_flags \in Granted :
               sfs_chmod(sm, name, id, perm_flags)
        \/ \E name \in Names, owner \in SMs : sfs_attest(sm, name, owner)
        \/ \E fd \in ClientFDs :
               sfs_close(sm, fd) \/ sfs_getc(sm, fd) \/ sfs_putc(sm, fd) \/ sfs_seek(sm, fd)
  BY DEF Next
<1> QED BY OpenRights, RemoveRights, ChmodRights, CloseRights, AccessCalls, OtherCalls

LEMMA StepRights ==
    ASSUME IInv, Next
    PROVE  \A id, n : Rights(id, n)' # Rights(id, n) =>
               \/ SFS_ROOT \subseteq Rights(reply'.sm, n)
               \/ reply'.op = "open" /\ \A k : Entries(k, n) = {}
<1> PICK sm \in SMs :
        \/ sfs_init(sm)
        \/ \E name \in Names, flags \in Wanted, create \in BOOLEAN :
               sfs_open(sm, name, flags, create)
        \/ \E name \in Names : sfs_remove(sm, name)
        \/ \E name \in Names, id \in SMs, perm_flags \in Granted :
               sfs_chmod(sm, name, id, perm_flags)
        \/ \E name \in Names, owner \in SMs : sfs_attest(sm, name, owner)
        \/ \E fd \in ClientFDs :
               sfs_close(sm, fd) \/ sfs_getc(sm, fd) \/ sfs_putc(sm, fd) \/ sfs_seek(sm, fd)
  BY DEF Next
<1>1. Keeps => \A id, n : Rights(id, n)' = Rights(id, n)
  BY KeepsRights
<1> QED BY <1>1, OpenRights, RemoveRights, ChmodRights, CloseRights, AccessCalls, OtherCalls

LEMMA StepConnections ==
    ASSUME IInv, Next, NEW fd \in FDs, fd_cache[fd] # NULL, fd_cache'[fd] # fd_cache[fd]
    PROVE  /\ fd_cache'[fd] = NULL
           /\ \/ reply'.op = "close" /\ reply'.sm = Connection(fd).sm /\ reply'.fd = fd
              \/ /\ reply'.op = "chmod" /\ reply'.id = Connection(fd).sm
                 /\ reply'.name = Connection(fd).name /\ reply'.flags = SFS_NIL
<1> PICK sm \in SMs :
        \/ sfs_init(sm)
        \/ \E name \in Names, flags \in Wanted, create \in BOOLEAN :
               sfs_open(sm, name, flags, create)
        \/ \E name \in Names : sfs_remove(sm, name)
        \/ \E name \in Names, id \in SMs, perm_flags \in Granted :
               sfs_chmod(sm, name, id, perm_flags)
        \/ \E name \in Names, owner \in SMs : sfs_attest(sm, name, owner)
        \/ \E g \in ClientFDs :
               sfs_close(sm, g) \/ sfs_getc(sm, g) \/ sfs_putc(sm, g) \/ sfs_seek(sm, g)
  BY DEF Next
<1>1. CASE \E g \in ClientFDs : sfs_close(sm, g)
  <2>1. PICK g \in ClientFDs : sfs_close(sm, g)
    BY <1>1
  <2>2. /\ reply'.op = "close" /\ reply'.sm = sm /\ reply'.fd = g
        /\ g = fd /\ fd_cache'[fd] = NULL /\ CHK_FD(g, sm)
    BY <2>1, CloseRights
  <2>3. Connection(fd).sm = sm
    BY <2>2 DEF CHK_FD, Connection
  <2> QED BY <2>2, <2>3
<1>2. CASE \E name \in Names, id \in SMs, perm_flags \in Granted :
               sfs_chmod(sm, name, id, perm_flags)
  BY <1>2, ChmodRights
<1>3. CASE \E name \in Names : sfs_remove(sm, name)
  BY <1>3 DEF sfs_remove, Refuse, Unaltered, connVars
<1> QED BY <1>1, <1>2, <1>3, OpenConnects, AccessCalls, OtherCalls

\* The back-end acts for an SM only with the right the ACL gives it at the time
\* of the call (sfs_getc, sfs_putc, CHK_FD, CHK_PERM).
THEOREM AccessIsSound == Spec => AccessSound
<1> DEFINE A == /\ reply'.op = "getc" /\ reply'.back # NULL
                      => SFS_READ \subseteq Rights(reply'.sm, reply'.back)
                /\ reply'.op = "putc" /\ reply'.back # NULL
                      => SFS_WRITE \subseteq Rights(reply'.sm, reply'.back)
<1>1. IInv /\ [Next]_vars => [A]_reply
  <2>1. UNCHANGED vars => UNCHANGED reply
    BY DEF vars
  <2>2. IInv /\ Next => A
    BY StepAccess
  <2> HIDE DEF A
  <2> QED BY <2>1, <2>2
<1> QED BY <1>1, Invariance, PTL DEF Spec, AccessSound

\* Rights change by calls of SMs with SFS_ROOT on that file, or by its creation
\* (sfs_chmod, sfs_remove, sfs_open).
THEOREM RightsChangeByRoot == Spec => OnlyRootChangesRights
<1> DEFINE A == \A sm \in SMs, name \in Names :
                    Rights(sm, name)' # Rights(sm, name) =>
                        \/ SFS_ROOT \subseteq Rights(reply'.sm, name)
                        \/ reply'.op = "open" /\ \A id \in SMs : Entries(id, name) = {}
<1>1. IInv /\ [Next]_vars => [A]_listVars
  <2>1. UNCHANGED vars => UNCHANGED listVars
    BY DEF vars
  <2>2. IInv /\ Next => A
    BY StepRights
  <2> HIDE DEF A
  <2> QED BY <2>1, <2>2
<1> QED BY <1>1, Invariance, PTL DEF Spec, OnlyRootChangesRights

\* A connection ends when its SM closes it or loses its entry, and is never
\* handed to another entry in one step (sfs_close, revoke_acl, CLOSE_FD).
THEOREM ConnectionsEndAsTheyShould == Spec => ConnectionsEndInOrder
<1> DEFINE A == \A fd \in FDs :
                    fd_cache[fd] # NULL /\ fd_cache'[fd] # fd_cache[fd] =>
                        /\ fd_cache'[fd] = NULL
                        /\ LET c == Connection(fd)
                           IN  \/ reply'.op = "close" /\ reply'.sm = c.sm /\ reply'.fd = fd
                               \/ /\ reply'.op = "chmod" /\ reply'.id = c.sm
                                  /\ reply'.name = c.name /\ reply'.flags = SFS_NIL
<1>1. IInv /\ [Next]_vars => [A]_connVars
  <2>1. UNCHANGED vars => UNCHANGED connVars
    BY DEF vars
  <2>2. IInv /\ Next => A
    BY StepConnections
  <2> HIDE DEF A
  <2> QED BY <2>1, <2>2
<1> QED BY <1>1, Invariance, PTL DEF Spec, ConnectionsEndInOrder

-----------------------------------------------------------------------------
(* The front-end implements AccessControl: every step of SFS is one of the table *)
(* of rights and connections. *)


\* The entries of a listed file are those of clients, and give something: in the
\* table no entry is the empty set of rights.
EntriesProper ==
    \A f \in Listed : \A p \in Acl(f) :
        perm_pool[p].sm_id \in SMs /\ perm_pool[p].flags # SFS_NIL

RInv == IInv /\ EntriesProper

-----------------------------------------------------------------------------
(* The table *)

\* The table holds the flags of the entry, or nothing.
TableForm ==
    /\ \A f \in Listed : \A p \in Acl(f) :
          Rights(perm_pool[p].sm_id, file_pool[f].name) = perm_pool[p].flags
    /\ \A sm, n :
          (\A f \in Listed : file_pool[f].name = n => \A p \in Acl(f) : perm_pool[p].sm_id # sm)
              => Rights(sm, n) = SFS_NIL

LEMMA TableFormHolds == IInv => TableForm
<1> SUFFICES ASSUME IInv PROVE TableForm
  OBVIOUS
<1>1. ASSUME NEW f \in Listed, NEW p \in Acl(f)
      PROVE  Rights(perm_pool[p].sm_id, file_pool[f].name) = perm_pool[p].flags
  <2> DEFINE sm == perm_pool[p].sm_id
             n  == file_pool[f].name
  <2>1. {g \in Listed : file_pool[g].name = n} = {f}
    BY DEF IInv, LookupsUnambiguous
  <2>2. Entries(sm, n) = {q \in Acl(f) : perm_pool[q].sm_id = sm}
    BY <2>1 DEF Entries
  <2>3. Entries(sm, n) = {p}
    BY <2>2 DEF IInv, LookupsUnambiguous
  <2> QED BY <2>3 DEF Rights
<1>2. ASSUME NEW sm, NEW n,
             \A f \in Listed : file_pool[f].name = n => \A p \in Acl(f) : perm_pool[p].sm_id # sm
      PROVE  Rights(sm, n) = SFS_NIL
  <2>1. Entries(sm, n) = {}
    BY <1>2 DEF Entries
  <2> QED BY <2>1 DEF Rights, SFS_NIL
<1> QED BY <1>1, <1>2 DEF TableForm

LEMMA TableAt ==
    ASSUME NEW n \in Names, NEW sm \in SMs
    PROVE  RightsTable[n][sm] = Rights(sm, n)
BY DEF RightsTable

\* The two-phase look-up finds an entry exactly if the table allows what is wanted.
LEMMA MayLookup ==
    ASSUME RInv, NEW n \in Names, NEW sm \in SMs, NEW want
    PROVE  /\ AC!May(sm, n, want) <=> two_phase_lookup(n, want, sm) # NULL
           /\ LET p == two_phase_lookup(n, want, sm)
              IN  p # NULL => RightsTable[n][sm] = perm_pool[p].flags
<1> DEFINE p == two_phase_lookup(n, want, sm)
<1>1. TableForm
  BY TableFormHolds DEF RInv
<1>2. ASSUME p # NULL
      PROVE  AC!May(sm, n, want) /\ RightsTable[n][sm] = perm_pool[p].flags
  <2>1. /\ perm_pool[p].file \in Listed /\ p \in Acl(perm_pool[p].file)
        /\ file_pool[perm_pool[p].file].name = n /\ perm_pool[p].sm_id = sm
        /\ want \subseteq perm_pool[p].flags
    BY <1>2, TwoPhase DEF RInv
  <2> HIDE DEF p
  <2>2. Rights(sm, n) = perm_pool[p].flags
    BY <1>1, <2>1 DEF TableForm
  <2>3. perm_pool[p].flags # SFS_NIL
    BY <2>1 DEF RInv, EntriesProper
  <2> QED BY <2>1, <2>2, <2>3, TableAt DEF AC!May
<1>3. ASSUME AC!May(sm, n, want)
      PROVE  p # NULL
  <2>1. Rights(sm, n) # SFS_NIL /\ want \subseteq Rights(sm, n)
    BY <1>3, TableAt DEF AC!May
  <2>2. PICK f \in Listed : file_pool[f].name = n /\ \E q \in Acl(f) : perm_pool[q].sm_id = sm
    BY <1>1, <2>1 DEF TableForm
  <2>3. PICK q \in Acl(f) : perm_pool[q].sm_id = sm
    BY <2>2
  <2>4. LOOKUP_FILE(n) = f
    BY <2>2, LookupFile DEF RInv, IInv, LookupsUnambiguous
  <2>5. LOOKUP_PERM(f, sm) = q
    BY <2>3, LookupPerm DEF RInv, IInv, LookupsUnambiguous
  <2>6. f # NULL /\ q # NULL
    BY ListedFacts, NullAssumption DEF RInv, IInv, NullAssumption
  <2>7. want \subseteq perm_pool[q].flags
    BY <1>1, <2>1, <2>2, <2>3 DEF TableForm
  <2> QED BY <2>4, <2>5, <2>6, <2>7 DEF two_phase_lookup, CHK_PERM
<1> QED BY <1>2, <1>3

\* A name is listed exactly if somebody has rights on it: the creator has.
LEMMA ExistsLookup ==
    ASSUME RInv, NEW n \in Names
    PROVE  AC!Exists(n) <=> LOOKUP_FILE(n) # NULL
<1>1. TableForm
  BY TableFormHolds DEF RInv
<1>2. ASSUME LOOKUP_FILE(n) # NULL
      PROVE  AC!Exists(n)
  <2>1. PICK f \in Listed : file_pool[f].name = n
    BY <1>2, LookupFile DEF RInv, IInv
  <2>2. file_pool[f].acl # <<>> /\ file_pool[f].acl \in Seq(Perms)
    BY ListedFacts DEF RInv, IInv, HeadIsCreator
  <2>3. PICK p : p \in Acl(f)
    BY <2>2, ListHead DEF Acl
  <2>4. perm_pool[p].sm_id \in SMs /\ perm_pool[p].flags # SFS_NIL
    BY <2>3 DEF RInv, EntriesProper
  <2>5. Rights(perm_pool[p].sm_id, n) = perm_pool[p].flags
    BY <1>1, <2>1, <2>3 DEF TableForm
  <2> QED BY <2>4, <2>5, TableAt DEF AC!Exists
<1>3. ASSUME AC!Exists(n)
      PROVE  LOOKUP_FILE(n) # NULL
  <2>1. PICK sm \in SMs : Rights(sm, n) # SFS_NIL
    BY <1>3, TableAt DEF AC!Exists
  <2>2. PICK f \in Listed : file_pool[f].name = n
    BY <1>1, <2>1 DEF TableForm
  <2>3. NULL \notin Listed
    BY ListedFacts, NullAssumption DEF RInv, IInv, NullAssumption
  <2> QED BY <2>2, <2>3, LookupFile DEF RInv, IInv
<1> QED BY <1>2, <1>3
-----------------------------------------------------------------------------
(* The connections *)

LEMMA ConnAt == ASSUME NEW fd \in FDs PROVE ConnTable[fd] = Connection(fd)
BY DEF ConnTable

\* A connection is of an SM with an entry on a listed file.
LEMMA ConnForm ==
    ASSUME RInv, NEW fd \in FDs
    PROVE  /\ Connection(fd) = NULL <=> fd_cache[fd] = NULL
           /\ fd_cache[fd] # NULL =>
                LET p == fd_cache[fd]
                    f == perm_pool[p].file
                IN  /\ f \in Listed /\ p \in Acl(f) /\ file_pool[f].name = cfs_fd[fd]
                    /\ file_pool[f].name \in Names /\ perm_pool[p].sm_id \in SMs
                    /\ Connection(fd) = [sm |-> perm_pool[p].sm_id, name |-> file_pool[f].name]
<1>1. CASE fd_cache[fd] = NULL
  BY <1>1 DEF Connection
<1>2. CASE fd_cache[fd] # NULL
  <2> DEFINE p == fd_cache[fd]
             f == perm_pool[p].file
             c == [sm |-> perm_pool[p].sm_id, name |-> file_pool[f].name]
  <2>1. f \in Listed /\ p \in Acl(f) /\ file_pool[f].name = cfs_fd[fd]
    BY <1>2, ConnectedFd DEF RInv
  <2>2. file_pool[f].name \in Names /\ perm_pool[p].sm_id \in SMs
    BY <2>1 DEF RInv, IInv, ListedNamed, EntriesProper
  <2>3. Connection(fd) = c
    BY <1>2 DEF Connection
  <2>4. c # NULL
    BY <2>2, NullAssumption DEF NullAssumption
  <2> QED BY <1>2, <2>1, <2>2, <2>3, <2>4
<1> QED BY <1>1, <1>2

LEMMA ConnectedCheck ==
    ASSUME RInv, NEW sm \in SMs, NEW fd
    PROVE  AC!Connected(sm, fd) <=> CHK_FD(fd, sm)
BY ConnForm, ConnAt DEF AC!Connected, CHK_FD

\* The table of connections stays where the descriptor, the owner of its entry and
\* the name of the file do.
LEMMA SameConnection ==
    ASSUME NEW fd \in FDs, fd_cache'[fd] = fd_cache[fd],
           fd_cache[fd] # NULL =>
               LET p == fd_cache[fd]
                   f == perm_pool[p].file
               IN  /\ perm_pool'[p].sm_id = perm_pool[p].sm_id /\ perm_pool'[p].file = f
                   /\ file_pool'[f].name = file_pool[f].name
    PROVE  Connection(fd)' = Connection(fd)
BY DEF Connection

LEMMA SameTables ==
    /\ (\A sm \in SMs, n \in Names : Rights(sm, n)' = Rights(sm, n)) => RightsTable' = RightsTable
    /\ (\A fd \in FDs : Connection(fd)' = Connection(fd)) => ConnTable' = ConnTable
BY DEF RightsTable, ConnTable

\* The table of rights, entry by entry.
LEMMA TableShape ==
    /\ RightsTable = [n \in Names |-> RightsTable[n]]
    /\ \A n \in Names : RightsTable[n] = [id \in SMs |-> RightsTable[n][id]]
    /\ \A n \in Names, id \in SMs : RightsTable[n][id] = Rights(id, n)
BY DEF RightsTable

LEMMA TableShapeNext ==
    /\ RightsTable' = [n \in Names |-> RightsTable'[n]]
    /\ \A n \in Names : RightsTable'[n] = [id \in SMs |-> RightsTable'[n][id]]
    /\ \A n \in Names, id \in SMs : RightsTable'[n][id] = Rights(id, n)'
BY DEF RightsTable

\* The row of one name is written.
LEMMA TableRow ==
    ASSUME NEW name \in Names, NEW row, row = [id \in SMs |-> row[id]],
           \A n \in Names \ {name} : \A id : Rights(id, n)' = Rights(id, n),
           \A id \in SMs : Rights(id, name)' = row[id]
    PROVE  RightsTable' = [RightsTable EXCEPT ![name] = row]
<1> DEFINE Old == RightsTable
           New == RightsTable'
<1>1. /\ Old = [n \in Names |-> Old[n]] /\ \A n \in Names : Old[n] = [id \in SMs |-> Old[n][id]]
      /\ New = [n \in Names |-> New[n]] /\ \A n \in Names : New[n] = [id \in SMs |-> New[n][id]]
  BY TableShape, TableShapeNext
<1>2. \A n \in Names \ {name} : \A id \in SMs : New[n][id] = Old[n][id]
  BY TableShape, TableShapeNext
<1>3. \A id \in SMs : New[name][id] = row[id]
  BY TableShapeNext
<1> HIDE DEF Old, New
<1>4. \A n \in Names \ {name} : New[n] = Old[n]
  BY <1>1, <1>2
<1>5. New[name] = row
  BY <1>1, <1>3
<1>6. New = [Old EXCEPT ![name] = row]
  BY <1>1, <1>4, <1>5
<1> QED BY <1>6 DEF Old, New

\* One entry of the table is written.
LEMMA TableEntry ==
    ASSUME NEW name \in Names, NEW sm \in SMs, NEW v,
           \A n \in Names \ {name} : \A id : Rights(id, n)' = Rights(id, n),
           Rights(sm, name)' = v, \A id \in SMs \ {sm} : Rights(id, name)' = Rights(id, name)
    PROVE  RightsTable' = [RightsTable EXCEPT ![name][sm] = v]
<1> DEFINE row == [RightsTable[name] EXCEPT ![sm] = v]
<1>1. RightsTable[name] = [id \in SMs |-> RightsTable[name][id]]
  BY TableShape
<1>2. row = [id \in SMs |-> row[id]]
  BY <1>1
<1>3. \A id \in SMs : row[id] = IF id = sm THEN v ELSE Rights(id, name)
  BY <1>1, TableShape
<1>4. \A id \in SMs : Rights(id, name)' = row[id]
  BY <1>3
<1>5. RightsTable' = [RightsTable EXCEPT ![name] = row]
  <2> HIDE DEF row
  <2> QED BY <1>2, <1>4, TableRow
<1>6. [RightsTable EXCEPT ![name] = row] = [RightsTable EXCEPT ![name][sm] = v]
  BY TableShape
<1> QED BY <1>5, <1>6

\* What keeps every struct keeps the tables.
LEMMA KeepsTables ==
    ASSUME RInv, Keeps
    PROVE  /\ RightsTable' = RightsTable
           /\ EntriesProper'
           /\ \A fd \in FDs : fd_cache'[fd] = fd_cache[fd] => ConnTable'[fd] = ConnTable[fd]
           /\ UNCHANGED fd_cache => UNCHANGED ConnTable
<1>1. \A sm, n : Rights(sm, n)' = Rights(sm, n)
  BY KeepsRights DEF RInv
<1>2. RightsTable' = RightsTable
  BY <1>1, SameTables
<1>3. Listed' = Listed /\ Listed \subseteq Files
  BY ListedFacts DEF Keeps, Listed, RInv, IInv
<1>4. EntriesProper'
  BY <1>3 DEF RInv, EntriesProper, Keeps, Acl
<1>5. ASSUME NEW fd \in FDs, fd_cache'[fd] = fd_cache[fd]
      PROVE  Connection(fd)' = Connection(fd)
  <2>1. fd_cache[fd] # NULL => perm_pool[fd_cache[fd]].file \in Files
    BY <1>3, ConnForm
  <2> QED BY <1>5, <2>1, SameConnection DEF Keeps
<1> QED BY <1>2, <1>4, <1>5, SameTables DEF ConnTable
-----------------------------------------------------------------------------
(* The calls that leave the rights alone *)

LEMMA RefuseImplements ==
    ASSUME RInv, NEW call, Refuse(call)
    PROVE  AC!Refuse(call) /\ EntriesProper'
<1>1. UNCHANGED fd_cache /\ Keeps
  BY RefuseKeeps DEF Refuse, Unaltered, connVars
<1> QED BY <1>1, KeepsTables DEF Refuse, AC!Refuse

LEMMA InitImplements ==
    ASSUME RInv, NEW sm \in SMs, sfs_init(sm)
    PROVE  AC!Prepare(sm) /\ EntriesProper'
<1>1. UNCHANGED fd_cache /\ Keeps
  BY OtherCalls DEF RInv
<1> QED BY <1>1, KeepsTables DEF sfs_init, AC!Prepare

LEMMA AttestImplements ==
    ASSUME RInv, NEW sm \in SMs, NEW name \in Names, NEW owner \in SMs, sfs_attest(sm, name, owner)
    PROVE  AC!Attest(sm, name, owner) /\ EntriesProper'
<1>1. UNCHANGED fd_cache /\ Keeps
  BY OtherCalls DEF RInv
<1>2. AC!May(owner, name, SFS_CREATOR) <=> two_phase_lookup(name, SFS_CREATOR, owner) # NULL
  BY MayLookup
<1>3. AC!May(owner, name, SFS_CREATOR) \in BOOLEAN
  BY DEF AC!May
<1>4. AC!May(owner, name, SFS_CREATOR) = (two_phase_lookup(name, SFS_CREATOR, owner) # NULL)
  BY <1>2, <1>3
<1> QED BY <1>1, <1>4, KeepsTables DEF sfs_attest, AC!Attest

\* A call through a descriptor.
LEMMA AccessImplements ==
    ASSUME RInv, NEW op, NEW sm \in SMs, NEW fd \in ClientFDs, NEW need,
           Access([NoReply EXCEPT !.op = op, !.sm = sm, !.fd = fd], need)
    PROVE  AC!Use(op, sm, fd, need) /\ EntriesProper'
<1> DEFINE call == [NoReply EXCEPT !.op = op, !.sm = sm, !.fd = fd]
<1>1. call.fd = fd /\ call.sm = sm
  BY DEF NoReply
<1>2. AC!Connected(sm, fd) <=> CHK_FD(fd, sm)
  BY ConnectedCheck
<1>3. ASSUME CHK_FD(fd, sm)
      PROVE  /\ AC!May(sm, ConnTable[fd].name, need) <=> CHK_PERM(perm_pool[fd_cache[fd]].flags, need)
             /\ ConnTable[fd].name = cfs_fd[fd] /\ cfs_fd[fd] \in Names
  <2> DEFINE p == fd_cache[fd]
             f == perm_pool[p].file
  <2>1. fd \in FDs /\ p # NULL /\ perm_pool[p].sm_id = sm
    BY <1>3 DEF CHK_FD
  <2>2. /\ f \in Listed /\ p \in Acl(f) /\ file_pool[f].name = cfs_fd[fd] /\ file_pool[f].name \in Names
        /\ Connection(fd) = [sm |-> perm_pool[p].sm_id, name |-> file_pool[f].name]
    BY <2>1, ConnForm
  <2>3. ConnTable[fd].name = file_pool[f].name
    BY <2>1, <2>2, ConnAt
  <2>4. Rights(sm, file_pool[f].name) = perm_pool[p].flags
    BY <2>1, <2>2, TableFormHolds DEF RInv, TableForm
  <2>5. perm_pool[p].flags # SFS_NIL
    BY <2>2 DEF RInv, EntriesProper
  <2> HIDE DEF p, f
  <2> QED BY <2>2, <2>3, <2>4, <2>5, TableAt DEF AC!May, CHK_PERM, p
<1>4. \/ Refuse(call) /\ ~(AC!Connected(sm, fd) /\ AC!May(sm, ConnTable[fd].name, need))
      \/ /\ AC!Connected(sm, fd) /\ AC!May(sm, ConnTable[fd].name, need)
         /\ ConnTable[fd].name = cfs_fd[fd] /\ cfs_fd[fd] \in Names
         /\ Unaltered
         /\ \E ok \in BOOLEAN : reply' = [call EXCEPT !.ok = ok, !.back = cfs_fd[fd]]
  <2> HIDE DEF call
  <2> QED BY <1>1, <1>2, <1>3 DEF Access, call
<1>5. CASE Refuse(call) /\ ~(AC!Connected(sm, fd) /\ AC!May(sm, ConnTable[fd].name, need))
  BY <1>5, RefuseImplements DEF AC!Use
<1>6. CASE /\ AC!Connected(sm, fd) /\ AC!May(sm, ConnTable[fd].name, need)
           /\ ConnTable[fd].name = cfs_fd[fd] /\ cfs_fd[fd] \in Names
           /\ Unaltered
           /\ \E ok \in BOOLEAN : reply' = [call EXCEPT !.ok = ok, !.back = cfs_fd[fd]]
  <2>1. UNCHANGED fd_cache /\ Keeps
    BY <1>6 DEF Unaltered, listVars, connVars, Keeps
  <2> QED BY <1>6, <2>1, KeepsTables DEF AC!Use
<1> QED BY <1>4, <1>5, <1>6

LEMMA CloseImplements ==
    ASSUME RInv, NEW sm \in SMs, NEW fd \in ClientFDs, sfs_close(sm, fd)
    PROVE  AC!Close(sm, fd) /\ EntriesProper'
<1> DEFINE call == [NoReply EXCEPT !.op = "close", !.sm = sm, !.fd = fd]
<1>2. \/ Refuse(call) /\ ~CHK_FD(fd, sm)
      \/ CHK_FD(fd, sm) /\ CLOSE_FD({fd}) /\ reply' = call
  BY DEF sfs_close
<1>3. AC!Connected(sm, fd) <=> CHK_FD(fd, sm)
  BY ConnectedCheck
<1> HIDE DEF call
<1>4. CASE Refuse(call) /\ ~CHK_FD(fd, sm)
  BY <1>3, <1>4, RefuseImplements DEF AC!Close, call
<1>5. CASE CHK_FD(fd, sm) /\ CLOSE_FD({fd}) /\ reply' = call
  <2>1. Keeps /\ fd \in FDs
    BY <1>5, CloseRights DEF RInv, CHK_FD
  <2>2. \A g \in FDs : ConnTable'[g] = IF g = fd THEN NULL ELSE ConnTable[g]
    <3>1. \A g \in FDs \ {fd} : fd_cache'[g] = fd_cache[g]
      BY <1>5 DEF CLOSE_FD
    <3>2. fd_cache'[fd] = NULL
      BY <1>5, <2>1 DEF CLOSE_FD
    <3>3. ConnTable'[fd] = NULL
      BY <2>1, <3>2 DEF ConnTable, Connection
    <3> QED BY <2>1, <3>1, <3>3, KeepsTables
  <2>3. ConnTable' = [ConnTable EXCEPT ![fd] = NULL]
    BY <2>2 DEF ConnTable
  <2> QED BY <1>3, <1>5, <2>1, <2>3, KeepsTables DEF AC!Close, call
<1> QED BY <1>2, <1>4, <1>5
-----------------------------------------------------------------------------
(* Opening a file *)

\* The descriptor the back-end gives is free; it becomes a connection of the caller.
LEMMA ConnectImplements ==
    ASSUME RInv, NEW call, call.name \in Names, NEW r \in cfs_open(call.name), NEW p, p # NULL,
           open_back_end_file(call, r, p),
           perm_pool'[p].sm_id = call.sm, file_pool'[perm_pool'[p].file].name = call.name,
           \A fd \in FDs : fd_cache'[fd] = fd_cache[fd] => ConnTable'[fd] = ConnTable[fd]
    PROVE  AC!Connect(call)
<1>1. CASE r.fd \in FDs
  <2> DEFINE fd == r.fd
             c  == [sm |-> call.sm, name |-> call.name]
  <2>1. /\ reply' = [call EXCEPT !.fd = fd, !.back = call.name]
        /\ fd_cache' = [fd_cache EXCEPT ![fd] = p]
    BY <1>1 DEF open_back_end_file
  <2>2. fd_cache[fd] = NULL
    BY <1>1, CfsOpenFacts DEF RInv
  <2>3. ConnTable[fd] = NULL
    BY <1>1, <2>2 DEF ConnTable, Connection
  <2>4. DOMAIN fd_cache = FDs
    BY DEF RInv, IInv, TypeOK
  <2>5. fd_cache'[fd] = p /\ \A g \in FDs \ {fd} : fd_cache'[g] = fd_cache[g]
    BY <1>1, <2>1, <2>4
  <2>6. ConnTable'[fd] = c
    BY <1>1, <2>5 DEF ConnTable, Connection
  <2>7. \A g \in FDs \ {fd} : ConnTable'[g] = ConnTable[g]
    BY <2>5
  <2>8. ConnTable' = [ConnTable EXCEPT ![fd] = c]
    BY <1>1, <2>6, <2>7 DEF ConnTable
  <2> QED BY <1>1, <2>1, <2>3, <2>8 DEF AC!Connect
<1>2. CASE r.fd \notin FDs
  <2>1. reply' = [call EXCEPT !.ok = FALSE] /\ UNCHANGED fd_cache
    BY <1>2 DEF open_back_end_file, connVars
  <2>2. ConnTable' = ConnTable
    BY <2>1 DEF ConnTable
  <2> QED BY <2>1, <2>2 DEF AC!Connect
<1> QED BY <1>1, <1>2

LEMMA OpenExistingImplements ==
    ASSUME RInv, NEW call, NEW sm \in SMs, NEW name \in Names, NEW flags,
           call.sm = sm, call.name = name, call.flags = flags,
           NEW p, p = two_phase_lookup(name, flags, sm), p # NULL,
           sfs_open_existing(call, p)
    PROVE  AC!OpenExisting(call) /\ EntriesProper'
<1>1. PICK r \in cfs_open(call.name) :
        /\ file_pool' = [file_pool EXCEPT ![perm_pool[p].file].open_count = counted(@, r)]
        /\ UNCHANGED <<perm_pool, open_file_list>>
        /\ open_back_end_file(call, r, p)
  BY DEF sfs_open_existing
<1>2. /\ perm_pool[p].file \in Files /\ file_pool[perm_pool[p].file].name = name
      /\ perm_pool[p].sm_id = sm
  BY TwoPhase DEF RInv
<1>3. file_pool \in [Files -> [name : Names \union {NULL}, open_count : Int, acl : Seq(Perms)]]
  BY DEF RInv, IInv, TypeOK
<1>4. Keeps
  BY <1>1, <1>2, <1>3 DEF Keeps
<1>5. AC!May(sm, name, flags)
  BY MayLookup
<1>6. AC!Connect(call)
  <2>1. perm_pool'[p].sm_id = call.sm /\ file_pool'[perm_pool'[p].file].name = call.name
    BY <1>1, <1>2, <1>3
  <2> QED BY <1>1, <1>4, <2>1, KeepsTables, ConnectImplements
<1> QED BY <1>4, <1>5, <1>6, KeepsTables DEF AC!OpenExisting

LEMMA TableFormNext == IInv' => TableForm'
BY TableFormHolds, PTL

\* The new table: a creator's entry on a file that had none.
LEMMA OpenNewImplements ==
    ASSUME RInv, IInv', NEW call, NEW sm \in SMs, NEW name \in Names,
           call.sm = sm, call.name = name, call.create,
           LOOKUP_FILE(name) = NULL, FreePerms # <<>>, FreeFiles # <<>>,
           sfs_open_new(call)
    PROVE  AC!Create(call) /\ EntriesProper'
<1> PICK file, p : file = Head(FreeFiles) /\ p = Head(FreePerms)
  OBVIOUS
<1>1. PICK r \in cfs_open(name) :
        /\ open_file_list' = <<file>> \o open_file_list
        /\ file_pool' = [file_pool EXCEPT ![file] =
               [name |-> name, open_count |-> counted(0, r), acl |-> <<p>>]]
        /\ perm_pool' = [perm_pool EXCEPT ![p] =
               [sm_id |-> sm, flags |-> SFS_CREATOR, file |-> file]]
        /\ open_back_end_file(call, r, p)
  BY DEF sfs_open_new
<1>2. /\ file \in ToSet(FreeFiles) /\ p \in ToSet(FreePerms)
      /\ file \in Files /\ p \in Perms
  BY FreeFacts, ListHead, ListTail DEF RInv, IInv
<1>3. file \notin Listed /\ \A f \in Listed : p \notin Acl(f)
  BY <1>2 DEF RInv, IInv, SlotsConserved
<1>4. /\ file_pool \in [Files -> [name : Names \union {NULL}, open_count : Int, acl : Seq(Perms)]]
      /\ perm_pool \in [Perms -> [sm_id : SMs \union {NULL}, flags : Flags, file : Files \union {NULL}]]
      /\ open_file_list \in Seq(Files)
  BY DEF RInv, IInv, TypeOK
<1>5. Listed' = Listed \union {file}
  BY <1>1, <1>2, <1>4, ListCons DEF Listed
<1>6. Listed \subseteq Files /\ \A f \in Listed : Acl(f) \subseteq Perms
  BY ListedFacts DEF RInv, IInv
<1>7. \A f \in Listed : file_pool[f].name # name
  <2>1. NULL \notin Listed
    BY <1>6, NullAssumption DEF NullAssumption
  <2> QED BY <2>1, LookupFile DEF RInv, IInv
<1>8. /\ file_pool'[file].name = name /\ file_pool'[file].acl = <<p>>
      /\ \A f \in Listed : file_pool'[f] = file_pool[f]
  BY <1>1, <1>2, <1>3, <1>4, <1>6
<1>9. /\ perm_pool'[p].sm_id = sm /\ perm_pool'[p].flags = SFS_CREATOR /\ perm_pool'[p].file = file
      /\ \A f \in Listed : \A q \in Acl(f) : perm_pool'[q] = perm_pool[q]
  BY <1>1, <1>2, <1>3, <1>4, <1>6
<1>10. Acl(file)' = {p} /\ \A f \in Listed : Acl(f)' = Acl(f)
  BY <1>2, <1>8, ListSingle DEF Acl
<1>11. SFS_CREATOR # SFS_NIL
  BY DEF SFS_CREATOR, SFS_NIL
<1>12. EntriesProper'
  <2>1. \A f \in Listed' : \A q \in Acl(f)' :
            perm_pool'[q].sm_id \in SMs /\ perm_pool'[q].flags # SFS_NIL
    BY <1>5, <1>9, <1>10, <1>11 DEF RInv, EntriesProper
  <2> QED BY <2>1 DEF EntriesProper
<1>13. ASSUME NEW n, n # name PROVE \A id : Rights(id, n)' = Rights(id, n)
  <2>1. {f \in Listed' : file_pool'[f].name = n} = {f \in Listed : file_pool[f].name = n}
    BY <1>5, <1>8, <1>13
  <2>2. \A f \in Listed : ToSet(file_pool'[f].acl) = Acl(f)
    BY <1>10 DEF Acl
  <2> QED BY <1>9, <2>1, <2>2, SameRights
<1>14. \A id : Rights(id, name)' = IF id = sm THEN SFS_CREATOR ELSE SFS_NIL
  <2>1. TableForm'
    BY TableFormNext
  <2>2. Rights(sm, name)' = SFS_CREATOR
    <3>1. \A f \in Listed' : \A q \in Acl(f)' :
              Rights(perm_pool[q].sm_id, file_pool[f].name)' = perm_pool'[q].flags
      BY <2>1 DEF TableForm
    <3>2. Rights(perm_pool[p].sm_id, file_pool[file].name)' = SFS_CREATOR
      BY <1>5, <1>9, <1>10, <3>1
    <3> QED BY <1>8, <1>9, <3>2 DEF Rights, Entries
  <2>3. ASSUME NEW id, id # sm
        PROVE  Rights(id, name)' = SFS_NIL
    <3>1. \A f \in Listed' : file_pool'[f].name = name => \A q \in Acl(f)' : perm_pool'[q].sm_id # id
      BY <1>5, <1>7, <1>8, <1>9, <1>10, <2>3
    <3> QED BY <2>1, <3>1 DEF TableForm
  <2> QED BY <2>2, <2>3
<1>15. ~AC!Exists(name)
  BY ExistsLookup
<1>16. \A id \in SMs : RightsTable[name][id] = SFS_NIL
  BY <1>15 DEF AC!Exists
<1>17. RightsTable' = [RightsTable EXCEPT ![name][sm] = SFS_CREATOR]
  <2>1. \A id \in SMs \ {sm} : Rights(id, name)' = Rights(id, name)
    BY <1>14, <1>16, TableAt
  <2> QED BY <1>13, <1>14, <2>1, TableEntry
<1>18. ASSUME NEW fd \in FDs, fd_cache'[fd] = fd_cache[fd]
       PROVE  ConnTable'[fd] = ConnTable[fd]
  <2>1. fd_cache[fd] # NULL =>
            LET q == fd_cache[fd]
                f == perm_pool[q].file
            IN  perm_pool'[q] = perm_pool[q] /\ file_pool'[f] = file_pool[f]
    BY <1>8, <1>9, ConnForm
  <2>2. Connection(fd)' = Connection(fd)
    BY <1>18, <2>1, SameConnection
  <2> QED BY <2>2 DEF ConnTable
<1>19. AC!Connect(call)
  <2>1. p # NULL
    BY <1>2, NullAssumption DEF NullAssumption
  <2> QED BY <1>1, <1>8, <1>9, <1>18, <2>1, ConnectImplements, ZenonT(40)
<1> QED BY <1>12, <1>15, <1>17, <1>19 DEF AC!Create

LEMMA OpenImplements ==
    ASSUME RInv, IInv', NEW sm \in SMs, NEW name \in Names, NEW flags \in Wanted,
           NEW create \in BOOLEAN, sfs_open(sm, name, flags, create)
    PROVE  AC!Open(sm, name, flags, create) /\ EntriesProper'
<1> DEFINE call == [NoReply EXCEPT !.op = "open", !.sm = sm, !.name = name,
                                   !.flags = flags, !.create = create]
           p    == two_phase_lookup(name, flags, sm)
<1>1. call.sm = sm /\ call.name = name /\ call.flags = flags /\ call.create = create
  BY DEF NoReply
<1>2. AC!May(sm, name, flags) <=> p # NULL
  BY MayLookup
<1>3. \/ Refuse(call) /\ (p = NULL \/ LOOKUP_FILE(name) = NULL)
      \/ LOOKUP_FILE(name) = NULL /\ create /\ FreePerms # <<>> /\ FreeFiles # <<>>
           /\ sfs_open_new(call)
      \/ p # NULL /\ sfs_open_existing(call, p)
  BY DEF sfs_open
<1>4. LOOKUP_FILE(name) = NULL => p = NULL
  BY DEF two_phase_lookup
<1> HIDE DEF call, p
<1>5. CASE Refuse(call) /\ (p = NULL \/ LOOKUP_FILE(name) = NULL)
  BY <1>2, <1>4, <1>5, RefuseImplements DEF AC!Open, call
<1>6. CASE LOOKUP_FILE(name) = NULL /\ create /\ FreePerms # <<>> /\ FreeFiles # <<>>
             /\ sfs_open_new(call)
  <2>1. AC!Create(call) /\ EntriesProper'
    BY <1>1, <1>6, OpenNewImplements
  <2> QED BY <2>1 DEF AC!Open, call
<1>7. CASE p # NULL /\ sfs_open_existing(call, p)
  <2>1. AC!OpenExisting(call) /\ EntriesProper'
    BY <1>1, <1>7, OpenExistingImplements DEF p
  <2> QED BY <2>1 DEF AC!Open, call
<1> QED BY <1>3, <1>5, <1>6, <1>7
-----------------------------------------------------------------------------
(* Removing a file *)

\* open_count is zero exactly if nobody has a connection to a file of that name.
LEMMA NotOpen ==
    ASSUME RInv, NEW f \in Listed
    PROVE  file_pool[f].open_count = 0 <=>
               \A fd \in FDs : ConnTable[fd] # NULL => ConnTable[fd].name # file_pool[f].name
<1>1. IsFiniteSet(Connections(f))
  <2>1. Connections(f) = ConnsIn(fd_cache, perm_pool, f)
    BY DEF Connections, ConnsIn
  <2> QED BY <2>1, ConnsFinite
<1>2. file_pool[f].open_count = 0 <=> Connections(f) = {}
  BY <1>1, FS_EmptySet DEF RInv, IInv, OpenCountExact
<1>3. ASSUME NEW fd \in FDs
      PROVE  fd \in Connections(f) <=> ConnTable[fd] # NULL /\ ConnTable[fd].name = file_pool[f].name
  <2>1. CASE fd_cache[fd] = NULL
    BY <2>1, ConnForm, ConnAt DEF Connections
  <2>2. CASE fd_cache[fd] # NULL
    <3> DEFINE g == perm_pool[fd_cache[fd]].file
    <3>1. g \in Listed /\ ConnTable[fd] # NULL /\ ConnTable[fd].name = file_pool[g].name
      BY <2>2, ConnForm, ConnAt
    <3>2. g = f <=> file_pool[g].name = file_pool[f].name
      BY <3>1 DEF RInv, IInv, LookupsUnambiguous
    <3> QED BY <2>2, <3>1, <3>2 DEF Connections
  <2> QED BY <2>1, <2>2
<1> QED BY <1>2, <1>3 DEF Connections

LEMMA RemoveImplements ==
    ASSUME RInv, IInv', NEW sm \in SMs, NEW name \in Names, sfs_remove(sm, name)
    PROVE  AC!Remove(sm, name) /\ EntriesProper'
<1> DEFINE call == [NoReply EXCEPT !.op = "remove", !.sm = sm, !.name = name]
           free == \A fd \in FDs : ConnTable[fd] # NULL => ConnTable[fd].name # name
<1> PICK p, cur : p = two_phase_lookup(name, SFS_ROOT, sm) /\ cur = perm_pool[p].file
  OBVIOUS
<1>1. \/ Refuse(call) /\ (p = NULL \/ file_pool[cur].open_count # 0)
      \/ /\ p # NULL
         /\ file_pool[cur].open_count = 0
         /\ open_file_list' = Unlink(open_file_list, cur)
         /\ perm_pool' = [q \in Perms |-> IF q \in Acl(cur) THEN NoPerm ELSE perm_pool[q]]
         /\ file_pool' = [file_pool EXCEPT ![cur] = NoFile]
         /\ \E r \in cfs_remove(name) : reply' = [call EXCEPT !.ok = r.ok]
         /\ UNCHANGED <<INIT_DONE, connVars>>
  BY DEF sfs_remove, Acl
<1> HIDE DEF call
<1>2. AC!May(sm, name, SFS_ROOT) <=> p # NULL
  BY MayLookup
<1>3. p # NULL => cur \in Listed /\ cur \in Files /\ file_pool[cur].name = name
  BY TwoPhase DEF RInv
<1>4. p # NULL => (file_pool[cur].open_count = 0 <=> free)
  BY <1>3, NotOpen
<1>5. CASE Refuse(call) /\ (p = NULL \/ file_pool[cur].open_count # 0)
  BY <1>2, <1>4, <1>5, RefuseImplements DEF AC!Remove, call
<1>6. CASE /\ p # NULL
           /\ file_pool[cur].open_count = 0
           /\ open_file_list' = Unlink(open_file_list, cur)
           /\ perm_pool' = [q \in Perms |-> IF q \in Acl(cur) THEN NoPerm ELSE perm_pool[q]]
           /\ file_pool' = [file_pool EXCEPT ![cur] = NoFile]
           /\ \E r \in cfs_remove(name) : reply' = [call EXCEPT !.ok = r.ok]
           /\ UNCHANGED <<INIT_DONE, connVars>>
  <2>1. Listed' = Listed \ {cur}
    <3>1. open_file_list \in Seq(Files) /\ IsInjective(open_file_list) /\ cur \in ToSet(open_file_list)
      BY <1>3, <1>6 DEF RInv, IInv, TypeOK, SlotsConserved, Listed
    <3>2. ToSet(Unlink(open_file_list, cur)) = ToSet(open_file_list) \ {cur}
      BY <3>1, UnlinkFacts
    <3> QED BY <1>6, <3>2 DEF Listed
  <2>2. /\ file_pool \in [Files -> [name : Names \union {NULL}, open_count : Int, acl : Seq(Perms)]]
        /\ Listed \subseteq Files /\ \A f \in Listed : Acl(f) \subseteq Perms
    BY ListedFacts DEF RInv, IInv, TypeOK
  <2>3. \A g \in Listed \ {cur} : file_pool'[g] = file_pool[g] /\ Acl(g)' = Acl(g)
    BY <1>6, <2>2 DEF Acl
  <2>4. \A g \in Listed \ {cur} : \A q \in Acl(g) : perm_pool'[q] = perm_pool[q]
    BY <1>3, <1>6, <2>2 DEF RInv, IInv, SlotsConserved
  <2>5. EntriesProper'
    <3>1. \A g \in Listed' : \A q \in Acl(g)' :
              perm_pool'[q].sm_id \in SMs /\ perm_pool'[q].flags # SFS_NIL
      BY <2>1, <2>3, <2>4 DEF RInv, EntriesProper
    <3> QED BY <3>1 DEF EntriesProper
  <2>6. \A n \in Names \ {name} : \A id : Rights(id, n)' = Rights(id, n)
    <3>1. \A q \in Perms \ Acl(cur) : perm_pool'[q] = perm_pool[q]
      BY <1>6
    <3>2. cur \in Listed /\ cur \notin Listed' /\ name = file_pool[cur].name
      BY <1>3, <1>6, <2>1
    <3> QED BY <2>1, <2>3, <3>1, <3>2, OtherRights DEF RInv
  <2>7. \A id : Rights(id, name)' = SFS_NIL
    <3>1. \A g \in Listed' : file_pool'[g].name # name
      <4>1. \A g \in Listed : file_pool[g].name = name => g = cur
        BY <1>3, <1>6 DEF RInv, IInv, LookupsUnambiguous
      <4> QED BY <2>1, <2>3, <4>1
    <3> QED BY <3>1, TableFormNext DEF TableForm
  <2>8. RightsTable' = [RightsTable EXCEPT ![name] = [id \in SMs |-> SFS_NIL]]
    <3> DEFINE row == [id \in SMs |-> SFS_NIL]
    <3>1. row = [id \in SMs |-> row[id]] /\ \A id \in SMs : row[id] = SFS_NIL
      OBVIOUS
    <3> HIDE DEF row
    <3>2. RightsTable' = [RightsTable EXCEPT ![name] = row]
      BY <2>6, <2>7, <3>1, TableRow
    <3> QED BY <3>2 DEF row
  <2>9. ConnTable' = ConnTable
    <3>1. ASSUME NEW fd \in FDs PROVE Connection(fd)' = Connection(fd)
      <4>1. fd_cache[fd] # NULL => perm_pool[fd_cache[fd]].file # cur
        BY <1>3, <1>4, <1>6, ConnForm, ConnAt
      <4>2. UNCHANGED fd_cache
        BY <1>6 DEF connVars
      <4> QED BY <2>3, <2>4, <4>1, <4>2, ConnForm, SameConnection
    <3> QED BY <3>1, SameTables
  <2>10. PICK ok \in BOOLEAN : reply' = [call EXCEPT !.ok = ok]
    BY <1>6, RemoveFacts
  <2> QED BY <1>2, <1>4, <1>6, <2>5, <2>8, <2>9, <2>10 DEF AC!Remove, call
<1> QED BY <1>1, <1>5, <1>6
-----------------------------------------------------------------------------
(* Changing the rights on a file *)

\* What the table says about an SM is what its entry on the listed file says.
LEMMA EntryInTable ==
    ASSUME RInv, NEW file \in Listed, NEW id \in SMs
    PROVE  LET p == LOOKUP_PERM(file, id)
               n == file_pool[file].name
           IN  /\ n \in Names
               /\ p = NULL => /\ RightsTable[n][id] = SFS_NIL
                              /\ \A q \in Acl(file) : perm_pool[q].sm_id # id
               /\ p # NULL => /\ p \in Acl(file) /\ p \in Perms
                              /\ perm_pool[p].sm_id = id /\ perm_pool[p].file = file
                              /\ \A q \in Acl(file) : perm_pool[q].sm_id = id => q = p
                              /\ RightsTable[n][id] = perm_pool[p].flags
                              /\ perm_pool[p].flags # SFS_NIL
<1> DEFINE p == LOOKUP_PERM(file, id)
           n == file_pool[file].name
<1>1. n \in Names
  BY DEF RInv, IInv, ListedNamed
<1>2. TableForm
  BY TableFormHolds DEF RInv
<1>3. NULL \notin Perms
  BY NullAssumption DEF NullAssumption
<1>4. Acl(file) \subseteq Perms
  BY ListedFacts DEF RInv, IInv
<1>5. CASE p = NULL
  <2>1. \A q \in Acl(file) : perm_pool[q].sm_id # id
    BY <1>3, <1>4, <1>5, LookupPerm DEF RInv, IInv
  <2>2. \A f \in Listed : file_pool[f].name = n => f = file
    BY DEF RInv, IInv, LookupsUnambiguous
  <2>3. Rights(id, n) = SFS_NIL
    BY <1>2, <2>1, <2>2 DEF TableForm
  <2> QED BY <1>1, <1>5, <2>1, <2>3, TableAt
<1>6. CASE p # NULL
  <2>1. p \in Acl(file) /\ perm_pool[p].sm_id = id
    BY <1>6, LookupPerm DEF RInv, IInv
  <2> HIDE DEF p
  <2>2. perm_pool[p].file = file /\ \A q \in Acl(file) : perm_pool[q].sm_id = id => q = p
    BY <2>1 DEF RInv, IInv, LookupsUnambiguous
  <2>3. Rights(id, n) = perm_pool[p].flags /\ perm_pool[p].flags # SFS_NIL
    BY <1>2, <2>1 DEF TableForm, RInv, EntriesProper
  <2> QED BY <1>1, <1>4, <1>6, <2>1, <2>2, <2>3, TableAt DEF p
<1> QED BY <1>5, <1>6

\* The rights of an SM on a file stay if its entry does.
LEMMA SameEntry ==
    ASSUME IInv, NEW file \in Listed, Listed' = Listed,
           \A f \in Listed : file_pool'[f].name = file_pool[f].name, NEW k,
           {q \in Acl(file)' : perm_pool'[q].sm_id = k} = {q \in Acl(file) : perm_pool[q].sm_id = k},
           \A q \in Acl(file) : perm_pool[q].sm_id = k => perm_pool'[q] = perm_pool[q]
    PROVE  Rights(k, file_pool[file].name)' = Rights(k, file_pool[file].name)
<1> DEFINE E1 == {q \in Acl(file) : perm_pool[q].sm_id = k}
<1> PICK name : name = file_pool[file].name
  OBVIOUS
<1>1. {f \in Listed : file_pool[f].name = name} = {file}
  BY DEF IInv, LookupsUnambiguous
<1>2. {f \in Listed' : file_pool'[f].name = name} = {file}
  BY <1>1
<1>3. Entries(k, name) = E1
  BY <1>1 DEF Entries
<1>4. Entries(k, name)' = E1
  BY <1>2 DEF Entries
<1>5. Rights(k, name) = UNION {perm_pool[q].flags : q \in E1}
  BY <1>3 DEF Rights
<1>6. Rights(k, name)' = UNION {perm_pool'[q].flags : q \in E1}
  BY <1>4 DEF Rights
<1>7. Rights(k, name)' = Rights(k, name)
  BY <1>5, <1>6
<1> QED BY <1>7

\* The flags of an entry are replaced.
LEMMA OverrideImplements ==
    ASSUME RInv, IInv', NEW call, NEW file \in Listed, NEW id \in SMs, NEW flags, flags # SFS_NIL,
           call.name = file_pool[file].name, call.id = id, call.flags = flags,
           NEW p, p = LOOKUP_PERM(file, id), p # NULL,
           perm_pool' = [perm_pool EXCEPT ![p].flags = flags], reply' = call,
           UNCHANGED <<file_pool, open_file_list, connVars>>
    PROVE  AC!Assign(call) /\ EntriesProper'
<1> DEFINE name == file_pool[file].name
<1>1. /\ p \in Acl(file) /\ p \in Perms /\ perm_pool[p].sm_id = id /\ name \in Names
      /\ \A q \in Acl(file) : perm_pool[q].sm_id = id => q = p
  BY EntryInTable
<1>2. /\ perm_pool \in [Perms -> [sm_id : SMs \union {NULL}, flags : Flags, file : Files \union {NULL}]]
      /\ Listed \subseteq Files /\ \A f \in Listed : Acl(f) \subseteq Perms
  BY ListedFacts DEF RInv, IInv, TypeOK
<1>3. /\ \A q \in Perms : perm_pool'[q].sm_id = perm_pool[q].sm_id /\ perm_pool'[q].file = perm_pool[q].file
      /\ \A q \in Perms \ {p} : perm_pool'[q] = perm_pool[q]
      /\ perm_pool'[p].flags = flags
  BY <1>1, <1>2
<1>4. Listed' = Listed /\ \A f \in Listed : Acl(f)' = Acl(f) /\ file_pool'[f] = file_pool[f]
  BY DEF Listed, Acl
<1>5. EntriesProper'
  <2>1. \A f \in Listed' : \A q \in Acl(f)' :
            perm_pool'[q].sm_id \in SMs /\ perm_pool'[q].flags # SFS_NIL
    BY <1>2, <1>3, <1>4 DEF RInv, EntriesProper
  <2> QED BY <2>1 DEF EntriesProper
<1>6. \A n \in Names \ {name} : \A k : Rights(k, n)' = Rights(k, n)
  <2>1. \A q \in Perms \ Acl(file) : perm_pool'[q] = perm_pool[q]
    BY <1>1, <1>3
  <2> QED BY <1>4, <2>1, OtherRights DEF RInv
<1>7. TableForm /\ TableForm'
  BY TableFormHolds, TableFormNext DEF RInv
<1>8. Rights(id, name)' = flags
  <2>1. \A f \in Listed' : \A q \in Acl(f)' :
            Rights(perm_pool[q].sm_id, file_pool[f].name)' = perm_pool'[q].flags
    BY <1>7 DEF TableForm
  <2> QED BY <1>1, <1>3, <1>4, <2>1
<1>9. ASSUME NEW k \in SMs \ {id} PROVE Rights(k, name)' = Rights(k, name)
  <2>1. {q \in Acl(file)' : perm_pool'[q].sm_id = k} = {q \in Acl(file) : perm_pool[q].sm_id = k}
    BY <1>2, <1>3, <1>4
  <2>2. \A q \in Acl(file) : perm_pool[q].sm_id = k => perm_pool'[q] = perm_pool[q]
    BY <1>1, <1>2, <1>3, <1>9
  <2> QED BY <1>4, <2>1, <2>2, SameEntry DEF RInv
<1>10. RightsTable' = [RightsTable EXCEPT ![name][id] = flags]
  BY <1>1, <1>6, <1>8, <1>9, TableEntry
<1>11. ConnTable' = ConnTable
  <2>1. UNCHANGED fd_cache
    BY DEF connVars
  <2>2. ASSUME NEW fd \in FDs PROVE Connection(fd)' = Connection(fd)
    BY <1>2, <1>3, <1>4, <2>1, ConnForm, SameConnection
  <2> QED BY <2>2, SameTables
<1> QED BY <1>5, <1>10, <1>11 DEF AC!Assign

\* An entry is appended.
LEMMA AppendImplements ==
    ASSUME RInv, IInv', NEW call, NEW file \in Listed, NEW id \in SMs, NEW flags, flags # SFS_NIL,
           call.name = file_pool[file].name, call.id = id, call.flags = flags,
           LOOKUP_PERM(file, id) = NULL, FreePerms # <<>>,
           NEW new, new = Head(FreePerms),
           perm_pool' = [perm_pool EXCEPT ![new] =
               [sm_id |-> id, flags |-> flags, file |-> file]],
           file_pool' = [file_pool EXCEPT ![file].acl = Append(file_pool[file].acl, new)],
           reply' = call, UNCHANGED <<open_file_list, connVars>>
    PROVE  AC!Assign(call) /\ EntriesProper'
<1> PICK name : name = file_pool[file].name
  OBVIOUS
<1>1. name \in Names /\ \A q \in Acl(file) : perm_pool[q].sm_id # id
  BY EntryInTable
<1>2. /\ perm_pool \in [Perms -> [sm_id : SMs \union {NULL}, flags : Flags, file : Files \union {NULL}]]
      /\ file_pool \in [Files -> [name : Names \union {NULL}, open_count : Int, acl : Seq(Perms)]]
      /\ Listed \subseteq Files /\ \A f \in Files : Acl(f) \subseteq Perms
  BY ListedFacts DEF RInv, IInv, TypeOK
<1>3. new \in Perms /\ new \in ToSet(FreePerms) /\ \A f \in Listed : new \notin Acl(f)
  <2>1. new \in Perms /\ new \in ToSet(FreePerms)
    BY FreeFacts, ListHead, ListTail DEF RInv, IInv
  <2> QED BY <2>1 DEF RInv, IInv, SlotsConserved
<1>4. /\ \A q \in Perms \ {new} : perm_pool'[q] = perm_pool[q]
      /\ perm_pool'[new].sm_id = id /\ perm_pool'[new].flags = flags
  BY <1>2, <1>3
<1>5. /\ Listed' = Listed
      /\ \A f \in Listed : file_pool'[f].name = file_pool[f].name
      /\ \A f \in Listed \ {file} : file_pool'[f] = file_pool[f]
      /\ file_pool'[file].acl = Append(file_pool[file].acl, new)
  BY <1>2 DEF Listed
<1>6. Acl(file)' = Acl(file) \union {new} /\ \A f \in Listed \ {file} : Acl(f)' = Acl(f)
  <2>1. file_pool[file].acl \in Seq(Perms)
    BY <1>2
  <2> QED BY <1>3, <1>5, <2>1, ListAppend DEF Acl
<1>7. EntriesProper'
  <2>1. \A f \in Listed' : \A q \in Acl(f)' :
            perm_pool'[q].sm_id \in SMs /\ perm_pool'[q].flags # SFS_NIL
    <3>1. \A f \in Listed : \A q \in Acl(f) :
              perm_pool'[q].sm_id \in SMs /\ perm_pool'[q].flags # SFS_NIL
      BY <1>2, <1>3, <1>4 DEF RInv, EntriesProper
    <3> QED BY <1>4, <1>5, <1>6, <3>1
  <2> QED BY <2>1 DEF EntriesProper
<1>8. \A n \in Names \ {name} : \A k : Rights(k, n)' = Rights(k, n)
  <2>1. \A q \in Perms \ Acl(file) : perm_pool'[q] = perm_pool[q] \/ q \in ToSet(FreePerms)
    BY <1>3, <1>4
  <2> QED BY <1>5, <2>1, OtherRights DEF RInv
<1>9. Rights(id, name)' = flags
  <2>1. \A f \in Listed' : \A q \in Acl(f)' :
            Rights(perm_pool[q].sm_id, file_pool[f].name)' = perm_pool'[q].flags
    BY TableFormNext DEF TableForm
  <2>2. Rights(perm_pool[new].sm_id, file_pool[file].name)' = flags
    BY <1>4, <1>5, <1>6, <2>1
  <2> QED BY <1>4, <1>5, <2>2
<1>10. ASSUME NEW k \in SMs \ {id} PROVE Rights(k, name)' = Rights(k, name)
  <2>1. {q \in Acl(file)' : perm_pool'[q].sm_id = k} = {q \in Acl(file) : perm_pool[q].sm_id = k}
    BY <1>2, <1>3, <1>4, <1>6, <1>10
  <2>2. \A q \in Acl(file) : perm_pool[q].sm_id = k => perm_pool'[q] = perm_pool[q]
    BY <1>2, <1>3, <1>4
  <2>3. Rights(k, file_pool[file].name)' = Rights(k, file_pool[file].name)
    BY <1>5, <2>1, <2>2, SameEntry DEF RInv
  <2> QED BY <1>5, <2>3
<1>11. RightsTable' = [RightsTable EXCEPT ![name][id] = flags]
  BY <1>1, <1>8, <1>9, <1>10, TableEntry
<1>12. ConnTable' = ConnTable
  <2>1. UNCHANGED fd_cache
    BY DEF connVars
  <2>2. ASSUME NEW fd \in FDs PROVE Connection(fd)' = Connection(fd)
    <3>1. fd_cache[fd] # NULL => perm_pool'[fd_cache[fd]] = perm_pool[fd_cache[fd]]
      BY <1>2, <1>3, <1>4, ConnForm
    <3> QED BY <1>5, <2>1, <3>1, ConnForm, SameConnection
  <2> QED BY <2>2, SameTables
<1> QED BY <1>7, <1>11, <1>12 DEF AC!Assign

\* An entry is freed, after its descriptors have been closed.
LEMMA RevokeImplements ==
    ASSUME RInv, IInv', NEW call, NEW file \in Listed, NEW id \in SMs,
           call.name = file_pool[file].name, call.id = id,
           NEW cur, cur = LOOKUP_PERM(file, id), cur # NULL, ~IsCreator(cur),
           CLOSE_FD({fd \in FDs : fd_cache[fd] = cur}),
           NEW count, file_pool' = [file_pool EXCEPT
               ![file].open_count = count, ![file].acl = UnlinkPerm(file_pool[file].acl, cur)],
           perm_pool' = [perm_pool EXCEPT ![cur] = NoPerm],
           reply' = call, UNCHANGED open_file_list
    PROVE  AC!Revoke(call) /\ EntriesProper'
<1> PICK name : name = file_pool[file].name
  OBVIOUS
<1>1. /\ name \in Names /\ cur \in Acl(file) /\ cur \in Perms
      /\ perm_pool[cur].sm_id = id /\ perm_pool[cur].file = file
      /\ \A q \in Acl(file) : perm_pool[q].sm_id = id => q = cur
  BY EntryInTable
<1>2. /\ perm_pool \in [Perms -> [sm_id : SMs \union {NULL}, flags : Flags, file : Files \union {NULL}]]
      /\ file_pool \in [Files -> [name : Names \union {NULL}, open_count : Int, acl : Seq(Perms)]]
      /\ Listed \subseteq Files /\ \A f \in Files : Acl(f) \subseteq Perms
  BY ListedFacts DEF RInv, IInv, TypeOK
<1>3. \A q \in Perms \ {cur} : perm_pool'[q] = perm_pool[q]
  BY <1>1, <1>2
<1>4. /\ Listed' = Listed
      /\ \A f \in Listed : file_pool'[f].name = file_pool[f].name
      /\ \A f \in Listed \ {file} : file_pool'[f] = file_pool[f]
      /\ file_pool'[file].acl = UnlinkPerm(file_pool[file].acl, cur)
  BY <1>2 DEF Listed
<1>5. Acl(file)' = Acl(file) \ {cur} /\ \A f \in Listed \ {file} : Acl(f)' = Acl(f)
  <2>1. /\ file_pool[file].acl \in Seq(Perms) /\ IsInjective(file_pool[file].acl)
        /\ cur \in ToSet(file_pool[file].acl)
    BY <1>1, <1>2 DEF RInv, IInv, SlotsConserved, Acl
  <2>2. Head(file_pool[file].acl) # cur
    BY DEF RInv, IInv, HeadIsCreator
  <2>3. file_pool'[file].acl = Unlink(file_pool[file].acl, cur)
    BY <1>4, <2>2 DEF UnlinkPerm
  <2>4. ToSet(Unlink(file_pool[file].acl, cur)) = ToSet(file_pool[file].acl) \ {cur}
    BY <2>1, UnlinkFacts
  <2> QED BY <1>4, <2>3, <2>4 DEF Acl
<1>6. EntriesProper'
  <2>1. \A f \in Listed \ {file} : cur \notin Acl(f)
    BY <1>1 DEF RInv, IInv, SlotsConserved
  <2>2. \A f \in Listed' : \A q \in Acl(f)' :
            perm_pool'[q].sm_id \in SMs /\ perm_pool'[q].flags # SFS_NIL
    BY <1>2, <1>3, <1>4, <1>5, <2>1 DEF RInv, EntriesProper
  <2> QED BY <2>2 DEF EntriesProper
<1>7. \A n \in Names \ {name} : \A k : Rights(k, n)' = Rights(k, n)
  <2>1. \A q \in Perms \ Acl(file) : perm_pool'[q] = perm_pool[q]
    BY <1>1, <1>3
  <2> QED BY <1>4, <2>1, OtherRights DEF RInv
<1>8. Rights(id, name)' = SFS_NIL
  <2>1. \A f \in Listed : file_pool[f].name = name => f = file
    BY DEF RInv, IInv, LookupsUnambiguous
  <2>2. \A q \in Acl(file)' : perm_pool'[q].sm_id # id
    BY <1>1, <1>2, <1>3, <1>5
  <2>3. \A f \in Listed' : file_pool'[f].name = name => \A q \in Acl(f)' : perm_pool'[q].sm_id # id
    BY <1>4, <2>1, <2>2
  <2> QED BY <2>3, TableFormNext DEF TableForm
<1>9. ASSUME NEW k \in SMs \ {id} PROVE Rights(k, name)' = Rights(k, name)
  <2>1. {q \in Acl(file)' : perm_pool'[q].sm_id = k} = {q \in Acl(file) : perm_pool[q].sm_id = k}
    BY <1>1, <1>2, <1>3, <1>5, <1>9
  <2>2. \A q \in Acl(file) : perm_pool[q].sm_id = k => perm_pool'[q] = perm_pool[q]
    BY <1>1, <1>2, <1>3, <1>9
  <2>3. Rights(k, file_pool[file].name)' = Rights(k, file_pool[file].name)
    BY <1>4, <2>1, <2>2, SameEntry DEF RInv
  <2> QED BY <1>4, <2>3
<1>10. RightsTable' = [RightsTable EXCEPT ![name][id] = SFS_NIL]
  BY <1>1, <1>7, <1>8, <1>9, TableEntry
<1>11. ASSUME NEW fd \in FDs
       PROVE  ConnTable'[fd] = IF ConnTable[fd] = [sm |-> id, name |-> name] THEN NULL ELSE ConnTable[fd]
  <2>1. fd_cache'[fd] = IF fd_cache[fd] = cur THEN NULL ELSE fd_cache[fd]
    BY DEF CLOSE_FD
  <2>2. CASE fd_cache[fd] = cur
    <3>1. Connection(fd) = [sm |-> id, name |-> name]
      BY <1>1, <2>2 DEF Connection
    <3>2. Connection(fd)' = NULL
      BY <2>1, <2>2 DEF Connection
    <3> QED BY <3>1, <3>2 DEF ConnTable
  <2>3. CASE fd_cache[fd] = NULL
    <3>1. Connection(fd) = NULL /\ Connection(fd)' = NULL
      BY <2>1, <2>3 DEF Connection
    <3> QED BY <3>1 DEF ConnTable
  <2>4. CASE fd_cache[fd] # cur /\ fd_cache[fd] # NULL
    <3> DEFINE q == fd_cache[fd]
               f == perm_pool[q].file
               c == [sm |-> perm_pool[q].sm_id, name |-> file_pool[f].name]
    <3>1. f \in Listed /\ q \in Acl(f) /\ Connection(fd) = c
      BY <2>4, ConnForm
    <3>2. q \in Perms /\ perm_pool'[q] = perm_pool[q]
      BY <1>2, <1>3, <2>4, <3>1
    <3>3. Connection(fd)' = Connection(fd)
      BY <1>4, <2>1, <2>4, <3>1, <3>2, SameConnection
    <3>4. c # [sm |-> id, name |-> name]
      <4>1. f = file => perm_pool[q].sm_id # id
        BY <1>1, <2>4, <3>1
      <4>2. file_pool[f].name = name => f = file
        BY <3>1 DEF RInv, IInv, LookupsUnambiguous
      <4> QED BY <4>1, <4>2
    <3> QED BY <3>1, <3>3, <3>4 DEF ConnTable
  <2> QED BY <2>2, <2>3, <2>4
<1>12. ConnTable' = [fd \in FDs |->
            IF ConnTable[fd] = [sm |-> call.id, name |-> call.name] THEN NULL ELSE ConnTable[fd]]
  BY <1>11 DEF ConnTable
<1> QED BY <1>6, <1>10, <1>12 DEF AC!Revoke

LEMMA ChmodImplements ==
    ASSUME RInv, IInv', NEW sm \in SMs, NEW name \in Names, NEW id \in SMs, NEW flags \in Granted,
           sfs_chmod(sm, name, id, flags)
    PROVE  AC!Chmod(sm, name, id, flags) /\ EntriesProper'
<1> DEFINE call == [NoReply EXCEPT !.op = "chmod", !.sm = sm, !.name = name,
                                   !.id = id, !.flags = flags]
           allowed == AC!May(sm, name, SFS_ROOT) /\ RightsTable[name][id] # SFS_CREATOR
           first   == RightsTable[name][id] = SFS_NIL
<1> PICK pc, file, cur : /\ pc = two_phase_lookup(name, SFS_ROOT, sm)
                         /\ file = perm_pool[pc].file /\ cur = LOOKUP_PERM(file, id)
  OBVIOUS
<1>1. call.name = name /\ call.id = id /\ call.flags = flags
  BY DEF NoReply
<1>2. \/ pc = NULL /\ Refuse(call)
      \/ pc # NULL /\ flags = SFS_NIL /\ revoke_acl(call, file)
      \/ pc # NULL /\ flags # SFS_NIL /\ add_acl(call, file)
  BY DEF sfs_chmod
<1> HIDE DEF call
<1>3. AC!May(sm, name, SFS_ROOT) <=> pc # NULL
  BY MayLookup
<1>4. ASSUME Refuse(call), ~allowed \/ (first /\ flags # SFS_NIL)
      PROVE  AC!Chmod(sm, name, id, flags) /\ EntriesProper'
  BY <1>4, RefuseImplements DEF AC!Chmod, call
<1>5. ASSUME AC!Assign(call), allowed, flags # SFS_NIL, first => flags # SFS_CREATOR
      PROVE  AC!Chmod(sm, name, id, flags)
  BY <1>5 DEF AC!Chmod, call
<1>6. ASSUME AC!Revoke(call), allowed, flags = SFS_NIL
      PROVE  AC!Chmod(sm, name, id, flags)
  BY <1>6 DEF AC!Chmod, call
<1>7. CASE pc = NULL /\ Refuse(call)
  BY <1>3, <1>4, <1>7
<1>8. CASE pc # NULL
  <2>1. file \in Listed /\ file \in Files /\ file_pool[file].name = name /\ INIT_DONE
    BY <1>8, TwoPhase DEF RInv
  <2>2. /\ cur = NULL <=> RightsTable[name][id] = SFS_NIL
        /\ cur # NULL => (IsCreator(cur) <=> RightsTable[name][id] = SFS_CREATOR)
        /\ SFS_CREATOR # SFS_NIL
        /\ cur = NULL => \A q \in Acl(file) : perm_pool[q].sm_id # id
    <3>1. SFS_CREATOR # SFS_NIL
      BY DEF SFS_CREATOR, SFS_NIL
    <3> QED BY <2>1, <3>1, EntryInTable DEF IsCreator
  <2>3. allowed <=> (cur # NULL => ~IsCreator(cur))
    BY <1>3, <1>8, <2>2
  <2>4. first <=> cur = NULL
    BY <2>2
  <2> HIDE DEF allowed, first
  <2>5. CASE flags = SFS_NIL /\ revoke_acl(call, file)
    <3> DEFINE fds == {fd \in FDs : fd_cache[fd] = cur}
    <3>1. \/ cur = NULL /\ Unaltered /\ reply' = call
          \/ cur # NULL /\ IsCreator(cur) /\ Refuse(call)
          \/ /\ cur # NULL /\ ~IsCreator(cur)
             /\ CLOSE_FD(fds)
             /\ file_pool' = [file_pool EXCEPT ![file].open_count = @ - Cardinality(fds),
                                   ![file].acl = UnlinkPerm(file_pool[file].acl, cur)]
             /\ perm_pool' = [perm_pool EXCEPT ![cur] = NoPerm]
             /\ reply' = call
             /\ UNCHANGED open_file_list
      BY <1>1, <2>5 DEF revoke_acl
    <3>2. CASE cur = NULL /\ Unaltered /\ reply' = call
      <4>1. Keeps /\ UNCHANGED fd_cache
        BY <3>2 DEF Unaltered, listVars, connVars, Keeps
      <4>2. RightsTable' = RightsTable /\ ConnTable' = ConnTable /\ EntriesProper'
        BY <4>1, KeepsTables
      <4>3. RightsTable = [RightsTable EXCEPT ![name][id] = SFS_NIL]
        BY <2>2, <3>2, TableShape
      <4>4. \A fd \in FDs : ConnTable[fd] # [sm |-> id, name |-> name]
        <5> SUFFICES ASSUME NEW fd \in FDs, ConnTable[fd] = [sm |-> id, name |-> name] PROVE FALSE
          OBVIOUS
        <5> DEFINE q == fd_cache[fd]
                   f == perm_pool[q].file
        <5>1. [sm |-> id, name |-> name] # NULL
          BY NullAssumption DEF NullAssumption
        <5>2. /\ f \in Listed /\ q \in Acl(f)
              /\ [sm |-> perm_pool[q].sm_id, name |-> file_pool[f].name] = [sm |-> id, name |-> name]
          BY <5>1, ConnForm, ConnAt
        <5>3. perm_pool[q].sm_id = id /\ file_pool[f].name = name
          BY <5>2
        <5>4. f = file
          BY <2>1, <5>2, <5>3 DEF RInv, IInv, LookupsUnambiguous
        <5>5. q \in Acl(file)
          BY <5>2, <5>4
        <5>6. \A t \in Acl(file) : perm_pool[t].sm_id # id
          BY <2>2, <3>2
        <5> QED BY <5>3, <5>5, <5>6
      <4>5. ConnTable = [fd \in FDs |->
                IF ConnTable[fd] = [sm |-> call.id, name |-> call.name] THEN NULL ELSE ConnTable[fd]]
        BY <1>1, <4>4 DEF ConnTable
      <4>6. AC!Revoke(call)
        BY <1>1, <3>2, <4>2, <4>3, <4>5 DEF AC!Revoke
      <4> QED BY <1>6, <2>3, <2>5, <3>2, <4>2, <4>6
    <3>3. CASE cur # NULL /\ IsCreator(cur) /\ Refuse(call)
      BY <1>4, <2>3, <3>3
    <3>4. CASE /\ cur # NULL /\ ~IsCreator(cur)
               /\ CLOSE_FD(fds)
               /\ file_pool' = [file_pool EXCEPT ![file].open_count = @ - Cardinality(fds),
                                     ![file].acl = UnlinkPerm(file_pool[file].acl, cur)]
               /\ perm_pool' = [perm_pool EXCEPT ![cur] = NoPerm]
               /\ reply' = call
               /\ UNCHANGED open_file_list
      <4> DEFINE count == file_pool[file].open_count - Cardinality(fds)
      <4>1. file_pool' = [file_pool EXCEPT ![file].open_count = count,
                              ![file].acl = UnlinkPerm(file_pool[file].acl, cur)]
        BY <3>4
      <4> HIDE DEF count
      <4>2. CLOSE_FD({fd \in FDs : fd_cache[fd] = cur})
        BY <3>4
      <4>3. cur = LOOKUP_PERM(file, id) /\ cur # NULL /\ ~IsCreator(cur)
        BY <3>4
      <4>4. call.name = file_pool[file].name /\ call.id = id
        BY <1>1, <2>1
      <4>5. perm_pool' = [perm_pool EXCEPT ![cur] = NoPerm] /\ reply' = call /\ UNCHANGED open_file_list
        BY <3>4
      <4>6. AC!Revoke(call) /\ EntriesProper'
        BY <2>1, <4>1, <4>2, <4>3, <4>4, <4>5, RevokeImplements
      <4> QED BY <1>6, <2>3, <2>5, <3>4, <4>6
    <3> QED BY <3>1, <3>2, <3>3, <3>4
  <2>6. CASE flags # SFS_NIL /\ add_acl(call, file)
    <3> PICK new : new = Head(FreePerms)
      OBVIOUS
    <3>1. \/ cur # NULL /\ IsCreator(cur) /\ Refuse(call)
          \/ /\ cur # NULL /\ ~IsCreator(cur)
             /\ perm_pool' = [perm_pool EXCEPT ![cur].flags = flags]
             /\ reply' = call
             /\ UNCHANGED <<file_pool, open_file_list, connVars>>
          \/ cur = NULL /\ Refuse(call)
          \/ /\ cur = NULL /\ flags # SFS_CREATOR /\ FreePerms # <<>>
             /\ perm_pool' = [perm_pool EXCEPT ![new] =
                    [sm_id |-> id, flags |-> flags, file |-> file]]
             /\ file_pool' = [file_pool EXCEPT ![file].acl = Append(file_pool[file].acl, new)]
             /\ reply' = call
             /\ UNCHANGED <<open_file_list, connVars>>
      BY <1>1, <2>6 DEF add_acl
    <3>2. CASE (cur = NULL \/ IsCreator(cur)) /\ Refuse(call)
      BY <1>4, <2>3, <2>4, <2>6, <3>2
    <3>3. CASE /\ cur # NULL /\ ~IsCreator(cur)
               /\ perm_pool' = [perm_pool EXCEPT ![cur].flags = flags]
               /\ reply' = call
               /\ UNCHANGED <<file_pool, open_file_list, connVars>>
      <4>1. AC!Assign(call) /\ EntriesProper'
        BY <1>1, <2>1, <2>6, <3>3, OverrideImplements
      <4> QED BY <1>5, <2>3, <2>4, <2>6, <3>3, <4>1
    <3>4. CASE /\ cur = NULL /\ flags # SFS_CREATOR /\ FreePerms # <<>>
               /\ perm_pool' = [perm_pool EXCEPT ![new] =
                      [sm_id |-> id, flags |-> flags, file |-> file]]
               /\ file_pool' = [file_pool EXCEPT ![file].acl = Append(file_pool[file].acl, new)]
               /\ reply' = call
               /\ UNCHANGED <<open_file_list, connVars>>
      <4>1. AC!Assign(call) /\ EntriesProper'
        BY <1>1, <2>1, <2>6, <3>4, AppendImplements
      <4> QED BY <1>5, <2>3, <2>4, <2>6, <3>4, <4>1
    <3> QED BY <3>1, <3>2, <3>3, <3>4
  <2> QED BY <1>2, <1>8, <2>5, <2>6
<1> QED BY <1>2, <1>7, <1>8
-----------------------------------------------------------------------------
(* The front-end implements its promise *)

LEMMA InitRefines == Init => AC!Init /\ RInv
<1> SUFFICES ASSUME Init PROVE AC!Init /\ RInv
  OBVIOUS
<1>1. IInv
  BY InitEstablishes
<1>2. Listed = {}
  BY ListEmpty DEF Init, Listed
<1>3. EntriesProper
  BY <1>2 DEF EntriesProper
<1>4. \A sm, n : Rights(sm, n) = SFS_NIL
  BY <1>2 DEF Rights, Entries, SFS_NIL
<1>5. RightsTable = [n \in Names |-> [sm \in SMs |-> SFS_NIL]]
  BY <1>4 DEF RightsTable
<1>6. ConnTable = [fd \in FDs |-> NULL]
  <2>1. \A fd \in FDs : Connection(fd) = NULL
    BY DEF Init, Connection
  <2> QED BY <2>1 DEF ConnTable
<1> QED BY <1>1, <1>3, <1>5, <1>6 DEF Init, AC!Init, RInv

LEMMA NextRefines == ASSUME RInv, IInv', Next PROVE AC!Next /\ EntriesProper'
<1> PICK sm \in SMs :
        \/ sfs_init(sm)
        \/ \E name \in Names, flags \in Wanted, create \in BOOLEAN :
               sfs_open(sm, name, flags, create)
        \/ \E name \in Names : sfs_remove(sm, name)
        \/ \E name \in Names, id \in SMs, perm_flags \in Granted :
               sfs_chmod(sm, name, id, perm_flags)
        \/ \E name \in Names, owner \in SMs : sfs_attest(sm, name, owner)
        \/ \E fd \in ClientFDs :
               sfs_close(sm, fd) \/ sfs_getc(sm, fd) \/ sfs_putc(sm, fd) \/ sfs_seek(sm, fd)
  BY DEF Next
<1>1. CASE sfs_init(sm)
  BY <1>1, InitImplements DEF AC!Next
<1>2. CASE \E name \in Names, flags \in Wanted, create \in BOOLEAN :
               sfs_open(sm, name, flags, create)
  BY <1>2, OpenImplements DEF AC!Next
<1>3. CASE \E name \in Names : sfs_remove(sm, name)
  BY <1>3, RemoveImplements DEF AC!Next
<1>4. CASE \E name \in Names, id \in SMs, perm_flags \in Granted :
               sfs_chmod(sm, name, id, perm_flags)
  BY <1>4, ChmodImplements DEF AC!Next
<1>5. CASE \E name \in Names, owner \in SMs : sfs_attest(sm, name, owner)
  BY <1>5, AttestImplements DEF AC!Next
<1>6. ASSUME NEW fd \in ClientFDs,
             sfs_close(sm, fd) \/ sfs_getc(sm, fd) \/ sfs_putc(sm, fd) \/ sfs_seek(sm, fd)
      PROVE  AC!Next /\ EntriesProper'
  <2>1. fd \in FDs \union {FAILURE, MAX_NB_OPEN_FILES}
    BY DEF ClientFDs
  <2>2. CASE sfs_close(sm, fd)
    BY <2>1, <2>2, CloseImplements DEF AC!Next
  <2>3. CASE sfs_getc(sm, fd)
    <3>1. AC!Use("getc", sm, fd, SFS_READ) /\ EntriesProper'
      BY <2>3, AccessImplements DEF sfs_getc
    <3> QED BY <2>1, <3>1 DEF AC!Next
  <2>4. CASE sfs_putc(sm, fd)
    <3>1. AC!Use("putc", sm, fd, SFS_WRITE) /\ EntriesProper'
      BY <2>4, AccessImplements DEF sfs_putc
    <3> QED BY <2>1, <3>1 DEF AC!Next
  <2>5. CASE sfs_seek(sm, fd)
    <3>1. AC!Use("seek", sm, fd, SFS_NIL) /\ EntriesProper'
      BY <2>5, AccessImplements DEF sfs_seek
    <3> QED BY <2>1, <3>1 DEF AC!Next
  <2> QED BY <1>6, <2>2, <2>3, <2>4, <2>5
<1> QED BY <1>1, <1>2, <1>3, <1>4, <1>5, <1>6

LEMMA StutterRefines == ASSUME RInv, UNCHANGED vars PROVE (UNCHANGED AC!vars) /\ EntriesProper'
<1>1. UNCHANGED fd_cache /\ Keeps /\ UNCHANGED reply
  BY DEF vars, listVars, connVars, Keeps
<1> QED BY <1>1, KeepsTables DEF AC!vars

LEMMA StepRefines == RInv /\ [Next]_vars => [AC!Next]_(AC!vars) /\ RInv'
<1> SUFFICES ASSUME RInv, [Next]_vars PROVE [AC!Next]_(AC!vars) /\ RInv'
  OBVIOUS
<1>1. IInv'
  BY NextPreserves DEF RInv
<1>2. CASE Next
  BY <1>1, <1>2, NextRefines DEF RInv
<1>3. CASE UNCHANGED vars
  BY <1>1, <1>3, StutterRefines DEF RInv
<1> QED BY <1>2, <1>3

\* Every entry in the ACL of a listed file is an SM's and gives it a right: chmod
\* with no rights is a revocation, and what it frees it unlinks (revoke_acl).
THEOREM EntriesStayProper == Spec => []RInv
BY InitRefines, StepRefines, PTL DEF Spec

\* The lists, pools, counters and caches of sfs-ram.c implement a table of rights
\* and a table of connections, and decide every call by them (sfs_open, sfs_close,
\* sfs_remove, sfs_chmod, sfs_attest and the calls through a descriptor).
THEOREM Implements == Spec => ImplementsAccessControl
BY InitRefines, StepRefines, PTL DEF Spec, AC!Spec, ImplementsAccessControl
-----------------------------------------------------------------------------
(* What follows from the promise *)

\* A step of the table of rights keeps the creator's rights on every file it
\* does not remove.
LEMMA CreatorKept ==
    ASSUME RInv, AC!Next, NEW k \in SMs, NEW name \in Names, RightsTable[name][k] = SFS_CREATOR
    PROVE  RightsTable'[name][k] = SFS_CREATOR \/ (reply'.op = "remove" /\ reply'.name = name)
<1> PICK sm \in SMs :
        \/ AC!Prepare(sm)
        \/ \E n \in Names :
               \/ \E want \in Wanted, create \in BOOLEAN : AC!Open(sm, n, want, create)
               \/ AC!Remove(sm, n)
               \/ \E id \in SMs :
                      \/ \E flags \in Granted : AC!Chmod(sm, n, id, flags)
                      \/ AC!Attest(sm, n, id)
        \/ \E fd \in FDs \union {FAILURE, MAX_NB_OPEN_FILES} :
               \/ AC!Close(sm, fd)
               \/ AC!Use("getc", sm, fd, SFS_READ)
               \/ AC!Use("putc", sm, fd, SFS_WRITE)
               \/ AC!Use("seek", sm, fd, SFS_NIL)
  BY DEF AC!Next
<1>1. CASE RightsTable' = RightsTable
  BY <1>1
<1>2. ASSUME NEW n \in Names, NEW want \in Wanted, NEW create \in BOOLEAN,
             AC!Open(sm, n, want, create), RightsTable' # RightsTable
      PROVE  RightsTable'[name][k] = SFS_CREATOR
  <2> PICK call : AC!Create(call)
    BY <1>2 DEF AC!Open, AC!OpenExisting, AC!Refuse
  <2>1. /\ \A id \in SMs : RightsTable[call.name][id] = SFS_NIL
        /\ RightsTable' = [RightsTable EXCEPT ![call.name][call.sm] = SFS_CREATOR]
    BY DEF AC!Create, AC!Exists
  <2>2. name # call.name
    BY <2>1 DEF SFS_CREATOR, SFS_NIL
  <2> QED BY <2>1, <2>2, TableShape
<1>3. ASSUME NEW n \in Names, AC!Remove(sm, n), RightsTable' # RightsTable
      PROVE  RightsTable'[name][k] = SFS_CREATOR \/ (reply'.op = "remove" /\ reply'.name = name)
  <2> DEFINE call == [NoReply EXCEPT !.op = "remove", !.sm = sm, !.name = n]
  <2>1. \A ok : [call EXCEPT !.ok = ok].op = "remove" /\ [call EXCEPT !.ok = ok].name = n
    BY DEF NoReply
  <2>2. /\ \E ok \in BOOLEAN : reply' = [call EXCEPT !.ok = ok]
        /\ RightsTable' = [RightsTable EXCEPT ![n] = [id \in SMs |-> SFS_NIL]]
    BY <1>3 DEF AC!Remove, AC!Refuse
  <2> HIDE DEF call
  <2> QED BY <2>1, <2>2, TableShape
<1>4. ASSUME NEW n \in Names, NEW id \in SMs, NEW flags \in Granted,
             AC!Chmod(sm, n, id, flags), RightsTable' # RightsTable
      PROVE  RightsTable'[name][k] = SFS_CREATOR
  <2> DEFINE call == [NoReply EXCEPT !.op = "chmod", !.sm = sm, !.name = n,
                                     !.id = id, !.flags = flags]
  <2>1. call.name = n /\ call.id = id
    BY DEF NoReply
  <2>2. /\ RightsTable[n][id] # SFS_CREATOR
        /\ AC!Revoke(call) \/ AC!Assign(call)
    BY <1>4 DEF AC!Chmod, AC!Refuse
  <2> HIDE DEF call
  <2>3. \E v : RightsTable' = [RightsTable EXCEPT ![n][id] = v]
    BY <2>1, <2>2 DEF AC!Revoke, AC!Assign
  <2> QED BY <2>2, <2>3, TableShape
<1> QED BY <1>1, <1>2, <1>3, <1>4
      DEF AC!Prepare, AC!Attest, AC!Close, AC!Use, AC!Refuse

\* Who creates a file keeps the creator's rights on it until it is removed
\* (sfs.h:73-75; revoke_acl, add_acl).
THEOREM CreatorKeepsRights == Spec => CreatorForLife
<1> DEFINE A == \A sm \in SMs, name \in Names :
                    Rights(sm, name) = SFS_CREATOR =>
                        \/ Rights(sm, name)' = SFS_CREATOR
                        \/ reply'.op = "remove" /\ reply'.name = name
<1>1. RInv /\ [Next]_vars => [A]_listVars
  <2>1. UNCHANGED vars => UNCHANGED listVars
    BY DEF vars
  <2>2. RInv /\ Next => A
    <3> SUFFICES ASSUME RInv, Next, NEW sm \in SMs, NEW name \in Names, Rights(sm, name) = SFS_CREATOR
                 PROVE  Rights(sm, name)' = SFS_CREATOR \/ (reply'.op = "remove" /\ reply'.name = name)
      OBVIOUS
    <3>1. AC!Next
      BY NextPreserves, NextRefines DEF RInv
    <3> QED BY <3>1, CreatorKept, TableShape, TableShapeNext
  <2> HIDE DEF A
  <2> QED BY <2>1, <2>2
<1> QED BY <1>1, EntriesStayProper, PTL DEF Spec, CreatorForLife
-----------------------------------------------------------------------------
(* No file of the back-end is forgotten *)

\* A step lists what it enters in the back-end's directory and keeps what is listed.
ListedNames == {file_pool[f].name : f \in Listed}
Remembers   == Dir' \subseteq Dir \union ListedNames' /\ ListedNames \subseteq ListedNames'

LEMMA DirAt ==
    /\ UNCHANGED <<INIT_DONE, cfs_dir>> => Dir' = Dir
    /\ INIT_DONE' = TRUE => Dir' = cfs_dir'
BY DEF Dir

LEMMA NamesStay ==
    ASSUME IInv, Listed' = Listed, \A f \in Files : file_pool'[f].name = file_pool[f].name
    PROVE  ListedNames' = ListedNames
BY ListedFacts DEF ListedNames, IInv

\* A call that alters nothing, and one that keeps the structs and the back-end.
LEMMA DirKept ==
    ASSUME IInv, Keeps,
           (INIT_DONE' = TRUE /\ cfs_dir' = Dir) \/ UNCHANGED <<INIT_DONE, cfs_dir>>
    PROVE  Remembers
<1>1. ListedNames' = ListedNames
  BY NamesStay DEF Keeps, Listed
<1>2. Dir' = Dir
  BY DirAt
<1> QED BY <1>1, <1>2 DEF Remembers

LEMMA DirRefuse == ASSUME IInv, NEW call, Refuse(call) PROVE Remembers
BY DirKept, RefuseKeeps DEF Refuse, Unaltered

LEMMA DirOpen ==
    ASSUME IInv, NEW sm \in SMs, NEW name \in Names, NEW flags \in Wanted,
           NEW create \in BOOLEAN, sfs_open(sm, name, flags, create)
    PROVE  Remembers
<1> DEFINE call == [NoReply EXCEPT !.op = "open", !.sm = sm, !.name = name,
                                   !.flags = flags, !.create = create]
<1> PICK p : p = two_phase_lookup(name, flags, sm)
  OBVIOUS
<1>1. call.name = name
  BY DEF NoReply
<1>2. \/ Refuse(call)
      \/ FreePerms # <<>> /\ FreeFiles # <<>> /\ sfs_open_new(call)
      \/ p # NULL /\ sfs_open_existing(call, p)
  BY DEF sfs_open
<1> HIDE DEF call
<1>3. file_pool \in [Files -> [name : Names \union {NULL}, open_count : Int, acl : Seq(Perms)]]
      /\ Listed \subseteq Files /\ open_file_list \in Seq(Files)
  BY ListedFacts DEF IInv, TypeOK
<1>4. ASSUME INIT_DONE' = TRUE, cfs_dir' \subseteq Dir \union {name},
             ListedNames \union {name} \subseteq ListedNames'
      PROVE  Remembers
  BY <1>4, DirAt DEF Remembers
<1>5. \A r \in cfs_open(name) : r.dir \subseteq Dir \union {name}
  BY DEF cfs_open
<1>6. CASE FreePerms # <<>> /\ FreeFiles # <<>> /\ sfs_open_new(call)
  <2> PICK file : file = Head(FreeFiles)
    OBVIOUS
  <2>1. PICK r \in cfs_open(name) :
          /\ INIT_DONE' = TRUE /\ open_file_list' = <<file>> \o open_file_list
          /\ \E acl, n : file_pool' = [file_pool EXCEPT ![file] =
                 [name |-> name, open_count |-> n, acl |-> acl]]
          /\ cfs_dir' = r.dir
    BY <1>1, <1>6 DEF sfs_open_new, open_back_end_file
  <2>2. file \in ToSet(FreeFiles) /\ file \in Files
    BY <1>6, FreeFacts, ListHead, ListTail DEF IInv
  <2>3. file \notin Listed
    BY <2>2 DEF IInv, SlotsConserved
  <2>4. Listed' = Listed \union {file}
    BY <1>3, <2>1, <2>2, ListCons DEF Listed
  <2>5. file_pool'[file].name = name /\ \A f \in Listed : file_pool'[f].name = file_pool[f].name
    BY <1>3, <2>1, <2>2, <2>3
  <2>6. ListedNames \union {name} \subseteq ListedNames'
    BY <2>4, <2>5 DEF ListedNames
  <2> QED BY <1>4, <1>5, <2>1, <2>6
<1>7. CASE p # NULL /\ sfs_open_existing(call, p)
  <2>1. PICK r \in cfs_open(name) :
          /\ INIT_DONE' = TRUE /\ UNCHANGED open_file_list
          /\ file_pool' = [file_pool EXCEPT ![perm_pool[p].file].open_count = counted(@, r)]
          /\ cfs_dir' = r.dir
    BY <1>1, <1>7 DEF sfs_open_existing, open_back_end_file
  <2>2. /\ perm_pool[p].file \in Listed /\ perm_pool[p].file \in Files
        /\ file_pool[perm_pool[p].file].name = name
    BY <1>7, TwoPhase
  <2>3. \A f \in Files : file_pool'[f].name = file_pool[f].name
    BY <1>3, <2>1, <2>2
  <2>4. ListedNames' = ListedNames
    BY <2>1, <2>3, NamesStay DEF Listed
  <2>5. name \in ListedNames
    BY <2>2 DEF ListedNames
  <2> QED BY <1>4, <1>5, <2>1, <2>4, <2>5
<1> QED BY <1>2, <1>6, <1>7, DirRefuse

\* A removal drops one name, whatever the back-end answers.
LEMMA DirRemove ==
    ASSUME IInv, NEW sm \in SMs, NEW name \in Names, sfs_remove(sm, name)
    PROVE  \/ Remembers
           \/ /\ Dir' \subseteq Dir /\ ListedNames \ {name} \subseteq ListedNames'
              /\ reply'.op = "remove" /\ reply'.name = name
              /\ reply'.ok => name \notin Dir'
<1> DEFINE call == [NoReply EXCEPT !.op = "remove", !.sm = sm, !.name = name]
<1> PICK p, cur : p = two_phase_lookup(name, SFS_ROOT, sm) /\ cur = perm_pool[p].file
  OBVIOUS
<1>1. \/ Refuse(call)
      \/ /\ p # NULL
         /\ open_file_list' = Unlink(open_file_list, cur)
         /\ file_pool' = [file_pool EXCEPT ![cur] = NoFile]
         /\ \E r \in cfs_remove(name) : cfs_dir' = r.dir /\ reply' = [call EXCEPT !.ok = r.ok]
         /\ UNCHANGED INIT_DONE
  BY DEF sfs_remove
<1>2. \A ok : LET r == [call EXCEPT !.ok = ok] IN r.op = "remove" /\ r.name = name /\ r.ok = ok
  BY DEF NoReply
<1> HIDE DEF call
<1>3. CASE /\ p # NULL
           /\ open_file_list' = Unlink(open_file_list, cur)
           /\ file_pool' = [file_pool EXCEPT ![cur] = NoFile]
           /\ \E r \in cfs_remove(name) : cfs_dir' = r.dir /\ reply' = [call EXCEPT !.ok = r.ok]
           /\ UNCHANGED INIT_DONE
  <2>1. cur \in Listed /\ file_pool[cur].name = name /\ INIT_DONE
    BY <1>3, TwoPhase
  <2>2. Listed' = Listed \ {cur}
    <3>1. open_file_list \in Seq(Files) /\ IsInjective(open_file_list) /\ cur \in ToSet(open_file_list)
      BY <2>1 DEF IInv, TypeOK, SlotsConserved, Listed
    <3>2. ToSet(Unlink(open_file_list, cur)) = ToSet(open_file_list) \ {cur}
      BY <3>1, UnlinkFacts
    <3> QED BY <1>3, <3>2 DEF Listed
  <2>3. /\ file_pool \in [Files -> [name : Names \union {NULL}, open_count : Int, acl : Seq(Perms)]]
        /\ Listed \subseteq Files
    BY ListedFacts DEF IInv, TypeOK
  <2>4. \A f \in Listed \ {cur} : file_pool'[f] = file_pool[f]
    BY <1>3, <2>3
  <2>5. ListedNames \ {name} \subseteq ListedNames'
    BY <2>1, <2>2, <2>4 DEF ListedNames
  <2>6. PICK r \in cfs_remove(name) : cfs_dir' = r.dir /\ reply' = [call EXCEPT !.ok = r.ok]
    BY <1>3
  <2>7. r.dir \subseteq Dir /\ (r.ok => name \notin r.dir)
    BY DEF cfs_remove
  <2>8. Dir' = r.dir
    BY <1>3, <2>1, <2>6, DirAt
  <2>9. reply'.op = "remove" /\ reply'.name = name /\ reply'.ok = r.ok
    BY <1>2, <2>6
  <2> QED BY <2>5, <2>7, <2>8, <2>9
<1> QED BY <1>1, <1>3, DirRefuse

LEMMA DirChmod ==
    ASSUME IInv, NEW sm \in SMs, NEW name \in Names, NEW id \in SMs, NEW flags \in Granted,
           sfs_chmod(sm, name, id, flags)
    PROVE  Remembers
<1> DEFINE call == [NoReply EXCEPT !.op = "chmod", !.sm = sm, !.name = name,
                                   !.id = id, !.flags = flags]
<1> PICK p, file : p = two_phase_lookup(name, SFS_ROOT, sm) /\ file = perm_pool[p].file
  OBVIOUS
<1> HIDE DEF call
<1>1. \/ Refuse(call)
      \/ p # NULL /\ revoke_acl(call, file)
      \/ p # NULL /\ add_acl(call, file)
  BY DEF sfs_chmod, call
<1>2. file_pool \in [Files -> [name : Names \union {NULL}, open_count : Int, acl : Seq(Perms)]]
  BY DEF IInv, TypeOK
<1>3. ASSUME UNCHANGED <<INIT_DONE, open_file_list, cfs_dir>>,
             \A f \in Files : file_pool'[f].name = file_pool[f].name
      PROVE  Remembers
  BY <1>3, DirAt, NamesStay DEF Remembers, Listed
<1>4. CASE p # NULL /\ revoke_acl(call, file)
  <2>1. CASE Unaltered
    <3>1. Keeps
      BY <2>1 DEF Unaltered, listVars, Keeps
    <3> QED BY <2>1, <3>1, DirKept DEF Unaltered
  <2>2. ASSUME NEW n, NEW acl, UNCHANGED <<INIT_DONE, open_file_list, cfs_dir>>,
               file_pool' = [file_pool EXCEPT ![file].open_count = n, ![file].acl = acl]
        PROVE  Remembers
    <3>1. \A f \in Files : file_pool'[f].name = file_pool[f].name
      BY <1>2, <2>2
    <3> QED BY <1>3, <2>2, <3>1
  <2>3. \/ Unaltered \/ Refuse(call)
        \/ \E n, acl : /\ UNCHANGED <<INIT_DONE, open_file_list, cfs_dir>>
                       /\ file_pool' = [file_pool EXCEPT ![file].open_count = n, ![file].acl = acl]
    <3> DEFINE cur == LOOKUP_PERM(file, call.id)
               n   == file_pool[file].open_count - Cardinality({fd \in FDs : fd_cache[fd] = cur})
               acl == UnlinkPerm(file_pool[file].acl, cur)
    <3>1. \/ Unaltered \/ Refuse(call)
          \/ /\ UNCHANGED <<INIT_DONE, open_file_list, cfs_dir>>
             /\ file_pool' = [file_pool EXCEPT ![file].open_count = n, ![file].acl = acl]
      BY <1>4 DEF revoke_acl
    <3> HIDE DEF n, acl
    <3> QED BY <3>1, ZenonT(40)
  <2> QED BY <2>1, <2>2, <2>3, DirRefuse, ZenonT(40)
<1>5. CASE p # NULL /\ add_acl(call, file)
  <2>1. ASSUME NEW acl, UNCHANGED <<INIT_DONE, open_file_list, cfs_dir>>,
               file_pool' = [file_pool EXCEPT ![file].acl = acl]
        PROVE  Remembers
    <3>1. \A f \in Files : file_pool'[f].name = file_pool[f].name
      BY <1>2, <2>1
    <3> QED BY <1>3, <2>1, <3>1
  <2>2. ASSUME UNCHANGED <<INIT_DONE, open_file_list, cfs_dir, file_pool>>
        PROVE  Remembers
    BY <1>3, <2>2
  <2> QED BY <1>5, <2>1, <2>2, DirRefuse DEF add_acl
<1> QED BY <1>1, <1>4, <1>5, DirRefuse

\* What one step of Next may lose.
LosesOne ==
    \E name \in Names :
        /\ Dir' \subseteq Dir /\ ListedNames \ {name} \subseteq ListedNames'
        /\ reply'.op = "remove" /\ reply'.name = name
        /\ reply'.ok => name \notin Dir'

LEMMA DirStep == ASSUME RInv, Next PROVE Remembers \/ LosesOne
<1>2. ASSUME NEW sm \in SMs, sfs_init(sm)
      PROVE  Remembers
  BY <1>2, OtherCalls, DirKept DEF RInv, sfs_init, Unaltered
<1>3. ASSUME NEW sm \in SMs, NEW name \in Names, NEW owner \in SMs, sfs_attest(sm, name, owner)
      PROVE  Remembers
  BY <1>3, OtherCalls, DirKept DEF RInv, sfs_attest
<1>4. ASSUME NEW sm \in SMs, NEW fd \in ClientFDs, sfs_close(sm, fd)
      PROVE  Remembers
  <2>1. Keeps
    BY <1>4, CloseRights DEF RInv
  <2> QED BY <1>4, <2>1, DirKept DEF RInv, sfs_close, Refuse, Unaltered
<1>5. ASSUME NEW call, NEW need, Access(call, need)
      PROVE  Remembers
  <2>1. Unaltered
    BY <1>5 DEF Access, Refuse
  <2>2. Keeps
    BY <2>1 DEF Unaltered, listVars, Keeps
  <2> QED BY <2>1, <2>2, DirKept DEF RInv, Unaltered
<1>6. ASSUME NEW sm \in SMs, NEW name \in Names, sfs_remove(sm, name)
      PROVE  Remembers \/ LosesOne
  BY <1>6, DirRemove DEF RInv, LosesOne
<1> QED BY <1>2, <1>3, <1>4, <1>5, <1>6, DirOpen, DirChmod
        DEF RInv, Next, sfs_getc, sfs_putc, sfs_seek

\* A file is forgotten when the back-end has it and no listed file its name.
Unlisted == Forgotten = Dir \ ListedNames

LEMMA ForgottenForm == RInv => Unlisted
<1> SUFFICES ASSUME RInv, NEW name
             PROVE  name \in Dir => ((\A sm \in SMs : Entries(sm, name) = {}) <=> name \notin ListedNames)
  BY DEF Forgotten, Unlisted
<1>1. ASSUME name \notin ListedNames, NEW sm \in SMs PROVE Entries(sm, name) = {}
  BY <1>1 DEF Entries, ListedNames
<1>2. ASSUME name \in Names, \A sm \in SMs : Entries(sm, name) = {} PROVE name \notin ListedNames
  <2>1. \A sm \in SMs : Rights(sm, name) = SFS_NIL
    BY <1>2 DEF Rights, SFS_NIL
  <2>2. LOOKUP_FILE(name) = NULL
    BY <1>2, <2>1, ExistsLookup, TableShape DEF AC!Exists
  <2>3. NULL \notin Listed
    BY ListedFacts, NullAssumption DEF RInv, IInv, NullAssumption
  <2>4. \A f \in Listed : file_pool[f].name # name
    BY <2>2, <2>3, LookupFile DEF RInv, IInv
  <2> QED BY <2>4 DEF ListedNames
<1>3. Dir \subseteq Names
  BY DirType DEF RInv, IInv
<1> QED BY <1>1, <1>2, <1>3

LEMMA ForgottenFormNext == RInv' => Unlisted'
BY ForgottenForm, PTL

\* The file system loses track of a file of the back-end only by a removal that fails
\* (sfs_remove; revoke_acl, open_back_end_file).
THEOREM FilesKeepAnOwner == Spec => NoFileForgotten
<1> DEFINE A == \A name \in Forgotten' \ Forgotten :
                    reply'.op = "remove" /\ reply'.name = name /\ ~reply'.ok
<1>1. RInv /\ RInv' /\ [Next]_vars => [A]_<<INIT_DONE, listVars, cfs_dir>>
  <2>1. UNCHANGED vars => UNCHANGED <<INIT_DONE, listVars, cfs_dir>>
    BY DEF vars
  <2>2. RInv /\ RInv' /\ Next => A
    <3> SUFFICES ASSUME RInv, RInv', Next, NEW name \in Forgotten' \ Forgotten
                 PROVE  reply'.op = "remove" /\ reply'.name = name /\ ~reply'.ok
      OBVIOUS
    <3>1. name \in Dir' /\ name \notin ListedNames' /\ ~(name \in Dir /\ name \notin ListedNames)
      BY ForgottenForm, ForgottenFormNext DEF Unlisted
    <3>2. ~Remembers
      BY <3>1 DEF Remembers
    <3> QED BY <3>1, <3>2, DirStep DEF LosesOne
  <2> HIDE DEF A
  <2> QED BY <2>1, <2>2
<1> QED BY <1>1, EntriesStayProper, PTL DEF Spec, NoFileForgotten
=============================================================================
