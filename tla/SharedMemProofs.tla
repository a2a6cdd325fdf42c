-------------------------- MODULE SharedMemProofs --------------------------
(***************************************************************************)
(* Proofs about the shared-memory back-end, for any blocks, names, file    *)
(* sizes and seeks and any number of descriptors.                          *)
(***************************************************************************)
EXTENDS SharedMem, ListLemmas, TLAPS

USE ShmAssumption

Connection == [shm : Block, offset : OffsetT, at : Block]

-----------------------------------------------------------------------------
(* What a call may do, whatever made it: one of seven things *)

Nothing == UNCHANGED <<live, entry, shm_list, open_fd_cache>>

\* Descriptor fd is connected to shm with its struct at e, used being in use.
Connected(fd, shm, e, used) ==
    /\ fd \in FDs /\ open_fd_cache[fd] = NULL
    /\ e \in Block \ used
    /\ open_fd_cache' = [open_fd_cache EXCEPT ![fd] = [shm |-> shm, offset |-> 0, at |-> e]]
    /\ live' = used \union {e}

\* A new file's entry goes to the block new, which with data was not in use.
Linked(new, data, name, size) ==
    /\ new \in Block \ live /\ data \in Block \ live /\ new # data
    /\ name \in Names /\ size \in FileSizes
    /\ \A e \in Entries : entry[e].name # name
    /\ entry' = [entry EXCEPT ![new] = [name |-> name, malloc_ptr |-> data, size |-> size]]
    /\ shm_list' = <<new>> \o shm_list

OpensOld == \E fd, e : \E shm \in Entries :
    Connected(fd, shm, e, live) /\ UNCHANGED <<entry, shm_list>>

OpensNew == \E fd, e, new, data, name, size :
    Linked(new, data, name, size) /\ Connected(fd, new, e, live \union {new, data})

FailsNew == \E new, data, name, size :
    Linked(new, data, name, size) /\ live' = live /\ UNCHANGED open_fd_cache

Disconnects == \E fd \in FDs :
    /\ open_fd_cache[fd] # NULL
    /\ live' = live \ {open_fd_cache[fd].at}
    /\ open_fd_cache' = [open_fd_cache EXCEPT ![fd] = NULL]
    /\ UNCHANGED <<entry, shm_list>>

Moves == \E fd \in FDs, offset \in OffsetT :
    /\ open_fd_cache[fd] # NULL
    /\ 0 <= open_fd_cache[fd].offset => offset \in 0 .. entry[open_fd_cache[fd].shm].size
    /\ open_fd_cache' = [open_fd_cache EXCEPT ![fd].offset = offset]
    /\ UNCHANGED <<live, entry, shm_list>>

Unlinks == \E cur \in Entries :
    /\ \A fd \in FDs : open_fd_cache[fd] # NULL => open_fd_cache[fd].shm # cur
    /\ shm_list' = Unlink(shm_list, cur)
    /\ live' = live \ {cur}
    /\ UNCHANGED <<entry, open_fd_cache>>

\* INT_MAX stays folded below: intervals of literals are slow.
LEMMA IntMax == INT_MAX \in Int /\ INT_MAX > 0
BY SMTT(30) DEF INT_MAX

LEMMA OffsetFacts == OffsetT \subseteq Int /\ 0 \in OffsetT
BY IntMax DEF OffsetT

\* Wrap yields an int, and changes none.
LEMMA WrapFacts ==
    \A n \in Int : Wrap(n) \in OffsetT /\ (n \in 0..INT_MAX => Wrap(n) = n)
<1> TAKE n \in Int
<1>1. /\ Wrap(n) \in Int /\ -(INT_MAX + 1) <= Wrap(n) /\ Wrap(n) <= INT_MAX
      /\ 0 <= n /\ n <= INT_MAX => Wrap(n) = n
  BY ONLY n \in Int, SMT DEF Wrap, INT_MAX
<1> HIDE DEF INT_MAX
<1> QED BY ONLY n \in Int, <1>1, IntMax DEF OffsetT

LEMMA EntryFacts ==
    ASSUME TypeOK
    PROVE  /\ Entries \subseteq Block
           /\ NULL \notin Entries
           /\ \A e \in Block : entry[e].size \in 0..INT_MAX
<1>1. Entries \subseteq Block
  BY ListElements DEF TypeOK, Entries
<1>2. FileSizes \union {0} \subseteq 0..INT_MAX
  BY IntMax DEF ShmAssumption
<1>3. \A e \in Block : entry[e].size \in FileSizes \union {0}
  BY DEF TypeOK
<1> QED BY <1>1, <1>2, <1>3 DEF ShmAssumption

LEMMA FindFacts ==
    ASSUME TypeOK, NEW name
    PROVE  /\ Find(name) # NULL => Find(name) \in Entries /\ entry[Find(name)].name = name
           /\ Find(name) = NULL => \A e \in Entries : entry[e].name # name
BY EntryFacts DEF Find

LEMMA OpenedEffect ==
    ASSUME NEW call, NEW shm, NEW used, Opened(call, shm, used)
    PROVE  \E fd, e : Connected(fd, shm, e, used)
BY DEF Opened, FreeFd, Structs, my_malloc, Connected

LEMMA OpenEffect ==
    ASSUME TypeOK, NEW name \in Names, NEW size \in FileSizes, cfs_open(name, size)
    PROVE  Nothing \/ OpensOld \/ OpensNew \/ FailsNew
<1> DEFINE call == [NoReply EXCEPT !.op = "open", !.name = name]
<1>1. call.name = name
  BY DEF NoReply
<1> HIDE DEF call
<1>2. CASE OpenExisting(call)
  <2>1. Find(name) \in Entries
    BY <1>1, <1>2, FindFacts DEF OpenExisting
  <2>2. CASE Opened(call, Find(name), live)
    BY <1>1, <1>2, <2>1, <2>2, OpenedEffect DEF OpenExisting, OpensOld
  <2>3. CASE NotOpened(call, live)
    BY <1>2, <2>3 DEF OpenExisting, NotOpened, Nothing
  <2> QED BY <1>1, <1>2, <2>2, <2>3 DEF OpenExisting
<1>3. CASE OpenNew(call, size)
  <2>1. PICK m \in Memory :
           \/ /\ NULL \in {m[1], m[2]}
              /\ NotOpened(call, live)
              /\ UNCHANGED <<entry, shm_list>>
           \/ /\ NULL \notin {m[1], m[2]}
              /\ entry' = [entry EXCEPT ![m[2]] =
                     [name |-> name, malloc_ptr |-> m[1], size |-> size]]
              /\ shm_list' = <<m[2]>> \o shm_list
              /\ Opened(call, m[2], live \union {m[1], m[2]}) \/ NotOpened(call, live)
    BY <1>1, <1>3 DEF OpenNew
  <2>2. CASE NULL \in {m[1], m[2]}
    BY <2>1, <2>2 DEF NotOpened, Nothing
  <2>3. CASE NULL \notin {m[1], m[2]}
    <3>1. Linked(m[2], m[1], name, size)
      BY <1>1, <1>3, <2>1, <2>3, FindFacts DEF Linked, Memory, my_malloc, OpenNew
    <3>2. CASE Opened(call, m[2], live \union {m[1], m[2]})
      <4>1. PICK fd, e : Connected(fd, m[2], e, live \union {m[1], m[2]})
        BY <3>2, OpenedEffect
      <4>2. live \union {m[1], m[2]} = live \union {m[2], m[1]}
        OBVIOUS
      <4> QED BY ONLY <3>1, <4>1, <4>2 DEF OpensNew
    <3>3. CASE NotOpened(call, live)
      BY <3>1, <3>3 DEF NotOpened, FailsNew
    <3> QED BY <2>1, <2>3, <3>2, <3>3
  <2> QED BY <2>2, <2>3
<1> QED BY <1>2, <1>3 DEF cfs_open, call

\* A move of a descriptor that is valid only where it stays in the file.
LEMMA MoveEffect ==
    ASSUME TypeOK, NEW call, NEW fd \in FDs, call.fd = fd, open_fd_cache[fd] # NULL,
           NEW offset \in OffsetT, NEW valid, Move(call, offset, valid),
           valid /\ 0 <= open_fd_cache[fd].offset =>
               offset \in 0 .. entry[open_fd_cache[fd].shm].size
    PROVE  Nothing \/ Moves
<1>1. CASE ~valid
  BY <1>1 DEF Move, Fail, Nothing
<1>2. CASE valid
  BY <1>2 DEF Move, Moves
<1> QED BY <1>1, <1>2 DEF Move

LEMMA TransferEffect ==
    ASSUME TypeOK, NEW op, NEW fd \in FDs, Transfer(op, fd)
    PROVE  Nothing \/ Moves
<1> DEFINE call == [NoReply EXCEPT !.op = op, !.fd = fd]
           e    == open_fd_cache[fd]
<1>1. CASE e = NULL
  BY <1>1 DEF Transfer, Fail, Nothing
<1>2. CASE e # NULL
  <2>1. e \in Connection
    BY <1>2 DEF TypeOK, Connection
  <2>2. entry[e.shm].size \in 0..INT_MAX
    BY <2>1, EntryFacts DEF Connection
  <2>3. e.offset \in Int /\ e.offset + 1 \in Int
    <3>1. e.offset \in OffsetT
      BY <2>1 DEF Connection
    <3>2. \A o \in OffsetT : o \in Int /\ o + 1 \in Int
      BY OffsetFacts
    <3> QED BY ONLY <3>1, <3>2, Zenon
  <2>4. Wrap(e.offset + 1) \in OffsetT
    BY <2>3, WrapFacts
  <2>5. e.offset < entry[e.shm].size /\ 0 <= e.offset =>
            Wrap(e.offset + 1) \in 0 .. entry[e.shm].size
    <3> SUFFICES ASSUME e.offset < entry[e.shm].size, 0 <= e.offset
                 PROVE  Wrap(e.offset + 1) \in 0 .. entry[e.shm].size
      OBVIOUS
    <3>1. e.offset + 1 \in 0 .. entry[e.shm].size /\ e.offset + 1 \in 0 .. INT_MAX
      BY <2>2, <2>3, IntMax
    <3> QED BY <2>3, <3>1, WrapFacts
  <2>6. call.fd = fd
    BY DEF NoReply
  <2>7. Move(call, Wrap(e.offset + 1), e.offset < entry[e.shm].size)
    BY <1>2 DEF Transfer
  <2> HIDE DEF call
  <2> QED BY <1>2, <2>4, <2>5, <2>6, <2>7, MoveEffect
<1> QED BY <1>1, <1>2

LEMMA SeekEffect ==
    ASSUME TypeOK, NEW fd \in FDs, NEW offset \in Offsets,
           NEW whence \in {CFS_SEEK_SET, CFS_SEEK_CUR, CFS_SEEK_END},
           cfs_seek(fd, offset, whence)
    PROVE  Nothing \/ Moves
<1> DEFINE call == [NoReply EXCEPT !.op = "seek", !.fd = fd]
           e    == open_fd_cache[fd]
           new  == IF whence = CFS_SEEK_SET THEN offset ELSE Wrap(e.offset + offset)
           valid == whence \in {CFS_SEEK_SET, CFS_SEEK_CUR} /\ InFile(new, e)
<1>1. CASE e = NULL
  BY <1>1 DEF cfs_seek, Fail, Nothing
<1>2. CASE e # NULL
  <2>1. e \in Connection
    BY <1>2 DEF TypeOK, Connection
  <2>2. entry[e.shm].size \in 0..INT_MAX
    BY <2>1, EntryFacts DEF Connection
  <2>3. new \in OffsetT
    <3>1. e.offset \in Int /\ offset \in Int /\ offset \in OffsetT
      BY <2>1, OffsetFacts DEF Connection, ShmAssumption
    <3>2. e.offset + offset \in Int
      BY <3>1
    <3> QED BY <3>1, <3>2, WrapFacts
  <2>4. valid => new \in 0 .. entry[e.shm].size
    <3> HIDE DEF new
    <3>1. new \in Int
      BY ONLY <2>3, OffsetFacts
    <3>2. entry[e.shm].size \in Int
      BY <2>2, IntMax
    <3> QED BY <3>1, <3>2 DEF InFile
  <2>5. call.fd = fd
    BY DEF NoReply
  <2>6. Move(call, new, valid)
    BY <1>2 DEF cfs_seek
  <2> HIDE DEF call, new, valid
  <2> QED BY <1>2, <2>3, <2>4, <2>5, <2>6, MoveEffect
<1> QED BY <1>1, <1>2

LEMMA CloseEffect ==
    ASSUME NEW fd \in FDs, cfs_close(fd)
    PROVE  Nothing \/ Disconnects
BY DEF cfs_close, Fail, Nothing, Disconnects

LEMMA RemoveEffect ==
    ASSUME TypeOK, NEW name \in Names, cfs_remove(name)
    PROVE  Nothing \/ Unlinks
<1>1. CASE Find(name) = NULL
  BY <1>1 DEF cfs_remove, Nothing
<1>2. CASE Find(name) # NULL
  <2>1. Find(name) \in Entries /\ entry[Find(name)].name = name
    BY <1>2, FindFacts
  <2> QED BY <1>2, <2>1 DEF cfs_remove, Unlinks
<1> QED BY <1>1, <1>2

\* Every step is one of the seven.
LEMMA Effects ==
    ASSUME TypeOK, Next
    PROVE  Nothing \/ OpensOld \/ OpensNew \/ FailsNew \/ Disconnects \/ Moves \/ Unlinks
BY OpenEffect, TransferEffect, SeekEffect, CloseEffect, RemoveEffect DEF Next

-----------------------------------------------------------------------------
(* The types, and unique names *)

LEMMA UnlinkFacts ==
    ASSUME NEW S, NEW s \in Seq(S), NEW x \in ToSet(s)
    PROVE  /\ Unlink(s, x) \in Seq(S)
           /\ ToSet(Unlink(s, x)) \subseteq ToSet(s)
           /\ IsInjective(s) => /\ ToSet(Unlink(s, x)) = ToSet(s) \ {x}
                               /\ IsInjective(Unlink(s, x))
<1> DEFINE k == CHOOSE i \in 1..Len(s) : s[i] = x
<1>1. k \in 1..Len(s) /\ s[k] = x
  BY ListPositions
<1>2. Unlink(s, x) = RemoveAt(s, k)
  BY DEF Unlink
<1> HIDE DEF k
<1> DEFINE front == SubSeq(s, 1, k-1)
           back  == SubSeq(s, k+1, Len(s))
<1>3. /\ front \in Seq(S) /\ \A i \in 1..Len(front) : front[i] = s[i] /\ i \in 1..Len(s)
      /\ back \in Seq(S) /\ \A i \in 1..Len(back) : back[i] = s[i+k] /\ i + k \in 1..Len(s)
  BY <1>1, SMTT(30)
<1> HIDE DEF front, back
<1>4. ToSet(front) \subseteq ToSet(s) /\ ToSet(back) \subseteq ToSet(s)
  <2>1. \A i \in 1..Len(s) : s[i] \in ToSet(s)
    BY ListPositions
  <2>2. \A y \in ToSet(front) : \E i \in 1..Len(front) : front[i] = y
    BY <1>3, ListPositions
  <2>3. \A y \in ToSet(back) : \E i \in 1..Len(back) : back[i] = y
    BY <1>3, ListPositions
  <2>4. ASSUME NEW y \in ToSet(front) PROVE y \in ToSet(s)
    <3>1. PICK i \in 1..Len(front) : front[i] = y
      BY <2>2
    <3> QED BY <1>3, <2>1, <3>1, Zenon
  <2>5. ASSUME NEW y \in ToSet(back) PROVE y \in ToSet(s)
    <3>1. PICK i \in 1..Len(back) : back[i] = y
      BY <2>3
    <3>2. back[i] = s[i+k] /\ i + k \in 1..Len(s)
      BY <1>3, <3>1, Zenon
    <3> QED BY <2>1, <3>1, <3>2, Zenon
  <2> QED BY <2>4, <2>5, Zenon
<1>5. RemoveAt(s, k) = front \o back
  BY DEF RemoveAt, front, back
<1>6. front \o back \in Seq(S) /\ ToSet(front \o back) = ToSet(front) \union ToSet(back)
  BY <1>3, ListConcat
<1>7. ASSUME IsInjective(s)
      PROVE  ToSet(RemoveAt(s, k)) = ToSet(s) \ {x} /\ IsInjective(RemoveAt(s, k))
  BY <1>1, <1>7, ListRemoveAt
<1> QED BY <1>2, <1>4, <1>5, <1>6, <1>7

LEMMA InitFacts == Init => TypeOK /\ NamesUnique /\ OnePurpose /\ PositionInFile
<1> SUFFICES ASSUME Init PROVE TypeOK /\ NamesUnique /\ OnePurpose /\ PositionInFile
  OBVIOUS
<1>1. Entries = {} /\ OpenFds = {} /\ IsInjective(shm_list) /\ shm_list \in Seq(Block)
  BY ListEmpty DEF Init, Entries, OpenFds
<1>2. TypeOK
  BY <1>1 DEF Init, TypeOK, NoEntry
<1> QED BY <1>1, <1>2 DEF NamesUnique, OnePurpose, PositionInFile

LEMMA TypeStep == TypeOK /\ [Next]_vars => TypeOK'
<1> SUFFICES ASSUME TypeOK, [Next]_vars PROVE TypeOK'
  OBVIOUS
<1>1. CASE Nothing \/ UNCHANGED vars
  BY <1>1 DEF TypeOK, Nothing, vars
<1>2. ASSUME NEW fd, NEW e, NEW shm \in Block, NEW used \in SUBSET Block, Connected(fd, shm, e, used)
      PROVE  /\ live' \subseteq Block
             /\ open_fd_cache' \in [FDs -> [shm : Block, offset : OffsetT, at : Block] \union {NULL}]
  BY <1>2, OffsetFacts DEF Connected, TypeOK
<1>3. ASSUME NEW new, NEW data, NEW name, NEW size, Linked(new, data, name, size)
      PROVE  /\ entry' \in [Block -> [name : Names \union {NULL}, malloc_ptr : Block \union {NULL},
                                     size : FileSizes \union {0}]]
             /\ shm_list' \in Seq(Block)
  BY <1>3, ListCons DEF Linked, TypeOK
<1>4. CASE OpensOld
  BY <1>2, <1>4, EntryFacts DEF OpensOld, TypeOK
<1>5. CASE OpensNew
  <2>1. PICK fd, e, new, data, name, size :
           Linked(new, data, name, size) /\ Connected(fd, new, e, live \union {new, data})
    BY <1>5 DEF OpensNew
  <2>2. new \in Block /\ live \union {new, data} \in SUBSET Block
    BY <2>1 DEF Linked, TypeOK
  <2> QED BY <1>2, <1>3, <2>1, <2>2 DEF TypeOK
<1>6. CASE FailsNew
  BY <1>3, <1>6 DEF FailsNew, TypeOK
<1>7. CASE Disconnects
  BY <1>7 DEF Disconnects, TypeOK
<1>8. CASE Moves
  <2>1. PICK fd \in FDs, offset \in OffsetT :
           /\ open_fd_cache[fd] # NULL
           /\ open_fd_cache' = [open_fd_cache EXCEPT ![fd].offset = offset]
           /\ UNCHANGED <<live, entry, shm_list>>
    BY <1>8 DEF Moves
  <2>2. open_fd_cache[fd] \in [shm : Block, offset : OffsetT, at : Block]
    BY <2>1 DEF TypeOK
  <2> QED BY <2>1, <2>2 DEF TypeOK
<1>9. CASE Unlinks
  <2>1. PICK cur \in Entries :
           shm_list' = Unlink(shm_list, cur) /\ live' = live \ {cur} /\ UNCHANGED <<entry, open_fd_cache>>
    BY <1>9 DEF Unlinks
  <2> QED BY <2>1, UnlinkFacts DEF TypeOK, Entries
<1> QED BY <1>1, <1>4, <1>5, <1>6, <1>7, <1>8, <1>9, Effects

LEMMA NamesStep == TypeOK /\ NamesUnique /\ [Next]_vars => NamesUnique'
<1> SUFFICES ASSUME TypeOK, NamesUnique, [Next]_vars PROVE NamesUnique'
  OBVIOUS
<1>1. CASE UNCHANGED <<entry, shm_list>>
  BY <1>1 DEF NamesUnique, Entries
<1>2. ASSUME NEW new, NEW data, NEW name, NEW size, Linked(new, data, name, size)
      PROVE  NamesUnique'
  <2>1. Entries' = {new} \union Entries
    BY <1>2, ListCons DEF Linked, TypeOK, Entries
  <2>2. /\ entry'[new].name = name
        /\ \A e \in Entries : e # new => entry'[e].name = entry[e].name /\ entry[e].name # name
    BY <1>2, EntryFacts DEF Linked, TypeOK
  <2> QED BY <2>1, <2>2 DEF NamesUnique
<1>3. CASE Unlinks
  <2>1. Entries' \subseteq Entries /\ UNCHANGED entry
    BY <1>3, UnlinkFacts DEF Unlinks, TypeOK, Entries
  <2> QED BY <2>1 DEF NamesUnique
<1> QED BY <1>1, <1>2, <1>3, Effects
        DEF Nothing, OpensOld, OpensNew, FailsNew, Disconnects, Moves, vars

-----------------------------------------------------------------------------
(* Up to the first failure of an open that leaves a freed entry on the list:   *)
(* such a state is reached, but not left                                       *)

SpecToFailure == Init /\ [][Next /\ EntriesLive]_vars

\* Every variable keeps its type, until an open fails after linking its entry.
THEOREM TypeCorrect == SpecToFailure => []TypeOK
<1>1. TypeOK /\ [Next /\ EntriesLive]_vars => TypeOK'
  BY TypeStep
<1> QED BY <1>1, InitFacts, PTL DEF SpecToFailure

\* Until then a name is listed once, whatever is created and removed (cfs_open,
\* cfs_remove).
THEOREM NamesStayUnique == SpecToFailure => []NamesUnique
<1>1. TypeOK /\ NamesUnique /\ [Next /\ EntriesLive]_vars => (TypeOK /\ NamesUnique)'
  BY TypeStep, NamesStep
<1> QED BY <1>1, InitFacts, PTL DEF SpecToFailure

\* What OnePurpose says of a state in which all entries are live.
Purposes ==
    /\ IsInjective(shm_list)
    /\ \A d, e \in Entries :
          /\ entry[d].malloc_ptr # e
          /\ entry[d].malloc_ptr = entry[e].malloc_ptr => d = e
    /\ \A fd \in OpenFds :
          /\ open_fd_cache[fd].at \in live
          /\ \A e \in Entries : open_fd_cache[fd].at \notin {e, entry[e].malloc_ptr}
          /\ \A g \in OpenFds : open_fd_cache[fd].at = open_fd_cache[g].at => fd = g

LEMMA PurposesForm == OnePurpose <=> (EntriesLive => Purposes)
BY DEF OnePurpose, Purposes
LEMMA Live ==
    ASSUME TypeOK, EntriesLive
    PROVE  \A e \in Entries : e \in live /\ entry[e].malloc_ptr \in live
BY DEF EntriesLive

\* Blocks that were not in use get a new purpose and keep all others apart.
LEMMA ConnectedPurposes ==
    ASSUME TypeOK, NEW fd, NEW shm, NEW e, NEW used, live \subseteq used,
           Connected(fd, shm, e, used), IsInjective(shm_list'),
           \A c, d \in Entries' :
              /\ entry'[d].malloc_ptr # c
              /\ entry'[c].malloc_ptr = entry'[d].malloc_ptr => c = d,
           \A d \in Entries' : d \in used /\ entry'[d].malloc_ptr \in used,
           \A g \in OpenFds :
              /\ open_fd_cache[g].at \in live
              /\ \A d \in Entries' : open_fd_cache[g].at \notin {d, entry'[d].malloc_ptr}
              /\ \A h \in OpenFds : open_fd_cache[g].at = open_fd_cache[h].at => g = h
    PROVE  Purposes'
<1>1. OpenFds' \subseteq OpenFds \union {fd}
  BY DEF Connected, OpenFds, TypeOK
<1>2. /\ open_fd_cache'[fd].at = e
      /\ \A g \in OpenFds : g # fd => open_fd_cache'[g] = open_fd_cache[g]
  BY DEF Connected, TypeOK, OpenFds
<1>3. e \notin used /\ live' = used \union {e} /\ fd \notin OpenFds
  BY DEF Connected, OpenFds
<1>4. \A g \in OpenFds' :
         /\ open_fd_cache'[g].at \in live'
         /\ \A d \in Entries' : open_fd_cache'[g].at \notin {d, entry'[d].malloc_ptr}
         /\ \A h \in OpenFds' : open_fd_cache'[g].at = open_fd_cache'[h].at => g = h
  BY <1>1, <1>2, <1>3
<1> QED BY ONLY <1>4, IsInjective(shm_list'),
           \A c, d \in Entries' :
              /\ entry'[d].malloc_ptr # c
              /\ entry'[c].malloc_ptr = entry'[d].malloc_ptr => c = d
        DEF Purposes

LEMMA PurposeStep ==
    TypeOK /\ OnePurpose /\ [Next /\ EntriesLive]_vars => OnePurpose'
<1> SUFFICES ASSUME TypeOK, OnePurpose, [Next /\ EntriesLive]_vars, EntriesLive' PROVE Purposes'
  BY DEF OnePurpose, Purposes
<1>1. CASE UNCHANGED vars
  <2>1. EntriesLive
    BY <1>1 DEF vars, EntriesLive, Entries
  <2>2. Purposes
    BY <2>1, PurposesForm
  <2> QED BY <1>1, <2>2 DEF vars, Purposes, Entries, OpenFds
<1>2. CASE Next /\ EntriesLive
  <2>1. Purposes
    BY <1>2, PurposesForm
  <2>2. \A e \in Entries : e \in live /\ entry[e].malloc_ptr \in live
    BY <1>2, Live
  <2>3. CASE Nothing
    BY <2>1, <2>3 DEF Nothing, Purposes, Entries, OpenFds
  <2>4. CASE OpensOld
    <3>1. PICK fd, e : \E shm \in Entries :
             Connected(fd, shm, e, live) /\ UNCHANGED <<entry, shm_list>>
      BY <2>4 DEF OpensOld
    <3>2. Entries' = Entries
      BY <3>1 DEF Entries
    <3> QED BY <2>1, <2>2, <3>1, <3>2, ConnectedPurposes DEF Purposes
  <2>5. CASE OpensNew
    <3>1. PICK fd, e, new, data, name, size :
             Linked(new, data, name, size) /\ Connected(fd, new, e, live \union {new, data})
      BY <2>5 DEF OpensNew
    <3>2. Entries' = {new} \union Entries /\ IsInjective(shm_list')
      BY <2>1, <2>2, <3>1, ListCons DEF Linked, TypeOK, Entries, Purposes
    <3>3. /\ entry'[new].malloc_ptr = data
          /\ \A d \in Entries : entry'[d] = entry[d]
      BY <2>2, <3>1, EntryFacts DEF Linked, TypeOK
    <3>4. new \notin live /\ data \notin live /\ new # data
      BY <3>1 DEF Linked
    <3>5. \A c, d \in Entries' :
             /\ entry'[d].malloc_ptr # c
             /\ entry'[c].malloc_ptr = entry'[d].malloc_ptr => c = d
      BY <2>1, <2>2, <3>2, <3>3, <3>4 DEF Purposes
    <3>6. \A d \in Entries' : d \in live \union {new, data} /\ entry'[d].malloc_ptr \in live \union {new, data}
      BY <2>2, <3>2, <3>3
    <3>7. \A g \in OpenFds :
             /\ open_fd_cache[g].at \in live
             /\ \A d \in Entries' : open_fd_cache[g].at \notin {d, entry'[d].malloc_ptr}
             /\ \A h \in OpenFds : open_fd_cache[g].at = open_fd_cache[h].at => g = h
      BY <2>1, <3>2, <3>3, <3>4 DEF Purposes
    <3> QED BY <3>1, <3>2, <3>5, <3>6, <3>7, ConnectedPurposes
  <2>6. CASE FailsNew
    <3>1. PICK new : new \notin live /\ live' = live /\ shm_list' = <<new>> \o shm_list /\ new \in Block
      BY <2>6 DEF FailsNew, Linked
    <3>2. new \in Entries'
      BY <3>1, ListCons DEF TypeOK, Entries
    <3> QED BY <3>1, <3>2 DEF EntriesLive
  <2>7. CASE Disconnects
    <3>1. PICK fd \in FDs :
             /\ open_fd_cache[fd] # NULL
             /\ live' = live \ {open_fd_cache[fd].at}
             /\ open_fd_cache' = [open_fd_cache EXCEPT ![fd] = NULL]
             /\ UNCHANGED <<entry, shm_list>>
      BY <2>7 DEF Disconnects
    <3>2. Entries' = Entries /\ fd \in OpenFds /\ OpenFds' = OpenFds \ {fd}
      BY <3>1 DEF Entries, OpenFds, TypeOK
    <3>3. \A g \in OpenFds' : open_fd_cache'[g] = open_fd_cache[g]
      BY <3>1 DEF OpenFds, TypeOK
    <3> QED BY <2>1, <3>1, <3>2, <3>3 DEF Purposes
  <2>8. CASE Moves
    <3>1. PICK fd \in FDs, offset \in OffsetT :
             /\ open_fd_cache[fd] # NULL
             /\ open_fd_cache' = [open_fd_cache EXCEPT ![fd].offset = offset]
             /\ UNCHANGED <<live, entry, shm_list>>
      BY <2>8 DEF Moves
    <3>2. Entries' = Entries
      BY <3>1 DEF Entries
    <3>3. open_fd_cache[fd] \in Connection
      BY <3>1 DEF TypeOK, Connection
    <3>4. OpenFds' \subseteq OpenFds
      BY <3>1 DEF OpenFds, TypeOK
    <3>5. \A g \in OpenFds : open_fd_cache'[g].at = open_fd_cache[g].at
      BY <3>1, <3>3 DEF OpenFds, TypeOK, Connection
    <3> QED BY <2>1, <3>1, <3>2, <3>4, <3>5 DEF Purposes
  <2>9. CASE Unlinks
    <3>1. PICK cur \in Entries :
             /\ shm_list' = Unlink(shm_list, cur) /\ live' = live \ {cur}
             /\ UNCHANGED <<entry, open_fd_cache>>
      BY <2>9 DEF Unlinks
    <3>2. Entries' = Entries \ {cur} /\ IsInjective(shm_list')
      BY <2>1, <3>1, UnlinkFacts DEF TypeOK, Entries, Purposes
    <3>3. OpenFds' = OpenFds
      BY <3>1 DEF OpenFds
    <3> QED BY <2>1, <3>1, <3>2, <3>3 DEF Purposes
  <2> QED BY <1>2, <2>3, <2>4, <2>5, <2>6, <2>7, <2>8, <2>9, Effects
<1> QED BY <1>1, <1>2

\* Only a block that was in use and connected is where a descriptor stands, so
\* nothing that is created or removed gets between it and its file.
LEMMA PositionStep ==
    TypeOK /\ OnePurpose /\ PositionInFile /\ [Next /\ EntriesLive]_vars => PositionInFile'
<1> SUFFICES ASSUME TypeOK, OnePurpose, PositionInFile, [Next /\ EntriesLive]_vars
             PROVE  PositionInFile'
  OBVIOUS
<1>1. CASE UNCHANGED vars
  BY <1>1 DEF vars, PositionInFile, OpenFds, Entries
<1>2. CASE Next /\ EntriesLive
  <2>1. IsInjective(shm_list) /\ \A e \in Entries : e \in live
    BY <1>2 DEF OnePurpose, EntriesLive
  <2>2. \A fd \in OpenFds : open_fd_cache[fd] \in Connection
    BY DEF OpenFds, TypeOK, Connection
  <2>3. ASSUME NEW fd, NEW shm \in Entries', NEW e, NEW used, Connected(fd, shm, e, used),
               \A d \in Entries : d \in Entries' /\ entry'[d] = entry[d], TypeOK'
        PROVE  PositionInFile'
    <3>1. /\ OpenFds' \subseteq OpenFds \union {fd} /\ open_fd_cache'[fd].shm = shm
          /\ open_fd_cache'[fd].offset = 0
          /\ \A g \in OpenFds : g # fd => open_fd_cache'[g] = open_fd_cache[g]
      BY <2>3 DEF Connected, OpenFds, TypeOK
    <3>2. \A d \in Entries' : 0 \in 0 .. entry'[d].size
      <4>1. Entries' \subseteq Block
        BY <2>3, ListElements DEF TypeOK, Entries
      <4>2. \A n \in FileSizes \union {0} : 0 \in 0..n
        BY IntMax DEF ShmAssumption
      <4> QED BY <2>3, <4>1, <4>2 DEF TypeOK
    <3>3. \A g \in OpenFds : /\ open_fd_cache[g].shm \in Entries
                             /\ open_fd_cache[g].offset \in 0 .. entry[open_fd_cache[g].shm].size
      BY DEF PositionInFile
    <3> QED BY ONLY <2>3, <3>1, <3>2, <3>3 DEF PositionInFile
  <2>4. TypeOK'
    BY <1>2, TypeStep
  <2>5. CASE Nothing
    BY <2>5 DEF Nothing, PositionInFile, OpenFds, Entries
  <2>6. CASE OpensOld
    <3>1. PICK fd, e : \E shm \in Entries :
             Connected(fd, shm, e, live) /\ UNCHANGED <<entry, shm_list>>
      BY <2>6 DEF OpensOld
    <3>2. Entries' = Entries /\ entry' = entry
      BY <3>1 DEF Entries
    <3> QED BY <2>3, <2>4, <3>1, <3>2
  <2>7. ASSUME NEW new, NEW data, NEW name, NEW size, Linked(new, data, name, size)
        PROVE  new \in Entries' /\ \A d \in Entries : d \in Entries' /\ entry'[d] = entry[d]
    <3>1. Entries' = {new} \union Entries
      BY <2>7, ListCons DEF Linked, TypeOK, Entries
    <3>2. \A d \in Entries : entry'[d] = entry[d]
      BY <2>1, <2>7, EntryFacts DEF Linked, TypeOK
    <3> QED BY <3>1, <3>2
  <2>8. CASE OpensNew
    BY <2>3, <2>4, <2>7, <2>8 DEF OpensNew
  <2>9. CASE FailsNew
    <3>1. open_fd_cache' = open_fd_cache /\ \A d \in Entries : d \in Entries' /\ entry'[d] = entry[d]
      BY <2>7, <2>9 DEF FailsNew
    <3> QED BY <3>1 DEF PositionInFile, OpenFds
  <2>10. CASE Disconnects
    <3>1. /\ \A g \in OpenFds' : g \in OpenFds /\ open_fd_cache'[g] = open_fd_cache[g]
          /\ Entries' = Entries /\ entry' = entry
      BY <2>10 DEF Disconnects, OpenFds, TypeOK, Entries
    <3> QED BY <3>1 DEF PositionInFile
  <2>11. CASE Moves
    <3>1. PICK fd \in FDs, offset \in OffsetT :
             /\ open_fd_cache[fd] # NULL
             /\ 0 <= open_fd_cache[fd].offset => offset \in 0 .. entry[open_fd_cache[fd].shm].size
             /\ open_fd_cache' = [open_fd_cache EXCEPT ![fd].offset = offset]
             /\ UNCHANGED <<live, entry, shm_list>>
      BY <2>11 DEF Moves
    <3>2. Entries' = Entries /\ entry' = entry /\ fd \in OpenFds
      BY <3>1 DEF Entries, OpenFds
    <3>3. OpenFds' \subseteq OpenFds
      BY <3>1 DEF OpenFds, TypeOK
    <3>4. 0 <= open_fd_cache[fd].offset
      <4>1. open_fd_cache[fd].shm \in Block
        BY <2>2, <3>2 DEF Connection
      <4>2. entry[open_fd_cache[fd].shm].size \in Int
        BY <4>1, EntryFacts, IntMax
      <4> QED BY <3>2, <4>2 DEF PositionInFile
    <3>5. /\ open_fd_cache'[fd].shm = open_fd_cache[fd].shm /\ open_fd_cache'[fd].offset = offset
          /\ \A g \in OpenFds : g # fd => open_fd_cache'[g] = open_fd_cache[g]
      BY <2>2, <3>1, <3>2 DEF Connection, OpenFds, TypeOK
    <3> QED BY <3>1, <3>2, <3>3, <3>4, <3>5 DEF PositionInFile
  <2>12. CASE Unlinks
    <3>1. PICK cur \in Entries :
             /\ \A fd \in FDs : open_fd_cache[fd] # NULL => open_fd_cache[fd].shm # cur
             /\ shm_list' = Unlink(shm_list, cur) /\ UNCHANGED <<entry, open_fd_cache>>
      BY <2>12 DEF Unlinks
    <3>2. Entries' = Entries \ {cur}
      BY <2>1, <3>1, UnlinkFacts DEF TypeOK, Entries
    <3> QED BY <3>1, <3>2 DEF PositionInFile, OpenFds
  <2> QED BY <1>2, <2>5, <2>6, <2>8, <2>9, <2>10, <2>11, <2>12, Effects
<1> QED BY <1>1, <1>2

\* Every block in use has one purpose, for any order in which memory and
\* descriptors run out (my_malloc, my_free).
THEOREM MemoryHasOnePurpose == SpecToFailure => []OnePurpose
<1>1. TypeOK /\ OnePurpose /\ [Next /\ EntriesLive]_vars => (TypeOK /\ OnePurpose)'
  BY TypeStep, PurposeStep
<1> QED BY <1>1, InitFacts, PTL DEF SpecToFailure

\* Descriptors lead to listed files and stand in them, wherever clients seek.
THEOREM PositionsStayInFile == SpecToFailure => []PositionInFile
<1> DEFINE I == TypeOK /\ OnePurpose /\ PositionInFile
<1>1. I /\ [Next /\ EntriesLive]_vars => I'
  BY TypeStep, PurposeStep, PositionStep
<1> QED BY <1>1, InitFacts, PTL DEF SpecToFailure

-----------------------------------------------------------------------------
(* The contract of the front-end's model *)

NamesListed == \A e \in Entries : entry[e].name \in Names

LEMMA ListedStep == TypeOK /\ NamesListed /\ [Next]_vars => NamesListed'
<1> SUFFICES ASSUME TypeOK, NamesListed, [Next]_vars PROVE NamesListed'
  OBVIOUS
<1>1. CASE UNCHANGED <<entry, shm_list>>
  BY <1>1 DEF NamesListed, Entries
<1>2. ASSUME NEW new, NEW data, NEW name, NEW size, Linked(new, data, name, size)
      PROVE  NamesListed'
  <2>1. Entries' = {new} \union Entries
    BY <1>2, ListCons DEF Linked, TypeOK, Entries
  <2>2. /\ entry'[new].name = name /\ name \in Names
        /\ \A e \in Entries : e # new => entry'[e] = entry[e]
    BY <1>2, EntryFacts DEF Linked, TypeOK
  <2> QED BY <2>1, <2>2 DEF NamesListed
<1>3. CASE Unlinks
  <2>1. Entries' \subseteq Entries /\ UNCHANGED entry
    BY <1>3, UnlinkFacts DEF Unlinks, TypeOK, Entries
  <2> QED BY <2>1 DEF NamesListed
<1> QED BY <1>1, <1>2, <1>3, Effects
        DEF vars, Nothing, OpensOld, OpensNew, FailsNew, Disconnects, Moves

\* What the model of the front-end says of the back-end, in terms of this one.
LEMMA ContractForm ==
    ASSUME NEW name
    PROVE  F!cfs_open(name) =
                {[fd |-> FAILURE, dir |-> d] : d \in {Dir, Dir \union {name}}}
                    \union
                {[fd |-> fd, dir |-> Dir \union {name}] :
                    fd \in {f \in FDs : /\ FdName(f) = NULL
                                        /\ \A g \in FDs : FdName(g) = NULL => f <= g}}
<1>1. F!Dir = Dir /\ F!FDs = FDs /\ F!FAILURE = FAILURE
  BY DEF F!Dir, F!FDs, FDs, F!FAILURE, FAILURE
<1>2. F!FreeFds = {f \in FDs : FdName(f) = NULL}
  BY <1>1 DEF F!FreeFds
<1>3. {f \in F!FreeFds : \A g \in F!FreeFds : f <= g}
        = {f \in FDs : FdName(f) = NULL /\ \A g \in FDs : FdName(g) = NULL => f <= g}
  BY <1>2
<1> QED BY <1>1, <1>3 DEF F!cfs_open

LEMMA RemoveForm ==
    ASSUME NEW name
    PROVE  [ok |-> TRUE, dir |-> Dir \ {name}] \in F!cfs_remove(name)
<1>1. F!Dir = Dir
  BY DEF F!Dir
<1> QED BY <1>1 DEF F!cfs_remove

\* A descriptor has no name exactly if it is free.
LEMMA FdNameNull ==
    ASSUME TypeOK, NamesListed, PositionInFile, NEW fd \in FDs
    PROVE  /\ FdName(fd) = NULL <=> open_fd_cache[fd] = NULL
           /\ open_fd_cache[fd] # NULL => open_fd_cache[fd].shm \in Entries
BY DEF FdName, NamesListed, PositionInFile, OpenFds, ShmAssumption

\* A descriptor keeps its name if it stays connected to the same, unchanged entry.
LEMMA FdNameKept ==
    ASSUME TypeOK, NamesListed, PositionInFile, NEW fd \in FDs,
           open_fd_cache'[fd] = NULL <=> open_fd_cache[fd] = NULL,
           open_fd_cache[fd] # NULL => open_fd_cache'[fd].shm = open_fd_cache[fd].shm,
           \A e \in Entries : entry'[e] = entry[e]
    PROVE  FdName(fd)' = FdName(fd)
BY FdNameNull DEF FdName

LEMMA DirKept ==
    ASSUME Entries' = Entries, \A e \in Entries : entry'[e] = entry[e]
    PROVE  Dir' = Dir
BY DEF Dir

\* What KeepsContract says of a step that opens a file.
LEMMA OpenKeeps ==
    ASSUME TypeOK, NamesListed, PositionInFile, EntriesLive,
           NEW name \in Names, NEW size \in FileSizes, cfs_open(name, size)
    PROVE  /\ reply'.op = "open" /\ reply'.name = name
           /\ [fd |-> reply'.result, dir |-> Dir'] \in F!cfs_open(name)
           /\ \A fd \in FDs \cap {reply'.result} : FdName(fd)' = name
           /\ \A fd \in FDs \ {reply'.result} : FdName(fd)' = FdName(fd)
<1> DEFINE call == [NoReply EXCEPT !.op = "open", !.name = name]
<1>1. /\ call.name = name
      /\ \A fd, r : LET c == [call EXCEPT !.fd = fd, !.result = r]
                    IN  c.op = "open" /\ c.name = name /\ c.result = r
      /\ \A r : LET c == [call EXCEPT !.result = r]
                IN  c.op = "open" /\ c.name = name /\ c.result = r
  BY DEF NoReply
<1> HIDE DEF call
<1>2. FAILURE \notin FDs /\ NULL \notin Names
  BY DEF FAILURE, FDs, ShmAssumption
<1>3. open_fd_cache \in [FDs -> [shm : Block, offset : OffsetT, at : Block] \union {NULL}]
  BY DEF TypeOK
<1>4. ASSUME NEW used, NotOpened(call, used), \A e \in Entries : entry'[e] = entry[e],
             Dir' \in {Dir, Dir \union {name}}
      PROVE  /\ reply'.op = "open" /\ reply'.name = name
             /\ [fd |-> reply'.result, dir |-> Dir'] \in F!cfs_open(name)
             /\ \A fd \in FDs \cap {reply'.result} : FdName(fd)' = name
             /\ \A fd \in FDs \ {reply'.result} : FdName(fd)' = FdName(fd)
  <2>1. reply'.op = "open" /\ reply'.name = name /\ reply'.result = FAILURE
        /\ UNCHANGED open_fd_cache
    BY <1>1, <1>4 DEF NotOpened
  <2>2. \A fd \in FDs : FdName(fd)' = FdName(fd)
    BY <1>4, <2>1, FdNameKept
  <2> QED BY <1>2, <1>4, <2>1, <2>2, ContractForm
<1>5. ASSUME NEW shm \in Block, NEW used, Opened(call, shm, used), \A e \in Entries : entry'[e] = entry[e],
             entry'[shm].name = name, Dir' = Dir \union {name}
      PROVE  /\ reply'.op = "open" /\ reply'.name = name
             /\ [fd |-> reply'.result, dir |-> Dir'] \in F!cfs_open(name)
             /\ \A fd \in FDs \cap {reply'.result} : FdName(fd)' = name
             /\ \A fd \in FDs \ {reply'.result} : FdName(fd)' = FdName(fd)
  <2>1. PICK fd \in FreeFd, e \in Structs(used) :
          /\ open_fd_cache' = [open_fd_cache EXCEPT ![fd] = [shm |-> shm, offset |-> 0, at |-> e]]
          /\ reply' = [call EXCEPT !.fd = fd, !.result = fd]
    BY <1>5 DEF Opened
  <2>2. reply'.op = "open" /\ reply'.name = name /\ reply'.result = fd
    BY <1>1, <2>1
  <2>3. fd \in FDs /\ open_fd_cache[fd] = NULL /\ \A g \in FDs : open_fd_cache[g] = NULL => fd <= g
    BY <2>1 DEF FreeFd
  <2>4. FdName(fd) = NULL /\ \A g \in FDs : FdName(g) = NULL => fd <= g
    BY <2>3, FdNameNull
  <2>5. [fd |-> fd, dir |-> Dir \union {name}] \in F!cfs_open(name)
    BY <2>3, <2>4, ContractForm
  <2>6. /\ open_fd_cache'[fd].shm = shm /\ open_fd_cache'[fd] # NULL
        /\ \A g \in FDs \ {fd} : open_fd_cache'[g] = open_fd_cache[g]
    <3> DEFINE c == [shm |-> shm, offset |-> 0, at |-> e]
    <3>1. c # NULL
      <4>1. e \in Block
        BY <2>1 DEF Structs, my_malloc
      <4>2. c \in [shm : Block, offset : OffsetT, at : Block]
        BY <1>5, <4>1, OffsetFacts
      <4> QED BY <4>2 DEF ShmAssumption
    <3>2. open_fd_cache' = [open_fd_cache EXCEPT ![fd] = c] /\ c.shm = shm
      BY <2>1
    <3> HIDE DEF c
    <3> QED BY <1>3, <2>3, <3>1, <3>2
  <2>7. FdName(fd)' = name
    BY <1>5, <2>6 DEF FdName
  <2>8. \A g \in FDs \ {fd} : FdName(g)' = FdName(g)
    BY <1>5, <2>6, FdNameKept
  <2> QED BY <1>5, <2>2, <2>5, <2>7, <2>8
<1>6. CASE OpenExisting(call)
  <2>1. Find(name) \in Entries /\ entry[Find(name)].name = name
    BY <1>1, <1>6, FindFacts DEF OpenExisting
  <2>2. UNCHANGED <<entry, shm_list>>
    BY <1>6 DEF OpenExisting
  <2>3. Dir' = Dir /\ Dir = Dir \union {name}
    BY <2>1, <2>2 DEF Dir, Entries
  <2> QED BY <1>1, <1>4, <1>5, <1>6, <2>1, <2>2, <2>3, EntryFacts DEF OpenExisting
<1>7. CASE OpenNew(call, size)
  <2>1. PICK m \in Memory :
           \/ /\ NULL \in {m[1], m[2]}
              /\ NotOpened(call, live)
              /\ UNCHANGED <<entry, shm_list>>
           \/ /\ NULL \notin {m[1], m[2]}
              /\ entry' = [entry EXCEPT ![m[2]] =
                     [name |-> name, malloc_ptr |-> m[1], size |-> size]]
              /\ shm_list' = <<m[2]>> \o shm_list
              /\ Opened(call, m[2], live \union {m[1], m[2]}) \/ NotOpened(call, live)
    BY <1>1, <1>7 DEF OpenNew
  <2>2. CASE NULL \in {m[1], m[2]}
    <3>1. Dir' = Dir
      BY <2>1, <2>2, DirKept DEF Entries
    <3> QED BY <1>4, <2>1, <2>2, <3>1
  <2>3. CASE NULL \notin {m[1], m[2]}
    <3>1. m[2] \in Block /\ m[2] \notin live
      BY <2>3 DEF Memory, my_malloc
    <3>2. Entries' = {m[2]} \union Entries
      BY <2>1, <2>3, <3>1, ListCons DEF TypeOK, Entries
    <3>3. entry'[m[2]].name = name /\ \A e \in Entries : entry'[e] = entry[e]
      BY <2>1, <2>3, <3>1, EntryFacts DEF TypeOK, EntriesLive
    <3>4. Dir' = Dir \union {name}
      BY <3>2, <3>3 DEF Dir
    <3> QED BY <1>4, <1>5, <2>1, <2>3, <3>1, <3>3, <3>4
  <2> QED BY <2>1, <2>2, <2>3
<1> QED BY <1>6, <1>7 DEF cfs_open, call

\* What KeepsContract says of a step that neither opens nor removes a file and
\* closes the descriptors in closed.
LEMMA OthersKeep ==
    ASSUME TypeOK, NamesListed, PositionInFile, UNCHANGED <<entry, shm_list>>,
           NEW closed, \A fd \in FDs \cap closed : open_fd_cache'[fd] = NULL,
           \A fd \in FDs \ closed :
              /\ open_fd_cache'[fd] = NULL <=> open_fd_cache[fd] = NULL
              /\ open_fd_cache[fd] # NULL => open_fd_cache'[fd].shm = open_fd_cache[fd].shm
    PROVE  /\ Dir' = Dir
           /\ \A fd \in FDs \cap closed : FdName(fd)' = NULL
           /\ \A fd \in FDs \ closed : FdName(fd)' = FdName(fd)
<1>1. Dir' = Dir
  BY DEF Dir, Entries
<1>2. \A fd \in FDs \cap closed : FdName(fd)' = NULL
  BY DEF FdName
<1>3. \A fd \in FDs \ closed : FdName(fd)' = FdName(fd)
  BY FdNameKept
<1> QED BY <1>1, <1>2, <1>3

LEMMA CloseKeeps ==
    ASSUME TypeOK, NamesListed, PositionInFile, NEW fd \in FDs, cfs_close(fd)
    PROVE  /\ reply'.op = "close" /\ reply'.fd = fd /\ Dir' = Dir
           /\ FdName(fd)' = NULL
           /\ \A g \in FDs \ {fd} : FdName(g)' = FdName(g)
<1> DEFINE call == [NoReply EXCEPT !.op = "close", !.fd = fd]
<1>1. /\ \A r : LET c == [call EXCEPT !.result = r] IN c.op = "close" /\ c.fd = fd
      /\ \A b : LET c == [call EXCEPT !.freed = b] IN c.op = "close" /\ c.fd = fd
  BY DEF NoReply
<1> HIDE DEF call
<1>2. /\ reply' = [call EXCEPT !.result = FAILURE] \/ \E b : reply' = [call EXCEPT !.freed = b]
      /\ UNCHANGED <<entry, shm_list>>
      /\ \/ open_fd_cache[fd] = NULL /\ UNCHANGED open_fd_cache
         \/ open_fd_cache' = [open_fd_cache EXCEPT ![fd] = NULL]
  BY DEF cfs_close, Fail, call
<1>3. /\ open_fd_cache'[fd] = NULL
      /\ \A g \in FDs \ {fd} : open_fd_cache'[g] = open_fd_cache[g]
  BY <1>2 DEF TypeOK
<1>4. FDs \cap {fd} = {fd}
  OBVIOUS
<1> QED BY <1>1, <1>2, <1>3, <1>4, OthersKeep

LEMMA MoveKeeps ==
    ASSUME TypeOK, NamesListed, PositionInFile, NEW fd \in FDs, open_fd_cache[fd] # NULL,
           NEW call, call.fd = fd, NEW offset \in OffsetT, NEW valid, Move(call, offset, valid)
    PROVE  /\ reply' = call \/ reply' = [call EXCEPT !.result = FAILURE]
           /\ Dir' = Dir /\ \A g \in FDs : FdName(g)' = FdName(g)
<1>1. /\ reply' = call \/ reply' = [call EXCEPT !.result = FAILURE]
      /\ UNCHANGED <<entry, shm_list>>
      /\ \/ UNCHANGED open_fd_cache
         \/ open_fd_cache' = [open_fd_cache EXCEPT ![fd].offset = offset]
  BY DEF Move, Fail
<1>2. ASSUME NEW g \in FDs
      PROVE  /\ open_fd_cache'[g] = NULL <=> open_fd_cache[g] = NULL
             /\ open_fd_cache[g] # NULL => open_fd_cache'[g].shm = open_fd_cache[g].shm
  <2>1. open_fd_cache[g] # NULL => open_fd_cache[g] \in Connection
    BY DEF TypeOK, Connection
  <2>2. \A c \in Connection : [c EXCEPT !.offset = offset] \in Connection
    BY DEF Connection
  <2>3. NULL \notin Connection
    BY DEF Connection, ShmAssumption
  <2>4. open_fd_cache \in [FDs -> Connection \union {NULL}]
    BY DEF TypeOK, Connection
  <2>5. CASE UNCHANGED open_fd_cache
    BY <2>5
  <2>6. CASE open_fd_cache' = [open_fd_cache EXCEPT ![fd].offset = offset]
    <3> DEFINE c == [open_fd_cache[fd] EXCEPT !.offset = offset]
    <3>1. c.shm = open_fd_cache[fd].shm /\ c # NULL
      BY <2>1, <2>2, <2>3, <2>4 DEF Connection
    <3>2. open_fd_cache' = [open_fd_cache EXCEPT ![fd] = c]
      BY <2>6
    <3> HIDE DEF c
    <3> QED BY <2>4, <3>1, <3>2
  <2> QED BY <1>1, <2>5, <2>6
<1>3. FDs \ {} = FDs /\ \A g \in FDs \cap {} : open_fd_cache'[g] = NULL
  OBVIOUS
<1>4. Dir' = Dir /\ \A g \in FDs : FdName(g)' = FdName(g)
  BY <1>1, <1>2, <1>3, OthersKeep
<1> QED BY <1>1, <1>4

LEMMA AccessKeeps ==
    ASSUME TypeOK, NamesListed, PositionInFile, NEW fd \in FDs,
           \/ \E op \in {"read", "write"} : Transfer(op, fd)
           \/ \E offset \in Offsets, whence \in {CFS_SEEK_SET, CFS_SEEK_CUR, CFS_SEEK_END} :
                  cfs_seek(fd, offset, whence)
    PROVE  /\ reply'.op \in {"read", "write", "seek"}
           /\ Dir' = Dir /\ \A g \in FDs : FdName(g)' = FdName(g)
<1> DEFINE call(op) == [NoReply EXCEPT !.op = op, !.fd = fd]
           e == open_fd_cache[fd]
<1>1. \A op : /\ call(op).op = op /\ call(op).fd = fd
              /\ [call(op) EXCEPT !.result = FAILURE].op = op
  BY DEF NoReply
<1> HIDE DEF call
<1>2. ASSUME NEW op \in {"read", "write", "seek"},
             Fail(call(op)) \/ (e # NULL /\ \E offset \in OffsetT : \E valid : Move(call(op), offset, valid))
      PROVE  /\ reply'.op \in {"read", "write", "seek"}
             /\ Dir' = Dir /\ \A g \in FDs : FdName(g)' = FdName(g)
  <2>1. CASE Fail(call(op))
    <3>1. UNCHANGED <<entry, shm_list, open_fd_cache>> /\ reply'.op = op
      BY <1>1, <2>1 DEF Fail
    <3> QED BY <3>1 DEF Dir, Entries, FdName
  <2>2. CASE e # NULL /\ \E offset \in OffsetT : \E valid : Move(call(op), offset, valid)
    <3>1. PICK offset \in OffsetT : \E valid : Move(call(op), offset, valid)
      BY <2>2
    <3>2. open_fd_cache[fd] # NULL /\ call(op).fd = fd
      BY <1>1, <2>2
    <3>3. /\ reply' = call(op) \/ reply' = [call(op) EXCEPT !.result = FAILURE]
          /\ Dir' = Dir /\ \A g \in FDs : FdName(g)' = FdName(g)
      BY <3>1, <3>2, MoveKeeps
    <3>4. call(op).op = op /\ [call(op) EXCEPT !.result = FAILURE].op = op
      BY <1>1
    <3> QED BY <1>2, <3>3, <3>4
  <2> QED BY <1>2, <2>1, <2>2
<1>3. ASSUME e # NULL PROVE e.offset \in Int
  BY <1>3, OffsetFacts DEF TypeOK
<1>4. ASSUME NEW op \in {"read", "write"}, Transfer(op, fd)
      PROVE  Fail(call(op)) \/ (e # NULL /\ \E offset \in OffsetT : \E valid : Move(call(op), offset, valid))
  <2>1. e # NULL => Wrap(e.offset + 1) \in OffsetT
    BY <1>3, WrapFacts
  <2> QED BY <1>4, <2>1 DEF Transfer, call
<1>5. ASSUME NEW offset \in Offsets, NEW whence \in {CFS_SEEK_SET, CFS_SEEK_CUR, CFS_SEEK_END},
             cfs_seek(fd, offset, whence)
      PROVE  \/ Fail(call("seek"))
             \/ e # NULL /\ \E new \in OffsetT : \E valid : Move(call("seek"), new, valid)
  <2> DEFINE new == IF whence = CFS_SEEK_SET THEN offset ELSE Wrap(e.offset + offset)
  <2>1. e # NULL => new \in OffsetT
    <3>1. offset \in OffsetT /\ offset \in Int
      BY OffsetFacts DEF ShmAssumption
    <3> QED BY <1>3, <3>1, WrapFacts
  <2>2. Fail(call("seek")) \/ (e # NULL /\ \E valid : Move(call("seek"), new, valid))
    BY <1>5 DEF cfs_seek, call
  <2> HIDE DEF new
  <2> QED BY <2>1, <2>2
<1> QED BY <1>2, <1>4, <1>5

LEMMA RemoveKeeps ==
    ASSUME TypeOK, NamesListed, NamesUnique, PositionInFile, IsInjective(shm_list),
           NEW name \in Names, cfs_remove(name)
    PROVE  /\ reply'.op = "remove" /\ reply'.name = name
           /\ [ok |-> reply'.result # FAILURE, dir |-> Dir'] \in F!cfs_remove(name)
           /\ \A g \in FDs : FdName(g)' = FdName(g)
<1> DEFINE call == [NoReply EXCEPT !.op = "remove", !.name = name]
<1> PICK cur : cur = Find(name)
  OBVIOUS
<1>1. /\ call.op = "remove" /\ call.name = name /\ call.result = SUCCESS
      /\ \A b : LET c == [call EXCEPT !.freed = b]
               IN  c.op = "remove" /\ c.name = name /\ c.result = SUCCESS
  BY DEF NoReply
<1> HIDE DEF call
<1>2. /\ UNCHANGED <<entry, open_fd_cache>>
      /\ \/ cur = NULL /\ reply' = call /\ UNCHANGED shm_list
         \/ cur # NULL /\ shm_list' = Unlink(shm_list, cur) /\ reply' = [call EXCEPT !.freed = cur]
  BY DEF cfs_remove, call
<1>3. \A g \in FDs : FdName(g)' = FdName(g)
  BY <1>2 DEF FdName
<1>4. Dir' = Dir \ {name}
  <2>1. CASE cur = NULL
    <3>1. Dir' = Dir
      BY <1>2, <2>1, EntryFacts DEF Dir, Entries
    <3> QED BY <2>1, <3>1, FindFacts DEF Dir
  <2>2. CASE cur # NULL
    <3>1. cur \in Entries /\ entry[cur].name = name
      BY <2>2, FindFacts
    <3>2. Entries' = Entries \ {cur}
      BY <1>2, <2>2, <3>1, UnlinkFacts DEF Entries, TypeOK
    <3>3. \A e \in Entries : entry[e].name = name => e = cur
      BY <3>1 DEF NamesUnique
    <3> QED BY <1>2, <3>1, <3>2, <3>3 DEF Dir
  <2> QED BY <2>1, <2>2
<1>5. reply'.op = "remove" /\ reply'.name = name /\ reply'.result = SUCCESS
  BY <1>1, <1>2
<1>6. (reply'.result # FAILURE) = TRUE
  BY <1>5 DEF SUCCESS, FAILURE
<1>7. [ok |-> TRUE, dir |-> Dir'] \in F!cfs_remove(name)
  BY <1>4, RemoveForm
<1> QED BY <1>3, <1>5, <1>6, <1>7

LEMMA ContractStep ==
    ASSUME TypeOK, NamesListed, NamesUnique, OnePurpose, PositionInFile, Next, EntriesLive
    PROVE  LET kept(S) == \A fd \in S : FdName(fd)' = FdName(fd)
               opened  == IF reply'.op = "open" THEN {reply'.result} ELSE {}
               closed  == IF reply'.op = "close" THEN {reply'.fd} ELSE {}
           IN  /\ reply'.op = "open" =>
                     [fd |-> reply'.result, dir |-> Dir'] \in F!cfs_open(reply'.name)
               /\ \A fd \in FDs \cap opened : FdName(fd)' = reply'.name
               /\ \A fd \in closed : FdName(fd)' = NULL
               /\ kept(FDs \ (opened \union closed))
               /\ reply'.op = "remove" => [ok |-> reply'.result # FAILURE, dir |-> Dir'] \in F!cfs_remove(reply'.name)
               /\ reply'.op \notin {"open", "remove"} => Dir' = Dir
<1> DEFINE opened == IF reply'.op = "open" THEN {reply'.result} ELSE {}
           closed == IF reply'.op = "close" THEN {reply'.fd} ELSE {}
           P == /\ reply'.op = "open" =>
                      [fd |-> reply'.result, dir |-> Dir'] \in F!cfs_open(reply'.name)
                /\ \A fd \in FDs \cap opened : FdName(fd)' = reply'.name
                /\ \A fd \in closed : FdName(fd)' = NULL
                /\ \A fd \in FDs \ (opened \union closed) : FdName(fd)' = FdName(fd)
                /\ reply'.op = "remove" => [ok |-> reply'.result # FAILURE, dir |-> Dir'] \in F!cfs_remove(reply'.name)
                /\ reply'.op \notin {"open", "remove"} => Dir' = Dir
<1>1. IsInjective(shm_list)
  BY DEF OnePurpose
<1>2. ASSUME NEW name \in Names, NEW size \in FileSizes, cfs_open(name, size)
      PROVE  P
  <2>1. /\ reply'.op = "open" /\ reply'.name = name
        /\ [fd |-> reply'.result, dir |-> Dir'] \in F!cfs_open(name)
        /\ \A fd \in FDs \cap {reply'.result} : FdName(fd)' = name
        /\ \A fd \in FDs \ {reply'.result} : FdName(fd)' = FdName(fd)
    BY <1>2, OpenKeeps
  <2>2. opened = {reply'.result} /\ closed = {}
    BY <2>1
  <2> HIDE DEF opened, closed
  <2> QED BY <2>1, <2>2
<1>3. ASSUME NEW name \in Names, cfs_remove(name)
      PROVE  P
  <2>1. /\ reply'.op = "remove" /\ reply'.name = name
        /\ [ok |-> reply'.result # FAILURE, dir |-> Dir'] \in F!cfs_remove(name)
        /\ \A g \in FDs : FdName(g)' = FdName(g)
    BY <1>1, <1>3, RemoveKeeps
  <2>2. opened = {} /\ closed = {}
    BY <2>1
  <2> HIDE DEF opened, closed
  <2> QED BY <2>1, <2>2
<1>4. ASSUME NEW fd \in FDs, cfs_close(fd)
      PROVE  P
  <2>1. /\ reply'.op = "close" /\ reply'.fd = fd /\ Dir' = Dir
        /\ FdName(fd)' = NULL
        /\ \A g \in FDs \ {fd} : FdName(g)' = FdName(g)
    BY <1>4, CloseKeeps
  <2>2. opened = {} /\ closed = {fd}
    BY <2>1
  <2> HIDE DEF opened, closed
  <2> QED BY <2>1, <2>2
<1>5. ASSUME NEW fd \in FDs,
             \/ \E op \in {"read", "write"} : Transfer(op, fd)
             \/ \E offset \in Offsets, whence \in {CFS_SEEK_SET, CFS_SEEK_CUR, CFS_SEEK_END} :
                    cfs_seek(fd, offset, whence)
      PROVE  P
  <2>1. /\ reply'.op \in {"read", "write", "seek"}
        /\ Dir' = Dir /\ \A g \in FDs : FdName(g)' = FdName(g)
    BY <1>5, AccessKeeps
  <2>2. opened = {} /\ closed = {}
    BY <2>1
  <2> HIDE DEF opened, closed
  <2> QED BY <2>1, <2>2
<1>6. P
  <2> HIDE DEF P
  <2> QED BY <1>2, <1>3, <1>4, <1>5 DEF Next
<1> QED BY <1>6

\* As the back-end of the front-end's model: an open gives the lowest free
\* descriptor and enters the name, or fails with or without entering it; a close
\* frees that descriptor only; a removal succeeds and takes the name out; reads, writes and
\* seeks change neither (cfs_open, cfs_close, cfs_remove, cfs_seek, cfs_read,
\* cfs_write of shared-mem.c).
THEOREM BackEndKeepsContract == SpecToFailure => KeepsContract
<1> DEFINE I == TypeOK /\ NamesListed /\ NamesUnique /\ OnePurpose /\ PositionInFile
           A == LET kept(S) == \A fd \in S : FdName(fd)' = FdName(fd)
                    opened  == IF reply'.op = "open" THEN {reply'.result} ELSE {}
                    closed  == IF reply'.op = "close" THEN {reply'.fd} ELSE {}
                IN  /\ reply'.op = "open" =>
                          [fd |-> reply'.result, dir |-> Dir'] \in F!cfs_open(reply'.name)
                    /\ \A fd \in FDs \cap opened : FdName(fd)' = reply'.name
                    /\ \A fd \in closed : FdName(fd)' = NULL
                    /\ kept(FDs \ (opened \union closed))
                    /\ reply'.op = "remove" => [ok |-> reply'.result # FAILURE, dir |-> Dir'] \in F!cfs_remove(reply'.name)
                    /\ reply'.op \notin {"open", "remove"} => Dir' = Dir
<1>1. Init => I
  <2>1. Init => NamesListed
    BY ListEmpty DEF Init, NamesListed, Entries
  <2> QED BY <2>1, InitFacts
<1>2. I /\ [Next /\ EntriesLive]_vars => I'
  BY TypeStep, ListedStep, NamesStep, PurposeStep, PositionStep
<1>3. I /\ [Next /\ EntriesLive]_vars => [A]_vars
  <2>1. I /\ Next /\ EntriesLive => A
    BY ContractStep
  <2> HIDE DEF I, A
  <2> QED BY <2>1
<1> HIDE DEF I
<1> QED BY <1>1, <1>2, <1>3, PTL DEF SpecToFailure, KeepsContract
=============================================================================
