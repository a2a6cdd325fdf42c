------------------------------- MODULE Malloc -------------------------------
(***************************************************************************)
(* The allocator of the shared-memory back-end, my_malloc.c: first fit on  *)
(* an address-ordered list of chunks inside one buffer.                    *)
(*                                                                         *)
(* An address is an offset in buf.  A chunk is named by the address of its *)
(* FREE_CHUNK header, and keeps it while it is allocated.  What users      *)
(* store in their blocks is left out, so the model stands for the code as  *)
(* long as no block overlaps a header (ChunksApart).  Headers at odd       *)
(* addresses, whose words the processor reads at the even address below,   *)
(* are left out too.                                                       *)
(***************************************************************************)
EXTENDS Integers, FiniteSets, FiniteSetsExt

CONSTANTS
    INIT_BUF_SIZE,
    Sizes,              \* the sizes clients ask for
    NULL

HEADER == 4             \* sizeof(struct FREE_CHUNK): two words of two bytes

ASSUME BufferAssumption ==
    INIT_BUF_SIZE \in Nat /\ INIT_BUF_SIZE > 2 * HEADER
ASSUME SizesAssumption == Sizes \subseteq Nat
ASSUME NoAddressAssumption == NULL \notin Int

\* More than any chunk can reach: each split moves the end up by one byte only.
Addr == 0 .. 2 * INIT_BUF_SIZE

VARIABLES
    free_list_head,
    size, next,         \* the two fields of the header at an address
    live,               \* the blocks users hold: [ptr, req]
    lost                \* the blocks my_free has refused to take back

vars == <<free_list_head, size, next, live, lost>>

Init ==
    /\ free_list_head = NULL
    /\ size = [c \in Addr |-> 0]
    /\ next = [c \in Addr |-> NULL]
    /\ live = {}
    /\ lost = {}

\* The static head, and one chunk with the rest of the buffer.
init_free_list ==
    /\ free_list_head = NULL
    /\ free_list_head' = 0
    /\ size' = [size EXCEPT ![0] = 0, ![HEADER] = INIT_BUF_SIZE - 2 * HEADER]
    /\ next' = [next EXCEPT ![0] = HEADER, ![HEADER] = NULL]
    /\ UNCHANGED <<live, lost>>

-----------------------------------------------------------------------------
(* Walking the list *)

\* Node[k] is what cur is after k steps of a walk.
Node[k \in 0..INIT_BUF_SIZE] ==
    IF k = 0 THEN free_list_head
    ELSE LET prev == Node[k-1] IN IF prev = NULL THEN NULL ELSE next[prev]

\* How many steps a loop makes that ends at the first chunk in S, or with NULL;
\* none if it never ends.
Steps(S) ==
    LET stops == {k \in 0..INIT_BUF_SIZE : Node[k] \in S \union {NULL}}
    IN  {k \in stops : \A j \in stops : k <= j}

FreeChunks == {Node[k] : k \in 0..INIT_BUF_SIZE} \ {0, NULL}

-----------------------------------------------------------------------------
(* Addresses *)

\* The memory a user gets starts one byte after the header.
Payload(c) == c + HEADER + 1
ChunkOf(ptr) == ptr - HEADER - 1

\* fault: the new chunk starts where the payload, which is shifted, still goes on
SplitAt_short(c, s) == c + HEADER + s
SplitAt(c, s) == c + HEADER + s + 1

\* fault: the header of the new chunk is not paid for
Remainder_gross(c, s) == size[c] - s
Remainder(c, s) == size[c] - s - HEADER

\* fault: an empty remainder makes a chunk too
Splits_always(c, s) == TRUE
Splits(c, s) == Remainder(c, s) > 0

\* cur->size >= size
Fits(s) == {c \in Addr : size[c] >= s}

\* fault: inserted at the front whatever the address
Before_front(ptr) == {0}
\* where ptr belongs: behind cur, in front of cur->next
Before(ptr) == {c \in Addr : c < ptr /\ (next[c] = NULL \/ ptr < next[c])}

-----------------------------------------------------------------------------
(* The entry points.  A walk that never ends is a call that never returns: *)
(* its action is not enabled (FreeListSorted rules that out).              *)

my_malloc(s) ==
    \E k \in Steps(Fits(s)) :
        LET cur  == Node[k]
            prev == Node[IF k = 0 THEN 0 ELSE k - 1]
            new  == SplitAt(cur, s)
        IN  \/ cur = NULL /\ UNCHANGED <<size, next, live>>
            \/ /\ cur # NULL /\ Splits(cur, s)
               /\ size' = [size EXCEPT ![cur] = s, ![new] = Remainder(cur, s)]
               /\ next' = [next EXCEPT ![new] = next[cur], ![prev] = new]
               /\ live' = live \union {[ptr |-> Payload(cur), req |-> s]}
            \/ /\ cur # NULL /\ ~Splits(cur, s)
               /\ next' = [next EXCEPT ![prev] = next[cur]]
               /\ live' = live \union {[ptr |-> Payload(cur), req |-> s]}
               /\ UNCHANGED size

\* Insertion of chunk new behind cur, merged with the chunk in front of it or
\* behind it if their addresses meet; never with the static head.
Insert(new, cur) ==
    LET ptr   == Payload(new)
        after == next[cur]
    IN  IF ptr + size[new] = after
        THEN /\ size' = [size EXCEPT ![new] = @ + HEADER + size[after]]
             /\ next' = [next EXCEPT ![new] = next[after], ![cur] = new]
        ELSE IF cur # free_list_head /\ cur + 2 * HEADER + size[cur] = ptr
        THEN /\ size' = [size EXCEPT ![cur] = @ + HEADER + size[new]]
             /\ UNCHANGED next
        ELSE /\ next' = [next EXCEPT ![new] = after, ![cur] = new]
             /\ UNCHANGED size

my_free(b) ==
    /\ live' = live \ {b}
    /\ \/ /\ b.ptr > INIT_BUF_SIZE - 1
          /\ lost' = lost \union {b}
          /\ UNCHANGED <<size, next>>
       \/ /\ b.ptr <= INIT_BUF_SIZE - 1
          /\ \E k \in Steps(Before(b.ptr)) :
                Node[k] # NULL /\ Insert(ChunkOf(b.ptr), Node[k])
          /\ UNCHANGED lost

Next ==
    \/ init_free_list
    \/ /\ free_list_head # NULL
       /\ \/ (\E s \in Sizes : my_malloc(s)) /\ UNCHANGED lost
          \/ \E b \in live : my_free(b)
       /\ UNCHANGED free_list_head

Spec == Init /\ [][Next]_vars

-----------------------------------------------------------------------------
(* Properties, checked up to the first call that makes chunks meet: such a   *)
(* state is reached, but not left.                                           *)

Block == [ptr : Addr, req : Sizes]

\* The type of the state, until chunks meet.
TypeOK ==
    /\ free_list_head \in {NULL, 0}
    /\ size \in [Addr -> 0..INIT_BUF_SIZE]
    /\ next \in [Addr -> Addr \union {NULL}]
    /\ live \subseteq Block
    /\ lost \subseteq Block

Held == {ChunkOf(b.ptr) : b \in live \union lost}
Chunks == FreeChunks \union Held

\* Until chunks meet, the walk of my_malloc and my_free ends, and the addresses on
\* it ascend, as the insertion of my_free needs ("search the (sorted) free list",
\* my_malloc.c:112); no chunk on it is in a user's hands.
FreeListSorted ==
    free_list_head # NULL =>
        /\ \E k \in DOMAIN Node : Node[k] = NULL
        /\ \A c \in {free_list_head} \union FreeChunks : next[c] # NULL => c < next[c]
        /\ FreeChunks \cap Held = {}

\* Until chunks meet, no byte is lost or gained by any sequence of splits, merges
\* and whole allocations: counting a header for each, the chunks add up to the
\* buffer without the static head (my_malloc.c:64-77, 121-137).
BytesConserved ==
    free_list_head # NULL =>
        MapThenSumSet(LAMBDA c : HEADER + size[c], Chunks) = INIT_BUF_SIZE - HEADER

\* A chunk, from its header to its last byte, meets no other chunk
\* ("a pointer in the protected mem buf, to a free chunk of the requested
\* size", my_malloc.h:12).
ChunksApart ==
    \A c, d \in Chunks : c < d => Payload(c) + size[c] <= d

\* The only call that makes chunks meet is one that splits a chunk with no byte to
\* spare in front of the next one, and every such call does: the new header takes one
\* byte more than the sizes pay for (my_malloc.c:63-72), a merge gains one
\* (my_malloc.c:124-134).
OverlapsBySplit ==
    [][ChunksApart =>
         (~ChunksApart' <=>
            \E b \in live' \ live :
                LET c == ChunkOf(b.ptr)
                IN  size[c] - b.req > HEADER /\ Payload(c) + size[c] \in Chunks)]_vars
=============================================================================
