# A verification development for the Sancus protected file system

This directory models, model-checks and proves properties of the access-control
file system of this repository (`src/sfs`): a Sancus protected module that gives
other protected modules (SMs, "clients") files with access-control lists on top of
a back-end, either a buffer of protected memory (`sfs/shm`) or the
Coffee flash file system (`sfs/cfs`).

## 1. Inventory

| Component | Source | State it keeps | Operations |
|---|---|---|---|
| SFS front-end | `sfs/sfs-ram.c`, `sfs/sfs.h` | pools of `FILE_PERM` and `OPEN_FILE` structs, their free lists, the list of files with an ACL and an `open_count` each, `fd_cache`, `INIT_DONE` | `sfs_init/open/close/remove/getc/putc/seek/chmod/attest/ping/dump` |
| CFS interface | `sfs/cfs/cfs.h` | none | the seven calls the front-end makes of a back-end |
| Shared-memory back-end | `sfs/shm/shared-mem.c` | list of entries (name, size, start), descriptor table with offsets | `cfs_open/close/read/write/seek/remove` |
| Allocator | `sfs/shm/my_malloc.c` | free list of chunks inside one buffer | `my_malloc`, `my_free` |
| Coffee back-end | `sfs/cfs/cfs-coffee.c` | file cache, descriptors; on flash: file extents, micro logs | `cfs_*`, garbage collection, log merging, format |
| Flash driver | `sfs/cfs/flash_driver.*` | the chip's status | read, program page, erase sector |
| Clients | `sfs-example`, `sfs-benchmark` | none of interest | any sequence of calls |
| Dummies, debug, timing | `sfs-dummy.c`, `cfs-dummy.c`, `dummy_flash.c`, `common.*`, `benchmark.*` | none | none |

**Interaction.** A client calls an entry point of the front-end; the hardware
tells the front-end who calls (`sancus_get_caller_id`). The front-end looks the file and
the caller's ACL entry up, decides, and calls the back-end, which runs in the same
protection domain. There is one processor core, and the protected module takes no
interrupts: a call runs to its return. What interleaves is whole calls of different SMs.

**What is hard here.** Not concurrency inside a call, but what long sequences
of calls by several SMs do to hand-written linked lists with shared pools:
an entry is freed by one SM's `chmod` while another SM's descriptor points at it; a
counter decides whether a file may be removed; the front-end and the back-end each
keep a descriptor table and never compare them; a call fails half way and leaves
what it has done; a pool runs out between two calls. In the back-ends: address
arithmetic of the allocator, and for Coffee the order of flash writes and resets
between them. `PROJECT.json` lists each of these hazards at its line.

**What makes each component correct.**
- Front-end: nobody reads, writes, opens, removes or re-assigns a file without the right
  in the ACL at the time of the call; revocation takes effect at once; the creator
  cannot be locked out; no struct is lost or shared; the counter is exact; both
  descriptor tables agree.
- Allocator: chunks handed out are disjoint, inside the buffer, and come back.
- Shared-memory back-end: a descriptor reads what was last written at its offset of its
  own file; entries and content blocks are conserved.
- Coffee: files do not overlap; what was written is read, through logs and merges; after a reset at
  any flash write the old or the new file is found.
- Flash driver: what callers ask for is stored where they asked, and read back; every call returns.

## 2. Modules

| Module | What it is |
|---|---|
| `SFS` | the front-end with its lists, pools, counters and both descriptor tables; the back-end by its contract |
| `AccessControl` | the abstract specification: a table of rights, a set of connections, exact decisions |
| `MCSFS` + `MCSFS_*.cfg` | TLC instances of `SFS` |
| `SharedMem`, `MCSharedMem` | the shared-memory back-end over the contract of the allocator; shown to keep the contract `SFS` uses |
| `Malloc`, `MCMalloc` | the allocator: headers, addresses, splitting and merging |
| `Coffee`, `MCCoffee` | Coffee's extents, cache, descriptors, reservation, garbage collection, logs and merges, with resets between any two writes to flash; shown to keep the same contract |
| `CoffeeFile`, `MCCoffeeFile` | what one Coffee file holds: bytes, end of file, seeks, growth, the micro log, memory that runs out |
| `Flash`, `MCFlash` | the flash driver as the transactions it sends, and the chip that works on while the processor goes on |
| `ListLemmas` | proved facts about `Unlink`, `Tail`, `Append`, `Reverse`, `\o` on sequences without repetition; about least and greatest elements, and induction |
| `SFSProofs` | the inductive invariant of `SFS`; the theorems about its states and about its steps; `SFS` implements `AccessControl`, and what follows from that |
| `CoffeeLemmas` | proved facts about the parts of a call of `Coffee`: the walk, garbage collection, the search, reservation, the cache |
| `SharedMemProofs`, `MallocProofs`, `FlashProofs`, `CoffeeProofs`, `CoffeeFileProofs` | the theorems about `SharedMem`, `Malloc`, `Flash`, `Coffee` and `CoffeeFile` |

`SFS` stands on the contract of a back-end (`cfs_open`, `cfs_remove`, `FreeFds`). Neither back-end keeps it for ever:
- `SharedMem` keeps it (`KeepsContract`) until an open fails after it has linked its entry: the freed entry stays on the list (`shm_doublefree`);
- `Coffee` keeps it as long as it is *intact* and *clean* (below): no garbage collection has erased the tail of an obsolete extent whose header stays (`coffee_walk`), no reset
  has cut a call, and no call was short of a slot in the file cache.

`SharedMem` stands on the contract of the allocator, and `Malloc` is the allocator, which keeps chunks apart until a chunk without a byte to spare in front of the next one is
split (`malloc_overlap`), and then hands out memory that overlaps. `Coffee` treats a
program command and an erase as atomic writes; `Flash` says when that is so. `Coffee` is about where extents lie,
`CoffeeFile` about what is in one.

### How `SFS` corresponds to the code

- *Structs.* A `FILE_PERM` is an index of `perm_pool`, an `OPEN_FILE` an index of
  `file_pool`, as in the code; `NULL` is the null pointer. A linked list is the sequence
  of the indices on it, so `next` pointers are not fields: the four
  places that write them (allocation, `FREE_PERM`, the unlinking of `revoke_acl` and of `sfs_remove`) are
  `Tail`, `FREE_PERM`, `UnlinkPerm` and `Unlink`. `UnlinkPerm` keeps what the code
  does at the head of a list, where `prev == cur` and nothing is unlinked: the ACL then
  runs on into the free list.
- *Stale memory.* A struct on a free list holds `NoPerm`/`NoFile` in the model and its old
  values in the code. The difference is invisible because every allocation overwrites every field and no pointer reaches a free struct;
  the second half is `NoStaleFd` and `SlotsConserved`, both proved.
- *Flags.* A flags word is the set of its one bits, with the masks of `sfs.h`. `CHK_PERM` is
  inclusion, and the empty mask is granted to everyone who has an entry.
- *Lazy initialisation.* `DO_INIT` is part of every action that has it: a handler sees `FreePerms`,
  `FreeFiles` and `Dir`, which are the initialised structures if no call has
  initialised them before. `sfs_attest` does not initialise. `cfs_format` empties the directory; with `NO_CFS_FORMAT` it is absent, and the directory is that of an earlier run.
- *Entry points.* One action each, with every early return as a disjunct (`Refuse`) and the
  change of state as the last one. `reply` records the call and its answer, and in `back` the back-end
  file the call was carried out on.
- *Back-end.* `cfs_open` hands out the lowest free descriptor, as both back-ends do, or
  fails: before or after the name has been entered, since the shared-memory
  back-end links an entry before it looks for a descriptor and Coffee writes the header before it
  looks for a slot. `cfs_remove` removes the file, or fails and leaves it, as Coffee does when the file's log is dead, the walk does not find it, or the cache has no slot for it
  (`cfs-coffee.c:608`, `:1117`); of a missing file it succeeds in one back-end and fails in the other.
  Reads, writes and seeks may fail for reasons of content, which the front-end passes on.
- *Clients.* `Next` lets any SM make any call at any time with any name, flags, id, and descriptor,
  the nearest invalid descriptors included.

The line each definition stands for is in the `map` of `PROJECT.json`.
Definitions preceded by "fault:" are not part of the model: each is a
plausible bug in the definition that follows it, and substituting it breaks the property it is listed with
under `mutants`, which shows that the property says something about the code.

### `AccessControl`

`rights[n][sm]` (empty: no entry), `conn[fd]` and `reply`. Every decision is a condition on these:
a call is refused exactly when the rights do not allow it, except that creating and connecting may also fail for want of resources,
and so may giving an SM its first rights. `SFS` implements it
(`ImplementsAccessControl`): `rights` is read off the ACLs of the listed
files, `conn` off `fd_cache`. In particular the ACL surgery, the pools and the counter leave no trace in what clients see.

### How `SharedMem` corresponds to the code

`shm_list` is the sequence of its entries, an entry the block it lives in, `entry[b]` its fields.
The searches of `cfs_open` and `cfs_remove` are `Find`, which needs no order because a name is listed once (`NamesUnique`);
`live` is what the allocator considers in use. A request of memory gets any block nobody holds or fails at any
time, which covers exhaustion and fragmentation. `cfs_open` is two actions, `OpenExisting` and `OpenNew`, with each of the
four failures as its own disjunct: no data block, no entry (the data block is returned), no descriptor, no struct for it.
After the last two the code frees the new entry and leaves it on the list; the model keeps it there too, with its stale
contents. `Transfer` is `cfs_read` and `cfs_write`: which byte they move is abstracted to the block and the offset. Offsets are 16-bit ints (`Wrap`).
The callers are the handlers of `SFS`: `cfs_remove` is called only without open descriptors for the name, which `SFS` guarantees (proved there),
and the comment at `shared-mem.c:247` relies on.

`KeepsContract` ties the two: it instantiates `SFS` with the directory and descriptors of `SharedMem` and demands of each call
what the operators `cfs_open`, `cfs_remove` and `CLOSE_FD` of `SFS` allow.

### How `Malloc` corresponds to the code

Addresses are offsets in `buf` (at an even address), `size` and `next` the words of the header at an
address, the static head is at 0. `Node` is the walk both loops make, `Steps(S)` how far one goes that stops at the
first chunk in `S`; a call that walks a circular list never returns and is not enabled. `my_malloc` and
`my_free` keep the address arithmetic as it is: the payload one byte behind the header, the new chunk one byte later too, the remainder
without that byte, the two tests for merging, the refusal of pointers beyond the buffer. `live` and `lost` are history: what users hold, and what
`my_free` refused. Users' writes are left out, so the model is exact until a block overlaps a header; that it can is what `malloc_overlap` shows. Headers at odd addresses, whose words the processor
reads and writes one address below, are left out too (see the disagreements).

### How `Coffee` corresponds to the code

- *Flash.* `hdr[p]` is what page `p` reads as if it is taken for a header: free (erased), a file's or a log's header, an obsolete one,
  isolated, or a page inside an extent ("data"). The pages of a new extent become data with its header; from then on a walk that lands on one
  is in trouble (`WalkIntact`), and a garbage collection that erases one has lost it (`ExtentsApart`). `whole`, `clean` and `intact` are history:
  an extent holds all of its file; and, from the last format on,
  - `intact`: no garbage collection has erased a sector into which an obsolete extent reaches whose own header stays (`TailsGo`), no call has begun where a file's log was
    dead or the walk met data (`Followed`), and no format was cut;
  - `clean`: no reset has cut a call between two of its writes, and every call found a slot of the cache free or without descriptors (`Spare`).
- *Calls.* A call reads and writes memory and flash in an order that matters, several functions deep. It is a
  function from machine states to machine states: the variables, the value returned (`ret`), and `seen`, every image
  the flash went through. A function that calls another is split where the answer comes back (`SearchAgain` and `Occupy` of `reserve`,
  `MergeOpened`, `CopyTo`, `Replace` and `FinishMerge` of `merge_log`): each part takes the state the one before has left. `create_log` keeps the header it has read across the reservation, as the code does (`FinishLog`, `LinkLog`). `Call` lets it return, or lets the node reset at any of these images and lose its memory.
- *Walks.* `WalkFrom` is the set of pages a loop by `next_file` reads, from 0 (`Walk`: `find_file`, `get_sector_status`) or from `next_free` (`find_contiguous_pages`). The statistics that
  `get_sector_status` keeps in static variables from one sector to the next are computed from the extents that reach into a sector. An
  extent never covers a whole sector: offsets are ints of 16 bits, so a file has at most 136 pages of 256 bytes, and a sector has 256 pages.
- *Reservation.* The loop of `find_contiguous_pages` remembers the first free page since the last one taken and stops when enough are behind it; that is the least free page of the walk with enough
  room before the next one taken, and so the model says it. It refuses an extent that ends exactly where the flash does, as in the code, and `reserve` writes
  the header before `load_file` has found a slot. `collect_garbage` goes from sector to sector, as `isolate_pages` does from page to page (recursive functions); it is its greedy mode: with `COFFEE_EXTENDED_WEAR_LEVELLING`, as compiled, the other one is never asked for.
- *Logs.* `cfs_write` is told by its arguments whether the data fits (`grow`), goes to the log, and finds it full. One call meets at most one full log, since a
  merge leaves none. `merge_log` opens the file once more, reserves the new extent, copies, moves the descriptors,
  removes the log and the file in that order, and closes.
- *References* are a byte (`% 256`).
- *Formats* erase one sector after the other; a reset leaves the first ones erased (`ErasedTo`).

### How `CoffeeFile` corresponds to the code

One file: its extent (`max_pages`, `cell`), its log (`modified`, `index`), the cached object (`end`, `record_count`), the offsets of its descriptors.
Bytes move one at a time, as the front-end moves them. A byte is programmed by setting bits, so writing where a byte already is merges the two (`Programmed`, with
two byte values). `file_end` searches the flash for the last byte that is not zero. `cfs_seek` keeps its bound, which counts the header
as room. `get_record_index` and `find_next_record` read the index into the pointer and not the buffer, so any record may be found and any byte read through the log: the model leaves both open. What else such a read overwrites, behind the pointer, is not in the model: `EndFound` and `ReadsBack` say nothing of files
with a log, and `PositionInFile` says it of builds in which nothing that is used lies there.
`malloc` succeeds `Heap` times after a reset, since nothing is ever freed, and then `DO_MALLOC` loops for ever (`hung`) until the node resets.
A reset in a merge that hung leaves an incomplete copy, which the walk may find first.
`written` and `sure` are history: what was written where, and whether nothing was overwritten, no seek went behind the capacity and no call hung.

### How `Flash` corresponds to the code

A call of the driver is a sequence of transactions, one for each `spi_select` .. `spi_deselect`; `todo` is what is left of it. The processor sends them one by one
(`Send`); `BLOCK_WAITING` is a transaction that goes on only when the chip is idle, and `Poll` is one more read of the status. The chip is external
to the repository: `WriteEnable`, `Write`, `Read` and `Done` are what its data sheet says. It stays busy with a program or an erase until `Done`, which may come at any time, ignores what
it is sent meanwhile, needs its write enable latch set, clears it when done, and wraps a program at the end of the page. A byte is the set of its one bits, and `Sent` and `Received` invert, as the driver does.
`expected` is history: what callers asked the flash to hold, or `Unknown` once a request was lost.

## 3. Checks

| Run | Shows |
|---|---|
| `core` | type invariant, the six structural invariants, and the five action properties, over every interleaving of three SMs, on a back-end that may fail in every call and holds files of an earlier run |
| `refine` | `SFS` implements `AccessControl` |
| `creators` | violated: "a file has exactly one creator ACL entry" (`sfs-ram.c:55`); `chmod` overriding an entry skips the test for `SFS_CREATOR` |
| `malloc_calls` | requests of three sizes, until chunks meet: the list is sorted and ends, no byte is lost, and chunks meet exactly when a chunk without a byte to spare in front of the next one is split |
| `malloc_overlap` | violated: with mixed sizes a chunk grows into the one behind it (`my_malloc.h:12`) |
| `shm_calls` | until an open fails after it has linked its entry: memory has one owner, positions stay in files, names are unique, and the contract `SFS` relies on is kept |
| `shm_doublefree` | violated: the entry of a file that could not be opened is freed, stays listed, and is freed again |
| `flash_driver` | whatever the driver is called for and whenever the chip finishes: what was asked for is stored and read back, requests are lost only in the two known ways, and every call returns |
| `coffee_calls` | as long as Coffee is intact: extents stay apart, cache and descriptors agree with the flash, no space is withheld, and no file is lost by any call or reset; as long as it is also clean: one extent of each name, and the contract `SFS` relies on is kept |
| `coffee_walk` | violated: the walk finds every file ("locate the next file", `next_file`); garbage collection can leave an obsolete header that jumps over a new one. Seven states, and no reset: create a file, write to it with a log, open another, remove that, a write that fails after its garbage collection has erased the tail, open the other again |
| `file_contents` | as long as nothing is overwritten: bytes read back, the end is found again, no descriptor stands behind the end |
| `file_overwrite` | violated: "fill the buffer by copying from the log in first hand" (`cfs-coffee.c:1157`); a byte that went to the log reads as something else |

Disagreements met while modelling on which no run is spent, since they follow from reading one or two lines:
- flags are an `int` (`sfs-ram.c:64`; `sfs.h:70` says they take one byte), and the tests that protect the creator compare with `==` (`:345`, `:382`, `:397`): an entry
  that `sfs_chmod` gave `SFS_CREATOR` and a bit above the byte passes `CHK_PERM` for everything and is no creator to these tests, so it can be revoked. `CreatorForLife` is therefore about rights
  that are exactly `SFS_CREATOR`;
- `sfs_open` with `SFS_CREATOR` and a size opens the creator's old file (`sfs-ram.c:520`; `sfs.h:181` says it is then new);
- `sfs_chmod` also fails when `perm_pool` is used up (`sfs-ram.c:403`; `sfs.h:278` says "iff" the file is missing or the caller not root);
- `cfs_seek` of the shared-memory back-end answers 1 and not the position (`shared-mem.c:244`; `cfs.h:214`);
- the first chunk of the allocator is a byte too long and each split moves its end by one, so the last block exceeds the buffer
  (`my_malloc.c:69, 92`), and `my_free` refuses a block that lies outside altogether (`:103`, `lost` in the model);
- behind a block of even size a header lies at an odd address; word accesses of the MSP430 ignore the lowest address bit, so it is stored from the last byte of the
  block on. `shared-mem.c` adds 1 to the sizes of its own structs (`:72`, `:151`) but not to those of files. No property of `Malloc` covers this: the model has whole headers and no bytes;
- the test for merging with the free chunk before never matches an adjacent one (`my_malloc.c:129`);
- a request of no bytes fits the static head of the free list, whose size is 0; it is handed out, and its release makes the list circular (`my_malloc.c:51`, `:112`, `:136`);
- `cfs_remove` of the shared-memory back-end never frees the data of a file (`shared-mem.c:264`);
- `sfs_remove` answers with what the back-end says, when the front-end has removed the file already: -1 does not mean that the file is still there (`sfs-ram.c:572-590`, `sfs.h:258`). When Coffee has left it there, the next SM that creates the name finds its content.
  `NoFileForgotten` says that this is the only way a back-end file loses its ACL;
- an existing back-end file is not "first removed" (`sfs.h:185`): the call is commented out (`sfs-ram.c:499-503`), so without `cfs_format` the creator of a name finds what an earlier run left, and with it what a removal left that failed;
- a sector erase right after a program is ignored by the chip, which is still busy; the driver then waits for the program (`flash_driver.h:77-92`, `:120`);
- `cfs_seek` of Coffee forgets the header in its bound (`cfs-coffee.c:1094`): a file may be sent `sizeof(struct file_header)` bytes behind its capacity, and what is then written there goes behind its extent;
- `find_contiguous_pages` refuses a free area that ends exactly at the end of the flash, so the last extent that would fit is not used;
- `absolute_offset` (`cfs-coffee.c:264`) is computed with 16 bits: from page 128 on, addresses wrap;
- a file whose end is a zero byte is shorter after its file object was evicted, or after a reset (`file_end`, `cfs-coffee.c:543`);
- a reset in `remove_by_page`, between the log and the file, leaves a file that names a dead log: it can then be neither removed nor merged (`cfs-coffee.c:608`). A reset in `create_log` leaves a log without an owner, a reset in `merge_log` two copies of
  the file, of which the incomplete one may come first in the walk. None is ever cleaned up;
- `cfs_open` does not reset `io_flags` of a descriptor, and `cfs_coffee_configure_log` does not clear what an earlier call set; neither has a caller here;
- the buffers of `DO_MALLOC` (`cfs-coffee.c:53`) are never freed: after enough accesses to files with a log, the node hangs.

**Bounds of `SFS`.** Three SMs (two in `refine` and the violations), two names, two `OPEN_FILE`, three
`FILE_PERM` and two descriptors. With three SMs on two files, six ACL
entries could be asked for: the pool of three is exhausted in every combination; an ACL can hold its creator, a middle and a
last entry; both descriptors can be of one entry, of two entries of one file, or of two files; a freed struct is soon
another file's. Flags are eight bits wide as in `sfs.h`; clients open for nothing or for reading and grant nothing, reading, root and
creator, which tells all tests in the code apart. `core` has `NO_CFS_FORMAT`, so it begins with any directory; `refine` has the format. The state space is finite and is explored
completely: no counter needs a bound. The theorems below remove the bounds for the invariants.

**Bounds of `Malloc`.** Sizes 1, 5 and 9: a small file, and a descriptor and an entry with the byte `shared-mem.c` adds. A buffer of 36 bytes holds two to six blocks, enough for splits with and without a byte to
spare, whole allocations, merges with the chunk behind, and exhaustion. `ChunksApart` is a CONSTRAINT of `malloc_calls`: a state in which chunks meet is checked and not left, since users then
write over headers. `StateView` leaves out what memory holds that is no header any more. `malloc_overlap` needs no more than sizes 9 and 1.

**Bounds of `SharedMem`.** Two names, two descriptors and six blocks (two files and two descriptors need exactly six; any leak or
failure leaves too few), files of 0, 1 and 2 bytes, seeks before, into and behind a file and by the largest int. `EntriesLive` is a CONSTRAINT of
`shm_calls`: once a freed entry is on the list, what happens depends on who gets its block, and the run stops there; `shm_doublefree` goes on.

**Bounds of `Coffee`.** Two names, three file objects, two descriptors; two sectors of four pages, files of two pages and logs of one. A file grows to four pages, which
span a sector boundary, two files of two pages and their logs fill the flash but for two pages, and every merge needs garbage
collection. There are file objects for two files and a log, and eviction happens when a merge needs one more. A state that is
not intact is checked and not left (CONSTRAINT `AsLongAsIntact`), because past it headers are read from what is data, and the properties of `Coffee` say themselves that they are about intact states.
How often each condition fails:
- the tail of an obsolete extent is erased while its header stays: in the run without any reset, when an obsolete extent reaches from a sector with active pages into one without
  (`coffee_walk`). What is then put in the erased sector is jumped over, is not found once it has left the cache, and is collected as garbage: with two sectors by a later call, with three or more by the same one,
  when a write that merges a full log goes on to `create_log`. So `ExtentsApart`, `CacheAgrees`, `KeepsFiles`, `OneCopy` and `KeepsContract` are all false of the code past such a state;
- a log dead while its file lives: a reset between the two writes of `remove_by_page` (`cfs-coffee.c:608-614`). The file can then be neither removed nor merged;
- data where the walk looks for a header: a reset in the middle of a garbage collection, after the sector with the header of an obsolete extent has been erased and before its tail is isolated or erased;
- a format that is cut leaves half of what there was. The front-end formats at each start or never.

With three file objects and two descriptors a slot can always be spared in the run; that a call may need more, and what it then leaves (`Spare`), is covered by the theorems, which are for any number.

**Bounds of `CoffeeFile`.** Pages of four bytes with a header of three, so one byte fits one page and five fit two; the extent grows once. A log of one record is full
at once. A pointer of two bytes makes `merge_log` copy in parts, the last of them incomplete. Memory for seven requests is enough for the growth and for a merge with the log, and
runs out in either after a few more. Bytes are 0, the erased one, and another.

**Bounds of `Flash`.** Three sectors of one page of two bytes of one bit: a program can cross a page, and an erase can miss its sector on either side.

**Symmetry and view.** SMs, names and blocks are interchangeable: nothing compares
them except for equality. `StateView` leaves out `reply`: no guard reads it, and every
property speaks of `reply'` only, so it is checked on each step when
the step is generated, whichever state with the same view was kept.

**Fairness and liveness.** In `Flash` only: `CallsReturn` says that every call of the driver returns. It assumes `WF_vars(Send)`, the processor
does not stop in the middle of a call (the module takes no interrupts), and `WF_vars(Done)`, the chip completes its cycles (its data sheet bounds
them). Nothing makes clients call: `Call` has no fairness. The busy wait of `BLOCK_WAITING` is what could hang, and it does when it waits for anything else (its mutant).
In the other modules a call is one step and nothing is owed between calls; where a call of the code never returns (`DO_MALLOC`, a circular free list), the model says so in the state or by a step that is not enabled.
Deadlock is checked in every run: some call is always possible, also after a hang, by a reset.

## 4. Proofs

`SFSProofs` proves, for all sizes of the pools and the descriptor table, all sets of SMs and names
and all flags,

    IInv == TypeOK /\ ZeroBeforeInit /\ HeadIsCreator /\ SlotsConserved /\ LookupsUnambiguous
            /\ ListedNamed /\ NoStaleFd /\ BackendInSync /\ OpenCountExact

to be inductive (`Invariance`), and each part the runs check as a theorem of its own. It assumes
`SizeAssumption` (the pools are not empty), `FlagAssumption` (the masks fit the flags word) and
`NullAssumption` (the null pointer is no valid index, id or name).

The parts hold each other up:
- revocation unlinks correctly only because the entry is never the head (`HeadIsCreator` with
  the `IsCreator` guard), and the head stays what it is only because no two lists share an entry
  (`SlotsConserved`): an override of one SM's entry cannot reach another file's head;
- `sfs_remove` frees a whole ACL, which is safe for `fd_cache` (`NoStaleFd`) only if a zero
  `open_count` means no connection (`OpenCountExact`);
- `OpenCountExact` survives revocation only if the SM's entry is the only one
  with its descriptors (`LookupsUnambiguous`) and points back at its file;
- `open_back_end_file` overwrites `fd_cache[fd]`; it overwrites nothing because the
  back-end's descriptor was free, and free there means free here (`BackendInSync`).
  That in turn needs the names of listed files not to be null (`ListedNamed`);
- `ZeroBeforeInit` says that before the first `DO_INIT` everything is still zero.

Layout: step lemmas on how a change of one struct or list affects each part (`FrameStep` for calls
that only initialise or reply, `RevokeStep`, `AppendStep`, ...), one lemma per entry point, `NextPreserves`, `Invariance`.
`ListLemmas` holds the facts about sequences.

`SFSProofs` then proves three action properties from `IInv`:
- `AccessIsSound`: the descriptor of a call that is granted leads to an entry in the ACL of the very file the back-end acts
  on (`NoStaleFd`, `BackendInSync`), so the flags tested are that SM's rights on that file;
- `RightsChangeByRoot`: what `sfs_chmod` and `sfs_remove` do to one ACL touches no entry of another (`SlotsConserved`), and both have looked up
  an entry with `SFS_ROOT` on that file; `sfs_open` changes rights only on a name no file has;
- `ConnectionsEndAsTheyShould`: besides `sfs_close` and the revocation of its own entry nothing overwrites a connected descriptor (`BackendInSync` once more).

`SharedMemProofs` proves, for any blocks, names, file sizes and seeks and any number of descriptors, under `ShmAssumption`, `TypeCorrect` (among others, no arithmetic leaves 16 bits),
`NamesStayUnique`, `MemoryHasOnePurpose` and `PositionsStayInFile` for `SpecToFailure`, the behaviours up to and including the first state in which a freed entry is on the list. The restriction is that of the
run `shm_calls`, and it cannot be dropped: after it the freed block may be handed out again and overwritten while it is listed.
The proofs reduce every call to one of seven effects on memory, list and descriptors (`Effects`), whatever path through the call produced it. A position stays in its file because a connected
file is never removed, which is the guard the front-end provides.

`FlashProofs` proves, for any sizes of flash, sector and page, under `FlashAssumption`, the invariant

    IInv == Types /\ Remains /\ ErasesAwaited /\ Ready /\ HoldsWhatWasAsked

and from it `TypeCorrect`, `NothingIsMisplaced` (`HoldsWhatWasAsked`), `LossesAreKnown` (`LostHow`) and `ReadsAreTrue` (`ReadsTrue`). `Remains` lists what can be left of a call; `ErasesAwaited` says that an
erase in progress has only its wait left, so a new call finds the chip idle or programming; `Ready` that the chip is idle with its latch set when a program or an erase is due, unless a request was lost. Both
are needed for `LostHow`, and are false of a driver that forgets a wait.

The second part of `SFSProofs` shows that `SFS` implements `AccessControl`, from

    RInv == IInv /\ EntriesProper

- `EntriesStayProper`: `RInv` holds always. `EntriesProper` says that an entry on an ACL is of a client and grants something; without it a client could have an
  entry the table does not show, and be allowed to open for nothing.
- `Implements`: each entry point is a step of `AccessControl` or a stutter. `TableForm` reads the table off the ACLs: with
  `LookupsUnambiguous` the first match of a search is the entry, so the decision of `two_phase_lookup` is the condition `May` on the table (`MayLookup`). One lemma per call then says what it does to the table
  and to the connections.
- `CreatorKeepsRights` follows from `AccessControl` alone: none of its steps takes rights that are exactly `SFS_CREATOR`.
- `FilesKeepAnOwner` (`NoFileForgotten`): a name of the back-end's directory that had an ACL, or was not there, has an ACL after every step, but for a removal that is answered with a failure. It needs that what one call does to the
  list leaves every other file on it (`SlotsConserved`), and that an open that fails in the back-end leaves its file listed.

`BackEndKeepsContract` of `SharedMemProofs` is `KeepsContract` for `SpecToFailure`: each of the effects is one that `cfs_open`, `cfs_remove` or `CLOSE_FD` of `SFS` allows.

`CoffeeFileProofs` proves, for any sizes of page, header, extents and memory, any number of descriptors and any bytes that contain 0, under `FileAssumption`, the invariant

    IInv == TypeOK /\ InExtent /\ Mirror

and from it `PositionsStayInFile`, `EndIsFound` and `ReadsReturnTheWritten`. `Mirror` says that as long as nothing was overwritten (`sure`) the file has no log, the extent holds
what was written, and nothing was written behind the end the cache has. It carries the proof of `merge_log`: a copy in parts is the whole extent because what the parts leave out is behind the end, and
the end found in the copy is that of the original. The cases in which a call hangs, or a reset leaves an incomplete copy, end `sure`. `InExtent` holds without `sure`: what hides in a log does not move a descriptor behind the end.

A tool of these proofs: `ListLemmas` derives induction and least elements for a *set* of numbers from the library's recursion theorems, by instantiating their operator
with membership in a set; so what a recursive function computes can be proved when the claim can be written as a set, `{n \in Nat : ...}`.

`CoffeeProofs` proves, for any number and size of sectors, any files, sizes of files and logs, file objects and up to 255 descriptors, under `CoffeeAssumption`, the invariant

    Inv == Strong(Mem, {}) /\ Unhidden(hdr, next_free) /\ (HeadersOnly(hdr) => Space(Mem))

as long as `intact` is true (`Always == intact => Inv`, with the booleans), and from it `TypeCorrect` (`TypeOK`), `Apart` (`ExtentsApart`), `Agreement` (`CacheAgrees`), `Exact` (`RefsExact`) and `NothingWasted` (`SpaceFound`);
from stronger ones `OneOfEach` (`OneCopy`), `NoFileLost` (`KeepsFiles`) and `ContractKept` (`KeepsContract`). All are about `Spec`, every behaviour; the conditions (`intact`, `clean`) are in the properties.
`Stepwise` is the step: a call that ends intact begins so and where every log is alive and the walk meets headers. Resets between any two writes to flash are included.
- *Machine states.* `Strong` says that types are right, extents are sound (in the flash, their pages data), and cache, counts and descriptors agree. It is a predicate of machine states, not of the variables:
  a call is a function on them, and each of its parts (`load_file`, `reserve`, `Obsolete`, `Redirect`, ...) has a lemma that takes a `Good` state to a `Good` one. `Good` is `Strong` with what follows as long as the call is
  intact, and every image a reset could leave so far is sound.
- *Merges* break the invariant on the way: between `Redirect` and the removal of the old extent, file objects count descriptors that have left. The parameter of `Strong` is the set of file objects of which that may be so.
- *Later.* Once a call is not intact nothing is claimed of the rest of it, which may go anywhere; `Later` says that it stays so, and that no image seen since counts. So each lemma may assume that the call is still intact at its end.
- *The walk.* `NothingBetween`: no page between two neighbours of a walk is on it, so if every extent is on the walk, none begins inside what `next_file` skips. From that: a sector without active pages in its statistics holds no page of an extent
  in use (`ErasableUnused`), the pages that are isolated belong to the obsolete extent (`IsolatedUnused`), and what the search takes for free pages are no extent's (`SearchFinds`, `Room`), although its walk begins at `next_free` and not at
  the start of the flash (`WalksMeet`).
- *That the walk finds everything* is not assumed but proved (`Laid`): garbage collection is a `Sweep` over the sectors, and as long as it erases no tail whose header stays (`TailsGo`), every extent stays on the walk and free pages are free up to the
  end of their sector. This is the argument behind the first condition of `intact`.
- *Space.* `Unhidden` says that no free page of the walk lies below `next_free`, which collections lower and reservations raise. `Space` adds `Laid`, and that `gc_wait` is set only when no sector is worth erasing (`Swept`).
- *Files.* A set of files stays complete through a call if each of its parts is `Calm`: every image seen keeps them `Whole`, no two extents share a log (`Unshared`), what was in use before the call stays on every image but for what the call removes (`Trail`, `Stays`), every file that names a log has it (`AllAlive`), and no name is held
  twice in the cache (`Once`).
- *One copy, and the contract.* `Single` says `OneCopy` of an image; with it `find_file` finds a file exactly if there is one, and every part of a call either serves its caller or leaves directory and descriptors alone (`Keeping`, `Directory`).

`MallocProofs` proves, for any buffer and any requests of at least one byte (`SomeBytes`), under `BufferAssumption`, `SizesAssumption` and `NoAddressAssumption`, four theorems about `SpecToOverlap`, the behaviours up to and including the first
state in which chunks meet: `TypeCorrect`, `ListStaysSorted`, `BytesStay` and `OverlapsAreKnown`, the properties of the run `malloc_calls`. A request of no bytes is given the static head, with which all of them end; overlaps come with the sizes `shared-mem.c` asks for.
- *The list.* `Linked` says that the free list visits its chunks in ascending order: `Node` is a recursive function; by the induction of `ListLemmas` a walk ascends, and so ends, and where it stops there is a chunk before.
- *The bytes.* `Paid` says that the sizes with a header each add up to the buffer, and how far a chunk has been moved: each split moves the chunks behind by one byte that no size pays for, and costs at least five that are paid, so a chunk begins behind
  the static head by at most 6/5 of the bytes the chunks before it count (`Prefix`). So no address leaves `Addr`, and no size the buffer.
- *The sum.* `BytesConserved` sums with `MapThenSumSet`, whose recursion takes the elements out in an order nobody knows; the lemmas on `Bytes` show that the order does not matter, and that a split or a merge leaves the sum alone.
- *my_free* never merges with the chunk in front: its test is off by two bytes for a neighbour (`my_malloc.c:129`), and true only of chunks that overlap. The merge with the chunk behind adds up sizes and loses the byte that a split had moved it by.

Every safety property of a passing run is proved, under the restrictions above. Model-checked only is liveness (`CallsReturn`), which is out of the prover's reach.

## 5. Not modelled

- What a store at an odd address does to the byte below, in `Malloc`; what `COFFEE_READ(&indices, ...)` overwrites behind the pointer, in `CoffeeFile` (`cfs-coffee.c:750`, `:922`).
- The allocator as it is, in `SharedMem`: `my_malloc` is the contract of `my_malloc.h`. A request of no bytes (a file of size 0), which the code answers with the static head of the free list, and blocks that overlap are the subject of `Malloc`. Composed,
  little more could be said than what `Malloc` says: from the first overlap on, a write to a file changes headers or another file.
- Linking: `char buf;` of `sfs-ram.c:47` and `buf[]` of `my_malloc.c:25` are two global objects of one name. Depending on the compiler's treatment of tentative definitions this is an error of the linker or one object, and `sfs_getc` and `sfs_putc` then use the first byte of the static head as theirs; the models take them as two.
- What becomes of Coffee when a format was cut (`intact` is false from then on) and the front-end does not format again.
- A header or a page half programmed when the node resets: one program command is atomic in `Coffee`.
- Extents and contents together: `Coffee` knows whether an extent holds all of its file, not what.
- `cfs_coffee_configure_log`, `cfs_coffee_set_io_semantics`: no caller in this repository. Directories (`cfs_opendir`, `cfs_readdir`): not used by the
  front-end; they walk as `find_file` does.
- Addresses in flash and their width: an instance in which they wrap has more than 128 pages.
- Bytes as the front-end returns them: `sfs_getc` answers a plain `char`, so where `char` is signed the byte 0xFF reads as EOF (`sfs-ram.c:607`).
- `sfs_ping` (returns a constant) and printing; `sfs_dump` changes the state as `sfs_init` does.
- The fixed call sequences of the example and benchmark clients; `Next` of `SFS` contains them.
- The dummies, benchmarks and timing code: no state of interest.
- The protection hardware: that the caller id is true and the module's memory its own is assumed.

## 6. Plan

1. `SFS`, `AccessControl`, the proofs of the invariants and of three action properties: done.
2. `Malloc`, `SharedMem`: done and proved about, up to the first overlap and the first open that fails half way.
3. `Coffee`, `CoffeeFile`, `Flash`: done; `Flash` proved about.
4. Proofs of the refinement of `AccessControl`, `CreatorForLife`, `NoFileForgotten`, of `KeepsContract` of `SharedMem`, and of all safety properties of `CoffeeFile`: done.
5. All properties of `Coffee`, as long as it is intact: proved. Next: a bound on what a state that is not intact can lose.
