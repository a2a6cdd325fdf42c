------------------------------- MODULE Flash -------------------------------
(***************************************************************************)
(* The flash driver (flash_driver.h, flash_driver.c) and the M25P16 chip   *)
(* it talks to.  A transaction is what is sent between spi_select and      *)
(* spi_deselect: a command with its address and its data.  A call of the   *)
(* driver is a sequence of transactions; the chip works on a program or an *)
(* erase while the processor goes on, and ignores what it is sent          *)
(* meanwhile.  The chip is not in this repository: its actions say what    *)
(* its data sheet says.                                                    *)
(*                                                                         *)
(* A byte is the set of its one bits.  The driver inverts what it reads    *)
(* and writes, so an erased byte reads as zero and programming adds bits.  *)
(***************************************************************************)
EXTENDS Integers, Sequences, FiniteSetsExt

CONSTANTS
    SectorCount, SectorSize, PageSize,      \* sizes in bytes
    Bits,                                   \* the bits of a byte
    Data,                                   \* what callers program
    Lengths                                 \* and how much they read

Addr == 0 .. (SectorCount * SectorSize - 1)
Byte == SUBSET Bits
Inverted(b) == Bits \ b

ASSUME FlashAssumption ==
    /\ SectorCount \in Nat \ {0} /\ SectorSize \in Nat \ {0} /\ PageSize \in Nat \ {0}
    /\ Data \subseteq Seq(Byte) /\ Lengths \subseteq Nat

VARIABLES
    cell,               \* what the chip stores
    busy,               \* the command it works on (status bit WIP), or Idle
    wel,                \* its write enable latch
    todo,               \* what is left of the current call of the driver
    got,                \* the buffer of the last sf_read
    expected            \* history: what callers asked the flash to hold; or Unknown,
                        \* once a request of theirs was lost

chip == <<cell, busy, wel>>
vars == <<cell, busy, wel, todo, got, expected>>

Cmd(c, a, d) == [cmd |-> c, addr |-> a, data |-> d]
Idle == Cmd("idle", 0, <<>>)
Unknown == <<>>

Init ==
    /\ cell \in [Addr -> Byte]
    /\ busy = Idle
    /\ wel = FALSE
    /\ todo = <<>>
    /\ got = <<>>
    /\ expected = [a \in Addr |-> Inverted(cell[a])]

-----------------------------------------------------------------------------
(* The driver: the transactions of each call *)

sf_write_enable == <<Cmd("WREN", 0, <<>>)>>

\* fault: waits for the write to begin
BLOCK_WAITING_begin == busy # Idle

\* what the last status read must say for the wait to end: WIP is clear
BLOCK_WAITING == busy = Idle

\* fault: the address of the sector behind
sf_sector_erase_behind(a) ==
    sf_write_enable \o <<Cmd("SE", a + SectorSize, <<>>), Cmd("WAIT", a, <<>>)>>

\* fault: the wait is forgotten
sf_sector_erase_nowait(a) == sf_write_enable \o <<Cmd("SE", a, <<>>)>>

sf_sector_erase(a) == sf_write_enable \o <<Cmd("SE", a, <<>>), Cmd("WAIT", a, <<>>)>>

sf_bulk_erase == sf_write_enable \o <<Cmd("BE", 0, <<>>), Cmd("WAIT", 0, <<>>)>>

\* sf_program_byte is the case of one byte.  Neither waits.
sf_program_page(a, d) ==
    IF d = <<>> THEN <<>> ELSE sf_write_enable \o <<Cmd("PP", a, d)>>

\* fault: bytes are sent as they are
Sent_plain(b) == b

\* what goes over the line for a byte to be programmed
Sent(b) == Inverted(b)

\* sf_read_hs and sf_read_byte differ in the command, and in the one byte.
sf_read(a, n) == <<Cmd("READ", a, [i \in 1..n |-> {}])>>

\* fault: bytes are taken as they come
Received_plain(a) == cell[a]

Received(a) == Inverted(cell[a])

\* A call: the processor is done with the one before.
Call ==
    /\ todo = <<>>
    /\ \E a \in Addr :
          \/ todo' = sf_sector_erase(a)
          \/ todo' = sf_bulk_erase
          \/ \E d \in Data : a + Len(d) - 1 \in Addr /\ todo' = sf_program_page(a, d)
          \/ \E n \in Lengths : a + n - 1 \in Addr /\ todo' = sf_read(a, n)
    /\ got' = <<>>
    /\ UNCHANGED <<cell, busy, wel, expected>>

-----------------------------------------------------------------------------
(* What a command asks for, and what the chip makes of it *)

SameSector(a, b) == a \div SectorSize = b \div SectorSize

\* the caller's view: bytes from the start address on
Asked(c) ==
    [a \in Addr |->
        CASE c.cmd = "BE" -> {}
          [] c.cmd = "SE" -> IF SameSector(a, c.addr) THEN {} ELSE expected[a]
          [] c.cmd = "PP" -> expected[a] \union
                 (IF a - c.addr + 1 \in DOMAIN c.data THEN c.data[a - c.addr + 1] ELSE {})]

\* A program stays in the page of its start address: it wraps.
Column(c) == c.addr % PageSize
Crosses(c) == Column(c) + Len(c.data) > PageSize
Target(c, i) ==
    IF Column(c) + i <= PageSize THEN c.addr + i - 1
    ELSE (c.addr - Column(c)) + ((Column(c) + i - 1) % PageSize)

\* what is stored when c is done; of bytes for one cell the last counts
Stored(c) ==
    [a \in Addr |->
        CASE c.cmd = "BE" -> Bits
          [] c.cmd = "SE" -> IF SameSector(a, c.addr) THEN Bits ELSE cell[a]
          [] c.cmd = "PP" ->
                 LET S == {i \in DOMAIN c.data : Target(c, i) = a}
                 IN  IF S = {} THEN cell[a] ELSE cell[a] \cap Sent(c.data[Max(S)])
          [] OTHER -> cell[a]]

Writes == {"PP", "SE", "BE"}

\* WREN: ignored by a busy chip.
WriteEnable(c) ==
    /\ c.cmd = "WREN"
    /\ wel' = (wel \/ busy = Idle)
    /\ expected' = IF busy = Idle THEN expected ELSE Unknown
    /\ UNCHANGED <<cell, busy, got>>

Lost(c) == \/ busy # Idle
           \/ ~wel
           \/ c.cmd = "PP" /\ Crosses(c)

\* Program and erase: begun if the chip is idle and the latch is set.
Write(c) ==
    /\ c.cmd \in Writes
    /\ busy' = IF busy = Idle /\ wel THEN c ELSE busy
    /\ expected' = IF Lost(c) \/ expected = Unknown THEN Unknown ELSE Asked(c)
    /\ UNCHANGED <<cell, wel, got>>

\* A busy chip does not answer a read; the buffer gets whatever is on the line.
Read(c) ==
    /\ c.cmd = "READ"
    /\ \/ /\ busy = Idle
          /\ got' = [i \in DOMAIN c.data |-> Received(c.addr + i - 1)]
          /\ UNCHANGED expected
       \/ /\ busy # Idle
          /\ got' \in {[i \in DOMAIN c.data |-> b] : b \in Byte}
          /\ expected' = Unknown
    /\ UNCHANGED <<cell, busy, wel>>

Wait(c) ==
    /\ c.cmd = "WAIT"
    /\ BLOCK_WAITING
    /\ UNCHANGED <<cell, busy, wel, got, expected>>

\* The status says that the chip is busy: it is read again.
Poll ==
    /\ todo # <<>>
    /\ Head(todo).cmd = "WAIT" /\ ~BLOCK_WAITING
    /\ UNCHANGED vars

Send ==
    /\ todo # <<>>
    /\ todo' = Tail(todo)
    /\ \/ WriteEnable(Head(todo))
       \/ Write(Head(todo))
       \/ Read(Head(todo))
       \/ Wait(Head(todo))

\* The chip finishes what it works on and clears WIP and the latch.
Done ==
    /\ busy # Idle
    /\ cell' = Stored(busy)
    /\ busy' = Idle
    /\ wel' = FALSE
    /\ UNCHANGED <<todo, got, expected>>

Next == Call \/ Send \/ Poll \/ Done

\* The processor does not stop in the middle of a call, and the chip completes
\* its cycles; nothing makes clients call.
Spec == Init /\ [][Next]_vars /\ WF_vars(Send) /\ WF_vars(Done)

-----------------------------------------------------------------------------
(* Properties *)

\* The type of the state.
TypeOK ==
    /\ cell \in [Addr -> Byte]
    /\ wel \in BOOLEAN
    /\ got \in Seq(Byte)
    /\ expected = Unknown \/ expected \in [Addr -> Byte]
    /\ \A c \in {busy} \union {todo[i] : i \in DOMAIN todo} :
           /\ c.cmd \in {"idle", "WREN", "PP", "SE", "BE", "READ", "WAIT"}
           /\ c.addr \in Addr /\ c.data \in Seq(Byte)

\* As long as no request was lost, the chip holds what callers asked for, or will
\* when it is done with what it works on: the write enable commands come where the
\* chip wants them, and the inversions cancel out (sf_program_page, sf_read).
HoldsWhatWasAsked ==
    expected # Unknown => \A a \in Addr : expected[a] = Inverted(Stored(busy)[a])

\* A read that was answered gives what callers asked the flash to hold.
ReadsTrue ==
    [][\A c \in {todo[i] : i \in {1} \cap DOMAIN todo} :
           c.cmd = "READ" /\ todo' = Tail(todo) /\ expected' # Unknown
               => \A i \in DOMAIN c.data : got'[i] = expected[c.addr + i - 1]]_vars

\* Requests are lost in two ways only: during a program, after which the driver
\* does not wait (flash_driver.h:120), and when a program runs over its page.
\* The waits after the erases are where they must be.
LostHow ==
    [][expected # Unknown /\ expected' = Unknown
           => busy.cmd = "PP" \/ Crosses(Head(todo))]_vars

\* Every call returns: the busy wait ends, since what it waits for does
\* (BLOCK_WAITING).
CallsReturn == (todo # <<>>) ~> (todo = <<>>)
=============================================================================
