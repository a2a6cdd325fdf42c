---------------------------- MODULE FlashProofs ----------------------------
(***************************************************************************)
(* Proofs about the flash driver, for any sizes of the flash, its sectors  *)
(* and pages, any data and any lengths.                                    *)
(***************************************************************************)
EXTENDS Flash, SequenceTheorems, TLAPS

USE FlashAssumption

Programs == [cmd : {"PP"}, addr : Addr, data : Seq(Byte)]
Erases == [cmd : {"SE", "BE"}, addr : Addr, data : {<<>>}]
Waits == [cmd : {"WAIT"}, addr : Addr, data : {<<>>}]
Reads == {c \in [cmd : {"READ"}, addr : Addr, data : Seq(Byte)] :
             \A i \in DOMAIN c.data : c.addr + i - 1 \in Addr}
WREN == Cmd("WREN", 0, <<>>)

-----------------------------------------------------------------------------
(* The inductive invariant *)

Types ==
    /\ cell \in [Addr -> Byte]
    /\ wel \in BOOLEAN
    /\ got \in Seq(Byte)
    /\ expected = Unknown \/ expected \in [Addr -> Byte]
    /\ busy \in {Idle} \union Programs \union Erases

\* What is left of a call.
Remains ==
    \/ todo = <<>>
    \/ \E c \in Erases, w \in Waits : todo = <<WREN, c, w>> \/ todo = <<c, w>>
    \/ \E c \in Programs : todo = <<WREN, c>> \/ todo = <<c>>
    \/ \E c \in Waits \union Reads : todo = <<c>>

\* The driver does not leave an erase before the chip is done with it.
ErasesAwaited == busy \in Erases => \E w \in Waits : todo = <<w>>

\* When a program or an erase is due, the chip is ready for it.
Ready ==
    /\ expected # Unknown
    /\ todo # <<>> /\ Head(todo).cmd \in Writes
    => busy = Idle /\ wel

IInv == Types /\ Remains /\ ErasesAwaited /\ Ready /\ HoldsWhatWasAsked

-----------------------------------------------------------------------------
(* Facts about the parts *)

LEMMA Product == ASSUME NEW m \in Nat \ {0}, NEW n \in Nat \ {0} PROVE m * n \in Nat /\ m * n > 0
OBVIOUS

LEMMA Zero == 0 \in Addr
BY Product DEF Addr

\* Unknown is not a state of the flash.
LEMMA UnknownIsNone == ASSUME NEW f, DOMAIN f = Addr PROVE f # Unknown
<1>1. DOMAIN Unknown = {}
  BY DEF Unknown
<1> QED BY <1>1, Zero

LEMMA IdleIsNone == Idle \notin Programs /\ Idle \notin Erases /\ Idle.cmd = "idle"
BY DEF Idle, Cmd, Programs, Erases

\* The chip at rest keeps what it has.
LEMMA AtRest == cell \in [Addr -> Byte] => Stored(Idle) = cell
BY IdleIsNone DEF Stored

LEMMA InvertedTwice == ASSUME NEW b \in Byte PROVE Inverted(b) \in Byte /\ Inverted(Inverted(b)) = b
BY DEF Inverted, Byte

\* A program that stays in its page stores each byte where it was sent.
LEMMA InPage ==
    ASSUME NEW c \in Programs, ~Crosses(c), NEW a \in Addr, cell \in [Addr -> Byte]
    PROVE  Stored(c)[a] = IF a - c.addr + 1 \in DOMAIN c.data
                          THEN cell[a] \cap Sent(c.data[a - c.addr + 1]) ELSE cell[a]
<1> DEFINE S == {i \in DOMAIN c.data : Target(c, i) = a}
<1>1. Stored(c)[a] = IF S = {} THEN cell[a] ELSE cell[a] \cap Sent(c.data[Max(S)])
  BY DEF Stored, Programs
<1>2. c.addr \in Int /\ a \in Int /\ DOMAIN c.data = 1..Len(c.data) /\ Len(c.data) \in Nat
  BY DEF Programs, Addr
<1>3. Column(c) \in Int /\ PageSize \in Int
  BY <1>2 DEF Column
<1>4. \A i \in DOMAIN c.data : Target(c, i) = c.addr + i - 1
  <2> SUFFICES ASSUME NEW i \in DOMAIN c.data PROVE Target(c, i) = c.addr + i - 1
    OBVIOUS
  <2>1. Column(c) + i <= PageSize
    BY <1>2, <1>3 DEF Crosses
  <2> QED BY <2>1 DEF Target
<1>5. CASE a - c.addr + 1 \in DOMAIN c.data
  <2>1. S = {a - c.addr + 1}
    BY <1>2, <1>4, <1>5
  <2>2. Max(S) = a - c.addr + 1
    BY <1>2, <2>1 DEF Max
  <2> QED BY <1>1, <1>5, <2>1, <2>2
<1>6. CASE a - c.addr + 1 \notin DOMAIN c.data
  <2>1. S = {}
    BY <1>2, <1>4, <1>6
  <2> QED BY <1>1, <1>6, <2>1
<1> QED BY <1>5, <1>6

\* A command the chip begins leaves it with what was asked for.
LEMMA StoredAsAsked ==
    ASSUME NEW c \in Programs \union Erases, cell \in [Addr -> Byte],
           c.cmd = "PP" => ~Crosses(c),
           expected \in [Addr -> Byte], \A a \in Addr : expected[a] = Inverted(cell[a])
    PROVE  \A a \in Addr : Asked(c)[a] = Inverted(Stored(c)[a])
<1> SUFFICES ASSUME NEW a \in Addr PROVE Asked(c)[a] = Inverted(Stored(c)[a])
  OBVIOUS
<1>1. CASE c \in Programs
  <2> DEFINE k == a - c.addr + 1
  <2>1. Asked(c)[a] = expected[a] \union (IF k \in DOMAIN c.data THEN c.data[k] ELSE {})
    BY <1>1 DEF Asked, Programs
  <2>2. k \in DOMAIN c.data => c.data[k] \subseteq Bits
    BY <1>1 DEF Programs, Byte
  <2>3. cell[a] \subseteq Bits
    BY DEF Byte
  <2>4. Stored(c)[a] = IF k \in DOMAIN c.data THEN cell[a] \cap Sent(c.data[k]) ELSE cell[a]
    BY <1>1, InPage DEF Programs
  <2> HIDE DEF k
  <2> QED BY <2>1, <2>2, <2>3, <2>4 DEF Inverted, Sent
<1>2. CASE c \in Erases /\ c.cmd = "BE"
  BY <1>2 DEF Asked, Stored, Inverted
<1>3. CASE c \in Erases /\ c.cmd = "SE"
  BY <1>3 DEF Asked, Stored, Inverted
<1> QED BY <1>1, <1>2, <1>3 DEF Erases

LEMMA AskedType ==
    ASSUME NEW c \in Programs \union Erases, expected \in [Addr -> Byte]
    PROVE  Asked(c) \in [Addr -> Byte]
<1> SUFFICES ASSUME NEW a \in Addr
             PROVE  (CASE c.cmd = "BE" -> {}
                       [] c.cmd = "SE" -> IF SameSector(a, c.addr) THEN {} ELSE expected[a]
                       [] c.cmd = "PP" -> expected[a] \union
                              (IF a - c.addr + 1 \in DOMAIN c.data THEN c.data[a - c.addr + 1]
                               ELSE {})) \in Byte
  BY DEF Asked
<1>1. CASE c \in Erases
  BY <1>1 DEF Erases, Byte
<1>2. CASE c \in Programs
  <2>1. \A k \in DOMAIN c.data : c.data[k] \subseteq Bits
    BY <1>2 DEF Programs, Byte
  <2> QED BY <1>2, <2>1 DEF Programs, Byte
<1> QED BY <1>1, <1>2

LEMMA StoredType ==
    ASSUME NEW c \in Programs \union Erases, cell \in [Addr -> Byte]
    PROVE  Stored(c) \in [Addr -> Byte]
<1> SUFFICES ASSUME NEW a \in Addr PROVE Stored(c)[a] \in Byte
  BY DEF Stored
<1>1. cell[a] \subseteq Bits
  BY DEF Byte
<1> DEFINE S == {i \in DOMAIN c.data : Target(c, i) = a}
           kept == IF S = {} THEN cell[a] ELSE cell[a] \cap Sent(c.data[Max(S)])
<1>2. kept \subseteq cell[a]
  <2> HIDE DEF S
  <2> QED OBVIOUS
<1>3. Stored(c)[a] \in {Bits, cell[a], kept}
  BY DEF Stored, Programs, Erases
<1> HIDE DEF kept
<1> QED BY <1>1, <1>2, <1>3 DEF Byte

-----------------------------------------------------------------------------
(* The calls *)

LEMMA InitHolds == Init => IInv
<1> SUFFICES ASSUME Init PROVE IInv
  OBVIOUS
<1>1. \A a \in Addr : cell[a] \in Byte
  BY DEF Init
<1>2. expected \in [Addr -> Byte]
  BY <1>1, InvertedTwice DEF Init
<1>3. Types
  <2>1. <<>> \in Seq(Byte)
    OBVIOUS
  <2> QED BY <1>2, <2>1 DEF Init, Types
<1>4. Remains /\ ErasesAwaited /\ Ready
  BY IdleIsNone DEF Init, Remains, ErasesAwaited, Ready
<1>5. HoldsWhatWasAsked
  BY AtRest DEF Init, HoldsWhatWasAsked
<1> QED BY <1>3, <1>4, <1>5 DEF IInv

LEMMA Concat ==
    /\ \A x, y : <<x>> \o <<y>> = <<x, y>>
    /\ \A x, y, z : <<x>> \o <<y, z>> = <<x, y, z>>
<1>1. ASSUME NEW x, NEW y PROVE <<x>> \o <<y>> = <<x, y>>
  <2> DEFINE s == <<x>> \o <<y>>
           t == <<x, y>>
           S == {x, y}
  <2>1. s \in Seq(S) /\ Len(s) = 2
    OBVIOUS
  <2>2. t \in Seq(S) /\ Len(t) = 2
    OBVIOUS
  <2>3. \A i \in 1..2 : s[i] = t[i]
    OBVIOUS
  <2> HIDE DEF s, t, S
  <2>4. s = t
    BY <2>1, <2>2, <2>3, SeqEqual
  <2> QED BY <2>4 DEF s, t
<1>2. ASSUME NEW x, NEW y, NEW z PROVE <<x>> \o <<y, z>> = <<x, y, z>>
  <2> DEFINE s == <<x>> \o <<y, z>>
           t == <<x, y, z>>
           S == {x, y, z}
  <2>1. s \in Seq(S) /\ Len(s) = 3
    OBVIOUS
  <2>2. t \in Seq(S) /\ Len(t) = 3
    OBVIOUS
  <2>3. \A i \in 1..3 : s[i] = t[i]
    OBVIOUS
  <2> HIDE DEF s, t, S
  <2>4. s = t
    BY <2>1, <2>2, <2>3, SeqEqual
  <2> QED BY <2>4 DEF s, t
<1> QED BY <1>1, <1>2

\* What a call is made of: it never begins with a program or an erase.
LEMMA CallRemains == ASSUME Call PROVE Remains' /\ (todo' # <<>> => Head(todo').cmd \notin Writes)
<1> DEFINE G == Remains' /\ (todo' # <<>> => Head(todo').cmd \notin Writes)
<1> SUFFICES G
  OBVIOUS
<1>0. WREN.cmd = "WREN" /\ {"WREN", "READ"} \cap Writes = {}
  BY DEF WREN, Cmd, Writes
<1>1. ASSUME NEW a \in Addr, todo' = sf_sector_erase(a) PROVE G
  <2>1. todo' = <<WREN, Cmd("SE", a, <<>>), Cmd("WAIT", a, <<>>)>>
    BY <1>1, Concat DEF sf_sector_erase, sf_write_enable, WREN
  <2>2. Cmd("SE", a, <<>>) \in Erases /\ Cmd("WAIT", a, <<>>) \in Waits
    BY DEF Cmd, Erases, Waits
  <2> QED BY <1>0, <2>1, <2>2 DEF Remains
<1>2. ASSUME todo' = sf_bulk_erase PROVE G
  <2>1. todo' = <<WREN, Cmd("BE", 0, <<>>), Cmd("WAIT", 0, <<>>)>>
    BY <1>2, Concat DEF sf_bulk_erase, sf_write_enable, WREN
  <2>2. Cmd("BE", 0, <<>>) \in Erases /\ Cmd("WAIT", 0, <<>>) \in Waits
    BY Zero DEF Cmd, Erases, Waits
  <2> QED BY <1>0, <2>1, <2>2 DEF Remains
<1>3. ASSUME NEW a \in Addr, NEW d \in Data, todo' = sf_program_page(a, d) PROVE G
  <2>1. d = <<>> => todo' = <<>>
    BY <1>3 DEF sf_program_page
  <2>2. d # <<>> => todo' = <<WREN, Cmd("PP", a, d)>>
    BY <1>3, Concat DEF sf_program_page, sf_write_enable, WREN
  <2>3. Cmd("PP", a, d) \in Programs
    BY DEF Cmd, Programs
  <2> QED BY <1>0, <2>1, <2>2, <2>3 DEF Remains
<1>4. ASSUME NEW a \in Addr, NEW n \in Lengths, a + n - 1 \in Addr, todo' = sf_read(a, n)
      PROVE  G
  <2> DEFINE c == Cmd("READ", a, [i \in 1..n |-> {}])
  <2>1. todo' = <<c>>
    BY <1>4 DEF sf_read
  <2>2. n \in Nat /\ c.addr = a /\ DOMAIN c.data = 1..n /\ c.cmd = "READ"
    BY DEF Cmd
  <2>3. \A i \in 1..n : a + i - 1 \in Addr
    BY <1>4, <2>2 DEF Addr
  <2>4. [i \in 1..n |-> {}] \in Seq(Byte)
    BY <2>2 DEF Byte
  <2>5. c \in Reads
    BY <2>2, <2>3, <2>4 DEF Reads, Cmd
  <2>6. c.cmd = "READ"
    BY <2>2
  <2> HIDE DEF c
  <2> QED BY <1>0, <2>1, <2>5, <2>6 DEF Remains
<1> QED BY <1>1, <1>2, <1>3, <1>4 DEF Call

LEMMA CallStep == IInv /\ Call => IInv'
<1> SUFFICES ASSUME IInv, Call PROVE IInv'
  OBVIOUS
<1>1. todo = <<>> /\ UNCHANGED <<cell, busy, wel, expected>> /\ got' = <<>>
  BY DEF Call
<1>2. Types'
  BY <1>1 DEF IInv, Types
<1>3. Remains'
  BY CallRemains
<1>4. busy \notin Erases /\ ErasesAwaited'
  BY <1>1 DEF IInv, ErasesAwaited
<1>5. Ready'
  BY CallRemains DEF Ready
<1>6. HoldsWhatWasAsked'
  BY <1>1 DEF IInv, HoldsWhatWasAsked, Stored
<1> QED BY <1>2, <1>3, <1>4, <1>5, <1>6 DEF IInv

\* The transaction that is sent next, and what remains after it.
LEMMA SendForms ==
    ASSUME Remains, todo # <<>>
    PROVE  \/ /\ Head(todo) = WREN
              /\ \/ \E c \in Erases, w \in Waits : Tail(todo) = <<c, w>>
                 \/ \E c \in Programs : Tail(todo) = <<c>>
           \/ Head(todo) \in Erases /\ \E w \in Waits : Tail(todo) = <<w>>
           \/ Head(todo) \in Programs \union Waits \union Reads /\ Tail(todo) = <<>>
<1>1. \A x, y, z : Head(<<x, y, z>>) = x /\ Tail(<<x, y, z>>) = <<y, z>>
  OBVIOUS
<1>2. \A x, y : Head(<<x, y>>) = x /\ Tail(<<x, y>>) = <<y>>
  OBVIOUS
<1>3. \A x : Head(<<x>>) = x /\ Tail(<<x>>) = <<>>
  OBVIOUS
<1>4. CASE \E c \in Erases, w \in Waits : todo = <<WREN, c, w>> \/ todo = <<c, w>>
  <2> PICK c \in Erases, w \in Waits : todo = <<WREN, c, w>> \/ todo = <<c, w>>
    BY <1>4
  <2>1. CASE todo = <<WREN, c, w>>
    <3>1. Head(todo) = WREN /\ Tail(todo) = <<c, w>>
      BY <1>1, <2>1
    <3> QED BY <3>1
  <2>2. CASE todo = <<c, w>>
    <3>1. Head(todo) = c /\ Tail(todo) = <<w>>
      BY <1>2, <2>2
    <3> QED BY <3>1
  <2> QED BY <2>1, <2>2
<1>5. CASE \E c \in Programs : todo = <<WREN, c>> \/ todo = <<c>>
  <2> PICK c \in Programs : todo = <<WREN, c>> \/ todo = <<c>>
    BY <1>5
  <2>1. CASE todo = <<WREN, c>>
    <3>1. Head(todo) = WREN /\ Tail(todo) = <<c>>
      BY <1>2, <2>1
    <3> QED BY <3>1
  <2>2. CASE todo = <<c>>
    <3>1. Head(todo) = c /\ Tail(todo) = <<>>
      BY <1>3, <2>2
    <3> QED BY <3>1
  <2> QED BY <2>1, <2>2
<1>6. CASE \E c \in Waits \union Reads : todo = <<c>>
  <2> PICK c \in Waits \union Reads : todo = <<c>>
    BY <1>6
  <2>1. Head(todo) = c /\ Tail(todo) = <<>>
    BY <1>3
  <2> QED BY <2>1
<1> QED BY <1>4, <1>5, <1>6 DEF Remains

LEMMA SendRemains == ASSUME Remains, Send PROVE Remains'
BY SendForms DEF Send, Remains

\* Which kind of transaction which command belongs to.
LEMMA Kinds ==
    /\ WREN.cmd = "WREN"
    /\ \A c \in Erases : c.cmd \in {"SE", "BE"}
    /\ \A c \in Programs : c.cmd = "PP"
    /\ \A c \in Waits : c.cmd = "WAIT"
    /\ \A c \in Reads : c.cmd = "READ"
BY DEF WREN, Cmd, Erases, Programs, Waits, Reads

\* While an erase goes on, what remains of the call is the wait for it.
LEMMA AwaitedNext ==
    ASSUME IInv, todo # <<>>, busy \in Erases
    PROVE  Head(todo).cmd = "WAIT"
<1>1. PICK w \in Waits : todo = <<w>>
  BY DEF IInv, ErasesAwaited
<1> QED BY <1>1, Kinds

LEMMA WriteEnableStep == ASSUME IInv, Send, WriteEnable(Head(todo)) PROVE IInv'
<1>1. /\ Head(todo).cmd = "WREN" /\ todo # <<>>
      /\ wel' = (wel \/ busy = Idle)
      /\ expected' = IF busy = Idle THEN expected ELSE Unknown
      /\ UNCHANGED <<cell, busy, got>>
  BY DEF WriteEnable, Send
<1>2. Types'
  BY <1>1 DEF IInv, Types
<1>3. Remains'
  BY SendRemains DEF IInv
<1>4. busy \notin Erases /\ ErasesAwaited'
  BY <1>1, AwaitedNext DEF ErasesAwaited
<1>5. Ready'
  BY <1>1 DEF Ready
<1>6. HoldsWhatWasAsked'
  BY <1>1, ZenonT(40) DEF IInv, HoldsWhatWasAsked, Stored
<1> QED BY <1>2, <1>3, <1>4, <1>5, <1>6 DEF IInv

\* A command that is not lost is begun.
LEMMA WriteBegins ==
    ASSUME IInv, Send, Write(Head(todo)), expected # Unknown, ~Lost(Head(todo))
    PROVE  /\ busy = Idle /\ busy' = Head(todo)
           /\ expected' = Asked(Head(todo)) /\ expected' # Unknown
           /\ Head(todo).cmd = "PP" => ~Crosses(Head(todo))
<1>1. busy = Idle /\ wel /\ (Head(todo).cmd = "PP" => ~Crosses(Head(todo)))
  BY DEF Lost
<1>2. busy' = Head(todo) /\ expected' = Asked(Head(todo))
  BY <1>1 DEF Write
<1>3. Asked(Head(todo)) # Unknown
  <2>1. DOMAIN Asked(Head(todo)) = Addr
    BY DEF Asked
  <2> QED BY <2>1, UnknownIsNone
<1> QED BY <1>1, <1>2, <1>3

LEMMA WriteStep == ASSUME IInv, Send, Write(Head(todo)) PROVE IInv'
<1> DEFINE c == Head(todo)
<1>1. /\ c.cmd \in Writes /\ todo # <<>> /\ todo' = Tail(todo)
      /\ busy' = IF busy = Idle /\ wel THEN c ELSE busy
      /\ expected' = IF Lost(c) \/ expected = Unknown THEN Unknown ELSE Asked(c)
      /\ UNCHANGED <<cell, wel, got>>
  BY DEF Write, Send
<1>2. \/ c \in Erases /\ \E w \in Waits : todo' = <<w>>
      \/ c \in Programs /\ todo' = <<>>
  BY <1>1, SendForms, Kinds DEF IInv, Writes
<1> HIDE DEF c
<1>3. Types'
  <2>1. expected' = Unknown \/ expected' \in [Addr -> Byte]
    BY <1>1, <1>2, AskedType DEF IInv, Types
  <2> QED BY <1>1, <1>2, <2>1 DEF IInv, Types
<1>4. Remains'
  BY SendRemains DEF IInv
<1>5. busy \notin Erases
  BY <1>1, AwaitedNext DEF c, Writes
<1>6. ErasesAwaited'
  <2>1. Programs \cap Erases = {}
    BY DEF Programs, Erases
  <2> QED BY <1>1, <1>2, <1>5, <2>1 DEF ErasesAwaited
<1>7. Ready'
  <2>1. CASE \E w \in Waits : todo' = <<w>>
    BY <2>1, Kinds DEF Ready, Writes
  <2> QED BY <1>2, <2>1 DEF Ready
<1>8. HoldsWhatWasAsked'
  <2>1. CASE expected' = Unknown
    BY <2>1 DEF HoldsWhatWasAsked
  <2>2. CASE expected # Unknown /\ ~Lost(c)
    <3>1. /\ busy = Idle /\ busy' = c /\ expected' = Asked(c)
          /\ c.cmd = "PP" => ~Crosses(c)
      BY <2>2, WriteBegins DEF c
    <3>2. /\ cell \in [Addr -> Byte] /\ expected \in [Addr -> Byte]
          /\ \A a \in Addr : expected[a] = Inverted(cell[a])
      BY <2>2, <3>1, AtRest DEF IInv, Types, HoldsWhatWasAsked
    <3>3. \A a \in Addr : Asked(c)[a] = Inverted(Stored(c)[a])
      BY <1>2, <3>1, <3>2, StoredAsAsked
    <3>4. Stored(busy)' = Stored(c)
      BY <1>1, <3>1 DEF Stored
    <3> QED BY <3>1, <3>3, <3>4 DEF HoldsWhatWasAsked
  <2> QED BY <1>1, <2>1, <2>2
<1> QED BY <1>3, <1>4, <1>6, <1>7, <1>8 DEF IInv

LEMMA ReadStep == ASSUME IInv, Send, Read(Head(todo)) PROVE IInv'
<1> DEFINE c == Head(todo)
<1>1. /\ c.cmd = "READ" /\ todo # <<>> /\ todo' = Tail(todo)
      /\ \/ /\ got' = [i \in DOMAIN c.data |-> Received(c.addr + i - 1)]
            /\ expected' = expected
         \/ /\ got' \in {[i \in DOMAIN c.data |-> b] : b \in Byte}
            /\ expected' = Unknown
      /\ UNCHANGED <<cell, busy, wel>>
  BY DEF Read, Send
<1>2. c \in Reads /\ todo' = <<>>
  BY <1>1, SendForms, Kinds DEF IInv
<1> HIDE DEF c
<1>3. Types'
  <2>1. DOMAIN c.data = 1..Len(c.data) /\ Len(c.data) \in Nat
    BY <1>2 DEF Reads
  <2>2. \A a \in Addr : Received(a) \in Byte
    BY InvertedTwice DEF IInv, Types, Received
  <2>3. \A i \in DOMAIN c.data : Received(c.addr + i - 1) \in Byte
    BY <1>2, <2>2 DEF Reads
  <2>4. got' \in [DOMAIN c.data -> Byte]
    BY <1>1, <2>3
  <2>5. got' \in Seq(Byte)
    BY <2>1, <2>4
  <2> QED BY <1>1, <2>5 DEF IInv, Types
<1>4. Remains' /\ Ready'
  BY <1>2 DEF Remains, Ready
<1>5. busy \notin Erases /\ ErasesAwaited'
  BY <1>1, AwaitedNext DEF c, ErasesAwaited
<1>6. HoldsWhatWasAsked'
  BY <1>1 DEF IInv, HoldsWhatWasAsked, Stored
<1> QED BY <1>3, <1>4, <1>5, <1>6 DEF IInv

LEMMA WaitStep == ASSUME IInv, Send, Wait(Head(todo)) PROVE IInv'
<1>1. /\ Head(todo).cmd = "WAIT" /\ todo # <<>> /\ todo' = Tail(todo) /\ busy = Idle
      /\ UNCHANGED <<cell, busy, wel, got, expected>>
  BY DEF Wait, BLOCK_WAITING, Send
<1>2. todo' = <<>>
  BY <1>1, SendForms, Kinds DEF IInv
<1>3. Types' /\ HoldsWhatWasAsked'
  <2>1. Stored(busy)' = Stored(busy)
    BY <1>1 DEF Stored
  <2>2. Types'
    BY <1>1 DEF IInv, Types
  <2> QED BY <1>1, <2>1, <2>2 DEF IInv, HoldsWhatWasAsked
<1>4. Remains' /\ Ready' /\ ErasesAwaited'
  BY <1>1, <1>2, IdleIsNone DEF Remains, Ready, ErasesAwaited
<1> QED BY <1>3, <1>4 DEF IInv

\* The chip finishes: what it was going to store is what it stores.
LEMMA DoneStep == ASSUME IInv, Done PROVE IInv'
<1>1. /\ busy # Idle /\ cell' = Stored(busy) /\ busy' = Idle /\ wel' = FALSE
      /\ UNCHANGED <<todo, got, expected>>
  BY DEF Done
<1>2. cell' \in [Addr -> Byte]
  BY <1>1, StoredType DEF IInv, Types
<1>3. Types' /\ Remains'
  BY <1>1, <1>2 DEF IInv, Types, Remains
<1>4. Ready' /\ ErasesAwaited'
  BY <1>1, IdleIsNone DEF IInv, Ready, ErasesAwaited
<1>5. Stored(busy)' = cell'
  BY <1>1, <1>2, IdleIsNone DEF Stored
<1>6. HoldsWhatWasAsked'
  BY <1>1, <1>5 DEF IInv, HoldsWhatWasAsked
<1> QED BY <1>3, <1>4, <1>6 DEF IInv

LEMMA Step == IInv /\ [Next]_vars => IInv'
<1> SUFFICES ASSUME IInv, [Next]_vars PROVE IInv'
  OBVIOUS
<1>1. CASE Send
  BY <1>1, WriteEnableStep, WriteStep, ReadStep, WaitStep DEF Send
<1>2. CASE UNCHANGED vars
  BY <1>2 DEF vars, IInv, Types, Remains, ErasesAwaited, Ready, HoldsWhatWasAsked, Stored
<1> QED BY <1>1, <1>2, CallStep, DoneStep DEF Next, Poll

THEOREM Invariance == Spec => []IInv
BY InitHolds, Step, PTL DEF Spec

-----------------------------------------------------------------------------
(* What follows *)

LEMMA TypesFollow == IInv => TypeOK
<1> SUFFICES ASSUME IInv PROVE TypeOK
  OBVIOUS
<1> DEFINE OK(c) == /\ c.cmd \in {"idle", "WREN", "PP", "SE", "BE", "READ", "WAIT"}
                    /\ c.addr \in Addr /\ c.data \in Seq(Byte)
<1>1. <<>> \in Seq(Byte)
  OBVIOUS
<1>2. OK(Idle) /\ OK(WREN)
  BY <1>1, Zero DEF Idle, WREN, Cmd
<1>3. \A c \in Programs \union Erases \union Waits \union Reads : OK(c)
  BY <1>1 DEF Programs, Erases, Waits, Reads
<1> HIDE DEF OK
<1>4. \A i \in DOMAIN todo : OK(todo[i])
  BY <1>2, <1>3 DEF IInv, Remains
<1>5. OK(busy)
  BY <1>2, <1>3 DEF IInv, Types
<1> QED BY <1>4, <1>5 DEF IInv, Types, TypeOK, OK

\* Every variable keeps its type, whatever is called while the chip works.
THEOREM TypeCorrect == Spec => []TypeOK
BY Invariance, TypesFollow, PTL

\* What callers asked for is what the chip holds, or will hold when it is done
\* (sf_program_page, sf_sector_erase, sf_bulk_erase).
THEOREM NothingIsMisplaced == Spec => []HoldsWhatWasAsked
<1>1. IInv => HoldsWhatWasAsked
  BY DEF IInv
<1> QED BY <1>1, Invariance, PTL

\* A request is lost only to a program in progress or by crossing a page: the
\* waits after the erases and the write enable commands are where they must be.
THEOREM LossesAreKnown == Spec => LostHow
<1> DEFINE A == expected # Unknown /\ expected' = Unknown
                    => busy.cmd = "PP" \/ Crosses(Head(todo))
<1>1. ASSUME IInv, [Next]_vars, expected # Unknown, expected' = Unknown,
             busy.cmd # "PP", ~Crosses(Head(todo))
      PROVE  FALSE
  <2>1. todo # <<>> /\ Send
    BY <1>1 DEF Next, Call, Done, Poll, vars, Send
  <2>2. busy = Idle \/ busy \in Erases
    BY <1>1, Kinds DEF IInv, Types
  <2>3. CASE WriteEnable(Head(todo))
    <3>1. Head(todo).cmd = "WREN" /\ busy # Idle
      BY <1>1, <2>3 DEF WriteEnable
    <3> QED BY <1>1, <2>1, <2>2, <3>1, AwaitedNext
  <2>4. CASE Write(Head(todo))
    <3>1. busy = Idle /\ wel
      BY <1>1, <2>1, <2>4 DEF IInv, Ready, Write
    <3>2. ~Lost(Head(todo))
      BY <1>1, <3>1 DEF Lost
    <3> QED BY <1>1, <2>1, <2>4, <3>2, WriteBegins
  <2>5. CASE Read(Head(todo))
    <3>1. Head(todo).cmd = "READ" /\ busy # Idle
      BY <1>1, <2>5 DEF Read
    <3> QED BY <1>1, <2>1, <2>2, <3>1, AwaitedNext
  <2>6. CASE Wait(Head(todo))
    BY <1>1, <2>6 DEF Wait
  <2> QED BY <2>1, <2>3, <2>4, <2>5, <2>6 DEF Send
<1>2. IInv /\ [Next]_vars => A
  BY <1>1
<1>3. A => [A]_vars
  OBVIOUS
<1> QED BY <1>2, <1>3, Invariance, PTL DEF Spec, LostHow

\* A read that is answered gives what callers asked the flash to hold.
THEOREM ReadsAreTrue == Spec => ReadsTrue
<1> DEFINE A == \A c \in {todo[i] : i \in {1} \cap DOMAIN todo} :
                    c.cmd = "READ" /\ todo' = Tail(todo) /\ expected' # Unknown
                        => \A i \in DOMAIN c.data : got'[i] = expected[c.addr + i - 1]
<1>1. ASSUME IInv, [Next]_vars, todo # <<>>, Head(todo).cmd = "READ",
             todo' = Tail(todo), expected' # Unknown
      PROVE  \A i \in DOMAIN Head(todo).data : got'[i] = expected[Head(todo).addr + i - 1]
  <2>1. Head(todo) \in Reads /\ Tail(todo) = <<>>
    BY <1>1, SendForms, Kinds DEF IInv
  <2>2. Send
    BY <1>1, <2>1 DEF Next, Call, Done, Poll, vars
  <2>3. Read(Head(todo))
    BY <1>1, <2>2 DEF Send, WriteEnable, Write, Wait, Writes
  <2>4. /\ busy = Idle /\ expected' = expected
        /\ got' = [i \in DOMAIN Head(todo).data |-> Received(Head(todo).addr + i - 1)]
    BY <1>1, <2>3 DEF Read
  <2>5. \A a \in Addr : expected[a] = Received(a)
    BY <1>1, <2>4, AtRest DEF IInv, Types, HoldsWhatWasAsked, Received
  <2>6. \A i \in DOMAIN Head(todo).data : Head(todo).addr + i - 1 \in Addr
    BY <2>1 DEF Reads
  <2> QED BY <2>4, <2>5, <2>6
<1>2. ASSUME IInv, [Next]_vars PROVE A
  <2>1. \A c \in {todo[i] : i \in {1} \cap DOMAIN todo} : todo # <<>> /\ c = Head(todo)
    BY <1>2 DEF IInv, Remains
  <2> HIDE DEF A
  <2> QED BY <1>1, <1>2, <2>1 DEF A
<1>3. A => [A]_vars
  OBVIOUS
<1> QED BY <1>2, <1>3, Invariance, PTL DEF Spec, ReadsTrue
=============================================================================
