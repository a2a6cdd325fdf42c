---------------------------- MODULE ListLemmas ----------------------------
(***************************************************************************)
(* What the list operations of the front-end do to a list of slots: its    *)
(* elements, its head, and that no slot is in it twice.  Everything rests  *)
(* on what concatenation does.  At the end, facts about natural numbers.   *)
(***************************************************************************)
EXTENDS Integers, SequencesExt, SequenceTheorems, WellFoundedInduction, NaturalsInduction, TLAPS

\* Elements and repetition in terms of positions.
LEMMA ListPositions ==
    ASSUME NEW S, NEW s \in Seq(S)
    PROVE  /\ \A x : x \in ToSet(s) <=> \E i \in 1..Len(s) : s[i] = x
           /\ IsInjective(s) <=> \A i, j \in 1..Len(s) : s[i] = s[j] => i = j
<1>1. DOMAIN s = 1..Len(s)
  OBVIOUS
<1> QED BY ONLY <1>1 DEF ToSet, IsInjective

LEMMA ListConcat ==
    ASSUME NEW S, NEW s \in Seq(S), NEW t \in Seq(S)
    PROVE  /\ s \o t \in Seq(S)
           /\ s # <<>> => s \o t # <<>> /\ Head(s \o t) = Head(s)
           /\ ToSet(s \o t) = ToSet(s) \union ToSet(t)
           /\ IsInjective(s \o t) <=>
                IsInjective(s) /\ IsInjective(t) /\ ToSet(s) \cap ToSet(t) = {}
<1> DEFINE u == s \o t
<1>1. u \in Seq(S)
  OBVIOUS
<1>2. Len(u) = Len(s) + Len(t)
  OBVIOUS
<1>3. \A i \in 1..Len(s) : u[i] = s[i]
  OBVIOUS
<1>4. \A j \in 1..Len(t) : u[Len(s) + j] = t[j]
  OBVIOUS
<1> HIDE DEF u
<1>5. Len(s) \in Nat /\ Len(t) \in Nat
  OBVIOUS
<1> DEFINE m == Len(s)
           n == Len(t)
<1> HIDE DEF m, n
<1>6. \A i \in 1..m : i \in 1..(m+n)
  BY <1>5 DEF m, n
<1>7. \A j \in 1..n : m + j \in 1..(m+n) /\ m + j \notin 1..m
  BY <1>5 DEF m, n
<1>8. ASSUME NEW i \in 1..(m+n), i \notin 1..m
      PROVE  \E j \in 1..n : i = m + j
  <2>1. i - m \in 1..n /\ i = m + (i - m)
    BY <1>5, <1>8 DEF m, n
  <2> QED BY <2>1
<1>9. /\ \A x : x \in ToSet(s) <=> \E i \in 1..m : s[i] = x
      /\ IsInjective(s) <=> \A i, j \in 1..m : s[i] = s[j] => i = j
  BY ListPositions DEF m
<1>10. /\ \A x : x \in ToSet(t) <=> \E i \in 1..n : t[i] = x
       /\ IsInjective(t) <=> \A i, j \in 1..n : t[i] = t[j] => i = j
  BY ListPositions DEF n
<1>11. /\ \A x : x \in ToSet(u) <=> \E i \in 1..(m+n) : u[i] = x
       /\ IsInjective(u) <=> \A i, j \in 1..(m+n) : u[i] = u[j] => i = j
  BY <1>1, <1>2, ListPositions DEF m, n
<1>12. /\ \A i \in 1..m : u[i] = s[i]
       /\ \A j \in 1..n : u[m + j] = t[j]
  BY <1>3, <1>4 DEF m, n
<1>13. s # <<>> => u # <<>> /\ Head(u) = Head(s)
  <2> HAVE s # <<>>
  <2>1. 1 \in 1..Len(s) /\ Len(u) >= 1
    BY <1>2
  <2>2. u[1] = s[1]
    BY <1>3, <2>1
  <2> QED BY <1>1, <2>1, <2>2
<1>14. ToSet(u) = ToSet(s) \union ToSet(t)
  <2>1. ASSUME NEW x \in ToSet(u)
        PROVE  x \in ToSet(s) \union ToSet(t)
    <3>1. PICK i \in 1..(m+n) : u[i] = x
      BY ONLY <1>11, <2>1
    <3>2. CASE i \in 1..m
      BY ONLY <1>9, <1>12, <3>1, <3>2
    <3>3. CASE i \notin 1..m
      BY ONLY <1>8, <1>10, <1>12, <3>1, <3>3
    <3> QED BY <3>2, <3>3
  <2>2. ToSet(s) \subseteq ToSet(u)
    BY ONLY <1>6, <1>9, <1>11, <1>12
  <2>3. ToSet(t) \subseteq ToSet(u)
    BY ONLY <1>7, <1>10, <1>11, <1>12
  <2> QED BY <2>1, <2>2, <2>3
<1>15. ASSUME IsInjective(s), IsInjective(t), ToSet(s) \cap ToSet(t) = {}
       PROVE  IsInjective(u)
  <2>1. ASSUME NEW i \in 1..m, NEW j \in 1..n
        PROVE  u[i] # u[m + j]
    <3>1. u[i] \in ToSet(s) /\ u[m + j] \in ToSet(t)
      BY ONLY <1>9, <1>10, <1>12
    <3> QED BY <1>15, <3>1
  <2> SUFFICES ASSUME NEW a \in 1..(m+n), NEW b \in 1..(m+n), u[a] = u[b]
               PROVE  a = b
    BY <1>11
  <2>2. CASE a \in 1..m /\ b \in 1..m
    <3>1. s[a] = s[b]
      BY <1>12, <2>2
    <3> QED BY <1>9, <1>15, <2>2, <3>1
  <2>3. CASE a \notin 1..m /\ b \notin 1..m
    <3>1. PICK i \in 1..n : a = m + i
      BY <1>8, <2>3
    <3>2. PICK j \in 1..n : b = m + j
      BY <1>8, <2>3
    <3>3. t[i] = t[j]
      BY <1>12, <3>1, <3>2
    <3> QED BY <1>10, <1>15, <3>1, <3>2, <3>3
  <2>4. CASE a \in 1..m /\ b \notin 1..m
    BY <1>8, <2>1, <2>4
  <2>5. CASE a \notin 1..m /\ b \in 1..m
    BY <1>8, <2>1, <2>5
  <2> QED BY <2>2, <2>3, <2>4, <2>5
<1>16. ASSUME IsInjective(u)
       PROVE  IsInjective(s) /\ IsInjective(t) /\ ToSet(s) \cap ToSet(t) = {}
  <2>1. \A a, b \in 1..(m+n) : u[a] = u[b] => a = b
    BY <1>11, <1>16
  <2>2. ASSUME NEW i \in 1..m, NEW j \in 1..m, s[i] = s[j]
        PROVE  i = j
    BY ONLY <1>6, <1>12, <2>1, <2>2
  <2>3. ASSUME NEW i \in 1..n, NEW j \in 1..n, t[i] = t[j]
        PROVE  i = j
    <3>1. m + i = m + j
      BY ONLY <1>7, <1>12, <2>1, <2>3
    <3> QED BY <1>5, <3>1 DEF m
  <2>4. ASSUME NEW i \in 1..m, NEW j \in 1..n
        PROVE  s[i] # t[j]
    <3>1. u[i] # u[m + j]
      BY ONLY <1>6, <1>7, <2>1
    <3> QED BY <1>12, <3>1
  <2>5. IsInjective(s) /\ IsInjective(t)
    BY <1>9, <1>10, <2>2, <2>3
  <2>6. ToSet(s) \cap ToSet(t) = {}
    BY ONLY <1>9, <1>10, <2>4
  <2> QED BY <2>5, <2>6
<1> QED BY <1>1, <1>13, <1>14, <1>15, <1>16 DEF u

\* The list of one slot.
LEMMA ListSingle ==
    ASSUME NEW S, NEW x \in S
    PROVE  /\ <<x>> \in Seq(S)
           /\ <<x>> # <<>>
           /\ Head(<<x>>) = x
           /\ ToSet(<<x>>) = {x}
           /\ IsInjective(<<x>>)
BY DEF ToSet, IsInjective

LEMMA ListHead ==
    ASSUME NEW S, NEW s \in Seq(S), s # <<>>
    PROVE  Head(s) \in ToSet(s)
BY DEF ToSet

LEMMA ListElements ==
    ASSUME NEW S, NEW s \in Seq(S)
    PROVE  ToSet(s) \subseteq S
BY DEF ToSet

LEMMA ListEmpty == ToSet(<<>>) = {} /\ IsInjective(<<>>)
BY DEF ToSet, IsInjective

\* The list of all slots (init_data_structures).
LEMMA ListSlots ==
    ASSUME NEW n \in Nat
    PROVE  LET s == [i \in 1..n |-> i]
           IN  s \in Seq(1..n) /\ ToSet(s) = 1..n /\ IsInjective(s)
BY DEF ToSet, IsInjective

\* A slot pushed onto a list (FREE_PERM, FREE_FILE, a new file).
LEMMA ListCons ==
    ASSUME NEW S, NEW s \in Seq(S), NEW x \in S
    PROVE  /\ <<x>> \o s \in Seq(S)
           /\ <<x>> \o s # <<>>
           /\ Head(<<x>> \o s) = x
           /\ ToSet(<<x>> \o s) = {x} \union ToSet(s)
           /\ IsInjective(<<x>> \o s) <=> IsInjective(s) /\ x \notin ToSet(s)
<1> DEFINE h == <<x>>
<1>1. h \in Seq(S) /\ h # <<>> /\ Head(h) = x /\ ToSet(h) = {x} /\ IsInjective(h)
  BY ListSingle
<1> HIDE DEF h
<1>2. /\ h \o s \in Seq(S) /\ h \o s # <<>> /\ Head(h \o s) = x
      /\ ToSet(h \o s) = {x} \union ToSet(s)
      /\ IsInjective(h \o s) <=> IsInjective(s) /\ x \notin ToSet(s)
  BY <1>1, ListConcat
<1> QED BY <1>2 DEF h

\* A slot taken off a list (ALLOC_PERM, ALLOC_FILE).
LEMMA ListTail ==
    ASSUME NEW S, NEW s \in Seq(S), s # <<>>
    PROVE  /\ Head(s) \in S
           /\ Tail(s) \in Seq(S)
           /\ ToSet(s) = {Head(s)} \union ToSet(Tail(s))
           /\ IsInjective(s) <=> IsInjective(Tail(s)) /\ Head(s) \notin ToSet(Tail(s))
<1>1. Head(s) \in S /\ Tail(s) \in Seq(S)
  OBVIOUS
<1>2. s = <<Head(s)>> \o Tail(s)
  OBVIOUS
<1> DEFINE h == Head(s)
           r == Tail(s)
<1> HIDE DEF h, r
<1>3. /\ ToSet(<<h>> \o r) = {h} \union ToSet(r)
      /\ IsInjective(<<h>> \o r) <=> IsInjective(r) /\ h \notin ToSet(r)
  BY <1>1, ListCons DEF h, r
<1> QED BY <1>1, <1>2, <1>3 DEF h, r

\* An entry appended to an ACL (add_acl).
LEMMA ListAppend ==
    ASSUME NEW S, NEW s \in Seq(S), NEW x \in S
    PROVE  /\ Append(s, x) \in Seq(S)
           /\ Append(s, x) # <<>>
           /\ s # <<>> => Head(Append(s, x)) = Head(s)
           /\ ToSet(Append(s, x)) = {x} \union ToSet(s)
           /\ IsInjective(Append(s, x)) <=> IsInjective(s) /\ x \notin ToSet(s)
<1> DEFINE h == <<x>>
<1>1. h \in Seq(S) /\ ToSet(h) = {x} /\ IsInjective(h)
  BY ListSingle
<1>2. Append(s, x) = s \o h /\ Append(s, x) # <<>>
  OBVIOUS
<1> HIDE DEF h
<1> QED BY <1>1, <1>2, ListConcat

\* The slots of list s pushed onto list t one by one (sfs_remove).
LEMMA ListReverse ==
    ASSUME NEW S, NEW s \in Seq(S), NEW t \in Seq(S)
    PROVE  /\ Reverse(s) \o t \in Seq(S)
           /\ ToSet(Reverse(s) \o t) = ToSet(s) \union ToSet(t)
           /\ IsInjective(s) /\ IsInjective(t) /\ ToSet(s) \cap ToSet(t) = {}
                => IsInjective(Reverse(s) \o t)
<1> DEFINE r == Reverse(s)
<1>1. r \in Seq(S) /\ Len(r) = Len(s) /\ \A i \in 1..Len(s) : r[i] = s[Len(s) - i + 1]
  BY DEF Reverse
<1> HIDE DEF r
<1>2. \A i \in 1..Len(s) : Len(s) - i + 1 \in 1..Len(s)
  OBVIOUS
<1>3. /\ \A x : x \in ToSet(s) <=> \E i \in 1..Len(s) : s[i] = x
      /\ IsInjective(s) <=> \A i, j \in 1..Len(s) : s[i] = s[j] => i = j
      /\ \A x : x \in ToSet(r) <=> \E i \in 1..Len(s) : r[i] = x
      /\ IsInjective(r) <=> \A i, j \in 1..Len(s) : r[i] = r[j] => i = j
  <2>1. /\ \A x : x \in ToSet(s) <=> \E i \in 1..Len(s) : s[i] = x
        /\ IsInjective(s) <=> \A i, j \in 1..Len(s) : s[i] = s[j] => i = j
    BY ListPositions
  <2>2. /\ \A x : x \in ToSet(r) <=> \E i \in 1..Len(r) : r[i] = x
        /\ IsInjective(r) <=> \A i, j \in 1..Len(r) : r[i] = r[j] => i = j
    BY <1>1, ListPositions
  <2> QED BY <1>1, <2>1, <2>2
<1>4. \A i \in 1..Len(s) : r[Len(s) - i + 1] = s[i]
  <2> TAKE i \in 1..Len(s)
  <2>1. r[Len(s) - i + 1] = s[Len(s) - (Len(s) - i + 1) + 1]
    BY <1>1, <1>2
  <2>2. Len(s) - (Len(s) - i + 1) + 1 = i
    OBVIOUS
  <2> QED BY <2>1, <2>2
<1>5. ToSet(r) = ToSet(s)
  <2>1. ToSet(r) \subseteq ToSet(s)
    BY ONLY <1>1, <1>2, <1>3
  <2>2. ToSet(s) \subseteq ToSet(r)
    BY ONLY <1>2, <1>3, <1>4
  <2> QED BY <2>1, <2>2
<1>5a. ASSUME IsInjective(s)
       PROVE  IsInjective(r)
  <2> SUFFICES ASSUME NEW i \in 1..Len(s), NEW j \in 1..Len(s), r[i] = r[j]
               PROVE  i = j
    BY <1>3
  <2>1. s[Len(s) - i + 1] = s[Len(s) - j + 1]
    BY <1>1
  <2>2. Len(s) - i + 1 = Len(s) - j + 1
    BY ONLY <1>2, <1>3, <1>5a, <2>1, SMTT(30)
  <2> QED BY <2>2
<1>6. /\ r \o t \in Seq(S)
      /\ ToSet(r \o t) = ToSet(s) \union ToSet(t)
      /\ IsInjective(s) /\ IsInjective(t) /\ ToSet(s) \cap ToSet(t) = {} => IsInjective(r \o t)
  BY <1>1, <1>5, <1>5a, ListConcat
<1> QED BY <1>6 DEF r

\* The slot at one position unlinked (revoke_acl, sfs_remove).
LEMMA ListRemoveAt ==
    ASSUME NEW S, NEW s \in Seq(S), NEW k \in 1..Len(s), IsInjective(s)
    PROVE  /\ RemoveAt(s, k) \in Seq(S)
           /\ ToSet(RemoveAt(s, k)) = ToSet(s) \ {s[k]}
           /\ IsInjective(RemoveAt(s, k))
           /\ Head(s) # s[k] => RemoveAt(s, k) # <<>> /\ Head(RemoveAt(s, k)) = Head(s)
<1> DEFINE a == SubSeq(s, 1, k-1)
           b == SubSeq(s, k+1, Len(s))
           c == <<s[k]>> \o b
<1>1. a \in Seq(S) /\ b \in Seq(S) /\ s[k] \in S
  OBVIOUS
<1>2. c \in Seq(S) /\ ToSet(c) = {s[k]} \union ToSet(b)
      /\ (IsInjective(c) <=> IsInjective(b) /\ s[k] \notin ToSet(b))
  BY <1>1, ListCons
<1>3. s = a \o c
  <2> DEFINE d == SubSeq(s, k, Len(s))
  <2>1. s = a \o d
    BY ConcatAdjacentSubSeq, SubSeqFull
  <2>2. d = c
    BY SubSeqRecursiveFirst
  <2> QED BY <2>1, <2>2
<1>4. Head(s) # s[k] => a # <<>> /\ Head(a) = Head(s)
  OBVIOUS
<1>5. RemoveAt(s, k) = a \o b
  BY DEF RemoveAt
<1> HIDE DEF a, b, c
<1>6. ToSet(s) = ToSet(a) \union ToSet(c) /\ IsInjective(a) /\ IsInjective(c)
      /\ ToSet(a) \cap ToSet(c) = {}
  BY <1>1, <1>2, <1>3, ListConcat
<1>7. /\ a \o b \in Seq(S)
      /\ ToSet(a \o b) = ToSet(a) \union ToSet(b)
      /\ IsInjective(a \o b)
      /\ a # <<>> => a \o b # <<>> /\ Head(a \o b) = Head(a)
  BY <1>1, <1>2, <1>6, ListConcat
<1> QED BY <1>2, <1>4, <1>5, <1>6, <1>7

-----------------------------------------------------------------------------
(* Least and greatest elements, and induction as far as the library's       *)
(* theorems can be instantiated: over the members of a set.                 *)

LEMMA LeastNat ==
    ASSUME NEW T, T \subseteq Nat, T # {}
    PROVE  \E x \in T : \A y \in T : x <= y
<1> DEFINE R == OpToRel(<, Nat)
<1>1. IsWellFoundedOn(R, Nat)
  BY NatLessThanWellFounded
<1>2. \A x \in Nat, y \in Nat : y < x => <<y, x>> \in R
  BY DEF OpToRel
<1> HIDE DEF R
<1>3. PICK x \in T : \A y \in T : ~ (<<y, x>> \in R)
  BY <1>1, WFMin
<1>4. \A y \in T : ~ (y < x)
  BY <1>2, <1>3
<1> QED BY <1>3, <1>4

\* A set with 0 that is closed under the successor holds every number.
LEMMA Induction ==
    ASSUME NEW S, 0 \in S, \A n \in Nat : n \in S => n + 1 \in S
    PROVE  Nat \subseteq S
<1> DEFINE T == Nat \ S
<1> SUFFICES ASSUME T # {} PROVE FALSE
  OBVIOUS
<1>1. T \subseteq Nat /\ T # {}
  OBVIOUS
<1>2. PICK x \in T : \A y \in T : x <= y
  <2> HIDE DEF T
  <2> QED BY <1>1, LeastNat
<1>3. x - 1 \in Nat /\ x # 0
  OBVIOUS
<1>4. x - 1 \in S
  BY <1>2, <1>3
<1> QED BY <1>4, <1>3, <1>2

LEMMA MinFacts ==
    ASSUME NEW T, T \subseteq Nat, T # {}
    PROVE  Min(T) \in T /\ \A y \in T : Min(T) <= y
BY LeastNat DEF Min

LEMMA MaxFacts ==
    ASSUME NEW T, T \subseteq Nat, T # {}, NEW n \in Nat, \A x \in T : x <= n
    PROVE  Max(T) \in T /\ \A y \in T : y <= Max(T)
<1> DEFINE D == {n - x : x \in T}
<1>0. \A x \in T : n - x \in Nat
  OBVIOUS
<1>1. D \subseteq Nat /\ D # {}
  BY <1>0
<1>2. PICK d \in D : \A e \in D : d <= e
  <2> HIDE DEF D
  <2> QED BY <1>1, LeastNat
<1>3. PICK x \in T : d = n - x
  OBVIOUS
<1>4. \A y \in T : x >= y
  <2> TAKE y \in T
  <2>1. n - y \in D /\ n - y \in Nat /\ n - x \in Nat
    OBVIOUS
  <2> QED BY <1>2, <1>3, <2>1
<1> QED BY <1>4 DEF Max
=============================================================================
