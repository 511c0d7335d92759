---------------------------- MODULE Shell_proofs ----------------------------
(***************************************************************************)
(* Proofs about the shell: the chat of a session and its stream            *)
(* (ShellChats), and the segments of the column (ShellViews).              *)
(*                                                                         *)
(* Both fold an operator over a sequence of any length.  That such a fold  *)
(* is what its steps make of the sequence is proved first.                 *)
(***************************************************************************)
EXTENDS ShellChats, ShellViews,
        FiniteSetTheorems, SequenceTheorems, WellFoundedInduction, TLAPS

-----------------------------------------------------------------------------
(***************************************************************************)
(* Folds                                                                   *)
(***************************************************************************)

(* A set of numbers has a least one. *)
LEMMA LeastNumber ==
  ASSUME NEW T \in SUBSET Nat, T # {}
  PROVE  \E m \in T : \A n \in T : m <= n
<1> DEFINE R == OpToRel(<, Nat)
<1>1. IsWellFoundedOn(R, Nat)
  BY NatLessThanWellFounded
<1> HIDE DEF R
<1>2. PICK m \in T : \A n \in T : <<n, m>> \notin R
  BY <1>1, WFMin
<1>3. ASSUME NEW n \in T
      PROVE  m <= n
  <2>1. <<n, m>> \notin {ss \in Nat \X Nat : ss[1] < ss[2]}
    BY <1>2 DEF R, OpToRel
  <2> QED
    BY <2>1
<1> QED
  BY <1>2, <1>3

(* A set of numbers that holds 0, and the successor of what it holds, *)
(* holds them all.                                                    *)
LEMMA Induction ==
  ASSUME NEW S \in SUBSET Nat, 0 \in S, \A n \in S : n + 1 \in S
  PROVE  S = Nat
<1> SUFFICES ASSUME Nat \ S # {}
             PROVE  FALSE
  OBVIOUS
<1>1. PICK m \in Nat \ S : \A n \in Nat \ S : m <= n
  BY LeastNumber
<1>2. m - 1 \in S
  BY <1>1
<1> QED
  BY <1>1, <1>2

(* The same up to a bound. *)
LEMMA InductionTo ==
  ASSUME NEW n \in Nat, NEW S, 0 \in S, \A k \in 0..(n - 1) : k \in S => k + 1 \in S
  PROVE  0..n \subseteq S
<1> DEFINE T == {k \in Nat : k <= n => k \in S}
<1>1. 0 \in T
  OBVIOUS
<1>2. ASSUME NEW k \in T
      PROVE  k + 1 \in T
  <2>1. k \in Nat /\ (k + 1 <= n => k \in 0..(n - 1) /\ k \in S)
    OBVIOUS
  <2> QED
    BY <2>1
<1>3. T = Nat
  <2> HIDE DEF T
  <2>1. T \in SUBSET Nat
    BY DEF T
  <2> QED
    BY <1>1, <1>2, <2>1, Induction
<1> QED
  BY <1>3

(* The largest number of an interval from 1, and of a set that has one at  *)
(* its end.                                                                *)
LEMMA MaxAtEnd ==
  ASSUME NEW k \in Nat, NEW s \in SUBSET (1..(k + 1)), k + 1 \in s
  PROVE  Max(s) = k + 1
<1>1. \A x \in s : x \in Nat /\ x <= k + 1
  OBVIOUS
<1>2. \A x \in s : (\A y \in s : x >= y) <=> x = k + 1
  BY <1>1
<1> QED
  BY <1>2 DEF Max

LEMMA MaxOfPlaces ==
  ASSUME NEW n \in Nat, NEW s \in SUBSET (1..n), s # {}
  PROVE  Max(s) \in s /\ \A x \in s : x <= Max(s)
<1> DEFINE T == {k \in Nat : \A x \in s : x <= k}
<1>1. n \in T /\ T \in SUBSET Nat
  OBVIOUS
<1>2. PICK m \in T : \A k \in T : m <= k
  <2> HIDE DEF T
  <2> QED
    BY <1>1, LeastNumber
<1>3. m \in Nat /\ \A x \in s : x <= m /\ x \in Nat /\ 1 <= x
  BY <1>2
<1>4. m \in s
  <2> SUFFICES ASSUME m \notin s PROVE FALSE
    OBVIOUS
  <2>1. m - 1 \in Nat /\ \A x \in s : x <= m - 1
    <3>1. \A x \in s : x < m /\ x \in Nat /\ 1 <= x
      BY <1>3
    <3>2. m - 1 \in Nat
      <4>1. PICK x \in s : TRUE
        OBVIOUS
      <4> QED
        BY <1>3, <3>1, <4>1
    <3>3. \A x \in s : x <= m - 1
      BY <1>3, <3>1
    <3> QED
      BY <3>2, <3>3
  <2>2. m - 1 \in T
    BY <2>1
  <2> HIDE DEF T
  <2> QED
    BY <1>2, <1>3, <2>2
<1>5. \E x \in s : \A y \in s : x >= y
  BY <1>3, <1>4
<1>6. Max(s) \in s /\ \A y \in s : Max(s) >= y
  BY <1>5 DEF Max
<1> QED
  BY <1>3, <1>6

(* A fold of F over q, from base. *)
Folding(A, B, F, base, n, q) ==
  F \in [A \X B -> A] /\ base \in A /\ n \in Nat /\ q \in [1..n -> B]

(* The values of a fold for every set of places of q, each from the one    *)
(* without the last place, as long as that is an A.                        *)
Unrolled(it, A, F, base, n, q) ==
  /\ it[{}] = base
  /\ \A s \in SUBSET (1..n) :
       s # {} /\ it[s \ {Max(s)}] \in A => it[s] = F[<<it[s \ {Max(s)}], q[Max(s)]>>]

(* The values after each place. *)
Stepwise(g, F, base, n, q) ==
  g[0] = base /\ \A k \in 1..n : g[k] = F[<<g[k - 1], q[k]>>]

(* What MapThenFoldSet is defined by: a value for every set of places of q *)
(* that follows from the one without the last place.                       *)
LEMMA FoldDefined ==
  ASSUME NEW A, NEW B, NEW F, NEW base, NEW n, NEW q, Folding(A, B, F, base, n, q)
  PROVE  \E it \in [SUBSET (1..n) -> A] : Unrolled(it, A, F, base, n, q)
<1> USE DEF Folding
<1> DEFINE Step(it, s) == IF s = {} THEN base ELSE F[<<it[s \ {Max(s)}], q[Max(s)]>>]
           Good(k) == \E it \in [SUBSET (1..k) -> A] : \A s \in SUBSET (1..k) : it[s] = Step(it, s)
           T == {k \in Nat : k <= n => Good(k)}
<1>1. 0 \in T
  <2>1. SUBSET (1..0) = {{}}
    OBVIOUS
  <2>2. [s \in SUBSET (1..0) |-> base] \in [SUBSET (1..0) -> A]
    OBVIOUS
  <2> QED
    BY <2>1, <2>2
<1>2. ASSUME NEW k \in 0..(n - 1), Good(k)
      PROVE  Good(k + 1)
  <2>1. PICK it \in [SUBSET (1..k) -> A] : \A s \in SUBSET (1..k) : it[s] = Step(it, s)
    BY <1>2
  <2>2. k \in Nat /\ k + 1 \in 1..n /\ 1..k \subseteq 1..(k + 1)
    OBVIOUS
  <2> DEFINE next == [s \in SUBSET (1..(k + 1)) |->
                        IF k + 1 \in s THEN F[<<it[s \ {k + 1}], q[k + 1]>>] ELSE it[s]]
  <2>3. ASSUME NEW s \in SUBSET (1..(k + 1)), k + 1 \in s
        PROVE  /\ s \ {k + 1} \in SUBSET (1..k) /\ Max(s) = k + 1 /\ s # {}
               /\ next[s] \in A /\ next[s] = Step(next, s)
    <3>1. s \ {k + 1} \in SUBSET (1..k) /\ Max(s) = k + 1 /\ s # {}
      BY <2>2, <2>3, MaxAtEnd
    <3>2. it[s \ {k + 1}] \in A /\ q[k + 1] \in B
      BY <3>1, <2>2
    <3>3. next[s] = F[<<it[s \ {k + 1}], q[k + 1]>>]
      BY <2>3
    <3>4. next[s \ {k + 1}] = it[s \ {k + 1}]
      BY <3>1, <2>2
    <3> QED
      BY <3>1, <3>2, <3>3, <3>4
  <2>4. ASSUME NEW s \in SUBSET (1..(k + 1)), k + 1 \notin s
        PROVE  next[s] \in A /\ next[s] = Step(next, s)
    <3>1. s \in SUBSET (1..k)
      BY <2>2, <2>4
    <3>2. next[s] = it[s] /\ it[s] \in A /\ it[s] = Step(it, s)
      BY <3>1, <2>1, <2>4
    <3>3. s \ {Max(s)} \in SUBSET (1..k) /\ k + 1 \notin s \ {Max(s)}
      BY <3>1, <2>4
    <3>4. next[s \ {Max(s)}] = it[s \ {Max(s)}]
      BY <3>3, <2>2
    <3> QED
      BY <3>2, <3>4
  <2>5. next \in [SUBSET (1..(k + 1)) -> A]
    BY <2>3, <2>4
  <2> HIDE DEF next
  <2> QED
    BY <2>3, <2>4, <2>5
<1>3. \A k \in 0..(n - 1) : Good(k) => Good(k + 1)
  BY <1>2
<1> HIDE DEF Good
<1>4. Good(n)
  <2>1. \A k \in 0..(n - 1) : k \in T => k + 1 \in T
    BY <1>3
  <2> HIDE DEF T
  <2>2. 0..n \subseteq T
    BY <1>1, <2>1, InductionTo
  <2>3. n \in T
    BY <2>2
  <2> QED
    BY <2>3 DEF T
<1>5. PICK it \in [SUBSET (1..n) -> A] : \A s \in SUBSET (1..n) : it[s] = Step(it, s)
  BY <1>4 DEF Good
<1> QED
  BY <1>5 DEF Unrolled

(* Read along the beginnings of q, such values are what the steps of the   *)
(* fold make of base.                                                      *)
LEMMA FoldRun ==
  ASSUME NEW A, NEW B, NEW F, NEW base, NEW n, NEW q, Folding(A, B, F, base, n, q),
         NEW it, Unrolled(it, A, F, base, n, q)
  PROVE  \E g \in [0..n -> A] : Stepwise(g, F, base, n, q) /\ g[n] = it[1..n]
<1> USE DEF Folding, Unrolled
<1> DEFINE T == {k \in Nat : k <= n => it[1..k] \in A}
<1>1. 1..0 = {}
  OBVIOUS
<1>2. ASSUME NEW k \in 0..(n - 1), it[1..k] \in A
      PROVE  it[1..(k + 1)] = F[<<it[1..k], q[k + 1]>>] /\ it[1..(k + 1)] \in A
  <2>1. k \in Nat /\ 1..(k + 1) \in SUBSET (1..n) /\ k + 1 \in 1..(k + 1) /\ k + 1 \in 1..n
    OBVIOUS
  <2>2. Max(1..(k + 1)) = k + 1
    BY <2>1, MaxAtEnd
  <2>3. (1..(k + 1)) \ {k + 1} = 1..k /\ 1..(k + 1) # {}
    BY <2>1
  <2>4. it[1..(k + 1)] = F[<<it[1..k], q[k + 1]>>]
    BY <1>2, <2>1, <2>2, <2>3
  <2>5. q[k + 1] \in B
    BY <2>1
  <2> QED
    BY <1>2, <2>4, <2>5
<1>3. 0 \in T
  BY <1>1
<1>4. \A k \in 0..n : it[1..k] \in A
  <2>1. \A k \in 0..(n - 1) : it[1..k] \in A => it[1..(k + 1)] \in A
    BY <1>2
  <2>2. \A k \in 0..(n - 1) : k \in T => k + 1 \in T
    BY <2>1
  <2> HIDE DEF T
  <2>3. 0..n \subseteq T
    BY <1>3, <2>2, InductionTo
  <2> QED
    BY <2>3 DEF T
<1> DEFINE g == [k \in 0..n |-> it[1..k]]
<1>5. g \in [0..n -> A] /\ g[0] = base /\ g[n] = it[1..n]
  BY <1>1, <1>4
<1>6. ASSUME NEW k \in 1..n
      PROVE  g[k] = F[<<g[k - 1], q[k]>>]
  <2>1. k - 1 \in 0..(n - 1) /\ k - 1 \in 0..n /\ (k - 1) + 1 = k /\ k \in 0..n
    OBVIOUS
  <2> QED
    BY <2>1, <1>2, <1>4
<1>7. Stepwise(g, F, base, n, q)
  BY <1>5, <1>6 DEF Stepwise
<1> HIDE DEF g
<1> QED
  BY <1>5, <1>7

-----------------------------------------------------------------------------
(***************************************************************************)
(* The items of a chat                                                     *)
(***************************************************************************)

Chat == [items : Seq(ChatItem), index : [Tools -> Nat]]

(* What was streamed is not empty. *)
Filled(l) ==
  \A i \in DOMAIN l : l[i].live /\ l[i].kind \in Text \cup {"tool"} => l[i].parts # << >>

(* It begins in the order of the items, and text ends before what follows. *)
InOrder(l) ==
  \A i, j \in DOMAIN l :
    i < j /\ l[i].live /\ l[j].live /\ l[i].parts # << >> /\ l[j].parts # << >> =>
      /\ Head(l[i].parts) < Head(l[j].parts)
      /\ l[i].kind \in Text => Last(l[i].parts) < Head(l[j].parts)

(* No number is in two items. *)
Apart(l) ==
  \A i, j \in DOMAIN l : i # j =>
    \A x \in DOMAIN l[i].parts, y \in DOMAIN l[j].parts : l[i].parts[x] # l[j].parts[y]

(* No item says a later thing first. *)
Rising(l) == \A i \in DOMAIN l : Increasing(l[i].parts)

Sound(l) == Filled(l) /\ InOrder(l) /\ Apart(l) /\ Rising(l)

(* Nothing is missing up to notification b, or from there to c. *)
Holds(l, n)    == \E i \in DOMAIN l : \E x \in DOMAIN l[i].parts : l[i].parts[x] = n
Complete(l, b) == \A n \in 1..b : Holds(l, n)
Fills(p, b, c) == \A n \in (b + 1)..c : \E x \in DOMAIN p : p[x] = n

(* It is what was said up to notification b, or from there to c. *)
Upto(l, b) ==
  (\A i \in DOMAIN l : \A x \in DOMAIN l[i].parts : l[i].parts[x] <= b) /\ Complete(l, b)
Between(p, b, c) ==
  (\A x \in DOMAIN p : b < p[x] /\ p[x] <= c) /\ Increasing(p) /\ Fills(p, b, c)

(* Its cards are where the index says, or elsewhere, never beyond the end. *)
Placed == {chat \in Chat : \A t \in Tools : chat.index[t] \in 0..Len(chat.items)}

(* A chat of what was said up to b. *)
Fits(chat, b) == chat \in Placed /\ Sound(chat.items) /\ Upto(chat.items, b)

(* An update of what was said after b and up to c. *)
Fresh(u, b, c) == b \in Nat /\ c \in Nat /\ b <= c /\ u.parts # << >> /\ Between(u.parts, b, c)

EndsAt(l, m) == {i \in DOMAIN l : l[i].kind = "turn-end" /\ l[i].of = m}

(* The parts of an item and of an update are numbers. *)
LEMMA PartsAreNumbers ==
  ASSUME NEW p \in Numbers
  PROVE  /\ p \in Seq(1..MaxHeard) /\ Len(p) \in Nat /\ DOMAIN p = 1..Len(p)
         /\ \A x \in DOMAIN p : p[x] \in Nat /\ p[x] \in 1..MaxHeard
         /\ p # << >> => 1 \in DOMAIN p /\ Len(p) \in DOMAIN p /\ Head(p) = p[1]
<1>1. p \in Seq(1..MaxHeard) /\ Len(p) \in Nat /\ DOMAIN p = 1..Len(p)
  BY DEF Numbers
<1>2. \A x \in DOMAIN p : p[x] \in 1..MaxHeard
  BY <1>1, ElementOfSeq
<1>3. p # << >> => Len(p) # 0 /\ Head(p) = p[1]
  BY <1>1
<1> QED
  BY <1>1, <1>2, <1>3, BoundsAssumption

LEMMA ItemIsTyped ==
  ASSUME NEW item \in ChatItem
  PROVE  /\ item.parts \in Numbers /\ item.live \in BOOLEAN
         /\ item.kind \in Text \cup {"user", "tool", "turn-end", "notice"}
  BY DEF ChatItem

LEMMA UpdateIsTyped ==
  ASSUME NEW u \in SessionUpdate
  PROVE  /\ u.parts \in Numbers /\ u.status \in Statuses \cup {None} /\ u.of \in Tools \cup {None}
         /\ u.kind \in Text \cup {"tool"}
         /\ u.kind \notin Text => u.kind = "tool" /\ u.of \in Tools /\ u.status \in Statuses
         /\ u = [kind |-> u.kind, of |-> u.of, status |-> u.status, parts |-> u.parts]
  BY DEF SessionUpdate

(* An item at the end whose numbers are new. *)
LEMMA Added ==
  ASSUME NEW l \in Seq(ChatItem), NEW item \in ChatItem, NEW b \in Nat, NEW c \in Nat, b <= c,
         Sound(l), Upto(l, b), Between(item.parts, b, c),
         item.live /\ item.kind \in Text \cup {"tool"} => item.parts # << >>
  PROVE  /\ Append(l, item) \in Seq(ChatItem)
         /\ Sound(Append(l, item)) /\ Upto(Append(l, item), c)
<1> DEFINE r == Append(l, item)
<1>1. /\ r \in Seq(ChatItem) /\ DOMAIN r = 1..(Len(l) + 1) /\ DOMAIN l = 1..Len(l)
      /\ r[Len(l) + 1] = item /\ \A i \in DOMAIN l : r[i] = l[i]
  OBVIOUS
<1>2. \A i \in DOMAIN r :
        /\ r[i] \in ChatItem /\ r[i].parts \in Numbers
        /\ i \in DOMAIN l \/ i = Len(l) + 1
  BY <1>1, ItemIsTyped
<1> HIDE DEF r
<1>3. Filled(r)
  BY <1>1, <1>2 DEF Sound, Filled
<1>4. Upto(r, c)
  <2>1. ASSUME NEW i \in DOMAIN r, NEW x \in DOMAIN r[i].parts
        PROVE  r[i].parts[x] <= c
    <3>1. r[i].parts[x] \in Nat
      BY <1>2, PartsAreNumbers
    <3>2. CASE i \in DOMAIN l
      BY <3>1, <3>2, <1>1 DEF Upto
    <3>3. CASE i = Len(l) + 1
      BY <3>3, <1>1 DEF Between
    <3> QED
      BY <3>2, <3>3, <1>2
  <2>2. ASSUME NEW n \in 1..c
        PROVE  Holds(r, n)
    <3>1. CASE n <= b
      <4>1. PICK i \in DOMAIN l : \E x \in DOMAIN l[i].parts : l[i].parts[x] = n
        BY <3>1 DEF Upto, Complete, Holds
      <4>2. i \in DOMAIN r /\ r[i] = l[i]
        BY <1>1
      <4> QED
        BY <4>1, <4>2 DEF Holds
    <3>2. CASE ~(n <= b)
      <4>1. n \in (b + 1)..c
        BY <3>2
      <4>2. PICK x \in DOMAIN item.parts : item.parts[x] = n
        BY <4>1 DEF Between, Fills
      <4> QED
        BY <4>2, <1>1 DEF Holds
    <3> QED
      BY <3>1, <3>2
  <2> QED
    BY <2>1, <2>2 DEF Upto, Complete
<1>7. Rising(r)
  BY <1>1, <1>2 DEF Sound, Rising, Between
<1>5. InOrder(r)
  <2>1. ASSUME NEW i \in DOMAIN r, NEW j \in DOMAIN r, i < j, r[i].live, r[j].live,
               r[i].parts # << >>, r[j].parts # << >>
        PROVE  /\ Head(r[i].parts) < Head(r[j].parts)
               /\ r[i].kind \in Text => Last(r[i].parts) < Head(r[j].parts)
    <3>1. i \in DOMAIN l /\ r[i] = l[i]
      BY <2>1, <1>1, <1>2
    <3>2. CASE j \in DOMAIN l
      BY <3>1, <3>2, <1>1, <2>1 DEF Sound, InOrder
    <3>3. CASE j = Len(l) + 1
      <4>1. /\ 1 \in DOMAIN r[i].parts /\ Len(r[i].parts) \in DOMAIN r[i].parts
            /\ 1 \in DOMAIN r[j].parts
        BY <2>1, <1>2, PartsAreNumbers
      <4>2. r[i].parts[1] <= b /\ r[i].parts[Len(r[i].parts)] <= b /\ b < r[j].parts[1]
        BY <3>1, <3>3, <4>1, <1>1 DEF Upto, Between
      <4>3. /\ r[i].parts[1] \in Nat /\ r[i].parts[Len(r[i].parts)] \in Nat
            /\ r[j].parts[1] \in Nat
        BY <4>1, <1>2, PartsAreNumbers
      <4>4. Head(r[i].parts) = r[i].parts[1] /\ Head(r[j].parts) = r[j].parts[1]
        BY <1>2, <2>1, PartsAreNumbers
      <4> QED
        BY <4>2, <4>3, <4>4 DEF Last
    <3> QED
      BY <3>2, <3>3, <1>2
  <2> QED
    BY <2>1 DEF InOrder
<1>6. Apart(r)
  <2>1. ASSUME NEW i \in DOMAIN l, NEW x \in DOMAIN r[i].parts, NEW y \in DOMAIN item.parts
        PROVE  r[i].parts[x] # item.parts[y]
    <3>1. r[i].parts[x] <= b /\ r[i].parts[x] \in Nat
      BY <1>1, <1>2, PartsAreNumbers DEF Upto
    <3>2. b < item.parts[y] /\ item.parts[y] \in Nat
      BY ItemIsTyped, PartsAreNumbers DEF Between
    <3> QED
      BY <3>1, <3>2
  <2>2. ASSUME NEW i \in DOMAIN r, NEW j \in DOMAIN r, i # j,
               NEW x \in DOMAIN r[i].parts, NEW y \in DOMAIN r[j].parts
        PROVE  r[i].parts[x] # r[j].parts[y]
    <3>1. CASE i \in DOMAIN l /\ j \in DOMAIN l
      BY <3>1, <2>2, <1>1 DEF Sound, Apart
    <3>2. CASE i \in DOMAIN l /\ j = Len(l) + 1
      BY <3>2, <2>1, <1>1
    <3>3. CASE j \in DOMAIN l /\ i = Len(l) + 1
      BY <3>3, <2>1, <1>1
    <3> QED
      BY <3>1, <3>2, <3>3, <2>2, <1>2
  <2> QED
    BY <2>2 DEF Apart
<1> QED
  BY <1>1, <1>3, <1>4, <1>5, <1>6, <1>7 DEF Sound, r
(* An item that goes on: a card wherever it is, text at the end. *)
RunsOn(r, l, n, p) ==
  /\ Len(r) = Len(l) /\ \A i \in DOMAIN l : i # n => r[i] = l[i]
  /\ r[n].kind = l[n].kind /\ r[n].live = l[n].live /\ r[n].of = l[n].of
  /\ r[n].parts = l[n].parts \o p
  /\ l[n].kind = "tool" \/ (l[n].kind \in Text /\ n = Len(l))

(* Numbers that go on with greater ones. *)
LEMMA RisesOn ==
  ASSUME NEW o \in Numbers, NEW p \in Numbers, NEW b \in Nat, Increasing(o), Increasing(p),
         \A x \in DOMAIN o : o[x] <= b, \A x \in DOMAIN p : b < p[x]
  PROVE  Increasing(o \o p)
<1> DEFINE q == o \o p
           d == Len(o)
<1>1. /\ o \in Seq(1..MaxHeard) /\ p \in Seq(1..MaxHeard) /\ d \in Nat /\ Len(p) \in Nat
      /\ DOMAIN o = 1..d /\ DOMAIN p = 1..Len(p)
      /\ \A x \in DOMAIN o : o[x] \in Nat
      /\ \A x \in DOMAIN p : p[x] \in Nat
  BY PartsAreNumbers
<1>2. /\ DOMAIN q = 1..(d + Len(p))
      /\ \A x \in 1..(d + Len(p)) : q[x] = IF x <= d THEN o[x] ELSE p[x - d]
  BY <1>1
<1> HIDE DEF q, d
<1>3. ASSUME NEW x \in 1..(d + Len(p)), NEW y \in 1..(d + Len(p)), x < y
      PROVE  q[x] < q[y]
  <2>1. CASE y <= d
    <3>1. x \in DOMAIN o /\ y \in DOMAIN o /\ q[x] = o[x] /\ q[y] = o[y]
      BY <1>1, <1>2, <1>3, <2>1
    <3> QED
      BY <3>1, <1>3 DEF Increasing
  <2>2. CASE x <= d /\ ~(y <= d)
    <3>1. x \in DOMAIN o /\ y - d \in DOMAIN p /\ q[x] = o[x] /\ q[y] = p[y - d]
      BY <1>1, <1>2, <2>2
    <3>2. o[x] <= b /\ b < p[y - d] /\ o[x] \in Nat /\ p[y - d] \in Nat
      BY <3>1, <1>1
    <3> QED
      BY <3>1, <3>2
  <2>3. CASE ~(x <= d) /\ ~(y <= d)
    <3>1. /\ x - d \in DOMAIN p /\ y - d \in DOMAIN p /\ x - d < y - d
          /\ q[x] = p[x - d] /\ q[y] = p[y - d]
      BY <1>1, <1>2, <1>3, <2>3
    <3> QED
      BY <3>1 DEF Increasing
  <2> QED
    BY <1>1, <1>3, <2>1, <2>2, <2>3
<1> QED
  BY <1>2, <1>3 DEF Increasing, q

(* It goes on with new numbers. *)
LEMMA Extended ==
  ASSUME NEW l \in Seq(ChatItem), NEW r \in Seq(ChatItem), NEW n \in DOMAIN l, NEW p \in Numbers,
         NEW b \in Nat, NEW c \in Nat, b <= c, Sound(l), Upto(l, b), Between(p, b, c),
         RunsOn(r, l, n, p)
  PROVE  Sound(r) /\ Upto(r, c)
<1> USE DEF RunsOn
<1>1. /\ DOMAIN r = 1..Len(l) /\ DOMAIN l = 1..Len(l) /\ Len(l) \in Nat
      /\ \A i \in DOMAIN l : l[i] \in ChatItem /\ l[i].parts \in Numbers
      /\ \A i \in DOMAIN l : r[i] \in ChatItem /\ r[i].parts \in Numbers
  BY ItemIsTyped
<1>2. \A i \in DOMAIN l : /\ r[i].kind = l[i].kind /\ r[i].live = l[i].live /\ r[i].of = l[i].of
                          /\ i # n => r[i].parts = l[i].parts
  OBVIOUS
<1> DEFINE d == Len(l[n].parts)
<1>3. /\ d \in Nat /\ DOMAIN r[n].parts = 1..(d + Len(p)) /\ Len(r[n].parts) = d + Len(p)
      /\ DOMAIN l[n].parts = 1..d /\ Len(p) \in Nat /\ DOMAIN p = 1..Len(p)
      /\ \A x \in DOMAIN l[n].parts : x \in DOMAIN r[n].parts /\ r[n].parts[x] = l[n].parts[x]
      /\ \A x \in DOMAIN r[n].parts :
           x \notin DOMAIN l[n].parts => x - d \in DOMAIN p /\ r[n].parts[x] = p[x - d]
      /\ r[n].parts = << >> => l[n].parts = << >>
  <2>1. l[n].parts \in Seq(1..MaxHeard) /\ p \in Seq(1..MaxHeard)
    BY <1>1, PartsAreNumbers
  <2> HIDE DEF d
  <2>2. d = Len(l[n].parts)
    BY DEF d
  <2>3. /\ Len(r[n].parts) = d + Len(p) /\ d \in Nat /\ Len(p) \in Nat
        /\ DOMAIN l[n].parts = 1..d /\ DOMAIN p = 1..Len(p)
        /\ DOMAIN r[n].parts = 1..(d + Len(p))
    BY <2>1, <2>2
  <2>4. \A x \in 1..(d + Len(p)) : r[n].parts[x] = IF x <= d THEN l[n].parts[x] ELSE p[x - d]
    BY <2>1, <2>2
  <2>5. \A x \in 1..(d + Len(p)) : x \notin 1..d => x - d \in 1..Len(p) /\ ~(x <= d)
    BY <2>3
  <2>6. \A x \in 1..d : x \in 1..(d + Len(p)) /\ x <= d
    BY <2>3
  <2>7. r[n].parts = << >> => l[n].parts = << >>
    <3>1. r[n].parts = << >> => Len(r[n].parts) = 0
      OBVIOUS
    <3>2. Len(l[n].parts) = 0 => l[n].parts = << >>
      BY <2>1, EmptySeq
    <3> QED
      BY <3>1, <3>2, <2>2, <2>3
  <2> QED
    BY <2>3, <2>4, <2>5, <2>6, <2>7
<1> HIDE DEF d
<1>4. Filled(r)
  BY <1>1, <1>2, <1>3 DEF Sound, Filled
<1>5. \A x \in DOMAIN r[n].parts : x \in DOMAIN l[n].parts \/ b < r[n].parts[x]
  BY <1>3 DEF Between
<1>6. Upto(r, c)
  <2>1. ASSUME NEW i \in DOMAIN r, NEW x \in DOMAIN r[i].parts
        PROVE  r[i].parts[x] <= c
    <3>1. r[i].parts[x] \in Nat
      BY <1>1, PartsAreNumbers
    <3>2. CASE i # n \/ x \in DOMAIN l[n].parts
      <4>1. i \in DOMAIN l /\ x \in DOMAIN l[i].parts /\ r[i].parts[x] = l[i].parts[x]
        BY <1>1, <1>2, <1>3, <3>2
      <4> QED
        BY <4>1, <3>1 DEF Upto
    <3>3. CASE i = n /\ x \notin DOMAIN l[n].parts
      BY <3>3, <1>3 DEF Between
    <3> QED
      BY <3>2, <3>3
  <2>2. ASSUME NEW k \in 1..c
        PROVE  Holds(r, k)
    <3>1. CASE k <= b
      <4>0. k \in 1..b /\ Complete(l, b)
        BY <3>1 DEF Upto
      <4>1. PICK i \in DOMAIN l : \E x \in DOMAIN l[i].parts : l[i].parts[x] = k
        BY <4>0 DEF Complete, Holds
      <4>2. PICK x \in DOMAIN l[i].parts : l[i].parts[x] = k
        BY <4>1
      <4>3. i \in DOMAIN r /\ x \in DOMAIN r[i].parts /\ r[i].parts[x] = k
        BY <4>2, <1>1, <1>2, <1>3
      <4> QED
        BY <4>3 DEF Holds
    <3>2. CASE ~(k <= b)
      <4>1. k \in (b + 1)..c
        BY <3>2
      <4>2. PICK x \in DOMAIN p : p[x] = k
        BY <4>1 DEF Between, Fills
      <4>3. d + x \in DOMAIN r[n].parts /\ d + x \notin DOMAIN l[n].parts /\ (d + x) - d = x
        BY <1>3
      <4>4. r[n].parts[d + x] = k
        BY <4>2, <4>3, <1>3
      <4> QED
        BY <4>3, <4>4, <1>1 DEF Holds
    <3> QED
      BY <3>1, <3>2
  <2> QED
    BY <2>1, <2>2 DEF Upto, Complete
<1>9. Rising(r)
  <2>1. Increasing(l[n].parts) /\ Increasing(p)
    BY DEF Sound, Rising, Between
  <2>4. \A x \in DOMAIN l[n].parts : l[n].parts[x] <= b
    BY DEF Upto
  <2>5. \A x \in DOMAIN p : b < p[x]
    BY DEF Between
  <2>2. ASSUME NEW i \in DOMAIN l, i # n
        PROVE  Increasing(r[i].parts)
    BY <2>2, <1>2 DEF Sound, Rising
  <2>3. Increasing(r[n].parts)
    BY <1>1, <2>1, <2>4, <2>5, RisesOn
  <2> QED
    BY <2>2, <2>3, <1>1 DEF Rising
<1>7. InOrder(r)
  <2>1. ASSUME NEW i \in DOMAIN l, r[i].live, r[i].parts # << >>, i # n \/ l[i].kind \in Text \cup {"tool"}
        PROVE  l[i].parts # << >> /\ Head(r[i].parts) = Head(l[i].parts)
    <3>1. l[i].parts # << >>
      BY <2>1, <1>2 DEF Sound, Filled
    <3>2. 1 \in DOMAIN l[i].parts /\ Head(l[i].parts) = l[i].parts[1] /\ Head(r[i].parts) = r[i].parts[1]
      BY <3>1, <2>1, <1>1, PartsAreNumbers
    <3>3. l[i].parts[1] = r[i].parts[1]
      <4>1. CASE i = n
        BY <4>1, <3>2, <1>3
      <4>2. CASE i # n
        BY <4>2, <1>2
      <4> QED
        BY <4>1, <4>2
    <3> QED
      BY <3>1, <3>2, <3>3
  <2>2. ASSUME NEW i \in DOMAIN r, NEW j \in DOMAIN r, i < j, r[i].live, r[j].live,
               r[i].parts # << >>, r[j].parts # << >>
        PROVE  /\ Head(r[i].parts) < Head(r[j].parts)
               /\ r[i].kind \in Text => Last(r[i].parts) < Head(r[j].parts)
    <3>1. i \in DOMAIN l /\ j \in DOMAIN l /\ l[i].live /\ l[j].live /\ i # Len(l)
      BY <2>2, <1>1, <1>2
    <3>2. /\ l[i].parts # << >> /\ Head(r[i].parts) = Head(l[i].parts)
          /\ l[j].parts # << >> /\ Head(r[j].parts) = Head(l[j].parts)
      BY <3>1, <2>1, <2>2
    <3>3. /\ Head(l[i].parts) < Head(l[j].parts)
          /\ l[i].kind \in Text => Last(l[i].parts) < Head(l[j].parts)
      BY <3>1, <3>2, <2>2 DEF Sound, InOrder
    <3>4. r[i].kind \in Text => i # n
      BY <3>1, <1>2, BoundsAssumption
    <3> QED
      BY <3>1, <3>2, <3>3, <3>4, <1>2
  <2> QED
    BY <2>2 DEF InOrder
<1>8. Apart(r)
  <2>1. ASSUME NEW i \in DOMAIN l, i # n, NEW x \in DOMAIN l[i].parts, NEW y \in DOMAIN r[n].parts
        PROVE  l[i].parts[x] # r[n].parts[y]
    <3>1. CASE y \in DOMAIN l[n].parts
      BY <2>1, <3>1, <1>3 DEF Sound, Apart
    <3>2. CASE y \notin DOMAIN l[n].parts
      <4>1. l[i].parts[x] <= b /\ l[i].parts[x] \in Nat /\ r[n].parts[y] \in Nat
        BY <1>1, <2>1, PartsAreNumbers DEF Upto
      <4> QED
        BY <4>1, <3>2, <1>5
    <3> QED
      BY <3>1, <3>2
  <2>2. ASSUME NEW i \in DOMAIN r, NEW j \in DOMAIN r, i # j,
               NEW x \in DOMAIN r[i].parts, NEW y \in DOMAIN r[j].parts
        PROVE  r[i].parts[x] # r[j].parts[y]
    <3>1. CASE i # n /\ j # n
      BY <3>1, <2>2, <1>1, <1>2 DEF Sound, Apart
    <3>2. CASE i = n
      <4>1. j \in DOMAIN l /\ j # n /\ y \in DOMAIN l[j].parts /\ r[j].parts = l[j].parts
        BY <3>2, <2>2, <1>1, <1>2
      <4>2. x \in DOMAIN r[n].parts
        BY <3>2, <2>2
      <4>3. l[j].parts[y] # r[n].parts[x]
        BY <4>1, <4>2, <2>1
      <4> QED
        BY <4>1, <4>3, <3>2
    <3>3. CASE j = n
      <4>1. i \in DOMAIN l /\ i # n /\ x \in DOMAIN l[i].parts /\ r[i].parts = l[i].parts
        BY <3>3, <2>2, <1>1, <1>2
      <4>2. y \in DOMAIN r[n].parts
        BY <3>3, <2>2
      <4>3. l[i].parts[x] # r[n].parts[y]
        BY <4>1, <4>2, <2>1
      <4> QED
        BY <4>1, <4>3, <3>3
    <3> QED
      BY <3>1, <3>2, <3>3
  <2> QED
    BY <2>2 DEF Apart
<1> QED
  BY <1>4, <1>6, <1>7, <1>8, <1>9 DEF Sound

(* No end of a turn comes or goes by that. *)
LEMMA EndsKept ==
  ASSUME NEW l \in Seq(ChatItem), NEW r \in Seq(ChatItem), NEW n \in DOMAIN l, NEW p,
         RunsOn(r, l, n, p), NEW m
  PROVE  EndsAt(r, m) = EndsAt(l, m)
<1>1. DOMAIN r = DOMAIN l
  BY DEF RunsOn
<1>2. \A i \in DOMAIN l : r[i].kind = l[i].kind /\ r[i].of = l[i].of
  BY DEF RunsOn
<1> QED
  BY <1>1, <1>2 DEF EndsAt
(* The ends of turns, when an item is appended. *)
LEMMA EndsAdded ==
  ASSUME NEW l \in Seq(ChatItem), NEW item \in ChatItem, NEW m
  PROVE  EndsAt(Append(l, item), m) =
           IF item.kind = "turn-end" /\ item.of = m THEN EndsAt(l, m) \cup {Len(l) + 1}
           ELSE EndsAt(l, m)
<1> DEFINE r == Append(l, item)
<1>1. /\ DOMAIN r = 1..(Len(l) + 1) /\ DOMAIN l = 1..Len(l) /\ Len(l) \in Nat
      /\ r[Len(l) + 1] = item /\ \A i \in DOMAIN l : r[i] = l[i]
  OBVIOUS
<1> HIDE DEF r
<1>2. \A i \in DOMAIN r : i \in DOMAIN l \/ i = Len(l) + 1
  BY <1>1
<1>3. DOMAIN l \subseteq DOMAIN r /\ Len(l) + 1 \in DOMAIN r /\ Len(l) + 1 \notin DOMAIN l
  BY <1>1
<1> QED
  BY <1>1, <1>2, <1>3 DEF EndsAt, r

(* An update makes an item. *)
LEMMA ItemOfUpdate ==
  ASSUME NEW u \in SessionUpdate
  PROVE  /\ u.kind \in Text => Item(u.kind, None, None, u.parts) \in ChatItem
         /\ u.kind \notin Text => Item("tool", u.of, u.status, u.parts) \in ChatItem
BY UpdateIsTyped DEF Item, ChatItem

(* A chunk of text, to whatever chat. *)
LEMMA ChunkApplied ==
  ASSUME NEW chat \in Placed, NEW u \in SessionUpdate, u.kind \in Text
  PROVE  /\ AppendChunk(chat, u) \in Placed
         /\ \A m \in Sends : EndsAt(AppendChunk(chat, u).items, m) = EndsAt(chat.items, m)
         /\ \A b, c : Fits(chat, b) /\ Fresh(u, b, c) => Fits(AppendChunk(chat, u), c)
<1> DEFINE l == chat.items
           n == Len(l)
           r == AppendChunk(chat, u)
<1>1. l \in Seq(ChatItem) /\ n \in Nat /\ DOMAIN l = 1..n /\ chat \in Chat
  BY DEF Placed, Chat
<1>2. u.parts \in Numbers
  BY UpdateIsTyped
<1>3. CASE n > 0 /\ l[n].kind = u.kind
  <2>1. n \in DOMAIN l /\ l[n] \in ChatItem
    BY <1>1, <1>3
  <2> DEFINE k == [l EXCEPT ![n].parts = @ \o u.parts]
  <2>2. r = [chat EXCEPT !.items = k]
    BY <1>3, <2>1, <1>1 DEF AppendChunk, Chat
  <2>3. l[n].parts \o u.parts \in Numbers
    BY <1>2, <2>1, ItemIsTyped, ConcatProperties DEF Numbers
  <2>4. k[n] \in ChatItem /\ k[n] = [l[n] EXCEPT !.parts = @ \o u.parts]
    BY <2>1, <2>3, <1>1 DEF ChatItem
  <2>5. k \in Seq(ChatItem) /\ Len(k) = n /\ \A i \in DOMAIN l : i # n => k[i] = l[i]
    <3>1. \A i \in DOMAIN l : i # n => k[i] = l[i]
      BY <1>1
    <3>2. k \in [1..n -> ChatItem]
      BY <1>1, <2>1, <2>4, <3>1
    <3> QED
      BY <1>1, <3>1, <3>2, IsASeq, LenProperties
  <2>6. /\ k[n].kind = l[n].kind /\ k[n].live = l[n].live /\ k[n].of = l[n].of
        /\ k[n].parts = l[n].parts \o u.parts
    BY <2>1, <2>4 DEF ChatItem
  <2>7. r.items = k /\ r \in Chat /\ r.index = chat.index
    BY <2>2, <2>5, <1>1 DEF Chat
  <2> HIDE DEF k, l, n, r
  <2>8. Len(k) = Len(l) /\ n = Len(l)
    BY <2>5 DEF n
  <2>9. RunsOn(k, l, n, u.parts)
    BY <2>5, <2>6, <2>8, <1>3 DEF RunsOn
  <2>10. r \in Placed
    BY <2>7, <2>8 DEF Placed, l
  <2>11. \A m \in Sends : EndsAt(k, m) = EndsAt(l, m)
    BY <2>1, <2>5, <2>9, <1>1, EndsKept
  <2>12. ASSUME NEW b, NEW c, Fits(chat, b), Fresh(u, b, c)
         PROVE  Fits(r, c)
    <3>1. Sound(l) /\ Upto(l, b)
      BY <2>12 DEF Fits, l
    <3>2. Sound(k) /\ Upto(k, c)
      BY <2>1, <2>5, <2>9, <2>12, <3>1, <1>1, <1>2, Extended DEF Fresh
    <3> QED
      BY <3>2, <2>7, <2>10 DEF Fits
  <2> QED
    BY <2>7, <2>10, <2>11, <2>12 DEF l, r
<1>4. CASE ~(n > 0 /\ l[n].kind = u.kind)
  <2> DEFINE item == Item(u.kind, None, None, u.parts)
             k == Append(l, item)
  <2>1. item \in ChatItem /\ item.parts = u.parts /\ item.kind = u.kind
    BY ItemOfUpdate DEF Item
  <2>2. r = [chat EXCEPT !.items = k]
    BY <1>4, <1>1 DEF AppendChunk, AppendItem, Chat
  <2>3. k \in Seq(ChatItem) /\ Len(k) = n + 1
    BY <2>1, <1>1
  <2>4. r.items = k /\ r \in Chat /\ r.index = chat.index
    BY <2>2, <2>3, <1>1 DEF Chat
  <2> HIDE DEF item, l, n, r
  <2>5. \A m \in Sends : EndsAt(k, m) = EndsAt(l, m)
    BY <2>1, <1>1, EndsAdded, BoundsAssumption
  <2>6. r \in Placed
    <3>1. \A t \in Tools : chat.index[t] \in 0..n
      BY DEF Placed, n, l
    <3> QED
      BY <3>1, <2>3, <2>4, <1>1 DEF Placed
  <2>7. ASSUME NEW b, NEW c, Fits(chat, b), Fresh(u, b, c)
        PROVE  Fits(r, c)
    <3>1. Sound(l) /\ Upto(l, b)
      BY <2>7 DEF Fits, l
    <3>2. Sound(k) /\ Upto(k, c)
      BY <2>1, <2>7, <3>1, <1>1, Added DEF Fresh
    <3> QED
      BY <3>2, <2>4, <2>6 DEF Fits
  <2> QED
    BY <2>4, <2>5, <2>6, <2>7 DEF l, r
<1> QED
  BY <1>3, <1>4
(* An update of a tool, wherever the index leads. *)
LEMMA ToolApplied ==
  ASSUME NEW chat \in Placed, NEW u \in SessionUpdate, u.kind \notin Text
  PROVE  /\ UpsertTool(chat, u) \in Placed
         /\ \A m \in Sends : EndsAt(UpsertTool(chat, u).items, m) = EndsAt(chat.items, m)
         /\ \A b, c : Fits(chat, b) /\ Fresh(u, b, c) => Fits(UpsertTool(chat, u), c)
<1> DEFINE l == chat.items
           n == chat.index[u.of]
           r == UpsertTool(chat, u)
<1>1. l \in Seq(ChatItem) /\ DOMAIN l = 1..Len(l) /\ Len(l) \in Nat /\ chat \in Chat
  BY DEF Placed, Chat
<1>2. u.parts \in Numbers /\ u.of \in Tools /\ u.status \in Statuses
  BY UpdateIsTyped
<1>3. n \in 0..Len(l) /\ chat.index \in [Tools -> Nat]
  BY <1>1, <1>2 DEF Placed, Chat
<1>4. CASE n # 0 /\ l[n].kind = "tool"
  <2>1. n \in DOMAIN l /\ l[n] \in ChatItem
    BY <1>1, <1>3, <1>4
  <2> DEFINE card == [l[n] EXCEPT !.parts = @ \o u.parts, !.status = u.status]
             k == [l EXCEPT ![n] = card]
  <2>2. r = [chat EXCEPT !.items = k]
    <3>1. r = [chat EXCEPT !.items[n].parts = @ \o u.parts, !.items[n].status = u.status]
      BY <1>4 DEF UpsertTool
    <3> QED
      BY <3>1, <2>1, <1>1 DEF Chat
  <2>3. l[n].parts \o u.parts \in Numbers
    BY <1>2, <2>1, ItemIsTyped, ConcatProperties DEF Numbers
  <2>4. k[n] = card /\ card \in ChatItem
    BY <2>1, <2>3, <1>1, <1>2 DEF ChatItem
  <2>5. k \in Seq(ChatItem) /\ Len(k) = Len(l) /\ \A i \in DOMAIN l : i # n => k[i] = l[i]
    <3>1. \A i \in DOMAIN l : i # n => k[i] = l[i]
      BY <1>1
    <3> HIDE DEF card
    <3>2. k \in [1..Len(l) -> ChatItem]
      BY <1>1, <2>1, <2>4, <3>1
    <3> QED
      BY <1>1, <3>1, <3>2, IsASeq, LenProperties
  <2>6. /\ k[n].kind = l[n].kind /\ k[n].live = l[n].live /\ k[n].of = l[n].of
        /\ k[n].parts = l[n].parts \o u.parts
    BY <2>1, <2>4 DEF ChatItem
  <2>7. r.items = k /\ r \in Chat /\ r.index = chat.index
    BY <2>2, <2>5, <1>1 DEF Chat
  <2> HIDE DEF card, k, l, n, r
  <2>8. RunsOn(k, l, n, u.parts)
    BY <2>5, <2>6, <1>4 DEF RunsOn
  <2>9. r \in Placed
    BY <2>5, <2>7 DEF Placed, l
  <2>10. \A m \in Sends : EndsAt(k, m) = EndsAt(l, m)
    BY <2>1, <2>5, <2>8, <1>1, EndsKept
  <2>11. ASSUME NEW b, NEW c, Fits(chat, b), Fresh(u, b, c)
         PROVE  Fits(r, c)
    <3>1. Sound(l) /\ Upto(l, b)
      BY <2>11 DEF Fits, l
    <3>2. Sound(k) /\ Upto(k, c)
      BY <2>1, <2>5, <2>8, <2>11, <3>1, <1>1, <1>2, Extended DEF Fresh
    <3> QED
      BY <3>2, <2>7, <2>9 DEF Fits
  <2> QED
    BY <2>7, <2>9, <2>10, <2>11 DEF l, r
<1>5. CASE ~(n # 0 /\ l[n].kind = "tool")
  <2> DEFINE item == Item("tool", u.of, u.status, u.parts)
             k == Append(l, item)
             ix == [chat.index EXCEPT ![u.of] = Len(l) + 1]
  <2>1. item \in ChatItem /\ item.parts = u.parts /\ item.kind = "tool"
    BY ItemOfUpdate DEF Item
  <2>2. r = [chat EXCEPT !.items = k, !.index = ix]
    BY <1>5, <1>1 DEF UpsertTool, AppendItem, Chat
  <2>3. k \in Seq(ChatItem) /\ Len(k) = Len(l) + 1
    BY <2>1, <1>1
  <2>4. ix \in [Tools -> Nat] /\ \A t \in Tools : ix[t] \in 0..(Len(l) + 1)
    <3>1. \A t \in Tools : chat.index[t] \in 0..Len(l)
      BY DEF Placed
    <3> QED
      BY <3>1, <1>1, <1>2, <1>3
  <2>5. r.items = k /\ r \in Chat /\ r.index = ix
    BY <2>2, <2>3, <2>4, <1>1 DEF Chat
  <2> HIDE DEF item, l, n, r, ix
  <2>6. r \in Placed
    BY <2>3, <2>4, <2>5 DEF Placed
  <2>7. \A m \in Sends : EndsAt(k, m) = EndsAt(l, m)
    BY <2>1, <1>1, EndsAdded
  <2>8. ASSUME NEW b, NEW c, Fits(chat, b), Fresh(u, b, c)
        PROVE  Fits(r, c)
    <3>1. Sound(l) /\ Upto(l, b)
      BY <2>8 DEF Fits, l
    <3>2. Sound(k) /\ Upto(k, c)
      BY <2>1, <2>8, <3>1, <1>1, Added DEF Fresh
    <3> QED
      BY <3>2, <2>5, <2>6 DEF Fits
  <2> QED
    BY <2>5, <2>6, <2>7, <2>8 DEF l, r
<1> QED
  BY <1>4, <1>5

LEMMA UpdateApplied ==
  ASSUME NEW chat \in Placed, NEW u \in SessionUpdate
  PROVE  /\ ApplyUpdate(chat, u) \in Placed
         /\ \A m \in Sends : EndsAt(ApplyUpdate(chat, u).items, m) = EndsAt(chat.items, m)
         /\ \A b, c : Fits(chat, b) /\ Fresh(u, b, c) => Fits(ApplyUpdate(chat, u), c)
<1>1. CASE u.kind \in Text
  BY <1>1, ChunkApplied DEF ApplyUpdate
<1>2. CASE u.kind \notin Text
  BY <1>2, ToolApplied DEF ApplyUpdate
<1> QED
  BY <1>1, <1>2

(* The marks of a cancel change nothing of this. *)
LEMMA MarkedStopped ==
  ASSUME NEW l \in Seq(ChatItem), NEW b, Sound(l), Upto(l, b)
  PROVE  /\ MarkRunningStopped(l) \in Seq(ChatItem) /\ Len(MarkRunningStopped(l)) = Len(l)
         /\ Sound(MarkRunningStopped(l)) /\ Upto(MarkRunningStopped(l), b)
         /\ \A m \in Sends : EndsAt(MarkRunningStopped(l), m) = EndsAt(l, m)
         /\ \A i \in DOMAIN MarkRunningStopped(l) :
              LET item == MarkRunningStopped(l)[i]
              IN  item.kind = "tool" /\ item.status = "in_progress" => item.local
<1> DEFINE r == MarkRunningStopped(l)
<1>1. DOMAIN l = 1..Len(l) /\ Len(l) \in Nat /\ DOMAIN r = DOMAIN l
  BY DEF MarkRunningStopped
<1>2. ASSUME NEW i \in DOMAIN l
      PROVE  /\ r[i] \in ChatItem /\ r[i].kind = l[i].kind /\ r[i].live = l[i].live
             /\ r[i].of = l[i].of /\ r[i].parts = l[i].parts
             /\ r[i].kind = "tool" /\ r[i].status = "in_progress" => r[i].local
  <2>1. l[i] \in ChatItem
    OBVIOUS
  <2>2. r[i] = IF l[i].kind = "tool" /\ l[i].status = "in_progress"
               THEN [l[i] EXCEPT !.local = TRUE] ELSE l[i]
    BY DEF MarkRunningStopped
  <2> HIDE DEF r
  <2> QED
    BY <2>1, <2>2 DEF ChatItem
<1> HIDE DEF r
<1>3. r \in Seq(ChatItem) /\ Len(r) = Len(l)
  <2>1. r = [i \in 1..Len(l) |-> r[i]]
    BY <1>1 DEF MarkRunningStopped, r
  <2>2. r \in [1..Len(l) -> ChatItem]
    BY <1>1, <1>2, <2>1
  <2> QED
    BY <1>1, <2>2, IsASeq, LenProperties
<1>4. Filled(r) /\ Apart(r) /\ Rising(r)
  BY <1>1, <1>2 DEF Sound, Filled, Apart, Rising
<1>7. Upto(r, b)
  BY <1>1, <1>2 DEF Upto, Complete, Holds
<1>5. InOrder(r)
  BY <1>1, <1>2 DEF Sound, InOrder
<1>6. \A m \in Sends : EndsAt(r, m) = EndsAt(l, m)
  BY <1>1, <1>2 DEF EndsAt
<1> QED
  BY <1>1, <1>2, <1>3, <1>4, <1>5, <1>6, <1>7 DEF Sound, r
-----------------------------------------------------------------------------
(***************************************************************************)
(* What is held back, and a flush of it                                    *)
(***************************************************************************)

LEMMA JoinedIsTyped ==
  ASSUME NEW out \in Seq(SessionUpdate), NEW u \in SessionUpdate
  PROVE  Joined(out, u) \in Seq(SessionUpdate)
<1> DEFINE n == Len(out)
           p == out[n].parts \o u.parts
           k == [out EXCEPT ![n].parts = p]
<1>1. CASE out # << >> /\ u.kind \in Text /\ Last(out).kind = u.kind
  <2>1. n \in Nat /\ n # 0 /\ DOMAIN out = 1..n
    BY <1>1, EmptySeq
  <2>2. n \in DOMAIN out /\ out[n] \in SessionUpdate /\ out[n].kind \in Text
    BY <2>1, <1>1 DEF Last
  <2>3. p \in Numbers
    BY <2>2, UpdateIsTyped, ConcatProperties DEF Numbers
  <2> HIDE DEF p
  <2>4. k[n] \in SessionUpdate
    BY <2>1, <2>2, <2>3, BoundsAssumption DEF SessionUpdate
  <2>5. \A i \in 1..n : i # n => k[i] = out[i]
    BY <2>1
  <2>6. k \in [1..n -> SessionUpdate]
    BY <2>1, <2>4, <2>5
  <2>7. k \in Seq(SessionUpdate)
    BY <2>1, <2>6, IsASeq
  <2> QED
    BY <1>1, <2>7 DEF Joined, p
<1>2. CASE ~(out # << >> /\ u.kind \in Text /\ Last(out).kind = u.kind)
  BY <1>2 DEF Joined
<1> QED
  BY <1>1, <1>2

(* Coalesce goes through its batch once. *)
LEMMA CoalesceFolds ==
  ASSUME NEW batch \in Seq(SessionUpdate)
  PROVE  \E g \in [0..Len(batch) -> Seq(SessionUpdate)] :
           /\ g[0] = << >> /\ g[Len(batch)] = Coalesce(batch)
           /\ \A k \in 1..Len(batch) : g[k] = Joined(g[k - 1], batch[k])
<1> DEFINE A == Seq(SessionUpdate)
           n == Len(batch)
           F == [p \in A \X SessionUpdate |-> Joined(p[1], p[2])]
           Run(it) == [s \in SUBSET DOMAIN batch |->
                         IF s = {} THEN << >> ELSE Joined(it[s \ {Max(s)}], batch[Max(s)])]
           c == CHOOSE it : it = Run(it)
<1>1. /\ n \in Nat /\ DOMAIN batch = 1..n /\ batch \in [1..n -> SessionUpdate]
      /\ F \in [A \X SessionUpdate -> A] /\ << >> \in A
  BY JoinedIsTyped
<1>2. \A x \in A, u \in SessionUpdate : F[<<x, u>>] = Joined(x, u)
  OBVIOUS
<1>3. Coalesce(batch) = c[DOMAIN batch]
  BY DEF Coalesce, FoldLeft, MapThenFoldSet
<1> HIDE DEF A, F, n
<1>4. Folding(A, SessionUpdate, F, << >>, n, batch)
  BY <1>1 DEF Folding
<1>5. \E it : it = Run(it)
  <2>1. PICK it \in [SUBSET (1..n) -> A] : Unrolled(it, A, F, << >>, n, batch)
    BY <1>4, FoldDefined
  <2>2. ASSUME NEW s \in SUBSET (1..n), s # {}
        PROVE  it[s] = Joined(it[s \ {Max(s)}], batch[Max(s)])
    <3>1. s \ {Max(s)} \in SUBSET (1..n) /\ Max(s) \in 1..n
      BY <1>1, <2>2, MaxOfPlaces
    <3>2. it[s \ {Max(s)}] \in A /\ batch[Max(s)] \in SessionUpdate
      BY <1>1, <3>1
    <3> QED
      BY <1>2, <2>1, <2>2, <3>2 DEF Unrolled
  <2>3. it[{}] = << >>
    BY <2>1 DEF Unrolled
  <2>4. it = Run(it)
    BY <1>1, <2>1, <2>2, <2>3
  <2> QED
    BY <2>4
<1>6. c = Run(c)
  BY <1>5
<1>7. Unrolled(c, A, F, << >>, n, batch)
  <2>1. c[{}] = << >>
    BY <1>6
  <2>2. ASSUME NEW s \in SUBSET (1..n), s # {}, c[s \ {Max(s)}] \in A
        PROVE  c[s] = F[<<c[s \ {Max(s)}], batch[Max(s)]>>]
    <3>1. Max(s) \in 1..n
      BY <1>1, <2>2, MaxOfPlaces
    <3>2. c[s] = Joined(c[s \ {Max(s)}], batch[Max(s)])
      BY <1>1, <1>6, <2>2
    <3> QED
      BY <1>1, <1>2, <2>2, <3>1, <3>2
  <2> HIDE DEF c
  <2> QED
    BY <2>1, <2>2 DEF Unrolled
<1> HIDE DEF c
<1>8. PICK g \in [0..n -> A] : Stepwise(g, F, << >>, n, batch) /\ g[n] = c[1..n]
  BY <1>4, <1>7, FoldRun
<1>9. ASSUME NEW k \in 1..n
      PROVE  g[k] = Joined(g[k - 1], batch[k])
  <2>1. k - 1 \in 0..n /\ batch[k] \in SessionUpdate
    BY <1>1
  <2> QED
    BY <1>2, <1>8, <2>1 DEF Stepwise
<1> QED
  BY <1>1, <1>3, <1>8, <1>9 DEF A, n, Stepwise

(* A sequence of updates, the one after the other, between two numbers:    *)
(* the first from the notification after cut[0], and so on.                *)
Cuts(q, cut, b, e) ==
  /\ cut \in [0..Len(q) -> Nat] /\ cut[0] = b /\ cut[Len(q)] = e
  /\ \A j \in 1..Len(q) :
       cut[j - 1] <= cut[j] /\ q[j].parts # << >> /\ Between(q[j].parts, cut[j - 1], cut[j])

LEMMA JoinedInOrder ==
  ASSUME NEW out \in Seq(SessionUpdate), NEW u \in SessionUpdate, NEW b \in Nat, NEW e \in Nat,
         NEW cut, Cuts(out, cut, b, e), b <= e, u.parts = <<e + 1>>
  PROVE  \E more : Cuts(Joined(out, u), more, b, e + 1)
<1> DEFINE n == Len(out)
<1>1. /\ n \in Nat /\ n = Len(out) /\ DOMAIN out = 1..n
      /\ cut \in [0..n -> Nat] /\ cut[0] = b /\ cut[n] = e
  BY DEF Cuts
<1>2. Len(u.parts) = 1 /\ DOMAIN u.parts = 1..1 /\ u.parts[1] = e + 1 /\ u.parts # << >>
  OBVIOUS
<1>3. ASSUME NEW j \in 1..n
      PROVE  /\ cut[j - 1] <= cut[j] /\ cut[j - 1] \in Nat /\ cut[j] \in Nat
             /\ out[j].parts # << >> /\ Between(out[j].parts, cut[j - 1], cut[j])
             /\ out[j] \in SessionUpdate /\ out[j].parts \in Numbers
  <2>1. j \in 0..n /\ j - 1 \in 0..n
    BY <1>1
  <2> QED
    BY <1>1, <2>1, UpdateIsTyped DEF Cuts
<1> HIDE DEF n
<1>4. CASE out # << >> /\ u.kind \in Text /\ Last(out).kind = u.kind
  <2>1. n # 0 /\ n \in 1..n /\ n - 1 \in 0..n
    BY <1>1, <1>4, EmptySeq
  <2> DEFINE p == out[n].parts \o u.parts
             k == [out EXCEPT ![n].parts = p]
             more == [cut EXCEPT ![n] = e + 1]
  <2>2. Joined(out, u) = k /\ Len(k) = n /\ DOMAIN k = 1..n
    BY <1>1, <1>4 DEF Joined
  <2>3. k[n].parts = p /\ \A j \in 1..n : j # n => k[j] = out[j]
    BY <1>1, <2>1, UpdateIsTyped
  <2>4. p # << >> /\ Between(p, cut[n - 1], e + 1)
    <3> DEFINE d == Len(out[n].parts)
    <3>1. /\ out[n].parts \in Seq(1..MaxHeard) /\ d \in Nat /\ DOMAIN out[n].parts = 1..d
          /\ \A x \in 1..d : out[n].parts[x] \in Nat
      BY <1>3, <2>1, PartsAreNumbers
    <3>2. Len(p) = d + 1 /\ DOMAIN p = 1..(d + 1)
      BY <3>1, <1>2, UpdateIsTyped, PartsAreNumbers
    <3>3. \A x \in 1..(d + 1) : p[x] = IF x <= d THEN out[n].parts[x] ELSE e + 1
      <4>1. \A x \in 1..(d + 1) : p[x] = IF x <= d THEN out[n].parts[x] ELSE u.parts[x - d]
        BY <3>1, <1>2, UpdateIsTyped, PartsAreNumbers
      <4>2. \A x \in 1..(d + 1) : ~(x <= d) => x - d = 1
        BY <3>1
      <4> QED
        BY <4>1, <4>2, <1>2
    <3> HIDE DEF p, d
    <3>4. cut[n - 1] <= cut[n] /\ cut[n] = e /\ cut[n - 1] \in Nat
      BY <1>1, <1>3, <2>1
    <3>5. ASSUME NEW x \in 1..(d + 1)
          PROVE  cut[n - 1] < p[x] /\ p[x] <= e + 1
      <4>1. CASE x <= d
        <5>1. x \in 1..d /\ p[x] = out[n].parts[x]
          BY <3>1, <3>3, <4>1
        <5>2. cut[n - 1] < p[x] /\ p[x] <= cut[n] /\ p[x] \in Nat
          BY <5>1, <3>1, <1>3, <2>1 DEF Between
        <5> QED
          BY <5>2, <3>4
      <4>2. CASE ~(x <= d)
        <5>1. p[x] = e + 1
          BY <3>3, <4>2
        <5> QED
          BY <5>1, <3>4
      <4> QED
        BY <4>1, <4>2
    <3>6. p # << >>
      BY <3>1, <3>2
    <3>7. Between(out[n].parts, cut[n - 1], e)
      BY <3>4, <1>3, <2>1
    <3>8. Increasing(p)
      <4>1. ASSUME NEW x \in 1..(d + 1), NEW y \in 1..(d + 1), x < y
            PROVE  p[x] < p[y]
        <5>1. x \in 1..d /\ p[x] = out[n].parts[x]
          BY <4>1, <3>1, <3>3
        <5>2. CASE y <= d
          <6>1. y \in 1..d /\ p[y] = out[n].parts[y]
            BY <5>2, <3>3
          <6> QED
            BY <4>1, <5>1, <6>1, <3>1, <3>7 DEF Between, Increasing
        <5>3. CASE ~(y <= d)
          <6>1. p[y] = e + 1 /\ p[x] <= e /\ p[x] \in Nat
            BY <5>1, <5>3, <3>1, <3>3, <3>7 DEF Between
          <6> QED
            BY <6>1
        <5> QED
          BY <5>2, <5>3
      <4> QED
        BY <4>1, <3>2 DEF Increasing
    <3>9. Fills(p, cut[n - 1], e + 1)
      <4>1. ASSUME NEW m \in (cut[n - 1] + 1)..(e + 1)
            PROVE  \E x \in DOMAIN p : p[x] = m
        <5>1. CASE m = e + 1
          <6>1. d + 1 \in 1..(d + 1) /\ ~(d + 1 <= d)
            BY <3>1
          <6> QED
            BY <5>1, <6>1, <3>2, <3>3
        <5>2. CASE m # e + 1
          <6>1. m \in (cut[n - 1] + 1)..e
            BY <5>2, <3>4
          <6>2. PICK x \in 1..d : out[n].parts[x] = m
            BY <6>1, <3>1, <3>7 DEF Between, Fills
          <6>3. x \in 1..(d + 1) /\ x <= d
            BY <3>1
          <6> QED
            BY <6>2, <6>3, <3>2, <3>3
        <5> QED
          BY <5>1, <5>2
      <4> QED
        BY <4>1 DEF Fills
    <3> QED
      BY <3>2, <3>5, <3>6, <3>8, <3>9 DEF Between
  <2>5. /\ more \in [0..n -> Nat] /\ more[0] = b /\ more[n] = e + 1
        /\ \A j \in 0..n : j # n => more[j] = cut[j]
    BY <1>1, <2>1
  <2> HIDE DEF k, p, more
  <2>6. ASSUME NEW j \in 1..n
        PROVE  /\ more[j - 1] <= more[j] /\ k[j].parts # << >>
               /\ Between(k[j].parts, more[j - 1], more[j])
    <3>1. j \in 0..n /\ j - 1 \in 0..n /\ j - 1 # n
      BY <1>1
    <3>2. CASE j = n
      <4>1. cut[n - 1] <= cut[n] /\ cut[n] = e /\ cut[n - 1] \in Nat
        BY <1>1, <1>3, <2>1
      <4> QED
        BY <4>1, <3>1, <3>2, <2>3, <2>4, <2>5
    <3>3. CASE j # n
      <4>1. more[j - 1] = cut[j - 1] /\ more[j] = cut[j] /\ k[j] = out[j]
        BY <3>1, <3>3, <2>3, <2>5
      <4> QED
        BY <4>1, <1>3
    <3> QED
      BY <3>2, <3>3
  <2>7. Cuts(k, more, b, e + 1)
    BY <2>2, <2>5, <2>6 DEF Cuts
  <2> QED
    BY <2>2, <2>7
<1>5. CASE ~(out # << >> /\ u.kind \in Text /\ Last(out).kind = u.kind)
  <2> DEFINE k == Append(out, u)
             more == [j \in 0..(n + 1) |-> IF j <= n THEN cut[j] ELSE e + 1]
  <2>1. Joined(out, u) = k
    BY <1>5 DEF Joined
  <2>2. Len(k) = n + 1 /\ k[n + 1] = u /\ \A j \in 1..n : k[j] = out[j]
    BY <1>1
  <2>3. /\ more \in [0..(n + 1) -> Nat] /\ more[0] = b /\ more[n + 1] = e + 1
        /\ \A j \in 0..n : more[j] = cut[j]
    BY <1>1
  <2> HIDE DEF k, more
  <2>4. ASSUME NEW j \in 1..(n + 1)
        PROVE  /\ more[j - 1] <= more[j] /\ k[j].parts # << >>
               /\ Between(k[j].parts, more[j - 1], more[j])
    <3>1. CASE j = n + 1
      <4>1. j - 1 = n /\ n \in 0..n /\ k[j] = u
        BY <1>1, <2>2, <3>1
      <4>2. more[j - 1] = e /\ more[j] = e + 1
        BY <4>1, <1>1, <2>3, <3>1
      <4>3. Between(k[j].parts, more[j - 1], more[j])
        <5>1. (e + 1)..(e + 1) = {e + 1}
          OBVIOUS
        <5> QED
          BY <4>1, <4>2, <5>1, <1>2 DEF Between, Increasing, Fills
      <4> QED
        <5>1. k[j].parts # << >>
          BY <4>1, <1>2
        <5>2. more[j - 1] <= more[j]
          BY <4>2
        <5> QED
          BY <4>3, <5>1, <5>2
    <3>2. CASE j # n + 1
      <4>1. j \in 1..n /\ j \in 0..n /\ j - 1 \in 0..n
        BY <1>1, <3>2
      <4>2. more[j - 1] = cut[j - 1] /\ more[j] = cut[j] /\ k[j] = out[j]
        BY <4>1, <2>2, <2>3
      <4> QED
        BY <4>1, <4>2, <1>3
    <3> QED
      BY <3>1, <3>2
  <2>5. Cuts(k, more, b, e + 1)
    BY <2>2, <2>3, <2>4 DEF Cuts
  <2> QED
    BY <2>1, <2>5
<1> QED
  BY <1>4, <1>5

(* What coalescing makes of neighbours stays in their order. *)
LEMMA CoalescedInOrder ==
  ASSUME NEW b \in Nat, NEW batch \in Seq(SessionUpdate),
         \A j \in 1..Len(batch) : batch[j].parts = <<b + j>>
  PROVE  /\ Coalesce(batch) \in Seq(SessionUpdate)
         /\ \E cut : Cuts(Coalesce(batch), cut, b, b + Len(batch))
<1> DEFINE n == Len(batch)
<1>1. PICK g \in [0..n -> Seq(SessionUpdate)] :
        /\ g[0] = << >> /\ g[n] = Coalesce(batch)
        /\ \A k \in 1..n : g[k] = Joined(g[k - 1], batch[k])
  BY CoalesceFolds
<1> DEFINE T == {k \in 0..n : \E cut : Cuts(g[k], cut, b, b + k)}
<1>2. n \in Nat
  OBVIOUS
<1> HIDE DEF n
<1>3. 0 \in T
  <2>1. Cuts(<< >>, [j \in 0..0 |-> b], b, b + 0)
    BY DEF Cuts
  <2> QED
    BY <1>1, <1>2, <2>1
<1>4. ASSUME NEW k \in 0..(n - 1), \E cut : Cuts(g[k], cut, b, b + k)
      PROVE  \E cut : Cuts(g[k + 1], cut, b, b + (k + 1))
  <2>1. PICK cut : Cuts(g[k], cut, b, b + k)
    BY <1>4
  <2>2. /\ k + 1 \in 1..n /\ k \in 0..n /\ k \in Nat /\ (k + 1) - 1 = k
        /\ b + k \in Nat /\ b <= b + k /\ b + (k + 1) = (b + k) + 1
    BY <1>2
  <2>3. /\ g[k] \in Seq(SessionUpdate) /\ batch[k + 1] \in SessionUpdate
        /\ g[k + 1] = Joined(g[k], batch[k + 1]) /\ batch[k + 1].parts = <<(b + k) + 1>>
    BY <1>1, <2>2 DEF n
  <2> QED
    BY <2>1, <2>2, <2>3, JoinedInOrder
<1>5. \A k \in 0..(n - 1) : k \in T => k + 1 \in T
  <2>1. \A k \in 0..(n - 1) : k + 1 \in 0..n
    BY <1>2
  <2> QED
    BY <2>1, <1>4
<1>6. n \in T
  <2> HIDE DEF T
  <2>1. 0..n \subseteq T
    BY <1>2, <1>3, <1>5, InductionTo
  <2> QED
    BY <1>2, <2>1
<1> QED
  BY <1>1, <1>2, <1>6 DEF n
(* A flush goes through the coalesced updates once. *)
LEMMA ShowFolds ==
  ASSUME NEW chat \in Placed, NEW q \in Seq(SessionUpdate)
  PROVE  \E g \in [0..Len(q) -> Placed] :
           /\ g[0] = chat /\ g[Len(q)] = FoldLeft(ApplyUpdate, chat, q)
           /\ \A k \in 1..Len(q) : g[k] = ApplyUpdate(g[k - 1], q[k])
<1> DEFINE A == Placed
           n == Len(q)
           F == [p \in A \X SessionUpdate |-> ApplyUpdate(p[1], p[2])]
           Run(it) == [s \in SUBSET DOMAIN q |->
                         IF s = {} THEN chat ELSE ApplyUpdate(it[s \ {Max(s)}], q[Max(s)])]
           c == CHOOSE it : it = Run(it)
<1>1. /\ n \in Nat /\ DOMAIN q = 1..n /\ q \in [1..n -> SessionUpdate]
      /\ F \in [A \X SessionUpdate -> A] /\ chat \in A
  BY UpdateApplied
<1>2. \A x \in A, u \in SessionUpdate : F[<<x, u>>] = ApplyUpdate(x, u)
  OBVIOUS
<1>3. FoldLeft(ApplyUpdate, chat, q) = c[DOMAIN q]
  BY DEF FoldLeft, MapThenFoldSet
<1> HIDE DEF A, F, n
<1>4. Folding(A, SessionUpdate, F, chat, n, q)
  BY <1>1 DEF Folding
<1>5. \E it : it = Run(it)
  <2>1. PICK it \in [SUBSET (1..n) -> A] : Unrolled(it, A, F, chat, n, q)
    BY <1>4, FoldDefined
  <2>2. ASSUME NEW s \in SUBSET (1..n), s # {}
        PROVE  it[s] = ApplyUpdate(it[s \ {Max(s)}], q[Max(s)])
    <3>1. s \ {Max(s)} \in SUBSET (1..n) /\ Max(s) \in 1..n
      BY <1>1, <2>2, MaxOfPlaces
    <3>2. it[s \ {Max(s)}] \in A /\ q[Max(s)] \in SessionUpdate
      BY <1>1, <3>1
    <3> QED
      BY <1>2, <2>1, <2>2, <3>2 DEF Unrolled
  <2>3. it[{}] = chat
    BY <2>1 DEF Unrolled
  <2>4. it = Run(it)
    BY <1>1, <2>1, <2>2, <2>3
  <2> QED
    BY <2>4
<1>6. c = Run(c)
  BY <1>5
<1>7. Unrolled(c, A, F, chat, n, q)
  <2>1. c[{}] = chat
    BY <1>6
  <2>2. ASSUME NEW s \in SUBSET (1..n), s # {}, c[s \ {Max(s)}] \in A
        PROVE  c[s] = F[<<c[s \ {Max(s)}], q[Max(s)]>>]
    <3>1. Max(s) \in 1..n
      BY <1>1, <2>2, MaxOfPlaces
    <3>2. c[s] = ApplyUpdate(c[s \ {Max(s)}], q[Max(s)])
      BY <1>1, <1>6, <2>2
    <3> QED
      BY <1>1, <1>2, <2>2, <3>1, <3>2
  <2> HIDE DEF c
  <2> QED
    BY <2>1, <2>2 DEF Unrolled
<1> HIDE DEF c
<1>8. PICK g \in [0..n -> A] : Stepwise(g, F, chat, n, q) /\ g[n] = c[1..n]
  BY <1>4, <1>7, FoldRun
<1>9. ASSUME NEW k \in 1..n
      PROVE  g[k] = ApplyUpdate(g[k - 1], q[k])
  <2>1. k - 1 \in 0..n /\ q[k] \in SessionUpdate
    BY <1>1
  <2> QED
    BY <1>2, <1>8, <2>1 DEF Stepwise
<1> QED
  BY <1>1, <1>3, <1>8, <1>9 DEF A, n, Stepwise

(* The updates from the notification after b on, one of each. *)
Queue(batch, b) ==
  batch \in Seq(SessionUpdate) /\ \A j \in 1..Len(batch) : batch[j].parts = <<b + j>>

(* A flush shows what was held back behind what was shown. *)
LEMMA FlushShows ==
  ASSUME NEW chat, NEW b \in Nat, Fits(chat, b), NEW batch, Queue(batch, b)
  PROVE  LET r == FoldLeft(ApplyUpdate, chat, Coalesce(batch))
         IN  /\ Fits(r, b + Len(batch))
             /\ \A m \in Sends : EndsAt(r.items, m) = EndsAt(chat.items, m)
<1> DEFINE q == Coalesce(batch)
           n == Len(q)
           e == b + Len(batch)
<1>1. batch \in Seq(SessionUpdate) /\ Len(batch) \in Nat /\ e \in Nat /\ chat \in Placed
  BY DEF Queue, Fits
<1>2. q \in Seq(SessionUpdate) /\ \E cut : Cuts(q, cut, b, e)
  BY <1>1, CoalescedInOrder DEF Queue
<1>3. PICK cut : Cuts(q, cut, b, e)
  BY <1>2
<1> HIDE DEF q, e
<1>4. PICK g \in [0..n -> Placed] :
        /\ g[0] = chat /\ g[n] = FoldLeft(ApplyUpdate, chat, q)
        /\ \A k \in 1..n : g[k] = ApplyUpdate(g[k - 1], q[k])
  BY <1>1, <1>2, ShowFolds
<1>5. n \in Nat /\ cut \in [0..n -> Nat] /\ cut[0] = b /\ cut[n] = e
  BY <1>2, <1>3 DEF Cuts
<1> DEFINE Shown(k) ==
             /\ Fits(g[k], cut[k])
             /\ \A m \in Sends : EndsAt(g[k].items, m) = EndsAt(chat.items, m)
           T == {k \in 0..n : Shown(k)}
<1>6. 0 \in T
  BY <1>4, <1>5
<1>7. ASSUME NEW k \in 0..(n - 1), Shown(k)
      PROVE  Shown(k + 1)
  <2>1. k + 1 \in 1..n /\ k \in 0..n /\ (k + 1) - 1 = k /\ k + 1 \in 0..n
    BY <1>5
  <2>2. g[k + 1] = ApplyUpdate(g[k], q[k + 1]) /\ g[k] \in Placed /\ q[k + 1] \in SessionUpdate
    BY <1>2, <1>4, <2>1
  <2>3. Fresh(q[k + 1], cut[k], cut[k + 1])
    BY <1>3, <1>5, <2>1 DEF Cuts, Fresh
  <2> QED
    BY <1>7, <2>2, <2>3, UpdateApplied
<1>8. \A k \in 0..(n - 1) : k \in T => k + 1 \in T
  <2>1. \A k \in 0..(n - 1) : k + 1 \in 0..n
    BY <1>5
  <2> HIDE DEF Shown
  <2> QED
    BY <2>1, <1>7
<1>9. n \in T
  <2> HIDE DEF T, n
  <2>1. 0..n \subseteq T
    BY <1>5, <1>6, <1>8, InductionTo
  <2> QED
    BY <1>5, <2>1
<1> QED
  BY <1>4, <1>5, <1>9 DEF q, e

(* An item of what was said after b and up to c, if of anything. *)
NewItem(item, b, c) ==
  /\ item \in ChatItem /\ b \in Nat /\ c \in Nat /\ b <= c /\ Between(item.parts, b, c)
  /\ item.live /\ item.kind \in Text \cup {"tool"} => item.parts # << >>

(* It comes behind all others. *)
LEMMA ItemAppended ==
  ASSUME NEW b, NEW c, NEW chat, Fits(chat, b), NEW item, NewItem(item, b, c)
  PROVE  /\ Fits(AppendItem(chat, item), c)
         /\ AppendItem(chat, item).items = Append(chat.items, item)
         /\ AppendItem(chat, item).index = chat.index
<1> USE DEF NewItem
<1> DEFINE l == chat.items
           r == Append(l, item)
<1>1. /\ chat \in Chat /\ l \in Seq(ChatItem) /\ Len(l) \in Nat /\ Sound(l) /\ Upto(l, b)
      /\ \A t \in Tools : chat.index[t] \in 0..Len(l)
  BY DEF Fits, Placed, Chat
<1>2. AppendItem(chat, item) = [items |-> r, index |-> chat.index]
  <2>1. AppendItem(chat, item) = [chat EXCEPT !.items = r]
    BY DEF AppendItem
  <2> HIDE DEF r
  <2> QED
    BY <1>1, <2>1 DEF Chat
<1>3. r \in Seq(ChatItem) /\ Len(r) = Len(l) + 1
  BY <1>1
<1>4. Sound(r) /\ Upto(r, c)
  BY <1>1, Added
<1> HIDE DEF r
<1>5. [items |-> r, index |-> chat.index] \in Placed
  BY <1>1, <1>3 DEF Placed, Chat
<1>6. Fits(AppendItem(chat, item), c) /\ AppendItem(chat, item).items = r
  BY <1>2, <1>4, <1>5 DEF Fits
<1> QED
  BY <1>2, <1>6 DEF r

(* What a page may hold says nothing that the stream has put there. *)
Paged(item) ==
  /\ item \in ChatItem /\ item.parts = << >> /\ ~item.live
  /\ item.kind # "turn-end"

LEMMA OldIsPaged ==
  ASSUME NEW k \in {"assistant", "tool"}
  PROVE  Paged(OldItem(k))
<1>1. << >> \in Numbers
  BY EmptySeq DEF Numbers
<1> DEFINE st == IF k = "tool" THEN "completed" ELSE None
<1>2. OldItem(k) = [Item(k, None, st, << >>) EXCEPT !.live = FALSE]
  BY DEF OldItem
<1>3. st \in Statuses \cup {None}
  BY DEF Statuses
<1> HIDE DEF st
<1>4. Item(k, None, st, << >>) \in ChatItem
  BY <1>1, <1>3, BoundsAssumption DEF Item, ChatItem
<1>5. Item(k, None, st, << >>).kind = k /\ Item(k, None, st, << >>).parts = << >>
  BY DEF Item
<1> QED
  BY <1>2, <1>4, <1>5 DEF ChatItem, Paged

LEMMA RepeatedIsPaged ==
  ASSUME NEW list \in Seq(ChatItem), NEW i \in Messages(list)
  PROVE  Paged(Repeated(list[i]))
<1> DEFINE x == list[i]
           said == ToSet(x.parts)
<1>1. x \in ChatItem /\ x.kind \in Text \cup {"user", "tool"}
  BY DEF Messages
<1>2. said \in SUBSET (1..MaxHeard) /\ << >> \in Numbers
  <2>1. \A y \in DOMAIN x.parts : x.parts[y] \in 1..MaxHeard
    BY <1>1, ItemIsTyped, PartsAreNumbers
  <2> QED
    BY <2>1, EmptySeq DEF ToSet, Numbers
<1>3. Repeated(x) = [x EXCEPT !.live = FALSE, !.local = FALSE, !.parts = << >>, !.again = said]
  BY DEF Repeated
<1>4. x.kind # "turn-end"
  BY <1>1, BoundsAssumption
<1> HIDE DEF x, said
<1> DEFINE y == [kind |-> x.kind, of |-> x.of, status |-> x.status, local |-> FALSE,
                 parts |-> << >>, again |-> said, live |-> FALSE]
<1>6. Repeated(x) = y
  BY <1>1, <1>3 DEF ChatItem
<1>7. y \in ChatItem
  BY <1>1, <1>2 DEF ChatItem
<1>5. Paged(Repeated(x))
  BY <1>4, <1>6, <1>7 DEF Paged
<1> QED
  BY <1>5 DEF x

(* A page holds nothing else. *)
LEMMA PageIsPaged ==
  ASSUME Flushed(pending).items \in Seq(ChatItem), NEW page \in Pages
  PROVE  page \in Seq(ChatItem) /\ \A i \in DOMAIN page : Paged(page[i])
<1> DEFINE list == Flushed(pending).items
           Old == {<< >>, <<OldItem("assistant")>>, <<OldItem("tool")>>}
<1>1. PICK old \in Old, f \in Beginnings(Messages(list)) :
        page = PageOf(old, list, f)
  BY DEF Pages
<1> HIDE DEF list
<1>2. PICK k \in 0..Cardinality(Messages(list)) : f \in [1..k -> Messages(list)]
  BY <1>1 DEF Beginnings
<1>3. k \in Nat
  OBVIOUS
<1> DEFINE Kept == {item \in ChatItem : Paged(item)}
           again == [i \in 1..k |-> Repeated(list[f[i]])]
<1>4. again \in Seq(Kept)
  <2>1. \A i \in 1..k : f[i] \in Messages(list)
    BY <1>2
  <2>2. \A i \in 1..k : Repeated(list[f[i]]) \in Kept
    BY <2>1, RepeatedIsPaged DEF list, Paged
  <2>3. again \in [1..k -> Kept]
    BY <2>2
  <2> QED
    BY <1>3, <2>3, IsASeq
<1>5. old \in Seq(Kept)
  <2>1. OldItem("assistant") \in Kept /\ OldItem("tool") \in Kept
    BY OldIsPaged DEF Paged
  <2> HIDE DEF Kept
  <2>2. ASSUME NEW item \in Kept
        PROVE  <<item>> \in Seq(Kept)
    OBVIOUS
  <2>3. old = << >> \/ old = <<OldItem("assistant")>> \/ old = <<OldItem("tool")>>
    OBVIOUS
  <2> QED
    BY <2>1, <2>2, <2>3, EmptySeq
<1>6. page = old \o again
  BY <1>1, <1>2 DEF PageOf
<1> HIDE DEF again, Old, Kept
<1>7. page \in Seq(Kept)
  BY <1>4, <1>5, <1>6, ConcatProperties
<1>8. \A i \in DOMAIN page : page[i] \in Kept
  BY <1>7, ElementOfSeq
<1>9. page \in Seq(ChatItem)
  BY <1>7 DEF Kept
<1> QED
  BY <1>8, <1>9 DEF Kept

(* A page in front. *)
LEMMA PagePrepended ==
  ASSUME NEW b \in Nat, NEW chat, Fits(chat, b), NEW page \in Seq(ChatItem),
         \A i \in DOMAIN page : Paged(page[i])
  PROVE  LET r == page \o chat.items
         IN  /\ Fits([items |-> r, index |-> chat.index], b)
             /\ \A m \in Sends :
                  /\ EndsAt(chat.items, m) = {} => EndsAt(r, m) = {}
                  /\ \A k : EndsAt(chat.items, m) = {k} => \E e : EndsAt(r, m) = {e}
<1> DEFINE l == chat.items
           r == page \o l
           s == Len(page)
<1>1. /\ chat \in Chat /\ l \in Seq(ChatItem) /\ Len(l) \in Nat /\ Sound(l) /\ Upto(l, b)
      /\ \A t \in Tools : chat.index[t] \in 0..Len(l)
      /\ s \in Nat /\ DOMAIN page = 1..s
  BY DEF Fits, Placed, Chat
<1>4. /\ r \in Seq(ChatItem) /\ Len(r) = s + Len(l) /\ DOMAIN r = 1..(s + Len(l))
      /\ DOMAIN l = 1..Len(l)
      /\ \A i \in 1..(s + Len(l)) : r[i] = IF i <= s THEN page[i] ELSE l[i - s]
  <2> HIDE DEF l
  <2>1. r \in Seq(ChatItem) /\ Len(r) = s + Len(l)
    BY <1>1, ConcatProperties
  <2>2. \A i \in 1..(s + Len(l)) : r[i] = IF i <= s THEN page[i] ELSE l[i - s]
    BY <1>1, ConcatProperties
  <2> HIDE DEF r, s
  <2> QED
    BY <2>1, <2>2, <1>1
<1> HIDE DEF l, r, s
<1>2. \A i \in DOMAIN r : i <= s => r[i].parts = << >> /\ ~r[i].live /\ r[i].kind # "turn-end"
  <2>1. \A i \in DOMAIN r : i <= s => i \in DOMAIN page /\ r[i] = page[i]
    BY <1>1, <1>4
  <2> QED
    BY <2>1 DEF Paged
<1>5. \A i \in DOMAIN r : ~(i <= s) => i - s \in DOMAIN l /\ r[i] = l[i - s]
  BY <1>1, <1>4
<1>6. \A i \in DOMAIN l : i + s \in DOMAIN r /\ r[i + s] = l[i] /\ i \in Nat
  <2>1. \A i \in DOMAIN l : i \in Nat /\ i + s \in DOMAIN r /\ ~(i + s <= s) /\ (i + s) - s = i
    BY <1>1, <1>4
  <2> QED
    BY <2>1, <1>5
<1>7. Filled(r) /\ Rising(r)
  <2>1. Filled(r)
    BY <1>1, <1>2, <1>5 DEF Sound, Filled
  <2>2. Increasing(<< >>)
    BY DEF Increasing
  <2>3. Rising(r)
    BY <1>1, <1>2, <1>5, <2>2 DEF Sound, Rising
  <2> QED
    BY <2>1, <2>3
<1>8. Upto(r, b)
  <2>1. \A i \in DOMAIN r : \A x \in DOMAIN r[i].parts : r[i].parts[x] <= b
    BY <1>1, <1>2, <1>5 DEF Upto
  <2>2. ASSUME NEW n \in 1..b
        PROVE  Holds(r, n)
    <3>1. Holds(l, n)
      BY <1>1 DEF Upto, Complete
    <3>2. PICK i \in DOMAIN l : \E x \in DOMAIN l[i].parts : l[i].parts[x] = n
      BY <3>1 DEF Holds
    <3>3. i + s \in DOMAIN r /\ r[i + s] = l[i]
      BY <1>6
    <3> QED
      BY <3>2, <3>3 DEF Holds
  <2> QED
    BY <2>1, <2>2 DEF Upto, Complete
<1>9. InOrder(r)
  <2>1. ASSUME NEW i \in DOMAIN r, NEW j \in DOMAIN r, i < j, r[i].live, r[j].live,
               r[i].parts # << >>, r[j].parts # << >>
        PROVE  /\ Head(r[i].parts) < Head(r[j].parts)
               /\ r[i].kind \in Text => Last(r[i].parts) < Head(r[j].parts)
    <3>1. ~(i <= s) /\ ~(j <= s)
      BY <2>1, <1>2
    <3>2. /\ i - s \in DOMAIN l /\ r[i] = l[i - s] /\ j - s \in DOMAIN l /\ r[j] = l[j - s]
          /\ i - s < j - s
      BY <3>1, <2>1, <1>1, <1>4, <1>5
    <3> QED
      BY <3>2, <2>1, <1>1 DEF Sound, InOrder
  <2> QED
    BY <2>1 DEF InOrder
<1>10. Apart(r)
  <2>1. ASSUME NEW i \in DOMAIN r, NEW j \in DOMAIN r, i # j,
               NEW x \in DOMAIN r[i].parts, NEW y \in DOMAIN r[j].parts
        PROVE  r[i].parts[x] # r[j].parts[y]
    <3>1. ~(i <= s) /\ ~(j <= s)
      BY <2>1, <1>2
    <3>2. /\ i - s \in DOMAIN l /\ r[i] = l[i - s] /\ j - s \in DOMAIN l /\ r[j] = l[j - s]
          /\ i - s # j - s
      BY <3>1, <2>1, <1>1, <1>4, <1>5
    <3> QED
      BY <3>2, <2>1, <1>1 DEF Sound, Apart
  <2> QED
    BY <2>1 DEF Apart
<1>11. ASSUME NEW m \in Sends
       PROVE  EndsAt(r, m) = {i + s : i \in EndsAt(l, m)}
  <2>1. \A i \in EndsAt(l, m) : i + s \in EndsAt(r, m)
    BY <1>6 DEF EndsAt
  <2>2. \A i \in EndsAt(r, m) : i - s \in EndsAt(l, m) /\ (i - s) + s = i
    BY <1>1, <1>2, <1>4, <1>5 DEF EndsAt
  <2> QED
    BY <2>1, <2>2
<1>12. [items |-> r, index |-> chat.index] \in Placed
  BY <1>1, <1>4 DEF Placed, Chat
<1>13. Fits([items |-> r, index |-> chat.index], b)
  BY <1>7, <1>8, <1>9, <1>10, <1>12 DEF Fits, Sound
<1>14. ASSUME NEW m \in Sends
       PROVE  /\ EndsAt(l, m) = {} => EndsAt(r, m) = {}
              /\ \A k : EndsAt(l, m) = {k} => \E e : EndsAt(r, m) = {e}
  <2>1. EndsAt(r, m) = {i + s : i \in EndsAt(l, m)}
    BY <1>11
  <2>2. EndsAt(l, m) = {} => EndsAt(r, m) = {}
    BY <2>1
  <2>3. ASSUME NEW k, EndsAt(l, m) = {k}
        PROVE  EndsAt(r, m) = {k + s}
    BY <2>1, <2>3
  <2> QED
    BY <2>2, <2>3
<1> QED
  BY <1>13, <1>14 DEF l, r

-----------------------------------------------------------------------------
(***************************************************************************)
(* The chat of a session                                                   *)
(***************************************************************************)

OnScreen == [items |-> items, index |-> toolIndex]

(* What is shown was said before what is held back, and nothing is missing *)
(* between.                                                                *)
StreamInv ==
  /\ Len(pending) <= heard
  /\ Fits(OnScreen, heard - Len(pending))
  /\ Queue(pending, heard - Len(pending))

(* Who has told the boundary of a turn, the core or the shell. *)
Ended(m) == IF modern THEN turn[m] = "over" ELSE request[m] = "done"

TurnInv(m) ==
  /\ IF Ended(m) THEN \E e : EndsAt(items, m) = {e} ELSE EndsAt(items, m) = {}
  /\ modern /\ turn[m] # "none" => saw
  /\ request[m] \in {"waiting", "done"} => turn[m] # "none"

Inv ==
  TypeOK /\ StreamInv /\ (~modern => ~saw) /\ \A m \in Sends : TurnInv(m)

(* What a flush makes of the chat. *)
LEMMA FlushedFits ==
  ASSUME Inv, NEW batch, Queue(batch, heard - Len(pending))
  PROVE  /\ Fits(Flushed(batch), heard - Len(pending) + Len(batch))
         /\ \A m \in Sends : EndsAt(Flushed(batch).items, m) = EndsAt(items, m)
<1>1. heard - Len(pending) \in Nat /\ Fits(OnScreen, heard - Len(pending))
  <2>1. heard \in Nat /\ Len(pending) \in Nat /\ Len(pending) <= heard
    BY BoundsAssumption DEF Inv, TypeOK, StreamInv
  <2> QED
    BY <2>1 DEF Inv, StreamInv
<1>2. OnScreen.items = items
  BY DEF OnScreen
<1>3. Flushed(batch) = FoldLeft(ApplyUpdate, OnScreen, Coalesce(batch))
  BY DEF Flushed, OnScreen
<1> QED
  BY <1>1, <1>2, <1>3, FlushShows

LEMMA PendingShown ==
  ASSUME Inv
  PROVE  /\ Fits(Flushed(pending), heard) /\ heard \in Nat
         /\ \A m \in Sends : EndsAt(Flushed(pending).items, m) = EndsAt(items, m)
<1>1. /\ heard \in Nat /\ Len(pending) \in Nat /\ heard - Len(pending) + Len(pending) = heard
      /\ Queue(pending, heard - Len(pending))
  BY BoundsAssumption DEF Inv, TypeOK, StreamInv
<1> QED
  BY <1>1, FlushedFits

(* A chat that fits what has been heard is shown. *)
LEMMA FlushKeeps ==
  ASSUME Inv, NEW chat, FlushInto(chat), heard' \in 0..MaxHeard, Fits(chat, heard')
  PROVE  /\ StreamInv' /\ items' = chat.items
         /\ items' \in Seq(ChatItem) /\ pending' \in Seq(SessionUpdate)
         /\ toolIndex' \in [Tools -> Nat] /\ timer' \in {"none", "armed", "spent"}
<1>1. /\ items' = chat.items /\ toolIndex' = chat.index /\ pending' = << >> /\ timer' = "none"
  BY DEF FlushInto, TimerCleared
<1>2. chat.items \in Seq(ChatItem) /\ chat.index \in [Tools -> Nat]
  BY DEF Fits, Placed, Chat
<1>3. OnScreen' = chat
  BY <1>1 DEF OnScreen, Fits, Placed, Chat
<1>4. Len(pending') = 0 /\ heard' \in Nat /\ heard' - 0 = heard'
  <2>1. heard' \in Nat /\ heard' - 0 = heard'
    <3>1. heard' \in Nat
      BY BoundsAssumption
    <3>2. \A x \in Nat : x - 0 = x
      OBVIOUS
    <3> QED
      BY <3>1, <3>2
  <2>2. Len(pending') = 0
    BY <1>1, EmptySeq
  <2> QED
    BY <2>1, <2>2
<1>5. Queue(pending', heard')
  BY <1>1, EmptySeq DEF Queue
<1>6. StreamInv'
  BY <1>3, <1>4, <1>5 DEF StreamInv
<1> QED
  BY <1>1, <1>2, <1>6, EmptySeq

(* Every chat begins with nothing shown and nothing held back. *)
LEMMA ChatInitial == Init => Inv
<1> SUFFICES ASSUME Init PROVE Inv
  OBVIOUS
<1>1. TypeOK
  <2>1. items \in Seq(ChatItem) /\ pending \in Seq(SessionUpdate) /\ heard \in 0..MaxHeard
    BY BoundsAssumption, EmptySeq DEF Init
  <2>2. toolIndex \in [Tools -> Nat] /\ timer \in {"none", "armed", "spent"}
    BY DEF Init
  <2>3. modern \in BOOLEAN /\ saw \in BOOLEAN /\ active \in BOOLEAN
    BY DEF Init
  <2>5. cancels \in 0..1
    BY DEF Init
  <2>4. /\ turn \in [Sends -> {"none", "open", "over"}]
        /\ load \in [Loads -> {"idle", "reading", "done", "failed"}]
        /\ request \in [Sends -> {"unsent", "prompt", "delivery", "waiting",
                                  "done", "delivered", "failed"}]
    BY DEF Init
  <2> QED
    BY <2>1, <2>2, <2>3, <2>4, <2>5 DEF TypeOK
<1>2. OnScreen \in Placed /\ OnScreen.items = << >>
  BY BoundsAssumption, EmptySeq DEF Init, OnScreen, Placed, Chat
<1>3. Fits(OnScreen, 0)
  BY <1>2 DEF Fits, Sound, Filled, InOrder, Apart, Rising, Upto, Complete
<1>4. Queue(pending, 0) /\ Len(pending) = 0 /\ heard = 0
  BY EmptySeq DEF Init, Queue
<1>5. StreamInv
  BY <1>3, <1>4 DEF StreamInv
<1>6. \A m \in Sends : TurnInv(m)
  BY DEF Init, TurnInv, Ended, EndsAt
<1> QED
  BY <1>1, <1>5, <1>6 DEF Inv, Init

LEMMA NothingChanges ==
  ASSUME Inv, UNCHANGED vars
  PROVE  Inv'
BY DEF Inv, TypeOK, StreamInv, OnScreen, TurnInv, Ended, EndsAt, vars

(* What the agent says, held back or shown at once. *)
LEMMA HearKeeps ==
  ASSUME Inv, NEW u \in SessionUpdate, u.parts = <<heard + 1>>, Hear(u)
  PROVE  Inv'
<1> DEFINE batch == Append(pending, u)
           b == heard - Len(pending)
<1>1. /\ heard \in Nat /\ Len(pending) \in Nat /\ Len(pending) <= heard /\ b \in Nat
      /\ pending \in Seq(SessionUpdate) /\ Fits(OnScreen, b) /\ Queue(pending, b)
      /\ heard + 1 <= MaxHeard /\ heard' = heard + 1 /\ MaxHeard \in Nat
  BY BoundsAssumption DEF Inv, TypeOK, StreamInv, Hear
<1>2. /\ batch \in Seq(SessionUpdate) /\ Len(batch) = Len(pending) + 1
      /\ heard' - Len(batch) = b /\ b + Len(batch) = heard' /\ Len(batch) <= heard'
      /\ heard' \in 0..MaxHeard
  BY <1>1
<1>3. Queue(batch, b)
  <2>1. ASSUME NEW j \in 1..Len(batch)
        PROVE  batch[j].parts = <<b + j>>
    <3>1. CASE j = Len(pending) + 1
      <4>1. batch[j] = u /\ b + j = heard + 1
        BY <3>1, <1>1
      <4> QED
        BY <4>1
    <3>2. CASE j # Len(pending) + 1
      <4>1. j \in 1..Len(pending) /\ batch[j] = pending[j]
        BY <3>2, <1>1, <1>2
      <4> QED
        BY <4>1, <1>1 DEF Queue
    <3> QED
      BY <3>1, <3>2
  <2> QED
    BY <1>2, <2>1 DEF Queue
<1>4. UNCHANGED <<turnVars, load, cancels>>
  BY DEF Hear
<1>5. CASE Len(batch) >= BatchSize
  <2>1. FlushInto(Flushed(batch))
    BY <1>5 DEF Hear
  <2>2. /\ Fits(Flushed(batch), heard')
        /\ \A m \in Sends : EndsAt(Flushed(batch).items, m) = EndsAt(items, m)
    BY <1>2, <1>3, FlushedFits
  <2> HIDE DEF batch, b
  <2>3. /\ StreamInv' /\ items' = Flushed(batch).items
        /\ items' \in Seq(ChatItem) /\ pending' \in Seq(SessionUpdate)
        /\ toolIndex' \in [Tools -> Nat] /\ timer' \in {"none", "armed", "spent"}
    BY <1>2, <2>1, <2>2, FlushKeeps
  <2>4. TypeOK'
    BY <1>2, <1>4, <2>3 DEF Inv, TypeOK, turnVars
  <2>5. \A m \in Sends : TurnInv(m)'
    BY <1>4, <2>2, <2>3 DEF Inv, TurnInv, Ended, turnVars
  <2> QED
    BY <1>4, <2>3, <2>4, <2>5 DEF Inv, turnVars
<1>6. CASE ~(Len(batch) >= BatchSize)
  <2>1. /\ pending' = batch /\ timer' \in {"none", "armed", "spent"}
        /\ items' = items /\ toolIndex' = toolIndex
    BY <1>6 DEF Hear, chatVars, Inv, TypeOK
  <2> HIDE DEF batch, b
  <2>2. StreamInv'
    BY <1>1, <1>2, <1>3, <2>1 DEF StreamInv, OnScreen
  <2>3. TypeOK'
    BY <1>2, <1>4, <2>1 DEF Inv, TypeOK, turnVars
  <2>4. \A m \in Sends : TurnInv(m)'
    BY <1>4, <2>1 DEF Inv, TurnInv, Ended, turnVars
  <2> QED
    BY <1>4, <2>2, <2>3, <2>4 DEF Inv, turnVars
<1> QED
  BY <1>5, <1>6

(* A step that leaves the chat and its stream alone. *)
LEMMA StreamStays ==
  ASSUME Inv, UNCHANGED <<chatVars, streamVars>>
  PROVE  /\ StreamInv'
         /\ items' \in Seq(ChatItem) /\ pending' \in Seq(SessionUpdate)
         /\ toolIndex' \in [Tools -> Nat] /\ timer' \in {"none", "armed", "spent"}
         /\ heard' \in 0..MaxHeard
BY DEF Inv, TypeOK, StreamInv, OnScreen, chatVars, streamVars

(* An item that shows nothing the agent has said. *)
LEMMA SilentItem ==
  ASSUME Inv, NEW m \in Sends, NEW k \in {"user", "notice", "turn-end"},
         items' = Append(items, Item(k, m, None, << >>)),
         UNCHANGED <<toolIndex, streamVars>>
  PROVE  /\ StreamInv'
         /\ items' \in Seq(ChatItem) /\ pending' \in Seq(SessionUpdate)
         /\ toolIndex' \in [Tools -> Nat] /\ timer' \in {"none", "armed", "spent"}
         /\ heard' \in 0..MaxHeard
         /\ \A o \in Sends :
              EndsAt(items', o) = IF k = "turn-end" /\ o = m THEN EndsAt(items, o) \cup {Len(items) + 1}
                                  ELSE EndsAt(items, o)
<1> DEFINE item == Item(k, m, None, << >>)
           b == heard - Len(pending)
<1>1. /\ item \in ChatItem /\ item.kind = k /\ item.of = m /\ item.parts = << >>
      /\ item.kind \notin Text \cup {"tool"}
  <2>1. << >> \in Numbers
    BY EmptySeq DEF Numbers
  <2> QED
    BY <2>1, BoundsAssumption DEF Item, ChatItem
<1>2. b \in Nat /\ b <= b /\ Fits(OnScreen, b) /\ OnScreen.items = items /\ OnScreen.index = toolIndex
  BY BoundsAssumption DEF Inv, TypeOK, StreamInv, OnScreen
<1>3. Between(item.parts, b, b)
  <2>1. (b + 1)..b = {}
    BY <1>2
  <2> QED
    BY <1>1, <2>1 DEF Between, Increasing, Fills
<1> HIDE DEF item, b
<1>4. /\ Fits(AppendItem(OnScreen, item), b)
      /\ AppendItem(OnScreen, item).items = Append(items, item)
      /\ AppendItem(OnScreen, item).index = toolIndex
  <2>1. NewItem(item, b, b)
    BY <1>1, <1>2, <1>3 DEF NewItem
  <2>2. Fits(OnScreen, b)
    BY <1>2
  <2>3. Fits(AppendItem(OnScreen, item), b)
    BY <2>1, <2>2, ItemAppended
  <2>4. AppendItem(OnScreen, item) = [items |-> Append(items, item), index |-> toolIndex]
    BY DEF AppendItem, OnScreen
  <2> QED
    BY <2>3, <2>4
<1>5. OnScreen' = AppendItem(OnScreen, item)
  <2>1. AppendItem(OnScreen, item) \in Chat
    BY <1>4 DEF Fits, Placed
  <2>2. items' = Append(items, item) /\ toolIndex' = toolIndex
    BY DEF item
  <2> QED
    BY <1>4, <2>1, <2>2 DEF OnScreen, Chat
<1>6. StreamInv'
  BY <1>4, <1>5 DEF Inv, StreamInv, streamVars, b
<1>7. items' \in Seq(ChatItem) /\ toolIndex' \in [Tools -> Nat]
  BY <1>1 DEF Inv, TypeOK, item
<1>8. /\ pending' \in Seq(SessionUpdate) /\ timer' \in {"none", "armed", "spent"}
      /\ heard' \in 0..MaxHeard
  BY DEF Inv, TypeOK, streamVars
<1>9. \A o \in Sends :
        EndsAt(items', o) = IF k = "turn-end" /\ o = m THEN EndsAt(items, o) \cup {Len(items) + 1}
                            ELSE EndsAt(items, o)
  BY <1>1, EndsAdded DEF item, Inv, TypeOK
<1> QED
  BY <1>6, <1>7, <1>8, <1>9

LEMMA EndsAppended ==
  ASSUME NEW chat \in Chat, NEW item \in ChatItem, NEW m
  PROVE  /\ item.kind = "turn-end" /\ item.of = m =>
              EndsAt(AppendItem(chat, item).items, m) = EndsAt(chat.items, m) \cup {Len(chat.items) + 1}
         /\ ~(item.kind = "turn-end" /\ item.of = m) =>
              EndsAt(AppendItem(chat, item).items, m) = EndsAt(chat.items, m)
<1> DEFINE l == chat.items
           r == Append(l, item)
<1>1. l \in Seq(ChatItem)
  BY DEF Chat
<1>2. AppendItem(chat, item).items = r
  <2>1. AppendItem(chat, item) = [chat EXCEPT !.items = r]
    BY DEF AppendItem
  <2> HIDE DEF r
  <2> QED
    BY <2>1 DEF Chat
<1>3. EndsAt(r, m) = IF item.kind = "turn-end" /\ item.of = m THEN EndsAt(l, m) \cup {Len(l) + 1}
                     ELSE EndsAt(l, m)
  BY <1>1, EndsAdded
<1> HIDE DEF r
<1> QED
  BY <1>2, <1>3

(* The flushes that come with no item: of the timer, of the start of a     *)
(* turn, of an answer.                                                     *)
LEMMA FlushPending ==
  ASSUME Inv, FlushInto(Flushed(pending)), heard' = heard
  PROVE  /\ StreamInv' /\ items' \in Seq(ChatItem) /\ pending' \in Seq(SessionUpdate)
         /\ toolIndex' \in [Tools -> Nat] /\ timer' \in {"none", "armed", "spent"}
         /\ heard' \in 0..MaxHeard
         /\ \A m \in Sends : EndsAt(items', m) = EndsAt(items, m)
<1>1. heard' \in 0..MaxHeard /\ Fits(Flushed(pending), heard')
  BY PendingShown DEF Inv, TypeOK
<1>2. /\ StreamInv' /\ items' = Flushed(pending).items
      /\ items' \in Seq(ChatItem) /\ pending' \in Seq(SessionUpdate)
      /\ toolIndex' \in [Tools -> Nat] /\ timer' \in {"none", "armed", "spent"}
  BY <1>1, FlushKeeps
<1> QED
  BY <1>1, <1>2, PendingShown

LEMMA TimerKeeps ==
  ASSUME Inv, FlushTimerFires
  PROVE  Inv'
<1>1. FlushInto(Flushed(pending)) /\ heard' = heard /\ UNCHANGED <<turnVars, load, cancels>>
  BY DEF FlushTimerFires
<1> QED
  BY <1>1, FlushPending DEF Inv, TypeOK, TurnInv, Ended, turnVars

LEMMA TurnStartsKeeps ==
  ASSUME Inv, NEW m \in Sends, TurnStarts(m)
  PROVE  Inv'
<1>1. /\ turn[m] = "none" /\ turn' = [turn EXCEPT ![m] = "open"]
      /\ UNCHANGED <<heard, modern, request, load, cancels>>
      /\ turn' \in [Sends -> {"none", "open", "over"}]
  BY DEF TurnStarts, Inv, TypeOK
<1>2. /\ StreamInv' /\ items' \in Seq(ChatItem) /\ pending' \in Seq(SessionUpdate)
      /\ toolIndex' \in [Tools -> Nat] /\ timer' \in {"none", "armed", "spent"}
      /\ heard' \in 0..MaxHeard
      /\ \A o \in Sends : EndsAt(items', o) = EndsAt(items, o)
  <2>1. CASE modern
    <3>1. FlushInto(Flushed(pending)) /\ heard' = heard
      BY <1>1, <2>1 DEF TurnStarts
    <3> QED
      BY <3>1, FlushPending
  <2>2. CASE ~modern
    <3>1. UNCHANGED <<chatVars, streamVars>>
      BY <1>1, <2>2 DEF TurnStarts, streamVars
    <3>2. items' = items
      BY <3>1 DEF chatVars
    <3> QED
      BY <3>1, <3>2, StreamStays
  <2> QED
    BY <2>1, <2>2
<1>3. IF modern THEN saw' = TRUE /\ active' = TRUE ELSE saw' = saw /\ active' = active
  BY DEF TurnStarts
<1>4. TypeOK'
  BY <1>1, <1>2, <1>3 DEF Inv, TypeOK
<1>5. ASSUME NEW o \in Sends
      PROVE  TurnInv(o)'
  <2>1. turn'[o] # "none" => o = m \/ turn[o] # "none"
    BY <1>1 DEF Inv, TypeOK
  <2>2. turn[o] # "none" => turn'[o] = turn[o]
    BY <1>1 DEF Inv, TypeOK
  <2>3. (turn'[o] = "over") = (turn[o] = "over")
    BY <1>1 DEF Inv, TypeOK
  <2> QED
    BY <1>1, <1>2, <1>3, <2>1, <2>2, <2>3 DEF Inv, TurnInv, Ended
<1> QED
  BY <1>1, <1>2, <1>3, <1>4, <1>5 DEF Inv

LEMMA TurnFinishesKeeps ==
  ASSUME Inv, NEW m \in Sends, TurnFinishes(m)
  PROVE  Inv'
<1> DEFINE item == Item("turn-end", m, None, <<heard + 1>>)
           chat == AppendItem(Flushed(pending), item)
<1>1. /\ modern /\ turn[m] = "open" /\ heard < MaxHeard /\ heard' = heard + 1
      /\ turn' = [turn EXCEPT ![m] = "over"] /\ active' = FALSE
      /\ UNCHANGED <<modern, saw, request, load, cancels>>
      /\ FlushInto(chat) /\ turn' \in [Sends -> {"none", "open", "over"}]
  BY DEF TurnFinishes, TurnEnd, Inv, TypeOK
<1>2. /\ heard \in Nat /\ heard' \in 0..MaxHeard /\ heard' \in Nat /\ heard <= heard'
      /\ heard + 1 \in 1..MaxHeard
  BY <1>1, BoundsAssumption DEF Inv, TypeOK
<1>3. NewItem(item, heard, heard')
  <2>1. <<heard + 1>> \in Numbers
    BY <1>2 DEF Numbers
  <2>2. /\ item \in ChatItem /\ item.parts = <<heard + 1>> /\ item.kind = "turn-end"
    BY <2>1 DEF Item, ChatItem
  <2>3. Between(item.parts, heard, heard')
    <3>1. (heard + 1)..heard' = {heard + 1}
      BY <1>1, <1>2
    <3> QED
      BY <1>1, <1>2, <2>2, <3>1 DEF Between, Increasing, Fills
  <2>4. item.kind \notin Text \cup {"tool"}
    BY <2>2, BoundsAssumption
  <2> HIDE DEF item
  <2> QED
    BY <1>2, <2>2, <2>3, <2>4 DEF NewItem
<1>4. item.kind = "turn-end" /\ item.of = m
  BY DEF Item
<1> HIDE DEF item
<1>5. Fits(chat, heard')
  BY <1>3, PendingShown, ItemAppended
<1>6. /\ EndsAt(chat.items, m) = EndsAt(items, m) \cup {Len(Flushed(pending).items) + 1}
      /\ \A o \in Sends : o # m => EndsAt(chat.items, o) = EndsAt(items, o)
  <2>1. Flushed(pending) \in Chat /\ item \in ChatItem
    BY <1>3, PendingShown DEF Fits, Placed, NewItem
  <2>2. \A o \in Sends : EndsAt(Flushed(pending).items, o) = EndsAt(items, o)
    BY PendingShown
  <2>3. EndsAt(chat.items, m)
          = EndsAt(Flushed(pending).items, m) \cup {Len(Flushed(pending).items) + 1}
    BY <2>1, <1>4, EndsAppended
  <2>4. \A o \in Sends : o # m => EndsAt(chat.items, o) = EndsAt(Flushed(pending).items, o)
    BY <2>1, <1>4, EndsAppended
  <2> QED
    BY <2>2, <2>3, <2>4
<1> HIDE DEF chat
<1>7. /\ StreamInv' /\ items' = chat.items
      /\ items' \in Seq(ChatItem) /\ pending' \in Seq(SessionUpdate)
      /\ toolIndex' \in [Tools -> Nat] /\ timer' \in {"none", "armed", "spent"}
  BY <1>1, <1>2, <1>5, FlushKeeps
<1>8. TypeOK'
  BY <1>1, <1>2, <1>7 DEF Inv, TypeOK
<1>9. ASSUME NEW o \in Sends
      PROVE  TurnInv(o)'
  <2>1. CASE o = m
    <3>1. turn'[o] = "over" /\ EndsAt(items, o) = {} /\ saw
      BY <1>1, <2>1 DEF Inv, TypeOK, TurnInv, Ended
    <3>2. EndsAt(items', o) = {Len(Flushed(pending).items) + 1}
      BY <1>6, <1>7, <2>1, <3>1
    <3> QED
      BY <1>1, <3>1, <3>2 DEF TurnInv, Ended
  <2>2. CASE o # m
    <3>1. turn'[o] = turn[o] /\ EndsAt(items', o) = EndsAt(items, o)
      BY <1>1, <1>6, <1>7, <2>2 DEF Inv, TypeOK
    <3> QED
      BY <1>1, <3>1 DEF Inv, TurnInv, Ended
  <2> QED
    BY <2>1, <2>2
<1> QED
  BY <1>1, <1>7, <1>8, <1>9 DEF Inv

LEMMA SendKeeps ==
  ASSUME Inv, NEW m \in Sends, Send(m)
  PROVE  Inv'
<1>1. /\ request[m] = "unsent" /\ items' = Append(items, Item("user", m, None, << >>))
      /\ active' = TRUE /\ UNCHANGED <<toolIndex, streamVars, modern, saw, turn, load, cancels>>
      /\ request' = [request EXCEPT ![m] = IF active THEN "delivery" ELSE "prompt"]
      /\ request' \in [Sends -> {"unsent", "prompt", "delivery", "waiting",
                                 "done", "delivered", "failed"}]
  BY DEF Send, Inv, TypeOK
<1>2. /\ StreamInv' /\ items' \in Seq(ChatItem) /\ pending' \in Seq(SessionUpdate)
      /\ toolIndex' \in [Tools -> Nat] /\ timer' \in {"none", "armed", "spent"}
      /\ heard' \in 0..MaxHeard /\ \A o \in Sends : EndsAt(items', o) = EndsAt(items, o)
  BY <1>1, SilentItem
<1>3. TypeOK'
  BY <1>1, <1>2 DEF Inv, TypeOK
<1>4. ASSUME NEW o \in Sends
      PROVE  TurnInv(o)'
  <2>1. /\ request'[o] \in {"waiting", "done"} => request[o] = request'[o]
        /\ request[o] \in {"waiting", "done"} => request[o] = request'[o]
    BY <1>1 DEF Inv, TypeOK
  <2> QED
    BY <1>1, <1>2, <2>1 DEF Inv, TurnInv, Ended
<1> QED
  BY <1>1, <1>2, <1>3, <1>4 DEF Inv

LEMMA DeliveryKeeps ==
  ASSUME Inv, NEW m \in Sends, DeliveryAnswered(m)
  PROVE  Inv'
<1>1. /\ request[m] = "delivery" /\ request' = [request EXCEPT ![m] = "delivered"]
      /\ UNCHANGED <<chatVars, streamVars, modern, saw, active, turn, load, cancels>>
      /\ items' = items
      /\ request' \in [Sends -> {"unsent", "prompt", "delivery", "waiting",
                                 "done", "delivered", "failed"}]
  BY DEF DeliveryAnswered, chatVars, Inv, TypeOK
<1>2. /\ StreamInv' /\ items' \in Seq(ChatItem) /\ pending' \in Seq(SessionUpdate)
      /\ toolIndex' \in [Tools -> Nat] /\ timer' \in {"none", "armed", "spent"}
      /\ heard' \in 0..MaxHeard
  BY <1>1, StreamStays
<1>3. TypeOK'
  BY <1>1, <1>2 DEF Inv, TypeOK
<1>4. ASSUME NEW o \in Sends
      PROVE  TurnInv(o)'
  <2>1. /\ request'[o] \in {"waiting", "done"} => request[o] = request'[o]
        /\ request[o] \in {"waiting", "done"} => request[o] = request'[o]
    BY <1>1 DEF Inv, TypeOK
  <2> QED
    BY <1>1, <2>1 DEF Inv, TurnInv, Ended
<1> QED
  BY <1>1, <1>2, <1>3, <1>4 DEF Inv

LEMMA AnswerKeeps ==
  ASSUME Inv, NEW m \in Sends, PromptAnswered(m)
  PROVE  Inv'
<1>1. /\ request[m] = "prompt" /\ turn[m] # "none"
      /\ request' = [request EXCEPT ![m] = "waiting"] /\ FlushInto(Flushed(pending))
      /\ UNCHANGED <<heard, modern, saw, active, turn, load, cancels>>
      /\ request' \in [Sends -> {"unsent", "prompt", "delivery", "waiting",
                                 "done", "delivered", "failed"}]
  BY DEF PromptAnswered, Inv, TypeOK
<1>2. /\ StreamInv' /\ items' \in Seq(ChatItem) /\ pending' \in Seq(SessionUpdate)
      /\ toolIndex' \in [Tools -> Nat] /\ timer' \in {"none", "armed", "spent"}
      /\ heard' \in 0..MaxHeard /\ \A o \in Sends : EndsAt(items', o) = EndsAt(items, o)
  BY <1>1, FlushPending
<1>3. TypeOK'
  BY <1>1, <1>2 DEF Inv, TypeOK
<1>4. ASSUME NEW o \in Sends
      PROVE  TurnInv(o)'
  <2>1. /\ request'[o] \in {"waiting", "done"} => o = m \/ request[o] = request'[o]
        /\ (request'[o] = "done") = (request[o] = "done")
    BY <1>1 DEF Inv, TypeOK
  <2> QED
    BY <1>1, <1>2, <2>1 DEF Inv, TurnInv, Ended
<1> QED
  BY <1>1, <1>2, <1>3, <1>4 DEF Inv

LEMMA FailKeeps ==
  ASSUME Inv, NEW m \in Sends, PromptFails(m)
  PROVE  Inv'
<1> DEFINE item == Item("notice", m, None, << >>)
           chat == AppendItem(Flushed(pending), item)
<1>1. /\ request[m] = "prompt" /\ request' = [request EXCEPT ![m] = "failed"]
      /\ FlushInto(chat) /\ active' = FALSE
      /\ UNCHANGED <<heard, modern, saw, turn, load, cancels>>
      /\ request' \in [Sends -> {"unsent", "prompt", "delivery", "waiting",
                                 "done", "delivered", "failed"}]
  BY DEF PromptFails, Inv, TypeOK
<1>2. heard \in Nat /\ heard' \in 0..MaxHeard /\ heard' = heard
  BY <1>1, BoundsAssumption DEF Inv, TypeOK
<1>3. NewItem(item, heard, heard') /\ item.kind = "notice"
  <2>1. << >> \in Numbers
    BY EmptySeq DEF Numbers
  <2>2. item \in ChatItem /\ item.parts = << >> /\ item.kind = "notice"
    BY <2>1 DEF Item, ChatItem
  <2>3. Between(item.parts, heard, heard')
    <3>1. (heard + 1)..heard' = {}
      BY <1>2
    <3> QED
      BY <2>2, <3>1 DEF Between, Increasing, Fills
  <2>4. item.kind \notin Text \cup {"tool"}
    BY <2>2, BoundsAssumption
  <2> HIDE DEF item
  <2> QED
    BY <1>2, <2>2, <2>3, <2>4 DEF NewItem
<1> HIDE DEF item
<1>4. Fits(chat, heard')
  BY <1>3, PendingShown, ItemAppended
<1>5. \A o \in Sends : EndsAt(chat.items, o) = EndsAt(items, o)
  <2>1. Flushed(pending) \in Chat /\ item \in ChatItem
    BY <1>3, PendingShown DEF Fits, Placed, NewItem
  <2>2. \A o \in Sends : EndsAt(Flushed(pending).items, o) = EndsAt(items, o)
    BY PendingShown
  <2>3. \A o \in Sends : EndsAt(chat.items, o) = EndsAt(Flushed(pending).items, o)
    BY <2>1, <1>3, EndsAppended
  <2> QED
    BY <2>2, <2>3
<1> HIDE DEF chat
<1>6. /\ StreamInv' /\ items' = chat.items
      /\ items' \in Seq(ChatItem) /\ pending' \in Seq(SessionUpdate)
      /\ toolIndex' \in [Tools -> Nat] /\ timer' \in {"none", "armed", "spent"}
  BY <1>1, <1>2, <1>4, FlushKeeps
<1>7. TypeOK'
  BY <1>1, <1>2, <1>6 DEF Inv, TypeOK
<1>8. ASSUME NEW o \in Sends
      PROVE  TurnInv(o)'
  <2>1. /\ request'[o] \in {"waiting", "done"} => request[o] = request'[o]
        /\ request[o] \in {"waiting", "done"} => request[o] = request'[o]
    BY <1>1 DEF Inv, TypeOK
  <2> QED
    BY <1>1, <1>5, <1>6, <2>1 DEF Inv, TurnInv, Ended
<1> QED
  BY <1>1, <1>6, <1>7, <1>8 DEF Inv

LEMMA WaitKeeps ==
  ASSUME Inv, NEW m \in Sends, WaitOver(m)
  PROVE  Inv'
<1>1. /\ request[m] = "waiting" /\ request' = [request EXCEPT ![m] = "done"] /\ active' = FALSE
      /\ items' = IF ~saw THEN Append(items, Item("turn-end", m, None, << >>)) ELSE items
      /\ UNCHANGED <<toolIndex, streamVars, modern, saw, turn, load, cancels>>
      /\ request' \in [Sends -> {"unsent", "prompt", "delivery", "waiting",
                                 "done", "delivered", "failed"}]
  BY DEF WaitOver, LocalEnd, Inv, TypeOK
<1>2. turn[m] # "none" /\ (saw <=> modern)
  BY <1>1 DEF Inv, TurnInv, TypeOK
<1>3. ASSUME NEW o \in Sends
      PROVE  /\ request'[o] = IF o = m THEN "done" ELSE request[o]
             /\ request'[o] \in {"waiting", "done"} => turn'[o] # "none"
  BY <1>1, <1>2 DEF Inv, TypeOK, TurnInv
<1>4. CASE modern
  <2>1. UNCHANGED <<chatVars, streamVars>> /\ items' = items
    BY <1>1, <1>2, <1>4 DEF chatVars
  <2>2. /\ StreamInv' /\ items' \in Seq(ChatItem) /\ pending' \in Seq(SessionUpdate)
        /\ toolIndex' \in [Tools -> Nat] /\ timer' \in {"none", "armed", "spent"}
        /\ heard' \in 0..MaxHeard
    BY <2>1, StreamStays
  <2>3. TypeOK'
    BY <1>1, <2>2 DEF Inv, TypeOK
  <2>4. \A o \in Sends : TurnInv(o)'
    BY <1>1, <1>3, <1>4, <2>1 DEF Inv, TurnInv, Ended
  <2> QED
    BY <1>1, <2>2, <2>3, <2>4 DEF Inv
<1>5. CASE ~modern
  <2>1. items' = Append(items, Item("turn-end", m, None, << >>))
    BY <1>1, <1>2, <1>5
  <2>2. /\ StreamInv'
        /\ items' \in Seq(ChatItem) /\ pending' \in Seq(SessionUpdate)
        /\ toolIndex' \in [Tools -> Nat] /\ timer' \in {"none", "armed", "spent"}
        /\ heard' \in 0..MaxHeard
        /\ \A o \in Sends :
             EndsAt(items', o) = IF o = m THEN EndsAt(items, o) \cup {Len(items) + 1}
                                 ELSE EndsAt(items, o)
    BY <1>1, <2>1, SilentItem
  <2>3. TypeOK'
    BY <1>1, <2>2 DEF Inv, TypeOK
  <2>4. EndsAt(items, m) = {}
    BY <1>1, <1>5 DEF Inv, TurnInv, Ended
  <2>5. ASSUME NEW o \in Sends
        PROVE  TurnInv(o)'
    <3>1. CASE o = m
      <4>1. EndsAt(items', o) = {Len(items) + 1}
        BY <2>2, <2>4, <3>1
      <4> QED
        BY <4>1, <1>1, <1>3, <1>5, <3>1 DEF TurnInv, Ended
    <3>2. CASE o # m
      BY <1>1, <1>3, <1>5, <2>2, <3>2 DEF Inv, TurnInv, Ended
    <3> QED
      BY <3>1, <3>2
  <2> QED
    BY <1>1, <2>2, <2>3, <2>5 DEF Inv
<1> QED
  BY <1>4, <1>5

(* The marks of a cancel are put on what a flush has shown. *)
LEMMA CancelShows ==
  ASSUME Inv, CancelAnswered
  PROVE  /\ StreamInv' /\ items' \in Seq(ChatItem) /\ pending' = << >>
         /\ pending' \in Seq(SessionUpdate)
         /\ toolIndex' \in [Tools -> Nat] /\ timer' \in {"none", "armed", "spent"}
         /\ heard' \in 0..MaxHeard
         /\ \A m \in Sends : EndsAt(items', m) = EndsAt(items, m)
         /\ \A i \in DOMAIN items' :
              items'[i].kind = "tool" /\ items'[i].status = "in_progress" => items'[i].local
<1> DEFINE chat == Flushed(pending)
           r == MarkRunningStopped(chat.items)
           marked == [chat EXCEPT !.items = r]
<1>1. heard' = heard /\ FlushInto(marked) /\ pending' = << >>
  BY DEF CancelAnswered, FlushInto
<1>2. /\ Fits(chat, heard) /\ heard \in Nat
      /\ \A m \in Sends : EndsAt(chat.items, m) = EndsAt(items, m)
  BY PendingShown
<1>3. /\ chat \in Chat /\ chat.items \in Seq(ChatItem)
      /\ Sound(chat.items) /\ Upto(chat.items, heard)
      /\ \A t \in Tools : chat.index[t] \in 0..Len(chat.items)
  BY <1>2 DEF Fits, Placed, Chat
<1> HIDE DEF chat
<1>4. /\ r \in Seq(ChatItem) /\ Len(r) = Len(chat.items) /\ Sound(r) /\ Upto(r, heard)
      /\ \A m \in Sends : EndsAt(r, m) = EndsAt(chat.items, m)
      /\ \A i \in DOMAIN r : r[i].kind = "tool" /\ r[i].status = "in_progress" => r[i].local
  BY <1>3, MarkedStopped
<1> HIDE DEF r
<1>5. marked \in Placed /\ marked.items = r
  BY <1>3, <1>4 DEF Placed, Chat
<1> HIDE DEF marked
<1>6. Fits(marked, heard') /\ heard' \in 0..MaxHeard
  BY <1>1, <1>4, <1>5 DEF Fits, Inv, TypeOK
<1>7. /\ StreamInv' /\ items' = marked.items
      /\ items' \in Seq(ChatItem) /\ pending' \in Seq(SessionUpdate)
      /\ toolIndex' \in [Tools -> Nat] /\ timer' \in {"none", "armed", "spent"}
  BY <1>1, <1>6, FlushKeeps
<1> QED
  BY <1>1, <1>2, <1>4, <1>5, <1>6, <1>7

LEMMA CancelKeeps ==
  ASSUME Inv, CancelAnswered
  PROVE  Inv'
<1>1. cancels' = 1 /\ UNCHANGED <<turnVars, load>>
  BY DEF CancelAnswered
<1>2. /\ StreamInv' /\ items' \in Seq(ChatItem) /\ pending' \in Seq(SessionUpdate)
      /\ toolIndex' \in [Tools -> Nat] /\ timer' \in {"none", "armed", "spent"}
      /\ heard' \in 0..MaxHeard
      /\ \A m \in Sends : EndsAt(items', m) = EndsAt(items, m)
  BY CancelShows
<1>3. TypeOK'
  BY <1>1, <1>2 DEF Inv, TypeOK, turnVars
<1>4. ASSUME NEW m \in Sends
      PROVE  TurnInv(m)'
  BY <1>1, <1>2 DEF Inv, TurnInv, Ended, turnVars
<1>5. (~modern => ~saw)'
  BY <1>1 DEF Inv, turnVars
<1> QED
  BY <1>2, <1>3, <1>4, <1>5 DEF Inv

(* A page in front of all that was streamed. *)
LEMMA PageKeeps ==
  ASSUME Inv, NEW l \in Loads, NEW page \in Pages, PageRead(l, page)
  PROVE  Inv'
<1>1. /\ items' = page \o items /\ UNCHANGED <<toolIndex, streamVars, turnVars, cancels>>
      /\ load' = [load EXCEPT ![l] = "done"]
      /\ load' \in [Loads -> {"idle", "reading", "done", "failed"}]
  BY DEF PageRead, Prepended, Inv, TypeOK
<1> DEFINE b == heard - Len(pending)
           r == page \o items
<1>2. Fits(OnScreen, b) /\ OnScreen.items = items /\ OnScreen.index = toolIndex
  BY DEF Inv, StreamInv, OnScreen
<1>3. /\ Fits([items |-> page \o OnScreen.items, index |-> OnScreen.index], b)
      /\ \A m \in Sends :
           /\ EndsAt(OnScreen.items, m) = {} => EndsAt(page \o OnScreen.items, m) = {}
           /\ \A k : EndsAt(OnScreen.items, m) = {k} =>
                \E e : EndsAt(page \o OnScreen.items, m) = {e}
  <2>1. Flushed(pending).items \in Seq(ChatItem)
    BY PendingShown DEF Fits, Placed, Chat
  <2>2. b \in Nat
    BY BoundsAssumption DEF Inv, TypeOK, StreamInv
  <2> HIDE DEF b
  <2> QED
    BY <1>2, <2>1, <2>2, PageIsPaged, PagePrepended
<1>4. OnScreen' = [items |-> r, index |-> toolIndex]
  BY <1>1 DEF OnScreen
<1>5. Fits(OnScreen', b)
  BY <1>2, <1>3, <1>4
<1>6. \A m \in Sends :
        /\ EndsAt(items, m) = {} => EndsAt(items', m) = {}
        /\ \A k : EndsAt(items, m) = {k} => \E e : EndsAt(items', m) = {e}
  BY <1>1, <1>2, <1>3
<1>7. StreamInv'
  BY <1>1, <1>5 DEF Inv, StreamInv, streamVars
<1>8. items' \in Seq(ChatItem)
  BY <1>5, <1>4, <1>1 DEF Fits, Placed, Chat
<1>9. TypeOK'
  BY <1>1, <1>8 DEF Inv, TypeOK, streamVars, turnVars
<1>10. ASSUME NEW m \in Sends
       PROVE  TurnInv(m)'
  BY <1>1, <1>6 DEF Inv, TurnInv, Ended, turnVars
<1> QED
  BY <1>1, <1>7, <1>9, <1>10 DEF Inv, turnVars

(* What changes neither the chat nor who has told a boundary. *)
LEMMA AsideKeeps ==
  ASSUME Inv,
         OpenRefreshed \/ \E l \in Loads : LoadTranscript(l) \/ PageFails(l)
  PROVE  Inv'
<1>1. /\ UNCHANGED <<chatVars, streamVars, modern, saw, request, turn, cancels>>
      /\ active' \in BOOLEAN /\ load' \in [Loads -> {"idle", "reading", "done", "failed"}]
  <2>1. CASE OpenRefreshed
    BY <2>1 DEF OpenRefreshed, Inv, TypeOK
  <2>2. CASE \E l \in Loads : LoadTranscript(l) \/ PageFails(l)
    BY <2>2 DEF LoadTranscript, PageFails, turnVars, Inv, TypeOK
  <2> QED
    BY <2>1, <2>2
<1>2. items' = items
  BY <1>1 DEF chatVars
<1>3. /\ StreamInv' /\ items' \in Seq(ChatItem) /\ pending' \in Seq(SessionUpdate)
      /\ toolIndex' \in [Tools -> Nat] /\ timer' \in {"none", "armed", "spent"}
      /\ heard' \in 0..MaxHeard
  BY <1>1, StreamStays
<1> QED
  BY <1>1, <1>2, <1>3 DEF Inv, TypeOK, TurnInv, Ended

LEMMA ChatStep ==
  ASSUME Inv, [Next]_vars
  PROVE  Inv'
<1>1. ASSUME NEW k \in Text, HearText(k)
      PROVE  Inv'
  <2> DEFINE u == [kind |-> k, of |-> None, status |-> None, parts |-> <<heard + 1>>]
  <2>1. heard + 1 \in 1..MaxHeard
    BY <1>1, BoundsAssumption DEF HearText, Hear, Inv, TypeOK
  <2>2. <<heard + 1>> \in Numbers
    BY <2>1 DEF Numbers
  <2>3. u \in SessionUpdate /\ u.parts = <<heard + 1>>
    BY <2>2 DEF SessionUpdate
  <2>4. Hear(u)
    BY <1>1 DEF HearText
  <2> HIDE DEF u
  <2> QED
    BY <2>3, <2>4, HearKeeps
<1>2. ASSUME NEW c \in Tools, NEW st \in Statuses, HearTool(c, st)
      PROVE  Inv'
  <2> DEFINE u == [kind |-> "tool", of |-> c, status |-> st, parts |-> <<heard + 1>>]
  <2>1. heard + 1 \in 1..MaxHeard
    BY <1>2, BoundsAssumption DEF HearTool, Hear, Inv, TypeOK
  <2>2. <<heard + 1>> \in Numbers
    BY <2>1 DEF Numbers
  <2>3. u \in SessionUpdate /\ u.parts = <<heard + 1>>
    BY <2>2 DEF SessionUpdate
  <2>4. Hear(u)
    BY <1>2 DEF HearTool
  <2> HIDE DEF u
  <2> QED
    BY <2>3, <2>4, HearKeeps
<1>3. ASSUME NEW m \in Sends,
             \/ TurnStarts(m) \/ TurnFinishes(m) \/ Send(m) \/ DeliveryAnswered(m)
             \/ PromptAnswered(m) \/ PromptFails(m) \/ WaitOver(m)
      PROVE  Inv'
  BY <1>3, TurnStartsKeeps, TurnFinishesKeeps, SendKeeps, DeliveryKeeps, AnswerKeeps, FailKeeps,
     WaitKeeps
<1> QED
  BY <1>1, <1>2, <1>3, TimerKeeps, CancelKeeps, PageKeeps, AsideKeeps, NothingChanges DEF Next

(* The chat of a session keeps what its flushes rest on: what is shown and *)
(* what is held back follow one another without a gap, and a boundary is   *)
(* there as soon as somebody has told it.                                  *)
THEOREM ChatInvHolds == Spec => []Inv
BY ChatInitial, ChatStep, PTL DEF Spec

(* The types of the chat (store.ts, AppStore; chat.ts, ChatState). *)
THEOREM ChatTypeCorrect == Spec => []TypeOK
BY ChatInvHolds, PTL DEF Inv

(* The stream shows what the agent says exactly once and in its order,     *)
(* however updates are held back, merged, and put behind pages (store.ts,  *)
(* flushUpdates, coalesceUpdates; chat.ts, applyUpdate).  A page may say   *)
(* it again.                                                               *)
THEOREM StreamIsInOrder == Spec => []StreamOrder
<1>1. ASSUME Inv
      PROVE  StreamOrder
  <2>1. /\ items \in Seq(ChatItem) /\ Sound(items) /\ Upto(items, heard - Len(pending))
        /\ Queue(pending, heard - Len(pending))
        /\ heard \in Nat /\ Len(pending) \in Nat /\ Len(pending) <= heard
        /\ DOMAIN pending = 1..Len(pending)
    BY <1>1, BoundsAssumption DEF Inv, TypeOK, StreamInv, Fits, OnScreen
  <2>2. \A i, j \in Streamed :
          i < j => /\ Head(items[i].parts) < Head(items[j].parts)
                   /\ items[i].kind \in Text => Last(items[i].parts) < Head(items[j].parts)
    BY <2>1 DEF Streamed, Sound, InOrder
  <2>3. ASSUME NEW i \in Streamed, NEW j \in DOMAIN pending
        PROVE  Last(items[i].parts) < Head(pending[j].parts)
    <3> DEFINE b == heard - Len(pending)
    <3>1. i \in DOMAIN items /\ items[i].parts # << >> /\ items[i].parts \in Numbers
      BY <2>1, ItemIsTyped DEF Streamed
    <3>2. Len(items[i].parts) \in DOMAIN items[i].parts /\ Last(items[i].parts) \in Nat
      BY <3>1, PartsAreNumbers DEF Last
    <3>3. Last(items[i].parts) <= b
      BY <2>1, <3>1, <3>2 DEF Upto, Last
    <3>4. Head(pending[j].parts) = b + j
      BY <2>1 DEF Queue
    <3>5. b \in Nat /\ j \in Nat /\ 1 <= j
      BY <2>1
    <3> HIDE DEF b
    <3> QED
      BY <3>2, <3>3, <3>4, <3>5
  <2>4. \A i, j \in DOMAIN items : i # j => PartsAt(i) \cap PartsAt(j) = {}
    BY <2>1 DEF PartsAt, ToSet, Sound, Apart
  <2>5. \A i \in DOMAIN items : Increasing(items[i].parts)
    BY <2>1 DEF Sound, Rising
  <2>6. ASSUME NEW n \in 1..heard
        PROVE  \/ \E i \in DOMAIN items : n \in PartsAt(i)
               \/ \E j \in DOMAIN pending : n \in ToSet(pending[j].parts)
    <3> DEFINE b == heard - Len(pending)
    <3>1. b \in Nat
      BY <2>1
    <3>2. CASE n <= b
      <4>1. n \in 1..b
        BY <3>1, <3>2
      <4>2. Holds(items, n)
        BY <2>1, <4>1 DEF Upto, Complete
      <4> QED
        BY <4>2 DEF Holds, PartsAt, ToSet
    <3>3. CASE ~(n <= b)
      <4>1. n - b \in 1..Len(pending) /\ b + (n - b) = n
        BY <2>1, <3>3
      <4>2. pending[n - b].parts = <<n>>
        BY <2>1, <4>1 DEF Queue
      <4>3. n \in ToSet(pending[n - b].parts)
        BY <4>2 DEF ToSet
      <4> QED
        BY <2>1, <4>1, <4>3
    <3> QED
      BY <3>2, <3>3
  <2> QED
    BY <2>2, <2>3, <2>4, <2>5, <2>6 DEF StreamOrder
<1> QED
  BY <1>1, ChatInvHolds, PTL

(* A turn has one boundary in the chat, that of the core or that which the *)
(* shell makes up (store.ts:858).                                          *)
THEOREM OneBoundary == Spec => []OneBoundaryPerTurn
<1>1. ASSUME Inv
      PROVE  OneBoundaryPerTurn
  <2>1. ASSUME NEW m \in Sends
        PROVE  Ends(m) = IF modern THEN IF turn[m] = "over" THEN 1 ELSE 0
                         ELSE IF request[m] = "done" THEN 1 ELSE 0
    <3>1. Ends(m) = Cardinality(EndsAt(items, m))
      BY DEF Ends, EndsAt
    <3>2. IF Ended(m) THEN \E e : EndsAt(items, m) = {e} ELSE EndsAt(items, m) = {}
      BY <1>1 DEF Inv, TurnInv
    <3>3. IF Ended(m) THEN Cardinality(EndsAt(items, m)) = 1
          ELSE Cardinality(EndsAt(items, m)) = 0
      BY <3>2, FS_EmptySet, FS_Singleton
    <3> QED
      BY <3>1, <3>3 DEF Ended
  <2> QED
    BY <2>1 DEF OneBoundaryPerTurn
<1> QED
  BY <1>1, ChatInvHolds, PTL

(* An update is held back only as long as there is a timer that will show  *)
(* it.  scheduleFlush arms none while the field is set, so that this rests *)
(* on the field telling the truth: it is cleared by whoever empties the    *)
(* queue, and is never set without a timer (store.ts, scheduleFlush,       *)
(* flushUpdates).                                                          *)
THEOREM NothingIsStrandedHolds == Spec => []NothingIsStranded
<1> DEFINE TimerInv == timer # "spent" /\ NothingIsStranded
<1>1. Init => TimerInv
  BY DEF Init, NothingIsStranded
<1>2. TimerInv /\ TypeOK /\ [Next]_vars => TimerInv'
  <2> SUFFICES ASSUME TimerInv, TypeOK, [Next]_vars
               PROVE  TimerInv'
    OBVIOUS
  <2>1. ASSUME NEW chat, FlushInto(chat)
        PROVE  TimerInv'
    BY <2>1 DEF FlushInto, TimerCleared, NothingIsStranded
  <2>2. ASSUME UNCHANGED <<pending, timer>>
        PROVE  TimerInv'
    BY <2>2 DEF NothingIsStranded
  <2>3. ASSUME NEW u, Hear(u)
        PROVE  TimerInv'
    <3>1. CASE Len(Append(pending, u)) >= BatchSize
      BY <2>1, <2>3, <3>1 DEF Hear
    <3>2. CASE ~(Len(Append(pending, u)) >= BatchSize)
      BY <2>3, <3>2 DEF Hear, NothingIsStranded, TypeOK
    <3> QED
      BY <3>1, <3>2
  <2>4. ASSUME NEW m \in Sends, TurnStarts(m)
        PROVE  TimerInv'
    <3>1. CASE modern
      BY <2>1, <2>4, <3>1 DEF TurnStarts
    <3>2. CASE ~modern
      BY <2>2, <2>4, <3>2 DEF TurnStarts
    <3> QED
      BY <3>1, <3>2
  <2>5. CASE \/ \E k \in Text : HearText(k)
             \/ \E c \in Tools, s \in Statuses : HearTool(c, s)
    BY <2>3, <2>5 DEF HearText, HearTool
  <2>6. CASE \/ FlushTimerFires \/ CancelAnswered
             \/ \E m \in Sends : TurnFinishes(m) \/ PromptAnswered(m) \/ PromptFails(m)
    BY <2>1, <2>6 DEF FlushTimerFires, CancelAnswered, TurnFinishes, PromptAnswered, PromptFails
  <2>7. CASE \/ OpenRefreshed \/ UNCHANGED vars
             \/ \E m \in Sends : Send(m) \/ DeliveryAnswered(m) \/ WaitOver(m)
             \/ \E l \in Loads :
                  LoadTranscript(l) \/ PageFails(l) \/ \E page \in Pages : PageRead(l, page)
    BY <2>2, <2>7 DEF OpenRefreshed, Send, DeliveryAnswered, WaitOver, LoadTranscript, PageFails,
       PageRead, streamVars, vars
  <2> QED
    BY <2>4, <2>5, <2>6, <2>7 DEF Next
<1> QED
  BY <1>1, <1>2, ChatTypeCorrect, PTL DEF Spec

(* When a cancel has been answered, no card of what was said before it     *)
(* runs on, nor can one come from the queue (store.ts, cancel).            *)
THEOREM CancelsSettle == Spec => CancelSettles
<1>1. ASSUME Inv, [Next]_vars
      PROVE  [cancels' # cancels =>
                /\ pending' = << >>
                /\ \A i \in DOMAIN items' :
                     items'[i].kind = "tool" /\ items'[i].status = "in_progress" =>
                       items'[i].local]_vars
  <2>1. CASE CancelAnswered
    BY <1>1, <2>1, CancelShows
  <2>2. CASE ~CancelAnswered
    <3>1. cancels' = cancels
      BY <1>1, <2>2 DEF Next, HearText, HearTool, Hear, FlushTimerFires, TurnStarts, TurnFinishes, Send,
         DeliveryAnswered, PromptAnswered, PromptFails, WaitOver, OpenRefreshed, LoadTranscript,
         PageFails, PageRead, vars
    <3> QED
      BY <3>1
  <2> QED
    BY <2>1, <2>2
<1> QED
  BY <1>1, ChatInvHolds, PTL DEF Spec, CancelSettles
-----------------------------------------------------------------------------
(***************************************************************************)
(* The segments of the column                                              *)
(***************************************************************************)

(* Cards of any kind and state, with numbers from any source, whose words  *)
(* and lines are those of W.                                               *)
Counts      == [added : Nat, removed : Nat]
ViewStat(W) == [path : W, added : Nat, removed : Nat]
ViewDiff(W) == [old : Seq(W), new : Seq(W)]

ViewCard(W) ==
  [kind : W, sniffed : W, status : W, local : W, path : W,
   changeStat : Seq(ViewStat(W)), diffs : Seq(ViewDiff(W)), input : Seq(Counts)]

ViewId == (Tabs \cup {NoTab}) \X Nat

ViewItem(W) ==
  {Thought(n) : n \in Nat}
    \cup {Tool(s, n, card) : s \in Tabs, n \in Nat, card \in ViewCard(W)}
    \cup {Other(n, kind) : n \in Nat, kind \in {"body", "blank", "turn-end"}}

ViewBlock(W) == [kind : {"content", "segment"}, id : ViewId, items : Seq(ViewItem(W))]

(* Blocks, and the items of a segment that may still grow. *)
Blocking(W) == [blocks : Seq(ViewBlock(W)), pending : Seq(ViewItem(W))]

Unread == [blocks |-> << >>, pending |-> << >>]

Blocked(its) == FoldLeft(IntoBlocks, Unread, its)

IdsOf(blocks) == {blocks[i].id : i \in {j \in DOMAIN blocks : blocks[j].kind = "segment"}}

(* The segment that a flush makes of the pending items, if it makes one. *)
Held(p) == {n \in ViewId : p # << >> /\ ~(Len(p) = 1 /\ IsTool(Head(p))) /\ n = Head(p).id}

IdsAt(acc) == IdsOf(acc.blocks) \cup Held(acc.pending)

SegmentIds(its) == {b.id : b \in Segments(its)}

(* Two readings that have come to the same segments and are about to begin *)
(* the same one.                                                           *)
Alike(a, c) ==
  /\ IdsOf(a.blocks) = IdsOf(c.blocks) /\ Len(a.pending) = Len(c.pending)
  /\ a.pending # << >> => /\ Head(a.pending).id = Head(c.pending).id
                          /\ Head(a.pending).kind = Head(c.pending).kind

LEMMA ViewItemIsTyped ==
  ASSUME NEW W, NEW item \in ViewItem(W)
  PROVE  item.id \in ViewId /\ item.kind \in {"thought", "tool", "body", "blank", "turn-end"}
BY DEF ViewItem, Thought, Tool, Other, ViewId

(* A block at the end adds its name to those of the segments. *)
LEMMA IdsGrow ==
  ASSUME NEW W, NEW bs \in Seq(ViewBlock(W)), NEW b \in ViewBlock(W)
  PROVE  /\ Append(bs, b) \in Seq(ViewBlock(W))
         /\ b.kind = "segment" => IdsOf(Append(bs, b)) = IdsOf(bs) \cup {b.id}
         /\ b.kind = "content" => IdsOf(Append(bs, b)) = IdsOf(bs)
<1> DEFINE r == Append(bs, b)
           n == Len(bs)
<1>1. /\ n \in Nat /\ DOMAIN bs = 1..n /\ r \in Seq(ViewBlock(W)) /\ DOMAIN r = 1..(n + 1)
      /\ \A i \in 1..n : r[i] = bs[i]
      /\ r[n + 1] = b
  OBVIOUS
<1> HIDE DEF n, r
<1>2. 1..(n + 1) = (1..n) \cup {n + 1}
  BY <1>1
<1>3. ASSUME b.kind = "segment"
      PROVE  IdsOf(r) = IdsOf(bs) \cup {b.id}
  BY <1>1, <1>2, <1>3 DEF IdsOf
<1>4. ASSUME b.kind = "content"
      PROVE  IdsOf(r) = IdsOf(bs)
  <2>1. {j \in DOMAIN r : r[j].kind = "segment"} = {j \in DOMAIN bs : bs[j].kind = "segment"}
    BY <1>1, <1>2, <1>4
  <2> QED
    BY <1>1, <2>1 DEF IdsOf
<1> QED
  BY <1>1, <1>3, <1>4 DEF r

(* A flush adds the segment it makes of what is pending. *)
LEMMA FlushNames ==
  ASSUME NEW W, NEW bs \in Seq(ViewBlock(W)), NEW p \in Seq(ViewItem(W))
  PROVE  /\ FlushBlocks(bs, p) \in Seq(ViewBlock(W))
         /\ IdsOf(FlushBlocks(bs, p)) = IdsOf(bs) \cup Held(p)
<1>1. CASE p = << >>
  BY <1>1 DEF FlushBlocks, Held
<1>2. CASE p # << >>
  <2>1. Head(p) \in ViewItem(W) /\ Head(p).id \in ViewId /\ Len(p) # 0
    BY <1>2, ViewItemIsTyped
  <2>2. <<Head(p)>> \in Seq(ViewItem(W))
    BY <2>1
  <2>3. CASE Len(p) = 1 /\ IsTool(Head(p))
    <3> DEFINE b == Content(Head(p))
    <3>1. b \in ViewBlock(W) /\ b.kind = "content"
      BY <2>1, <2>2 DEF Content, ViewBlock
    <3>2. FlushBlocks(bs, p) = Append(bs, b)
      BY <1>2, <2>3 DEF FlushBlocks
    <3>3. Held(p) = {}
      BY <2>3 DEF Held
    <3> HIDE DEF b
    <3> QED
      BY <3>1, <3>2, <3>3, IdsGrow
  <2>4. CASE ~(Len(p) = 1 /\ IsTool(Head(p)))
    <3> DEFINE b == Segment(p)
    <3>1. b \in ViewBlock(W) /\ b.kind = "segment" /\ b.id = Head(p).id
      BY <2>1 DEF Segment, ViewBlock
    <3>2. FlushBlocks(bs, p) = Append(bs, b)
      BY <1>2, <2>4 DEF FlushBlocks
    <3>3. Held(p) = {b.id}
      BY <1>2, <2>1, <2>4, <3>1 DEF Held
    <3> HIDE DEF b
    <3> QED
      BY <3>1, <3>2, <3>3, IdsGrow
  <2> QED
    BY <2>3, <2>4
<1> QED
  BY <1>1, <1>2

(* What one more item does to the blocks. *)
LEMMA BlockStep ==
  ASSUME NEW W, NEW acc \in Blocking(W), NEW item \in ViewItem(W)
  PROVE  /\ IntoBlocks(acc, item) \in Blocking(W)
         /\ item.kind \in {"thought", "tool"} =>
              /\ IntoBlocks(acc, item).blocks = acc.blocks
              /\ IntoBlocks(acc, item).pending = Append(acc.pending, item)
         /\ item.kind = "blank" => IntoBlocks(acc, item) = acc
         /\ item.kind \in {"body", "turn-end"} =>
              /\ IdsOf(IntoBlocks(acc, item).blocks) = IdsAt(acc)
              /\ IntoBlocks(acc, item).pending = << >>
<1> DEFINE r == IntoBlocks(acc, item)
<1>1. /\ acc.blocks \in Seq(ViewBlock(W)) /\ acc.pending \in Seq(ViewItem(W))
      /\ acc = [blocks |-> acc.blocks, pending |-> acc.pending]
      /\ item.id \in ViewId /\ item.kind \in {"thought", "tool", "body", "blank", "turn-end"}
  BY ViewItemIsTyped DEF Blocking
<1>2. IsTimelineItem(item) <=> item.kind \in {"thought", "tool"}
  BY DEF IsTimelineItem, IsTool
<1>3. CASE item.kind \in {"thought", "tool"}
  <2>1. r = [acc EXCEPT !.pending = Append(acc.pending, item)]
    BY <1>2, <1>3 DEF IntoBlocks
  <2>2. Append(acc.pending, item) \in Seq(ViewItem(W))
    BY <1>1
  <2>3. r \in Blocking(W) /\ r.blocks = acc.blocks /\ r.pending = Append(acc.pending, item)
    BY <1>1, <2>1, <2>2 DEF Blocking
  <2> HIDE DEF r
  <2> QED
    BY <1>3, <2>3 DEF r
<1>4. CASE item.kind = "blank"
  BY <1>2, <1>4 DEF IntoBlocks
<1>5. CASE item.kind \in {"body", "turn-end"}
  <2> DEFINE f == FlushBlocks(acc.blocks, acc.pending)
             b == Content(item)
  <2>1. f \in Seq(ViewBlock(W)) /\ IdsOf(f) = IdsAt(acc)
    BY <1>1, FlushNames DEF IdsAt
  <2>2. <<item>> \in Seq(ViewItem(W))
    OBVIOUS
  <2>3. b \in ViewBlock(W) /\ b.kind = "content"
    BY <1>1, <2>2 DEF Content, ViewBlock
  <2>4. r = [blocks |-> Append(f, b), pending |-> << >>]
    BY <1>2, <1>5 DEF IntoBlocks
  <2> HIDE DEF f, b, r
  <2>5. Append(f, b) \in Seq(ViewBlock(W)) /\ IdsOf(Append(f, b)) = IdsAt(acc)
    BY <2>1, <2>3, IdsGrow
  <2>6. << >> \in Seq(ViewItem(W))
    BY EmptySeq
  <2>7. r \in Blocking(W) /\ IdsOf(r.blocks) = IdsAt(acc) /\ r.pending = << >>
    BY <2>4, <2>5, <2>6 DEF Blocking
  <2> QED
    BY <1>5, <2>7 DEF r
<1> QED
  BY <1>1, <1>3, <1>4, <1>5

(* No item takes a segment away. *)
LEMMA BlocksStay ==
  ASSUME NEW W, NEW acc \in Blocking(W), NEW item \in ViewItem(W)
  PROVE  IdsAt(acc) \subseteq IdsAt(IntoBlocks(acc, item))
<1> DEFINE r == IntoBlocks(acc, item)
           p == acc.pending
<1>1. p \in Seq(ViewItem(W)) /\ item.kind \in {"thought", "tool", "body", "blank", "turn-end"}
  BY ViewItemIsTyped DEF Blocking
<1>2. CASE item.kind \in {"thought", "tool"}
  <2>1. r.blocks = acc.blocks /\ r.pending = Append(p, item)
    BY <1>2, BlockStep
  <2> DEFINE s == Append(p, item)
  <2>2. ASSUME p # << >>
        PROVE  Head(s) = Head(p) /\ Len(s) # 1 /\ s # << >>
    <3>1. Len(p) \in Nat /\ Len(p) # 0 /\ Len(s) = Len(p) + 1 /\ s[1] = p[1] /\ s # << >>
      BY <1>1, <2>2
    <3>2. s \in Seq(ViewItem(W))
      BY <1>1
    <3> HIDE DEF s
    <3>3. Head(s) = s[1] /\ Head(p) = p[1]
      BY <1>1, <3>1, <3>2, <2>2
    <3> QED
      BY <3>1, <3>3
  <2> HIDE DEF s
  <2>3. Held(p) \subseteq Held(s)
    BY <2>2 DEF Held
  <2> QED
    BY <2>1, <2>3 DEF IdsAt, s
<1>3. CASE item.kind = "blank"
  BY <1>3, BlockStep
<1>4. CASE item.kind \in {"body", "turn-end"}
  BY <1>4, BlockStep DEF IdsAt
<1> QED
  BY <1>1, <1>2, <1>3, <1>4

(* Items of one name and kind keep two readings alike. *)
LEMMA AlikeSteps ==
  ASSUME NEW W, NEW a \in Blocking(W), NEW c \in Blocking(W), Alike(a, c),
         NEW x \in ViewItem(W), NEW y \in ViewItem(W), x.id = y.id, x.kind = y.kind
  PROVE  Alike(IntoBlocks(a, x), IntoBlocks(c, y))
<1> DEFINE p == a.pending
           q == c.pending
<1>1. p \in Seq(ViewItem(W)) /\ q \in Seq(ViewItem(W))
      /\ x.kind \in {"thought", "tool", "body", "blank", "turn-end"} /\ Len(p) = Len(q)
  BY ViewItemIsTyped DEF Blocking, Alike
<1>2. CASE x.kind \in {"thought", "tool"}
  <2>1. /\ IntoBlocks(a, x).blocks = a.blocks /\ IntoBlocks(a, x).pending = Append(p, x)
        /\ IntoBlocks(c, y).blocks = c.blocks /\ IntoBlocks(c, y).pending = Append(q, y)
    BY <1>2, BlockStep
  <2>2. Len(Append(p, x)) = Len(Append(q, y))
    BY <1>1
  <2>3. /\ Head(Append(p, x)).id = Head(Append(q, y)).id
        /\ Head(Append(p, x)).kind = Head(Append(q, y)).kind
    <3>1. CASE p = << >>
      <4>1. q = << >>
        BY <1>1, <3>1
      <4>2. Head(Append(p, x)) = x /\ Head(Append(q, y)) = y
        BY <3>1, <4>1
      <4> QED
        BY <4>2
    <3>2. CASE p # << >>
      <4>1. q # << >>
        BY <1>1, <3>2
      <4>2. Head(Append(p, x)) = Head(p) /\ Head(Append(q, y)) = Head(q)
        BY <1>1, <3>2, <4>1
      <4>3. Head(p).id = Head(q).id /\ Head(p).kind = Head(q).kind
        BY <3>2 DEF Alike
      <4> HIDE DEF p, q
      <4> QED
        BY <4>2, <4>3
    <3> QED
      BY <3>1, <3>2
  <2> HIDE DEF p, q
  <2> QED
    BY <2>1, <2>2, <2>3 DEF Alike
<1>3. CASE x.kind = "blank"
  BY <1>3, BlockStep
<1>4. CASE x.kind \in {"body", "turn-end"}
  <2>1. IdsAt(a) = IdsAt(c)
    <3>1. p = << >> <=> q = << >>
      BY <1>1
    <3>2. Held(p) = Held(q)
      BY <1>1, <3>1 DEF Held, Alike, IsTool
    <3> QED
      BY <3>2 DEF IdsAt, Alike
  <2>2. /\ IdsOf(IntoBlocks(a, x).blocks) = IdsAt(a) /\ IntoBlocks(a, x).pending = << >>
        /\ IdsOf(IntoBlocks(c, y).blocks) = IdsAt(c) /\ IntoBlocks(c, y).pending = << >>
    BY <1>4, BlockStep
  <2> QED
    BY <2>1, <2>2 DEF Alike
<1> QED
  BY <1>1, <1>2, <1>3, <1>4

LEMMA AlikeNames ==
  ASSUME NEW W, NEW a \in Blocking(W), NEW c \in Blocking(W), Alike(a, c)
  PROVE  IdsAt(a) = IdsAt(c)
<1>1. /\ a.pending \in Seq(ViewItem(W)) /\ c.pending \in Seq(ViewItem(W))
      /\ Len(a.pending) = Len(c.pending)
  BY DEF Blocking, Alike
<1>2. a.pending = << >> <=> c.pending = << >>
  BY <1>1
<1>3. Held(a.pending) = Held(c.pending)
  BY <1>1, <1>2 DEF Held, Alike, IsTool
<1> QED
  BY <1>3 DEF IdsAt, Alike

(* The blocks of a column are what its items make of them one by one. *)
LEMMA BlocksFold ==
  ASSUME NEW W, NEW q \in Seq(ViewItem(W))
  PROVE  \E g \in [0..Len(q) -> Blocking(W)] :
           /\ g[0] = Unread /\ g[Len(q)] = Blocked(q)
           /\ \A k \in 1..Len(q) : g[k] = IntoBlocks(g[k - 1], q[k])
<1> DEFINE A == Blocking(W)
           n == Len(q)
           F == [p \in A \X ViewItem(W) |-> IntoBlocks(p[1], p[2])]
           Run(it) == [s \in SUBSET DOMAIN q |->
                         IF s = {} THEN Unread ELSE IntoBlocks(it[s \ {Max(s)}], q[Max(s)])]
           c == CHOOSE it : it = Run(it)
<1>1. /\ n \in Nat /\ DOMAIN q = 1..n /\ q \in [1..n -> ViewItem(W)]
      /\ F \in [A \X ViewItem(W) -> A] /\ Unread \in A
  BY BlockStep, EmptySeq DEF Blocking, Unread
<1>2. \A x \in A, u \in ViewItem(W) : F[<<x, u>>] = IntoBlocks(x, u)
  OBVIOUS
<1>3. Blocked(q) = c[DOMAIN q]
  BY DEF Blocked, FoldLeft, MapThenFoldSet, Unread
<1> HIDE DEF A, F, n
<1>4. Folding(A, ViewItem(W), F, Unread, n, q)
  BY <1>1 DEF Folding
<1>5. \E it : it = Run(it)
  <2>1. PICK it \in [SUBSET (1..n) -> A] : Unrolled(it, A, F, Unread, n, q)
    BY <1>4, FoldDefined
  <2>2. ASSUME NEW s \in SUBSET (1..n), s # {}
        PROVE  it[s] = IntoBlocks(it[s \ {Max(s)}], q[Max(s)])
    <3>1. s \ {Max(s)} \in SUBSET (1..n) /\ Max(s) \in 1..n
      BY <1>1, <2>2, MaxOfPlaces
    <3>2. it[s \ {Max(s)}] \in A /\ q[Max(s)] \in ViewItem(W)
      BY <1>1, <3>1
    <3> QED
      BY <1>2, <2>1, <2>2, <3>2 DEF Unrolled
  <2>3. it[{}] = Unread
    BY <2>1 DEF Unrolled
  <2>4. it = Run(it)
    BY <1>1, <2>1, <2>2, <2>3
  <2> QED
    BY <2>4
<1>6. c = Run(c)
  BY <1>5
<1>7. Unrolled(c, A, F, Unread, n, q)
  <2>1. c[{}] = Unread
    BY <1>6
  <2>2. ASSUME NEW s \in SUBSET (1..n), s # {}, c[s \ {Max(s)}] \in A
        PROVE  c[s] = F[<<c[s \ {Max(s)}], q[Max(s)]>>]
    <3>1. Max(s) \in 1..n
      BY <1>1, <2>2, MaxOfPlaces
    <3>2. c[s] = IntoBlocks(c[s \ {Max(s)}], q[Max(s)])
      BY <1>1, <1>6, <2>2
    <3> QED
      BY <1>1, <1>2, <2>2, <3>1, <3>2
  <2> HIDE DEF c
  <2> QED
    BY <2>1, <2>2 DEF Unrolled
<1> HIDE DEF c
<1>8. PICK g \in [0..n -> A] : Stepwise(g, F, Unread, n, q) /\ g[n] = c[1..n]
  BY <1>4, <1>7, FoldRun
<1>9. ASSUME NEW k \in 1..n
      PROVE  g[k] = IntoBlocks(g[k - 1], q[k])
  <2>1. k - 1 \in 0..n /\ q[k] \in ViewItem(W)
    BY <1>1
  <2> QED
    BY <1>2, <1>8, <2>1 DEF Stepwise
<1> QED
  BY <1>1, <1>3, <1>8, <1>9 DEF A, n, Stepwise

LEMMA NamesOfColumn ==
  ASSUME NEW W, NEW q \in Seq(ViewItem(W)), Blocked(q) \in Blocking(W)
  PROVE  SegmentIds(q) = IdsAt(Blocked(q))
<1> DEFINE b == Blocked(q)
           f == FlushBlocks(b.blocks, b.pending)
<1>1. b.blocks \in Seq(ViewBlock(W)) /\ b.pending \in Seq(ViewItem(W))
  BY DEF Blocking
<1>2. SplitBlocks(q) = f
  BY DEF SplitBlocks, Blocked, Unread
<1> HIDE DEF b
<1>3. IdsOf(f) = IdsAt(b)
  BY <1>1, FlushNames DEF IdsAt
<1> HIDE DEF f
<1>4. SegmentIds(q) = IdsOf(f)
  BY <1>2 DEF SegmentIds, Segments, ToSet, IdsOf
<1> QED
  BY <1>3, <1>4 DEF b

(* The same items and perhaps more, of which the last may have been blank. *)
Continues(q, r) ==
  /\ Len(q) <= Len(r)
  /\ \A k \in DOMAIN q : /\ r[k].id = q[k].id
                         /\ r[k].kind = q[k].kind \/ (k = Len(q) /\ q[k].kind = "blank")

(* A segment keeps its place and its name: what was a segment stays one    *)
(* when items are added, a blank text at the end is filled, or a tool ends.*)
LEMMA SegmentsStay ==
  ASSUME NEW W, NEW q \in Seq(ViewItem(W)), NEW r \in Seq(ViewItem(W)), Continues(q, r)
  PROVE  SegmentIds(q) \subseteq SegmentIds(r)
<1> DEFINE n == Len(q)
           m == Len(r)
<1>1. /\ n \in Nat /\ m \in Nat /\ n <= m /\ DOMAIN q = 1..n /\ DOMAIN r = 1..m
      /\ \A k \in 1..n : q[k] \in ViewItem(W)
      /\ \A k \in 1..m : r[k] \in ViewItem(W)
      /\ \A k \in 1..n : r[k].id = q[k].id /\ (k < n => r[k].kind = q[k].kind)
      /\ n > 0 => r[n].kind = q[n].kind \/ q[n].kind = "blank"
  BY ElementOfSeq DEF Continues
<1>2. PICK g \in [0..n -> Blocking(W)] :
        /\ g[0] = Unread /\ g[n] = Blocked(q)
        /\ \A k \in 1..n : g[k] = IntoBlocks(g[k - 1], q[k])
  BY BlocksFold
<1>3. PICK h \in [0..m -> Blocking(W)] :
        /\ h[0] = Unread /\ h[m] = Blocked(r)
        /\ \A k \in 1..m : h[k] = IntoBlocks(h[k - 1], r[k])
  BY BlocksFold
<1> HIDE DEF n, m
<1>4. ASSUME NEW k \in 0..(n - 1), k < n, Alike(g[k], h[k]), r[k + 1].kind = q[k + 1].kind
      PROVE  Alike(g[k + 1], h[k + 1])
  <2>1. k + 1 \in 1..n /\ k + 1 \in 1..m /\ k \in 0..n /\ k \in 0..m /\ (k + 1) - 1 = k
    BY <1>1
  <2>2. g[k] \in Blocking(W) /\ h[k] \in Blocking(W)
    BY <2>1
  <2>3. g[k + 1] = IntoBlocks(g[k], q[k + 1]) /\ h[k + 1] = IntoBlocks(h[k], r[k + 1])
    BY <1>2, <1>3, <2>1
  <2>4. q[k + 1] \in ViewItem(W) /\ r[k + 1] \in ViewItem(W) /\ q[k + 1].id = r[k + 1].id
    BY <1>1, <2>1
  <2> QED
    BY <1>4, <2>2, <2>3, <2>4, AlikeSteps
<1>5. \A k \in 0..n : k < n \/ n = 0 => Alike(g[k], h[k])
  <2> DEFINE S == {k \in 0..n : k < n \/ n = 0 => Alike(g[k], h[k])}
  <2>1. 0 \in S
    BY <1>1, <1>2, <1>3 DEF Alike, Unread
  <2>2. ASSUME NEW k \in 0..(n - 1), k \in S
        PROVE  k + 1 \in S
    <3>1. k + 1 \in 0..n /\ k < n
      BY <1>1
    <3>2. ASSUME k + 1 < n
          PROVE  r[k + 1].kind = q[k + 1].kind
      BY <1>1, <3>2
    <3>3. ASSUME k + 1 < n
          PROVE  Alike(g[k + 1], h[k + 1])
      BY <1>4, <2>2, <3>1, <3>2, <3>3
    <3> QED
      BY <3>1, <3>3
  <2> HIDE DEF S
  <2>3. 0..n \subseteq S
    BY <1>1, <2>1, <2>2, InductionTo
  <2> QED
    BY <2>3 DEF S
<1>6. IdsAt(g[n]) \subseteq IdsAt(h[n])
  <2>1. n \in 0..n /\ n \in 0..m /\ g[n] \in Blocking(W) /\ h[n] \in Blocking(W)
    BY <1>1
  <2>2. CASE Alike(g[n], h[n])
    BY <2>1, <2>2, AlikeNames
  <2>3. CASE ~Alike(g[n], h[n])
    <3>1. n > 0
      BY <1>1, <1>5, <2>1, <2>3
    <3>2. n - 1 \in 0..(n - 1) /\ n - 1 \in 0..n /\ n - 1 \in 0..m /\ n - 1 < n /\ (n - 1) + 1 = n
          /\ n \in 1..n /\ n \in 1..m
      BY <1>1, <3>1
    <3>3. Alike(g[n - 1], h[n - 1])
      BY <1>5, <3>2
    <3>4. q[n].kind = "blank"
      BY <1>1, <1>4, <2>3, <3>1, <3>2, <3>3
    <3>5. g[n - 1] \in Blocking(W) /\ h[n - 1] \in Blocking(W) /\ q[n] \in ViewItem(W) /\ r[n] \in ViewItem(W)
      BY <1>1, <3>2
    <3>6. g[n] = IntoBlocks(g[n - 1], q[n]) /\ h[n] = IntoBlocks(h[n - 1], r[n])
      BY <1>2, <1>3, <3>2
    <3>7. g[n] = g[n - 1]
      BY <3>4, <3>5, <3>6, BlockStep
    <3>8. IdsAt(h[n - 1]) \subseteq IdsAt(h[n])
      BY <3>5, <3>6, BlocksStay
    <3>9. IdsAt(g[n - 1]) = IdsAt(h[n - 1])
      BY <3>3, <3>5, AlikeNames
    <3> QED
      BY <3>7, <3>8, <3>9
  <2> QED
    BY <2>2, <2>3
<1>7. IdsAt(h[n]) \subseteq IdsAt(h[m])
  <2> DEFINE S == {k \in 0..m : n <= k => IdsAt(h[n]) \subseteq IdsAt(h[k])}
  <2>1. 0 \in S
    BY <1>1
  <2>2. ASSUME NEW k \in 0..(m - 1), k \in S
        PROVE  k + 1 \in S
    <3>1. k + 1 \in 0..m /\ k \in 0..m /\ k + 1 \in 1..m /\ (k + 1) - 1 = k
      BY <1>1
    <3>2. ASSUME n <= k + 1, n # k + 1
          PROVE  IdsAt(h[n]) \subseteq IdsAt(h[k + 1])
      <4>1. n <= k
        BY <1>1, <3>2
      <4>2. IdsAt(h[n]) \subseteq IdsAt(h[k])
        BY <2>2, <4>1
      <4>3. h[k] \in Blocking(W) /\ r[k + 1] \in ViewItem(W) /\ h[k + 1] = IntoBlocks(h[k], r[k + 1])
        BY <1>1, <1>3, <3>1
      <4>4. IdsAt(h[k]) \subseteq IdsAt(h[k + 1])
        BY <4>3, BlocksStay
      <4> QED
        BY <4>2, <4>4
    <3> QED
      BY <3>1, <3>2
  <2> HIDE DEF S
  <2>3. 0..m \subseteq S
    BY <1>1, <2>1, <2>2, InductionTo
  <2>4. m \in S
    BY <1>1, <2>3
  <2> QED
    BY <1>1, <2>4 DEF S
<1>8. SegmentIds(q) = IdsAt(g[n]) /\ SegmentIds(r) = IdsAt(h[m])
  <2>1. Blocked(q) \in Blocking(W) /\ Blocked(r) \in Blocking(W)
    BY <1>1, <1>2, <1>3
  <2> QED
    BY <1>2, <1>3, <2>1, NamesOfColumn
<1> QED
  BY <1>6, <1>7, <1>8

(* The words on the cards of the tools that arrive. *)
Said == {"execute", "in_progress", "completed", "failed", "stopped", NotSet, NoPath}

(* A segment is named after one of its items. *)
LEMMA NamesOfItems ==
  ASSUME NEW W, NEW q \in Seq(ViewItem(W)), NEW b \in SegmentIds(q)
  PROVE  \E i \in DOMAIN q : b = q[i].id
<1> DEFINE n == Len(q)
           I == {q[i].id : i \in DOMAIN q}
           Within(acc) == /\ IdsAt(acc) \subseteq I
                          /\ \A i \in DOMAIN acc.pending : acc.pending[i].id \in I
<1>1. n \in Nat /\ DOMAIN q = 1..n /\ \A k \in 1..n : q[k] \in ViewItem(W) /\ q[k].id \in I
  BY ElementOfSeq
<1>2. PICK g \in [0..n -> Blocking(W)] :
        /\ g[0] = Unread /\ g[n] = Blocked(q)
        /\ \A k \in 1..n : g[k] = IntoBlocks(g[k - 1], q[k])
  BY BlocksFold
<1> DEFINE S == {k \in 0..n : Within(g[k])}
<1> HIDE DEF n, I
<1>3. 0 \in S
  BY <1>1, <1>2 DEF IdsAt, IdsOf, Held, Unread
<1>4. ASSUME NEW acc \in Blocking(W), NEW x \in ViewItem(W), x.id \in I, Within(acc)
      PROVE  Within(IntoBlocks(acc, x))
  <2> DEFINE r == IntoBlocks(acc, x)
             p == acc.pending
  <2>1. /\ acc.blocks \in Seq(ViewBlock(W)) /\ p \in Seq(ViewItem(W))
        /\ x.kind \in {"thought", "tool", "body", "blank", "turn-end"}
    BY ViewItemIsTyped DEF Blocking
  <2>2. CASE x.kind \in {"thought", "tool"}
    <3>1. r.blocks = acc.blocks /\ r.pending = Append(p, x)
      BY <2>2, BlockStep
    <3>2. \A i \in DOMAIN Append(p, x) : Append(p, x)[i].id \in I
      BY <1>4, <2>1
    <3>3. Append(p, x) # << >> => Head(Append(p, x)).id \in I
      <4>1. 1 \in DOMAIN Append(p, x) /\ Head(Append(p, x)) = Append(p, x)[1]
        BY <2>1
      <4> QED
        BY <3>2, <4>1
    <3>4. Held(Append(p, x)) \subseteq I
      BY <3>3 DEF Held
    <3>5. IdsOf(acc.blocks) \subseteq I
      BY <1>4 DEF IdsAt
    <3> HIDE DEF r
    <3> QED
      BY <3>1, <3>2, <3>4, <3>5 DEF IdsAt, r
  <2>3. CASE x.kind = "blank"
    BY <1>4, <2>3, BlockStep
  <2>4. CASE x.kind \in {"body", "turn-end"}
    <3>1. IdsOf(r.blocks) = IdsAt(acc) /\ r.pending = << >>
      BY <2>4, BlockStep
    <3>2. Held(<< >>) = {} /\ DOMAIN << >> = {}
      BY DEF Held
    <3> HIDE DEF r
    <3> QED
      BY <1>4, <3>1, <3>2 DEF IdsAt, r
  <2> QED
    BY <2>1, <2>2, <2>3, <2>4
<1>5. ASSUME NEW k \in 0..(n - 1), k \in S
      PROVE  k + 1 \in S
  <2>1. k + 1 \in 0..n /\ k \in 0..n /\ k + 1 \in 1..n /\ (k + 1) - 1 = k
    BY <1>1
  <2>2. g[k] \in Blocking(W) /\ q[k + 1] \in ViewItem(W) /\ q[k + 1].id \in I
    BY <1>1, <2>1
  <2>3. g[k + 1] = IntoBlocks(g[k], q[k + 1])
    BY <1>2, <2>1
  <2>4. Within(g[k])
    BY <1>5
  <2> HIDE DEF Within
  <2>5. Within(g[k + 1])
    BY <1>4, <2>2, <2>3, <2>4
  <2> QED
    BY <2>1, <2>5
<1> HIDE DEF S
<1>6. 0..n \subseteq S
  BY <1>1, <1>3, <1>5, InductionTo
<1>7. n \in S /\ Blocked(q) \in Blocking(W)
  BY <1>1, <1>2, <1>6
<1>8. IdsAt(Blocked(q)) \subseteq I
  BY <1>2, <1>7 DEF S
<1> QED
  BY <1>7, <1>8, NamesOfColumn DEF I

(* What is drawn, and what the user has clicked, is a segment of its       *)
(* column; a name of one session is not found in another; and the last     *)
(* click on a name is what the table holds.                                *)
ViewsInv(W) ==
  /\ selected \in Tabs
  /\ DOMAIN column = Tabs /\ DOMAIN choice = Tabs
  /\ \A s \in Tabs : /\ column[s] \in Seq(ViewItem(W))
                     /\ \A i \in DOMAIN column[s] : column[s][i].id[1] \in {s, NoTab}
  /\ DOMAIN drawn \subseteq SegmentIds(column[selected])
  /\ \A s \in Tabs : \A b \in DOMAIN choice[s] :
       /\ b \in SegmentIds(column[s])
       /\ b \in touched /\ b \in DOMAIN openState /\ b \in DOMAIN clicked
       /\ clicked[b] = s => openState[b] = choice[s][b]
       /\ b[1] # NoTab => clicked[b] = s

LEMMA ViewsInitial ==
  ASSUME NEW W, column = [s \in Tabs |-> << >>], ViewInit
  PROVE  ViewsInv(W)
<1>1. /\ selected \in Tabs /\ DOMAIN drawn = {} /\ DOMAIN choice = Tabs
      /\ \A s \in Tabs : DOMAIN choice[s] = {}
  BY DEF ViewInit
<1>2. DOMAIN column = Tabs
      /\ \A s \in Tabs : column[s] \in Seq(ViewItem(W)) /\ DOMAIN column[s] = {}
  BY EmptySeq
<1> QED
  BY <1>1, <1>2 DEF ViewsInv

(* The names of the segments of a session are its own or of none. *)
LEMMA NamesOfSession ==
  ASSUME NEW W, ViewsInv(W), NEW s \in Tabs, NEW b \in SegmentIds(column[s])
  PROVE  b[1] \in {s, NoTab}
<1>1. column[s] \in Seq(ViewItem(W))
      /\ \A i \in DOMAIN column[s] : column[s][i].id[1] \in {s, NoTab}
  BY DEF ViewsInv
<1> QED
  BY <1>1, NamesOfItems

(* A column that continues keeps the invariant. *)
LEMMA ColumnKeeps ==
  ASSUME NEW W, Said \subseteq W, ViewsInv(W), NEW s \in Tabs, NEW c \in Seq(ViewItem(W)),
         column' = [column EXCEPT ![s] = c], Continues(column[s], c),
         \A i \in DOMAIN c : c[i].id[1] \in {s, NoTab},
         UNCHANGED <<selected, openState, touched, drawn, ran, due, choice, clicked>>
  PROVE  ViewsInv(W)'
<1>1. column[s] \in Seq(ViewItem(W)) /\ DOMAIN column = Tabs
  BY DEF ViewsInv
<1>2. SegmentIds(column[s]) \subseteq SegmentIds(c)
  BY <1>1, SegmentsStay
<1>3. DOMAIN column' = Tabs /\ \A t \in Tabs : column'[t] = IF t = s THEN c ELSE column[t]
  BY <1>1
<1>4. \A t \in Tabs : SegmentIds(column[t]) \subseteq SegmentIds(column'[t])
  BY <1>2, <1>3
<1>5. \A t \in Tabs : /\ column'[t] \in Seq(ViewItem(W))
                     /\ \A i \in DOMAIN column'[t] : column'[t][i].id[1] \in {t, NoTab}
  BY <1>3 DEF ViewsInv
<1>6. SegmentIds(column[selected])' = SegmentIds(column'[selected'])
      /\ \A t \in Tabs : SegmentIds(column[t])' = SegmentIds(column'[t])
  BY DEF SegmentIds, Segments
<1>7. DOMAIN drawn' \subseteq SegmentIds(column[selected])'
  BY <1>4, <1>6 DEF ViewsInv
<1>8. ASSUME NEW t \in Tabs, NEW b \in DOMAIN choice'[t]
      PROVE  /\ b \in SegmentIds(column[t])'
             /\ b \in touched' /\ b \in DOMAIN openState' /\ b \in DOMAIN clicked'
             /\ clicked'[b] = t => openState'[b] = choice'[t][b]
             /\ b[1] # NoTab => clicked'[b] = t
  BY <1>4, <1>6 DEF ViewsInv
<1>9. selected' \in Tabs /\ DOMAIN choice' = Tabs
  BY DEF ViewsInv
<1> QED
  BY <1>3, <1>5, <1>7, <1>8, <1>9 DEF ViewsInv

LEMMA ItemArrivesKeeps ==
  ASSUME NEW W, Said \subseteq W, ViewsInv(W), NEW s \in Tabs, ItemArrives(s)
  PROVE  ViewsInv(W)'
<1>1. /\ column[s] \in Seq(ViewItem(W)) /\ Len(column[s]) \in Nat /\ DOMAIN column = Tabs
      /\ \A i \in DOMAIN column[s] : column[s][i].id[1] \in {s, NoTab}
      /\ UNCHANGED <<selected, openState, touched, drawn, ran, due, choice, clicked>>
  BY DEF ViewsInv, ItemArrives
<1>2. PICK item \in ViewItem(W) : /\ column' = [column EXCEPT ![s] = Append(column[s], item)]
                                 /\ item.id[1] \in {s, NoTab}
  <2>1. Len(column[s]) + 1 \in Nat
    BY <1>1
  <2>2. /\ << >> \in Seq(ViewStat(W)) /\ << >> \in Seq(ViewDiff(W)) /\ << >> \in Seq(Counts)
        /\ "execute" \in W /\ "in_progress" \in W /\ NotSet \in W /\ NoPath \in W
    BY EmptySeq DEF Said
  <2>3. Command("in_progress") \in ViewCard(W)
    BY <2>2 DEF Command, ViewCard
  <2>4. \A n \in Nat, k \in {"body", "blank"} :
          /\ Thought(n) \in ViewItem(W) /\ Thought(n).id[1] = NoTab
          /\ Tool(s, n, Command("in_progress")) \in ViewItem(W)
          /\ Tool(s, n, Command("in_progress")).id[1] = s
          /\ Other(n, k) \in ViewItem(W) /\ Other(n, k).id[1] = NoTab
    <3>1. \A n \in Nat, k \in {"body", "blank"} :
            /\ Thought(n) \in ViewItem(W) /\ Other(n, k) \in ViewItem(W)
            /\ Tool(s, n, Command("in_progress")) \in ViewItem(W)
      BY <2>3 DEF ViewItem
    <3>2. \A n, k, c : /\ Thought(n).id[1] = NoTab /\ Other(n, k).id[1] = NoTab
                       /\ Tool(s, n, c).id[1] = s
      BY DEF Thought, Tool, Other
    <3> QED
      BY <3>1, <3>2
  <2> DEFINE N == Len(column[s]) + 1
             run == Command("in_progress")
  <2>5. PICK item \in {Thought(N), Tool(s, N, run), Other(N, "body"), Other(N, "blank")} :
          column' = [column EXCEPT ![s] = Append(column[s], item)]
    BY <1>1 DEF ItemArrives
  <2>6. N \in Nat
    BY <2>1
  <2> HIDE DEF N, run
  <2>7. item \in ViewItem(W) /\ item.id[1] \in {s, NoTab}
    BY <2>4, <2>5, <2>6 DEF run
  <2> QED
    BY <2>5, <2>7
<1> DEFINE c == Append(column[s], item)
<1>3. /\ c \in Seq(ViewItem(W)) /\ Len(column[s]) <= Len(c)
      /\ \A k \in DOMAIN column[s] : c[k] = column[s][k]
      /\ \A k \in DOMAIN c : k \in DOMAIN column[s] \/ c[k] = item
  BY <1>1
<1> HIDE DEF c
<1>4. Continues(column[s], c)
  BY <1>3 DEF Continues
<1>5. \A i \in DOMAIN c : c[i].id[1] \in {s, NoTab}
  BY <1>1, <1>2, <1>3
<1>6. column' = [column EXCEPT ![s] = c]
  BY <1>2 DEF c
<1> QED
  BY <1>1, <1>3, <1>4, <1>5, <1>6, ColumnKeeps

(* One item of the column changes, and keeps its name. *)
LEMMA ChangedKeeps ==
  ASSUME NEW W, Said \subseteq W, ViewsInv(W), NEW s \in Tabs,
         NEW n \in DOMAIN column[s], NEW item \in ViewItem(W), item.id = column[s][n].id,
         item.kind = column[s][n].kind \/ (n = Len(column[s]) /\ column[s][n].kind = "blank"),
         column' = [column EXCEPT ![s] = [column[s] EXCEPT ![n] = item]],
         UNCHANGED <<selected, openState, touched, drawn, ran, due, choice, clicked>>
  PROVE  ViewsInv(W)'
<1> DEFINE c == [column[s] EXCEPT ![n] = item]
<1>1. /\ column[s] \in Seq(ViewItem(W)) /\ DOMAIN column = Tabs
      /\ \A i \in DOMAIN column[s] : column[s][i].id[1] \in {s, NoTab}
  BY DEF ViewsInv
<1>2. c \in Seq(ViewItem(W)) /\ Len(c) = Len(column[s]) /\ DOMAIN c = DOMAIN column[s]
  BY <1>1
<1>3. \A k \in DOMAIN column[s] : c[k] = IF k = n THEN item ELSE column[s][k]
  BY <1>1
<1> HIDE DEF c
<1>4. Continues(column[s], c)
  BY <1>1, <1>2, <1>3 DEF Continues
<1>5. \A i \in DOMAIN c : c[i].id[1] \in {s, NoTab}
  BY <1>1, <1>2, <1>3
<1>6. column' = [column EXCEPT ![s] = c]
  BY DEF c
<1> QED
  BY <1>2, <1>4, <1>5, <1>6, ColumnKeeps

LEMMA TextArrivesKeeps ==
  ASSUME NEW W, Said \subseteq W, ViewsInv(W), NEW s \in Tabs, TextArrives(s)
  PROVE  ViewsInv(W)'
<1> DEFINE n == Len(column[s])
           item == [column[s][n] EXCEPT !.kind = "body"]
<1>1. /\ column[s] \in Seq(ViewItem(W)) /\ n \in DOMAIN column[s]
      /\ column[s][n].kind = "blank" /\ column[s][n] \in ViewItem(W)
      /\ s \in DOMAIN column
  BY ElementOfSeq DEF ViewsInv, TextArrives, Last
<1>2. PICK i \in Nat : column[s][n] = Other(i, "blank")
  BY <1>1 DEF ViewItem, Thought, Tool, Other
<1>3. item = Other(i, "body")
  BY <1>2 DEF Other
<1>4. item \in ViewItem(W) /\ item.id = column[s][n].id
  BY <1>2, <1>3 DEF ViewItem, Other
<1>5. column' = [column EXCEPT ![s] = [column[s] EXCEPT ![n] = item]]
  BY <1>1 DEF TextArrives
<1> HIDE DEF item
<1> QED
  BY <1>1, <1>4, <1>5, ChangedKeeps DEF TextArrives

LEMMA ToolEndsKeeps ==
  ASSUME NEW W, Said \subseteq W, ViewsInv(W), NEW s \in Tabs, NEW n \in Ids, ToolEnds(s, n)
  PROVE  ViewsInv(W)'
<1>1. /\ column[s] \in Seq(ViewItem(W)) /\ n \in DOMAIN column[s]
      /\ column[s][n].kind = "tool" /\ column[s][n] \in ViewItem(W) /\ s \in DOMAIN column
      /\ UNCHANGED <<selected, openState, touched, drawn, ran, due, choice, clicked>>
  BY ElementOfSeq DEF ViewsInv, ToolEnds, IsTool
<1>2. PICK t \in Tabs, i \in Nat, card \in ViewCard(W) : column[s][n] = Tool(t, i, card)
  BY <1>1 DEF ViewItem, Thought, Tool, Other
<1>3. \A st \in W : /\ [card EXCEPT !.status = st] \in ViewCard(W)
                         /\ [card EXCEPT !.local = st] \in ViewCard(W)
  BY DEF ViewCard
<1>4. \A c \in ViewCard(W) : /\ Tool(t, i, c) \in ViewItem(W)
                         /\ Tool(t, i, c).id = column[s][n].id
                         /\ Tool(t, i, c).kind = column[s][n].kind
  BY <1>2 DEF ViewItem, Tool
<1>5. PICK item :
        /\ item \in ViewItem(W) /\ item.id = column[s][n].id /\ item.kind = column[s][n].kind
        /\ column' = [column EXCEPT ![s] = [column[s] EXCEPT ![n] = item]]
  <2>1. CASE \E st \in {"completed", "failed"} :
               column' = [column EXCEPT ![s][n].card.status = st]
    <3>1. PICK st \in W : column' = [column EXCEPT ![s][n].card.status = st]
      BY <2>1 DEF Said
    <3>2. [column[s][n] EXCEPT !.card.status = st] = Tool(t, i, [card EXCEPT !.status = st])
      BY <1>2 DEF Tool
    <3>3. column' = [column EXCEPT ![s] =
                       [column[s] EXCEPT ![n] = Tool(t, i, [card EXCEPT !.status = st])]]
      BY <1>1, <3>1, <3>2
    <3> QED
      BY <1>3, <1>4, <3>3
  <2>2. CASE column' = [column EXCEPT ![s][n].card.local = "stopped"]
    <3>1. [column[s][n] EXCEPT !.card.local = "stopped"]
            = Tool(t, i, [card EXCEPT !.local = "stopped"])
      BY <1>2 DEF Tool
    <3>2. column' = [column EXCEPT ![s] =
                       [column[s] EXCEPT ![n] = Tool(t, i, [card EXCEPT !.local = "stopped"])]]
      BY <1>1, <2>2, <3>1
    <3>3. [card EXCEPT !.local = "stopped"] \in ViewCard(W)
      BY <1>3 DEF Said
    <3> QED
      BY <1>4, <3>2, <3>3
  <2> QED
    BY <2>1, <2>2 DEF ToolEnds
<1> QED
  BY <1>1, <1>5, ChangedKeeps

(* What is drawn are the segments of the column that is shown. *)
LEMMA RedrawKeeps ==
  ASSUME NEW W, ViewsInv(W), NEW s \in Tabs, Redraw(s), selected' = s
  PROVE  ViewsInv(W)'
<1>1. UNCHANGED <<column, openState, touched, choice, clicked>>
  BY DEF Redraw
<1>2. DOMAIN drawn' = SegmentIds(column[s])
  BY DEF Redraw, Looks, SegmentIds
<1>3. SegmentIds(column[selected])' = SegmentIds(column[s])
      /\ \A t \in Tabs : SegmentIds(column[t])' = SegmentIds(column[t])
  BY <1>1 DEF SegmentIds, Segments
<1> QED
  BY <1>1, <1>2, <1>3 DEF ViewsInv

LEMMA FoldKeeps ==
  ASSUME NEW W, Said \subseteq W, ViewsInv(W), NEW b, Fold(b)
  PROVE  ViewsInv(W)'
<1>1. UNCHANGED <<column, selected, touched, drawn, choice, clicked>>
  BY DEF Fold
<1>2. SegmentIds(column[selected])' = SegmentIds(column[selected])
      /\ \A t \in Tabs : SegmentIds(column[t])' = SegmentIds(column[t])
  BY <1>1 DEF SegmentIds, Segments
<1>3. \A k \in touched : /\ k \in DOMAIN openState => k \in DOMAIN openState'
                         /\ k \in DOMAIN openState => openState'[k] = openState[k]
  BY DEF Fold, AutoOpen, Put
<1> QED
  BY <1>1, <1>2, <1>3 DEF ViewsInv

LEMMA ToggleKeeps ==
  ASSUME NEW W, Said \subseteq W, ViewsInv(W), NEW b, Toggle(b)
  PROVE  ViewsInv(W)'
<1> DEFINE v == ~IsOpen(b)
<1>1. /\ UNCHANGED <<column, selected, drawn>> /\ touched' = touched \cup {b}
      /\ b \in SegmentIds(column[selected]) /\ selected \in Tabs /\ DOMAIN choice = Tabs
  BY DEF Toggle, ViewsInv
<1>2. SegmentIds(column[selected])' = SegmentIds(column[selected])
      /\ \A t \in Tabs : SegmentIds(column[t])' = SegmentIds(column[t])
  BY <1>1 DEF SegmentIds, Segments
<1>3. /\ openState' = Put(openState, b, v) /\ clicked' = Put(clicked, b, selected)
      /\ choice' = [choice EXCEPT ![selected] = Put(choice[selected], b, v)]
  BY <1>1 DEF Toggle
<1> HIDE DEF v
<1>4. /\ DOMAIN openState' = DOMAIN openState \cup {b}
      /\ DOMAIN clicked' = DOMAIN clicked \cup {b}
      /\ openState'[b] = v /\ clicked'[b] = selected
      /\ \A k \in DOMAIN openState : k # b => openState'[k] = openState[k]
      /\ \A k \in DOMAIN clicked : k # b => clicked'[k] = clicked[k]
  BY <1>3 DEF Put
<1>5. /\ DOMAIN choice' = Tabs
      /\ \A t \in Tabs : t # selected => choice'[t] = choice[t]
      /\ DOMAIN choice'[selected] = DOMAIN choice[selected] \cup {b}
      /\ choice'[selected][b] = v
      /\ \A k \in DOMAIN choice[selected] : k # b => choice'[selected][k] = choice[selected][k]
  BY <1>1, <1>3 DEF Put
<1>6. b[1] \in {selected, NoTab}
  BY <1>1, NamesOfSession
<1>7. ASSUME NEW s \in Tabs, NEW k \in DOMAIN choice'[s]
      PROVE  /\ k \in SegmentIds(column[s])
             /\ k \in touched' /\ k \in DOMAIN openState' /\ k \in DOMAIN clicked'
             /\ clicked'[k] = s => openState'[k] = choice'[s][k]
             /\ k[1] # NoTab => clicked'[k] = s
  <2>1. CASE k # b
    <3>1. k \in DOMAIN choice[s] /\ choice'[s][k] = choice[s][k]
      BY <1>5, <1>7, <2>1
    <3> QED
      BY <1>1, <1>4, <2>1, <3>1 DEF ViewsInv
  <2>2. CASE k = b /\ s = selected
    BY <1>1, <1>4, <1>5, <2>2
  <2>3. CASE k = b /\ s # selected
    <3>1. b \in DOMAIN choice[s]
      BY <1>5, <1>7, <2>3
    <3>2. b \in SegmentIds(column[s])
      BY <3>1 DEF ViewsInv
    <3>3. b[1] \in {s, NoTab}
      BY <3>2, NamesOfSession
    <3>4. b[1] = NoTab
      BY <1>6, <2>3, <3>3
    <3> QED
      BY <1>1, <1>4, <2>3, <3>2, <3>4
  <2> QED
    BY <2>1, <2>2, <2>3
<1> QED
  BY <1>1, <1>2, <1>5, <1>7 DEF ViewsInv

LEMMA ViewsStep ==
  ASSUME NEW W, Said \subseteq W, ViewsInv(W), [ViewNext]_viewVars
  PROVE  ViewsInv(W)'
<1>1. CASE UNCHANGED viewVars
  <2>1. UNCHANGED <<column, selected, openState, touched, drawn, choice, clicked>>
    BY <1>1 DEF viewVars
  <2>2. SegmentIds(column[selected])' = SegmentIds(column[selected])
        /\ \A t \in Tabs : SegmentIds(column[t])' = SegmentIds(column[t])
    BY <2>1 DEF SegmentIds, Segments
  <2> QED
    BY <2>1, <2>2 DEF ViewsInv
<1>2. CASE \E s \in Tabs, n \in Ids : ToolEnds(s, n)
  BY <1>2, ToolEndsKeeps
<1>3. CASE \E s \in Tabs : ItemArrives(s) \/ TextArrives(s)
  BY <1>3, ItemArrivesKeeps, TextArrivesKeeps
<1>4. CASE \E b \in Names : Fold(b) \/ Toggle(b)
  BY <1>4, FoldKeeps, ToggleKeeps
<1>5. CASE Draw
  <2>1. selected \in Tabs
    BY DEF ViewsInv
  <2> QED
    BY <1>5, <2>1, RedrawKeeps DEF Draw
<1>6. CASE \E s \in Tabs : Show(s)
  BY <1>6, RedrawKeeps DEF Show
<1> QED
  BY <1>1, <1>2, <1>3, <1>4, <1>5, <1>6 DEF ViewNext

(* A segment the user has clicked stays a segment and stays as the user    *)
(* left it, whatever arrives, ends, folds or is shown instead, but for a   *)
(* click on a segment that has the same name in another session, which     *)
(* only one that begins with a thought can have (viewstate.ts, toggleOpen, *)
(* autoOpen; segments.ts, splitBlocks).                                    *)
THEOREM ChoiceStandsHolds == ViewSpec => []ChoiceStands
<1>1. column = [s \in Tabs |-> << >>] /\ ViewInit => ViewsInv(Said)
  BY ViewsInitial
<1>2. ViewsInv(Said) /\ [ViewNext]_viewVars => ViewsInv(Said)'
  BY ViewsStep
<1>3. ViewsInv(Said) => ChoiceStands
  BY DEF ViewsInv, ChoiceStands, SegmentIds
<1> QED
  BY <1>1, <1>2, <1>3, PTL DEF ViewSpec
-----------------------------------------------------------------------------
(***************************************************************************)
(* Sums and selections over lists                                          *)
(***************************************************************************)

(* A list that is empty and lists that grow at the end are all there are. *)
LEMMA ListInduction ==
  ASSUME NEW A, NEW S, << >> \in S,
         \A q \in Seq(A), x \in A : q \in S => Append(q, x) \in S
  PROVE  Seq(A) \subseteq S
<1> SUFFICES ASSUME NEW q \in Seq(A)
             PROVE  q \in S
  OBVIOUS
<1> DEFINE n == Len(q)
           T == {k \in 0..n : SubSeq(q, 1, k) \in S}
<1>1. n \in Nat /\ q \in [1..n -> A]
  OBVIOUS
<1>2. 0 \in T
  <2>1. SubSeq(q, 1, 0) = << >>
    OBVIOUS
  <2>2. 0 \in 0..n
    BY <1>1
  <2> QED
    BY <2>1, <2>2
<1>3. ASSUME NEW k \in 0..(n - 1), k \in T
      PROVE  k + 1 \in T
  <2>1. k + 1 \in 1..n /\ k + 1 \in 0..n /\ k \in Nat
    BY <1>1
  <2>2. SubSeq(q, 1, k) \in Seq(A) /\ q[k + 1] \in A
    BY <1>1, <2>1
  <2>3. SubSeq(q, 1, k + 1) = Append(SubSeq(q, 1, k), q[k + 1])
    BY <1>1, <2>1
  <2> QED
    BY <1>3, <2>1, <2>2, <2>3
<1> HIDE DEF T
<1>4. 0..n \subseteq T
  BY <1>1, <1>2, <1>3, InductionTo
<1>5. n \in T
  BY <1>1, <1>4
<1>6. SubSeq(q, 1, n) = q
  BY <1>1
<1> QED
  BY <1>5, <1>6 DEF T

(* A list that is not empty is what it was before, and its last. *)
LEMMA FrontAndLast ==
  ASSUME NEW A, NEW q \in Seq(A), q # << >>
  PROVE  \E p \in Seq(A), x \in A : q = Append(p, x)
<1> DEFINE S == {r \in Seq(A) : r # << >> => \E p \in Seq(A), x \in A : r = Append(p, x)}
<1>1. << >> \in S
  BY EmptySeq
<1>2. ASSUME NEW r \in Seq(A), NEW x \in A
      PROVE  Append(r, x) \in S
  <2> DEFINE s == Append(r, x)
  <2>1. s \in Seq(A)
    OBVIOUS
  <2>2. \E p \in Seq(A), y \in A : s = Append(p, y)
    OBVIOUS
  <2> HIDE DEF s
  <2>3. s \in S
    BY <2>1, <2>2
  <2> QED
    BY <2>3 DEF s
<1> HIDE DEF S
<1>3. Seq(A) \subseteq S
  BY <1>1, <1>2, ListInduction
<1> QED
  BY <1>3 DEF S

(* A function of places is defined by what it is at 0 and by each step. *)
LEMMA Recursion ==
  ASSUME NEW A, NEW B, NEW F, NEW base, NEW n, NEW q, Folding(A, B, F, base, n, q)
  PROVE  \E g \in [0..n -> A] : Stepwise(g, F, base, n, q)
<1>1. PICK it : Unrolled(it, A, F, base, n, q)
  BY FoldDefined
<1> QED
  BY <1>1, FoldRun

(* The values h of a fold of r are those of g and one more, when r is q    *)
(* and one more.                                                           *)
Prolongs(h, g, F, base, n, r, q) ==
  /\ n \in Nat /\ \A k \in 1..n : r[k] = q[k]
  /\ Stepwise(g, F, base, n, q) /\ Stepwise(h, F, base, n + 1, r)

(* The last value of h is made from the last of g. *)
GoesOnBy(h, g, F, n, r) == h[n + 1] = F[<<g[n], r[n + 1]>>]

(* A fold over one thing more goes on from where the fold without it       *)
(* ended.                                                                  *)
LEMMA OneMoreStep ==
  ASSUME NEW F, NEW base, NEW n, NEW q, NEW r, NEW g, NEW h, Prolongs(h, g, F, base, n, r, q)
  PROVE  GoesOnBy(h, g, F, n, r)
<1> USE DEF Prolongs, GoesOnBy
<1> DEFINE T == {k \in 0..n : h[k] = g[k]}
<1>1. 0 \in T
  BY DEF Stepwise
<1>2. ASSUME NEW k \in 0..(n - 1), k \in T
      PROVE  k + 1 \in T
  <2>1. k + 1 \in 1..n /\ k + 1 \in 0..n /\ k + 1 \in 1..(n + 1) /\ (k + 1) - 1 = k
    OBVIOUS
  <2>2. g[k + 1] = F[<<g[k], q[k + 1]>>] /\ h[k + 1] = F[<<h[k], r[k + 1]>>]
    BY <2>1 DEF Stepwise
  <2> QED
    BY <1>2, <2>1, <2>2
<1> HIDE DEF T
<1>3. 0..n \subseteq T
  BY <1>1, <1>2, InductionTo
<1>4. h[n] = g[n]
  BY <1>3 DEF T
<1>5. n + 1 \in 1..(n + 1) /\ (n + 1) - 1 = n
  OBVIOUS
<1>6. h[n + 1] = F[<<h[n], r[n + 1]>>]
  BY <1>5 DEF Stepwise
<1> QED
  BY <1>4, <1>6

(* Two numbers added up, and two lists put together, as functions. *)
Plus   == [p \in Nat \X Nat |-> p[1] + p[2]]
Cat(A) == [p \in Seq(A) \X Seq(A) |-> p[1] \o p[2]]

(* The numbers of f at the places of I, and 0 elsewhere; and what q has    *)
(* there, each as a list.                                                  *)
Masked(f, I) == [k \in 1..Len(f) |-> IF k \in I THEN f[k] ELSE 0]
Chosen(q, I) == [k \in 1..Len(q) |-> IF k \in I THEN <<q[k]>> ELSE << >>]

(* SumOver adds the numbers one by one. *)
LEMMA SumRuns ==
  ASSUME NEW f \in Seq(Nat), NEW I
  PROVE  \E g \in [0..Len(f) -> Nat] :
           Stepwise(g, Plus, 0, Len(f), Masked(f, I)) /\ SumOver(f, I) = g[Len(f)]
<1> DEFINE n == Len(f)
           Run(sum) == [k \in 0..Len(f) |->
                          IF k = 0 THEN 0 ELSE IF k \in I THEN sum[k - 1] + f[k] ELSE sum[k - 1]]
           c == CHOOSE sum : sum = Run(sum)
<1>1. n \in Nat /\ \A k \in 1..n : f[k] \in Nat
  OBVIOUS
<1>2. Folding(Nat, Nat, Plus, 0, n, Masked(f, I))
  BY <1>1 DEF Folding, Plus, Masked
<1>3. PICK g \in [0..n -> Nat] : Stepwise(g, Plus, 0, n, Masked(f, I))
  BY <1>2, Recursion
<1>4. ASSUME NEW k \in 1..n
      PROVE  g[k] = IF k \in I THEN g[k - 1] + f[k] ELSE g[k - 1]
  <2>0. k - 1 \in 0..n
    BY <1>1
  <2>1. k - 1 \in 0..n /\ g[k - 1] \in Nat /\ f[k] \in Nat
    BY <1>1, <2>0
  <2>2. g[k] = Plus[<<g[k - 1], Masked(f, I)[k]>>]
    BY <1>3 DEF Stepwise
  <2>3. Masked(f, I)[k] = IF k \in I THEN f[k] ELSE 0
    BY DEF Masked
  <2> QED
    BY <2>1, <2>2, <2>3 DEF Plus
<1>5. g = Run(g)
  BY <1>1, <1>3, <1>4 DEF Stepwise
<1>6. c = Run(c)
  BY <1>5
<1>7. SumOver(f, I) = c[n]
  BY DEF SumOver
<1> HIDE DEF c
<1> DEFINE T == {k \in 0..n : c[k] = g[k]}
<1>8. 0 \in T
  BY <1>1, <1>3, <1>6 DEF Stepwise
<1>9. ASSUME NEW k \in 0..(n - 1), k \in T
      PROVE  k + 1 \in T
  <2>1. k + 1 \in 1..n /\ k + 1 \in 0..n /\ (k + 1) - 1 = k /\ k + 1 # 0
    BY <1>1
  <2> QED
    BY <1>4, <1>6, <1>9, <2>1
<1> HIDE DEF T
<1>10. 0..n \subseteq T
  BY <1>1, <1>8, <1>9, InductionTo
<1>11. c[n] = g[n]
  BY <1>1, <1>10 DEF T
<1> QED
  BY <1>3, <1>7, <1>11

(* The sum of no numbers, and of one number more. *)
LEMMA SumLaws ==
  ASSUME NEW f \in Seq(Nat), NEW I
  PROVE  /\ SumOver(<< >>, I) = 0 /\ SumOver(f, I) \in Nat
         /\ \A v \in Nat : SumOver(Append(f, v), I) =
                             SumOver(f, I) + (IF Len(f) + 1 \in I THEN v ELSE 0)
<1>1. SumOver(<< >>, I) = 0
  <2> DEFINE e == << >>
  <2>1. e \in Seq(Nat) /\ Len(e) = 0
    BY EmptySeq
  <2> HIDE DEF e
  <2>2. PICK g : Stepwise(g, Plus, 0, Len(e), Masked(e, I)) /\ SumOver(e, I) = g[Len(e)]
    BY <2>1, SumRuns
  <2>3. SumOver(e, I) = 0
    BY <2>1, <2>2 DEF Stepwise
  <2> QED
    BY <2>3 DEF e
<1>2. PICK g : /\ g \in [0..Len(f) -> Nat] /\ SumOver(f, I) = g[Len(f)]
               /\ Stepwise(g, Plus, 0, Len(f), Masked(f, I))
  BY SumRuns
<1>3. Len(f) \in Nat /\ SumOver(f, I) \in Nat
  BY <1>2
<1>4. ASSUME NEW v \in Nat
      PROVE  SumOver(Append(f, v), I) = SumOver(f, I) + (IF Len(f) + 1 \in I THEN v ELSE 0)
  <2> DEFINE r == Append(f, v)
             n == Len(f)
  <2>1. /\ r \in Seq(Nat) /\ Len(r) = n + 1 /\ n \in Nat /\ n + 1 \in 1..(n + 1)
        /\ r[n + 1] = v /\ \A k \in 1..n : r[k] = f[k] /\ k \in 1..(n + 1)
    OBVIOUS
  <2> HIDE DEF r, n
  <2>2. PICK h : Stepwise(h, Plus, 0, n + 1, Masked(r, I)) /\ SumOver(r, I) = h[n + 1]
    BY <2>1, SumRuns
  <2>3. \A k \in 1..n : Masked(r, I)[k] = Masked(f, I)[k]
    BY <2>1 DEF Masked, n
  <2>4. h[n + 1] = Plus[<<g[n], Masked(r, I)[n + 1]>>]
    <3>1. Stepwise(g, Plus, 0, n, Masked(f, I))
      BY <1>2 DEF n
    <3>2. Prolongs(h, g, Plus, 0, n, Masked(r, I), Masked(f, I))
      BY <2>1, <2>2, <2>3, <3>1 DEF Prolongs
    <3>3. GoesOnBy(h, g, Plus, n, Masked(r, I))
      BY <3>2, OneMoreStep
    <3> QED
      BY <3>3 DEF GoesOnBy
  <2>5. Masked(r, I)[n + 1] = IF n + 1 \in I THEN v ELSE 0
    BY <2>1 DEF Masked
  <2>6. g[n] \in Nat /\ g[n] = SumOver(f, I)
    BY <1>2, <1>3 DEF n
  <2> QED
    BY <2>2, <2>4, <2>5, <2>6 DEF Plus, r, n
<1> QED
  BY <1>1, <1>3, <1>4

(* Sums that see the same numbers are the same. *)
LEMMA SumSees ==
  ASSUME NEW f \in Seq(Nat), NEW h \in Seq(Nat), NEW I, NEW J, Len(f) = Len(h),
         \A k \in 1..Len(f) : (IF k \in I THEN f[k] ELSE 0) = (IF k \in J THEN h[k] ELSE 0)
  PROVE  SumOver(f, I) = SumOver(h, J)
<1> DEFINE n == Len(f)
<1>1. Masked(f, I) = Masked(h, J)
  BY DEF Masked
<1>2. PICK g : Stepwise(g, Plus, 0, n, Masked(f, I)) /\ SumOver(f, I) = g[n]
  BY SumRuns
<1>3. PICK k : Stepwise(k, Plus, 0, n, Masked(f, I)) /\ SumOver(h, J) = k[n]
  BY <1>1, SumRuns
<1>4. n \in Nat
  OBVIOUS
<1> HIDE DEF n
<1>5. CASE n = 0
  BY <1>2, <1>3, <1>5 DEF Stepwise
<1>6. CASE n # 0
  <2>1. n - 1 \in Nat /\ (n - 1) + 1 = n /\ n \in 1..n
    BY <1>4, <1>6
  <2>2. Stepwise(g, Plus, 0, n - 1, Masked(f, I))
    BY <1>2, <2>1 DEF Stepwise
  <2>3. k[n] = Plus[<<g[n - 1], Masked(f, I)[n]>>]
    <3> DEFINE m == n - 1
    <3>1. m \in Nat /\ n = m + 1 /\ Stepwise(g, Plus, 0, m, Masked(f, I))
      BY <2>1, <2>2
    <3>2. Stepwise(k, Plus, 0, m + 1, Masked(f, I))
      BY <1>3, <3>1
    <3> HIDE DEF m
    <3>3. Prolongs(k, g, Plus, 0, m, Masked(f, I), Masked(f, I))
      BY <3>1, <3>2 DEF Prolongs
    <3>4. GoesOnBy(k, g, Plus, m, Masked(f, I))
      BY <3>3, OneMoreStep
    <3> QED
      BY <3>1, <3>4 DEF m, GoesOnBy
  <2>4. g[n] = Plus[<<g[n - 1], Masked(f, I)[n]>>]
    BY <1>2, <2>1 DEF Stepwise
  <2> QED
    BY <1>2, <1>3, <2>3, <2>4
<1> QED
  BY <1>5, <1>6

(* Lists are put together to lists. *)
LEMMA CatIsFunction ==
  ASSUME NEW A
  PROVE  /\ Cat(A) \in [Seq(A) \X Seq(A) -> Seq(A)] /\ << >> \in Seq(A)
         /\ \A s \in Seq(A), u \in Seq(A) : Cat(A)[<<s, u>>] = s \o u
BY EmptySeq, ConcatProperties DEF Cat

(* A list and nothing, or one thing more. *)
LEMMA CatOne ==
  ASSUME NEW A, NEW s \in Seq(A), NEW x \in A
  PROVE  s \o << >> = s /\ s \o <<x>> = Append(s, x) /\ << >> \o s = s /\ <<x>> \in Seq(A)
OBVIOUS

(* Those takes what it is to take one by one. *)
LEMMA ThoseRuns ==
  ASSUME NEW A, NEW q \in Seq(A), NEW I
  PROVE  \E g \in [0..Len(q) -> Seq(A)] :
           Stepwise(g, Cat(A), << >>, Len(q), Chosen(q, I)) /\ Those(q, I) = g[Len(q)]
<1> DEFINE n == Len(q)
           Run(kept) == [k \in 0..Len(q) |->
                           IF k = 0 THEN << >>
                           ELSE IF k \in I THEN Append(kept[k - 1], q[k]) ELSE kept[k - 1]]
           c == CHOOSE kept : kept = Run(kept)
<1>1. n \in Nat /\ \A k \in 1..n : q[k] \in A
  OBVIOUS
<1>2. Folding(Seq(A), Seq(A), Cat(A), << >>, n, Chosen(q, I))
  <2>1. \A k \in 1..n : Chosen(q, I)[k] \in Seq(A)
    BY <1>1, CatIsFunction, CatOne DEF Chosen
  <2>2. Chosen(q, I) \in [1..n -> Seq(A)]
    BY <2>1 DEF Chosen
  <2> QED
    BY <1>1, <2>2, CatIsFunction DEF Folding
<1>3. PICK g \in [0..n -> Seq(A)] : Stepwise(g, Cat(A), << >>, n, Chosen(q, I))
  BY <1>2, Recursion
<1>4. ASSUME NEW k \in 1..n
      PROVE  g[k] = IF k \in I THEN Append(g[k - 1], q[k]) ELSE g[k - 1]
  <2>1. k - 1 \in 0..n
    BY <1>1
  <2>2. g[k - 1] \in Seq(A) /\ q[k] \in A
    BY <1>1, <2>1
  <2>3. g[k] = Cat(A)[<<g[k - 1], Chosen(q, I)[k]>>]
    BY <1>3 DEF Stepwise
  <2>4. Chosen(q, I)[k] = IF k \in I THEN <<q[k]>> ELSE << >>
    BY DEF Chosen
  <2> DEFINE s == g[k - 1]
             u == Chosen(q, I)[k]
  <2>5. s \in Seq(A) /\ u \in Seq(A)
    BY <2>2, <2>4, CatIsFunction, CatOne
  <2>6. g[k] = s \o u
    <3> HIDE DEF s, u
    <3>1. Cat(A)[<<s, u>>] = s \o u
      BY <2>5 DEF Cat
    <3> QED
      BY <2>3, <3>1 DEF s, u
  <2> QED
    BY <2>2, <2>4, <2>6, CatOne
<1>5. g = Run(g)
  <2>1. g[0] = << >>
    BY <1>3 DEF Stepwise
  <2>2. \A k \in 0..n : k # 0 => k \in 1..n
    BY <1>1
  <2>3. \A k \in 0..n :
          g[k] = IF k = 0 THEN << >> ELSE IF k \in I THEN Append(g[k - 1], q[k]) ELSE g[k - 1]
    BY <1>4, <2>1, <2>2
  <2> QED
    BY <2>3
<1>6. c = Run(c)
  BY <1>5
<1>7. Those(q, I) = c[n]
  BY DEF Those
<1> HIDE DEF c
<1> DEFINE T == {k \in 0..n : c[k] = g[k]}
<1>8. 0 \in T
  BY <1>1, <1>3, <1>6 DEF Stepwise
<1>9. ASSUME NEW k \in 0..(n - 1), k \in T
      PROVE  k + 1 \in T
  <2>1. k + 1 \in 1..n /\ k + 1 \in 0..n /\ (k + 1) - 1 = k /\ k + 1 # 0
    BY <1>1
  <2> QED
    BY <1>4, <1>6, <1>9, <2>1
<1> HIDE DEF T
<1>10. 0..n \subseteq T
  BY <1>1, <1>8, <1>9, InductionTo
<1>11. c[n] = g[n]
  BY <1>1, <1>10 DEF T
<1> QED
  BY <1>3, <1>7, <1>11

(* What is taken of a list, and of a list with one thing more. *)
LEMMA ThoseLaws ==
  ASSUME NEW A, NEW q \in Seq(A), NEW I
  PROVE  /\ Those(<< >>, I) = << >> /\ Those(q, I) \in Seq(A)
         /\ \A x \in A : \A J :
              J \cap 1..Len(q) = I \cap 1..Len(q) =>
                Those(Append(q, x), J) =
                  IF Len(q) + 1 \in J THEN Append(Those(q, I), x) ELSE Those(q, I)
<1>1. Those(<< >>, I) = << >>
  <2> DEFINE e == << >>
  <2>1. e \in Seq(A) /\ Len(e) = 0
    BY EmptySeq
  <2> HIDE DEF e
  <2>2. PICK g : Stepwise(g, Cat(A), << >>, Len(e), Chosen(e, I)) /\ Those(e, I) = g[Len(e)]
    BY <2>1, ThoseRuns
  <2>3. Those(e, I) = << >>
    BY <2>1, <2>2 DEF Stepwise
  <2> QED
    BY <2>3 DEF e
<1>2. PICK g : /\ g \in [0..Len(q) -> Seq(A)] /\ Those(q, I) = g[Len(q)]
               /\ Stepwise(g, Cat(A), << >>, Len(q), Chosen(q, I))
  BY ThoseRuns
<1>3. Len(q) \in Nat /\ Those(q, I) \in Seq(A)
  BY <1>2
<1>4. ASSUME NEW x \in A, NEW J, J \cap 1..Len(q) = I \cap 1..Len(q)
      PROVE  Those(Append(q, x), J) =
               IF Len(q) + 1 \in J THEN Append(Those(q, I), x) ELSE Those(q, I)
  <2> DEFINE r == Append(q, x)
             n == Len(q)
  <2>1. /\ r \in Seq(A) /\ Len(r) = n + 1 /\ n \in Nat /\ n + 1 \in 1..(n + 1)
        /\ r[n + 1] = x /\ \A k \in 1..n : r[k] = q[k] /\ k \in 1..(n + 1)
    OBVIOUS
  <2>0. J \cap 1..n = I \cap 1..n
    BY <1>4
  <2> HIDE DEF r, n
  <2>2. PICK h : Stepwise(h, Cat(A), << >>, n + 1, Chosen(r, J)) /\ Those(r, J) = h[n + 1]
    BY <2>1, ThoseRuns
  <2>3. \A k \in 1..n : Chosen(r, J)[k] = Chosen(q, I)[k]
    BY <2>0, <2>1 DEF Chosen, n
  <2>4. h[n + 1] = Cat(A)[<<g[n], Chosen(r, J)[n + 1]>>]
    <3>1. Stepwise(g, Cat(A), << >>, n, Chosen(q, I))
      BY <1>2 DEF n
    <3>2. Prolongs(h, g, Cat(A), << >>, n, Chosen(r, J), Chosen(q, I))
      BY <2>1, <2>2, <2>3, <3>1 DEF Prolongs
    <3>3. GoesOnBy(h, g, Cat(A), n, Chosen(r, J))
      BY <3>2, OneMoreStep
    <3> QED
      BY <3>3 DEF GoesOnBy
  <2>5. Chosen(r, J)[n + 1] = IF n + 1 \in J THEN <<x>> ELSE << >>
    BY <2>1 DEF Chosen
  <2>6. g[n] \in Seq(A) /\ g[n] = Those(q, I)
    BY <1>2, <1>3 DEF n
  <2> DEFINE s == g[n]
             u == Chosen(r, J)[n + 1]
  <2>7. s \in Seq(A) /\ u \in Seq(A) /\ s = Those(q, I)
    BY <2>5, <2>6, CatIsFunction, CatOne
  <2>8. Those(r, J) = s \o u
    <3> HIDE DEF s, u
    <3>1. Cat(A)[<<s, u>>] = s \o u
      BY <2>7 DEF Cat
    <3> QED
      BY <2>2, <2>4, <3>1 DEF s, u
  <2>9. s \o u = IF n + 1 \in J THEN Append(s, x) ELSE s
    <3> HIDE DEF s, u
    <3>1. u = IF n + 1 \in J THEN <<x>> ELSE << >>
      BY <2>5 DEF u
    <3> QED
      BY <2>7, <3>1, CatOne
  <2> QED
    BY <2>7, <2>8, <2>9 DEF n, r
<1> QED
  BY <1>1, <1>3, <1>4

(* FlattenSeq puts its lists together one by one. *)
LEMMA FlattenRuns ==
  ASSUME NEW A, NEW q \in Seq(Seq(A))
  PROVE  \E g \in [0..Len(q) -> Seq(A)] :
           Stepwise(g, Cat(A), << >>, Len(q), q) /\ FlattenSeq(q) = g[Len(q)]
<1> DEFINE n == Len(q)
           Run(flat) == [k \in 1..Len(q) |-> IF k = 1 THEN q[k] ELSE flat[k - 1] \o q[k]]
           c == CHOOSE flat : flat = Run(flat)
<1>1. n \in Nat /\ \A k \in 1..n : q[k] \in Seq(A)
  OBVIOUS
<1>2. Folding(Seq(A), Seq(A), Cat(A), << >>, n, q)
  <2>1. q \in [1..n -> Seq(A)]
    OBVIOUS
  <2> QED
    BY <1>1, <2>1, CatIsFunction DEF Folding
<1>3. PICK g \in [0..n -> Seq(A)] : Stepwise(g, Cat(A), << >>, n, q)
  BY <1>2, Recursion
<1>4. ASSUME NEW k \in 1..n
      PROVE  g[k] = IF k = 1 THEN q[k] ELSE g[k - 1] \o q[k]
  <2>1. k - 1 \in 0..n /\ k \in Nat
    BY <1>1
  <2>2. g[k - 1] \in Seq(A) /\ q[k] \in Seq(A)
    BY <1>1, <2>1
  <2>3. g[k] = Cat(A)[<<g[k - 1], q[k]>>]
    BY <1>3 DEF Stepwise
  <2>4. g[k] = g[k - 1] \o q[k]
    BY <2>2, <2>3, CatIsFunction
  <2>5. CASE k = 1
    <3>1. g[k - 1] = << >>
      BY <1>3, <2>5 DEF Stepwise
    <3>2. << >> \o q[k] = q[k]
      BY <2>2
    <3> QED
      BY <2>4, <2>5, <3>1, <3>2
  <2> QED
    BY <2>4, <2>5
<1>5. CASE n = 0
  <2>1. q = << >>
    BY <1>5, EmptySeq
  <2>2. FlattenSeq(q) = << >>
    BY <1>5, <2>1 DEF FlattenSeq
  <2> QED
    BY <1>3, <1>5, <2>2 DEF Stepwise
<1>6. CASE n # 0
  <2> DEFINE r == [k \in 1..n |-> g[k]]
  <2>1. r = Run(r)
    <3>1. ASSUME NEW k \in 1..n
          PROVE  r[k] = IF k = 1 THEN q[k] ELSE r[k - 1] \o q[k]
      <4>1. k # 1 => k - 1 \in 1..n
        BY <1>1
      <4> QED
        BY <1>4, <4>1
    <3> HIDE DEF n
    <3>2. r = [k \in 1..n |-> IF k = 1 THEN q[k] ELSE r[k - 1] \o q[k]]
      BY <3>1
    <3> QED
      BY <3>2 DEF n
  <2>2. c = Run(c)
    BY <2>1
  <2>3. FlattenSeq(q) = c[n]
    BY <1>6 DEF FlattenSeq
  <2> HIDE DEF c
  <2> DEFINE T == {k \in 0..n : k > 0 => c[k] = g[k]}
  <2>4. 0 \in T
    BY <1>1
  <2>5. ASSUME NEW k \in 0..(n - 1), k \in T
        PROVE  k + 1 \in T
    <3>1. k + 1 \in 1..n /\ k + 1 \in 0..n /\ (k + 1) - 1 = k /\ (k + 1 # 1 => k > 0)
      BY <1>1
    <3>2. c[k + 1] = IF k + 1 = 1 THEN q[k + 1] ELSE c[k] \o q[k + 1]
      BY <2>2, <3>1
    <3>3. g[k + 1] = IF k + 1 = 1 THEN q[k + 1] ELSE g[k] \o q[k + 1]
      BY <1>4, <3>1
    <3>4. k + 1 # 1 => c[k] = g[k]
      BY <2>5, <3>1
    <3> QED
      BY <3>1, <3>2, <3>3, <3>4
  <2> HIDE DEF T
  <2>6. 0..n \subseteq T
    BY <1>1, <2>4, <2>5, InductionTo
  <2>7. c[n] = g[n]
    BY <1>1, <1>6, <2>6 DEF T
  <2> QED
    BY <1>3, <2>3, <2>7
<1> QED
  BY <1>5, <1>6

(* No lists put together, and one list more. *)
LEMMA FlattenLaws ==
  ASSUME NEW A, NEW q \in Seq(Seq(A))
  PROVE  /\ FlattenSeq(<< >>) = << >> /\ FlattenSeq(q) \in Seq(A)
         /\ \A x \in Seq(A) : FlattenSeq(Append(q, x)) = FlattenSeq(q) \o x
<1>1. FlattenSeq(<< >>) = << >>
  BY DEF FlattenSeq
<1>2. PICK g : /\ g \in [0..Len(q) -> Seq(A)] /\ FlattenSeq(q) = g[Len(q)]
               /\ Stepwise(g, Cat(A), << >>, Len(q), q)
  BY FlattenRuns
<1>3. Len(q) \in Nat /\ FlattenSeq(q) \in Seq(A)
  BY <1>2
<1>4. ASSUME NEW x \in Seq(A)
      PROVE  FlattenSeq(Append(q, x)) = FlattenSeq(q) \o x
  <2> DEFINE r == Append(q, x)
             n == Len(q)
  <2>1. /\ r \in Seq(Seq(A)) /\ Len(r) = n + 1 /\ n \in Nat
        /\ r[n + 1] = x /\ \A k \in 1..n : r[k] = q[k]
    OBVIOUS
  <2> HIDE DEF r, n
  <2>2. PICK h : Stepwise(h, Cat(A), << >>, n + 1, r) /\ FlattenSeq(r) = h[n + 1]
    BY <2>1, FlattenRuns
  <2>3. Stepwise(g, Cat(A), << >>, n, q)
    BY <1>2 DEF n
  <2>4. Prolongs(h, g, Cat(A), << >>, n, r, q)
    BY <2>1, <2>2, <2>3 DEF Prolongs
  <2>5. GoesOnBy(h, g, Cat(A), n, r)
    BY <2>4, OneMoreStep
  <2>6. h[n + 1] = Cat(A)[<<g[n], x>>]
    BY <2>1, <2>5 DEF GoesOnBy
  <2>7. g[n] \in Seq(A) /\ g[n] = FlattenSeq(q)
    BY <1>2, <1>3 DEF n
  <2> DEFINE s == g[n]
  <2> HIDE DEF s
  <2>8. Cat(A)[<<s, x>>] = s \o x
    BY <2>7 DEF Cat, s
  <2> QED
    BY <2>2, <2>6, <2>7, <2>8 DEF r, s
<1> QED
  BY <1>1, <1>3, <1>4

(* The weights w of what is in q, added up; and what is in q and in P. *)
Weigh(w, q) == SumOver([i \in DOMAIN q |-> w[q[i]]], DOMAIN q)
Sel(q, P)   == Those(q, {i \in DOMAIN q : q[i] \in P})

(* A list of numbers, one for each place. *)
LEMMA NumbersAt ==
  ASSUME NEW n \in Nat, NEW f \in [1..n -> Nat]
  PROVE  f \in Seq(Nat) /\ Len(f) = n /\ DOMAIN f = 1..n
BY IsASeq, LenProperties

(* Nothing weighs nothing, and one thing more adds its weight. *)
LEMMA WeighLaws ==
  ASSUME NEW A, NEW w \in [A -> Nat], NEW q \in Seq(A)
  PROVE  /\ Weigh(w, << >>) = 0 /\ Weigh(w, q) \in Nat
         /\ \A x \in A : Weigh(w, Append(q, x)) = Weigh(w, q) + w[x]
<1> DEFINE n == Len(q)
           f == [i \in DOMAIN q |-> w[q[i]]]
<1>1. n \in Nat /\ DOMAIN q = 1..n /\ f \in [1..n -> Nat]
  OBVIOUS
<1>2. f \in Seq(Nat) /\ Len(f) = n
  BY <1>1, NumbersAt
<1>3. Weigh(w, << >>) = 0
  <2> DEFINE e == << >>
             h == [i \in DOMAIN e |-> w[e[i]]]
  <2>1. h = << >>
    OBVIOUS
  <2>2. Weigh(w, e) = SumOver(h, DOMAIN e)
    BY DEF Weigh
  <2> HIDE DEF h
  <2> QED
    BY <1>2, <2>1, <2>2, SumLaws
<1>4. Weigh(w, q) = SumOver(f, 1..n)
  BY <1>1 DEF Weigh
<1>5. ASSUME NEW x \in A
      PROVE  Weigh(w, Append(q, x)) = Weigh(w, q) + w[x]
  <2> DEFINE r == Append(q, x)
             h == [i \in DOMAIN r |-> w[r[i]]]
  <2>1. /\ r \in Seq(A) /\ DOMAIN r = 1..(n + 1) /\ r[n + 1] = x /\ \A k \in 1..n : r[k] = q[k]
        /\ w[x] \in Nat
    OBVIOUS
  <2> HIDE DEF r
  <2>2. h \in [1..(n + 1) -> Nat] /\ h[n + 1] = w[x] /\ \A k \in 1..n : h[k] = f[k]
    <3>1. \A k \in 1..(n + 1) : r[k] \in A
      BY <2>1
    <3>2. n + 1 \in 1..(n + 1) /\ \A k \in 1..n : k \in 1..(n + 1)
      BY <1>1
    <3> QED
      BY <1>1, <2>1, <3>1, <3>2
  <2>3. Weigh(w, r) = SumOver(h, 1..(n + 1))
    BY <2>1 DEF Weigh
  <2> HIDE DEF h, f, n
  <2>4. h \in Seq(Nat) /\ Len(h) = n + 1
    BY <1>1, <2>2, NumbersAt
  <2>5. h = Append(f, w[x])
    BY <1>1, <1>2, <2>1, <2>2, <2>4
  <2>6. SumOver(h, 1..(n + 1)) = SumOver(f, 1..(n + 1)) + w[x]
    <3>1. n + 1 \in 1..(n + 1)
      BY <1>1
    <3> QED
      BY <1>2, <2>1, <2>5, <3>1, SumLaws
  <2>7. SumOver(f, 1..(n + 1)) = SumOver(f, 1..n)
    <3>1. \A k \in 1..Len(f) : k \in 1..n /\ k \in 1..(n + 1)
      BY <1>1, <1>2
    <3> DEFINE I == 1..(n + 1)
               J == 1..n
    <3>2. \A k \in 1..Len(f) : (IF k \in I THEN f[k] ELSE 0) = (IF k \in J THEN f[k] ELSE 0)
      BY <3>1
    <3> HIDE DEF I, J
    <3>3. SumOver(f, I) = SumOver(f, J)
      BY <1>2, <3>2, SumSees
    <3> QED
      BY <3>3 DEF I, J
  <2> QED
    BY <1>4, <2>3, <2>6, <2>7 DEF r
<1>6. Weigh(w, q) \in Nat
  BY <1>2, <1>4, SumLaws
<1> QED
  BY <1>3, <1>5, <1>6

(* One thing weighs what it weighs. *)
LEMMA WeighOne ==
  ASSUME NEW A, NEW w \in [A -> Nat], NEW x \in A
  PROVE  Weigh(w, <<x>>) = w[x]
<1> DEFINE e == << >>
<1>1. e \in Seq(A) /\ Append(e, x) = <<x>> /\ w[x] \in Nat
  BY EmptySeq
<1>2. Weigh(w, e) = 0
  BY <1>1, WeighLaws
<1> HIDE DEF e
<1>3. Weigh(w, Append(e, x)) = Weigh(w, e) + w[x]
  BY <1>1, WeighLaws
<1> QED
  BY <1>1, <1>2, <1>3

(* Two lists put together weigh what both weigh. *)
LEMMA WeighBoth ==
  ASSUME NEW A, NEW w \in [A -> Nat], NEW p \in Seq(A), NEW q \in Seq(A)
  PROVE  Weigh(w, p \o q) = Weigh(w, p) + Weigh(w, q)
<1> DEFINE S == {r \in Seq(A) : Weigh(w, p \o r) = Weigh(w, p) + Weigh(w, r)}
<1>1. << >> \in S
  <2>1. p \o << >> = p /\ << >> \in Seq(A)
    BY EmptySeq
  <2>2. Weigh(w, p) \in Nat /\ Weigh(w, << >>) = 0
    BY WeighLaws
  <2> QED
    BY <2>1, <2>2
<1>2. ASSUME NEW r \in Seq(A), NEW x \in A, r \in S
      PROVE  Append(r, x) \in S
  <2>1. p \o r \in Seq(A) /\ p \o Append(r, x) = Append(p \o r, x) /\ Append(r, x) \in Seq(A)
    OBVIOUS
  <2>2. Weigh(w, Append(p \o r, x)) = Weigh(w, p \o r) + w[x]
    BY <2>1, WeighLaws
  <2>3. Weigh(w, Append(r, x)) = Weigh(w, r) + w[x]
    BY WeighLaws
  <2>4. Weigh(w, p) \in Nat /\ Weigh(w, r) \in Nat /\ w[x] \in Nat
    BY WeighLaws
  <2>5. Weigh(w, p \o r) = Weigh(w, p) + Weigh(w, r)
    BY <1>2
  <2>6. Weigh(w, p \o Append(r, x)) = Weigh(w, p) + Weigh(w, Append(r, x))
    BY <2>1, <2>2, <2>3, <2>4, <2>5
  <2> QED
    BY <2>1, <2>6
<1> HIDE DEF S
<1>3. Seq(A) \subseteq S
  BY <1>1, <1>2, ListInduction
<1> QED
  BY <1>3 DEF S

(* What is in P, of nothing and of one thing more. *)
LEMMA SelLaws ==
  ASSUME NEW A, NEW P, NEW q \in Seq(A)
  PROVE  /\ Sel(<< >>, P) = << >> /\ Sel(q, P) \in Seq(A)
         /\ \A x \in A : Sel(Append(q, x), P) = IF x \in P THEN Append(Sel(q, P), x) ELSE Sel(q, P)
<1> DEFINE n == Len(q)
           I == {i \in DOMAIN q : q[i] \in P}
<1>1. n \in Nat /\ DOMAIN q = 1..n
  OBVIOUS
<1>2. Sel(<< >>, P) = << >> /\ Sel(q, P) \in Seq(A)
  BY ThoseLaws DEF Sel
<1>3. ASSUME NEW x \in A
      PROVE  Sel(Append(q, x), P) = IF x \in P THEN Append(Sel(q, P), x) ELSE Sel(q, P)
  <2> DEFINE r == Append(q, x)
             J == {i \in DOMAIN r : r[i] \in P}
  <2>1. DOMAIN r = 1..(n + 1) /\ r[n + 1] = x /\ \A k \in 1..n : r[k] = q[k]
    OBVIOUS
  <2>2. Sel(q, P) = Those(q, I) /\ Sel(r, P) = Those(r, J)
    BY DEF Sel
  <2> HIDE DEF r
  <2>3. J \cap 1..n = I \cap 1..n /\ (n + 1 \in J <=> x \in P)
    BY <1>1, <2>1
  <2> HIDE DEF I, J
  <2>4. Those(Append(q, x), J) = IF n + 1 \in J THEN Append(Those(q, I), x) ELSE Those(q, I)
    BY <2>3, ThoseLaws
  <2> QED
    BY <2>2, <2>3, <2>4 DEF r
<1> QED
  BY <1>2, <1>3

(* v is w on P and 0 elsewhere. *)
OnlyOn(v, w, A, P) == \A x \in A : v[x] = IF x \in P THEN w[x] ELSE 0

(* What is in P weighs as much as the list, if nothing else has a weight. *)
LEMMA WeighSel ==
  ASSUME NEW A, NEW P, NEW w \in [A -> Nat], NEW v \in [A -> Nat], NEW q \in Seq(A),
         OnlyOn(v, w, A, P)
  PROVE  Weigh(w, Sel(q, P)) = Weigh(v, q)
<1> DEFINE S == {r \in Seq(A) : Weigh(w, Sel(r, P)) = Weigh(v, r)}
<1>1. << >> \in S
  <2>1. Sel(<< >>, P) = << >> /\ Weigh(w, << >>) = 0 /\ Weigh(v, << >>) = 0 /\ << >> \in Seq(A)
    BY SelLaws, WeighLaws, EmptySeq
  <2> QED
    BY <2>1
<1>2. ASSUME NEW r \in Seq(A), NEW x \in A, r \in S
      PROVE  Append(r, x) \in S
  <2>1. /\ Sel(r, P) \in Seq(A) /\ Append(r, x) \in Seq(A)
        /\ Sel(Append(r, x), P) = IF x \in P THEN Append(Sel(r, P), x) ELSE Sel(r, P)
    BY SelLaws
  <2>2. Weigh(v, Append(r, x)) = Weigh(v, r) + v[x]
    BY WeighLaws
  <2>3. Weigh(w, Append(Sel(r, P), x)) = Weigh(w, Sel(r, P)) + w[x]
    BY <2>1, WeighLaws
  <2>4. Weigh(w, Sel(r, P)) = Weigh(v, r) /\ Weigh(v, r) \in Nat
    BY <1>2, WeighLaws
  <2>5. v[x] = IF x \in P THEN w[x] ELSE 0
    BY DEF OnlyOn
  <2>6. Weigh(w, Sel(Append(r, x), P)) = Weigh(v, Append(r, x))
    BY <2>1, <2>2, <2>3, <2>4, <2>5
  <2> QED
    BY <2>1, <2>6
<1> HIDE DEF S
<1>3. Seq(A) \subseteq S
  BY <1>1, <1>2, ListInduction
<1> QED
  BY <1>3 DEF S

(* Lists of what w weighs, which v weighs by what is in them. *)
Listing(A, w, B, v) ==
  /\ w \in [A -> Nat] /\ B = Seq(A) /\ v \in [B -> Nat]
  /\ \A s \in B : v[s] = Weigh(w, s)

(* Lists put together weigh what each of them weighs. *)
LEMMA WeighFlat ==
  ASSUME NEW A, NEW w, NEW B, NEW v, Listing(A, w, B, v), NEW qq \in Seq(B)
  PROVE  Weigh(w, FlattenSeq(qq)) = Weigh(v, qq)
<1>0. B = Seq(A) /\ w \in [A -> Nat] /\ v \in [B -> Nat] /\ \A s \in B : v[s] = Weigh(w, s)
  BY DEF Listing
<1> DEFINE S == {r \in Seq(B) : Weigh(w, FlattenSeq(r)) = Weigh(v, r)}
<1>1. << >> \in S
  <2>1. << >> \in Seq(A) /\ << >> \in Seq(B)
    BY <1>0, EmptySeq
  <2>2. FlattenSeq(<< >>) = << >>
    BY <1>0, FlattenLaws
  <2>3. Weigh(w, << >>) = 0 /\ Weigh(v, << >>) = 0
    BY <1>0, <2>1, WeighLaws
  <2> QED
    BY <2>1, <2>2, <2>3
<1>2. ASSUME NEW r \in Seq(B), NEW x \in B, r \in S
      PROVE  Append(r, x) \in S
  <2>1. /\ FlattenSeq(r) \in Seq(A) /\ Append(r, x) \in Seq(B)
        /\ FlattenSeq(Append(r, x)) = FlattenSeq(r) \o x
    BY <1>0, FlattenLaws
  <2>2. Weigh(v, Append(r, x)) = Weigh(v, r) + v[x]
    BY <1>0, WeighLaws
  <2>3. Weigh(w, FlattenSeq(r) \o x) = Weigh(w, FlattenSeq(r)) + Weigh(w, x)
    BY <1>0, <2>1, WeighBoth
  <2>4. Weigh(w, FlattenSeq(r)) = Weigh(v, r) /\ v[x] = Weigh(w, x)
    BY <1>0, <1>2
  <2>5. Weigh(w, FlattenSeq(Append(r, x))) = Weigh(v, Append(r, x))
    BY <2>1, <2>2, <2>3, <2>4
  <2> QED
    BY <2>1, <2>5
<1> HIDE DEF S
<1>3. Seq(B) \subseteq S
  BY <1>1, <1>2, ListInduction
<1> QED
  BY <1>3 DEF S

(* Two lists whose things have the same weights weigh the same. *)
SameWeights(w, q, v, r) == DOMAIN q = DOMAIN r /\ \A i \in DOMAIN q : w[q[i]] = v[r[i]]

(* So nothing is needed of them but their weights. *)
LEMMA WeighAlike ==
  ASSUME NEW w, NEW q, NEW v, NEW r, SameWeights(w, q, v, r)
  PROVE  Weigh(w, q) = Weigh(v, r)
<1>1. [i \in DOMAIN q |-> w[q[i]]] = [i \in DOMAIN r |-> v[r[i]]]
  BY DEF SameWeights
<1> QED
  BY <1>1 DEF Weigh

(* The length of a list, and the weight that is 1 for each. *)
LEMMA WeighLength ==
  ASSUME NEW A, NEW w \in [A -> Nat], NEW q \in Seq(A), \A x \in A : w[x] = 1
  PROVE  Weigh(w, q) = Len(q)
<1> DEFINE S == {r \in Seq(A) : Weigh(w, r) = Len(r)}
<1>1. << >> \in S
  <2>1. << >> \in Seq(A) /\ Weigh(w, << >>) = 0 /\ Len(<< >>) = 0
    BY EmptySeq, WeighLaws
  <2> QED
    BY <2>1
<1>2. ASSUME NEW r \in Seq(A), NEW x \in A, r \in S
      PROVE  Append(r, x) \in S
  <2>1. Append(r, x) \in Seq(A) /\ Len(Append(r, x)) = Len(r) + 1
    OBVIOUS
  <2>2. Weigh(w, Append(r, x)) = Weigh(w, r) + w[x]
    BY WeighLaws
  <2> QED
    BY <1>2, <2>1, <2>2
<1> HIDE DEF S
<1>3. Seq(A) \subseteq S
  BY <1>1, <1>2, ListInduction
<1> QED
  BY <1>3 DEF S

(* The sum over some places and the sum over the others. *)
LEMMA SumParts ==
  ASSUME NEW f \in Seq(Nat), NEW I, NEW D, DOMAIN f \subseteq D
  PROVE  SumOver(f, I) + SumOver(f, D \ I) = SumOver(f, D)
<1> DEFINE O == Nat \ I
           S == {g \in Seq(Nat) : SumOver(g, I) + SumOver(g, O) = SumOver(g, Nat)}
<1>1. << >> \in S
  <2>1. << >> \in Seq(Nat)
    BY EmptySeq
  <2>2. \A J : SumOver(<< >>, J) = 0
    BY SumLaws
  <2> QED
    BY <2>1, <2>2
<1>2. ASSUME NEW g \in Seq(Nat), NEW v \in Nat, g \in S
      PROVE  Append(g, v) \in S
  <2>1. Append(g, v) \in Seq(Nat) /\ Len(g) + 1 \in Nat
    OBVIOUS
  <2>2. \A J : /\ SumOver(g, J) \in Nat
               /\ SumOver(Append(g, v), J) = SumOver(g, J) + (IF Len(g) + 1 \in J THEN v ELSE 0)
    BY SumLaws
  <2>3. Len(g) + 1 \in O <=> Len(g) + 1 \notin I
    BY <2>1
  <2> HIDE DEF O
  <2>4. SumOver(g, I) + SumOver(g, O) = SumOver(g, Nat)
    BY <1>2
  <2>5. SumOver(Append(g, v), I) + SumOver(Append(g, v), O) = SumOver(Append(g, v), Nat)
    <3> DEFINE a == IF Len(g) + 1 \in I THEN v ELSE 0
               b == IF Len(g) + 1 \in O THEN v ELSE 0
    <3>1. a \in Nat /\ b \in Nat /\ a + b = v
      BY <2>3
    <3>2. /\ SumOver(Append(g, v), I) = SumOver(g, I) + a
          /\ SumOver(Append(g, v), O) = SumOver(g, O) + b
          /\ SumOver(Append(g, v), Nat) = SumOver(g, Nat) + v
      BY <2>1, <2>2
    <3>3. SumOver(g, I) \in Nat /\ SumOver(g, O) \in Nat /\ SumOver(g, Nat) \in Nat
      BY <2>2
    <3> DEFINE k == SumOver(g, I)
               l == SumOver(g, O)
               m == SumOver(g, Nat)
    <3>4. k \in Nat /\ l \in Nat /\ m \in Nat /\ k + l = m
      BY <2>4, <3>3
    <3> HIDE DEF a, b, k, l, m
    <3>5. (k + a) + (l + b) = m + v
      BY <3>1, <3>4
    <3> QED
      BY <3>2, <3>5 DEF k, l, m
  <2> QED
    BY <2>1, <2>5
<1> HIDE DEF S
<1>3. Seq(Nat) \subseteq S
  BY <1>1, <1>2, ListInduction
<1>4. SumOver(f, I) + SumOver(f, O) = SumOver(f, Nat)
  BY <1>3 DEF S
<1>5. \A k \in 1..Len(f) : k \in D /\ k \in Nat
  OBVIOUS
<1>6. SumOver(f, O) = SumOver(f, D \ I)
  <2> DEFINE J == D \ I
  <2>1. \A k \in 1..Len(f) : (IF k \in O THEN f[k] ELSE 0) = (IF k \in J THEN f[k] ELSE 0)
    BY <1>5
  <2> HIDE DEF O, J
  <2>2. SumOver(f, O) = SumOver(f, J)
    BY <2>1, SumSees
  <2> QED
    BY <2>2 DEF J
<1>7. SumOver(f, Nat) = SumOver(f, D)
  <2>1. \A k \in 1..Len(f) : (IF k \in Nat THEN f[k] ELSE 0) = (IF k \in D THEN f[k] ELSE 0)
    BY <1>5
  <2> QED
    BY <2>1, SumSees
<1> QED
  BY <1>4, <1>6, <1>7
-----------------------------------------------------------------------------
(***************************************************************************)
(* The numbers on cards                                                    *)
(***************************************************************************)

(* The least of some numbers. *)
LEMMA MinOfNumbers ==
  ASSUME NEW T \in SUBSET Nat, T # {}
  PROVE  Min(T) \in T
<1>1. \E m \in T : \A n \in T : m <= n
  BY LeastNumber
<1> QED
  BY <1>1 DEF Min

(* What a trim leaves of two texts are numbers. *)
LEMMA TrimIsTyped ==
  ASSUME NEW A, NEW a \in Seq(A), NEW b \in Seq(A)
  PROVE  StatFromDiff(a, b) \in Counts
<1> DEFINE m == Len(a)
           n == Len(b)
           s == Min({m, n})
           heads == {k \in 0..s : k = s \/ a[k + 1] # b[k + 1]}
           h == Min(heads)
           tails == {k \in 0..(s - h) : k = s - h \/ a[m - k] # b[n - k]}
           t == Min(tails)
<1>1. m \in Nat /\ n \in Nat
  OBVIOUS
<1>2. s \in Nat /\ s <= m /\ s <= n
  <2> DEFINE S == {m, n}
  <2>1. PICK x \in S : \A y \in S : x <= y
    <3>1. S \in SUBSET Nat /\ S # {}
      BY <1>1
    <3> HIDE DEF S
    <3> QED
      BY <3>1, LeastNumber
  <2>2. Min(S) \in S /\ \A y \in S : Min(S) <= y
    <3> HIDE DEF S
    <3> QED
      BY <2>1 DEF Min
  <2> QED
    BY <1>1, <2>2
<1> HIDE DEF m, n, s
<1>3. h \in 0..s
  <2>1. heads \in SUBSET Nat /\ s \in heads
    BY <1>2
  <2>2. h \in heads
    <3> HIDE DEF heads
    <3> QED
      BY <2>1, MinOfNumbers
  <2> QED
    BY <2>2
<1> HIDE DEF h
<1>4. t \in 0..(s - h)
  <2>1. tails \in SUBSET Nat /\ s - h \in tails
    BY <1>2, <1>3
  <2>2. t \in tails
    <3> HIDE DEF tails
    <3> QED
      BY <2>1, MinOfNumbers
  <2> QED
    BY <2>2
<1>5. StatFromDiff(a, b) = [added |-> n - h - t, removed |-> m - h - t]
  BY DEF StatFromDiff, h, s, m, n
<1> HIDE DEF t
<1>6. n - h - t \in Nat /\ m - h - t \in Nat
  BY <1>1, <1>2, <1>3, <1>4
<1> QED
  BY <1>5, <1>6 DEF Counts

(* The numbers of a card are statistics, wherever they come from. *)
LEMMA CardStatIsTyped ==
  ASSUME NEW W, NEW c \in ViewCard(W)
  PROVE  CardStat(c) \in Seq(ViewStat(W))
<1>1. /\ c.changeStat \in Seq(ViewStat(W)) /\ c.diffs \in Seq(ViewDiff(W))
      /\ c.input \in Seq(Counts) /\ c.path \in W
  BY DEF ViewCard
<1>2. \A k \in Counts : Stat(c.path, k) \in ViewStat(W)
  BY <1>1 DEF Counts, Stat, ViewStat
<1>3. CASE c.changeStat # << >>
  BY <1>1, <1>3 DEF CardStat
<1>4. CASE c.changeStat = << >> /\ c.diffs # << >>
  <2> DEFINE r == [i \in DOMAIN c.diffs |->
                    Stat(c.path, StatFromDiff(c.diffs[i].old, c.diffs[i].new))]
  <2>1. CardStat(c) = r
    BY <1>4 DEF CardStat
  <2>2. ASSUME NEW i \in DOMAIN c.diffs
        PROVE  Stat(c.path, StatFromDiff(c.diffs[i].old, c.diffs[i].new)) \in ViewStat(W)
    <3>1. c.diffs[i] \in ViewDiff(W)
      BY <1>1
    <3>2. c.diffs[i].old \in Seq(W) /\ c.diffs[i].new \in Seq(W)
      BY <3>1 DEF ViewDiff
    <3>3. StatFromDiff(c.diffs[i].old, c.diffs[i].new) \in Counts
      BY <3>2, TrimIsTyped
    <3> QED
      BY <1>2, <3>3
  <2>3. r \in [1..Len(c.diffs) -> ViewStat(W)] /\ Len(c.diffs) \in Nat
    BY <1>1, <2>2
  <2> HIDE DEF r
  <2>4. r \in Seq(ViewStat(W))
    BY <2>3, IsASeq
  <2> QED
    BY <2>1, <2>4
<1>5. CASE c.changeStat = << >> /\ c.diffs = << >>
  <2> DEFINE r == [i \in DOMAIN c.input |-> Stat(c.path, c.input[i])]
  <2>1. CardStat(c) = r
    BY <1>5 DEF CardStat
  <2>2. r \in [1..Len(c.input) -> ViewStat(W)] /\ Len(c.input) \in Nat
    BY <1>1, <1>2
  <2> HIDE DEF r
  <2>3. r \in Seq(ViewStat(W))
    BY <2>2, IsASeq
  <2> QED
    BY <2>1, <2>3
<1> QED
  BY <1>3, <1>4, <1>5

(* The lines a card adds; those that count; and its failure. *)
AddedOf(W)      == [s \in ViewStat(W) |-> s.added]
LinesIn(W)      == [c \in ViewCard(W) |-> Weigh(AddedOf(W), CardStat(c))]
LinesCounted(W) == [c \in ViewCard(W) |-> IF CountsTowardChanges(c) THEN LinesIn(W)[c] ELSE 0]
FailedOnce(W)   == [c \in ViewCard(W) |-> IF HasFailed(c) THEN 1 ELSE 0]

(* These are weights. *)
LEMMA WeightsOfCards ==
  ASSUME NEW W
  PROVE  /\ AddedOf(W) \in [ViewStat(W) -> Nat] /\ LinesIn(W) \in [ViewCard(W) -> Nat]
         /\ LinesCounted(W) \in [ViewCard(W) -> Nat] /\ FailedOnce(W) \in [ViewCard(W) -> Nat]
<1>1. AddedOf(W) \in [ViewStat(W) -> Nat]
  BY DEF AddedOf, ViewStat
<1>2. \A c \in ViewCard(W) : Weigh(AddedOf(W), CardStat(c)) \in Nat
  BY <1>1, CardStatIsTyped, WeighLaws
<1>3. LinesIn(W) \in [ViewCard(W) -> Nat]
  BY <1>2 DEF LinesIn
<1> QED
  BY <1>1, <1>3 DEF LinesCounted, FailedOnce

(* The lines of some statistics, added up. *)
LEMMA WeighStats ==
  ASSUME NEW W, NEW s \in Seq(ViewStat(W))
  PROVE  Weigh(AddedOf(W), s) = SumOver([j \in DOMAIN s |-> s[j].added], DOMAIN s)
<1>1. [j \in DOMAIN s |-> AddedOf(W)[s[j]]] = [j \in DOMAIN s |-> s[j].added]
  BY DEF AddedOf
<1> QED
  BY <1>1 DEF Weigh

(* aggregateChanges adds up the lines of the cards that count. *)
LEMMA ChangesAdded ==
  ASSUME NEW W, NEW cards \in Seq(ViewCard(W))
  PROVE  AggregateChanges(cards).added = Weigh(LinesCounted(W), cards)
<1> DEFINE P == {c \in ViewCard(W) : CountsTowardChanges(c)}
           B == Seq(ViewStat(W))
           counted == Sel(cards, P)
           qq == [i \in DOMAIN counted |-> CardStat(counted[i])]
           stats == FlattenSeq(qq)
           v == [s \in B |-> Weigh(AddedOf(W), s)]
<1>1. AggregateChanges(cards).added = SumOver([j \in DOMAIN stats |-> stats[j].added], DOMAIN stats)
  <2>1. {i \in DOMAIN cards : CountsTowardChanges(cards[i])} = {i \in DOMAIN cards : cards[i] \in P}
    OBVIOUS
  <2>2. counted = Those(cards, {i \in DOMAIN cards : CountsTowardChanges(cards[i])})
    BY <2>1 DEF Sel
  <2>3. \A q, n : SummarizeStats(q, n).added = SumOver([i \in DOMAIN q |-> q[i].added], DOMAIN q)
    BY DEF SummarizeStats
  <2>4. \E n : AggregateChanges(cards) = SummarizeStats(stats, n)
    BY <2>2 DEF AggregateChanges
  <2> HIDE DEF stats
  <2> QED
    BY <2>3, <2>4
<1> HIDE DEF P, B
<1>2. counted \in Seq(ViewCard(W))
  BY SelLaws
<1> HIDE DEF counted
<1>3. \A i \in DOMAIN counted : counted[i] \in ViewCard(W) /\ CardStat(counted[i]) \in B
  <2>1. \A i \in DOMAIN counted : counted[i] \in ViewCard(W)
    BY <1>2
  <2> QED
    BY <2>1, CardStatIsTyped DEF B
<1>4. qq \in Seq(B) /\ DOMAIN qq = DOMAIN counted
  <2>1. DOMAIN counted = 1..Len(counted) /\ Len(counted) \in Nat
    BY <1>2
  <2>2. qq \in [1..Len(counted) -> B]
    BY <1>3, <2>1
  <2> QED
    BY <2>1, <2>2, IsASeq
<1>5. AddedOf(W) \in [ViewStat(W) -> Nat] /\ LinesIn(W) \in [ViewCard(W) -> Nat]
      /\ LinesCounted(W) \in [ViewCard(W) -> Nat]
  BY WeightsOfCards
<1>6. v \in [B -> Nat]
  BY <1>5, WeighLaws DEF B
<1>7. \A i \in DOMAIN qq : v[qq[i]] = LinesIn(W)[counted[i]]
  BY <1>3, <1>4 DEF LinesIn
<1>8. Listing(ViewStat(W), AddedOf(W), B, v)
  BY <1>5, <1>6 DEF Listing, B
<1> HIDE DEF qq, v
<1>9. stats \in Seq(ViewStat(W)) /\ Weigh(AddedOf(W), stats) = Weigh(v, qq)
  <2>1. B = Seq(ViewStat(W))
    BY DEF B
  <2>2. stats \in Seq(ViewStat(W))
    BY <1>4, <2>1, FlattenLaws
  <2>3. Weigh(AddedOf(W), stats) = Weigh(v, qq)
    BY <1>4, <1>8, WeighFlat
  <2> QED
    BY <2>2, <2>3
<1>10. Weigh(v, qq) = Weigh(LinesIn(W), counted)
  <2>1. SameWeights(v, qq, LinesIn(W), counted)
    BY <1>4, <1>7 DEF SameWeights
  <2> QED
    BY <2>1, WeighAlike
<1>11. OnlyOn(LinesCounted(W), LinesIn(W), ViewCard(W), P)
  BY DEF OnlyOn, LinesCounted, P
<1>12. Weigh(LinesIn(W), counted) = Weigh(LinesCounted(W), cards)
  BY <1>5, <1>11, WeighSel DEF counted
<1> HIDE DEF stats
<1>13. AggregateChanges(cards).added = Weigh(AddedOf(W), stats)
  BY <1>1, <1>9, WeighStats
<1> QED
  BY <1>9, <1>10, <1>12, <1>13

(* So does what is to be shown. *)
LEMMA LinesAdded ==
  ASSUME NEW W, NEW cards \in Seq(ViewCard(W))
  PROVE  LinesOf(cards) = Weigh(LinesCounted(W), cards)
<1> DEFINE n == Len(cards)
           f == [i \in DOMAIN cards |-> LinesIn(W)[cards[i]]]
           h == [i \in DOMAIN cards |-> LinesCounted(W)[cards[i]]]
           I == Written(cards)
           D == DOMAIN cards
<1>1. n \in Nat /\ D = 1..n /\ \A i \in D : cards[i] \in ViewCard(W)
  OBVIOUS
<1>2. \A i \in D : LinesIn(W)[cards[i]] \in Nat /\ LinesCounted(W)[cards[i]] \in Nat
  BY <1>1, WeightsOfCards
<1>3. f \in Seq(Nat) /\ Len(f) = n /\ h \in Seq(Nat) /\ Len(h) = n
  <2>1. f \in [1..n -> Nat] /\ h \in [1..n -> Nat]
    BY <1>1, <1>2
  <2> HIDE DEF f, h
  <2> QED
    BY <1>1, <2>1, NumbersAt
<1>4. LinesOf(cards) = SumOver(f, I)
  <2> DEFINE lines(i) == LET stats == CardStat(cards[i])
                         IN  SumOver([j \in DOMAIN stats |-> stats[j].added], DOMAIN stats)
  <2>1. \A i \in D : lines(i) = LinesIn(W)[cards[i]]
    <3> SUFFICES ASSUME NEW i \in D PROVE lines(i) = LinesIn(W)[cards[i]]
      OBVIOUS
    <3>1. CardStat(cards[i]) \in Seq(ViewStat(W))
      BY <1>1, CardStatIsTyped
    <3>2. LinesIn(W)[cards[i]] = Weigh(AddedOf(W), CardStat(cards[i]))
      BY <1>1 DEF LinesIn
    <3> QED
      BY <3>1, <3>2, WeighStats
  <2>2. LinesOf(cards) = SumOver([i \in DOMAIN cards |-> lines(i)], I)
    BY DEF LinesOf
  <2> HIDE DEF lines
  <2>3. [i \in DOMAIN cards |-> lines(i)] = f
    BY <2>1
  <2> QED
    BY <2>2, <2>3
<1>5. \A k \in 1..Len(f) : (IF k \in I THEN f[k] ELSE 0) = (IF k \in D THEN h[k] ELSE 0)
  <2>1. \A k \in D : k \in I <=> CountsTowardChanges(cards[k])
    BY DEF Written, CountsTowardChanges
  <2>2. \A k \in D : h[k] = IF CountsTowardChanges(cards[k]) THEN f[k] ELSE 0
    BY <1>1 DEF LinesCounted
  <2> HIDE DEF f, h, I
  <2> QED
    BY <1>1, <1>3, <2>1, <2>2
<1>6. Weigh(LinesCounted(W), cards) = SumOver(h, D)
  BY DEF Weigh
<1> HIDE DEF f, h, I, D
<1>7. SumOver(f, I) = SumOver(h, D)
  BY <1>3, <1>5, SumSees
<1> QED
  BY <1>4, <1>6, <1>7

(* The failures among the cards. *)
LEMMA FailuresAdded ==
  ASSUME NEW W, NEW cards \in Seq(ViewCard(W))
  PROVE  Len(Failures(cards)) = Weigh(FailedOnce(W), cards)
<1> DEFINE P == {c \in ViewCard(W) : HasFailed(c)}
           one == [c \in ViewCard(W) |-> 1]
<1>1. Failures(cards) = Sel(cards, P)
  <2>1. {i \in DOMAIN cards : HasFailed(cards[i])} = {i \in DOMAIN cards : cards[i] \in P}
    OBVIOUS
  <2> QED
    BY <2>1 DEF Failures, Sel
<1>2. OnlyOn(FailedOnce(W), one, ViewCard(W), P)
  BY DEF OnlyOn, FailedOnce
<1>3. one \in [ViewCard(W) -> Nat] /\ FailedOnce(W) \in [ViewCard(W) -> Nat]
      /\ \A c \in ViewCard(W) : one[c] = 1
  BY WeightsOfCards
<1> HIDE DEF P, one
<1>4. Sel(cards, P) \in Seq(ViewCard(W))
  BY SelLaws
<1>5. Weigh(one, Sel(cards, P)) = Len(Sel(cards, P))
  BY <1>3, <1>4, WeighLength
<1>6. Weigh(one, Sel(cards, P)) = Weigh(FailedOnce(W), cards)
  BY <1>2, <1>3, WeighSel
<1> QED
  BY <1>1, <1>5, <1>6

(* The cards of items, one by one. *)
LEMMA CardsLaws ==
  ASSUME NEW W, NEW its \in Seq(ViewItem(W))
  PROVE  /\ Cards(<< >>) = << >> /\ Cards(its) \in Seq(ViewCard(W))
         /\ \A x \in ViewItem(W) :
              Cards(Append(its, x)) = IF IsTool(x) THEN Append(Cards(its), x.card) ELSE Cards(its)
<1> DEFINE P == {x \in ViewItem(W) : IsTool(x)}
           S == {q \in Seq(ViewItem(W)) : Sel(q, P) \in Seq(P)}
<1>1. ASSUME NEW q \in Seq(ViewItem(W))
      PROVE  Cards(q) = [i \in DOMAIN Sel(q, P) |-> Sel(q, P)[i].card]
  <2>1. {i \in DOMAIN q : IsTool(q[i])} = {i \in DOMAIN q : q[i] \in P}
    OBVIOUS
  <2> QED
    BY <2>1 DEF Cards, Sel
<1>2. \A x \in P : x.card \in ViewCard(W)
  BY DEF ViewItem, Thought, Tool, Other, IsTool
<1>3. \A x \in ViewItem(W) : x \in P <=> IsTool(x)
  OBVIOUS
<1> HIDE DEF P
<1>4. << >> \in S
  BY EmptySeq, SelLaws
<1>5. ASSUME NEW q \in Seq(ViewItem(W)), NEW x \in ViewItem(W), q \in S
      PROVE  Append(q, x) \in S
  <2>1. Sel(Append(q, x), P) = IF x \in P THEN Append(Sel(q, P), x) ELSE Sel(q, P)
    BY SelLaws
  <2>2. Append(q, x) \in Seq(ViewItem(W)) /\ Sel(q, P) \in Seq(P)
    BY <1>5
  <2>3. Sel(Append(q, x), P) \in Seq(P)
    BY <2>1, <2>2
  <2> QED
    BY <2>2, <2>3
<1> HIDE DEF S
<1>6. Seq(ViewItem(W)) \subseteq S
  BY <1>4, <1>5, ListInduction
<1>7. \A q \in Seq(ViewItem(W)) : Sel(q, P) \in Seq(P)
  BY <1>6 DEF S
<1>8. ASSUME NEW t \in Seq(P)
      PROVE  [i \in DOMAIN t |-> t[i].card] \in Seq(ViewCard(W))
  <2>1. Len(t) \in Nat /\ DOMAIN t = 1..Len(t) /\ \A i \in DOMAIN t : t[i] \in P
    OBVIOUS
  <2>2. [i \in DOMAIN t |-> t[i].card] \in [1..Len(t) -> ViewCard(W)]
    BY <1>2, <2>1
  <2> QED
    BY <2>1, <2>2, IsASeq
<1>9. Cards(its) \in Seq(ViewCard(W))
  BY <1>1, <1>7, <1>8
<1>10. Cards(<< >>) = << >>
  <2>1. << >> \in Seq(ViewItem(W)) /\ Sel(<< >>, P) = << >>
    BY EmptySeq, SelLaws
  <2>2. Cards(<< >>) = [i \in DOMAIN << >> |-> << >>[i].card]
    BY <1>1, <2>1
  <2> QED
    BY <2>2
<1>11. ASSUME NEW x \in ViewItem(W)
       PROVE  Cards(Append(its, x)) = IF IsTool(x) THEN Append(Cards(its), x.card) ELSE Cards(its)
  <2> DEFINE t == Sel(its, P)
             u == Append(t, x)
             a == [i \in DOMAIN t |-> t[i].card]
             b == [i \in DOMAIN u |-> u[i].card]
  <2>1. t \in Seq(P) /\ Cards(its) = a /\ Append(its, x) \in Seq(ViewItem(W))
    BY <1>1, <1>7
  <2>2. Sel(Append(its, x), P) = IF x \in P THEN u ELSE t
    BY SelLaws
  <2>3. CASE x \in P
    <3>1. Cards(Append(its, x)) = b
      BY <1>1, <2>1, <2>2, <2>3
    <3>2. u \in Seq(P) /\ Len(t) \in Nat /\ DOMAIN t = 1..Len(t) /\ DOMAIN u = 1..(Len(t) + 1)
          /\ u[Len(t) + 1] = x /\ \A i \in 1..Len(t) : u[i] = t[i]
      BY <2>1, <2>3
    <3>3. a \in Seq(ViewCard(W)) /\ b \in Seq(ViewCard(W)) /\ x.card \in ViewCard(W)
      BY <1>2, <1>8, <2>1, <2>3, <3>2
    <3> HIDE DEF u, t
    <3>4. /\ DOMAIN a = 1..Len(t) /\ DOMAIN b = 1..(Len(t) + 1) /\ b[Len(t) + 1] = x.card
          /\ \A i \in 1..Len(t) : b[i] = a[i]
      BY <3>2
    <3> HIDE DEF a, b
    <3>5. Len(a) = Len(t) /\ Len(b) = Len(t) + 1
      BY <3>2, <3>3, <3>4
    <3>6. b = Append(a, x.card)
      BY <3>2, <3>3, <3>4, <3>5
    <3> QED
      BY <1>3, <2>1, <2>3, <3>1, <3>6
  <2>4. CASE x \notin P
    BY <1>1, <1>3, <2>1, <2>2, <2>4
  <2> QED
    BY <2>3, <2>4
<1> QED
  BY <1>9, <1>10, <1>11

(* Cards weigh what the items that have them weigh. *)
OfCard(v, w, W) == \A x \in ViewItem(W) : v[x] = IF IsTool(x) THEN w[x.card] ELSE 0

(* A tool has a card. *)
LEMMA CardOfTool ==
  ASSUME NEW W, NEW x \in ViewItem(W), IsTool(x)
  PROVE  x.card \in ViewCard(W)
BY DEF ViewItem, Thought, Tool, Other, IsTool

(* The weight of the cards is that of the items. *)
LEMMA WeighCards ==
  ASSUME NEW W, NEW w \in [ViewCard(W) -> Nat], NEW v \in [ViewItem(W) -> Nat], OfCard(v, w, W),
         NEW its \in Seq(ViewItem(W))
  PROVE  Weigh(w, Cards(its)) = Weigh(v, its)
<1> DEFINE S == {r \in Seq(ViewItem(W)) : Weigh(w, Cards(r)) = Weigh(v, r)}
<1>1. << >> \in S
  <2>1. << >> \in Seq(ViewItem(W))
    BY EmptySeq
  <2>2. Cards(<< >>) = << >>
    BY CardsLaws
  <2>3. Weigh(w, << >>) = 0 /\ Weigh(v, << >>) = 0
    BY <2>1, WeighLaws, EmptySeq
  <2> QED
    BY <2>1, <2>2, <2>3
<1>2. ASSUME NEW r \in Seq(ViewItem(W)), NEW x \in ViewItem(W), r \in S
      PROVE  Append(r, x) \in S
  <2>1. /\ Cards(r) \in Seq(ViewCard(W)) /\ Append(r, x) \in Seq(ViewItem(W))
        /\ Cards(Append(r, x)) = IF IsTool(x) THEN Append(Cards(r), x.card) ELSE Cards(r)
    BY CardsLaws
  <2>2. Weigh(v, Append(r, x)) = Weigh(v, r) + v[x]
    BY WeighLaws
  <2>3. IsTool(x) => Weigh(w, Append(Cards(r), x.card)) = Weigh(w, Cards(r)) + w[x.card]
    <3> SUFFICES ASSUME IsTool(x)
                 PROVE  Weigh(w, Append(Cards(r), x.card)) = Weigh(w, Cards(r)) + w[x.card]
      OBVIOUS
    <3> DEFINE s == Cards(r)
               c == x.card
    <3>1. s \in Seq(ViewCard(W)) /\ c \in ViewCard(W)
      BY <2>1, CardOfTool
    <3> HIDE DEF s, c
    <3>2. Weigh(w, Append(s, c)) = Weigh(w, s) + w[c]
      BY <3>1, WeighLaws
    <3> QED
      BY <3>2 DEF s, c
  <2>4. Weigh(w, Cards(r)) = Weigh(v, r) /\ Weigh(v, r) \in Nat
    BY <1>2, WeighLaws
  <2>5. v[x] = IF IsTool(x) THEN w[x.card] ELSE 0
    BY DEF OfCard
  <2>6. Weigh(w, Cards(Append(r, x))) = Weigh(v, Append(r, x))
    BY <2>1, <2>2, <2>3, <2>4, <2>5
  <2> QED
    BY <2>1, <2>6
<1> HIDE DEF S
<1>3. Seq(ViewItem(W)) \subseteq S
  BY <1>1, <1>2, ListInduction
<1> QED
  BY <1>3 DEF S

(* The cards of a label weigh what all cards do, if only what has settled  *)
(* has a weight.                                                           *)
OfSettled(w, W) == \A c \in ViewCard(W) : ~IsSettled(c) => w[c] = 0

(* The cards of a label are cards, and weigh what all of them do. *)
LEMMA WeighLabel ==
  ASSUME NEW W, NEW w \in [ViewCard(W) -> Nat], OfSettled(w, W), NEW its \in Seq(ViewItem(W))
  PROVE  /\ LabelCards(its) \in Seq(ViewCard(W))
         /\ Weigh(w, LabelCards(its)) = Weigh(w, Cards(its))
<1> DEFINE P == {c \in ViewCard(W) : IsSettled(c)}
           cards == Cards(its)
           settled == Sel(cards, P)
<1>1. cards \in Seq(ViewCard(W))
  BY CardsLaws
<1>2. LabelCards(its) = IF settled # << >> \/ cards = << >> THEN settled ELSE <<Last(cards)>>
  <2>1. {i \in DOMAIN cards : IsSettled(cards[i])} = {i \in DOMAIN cards : cards[i] \in P}
    BY <1>1
  <2> QED
    BY <2>1 DEF LabelCards, Sel
<1>3. \A c \in ViewCard(W) : c \notin P => w[c] = 0
  BY DEF OfSettled
<1> HIDE DEF P, cards
<1>4. settled \in Seq(ViewCard(W))
  BY <1>1, SelLaws
<1>5. Weigh(w, settled) = Weigh(w, cards)
  <2>1. OnlyOn(w, w, ViewCard(W), P)
    BY <1>3 DEF OnlyOn
  <2> QED
    BY <1>1, <2>1, WeighSel
<1>6. CASE settled # << >> \/ cards = << >>
  BY <1>2, <1>4, <1>5, <1>6 DEF cards
<1>7. CASE ~(settled # << >> \/ cards = << >>)
  <2>1. PICK p \in Seq(ViewCard(W)), c \in ViewCard(W) : cards = Append(p, c)
    BY <1>1, <1>7, FrontAndLast
  <2>2. settled = IF c \in P THEN Append(Sel(p, P), c) ELSE Sel(p, P)
    BY <2>1, SelLaws
  <2>3. Sel(p, P) \in Seq(ViewCard(W))
    BY SelLaws
  <2>4. c \notin P
    <3> DEFINE s == Sel(p, P)
    <3>1. s \in Seq(ViewCard(W))
      BY <2>3
    <3> HIDE DEF s
    <3>2. Append(s, c) # << >>
      <4>1. Len(Append(s, c)) = Len(s) + 1 /\ Len(s) \in Nat
        BY <3>1
      <4> QED
        BY <4>1
    <3> QED
      BY <1>7, <2>2, <3>2 DEF s
  <2>5. Last(cards) = c
    BY <2>1 DEF Last
  <2>6. Weigh(w, <<c>>) = 0
    BY <1>3, <2>4, WeighOne
  <2>7. Weigh(w, << >>) = 0
    BY WeighLaws, EmptySeq
  <2>8. <<c>> \in Seq(ViewCard(W)) /\ LabelCards(its) = <<c>>
    BY <1>2, <1>7, <2>5
  <2> QED
    BY <1>5, <1>7, <2>6, <2>7, <2>8 DEF cards
<1> QED
  BY <1>6, <1>7
-----------------------------------------------------------------------------
(***************************************************************************)
(* The blocks of a column                                                  *)
(***************************************************************************)

(* One item more, to the blocks of a column. *)
LEMMA BlockedLaws ==
  ASSUME NEW W, NEW q \in Seq(ViewItem(W))
  PROVE  /\ Blocked(<< >>) = Unread /\ Blocked(q) \in Blocking(W)
         /\ \A x \in ViewItem(W) : Blocked(Append(q, x)) = IntoBlocks(Blocked(q), x)
<1> DEFINE A == Blocking(W)
           B == ViewItem(W)
           F == [p \in A \X B |-> IntoBlocks(p[1], p[2])]
<1>1. \A a \in A, x \in B : F[<<a, x>>] = IntoBlocks(a, x)
  OBVIOUS
<1> HIDE DEF A, B, F
<1>2. ASSUME NEW r \in Seq(B)
      PROVE  \E g : /\ g \in [0..Len(r) -> A] /\ g[Len(r)] = Blocked(r)
                    /\ Stepwise(g, F, Unread, Len(r), r)
  <2>1. PICK g \in [0..Len(r) -> A] :
          /\ g[0] = Unread /\ g[Len(r)] = Blocked(r)
          /\ \A k \in 1..Len(r) : g[k] = IntoBlocks(g[k - 1], r[k])
    BY BlocksFold DEF A, B
  <2>2. ASSUME NEW k \in 1..Len(r)
        PROVE  g[k] = F[<<g[k - 1], r[k]>>]
    <3>1. k - 1 \in 0..Len(r) /\ r[k] \in B
      OBVIOUS
    <3> QED
      BY <1>1, <2>1, <3>1
  <2> QED
    BY <2>1, <2>2 DEF Stepwise
<1>3. Blocked(<< >>) = Unread
  <2> DEFINE e == << >>
  <2>1. e \in Seq(B) /\ Len(e) = 0
    BY EmptySeq
  <2> HIDE DEF e
  <2>2. Blocked(e) = Unread
    BY <1>2, <2>1 DEF Stepwise
  <2> QED
    BY <2>2 DEF e
<1>4. PICK g : /\ g \in [0..Len(q) -> A] /\ g[Len(q)] = Blocked(q)
               /\ Stepwise(g, F, Unread, Len(q), q)
  BY <1>2 DEF B
<1>5. Len(q) \in Nat /\ Blocked(q) \in A
  BY <1>4
<1>6. ASSUME NEW x \in ViewItem(W)
      PROVE  Blocked(Append(q, x)) = IntoBlocks(Blocked(q), x)
  <2> DEFINE r == Append(q, x)
             n == Len(q)
  <2>1. /\ r \in Seq(B) /\ Len(r) = n + 1 /\ n \in Nat
        /\ r[n + 1] = x /\ \A k \in 1..n : r[k] = q[k]
    BY DEF B
  <2> HIDE DEF r, n
  <2>2. PICK h : Stepwise(h, F, Unread, n + 1, r) /\ h[n + 1] = Blocked(r)
    BY <1>2, <2>1
  <2>3. Stepwise(g, F, Unread, n, q) /\ g[n] = Blocked(q)
    BY <1>4 DEF n
  <2>4. Prolongs(h, g, F, Unread, n, r, q)
    BY <2>1, <2>2, <2>3 DEF Prolongs
  <2>5. GoesOnBy(h, g, F, n, r)
    BY <2>4, OneMoreStep
  <2>6. h[n + 1] = F[<<Blocked(q), x>>]
    BY <2>1, <2>3, <2>5 DEF GoesOnBy
  <2> QED
    BY <1>1, <1>5, <2>2, <2>6 DEF r, B
<1> QED
  BY <1>3, <1>5, <1>6 DEF A

(* Groups of items; and what bucketize makes of one more item. *)
Group(W) == [bucket : {BucketOf(x) : x \in ViewItem(W)}, items : Seq(ViewItem(W))]

(* What bucketize does with one item: it joins the last group or makes     *)
(* one.                                                                    *)
IntoGroups(groups, item) ==
  IF groups # << >> /\ Last(groups).bucket = BucketOf(item)
  THEN [groups EXCEPT ![Len(groups)].items = Append(@, item)]
  ELSE Append(groups, [bucket |-> BucketOf(item), items |-> <<item>>])

(* One item more goes into the last group, or into one of its own. *)
LEMMA GroupStep ==
  ASSUME NEW W, NEW gs \in Seq(Group(W)), NEW x \in ViewItem(W)
  PROVE  /\ IntoGroups(gs, x) \in Seq(Group(W))
         /\ \/ \E p \in Seq(Group(W)), k \in Group(W) :
                 /\ gs = Append(p, k) /\ k.bucket = BucketOf(x)
                 /\ IntoGroups(gs, x) =
                      Append(p, [bucket |-> k.bucket, items |-> Append(k.items, x)])
            \/ /\ gs # << >> => Last(gs).bucket # BucketOf(x)
               /\ IntoGroups(gs, x) = Append(gs, [bucket |-> BucketOf(x), items |-> <<x>>])
<1>1. CASE gs # << >> /\ Last(gs).bucket = BucketOf(x)
  <2>1. PICK p \in Seq(Group(W)), k \in Group(W) : gs = Append(p, k)
    BY <1>1, FrontAndLast
  <2> DEFINE j == [bucket |-> k.bucket, items |-> Append(k.items, x)]
             n == Len(p) + 1
  <2>2. /\ Len(gs) = n /\ gs[n] = k /\ Last(gs) = k /\ n \in DOMAIN gs
        /\ DOMAIN gs = 1..n /\ \A i \in 1..Len(p) : gs[i] = p[i]
    BY <2>1 DEF Last
  <2>3. k.items \in Seq(ViewItem(W)) /\ k = [bucket |-> k.bucket, items |-> k.items]
    BY DEF Group
  <2>4. j \in Group(W)
    <3>1. Append(k.items, x) \in Seq(ViewItem(W))
      BY <2>3
    <3> QED
      BY <3>1 DEF Group
  <2>5. IntoGroups(gs, x) = [gs EXCEPT ![n] = j]
    <3>1. IntoGroups(gs, x) = [gs EXCEPT ![n].items = Append(@, x)]
      BY <1>1, <2>2 DEF IntoGroups
    <3> DEFINE l == Append(k.items, x)
    <3> HIDE DEF l
    <3>2. [k EXCEPT !.items = l] = [bucket |-> k.bucket, items |-> l]
      BY <2>3
    <3>3. [k EXCEPT !.items = Append(@, x)] = j
      BY <3>2 DEF l
    <3> HIDE DEF j, n
    <3> QED
      BY <2>2, <3>1, <3>3
  <2>6. [gs EXCEPT ![n] = j] = Append(p, j)
    <3> HIDE DEF j
    <3> DEFINE r == [gs EXCEPT ![n] = j]
    <3>1. r \in Seq(Group(W)) /\ DOMAIN r = 1..n /\ Len(p) \in Nat /\ r[n] = j
      BY <2>2, <2>4
    <3>2. \A i \in 1..Len(p) : i \in 1..n /\ i # n
      BY <3>1
    <3>3. \A i \in 1..Len(p) : r[i] = p[i]
      BY <2>2, <3>2
    <3> HIDE DEF r
    <3>4. Len(r) = Len(p) + 1
      BY <3>1
    <3>5. r = Append(p, j)
      BY <2>4, <3>1, <3>3, <3>4
    <3> QED
      BY <3>5 DEF r
  <2>7. Append(p, j) \in Seq(Group(W))
    <3> HIDE DEF j
    <3> QED
      BY <2>4
  <2>8. k.bucket = BucketOf(x)
    BY <1>1, <2>2
  <2> HIDE DEF n
  <2> QED
    BY <2>1, <2>5, <2>6, <2>7, <2>8
<1>2. CASE ~(gs # << >> /\ Last(gs).bucket = BucketOf(x))
  <2> DEFINE j == [bucket |-> BucketOf(x), items |-> <<x>>]
  <2>1. j \in Group(W)
    <3>1. <<x>> \in Seq(ViewItem(W))
      OBVIOUS
    <3> QED
      BY <3>1 DEF Group
  <2>2. IntoGroups(gs, x) = Append(gs, j)
    BY <1>2 DEF IntoGroups
  <2> HIDE DEF j
  <2>3. Append(gs, j) \in Seq(Group(W))
    BY <2>1
  <2> QED
    BY <1>2, <2>2, <2>3 DEF j
<1> QED
  BY <1>1, <1>2

(* The same as a function. *)
GroupingOf(W) == [p \in Seq(Group(W)) \X ViewItem(W) |-> IntoGroups(p[1], p[2])]

(* bucketize adds the items one by one. *)
LEMMA GroupsFold ==
  ASSUME NEW W, NEW q \in Seq(ViewItem(W))
  PROVE  \E g : /\ g \in [0..Len(q) -> Seq(Group(W))] /\ g[Len(q)] = Bucketize(q)
                /\ Stepwise(g, GroupingOf(W), << >>, Len(q), q)
<1> DEFINE A == Seq(Group(W))
           n == Len(q)
           F == GroupingOf(W)
           Run(it) == [s \in SUBSET DOMAIN q |->
                         IF s = {} THEN << >> ELSE IntoGroups(it[s \ {Max(s)}], q[Max(s)])]
           c == CHOOSE it : it = Run(it)
<1>1. n \in Nat /\ DOMAIN q = 1..n /\ q \in [1..n -> ViewItem(W)] /\ << >> \in A
  BY EmptySeq
<1>0. F \in [A \X ViewItem(W) -> A]
  BY GroupStep DEF GroupingOf
<1>2. \A x \in A, u \in ViewItem(W) : F[<<x, u>>] = IntoGroups(x, u)
  BY DEF GroupingOf
<1>3. Bucketize(q) = c[DOMAIN q]
  BY DEF Bucketize, FoldLeft, MapThenFoldSet, IntoGroups
<1> HIDE DEF A, F, n
<1>4. Folding(A, ViewItem(W), F, << >>, n, q)
  BY <1>0, <1>1 DEF Folding
<1>5. \E it : it = Run(it)
  <2>1. PICK it \in [SUBSET (1..n) -> A] : Unrolled(it, A, F, << >>, n, q)
    BY <1>4, FoldDefined
  <2>2. ASSUME NEW s \in SUBSET (1..n), s # {}
        PROVE  it[s] = IntoGroups(it[s \ {Max(s)}], q[Max(s)])
    <3>1. s \ {Max(s)} \in SUBSET (1..n) /\ Max(s) \in 1..n
      BY <1>1, <2>2, MaxOfPlaces
    <3>2. it[s \ {Max(s)}] \in A /\ q[Max(s)] \in ViewItem(W)
      BY <1>1, <3>1
    <3> QED
      BY <1>2, <2>1, <2>2, <3>2 DEF Unrolled
  <2>3. it[{}] = << >>
    BY <2>1 DEF Unrolled
  <2>4. it = Run(it)
    BY <1>1, <2>1, <2>2, <2>3
  <2> QED
    BY <2>4
<1>6. c = Run(c)
  BY <1>5
<1>7. Unrolled(c, A, F, << >>, n, q)
  <2>1. c[{}] = << >>
    BY <1>6
  <2>2. ASSUME NEW s \in SUBSET (1..n), s # {}, c[s \ {Max(s)}] \in A
        PROVE  c[s] = F[<<c[s \ {Max(s)}], q[Max(s)]>>]
    <3>1. Max(s) \in 1..n
      BY <1>1, <2>2, MaxOfPlaces
    <3>2. c[s] = IntoGroups(c[s \ {Max(s)}], q[Max(s)])
      BY <1>1, <1>6, <2>2
    <3> QED
      BY <1>1, <1>2, <2>2, <3>1, <3>2
  <2> HIDE DEF c
  <2> QED
    BY <2>1, <2>2 DEF Unrolled
<1> HIDE DEF c
<1>8. PICK g : g \in [0..n -> A] /\ Stepwise(g, F, << >>, n, q) /\ g[n] = c[1..n]
  BY <1>4, <1>7, FoldRun
<1> QED
  BY <1>1, <1>3, <1>8 DEF A, F, n

(* One item more, to the groups of a segment. *)
LEMMA GroupsLaws ==
  ASSUME NEW W, NEW q \in Seq(ViewItem(W))
  PROVE  /\ Bucketize(<< >>) = << >> /\ Bucketize(q) \in Seq(Group(W))
         /\ \A x \in ViewItem(W) : Bucketize(Append(q, x)) = IntoGroups(Bucketize(q), x)
<1> DEFINE F == GroupingOf(W)
           B == ViewItem(W)
           A == Seq(Group(W))
<1>1. \A a \in A, x \in B : F[<<a, x>>] = IntoGroups(a, x)
  BY DEF GroupingOf
<1>2. ASSUME NEW r \in Seq(B)
      PROVE  \E g : /\ g \in [0..Len(r) -> A] /\ g[Len(r)] = Bucketize(r)
                    /\ Stepwise(g, F, << >>, Len(r), r)
  BY GroupsFold
<1> HIDE DEF A, B, F
<1>3. Bucketize(<< >>) = << >>
  <2> DEFINE e == << >>
  <2>1. e \in Seq(B) /\ Len(e) = 0
    BY EmptySeq
  <2> HIDE DEF e
  <2>2. Bucketize(e) = << >>
    BY <1>2, <2>1 DEF Stepwise
  <2> QED
    BY <2>2 DEF e
<1>4. PICK g : /\ g \in [0..Len(q) -> A] /\ g[Len(q)] = Bucketize(q)
               /\ Stepwise(g, F, << >>, Len(q), q)
  BY <1>2 DEF B
<1>5. Len(q) \in Nat /\ Bucketize(q) \in A
  BY <1>4
<1>6. ASSUME NEW x \in ViewItem(W)
      PROVE  Bucketize(Append(q, x)) = IntoGroups(Bucketize(q), x)
  <2> DEFINE r == Append(q, x)
             n == Len(q)
  <2>1. /\ r \in Seq(B) /\ Len(r) = n + 1 /\ n \in Nat
        /\ r[n + 1] = x /\ \A k \in 1..n : r[k] = q[k]
    BY DEF B
  <2> HIDE DEF r, n
  <2>2. PICK h : Stepwise(h, F, << >>, n + 1, r) /\ h[n + 1] = Bucketize(r)
    BY <1>2, <2>1
  <2>3. Stepwise(g, F, << >>, n, q) /\ g[n] = Bucketize(q)
    BY <1>4 DEF n
  <2>4. Prolongs(h, g, F, << >>, n, r, q)
    BY <2>1, <2>2, <2>3 DEF Prolongs
  <2>5. GoesOnBy(h, g, F, n, r)
    BY <2>4, OneMoreStep
  <2>6. h[n + 1] = F[<<Bucketize(q), x>>]
    BY <2>1, <2>3, <2>5 DEF GoesOnBy
  <2> QED
    BY <1>1, <1>5, <2>2, <2>6 DEF r, B
<1> QED
  BY <1>3, <1>5, <1>6 DEF A

(* The items of blocks or of groups. *)
ItemsOf(bs)  == [i \in DOMAIN bs |-> bs[i].items]
AllItems(bs) == FlattenSeq(ItemsOf(bs))

(* The elements of S have items of A. *)
Hold(S, A) == \A b \in S : b.items \in Seq(A)

(* One block or group more adds its items. *)
LEMMA AllItemsLaws ==
  ASSUME NEW S, NEW A, Hold(S, A), NEW bs \in Seq(S)
  PROVE  /\ AllItems(<< >>) = << >> /\ AllItems(bs) \in Seq(A) /\ ItemsOf(bs) \in Seq(Seq(A))
         /\ \A b \in S : AllItems(Append(bs, b)) = AllItems(bs) \o b.items
<1> DEFINE n == Len(bs)
           f == ItemsOf(bs)
           C == Seq(A)
<1>1. n \in Nat /\ DOMAIN bs = 1..n /\ \A i \in 1..n : bs[i] \in S
  OBVIOUS
<1>2. \A b \in S : b.items \in C
  BY DEF Hold
<1>3. f \in Seq(C) /\ Len(f) = n /\ DOMAIN f = 1..n /\ \A i \in 1..n : f[i] = bs[i].items
  <2>1. f \in [1..n -> C] /\ \A i \in 1..n : f[i] = bs[i].items
    BY <1>1, <1>2 DEF ItemsOf
  <2> HIDE DEF f, C, n
  <2> QED
    BY <1>1, <2>1, IsASeq, LenProperties
<1>4. AllItems(<< >>) = << >>
  <2>1. ItemsOf(<< >>) = << >>
    BY DEF ItemsOf
  <2> QED
    BY <2>1, FlattenLaws, EmptySeq DEF AllItems
<1>5. AllItems(bs) \in Seq(A)
  BY <1>3, FlattenLaws DEF AllItems
<1>6. ASSUME NEW b \in S
      PROVE  AllItems(Append(bs, b)) = AllItems(bs) \o b.items
  <2> DEFINE r == Append(bs, b)
             h == ItemsOf(r)
  <2>1. /\ r \in Seq(S) /\ DOMAIN r = 1..(n + 1) /\ r[n + 1] = b /\ \A i \in 1..n : r[i] = bs[i]
    OBVIOUS
  <2>2. b.items \in C
    BY <1>2
  <2>3. h \in Seq(C) /\ Len(h) = n + 1 /\ h[n + 1] = b.items /\ \A i \in 1..n : h[i] = f[i]
    <3>1. \A i \in 1..(n + 1) : r[i] \in S
      BY <2>1
    <3> HIDE DEF r, C, n, f
    <3>2. h \in [1..(n + 1) -> C] /\ \A i \in 1..(n + 1) : h[i] = r[i].items
      BY <1>2, <2>1, <3>1 DEF ItemsOf
    <3>3. n + 1 \in 1..(n + 1) /\ \A i \in 1..n : i \in 1..(n + 1)
      BY <1>1
    <3>4. h[n + 1] = b.items /\ \A i \in 1..n : h[i] = f[i]
      BY <1>3, <2>1, <3>2, <3>3
    <3> HIDE DEF h
    <3>5. h \in Seq(C) /\ Len(h) = n + 1
      BY <1>1, <3>2, IsASeq, LenProperties
    <3> QED
      BY <3>4, <3>5
  <2> HIDE DEF r, h, f, C, n
  <2>4. h = Append(f, b.items)
    BY <1>1, <1>3, <2>2, <2>3
  <2>5. FlattenSeq(Append(f, b.items)) = FlattenSeq(f) \o b.items
    <3> DEFINE x == b.items
    <3>1. f \in Seq(Seq(A)) /\ x \in Seq(A)
      BY <1>3, <2>2 DEF C
    <3> HIDE DEF x
    <3>2. FlattenSeq(Append(f, x)) = FlattenSeq(f) \o x
      BY <3>1, FlattenLaws
    <3> QED
      BY <3>2 DEF x
  <2> QED
    BY <2>4, <2>5 DEF AllItems, f, h, r
<1> QED
  BY <1>3, <1>4, <1>5, <1>6

(* Groups and blocks do. *)
LEMMA GroupsHold ==
  ASSUME NEW W
  PROVE  Hold(Group(W), ViewItem(W)) /\ Hold(ViewBlock(W), ViewItem(W))
BY DEF Hold, Group, ViewBlock

(* Neighbours are of different buckets. *)
Unlike(gs) == \A i \in DOMAIN gs \ {1} : gs[i].bucket # gs[i - 1].bucket

(* One group more, or the last one with more in it. *)
LEMMA UnlikeLaws ==
  ASSUME NEW S, NEW gs \in Seq(S), NEW k \in S, NEW j \in S
  PROVE  /\ Unlike(<< >>)
         /\ Unlike(Append(gs, k)) /\ j.bucket = k.bucket => Unlike(Append(gs, j))
         /\ Unlike(gs) /\ (gs # << >> => Last(gs).bucket # k.bucket) => Unlike(Append(gs, k))
<1> DEFINE n == Len(gs)
           a == Append(gs, k)
           b == Append(gs, j)
<1>1. /\ n \in Nat /\ DOMAIN gs = 1..n /\ DOMAIN a = 1..(n + 1) /\ DOMAIN b = 1..(n + 1)
      /\ a[n + 1] = k /\ b[n + 1] = j /\ \A i \in 1..n : a[i] = gs[i] /\ b[i] = gs[i]
      /\ gs # << >> => Last(gs) = gs[n]
      /\ n # 0 => gs # << >>
  BY DEF Last
<1> HIDE DEF n, a, b
<1>2. \A i \in 1..(n + 1) : /\ i \in 1..n \/ i = n + 1
                            /\ i # 1 => i - 1 \in 1..n
                            /\ i # 1 /\ i = n + 1 => i - 1 = n /\ n # 0
  BY <1>1
<1>3. Unlike(<< >>)
  BY DEF Unlike
<1>4. Unlike(a) /\ j.bucket = k.bucket => Unlike(b)
  BY <1>1, <1>2 DEF Unlike
<1>5. Unlike(gs) /\ (gs # << >> => Last(gs).bucket # k.bucket) => Unlike(a)
  BY <1>1, <1>2 DEF Unlike
<1> QED
  BY <1>3, <1>4, <1>5 DEF a, b

(* bucketize leaves no item out, and makes its groups as long as they can  *)
(* be.                                                                     *)
LEMMA GroupsExact ==
  ASSUME NEW W, NEW its \in Seq(ViewItem(W))
  PROVE  /\ Bucketize(its) \in Seq(Group(W))
         /\ AllItems(Bucketize(its)) = its /\ Unlike(Bucketize(its))
<1> DEFINE S == {q \in Seq(ViewItem(W)) : AllItems(Bucketize(q)) = q /\ Unlike(Bucketize(q))}
<1>1. << >> \in S
  <2>1. Bucketize(<< >>) = << >>
    BY GroupsLaws, EmptySeq
  <2>2. AllItems(<< >>) = << >>
    BY GroupsHold, AllItemsLaws, EmptySeq
  <2>3. Unlike(<< >>)
    BY DEF Unlike
  <2> QED
    BY <2>1, <2>2, <2>3, EmptySeq
<1>2. ASSUME NEW q \in Seq(ViewItem(W)), NEW x \in ViewItem(W), q \in S
      PROVE  Append(q, x) \in S
  <2> DEFINE gs == Bucketize(q)
             hs == Bucketize(Append(q, x))
  <2>1. gs \in Seq(Group(W)) /\ hs = IntoGroups(gs, x)
    BY GroupsLaws
  <2>2. AllItems(gs) = q /\ Unlike(gs)
    BY <1>2
  <2>3. Append(q, x) \in Seq(ViewItem(W))
    OBVIOUS
  <2> HIDE DEF gs, hs
  <2>4. CASE \E p \in Seq(Group(W)), k \in Group(W) :
               /\ gs = Append(p, k) /\ k.bucket = BucketOf(x)
               /\ IntoGroups(gs, x) = Append(p, [bucket |-> k.bucket, items |-> Append(k.items, x)])
    <3>1. PICK p \in Seq(Group(W)), k \in Group(W) :
               /\ gs = Append(p, k) /\ k.bucket = BucketOf(x)
               /\ IntoGroups(gs, x) = Append(p, [bucket |-> k.bucket, items |-> Append(k.items, x)])
      BY <2>4
    <3> DEFINE j == [bucket |-> k.bucket, items |-> Append(k.items, x)]
    <3>2. k.items \in Seq(ViewItem(W)) /\ k.bucket \in {BucketOf(y) : y \in ViewItem(W)}
      BY DEF Group
    <3>3. Append(k.items, x) \in Seq(ViewItem(W))
      BY <3>2
    <3>4. j \in Group(W) /\ j.bucket = k.bucket /\ j.items = Append(k.items, x)
      BY <3>2, <3>3 DEF Group
    <3> HIDE DEF j
    <3>5. AllItems(gs) = AllItems(p) \o k.items /\ AllItems(Append(p, j)) = AllItems(p) \o j.items
          /\ AllItems(p) \in Seq(ViewItem(W))
      BY <3>1, <3>4, GroupsHold, AllItemsLaws
    <3>6. AllItems(p) \o Append(k.items, x) = Append(AllItems(p) \o k.items, x)
      <4> DEFINE a == AllItems(p)
                 b == k.items
      <4>1. a \in Seq(ViewItem(W)) /\ b \in Seq(ViewItem(W))
        BY <3>2, <3>5
      <4> HIDE DEF a, b
      <4>2. a \o Append(b, x) = Append(a \o b, x)
        BY <4>1
      <4> QED
        BY <4>2 DEF a, b
    <3>7. Unlike(Append(p, j))
      <4>1. Unlike(Append(p, k))
        BY <2>2, <3>1
      <4> QED
        BY <3>4, <4>1, UnlikeLaws
    <3>8. hs = Append(p, j)
      BY <2>1, <3>1 DEF j
    <3>9. AllItems(hs) = Append(q, x) /\ Unlike(hs)
      BY <2>2, <3>4, <3>5, <3>6, <3>7, <3>8
    <3> QED
      BY <2>3, <3>9 DEF hs
  <2>5. CASE /\ gs # << >> => Last(gs).bucket # BucketOf(x)
             /\ IntoGroups(gs, x) = Append(gs, [bucket |-> BucketOf(x), items |-> <<x>>])
    <3> DEFINE j == [bucket |-> BucketOf(x), items |-> <<x>>]
    <3>1. <<x>> \in Seq(ViewItem(W))
      OBVIOUS
    <3>2. j \in Group(W) /\ j.bucket = BucketOf(x) /\ j.items = <<x>>
      BY <3>1 DEF Group
    <3> HIDE DEF j
    <3>3. AllItems(Append(gs, j)) = AllItems(gs) \o j.items
      BY <2>1, <3>2, GroupsHold, AllItemsLaws
    <3>4. q \o <<x>> = Append(q, x)
      BY CatOne
    <3>5. Unlike(Append(gs, j))
      BY <2>1, <2>2, <2>5, <3>2, UnlikeLaws
    <3>6. hs = Append(gs, j)
      BY <2>1, <2>5 DEF j
    <3>7. AllItems(hs) = Append(q, x) /\ Unlike(hs)
      BY <2>2, <3>2, <3>3, <3>4, <3>5, <3>6
    <3> QED
      BY <2>3, <3>7 DEF hs
  <2> QED
    BY <2>1, <2>4, <2>5, GroupStep
<1> HIDE DEF S
<1>3. Seq(ViewItem(W)) \subseteq S
  BY <1>1, <1>2, ListInduction
<1> QED
  BY <1>3, GroupsLaws DEF S

(* No segment follows a segment; and no block is open to the next. *)
Spaced(bs) == \A i \in DOMAIN bs \ {1} : "content" \in {bs[i - 1].kind, bs[i].kind}
Closed(bs) == bs # << >> => Last(bs).kind = "content"

(* One block more. *)
LEMMA SpacedLaws ==
  ASSUME NEW S, NEW bs \in Seq(S), NEW b \in S, Spaced(bs), Closed(bs) \/ b.kind = "content"
  PROVE  Spaced(Append(bs, b)) /\ (b.kind = "content" => Closed(Append(bs, b)))
<1> DEFINE n == Len(bs)
           a == Append(bs, b)
<1>1. /\ n \in Nat /\ DOMAIN bs = 1..n /\ DOMAIN a = 1..(n + 1)
      /\ a[n + 1] = b /\ \A i \in 1..n : a[i] = bs[i]
      /\ bs # << >> => Last(bs) = bs[n]
      /\ n # 0 => bs # << >>
      /\ Last(a) = b
  BY DEF Last
<1> HIDE DEF n, a
<1>2. \A i \in 1..(n + 1) : /\ i \in 1..n \/ i = n + 1
                            /\ i # 1 => i - 1 \in 1..n
                            /\ i # 1 /\ i = n + 1 => i - 1 = n /\ n # 0
  BY <1>1
<1>3. Spaced(a)
  <2> SUFFICES ASSUME NEW i \in DOMAIN a \ {1}
               PROVE  "content" \in {a[i - 1].kind, a[i].kind}
    BY DEF Spaced
  <2>1. CASE i \in 1..n
    BY <1>1, <1>2, <2>1 DEF Spaced
  <2>2. CASE i = n + 1
    BY <1>1, <1>2, <2>2 DEF Closed
  <2> QED
    BY <1>1, <1>2, <2>1, <2>2
<1> QED
  BY <1>1, <1>3 DEF Closed, a

(* A flush leaves no item out. *)
LEMMA FlushExact ==
  ASSUME NEW W, NEW bs \in Seq(ViewBlock(W)), NEW p \in Seq(ViewItem(W)), Spaced(bs), Closed(bs)
  PROVE  /\ FlushBlocks(bs, p) \in Seq(ViewBlock(W))
         /\ AllItems(FlushBlocks(bs, p)) = AllItems(bs) \o p
         /\ Spaced(FlushBlocks(bs, p))
<1>1. FlushBlocks(bs, p) \in Seq(ViewBlock(W)) /\ AllItems(bs) \in Seq(ViewItem(W))
  BY FlushNames, GroupsHold, AllItemsLaws
<1>2. CASE p = << >>
  <2>1. FlushBlocks(bs, p) = bs
    BY <1>2 DEF FlushBlocks
  <2>2. AllItems(bs) \o << >> = AllItems(bs)
    BY <1>1
  <2> QED
    BY <1>1, <1>2, <2>1, <2>2
<1>3. CASE p # << >>
  <2>1. PICK b \in ViewBlock(W) : FlushBlocks(bs, p) = Append(bs, b) /\ b.items = p
    <3>1. Head(p) \in ViewItem(W) /\ Head(p).id \in ViewId /\ <<Head(p)>> \in Seq(ViewItem(W))
      BY <1>3, ViewItemIsTyped
    <3>2. CASE Len(p) = 1 /\ IsTool(Head(p))
      <4>1. Content(Head(p)) \in ViewBlock(W)
        BY <3>1 DEF Content, ViewBlock
      <4>2. <<Head(p)>> = p
        BY <3>2
      <4>3. /\ FlushBlocks(bs, p) = Append(bs, Content(Head(p)))
            /\ Content(Head(p)).items = <<Head(p)>>
        BY <1>3, <3>2 DEF FlushBlocks, Content
      <4> QED
        BY <4>1, <4>2, <4>3
    <3>3. CASE ~(Len(p) = 1 /\ IsTool(Head(p)))
      <4>1. Segment(p) \in ViewBlock(W) /\ Segment(p).items = p
        BY <3>1 DEF Segment, ViewBlock
      <4>2. FlushBlocks(bs, p) = Append(bs, Segment(p))
        BY <1>3, <3>3 DEF FlushBlocks
      <4> QED
        BY <4>1, <4>2
    <3> QED
      BY <3>2, <3>3
  <2>2. AllItems(Append(bs, b)) = AllItems(bs) \o b.items
    BY GroupsHold, AllItemsLaws
  <2>3. Spaced(Append(bs, b))
    BY SpacedLaws
  <2> QED
    BY <1>1, <2>1, <2>2, <2>3
<1> QED
  BY <1>2, <1>3

(* What is to be shown. *)
Visible(W) == {x \in ViewItem(W) : x.kind # "blank"}

(* What splitBlocks has made of a chat so far: blocks that are spaced and  *)
(* closed, and with what is pending hold all that is to be shown.          *)
BlockedInv(acc, its, W) ==
  /\ acc \in Blocking(W) /\ Spaced(acc.blocks) /\ Closed(acc.blocks)
  /\ AllItems(acc.blocks) \o acc.pending = Sel(its, Visible(W))

(* It stays so with one item more, *)
LEMMA BlockedStep ==
  ASSUME NEW W, NEW its \in Seq(ViewItem(W)), NEW acc, BlockedInv(acc, its, W),
         NEW x \in ViewItem(W)
  PROVE  BlockedInv(IntoBlocks(acc, x), Append(its, x), W)
<1> DEFINE r == IntoBlocks(acc, x)
           v == Sel(its, Visible(W))
<1>1. /\ acc \in Blocking(W) /\ Spaced(acc.blocks) /\ Closed(acc.blocks)
      /\ AllItems(acc.blocks) \o acc.pending = v
      /\ acc.blocks \in Seq(ViewBlock(W)) /\ acc.pending \in Seq(ViewItem(W))
      /\ x.id \in ViewId /\ x.kind \in {"thought", "tool", "body", "blank", "turn-end"}
  BY ViewItemIsTyped DEF BlockedInv, Blocking
<1>2. /\ r \in Blocking(W) /\ v \in Seq(ViewItem(W))
      /\ Sel(Append(its, x), Visible(W)) = IF x.kind = "blank" THEN v ELSE Append(v, x)
  <2>1. r \in Blocking(W)
    BY <1>1, BlockStep
  <2>2. x \in Visible(W) <=> x.kind # "blank"
    BY DEF Visible
  <2> QED
    BY <2>1, <2>2, SelLaws
<1>3. AllItems(acc.blocks) \in Seq(ViewItem(W))
  BY <1>1, GroupsHold, AllItemsLaws
<1>4. CASE x.kind \in {"thought", "tool"}
  <2>1. r.blocks = acc.blocks /\ r.pending = Append(acc.pending, x)
    BY <1>1, <1>4, BlockStep
  <2>2. AllItems(acc.blocks) \o Append(acc.pending, x)
          = Append(AllItems(acc.blocks) \o acc.pending, x)
    <3> DEFINE a == AllItems(acc.blocks)
               b == acc.pending
    <3>1. a \in Seq(ViewItem(W)) /\ b \in Seq(ViewItem(W))
      BY <1>1, <1>3
    <3> HIDE DEF a, b
    <3>2. a \o Append(b, x) = Append(a \o b, x)
      BY <3>1
    <3> QED
      BY <3>2 DEF a, b
  <2> HIDE DEF r, v
  <2> QED
    BY <1>1, <1>2, <1>4, <2>1, <2>2 DEF BlockedInv, r
<1>5. CASE x.kind = "blank"
  <2>1. r = acc
    BY <1>1, <1>5, BlockStep
  <2> HIDE DEF r, v
  <2> QED
    BY <1>1, <1>2, <1>5, <2>1 DEF BlockedInv, r
<1>6. CASE x.kind \in {"body", "turn-end"}
  <2> DEFINE f == FlushBlocks(acc.blocks, acc.pending)
             b == Content(x)
  <2>1. r = [blocks |-> Append(f, b), pending |-> << >>]
    BY <1>6 DEF IntoBlocks, IsTimelineItem, IsTool
  <2>2. f \in Seq(ViewBlock(W)) /\ AllItems(f) = v /\ Spaced(f)
    BY <1>1, FlushExact
  <2>3. <<x>> \in Seq(ViewItem(W))
    OBVIOUS
  <2>4. b \in ViewBlock(W) /\ b.kind = "content" /\ b.items = <<x>>
    BY <1>1, <2>3 DEF Content, ViewBlock
  <2> HIDE DEF f, b, r, v
  <2>5. AllItems(Append(f, b)) = Append(v, x)
    <3>1. AllItems(Append(f, b)) = AllItems(f) \o b.items
      BY <2>2, <2>4, GroupsHold, AllItemsLaws
    <3>2. v \o <<x>> = Append(v, x)
      BY <1>2, CatOne
    <3> QED
      BY <2>2, <2>4, <3>1, <3>2
  <2>6. Spaced(Append(f, b)) /\ Closed(Append(f, b))
    BY <2>2, <2>4, SpacedLaws
  <2>7. Append(v, x) \o << >> = Append(v, x)
    <3>1. Append(v, x) \in Seq(ViewItem(W))
      BY <1>2
    <3> QED
      BY <3>1
  <2>8. r.blocks = Append(f, b) /\ r.pending = << >>
    BY <2>1
  <2>9. Sel(Append(its, x), Visible(W)) = Append(v, x)
    BY <1>2, <1>6
  <2> QED
    BY <1>2, <2>5, <2>6, <2>7, <2>8, <2>9 DEF BlockedInv, r
<1> QED
  BY <1>1, <1>4, <1>5, <1>6

(* and so it is for every chat. *)
LEMMA BlockedExact ==
  ASSUME NEW W, NEW its \in Seq(ViewItem(W))
  PROVE  BlockedInv(Blocked(its), its, W)
<1> DEFINE S == {q \in Seq(ViewItem(W)) : BlockedInv(Blocked(q), q, W)}
<1>1. << >> \in S
  <2>1. << >> \in Seq(ViewItem(W)) /\ << >> \in Seq(ViewBlock(W))
    BY EmptySeq
  <2>2. Blocked(<< >>) = Unread /\ Blocked(<< >>) \in Blocking(W)
    BY <2>1, BlockedLaws
  <2>3. Unread.blocks = << >> /\ Unread.pending = << >>
    BY DEF Unread
  <2>4. AllItems(<< >>) = << >> /\ Sel(<< >>, Visible(W)) = << >>
    BY <2>1, GroupsHold, AllItemsLaws, SelLaws
  <2>5. Spaced(<< >>) /\ Closed(<< >>) /\ << >> \o << >> = << >>
    BY DEF Spaced, Closed
  <2> QED
    BY <2>1, <2>2, <2>3, <2>4, <2>5 DEF BlockedInv
<1>2. ASSUME NEW q \in Seq(ViewItem(W)), NEW x \in ViewItem(W), q \in S
      PROVE  Append(q, x) \in S
  <2>1. Blocked(Append(q, x)) = IntoBlocks(Blocked(q), x)
    BY BlockedLaws
  <2>2. BlockedInv(Blocked(q), q, W) /\ Append(q, x) \in Seq(ViewItem(W))
    BY <1>2
  <2>3. BlockedInv(Blocked(Append(q, x)), Append(q, x), W)
    BY <2>1, <2>2, BlockedStep
  <2> QED
    BY <2>2, <2>3
<1> HIDE DEF S
<1>3. Seq(ViewItem(W)) \subseteq S
  BY <1>1, <1>2, ListInduction
<1> QED
  BY <1>3 DEF S

(* The items of a segment. *)
LEMMA SegmentHasItems ==
  ASSUME NEW W, NEW its \in Seq(ViewItem(W)), NEW b \in Segments(its)
  PROVE  b.items \in Seq(ViewItem(W))
<1>1. BlockedInv(Blocked(its), its, W)
  BY BlockedExact
<1>2. SplitBlocks(its) = FlushBlocks(Blocked(its).blocks, Blocked(its).pending)
  BY DEF SplitBlocks, Blocked, Unread
<1>3. SplitBlocks(its) \in Seq(ViewBlock(W))
  BY <1>1, <1>2, FlushExact DEF BlockedInv, Blocking
<1>4. PICK i \in DOMAIN SplitBlocks(its) : b = SplitBlocks(its)[i]
  BY DEF Segments, ToSet
<1>5. b \in ViewBlock(W)
  BY <1>3, <1>4
<1> QED
  BY <1>5 DEF ViewBlock

(* The blocks of any chat show every item that is to be shown, once and in *)
(* its order; no two segments follow one another, and no two groups of a   *)
(* segment that could be one (segments.ts, splitBlocks and bucketize).     *)
THEOREM BlocksAreExactForAll ==
  ASSUME NEW W
  PROVE  \A its \in Seq(ViewItem(W)) : BlocksAreExact(its)
<1> SUFFICES ASSUME NEW its \in Seq(ViewItem(W))
             PROVE  BlocksAreExact(its)
  OBVIOUS
<1> DEFINE acc == Blocked(its)
           blocks == SplitBlocks(its)
<1>1. BlockedInv(acc, its, W)
  BY BlockedExact
<1>2. blocks = FlushBlocks(acc.blocks, acc.pending)
  BY DEF SplitBlocks, Blocked, Unread
<1> HIDE DEF acc
<1>3. blocks \in Seq(ViewBlock(W)) /\ AllItems(blocks) = Sel(its, Visible(W)) /\ Spaced(blocks)
  BY <1>1, <1>2, FlushExact DEF BlockedInv, Blocking
<1>4. Sel(its, Visible(W)) = Those(its, {i \in DOMAIN its : its[i].kind # "blank"})
  <2>1. {i \in DOMAIN its : its[i] \in Visible(W)} = {i \in DOMAIN its : its[i].kind # "blank"}
    BY DEF Visible
  <2> QED
    BY <2>1 DEF Sel
<1>5. \A b \in Segments(its) : b.items \in Seq(ViewItem(W))
  BY SegmentHasItems
<1>6. \A b \in Segments(its) : AllItems(Bucketize(b.items)) = b.items /\ Unlike(Bucketize(b.items))
  BY <1>5, GroupsExact
<1> QED
  BY <1>3, <1>4, <1>6 DEF BlocksAreExact, AllItems, ItemsOf, Spaced, Unlike
-----------------------------------------------------------------------------
(***************************************************************************)
(* The numbers on segments and turns                                       *)
(***************************************************************************)

(* The weights of the lists in B. *)
ListsOf(w, B) == [s \in B |-> Weigh(w, s)]

(* It lists what w weighs. *)
LEMMA ListsOfWeigh ==
  ASSUME NEW A, NEW w \in [A -> Nat], NEW B, B = Seq(A)
  PROVE  Listing(A, w, B, ListsOf(w, B))
<1>1. \A s \in B : Weigh(w, s) \in Nat
  BY WeighLaws
<1> QED
  BY <1>1 DEF Listing, ListsOf

(* The weight of an item that a weight of cards makes. *)
ItemWeight(w, W) == [x \in ViewItem(W) |-> IF IsTool(x) THEN w[x.card] ELSE 0]

(* It is a weight of items. *)
LEMMA ItemWeighs ==
  ASSUME NEW W, NEW w \in [ViewCard(W) -> Nat]
  PROVE  ItemWeight(w, W) \in [ViewItem(W) -> Nat] /\ OfCard(ItemWeight(w, W), w, W)
<1>1. \A x \in ViewItem(W) : IsTool(x) => w[x.card] \in Nat
  BY CardOfTool
<1> QED
  BY <1>1 DEF ItemWeight, OfCard

(* The cards of the labels of some groups. *)
Labels(gs) == [i \in DOMAIN gs |-> LabelCards(gs[i].items)]

(* The cards that a label counts, group by group, weigh what all cards of  *)
(* the segment do, if only what has settled has a weight.                  *)
LEMMA WeighGroups ==
  ASSUME NEW W, NEW w \in [ViewCard(W) -> Nat], OfSettled(w, W), NEW its \in Seq(ViewItem(W))
  PROVE  /\ FlattenSeq(Labels(Bucketize(its))) \in Seq(ViewCard(W))
         /\ Weigh(w, FlattenSeq(Labels(Bucketize(its)))) = Weigh(w, Cards(its))
<1> DEFINE A == ViewItem(W)
           K == ViewCard(W)
           B == Seq(K)
           C == Seq(A)
           gs == Bucketize(its)
           labels == Labels(gs)
           parts == ItemsOf(gs)
           v == ItemWeight(w, W)
<1>1. gs \in Seq(Group(W)) /\ AllItems(gs) = its
  BY GroupsExact
<1>2. v \in [A -> Nat] /\ OfCard(v, w, W)
  BY ItemWeighs
<1>3. Listing(K, w, B, ListsOf(w, B)) /\ Listing(A, v, C, ListsOf(v, C))
  BY <1>2, ListsOfWeigh
<1>4. parts \in Seq(C)
  BY <1>1, GroupsHold, AllItemsLaws
<1> HIDE DEF gs, v
<1>5. /\ DOMAIN parts = DOMAIN gs /\ DOMAIN labels = DOMAIN gs
      /\ \A i \in DOMAIN gs : /\ gs[i].items \in C /\ parts[i] = gs[i].items
                              /\ labels[i] = LabelCards(gs[i].items)
  <2>1. \A i \in DOMAIN gs : gs[i] \in Group(W)
    BY <1>1
  <2> QED
    BY <2>1 DEF Group, ItemsOf, Labels
<1>6. ASSUME NEW i \in DOMAIN gs
      PROVE  labels[i] \in B /\ Weigh(w, labels[i]) = Weigh(v, parts[i])
  <2> DEFINE p == parts[i]
  <2>1. p \in Seq(ViewItem(W)) /\ labels[i] = LabelCards(p)
    BY <1>5
  <2> HIDE DEF p
  <2>2. LabelCards(p) \in B /\ Weigh(w, LabelCards(p)) = Weigh(w, Cards(p))
    BY <2>1, WeighLabel
  <2>3. Weigh(w, Cards(p)) = Weigh(v, p)
    BY <1>2, <2>1, WeighCards
  <2> QED
    BY <2>1, <2>2, <2>3 DEF p
<1>7. labels \in Seq(B)
  <2>1. DOMAIN gs = 1..Len(gs) /\ Len(gs) \in Nat
    BY <1>1
  <2> HIDE DEF B
  <2>2. labels \in [1..Len(gs) -> B]
    BY <1>6, <2>1 DEF Labels
  <2> QED
    BY <2>1, <2>2, IsASeq
<1> HIDE DEF labels, parts
<1>8. SameWeights(ListsOf(w, B), labels, ListsOf(v, C), parts)
  <2>1. \A i \in DOMAIN gs : parts[i] \in C
    BY <1>5
  <2>2. \A i \in DOMAIN gs : ListsOf(w, B)[labels[i]] = ListsOf(v, C)[parts[i]]
    BY <1>6, <2>1 DEF ListsOf
  <2> QED
    BY <1>5, <2>2 DEF SameWeights
<1>9. Weigh(w, FlattenSeq(labels)) = Weigh(ListsOf(w, B), labels)
  BY <1>3, <1>7, WeighFlat
<1>10. Weigh(v, FlattenSeq(parts)) = Weigh(ListsOf(v, C), parts)
  BY <1>3, <1>4, WeighFlat
<1>11. Weigh(ListsOf(w, B), labels) = Weigh(ListsOf(v, C), parts)
  BY <1>8, WeighAlike
<1>12. FlattenSeq(parts) = its
  BY <1>1 DEF AllItems, parts
<1>13. Weigh(w, Cards(its)) = Weigh(v, its)
  BY <1>2, WeighCards
<1>14. FlattenSeq(labels) \in Seq(K)
  BY <1>7, FlattenLaws
<1> QED
  BY <1>9, <1>10, <1>11, <1>12, <1>13, <1>14 DEF labels, gs

(* The items of the groups, added up. *)
LEMMA CountGroups ==
  ASSUME NEW W, NEW its \in Seq(ViewItem(W))
  PROVE  LET f == [i \in DOMAIN Bucketize(its) |-> Len(Bucketize(its)[i].items)]
         IN  f \in Seq(Nat) /\ SumOver(f, DOMAIN f) = Len(its)
<1> DEFINE A == ViewItem(W)
           C == Seq(A)
           gs == Bucketize(its)
           f == [i \in DOMAIN gs |-> Len(gs[i].items)]
           parts == ItemsOf(gs)
           one == [x \in A |-> 1]
           all == ListsOf(one, C)
<1>1. gs \in Seq(Group(W)) /\ AllItems(gs) = its
  BY GroupsExact
<1>2. one \in [A -> Nat] /\ \A x \in A : one[x] = 1
  OBVIOUS
<1>3. parts \in Seq(C)
  BY <1>1, GroupsHold, AllItemsLaws
<1> HIDE DEF gs, one
<1>4. Listing(A, one, C, all)
  BY <1>2, ListsOfWeigh
<1>5. \A i \in DOMAIN gs : gs[i].items \in C /\ parts[i] = gs[i].items
  <2>1. \A i \in DOMAIN gs : gs[i] \in Group(W)
    BY <1>1
  <2> QED
    BY <2>1 DEF Group, ItemsOf
<1>6. \A i \in DOMAIN gs : all[parts[i]] = f[i] /\ f[i] \in Nat
  <2>1. ASSUME NEW s \in C
        PROVE  Weigh(one, s) = Len(s) /\ Len(s) \in Nat
    BY <1>2, WeighLength
  <2> QED
    BY <1>5, <2>1 DEF ListsOf
<1>7. f \in Seq(Nat) /\ DOMAIN f = DOMAIN gs
  <2>1. DOMAIN gs = 1..Len(gs) /\ Len(gs) \in Nat
    BY <1>1
  <2>2. f \in [1..Len(gs) -> Nat]
    BY <1>6, <2>1
  <2> HIDE DEF f
  <2> QED
    BY <2>1, <2>2, NumbersAt
<1>8. Weigh(all, parts) = SumOver(f, DOMAIN f)
  <2>1. DOMAIN parts = DOMAIN gs
    BY DEF ItemsOf
  <2>2. [i \in DOMAIN parts |-> all[parts[i]]] = f
    BY <1>6, <2>1
  <2> QED
    BY <1>7, <2>1, <2>2 DEF Weigh
<1> HIDE DEF all, f, parts
<1>9. Weigh(one, FlattenSeq(parts)) = Weigh(all, parts)
  BY <1>3, <1>4, WeighFlat
<1>10. FlattenSeq(parts) = its
  BY <1>1 DEF AllItems, parts
<1>11. Weigh(one, its) = Len(its)
  BY <1>2, WeighLength
<1> QED
  BY <1>7, <1>8, <1>9, <1>10, <1>11 DEF f, gs

(* The counts of the groups that a label names. *)
Shown(its) ==
  LET label == SegmentLabel(its)
  IN  [i \in DOMAIN Bucketize(its) |->
         IF i \in DOMAIN label.parts THEN label.parts[i].count ELSE 0]

(* What a label says of lines, failures and items is true of the whole     *)
(* segment.                                                                *)
LabelIsTrue(its) ==
  LET label == SegmentLabel(its)
  IN  /\ \A i \in DOMAIN label.stat : label.stat[i].added = LinesOf(Cards(its))
      /\ label.failed = Len(Failures(Cards(its)))
      /\ SumOver(Shown(its), DOMAIN Shown(its)) + label.rest = Len(its)

(* Only what has settled counts as written or as failed. *)
LEMMA SettledWeights ==
  ASSUME NEW W
  PROVE  OfSettled(LinesCounted(W), W) /\ OfSettled(FailedOnce(W), W)
BY DEF OfSettled, LinesCounted, FailedOnce, IsSettled, CountsTowardChanges, HasFailed

(* The lines and the failures of a label are those of the segment: what    *)
(* has not settled, and is left out, has none.                             *)
LEMMA LabelHasLines ==
  ASSUME NEW W, NEW its \in Seq(ViewItem(W))
  PROVE  LET label == SegmentLabel(its)
         IN  /\ \A i \in DOMAIN label.stat : label.stat[i].added = LinesOf(Cards(its))
             /\ label.failed = Len(Failures(Cards(its)))
<1> DEFINE cards == FlattenSeq(Labels(Bucketize(its)))
           all == Cards(its)
           stat == AggregateChanges(cards)
           label == SegmentLabel(its)
<1>1. /\ label.failed = Len(Failures(cards))
      /\ label.stat = IF DOMAIN stat.files = {} THEN << >> ELSE <<stat>>
  BY DEF SegmentLabel, Labels
<1>2. all \in Seq(ViewCard(W))
  BY CardsLaws
<1>3. LinesCounted(W) \in [ViewCard(W) -> Nat] /\ FailedOnce(W) \in [ViewCard(W) -> Nat]
  BY WeightsOfCards
<1>4. /\ cards \in Seq(ViewCard(W))
      /\ Weigh(LinesCounted(W), cards) = Weigh(LinesCounted(W), all)
      /\ Weigh(FailedOnce(W), cards) = Weigh(FailedOnce(W), all)
  BY <1>3, SettledWeights, WeighGroups
<1> HIDE DEF cards, all, label
<1>5. stat.added = LinesOf(all)
  BY <1>2, <1>4, ChangesAdded, LinesAdded
<1>6. Len(Failures(cards)) = Len(Failures(all))
  BY <1>2, <1>4, FailuresAdded
<1> HIDE DEF stat
<1>7. \A i \in DOMAIN label.stat : label.stat[i] = stat
  BY <1>1
<1> QED
  BY <1>1, <1>5, <1>6, <1>7 DEF label, all

(* The groups a label names and the rest have the items of the segment. *)
LEMMA LabelHasItems ==
  ASSUME NEW W, NEW its \in Seq(ViewItem(W))
  PROVE  SumOver(Shown(its), DOMAIN Shown(its)) + SegmentLabel(its).rest = Len(its)
<1> DEFINE gs == Bucketize(its)
           D == DOMAIN gs
           parts == [i \in D |-> GroupSummary(gs[i])]
           ahead(i) == {j \in DOMAIN parts : \/ parts[j].count > parts[i].count
                                             \/ parts[j].count = parts[i].count /\ j < i}
           named == {i \in DOMAIN parts : Cardinality(ahead(i)) < MaxParts}
           f == [i \in D |-> Len(gs[i].items)]
           label == SegmentLabel(its)
           shown == Shown(its)
<1>1. /\ label.parts = [i \in named |-> parts[i]]
      /\ label.rest = SumOver([i \in DOMAIN parts |-> parts[i].count], DOMAIN parts \ named)
  BY DEF SegmentLabel
<1>2. f \in Seq(Nat) /\ SumOver(f, DOMAIN f) = Len(its)
  BY CountGroups
<1>3. \A i \in D : parts[i].count = f[i]
  BY DEF GroupSummary
<1>4. shown = [i \in D |-> IF i \in DOMAIN label.parts THEN label.parts[i].count ELSE 0]
  BY DEF Shown
<1> DEFINE I == named
<1>5. I \subseteq D /\ DOMAIN parts = D
  OBVIOUS
<1> HIDE DEF label, shown, gs, I
<1>6. DOMAIN label.parts = I /\ label.rest = SumOver([i \in D |-> parts[i].count], D \ I)
      /\ \A i \in I : label.parts[i] = parts[i]
  BY <1>1 DEF I
<1> HIDE DEF parts
<1>7. label.rest = SumOver(f, D \ I)
  <2>1. [i \in D |-> parts[i].count] = f
    BY <1>3
  <2> QED
    BY <1>6, <2>1
<1>8. shown = [i \in D |-> IF i \in I THEN f[i] ELSE 0]
  BY <1>3, <1>4, <1>5, <1>6
<1>9. DOMAIN f = D /\ D = 1..Len(f) /\ Len(f) \in Nat
  BY <1>2
<1> HIDE DEF f, D
<1>10. shown \in Seq(Nat) /\ Len(shown) = Len(f) /\ DOMAIN shown = D
  <2>1. \A i \in D : f[i] \in Nat
    BY <1>2, <1>9
  <2>2. shown \in [1..Len(f) -> Nat]
    BY <1>8, <1>9, <2>1
  <2> QED
    BY <1>9, <2>2, NumbersAt
<1>11. SumOver(shown, D) = SumOver(f, I)
  <2>1. \A k \in 1..Len(shown) : (IF k \in D THEN shown[k] ELSE 0) = (IF k \in I THEN f[k] ELSE 0)
    BY <1>8, <1>9, <1>10
  <2> QED
    BY <1>2, <1>10, <2>1, SumSees
<1>12. SumOver(f, I) + SumOver(f, D \ I) = SumOver(f, D)
  BY <1>2, <1>9, SumParts
<1> QED
  BY <1>2, <1>7, <1>9, <1>10, <1>11, <1>12 DEF label, shown

-----------------------------------------------------------------------------
(* The ends of turns, the last of them, and the cards of each turn. *)
EndsOf(its) == {i \in DOMAIN its : its[i].kind = "turn-end"}
LastEnd(its) == Max({0} \cup EndsOf(its))

(* The lines of each turn, at its end. *)
TurnAdded(its) ==
  [i \in DOMAIN its |-> IF i \in DOMAIN CardsByTurn(its)
                        THEN AggregateChanges(CardsByTurn(its)[i]).added ELSE 0]

(* The turns of a chat have the lines of its cards up to the last end. *)
TurnsAddUp(its) ==
  SumOver(TurnAdded(its), DOMAIN TurnAdded(its)) = LinesOf(Cards(SubSeq(its, 1, LastEnd(its))))

(* The largest of some places, and 0 if there is none. *)
LEMMA MaxWithNone ==
  ASSUME NEW n \in Nat, NEW s \in SUBSET (1..n)
  PROVE  Max({0} \cup s) \in 0..n /\ (s = {} => Max({0} \cup s) = 0)
         /\ (n \in s => Max({0} \cup s) = n)
<1>1. CASE s = {}
  <2>1. \A x \in {0} : (\A y \in {0} : x >= y) <=> x = 0
    OBVIOUS
  <2>2. Max({0}) = 0
    BY <2>1 DEF Max
  <2>3. {0} \cup s = {0}
    BY <1>1
  <2> QED
    BY <1>1, <2>2, <2>3
<1>2. CASE s # {}
  <2>1. Max(s) \in s /\ \A x \in s : x <= Max(s)
    BY <1>2, MaxOfPlaces
  <2> DEFINE m == Max(s)
             t == {0} \cup s
  <2>3. m \in 1..n /\ m \in t /\ \A x \in t : x \in Nat /\ x <= m
    <3>1. m \in s /\ \A x \in s : x <= m
      BY <2>1
    <3> HIDE DEF m
    <3>2. m \in 1..n /\ \A x \in s : x \in Nat
      BY <3>1
    <3> QED
      BY <3>1, <3>2
  <2>2. m \in 1..n /\ \A x \in t : (\A y \in t : x >= y) <=> x = m
    <3> HIDE DEF m, t
    <3> QED
      BY <2>3
  <2> HIDE DEF m, t
  <2>4. Max(t) = m
    BY <2>2, <2>3 DEF Max
  <2>5. n \in s => m = n
    BY <2>1, <2>2 DEF m
  <2> QED
    BY <1>2, <2>2, <2>4, <2>5 DEF t
<1> QED
  BY <1>1, <1>2

(* A part of a list is the same in a longer one; and a list is its parts.  *)
LEMMA PartsOfLists ==
  ASSUME NEW A, NEW q \in Seq(A)
  PROVE  /\ \A a \in 1..(Len(q) + 1), b \in 0..Len(q) : SubSeq(q, a, b) \in Seq(A)
         /\ \A x \in A, a \in 1..(Len(q) + 1), b \in 0..Len(q) :
              SubSeq(Append(q, x), a, b) = SubSeq(q, a, b)
         /\ \A m \in 0..Len(q) : SubSeq(q, 1, m) \o SubSeq(q, m + 1, Len(q)) = q
<1> DEFINE n == Len(q)
<1>1. n \in Nat /\ DOMAIN q = 1..n /\ \A i \in 1..n : q[i] \in A
  OBVIOUS
<1>2. ASSUME NEW a \in 1..(n + 1), NEW b \in 0..n
      PROVE  SubSeq(q, a, b) \in Seq(A)
  OBVIOUS
<1>3. ASSUME NEW x \in A, NEW a \in 1..(n + 1), NEW b \in 0..n
      PROVE  SubSeq(Append(q, x), a, b) = SubSeq(q, a, b)
  OBVIOUS
<1>4. ASSUME NEW m \in 0..n
      PROVE  SubSeq(q, 1, m) \o SubSeq(q, m + 1, n) = q
  <2> DEFINE a == SubSeq(q, 1, m)
             b == SubSeq(q, m + 1, n)
  <2>1. a \in Seq(A) /\ Len(a) = m /\ \A i \in 1..m : a[i] = q[i]
    OBVIOUS
  <2>2. b \in Seq(A) /\ Len(b) = n - m /\ \A i \in 1..(n - m) : b[i] = q[m + i]
    OBVIOUS
  <2> HIDE DEF a, b
  <2>3. a \o b \in Seq(A) /\ Len(a \o b) = n
        /\ \A i \in 1..n : (a \o b)[i] = IF i <= m THEN a[i] ELSE b[i - m]
    <3> DEFINE k == Len(a)
               l == Len(b)
    <3>1. /\ a \o b \in Seq(A) /\ Len(a \o b) = k + l
          /\ \A i \in 1..(k + l) : (a \o b)[i] = IF i <= k THEN a[i] ELSE b[i - k]
      BY <2>1, <2>2, ConcatProperties
    <3>2. k = m /\ k + l = n
      BY <1>1, <2>1, <2>2
    <3> HIDE DEF k, l
    <3> QED
      BY <3>1, <3>2
  <2>4. \A i \in 1..n : (a \o b)[i] = q[i]
    <3> SUFFICES ASSUME NEW i \in 1..n PROVE (a \o b)[i] = q[i]
      OBVIOUS
    <3>1. CASE i <= m
      BY <1>1, <2>1, <2>3, <3>1
    <3>2. CASE ~(i <= m)
      <4>1. i - m \in 1..(n - m) /\ m + (i - m) = i
        BY <1>1, <3>2
      <4> QED
        BY <2>2, <2>3, <3>2, <4>1
    <3> QED
      BY <3>1, <3>2
  <2> DEFINE c == a \o b
  <2>5. c \in Seq(A) /\ Len(c) = Len(q) /\ \A i \in 1..Len(c) : c[i] = q[i]
    BY <2>3, <2>4
  <2> HIDE DEF c
  <2>6. c = q
    BY <2>5, SeqEqual
  <2> QED
    BY <2>6 DEF c, a, b
<1> QED
  BY <1>2, <1>3, <1>4

(* An item more is an end of a turn or leaves the ends as they are. *)
LEMMA EndsStep ==
  ASSUME NEW W, NEW its \in Seq(ViewItem(W)), NEW x \in ViewItem(W)
  PROVE  /\ EndsOf(its) \in SUBSET (1..Len(its)) /\ LastEnd(its) \in 0..Len(its)
         /\ EndsOf(Append(its, x)) =
              IF x.kind = "turn-end" THEN EndsOf(its) \cup {Len(its) + 1} ELSE EndsOf(its)
         /\ LastEnd(Append(its, x)) = IF x.kind = "turn-end" THEN Len(its) + 1 ELSE LastEnd(its)
<1> DEFINE n == Len(its)
           r == Append(its, x)
<1>1. /\ n \in Nat /\ DOMAIN its = 1..n /\ DOMAIN r = 1..(n + 1) /\ r[n + 1] = x
      /\ \A i \in 1..n : r[i] = its[i]
  OBVIOUS
<1> HIDE DEF n, r
<1>2. EndsOf(its) \in SUBSET (1..n)
  BY <1>1 DEF EndsOf
<1>3. EndsOf(r) = IF x.kind = "turn-end" THEN EndsOf(its) \cup {n + 1} ELSE EndsOf(its)
  BY <1>1 DEF EndsOf
<1>4. LastEnd(its) \in 0..n
  BY <1>1, <1>2, MaxWithNone DEF LastEnd
<1>5. LastEnd(r) = IF x.kind = "turn-end" THEN n + 1 ELSE LastEnd(its)
  <2>1. CASE x.kind = "turn-end"
    <3> DEFINE s == EndsOf(r)
    <3>1. s \in SUBSET (1..(n + 1)) /\ n + 1 \in s /\ n + 1 \in Nat
      BY <1>1, <1>2, <1>3, <2>1
    <3> HIDE DEF s
    <3>2. Max({0} \cup s) = n + 1
      BY <3>1, MaxWithNone
    <3> QED
      BY <2>1, <3>2 DEF LastEnd, s
  <2>2. CASE x.kind # "turn-end"
    BY <1>3, <2>2 DEF LastEnd
  <2> QED
    BY <2>1, <2>2
<1> QED
  BY <1>2, <1>3, <1>4, <1>5 DEF n, r

(* An item more leaves the turns that have ended as they are; the end of a *)
(* turn counts the cards since the end before.                               *)
LEMMA TurnsStep ==
  ASSUME NEW W, NEW its \in Seq(ViewItem(W)), NEW x \in ViewItem(W), TurnAdded(its) \in Seq(Nat)
  PROVE  LET r == Append(its, x)
             recent == SubSeq(r, LastEnd(its) + 1, Len(its) + 1)
             v == IF x.kind = "turn-end" THEN Weigh(LinesCounted(W), Cards(recent)) ELSE 0
         IN  v \in Nat /\ TurnAdded(r) = Append(TurnAdded(its), v) /\ TurnAdded(r) \in Seq(Nat)
<1> DEFINE n == Len(its)
           A == ViewItem(W)
           r == Append(its, x)
           e == LastEnd(its)
           recent == SubSeq(r, e + 1, n + 1)
           v == IF x.kind = "turn-end" THEN Weigh(LinesCounted(W), Cards(recent)) ELSE 0
           Before(q, i) == Max({0} \cup {j \in EndsOf(q) : j < i})
<1>1. /\ n \in Nat /\ DOMAIN its = 1..n /\ DOMAIN r = 1..(n + 1) /\ r \in Seq(A)
      /\ Len(r) = n + 1
  OBVIOUS
<1>2. \A q : /\ DOMAIN CardsByTurn(q) = EndsOf(q)
             /\ \A i \in EndsOf(q) : CardsByTurn(q)[i] = Cards(SubSeq(q, Before(q, i) + 1, i))
  BY DEF CardsByTurn, EndsOf
<1>3. /\ EndsOf(its) \in SUBSET (1..n) /\ e \in 0..n
      /\ EndsOf(r) = IF x.kind = "turn-end" THEN EndsOf(its) \cup {n + 1} ELSE EndsOf(its)
  BY EndsStep
<1> HIDE DEF n, r, e
<1>4. ASSUME NEW i \in 1..n
      PROVE  TurnAdded(r)[i] = TurnAdded(its)[i]
  <2>1. /\ {j \in EndsOf(r) : j < i} = {j \in EndsOf(its) : j < i}
        /\ i \in EndsOf(r) <=> i \in EndsOf(its)
    BY <1>1, <1>3
  <2>2. Before(r, i) = Before(its, i) /\ Before(its, i) \in 0..n
    <3> DEFINE s == {j \in EndsOf(its) : j < i}
    <3>1. s \in SUBSET (1..n)
      BY <1>3
    <3> HIDE DEF s
    <3>2. Max({0} \cup s) \in 0..n
      BY <1>1, <3>1, MaxWithNone
    <3> QED
      BY <2>1, <3>2 DEF s
  <2> DEFINE b == Before(its, i)
  <2> HIDE DEF b
  <2>3. SubSeq(r, b + 1, i) = SubSeq(its, b + 1, i)
    <3>1. b + 1 \in 1..(n + 1) /\ i \in 0..n
      BY <1>1, <2>2 DEF b
    <3> QED
      BY <3>1, PartsOfLists DEF n, r
  <2>4. i \in EndsOf(its) => CardsByTurn(r)[i] = CardsByTurn(its)[i]
    BY <1>2, <2>1, <2>2, <2>3 DEF b
  <2>5. i \in DOMAIN r /\ i \in DOMAIN its
    BY <1>1
  <2> QED
    BY <1>2, <2>1, <2>4, <2>5 DEF TurnAdded
<1>5. TurnAdded(r)[n + 1] = v /\ v \in Nat
  <2>1. n + 1 \in DOMAIN r
    BY <1>1
  <2>2. CASE x.kind # "turn-end"
    <3>1. n + 1 \notin EndsOf(r)
      BY <1>1, <1>3, <2>2
    <3> QED
      BY <1>2, <2>1, <2>2, <3>1 DEF TurnAdded
  <2>3. CASE x.kind = "turn-end"
    <3>1. n + 1 \in EndsOf(r) /\ {j \in EndsOf(r) : j < n + 1} = EndsOf(its)
      BY <1>1, <1>3, <2>3
    <3>2. Before(r, n + 1) = e
      BY <3>1 DEF LastEnd, e
    <3>3. CardsByTurn(r)[n + 1] = Cards(recent)
      BY <1>2, <3>1, <3>2
    <3>4. recent \in Seq(A)
      <4>1. e + 1 \in 1..(Len(r) + 1) /\ n + 1 \in 0..Len(r)
        BY <1>1, <1>3
      <4> QED
        BY <1>1, <4>1, PartsOfLists
    <3> HIDE DEF recent
    <3>5. Cards(recent) \in Seq(ViewCard(W))
      BY <3>4, CardsLaws
    <3> DEFINE c == Cards(recent)
    <3> HIDE DEF c
    <3>6. /\ AggregateChanges(c).added = Weigh(LinesCounted(W), c)
          /\ Weigh(LinesCounted(W), c) \in Nat
      BY <3>5, ChangesAdded, WeightsOfCards, WeighLaws DEF c
    <3> QED
      BY <1>2, <2>1, <2>3, <3>1, <3>3, <3>6 DEF TurnAdded, c
  <2> QED
    BY <2>2, <2>3
<1>6. TurnAdded(r) = Append(TurnAdded(its), v) /\ TurnAdded(r) \in Seq(Nat)
  <2> DEFINE f == TurnAdded(its)
             h == TurnAdded(r)
  <2>1. DOMAIN f = 1..n /\ DOMAIN h = 1..(n + 1) /\ f \in Seq(Nat)
    BY <1>1 DEF TurnAdded
  <2>2. \A i \in 1..n : h[i] = f[i]
    BY <1>4
  <2>3. h[n + 1] = v /\ v \in Nat
    BY <1>5
  <2>4. h = [i \in 1..(n + 1) |-> h[i]]
    BY <1>1 DEF TurnAdded
  <2> HIDE DEF f, h, v
  <2>5. Len(f) = n
    BY <1>1, <2>1, LenProperties
  <2>6. h \in [1..(n + 1) -> Nat]
    <3>1. \A i \in 1..(n + 1) : h[i] \in Nat
      <4>1. \A i \in 1..n : f[i] \in Nat
        <5>1. f \in [1..n -> Nat]
          BY <2>1, <2>5, LenProperties
        <5> QED
          BY <5>1
      <4>2. \A i \in 1..(n + 1) : i \in 1..n \/ i = n + 1
        BY <1>1
      <4> QED
        BY <2>2, <2>3, <4>1, <4>2
    <3> QED
      BY <2>4, <3>1
  <2>7. h \in Seq(Nat) /\ Len(h) = n + 1
    BY <1>1, <2>6, NumbersAt
  <2>8. h = Append(f, v)
    BY <1>1, <2>1, <2>2, <2>3, <2>5, <2>7
  <2> QED
    BY <2>7, <2>8 DEF f, h
<1> QED
  BY <1>5, <1>6 DEF n, r, e

(* Two parts of a chat have the lines of both. *)
LEMMA LinesOfBoth ==
  ASSUME NEW W, NEW p \in Seq(ViewItem(W)), NEW q \in Seq(ViewItem(W)), NEW r, r = p \o q
  PROVE  Weigh(LinesCounted(W), Cards(r))
           = Weigh(LinesCounted(W), Cards(p)) + Weigh(LinesCounted(W), Cards(q))
<1> DEFINE w == LinesCounted(W)
           v == ItemWeight(w, W)
<1>1. w \in [ViewCard(W) -> Nat]
  BY WeightsOfCards
<1> HIDE DEF w
<1>2. v \in [ViewItem(W) -> Nat] /\ OfCard(v, w, W)
  BY <1>1, ItemWeighs
<1> HIDE DEF v
<1>3. r \in Seq(ViewItem(W))
  BY ConcatProperties
<1>4. \A s \in Seq(ViewItem(W)) : Weigh(w, Cards(s)) = Weigh(v, s)
  BY <1>1, <1>2, WeighCards
<1>5. Weigh(v, r) = Weigh(v, p) + Weigh(v, q)
  BY <1>2, WeighBoth
<1> QED
  BY <1>3, <1>4, <1>5 DEF w

(* The turns of every chat add up. *)
LEMMA TurnsAddUpForAll ==
  ASSUME NEW W, NEW its \in Seq(ViewItem(W))
  PROVE  TurnsAddUp(its)
<1> DEFINE A == ViewItem(W)
           Lines(q) == Weigh(LinesCounted(W), Cards(q))
           UpToEnd(q) == SubSeq(q, 1, LastEnd(q))
           S == {q \in Seq(A) : /\ TurnAdded(q) \in Seq(Nat)
                                /\ SumOver(TurnAdded(q), DOMAIN TurnAdded(q)) = Lines(UpToEnd(q))}
<1>1. << >> \in S
  <2> DEFINE none == << >>
  <2>1. none \in Seq(A) /\ none \in Seq(Nat)
    BY EmptySeq
  <2>2. TurnAdded(none) = none /\ EndsOf(none) = {}
    BY DEF TurnAdded, EndsOf
  <2>3. LastEnd(none) = 0
    BY <2>2, MaxWithNone DEF LastEnd
  <2>4. UpToEnd(none) = none
    BY <2>3
  <2>5. Lines(none) = 0
    <3>1. Cards(none) = << >> /\ LinesCounted(W) \in [ViewCard(W) -> Nat]
      BY <2>1, CardsLaws, WeightsOfCards
    <3>2. << >> \in Seq(ViewCard(W))
      BY EmptySeq
    <3> QED
      BY <3>1, <3>2, WeighLaws
  <2>6. SumOver(none, DOMAIN none) = 0
    BY <2>1, SumLaws
  <2> HIDE DEF none
  <2>7. none \in S
    BY <2>1, <2>2, <2>4, <2>5, <2>6
  <2> QED
    BY <2>7 DEF none
<1>2. ASSUME NEW q \in Seq(A), NEW x \in A, q \in S
      PROVE  Append(q, x) \in S
  <2> DEFINE n == Len(q)
             r == Append(q, x)
             e == LastEnd(q)
             recent == SubSeq(r, e + 1, n + 1)
             v == IF x.kind = "turn-end" THEN Lines(recent) ELSE 0
             f == TurnAdded(q)
             h == TurnAdded(r)
  <2>1. n \in Nat /\ r \in Seq(A) /\ Len(r) = n + 1
    OBVIOUS
  <2>2. f \in Seq(Nat) /\ SumOver(f, DOMAIN f) = Lines(UpToEnd(q))
    BY <1>2
  <2>3. v \in Nat /\ h = Append(f, v) /\ h \in Seq(Nat)
    BY <2>2, TurnsStep
  <2>4. e \in 0..n /\ LastEnd(r) = IF x.kind = "turn-end" THEN n + 1 ELSE e
    BY EndsStep
  <2>5. SubSeq(r, 1, e) = UpToEnd(q) /\ UpToEnd(q) \in Seq(A)
    <3>1. 1 \in 1..(n + 1) /\ e \in 0..n
      BY <2>1, <2>4
    <3> QED
      BY <3>1, PartsOfLists
  <2>6. recent \in Seq(A) /\ SubSeq(r, 1, n + 1) = r /\ r = SubSeq(r, 1, e) \o recent
    <3>1. e + 1 \in 1..(n + 1 + 1) /\ n + 1 \in 0..(n + 1) /\ e \in 0..(n + 1)
      BY <2>1, <2>4
    <3>2. recent \in Seq(A) /\ r = SubSeq(r, 1, e) \o recent
      BY <2>1, <3>1, PartsOfLists
    <3>3. SubSeq(r, 1, n + 1) = r
      OBVIOUS
    <3> QED
      BY <3>2, <3>3
  <2>7. SumOver(h, DOMAIN h) = SumOver(f, DOMAIN f) + v /\ SumOver(f, DOMAIN f) \in Nat
    <3>1. DOMAIN f = 1..n
      BY <2>1 DEF TurnAdded
    <3>2. DOMAIN h = 1..(n + 1)
      BY <2>1 DEF TurnAdded
    <3> HIDE DEF f, h, v, n
    <3>3. Len(f) = n
      BY <2>1, <2>2, <3>1, LenProperties
    <3>4. SumOver(Append(f, v), 1..(n + 1)) = SumOver(f, 1..(n + 1)) + v
      <4>1. n + 1 \in 1..(n + 1)
        BY <2>1
      <4> QED
        BY <2>2, <2>3, <3>3, <4>1, SumLaws
    <3>5. SumOver(f, 1..(n + 1)) = SumOver(f, 1..n)
      <4> DEFINE I == 1..(n + 1)
                 J == 1..n
      <4>1. \A k \in 1..Len(f) : (IF k \in I THEN f[k] ELSE 0) = (IF k \in J THEN f[k] ELSE 0)
        BY <2>1, <3>3
      <4> HIDE DEF I, J
      <4>2. SumOver(f, I) = SumOver(f, J)
        BY <2>2, <4>1, SumSees
      <4> QED
        BY <4>2 DEF I, J
    <3>6. SumOver(f, 1..n) \in Nat
      BY <2>2, SumLaws
    <3> QED
      BY <2>3, <3>1, <3>2, <3>4, <3>5, <3>6
  <2>8. SumOver(h, DOMAIN h) = Lines(UpToEnd(r))
    <3>1. CASE x.kind # "turn-end"
      <4>1. UpToEnd(r) = UpToEnd(q) /\ v = 0
        BY <2>4, <2>5, <3>1
      <4> HIDE DEF h, f, v, UpToEnd, Lines
      <4> QED
        BY <2>2, <2>7, <4>1
    <3>2. CASE x.kind = "turn-end"
      <4>1. UpToEnd(r) = r /\ v = Lines(recent)
        BY <2>4, <2>6, <3>2
      <4>2. Lines(r) = Lines(UpToEnd(q)) + Lines(recent)
        <5> DEFINE a == UpToEnd(q)
        <5>1. a \in Seq(A) /\ r = a \o recent
          BY <2>5, <2>6
        <5> HIDE DEF a, recent, r
        <5>2. Lines(r) = Lines(a) + Lines(recent)
          BY <2>6, <5>1, LinesOfBoth
        <5> QED
          BY <5>2 DEF a
      <4> HIDE DEF h, f, v, UpToEnd, Lines, r, recent
      <4> QED
        BY <2>2, <2>7, <4>1, <4>2
    <3> QED
      BY <3>1, <3>2
  <2> QED
    BY <2>1, <2>3, <2>8
<1> HIDE DEF S
<1>3. Seq(A) \subseteq S
  BY <1>1, <1>2, ListInduction
<1>4. SumOver(TurnAdded(its), DOMAIN TurnAdded(its)) = Lines(UpToEnd(its))
  BY <1>3 DEF S
<1>5. UpToEnd(its) \in Seq(A)
  <2>1. \E x : x \in A
    <3>1. Thought(0) \in A
      BY DEF ViewItem
    <3> QED
      BY <3>1
  <2>2. LastEnd(its) \in 0..Len(its) /\ 1 \in 1..(Len(its) + 1)
    BY <2>1, EndsStep
  <2> QED
    BY <2>2, PartsOfLists
<1>6. LinesOf(Cards(UpToEnd(its))) = Lines(UpToEnd(its))
  <2> DEFINE s == UpToEnd(its)
  <2>1. s \in Seq(A)
    BY <1>5
  <2> HIDE DEF s
  <2>2. Cards(s) \in Seq(ViewCard(W))
    BY <2>1, CardsLaws
  <2>3. LinesOf(Cards(s)) = Lines(s)
    BY <2>2, LinesAdded
  <2> QED
    BY <2>3 DEF s
<1> QED
  BY <1>4, <1>6 DEF TurnsAddUp

(* A write is counted once in any chat: the label of a segment has the     *)
(* lines, the failures and the items of the whole segment, and the turns   *)
(* add up to what is written before the last end of a turn (segments.ts,     *)
(* segmentLabel; changes.ts, aggregateChanges).                            *)
THEOREM NumbersAddUpForAll ==
  ASSUME NEW W
  PROVE  \A its \in Seq(ViewItem(W)) : NumbersAddUp(its)
<1> SUFFICES ASSUME NEW its \in Seq(ViewItem(W))
             PROVE  NumbersAddUp(its)
  OBVIOUS
<1>1. ASSUME NEW b \in Segments(its)
      PROVE  LabelIsTrue(b.items)
  <2>1. b.items \in Seq(ViewItem(W))
    BY SegmentHasItems
  <2> DEFINE p == b.items
  <2>2. p \in Seq(ViewItem(W))
    BY <2>1
  <2> HIDE DEF p
  <2>3. LabelIsTrue(p)
    BY <2>2, LabelHasLines, LabelHasItems DEF LabelIsTrue
  <2> QED
    BY <2>3 DEF p
<1>2. TurnsAddUp(its)
  BY TurnsAddUpForAll
<1>3. DOMAIN CardsByTurn(its) = EndsOf(its)
  BY DEF CardsByTurn, EndsOf
<1> QED
  BY <1>1, <1>2, <1>3 DEF NumbersAddUp, LabelIsTrue, Shown, TurnsAddUp, TurnAdded, LastEnd
=============================================================================
