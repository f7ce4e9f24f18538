---------------------------- MODULE TunnelProofs ----------------------------
(***************************************************************************)
(* Proofs about Tunnel, for any number of channels, tries and hash values  *)
(* and any choice of goroutines: types, the order slice, onEmpty, readers, *)
(* when a write may give up, and the refinement of TunnelLife.             *)
(***************************************************************************)
EXTENDS Tunnel, FiniteSetTheorems, WellFoundedInduction, TLAPS

\* From its unlock on, a goroutine that has taken channels out is dropping.
Dropping == {"drop", "dropLast", "markDead", "closeDead", "onEmpty"}

Listed ==
  /\ \A i, j \in 1 .. Len(order) : order[i] = order[j] => i = j
  /\ \A i \in 1 .. Len(order) : order[i] \in channels
  /\ \A c \in channels : \E i \in 1 .. Len(order) : order[i] = c

Stations ==
  /\ \A c \in Chan : pc[c] \in {"none", "reading", "holding", "remove", "done"} \cup Dropping
  /\ Writer \in Caller =>
       pc[Writer] \in {"idle", "pick", "sending", "remove", "close", "done"} \cup Dropping
  /\ Beat \in Caller =>
       pc[Beat] \in {"idle", "beating", "remove", "close", "done"} \cup Dropping
  /\ Closer \in Caller => pc[Closer] \in {"idle", "close", "done"} \cup Dropping
  /\ \A t \in closing : pc[t] \in Dropping \ {"drop"}
  /\ Closer \in Caller /\ pc[Closer] \in Dropping => Closer \in closing

Sockets ==
  /\ \A c \in Chan : conn[c] = "absent" <=> pc[c] = "none"
  /\ \A c \in channels : conn[c] \notin {"absent", "closed"}
  /\ \A c \in channels : pc[c] = "done" => dead

Hands ==
  /\ \A t \in Thread : \A c \in hand[t] : conn[c] # "absent"
  /\ \A t \in Thread : pc[t] \in Dropping => hand[t] \cap channels = {}
  /\ \A c \in Chan : pc[c] \in {"remove"} \cup Dropping => hand[c] = {c}
  /\ \A t \in Thread : pc[t] = "remove" => \E c \in Chan : hand[t] = {c}

Beats ==
  /\ \A i \in 1 .. Len(beats) : conn[beats[i]] # "absent"
  /\ Beat \in Caller /\ pc[Beat] = "beating" => beats # <<>>

Once ==
  /\ once = "new" <=> ~closed
  /\ once = "new" => ~dead
  /\ once = "done" => dead
  /\ emptied = IF once = "done" THEN 1 ELSE 0
  /\ \A t \in Thread :
       /\ pc[t] \in {"closeDead", "onEmpty"} => once = "running"
       /\ pc[t] = "closeDead" => ~dead
       /\ pc[t] = "onEmpty" => dead
  /\ \A t, u \in Thread :
       pc[t] \in {"closeDead", "onEmpty"} /\ pc[u] \in {"closeDead", "onEmpty"} => t = u

\* The writer is in the midst of an attempt.
Attempting == pc[Writer] \in {"sending", "remove"} \cup Dropping /\ Writer \notin closing

Tries == Writer \in Caller /\ (pc[Writer] = "pick" \/ Attempting) => tries < MaxTries

Tried ==
  Writer \in Caller =>
    /\ pc[Writer] = "pick" => tries <= Cardinality(Gone)
    /\ Attempting => \E c \in Chan : hand[Writer] = {c} /\ tries <= Cardinality(Gone \ {c})
    /\ \A c \in present : conn[c] # "absent"
    /\ pc[Writer] = "close" => channels \cap present = {} \/ MaxTries <= Cardinality(Gone)

IInv == TypeOK /\ Listed /\ Stations /\ Sockets /\ Hands /\ Beats /\ Once /\ Tries

-----------------------------------------------------------------------------
(* What removeChannel's loop computes, by induction on the prefix.         *)

LEMMA LeastNumber ==
  ASSUME NEW T \in SUBSET Nat, T # {}
  PROVE  \E x \in T : \A y \in T : x <= y
<1>1. \E x \in T : \A y \in T : ~(<<y, x>> \in OpToRel(<, Nat))
  BY NatLessThanWellFounded, WFMin, Zenon
<1>2. \A x, y \in Nat : ~(<<y, x>> \in OpToRel(<, Nat)) => x <= y
  BY DEF OpToRel
<1> QED BY <1>1, <1>2

\* Induction up to a bound, for a set.
LEMMA CountingUp ==
  ASSUME NEW N \in Nat, NEW T \in SUBSET Nat, 0 \in T,
         \A n \in 1 .. N : n - 1 \in T => n \in T
  PROVE  \A n \in 0 .. N : n \in T
<1> DEFINE B == {n \in 0 .. N : n \notin T}
<1>1. SUFFICES ASSUME B # {} PROVE FALSE
  OBVIOUS
<1>2. PICK x \in B : \A y \in B : x <= y
  <2>1. B \in SUBSET Nat /\ B # {}
    BY <1>1
  <2> HIDE DEF B
  <2> QED BY <2>1, LeastNumber
<1>3. x \in 1 .. N /\ x - 1 \in 0 .. N /\ x - 1 \notin B
  BY <1>2
<1> QED BY <1>2, <1>3

IsFilter(f, s, gone) ==
  f = [n \in 0 .. Len(s) |-> IF n = 0 THEN <<>>
        ELSE IF s[n] \in gone THEN f[n - 1] ELSE Append(f[n - 1], s[n])]

LEMMA FilterExists ==
  ASSUME NEW S, NEW s \in Seq(S), NEW gone
  PROVE  \E f : IsFilter(f, s, gone)
<1> DEFINE Upto(g, k) == \A n \in 0 .. k : g[n] =
               IF n = 0 THEN <<>>
               ELSE IF s[n] \in gone THEN g[n - 1] ELSE Append(g[n - 1], s[n])
           T == {k \in Nat : \E g \in [0 .. k -> Seq(S)] : Upto(g, k)}
<1>0. Len(s) \in Nat /\ \A n \in 1 .. Len(s) : s[n] \in S
  OBVIOUS
<1>1. 0 \in T
  <2> DEFINE g == [n \in 0 .. 0 |-> <<>>]
  <2>1. g \in [0 .. 0 -> Seq(S)] /\ Upto(g, 0)
    OBVIOUS
  <2> QED BY <2>1
<1>2. ASSUME NEW k \in 1 .. Len(s), k - 1 \in T PROVE k \in T
  <2>1. PICK h \in [0 .. k - 1 -> Seq(S)] : Upto(h, k - 1)
    BY <1>2
  <2> DEFINE e == IF s[k] \in gone THEN h[k - 1] ELSE Append(h[k - 1], s[k])
             g == [n \in 0 .. k |-> IF n = k THEN e ELSE h[n]]
  <2>2. e \in Seq(S)
    BY <1>0
  <2>3. g \in [0 .. k -> Seq(S)]
    BY <2>2
  <2>4. \A n \in 0 .. k - 1 : g[n] = h[n]
    OBVIOUS
  <2>5. g[k] = e /\ g[k - 1] = h[k - 1]
    OBVIOUS
  <2> HIDE DEF g
  <2>6. Upto(g, k)
    <3> SUFFICES ASSUME NEW n \in 0 .. k
                 PROVE  g[n] = IF n = 0 THEN <<>>
                               ELSE IF s[n] \in gone THEN g[n - 1] ELSE Append(g[n - 1], s[n])
      OBVIOUS
    <3>1. CASE n = k
      BY <3>1, <1>0, <2>5
    <3>2. CASE n # k /\ n # 0
      <4>1. n \in 0 .. k - 1 /\ n - 1 \in 0 .. k - 1
        BY <3>2, <1>0
      <4> QED BY <4>1, <3>2, <2>1, <2>4
    <3>3. CASE n # k /\ n = 0
      <4>1. n \in 0 .. k - 1
        BY <3>3, <1>0
      <4> QED BY <4>1, <3>3, <2>1, <2>4
    <3> QED BY <3>1, <3>2, <3>3
  <2> HIDE DEF Upto
  <2> QED BY <1>0, <2>3, <2>6
<1> HIDE DEF T
<1>3. Len(s) \in T
  <2>1. T \in SUBSET Nat
    BY DEF T
  <2>2. \A n \in 1 .. Len(s) : n - 1 \in T => n \in T
    BY <1>2
  <2>3. \A n \in 0 .. Len(s) : n \in T
    BY <1>0, <1>1, <2>1, <2>2, CountingUp
  <2> QED BY <1>0, <2>3
<1>4. PICK g \in [0 .. Len(s) -> Seq(S)] : Upto(g, Len(s))
  BY <1>3 DEF T
<1>5. IsFilter(g, s, gone)
  BY <1>4 DEF IsFilter
<1> QED BY <1>5

LEMMA WithoutIsFilter ==
  ASSUME NEW S, NEW s \in Seq(S), NEW gone
  PROVE  \E f : IsFilter(f, s, gone) /\ Without(s, gone) = f[Len(s)]
<1> DEFINE f == CHOOSE f : IsFilter(f, s, gone)
<1>1. IsFilter(f, s, gone)
  BY FilterExists
<1>2. Without(s, gone) = f[Len(s)]
  BY DEF Without, IsFilter
<1> QED BY <1>1, <1>2

LEMMA WithoutProperties ==
  ASSUME NEW S, NEW s \in Seq(S), NEW gone,
         \A i, j \in 1 .. Len(s) : s[i] = s[j] => i = j
  PROVE  LET w == Without(s, gone)
         IN  /\ w \in Seq(S)
             /\ \A i, j \in 1 .. Len(w) : w[i] = w[j] => i = j
             /\ \A i \in 1 .. Len(w) : w[i] \notin gone /\ \E k \in 1 .. Len(s) : w[i] = s[k]
             /\ \A k \in 1 .. Len(s) : s[k] \notin gone => \E i \in 1 .. Len(w) : w[i] = s[k]
<1>1. PICK f : IsFilter(f, s, gone) /\ Without(s, gone) = f[Len(s)]
  BY WithoutIsFilter
<1> DEFINE Good(w, n) ==
             /\ w \in Seq(S)
             /\ \A i, j \in 1 .. Len(w) : w[i] = w[j] => i = j
             /\ \A i \in 1 .. Len(w) : w[i] \notin gone /\ \E k \in 1 .. n : w[i] = s[k]
             /\ \A k \in 1 .. n : s[k] \notin gone => \E i \in 1 .. Len(w) : w[i] = s[k]
           T == {n \in Nat : Good(f[n], n)}
<1>2. Len(s) \in Nat /\ \A n \in 1 .. Len(s) : s[n] \in S
  OBVIOUS
<1>3. f[0] = <<>>
  BY <1>1, <1>2 DEF IsFilter
<1>4. ASSUME NEW n \in 1 .. Len(s)
      PROVE  f[n] = IF s[n] \in gone THEN f[n - 1] ELSE Append(f[n - 1], s[n])
  <2>1. n \in 0 .. Len(s) /\ n # 0
    BY <1>2
  <2> QED BY <1>1, <2>1 DEF IsFilter
<1>5. 0 \in T
  <2>1. Good(<<>>, 0)
    OBVIOUS
  <2> HIDE DEF Good
  <2> QED BY <1>3, <2>1
<1>6. ASSUME NEW n \in 1 .. Len(s), n - 1 \in T PROVE n \in T
  <2> DEFINE v == f[n - 1]
             m == Len(v)
  <2>1. Good(v, n - 1) /\ m \in Nat
    BY <1>6
  <2>2. CASE s[n] \in gone
    <3>1. f[n] = v
      BY <1>4, <2>2
    <3>2. Good(v, n)
      BY <2>1, <2>2, <1>2
    <3> HIDE DEF Good
    <3> QED BY <1>2, <3>1, <3>2
  <2>3. CASE s[n] \notin gone
    <3> DEFINE w == Append(v, s[n])
    <3>1. f[n] = w
      BY <1>4, <2>3
    <3>2. w \in Seq(S) /\ Len(w) = m + 1 /\ w[m + 1] = s[n] /\ \A i \in 1 .. m : w[i] = v[i]
      BY <2>1, <1>2
    <3>3. \A i \in 1 .. m : v[i] # s[n]
      BY <2>1, <1>2
    <3> HIDE DEF w, v, m
    <3>4. \A i, j \in 1 .. m + 1 : w[i] = w[j] => i = j
      <4>1. \A i \in 1 .. m + 1 : i \in 1 .. m \/ i = m + 1
        BY <2>1
      <4>2. \A i, j \in 1 .. m : v[i] = v[j] => i = j
        BY <2>1 DEF m
      <4> QED BY <3>2, <3>3, <4>1, <4>2
    <3>5. \A i \in 1 .. m + 1 : w[i] \notin gone /\ \E k \in 1 .. n : w[i] = s[k]
      <4> SUFFICES ASSUME NEW i \in 1 .. m + 1
                   PROVE  w[i] \notin gone /\ \E k \in 1 .. n : w[i] = s[k]
        OBVIOUS
      <4>1. CASE i = m + 1
        BY <4>1, <1>2, <2>3, <3>2
      <4>2. CASE i # m + 1
        <5>1. i \in 1 .. m
          BY <4>2, <2>1
        <5>2. PICK k \in 1 .. n - 1 : v[i] = s[k]
          BY <5>1, <2>1 DEF m
        <5>3. v[i] \notin gone /\ w[i] = v[i] /\ k \in 1 .. n
          BY <5>1, <2>1, <3>2, <1>2 DEF m
        <5> QED BY <5>2, <5>3
      <4> QED BY <4>1, <4>2
    <3>6. \A k \in 1 .. n : s[k] \notin gone => \E i \in 1 .. m + 1 : w[i] = s[k]
      <4> SUFFICES ASSUME NEW k \in 1 .. n, s[k] \notin gone
                   PROVE  \E i \in 1 .. m + 1 : w[i] = s[k]
        OBVIOUS
      <4>1. CASE k = n
        BY <4>1, <2>1, <3>2
      <4>2. CASE k # n
        <5>1. PICK i \in 1 .. m : v[i] = s[k]
          BY <4>2, <2>1 DEF m
        <5> QED BY <5>1, <2>1, <3>2
      <4> QED BY <4>1, <4>2
    <3>7. Good(w, n)
      BY <3>2, <3>4, <3>5, <3>6
    <3> HIDE DEF Good
    <3> QED BY <1>2, <3>1, <3>7
  <2> QED BY <2>2, <2>3
<1> HIDE DEF T
<1>7. Len(s) \in T
  <2>1. T \in SUBSET Nat
    BY DEF T
  <2>2. \A n \in 1 .. Len(s) : n - 1 \in T => n \in T
    BY <1>6
  <2>3. \A n \in 0 .. Len(s) : n \in T
    BY <1>2, <1>5, <2>1, <2>2, CountingUp
  <2> QED BY <1>2, <2>3
<1>8. Good(f[Len(s)], Len(s))
  BY <1>7 DEF T
<1> QED BY <1>1, <1>8

-----------------------------------------------------------------------------
(* Threads.                                                                *)

LEMMA Threads ==
  /\ \A c \in Chan : c \in Thread /\ c # Writer /\ c # Beat /\ c # Closer
  /\ \A t \in Thread : t \in Chan \/ t = Writer \/ t = Beat \/ t = Closer
  /\ \A t \in Thread : t \in Chan <=> t \notin Caller
  /\ \A t \in Caller : t \in Thread
  /\ Writer # Beat /\ Beat # Closer /\ Writer # Closer
BY TunnelAssumption DEF Thread

LEMMA InitIInv == Init => IInv
<1> SUFFICES ASSUME Init PROVE IInv
  OBVIOUS
<1> USE TunnelAssumption, Threads DEF Init
<1>1. TypeOK
  <2>1. closed \in BOOLEAN /\ dead \in BOOLEAN
    BY Zenon
  <2>2. /\ channels \subseteq Chan /\ order \in Seq(Chan)
        /\ once \in {"new", "running", "done"} /\ emptied \in Nat /\ inbound \in 0 .. Capacity
        /\ conn \in [Chan -> {"absent", "open", "stuck", "closed"}]
        /\ pc \in [Thread -> Labels]
    BY DEF Labels
  <2>3. /\ hand \in [Thread -> SUBSET Chan] /\ closing \subseteq Caller
        /\ hash \in 0 .. HashRange - 1 /\ tries \in 0 .. MaxTries
        /\ present \subseteq Chan /\ beats \in Seq(Chan)
        /\ consumer \in {"reading", "stopped"}
    OBVIOUS
  <2> QED BY <2>1, <2>2, <2>3 DEF TypeOK
<1>2. Listed /\ Beats
  BY DEF Listed, Beats
<1>3. Stations /\ Sockets /\ Hands
  BY DEF Stations, Sockets, Hands, Dropping
<1>4. Once /\ Tries
  BY DEF Once, Tries, Attempting, Dropping
<1> QED BY <1>1, <1>2, <1>3, <1>4 DEF IInv

\* What a goroutine does when the call it is in returns.
LEMMA ReturnStep ==
  ASSUME IInv, NEW t \in Thread, pc[t] \in {"remove"} \cup Dropping, Return(t)
  PROVE  /\ pc' \in [Thread -> Labels] /\ \A u \in Thread : u # t => pc'[u] = pc[u]
         /\ t \in Chan => pc'[t] = "done"
         /\ t = Writer => pc'[t] \in {"idle", "pick", "close"}
         /\ t = Writer /\ pc'[t] = "pick" => tries' < MaxTries
         /\ t = Beat => pc'[t] \in {"idle", "done", "beating"}
         /\ t = Beat /\ pc'[t] = "beating" => beats # <<>>
         /\ t = Closer => pc'[t] = "done"
         /\ closing' = closing \ {t} /\ hand' = [hand EXCEPT ![t] = {}] /\ beats' = beats
         /\ t # Writer => UNCHANGED write
         /\ hash' \in 0 .. HashRange - 1 /\ tries' \in 0 .. MaxTries /\ present' \subseteq Chan
<1> USE Threads, TunnelAssumption
<1>1. /\ pc' = [pc EXCEPT ![t] = Resume(t)] /\ closing' = closing \ {t}
      /\ hand' = [hand EXCEPT ![t] = {}] /\ beats' = beats
  BY DEF Return, Goto
<1>2. pc \in [Thread -> Labels] /\ closing \subseteq Caller
  BY DEF IInv, TypeOK
<1>3. pc'[t] = Resume(t) /\ \A u \in Thread : u # t => pc'[u] = pc[u]
  BY <1>1, <1>2
<1>4. CASE t \in Chan
  <2>1. Resume(t) = "done"
    BY <1>4 DEF Resume
  <2>2. UNCHANGED write
    BY <1>4 DEF Return
  <2> QED BY <1>1, <1>2, <1>3, <1>4, <2>1, <2>2 DEF IInv, TypeOK, Labels, write
<1>5. CASE t = Closer
  <2>1. t \in closing /\ t \notin Chan
    BY <1>5 DEF IInv, Stations
  <2>2. Resume(t) = "done"
    BY <1>5, <2>1 DEF Resume
  <2>3. UNCHANGED write
    BY <1>5 DEF Return
  <2> QED BY <1>1, <1>2, <1>3, <1>5, <2>2, <2>3 DEF IInv, TypeOK, Labels, write
<1>6. CASE t = Beat
  <2>1. Resume(t) = IF t \in closing THEN "done" ELSE IF beats = <<>> THEN "idle" ELSE "beating"
    BY <1>6 DEF Resume
  <2>2. UNCHANGED write
    BY <1>6 DEF Return
  <2> QED BY <1>1, <1>2, <1>3, <1>6, <2>1, <2>2 DEF IInv, TypeOK, Labels, write
<1>7. CASE t = Writer /\ t \in closing
  <2>1. Resume(t) = "idle"
    BY <1>7 DEF Resume
  <2>2. hash' = 0 /\ tries' = 0 /\ present' = {}
    BY <1>7 DEF Return, EndWrite
  <2> QED BY <1>1, <1>2, <1>3, <1>7, <2>1, <2>2 DEF IInv, TypeOK, Labels
<1>8. CASE t = Writer /\ t \notin closing
  <2>1. Resume(t) = IF tries + 1 < MaxTries THEN "pick" ELSE "close"
    BY <1>8 DEF Resume, MoreTries
  <2>2. tries' = tries + 1 /\ hash' = hash /\ present' = present
    BY <1>8 DEF Return
  <2>3. tries \in Nat /\ tries < MaxTries
    BY <1>8 DEF IInv, TypeOK, Tries, Attempting
  <2>4. tries' \in 0 .. MaxTries /\ (pc'[t] = "pick" => tries' < MaxTries)
    BY <1>3, <2>1, <2>2, <2>3
  <2>5. pc'[t] \in {"pick", "close"} /\ pc' \in [Thread -> Labels]
    BY <1>1, <1>2, <1>3, <2>1 DEF Labels
  <2> QED BY <1>1, <1>3, <1>8, <2>2, <2>4, <2>5 DEF IInv, TypeOK
<1> QED BY <1>4, <1>5, <1>6, <1>7, <1>8

-----------------------------------------------------------------------------
(* addChannel.                                                             *)

\* Attach.
LEMMA AddChannelStep ==
  ASSUME IInv, NEW c \in Chan, AddChannel(c)
  PROVE  IInv'
<1> USE Threads, TunnelAssumption DEF IInv, Goto, bond, death, write, locals, AddChannel
<1>1. TypeOK'
  BY DEF TypeOK, Labels
<1>2. Listed'
  <2>1. c \notin channels
    BY DEF Sockets
  <2>2. /\ Len(order') = Len(order) + 1 /\ order'[Len(order) + 1] = c
        /\ \A i \in 1 .. Len(order) : order'[i] = order[i]
    BY DEF TypeOK
  <2>3. \A i \in 1 .. Len(order) + 1 : i \in 1 .. Len(order) \/ i = Len(order) + 1
    BY DEF TypeOK
  <2>4. Len(order) \in Nat /\ 1 .. Len(order) \subseteq 1 .. Len(order) + 1
    BY DEF TypeOK
  <2>5. \A i, j \in 1 .. Len(order') : order'[i] = order'[j] => i = j
    BY <2>1, <2>2, <2>3 DEF Listed
  <2>6. \A i \in 1 .. Len(order') : order'[i] \in channels'
    BY <2>2, <2>3 DEF Listed
  <2>7. \A d \in channels' : \E i \in 1 .. Len(order') : order'[i] = d
    BY <2>2, <2>4 DEF Listed
  <2> QED BY <2>5, <2>6, <2>7 DEF Listed
<1>3. Stations'
  BY DEF TypeOK, Stations, Dropping
<1>4. Sockets'
  BY DEF TypeOK, Sockets
<1>5. Hands'
  BY DEF TypeOK, Hands, Dropping
<1>6. Beats'
  BY DEF TypeOK, Beats
<1>7. Once'
  BY DEF TypeOK, Once
<1>8. Tries'
  BY DEF TypeOK, Tries, Attempting, Dropping
<1> QED BY <1>1, <1>2, <1>3, <1>4, <1>5, <1>6, <1>7, <1>8

\* Refuse.
LEMMA RefuseChannelStep ==
  ASSUME IInv, NEW c \in Chan, RefuseChannel(c)
  PROVE  IInv'
<1> USE Threads, TunnelAssumption DEF IInv, Goto, bond, death, write, locals, RefuseChannel
<1>1. TypeOK'
  BY DEF TypeOK, Labels
<1>2. Listed'
  BY DEF TypeOK, Listed
<1>3. Stations'
  BY DEF TypeOK, Stations, Dropping
<1>4. Sockets'
  BY DEF TypeOK, Sockets
<1>5. Hands'
  BY DEF TypeOK, Hands, Dropping
<1>6. Beats'
  BY DEF TypeOK, Beats
<1>7. Once'
  BY DEF TypeOK, Once
<1>8. Tries'
  BY DEF TypeOK, Tries, Attempting, Dropping
<1> QED BY <1>1, <1>2, <1>3, <1>4, <1>5, <1>6, <1>7, <1>8

-----------------------------------------------------------------------------
(* removeChannel, Close and markDead.                                      *)

\* Under mu: the index leaves the map and the slice.
LEMMA RemoveStep ==
  ASSUME IInv, NEW t \in Thread, Remove(t)
  PROVE  IInv'
<1> USE Threads, TunnelAssumption DEF IInv, Goto, bond, death, write, locals, Remove
<1>0. /\ order' \in Seq(Chan)
      /\ \A i, j \in 1 .. Len(order') : order'[i] = order'[j] => i = j
      /\ \A i \in 1 .. Len(order') :
           order'[i] \notin hand[t] /\ \E k \in 1 .. Len(order) : order'[i] = order[k]
      /\ \A k \in 1 .. Len(order) :
           order[k] \notin hand[t] => \E i \in 1 .. Len(order') : order'[i] = order[k]
  <2>1. order \in Seq(Chan) /\ \A i, j \in 1 .. Len(order) : order[i] = order[j] => i = j
    BY DEF TypeOK, Listed
  <2> DEFINE w == Without(order, hand[t])
  <2>2. order' = w
    BY DEF OrderWithout
  <2>3. /\ w \in Seq(Chan)
        /\ \A i, j \in 1 .. Len(w) : w[i] = w[j] => i = j
        /\ \A i \in 1 .. Len(w) : w[i] \notin hand[t] /\ \E k \in 1 .. Len(order) : w[i] = order[k]
        /\ \A k \in 1 .. Len(order) : order[k] \notin hand[t] => \E i \in 1 .. Len(w) : w[i] = order[k]
    BY <2>1, WithoutProperties
  <2> HIDE DEF w
  <2> QED BY <2>2, <2>3
<1>1. TypeOK'
  BY <1>0 DEF TypeOK, Labels
<1>2. Listed'
  <2>1. \A i \in 1 .. Len(order') : order'[i] \in channels'
    BY <1>0 DEF Listed
  <2>2. \A c \in channels' : \E i \in 1 .. Len(order') : order'[i] = c
    BY <1>0 DEF Listed
  <2> QED BY <1>0, <2>1, <2>2 DEF Listed
<1>3. Stations'
  BY DEF TypeOK, Stations, Dropping
<1>4. Sockets'
  BY DEF TypeOK, Sockets
<1>5. Hands'
  BY DEF TypeOK, Hands, Dropping
<1>6. Beats'
  BY DEF TypeOK, Beats
<1>7. Once'
  BY DEF TypeOK, Once
<1>8. Tries'
  BY DEF TypeOK, Tries, Attempting, Dropping
<1> QED BY <1>1, <1>2, <1>3, <1>4, <1>5, <1>6, <1>7, <1>8

\* Close, under mu.
LEMMA TakeAllStep ==
  ASSUME IInv, NEW t \in Thread, TakeAll(t)
  PROVE  IInv'
<1> USE Threads, TunnelAssumption DEF IInv, Goto, bond, death, write, locals, TakeAll
<1>1. TypeOK'
  <2>1. hand' \in [Thread -> SUBSET Chan]
    BY DEF TypeOK
  <2>2. t \in Caller
    BY DEF TypeOK, Stations, Dropping
  <2>3. /\ channels' \subseteq Chan /\ order' \in Seq(Chan) /\ closing' \subseteq Caller
        /\ pc' \in [Thread -> Labels]
    BY <2>2 DEF TypeOK, Labels
  <2> QED BY <2>1, <2>3 DEF TypeOK
<1>2. Listed'
  BY DEF TypeOK, Listed
<1>3. Stations'
  BY DEF TypeOK, Stations, Dropping
<1>4. Sockets'
  BY DEF TypeOK, Sockets
<1>5. Hands'
  <2>1. t \notin Chan
    BY DEF TypeOK, Stations, Dropping
  <2>2. /\ hand'[t] = channels /\ pc'[t] = "dropLast"
        /\ \A u \in Thread : u # t => hand'[u] = hand[u] /\ pc'[u] = pc[u]
    BY DEF TypeOK
  <2>3. \A u \in Thread : \A c \in hand'[u] : conn'[c] # "absent"
    BY <2>2 DEF Hands, Sockets
  <2> QED BY <2>1, <2>2, <2>3 DEF Hands
<1>6. Beats'
  BY DEF TypeOK, Beats
<1>7. Once'
  BY DEF TypeOK, Once
<1>8. Tries'
  BY DEF TypeOK, Tries, Attempting, Dropping
<1> QED BY <1>1, <1>2, <1>3, <1>4, <1>5, <1>6, <1>7, <1>8

\* Closing sockets of channels that are out of the map.
LEMMA CloseConnsStep ==
  ASSUME IInv, NEW S, \A c \in S : conn[c] # "absent", S \cap channels = {}, CloseConns(S)
  PROVE  /\ conn' \in [Chan -> {"absent", "open", "stuck", "closed"}]
         /\ \A c \in Chan : conn'[c] = "absent" <=> conn[c] = "absent"
         /\ \A c \in channels : conn'[c] = conn[c]
BY DEF IInv, TypeOK, CloseConns

\* The socket of the last channel, or all of Close.
LEMMA DropLastStep ==
  ASSUME IInv, NEW t \in Thread, DropLast(t)
  PROVE  IInv'
<1> USE Threads, TunnelAssumption DEF IInv, Goto, bond, death, write, locals, DropLast
<1>0. /\ conn' \in [Chan -> {"absent", "open", "stuck", "closed"}]
      /\ \A c \in Chan : conn'[c] = "absent" <=> conn[c] = "absent"
      /\ \A c \in channels : conn'[c] = conn[c]
  <2>1. (\A c \in hand[t] : conn[c] # "absent") /\ hand[t] \cap channels = {}
    BY DEF Dropping, Hands
  <2> QED BY <2>1, CloseConnsStep
<1>1. TypeOK'
  BY <1>0 DEF TypeOK, Labels
<1>2. Listed'
  BY DEF TypeOK, Listed
<1>3. Stations'
  BY DEF TypeOK, Stations, Dropping
<1>4. Sockets'
  BY <1>0 DEF TypeOK, Sockets
<1>5. Hands'
  BY <1>0 DEF TypeOK, Hands, Dropping
<1>6. Beats'
  BY <1>0 DEF TypeOK, Beats
<1>7. Once'
  BY DEF TypeOK, Once
<1>8. Tries'
  BY DEF TypeOK, Tries, Attempting, Dropping
<1> QED BY <1>1, <1>2, <1>3, <1>4, <1>5, <1>6, <1>7, <1>8

\* deadOnce is entered.
LEMMA MarkClosedStep ==
  ASSUME IInv, NEW t \in Thread, MarkClosed(t)
  PROVE  IInv'
<1> USE Threads, TunnelAssumption DEF IInv, Goto, bond, death, write, locals, MarkClosed
<1>1. TypeOK'
  BY DEF TypeOK, Labels
<1>2. Listed'
  BY DEF TypeOK, Listed
<1>3. Stations'
  BY DEF TypeOK, Stations, Dropping
<1>4. Sockets'
  BY DEF TypeOK, Sockets
<1>5. Hands'
  BY DEF TypeOK, Hands, Dropping
<1>6. Beats'
  BY DEF TypeOK, Beats
<1>7. Once'
  <2>1. once = "new" /\ once' = "running" /\ closed' = TRUE /\ ~dead /\ dead' = dead
        /\ emptied' = emptied /\ emptied = 0
    BY DEF OnceNew, Once
  <2>2. \A u \in Thread : pc[u] \notin {"closeDead", "onEmpty"}
    BY <2>1 DEF Once
  <2>3. pc'[t] = "closeDead" /\ \A u \in Thread : u # t => pc'[u] = pc[u]
    BY DEF TypeOK
  <2>4. closed'
    BY <2>1, Zenon
  <2>5. ~dead'
    BY <2>1
  <2> QED BY <2>1, <2>2, <2>3, <2>4, <2>5 DEF Once
<1>8. Tries'
  BY DEF TypeOK, Tries, Attempting, Dropping
<1> QED BY <1>1, <1>2, <1>3, <1>4, <1>5, <1>6, <1>7, <1>8

\* dead is closed.
LEMMA CloseDeadStep ==
  ASSUME IInv, NEW t \in Thread, CloseDead(t)
  PROVE  IInv'
<1> USE Threads, TunnelAssumption DEF IInv, Goto, bond, death, write, locals, CloseDead
<1>1. TypeOK'
  BY DEF TypeOK, Labels
<1>2. Listed'
  BY DEF TypeOK, Listed
<1>3. Stations'
  BY DEF TypeOK, Stations, Dropping
<1>4. Sockets'
  BY DEF TypeOK, Sockets
<1>5. Hands'
  BY DEF TypeOK, Hands, Dropping
<1>6. Beats'
  BY DEF TypeOK, Beats
<1>7. Once'
  BY DEF TypeOK, Once
<1>8. Tries'
  BY DEF TypeOK, Tries, Attempting, Dropping
<1> QED BY <1>1, <1>2, <1>3, <1>4, <1>5, <1>6, <1>7, <1>8

\* A return keeps everything but deadOnce's state, which it does not see.
LEMMA ReturnKeeps ==
  ASSUME IInv, NEW t \in Thread, pc[t] \in {"remove"} \cup Dropping, Return(t),
         UNCHANGED <<bond, closed, inbound, consumer>>, dead' = dead,
         conn' \in [Chan -> {"absent", "open", "stuck", "closed"}],
         \A c \in Chan : conn'[c] = "absent" <=> conn[c] = "absent",
         \A c \in channels : conn'[c] = conn[c],
         t \in channels => dead,
         once' \in {"new", "running", "done"}, emptied' \in Nat
  PROVE  TypeOK' /\ Listed' /\ Stations' /\ Sockets' /\ Hands' /\ Beats' /\ Tries'
<1> USE Threads, TunnelAssumption DEF IInv, bond
<1>1. /\ pc' \in [Thread -> Labels] /\ \A u \in Thread : u # t => pc'[u] = pc[u]
      /\ t \in Chan => pc'[t] = "done"
      /\ t = Writer => pc'[t] \in {"idle", "pick", "close"}
      /\ t = Writer /\ pc'[t] = "pick" => tries' < MaxTries
      /\ t = Beat => pc'[t] \in {"idle", "done", "beating"}
      /\ t = Beat /\ pc'[t] = "beating" => beats # <<>>
      /\ t = Closer => pc'[t] = "done"
      /\ closing' = closing \ {t} /\ hand' = [hand EXCEPT ![t] = {}] /\ beats' = beats
      /\ t # Writer => UNCHANGED write
      /\ hash' \in 0 .. HashRange - 1 /\ tries' \in 0 .. MaxTries /\ present' \subseteq Chan
  BY ReturnStep
<1>2. /\ pc'[t] \in {"idle", "done", "pick", "close", "beating"} /\ pc[t] # "none"
      /\ pc'[t] \notin Dropping /\ pc'[t] # "remove"
  BY <1>1 DEF Dropping
<1>3. /\ hand'[t] = {} /\ \A u \in Thread : u # t => hand'[u] = hand[u]
      /\ hand' \in [Thread -> SUBSET Chan]
  BY <1>1 DEF TypeOK
<1>4. TypeOK'
  BY <1>1, <1>3 DEF TypeOK
<1>5. Listed'
  BY DEF Listed
<1>6. Stations'
  BY <1>1, <1>2 DEF TypeOK, Stations
<1>7. Sockets'
  BY <1>1, <1>2 DEF TypeOK, Sockets
<1>8. Hands'
  BY <1>1, <1>2, <1>3 DEF TypeOK, Hands
<1>9. Beats'
  BY <1>1 DEF TypeOK, Beats
<1>10. Tries'
  <2>1. CASE t = Writer
    BY <1>1, <1>2, <2>1 DEF Tries, Attempting
  <2>2. CASE t # Writer
    BY <1>1, <2>2 DEF Tries, Attempting, write
  <2> QED BY <2>1, <2>2
<1> QED BY <1>4, <1>5, <1>6, <1>7, <1>8, <1>9, <1>10

\* deadOnce is not affected by a goroutine outside it.
LEMMA OnceKept ==
  ASSUME IInv, NEW t \in Thread, UNCHANGED death,
         pc' \in [Thread -> Labels], \A u \in Thread : u # t => pc'[u] = pc[u],
         pc'[t] \notin {"closeDead", "onEmpty"}
  PROVE  Once'
BY DEF IInv, TypeOK, Once, death

\* Another goroutine took the channel out, or it was not the last one, or
\* deadOnce is over.
LEMMA ReturnsStep ==
  ASSUME IInv, NEW t \in Thread, RemoveGone(t) \/ Drop(t) \/ AlreadyDead(t)
  PROVE  IInv'
<1> USE Threads
<1>1. /\ Return(t) /\ pc[t] \in {"remove"} \cup Dropping
      /\ UNCHANGED <<bond, death, inbound, consumer>>
  BY DEF RemoveGone, Drop, AlreadyDead, Dropping
<1>2. /\ conn' \in [Chan -> {"absent", "open", "stuck", "closed"}]
      /\ \A c \in Chan : conn'[c] = "absent" <=> conn[c] = "absent"
      /\ \A c \in channels : conn'[c] = conn[c]
  <2>1. CASE Drop(t)
    <3>1. (\A c \in hand[t] : conn[c] # "absent") /\ hand[t] \cap channels = {}
      BY <2>1 DEF Drop, Dropping, IInv, Hands
    <3> QED BY <2>1, <3>1, CloseConnsStep DEF Drop
  <2>2. CASE ~Drop(t)
    BY <2>2 DEF RemoveGone, AlreadyDead, IInv, TypeOK
  <2> QED BY <2>1, <2>2
<1>3. t \in channels => dead
  <2>1. CASE RemoveGone(t)
    BY <2>1 DEF RemoveGone, IInv, TypeOK, Hands
  <2>2. CASE Drop(t)
    BY <2>2 DEF Drop, Dropping, IInv, TypeOK, Hands
  <2>3. CASE AlreadyDead(t)
    BY <2>3 DEF AlreadyDead, IInv, Once
  <2> QED BY <2>1, <2>2, <2>3
<1>4. TypeOK' /\ Listed' /\ Stations' /\ Sockets' /\ Hands' /\ Beats' /\ Tries'
  BY <1>1, <1>2, <1>3, ReturnKeeps DEF death, IInv, TypeOK
<1>5. Once'
  <2>1. /\ pc' \in [Thread -> Labels] /\ \A u \in Thread : u # t => pc'[u] = pc[u]
        /\ pc'[t] \in {"idle", "done", "pick", "close", "beating"}
    BY <1>1, ReturnStep
  <2> QED BY <1>1, <2>1, OnceKept
<1> QED BY <1>4, <1>5 DEF IInv

\* onEmpty returns.
LEMMA OnEmptyStep ==
  ASSUME IInv, NEW t \in Thread, OnEmpty(t)
  PROVE  IInv'
<1> USE Threads DEF OnEmpty
<1>1. /\ Return(t) /\ pc[t] \in {"remove"} \cup Dropping /\ pc[t] = "onEmpty"
      /\ UNCHANGED <<bond, closed, inbound, conn, consumer>> /\ dead' = dead
      /\ once' = "done" /\ emptied' = emptied + 1
  BY DEF Dropping
<1>2. dead /\ once = "running" /\ emptied = 0 /\ closed
  BY <1>1 DEF IInv, Once
<1>3. TypeOK' /\ Listed' /\ Stations' /\ Sockets' /\ Hands' /\ Beats' /\ Tries'
  BY <1>1, <1>2, ReturnKeeps DEF IInv, TypeOK
<1>4. /\ \A u \in Thread : u # t => pc'[u] = pc[u]
      /\ pc'[t] \in {"idle", "done", "pick", "close", "beating"}
  BY <1>1, ReturnStep
<1>5. \A u \in Thread : pc'[u] \notin {"closeDead", "onEmpty"}
  BY <1>1, <1>4 DEF IInv, Once
<1>6. Once'
  BY <1>1, <1>2, <1>5 DEF Once
<1> QED BY <1>3, <1>6 DEF IInv

-----------------------------------------------------------------------------
(* readLoop, WritePacket, WriteKeepalive and the rest.                     *)

\* readLoop.
LEMMA ReaderStep ==
  ASSUME IInv, NEW c \in Chan, Reader(c)
  PROVE  IInv'
<1> USE Threads, TunnelAssumption DEF IInv, Goto, bond, death, write, locals, Reader, Receive, ReadError, Deliver, Abandon
<1>1. TypeOK'
  BY DEF TypeOK, Labels
<1>2. Listed'
  BY DEF TypeOK, Listed
<1>3. Stations'
  <2>1. /\ pc'[c] \in {"reading", "holding", "remove", "done"}
        /\ \A u \in Thread : u # c => pc'[u] = pc[u]
        /\ pc[c] \in {"reading", "holding"} /\ closing' = closing
    BY DEF TypeOK
  <2>2. closing \subseteq Caller /\ \A t \in Caller : pc'[t] = pc[t]
    BY <2>1 DEF TypeOK
  <2>3. \A d \in Chan : pc'[d] \in {"none", "reading", "holding", "remove", "done"} \cup Dropping
    BY <2>1 DEF Stations
  <2> QED BY <2>1, <2>2, <2>3 DEF Stations
<1>4. Sockets'
  BY DEF TypeOK, Sockets
<1>5. Hands'
  <2>1. CASE ReadError(c)
    <3>1. /\ hand'[c] = {c} /\ pc'[c] = "remove" /\ conn[c] # "absent"
          /\ \A u \in Thread : u # c => hand'[u] = hand[u] /\ pc'[u] = pc[u]
      BY <2>1 DEF TypeOK, Sockets
    <3> QED BY <2>1, <3>1 DEF Hands, Dropping
  <2>2. CASE ~ReadError(c)
    BY <2>2 DEF TypeOK, Hands, Dropping
  <2> QED BY <2>1, <2>2
<1>6. Beats'
  BY DEF TypeOK, Beats
<1>7. Once'
  BY DEF TypeOK, Once
<1>8. Tries'
  BY DEF TypeOK, Tries, Attempting, Dropping
<1> QED BY <1>1, <1>2, <1>3, <1>4, <1>5, <1>6, <1>7, <1>8

\* WritePacket begins.
LEMMA StartWriteStep ==
  ASSUME IInv, Writer \in Caller, StartWrite
  PROVE  IInv'
<1> USE Threads, TunnelAssumption DEF IInv, Goto, bond, death, write, locals, StartWrite
<1>1. TypeOK'
  BY DEF TypeOK, Labels
<1>2. Listed'
  BY DEF TypeOK, Listed
<1>3. Stations'
  BY DEF TypeOK, Stations, Dropping
<1>4. Sockets'
  BY DEF TypeOK, Sockets
<1>5. Hands'
  BY DEF TypeOK, Hands, Dropping
<1>6. Beats'
  BY DEF TypeOK, Beats
<1>7. Once'
  BY DEF TypeOK, Once
<1>8. Tries'
  BY DEF TypeOK, Tries, Attempting, Dropping
<1> QED BY <1>1, <1>2, <1>3, <1>4, <1>5, <1>6, <1>7, <1>8

\* The index WritePacket computes is that of a channel in the map.
LEMMA PickedAttached ==
  ASSUME IInv, order # <<>>
  PROVE  Picked \in channels
<1> USE TunnelAssumption DEF IInv
<1>1. Len(order) \in Nat \ {0}
  BY DEF TypeOK
<1> DEFINE h == (hash + tries) % HashRange
<1>2. h \in Nat
  BY DEF TypeOK
<1> HIDE DEF h
<1>3. 1 + (h % Len(order)) \in 1 .. Len(order)
  BY <1>1, <1>2
<1> QED BY <1>3 DEF Picked, Listed, h

\* WritePacket chooses a channel.
LEMMA PickStep ==
  ASSUME IInv, Writer \in Caller, Pick
  PROVE  IInv'
<1> USE Threads, TunnelAssumption DEF IInv, Goto, bond, death, write, locals, Pick
<1>0. order # <<>> => Picked \in channels
  BY PickedAttached
<1>1. TypeOK'
  BY <1>0 DEF TypeOK, Labels
<1>2. Listed'
  BY DEF TypeOK, Listed
<1>3. Stations'
  BY DEF TypeOK, Stations, Dropping
<1>4. Sockets'
  BY DEF TypeOK, Sockets
<1>5. Hands'
  <2>1. CASE order = <<>>
    BY <2>1 DEF TypeOK, Hands, Dropping
  <2>2. CASE order # <<>>
    <3>1. /\ hand'[Writer] = {Picked} /\ pc'[Writer] = "sending" /\ conn[Picked] # "absent"
          /\ \A u \in Thread : u # Writer => hand'[u] = hand[u] /\ pc'[u] = pc[u]
      BY <1>0, <2>2 DEF TypeOK, Sockets
    <3> QED BY <3>1 DEF Hands, Dropping
  <2> QED BY <2>1, <2>2
<1>6. Beats'
  BY DEF TypeOK, Beats
<1>7. Once'
  BY DEF TypeOK, Once
<1>8. Tries'
  BY DEF TypeOK, Tries, Attempting, Dropping
<1> QED BY <1>1, <1>2, <1>3, <1>4, <1>5, <1>6, <1>7, <1>8

\* WritePacket succeeds.
LEMMA SentStep ==
  ASSUME IInv, Writer \in Caller, NEW c \in Chan, Sent(c)
  PROVE  IInv'
<1> USE Threads, TunnelAssumption DEF IInv, Goto, bond, death, write, locals, Sent, SendOK, SendFail, EndWrite
<1>1. TypeOK'
  BY DEF TypeOK, Labels
<1>2. Listed'
  BY DEF TypeOK, Listed
<1>3. Stations'
  BY DEF TypeOK, Stations, Dropping
<1>4. Sockets'
  BY DEF TypeOK, Sockets
<1>5. Hands'
  BY DEF TypeOK, Hands, Dropping
<1>6. Beats'
  BY DEF TypeOK, Beats
<1>7. Once'
  BY DEF TypeOK, Once
<1>8. Tries'
  BY DEF TypeOK, Tries, Attempting, Dropping
<1> QED BY <1>1, <1>2, <1>3, <1>4, <1>5, <1>6, <1>7, <1>8

\* WritePacket fails on a channel.
LEMMA SendErrorStep ==
  ASSUME IInv, Writer \in Caller, NEW c \in Chan, SendError(c)
  PROVE  IInv'
<1> USE Threads, TunnelAssumption DEF IInv, Goto, bond, death, write, locals, SendError, SendOK, SendFail, EndWrite
<1>0. /\ conn[c] # "absent" /\ conn'[c] \in {"stuck", "closed"}
      /\ conn[c] # "closed" => conn'[c] = "stuck"
      /\ \A d \in Chan : d # c => conn'[d] = conn[d]
  BY DEF TypeOK, Hands
<1>1. TypeOK'
  BY DEF TypeOK, Labels
<1>2. Listed'
  BY DEF TypeOK, Listed
<1>3. Stations'
  BY DEF TypeOK, Stations, Dropping
<1>4. Sockets'
  BY <1>0 DEF TypeOK, Sockets
<1>5. Hands'
  BY DEF TypeOK, Hands, Dropping
<1>6. Beats'
  BY DEF TypeOK, Beats
<1>7. Once'
  BY DEF TypeOK, Once
<1>8. Tries'
  BY DEF TypeOK, Tries, Attempting, Dropping
<1> QED BY <1>1, <1>2, <1>3, <1>4, <1>5, <1>6, <1>7, <1>8

\* WriteKeepalive takes a copy of order.
LEMMA StartBeatStep ==
  ASSUME IInv, Beat \in Caller, StartBeat
  PROVE  IInv'
<1> USE Threads, TunnelAssumption DEF IInv, Goto, bond, death, write, locals, StartBeat, SendOK, SendFail
<1>1. TypeOK'
  BY DEF TypeOK, Labels
<1>2. Listed'
  BY DEF TypeOK, Listed
<1>3. Stations'
  BY DEF TypeOK, Stations, Dropping
<1>4. Sockets'
  BY DEF TypeOK, Sockets
<1>5. Hands'
  BY DEF TypeOK, Hands, Dropping
<1>6. Beats'
  BY DEF TypeOK, Beats, Listed, Sockets
<1>7. Once'
  BY DEF TypeOK, Once
<1>8. Tries'
  BY DEF TypeOK, Tries, Attempting, Dropping
<1> QED BY <1>1, <1>2, <1>3, <1>4, <1>5, <1>6, <1>7, <1>8

\* The keepalives still to be written.
LEMMA BeatsHead ==
  ASSUME IInv, Beat \in Caller, pc[Beat] = "beating"
  PROVE  /\ Head(beats) \in Chan /\ conn[Head(beats)] # "absent" /\ Tail(beats) \in Seq(Chan)
         /\ Len(beats) \in Nat \ {0} /\ Len(Tail(beats)) = Len(beats) - 1
         /\ \A i \in 1 .. Len(beats) - 1 : Tail(beats)[i] = beats[i + 1]
<1>1. beats # <<>> /\ beats \in Seq(Chan) /\ \A i \in 1 .. Len(beats) : conn[beats[i]] # "absent"
  BY DEF IInv, TypeOK, Beats
<1>2. Len(beats) \in Nat \ {0}
  BY <1>1
<1>3. Head(beats) = beats[1] /\ 1 \in 1 .. Len(beats)
  BY <1>1, <1>2
<1>4. Tail(beats) \in Seq(Chan) /\ Len(Tail(beats)) = Len(beats) - 1
  BY <1>1, <1>2
<1>5. \A i \in 1 .. Len(beats) - 1 : Tail(beats)[i] = beats[i + 1]
  BY <1>1, <1>2
<1> QED BY <1>1, <1>2, <1>3, <1>4, <1>5

\* A keepalive is written.
LEMMA BeatSentStep ==
  ASSUME IInv, Beat \in Caller, BeatSent
  PROVE  IInv'
<1> USE Threads, TunnelAssumption DEF IInv, Goto, bond, death, write, locals, BeatSent, SendOK, SendFail
<1>0. /\ Head(beats) \in Chan /\ conn[Head(beats)] # "absent" /\ Tail(beats) \in Seq(Chan)
      /\ Len(beats) \in Nat \ {0} /\ Len(Tail(beats)) = Len(beats) - 1
      /\ \A i \in 1 .. Len(beats) - 1 : Tail(beats)[i] = beats[i + 1]
  BY BeatsHead
<1>1. TypeOK'
  BY <1>0 DEF TypeOK, Labels
<1>2. Listed'
  BY DEF TypeOK, Listed
<1>3. Stations'
  BY DEF TypeOK, Stations, Dropping
<1>4. Sockets'
  BY DEF TypeOK, Sockets
<1>5. Hands'
  BY DEF TypeOK, Hands, Dropping
<1>6. Beats'
  <2>1. \A i \in 1 .. Len(beats') : i \in 1 .. Len(beats) - 1 /\ i + 1 \in 1 .. Len(beats)
    BY <1>0
  <2>2. \A i \in 1 .. Len(beats') : beats[i + 1] \in Chan /\ conn[beats[i + 1]] # "absent"
    BY <2>1 DEF TypeOK, Beats
  <2>3. \A c \in Chan : conn[c] # "absent" => conn'[c] # "absent"
    BY <1>0 DEF TypeOK
  <2>4. pc'[Beat] = "beating" => beats' # <<>>
    <3>1. CASE Len(beats) = 1
      BY <3>1 DEF TypeOK
    <3>2. CASE Len(beats) # 1
      <4>1. Len(Tail(beats)) # 0
        BY <1>0, <3>2
      <4>2. Len(<<>>) = 0
        OBVIOUS
      <4> QED BY <4>1, <4>2
    <3> QED BY <3>1, <3>2
  <2> QED BY <1>0, <2>1, <2>2, <2>3, <2>4 DEF Beats
<1>7. Once'
  BY DEF TypeOK, Once
<1>8. Tries'
  BY DEF TypeOK, Tries, Attempting, Dropping
<1> QED BY <1>1, <1>2, <1>3, <1>4, <1>5, <1>6, <1>7, <1>8

\* A keepalive fails.
LEMMA BeatErrorStep ==
  ASSUME IInv, Beat \in Caller, BeatError
  PROVE  IInv'
<1> USE Threads, TunnelAssumption DEF IInv, Goto, bond, death, write, locals, BeatError, SendOK, SendFail
<1>0. /\ Head(beats) \in Chan /\ conn[Head(beats)] # "absent" /\ Tail(beats) \in Seq(Chan)
      /\ Len(beats) \in Nat \ {0} /\ Len(Tail(beats)) = Len(beats) - 1
      /\ \A i \in 1 .. Len(beats) - 1 : Tail(beats)[i] = beats[i + 1]
  BY BeatsHead
<1> DEFINE h == Head(beats)
<1>9. /\ conn'[h] \in {"stuck", "closed"}
      /\ conn[h] # "closed" => conn'[h] = "stuck"
      /\ conn' \in [Chan -> {"absent", "open", "stuck", "closed"}]
      /\ \A d \in Chan : d # h => conn'[d] = conn[d]
  BY <1>0 DEF TypeOK
<1>10. /\ hand'[Beat] = {h} /\ pc'[Beat] = "remove" /\ hand' \in [Thread -> SUBSET Chan]
       /\ \A u \in Thread : u # Beat => hand'[u] = hand[u] /\ pc'[u] = pc[u]
  BY <1>0 DEF TypeOK
<1>1. TypeOK'
  BY <1>0, <1>9, <1>10 DEF TypeOK, Labels
<1>2. Listed'
  BY DEF TypeOK, Listed
<1>3. Stations'
  BY DEF TypeOK, Stations, Dropping
<1>4. Sockets'
  BY <1>0, <1>9 DEF TypeOK, Sockets
<1>5. Hands'
  <2>1. \A d \in Chan : conn[d] # "absent" => conn'[d] # "absent"
    BY <1>0, <1>9
  <2>2. \A u \in Thread : \A c \in hand'[u] : conn'[c] # "absent"
    BY <1>0, <1>10, <2>1 DEF TypeOK, Hands
  <2> QED BY <1>0, <1>10, <2>2 DEF Hands, Dropping
<1>6. Beats'
  <2>1. \A i \in 1 .. Len(beats') : i \in 1 .. Len(beats) - 1 /\ i + 1 \in 1 .. Len(beats)
    BY <1>0
  <2>2. \A i \in 1 .. Len(beats') : beats[i + 1] \in Chan /\ conn[beats[i + 1]] # "absent"
    BY <2>1 DEF TypeOK, Beats
  <2>3. \A c \in Chan : conn[c] # "absent" => conn'[c] # "absent"
    BY <1>0 DEF TypeOK
  <2>4. pc'[Beat] = "beating" => beats' # <<>>
    BY <1>0 DEF TypeOK
  <2> QED BY <1>0, <2>1, <2>2, <2>3, <2>4 DEF Beats
<1>7. Once'
  BY DEF TypeOK, Once
<1>8. Tries'
  BY DEF TypeOK, Tries, Attempting, Dropping
<1> QED BY <1>1, <1>2, <1>3, <1>4, <1>5, <1>6, <1>7, <1>8

\* The ticker is stopped.
LEMMA BeatStopStep ==
  ASSUME IInv, Beat \in Caller, BeatStop
  PROVE  IInv'
<1> USE Threads, TunnelAssumption DEF IInv, Goto, bond, death, write, locals, BeatStop, SendOK, SendFail
<1>1. TypeOK'
  BY DEF TypeOK, Labels
<1>2. Listed'
  BY DEF TypeOK, Listed
<1>3. Stations'
  BY DEF TypeOK, Stations, Dropping
<1>4. Sockets'
  BY DEF TypeOK, Sockets
<1>5. Hands'
  BY DEF TypeOK, Hands, Dropping
<1>6. Beats'
  BY DEF TypeOK, Beats
<1>7. Once'
  BY DEF TypeOK, Once
<1>8. Tries'
  BY DEF TypeOK, Tries, Attempting, Dropping
<1> QED BY <1>1, <1>2, <1>3, <1>4, <1>5, <1>6, <1>7, <1>8

\* An outside Close begins.
LEMMA CallCloseStep ==
  ASSUME IInv, Closer \in Caller, CallClose
  PROVE  IInv'
<1> USE Threads, TunnelAssumption DEF IInv, Goto, bond, death, write, locals, CallClose
<1>1. TypeOK'
  BY DEF TypeOK, Labels
<1>2. Listed'
  BY DEF TypeOK, Listed
<1>3. Stations'
  BY DEF TypeOK, Stations, Dropping
<1>4. Sockets'
  BY DEF TypeOK, Sockets
<1>5. Hands'
  BY DEF TypeOK, Hands, Dropping
<1>6. Beats'
  BY DEF TypeOK, Beats
<1>7. Once'
  BY DEF TypeOK, Once
<1>8. Tries'
  BY DEF TypeOK, Tries, Attempting, Dropping
<1> QED BY <1>1, <1>2, <1>3, <1>4, <1>5, <1>6, <1>7, <1>8

\* ReadPacket and its caller.
LEMMA ConsumerStep ==
  ASSUME IInv, Consume \/ Drained \/ Quit
  PROVE  IInv'
<1> USE Threads, TunnelAssumption DEF IInv, Goto, bond, death, write, locals, Consume, Drained, Quit
<1>1. TypeOK'
  BY DEF TypeOK, Labels
<1>2. Listed'
  BY DEF TypeOK, Listed
<1>3. Stations'
  BY DEF TypeOK, Stations, Dropping
<1>4. Sockets'
  BY DEF TypeOK, Sockets
<1>5. Hands'
  BY DEF TypeOK, Hands, Dropping
<1>6. Beats'
  BY DEF TypeOK, Beats
<1>7. Once'
  BY DEF TypeOK, Once
<1>8. Tries'
  BY DEF TypeOK, Tries, Attempting, Dropping
<1> QED BY <1>1, <1>2, <1>3, <1>4, <1>5, <1>6, <1>7, <1>8

\* Every step keeps the invariant.
LEMMA NextIInv == IInv /\ [Next]_vars => IInv'
<1> SUFFICES ASSUME IInv, [Next]_vars PROVE IInv'
  OBVIOUS
<1>1. ASSUME NEW c \in Chan, AddChannel(c) PROVE IInv'
  BY <1>1, AddChannelStep
<1>2. ASSUME NEW c \in Chan, RefuseChannel(c) PROVE IInv'
  BY <1>2, RefuseChannelStep
<1>3. ASSUME NEW c \in Chan, Reader(c) PROVE IInv'
  BY <1>3, ReaderStep
<1>4. ASSUME NEW t \in Thread, Ending(t) PROVE IInv'
  <2>1. CASE Remove(t)
    BY <2>1, RemoveStep
  <2>2. CASE TakeAll(t)
    BY <2>2, TakeAllStep
  <2>3. CASE DropLast(t)
    BY <2>3, DropLastStep
  <2>4. CASE MarkClosed(t)
    BY <2>4, MarkClosedStep
  <2>5. CASE CloseDead(t)
    BY <2>5, CloseDeadStep
  <2>6. CASE OnEmpty(t)
    BY <2>6, OnEmptyStep
  <2>7. CASE RemoveGone(t) \/ Drop(t) \/ AlreadyDead(t)
    BY <2>7, ReturnsStep
  <2> QED BY <1>4, <2>1, <2>2, <2>3, <2>4, <2>5, <2>6, <2>7 DEF Ending
<1>5. ASSUME Writer \in Caller, Writing PROVE IInv'
  BY <1>5, StartWriteStep, PickStep, SentStep, SendErrorStep DEF Writing
<1>6. ASSUME Beat \in Caller, Beating PROVE IInv'
  BY <1>6, StartBeatStep, BeatSentStep, BeatErrorStep, BeatStopStep DEF Beating
<1>7. ASSUME Closer \in Caller, CallClose PROVE IInv'
  BY <1>7, CallCloseStep
<1>8. ASSUME Consume \/ Drained \/ Quit PROVE IInv'
  BY <1>8, ConsumerStep
<1>9. ASSUME UNCHANGED vars PROVE IInv'
  BY <1>9 DEF vars, bond, death, locals, write, IInv, TypeOK, Listed, Stations, Sockets,
              Hands, Beats, Once, Tries, Attempting
<1> QED BY <1>1, <1>2, <1>3, <1>4, <1>5, <1>6, <1>7, <1>8, <1>9 DEF Next

LEMMA Invariance == Spec => []IInv
BY InitIInv, NextIInv, PTL DEF Spec

\* Every variable of the tunnel keeps its type; the attempts of WritePacket
\* and the packets in inbound keep within their limits.
THEOREM TypeCorrect == Spec => []TypeOK
<1>1. IInv => TypeOK
  BY DEF IInv
<1> QED BY <1>1, Invariance, PTL

\* A sequence that lists a set without repetition is as long as the set is
\* large.
LEMMA ListingCounts ==
  ASSUME NEW S, NEW s \in Seq(S),
         \A i, j \in 1 .. Len(s) : s[i] = s[j] => i = j,
         \A c \in S : \E i \in 1 .. Len(s) : s[i] = c
  PROVE  IsFiniteSet(S) /\ Cardinality(S) = Len(s)
<1>1. Len(s) \in Nat /\ s \in [1 .. Len(s) -> S]
  OBVIOUS
<1>2. IsFiniteSet(1 .. Len(s)) /\ Cardinality(1 .. Len(s)) = Len(s)
  BY <1>1, FS_Interval
<1>3. s \in Bijection(1 .. Len(s), S)
  BY <1>1 DEF Bijection, Injection, Surjection, IsInjective
<1>4. ExistsBijection(1 .. Len(s), S)
  BY <1>3 DEF ExistsBijection
<1> QED BY <1>2, <1>4, FS_Bijection

\* Tunnel.order and Tunnel.channels agree whatever the goroutines do, so the
\* channel WritePacket computes from the length of order always exists.
THEOREM OrderListsChannels == Spec => []OrderMatches
<1>1. IInv => OrderMatches
  <2> SUFFICES ASSUME IInv PROVE OrderMatches
    OBVIOUS
  <2>1. order \in Seq(channels)
    BY DEF IInv, TypeOK, Listed
  <2>2. Cardinality(channels) = Len(order)
    BY <2>1, ListingCounts DEF IInv, Listed
  <2>3. {order[i] : i \in 1 .. Len(order)} = channels
    BY DEF IInv, Listed
  <2> QED BY <2>2, <2>3 DEF OrderMatches
<1> QED BY <1>1, Invariance, PTL

\* deadOnce lets onEmpty run at most once, after closed and dead are set.
THEOREM OnEmptyRunsOnce == Spec => []OnEmptyOnce
<1>1. IInv => OnEmptyOnce
  BY DEF IInv, Once, OnEmptyOnce
<1> QED BY <1>1, Invariance, PTL

\* A channel in the map has a readLoop that has not ended and a socket that
\* nobody has closed, until the tunnel is dead.
THEOREM AttachedAreRead == Spec => []AttachedIsRead
<1>1. IInv => AttachedIsRead
  BY DEF IInv, TypeOK, Sockets, AttachedIsRead
<1> QED BY <1>1, Invariance, PTL

-----------------------------------------------------------------------------
(* The refinement of TunnelLife.                                           *)

Doomers == \E t \in Thread : pc[t] \in {"dropLast", "markDead"}

LEMMA StageValues ==
  ASSUME IInv
  PROVE  /\ emptied = 1 => Stage = "released"
         /\ emptied = 0 /\ dead => Stage = "dead"
         /\ ~dead /\ closed => Stage = "closed"
         /\ ~closed /\ Doomers => Stage = "doomed"
         /\ ~closed /\ ~Doomers => Stage = "open"
<1>1. (emptied = 0 \/ emptied = 1) /\ (~dead => emptied = 0) /\ (~closed => ~dead)
  BY DEF IInv, Once
<1> QED BY <1>1 DEF Stage, Doomers

LEMMA StageValuesAfter ==
  ASSUME IInv'
  PROVE  /\ emptied' = 1 => Stage' = "released"
         /\ emptied' = 0 /\ dead' => Stage' = "dead"
         /\ ~dead' /\ closed' => Stage' = "closed"
         /\ ~closed' /\ Doomers' => Stage' = "doomed"
         /\ ~closed' /\ ~Doomers' => Stage' = "open"
<1>1. (emptied' = 0 \/ emptied' = 1) /\ (~dead' => emptied' = 0) /\ (~closed' => ~dead')
  BY DEF IInv, Once
<1> QED BY <1>1 DEF Stage, Doomers

\* The stage depends on deadOnce's state, and before that on whether a
\* goroutine is on its way to it.
LEMMA StageKept ==
  ASSUME IInv, IInv', UNCHANGED death, Doomers' <=> Doomers
  PROVE  Stage' = Stage
<1>1. closed' = closed /\ dead' = dead /\ emptied' = emptied
  BY DEF death
<1>2. (emptied = 0 \/ emptied = 1) /\ (~dead => emptied = 0) /\ (~closed => ~dead)
  BY DEF IInv, Once
<1> QED BY <1>1, <1>2, StageValues, StageValuesAfter

\* A goroutine on its way to markDead dooms a tunnel that was open.
LEMMA DoomedNow ==
  ASSUME IInv, IInv', UNCHANGED death, Doomers'
  PROVE  Stage' = Life!Doomed
<1>1. closed' = closed /\ dead' = dead /\ emptied' = emptied
  BY DEF death
<1>2. (emptied = 0 \/ emptied = 1) /\ (~dead => emptied = 0) /\ (~closed => ~dead)
  BY DEF IInv, Once
<1> QED BY <1>1, <1>2, StageValues, StageValuesAfter DEF Life!Doomed

\* Each step is a step of the tunnel's life, or a stutter.
LEMMA StepSimulation == IInv /\ [Next]_vars => [Life!Next]_(Life!vars)
<1> SUFFICES ASSUME IInv, [Next]_vars PROVE [Life!Next]_(Life!vars)
  OBVIOUS
<1>0. IInv'
  BY NextIInv
<1> USE Threads DEF Life!vars
<1>1. ASSUME UNCHANGED vars PROVE UNCHANGED Life!vars
  BY <1>1 DEF vars, bond, death, Stage
<1>2. ASSUME NEW c \in Chan, AddChannel(c) PROVE Life!Next
  <2>1. ~closed /\ c \notin channels /\ channels' = channels \cup {c} /\ UNCHANGED death
    BY <1>2 DEF AddChannel, IInv, Sockets
  <2>2. Doomers' <=> Doomers
    BY <1>2 DEF AddChannel, Goto, IInv, TypeOK, Sockets, Doomers
  <2>3. Stage' = Stage /\ Stage \in {"open", "doomed"}
    BY <1>0, <2>1, <2>2, StageKept, StageValues
  <2> QED BY <2>1, <2>3 DEF Life!Next, Life!Join
<1>3. ASSUME NEW c \in Chan, RefuseChannel(c) \/ Reader(c) PROVE UNCHANGED Life!vars
  <2>1. channels' = channels /\ UNCHANGED death
    BY <1>3 DEF RefuseChannel, Reader, Receive, ReadError, Deliver, Abandon, bond
  <2>2. /\ pc[c] \notin {"dropLast", "markDead"} /\ pc'[c] \notin {"dropLast", "markDead"}
        /\ \A u \in Thread : u # c => pc'[u] = pc[u]
    BY <1>3 DEF RefuseChannel, Reader, Receive, ReadError, Deliver, Abandon, Goto, IInv, TypeOK,
                Sockets
  <2>3. Doomers' <=> Doomers
    BY <2>2 DEF Doomers
  <2> QED BY <1>0, <2>1, <2>3, StageKept
<1>4. ASSUME NEW t \in Thread, RemoveGone(t) \/ Drop(t) PROVE UNCHANGED Life!vars
  <2>1. channels' = channels /\ UNCHANGED death
    BY <1>4 DEF RemoveGone, Drop, bond
  <2>2. pc[t] \in {"remove", "drop"} /\ Return(t)
    BY <1>4 DEF RemoveGone, Drop
  <2>3. /\ pc'[t] \in {"idle", "done", "pick", "close", "beating"}
        /\ \A u \in Thread : u # t => pc'[u] = pc[u]
    BY <2>2, ReturnStep DEF Dropping
  <2>4. Doomers' <=> Doomers
    BY <2>2, <2>3 DEF Doomers
  <2> QED BY <1>0, <2>1, <2>4, StageKept
<1>5. ASSUME NEW t \in Thread, AlreadyDead(t) PROVE UNCHANGED Life!vars
  <2>1. channels' = channels /\ emptied' = emptied /\ emptied = 1
    BY <1>5 DEF AlreadyDead, bond, death, IInv, Once
  <2> QED BY <1>0, <2>1, StageValues, StageValuesAfter
<1>6. ASSUME NEW t \in Thread, Remove(t) PROVE Life!Next
  <2>1. PICK c \in Chan : hand[t] = {c}
    BY <1>6 DEF Remove, IInv, Hands
  <2>2. c \in channels /\ channels' = channels \ {c} /\ UNCHANGED death
    BY <1>6, <2>1 DEF Remove
  <2>3. /\ pc[t] = "remove" /\ \A u \in Thread : u # t => pc'[u] = pc[u]
        /\ pc'[t] = IF channels' = {} THEN "dropLast" ELSE "drop"
    BY <1>6 DEF Remove, Empty, Goto, IInv, TypeOK
  <2>4. Stage' = IF channels' = {} THEN Life!Doomed ELSE Stage
    <3>1. CASE channels' # {}
      <4>1. Doomers' <=> Doomers
        BY <2>3, <3>1 DEF Doomers
      <4> QED BY <1>0, <2>2, <3>1, <4>1, StageKept
    <3>2. CASE channels' = {}
      <4>1. Doomers'
        BY <2>3, <3>2 DEF Doomers
      <4> QED BY <1>0, <2>2, <3>2, <4>1, DoomedNow
    <3> QED BY <3>1, <3>2
  <2> QED BY <2>2, <2>4 DEF Life!Next, Life!Leave
<1>7. ASSUME NEW t \in Thread, TakeAll(t) PROVE Life!Next
  <2>1. channels' = {} /\ UNCHANGED death
    BY <1>7 DEF TakeAll
  <2>2. Doomers'
    BY <1>7 DEF TakeAll, Goto, IInv, TypeOK, Doomers
  <2>3. Stage' = Life!Doomed
    BY <1>0, <2>1, <2>2, DoomedNow
  <2> QED BY <2>1, <2>3 DEF Life!Next, Life!CloseAll
<1>8. ASSUME NEW t \in Thread, DropLast(t) PROVE UNCHANGED Life!vars
  <2>1. channels' = channels /\ UNCHANGED death
    BY <1>8 DEF DropLast, bond
  <2>2. /\ pc[t] = "dropLast" /\ pc'[t] = "markDead"
    BY <1>8 DEF DropLast, Goto, IInv, TypeOK
  <2>3. Doomers /\ Doomers'
    BY <2>2 DEF Doomers
  <2> QED BY <1>0, <2>1, <2>3, StageKept
<1>9. ASSUME NEW t \in Thread, MarkClosed(t) PROVE Life!Next
  <2>1. channels' = channels /\ pc[t] = "markDead" /\ once = "new" /\ closed' = TRUE /\ dead' = dead
    BY <1>9 DEF MarkClosed, OnceNew, bond
  <2>2. Doomers /\ ~closed /\ ~dead
    BY <2>1 DEF Doomers, IInv, Once
  <2>3. closed'
    BY <2>1, Zenon
  <2>4. ~dead'
    BY <2>1, <2>2
  <2>5. Stage = "doomed" /\ Stage' = "closed"
    BY <1>0, <2>2, <2>3, <2>4, StageValues, StageValuesAfter
  <2> QED BY <2>1, <2>5 DEF Life!Next, Life!Refuse
<1>10. ASSUME NEW t \in Thread, CloseDead(t) PROVE Life!Next
  <2>1. channels' = channels /\ pc[t] = "closeDead" /\ dead' = TRUE /\ emptied' = emptied
    BY <1>10 DEF CloseDead, bond
  <2>2. closed /\ ~dead /\ emptied = 0
    BY <2>1 DEF IInv, Once
  <2>3. dead'
    BY <2>1, Zenon
  <2>4. Stage = "closed" /\ Stage' = "dead"
    BY <1>0, <2>1, <2>2, <2>3, StageValues, StageValuesAfter
  <2> QED BY <2>1, <2>4 DEF Life!Next, Life!Die
<1>11. ASSUME NEW t \in Thread, OnEmpty(t) PROVE Life!Next
  <2>1. channels' = channels /\ pc[t] = "onEmpty" /\ emptied' = emptied + 1
    BY <1>11 DEF OnEmpty, bond
  <2>2. dead /\ emptied = 0
    BY <2>1 DEF IInv, Once
  <2>3. Stage = "dead" /\ Stage' = "released"
    BY <1>0, <2>1, <2>2, StageValues, StageValuesAfter
  <2> QED BY <2>1, <2>3 DEF Life!Next, Life!Release
<1>12. ASSUME \/ Writer \in Caller /\ Writing
              \/ Beat \in Caller /\ Beating
              \/ Closer \in Caller /\ CallClose
       PROVE  UNCHANGED Life!vars
  <2>1. channels' = channels /\ UNCHANGED death
    BY <1>12 DEF Writing, StartWrite, Pick, Sent, SendError, Beating, StartBeat, BeatSent,
                 BeatError, BeatStop, CallClose, bond
  <2> DEFINE Aside(t) == /\ pc[t] \notin {"dropLast", "markDead"}
                         /\ pc'[t] \notin {"dropLast", "markDead"}
                         /\ \A u \in Thread : u # t => pc'[u] = pc[u]
  <2>2. CASE Writer \in Caller /\ Writing
    <3>1. Aside(Writer)
      BY <2>2 DEF Writing, StartWrite, Pick, Sent, SendError, Goto, IInv, TypeOK
    <3>2. Doomers' <=> Doomers
      BY <3>1 DEF Doomers
    <3> QED BY <1>0, <2>1, <3>2, StageKept
  <2>3. CASE Beat \in Caller /\ Beating
    <3>1. Aside(Beat)
      BY <2>3 DEF Beating, StartBeat, BeatSent, BeatError, BeatStop, Goto, IInv, TypeOK
    <3>2. Doomers' <=> Doomers
      BY <3>1 DEF Doomers
    <3> QED BY <1>0, <2>1, <3>2, StageKept
  <2>4. CASE Closer \in Caller /\ CallClose
    <3>1. Aside(Closer)
      BY <2>4 DEF CallClose, Goto, IInv, TypeOK
    <3>2. Doomers' <=> Doomers
      BY <3>1 DEF Doomers
    <3> QED BY <1>0, <2>1, <3>2, StageKept
  <2> QED BY <1>12, <2>2, <2>3, <2>4
<1>13. ASSUME Consume \/ Drained \/ Quit PROVE UNCHANGED Life!vars
  BY <1>13 DEF Consume, Drained, Quit, bond, death, Stage
<1> QED BY <1>1, <1>2, <1>3, <1>4, <1>5, <1>6, <1>7, <1>8, <1>9, <1>10, <1>11, <1>12, <1>13
        DEF Next, Ending

\* The tunnel is for its owner what TunnelLife says: emptied or closed it is
\* doomed, and closed, dead and released follow once each and in this order,
\* though channels may still join between doomed and closed.
THEOREM TunnelImplementsLife == Spec => LifeSpec
<1>1. Init => Life!Init
  <2> SUFFICES ASSUME Init PROVE Life!Init
    OBVIOUS
  <2>1. ~closed /\ ~Doomers /\ channels = {}
    BY Threads DEF Init, Doomers
  <2> QED BY <2>1, InitIInv, StageValues DEF Life!Init
<1>2. Spec => Life!Spec
  BY <1>1, StepSimulation, Invariance, PTL DEF Spec, Life!Spec
<1> QED BY <1>2 DEF LifeSpec

-----------------------------------------------------------------------------
(* When WritePacket gives up.                                              *)

\* A channel that has left the map never comes back to it, and its index is
\* not dialled again.
LEMMA GoneGrows ==
  ASSUME IInv, [Next]_vars
  PROVE  /\ Gone \subseteq Gone'
         /\ \A c \in Chan : conn[c] # "absent" => conn'[c] # "absent"
         /\ \A c \in channels' : c \in channels \/ conn[c] = "absent"
<1> DEFINE Goal == /\ \A c \in Chan : conn[c] # "absent" => conn'[c] # "absent"
                   /\ \A c \in channels' : c \in channels \/ conn[c] = "absent"
<1> USE Threads
<1>1. ASSUME NEW c \in Chan, AddChannel(c) \/ RefuseChannel(c) \/ Reader(c) PROVE Goal
  BY <1>1 DEF AddChannel, RefuseChannel, Reader, Receive, ReadError, Deliver, Abandon, bond,
              IInv, TypeOK
<1>2. ASSUME NEW t \in Thread, Ending(t) PROVE Goal
  <2>1. CASE Drop(t) \/ DropLast(t)
    BY <2>1 DEF Drop, DropLast, CloseConns, bond
  <2>2. CASE Remove(t) \/ TakeAll(t)
    BY <2>2 DEF Remove, TakeAll
  <2>3. CASE RemoveGone(t) \/ MarkClosed(t) \/ CloseDead(t) \/ OnEmpty(t) \/ AlreadyDead(t)
    BY <2>3 DEF RemoveGone, MarkClosed, CloseDead, OnEmpty, AlreadyDead, bond
  <2> QED BY <1>2, <2>1, <2>2, <2>3 DEF Ending
<1>3. ASSUME Writer \in Caller, Writing PROVE Goal
  BY <1>3 DEF Writing, StartWrite, Pick, Sent, SendError, SendOK, SendFail, bond, IInv, TypeOK
<1>4. ASSUME Beat \in Caller, Beating PROVE Goal
  <2>1. CASE BeatError
    <3>1. /\ Head(beats) \in Chan /\ channels' = channels
          /\ conn' = [conn EXCEPT ![Head(beats)] = IF @ = "closed" THEN @ ELSE "stuck"]
      BY <1>4, <2>1, BeatsHead DEF BeatError, SendFail, bond
    <3> QED BY <3>1 DEF IInv, TypeOK
  <2>2. CASE StartBeat \/ BeatSent \/ BeatStop
    BY <2>2 DEF StartBeat, BeatSent, BeatStop, SendOK, bond
  <2> QED BY <1>4, <2>1, <2>2 DEF Beating
<1>5. ASSUME CallClose \/ Consume \/ Drained \/ Quit \/ UNCHANGED vars PROVE Goal
  BY <1>5 DEF CallClose, Consume, Drained, Quit, vars, bond
<1>6. Goal
  BY <1>1, <1>2, <1>3, <1>4, <1>5 DEF Next
<1> QED BY <1>6 DEF Gone

LEMMA GoneCounts ==
  ASSUME IsFiniteSet(Chan)
  PROVE  /\ IsFiniteSet(Gone) /\ Cardinality(Gone) \in Nat
         /\ IsFiniteSet(Gone') /\ Cardinality(Gone') \in Nat
         /\ Gone \subseteq Gone' => Cardinality(Gone) <= Cardinality(Gone')
         /\ \A c : /\ Cardinality(Gone \ {c}) \in Nat /\ Cardinality(Gone' \ {c}) \in Nat
                   /\ Gone \subseteq Gone' => Cardinality(Gone \ {c}) <= Cardinality(Gone' \ {c})
         /\ \A c \in Gone : Cardinality(Gone \ {c}) + 1 = Cardinality(Gone)
         /\ Cardinality(Chan) <= Cardinality(Gone) => channels \cap Chan = {}
<1>1. Gone \subseteq Chan /\ Gone' \subseteq Chan
  BY DEF Gone
<1>2. IsFiniteSet(Gone) /\ IsFiniteSet(Gone')
  BY <1>1, FS_Subset
<1>3. Cardinality(Gone) \in Nat /\ Cardinality(Gone') \in Nat /\ Cardinality(Chan) \in Nat
  BY <1>2, FS_CardinalityType
<1>4. Gone \subseteq Gone' => Cardinality(Gone) <= Cardinality(Gone')
  BY <1>2, FS_Subset
<1>5. ASSUME NEW c
      PROVE  /\ Cardinality(Gone \ {c}) \in Nat /\ Cardinality(Gone' \ {c}) \in Nat
             /\ Gone \subseteq Gone' => Cardinality(Gone \ {c}) <= Cardinality(Gone' \ {c})
  <2>1. IsFiniteSet(Gone \ {c}) /\ IsFiniteSet(Gone' \ {c})
    BY <1>2, FS_Subset
  <2>2. Gone \subseteq Gone' => Gone \ {c} \subseteq Gone' \ {c}
    OBVIOUS
  <2> QED BY <2>1, <2>2, FS_CardinalityType, FS_Subset
<1>6. ASSUME NEW c \in Gone PROVE Cardinality(Gone \ {c}) + 1 = Cardinality(Gone)
  <2>1. Cardinality(Gone \ {c}) = Cardinality(Gone) - 1
    BY <1>2, FS_RemoveElement
  <2> QED BY <2>1, <1>3
<1>7. Cardinality(Chan) <= Cardinality(Gone) => Gone = Chan
  <2>1. /\ Cardinality(Gone) <= Cardinality(Chan)
        /\ Cardinality(Chan) = Cardinality(Gone) => Chan = Gone
    BY <1>1, FS_Subset
  <2> QED BY <1>3, <2>1
<1>8. Gone = Chan => channels \cap Chan = {}
  BY DEF Gone
<1> QED BY <1>2, <1>3, <1>4, <1>5, <1>6, <1>7, <1>8

\* Steps of the other goroutines do not disturb a write.
LEMMA TriedKept ==
  ASSUME IsFiniteSet(Chan), IInv, Tried, [Next]_vars,
         UNCHANGED <<tries, present>>,
         Writer \in Caller =>
           /\ pc'[Writer] = pc[Writer] /\ hand'[Writer] = hand[Writer]
           /\ Writer \in closing' <=> Writer \in closing
  PROVE  Tried'
<1> SUFFICES ASSUME Writer \in Caller PROVE Tried'
  BY DEF Tried
<1>1. /\ Gone \subseteq Gone' /\ \A c \in Chan : conn[c] # "absent" => conn'[c] # "absent"
      /\ \A c \in channels' : c \in channels \/ conn[c] = "absent"
  BY GoneGrows
<1>2. tries \in Nat /\ present \subseteq Chan
  BY DEF IInv, TypeOK
<1>3. pc'[Writer] = "pick" => tries' <= Cardinality(Gone')
  BY <1>1, <1>2, GoneCounts DEF Tried
<1>4. ASSUME Attempting'
      PROVE  \E c \in Chan : hand'[Writer] = {c} /\ tries' <= Cardinality(Gone' \ {c})
  <2>1. Attempting
    BY <1>4 DEF Attempting
  <2>2. PICK c \in Chan : hand[Writer] = {c} /\ tries <= Cardinality(Gone \ {c})
    BY <2>1 DEF Tried
  <2>3. /\ Cardinality(Gone \ {c}) \in Nat /\ Cardinality(Gone' \ {c}) \in Nat
        /\ Cardinality(Gone \ {c}) <= Cardinality(Gone' \ {c})
    BY <1>1, GoneCounts
  <2>4. tries <= Cardinality(Gone' \ {c})
    BY <1>2, <2>2, <2>3
  <2> QED BY <2>2, <2>4
<1>5. /\ \A c \in present' : conn'[c] # "absent"
      /\ channels \cap present = {} => channels' \cap present' = {}
  BY <1>1, <1>2 DEF Tried
<1>6. MaxTries <= Cardinality(Gone) => MaxTries <= Cardinality(Gone')
  <2>1. /\ Cardinality(Gone) \in Nat /\ Cardinality(Gone') \in Nat
        /\ Cardinality(Gone) <= Cardinality(Gone')
    BY <1>1, GoneCounts
  <2> QED BY <2>1, TunnelAssumption
<1> QED BY <1>3, <1>4, <1>5, <1>6 DEF Tried

\* Within an attempt, only the channels that are gone change.
LEMMA AttemptKept ==
  ASSUME IsFiniteSet(Chan), IInv, Tried, [Next]_vars, Writer \in Caller,
         UNCHANGED <<tries, present, closing>>, hand'[Writer] = hand[Writer],
         pc[Writer] \in {"sending", "remove"} \cup Dropping,
         pc'[Writer] \in {"sending", "remove"} \cup Dropping
  PROVE  Tried'
<1>1. /\ Gone \subseteq Gone' /\ \A c \in Chan : conn[c] # "absent" => conn'[c] # "absent"
  BY GoneGrows
<1>2. tries \in Nat /\ present \subseteq Chan
  BY DEF IInv, TypeOK
<1>3. ASSUME Attempting'
      PROVE  \E c \in Chan : hand'[Writer] = {c} /\ tries' <= Cardinality(Gone' \ {c})
  <2>1. Attempting
    BY <1>3 DEF Attempting
  <2>2. PICK c \in Chan : hand[Writer] = {c} /\ tries <= Cardinality(Gone \ {c})
    BY <2>1 DEF Tried
  <2>3. /\ Cardinality(Gone \ {c}) \in Nat /\ Cardinality(Gone' \ {c}) \in Nat
        /\ Cardinality(Gone \ {c}) <= Cardinality(Gone' \ {c})
    BY <1>1, GoneCounts
  <2>4. tries <= Cardinality(Gone' \ {c})
    BY <1>2, <2>2, <2>3
  <2> QED BY <2>2, <2>4
<1>4. pc'[Writer] \notin {"pick", "close"} /\ \A c \in present' : conn'[c] # "absent"
  BY <1>1, <1>2 DEF Tried, Dropping
<1> QED BY <1>3, <1>4 DEF Tried

\* A failed attempt leaves one more channel outside the map.
LEMMA TriedReturn ==
  ASSUME IsFiniteSet(Chan), IInv, Tried, [Next]_vars,
         Writer \in Caller, pc[Writer] \in {"remove"} \cup Dropping,
         hand[Writer] \cap channels = {}, channels' = channels, Return(Writer)
  PROVE  Tried'
<1> USE Threads, TunnelAssumption
<1>1. /\ Gone \subseteq Gone' /\ \A c \in Chan : conn[c] # "absent" => conn'[c] # "absent"
  BY GoneGrows
<1>2. pc'[Writer] = Resume(Writer) /\ closing \subseteq Caller
  BY DEF Return, Goto, IInv, TypeOK
<1>3. CASE Writer \in closing
  <2>1. pc'[Writer] = "idle" /\ present' = {}
    BY <1>2, <1>3 DEF Resume, Return, EndWrite
  <2> QED BY <2>1 DEF Tried, Attempting, Dropping
<1>4. CASE Writer \notin closing
  <2>1. /\ pc'[Writer] = IF tries + 1 < MaxTries THEN "pick" ELSE "close"
        /\ tries' = tries + 1 /\ present' = present
    BY <1>2, <1>4 DEF Resume, MoreTries, Return
  <2>2. PICK c \in Chan : hand[Writer] = {c} /\ tries <= Cardinality(Gone \ {c})
    BY <1>4 DEF Tried, Attempting
  <2>3. c \in Gone
    BY <2>2 DEF Gone, IInv, Hands
  <2>4. tries \in Nat /\ present \subseteq Chan /\ channels \subseteq Chan
    BY DEF IInv, TypeOK
  <2>5. tries' <= Cardinality(Gone)
    <3>1. Cardinality(Gone \ {c}) \in Nat /\ Cardinality(Gone \ {c}) + 1 = Cardinality(Gone)
      BY <2>3, GoneCounts
    <3> QED BY <3>1, <2>1, <2>2, <2>4
  <2>6. tries' <= Cardinality(Gone')
    BY <1>1, <2>1, <2>4, <2>5, GoneCounts
  <2>7. pc'[Writer] = "close" => MaxTries <= Cardinality(Gone')
    <3>1. Cardinality(Gone') \in Nat
      BY GoneCounts
    <3> QED BY <2>1, <2>4, <2>6, <3>1
  <2>8. (\A d \in present' : conn'[d] # "absent") /\ ~Attempting'
    BY <1>1, <2>1, <2>4 DEF Tried, Attempting, Dropping
  <2> QED BY <2>1, <2>6, <2>7, <2>8 DEF Tried
<1> QED BY <1>3, <1>4

\* WritePacket's attempts are counted by the channels that are gone.
LEMMA TriedStep ==
  ASSUME IsFiniteSet(Chan), IInv, Tried, [Next]_vars
  PROVE  Tried'
<1> USE Threads, TunnelAssumption
<1>0. CASE Writer \notin Caller
  BY <1>0 DEF Tried
<1> SUFFICES ASSUME Writer \in Caller PROVE Tried'
  BY <1>0
<1>a. /\ Gone \subseteq Gone' /\ \A c \in Chan : conn[c] # "absent" => conn'[c] # "absent"
      /\ \A c \in channels' : c \in channels \/ conn[c] = "absent"
  BY GoneGrows
<1>b. tries \in Nat /\ present \subseteq Chan /\ channels \subseteq Chan /\ pc \in [Thread -> Labels]
      /\ hand \in [Thread -> SUBSET Chan]
  BY DEF IInv, TypeOK
<1>1. ASSUME NEW c \in Chan, AddChannel(c) \/ RefuseChannel(c) \/ Reader(c) PROVE Tried'
  <2>1. /\ UNCHANGED <<tries, present>> /\ pc'[Writer] = pc[Writer]
        /\ hand'[Writer] = hand[Writer] /\ closing' = closing
    BY <1>b, <1>1 DEF AddChannel, RefuseChannel, Reader, Receive, ReadError, Deliver, Abandon, Goto,
                locals, write
  <2> QED BY <2>1, TriedKept
<1>2. ASSUME NEW t \in Thread, Ending(t), t # Writer PROVE Tried'
  <2>1. /\ UNCHANGED <<tries, present>> /\ pc'[Writer] = pc[Writer]
        /\ hand'[Writer] = hand[Writer]
        /\ Writer \in closing' <=> Writer \in closing
    BY <1>b, <1>2 DEF Ending, RemoveGone, Remove, TakeAll, Drop, DropLast, MarkClosed, CloseDead,
                      OnEmpty, AlreadyDead, Return, Goto, locals, write
  <2> QED BY <2>1, TriedKept
<1>3. ASSUME RemoveGone(Writer) \/ Drop(Writer) \/ OnEmpty(Writer) \/ AlreadyDead(Writer)
      PROVE  Tried'
  <2>1. pc[Writer] \in {"remove"} \cup Dropping /\ Return(Writer) /\ channels' = channels
    BY <1>3 DEF RemoveGone, Drop, OnEmpty, AlreadyDead, Dropping, bond
  <2>2. hand[Writer] \cap channels = {}
    BY <1>3 DEF RemoveGone, Drop, OnEmpty, AlreadyDead, Dropping, IInv, Hands
  <2> QED BY <2>1, <2>2, TriedReturn
<1>4. ASSUME Remove(Writer) \/ DropLast(Writer) \/ MarkClosed(Writer) \/ CloseDead(Writer)
      PROVE  Tried'
  <2>1. /\ UNCHANGED <<tries, present>> /\ pc[Writer] \in {"remove"} \cup Dropping
        /\ pc'[Writer] \in Dropping /\ hand' = hand /\ closing' = closing
    BY <1>b, <1>4 DEF Remove, DropLast, MarkClosed, CloseDead, Goto, Dropping, locals, write
  <2> QED BY <2>1, AttemptKept
<1>5. ASSUME TakeAll(Writer) PROVE Tried'
  <2>1. pc'[Writer] = "dropLast" /\ Writer \in closing' /\ present' = present
    BY <1>b, <1>5 DEF TakeAll, Goto, write
  <2> QED BY <1>a, <1>b, <2>1 DEF Tried, Attempting
<1>6. ASSUME StartWrite PROVE Tried'
  <2>1. pc'[Writer] = "pick" /\ tries' = 0 /\ present' = channels /\ conn' = conn
    BY <1>b, <1>6 DEF StartWrite, Goto
  <2> QED BY <2>1, GoneCounts DEF Tried, Attempting, Dropping, IInv, Sockets
<1>7. ASSUME Pick PROVE Tried'
  <2>1. /\ UNCHANGED <<tries, present, channels, conn, closing>> /\ pc[Writer] = "pick"
        /\ tries <= Cardinality(Gone)
    BY <1>7 DEF Pick, write, bond, Tried
  <2>2. CASE order = <<>>
    <3>1. pc'[Writer] = "close" /\ channels = {}
      BY <1>b, <1>7, <2>2 DEF Pick, Goto, IInv, Listed
    <3> QED BY <2>1, <3>1 DEF Tried, Attempting, Dropping
  <2>3. CASE order # <<>>
    <3>1. pc'[Writer] = "sending" /\ hand'[Writer] = {Picked} /\ Picked \in channels
      BY <1>b, <1>7, <2>3, PickedAttached DEF Pick, Goto
    <3>2. Gone' = Gone /\ Gone' \ {Picked} = Gone
      BY <2>1, <3>1 DEF Gone
    <3> QED BY <1>b, <2>1, <3>1, <3>2 DEF Tried
  <2> QED BY <2>2, <2>3
<1>8. ASSUME NEW c \in Chan, Sent(c) PROVE Tried'
  <2>1. pc'[Writer] = "idle" /\ present' = {}
    BY <1>b, <1>8 DEF Sent, Goto, EndWrite
  <2> QED BY <2>1 DEF Tried, Attempting, Dropping
<1>9. ASSUME NEW c \in Chan, SendError(c) PROVE Tried'
  <2>1. /\ UNCHANGED <<tries, present>> /\ pc[Writer] = "sending"
        /\ pc'[Writer] = "remove" /\ hand' = hand /\ closing' = closing
    BY <1>b, <1>9 DEF SendError, Goto, locals, write
  <2> QED BY <2>1, AttemptKept
<1>10. ASSUME Beat \in Caller, Beating PROVE Tried'
  <2>1. /\ UNCHANGED <<tries, present>> /\ pc'[Writer] = pc[Writer]
        /\ hand'[Writer] = hand[Writer] /\ closing' = closing
    BY <1>b, <1>10 DEF Beating, StartBeat, BeatSent, BeatError, BeatStop, Goto, locals, write
  <2> QED BY <2>1, TriedKept
<1>11. ASSUME \/ Closer \in Caller /\ CallClose
              \/ Consume \/ Drained \/ Quit \/ UNCHANGED vars
       PROVE Tried'
  <2>1. /\ UNCHANGED <<tries, present>> /\ pc'[Writer] = pc[Writer]
        /\ hand'[Writer] = hand[Writer] /\ closing' = closing
    BY <1>b, <1>11 DEF CallClose, Consume, Drained, Quit, Goto, vars, locals, write
  <2> QED BY <2>1, TriedKept
<1> QED
  BY <1>1, <1>2, <1>3, <1>4, <1>5, <1>6, <1>7, <1>8, <1>9, <1>10, <1>11 DEF Next, Ending, Writing

\* A failed attempt of WritePacket is a channel lost for good, for any number of
\* channels, also when there are more of them than attempts (16 and 4 in the
\* code).
THEOREM TriesAreSpent ==
  ASSUME IsFiniteSet(Chan)
  PROVE  Spec => []GivesUpAfterTries
<1>1. Init => Tried
  BY Threads DEF Init, Tried, Attempting, Dropping
<1>2. IInv /\ Tried /\ [Next]_vars => Tried'
  BY TriedStep
<1>3. Tried => GivesUpAfterTries
  <2>1. Cardinality(Gone) \in Nat /\ MaxTries \in Nat
    BY GoneCounts, TunnelAssumption
  <2> QED BY <2>1 DEF Tried, GivesUpAfterTries
<1> QED BY <1>1, <1>2, <1>3, Invariance, PTL DEF Spec

\* WritePacket gives up, and its caller closes the tunnel, only when none of
\* the channels the write started with is left, as long as the session has no
\* more channels than WritePacket has attempts.
THEOREM GivesUpLast ==
  ASSUME IsFiniteSet(Chan), Cardinality(Chan) <= MaxTries
  PROVE  Spec => []GivesUpOnlyWhenAllBroken
<1>1. IInv /\ GivesUpAfterTries => GivesUpOnlyWhenAllBroken
  <2> SUFFICES ASSUME IInv, GivesUpAfterTries, Writer \in Caller, pc[Writer] = "close",
                      Cardinality(Gone) >= MaxTries
               PROVE  channels \cap present = {}
    BY DEF GivesUpAfterTries, GivesUpOnlyWhenAllBroken
  <2>1. Cardinality(Chan) \in Nat /\ Cardinality(Gone) \in Nat /\ MaxTries \in Nat
    BY GoneCounts, FS_CardinalityType, TunnelAssumption
  <2>2. Cardinality(Chan) <= Cardinality(Gone)
    BY <2>1
  <2>3. channels \subseteq Chan
    BY DEF IInv, TypeOK
  <2> QED BY <2>2, <2>3, GoneCounts
<1> QED BY <1>1, TriesAreSpent, Invariance, PTL

-----------------------------------------------------------------------------
(* An emptied tunnel is on its way to onEmpty.                             *)

Runner == once = "running" => \E t \in Thread : pc[t] \in {"closeDead", "onEmpty"}

EmptyIsDoomed == channels = {} /\ Stage = "open" => \A c \in Chan : conn[c] = "absent"

\* The goroutine inside deadOnce stays there until it is done.
LEMMA InsideOnce ==
  ASSUME IInv, [Next]_vars, NEW u \in Thread, pc[u] \in {"closeDead", "onEmpty"}
  PROVE  pc'[u] \in {"closeDead", "onEmpty"} \/ once' = "done"
<1> USE Threads
<1>0. pc \in [Thread -> Labels]
  BY DEF IInv, TypeOK
<1>1. ASSUME NEW c \in Chan, AddChannel(c) \/ RefuseChannel(c) \/ Reader(c) PROVE pc'[u] = pc[u]
  <2>1. pc[c] \in {"none", "reading", "holding"} /\ \E l : pc' = [pc EXCEPT ![c] = l]
    BY <1>1 DEF AddChannel, RefuseChannel, Reader, Receive, ReadError, Deliver, Abandon, Goto,
                IInv, Sockets
  <2> QED BY <1>0, <2>1
<1>2. ASSUME NEW t \in Thread, Ending(t), t # u PROVE pc'[u] = pc[u]
  <2>1. \E l : pc' = [pc EXCEPT ![t] = l]
    BY <1>2 DEF Ending, RemoveGone, Remove, TakeAll, Drop, DropLast, MarkClosed, CloseDead, OnEmpty,
                AlreadyDead, Return, Goto
  <2> QED BY <1>0, <1>2, <2>1
<1>3. ASSUME Ending(u) PROVE pc'[u] = "onEmpty" \/ once' = "done"
  <2>1. CloseDead(u) \/ OnEmpty(u)
    BY <1>3 DEF Ending, RemoveGone, Remove, TakeAll, Drop, DropLast, MarkClosed, AlreadyDead
  <2> QED BY <1>0, <2>1 DEF CloseDead, OnEmpty, Goto
<1>4. ASSUME Writer \in Caller, Writing PROVE pc'[u] = pc[u]
  BY <1>0, <1>4 DEF Writing, StartWrite, Pick, Sent, SendError, Goto
<1>5. ASSUME Beat \in Caller, Beating PROVE pc'[u] = pc[u]
  BY <1>0, <1>5 DEF Beating, StartBeat, BeatSent, BeatError, BeatStop, Goto
<1>6. ASSUME \/ Closer \in Caller /\ CallClose
             \/ Consume \/ Drained \/ Quit \/ UNCHANGED vars
      PROVE  pc'[u] = pc[u]
  BY <1>0, <1>6 DEF CallClose, Consume, Drained, Quit, Goto, vars
<1> QED BY <1>1, <1>2, <1>3, <1>4, <1>5, <1>6 DEF Next

LEMMA RunnerStep ==
  ASSUME IInv, Runner, [Next]_vars
  PROVE  Runner'
<1>1. ASSUME NEW t \in Thread, MarkClosed(t) PROVE Runner'
  BY <1>1 DEF MarkClosed, Goto, IInv, TypeOK, Runner
<1>2. ASSUME \A t \in Thread : ~MarkClosed(t), once' = "running" PROVE once = "running"
  <2>1. ASSUME NEW t \in Thread, Ending(t) PROVE once' = once \/ once' = "done"
    BY <1>2, <2>1 DEF Ending, RemoveGone, Remove, TakeAll, Drop, DropLast, CloseDead, OnEmpty,
                      AlreadyDead, death
  <2>2. ASSUME ~\E t \in Thread : Ending(t) PROVE once' = once
    BY <2>2 DEF Next, AddChannel, RefuseChannel, Reader, Receive, ReadError, Deliver, Abandon,
       Writing, StartWrite, Pick, Sent, SendError, Beating, StartBeat, BeatSent, BeatError, BeatStop,
       CallClose, Consume, Drained, Quit, vars, death
  <2> QED BY <1>2, <2>1, <2>2
<1>3. ASSUME \A t \in Thread : ~MarkClosed(t) PROVE Runner'
  BY <1>2, <1>3, InsideOnce DEF Runner
<1> QED BY <1>1, <1>3

\* A socket appears only in addChannel.
LEMMA OnlyDialled ==
  ASSUME IInv, [Next]_vars, NEW c \in Chan, conn[c] = "absent", conn'[c] # "absent"
  PROVE  AddChannel(c) \/ RefuseChannel(c)
<1> USE Threads
<1>0. conn \in [Chan -> {"absent", "open", "stuck", "closed"}] /\ hand \in [Thread -> SUBSET Chan]
  BY DEF IInv, TypeOK
<1>1. ASSUME NEW d \in Chan, AddChannel(d) \/ RefuseChannel(d) PROVE d = c
  BY <1>0, <1>1 DEF AddChannel, RefuseChannel
<1>2. ASSUME NEW d \in Chan, Reader(d) PROVE FALSE
  BY <1>2 DEF Reader, Receive, ReadError, Deliver, Abandon
<1>3. ASSUME NEW t \in Thread, Ending(t) PROVE FALSE
  <2>1. CASE Drop(t) \/ DropLast(t)
    <3>1. c \notin hand[t]
      BY DEF IInv, Hands
    <3> QED BY <2>1, <3>1 DEF Drop, DropLast, CloseConns
  <2>2. CASE ~(Drop(t) \/ DropLast(t))
    BY <1>3, <2>2 DEF Ending, RemoveGone, Remove, TakeAll, MarkClosed, CloseDead, OnEmpty,
                      AlreadyDead
  <2> QED BY <2>1, <2>2
<1>4. ASSUME Writer \in Caller, Writing PROVE FALSE
  <2>1. ASSUME NEW d \in Chan, SendError(d) PROVE FALSE
    <3>1. d # c
      BY <1>4, <2>1 DEF SendError, IInv, Hands
    <3> QED BY <1>0, <2>1, <3>1 DEF SendError, SendFail
  <2> QED BY <1>4, <2>1 DEF Writing, StartWrite, Pick, Sent, SendOK
<1>5. ASSUME Beat \in Caller, Beating PROVE FALSE
  <2>1. CASE BeatError
    <3>1. Head(beats) \in Chan /\ Head(beats) # c
      BY <1>5, <2>1, BeatsHead DEF BeatError
    <3> QED BY <1>0, <2>1, <3>1 DEF BeatError, SendFail
  <2>2. CASE ~BeatError
    BY <1>5, <2>2 DEF Beating, StartBeat, BeatSent, BeatStop, SendOK
  <2> QED BY <2>1, <2>2
<1>6. ASSUME CallClose \/ Consume \/ Drained \/ Quit \/ UNCHANGED vars PROVE FALSE
  BY <1>6 DEF CallClose, Consume, Drained, Quit, vars
<1> QED BY <1>1, <1>2, <1>3, <1>4, <1>5, <1>6 DEF Next

LEMMA EmptyIsDoomedStep ==
  ASSUME IInv, EmptyIsDoomed, [Next]_vars
  PROVE  EmptyIsDoomed'
<1> SUFFICES ASSUME channels' = {}, Stage' = "open", NEW c \in Chan, conn'[c] # "absent"
             PROVE  FALSE
  BY DEF EmptyIsDoomed
<1>1. [Life!Next]_(Life!vars)
  BY StepSimulation
<1>2. channels = {} /\ Stage = "open"
  BY <1>1 DEF Life!Next, Life!vars, Life!Join, Life!Leave, Life!CloseAll, Life!Refuse, Life!Die,
              Life!Release, Life!Doomed
<1>3. conn[c] = "absent"
  BY <1>2 DEF EmptyIsDoomed
<1>4. AddChannel(c) \/ RefuseChannel(c)
  BY <1>3, OnlyDialled
<1>5. ~closed
  BY <1>2, StageValues DEF IInv, Once
<1> QED BY <1>4, <1>5 DEF AddChannel, RefuseChannel

\* The owner of a tunnel that has lost its last channel is going to be told:
\* as long as onEmpty has not run, some goroutine is past its unlock and not
\* held up by deadOnce, whoever attaches a channel, closes or waits meanwhile.
LossIsPursued ==
  channels = {} /\ (\E c \in Chan : conn[c] # "absent") /\ emptied = 0 =>
    \E t \in Thread : \/ pc[t] \in {"dropLast", "closeDead", "onEmpty"}
                      \/ pc[t] = "markDead" /\ once = "new"

\* The safety half of LossIsFinal: what remains is that the goroutine runs.
THEOREM LossAlwaysPursued == Spec => []LossIsPursued
<1>1. Init => Runner /\ EmptyIsDoomed
  BY DEF Init, Runner, EmptyIsDoomed
<1>2. IInv /\ Runner /\ EmptyIsDoomed /\ [Next]_vars => (Runner /\ EmptyIsDoomed)'
  BY RunnerStep, EmptyIsDoomedStep
<1>3. IInv /\ Runner /\ EmptyIsDoomed => LossIsPursued
  <2> SUFFICES ASSUME IInv, Runner, EmptyIsDoomed, channels = {},
                      \E c \in Chan : conn[c] # "absent", emptied = 0
               PROVE  \E t \in Thread : \/ pc[t] \in {"dropLast", "closeDead", "onEmpty"}
                                        \/ pc[t] = "markDead" /\ once = "new"
    BY DEF LossIsPursued
  <2>1. CASE closed
    <3>1. once = "running"
      BY <2>1 DEF IInv, TypeOK, Once
    <3> QED BY <3>1 DEF Runner
  <2>2. CASE ~closed
    <3>1. once = "new"
      BY <2>2 DEF IInv, Once
    <3>2. Doomers
      BY <2>2, StageValues DEF EmptyIsDoomed
    <3> QED BY <3>1, <3>2 DEF Doomers
  <2> QED BY <2>1, <2>2
<1> QED BY <1>1, <1>2, <1>3, Invariance, PTL DEF Spec
=============================================================================
