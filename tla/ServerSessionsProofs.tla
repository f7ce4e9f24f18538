------------------------ MODULE ServerSessionsProofs ------------------------
(***************************************************************************)
(* Proofs about ServerSessions, for any number of clients, channels and    *)
(* sessions and any subnet.                                                *)
(*                                                                         *)
(* The three tables are consistent only relative to where each session     *)
(* stands in its life: MapExact and AddressExclusive say so, and Fresh     *)
(* adds what is known of session objects that are not in use yet.          *)
(***************************************************************************)
EXTENDS ServerSessions, SequenceTheorems, TLAPS

\* A session in use has its sid and address, its handleConn has been
\* started, and every request under way knows its session.
Fresh ==
  /\ \A s \in Session : life[s] = "unused" <=> conn[s] = "none"
  /\ \A s \in Session : life[s] # "unused" => sid[s] \in Sid /\ addr[s] \in Addr
  /\ \A r \in Request : pc[r] \in {"upgrading", "attached"} =>
       sess[r] \in Session /\ life[sess[r]] # "unused"
  /\ target # None => life[target] # "unused"

IInv == TypeOK /\ Fresh /\ MapExact /\ AddressExclusive /\ RouteHasHandler

LEMMA PoolStartsSound ==
  /\ FreshPool \in Seq(Addr \ {Gateway})
  /\ \A i, j \in 1 .. Len(FreshPool) : FreshPool[i] = FreshPool[j] => i = j
<1>1. CASE Gateway \in Addr
  <2> DEFINE f == [i \in 1 .. Size - 3 |-> IF i < Gateway THEN i ELSE i + 1]
  <2>1. f \in [1 .. Size - 3 -> Addr \ {Gateway}]
    BY <1>1, SessionsAssumption DEF Addr
  <2>2. f \in Seq(Addr \ {Gateway}) /\ Len(f) = Size - 3
    BY <2>1, SessionsAssumption
  <2>3. \A i, j \in 1 .. Size - 3 : f[i] = f[j] => i = j
    BY <1>1, SessionsAssumption DEF Addr
  <2>4. FreshPool = f
    BY <1>1 DEF FreshPool
  <2> QED BY <2>2, <2>3, <2>4
<1>2. CASE Gateway \notin Addr
  <2> DEFINE f == [i \in 1 .. Size - 2 |-> i]
  <2>1. f \in [1 .. Size - 2 -> Addr \ {Gateway}]
    BY <1>2, SessionsAssumption DEF Addr
  <2>2. f \in Seq(Addr \ {Gateway}) /\ Len(f) = Size - 2
    BY <2>1, SessionsAssumption
  <2>3. \A i, j \in 1 .. Size - 2 : f[i] = f[j] => i = j
    BY SessionsAssumption
  <2>4. FreshPool = f
    BY <1>2 DEF FreshPool, Addr
  <2> QED BY <2>2, <2>3, <2>4
<1> QED BY <1>1, <1>2

LEMMA InitIInv == Init => IInv
<1> SUFFICES ASSUME Init PROVE IInv
  OBVIOUS
<1> USE SessionsAssumption DEF Init
<1>1. TypeOK
  BY PoolStartsSound DEF TypeOK, Lives
<1>2. Fresh /\ RouteHasHandler
  BY DEF Fresh, RouteHasHandler
<1>3. MapExact
  BY DEF MapExact, Holding, Lives
<1>4. AddressExclusive
  BY PoolStartsSound DEF AddressExclusive, Holding, Lives
<1> QED BY <1>1, <1>2, <1>3, <1>4 DEF IInv

-----------------------------------------------------------------------------
\* Session s moves along its life without crossing alloc, unmap or release.
Live == {"open", "doomed", "closed", "dead"}

SameStanding ==
  \A s \in Session : life'[s] = life[s] \/ (life[s] \in Live /\ life'[s] \in Live)

\* Such a step leaves the tables of addresses and sids consistent.
LEMMA StandingKeepsTables ==
  ASSUME IInv, SameStanding, UNCHANGED <<mapped, pool, objs>>
  PROVE  MapExact' /\ AddressExclusive'
<1>1. /\ mapped' = mapped /\ free' = free /\ used' = used
      /\ sid' = sid /\ addr' = addr
  BY DEF pool, objs
<1>2. \A s \in Session :
        /\ Holding(s)' <=> Holding(s)
        /\ life'[s] = "unmapped" <=> life[s] = "unmapped"
  BY DEF SameStanding, Live, Holding, Lives
<1>3. MapExact'
  BY <1>1, <1>2 DEF IInv, MapExact
<1>4. AddressExclusive'
  BY <1>1, <1>2 DEF IInv, AddressExclusive
<1> QED BY <1>3, <1>4

\* Losing channels, by removeChannel or Close.
LEMMA LoseStep ==
  ASSUME IInv, NEW s \in Session, life[s] # "unused",
         NEW gone \in SUBSET Request, Lose(s, gone)
  PROVE  /\ SameStanding
         /\ life' \in [Session -> Lives]
         /\ pc' \in [Request -> {"new", "upgrading", "attached", "left", "refused"}]
         /\ \A t \in Session : life'[t] = "unused" <=> life[t] = "unused"
         /\ \A r \in Request : pc'[r] \in {"upgrading", "attached"} => pc'[r] = pc[r]
  BY DEF Lose, Doomed, SameStanding, Live, Lives, IInv, TypeOK

\* A request carries a sid.
LEMMA RequestSid == \A r \in Request : r[1] \in Sid
  BY SessionsAssumption

\* The handler's steps that touch no table, and dispatch.
LEMMA QuietRequests ==
  ASSUME IInv,
         \/ \E r \in Request :
              Join(r) \/ Exhausted(r) \/ UpgradeFails(r) \/ Upgraded(r)
         \/ \E a \in Addr : Lookup(a)
         \/ Written
  PROVE  IInv'
<1> USE SessionsAssumption
<1>1. /\ life' = life /\ conn' = conn /\ routes' = routes
      /\ UNCHANGED <<mapped, pool, objs>>
  BY DEF Join, Exhausted, UpgradeFails, Upgraded, Lookup, Written
<1>2. SameStanding
  BY <1>1 DEF SameStanding
<1>3. MapExact' /\ AddressExclusive'
  BY <1>1, <1>2, StandingKeepsTables
<1>4. RouteHasHandler'
  BY <1>1 DEF IInv, RouteHasHandler, objs
<1>5. TypeOK' /\ Fresh'
  <2>1. ASSUME NEW r \in Request,
               Exhausted(r) \/ UpgradeFails(r) \/ Upgraded(r)
        PROVE  TypeOK' /\ Fresh'
    BY <2>1 DEF Exhausted, UpgradeFails, Upgraded, IInv, TypeOK, Fresh, pool, objs
  <2>2. ASSUME NEW r \in Request, Join(r)
        PROVE  TypeOK' /\ Fresh'
    <3>1. r[1] \in Sid
      BY RequestSid
    <3>2. mapped[r[1]] \in Session /\ life[mapped[r[1]]] # "unused"
      BY <2>2, <3>1 DEF Join, IInv, TypeOK, MapExact, Holding, Lives
    <3> QED BY <2>2, <3>1, <3>2 DEF Join, IInv, TypeOK, Fresh, pool, objs
  <2>3. ASSUME NEW a \in Addr, Lookup(a)
        PROVE  TypeOK' /\ Fresh'
    <3>1. routes[a] \in Session /\ conn[routes[a]] # "none"
      BY <2>3 DEF Lookup, IInv, TypeOK, RouteHasHandler
    <3> QED BY <2>3, <3>1 DEF Lookup, IInv, TypeOK, Fresh, pool, objs
  <2>4. CASE Written
    BY <2>4 DEF Written, IInv, TypeOK, Fresh, pool, objs
  <2> QED BY <2>1, <2>2, <2>3, <2>4
<1> QED BY <1>3, <1>4, <1>5 DEF IInv

LEMMA BreakStep ==
  ASSUME IInv, (\E r \in Request : Break(r)) \/ WriteFails
  PROVE  IInv'
<1> USE SessionsAssumption
<1>1. PICK s \in Session, gone \in SUBSET Request :
        /\ life[s] # "unused" /\ Lose(s, gone)
        /\ UNCHANGED <<mapped, pool, routes, objs, conn, sess>>
        /\ target' = target \/ target' = None
  <2>1. ASSUME NEW r \in Request, Break(r)
        PROVE  /\ sess[r] \in Session /\ life[sess[r]] # "unused"
               /\ Lose(sess[r], {r}) /\ {r} \in SUBSET Request
               /\ UNCHANGED <<mapped, pool, routes, objs, conn, sess>>
               /\ target' = target
    BY <2>1 DEF Break, IInv, Fresh
  <2>2. CASE WriteFails
    <3>1. /\ target \in Session /\ life[target] # "unused"
          /\ Attached(target) \in SUBSET Request
      BY <2>2 DEF WriteFails, IInv, Fresh, TypeOK, Attached
    <3> QED BY <2>2, <3>1 DEF WriteFails
  <2> QED BY <2>1, <2>2
<1>2. /\ SameStanding
      /\ life' \in [Session -> Lives]
      /\ pc' \in [Request -> {"new", "upgrading", "attached", "left", "refused"}]
      /\ \A t \in Session : life'[t] = "unused" <=> life[t] = "unused"
      /\ \A r \in Request : pc'[r] \in {"upgrading", "attached"} => pc'[r] = pc[r]
  BY <1>1, LoseStep
<1>3. MapExact' /\ AddressExclusive'
  BY <1>1, <1>2, StandingKeepsTables
<1>4. TypeOK'
  BY <1>1, <1>2 DEF IInv, TypeOK, pool, objs
<1>5. Fresh'
  BY <1>1, <1>2 DEF IInv, Fresh, TypeOK, pool, objs
<1>6. RouteHasHandler'
  BY <1>1 DEF IInv, RouteHasHandler, objs
<1> QED BY <1>3, <1>4, <1>5, <1>6 DEF IInv

\* markDead up to onEmpty, and the ticker that closes an unused tunnel.
LEMMA DyingStep ==
  ASSUME IInv, NEW s \in Session, MarkClosed(s) \/ CloseDead(s) \/ Keepalive(s)
  PROVE  IInv'
<1>1. /\ life[s] \in Live
      /\ \E l \in Live : life' = [life EXCEPT ![s] = l]
      /\ UNCHANGED <<mapped, pool, routes, objs, conn, pc, sess, target>>
  BY DEF MarkClosed, CloseDead, Keepalive, Advance, Doomed, Live
<1>2. SameStanding
  BY <1>1 DEF SameStanding, IInv, TypeOK
<1>3. MapExact' /\ AddressExclusive'
  BY <1>1, <1>2, StandingKeepsTables
<1>4. TypeOK'
  BY <1>1 DEF IInv, TypeOK, Live, Lives, pool, objs
<1>5. Fresh'
  BY <1>1 DEF IInv, Fresh, TypeOK, Live, objs
<1>6. RouteHasHandler'
  BY <1>1 DEF IInv, RouteHasHandler, objs
<1> QED BY <1>3, <1>4, <1>5, <1>6 DEF IInv

\* handleConn: only the routes and its own program counter move.
LEMMA HandlingStep ==
  ASSUME IInv, NEW s \in Session,
         Register(s) \/ ReadFails(s) \/ DevFails(s) \/ Unregister(s)
  PROVE  IInv'
<1> USE SessionsAssumption
<1>1. /\ life' = life /\ UNCHANGED <<mapped, pool, objs, pc, sess, target>>
      /\ conn[s] # "none" /\ conn[s] # "done"
      /\ \E k \in {"running", "exiting", "done"} : conn' = [conn EXCEPT ![s] = k]
  BY DEF Register, ReadFails, DevFails, Unregister
<1>2. SameStanding
  BY <1>1 DEF SameStanding
<1>3. MapExact' /\ AddressExclusive'
  BY <1>1, <1>2, StandingKeepsTables
<1>4. addr[s] \in Addr
  BY <1>1 DEF IInv, Fresh
<1>5. TypeOK'
  <2>1. routes' \in [Addr -> Session \cup {None}]
    BY <1>4 DEF Register, ReadFails, DevFails, Unregister, IInv, TypeOK
  <2> QED BY <1>1, <2>1 DEF IInv, TypeOK, pool, objs
<1>6. Fresh'
  BY <1>1 DEF IInv, Fresh, TypeOK, objs
<1>7. RouteHasHandler'
  <2>1. CASE Register(s)
    BY <2>1, <1>4 DEF Register, IInv, TypeOK, RouteHasHandler, objs
  <2>2. CASE ReadFails(s) \/ DevFails(s)
    BY <2>2 DEF ReadFails, DevFails, IInv, TypeOK, RouteHasHandler, objs
  <2>3. CASE Unregister(s)
    BY <2>3, <1>4 DEF Unregister, IInv, TypeOK, RouteHasHandler, objs
  <2> QED BY <2>1, <2>2, <2>3
<1> QED BY <1>3, <1>5, <1>6, <1>7 DEF IInv

-----------------------------------------------------------------------------
\* ServeHTTP creates a session.
LEMMA CreateStep ==
  ASSUME IInv, NEW r \in Request, NEW s \in Session, Create(r, s)
  PROVE  IInv'
<1> DEFINE d == r[1]
           n == Len(free)
           a == free[n]
<1> USE SessionsAssumption
<1>1. TypeOK /\ Fresh /\ MapExact /\ AddressExclusive /\ RouteHasHandler
  BY DEF IInv
<1>2. /\ d \in Sid /\ mapped[d] = None /\ life[s] = "unused"
      /\ conn[s] = "none"
  BY <1>1, RequestSid DEF Create, Fresh
<1>3. /\ n \in Nat /\ n >= 1 /\ a \in Addr \ {Gateway}
      /\ free \in Seq(Addr \ {Gateway})
  BY <1>1 DEF Create, Alloc, TypeOK
<1>4. /\ mapped' = [mapped EXCEPT ![d] = s] /\ sid' = [sid EXCEPT ![s] = d]
      /\ life' = [life EXCEPT ![s] = "open"]
      /\ conn' = [conn EXCEPT ![s] = "starting"]
      /\ pc' = [pc EXCEPT ![r] = "upgrading"] /\ sess' = [sess EXCEPT ![r] = s]
      /\ addr' = [addr EXCEPT ![s] = a]
      /\ routes' = routes /\ target' = target
      /\ used' = used \cup {a} /\ free' = SubSeq(free, 1, n - 1)
  BY DEF Create, Alloc, AllocRest
<1>5. /\ free' \in Seq(Addr \ {Gateway}) /\ Len(free') = n - 1
      /\ \A i \in 1 .. n - 1 : free'[i] = free[i]
  <2> DEFINE S == Addr \ {Gateway}
  <2> HIDE DEF S, n
  <2>1. /\ free \in Seq(S) /\ n \in Nat /\ n >= 1 /\ n = Len(free)
        /\ free' = SubSeq(free, 1, n - 1)
    BY <1>3, <1>4 DEF S, n
  <2>2. n - 1 \in Int /\ \A i \in 1 .. n - 1 : free[i] \in S
    BY <2>1
  <2>3. /\ SubSeq(free, 1, n - 1) \in Seq(S)
        /\ Len(SubSeq(free, 1, n - 1)) = IF 1 <= n - 1 THEN n - 1 - 1 + 1 ELSE 0
        /\ \A i \in 1 .. n - 1 - 1 + 1 : SubSeq(free, 1, n - 1)[i] = free[1 + i - 1]
    BY <2>1, <2>2, SubSeqProperties
  <2>4. \A i \in 1 .. n - 1 : i \in 1 .. n - 1 - 1 + 1 /\ 1 + i - 1 = i
    BY <2>1
  <2>5. \A i \in 1 .. n - 1 : free'[i] = free[i]
    BY <2>1, <2>3, <2>4
  <2> QED BY <2>1, <2>3, <2>5 DEF S
<1>6. a \notin used /\ \A i \in 1 .. n - 1 : free[i] # a
  BY <1>1, <1>3 DEF AddressExclusive
<1> HIDE DEF d, n, a
<1>7. TypeOK'
  BY <1>1, <1>2, <1>3, <1>4, <1>5 DEF TypeOK, Lives
<1>8. Fresh'
  BY <1>1, <1>2, <1>3, <1>4 DEF Fresh, TypeOK
<1>9. /\ Holding(s)' /\ ~Holding(s)
      /\ life'[s] = "open" /\ sid'[s] = d /\ addr'[s] = a
      /\ \A t \in Session \ {s} :
           /\ Holding(t)' <=> Holding(t)
           /\ life'[t] = life[t] /\ sid'[t] = sid[t] /\ addr'[t] = addr[t]
  BY <1>1, <1>2, <1>4 DEF TypeOK, Holding, Lives
<1>10. MapExact'
  <2>1. \A e \in Sid : mapped'[e] = IF e = d THEN s ELSE mapped[e]
    BY <1>1, <1>2, <1>4 DEF TypeOK
  <2>2. \A e \in Sid : mapped[e] # s
    BY <1>1, <1>9 DEF MapExact
  <2>3. \A t \in Session : sid[t] = d => ~Holding(t) \/ life[t] = "unmapped"
    BY <1>1, <1>2 DEF MapExact
  <2> SUFFICES ASSUME NEW e \in Sid, NEW t \in Session
               PROVE  mapped'[e] = t <=> sid'[t] = e /\ Holding(t)'
                                           /\ life'[t] # "unmapped"
    BY DEF MapExact
  <2>4. CASE t = s
    BY <2>1, <2>2, <2>4, <1>9
  <2>5. CASE t # s
    BY <2>1, <2>3, <2>5, <1>1, <1>9 DEF MapExact
  <2> QED BY <2>4, <2>5
<1>11. AddressExclusive'
  <2>1. \A t, u \in Session : Holding(t)' /\ Holding(u)' /\ t # u => addr'[t] # addr'[u]
    BY <1>1, <1>6, <1>9 DEF AddressExclusive
  <2>2. \A t \in Session : Holding(t)' => addr'[t] \in used'
    BY <1>1, <1>4, <1>9 DEF AddressExclusive
  <2>3. \A b \in used' : \E t \in Session : Holding(t)' /\ addr'[t] = b
    <3> SUFFICES ASSUME NEW b \in used'
                 PROVE  \E t \in Session : Holding(t)' /\ addr'[t] = b
      OBVIOUS
    <3>1. CASE b = a
      BY <3>1, <1>9
    <3>2. CASE b \in used
      <4>1. PICK t \in Session : Holding(t) /\ addr[t] = b
        BY <3>2, <1>1 DEF AddressExclusive
      <4>2. t # s
        BY <4>1, <1>9
      <4> QED BY <4>1, <4>2, <1>9
    <3> QED BY <3>1, <3>2, <1>4
  <2>4. \A i \in 1 .. n - 1 : free'[i] \notin used'
    <3>1. \A i \in 1 .. n - 1 : free[i] \notin used
      BY <1>1, <1>3 DEF AddressExclusive, n
    <3> QED BY <3>1, <1>4, <1>5, <1>6
  <2>5. \A i, j \in 1 .. n - 1 : free'[i] = free'[j] => i = j
    <3>1. \A i, j \in 1 .. n - 1 : free[i] = free[j] => i = j
      BY <1>1, <1>3 DEF AddressExclusive, n
    <3> QED BY <3>1, <1>5
  <2> QED BY <2>1, <2>2, <2>3, <2>4, <2>5, <1>5 DEF AddressExclusive
<1>12. RouteHasHandler'
  BY <1>1, <1>2, <1>4 DEF RouteHasHandler, TypeOK
<1> QED BY <1>7, <1>8, <1>10, <1>11, <1>12 DEF IInv

\* onEmpty, first half: the session leaves Handler.sessions.
LEMMA UnmapStep ==
  ASSUME IInv, NEW s \in Session, Unmap(s)
  PROVE  IInv'
<1> USE SessionsAssumption
<1>1. TypeOK /\ Fresh /\ MapExact /\ AddressExclusive /\ RouteHasHandler
  BY DEF IInv
<1>2. /\ life[s] = "dead" /\ life' = [life EXCEPT ![s] = "unmapped"]
      /\ mapped' = [mapped EXCEPT ![sid[s]] = None]
      /\ free' = free /\ used' = used /\ sid' = sid /\ addr' = addr
      /\ UNCHANGED <<routes, conn, pc, sess, target>>
  BY DEF Unmap, Advance, pool, objs
<1>3. sid[s] \in Sid /\ mapped[sid[s]] = s
  BY <1>1, <1>2 DEF Fresh, MapExact, Holding, Lives
<1>4. TypeOK' /\ Fresh'
  BY <1>1, <1>2, <1>3 DEF TypeOK, Fresh, Lives
<1>5. /\ life'[s] = "unmapped"
      /\ \A t \in Session : Holding(t)' <=> Holding(t)
      /\ \A t \in Session \ {s} : life'[t] = life[t]
  BY <1>1, <1>2 DEF TypeOK, Holding, Lives
<1>6. MapExact'
  <2>1. \A e \in Sid : mapped'[e] = IF e = sid[s] THEN None ELSE mapped[e]
    BY <1>1, <1>2, <1>3 DEF TypeOK
  <2> SUFFICES ASSUME NEW e \in Sid, NEW t \in Session
               PROVE  mapped'[e] = t <=> sid[t] = e /\ Holding(t)'
                                           /\ life'[t] # "unmapped"
    BY <1>2 DEF MapExact
  <2>2. CASE t = s
    BY <2>1, <2>2, <1>1, <1>5 DEF MapExact
  <2>3. CASE t # s
    BY <2>1, <2>3, <1>1, <1>3, <1>5 DEF MapExact
  <2> QED BY <2>2, <2>3
<1>7. AddressExclusive' /\ RouteHasHandler'
  BY <1>1, <1>2, <1>5 DEF AddressExclusive, RouteHasHandler
<1> QED BY <1>4, <1>6, <1>7 DEF IInv

\* onEmpty, second half: the address goes back to the pool.
LEMMA ReleaseStep ==
  ASSUME IInv, NEW s \in Session, Release(s)
  PROVE  IInv'
<1> DEFINE n == Len(free)
           a == addr[s]
<1> USE SessionsAssumption
<1>1. TypeOK /\ Fresh /\ MapExact /\ AddressExclusive /\ RouteHasHandler
  BY DEF IInv
<1>2. life[s] = "unmapped" /\ Holding(s) /\ a \in used /\ a \in Addr \ {Gateway}
  BY <1>1 DEF Release, Advance, AddressExclusive, Holding, Lives, TypeOK
<1>3. /\ life' = [life EXCEPT ![s] = "released"]
      /\ used' = used \ {a} /\ free' = Append(free, a)
      /\ mapped' = mapped /\ sid' = sid /\ addr' = addr
      /\ UNCHANGED <<routes, conn, pc, sess, target>>
  BY <1>2 DEF Release, Advance, ReleaseAddr, objs
<1>4. /\ n \in Nat /\ Len(free') = n + 1 /\ free' \in Seq(Addr \ {Gateway})
      /\ free'[n + 1] = a /\ \A i \in 1 .. n : free'[i] = free[i]
  BY <1>1, <1>2, <1>3 DEF TypeOK
<1>5. /\ \A i \in 1 .. n : free[i] \notin used
      /\ \A i, j \in 1 .. n : free[i] = free[j] => i = j
  BY <1>1 DEF AddressExclusive
<1> HIDE DEF n
<1>6. TypeOK' /\ Fresh'
  BY <1>1, <1>2, <1>3, <1>4 DEF TypeOK, Fresh, Lives
<1>7. /\ ~Holding(s)'
      /\ \A t \in Session \ {s} : life'[t] = life[t] /\ (Holding(t)' <=> Holding(t))
  BY <1>1, <1>3 DEF TypeOK, Holding, Lives
<1>8. MapExact'
  BY <1>1, <1>2, <1>3, <1>7 DEF MapExact
<1>9. AddressExclusive'
  <2>1. \A t, u \in Session : Holding(t)' /\ Holding(u)' /\ t # u => addr'[t] # addr'[u]
    BY <1>1, <1>3, <1>7 DEF AddressExclusive
  <2>2. \A t \in Session : Holding(t)' => addr'[t] \in used'
    BY <1>1, <1>2, <1>3, <1>7 DEF AddressExclusive
  <2>3. \A b \in used' : \E t \in Session : Holding(t)' /\ addr'[t] = b
    BY <1>1, <1>2, <1>3, <1>7 DEF AddressExclusive
  <2>4. \A i \in 1 .. n + 1 : free'[i] \notin used'
    BY <1>3, <1>4, <1>5
  <2>5. \A i, j \in 1 .. n + 1 : free'[i] = free'[j] => i = j
    BY <1>2, <1>4, <1>5
  <2> QED BY <2>1, <2>2, <2>3, <2>4, <2>5, <1>4 DEF AddressExclusive
<1>10. RouteHasHandler'
  BY <1>1, <1>3 DEF RouteHasHandler
<1> QED BY <1>6, <1>8, <1>9, <1>10 DEF IInv

LEMMA NextIInv == IInv /\ [Next]_vars => IInv'
<1> SUFFICES ASSUME IInv, [Next]_vars
             PROVE  IInv'
  OBVIOUS
<1>1. CASE UNCHANGED vars
  BY <1>1 DEF vars, pool, objs, IInv, TypeOK, Fresh, MapExact,
              AddressExclusive, RouteHasHandler, Holding
<1>2. CASE Next
  BY <1>2, QuietRequests, BreakStep, DyingStep, HandlingStep, CreateStep,
     UnmapStep, ReleaseStep
  DEF Next, Serve, Dying, Handling
<1> QED BY <1>1, <1>2

LEMMA Invariance == Spec => []IInv
  BY InitIInv, NextIInv, PTL DEF Spec

(***************************************************************************)
(* Type correctness: the gateway's address is never handed out.            *)
(***************************************************************************)
THEOREM TypeCorrect == Spec => []TypeOK
<1>1. IInv => TypeOK
  BY DEF IInv
<1> QED BY <1>1, Invariance, PTL

(***************************************************************************)
(* ipPool never gives an address to two sessions, loses or duplicates one. *)
(***************************************************************************)
THEOREM AddressesExclusive == Spec => []AddressExclusive
<1>1. IInv => AddressExclusive
  BY DEF IInv
<1> QED BY <1>1, Invariance, PTL

(***************************************************************************)
(* Handler.sessions and the tunnels' lives agree at every moment.          *)
(***************************************************************************)
THEOREM SessionMapExact == Spec => []MapExact
<1>1. IInv => MapExact
  BY DEF IInv
<1> QED BY <1>1, Invariance, PTL

(***************************************************************************)
(* Server.sessions never leads to a tunnel whose handleConn has returned.  *)
(***************************************************************************)
THEOREM RoutesHaveHandlers == Spec => []RouteHasHandler
<1>1. IInv => RouteHasHandler
  BY DEF IInv
<1> QED BY <1>1, Invariance, PTL

-----------------------------------------------------------------------------
(* The refinement of TunnelLife, session by session.                       *)

LEMMA LifeKept ==
  ASSUME NEW s \in Session, life'[s] = life[s], Attached(s)' = Attached(s)
  PROVE  UNCHANGED Life(s)!vars
BY DEF Life!vars

\* Steps of a request that does not get attached, nor was.
LEMMA RequestAside ==
  ASSUME IInv, NEW r \in Request,
         Join(r) \/ Exhausted(r) \/ UpgradeFails(r) \/ \E t \in Session : Create(r, t),
         NEW s \in Session
  PROVE  Attached(s)' = Attached(s)
<1>1. /\ pc[r] # "attached" /\ pc'[r] # "attached"
      /\ \A q \in Request : q # r => pc'[q] = pc[q] /\ sess'[q] = sess[q]
  BY DEF Join, Exhausted, UpgradeFails, Create, IInv, TypeOK
<1> QED BY <1>1 DEF Attached

\* The channels a tunnel loses are its own: the other tunnels keep theirs.
LEMMA LoseIsLife ==
  ASSUME IInv, NEW t \in Session, life[t] # "unused", NEW gone \in SUBSET Attached(t),
         Lose(t, gone), sess' = sess, NEW s \in Session
  PROVE  /\ s # t => Attached(s)' = Attached(s) /\ life'[s] = life[s]
         /\ s = t => /\ Attached(s)' = Attached(s) \ gone
                     /\ life'[s] = IF Attached(s)' = {} THEN Doomed(s) ELSE life[s]
<1>1. Attached(s)' = {r \in Request : pc[r] = "attached" /\ sess[r] = s /\ r \notin gone}
  BY DEF Attached, Lose
<1>2. s # t => Attached(s)' = Attached(s)
  BY <1>1 DEF Attached
<1>3. Attached(s)' = Attached(s) \ gone
  BY <1>1 DEF Attached
<1>4. s # t => life'[s] = life[s]
  BY DEF Lose, IInv, TypeOK
<1>5. s = t => life'[s] = IF Attached(s) \subseteq gone THEN Doomed(s) ELSE life[s]
  BY DEF Lose, IInv, TypeOK
<1> QED BY <1>2, <1>3, <1>4, <1>5

LEMMA StepSimulation ==
  IInv /\ [Next]_vars => \A s \in Session : [Life(s)!Next]_(Life(s)!vars)
<1> SUFFICES ASSUME IInv, [Next]_vars, NEW s \in Session
             PROVE  [Life(s)!Next]_(Life(s)!vars)
  OBVIOUS
<1>0. life[s] \in Lives
  BY DEF IInv, TypeOK
<1>1. CASE UNCHANGED vars
  BY <1>1, LifeKept DEF vars, Attached
<1>2. ASSUME NEW r \in Request, \E t \in Session : Create(r, t)
      PROVE  UNCHANGED Life(s)!vars
  <2>1. PICK t \in Session : Create(r, t)
    BY <1>2
  <2>2. Attached(s)' = Attached(s)
    BY <1>2, RequestAside
  <2>3. CASE s = t
    <3>1. life[s] = "unused" /\ life'[s] = "open"
      BY <2>1, <2>3 DEF Create, IInv, TypeOK
    <3> QED BY <2>2, <3>1 DEF Life!vars
  <2>4. CASE s # t
    <3>1. life'[s] = life[s]
      BY <2>1, <2>4 DEF Create, IInv, TypeOK
    <3> QED BY <2>2, <3>1, LifeKept
  <2> QED BY <2>3, <2>4
<1>3. ASSUME NEW r \in Request, Join(r) \/ Exhausted(r) \/ UpgradeFails(r)
      PROVE  UNCHANGED Life(s)!vars
  <2>1. life' = life
    BY <1>3 DEF Join, Exhausted, UpgradeFails
  <2> QED BY <1>3, <2>1, RequestAside, LifeKept
<1>4. ASSUME NEW r \in Request, Upgraded(r)
      PROVE  [Life(s)!Next]_(Life(s)!vars)
  <2>1. /\ life' = life /\ sess' = sess /\ pc[r] = "upgrading"
        /\ pc'[r] = IF Accepts(sess[r]) THEN "attached" ELSE "refused"
        /\ \A q \in Request : q # r => pc'[q] = pc[q]
    BY <1>4 DEF Upgraded, IInv, TypeOK
  <2>2. CASE sess[r] = s /\ Accepts(s)
    <3>1. Attached(s)' = Attached(s) \cup {r} /\ r \notin Attached(s)
      BY <2>1, <2>2 DEF Attached
    <3>2. life[s] \in {"open", "doomed"}
      BY <2>2 DEF Accepts
    <3>3. Life(s)!Join(r)
      BY <2>1, <3>1, <3>2 DEF Life!Join
    <3> QED BY <3>3 DEF Life!Next
  <2>3. CASE ~(sess[r] = s /\ Accepts(s))
    <3>1. Attached(s)' = Attached(s)
      BY <2>1, <2>3 DEF Attached
    <3> QED BY <2>1, <3>1, LifeKept
  <2> QED BY <2>2, <2>3
<1>5. ASSUME NEW r \in Request, Break(r)
      PROVE  [Life(s)!Next]_(Life(s)!vars)
  <2>1. /\ sess[r] \in Session /\ life[sess[r]] # "unused" /\ {r} \in SUBSET Attached(sess[r])
        /\ Lose(sess[r], {r}) /\ sess' = sess
    BY <1>5 DEF Break, IInv, Fresh, Attached
  <2>2. CASE s # sess[r]
    BY <2>1, <2>2, LoseIsLife, LifeKept
  <2>3. CASE s = sess[r]
    <3>1. /\ r \in Attached(s) /\ Attached(s)' = Attached(s) \ {r}
          /\ life'[s] = IF Attached(s)' = {} THEN Doomed(s) ELSE life[s]
      BY <2>1, <2>3, LoseIsLife
    <3>2. Life(s)!Leave(r)
      BY <1>0, <2>1, <2>3, <3>1 DEF Life!Leave, Life!Doomed, Doomed, Lives
    <3> QED BY <3>2 DEF Life!Next
  <2> QED BY <2>2, <2>3
<1>6. ASSUME WriteFails
      PROVE  [Life(s)!Next]_(Life(s)!vars)
  <2>1. /\ target \in Session /\ life[target] # "unused"
        /\ Attached(target) \in SUBSET Attached(target)
        /\ Lose(target, Attached(target)) /\ sess' = sess
    BY <1>6 DEF WriteFails, IInv, Fresh, TypeOK
  <2>2. CASE s # target
    BY <2>1, <2>2, LoseIsLife, LifeKept
  <2>3. CASE s = target
    <3>1. Attached(s)' = {} /\ life'[s] = Doomed(s)
      BY <2>1, <2>3, LoseIsLife
    <3>2. Life(s)!CloseAll
      BY <1>0, <2>1, <2>3, <3>1 DEF Life!CloseAll, Life!Doomed, Doomed, Lives
    <3> QED BY <3>2 DEF Life!Next
  <2> QED BY <2>2, <2>3
<1>7. ASSUME NEW t \in Session, Dying(t) \/ Keepalive(t)
      PROVE  [Life(s)!Next]_(Life(s)!vars)
  <2>1. Attached(s)' = Attached(s) /\ life \in [Session -> Lives]
    BY <1>7 DEF Dying, MarkClosed, CloseDead, Unmap, Release, Advance, Keepalive, Attached,
                IInv, TypeOK
  <2>2. CASE s # t
    <3>1. life'[s] = life[s]
      BY <1>7, <2>1, <2>2 DEF Dying, MarkClosed, CloseDead, Unmap, Release, Advance, Keepalive
    <3> QED BY <2>1, <3>1, LifeKept
  <2>3. CASE s = t /\ MarkClosed(t)
    <3>1. life[s] = "doomed" /\ life'[s] = "closed"
      BY <2>1, <2>3 DEF MarkClosed, Advance
    <3> QED BY <2>1, <3>1 DEF Life!Next, Life!Refuse
  <2>4. CASE s = t /\ CloseDead(t)
    <3>1. life[s] = "closed" /\ life'[s] = "dead"
      BY <2>1, <2>4 DEF CloseDead, Advance
    <3> QED BY <2>1, <3>1 DEF Life!Next, Life!Die
  <2>5. CASE s = t /\ Unmap(t)
    <3>1. life[s] = "dead" /\ life'[s] = "unmapped"
      BY <2>1, <2>5 DEF Unmap, Advance
    <3> QED BY <2>1, <3>1 DEF Life!vars
  <2>6. CASE s = t /\ Release(t)
    <3>1. life[s] = "unmapped" /\ life'[s] = "released"
      BY <2>1, <2>6 DEF Release, Advance
    <3> QED BY <2>1, <3>1 DEF Life!Next, Life!Release
  <2>7. CASE s = t /\ Keepalive(t)
    <3>1. Attached(s) = {} /\ life[s] = "open" /\ life'[s] = "doomed"
      BY <2>1, <2>7 DEF Keepalive, Doomed
    <3> QED BY <2>1, <3>1 DEF Life!Next, Life!CloseAll, Life!Doomed
  <2> QED BY <1>7, <2>2, <2>3, <2>4, <2>5, <2>6, <2>7 DEF Dying
<1>8. ASSUME \/ \E t \in Session : Register(t) \/ ReadFails(t) \/ DevFails(t) \/ Unregister(t)
             \/ (\E a \in Addr : Lookup(a)) \/ Written
      PROVE  UNCHANGED Life(s)!vars
  <2>1. life' = life /\ Attached(s)' = Attached(s)
    BY <1>8 DEF Register, ReadFails, DevFails, Unregister, Lookup, Written, Attached
  <2> QED BY <2>1, LifeKept
<1> QED BY <1>1, <1>2, <1>3, <1>4, <1>5, <1>6, <1>7, <1>8 DEF Next, Serve, Handling

(***************************************************************************)
(* Every session's tunnel goes through the life cycle of TunnelLife, the   *)
(* one the tunnel itself implements: what the server's tables assume of a  *)
(* tunnel and what Tunnel provides are the same specification.             *)
(***************************************************************************)
THEOREM SessionsImplementLife == Spec => LifeSpec
<1>1. Init => \A s \in Session : Life(s)!Init
  BY SessionsAssumption DEF Init, Attached, Life!Init
<1>2. IInv /\ [Next]_vars => [\A s \in Session : [Life(s)!Next]_(Life(s)!vars)]_vars
  BY StepSimulation
<1> QED BY <1>1, <1>2, Invariance, PTL DEF Spec, LifeSpec

-----------------------------------------------------------------------------
(* A session nobody uses is on its way back to the pool.                   *)

\* A tunnel that is open without a channel has never had one, and its
\* handleConn, with the ticker, has not returned.
OpenIsHandled ==
  /\ \A r \in Request : sess[r] # None => life[sess[r]] # "unused"
  /\ \A s \in Session : life[s] = "open" /\ Attached(s) = {} =>
       /\ conn[s] \in {"starting", "running"}
       /\ \A r \in Request : sess[r] = s => pc[r] # "left"

LEMMA OpenIsHandledStep ==
  ASSUME IInv, OpenIsHandled, [Next]_vars
  PROVE  OpenIsHandled'
<1> USE SessionsAssumption
<1> DEFINE Good(s) == life[s] = "open" /\ Attached(s) = {} =>
                        /\ conn[s] \in {"starting", "running"}
                        /\ \A r \in Request : sess[r] = s => pc[r] # "left"
           Used == \A r \in Request : sess[r] # None => life[sess[r]] # "unused"
<1>0. /\ Used /\ \A s \in Session : Good(s)
      /\ life \in [Session -> Lives] /\ \A r \in Request : sess[r] \in Session \cup {None}
      /\ conn \in [Session -> {"none", "starting", "running", "exiting", "done"}]
  BY DEF OpenIsHandled, IInv, TypeOK
<1>1. ASSUME NEW r \in Request, NEW t \in Session, Create(r, t)
      PROVE  Used' /\ \A s \in Session : Good(s)'
  <2>1. /\ life[t] = "unused" /\ life'[t] = "open" /\ conn'[t] = "starting"
        /\ \A s \in Session : s # t => life'[s] = life[s] /\ conn'[s] = conn[s]
        /\ sess'[r] = t /\ pc'[r] = "upgrading"
        /\ \A q \in Request : q # r => sess'[q] = sess[q] /\ pc'[q] = pc[q]
    BY <1>1 DEF Create, IInv, TypeOK
  <2>2. \A s \in Session : Attached(s)' = Attached(s)
    BY <1>1, RequestAside
  <2>3. Used'
    BY <1>0, <2>1
  <2>4. Good(t)'
    BY <1>0, <2>1
  <2>5. ASSUME NEW s \in Session, s # t PROVE Good(s)'
    BY <1>0, <2>1, <2>2, <2>5
  <2> QED BY <2>3, <2>4, <2>5
<1>2. ASSUME NEW r \in Request, Join(r) \/ Exhausted(r) \/ UpgradeFails(r) \/ Upgraded(r)
      PROVE  Used' /\ \A s \in Session : Good(s)'
  <2>1. /\ life' = life /\ conn' = conn /\ pc'[r] # "left"
        /\ \A q \in Request : q # r => sess'[q] = sess[q] /\ pc'[q] = pc[q]
    BY <1>2 DEF Join, Exhausted, UpgradeFails, Upgraded, IInv, TypeOK
  <2>2. sess'[r] # None => life[sess'[r]] # "unused"
    <3>1. CASE Join(r)
      <4>1. /\ r[1] \in Sid /\ mapped[r[1]] \in Session /\ sess'[r] = mapped[r[1]]
        BY <3>1, RequestSid DEF Join, IInv, TypeOK
      <4> QED BY <4>1 DEF IInv, MapExact, Holding
    <3>2. CASE ~Join(r)
      BY <1>0, <1>2, <3>2 DEF Exhausted, UpgradeFails, Upgraded
    <3> QED BY <3>1, <3>2
  <2>3. \A s \in Session : Attached(s) \subseteq Attached(s)'
    <3>1. CASE Upgraded(r)
      BY <3>1, <2>1 DEF Upgraded, Attached
    <3>2. CASE ~Upgraded(r)
      BY <1>2, <3>2, RequestAside
    <3> QED BY <3>1, <3>2
  <2>4. Used'
    BY <1>0, <2>1, <2>2
  <2>5. ASSUME NEW s \in Session PROVE Good(s)'
    BY <1>0, <2>1, <2>3
  <2> QED BY <2>4, <2>5
<1>3. ASSUME (\E r \in Request : Break(r)) \/ WriteFails
      PROVE  Used' /\ \A s \in Session : Good(s)'
  <2>1. PICK t \in Session : \E gone \in SUBSET Attached(t) :
          /\ life[t] # "unused" /\ Lose(t, gone) /\ sess' = sess /\ conn' = conn
    <3>1. ASSUME NEW r \in Request, Break(r)
          PROVE  /\ sess[r] \in Session /\ life[sess[r]] # "unused"
                 /\ {r} \in SUBSET Attached(sess[r])
                 /\ Lose(sess[r], {r}) /\ sess' = sess /\ conn' = conn
      BY <3>1 DEF Break, IInv, Fresh, Attached
    <3>2. CASE WriteFails
      <4>1. /\ target \in Session /\ life[target] # "unused"
            /\ Attached(target) \in SUBSET Attached(target)
            /\ Lose(target, Attached(target)) /\ sess' = sess /\ conn' = conn
        BY <3>2 DEF WriteFails, IInv, Fresh, TypeOK
      <4> QED BY <4>1
    <3> QED BY <1>3, <3>1, <3>2
  <2>2. PICK gone \in SUBSET Attached(t) :
          /\ life[t] # "unused" /\ Lose(t, gone) /\ sess' = sess /\ conn' = conn
    BY <2>1
  <2>3. /\ \A q \in Request : sess[q] # t => pc'[q] = pc[q]
        /\ \A s \in Session : life'[s] = "unused" <=> life[s] = "unused"
    BY <2>2 DEF Lose, Attached, Doomed, IInv, TypeOK
  <2>4. Used'
    BY <1>0, <2>2, <2>3
  <2>5. ASSUME NEW s \in Session, s # t PROVE Good(s)'
    <3>1. Attached(s)' = Attached(s) /\ life'[s] = life[s]
      BY <2>2, <2>5, LoseIsLife
    <3> QED BY <1>0, <2>2, <2>3, <2>5, <3>1
  <2>6. Good(t)'
    <3>1. life'[t] = IF Attached(t)' = {} THEN Doomed(t) ELSE life[t]
      BY <2>2, LoseIsLife
    <3> QED BY <3>1 DEF Doomed
  <2> QED BY <2>4, <2>5, <2>6
<1>4. ASSUME NEW t \in Session, Dying(t) \/ Keepalive(t)
      PROVE  Used' /\ \A s \in Session : Good(s)'
  <2>1. /\ conn' = conn /\ pc' = pc /\ sess' = sess
        /\ life[t] # "unused" /\ life'[t] \notin {"unused", "open"}
        /\ \A s \in Session : s # t => life'[s] = life[s]
    BY <1>0, <1>4 DEF Dying, MarkClosed, CloseDead, Unmap, Release, Advance, Keepalive, Doomed
  <2>2. \A s \in Session : Attached(s)' = Attached(s)
    BY <2>1 DEF Attached
  <2>3. Used'
    BY <1>0, <2>1
  <2> QED BY <1>0, <2>1, <2>2, <2>3
<1>5. ASSUME NEW t \in Session, Register(t) \/ ReadFails(t) \/ DevFails(t) \/ Unregister(t)
      PROVE  Used' /\ \A s \in Session : Good(s)'
  <2>1. /\ life' = life /\ pc' = pc /\ sess' = sess
        /\ \A s \in Session : s # t => conn'[s] = conn[s]
    BY <1>0, <1>5 DEF Register, ReadFails, DevFails, Unregister
  <2>2. \A s \in Session : Attached(s)' = Attached(s)
    BY <2>1 DEF Attached
  <2>3. Good(t)'
    <3> SUFFICES ASSUME life[t] = "open", Attached(t) = {} PROVE conn'[t] = "running"
      BY <1>0, <2>1, <2>2
    <3>1. ~ReadFails(t) /\ ~Unregister(t)
      BY <1>0 DEF ReadFails, Dead, Unregister
    <3>2. ~DevFails(t)
      BY <1>0 DEF DevFails, Attached
    <3> QED BY <1>0, <1>5, <3>1, <3>2 DEF Register
  <2> QED BY <1>0, <2>1, <2>2, <2>3
<1>6. ASSUME (\E a \in Addr : Lookup(a)) \/ Written \/ UNCHANGED vars
      PROVE  Used' /\ \A s \in Session : Good(s)'
  BY <1>0, <1>6 DEF Lookup, Written, vars, Attached
<1>7. Used' /\ \A s \in Session : Good(s)'
  <2> HIDE DEF Used, Good
  <2> QED BY <1>1, <1>2, <1>3, <1>4, <1>5, <1>6 DEF Next, Serve, Handling
<1> QED BY <1>7 DEF OpenIsHandled

\* A session that holds an address without using it has markDead, onEmpty, or
\* a handleConn whose ticker will close it, still to come.
UnusedIsPursued ==
  \A s \in Session : Unused(s) =>
    \/ life[s] \in {"doomed", "closed", "dead", "unmapped"}
    \/ life[s] = "open" /\ conn[s] \in {"starting", "running"}

(***************************************************************************)
(* The safety half of UnusedIsReleased: no address is held by a session    *)
(* that nothing works on any more, even if its handshake failed or its     *)
(* handleConn left because of the TUN device.                              *)
(***************************************************************************)
THEOREM UnusedAlwaysPursued == Spec => []UnusedIsPursued
<1>1. Init => OpenIsHandled
  BY DEF Init, OpenIsHandled
<1>2. IInv /\ OpenIsHandled /\ [Next]_vars => OpenIsHandled'
  BY OpenIsHandledStep
<1>3. IInv /\ OpenIsHandled => UnusedIsPursued
  BY DEF IInv, TypeOK, OpenIsHandled, UnusedIsPursued, Unused, Holding, Lives
<1> QED BY <1>1, <1>2, <1>3, Invariance, PTL DEF Spec
=============================================================================
