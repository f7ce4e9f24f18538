----------------------------- MODULE BondProofs -----------------------------
(***************************************************************************)
(* Proofs about Bond, for any number of clients, channels, sessions and    *)
(* addresses: the server's tables stay consistent under any client, the    *)
(* channels of a tunnel are one link, the two ends agree on their keys.    *)
(*                                                                         *)
(* The invariant of the server is the one of ServerSessionsProofs.  What   *)
(* ties the ends together is that a response, once written, names the      *)
(* address of the session the request was given, and that no other channel *)
(* is requested before the response for channel 0 has come.                *)
(***************************************************************************)
EXTENDS Bond, ServerSessionsProofs

\* The client's state.
ClientTypes ==
  /\ dial \in [Sid -> {"idle", "first", "rest", "up", "failed"}]
  /\ hop \in [Request -> {"idle", "connecting", "unreached", "requested", "failed",
                          "ready", "added", "gone"}]
  /\ reply \in [Request -> [addr : Addr \cup {0}, eph : {None} \cup ({"server"} \X Request)]]
  /\ lease \in [Sid -> Addr \cup {0}]
  /\ tun \in [Sid -> {"none", "open", "closed"}]

\* A request is given a session of its own sid, once.
Owned ==
  /\ \A r \in Request : pc[r] = "new" => sess[r] = None
  /\ \A r \in Request : sess[r] # None => life[sess[r]] # "unused" /\ sid[sess[r]] = r[1]
  /\ \A s \in Session : life[s] # "unused" => addr[s] # Gateway

\* A response names the session's address and the server's ephemeral key.
Answers ==
  /\ \A r \in Request : reply[r] # NoReply =>
       sess[r] # None /\ reply[r].addr = addr[sess[r]] /\ reply[r].eph = <<"server", r>>
  /\ \A r \in Request : hop[r] \in {"ready", "added", "gone"} => reply[r] # NoReply

\* Channel 0 is dialled first, and its response is what Dial returns.
FirstIsFirst ==
  /\ \A r \in Request : hop[r] # "idle" => dial[r[1]] # "idle"
  /\ \A r \in Request :
       hop[r] # "idle" /\ (r[2] # First \/ hop[r] \in {"added", "gone"}) =>
         dial[r[1]] \in {"rest", "up"}
  /\ \A d \in Sid : dial[d] \in {"rest", "up"} =>
       hop[Channel0(d)] \in {"added", "gone"} /\ lease[d] = reply[Channel0(d)].addr

\* The other channels were given channel 0's session, unless it was over.
Grouped ==
  \A r \in Request : sess[r] # None /\ r[2] # First =>
    /\ sess[Channel0(r[1])] # None
    /\ \/ sess[r] = sess[Channel0(r[1])]
       \/ life[sess[Channel0(r[1])]] \in {"unmapped", "released"}

OpenWhileAdded == \A d \in Sid : tun[d] = "open" <=> Added(d) # {}

BondIInv ==
  IInv /\ ClientTypes /\ Owned /\ Answers /\ FirstIsFirst /\ Grouped /\ OpenWhileAdded

\* What the server may do to its own state in a step of Bond.
ServerStep == [Next]_vars \/ \E r \in Request : Denied(r)

LEMMA Channels ==
  /\ \A r \in Request : r[1] \in Sid /\ (r[2] = First => r = Channel0(r[1]))
  /\ \A d \in Sid : Channel0(d) \in Request /\ Channel0(d)[1] = d /\ Channel0(d)[2] = First
BY SessionsAssumption, BondAssumption DEF Channel0

-----------------------------------------------------------------------------
(* The server.                                                             *)

LEMMA ServerIInv ==
  ASSUME IInv, ServerStep
  PROVE  IInv'
<1>1. ASSUME NEW r \in Request, Denied(r) PROVE IInv'
  <2>1. /\ pc[r] = "new" /\ pc' = [pc EXCEPT ![r] = "refused"]
        /\ UNCHANGED <<mapped, pool, routes, objs, life, conn, sess, target>>
    BY <1>1 DEF Denied
  <2> QED BY <2>1 DEF IInv, TypeOK, Fresh, MapExact, AddressExclusive, RouteHasHandler, Holding,
                      pool, objs
<1> QED BY <1>1, NextIInv DEF ServerStep

\* A session in use keeps its sid and address and only gets older; a request
\* keeps the session it was given.
Frame ==
  /\ \A s \in Session : life[s] # "unused" =>
       life'[s] # "unused" /\ sid'[s] = sid[s] /\ addr'[s] = addr[s]
  /\ \A s \in Session : life[s] \in {"unmapped", "released"} =>
       life'[s] \in {"unmapped", "released"}
  /\ \A r \in Request : sess[r] # None => sess'[r] = sess[r]

\* Admission creates or finds a session of the request's sid.
LEMMA CreateOwned ==
  ASSUME IInv, Owned, NEW r \in Request, NEW s \in Session, Create(r, s)
  PROVE  Frame /\ Owned'
<1> USE SessionsAssumption, Channels
<1>1. /\ pc[r] = "new" /\ sess[r] = None /\ life[s] = "unused"
      /\ free # <<>> /\ free \in Seq(Addr \ {Gateway})
  BY DEF Create, Alloc, Owned, IInv, TypeOK
<1>2. free[Len(free)] # Gateway
  BY <1>1
<1>3. /\ sid' = [sid EXCEPT ![s] = r[1]] /\ life' = [life EXCEPT ![s] = "open"]
      /\ addr' = [addr EXCEPT ![s] = free[Len(free)]]
      /\ pc' = [pc EXCEPT ![r] = "upgrading"] /\ sess' = [sess EXCEPT ![r] = s]
  BY DEF Create, Alloc
<1>4. /\ sid'[s] = r[1] /\ life'[s] = "open" /\ addr'[s] # Gateway
      /\ \A t \in Session : t # s => sid'[t] = sid[t] /\ life'[t] = life[t] /\ addr'[t] = addr[t]
      /\ pc'[r] = "upgrading" /\ sess'[r] = s
      /\ \A q \in Request : q # r => pc'[q] = pc[q] /\ sess'[q] = sess[q]
      /\ \A q \in Request : sess[q] \in Session \cup {None}
  BY <1>2, <1>3 DEF IInv, TypeOK
<1>5. Frame
  BY <1>1, <1>4 DEF Frame
<1> QED BY <1>1, <1>4, <1>5 DEF Owned

LEMMA JoinOwned ==
  ASSUME IInv, Owned, NEW r \in Request, Join(r)
  PROVE  Frame /\ Owned'
<1> USE SessionsAssumption, Channels
<1>1. /\ pc[r] = "new" /\ sess[r] = None /\ mapped[r[1]] \in Session
      /\ pc' = [pc EXCEPT ![r] = "upgrading"] /\ sess' = [sess EXCEPT ![r] = mapped[r[1]]]
      /\ UNCHANGED <<life, sid, addr>>
  BY DEF Join, Owned, IInv, TypeOK, objs
<1>2. sid[mapped[r[1]]] = r[1] /\ life[mapped[r[1]]] # "unused"
  BY <1>1 DEF IInv, MapExact, Holding
<1>3. /\ pc'[r] = "upgrading" /\ sess'[r] = mapped[r[1]]
      /\ \A q \in Request : q # r => pc'[q] = pc[q] /\ sess'[q] = sess[q]
  BY <1>1 DEF IInv, TypeOK
<1>4. Frame
  BY <1>1, <1>3 DEF Frame
<1> QED BY <1>1, <1>2, <1>3, <1>4 DEF Owned

\* Nothing else touches a session's sid or address.
LEMMA OtherOwned ==
  ASSUME IInv, Owned, ServerStep, sess' = sess, sid' = sid, addr' = addr,
         \A r \in Request : pc'[r] = "new" => pc[r] = "new",
         \A s \in Session : life[s] # "unused" <=> life'[s] # "unused",
         \A s \in Session : life[s] \in {"unmapped", "released"} =>
           life'[s] \in {"unmapped", "released"}
  PROVE  Frame /\ Owned'
BY SessionsAssumption DEF Frame, Owned, IInv, TypeOK

LEMMA ServerFrame ==
  ASSUME IInv, Owned, ServerStep
  PROVE  Frame /\ Owned'
<1> DEFINE Calm == /\ sess' = sess /\ sid' = sid /\ addr' = addr
                   /\ \A r \in Request : pc'[r] = "new" => pc[r] = "new"
                   /\ \A s \in Session : life[s] # "unused" <=> life'[s] # "unused"
                   /\ \A s \in Session : life[s] \in {"unmapped", "released"} =>
                        life'[s] \in {"unmapped", "released"}
<1>1. ASSUME NEW r \in Request, Denied(r) PROVE Calm
  BY <1>1 DEF Denied, objs, IInv, TypeOK
<1>2. ASSUME NEW r \in Request, Exhausted(r) \/ UpgradeFails(r) \/ Upgraded(r) PROVE Calm
  BY <1>2 DEF Exhausted, UpgradeFails, Upgraded, objs, IInv, TypeOK
<1>3. ASSUME (\E r \in Request : Break(r)) \/ WriteFails PROVE Calm
  <2>1. PICK s \in Session, gone \in SUBSET Request :
          life[s] # "unused" /\ Lose(s, gone) /\ UNCHANGED <<objs, sess>>
    <3>1. ASSUME NEW r \in Request, Break(r)
          PROVE  /\ sess[r] \in Session /\ life[sess[r]] # "unused"
                 /\ Lose(sess[r], {r}) /\ {r} \in SUBSET Request /\ UNCHANGED <<objs, sess>>
      BY <3>1 DEF Break, IInv, Fresh
    <3>2. CASE WriteFails
      <4>1. /\ target \in Session /\ life[target] # "unused"
            /\ Attached(target) \in SUBSET Request
        BY <3>2 DEF WriteFails, IInv, Fresh, TypeOK, Attached
      <4> QED BY <3>2, <4>1 DEF WriteFails
    <3> QED BY <1>3, <3>1, <3>2
  <2>2. \A r \in Request : pc'[r] = "new" => pc[r] = "new"
    BY <2>1 DEF Lose
  <2>3. \A t \in Session : life'[t] = life[t] \/ (life[t] = "open" /\ life'[t] = "doomed")
    BY <2>1 DEF Lose, Doomed, IInv, TypeOK
  <2> QED BY <2>1, <2>2, <2>3 DEF objs
<1>4. ASSUME NEW s \in Session, Dying(s) \/ Handling(s) PROVE Calm
  <2>1. CASE Dying(s) \/ Keepalive(s)
    <3>1. /\ sess' = sess /\ sid' = sid /\ addr' = addr /\ pc' = pc
          /\ life[s] \in {"open", "doomed", "closed", "dead", "unmapped"}
          /\ \E l \in Lives \ {"unused"} :
               life' = [life EXCEPT ![s] = l] /\ (life[s] = "unmapped" => l = "released")
      BY <2>1 DEF Dying, MarkClosed, CloseDead, Unmap, Release, Advance, Keepalive, Doomed, objs,
                  Lives
    <3> QED BY <3>1 DEF IInv, TypeOK
  <2>2. CASE Register(s) \/ ReadFails(s) \/ DevFails(s) \/ Unregister(s)
    BY <2>2 DEF Register, ReadFails, DevFails, Unregister, objs
  <2> QED BY <1>4, <2>1, <2>2 DEF Handling
<1>5. ASSUME (\E a \in Addr : Lookup(a)) \/ Written \/ UNCHANGED vars PROVE Calm
  BY <1>5 DEF Lookup, Written, vars, objs
<1>6. ASSUME Calm PROVE Frame /\ Owned'
  BY <1>6, OtherOwned
<1> HIDE DEF Calm
<1> QED BY <1>1, <1>2, <1>3, <1>4, <1>5, <1>6, CreateOwned, JoinOwned DEF ServerStep, Next, Serve

\* A step of the server alone.  Only admission gives a request a session.
LEMMA ServerSide ==
  ASSUME BondIInv, ServerStep, UNCHANGED cvars,
         \/ sess' = sess
         \/ \E r \in Request : Arrived(r) /\ (Join(r) \/ \E s \in Session : Create(r, s))
  PROVE  BondIInv'
<1> USE SessionsAssumption, Channels
<1>1. IInv' /\ Frame /\ Owned'
  BY ServerIInv, ServerFrame DEF BondIInv
<1>2. ClientTypes' /\ FirstIsFirst' /\ OpenWhileAdded'
  BY DEF BondIInv, ClientTypes, FirstIsFirst, OpenWhileAdded, Added, cvars
<1>3. Answers'
  BY <1>1 DEF BondIInv, IInv, TypeOK, Owned, Answers, Frame, cvars
<1>4. Grouped'
  <2>1. ASSUME NEW q \in Request, sess[q] # None, q[2] # First
        PROVE  /\ sess'[q] = sess[q] /\ sess'[Channel0(q[1])] = sess[Channel0(q[1])]
               /\ sess[Channel0(q[1])] # None
               /\ \/ sess'[q] = sess'[Channel0(q[1])]
                  \/ life'[sess'[Channel0(q[1])]] \in {"unmapped", "released"}
    BY <1>1, <2>1 DEF BondIInv, IInv, TypeOK, Grouped, Frame
  <2>2. CASE sess' = sess
    BY <2>1, <2>2 DEF Grouped
  <2>3. ASSUME NEW r \in Request, Arrived(r), Join(r) \/ \E s \in Session : Create(r, s),
               r[2] # First
        PROVE  /\ sess'[Channel0(r[1])] # None
               /\ \/ sess'[r] = sess'[Channel0(r[1])]
                  \/ life'[sess'[Channel0(r[1])]] \in {"unmapped", "released"}
    <3> DEFINE d == r[1]
               z == sess[Channel0(d)]
    <3>1. d \in Sid /\ Channel0(d) \in Request /\ dial[d] \in {"rest", "up"}
      BY <2>3 DEF BondIInv, FirstIsFirst, Arrived
    <3>2. z # None
      BY <3>1 DEF BondIInv, FirstIsFirst, Answers
    <3>3. z \in Session /\ life[z] # "unused" /\ sid[z] = d /\ sess'[Channel0(d)] = z
      BY <1>1, <3>1, <3>2 DEF BondIInv, Owned, IInv, TypeOK, Frame
    <3>4. mapped[d] = z \/ life[z] \in {"unmapped", "released"}
      BY <3>1, <3>3 DEF BondIInv, IInv, TypeOK, MapExact, Holding
    <3>5. CASE life[z] \in {"unmapped", "released"}
      BY <1>1, <3>2, <3>3, <3>5 DEF Frame
    <3>6. CASE mapped[d] = z
      <4>1. Join(r)
        BY <2>3, <3>2, <3>6 DEF Create
      <4>2. sess'[r] = z
        BY <4>1, <3>6 DEF Join, BondIInv, IInv, TypeOK
      <4> QED BY <3>2, <3>3, <4>2
    <3> QED BY <3>4, <3>5, <3>6
  <2>4. ASSUME NEW r \in Request, Join(r) \/ \E s \in Session : Create(r, s)
        PROVE  \A q \in Request : q # r => sess'[q] = sess[q]
    BY <2>4 DEF Join, Create, BondIInv, IInv, TypeOK
  <2>5. ASSUME NEW r \in Request, Arrived(r), Join(r) \/ \E s \in Session : Create(r, s)
        PROVE  Grouped'
    BY <2>1, <2>3, <2>4, <2>5 DEF Grouped
  <2> QED BY <2>2, <2>5
<1> QED BY <1>1, <1>2, <1>3, <1>4 DEF BondIInv

-----------------------------------------------------------------------------
(* The client.                                                             *)

\* A step of the client leaves the server as it is.
LEMMA ClientAlone ==
  ASSUME BondIInv, UNCHANGED vars
  PROVE  IInv' /\ Owned' /\ Grouped'
<1>1. IInv'
  BY ServerIInv DEF BondIInv, ServerStep
<1>2. Owned' /\ Grouped'
  BY DEF BondIInv, Owned, Grouped, vars, objs
<1> QED BY <1>1, <1>2

\* The client's channels stand in the same tunnels as before.
LEMMA AddedKept ==
  ASSUME BondIInv, tun' = tun,
         \A r \in Request : hop'[r] = "added" <=> hop[r] = "added"
  PROVE  OpenWhileAdded'
<1>1. \A d \in Sid : Added(d)' = Added(d)
  BY DEF Added
<1> QED BY <1>1 DEF BondIInv, OpenWhileAdded

\* dialChannel.
LEMMA DiallingStep ==
  ASSUME BondIInv, NEW r \in Request, Dialling(r)
  PROVE  BondIInv'
<1> USE Channels
<1>1. PICK from, to \in {"connecting", "unreached", "requested", "failed", "ready"} :
        Moves(r, from, to) /\ (to = "ready" => reply[r] # NoReply)
  BY DEF Dialling, Connect, ConnectFails, Answered, Rejected, TimedOut
<1>2. /\ UNCHANGED <<vars, dial, reply, lease, tun>> /\ hop[r] = from /\ hop'[r] = to
      /\ \A q \in Request : q # r => hop'[q] = hop[q]
      /\ hop' = [hop EXCEPT ![r] = to]
  BY <1>1 DEF Moves, BondIInv, ClientTypes
<1>3. IInv' /\ Owned' /\ Grouped'
  BY <1>2, ClientAlone
<1>4. ClientTypes'
  BY <1>2 DEF BondIInv, ClientTypes
<1>5. Answers'
  BY <1>1, <1>2 DEF BondIInv, Answers, vars, objs
<1>6. FirstIsFirst'
  BY <1>1, <1>2 DEF BondIInv, FirstIsFirst
<1>7. OpenWhileAdded'
  BY <1>1, <1>2, AddedKept
<1> QED BY <1>3, <1>4, <1>5, <1>6, <1>7 DEF BondIInv

\* Dial begins.
LEMMA StartStep ==
  ASSUME BondIInv, NEW d \in Sid, Start(d)
  PROVE  BondIInv'
<1> USE Channels
<1>1. /\ UNCHANGED <<vars, reply, lease, tun>> /\ dial[d] = "idle"
      /\ dial' = [dial EXCEPT ![d] = "first"]
      /\ hop' = [hop EXCEPT ![Channel0(d)] = "connecting"]
  BY DEF Start
<1>2. \A r \in Request : r[1] = d => hop[r] = "idle"
  BY <1>1 DEF BondIInv, FirstIsFirst
<1>3. /\ dial'[d] = "first" /\ \A e \in Sid : e # d => dial'[e] = dial[e]
      /\ hop'[Channel0(d)] = "connecting" /\ \A r \in Request : r # Channel0(d) => hop'[r] = hop[r]
  BY <1>1 DEF BondIInv, ClientTypes
<1>4. IInv' /\ Owned' /\ Grouped'
  BY <1>1, ClientAlone
<1>5. ClientTypes'
  BY <1>1 DEF BondIInv, ClientTypes
<1>6. Answers'
  BY <1>1, <1>3 DEF BondIInv, Answers, vars, objs
<1>7. FirstIsFirst'
  BY <1>1, <1>2, <1>3 DEF BondIInv, FirstIsFirst
<1>8. OpenWhileAdded'
  BY <1>1, <1>2, <1>3, AddedKept
<1> QED BY <1>4, <1>5, <1>6, <1>7, <1>8 DEF BondIInv

\* Dial returns.
LEMMA DialEndsStep ==
  ASSUME BondIInv, NEW d \in Sid, DialFails(d) \/ DialDone(d)
  PROVE  BondIInv'
<1> USE Channels
<1>1. UNCHANGED <<vars, hop, reply, lease, tun>>
  BY DEF DialFails, DialDone
<1>2. PICK k \in {"up", "failed"} :
        /\ dial' = [dial EXCEPT ![d] = k]
        /\ k = "up" => dial[d] = "rest"
        /\ k = "failed" => dial[d] = "first" /\ hop[Channel0(d)] \in {"unreached", "failed"}
  BY DEF DialFails, DialDone
<1>3. dial'[d] = k /\ \A e \in Sid : e # d => dial'[e] = dial[e]
  BY <1>2 DEF BondIInv, ClientTypes
<1>4. IInv' /\ Owned' /\ Grouped'
  BY <1>1, ClientAlone
<1>5. ClientTypes'
  BY <1>1, <1>2 DEF BondIInv, ClientTypes
<1>6. Answers' /\ OpenWhileAdded'
  BY <1>1, AddedKept DEF BondIInv, Answers, vars, objs
<1>7. FirstIsFirst'
  BY <1>1, <1>2, <1>3 DEF BondIInv, FirstIsFirst
<1> QED BY <1>4, <1>5, <1>6, <1>7 DEF BondIInv

\* Channel 0 is up: the tunnel and the lease exist, the others are dialled.
LEMMA FirstUpStep ==
  ASSUME BondIInv, NEW d \in Sid, FirstUp(d)
  PROVE  BondIInv'
<1> USE Channels
<1>1. /\ UNCHANGED <<vars, reply>> /\ dial[d] = "first" /\ hop[Channel0(d)] = "ready"
      /\ dial' = [dial EXCEPT ![d] = "rest"] /\ tun' = [tun EXCEPT ![d] = "open"]
      /\ lease' = [lease EXCEPT ![d] = reply[Channel0(d)].addr]
  BY DEF FirstUp
<1>2. /\ hop'[Channel0(d)] = "added"
      /\ \A r \in Request : r[1] = d /\ r[2] # First => hop'[r] = "connecting"
      /\ \A r \in Request : r[1] # d => hop'[r] = hop[r]
      /\ hop' \in [Request -> {"idle", "connecting", "unreached", "requested", "failed",
                               "ready", "added", "gone"}]
  <2>1. \A r \in Request : r \in Rest(d) <=> r[1] = d /\ r[2] # First
    BY DEF Rest
  <2>2. hop' = [r \in Request |-> IF r = Channel0(d) THEN "added"
                                  ELSE IF r \in Rest(d) THEN "connecting" ELSE hop[r]]
    <3>1. Channel0(d) \notin Rest(d)
      BY <2>1
    <3>2. \A r \in Request : (CASE r = Channel0(d) -> "added"
                                [] r \in Rest(d) -> "connecting"
                                [] OTHER -> hop[r])
                             = IF r = Channel0(d) THEN "added"
                               ELSE IF r \in Rest(d) THEN "connecting" ELSE hop[r]
      BY <3>1
    <3> QED BY <3>2 DEF FirstUp
  <2> QED BY <2>1, <2>2 DEF BondIInv, ClientTypes
<1>3. /\ dial'[d] = "rest" /\ tun'[d] = "open" /\ lease'[d] = reply[Channel0(d)].addr
      /\ \A e \in Sid : e # d => dial'[e] = dial[e] /\ tun'[e] = tun[e] /\ lease'[e] = lease[e]
  BY <1>1 DEF BondIInv, ClientTypes
<1>4. \A r \in Request : r[1] = d => r = Channel0(d) \/ r[2] # First
  OBVIOUS
<1>5. IInv' /\ Owned' /\ Grouped'
  BY <1>1, ClientAlone
<1>6. ClientTypes'
  BY <1>1, <1>2 DEF BondIInv, ClientTypes
<1>7. Answers'
  BY <1>1, <1>2, <1>4 DEF BondIInv, Answers, vars, objs
<1>8. FirstIsFirst'
  BY <1>1, <1>2, <1>3, <1>4 DEF BondIInv, FirstIsFirst
<1>9. OpenWhileAdded'
  <2>1. \A e \in Sid : e # d => Added(e)' = Added(e)
    BY <1>2 DEF Added
  <2>2. Channel0(d) \in Added(d)'
    BY <1>2 DEF Added
  <2> QED BY <1>3, <2>1, <2>2 DEF BondIInv, OpenWhileAdded
<1> QED BY <1>5, <1>6, <1>7, <1>8, <1>9 DEF BondIInv

\* Another channel is up.
LEMMA CollectStep ==
  ASSUME BondIInv, NEW r \in Request, Collect(r)
  PROVE  BondIInv'
<1> USE Channels
<1>1. /\ UNCHANGED <<vars, dial, reply, lease, tun>> /\ hop[r] = "ready" /\ dial[r[1]] = "rest"
      /\ hop' = [hop EXCEPT ![r] = IF tun[r[1]] = "open" THEN "added" ELSE "gone"]
  BY DEF Collect
<1>2. /\ hop'[r] = IF tun[r[1]] = "open" THEN "added" ELSE "gone"
      /\ \A q \in Request : q # r => hop'[q] = hop[q]
  BY <1>1 DEF BondIInv, ClientTypes
<1>3. IInv' /\ Owned' /\ Grouped'
  BY <1>1, ClientAlone
<1>4. ClientTypes'
  BY <1>1 DEF BondIInv, ClientTypes
<1>5. Answers'
  BY <1>1, <1>2 DEF BondIInv, Answers, vars, objs
<1>6. FirstIsFirst'
  BY <1>1, <1>2 DEF BondIInv, FirstIsFirst
<1>7. OpenWhileAdded'
  <2>1. CASE tun[r[1]] = "open"
    <3>1. \A d \in Sid : Added(d)' = IF d = r[1] THEN Added(d) \cup {r} ELSE Added(d)
      BY <1>2, <2>1 DEF Added
    <3> QED BY <1>1, <2>1, <3>1 DEF BondIInv, OpenWhileAdded
  <2>2. CASE tun[r[1]] # "open"
    BY <1>1, <1>2, <2>2, AddedKept
  <2> QED BY <2>1, <2>2
<1> QED BY <1>3, <1>4, <1>5, <1>6, <1>7 DEF BondIInv

\* Channels leave the client's tunnel.
LEMMA LostStep ==
  ASSUME BondIInv, NEW d \in Sid, NEW gone \in SUBSET Added(d), Lost(d, gone)
  PROVE  BondIInv'
<1> USE Channels
<1>1. /\ UNCHANGED <<vars, dial, reply, lease>>
      /\ hop' = [r \in Request |-> IF r \in gone THEN "gone" ELSE hop[r]]
      /\ tun' = [tun EXCEPT ![d] = IF Added(d) \subseteq gone THEN "closed" ELSE @]
  BY DEF Lost
<1>2. \A r \in gone : r \in Request /\ r[1] = d /\ hop[r] = "added"
  BY DEF Added
<1>3. IInv' /\ Owned' /\ Grouped'
  BY <1>1, ClientAlone
<1>4. ClientTypes'
  BY <1>1 DEF BondIInv, ClientTypes
<1>5. Answers'
  BY <1>1, <1>2 DEF BondIInv, Answers, vars, objs
<1>6. FirstIsFirst'
  BY <1>1, <1>2 DEF BondIInv, FirstIsFirst
<1>7. OpenWhileAdded'
  <2>1. \A e \in Sid : Added(e)' = IF e = d THEN Added(d) \ gone ELSE Added(e)
    BY <1>1, <1>2 DEF Added
  <2>2. /\ tun'[d] = IF Added(d) \subseteq gone THEN "closed" ELSE tun[d]
        /\ \A e \in Sid : e # d => tun'[e] = tun[e]
    BY <1>1 DEF BondIInv, ClientTypes
  <2>3. (Added(d) \subseteq gone) <=> Added(d)' = {}
    BY <2>1
  <2> QED BY <2>1, <2>2, <2>3 DEF BondIInv, OpenWhileAdded
<1> QED BY <1>3, <1>4, <1>5, <1>6, <1>7 DEF BondIInv

\* Upgrade writes the response.
LEMMA RespondStep ==
  ASSUME BondIInv, NEW r \in Request, Respond(r)
  PROVE  BondIInv'
<1> USE Channels, SessionsAssumption
<1> DEFINE e == [addr |-> addr[sess[r]], eph |-> <<"server", r>>]
<1>1. /\ UNCHANGED <<vars, dial, hop, lease, tun>> /\ pc[r] = "upgrading" /\ reply[r] = NoReply
      /\ reply' = [reply EXCEPT ![r] = e]
  BY DEF Respond
<1>2. sess[r] \in Session /\ sess[r] # None /\ addr[sess[r]] \in Addr
  BY <1>1 DEF BondIInv, IInv, Fresh
<1>3. e \in [addr : Addr \cup {0}, eph : {None} \cup ({"server"} \X Request)]
  BY <1>2
<1>4. reply'[r] = e /\ \A q \in Request : q # r => reply'[q] = reply[q]
  BY <1>1 DEF BondIInv, ClientTypes
<1>5. e # NoReply /\ e.addr = addr[sess[r]] /\ e.eph = <<"server", r>>
  BY <1>2 DEF NoReply, Addr
<1> HIDE DEF e
<1>6. IInv' /\ Owned' /\ Grouped'
  BY <1>1, ClientAlone
<1>7. ClientTypes'
  BY <1>1, <1>3 DEF BondIInv, ClientTypes
<1>8. Answers'
  BY <1>1, <1>2, <1>4, <1>5 DEF BondIInv, Answers, vars, objs
<1>9. FirstIsFirst'
  <2>1. \A d \in Sid : dial[d] \in {"rest", "up"} => Channel0(d) # r
    BY <1>1 DEF BondIInv, FirstIsFirst, Answers
  <2> QED BY <1>1, <1>4, <2>1 DEF BondIInv, FirstIsFirst
<1>10. OpenWhileAdded'
  BY <1>1, AddedKept
<1> QED BY <1>6, <1>7, <1>8, <1>9, <1>10 DEF BondIInv

-----------------------------------------------------------------------------

LEMMA InitBondIInv == BondInit => BondIInv
<1> SUFFICES ASSUME BondInit PROVE BondIInv
  OBVIOUS
<1> USE SessionsAssumption, Channels DEF BondInit
<1>1. IInv
  BY InitIInv
<1>2. ClientTypes
  BY DEF ClientTypes, NoReply
<1>3. Owned /\ Grouped
  BY DEF Init, Owned, Grouped
<1>4. Answers /\ FirstIsFirst /\ OpenWhileAdded
  BY DEF Answers, FirstIsFirst, OpenWhileAdded, Added
<1> QED BY <1>1, <1>2, <1>3, <1>4 DEF BondIInv

\* Every step of either end keeps the invariant.
LEMMA NextBondIInv == BondIInv /\ [BondNext]_bvars => BondIInv'
<1> SUFFICES ASSUME BondIInv, [BondNext]_bvars PROVE BondIInv'
  OBVIOUS
<1>1. ASSUME NEW d \in Sid, Start(d) \/ DialFails(d) \/ FirstUp(d) \/ DialDone(d) PROVE BondIInv'
  BY <1>1, StartStep, DialEndsStep, FirstUpStep
<1>2. ASSUME NEW d \in Sid, Hangup(d) PROVE BondIInv'
  BY <1>2, LostStep DEF Hangup
<1>3. ASSUME NEW r \in Request, Dialling(r) \/ Collect(r) \/ Respond(r) PROVE BondIInv'
  BY <1>3, DiallingStep, CollectStep, RespondStep
<1>4. ASSUME NEW r \in Request, Drop(r) PROVE BondIInv'
  <2>1. r[1] \in Sid /\ {r} \in SUBSET Added(r[1])
    BY <1>4, Channels DEF Drop, Added
  <2> QED BY <1>4, <2>1, LostStep DEF Drop
<1>5. ASSUME NEW r \in Request, Admit(r) PROVE BondIInv'
  <2>1. ServerStep /\ UNCHANGED cvars
    BY <1>5 DEF Admit, ServerStep, Next, Serve
  <2>2. CASE Exhausted(r)
    <3>1. sess' = sess
      BY <2>2 DEF Exhausted
    <3> QED BY <2>1, <3>1, ServerSide
  <2>3. CASE ~Exhausted(r)
    <3>1. Arrived(r) /\ (Join(r) \/ \E s \in Session : Create(r, s))
      BY <1>5, <2>3 DEF Admit
    <3> QED BY <2>1, <3>1, ServerSide
  <2> QED BY <2>2, <2>3
<1>6. ASSUME NEW r \in Request, Denied(r) PROVE BondIInv'
  <2>1. ServerStep /\ UNCHANGED cvars /\ sess' = sess
    BY <1>6 DEF Denied, ServerStep, cvars
  <2> QED BY <2>1, ServerSide
<1>7. ASSUME NEW r \in Request, Attach(r) \/ Cut(r) PROVE BondIInv'
  <2>1. ServerStep /\ UNCHANGED cvars
    BY <1>7 DEF Attach, Cut, ServerStep, Next, Serve
  <2>2. sess' = sess
    BY <1>7 DEF Attach, Cut, Upgraded, UpgradeFails, Break
  <2> QED BY <2>1, <2>2, ServerSide
<1>8. ASSUME Background PROVE BondIInv'
  <2>1. ServerStep /\ UNCHANGED cvars
    BY <1>8 DEF Background, ServerStep, Next
  <2>2. sess' = sess
    BY <1>8 DEF Background, Dying, MarkClosed, CloseDead, Unmap, Release, Advance, Handling,
                Register, ReadFails, DevFails, Unregister, Keepalive, Lookup, Written, WriteFails
  <2> QED BY <2>1, <2>2, ServerSide
<1>9. ASSUME UNCHANGED bvars PROVE BondIInv'
  <2>1. ServerStep /\ UNCHANGED cvars /\ sess' = sess
    BY <1>9 DEF bvars, vars, ServerStep
  <2> QED BY <2>1, ServerSide
<1> QED BY <1>1, <1>2, <1>3, <1>4, <1>5, <1>6, <1>7, <1>8, <1>9 DEF BondNext

LEMMA BondInvariance == BondSpec => []BondIInv
BY InitBondIInv, NextBondIInv, PTL DEF BondSpec

\* Both ends keep their types; the gateway's address is never leased, and the
\* client's tunnel is open exactly while it has a channel.
THEOREM BondTypeCorrect == BondSpec => []BondTypeOK
<1>1. BondIInv => BondTypeOK
  <2> SUFFICES ASSUME BondIInv PROVE BondTypeOK
    OBVIOUS
  <2>1. ASSUME NEW r \in Request, reply[r] # NoReply PROVE reply[r].addr \in Addr \ {Gateway}
    <3>1. sess[r] \in Session /\ life[sess[r]] # "unused"
      BY <2>1, SessionsAssumption DEF BondIInv, IInv, TypeOK, Answers, Owned
    <3> QED BY <2>1, <3>1 DEF BondIInv, IInv, Fresh, Owned, Answers
  <2> QED BY <2>1 DEF BondTypeOK, BondIInv, IInv, ClientTypes, OpenWhileAdded
<1> QED BY <1>1, BondInvariance, PTL

\* Every channel of a client's tunnel leads to the address the client was
\* leased, on the session of channel 0, unless that session was over.
THEOREM ChannelsAreOneLink == BondSpec => []OneLink
<1>1. BondIInv => OneLink
  <2> SUFFICES ASSUME BondIInv, NEW r \in Request, hop[r] = "added"
               PROVE  \/ reply[r].addr = lease[r[1]] /\ sess[r] = sess[Channel0(r[1])]
                      \/ life[sess[Channel0(r[1])]] \in {"unmapped", "released"}
    BY DEF OneLink
  <2> DEFINE z == Channel0(r[1])
  <2>1. r[1] \in Sid /\ z \in Request /\ (r[2] = First => r = z)
    BY Channels
  <2>2. dial[r[1]] \in {"rest", "up"}
    BY DEF BondIInv, FirstIsFirst
  <2>3. hop[z] \in {"added", "gone"} /\ lease[r[1]] = reply[z].addr
    BY <2>1, <2>2 DEF BondIInv, FirstIsFirst
  <2>4. /\ reply[r].addr = addr[sess[r]] /\ reply[z].addr = addr[sess[z]] /\ sess[r] # None
    BY <2>1, <2>3 DEF BondIInv, Answers
  <2>5. sess[r] = sess[z] \/ life[sess[z]] \in {"unmapped", "released"}
    BY <2>1, <2>4 DEF BondIInv, Grouped
  <2> QED BY <2>3, <2>4, <2>5
<1> QED BY <1>1, BondInvariance, PTL

\* combineDH and DeriveSessionKeys give both ends the same keys, crossed, when
\* each uses its own ephemeral key and the other's.
LEMMA KeysMatch ==
  ASSUME NEW c, NEW e, NEW st, NEW d, NEW i
  PROVE  /\ ClientKeys(c, e, st, d, i).tx = ServerKeys(e, c, st, d, i).rx
         /\ ClientKeys(c, e, st, d, i).rx = ServerKeys(e, c, st, d, i).tx
         /\ ClientKeys(c, e, st, d, i).tx # ClientKeys(c, e, st, d, i).rx
<1>1. {c, e} = {e, c} /\ {c, st} = {st, c}
  OBVIOUS
<1> QED BY <1>1 DEF ClientKeys, ServerKeys, DeriveSessionKeys, CombineDH, DH, ChannelSalt, HKDF

\* Keys of channels with different client ephemerals differ.
LEMMA KeysApart ==
  ASSUME NEW c, NEW e, NEW st, NEW d, NEW i, NEW c2, NEW e2, NEW d2, NEW i2, c # c2
  PROVE  LET k == ClientKeys(c, e, st, d, i)
             l == ClientKeys(c2, e2, st, d2, i2)
         IN  {k.tx, k.rx} \cap {l.tx, l.rx} = {}
BY DEF ClientKeys, DeriveSessionKeys, ChannelSalt, HKDF

\* The two ends of an attached channel hold the same two keys with the
\* directions swapped, and no key is used twice.
THEOREM EndsShareKeys == BondSpec => []KeysPaired
<1>1. BondIInv => KeysPaired
  <2> SUFFICES ASSUME BondIInv PROVE KeysPaired
    OBVIOUS
  <2>1. \A r \in Request : BothLive(r) => reply[r].eph = <<"server", r>>
    BY DEF BondIInv, Answers, BothLive
  <2>2. ASSUME NEW r \in Request, BothLive(r)
        PROVE  /\ KeysAtClient(r).tx = KeysAtServer(r).rx
               /\ KeysAtClient(r).rx = KeysAtServer(r).tx
               /\ KeysAtClient(r).tx # KeysAtClient(r).rx
    <3>1. KeysAtClient(r) = ClientKeys(<<"client", r>>, <<"server", r>>, StaticKey, r[1], r[2])
      BY <2>1, <2>2 DEF KeysAtClient
    <3> QED BY <3>1, KeysMatch DEF KeysAtServer
  <2>3. ASSUME NEW r \in Request, NEW q \in Request, r # q
        PROVE  {KeysAtClient(r).tx, KeysAtClient(r).rx}
                 \cap {KeysAtClient(q).tx, KeysAtClient(q).rx} = {}
    <3>1. <<"client", r>> # <<"client", q>>
      BY <2>3
    <3> QED BY <3>1, KeysApart DEF KeysAtClient
  <2> QED BY <2>2, <2>3 DEF KeysPaired
<1> QED BY <1>1, BondInvariance, PTL

\* The server's tables stay consistent with clients that give up, hang up or
\* lose their connections at any moment.
THEOREM TablesConsistentUnderBond ==
  BondSpec => [](AddressExclusive /\ MapExact /\ RouteHasHandler)
<1>1. BondIInv => AddressExclusive /\ MapExact /\ RouteHasHandler
  BY DEF BondIInv, IInv
<1> QED BY <1>1, BondInvariance, PTL
=============================================================================
