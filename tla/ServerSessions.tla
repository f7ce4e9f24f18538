--------------------------- MODULE ServerSessions ---------------------------
(***************************************************************************)
(* Sessions on the server: Handler.sessions and ServeHTTP                  *)
(* (internal/transport/server.go), the address pool                        *)
(* (internal/server/pool.go) and Server.sessions with handleConn,          *)
(* keepalive, register, unregister and dispatch                            *)
(* (internal/server/server.go).                                            *)
(*                                                                         *)
(* Three tables refer to the same tunnel and are updated by different      *)
(* goroutines under different locks: sid -> session (Handler.mu), the free *)
(* addresses (ipPool.mu) and address -> tunnel (Server.mu).  A tunnel is   *)
(* seen through its life cycle, TunnelLife; onEmpty is two steps here,     *)
(* because it touches two of the tables one after the other.               *)
(*                                                                         *)
(* A request <<sid, i>> is channel i of a client's session, past checkAuth;*)
(* a client presents each once, so the cap on channels per session, which  *)
(* is the number of valid indices, never refuses one.                      *)
(***************************************************************************)
EXTENDS Integers, Sequences, FiniteSets

CONSTANTS
  Sid,      \* session ids that clients draw
  Index,    \* channel indices
  Request,  \* the channels <<sid, index>> that clients open
  Session,  \* serverSession objects, with their Tunnel and handleConn, numbered
  None,     \* no session
  Size,     \* addresses in the TUN subnet: 2^(32-prefix)
  Gateway   \* offset of the gateway's address in the subnet

ASSUME SessionsAssumption ==
  /\ Request \subseteq Sid \X Index
  /\ None \notin Session /\ None \notin Sid
  /\ Size \in Nat /\ Size >= 4 /\ Gateway \in Nat

ASSUME SessionsNumbered == Session \subseteq Nat

Addr == 1 .. Size - 2

VARIABLES
  mapped,   \* Handler.sessions
  free,     \* ipPool.free
  used,     \* ipPool.used
  routes,   \* Server.sessions
  sid,      \* the sid each session was created for
  addr,     \* its assigned address
  life,     \* its tunnel: unused, open, doomed, closed, dead, unmapped, released
  conn,     \* its handleConn: none, starting, running, exiting, done
  pc,       \* each request: new, upgrading, attached, left, or refused (it
            \* never was attached)
  sess,     \* the session it was given
  target    \* dispatch: the tunnel it is about to write to

pool == <<free, used>>
objs == <<sid, addr>>
vars == <<mapped, pool, routes, objs, life, conn, pc, sess, target>>

\* newIPPool: every host address but the gateway's, in ascending order.
FreshPool ==
  IF Gateway \in Addr
  THEN [i \in 1 .. Size - 3 |-> IF i < Gateway THEN i ELSE i + 1]
  ELSE [i \in Addr |-> i]

Init ==
  /\ mapped = [d \in Sid |-> None]
  /\ free = FreshPool /\ used = {}
  /\ routes = [a \in Addr |-> None]
  /\ sid = [s \in Session |-> None]
  /\ addr = [s \in Session |-> 0]
  /\ life = [s \in Session |-> "unused"]
  /\ conn = [s \in Session |-> "none"]
  /\ pc = [r \in Request |-> "new"]
  /\ sess = [r \in Request |-> None]
  /\ target = None

Attached(s) == {r \in Request : pc[r] = "attached" /\ sess[r] = s}

\* The tunnel loses the channels in gone, by removeChannel or Close.
Doomed(s) == IF life[s] = "open" THEN "doomed" ELSE life[s]

Lose(s, gone) ==
  /\ pc' = [r \in Request |-> IF r \in gone THEN "left" ELSE pc[r]]
  /\ life' = [life EXCEPT ![s] = IF Attached(s) \subseteq gone THEN Doomed(s) ELSE @]

-----------------------------------------------------------------------------
(* ipPool.alloc and its release closure.                                   *)

AllocPeek == free
AllocRest == SubSeq(free, 1, Len(free) - 1)

Alloc(s) ==
  /\ free # <<>>
  /\ addr' = [addr EXCEPT ![s] = free[Len(free)]]
  /\ free' = AllocRest
  /\ used' = used \cup {free[Len(free)]}

ReleaseAddr(a) ==
  /\ used' = used \ {a}
  /\ free' = IF a \in used THEN Append(free, a) ELSE free

-----------------------------------------------------------------------------
(* Handler.ServeHTTP, after checkAuth.                                     *)

\* Under h.mu: no session for this sid; allocate and create one (the next
\* object: which one is immaterial).
CreateUnshared(r, s) ==
  /\ pc[r] = "new"
  /\ life[s] = "unused"
  /\ Alloc(s)
  /\ mapped' = [mapped EXCEPT ![r[1]] = s]
  /\ sid' = [sid EXCEPT ![s] = r[1]]
  /\ life' = [life EXCEPT ![s] = "open"]
  /\ conn' = [conn EXCEPT ![s] = "starting"]
  /\ pc' = [pc EXCEPT ![r] = "upgrading"]
  /\ sess' = [sess EXCEPT ![r] = s]
  /\ UNCHANGED <<routes, target>>

Create(r, s) ==
  /\ pc[r] = "new" /\ mapped[r[1]] = None
  /\ life[s] = "unused" /\ \A t \in Session : life[t] = "unused" => s <= t
  /\ Alloc(s)
  /\ mapped' = [mapped EXCEPT ![r[1]] = s]
  /\ sid' = [sid EXCEPT ![s] = r[1]]
  /\ life' = [life EXCEPT ![s] = "open"]
  /\ conn' = [conn EXCEPT ![s] = "starting"]
  /\ pc' = [pc EXCEPT ![r] = "upgrading"]
  /\ sess' = [sess EXCEPT ![r] = s]
  /\ UNCHANGED <<routes, target>>

\* Under h.mu: join the session this sid has.
Join(r) ==
  /\ pc[r] = "new" /\ mapped[r[1]] # None
  /\ pc' = [pc EXCEPT ![r] = "upgrading"]
  /\ sess' = [sess EXCEPT ![r] = mapped[r[1]]]
  /\ UNCHANGED <<mapped, pool, routes, objs, life, conn, target>>

\* The pool is exhausted: the request gets the decoy.
Exhausted(r) ==
  /\ pc[r] = "new" /\ mapped[r[1]] = None
  /\ free = <<>>
  /\ pc' = [pc EXCEPT ![r] = "refused"]
  /\ UNCHANGED <<mapped, pool, routes, objs, life, conn, sess, target>>

\* Key generation, Upgrade, combineDH or newConn fails, or the client has gone.
UpgradeFails(r) ==
  /\ pc[r] = "upgrading"
  /\ pc' = [pc EXCEPT ![r] = "refused"]
  /\ UNCHANGED <<mapped, pool, routes, objs, life, conn, sess, target>>

AcceptsAlways(s) == TRUE
Accepts(s) == life[s] \in {"open", "doomed"}

\* addChannel attaches unless Tunnel.closed is set, else closes the conn.
Upgraded(r) ==
  /\ pc[r] = "upgrading"
  /\ pc' = [pc EXCEPT ![r] = IF Accepts(sess[r]) THEN "attached" ELSE "refused"]
  /\ UNCHANGED <<mapped, pool, routes, objs, life, conn, sess, target>>

\* A channel breaks: readLoop, WritePacket or WriteKeepalive removes it.
Break(r) ==
  /\ pc[r] = "attached"
  /\ Lose(sess[r], {r})
  /\ UNCHANGED <<mapped, pool, routes, objs, conn, sess, target>>

-----------------------------------------------------------------------------
(* Tunnel.markDead of session s, with the closure ServeHTTP gave it.       *)

Advance(s, from, to) ==
  /\ life[s] = from
  /\ life' = [life EXCEPT ![s] = to]
  /\ UNCHANGED <<routes, objs, conn, pc, sess, target>>

MarkClosed(s) == Advance(s, "doomed", "closed") /\ UNCHANGED <<mapped, pool>>
CloseDead(s)  == Advance(s, "closed", "dead")   /\ UNCHANGED <<mapped, pool>>

\* onEmpty: delete(h.sessions, sidKey), then release().
UnmapForgotten(s) == Advance(s, "dead", "unmapped") /\ UNCHANGED <<mapped, pool>>
Unmap(s) ==
  /\ Advance(s, "dead", "unmapped")
  /\ mapped' = [mapped EXCEPT ![sid[s]] = None]
  /\ UNCHANGED pool

Release(s) ==
  /\ Advance(s, "unmapped", "released")
  /\ ReleaseAddr(addr[s])
  /\ UNCHANGED mapped

-----------------------------------------------------------------------------
(* Server.handleConn and its keepalive goroutine.                          *)

Register(s) ==
  /\ conn[s] = "starting"
  /\ conn' = [conn EXCEPT ![s] = "running"]
  /\ routes' = [routes EXCEPT ![addr[s]] = s]
  /\ UNCHANGED <<mapped, pool, objs, life, pc, sess, target>>

DeadJust(s) == life[s] = "dead"
Dead(s) == life[s] \in {"dead", "unmapped", "released"}

\* ReadPacket reports the tunnel's death.
ReadFails(s) ==
  /\ conn[s] = "running" /\ Dead(s)
  /\ conn' = [conn EXCEPT ![s] = "exiting"]
  /\ UNCHANGED <<mapped, pool, routes, objs, life, pc, sess, target>>

\* dev.Write fails for a packet that one of this tunnel's channels brought.
DevFails(s) ==
  /\ conn[s] = "running"
  /\ \E r \in Request : sess[r] = s /\ pc[r] \in {"attached", "left"}
  /\ conn' = [conn EXCEPT ![s] = "exiting"]
  /\ UNCHANGED <<mapped, pool, routes, objs, life, pc, sess, target>>

UnregisterAny(s) ==
  /\ conn[s] = "exiting"
  /\ conn' = [conn EXCEPT ![s] = "done"]
  /\ UNCHANGED <<mapped, pool, routes, objs, life, pc, sess, target>>

Unregister(s) ==
  /\ conn[s] = "exiting"
  /\ conn' = [conn EXCEPT ![s] = "done"]
  /\ routes' = [routes EXCEPT ![addr[s]] = IF @ = s THEN None ELSE @]
  /\ UNCHANGED <<mapped, pool, objs, life, pc, sess, target>>

\* The ticker finds no channel at all and closes the tunnel.
KeepaliveNever(s) == FALSE
Keepalive(s) ==
  /\ conn[s] = "running" /\ Attached(s) = {}
  /\ life[s] = "open"
  /\ life' = [life EXCEPT ![s] = Doomed(s)]
  /\ UNCHANGED <<mapped, pool, routes, objs, conn, pc, sess, target>>

-----------------------------------------------------------------------------
(* Server.dispatch: look the destination up, then write outside the lock.  *)

Lookup(a) ==
  /\ target = None /\ routes[a] # None
  /\ target' = routes[a]
  /\ UNCHANGED <<mapped, pool, routes, objs, life, conn, pc, sess>>

Written ==
  /\ target # None /\ Attached(target) # {}
  /\ target' = None
  /\ UNCHANGED <<mapped, pool, routes, objs, life, conn, pc, sess>>

\* WritePacket fails, Close follows.
WriteFails ==
  /\ target # None
  /\ Lose(target, Attached(target))
  /\ target' = None
  /\ UNCHANGED <<mapped, pool, routes, objs, conn, sess>>

Serve(r) ==
  \/ \E s \in Session : Create(r, s)
  \/ Join(r) \/ Exhausted(r) \/ UpgradeFails(r) \/ Upgraded(r) \/ Break(r)

Dying(s) == MarkClosed(s) \/ CloseDead(s) \/ Unmap(s) \/ Release(s)

Handling(s) ==
  Register(s) \/ ReadFails(s) \/ DevFails(s) \/ Unregister(s) \/ Keepalive(s)

Next ==
  \/ \E r \in Request : Serve(r)
  \/ \E s \in Session : Dying(s) \/ Handling(s)
  \/ \E a \in Addr : Lookup(a)
  \/ Written \/ WriteFails

Spec == Init /\ [][Next]_vars

(***************************************************************************)
(* Runnable goroutines run: markDead, handleConn, the ticker, and the      *)
(* handler inside Upgrade (bounded by the HTTP server and the socket).     *)
(***************************************************************************)
Fairness ==
  /\ \A s \in Session :
       /\ WF_vars(Dying(s))
       /\ WF_vars(Register(s) \/ ReadFails(s) \/ Unregister(s))
       /\ WF_vars(Keepalive(s))
  /\ \A r \in Request : WF_vars(UpgradeFails(r) \/ Upgraded(r))

FairSpec == Spec /\ Fairness

-----------------------------------------------------------------------------
Lives == {"unused", "open", "doomed", "closed", "dead", "unmapped", "released"}

TypeOK ==
  /\ mapped \in [Sid -> Session \cup {None}]
  /\ free \in Seq(Addr \ {Gateway}) /\ used \subseteq Addr \ {Gateway}
  /\ routes \in [Addr -> Session \cup {None}]
  /\ sid \in [Session -> Sid \cup {None}]
  /\ addr \in [Session -> Addr \cup {0}]
  /\ life \in [Session -> Lives]
  /\ conn \in [Session -> {"none", "starting", "running", "exiting", "done"}]
  /\ pc \in [Request -> {"new", "upgrading", "attached", "left", "refused"}]
  /\ sess \in [Request -> Session \cup {None}]
  /\ target \in Session \cup {None}

Holding(s) == life[s] \in Lives \ {"unused", "released"}

(***************************************************************************)
(* An address belongs to at most one session at a time, and the pool       *)
(* neither loses nor duplicates one: what is not free is held by exactly   *)
(* one session between alloc and release.                                  *)
(***************************************************************************)
AddressExclusive ==
  /\ \A s, t \in Session : Holding(s) /\ Holding(t) /\ s # t => addr[s] # addr[t]
  /\ \A s \in Session : Holding(s) => addr[s] \in used
  /\ \A a \in used : \E s \in Session : Holding(s) /\ addr[s] = a
  /\ \A i \in 1 .. Len(free) : free[i] \notin used
  /\ \A i, j \in 1 .. Len(free) : free[i] = free[j] => i = j

(***************************************************************************)
(* Handler.sessions holds exactly the sessions whose onEmpty has not yet   *)
(* run, each under its own sid: delete(h.sessions, sidKey) never takes out *)
(* a successor, and a channel never joins a session that is released.      *)
(***************************************************************************)
MapExact ==
  \A d \in Sid, s \in Session :
    mapped[d] = s <=> sid[s] = d /\ Holding(s) /\ life[s] # "unmapped"

(***************************************************************************)
(* A route leads to a tunnel with this very address whose handleConn has   *)
(* not returned: unregister leaves no dangling entry behind, whoever       *)
(* overwrote whose registration.                                           *)
(***************************************************************************)
RouteHasHandler ==
  \A a \in Addr : routes[a] # None =>
    addr[routes[a]] = a /\ conn[routes[a]] \in {"running", "exiting"}

(***************************************************************************)
(* Each session's tunnel goes through the life cycle of TunnelLife.        *)
(***************************************************************************)
Life(s) == INSTANCE TunnelLife WITH
             Chan <- Request,
             members <- Attached(s),
             life <- CASE life[s] = "unused" -> "open"
                       [] life[s] = "unmapped" -> "dead"
                       [] OTHER -> life[s]

LifeSpec ==
  /\ \A s \in Session : Life(s)!Init
  /\ [][\A s \in Session : [Life(s)!Next]_(Life(s)!vars)]_vars

(***************************************************************************)
(* dispatch "routes each to the client that owns its destination address": *)
(* the address of a registered session whose tunnel is open has a route.   *)
(* (Nothing ever registers such a session again.)                          *)
(***************************************************************************)
LiveIsRouted ==
  \A s \in Session : conn[s] = "running" /\ life[s] = "open" => routes[addr[s]] # None

(***************************************************************************)
(* A session nobody uses does not keep its address: when its channels have *)
(* all gone, or none ever came up, it is released.                         *)
(***************************************************************************)
Unused(s) ==
  /\ Holding(s)
  /\ Attached(s) = {}
  /\ \A r \in Request : ~(pc[r] = "upgrading" /\ sess[r] = s)

UnusedIsReleased ==
  \A s \in Session : Unused(s) ~> ~Unused(s)

(***************************************************************************)
(* A released session's handleConn returns and its route disappears.       *)
(***************************************************************************)
HandlerEnds ==
  \A s \in Session :
    life[s] = "released" ~> (conn[s] = "done" /\ s \notin {routes[a] : a \in Addr})
=============================================================================
