-------------------------------- MODULE Bond --------------------------------
(***************************************************************************)
(* A client's Dial and dialChannel (internal/transport/client.go) composed *)
(* with the server's sessions: each channel of a bonded tunnel is its own  *)
(* TCP connection, request and response, and either end may lose it        *)
(* without the other knowing.                                              *)
(*                                                                         *)
(* A client is named by the sid it drew.  Its channel First is dialled     *)
(* alone and brings the address, the others follow in parallel.  The server*)
(* may work on a request its client has given up, and attach a channel     *)
(* after the client has seen the response.                                 *)
(***************************************************************************)
EXTENDS ServerSessions, KeyAgreement

CONSTANT First   \* channel 0

ASSUME BondAssumption ==
  /\ First \in Index
  /\ \A d \in Sid : <<d, First>> \in Request

VARIABLES
  dial,    \* each client's Dial: idle, first, rest, up, failed
  hop,     \* each dialChannel: idle, connecting, unreached, requested, failed,
           \* ready; then added to the client's tunnel, gone from it
  reply,   \* the response headers sent for each request
  lease,   \* the assignment Dial returns
  tun      \* the client's tunnel: none, open, closed

cvars == <<dial, hop, reply, lease, tun>>
bvars == <<vars, cvars>>

NoReply == [addr |-> 0, eph |-> None]
Channel0(d) == <<d, First>>
Rest(d) == {r \in Request : r[1] = d /\ r[2] # First}

BondInit ==
  /\ Init
  /\ dial = [d \in Sid |-> "idle"]
  /\ hop = [r \in Request |-> "idle"]
  /\ reply = [r \in Request |-> NoReply]
  /\ lease = [d \in Sid |-> 0]
  /\ tun = [d \in Sid |-> "none"]

-----------------------------------------------------------------------------
(* dialChannel.                                                            *)

Moves(r, from, to) ==
  /\ hop[r] = from
  /\ hop' = [hop EXCEPT ![r] = to]
  /\ UNCHANGED <<vars, dial, reply, lease, tun>>

\* TCP and TLS are up, the pin matches; the request goes out.
Connect(r) == Moves(r, "connecting", "requested")

\* TCP, TLS or the pin fails, within 10 s and 12 s.
ConnectFails(r) == Moves(r, "connecting", "unreached")

\* 101 and the headers: the deadline is cleared, the keys are derived.
Answered(r) == reply[r] # NoReply /\ Moves(r, "requested", "ready")

\* The decoy answered, or the server closed.
Rejected(r) == pc[r] = "refused" /\ reply[r] = NoReply /\ Moves(r, "requested", "failed")

\* The deadline, or the connection breaks.
TimedOutNever(r) == FALSE
TimedOut(r) == Moves(r, "requested", "failed")

-----------------------------------------------------------------------------
(* Dial.                                                                   *)

Start(d) ==
  /\ dial[d] = "idle"
  /\ dial' = [dial EXCEPT ![d] = "first"]
  /\ hop' = [hop EXCEPT ![Channel0(d)] = "connecting"]
  /\ UNCHANGED <<vars, reply, lease, tun>>

DialFails(d) ==
  /\ dial[d] = "first" /\ hop[Channel0(d)] \in {"unreached", "failed"}
  /\ dial' = [dial EXCEPT ![d] = "failed"]
  /\ UNCHANGED <<vars, hop, reply, lease, tun>>

\* newTunnel, addChannel(0), and a goroutine for each other channel.
FirstUp(d) ==
  /\ dial[d] = "first" /\ hop[Channel0(d)] = "ready"
  /\ dial' = [dial EXCEPT ![d] = "rest"]
  /\ tun' = [tun EXCEPT ![d] = "open"]
  /\ lease' = [lease EXCEPT ![d] = reply[Channel0(d)].addr]
  /\ hop' = [r \in Request |-> CASE r = Channel0(d) -> "added"
                                 [] r \in Rest(d) -> "connecting"
                                 [] OTHER -> hop[r]]
  /\ UNCHANGED <<vars, reply>>

\* addChannel: a tunnel that has died meanwhile closes the connection.
Collect(r) ==
  /\ hop[r] = "ready" /\ dial[r[1]] = "rest"
  /\ hop' = [hop EXCEPT ![r] = IF tun[r[1]] = "open" THEN "added" ELSE "gone"]
  /\ UNCHANGED <<vars, dial, reply, lease, tun>>

DialDone(d) ==
  /\ dial[d] = "rest"
  /\ \A r \in Rest(d) : hop[r] \notin {"connecting", "requested", "ready"}
  /\ dial' = [dial EXCEPT ![d] = "up"]
  /\ UNCHANGED <<vars, hop, reply, lease, tun>>

-----------------------------------------------------------------------------
(* The client's tunnel: a channel breaks, the last one takes it down; the  *)
(* client closes it.                                                       *)

Added(d) == {r \in Request : r[1] = d /\ hop[r] = "added"}

LostQuietly(d, gone) ==
  /\ hop' = [r \in Request |-> IF r \in gone THEN "gone" ELSE hop[r]]
  /\ UNCHANGED <<vars, dial, reply, lease, tun>>

Lost(d, gone) ==
  /\ hop' = [r \in Request |-> IF r \in gone THEN "gone" ELSE hop[r]]
  /\ tun' = [tun EXCEPT ![d] = IF Added(d) \subseteq gone THEN "closed" ELSE @]
  /\ UNCHANGED <<vars, dial, reply, lease>>

Drop(r) == hop[r] = "added" /\ Lost(r[1], {r})

Hangup(d) == dial[d] = "up" /\ tun[d] = "open" /\ Lost(d, Added(d))

-----------------------------------------------------------------------------
(* The server, on requests that were sent.                                 *)

Arrived(r) == hop[r] \notin {"idle", "connecting", "unreached"}

Admit(r) ==
  /\ Arrived(r)
  /\ (\E s \in Session : Create(r, s)) \/ Join(r) \/ Exhausted(r)
  /\ UNCHANGED cvars

\* checkAuth or the path refuses the request.
Denied(r) ==
  /\ Arrived(r) /\ pc[r] = "new"
  /\ pc' = [pc EXCEPT ![r] = "refused"]
  /\ UNCHANGED <<mapped, pool, routes, objs, life, conn, sess, target, cvars>>

\* Upgrade writes the response before combineDH, newConn and addChannel.
Respond(r) ==
  /\ pc[r] = "upgrading" /\ reply[r] = NoReply
  /\ reply' = [reply EXCEPT ![r] = [addr |-> addr[sess[r]], eph |-> <<"server", r>>]]
  /\ UNCHANGED <<vars, dial, hop, lease, tun>>

Attach(r) == reply[r] # NoReply /\ Upgraded(r) /\ UNCHANGED cvars

Cut(r) == (UpgradeFails(r) \/ Break(r)) /\ UNCHANGED cvars

Background ==
  /\ \/ \E s \in Session : Dying(s) \/ Handling(s)
     \/ \E a \in Addr : Lookup(a)
     \/ Written \/ WriteFails
  /\ UNCHANGED cvars

Dialling(r) ==
  Connect(r) \/ ConnectFails(r) \/ Answered(r) \/ Rejected(r) \/ TimedOut(r)

BondNext ==
  \/ \E d \in Sid : Start(d) \/ DialFails(d) \/ FirstUp(d) \/ DialDone(d) \/ Hangup(d)
  \/ \E r \in Request : Dialling(r) \/ Collect(r) \/ Drop(r)
  \/ \E r \in Request : Admit(r) \/ Denied(r) \/ Respond(r) \/ Attach(r) \/ Cut(r)
  \/ Background

BondSpec == BondInit /\ [][BondNext]_bvars

(***************************************************************************)
(* Timeouts pass and goroutines run, on both ends; an end whose peer has   *)
(* closed the connection notices (a read fails, at the latest by the 60 s  *)
(* read deadline).  On the server that takes a handler that drains inbound:*)
(* once handleConn has returned on a TUN write error, a readLoop may block *)
(* on the full queue for ever and never read the close, and the keepalive  *)
(* has gone too.  Requests may be lost and links stay half open.           *)
(***************************************************************************)
BondFairness ==
  /\ \A r \in Request :
       /\ WF_bvars(Dialling(r)) /\ WF_bvars(Collect(r))
       /\ WF_bvars(Drop(r) /\ pc[r] \in {"left", "refused"})
       /\ WF_bvars(Respond(r)) /\ WF_bvars(Attach(r) \/ (UpgradeFails(r) /\ UNCHANGED cvars))
       /\ WF_bvars(/\ Break(r) /\ hop[r] \in {"failed", "gone"}
                   /\ conn[sess[r]] \in {"starting", "running"} /\ UNCHANGED cvars)
  /\ \A d \in Sid : WF_bvars(DialFails(d) \/ FirstUp(d) \/ DialDone(d))
  /\ \A s \in Session :
       /\ WF_bvars(Dying(s) /\ UNCHANGED cvars)
       /\ WF_bvars((Register(s) \/ ReadFails(s) \/ Unregister(s)) /\ UNCHANGED cvars)
       /\ WF_bvars(Keepalive(s) /\ UNCHANGED cvars)

BondFairSpec == BondSpec /\ BondFairness

-----------------------------------------------------------------------------
\* Types of the client's state.
BondTypeOK ==
  /\ TypeOK
  /\ dial \in [Sid -> {"idle", "first", "rest", "up", "failed"}]
  /\ hop \in [Request -> {"idle", "connecting", "unreached", "requested", "failed",
                          "ready", "added", "gone"}]
  /\ \A r \in Request : reply[r] = NoReply \/ reply[r].addr \in Addr \ {Gateway}
  /\ lease \in [Sid -> Addr \cup {0}]
  /\ tun \in [Sid -> {"none", "open", "closed"}]
  /\ \A d \in Sid : tun[d] = "open" <=> Added(d) # {}

(***************************************************************************)
(* Dial: "all sharing one session id so the server groups them into a      *)
(* single logical link".  A channel of the client's tunnel leads to the    *)
(* address the client was leased, except when the server had already given *)
(* up the session of channel 0 before the channel's request came.          *)
(***************************************************************************)
OneLink ==
  \A r \in Request : hop[r] = "added" =>
    \/ reply[r].addr = lease[r[1]] /\ sess[r] = sess[Channel0(r[1])]
    \/ life[sess[Channel0(r[1])]] \in {"unmapped", "released"}

(***************************************************************************)
(* The two ends of an attached channel hold the same two keys, with the    *)
(* directions swapped, and no key serves two channels or both directions   *)
(* (the nonce spaces of AEADStream stay apart).                            *)
(***************************************************************************)
StaticKey == <<"static", None>>
KeysAtClient(r) == ClientKeys(<<"client", r>>, reply[r].eph, StaticKey, r[1], r[2])
KeysAtServer(r) == ServerKeys(<<"server", r>>, <<"client", r>>, StaticKey, r[1], r[2])
BothLive(r) == hop[r] \in {"ready", "added"} /\ pc[r] = "attached"

KeysPaired ==
  /\ \A r \in Request : BothLive(r) =>
       /\ KeysAtClient(r).tx = KeysAtServer(r).rx
       /\ KeysAtClient(r).rx = KeysAtServer(r).tx
       /\ KeysAtClient(r).tx # KeysAtClient(r).rx
  /\ \A r, q \in Request : BothLive(r) /\ BothLive(q) /\ r # q =>
       {KeysAtClient(r).tx, KeysAtClient(r).rx}
         \cap {KeysAtClient(q).tx, KeysAtClient(q).rx} = {}

(***************************************************************************)
(* Dial returns, whatever the server does with its requests.               *)
(***************************************************************************)
DialReturns == \A d \in Sid : dial[d] \in {"first", "rest"} ~> dial[d] \in {"up", "failed"}

(***************************************************************************)
(* A client that failed to dial, or whose tunnel is closed, does not keep  *)
(* an address: the server releases every session of its sid, also one it   *)
(* created for a request the client had given up already.  Except one that *)
(* is forsaken: handleConn has returned on a TUN write error while channels*)
(* are attached, and nobody is sure to notice that their peer is gone.     *)
(***************************************************************************)
ClientGone(d) == dial[d] = "failed" \/ (dial[d] = "up" /\ tun[d] = "closed")

Forsaken(s) == conn[s] \in {"exiting", "done"} /\ Attached(s) # {}

GoneIsReleased ==
  \A d \in Sid, s \in Session :
    ClientGone(d) /\ sid[s] = d ~> ~Holding(s) \/ Forsaken(s)
=============================================================================
