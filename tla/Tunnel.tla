------------------------------- MODULE Tunnel -------------------------------
(***************************************************************************)
(* The bonded tunnel of internal/transport/tunnel.go and the goroutines    *)
(* that share it: one readLoop per channel, the writer (the server's       *)
(* dispatch, the client's TUN pump), the keepalive ticker, the consumer    *)
(* that calls ReadPacket, and an outside Close (the client's shutdown).    *)
(*                                                                         *)
(* An action is what happens between two points where another goroutine    *)
(* can run: a section under Tunnel.mu, a socket operation, a step of       *)
(* markDead.  removeChannel and Close unlock before they close sockets and *)
(* before markDead locks again; the model keeps these gaps.                *)
(*                                                                         *)
(* A client dials every channel index once per session, so an index stands *)
(* for its Conn.  Packets are counted, not told apart.                     *)
(***************************************************************************)
EXTENDS Integers, Sequences, FiniteSets

CONSTANTS
  Chan,       \* channel indices
  Writer, Beat, Closer,   \* the goroutines besides the readLoops
  Cast,       \* bound: which of these three may be present together
  MaxTries,   \* attempts of WritePacket: 4 in the code
  HashRange,  \* bound: flowHash ranges over 0 .. HashRange - 1 (2^32)
  Capacity    \* capacity of inbound: 1024 in the code

Caller == UNION Cast

ASSUME TunnelAssumption ==
  /\ {Writer, Beat, Closer} \cap Chan = {}
  /\ Writer # Beat /\ Beat # Closer /\ Writer # Closer
  /\ Caller \subseteq {Writer, Beat, Closer}
  /\ MaxTries \in Nat \ {0} /\ HashRange \in Nat \ {0} /\ Capacity \in Nat

Thread == Chan \cup Caller   \* a readLoop goes by its channel's name

VARIABLES
  channels,  \* Tunnel.channels: attached indices
  order,     \* Tunnel.order
  closed,    \* Tunnel.closed
  dead,      \* Tunnel.dead is closed
  once,      \* Tunnel.deadOnce: new, running, done
  emptied,   \* history: calls of onEmpty
  inbound,   \* number of packets in Tunnel.inbound
  conn,      \* each channel's socket: absent, open, stuck (its write side
             \* has failed and will not recover), closed
  pc,        \* where each goroutine stands
  hand,      \* channels a goroutine has taken out of the map
  closing,   \* goroutines inside Tunnel.Close
  hash,      \* WritePacket: flow hash
  tries,     \* WritePacket: attempts made
  present,   \* history: channels attached when this WritePacket began
  beats,     \* WriteKeepalive: indices still to be written
  consumer   \* reading, stopped

bond    == <<channels, order>>
death   == <<closed, dead, once, emptied>>
write   == <<hash, tries, present>>
locals  == <<hand, closing, write, beats>>
vars    == <<bond, death, inbound, conn, pc, locals, consumer>>

Init ==
  /\ channels = {} /\ order = <<>>
  /\ closed = FALSE /\ dead = FALSE /\ once = "new" /\ emptied = 0
  /\ inbound = 0
  /\ conn = [c \in Chan |-> "absent"]
  /\ \E cast \in Cast :
       pc = [t \in Thread |-> IF t \in Chan THEN "none"
                             ELSE IF t \in cast THEN "idle" ELSE "done"]
  /\ hand = [t \in Thread |-> {}]
  /\ closing = {}
  /\ hash = 0 /\ tries = 0 /\ present = {}
  /\ beats = <<>>
  /\ consumer = "reading"

Goto(t, label) == pc' = [pc EXCEPT ![t] = label]

-----------------------------------------------------------------------------
(* Tunnel.addChannel: attach and start the readLoop, or refuse.            *)

AddChannelUnchecked(c) ==
  /\ conn[c] = "absent"
  /\ channels' = channels \cup {c}
  /\ order' = Append(order, c)
  /\ conn' = [conn EXCEPT ![c] = "open"]
  /\ Goto(c, "reading")
  /\ UNCHANGED <<death, inbound, locals, consumer>>

AddChannel(c) ==
  /\ conn[c] = "absent"
  /\ ~closed
  /\ channels' = channels \cup {c}
  /\ order' = Append(order, c)
  /\ conn' = [conn EXCEPT ![c] = "open"]
  /\ Goto(c, "reading")
  /\ UNCHANGED <<death, inbound, locals, consumer>>

RefuseChannel(c) ==
  /\ conn[c] = "absent"
  /\ closed
  /\ conn' = [conn EXCEPT ![c] = "closed"]
  /\ Goto(c, "done")
  /\ UNCHANGED <<bond, death, inbound, locals, consumer>>

-----------------------------------------------------------------------------
(* Tunnel.removeChannel, Tunnel.markDead and Tunnel.Close, run by any      *)
(* goroutine t.                                                            *)

MoreTriesLess(n) == n + 1 < MaxTries
MoreTries(n) == n < MaxTries

\* What t does when the call it is in returns.
Resume(t) ==
  CASE t \in Chan -> "done"
    [] t \in closing -> IF t = Writer THEN "idle" ELSE "done"
    [] t = Writer /\ t \notin closing -> IF MoreTries(tries + 1) THEN "pick" ELSE "close"
    [] t = Beat /\ t \notin closing -> IF beats = <<>> THEN "idle" ELSE "beating"

EndWrite == hash' = 0 /\ tries' = 0 /\ present' = {}

Return(t) ==
  /\ Goto(t, Resume(t))
  /\ CASE t # Writer -> UNCHANGED write
       [] t = Writer /\ t \in closing -> EndWrite
       [] OTHER -> tries' = tries + 1 /\ UNCHANGED <<hash, present>>
  /\ closing' = closing \ {t}
  /\ hand' = [hand EXCEPT ![t] = {}]
  /\ UNCHANGED beats

\* Under mu: take the index out, unless another goroutine already has.
RemoveGone(t) ==
  /\ pc[t] = "remove"
  /\ hand[t] \cap channels = {}
  /\ Return(t)
  /\ UNCHANGED <<bond, death, inbound, conn, consumer>>

EmptyBefore(rest) == channels = {}
Empty(rest) == rest = {}

\* The loop over order in removeChannel; out[n] is what it has after n indices.
Without(s, gone) ==
  LET out[n \in 0 .. Len(s)] ==
        IF n = 0 THEN <<>>
        ELSE IF s[n] \in gone THEN out[n - 1] ELSE Append(out[n - 1], s[n])
  IN out[Len(s)]

OrderKept(gone) == order
OrderWithout(gone) == Without(order, gone)

Remove(t) ==
  /\ pc[t] = "remove"
  /\ hand[t] \subseteq channels
  /\ channels' = channels \ hand[t]
  /\ order' = OrderWithout(hand[t])
  /\ Goto(t, IF Empty(channels \ hand[t]) THEN "dropLast" ELSE "drop")
  /\ UNCHANGED <<death, inbound, conn, locals, consumer>>

\* Close, under mu: take all channels out.
TakeAll(t) ==
  /\ pc[t] = "close"
  /\ hand' = [hand EXCEPT ![t] = channels]
  /\ channels' = {} /\ order' = <<>>
  /\ closing' = closing \cup {t}
  /\ Goto(t, "dropLast")
  /\ UNCHANGED <<death, inbound, conn, write, beats, consumer>>

\* After the unlock: close the socket(s) in hand.
CloseNothing(S) == UNCHANGED conn
CloseConns(S) == conn' = [c \in Chan |-> IF c \in S THEN "closed" ELSE conn[c]]

Drop(t) ==
  /\ pc[t] = "drop"
  /\ CloseConns(hand[t])
  /\ Return(t)
  /\ UNCHANGED <<bond, death, inbound, consumer>>

DropLast(t) ==
  /\ pc[t] = "dropLast"
  /\ CloseConns(hand[t])
  /\ Goto(t, "markDead")
  /\ UNCHANGED <<bond, death, inbound, locals, consumer>>

OnceIgnored == TRUE
OnceNew == once = "new"

\* deadOnce.Do: the first goroutine in sets closed under mu ...
MarkClosed(t) ==
  /\ pc[t] = "markDead"
  /\ OnceNew
  /\ once' = "running"
  /\ closed' = TRUE
  /\ Goto(t, "closeDead")
  /\ UNCHANGED <<bond, dead, emptied, inbound, conn, locals, consumer>>

\* ... then closes the dead channel ...
CloseDeadForgotten(t) ==
  /\ pc[t] = "closeDead"
  /\ Goto(t, "onEmpty")
  /\ UNCHANGED <<bond, death, inbound, conn, locals, consumer>>

CloseDead(t) ==
  /\ pc[t] = "closeDead"
  /\ dead' = TRUE
  /\ Goto(t, "onEmpty")
  /\ UNCHANGED <<bond, closed, once, emptied, inbound, conn, locals, consumer>>

\* ... then calls onEmpty.
OnEmpty(t) ==
  /\ pc[t] = "onEmpty"
  /\ emptied' = emptied + 1
  /\ once' = "done"
  /\ Return(t)
  /\ UNCHANGED <<bond, closed, dead, inbound, conn, consumer>>

\* The others wait in Do until it has finished.
AlreadyDead(t) ==
  /\ pc[t] = "markDead"
  /\ once = "done"
  /\ Return(t)
  /\ UNCHANGED <<bond, death, inbound, conn, consumer>>

-----------------------------------------------------------------------------
(* Tunnel.readLoop                                                         *)

\* c.ReadPacket returns a packet.
Receive(c) ==
  /\ pc[c] = "reading"
  /\ conn[c] # "closed"
  /\ Goto(c, "holding")
  /\ UNCHANGED <<bond, death, inbound, conn, locals, consumer>>

\* c.ReadPacket fails: reset, read deadline, or the socket was closed here.
ReadError(c) ==
  /\ pc[c] = "reading"
  /\ Goto(c, "remove")
  /\ hand' = [hand EXCEPT ![c] = {c}]
  /\ UNCHANGED <<bond, death, inbound, conn, closing, write, beats, consumer>>

\* The select: hand the packet over, or leave because the tunnel is dead.
Deliver(c) ==
  /\ pc[c] = "holding"
  /\ inbound < Capacity
  /\ inbound' = inbound + 1
  /\ Goto(c, "reading")
  /\ UNCHANGED <<bond, death, conn, locals, consumer>>

AbandonWhenFull(c) ==
  /\ pc[c] = "holding"
  /\ dead \/ inbound = Capacity
  /\ Goto(c, "done")
  /\ UNCHANGED <<bond, death, inbound, conn, locals, consumer>>

Abandon(c) ==
  /\ pc[c] = "holding"
  /\ dead
  /\ Goto(c, "done")
  /\ UNCHANGED <<bond, death, inbound, conn, locals, consumer>>

-----------------------------------------------------------------------------
(* Conn.WritePacket / Conn.WriteKeepalive on channel c, seen from above.   *)

SendOK(c)   == conn[c] = "open" /\ UNCHANGED conn
SendFail(c) == conn' = [conn EXCEPT ![c] = IF @ = "closed" THEN @ ELSE "stuck"]

(* Tunnel.WritePacket, and the Close its caller makes when it fails.       *)

StartWrite ==
  /\ pc[Writer] = "idle"
  /\ hash' \in 0 .. HashRange - 1
  /\ tries' = 0
  /\ present' = channels
  /\ Goto(Writer, "pick")
  /\ UNCHANGED <<bond, death, inbound, conn, hand, closing, beats, consumer>>

Picked == order[1 + (((hash + tries) % HashRange) % Len(order))]

Pick ==
  /\ pc[Writer] = "pick"
  /\ IF order = <<>>
     THEN Goto(Writer, "close") /\ UNCHANGED hand
     ELSE Goto(Writer, "sending") /\ hand' = [hand EXCEPT ![Writer] = {Picked}]
  /\ UNCHANGED <<bond, death, inbound, conn, closing, write, beats, consumer>>

Sent(c) ==
  /\ pc[Writer] = "sending" /\ hand[Writer] = {c}
  /\ SendOK(c)
  /\ Goto(Writer, "idle")
  /\ hand' = [hand EXCEPT ![Writer] = {}]
  /\ EndWrite
  /\ UNCHANGED <<bond, death, inbound, closing, beats, consumer>>

SendError(c) ==
  /\ pc[Writer] = "sending" /\ hand[Writer] = {c}
  /\ SendFail(c)
  /\ Goto(Writer, "remove")
  /\ UNCHANGED <<bond, death, inbound, locals, consumer>>

(* Tunnel.WriteKeepalive, and the Close the ticker makes when it fails.    *)

StartBeat ==
  /\ pc[Beat] = "idle"
  /\ beats' = order
  /\ Goto(Beat, IF order = <<>> THEN "close" ELSE "beating")
  /\ UNCHANGED <<bond, death, inbound, conn, hand, closing, write, consumer>>

BeatSent ==
  /\ pc[Beat] = "beating"
  /\ SendOK(Head(beats))
  /\ beats' = Tail(beats)
  /\ Goto(Beat, IF Len(beats) = 1 THEN "idle" ELSE "beating")
  /\ UNCHANGED <<bond, death, inbound, hand, closing, write, consumer>>

BeatError ==
  /\ pc[Beat] = "beating"
  /\ SendFail(Head(beats))
  /\ hand' = [hand EXCEPT ![Beat] = {Head(beats)}]
  /\ beats' = Tail(beats)
  /\ Goto(Beat, "remove")
  /\ UNCHANGED <<bond, death, inbound, closing, write, consumer>>

\* close(stop), once the consumer has gone.
BeatStop ==
  /\ pc[Beat] = "idle"
  /\ consumer = "stopped"
  /\ Goto(Beat, "done")
  /\ UNCHANGED <<bond, death, inbound, conn, locals, consumer>>

CallClose ==
  /\ pc[Closer] = "idle"
  /\ Goto(Closer, "close")
  /\ UNCHANGED <<bond, death, inbound, conn, locals, consumer>>

-----------------------------------------------------------------------------
(* Tunnel.ReadPacket and its caller.                                       *)

ConsumeUnchecked ==
  /\ consumer = "reading"
  /\ inbound > 0 \/ dead
  /\ inbound' = inbound - 1
  /\ UNCHANGED <<bond, death, conn, pc, locals, consumer>>

Consume ==
  /\ consumer = "reading"
  /\ inbound > 0
  /\ inbound' = inbound - 1
  /\ UNCHANGED <<bond, death, conn, pc, locals, consumer>>

Drained ==
  /\ consumer = "reading"
  /\ dead /\ inbound = 0
  /\ consumer' = "stopped"
  /\ UNCHANGED <<bond, death, inbound, conn, pc, locals>>

\* dev.Write fails and handleConn returns.
Quit ==
  /\ consumer = "reading"
  /\ inbound > 0
  /\ inbound' = inbound - 1
  /\ consumer' = "stopped"
  /\ UNCHANGED <<bond, death, conn, pc, locals>>

Ending(t) ==
  \/ RemoveGone(t) \/ Remove(t) \/ TakeAll(t) \/ Drop(t) \/ DropLast(t)
  \/ MarkClosed(t) \/ CloseDead(t) \/ OnEmpty(t) \/ AlreadyDead(t)

Reader(c) == Receive(c) \/ ReadError(c) \/ Deliver(c) \/ Abandon(c)

Writing == StartWrite \/ Pick \/ \E c \in Chan : Sent(c) \/ SendError(c)

Beating == StartBeat \/ BeatSent \/ BeatError \/ BeatStop

Next ==
  \/ \E c \in Chan : AddChannel(c) \/ RefuseChannel(c) \/ Reader(c)
  \/ \E t \in Thread : Ending(t)
  \/ Writer \in Caller /\ Writing
  \/ Beat \in Caller /\ Beating
  \/ Closer \in Caller /\ CallClose
  \/ Consume \/ Drained \/ Quit

Spec == Init /\ [][Next]_vars

(***************************************************************************)
(* A runnable goroutine runs; a call on a closed socket returns; a write   *)
(* ends by its deadline; the ticker ticks; senders blocked on a channel    *)
(* are served first come first served; a select that is often ready for    *)
(* both branches takes each of them sometimes.  Nothing obliges a peer to  *)
(* send, a socket to fail or the TUN device to offer packets.              *)
(***************************************************************************)
Fairness ==
  /\ \A t \in Thread : WF_vars(Ending(t))
  /\ \A c \in Chan : /\ WF_vars(conn[c] = "closed" /\ ReadError(c))
                     /\ SF_vars(Deliver(c))
                     /\ SF_vars(Abandon(c))
  /\ WF_vars(Writer \in Caller /\ pc[Writer] # "idle" /\ Writing)
  /\ WF_vars(Beat \in Caller /\ Beating)
  /\ WF_vars(Consume \/ Drained)

FairSpec == Spec /\ Fairness

-----------------------------------------------------------------------------
Labels == {"none", "idle", "done", "remove", "drop", "dropLast", "markDead",
           "closeDead", "onEmpty", "close", "reading", "holding", "pick",
           "sending", "beating"}

TypeOK ==
  /\ channels \subseteq Chan /\ order \in Seq(Chan)
  /\ closed \in BOOLEAN /\ dead \in BOOLEAN
  /\ once \in {"new", "running", "done"} /\ emptied \in Nat
  /\ inbound \in 0 .. Capacity
  /\ conn \in [Chan -> {"absent", "open", "stuck", "closed"}]
  /\ pc \in [Thread -> Labels]
  /\ hand \in [Thread -> SUBSET Chan] /\ closing \subseteq Caller
  /\ hash \in 0 .. HashRange - 1 /\ tries \in 0 .. MaxTries
  /\ present \subseteq Chan /\ beats \in Seq(Chan)
  /\ consumer \in {"reading", "stopped"}

(***************************************************************************)
(* order lists the attached channels, each once: WritePacket's modulus and *)
(* lookup never meet an index that has no Conn.                            *)
(***************************************************************************)
OrderMatches ==
  /\ Len(order) = Cardinality(channels)
  /\ {order[i] : i \in 1 .. Len(order)} = channels

(***************************************************************************)
(* onEmpty runs at most once, however many goroutines find the tunnel      *)
(* empty or close it (comment on Tunnel), and never before dead is closed. *)
(***************************************************************************)
OnEmptyOnce == emptied <= 1 /\ (emptied = 1 => closed /\ dead)

(***************************************************************************)
(* As long as the tunnel is not dead, every channel in the map has a       *)
(* readLoop that will take it out when its socket fails.                   *)
(***************************************************************************)
AttachedIsRead ==
  ~dead => \A c \in channels : conn[c] # "closed" /\ pc[c] \notin {"none", "done"}

(***************************************************************************)
(* An attempt of WritePacket that fails is a channel lost for good, never  *)
(* the same one twice: when it gives up, and its caller closes the tunnel, *)
(* none of the channels it started with is left, or as many of the         *)
(* session's channels are gone as it has attempts.                         *)
(***************************************************************************)
Gone == {c \in Chan : conn[c] # "absent"} \ channels

GivesUpAfterTries ==
  Writer \in Caller /\ pc[Writer] = "close" =>
    channels \cap present = {} \/ Cardinality(Gone) >= MaxTries

(***************************************************************************)
(* Server.dispatch closes the tunnel when WritePacket gives up, because    *)
(* then "All channels broken": none of the channels the write started with *)
(* is left.                                                                *)
(***************************************************************************)
GivesUpOnlyWhenAllBroken ==
  Writer \in Caller /\ pc[Writer] = "close" => channels \cap present = {}

(***************************************************************************)
(* The tunnel implements the life cycle its owner relies on.               *)
(***************************************************************************)
Stage ==
  CASE emptied > 0 -> "released"
    [] emptied = 0 /\ dead -> "dead"
    [] emptied = 0 /\ ~dead /\ closed -> "closed"
    [] OTHER -> IF \E t \in Thread : pc[t] \in {"dropLast", "markDead"}
                THEN "doomed" ELSE "open"

Life == INSTANCE TunnelLife WITH
          members <- channels,
          life <- Stage

LifeSpec == Life!Spec

(***************************************************************************)
(* Losing the last channel is final: onEmpty follows, even if a channel is *)
(* attached in between.                                                    *)
(***************************************************************************)
LossIsFinal ==
  (channels = {} /\ \E c \in Chan : conn[c] # "absent") ~> emptied = 1

(***************************************************************************)
(* A channel taken out of the map loses its socket and its readLoop, as    *)
(* long as the consumer has not quit a tunnel that is still alive.         *)
(***************************************************************************)
Forsaken == consumer = "stopped" /\ ~dead

RemovedReaderEnds ==
  \A c \in Chan : (conn[c] # "absent" /\ c \notin channels)
                    ~> (pc[c] = "done" /\ conn[c] = "closed") \/ Forsaken

(***************************************************************************)
(* Once the tunnel is dead its consumer gets an error and returns.         *)
(***************************************************************************)
ConsumerEnds == emptied = 1 ~> consumer = "stopped"
=============================================================================
