-------------------------------- MODULE Conn --------------------------------
(***************************************************************************)
(* One direction of one channel: Conn (internal/transport/conn.go), the    *)
(* Sealer and Opener of internal/frame and the AEADStream counters of      *)
(* internal/crypto, over a WebSocket.                                      *)
(*                                                                         *)
(* Any number of goroutines call WritePacket and WriteKeepalive; one reader*)
(* calls ReadPacket.  A call takes wmu, seals (which advances the nonce    *)
(* counter), writes the message and returns.  The receiver opens messages  *)
(* strictly in counter order, so a single record written out of nonce      *)
(* order, or a nonce spent on a record that is never written while later   *)
(* ones are, would make every further record fail authentication.          *)
(*                                                                         *)
(* A packet is known by its length.  A record holds a header, the payload  *)
(* and padding drawn from the policy's range; the reader's WebSocket       *)
(* refuses messages over its limit before they are opened.                 *)
(*                                                                         *)
(* The WebSocket is external: messages arrive whole and in order, and the  *)
(* first failed write makes all later ones fail (gorilla keeps the error). *)
(***************************************************************************)
EXTENDS Integers, Sequences

CONSTANTS
  Writer,      \* goroutines that write: TUN reader / dispatcher, keepalive
  Packet,      \* IP packets, known by their lengths
  NoWriter,    \* wmu is free
  MaxCounter,  \* ^uint64(0), the counter value advance() refuses
  HeaderLen, TagSize, MaxPayload,   \* sizes of frame and of the AEAD
  Slack,       \* what newConn adds to MaxPayload for the read limit
  BurstRecords, BurstMin, BurstMax, SteadyMax   \* frame.PadPolicy

ASSUME ConnAssumption ==
  /\ Packet \subseteq Nat \ {0}
  /\ NoWriter \notin Writer
  /\ MaxCounter \in Nat
  /\ HeaderLen \in Nat /\ TagSize \in Nat /\ MaxPayload \in Nat /\ Slack \in Nat
  /\ BurstRecords \in Nat /\ BurstMin \in Nat /\ BurstMax \in Nat /\ SteadyMax \in Nat

\* The policy is DefaultPad throughout the program: 12, 900, 1380, 128, with
\* a header of 3, a tag of 16, MaxPayload = 9000 and Slack = 2048.
ASSUME PolicyFits ==
  /\ HeaderLen + TagSize + SteadyMax <= Slack + 1 /\ HeaderLen + TagSize <= Slack
  /\ BurstMax + TagSize <= MaxPayload + Slack + 1
  /\ BurstMin + TagSize <= MaxPayload + Slack

Pad == 0         \* the payload of a TypePad record is empty
Body == Packet \cup {Pad}

VARIABLES
  pc,     \* where each writer stands
  job,    \* what it was asked to write
  wmu,    \* Conn.wmu: its holder
  tx,     \* Sealer.aead.counter
  ct,     \* the sealed record in the hands of wmu's holder
  wire,   \* messages written and not yet read
  txUp,   \* the WebSocket accepts writes
  rx,     \* Opener.aead.counter
  rxUp,   \* ReadPacket has not failed
  sent,   \* history: bodies whose write returned nil
  got,    \* history: bodies the reader opened
  spent   \* history: how many records each nonce sealed

vars == <<pc, job, wmu, tx, ct, wire, txUp, rx, rxUp, sent, got, spent>>

Nonce == 0 .. MaxCounter
Sealed == [nonce : Nonce, body : Body, pad : Nat]

Init ==
  /\ pc = [w \in Writer |-> "idle"]
  /\ job = [w \in Writer |-> Pad]
  /\ wmu = NoWriter
  /\ tx = 0 /\ rx = 0
  /\ ct = [nonce |-> 0, body |-> Pad, pad |-> 0]
  /\ wire = <<>>
  /\ txUp = TRUE /\ rxUp = TRUE
  /\ sent = <<>> /\ got = <<>>
  /\ spent = [n \in Nonce |-> 0]

-----------------------------------------------------------------------------
(* AEADStream.advance: the counter is a machine word.                      *)

NeverExhausted(counter) == FALSE
Exhausted(counter) == counter = MaxCounter

Succ(counter) == (counter + 1) % (MaxCounter + 1)

-----------------------------------------------------------------------------
(* frame: padding and sizes.  Sealer.count equals the nonce counter as long*)
(* as records are sealed.                                                  *)

TooBig(body) == body > MaxPayload

\* mrand.IntN(span) above a base, or the base when there is no span.
Draw(base, span) == IF span > 0 THEN base .. base + span - 1 ELSE {base}

\* Sealer.padFor: the paddings it may return.
PadFor(count, len) ==
  IF count < BurstRecords
    THEN {IF t > HeaderLen + len THEN t - (HeaderLen + len) ELSE 0 :
            t \in Draw(BurstMin, BurstMax - BurstMin)}
    ELSE Draw(0, SteadyMax)

PlainLen(m) == HeaderLen + m.body + m.pad

\* newConn: SetReadLimit.
ReadLimitPayload == MaxPayload
ReadLimit == MaxPayload + Slack

-----------------------------------------------------------------------------
(* Conn.WritePacket(p) and Conn.WriteKeepalive(): same steps, other body.  *)

Call(w, b) ==
  /\ pc[w] = "idle"
  /\ pc' = [pc EXCEPT ![w] = "locking"]
  /\ job' = [job EXCEPT ![w] = b]
  /\ UNCHANGED <<wmu, tx, ct, wire, txUp, rx, rxUp, sent, got, spent>>

Lock(w) ==
  /\ pc[w] = "locking"
  /\ wmu = NoWriter
  /\ wmu' = w
  /\ pc' = [pc EXCEPT ![w] = "sealing"]
  /\ UNCHANGED <<job, tx, ct, wire, txUp, rx, rxUp, sent, got, spent>>

\* defer wmu.Unlock(), on every return path.
Return(w) ==
  /\ pc' = [pc EXCEPT ![w] = "idle"]
  /\ wmu' = NoWriter

\* Sealer.Seal: errBig comes before the counter moves, exhaustion instead
\* of moving it.
SealFailsLocked(w) ==
  /\ pc[w] = "sealing"
  /\ TooBig(job[w]) \/ Exhausted(tx)
  /\ pc' = [pc EXCEPT ![w] = "idle"]
  /\ UNCHANGED <<job, wmu, tx, ct, wire, txUp, rx, rxUp, sent, got, spent>>

SealFails(w) ==
  /\ pc[w] = "sealing"
  /\ TooBig(job[w]) \/ Exhausted(tx)
  /\ Return(w)
  /\ UNCHANGED <<job, tx, ct, wire, txUp, rx, rxUp, sent, got, spent>>

Seal(w) ==
  /\ pc[w] = "sealing"
  /\ ~TooBig(job[w]) /\ ~Exhausted(tx)
  /\ \E pad \in PadFor(tx, job[w]) :
       ct' = [nonce |-> tx, body |-> job[w], pad |-> pad]
  /\ spent' = [spent EXCEPT ![tx] = @ + 1]
  /\ tx' = Succ(tx)
  /\ pc' = [pc EXCEPT ![w] = "writing"]
  /\ UNCHANGED <<job, wmu, wire, txUp, rx, rxUp, sent, got>>

\* ws.WriteMessage succeeds.
Write(w) ==
  /\ pc[w] = "writing"
  /\ txUp
  /\ wire' = Append(wire, ct)
  /\ sent' = Append(sent, ct.body)
  /\ Return(w)
  /\ UNCHANGED <<job, tx, ct, txUp, rx, rxUp, got, spent>>

\* ws.WriteMessage fails: an earlier error, Close, a reset, or the write
\* deadline.  The nonce is spent and the record is gone.
WriteFailsOnce(w) ==
  /\ pc[w] = "writing"
  /\ Return(w)
  /\ UNCHANGED <<job, tx, ct, wire, txUp, rx, rxUp, sent, got, spent>>

WriteFailsSilently(w) ==
  /\ pc[w] = "writing"
  /\ txUp' = FALSE
  /\ sent' = Append(sent, ct.body)
  /\ Return(w)
  /\ UNCHANGED <<job, tx, ct, wire, rx, rxUp, got, spent>>

WriteFails(w) ==
  /\ pc[w] = "writing"
  /\ txUp' = FALSE
  /\ Return(w)
  /\ UNCHANGED <<job, tx, ct, wire, rx, rxUp, sent, got, spent>>

-----------------------------------------------------------------------------
(* Conn.ReadPacket: one round of its loop.  Opener.Open advances the       *)
(* counter and authenticates the record under it.                          *)

Fits(m) == PlainLen(m) + TagSize <= ReadLimit

Opens(m) == Fits(m) /\ ~Exhausted(rx) /\ m.nonce = rx

Read ==
  LET m == Head(wire) IN
  /\ rxUp /\ wire # <<>>
  /\ wire' = Tail(wire)
  /\ rx' = IF Exhausted(rx) \/ ~Fits(m) THEN rx ELSE Succ(rx)
  /\ rxUp' = Opens(m)
  /\ got' = IF Opens(m) THEN Append(got, m.body) ELSE got
  /\ UNCHANGED <<pc, job, wmu, tx, ct, txUp, sent, spent>>

\* The read deadline passes, the peer closes, or the connection is reset;
\* what was in flight is lost.
ReadFails ==
  /\ rxUp
  /\ rxUp' = FALSE
  /\ UNCHANGED <<pc, job, wmu, tx, ct, wire, txUp, rx, sent, got, spent>>

\* Conn.Close on the sending side.
Close ==
  /\ txUp
  /\ txUp' = FALSE
  /\ UNCHANGED <<pc, job, wmu, tx, ct, wire, rx, rxUp, sent, got, spent>>

Finish(w) == SealFails(w) \/ Seal(w) \/ Write(w) \/ WriteFails(w)

Next ==
  \/ \E w \in Writer, b \in Body : Call(w, b)
  \/ \E w \in Writer : Lock(w)
  \/ \E w \in Writer : SealFails(w)
  \/ \E w \in Writer : Seal(w)
  \/ \E w \in Writer : Write(w)
  \/ \E w \in Writer : WriteFails(w)
  \/ Read \/ ReadFails \/ Close

Spec == Init /\ [][Next]_vars

(***************************************************************************)
(* A sync.Mutex hands over to a waiter that has waited long enough, the    *)
(* write deadline ends every write, and the reader goroutine keeps reading.*)
(***************************************************************************)
Fairness ==
  /\ \A w \in Writer : SF_vars(Lock(w)) /\ WF_vars(Finish(w))
  /\ WF_vars(Read)

FairSpec == Spec /\ Fairness

-----------------------------------------------------------------------------
\* Types, and wmu's holder is exactly the writer between Lock and Unlock.
TypeOK ==
  /\ pc \in [Writer -> {"idle", "locking", "sealing", "writing"}]
  /\ job \in [Writer -> Body]
  /\ wmu \in Writer \cup {NoWriter}
  /\ \A w \in Writer : pc[w] \in {"sealing", "writing"} <=> wmu = w
  /\ tx \in Nonce /\ rx \in Nonce
  /\ ct \in Sealed
  /\ wire \in Seq(Sealed)
  /\ txUp \in BOOLEAN /\ rxUp \in BOOLEAN
  /\ sent \in Seq(Body) /\ got \in Seq(Body)
  /\ spent \in [Nonce -> Nat]

(***************************************************************************)
(* The reader never meets a record it cannot open: sealing and writing     *)
(* under one lock keep nonce order equal to wire order, no record follows a*)
(* spent nonce that never reached the wire (the hazard the Concurrency     *)
(* contract of Conn describes), and no payload the sender accepts exceeds  *)
(* the receiver's read limit once header, padding and tag are added.       *)
(***************************************************************************)
NoDesync == rxUp /\ wire # <<>> => Opens(Head(wire))

(***************************************************************************)
(* The opening records of a connection, whoever wrote them and whatever    *)
(* failed in between, are no shorter than the policy's minimum (the "first *)
(* records of a connection are padded" of package frame).                  *)
(***************************************************************************)
BurstMasked ==
  \A i \in 1 .. Len(wire) :
    wire[i].nonce < BurstRecords => PlainLen(wire[i]) >= BurstMin

(***************************************************************************)
(* A nonce seals at most one record, up to and at the end of the counter's *)
(* range (AEADStream.advance).                                             *)
(***************************************************************************)
NonceUsedOnce == \A n \in Nonce : spent[n] <= 1

(***************************************************************************)
(* The direction implements a FIFO link that can only break.               *)
(***************************************************************************)
Link == INSTANCE PacketLink WITH Record <- Body

LinkSpec == Link!Spec

(***************************************************************************)
(* Every WritePacket / WriteKeepalive call returns: no goroutine is wedged *)
(* behind wmu (comment on writeTimeout).                                   *)
(***************************************************************************)
WriterReturns == \A w \in Writer : pc[w] # "idle" ~> pc[w] = "idle"

(***************************************************************************)
(* A record whose write returned nil is opened, unless the reader fails.   *)
(***************************************************************************)
SentIsRead ==
  \A n \in 1 .. MaxCounter :
    Len(sent) >= n ~> (Len(got) >= n \/ ~rxUp)
=============================================================================
