----------------------------- MODULE SocksProofs -----------------------------
(***************************************************************************)
(* Proofs for Socks: types, one truthful reply per connection, and that a  *)
(* relay without a reset passes everything on, for streams of any length.  *)
(***************************************************************************)
EXTENDS Socks, TLAPS

Code == {"succeeded", "notSupported", "hostUnreachable", "generalFailure"}

\* The connection and its handler.
HandlerType ==
  /\ ln \in {"none", "open", "closed"}
  /\ pc \in {"waiting", "greeting", "request", "dialing", "replying", "relaying",
             "closing", "done"}
  /\ deadline \in {"off", "armed", "expired"}
  /\ sock \in [Side -> {"none", "open", "closed"}]
  /\ replies \in Seq(Code)

\* The two directions.
FlowType ==
  /\ peer \in [Side -> {"open", "fin", "rst"}]
  /\ reading \in [Side -> BOOLEAN]
  /\ sent \in [Side -> 0 .. MaxChunks]
  /\ taken \in [Side -> 0 .. MaxChunks] /\ passed \in [Side -> 0 .. MaxChunks]
  /\ cp \in [Side -> {"idle", "copying", "ending", "done"}]
  /\ eof \in [Side -> BOOLEAN]

Counts ==
  \A s \in Side : passed[s] <= taken[s] /\ taken[s] <= sent[s] /\ taken[s] <= passed[s] + 1

\* What handle() has said by where it stands: nothing before it dials, and
\* "succeeded" if and only if the relay was started.
Said ==
  /\ pc \in {"waiting", "greeting", "request", "dialing", "replying"}
       => replies = <<>> /\ ~Relayed
  /\ pc = "relaying" => Relayed
  /\ Relayed => replies = <<"succeeded">> /\ deadline = "off" /\ sock["target"] # "none"
  /\ ~Relayed => \/ replies = <<>>
                 \/ \E c \in Code \ {"succeeded"} : replies = <<c>>
  /\ pc = "replying" => sock["target"] # "none"

\* Both directions start together, and only then carry data.
Together ==
  /\ Relayed \/ \A s \in Side : cp[s] = "idle" /\ taken[s] = 0
  /\ Relayed /\ pc \in {"closing", "done"} => \A s \in Side : cp[s] = "done"

\* A direction that is over has passed all of its stream, unless a side was
\* reset.
Finished ==
  \A s \in Side :
    /\ cp[s] \in {"ending", "done"} =>
         \/ peer[s] = "rst" \/ peer[Other(s)] = "rst"
         \/ peer[s] = "fin" /\ passed[s] = sent[s]
    /\ cp[s] = "done" => eof[s]

IInv == HandlerType /\ FlowType /\ Counts /\ Said /\ Together /\ Finished

-----------------------------------------------------------------------------
LEMMA InitIInv == Init => IInv
<1> SUFFICES ASSUME Init PROVE IInv
  OBVIOUS
<1> USE SocksAssumption DEF Init
<1>1. HandlerType /\ FlowType
  BY DEF HandlerType, FlowType
<1>2. Counts /\ Finished
  BY DEF Counts, Finished
<1>3. ~Relayed /\ \A s \in Side : cp[s] = "idle" /\ taken[s] = 0
  BY DEF Relayed, Side
<1>4. Said /\ Together
  BY <1>3 DEF Said, Together
<1> QED BY <1>1, <1>2, <1>4 DEF IInv

\* A step of the listener or of handle() leaves the directions alone.
LEMMA FlowKept ==
  ASSUME IInv, UNCHANGED flow
  PROVE  FlowType' /\ Counts' /\ Finished' /\ Relayed' = Relayed
BY DEF IInv, FlowType, Counts, Finished, Relayed, flow

\* Listen, Close, accept and the deadline.
LEMMA ListenerStep ==
  ASSUME IInv, Listen \/ StopListening \/ Accept \/ Expire
  PROVE  IInv'
<1>1. UNCHANGED flow
  BY DEF Listen, StopListening, Accept, Expire
<1>2. FlowType' /\ Counts' /\ Finished' /\ Relayed' = Relayed
  BY <1>1, FlowKept
<1>3. HandlerType'
  BY DEF IInv, HandlerType, Side, Listen, StopListening, Accept, Expire
<1>4. Said'
  BY <1>2 DEF IInv, HandlerType, Side, Said, Listen, StopListening, Accept, Expire
<1>5. Together'
  BY <1>1, <1>2 DEF IInv, Together, flow, Listen, StopListening, Accept, Expire
<1> QED BY <1>2, <1>3, <1>4, <1>5 DEF IInv

\* A code handle() sends is the first one.
LEMMA FirstReply ==
  ASSUME IInv, replies = <<>>, NEW c \in Code, Send(c)
  PROVE  replies' \in Seq(Code) /\ (replies' = <<>> \/ replies' = <<c>>)
<1>1. Append(<<>>, c) = <<c>>
  OBVIOUS
<1>2. <<>> \in Seq(Code) /\ <<c>> \in Seq(Code)
  OBVIOUS
<1> QED BY <1>1, <1>2 DEF Send

\* The handshake and the dial, before the relay.
LEMMA HandshakeStep ==
  ASSUME IInv,
         \/ Greeting \/ Request \/ Unsupported \/ BadVersion \/ HandshakeCut
         \/ Dialled \/ DialFails \/ ReplyFails
  PROVE  IInv'
<1> USE DEF Greeting, Request, Unsupported, BadVersion, HandshakeCut, Dialled, DialFails,
            ReplyFails
<1>1. UNCHANGED <<ln, deadline, flow>>
  OBVIOUS
<1>2. FlowType' /\ Counts' /\ Finished' /\ Relayed' = Relayed
  BY <1>1, FlowKept
<1>3. pc \in {"greeting", "request", "dialing", "replying"}
  OBVIOUS
<1>4. replies = <<>> /\ ~Relayed
  BY <1>3 DEF IInv, Said
<1>5. /\ replies' \in Seq(Code)
      /\ replies' = <<>> \/ (pc' = "closing" /\ \E c \in Code \ {"succeeded"} : replies' = <<c>>)
  <2>1. CASE UNCHANGED replies
    BY <2>1, <1>4 DEF IInv, HandlerType
  <2>2. CASE Unsupported
    BY <2>2, <1>4, FirstReply DEF Code
  <2>3. CASE DialFails
    <3>1. PICK c \in {"hostUnreachable", "generalFailure"} : Send(c)
      BY <2>3
    <3> QED BY <3>1, <2>3, <1>4, FirstReply DEF Code
  <2> QED BY <2>1, <2>2, <2>3
<1>6. sock' = sock \/ (pc = "dialing" /\ sock' = [sock EXCEPT !["target"] = "open"])
  OBVIOUS
<1>7. HandlerType'
  BY <1>1, <1>5, <1>6 DEF IInv, HandlerType, Side
<1>8. pc' = "replying" => sock'["target"] # "none"
  BY DEF IInv, HandlerType, Side
<1>9. Said'
  BY <1>2, <1>4, <1>5, <1>8 DEF Said
<1>10. Together'
  BY <1>1, <1>2, <1>4 DEF IInv, Together, flow
<1> QED BY <1>2, <1>7, <1>9, <1>10 DEF IInv

\* The reply, the deadline's end and the two goroutines.
LEMMA ReplyStep ==
  ASSUME IInv, Reply
  PROVE  IInv'
<1> USE DEF Reply, Copiers
<1>1. replies = <<>> /\ ~Relayed /\ sock["target"] # "none"
  BY DEF IInv, Said
<1>2. replies' = <<"succeeded">>
  BY <1>1 DEF Send
<1>3. HandlerType' /\ FlowType'
  BY <1>2 DEF IInv, HandlerType, FlowType, Code
<1>4. Counts' /\ Finished'
  BY DEF IInv, Counts, Finished
<1>5. Relayed'
  BY DEF Relayed
<1>6. Said' /\ Together'
  BY <1>1, <1>2, <1>5 DEF Said, Together
<1> QED BY <1>3, <1>4, <1>6 DEF IInv

\* relay returns and handle() closes.
LEMMA EndStep ==
  ASSUME IInv, RelayDone \/ CloseBoth
  PROVE  IInv'
<1> USE DEF RelayDone, CloseBoth
<1>1. UNCHANGED flow
  OBVIOUS
<1>2. FlowType' /\ Counts' /\ Finished' /\ Relayed' = Relayed
  BY <1>1, FlowKept
<1>3. HandlerType'
  BY DEF IInv, HandlerType
<1>4. sock'["target"] = "none" => sock["target"] = "none"
  BY DEF IInv, HandlerType, Side
<1>5. Said'
  BY <1>2, <1>4 DEF IInv, Said
<1>6. Together'
  BY <1>1, <1>2 DEF IInv, Together, flow
<1> QED BY <1>2, <1>3, <1>5, <1>6 DEF IInv

LEMMA OtherSide == \A s \in Side : Other(s) \in Side /\ Other(s) # s
BY DEF Side, Other

\* io.Copy moves a chunk.
LEMMA CopyStep ==
  ASSUME IInv, NEW s \in Side, Copy(s) \/ Pass(s)
  PROVE  IInv'
<1> USE DEF Copy, Pass
<1>1. Relayed
  BY DEF IInv, Together
<1>2. HandlerType' /\ Said' /\ Relayed'
  BY <1>1 DEF IInv, HandlerType, Said, Relayed
<1>3. FlowType' /\ Counts'
  BY SocksAssumption DEF IInv, FlowType, Counts, Holding
<1>4. Together'
  BY <1>1, <1>2 DEF IInv, Together
<1>5. \A t \in Side : cp'[t] = cp[t] /\ (t # s => passed'[t] = passed[t])
  BY DEF IInv, FlowType
<1>6. Finished'
  BY <1>5 DEF IInv, Finished
<1> QED BY <1>2, <1>3, <1>4, <1>6 DEF IInv

\* io.Copy returns, and the other side sees the end.
LEMMA CopyEndStep ==
  ASSUME IInv, NEW s \in Side, CopyEnds(s) \/ HalfClose(s)
  PROVE  IInv'
<1> USE DEF CopyEnds, HalfClose
<1>1. Relayed
  BY DEF IInv, Together
<1>2. FlowType' /\ Counts'
  BY DEF IInv, FlowType, Counts
<1>3. \A t \in Side : cp'[t] # "idle"
  BY <1>1 DEF IInv, FlowType, Relayed
<1>4. HandlerType' /\ Said' /\ Relayed'
  BY <1>1, <1>3 DEF IInv, HandlerType, Said, Relayed
<1>5. Together'
  BY <1>1, <1>4 DEF IInv, FlowType, Together
<1>6. deadline = "off"
  BY <1>1 DEF IInv, Said
<1>7. CASE CopyEnds(s)
  <2>1. \/ peer[s] = "rst" \/ peer[Other(s)] = "rst"
        \/ peer[s] = "fin" /\ passed[s] = sent[s]
    BY <1>6, <1>7, OtherSide DEF IInv, FlowType, Counts, Holding, Broken
  <2> QED BY <1>2, <1>4, <1>5, <1>7, <2>1 DEF IInv, FlowType, Finished
<1>8. CASE HalfClose(s)
  <2>1. Finished'
    BY <1>8 DEF IInv, FlowType, Finished
  <2> QED BY <1>2, <1>4, <1>5, <2>1 DEF IInv
<1> QED BY <1>7, <1>8

\* The peers send, end their streams, reset, stop reading.
LEMMA PeerStep ==
  ASSUME IInv, NEW s \in Side, PeerSends(s) \/ PeerEnds(s) \/ PeerStopsReading(s)
  PROVE  IInv'
<1> USE DEF PeerSends, PeerEnds, PeerStopsReading
<1>1. HandlerType' /\ Said' /\ Together'
  BY DEF IInv, HandlerType, Said, Together, Relayed
<1>2. FlowType' /\ Counts'
  <2>1. CASE PeerSends(s)
    BY <2>1, SocksAssumption DEF IInv, FlowType, Counts
  <2>2. CASE PeerEnds(s)
    BY <2>2 DEF IInv, FlowType, Counts
  <2>3. CASE PeerStopsReading(s)
    <3>1. reading' \in [Side -> BOOLEAN]
      BY <2>3, Zenon DEF IInv, FlowType
    <3> QED BY <2>3, <3>1 DEF IInv, FlowType, Counts
  <2> QED BY <2>1, <2>2, <2>3
<1>3. \A t \in Side : /\ peer[t] = "rst" => peer'[t] = "rst"
                      /\ peer[t] = "fin" => peer'[t] \in {"fin", "rst"} /\ sent'[t] = sent[t]
  BY DEF IInv, FlowType
<1>4. UNCHANGED <<cp, eof, passed>>
  OBVIOUS
<1>5. Finished'
  BY <1>3, <1>4, OtherSide DEF IInv, Finished
<1> QED BY <1>1, <1>2, <1>5 DEF IInv

LEMMA NextIInv == IInv /\ [Next]_vars => IInv'
<1> SUFFICES ASSUME IInv, [Next]_vars PROVE IInv'
  OBVIOUS
<1>1. CASE UNCHANGED vars
  BY <1>1 DEF vars, flow, IInv, HandlerType, FlowType, Counts, Said, Together, Finished, Relayed
<1>2. CASE Next
  BY <1>2, ListenerStep, HandshakeStep, ReplyStep, EndStep, CopyStep, CopyEndStep, PeerStep
     DEF Next
<1> QED BY <1>1, <1>2

LEMMA Invariance == Spec => []IInv
BY InitIInv, NextIInv, PTL DEF Spec

-----------------------------------------------------------------------------
(***************************************************************************)
(* Type correctness of the proxy: a direction never holds more than one    *)
(* chunk, and never passes on what was not sent.                           *)
(***************************************************************************)
THEOREM TypeCorrect == Spec => []TypeOK
<1>1. IInv => TypeOK
  BY DEF IInv, HandlerType, FlowType, Counts, TypeOK, Code
<1> QED BY <1>1, Invariance, PTL

(***************************************************************************)
(* handle() sends at most one reply and says "succeeded" exactly when it   *)
(* relays.                                                                 *)
(***************************************************************************)
THEOREM RepliesOnce == Spec => []OneReply
<1>1. ASSUME IInv PROVE OneReply
  <2>1. Len(replies) <= 1
    <3>1. replies = <<>> \/ \E c \in Code : replies = <<c>>
      BY <1>1 DEF IInv, Said, Code
    <3>2. CASE replies = <<>>
      BY <3>2
    <3>3. ASSUME NEW c \in Code, replies = <<c>> PROVE Len(replies) <= 1
      BY <3>3
    <3> QED BY <3>1, <3>2, <3>3
  <2>2. (replies = <<"succeeded">>) <=> Relayed
    BY <1>1 DEF IInv, Said
  <2>3. /\ Relayed => sock["target"] # "none"
        /\ \A s \in Side : taken[s] > 0 => Relayed
    BY <1>1 DEF IInv, Said, Together
  <2> QED BY <2>1, <2>2, <2>3 DEF OneReply
<1> QED BY <1>1, Invariance, PTL

(***************************************************************************)
(* A relay none of whose sides was reset has passed on both streams and    *)
(* their ends when handle() closes, however long they are.                 *)
(***************************************************************************)
THEOREM CutsNothing == Spec => []NothingCut
<1>1. IInv => NothingCut
  BY OtherSide DEF IInv, Together, Finished, NothingCut
<1> QED BY <1>1, Invariance, PTL
=============================================================================
