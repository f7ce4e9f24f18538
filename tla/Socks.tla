------------------------------- MODULE Socks -------------------------------
(***************************************************************************)
(* The SOCKS5 proxy of the client's socks mode (internal/socks/socks.go):  *)
(* the listener and one connection through it.  Connections share nothing  *)
(* but the listener, so one is enough.                                     *)
(*                                                                         *)
(* handle() reads the greeting and the request under a 30 s deadline,      *)
(* dials the target, replies, clears the deadline and relays: a goroutine  *)
(* per direction runs io.Copy, then half-closes the other side.  A         *)
(* direction is named after the side its data comes from.  Data are        *)
(* chunks, counted; request bytes are abstracted to whether they are good. *)
(***************************************************************************)
EXTENDS Integers, Sequences

CONSTANT MaxChunks   \* bound: chunks a peer sends

ASSUME SocksAssumption == MaxChunks \in Nat

Side == {"client", "target"}
Other(s) == IF s = "client" THEN "target" ELSE "client"

VARIABLES
  ln,        \* Server.ln
  pc,        \* where handle() stands
  deadline,  \* of the client's connection: off, armed, expired
  sock,      \* handle()'s end of each connection
  replies,   \* history: codes sendReply wrote
  peer,      \* what the peer did with its sending half
  reading,   \* the peer drains what it is sent
  sent,      \* chunks the peer sent
  taken,     \* chunks io.Copy read from it
  passed,    \* chunks written to the other side
  cp,        \* the direction's goroutine
  eof        \* CloseWrite was called on the other side

flow == <<peer, reading, sent, taken, passed, cp, eof>>
vars == <<ln, pc, deadline, sock, replies, flow>>

Init ==
  /\ ln = "none" /\ pc = "waiting" /\ deadline = "off"
  /\ sock = [s \in Side |-> "none"]
  /\ replies = <<>>
  /\ peer = [s \in Side |-> "open"]
  /\ reading = [s \in Side |-> TRUE]
  /\ sent = [s \in Side |-> 0]
  /\ taken = [s \in Side |-> 0]
  /\ passed = [s \in Side |-> 0]
  /\ cp = [s \in Side |-> "idle"]
  /\ eof = [s \in Side |-> FALSE]

-----------------------------------------------------------------------------
(* New, Serve and Close.                                                   *)

Listen ==
  /\ ln = "none"
  /\ ln' \in {"open", "closed"}    \* closed: Listen failed or srcIP is bad
  /\ UNCHANGED <<pc, deadline, sock, replies, flow>>

\* Close closes the listener only: handlers go on.
StopListening ==
  /\ ln = "open"
  /\ ln' = "closed"
  /\ UNCHANGED <<pc, deadline, sock, replies, flow>>

\* Serve starts handle(), whose first statement sets the deadline.
AcceptUnbounded ==
  /\ ln = "open" /\ pc = "waiting"
  /\ pc' = "greeting"
  /\ sock' = [sock EXCEPT !["client"] = "open"]
  /\ UNCHANGED <<ln, deadline, replies, flow>>

Accept ==
  /\ ln = "open" /\ pc = "waiting"
  /\ pc' = "greeting"
  /\ deadline' = "armed"
  /\ sock' = [sock EXCEPT !["client"] = "open"]
  /\ UNCHANGED <<ln, replies, flow>>

-----------------------------------------------------------------------------
(* handshake and sendReply.                                                *)

\* Reads and writes on the client's connection fail.
ClientCut == deadline = "expired" \/ peer["client"] = "rst"

\* sendReply: the code reaches the client unless the connection is cut.
Send(code) == replies' = IF ClientCut THEN replies ELSE Append(replies, code)

\* The no-auth answer is written; a half-closed client may have sent both
\* messages before.
Greeting ==
  /\ pc = "greeting" /\ ~ClientCut
  /\ pc' = "request"
  /\ UNCHANGED <<ln, deadline, sock, replies, flow>>

Request ==
  /\ pc = "request" /\ ~ClientCut
  /\ pc' = "dialing"
  /\ UNCHANGED <<ln, deadline, sock, replies, flow>>

\* Another command or address type.
Unsupported ==
  /\ pc = "request" /\ ~ClientCut
  /\ Send("notSupported")
  /\ pc' = "closing"
  /\ UNCHANGED <<ln, deadline, sock, flow>>

\* Not version 5, in either message.
BadVersion ==
  /\ pc \in {"greeting", "request"} /\ ~ClientCut
  /\ pc' = "closing"
  /\ UNCHANGED <<ln, deadline, sock, replies, flow>>

\* io.ReadFull or the answer's write fails: the deadline, a reset, or the
\* stream ended too early.
HandshakeCut ==
  /\ pc \in {"greeting", "request"}
  /\ ClientCut \/ peer["client"] = "fin"
  /\ pc' = "closing"
  /\ UNCHANGED <<ln, deadline, sock, replies, flow>>

-----------------------------------------------------------------------------
(* handle: dialer.Dial, whose timeout is 12 s, and the reply.              *)

DialledAnswered ==
  /\ pc = "dialing"
  /\ sock' = [sock EXCEPT !["target"] = "open"]
  /\ Send("succeeded")
  /\ pc' = "replying"
  /\ UNCHANGED <<ln, deadline, flow>>

Dialled ==
  /\ pc = "dialing"
  /\ sock' = [sock EXCEPT !["target"] = "open"]
  /\ pc' = "replying"
  /\ UNCHANGED <<ln, deadline, replies, flow>>

\* replyCodeFor: a timeout is hostUnreachable, anything else a general
\* failure.  The error of sendReply is ignored.
DialFails ==
  /\ pc = "dialing"
  /\ \E code \in {"hostUnreachable", "generalFailure"} : Send(code)
  /\ pc' = "closing"
  /\ UNCHANGED <<ln, deadline, sock, flow>>

Copiers == cp' = [s \in Side |-> "copying"]

ReplyKeepsDeadline ==
  /\ pc = "replying" /\ ~ClientCut
  /\ Send("succeeded")
  /\ Copiers
  /\ pc' = "relaying"
  /\ UNCHANGED <<ln, deadline, sock, peer, reading, sent, taken, passed, eof>>

Reply ==
  /\ pc = "replying" /\ ~ClientCut
  /\ Send("succeeded")
  /\ deadline' = "off"
  /\ Copiers
  /\ pc' = "relaying"
  /\ UNCHANGED <<ln, sock, peer, reading, sent, taken, passed, eof>>

ReplyFails ==
  /\ pc = "replying" /\ ClientCut
  /\ pc' = "closing"
  /\ UNCHANGED <<ln, deadline, sock, replies, flow>>

-----------------------------------------------------------------------------
(* relay: cp(dst, src) for the direction from side s.                      *)

\* Reading from side s, or writing to it, fails.
Broken(s) == peer[s] = "rst" \/ (s = "client" /\ deadline = "expired")

Holding(s) == taken[s] > passed[s]

Copy(s) ==
  /\ cp[s] = "copying" /\ ~Holding(s)
  /\ ~Broken(s) /\ taken[s] < sent[s]
  /\ taken' = [taken EXCEPT ![s] = @ + 1]
  /\ UNCHANGED <<ln, pc, deadline, sock, replies, peer, reading, sent, passed, cp, eof>>

Pass(s) ==
  /\ cp[s] = "copying" /\ Holding(s)
  /\ ~Broken(Other(s)) /\ reading[Other(s)]
  /\ passed' = [passed EXCEPT ![s] = @ + 1]
  /\ UNCHANGED <<ln, pc, deadline, sock, replies, peer, reading, sent, taken, cp, eof>>

\* io.Copy returns: end of stream, or an error on either side.
CopyEnds(s) ==
  /\ cp[s] = "copying"
  /\ IF Holding(s) THEN Broken(Other(s))
     ELSE Broken(s) \/ (peer[s] = "fin" /\ taken[s] = sent[s])
  /\ cp' = [cp EXCEPT ![s] = "ending"]
  /\ UNCHANGED <<ln, pc, deadline, sock, replies, peer, reading, sent, taken, passed, eof>>

HalfCloseMissing(s) ==
  /\ cp[s] = "ending"
  /\ cp' = [cp EXCEPT ![s] = "done"]
  /\ UNCHANGED <<ln, pc, deadline, sock, replies, peer, reading, sent, taken, passed, eof>>

HalfClose(s) ==
  /\ cp[s] = "ending"
  /\ eof' = [eof EXCEPT ![s] = TRUE]
  /\ cp' = [cp EXCEPT ![s] = "done"]
  /\ UNCHANGED <<ln, pc, deadline, sock, replies, peer, reading, sent, taken, passed>>

\* Both receives on the channel done.
RelayDoneFirst ==
  /\ pc = "relaying" /\ \E s \in Side : cp[s] = "done"
  /\ pc' = "closing"
  /\ UNCHANGED <<ln, deadline, sock, replies, flow>>

RelayDone ==
  /\ pc = "relaying" /\ \A s \in Side : cp[s] = "done"
  /\ pc' = "closing"
  /\ UNCHANGED <<ln, deadline, sock, replies, flow>>

\* handle() returns: its deferred closes.
CloseClientOnly ==
  /\ pc = "closing"
  /\ sock' = [sock EXCEPT !["client"] = "closed"]
  /\ pc' = "done"
  /\ UNCHANGED <<ln, deadline, replies, flow>>

CloseBoth ==
  /\ pc = "closing"
  /\ sock' = [s \in Side |-> IF sock[s] = "open" THEN "closed" ELSE sock[s]]
  /\ pc' = "done"
  /\ UNCHANGED <<ln, deadline, replies, flow>>

-----------------------------------------------------------------------------
(* The two peers and time (external).                                      *)

PeerSends(s) ==
  /\ sock[s] = "open" /\ peer[s] = "open" /\ sent[s] < MaxChunks
  /\ s = "client" => pc \notin {"greeting", "request"}
  /\ sent' = [sent EXCEPT ![s] = @ + 1]
  /\ UNCHANGED <<ln, pc, deadline, sock, replies, peer, reading, taken, passed, cp, eof>>

PeerEnds(s) ==
  /\ sock[s] = "open"
  /\ \/ peer[s] = "open" /\ peer' = [peer EXCEPT ![s] = "fin"]
     \/ peer[s] # "rst" /\ peer' = [peer EXCEPT ![s] = "rst"]
  /\ UNCHANGED <<ln, pc, deadline, sock, replies, reading, sent, taken, passed, cp, eof>>

PeerStopsReading(s) ==
  /\ sock[s] = "open" /\ reading[s]
  /\ reading' = [reading EXCEPT ![s] = FALSE]
  /\ UNCHANGED <<ln, pc, deadline, sock, replies, peer, sent, taken, passed, cp, eof>>

Expire ==
  /\ deadline = "armed"
  /\ deadline' = "expired"
  /\ UNCHANGED <<ln, pc, sock, replies, flow>>

-----------------------------------------------------------------------------
Next ==
  \/ Listen \/ StopListening \/ Accept
  \/ Greeting \/ Request \/ Unsupported \/ BadVersion \/ HandshakeCut
  \/ Dialled \/ DialFails \/ Reply \/ ReplyFails
  \/ \E s \in Side : Copy(s) \/ Pass(s) \/ CopyEnds(s) \/ HalfClose(s)
  \/ RelayDone \/ CloseBoth
  \/ \E s \in Side : PeerSends(s) \/ PeerEnds(s) \/ PeerStopsReading(s)
  \/ Expire

Spec == Init /\ [][Next]_vars

(***************************************************************************)
(* The goroutines run, the deadline and the dial timeout pass; the peers   *)
(* owe nothing.                                                            *)
(***************************************************************************)
FairSpec ==
  /\ Spec
  /\ WF_vars(HandshakeCut) /\ WF_vars(Dialled \/ DialFails)
  /\ WF_vars(Reply \/ ReplyFails) /\ WF_vars(RelayDone) /\ WF_vars(CloseBoth)
  /\ \A s \in Side : WF_vars(Copy(s) \/ Pass(s) \/ CopyEnds(s) \/ HalfClose(s))
  /\ WF_vars(Expire)

-----------------------------------------------------------------------------
\* Types, and a direction holds at most one chunk of what was sent.
TypeOK ==
  /\ ln \in {"none", "open", "closed"}
  /\ pc \in {"waiting", "greeting", "request", "dialing", "replying", "relaying",
             "closing", "done"}
  /\ deadline \in {"off", "armed", "expired"}
  /\ sock \in [Side -> {"none", "open", "closed"}]
  /\ replies \in Seq({"succeeded", "notSupported", "hostUnreachable", "generalFailure"})
  /\ peer \in [Side -> {"open", "fin", "rst"}]
  /\ reading \in [Side -> BOOLEAN]
  /\ sent \in [Side -> 0 .. MaxChunks]
  /\ taken \in [Side -> 0 .. MaxChunks] /\ passed \in [Side -> 0 .. MaxChunks]
  /\ cp \in [Side -> {"idle", "copying", "ending", "done"}]
  /\ eof \in [Side -> BOOLEAN]
  /\ \A s \in Side : passed[s] <= taken[s] /\ taken[s] <= sent[s] /\ taken[s] <= passed[s] + 1

Relayed == \A s \in Side : cp[s] # "idle"

(***************************************************************************)
(* The client sees at most one reply, "succeeded" exactly when its data    *)
(* are relayed to an open connection, and no byte of the target before it  *)
(* (handle, sendReply).                                                    *)
(***************************************************************************)
OneReply ==
  /\ Len(replies) <= 1
  /\ (replies = <<"succeeded">>) <=> Relayed
  /\ Relayed => sock["target"] # "none"
  /\ \A s \in Side : taken[s] > 0 => Relayed

(***************************************************************************)
(* A relay none of whose sides was reset passes on everything and both     *)
(* ends of stream before handle() closes the connections: no deadline of   *)
(* the handshake and no early return of relay cuts the slower direction.   *)
(***************************************************************************)
NothingCut ==
  pc \in {"closing", "done"} /\ Relayed /\ (\A s \in Side : peer[s] # "rst")
    => \A s \in Side : eof[s] /\ passed[s] = sent[s]

(***************************************************************************)
(* A client that is silent, slow or dead in the handshake does not hold a  *)
(* goroutine: handle() relays or is over (its 30 s deadline).              *)
(***************************************************************************)
HandshakeBounded ==
  pc \in {"greeting", "request", "dialing", "replying"} ~> pc \in {"relaying", "done"}

(***************************************************************************)
(* A side that ends its stream makes the other one see end of file, unless *)
(* that one was reset or has stopped reading ("half-close so the peer sees *)
(* EOF").                                                                  *)
(***************************************************************************)
EndIsPassedOn ==
  \A s \in Side :
    pc = "relaying" /\ peer[s] # "open"
      ~> eof[s] \/ peer[Other(s)] = "rst" \/ ~reading[Other(s)]

(***************************************************************************)
(* When both sides have ended, handle() returns and both connections are   *)
(* closed, unless a side that is still open has stopped reading; one side  *)
(* alone keeps the relay, and the other side's connection, for as long as  *)
(* it likes (relay waits twice on done).                                   *)
(***************************************************************************)
RelayEnds ==
  pc = "relaying" /\ (\A s \in Side : peer[s] # "open")
    ~> \/ pc = "done" /\ (\A s \in Side : sock[s] = "closed")
       \/ \E s \in Side : ~reading[s] /\ peer[s] # "rst"
=============================================================================
