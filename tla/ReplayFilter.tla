---------------------------- MODULE ReplayFilter ----------------------------
(***************************************************************************)
(* Admission of one channel request by the server: Handler.checkAuth       *)
(* (internal/transport/server.go) and the ReplayFilter it consults         *)
(* (internal/crypto/crypto.go).                                            *)
(*                                                                         *)
(* A client mints a token that authenticates its own timestamp ts; the     *)
(* network may present the token any number of times, to any number of     *)
(* concurrently running handlers.  checkAuth reads the clock for the       *)
(* freshness test; ReplayFilter.Check reads it again, BEFORE it takes the  *)
(* filter's mutex; only the map operations run under the mutex.  The three *)
(* steps are three actions, so a handler may work with a stale reading.    *)
(*                                                                         *)
(* The clock is the server's, in whole seconds, and never goes back.  HMAC *)
(* is perfect: a request in Forged never carries a valid one, and two      *)
(* minted tokens are never equal (each binds a fresh ephemeral key).       *)
(***************************************************************************)
EXTENDS Integers

CONSTANTS
  Token,       \* the tokens clients mint
  Forged,      \* requests whose cookies carry no valid HMAC
  Handler,     \* goroutines running ServeHTTP
  NoRequest,   \* a handler that is not inside checkAuth
  AuthWindow,  \* authWindow: accepted clock skew, 120 in the code
  TTL,         \* ReplayFilter.ttl: 2 * authWindow in the code
  MaxSkew,     \* bound: how far a client's clock is from the server's
  MaxStall,    \* bound: seconds one call of checkAuth may take
  Start,       \* clock reading when the server starts
  MaxNow       \* bound: last clock reading explored

ASSUME ConstantsAssumption ==
  /\ Token \cap Forged = {}
  /\ NoRequest \notin Token \cup Forged
  /\ AuthWindow \in Nat /\ TTL \in Nat \ {0}
  /\ MaxSkew \in Nat /\ MaxStall \in Nat
  /\ Start \in Nat /\ MaxNow \in Nat
  /\ Start > TTL

Request == Token \cup Forged

Absent == -1   \* a token the filter does not hold, or one not minted yet

VARIABLES
  now,      \* time.Now().Unix() on the server
  ts,       \* timestamp each minted request carries
  seen,     \* ReplayFilter.seen: expiry by token
  lastGC,   \* ReplayFilter.lastGC
  pc,       \* where each handler stands inside checkAuth
  req,      \* the request it is handling
  born,     \* its clock reading in checkAuth
  clk,      \* its clock reading in ReplayFilter.Check
  accepts,  \* history: how often each request was let through
  mark,     \* history: clk of the latest time it was let through
  refused   \* history: requests the filter turned away as replays

filter  == <<seen, lastGC>>
calls   == <<pc, req, born, clk>>
history == <<accepts, mark, refused>>
vars    == <<now, ts, filter, calls, history>>

Init ==
  /\ now = Start
  /\ ts = [r \in Request |-> Absent]
  /\ seen = [r \in Request |-> Absent]
  /\ lastGC = 0
  /\ pc = [h \in Handler |-> "idle"]
  /\ req = [h \in Handler |-> NoRequest]
  /\ born = [h \in Handler |-> 0]
  /\ clk = [h \in Handler |-> 0]
  /\ accepts = [r \in Request |-> 0]
  /\ mark = [r \in Request |-> 0]
  /\ refused = {}

-----------------------------------------------------------------------------
(* The environment: clients, and time.                                     *)

\* dialChannel: the token authenticates the client's own clock reading.
Mint(r) ==
  /\ ts[r] = Absent
  /\ \E skew \in -MaxSkew .. MaxSkew :
       /\ now + skew >= 0
       /\ ts' = [ts EXCEPT ![r] = now + skew]
  /\ UNCHANGED <<now, filter, calls, history>>

\* One second passes; no call of checkAuth outlasts MaxStall.
Tick ==
  /\ now < MaxNow
  /\ \A h \in Handler : pc[h] # "idle" => now < born[h] + MaxStall
  /\ now' = now + 1
  /\ UNCHANGED <<ts, filter, calls, history>>

-----------------------------------------------------------------------------
(* Handler.checkAuth                                                       *)

\* ts < now-authWindow || ts > now+authWindow is the early return.
Fresh(r, t) == ts[r] >= t - AuthWindow /\ ts[r] <= t + AuthWindow

\* ConstantTimeEqual(want, token).
AuthenticIgnored(r) == TRUE
Authentic(r) == r \in Token

\* Read the clock, test freshness, then the HMAC.  A request that fails any
\* test is served the decoy and changes nothing: that is a stuttering step.
CheckAuth(h, r) ==
  /\ pc[h] = "idle"
  /\ ts[r] # Absent
  /\ Fresh(r, now) /\ Authentic(r)
  /\ pc' = [pc EXCEPT ![h] = "authentic"]
  /\ req' = [req EXCEPT ![h] = r]
  /\ born' = [born EXCEPT ![h] = now]
  /\ UNCHANGED <<now, ts, filter, clk, history>>

\* ReplayFilter.Check, line 1: the clock is read outside the mutex.
ReadClock(h) ==
  /\ pc[h] = "authentic"
  /\ pc' = [pc EXCEPT ![h] = "locking"]
  /\ clk' = [clk EXCEPT ![h] = now]
  /\ UNCHANGED <<now, ts, filter, req, born, history>>

\* The opportunistic sweep of expired entries, at most once per TTL.
SweepDueSwapped(t) == lastGC - t > TTL
SweepDue(t) == t - lastGC > TTL

Swept(t) ==
  IF SweepDue(t)
  THEN [r \in Request |-> IF seen[r] <= t THEN Absent ELSE seen[r]]
  ELSE seen

LastSweep(t) == IF SweepDue(t) THEN t ELSE lastGC

\* Is r remembered by s and not expired at t?
Remembered(s, r, t) == s[r] # Absent /\ s[r] > t

ExpiryWindow(t) == t + AuthWindow
Expiry(t) == t + TTL

\* ReplayFilter.Check under the mutex: sweep, then look up, then record.
Check(h) ==
  LET r == req[h]
      t == clk[h]
      s == Swept(t)
  IN /\ pc[h] = "locking"
     /\ lastGC' = LastSweep(t)
     /\ \/ /\ Remembered(s, r, t)
           /\ seen' = s
           /\ refused' = refused \cup {r}
           /\ UNCHANGED <<accepts, mark>>
        \/ /\ ~Remembered(s, r, t)
           /\ seen' = [s EXCEPT ![r] = Expiry(t)]
           /\ accepts' = [accepts EXCEPT ![r] = @ + 1]
           /\ mark' = [mark EXCEPT ![r] = t]
           /\ UNCHANGED refused
     /\ pc' = [pc EXCEPT ![h] = "idle"]
     /\ req' = [req EXCEPT ![h] = NoRequest]
     /\ born' = [born EXCEPT ![h] = 0]
     /\ clk' = [clk EXCEPT ![h] = 0]
     /\ UNCHANGED <<now, ts>>

Next ==
  \/ Tick
  \/ \E r \in Request : Mint(r)
  \/ \E h \in Handler, r \in Request : CheckAuth(h, r)
  \/ \E h \in Handler : ReadClock(h)
  \/ \E h \in Handler : Check(h)

Spec == Init /\ [][Next]_vars

-----------------------------------------------------------------------------
TypeOK ==
  /\ now \in Nat
  /\ ts \in [Request -> Nat \cup {Absent}]
  /\ seen \in [Request -> Nat \cup {Absent}]
  /\ lastGC \in 0 .. now
  /\ pc \in [Handler -> {"idle", "authentic", "locking"}]
  /\ req \in [Handler -> Request \cup {NoRequest}]
  /\ born \in [Handler -> 0 .. now]
  /\ clk \in [Handler -> 0 .. now]
  /\ accepts \in [Request -> Nat]
  /\ mark \in [Request -> 0 .. now]
  /\ refused \subseteq Request

(***************************************************************************)
(* The filter refuses only what it has admitted: a token presented for the *)
(* first time is never mistaken for a replay, whatever the other handlers  *)
(* and the sweep do between its steps, and a request without a valid HMAC  *)
(* never reaches the filter's map.                                         *)
(***************************************************************************)
NoFalsePositive ==
  /\ \A r \in refused : accepts[r] > 0
  /\ \A r \in Request : seen[r] # Absent => r \in Token /\ accepts[r] > 0

(***************************************************************************)
(* No replay: Check answers true at most once per token ("no replay within *)
(* the window", crypto.go).                                                *)
(***************************************************************************)
AcceptedOnce == \A r \in Request : accepts[r] <= 1

(***************************************************************************)
(* What the filter guarantees for any TTL: a second acceptance happens     *)
(* only after the first has been remembered for TTL whole seconds, and     *)
(* only where TTL is not longer than what was left of the token's          *)
(* acceptance span plus the time a call may stall between its readings.    *)
(***************************************************************************)
ReacceptedOnlyAtEdge ==
  [][\A r \in Request :
       accepts[r] > 0 /\ accepts'[r] # accepts[r] =>
         /\ now >= mark[r] + TTL
         /\ mark[r] + TTL <= ts[r] + AuthWindow + MaxStall]_vars

(***************************************************************************)
(* Memory stays bounded by rate * ttl (comment in Check): once a call with *)
(* reading t is over, nothing is left that expired TTL or more before t.   *)
(***************************************************************************)
MemoryBounded ==
  [][\A h \in Handler :
       pc[h] = "locking" /\ pc'[h] = "idle" =>
         \A r \in Request : seen'[r] # Absent => seen'[r] + TTL > clk[h]]_vars

=============================================================================
