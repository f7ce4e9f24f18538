------------------------- MODULE ReplayFilterProofs -------------------------
(***************************************************************************)
(* Proofs about ReplayFilter, for any tokens, handlers, window, TTL, skew  *)
(* and stall.                                                              *)
(*                                                                         *)
(* None of the properties is inductive by itself.  What carries them is    *)
(* the relation between the filter's map and the history of acceptances    *)
(* (Ledger), and what a handler in the middle of checkAuth still knows     *)
(* about its token although the clock has moved on (InFlight).             *)
(***************************************************************************)
EXTENDS ReplayFilter, TLAPS

\* A handler past the HMAC test holds a token that was fresh at born[h],
\* and not longer than MaxStall ago.
InFlight ==
  \A h \in Handler : pc[h] # "idle" =>
    /\ req[h] \in Token
    /\ ts[req[h]] # Absent
    /\ ts[req[h]] - AuthWindow <= born[h]
    /\ born[h] <= ts[req[h]] + AuthWindow
    /\ now <= born[h] + MaxStall
    /\ pc[h] = "locking" => born[h] <= clk[h]

\* An accepted token is remembered until mark + TTL; it is forgotten only
\* once the clock has got that far.
Ledger ==
  \A r \in Request :
    /\ seen[r] # Absent => accepts[r] > 0
    /\ accepts[r] > 0 =>
         /\ r \in Token
         /\ ts[r] # Absent
         /\ ts[r] - AuthWindow <= mark[r]
         /\ \/ seen[r] = mark[r] + TTL
            \/ seen[r] = Absent /\ mark[r] + TTL <= now

RefusedWereAccepted == \A r \in refused : accepts[r] > 0

IInv == TypeOK /\ InFlight /\ Ledger /\ RefusedWereAccepted

\* The initial state satisfies the inductive invariant.
LEMMA InitIInv == Init => IInv
  BY ConstantsAssumption
  DEF Init, IInv, TypeOK, InFlight, Ledger, RefusedWereAccepted, Absent, Request

\* Minting and the clock: nothing is accepted, and no call outlasts its bound.
LEMMA EnvironmentKeepsIInv ==
  IInv /\ (Tick \/ \E r \in Request : Mint(r)) => IInv'
<1> SUFFICES ASSUME IInv, Tick \/ \E r \in Request : Mint(r)
             PROVE  IInv'
  OBVIOUS
<1> USE ConstantsAssumption DEF IInv, Request, Absent
<1>1. CASE Tick
  <2>1. TypeOK'
    BY <1>1 DEF TypeOK, Tick, filter, calls, history
  <2>2. InFlight'
    BY <1>1 DEF TypeOK, InFlight, Tick, filter, calls, history
  <2>3. Ledger' /\ RefusedWereAccepted'
    BY <1>1
    DEF TypeOK, Ledger, RefusedWereAccepted, Tick, filter, calls, history
  <2> QED BY <2>1, <2>2, <2>3
<1>2. ASSUME NEW r \in Request, Mint(r)
      PROVE  IInv'
  <2>1. TypeOK'
    BY <1>2 DEF TypeOK, Mint, filter, calls, history
  <2>2. InFlight'
    BY <1>2 DEF TypeOK, InFlight, Mint, filter, calls, history
  <2>3. Ledger' /\ RefusedWereAccepted'
    BY <1>2
    DEF TypeOK, Ledger, RefusedWereAccepted, Mint, filter, calls, history
  <2> QED BY <2>1, <2>2, <2>3
<1> QED BY <1>1, <1>2

\* The two clock readings of a call.
LEMMA ReadingsKeepIInv ==
  ASSUME IInv, NEW h \in Handler,
         (\E r \in Request : CheckAuth(h, r)) \/ ReadClock(h)
  PROVE  IInv'
<1> USE ConstantsAssumption DEF IInv, Request, Absent
<1>1. ASSUME NEW r \in Request, CheckAuth(h, r)
      PROVE  IInv'
  <2>1. TypeOK'
    BY <1>1 DEF TypeOK, CheckAuth, filter, history
  <2>2. InFlight'
    BY <1>1
    DEF TypeOK, InFlight, CheckAuth, Fresh, Authentic, filter, history
  <2>3. Ledger' /\ RefusedWereAccepted'
    BY <1>1 DEF Ledger, RefusedWereAccepted, CheckAuth, filter, history
  <2> QED BY <2>1, <2>2, <2>3
<1>2. CASE ReadClock(h)
  <2>1. TypeOK'
    BY <1>2 DEF TypeOK, ReadClock, filter, history
  <2>2. InFlight'
    BY <1>2 DEF TypeOK, InFlight, ReadClock, filter, history
  <2>3. Ledger' /\ RefusedWereAccepted'
    BY <1>2 DEF Ledger, RefusedWereAccepted, ReadClock, filter, history
  <2> QED BY <2>1, <2>2, <2>3
<1> QED BY <1>1, <1>2

\* What the sweep leaves of the map at reading t: an entry, or nothing once
\* the entry's expiry is no later than t.
LEMMA SweptEntries ==
  ASSUME TypeOK, NEW t \in Nat, NEW r \in Request
  PROVE  /\ Swept(t) \in [Request -> Nat \cup {Absent}]
         /\ Swept(t)[r] = seen[r] \/ (Swept(t)[r] = Absent /\ seen[r] <= t)
  BY ConstantsAssumption DEF TypeOK, Swept, SweepDue, Absent

\* The critical section of ReplayFilter.Check.
LEMMA CheckKeepsIInv ==
  ASSUME IInv, NEW h \in Handler, Check(h)
  PROVE  IInv'
<1> DEFINE r == req[h]
           t == clk[h]
           s == Swept(t)
<1>1. /\ TypeOK /\ InFlight /\ Ledger /\ RefusedWereAccepted
      /\ pc[h] = "locking"
      /\ r \in Request /\ r \in Token
      /\ t \in Nat /\ t <= now
      /\ now \in Nat /\ TTL \in Nat /\ TTL > 0
  BY ConstantsAssumption DEF IInv, InFlight, TypeOK, Check, Request
<1>2. /\ s \in [Request -> Nat \cup {Absent}]
      /\ \A q \in Request :
           s[q] = seen[q] \/ (s[q] = Absent /\ seen[q] <= t)
  BY <1>1, SweptEntries
<1>3. /\ ts[r] # Absent
      /\ ts[r] - AuthWindow <= t
      /\ ts[r] \in Nat /\ born[h] \in Nat
  BY <1>1, ConstantsAssumption DEF InFlight, TypeOK, Absent
<1>4. LastSweep(t) \in 0 .. now
  BY <1>1 DEF LastSweep, SweepDue, TypeOK
<1> HIDE DEF r, t, s
<1>5. CASE Remembered(s, r, t)
  <2>1. /\ seen' = s /\ lastGC' = LastSweep(t)
        /\ refused' = refused \cup {r}
        /\ accepts' = accepts /\ mark' = mark /\ now' = now /\ ts' = ts
        /\ pc' = [pc EXCEPT ![h] = "idle"]
        /\ req' = [req EXCEPT ![h] = NoRequest]
        /\ born' = [born EXCEPT ![h] = 0]
        /\ clk' = [clk EXCEPT ![h] = 0]
    BY <1>5 DEF Check, r, t, s
  <2>2. TypeOK'
    BY <1>1, <1>2, <1>4, <2>1 DEF TypeOK
  <2>3. InFlight'
    BY <1>1, <2>1 DEF InFlight, TypeOK
  <2>4. Ledger'
    BY <1>1, <1>2, <2>1, ConstantsAssumption DEF Ledger, TypeOK, Absent
  <2>5. accepts[r] > 0
    BY <1>1, <1>2, <1>5 DEF Ledger, Remembered, Absent
  <2>6. RefusedWereAccepted'
    BY <1>1, <2>1, <2>5 DEF RefusedWereAccepted
  <2> QED BY <2>2, <2>3, <2>4, <2>6 DEF IInv
<1>6. CASE ~Remembered(s, r, t)
  <2>1. /\ seen' = [s EXCEPT ![r] = t + TTL] /\ lastGC' = LastSweep(t)
        /\ refused' = refused
        /\ accepts' = [accepts EXCEPT ![r] = @ + 1]
        /\ mark' = [mark EXCEPT ![r] = t]
        /\ now' = now /\ ts' = ts
        /\ pc' = [pc EXCEPT ![h] = "idle"]
        /\ req' = [req EXCEPT ![h] = NoRequest]
        /\ born' = [born EXCEPT ![h] = 0]
        /\ clk' = [clk EXCEPT ![h] = 0]
    BY <1>6 DEF Check, Expiry, r, t, s
  <2>2. TypeOK'
    BY <1>1, <1>2, <1>4, <2>1 DEF TypeOK
  <2>3. InFlight'
    BY <1>1, <2>1 DEF InFlight, TypeOK
  <2>4. Ledger'
    <3> SUFFICES ASSUME NEW q \in Request
                 PROVE  /\ seen'[q] # Absent => accepts'[q] > 0
                        /\ accepts'[q] > 0 =>
                             /\ q \in Token
                             /\ ts'[q] # Absent
                             /\ ts'[q] - AuthWindow <= mark'[q]
                             /\ \/ seen'[q] = mark'[q] + TTL
                                \/ seen'[q] = Absent /\ mark'[q] + TTL <= now'
      BY DEF Ledger
    <3>1. CASE q = r
      BY <3>1, <1>1, <1>2, <1>3, <2>1 DEF TypeOK, Absent
    <3>2. CASE q # r
      BY <3>2, <1>1, <1>2, <2>1, ConstantsAssumption DEF Ledger, TypeOK, Absent
    <3> QED BY <3>1, <3>2
  <2>5. RefusedWereAccepted'
    BY <1>1, <2>1 DEF RefusedWereAccepted, TypeOK
  <2> QED BY <2>2, <2>3, <2>4, <2>5 DEF IInv
<1> QED BY <1>5, <1>6

\* Every step of the system, or of its environment, keeps the invariant.
LEMMA NextIInv == IInv /\ [Next]_vars => IInv'
<1> SUFFICES ASSUME IInv, [Next]_vars
             PROVE  IInv'
  OBVIOUS
<1>1. CASE UNCHANGED vars
  BY <1>1 DEF vars, filter, calls, history, IInv, TypeOK, InFlight, Ledger,
              RefusedWereAccepted
<1>2. CASE Next
  BY <1>2, EnvironmentKeepsIInv, ReadingsKeepIInv, CheckKeepsIInv DEF Next
<1> QED BY <1>1, <1>2

LEMMA Invariance == Spec => []IInv
  BY InitIInv, NextIInv, PTL DEF Spec

(***************************************************************************)
(* Type correctness: the filter's clock readings never run ahead of the    *)
(* clock.                                                                  *)
(***************************************************************************)
THEOREM TypeCorrect == Spec => []TypeOK
<1>1. IInv => TypeOK
  BY DEF IInv
<1> QED BY <1>1, Invariance, PTL

(***************************************************************************)
(* ReplayFilter.Check never refuses a token it has not admitted before,    *)
(* and only authentic tokens take room in its map.                         *)
(***************************************************************************)
THEOREM NeverFalsePositive == Spec => []NoFalsePositive
<1>1. IInv => NoFalsePositive
  BY DEF IInv, NoFalsePositive, RefusedWereAccepted, Ledger
<1> QED BY <1>1, Invariance, PTL

\* The step that accepts a token a second time.
LEMMA ReacceptStep ==
  ASSUME IInv, [Next]_vars, NEW r \in Request,
         accepts[r] > 0, accepts'[r] # accepts[r]
  PROVE  /\ now >= mark[r] + TTL
         /\ mark[r] + TTL <= ts[r] + AuthWindow + MaxStall
<1>1. PICK h \in Handler : Check(h) /\ req[h] = r
  BY DEF Next, Tick, Mint, CheckAuth, ReadClock, Check, vars, history, IInv,
         TypeOK, Request
<1>2. /\ pc[h] = "locking" /\ ~Remembered(Swept(clk[h]), r, clk[h])
      /\ clk[h] \in Nat /\ clk[h] <= now /\ now \in Nat
  BY <1>1 DEF Check, IInv, TypeOK
<1>3. /\ Swept(clk[h])[r] \in Nat \cup {Absent}
      /\ \/ Swept(clk[h])[r] = seen[r]
         \/ Swept(clk[h])[r] = Absent /\ seen[r] <= clk[h]
  BY <1>2, SweptEntries DEF IInv
<1>4. /\ mark[r] \in Nat /\ TTL \in Nat
      /\ \/ seen[r] = mark[r] + TTL
         \/ seen[r] = Absent /\ mark[r] + TTL <= now
  BY ConstantsAssumption DEF IInv, Ledger, TypeOK
<1>5. mark[r] + TTL <= now
  BY <1>2, <1>3, <1>4 DEF Remembered, Absent
<1>6. /\ now <= born[h] + MaxStall /\ born[h] <= ts[r] + AuthWindow
      /\ born[h] \in Nat /\ ts[r] \in Nat
  BY <1>1, <1>2 DEF IInv, InFlight, TypeOK
<1> QED BY <1>2, <1>4, <1>5, <1>6, ConstantsAssumption

(***************************************************************************)
(* A replay gets through ReplayFilter.Check only at the very edge of the   *)
(* token's acceptance span.                                                *)
(***************************************************************************)
THEOREM ReplayOnlyAtEdge == Spec => ReacceptedOnlyAtEdge
<1> DEFINE Edge == \A r \in Request :
                     accepts[r] > 0 /\ accepts'[r] # accepts[r] =>
                       /\ now >= mark[r] + TTL
                       /\ mark[r] + TTL <= ts[r] + AuthWindow + MaxStall
<1>1. IInv /\ [Next]_vars => [Edge]_vars
  BY ReacceptStep
<1>2. Spec => [][Edge]_vars
  BY <1>1, Invariance, PTL DEF Spec
<1> QED BY <1>2 DEF ReacceptedOnlyAtEdge

(***************************************************************************)
(* A TTL longer than the inclusive acceptance span 2 * authWindow, plus    *)
(* the longest stall of a call, is enough for "no replay".  The code's     *)
(* 2 * authWindow is not (run replay_edge).                                *)
(***************************************************************************)
THEOREM WideEnoughNeverReplays ==
  ASSUME TTL > 2 * AuthWindow + MaxStall
  PROVE  Spec => []AcceptedOnce
<1> DEFINE Inv == IInv /\ AcceptedOnce
<1>1. Init => Inv
  BY InitIInv DEF Init, AcceptedOnce
<1>2. Inv /\ [Next]_vars => Inv'
  <2> SUFFICES ASSUME IInv, AcceptedOnce, [Next]_vars, NEW r \in Request
               PROVE  accepts'[r] <= 1
    BY NextIInv DEF AcceptedOnce
  <2>1. accepts[r] \in Nat /\ accepts[r] <= 1 /\ mark[r] \in Nat
    BY DEF IInv, TypeOK, AcceptedOnce
  <2>2. CASE accepts'[r] = accepts[r]
    BY <2>1, <2>2
  <2>3. CASE accepts[r] > 0
    <3>1. ts[r] \in Nat /\ ts[r] - AuthWindow <= mark[r]
      BY <2>3 DEF IInv, Ledger, TypeOK
    <3>2. accepts'[r] # accepts[r] =>
            mark[r] + TTL <= ts[r] + AuthWindow + MaxStall
      BY <2>3, ReacceptStep
    <3> QED BY <2>1, <3>1, <3>2, ConstantsAssumption
  <2>4. CASE accepts[r] = 0 /\ accepts'[r] # accepts[r]
    <3>1. accepts'[r] = accepts[r] + 1
      BY <2>4 DEF Next, Tick, Mint, CheckAuth, ReadClock, Check, vars, history,
                  IInv, TypeOK
    <3> QED BY <2>4, <3>1
  <2> QED BY <2>1, <2>2, <2>3, <2>4
<1>3. Inv => AcceptedOnce
  OBVIOUS
<1> QED BY <1>1, <1>2, <1>3, PTL DEF Spec

-----------------------------------------------------------------------------
\* The sweep's own invariant: nothing kept had expired at the last sweep.
KeptAfterSweep == \A r \in Request : seen[r] # Absent => seen[r] > lastGC

\* It survives stale readings as long as no call stalls for a whole TTL.
LEMMA NextKept ==
  ASSUME MaxStall < TTL, IInv, KeptAfterSweep, [Next]_vars
  PROVE  KeptAfterSweep'
<1>1. ASSUME NEW h \in Handler, Check(h)
      PROVE  KeptAfterSweep'
  <2>1. /\ clk[h] \in Nat /\ clk[h] <= now /\ now \in Nat /\ lastGC \in Nat
        /\ lastGC <= now /\ born[h] \in Nat
        /\ now <= born[h] + MaxStall /\ born[h] <= clk[h]
        /\ req[h] \in Request
        /\ seen \in [Request -> Nat \cup {Absent}]
    BY <1>1 DEF IInv, TypeOK, InFlight, Check, Request
  <2>2. clk[h] + TTL > LastSweep(clk[h])
    BY <2>1, ConstantsAssumption DEF LastSweep, SweepDue
  <2>3. /\ Swept(clk[h]) \in [Request -> Nat \cup {Absent}]
        /\ \A r \in Request :
             Swept(clk[h])[r] # Absent => Swept(clk[h])[r] > LastSweep(clk[h])
    BY <2>1, ConstantsAssumption
    DEF KeptAfterSweep, Swept, LastSweep, SweepDue, Absent
  <2>4. /\ lastGC' = LastSweep(clk[h])
        /\ \/ seen' = Swept(clk[h])
           \/ seen' = [Swept(clk[h]) EXCEPT ![req[h]] = clk[h] + TTL]
    BY <1>1 DEF Check, Expiry
  <2> QED BY <2>1, <2>2, <2>3, <2>4 DEF KeptAfterSweep
<1>2. CASE UNCHANGED <<seen, lastGC>>
  BY <1>2 DEF KeptAfterSweep
<1> QED BY <1>1, <1>2 DEF Next, Tick, Mint, CheckAuth, ReadClock, vars, filter

(***************************************************************************)
(* The filter's memory is bounded by the requests of the last two TTLs:    *)
(* a call leaves nothing behind that expired TTL or more before its        *)
(* reading, if no call stalls for a whole TTL.                             *)
(***************************************************************************)
THEOREM FilterMemoryBounded ==
  ASSUME MaxStall < TTL
  PROVE  Spec => MemoryBounded
<1> DEFINE Inv == IInv /\ KeptAfterSweep
           Bound == \A h \in Handler :
                      pc[h] = "locking" /\ pc'[h] = "idle" =>
                        \A r \in Request :
                          seen'[r] # Absent => seen'[r] + TTL > clk[h]
<1>1. Init => Inv
  BY InitIInv DEF Init, KeptAfterSweep, Absent
<1>2. Inv /\ [Next]_vars => Inv'
  BY NextIInv, NextKept
<1>3. Inv /\ [Next]_vars => [Bound]_vars
  <2> SUFFICES ASSUME Inv, Next, NEW h \in Handler,
                      pc[h] = "locking", pc'[h] = "idle",
                      NEW r \in Request, seen'[r] # Absent
               PROVE  seen'[r] + TTL > clk[h]
    OBVIOUS
  <2>1. Check(h)
    BY DEF Next, Tick, Mint, CheckAuth, ReadClock, Check, calls, IInv, TypeOK
  <2>2. /\ clk[h] \in Nat /\ lastGC \in Nat /\ req[h] \in Request
        /\ now \in Nat
        /\ seen \in [Request -> Nat \cup {Absent}]
    BY <2>1 DEF IInv, TypeOK, InFlight, Check, Request
  <2>3. /\ Swept(clk[h]) \in [Request -> Nat \cup {Absent}]
        /\ Swept(clk[h])[r] # Absent => Swept(clk[h])[r] + TTL > clk[h]
    BY <2>2, ConstantsAssumption DEF KeptAfterSweep, Swept, SweepDue, Absent
  <2>4. \/ seen' = Swept(clk[h])
        \/ seen' = [Swept(clk[h]) EXCEPT ![req[h]] = clk[h] + TTL]
    BY <2>1 DEF Check, Expiry
  <2> QED BY <2>2, <2>3, <2>4, ConstantsAssumption
<1>4. Spec => [][Bound]_vars
  BY <1>1, <1>2, <1>3, PTL DEF Spec
<1> QED BY <1>4 DEF MemoryBounded
=============================================================================
