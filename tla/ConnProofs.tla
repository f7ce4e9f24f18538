----------------------------- MODULE ConnProofs -----------------------------
(***************************************************************************)
(* Proofs about Conn, for any writers, packets and counter width.          *)
(*                                                                         *)
(* The counters tell everything apart: the wire holds the nonces rx,       *)
(* rx + 1, ... in this order (Consecutive), and as long as the socket      *)
(* takes writes the next nonce to be written is the one after them         *)
(* (Gapless).  The record in the writer's hands is part of that account.   *)
(* Wellmade is what padFor guarantees of a record from the moment it is    *)
(* sealed: it fits the read limit and the opening ones are long enough.    *)
(***************************************************************************)
EXTENDS Conn, TLAPS, SequenceTheorems

InHand == \E w \in Writer : pc[w] = "writing"

Consecutive == \A i \in 1 .. Len(wire) : wire[i].nonce = rx + (i - 1)

Gapless ==
  /\ InHand => tx > 0 /\ ct.nonce = tx - 1 /\ rx + Len(wire) <= tx - 1
  /\ rx + Len(wire) <= tx
  /\ txUp /\ InHand => rx + Len(wire) = tx - 1
  /\ txUp /\ ~InHand => rx + Len(wire) = tx

Spending == \A n \in Nonce : spent[n] <= 1 /\ (n >= tx => spent[n] = 0)

Account ==
  /\ Len(sent) = Len(got) + Len(wire)
  /\ \A i \in 1 .. Len(wire) : sent[Len(got) + i] = wire[i].body

Wellmade(m) == Fits(m) /\ (m.nonce < BurstRecords => PlainLen(m) >= BurstMin)

AllMade ==
  /\ \A i \in 1 .. Len(wire) : Wellmade(wire[i])
  /\ InHand => Wellmade(ct)

IInv == TypeOK /\ Consecutive /\ Gapless /\ Spending /\ Account /\ AllMade

LEMMA InitIInv == Init => IInv
  BY ConnAssumption
  DEF Init, IInv, TypeOK, Consecutive, Gapless, Spending, Account, AllMade, InHand,
      Nonce, Sealed, Body, Pad

\* Before the counter wraps, Succ is addition.
LEMMA SuccIsPlusOne ==
  ASSUME NEW n \in Nonce, ~Exhausted(n)
  PROVE  n + 1 \in Nonce /\ Succ(n) = n + 1
  BY ConnAssumption DEF Nonce, Exhausted, Succ

\* What padFor returns fits the read limit and fills the opening records.
LEMMA PadForMakes ==
  ASSUME NEW count \in Nat, NEW len \in Nat, ~TooBig(len), NEW pad \in PadFor(count, len)
  PROVE  /\ pad \in Nat
         /\ HeaderLen + len + pad + TagSize <= ReadLimit
         /\ count < BurstRecords => HeaderLen + len + pad >= BurstMin
<1> USE ConnAssumption, PolicyFits DEF TooBig, ReadLimit
<1>1. CASE count < BurstRecords
  <2>1. PICK t \in Draw(BurstMin, BurstMax - BurstMin) :
          pad = IF t > HeaderLen + len THEN t - (HeaderLen + len) ELSE 0
    BY <1>1 DEF PadFor
  <2>2. t \in Nat /\ t >= BurstMin /\ t + TagSize <= MaxPayload + Slack
    BY DEF Draw
  <2> QED BY <1>1, <2>1, <2>2
<1>2. CASE ~(count < BurstRecords)
  <2>1. pad \in Draw(0, SteadyMax)
    BY <1>2 DEF PadFor
  <2>2. pad \in Nat /\ HeaderLen + TagSize + pad <= Slack
    BY <2>1 DEF Draw
  <2> QED BY <1>2, <2>2
<1> QED BY <1>1, <1>2

\* Calls, the lock and the early returns move no record.
LEMMA QuietStep ==
  ASSUME IInv, NEW w \in Writer,
         (\E b \in Body : Call(w, b)) \/ Lock(w) \/ SealFails(w)
  PROVE  IInv'
<1> USE ConnAssumption
<1>1. /\ UNCHANGED <<tx, ct, wire, txUp, rx, rxUp, sent, got, spent>>
      /\ \A v \in Writer : pc'[v] = "writing" <=> pc[v] = "writing"
  BY DEF Call, Lock, SealFails, Return, IInv, TypeOK
<1>2. TypeOK'
  <2>1. CASE \E b \in Body : Call(w, b)
    BY <2>1 DEF Call, IInv, TypeOK
  <2>2. CASE Lock(w)
    BY <2>2 DEF Lock, IInv, TypeOK
  <2>3. CASE SealFails(w)
    BY <2>3 DEF SealFails, Return, IInv, TypeOK
  <2> QED BY <2>1, <2>2, <2>3
<1>3. InHand' <=> InHand
  BY <1>1 DEF InHand
<1>4. Consecutive' /\ Gapless' /\ Spending' /\ Account' /\ AllMade'
  BY <1>1, <1>3
  DEF IInv, Consecutive, Gapless, Spending, Account, AllMade, Wellmade, Fits, PlainLen
<1> QED BY <1>2, <1>4 DEF IInv

\* Sealing spends the nonce tx.
LEMMA SealStep ==
  ASSUME IInv, NEW w \in Writer, Seal(w)
  PROVE  IInv'
<1>1. TypeOK /\ Consecutive /\ Gapless /\ Spending /\ Account /\ AllMade
  BY DEF IInv
<1>2. ~InHand
  BY <1>1, ConnAssumption DEF InHand, TypeOK, Seal
<1>3. InHand'
  BY <1>1 DEF InHand, TypeOK, Seal
<1>4. tx \in Nat /\ rx \in Nat /\ tx + 1 \in Nonce /\ tx' = tx + 1
  BY <1>1, SuccIsPlusOne DEF Seal, TypeOK, Nonce
<1>a. job[w] \in Body /\ job[w] \in Nat /\ ~TooBig(job[w])
  <2>1. job[w] \in Body /\ ~TooBig(job[w])
    BY <1>1 DEF Seal, TypeOK
  <2>2. Body \subseteq Nat
    BY ConnAssumption DEF Body, Pad
  <2> QED BY <2>1, <2>2
<1>b. PICK pad \in PadFor(tx, job[w]) :
        ct' = [nonce |-> tx, body |-> job[w], pad |-> pad]
  BY DEF Seal
<1>c. /\ pad \in Nat
      /\ HeaderLen + job[w] + pad + TagSize <= ReadLimit
      /\ tx < BurstRecords => HeaderLen + job[w] + pad >= BurstMin
  BY <1>4, <1>a, PadForMakes
<1>d. ct' \in Sealed /\ ct'.nonce = tx /\ Wellmade(ct')
  <2>1. ct' \in Sealed
    BY <1>1, <1>a, <1>b, <1>c DEF TypeOK, Sealed
  <2>2. ct'.nonce = tx /\ ct'.body = job[w] /\ ct'.pad = pad
    BY <1>b
  <2> QED BY <2>1, <2>2, <1>c DEF Wellmade, Fits, PlainLen
<1>5. TypeOK'
  BY <1>1, <1>4, <1>d, ConnAssumption DEF Seal, TypeOK
<1>6. Consecutive' /\ Account'
  BY <1>1 DEF Consecutive, Account, Seal
<1>7. Gapless'
  BY <1>1, <1>2, <1>3, <1>4, <1>d DEF Gapless, Seal, TypeOK
<1>8. Spending'
  BY <1>1, <1>4 DEF Spending, Seal, TypeOK, Nonce
<1>9. AllMade'
  <2>1. wire' = wire
    BY DEF Seal
  <2> QED BY <2>1, <1>1, <1>d DEF AllMade, Wellmade, Fits, PlainLen
<1> QED BY <1>5, <1>6, <1>7, <1>8, <1>9 DEF IInv

\* The write puts the record in hand behind the others.
LEMMA WriteStep ==
  ASSUME IInv, NEW w \in Writer, Write(w)
  PROVE  IInv'
<1>1. TypeOK /\ Consecutive /\ Gapless /\ Spending /\ Account /\ AllMade
  BY DEF IInv
<1>2. InHand /\ ~InHand'
  BY <1>1, ConnAssumption DEF InHand, TypeOK, Write, Return
<1>3. TypeOK'
  BY <1>1, ConnAssumption DEF Write, Return, TypeOK, Sealed
<1>4. /\ wire \in Seq(Sealed) /\ ct \in Sealed /\ sent \in Seq(Body)
      /\ Len(wire) \in Nat /\ Len(sent) \in Nat /\ Len(got) \in Nat
      /\ rx \in Nat /\ tx \in Nat /\ ct.body \in Body
      /\ tx' = tx /\ rx' = rx /\ ct' = ct /\ txUp' = txUp /\ got' = got
      /\ spent' = spent /\ txUp
  BY <1>1 DEF Write, TypeOK, Sealed, Nonce
<1>5. /\ Len(wire') = Len(wire) + 1
      /\ \A i \in 1 .. Len(wire) : wire'[i] = wire[i]
      /\ wire'[Len(wire) + 1] = ct
      /\ Len(sent') = Len(sent) + 1
      /\ \A i \in 1 .. Len(sent) : sent'[i] = sent[i]
      /\ sent'[Len(sent) + 1] = ct.body
  BY <1>4 DEF Write
<1>6. Consecutive'
  <2> SUFFICES ASSUME NEW i \in 1 .. Len(wire) + 1
               PROVE  wire'[i].nonce = rx + (i - 1)
    BY <1>4, <1>5 DEF Consecutive
  <2>1. CASE i \in 1 .. Len(wire)
    BY <2>1, <1>1, <1>5 DEF Consecutive
  <2>2. CASE i = Len(wire) + 1
    BY <2>2, <1>1, <1>2, <1>4, <1>5 DEF Gapless
  <2> QED BY <2>1, <2>2, <1>4
<1>7. Gapless'
  BY <1>1, <1>2, <1>4, <1>5 DEF Gapless
<1>8. Spending'
  BY <1>1, <1>4 DEF Spending
<1>9. Account'
  <2>1. Len(sent') = Len(got') + Len(wire')
    BY <1>1, <1>4, <1>5 DEF Account
  <2>2. ASSUME NEW i \in 1 .. Len(wire) + 1
        PROVE  sent'[Len(got) + i] = wire'[i].body
    <3>1. CASE i = Len(wire) + 1
      BY <3>1, <1>1, <1>4, <1>5 DEF Account
    <3>2. CASE i \in 1 .. Len(wire)
      <4>1. Len(got) + i \in 1 .. Len(sent)
        BY <3>2, <1>1, <1>4 DEF Account
      <4> QED BY <3>2, <4>1, <1>1, <1>4, <1>5 DEF Account
    <3> QED BY <3>1, <3>2, <1>4
  <2> QED BY <2>1, <2>2, <1>4, <1>5 DEF Account
<1>10. AllMade'
  <2> SUFFICES ASSUME NEW i \in 1 .. Len(wire) + 1
               PROVE  Wellmade(wire'[i])
    BY <1>2, <1>5 DEF AllMade, Wellmade, Fits, PlainLen
  <2>1. CASE i \in 1 .. Len(wire)
    BY <2>1, <1>1, <1>5 DEF AllMade
  <2>2. CASE i = Len(wire) + 1
    BY <2>2, <1>1, <1>2, <1>5 DEF AllMade
  <2> QED BY <2>1, <2>2, <1>4
<1> QED BY <1>3, <1>6, <1>7, <1>8, <1>9, <1>10 DEF IInv

\* After a failed write the nonce is lost, and no write follows it.
LEMMA WriteFailsStep ==
  ASSUME IInv, NEW w \in Writer, WriteFails(w)
  PROVE  IInv'
<1>1. TypeOK /\ Consecutive /\ Gapless /\ Spending /\ Account /\ AllMade
  BY DEF IInv
<1>2. ~InHand'
  BY <1>1, ConnAssumption DEF InHand, TypeOK, WriteFails, Return
<1>3. TypeOK'
  BY <1>1, ConnAssumption DEF WriteFails, Return, TypeOK
<1>4. Consecutive' /\ Spending' /\ Account'
  BY <1>1 DEF WriteFails, Consecutive, Spending, Account
<1>5. Gapless'
  BY <1>1, <1>2 DEF WriteFails, Gapless
<1>6. AllMade'
  BY <1>1, <1>2 DEF WriteFails, AllMade, Wellmade, Fits, PlainLen
<1> QED BY <1>3, <1>4, <1>5, <1>6 DEF IInv

\* The message at the head of the wire is the one the reader expects.
LEMMA HeadOpens ==
  ASSUME IInv, wire # <<>>
  PROVE  /\ Opens(Head(wire))
         /\ rx + 1 \in Nonce /\ Succ(rx) = rx + 1 /\ ~Exhausted(rx)
         /\ Head(wire) = wire[1] /\ 1 \in 1 .. Len(wire)
<1>1. /\ wire \in Seq(Sealed) /\ Len(wire) \in Nat /\ Len(wire) > 0
      /\ Head(wire) = wire[1]
  BY DEF IInv, TypeOK
<1>2. wire[1].nonce = rx
  BY <1>1 DEF IInv, Consecutive, TypeOK, Nonce
<1>3. rx < tx /\ rx \in Nonce /\ tx \in Nonce
  BY <1>1 DEF IInv, Gapless, TypeOK, Nonce
<1>4. ~Exhausted(rx)
  BY <1>3, ConnAssumption DEF Exhausted, Nonce
<1>5. Fits(wire[1])
  BY <1>1 DEF IInv, AllMade, Wellmade
<1> QED BY <1>1, <1>2, <1>3, <1>4, <1>5, SuccIsPlusOne DEF Opens

LEMMA ReadStep ==
  ASSUME IInv, Read
  PROVE  IInv'
<1>1. TypeOK /\ Consecutive /\ Gapless /\ Spending /\ Account /\ AllMade
  BY DEF IInv
<1>2. /\ Opens(Head(wire)) /\ ~Exhausted(rx)
      /\ rx + 1 \in Nonce /\ Succ(rx) = rx + 1
      /\ Head(wire) = wire[1] /\ 1 \in 1 .. Len(wire)
  BY HeadOpens DEF Read
<1>3. /\ wire' = Tail(wire) /\ rx' = rx + 1 /\ rxUp' = TRUE
      /\ got' = Append(got, wire[1].body)
      /\ UNCHANGED <<pc, job, wmu, tx, ct, txUp, sent, spent>>
  BY <1>2 DEF Read, Opens
<1>4. /\ wire \in Seq(Sealed) /\ got \in Seq(Body) /\ wire # <<>>
      /\ Len(wire) \in Nat /\ Len(got) \in Nat /\ Len(sent) \in Nat
      /\ rx \in Nat /\ tx \in Nat
  BY <1>1 DEF TypeOK, Nonce, Read
<1>a. wire[1] \in Sealed /\ wire[1].body \in Body
  <2>1. wire[1] \in Sealed
    BY <1>2, <1>4, ElementOfSeq
  <2> QED BY <2>1 DEF Sealed
<1>5. /\ Len(wire') = Len(wire) - 1
      /\ \A i \in 1 .. Len(wire') : wire'[i] = wire[i + 1]
      /\ wire' \in Seq(Sealed)
      /\ Len(got') = Len(got) + 1
      /\ got' \in Seq(Body)
  BY <1>3, <1>4, <1>a
<1>6. TypeOK'
  BY <1>1, <1>2, <1>3, <1>5 DEF TypeOK
<1>7. Consecutive'
  BY <1>1, <1>3, <1>4, <1>5 DEF Consecutive
<1>8. Gapless'
  <2>1. InHand' <=> InHand
    BY <1>3 DEF InHand
  <2>2. rx' + Len(wire') = rx + Len(wire)
    BY <1>3, <1>4, <1>5
  <2> QED BY <2>1, <2>2, <1>1, <1>3 DEF Gapless
<1>9. Spending'
  BY <1>1, <1>3 DEF Spending
<1>10. Account'
  <2>1. Len(sent') = Len(got') + Len(wire')
    <3>1. Len(sent) = Len(got) + Len(wire) /\ sent' = sent
      BY <1>1, <1>3 DEF Account
    <3>2. /\ Len(wire) \in Nat /\ Len(got) \in Nat
          /\ Len(wire') = Len(wire) - 1 /\ Len(got') = Len(got) + 1
      BY <1>4, <1>5
    <3> QED BY <3>1, <3>2
  <2>2. ASSUME NEW i \in 1 .. Len(wire')
        PROVE  sent'[Len(got') + i] = wire'[i].body
    <3>1. i + 1 \in 1 .. Len(wire) /\ Len(got') + i = Len(got) + (i + 1)
      BY <1>4, <1>5
    <3>2. sent[Len(got) + (i + 1)] = wire[i + 1].body
      BY <3>1, <1>1 DEF Account
    <3> QED BY <3>1, <3>2, <1>3, <1>5
  <2> QED BY <2>1, <2>2 DEF Account
<1>11. AllMade'
  <2>1. InHand' <=> InHand
    BY <1>3 DEF InHand
  <2>2. ASSUME NEW i \in 1 .. Len(wire')
        PROVE  Wellmade(wire'[i])
    <3>1. i + 1 \in 1 .. Len(wire) /\ wire'[i] = wire[i + 1]
      BY <1>4, <1>5
    <3> QED BY <3>1, <1>1 DEF AllMade
  <2> QED BY <2>1, <2>2, <1>1, <1>3 DEF AllMade, Wellmade, Fits, PlainLen
<1> QED BY <1>6, <1>7, <1>8, <1>9, <1>10, <1>11 DEF IInv

LEMMA NextIInv == IInv /\ [Next]_vars => IInv'
<1> SUFFICES ASSUME IInv, [Next]_vars
             PROVE  IInv'
  OBVIOUS
<1>1. CASE UNCHANGED vars
  BY <1>1 DEF vars, IInv, TypeOK, Consecutive, Gapless, Spending, Account, AllMade,
              InHand, Wellmade, Fits, PlainLen
<1>2. CASE ReadFails \/ Close
  <2>1. /\ UNCHANGED <<pc, job, wmu, tx, ct, wire, rx, sent, got, spent>>
        /\ txUp' \in BOOLEAN /\ rxUp' \in BOOLEAN /\ (txUp' => txUp)
    <3>1. CASE ReadFails
      BY <3>1 DEF ReadFails, IInv, TypeOK
    <3>2. CASE Close
      BY <3>2 DEF Close, IInv, TypeOK
    <3> QED BY <1>2, <3>1, <3>2
  <2>2. TypeOK' /\ Consecutive' /\ Spending' /\ Account' /\ AllMade'
    BY <2>1 DEF IInv, TypeOK, Consecutive, Spending, Account, AllMade, InHand, Wellmade,
                Fits, PlainLen
  <2>3. Gapless'
    BY <2>1 DEF IInv, Gapless, InHand
  <2> QED BY <2>2, <2>3 DEF IInv
<1>3. CASE Next
  BY <1>2, <1>3, QuietStep, SealStep, WriteStep, WriteFailsStep, ReadStep
  DEF Next
<1> QED BY <1>1, <1>3

LEMMA Invariance == Spec => []IInv
  BY InitIInv, NextIInv, PTL DEF Spec

(***************************************************************************)
(* Type correctness, and mutual exclusion by wmu.                          *)
(***************************************************************************)
THEOREM TypeCorrect == Spec => []TypeOK
<1>1. IInv => TypeOK
  BY DEF IInv
<1> QED BY <1>1, Invariance, PTL

(***************************************************************************)
(* Conn's concurrency contract: whatever the writers, failures and Close   *)
(* do, ReadPacket never meets a record that fails authentication or        *)
(* exceeds its read limit, under every padding policy that fits the slack. *)
(***************************************************************************)
THEOREM NeverDesync == Spec => []NoDesync
<1>1. IInv => NoDesync
  BY HeadOpens DEF NoDesync
<1> QED BY <1>1, Invariance, PTL

(***************************************************************************)
(* AEADStream.advance never lets a nonce seal two records.                 *)
(***************************************************************************)
THEOREM NonceNeverReused == Spec => []NonceUsedOnce
<1>1. IInv => NonceUsedOnce
  BY DEF IInv, Spending, NonceUsedOnce
<1> QED BY <1>1, Invariance, PTL

(***************************************************************************)
(* The first BurstRecords records of a direction that reach the wire are   *)
(* at least BurstMin long, for every policy (Sealer.padFor).               *)
(***************************************************************************)
THEOREM OpeningIsMasked == Spec => []BurstMasked
<1>1. IInv => BurstMasked
  BY DEF IInv, AllMade, Wellmade, BurstMasked
<1> QED BY <1>1, Invariance, PTL

\* Each step is a step of the abstract link, or a stutter.
LEMMA StepSimulation == IInv /\ [Next]_vars => [Link!Next]_(Link!vars)
<1> SUFFICES ASSUME IInv, [Next]_vars
             PROVE  [Link!Next]_(Link!vars)
  OBVIOUS
<1> USE DEF Link!vars
<1>1. CASE UNCHANGED vars
  BY <1>1 DEF vars
<1>2. ASSUME NEW w \in Writer,
             (\E b \in Body : Call(w, b)) \/ Lock(w) \/ SealFails(w) \/ Seal(w)
      PROVE  UNCHANGED Link!vars
  BY <1>2 DEF Call, Lock, SealFails, Seal
<1>3. ASSUME NEW w \in Writer, Write(w)
      PROVE  Link!Next
  <2>1. ct.body \in Body
    BY DEF IInv, TypeOK, Sealed
  <2>2. Link!Send(ct.body)
    BY <1>3 DEF Write, Link!Send
  <2> QED BY <2>1, <2>2 DEF Link!Next
<1>4. ASSUME NEW w \in Writer, WriteFails(w)
      PROVE  [Link!Next]_(Link!vars)
  <2>1. txUp \in BOOLEAN
    BY DEF IInv, TypeOK
  <2>2. CASE txUp
    BY <1>4, <2>2 DEF WriteFails, Link!Next, Link!BreakTx
  <2>3. CASE ~txUp
    BY <1>4, <2>1, <2>3 DEF WriteFails
  <2> QED BY <2>2, <2>3
<1>5. CASE Read
  <2>1. /\ Opens(Head(wire)) /\ Head(wire) = wire[1]
        /\ 1 \in 1 .. Len(wire)
    BY <1>5, HeadOpens DEF Read
  <2>2. got' = Append(got, wire[1].body) /\ rxUp /\ rxUp' = TRUE
        /\ sent' = sent /\ txUp' = txUp
    BY <1>5, <2>1 DEF Read
  <2>3. rxUp' = rxUp
    BY <2>2 DEF IInv, TypeOK
  <2>4. sent[Len(got) + 1] = wire[1].body
    BY <2>1 DEF IInv, Account
  <2>5. Len(got) < Len(sent)
    BY <2>1 DEF IInv, Account, TypeOK
  <2> QED BY <2>2, <2>3, <2>4, <2>5 DEF Link!Next, Link!Receive
<1>6. CASE ReadFails \/ Close
  BY <1>6 DEF ReadFails, Close, Link!Next, Link!BreakRx, Link!BreakTx
<1> QED BY <1>1, <1>2, <1>3, <1>4, <1>5, <1>6 DEF Next

(***************************************************************************)
(* A direction of a channel implements the FIFO link: records are opened   *)
(* in the order their writes returned, each once, none skipped.            *)
(***************************************************************************)
THEOREM ConnImplementsLink == Spec => LinkSpec
<1>1. Init => Link!Init
  BY DEF Init, Link!Init
<1>2. Spec => Link!Spec
  BY <1>1, StepSimulation, Invariance, PTL DEF Spec, Link!Spec
<1> QED BY <1>2 DEF LinkSpec
=============================================================================
