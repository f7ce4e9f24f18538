----------------------------- MODULE PacketLink -----------------------------
(***************************************************************************)
(* What one direction of a channel promises: a FIFO of records that may    *)
(* break, at either end and at any moment, but never reorders, duplicates, *)
(* alters or skips.  A record is accepted when the write call returns nil. *)
(* Padding records count here; the receiver drops them afterwards.         *)
(***************************************************************************)
EXTENDS Naturals, Sequences

CONSTANTS Record

VARIABLES sent,   \* records accepted, in order
          got,    \* records the receiver opened, in order
          txUp,   \* the sending end works
          rxUp    \* the receiving end works

vars == <<sent, got, txUp, rxUp>>

Init == sent = <<>> /\ got = <<>> /\ txUp = TRUE /\ rxUp = TRUE

Send(r) ==
  /\ txUp
  /\ sent' = Append(sent, r)
  /\ UNCHANGED <<got, txUp, rxUp>>

Receive ==
  /\ rxUp
  /\ Len(got) < Len(sent)
  /\ got' = Append(got, sent[Len(got) + 1])
  /\ UNCHANGED <<sent, txUp, rxUp>>

BreakTx == txUp /\ txUp' = FALSE /\ UNCHANGED <<sent, got, rxUp>>
BreakRx == rxUp /\ rxUp' = FALSE /\ UNCHANGED <<sent, got, txUp>>

Next == (\E r \in Record : Send(r)) \/ Receive \/ BreakTx \/ BreakRx

Spec == Init /\ [][Next]_vars
=============================================================================
