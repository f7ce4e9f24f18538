----------------------------- MODULE TunnelLife -----------------------------
(***************************************************************************)
(* The life of a bonded tunnel as its owner sees it: channels join and     *)
(* leave; once it has lost its last channel, or was closed, it is doomed,  *)
(* and then goes through closed and dead to released, once and in this     *)
(* order.  Channels are refused from closed on, not from doomed on.        *)
(***************************************************************************)
CONSTANTS Chan

VARIABLES members,  \* attached channels
          life      \* open, doomed, closed, dead or released

vars == <<members, life>>

Init == members = {} /\ life = "open"

Doomed == IF life = "open" THEN "doomed" ELSE life

Join(c) ==
  /\ life \in {"open", "doomed"}
  /\ c \notin members
  /\ members' = members \cup {c}
  /\ UNCHANGED life

Leave(c) ==
  /\ c \in members
  /\ members' = members \ {c}
  /\ life' = IF members' = {} THEN Doomed ELSE life

CloseAll ==
  /\ members' = {}
  /\ life' = Doomed

Refuse  == life = "doomed" /\ life' = "closed"   /\ UNCHANGED members
Die     == life = "closed" /\ life' = "dead"     /\ UNCHANGED members
Release == life = "dead"   /\ life' = "released" /\ UNCHANGED members

Next ==
  \/ \E c \in Chan : Join(c) \/ Leave(c)
  \/ CloseAll \/ Refuse \/ Die \/ Release

Spec == Init /\ [][Next]_vars
=============================================================================
