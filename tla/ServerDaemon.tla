---------------------------- MODULE ServerDaemon ----------------------------
(***************************************************************************)
(* The server process on its host: serverRun (cmd/krotctl/server.go), New, *)
(* Run and Close (internal/server/server.go), SetupServerNAT and Teardown  *)
(* (internal/netif/netif_linux.go), under a systemd unit with              *)
(* Restart=on-failure.                                                     *)
(*                                                                         *)
(* iptables -A appends a rule even if an equal one is there, -D deletes one*)
(* of several equal ones: rules are counted.  Signals are handled from the *)
(* end of New until the deferred stop(), which runs before the deferred    *)
(* Close; outside that window SIGTERM ends the process where it stands.    *)
(***************************************************************************)
EXTENDS Integers

CONSTANTS
  MaxFaults,  \* bound: commands that fail and kills
  MaxLeaks    \* bound: deaths and failed deletions that leave rules behind

ASSUME DaemonAssumption == MaxFaults \in Nat /\ MaxLeaks \in Nat

Rule == 1 .. 3   \* MASQUERADE and the two FORWARD rules, in order

VARIABLES
  config,   \* server.json: none, good, bad
  goal,     \* what systemd was last asked for: started, stopped
  proc,     \* the process: off (to be started if wanted), dead (ended
            \* cleanly), load, tun, nat, undo, run, serving, failing, closing
  mine,     \* NATState.rules
  rules,    \* the host: copies of each rule
  dev,      \* the host: the TUN device, which lives as long as its process
  leaked,   \* history: copies whose process died or failed to delete them
  leaks,    \* how often that happened
  faults    \* failures so far

nat == <<mine, rules, dev, leaked, leaks>>
dvars == <<config, goal, proc, nat, faults>>

DaemonInit ==
  /\ config = "none" /\ goal = "stopped" /\ proc = "dead"
  /\ mine = {} /\ dev = FALSE
  /\ rules = [r \in Rule |-> 0] /\ leaked = [r \in Rule |-> 0]
  /\ leaks = 0 /\ faults = 0

\* A command fails.
Fault == faults < MaxFaults /\ faults' = faults + 1

-----------------------------------------------------------------------------
(* systemd starts the unit; LoadServer; tun.Open and IfUp; the sysctl.     *)

Exec ==
  /\ goal = "started" /\ proc = "off"
  /\ proc' = "load"
  /\ UNCHANGED <<config, goal, nat, faults>>

Load ==
  /\ proc = "load"
  /\ proc' = IF config = "good" THEN "tun" ELSE "off"
  /\ UNCHANGED <<config, goal, nat, faults>>

OpenTun ==
  /\ proc = "tun"
  /\ dev' = TRUE
  /\ proc' = "nat"
  /\ UNCHANGED <<config, goal, mine, rules, leaked, leaks, faults>>

\* tun.Open, or IfUp (which closes the device), or a later step of New
\* before the first rule.
NewFails ==
  /\ proc \in {"tun", "nat"} /\ mine = {}
  /\ Fault
  /\ dev' = FALSE
  /\ proc' = "off"
  /\ UNCHANGED <<config, goal, mine, rules, leaked, leaks>>

-----------------------------------------------------------------------------
(* SetupServerNAT and Teardown.                                            *)

AddRule(r) ==
  /\ proc = "nat" /\ mine = 1 .. r - 1
  /\ rules' = [rules EXCEPT ![r] = @ + 1]
  /\ mine' = mine \cup {r}
  /\ UNCHANGED <<config, goal, proc, dev, leaked, leaks, faults>>

AddRuleFailsHalfway ==
  /\ proc = "nat" /\ mine \notin {{}, Rule}
  /\ Fault
  /\ proc' = "off" /\ mine' = {} /\ dev' = FALSE
  /\ UNCHANGED <<config, goal, rules, leaked, leaks>>

\* A rule after the first is refused: roll back.
AddRuleFails ==
  /\ proc = "nat" /\ mine \notin {{}, Rule}
  /\ Fault
  /\ proc' = "undo"
  /\ UNCHANGED <<config, goal, nat>>

Oldest == CHOOSE r \in mine : \A q \in mine : r <= q

Tearing == proc \in {"undo", "failing", "closing"}

\* Teardown deletes its rules in order, ignoring errors.
Delete ==
  /\ Tearing /\ mine # {}
  /\ rules' = [rules EXCEPT ![Oldest] = @ - 1]
  /\ mine' = mine \ {Oldest}
  /\ UNCHANGED <<config, goal, proc, dev, leaked, leaks, faults>>

\* The rules in gone stay behind without an owner.
Leak(gone) ==
  /\ gone = {} \/ leaks < MaxLeaks
  /\ leaks' = IF gone = {} THEN leaks ELSE leaks + 1
  /\ leaked' = [r \in Rule |-> IF r \in gone THEN leaked[r] + 1 ELSE leaked[r]]

DeleteFails ==
  /\ Tearing /\ mine # {}
  /\ Fault
  /\ Leak({Oldest})
  /\ mine' = mine \ {Oldest}
  /\ UNCHANGED <<config, goal, proc, rules, dev>>

\* dev.Close and the exit: with status 1 unless a signal asked for it.
Exit ==
  /\ Tearing /\ mine = {}
  /\ dev' = FALSE
  /\ proc' = IF proc = "closing" THEN "dead" ELSE "off"
  /\ UNCHANGED <<config, goal, mine, rules, leaked, leaks, faults>>

-----------------------------------------------------------------------------
(* Run.                                                                    *)

\* New returned, NotifyContext and the goroutine of Run.
Go ==
  /\ proc = "nat" /\ mine = Rule
  /\ proc' = "run"
  /\ UNCHANGED <<config, goal, nat, faults>>

Serve ==
  /\ proc = "run"
  /\ proc' = "serving"
  /\ UNCHANGED <<config, goal, nat, faults>>

\* NewHandler, tlsConfig, Listen or Serve returns an error.
RunFailsQuietly ==
  /\ proc \in {"run", "serving"}
  /\ Fault
  /\ proc' = "closing"
  /\ UNCHANGED <<config, goal, nat>>

RunFails ==
  /\ proc \in {"run", "serving"}
  /\ Fault
  /\ proc' = "failing"
  /\ UNCHANGED <<config, goal, nat>>

-----------------------------------------------------------------------------
(* Signals.                                                                *)

Die ==
  /\ Leak(mine)
  /\ mine' = {} /\ dev' = FALSE
  /\ UNCHANGED rules

Up == proc \notin {"off", "dead"}

\* systemctl stop: one SIGTERM, unless it is being stopped already.
Stop ==
  /\ goal' = "stopped"
  /\ IF proc \in {"run", "serving", "closing"}
     THEN proc' = "closing" /\ UNCHANGED nat
     ELSE proc' = "dead" /\ Die
  /\ UNCHANGED <<config, faults>>

Start ==
  /\ ~Up
  /\ goal' = "started" /\ proc' = "off"
  /\ UNCHANGED <<config, nat, faults>>

\* SIGKILL, a panic, or the machine's memory runs out.
Kill ==
  /\ Up
  /\ Fault
  /\ proc' = "off" /\ Die
  /\ UNCHANGED <<config, goal>>

\* The host restarts; its firewall and devices are new.
PowerCycle(enabled) ==
  /\ Fault
  /\ goal' = IF enabled THEN "started" ELSE "stopped"
  /\ proc' = "off" /\ mine' = {} /\ dev' = FALSE
  /\ rules' = [r \in Rule |-> 0] /\ leaked' = [r \in Rule |-> 0]
  /\ UNCHANGED <<config, leaks>>

\* The daemon's own steps, and those that end them.
Runs ==
  \/ Exec \/ Load \/ OpenTun \/ Go \/ Serve
  \/ \E r \in Rule : AddRule(r)
  \/ Delete \/ Exit

Fails == NewFails \/ AddRuleFails \/ DeleteFails \/ RunFails \/ Kill
=============================================================================
