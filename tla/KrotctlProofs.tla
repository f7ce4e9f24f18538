---------------------------- MODULE KrotctlProofs ----------------------------
(***************************************************************************)
(* Proofs for Krotctl: types, the exactness of the NAT rules, forwarding   *)
(* while serving, and what a completed uninstall leaves, for any set of    *)
(* client instances and any number of failures, deaths and reboots.        *)
(***************************************************************************)
EXTENDS Krotctl, TLAPS

\* The process and its host.
DaemonType ==
  /\ config \in {"none", "good", "bad"}
  /\ goal \in {"started", "stopped"} /\ proc \in Procs
  /\ mine \in SUBSET Rule /\ dev \in BOOLEAN
  /\ rules \in [Rule -> Nat] /\ leaked \in [Rule -> Nat]
  /\ leaks \in 0 .. MaxLeaks /\ faults \in 0 .. MaxFaults

\* What the process has in place at each stage.
Staged ==
  /\ proc \in {"load", "tun"} => mine = {} /\ ~dev
  /\ proc = "nat" => dev
  /\ proc \in {"run", "serving"} => mine = Rule /\ dev

Host == DaemonType /\ NATExact /\ Staged

\* The administrator's files and units.
AdminType ==
  /\ cmd \in {"idle", "server unit", "server restart", "server start", "client unit",
              "client restart", "stopping", "disabling", "clients", "configs"}
  /\ inst \in Name /\ todo \subseteq Name
  /\ unit \in BOOLEAN /\ template \in BOOLEAN /\ enabled \in BOOLEAN
  /\ conf \subseteq Name /\ active \subseteq Name /\ cenabled \subseteq Name
  /\ stray \subseteq Name /\ clean \in BOOLEAN
  /\ warned \subseteq {"stop", "disable", "unit", "template", "configs"}

\* Every instance that runs or is enabled has a configuration, or is astray;
\* uninstall gets through them.
Known ==
  /\ active \cup cenabled \subseteq conf \cup stray
  /\ cmd \in {"client unit", "client restart"} => inst \in conf
  /\ cmd \in {"stopping", "disabling"} => todo = conf
  /\ cmd = "clients" => active \cup cenabled \subseteq todo \cup stray
  /\ cmd = "configs" => active \cup cenabled \subseteq stray

\* What the steps of an uninstall have left so far, and why.
Stopped == Up \/ goal = "started" => "stop" \in warned
Disabled == enabled => "disable" \in warned
Removed == (unit => "unit" \in warned) /\ (template => "template" \in warned)

Stopping ==
  /\ cmd = "stopping" => goal = "stopped"
  /\ cmd \in {"disabling", "clients", "configs"} => Stopped
  /\ cmd \in {"clients", "configs"} => Disabled
  /\ cmd = "configs" => Removed

Gone ==
  clean => /\ cmd = "idle"
           /\ Stopped \/ {"disable", "unit"} \subseteq warned
           /\ Disabled /\ Removed
           /\ config # "none" \/ conf # {} => "configs" \in warned
           /\ active \cup cenabled \subseteq stray

IInv == Host /\ AdminType /\ Known /\ Stopping /\ Gone

-----------------------------------------------------------------------------
(* The process keeps Host.                                                 *)

\* Without a process, no device and no rule of its own.
LEMMA DownHost ==
  ASSUME config' \in {"none", "good", "bad"}, goal' \in {"started", "stopped"},
         proc' \in {"off", "dead"}, mine' = {}, dev' = FALSE,
         rules' \in [Rule -> Nat], leaked' \in [Rule -> Nat],
         leaks' \in 0 .. MaxLeaks, faults' \in 0 .. MaxFaults,
         \A r \in Rule : rules'[r] = leaked'[r]
  PROVE  Host' /\ ~Up'
<1>1. ~Up'
  BY DEF Up
<1>2. \A r \in Rule : r \notin mine' /\ leaked'[r] \in Nat
  OBVIOUS
<1>3. \A r \in Rule : rules'[r] = leaked'[r] + (IF r \in mine' THEN 1 ELSE 0)
  BY <1>2
<1>4. ~dev' /\ dev' \in BOOLEAN /\ mine' \in SUBSET Rule
  BY Zenon
<1>5. DaemonType'
  BY <1>4 DEF DaemonType, Procs
<1>6. NATExact'
  BY <1>3, <1>4 DEF NATExact
<1>7. Staged'
  BY DEF Staged
<1> QED BY <1>1, <1>5, <1>6, <1>7 DEF Host

\* One more failure stays within the bound.
LEMMA FaultCounts ==
  ASSUME faults \in 0 .. MaxFaults, Fault
  PROVE  faults' \in 0 .. MaxFaults
BY DaemonAssumption DEF Fault

LEMMA InitHost == DaemonInit => Host
<1> SUFFICES ASSUME DaemonInit PROVE Host
  OBVIOUS
<1> USE DEF DaemonInit
<1>1. ~Up
  BY DEF Up
<1>2. \A r \in Rule : rules[r] = 0 /\ leaked[r] = 0 /\ r \notin mine
  OBVIOUS
<1>3. \A r \in Rule : rules[r] = leaked[r] + (IF r \in mine THEN 1 ELSE 0)
  BY <1>2
<1>4. ~dev /\ dev \in BOOLEAN /\ mine \in SUBSET Rule
  BY Zenon
<1>5. rules \in [Rule -> Nat] /\ leaked \in [Rule -> Nat]
  OBVIOUS
<1>6. leaks \in 0 .. MaxLeaks /\ faults \in 0 .. MaxFaults
  BY DaemonAssumption
<1>7. DaemonType
  BY <1>4, <1>5, <1>6 DEF DaemonType, Procs
<1>8. NATExact
  BY <1>3, <1>4 DEF NATExact
<1>9. Staged
  BY DEF Staged
<1> QED BY <1>7, <1>8, <1>9 DEF Host

\* Teardown takes a rule that is in its list.
LEMMA OldestIsMine ==
  ASSUME mine \in SUBSET Rule, mine # {}
  PROVE  Oldest \in mine
<1>1. \E r \in mine : \A q \in mine : r <= q
  <2>1. \A q \in mine : q \in Int /\ (q = 1 \/ q = 2 \/ q = 3)
    BY DEF Rule
  <2>2. CASE 1 \in mine
    <3> WITNESS 1 \in mine
    <3> QED BY <2>1
  <2>3. CASE 1 \notin mine /\ 2 \in mine
    <3>1. 2 \in mine
      BY <2>3
    <3> WITNESS 2 \in mine
    <3> QED BY <2>1, <2>3
  <2>4. CASE 1 \notin mine /\ 2 \notin mine
    <3>1. \A q \in mine : q = 3
      BY <2>1, <2>4
    <3>2. 3 \in mine
      BY <3>1
    <3> WITNESS 3 \in mine
    <3> QED BY <3>1
  <2> QED BY <2>2, <2>3, <2>4
<1> QED BY <1>1 DEF Oldest

LEMMA QuietHost ==
  ASSUME Host, Exec \/ Load \/ OpenTun \/ NewFails \/ Go \/ Serve \/ RunFails
                 \/ AddRuleFails \/ Exit \/ Start
  PROVE  Host'
<1> USE DaemonAssumption DEF Host, DaemonType, NATExact, Staged, Procs, Up, nat, Fault
<1>1. CASE Exec BY <1>1 DEF Exec
<1>2. CASE Load BY <1>2 DEF Load
<1>3. CASE OpenTun BY <1>3 DEF OpenTun
<1>4. CASE NewFails
  <2>1. faults' \in 0 .. MaxFaults
    BY <1>4, FaultCounts DEF NewFails
  <2>2. \A r \in Rule : rules'[r] = leaked'[r]
    BY <1>4 DEF NewFails
  <2> QED BY <1>4, <2>1, <2>2, DownHost DEF NewFails
<1>5. CASE Go BY <1>5 DEF Go
<1>6. CASE Serve BY <1>6 DEF Serve
<1>7. CASE RunFails BY <1>7 DEF RunFails
<1>8. CASE AddRuleFails BY <1>8 DEF AddRuleFails
<1>9. CASE Exit BY <1>9 DEF Exit, Tearing
<1>10. CASE Start BY <1>10 DEF Start
<1> QED BY <1>1, <1>2, <1>3, <1>4, <1>5, <1>6, <1>7, <1>8, <1>9, <1>10

LEMMA AddRuleHost ==
  ASSUME Host, NEW r \in Rule, AddRule(r)
  PROVE  Host'
<1> USE DEF Host, DaemonType, NATExact, Staged, Procs, Up, AddRule
<1>1. r \notin mine /\ mine' = mine \cup {r} /\ mine' \in SUBSET Rule
  BY DEF Rule
<1>2. rules' \in [Rule -> Nat]
  BY DEF Rule
<1>3. \A q \in Rule : rules'[q] = leaked'[q] + (IF q \in mine' THEN 1 ELSE 0)
  BY <1>1
<1> QED BY <1>1, <1>2, <1>3

LEMMA DeleteHost ==
  ASSUME Host, Delete
  PROVE  Host'
<1> USE DEF Host, DaemonType, NATExact, Staged, Procs, Up, Delete, Tearing
<1>1. Oldest \in mine /\ Oldest \in Rule
  BY OldestIsMine
<1> DEFINE o == Oldest
<1>2. o \in Rule /\ o \in mine /\ rules' = [rules EXCEPT ![o] = @ - 1] /\ mine' = mine \ {o}
  BY <1>1
<1> HIDE DEF o
<1>3. rules[o] = leaked[o] + 1
  BY <1>2
<1>4. rules' \in [Rule -> Nat]
  BY <1>2, <1>3
<1>5. \A q \in Rule : rules'[q] = leaked'[q] + (IF q \in mine' THEN 1 ELSE 0)
  BY <1>2, <1>3
<1> QED BY <1>2, <1>4, <1>5

\* Leaving the rules in gone behind keeps the count.
LEMMA LeakCounts ==
  ASSUME Host, NEW gone \in SUBSET mine, Leak(gone), rules' = rules,
         mine' = mine \ gone
  PROVE  /\ leaks' \in 0 .. MaxLeaks /\ leaked' \in [Rule -> Nat]
         /\ mine' \in SUBSET Rule
         /\ \A r \in Rule : rules'[r] = leaked'[r] + (IF r \in mine' THEN 1 ELSE 0)
BY DaemonAssumption DEF Host, DaemonType, NATExact, Leak

LEMMA DeleteFailsHost ==
  ASSUME Host, DeleteFails
  PROVE  Host'
<1>1. {Oldest} \in SUBSET mine
  BY OldestIsMine DEF Host, DaemonType, DeleteFails
<1>2. /\ leaks' \in 0 .. MaxLeaks /\ leaked' \in [Rule -> Nat] /\ mine' \in SUBSET Rule
      /\ \A r \in Rule : rules'[r] = leaked'[r] + (IF r \in mine' THEN 1 ELSE 0)
  BY <1>1, LeakCounts DEF DeleteFails
<1> QED BY <1>2, DaemonAssumption
     DEF Host, DaemonType, NATExact, Staged, Procs, Up, DeleteFails, Tearing, Fault

\* The process dies where it stands.
LEMMA DieCounts ==
  ASSUME Host, Die
  PROVE  /\ leaks' \in 0 .. MaxLeaks /\ leaked' \in [Rule -> Nat]
         /\ mine' = {} /\ dev' = FALSE /\ rules' \in [Rule -> Nat]
         /\ \A r \in Rule : rules'[r] = leaked'[r]
<1>1. mine \in SUBSET mine /\ mine' = mine \ mine /\ rules' = rules
  BY DEF Die
<1>2. Leak(mine)
  BY DEF Die
<1>3. /\ leaks' \in 0 .. MaxLeaks /\ leaked' \in [Rule -> Nat]
      /\ \A r \in Rule : rules'[r] = leaked'[r] + (IF r \in mine' THEN 1 ELSE 0)
  BY <1>1, <1>2, LeakCounts
<1> QED BY <1>1, <1>3 DEF Die, Host, DaemonType

LEMMA KillHost ==
  ASSUME Host, Kill
  PROVE  Host'
<1>1. faults' \in 0 .. MaxFaults
  BY FaultCounts DEF Kill, Host, DaemonType
<1> QED BY <1>1, DieCounts, DownHost DEF Kill, Host, DaemonType

LEMMA StopHost ==
  ASSUME Host, Stop
  PROVE  Host' /\ goal' = "stopped" /\ config' = config
<1>1. CASE proc \in {"run", "serving", "closing"}
  BY <1>1 DEF Host, DaemonType, NATExact, Staged, Procs, Up, Stop, nat
<1>2. CASE proc \notin {"run", "serving", "closing"}
  BY <1>2, DieCounts, DownHost DEF Host, DaemonType, Stop
<1> QED BY <1>1, <1>2

LEMMA PowerCycleHost ==
  ASSUME Host, PowerCycle(enabled /\ unit)
  PROVE  Host' /\ ~Up' /\ config' = config
<1> USE DEF PowerCycle
<1>1. faults' \in 0 .. MaxFaults
  BY FaultCounts DEF Host, DaemonType
<1>2. goal' \in {"started", "stopped"}
  OBVIOUS
<1>3. /\ rules' \in [Rule -> Nat] /\ leaked' \in [Rule -> Nat]
      /\ \A r \in Rule : rules'[r] = leaked'[r]
  OBVIOUS
<1> QED BY <1>1, <1>2, <1>3, DownHost DEF Host, DaemonType

LEMMA ProcessHost ==
  ASSUME Host, Runs \/ Fails
  PROVE  Host'
BY QuietHost, AddRuleHost, DeleteHost, DeleteFailsHost, KillHost DEF Runs, Fails

\* Nothing starts a process that is not wanted.
LEMMA ProcessStays ==
  ASSUME Runs \/ Fails
  PROVE  /\ goal' = goal /\ config' = config
         /\ goal = "stopped" /\ ~Up => ~Up'
<1> USE DEF Up, nat
<1>1. CASE Exec \/ Load \/ OpenTun \/ Go \/ Serve
  BY <1>1 DEF Exec, Load, OpenTun, Go, Serve
<1>2. CASE \E r \in Rule : AddRule(r)
  BY <1>2 DEF AddRule
<1>3. CASE Delete \/ Exit \/ DeleteFails
  BY <1>3 DEF Delete, Exit, DeleteFails, Tearing
<1>4. CASE NewFails \/ AddRuleFails \/ RunFails \/ Kill
  BY <1>4 DEF NewFails, AddRuleFails, RunFails, Kill
<1> QED BY <1>1, <1>2, <1>3, <1>4 DEF Runs, Fails

-----------------------------------------------------------------------------
(* The commands.                                                           *)

LEMMA UnchangedHost ==
  ASSUME Host, UNCHANGED <<goal, proc, nat, faults>>,
         config' \in {"none", "good", "bad"}
  PROVE  Host' /\ Up' = Up
BY DEF Host, DaemonType, NATExact, Staged, Up, nat

\* A command fails, and nothing happens to the process.
LEMMA FaultHost ==
  ASSUME Host, Fault, UNCHANGED <<goal, proc, nat>>,
         config' \in {"none", "good", "bad"}
  PROVE  Host' /\ Up' = Up
<1>1. faults' \in 0 .. MaxFaults
  BY FaultCounts DEF Host, DaemonType
<1> QED BY <1>1 DEF Host, DaemonType, NATExact, Staged, Up, nat

LEMMA InitIInv == Init => IInv
<1> SUFFICES ASSUME Init PROVE IInv
  OBVIOUS
<1>1. Host
  BY InitHost DEF Init
<1>2. AdminType /\ Known /\ Stopping /\ Gone
  BY DEF Init, AdminType, Known, Stopping, Gone
<1> QED BY <1>1, <1>2 DEF IInv

\* server up and down.
LEMMA ServerCommands ==
  ASSUME IInv, ServerUp \/ ServerUnit \/ ServerRestart \/ ServerStart \/ ServerDown
  PROVE  IInv'
<1> USE DEF IInv, AdminType, Known, Stopping, Stopped, Disabled, Removed,
           Gone, files, history, Begin
<1>1. CASE ServerUp
  <2>1. Host'
    BY <1>1, UnchangedHost DEF ServerUp
  <2> QED BY <1>1, <2>1 DEF ServerUp
<1>2. CASE ServerUnit
  <2>1. Host' /\ config' = config /\ goal' = goal
    BY <1>2, UnchangedHost DEF ServerUnit, dvars, Host, DaemonType
  <2> QED BY <1>2, <2>1 DEF ServerUnit
<1>3. CASE ServerRestart
  <2>1. Host'
    BY <1>3, StopHost DEF ServerRestart
  <2> QED BY <1>3, <2>1 DEF ServerRestart
<1>4. CASE ServerStart
  <2>1. Host'
    BY <1>4, QuietHost DEF ServerStart
  <2> QED BY <1>4, <2>1 DEF ServerStart
<1>5. CASE ServerDown
  <2>1. Host'
    BY <1>5, StopHost DEF ServerDown
  <2> QED BY <1>5, <2>1 DEF ServerDown
<1> QED BY <1>1, <1>2, <1>3, <1>4, <1>5

\* client up and down.
LEMMA ClientCommands ==
  ASSUME IInv,
         \/ \E n \in Name : ClientUp(n) \/ ClientUpRejected(n) \/ ClientDown(n)
         \/ ClientUnit \/ ClientRestart
  PROVE  IInv'
<1>1. Host' /\ UNCHANGED dvars
  BY UnchangedHost DEF IInv, Host, DaemonType, dvars, ClientUp, ClientUpRejected,
     ClientDown, ClientUnit, ClientRestart
<1> USE DEF IInv, AdminType, Known, Stopping, Stopped, Disabled, Removed,
           Gone, files, history, Begin
<1>2. ASSUME NEW n \in Name, ClientUp(n) PROVE IInv'
  BY <1>1, <1>2 DEF ClientUp
<1>3. ASSUME NEW n \in Name, ClientUpRejected(n) PROVE IInv'
  BY <1>1, <1>3 DEF ClientUpRejected, dvars, Up
<1>4. ASSUME NEW n \in Name, ClientDown(n) PROVE IInv'
  BY <1>1, <1>4 DEF ClientDown
<1>5. CASE ClientUnit
  BY <1>1, <1>5 DEF ClientUnit
<1>6. CASE ClientRestart
  BY <1>1, <1>6 DEF ClientRestart
<1> QED BY <1>2, <1>3, <1>4, <1>5, <1>6

\* The steps of uninstall.
LEMMA UninstallCommand ==
  ASSUME IInv,
         \/ Uninstall \/ UninstallServer \/ UninstallUnits \/ UninstallConfigs
         \/ \E n \in Name : UninstallClient(n)
  PROVE  IInv'
<1> USE DEF IInv, AdminType, Known, Stopping, Stopped, Disabled, Removed,
           Gone, files, history, Begin
<1>1. CASE Uninstall
  <2>1. Host' /\ goal' = "stopped"
    BY <1>1, StopHost DEF Uninstall
  <2> QED BY <1>1, <2>1 DEF Uninstall, Discovered
<1>2. CASE UninstallServer
  <2>1. Host' /\ Up' = Up /\ goal' = goal
    BY <1>2, UnchangedHost DEF UninstallServer, dvars, Host, DaemonType
  <2> QED BY <1>2, <2>1 DEF UninstallServer, StopReturned
<1>3. CASE UninstallUnits
  <2>1. Host' /\ Up' = Up /\ goal' = goal
    BY <1>3, UnchangedHost DEF UninstallUnits, dvars, Host, DaemonType
  <2> QED BY <1>3, <2>1 DEF UninstallUnits
<1>4. CASE UninstallConfigs
  <2>1. Host' /\ Up' = Up /\ goal' = goal
    BY <1>4, UnchangedHost DEF UninstallConfigs
  <2> QED BY <1>4, <2>1 DEF UninstallConfigs
<1>5. ASSUME NEW n \in Name, UninstallClient(n) PROVE IInv'
  <2>1. Host' /\ Up' = Up /\ goal' = goal
    BY <1>5, UnchangedHost DEF UninstallClient, dvars, Host, DaemonType
  <2> QED BY <1>5, <2>1 DEF UninstallClient
<1> QED BY <1>1, <1>2, <1>3, <1>4, <1>5

\* The same steps when they fail.
LEMMA UninstallFailures ==
  ASSUME IInv,
         \/ StopFails \/ DisableFails \/ ConfigsFail
         \/ \E left \in SUBSET {"unit", "template"} \ {{}} : UnitsFail(left)
         \/ \E n \in Name : UninstallClientFails(n)
  PROVE  IInv'
<1> USE DEF IInv, AdminType, Known, Stopping, Stopped, Disabled, Removed,
           Gone, files, history
<1>1. CASE StopFails
  <2>1. Host' /\ Up' = Up /\ goal' = goal
    BY <1>1, FaultHost DEF StopFails, Host, DaemonType
  <2> QED BY <1>1, <2>1 DEF StopFails, Discovered
<1>2. CASE DisableFails
  <2>1. Host' /\ Up' = Up /\ goal' = goal
    BY <1>2, FaultHost DEF DisableFails, Host, DaemonType
  <2> QED BY <1>2, <2>1 DEF DisableFails, StopReturned
<1>3. CASE ConfigsFail
  <2>1. config' \in {"none", "good", "bad"}
    BY <1>3 DEF ConfigsFail, Host, DaemonType
  <2>2. Host' /\ Up' = Up /\ goal' = goal
    BY <1>3, <2>1, FaultHost DEF ConfigsFail
  <2> QED BY <1>3, <2>2 DEF ConfigsFail
<1>4. ASSUME NEW left \in SUBSET {"unit", "template"}, UnitsFail(left) PROVE IInv'
  <2>1. Host' /\ Up' = Up /\ goal' = goal
    BY <1>4, FaultHost DEF UnitsFail, Host, DaemonType
  <2>2. unit' \in BOOLEAN /\ template' \in BOOLEAN
    BY <1>4 DEF UnitsFail
  <2>3. Removed'
    BY <1>4 DEF UnitsFail
  <2> QED BY <1>4, <2>1, <2>2, <2>3 DEF UnitsFail
<1>5. ASSUME NEW n \in Name, UninstallClientFails(n) PROVE IInv'
  <2>1. Host' /\ Up' = Up /\ goal' = goal
    BY <1>5, FaultHost DEF UninstallClientFails, Host, DaemonType
  <2> QED BY <1>5, <2>1 DEF UninstallClientFails
<1> QED BY <1>1, <1>2, <1>3, <1>4, <1>5

\* An interrupt, a reboot, and the process on its own.
LEMMA Incidents ==
  ASSUME IInv, Interrupt \/ Reboot \/ ((Runs \/ Fails) /\ UNCHANGED kvars)
  PROVE  IInv'
<1> USE DEF IInv, AdminType, Known, Stopping, Stopped, Disabled, Removed,
           Gone, files, history, Begin
<1>1. CASE Interrupt
  <2>1. Host' /\ Up' = Up /\ goal' = goal /\ config' = config
    BY <1>1, UnchangedHost DEF Interrupt, dvars, Host, DaemonType
  <2> QED BY <1>1, <2>1 DEF Interrupt
<1>2. CASE Reboot
  <2>1. Host' /\ ~Up' /\ config' = config
    BY <1>2, PowerCycleHost DEF Reboot
  <2>2. ~(enabled /\ unit) => goal' = "stopped"
    BY <1>2 DEF Reboot, PowerCycle
  <2> QED BY <1>2, <2>1, <2>2 DEF Reboot
<1>3. CASE (Runs \/ Fails) /\ UNCHANGED kvars
  <2>1. Host'
    BY <1>3, ProcessHost
  <2>2. goal' = goal /\ config' = config /\ (goal = "stopped" /\ ~Up => ~Up')
    BY <1>3, ProcessStays
  <2>3. UNCHANGED <<cmd, inst, todo, unit, template, enabled, conf, cenabled, active,
                    stray, warned, clean>>
    BY <1>3 DEF kvars
  <2>4. Stopped => Stopped'
    BY <2>2, <2>3, <1>3 DEF Host, DaemonType
  <2>5. AdminType' /\ Known' /\ Disabled' = Disabled /\ Removed' = Removed
    BY <2>3
  <2> HIDE DEF Stopped, Disabled, Removed, AdminType, Known
  <2> QED BY <2>1, <2>2, <2>3, <2>4, <2>5
<1> QED BY <1>1, <1>2, <1>3

LEMMA NextIInv == IInv /\ [Next]_vars => IInv'
<1> SUFFICES ASSUME IInv, [Next]_vars PROVE IInv'
  OBVIOUS
<1>1. CASE UNCHANGED vars
  <2>1. Host' /\ Up' = Up
    BY <1>1, UnchangedHost DEF vars, dvars, IInv, Host, DaemonType
  <2>2. UNCHANGED <<goal, config, cmd, inst, todo, unit, template, enabled, conf,
                    cenabled, active, stray, warned, clean>>
    BY <1>1 DEF vars, dvars, kvars, files, history
  <2>3. AdminType' /\ Known'
    BY <2>2 DEF IInv, AdminType, Known
  <2>4. Stopped' = Stopped /\ Disabled' = Disabled /\ Removed' = Removed
    BY <2>1, <2>2 DEF Stopped, Disabled, Removed
  <2> QED BY <2>1, <2>2, <2>3, <2>4 DEF IInv, Stopping, Gone
<1>2. CASE Operator
  BY <1>2, ServerCommands, ClientCommands, UninstallCommand,
     UninstallFailures DEF Operator
<1>3. CASE Interrupt \/ Reboot \/ (Runs /\ UNCHANGED kvars) \/ (Fails /\ UNCHANGED kvars)
  BY <1>3, Incidents
<1> QED BY <1>1, <1>2, <1>3 DEF Next

LEMMA Invariance == Spec => []IInv
BY InitIInv, NextIInv, PTL DEF Spec

-----------------------------------------------------------------------------
(***************************************************************************)
(* Type correctness of the host, the server process and krotctl.           *)
(***************************************************************************)
THEOREM TypeCorrect == Spec => []TypeOK
<1>1. IInv => TypeOK
  BY DEF IInv, Host, DaemonType, AdminType, TypeOK
<1> QED BY <1>1, Invariance, PTL

(***************************************************************************)
(* SetupServerNAT's roll-back and Teardown take back exactly what the      *)
(* process added, next to whatever dead processes left.                    *)
(***************************************************************************)
THEOREM RulesExact == Spec => []NATExact
<1>1. IInv => NATExact
  BY DEF IInv, Host
<1> QED BY <1>1, Invariance, PTL

(***************************************************************************)
(* A server that accepts clients has its device and every rule.            *)
(***************************************************************************)
THEOREM AlwaysForwards == Spec => []ServingForwards
<1>1. IInv => ServingForwards
  BY DEF IInv, Host, DaemonType, NATExact, Staged, ServingForwards
<1> QED BY <1>1, Invariance, PTL

(***************************************************************************)
(* Whatever was interrupted before and whichever of its own steps fail, an *)
(* uninstall that ran to its end leaves of each part nothing unless the    *)
(* step for that part failed, and only instances that are astray.          *)
(***************************************************************************)
THEOREM UninstallCleans == Spec => []UninstalledIsClean
<1>1. ASSUME IInv, ~Up PROVE rules = leaked
  <2>1. mine = {}
    BY <1>1 DEF IInv, Host, NATExact
  <2>2. \A r \in Rule : rules[r] = leaked[r]
    BY <1>1, <2>1 DEF IInv, Host, NATExact, DaemonType
  <2> QED BY <1>1, <2>2 DEF IInv, Host, DaemonType
<1>2. IInv => UninstalledIsClean
  BY <1>1 DEF IInv, Gone, Stopped, Disabled, Removed, UninstalledIsClean
<1> QED BY <1>2, Invariance, PTL
=============================================================================
