------------------------------ MODULE Krotctl ------------------------------
(***************************************************************************)
(* A host that krotctl administers: server up and down                     *)
(* (cmd/krotctl/server.go), client up and down for named instances         *)
(* (cmd/krotctl/client.go), uninstall (cmd/krotctl/uninstall.go), systemd, *)
(* and the server process of ServerDaemon.                                 *)
(*                                                                         *)
(* One operator runs one command at a time.  A command is several steps,   *)
(* it may be interrupted after any of them, and the host may reboot between*)
(* any two.  A failing step ends an up or a down; uninstall warns and goes *)
(* on.  A client's daemon is seen as its unit being active; what it does to*)
(* the host's routes is the subject of ClientNet.                          *)
(***************************************************************************)
EXTENDS ServerDaemon

CONSTANT Name   \* client instances

VARIABLES
  cmd,      \* the command at work and its next step, or idle
  inst,     \* the instance it is about
  todo,     \* uninstall: discovered instances not yet stopped
  unit,     \* the server's unit file is there
  template, \* krot-client@.service is there
  enabled,  \* the server's unit is enabled
  conf,     \* client-<name>.json files
  active,   \* instances systemd keeps running
  cenabled, \* enabled instances
  stray,    \* history: instances whose configuration a rejected up -force
            \* removed, or whose stop or disable failed in an uninstall
  warned,   \* history: what failed in this or the last uninstall: stop, disable,
            \* unit, template, configs
  clean     \* history: the last command was an uninstall, and it completed

files == <<unit, template, enabled, conf, cenabled>>
history == <<stray, warned>>
kvars == <<cmd, inst, todo, files, active, history, clean>>
vars == <<dvars, kvars>>

Init ==
  /\ DaemonInit
  /\ cmd = "idle" /\ inst \in Name /\ todo = {}
  /\ unit = FALSE /\ template = FALSE /\ enabled = FALSE
  /\ conf = {} /\ active = {} /\ cenabled = {} /\ stray = {}
  /\ warned = {} /\ clean = FALSE

-----------------------------------------------------------------------------
(* server up and down.                                                     *)

\* A command begins.
Begin == clean' = FALSE /\ warned' = {}

\* writeServerConfig; the PSK is written as given.  An existing file needs
\* -force.
ServerUp ==
  /\ cmd = "idle"
  /\ config' \in {"good", "bad"}
  /\ cmd' = "server unit" /\ Begin
  /\ UNCHANGED <<goal, proc, nat, faults, inst, todo, files, active, stray>>

\* installServerUnit; then -no-start returns, or systemctl enable is tried.
ServerUnit ==
  /\ cmd = "server unit"
  /\ unit' = TRUE
  /\ \/ cmd' = "idle" /\ UNCHANGED enabled
     \/ cmd' = "server restart" /\ enabled' \in {enabled, TRUE}
  /\ UNCHANGED <<dvars, inst, todo, template, conf, cenabled, active, history, clean>>

\* systemctl restart: stop, then start.
ServerRestart ==
  /\ cmd = "server restart"
  /\ Stop
  /\ cmd' = "server start"
  /\ UNCHANGED <<inst, todo, files, active, history, clean>>

ServerStart ==
  /\ cmd = "server start"
  /\ Start
  /\ cmd' = "idle"
  /\ UNCHANGED <<inst, todo, files, active, history, clean>>

ServerDown ==
  /\ cmd = "idle"
  /\ Stop
  /\ Begin
  /\ UNCHANGED <<cmd, inst, todo, files, active, stray>>

-----------------------------------------------------------------------------
(* client up and down.                                                     *)

\* writeClientConfig, over an existing file with -force, and LoadClient
\* accepts it.
ClientUp(n) ==
  /\ cmd = "idle"
  /\ conf' = conf \cup {n} /\ stray' = stray \ {n}
  /\ inst' = n
  /\ cmd' = "client unit" /\ Begin
  /\ UNCHANGED <<dvars, todo, unit, template, enabled, cenabled, active>>

\* LoadClient refuses what was written, and the file is removed.
ClientUpRejected(n) ==
  /\ cmd = "idle"
  /\ conf' = conf \ {n}
  /\ stray' = IF n \in active \cup cenabled THEN stray \cup {n} ELSE stray
  /\ Begin
  /\ UNCHANGED <<dvars, cmd, inst, todo, unit, template, enabled, cenabled, active>>

ClientUnit ==
  /\ cmd = "client unit"
  /\ template' = TRUE
  /\ \/ cmd' = "idle" /\ UNCHANGED cenabled
     \/ cmd' = "client restart" /\ cenabled' \in {cenabled, cenabled \cup {inst}}
  /\ UNCHANGED <<dvars, inst, todo, unit, enabled, conf, active, history, clean>>

ClientRestart ==
  /\ cmd = "client restart"
  /\ active' = active \cup {inst}
  /\ cmd' = "idle"
  /\ UNCHANGED <<dvars, inst, todo, files, history, clean>>

ClientDown(n) ==
  /\ cmd = "idle"
  /\ active' = active \ {n}
  /\ Begin
  /\ UNCHANGED <<dvars, cmd, inst, todo, files, stray>>

-----------------------------------------------------------------------------
(* uninstall.  A step that fails is reported, and the next one follows.    *)

\* discoverClientInstances: a glob over the configuration files.
Discovered == conf

UninstallConfigsFirst ==
  /\ cmd = "idle"
  /\ todo' = Discovered /\ conf' = {}
  /\ Stop
  /\ cmd' = "stopping" /\ Begin
  /\ UNCHANGED <<inst, unit, template, enabled, cenabled, active, stray>>

\* Confirmed; systemctl stop of the server.
Uninstall ==
  /\ cmd = "idle"
  /\ todo' = Discovered
  /\ Stop
  /\ cmd' = "stopping" /\ Begin
  /\ UNCHANGED <<inst, files, active, stray>>

\* It fails before the daemon is signalled, or while it waits.
StopFails ==
  /\ \/ cmd = "idle" /\ todo' = Discovered
     \/ cmd = "stopping" /\ UNCHANGED todo
  /\ Fault
  /\ cmd' = "disabling" /\ warned' = {"stop"} /\ clean' = FALSE
  /\ UNCHANGED <<config, goal, proc, nat, inst, files, active, stray>>

StopReturned == (cmd = "stopping" /\ ~Up) \/ cmd = "disabling"

\* systemctl disable.
UninstallServer ==
  /\ StopReturned
  /\ enabled' = FALSE
  /\ cmd' = "clients"
  /\ UNCHANGED <<dvars, inst, todo, unit, template, conf, cenabled, active, history, clean>>

DisableFails ==
  /\ StopReturned
  /\ Fault
  /\ cmd' = "clients" /\ warned' = warned \cup {"disable"}
  /\ UNCHANGED <<config, goal, proc, nat, inst, todo, files, active, stray, clean>>

\* stopDisable(clientUnit(n)) for each.
UninstallClient(n) ==
  /\ cmd = "clients"
  /\ n \in todo /\ todo' = todo \ {n}
  /\ active' = active \ {n} /\ cenabled' = cenabled \ {n} /\ stray' = stray \ {n}
  /\ UNCHANGED <<dvars, cmd, inst, unit, template, enabled, conf, warned, clean>>

\* The stop, the disable or both fail.
UninstallClientFails(n) ==
  /\ cmd = "clients"
  /\ n \in todo /\ todo' = todo \ {n}
  /\ Fault
  /\ active' \in {active, active \ {n}} /\ cenabled' \in {cenabled, cenabled \ {n}}
  /\ n \in active' \cup cenabled'
  /\ stray' = stray \cup {n}
  /\ UNCHANGED <<config, goal, proc, nat, cmd, inst, unit, template, enabled, conf,
                 warned, clean>>

\* removeFile of both unit files.
UninstallUnits ==
  /\ cmd = "clients" /\ todo = {}
  /\ unit' = FALSE /\ template' = FALSE
  /\ cmd' = "configs"
  /\ UNCHANGED <<dvars, inst, todo, enabled, conf, cenabled, active, history, clean>>

\* Those in left cannot be removed.
UnitsFail(left) ==
  /\ cmd = "clients" /\ todo = {}
  /\ Fault
  /\ unit' = (unit /\ "unit" \in left) /\ template' = (template /\ "template" \in left)
  /\ cmd' = "configs" /\ warned' = warned \cup left
  /\ UNCHANGED <<config, goal, proc, nat, inst, todo, enabled, conf, cenabled, active,
                 stray, clean>>

\* os.RemoveAll("/etc/krot").  With -keep-config the command ends before.
UninstallConfigs ==
  /\ cmd = "configs"
  /\ config' = "none" /\ conf' = {}
  /\ cmd' = "idle" /\ clean' = TRUE
  /\ UNCHANGED <<goal, proc, nat, faults, inst, todo, unit, template, enabled, cenabled,
                 active, history>>

\* RemoveAll fails somewhere in the tree.
ConfigsFail ==
  /\ cmd = "configs"
  /\ Fault
  /\ config' \in {config, "none"} /\ conf' \in SUBSET conf
  /\ cmd' = "idle" /\ warned' = warned \cup {"configs"} /\ clean' = TRUE
  /\ UNCHANGED <<goal, proc, nat, inst, todo, unit, template, enabled, cenabled, active,
                 stray>>

-----------------------------------------------------------------------------
(* What can happen in between.                                             *)

\* The command is interrupted or killed, or it is an up and its next step
\* fails.  A restart that was asked for is systemd's to finish.
Interrupt ==
  /\ cmd \notin {"idle", "server start"}
  /\ cmd' = "idle" /\ todo' = {}
  /\ warned' = {}
  /\ UNCHANGED <<dvars, inst, files, active, stray, clean>>

Reboot ==
  /\ PowerCycle(enabled /\ unit)
  /\ active' = IF template THEN cenabled ELSE {}
  /\ cmd' = "idle" /\ todo' = {}
  /\ UNCHANGED <<inst, files, history, clean>>

Operator ==
  \/ ServerUp \/ ServerUnit \/ ServerRestart \/ ServerStart \/ ServerDown
  \/ \E n \in Name : ClientUp(n) \/ ClientUpRejected(n) \/ ClientDown(n)
  \/ ClientUnit \/ ClientRestart
  \/ Uninstall \/ StopFails \/ UninstallServer \/ DisableFails
  \/ \E n \in Name : UninstallClient(n) \/ UninstallClientFails(n)
  \/ UninstallUnits \/ \E left \in SUBSET {"unit", "template"} \ {{}} : UnitsFail(left)
  \/ UninstallConfigs \/ ConfigsFail

Next ==
  \/ Operator \/ Interrupt \/ Reboot
  \/ Runs /\ UNCHANGED kvars
  \/ Fails /\ UNCHANGED kvars

Spec == Init /\ [][Next]_vars

\* The process runs, systemd restarts it, and finishes a restart it was asked
\* for.
FairSpec == Spec /\ WF_vars(Runs /\ UNCHANGED kvars) /\ WF_vars(ServerStart)

-----------------------------------------------------------------------------
Procs == {"off", "dead", "load", "tun", "nat", "undo", "run", "serving", "failing",
          "closing"}

TypeOK ==
  /\ config \in {"none", "good", "bad"}
  /\ goal \in {"started", "stopped"} /\ proc \in Procs
  /\ mine \in SUBSET Rule /\ dev \in BOOLEAN
  /\ rules \in [Rule -> Nat] /\ leaked \in [Rule -> Nat]
  /\ leaks \in 0 .. MaxLeaks /\ faults \in 0 .. MaxFaults
  /\ cmd \in {"idle", "server unit", "server restart", "server start", "client unit",
              "client restart", "stopping", "disabling", "clients", "configs"}
  /\ inst \in Name /\ todo \subseteq Name
  /\ unit \in BOOLEAN /\ template \in BOOLEAN /\ enabled \in BOOLEAN
  /\ conf \subseteq Name /\ active \subseteq Name /\ cenabled \subseteq Name
  /\ stray \subseteq Name /\ clean \in BOOLEAN
  /\ warned \subseteq {"stop", "disable", "unit", "template", "configs"}

(***************************************************************************)
(* The firewall holds the rules of the running process, once each, plus    *)
(* what earlier processes left when they died or could not delete: a failed*)
(* SetupServerNAT and an orderly Close take back exactly what they added,  *)
(* also next to equal rules left by another process, and never more.       *)
(***************************************************************************)
NATExact ==
  /\ \A r \in Rule : rules[r] = leaked[r] + (IF r \in mine THEN 1 ELSE 0)
  /\ ~Up => mine = {} /\ ~dev

(***************************************************************************)
(* While the server accepts clients, their packets are forwarded: the      *)
(* device and every rule are there, whatever earlier processes left behind *)
(* or removed.                                                             *)
(***************************************************************************)
ServingForwards == proc = "serving" => dev /\ \A r \in Rule : rules[r] >= 1

(***************************************************************************)
(* uninstall: "a partial install still cleans up fully".  Whatever commands*)
(* were interrupted before, an uninstall that ran to its end leaves of each*)
(* part of the server, the units and the configurations nothing, unless the*)
(* step for that very part failed, and no rule but leaked ones; the server *)
(* comes back with a reboot only if both the disable and the removal of    *)
(* the unit failed.  Of the instances it leaves those whose own stop or    *)
(* disable failed, now or in an uninstall that removed their configuration,*)
(* and those that lost it to a rejected up -force: discoverClientInstances *)
(* does not find these.                                                    *)
(***************************************************************************)
UninstalledIsClean ==
  clean =>
    /\ Up \/ goal = "started" \/ rules # leaked =>
         "stop" \in warned \/ {"disable", "unit"} \subseteq warned
    /\ enabled => "disable" \in warned
    /\ unit => "unit" \in warned
    /\ template => "template" \in warned
    /\ config # "none" \/ conf # {} => "configs" \in warned
    /\ active \cup cenabled \subseteq stray

(***************************************************************************)
(* A server that is wanted and well configured comes up, whatever failed   *)
(* or killed it before (Restart=on-failure needs an exit with an error).   *)
(***************************************************************************)
ComesUp ==
  goal = "started" /\ config = "good"
    ~> proc = "serving" \/ goal = "stopped" \/ config # "good"
=============================================================================
