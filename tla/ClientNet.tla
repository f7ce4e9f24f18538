----------------------------- MODULE ClientNet ------------------------------
(***************************************************************************)
(* The client's run loop and what it does to its host: Run of              *)
(* internal/client/client.go with SetupClientRoutes, setDNS,               *)
(* SetupSourceRoute and the Teardowns of internal/netif/netif_linux.go.    *)
(*                                                                         *)
(* Every command and file operation is an action of its own.  It may fail, *)
(* and the process may be killed, or the host reboot, between any two;     *)
(* systemd starts the process again.  Routes through the TUN device vanish *)
(* with the device, other routes and rules outlive the process, files      *)
(* outlive a reboot (external: Linux).  A delete takes effect when there   *)
(* is something to delete; when it fails the error is dropped and the      *)
(* teardown goes on.                                                       *)
(***************************************************************************)
EXTENDS Integers

CONSTANTS
  Addr,    \* tunnel addresses a server may assign
  NoAddr

ASSUME ClientNetAssumption == NoAddr \notin Addr

Half == {"low", "high"}   \* 0.0.0.0/1 and 128.0.0.0/1

VARIABLES
  mode,    \* full, socks or manual
  dns,     \* a resolver is configured or assigned
  found,   \* what resolv.conf held before the first start: orig or absent
  tun,     \* the TUN device exists
  half,    \* /1 routes through it
  pinned,  \* the host route to the server
  rules,   \* addresses with a policy rule
  table,   \* source address of the default route in the socks table
  loose,   \* rp_filter has been loosened
  resolv,  \* /etc/resolv.conf: orig, krot, torn or absent
  bak,     \* its backup, likewise
  pc,      \* where Run stands
  addr,    \* the assigned address
  saved,   \* RouteState.dnsBak is set
  calm,    \* from now on nothing fails by itself and nobody stops the process
  past,    \* history: crashed, stale, badRestore
  missed,  \* history: routes that a failed delete or a killed process left
  stray    \* history: addresses whose rule was left so

config == <<mode, dns, found>>
routes == <<half, pinned>>
policy == <<rules, table, loose>>
files  == <<resolv, bak>>
history == <<past, missed, stray>>
vars   == <<config, tun, routes, policy, files, pc, addr, saved, calm, history>>

Init ==
  /\ mode \in {"full", "socks", "manual"}
  /\ dns \in BOOLEAN
  /\ found \in {"orig", "absent"}
  /\ tun = FALSE /\ half = {} /\ pinned = FALSE
  /\ rules = {} /\ table = NoAddr /\ loose = FALSE
  /\ resolv = found /\ bak = "absent"
  /\ pc = "stopped" /\ addr = NoAddr /\ saved = FALSE
  /\ calm = FALSE /\ past = {} /\ missed = {} /\ stray = {}

At(label)   == pc = label
Goto(label) == pc' = label

\* A command fails and Run goes on at label.
Fails(from, label) ==
  /\ At(from) /\ ~calm
  /\ Goto(label)
  /\ UNCHANGED <<config, tun, routes, policy, files, addr, saved, calm, history>>

-----------------------------------------------------------------------------
(* Run: dial, open the device, configure it.                               *)

\* systemd starts the process.
Start ==
  /\ At("stopped")
  /\ Goto("dialing")
  /\ past' = IF resolv # found /\ ~pinned THEN past \cup {"stale"} ELSE past
  /\ UNCHANGED <<config, tun, routes, policy, files, addr, saved, calm, missed, stray>>

\* Dial succeeds with an assigned address; without one Run returns.
Dialled(a) ==
  /\ At("dialing")
  /\ addr' = a
  /\ Goto("opening")
  /\ UNCHANGED <<config, tun, routes, policy, files, saved, calm, history>>

DialFails == Fails("dialing", "stopped")

Opened ==
  /\ At("opening")
  /\ tun' = TRUE
  /\ Goto("configuring")
  /\ UNCHANGED <<config, routes, policy, files, addr, saved, calm, history>>

OpenFails == Fails("opening", "stopped")

\* IfUp succeeds and Run branches on the mode.
Configured ==
  /\ At("configuring")
  /\ Goto(CASE mode = "full" -> "routing" [] mode = "socks" -> "loosening"
            [] mode = "manual" -> "running")
  /\ UNCHANGED <<config, tun, routes, policy, files, addr, saved, calm, history>>

ConfigureFails == Fails("configuring", "closing")

-----------------------------------------------------------------------------
(* SetupClientRoutes                                                       *)

\* routeTo finds the way to the server.
Routed ==
  /\ At("routing")
  /\ Goto("pinning")
  /\ UNCHANGED <<config, tun, routes, policy, files, addr, saved, calm, history>>

RouteFails == Fails("routing", "closing")

\* ip route add refuses a route that is already there.
PinReplacing ==
  /\ At("pinning")
  /\ pinned' = TRUE
  /\ Goto("low")
  /\ UNCHANGED <<config, tun, half, policy, files, addr, saved, calm, history>>

Pin ==
  /\ At("pinning")
  /\ ~pinned
  /\ pinned' = TRUE
  /\ Goto("low")
  /\ UNCHANGED <<config, tun, half, policy, files, addr, saved, calm, history>>

PinFails ==
  /\ At("pinning")
  /\ pinned \/ ~calm
  /\ Goto("closing")
  /\ UNCHANGED <<config, tun, routes, policy, files, addr, saved, calm, history>>

AddHalf(h) ==
  /\ At(h)
  /\ half' = half \cup {h}
  /\ Goto(IF h = "low" THEN "high" ELSE IF dns THEN "backup" ELSE "running")
  /\ UNCHANGED <<config, tun, pinned, policy, files, addr, saved, calm, history>>

\* From here on a failure runs Teardown.
HalfFailsQuietly(h) == Fails(h, "closing")
HalfFails(h) == Fails(h, "undoLow")

\* setDNS copies resolv.conf to the backup, if there is one to copy.
Backup ==
  /\ At("backup")
  /\ IF resolv = "absent"
     THEN UNCHANGED <<bak, saved>>
     ELSE bak' = resolv /\ saved' = TRUE
  /\ Goto("repoint")
  /\ UNCHANGED <<config, tun, routes, policy, resolv, addr, calm, history>>

\* The write fails; WriteFile may have truncated the file by then.
BackupFails ==
  /\ At("backup") /\ ~calm
  /\ resolv # "absent"
  /\ bak' \in {bak, "torn"}
  /\ Goto("undoLow")
  /\ UNCHANGED <<config, tun, routes, policy, resolv, addr, saved, calm, history>>

Repoint ==
  /\ At("repoint")
  /\ resolv' = "krot"
  /\ Goto("running")
  /\ UNCHANGED <<config, tun, routes, policy, bak, addr, saved, calm, history>>

RepointFails ==
  /\ At("repoint") /\ ~calm
  /\ resolv' \in {resolv, "torn"}
  /\ Goto("undoLow")
  /\ UNCHANGED <<config, tun, routes, policy, bak, addr, saved, calm, history>>

-----------------------------------------------------------------------------
(* SetupSourceRoute and socks.New                                          *)

\* Two sysctls whose errors are ignored.
Loosen ==
  /\ At("loosening")
  /\ loose' \in (IF calm THEN {TRUE} ELSE {TRUE, loose})
  /\ Goto("tabling")
  /\ UNCHANGED <<config, tun, routes, rules, table, files, addr, saved, calm, history>>

\* ip route replace overwrites a leftover.
TableRoute ==
  /\ At("tabling")
  /\ table' = addr
  /\ Goto("unstacking")
  /\ UNCHANGED <<config, tun, routes, rules, loose, files, addr, saved, calm, history>>

TableFails == Fails("tabling", "closing")

\* Delete a stale copy of the rule before adding it.
UnstackNothing ==
  /\ At("unstacking")
  /\ Goto("ruling")
  /\ UNCHANGED <<config, tun, routes, policy, files, addr, saved, calm, history>>

Unstack ==
  /\ At("unstacking")
  /\ rules' = rules \ {addr} /\ stray' = stray \ {addr}
  /\ Goto("ruling")
  /\ UNCHANGED <<config, tun, routes, table, loose, files, addr, saved, calm, past, missed>>

\* Its error is ignored; when there was a copy, the add will fail.
UnstackFails == Fails("unstacking", "ruling")

AddRule ==
  /\ At("ruling")
  /\ addr \notin rules
  /\ rules' = rules \cup {addr}
  /\ Goto("listening")
  /\ UNCHANGED <<config, tun, routes, table, loose, files, addr, saved, calm, history>>

RuleFails ==
  /\ At("ruling")
  /\ addr \in rules \/ ~calm
  /\ Goto("flushing")
  /\ UNCHANGED <<config, tun, routes, policy, files, addr, saved, calm, history>>

Listening ==
  /\ At("listening")
  /\ Goto("running")
  /\ UNCHANGED <<config, tun, routes, policy, files, addr, saved, calm, history>>

ListenFails == Fails("listening", "unruling")

-----------------------------------------------------------------------------
(* The pumps run until the context ends or one of them fails; then the     *)
(* deferred calls: the mode's Teardown, the device, the tunnel.            *)

Stop ==
  /\ At("running") /\ ~calm
  /\ Goto(CASE mode = "full" -> "undoLow" [] mode = "socks" -> "unruling"
            [] mode = "manual" -> "closing")
  /\ UNCHANGED <<config, tun, routes, policy, files, addr, saved, calm, history>>

\* RouteState.Teardown.  It ignores every error and goes on to the next step.
UndoHalf(from, h, label) ==
  /\ At(from)
  /\ half' = half \ {h}
  /\ Goto(label)
  /\ UNCHANGED <<config, tun, pinned, policy, files, addr, saved, calm, history>>

UndoHalfFails(from, h, label) ==
  /\ At(from) /\ ~calm
  /\ missed' = missed \cup (half \cap {h})
  /\ Goto(label)
  /\ UNCHANGED <<config, tun, routes, policy, files, addr, saved, calm, past, stray>>

UndoLow  == UndoHalf("undoLow", "low", "undoHigh")

UndoHighWrong == UndoHalf("undoHigh", "low", "unpinning")
UndoHigh == UndoHalf("undoHigh", "high", "unpinning")

UndoLowFails  == UndoHalfFails("undoLow", "low", "undoHigh")
UndoHighFails == UndoHalfFails("undoHigh", "high", "unpinning")

Unpin ==
  /\ At("unpinning")
  /\ pinned' = FALSE
  /\ Goto(IF saved THEN "restoring" ELSE "closing")
  /\ UNCHANGED <<config, tun, half, policy, files, addr, saved, calm, history>>

UnpinFails ==
  /\ At("unpinning") /\ ~calm
  /\ missed' = missed \cup {"host"}
  /\ Goto(IF saved THEN "restoring" ELSE "closing")
  /\ UNCHANGED <<config, tun, routes, policy, files, addr, saved, calm, past, stray>>

Restore ==
  /\ At("restoring")
  /\ resolv' = bak
  /\ Goto("removing")
  /\ UNCHANGED <<config, tun, routes, policy, bak, addr, saved, calm, history>>

\* The error of WriteFile is ignored and the backup is removed all the same.
RestoreFails ==
  /\ At("restoring") /\ ~calm
  /\ resolv' \in {resolv, "torn"}
  /\ past' = past \cup {"badRestore"}
  /\ Goto("removing")
  /\ UNCHANGED <<config, tun, routes, policy, bak, addr, saved, calm, missed, stray>>

RemoveBackup ==
  /\ At("removing")
  /\ bak' = "absent" /\ saved' = FALSE
  /\ Goto("closing")
  /\ UNCHANGED <<config, tun, routes, policy, resolv, addr, calm, history>>

RemoveFails ==
  /\ At("removing") /\ ~calm
  /\ saved' = FALSE
  /\ Goto("closing")
  /\ UNCHANGED <<config, tun, routes, policy, files, addr, calm, history>>

\* SrcRouteState.Teardown, which ignores errors too.
Unrule ==
  /\ At("unruling")
  /\ rules' = rules \ {addr}
  /\ Goto("flushing")
  /\ UNCHANGED <<config, tun, routes, table, loose, files, addr, saved, calm, history>>

UnruleFails ==
  /\ At("unruling") /\ ~calm
  /\ stray' = stray \cup {addr}
  /\ Goto("flushing")
  /\ UNCHANGED <<config, tun, routes, policy, files, addr, saved, calm, past, missed>>

Flush ==
  /\ At("flushing")
  /\ table' = NoAddr
  /\ Goto("closing")
  /\ UNCHANGED <<config, tun, routes, rules, loose, files, addr, saved, calm, history>>

FlushFails == Fails("flushing", "closing")

\* The device takes its routes along, whether it is closed or its owner dies.
DeviceGone == tun' = FALSE /\ half' = {} /\ table' = NoAddr

CloseDevice ==
  /\ At("closing")
  /\ DeviceGone
  /\ missed' = missed \ Half
  /\ addr' = NoAddr
  /\ Goto("stopped")
  /\ UNCHANGED <<config, pinned, rules, loose, files, saved, calm, past, stray>>

-----------------------------------------------------------------------------
(* The environment.                                                        *)

\* WriteFile truncates before it writes: a write cut short leaves a torn file.
CutShort ==
  /\ bak' \in IF At("backup") /\ resolv # "absent" THEN {bak, "torn"} ELSE {bak}
  /\ resolv' \in IF pc \in {"repoint", "restoring"} THEN {resolv, "torn"} ELSE {resolv}

Gone ==
  /\ DeviceGone
  /\ CutShort
  /\ Goto("stopped")
  /\ addr' = NoAddr /\ saved' = FALSE
  /\ past' = past \cup {"crashed"}

Kill ==
  /\ ~At("stopped") /\ ~calm
  /\ Gone
  /\ missed' = (IF pinned THEN {"host"} ELSE {}) /\ stray' = rules
  /\ UNCHANGED <<config, pinned, rules, loose, calm>>

Reboot ==
  /\ ~calm
  /\ Gone
  /\ pinned' = FALSE /\ rules' = {} /\ loose' = FALSE
  /\ missed' = {} /\ stray' = {}
  /\ UNCHANGED <<config, calm>>

CalmDown ==
  /\ ~calm /\ calm' = TRUE
  /\ UNCHANGED <<config, tun, routes, policy, files, pc, addr, saved, history>>

Work ==
  \/ Start \/ (\E a \in Addr : Dialled(a)) \/ DialFails \/ Opened \/ OpenFails
  \/ Configured \/ ConfigureFails
  \/ Routed \/ RouteFails \/ Pin \/ PinFails
  \/ (\E h \in Half : AddHalf(h) \/ HalfFails(h))
  \/ Backup \/ BackupFails \/ Repoint \/ RepointFails
  \/ Loosen \/ TableRoute \/ TableFails \/ Unstack \/ UnstackFails
  \/ AddRule \/ RuleFails \/ Listening \/ ListenFails
  \/ UndoLow \/ UndoLowFails \/ UndoHigh \/ UndoHighFails \/ Unpin \/ UnpinFails
  \/ Restore \/ RestoreFails \/ RemoveBackup \/ RemoveFails
  \/ Unrule \/ UnruleFails \/ Flush \/ FlushFails \/ CloseDevice

Next == Work \/ Stop \/ Kill \/ Reboot \/ CalmDown

Spec == Init /\ [][Next]_vars

(***************************************************************************)
(* The process runs, every command ends, and systemd restarts the process  *)
(* whenever it has ended (Restart=always in the unit of krotctl).          *)
(***************************************************************************)
FairSpec == Spec /\ WF_vars(Work)

-----------------------------------------------------------------------------
Labels == {"stopped", "dialing", "opening", "configuring", "routing", "pinning",
           "low", "high", "backup", "repoint", "loosening", "tabling",
           "unstacking", "ruling", "listening", "running", "undoLow",
           "undoHigh", "unpinning", "restoring", "removing", "unruling",
           "flushing", "closing"}

Content == {"orig", "krot", "torn", "absent"}

TypeOK ==
  /\ mode \in {"full", "socks", "manual"} /\ dns \in BOOLEAN
  /\ found \in {"orig", "absent"}
  /\ tun \in BOOLEAN /\ half \subseteq Half /\ pinned \in BOOLEAN
  /\ rules \subseteq Addr /\ table \in Addr \cup {NoAddr} /\ loose \in BOOLEAN
  /\ resolv \in Content /\ bak \in Content
  /\ pc \in Labels /\ addr \in Addr \cup {NoAddr} /\ saved \in BOOLEAN
  /\ calm \in BOOLEAN /\ past \subseteq {"crashed", "stale", "badRestore"}
  /\ missed \subseteq Half \cup {"host"} /\ stray \subseteq Addr

(***************************************************************************)
(* While the default route goes through the tunnel, the tunnel's own       *)
(* packets do not ("so tunnel packets don't loop", SetupClientRoutes):     *)
(* during set-up, roll-back, teardown and after a crash.  The exception is *)
(* a half route whose delete failed in Teardown, which removes the host    *)
(* route all the same: it loops until the device is closed, which is the   *)
(* next thing Run does after Teardown.                                     *)
(***************************************************************************)
NoLoop ==
  half # {} /\ ~pinned =>
    half \subseteq missed /\ pc \in {"restoring", "removing", "closing"}

(***************************************************************************)
(* "All OS-level changes are reverted before it returns" (Run), wherever   *)
(* set-up failed.  A host route or a rule is left only if its own delete   *)
(* failed or a former process was killed with it in place; what is bound   *)
(* to the device goes with it, even when its delete failed.  resolv.conf   *)
(* is as it was unless a former process was killed or the restoring write  *)
(* failed.  The rp_filter settings, and a resolv.conf that did not exist   *)
(* before, are not reverted and not claimed here.                          *)
(***************************************************************************)
Reverted ==
  At("stopped") =>
    /\ ~tun /\ half = {} /\ table = NoAddr
    /\ pinned => "host" \in missed
    /\ rules \subseteq stray
    /\ found = "orig" /\ past = {} => resolv = "orig"

(***************************************************************************)
(* The user's resolv.conf is in its place or in the backup, through        *)
(* failures, kills and restarts, unless a restoring write fails or Run     *)
(* starts on a rewritten file without the stale host route that stops it.  *)
(***************************************************************************)
OriginalSurvives ==
  found = "orig" /\ past \cap {"stale", "badRestore"} = {} => "orig" \in {resolv, bak}

(***************************************************************************)
(* In the socks and manual modes a restart succeeds after any crash        *)
(* ("a leftover route from a crashed prior instance is overwritten",       *)
(* SetupSourceRoute).                                                      *)
(***************************************************************************)
ChainedRestarts == (calm /\ mode # "full") ~> At("running")

(***************************************************************************)
(* The same in full mode ("letting systemd restart a dead client",         *)
(* keepalive of the client).                                               *)
(***************************************************************************)
FullRestarts == (calm /\ mode = "full") ~> At("running")
=============================================================================
