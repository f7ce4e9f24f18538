# KrotVPN: TLA+ models, checks and proofs

KrotVPN carries IP packets between a client's and a server's TUN device over
one or several WebSocket connections ("channels") inside TLS. The channels of
one client are bonded into one tunnel; the server gives each tunnel an address
from a pool and routes replies by it. This directory models the parts of the
program where goroutines, failures and limits meet, checks them with TLC on
small instances and proves the central invariants with TLAPS.

## 1. The system

Paths are relative to `src/internal/`.

| component | state it keeps | operations | talks to |
|---|---|---|---|
| Admission (`transport/server.go` checkAuth, `crypto/crypto.go` ReplayFilter) | seen tokens with expiry, time of the last sweep | checkAuth, Check | called by every HTTP handler goroutine, concurrently |
| Channel (`transport/conn.go`, `frame/frame.go`, AEADStream) | wmu, transmit and receive counters, burst count | WritePacket, WriteKeepalive, ReadPacket, Close | the WebSocket; callers are the tunnel's writer, keepalive and readLoop |
| Bonded tunnel (`transport/tunnel.go`) | channel map and order, closed flag, dead channel, deadOnce, inbound queue | addChannel, readLoop, removeChannel, markDead, WritePacket, WriteKeepalive, ReadPacket, Close | owns the channels; calls its owner back through onEmpty |
| Sessions (`transport/server.go` ServeHTTP) | Handler.sessions: session id to tunnel | create, join, refuse, delete on onEmpty | pool (Alloc/release), starts OnConn |
| Address pool (`server/pool.go`) | free list, used set | alloc, release | |
| Dispatch (`server/server.go`) | Server.sessions: address to tunnel | handleConn, register, unregister, keepalive, dispatch | TUN device, tunnels |
| Client dialler (`transport/client.go`) | | Dial, dialChannel | server handler, tunnel |
| Client run loop (`client/client.go`) | deferred teardown | Run with two pumps, keepalive | tunnel, host network, SOCKS |
| Host network (`netif/netif_linux.go`) | routes, rules, resolv.conf and its backup, iptables rules | Setup..., Teardown | the kernel; survives the process |
| SOCKS5 proxy (`socks/socks.go`) | listener; per connection: deadline, two sockets, two copying goroutines | Serve, handle, handshake, relay | TUN source address |
| Server process (`server/server.go` New, Run, Close; `cmd/krotctl/server.go` serverRun) | device, NAT rules | start, serve, stop | host network, systemd |
| krotctl (`cmd/krotctl/*.go`) | configuration files, unit files, enabled and active units | server up/down, client up/down, uninstall | systemd, the daemons |
| Decoy, TLS, certificates, wizard, tools | | set-up and input handling | |

What makes it hard to test:

* three tables of the server (session map, pool, routing table) describe the
  same tunnel, each under a lock of its own, and are updated by goroutines that
  nothing orders;
* `removeChannel` and `Close` unlock before they call `markDead`, so channels
  can join a tunnel that is about to die;
* the receiver opens records strictly in nonce order, so one record written
  out of order, or one nonce spent in vain, breaks a channel;
* a handler reads the clock twice, outside the replay filter's mutex, and
  compares with limits that are inclusive on one side and exclusive on the other;
* a session, its address and its handler exist before the WebSocket upgrade has
  succeeded;
* the retry budget of a write is a constant, the number of channels is not;
* the client changes its host in a dozen steps, each of which can fail, and the
  changes have different lifetimes: some end with the device, some with the
  host's uptime, some never;
* each channel is dialled by a goroutine and a TCP connection of its own, so the
  two ends can disagree about which channels, and which session, exist;
* a proxied connection has two directions that end at different times, under a
  deadline meant for the handshake only;
* the server handles signals only between the end of New and the return of Run,
  and iptables appends a rule even if an equal one is there;
* an administrator's command is a dozen steps, any of which can be the last.

What makes each part correct: admission lets a token in once and never turns a
first presentation away; a channel is a FIFO that can break but not reorder,
lose or repeat in the middle; a tunnel is torn down exactly once, and is torn
down when its last channel goes; an address has one owner, and a session
nobody uses gives it back; a live session can be reached by its address; the
client's host is left as it was found, and a killed client can start again;
the channels of a client lead to one session, with matching keys; a proxied
connection is relayed to both its ends; the server takes back exactly the rules
it added, and uninstall what krotctl installed.

## 2. Modules

| module | models |
|---|---|
| `ReplayFilter` | checkAuth and ReplayFilter, with a clock |
| `PacketLink` | abstract: a FIFO of records that can only break |
| `Conn` | one direction of a channel; implements `PacketLink` |
| `TunnelLife` | abstract: the life cycle of a tunnel as its owner sees it |
| `Tunnel` | the tunnel and the goroutines that share it; implements `TunnelLife` |
| `ServerSessions` | sessions, pool, handleConn and dispatch; uses tunnels through `TunnelLife` |
| `ClientNet` | client.Run and what it does to its host, in the three modes |
| `KeyAgreement` | the key schedule of a channel, as operators |
| `Bond` | Dial and dialChannel, composed with `ServerSessions` and `KeyAgreement` |
| `Socks` | the SOCKS5 proxy: listener, handshake, relay |
| `ServerDaemon` | the server process, its NAT rules and systemd |
| `Krotctl` | krotctl's commands on a host, composed with `ServerDaemon` |
| `MC...` | symmetry sets and requests for TLC |
| `...Proofs` | TLAPS proofs |

`TunnelLife` is the seam of the composition: `Tunnel` is proved to implement it
step by step, and `ServerSessions` relies on no more than it: it is proved that
every session's tunnel goes through that life cycle too.

### ReplayFilter

`now` is the server's clock in seconds. `Mint` is `dialChannel` taking its own
clock reading into a token. A handler goes through three actions, because the
goroutine can be suspended between them: `CheckAuth` (first reading, freshness,
HMAC), `ReadClock` (second reading, before the mutex) and `Check` (sweep, look
up, record, under the mutex). Requests that fail a test change nothing and are
stuttering steps; `Forged` requests stand for those without a valid HMAC.
`accepts`, `mark` and `refused` are history.

### Conn

A write is `Call`, `Lock` (wmu), `Seal` or `SealFails` (errBig before the
counter moves, exhaustion instead of moving it), `Write` or `WriteFails`.
`spent` counts the records each nonce sealed. `Read` is one round of
ReadPacket's loop: `Opener.Open` advances the counter and authenticates. The
WebSocket is external and modelled by how the code uses it: messages are
delivered whole and in order, and after a failed write all writes fail. The
counter is a machine word with `MaxCounter + 1` values. A packet is its length:
`PadFor` is the set of paddings Sealer.padFor may draw, and a message longer
than `ReadLimit` fails to open. `Sealer.count` is not a variable: it moves with
the nonce counter. The assumption `PolicyFits` holds for the code's constants
(TLC evaluates it on scaled-down ones).

### Tunnel

One thread per readLoop (named by its channel), plus the writer, the keepalive
ticker and an outside Close; the constant `Cast` says which of the three may be
present together (one that is absent is done from the start). `pc` stands at the points where another goroutine can run. A thread
that removes a channel goes `remove` (under mu), `drop` or `dropLast` (closing
the socket after the unlock), `markDead`, `closeDead`, `onEmpty`; the others
wait inside `deadOnce.Do`. `conn` is each channel's socket: a failed write
leaves it `stuck`. Packets in `inbound` are counted. `flowHash` is any value.
`Without` is removeChannel's loop over `order`, as a function of how much of the
slice it has gone through.

### ServerSessions

A request `<<sid, i>>` (the constant `Request` says which are made) is one channel past checkAuth: `Create`, `Join` or
`Exhausted` under `Handler.mu`, then `Upgraded` or `UpgradeFails`. A session's
tunnel is its `life` and the requests attached to it. The onEmpty closure is two
steps, `Unmap` and `Release`, because it takes two locks in turn. `conn` follows
handleConn from the `go` statement (`starting`) over `Register`, its end by
`ReadFails` or `DevFails`, to `Unregister`. `Lookup` and `Written`/`WriteFails`
are dispatch before and after its lock. Addresses are offsets in the subnet, as
in `newIPPool`.

### ClientNet

One action per command or file operation of Run, SetupClientRoutes, setDNS,
SetupSourceRoute and the two Teardowns, and one for its failure, leading to the
label where the code goes on (roll-back, or straight to the deferred close of
the device). `pc` is the operation Run stands at. `Kill` and `Reboot` may come
between any two, and within a WriteFile, which then leaves a torn file
(`CutShort`). What outlives what is Linux's doing: closing the device or losing
its owner removes the device's routes (`DeviceGone`), the host route and the
policy rules live until a reboot, files survive that as well. `CalmDown` is the
moment from which nothing fails by itself any more; commands that the kernel
refuses because of a leftover (`PinFails`, `RuleFails`) still fail after it.
`past` is history: a process was killed, Run started on a rewritten resolv.conf
with no stale host route, a restoring write failed. The server and its gateway
stay the same, so the pinned route is the same route at every start. A delete
command takes effect if there is something to delete. It may also fail, in
roll-back and in both Teardowns; the code ignores the error and goes on with the
next command, and so do `UndoLowFails`, `UndoHighFails`, `UnpinFails`,
`UnruleFails` and `FlushFails`. `missed` and `stray` are history too: the routes,
and the addresses of the rules, that a failed delete or a kill has left.

### Bond and KeyAgreement

`dial` follows Dial, `hop` each dialChannel. A request is served by the actions
of `ServerSessions` once it was sent, whether its client still waits or not;
`Respond` is the Upgrade that writes the response, `Attach` the rest of
ServeHTTP. `Cut`, `Drop` and `TimedOut` are connections that break on one end
only; the other end learns of it later (see fairness). Keys are symbolic terms
and not part of the state: both ends' key pairs are functions of the request and
of the response that was received. A session is `Forsaken` when handleConn has
returned on a TUN write error while channels are attached: nobody drains inbound
then and no keepalive runs, so a readLoop can stand at the full queue for good
and never read that its peer is gone.

### Socks

One connection: connections share nothing but the listener. `pc` follows handle,
`cp[s]` the copying goroutine for data from side `s`; `taken` and `passed` are
the two halves of io.Copy, so a chunk can be in its hands. The peers may send,
half-close, reset, or stop reading at any time. The comment on relay says it
copies "until either side closes"; the code waits for both, which is what a
half-close needs, and the properties state what the code does.

### ServerDaemon and Krotctl

`proc` is where the server process stands. Equal iptables rules are counted:
`rules` is the host's, `mine` is NATState.rules, `leaked` counts what processes
left that died, or failed to delete. `Stop` is systemctl stop: in the window in
which SIGTERM is handled it leads to Close, elsewhere it ends the process at
once. `Exec` is systemd starting the unit or restarting it after an exit with an
error; the pause of 3 s keeps it below systemd's default start limit. In
`Krotctl` `cmd` is the command at work and its next step. `Interrupt` is Ctrl-C
or a kill between any two steps, and, in an up, a step that returns an error: an
up ends there. Uninstall does not: it warns and goes on when systemctl or a
removal fails (`StopFails`, `DisableFails`, `UninstallClientFails`, `UnitsFail`,
`ConfigsFail`). `warned` is history: the parts whose step failed in the uninstall
at work or last run; `stray` are the instances whose stop or disable failed or
whose configuration went while they ran. A down whose systemctl fails changes
nothing and is a stuttering step. Uninstall's `-keep-config` is an `Interrupt`
before `UninstallConfigs`, `-no-start` a choice of `ServerUnit` and
`ClientUnit`. A client's daemon is only its unit being active.

## 3. Runs

| run | expects | shows |
|---|---|---|
| `replay_code` | pass | a first presentation is never refused; a second acceptance happens only at the very end of the token's span; expired entries are swept |
| `replay_edge` | violation of `AcceptedOnce` | with TTL = 2 * authWindow a token is accepted at both ends of its inclusive span of 2 * authWindow + 1 seconds |
| `conn` | pass | lock discipline, no nonce reuse, no desynchronisation, no record over the read limit, refinement of `PacketLink`; every write returns, and what was written is read |
| `tunnel` | pass | readers race with the writer, the keepalive ticker or Close: one onEmpty, order and map agree, no channel without a reader, refinement of `TunnelLife`; a write gives up only if none of the channels it began with is left or the tunnel lost as many channels as it has tries; losing the last channel is final, removed readers and the consumer end |
| `tunnel_tries` | violation of `GivesUpOnlyWhenAllBroken` | with more channels than tries a write gives up, and dispatch closes the tunnel, with a healthy channel that was never tried |
| `sessions` | pass | one owner per address, session map exact, routes lead to running handlers, life cycle of every tunnel; unused sessions give their address back, handlers end and leave the routing table |
| `sessions_route` | violation of `LiveIsRouted` | a handler that registers after its tunnel has died overwrites, then deletes, the route of the address's next owner |
| `client_net` | pass | a route into the tunnel without the host route to the server only if its delete failed, and only until the device closes; on every path Run leaves nothing but what a failed delete or a kill left; the user's resolv.conf is in place or in the backup, but for a failed restoring write and a start on a rewritten file that no stale host route stops; in the modes socks and manual a restart succeeds after any crash |
| `client_restart` | violation of `FullRestarts` | in full mode a killed client leaves its host route behind, `ip route add` refuses it at every further start, and systemd restarts the client in vain until a reboot |
| `socks` | pass | one reply and only after dialling; no relay without resets loses data or an end of stream; the handshake ends; ends are passed on; a relay both of whose sides ended closes everything |
| `bond` | pass | the channels a client adds lead to its address and session, unless the server had given channel 0's session up before; keys of both ends match and are distinct; Dial returns; sessions of a client that is gone are released unless they are forsaken |
| `host` | pass | the rules on the host are those of the process and of dead ones; an uninstall that ran to its end leaves only the parts whose own step failed, and the instances that are astray; a wanted, well configured server comes up |

Type invariants are left to the proofs (section 4) where there are some; the
runs of `Tunnel` and `Bond` check theirs as well.

`sessions_route` needs the address to be handed out while a former handler has
yet to register or unregister, so it also refutes the comment in
`Server.register` that no prior tunnel is ever registered under the address.

`tunnel_tries` is about the reason server.go gives for closing a tunnel after a
failed WritePacket, "All channels broken". The code has 4 tries and up to 16
channels: after four failed writes the tunnel is closed whatever the others are
worth. What is true of any number of channels is `GivesUpAfterTries`, which the
run `tunnel` checks and `TriesAreSpent` proves; `GivesUpLast` proves that the
comment is right for at most as many channels as tries.

A channel attached between an unlock and
`markDead` sits in a dead tunnel, against the comment "A Tunnel is alive while
it has >= 1 channel"; `TunnelLife` allows for it and `AttachedIsRead` and
`LifeSpec` show that nothing worse follows.

`OneLink` has an exception for the same reason as the code has the behaviour:
if the server loses channel 0 while the client still holds it, a later channel
with the same session id creates a second session, and the client adds the
channel without comparing its assignment with the first. Packets on that channel
then carry an address the second session does not own.

Limits of `host`: rules left by a process that died, or that was stopped during
New or Close, stay until a reboot, one copy more each time; ip_forward is never
reverted; a rejected `client up -force` removes the configuration of an instance
that may be running, and uninstall, which finds instances by their
configuration, leaves it running and enabled. The same goes for an instance whose
stop failed in an uninstall that then removed its configuration: no further
uninstall finds it. A server whose disable failed does not come back with a
reboot as long as its unit was removed; that it takes both failures is proved,
and needs one failure more than the run allows to occur. `ComesUp` is about krotctl's
`server run`: the standalone krot-server exits with status 0 when Run fails,
which is the mutant `RunFailsQuietly`.

Four limits of what `client_net` claims follow from the code. A delete that fails
in Teardown leaves the host route or the rule until a reboot, against the comment
of Run that all changes are reverted; a half route that is left while the host
route goes makes the tunnel's packets loop until the device is closed. Teardown removes
the backup even if writing resolv.conf back has failed, so `OriginalSurvives`
excludes that failure. A resolv.conf that did not exist before, and the
rp_filter settings, are not reverted. And the backup is safe from being
overwritten with krot's own file because the stale host route stops the next
start before it comes to setDNS: after a reboot, or with `ip route replace` in
place of `add` (the mutant `PinReplacing`), nothing stops it.

**Bounds.** *ReplayFilter*: authWindow 1 and TTL 2 (the code's ratio; 120 and
240), two tokens, one forged request, two handlers, client clocks off by up to
1 s, calls that last up to `MaxStall` seconds, and a clock that runs for the
whole span of a token and beyond. A second acceptance and a sweep by another
handler both occur. *Conn*: two writers, a packet, an oversized one and
padding, a counter of four values so that exhaustion is reached, and a padding
policy scaled down so that the burst ends within it. *Tunnel*: two
channels, `Capacity` 1 so that the queue is full at once, `MaxTries` 2, and one
of the three callers at a time next to the two readers: the liveness properties
do not fit in the time with more, and that the safety properties hold when
callers race with each other too is proved. `tunnel_tries` has three channels and
two tries for the code's 16 and 4. Each channel index is dialled once, as a client does. *ServerSessions*: two
session ids, one with two channels, and a single address to give, so the pool
runs empty and the address changes owner; session objects are used in order.
Session objects are not reused,
which bounds the number of sessions in a behaviour. *ClientNet*: two addresses,
so that a restart may get another one than its predecessor, all modes, with and
without a resolver and a resolv.conf; kills and restarts are unbounded.
*Bond*: one client with two channels, two session objects and two addresses:
enough for a second session next to a lost first one. *Socks*: two chunks in
each direction. *Krotctl*: one client instance (commands touch one at a time),
two failures and two deaths that leave rules, so that a process sets up, rolls
back and tears down next to leftovers.

**Deadlock** is not checked except in `conn` and `host`: tokens, channels and sessions are
finite in the instances, and everything ends when they are used up; a calm
client that runs has no step left to take.

**Fairness.** Weak fairness of every goroutine's own steps: a runnable goroutine
runs, a mutex section ends, a write ends by its 15 s deadline, an operation on a
closed socket returns, the 20 s ticker ticks. Strong fairness of `Lock` (a
`sync.Mutex` hands over to a waiter that has starved for 1 ms), of `Deliver`
(senders blocked on a Go channel are queued first in first out) and of `Abandon`
(select picks at random among ready branches). `UpgradeFails`/`Upgraded` are
weakly fair together, because reading the request's headers and writing to the
socket end one way or the other. `Work` in `ClientNet` is weakly fair: commands
end, and the unit that krotctl writes has `Restart=always`. In `Bond` an end
whose peer has closed or given up a connection notices (its read fails, at the
latest by the 60 s deadline), and time-outs pass; of the server this is assumed
only while handleConn drains the tunnel, since a readLoop at a full queue does
not read; in `Socks` the deadline and
the dial time-out pass and each direction's goroutine runs; in `Krotctl` the
process runs, systemd starts it when it is wanted and finishes a restart. Nothing is assumed of peers: no channel has to
break, no packet has to come, no request has to be made.

## 4. Theorems

All are proved for every value of the constants under the named assumptions
of the modules (`ConstantsAssumption`, `ConnAssumption`, `PolicyFits`, `SessionsAssumption`,
`SessionsNumbered`, `TunnelAssumption`, `BondAssumption`, `ClientNetAssumption`,
`SocksAssumption`, `DaemonAssumption`).

* **ReplayFilterProofs.** `TypeCorrect`; `NeverFalsePositive`;
  `ReplayOnlyAtEdge`; `WideEnoughNeverReplays` (no token is accepted twice if
  TTL > 2 * AuthWindow + MaxStall; the code's constants do not satisfy this, so
  no run checks it); `FilterMemoryBounded` (if MaxStall < TTL).
  The inductive invariant relates a token's last acceptance to its entry: the
  entry is `mark + TTL` as long as it is there, and it is gone only if the
  sweep that removed it had a reading of at least that; and it orders each
  handler's readings: `ts - AuthWindow <= born <= clk <= now <= born + MaxStall`.
  AcceptedOnce alone is not inductive, because a sweep changes what a later
  lookup finds.
* **ConnProofs.** `TypeCorrect` (with the lock discipline), `NeverDesync`,
  `OpeningIsMasked`, `NonceNeverReused`, `ConnImplementsLink`. The invariant says that the records
  on the wire carry consecutive nonces from the receiver's counter on, and that
  the transmit counter is what follows the last of them as long as the sender
  works and no sealed record is in hand; `OpeningIsMasked` needs that the padding
  of the record in hand and of those on the wire was drawn for its nonce; the refinement maps accepted writes to
  `Send` and failed ones to `BreakTx`.
* **ServerSessionsProofs.** `TypeCorrect` (the gateway's, the network's and the
  broadcast address are never handed out), `AddressesExclusive`,
  `SessionMapExact`, `RoutesHaveHandlers`. The tables are consistent only
  relative to where each session is in its life; the invariant adds what is
  known of session objects not in use and of requests under way (`Fresh`).
  `SessionsImplementLife` maps each session to a `TunnelLife` of its own: a step
  of one session is a step of its life cycle and a stutter of all others.
  `UnusedAlwaysPursued` is the safety half of `UnusedIsReleased`: an address
  held without use always has something left to run that will give it back. It
  needs that an open tunnel without a channel has never had one, and that its
  handleConn, with the ticker, has not returned (`OpenIsHandled`).
* **TunnelProofs.** `TypeCorrect`, `OrderListsChannels`, `OnEmptyRunsOnce`,
  `AttachedAreRead`, `TunnelImplementsLife`, `TriesAreSpent`, `GivesUpLast`
  (for at most MaxTries channels), `LossAlwaysPursued`; for any number of
  channels, any length of the queue and any sets of callers. None of the properties is
  inductive, because what a step may do depends on where the other goroutines
  are. The invariant says which points a goroutine can be at (`Stations`),
  which sockets are open (`Sockets`), that a channel in the hands of a goroutine
  past its unlock is out of the map (`Hands`), that the keepalive's copy of
  `order` names only channels that were attached (`Beats`), and that deadOnce
  has at most one runner, which closes `dead` before it calls onEmpty (`Once`).
  `Listed` is OrderMatches without cardinalities; a lemma connects the two.
  For the tries it adds that every attempt that failed stands for another
  channel gone from the map (`Tried`): counting alone would not do, since other
  goroutines remove and add channels between two tries. `LossAlwaysPursued` is
  the safety half of `LossIsFinal`: as long as onEmpty has not run on an emptied
  tunnel, some goroutine that deadOnce does not hold up is on its way to it.
  In the refinement a tunnel is doomed when a goroutine stands between its
  unlock and markDead (`dropLast`, `markDead`) and deadOnce has not begun; the
  stages closed, dead and released follow from `closed`, `dead` and `emptied`.
  What removeChannel's loop leaves of `order` is an induction over the slice; it
  is done with the least number for which the claim fails, which exists because
  < is well-founded on Nat (`LeastNumber`).
* **BondProofs.** `BondTypeCorrect`, `ChannelsAreOneLink`, `EndsShareKeys`,
  `TablesConsistentUnderBond`; for any number of clients, channels, sessions and
  addresses. The server's half of the invariant is that of
  `ServerSessionsProofs`, which the steps of `Bond` preserve because each of
  them is a step of the server, one that leaves it alone, or a refusal. On top
  of it: a request is given a session of its own id, once (`Owned`); a response
  names that session's address and ephemeral key (`Answers`); nothing but
  channel 0 is requested before channel 0's response has come (`FirstIsFirst`);
  and a later channel is in channel 0's session unless that one has left the map
  (`Grouped`). OneLink alone speaks of channels already added, and says nothing
  of the request under way whose answer will be added next.
* **ClientNetProofs.** `TypeCorrect`, `NeverLoops`, `AlwaysReverted`,
  `OriginalRecoverable`. The properties speak of the moments after Run has
  returned or while routes are up; the invariant says for every label what is in
  place by then: `Routing`, `Ruling`, `Saving` (the flag dnsBak) and `Naming`
  (where the user's resolv.conf is). `Routing` has the host route in place at the
  labels of `Holding`, and past them accounts for every half route by `missed`;
  `Ruling` does so for the rules by `stray`. The proof has one step per action for
  each.
* **SocksProofs.** `TypeCorrect`, `RepliesOnce`, `CutsNothing`, for streams of any
  length. The invariant adds what handle() has said by where it stands (`Said`:
  the deadline is off whenever the relay runs, which is why it cannot cut it),
  that the two directions start together, and that a direction which is over has
  passed its whole stream unless a side was reset (`Finished`).
* **KrotctlProofs.** `TypeCorrect`, `RulesExact`, `AlwaysForwards`,
  `UninstallCleans`, for any set of instances and any number of failures.
  `Staged` says what the process has in place at each stage; `Known` that every
  running or enabled instance has a configuration or is astray, and how far
  uninstall has got with them; `Stopped`, `Disabled` and `Removed` that what is
  left of a part was left by its own failed step; `Stopping` and `Gone` say from
  which step of uninstall on, and that nothing else starts again behind it.
  UninstalledIsClean alone is not inductive: it says nothing until the command's
  last step.

Proved only, no run repeats them: `OpeningIsMasked` (the padding of the opening
records), `AlwaysForwards` (a server that accepts clients has its device and
every rule), `WideEnoughNeverReplays`, `GivesUpLast`, and the two safety
halves `LossAlwaysPursued` and `UnusedAlwaysPursued`.

Only model-checked: what needs fairness, which is out of the prover's reach
(`WriterReturns`, `SentIsRead`, `LossIsFinal`, `RemovedReaderEnds`,
`ConsumerEnds`, `UnusedIsReleased`, `HandlerEnds`, `ChainedRestarts`,
`HandshakeBounded`, `EndIsPassedOn`, `RelayEnds`, `DialReturns`,
`GoneIsReleased`, `ComesUp`), and the violations of the four runs that expect
one. Every safety invariant and every refinement that a passing run checks is
also a theorem.

## 5. Not modelled

* TLS, uTLS, X25519, HKDF, HMAC, ChaCha20-Poly1305, WebSocket framing: library
  code, assumed to do what it says.
* Cookie and header encoding, decoding and defaults of configuration files, the
  decoy's proxying, krotctl's dialogue and status output, the diagnostic tools:
  input handling and reports without interleaving.
* The order of packets of one flow across channels. flowHash pins a flow to a
  channel as long as the set of channels stays the same; when it changes, flows
  move, and nothing on the receiving side restores their order.
* Durations: the models know that deadlines pass, not how long they are, except
  in the replay filter. How keepalives over several stuck sockets add up against
  the peer's read deadline is out.
* tunDevName and tableFor: a hash modulo 256 can give two instances one routing
  table, or one of the kernel's, which is arithmetic rather than behaviour.

## 6. Plan

Done: all modules above, with proofs of every safety invariant and refinement.
Next, in order:

1. The safety halves of further liveness properties, as for `LossIsFinal` and
   `UnusedIsReleased`: that whoever waits in `Socks`, `Bond` and `Krotctl` waits
   for something that is still on its way.
2. An abstract allocator of addresses that `ServerSessions` implements, so that
   AddressExclusive follows from a refinement as well.
