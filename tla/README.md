# A TLA+ model of SIPBench

SIPBench (`src/`) is a SIP load generator in Go: a UAC that makes calls, a UAS
that answers them (plain calls and SIPREC recording sessions), RTP sent through
AF_XDP sockets, and an XDP program that counts and drops the RTP received. This
directory models its concurrent core, checks it with TLC and proves parts of it
with TLAPS. `PROJECT.json` lists components, runs, mutants, findings, hazards,
theorems and, under `map`, the source lines of every definition.

## The system

| Component | Source | State | Operations |
|---|---|---|---|
| Port allocator | `ua.go` | `ports` (sync.Map), `nextPort` (plain uint16), `portsUsed` (atomic) | `getPort`, `freePort` |
| UAS dialogs | `uas.go`, `dialog.go` | `dialogs`, the gauge, and per dialog its ports, session, `done`, media | `onInvite`, `onInviteSIPREC`, `onAck`, `onBye`, `Close` |
| UAC dialogs | `dialog.go`, `uac.go` | the same, with a context per call | `MakeCall`, `onResponse`, `onBye`, `Close` |
| Rules map | `ebpf/ebpf.go` | the keys of the eBPF map | `Update`, `LookupAndDelete` |
| XDP program | `ebpf/src/xdp_sipbench.c` | packet and byte counters by key | one run per packet |
| Call maker, shutdown | `uac.go`, `sipbench.go` | channel `calls`, context, limiter | `startCallMaker`, `waitShutdown`, `Uac.Close` |
| XDP socket | `pkg/xdp/xdp.go` | umem, rings, `txChan`, `manualTriggerTX` | `NewSocket`, `SendMsg`, `txWorker`, `txTransmit`; a receive side nobody calls |
| Media | `media.go` | `playing`, `done`, the mutex, one packet buffer | `newMedia`, `playback`, `stop`, `Close` |
| Time ranges | `pkg/time_range.go`, `pkg/distributor` | the layout of a weighted round robin and its counter | constructor, `Next` |
| Codecs | `pkg/pcm` | none | A-law and mu-law |
| Routing, ARP | `routing`, `arp`, `sipbench.go` | `r` and `table`, reloaded by a ticker | `MustInit`, `Route`, `Get`, `Reload` |
| Start-up | `ua.go`, `pkg/xdp/xdp.go`, `rtp` | the sockets and the two round robins | `newBaseUa`, `initXDP`, `LoadPCM` |
| Loaders, SDP, CLI | `rtp/pcap.go`, `media.go`, `sdp.go`, the commands | none | parsing and file I/O |

How they interact. A goroutine per call (UAC) or per INVITE (UAS) takes a port
from the shared allocator, adds its rules to the kernel's map, builds a media
object bound to one of the XDP sockets, and sleeps in two selects (ringing,
talking) that a BYE or CANCEL, handled by another goroutine through the
`dialogs` map, may cut short. Its deferred `Close` frees the ports, reads and
deletes the rules, stops the media, and takes the dialog out of the map and the
gauge. Playbacks run in goroutines of their own and share the sockets'
channels; each socket has a worker, which fills the tx ring, and a transmitter,
which kicks the kernel. `newMedia` reads the routing and ARP tables, which a
goroutine of its own rereads from the kernel at every tick. The UAC's main goroutine waits for the context that the
call maker cancels, or for a signal, and then polls the gauge.

What is hard: the unlocked cursor of the allocator; the gap between freeing a
port and deleting its rule; the many early returns of the handlers, with timers
racing hangups; two INVITEs with one Call-ID; the cancellation of contexts from
callbacks; the end of the program while the last goroutine starts; a ring shared
with the kernel, whose completions are drained only on EAGAIN; superseded
playbacks; tables read piece by piece while the kernel changes them; counters of
map elements that are reused under a running XDP program; thirteen ways for a
socket to fail half made; arithmetic at the ends of uint16, uint32 and int16. `hazards` in
`PROJECT.json` lists each of these at its line.

## What makes each component correct

- Allocator: no port has two owners, none is lost, the count is exact, the
  reserve is kept but for what goroutines that pass its check together take, RTP
  and RTCP ports never meet, ports are in range, and a scan ends.
- Dialogs: every handler returns; an acknowledged BYE ends its call; no call is
  left up at the peer without an attempt to end it; nothing (ports, rules, map
  entries, contexts, the gauge) outlives its dialog.
- Call maker: no more calls than asked, at once or in total, and no fewer; slots
  are conserved; a cancelled context stops the maker; the program ends by itself.
- Transmit side: the kernel gets every descriptor once and in order, with the
  contents it was sent with, in the end, unless sending fails.
- Media: no channel is closed twice, playbacks do not mix, a stopped one sends
  at most one packet more, every goroutine ends.
- Routing and ARP: a reader never finds half a table, and the tables come to be
  the kernel's once it stops changing.
- XDP program: what a dialog reports is what was dropped for it, up to the packets
  in hand, and nothing is reported twice.
- Start-up: whatever fails leaves no socket open. Time ranges: each range as often
  as its weight. Sockets: evenly loaded. Codecs: only quantisation is lost, and
  order is kept.

## Modules

| Module | Models |
|---|---|
| `PortPool` | abstract: a pool of ports and the dialogs that acquire and release them |
| `RtpPorts`, `RtpPortsProofs` | the allocator with every access to `nextPort` a step; implements `PortPool` |
| `DialogPorts`, `DialogPortsProofs` | a dialog's ports and rules from `getPort` to the end of `Close`, on top of `PortPool`; the lemmas on them that both kinds of dialog use |
| `UasDialogs`, `UasDialogsProofs` | a dialog of the UAS; extends `DialogPorts` |
| `UacDialogs`, `UacDialogsProofs` | a dialog of the UAC; extends `DialogPorts` |
| `UacCalls`, `UacCallsProofs` | call maker, call goroutines, main |
| `TxQueue` | abstract: a FIFO of descriptors between senders and the kernel |
| `XdpTx`, `XdpTxProofs` | senders, channel, worker, transmitter, rings, kernel; implements `TxQueue` |
| `Routing` | the kernel's tables, their copies, and the goroutine that refreshes them |
| `Media`, `MediaProofs` | `newMedia` and the playback goroutines of one dialog; extends `Routing` |
| `XdpProgram` | the XDP program and the counters of its map |
| `XdpRules` | the program beside dialogs; extends `XdpProgram` and `DialogPorts` |
| `Distributor` | operators and actions of the weighted round robin of time ranges |
| `PcmCodec` | operators of the codecs |
| `Startup`, `CountingProofs` | `newBaseUa` and the round robins it leaves; extends `Distributor`. The proofs are of all that is counted or shared out, `XdpProgram` and `XdpRules` included |
| `StartupMedia` | `Startup` and `PcmCodec` together: the samples of the media file it loads |

Each `MC...` module adds what TLC needs: symmetry sets and named constants.

Composition. `RtpPorts` is checked, and for the UAS proved, to implement
`PortPool`, as `XdpTx` is to implement `TxQueue`; `DialogPorts` extends `PortPool`, so the dialogs are modelled over
the promise: of the seven steps of `getPort` they keep the check of the reserve
(`BeginScan`) and the claim of a port (`TakePort`), with any number of scans between
the two. What a scan may not promise, that it ends beside others, is not promised by
`TakePort` either: it is fair only for a dialog that scans alone, which is
`LoneScanReturns`. `CallReturns` of `UacDialogs` is the assumption of `UacCalls` that
a call returns, as far as it goes. `SendPacket`
of `Media` is a `SendMsg` of `XdpTx`. `Media` runs in one behaviour with the
refresh of `Routing`, and `XdpRules` with the very steps of `Close` that
`DialogPorts` has. The failures of `NewMedia` in the dialogs are
`RouteNotFound`, `MacNotFound` and the bad MAC of `Serialize`.

State and actions. Variables have the names of the fields they stand for. `pc`,
`maker`, `worker` and so on say where a goroutine is; an action is the code
between two points where another goroutine can be seen, so a run of code that
touches only the goroutine's own state is in one action with the shared access
before or after it. An early return is an action of its own that ends at
`begin`, the first label of `Close`.

### RtpPorts

One action per access: `LoadNext` (ua.go:139), `Claim` (the atomic
`LoadOrStore`, 140), `ReadNext` and `WriteNext` (the two halves of `+=`, 141),
`TestNext` (142), `ResetNext` (143), `CountPort` (148). The data race makes the
value compared in line 142 either the one just written or a fresh load, so
`TestNext` allows both. `Role` tells the UAC, whose `Close` skips port 0, from the
UAS. `Reserve`, 10 ports in the code, and `Word`, 2^16, are constants.
The dialog's work between two calls of `getPort` is abstracted to `Close`, which
may happen whenever the dialog is idle. The map must hold exactly the ports of the
dialogs that have not ended (`Conserved`), so a port that a dialog takes with it counts
as lost; that is what port 0 is in a UAC, and the property says so.

### DialogPorts, UasDialogs, UacDialogs

`DialogPorts` keeps `lap` (`localAudioPorts`), the kernel's `rules`, and the two
halves of `LookupAndDelete`: a lookup per port, then a batch delete that stops
at the first key that is gone. The map may refuse any operation of the dialogs in
`MayRefuse`: `UpdateStops` is a refused `BatchUpdate` after any number of its keys,
`LookupFails` a lookup whose error is not a missing key, and `BatchDeleteFails` a
refused deletion. `refused` notes the last two, which leave rules behind.

`UasDialogs` has the labels of `onInvite`, with `onInviteSIPREC` for an `invite`
whose offer is "siprec" (several ports, no media, RTP rules only). sipgo's session is
external and is one variable: a session is "early" until an ACK, "ended" once a BYE,
CANCEL or own BYE was seen, and "lost" when the peer is gone. A `Respond`,
`RespondSDP` or `Bye` may fail in every state of the session, and the handler then
returns as the code does. `done` is closed by `EndSession` only if `OnState` had
registered the callback. The entry of `dialogs` is keyed by Call-ID, which two INVITEs
may share (`Invites`).

`UacDialogs` has `MakeCall` and, as steps of the same goroutine, the responses
that `WaitAnswer` passes to `onResponse`. `ctx` records whether the context of
the call was cancelled by `onResponse` or by the return. `Ack` and `Bye` may fail
at any time; `failed` notes for whom they did.

### UacCalls

`i`, `calls` and the gauge `current` are the code's; a call goes from "spawned"
(the `go` statement) to "running" (`NewDialogUac` has counted it), "returned"
(its slot released) and "closed". The limiter is external: `Wait` may return at
once, at its timer, or fail when the context is cancelled. When main exits all
else stops.

### XdpTx

A message is a number, so `wire[n].data` says what the frame held when the
kernel took descriptor n and `wire[n].msg` what it should have held. The kernel
is two external actions and the results of `sendto`: 0 or EBUSY (`Sent`), EAGAIN or
EINTR (`Again`), and every other error (`Panic`), which ends the program. The
variable `fullIsAgain`, chosen at the start, tells kernels that return EAGAIN at a full
completion ring from those that return 0.

### Routing and Media

`Routing` has one action per read of the kernel: the neighbours, the routes, and
after them the interfaces, with a change of the kernel's tables possible in
between and an error possible at each; `Publish` is the assignment to `r`. A
router remembers whether the kernel changed between its two reads (`torn`), which
nothing but a property looks at. `Chosen` is `route`: the first match in order of
priority, else the last default; routes of one priority come in any order, since
`sort.Sort` is not stable.

`Media` adds `newMedia` in two steps, the load of `r` and the lookup of the MAC,
as a reload may come between them. It numbers the playbacks; channel `done` of
playback p is p. A playback needs a media that was built.

### XdpProgram, XdpRules

A rule is an element of a preallocated hash map, external as the kernel's maps
are: an update puts a fresh element in the place of the old one, a deletion gives
the element back at once, and the program goes on adding to the pointer it has.
`Match`, `AddPkts` and `AddBytes` are the program's three accesses. `hits` and
`writer` say what an exact count would be.

### Startup, Distributor, PcmCodec, StartupMedia

`Startup` is a sequence of phases, each of which may fail: `calc` once per place
of the layout, one packet of the media file at a time, the program's attachment,
and for each queue the thirteen steps of `NewSocket` with what each holds
(`Gets`). In the phase "serving" the handlers draw timeouts and medias draw
sockets, with counters modulo `Word`; `load` and `medias` count what `SocketsEven`
speaks of and no part of the program reads. `PcmCodec` gives the four tables by the
formula of their entries, with the one entry that departs from it. Its operators use
`Bitwise`, which the prover does not have, so `StartupMedia` joins the two modules and
`Startup` does without it.

## Runs

Passing runs:

| Run | Instance | Shows |
|---|---|---|
| `RtpPorts` | 2 UAS dialogs, up to 3 ports each, range 2..7, Word 16 | ownership, release at the end, RTCP, counting, the reserve, refinement of `PortPool`, a lone scan returns |
| `UasDialogs` | a plain and a SIPREC INVITE with up to 2 streams, with own Call-IDs or one, 1 port, any operation may fail | gauge, map and ports agree with the handlers (`Consistent`), rules have owners, nothing is left behind, a BYE ends its call, every handler returns |
| `UacDialogs` | 2 calls, 2 ports, the map may refuse the operations of one | `Consistent`, an answered call is ended at the peer unless ACK or BYE fails, nothing is left behind, every call returns |
| `UacCalls` | 4 calls, 2 at once, rate 1 | bounds on calls, the maker stops, the program ends |
| `XdpTx` | 2 senders, rings of 2, channel of 1, Word 4, 4 messages | order, no overfill, every message is transmitted but for a panic or the stall of a kernel that answers 0 |
| `Media` | 2 playbacks of 2 packets, 4 states of the kernel's tables, 1 change | no double close, no mixed media, every goroutine ends; a nil interface only after a torn read or from a route without one; the tables catch up |
| `Startup` | 2 or 3 ranges of weight 1..4; all 65,536 samples; 0 to 4 queues for 3 tries; Word 32, 70 draws | shares, both codecs, even sockets, nothing left open by a failure |
| `XdpRules` | 2 dialogs, 2 ports, 3 elements, 2 CPUs, 5 packets | reports within a packet per CPU, and none counted twice |

Runs that end in a violation, each a disagreement of the code with a sentence of
the repository (`findings` quotes it):

| Run | What happens |
|---|---|
| `RtpPortsRace` | the race on `nextPort` hands out a port at or past `RtpPortMax` |
| `UasReuse` | `Close` deletes the rule of the dialog that took its port over |
| `UacCallsCut` | the program ends by itself before its last calls are made |
| `XdpTxReuse` | a frame still queued is overwritten by another packet |

Deviations that the properties state around, met while modelling:

- With `RtpPortMax` 65535 the cursor steps from 65534 to 0 and port 0 is handed
  out; the UAC takes it for no port and never frees it (`dialog.go:466`).
  `TypeOK` and the proofs allow a cursor of 0, and `Conserved` the loss of port 0 in a
  UAC, and of no other port.
- Goroutines that pass the check of the reserve together overdraw it (`ua.go:134`).
  `ReserveKept` says by how much at most.
- Two goroutines that scan for a port in step may miss every free one for ever
  (`ua.go:138`). `HandlerReturns` and `CallReturns` exempt a dialog that again and
  again scans together with another.
- A SIPREC dialog whose `BatchDelete` stops at a key that another dialog deleted
  leaves the rules after it (`ebpf.go:104`), and so does one whose lookup or deletion
  the map refuses (`ebpf.go:98`). `RulesOwned` exempts these dialogs (`Stays`).
- A handler of the UAS returns without a final response if a `Respond` fails
  (`dialog.go:92-99`, `148-150`, `194-201`, `231-233`) or the map refuses an update
  (`dialog.go:175`). Nothing promises one, and no property is about it.
- A UAC whose `Ack` or `Bye` returns an error leaves the call up at the peer
  (`dialog.go:366-368`, `389-391`). `AnsweredCallEnds` says that no other path does.
- The UAC's main may exit before the goroutines of the last calls have counted
  their dialogs, so not all of `--total-calls` (`src/README.md:33`, `69`) are made:
  the run `UacCallsCut`. `FewCallsCut` bounds the loss by `max-calls`.
- `doTransmit` panics at any error of `sendto` but EINTR, EAGAIN and EBUSY
  (`xdp.go:367`), and in a kernel that answers 0 to a full completion ring nothing
  drains that ring. `Transmitted` names both, and says that nothing else keeps a
  message from being sent.
- `New` reads routes and interfaces one after the other. A router of two moments may
  have a route whose interface is missing, and `newMedia` then dereferences nil; so
  does a route without an output interface (`routing.go:92`, `media.go:112`).
  `PanicsOnlyTorn` exempts both and says that nothing else does.
- If queue 0 cannot be bound, `initXDP` succeeds with no socket and the first media
  divides by zero (`distributor.go:20`); the phase "panicked" of `Startup`.
- `xsk.Close` leaves the rings mapped (`xdp.go:486-534`); `FailedReleased` is about
  the socket and the umem.
- The RTCP rules are never deleted (`dialog.go:268`, a FIXME); `RulesOwned` is about
  RTP.
- Past the overflow of its counter a round robin whose length does not divide 2^32
  starts its walk elsewhere; `SharesExact` and `SocketsEven` say by how much.
- Sample -32768 is encoded as near silence, as its negation overflows. The codec
  properties leave it out.

Bounds and why they are enough. Two dialogs are the parties of every race on a
port or a Call-ID; a port past the range wants three goroutines in the loop, and
`RtpPortsRace` has them. Word 16 with a range of three port pairs lets a dialog
scan around several times, and `Reserve` makes refusals and successes both
happen; a dialog that asks for a third port while the other is in the scan is what
overdraws the reserve. In `UasDialogs` one port is enough for two dialogs to take it
over from each other, and for both to scan; dialogs with several ports are the
theorem `RulesHaveOwners`'s, and two of them scanning the matter of `RtpPorts`. The
role "uac" of `RtpPorts`, other ranges (those that end at the top of the word included)
and more dialogs are covered by the theorems, which fix none of these. Rings of 2 with
counters modulo 4 overflow within a run, and four messages go around the rings twice.
Four calls with two slots make the maker block. Two
playbacks are exact: a call plays early media and answer media. One change of the
kernel's tables is enough to tear a read, to lose a route between `Route` and the
MAC's lookup, and to leave a stale table behind; a second tear needs a second
reload, which is the same step again. The four tables have a match before a
default, two defaults, a route without an interface, an interface without a MAC,
and no route. Three elements are one more than the rules, so that an element can
be reused both at once and late; with two CPUs an addition can be lost to
another, and five packets let each dialog be hit before and after a reuse.
Weights up to 4 give layouts of 2 to 12 places, and 70 draws walk the longest one
five times and pass Word 32 twice; three sockets do not divide 32, and one and two
do. The media file has 410 packets, which hold every sample, and a rest that is
dropped. The named bounds `MaxSends`, `Bound`, `Plays`, `Changes`, `MaxPkts`,
`MaxQueues`, `MaxCalls` of `Startup` and `MaxAudio` only end a behaviour early.
Symmetry is used in `XdpRules` (ports, elements, CPUs), `RtpPortsRace` (dialogs) and
`XdpTxReuse` (senders) alone, which have no liveness property.

`Startup` and `XdpRules` switch the deadlock check off: the program of `Startup`
ends when a step of `newBaseUa` fails, and both stop at the bound of their input.
All the others are checked for deadlock; an action that stutters stands for the
finished program where there is one.

Fairness. Weak fairness of a goroutine's steps is the Go scheduler's, plus
timers that fire (`RingingTimeout`, `AnswerTimeout`, `TokenDue`, the 80 seconds
of `Uac.Close`) and sipgo calls that return because of its transaction timers;
peers, signals and senders are never made to act. The scan of `getPort` is fair for a
dialog that scans alone, and only then. `UacCalls` takes it that a call returns, which
`CallReturns` shows but for calls that scan together for ever. In `XdpTx` strong
fairness of `Triggered` is the fair choice of `select` between two ready channels;
strong fairness of the kernel's take, of 0 with an empty ring, and of EAGAIN at a full
completion ring where `fullIsAgain` holds, is what the kernel does under calls of
`sendto`. No error is assumed away: a panic, or a kernel that answers 0 to a full ring,
is in the run and named by `Transmitted`. In `RtpPorts` each goroutine is scheduled; even so two goroutines in
step can skip each other's ports, hence `LoneScanReturns` and no more. In
`Routing` the ticker of `startRefreshTimer` goes on, and strong fairness of the
three reads says that no read of the kernel's tables fails for ever; `newMedia`
and the kernel's changes have none.

## Proofs

TLAPS proves the theorems below for every value of the constants that the modules'
ASSUMEs allow: finitely many dialogs, a `None` that is not one
of them (the zero of Go's map), a word of even size and a port range inside it, a
word that a ring's size divides (both are powers of two), positive weights, and finitely
many CPUs and elements of the rules map. In each proof module `IInv`
is the inductive invariant (`RulesInv` where `CountingProofs` is about the counters of
the rules); it is preserved action by action, and the theorems follow from it.

- `RtpPortsProofs`: `TypeCorrect`, `PortsExclusive`, `PortsConserved`,
  `PortsCounted`, `ReserveAlwaysKept`, `RtcpPortsDisjoint`, and `UasImplementsPool`.
  The properties
  are not inductive: that a port has one owner depends on the map, which must
  hold exactly the owned ports; a port a goroutine is about to count must be its
  own and not already noted, and freed ports must be disjoint from held ones for
  the counter to be exact; parity must hold of the cursor, of every register and
  of every local `port` for the map to have it; and an ended dialog holds no port but
  0. `ReserveKept` holds because a goroutine enters the scan with `portsUsed` at most
  `portsMax - Reserve`, and what is taken or about to be is then more than that only by
  a pair for each goroutine in the scan. `IInv` joins these; its
  preservation is proved action by action, and the temporal theorems follow.
  The refinement uses `IInv` to show that `Claim` of a free port is `Acquire`,
  `DeletePort` is `Release`, `Close` and `UncountPorts` begin and end a release,
  and every other step stutters. It needs the UAS: a UAC dialog with port 0
  closes without releasing it.
- `DialogPortsProofs`: no theorem, but the lemmas that `UasDialogsProofs` and
  `UacDialogsProofs` share: each action of `DialogPorts` keeps `PortsInv`, the types
  and what a dialog owns at each label of `Close`, and `RulesKept`. `RulesOwned` is not
  inductive. It says that some dialog with the rule's port is not yet closed; what a
  step needs is that this dialog will still delete the rule, because it has not yet
  looked it up, or has noted its key and not yet deleted (`Keeps`). Two dialogs that
  both noted a key delete it in turn; the second finds none, and no rule is left.
- `UasDialogsProofs`: `TableExact` (`Consistent`, types included), `RulesHaveOwners`,
  `CleanAtTheEnd`, `ByesEnd`. `HandlerInv` says what a handler has taken and registered
  at each of its labels, `Listed` what the map and the gauge hold. All are proved
  whatever Call-IDs the INVITEs share and for any number of ports to a dialog. Two
  INVITEs with one Call-ID have one entry in the map, and a BYE for the first is then
  given to the second: `ByeEndsCall` exempts a dialog with such another.
- `UacDialogsProofs`: `TableExact`, `AnsweredCallsEnd`, `ByesEnd`, `CleanAtTheEnd`,
  `RulesHaveOwners`. `CallInv` relates the session, the context and the port of a call
  to its label: a call that reaches `Close` without a failed `Ack` or `Bye` was refused,
  lost or ended, since its session is not "invited" from the ACK on and `Hangup` needs
  `done`. A call has one port, so of the exemptions
  of `RulesOwned` only that of a refused operation is used.
- `UacCallsProofs`: `TypeCorrect`, `SlotsAlwaysConserved`, `NeverTooManyActive`,
  `NeverTooManyCalls`, `CancelStopsMaker`, `EndCutsFew`. The strengthening relates the
  loop counter to the calls that exist (only calls up to `i` were started, and
  the one the maker works on was not) and the gauge and the slots to the sets
  of calls at each step; `CallJoins` and `CallLeaves` say how a step of a call
  moves those sets' sizes, and `NeverTooManyCalls` follows with `i`
  bounded by `total-calls`. `EndCutsFew` needs a second invariant, `EndInv`: a main
  that was woken by the context was woken by the maker's own cancellation, after which
  no call is left to make (`AllMade`); what the gauge misses is then a spawned call,
  and each of those has a slot.
- `XdpTxProofs`: `TypeCorrect`, which says that neither ring is overfilled, and
  `TxImplementsQueue`. `Carried` says that whoever holds a descriptor got it from
  `GetTxDesc`; `Room` that `txWorker`, once it has seen room, still has it when it puts
  the descriptor, and that the kernel never owes more completions than their ring
  holds. The counters are words that wrap; what is in a ring is their difference, and
  the lemmas on remainders say how `+ 1` moves it. The queue of the refinement is the
  tx ring, the worker's descriptor, and the channel, in that order: a step of a sender
  appends to it, the kernel's take removes its head, and the worker's steps only move
  the border between its parts.
- `CountingProofs`, about `Startup` and the `Distributor` in it: `SocketsAlwaysEven`,
  `NothingLeftOpen` and `SharesAlwaysExact`. The counter is the number
  of medias as a word (`CounterInv`). `EvenInv` compares what two sockets had got when
  the current round of the sockets began (`Base`): that differs by at most the number
  of overflows that cut a round short (`Wraps`), and only to the advantage of the
  socket with the smaller number. The places already reached in this round (`Reached`)
  add one at most.

  For `SharesExact`, `CalcInv` says that after k places the accumulators add up to 0,
  that the one of range r is `k * weight[r] - Total * Times(r)`, where `Times` is how
  often r has been laid out, and that each is above `-Total`. That the last is kept
  is the point: `calc` compares accumulators of different rounds, but the range it
  gets still has the largest sum of accumulator and weight (`GotLargest`), and those
  sums cannot all be at most 0 when they add up to `Total`. With k = `Total` each
  accumulator is a multiple of `Total` above `-Total`; so none is negative, they add
  up to 0, and all are 0: each range has been laid out as often as its weight says.
  `WalkInv` then counts the walks: n timeouts are `n div Total` whole walks and a part
  of one that begins at the second place, as `Next` adds before it reads; past the
  overflow of the counter that holds if the walk divides the word.
- `CountingProofs`, about `XdpProgram` with the dialogs of `XdpRules`: `ReportsNearlyExact` and `ReportedOnce`, for any
  number of packets (`MaxPkts` is not used). `NearInv`: a rule's counter, plus the
  CPUs that have still to add to its element, less the packets that matched the rule,
  is between 0 and the number of CPUs. `Update` sets it to the number of CPUs late for
  an earlier owner, a match and an addition leave it as it is. `OnceInv` is a potential:
  what was reported, plus the counters of the elements whose last owner has not
  reported, plus the additions that are due, is at most the packets that matched.
  A report moves its counter from the second sum to the first; a reuse of an element
  drops its counter; a match adds one on both sides. `StepsOf` adds
  that a dialog makes one rule and looks it up once. The module extends `XdpProgram`,
  for its properties, and has an instance of `XdpRules`, for its behaviours; so what
  the latter assumes, finitely many dialogs, is a hypothesis of both theorems.

  Sums are the library's `SumFunction`, a fold over a set. `SumUnfolded`, `SumsUnique`
  and `SumsExist` say what it chooses, `SumRemove` that a sum is any
  of its terms and the rest. In place of an induction theorem, whose operator parameter
  the provers cannot instantiate, `SubsetInduction` and `NatSetInduction` are about a
  set: the subsets (or numbers) of which a fact holds are all of them, for there is no
  smallest one outside.
- `MediaProofs`: `TypeCorrect`, `NoDoubleClose`, `MediaInOrder`, `StoppedSoon`, and
  `NilOnlyTorn`. `InOrder` is not inductive: it needs that a goroutine holds `mu`
  exactly from its `Lock` to its return, and that nothing of a playback later than
  the one about to send is in the log; that needs `select` to have seen its channel
  open, which in turn needs every channel but the playing playback's to be closed,
  the fact behind `NoDoubleClose` too. `IInv` joins these. `NilOnlyTorn` rests on a
  second invariant, `RouterInv`: from `KernelsAssumption`, a router that is not torn
  has the interface of each of its routes, at every piece of `Reload`.

What stays with TLC, and why:

- Liveness under fairness is beyond the prover: `LoneScanReturns`, `HandlerReturns`,
  `CallReturns`, `Exits`, `Transmitted`, `Ends`, `Refreshed`.
- `CodecsFaithful` uses `Bitwise`, which the prover does not have; it is a statement
  about 65,536 samples, and TLC goes through all of them.

Every other property of a passing run is a theorem.

## Not modelled, and why

- The receive side of the XDP socket (`Fill`, `Receive`, `Poll`, `GetRxDescs`),
  `Stats`, and the `Close` of a socket that was made: nothing in the program calls
  them, so they have no state that a run of the program reaches.
- SDP and RTP as text and bytes, packet captures, cobra's flags, the statistics and
  metrics printed, random identifiers: no state that another part depends on.
- What sipgo, cilium/ebpf, the rate limiter and the kernel do inside.
- A BYE that reaches `Uac.onBye` before `Invite` has returned, and an offer without
  an audio section, are excluded from the inputs: both are a nil or index panic
  whose reach depends on sipgo or on the text of SDP.

## Plan

1. Done: port allocator with proofs, dialogs of both kinds, call maker with proofs,
   transmit side, playback with routing and its refresh, with proofs, XDP program and
   counters, start-up with time ranges, sockets and codecs.
2. Done: proofs of the safety of dialogs of both kinds, of `StopsMaking` and
   `FewCallsCut`, of the refinement of `TxQueue`, of the sockets' round robin and
   release, of the shares of the time ranges, and of the counters of the rules: every
   safety property of the runs but that of the codecs.
3. A composition of `Media` with `XdpTx`, several dialogs on one socket.
