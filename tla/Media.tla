-------------------------------- MODULE Media --------------------------------
(***************************************************************************)
(* The RTP a dialog sends (src/media.go): the goroutine of the dialog      *)
(* builds its media with newMedia, from the tables of Routing while they   *)
(* are refreshed, calls playback for the early media and again for the     *)
(* answer media, and stop or Close in the end; every playback runs in a    *)
(* goroutine of its own, which fills the one buffer of the dialog under    *)
(* the mutex mu and hands it to SendMsg (XdpTx).  The channel done of a    *)
(* playback is known by the number of the playback, 0 being nil.           *)
(*                                                                         *)
(* MakeCall's context is done after its deferred cancel; a UAS has none.   *)
(* A UAC whose newMedia failed calls it again at the next response.        *)
(***************************************************************************)
EXTENDS Routing

CONSTANTS Remote,       \* the address in the peer's SDP
          Plays,        \* the calls of playback, two in the code
          Pkts          \* packets of each playback

ASSUME PlaysAssumption == Plays \in Nat
ASSUME PktsAssumption == Pkts \in Nat \ {0}

Play == 1 .. Plays

VARIABLES
    building,   \* how far newMedia is
    iface,      \* its iface, NoLink for nil
    nextHop,    \* its nextHop
    playing,    \* m.playing
    done,       \* m.done
    closed,     \* the channels that are closed
    panicked,   \* a channel was closed twice
    ctxDone,    \* m.ctx is done
    plays,      \* how many playbacks have been called
    pc,         \* pc[p]: the next step of the goroutine of playback p
    sent,       \* sent[p]: the packets it has handed to SendMsg
    mu,         \* the goroutine that holds mu, 0 for none
    log         \* the playback of each packet handed to SendMsg, in order

callerVars == <<playing, done, closed, panicked, plays>>
newMediaVars == <<building, iface, nextHop>>
playVars == <<callerVars, ctxDone, pc, sent, mu, log>>
vars == <<routingVars, newMediaVars, playVars>>

Init ==
    /\ RoutingInit
    /\ building = "no"
    /\ iface = NoLink
    /\ nextHop = Remote
    /\ playing = FALSE
    /\ done = 0
    /\ closed = {}
    /\ panicked = FALSE
    /\ ctxDone = FALSE
    /\ plays = 0
    /\ pc = [p \in Play |-> "none"]
    /\ sent = [p \in Play |-> 0]
    /\ mu = 0
    /\ log = <<>>

\* close(ch): closing a channel that is closed panics.
CloseChan(ch) ==
    /\ closed' = closed \cup {ch}
    /\ panicked' = (panicked \/ ch \in closed)

-----------------------------------------------------------------------------
(* Mutated forms of the definitions below, each a slip of the code. *)

StopKeepsPlaying ==                              \* Load instead of CompareAndSwap
    /\ playing
    /\ IF done # 0 THEN CloseChan(done) ELSE UNCHANGED <<closed, panicked>>
    /\ UNCHANGED <<playing, done, plays, ctxDone, pc, sent, mu, log>>

LockNobody(p) ==                                 \* no m.mu.Lock()
    /\ pc[p] = "lock"
    /\ pc' = [pc EXCEPT ![p] = "select"]
    /\ UNCHANGED <<callerVars, ctxDone, sent, mu, log>>

SelectOnlyContext(p) ==                          \* no case <-done
    /\ pc[p] = "select"
    /\ IF ctxDone \/ sent[p] = Pkts
         THEN pc' = [pc EXCEPT ![p] = "over"] /\ mu' = 0
         ELSE pc' = [pc EXCEPT ![p] = "send"] /\ UNCHANGED mu
    /\ UNCHANGED <<callerVars, ctxDone, sent, log>>

SelectKeepsLock(p) ==                            \* no defer m.mu.Unlock()
    /\ pc[p] = "select"
    /\ pc' = [pc EXCEPT
          ![p] = IF ctxDone \/ p \in closed \/ sent[p] = Pkts THEN "over" ELSE "send"]
    /\ UNCHANGED <<callerVars, ctxDone, sent, mu, log>>

-----------------------------------------------------------------------------
(* newMedia, with pktSerialize *)

\* r.ifaces of the route's interface.
Resolve(rt) == IF rt.out \in router.links THEN rt.out ELSE NoLink

\* One load of r: the interface and the gateway are of one router.
Route ==
    /\ building \in {"no", "failed"}
    /\ \E rt \in Chosen(router.routes, Remote) :
          /\ iface' = Resolve(rt)
          /\ nextHop' = IF rt.gateway = NoGateway THEN Remote ELSE rt.gateway
    /\ building' = "route"

RouteNotFound ==
    /\ building = "no"
    /\ Chosen(router.routes, Remote) = {}
    /\ building' = "failed"
    /\ UNCHANGED <<iface, nextHop>>

MacNotFound ==
    /\ building = "route"
    /\ nextHop \notin table
    /\ building' = "failed"
    /\ UNCHANGED <<iface, nextHop>>

\* iface.HardwareAddr of a nil iface panics, and a loopback has a "bad MAC".
Serialize ==
    /\ building = "route"
    /\ nextHop \in table
    /\ building' = IF iface = NoLink THEN "panicked"
                   ELSE IF iface \in Wired THEN "built" ELSE "failed"
    /\ UNCHANGED <<iface, nextHop>>

NewMedia == Route \/ RouteNotFound \/ MacNotFound \/ Serialize

-----------------------------------------------------------------------------
(* The dialog's goroutine; nobody else writes what it writes.  On a media  *)
(* that is nil playback and stop do nothing.                               *)

\* playback with packets to play; with none it does nothing at all.
Playback ==
    /\ building = "built"
    /\ plays < Plays
    /\ plays' = plays + 1
    /\ playing' = TRUE
    /\ IF playing THEN CloseChan(done) ELSE UNCHANGED <<closed, panicked>>
    /\ done' = plays + 1
    /\ pc' = [pc EXCEPT ![plays + 1] = "lock"]
    /\ UNCHANGED <<ctxDone, sent, mu, log>>

\* stop, and Close, which is stop; on a media that is not playing, nothing.
Stop ==
    /\ playing
    /\ playing' = FALSE
    /\ IF done # 0 THEN CloseChan(done) ELSE UNCHANGED <<closed, panicked>>
    /\ UNCHANGED <<done, plays, ctxDone, pc, sent, mu, log>>

Cancel ==
    /\ ~ctxDone
    /\ ctxDone' = TRUE
    /\ UNCHANGED <<callerVars, pc, sent, mu, log>>

-----------------------------------------------------------------------------
(* The goroutine of a playback *)

Lock(p) ==
    /\ pc[p] = "lock"
    /\ mu = 0
    /\ mu' = p
    /\ pc' = [pc EXCEPT ![p] = "select"]
    /\ UNCHANGED <<callerVars, ctxDone, sent, log>>

\* The head of the loop and, after a sleep, the select; on return, the unlock.
Select(p) ==
    /\ pc[p] = "select"
    /\ IF ctxDone \/ p \in closed \/ sent[p] = Pkts
         THEN pc' = [pc EXCEPT ![p] = "over"] /\ mu' = 0
         ELSE pc' = [pc EXCEPT ![p] = "send"] /\ UNCHANGED mu
    /\ UNCHANGED <<callerVars, ctxDone, sent, log>>

\* The payload is copied to m.buf and SendMsg called; failed or not, it counts.
SendPacket(p) ==
    /\ pc[p] = "send"
    /\ sent' = [sent EXCEPT ![p] = @ + 1]
    /\ log' = Append(log, p)
    /\ pc' = [pc EXCEPT ![p] = "select"]
    /\ UNCHANGED <<callerVars, ctxDone, mu>>

Run(p) == Lock(p) \/ Select(p) \/ SendPacket(p)

Playing == Playback \/ Stop \/ Cancel \/ (\E p \in Play : Run(p))

\* A panic ends the program; the kernel goes on.
Next ==
    \/ /\ building # "panicked"
       /\ \/ NewMedia /\ UNCHANGED <<routingVars, playVars>>
          \/ Playing /\ UNCHANGED <<routingVars, newMediaVars>>
          \/ Refresh /\ UNCHANGED <<newMediaVars, playVars>>
    \/ KernelChanges /\ UNCHANGED <<newMediaVars, playVars>>
    \/ building = "panicked" /\ UNCHANGED vars

Spec == Init /\ [][Next]_vars

\* The scheduler runs the goroutines and the pauses between packets end.
FairSpec ==
    /\ Spec
    /\ \A p \in Play : WF_playVars(Run(p))
    /\ RefreshFairness

-----------------------------------------------------------------------------
(* Properties *)

\* Every variable has its type.
TypeOK ==
    /\ building \in {"no", "route", "built", "failed", "panicked"}
    /\ plays > 0 => building = "built"
    /\ playing \in BOOLEAN /\ panicked \in BOOLEAN /\ ctxDone \in BOOLEAN
    /\ plays \in 0 .. Plays
    /\ done \in 0 .. plays
    /\ closed \subseteq 1 .. plays
    /\ pc \in [Play -> {"none", "lock", "select", "send", "over"}]
    /\ sent \in [Play -> 0 .. Pkts]
    /\ mu \in 0 .. plays
    /\ log \in Seq(Play)

\* No order of playback, stop and Close closes a channel twice (media.go:122-126,
\* 168-174).
NeverPanics == ~panicked

\* A packet of a playback is never sent after one of a later playback, whatever
\* the order in which the goroutines get the mutex: the answer media is not
\* mixed with early media (media.go:128-143).
InOrder == \A m, n \in DOMAIN log : m < n => log[m] <= log[n]

\* A playback that was stopped or superseded sends at most the packet it had
\* already decided to send (media.go:137-143).
AtMostOneMore ==
    [][\A p \in closed : pc[p] # "send" => sent'[p] = sent[p] /\ pc'[p] # "send"]_vars

\* Every playback's goroutine ends, though it may wait for the mutex of others
\* (media.go:128-158).
Ends == \A p \in Play : pc[p] = "lock" ~> pc[p] = "over"

\* newMedia finds no nil interface, which would panic, but for a route that has
\* none or in a router whose routes and interfaces were read around a change of the
\* kernel's: whatever Reload does meanwhile (media.go:92-112, routing.go:92).
PanicsOnlyTorn ==
    [][building # "route" /\ building' = "route" /\ iface' = NoLink
         => \/ router.torn
            \/ \E rt \in Chosen(router.routes, Remote) : rt.out = NoLink]_vars

\* When the kernel's tables stay as they are the program comes to use them, with
\* routes and interfaces that belong together (sipbench.go:44-54).
Refreshed ==
    <>[](\/ building = "panicked"
         \/ /\ Range(router.routes) = kernel.routes
            /\ router.links = kernel.links
            /\ table = kernel.neighbours)
=============================================================================
