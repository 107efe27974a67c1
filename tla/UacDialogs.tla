----------------------------- MODULE UacDialogs -----------------------------
(***************************************************************************)
(* The dialogs of the UAC (src/dialog.go, DialogUac): each runs MakeCall   *)
(* and Close in a goroutine of its own, which WaitAnswer calls back with   *)
(* onResponse, while sipgo's server runs onBye (src/uac.go) in another.    *)
(* UacCalls is about when these goroutines start and what waits for them.  *)
(*                                                                         *)
(* A Call-ID is ten random characters, so every dialog has its own and the *)
(* dialogs map is the set of the dialogs in it.                            *)
(*                                                                         *)
(* sipgo is external: Invite sends and returns; WaitAnswer calls           *)
(* onResponse for each response, returns when one is final, and sends a    *)
(* CANCEL and fails when its context is cancelled; DialogStateEnded is     *)
(* reported once; Ack and Bye may fail at any time; timers bound every     *)
(* call.  The peer sends no BYE before Invite has returned to MakeCall.    *)
(***************************************************************************)
EXTENDS DialogPorts

VARIABLES
    session,    \* session[d]: the SIP session, held by sipgo
    listening,  \* listening[d]: OnState has registered handleState
    done,       \* done[d]: the channel done is closed
    ctx,        \* ctx[d]: the context of WithCancel and who cancelled it
    media,      \* media[d]: the state of d.media
    dialogs,    \* the dialogs in the sync.Map dialogs
    current,    \* metricsCurrentDialogs
    byes,       \* the dialogs whose peer's BYE was answered with 200
    failed      \* the dialogs whose Ack or Bye returned an error

callVars == <<session, listening, done, ctx, media>>
tableVars == <<dialogs, current>>
peerVars == <<byes, failed>>
vars == <<pc, portVars, callVars, tableVars, peerVars>>

Init ==
    /\ PortsInit
    /\ pc = [d \in Dialog |-> "new"]
    /\ session = [d \in Dialog |-> "none"]
    /\ listening = [d \in Dialog |-> FALSE]
    /\ done = [d \in Dialog |-> FALSE]
    /\ ctx = [d \in Dialog |-> "none"]
    /\ media = [d \in Dialog |-> "nil"]
    /\ dialogs = {}
    /\ current = 0
    /\ byes = {}
    /\ failed = {}

\* The peer may have a session that somebody has to end.
Up(d) == session[d] \in {"invited", "confirmed"}

\* DialogStateEnded, reported to handleState if it is registered: close(done).
EndSession(d) ==
    /\ session' = [session EXCEPT ![d] = "ended"]
    /\ done' = [done EXCEPT ![d] = @ \/ listening[d]]

\* A cancelled context stays as the first cancel left it.
Cancel(d, by) == ctx' = [ctx EXCEPT ![d] = IF @ = "live" THEN by ELSE @]

-----------------------------------------------------------------------------
(* Mutated forms of the definitions below, each a slip of the code that a     *)
(* property of this module detects.                                           *)

TalkTimeoutNoBye(d) ==                           \* returns without the BYE
    /\ pc[d] = "talking"
    /\ media' = [media EXCEPT ![d] = IF @ = "nil" THEN @ ELSE "stopped"]
    /\ Cancel(d, "return")
    /\ Goto(d, "begin")
    /\ UNCHANGED <<portVars, tableVars, session, listening, done, peerVars>>

TalkNoTimeout(d) ==                              \* waits for done only
    /\ pc[d] = "talking"
    /\ done[d]
    /\ media' = [media EXCEPT ![d] = IF @ = "nil" THEN @ ELSE "stopped"]
    /\ Goto(d, "bye")
    /\ UNCHANGED <<portVars, tableVars, session, listening, done, ctx, peerVars>>

UnlistKeepsGauge(d) ==                           \* no Add(-1)
    /\ pc[d] = "unlist"
    /\ media' = [media EXCEPT ![d] = IF @ = "nil" THEN @ ELSE "stopped"]
    /\ dialogs' = dialogs \ {d}
    /\ Goto(d, "closed")
    /\ UNCHANGED <<portVars, session, listening, done, ctx, current, peerVars>>

NewDialogUacUncounted(d) ==                      \* no Add(1)
    /\ pc[d] = "new"
    /\ dialogs' = dialogs \cup {d}
    /\ Goto(d, "getport")
    /\ UNCHANGED <<portVars, callVars, current, peerVars>>

NewDialogUacUnlisted(d) ==                       \* no dialogs.Store
    /\ pc[d] = "new"
    /\ current' = current + 1
    /\ Goto(d, "getport")
    /\ UNCHANGED <<portVars, callVars, dialogs, peerVars>>

-----------------------------------------------------------------------------
(* MakeCall up to the INVITE *)

NewDialogUac(d) ==
    /\ pc[d] = "new"
    /\ dialogs' = dialogs \cup {d}
    /\ current' = current + 1
    /\ Goto(d, "getport")
    /\ UNCHANGED <<portVars, callVars, peerVars>>

GetPort(d) ==
    /\ pc[d] = "getport"
    /\ BeginScan(d)
    /\ UNCHANGED <<tableVars, callVars, peerVars>>

Scan(d) ==
    /\ TakePort(d)
    /\ Goto(d, "rules")
    /\ UNCHANGED <<tableVars, callVars, peerVars>>

\* MakeCall returns before it has a context: the deferred Close is next.
GetPortRefused(d) ==
    /\ pc[d] = "getport"
    /\ NoFreePort
    /\ Goto(d, "begin")
    /\ UNCHANGED <<portVars, tableVars, callVars, peerVars>>

RuleKeys(d) == <<<<lap[d][1], "rtp">>, <<lap[d][1], "rtcp">>>>

Update(d) ==
    /\ pc[d] = "rules"
    /\ UpdateRules(RuleKeys(d))
    /\ Goto(d, "invite")
    /\ UNCHANGED <<tableVars, callVars, peerVars>>

UpdateFails(d) ==
    /\ pc[d] = "rules"
    /\ UpdateStops(d, RuleKeys(d))
    /\ Goto(d, "begin")
    /\ UNCHANGED <<tableVars, callVars, peerVars>>

Invite(d) ==
    /\ pc[d] = "invite"
    /\ session' = [session EXCEPT ![d] = "invited"]
    /\ Goto(d, "onstate")
    /\ UNCHANGED <<portVars, tableVars, listening, done, ctx, media, peerVars>>

InviteFails(d) ==
    /\ pc[d] = "invite"
    /\ Goto(d, "begin")
    /\ UNCHANGED <<portVars, tableVars, callVars, peerVars>>

\* OnState, and WithCancel of a context nobody else has yet.
OnState(d) ==
    /\ pc[d] = "onstate"
    /\ listening' = [listening EXCEPT ![d] = TRUE]
    /\ ctx' = [ctx EXCEPT ![d] = "live"]
    /\ Goto(d, "waiting")
    /\ UNCHANGED <<portVars, tableVars, session, done, media, peerVars>>

-----------------------------------------------------------------------------
(* WaitAnswer and onResponse *)

\* The first 180 or 183 with a body: newMedia and the early media, or, if the
\* SDP or the route is no good, d.cancel() and no media.
OnProgress(d) ==
    /\ pc[d] = "waiting"
    /\ session[d] = "invited"
    /\ media[d] = "nil"
    /\ \/ media' = [media EXCEPT ![d] = "early"] /\ UNCHANGED ctx
       \/ Cancel(d, "response") /\ UNCHANGED media
    /\ UNCHANGED <<pc, portVars, tableVars, session, listening, done, peerVars>>

\* A 200: newMedia unless a 183 has made it, and WaitAnswer returns.
OnSuccess(d) ==
    /\ pc[d] = "waiting"
    /\ session[d] \in {"invited", "ended"}
    /\ session' = [session EXCEPT ![d] = IF @ = "invited" THEN "confirmed" ELSE @]
    /\ IF media[d] # "nil"
         THEN UNCHANGED <<media, ctx>>
         ELSE \/ media' = [media EXCEPT ![d] = "ready"] /\ UNCHANGED ctx
              \/ Cancel(d, "response") /\ UNCHANGED media
    /\ Goto(d, "ack")
    /\ UNCHANGED <<portVars, tableVars, listening, done, peerVars>>

\* The call was refused, timed out, or cancelled by onResponse; the context is
\* cancelled in each case.
WaitAnswerFails(d) ==
    /\ pc[d] = "waiting"
    /\ session' = [session EXCEPT
          ![d] = IF session[d] = "invited" THEN "refused" ELSE @]
    /\ Cancel(d, "return")
    /\ Goto(d, "begin")
    /\ UNCHANGED <<portVars, tableVars, listening, done, media, peerVars>>

-----------------------------------------------------------------------------
(* The call *)

\* MakeCall returns after WaitAnswer: the deferred cancel, then Close.
Return(d) ==
    /\ Cancel(d, "return")
    /\ Goto(d, "begin")
    /\ UNCHANGED <<portVars, tableVars, listening, byes>>

Stop(d) == media' = [media EXCEPT ![d] = IF @ = "nil" THEN @ ELSE "stopped"]

Ack(d) ==
    /\ pc[d] = "ack"
    /\ session[d] # "lost"
    /\ media' = [media EXCEPT ![d] = IF @ = "nil" THEN @ ELSE "answer"]
    /\ Goto(d, "talking")
    /\ UNCHANGED <<portVars, tableVars, session, listening, done, ctx, peerVars>>

AckFails(d) ==
    /\ pc[d] = "ack"
    /\ failed' = failed \cup {d}
    /\ Return(d)
    /\ UNCHANGED <<session, done, media>>

Hangup(d) ==
    /\ pc[d] = "talking"
    /\ done[d]
    /\ Stop(d)
    /\ Return(d)
    /\ UNCHANGED <<session, done, failed>>

TalkTimeout(d) ==
    /\ pc[d] = "talking"
    /\ Stop(d)
    /\ Goto(d, "bye")
    /\ UNCHANGED <<portVars, tableVars, session, listening, done, ctx, peerVars>>

Bye(d) ==
    /\ pc[d] = "bye"
    /\ session[d] = "confirmed"
    /\ EndSession(d)
    /\ Return(d)
    /\ UNCHANGED <<media, failed>>

ByeFails(d) ==
    /\ pc[d] = "bye"
    /\ failed' = failed \cup {d}
    /\ Return(d)
    /\ UNCHANGED <<session, done, media>>

-----------------------------------------------------------------------------
(* Close *)

ClosePorts(d) ==
    /\ CloseStep(d)
    /\ UNCHANGED <<tableVars, callVars, peerVars>>

\* media.Close, dialogs.Delete and the gauge.
Unlist(d) ==
    /\ pc[d] = "unlist"
    /\ Stop(d)
    /\ dialogs' = dialogs \ {d}
    /\ current' = current - 1
    /\ Goto(d, "closed")
    /\ UNCHANGED <<portVars, session, listening, done, ctx, peerVars>>

-----------------------------------------------------------------------------
(* The peer *)

\* Uac.onBye: 200 OK, and the end of the session if the dialog is listed.
OnBye(d) ==
    /\ session[d] \in {"invited", "confirmed", "ended"}
    /\ d \notin byes
    /\ byes' = byes \cup {d}
    /\ IF d \in dialogs /\ session[d] # "ended"
         THEN EndSession(d)
         ELSE UNCHANGED <<session, done>>
    /\ UNCHANGED <<pc, portVars, tableVars, listening, ctx, media, failed>>

\* Nothing the peer sends arrives any more, and nothing reaches it (of no
\* consequence once the call is over).
PeerLost(d) ==
    /\ Up(d)
    /\ pc[d] \notin Over
    /\ session' = [session EXCEPT ![d] = "lost"]
    /\ UNCHANGED <<pc, portVars, tableVars, listening, done, ctx, media, peerVars>>

-----------------------------------------------------------------------------
Call(d) ==
    \/ GetPort(d) \/ GetPortRefused(d) \/ Scan(d) \/ Update(d) \/ UpdateFails(d)
    \/ Invite(d) \/ InviteFails(d) \/ OnState(d)
    \/ OnProgress(d) \/ OnSuccess(d) \/ WaitAnswerFails(d)
    \/ Ack(d) \/ AckFails(d) \/ Hangup(d) \/ TalkTimeout(d) \/ Bye(d) \/ ByeFails(d)
    \/ ClosePorts(d) \/ Unlist(d)

\* Every call has been made and closed.
AllClosed == (\A d \in Dialog : pc[d] = "closed") /\ UNCHANGED vars

Next ==
    \/ \E d \in Dialog : NewDialogUac(d) \/ Call(d) \/ OnBye(d) \/ PeerLost(d)
    \/ AllClosed

Spec == Init /\ [][Next]_vars

\* The scheduler runs the goroutines and their timers fire; the peer's
\* responses need not come, and a scan that is not alone may go on for ever.
FairSpec ==
    /\ Spec
    /\ \A d \in Dialog : /\ WF_vars(pc[d] # "scan" /\ Call(d))
                         /\ WF_vars(ScansAlone(d) /\ Scan(d))

-----------------------------------------------------------------------------
(* Properties *)

\* Every variable has its type.
TypeOK ==
    /\ PortsTypeOK(1)
    /\ pc \in [Dialog -> {"new", "getport", "scan", "rules", "invite", "onstate",
                          "waiting", "ack", "talking", "bye"} \cup Over]
    /\ session \in [Dialog -> {"none", "invited", "confirmed", "refused",
                               "ended", "lost"}]
    /\ listening \in [Dialog -> BOOLEAN]
    /\ done \in [Dialog -> BOOLEAN]
    /\ ctx \in [Dialog -> {"none", "live", "response", "return"}]
    /\ media \in [Dialog -> {"nil", "early", "ready", "answer", "stopped"}]
    /\ dialogs \subseteq Dialog
    /\ current \in 0 .. Cardinality(Dialog)
    /\ byes \subseteq Dialog
    /\ failed \subseteq Dialog

\* The gauge, which Uac.Close polls, and the map have the calls that are not closed,
\* and no others; done is closed by the end of the session alone; a call has its
\* port until Close frees it, and media only once it has a context to end it with
\* (dialog.go:312-325, 355-364, 463-492).
Consistent ==
    /\ TypeOK
    /\ dialogs = {d \in Dialog : pc[d] \notin {"new", "closed"}}
    /\ current = Cardinality(dialogs)
    /\ \A d \in Dialog : done[d] => listening[d] /\ session[d] = "ended"
    /\ \A d \in Dialog : phase[d] = "open" => owned[d] = Ports(d)
    /\ \A d \in Dialog : media[d] \notin {"nil", "stopped"} => ctx[d] # "none"

\* No way through MakeCall gives an answered call up without an attempt to end
\* it: a call whose goroutine is over is up at the peer only if its ACK or its
\* BYE failed (dialog.go:357-392).
AnsweredCallEnds == \A d \in Dialog : pc[d] \in Over /\ Up(d) => d \in failed

\* A BYE answered with 200 has ended its call's session, or the call's
\* goroutine is closing anyway (uac.go:179-192).
ByeEndsCall == \A d \in byes : session[d] = "ended" \/ pc[d] \in Over

\* Once every goroutine is over, the pool, the map of dialogs and the gauge
\* that Uac.Close polls are as at the start (dialog.go:463-492).
CleanWhenOver ==
    (\A d \in Dialog : pc[d] \in {"new", "closed"})
        => (\A d \in Dialog : owned[d] = {}) /\ dialogs = {} /\ current = 0

\* Every call ends and is closed, whatever the peer does and whichever call fails,
\* unless again and again it scans for a port together with another call
\* (ua.go:138-150, dialog.go:327-393).
CallReturns ==
    \A d \in Dialog :
        pc[d] # "new"
            ~> \/ pc[d] = "closed"
               \/ pc[d] = "scan" /\ \E e \in Dialog \ {d} : pc[e] = "scan"
=============================================================================
