----------------------------- MODULE UasDialogs -----------------------------
(***************************************************************************)
(* The UAS (src/uas.go) and the dialogs it serves (src/dialog.go,          *)
(* DialogUas): one goroutine of sipgo's server per INVITE runs onInvite    *)
(* and then the deferred Close, while ACK and BYE handlers of other        *)
(* goroutines find the dialog by Call-ID in the dialogs map.  The dialogs  *)
(* share the pool of RTP ports and the eBPF rules that make XDP count and  *)
(* drop a port's packets (src/ebpf).                                       *)
(*                                                                         *)
(* Ports: PortPool, which RtpPorts implements.  A port here is an RTP port *)
(* with its RTCP port; RtcpDisjoint of RtpPorts is why the two kinds of    *)
(* rule are kept apart.                                                    *)
(*                                                                         *)
(* sipgo is external.  Its session reports DialogStateEnded once; Respond  *)
(* and Bye may fail at any time, and do once the peer is lost; RespondSDP  *)
(* returns when the ACK has been read or the transaction has failed; ACK   *)
(* and BYE timers are sipgo's, so every call returns.                      *)
(***************************************************************************)
EXTENDS DialogPorts

CONSTANTS CallId,         \* Call-IDs
          Invites,        \* what the INVITEs of a run may be
          MaxAudio        \* bound on the audio streams of a SIPREC offer

\* The Call-ID of each dialog's INVITE, and its offer by its Content-Type.
ASSUME InvitesAssumption ==
    Invites \subseteq [Dialog -> [callId : CallId, offer : {"plain", "siprec"}]]
ASSUME MaxAudioAssumption == MaxAudio \in Nat \ {0}

None == "no dialog"

ASSUME NoneAssumption == None \notin Dialog

VARIABLES
    invite,     \* invite[d]: the INVITE that d serves
    session,    \* session[d]: the SIP session, held by sipgo
    listening,  \* listening[d]: OnState has registered handleState
    done,       \* done[d]: the channel done is closed
    final,      \* final[d]: the final response sent, "none" before
    media,      \* media[d]: the state of d.media
    dialogs,    \* the sync.Map dialogs, by Call-ID
    current,    \* metricsCurrentDialogs
    byes        \* the dialogs whose peer's BYE was answered with 200

handlerVars == <<invite, session, listening, done, final, media>>
tableVars == <<dialogs, current>>
vars == <<pc, portVars, handlerVars, tableVars, byes>>

Init ==
    /\ PortsInit
    /\ pc = [d \in Dialog |-> "new"]
    /\ invite \in Invites
    /\ session = [d \in Dialog |-> "none"]
    /\ listening = [d \in Dialog |-> FALSE]
    /\ done = [d \in Dialog |-> FALSE]
    /\ final = [d \in Dialog |-> "none"]
    /\ media = [d \in Dialog |-> "nil"]
    /\ dialogs = [c \in CallId |-> None]
    /\ current = 0
    /\ byes = {}

-----------------------------------------------------------------------------
(* The INVITE and sipgo's session *)

CallIdOf(d) == invite[d].callId
Siprec(d) == invite[d].offer = "siprec"

Open(d) == session[d] \in {"early", "confirmed"}

\* A Respond may succeed; it may fail as well, whatever the state of the session.
MaySucceed(d) == session[d] # "lost"

\* DialogStateEnded, reported to handleState if it is registered: close(done).
EndSession(d) ==
    /\ session' = [session EXCEPT ![d] = "ended"]
    /\ done' = [done EXCEPT ![d] = @ \/ listening[d]]

-----------------------------------------------------------------------------
(* Mutated forms of the definitions below, each a slip of the code that a     *)
(* property of this module detects.                                           *)

NewDialogUasUnlisted(d) ==                       \* no dialogs.Store
    /\ pc[d] = "new"
    /\ session' = [session EXCEPT ![d] = "early"]
    /\ current' = current + 1
    /\ Goto(d, "onstate")
    /\ UNCHANGED <<portVars, invite, listening, done, final, media, dialogs,
                   byes>>

NewDialogUasUncounted(d) ==                      \* no Add(1)
    /\ pc[d] = "new"
    /\ session' = [session EXCEPT ![d] = "early"]
    /\ dialogs' = [dialogs EXCEPT ![CallIdOf(d)] = d]
    /\ Goto(d, "onstate")
    /\ UNCHANGED <<portVars, invite, listening, done, final, media, current,
                   byes>>

RingingNoTimeout(d) ==                           \* waits for done only
    /\ pc[d] = "ringing"
    /\ done[d]
    /\ \E label \in {"busy", "answer"} : Goto(d, label)
    /\ UNCHANGED <<portVars, tableVars, handlerVars, byes>>

-----------------------------------------------------------------------------
(* onInvite *)

\* Uas.onInvite up to the handler: ReadInvite and NewDialogUas.  An INVITE
\* that ReadInvite refuses leaves no trace.
NewDialogUas(d) ==
    /\ pc[d] = "new"
    /\ session' = [session EXCEPT ![d] = "early"]
    /\ dialogs' = [dialogs EXCEPT ![CallIdOf(d)] = d]
    /\ current' = current + 1
    /\ Goto(d, "onstate")
    /\ UNCHANGED <<portVars, invite, listening, done, final, media, byes>>

OnState(d) ==
    /\ pc[d] = "onstate"
    /\ listening' = [listening EXCEPT ![d] = TRUE]
    /\ Goto(d, "trying")
    /\ UNCHANGED <<portVars, tableVars, invite, session, done, final, media,
                   byes>>

\* The handler returns: the deferred Close is next.
Return(d) ==
    /\ Goto(d, "begin")
    /\ UNCHANGED <<portVars, tableVars, byes>>

\* 500 Internal Server Error, or nothing if Respond fails; then the return.
RespondError(d) ==
    /\ \/ MaySucceed(d) /\ final' = [final EXCEPT ![d] = "error"]
       \/ UNCHANGED final
    /\ Return(d)
    /\ UNCHANGED <<invite, session, listening, done, media>>

\* 100 Trying was sent, and the body is an offer (a SIPREC offer may have no audio
\* stream, hence no port).
Trying(d) ==
    /\ pc[d] = "trying"
    /\ MaySucceed(d)
    /\ \/ Goto(d, "getport")
       \/ Siprec(d) /\ Goto(d, "rules")
    /\ UNCHANGED <<portVars, tableVars, handlerVars, byes>>

TryingFails(d) ==
    /\ pc[d] = "trying"
    /\ Return(d)
    /\ UNCHANGED handlerVars

\* 100 Trying was sent, but the body has no SDP that can be parsed.
BadOffer(d) ==
    /\ pc[d] = "trying"
    /\ MaySucceed(d)
    /\ RespondError(d)

\* One port for a plain offer, one per audio stream for a SIPREC offer.
GetPort(d) ==
    /\ pc[d] = "getport"
    /\ BeginScan(d)
    /\ UNCHANGED <<tableVars, handlerVars, byes>>

Scan(d) ==
    /\ TakePort(d)
    /\ \/ Goto(d, "rules")
       \/ Siprec(d) /\ Len(lap'[d]) < MaxAudio /\ Goto(d, "getport")
    /\ UNCHANGED <<tableVars, handlerVars, byes>>

GetPortRefused(d) ==
    /\ pc[d] = "getport"
    /\ NoFreePort
    /\ RespondError(d)

-----------------------------------------------------------------------------
\* The keys of ebpf.Update: RTP and RTCP for a plain offer, RTP for SIPREC.
RuleKeys(d) ==
    IF Siprec(d)
      THEN [i \in DOMAIN lap[d] |-> <<lap[d][i], "rtp">>]
      ELSE <<<<lap[d][1], "rtp">>, <<lap[d][1], "rtcp">>>>

Update(d) ==
    /\ pc[d] = "rules"
    /\ UpdateRules(RuleKeys(d))
    /\ Goto(d, IF Siprec(d) THEN "progress" ELSE "media")
    /\ UNCHANGED <<tableVars, handlerVars, byes>>

\* The handler returns and no response is sent.
UpdateFails(d) ==
    /\ pc[d] = "rules"
    /\ UpdateStops(d, RuleKeys(d))
    /\ Goto(d, "begin")
    /\ UNCHANGED <<tableVars, handlerVars, byes>>

NewMedia(d) ==
    /\ pc[d] = "media"
    /\ media' = [media EXCEPT ![d] = "ready"]
    /\ Goto(d, "progress")
    /\ UNCHANGED <<portVars, tableVars, invite, session, listening, done,
                   final, byes>>

\* No route to the peer, or no MAC address of the next hop.
NewMediaFails(d) ==
    /\ pc[d] = "media"
    /\ RespondError(d)

\* 183 Session Progress and the early media (SIPREC has no media).
Progress(d) ==
    /\ pc[d] = "progress"
    /\ MaySucceed(d)
    /\ media' = [media EXCEPT ![d] = IF @ = "nil" THEN @ ELSE "early"]
    /\ Goto(d, "ringing")
    /\ UNCHANGED <<portVars, tableVars, invite, session, listening, done,
                   final, byes>>

ProgressFails(d) ==
    /\ pc[d] = "progress"
    /\ Return(d)
    /\ UNCHANGED handlerVars

-----------------------------------------------------------------------------
(* The two waits.  When done is closed and the timer has fired the select    *)
(* takes either.                                                             *)

Hangup(d) ==
    /\ pc[d] \in {"ringing", "talking"}
    /\ done[d]
    /\ Return(d)
    /\ UNCHANGED handlerVars

RingingTimeout(d) ==
    /\ pc[d] = "ringing"
    /\ \E label \in {"busy", "answer"} : Goto(d, label)   \* shouldAnswer
    /\ UNCHANGED <<portVars, tableVars, handlerVars, byes>>

Busy(d) ==
    /\ pc[d] = "busy"
    /\ \/ MaySucceed(d) /\ final' = [final EXCEPT ![d] = "busy"]
       \/ UNCHANGED final
    /\ Return(d)
    /\ UNCHANGED <<invite, session, listening, done, media>>

\* RespondSDP sends the 200 and then waits for the ACK.
Answer(d) ==
    /\ pc[d] = "answer"
    /\ MaySucceed(d)
    /\ final' = [final EXCEPT ![d] = "ok"]
    /\ Goto(d, "acking")
    /\ UNCHANGED <<portVars, tableVars, invite, session, listening, done,
                   media, byes>>

Acked(d) ==
    /\ pc[d] = "acking"
    /\ session[d] = "confirmed"
    /\ media' = [media EXCEPT ![d] = IF @ = "nil" THEN @ ELSE "answer"]
    /\ Goto(d, "talking")
    /\ UNCHANGED <<portVars, tableVars, invite, session, listening, done,
                   final, byes>>

\* The 200 could not be sent, or the transaction failed before the ACK was read.
AnswerFails(d) ==
    /\ pc[d] \in {"answer", "acking"}
    /\ Return(d)
    /\ UNCHANGED handlerVars

AnswerTimeout(d) ==
    /\ pc[d] = "talking"
    /\ Goto(d, "bye")
    /\ UNCHANGED <<portVars, tableVars, handlerVars, byes>>

Bye(d) ==
    /\ pc[d] = "bye"
    /\ \/ Open(d) /\ EndSession(d)
       \/ UNCHANGED <<session, done>>
    /\ Return(d)
    /\ UNCHANGED <<invite, listening, final, media>>

-----------------------------------------------------------------------------
(* Close *)

\* The ports and their rules first.
ClosePorts(d) ==
    /\ CloseStep(d)
    /\ UNCHANGED <<tableVars, handlerVars, byes>>

\* media.Close, dialogs.Delete and the gauge.
Unlist(d) ==
    /\ pc[d] = "unlist"
    /\ media' = [media EXCEPT ![d] = IF @ = "nil" THEN @ ELSE "closed"]
    /\ dialogs' = [dialogs EXCEPT ![CallIdOf(d)] = None]
    /\ current' = current - 1
    /\ Goto(d, "closed")
    /\ UNCHANGED <<portVars, invite, session, listening, done, final, byes>>

-----------------------------------------------------------------------------
(* The peer and the handlers of its ACK and BYE *)

\* The peer knows the dialog from the 183 on.
Known(d) == final[d] = "ok" \/ pc[d] \in {"ringing", "busy", "answer"}

\* A CANCEL before the final response; sipgo answers it and the INVITE.
PeerCancel(d) ==
    /\ session[d] = "early"
    /\ final[d] = "none"
    /\ EndSession(d)
    /\ UNCHANGED <<pc, portVars, tableVars, invite, listening, final, media,
                   byes>>

\* Nothing the peer sends arrives any more, and no response reaches it (of no
\* consequence once the handler is over).
PeerLost(d) ==
    /\ Open(d)
    /\ pc[d] \notin Over
    /\ session' = [session EXCEPT ![d] = "lost"]
    /\ UNCHANGED <<pc, portVars, tableVars, invite, listening, done, final,
                   media, byes>>

\* Uas.onAck: ReadAck of the dialog listed under the ACK's Call-ID.
OnAck(d) ==
    /\ final[d] = "ok"
    /\ session[d] # "lost"
    /\ LET e == dialogs[CallIdOf(d)] IN
          /\ e # None
          /\ session[e] = "early"
          /\ session' = [session EXCEPT ![e] = "confirmed"]
    /\ UNCHANGED <<pc, portVars, tableVars, invite, listening, done, final,
                   media, byes>>

\* Uas.onBye: 200 OK, and the end of the session of the dialog listed under
\* the Call-ID if there is one.
OnBye(d) ==
    /\ Known(d)
    /\ d \notin byes
    /\ session[d] # "lost"
    /\ byes' = byes \cup {d}
    /\ LET e == dialogs[CallIdOf(d)] IN
          IF e # None /\ session[e] # "ended"
            THEN EndSession(e)
            ELSE UNCHANGED <<session, done>>
    /\ UNCHANGED <<pc, portVars, tableVars, invite, listening, final, media>>

-----------------------------------------------------------------------------
Handler(d) ==
    \/ OnState(d) \/ Trying(d) \/ TryingFails(d) \/ BadOffer(d)
    \/ GetPort(d) \/ GetPortRefused(d) \/ Scan(d) \/ Update(d) \/ UpdateFails(d)
    \/ NewMedia(d) \/ NewMediaFails(d) \/ Progress(d) \/ ProgressFails(d)
    \/ Hangup(d) \/ RingingTimeout(d) \/ Busy(d)
    \/ Answer(d) \/ Acked(d) \/ AnswerFails(d) \/ AnswerTimeout(d) \/ Bye(d)
    \/ ClosePorts(d) \/ Unlist(d)

Peer(d) ==
    \/ NewDialogUas(d)
    \/ PeerCancel(d) \/ PeerLost(d) \/ OnAck(d) \/ OnBye(d)

\* Every INVITE has been handled.
AllClosed == (\A d \in Dialog : pc[d] = "closed") /\ UNCHANGED vars

Next == (\E d \in Dialog : Handler(d) \/ Peer(d)) \/ AllClosed

Spec == Init /\ [][Next]_vars

\* The scheduler runs the handlers and their timers fire; peers may do nothing,
\* and a scan that is not alone may go on for ever.
FairSpec ==
    /\ Spec
    /\ \A d \in Dialog : /\ WF_vars(pc[d] # "scan" /\ Handler(d))
                         /\ WF_vars(ScansAlone(d) /\ Scan(d))

-----------------------------------------------------------------------------
(* Properties *)

\* Every variable has its type.
TypeOK ==
    /\ PortsTypeOK(MaxAudio)
    /\ pc \in [Dialog -> {"new", "onstate", "trying", "getport", "scan", "rules",
                          "media", "progress", "ringing", "busy", "answer",
                          "acking", "talking", "bye"} \cup Over]
    /\ invite \in [Dialog -> [callId : CallId, offer : {"plain", "siprec"}]]
    /\ session \in [Dialog -> {"none", "early", "confirmed", "ended", "lost"}]
    /\ listening \in [Dialog -> BOOLEAN]
    /\ done \in [Dialog -> BOOLEAN]
    /\ final \in [Dialog -> {"none", "error", "busy", "ok"}]
    /\ media \in [Dialog -> {"nil", "ready", "early", "answer", "closed"}]
    /\ dialogs \in [CallId -> Dialog \cup {None}]
    /\ current \in 0 .. Cardinality(Dialog)
    /\ byes \subseteq Dialog

Live == {d \in Dialog : pc[d] \notin {"new", "closed"}}

\* The gauge counts the dialogs that are not closed; the map lists none but them,
\* and each of them unless another INVITE came with its Call-ID; done is closed by
\* the end of the session alone; and a dialog has its ports until Close frees them
\* (dialog.go:29-51, 262-298).
Consistent ==
    /\ TypeOK
    /\ current = Cardinality(Live)
    /\ \A c \in CallId : dialogs[c] # None
                        => dialogs[c] \in Live /\ CallIdOf(dialogs[c]) = c
    /\ \A d \in Live : \/ dialogs[CallIdOf(d)] = d
                      \/ \E e \in Dialog \ {d} : /\ CallIdOf(e) = CallIdOf(d)
                                                /\ pc[e] # "new"
    /\ \A d \in Dialog : done[d] => listening[d] /\ session[d] = "ended"
    /\ \A d \in Dialog : phase[d] = "open" => owned[d] = Ports(d)

\* Once every handler is over, the pool, the map of dialogs and the gauge are
\* as at the start, also when handlers shared a Call-ID (dialog.go:262-298).
CleanWhenOver ==
    (\A d \in Dialog : pc[d] \in {"new", "closed"})
        => /\ \A d \in Dialog : owned[d] = {}
           /\ \A c \in CallId : dialogs[c] = None
           /\ current = 0

\* A BYE that was answered with 200 has ended the session it was sent for, or
\* that dialog's handler is closing anyway, unless another INVITE came with its
\* Call-ID (uas.go:164-177).
ByeEndsCall ==
    \A d \in byes :
        \/ session[d] = "ended" \/ pc[d] \in Over
        \/ \E e \in Dialog \ {d} : CallIdOf(e) = CallIdOf(d) /\ pc[e] # "new"

\* While a dialog is in progress XDP counts and drops its RTP: the "kernel-level
\* packet processing for RTP media" of README.md:3.
LiveDialogHasRule ==
    \A d \in Dialog :
        pc[d] \in {"media", "progress", "ringing", "busy", "answer", "acking",
                   "talking", "bye"} => Ports(d) \X {"rtp"} \subseteq rules

\* Every INVITE's handler returns and closes its dialog, whatever the peer does
\* and whichever call fails, unless again and again it scans for a port together
\* with another handler (ua.go:138-150, dialog.go:102-143, 208-252).
HandlerReturns ==
    \A d \in Dialog :
        pc[d] # "new"
            ~> \/ pc[d] = "closed"
               \/ pc[d] = "scan" /\ \E e \in Dialog \ {d} : pc[e] = "scan"
=============================================================================
