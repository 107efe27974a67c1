-------------------------- MODULE UacDialogsProofs --------------------------
(***************************************************************************)
(* Proofs about UacDialogs, for every set of calls and of ports: the table *)
(* and the gauge that Uac.Close polls are those of the calls that are not  *)
(* closed, no call is left up at the peer but where its ACK or its BYE     *)
(* failed, a BYE ends its call, and closed calls leave nothing behind.     *)
(***************************************************************************)
EXTENDS UacDialogs, DialogPortsProofs

\* The session follows MakeCall: none before the INVITE, not confirmed before the
\* 200, and confirmed, over or lost when the ACK is due.
SessionInv(d) ==
    /\ pc[d] \in {"new", "getport", "scan", "rules", "invite"} => session[d] = "none"
    /\ pc[d] \in {"onstate", "waiting"} => session[d] # "confirmed"
    /\ pc[d] \in {"ack", "talking", "bye"} => session[d] # "invited"
    /\ done[d] => listening[d] /\ session[d] = "ended"

\* MakeCall has a context from OnState on, and cancels it where it returns.
ContextInv(d) ==
    /\ pc[d] \in {"waiting", "ack", "talking", "bye"} => ctx[d] # "none"
    /\ ctx[d] = "return" => pc[d] \in Over
    /\ media[d] \notin {"nil", "stopped"} => ctx[d] # "none"

\* A call takes its one port before it makes a rule of it.
OnePort(d) ==
    /\ pc[d] \in {"new", "getport", "scan"} => lap[d] = <<>>
    /\ pc[d] = "rules" => Len(lap[d]) = 1

\* What AnsweredCallEnds and ByeEndsCall say of d.
Ends(d) ==
    /\ pc[d] \in Over /\ Up(d) => d \in failed
    /\ d \in byes => session[d] = "ended" \/ pc[d] \in Over

CallInv(d) == SessionInv(d) /\ ContextInv(d) /\ OnePort(d) /\ Ends(d)

\* The map and the gauge have the calls that are not closed.
Gauged ==
    /\ dialogs = {d \in Dialog : pc[d] \notin {"new", "closed"}}
    /\ current = Cardinality(dialogs)

IInv ==
    /\ TypeOK
    /\ PortsInv(1)
    /\ RulesKept
    /\ Gauged
    /\ \A d \in Dialog : CallInv(d)

\* A step of call d leaves the others alone.
Alone(d) ==
    \A e \in Dialog \ {d} :
        /\ pc'[e] = pc[e] /\ lap'[e] = lap[e] /\ session'[e] = session[e]
        /\ listening'[e] = listening[e] /\ done'[e] = done[e]
        /\ ctx'[e] = ctx[e] /\ media'[e] = media[e]
        /\ (e \in byes' <=> e \in byes) /\ (e \in failed' <=> e \in failed)

\* A step of call d on its way, or at a standstill.
OnItsWay(d) ==
    \/ pc'[d] = pc[d]
    \/ pc[d] \notin Over \cup {"new"} /\ pc'[d] \notin (Over \ {"begin"}) \cup {"new"}

-----------------------------------------------------------------------------
(* What the steps of one call have in common. *)

\* The other calls keep their invariant.
LEMMA OthersKept ==
    ASSUME NEW d \in Dialog, Alone(d), \A e \in Dialog : CallInv(e), CallInv(d)'
    PROVE  \A e \in Dialog : CallInv(e)'
  <1>1. ASSUME NEW e \in Dialog \ {d}
        PROVE  CallInv(e)'
    BY DEF Alone, CallInv, SessionInv, ContextInv, OnePort, Ends, Up
  <1> QED BY <1>1

\* A call on its way moves as DialogPortsProofs has it.
LEMMA WayMoves ==
    ASSUME NEW d \in Dialog, Alone(d), OnItsWay(d)
    PROVE  Moves
  BY DEF Alone, OnItsWay, Moves, Over, Closing

\* A call on its way stays in the map and in the gauge.
LEMMA GaugeKept ==
    ASSUME Gauged, NEW d \in Dialog, Alone(d), OnItsWay(d), UNCHANGED tableVars
    PROVE  Gauged'
  BY DEF Gauged, Alone, OnItsWay, tableVars, Over, Closing

\* A step of a call on its way that takes no port and makes no rule.
LEMMA QuietStep ==
    ASSUME IInv, NEW d \in Dialog, Alone(d), OnItsWay(d),
           UNCHANGED <<portVars, tableVars>>,
           PortsTypeOK(1)' => TypeOK', CallInv(d)'
    PROVE  IInv'
  <1>1. PortsInv(1)' /\ RulesKept'
    BY WayMoves, PortsUntouched DEF IInv
  <1> QED BY <1>1, GaugeKept, OthersKept DEF IInv, PortsInv

-----------------------------------------------------------------------------
(* MakeCall. *)

\* What each action of a call on its way does to it.
LEMMA CallQuiet ==
    ASSUME IInv, NEW d \in Dialog,
           \/ GetPort(d) \/ GetPortRefused(d) \/ Invite(d) \/ InviteFails(d) \/ OnState(d)
           \/ OnProgress(d) \/ OnSuccess(d) \/ WaitAnswerFails(d)
           \/ Ack(d) \/ AckFails(d) \/ Hangup(d) \/ TalkTimeout(d) \/ Bye(d)
           \/ ByeFails(d)
    PROVE  IInv'
  <1>1. TypeOK /\ CallInv(d)
    BY DEF IInv
  <1> USE DEF CallInv, SessionInv, ContextInv, OnePort, Ends, Up, Over, Closing,
              Alone, OnItsWay, Goto, Cancel, Return, Stop, EndSession,
              callVars, tableVars, peerVars
  <1>2. CASE GetPortRefused(d)
    <2>1. Alone(d) /\ OnItsWay(d) /\ CallInv(d)'
      BY <1>1, <1>2 DEF GetPortRefused, TypeOK, portVars
    <2>2. UNCHANGED <<portVars, tableVars>> /\ (PortsTypeOK(1)' => TypeOK')
      BY <1>1, <1>2 DEF GetPortRefused, TypeOK
    <2> QED BY <2>1, <2>2, QuietStep
  <1>3. CASE Invite(d)
    <2>1. Alone(d) /\ OnItsWay(d) /\ CallInv(d)'
      BY <1>1, <1>3 DEF Invite, TypeOK, portVars
    <2>2. UNCHANGED <<portVars, tableVars>> /\ (PortsTypeOK(1)' => TypeOK')
      BY <1>1, <1>3 DEF Invite, TypeOK
    <2> QED BY <2>1, <2>2, QuietStep
  <1>4. CASE InviteFails(d)
    <2>1. Alone(d) /\ OnItsWay(d) /\ CallInv(d)'
      BY <1>1, <1>4 DEF InviteFails, TypeOK, portVars
    <2>2. UNCHANGED <<portVars, tableVars>> /\ (PortsTypeOK(1)' => TypeOK')
      BY <1>1, <1>4 DEF InviteFails, TypeOK
    <2> QED BY <2>1, <2>2, QuietStep
  <1>5. CASE OnState(d)
    <2>1. Alone(d) /\ OnItsWay(d) /\ CallInv(d)'
      BY <1>1, <1>5 DEF OnState, TypeOK, portVars
    <2>2. UNCHANGED <<portVars, tableVars>> /\ (PortsTypeOK(1)' => TypeOK')
      BY <1>1, <1>5 DEF OnState, TypeOK
    <2> QED BY <2>1, <2>2, QuietStep
  <1>6. CASE OnProgress(d)
    <2>1. Alone(d) /\ OnItsWay(d) /\ CallInv(d)'
      BY <1>1, <1>6 DEF OnProgress, TypeOK, portVars
    <2>2. UNCHANGED <<portVars, tableVars>> /\ (PortsTypeOK(1)' => TypeOK')
      BY <1>1, <1>6 DEF OnProgress, TypeOK
    <2> QED BY <2>1, <2>2, QuietStep
  <1>7. CASE OnSuccess(d)
    <2>1. Alone(d) /\ OnItsWay(d) /\ CallInv(d)'
      BY <1>1, <1>7 DEF OnSuccess, TypeOK, portVars
    <2>2. UNCHANGED <<portVars, tableVars>> /\ (PortsTypeOK(1)' => TypeOK')
      BY <1>1, <1>7 DEF OnSuccess, TypeOK
    <2> QED BY <2>1, <2>2, QuietStep
  <1>8. CASE WaitAnswerFails(d)
    <2>1. Alone(d) /\ OnItsWay(d) /\ CallInv(d)'
      BY <1>1, <1>8 DEF WaitAnswerFails, TypeOK, portVars
    <2>2. UNCHANGED <<portVars, tableVars>> /\ (PortsTypeOK(1)' => TypeOK')
      BY <1>1, <1>8 DEF WaitAnswerFails, TypeOK
    <2> QED BY <2>1, <2>2, QuietStep
  <1>9. CASE Ack(d)
    <2>1. Alone(d) /\ OnItsWay(d) /\ CallInv(d)'
      BY <1>1, <1>9 DEF Ack, TypeOK, portVars
    <2>2. UNCHANGED <<portVars, tableVars>> /\ (PortsTypeOK(1)' => TypeOK')
      BY <1>1, <1>9 DEF Ack, TypeOK
    <2> QED BY <2>1, <2>2, QuietStep
  <1>10. CASE AckFails(d)
    <2>1. Alone(d) /\ OnItsWay(d) /\ CallInv(d)'
      BY <1>1, <1>10 DEF AckFails, TypeOK, portVars
    <2>2. UNCHANGED <<portVars, tableVars>> /\ (PortsTypeOK(1)' => TypeOK')
      BY <1>1, <1>10 DEF AckFails, TypeOK
    <2> QED BY <2>1, <2>2, QuietStep
  <1>11. CASE Hangup(d)
    <2>1. Alone(d) /\ OnItsWay(d) /\ CallInv(d)'
      BY <1>1, <1>11 DEF Hangup, TypeOK, portVars
    <2>2. UNCHANGED <<portVars, tableVars>> /\ (PortsTypeOK(1)' => TypeOK')
      BY <1>1, <1>11 DEF Hangup, TypeOK
    <2> QED BY <2>1, <2>2, QuietStep
  <1>12. CASE TalkTimeout(d)
    <2>1. Alone(d) /\ OnItsWay(d) /\ CallInv(d)'
      BY <1>1, <1>12 DEF TalkTimeout, TypeOK, portVars
    <2>2. UNCHANGED <<portVars, tableVars>> /\ (PortsTypeOK(1)' => TypeOK')
      BY <1>1, <1>12 DEF TalkTimeout, TypeOK
    <2> QED BY <2>1, <2>2, QuietStep
  <1>13. CASE Bye(d)
    <2>1. Alone(d) /\ OnItsWay(d) /\ CallInv(d)'
      BY <1>1, <1>13 DEF Bye, TypeOK, portVars
    <2>2. UNCHANGED <<portVars, tableVars>> /\ (PortsTypeOK(1)' => TypeOK')
      BY <1>1, <1>13 DEF Bye, TypeOK
    <2> QED BY <2>1, <2>2, QuietStep
  <1>14. CASE ByeFails(d)
    <2>1. Alone(d) /\ OnItsWay(d) /\ CallInv(d)'
      BY <1>1, <1>14 DEF ByeFails, TypeOK, portVars
    <2>2. UNCHANGED <<portVars, tableVars>> /\ (PortsTypeOK(1)' => TypeOK')
      BY <1>1, <1>14 DEF ByeFails, TypeOK
    <2> QED BY <2>1, <2>2, QuietStep
  <1>15. CASE GetPort(d)
    <2>1. Alone(d) /\ OnItsWay(d) /\ CallInv(d)'
      BY <1>1, <1>15 DEF GetPort, BeginScan, TypeOK, portVars
    <2>2. UNCHANGED <<portVars, tableVars>> /\ (PortsTypeOK(1)' => TypeOK')
      BY <1>1, <1>15 DEF GetPort, BeginScan, TypeOK
    <2> QED BY <2>1, <2>2, QuietStep
  <1> QED BY <1>2, <1>3, <1>4, <1>5, <1>6, <1>7, <1>8, <1>9, <1>10, <1>11, <1>12, <1>13,
             <1>14, <1>15

\* getPort and ebpf.Update: the port is one the pool has, the keys are the port's.
LEMMA CallPorts ==
    ASSUME IInv, NEW d \in Dialog, Scan(d) \/ Update(d) \/ UpdateFails(d)
    PROVE  IInv'
  <1>1. TypeOK /\ CallInv(d) /\ PortsInv(1) /\ RulesKept
    BY DEF IInv
  <1> USE DEF CallInv, SessionInv, ContextInv, OnePort, Ends, Up, Over, Closing,
              Alone, OnItsWay, Goto, callVars, tableVars, peerVars
  <1>2. CASE Scan(d)
    <2>1. lap[d] = <<>> /\ Len(lap[d]) = 0 /\ pc[d] = "scan"
      BY <1>1, <1>2, EmptySeq DEF Scan, TakePort
    <2>2. Moves
      BY <1>1, <1>2 DEF Scan, TakePort, Moves, TypeOK
    <2>3. /\ PortsInv(1)' /\ RulesKept'
          /\ Len(lap'[d]) = 1 /\ \A e \in Dialog \ {d} : lap'[e] = lap[e]
      <3>1. Len(lap[d]) < 1
        BY <2>1
      <3>2. TakePort(d)
        BY <1>2 DEF Scan
      <3>3. /\ PortsInv(1)' /\ RulesKept'
            /\ Len(lap'[d]) = Len(lap[d]) + 1
            /\ \A e \in Dialog \ {d} : lap'[e] = lap[e]
        BY <1>1, <2>2, <3>1, <3>2, PortTaken
      <3> QED BY <2>1, <3>3
    <2>4. Alone(d) /\ OnItsWay(d) /\ CallInv(d)'
      BY <1>1, <1>2, <2>1, <2>3 DEF Scan, TypeOK
    <2>5. TypeOK' /\ UNCHANGED tableVars
      BY <1>1, <1>2, <2>1, <2>3 DEF Scan, TypeOK, PortsInv
    <2> QED BY <2>3, <2>4, <2>5, GaugeKept, OthersKept DEF IInv
  <1>3. CASE Update(d) \/ UpdateFails(d)
    <2>1. /\ UpdateRules(RuleKeys(d)) \/ UpdateStops(d, RuleKeys(d))
          /\ pc[d] = "rules" /\ Len(lap[d]) = 1
      BY <1>1, <1>3 DEF Update, UpdateFails
    <2>2. lap[d][1] \in Ports(d)
      BY <1>1, <2>1, PortsTyped DEF PortsInv
    <2>3. RuleKeys(d) \in Seq(Ports(d) \X {"rtp", "rtcp"})
      BY <2>2 DEF RuleKeys
    <2>4. Alone(d) /\ OnItsWay(d) /\ CallInv(d)'
      BY <1>1, <1>3 DEF Update, UpdateFails, UpdateRules, UpdateStops, TypeOK
    <2>5. PortsInv(1)' /\ RulesKept'
      BY <1>1, <2>1, <2>3, <2>4, WayMoves, RulesUpdated
    <2>6. TypeOK' /\ UNCHANGED tableVars
      BY <1>1, <1>3, <2>5 DEF Update, UpdateFails, TypeOK, PortsInv
    <2> QED BY <2>4, <2>5, <2>6, GaugeKept, OthersKept DEF IInv
  <1> QED BY <1>2, <1>3

\* NewDialogUac puts the call into the map and the gauge; the end of Close takes it
\* out of both.
LEMMA CallListed ==
    ASSUME IInv, NEW d \in Dialog, NewDialogUac(d) \/ Unlist(d)
    PROVE  IInv'
  <1>1. TypeOK /\ CallInv(d) /\ PortsInv(1) /\ RulesKept /\ Gauged
    BY DEF IInv
  <1>2. Alone(d) /\ Moves /\ CallInv(d)'
    BY <1>1 DEF NewDialogUac, Unlist, Stop, callVars, peerVars, TypeOK, portVars, CallInv, SessionInv,
           ContextInv, OnePort, Ends, Up, Over, Closing, Alone, Moves, Goto
  <1>3. PortsInv(1)' /\ RulesKept'
    BY <1>1, <1>2, PortsUntouched DEF NewDialogUac, Unlist
  <1>4. IsFiniteSet(dialogs) /\ dialogs' \subseteq Dialog
    BY <1>1, DialogsFinite DEF TypeOK, NewDialogUac, Unlist
  <1>5. Gauged'
    <2>1. CASE NewDialogUac(d)
      <3>1. d \notin dialogs /\ dialogs' = dialogs \cup {d} /\ current' = current + 1
        BY <1>1, <2>1 DEF NewDialogUac, Gauged
      <3>2. dialogs' = {e \in Dialog : pc'[e] \notin {"new", "closed"}}
        BY <1>1, <1>2, <2>1, <3>1 DEF NewDialogUac, Gauged, Alone, Goto, TypeOK
      <3>3. Cardinality(dialogs') = current'
        BY <1>1, <1>4, <3>1, FS_AddElement DEF Gauged
      <3> QED BY <3>2, <3>3 DEF Gauged
    <2>2. CASE Unlist(d)
      <3>1. d \in dialogs /\ dialogs' = dialogs \ {d} /\ current' = current - 1
        BY <1>1, <2>2 DEF Unlist, Gauged
      <3>2. dialogs' = {e \in Dialog : pc'[e] \notin {"new", "closed"}}
        BY <1>1, <1>2, <2>2, <3>1 DEF Unlist, Gauged, Alone, Goto, TypeOK
      <3>3. Cardinality(dialogs') = current'
        BY <1>1, <1>4, <3>1, FS_RemoveElement DEF Gauged
      <3> QED BY <3>2, <3>3 DEF Gauged
    <2> QED BY <2>1, <2>2
  <1>6. current' \in 0 .. Cardinality(Dialog)
    BY <1>4, <1>5, DialogsFinite DEF Gauged
  <1>7. TypeOK'
    BY <1>1, <1>3, <1>4, <1>6
       DEF TypeOK, PortsInv, NewDialogUac, Unlist, Stop, Goto, callVars, peerVars, Over,
           Closing
  <1> QED BY <1>2, <1>3, <1>5, <1>7, OthersKept DEF IInv

\* Close frees the port and deletes its rules, and leaves the call alone.
LEMMA CallCloses ==
    ASSUME IInv, NEW d \in Dialog, ClosePorts(d)
    PROVE  IInv'
  <1>1. TypeOK /\ CallInv(d) /\ PortsInv(1) /\ RulesKept
    BY DEF IInv
  <1> DEFINE L == {"new", "getport", "scan", "rules", "invite", "onstate",
                   "waiting", "ack", "talking", "bye"} \cup Over
  <1>2. pc \in [Dialog -> L] /\ Closing \subseteq L
    BY <1>1 DEF TypeOK, Over
  <1>3. /\ PortsInv(1)' /\ RulesKept'
        /\ pc[d] \in Closing /\ pc'[d] \in Closing
        /\ \A e \in Dialog \ {d} : pc'[e] = pc[e]
        /\ UNCHANGED lap
        /\ pc' \in [Dialog -> L \cup Closing]
    BY <1>1, <1>2, PortsClosed DEF ClosePorts
  <1>4. UNCHANGED <<tableVars, callVars, peerVars>>
    BY DEF ClosePorts
  <1>5. TypeOK'
    BY <1>1, <1>2, <1>3, <1>4 DEF TypeOK, PortsInv, tableVars, callVars, peerVars
  <1>6. Alone(d) /\ CallInv(d)'
    BY <1>1, <1>3, <1>4 DEF Alone, callVars, peerVars, CallInv, SessionInv, ContextInv, OnePort,
       Ends, Up, Over, Closing
  <1>7. Gauged'
    BY <1>3, <1>4 DEF IInv, Gauged, tableVars, Closing
  <1> QED BY <1>3, <1>5, <1>6, <1>7, OthersKept DEF IInv

-----------------------------------------------------------------------------
(* The peer. *)

\* A BYE, or the loss of the peer, finds the call wherever it is.
LEMMA PeerKeeps ==
    ASSUME IInv, NEW d \in Dialog, OnBye(d) \/ PeerLost(d)
    PROVE  IInv'
  <1>1. TypeOK /\ CallInv(d) /\ Gauged
    BY DEF IInv
  <1> USE DEF CallInv, SessionInv, ContextInv, OnePort, Ends, Up, Over, Closing,
              Alone, OnItsWay, EndSession, peerVars
  <1>2. CASE OnBye(d)
    <2>1. d \notin dialogs => pc[d] \in Over
      BY <1>1, <1>2 DEF OnBye, Gauged
    <2>2. Alone(d) /\ OnItsWay(d) /\ CallInv(d)'
      BY <1>1, <1>2, <2>1 DEF OnBye, TypeOK, portVars
    <2>3. UNCHANGED <<portVars, tableVars>> /\ (PortsTypeOK(1)' => TypeOK')
      BY <1>1, <1>2 DEF OnBye, TypeOK, tableVars
    <2> QED BY <2>2, <2>3, QuietStep
  <1>3. CASE PeerLost(d)
    <2>1. Alone(d) /\ OnItsWay(d) /\ CallInv(d)'
      BY <1>1, <1>3 DEF PeerLost, TypeOK, portVars
    <2>2. UNCHANGED <<portVars, tableVars>> /\ (PortsTypeOK(1)' => TypeOK')
      BY <1>1, <1>3 DEF PeerLost, TypeOK, tableVars
    <2> QED BY <2>1, <2>2, QuietStep
  <1> QED BY <1>2, <1>3

-----------------------------------------------------------------------------
(* The theorems. *)

\* The fields of the UA before the first call.
LEMMA InvInit == Init => IInv
  <1> SUFFICES ASSUME Init PROVE IInv
    OBVIOUS
  <1>1. PortsInv(1) /\ RulesKept
    BY PortsStart DEF Init
  <1>2. dialogs = {} /\ current = 0 /\ Cardinality({}) = 0
    BY FS_EmptySet DEF Init
  <1>3. Gauged
    BY <1>2 DEF Init, Gauged
  <1>4. TypeOK
    <2>1. current \in 0 .. Cardinality(Dialog)
      BY <1>2, DialogsFinite
    <2> QED BY <1>1, <2>1 DEF Init, TypeOK, PortsInv
  <1>5. \A d \in Dialog : CallInv(d)
    BY DEF Init, PortsInit, CallInv, SessionInv, ContextInv, OnePort, Ends, Up, Over, Closing
  <1> QED BY <1>1, <1>3, <1>4, <1>5 DEF IInv

\* The inductive invariant holds in every reachable state.
THEOREM Invariant == Spec => []IInv
  <1>1. IInv /\ [Next]_vars => IInv'
    <2> SUFFICES ASSUME IInv, [Next]_vars PROVE IInv'
      OBVIOUS
    <2>1. CASE UNCHANGED vars
      <3>1. PortsInv(1)' /\ RulesKept'
        BY <2>1, PortsUntouched DEF IInv, vars, Moves
      <3>2. TypeOK' /\ Gauged'
        BY <2>1, <3>1 DEF IInv, vars, TypeOK, Gauged, callVars, tableVars, peerVars, PortsInv
      <3>3. \A d \in Dialog : CallInv(d)'
        BY <2>1 DEF IInv, vars, callVars, peerVars, portVars, CallInv, SessionInv, ContextInv, OnePort, Ends, Up
      <3> QED BY <3>1, <3>2, <3>3 DEF IInv
    <2> QED BY <2>1, CallQuiet, CallPorts, CallListed, CallCloses, PeerKeeps
            DEF Next, Call, AllClosed
  <1> QED BY <1>1, InvInit, PTL DEF Spec

\* The gauge and the map have the calls that are not closed, done is closed by the
\* end of the session alone, a call has its port until Close frees it, and media
\* only with a context (dialog.go:312-325, 355-364, 463-492).
THEOREM TableExact == Spec => []Consistent
  <1>1. IInv => Consistent
    BY DEF IInv, Consistent, PortsInv, PhaseInv, Gauged, CallInv, SessionInv, ContextInv
  <1> QED BY <1>1, Invariant, PTL

\* No way through MakeCall gives an answered call up without an attempt to end it: a
\* call that is left up is one whose ACK or BYE failed (dialog.go:357-392).
THEOREM AnsweredCallsEnd == Spec => []AnsweredCallEnds
  <1>1. IInv => AnsweredCallEnds
    BY DEF IInv, AnsweredCallEnds, CallInv, Ends
  <1> QED BY <1>1, Invariant, PTL

\* A BYE that was answered with 200 ends its call (uac.go:179-192).
THEOREM ByesEnd == Spec => []ByeEndsCall
  <1>1. IInv => ByeEndsCall
    BY DEF IInv, ByeEndsCall, TypeOK, CallInv, Ends
  <1> QED BY <1>1, Invariant, PTL

\* Once every goroutine is over nothing is left of the calls (dialog.go:463-492).
THEOREM CleanAtTheEnd == Spec => []CleanWhenOver
  <1>1. IInv => CleanWhenOver
    <2> SUFFICES ASSUME IInv, \A d \in Dialog : pc[d] \in {"new", "closed"}
                 PROVE  (\A d \in Dialog : owned[d] = {}) /\ dialogs = {} /\ current = 0
      BY DEF CleanWhenOver
    <2>1. ASSUME NEW d \in Dialog
          PROVE  owned[d] = {}
      <3>1. PhaseInv(d) /\ OnePort(d) /\ phase[d] \in {"open", "closing", "closed"}
        BY DEF IInv, PortsInv, PortsTypeOK, CallInv
      <3>2. Range(<<>>) = {}
        BY DEF Range
      <3> QED BY <3>1, <3>2 DEF PhaseInv, OnePort, Ports, Over, Closing
    <2>2. dialogs = {}
      BY DEF IInv, Gauged
    <2> QED BY <2>1, <2>2, FS_EmptySet DEF IInv, Gauged
  <1> QED BY <1>1, Invariant, PTL

\* No rule of a call's port is left in the kernel but by a call for which the map
\* refused a lookup or a deletion: a call has one port, so its BatchDelete does not
\* stop half way at the key of another (dialog.go:463-470, ebpf.go:84-117).
THEOREM RulesHaveOwners == Spec => []RulesOwned
  BY Invariant, KeptIsOwned, PTL DEF IInv
=============================================================================
