-------------------------- MODULE UasDialogsProofs --------------------------
(***************************************************************************)
(* Proofs about UasDialogs, for every set of dialogs, of Call-IDs and of   *)
(* ports, and whatever the INVITEs come with, be it one Call-ID for all:   *)
(* the table and the gauge are those of the dialogs that are served, a     *)
(* closed dialog has left nothing behind, no rule stays in the kernel but  *)
(* as RulesOwned says, and a BYE ends the call it is sent for, unless that *)
(* call shares its Call-ID with another.                                   *)
(***************************************************************************)
EXTENDS UasDialogs, DialogPortsProofs

\* A handler that has not begun has left no trace; the end of the session alone
\* closes done.
Begun(d) ==
    /\ pc[d] = "new" => session[d] = "none" /\ ~listening[d] /\ final[d] = "none"
    /\ done[d] => listening[d] /\ session[d] = "ended"

\* A plain offer takes one port, a SIPREC offer MaxAudio at most.
Offered(d) ==
    /\ pc[d] \in {"new", "onstate", "trying"} => lap[d] = <<>>
    /\ pc[d] \in {"getport", "scan"} => /\ Len(lap[d]) < MaxAudio
                                        /\ ~Siprec(d) => lap[d] = <<>>
    /\ pc[d] = "rules" /\ ~Siprec(d) => Len(lap[d]) = 1

HandlerInv(d) == Begun(d) /\ Offered(d)

\* The gauge counts the dialogs being served, the map lists only them, and it lists
\* each unless another INVITE came with its Call-ID.
Listed ==
    /\ current = Cardinality(Live)
    /\ \A c \in CallId : dialogs[c] # None
                        => dialogs[c] \in Live /\ CallIdOf(dialogs[c]) = c
    /\ \A d \in Live : \/ dialogs[CallIdOf(d)] = d
                      \/ \E e \in Dialog \ {d} : /\ CallIdOf(e) = CallIdOf(d)
                                                /\ pc[e] # "new"

\* A BYE is answered for a handler that has begun, and ends the call it is sent for.
ByesAnswered ==
    /\ \A d \in byes : pc[d] # "new"
    /\ ByeEndsCall

IInv ==
    /\ TypeOK
    /\ PortsInv(MaxAudio)
    /\ RulesKept
    /\ Listed
    /\ \A d \in Dialog : HandlerInv(d)
    /\ ByesAnswered

\* A step of dialog d leaves the others alone.
Alone(d) ==
    /\ UNCHANGED invite
    /\ \A e \in Dialog \ {d} :
          /\ pc'[e] = pc[e] /\ lap'[e] = lap[e]
          /\ session'[e] = session[e] /\ listening'[e] = listening[e]
          /\ done'[e] = done[e] /\ final'[e] = final[e]

\* A step of a handler on its way, or at a standstill; its session stays ended.
OnItsWay(d) ==
    /\ \/ pc'[d] = pc[d]
       \/ pc[d] \notin Over \cup {"new"} /\ pc'[d] \notin (Over \ {"begin"}) \cup {"new"}
    /\ session[d] = "ended" => session'[d] = "ended"

-----------------------------------------------------------------------------
(* What the steps of one dialog have in common. *)

\* A dialog has a Call-ID, which is its INVITE's for good.
LEMMA CallIdKept ==
    ASSUME NEW d \in Dialog
    PROVE  /\ TypeOK => CallIdOf(d) \in CallId
           /\ UNCHANGED invite => CallIdOf(d)' = CallIdOf(d)
  BY DEF TypeOK, CallIdOf

\* The other handlers keep their invariant.
LEMMA OthersKept ==
    ASSUME NEW d \in Dialog, Alone(d), \A e \in Dialog : HandlerInv(e), HandlerInv(d)'
    PROVE  \A e \in Dialog : HandlerInv(e)'
  <1>1. ASSUME NEW e \in Dialog \ {d}
        PROVE  HandlerInv(e)'
    BY DEF Alone, HandlerInv, Begun, Offered, Siprec
  <1> QED BY <1>1

\* A handler on its way moves as DialogPortsProofs has it.
LEMMA WayMoves ==
    ASSUME NEW d \in Dialog, Alone(d), OnItsWay(d)
    PROVE  Moves
  BY DEF Alone, OnItsWay, Moves, Over, Closing

\* A handler on its way stays in the map and in the gauge.
LEMMA ListKept ==
    ASSUME Listed, NEW d \in Dialog, Alone(d), OnItsWay(d), UNCHANGED tableVars
    PROVE  Listed'
  <1>1. UNCHANGED <<dialogs, current>>
    BY DEF tableVars
  <1>2. Live' = Live
    BY DEF Live, Alone, OnItsWay, Over, Closing
  <1>3. \A e \in Dialog : pc[e] # "new" => pc'[e] # "new"
    BY DEF Alone, OnItsWay
  <1>4. UNCHANGED invite
    BY DEF Alone
  <1> QED BY <1>1, <1>2, <1>3, <1>4 DEF Listed, CallIdOf

\* The BYEs that were answered stay answered.
LEMMA ByesKept ==
    ASSUME ByesAnswered, NEW d \in Dialog, Alone(d), OnItsWay(d), byes \subseteq Dialog,
           UNCHANGED byes
    PROVE  ByesAnswered'
  BY DEF ByesAnswered, ByeEndsCall, CallIdOf, Alone, OnItsWay, Over, Closing

\* A step of a handler on its way that takes no port and makes no rule.
LEMMA QuietStep ==
    ASSUME IInv, NEW d \in Dialog, Alone(d), OnItsWay(d),
           UNCHANGED <<portVars, tableVars, byes>>,
           PortsTypeOK(MaxAudio)' => TypeOK', HandlerInv(d)'
    PROVE  IInv'
  <1>1. PortsInv(MaxAudio)' /\ RulesKept'
    BY WayMoves, PortsUntouched, MaxAudioAssumption DEF IInv
  <1> QED BY <1>1, ListKept, OthersKept, ByesKept DEF IInv, PortsInv, TypeOK

-----------------------------------------------------------------------------
(* onInvite. *)

\* The handler up to the media of the offer, but for its ports.
LEMMA OfferHandled ==
    ASSUME IInv, NEW d \in Dialog,
           OnState(d) \/ Trying(d) \/ TryingFails(d) \/ BadOffer(d) \/ GetPort(d)
           \/ GetPortRefused(d) \/ NewMedia(d) \/ NewMediaFails(d)
    PROVE  IInv'
  <1>1. TypeOK /\ HandlerInv(d)
    BY DEF IInv
  <1> USE DEF HandlerInv, Begun, Offered, Siprec, Over,
              Closing, Alone, OnItsWay, Goto, Return, RespondError, EndSession,
              handlerVars, tableVars
  <1>2. CASE OnState(d)
    <2>1. Alone(d) /\ OnItsWay(d) /\ HandlerInv(d)'
      BY <1>1, <1>2 DEF OnState, TypeOK, portVars
    <2>2. UNCHANGED <<portVars, tableVars, byes>> /\ (PortsTypeOK(MaxAudio)' => TypeOK')
      BY <1>1, <1>2 DEF OnState, TypeOK
    <2> QED BY <2>1, <2>2, QuietStep
  <1>3. CASE Trying(d)
    <2>1. Goto(d, "getport") \/ (Siprec(d) /\ Goto(d, "rules"))
      BY <1>3 DEF Trying
    <2>2. lap[d] = <<>> /\ Len(lap[d]) = 0 /\ 0 < MaxAudio
      BY <1>1, <1>3, EmptySeq, MaxAudioAssumption DEF Trying
    <2>3. pc[d] = "trying" /\ UNCHANGED <<lap, invite, session, listening, done, final>>
      BY <1>3 DEF Trying, portVars
    <2>4. Alone(d) /\ OnItsWay(d) /\ HandlerInv(d)'
      BY <1>1, <2>1, <2>2, <2>3 DEF TypeOK
    <2>5. UNCHANGED <<portVars, tableVars, byes>> /\ (PortsTypeOK(MaxAudio)' => TypeOK')
      BY <1>1, <1>3, <2>1 DEF Trying, TypeOK
    <2> QED BY <2>4, <2>5, QuietStep
  <1>4. CASE TryingFails(d)
    <2>1. Alone(d) /\ OnItsWay(d) /\ HandlerInv(d)'
      BY <1>1, <1>4 DEF TryingFails, TypeOK, portVars
    <2>2. UNCHANGED <<portVars, tableVars, byes>> /\ (PortsTypeOK(MaxAudio)' => TypeOK')
      BY <1>1, <1>4 DEF TryingFails, TypeOK
    <2> QED BY <2>1, <2>2, QuietStep
  <1>5. CASE BadOffer(d)
    <2>1. Alone(d) /\ OnItsWay(d) /\ HandlerInv(d)'
      BY <1>1, <1>5 DEF BadOffer, TypeOK, portVars
    <2>2. UNCHANGED <<portVars, tableVars, byes>> /\ (PortsTypeOK(MaxAudio)' => TypeOK')
      BY <1>1, <1>5 DEF BadOffer, TypeOK
    <2> QED BY <2>1, <2>2, QuietStep
  <1>6. CASE GetPortRefused(d)
    <2>1. Alone(d) /\ OnItsWay(d) /\ HandlerInv(d)'
      BY <1>1, <1>6 DEF GetPortRefused, TypeOK, portVars
    <2>2. UNCHANGED <<portVars, tableVars, byes>> /\ (PortsTypeOK(MaxAudio)' => TypeOK')
      BY <1>1, <1>6 DEF GetPortRefused, TypeOK
    <2> QED BY <2>1, <2>2, QuietStep
  <1>7. CASE NewMedia(d)
    <2>1. Alone(d) /\ OnItsWay(d) /\ HandlerInv(d)'
      BY <1>1, <1>7 DEF NewMedia, TypeOK, portVars
    <2>2. UNCHANGED <<portVars, tableVars, byes>> /\ (PortsTypeOK(MaxAudio)' => TypeOK')
      BY <1>1, <1>7 DEF NewMedia, TypeOK
    <2> QED BY <2>1, <2>2, QuietStep
  <1>8. CASE NewMediaFails(d)
    <2>1. Alone(d) /\ OnItsWay(d) /\ HandlerInv(d)'
      BY <1>1, <1>8 DEF NewMediaFails, TypeOK, portVars
    <2>2. UNCHANGED <<portVars, tableVars, byes>> /\ (PortsTypeOK(MaxAudio)' => TypeOK')
      BY <1>1, <1>8 DEF NewMediaFails, TypeOK
    <2> QED BY <2>1, <2>2, QuietStep
  <1>9. CASE GetPort(d)
    <2>1. Alone(d) /\ OnItsWay(d) /\ HandlerInv(d)'
      BY <1>1, <1>9 DEF GetPort, BeginScan, TypeOK, portVars
    <2>2. UNCHANGED <<portVars, tableVars, byes>> /\ (PortsTypeOK(MaxAudio)' => TypeOK')
      BY <1>1, <1>9 DEF GetPort, BeginScan, TypeOK
    <2> QED BY <2>1, <2>2, QuietStep
  <1> QED BY <1>2, <1>3, <1>4, <1>5, <1>6, <1>7, <1>8, <1>9

\* From the 183 to the final response.
LEMMA CallHandled ==
    ASSUME IInv, NEW d \in Dialog,
           Progress(d) \/ ProgressFails(d) \/ Hangup(d) \/ RingingTimeout(d) \/ Busy(d) \/ Answer(d)
    PROVE  IInv'
  <1>1. TypeOK /\ HandlerInv(d)
    BY DEF IInv
  <1> USE DEF HandlerInv, Begun, Offered, Siprec, Over,
              Closing, Alone, OnItsWay, Goto, Return, RespondError, EndSession,
              handlerVars, tableVars
  <1>2. CASE Progress(d)
    <2>1. Alone(d) /\ OnItsWay(d) /\ HandlerInv(d)'
      BY <1>1, <1>2 DEF Progress, TypeOK, portVars
    <2>2. UNCHANGED <<portVars, tableVars, byes>> /\ (PortsTypeOK(MaxAudio)' => TypeOK')
      BY <1>1, <1>2 DEF Progress, TypeOK
    <2> QED BY <2>1, <2>2, QuietStep
  <1>3. CASE ProgressFails(d)
    <2>1. Alone(d) /\ OnItsWay(d) /\ HandlerInv(d)'
      BY <1>1, <1>3 DEF ProgressFails, TypeOK, portVars
    <2>2. UNCHANGED <<portVars, tableVars, byes>> /\ (PortsTypeOK(MaxAudio)' => TypeOK')
      BY <1>1, <1>3 DEF ProgressFails, TypeOK
    <2> QED BY <2>1, <2>2, QuietStep
  <1>4. CASE Hangup(d)
    <2>1. Alone(d) /\ OnItsWay(d) /\ HandlerInv(d)'
      BY <1>1, <1>4 DEF Hangup, TypeOK, portVars
    <2>2. UNCHANGED <<portVars, tableVars, byes>> /\ (PortsTypeOK(MaxAudio)' => TypeOK')
      BY <1>1, <1>4 DEF Hangup, TypeOK
    <2> QED BY <2>1, <2>2, QuietStep
  <1>5. CASE RingingTimeout(d)
    <2>1. Alone(d) /\ OnItsWay(d) /\ HandlerInv(d)'
      BY <1>1, <1>5 DEF RingingTimeout, TypeOK, portVars
    <2>2. UNCHANGED <<portVars, tableVars, byes>> /\ (PortsTypeOK(MaxAudio)' => TypeOK')
      BY <1>1, <1>5 DEF RingingTimeout, TypeOK
    <2> QED BY <2>1, <2>2, QuietStep
  <1>6. CASE Busy(d)
    <2>1. Alone(d) /\ OnItsWay(d) /\ HandlerInv(d)'
      BY <1>1, <1>6 DEF Busy, TypeOK, portVars
    <2>2. UNCHANGED <<portVars, tableVars, byes>> /\ (PortsTypeOK(MaxAudio)' => TypeOK')
      BY <1>1, <1>6 DEF Busy, TypeOK
    <2> QED BY <2>1, <2>2, QuietStep
  <1>7. CASE Answer(d)
    <2>1. Alone(d) /\ OnItsWay(d) /\ HandlerInv(d)'
      BY <1>1, <1>7 DEF Answer, TypeOK, portVars
    <2>2. UNCHANGED <<portVars, tableVars, byes>> /\ (PortsTypeOK(MaxAudio)' => TypeOK')
      BY <1>1, <1>7 DEF Answer, TypeOK
    <2> QED BY <2>1, <2>2, QuietStep
  <1> QED BY <1>2, <1>3, <1>4, <1>5, <1>6, <1>7

\* From the ACK to the BYE, and a peer that cancels or is lost.
LEMMA TalkHandled ==
    ASSUME IInv, NEW d \in Dialog,
           Acked(d) \/ AnswerFails(d) \/ AnswerTimeout(d) \/ Bye(d) \/ PeerCancel(d) \/ PeerLost(d)
    PROVE  IInv'
  <1>1. TypeOK /\ HandlerInv(d)
    BY DEF IInv
  <1> USE DEF HandlerInv, Begun, Offered, Siprec, Over,
              Closing, Alone, OnItsWay, Goto, Return, RespondError, EndSession,
              handlerVars, tableVars
  <1>2. CASE Acked(d)
    <2>1. Alone(d) /\ OnItsWay(d) /\ HandlerInv(d)'
      BY <1>1, <1>2 DEF Acked, TypeOK, portVars
    <2>2. UNCHANGED <<portVars, tableVars, byes>> /\ (PortsTypeOK(MaxAudio)' => TypeOK')
      BY <1>1, <1>2 DEF Acked, TypeOK
    <2> QED BY <2>1, <2>2, QuietStep
  <1>3. CASE AnswerFails(d)
    <2>1. Alone(d) /\ OnItsWay(d) /\ HandlerInv(d)'
      BY <1>1, <1>3 DEF AnswerFails, TypeOK, portVars
    <2>2. UNCHANGED <<portVars, tableVars, byes>> /\ (PortsTypeOK(MaxAudio)' => TypeOK')
      BY <1>1, <1>3 DEF AnswerFails, TypeOK
    <2> QED BY <2>1, <2>2, QuietStep
  <1>4. CASE AnswerTimeout(d)
    <2>1. Alone(d) /\ OnItsWay(d) /\ HandlerInv(d)'
      BY <1>1, <1>4 DEF AnswerTimeout, TypeOK, portVars
    <2>2. UNCHANGED <<portVars, tableVars, byes>> /\ (PortsTypeOK(MaxAudio)' => TypeOK')
      BY <1>1, <1>4 DEF AnswerTimeout, TypeOK
    <2> QED BY <2>1, <2>2, QuietStep
  <1>5. CASE Bye(d)
    <2>1. Alone(d) /\ OnItsWay(d) /\ HandlerInv(d)'
      BY <1>1, <1>5 DEF Bye, TypeOK, portVars
    <2>2. UNCHANGED <<portVars, tableVars, byes>> /\ (PortsTypeOK(MaxAudio)' => TypeOK')
      BY <1>1, <1>5 DEF Bye, TypeOK
    <2> QED BY <2>1, <2>2, QuietStep
  <1>6. CASE PeerCancel(d)
    <2>1. Alone(d) /\ OnItsWay(d) /\ HandlerInv(d)'
      BY <1>1, <1>6 DEF PeerCancel, TypeOK, portVars
    <2>2. UNCHANGED <<portVars, tableVars, byes>> /\ (PortsTypeOK(MaxAudio)' => TypeOK')
      BY <1>1, <1>6 DEF PeerCancel, TypeOK
    <2> QED BY <2>1, <2>2, QuietStep
  <1>7. CASE PeerLost(d)
    <2>1. Alone(d) /\ OnItsWay(d) /\ HandlerInv(d)'
      BY <1>1, <1>7 DEF PeerLost, Open, TypeOK, portVars
    <2>2. UNCHANGED <<portVars, tableVars, byes>> /\ (PortsTypeOK(MaxAudio)' => TypeOK')
      BY <1>1, <1>7 DEF PeerLost, TypeOK
    <2> QED BY <2>1, <2>2, QuietStep
  <1> QED BY <1>2, <1>3, <1>4, <1>5, <1>6, <1>7

\* getPort and ebpf.Update: the ports are ones the pool has, the keys are theirs.
LEMMA PortsHandled ==
    ASSUME IInv, NEW d \in Dialog, Scan(d) \/ Update(d) \/ UpdateFails(d)
    PROVE  IInv'
  <1>1. TypeOK /\ HandlerInv(d) /\ PortsInv(MaxAudio) /\ RulesKept
    BY DEF IInv
  <1> USE MaxAudioAssumption
  <1> USE DEF HandlerInv, Begun, Offered, Siprec, Over, Closing, Alone, OnItsWay,
              Goto, handlerVars, tableVars
  <1>2. CASE Scan(d)
    <2>1. TakePort(d) /\ Len(lap[d]) < MaxAudio /\ pc[d] = "scan"
          /\ UNCHANGED <<invite, session, listening, done, final, media, byes, tableVars>>
      <3>1. TakePort(d) /\ pc[d] = "scan"
        BY <1>2 DEF Scan, TakePort
      <3>2. UNCHANGED <<invite, session, listening, done, final, media, byes, tableVars>>
        BY <1>2 DEF Scan
      <3>3. Len(lap[d]) < MaxAudio
        BY <1>1, <3>1
      <3> QED BY <3>1, <3>2, <3>3
    <2>2. \/ Goto(d, "rules")
          \/ Siprec(d) /\ Len(lap'[d]) < MaxAudio /\ Goto(d, "getport")
      BY <1>2 DEF Scan
    <2>3. Moves
      BY <1>1, <2>1, <2>2 DEF Moves, TypeOK
    <2>4. /\ PortsInv(MaxAudio)' /\ RulesKept'
          /\ Len(lap'[d]) = Len(lap[d]) + 1 /\ \A e \in Dialog \ {d} : lap'[e] = lap[e]
      BY <1>1, <2>1, <2>3, PortTaken
    <2>5. ~Siprec(d) => Len(lap'[d]) = 1
      BY <1>1, <2>1, <2>4, EmptySeq
    <2>6. Alone(d) /\ OnItsWay(d)
      BY <1>1, <2>1, <2>2, <2>4 DEF TypeOK
    <2>7. HandlerInv(d)'
      BY <1>1, <2>1, <2>2, <2>5 DEF TypeOK
    <2>8. TypeOK'
      BY <1>1, <2>1, <2>2, <2>4 DEF TypeOK, PortsInv
    <2>9. UNCHANGED tableVars /\ UNCHANGED byes
      BY <2>1
    <2>10. Listed'
      BY <2>6, <2>9, ListKept DEF IInv
    <2>11. \A e \in Dialog : HandlerInv(e)'
      BY <2>6, <2>7, OthersKept DEF IInv
    <2>12. ByesAnswered'
      BY <2>6, <2>9, ByesKept DEF IInv, TypeOK
    <2> QED BY <2>4, <2>8, <2>10, <2>11, <2>12 DEF IInv
  <1>3. CASE Update(d) \/ UpdateFails(d)
    <2>1. /\ UpdateRules(RuleKeys(d)) \/ UpdateStops(d, RuleKeys(d))
          /\ pc[d] = "rules" /\ (~Siprec(d) => Len(lap[d]) = 1)
      BY <1>1, <1>3 DEF Update, UpdateFails
    <2>2. /\ Ports(d) = {lap[d][i] : i \in 1 .. Len(lap[d])}
          /\ DOMAIN lap[d] = 1 .. Len(lap[d]) /\ Len(lap[d]) \in Nat
      <3>1. lap[d] \in Seq(Port) /\ Ports(d) = {lap[d][i] : i \in 1 .. Len(lap[d])}
        BY <1>1, PortsTyped DEF PortsInv
      <3> QED BY <3>1, LenProperties
    <2>3. RuleKeys(d) \in Seq(Ports(d) \X {"rtp", "rtcp"})
      <3>1. CASE ~Siprec(d)
        <4>1. lap[d][1] \in Ports(d)
          BY <2>1, <2>2, <3>1
        <4> QED BY <3>1, <4>1 DEF RuleKeys
      <3>2. CASE Siprec(d)
        <4>1. RuleKeys(d) \in [1 .. Len(lap[d]) -> Ports(d) \X {"rtp", "rtcp"}]
          BY <2>2, <3>2 DEF RuleKeys
        <4> QED BY <2>2, <4>1, SeqDef
      <3> QED BY <3>1, <3>2
    <2>4. Alone(d) /\ OnItsWay(d) /\ HandlerInv(d)'
      BY <1>1, <1>3 DEF Update, UpdateFails, UpdateRules, UpdateStops, TypeOK
    <2>5. PortsInv(MaxAudio)' /\ RulesKept'
      BY <1>1, <2>1, <2>3, <2>4, WayMoves, RulesUpdated
    <2>6. TypeOK' /\ UNCHANGED <<tableVars, byes>>
      BY <1>1, <1>3, <2>5 DEF Update, UpdateFails, TypeOK, PortsInv
    <2> QED BY <2>4, <2>5, <2>6, ListKept, OthersKept, ByesKept DEF IInv, TypeOK
  <1> QED BY <1>2, <1>3

\* NewDialogUas puts the dialog into the map, over another with its Call-ID if there
\* is one, and into the gauge.
LEMMA DialogListed ==
    ASSUME IInv, NEW d \in Dialog, NewDialogUas(d)
    PROVE  IInv'
  <1>1. TypeOK /\ HandlerInv(d) /\ PortsInv(MaxAudio) /\ RulesKept /\ Listed /\ ByesAnswered
    BY DEF IInv
  <1>2. /\ pc[d] = "new" /\ pc'[d] = "onstate"
        /\ \A e \in Dialog \ {d} : pc'[e] = pc[e]
        /\ dialogs' = [dialogs EXCEPT ![CallIdOf(d)] = d]
        /\ current' = current + 1
        /\ UNCHANGED <<portVars, invite, byes>>
    BY <1>1 DEF NewDialogUas, Goto, TypeOK
  <1>3. Alone(d) /\ HandlerInv(d)' /\ Moves
    BY <1>1, <1>2 DEF NewDialogUas, TypeOK, portVars, HandlerInv, Begun, Offered, Siprec,
           Over, Closing, Alone, Moves
  <1>4. PortsInv(MaxAudio)' /\ RulesKept'
    BY <1>1, <1>2, <1>3, PortsUntouched, MaxAudioAssumption
  <1>5. d \notin Live /\ Live' = Live \cup {d} /\ IsFiniteSet(Live)
    BY <1>2, DialogsFinite DEF Live
  <1>6. current' = Cardinality(Live')
    BY <1>1, <1>2, <1>5, FS_AddElement DEF Listed
  <1>7. \A c \in CallId : dialogs'[c] = IF c = CallIdOf(d) THEN d ELSE dialogs[c]
    BY <1>1, <1>2 DEF TypeOK
  <1>8. ASSUME NEW c \in CallId, dialogs'[c] # None
        PROVE  dialogs'[c] \in Live' /\ CallIdOf(dialogs'[c]) = c
    BY <1>1, <1>5, <1>7, <1>8 DEF Listed
  <1>9. ASSUME NEW e \in Live'
        PROVE  \/ dialogs'[CallIdOf(e)] = e
               \/ \E f \in Dialog \ {e} : CallIdOf(f) = CallIdOf(e) /\ pc'[f] # "new"
    <2>1. e \in Dialog /\ CallIdOf(e) \in CallId /\ CallIdOf(d) \in CallId
      BY <1>1, CallIdKept DEF Live
    <2>2. CASE e = d
      BY <1>7, <2>1, <2>2
    <2>3. CASE e # d /\ CallIdOf(e) = CallIdOf(d)
      BY <1>2, <2>3
    <2>4. CASE e # d /\ CallIdOf(e) # CallIdOf(d)
      <3>1. \/ dialogs[CallIdOf(e)] = e
            \/ \E f \in Dialog \ {e} : CallIdOf(f) = CallIdOf(e) /\ pc[f] # "new"
        BY <1>1, <1>5, <2>4 DEF Listed
      <3> QED BY <1>2, <1>7, <2>1, <2>4, <3>1
    <2> QED BY <2>2, <2>3, <2>4
  <1>10. Listed'
    BY <1>2, <1>6, <1>8, <1>9 DEF Listed, CallIdOf
  <1>11. ByesAnswered'
    <2>1. d \notin byes
      BY <1>1, <1>2 DEF ByesAnswered
    <2>2. \A e \in byes : e \in Dialog \ {d} /\ pc'[e] = pc[e] /\ session'[e] = session[e]
      BY <1>1, <1>2, <1>3, <2>1 DEF TypeOK, Alone
    <2>3. ASSUME NEW e \in byes
          PROVE  \/ session'[e] = "ended" \/ pc'[e] \in Over
                 \/ \E f \in Dialog \ {e} : CallIdOf(f)' = CallIdOf(e)' /\ pc'[f] # "new"
      <3>1. \/ session[e] = "ended" \/ pc[e] \in Over
            \/ \E f \in Dialog \ {e} : CallIdOf(f) = CallIdOf(e) /\ pc[f] # "new"
        BY <1>1 DEF ByesAnswered, ByeEndsCall
      <3>2. \A f \in Dialog : CallIdOf(f)' = CallIdOf(f)
        BY <1>2 DEF CallIdOf
      <3>3. \A f \in Dialog : pc[f] # "new" => pc'[f] # "new"
        BY <1>2
      <3> QED BY <2>2, <3>1, <3>2, <3>3
    <2>4. ByeEndsCall'
      BY <1>2, <2>3 DEF ByeEndsCall, Over, Closing
    <2> QED BY <1>1, <1>2, <2>2, <2>4 DEF ByesAnswered
  <1>12. TypeOK'
    <2>1. Live' \subseteq Dialog
      BY DEF Live
    <2>2. current' \in 0 .. Cardinality(Dialog)
      BY <1>6, <2>1, DialogsFinite
    <2>3. PortsTypeOK(MaxAudio)'
      BY <1>4 DEF PortsInv
    <2>4. dialogs' \in [CallId -> Dialog \cup {None}]
      BY <1>1, <1>2 DEF TypeOK
    <2>5. /\ session' \in [Dialog -> {"none", "early", "confirmed", "ended", "lost"}]
          /\ UNCHANGED <<invite, listening, done, final, media, byes>>
      BY <1>1 DEF NewDialogUas, TypeOK
    <2>6. pc' = [pc EXCEPT ![d] = "onstate"]
      BY DEF NewDialogUas, Goto
    <2> QED BY <1>1, <2>2, <2>3, <2>4, <2>5, <2>6 DEF TypeOK
  <1> QED BY <1>1, <1>3, <1>4, <1>10, <1>11, <1>12, OthersKept DEF IInv

\* The end of Close takes it out of the gauge, and the Call-ID out of the map.
LEMMA DialogUnlisted ==
    ASSUME IInv, NEW d \in Dialog, Unlist(d)
    PROVE  IInv'
  <1>1. TypeOK /\ HandlerInv(d) /\ PortsInv(MaxAudio) /\ RulesKept /\ Listed /\ ByesAnswered
    BY DEF IInv
  <1>2. /\ pc[d] = "unlist" /\ pc'[d] = "closed"
        /\ \A e \in Dialog \ {d} : pc'[e] = pc[e]
        /\ dialogs' = [dialogs EXCEPT ![CallIdOf(d)] = None]
        /\ current' = current - 1
        /\ UNCHANGED <<portVars, invite, byes, session>>
    BY <1>1 DEF Unlist, Goto, TypeOK
  <1>3. Alone(d) /\ HandlerInv(d)' /\ Moves
    BY <1>1, <1>2 DEF Unlist, TypeOK, portVars, HandlerInv, Begun, Offered, Siprec,
           Over, Closing, Alone, Moves
  <1>4. PortsInv(MaxAudio)' /\ RulesKept'
    BY <1>1, <1>2, <1>3, PortsUntouched, MaxAudioAssumption
  <1>5. d \in Live /\ Live' = Live \ {d} /\ IsFiniteSet(Live)
    BY <1>2, DialogsFinite DEF Live
  <1>6. current' = Cardinality(Live')
    BY <1>1, <1>2, <1>5, FS_RemoveElement DEF Listed
  <1>7. \A c \in CallId : dialogs'[c] = IF c = CallIdOf(d) THEN None ELSE dialogs[c]
    BY <1>1, <1>2 DEF TypeOK
  <1>8. ASSUME NEW c \in CallId, dialogs'[c] # None
        PROVE  dialogs'[c] \in Live' /\ CallIdOf(dialogs'[c]) = c
    BY <1>1, <1>5, <1>7, <1>8 DEF Listed
  <1>9. ASSUME NEW e \in Live'
        PROVE  \/ dialogs'[CallIdOf(e)] = e
               \/ \E f \in Dialog \ {e} : CallIdOf(f) = CallIdOf(e) /\ pc'[f] # "new"
    <2>1. e \in Dialog \ {d} /\ CallIdOf(e) \in CallId
      BY <1>1, <1>5, CallIdKept DEF Live
    <2>2. CASE CallIdOf(e) = CallIdOf(d)
      BY <1>2, <2>1, <2>2
    <2>3. CASE CallIdOf(e) # CallIdOf(d)
      <3>1. \/ dialogs[CallIdOf(e)] = e
            \/ \E f \in Dialog \ {e} : CallIdOf(f) = CallIdOf(e) /\ pc[f] # "new"
        BY <1>1, <1>5 DEF Listed
      <3> QED BY <1>2, <1>7, <2>1, <2>3, <3>1
    <2> QED BY <2>2, <2>3
  <1>10. Listed'
    BY <1>2, <1>6, <1>8, <1>9 DEF Listed, CallIdOf
  <1>11. ByesAnswered'
    <2>1. \A f \in Dialog : /\ pc[f] # "new" => pc'[f] # "new"
                            /\ pc[f] \in Over => pc'[f] \in Over
      BY <1>2 DEF Over, Closing
    <2> QED BY <1>1, <1>2, <2>1 DEF ByesAnswered, ByeEndsCall, CallIdOf, TypeOK
  <1>12. TypeOK'
    <2>1. Live' \subseteq Dialog
      BY DEF Live
    <2>2. current' \in 0 .. Cardinality(Dialog)
      BY <1>6, <2>1, DialogsFinite
    <2> QED BY <1>1, <1>2, <1>4, <2>2 DEF TypeOK, PortsInv, Unlist, Goto, Over
  <1> QED BY <1>1, <1>3, <1>4, <1>10, <1>11, <1>12, OthersKept DEF IInv

\* Close frees the ports and deletes their rules, and leaves the dialog alone.
LEMMA DialogCloses ==
    ASSUME IInv, NEW d \in Dialog, ClosePorts(d)
    PROVE  IInv'
  <1>1. TypeOK /\ HandlerInv(d) /\ PortsInv(MaxAudio) /\ RulesKept /\ Listed /\ ByesAnswered
    BY DEF IInv
  <1> DEFINE L == {"new", "onstate", "trying", "getport", "scan", "rules", "media", "progress",
                   "ringing", "busy", "answer", "acking", "talking", "bye"} \cup Over
  <1>2. pc \in [Dialog -> L] /\ Closing \subseteq L
    BY <1>1 DEF TypeOK, Over
  <1>3. /\ PortsInv(MaxAudio)' /\ RulesKept'
        /\ pc[d] \in Closing /\ pc'[d] \in Closing
        /\ \A e \in Dialog \ {d} : pc'[e] = pc[e]
        /\ UNCHANGED lap
        /\ pc' \in [Dialog -> L \cup Closing]
    BY <1>1, <1>2, PortsClosed, MaxAudioAssumption DEF ClosePorts
  <1>4. UNCHANGED <<tableVars, handlerVars, byes>>
    BY DEF ClosePorts
  <1>5. TypeOK'
    BY <1>1, <1>2, <1>3, <1>4 DEF TypeOK, PortsInv, tableVars, handlerVars
  <1>6. Alone(d) /\ HandlerInv(d)'
    BY <1>1, <1>3, <1>4 DEF Alone, handlerVars, HandlerInv, Begun, Offered, Siprec,
       Over, Closing
  <1>7. Listed'
    <2>1. Live' = Live /\ \A e \in Dialog : pc[e] # "new" => pc'[e] # "new"
      BY <1>3 DEF Live, Closing
    <2> QED BY <1>1, <1>4, <2>1 DEF Listed, CallIdOf, tableVars, handlerVars
  <1>8. ByesAnswered'
    <2>1. \A f \in Dialog : /\ pc[f] # "new" => pc'[f] # "new"
                            /\ pc[f] \in Over => pc'[f] \in Over
      BY <1>3 DEF Over, Closing
    <2> QED BY <1>1, <1>4, <2>1
            DEF ByesAnswered, ByeEndsCall, CallIdOf, TypeOK, handlerVars
  <1> QED BY <1>1, <1>3, <1>5, <1>6, <1>7, <1>8, OthersKept DEF IInv

-----------------------------------------------------------------------------
(* The handlers of ACK and BYE: their dialog is the one that is listed. *)

\* An ACK confirms a session that is early.
LEMMA AckHandled ==
    ASSUME IInv, NEW d \in Dialog, OnAck(d)
    PROVE  IInv'
  <1>1. PICK e \in Dialog :
           session[e] = "early" /\ session' = [session EXCEPT ![e] = "confirmed"]
    BY CallIdKept DEF OnAck, IInv, TypeOK
  <1>2. UNCHANGED <<pc, portVars, tableVars, invite, listening, done, final, media, byes>>
    BY DEF OnAck
  <1>3. TypeOK /\ HandlerInv(e)
    BY DEF IInv
  <1>4. Alone(e) /\ OnItsWay(e) /\ HandlerInv(e)'
    BY <1>1, <1>2, <1>3 DEF TypeOK, portVars, Alone, OnItsWay, HandlerInv, Begun, Offered, Siprec
  <1>5. PortsTypeOK(MaxAudio)' => TypeOK'
    BY <1>1, <1>2, <1>3 DEF TypeOK, tableVars
  <1> QED BY <1>2, <1>4, <1>5, QuietStep

\* A BYE ends the session of the dialog listed under its Call-ID: with Call-IDs of
\* their own, of the dialog it is sent for, or that one is over.
LEMMA ByeHandled ==
    ASSUME IInv, NEW d \in Dialog, OnBye(d)
    PROVE  IInv'
  <1> DEFINE e == dialogs[CallIdOf(d)]
  <1>1. /\ TypeOK /\ PortsInv(MaxAudio) /\ RulesKept /\ Listed /\ ByesAnswered
        /\ \A f \in Dialog : HandlerInv(f)
    BY DEF IInv
  <1>2. /\ Known(d) /\ byes' = byes \cup {d}
        /\ UNCHANGED <<pc, portVars, tableVars, invite, listening, final, media>>
        /\ IF e # None /\ session[e] # "ended"
             THEN EndSession(e)
             ELSE UNCHANGED <<session, done>>
    BY DEF OnBye
  <1>3. pc[d] # "new"
    BY <1>1, <1>2 DEF Known, HandlerInv, Begun
  <1>4. e \in Dialog \cup {None}
    BY <1>1, CallIdKept DEF TypeOK
  <1>5. \A f \in Dialog : session[f] = "ended" => session'[f] = "ended"
    BY <1>1, <1>2, <1>4 DEF EndSession, TypeOK
  <1>6. PortsInv(MaxAudio)' /\ RulesKept'
    BY <1>1, <1>2, PortsUntouched, MaxAudioAssumption DEF Moves
  <1>7. TypeOK'
    BY <1>1, <1>2, <1>4, <1>6 DEF TypeOK, PortsInv, EndSession, tableVars
  <1>8. Listed'
    BY <1>1, <1>2 DEF Listed, CallIdOf, Live, tableVars
  <1>9. ASSUME NEW f \in Dialog
        PROVE  HandlerInv(f)'
    <2>1. CASE e # None /\ session[e] # "ended"
      <3>1. e \in Live
        BY <1>1, <2>1, CallIdKept DEF Listed
      <3>2. pc[e] # "new" /\ HandlerInv(f) /\ e \in Dialog
        BY <1>1, <3>1 DEF Live
      <3> QED BY <1>1, <1>2, <2>1, <3>2 DEF EndSession, TypeOK, portVars, HandlerInv, Begun,
              Offered, Siprec
    <2>2. CASE ~(e # None /\ session[e] # "ended")
      BY <1>1, <1>2, <2>2 DEF portVars, HandlerInv, Begun, Offered, Siprec
    <2> QED BY <2>1, <2>2
  <1>10. ByesAnswered'
    <2>1. \A f \in byes' : pc'[f] # "new"
      BY <1>1, <1>2, <1>3 DEF ByesAnswered
    <2>2. \/ session'[d] = "ended" \/ pc[d] \in Over
          \/ \E f \in Dialog \ {d} : CallIdOf(f) = CallIdOf(d) /\ pc[f] # "new"
      <3>1. CASE pc[d] = "closed"
        BY <3>1 DEF Over
      <3>2. CASE pc[d] # "closed"
        <4>1. d \in Live
          BY <1>3, <3>2 DEF Live
        <4>2. CASE e = d
          <5>1. e # None
            BY <4>2, NoneAssumption
          <5> QED BY <1>1, <1>2, <4>2, <5>1 DEF EndSession, TypeOK
        <4>3. CASE e # d
          BY <1>1, <4>1, <4>3 DEF Listed
        <4> QED BY <4>2, <4>3
      <3> QED BY <3>1, <3>2
    <2>3. ByeEndsCall'
      BY <1>1, <1>2, <1>5, <2>2 DEF ByesAnswered, ByeEndsCall, CallIdOf, TypeOK
    <2> QED BY <2>1, <2>3 DEF ByesAnswered
  <1> QED BY <1>6, <1>7, <1>8, <1>9, <1>10 DEF IInv

-----------------------------------------------------------------------------
(* The theorems. *)

\* The fields of the UA before the first INVITE.
LEMMA InvInit == Init => IInv
  <1> SUFFICES ASSUME Init PROVE IInv
    OBVIOUS
  <1>1. PortsInv(MaxAudio) /\ RulesKept
    BY PortsStart, MaxAudioAssumption DEF Init
  <1>2. Live = {} /\ current = 0 /\ Cardinality({}) = 0
    BY FS_EmptySet DEF Init, Live
  <1>3. Listed
    BY <1>2 DEF Init, Listed
  <1>4. TypeOK
    <2>1. current \in 0 .. Cardinality(Dialog)
      BY <1>2, DialogsFinite
    <2> QED BY <1>1, <2>1, InvitesAssumption DEF Init, TypeOK, PortsInv
  <1>5. \A d \in Dialog : HandlerInv(d)
    BY DEF Init, PortsInit, HandlerInv, Begun, Offered, Siprec, Over, Closing
  <1>6. ByesAnswered
    BY DEF Init, ByesAnswered, ByeEndsCall
  <1> QED BY <1>1, <1>3, <1>4, <1>5, <1>6 DEF IInv

\* The inductive invariant holds in every reachable state.
THEOREM Invariant == Spec => []IInv
  <1>1. IInv /\ [Next]_vars => IInv'
    <2> SUFFICES ASSUME IInv, [Next]_vars PROVE IInv'
      OBVIOUS
    <2>1. CASE UNCHANGED vars
      <3>1. PortsInv(MaxAudio)' /\ RulesKept'
        BY <2>1, PortsUntouched, MaxAudioAssumption DEF IInv, vars, Moves
      <3>2. TypeOK' /\ Listed' /\ ByesAnswered'
        BY <2>1, <3>1 DEF IInv, vars, TypeOK, Listed, Live, ByesAnswered, ByeEndsCall, CallIdOf,
           handlerVars, tableVars, PortsInv
      <3>3. \A d \in Dialog : HandlerInv(d)'
        BY <2>1 DEF IInv, vars, handlerVars, portVars, HandlerInv, Begun, Offered, Siprec
      <3> QED BY <3>1, <3>2, <3>3 DEF IInv
    <2>2. CASE \E d \in Dialog : Handler(d) \/ Peer(d)
      <3>1. PICK d \in Dialog : Handler(d) \/ Peer(d)
        BY <2>2
      <3>2. CASE Handler(d)
        BY <3>2, OfferHandled, CallHandled, TalkHandled, PortsHandled, DialogCloses,
           DialogUnlisted DEF Handler
      <3>3. CASE Peer(d)
        BY <3>3, DialogListed, TalkHandled, AckHandled, ByeHandled DEF Peer
      <3> QED BY <3>1, <3>2, <3>3
    <2> QED BY <2>1, <2>2 DEF Next, AllClosed
  <1> QED BY <1>1, InvInit, PTL DEF Spec

\* The gauge and the map have the dialogs being served, done is closed by the end of
\* the session alone, and a dialog has its ports until Close frees them, whatever
\* Call-IDs the INVITEs share (dialog.go:29-51, 262-298).
THEOREM TableExact == Spec => []Consistent
  <1>1. IInv => Consistent
    BY DEF IInv, Consistent, PortsInv, PhaseInv, Listed, HandlerInv, Begun
  <1> QED BY <1>1, Invariant, PTL

\* A rule that is left in the kernel without a dialog to delete it was of a dialog
\* with several ports, or of one for which the map refused a lookup or a deletion
\* (dialog.go:267-269, ebpf.go:84-117).
THEOREM RulesHaveOwners == Spec => []RulesOwned
  BY Invariant, KeptIsOwned, PTL DEF IInv

\* Once every handler is over, nothing is left of the dialogs (dialog.go:262-298).
THEOREM CleanAtTheEnd == Spec => []CleanWhenOver
  <1>1. IInv => CleanWhenOver
    <2> SUFFICES ASSUME IInv, \A d \in Dialog : pc[d] \in {"new", "closed"}
                 PROVE  /\ \A d \in Dialog : owned[d] = {}
                        /\ \A c \in CallId : dialogs[c] = None
                        /\ current = 0
      BY DEF CleanWhenOver
    <2>1. ASSUME NEW d \in Dialog
          PROVE  owned[d] = {}
      <3>1. PhaseInv(d) /\ Offered(d) /\ phase[d] \in {"open", "closing", "closed"}
        BY DEF IInv, PortsInv, PortsTypeOK, HandlerInv
      <3>2. Range(<<>>) = {}
        BY DEF Range
      <3> QED BY <3>1, <3>2 DEF PhaseInv, Offered, Ports, Over, Closing
    <2>2. Live = {}
      BY DEF Live
    <2> QED BY <2>1, <2>2, FS_EmptySet DEF IInv, Listed
  <1> QED BY <1>1, Invariant, PTL

\* A BYE that was answered with 200 has ended the call it was sent for, unless
\* another INVITE came with its Call-ID (uas.go:164-177).
THEOREM ByesEnd == Spec => []ByeEndsCall
  <1>1. IInv => ByeEndsCall
    BY DEF IInv, ByesAnswered
  <1> QED BY <1>1, Invariant, PTL
=============================================================================
