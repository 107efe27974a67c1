---------------------------- MODULE MediaProofs -----------------------------
(***************************************************************************)
(* Proofs about Media, for every number of playbacks and packets, every    *)
(* set of states of the kernel's tables and every number of their changes: *)
(* no channel is closed twice, the media of two playbacks do not mix, and  *)
(* newMedia panics only of a torn router or of a route without interface.  *)
(***************************************************************************)
EXTENDS Media, TLAPS

\* The channel of the playback that plays is open, every earlier one is closed,
\* and so is the last one while nothing plays.
Channels ==
    /\ playing => plays > 0 /\ done = plays /\ plays \notin closed
    /\ ~playing => \A p \in 1 .. plays : p \in closed
    /\ \A p \in 1 .. plays : p < plays => p \in closed

\* mu is held by the goroutine between its Lock and its return, and by no other.
Mutex ==
    /\ \A p \in Play : pc[p] \in {"select", "send"} <=> mu = p
    /\ \A p \in Play : p > plays => pc[p] = "none"

\* Nothing of a playback later than the one about to send has been sent.
Ordered ==
    /\ InOrder
    /\ \A n \in DOMAIN log : log[n] <= plays
    /\ \A p \in Play : pc[p] = "send" => \A n \in DOMAIN log : log[n] <= p

\* A goroutine about to send has a packet left.
Unsent == \A p \in Play : pc[p] = "send" => sent[p] < Pkts

IInv == TypeOK /\ NeverPanics /\ Channels /\ Mutex /\ Ordered /\ Unsent

\* Every route of s has its interface among links, or has none.
Whole(s, links) == \A n \in DOMAIN s : s[n].out \in links \cup {NoLink}

\* A router is whole unless it is torn; so is the one that New is about to return,
\* whose routes are those of the kernel it remembers.
RouterInv ==
    /\ kernel \in Kernels
    /\ ~router.torn => Whole(router.routes, router.links)
    /\ refresh = "links"
         => read.from \in Kernels /\ Whole(read.routes, read.from.links)
    /\ refresh = "publish" /\ ~read.torn => Whole(read.routes, read.links)
    /\ read \in [table : {read.table}, routes : {read.routes}, links : {read.links},
                 from : {read.from}, torn : BOOLEAN]
-----------------------------------------------------------------------------
(* The playbacks. *)

\* A media just made has no playback (media.go:105-110).
LEMMA InvInit == Init => IInv
  <1> SUFFICES ASSUME Init PROVE IInv
    OBVIOUS
  <1>1. TypeOK
    <2>1. /\ sent \in [Play -> 0 .. Pkts]
          /\ pc \in [Play -> {"none", "lock", "select", "send", "over"}]
      BY PktsAssumption DEF Init
    <2>2. playing \in BOOLEAN /\ panicked \in BOOLEAN /\ ctxDone \in BOOLEAN
      BY Zenon DEF Init
    <2>3. log \in Seq(Play)
      BY DEF Init
    <2> QED BY <2>1, <2>2, <2>3, PlaysAssumption DEF Init, TypeOK
  <1>2. NeverPanics /\ Channels
    BY DEF Init, NeverPanics, Channels
  <1>3. Mutex
    BY DEF Init, Mutex, Play
  <1>4. Ordered /\ Unsent
    BY DEF Init, Ordered, InOrder, Unsent
  <1> QED BY <1>1, <1>2, <1>3, <1>4 DEF IInv

\* playback and stop keep the channels, whichever goroutines are running
\* (media.go:118-128, 164-177).
LEMMA CallerStep == IInv /\ building' = building /\ (Playback \/ Stop) => IInv'
  <1> SUFFICES ASSUME IInv, building' = building, Playback \/ Stop PROVE IInv'
    OBVIOUS
  <1>1. CASE Playback
    <2> USE <1>1, PlaysAssumption
    <2>1. plays \in Nat /\ plays < Plays /\ plays' = plays + 1 /\ plays' \in Play
      BY DEF IInv, TypeOK, Playback, Play
    <2>2. NeverPanics' /\ Channels'
      BY <2>1 DEF IInv, TypeOK, NeverPanics, Channels, Playback, CloseChan
    <2>3. panicked' \in BOOLEAN
      BY Zenon DEF IInv, TypeOK, Playback, CloseChan
    <2>4. closed' \subseteq 1 .. plays'
      <3>1. playing => closed' = closed \cup {plays} /\ plays > 0
        BY Zenon DEF IInv, Channels, Playback, CloseChan
      <3>2. ~playing => closed' = closed
        BY Zenon DEF Playback
      <3>3. closed \subseteq 1 .. plays
        BY DEF IInv, TypeOK
      <3>4. 1 .. plays \subseteq 1 .. plays' /\ (plays > 0 => plays \in 1 .. plays')
        BY <2>1
      <3>5. CASE playing
        BY <3>1, <3>3, <3>4, <3>5
      <3>6. CASE ~playing
        BY <3>2, <3>3, <3>4, <3>6
      <3> QED BY <3>5, <3>6
    <2>5. TypeOK'
      BY <2>1, <2>3, <2>4 DEF IInv, TypeOK, Playback
    <2>6. Mutex'
      BY <2>1 DEF IInv, TypeOK, Mutex, Playback, Play
    <2>7. Ordered'
      <3>1. log' = log
        BY DEF Playback
      <3>2. InOrder'
        BY <3>1 DEF IInv, Ordered, InOrder
      <3>3. \A n \in DOMAIN log : log[n] \in Int /\ log[n] <= plays
        BY DEF IInv, TypeOK, Ordered, Play
      <3>4. \A n \in DOMAIN log' : log'[n] <= plays'
        BY <2>1, <3>1, <3>3
      <3>5. \A p \in Play : pc'[p] = "send" => pc[p] = "send"
        BY DEF IInv, TypeOK, Playback
      <3> QED BY <3>1, <3>2, <3>4, <3>5 DEF IInv, Ordered
    <2>8. Unsent'
      BY <2>1 DEF IInv, TypeOK, Unsent, Playback, Play
    <2> QED BY <2>2, <2>5, <2>6, <2>7, <2>8 DEF IInv
  <1>2. CASE Stop
    <2>1. plays \in Nat
      BY PlaysAssumption DEF IInv, TypeOK
    <2>2. NeverPanics' /\ Channels'
      BY <1>2, <2>1 DEF IInv, TypeOK, NeverPanics, Channels, Stop, CloseChan
    <2>3. panicked' \in BOOLEAN
      BY <1>2, Zenon DEF IInv, TypeOK, Stop, CloseChan
    <2>4. closed' \subseteq 1 .. plays
      <3>1. closed' \subseteq closed \cup {plays} /\ plays > 0
        BY <1>2 DEF IInv, Channels, Stop, CloseChan
      <3> QED BY <2>1, <3>1 DEF IInv, TypeOK
    <2>5. TypeOK'
      BY <1>2, <2>1, <2>3, <2>4 DEF IInv, TypeOK, Stop
    <2>6. Mutex' /\ Ordered' /\ Unsent'
      BY <1>2 DEF IInv, Mutex, Ordered, InOrder, Unsent, Stop
    <2> QED BY <2>2, <2>5, <2>6 DEF IInv
  <1> QED BY <1>1, <1>2

\* A goroutine decides to send only if its channel is open, hence only if it is the
\* last playback's, and until it has sent it keeps the mutex (media.go:128-158).
LEMMA RunStep ==
    ASSUME IInv, building' = building, NEW p \in Play, Run(p)
    PROVE  IInv'
  <1> USE PlaysAssumption, PktsAssumption DEF Play
  <1>0. plays \in Nat /\ p <= plays
    BY DEF IInv, TypeOK, Mutex, Run, Lock, Select, SendPacket
  <1>1. CASE Lock(p)
    <2>1. TypeOK'
      BY <1>0, <1>1 DEF IInv, TypeOK, Lock, callerVars
    <2>2. NeverPanics' /\ Channels'
      BY <1>1 DEF IInv, NeverPanics, Channels, Lock, callerVars
    <2>3. Mutex'
      BY <1>1, <1>0 DEF IInv, TypeOK, Mutex, Lock, callerVars
    <2>4. Ordered' /\ Unsent'
      BY <1>1 DEF IInv, TypeOK, Ordered, InOrder, Unsent, Lock, callerVars
    <2> QED BY <2>1, <2>2, <2>3, <2>4 DEF IInv
  <1>2. CASE Select(p)
    <2>1. TypeOK'
      <3>1. pc' \in [Play -> {"none", "lock", "select", "send", "over"}]
        BY <1>2 DEF IInv, TypeOK, Select
      <3>2. mu' \in 0 .. plays
        BY <1>0, <1>2 DEF IInv, TypeOK, Select
      <3>3. UNCHANGED <<playing, done, closed, panicked, plays, ctxDone, sent, log>>
        BY <1>2 DEF Select, callerVars
      <3> QED BY <3>1, <3>2, <3>3 DEF IInv, TypeOK
    <2>2. NeverPanics' /\ Channels'
      BY <1>2 DEF IInv, NeverPanics, Channels, Select, callerVars
    <2>3. Mutex'
      BY <1>2, <1>0 DEF IInv, TypeOK, Mutex, Select, callerVars
    <2>4. pc'[p] = "send" => p = plays
      BY <1>2, <1>0 DEF IInv, TypeOK, Channels, Select
    <2>5. Ordered'
      BY <1>2, <2>4 DEF IInv, TypeOK, Ordered, InOrder, Select, callerVars
    <2>6. Unsent'
      BY <1>2 DEF IInv, TypeOK, Unsent, Select, callerVars
    <2> QED BY <2>1, <2>2, <2>3, <2>5, <2>6 DEF IInv
  <1>3. CASE SendPacket(p)
    <2>1. log \in Seq(Nat) /\ log' = Append(log, p) /\ p \in Nat
      BY <1>3 DEF IInv, TypeOK, SendPacket
    <2>2. TypeOK'
      BY <1>3, <2>1 DEF IInv, TypeOK, Unsent, SendPacket, callerVars
    <2>3. NeverPanics' /\ Channels'
      BY <1>3 DEF IInv, NeverPanics, Channels, SendPacket, callerVars
    <2>4. Mutex'
      BY <1>3, <1>0 DEF IInv, TypeOK, Mutex, SendPacket, callerVars
    <2>5. \A q \in Play : pc'[q] # "send"
      BY <1>3 DEF IInv, TypeOK, Mutex, SendPacket
    <2>6. Ordered'
      <3>1. \A n \in DOMAIN log : log[n] <= p
        BY <1>3 DEF IInv, Ordered, SendPacket
      <3>2. \A n \in DOMAIN log' : log'[n] <= p
        BY <2>1, <3>1
      <3>3. InOrder'
        BY <2>1, <3>1 DEF IInv, Ordered, InOrder
      <3>4. \A n \in DOMAIN log' : log'[n] <= plays'
        BY <1>0, <1>3, <2>1, <3>2 DEF SendPacket, callerVars
      <3> QED BY <2>5, <3>3, <3>4 DEF Ordered
    <2> QED BY <2>2, <2>3, <2>4, <2>5, <2>6 DEF IInv, Unsent
  <1> QED BY <1>1, <1>2, <1>3 DEF Run

\* The end of a context, newMedia and the refresh leave the playbacks alone
\* (media.go:91-116, sipbench.go:44-54).
LEMMA OtherStep ==
    ASSUME IInv, UNCHANGED <<callerVars, pc, sent, mu, log>>,
           ctxDone' \in BOOLEAN,
           \/ building' = building
           \/ NewMedia
    PROVE  IInv'
  <1>1. plays > 0 => building' = "built"
    BY DEF IInv, TypeOK, NewMedia, Route, RouteNotFound, MacNotFound, Serialize
  <1>2. building' \in {"no", "route", "built", "failed", "panicked"}
    BY DEF IInv, TypeOK, NewMedia, Route, RouteNotFound, MacNotFound, Serialize
  <1>3. TypeOK'
    BY <1>1, <1>2 DEF IInv, TypeOK, callerVars
  <1> QED BY <1>3 DEF IInv, NeverPanics, Channels, Mutex, Ordered, InOrder, Unsent,
                      callerVars

-----------------------------------------------------------------------------
(* The routers. *)

\* MustInit reads both tables before anything runs (init.go:12-18).
LEMMA RouterInit == Init => RouterInv
  <1> SUFFICES ASSUME Init PROVE RouterInv
    OBVIOUS
  <1>1. PICK s \in Sorted(kernel.routes) :
           router = [routes |-> s, links |-> kernel.links, torn |-> FALSE]
    BY DEF Init, RoutingInit
  <1>2. kernel \in Kernels /\ refresh = "tick" /\ read = Nothing
    BY DEF Init, RoutingInit
  <1>3. Whole(s, kernel.links)
    BY <1>2, KernelsAssumption DEF Sorted, SetToSeqs, Whole
  <1> QED BY <1>1, <1>2, <1>3 DEF RouterInv, Nothing

\* A change of the kernel between the reads of New makes its router torn, and
\* nothing else keeps a route from its interface (routing.go:135-217).
LEMMA RouterStep == RouterInv /\ [Next]_vars => RouterInv'
  <1> SUFFICES ASSUME RouterInv, [Next]_vars PROVE RouterInv'
    OBVIOUS
  <1>1. CASE UNCHANGED routingVars
    BY <1>1 DEF RouterInv, routingVars, kernelVars
  <1>2. CASE KernelChanges
    BY <1>2 DEF RouterInv, KernelChanges
  <1>3. CASE Refresh
    <2>1. CASE ReadArp
      BY <2>1 DEF RouterInv, ReadArp, kernelVars
    <2>2. CASE ReadArpFails
      BY <2>2 DEF RouterInv, ReadArpFails, kernelVars
    <2>3. CASE PublishArp
      BY <2>3 DEF RouterInv, PublishArp, Nothing, kernelVars
    <2>4. CASE ReadRoutes
      <3>1. PICK s \in Sorted(kernel.routes) :
               read' = [read EXCEPT !.routes = s, !.from = kernel]
        BY <2>4 DEF ReadRoutes
      <3>2. Whole(s, kernel.links)
        BY KernelsAssumption DEF RouterInv, Sorted, SetToSeqs, Whole
      <3> QED BY <2>4, <3>1, <3>2 DEF RouterInv, ReadRoutes, kernelVars
    <2>5. CASE ReadLinks
      BY <2>5 DEF RouterInv, ReadLinks, kernelVars
    <2>6. CASE NewFails
      BY <2>6 DEF RouterInv, NewFails, Nothing, kernelVars
    <2>7. CASE Publish
      BY <2>7 DEF RouterInv, Publish, Nothing, kernelVars
    <2> QED BY <1>3, <2>1, <2>2, <2>3, <2>4, <2>5, <2>6, <2>7 DEF Refresh
  <1> QED BY <1>1, <1>2, <1>3 DEF Next, vars

\* newMedia finds a nil interface only in a torn router or for a route that has none.
LEMMA RouteStep ==
    ASSUME RouterInv, Route, iface' = NoLink
    PROVE  \/ router.torn
           \/ \E rt \in Chosen(router.routes, Remote) : rt.out = NoLink
  <1> SUFFICES ASSUME ~router.torn
               PROVE  \E rt \in Chosen(router.routes, Remote) : rt.out = NoLink
    OBVIOUS
  <1>1. PICK rt \in Chosen(router.routes, Remote) : Resolve(rt) = NoLink
    BY DEF Route
  <1>2. PICK n \in DOMAIN router.routes : rt = router.routes[n]
    BY DEF Chosen
  <1>3. rt.out \in router.links \cup {NoLink}
    BY <1>2 DEF RouterInv, Whole
  <1> QED BY <1>1, <1>3 DEF Resolve

-----------------------------------------------------------------------------
(* The theorems. *)

\* The inductive invariant of the playbacks holds in every reachable state.
THEOREM Invariant == Spec => []IInv
  <1>1. IInv /\ [Next]_vars => IInv'
    <2> SUFFICES ASSUME IInv, [Next]_vars PROVE IInv'
      OBVIOUS
    <2>1. CASE UNCHANGED playVars /\ (building' = building \/ NewMedia)
      BY <2>1, OtherStep DEF playVars, IInv, TypeOK
    <2>2. CASE Cancel /\ building' = building
      BY <2>2, OtherStep DEF Cancel
    <2>3. CASE (Playback \/ Stop) /\ building' = building
      BY <2>3, CallerStep
    <2>4. CASE (\E p \in Play : Run(p)) /\ building' = building
      BY <2>4, RunStep
    <2> QED BY <2>1, <2>2, <2>3, <2>4 DEF Next, Playing, vars, newMediaVars
  <1> QED BY <1>1, InvInit, PTL DEF Spec

\* Every variable always has its type, and a playback is called only of a media that
\* newMedia has built (media.go:91-128).
THEOREM TypeCorrect == Spec => []TypeOK
  <1>1. IInv => TypeOK
    BY DEF IInv
  <1> QED BY <1>1, Invariant, PTL

\* However often playback and stop are called, no channel is closed twice
\* (media.go:122-126, 168-174).
THEOREM NoDoubleClose == Spec => []NeverPanics
  <1>1. IInv => NeverPanics
    BY DEF IInv
  <1> QED BY <1>1, Invariant, PTL

\* However many playbacks supersede each other, and in whatever order they get the
\* mutex, their packets never interleave (media.go:128-143).
THEOREM MediaInOrder == Spec => []InOrder
  <1>1. IInv => InOrder
    BY DEF IInv, Ordered
  <1> QED BY <1>1, Invariant, PTL

\* Once the channel of a playback is closed, its goroutine sends at most the packet it
\* had already decided to send (media.go:137-143).
THEOREM StoppedSoon == Spec => AtMostOneMore
  <1>1. IInv /\ [Next]_vars
          => [\A p \in closed : pc[p] # "send" => sent'[p] = sent[p] /\ pc'[p] # "send"]_vars
    <2> SUFFICES ASSUME IInv, Next, NEW p \in closed, pc[p] # "send"
                 PROVE  sent'[p] = sent[p] /\ pc'[p] # "send"
      OBVIOUS
    <2>1. p \in Play /\ p \in 1 .. plays /\ p # plays + 1
      BY PlaysAssumption DEF IInv, TypeOK, Play
    <2> USE <2>1 DEF IInv, TypeOK
    <2>2. CASE UNCHANGED <<pc, sent>>
      BY <2>2
    <2>3. CASE Playback
      BY <2>3, PlaysAssumption DEF Playback, Play
    <2>4. CASE \E q \in Play : Run(q)
      <3>1. PICK q \in Play : Run(q)
        BY <2>4
      <3>2. CASE Lock(q)
        BY <3>2 DEF Lock
      <3>3. CASE Select(q)
        BY <3>3 DEF Select
      <3>4. CASE SendPacket(q)
        BY <3>4 DEF SendPacket
      <3> QED BY <3>1, <3>2, <3>3, <3>4 DEF Run
    <2> QED BY <2>2, <2>3, <2>4
        DEF Next, Playing, Stop, Cancel, playVars, vars
  <1> QED BY <1>1, Invariant, PTL DEF Spec, AtMostOneMore

\* Whatever the kernel's tables and their changes, newMedia finds a nil interface only
\* in a torn router or for a route without one (media.go:92-112, routing.go:92).
THEOREM NilOnlyTorn == Spec => PanicsOnlyTorn
  <1>1. RouterInv /\ [Next]_vars
          => [building # "route" /\ building' = "route" /\ iface' = NoLink
                => \/ router.torn
                   \/ \E rt \in Chosen(router.routes, Remote) : rt.out = NoLink]_vars
    <2> SUFFICES ASSUME RouterInv, Next,
                        building # "route", building' = "route", iface' = NoLink
                 PROVE  \/ router.torn
                        \/ \E rt \in Chosen(router.routes, Remote) : rt.out = NoLink
      OBVIOUS
    <2>1. Route
      BY DEF Next, NewMedia, RouteNotFound, MacNotFound, Serialize, vars, newMediaVars
    <2> QED BY <2>1, RouteStep
  <1> QED BY <1>1, RouterInit, RouterStep, PTL DEF Spec, PanicsOnlyTorn
=============================================================================
