--------------------------- MODULE UacCallsProofs ---------------------------
(***************************************************************************)
(* Proofs about UacCalls, for every total-calls, max-calls and rate: the   *)
(* slots of channel calls are those of the active calls and of the maker,  *)
(* so never more than max-calls calls are active, and no more than         *)
(* total-calls are started; a cancelled context stops the maker; and of    *)
(* the calls asked for, main's exit cuts off at most max-calls.            *)
(***************************************************************************)
EXTENDS UacCalls, FiniteSetTheorems, TLAPS

Active == At({"spawned", "running"})

Counted == At({"running", "returned"})

\* The gauge counts the dialogs between NewDialogUac and the end of Close.
GaugeExact == current = Cardinality(Counted)

\* The calls beyond the maker's counter have not been started, nor has the one
\* the maker is about to start.
Fresh ==
    /\ TotalCalls # 0 => i <= TotalCalls
    /\ \A c \in Call : c > i => call[c] = "none"
    /\ maker \in {"slot", "wait", "timer", "spawn"} => i > 0 /\ call[i] = "none"

IInv == TypeOK /\ SlotsConserved /\ GaugeExact /\ Fresh

\* The maker has come to the end of its loop through Made, with no call left out.
AllMade ==
    /\ maker = "done"
    /\ i = TotalCalls
    /\ \A c \in 1 .. TotalCalls : call[c] # "none"

\* The calls up to the maker's counter have been started, but for the one it works
\* on; before main closes, and after it has closed for the context, only the maker's
\* own cancel can have cancelled it.
EndInv ==
    /\ \A c \in Call : c < i => call[c] # "none"
    /\ maker = "loop" /\ i > 0 => call[i] # "none"
    /\ main \in {"start", "select"} => reason = "none"
    /\ main \in {"start", "select"} /\ cancelled => AllMade
    /\ reason = "context" => AllMade
-----------------------------------------------------------------------------
(* Cardinalities of the sets of calls. *)

\* The calls are finitely many, Bound at most, so a counter can count them.
LEMMA CallsFinite ==
    ASSUME NEW S \in SUBSET Call
    PROVE  /\ IsFiniteSet(S)
           /\ Cardinality(S) \in 0 .. Bound
  <1>1. IsFiniteSet(Call) /\ Cardinality(Call) = Bound
    BY FS_Interval, BoundAssumption DEF Call
  <1>2. IsFiniteSet(S) /\ Cardinality(S) <= Bound
    BY <1>1, FS_Subset
  <1> QED BY <1>2, FS_CardinalityType

\* A call that joins a set of calls makes it larger by one.
LEMMA CallJoins ==
    ASSUME NEW S \in SUBSET Call, NEW c \in Call \ S
    PROVE  Cardinality(S \cup {c}) = Cardinality(S) + 1
  BY CallsFinite, FS_AddElement

\* A call that leaves a set of calls makes it smaller by one.
LEMMA CallLeaves ==
    ASSUME NEW S \in SUBSET Call, NEW c \in S
    PROVE  Cardinality(S \ {c}) = Cardinality(S) - 1
  BY CallsFinite, FS_RemoveElement

-----------------------------------------------------------------------------
(* One lemma for each part of the program that steps. *)

\* Before runUac returns there is no call and no slot is taken (uac.go:129-142).
LEMMA InvInit == Init => IInv
  <1> SUFFICES ASSUME Init PROVE IInv
    OBVIOUS
  <1>1. At({"spawned", "running"}) = {} /\ Counted = {}
    BY DEF Init, At, Counted
  <1>2. SlotsConserved /\ GaugeExact
    BY <1>1, FS_EmptySet DEF Init, SlotsConserved, GaugeExact, MakerSlot
  <1>3. TypeOK
    <2>1. i \in 0 .. Bound /\ calls \in 0 .. MaxCalls /\ current \in 0 .. Bound
      BY MaxCallsAssumption, BoundAssumption DEF Init
    <2> QED BY <2>1 DEF Init, TypeOK
  <1>4. Fresh
    BY TotalCallsAssumption DEF Init, Fresh
  <1> QED BY <1>2, <1>3, <1>4 DEF IInv

\* The maker takes a slot before it waits and hands it to the goroutine it
\* starts (uac.go:145-176).
LEMMA MakerStep == ASSUME IInv, Maker PROVE IInv'
  <1> USE DEF IInv, TypeOK, Fresh
  <1>1. ASSUME UNCHANGED <<call, current>>
        PROVE  GaugeExact' /\ At({"spawned", "running"})' = At({"spawned", "running"})
    BY <1>1 DEF GaugeExact, Counted, At
  <1>3. CASE Enough \/ Wait \/ TokenDue \/ WaitCancelled
    <2>1. UNCHANGED <<i, calls, call, current, mainVars>>
      BY <1>3 DEF Enough, Wait, TokenDue, WaitCancelled
    <2>2. SlotsConserved'
      BY <1>1, <1>3, <2>1 DEF Enough, Wait, TokenDue, WaitCancelled,
         SlotsConserved, MakerSlot
    <2>3. TypeOK'
      BY <1>3, <2>1 DEF Enough, Wait, TokenDue, WaitCancelled, mainVars
    <2>4. Fresh'
      BY <1>3, <2>1 DEF Enough, Wait, TokenDue, WaitCancelled
    <2> QED BY <1>1, <2>1, <2>2, <2>3, <2>4
  <1>4. CASE OneMore
    <2>1. SlotsConserved'
      BY <1>1, <1>4 DEF OneMore, SlotsConserved, MakerSlot
    <2>2. TypeOK'
      BY <1>4, BoundAssumption DEF OneMore, mainVars
    <2>3. Fresh'
      BY <1>4, BoundAssumption, TotalCallsAssumption DEF OneMore, Made, Call
    <2> QED BY <1>1, <1>4, <2>1, <2>2, <2>3 DEF OneMore
  <1>5. CASE TakeSlot
    <2>1. SlotsConserved'
      <3>1. Cardinality(At({"spawned", "running"})) \in Nat
        <4>1. At({"spawned", "running"}) \subseteq Call
          BY DEF At
        <4> QED BY <4>1, CallsFinite, BoundAssumption
      <3> QED BY <1>1, <1>5, <3>1 DEF TakeSlot, SlotsConserved, MakerSlot
    <2>2. TypeOK'
      BY <1>5, MaxCallsAssumption DEF TakeSlot, mainVars
    <2>3. Fresh'
      BY <1>5 DEF TakeSlot
    <2> QED BY <1>1, <1>5, <2>1, <2>2, <2>3 DEF TakeSlot
  <1>2. CASE Spawn
    <2>1. i \in Call \ Active
      BY <1>2, BoundAssumption DEF Spawn, Call, Active, At
    <2>2. Active' = Active \cup {i} /\ Active \subseteq Call
      BY <1>2, <2>1 DEF Spawn, Active, At
    <2>3. Cardinality(Active') = Cardinality(Active) + 1
      BY <2>1, <2>2, CallJoins
    <2>4. SlotsConserved'
      <3>1. MakerSlot = 1 /\ MakerSlot' = 0
        BY <1>2 DEF Spawn, MakerSlot
      <3>2. calls = Cardinality(Active) + MakerSlot /\ calls' = calls
        BY <1>2 DEF Spawn, SlotsConserved, Active
      <3>3. Cardinality(Active) \in Nat
        BY <2>2, CallsFinite, BoundAssumption
      <3>4. calls' = Cardinality(Active') + MakerSlot'
        BY <2>3, <3>1, <3>2, <3>3
      <3> QED BY <3>4 DEF SlotsConserved, Active
    <2>5. GaugeExact'
      <3>1. Counted' = Counted
        BY <1>2, <2>1 DEF Spawn, Counted, At
      <3> QED BY <1>2, <3>1 DEF Spawn, GaugeExact
    <2>6. TypeOK'
      BY <1>2 DEF Spawn, mainVars
    <2>7. Fresh'
      BY <1>2 DEF Spawn, Call
    <2> QED BY <2>4, <2>5, <2>6, <2>7
  <1> QED BY <1>2, <1>3, <1>4, <1>5 DEF Maker

\* A call's goroutine gives its slot back once, when MakeCall has returned, and
\* is counted from NewDialogUac to Close (uac.go:168-175).
LEMMA CallStepInv == ASSUME IInv, NEW c \in Call, CallStep(c) PROVE IInv'
  <1> USE DEF IInv, TypeOK
  <1>0. /\ Active \subseteq Call /\ Counted \subseteq Call
        /\ Cardinality(Active) \in Nat /\ Cardinality(Counted) \in Nat
        /\ Counted' \subseteq Call
    <2>1. Active \subseteq Call /\ Counted \subseteq Call /\ Counted' \subseteq Call
      BY DEF Active, Counted, At
    <2> QED BY <2>1, CallsFinite, BoundAssumption
  <1>1. MakerSlot' = MakerSlot /\ MakerSlot \in {0, 1}
    BY DEF CallStep, NewDialogUac, ReleaseSlot, Close, MakerSlot, makerVars
  <1>2. Fresh'
    <2>1. /\ call[c] # "none"
          /\ \A e \in Call \ {c} : call'[e] = call[e]
          /\ UNCHANGED <<maker, i>>
      BY DEF CallStep, NewDialogUac, ReleaseSlot, Close, makerVars
    <2> QED BY <2>1 DEF Fresh, Call
  <1>3. SlotsConserved'
    <2>1. CASE ReleaseSlot(c)
      <3>1. c \in Active /\ Active' = Active \ {c}
        BY <2>1 DEF ReleaseSlot, Active, At
      <3>2. Cardinality(Active') = Cardinality(Active) - 1
        BY <1>0, <3>1, CallLeaves
      <3>3. calls' = Cardinality(Active') + MakerSlot'
        BY <1>0, <1>1, <2>1, <3>2 DEF ReleaseSlot, SlotsConserved, Active
      <3> QED BY <3>3 DEF SlotsConserved, Active
    <2>2. CASE NewDialogUac(c) \/ Close(c)
      <3>1. Active' = Active /\ calls' = calls
        BY <2>2 DEF NewDialogUac, Close, Active, At
      <3> QED BY <1>1, <3>1 DEF SlotsConserved, Active
    <2> QED BY <2>1, <2>2 DEF CallStep
  <1>4. GaugeExact'
    <2>1. CASE NewDialogUac(c)
      <3>1. c \in Call \ Counted /\ Counted' = Counted \cup {c}
        BY <2>1 DEF NewDialogUac, Counted, At
      <3> QED BY <1>0, <2>1, <3>1, CallJoins DEF NewDialogUac, GaugeExact
    <2>2. CASE Close(c)
      <3>1. c \in Counted /\ Counted' = Counted \ {c}
        BY <2>2 DEF Close, Counted, At
      <3> QED BY <1>0, <2>2, <3>1, CallLeaves DEF Close, GaugeExact
    <2>3. CASE ReleaseSlot(c)
      <3>1. Counted' = Counted
        BY <2>3 DEF ReleaseSlot, Counted, At
      <3> QED BY <2>3, <3>1 DEF ReleaseSlot, GaugeExact
    <2> QED BY <2>1, <2>2, <2>3 DEF CallStep
  <1>5. TypeOK'
    <2>1. current' \in 0 .. Bound
      BY <1>0, <1>4, CallsFinite DEF GaugeExact
    <2>2. calls' \in 0 .. MaxCalls
      BY MaxCallsAssumption DEF CallStep, NewDialogUac, ReleaseSlot, Close
    <2> QED BY <2>1, <2>2
            DEF CallStep, NewDialogUac, ReleaseSlot, Close, makerVars, mainVars
  <1> QED BY <1>2, <1>3, <1>4, <1>5

\* main changes neither a slot nor a call (sipbench.go:56-72, uac.go:194-211).
LEMMA MainStep == ASSUME IInv, Main \/ Signal PROVE IInv'
  <1>1. UNCHANGED <<makerVars, calls, call, current>>
    BY DEF Main, Listen, ContextDone, BeginClose, Expire, Exit, Signal
  <1>2. SlotsConserved' /\ GaugeExact' /\ Fresh'
    BY <1>1 DEF IInv, SlotsConserved, MakerSlot, GaugeExact, Counted, Fresh, At,
       makerVars
  <1>3. TypeOK'
    BY <1>1 DEF IInv, TypeOK, makerVars, Main, Listen, ContextDone, BeginClose,
       Expire, Exit, Signal
  <1> QED BY <1>2, <1>3 DEF IInv

-----------------------------------------------------------------------------
(* The theorems. *)

\* The inductive invariant holds in every reachable state: the slots, the gauge
\* and which calls may already have been started (uac.go:140-177).
THEOREM Invariant == Spec => []IInv
  <1>1. IInv /\ [Next]_vars => IInv'
    <2> SUFFICES ASSUME IInv, [Next]_vars PROVE IInv'
      OBVIOUS
    <2>1. CASE UNCHANGED vars
      BY <2>1 DEF IInv, TypeOK, SlotsConserved, MakerSlot, GaugeExact, Counted,
         Fresh, At, vars, makerVars, mainVars
    <2>2. CASE Step
      BY <2>2, MakerStep, CallStepInv, MainStep DEF Step
    <2> QED BY <2>1, <2>2 DEF Next, Exited
  <1> QED BY <1>1, InvInit, PTL DEF Spec

\* Every variable always has its type: the channel never holds more elements
\* than its capacity and the gauge is never negative (uac.go:142, 158, 174).
THEOREM TypeCorrect == Spec => []TypeOK
  <1>1. IInv => TypeOK
    BY DEF IInv
  <1> QED BY <1>1, Invariant, PTL

\* No slot is ever lost: the channel holds one element for each active call and
\* one for the maker between its send and its go statement (uac.go:158-175).
THEOREM SlotsAlwaysConserved == Spec => []SlotsConserved
  <1>1. IInv => SlotsConserved
    BY DEF IInv
  <1> QED BY <1>1, Invariant, PTL

\* For every value of the flags, never more than max-calls calls are active
\* (README.md:32, uac.go:142, 158, 174).
THEOREM NeverTooManyActive == Spec => []MaxActive
  <1>1. IInv => MaxActive
    <2> SUFFICES ASSUME IInv PROVE Cardinality(Active) <= MaxCalls
      BY DEF MaxActive, Active
    <2>1. Cardinality(Active) \in Nat
      <3>1. Active \subseteq Call
        BY DEF Active, At
      <3> QED BY <3>1, CallsFinite, BoundAssumption
    <2>2. MakerSlot \in {0, 1}
      BY DEF MakerSlot
    <2> QED BY <2>1, <2>2, MaxCallsAssumption
            DEF IInv, TypeOK, SlotsConserved, Active
  <1> QED BY <1>1, Invariant, PTL

\* For every value of the flags, no more than total-calls calls are started
\* unless it is 0 (uac.go:147-151).
THEOREM NeverTooManyCalls == Spec => []NoExtraCall
  <1>1. IInv => NoExtraCall
    <2> SUFFICES ASSUME IInv, TotalCalls # 0
                 PROVE  Cardinality(Call \ At({"none"})) <= TotalCalls
      BY DEF NoExtraCall
    <2>1. Call \ At({"none"}) \subseteq 1 .. TotalCalls
      BY TotalCallsAssumption DEF IInv, TypeOK, Fresh, At, Call
    <2>2. IsFiniteSet(1 .. TotalCalls) /\ Cardinality(1 .. TotalCalls) = TotalCalls
      BY FS_Interval, TotalCallsAssumption
    <2> QED BY <2>1, <2>2, FS_Subset
  <1> QED BY <1>1, Invariant, PTL

\* Once the context is cancelled the maker gets no further token: whatever it was
\* doing, it starts at most the call it had a token or a timer for (uac.go:153-166).
THEOREM CancelStopsMaker == Spec => StopsMaking
  <1>1. [Next]_vars => [cancelled /\ maker \notin {"timer", "spawn"}
                          => maker' \notin {"timer", "spawn"}]_vars
    BY DEF Next, Step, Exited, Maker, Enough, OneMore, TakeSlot, Wait, TokenDue,
       WaitCancelled, Spawn, CallStep, NewDialogUac, ReleaseSlot, Close, Main, Listen,
       ContextDone, BeginClose, Expire, Exit, Signal, vars, makerVars
  <1> QED BY <1>1, PTL DEF Spec, StopsMaking

\* Where the calls are when main closes and when it ends (uac.go:147-151, 194-211).
LEMMA EndHolds == Spec => []EndInv
  <1>1. Init => EndInv
    BY BoundAssumption DEF Init, EndInv, Call
  <1>2. IInv /\ EndInv /\ [Next]_vars => EndInv'
    <2> SUFFICES ASSUME IInv, EndInv, [Next]_vars PROVE EndInv'
      OBVIOUS
    <2> USE DEF IInv, TypeOK, Fresh
    <2>1. CASE Maker
      <3>1. CASE Enough
        BY <2>1, <3>1, TotalCallsAssumption, BoundAssumption
            DEF Enough, Made, EndInv, AllMade, Call, mainVars
      <3>2. CASE OneMore
        BY <2>1, <3>2, BoundAssumption DEF OneMore, EndInv, AllMade, Call, mainVars
      <3>3. CASE TakeSlot \/ Wait \/ TokenDue \/ WaitCancelled
        BY <2>1, <3>3 DEF TakeSlot, Wait, TokenDue, WaitCancelled, EndInv, AllMade, mainVars
      <3>4. CASE Spawn
        BY <2>1, <3>4, BoundAssumption DEF Spawn, EndInv, AllMade, Call, mainVars
      <3> QED BY <2>1, <3>1, <3>2, <3>3, <3>4 DEF Maker
    <2>2. ASSUME NEW c \in Call, CallStep(c), main # "exit" PROVE EndInv'
      BY <2>2, TotalCallsAssumption, BoundAssumption
          DEF CallStep, NewDialogUac, ReleaseSlot, Close, EndInv, AllMade, Call,
              makerVars, mainVars
    <2>3. CASE Main \/ Signal
      BY <2>3 DEF Main, Listen, ContextDone, BeginClose, Expire, Exit, Signal, EndInv,
          AllMade, makerVars
    <2>4. CASE UNCHANGED vars
      BY <2>4 DEF EndInv, AllMade, vars, makerVars, mainVars
    <2>5. CASE Maker /\ main # "exit"
      BY <2>1, <2>5
    <2> QED BY <2>2, <2>3, <2>4, <2>5 DEF Next, Step, Exited
  <1> QED BY <1>1, <1>2, Invariant, PTL DEF Spec

\* For every value of the flags, an end of the process that comes of total-calls cuts
\* at most one call for each slot, and none that the maker has not started
\* (uac.go:147-150, 202-206).
THEOREM EndCutsFew == Spec => []FewCallsCut
  <1>1. IInv /\ EndInv => FewCallsCut
    <2> SUFFICES ASSUME IInv, EndInv, main = "exit", reason = "context", ~expired
                 PROVE  /\ TotalCalls - Cardinality(Call \ At({"none", "spawned"}))
                             <= MaxCalls
                        /\ At({"none"}) \cap 1 .. TotalCalls = {}
      BY DEF FewCallsCut, EndedByItself
    <2> DEFINE Wanted == 1 .. TotalCalls
               Cut == At({"spawned"})
               Over == Call \ At({"none", "spawned"})
    <2>1. At({"none"}) \cap Wanted = {}
      BY DEF EndInv, AllMade, At
    <2>2. Wanted \subseteq Cut \cup Over /\ Wanted \subseteq Call
      BY TotalCallsAssumption, BoundAssumption DEF EndInv, AllMade, At, Call
    <2>3. IsFiniteSet(Cut) /\ IsFiniteSet(Over) /\ IsFiniteSet(Active)
      BY CallsFinite DEF At, Active
    <2>4. Cardinality(Cut) <= Cardinality(Active)
      <3>1. Cut \subseteq Active
        BY DEF At, Active
      <3> QED BY <2>3, <3>1, FS_Subset
    <2>5. Cardinality(Active) <= MaxCalls /\ Cardinality(Active) \in Nat
      <3>1. MakerSlot = 0
        BY DEF EndInv, AllMade, MakerSlot
      <3>2. Cardinality(Active) \in Nat
        BY <2>3, FS_CardinalityType
      <3> QED BY <3>1, <3>2, MaxCallsAssumption DEF IInv, TypeOK, SlotsConserved, Active
    <2>6. TotalCalls <= Cardinality(Cut) + Cardinality(Over)
      <3>1. IsFiniteSet(Wanted) /\ Cardinality(Wanted) = TotalCalls
        BY FS_Interval, TotalCallsAssumption
      <3>2. /\ IsFiniteSet(Cut \cup Over)
            /\ Cardinality(Cut \cup Over)
                 = Cardinality(Cut) + Cardinality(Over) - Cardinality(Cut \cap Over)
        BY <2>3, FS_Union
      <3>3. Cut \cap Over = {} /\ Cardinality(Cut \cap Over) = 0
        BY FS_EmptySet DEF At
      <3>4. TotalCalls <= Cardinality(Cut \cup Over)
        BY <2>2, <3>1, <3>2, FS_Subset
      <3>5. Cardinality(Cut) \in Nat /\ Cardinality(Over) \in Nat
        BY <2>3, FS_CardinalityType
      <3> QED BY <3>2, <3>3, <3>4, <3>5
    <2>7. Cardinality(Cut) \in Nat /\ Cardinality(Over) \in Nat
      BY <2>3, FS_CardinalityType
    <2> QED BY <2>1, <2>4, <2>5, <2>6, <2>7, TotalCallsAssumption, MaxCallsAssumption
  <1> QED BY <1>1, Invariant, EndHolds, PTL
=============================================================================
