------------------------------ MODULE UacCalls ------------------------------
(***************************************************************************)
(* How the UAC starts its calls and how the program ends (src/uac.go,      *)
(* src/sipbench.go): the goroutine of startCallMaker takes a slot of the   *)
(* channel calls and a token of the rate limiter for each call and starts  *)
(* a goroutine for it; main waits in waitShutdown for the context or a     *)
(* signal and then, in Uac.Close, for the dialogs to end.  What a call     *)
(* does between NewDialogUac and the end of MakeCall is UacDialogs, whose  *)
(* CallReturns is why a call here may be assumed to return, as long as two *)
(* calls do not keep each other from a port for ever.                      *)
(*                                                                         *)
(* golang.org/x/time/rate is external: Wait(ctx) fails at once if the      *)
(* burst is 0 or ctx is cancelled; otherwise it returns at once if there   *)
(* is a token, or at the first of a timer and ctx.Done, either if both.    *)
(* A signal before waitShutdown selects is lost or kills the process.      *)
(***************************************************************************)
EXTENDS Integers, FiniteSets

CONSTANTS TotalCalls,   \* the flag total-calls, 0 for no limit
          MaxCalls,     \* the flag max-calls: the capacity of channel calls
          Rate,         \* the flag rate: calls a second, and the burst
          Bound         \* bound on the calls a behaviour makes

ASSUME TotalCallsAssumption == TotalCalls \in Nat
ASSUME MaxCallsAssumption == MaxCalls \in Nat
ASSUME RateAssumption == Rate \in Nat
ASSUME BoundAssumption == Bound \in Nat /\ TotalCalls <= Bound

Call == 1 .. Bound

VARIABLES
    maker,      \* the next step of startCallMaker's goroutine
    i,          \* its loop counter: the calls it has set out to make
    calls,      \* how many elements channel calls holds
    cancelled,  \* baseUa.ctx is cancelled
    call,       \* call[c]: how far the goroutine of call c is
    current,    \* metricsCurrentDialogs
    main,       \* the next step of main's goroutine
    reason,     \* why waitShutdown returned from its select
    expired     \* the 80 seconds of Uac.Close are over

makerVars == <<maker, i>>
mainVars == <<main, reason, expired>>
vars == <<makerVars, calls, cancelled, call, current, mainVars>>

Init ==
    /\ maker = "loop"
    /\ i = 0
    /\ calls = 0
    /\ cancelled = FALSE
    /\ call = [c \in Call |-> "none"]
    /\ current = 0
    /\ main = "start"
    /\ reason = "none"
    /\ expired = FALSE

\* The calls whose goroutine is at one of the given steps.
At(steps) == {c \in Call : call[c] \in steps}

-----------------------------------------------------------------------------
(* Mutated forms of the definitions below, each a slip of the code. *)

MadeLate == TotalCalls # 0 /\ i = TotalCalls + 1  \* compared after i++

MadeEarly == TotalCalls # 0 /\ i = TotalCalls - 1  \* one call too few

EnoughUncancelled ==                             \* no u.cancel()
    /\ maker = "loop"
    /\ TotalCalls # 0 /\ i = TotalCalls
    /\ maker' = "done"
    /\ UNCHANGED <<i, calls, cancelled, call, current, mainVars>>

WaitBackground ==                                \* r.Wait(context.Background())
    /\ maker = "wait"
    /\ IF Rate = 0 THEN maker' = "quit" ELSE maker' \in {"spawn", "timer"}
    /\ UNCHANGED <<i, calls, cancelled, call, current, mainVars>>

ReleaseEarly(c) ==                               \* <-calls before MakeCall
    /\ call[c] = "spawned"
    /\ call' = [call EXCEPT ![c] = "running"]
    /\ current' = current + 1
    /\ calls' = calls - 1
    /\ UNCHANGED <<makerVars, cancelled, mainVars>>

ReleaseNothing(c) ==                             \* no <-calls
    /\ call[c] = "running"
    /\ call' = [call EXCEPT ![c] = "returned"]
    /\ UNCHANGED <<makerVars, calls, cancelled, current, mainVars>>

-----------------------------------------------------------------------------
(* startCallMaker *)

Made == TotalCalls # 0 /\ i = TotalCalls

\* The last call has been started: u.cancel() and the end of the loop.
Enough ==
    /\ maker = "loop"
    /\ Made
    /\ cancelled' = TRUE
    /\ maker' = "done"
    /\ UNCHANGED <<i, calls, call, current, mainVars>>

\* i++, and the end of the loop if the context is cancelled.
OneMore ==
    /\ maker = "loop"
    /\ ~Made
    /\ i < Bound
    /\ i' = i + 1
    /\ maker' = IF cancelled THEN "done" ELSE "slot"
    /\ UNCHANGED <<calls, cancelled, call, current, mainVars>>

\* calls <- struct{}{} blocks while the channel is full, cancelled or not.
TakeSlot ==
    /\ maker = "slot"
    /\ calls < MaxCalls
    /\ calls' = calls + 1
    /\ maker' = "wait"
    /\ UNCHANGED <<i, cancelled, call, current, mainVars>>

\* r.Wait: an error ends the maker, which keeps its slot.
Wait ==
    /\ maker = "wait"
    /\ \/ (Rate = 0 \/ cancelled) /\ maker' = "quit"
       \/ Rate # 0 /\ ~cancelled /\ maker' \in {"spawn", "timer"}
    /\ UNCHANGED <<i, calls, cancelled, call, current, mainVars>>

TokenDue ==
    /\ maker = "timer"
    /\ maker' = "spawn"
    /\ UNCHANGED <<i, calls, cancelled, call, current, mainVars>>

WaitCancelled ==
    /\ maker = "timer"
    /\ cancelled
    /\ maker' = "quit"
    /\ UNCHANGED <<i, calls, cancelled, call, current, mainVars>>

Spawn ==
    /\ maker = "spawn"
    /\ call' = [call EXCEPT ![i] = "spawned"]
    /\ maker' = "loop"
    /\ UNCHANGED <<i, calls, cancelled, current, mainVars>>

-----------------------------------------------------------------------------
(* The goroutine of a call *)

\* NewDialogUac counts the dialog when the goroutine first runs.
NewDialogUac(c) ==
    /\ call[c] = "spawned"
    /\ call' = [call EXCEPT ![c] = "running"]
    /\ current' = current + 1
    /\ UNCHANGED <<makerVars, calls, cancelled, mainVars>>

\* MakeCall has returned: <-calls, before the deferred Close.
ReleaseSlot(c) ==
    /\ call[c] = "running"
    /\ calls > 0
    /\ call' = [call EXCEPT ![c] = "returned"]
    /\ calls' = calls - 1
    /\ UNCHANGED <<makerVars, cancelled, current, mainVars>>

Close(c) ==
    /\ call[c] = "returned"
    /\ call' = [call EXCEPT ![c] = "closed"]
    /\ current' = current - 1
    /\ UNCHANGED <<makerVars, calls, cancelled, mainVars>>

-----------------------------------------------------------------------------
(* main: waitShutdown and Uac.Close *)

Listen ==
    /\ main = "start"
    /\ main' = "select"
    /\ UNCHANGED <<makerVars, calls, cancelled, call, current, reason, expired>>

ContextDone ==
    /\ main = "select"
    /\ cancelled
    /\ main' = "close" /\ reason' = "context"
    /\ UNCHANGED <<makerVars, calls, cancelled, call, current, expired>>

Signal ==
    /\ main = "select"
    /\ main' = "close" /\ reason' = "signal"
    /\ UNCHANGED <<makerVars, calls, cancelled, call, current, expired>>

\* Uac.Close cancels the context unless it is cancelled.
BeginClose ==
    /\ main = "close"
    /\ cancelled' = TRUE
    /\ main' = "poll"
    /\ UNCHANGED <<makerVars, calls, call, current, reason, expired>>

Expire ==
    /\ main = "poll"
    /\ ~expired
    /\ expired' = TRUE
    /\ UNCHANGED <<makerVars, calls, cancelled, call, current, main, reason>>

\* The loop over metricsCurrentDialogs ends, and after it the process.
Exit ==
    /\ main = "poll"
    /\ current = 0 \/ expired
    /\ main' = "exit"
    /\ UNCHANGED <<makerVars, calls, cancelled, call, current, reason, expired>>

-----------------------------------------------------------------------------
Maker == Enough \/ OneMore \/ TakeSlot \/ Wait \/ TokenDue \/ WaitCancelled \/ Spawn

CallStep(c) == NewDialogUac(c) \/ ReleaseSlot(c) \/ Close(c)

Main == Listen \/ ContextDone \/ BeginClose \/ Expire \/ Exit

\* No goroutine survives main.
Step ==
    /\ main # "exit"
    /\ \/ Maker
       \/ \E c \in Call : CallStep(c)
       \/ Main
       \/ Signal

Exited == main = "exit" /\ UNCHANGED vars

Next == Step \/ Exited

Spec == Init /\ [][Next]_vars

\* The scheduler runs every goroutine, the limiter's timer fires, the clock of
\* Uac.Close advances and every call returns (CallReturns of UacDialogs says when
\* it does); nobody need send a signal.
FairSpec ==
    /\ Spec
    /\ WF_vars(main # "exit" /\ Maker)
    /\ \A c \in Call : WF_vars(main # "exit" /\ CallStep(c))
    /\ WF_vars(main # "exit" /\ Main)

-----------------------------------------------------------------------------
(* Properties *)

\* Every variable has its type.
TypeOK ==
    /\ maker \in {"loop", "slot", "wait", "timer", "spawn", "done", "quit"}
    /\ i \in 0 .. Bound
    /\ calls \in 0 .. MaxCalls
    /\ cancelled \in BOOLEAN
    /\ call \in [Call -> {"none", "spawned", "running", "returned", "closed"}]
    /\ current \in 0 .. Bound
    /\ main \in {"start", "select", "close", "poll", "exit"}
    /\ reason \in {"none", "context", "signal"}
    /\ expired \in BOOLEAN

\* The slots taken are those of the calls that are active and of the maker:
\* none is lost on a path of startCallMaker's loop that goes on, so max-calls
\* calls can always be up again (uac.go:145-176).
MakerSlot == IF maker \in {"wait", "timer", "spawn", "quit"} THEN 1 ELSE 0

SlotsConserved == calls = Cardinality(At({"spawned", "running"})) + MakerSlot

\* "Maintains maximum of 10 concurrent active calls" (README.md:32): never
\* more than max-calls calls between the start of their goroutine and the end
\* of MakeCall, although the slot is taken by one goroutine and released by
\* another (uac.go:158, 174).
MaxActive == Cardinality(At({"spawned", "running"})) <= MaxCalls

\* With total-calls set no more calls than that are started (uac.go:147-151).
NoExtraCall == TotalCalls # 0 => Cardinality(Call \ At({"none"})) <= TotalCalls

\* Once the context is cancelled the maker starts at most the call it had a
\* token or a timer for, whatever it was doing (uac.go:153-166).
StopsMaking ==
    [][cancelled /\ maker \notin {"timer", "spawn"}
         => maker' \notin {"timer", "spawn"}]_vars

\* The process has come to its end because the maker has reached total-calls, and
\* not because of a signal or of the 80 seconds.
EndedByItself == main = "exit" /\ reason = "context" /\ ~expired

\* A process that has ended by itself has made all the calls: "Total number of calls
\* to make" (README.md:69).  It has not when the goroutine of a call has not counted
\* its dialog before Uac.Close reads the gauge (uac.go:148, 169, 202-206).
AllCallsMade ==
    EndedByItself => At({"none", "spawned"}) \cap 1 .. TotalCalls = {}

\* A process that has ended by itself has started all the calls, and max-calls at
\* most have not been made: each that was started and not made has a slot
\* (uac.go:147-158, 202-206).
FewCallsCut ==
    EndedByItself
        => /\ TotalCalls - Cardinality(Call \ At({"none", "spawned"})) <= MaxCalls
           /\ At({"none"}) \cap 1 .. TotalCalls = {}

\* "Stops after making 100 total calls" (README.md:33): with calls that
\* return, the program comes to its end without a signal.
Exits == TotalCalls # 0 /\ MaxCalls # 0 /\ Rate # 0 => <>(main = "exit")
=============================================================================
