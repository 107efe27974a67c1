------------------------------ MODULE XdpRules ------------------------------
(***************************************************************************)
(* The XDP program beside the dialogs that add, look up and delete its     *)
(* rules (DialogPorts; here a dialog with one port, as a UAC's).  An       *)
(* update of a key that exists puts a new element in the place of the old  *)
(* one, and a removed element goes back to the free list at once.          *)
(***************************************************************************)
EXTENDS DialogPorts, XdpProgram

vars == <<pc, portVars, elem, progVars, reportVars, writer>>

Zero == [pkts |-> 0, bytes |-> 0]
Key(p) == <<p, "rtp">>

Init ==
    /\ PortsInit
    /\ pc = [d \in Dialog |-> "new"]
    /\ elem = <<>>
    /\ val = [e \in Elem |-> Zero]
    /\ prog = [c \in Cpu |-> Idle]
    /\ report = [d \in Dialog |-> Zero]
    /\ own = {}
    /\ writer = [e \in Elem |-> CHOOSE d \in Dialog : TRUE]
    /\ hits = [d \in Dialog |-> 0]

-----------------------------------------------------------------------------
(* A mutated form of a definition below, a slip of the code. *)

FreshUncleared(e) == UNCHANGED val               \* the values are not passed on

-----------------------------------------------------------------------------
(* The dialogs.  Update sends zeroed counters with the key. *)

Fresh(e) == val' = [val EXCEPT ![e] = Zero]

GetPort(d) ==
    /\ pc[d] = "new"
    /\ BeginScan(d)
    /\ UNCHANGED <<elem, progVars, reportVars, writer>>

Scan(d) ==
    /\ TakePort(d)
    /\ Goto(d, "update")
    /\ UNCHANGED <<elem, progVars, reportVars, writer>>

Update(d) ==
    /\ pc[d] = "update"
    /\ UpdateRules(<<Key(lap[d][1])>>)
    /\ \E e \in Elem \ Range(elem) :
          /\ elem' = [k \in rules' |-> IF k = Key(lap[d][1]) THEN e ELSE elem[k]]
          /\ writer' = [writer EXCEPT ![e] = d]
          /\ Fresh(e)
    /\ Goto(d, "up")
    /\ UNCHANGED <<prog, hits, reportVars>>

UpdateFails(d) ==
    /\ pc[d] = "update"
    /\ UpdateStops(d, <<Key(lap[d][1])>>)
    /\ Goto(d, "begin")
    /\ UNCHANGED <<elem, progVars, reportVars, writer>>

Hangup(d) ==
    /\ pc[d] = "up"
    /\ Goto(d, "begin")
    /\ UNCHANGED <<portVars, elem, progVars, reportVars, writer>>

\* The lookup copies the counters; of a rule that is gone the report stays zero.
Report(d) ==
    /\ Lookup(d)
    /\ LET k == Key(lap[d][1]) IN
          IF k \in rules
            THEN /\ report' = [report EXCEPT ![d] = val[elem[k]]]
                 /\ own' = IF writer[elem[k]] = d THEN own \cup {d} ELSE own
            ELSE UNCHANGED reportVars
    /\ UNCHANGED <<elem, progVars, writer>>

\* The report stays zero as well when the lookup fails.
ReportFails(d) ==
    /\ LookupFails(d)
    /\ UNCHANGED <<elem, progVars, reportVars, writer>>

\* The element goes back to the free list at once.
Delete(d) ==
    /\ BatchDelete(d) \/ BatchDeleteFails(d)
    /\ elem' = [k \in rules' |-> elem[k]]
    /\ UNCHANGED <<progVars, reportVars, writer>>

Close(d) ==
    /\ BeginClose(d) \/ FreePort(d) \/ FreePortEnds(d)
    /\ UNCHANGED <<elem, progVars, reportVars, writer>>

Unlist(d) ==
    /\ pc[d] = "unlist"
    /\ Goto(d, "closed")
    /\ UNCHANGED <<portVars, elem, progVars, reportVars, writer>>

DialogStep(d) ==
    \/ GetPort(d) \/ Scan(d) \/ Update(d) \/ UpdateFails(d) \/ Hangup(d)
    \/ Report(d) \/ ReportFails(d) \/ Delete(d) \/ Close(d) \/ Unlist(d)

Next ==
    \/ \E d \in Dialog : DialogStep(d)
    \/ \E c \in Cpu : /\ Program(c)
                      /\ UNCHANGED <<pc, portVars, elem, reportVars, writer>>

Spec == Init /\ [][Next]_vars
=============================================================================
