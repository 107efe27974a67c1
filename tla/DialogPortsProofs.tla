-------------------------- MODULE DialogPortsProofs -------------------------
(***************************************************************************)
(* What the ports of a dialog go through from getPort to the end of Close, *)
(* for every set of dialogs and of ports: the invariants of DialogPorts on *)
(* which UasDialogsProofs and UacDialogsProofs build, and that each of its *)
(* actions keeps them.                                                     *)
(***************************************************************************)
EXTENDS DialogPorts, SequenceTheorems, FiniteSetTheorems, TLAPS

\* The pool lets a dialog have its ports up to Close, takes them back in the loop
\* of freePort, and has them all back when LookupAndDelete starts.
PhaseInv(d) ==
    /\ phase[d] = "open" <=> pc[d] \notin Over \ {"begin"}
    /\ phase[d] = "closing" <=> pc[d] = "free"
    /\ phase[d] = "open" => owned[d] = Ports(d)
    /\ phase[d] = "closed" => owned[d] = {}

\* LookupAndDelete looks up each port once, and finds a key for each at most.
LookupInv(d) ==
    /\ looked[d] <= Len(lap[d])
    /\ Len(keys[d]) <= looked[d]
    /\ pc[d] \notin Over \ {"begin", "free"} => looked[d] = 0
    /\ pc[d] = "free" => looked[d] = 0 /\ lap[d] # <<>>
    /\ pc[d] = "lookup" => looked[d] < Len(lap[d])

PortsInv(n) == PortsTypeOK(n) /\ \A d \in Dialog : PhaseInv(d) /\ LookupInv(d)

\* Dialog d is the one to delete the rule of its port p, if it is there at all: it
\* has still to look it up, or has noted its key.  Of a dialog with several ports,
\* and of one that the map refused an operation, nothing is said.
Keeps(d, p) ==
    /\ p \in Ports(d)
    /\ \/ Stays(d)
       \/ pc[d] \notin {"delete", "unlist", "closed"}
       \/ pc[d] = "delete" /\ <<p, "rtp">> \in Range(keys[d])

RulesKept ==
    \A p \in Port : <<p, "rtp">> \in rules => \E d \in Dialog : Keeps(d, p)

\* A step of a handler or of a peer, as the ports see it: a goroutine that is not
\* in Close goes on or enters Close, or one is through with it.
Moves ==
    \A d \in Dialog :
        \/ pc'[d] = pc[d]
        \/ pc[d] \notin Over /\ pc'[d] \notin Over \ {"begin"}
        \/ pc[d] = "unlist" /\ pc'[d] = "closed"

-----------------------------------------------------------------------------
(* Types. *)

\* A bounded sequence is a sequence of at most so many elements.
LEMMA BoundedSequences ==
    ASSUME NEW S, NEW n \in Nat, NEW s
    PROVE  s \in BoundedSeq(S, n) <=> s \in Seq(S) /\ Len(s) <= n
  <1>1. ASSUME NEW m \in 0 .. n, s \in [1 .. m -> S]
        PROVE  s \in Seq(S) /\ Len(s) <= n
    <2>1. s \in Seq(S)
      BY <1>1, SeqDef
    <2>2. DOMAIN s = 1 .. m /\ DOMAIN s = 1 .. Len(s) /\ Len(s) \in Nat
      BY <1>1, <2>1, LenProperties
    <2> QED BY <2>1, <2>2
  <1>2. ASSUME s \in Seq(S), Len(s) <= n
        PROVE  \E m \in 0 .. n : s \in [1 .. m -> S]
    BY <1>2, LenProperties
  <1> QED BY <1>1, <1>2 DEF BoundedSeq, SeqOf

\* What the types of the ports' variables are, dialog by dialog.
LEMMA PortsTyped ==
    ASSUME NEW n \in Nat, PortsTypeOK(n), NEW d \in Dialog
    PROVE  /\ owned[d] \in SUBSET Port
           /\ phase[d] \in {"open", "closing", "closed"}
           /\ lap[d] \in Seq(Port) /\ Len(lap[d]) \in 0 .. n
           /\ looked[d] \in 0 .. n
           /\ keys[d] \in Seq(Port \X {"rtp"}) /\ Len(keys[d]) \in 0 .. n
           /\ Ports(d) \in SUBSET Port
           /\ Ports(d) = {lap[d][i] : i \in 1 .. Len(lap[d])}
           /\ Range(keys[d]) = {keys[d][i] : i \in 1 .. Len(keys[d])}
  <1>1. lap[d] \in BoundedSeq(Port, n) /\ keys[d] \in BoundedSeq(Port \X {"rtp"}, n)
    BY DEF PortsTypeOK
  <1>2. /\ lap[d] \in Seq(Port) /\ Len(lap[d]) <= n
        /\ keys[d] \in Seq(Port \X {"rtp"}) /\ Len(keys[d]) <= n
    BY <1>1, BoundedSequences
  <1>3. /\ DOMAIN lap[d] = 1 .. Len(lap[d]) /\ Len(lap[d]) \in Nat
        /\ DOMAIN keys[d] = 1 .. Len(keys[d]) /\ Len(keys[d]) \in Nat
        /\ \A i \in 1 .. Len(lap[d]) : lap[d][i] \in Port
    BY <1>2, LenProperties
  <1>4. owned[d] \in SUBSET Port /\ phase[d] \in {"open", "closing", "closed"}
        /\ looked[d] \in 0 .. n
    BY DEF PortsTypeOK
  <1>5. Ports(d) = {lap[d][i] : i \in 1 .. Len(lap[d])}
        /\ Range(keys[d]) = {keys[d][i] : i \in 1 .. Len(keys[d])}
    BY <1>3 DEF Ports, Range
  <1> QED BY <1>2, <1>3, <1>4, <1>5

\* A dialog with a port more has that port besides the others.
LEMMA PortAppended ==
    ASSUME NEW s \in Seq(Port), NEW p \in Port
    PROVE  /\ Append(s, p) \in Seq(Port)
           /\ Len(Append(s, p)) = Len(s) + 1
           /\ Range(Append(s, p)) = Range(s) \cup {p}
  <1>1. /\ Append(s, p) \in Seq(Port) /\ Len(Append(s, p)) = Len(s) + 1
        /\ \A i \in 1 .. Len(s) : Append(s, p)[i] = s[i]
        /\ Append(s, p)[Len(s) + 1] = p
    BY AppendProperties
  <1>2. DOMAIN Append(s, p) = 1 .. Len(s) + 1 /\ DOMAIN s = 1 .. Len(s) /\ Len(s) \in Nat
    BY <1>1, LenProperties
  <1>3. 1 .. Len(s) + 1 = (1 .. Len(s)) \cup {Len(s) + 1}
    BY <1>2
  <1> QED BY <1>1, <1>2, <1>3 DEF Range

-----------------------------------------------------------------------------
(* The start, and the steps that take or free no port. *)

\* No dialog has a port, and no port a rule.
LEMMA PortsStart ==
    ASSUME NEW n \in Nat, PortsInit, pc = [d \in Dialog |-> "new"]
    PROVE  PortsInv(n) /\ RulesKept
  <1>1. /\ <<>> \in Seq(Port) /\ Len(<<>>) = 0
        /\ <<>> \in Seq(Port \X {"rtp"})
        /\ Range(<<>>) = {}
    BY EmptySeq DEF Range
  <1>2. <<>> \in BoundedSeq(Port, n) /\ <<>> \in BoundedSeq(Port \X {"rtp"}, n)
    <2>1. Len(<<>>) <= n
      BY <1>1
    <2>2. \A S, s : s \in BoundedSeq(S, n) <=> s \in Seq(S) /\ Len(s) <= n
      BY BoundedSequences
    <2> QED BY <1>1, <2>1, <2>2
  <1>3. PortsTypeOK(n)
    BY <1>2 DEF PortsInit, PoolInit, PortsTypeOK
  <1>4. ASSUME NEW d \in Dialog
        PROVE  PhaseInv(d) /\ LookupInv(d)
    BY <1>1 DEF PortsInit, PoolInit, PhaseInv, LookupInv, Ports, Over, Closing
  <1>5. RulesKept
    BY DEF PortsInit, RulesKept
  <1> QED BY <1>3, <1>4, <1>5 DEF PortsInv

\* A step with nothing to do with the ports leaves their invariant as it is.
LEMMA PortsUntouched ==
    ASSUME NEW n \in Nat, PortsInv(n), Moves, UNCHANGED portVars
    PROVE  PortsInv(n)' /\ (RulesKept => RulesKept')
  <1> USE DEF portVars, poolVars, ruleVars
  <1>1. PortsTypeOK(n)'
    BY DEF PortsInv, PortsTypeOK
  <1>2. ASSUME NEW d \in Dialog
        PROVE  PhaseInv(d)' /\ LookupInv(d)'
    BY DEF PortsInv, PhaseInv, LookupInv, Moves, Over, Closing, Ports
  <1>3. ASSUME NEW d \in Dialog, NEW p \in Port, Keeps(d, p)
        PROVE  Keeps(d, p)'
    BY <1>3 DEF Keeps, Stays, Moves, Over, Closing, Ports
  <1>4. RulesKept => RulesKept'
    BY <1>3 DEF RulesKept
  <1> QED BY <1>1, <1>2, <1>4 DEF PortsInv

\* getPort: the port is the dialog's and no one else's until freePort.
LEMMA PortTaken ==
    ASSUME NEW n \in Nat, PortsInv(n), NEW d \in Dialog, TakePort(d), Moves,
           Len(lap[d]) < n
    PROVE  /\ PortsInv(n)' /\ (RulesKept => RulesKept')
           /\ Len(lap'[d]) = Len(lap[d]) + 1
           /\ \A e \in Dialog \ {d} : lap'[e] = lap[e]
  <1>1. PICK p \in Port :
           /\ phase[d] = "open"
           /\ owned' = [owned EXCEPT ![d] = owned[d] \cup {p}]
           /\ lap' = [lap EXCEPT ![d] = Append(lap[d], p)]
    BY DEF TakePort, Acquire
  <1>2. UNCHANGED <<phase, rules, looked, keys, refused>>
    BY DEF TakePort, Acquire, ruleVars
  <1>3. PortsTypeOK(n)
    BY DEF PortsInv
  <1>4. lap[d] \in Seq(Port) /\ Len(lap[d]) \in 0 .. n
    BY <1>3, PortsTyped
  <1>5. /\ Append(lap[d], p) \in Seq(Port)
        /\ Len(Append(lap[d], p)) = Len(lap[d]) + 1
        /\ Range(Append(lap[d], p)) = Ports(d) \cup {p}
    BY <1>4, PortAppended DEF Ports
  <1>6. Append(lap[d], p) \in BoundedSeq(Port, n)
    <2>1. Len(Append(lap[d], p)) <= n
      BY <1>4, <1>5
    <2> QED BY <1>5, <2>1, BoundedSequences
  <1>7. PortsTypeOK(n)'
    BY <1>1, <1>2, <1>3, <1>6 DEF PortsTypeOK
  <1>8. /\ lap'[d] = Append(lap[d], p) /\ owned'[d] = owned[d] \cup {p}
        /\ \A e \in Dialog \ {d} : lap'[e] = lap[e] /\ owned'[e] = owned[e]
    BY <1>1, <1>3 DEF PortsTypeOK
  <1>9. /\ Ports(d)' = Ports(d) \cup {p}
        /\ \A e \in Dialog \ {d} : Ports(e)' = Ports(e)
    BY <1>5, <1>8 DEF Ports
  <1>10. pc[d] \notin Over \ {"begin"} /\ pc'[d] \notin Over \ {"begin"}
    BY <1>1 DEF PortsInv, PhaseInv, Moves, Over, Closing
  <1>11. ASSUME NEW e \in Dialog
         PROVE  PhaseInv(e)' /\ LookupInv(e)'
    <2>1. PhaseInv(e) /\ LookupInv(e)
      BY DEF PortsInv
    <2>2. CASE e = d
      <3>1. PhaseInv(d)'
        BY <1>1, <1>2, <1>8, <1>9, <1>10, <2>1, <2>2 DEF PhaseInv, Over, Closing
      <3>2. looked[d] \in Nat /\ Len(lap[d]) \in Nat
        BY <1>3, PortsTyped
      <3>3. LookupInv(d)'
        BY <1>2, <1>5, <1>8, <1>10, <2>1, <2>2, <3>2 DEF LookupInv, Over, Closing
      <3> QED BY <2>2, <3>1, <3>3
    <2>3. CASE e # d
      BY <1>2, <1>8, <1>9, <2>1, <2>3 DEF PhaseInv, LookupInv, Moves, Over, Closing
    <2> QED BY <2>2, <2>3
  <1>12. ASSUME NEW e \in Dialog, NEW q \in Port, Keeps(e, q)
         PROVE  Keeps(e, q)'
    <2>1. e # d => (Stays(e) <=> Stays(e)')
      BY <1>2, <1>8 DEF Stays
    <2> QED BY <1>2, <1>8, <1>9, <1>10, <1>12, <2>1 DEF Keeps, Moves, Over, Closing
  <1>13. RulesKept => RulesKept'
    BY <1>2, <1>12 DEF RulesKept
  <1> QED BY <1>5, <1>7, <1>8, <1>11, <1>13 DEF PortsInv

\* Update and an Update that stops half way: the rules that are added are of the
\* ports of a dialog that has not begun to close.
LEMMA RulesAdded ==
    ASSUME NEW n \in Nat, PortsInv(n), NEW d \in Dialog, Moves,
           pc[d] \notin Over,
           NEW added \in SUBSET (Ports(d) \X {"rtp", "rtcp"}),
           rules' = rules \cup added,
           UNCHANGED <<poolVars, lap, looked, keys, refused>>
    PROVE  PortsInv(n)' /\ (RulesKept => RulesKept')
  <1> USE DEF poolVars
  <1>1. PortsTypeOK(n)
    BY DEF PortsInv
  <1>2. Ports(d) \subseteq Port
    BY <1>1, PortsTyped
  <1>3. PortsTypeOK(n)'
    BY <1>1, <1>2 DEF PortsTypeOK
  <1>4. ASSUME NEW e \in Dialog
        PROVE  PhaseInv(e)' /\ LookupInv(e)'
    BY DEF PortsInv, PhaseInv, LookupInv, Moves, Over, Closing, Ports
  <1>5. ASSUME NEW e \in Dialog, NEW p \in Port, Keeps(e, p)
        PROVE  Keeps(e, p)'
    BY <1>5 DEF Keeps, Stays, Moves, Over, Closing, Ports
  <1>6. ASSUME NEW p \in Port, <<p, "rtp">> \in added
        PROVE  Keeps(d, p)'
    BY <1>6 DEF Keeps, Stays, Moves, Over, Closing, Ports
  <1>7. RulesKept => RulesKept'
    BY <1>5, <1>6 DEF RulesKept
  <1> QED BY <1>3, <1>4, <1>7 DEF PortsInv

\* The keys a handler gives to ebpf.Update, as far as the map takes them.
LEMMA RulesUpdated ==
    ASSUME NEW n \in Nat, PortsInv(n), NEW d \in Dialog, Moves, pc[d] \notin Over,
           NEW ks \in Seq(Ports(d) \X {"rtp", "rtcp"}),
           UpdateRules(ks) \/ UpdateStops(d, ks)
    PROVE  PortsInv(n)' /\ (RulesKept => RulesKept')
  <1>1. DOMAIN ks = 1 .. Len(ks) /\ Len(ks) \in Nat
        /\ \A i \in 1 .. Len(ks) : ks[i] \in Ports(d) \X {"rtp", "rtcp"}
    BY LenProperties
  <1>2. Range(ks) \subseteq Ports(d) \X {"rtp", "rtcp"}
    BY <1>1 DEF Range
  <1>3. CASE UpdateRules(ks)
    BY <1>2, <1>3, RulesAdded DEF UpdateRules
  <1>4. CASE UpdateStops(d, ks)
    <2>1. PICK k \in 0 .. Len(ks) - 1 : rules' = rules \cup Range(SubSeq(ks, 1, k))
      BY <1>4 DEF UpdateStops
    <2>2. k \in Int /\ \A i \in 1 .. k : ks[i] \in Ports(d) \X {"rtp", "rtcp"}
      BY <1>1
    <2>3. SubSeq(ks, 1, k) \in Seq(Ports(d) \X {"rtp", "rtcp"})
      BY <2>2, SubSeqProperties
    <2>4. Range(SubSeq(ks, 1, k)) \subseteq Ports(d) \X {"rtp", "rtcp"}
      BY <2>3, LenProperties DEF Range
    <2> QED BY <1>4, <2>1, <2>4, RulesAdded DEF UpdateStops
  <1> QED BY <1>3, <1>4

-----------------------------------------------------------------------------
(* Close. *)

\* A step of Close concerns the goroutine of one dialog.
LEMMA GoesTo ==
    ASSUME NEW L, pc \in [Dialog -> L], NEW d \in Dialog, NEW label, Goto(d, label)
    PROVE  pc'[d] = label /\ \A e \in Dialog \ {d} : pc'[e] = pc[e]
  BY DEF Goto

\* The dialogs a step of Close is not about keep what the invariants say of them.
LEMMA OthersUntouched ==
    ASSUME NEW e \in Dialog, PhaseInv(e), LookupInv(e),
           pc'[e] = pc[e], owned'[e] = owned[e], phase'[e] = phase[e],
           lap'[e] = lap[e], looked'[e] = looked[e], keys'[e] = keys[e],
           refused \subseteq refused'
    PROVE  /\ PhaseInv(e)' /\ LookupInv(e)'
           /\ \A p \in Port : Keeps(e, p) => Keeps(e, p)'
  BY DEF PhaseInv, LookupInv, Keeps, Stays, Ports

\* A dialog without a port has nothing to free.
LEMMA CloseBegun ==
    ASSUME NEW n \in Nat, PortsInv(n), NEW L, pc \in [Dialog -> L],
           NEW d \in Dialog, BeginClose(d)
    PROVE  PortsInv(n)' /\ (RulesKept => RulesKept')
  <1>1. PortsTypeOK(n) /\ PhaseInv(d) /\ LookupInv(d)
    BY DEF PortsInv
  <1>2. UNCHANGED <<owned, lap, rules, looked, keys, refused>>
    BY DEF BeginClose, BeginRelease, EndRelease, ruleVars
  <1>3. \/ lap[d] = <<>> /\ phase' = [phase EXCEPT ![d] = "closed"] /\ Goto(d, "unlist")
           /\ owned[d] = {}
        \/ lap[d] # <<>> /\ phase' = [phase EXCEPT ![d] = "closing"] /\ Goto(d, "free")
    BY DEF BeginClose, BeginRelease, EndRelease
  <1>4. PortsTypeOK(n)'
    BY <1>1, <1>2, <1>3 DEF PortsTypeOK
  <1>5. pc[d] = "begin" /\ Len(lap[d]) \in Nat
    BY <1>1, PortsTyped DEF BeginClose
  <1>6. \A e \in Dialog \ {d} : pc'[e] = pc[e] /\ phase'[e] = phase[e]
    BY <1>1, <1>3, GoesTo DEF PortsTypeOK
  <1>7. \/ lap[d] = <<>> /\ owned[d] = {} /\ phase'[d] = "closed" /\ pc'[d] = "unlist"
        \/ lap[d] # <<>> /\ phase'[d] = "closing" /\ pc'[d] = "free"
    BY <1>1, <1>3, GoesTo DEF PortsTypeOK
  <1>8. PhaseInv(d)' /\ LookupInv(d)'
    BY <1>1, <1>2, <1>5, <1>7 DEF PhaseInv, LookupInv, Over, Closing, Ports
  <1>9. ASSUME NEW p \in Port, Keeps(d, p)
        PROVE  Keeps(d, p)'
    <2>1. lap[d] # <<>>
      BY <1>9, EmptySeq DEF Keeps, Ports, Range
    <2> QED BY <1>2, <1>7, <1>9, <2>1 DEF Keeps, Stays, Ports
  <1>10. \A e \in Dialog \ {d} :
            /\ PhaseInv(e)' /\ LookupInv(e)'
            /\ \A p \in Port : Keeps(e, p) => Keeps(e, p)'
    BY <1>2, <1>6, OthersUntouched DEF PortsInv
  <1>11. RulesKept => RulesKept'
    BY <1>2, <1>9, <1>10 DEF RulesKept
  <1> QED BY <1>4, <1>8, <1>10, <1>11 DEF PortsInv

\* freePort: an iteration of its loop, and its end.
LEMMA PortsFreed ==
    ASSUME NEW n \in Nat, PortsInv(n), NEW L, pc \in [Dialog -> L],
           NEW d \in Dialog, FreePort(d) \/ FreePortEnds(d)
    PROVE  PortsInv(n)' /\ (RulesKept => RulesKept')
  <1>1. PortsTypeOK(n) /\ PhaseInv(d) /\ LookupInv(d) /\ pc[d] = "free"
    BY DEF PortsInv, FreePort, FreePortEnds
  <1>2. UNCHANGED <<lap, rules, looked, keys, refused>>
    BY DEF FreePort, FreePortEnds, ruleVars
  <1>3. /\ lap[d] \in Seq(Port) /\ Len(lap[d]) \in Nat /\ looked[d] \in Nat
        /\ Len(keys[d]) \in Nat /\ Len(lap[d]) > 0
    BY <1>1, PortsTyped, EmptySeq DEF LookupInv
  <1>4. /\ PortsTypeOK(n)' /\ PhaseInv(d)' /\ LookupInv(d)'
        /\ pc'[d] \in {"free", "lookup"}
        /\ \A e \in Dialog \ {d} :
              pc'[e] = pc[e] /\ phase'[e] = phase[e] /\ owned'[e] = owned[e]
    <2>1. CASE FreePort(d)
      <3>1. PICK p : owned' = [owned EXCEPT ![d] = owned[d] \ {p}]
        BY <2>1 DEF FreePort, Release
      <3>2. UNCHANGED <<pc, phase>>
        BY <2>1 DEF FreePort, Release
      <3>3. PortsTypeOK(n)'
        BY <1>1, <1>2, <3>1, <3>2 DEF PortsTypeOK
      <3> QED BY <1>1, <1>2, <3>1, <3>2, <3>3
              DEF PortsTypeOK, PhaseInv, LookupInv, Over, Closing
    <2>2. CASE FreePortEnds(d)
      <3>1. /\ phase' = [phase EXCEPT ![d] = "closed"] /\ owned' = owned /\ owned[d] = {}
            /\ Goto(d, "lookup")
        BY <2>2 DEF FreePortEnds, EndRelease
      <3>2. PortsTypeOK(n)'
        BY <1>1, <1>2, <3>1 DEF PortsTypeOK
      <3>3. /\ pc'[d] = "lookup" /\ phase'[d] = "closed"
            /\ \A e \in Dialog \ {d} : pc'[e] = pc[e] /\ phase'[e] = phase[e]
        BY <1>1, <3>1, GoesTo DEF PortsTypeOK
      <3> QED BY <1>1, <1>2, <1>3, <3>1, <3>2, <3>3
              DEF PhaseInv, LookupInv, Over, Closing
    <2> QED BY <2>1, <2>2
  <1>5. \A p \in Port : Keeps(d, p) => Keeps(d, p)'
    BY <1>1, <1>2, <1>4 DEF Keeps, Stays, Ports
  <1>6. \A e \in Dialog \ {d} :
           /\ PhaseInv(e)' /\ LookupInv(e)'
           /\ \A p \in Port : Keeps(e, p) => Keeps(e, p)'
    BY <1>2, <1>4, OthersUntouched DEF PortsInv
  <1>7. RulesKept => RulesKept'
    BY <1>2, <1>5, <1>6 DEF RulesKept
  <1> QED BY <1>4, <1>6, <1>7 DEF PortsInv

\* Of a dialog with one port there is one to look up, and one key to find.
LEMMA OneAtMost ==
    ASSUME NEW i \in Int, NEW j \in Int
    PROVE  /\ 0 <= i /\ i < j /\ ~(j > 1) => i = 0 /\ j = 1
           /\ \A k, m \in Int :
                 1 <= i /\ i <= j /\ j <= k /\ k <= m /\ ~(m > 1) => i = 1 /\ j = 1
  OBVIOUS

\* LookupAndDelete finds the rule of the port it looks up, if it is there and the
\* map gives it.
LEMMA PortLookedUp ==
    ASSUME NEW n \in Nat, PortsInv(n), NEW L, pc \in [Dialog -> L],
           NEW d \in Dialog, Lookup(d) \/ LookupFails(d)
    PROVE  PortsInv(n)' /\ (RulesKept => RulesKept')
  <1> DEFINE k == looked[d] + 1
             key == <<lap[d][k], "rtp">>
  <1>1. PortsTypeOK(n) /\ PhaseInv(d) /\ LookupInv(d) /\ pc[d] = "lookup"
    BY DEF PortsInv, Lookup, LookupFails, NextLookup
  <1>2. /\ UNCHANGED <<owned, phase, lap, rules>>
        /\ looked' = [looked EXCEPT ![d] = k]
        /\ \/ /\ UNCHANGED refused
              /\ keys' = [keys EXCEPT ![d] = IF key \in rules THEN Append(keys[d], key)
                                                             ELSE keys[d]]
           \/ refused' = refused \cup {d} /\ UNCHANGED keys
        /\ d \in refused' \/ UNCHANGED refused
        /\ Goto(d, IF k = Len(lap[d]) THEN "delete" ELSE "lookup")
    BY DEF Lookup, LookupFails, NextLookup, poolVars
  <1>3. /\ lap[d] \in Seq(Port) /\ Len(lap[d]) \in 0 .. n /\ looked[d] \in 0 .. n
        /\ keys[d] \in Seq(Port \X {"rtp"}) /\ Len(keys[d]) \in 0 .. n
    BY <1>1, PortsTyped
  <1>4. looked[d] < Len(lap[d]) /\ Len(keys[d]) <= looked[d]
    BY <1>1 DEF LookupInv
  <1>5. k \in 1 .. Len(lap[d]) /\ k \in 1 .. n
    BY <1>3, <1>4
  <1>6. key \in Port \X {"rtp"}
    BY <1>3, <1>5, LenProperties
  <1>7. /\ looked'[d] = k
        /\ keys'[d] \in {keys[d], Append(keys[d], key)}
        /\ d \notin refused' /\ key \in rules => keys'[d] = Append(keys[d], key)
        /\ refused \subseteq refused' /\ refused' \subseteq Dialog
        /\ pc'[d] = IF k = Len(lap[d]) THEN "delete" ELSE "lookup"
        /\ \A e \in Dialog \ {d} :
              looked'[e] = looked[e] /\ keys'[e] = keys[e] /\ pc'[e] = pc[e]
    <2>1. /\ pc'[d] = IF k = Len(lap[d]) THEN "delete" ELSE "lookup"
          /\ \A e \in Dialog \ {d} : pc'[e] = pc[e]
      BY <1>2, GoesTo
    <2>2. looked'[d] = k /\ \A e \in Dialog \ {d} : looked'[e] = looked[e]
      BY <1>1, <1>2 DEF PortsTypeOK
    <2>3. /\ keys'[d] \in {keys[d], Append(keys[d], key)}
          /\ d \notin refused' /\ key \in rules => keys'[d] = Append(keys[d], key)
          /\ \A e \in Dialog \ {d} : keys'[e] = keys[e]
      BY <1>1, <1>2 DEF PortsTypeOK
    <2>4. refused \subseteq refused' /\ refused' \subseteq Dialog
      BY <1>1, <1>2 DEF PortsTypeOK
    <2> QED BY <2>1, <2>2, <2>3, <2>4
  <1>8. /\ Append(keys[d], key) \in Seq(Port \X {"rtp"})
        /\ Len(Append(keys[d], key)) = Len(keys[d]) + 1
        /\ Append(keys[d], key)[Len(keys[d]) + 1] = key
    BY <1>3, <1>6, AppendProperties
  <1>9. keys'[d] \in Seq(Port \X {"rtp"}) /\ Len(keys'[d]) <= k
    <2>1. Len(keys[d]) <= k /\ Len(keys[d]) + 1 <= k
      BY <1>3, <1>4
    <2>2. CASE keys'[d] = keys[d]
      BY <1>3, <2>1, <2>2
    <2>3. CASE keys'[d] = Append(keys[d], key)
      BY <1>8, <2>1, <2>3
    <2> QED BY <1>7, <2>2, <2>3
  <1>10. keys'[d] \in BoundedSeq(Port \X {"rtp"}, n)
    <2>1. Len(keys'[d]) \in Nat
      BY <1>9, LenProperties
    <2>2. Len(keys'[d]) <= n
      BY <1>5, <1>9, <2>1
    <2>3. \A S, s : s \in BoundedSeq(S, n) <=> s \in Seq(S) /\ Len(s) <= n
      BY BoundedSequences
    <2> QED BY <1>9, <2>2, <2>3
  <1>11. PortsTypeOK(n)'
    <2>1. looked' \in [Dialog -> 0 .. n]
      BY <1>1, <1>2, <1>5 DEF PortsTypeOK
    <2>2. keys' = [keys EXCEPT ![d] = keys'[d]]
      BY <1>1, <1>2, <1>7 DEF PortsTypeOK
    <2>3. keys' \in [Dialog -> BoundedSeq(Port \X {"rtp"}, n)]
      BY <1>1, <1>10, <2>2 DEF PortsTypeOK
    <2> QED BY <1>1, <1>2, <1>7, <2>1, <2>3 DEF PortsTypeOK
  <1>12. PhaseInv(d)'
    BY <1>1, <1>2, <1>7 DEF PhaseInv, Over, Closing, Ports
  <1>13. LookupInv(d)'
    BY <1>1, <1>2, <1>3, <1>5, <1>7, <1>9 DEF LookupInv, Over, Closing
  <1>14. ASSUME NEW p \in Port, Keeps(d, p), <<p, "rtp">> \in rules
         PROVE  Keeps(d, p)'
    <2>1. CASE Len(lap[d]) > 1 \/ d \in refused'
      BY <1>2, <1>14, <2>1 DEF Keeps, Stays, Ports
    <2>2. CASE ~(Len(lap[d]) > 1) /\ d \notin refused'
      <3>1. Len(lap[d]) = 1 /\ looked[d] = 0 /\ k = 1
        <4>1. Len(lap[d]) \in Int /\ looked[d] \in Int /\ 0 <= looked[d]
          BY <1>3
        <4>2. looked[d] = 0 /\ Len(lap[d]) = 1
          BY <1>4, <2>2, <4>1, OneAtMost
        <4> QED BY <4>2
      <3>2. p = lap[d][1]
        BY <1>1, <1>14, <3>1, PortsTyped DEF Keeps
      <3>3. keys'[d] = Append(keys[d], key) /\ key = <<p, "rtp">>
        BY <1>7, <1>14, <2>2, <3>1, <3>2
      <3>4. DOMAIN Append(keys[d], key) = 1 .. Len(keys[d]) + 1 /\ Len(keys[d]) \in Nat
        BY <1>3, <1>8, LenProperties
      <3>5. <<p, "rtp">> \in Range(keys'[d])
        <4> DEFINE s == Append(keys[d], key)
                   i == Len(keys[d]) + 1
        <4>1. i \in DOMAIN s /\ s[i] = key
          BY <1>8, <3>4
        <4> HIDE DEF s, i
        <4>2. key \in Range(s)
          BY <4>1 DEF Range
        <4> QED BY <3>3, <4>2 DEF s
      <3> QED BY <1>2, <1>7, <1>14, <3>1, <3>5 DEF Keeps, Stays, Ports
    <2> QED BY <2>1, <2>2
  <1>15. \A e \in Dialog \ {d} :
            /\ PhaseInv(e)' /\ LookupInv(e)'
            /\ \A p \in Port : Keeps(e, p) => Keeps(e, p)'
    BY <1>2, <1>7, OthersUntouched DEF PortsInv
  <1>16. RulesKept => RulesKept'
    BY <1>2, <1>14, <1>15 DEF RulesKept
  <1> QED BY <1>11, <1>12, <1>13, <1>15, <1>16 DEF PortsInv

\* BatchDelete deletes the one key a dialog with one port has found.
LEMMA OnlyKeyDeleted ==
    ASSUME NEW ks, NEW S, ks \in Seq(S), Len(ks) = 1, ks[1] \in rules
    PROVE  ks[1] \in Range(SubSeq(ks, 1, Deleted(ks)))
  <1>1. DOMAIN ks = {1}
    BY LenProperties
  <1>2. {m \in DOMAIN ks : \A i \in 1 .. m : ks[i] \in rules} = {1}
    BY <1>1
  <1>3. Deleted(ks) = 1
    BY <1>2, FS_Singleton DEF Deleted
  <1>4. SubSeq(ks, 1, Deleted(ks)) = ks
    BY <1>3, SubSeqFull
  <1> QED BY <1>1, <1>4 DEF Range

\* BatchDelete leaves no rule that was its dialog's to delete, unless it fails.
LEMMA RulesDeleted ==
    ASSUME NEW n \in Nat, PortsInv(n), NEW L, pc \in [Dialog -> L],
           NEW d \in Dialog, BatchDelete(d) \/ BatchDeleteFails(d)
    PROVE  PortsInv(n)' /\ (RulesKept => RulesKept')
  <1>1. PortsTypeOK(n) /\ PhaseInv(d) /\ LookupInv(d) /\ pc[d] = "delete"
    BY DEF PortsInv, BatchDelete, BatchDeleteFails, DeleteKeys
  <1>2. /\ UNCHANGED <<owned, phase, lap>>
        /\ looked' = [looked EXCEPT ![d] = 0]
        /\ keys' = [keys EXCEPT ![d] = <<>>]
        /\ \/ d \in refused'
           \/ rules' = rules \ Range(SubSeq(keys[d], 1, Deleted(keys[d])))
        /\ rules' \subseteq rules
        /\ refused \subseteq refused' /\ refused' \subseteq refused \cup {d}
        /\ Goto(d, "unlist")
    BY DEF BatchDelete, BatchDeleteFails, DeleteKeys, poolVars
  <1>3. /\ pc'[d] = "unlist" /\ looked'[d] = 0 /\ keys'[d] = <<>>
        /\ \A e \in Dialog \ {d} :
              pc'[e] = pc[e] /\ looked'[e] = looked[e] /\ keys'[e] = keys[e]
    BY <1>1, <1>2, GoesTo DEF PortsTypeOK
  <1>4. PortsTypeOK(n)'
    <2>1. <<>> \in BoundedSeq(Port \X {"rtp"}, n)
      <3>1. <<>> \in Seq(Port \X {"rtp"}) /\ Len(<<>>) = 0
        BY EmptySeq
      <3>2. \A S, s : s \in BoundedSeq(S, n) <=> s \in Seq(S) /\ Len(s) <= n
        BY BoundedSequences
      <3>3. Len(<<>>) <= n
        BY <3>1
      <3> QED BY <3>1, <3>2, <3>3
    <2>2. 0 \in 0 .. n
      OBVIOUS
    <2> QED BY <1>1, <1>2, <2>1, <2>2 DEF PortsTypeOK
  <1>5. PhaseInv(d)' /\ LookupInv(d)'
    <2>1. Len(keys'[d]) = 0 /\ Len(lap'[d]) \in Nat
      BY <1>1, <1>2, <1>3, PortsTyped, EmptySeq
    <2> QED BY <1>1, <1>2, <1>3, <2>1 DEF PhaseInv, LookupInv, Over, Closing, Ports
  <1>6. ASSUME NEW p \in Port, Keeps(d, p), <<p, "rtp">> \in rules'
        PROVE  Keeps(d, p)'
    <2>1. CASE Len(lap[d]) > 1 \/ d \in refused'
      BY <1>2, <1>6, <2>1 DEF Keeps, Stays, Ports
    <2>2. CASE ~(Len(lap[d]) > 1) /\ d \notin refused'
      <3>1. <<p, "rtp">> \in Range(keys[d])
        BY <1>1, <1>2, <1>6, <2>2 DEF Keeps, Stays
      <3>2. /\ keys[d] \in Seq(Port \X {"rtp"}) /\ Len(keys[d]) \in Nat
            /\ Len(keys[d]) <= looked[d] /\ looked[d] <= Len(lap[d])
            /\ looked[d] \in Nat /\ Len(lap[d]) \in Nat
            /\ Range(keys[d]) = {keys[d][i] : i \in 1 .. Len(keys[d])}
        <4>1. Len(keys[d]) <= looked[d] /\ looked[d] <= Len(lap[d])
          BY <1>1 DEF LookupInv
        <4>2. /\ keys[d] \in Seq(Port \X {"rtp"}) /\ Len(keys[d]) \in 0 .. n
              /\ looked[d] \in 0 .. n /\ Len(lap[d]) \in 0 .. n
              /\ Range(keys[d]) = {keys[d][i] : i \in 1 .. Len(keys[d])}
          BY <1>1, PortsTyped
        <4> QED BY <4>1, <4>2
      <3>3. PICK i \in 1 .. Len(keys[d]) : keys[d][i] = <<p, "rtp">>
        BY <3>1, <3>2
      <3>4. Len(keys[d]) = 1 /\ i = 1
        <4>1. /\ i \in Int /\ 1 <= i /\ i <= Len(keys[d])
              /\ Len(keys[d]) \in Int /\ looked[d] \in Int /\ Len(lap[d]) \in Int
          BY <3>2, <3>3
        <4> QED BY <2>2, <3>2, <4>1, OneAtMost
      <3>5. keys[d][1] \in Range(SubSeq(keys[d], 1, Deleted(keys[d])))
        BY <1>2, <1>6, <3>2, <3>3, <3>4, OnlyKeyDeleted
      <3> QED BY <1>2, <1>6, <2>2, <3>3, <3>4, <3>5
    <2> QED BY <2>1, <2>2
  <1>7. \A e \in Dialog \ {d} :
           /\ PhaseInv(e)' /\ LookupInv(e)'
           /\ \A p \in Port : Keeps(e, p) => Keeps(e, p)'
    BY <1>2, <1>3, OthersUntouched DEF PortsInv
  <1>8. RulesKept => RulesKept'
    BY <1>2, <1>6, <1>7 DEF RulesKept
  <1> QED BY <1>4, <1>5, <1>7, <1>8 DEF PortsInv

\* Close, step by step; a step goes from one label of Close to another.
LEMMA PortsClosed ==
    ASSUME NEW n \in Nat, PortsInv(n), NEW L, pc \in [Dialog -> L],
           NEW d \in Dialog, CloseStep(d)
    PROVE  /\ PortsInv(n)' /\ (RulesKept => RulesKept')
           /\ pc[d] \in Closing /\ pc'[d] \in Closing
           /\ \A e \in Dialog \ {d} : pc'[e] = pc[e]
           /\ UNCHANGED lap
           /\ pc' \in [Dialog -> L \cup Closing]
  <1>1. PortsInv(n)' /\ (RulesKept => RulesKept')
    BY CloseBegun, PortsFreed, PortLookedUp, RulesDeleted DEF CloseStep
  <1>2. PICK label \in Closing : Goto(d, label) \/ (pc[d] = label /\ UNCHANGED pc)
    BY DEF CloseStep, BeginClose, FreePort, FreePortEnds, Lookup, LookupFails,
           NextLookup, BatchDelete, BatchDeleteFails, DeleteKeys, Closing
  <1>3. pc[d] \in Closing /\ UNCHANGED lap
    BY DEF CloseStep, BeginClose, FreePort, FreePortEnds, Lookup, LookupFails,
           NextLookup, BatchDelete, BatchDeleteFails, DeleteKeys, Closing, poolVars,
           ruleVars
  <1>4. pc' \in [Dialog -> L \cup Closing]
    BY <1>2 DEF Goto
  <1> QED BY <1>1, <1>2, <1>3, <1>4, GoesTo

\* The rules that are kept are owned.
LEMMA KeptIsOwned == RulesKept => RulesOwned
  BY DEF RulesKept, RulesOwned, Keeps

\* The dialogs of a set are finitely many.
LEMMA DialogsFinite ==
    ASSUME NEW S \in SUBSET Dialog
    PROVE  IsFiniteSet(S) /\ Cardinality(S) \in 0 .. Cardinality(Dialog)
  <1>1. IsFiniteSet(S) /\ Cardinality(S) <= Cardinality(Dialog)
    BY FS_Subset, DialogAssumption
  <1>2. Cardinality(S) \in Nat /\ Cardinality(Dialog) \in Nat
    BY <1>1, FS_CardinalityType, DialogAssumption
  <1> QED BY <1>1, <1>2
=============================================================================
