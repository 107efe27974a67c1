--------------------------- MODULE RtpPortsProofs ---------------------------
(***************************************************************************)
(* Proofs about RtpPorts, for every set of dialogs, port range and word    *)
(* size: type correctness, and that no two dialogs ever own a port, that   *)
(* RTP and RTCP ports never meet, that the map holds exactly the ports of  *)
(* the dialogs that are not over, that portsUsed counts them and how far   *)
(* the reserve may be overdrawn, however the goroutines race on nextPort.  *)
(***************************************************************************)
EXTENDS RtpPorts, FiniteSetTheorems, TLAPS

\* The cursor and every port taken from it have the parity of RtpPortMin.
SameParity(p) == p % 2 = RtpPortMin % 2

ParityInv ==
    /\ SameParity(nextPort)
    /\ \A p \in ports : SameParity(p)
    /\ \A d \in Dialog : pc[d] \in Claimed \cup {"claim"} => SameParity(port[d])
    /\ \A d \in Dialog : pc[d] \in {"write", "test"} => SameParity(reg[d])

\* A port just stored is not yet among the dialog's ports, and freePort's
\* tally is empty outside freePort.
LocalInv ==
    \A d \in Dialog :
        /\ pc[d] \in Claimed /\ ~loaded[d] => port[d] \notin held[d]
        /\ pc[d] # "free" => freed[d] = {}
        /\ pc[d] = "count" => ~loaded[d]

\* The map is what the dialogs own, the ones that are over included.
MapExact == ports = UNION {Owned(d) : d \in Dialog}

\* A dialog that is over owns nothing but what its Close took for "no port".
EndedInv ==
    \A d \in Dialog :
        pc[d] = "ended" => held[d] \subseteq IF Role = "uac" THEN {0} ELSE {}

IInv ==
    /\ TypeOK /\ Exclusive /\ MapExact /\ EndedInv /\ ParityInv /\ LocalInv
    /\ Accounting /\ ReserveKept
-----------------------------------------------------------------------------
(* Arithmetic of the cursor. *)

\* A port number plus 2 in uint16 is a port number of the same parity.
LEMMA WrapPort ==
    ASSUME NEW p \in Port
    PROVE  /\ Wrap(p + 2) \in Port
           /\ Wrap(p + 2) % 2 = p % 2
  BY WordAssumption DEF Wrap, Port

\* RtpPortMin, as uint16(cfg.RtpPortMin), is a port number.
LEMMA MinPort == RtpPortMin \in Port /\ 0 \in Port
  BY WordAssumption, RangeAssumption DEF Port

\* A set of ports is finite.
LEMMA PortsFinite ==
    ASSUME NEW S \in SUBSET Port
    PROVE  IsFiniteSet(S) /\ Cardinality(S) \in Nat
  <1>1. IsFiniteSet(Port)
    BY FS_Interval, WordAssumption DEF Port
  <1>2. IsFiniteSet(S)
    BY <1>1, FS_Subset
  <1> QED BY <1>2, FS_CardinalityType

-----------------------------------------------------------------------------
(* Type correctness. *)

\* The fields newBaseUa sets have their types (ua.go:54-63).
LEMMA TypeInit == Init => TypeOK
  BY MinPort DEF Init, TypeOK, Scanning

\* Each step of a goroutine in getPort or freePort keeps the types; the
\* arithmetic of the cursor is WrapPort's and MinPort's (ua.go:133-158).
LEMMA TypeStep ==
    ASSUME TypeOK, NEW d \in Dialog, Step(d)
    PROVE  TypeOK'
  <1> USE DEF TypeOK, Scanning
  <1>1. CASE GetPortRefused(d)
    BY <1>1 DEF GetPortRefused, CloseLabel
  <1>2. CASE GetPort(d)
    BY <1>2 DEF GetPort
  <1>3. CASE LoadNext(d)
    BY <1>3 DEF LoadNext
  <1>4. CASE Claim(d)
    BY <1>4 DEF Claim
  <1>5. CASE ReadNext(d)
    BY <1>5, WrapPort DEF ReadNext
  <1>6. CASE WriteNext(d)
    BY <1>6 DEF WriteNext
  <1>7. CASE TestNext(d)
    BY <1>7 DEF TestNext, LoopLabel
  <1>8. CASE ResetNext(d)
    BY <1>8, MinPort DEF ResetNext, LoopLabel
  <1>9. CASE CountPort(d)
    BY <1>9 DEF CountPort
  <1>10. CASE Close(d)
    BY <1>10 DEF Close, CloseLabel
  <1>11. CASE DeletePort(d)
    BY <1>11 DEF DeletePort
  <1>12. CASE UncountPorts(d)
    <2>1. Cardinality(freed[d]) \in Nat
      BY PortsFinite
    <2> QED BY <1>12, <2>1 DEF UncountPorts
  <1> QED BY <1>1, <1>2, <1>3, <1>4, <1>5, <1>6, <1>7, <1>8, <1>9, <1>10,
             <1>11, <1>12 DEF Step

\* Every variable always has its type: in particular the cursor stays a uint16
\* (ua.go:35-52).
THEOREM TypeCorrect == Spec => []TypeOK
  <1>1. TypeOK /\ [Next]_vars => TypeOK'
    <2> SUFFICES ASSUME TypeOK, [Next]_vars PROVE TypeOK'
      OBVIOUS
    <2>1. CASE UNCHANGED vars
      BY <2>1 DEF vars, TypeOK
    <2>2. CASE AllEnded
      BY <2>2 DEF AllEnded, vars, TypeOK
    <2>3. CASE \E d \in Dialog : Step(d)
      BY <2>3, TypeStep
    <2> QED BY <2>1, <2>2, <2>3 DEF Next
  <1> QED BY <1>1, TypeInit, PTL DEF Spec

-----------------------------------------------------------------------------
(* How a step changes what dialogs own: not at all, or the dialog that steps *)
(* gains one port that nobody had, or it gives one up while it closes.       *)

OwnersKept == ports' = ports /\ \A e \in Dialog : Owned(e)' = Owned(e)

OwnerGains(d, p) ==
    /\ pc[d] = "claim" /\ pc'[d] = "read"
    /\ p \notin ports
    /\ ports' = ports \cup {p}
    /\ Owned(d)' = Owned(d) \cup {p}
    /\ \A e \in Dialog \ {d} : Owned(e)' = Owned(e)

OwnerLoses(d, p) ==
    /\ pc[d] = "free" /\ pc'[d] = "free"
    /\ p \in Owned(d)
    /\ ports' = ports \ {p}
    /\ Owned(d)' = Owned(d) \ {p}
    /\ \A e \in Dialog \ {d} : Owned(e)' = Owned(e)

\* Only LoadOrStore and Delete change who owns a port, one port at a time
\* (ua.go:140, 155).
LEMMA OwnedStep ==
    ASSUME TypeOK, LocalInv, NEW d \in Dialog, Step(d)
    PROVE  OwnersKept \/ \E p \in Port : OwnerGains(d, p) \/ OwnerLoses(d, p)
  <1> USE DEF TypeOK, Scanning, Claimed, Owned
  <1>1. CASE GetPortRefused(d)
    BY <1>1 DEF GetPortRefused, MayAskForPort, CloseLabel, OwnersKept
  <1>2. CASE GetPort(d)
    BY <1>2 DEF GetPort, MayAskForPort, OwnersKept
  <1>3. CASE LoadNext(d)
    BY <1>3 DEF LoadNext, OwnersKept
  <1>4. CASE Claim(d)
    <2>1. CASE port[d] \in ports
      BY <1>4, <2>1 DEF Claim, OwnersKept
    <2>2. CASE port[d] \notin ports
      <3>1. OwnerGains(d, port[d])
        BY <1>4, <2>2 DEF Claim, OwnerGains
      <3>2. port[d] \in Port
        OBVIOUS
      <3> HIDE DEF Owned, TypeOK, Claimed, Scanning
      <3> QED BY <3>1, <3>2
    <2> QED BY <2>1, <2>2
  <1>5. CASE ReadNext(d)
    BY <1>5 DEF ReadNext, OwnersKept
  <1>6. CASE WriteNext(d)
    BY <1>6 DEF WriteNext, OwnersKept
  <1>7. CASE TestNext(d)
    BY <1>7 DEF TestNext, LoopLabel, OwnersKept
  <1>8. CASE ResetNext(d)
    BY <1>8 DEF ResetNext, LoopLabel, OwnersKept
  <1>9. CASE CountPort(d)
    BY <1>9 DEF CountPort, LocalInv, OwnersKept
  <1>10. CASE Close(d)
    BY <1>10 DEF Close, CloseLabel, OwnersKept
  <1>11. CASE DeletePort(d)
    <2> PICK p \in held[d] : /\ ports' = ports \ {p}
                             /\ held' = [held EXCEPT ![d] = @ \ {p}]
      BY <1>11 DEF DeletePort
    <2>1. OwnerLoses(d, p)
      BY <1>11 DEF DeletePort, OwnerLoses
    <2> QED BY <2>1
  <1>12. CASE UncountPorts(d)
    BY <1>12 DEF UncountPorts, OwnersKept
  <1> QED BY <1>1, <1>2, <1>3, <1>4, <1>5, <1>6, <1>7, <1>8, <1>9, <1>10,
             <1>11, <1>12 DEF Step

\* A port that LoadOrStore finds absent is nobody's, so no step makes a port
\* two dialogs' or the map differ from what they own (ua.go:140, 155).
LEMMA ExclusiveStep ==
    ASSUME TypeOK, LocalInv, Exclusive, MapExact, NEW d \in Dialog, Step(d)
    PROVE  Exclusive' /\ MapExact'
  <1>1. CASE OwnersKept
    BY <1>1 DEF OwnersKept, Exclusive, MapExact
  <1>2. ASSUME NEW p \in Port, OwnerGains(d, p)
        PROVE  Exclusive' /\ MapExact'
    <2>1. \A e \in Dialog : p \notin Owned(e)
      BY <1>2 DEF OwnerGains, MapExact
    <2>2. Exclusive'
      BY <1>2, <2>1 DEF OwnerGains, Exclusive
    <2>3. MapExact'
      BY <1>2 DEF OwnerGains, MapExact
    <2> QED BY <2>2, <2>3
  <1>3. ASSUME NEW p \in Port, OwnerLoses(d, p)
        PROVE  Exclusive' /\ MapExact'
    <2>1. \A e \in Dialog \ {d} : p \notin Owned(e)
      BY <1>3 DEF OwnerLoses, Exclusive
    <2>2. Exclusive'
      BY <1>3 DEF OwnerLoses, Exclusive
    <2>3. MapExact'
      BY <1>3, <2>1 DEF OwnerLoses, MapExact
    <2> QED BY <2>2, <2>3
  <1> QED BY <1>1, <1>2, <1>3, OwnedStep

-----------------------------------------------------------------------------
(* Parity and the goroutines' local state. *)

\* Every write to nextPort keeps its parity: it adds 2 or stores RtpPortMin, and
\* the word it is truncated to is even (ua.go:141-144).
LEMMA ParityStep ==
    ASSUME TypeOK, ParityInv, NEW d \in Dialog, Step(d)
    PROVE  ParityInv'
  <1> USE DEF TypeOK, ParityInv, SameParity, Scanning, Claimed
  <1>1. CASE GetPortRefused(d)
    BY <1>1 DEF GetPortRefused, CloseLabel
  <1>2. CASE GetPort(d)
    BY <1>2 DEF GetPort
  <1>3. CASE LoadNext(d)
    BY <1>3 DEF LoadNext
  <1>4. CASE Claim(d)
    BY <1>4 DEF Claim
  <1>5. CASE ReadNext(d)
    <2>1. Wrap(nextPort + 2) % 2 = RtpPortMin % 2
      BY WrapPort
    <2> QED BY <1>5, <2>1 DEF ReadNext
  <1>6. CASE WriteNext(d)
    BY <1>6 DEF WriteNext
  <1>7. CASE TestNext(d)
    BY <1>7 DEF TestNext, LoopLabel
  <1>8. CASE ResetNext(d)
    BY <1>8 DEF ResetNext, LoopLabel
  <1>9. CASE CountPort(d)
    BY <1>9 DEF CountPort
  <1>10. CASE Close(d)
    BY <1>10 DEF Close, CloseLabel
  <1>11. CASE DeletePort(d)
    BY <1>11 DEF DeletePort
  <1>12. CASE UncountPorts(d)
    BY <1>12 DEF UncountPorts
  <1> QED BY <1>1, <1>2, <1>3, <1>4, <1>5, <1>6, <1>7, <1>8, <1>9, <1>10,
             <1>11, <1>12 DEF Step

\* What a goroutine knows of its own port and tally between two steps stays true
\* whatever the others do (ua.go:138-157).
LEMMA LocalStep ==
    ASSUME TypeOK, LocalInv, MapExact, NEW d \in Dialog, Step(d)
    PROVE  LocalInv'
  <1> USE DEF TypeOK, LocalInv, Scanning, Claimed
  <1>1. CASE GetPortRefused(d)
    BY <1>1 DEF GetPortRefused, MayAskForPort, CloseLabel
  <1>2. CASE GetPort(d)
    BY <1>2 DEF GetPort, MayAskForPort
  <1>3. CASE LoadNext(d)
    BY <1>3 DEF LoadNext
  <1>4. CASE Claim(d)
    <2>1. held[d] \subseteq ports
      BY DEF MapExact, Owned
    <2> QED BY <1>4, <2>1 DEF Claim
  <1>5. CASE ReadNext(d)
    BY <1>5 DEF ReadNext
  <1>6. CASE WriteNext(d)
    BY <1>6 DEF WriteNext
  <1>7. CASE TestNext(d)
    BY <1>7 DEF TestNext, LoopLabel
  <1>8. CASE ResetNext(d)
    BY <1>8 DEF ResetNext, LoopLabel
  <1>9. CASE CountPort(d)
    BY <1>9 DEF CountPort
  <1>10. CASE Close(d)
    BY <1>10 DEF Close, CloseLabel
  <1>11. CASE DeletePort(d)
    BY <1>11 DEF DeletePort
  <1>12. CASE UncountPorts(d)
    BY <1>12 DEF UncountPorts
  <1> QED BY <1>1, <1>2, <1>3, <1>4, <1>5, <1>6, <1>7, <1>8, <1>9, <1>10,
             <1>11, <1>12 DEF Step

\* A dialog is over when Close found no port to free or freePort has freed them
\* all, and then owns none for good (dialog.go:266, 466; ua.go:153-158).
LEMMA EndedStep ==
    ASSUME TypeOK, EndedInv, NEW d \in Dialog, Step(d)
    PROVE  EndedInv'
  <1> USE DEF TypeOK, EndedInv
  <1>1. CASE pc' = [pc EXCEPT ![d] = CloseLabel(d)] /\ held' = held
    <2>1. ~MustFree(d) => held[d] \subseteq IF Role = "uac" THEN {0} ELSE {}
      BY RoleAssumption DEF MustFree
    <2> QED BY <1>1, <2>1 DEF CloseLabel
  <1>2. CASE UncountPorts(d)
    BY <1>2 DEF UncountPorts
  <1>3. CASE CountPort(d)
    BY <1>3 DEF CountPort
  <1>4. CASE DeletePort(d)
    BY <1>4 DEF DeletePort
  <1>5. CASE /\ held' = held
             /\ \E label \in Scanning : pc' = [pc EXCEPT ![d] = label]
    BY <1>5 DEF Scanning
  <1>6. \/ pc' = [pc EXCEPT ![d] = CloseLabel(d)] /\ held' = held
        \/ UncountPorts(d) \/ CountPort(d) \/ DeletePort(d)
        \/ held' = held /\ \E label \in Scanning : pc' = [pc EXCEPT ![d] = label]
    <2>1. CASE GetPortRefused(d) \/ Close(d)
      BY <2>1 DEF GetPortRefused, Close
    <2>2. CASE GetPort(d)
      BY <2>2 DEF GetPort, Scanning
    <2>3. CASE LoadNext(d)
      BY <2>3 DEF LoadNext, Scanning
    <2>4. CASE Claim(d)
      BY <2>4 DEF Claim, Scanning
    <2>5. CASE ReadNext(d)
      BY <2>5 DEF ReadNext, Scanning
    <2>6. CASE WriteNext(d)
      BY <2>6 DEF WriteNext, Scanning
    <2>7. CASE TestNext(d)
      BY <2>7 DEF TestNext, LoopLabel, Scanning
    <2>8. CASE ResetNext(d)
      BY <2>8 DEF ResetNext, LoopLabel, Scanning
    <2> QED BY <2>1, <2>2, <2>3, <2>4, <2>5, <2>6, <2>7, <2>8 DEF Step
  <1> QED BY <1>1, <1>2, <1>3, <1>4, <1>5, <1>6

-----------------------------------------------------------------------------
(* portsUsed. *)

\* The ports counted are finitely many, so portsUsed can be their number.
LEMMA CountedFinite ==
    ASSUME TypeOK
    PROVE  IsFiniteSet(Counted) /\ Cardinality(Counted) \in Nat
  <1>1. IsFiniteSet(Dialog \X Port)
    BY DialogAssumption, PortsFinite, FS_Product
  <1>2. IsFiniteSet(Counted)
    BY <1>1, FS_Subset DEF Counted
  <1> QED BY <1>2, FS_CardinalityType

\* portsUsed.Add(1) counts one port more and Add(-n) the n ports of one freePort
\* less; no other step changes the ports counted (ua.go:148, 157).
LEMMA AccountingStep ==
    ASSUME TypeOK, LocalInv, Accounting, NEW d \in Dialog, Step(d)
    PROVE  Accounting'
  <1>1. CASE portsUsed' = portsUsed /\ Counted' = Counted
    BY <1>1 DEF Accounting
  <1>2. CASE CountPort(d)
    <2> DEFINE new == <<d, port[d]>>
    <2>1. new \notin Counted
      BY <1>2 DEF CountPort, LocalInv, Counted, Claimed
    <2>2. Counted' = Counted \cup {new}
      BY <1>2 DEF CountPort, Counted, TypeOK
    <2>3. Cardinality(Counted') = Cardinality(Counted) + 1
      BY <2>1, <2>2, CountedFinite, FS_AddElement
    <2> QED BY <1>2, <2>3, CountedFinite DEF CountPort, Accounting
  <1>3. CASE UncountPorts(d)
    <2> DEFINE old == {d} \X freed[d]
    <2>1. Counted' = Counted \ old
      BY <1>3 DEF UncountPorts, Counted, TypeOK
    <2>2. Counted \cap old = old
      BY DEF Counted, TypeOK
    <2>3. IsFiniteSet(freed[d]) /\ Cardinality(freed[d]) \in Nat
      BY PortsFinite DEF TypeOK
    <2>4. Cardinality(old) = Cardinality(freed[d])
      <3>1. IsFiniteSet({d}) /\ Cardinality({d}) = 1
        BY FS_Singleton
      <3>2. Cardinality(old) = Cardinality({d}) * Cardinality(freed[d])
        BY <2>3, <3>1, FS_Product
      <3> QED BY <2>3, <3>1, <3>2
    <2>5. Cardinality(Counted') = Cardinality(Counted) - Cardinality(freed[d])
      <3>1. Cardinality(Counted \ old)
              = Cardinality(Counted) - Cardinality(Counted \cap old)
        BY CountedFinite, FS_Difference
      <3> QED BY <2>1, <2>2, <2>4, <3>1
    <2> QED BY <1>3, <2>3, <2>5, CountedFinite DEF UncountPorts, Accounting
  <1>4. CASE DeletePort(d)
    <2>1. Counted' = Counted
      BY <1>4 DEF DeletePort, Counted, TypeOK
    <2> QED BY <1>4, <2>1 DEF DeletePort, Accounting
  <1> QED BY <1>1, <1>2, <1>3, <1>4 DEF Step, GetPortRefused, GetPort, LoadNext,
             Claim, ReadNext, WriteNext, TestNext, ResetNext, Close, Counted

-----------------------------------------------------------------------------
(* The reserve. *)

\* The goroutines that scan, of which there are finitely many.
Scanners == {d \in Dialog : pc[d] \in Scanning}

LEMMA ScannersFinite ==
    /\ IsFiniteSet(Scanners) /\ Cardinality(Scanners) \in Nat
    /\ Cardinality(Dialog) \in Nat
    /\ Cardinality(Scanners) <= Cardinality(Dialog)
  <1>1. Scanners \subseteq Dialog
    BY DEF Scanners
  <1> QED BY <1>1, DialogAssumption, FS_Subset, FS_CardinalityType

\* A goroutine enters the loop of getPort only below the reserve, its return
\* counts what it was about to take, and freePort counts less (ua.go:134-157).
LEMMA ReserveStep ==
    ASSUME TypeOK, ReserveKept, NEW d \in Dialog, Step(d)
    PROVE  ReserveKept'
  <1> DEFINE n == Cardinality(Scanners)
             m == Cardinality({e \in Dialog : pc'[e] \in Scanning})
             k == Cardinality(Dialog)
             u == portsUsed
             v == portsUsed'
             b == portsMax - Reserve
  <1>1. u \in Int /\ n \in Nat /\ k \in Nat /\ n <= k
    BY ScannersFinite DEF TypeOK
  <1>2. b \in Int
    BY RangeAssumption, WordAssumption, ReserveAssumption DEF portsMax
  <1>3. ReserveKept <=> (u + 2 * n > 0 => u + 2 * n <= b + 2 * k)
    BY DEF ReserveKept, Taken, Scanners
  <1>4. m \in Nat /\ m <= k
    <2>1. {e \in Dialog : pc'[e] \in Scanning} \subseteq Dialog
      OBVIOUS
    <2> QED BY <2>1, DialogAssumption, FS_Subset, FS_CardinalityType
  <1>5. ReserveKept' <=> (v + 2 * m > 0 => v + 2 * m <= b + 2 * k)
    BY DEF ReserveKept, Taken, portsMax
  <1>6. CASE portsUsed' = portsUsed /\ Scanners' = Scanners
    BY <1>3, <1>5, <1>6 DEF Scanners
  <1>7. CASE GetPort(d)
    <2>1. v = u /\ u <= b
      <3>1. portsUsed' = portsUsed /\ portsMax - portsUsed >= Reserve
        BY <1>7 DEF GetPort
      <3>2. portsMax \in Int /\ Reserve \in Int
        BY RangeAssumption, WordAssumption, ReserveAssumption DEF portsMax
      <3> QED BY <1>1, <3>1, <3>2
    <2> HIDE DEF n, m, k, u, v, b
    <2>2. v + 2 * m <= b + 2 * k
      BY <1>1, <1>2, <1>4, <2>1
    <2> QED BY <1>5, <2>2
  <1>8. CASE CountPort(d)
    <2>1. Scanners' = Scanners \ {d} /\ d \in Scanners
      BY <1>8 DEF CountPort, Scanners, Scanning, TypeOK
    <2>2. m = n - 1
      <3>1. Cardinality(Scanners \ {d}) = Cardinality(Scanners) - 1
        BY <2>1, ScannersFinite, FS_RemoveElement
      <3> QED BY <2>1, <3>1 DEF Scanners
    <2>3. v = u + 2
      BY <1>8 DEF CountPort
    <2> HIDE DEF n, m, k, u, v, b
    <2>4. v + 2 * m = u + 2 * n
      BY <1>1, <2>2, <2>3
    <2> QED BY <1>3, <1>5, <2>4
  <1>9. CASE UncountPorts(d)
    <2>1. m = n
      BY <1>9 DEF UncountPorts, Scanners, Scanning, TypeOK
    <2>2. v \in Int /\ v <= u
      <3> DEFINE c == Cardinality(freed[d])
      <3>1. c \in Nat
        BY PortsFinite DEF TypeOK
      <3>2. v = u - 2 * c
        BY <1>9 DEF UncountPorts
      <3> HIDE DEF c, u, v
      <3> QED BY <1>1, <3>1, <3>2
    <2> HIDE DEF n, m, k, u, v, b
    <2>3. /\ v + 2 * m > 0 => u + 2 * n > 0
          /\ u + 2 * n <= b + 2 * k => v + 2 * m <= b + 2 * k
      BY <1>1, <1>2, <2>1, <2>2
    <2> QED BY <1>3, <1>5, <2>3
  <1>10. ASSUME GetPortRefused(d) \/ LoadNext(d) \/ Claim(d) \/ ReadNext(d)
                \/ WriteNext(d) \/ TestNext(d) \/ ResetNext(d) \/ Close(d)
                \/ DeletePort(d)
         PROVE  portsUsed' = portsUsed /\ Scanners' = Scanners
    BY <1>10 DEF GetPortRefused, LoadNext, Claim, ReadNext, WriteNext, TestNext,
       ResetNext, Close, DeletePort, MayAskForPort, CloseLabel, LoopLabel,
       Scanners, Scanning, TypeOK
  <1> QED BY <1>6, <1>7, <1>8, <1>9, <1>10 DEF Step

-----------------------------------------------------------------------------
(* The inductive invariant and what follows from it. *)

\* newBaseUa establishes the inductive invariant (ua.go:54-63).
LEMMA InvInit == Init => IInv
  <1> SUFFICES ASSUME Init PROVE IInv
    OBVIOUS
  <1>1. TypeOK
    BY TypeInit
  <1>2. Exclusive /\ MapExact
    BY DEF Init, Exclusive, MapExact, Owned, Claimed
  <1>3. ParityInv /\ LocalInv
    BY DEF Init, ParityInv, SameParity, LocalInv, Claimed
  <1>4. Accounting
    <2>1. Counted = {}
      BY DEF Init, Counted
    <2> QED BY <2>1, FS_EmptySet DEF Init, Accounting
  <1>5. EndedInv
    BY DEF Init, EndedInv
  <1>6. ReserveKept
    <2>1. {d \in Dialog : pc[d] \in Scanning} = {}
      BY DEF Init, Scanning
    <2>2. Taken = 0
      BY <2>1, FS_EmptySet DEF Init, Taken
    <2> QED BY <2>2 DEF ReserveKept
  <1> QED BY <1>1, <1>2, <1>3, <1>4, <1>5, <1>6 DEF IInv

\* Every step of every goroutine preserves the inductive invariant.
LEMMA InvStep == IInv /\ [Next]_vars => IInv'
  <1> SUFFICES ASSUME IInv, [Next]_vars PROVE IInv'
    OBVIOUS
  <1>1. CASE UNCHANGED vars
    BY <1>1 DEF IInv, vars, TypeOK, Exclusive, MapExact, Owned, ParityInv,
                LocalInv, Accounting, Counted, EndedInv, ReserveKept, Taken
  <1>2. CASE AllEnded
    BY <1>1, <1>2 DEF AllEnded
  <1>3. CASE \E d \in Dialog : Step(d)
    BY <1>3, TypeStep, ExclusiveStep, ParityStep, LocalStep, EndedStep,
       AccountingStep, ReserveStep
       DEF IInv
  <1> QED BY <1>1, <1>2, <1>3 DEF Next

\* The inductive invariant holds in every reachable state: the properties of
\* RtpPorts with the parity of the cursor and each goroutine's local knowledge
\* (ua.go:133-158).
THEOREM Invariant == Spec => []IInv
  BY InvInit, InvStep, PTL DEF Spec

\* No two dialogs ever own the same RTP port, for any number of goroutines
\* racing on nextPort (ua.go:138-150).
THEOREM PortsExclusive == Spec => []Exclusive
  <1>1. IInv => Exclusive
    BY DEF IInv
  <1> QED BY <1>1, Invariant, PTL

\* The ports map always holds exactly the ports of dialogs that are not over, so
\* freePort gives back all that getPort took and nothing else, but for port 0 of
\* a UAC's dialog (ua.go:133-158, dialog.go:266, 466).
THEOREM PortsConserved == Spec => []Conserved
  <1>1. IInv => Conserved
    <2> SUFFICES ASSUME IInv PROVE Conserved
      OBVIOUS
    <2> DEFINE live == UNION {Owned(d) : d \in {e \in Dialog : pc[e] # "ended"}}
    <2>1. live \subseteq ports
      BY DEF IInv, MapExact
    <2>2. ASSUME NEW p \in ports \ live
          PROVE  p \in IF Role = "uac" THEN {0} ELSE {}
      <3>1. PICK d \in Dialog : p \in Owned(d)
        BY DEF IInv, MapExact
      <3>2. pc[d] = "ended"
        BY <2>2, <3>1
      <3>3. p \in held[d]
        BY <3>1, <3>2 DEF Owned, Claimed
      <3> QED BY <3>2, <3>3 DEF IInv, EndedInv
    <2> QED BY <2>1, <2>2 DEF Conserved
  <1> QED BY <1>1, Invariant, PTL

\* The reserve that getPort checks before the scan and counts after it is
\* overdrawn by a pair of ports for each goroutine at most (ua.go:134, 148).
THEOREM ReserveAlwaysKept == Spec => []ReserveKept
  <1>1. IInv => ReserveKept
    BY DEF IInv
  <1> QED BY <1>1, Invariant, PTL

\* portsUsed always counts exactly the ports returned and not yet freed
\* (ua.go:148, 157).
THEOREM PortsCounted == Spec => []Accounting
  <1>1. IInv => Accounting
    BY DEF IInv
  <1> QED BY <1>1, Invariant, PTL

\* The RTCP port of a dialog is never an RTP port, although the cursor may
\* leave the configured range and overflow: every RTP port has the parity of
\* RtpPortMin (ua.go:139-144, dialog.go:175, 334).
THEOREM RtcpPortsDisjoint == Spec => []RtcpDisjoint
  <1>1. IInv => RtcpDisjoint
    <2> SUFFICES ASSUME IInv, NEW p \in ports, NEW q \in ports PROVE Rtcp(p) # q
      BY DEF RtcpDisjoint
    <2>1. p \in Port /\ q \in Port /\ p % 2 = q % 2
      BY DEF IInv, TypeOK, ParityInv, SameParity
    <2> QED BY <2>1, WordAssumption DEF Rtcp, Wrap, Port
  <1> QED BY <1>1, Invariant, PTL

-----------------------------------------------------------------------------
(* A process of UAS dialogs implements PortPool.  A UAC dialog does not if   *)
(* the cursor ever reaches 0: Close takes port 0 for "no port".              *)

\* Each step of a goroutine of a UAS is a step of PortPool or changes nothing
\* that PortPool sees (ua.go:133-158).
LEMMA PoolStep ==
    ASSUME Role = "uas", IInv, NEW d \in Dialog, Step(d)
    PROVE  Pool!PoolNext \/ UNCHANGED Pool!poolVars
  <1> USE DEF Pool!poolVars
  <1>0. /\ TypeOK /\ LocalInv /\ MapExact
        /\ pc \in [Dialog -> Scanning \cup {"idle", "free", "ended"}]
    BY DEF IInv, TypeOK
  <1>1. ASSUME NEW p \in Port, OwnerGains(d, p)
        PROVE  Pool!Acquire(d, p)
    <2>1. phase[d] = "open" /\ phase' = phase
      <3>1. pc' = [pc EXCEPT ![d] = "read"]
        BY <1>0, <1>1 DEF OwnerGains, Step, GetPortRefused, GetPort, LoadNext,
           Claim, ReadNext, WriteNext, TestNext, ResetNext, CountPort, Close,
           DeletePort, UncountPorts, MayAskForPort
      <3> QED BY <1>0, <1>1, <3>1 DEF OwnerGains, phase
    <2>2. \A e \in Dialog : p \notin Owned(e)
      BY <1>0, <1>1 DEF OwnerGains, MapExact
    <2> QED BY <1>1, <2>1, <2>2 DEF OwnerGains, Pool!Acquire
  <1>2. ASSUME NEW p \in Port, OwnerLoses(d, p)
        PROVE  Pool!Release(d, p)
    <2>1. phase[d] = "closing" /\ phase' = phase
      <3>1. pc' = pc
        BY <1>0, <1>2 DEF OwnerLoses, Step, GetPortRefused, GetPort, LoadNext,
           Claim, ReadNext, WriteNext, TestNext, ResetNext, CountPort, Close,
           DeletePort, UncountPorts, MayAskForPort
      <3> QED BY <1>0, <1>2, <3>1 DEF OwnerLoses, phase
    <2> QED BY <1>2, <2>1 DEF OwnerLoses, Pool!Release
  <1>3. CASE OwnersKept
    <2>1. UNCHANGED [e \in Dialog |-> Owned(e)]
      BY <1>3 DEF OwnersKept
    <2>2. CASE UNCHANGED phase
      BY <2>1, <2>2
    <2>3. CASE pc[d] = "idle" /\ pc' = [pc EXCEPT ![d] = CloseLabel(d)]
      <3>1. CASE held[d] # {}
        <4>1. phase[d] = "open" /\ phase' = [phase EXCEPT ![d] = "closing"]
          BY <1>0, <2>3, <3>1 DEF phase, CloseLabel, MustFree
        <4> QED BY <2>1, <4>1 DEF Pool!BeginRelease, Pool!PoolNext
      <3>2. CASE held[d] = {}
        <4>1. phase[d] = "open" /\ phase' = [phase EXCEPT ![d] = "closed"]
          BY <1>0, <2>3, <3>2 DEF phase, CloseLabel, MustFree
        <4>2. Owned(d) = {}
          BY <2>3, <3>2 DEF Owned, Claimed
        <4> QED BY <2>1, <4>1, <4>2 DEF Pool!EndRelease, Pool!PoolNext
      <3> QED BY <3>1, <3>2
    <2>4. CASE UncountPorts(d)
      <3>1. phase[d] = "closing" /\ phase' = [phase EXCEPT ![d] = "closed"]
        BY <1>0, <2>4 DEF UncountPorts, phase
      <3>2. Owned(d) = {}
        BY <2>4 DEF UncountPorts, Owned, Claimed
      <3> QED BY <2>1, <3>1, <3>2 DEF Pool!EndRelease, Pool!PoolNext
    <2>5. \/ UncountPorts(d)
          \/ pc[d] = "idle" /\ pc' = [pc EXCEPT ![d] = CloseLabel(d)]
          \/ UNCHANGED phase
      BY <1>0 DEF Step, GetPortRefused, GetPort, LoadNext, Claim, ReadNext,
         WriteNext, TestNext, ResetNext, CountPort, Close, DeletePort,
         MayAskForPort, LoopLabel, Scanning, phase
    <2> QED BY <2>2, <2>3, <2>4, <2>5
  <1>4. OwnersKept \/ \E p \in Port : OwnerGains(d, p) \/ OwnerLoses(d, p)
    BY <1>0, OwnedStep
  <1> QED BY <1>1, <1>2, <1>3, <1>4 DEF Pool!PoolNext

\* The allocator as UAS dialogs use it implements PortPool: each step of a
\* goroutine takes or gives back one port of its own, begins or ends its
\* Close, or changes nothing a dialog can see (ua.go:133-158, dialog.go:266).
THEOREM UasImplementsPool == ASSUME Role = "uas" PROVE Spec => PoolSpec
  <1>1. Init => Pool!PoolInit
    BY DEF Init, Pool!PoolInit, Owned, Claimed, phase
  <1>2. IInv /\ [Next]_vars => [Pool!PoolNext]_(Pool!poolVars)
    <2> SUFFICES ASSUME IInv, [Next]_vars
                 PROVE  Pool!PoolNext \/ UNCHANGED Pool!poolVars
      OBVIOUS
    <2>1. CASE UNCHANGED vars
      BY <2>1 DEF vars, Pool!poolVars, Owned, phase
    <2>2. CASE AllEnded
      BY <2>1, <2>2 DEF AllEnded
    <2>3. CASE \E d \in Dialog : Step(d)
      BY <2>3, PoolStep
    <2> QED BY <2>1, <2>2, <2>3 DEF Next
  <1> QED BY <1>1, <1>2, Invariant, PTL DEF Spec, PoolSpec, Pool!PoolSpec
=============================================================================
