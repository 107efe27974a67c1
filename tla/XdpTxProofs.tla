---------------------------- MODULE XdpTxProofs -----------------------------
(***************************************************************************)
(* Proofs about XdpTx, for any number of senders and messages, any sizes   *)
(* of the channel and the rings and any word that a ring's size divides:   *)
(* neither ring is ever overfilled, and the transmit side implements       *)
(* TxQueue, the queue from which the kernel gets every descriptor that     *)
(* SendMsg hands over once and in order.                                   *)
(***************************************************************************)
EXTENDS XdpTx, SequenceTheorems, TLAPS

WordSet == 0 .. Word - 1
Packet == [frame : Frame, msg : Msg, data : Msg \cup {0}]

\* Whoever has a descriptor got it from GetTxDesc: a sender in SendMsg, the channel,
\* txWorker unless it receives, and the places of the tx ring in use.
Carried ==
    /\ \A s \in Sender : sender[s] # "idle" => held[s] \in Desc
    /\ txChan \in Seq(Desc)
    /\ worker # "receive" => desc \in Desc
    /\ InRing \in Seq(Desc)
    /\ wire \in Seq(Packet)

\* The rings have room: for the descriptor that txWorker is about to put, since only
\* the kernel may have moved since it tested the ring; and for the completion of every
\* packet that the kernel has taken.
Room ==
    /\ cons \in WordSet /\ ccons \in WordSet
    /\ worker = "put" => Minus(prod, cons) < RingSize
    /\ NumCompleted + inKernel <= RingSize

IInv == TypeOK /\ Carried /\ Room
-----------------------------------------------------------------------------
(* Remainders. *)

\* The quotient and the remainder of a division.
LEMMA Division ==
    ASSUME NEW x \in Int, NEW m \in Nat \ {0}
    PROVE  /\ x = m * (x \div m) + (x % m)
           /\ x % m \in 0 .. m - 1
           /\ x \div m \in Int
  BY SMT

\* No multiple of m but 0 is smaller than m.
LEMMA SmallMultiple ==
    ASSUME NEW m \in Nat \ {0}, NEW k \in Int, m * k < m, -m < m * k
    PROVE  k = 0
  <1>1. CASE k >= 1
    BY <1>1, SMT
  <1>2. CASE k <= -1
    BY <1>2, SMT
  <1> QED BY <1>1, <1>2

\* There is one remainder.
LEMMA RemainderUnique ==
    ASSUME NEW x \in Int, NEW m \in Nat \ {0}, NEW k \in Int, NEW r \in 0 .. m - 1,
           x = m * k + r
    PROVE  x % m = r
  <1>1. x = m * (x \div m) + (x % m) /\ x % m \in 0 .. m - 1 /\ x \div m \in Int
    BY Division
  <1>2. m * (k - (x \div m)) = (x % m) - r
    BY <1>1
  <1>3. k - (x \div m) = 0
    BY <1>1, <1>2, SmallMultiple
  <1> QED BY <1>1, <1>3

\* A multiple of m does not change the remainder.
LEMMA RemainderShift ==
    ASSUME NEW x \in Int, NEW m \in Nat \ {0}, NEW q \in Int
    PROVE  (x - m * q) % m = x % m
  <1>1. x = m * (x \div m) + (x % m) /\ x % m \in 0 .. m - 1 /\ x \div m \in Int
    BY Division
  <1>2. x - m * q = m * ((x \div m) - q) + (x % m)
    BY <1>1
  <1>3. x - m * q \in Int /\ (x \div m) - q \in Int
    BY <1>1
  <1> QED BY <1>1, <1>2, <1>3, RemainderUnique

\* Numbers less than m apart have different remainders.
LEMMA RemaindersApart ==
    ASSUME NEW m \in Nat \ {0}, NEW x \in Int, NEW y \in Int, x < y, y < x + m
    PROVE  x % m # y % m
  <1> SUFFICES ASSUME x % m = y % m PROVE FALSE
    OBVIOUS
  <1>1. /\ x = m * (x \div m) + (x % m) /\ y = m * (y \div m) + (y % m)
        /\ x \div m \in Int /\ y \div m \in Int /\ x % m \in Int
    BY Division
  <1>2. y - x = m * ((y \div m) - (x \div m))
    BY <1>1
  <1>3. (y \div m) - (x \div m) = 0
    BY <1>1, <1>2, SmallMultiple
  <1> QED BY <1>1, <1>3

-----------------------------------------------------------------------------
(* The counters of a ring: words that wrap at 2^32 (xdp.go:391-402). *)

\* The sizes are positive numbers, with a word larger than a ring.
LEMMA Sizes == RingSize \in Nat \ {0} /\ Word \in Nat \ {0} /\ RingSize < Word
  BY SizesAssumption, WordAssumption

\* An addition wraps at most once.
LEMMA PlusIs ==
    ASSUME NEW a \in WordSet, NEW n \in WordSet
    PROVE  /\ Plus(a, n) = IF a + n < Word THEN a + n ELSE a + n - Word
           /\ Plus(a, n) \in WordSet
  <1>1. CASE a + n < Word
    <2>1. (a + n) % Word = a + n
      BY <1>1, Sizes, RemainderUnique DEF WordSet
    <2> QED BY <1>1, <2>1, Sizes DEF Plus, WordSet
  <1>2. CASE ~(a + n < Word)
    <2>1. a + n - Word \in 0 .. Word - 1 /\ a + n = Word * 1 + (a + n - Word)
      BY <1>2, Sizes DEF WordSet
    <2>2. (a + n) % Word = a + n - Word
      BY <2>1, Sizes, RemainderUnique DEF WordSet
    <2> QED BY <1>2, <2>1, <2>2 DEF Plus, WordSet
  <1> QED BY <1>1, <1>2

\* A difference of counters is the number of elements between them, across an
\* overflow as well.
LEMMA MinusIs ==
    ASSUME NEW a \in WordSet, NEW b \in WordSet
    PROVE  /\ Minus(a, b) = IF b <= a THEN a - b ELSE a - b + Word
           /\ Minus(a, b) \in WordSet
  <1>1. CASE b <= a
    <2>1. a - b \in 0 .. Word - 1 /\ a - b + Word = Word * 1 + (a - b)
      BY <1>1, Sizes DEF WordSet
    <2>2. (a - b + Word) % Word = a - b
      BY <2>1, Sizes, RemainderUnique
    <2> QED BY <1>1, <2>1, <2>2 DEF Minus, WordSet
  <1>2. CASE ~(b <= a)
    <2>1. a - b + Word \in 0 .. Word - 1 /\ a - b + Word = Word * 0 + (a - b + Word)
      BY <1>2, Sizes DEF WordSet
    <2>2. (a - b + Word) % Word = a - b + Word
      BY <2>1, Sizes, RemainderUnique
    <2> QED BY <1>2, <2>1, <2>2 DEF Minus, WordSet
  <1> QED BY <1>1, <1>2

\* The place in a ring that a counter points at is the same whether or not the
\* counter has wrapped, because the size of the ring divides 2^32.
LEMMA SlotIs ==
    ASSUME NEW a \in WordSet, NEW n \in WordSet
    PROVE  /\ Plus(a, n) % RingSize = (a + n) % RingSize
           /\ Plus(a, n) % RingSize \in Frame
  <1> DEFINE q == Word \div RingSize
  <1>1. Word = RingSize * q /\ q \in Int
    BY Division, Sizes, WordAssumption
  <1> HIDE DEF q
  <1>2. PICK x \in Int : x = a + n
    BY Sizes DEF WordSet
  <1>3. (x - RingSize * q) % RingSize = x % RingSize
    BY <1>1, <1>2, Sizes, RemainderShift
  <1>4. Plus(a, n) = x \/ Plus(a, n) = x - RingSize * q
    <2>1. Plus(a, n) = IF a + n < Word THEN a + n ELSE a + n - Word
      BY PlusIs
    <2>2. Plus(a, n) = x \/ Plus(a, n) = x - Word
      BY <1>2, <2>1, Sizes DEF WordSet
    <2> QED BY <1>1, <2>2, Zenon
  <1>5. x % RingSize \in Frame
    BY <1>2, Division, Sizes DEF Frame
  <1> QED BY <1>2, <1>3, <1>4, <1>5

\* The producer's increment adds an element, the consumer's takes one.
LEMMA CountersMove ==
    ASSUME NEW p \in WordSet, NEW c \in WordSet
    PROVE  /\ Minus(p, c) < Word - 1 => Minus(Plus(p, 1), c) = Minus(p, c) + 1
           /\ p # c => Minus(p, c) > 0 /\ Minus(p, Plus(c, 1)) = Minus(p, c) - 1
           /\ Plus(c, Minus(p, c)) = p
           /\ Minus(p, p) = 0
           /\ Plus(p, 1) \in WordSet /\ Plus(c, 1) \in WordSet
  <1>1. 1 \in WordSet
    BY Sizes DEF WordSet
  <1>2. Plus(p, 1) \in WordSet /\ Plus(c, 1) \in WordSet /\ Minus(p, c) \in WordSet
    BY <1>1, PlusIs, MinusIs
  <1>3. Plus(p, 1) = (IF p + 1 < Word THEN p + 1 ELSE p + 1 - Word)
    BY <1>1, PlusIs
  <1>4. Plus(c, 1) = (IF c + 1 < Word THEN c + 1 ELSE c + 1 - Word)
    BY <1>1, PlusIs
  <1>5. Minus(p, c) = (IF c <= p THEN p - c ELSE p - c + Word)
    BY MinusIs
  <1>6. Minus(Plus(p, 1), c)
          = (IF c <= Plus(p, 1) THEN Plus(p, 1) - c ELSE Plus(p, 1) - c + Word)
    BY <1>2, MinusIs
  <1>7. Minus(p, Plus(c, 1))
          = (IF Plus(c, 1) <= p THEN p - Plus(c, 1) ELSE p - Plus(c, 1) + Word)
    BY <1>2, MinusIs
  <1>8. Plus(c, Minus(p, c))
          = (IF c + Minus(p, c) < Word THEN c + Minus(p, c) ELSE c + Minus(p, c) - Word)
    BY <1>2, PlusIs
  <1>9. Minus(p, p) = (IF p <= p THEN p - p ELSE p - p + Word)
    BY MinusIs
  <1>10. Minus(p, c) < Word - 1 => Minus(Plus(p, 1), c) = Minus(p, c) + 1
    BY <1>3, <1>5, <1>6, Sizes DEF WordSet
  <1>11. p # c => Minus(p, c) > 0 /\ Minus(p, Plus(c, 1)) = Minus(p, c) - 1
    BY <1>4, <1>5, <1>7, Sizes DEF WordSet
  <1>12. Plus(c, Minus(p, c)) = p
    BY <1>5, <1>8, Sizes DEF WordSet
  <1>13. Minus(p, p) = 0
    BY <1>9, Sizes DEF WordSet
  <1> QED BY <1>2, <1>10, <1>11, <1>12, <1>13

-----------------------------------------------------------------------------
(* The tx ring as a sequence. *)

\* The invariant's facts about the counters, for the steps below.
LEMMA CountersTyped ==
    ASSUME IInv
    PROVE  /\ prod \in WordSet /\ cons \in WordSet
           /\ cprod \in WordSet /\ ccons \in WordSet
           /\ Minus(prod, cons) \in 0 .. RingSize
           /\ NumCompleted \in 0 .. RingSize
           /\ inKernel \in 0 .. RingSize
  <1>1. prod \in WordSet /\ cons \in WordSet /\ cprod \in WordSet /\ ccons \in WordSet
    BY DEF IInv, TypeOK, Room, WordSet
  <1>2. Minus(prod, cons) \in WordSet /\ NumCompleted \in WordSet
    BY <1>1, MinusIs DEF NumCompleted
  <1> QED BY <1>1, <1>2, Sizes DEF IInv, TypeOK, WordSet

\* The elements of the ring, by their number from the consumer on.
LEMMA InRingIs ==
    ASSUME IInv
    PROVE  /\ Len(InRing) = Minus(prod, cons)
           /\ \A n \in 1 .. Minus(prod, cons) :
                 InRing[n] = ring[Plus(cons, n - 1) % RingSize]
  <1>1. Minus(prod, cons) \in Nat
    BY CountersTyped, Sizes
  <1>2. InRing \in Seq(Desc)
    BY DEF IInv, Carried
  <1>3. DOMAIN InRing = 1 .. Minus(prod, cons)
    BY DEF InRing
  <1>4. Len(InRing) = Minus(prod, cons)
    BY <1>1, <1>2, <1>3, LenProperties
  <1> QED BY <1>4 DEF InRing

\* PutDesc adds the descriptor at the end of the ring and changes no place in use:
\* there is a place that is not (xdp.go:392-400).
LEMMA RingPut ==
    ASSUME IInv, PutDesc
    PROVE  /\ InRing' = Append(InRing, desc)
           /\ InRing' \in Seq(Desc)
           /\ Minus(prod, cons)' = Minus(prod, cons) + 1
           /\ Minus(prod, cons) < RingSize
           /\ prod' \in WordSet
  <1> DEFINE k == Minus(prod, cons)
  <1>1. /\ prod \in WordSet /\ cons \in WordSet /\ k \in Nat /\ k < RingSize
        /\ cons' = cons /\ prod' = Plus(prod, 1) /\ desc \in Desc
        /\ ring' = [ring EXCEPT ![prod % RingSize] = desc]
    BY CountersTyped, Sizes DEF PutDesc, IInv, Room, Carried
  <1>2. Minus(prod', cons') = k + 1 /\ prod' \in WordSet
    BY <1>1, CountersMove, Sizes
  <1>3. \A n \in 0 .. RingSize - 1 : n \in WordSet
    BY Sizes DEF WordSet
  <1>4. prod % RingSize = (cons + k) % RingSize /\ prod % RingSize \in Frame
    <2>1. Plus(cons, k) = prod
      BY <1>1, CountersMove
    <2>2. k \in WordSet
      BY <1>1, <1>3, Sizes
    <2>3. /\ Plus(cons, k) % RingSize = (cons + k) % RingSize
          /\ Plus(cons, k) % RingSize \in Frame
      BY <1>1, <2>2, SlotIs
    <2> QED BY <2>1, <2>3
  <1>5. ASSUME NEW n \in 1 .. k
        PROVE  ring'[Plus(cons, n - 1) % RingSize] = InRing[n]
    <2>1. n - 1 \in WordSet
      BY <1>1, <1>3, Sizes
    <2>2. Plus(cons, n - 1) % RingSize = (cons + (n - 1)) % RingSize
      BY <1>1, <2>1, SlotIs
    <2>3. cons + (n - 1) \in Int /\ cons + k \in Int
          /\ cons + (n - 1) < cons + k /\ cons + k < cons + (n - 1) + RingSize
      BY <1>1, Sizes DEF WordSet
    <2>4. (cons + (n - 1)) % RingSize # (cons + k) % RingSize
      BY <2>3, Sizes, RemaindersApart
    <2>5. Plus(cons, n - 1) % RingSize \in Frame
      BY <1>1, <2>1, SlotIs
    <2> QED BY <1>1, <1>4, <2>2, <2>4, <2>5, InRingIs DEF IInv, TypeOK
  <1>6. ring'[Plus(cons, k) % RingSize] = desc
    <2>1. Plus(cons, k) = prod
      BY <1>1, CountersMove
    <2> QED BY <1>1, <1>4, <2>1 DEF IInv, TypeOK
  <1>7. InRing' = [n \in 1 .. k + 1 |-> ring'[Plus(cons, n - 1) % RingSize]]
    BY <1>1, <1>2 DEF InRing
  <1>8. InRing \in Seq(Desc) /\ Len(InRing) = k
    BY InRingIs DEF IInv, Carried
  <1>9. /\ Append(InRing, desc) \in Seq(Desc)
        /\ Append(InRing, desc) \in [1 .. k + 1 -> Desc]
        /\ \A n \in 1 .. k : Append(InRing, desc)[n] = InRing[n]
        /\ Append(InRing, desc)[k + 1] = desc
    <2>1. /\ Append(InRing, desc) \in Seq(Desc)
          /\ Len(Append(InRing, desc)) = k + 1
          /\ \A n \in 1 .. k : Append(InRing, desc)[n] = InRing[n]
          /\ Append(InRing, desc)[k + 1] = desc
      BY <1>1, <1>8, AppendProperties
    <2>2. Append(InRing, desc) \in [1 .. k + 1 -> Desc]
      BY <2>1, LenProperties
    <2> QED BY <2>1, <2>2
  <1>10. ASSUME NEW n \in 1 .. k + 1
         PROVE  ring'[Plus(cons, n - 1) % RingSize] = Append(InRing, desc)[n]
    <2>0. k \in Nat /\ (n \in 1 .. k \/ n = k + 1)
      BY <1>1
    <2>1. CASE n \in 1 .. k
      BY <1>5, <1>9, <2>1
    <2>2. CASE n = k + 1
      <3>1. n - 1 = k
        BY <2>0, <2>2
      <3>2. ring'[Plus(cons, n - 1) % RingSize] = desc
        BY <1>6, <3>1
      <3> QED BY <1>9, <2>2, <3>2
    <2> QED BY <2>0, <2>1, <2>2
  <1>11. InRing' = Append(InRing, desc)
    BY <1>7, <1>9, <1>10
  <1> QED BY <1>1, <1>2, <1>9, <1>11

\* KernelTake takes the first descriptor of the ring and leaves the others.
LEMMA RingTake ==
    ASSUME IInv, KernelTake
    PROVE  /\ InRing # <<>>
           /\ Head(InRing) = ring[cons % RingSize]
           /\ InRing' = Tail(InRing)
           /\ InRing' \in Seq(Desc)
           /\ Minus(prod, cons)' = Minus(prod, cons) - 1
           /\ cons' \in WordSet
  <1> DEFINE k == Minus(prod, cons)
  <1>1. /\ prod \in WordSet /\ cons \in WordSet /\ k \in Nat /\ k <= RingSize
        /\ prod # cons /\ cons' = Plus(cons, 1) /\ prod' = prod /\ ring' = ring
    BY CountersTyped, Sizes DEF KernelTake
  <1>2. k > 0 /\ Minus(prod', cons') = k - 1 /\ cons' \in WordSet
    BY <1>1, CountersMove
  <1>3. \A n \in 0 .. RingSize : n \in WordSet
    BY Sizes DEF WordSet
  <1>4. InRing \in Seq(Desc) /\ Len(InRing) = k
    BY InRingIs DEF IInv, Carried
  <1>5. ASSUME NEW n \in 0 .. k - 1 PROVE Plus(cons', n) = Plus(cons, n + 1)
    <2>1. n \in WordSet /\ n + 1 \in WordSet /\ 1 \in WordSet
      BY <1>1, <1>3, Sizes
    <2>2. Plus(cons, 1) = (IF cons + 1 < Word THEN cons + 1 ELSE cons + 1 - Word)
      BY <1>1, <2>1, PlusIs
    <2>3. Plus(cons', n) = (IF cons' + n < Word THEN cons' + n ELSE cons' + n - Word)
      BY <1>2, <2>1, PlusIs
    <2>4. Plus(cons, n + 1)
            = (IF cons + (n + 1) < Word THEN cons + (n + 1) ELSE cons + (n + 1) - Word)
      BY <1>1, <2>1, PlusIs
    <2> QED BY <1>1, <2>1, <2>2, <2>3, <2>4, Sizes DEF WordSet
  <1>6. InRing # <<>> /\ Head(InRing) = InRing[1]
    BY <1>2, <1>4, EmptySeq
  <1>7. InRing[1] = ring[cons % RingSize]
    <2>1. 0 \in WordSet
      BY Sizes DEF WordSet
    <2>2. Plus(cons, 0) = cons
      BY <1>1, <2>1, PlusIs, Sizes DEF WordSet
    <2> QED BY <1>1, <1>2, <2>2, InRingIs
  <1>8. InRing' = [n \in 1 .. k - 1 |-> ring[Plus(cons', n - 1) % RingSize]]
    BY <1>1, <1>2 DEF InRing
  <1>9. /\ Tail(InRing) \in Seq(Desc)
        /\ Tail(InRing) \in [1 .. k - 1 -> Desc]
        /\ \A n \in 1 .. k - 1 : Tail(InRing)[n] = InRing[n + 1]
    BY <1>4, <1>6, HeadTailProperties, LenProperties
  <1>10. \A n \in 1 .. k - 1 : ring[Plus(cons', n - 1) % RingSize] = Tail(InRing)[n]
    <2> SUFFICES ASSUME NEW n \in 1 .. k - 1
                 PROVE  ring[Plus(cons', n - 1) % RingSize] = InRing[n + 1]
      BY <1>9
    <2>1. Plus(cons', n - 1) = Plus(cons, n)
      <3>1. n - 1 \in 0 .. k - 1 /\ (n - 1) + 1 = n
        BY <1>1
      <3> QED BY <1>5, <3>1
    <2>2. n + 1 \in 1 .. k /\ (n + 1) - 1 = n
      BY <1>1
    <2> QED BY <2>1, <2>2, InRingIs
  <1>11. InRing' = Tail(InRing)
    BY <1>8, <1>9, <1>10
  <1> QED BY <1>2, <1>6, <1>7, <1>9, <1>11

-----------------------------------------------------------------------------
(* The invariant: one lemma for each actor. *)

\* A new socket has empty rings and an empty channel (xdp.go:153-347).
LEMMA InvInit == Init => IInv
  <1> SUFFICES ASSUME Init PROVE IInv
    OBVIOUS
  <1>1. 0 \in WordSet /\ 0 \in Frame
    BY Sizes DEF WordSet, Frame
  <1>2. Minus(0, 0) = 0
    BY <1>1, CountersMove
  <1>3. InRing = <<>> /\ NumCompleted = 0
    BY <1>2 DEF Init, InRing, NumCompleted
  <1>4. TypeOK
    <2>1. /\ txIndex \in 0 .. MaxSends /\ umem \in [Frame -> Msg \cup {0}]
          /\ ring \in [Frame -> Desc \cup {NoDesc}]
      BY SendsAssumption DEF Init
    <2> QED BY <1>1, <1>2, <1>3, <2>1, Sizes, SizesAssumption
            DEF Init, TypeOK, WordSet
  <1>5. Carried
    BY <1>3, EmptySeq DEF Init, Carried
  <1>6. Room
    BY <1>1, <1>3, Sizes DEF Init, Room
  <1> QED BY <1>4, <1>5, <1>6 DEF IInv

\* The steps of SendMsg, which leave the rings alone (xdp.go:601-642).
LEMMA SenderStep ==
    ASSUME IInv, NEW s \in Sender, GetTxDesc(s) \/ SendMsg(s)
    PROVE  IInv'
  <1> USE DEF IInv
  <1>1. UNCHANGED <<workerVars, trigger, transmitter, ringVars, completionVars, wire,
                  fullIsAgain>>
    BY DEF GetTxDesc, SendMsg, Copy, Send
  <1>2. InRing' = InRing /\ NumCompleted' = NumCompleted /\ Room'
    BY <1>1 DEF Room, InRing, NumCompleted, workerVars, ringVars, completionVars
  <1>3. CASE GetTxDesc(s)
    <2>1. [frame |-> FrameOf(txIndex), msg |-> txIndex + 1] \in Desc
      <3>1. txIndex \in Int /\ txIndex + 1 \in Msg
        BY <1>3, SendsAssumption DEF GetTxDesc, TypeOK, Msg
      <3>2. FrameOf(txIndex) \in Frame
        BY <3>1, Division, Sizes DEF FrameOf, Frame
      <3> QED BY <3>1, <3>2 DEF Desc
    <2>2. txIndex' \in 0 .. MaxSends
      BY <1>3, SendsAssumption DEF GetTxDesc, TypeOK
    <2>3. TypeOK'
      BY <1>1, <1>2, <1>3, <2>1, <2>2
          DEF GetTxDesc, TypeOK, workerVars, ringVars, completionVars, NumCompleted
    <2>4. Carried'
      BY <1>1, <1>2, <1>3, <2>1 DEF GetTxDesc, Carried, TypeOK, workerVars
    <2> QED BY <1>2, <2>3, <2>4
  <1>4. CASE Copy(s)
    <2>1. held[s] \in Desc
      BY <1>4 DEF Copy, Carried
    <2>2. umem' \in [Frame -> Msg \cup {0}]
      BY <1>4, <2>1 DEF Copy, TypeOK, Desc
    <2>3. TypeOK'
      BY <1>1, <1>2, <1>4, <2>2
          DEF Copy, TypeOK, workerVars, ringVars, completionVars, NumCompleted
    <2>4. Carried'
      BY <1>1, <1>2, <1>4, <2>1 DEF Copy, Carried, TypeOK, workerVars
    <2> QED BY <1>2, <2>3, <2>4
  <1>5. CASE Send(s)
    <2>1. held[s] \in Desc /\ txChan \in Seq(Desc)
      BY <1>5 DEF Send, Carried
    <2>2. txChan' \in Seq(Desc) /\ Len(txChan') = Len(txChan) + 1
      BY <1>5, <2>1, AppendProperties DEF Send
    <2>3. Len(txChan') <= ChanSize /\ \A n \in DOMAIN txChan' : txChan'[n] \in Desc
      BY <1>5, <2>1, <2>2, LenProperties, SizesAssumption DEF Send
    <2>4. TypeOK'
      BY <1>1, <1>2, <1>5, <2>3
          DEF Send, TypeOK, workerVars, ringVars, completionVars, NumCompleted
    <2>5. Carried'
      BY <1>1, <1>2, <1>5, <2>2 DEF Send, Carried, TypeOK, workerVars
    <2> QED BY <1>2, <2>4, <2>5
  <1> QED BY <1>3, <1>4, <1>5 DEF SendMsg

\* txWorker tests the ring before it puts a descriptor (xdp.go:373-404).
LEMMA WorkerStep == ASSUME IInv, Worker PROVE IInv'
  <1> USE DEF IInv
  <1>1. UNCHANGED <<senderVars, transmitter, cons, completionVars, wire, fullIsAgain>>
    BY DEF Worker, Receive, CheckRing, Kick, PutDesc, ringVars
  <1>2. NumCompleted' = NumCompleted
    BY <1>1 DEF NumCompleted, completionVars
  <1>3. UNCHANGED ringVars => InRing' = InRing
    BY DEF InRing, ringVars
  <1>4. CASE Receive
    <2>1. txChan \in Seq(Desc) /\ txChan # <<>>
      BY <1>4 DEF Receive, Carried
    <2>2. /\ desc' \in Desc /\ txChan' \in Seq(Desc)
          /\ Len(txChan') <= ChanSize /\ \A n \in DOMAIN txChan' : txChan'[n] \in Desc
      <3>1. desc' \in Desc /\ txChan' \in Seq(Desc) /\ Len(txChan') = Len(txChan) - 1
        BY <1>4, <2>1, HeadTailProperties DEF Receive
      <3>2. Len(txChan) \in Nat
        BY <2>1, LenProperties
      <3> QED BY <3>1, <3>2, LenProperties, SizesAssumption DEF TypeOK
    <2>3. TypeOK'
      BY <1>1, <1>2, <1>4, <2>2
          DEF Receive, TypeOK, senderVars, ringVars, completionVars
    <2>4. Carried'
      BY <1>1, <1>3, <1>4, <2>2 DEF Receive, Carried, senderVars
    <2>5. Room'
      BY <1>2, <1>4 DEF Receive, Room, ringVars, completionVars
    <2> QED BY <2>3, <2>4, <2>5
  <1>5. CASE CheckRing \/ Kick
    <2>1. TypeOK'
      BY <1>1, <1>2, <1>5 DEF CheckRing, Kick, TypeOK, senderVars, ringVars, completionVars
    <2>2. Carried'
      BY <1>1, <1>3, <1>5 DEF CheckRing, Kick, Carried, senderVars
    <2>3. Room'
      BY <1>2, <1>5, CountersTyped, Sizes
          DEF CheckRing, Kick, RingFull, Room, ringVars, completionVars
    <2> QED BY <2>1, <2>2, <2>3
  <1>6. CASE PutDesc
    <2>1. /\ InRing' \in Seq(Desc) /\ Minus(prod, cons)' = Minus(prod, cons) + 1
          /\ Minus(prod, cons) < RingSize /\ prod' \in WordSet
      BY <1>6, RingPut
    <2>2. Minus(prod, cons)' <= RingSize
      BY <2>1, CountersTyped, Sizes
    <2>3. desc \in Desc /\ ring' \in [Frame -> Desc \cup {NoDesc}]
      BY <1>6 DEF PutDesc, Carried, TypeOK
    <2>4. TypeOK'
      BY <1>1, <1>2, <1>6, <2>1, <2>2, <2>3
          DEF PutDesc, TypeOK, WordSet, senderVars, completionVars
    <2>5. Carried'
      BY <1>1, <1>6, <2>1 DEF PutDesc, Carried, senderVars
    <2>6. Room'
      BY <1>1, <1>2, <1>6 DEF PutDesc, Room, completionVars
    <2> QED BY <2>4, <2>5, <2>6
  <1> QED BY <1>4, <1>5, <1>6 DEF Worker

\* Drain completes what is done, so the completion ring is then empty
\* (xdp.go:349-371, 406-441).
LEMMA TransmitterStep == ASSUME IInv, Transmitter PROVE IInv'
  <1> USE DEF IInv
  <1>1. UNCHANGED <<senderVars, txChan, workerVars, ringVars, cprod, inKernel, wire,
                  fullIsAgain>>
    BY DEF Transmitter, Tick, Triggered, TestRing, Sent, Again, Panic, Drain,
       completionVars
  <1>2. Carried'
    <2>1. InRing' = InRing
      BY <1>1 DEF InRing, ringVars
    <2> QED BY <1>1, <2>1 DEF Carried, senderVars, workerVars
  <1>3. ccons' \in WordSet /\ NumCompleted' \in 0 .. NumCompleted
    <2>1. CASE Drain
      <3>1. ccons' = cprod
        BY <2>1, CountersTyped, CountersMove DEF Drain, NumCompleted
      <3>2. NumCompleted' = 0
        BY <1>1, <3>1, CountersTyped, CountersMove DEF NumCompleted
      <3> QED BY <3>1, <3>2, CountersTyped, Sizes
    <2>2. CASE ccons' = ccons
      BY <1>1, <2>2, CountersTyped, Sizes DEF NumCompleted
    <2> QED BY <2>1, <2>2
        DEF Transmitter, Tick, Triggered, TestRing, Sent, Again, Panic, completionVars
  <1>4. TypeOK'
    <2>1. /\ trigger' \in 0 .. 1
          /\ transmitter' \in {"wait", "test", "sendto", "drain", "panicked"}
      BY DEF Transmitter, Tick, Triggered, TestRing, Sent, Again, Panic, Drain, TypeOK
    <2>2. NumCompleted' <= RingSize
      BY <1>3, CountersTyped, Sizes
    <2> QED BY <1>1, <2>1, <2>2 DEF TypeOK, senderVars, workerVars, ringVars
  <1>5. Room'
    <2>1. NumCompleted' + inKernel' <= RingSize
      BY <1>1, <1>3, CountersTyped, Sizes DEF Room
    <2> QED BY <1>1, <1>3, <2>1 DEF Room, workerVars, ringVars
  <1> QED BY <1>2, <1>4, <1>5

\* The kernel takes a descriptor only with a place for its completion, so producing
\* the completion cannot overfill that ring.
LEMMA KernelStep == ASSUME IInv, KernelTake \/ KernelComplete PROVE IInv'
  <1> USE DEF IInv
  <1>1. UNCHANGED <<senderVars, txChan, workerVars, trigger, transmitter, ring, prod, ccons,
                  fullIsAgain>>
    BY DEF KernelTake, KernelComplete, ringVars
  <1>2. CASE KernelTake
    <2>1. /\ InRing' \in Seq(Desc) /\ Minus(prod, cons)' = Minus(prod, cons) - 1
          /\ cons' \in WordSet
      BY <1>2, RingTake
    <2>2. ring[cons % RingSize] \in Desc
      <3>1. InRing # <<>> /\ InRing \in Seq(Desc) /\ Head(InRing) = ring[cons % RingSize]
        BY <1>2, RingTake DEF Carried
      <3>2. Head(InRing) \in Desc
        BY <3>1, HeadTailProperties
      <3> QED BY <3>1, <3>2
    <2>3. wire' \in Seq(Packet)
      <3> DEFINE d == ring[cons % RingSize]
                 p == [frame |-> d.frame, msg |-> d.msg, data |-> umem[d.frame]]
      <3>1. p \in Packet
        BY <2>2 DEF TypeOK, Desc, Packet
      <3>2. wire' = Append(wire, p)
        BY <1>2 DEF KernelTake
      <3> HIDE DEF p
      <3> QED BY <3>1, <3>2, AppendProperties DEF Carried
    <2>4. \A n \in DOMAIN wire' : wire'[n].msg \in Msg
      <3>1. \A n \in DOMAIN wire' : wire'[n] \in Packet
        BY <2>3, LenProperties
      <3> QED BY <3>1 DEF Packet
    <2>5. inKernel' \in 0 .. RingSize /\ NumCompleted' + inKernel' <= RingSize
          /\ NumCompleted' = NumCompleted
      BY <1>1, <1>2, CountersTyped, Sizes DEF KernelTake, CompletionFull, NumCompleted
    <2>6. Minus(prod, cons)' < RingSize /\ Minus(prod, cons)' <= RingSize
      BY <2>1, CountersTyped, Sizes
    <2>7. TypeOK'
      BY <1>1, <1>2, <2>4, <2>5, <2>6, Sizes
          DEF KernelTake, TypeOK, senderVars, workerVars
    <2>8. Carried'
      BY <1>1, <2>1, <2>3 DEF Carried, senderVars, workerVars
    <2>9. Room'
      BY <1>1, <2>1, <2>5, <2>6 DEF Room, workerVars
    <2> QED BY <2>7, <2>8, <2>9
  <1>3. CASE KernelComplete
    <2>1. NumCompleted < Word - 1
      BY <1>3, CountersTyped, Sizes DEF KernelComplete, Room
    <2>2. cprod' \in WordSet /\ NumCompleted' = NumCompleted + 1
      BY <1>1, <1>3, <2>1, CountersTyped, CountersMove DEF KernelComplete, NumCompleted
    <2>3. inKernel' \in 0 .. RingSize /\ NumCompleted' + inKernel' <= RingSize
          /\ NumCompleted' <= RingSize
      BY <1>3, <2>2, CountersTyped, Sizes DEF KernelComplete, Room
    <2>4. InRing' = InRing
      BY <1>3 DEF KernelComplete, InRing, ringVars
    <2>5. TypeOK'
      BY <1>1, <1>3, <2>2, <2>3
          DEF KernelComplete, TypeOK, WordSet, senderVars, workerVars, ringVars
    <2>6. Carried'
      BY <1>1, <1>3, <2>4 DEF KernelComplete, Carried, senderVars, workerVars
    <2>7. Room'
      BY <1>1, <1>3, <2>3 DEF KernelComplete, Room, workerVars, ringVars
    <2> QED BY <2>5, <2>6, <2>7
  <1> QED BY <1>2, <1>3

-----------------------------------------------------------------------------
(* Queues of which one end is in another queue. *)

\* The first element of a sequence and the rest make up the sequence.
LEMMA HeadThenTail ==
    ASSUME NEW S, NEW s \in Seq(S), s # <<>>
    PROVE  s = <<Head(s)>> \o Tail(s)
  <1>1. Len(s) \in Nat \ {0} /\ Head(s) = s[1]
    BY EmptySeq
  <1>2. s = SubSeq(s, 1, Len(s)) /\ Tail(s) = SubSeq(s, 2, Len(s))
    BY SubSeqFull, TailIsSubSeq
  <1>3. SubSeq(s, 1, Len(s)) = <<s[1]>> \o SubSeq(s, 1 + 1, Len(s))
    BY <1>1, SubSeqRecursiveFirst
  <1> QED BY <1>1, <1>2, <1>3

\* The first of two queues in a row loses its head.
LEMMA HeadOfConcat ==
    ASSUME NEW S, NEW s \in Seq(S), NEW t \in Seq(S), s # <<>>
    PROVE  /\ s \o t # <<>>
           /\ Head(s \o t) = Head(s)
           /\ Tail(s \o t) = Tail(s) \o t
  <1>1. /\ s \o t \in Seq(S) /\ Len(s \o t) = Len(s) + Len(t)
        /\ \A i \in 1 .. Len(s) + Len(t) :
              (s \o t)[i] = IF i <= Len(s) THEN s[i] ELSE t[i - Len(s)]
    BY ConcatProperties
  <1>2. Len(s) \in Nat \ {0} /\ Len(t) \in Nat
    BY EmptySeq, LenProperties
  <1>3. s \o t # <<>>
    BY <1>1, <1>2, EmptySeq
  <1>4. Head(s \o t) = Head(s)
    BY <1>1, <1>2, <1>3, EmptySeq
  <1>5. /\ Tail(s) \in Seq(S) /\ Len(Tail(s)) = Len(s) - 1
        /\ \A i \in 1 .. Len(Tail(s)) : Tail(s)[i] = s[i + 1]
    BY HeadTailProperties
  <1>6. /\ Tail(s \o t) \in Seq(S) /\ Len(Tail(s \o t)) = Len(s \o t) - 1
        /\ \A i \in 1 .. Len(Tail(s \o t)) : Tail(s \o t)[i] = (s \o t)[i + 1]
    BY <1>1, <1>3, HeadTailProperties
  <1>7. /\ Tail(s) \o t \in Seq(S) /\ Len(Tail(s) \o t) = Len(Tail(s)) + Len(t)
        /\ \A i \in 1 .. Len(Tail(s)) + Len(t) :
              (Tail(s) \o t)[i]
                = IF i <= Len(Tail(s)) THEN Tail(s)[i] ELSE t[i - Len(Tail(s))]
    BY <1>5, ConcatProperties
  <1>8. Len(Tail(s \o t)) = Len(Tail(s) \o t)
    BY <1>1, <1>2, <1>5, <1>6, <1>7
  <1>9. ASSUME NEW i \in 1 .. Len(Tail(s \o t))
        PROVE  Tail(s \o t)[i] = (Tail(s) \o t)[i]
    <2>1. i + 1 \in 1 .. Len(s) + Len(t) /\ i \in 1 .. Len(Tail(s)) + Len(t)
      BY <1>1, <1>2, <1>5, <1>6
    <2>2. Tail(s \o t)[i] = (s \o t)[i + 1]
      BY <1>6
    <2>3. CASE i <= Len(Tail(s))
      <3>1. (s \o t)[i + 1] = s[i + 1] /\ (Tail(s) \o t)[i] = Tail(s)[i]
        BY <1>1, <1>2, <1>5, <1>7, <2>1, <2>3
      <3>2. Tail(s)[i] = s[i + 1]
        BY <1>2, <1>5, <2>1, <2>3
      <3> QED BY <2>2, <3>1, <3>2
    <2>4. CASE ~(i <= Len(Tail(s)))
      <3>1. (s \o t)[i + 1] = t[(i + 1) - Len(s)]
        BY <1>1, <1>2, <1>5, <2>1, <2>4
      <3>2. (Tail(s) \o t)[i] = t[i - Len(Tail(s))]
        BY <1>7, <2>1, <2>4
      <3>3. (i + 1) - Len(s) = i - Len(Tail(s))
        BY <1>2, <1>5, <2>1
      <3> QED BY <2>2, <3>1, <3>2, <3>3
    <2> QED BY <2>3, <2>4
  <1>10. Tail(s \o t) = Tail(s) \o t
    BY <1>6, <1>7, <1>8, <1>9, SeqEqual
  <1> QED BY <1>3, <1>4, <1>10

\* The second of two queues in a row gets an element.
LEMMA AppendToConcat ==
    ASSUME NEW S, NEW s \in Seq(S), NEW t \in Seq(S), NEW e \in S
    PROVE  s \o Append(t, e) = Append(s \o t, e)
  <1>1. s \o t \in Seq(S) /\ <<e>> \in Seq(S)
    BY ConcatProperties
  <1>2. Append(t, e) = t \o <<e>> /\ Append(s \o t, e) = (s \o t) \o <<e>>
    BY <1>1, AppendIsConcat
  <1>3. (s \o t) \o <<e>> = s \o (t \o <<e>>)
    BY <1>1, ConcatAssociative
  <1> QED BY <1>2, <1>3

-----------------------------------------------------------------------------
(* The refinement. *)

\* What TxQueue calls taken.
Taken == [n \in DOMAIN wire |-> [frame |-> wire[n].frame, msg |-> wire[n].msg]]

\* The three queues of the pipeline, and all of it, are sequences of descriptors.
LEMMA PipelineTyped ==
    ASSUME IInv
    PROVE  /\ InRing \in Seq(Desc) /\ InWorker \in Seq(Desc) /\ txChan \in Seq(Desc)
           /\ InRing \o InWorker \in Seq(Desc) /\ InWorker \o txChan \in Seq(Desc)
           /\ Pipeline = InRing \o (InWorker \o txChan)
  <1>1. InRing \in Seq(Desc) /\ InWorker \in Seq(Desc) /\ txChan \in Seq(Desc)
    BY DEF IInv, Carried, InWorker
  <1>2. InRing \o InWorker \in Seq(Desc) /\ InWorker \o txChan \in Seq(Desc)
    BY <1>1, ConcatProperties
  <1> QED BY <1>1, <1>2, ConcatAssociative DEF Pipeline

\* SendMsg's send to the channel is the only step that hands a descriptor over
\* (xdp.go:640).
LEMMA SendEnqueues ==
    ASSUME IInv, NEW s \in Sender, Send(s)
    PROVE  held[s] \in Desc /\ Pipeline' = Append(Pipeline, held[s]) /\ Taken' = Taken
  <1>1. held[s] \in Desc
    BY DEF Send, IInv, Carried
  <1>2. InRing' = InRing /\ InWorker' = InWorker /\ Taken' = Taken
    BY DEF Send, InRing, InWorker, Taken, ringVars, workerVars
  <1>3. Pipeline' = (InRing \o InWorker) \o Append(txChan, held[s])
    BY <1>2 DEF Send, Pipeline
  <1> QED BY <1>1, <1>2, <1>3, PipelineTyped, AppendToConcat DEF Pipeline

\* txWorker keeps the order and loses nothing between the channel and the ring
\* (xdp.go:373-404).
LEMMA WorkerMoves ==
    ASSUME IInv, IInv', Worker
    PROVE  Pipeline' = Pipeline /\ Taken' = Taken
  <1>1. Taken' = Taken
    BY DEF Worker, Receive, CheckRing, Kick, PutDesc, Taken
  <1>2. CASE Receive
    <2>1. InRing' = InRing
      BY <1>2 DEF Receive, InRing, ringVars
    <2>2. InWorker = <<>> /\ InWorker' = <<Head(txChan)>> /\ txChan' = Tail(txChan)
      BY <1>2 DEF Receive, InWorker
    <2>3. txChan = <<Head(txChan)>> \o Tail(txChan)
      BY <1>2, PipelineTyped, HeadThenTail DEF Receive
    <2>4. InWorker \o txChan = txChan
      BY <2>2, PipelineTyped, ConcatEmptySeq
    <2>5. Pipeline' = InRing' \o (InWorker' \o txChan')
      <3>1. InRing' \in Seq(Desc) /\ InWorker' \in Seq(Desc) /\ txChan' \in Seq(Desc)
        BY DEF IInv, Carried, InWorker
      <3> QED BY <3>1, ConcatAssociative DEF Pipeline
    <2> QED BY <1>1, <2>1, <2>2, <2>3, <2>4, <2>5, PipelineTyped
  <1>3. CASE CheckRing \/ Kick
    <2>1. InRing' = InRing /\ InWorker' = InWorker /\ txChan' = txChan
      BY <1>3 DEF CheckRing, Kick, InRing, InWorker, ringVars
    <2> QED BY <1>1, <2>1 DEF Pipeline
  <1>4. CASE PutDesc
    <2>1. InRing' = Append(InRing, desc) /\ desc \in Desc
      BY <1>4, RingPut DEF PutDesc, IInv, Carried
    <2>2. InWorker = <<desc>> /\ InWorker' = <<>> /\ txChan' = txChan
      BY <1>4 DEF PutDesc, InWorker
    <2>3. Append(InRing, desc) = InRing \o <<desc>>
      BY <2>1, PipelineTyped, AppendIsConcat
    <2>4. InRing' \o InWorker' = InRing'
      <3>1. InRing' \in Seq(Desc)
        BY DEF IInv, Carried
      <3> QED BY <2>2, <3>1, ConcatEmptySeq
    <2> QED BY <1>1, <2>1, <2>2, <2>3, <2>4 DEF Pipeline
  <1> QED BY <1>2, <1>3, <1>4 DEF Worker

\* The kernel takes the first descriptor of the pipeline.
LEMMA TakeDequeues ==
    ASSUME IInv, KernelTake
    PROVE  /\ Pipeline # <<>> /\ Pipeline' = Tail(Pipeline)
           /\ Taken' = Append(Taken, Head(Pipeline))
  <1> DEFINE rest == InWorker \o txChan
             d == ring[cons % RingSize]
  <1>1. InRing # <<>> /\ Head(InRing) = d /\ InRing' = Tail(InRing)
        /\ InRing' \in Seq(Desc)
    BY RingTake
  <1>2. /\ Pipeline = InRing \o rest /\ rest \in Seq(Desc)
        /\ InRing \in Seq(Desc) /\ InWorker \in Seq(Desc) /\ txChan \in Seq(Desc)
    BY PipelineTyped
  <1>3. Pipeline # <<>> /\ Head(Pipeline) = d /\ Tail(Pipeline) = Tail(InRing) \o rest
    BY <1>1, <1>2, HeadOfConcat
  <1>4. Pipeline' = InRing' \o rest
    <2>1. InWorker' = InWorker /\ txChan' = txChan
      BY DEF KernelTake, InWorker, workerVars
    <2>2. Pipeline' = (InRing' \o InWorker) \o txChan
      BY <2>1 DEF Pipeline
    <2>3. InRing' \in Seq(Desc) /\ InWorker \in Seq(Desc) /\ txChan \in Seq(Desc)
      BY <1>1, <1>2
    <2>4. (InRing' \o InWorker) \o txChan = InRing' \o (InWorker \o txChan)
      BY <2>3, ConcatAssociative
    <2> QED BY <2>2, <2>4
  <1>5. d \in Desc
    BY <1>1, <1>2, HeadTailProperties
  <1>6. Taken' = Append(Taken, d)
    <2> DEFINE p == [frame |-> d.frame, msg |-> d.msg, data |-> umem[d.frame]]
    <2>1. wire' = Append(wire, p)
      BY DEF KernelTake
    <2>2. wire \in Seq(Packet) /\ p \in Packet
      BY <1>5 DEF IInv, Carried, TypeOK, Desc, Packet
    <2>3. /\ DOMAIN wire' = 1 .. Len(wire) + 1 /\ DOMAIN wire = 1 .. Len(wire)
          /\ Len(wire) \in Nat
          /\ \A n \in 1 .. Len(wire) : wire'[n] = wire[n]
          /\ wire'[Len(wire) + 1] = p
      <3>1. wire' \in Seq(Packet) /\ Len(wire') = Len(wire) + 1
        BY <2>1, <2>2, AppendProperties
      <3>2. DOMAIN wire' = 1 .. Len(wire') /\ DOMAIN wire = 1 .. Len(wire)
            /\ Len(wire) \in Nat
        BY <2>2, <3>1, LenProperties
      <3>3. /\ \A n \in 1 .. Len(wire) : wire'[n] = wire[n]
            /\ wire'[Len(wire) + 1] = p
        BY <2>1, <2>2, AppendProperties
      <3> QED BY <3>1, <3>2, <3>3
    <2>4. [frame |-> p.frame, msg |-> p.msg] = d
      BY <1>5 DEF Desc
    <2>5. Taken \in Seq(Desc) /\ Len(Taken) = Len(wire)
      <3>1. \A n \in 1 .. Len(wire) : wire[n] \in Packet
        BY <2>2, <2>3, LenProperties
      <3>2. \A n \in 1 .. Len(wire) : [frame |-> wire[n].frame, msg |-> wire[n].msg] \in Desc
        BY <3>1 DEF Packet, Desc
      <3>3. Taken \in [1 .. Len(wire) -> Desc]
        BY <2>3, <3>2 DEF Taken
      <3> QED BY <2>3, <3>3, SeqDef, LenProperties
    <2>6. /\ Append(Taken, d) \in Seq(Desc) /\ Len(Append(Taken, d)) = Len(wire) + 1
          /\ \A n \in 1 .. Len(wire) : Append(Taken, d)[n] = Taken[n]
          /\ Append(Taken, d)[Len(wire) + 1] = d
      BY <1>5, <2>5, AppendProperties
    <2>7. DOMAIN Append(Taken, d) = 1 .. Len(wire) + 1
          /\ Append(Taken, d) \in [1 .. Len(wire) + 1 -> Desc]
      BY <2>6, LenProperties
    <2>8. Taken' = [n \in 1 .. Len(wire) + 1 |->
                      [frame |-> wire'[n].frame, msg |-> wire'[n].msg]]
      BY <2>3 DEF Taken
    <2>9. ASSUME NEW n \in 1 .. Len(wire) + 1
          PROVE  [frame |-> wire'[n].frame, msg |-> wire'[n].msg] = Append(Taken, d)[n]
      <3>1. CASE n \in 1 .. Len(wire)
        <4>1. Taken[n] = [frame |-> wire[n].frame, msg |-> wire[n].msg]
          BY <2>3, <3>1 DEF Taken
        <4> QED BY <2>3, <2>6, <3>1, <4>1
      <3>2. CASE n = Len(wire) + 1
        BY <2>3, <2>4, <2>6, <3>2
      <3>3. n \in 1 .. Len(wire) \/ n = Len(wire) + 1
        <4>1. Len(wire) \in Nat
          BY <2>3
        <4> QED BY <4>1
      <3> QED BY <3>1, <3>2, <3>3
    <2> QED BY <2>7, <2>8, <2>9
  <1> QED BY <1>1, <1>3, <1>4, <1>6

-----------------------------------------------------------------------------
(* The theorems. *)

\* The inductive invariant holds in every reachable state.
THEOREM Invariant == Spec => []IInv
  <1>1. IInv /\ [Next]_vars => IInv'
    <2> SUFFICES ASSUME IInv, [Next]_vars PROVE IInv'
      OBVIOUS
    <2>1. CASE Over \/ UNCHANGED vars
      BY <2>1 DEF Over, IInv, TypeOK, Carried, Room, InRing, NumCompleted, vars, senderVars,
         workerVars, ringVars, completionVars
    <2> QED BY <2>1, SenderStep, WorkerStep, TransmitterStep, KernelStep DEF Next, Kernel
  <1> QED BY <1>1, InvInit, PTL DEF Spec

\* Neither ring is ever given more descriptors than it has room for, although the
\* counters wrap and the kernel moves between a test and a use (xdp.go:349-441).
THEOREM TypeCorrect == Spec => []TypeOK
  <1>1. IInv => TypeOK
    BY DEF IInv
  <1> QED BY <1>1, Invariant, PTL

\* The transmit side implements the queue of TxQueue: whatever the interleaving of
\* senders, txWorker, txTransmit and the kernel, no descriptor is lost, duplicated or
\* overtaken between SendMsg and the kernel (xdp.go:373-404, 601-642).
THEOREM TxImplementsQueue == Spec => QueueSpec
  <1>1. Init => Queue!QueueInit
    <2> SUFFICES ASSUME Init PROVE Pipeline = <<>> /\ Taken = <<>>
      BY DEF Queue!QueueInit, Taken
    <2>1. IInv
      BY InvInit
    <2>2. InRing = <<>>
      <3>1. 0 \in WordSet
        BY Sizes DEF WordSet
      <3>2. Minus(0, 0) = 0
        BY <3>1, CountersMove
      <3> QED BY <3>2 DEF Init, InRing
    <2>3. Pipeline = <<>>
      BY <2>1, <2>2, PipelineTyped, ConcatEmptySeq DEF Init, Pipeline, InWorker
    <2> QED BY <2>3 DEF Init, Taken
  <1>2. IInv /\ IInv' /\ [Next]_vars => [Queue!QueueNext]_(Queue!queueVars)
    <2> SUFFICES ASSUME IInv, IInv', [Next]_vars
                 PROVE  \/ Pipeline # <<>> /\ Pipeline' = Tail(Pipeline)
                           /\ Taken' = Append(Taken, Head(Pipeline))
                        \/ \E d \in Desc : Pipeline' = Append(Pipeline, d) /\ Taken' = Taken
                        \/ Pipeline' = Pipeline /\ Taken' = Taken
      BY DEF Queue!QueueNext, Queue!Dequeue, Queue!Enqueue, Queue!queueVars, Taken
    <2>1. ASSUME UNCHANGED <<ringVars, workerVars, txChan, wire>>
          PROVE  Pipeline' = Pipeline /\ Taken' = Taken
      BY <2>1 DEF Pipeline, InRing, InWorker, Taken, ringVars, workerVars
    <2>2. ASSUME NEW s \in Sender, GetTxDesc(s) \/ Copy(s)
          PROVE  Pipeline' = Pipeline /\ Taken' = Taken
      BY <2>1, <2>2 DEF GetTxDesc, Copy
    <2>3. CASE Transmitter \/ KernelComplete \/ Over \/ UNCHANGED vars
      BY <2>1, <2>3 DEF Transmitter, Tick, Triggered, TestRing, Sent, Again, Panic,
         Drain, KernelComplete, Over, vars
    <2> QED BY <2>2, <2>3, SendEnqueues, WorkerMoves, TakeDequeues DEF Next, SendMsg, Kernel
  <1> QED BY <1>1, <1>2, Invariant, PTL DEF Spec, QueueSpec, Queue!QueueSpec
=============================================================================
