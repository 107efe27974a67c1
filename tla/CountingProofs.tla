--------------------------- MODULE CountingProofs ---------------------------
(***************************************************************************)
(* Proofs about what the program counts, for any number of queues, of      *)
(* sockets, of time ranges with any weights, of medias and of calls, and   *)
(* any word that the counters wrap at:                                     *)
(*   - what a NewSocket that fails leaves open, and how evenly the medias  *)
(*     share the sockets though the counter of xdpSocketsLB overflows      *)
(*     (Startup);                                                          *)
(*   - that the layout of the weighted round robin holds each range as     *)
(*     often as its weight says, and that so do the timeouts that the      *)
(*     handlers get (Distributor, a part of Startup);                      *)
(*   - what Close of a dialog finds in the counters of its rule, for any   *)
(*     number of dialogs, of CPUs, of elements and of packets (XdpProgram  *)
(*     and its composition with the dialogs, the instance of XdpRules).    *)
(* All but the first are about sums over a finite set; the lemmas on sums  *)
(* come first.                                                             *)
(***************************************************************************)
EXTENDS Startup, XdpProgram, FiniteSetTheorems, TLAPS

-----------------------------------------------------------------------------
(* The sockets: the invariant of newBaseUa. *)

TypeInv ==
    /\ phase \in {"times", "media", "interface", "sockets", "serving", "failed", "panicked"}
    /\ made \in 0 .. Len(SocketSteps)
    /\ held \subseteq Gets
    /\ sockets \in 0 .. MaxQueues
    /\ nextSocket \in 0 .. Word - 1
    /\ load \in [1 .. MaxQueues -> Nat]
    /\ medias \in Nat

\* Only initXDP makes sockets, one after the other, and a socket that is made keeps
\* what it holds; so there is nothing to give back outside of NewSocket.
SocketsInv ==
    /\ phase # "sockets" \/ sockets = MaxQueues => made = 0
    /\ made = 0 => held \cap Released = {}

\* The counter is the number of medias, as a word; no media comes before "serving".
CounterInv ==
    /\ nextSocket = medias % Word
    /\ phase \notin {"serving", "panicked"} =>
          medias = 0 /\ load = [s \in 1 .. MaxQueues |-> 0]

\* In the round that the counter is in, the numbers 0 up to it: whether socket s is
\* among those that one number more has reached.
Reached(s) == IF s <= (nextSocket + 1) % sockets THEN 1 ELSE 0

\* What s had got when that round of the sockets began, as if 0 had been the first
\* number: it is skipped before the counter overflows for the first time.
Base(s) == load[s] - Reached(s) + (IF s = 1 THEN 1 ELSE 0)

\* The overflows that cut a round short.
Wraps == IF Word % sockets = 0 THEN 0 ELSE medias \div Word

\* An overflow in the middle of a round favours the sockets before that place.
EvenInv ==
    \A s, t \in 1 .. sockets : Base(s) - Base(t) <= (IF s < t THEN Wraps ELSE 0)

-----------------------------------------------------------------------------
(* The ranges: the invariant of the weighted round robin. *)

RangesInv ==
    /\ weight \in Seq(Nat \ {0}) /\ weight # <<>>
    /\ currentWeight \in [R -> Int]
    /\ layout \in Seq(R)
    /\ next \in 0 .. Word - 1
    /\ used \in [R -> Nat]

\* How many of the places m to k of layout s are range r's.
Times(s, r, m, k) == Cardinality({n \in m .. k : s[n] = r})

\* After each round of calc the accumulators add up to 0.  Each says what its range
\* has got too little, and none has got a whole place too much: with the last round
\* none can have got too much at all.
CalcInv ==
    /\ Len(layout) <= Total
    /\ Len(weight) = 1 => layout = <<>>
    /\ SumFunction(currentWeight) = 0
    /\ \A r \in R :
          /\ currentWeight[r] > - Total
          /\ currentWeight[r] = Len(layout) * weight[r]
                                   - Total * Times(layout, r, 1, Len(layout))

\* How many timeouts the handlers have got.
Drawn == SumFunction(used)

\* RoundRobin's counter is their number, as a word.  They are whole walks over the
\* layout and a part of one that starts at its second place: the first number is 1.
WalkInv ==
    Len(weight) # 1 =>
        /\ next = Drawn % Word
        /\ Drawn > 0 => Len(layout) = Total
        /\ Drawn < Word \/ Word % Total = 0
              => \A r \in R : used[r] = (Drawn \div Total) * weight[r]
                                          + Times(layout, r, 2, (Drawn % Total) + 1)

LoadsInv == TypeInv /\ SocketsInv /\ CounterInv /\ EvenInv
SharesInv == RangesInv /\ CalcInv /\ WalkInv
IInv == LoadsInv /\ SharesInv

-----------------------------------------------------------------------------
(* Sums.  The library folds over a set by choosing an element and going on with the *)
(* rest; such a fold is what it is for every subset at once, so that a fact about   *)
(* it can be shown by taking elements away, down to the empty set.                  *)

\* A set of subsets of a finite set that holds each one whose elements may be taken
\* away singly holds them all.
LEMMA SubsetInduction ==
    ASSUME NEW S, IsFiniteSet(S), NEW T,
           \A A \in SUBSET S : (\A x \in A : A \ {x} \in T) => A \in T
    PROVE  SUBSET S \subseteq T
  <1> DEFINE Bad == (SUBSET S) \ T
             Smaller == StrictSubsetOrdering(S)
  <1>1. SUFFICES ASSUME Bad # {} PROVE FALSE
    OBVIOUS
  <1>2. IsWellFoundedOn(Smaller, SUBSET S)
    BY FS_StrictSubsetOrderingWellFounded, FS_FiniteSubsetsOfFinite
  <1>3. Bad \subseteq SUBSET S
    OBVIOUS
  <1>4. PICK A \in Bad : \A B \in Bad : ~(<<B, A>> \in Smaller)
    <2> HIDE DEF Bad, Smaller
    <2> QED BY <1>1, <1>2, <1>3, WFMin
  <1>5. ASSUME NEW x \in A PROVE A \ {x} \in T
    <2>1. A \ {x} \in SUBSET S /\ A \in SUBSET S /\ A \ {x} \subseteq A /\ A \ {x} # A
      OBVIOUS
    <2>2. <<A \ {x}, A>> \in Smaller
      BY <2>1 DEF StrictSubsetOrdering
    <2> QED BY <1>4, <2>1, <2>2
  <1> QED BY <1>4, <1>5

\* The element that the library's fold takes from s first.
Pick(s) == CHOOSE x \in s : TRUE

\* g sums the values of f over each set of D.
Sums(f, D, g) ==
    g = [s \in D |-> IF s = {} THEN 0 ELSE f[Pick(s)] + g[s \ {Pick(s)}]]

\* The function that the library chooses, on the subsets of S.
Summed(f, S) == CHOOSE g : Sums(f, SUBSET S, g)

\* A sum by the definitions of the library.
LEMMA SumUnfolded ==
    ASSUME NEW f, NEW S
    PROVE  SumFunctionOnSet(f, S) = Summed(f, S)[S]
  BY Zenon DEF SumFunctionOnSet, FoldFunctionOnSet, MapThenFoldSet, Summed, Sums, Pick

\* Two functions that sum the values of f agree wherever both have all the subsets.
LEMMA SumsUnique ==
    ASSUME NEW f, NEW S, IsFiniteSet(S), NEW D, NEW E,
           \A A \in SUBSET S : A \in D /\ A \in E,
           NEW g, NEW h, Sums(f, D, g), Sums(f, E, h)
    PROVE  g[S] = h[S]
  <1> DEFINE Same == {s \in SUBSET S : g[s] = h[s]}
  <1>1. ASSUME NEW A \in SUBSET S, \A x \in A : A \ {x} \in Same
        PROVE  A \in Same
    <2>1. A \in D /\ A \in E
      OBVIOUS
    <2>2. /\ g[A] = IF A = {} THEN 0 ELSE f[Pick(A)] + g[A \ {Pick(A)}]
          /\ h[A] = IF A = {} THEN 0 ELSE f[Pick(A)] + h[A \ {Pick(A)}]
      BY <2>1 DEF Sums
    <2>3. CASE A # {}
      <3>1. Pick(A) \in A
        BY <2>3 DEF Pick
      <3>2. A \ {Pick(A)} \in Same
        BY <1>1, <3>1
      <3> QED BY <2>2, <2>3, <3>2
    <2> QED BY <2>2, <2>3
  <1>2. SUBSET S \subseteq Same
    <2> HIDE DEF Same
    <2> QED BY <1>1, SubsetInduction
  <1> QED BY <1>2

\* The sum over a set is defined by those over its subsets.
LEMMA SumsExist ==
    ASSUME NEW f, NEW S, IsFiniteSet(S)
    PROVE  Sums(f, SUBSET S, Summed(f, S))
  <1> DEFINE Good == {A \in SUBSET S : \E g : Sums(f, SUBSET A, g)}
  <1>1. ASSUME NEW A \in SUBSET S, \A x \in A : A \ {x} \in Good
        PROVE  A \in Good
    <2>1. CASE A = {}
      <3> DEFINE g == [s \in SUBSET A |-> 0]
      <3>1. \A s \in SUBSET A : s = {}
        BY <2>1
      <3>2. Sums(f, SUBSET A, g)
        BY <3>1 DEF Sums
      <3> HIDE DEF g
      <3> QED BY <3>2
    <2>2. CASE A # {}
      <3>1. IsFiniteSet(A)
        BY FS_Subset
      <3> DEFINE below(x) == Summed(f, A \ {x})
                 g == [s \in SUBSET A |->
                         IF s = {} THEN 0
                         ELSE IF s = A THEN f[Pick(A)] + below(Pick(A))[A \ {Pick(A)}]
                         ELSE below(CHOOSE x \in A : x \notin s)[s]]
      <3>2. \A x \in A : Sums(f, SUBSET (A \ {x}), below(x))
        <4> SUFFICES ASSUME NEW x \in A PROVE Sums(f, SUBSET (A \ {x}), below(x))
          OBVIOUS
        <4>1. \E h : Sums(f, SUBSET (A \ {x}), h)
          BY <1>1
        <4> QED BY <4>1 DEF Summed
      <3>3. ASSUME NEW x \in A, NEW y \in A, NEW s \in SUBSET A, x \notin s, y \notin s
            PROVE  below(x)[s] = below(y)[s]
        <4> DEFINE b == below(x)
                   c == below(y)
                   D == SUBSET (A \ {x})
                   E == SUBSET (A \ {y})
        <4>1. Sums(f, D, b) /\ Sums(f, E, c)
          BY <3>2
        <4>2. IsFiniteSet(s) /\ \A t \in SUBSET s : t \in D /\ t \in E
          BY <3>1, <3>3, FS_Subset
        <4>3. b[s] = c[s]
          <5> HIDE DEF b, c, D, E
          <5> QED BY <4>1, <4>2, SumsUnique
        <4> QED BY <4>3
      <3>4. ASSUME NEW s \in SUBSET A
            PROVE  g[s] = IF s = {} THEN 0 ELSE f[Pick(s)] + g[s \ {Pick(s)}]
        <4>1. CASE s = {}
          BY <4>1
        <4>2. CASE s = A
          <5>1. Pick(A) \in A
            BY <2>2 DEF Pick
          <5> DEFINE t == A \ {Pick(A)}
                     z == CHOOSE x \in A : x \notin t
          <5>2. z \in A /\ z \notin t /\ t # A /\ t \in SUBSET A
            BY <5>1
          <5>3. g[t] = below(Pick(A))[t]
            <6>1. CASE t = {}
              <7>1. below(Pick(A))[t] = 0
                BY <3>2, <5>1, <6>1 DEF Sums
              <7> QED BY <5>2, <6>1, <7>1
            <6>2. CASE t # {}
              <7>1. g[t] = below(z)[t]
                BY <5>2, <6>2
              <7>2. below(z)[t] = below(Pick(A))[t]
                BY <3>3, <5>1, <5>2
              <7> QED BY <7>1, <7>2
            <6> QED BY <6>1, <6>2
          <5>4. g[A] = f[Pick(A)] + below(Pick(A))[t]
            BY <2>2
          <5> QED BY <2>2, <4>2, <5>3, <5>4
        <4>3. CASE s # {} /\ s # A
          <5> DEFINE z == CHOOSE x \in A : x \notin s
                     t == s \ {Pick(s)}
                     y == CHOOSE x \in A : x \notin t
          <5>1. z \in A /\ z \notin s /\ Pick(s) \in s
            <6>1. \E x \in A : x \notin s
              BY <4>3
            <6>2. \E x \in s : TRUE
              BY <4>3
            <6> QED BY <6>1, <6>2 DEF Pick
          <5>2. g[s] = below(z)[s]
            BY <4>3
          <5>3. s \in SUBSET (A \ {z}) /\ t \in SUBSET (A \ {z})
            BY <5>1
          <5>4. below(z)[s] = f[Pick(s)] + below(z)[t]
            BY <3>2, <4>3, <5>1, <5>3 DEF Sums
          <5>5. g[t] = below(z)[t]
            <6>1. CASE t = {}
              <7>1. below(z)[t] = 0
                BY <3>2, <5>1, <5>3, <6>1 DEF Sums
              <7> QED BY <6>1, <7>1
            <6>2. CASE t # {}
              <7>1. t # A /\ t \in SUBSET A /\ z \notin t
                BY <4>3, <5>1
              <7>2. y \in A /\ y \notin t
                BY <5>1, <7>1
              <7>3. g[t] = below(y)[t]
                BY <6>2, <7>1
              <7> QED BY <3>3, <5>1, <7>1, <7>2, <7>3
            <6> QED BY <6>1, <6>2
          <5> QED BY <4>3, <5>2, <5>4, <5>5
        <4> QED BY <4>1, <4>2, <4>3
      <3>5. g = [s \in SUBSET A |-> g[s]]
        OBVIOUS
      <3> HIDE DEF g
      <3>6. g = [s \in SUBSET A |-> IF s = {} THEN 0 ELSE f[Pick(s)] + g[s \ {Pick(s)}]]
        BY <3>4, <3>5
      <3> QED BY <3>6 DEF Sums
    <2> QED BY <2>1, <2>2
  <1>2. SUBSET S \subseteq Good
    <2> HIDE DEF Good
    <2> QED BY <1>1, SubsetInduction
  <1>3. S \in Good
    BY <1>2
  <1>4. \E g : Sums(f, SUBSET S, g)
    BY <1>3
  <1> QED BY <1>4 DEF Summed

\* A sum over no element, and over one more.
LEMMA SumOfPicked ==
    ASSUME NEW f, NEW S, IsFiniteSet(S)
    PROVE  SumFunctionOnSet(f, S)
             = IF S = {} THEN 0 ELSE f[Pick(S)] + SumFunctionOnSet(f, S \ {Pick(S)})
  <1> DEFINE T == S \ {Pick(S)}
  <1>1. Summed(f, S)[S] = IF S = {} THEN 0 ELSE f[Pick(S)] + Summed(f, S)[T]
    <2> DEFINE g == Summed(f, S)
    <2>1. Sums(f, SUBSET S, g) /\ S \in SUBSET S
      BY SumsExist
    <2> HIDE DEF g
    <2>2. g[S] = IF S = {} THEN 0 ELSE f[Pick(S)] + g[S \ {Pick(S)}]
      BY <2>1 DEF Sums
    <2> QED BY <2>2 DEF g
  <1>2. IsFiniteSet(T) /\ T \subseteq S /\ T \in SUBSET T
    BY FS_Subset
  <1>3. Sums(f, SUBSET S, Summed(f, S)) /\ Sums(f, SUBSET T, Summed(f, T))
    BY <1>2, SumsExist
  <1>4. Summed(f, T)[T] = Summed(f, S)[T]
    <2> DEFINE g == Summed(f, T)
               h == Summed(f, S)
               D == SUBSET T
               E == SUBSET S
    <2>1. \A t \in SUBSET T : t \in D /\ t \in E
      OBVIOUS
    <2>2. Sums(f, D, g) /\ Sums(f, E, h)
      BY <1>3
    <2>3. g[T] = h[T]
      <3> HIDE DEF g, h, D, E, T
      <3> QED BY <1>2, <2>1, <2>2, SumsUnique
    <2> QED BY <2>3
  <1> QED BY <1>1, <1>4, SumUnfolded

\* A sum of integers is an integer, and of naturals a natural.
LEMMA SumType ==
    ASSUME NEW f, NEW S, IsFiniteSet(S), \A x \in S : f[x] \in Int
    PROVE  /\ SumFunctionOnSet(f, S) \in Int
           /\ (\A x \in S : f[x] >= 0) => SumFunctionOnSet(f, S) >= 0
  <1> DEFINE Good == {A \in SUBSET S :
                        /\ SumFunctionOnSet(f, A) \in Int
                        /\ (\A x \in S : f[x] >= 0) => SumFunctionOnSet(f, A) >= 0}
  <1>1. ASSUME NEW A \in SUBSET S, \A x \in A : A \ {x} \in Good
        PROVE  A \in Good
    <2>1. IsFiniteSet(A)
      BY FS_Subset
    <2>2. A # {} => Pick(A) \in A
      BY DEF Pick
    <2>3. SumFunctionOnSet(f, A)
            = IF A = {} THEN 0 ELSE f[Pick(A)] + SumFunctionOnSet(f, A \ {Pick(A)})
      BY <2>1, SumOfPicked
    <2>4. CASE A # {}
      <3>1. A \ {Pick(A)} \in Good /\ f[Pick(A)] \in Int
        BY <1>1, <2>2, <2>4
      <3> QED BY <2>2, <2>3, <2>4, <3>1
    <2> QED BY <2>3, <2>4
  <1>2. SUBSET S \subseteq Good
    <2> HIDE DEF Good
    <2> QED BY <1>1, SubsetInduction
  <1> QED BY <1>2

\* Any element may be the one that is added last.
LEMMA SumRemove ==
    ASSUME NEW f, NEW S, IsFiniteSet(S), \A x \in S : f[x] \in Int, NEW y \in S
    PROVE  SumFunctionOnSet(f, S) = f[y] + SumFunctionOnSet(f, S \ {y})
  <1> DEFINE sum(A) == SumFunctionOnSet(f, A)
             Good == {A \in SUBSET S : \A x \in A : sum(A) = f[x] + sum(A \ {x})}
  <1>0. \A A \in SUBSET S : sum(A) \in Int
    <2> SUFFICES ASSUME NEW A \in SUBSET S PROVE sum(A) \in Int
      OBVIOUS
    <2> QED BY SumType, FS_Subset
  <1>1. ASSUME NEW A \in SUBSET S, \A x \in A : A \ {x} \in Good
        PROVE  A \in Good
    <2> SUFFICES ASSUME NEW x \in A PROVE sum(A) = f[x] + sum(A \ {x})
      OBVIOUS
    <2> DEFINE p == Pick(A)
    <2>1. p \in A
      BY DEF Pick
    <2>2. sum(A) = f[p] + sum(A \ {p})
      BY SumOfPicked, FS_Subset
    <2>3. CASE x # p
      <3>1. sum(A \ {p}) = f[x] + sum((A \ {p}) \ {x})
        BY <1>1, <2>1, <2>3
      <3>2. sum(A \ {x}) = f[p] + sum((A \ {x}) \ {p})
        BY <1>1, <2>1, <2>3
      <3>3. (A \ {p}) \ {x} = (A \ {x}) \ {p}
        OBVIOUS
      <3>4. /\ f[x] \in Int /\ f[p] \in Int
            /\ sum((A \ {p}) \ {x}) \in Int
        BY <1>0, <2>1
      <3>5. sum(A) = f[p] + (f[x] + sum((A \ {p}) \ {x}))
        BY <2>2, <3>1
      <3>6. sum(A \ {x}) = f[p] + sum((A \ {p}) \ {x})
        BY <3>2, <3>3
      <3> HIDE DEF sum, p
      <3> QED BY <3>4, <3>5, <3>6
    <2> QED BY <2>2, <2>3
  <1>2. SUBSET S \subseteq Good
    <2> HIDE DEF Good
    <2> QED BY <1>1, SubsetInduction
  <1> QED BY <1>2

\* Functions that agree have the same sum.
LEMMA SumSame ==
    ASSUME NEW f, NEW g, NEW S, IsFiniteSet(S), \A x \in S : f[x] = g[x]
    PROVE  SumFunctionOnSet(f, S) = SumFunctionOnSet(g, S)
  <1> DEFINE Good == {A \in SUBSET S : SumFunctionOnSet(f, A) = SumFunctionOnSet(g, A)}
  <1>1. ASSUME NEW A \in SUBSET S, \A x \in A : A \ {x} \in Good
        PROVE  A \in Good
    <2>1. IsFiniteSet(A)
      BY FS_Subset
    <2>2. A # {} => Pick(A) \in A
      BY DEF Pick
    <2>3. /\ SumFunctionOnSet(f, A)
               = IF A = {} THEN 0 ELSE f[Pick(A)] + SumFunctionOnSet(f, A \ {Pick(A)})
          /\ SumFunctionOnSet(g, A)
               = IF A = {} THEN 0 ELSE g[Pick(A)] + SumFunctionOnSet(g, A \ {Pick(A)})
      BY <2>1, SumOfPicked
    <2> QED BY <1>1, <2>2, <2>3
  <1>2. SUBSET S \subseteq Good
    <2> HIDE DEF Good
    <2> QED BY <1>1, SubsetInduction
  <1> QED BY <1>2

\* The sum follows a change at one element.
LEMMA SumChanged ==
    ASSUME NEW S, IsFiniteSet(S), NEW f \in [S -> Int], NEW y \in S, NEW k \in Int,
           NEW g \in [S -> Int], g[y] = f[y] + k, \A x \in S \ {y} : g[x] = f[x]
    PROVE  SumFunction(g) = SumFunction(f) + k
  <1> DEFINE T == S \ {y}
  <1>1. IsFiniteSet(T)
    BY FS_Subset
  <1>2. /\ SumFunctionOnSet(f, S) = f[y] + SumFunctionOnSet(f, T)
        /\ SumFunctionOnSet(g, S) = g[y] + SumFunctionOnSet(g, T)
    BY SumRemove
  <1>3. SumFunctionOnSet(f, T) = SumFunctionOnSet(g, T)
    BY <1>1, SumSame
  <1>4. SumFunctionOnSet(f, T) \in Int
    BY <1>1, SumType
  <1> QED BY <1>2, <1>3, <1>4 DEF SumFunction

\* The sum of a function that adds two others.
LEMMA SumAdded ==
    ASSUME NEW S, IsFiniteSet(S), NEW f \in [S -> Int], NEW g \in [S -> Int],
           NEW h \in [S -> Int], \A x \in S : h[x] = f[x] + g[x]
    PROVE  SumFunction(h) = SumFunction(f) + SumFunction(g)
  <1> DEFINE sum(k, A) == SumFunctionOnSet(k, A)
             Good == {A \in SUBSET S : sum(h, A) = sum(f, A) + sum(g, A)}
  <1>1. ASSUME NEW A \in SUBSET S, \A x \in A : A \ {x} \in Good
        PROVE  A \in Good
    <2> DEFINE B == A \ {Pick(A)}
    <2>1. IsFiniteSet(A) /\ IsFiniteSet(B) /\ B \in SUBSET S
      BY FS_Subset
    <2>2. /\ sum(f, A) = IF A = {} THEN 0 ELSE f[Pick(A)] + sum(f, B)
          /\ sum(g, A) = IF A = {} THEN 0 ELSE g[Pick(A)] + sum(g, B)
          /\ sum(h, A) = IF A = {} THEN 0 ELSE h[Pick(A)] + sum(h, B)
      BY <2>1, SumOfPicked
    <2>3. CASE A # {}
      <3>1. Pick(A) \in A
        BY <2>3 DEF Pick
      <3>2. B \in Good
        BY <1>1, <3>1
      <3>3. sum(f, B) \in Int /\ sum(g, B) \in Int
        BY <2>1, SumType
      <3>4. /\ f[Pick(A)] \in Int /\ g[Pick(A)] \in Int
            /\ h[Pick(A)] = f[Pick(A)] + g[Pick(A)]
        BY <3>1
      <3>5. sum(h, B) = sum(f, B) + sum(g, B)
        BY <3>2
      <3> HIDE DEF sum, B
      <3> QED BY <2>2, <2>3, <3>3, <3>4, <3>5
    <2>4. CASE A = {}
      <3> HIDE DEF sum, B
      <3> QED BY <2>2, <2>4
    <2> QED BY <2>3, <2>4
  <1>2. SUBSET S \subseteq Good
    <2> HIDE DEF Good
    <2> QED BY <1>1, SubsetInduction
  <1> QED BY <1>2 DEF SumFunction

\* A sum of naturals is no smaller than each of them; if it is 0 each of them is.
LEMMA SumBounds ==
    ASSUME NEW S, IsFiniteSet(S), NEW f \in [S -> Int], \A x \in S : f[x] >= 0, NEW y \in S
    PROVE  f[y] <= SumFunction(f)
  <1> DEFINE T == S \ {y}
  <1>1. SumFunctionOnSet(f, S) = f[y] + SumFunctionOnSet(f, T)
    BY SumRemove
  <1>2. SumFunctionOnSet(f, T) \in Int /\ SumFunctionOnSet(f, T) >= 0
    BY SumType, FS_Subset
  <1> QED BY <1>1, <1>2 DEF SumFunction

\* A sum of integers is one.
LEMMA SumIsInt ==
    ASSUME NEW S, IsFiniteSet(S), NEW f \in [S -> Int]
    PROVE  SumFunction(f) \in Int
  <1>1. DOMAIN f = S /\ \A x \in S : f[x] \in Int
    OBVIOUS
  <1> QED BY <1>1, SumType DEF SumFunction

\* A sum of zeros.
LEMMA SumOfZeros ==
    ASSUME NEW S, IsFiniteSet(S), NEW f \in [S -> Int], \A x \in S : f[x] = 0
    PROVE  SumFunction(f) = 0
  <1> DEFINE s == SumFunction(f)
  <1>1. \A x \in S : f[x] = f[x] + f[x]
    OBVIOUS
  <1>2. s = s + s
    BY <1>1, SumAdded
  <1>3. s \in Int
    BY SumType DEF SumFunction
  <1> HIDE DEF s
  <1>4. s = 0
    BY <1>2, <1>3
  <1> QED BY <1>4 DEF s

\* A function that is nowhere smaller has no smaller sum.
LEMMA SumAtMost ==
    ASSUME NEW S, IsFiniteSet(S), NEW f \in [S -> Int], NEW g \in [S -> Int],
           \A x \in S : f[x] <= g[x]
    PROVE  SumFunction(f) <= SumFunction(g)
  <1> DEFINE h == [x \in S |-> g[x] - f[x]]
  <1>1. h \in [S -> Int] /\ \A x \in S : h[x] >= 0 /\ g[x] = f[x] + h[x]
    OBVIOUS
  <1> HIDE DEF h
  <1>2. SumFunction(g) = SumFunction(f) + SumFunction(h)
    BY <1>1, SumAdded
  <1>3. SumFunction(h) \in Int /\ SumFunction(h) >= 0
    BY <1>1, SumType DEF SumFunction
  <1>4. SumFunction(f) \in Int
    BY SumType DEF SumFunction
  <1> QED BY <1>2, <1>3, <1>4

\* Numbers of one sign whose sum is 0 are all 0.
LEMMA SumZero ==
    ASSUME NEW S, IsFiniteSet(S), NEW f \in [S -> Int], SumFunction(f) = 0,
           (\A x \in S : f[x] >= 0) \/ (\A x \in S : f[x] <= 0)
    PROVE  \A x \in S : f[x] = 0
  <1> SUFFICES ASSUME NEW y \in S PROVE f[y] = 0
    OBVIOUS
  <1>1. f[y] \in Int
    OBVIOUS
  <1>2. CASE \A x \in S : f[x] >= 0
    BY <1>1, <1>2, SumBounds
  <1>3. CASE \A x \in S : f[x] <= 0
    <2> DEFINE g == [x \in S |-> - f[x]]
               z == [x \in S |-> 0]
    <2>1. /\ g \in [S -> Int] /\ z \in [S -> Int]
          /\ \A x \in S : g[x] >= 0
          /\ g[y] = - f[y]
      BY <1>3
    <2>2. \A x \in S : z[x] = f[x] + g[x]
      BY <1>3
    <2>3. SumFunction(z) = 0
      <3>1. \A x \in S : z[x] = 0
        OBVIOUS
      <3> HIDE DEF z
      <3> QED BY <2>1, <3>1, SumOfZeros
    <2> HIDE DEF g, z
    <2>4. SumFunction(z) = SumFunction(f) + SumFunction(g)
      BY <2>1, <2>2, SumAdded
    <2>5. SumFunction(g) \in Int
      BY <2>1, SumType DEF SumFunction
    <2>6. SumFunction(g) = 0
      BY <2>3, <2>4, <2>5
    <2>7. g[y] <= 0
      BY <2>1, <2>6, SumBounds
    <2> QED BY <1>1, <1>3, <2>1, <2>7
  <1> QED BY <1>2, <1>3

\* The sum of a function on one element is its value there.
LEMMA SumOfOne ==
    ASSUME NEW x, NEW f \in [{x} -> Int]
    PROVE  SumFunction(f) = f[x]
  <1>1. IsFiniteSet({x}) /\ IsFiniteSet({}) /\ {x} \ {x} = {} /\ DOMAIN f = {x}
    BY FS_Singleton, FS_EmptySet
  <1>2. SumFunctionOnSet(f, {x}) = f[x] + SumFunctionOnSet(f, {x} \ {x})
    BY <1>1, SumRemove
  <1>3. SumFunctionOnSet(f, {x} \ {x}) = 0
    BY <1>1, SumOfPicked
  <1> QED BY <1>1, <1>2, <1>3 DEF SumFunction

\* A set of naturals that holds 0, and with each number the next, holds them all.
LEMMA NatSetInduction ==
    ASSUME NEW T, 0 \in T, \A n \in Nat : n \in T => n + 1 \in T
    PROVE  \A n \in Nat : n \in T
  <1> DEFINE Bad == Nat \ T
             Less == OpToRel(<, Nat)
  <1>1. SUFFICES ASSUME Bad # {} PROVE FALSE
    OBVIOUS
  <1>2. Bad \subseteq Nat
    OBVIOUS
  <1>3. PICK n \in Bad : \A m \in Bad : ~(<<m, n>> \in Less)
    <2> HIDE DEF Bad, Less
    <2>1. IsWellFoundedOn(Less, Nat)
      BY NatLessThanWellFounded DEF Less
    <2> QED BY <1>1, <1>2, <2>1, WFMin
  <1>4. n \in Nat /\ n # 0 /\ n - 1 \in Nat /\ n - 1 < n
    OBVIOUS
  <1>5. <<n - 1, n>> \in Less
    BY <1>4 DEF OpToRel
  <1>6. n - 1 \in T
    BY <1>3, <1>4, <1>5
  <1>7. (n - 1) + 1 \in T
    BY <1>4, <1>6
  <1> QED BY <1>4, <1>7

-----------------------------------------------------------------------------
(* Remainders. *)

\* The quotient and the remainder of a division.
LEMMA Division ==
    ASSUME NEW x \in Nat, NEW m \in Nat \ {0}
    PROVE  /\ x = m * (x \div m) + (x % m)
           /\ x % m \in 0 .. m - 1
           /\ x \div m \in Nat
  BY SMT

\* No multiple of m but 0 is smaller than m.
LEMMA SmallMultiple ==
    ASSUME NEW m \in Nat \ {0}, NEW k \in Int, m * k < m, -m < m * k
    PROVE  k = 0
  <1>1. CASE k >= 1
    BY <1>1, SMT
  <1>2. CASE k <= -1
    BY <1>2, SMT
  <1> QED BY <1>1, <1>2

\* There is one quotient, and one remainder.
LEMMA DivisionUnique ==
    ASSUME NEW x \in Nat, NEW m \in Nat \ {0}, NEW k \in Int, NEW r \in 0 .. m - 1,
           x = m * k + r
    PROVE  x \div m = k /\ x % m = r
  <1>1. x = m * (x \div m) + (x % m) /\ x % m \in 0 .. m - 1 /\ x \div m \in Nat
    BY Division
  <1>2. m * (k - (x \div m)) = (x % m) - r
    BY <1>1
  <1>3. k - (x \div m) = 0
    BY <1>1, <1>2, SmallMultiple
  <1> QED BY <1>1, <1>3

\* The next number has the next remainder, or starts the next round.
LEMMA NextRemainder ==
    ASSUME NEW x \in Nat, NEW m \in Nat \ {0}
    PROVE  IF (x % m) + 1 = m
             THEN (x + 1) % m = 0 /\ (x + 1) \div m = (x \div m) + 1
             ELSE (x + 1) % m = (x % m) + 1 /\ (x + 1) \div m = x \div m
  <1>1. PICK q \in Nat, r \in 0 .. m - 1 : x = m * q + r /\ q = x \div m /\ r = x % m
    BY Division
  <1>2. CASE r + 1 = m
    <2>1. x + 1 = m * (q + 1) + 0 /\ 0 \in 0 .. m - 1 /\ x + 1 \in Nat /\ q + 1 \in Int
      BY <1>1, <1>2
    <2>2. (x + 1) \div m = q + 1 /\ (x + 1) % m = 0
      BY <2>1, DivisionUnique
    <2> QED BY <1>1, <1>2, <2>2
  <1>3. CASE r + 1 # m
    <2>1. x + 1 = m * q + (r + 1) /\ r + 1 \in 0 .. m - 1 /\ x + 1 \in Nat /\ q \in Int
      BY <1>1, <1>3
    <2>2. (x + 1) \div m = q /\ (x + 1) % m = r + 1
      BY <2>1, DivisionUnique
    <2> QED BY <1>1, <1>3, <2>2
  <1> QED BY <1>2, <1>3

\* A number below m is its own remainder.
LEMMA OwnRemainder ==
    ASSUME NEW m \in Nat \ {0}, NEW x \in 0 .. m - 1
    PROVE  x % m = x /\ x \div m = 0
  <1>1. x = m * 0 + x /\ x \in Nat
    OBVIOUS
  <1> QED BY <1>1, DivisionUnique

-----------------------------------------------------------------------------
(* calc: where the places of the layout come from. *)

\* The places of r are finitely many.
LEMMA TimesFinite ==
    ASSUME NEW s, NEW r, NEW m \in Int, NEW k \in Int
    PROVE  IsFiniteSet({n \in m .. k : s[n] = r})
  <1>1. IsFiniteSet(m .. k) /\ {n \in m .. k : s[n] = r} \subseteq m .. k
    BY FS_Interval
  <1> QED BY <1>1, FS_Subset

\* How many they are is a natural number.
LEMMA TimesType ==
    ASSUME NEW s, NEW r, NEW m \in Int, NEW k \in Int
    PROVE  Times(s, r, m, k) \in Nat
  BY TimesFinite, FS_CardinalityType DEF Times

\* Before the first place there is none.
LEMMA TimesNone ==
    ASSUME NEW s, NEW r, NEW m \in Int, NEW k \in Int, m > k
    PROVE  Times(s, r, m, k) = 0
  <1>1. {n \in m .. k : s[n] = r} = {}
    OBVIOUS
  <1> QED BY <1>1, FS_EmptySet DEF Times

\* Counting adds one place at a time, at the end or at the front.
LEMMA TimesNext ==
    ASSUME NEW s, NEW r, NEW m \in Int, NEW k \in Int, m <= k + 1
    PROVE  Times(s, r, m, k + 1) = Times(s, r, m, k) + (IF s[k + 1] = r THEN 1 ELSE 0)
  <1> DEFINE at == {n \in m .. k : s[n] = r}
             more == {n \in m .. k + 1 : s[n] = r}
  <1>1. k + 1 \notin at
    OBVIOUS
  <1>2. more = IF s[k + 1] = r THEN at \cup {k + 1} ELSE at
    OBVIOUS
  <1>3. IsFiniteSet(at) /\ Cardinality(at) \in Nat
    BY TimesFinite, FS_CardinalityType
  <1>4. Times(s, r, m, k + 1) = Cardinality(more) /\ Times(s, r, m, k) = Cardinality(at)
    BY DEF Times
  <1> HIDE DEF at, more
  <1>5. Cardinality(at \cup {k + 1}) = Cardinality(at) + 1
    BY <1>1, <1>3, FS_AddElement
  <1> QED BY <1>2, <1>3, <1>4, <1>5

\* The first place of a walk, and the others.
LEMMA TimesFirst ==
    ASSUME NEW s, NEW r, NEW m \in Int, NEW k \in Int, m <= k
    PROVE  Times(s, r, m, k) = Times(s, r, m + 1, k) + (IF s[m] = r THEN 1 ELSE 0)
  <1> DEFINE at == {n \in m + 1 .. k : s[n] = r}
             more == {n \in m .. k : s[n] = r}
  <1>1. m \notin at /\ m + 1 \in Int
    OBVIOUS
  <1>2. more = IF s[m] = r THEN at \cup {m} ELSE at
    OBVIOUS
  <1>3. IsFiniteSet(at) /\ Cardinality(at) \in Nat
    BY <1>1, TimesFinite, FS_CardinalityType
  <1>4. Times(s, r, m, k) = Cardinality(more) /\ Times(s, r, m + 1, k) = Cardinality(at)
    BY DEF Times
  <1> HIDE DEF at, more
  <1>5. Cardinality(at \cup {m}) = Cardinality(at) + 1
    BY <1>1, <1>3, FS_AddElement
  <1> QED BY <1>2, <1>3, <1>4, <1>5

\* The next place is the appended range's, and the others stay.
LEMMA TimesAppend ==
    ASSUME NEW D, NEW s \in Seq(D), NEW r, NEW x \in D
    PROVE  Times(Append(s, x), r, 1, Len(s) + 1)
             = Times(s, r, 1, Len(s)) + (IF x = r THEN 1 ELSE 0)
  <1> DEFINE t == Append(s, x)
             k == Len(s)
  <1>1. k \in Nat /\ t[k + 1] = x /\ \A n \in 1 .. k : t[n] = s[n]
    OBVIOUS
  <1> HIDE DEF t
  <1>2. {n \in 1 .. k : t[n] = r} = {n \in 1 .. k : s[n] = r}
    BY <1>1
  <1>3. Times(t, r, 1, k) = Times(s, r, 1, k)
    BY <1>2 DEF Times
  <1>4. 1 <= k + 1 /\ k \in Int /\ 1 \in Int
    BY <1>1
  <1>5. Times(t, r, 1, k + 1) = Times(t, r, 1, k) + (IF t[k + 1] = r THEN 1 ELSE 0)
    <2> HIDE DEF k
    <2> QED BY <1>4, TimesNext
  <1> QED BY <1>1, <1>3, <1>5 DEF t

\* What got is after the comparison with range r of those before, with the
\* accumulators c and the weights w.
Compared(c, w, r, g) == IF c[r] > c[g] + w[g] THEN r ELSE g
GotUpTo(c, w, n, got) ==
    got = [r \in 1 .. n |-> IF r = 1 THEN 1 ELSE Compared(c, w, r, got[r - 1])]

\* The loop of calc computes something.
LEMMA GotExists ==
    ASSUME NEW c, NEW w, NEW n \in Nat
    PROVE  \E got : GotUpTo(c, w, n, got)
  <1> DEFINE Good == {k \in Nat : \E got : GotUpTo(c, w, k, got)}
  <1>1. 0 \in Good
    <2> DEFINE got == [r \in 1 .. 0 |-> 1]
    <2>1. GotUpTo(c, w, 0, got)
      BY DEF GotUpTo
    <2> HIDE DEF got
    <2> QED BY <2>1
  <1>2. ASSUME NEW k \in Nat, k \in Good PROVE k + 1 \in Good
    <2>1. PICK h : GotUpTo(c, w, k, h)
      BY <1>2
    <2> DEFINE got == [r \in 1 .. k + 1 |->
                         IF r = 1 THEN 1 ELSE Compared(c, w, r, h[r - 1])]
    <2>2. ASSUME NEW r \in 1 .. k + 1, r # 1 PROVE got[r - 1] = h[r - 1]
      <3>1. r - 1 \in 1 .. k /\ r - 1 \in 1 .. k + 1
        BY <2>2
      <3>2. h[r - 1] = IF r - 1 = 1 THEN 1 ELSE Compared(c, w, r - 1, h[(r - 1) - 1])
        BY <2>1, <3>1 DEF GotUpTo
      <3> QED BY <3>1, <3>2
    <2>3. \A r \in 1 .. k + 1 :
             got[r] = IF r = 1 THEN 1 ELSE Compared(c, w, r, got[r - 1])
      BY <2>2
    <2>4. got = [r \in 1 .. k + 1 |-> got[r]]
      OBVIOUS
    <2> HIDE DEF got
    <2>5. got = [r \in 1 .. k + 1 |-> IF r = 1 THEN 1 ELSE Compared(c, w, r, got[r - 1])]
      BY <2>3, <2>4
    <2>6. GotUpTo(c, w, k + 1, got)
      BY <2>5 DEF GotUpTo
    <2> QED BY <2>6
  <1>3. n \in Good
    <2> HIDE DEF Good
    <2> QED BY <1>1, <1>2, NatSetInduction
  <1> QED BY <1>3

\* It ends at a range that none exceeds by more than that range's own weight.
LEMMA GotLargest ==
    ASSUME NEW n \in Nat \ {0}, NEW c \in [1 .. n -> Int], NEW w \in [1 .. n -> Nat],
           NEW got, GotUpTo(c, w, n, got)
    PROVE  got[n] \in 1 .. n /\ \A q \in 1 .. n : c[q] <= c[got[n]] + w[got[n]]
  <1> DEFINE Largest(r) == /\ got[r] \in 1 .. r
                           /\ \A q \in 1 .. r : c[q] <= c[got[r]] + w[got[r]]
             Good == {k \in Nat : k + 1 <= n => Largest(k + 1)}
  <1>1. 0 \in Good
    <2>1. 1 \in 1 .. n
      OBVIOUS
    <2>2. got[1] = 1
      BY <2>1 DEF GotUpTo
    <2>3. c[1] \in Int /\ w[1] \in Nat
      BY <2>1
    <2>4. Largest(1)
      BY <2>2, <2>3
    <2> QED BY <2>4
  <1>2. ASSUME NEW k \in Nat, k \in Good PROVE k + 1 \in Good
    <2> SUFFICES ASSUME (k + 1) + 1 <= n PROVE Largest((k + 1) + 1)
      OBVIOUS
    <2> DEFINE r == k + 2
               g == got[k + 1]
    <2>1. r \in 1 .. n /\ r # 1 /\ k + 1 \in 1 .. n /\ r - 1 = k + 1 /\ (k + 1) + 1 = r
      OBVIOUS
    <2>2. g \in 1 .. k + 1 /\ \A q \in 1 .. k + 1 : c[q] <= c[g] + w[g]
      BY <1>2, <2>1
    <2>3. got[r] = IF c[r] > c[g] + w[g] THEN r ELSE g
      BY <2>1 DEF GotUpTo, Compared
    <2>4. c[r] \in Int /\ w[r] \in Nat /\ c[g] \in Int /\ w[g] \in Nat
      BY <2>1, <2>2
    <2>5. got[r] \in 1 .. r
      BY <2>1, <2>2, <2>3
    <2>6. ASSUME NEW q \in 1 .. r PROVE c[q] <= c[got[r]] + w[got[r]]
      <3>1. q # r => c[q] <= c[g] + w[g] /\ c[q] \in Int
        <4>1. q # r => q \in 1 .. k + 1 /\ q \in 1 .. n
          BY <2>1
        <4> QED BY <2>2, <4>1
      <3> HIDE DEF g, r
      <3>2. c[q] \in Int
        BY <2>4, <3>1
      <3>3. CASE c[r] > c[g] + w[g]
        <4>1. got[r] = r
          BY <2>3, <3>3
        <4>2. c[g] + w[g] \in Int /\ c[r] \in Int /\ c[r] <= c[r] + w[r]
          BY <2>4
        <4>3. CASE q = r
          BY <4>1, <4>2, <4>3
        <4>4. CASE q # r
          <5>1. c[q] <= c[r]
            BY <3>1, <3>3, <4>2, <4>4
          <5>2. c[q] <= c[r] + w[r]
            BY <2>4, <3>2, <5>1
          <5> QED BY <4>1, <5>2
        <4> QED BY <4>3, <4>4
      <3>4. CASE ~(c[r] > c[g] + w[g])
        <4>1. got[r] = g
          BY <2>3, <3>4
        <4>2. c[r] <= c[g] + w[g]
          BY <2>4, <3>4
        <4>3. c[q] <= c[g] + w[g]
          BY <3>1, <4>2
        <4> QED BY <4>1, <4>3
      <3> QED BY <3>3, <3>4
    <2> QED BY <2>1, <2>5, <2>6
  <1>3. n - 1 \in Good
    <2>1. n - 1 \in Nat
      OBVIOUS
    <2> HIDE DEF Good
    <2> QED BY <1>1, <1>2, <2>1, NatSetInduction
  <1>4. (n - 1) + 1 = n
    OBVIOUS
  <1> QED BY <1>3, <1>4

\* The recursive function of Got.
LEMMA GotUnfolded ==
    ASSUME NEW n \in Nat, R = 1 .. n, Len(weight) = n
    PROVE  \E got : GotUpTo(currentWeight, weight, n, got) /\ Got = got[n]
  <1> DEFINE f == CHOOSE got : GotUpTo(currentWeight, weight, n, got)
  <1>1. GotUpTo(currentWeight, weight, n, f)
    BY GotExists
  <1>2. Got = f[n]
    BY Zenon DEF Got, GotUpTo, Compared
  <1> HIDE DEF f
  <1> QED BY <1>1, <1>2
\* What a round of calc takes from the range that gets the place is what it adds to
\* all of them.
LEMMA CalcSum ==
    ASSUME NEW D, IsFiniteSet(D), NEW w \in [D -> Int], NEW c \in [D -> Int],
           NEW d \in [D -> Int], NEW g \in D, NEW k \in Int,
           \A r \in D : d[r] = c[r] + w[r] + (IF r = g THEN k ELSE 0)
    PROVE  SumFunction(d) = SumFunction(c) + SumFunction(w) + k
  <1> DEFINE e == [r \in D |-> c[r] + w[r]]
  <1>1. e \in [D -> Int] /\ \A r \in D : e[r] = c[r] + w[r]
    OBVIOUS
  <1> HIDE DEF e
  <1>2. SumFunction(e) = SumFunction(c) + SumFunction(w)
    BY <1>1, SumAdded
  <1>3. d[g] = e[g] + k
    BY <1>1
  <1>4. \A r \in D \ {g} : d[r] = e[r]
    <2> SUFFICES ASSUME NEW r \in D, r # g PROVE d[r] = e[r]
      OBVIOUS
    <2>1. c[r] \in Int /\ w[r] \in Int
      OBVIOUS
    <2> QED BY <1>1, <2>1
  <1>5. SumFunction(d) = SumFunction(e) + k
    BY <1>1, <1>3, <1>4, SumChanged
  <1> QED BY <1>2, <1>5

\* There are finitely many ranges, and at least one; their weights add up to Total.
LEMMA RangesFinite ==
    ASSUME RangesInv
    PROVE  /\ Len(weight) \in Nat \ {0} /\ R = 1 .. Len(weight) /\ IsFiniteSet(R)
           /\ weight \in [R -> Nat \ {0}] /\ Total \in Nat \ {0}
           /\ Drawn \in Nat
  <1>1. Len(weight) \in Nat \ {0} /\ R = 1 .. Len(weight) /\ weight \in [R -> Nat \ {0}]
    BY DEF RangesInv, R
  <1>2. IsFiniteSet(R) /\ 1 \in R
    BY <1>1, FS_Interval
  <1>3. weight[1] <= Total /\ weight[1] \in Nat \ {0} /\ Total \in Int
    <2>1. \A r \in R : weight[r] \in Int /\ weight[r] >= 0
      BY <1>1
    <2>2. weight \in [R -> Int]
      BY <1>1
    <2> QED BY <1>1, <1>2, <2>1, <2>2, SumBounds, SumType DEF Total, SumFunction
  <1>4. Drawn \in Nat
    <2>1. used \in [R -> Nat] /\ \A r \in R : used[r] \in Int /\ used[r] >= 0
      BY DEF RangesInv
    <2>2. SumFunctionOnSet(used, R) \in Int /\ SumFunctionOnSet(used, R) >= 0
      BY <1>2, <2>1, SumType
    <2> QED BY <2>1, <2>2 DEF Drawn, SumFunction
  <1> QED BY <1>1, <1>2, <1>3, <1>4

\* Before a timeout is got, WalkInv says nothing of the layout.
LEMMA WalkBegins ==
    ASSUME RangesInv, Drawn = 0, next = 0, \A r \in R : used[r] = 0
    PROVE  WalkInv
  <1>1. Total \in Nat \ {0} /\ Word \in Nat \ {0} /\ \A r \in R : weight[r] \in Nat
    BY RangesFinite, WordAssumption
  <1>2. Drawn % Word = 0 /\ Drawn % Total = 0 /\ Drawn \div Total = 0
    BY <1>1, OwnRemainder
  <1>3. \A r \in R : Times(layout, r, 2, 1) = 0
    BY TimesNone
  <1>4. ASSUME NEW r \in R
        PROVE  used[r] = (Drawn \div Total) * weight[r]
                           + Times(layout, r, 2, (Drawn % Total) + 1)
    BY <1>1, <1>2, <1>3
  <1> QED BY <1>2, <1>4 DEF WalkInv

\* A round of calc.
LEMMA CalcKeeps ==
    ASSUME RangesInv, CalcInv, WalkInv, Calc
    PROVE  RangesInv' /\ CalcInv' /\ WalkInv'
  <1> DEFINE n == Len(weight)
             k == Len(layout)
             T == Total
  <1>1. /\ n \in Nat \ {0} /\ R = 1 .. n /\ IsFiniteSet(R) /\ weight \in [R -> Nat \ {0}]
        /\ T \in Nat \ {0}
    BY RangesFinite
  <1>2. /\ n # 1 /\ k < T
        /\ currentWeight' =
             [r \in R |-> currentWeight[r] + weight[r] - (IF r = Got THEN T ELSE 0)]
        /\ layout' = Append(layout, Got)
        /\ weight' = weight /\ next' = next /\ used' = used
    BY <1>1 DEF Calc
  <1>3. /\ currentWeight \in [R -> Int] /\ layout \in Seq(R) /\ k \in Nat
        /\ SumFunction(currentWeight) = 0
        /\ \A r \in R : currentWeight[r] > - T
    BY DEF RangesInv, CalcInv
  <1>4. Got \in R /\ \A q \in R : currentWeight[q] <= currentWeight[Got] + weight[Got]
    <2>1. PICK got : GotUpTo(currentWeight, weight, n, got) /\ Got = got[n]
      BY <1>1, GotUnfolded
    <2>2. currentWeight \in [1 .. n -> Int] /\ weight \in [1 .. n -> Nat]
      BY <1>1, <1>3
    <2> HIDE DEF n
    <2>3. /\ got[n] \in 1 .. n
          /\ \A q \in 1 .. n : currentWeight[q] <= currentWeight[got[n]] + weight[got[n]]
      BY <1>1, <2>1, <2>2, GotLargest
    <2> QED BY <1>1, <2>1, <2>3
  <1>5. /\ R' = R /\ Total' = Total /\ Drawn' = Drawn /\ Len(weight)' = n
    BY <1>2 DEF R, Total, Drawn
  <1>6. currentWeight' \in [R -> Int] /\ layout' \in Seq(R) /\ Len(layout') = k + 1
    <2>1. \A r \in R : currentWeight[r] \in Int /\ weight[r] \in Int
      BY <1>1, <1>3
    <2>2. currentWeight' \in [R -> Int]
      <3>1. T \in Int
        BY <1>1
      <3> HIDE DEF T
      <3>2. \A r \in R :
               currentWeight[r] + weight[r] - (IF r = Got THEN T ELSE 0) \in Int
        BY <2>1, <3>1
      <3> QED BY <1>2, <3>2
    <2>3. layout' \in Seq(R) /\ Len(layout') = k + 1
      BY <1>2, <1>3, <1>4
    <2> QED BY <2>2, <2>3
  <1>7. RangesInv'
    BY <1>2, <1>5, <1>6 DEF RangesInv
  <1>8. CalcInv'
    <2> DEFINE c == currentWeight
               d == currentWeight'
               w == weight
               g == Got
               D == R
    <2>1. T = SumFunction(w)
      BY DEF Total
    <2>2. \A r \in D : d[r] = c[r] + w[r] - (IF r = g THEN T ELSE 0)
      BY <1>2
    <2>3. SumFunction(d) = 0 /\ \A r \in D : d[r] > - T
      <3>1. /\ T \in Int /\ d \in [D -> Int] /\ c \in [D -> Int] /\ w \in [D -> Nat \ {0}]
            /\ IsFiniteSet(D) /\ g \in D /\ SumFunction(c) = 0
        BY <1>1, <1>3, <1>4, <1>6
      <3>2. \A q \in D : c[q] <= c[g] + w[g]
        BY <1>4
      <3> DEFINE m == - T
      <3>3. \A r \in D : d[r] = c[r] + w[r] + (IF r = g THEN m ELSE 0)
        <4> SUFFICES ASSUME NEW r \in D PROVE d[r] = c[r] + w[r] + (IF r = g THEN m ELSE 0)
          OBVIOUS
        <4>1. c[r] \in Int /\ w[r] \in Int /\ d[r] = c[r] + w[r] - (IF r = g THEN T ELSE 0)
          BY <2>2, <3>1
        <4> HIDE DEF c, d, w, g, D, T
        <4> QED BY <3>1, <4>1
      <3>4. m \in Int /\ w \in [D -> Int]
        BY <3>1
      <3>5. SumFunction(d) = SumFunction(c) + SumFunction(w) + m
        <4> HIDE DEF c, d, w, g, D, T, m
        <4> QED BY <3>1, <3>3, <3>4, CalcSum
      <3>6. c[g] + w[g] > 0
        <4>1. SUFFICES ASSUME c[g] + w[g] <= 0 PROVE FALSE
          BY <3>1
        <4>2. \A r \in D : c[r] <= 0
          <5> SUFFICES ASSUME NEW r \in D PROVE c[r] <= 0
            OBVIOUS
          <5>1. c[r] \in Int /\ c[g] + w[g] \in Int /\ c[r] <= c[g] + w[g]
            BY <3>1, <3>2
          <5> HIDE DEF c, w, g, D
          <5> QED BY <4>1, <5>1
        <4>3. c[g] = 0
          <5> HIDE DEF c, w, g, D
          <5> QED BY <3>1, <4>2, SumZero
        <4>4. w[g] > 0
          BY <3>1
        <4>5. c[g] \in Int /\ w[g] \in Int
          BY <3>1
        <4> HIDE DEF c, w, g
        <4> QED BY <4>1, <4>3, <4>4, <4>5
      <3>7. \A r \in D : d[r] > - T
        <4> SUFFICES ASSUME NEW r \in D PROVE d[r] > - T
          OBVIOUS
        <4>1. /\ c[r] \in Int /\ w[r] \in Nat \ {0} /\ c[r] > - T
              /\ d[r] = c[r] + w[r] - (IF r = g THEN T ELSE 0)
          BY <1>3, <2>2, <3>1
        <4> HIDE DEF c, d, w, g, D, T
        <4> QED BY <3>1, <3>6, <4>1
      <3>8. SumFunction(d) = 0
        <4> HIDE DEF c, d, w, g, D, T
        <4> QED BY <2>1, <3>1, <3>5
      <3> QED BY <3>7, <3>8
    <2>4. ASSUME NEW r \in R
          PROVE  d[r] = (k + 1) * weight[r] - T * Times(layout', r, 1, k + 1)
      <3> DEFINE t == Times(layout, r, 1, k)
      <3>1. Times(layout', r, 1, k + 1) = t + (IF g = r THEN 1 ELSE 0)
        BY <1>2, <1>3, <1>4, TimesAppend
      <3>2. t \in Nat /\ weight[r] \in Nat
        BY <1>1, <1>3, TimesType
      <3>3. c[r] = k * weight[r] - T * t
        BY DEF CalcInv
      <3>4. d[r] = c[r] + w[r] - (IF r = g THEN T ELSE 0)
        BY <2>2
      <3> DEFINE x == weight[r]
      <3>5. (k + 1) * x = k * x + x /\ T * (t + 1) = T * t + T
        <4> HIDE DEF k, T, t, x
        <4> QED BY <1>1, <1>3, <3>2 DEF x
      <3>6. k * x \in Int /\ T * t \in Int
        <4> HIDE DEF k, T, t, x
        <4> QED BY <1>1, <1>3, <3>2 DEF x
      <3> HIDE DEF k, T, t, d, c, g
      <3> QED BY <1>1, <3>1, <3>2, <3>3, <3>4, <3>5, <3>6
    <2>5. k + 1 <= T
      BY <1>1, <1>2, <1>3
    <2> QED BY <1>2, <1>5, <1>6, <2>3, <2>4, <2>5 DEF CalcInv
  <1>9. WalkInv'
    <2>1. Drawn = 0
      BY <1>2, RangesFinite DEF WalkInv
    <2>2. next = 0
      BY <1>2, <2>1, OwnRemainder, WordAssumption DEF WalkInv
    <2>3. \A r \in R : used[r] = 0
      <3>1. used \in [R -> Int] /\ SumFunction(used) = 0 /\ \A r \in R : used[r] >= 0
        BY <2>1 DEF Drawn, RangesInv
      <3> QED BY <1>1, <3>1, SumZero
    <2>4. RangesInv' /\ Drawn' = 0 /\ next' = 0 /\ \A r \in R' : used'[r] = 0
      BY <1>2, <1>5, <1>7, <2>1, <2>2, <2>3
    <2>5. \A r \in R' : Times(layout', r, 2, 1) = 0 /\ weight'[r] \in Nat
      <3>1. \A r \in R' : weight'[r] \in Nat
        BY <1>1, <1>2, <1>5
      <3> QED BY <3>1, TimesNone
    <2>6. /\ Drawn' % Word = 0 /\ Drawn' % Total' = 0 /\ Drawn' \div Total' = 0
      BY <1>1, <1>5, <2>4, OwnRemainder, WordAssumption
    <2>7. ASSUME NEW r \in R'
          PROVE  used'[r] = (Drawn' \div Total') * weight'[r]
                              + Times(layout', r, 2, (Drawn' % Total') + 1)
      BY <2>4, <2>5, <2>6
    <2> QED BY <2>4, <2>6, <2>7 DEF WalkInv
  <1> QED BY <1>7, <1>8, <1>9

-----------------------------------------------------------------------------
(* RoundRobin: the walk over the layout that all handlers share. *)

\* One more of the numbers below m is the next remainder.
LEMMA RemainderOfNext ==
    ASSUME NEW x \in Nat, NEW m \in Nat \ {0}
    PROVE  ((x % m) + 1) % m = (x + 1) % m
  <1>1. x % m \in 0 .. m - 1 /\ x % m \in Nat
    BY Division
  <1>2. CASE (x % m) + 1 = m
    <2>1. m % m = 0
      <3>1. m = m * 1 + 0 /\ 0 \in 0 .. m - 1 /\ 1 \in Int
        OBVIOUS
      <3> QED BY <3>1, DivisionUnique
    <2>2. (x + 1) % m = 0
      BY <1>2, NextRemainder
    <2> QED BY <1>2, <2>1, <2>2
  <1>3. CASE (x % m) + 1 # m
    <2>1. (x + 1) % m = (x % m) + 1
      BY <1>3, NextRemainder
    <2>2. (x % m) + 1 \in 0 .. m - 1
      BY <1>1, <1>3
    <2> QED BY <2>1, <2>2, OwnRemainder
  <1> QED BY <1>2, <1>3

\* A word that m divides keeps the remainder by m.
LEMMA RemainderOfWord ==
    ASSUME NEW x \in Nat, NEW n \in Nat \ {0}, NEW m \in Nat \ {0}, n % m = 0
    PROVE  (x % n) % m = x % m
  <1> DEFINE y == x % n
             r == y % m
  <1>1. x = n * (x \div n) + y /\ y \in Nat /\ x \div n \in Nat
    BY Division
  <1>2. n = m * (n \div m) /\ n \div m \in Nat
    <2>1. n = m * (n \div m) + (n % m) /\ n \div m \in Nat /\ n \in Nat
      BY Division
    <2> QED BY <2>1
  <1>3. y = m * (y \div m) + r /\ r \in 0 .. m - 1 /\ y \div m \in Nat
    BY <1>1, Division
  <1> DEFINE q == (n \div m) * (x \div n) + (y \div m)
  <1>4. x = m * q + r /\ q \in Int
    <2> DEFINE a == n \div m
               b == x \div n
               d == y \div m
    <2>1. x = (m * a) * b + (m * d + r)
      BY <1>1, <1>2, <1>3
    <2>2. a \in Nat /\ b \in Nat /\ d \in Nat /\ r \in Nat
      BY <1>1, <1>2, <1>3
    <2> HIDE DEF a, b, d, r
    <2>3. (m * a) * b + (m * d + r) = m * (a * b + d) + r
      BY <2>2
    <2>4. a * b + d \in Int
      BY <2>2
    <2>5. q = a * b + d
      BY DEF a, b, d
    <2> HIDE DEF q
    <2> QED BY <2>1, <2>3, <2>4, <2>5
  <1> HIDE DEF q, r
  <1>5. x % m = r
    BY <1>3, <1>4, DivisionUnique
  <1> QED BY <1>5 DEF r

\* A finished layout holds each range as often as its weight says.
LEMMA LayoutIsExact ==
    ASSUME RangesInv, CalcInv, Len(layout) = Total
    PROVE  \A r \in R : Times(layout, r, 1, Total) = weight[r]
  <1>1. IsFiniteSet(R) /\ weight \in [R -> Nat \ {0}] /\ Total \in Nat \ {0}
    BY RangesFinite
  <1>2. ASSUME NEW r \in R
        PROVE  /\ currentWeight[r] >= 0
               /\ currentWeight[r] = 0 => Times(layout, r, 1, Total) = weight[r]
    <2> DEFINE t == Times(layout, r, 1, Total)
               x == weight[r]
               T == Total
               k == x - t
    <2>1. T \in Nat \ {0} /\ x \in Nat /\ t \in Nat
      BY <1>1, TimesType
    <2>2. currentWeight[r] = T * x - T * t /\ currentWeight[r] > - T
      BY DEF CalcInv
    <2> HIDE DEF t, x, T
    <2>3. T * x - T * t = T * k /\ k \in Int
      BY <2>1
    <2> HIDE DEF k
    <2>4. T * k > - T
      BY <2>2, <2>3
    <2>5. k >= 0
      <3>1. CASE k <= -1
        <4>1. T * k <= - T
          BY <2>1, <2>3, <3>1, SMT
        <4> QED BY <2>1, <2>3, <2>4, <4>1
      <3> QED BY <2>3, <3>1
    <2>6. T * k >= 0 /\ (T * k = 0 => k = 0)
      BY <2>1, <2>3, <2>5, SMT
    <2>7. k = 0 => t = x
      BY <2>1 DEF k
    <2> QED BY <2>2, <2>3, <2>6, <2>7 DEF t, x, T
  <1>3. \A r \in R : currentWeight[r] = 0
    <2>1. currentWeight \in [R -> Int] /\ SumFunction(currentWeight) = 0
      BY DEF RangesInv, CalcInv
    <2> QED BY <1>1, <1>2, <2>1, SumZero
  <1> QED BY <1>2, <1>3

\* One more timeout is the next place of the walk or, at its end, the first one,
\* with which the walk has been made once more.
LEMMA WalkStep ==
    ASSUME NEW m \in Nat \ {0}, NEW d \in Nat, NEW s, NEW r
    PROVE  ((d \div m) * Times(s, r, 1, m) + Times(s, r, 2, (d % m) + 1))
               + (IF s[1 + ((d + 1) % m)] = r THEN 1 ELSE 0)
             = ((d + 1) \div m) * Times(s, r, 1, m) + Times(s, r, 2, ((d + 1) % m) + 1)
  <1> DEFINE w == Times(s, r, 1, m)
             q == d \div m
             k == d % m
             u == q * w + Times(s, r, 2, k + 1)
  <1>1. q \in Nat /\ k \in Nat /\ k \in 0 .. m - 1 /\ k + 1 <= m
    <2>1. q \in Nat /\ k \in 0 .. m - 1
      BY Division
    <2> HIDE DEF q, k
    <2> QED BY <2>1
  <1>2. Times(s, r, 2, k + 1) \in Nat /\ w \in Nat /\ q * w \in Nat
    <2>1. k + 1 \in Int /\ 2 \in Int /\ 1 \in Int /\ m \in Int
      BY <1>1
    <2>2. Times(s, r, 2, k + 1) \in Nat /\ w \in Nat
      BY <2>1, TimesType
    <2> HIDE DEF q, w
    <2> QED BY <1>1, <2>2
  <1> HIDE DEF w
  <1>3. CASE k + 1 = m
    <2>1. (d + 1) % m = 0 /\ (d + 1) \div m = q + 1
      BY <1>3, NextRemainder
    <2>2. w = Times(s, r, 2, m) + (IF s[1] = r THEN 1 ELSE 0)
      <3>1. Times(s, r, 1, m) = Times(s, r, 1 + 1, m) + (IF s[1] = r THEN 1 ELSE 0)
        <4>1. 1 \in Int /\ m \in Int /\ 1 <= m
          OBVIOUS
        <4> QED BY <4>1, TimesFirst
      <3> QED BY <3>1 DEF w
    <2>3. Times(s, r, 2, 0 + 1) = 0
      <3>1. 2 > 0 + 1 /\ 2 \in Int /\ 0 + 1 \in Int
        OBVIOUS
      <3> QED BY <3>1, TimesNone
    <2>4. (q + 1) * w = q * w + w
      BY <1>1, <1>2
    <2>5. u = q * w + Times(s, r, 2, m)
      BY <1>2, <1>3
    <2>6. s[1 + ((d + 1) % m)] = s[1] /\ Times(s, r, 2, ((d + 1) % m) + 1) = 0
      BY <2>1, <2>3
    <2>7. q * w \in Int /\ Times(s, r, 2, m) \in Nat
      BY <1>2, <1>3
    <2>8. ((d + 1) \div m) * w = q * w + w
      BY <2>1, <2>4
    <2> HIDE DEF q, k
    <2>9. u + (IF s[1 + ((d + 1) % m)] = r THEN 1 ELSE 0)
            = ((d + 1) \div m) * w + Times(s, r, 2, ((d + 1) % m) + 1)
      <3> HIDE DEF u
      <3> QED BY <1>2, <2>2, <2>5, <2>6, <2>7, <2>8
    <2> QED BY <2>9 DEF w, q, k
  <1>4. CASE k + 1 # m
    <2>1. (d + 1) % m = k + 1 /\ (d + 1) \div m = q
      BY <1>4, NextRemainder
    <2>2. Times(s, r, 2, (k + 1) + 1)
            = Times(s, r, 2, k + 1) + (IF s[(k + 1) + 1] = r THEN 1 ELSE 0)
      <3> DEFINE j == k + 1
      <3>1. 2 \in Int /\ j \in Int /\ 2 <= j + 1
        BY <1>1
      <3> HIDE DEF j
      <3>2. Times(s, r, 2, j + 1) = Times(s, r, 2, j) + (IF s[j + 1] = r THEN 1 ELSE 0)
        BY <3>1, TimesNext
      <3> QED BY <3>2 DEF j
    <2>3. 1 + (k + 1) = (k + 1) + 1
      BY <1>1
    <2> HIDE DEF q, k
    <2>4. u + (IF s[1 + ((d + 1) % m)] = r THEN 1 ELSE 0)
            = ((d + 1) \div m) * w + Times(s, r, 2, ((d + 1) % m) + 1)
      BY <1>1, <1>2, <2>1, <2>2, <2>3
    <2> QED BY <2>4 DEF w, q, k
  <1> QED BY <1>3, <1>4

\* RoundRobin hands out the next place.
LEMMA HandOutKeeps ==
    ASSUME SharesInv, HandOut
    PROVE  SharesInv'
  <1>1. /\ Len(weight) \in Nat \ {0} /\ IsFiniteSet(R) /\ weight \in [R -> Nat \ {0}]
        /\ Total \in Nat \ {0} /\ Word \in Nat \ {0} /\ Drawn \in Nat
    BY RangesFinite, WordAssumption DEF SharesInv
  <1>2. /\ Len(layout) = Total /\ next' = (next + 1) % Word
        /\ used' = [used EXCEPT ![layout[Place(next', Total)]] = @ + 1]
        /\ weight' = weight /\ currentWeight' = currentWeight /\ layout' = layout
    BY DEF HandOut, Step
  <1>3. R' = R /\ Total' = Total
    BY <1>2 DEF R, Total
  <1> DEFINE p == Place(next', Total)
             got == layout[p]
  <1>4. next' \in 0 .. Word - 1 /\ next' \in Nat
    BY <1>1, <1>2, Division DEF SharesInv, RangesInv
  <1>5. p = 1 + (next' % Total) /\ p \in 1 .. Total
    <2>1. next' % Total \in 0 .. Total - 1
      BY <1>1, <1>4, Division
    <2>2. p = 1 + (next' % Total)
      BY DEF Place
    <2> HIDE DEF p
    <2> QED BY <1>1, <2>1, <2>2
  <1>6. got \in R
    <2> HIDE DEF p
    <2> QED BY <1>2, <1>5 DEF SharesInv, RangesInv
  <1>7. /\ used \in [R -> Nat] /\ used' \in [R -> Nat]
        /\ \A r \in R : used'[r] = used[r] + (IF got = r THEN 1 ELSE 0)
    <2>1. used \in [R -> Nat] /\ used' = [used EXCEPT ![got] = used[got] + 1]
      BY <1>2 DEF SharesInv, RangesInv
    <2> HIDE DEF got
    <2>2. \A r \in R : used'[r] = used[r] + (IF got = r THEN 1 ELSE 0)
      BY <2>1
    <2> QED BY <1>6, <2>1, <2>2
  <1>8. Drawn' = Drawn + 1
    <2> DEFINE f == used
               g == used'
               D == R
    <2>1. /\ f \in [D -> Int] /\ g \in [D -> Int] /\ IsFiniteSet(D) /\ got \in D
          /\ g[got] = f[got] + 1 /\ \A r \in D \ {got} : g[r] = f[r]
      <3> HIDE DEF got
      <3> QED BY <1>1, <1>6, <1>7
    <2>2. SumFunction(g) = SumFunction(f) + 1
      <3> HIDE DEF f, g, D, got
      <3>1. 1 \in Int
        OBVIOUS
      <3> QED BY <2>1, <3>1, SumChanged
    <2> QED BY <2>2 DEF Drawn
  <1>9. RangesInv' /\ CalcInv'
    <2>1. RangesInv'
      BY <1>2, <1>3, <1>4, <1>7 DEF SharesInv, RangesInv
    <2>2. CalcInv'
      BY <1>2, <1>3 DEF SharesInv, CalcInv
    <2> QED BY <2>1, <2>2
  <1>10. WalkInv'
    <2> SUFFICES ASSUME Len(weight) # 1 PROVE WalkInv'
      BY <1>2 DEF WalkInv
    <2>1. next' = (Drawn + 1) % Word
      <3>1. next = Drawn % Word
        BY DEF SharesInv, WalkInv
      <3> QED BY <1>1, <1>2, <3>1, RemainderOfNext
    <2>2. ASSUME Drawn + 1 < Word \/ Word % Total = 0, NEW r \in R
          PROVE  used'[r] = ((Drawn + 1) \div Total) * weight[r]
                              + Times(layout, r, 2, ((Drawn + 1) % Total) + 1)
      <3> DEFINE d == Drawn
                 m == Total
                 s == layout
      <3>1. p = 1 + ((d + 1) % m)
        <4>1. next' % m = (d + 1) % m
          <5>1. CASE d + 1 < Word
            <6>1. d + 1 \in 0 .. Word - 1
              BY <1>1, <5>1
            <6> QED BY <1>1, <2>1, <6>1, OwnRemainder
          <5>2. CASE Word % m = 0
            <6>1. d + 1 \in Nat
              BY <1>1
            <6> QED BY <1>1, <2>1, <5>2, <6>1, RemainderOfWord
          <5> QED BY <2>2, <5>1, <5>2
        <4> QED BY <1>5, <4>1
      <3>2. used[r] = (d \div m) * weight[r] + Times(s, r, 2, (d % m) + 1)
        <4>1. d < Word \/ Word % m = 0
          BY <1>1, <2>2
        <4> QED BY <4>1 DEF SharesInv, WalkInv
      <3>3. weight[r] = Times(s, r, 1, m)
        BY <1>2, LayoutIsExact DEF SharesInv
      <3>4. used'[r] = used[r] + (IF s[1 + ((d + 1) % m)] = r THEN 1 ELSE 0)
        BY <1>7, <3>1
      <3>5. ((d \div m) * Times(s, r, 1, m) + Times(s, r, 2, (d % m) + 1))
                + (IF s[1 + ((d + 1) % m)] = r THEN 1 ELSE 0)
              = ((d + 1) \div m) * Times(s, r, 1, m) + Times(s, r, 2, ((d + 1) % m) + 1)
        <4>1. m \in Nat \ {0} /\ d \in Nat
          BY <1>1
        <4> HIDE DEF d, m, s
        <4> QED BY <4>1, WalkStep
      <3> QED BY <3>2, <3>3, <3>4, <3>5
    <2>3. /\ next' = Drawn' % Word
          /\ Drawn' > 0 => Len(layout') = Total'
      BY <1>2, <1>3, <1>8, <2>1
    <2>4. Drawn' < Word \/ Word % Total' = 0
             => \A r \in R' : used'[r] = (Drawn' \div Total') * weight'[r]
                                           + Times(layout', r, 2, (Drawn' % Total') + 1)
      BY <1>2, <1>3, <1>8, <2>2
    <2> QED BY <2>3, <2>4 DEF WalkInv
  <1> QED BY <1>9, <1>10 DEF SharesInv

\* With one range there is nothing to walk over.
LEMMA HandOutOnlyKeeps ==
    ASSUME SharesInv, HandOutOnly
    PROVE  SharesInv'
  <1>1. /\ Len(weight) = 1 /\ used' = [used EXCEPT ![1] = used[1] + 1]
        /\ weight' = weight /\ currentWeight' = currentWeight /\ layout' = layout
        /\ next' = next
    BY DEF HandOutOnly
  <1>2. R' = R /\ Total' = Total /\ 1 \in R
    BY <1>1, RangesFinite DEF R, Total, SharesInv
  <1>3. used' \in [R -> Nat]
    BY <1>1, <1>2 DEF SharesInv, RangesInv
  <1>4. RangesInv'
    BY <1>1, <1>2, <1>3 DEF SharesInv, RangesInv
  <1>5. CalcInv'
    BY <1>1, <1>2 DEF SharesInv, CalcInv
  <1>6. WalkInv'
    BY <1>1 DEF WalkInv
  <1> QED BY <1>4, <1>5, <1>6 DEF SharesInv

\* The ranges of a flag, before calc has begun.
LEMMA SharesBegin == Init => SharesInv
  <1> SUFFICES ASSUME Init PROVE SharesInv
    OBVIOUS
  <1>1. /\ cfg \in Configs /\ weight = cfg.weights /\ currentWeight = [r \in R |-> 0]
        /\ layout = <<>> /\ next = 0 /\ used = [r \in R |-> 0]
    BY DEF Init, RangesInit
  <1>2. RangesInv
    <2>1. weight \in Seq(Nat \ {0}) /\ weight # <<>>
      BY <1>1, ConfigsAssumption
    <2> QED BY <1>1, <2>1, WordAssumption DEF RangesInv
  <1>3. /\ IsFiniteSet(R) /\ Total \in Nat \ {0} /\ weight \in [R -> Nat \ {0}]
        /\ currentWeight \in [R -> Int] /\ used \in [R -> Int]
        /\ \A r \in R : currentWeight[r] = 0 /\ used[r] = 0
    BY <1>1, <1>2, RangesFinite
  <1>4. SumFunction(currentWeight) = 0 /\ Drawn = 0
    BY <1>3, SumOfZeros DEF Drawn
  <1>5. CalcInv
    <2>1. Len(layout) = 0
      BY <1>1
    <2>2. ASSUME NEW r \in R
          PROVE  /\ currentWeight[r] > - Total
                 /\ currentWeight[r] = 0 * weight[r] - Total * Times(layout, r, 1, 0)
      <3>1. Times(layout, r, 1, 0) = 0
        BY TimesNone
      <3>2. weight[r] \in Int /\ 0 * weight[r] = 0 /\ Total * 0 = 0 /\ 0 > - Total
        BY <1>3
      <3> QED BY <1>3, <3>1, <3>2
    <2> QED BY <1>1, <1>3, <1>4, <2>1, <2>2 DEF CalcInv
  <1>6. WalkInv
    BY <1>1, <1>2, <1>3, <1>4, WalkBegins
  <1> QED BY <1>2, <1>5, <1>6 DEF SharesInv

-----------------------------------------------------------------------------
(* xdpSocketsLB: the walk over the sockets that all medias share. *)

\* Base(i) before the first media, with m sockets.
FirstBase(m, i) == 0 - (IF i <= 1 % m THEN 1 ELSE 0) + (IF i = 1 THEN 1 ELSE 0)

\* Before the first media no socket has got any.
LEMMA EvenAtFirst ==
    ASSUME NEW m \in Nat \ {0}, NEW s \in 1 .. m, NEW t \in 1 .. m
    PROVE  FirstBase(m, s) - FirstBase(m, t) = 0
  <1>1. s \in Int /\ t \in Int /\ s >= 1 /\ t >= 1 /\ s <= m /\ t <= m
    OBVIOUS
  <1>2. CASE m = 1
    <2>1. s = t
      BY <1>1, <1>2
    <2>2. 1 % m \in Int
      BY Division
    <2> QED BY <1>1, <2>1, <2>2 DEF FirstBase
  <1>3. CASE m # 1
    <2>1. 1 % m = 1
      BY <1>3, OwnRemainder
    <2> QED BY <1>1, <2>1 DEF FirstBase
  <1> QED BY <1>2, <1>3

\* A media takes the next socket, or the first one after an overflow.
LEMMA SocketHandedOut ==
    ASSUME LoadsInv, GetSocket, sockets # 0
    PROVE  EvenInv' /\ CounterInv'
  <1> DEFINE n == nextSocket + 1
             next1 == Place(nextSocket', sockets)
  <1>1. /\ phase = "serving" /\ phase' = phase /\ sockets' = sockets
        /\ nextSocket' = n % Word /\ medias' = medias + 1
        /\ load' = [load EXCEPT ![next1] = load[next1] + 1]
    BY DEF GetSocket, Step, socketVars
  <1>2. /\ sockets \in Nat \ {0} /\ Word \in Nat \ {0} /\ medias \in Nat
        /\ nextSocket \in Nat /\ nextSocket <= Word - 1 /\ n \in Nat
        /\ sockets <= MaxQueues /\ MaxQueues \in Nat
        /\ nextSocket = medias % Word
    BY WordAssumption, BoundsAssumption DEF LoadsInv, TypeInv, CounterInv
  <1>3. CounterInv'
    <2>1. (medias + 1) % Word = n % Word
      BY <1>2, RemainderOfNext
    <2> QED BY <1>1, <2>1 DEF CounterInv
  <1>4. next1 = 1 + (nextSocket' % sockets) /\ nextSocket' \in Nat
    BY <1>1, <1>2, Division DEF Place
  <1>5. next1 \in 1 .. sockets
    <2>1. nextSocket' % sockets \in 0 .. sockets - 1
      BY <1>2, <1>4, Division
    <2>2. PICK y \in 0 .. sockets - 1 : next1 = 1 + y
      BY <1>4, <2>1
    <2> QED BY <1>2, <2>2
  <1>6. \A s \in 1 .. sockets :
           /\ load[s] \in Nat
           /\ load'[s] = load[s] + (IF s = next1 THEN 1 ELSE 0)
    <2>1. \A s \in 1 .. sockets : s \in 1 .. MaxQueues
      BY <1>2
    <2>2. load \in [1 .. MaxQueues -> Nat]
      BY DEF LoadsInv, TypeInv
    <2> QED BY <1>1, <2>1, <2>2
  <1> DEFINE r == n % sockets
  <1>7. r \in Nat /\ r <= sockets - 1
    <2>1. r \in 0 .. sockets - 1
      BY <1>2, Division
    <2> QED BY <1>2, <2>1
  <1>8. CASE n # Word
    <2>1. nextSocket' = n
      <3>1. n \in 0 .. Word - 1
        BY <1>2, <1>8
      <3> QED BY <1>1, <1>2, <3>1, OwnRemainder
    <2>2. next1 = 1 + r
      BY <1>4, <2>1
    <2>3. (nextSocket' + 1) % sockets = IF r + 1 = sockets THEN 0 ELSE r + 1
      BY <1>2, <2>1, NextRemainder
    <2>4. ASSUME NEW s \in 1 .. sockets
          PROVE  Base(s)' = Base(s) + (IF r + 1 = sockets THEN 1 ELSE 0)
      <3>1. load[s] \in Int /\ s \in Int /\ s >= 1 /\ s <= sockets
        BY <1>2, <1>6
      <3>2. Reached(s) = IF s <= r THEN 1 ELSE 0
        BY DEF Reached
      <3>3. Reached(s)' = IF s <= (IF r + 1 = sockets THEN 0 ELSE r + 1) THEN 1 ELSE 0
        BY <1>1, <2>3 DEF Reached
      <3>4. load'[s] = load[s] + (IF s = 1 + r THEN 1 ELSE 0)
        BY <1>6, <2>2
      <3> HIDE DEF r
      <3> QED BY <1>2, <1>7, <3>1, <3>2, <3>3, <3>4 DEF Base
    <2>5. Wraps' = Wraps
      <3>1. (medias + 1) \div Word = medias \div Word
        BY <1>2, <1>8, NextRemainder
      <3> QED BY <1>1, <3>1 DEF Wraps
    <2>6. ASSUME NEW s \in 1 .. sockets, NEW t \in 1 .. sockets
          PROVE  Base(s)' - Base(t)' <= (IF s < t THEN Wraps' ELSE 0)
      <3>1. Base(s) - Base(t) <= (IF s < t THEN Wraps ELSE 0)
        BY DEF LoadsInv, EvenInv
      <3>2. Base(s) \in Int /\ Base(t) \in Int
        BY <1>6 DEF Base, Reached
      <3> QED BY <2>4, <2>5, <3>1, <3>2
    <2> QED BY <1>1, <1>3, <2>6 DEF EvenInv
  <1>9. CASE n = Word
    <2>1. nextSocket' = 0
      <3>1. n = Word * 1 + 0 /\ 0 \in 0 .. Word - 1
        BY <1>2, <1>9
      <3> QED BY <1>1, <1>2, <3>1, DivisionUnique
    <2>2. next1 = 1
      <3>1. 0 % sockets = 0
        BY <1>2, OwnRemainder
      <3> QED BY <1>4, <2>1, <3>1
    <2>3. ASSUME NEW s \in 1 .. sockets
          PROVE  Base(s)' = Base(s) + Reached(s) + (IF sockets = 1 THEN 1 ELSE 0)
      <3>1. load[s] \in Int /\ s \in Int /\ s >= 1 /\ s <= sockets
        BY <1>2, <1>6
      <3>2. load'[s] = load[s] + (IF s = 1 THEN 1 ELSE 0)
        BY <1>6, <2>2
      <3>3. Reached(s)' = IF s = 1 /\ sockets # 1 THEN 1 ELSE 0
        <4>1. 1 % sockets = IF sockets = 1 THEN 0 ELSE 1
          <5>1. CASE sockets = 1
            <6>1. 1 = sockets * 1 + 0 /\ 0 \in 0 .. sockets - 1
              BY <5>1
            <6> QED BY <1>2, <5>1, <6>1, DivisionUnique
          <5>2. CASE sockets # 1
            <6>1. sockets \in Nat \ {0}
              BY <1>2
            <6>2. 1 \in 0 .. sockets - 1
              BY <5>2, <6>1
            <6>3. 1 % sockets = 1
              BY <6>1, <6>2, OwnRemainder
            <6> QED BY <5>2, <6>3
          <5> QED BY <5>1, <5>2
        <4> QED BY <1>1, <2>1, <3>1, <4>1 DEF Reached
      <3>4. Reached(s) \in Int
        BY DEF Reached
      <3> QED BY <3>1, <3>2, <3>3, <3>4 DEF Base
    <2>4. Wraps' = Wraps + (IF r = 0 THEN 0 ELSE 1) /\ Wraps \in Nat
      <3>1. (medias + 1) \div Word = (medias \div Word) + 1 /\ medias \div Word \in Nat
        BY <1>2, <1>9, NextRemainder, Division
      <3>2. Word % sockets = r
        BY <1>9
      <3> QED BY <1>1, <3>1, <3>2 DEF Wraps
    <2>5. ASSUME NEW s \in 1 .. sockets, NEW t \in 1 .. sockets
          PROVE  Base(s)' - Base(t)' <= (IF s < t THEN Wraps' ELSE 0)
      <3>1. Base(s) - Base(t) <= (IF s < t THEN Wraps ELSE 0)
        BY DEF LoadsInv, EvenInv
      <3>2. Base(s) \in Int /\ Base(t) \in Int
        BY <1>6 DEF Base, Reached
      <3>3. /\ Reached(s) = IF s <= r THEN 1 ELSE 0
            /\ Reached(t) = IF t <= r THEN 1 ELSE 0
        BY DEF Reached
      <3>4. s \in Int /\ t \in Int /\ s >= 1 /\ t >= 1
        BY <1>2
      <3> HIDE DEF r
      <3>5. Reached(s) - Reached(t) <= (IF s < t /\ r # 0 THEN 1 ELSE 0)
        BY <1>7, <3>3, <3>4
      <3>6. Reached(s) \in Int /\ Reached(t) \in Int
        BY <3>3
      <3> QED BY <2>3, <2>4, <3>1, <3>2, <3>5, <3>6
    <2> QED BY <1>1, <1>3, <2>5 DEF EvenInv
  <1> QED BY <1>3, <1>8, <1>9

-----------------------------------------------------------------------------
(* The theorems about the start-up, the sockets and the ranges. *)

\* NewSocket has thirteen steps.
LEMMA Steps == Len(SocketSteps) = 13
  BY DEF SocketSteps

\* newBaseUa starts with no socket.
LEMMA LoadsBegin == Init => LoadsInv
  <1> SUFFICES ASSUME Init PROVE LoadsInv
    OBVIOUS
  <1>1. TypeInv /\ SocketsInv
    BY BoundsAssumption, WordAssumption, Steps DEF Init, TypeInv, SocketsInv
  <1>2. CounterInv
    BY OwnRemainder, WordAssumption DEF Init, CounterInv
  <1>3. EvenInv
    <2> SUFFICES ASSUME NEW s \in 1 .. sockets, NEW t \in 1 .. sockets
                 PROVE  Base(s) - Base(t) <= (IF s < t THEN Wraps ELSE 0)
      BY DEF EvenInv
    <2> QED BY DEF Init
  <1> QED BY <1>1, <1>2, <1>3 DEF LoadsInv

\* A step that has nothing to do with sockets.
LEMMA OtherStep ==
    ASSUME LoadsInv, UNCHANGED <<socketVars, serveVars>>,
           \/ phase' = phase
           \/ phase' \in {"media", "interface", "sockets", "failed"}
              /\ phase \notin {"sockets", "serving", "panicked"}
    PROVE  LoadsInv'
  <1>1. TypeInv' /\ SocketsInv' /\ CounterInv'
    BY DEF LoadsInv, TypeInv, SocketsInv, CounterInv, socketVars, serveVars
  <1>2. EvenInv'
    BY DEF LoadsInv, EvenInv, Base, Reached, Wraps, socketVars, serveVars
  <1> QED BY <1>1, <1>2 DEF LoadsInv

\* A step that has nothing to do with the ranges.
LEMMA OtherShares ==
    ASSUME SharesInv, UNCHANGED rangeVars
    PROVE  SharesInv'
  <1>1. R' = R /\ Total' = Total /\ Drawn' = Drawn
    BY DEF rangeVars, R, Total, Drawn
  <1>2. RangesInv' /\ CalcInv'
    BY <1>1 DEF SharesInv, RangesInv, CalcInv, rangeVars
  <1>3. WalkInv'
    BY <1>1 DEF SharesInv, WalkInv, rangeVars
  <1> QED BY <1>2, <1>3 DEF SharesInv

\* initXDP: the medias have not begun.
LEMMA SocketStepKeeps ==
    ASSUME LoadsInv, SocketStep \/ SocketFails \/ SocketMade \/ AllQueues
    PROVE  LoadsInv'
  <1>1. phase = "sockets"
    BY Steps DEF LoadsInv, SocketsInv, SocketStep, SocketFails, SocketMade, AllQueues
  <1>2. UNCHANGED serveVars /\ medias = 0 /\ load = [s \in 1 .. MaxQueues |-> 0]
    BY <1>1 DEF LoadsInv, CounterInv, SocketStep, SocketFails, SocketMade, AllQueues
  <1>3. TypeInv'
    BY <1>1, <1>2, Steps, BoundsAssumption
       DEF LoadsInv, TypeInv, SocketsInv, SocketStep, SocketFails, SocketMade, AllQueues, Enter,
           serveVars, socketVars
  <1>4. SocketsInv'
    BY <1>1, <1>2, Steps, BoundsAssumption
       DEF LoadsInv, TypeInv, SocketsInv, SocketStep, SocketFails, SocketMade, AllQueues, Enter,
           socketVars
  <1>5. CounterInv'
    BY <1>1, <1>2 DEF LoadsInv, CounterInv, SocketStep, SocketFails, SocketMade, AllQueues, Enter,
       serveVars
  <1>6. EvenInv'
    <2>1. nextSocket = 0
      BY <1>2, OwnRemainder, WordAssumption DEF LoadsInv, CounterInv
    <2>2. sockets' \in 0 .. MaxQueues
      BY <1>3 DEF TypeInv
    <2>3. /\ medias' = 0 /\ nextSocket' = 0 /\ load' = [s \in 1 .. MaxQueues |-> 0]
      BY <1>2, <2>1 DEF serveVars
    <2> SUFFICES ASSUME NEW s \in 1 .. sockets', NEW t \in 1 .. sockets'
                 PROVE  Base(s)' - Base(t)' <= (IF s < t THEN Wraps' ELSE 0)
      BY DEF EvenInv
    <2>4. sockets' \in Nat \ {0} /\ load'[s] = 0 /\ load'[t] = 0
      BY <2>2, <2>3, BoundsAssumption
    <2>5. (nextSocket + 1)' = 1
      BY <2>3
    <2>6. Base(s)' = FirstBase(sockets', s) /\ Base(t)' = FirstBase(sockets', t)
      BY <2>4, <2>5 DEF Base, Reached, FirstBase
    <2>7. Base(s)' - Base(t)' = 0
      BY <2>4, <2>6, EvenAtFirst
    <2>8. Wraps' = 0
      BY <2>3, OwnRemainder, WordAssumption DEF Wraps
    <2> QED BY <2>7, <2>8
  <1> QED BY <1>3, <1>4, <1>5, <1>6 DEF LoadsInv

\* GetSocket: the counter and the loads, or the panic.
LEMMA GetSocketKeeps ==
    ASSUME LoadsInv, GetSocket
    PROVE  LoadsInv'
  <1>1. CASE sockets = 0
    <2>1. UNCHANGED <<socketVars, serveVars>> /\ phase = "serving" /\ phase' = "panicked"
      BY <1>1 DEF GetSocket, Enter
    <2>2. TypeInv' /\ SocketsInv' /\ CounterInv'
      BY <2>1 DEF LoadsInv, TypeInv, SocketsInv, CounterInv, socketVars, serveVars
    <2>3. EvenInv'
      BY <2>1 DEF LoadsInv, EvenInv, Base, Reached, Wraps, socketVars, serveVars
    <2> QED BY <2>2, <2>3 DEF LoadsInv
  <1>2. CASE sockets # 0
    <2>1. UNCHANGED <<phase, made, held, sockets>>
          /\ nextSocket' = (nextSocket + 1) % Word /\ medias' = medias + 1
          /\ load' = [load EXCEPT ![Place(nextSocket', sockets)] = @ + 1]
      BY <1>2 DEF GetSocket, socketVars, Step
    <2>2. nextSocket' \in 0 .. Word - 1
      BY <2>1, Division, WordAssumption DEF LoadsInv, TypeInv
    <2>3. medias' \in Nat
      BY <2>1 DEF LoadsInv, TypeInv
    <2>4. load' \in [1 .. MaxQueues -> Nat]
      <3> DEFINE s == Place(nextSocket', sockets)
      <3>1. load \in [1 .. MaxQueues -> Nat] /\ load' = [load EXCEPT ![s] = load[s] + 1]
        BY <2>1 DEF LoadsInv, TypeInv
      <3> HIDE DEF s
      <3>2. \A i \in 1 .. MaxQueues : load'[i] = IF i = s THEN load[i] + 1 ELSE load[i]
        BY <3>1
      <3>3. \A i \in 1 .. MaxQueues : load'[i] \in Nat
        BY <3>1, <3>2
      <3>4. load' = [i \in 1 .. MaxQueues |-> load'[i]]
        BY <3>1
      <3> QED BY <3>3, <3>4
    <2>5. TypeInv' /\ SocketsInv'
      BY <2>1, <2>2, <2>3, <2>4 DEF LoadsInv, TypeInv, SocketsInv
    <2> QED BY <1>2, <2>5, SocketHandedOut DEF LoadsInv
  <1> QED BY <1>1, <1>2

\* The inductive invariant holds in every reachable state.
THEOREM Invariant == Spec => []IInv
  <1>1. Init => IInv
    BY LoadsBegin, SharesBegin DEF IInv
  <1>2. IInv /\ [Next]_vars => IInv'
    <2> SUFFICES ASSUME IInv, [Next]_vars PROVE IInv'
      OBVIOUS
    <2> USE DEF IInv
    <2>1. CASE UNCHANGED vars
      BY <2>1, OtherStep, OtherShares DEF vars
    <2>2. CASE \/ \E p \in {"times", "media", "interface"} : Fail(p)
               \/ TimesDone \/ LoadPacket \/ MediaDone \/ Attach
      BY <2>2, OtherStep, OtherShares
         DEF Fail, TimesDone, LoadPacket, MediaDone, Attach, Enter
    <2>3. CASE LayOut
      <3>1. UNCHANGED <<phase, socketVars, serveVars>>
        BY <2>3 DEF LayOut
      <3>2. SharesInv'
        BY <2>3, CalcKeeps DEF LayOut, SharesInv
      <3> QED BY <3>1, <3>2, OtherStep
    <2>4. CASE SocketStep \/ SocketFails \/ SocketMade \/ AllQueues
      <3>1. UNCHANGED rangeVars
        BY <2>4 DEF SocketStep, SocketFails, SocketMade, AllQueues
      <3> QED BY <2>4, <3>1, SocketStepKeeps, OtherShares
    <2>5. CASE GetTimeout
      <3>1. UNCHANGED <<phase, socketVars, serveVars>>
        BY <2>5 DEF GetTimeout
      <3>2. SharesInv'
        BY <2>5, HandOutKeeps, HandOutOnlyKeeps DEF GetTimeout
      <3> QED BY <3>1, <3>2, OtherStep
    <2>6. CASE GetSocket
      <3>1. UNCHANGED rangeVars
        BY <2>6 DEF GetSocket
      <3> QED BY <2>6, <3>1, GetSocketKeeps, OtherShares
    <2> QED BY <2>1, <2>2, <2>3, <2>4, <2>5, <2>6 DEF Next
  <1> QED BY <1>1, <1>2, PTL DEF Spec

\* calc lays each range out as often as its weight says, and after every whole walk
\* over the layout each has been handed out in proportion to it, for all weights and
\* however the word and the walk divide (distributor.go:18-21, 53-68).
THEOREM SharesAlwaysExact == Spec => []SharesExact
  <1>1. IInv => SharesExact
    <2> SUFFICES ASSUME IInv PROVE SharesExact
      OBVIOUS
    <2>1. /\ Len(weight) \in Nat \ {0} /\ R = 1 .. Len(weight) /\ IsFiniteSet(R)
          /\ weight \in [R -> Nat \ {0}] /\ Total \in Nat \ {0} /\ Drawn \in Nat
      BY RangesFinite DEF IInv, SharesInv
    <2>2. LayoutExact
      <3>1. DOMAIN layout = 1 .. Len(layout)
        BY DEF IInv, SharesInv, RangesInv
      <3> QED BY <3>1, LayoutIsExact DEF IInv, SharesInv, LayoutExact, Times
    <2>3. ASSUME Drawn % Total = 0, Drawn < Word \/ Word % Total = 0, NEW r \in R
          PROVE  used[r] = (Drawn \div Total) * weight[r]
      <3>1. CASE Len(weight) = 1
        <4>1. R = {1} /\ r = 1 /\ used \in [{1} -> Int] /\ weight \in [{1} -> Int]
          BY <2>1, <3>1 DEF IInv, SharesInv, RangesInv
        <4>2. Drawn = used[1] /\ Total = weight[1]
          BY <4>1, SumOfOne DEF Drawn, Total
        <4>3. Drawn = Total * (Drawn \div Total) + 0 /\ Drawn \div Total \in Nat
          BY <2>1, <2>3, Division
        <4>4. Drawn = (Drawn \div Total) * Total
          BY <2>1, <4>3
        <4> QED BY <4>1, <4>2, <4>4
      <3>2. CASE Len(weight) # 1
        <4>1. used[r] = (Drawn \div Total) * weight[r] + Times(layout, r, 2, 0 + 1)
          BY <2>3, <3>2 DEF IInv, SharesInv, WalkInv
        <4>2. Times(layout, r, 2, 0 + 1) = 0
          <5>1. 2 > 0 + 1 /\ 2 \in Int /\ 0 + 1 \in Int
            OBVIOUS
          <5> QED BY <5>1, TimesNone
        <4>3. (Drawn \div Total) * weight[r] \in Int
          <5>1. Drawn \div Total \in Nat /\ weight[r] \in Nat
            BY <2>1, Division
          <5> QED BY <5>1
        <4> QED BY <4>1, <4>2, <4>3
      <3> QED BY <3>1, <3>2
    <2> QED BY <2>2, <2>3 DEF SharesExact, Drawn
  <1> QED BY <1>1, Invariant, PTL

\* The sockets share the medias evenly, however often the counter of xdpSocketsLB
\* overflows (distributor.go:18-21, media.go:107).
THEOREM SocketsAlwaysEven == Spec => []SocketsEven
  <1>1. IInv => SocketsEven
    <2> SUFFICES ASSUME IInv, NEW s \in 1 .. sockets, NEW t \in 1 .. sockets
                 PROVE  load[s] - load[t]
                          <= 1 + (IF sockets = 0 \/ Word % sockets = 0 THEN 0
                                  ELSE medias \div Word)
      BY DEF SocketsEven
    <2>1. /\ sockets \in Nat \ {0} /\ s \in Int /\ t \in Int /\ s >= 1 /\ t >= 1
          /\ load[s] \in Int /\ load[t] \in Int
      <3>1. sockets \in 0 .. MaxQueues /\ MaxQueues \in Nat
            /\ load \in [1 .. MaxQueues -> Nat]
        BY BoundsAssumption DEF IInv, LoadsInv, TypeInv
      <3> QED BY <3>1
    <2>2. Base(s) - Base(t) <= (IF s < t THEN Wraps ELSE 0)
      BY DEF IInv, LoadsInv, EvenInv
    <2>3. Wraps \in Nat
      <3>1. medias \div Word \in Nat
        BY Division, WordAssumption DEF IInv, LoadsInv, TypeInv
      <3> QED BY <3>1 DEF Wraps
    <2>4. PICK r : /\ Reached(s) = IF s <= r THEN 1 ELSE 0
                   /\ Reached(t) = IF t <= r THEN 1 ELSE 0
                   /\ r \in Int
      <3>1. (nextSocket + 1) % sockets \in Int
        BY <2>1, Division DEF IInv, LoadsInv, TypeInv
      <3> QED BY <3>1 DEF Reached
    <2>5. load[s] - load[t] <= 1 + Wraps
      BY <2>1, <2>2, <2>3, <2>4 DEF Base
    <2> QED BY <2>1, <2>5 DEF Wraps
  <1> QED BY <1>1, Invariant, PTL

\* Nothing that xsk.Close gives back outlives a failed NewSocket (xdp.go:125-285).
THEOREM NothingLeftOpen == Spec => []FailedReleased
  <1>1. IInv => FailedReleased
    BY DEF IInv, LoadsInv, SocketsInv, FailedReleased
  <1> QED BY <1>1, Invariant, PTL

-----------------------------------------------------------------------------
(* The counters of XdpProgram beside the dialogs of XdpRules, whose variable phase,  *)
(* which it has from the pool of ports, is not the phase of newBaseUa.               *)

CONSTANTS Dialog, Port, Reserve, MayRefuse
VARIABLES owned, poolPhase, pc, lap, rules, looked, keys, refused

Rules == INSTANCE XdpRules WITH phase <- poolPhase

\* The two counters of an element; a run of the program has still to add to the second
\* one when it has not added to the first.
Fields == {"pkts", "bytes"}
Count(v, f) == IF f = "pkts" THEN v.pkts ELSE v.bytes
Before(f) == IF f = "pkts" THEN {"pkts"} ELSE {"pkts", "bytes"}
Pending(f) == {c \in Cpu : prog[c].step \in Before(f)}
PendingOf(e, f) == {c \in Cpu : prog[c].step \in Before(f) /\ prog[c].tnl = e}

Counters == [pkts : Nat, bytes : Nat]
Running == [tnl : Elem, step : {"pkts", "bytes"}]

CountersType ==
    /\ val \in [Elem -> Counters] /\ report \in [Dialog -> Counters]
    /\ DOMAIN prog = Cpu /\ \A c \in Cpu : prog[c] = Rules!Idle \/ prog[c] \in Running
    /\ hits \in [Dialog -> Nat]
    /\ DOMAIN writer = Elem /\ DOMAIN elem = rules
    /\ \A k \in rules : elem[k] \in Elem /\ writer[elem[k]] \in Dialog
    /\ own \subseteq Dialog
    /\ DOMAIN pc = Dialog /\ DOMAIN lap = Dialog /\ DOMAIN looked = Dialog

\* Where dialog d is.  Before its Update no rule is of its making, and no packet
\* matched one; it has one port; and its report is of the rule it added only after the
\* one lookup.
StepsOf(d) ==
    /\ pc[d] \in {"new", "scan", "update"} =>
          hits[d] = 0 /\ \A k \in rules : writer[elem[k]] # d
    /\ pc[d] \in {"new", "scan"} => lap[d] = <<>>
    /\ pc[d] \notin {"new", "scan"} => Len(lap[d]) = 1
    /\ pc[d] \notin {"delete", "unlist", "closed"} => looked[d] = 0 /\ d \notin own

\* A dialog makes one rule, and its counter is the packets that matched, without those
\* that a CPU has still to add; but a CPU may add one of an earlier owner.
NearInv ==
    /\ \A k, l \in rules : writer[elem[k]] = writer[elem[l]] => elem[k] = elem[l]
    /\ \A k \in rules : \A f \in Fields :
          Count(val[elem[k]], f) + Cardinality(PendingOf(elem[k], f)) - hits[writer[elem[k]]]
             \in 0 .. Cardinality(Cpu)

\* What has been reported by the owner of the rule, and what is in an element whose
\* owner has not reported.
Reported(f) == [d \in own |-> Count(report[d], f)]
Unreported(f) == [e \in Elem |-> IF writer[e] \in own THEN 0 ELSE Count(val[e], f)]

\* Together with what is to be added, not more than the packets that matched.
OnceInv ==
    \A f \in Fields : SumFunction(Reported(f)) + SumFunction(Unreported(f))
                        + Cardinality(Pending(f)) <= SumFunction(hits)

RulesInv ==
    /\ CountersType
    /\ \A d \in Dialog : StepsOf(d)
    /\ NearInv
    /\ OnceInv

\* What XdpRules and XdpProgram assume.
Finite == IsFiniteSet(Dialog) /\ IsFiniteSet(Cpu) /\ IsFiniteSet(Elem)

\* One more element of a finite set.
LEMMA OneMore ==
    ASSUME NEW S, IsFiniteSet(S), NEW A \in SUBSET S, NEW x \in S, x \notin A
    PROVE  /\ Cardinality(A) \in Nat
           /\ Cardinality(A \cup {x}) = Cardinality(A) + 1
           /\ Cardinality(A \cup {x}) <= Cardinality(S)
  BY FS_Subset, FS_AddElement, FS_CardinalityType

\* A part of a finite set.
LEMMA PartOf ==
    ASSUME NEW S, IsFiniteSet(S), NEW A \in SUBSET S
    PROVE  Cardinality(A) \in Nat /\ Cardinality(S) \in Nat /\ Cardinality(A) <= Cardinality(S)
  BY FS_Subset, FS_CardinalityType

\* No rule, no packet, no report.
LEMMA RulesBegin ==
    ASSUME Finite, Rules!Init
    PROVE  RulesInv
  <1>1. /\ rules = {} /\ elem = <<>> /\ own = {} /\ pc = [d \in Dialog |-> "new"]
        /\ lap = [d \in Dialog |-> <<>>] /\ looked = [d \in Dialog |-> 0]
        /\ val = [e \in Elem |-> Rules!Zero] /\ report = [d \in Dialog |-> Rules!Zero]
        /\ prog = [c \in Cpu |-> Rules!Idle] /\ hits = [d \in Dialog |-> 0]
        /\ DOMAIN writer = Elem
    BY DEF Rules!Init, Rules!PortsInit
  <1>2. Rules!Zero \in Counters /\ \A f \in Fields : Count(Rules!Zero, f) = 0
    BY DEF Rules!Zero, Counters, Fields, Count
  <1>3. CountersType
    <2>1. DOMAIN elem = rules
      BY <1>1
    <2> QED BY <1>1, <1>2, <2>1 DEF CountersType
  <1>4. \A d \in Dialog : StepsOf(d)
    BY <1>1 DEF StepsOf
  <1>5. NearInv
    BY <1>1 DEF NearInv
  <1>6. OnceInv
    <2> SUFFICES ASSUME NEW f \in Fields
                 PROVE  SumFunction(Reported(f)) + SumFunction(Unreported(f))
                          + Cardinality(Pending(f)) <= SumFunction(hits)
      BY DEF OnceInv
    <2>1. SumFunction(Reported(f)) = 0
      <3>1. Reported(f) \in [{} -> Int] /\ IsFiniteSet({})
        BY <1>1, FS_EmptySet DEF Reported
      <3> QED BY <3>1, SumOfZeros
    <2>2. SumFunction(Unreported(f)) = 0
      <3>1. Unreported(f) \in [Elem -> Int] /\ \A e \in Elem : Unreported(f)[e] = 0
        BY <1>1, <1>2 DEF Unreported
      <3> QED BY <3>1, SumOfZeros DEF Finite
    <2>3. Cardinality(Pending(f)) = 0
      <3>1. Pending(f) = {}
        BY <1>1 DEF Pending, Before, Rules!Idle
      <3> QED BY <3>1, FS_EmptySet
    <2>4. SumFunction(hits) = 0
      <3>1. hits \in [Dialog -> Int] /\ \A d \in Dialog : hits[d] = 0
        BY <1>1
      <3> QED BY <3>1, SumOfZeros DEF Finite
    <2> QED BY <2>1, <2>2, <2>3, <2>4
  <1> QED BY <1>3, <1>4, <1>5, <1>6 DEF RulesInv

-----------------------------------------------------------------------------
(* The dialogs. *)

\* A dialog that makes no step.
LEMMA OthersStay ==
    ASSUME NEW e \in Dialog, StepsOf(e), pc'[e] = pc[e], lap'[e] = lap[e],
           looked'[e] = looked[e], hits'[e] = hits[e], e \in own' => e \in own,
           \A k \in rules' : writer'[elem'[k]] = e => \E l \in rules : writer[elem[l]] = e
    PROVE  StepsOf(e)'
  BY DEF StepsOf

\* What neither a rule nor a counter notices.
Quiet == UNCHANGED <<rules, elem, val, prog, report, own, writer, hits>>

\* Such a step keeps all but where the dialogs are.
LEMMA QuietKeeps ==
    ASSUME RulesInv, Quiet, DOMAIN pc' = Dialog, DOMAIN lap' = Dialog, DOMAIN looked' = Dialog
    PROVE  CountersType' /\ NearInv' /\ OnceInv'
  <1>1. CountersType'
    BY DEF RulesInv, Quiet, CountersType
  <1>2. NearInv'
    BY DEF RulesInv, Quiet, NearInv, PendingOf
  <1>3. OnceInv'
    BY DEF RulesInv, Quiet, OnceInv, Reported, Unreported, Pending
  <1> QED BY <1>1, <1>2, <1>3

\* The update that the map refuses adds no rule, being of one key.
LEMMA NoneAdded ==
    ASSUME NEW k, NEW d \in Dialog, Rules!UpdateStops(d, <<k>>)
    PROVE  rules' = rules
  <1>1. PICK n \in 0 .. Len(<<k>>) - 1 : rules' = rules \cup Rules!Range(SubSeq(<<k>>, 1, n))
    BY DEF Rules!UpdateStops
  <1>2. n = 0
    BY <1>1
  <1>3. SubSeq(<<k>>, 1, 0) = <<>>
    OBVIOUS
  <1>4. Rules!Range(<<>>) = {}
    BY DEF Rules!Range
  <1> QED BY <1>1, <1>2, <1>3, <1>4

\* The steps of a dialog but Update, the lookup and Delete.
LEMMA QuietSteps ==
    ASSUME RulesInv, NEW d \in Dialog,
           \/ Rules!GetPort(d) \/ Rules!Scan(d) \/ Rules!UpdateFails(d)
           \/ Rules!Hangup(d)
           \/ Rules!Close(d) \/ Rules!Unlist(d)
    PROVE  RulesInv'
  <1> USE DEF Rules!Goto, Rules!progVars, Rules!reportVars, Rules!ruleVars, Rules!portVars
  <1>1. /\ DOMAIN pc = Dialog /\ DOMAIN lap = Dialog /\ DOMAIN looked = Dialog
        /\ StepsOf(d)
    BY DEF RulesInv, CountersType
  <1>2. Quiet /\ looked' = looked
    <2>0. CASE Rules!GetPort(d)
      BY <2>0 DEF Rules!GetPort, Rules!BeginScan, Quiet
    <2>1. CASE Rules!Scan(d)
      BY <2>1 DEF Rules!Scan, Rules!TakePort, Quiet
    <2>2. CASE Rules!UpdateFails(d)
      BY <2>2, NoneAdded DEF Rules!UpdateFails, Rules!UpdateStops, Quiet
    <2>3. CASE Rules!Hangup(d)
      BY <2>3 DEF Rules!Hangup, Quiet
    <2>4. CASE Rules!Close(d)
      BY <2>4 DEF Rules!Close, Rules!BeginClose, Rules!FreePort, Rules!FreePortEnds, Quiet
    <2>5. CASE Rules!Unlist(d)
      BY <2>5 DEF Rules!Unlist, Quiet
    <2> QED BY <2>0, <2>1, <2>2, <2>3, <2>4, <2>5
  <1>3. /\ DOMAIN pc' = Dialog /\ DOMAIN lap' = Dialog
        /\ \A e \in Dialog \ {d} : pc'[e] = pc[e] /\ lap'[e] = lap[e]
    <2>0. CASE Rules!GetPort(d)
      BY <1>1, <2>0 DEF Rules!GetPort, Rules!BeginScan
    <2>1. CASE Rules!Scan(d)
      BY <1>1, <2>1 DEF Rules!Scan, Rules!TakePort
    <2>2. CASE Rules!UpdateFails(d)
      BY <1>1, <2>2 DEF Rules!UpdateFails, Rules!UpdateStops
    <2>3. CASE Rules!Hangup(d)
      BY <1>1, <2>3 DEF Rules!Hangup
    <2>4. CASE Rules!Close(d)
      BY <1>1, <2>4 DEF Rules!Close, Rules!BeginClose, Rules!FreePort, Rules!FreePortEnds
    <2>5. CASE Rules!Unlist(d)
      BY <1>1, <2>5 DEF Rules!Unlist
    <2> QED BY <2>0, <2>1, <2>2, <2>3, <2>4, <2>5
  <1>4. StepsOf(d)'
    <2>0. CASE Rules!GetPort(d)
      BY <1>1, <1>2, <2>0 DEF Rules!GetPort, Rules!BeginScan, StepsOf, Quiet
    <2>1. CASE Rules!Scan(d)
      <3>1. PICK p : lap' = [lap EXCEPT ![d] = Append(lap[d], p)]
        BY <2>1 DEF Rules!Scan, Rules!TakePort
      <3>2. pc[d] = "scan" /\ pc'[d] = "update" /\ lap[d] = <<>> /\ lap'[d] = Append(<<>>, p)
        BY <1>1, <2>1, <3>1 DEF Rules!Scan, Rules!TakePort, StepsOf
      <3>3. Len(lap'[d]) = 1
        <4>1. <<>> \in Seq({p}) /\ Len(Append(<<>>, p)) = 1
          OBVIOUS
        <4> QED BY <3>2, <4>1
      <3> QED BY <1>1, <1>2, <3>2, <3>3 DEF StepsOf, Quiet
    <2>2. CASE Rules!UpdateFails(d)
      BY <1>1, <1>2, <2>2 DEF Rules!UpdateFails, Rules!UpdateStops, StepsOf, Quiet
    <2>3. CASE Rules!Hangup(d)
      BY <1>1, <1>2, <2>3 DEF Rules!Hangup, StepsOf, Quiet
    <2>4. CASE Rules!Close(d)
      BY <1>1, <1>2, <2>4
         DEF Rules!Close, Rules!BeginClose, Rules!FreePort, Rules!FreePortEnds, StepsOf, Quiet
    <2>5. CASE Rules!Unlist(d)
      BY <1>1, <1>2, <2>5 DEF Rules!Unlist, StepsOf, Quiet
    <2> QED BY <2>0, <2>1, <2>2, <2>3, <2>4, <2>5
  <1>5. ASSUME NEW e \in Dialog, e # d PROVE StepsOf(e)'
    BY <1>2, <1>3, <1>5, OthersStay DEF RulesInv, Quiet
  <1> QED BY <1>1, <1>2, <1>3, <1>4, <1>5, QuietKeeps DEF RulesInv

\* A value of a counter, and the CPUs that have still to add to it.
LEMMA CounterTypes ==
    ASSUME Finite, CountersType, NEW f \in Fields
    PROVE  /\ \A e \in Elem : /\ Count(val[e], f) \in Nat
                              /\ PendingOf(e, f) \in SUBSET Cpu
                              /\ Cardinality(PendingOf(e, f)) \in 0 .. Cardinality(Cpu)
           /\ \A d \in Dialog : Count(report[d], f) \in Nat /\ hits[d] \in Nat
           /\ Pending(f) \in SUBSET Cpu /\ Cardinality(Pending(f)) \in Nat
           /\ Reported(f) \in [own -> Int] /\ IsFiniteSet(own)
           /\ Unreported(f) \in [Elem -> Int] /\ hits \in [Dialog -> Int]
           /\ SumFunction(Reported(f)) \in Int /\ SumFunction(Unreported(f)) \in Int
           /\ SumFunction(hits) \in Int /\ Cardinality(Cpu) \in Nat
  <1>1. \A e \in Elem : Count(val[e], f) \in Nat
    BY DEF CountersType, Counters, Count, Fields
  <1>2. \A e \in Elem : /\ PendingOf(e, f) \in SUBSET Cpu
                        /\ Cardinality(PendingOf(e, f)) \in 0 .. Cardinality(Cpu)
    <2> SUFFICES ASSUME NEW e \in Elem
                 PROVE  /\ PendingOf(e, f) \in SUBSET Cpu
                        /\ Cardinality(PendingOf(e, f)) \in 0 .. Cardinality(Cpu)
      OBVIOUS
    <2>1. PendingOf(e, f) \in SUBSET Cpu
      BY DEF PendingOf
    <2>2. /\ Cardinality(PendingOf(e, f)) \in Nat /\ Cardinality(Cpu) \in Nat
          /\ Cardinality(PendingOf(e, f)) <= Cardinality(Cpu)
      BY <2>1, PartOf DEF Finite
    <2> QED BY <2>1, <2>2
  <1>3. \A d \in Dialog : Count(report[d], f) \in Nat /\ hits[d] \in Nat
    BY DEF CountersType, Counters, Count, Fields
  <1>4. /\ Pending(f) \in SUBSET Cpu /\ Cardinality(Pending(f)) \in Nat
        /\ Cardinality(Cpu) \in Nat
    <2>1. Pending(f) \in SUBSET Cpu
      BY DEF Pending
    <2> QED BY <2>1, PartOf DEF Finite
  <1>5. Reported(f) \in [own -> Int] /\ IsFiniteSet(own)
    <2>1. own \subseteq Dialog /\ \A d \in own : Count(report[d], f) \in Int
      BY <1>3 DEF CountersType
    <2> QED BY <2>1, FS_Subset DEF Reported, Finite
  <1>6. Unreported(f) \in [Elem -> Int] /\ hits \in [Dialog -> Int]
    BY <1>1 DEF Unreported, CountersType
  <1>7. /\ SumFunction(Reported(f)) \in Int /\ SumFunction(Unreported(f)) \in Int
        /\ SumFunction(hits) \in Int
    <2> QED BY <1>5, <1>6, SumIsInt DEF Finite
  <1> QED BY <1>1, <1>2, <1>3, <1>4, <1>5, <1>6, <1>7

\* The rule is an element that no rule has, with its counters at zero; the dialog is
\* no other rule's, and no packet has matched a rule of its making.
LEMMA UpdateKeeps ==
    ASSUME Finite, RulesInv, NEW d \in Dialog, Rules!Update(d)
    PROVE  RulesInv'
  <1> DEFINE key == Rules!Key(lap[d][1])
  <1>1. PICK e \in Elem \ Rules!Range(elem) :
           /\ elem' = [k \in rules' |-> IF k = key THEN e ELSE elem[k]]
           /\ writer' = [writer EXCEPT ![e] = d]
           /\ val' = [val EXCEPT ![e] = Rules!Zero]
    BY DEF Rules!Update, Rules!Fresh
  <1>2. /\ pc[d] = "update" /\ pc' = [pc EXCEPT ![d] = "up"]
        /\ rules' = rules \cup {key}
        /\ lap' = lap /\ looked' = looked
        /\ prog' = prog /\ hits' = hits /\ report' = report /\ own' = own
    <2>1. rules' = rules \cup Rules!Range(<<key>>)
      BY DEF Rules!Update, Rules!UpdateRules
    <2>2. Rules!Range(<<key>>) = {key}
      <3> HIDE DEF key
      <3> QED BY DEF Rules!Range
    <2> QED BY <2>1, <2>2
           DEF Rules!Update, Rules!UpdateRules, Rules!Goto, Rules!reportVars
  <1> HIDE DEF key
  <1>3. CountersType /\ StepsOf(d) /\ d \notin own
    BY <1>2 DEF RulesInv, StepsOf
  <1>4. /\ hits[d] = 0
        /\ \A k \in rules : /\ elem[k] \in Elem /\ writer[elem[k]] \in Dialog
                            /\ writer[elem[k]] # d /\ elem[k] # e
    <2>1. \A k \in rules : elem[k] # e
      BY <1>1, <1>3 DEF CountersType, Rules!Range
    <2> QED BY <1>2, <1>3, <2>1 DEF CountersType, StepsOf
  <1>5. /\ elem'[key] = e /\ writer'[e] = d
        /\ \A k \in rules' \ {key} :
              k \in rules /\ elem'[k] = elem[k] /\ writer'[elem[k]] = writer[elem[k]]
    BY <1>1, <1>2, <1>3, <1>4 DEF CountersType
  <1>6. /\ DOMAIN val = Elem
        /\ val'[e] = Rules!Zero /\ \A x \in Elem \ {e} : val'[x] = val[x]
    BY <1>1, <1>3 DEF CountersType
  <1>7. Rules!Zero \in Counters /\ \A f \in Fields : Count(Rules!Zero, f) = 0
    BY DEF Rules!Zero, Counters, Fields, Count
  <1>8. CountersType'
    <2>1. val' \in [Elem -> Counters]
      BY <1>1, <1>3, <1>7 DEF CountersType
    <2>2. DOMAIN writer' = Elem /\ DOMAIN elem' = rules' /\ DOMAIN pc' = Dialog
      BY <1>1, <1>2, <1>3 DEF CountersType
    <2>3. \A k \in rules' : elem'[k] \in Elem /\ writer'[elem'[k]] \in Dialog
      BY <1>4, <1>5
    <2> QED BY <1>2, <1>3, <2>1, <2>2, <2>3 DEF CountersType
  <1>9. \A x \in Dialog : StepsOf(x)'
    <2>1. StepsOf(d)'
      BY <1>2, <1>3 DEF StepsOf, CountersType
    <2>2. ASSUME NEW x \in Dialog, x # d PROVE StepsOf(x)'
      <3>1. pc'[x] = pc[x]
        BY <1>2, <1>3, <2>2 DEF CountersType
      <3>2. \A k \in rules' : writer'[elem'[k]] = x => \E l \in rules : writer[elem[l]] = x
        BY <1>5, <2>2
      <3> QED BY <1>2, <3>1, <3>2, OthersStay DEF RulesInv
    <2> QED BY <2>1, <2>2
  <1>10. NearInv'
    <2>1. ASSUME NEW k \in rules', NEW l \in rules', writer'[elem'[k]] = writer'[elem'[l]]
          PROVE  elem'[k] = elem'[l]
      BY <1>4, <1>5, <2>1 DEF RulesInv, NearInv
    <2>2. ASSUME NEW k \in rules', NEW f \in Fields
          PROVE  Count(val'[elem'[k]], f) + Cardinality(PendingOf(elem[k], f)')
                     - hits'[writer'[elem'[k]]] \in 0 .. Cardinality(Cpu)
      <3>1. \A x : elem'[k] = x => PendingOf(elem[k], f)' = PendingOf(x, f)
        BY <1>2 DEF PendingOf
      <3>2. CASE k = key
        <4>1. Cardinality(PendingOf(e, f)) \in 0 .. Cardinality(Cpu)
          BY <1>3, CounterTypes
        <4>2. Count(val'[elem'[k]], f) = 0 /\ hits'[writer'[elem'[k]]] = 0
          BY <1>2, <1>4, <1>5, <1>6, <1>7, <3>2
        <4>3. PendingOf(elem[k], f)' = PendingOf(e, f)
          BY <1>5, <3>1, <3>2
        <4> QED BY <4>1, <4>2, <4>3
      <3>3. CASE k # key
        <4>1. k \in rules /\ elem'[k] = elem[k] /\ writer'[elem'[k]] = writer[elem[k]]
          BY <1>5, <3>3
        <4>2. val'[elem[k]] = val[elem[k]]
          BY <1>4, <1>6, <4>1
        <4>3. Count(val[elem[k]], f) + Cardinality(PendingOf(elem[k], f))
                 - hits[writer[elem[k]]] \in 0 .. Cardinality(Cpu)
          BY <4>1 DEF RulesInv, NearInv
        <4>4. PendingOf(elem[k], f)' = PendingOf(elem[k], f)
          BY <3>1, <4>1
        <4> QED BY <1>2, <4>1, <4>2, <4>3, <4>4
      <3> QED BY <3>2, <3>3
    <2> QED BY <2>1, <2>2 DEF NearInv
  <1>11. OnceInv'
    <2> SUFFICES ASSUME NEW f \in Fields
                 PROVE  SumFunction(Reported(f)') + SumFunction(Unreported(f)')
                          + Cardinality(Pending(f)') <= SumFunction(hits')
      BY DEF OnceInv
    <2>1. Reported(f)' = Reported(f) /\ Pending(f)' = Pending(f) /\ hits' = hits
      BY <1>2 DEF Reported, Pending
    <2>2. SumFunction(Unreported(f)') <= SumFunction(Unreported(f))
      <3> DEFINE g == Unreported(f)'
                 h == Unreported(f)
      <3>1. g \in [Elem -> Int] /\ h \in [Elem -> Int]
        <4>1. h \in [Elem -> Int]
          BY <1>3, CounterTypes
        <4>2. \A x \in Elem : Count(val'[x], f) \in Int
          BY <1>8 DEF CountersType, Counters, Count, Fields
        <4> QED BY <4>1, <4>2 DEF Unreported
      <3>2. ASSUME NEW x \in Elem PROVE g[x] <= h[x]
        <4>1. Count(val[x], f) \in Nat
          BY <1>3, CounterTypes
        <4>2. g[x] = (IF writer'[x] \in own THEN 0 ELSE Count(val'[x], f))
              /\ h[x] = (IF writer[x] \in own THEN 0 ELSE Count(val[x], f))
          BY <1>2 DEF Unreported
        <4>3. CASE x = e
          BY <1>6, <1>7, <4>1, <4>2, <4>3
        <4>4. CASE x # e
          <5>1. writer'[x] = writer[x] /\ val'[x] = val[x]
            BY <1>1, <1>3, <1>6, <4>4 DEF CountersType
          <5> QED BY <4>1, <4>2, <5>1
        <4> QED BY <4>3, <4>4
      <3> HIDE DEF g, h
      <3>3. SumFunction(g) <= SumFunction(h)
        BY <3>1, <3>2, SumAtMost DEF Finite
      <3> QED BY <3>3 DEF g, h
    <2>3. /\ SumFunction(Reported(f)) + SumFunction(Unreported(f))
               + Cardinality(Pending(f)) <= SumFunction(hits)
          /\ SumFunction(Reported(f)) \in Int /\ SumFunction(Unreported(f)) \in Int
          /\ SumFunction(hits) \in Int /\ Cardinality(Pending(f)) \in Nat
      BY <1>3, CounterTypes DEF RulesInv, OnceInv
    <2>4. SumFunction(Unreported(f)') \in Int
      <3> DEFINE g == Unreported(f)'
      <3>1. g \in [Elem -> Int]
        BY <1>8 DEF CountersType, Counters, Count, Fields, Unreported
      <3> HIDE DEF g
      <3>2. SumFunction(g) \in Int
        BY <3>1, SumIsInt DEF Finite
      <3> QED BY <3>2 DEF g
    <2> QED BY <2>1, <2>2, <2>3, <2>4
  <1> QED BY <1>8, <1>9, <1>10, <1>11 DEF RulesInv

\* A rule is gone, and its element with it.
LEMMA DeleteKeeps ==
    ASSUME Finite, RulesInv, NEW d \in Dialog, Rules!Delete(d)
    PROVE  RulesInv'
  <1>1. /\ pc[d] = "delete" /\ pc' = [pc EXCEPT ![d] = "unlist"]
        /\ rules' \subseteq rules /\ elem' = [k \in rules' |-> elem[k]]
        /\ lap' = lap /\ looked' = [looked EXCEPT ![d] = 0] /\ writer' = writer
        /\ val' = val /\ prog' = prog /\ hits' = hits /\ report' = report /\ own' = own
    BY DEF Rules!Delete, Rules!BatchDelete, Rules!BatchDeleteFails, Rules!DeleteKeys,
       Rules!Goto, Rules!progVars, Rules!reportVars
  <1>2. CountersType /\ StepsOf(d)
    BY DEF RulesInv
  <1>3. \A k \in rules' : k \in rules /\ elem'[k] = elem[k]
    BY <1>1
  <1>4. CountersType'
    BY <1>1, <1>2, <1>3 DEF CountersType
  <1>5. \A x \in Dialog : StepsOf(x)'
    <2>1. StepsOf(d)'
      BY <1>1, <1>2 DEF StepsOf, CountersType
    <2>2. ASSUME NEW x \in Dialog, x # d PROVE StepsOf(x)'
      <3>1. pc'[x] = pc[x] /\ looked'[x] = looked[x]
        BY <1>1, <1>2, <2>2 DEF CountersType
      <3>2. \A k \in rules' : writer'[elem'[k]] = x => \E l \in rules : writer[elem[l]] = x
        BY <1>1, <1>3
      <3> QED BY <1>1, <3>1, <3>2, OthersStay DEF RulesInv
    <2> QED BY <2>1, <2>2
  <1>6. NearInv'
    <2>1. \A k, l \in rules' : writer'[elem'[k]] = writer'[elem'[l]] => elem'[k] = elem'[l]
      BY <1>1, <1>3 DEF RulesInv, NearInv
    <2>2. ASSUME NEW k \in rules', NEW f \in Fields
          PROVE  Count(val'[elem'[k]], f) + Cardinality(PendingOf(elem[k], f)')
                     - hits'[writer'[elem'[k]]] \in 0 .. Cardinality(Cpu)
      <3>1. PendingOf(elem[k], f)' = PendingOf(elem[k], f)
        BY <1>1, <1>3 DEF PendingOf
      <3> QED BY <1>1, <1>3, <3>1 DEF RulesInv, NearInv
    <2> QED BY <2>1, <2>2 DEF NearInv
  <1>7. OnceInv'
    BY <1>1 DEF RulesInv, OnceInv, Reported, Unreported, Pending
  <1> QED BY <1>4, <1>5, <1>6, <1>7 DEF RulesInv

\* The lookup that finds the rule the dialog added: what it copies is near what the
\* dialog's rule has matched.
LEMMA OwnFound ==
    ASSUME Finite, RulesInv, NEW d \in Dialog, Rules!Report(d), own' # own
    PROVE  \E k \in rules : /\ writer[elem[k]] = d /\ d \notin own
                            /\ own' = own \cup {d}
                            /\ report' = [report EXCEPT ![d] = val[elem[k]]]
  BY DEF Rules!Report, Rules!reportVars

\* The counters change places: from the element to the report of its owner.
LEMMA OnceReported ==
    ASSUME Finite, CountersType, CountersType', OnceInv, NEW d \in Dialog, d \notin own,
           NEW e \in Elem, writer[e] = d, own' = own \cup {d},
           report' = [report EXCEPT ![d] = val[e]],
           UNCHANGED <<val, prog, hits, writer>>
    PROVE  OnceInv'
  <1> SUFFICES ASSUME NEW f \in Fields
               PROVE  SumFunction(Reported(f)') + SumFunction(Unreported(f)')
                        + Cardinality(Pending(f)') <= SumFunction(hits')
    BY DEF OnceInv
  <1> DEFINE x == Count(val[e], f)
             a == Reported(f)
             b == Reported(f)'
             g == Unreported(f)
             h == Unreported(f)'
             more == own \cup {d}
  <1>1. /\ x \in Nat /\ a \in [own -> Int] /\ g \in [Elem -> Int]
        /\ IsFiniteSet(own) /\ IsFiniteSet(more) /\ IsFiniteSet(Elem)
        /\ SumFunction(a) \in Int /\ SumFunction(g) \in Int /\ SumFunction(hits) \in Int
        /\ Cardinality(Pending(f)) \in Nat
    BY CounterTypes, FS_AddElement DEF Finite
  <1>2. h \in [Elem -> Int] /\ b \in [more -> Int]
    <2>1. \A y \in Elem : Count(val'[y], f) \in Int
      BY DEF CountersType, Counters, Count, Fields
    <2>2. \A y \in more : Count(report'[y], f) \in Int
      BY DEF CountersType, Counters, Count, Fields
    <2> QED BY <2>1, <2>2 DEF Reported, Unreported
  <1>3. b[d] = x /\ \A y \in own : b[y] = a[y]
    BY DEF Reported, CountersType
  <1>4. SumFunction(b) = x + SumFunction(a)
    <2>1. more \ {d} = own /\ d \in more
      OBVIOUS
    <2>2. \A y \in more : b[y] \in Int
      BY <1>2
    <2>3. DOMAIN a = own /\ DOMAIN b = more
      BY <1>1, <1>2
    <2> HIDE DEF a, b, more, x
    <2>4. SumFunctionOnSet(b, more) = b[d] + SumFunctionOnSet(b, more \ {d})
      BY <1>1, <2>1, <2>2, SumRemove
    <2>5. SumFunctionOnSet(b, own) = SumFunctionOnSet(a, own)
      BY <1>1, <1>3, SumSame
    <2> QED BY <1>3, <2>1, <2>3, <2>4, <2>5 DEF SumFunction
  <1>5. SumFunction(h) + x <= SumFunction(g)
    <2> DEFINE i == [h EXCEPT ![e] = x]
    <2>1. i \in [Elem -> Int] /\ i[e] = x /\ \A y \in Elem \ {e} : i[y] = h[y]
      <3> HIDE DEF h, x
      <3> QED BY <1>1, <1>2
    <2>2. h[e] = 0 /\ g[e] = x
      BY DEF Unreported
    <2>3. \A y \in Elem : h[y] <= g[y]
      <3> SUFFICES ASSUME NEW y \in Elem PROVE h[y] <= g[y]
        OBVIOUS
      <3>1. Count(val[y], f) \in Nat
        BY CounterTypes
      <3> QED BY <3>1 DEF Unreported
    <2>4. \A y \in Elem : i[y] <= g[y]
      <3> SUFFICES ASSUME NEW y \in Elem PROVE i[y] <= g[y]
        OBVIOUS
      <3>1. CASE y = e
        <4> HIDE DEF i, g, h
        <4> QED BY <1>1, <2>1, <2>2, <3>1
      <3>2. CASE y # e
        <4> HIDE DEF i, g, h, x
        <4> QED BY <2>1, <2>3, <3>2
      <3> QED BY <3>1, <3>2
    <2> HIDE DEF g, h, i, x
    <2>5. i[e] = h[e] + x /\ x \in Int
      BY <1>1, <2>1, <2>2
    <2>6. SumFunction(i) = SumFunction(h) + x
      BY <1>1, <1>2, <2>1, <2>5, SumChanged
    <2>7. SumFunction(i) <= SumFunction(g)
      BY <1>1, <2>1, <2>4, SumAtMost
    <2> QED BY <2>6, <2>7
  <1>6. Pending(f)' = Pending(f)
    BY DEF Pending
  <1>7. SumFunction(a) + SumFunction(g) + Cardinality(Pending(f)) <= SumFunction(hits)
    BY DEF OnceInv
  <1>8. SumFunction(h) \in Int
    <2> HIDE DEF h
    <2> QED BY <1>1, <1>2, SumIsInt
  <1>9. SumFunction(b) + SumFunction(h) + Cardinality(Pending(f)) <= SumFunction(hits)
    <2> HIDE DEF a, b, g, h, x
    <2> QED BY <1>1, <1>4, <1>5, <1>7, <1>8
  <1> QED BY <1>6, <1>9

\* The one lookup of a dialog.
LEMMA ReportKeeps ==
    ASSUME Finite, RulesInv, NEW d \in Dialog, Rules!Report(d)
    PROVE  RulesInv'
  <1>1. CountersType /\ StepsOf(d)
    BY DEF RulesInv
  <1>2. /\ pc[d] = "lookup" /\ looked[d] = 0 /\ d \notin own /\ Len(lap[d]) = 1
        /\ pc' = [pc EXCEPT ![d] = "delete"] /\ looked' = [looked EXCEPT ![d] = 1]
        /\ rules' = rules /\ elem' = elem /\ lap' = lap /\ writer' = writer
        /\ val' = val /\ prog' = prog /\ hits' = hits
    <2>1. pc[d] = "lookup"
      BY DEF Rules!Report, Rules!Lookup, Rules!NextLookup
    <2>2. looked[d] = 0 /\ d \notin own /\ Len(lap[d]) = 1
      BY <1>1, <2>1 DEF StepsOf
    <2>3. /\ pc' = [pc EXCEPT ![d] = IF looked[d] + 1 = Len(lap[d]) THEN "delete" ELSE "lookup"]
          /\ looked' = [looked EXCEPT ![d] = looked[d] + 1]
      BY DEF Rules!Report, Rules!Lookup, Rules!NextLookup, Rules!Goto
    <2>4. looked[d] + 1 = 1 /\ looked[d] + 1 = Len(lap[d])
      BY <2>2
    <2>5. /\ rules' = rules /\ elem' = elem /\ lap' = lap /\ writer' = writer
          /\ val' = val /\ prog' = prog /\ hits' = hits
      BY DEF Rules!Report, Rules!Lookup, Rules!NextLookup, Rules!progVars
    <2>6. pc' = [pc EXCEPT ![d] = "delete"] /\ looked' = [looked EXCEPT ![d] = 1]
      BY <2>3, <2>4
    <2> QED BY <2>1, <2>2, <2>5, <2>6
  <1>3. CountersType' /\ \A x \in Dialog \ {d} : x \in own' => x \in own
    <2>1. CASE own' = own
      <3>1. report' \in [Dialog -> Counters]
        BY <1>1, <2>1 DEF Rules!Report, Rules!reportVars, CountersType
      <3> QED BY <1>1, <1>2, <2>1, <3>1 DEF CountersType
    <2>2. CASE own' # own
      BY <1>1, <1>2, <2>2, OwnFound DEF CountersType
    <2> QED BY <2>1, <2>2
  <1>4. \A x \in Dialog : StepsOf(x)'
    <2>1. StepsOf(d)'
      BY <1>1, <1>2 DEF StepsOf, CountersType
    <2>2. ASSUME NEW x \in Dialog, x # d PROVE StepsOf(x)'
      <3>1. pc'[x] = pc[x] /\ looked'[x] = looked[x]
        BY <1>1, <1>2, <2>2 DEF CountersType
      <3> QED BY <1>2, <1>3, <2>2, <3>1, OthersStay DEF RulesInv
    <2> QED BY <2>1, <2>2
  <1>5. NearInv'
    BY <1>2 DEF RulesInv, NearInv, PendingOf
  <1>6. OnceInv'
    <2>1. CASE own' = own
      <3>1. \A x \in own : report'[x] = report[x]
        BY <1>1, <1>2 DEF Rules!Report, Rules!reportVars, CountersType
      <3>2. \A f \in Fields : /\ Reported(f)' = Reported(f) /\ Unreported(f)' = Unreported(f)
                              /\ Pending(f)' = Pending(f)
        BY <1>2, <2>1, <3>1 DEF Reported, Unreported, Pending
      <3> QED BY <1>2, <3>2 DEF RulesInv, OnceInv
    <2>2. CASE own' # own
      <3>1. PICK k \in rules : /\ writer[elem[k]] = d /\ d \notin own
                               /\ own' = own \cup {d}
                               /\ report' = [report EXCEPT ![d] = val[elem[k]]]
        BY <2>2, OwnFound
      <3>2. elem[k] \in Elem
        BY <1>1 DEF CountersType
      <3> QED BY <1>1, <1>2, <1>3, <3>1, <3>2, OnceReported DEF RulesInv
    <2> QED BY <2>1, <2>2
  <1> QED BY <1>3, <1>4, <1>5, <1>6 DEF RulesInv

\* The lookup that fails reports nothing.
LEMMA ReportFailsKeeps ==
    ASSUME RulesInv, NEW d \in Dialog, Rules!ReportFails(d)
    PROVE  RulesInv'
  <1>1. CountersType /\ StepsOf(d)
    BY DEF RulesInv
  <1>2. /\ pc[d] = "lookup" /\ lap' = lap /\ Quiet
        /\ pc' = [pc EXCEPT ![d] = IF looked[d] + 1 = Len(lap[d]) THEN "delete" ELSE "lookup"]
        /\ looked' = [looked EXCEPT ![d] = looked[d] + 1]
    BY DEF Rules!ReportFails, Rules!LookupFails, Rules!NextLookup, Rules!Goto,
       Rules!progVars, Rules!reportVars, Quiet
  <1>3. looked[d] = 0 /\ Len(lap[d]) = 1
    BY <1>1, <1>2 DEF StepsOf
  <1>4. pc' = [pc EXCEPT ![d] = "delete"]
    <2>1. looked[d] + 1 = Len(lap[d])
      BY <1>3
    <2> QED BY <1>2, <2>1
  <1>5. StepsOf(d)'
    BY <1>1, <1>2, <1>4 DEF StepsOf, CountersType, Quiet
  <1>6. ASSUME NEW x \in Dialog, x # d PROVE StepsOf(x)'
    <2>1. pc'[x] = pc[x] /\ looked'[x] = looked[x]
      BY <1>1, <1>2, <1>4, <1>6 DEF CountersType
    <2> QED BY <1>2, <2>1, OthersStay DEF RulesInv, Quiet
  <1>7. CountersType' /\ NearInv' /\ OnceInv'
    BY <1>1, <1>2, <1>4, QuietKeeps DEF CountersType
  <1> QED BY <1>5, <1>6, <1>7 DEF RulesInv

-----------------------------------------------------------------------------
(* The program. *)

\* The CPUs that have an addition to element e before them, in a step's next state.
PendingNext(e, f) == {c \in Cpu : prog'[c].step \in Before(f) /\ prog'[c].tnl = e}

\* A CPU begins with an element: its two additions are before it, and the packet has
\* matched the rule of the element's owner.
LEMMA MatchKeeps ==
    ASSUME Finite, RulesInv, NEW c \in Cpu, Rules!Match(c),
           UNCHANGED <<pc, lap, looked, rules, elem, report, own, writer>>
    PROVE  RulesInv'
  <1>1. CountersType /\ \A d \in Dialog : StepsOf(d)
    BY DEF RulesInv
  <1>2. PICK k \in rules :
           /\ prog' = [prog EXCEPT ![c] = [tnl |-> elem[k], step |-> "pkts"]]
           /\ hits' = [hits EXCEPT ![writer[elem[k]]] = hits[writer[elem[k]]] + 1]
    <2>1. DOMAIN elem = rules
      BY <1>1 DEF CountersType
    <2> QED BY <2>1 DEF Rules!Match
  <1> DEFINE e == elem[k]
             w == writer[elem[k]]
  <1>3. /\ prog[c].step = "idle" /\ val' = val
        /\ prog'[c] = [tnl |-> e, step |-> "pkts"] /\ DOMAIN prog' = Cpu
        /\ \A b \in Cpu \ {c} : prog'[b] = prog[b]
        /\ e \in Elem /\ w \in Dialog /\ DOMAIN hits = Dialog
        /\ hits'[w] = hits[w] + 1 /\ \A d \in Dialog \ {w} : hits'[d] = hits[d]
        /\ hits' \in [Dialog -> Nat]
    BY <1>1, <1>2 DEF Rules!Match, CountersType
  <1> HIDE DEF e, w
  <1>4. \A f \in Fields : "idle" \notin Before(f) /\ "pkts" \in Before(f)
    BY DEF Fields, Before
  <1>5. CountersType'
    <2>1. prog'[c] \in Running
      BY <1>3 DEF Running
    <2>2. \A b \in Cpu : prog'[b] = Rules!Idle \/ prog'[b] \in Running
      BY <1>1, <1>3, <2>1 DEF CountersType
    <2> QED BY <1>1, <1>3, <2>2 DEF CountersType
  <1>6. \A d \in Dialog : StepsOf(d)'
    <2> SUFFICES ASSUME NEW d \in Dialog PROVE StepsOf(d)'
      OBVIOUS
    <2>1. CASE d = w
      <3>1. pc[d] \notin {"new", "scan", "update"}
        BY <1>1, <2>1 DEF StepsOf, w
      <3> QED BY <1>1, <3>1 DEF StepsOf
    <2>2. CASE d # w
      BY <1>1, <1>3, <2>2, OthersStay
    <2> QED BY <2>1, <2>2
  <1>7. NearInv'
    <2>1. \A j, l \in rules : writer[elem[j]] = writer[elem[l]] => elem[j] = elem[l]
      BY DEF RulesInv, NearInv
    <2>2. ASSUME NEW l \in rules, NEW f \in Fields
          PROVE  Count(val[elem[l]], f) + Cardinality(PendingNext(elem[l], f))
                     - hits'[writer[elem[l]]] \in 0 .. Cardinality(Cpu)
      <3> DEFINE x == elem[l]
                 n == Count(val[x], f)
                 p == PendingOf(x, f)
                 q == PendingNext(x, f)
                 h == hits[writer[x]]
      <3>1. /\ x \in Elem /\ writer[x] \in Dialog /\ n \in Nat /\ h \in Nat
            /\ p \in SUBSET Cpu /\ Cardinality(p) \in Nat /\ Cardinality(Cpu) \in Nat
        <4>1. x \in Elem /\ writer[x] \in Dialog
          BY <1>1 DEF CountersType
        <4> QED BY <1>1, <4>1, CounterTypes
      <3>2. n + Cardinality(p) - h \in 0 .. Cardinality(Cpu)
        BY DEF RulesInv, NearInv
      <3>3. CASE x = e
        <4>1. c \notin p /\ q = p \cup {c}
          BY <1>3, <1>4, <3>3 DEF PendingOf, PendingNext
        <4>2. hits'[writer[x]] = h + 1
          BY <1>3, <3>3 DEF w, e
        <4> HIDE DEF x, n, p, q, h
        <4>3. Cardinality(q) = Cardinality(p) + 1
          BY <3>1, <4>1, OneMore DEF Finite
        <4>4. n + Cardinality(q) - (h + 1) \in 0 .. Cardinality(Cpu)
          BY <3>1, <3>2, <4>3
        <4> QED BY <4>2, <4>4 DEF x, n, q
      <3>4. CASE x # e
        <4>1. q = p
          BY <1>3, <1>4, <3>4 DEF PendingOf, PendingNext
        <4>2. writer[x] # w
          BY <2>1, <3>4 DEF e, w
        <4>3. hits'[writer[x]] = h
          BY <1>3, <3>1, <4>2
        <4> QED BY <3>2, <4>1, <4>3
      <3> QED BY <3>3, <3>4
    <2> QED BY <1>3, <2>1, <2>2 DEF NearInv, PendingOf, PendingNext
  <1>8. OnceInv'
    <2> SUFFICES ASSUME NEW f \in Fields
                 PROVE  SumFunction(Reported(f)') + SumFunction(Unreported(f)')
                          + Cardinality(Pending(f)') <= SumFunction(hits')
      BY DEF OnceInv
    <2>1. Reported(f)' = Reported(f) /\ Unreported(f)' = Unreported(f)
      BY <1>3 DEF Reported, Unreported
    <2>2. c \notin Pending(f) /\ Pending(f)' = Pending(f) \cup {c}
      BY <1>3, <1>4 DEF Pending
    <2>3. Pending(f) \in SUBSET Cpu
      BY DEF Pending
    <2>4. Cardinality(Pending(f)') = Cardinality(Pending(f)) + 1
      BY <2>2, <2>3, OneMore DEF Finite
    <2>5. SumFunction(hits') = SumFunction(hits) + 1
      <3> DEFINE g == hits'
                 h == hits
      <3>1. /\ h \in [Dialog -> Int] /\ g \in [Dialog -> Int] /\ IsFiniteSet(Dialog)
            /\ g[w] = h[w] + 1 /\ \A d \in Dialog \ {w} : g[d] = h[d]
        BY <1>1, <1>3 DEF CountersType, Finite
      <3>2. 1 \in Int
        OBVIOUS
      <3> HIDE DEF g, h
      <3>3. SumFunction(g) = SumFunction(h) + 1
        BY <1>3, <3>1, <3>2, SumChanged
      <3> QED BY <3>3 DEF g, h
    <2>6. /\ SumFunction(Reported(f)) + SumFunction(Unreported(f))
               + Cardinality(Pending(f)) <= SumFunction(hits)
          /\ SumFunction(Reported(f)) \in Int /\ SumFunction(Unreported(f)) \in Int
          /\ SumFunction(hits) \in Int /\ Cardinality(Pending(f)) \in Nat
      BY <1>1, CounterTypes DEF RulesInv, OnceInv
    <2> QED BY <2>1, <2>4, <2>5, <2>6
  <1> QED BY <1>5, <1>6, <1>7, <1>8 DEF RulesInv

\* A CPU makes one of its additions, to the element it has looked up.
LEMMA Added ==
    ASSUME Finite, CountersType, CountersType', NearInv, OnceInv,
           UNCHANGED <<rules, elem, report, own, writer, hits>>,
           NEW c \in Cpu, NEW e \in Elem, NEW f0 \in Fields,
           c \in PendingOf(e, f0), c \in Pending(f0),
           \A x \in Elem : \A f \in Fields :
              /\ Count(val'[x], f) = Count(val[x], f) + (IF x = e /\ f = f0 THEN 1 ELSE 0)
              /\ PendingNext(x, f) = IF x = e /\ f = f0 THEN PendingOf(x, f) \ {c}
                                                        ELSE PendingOf(x, f),
           \A f \in Fields : Pending(f)' = IF f = f0 THEN Pending(f) \ {c} ELSE Pending(f)
    PROVE  NearInv' /\ OnceInv'
  <1>1. NearInv'
    <2>1. \A k, l \in rules : writer[elem[k]] = writer[elem[l]] => elem[k] = elem[l]
      BY DEF NearInv
    <2>2. ASSUME NEW k \in rules, NEW f \in Fields
          PROVE  Count(val'[elem[k]], f) + Cardinality(PendingNext(elem[k], f))
                     - hits[writer[elem[k]]] \in 0 .. Cardinality(Cpu)
      <3> DEFINE x == elem[k]
                 n == Count(val[x], f)
                 p == PendingOf(x, f)
                 h == hits[writer[x]]
      <3>1. /\ x \in Elem /\ n \in Nat /\ h \in Nat /\ p \in SUBSET Cpu
            /\ Cardinality(p) \in Nat
        <4>1. x \in Elem /\ writer[x] \in Dialog
          BY DEF CountersType
        <4> QED BY <4>1, CounterTypes
      <3>2. n + Cardinality(p) - h \in 0 .. Cardinality(Cpu)
        BY DEF NearInv
      <3>3. CASE x = e /\ f = f0
        <4> DEFINE q == p \ {c}
        <4>1. /\ Count(val'[x], f) = n + 1 /\ PendingNext(x, f) = q
              /\ c \in p /\ q \in SUBSET Cpu /\ c \notin q /\ p = q \cup {c}
          BY <3>1, <3>3
        <4> HIDE DEF x, n, p, q, h
        <4>2. Cardinality(p) = Cardinality(q) + 1 /\ Cardinality(q) \in Nat
          BY <4>1, OneMore DEF Finite
        <4>3. (n + 1) + Cardinality(q) - h \in 0 .. Cardinality(Cpu)
          BY <3>1, <3>2, <4>2
        <4> QED BY <4>1, <4>3 DEF x, h
      <3>4. CASE ~(x = e /\ f = f0)
        <4>1. Count(val'[x], f) = n + 0 /\ PendingNext(x, f) = p
          BY <3>1, <3>4
        <4> QED BY <3>1, <3>2, <4>1
      <3> QED BY <3>3, <3>4
    <2> QED BY <2>1, <2>2 DEF NearInv, PendingOf, PendingNext
  <1>2. OnceInv'
    <2> SUFFICES ASSUME NEW f \in Fields
                 PROVE  SumFunction(Reported(f)') + SumFunction(Unreported(f)')
                          + Cardinality(Pending(f)') <= SumFunction(hits')
      BY DEF OnceInv
    <2> DEFINE g == Unreported(f)
               h == Unreported(f)'
               a == SumFunction(Reported(f))
               m == SumFunction(hits)
    <2>1. Reported(f)' = Reported(f)
      BY DEF Reported
    <2>2. /\ a + SumFunction(g) + Cardinality(Pending(f)) <= m
          /\ a \in Int /\ SumFunction(g) \in Int /\ m \in Int
          /\ Cardinality(Pending(f)) \in Nat /\ g \in [Elem -> Int]
      BY CounterTypes DEF OnceInv
    <2>3. h \in [Elem -> Int]
      BY DEF CountersType, Counters, Count, Fields, Unreported
    <2>4. CASE f = f0
      <3> DEFINE i == [g EXCEPT ![e] = g[e] + 1]
      <3>1. /\ i \in [Elem -> Int] /\ i[e] = g[e] + 1 /\ \A x \in Elem \ {e} : i[x] = g[x]
            /\ g[e] \in Int
        <4> HIDE DEF g
        <4> QED BY <2>2
      <3>2. SumFunction(i) = SumFunction(g) + 1
        <4>1. 1 \in Int
          OBVIOUS
        <4> HIDE DEF i, g
        <4> QED BY <2>2, <3>1, <4>1, SumChanged DEF Finite
      <3>3. \A x \in Elem : h[x] <= i[x]
        <4> SUFFICES ASSUME NEW x \in Elem PROVE h[x] <= i[x]
          OBVIOUS
        <4>1. Count(val[x], f) \in Nat
          BY CounterTypes
        <4>2. /\ h[x] = IF writer[x] \in own THEN 0 ELSE Count(val'[x], f)
              /\ g[x] = IF writer[x] \in own THEN 0 ELSE Count(val[x], f)
          BY DEF Unreported
        <4>3. Count(val'[x], f) = Count(val[x], f) + (IF x = e THEN 1 ELSE 0)
          BY <2>4
        <4> HIDE DEF g, h, i
        <4> QED BY <3>1, <4>1, <4>2, <4>3
      <3>4. SumFunction(h) <= SumFunction(i) /\ SumFunction(h) \in Int
        <4> HIDE DEF g, h, i
        <4> QED BY <2>3, <3>1, <3>3, SumAtMost, SumIsInt DEF Finite
      <3> DEFINE q == Pending(f) \ {c}
      <3>5. /\ Pending(f)' = q /\ c \notin q /\ q \in SUBSET Cpu
            /\ Pending(f) = q \cup {c}
        BY <2>4 DEF Pending
      <3>6. Cardinality(Pending(f)) = Cardinality(q) + 1 /\ Cardinality(q) \in Nat
        <4> HIDE DEF q
        <4> QED BY <3>5, OneMore DEF Finite
      <3> HIDE DEF g, h, i, a, m, q
      <3>7. a + SumFunction(h) + Cardinality(q) <= m
        BY <2>2, <3>2, <3>4, <3>6
      <3> QED BY <2>1, <3>5, <3>7 DEF a, h, m
    <2>5. CASE f # f0
      <3>1. \A x \in Elem : Count(val'[x], f) = Count(val[x], f)
        <4> SUFFICES ASSUME NEW x \in Elem PROVE Count(val'[x], f) = Count(val[x], f)
          OBVIOUS
        <4>1. Count(val[x], f) \in Nat /\ Count(val'[x], f) = Count(val[x], f) + 0
          BY <2>5, CounterTypes
        <4> QED BY <4>1
      <3>2. h = g
        BY <3>1 DEF Unreported
      <3>3. Pending(f)' = Pending(f)
        BY <2>5
      <3> QED BY <2>1, <2>2, <3>2, <3>3
    <2> QED BY <2>4, <2>5
  <1> QED BY <1>1, <1>2

\* The two additions of a run.
LEMMA AddKeeps ==
    ASSUME Finite, RulesInv, NEW c \in Cpu, Rules!AddPkts(c) \/ Rules!AddBytes(c),
           UNCHANGED <<pc, lap, looked, rules, elem, report, own, writer>>
    PROVE  RulesInv'
  <1> DEFINE f0 == prog[c].step
             e == prog[c].tnl
  <1>1. CountersType /\ NearInv /\ OnceInv
    BY DEF RulesInv
  <1>2. prog[c].step \in {"pkts", "bytes"} /\ hits' = hits
    BY DEF Rules!AddPkts, Rules!AddBytes
  <1>3. prog[c] \in Running /\ e \in Elem /\ f0 \in Fields
    BY <1>1, <1>2 DEF CountersType, Rules!Idle, Running, Fields
  <1>4. /\ DOMAIN prog' = Cpu /\ \A b \in Cpu \ {c} : prog'[b] = prog[b]
        /\ f0 = "pkts" => prog'[c] = [tnl |-> e, step |-> "bytes"]
        /\ f0 = "bytes" => prog'[c] = Rules!Idle
    <2>1. CASE Rules!AddPkts(c)
      <3>1. prog' = [prog EXCEPT ![c] = [prog[c] EXCEPT !.step = "bytes"]] /\ f0 = "pkts"
        BY <2>1 DEF Rules!AddPkts
      <3>2. [prog[c] EXCEPT !.step = "bytes"] = [tnl |-> e, step |-> "bytes"]
        BY <1>3 DEF Running
      <3> HIDE DEF e
      <3> QED BY <1>1, <3>1, <3>2 DEF CountersType
    <2>2. CASE Rules!AddBytes(c)
      BY <1>1, <2>2 DEF Rules!AddBytes, CountersType
    <2> QED BY <2>1, <2>2
  <1>5. /\ val \in [Elem -> Counters]
        /\ f0 = "pkts" => val' = [val EXCEPT ![e] = [val[e] EXCEPT !.pkts = val[e].pkts + 1]]
        /\ f0 = "bytes" => val' = [val EXCEPT ![e] = [val[e] EXCEPT !.bytes = val[e].bytes + 1]]
    <2>1. CASE Rules!AddPkts(c)
      BY <1>1, <2>1 DEF Rules!AddPkts, CountersType
    <2>2. CASE Rules!AddBytes(c)
      BY <1>1, <2>2 DEF Rules!AddBytes, CountersType
    <2> QED BY <2>1, <2>2
  <1> HIDE DEF e, f0
  <1>6. /\ val'[e] = [pkts |-> val[e].pkts + (IF f0 = "pkts" THEN 1 ELSE 0),
                      bytes |-> val[e].bytes + (IF f0 = "bytes" THEN 1 ELSE 0)]
        /\ DOMAIN val' = Elem /\ \A x \in Elem \ {e} : val'[x] = val[x]
        /\ val[e].pkts \in Nat /\ val[e].bytes \in Nat
    <2>1. val[e] \in Counters /\ val[e].pkts \in Nat /\ val[e].bytes \in Nat
      BY <1>3, <1>5 DEF Counters
    <2>2. CASE f0 = "pkts"
      <3>1. [val[e] EXCEPT !.pkts = val[e].pkts + 1]
              = [pkts |-> val[e].pkts + 1, bytes |-> val[e].bytes + 0]
        BY <2>1 DEF Counters
      <3> QED BY <1>3, <1>5, <2>1, <2>2, <3>1
    <2>3. CASE f0 = "bytes"
      <3>1. [val[e] EXCEPT !.bytes = val[e].bytes + 1]
              = [pkts |-> val[e].pkts + 0, bytes |-> val[e].bytes + 1]
        BY <2>1 DEF Counters
      <3> QED BY <1>3, <1>5, <2>1, <2>3, <3>1
    <2> QED BY <1>3, <2>2, <2>3 DEF Fields
  <1>7. CountersType'
    <2>1. val' \in [Elem -> Counters]
      <3>1. \A x \in Elem : val'[x] \in Counters
        BY <1>5, <1>6 DEF Counters
      <3>2. val' = [x \in Elem |-> val'[x]]
        BY <1>3, <1>5, <1>6 DEF Fields
      <3> QED BY <3>1, <3>2
    <2>2. prog'[c] = Rules!Idle \/ prog'[c] \in Running
      BY <1>3, <1>4 DEF Running, Fields
    <2>3. \A b \in Cpu : prog'[b] = Rules!Idle \/ prog'[b] \in Running
      BY <1>1, <1>4, <2>2 DEF CountersType
    <2> QED BY <1>1, <1>2, <1>4, <2>1, <2>3 DEF CountersType
  <1>8. \A d \in Dialog : StepsOf(d)'
    BY <1>2, OthersStay DEF RulesInv
  <1>9. \A x \in Elem : \A f \in Fields :
           Count(val'[x], f) = Count(val[x], f) + (IF x = e /\ f = f0 THEN 1 ELSE 0)
    <2> SUFFICES ASSUME NEW x \in Elem, NEW f \in Fields
                 PROVE  Count(val'[x], f)
                          = Count(val[x], f) + (IF x = e /\ f = f0 THEN 1 ELSE 0)
      OBVIOUS
    <2>1. CASE x = e
      BY <1>3, <1>6, <2>1 DEF Count, Fields
    <2>2. CASE x # e
      <3>1. Count(val[x], f) \in Nat
        BY <1>1, CounterTypes
      <3> QED BY <1>6, <2>2, <3>1
    <2> QED BY <2>1, <2>2
  <1>10. /\ prog[c].step = f0 /\ prog[c].tnl = e
         /\ f0 \in Before(f0) /\ prog'[c].step \notin Before(f0)
         /\ \A f \in Fields \ {f0} : /\ prog'[c].step \in Before(f) <=> f0 \in Before(f)
                                     /\ f0 \in Before(f) => prog'[c].tnl = e
    <2>1. prog[c].step = f0 /\ prog[c].tnl = e
      BY DEF f0, e
    <2>2. CASE f0 = "pkts"
      BY <1>4, <2>1, <2>2 DEF Fields, Before
    <2>3. CASE f0 = "bytes"
      BY <1>4, <2>1, <2>3 DEF Fields, Before, Rules!Idle
    <2> QED BY <1>3, <2>2, <2>3 DEF Fields
  <1>11. /\ c \in PendingOf(e, f0) /\ c \in Pending(f0)
         /\ \A x \in Elem : \A f \in Fields :
               PendingNext(x, f) = IF x = e /\ f = f0 THEN PendingOf(x, f) \ {c}
                                                       ELSE PendingOf(x, f)
         /\ \A f \in Fields : Pending(f)' = IF f = f0 THEN Pending(f) \ {c} ELSE Pending(f)
    <2>1. c \in PendingOf(e, f0) /\ c \in Pending(f0)
      BY <1>10 DEF PendingOf, Pending
    <2>2. ASSUME NEW x \in Elem, NEW f \in Fields
          PROVE  PendingNext(x, f) = IF x = e /\ f = f0 THEN PendingOf(x, f) \ {c}
                                                        ELSE PendingOf(x, f)
      <3>1. CASE f = f0
        BY <1>4, <1>10, <3>1 DEF PendingNext, PendingOf
      <3>2. CASE f # f0
        BY <1>4, <1>10, <3>2 DEF PendingNext, PendingOf
      <3> QED BY <3>1, <3>2
    <2>3. ASSUME NEW f \in Fields
          PROVE  Pending(f)' = IF f = f0 THEN Pending(f) \ {c} ELSE Pending(f)
      BY <1>4, <1>10 DEF Pending
    <2> QED BY <2>1, <2>2, <2>3
  <1>12. NearInv' /\ OnceInv'
    BY <1>1, <1>2, <1>3, <1>7, <1>9, <1>11, Added
  <1> QED BY <1>7, <1>8, <1>12 DEF RulesInv

-----------------------------------------------------------------------------
(* The theorems about the counters. *)

\* Every step of a dialog or of a CPU keeps the invariant.
LEMMA RulesStep ==
    ASSUME Finite, RulesInv, [Rules!Next]_(Rules!vars)
    PROVE  RulesInv'
  <1>1. CASE UNCHANGED Rules!vars
    <2>1. Quiet /\ UNCHANGED <<pc, lap, looked>>
      BY <1>1 DEF Rules!vars, Rules!portVars, Rules!ruleVars, Rules!progVars,
         Rules!reportVars, Quiet
    <2>2. CountersType' /\ NearInv' /\ OnceInv'
      BY <2>1, QuietKeeps DEF RulesInv, CountersType
    <2>3. \A d \in Dialog : StepsOf(d)'
      BY <2>1, OthersStay DEF RulesInv, Quiet
    <2> QED BY <2>2, <2>3 DEF RulesInv
  <1>2. ASSUME NEW d \in Dialog, Rules!DialogStep(d) PROVE RulesInv'
    BY <1>2, QuietSteps, UpdateKeeps, ReportKeeps, ReportFailsKeeps, DeleteKeeps
       DEF Rules!DialogStep
  <1>3. ASSUME NEW c \in Cpu, Rules!Program(c),
               UNCHANGED <<pc, Rules!portVars, elem, Rules!reportVars, writer>>
        PROVE  RulesInv'
    <2>1. UNCHANGED <<pc, lap, looked, rules, elem, report, own, writer>>
      BY <1>3 DEF Rules!portVars, Rules!ruleVars, Rules!reportVars
    <2> QED BY <1>3, <2>1, MatchKeeps, AddKeeps DEF Rules!Program
  <1> QED BY <1>1, <1>2, <1>3 DEF Rules!Next

\* No packet is reported twice, however many dialogs use an element in turn and CPUs
\* add late (xdp_sipbench.c:69-71, dialog.go:269-277).
THEOREM ReportedOnce ==
    ASSUME IsFiniteSet(Dialog)
    PROVE  Rules!Spec => []OnlyOnce
  <1> USE CpuAssumption, ElemAssumption DEF Finite
  <1>1. RulesInv => OnlyOnce
    <2> SUFFICES ASSUME RulesInv PROVE OnlyOnce
      OBVIOUS
    <2>1. ASSUME NEW f \in Fields PROVE SumFunction(Reported(f)) <= SumFunction(hits)
      <3>1. /\ SumFunction(Reported(f)) \in Int /\ SumFunction(Unreported(f)) \in Int
            /\ SumFunction(hits) \in Int /\ Cardinality(Pending(f)) \in Nat
            /\ Unreported(f) \in [Elem -> Int]
            /\ \A e \in Elem : Count(val[e], f) \in Nat
        BY CounterTypes DEF RulesInv
      <3>2. SumFunction(Unreported(f)) >= 0
        <4> DEFINE g == Unreported(f)
                   z == [e \in Elem |-> 0]
        <4>1. z \in [Elem -> Int] /\ \A e \in Elem : z[e] = 0 /\ z[e] <= g[e]
          BY <3>1 DEF Unreported
        <4> HIDE DEF g, z
        <4>2. SumFunction(z) = 0
          BY <4>1, SumOfZeros DEF Finite
        <4>3. SumFunction(z) <= SumFunction(g)
          BY <3>1, <4>1, SumAtMost DEF Finite, g
        <4> QED BY <4>2, <4>3 DEF g
      <3>3. SumFunction(Reported(f)) + SumFunction(Unreported(f))
               + Cardinality(Pending(f)) <= SumFunction(hits)
        BY DEF RulesInv, OnceInv
      <3> QED BY <3>1, <3>2, <3>3
    <2>2. /\ Reported("pkts") = [d \in own |-> report[d].pkts]
          /\ Reported("bytes") = [d \in own |-> report[d].bytes]
      BY DEF Reported, Count
    <2>3. "pkts" \in Fields /\ "bytes" \in Fields
      BY DEF Fields
    <2>4. /\ SumFunction([d \in own |-> report[d].pkts]) <= SumFunction(hits)
          /\ SumFunction([d \in own |-> report[d].bytes]) <= SumFunction(hits)
      BY <2>1, <2>2, <2>3
    <2> QED BY <2>4 DEF OnlyOnce
  <1>2. Rules!Spec => []RulesInv
    BY RulesBegin, RulesStep, PTL DEF Rules!Spec
  <1> QED BY <1>1, <1>2, PTL

\* A dialog that finds its own rule reports what the program dropped for it, but for
\* the packet that each CPU has in hand (xdp_sipbench.c:62-71, ebpf.go:83, 94).
THEOREM ReportsNearlyExact ==
    ASSUME IsFiniteSet(Dialog)
    PROVE  Rules!Spec => NearlyExact
  <1> USE CpuAssumption, ElemAssumption DEF Finite
  <1>1. ASSUME RulesInv, [Rules!Next]_(Rules!vars)
        PROVE  [\A d \in own' \ own :
                  Near(report'[d].pkts, hits[d]) /\ Near(report'[d].bytes, hits[d])]_reportVars
    <2> SUFFICES ASSUME Rules!Next, NEW d \in own', d \notin own
                 PROVE  Near(report'[d].pkts, hits[d]) /\ Near(report'[d].bytes, hits[d])
      BY <1>1 DEF Rules!vars, Rules!reportVars, reportVars
    <2>1. PICK x \in Dialog : Rules!Report(x)
      <3>1. own' # own
        OBVIOUS
      <3>2. ASSUME NEW c \in Cpu,
                   UNCHANGED <<pc, Rules!portVars, elem, Rules!reportVars, writer>>
            PROVE  FALSE
        BY <3>1, <3>2 DEF Rules!reportVars
      <3>3. ASSUME NEW y \in Dialog, Rules!DialogStep(y) PROVE Rules!Report(y)
        BY <3>1, <3>3 DEF Rules!DialogStep, Rules!reportVars, Rules!GetPort, Rules!Scan,
           Rules!ReportFails, Rules!Update, Rules!UpdateFails, Rules!Hangup, Rules!Delete, Rules!Close, Rules!Unlist
      <3> QED BY <3>2, <3>3 DEF Rules!Next
    <2>2. PICK k \in rules : /\ writer[elem[k]] = x /\ own' = own \cup {x}
                             /\ report' = [report EXCEPT ![x] = val[elem[k]]]
      BY <1>1, <2>1, OwnFound
    <2>3. d = x /\ report'[d] = val[elem[k]] /\ elem[k] \in Elem /\ d \in Dialog
      BY <1>1, <2>2 DEF RulesInv, CountersType
    <2>4. ASSUME NEW f \in Fields PROVE Near(Count(report'[d], f), hits[d])
      <3> DEFINE n == Count(val[elem[k]], f)
                 p == Cardinality(PendingOf(elem[k], f))
                 h == hits[d]
                 m == Cardinality(Cpu)
      <3>1. n + p - h \in 0 .. m
        BY <1>1, <2>2, <2>3 DEF RulesInv, NearInv
      <3>2. n \in Nat /\ p \in 0 .. m /\ h \in Nat /\ m \in Nat
        BY <1>1, <2>3, CounterTypes DEF RulesInv
      <3>3. n - h \in - m .. m
        <4> HIDE DEF n, p, h, m
        <4> QED BY <3>1, <3>2
      <3> QED BY <2>3, <3>3 DEF Near
    <2>5. "pkts" \in Fields /\ "bytes" \in Fields
      BY DEF Fields
    <2>6. /\ Count(report'[d], "pkts") = report'[d].pkts
          /\ Count(report'[d], "bytes") = report'[d].bytes
      BY DEF Count
    <2> QED BY <2>4, <2>5, <2>6
  <1>2. Rules!Spec => []RulesInv
    BY RulesBegin, RulesStep, PTL DEF Rules!Spec
  <1> QED BY <1>1, <1>2, PTL DEF Rules!Spec, NearlyExact
=============================================================================
