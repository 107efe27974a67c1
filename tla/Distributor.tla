----------------------------- MODULE Distributor -----------------------------
(***************************************************************************)
(* The weighted round robin behind the ringing and answer timeouts         *)
(* (src/pkg/distributor/distributor.go, src/pkg/time_range.go): the time   *)
(* ranges of a flag such as "5=1,6=2" are laid out once, by calc, and the  *)
(* handlers of all calls then share one atomic counter that walks the      *)
(* layout.                                                                 *)
(*                                                                         *)
(* A range is known by its position, from 1; one without a weight has      *)
(* weight 1.  A negative weight is not modelled: it makes the constructor  *)
(* panic, or leaves the range out.                                         *)
(***************************************************************************)
EXTENDS Integers, Functions, SequencesExt

CONSTANT Word           \* 2^32 in the code

ASSUME WordAssumption == Word \in Nat \ {0}

VARIABLES
    weight,         \* weight[r]: the weight of range r
    currentWeight,  \* currentWeight[r]: what calc has accumulated for r
    layout,         \* the ranges as RoundRobin walks them
    next,           \* RoundRobin's counter
    used            \* used[r]: how often r has been handed out

rangeVars == <<weight, currentWeight, layout, next, used>>

R == DOMAIN weight

Total == SumFunction(weight)

\* The ranges of a flag with weights w; one alone is used without a walk.
RangesInit(w) ==
    /\ weight = w
    /\ currentWeight = [r \in R |-> 0]
    /\ layout = <<>>
    /\ next = 0
    /\ used = [r \in R |-> 0]

-----------------------------------------------------------------------------
(* Mutated forms of the definitions, each a slip of the code. *)

GotSmallest ==                                   \* < for >
    LET got[r \in R] ==
          IF r = 1 THEN 1
          ELSE LET g == got[r - 1] IN
               IF currentWeight[r] < currentWeight[g] + weight[g] THEN r ELSE g
    IN got[Len(weight)]

PlaceSkips(n, len) == 1 + (n % (IF len > 1 THEN len - 1 ELSE 1))   \* one too few

-----------------------------------------------------------------------------
\* RoundRobin.Next: the counter after the addition, and the place of len it means.
Step(n) == (n + 1) % Word
Place(n, len) == 1 + (n % len)

\* The loop of calc: got starts at the first range, whose weight has already been
\* added when the others are compared, while rr is a copy made before its own was.
Got ==
    LET got[r \in R] ==
          IF r = 1 THEN 1
          ELSE LET g == got[r - 1] IN
               IF currentWeight[r] > currentWeight[g] + weight[g] THEN r ELSE g
    IN got[Len(weight)]

\* One call of calc by NewWeightedRoundRobin.
Calc ==
    /\ Len(weight) > 1
    /\ Len(layout) < Total
    /\ currentWeight' =
         [r \in R |-> currentWeight[r] + weight[r] - (IF r = Got THEN Total ELSE 0)]
    /\ layout' = Append(layout, Got)
    /\ UNCHANGED <<weight, next, used>>

\* A flag with one range has no layout.
HandOutOnly ==
    /\ Len(weight) = 1
    /\ used' = [used EXCEPT ![1] = @ + 1]
    /\ UNCHANGED <<weight, currentWeight, layout, next>>

\* WeightedRoundRobin.Next, for multiTimeRange.Get.
HandOut ==
    /\ Len(layout) = Total
    /\ next' = Step(next)
    /\ used' = [used EXCEPT ![layout[Place(next', Len(layout))]] = @ + 1]
    /\ UNCHANGED <<weight, currentWeight, layout>>

-----------------------------------------------------------------------------
(* Properties *)

\* "Weighted time (5 seconds weight 1, 6 seconds weight 2)" (time_range.go:94):
\* the finished layout holds each range exactly as often as its weight says,
\* though calc compares accumulators of different rounds (distributor.go:53-68).
LayoutExact ==
    Len(layout) = Total
        => \A r \in R : Cardinality({n \in DOMAIN layout : layout[n] = r}) = weight[r]

\* And after every whole walk over it the handlers together have got each range in
\* proportion to its weight, wherever the walk began, until the counter overflows;
\* afterwards too if the walk divides 2^32 (distributor.go:18-21, time_range.go:51-53).
SharesExact ==
    LET calls == SumFunction(used) IN
    /\ LayoutExact
    /\ calls % Total = 0 /\ (calls < Word \/ Word % Total = 0)
         => \A r \in R : used[r] = (calls \div Total) * weight[r]
=============================================================================
