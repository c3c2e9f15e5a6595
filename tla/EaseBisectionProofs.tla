------------------------- MODULE EaseBisectionProofs -------------------------
(***************************************************************************)
(* The bisection, for any weight, scale, limits and number of children.    *)
(*                                                                         *)
(* The loop invariant does not need the demand to fall as the price rises: *)
(* the search only moves an end of its interval to a price that it has     *)
(* just evaluated, and starts from a price at which nobody demands         *)
(* anything.  That the search ends at the least price does need it, and    *)
(* enough iterations for the first interval; that the price below it       *)
(* demands at most one more cell needs a scale that is fine enough.  Both  *)
(* are hypotheses of the theorems that need them.                          *)
(***************************************************************************)
EXTENDS EaseBisection, FiniteSetTheorems, TLAPS

USE QuotaAssumption, BisectionAssumption

-----------------------------------------------------------------------------
(* Arithmetic *)

\* A product grows with its factors.
LEMMA ProductMonotone ==
  ASSUME NEW a \in Nat, NEW b \in Nat, NEW c \in Nat, a <= b
  PROVE  a * c <= b * c
OBVIOUS

LEMMA ProductCancel ==
  ASSUME NEW a \in Nat, NEW b \in Nat, NEW c \in Nat, a * c < b * c
  PROVE  a < b
<1>1. CASE b <= a
  BY <1>1, ProductMonotone
<1> QED
  BY <1>1

LEMMA Quotient ==
  ASSUME NEW x \in Nat, NEW p \in Nat \ {0}
  PROVE  /\ x \div p \in Nat
         /\ (x \div p) * p <= x /\ x < (x \div p + 1) * p
OBVIOUS

LEMMA QuotientAtLeast ==
  ASSUME NEW x \in Nat, NEW p \in Nat \ {0}, NEW k \in Nat, k * p <= x
  PROVE  k <= x \div p
<1> DEFINE q == x \div p
<1>1. q \in Nat /\ x < (q + 1) * p
  BY Quotient
<1> HIDE DEF q
<1>2. k * p \in Nat /\ (q + 1) * p \in Nat /\ q + 1 \in Nat
  BY <1>1
<1>3. k * p < (q + 1) * p
  BY <1>1, <1>2
<1>4. k < q + 1
  BY <1>1, <1>2, <1>3, ProductCancel
<1>5. k <= q
  BY <1>1, <1>4
<1> QED
  BY <1>5 DEF q

LEMMA QuotientFalls ==
  ASSUME NEW x \in Nat, NEW p \in Nat \ {0}, NEW r \in Nat \ {0}, p <= r
  PROVE  x \div r <= x \div p
<1> DEFINE k == x \div r
<1>1. k \in Nat /\ k * r <= x
  BY Quotient
<1> HIDE DEF k
<1>2. k * p <= k * r
  <2>1. p * k <= r * k
    BY <1>1, ProductMonotone
  <2> QED
    BY <1>1, <2>1
<1>3. k * p <= x
  <2>1. k * p \in Nat /\ k * r \in Nat
    BY <1>1
  <2> QED
    BY <1>1, <1>2, <2>1
<1>4. k <= x \div p
  BY <1>1, <1>3, QuotientAtLeast
<1> QED
  BY <1>4 DEF k

\* A higher price never raises the demand.
LEMMA DemandFalls ==
  ASSUME NEW p \in Nat \ {0}, NEW r \in Nat \ {0}, p <= r
  PROVE  Demand(r) <= Demand(p)
<1> DEFINE x == Weight * Scale
<1>1. x \in Nat
  OBVIOUS
<1>2. x \div r <= x \div p /\ x \div r \in Nat /\ x \div p \in Nat
  BY <1>1, Quotient, QuotientFalls
<1> HIDE DEF x
<1> QED
  BY <1>2 DEF Demand, x

\* 2^e is the number of subsets of 1 .. e; with e + 1 there are twice as many.
LEMMA PowerOfTwo ==
  ASSUME NEW e \in Nat
  PROVE  2^e \in Nat \ {0} /\ 2^(e + 1) = 2 * 2^e
<1> DEFINE S == 1 .. e
           x == e + 1
           A == SUBSET S
           B == {T \cup {x} : T \in A}
<1>1. /\ IsFiniteSet(S) /\ Cardinality(S) = e
      /\ IsFiniteSet(S \cup {x}) /\ Cardinality(S \cup {x}) = e + 1
      /\ x \notin S
  <2>1. IsFiniteSet(S) /\ Cardinality(S) = e /\ x \notin S
    BY FS_Interval
  <2> HIDE DEF S
  <2> QED
    BY <2>1, FS_AddElement
<1> HIDE DEF S, x
<1>2. /\ IsFiniteSet(A) /\ Cardinality(A) = 2^e
      /\ Cardinality(SUBSET (S \cup {x})) = 2^(e + 1)
  BY <1>1, FS_SUBSET
<1>3. Cardinality(A) \in Nat \ {0}
  <2>1. Cardinality(A) \in Nat
    BY <1>2, FS_CardinalityType
  <2>2. A # {}
    OBVIOUS
  <2> HIDE DEF A
  <2>3. Cardinality(A) # 0
    BY <1>2, <2>2, FS_EmptySet
  <2> QED
    BY <2>1, <2>3
<1>4. SUBSET (S \cup {x}) = A \cup B /\ A \cap B = {}
  <2>1. ASSUME NEW U \in SUBSET (S \cup {x}) PROVE U \in A \cup B
    <3>1. CASE x \notin U
      BY <3>1
    <3>2. CASE x \in U
      <4>1. U \ {x} \in A /\ U = (U \ {x}) \cup {x}
        BY <3>2
      <4> QED
        BY <4>1
    <3> QED
      BY <3>1, <3>2
  <2>2. A \cup B \subseteq SUBSET (S \cup {x})
    OBVIOUS
  <2>3. A \cap B = {}
    BY <1>1
  <2> QED
    BY <2>1, <2>2, <2>3
<1>5. ExistsBijection(A, B)
  <2> DEFINE f == [T \in A |-> T \cup {x}]
  <2>1. f \in [A -> B]
    OBVIOUS
  <2>2. ASSUME NEW T \in A, NEW U \in A, f[T] = f[U] PROVE T = U
    BY <1>1, <2>2
  <2>3. \A V \in B : \E T \in A : f[T] = V
    OBVIOUS
  <2> HIDE DEF f, A, B
  <2>4. f \in Bijection(A, B)
    BY <2>1, <2>2, <2>3 DEF Bijection, Injection, Surjection, IsInjective
  <2> QED
    BY <2>4 DEF ExistsBijection
<1>6. IsFiniteSet(B) /\ Cardinality(B) = Cardinality(A)
  BY <1>2, <1>5, FS_Bijection
<1>7. Cardinality(A \cup B) = Cardinality(A) + Cardinality(B) - Cardinality(A \cap B)
  BY <1>2, <1>6, FS_Union
<1>8. Cardinality(A \cap B) = 0
  BY <1>4, FS_EmptySet
<1> HIDE DEF A, B
<1>9. Cardinality(SUBSET (S \cup {x})) = Cardinality(A) + Cardinality(A)
  <2>1. Cardinality(SUBSET (S \cup {x})) = Cardinality(A \cup B)
    BY <1>4
  <2> HIDE DEF A, B
  <2> QED
    BY <1>3, <1>6, <1>7, <1>8, <2>1
<1>10. 2^e \in Nat \ {0} /\ 2^(e + 1) = 2^e + 2^e
  BY <1>2, <1>3, <1>9
<1> QED
  BY <1>10
\* One subset for no element.
LEMMA PowerOfZero == 2^0 = 1
<1>1. IsFiniteSet({}) /\ Cardinality({}) = 0 /\ SUBSET {} = {{}}
  BY FS_EmptySet
<1>2. Cardinality(SUBSET {}) = 2^0
  BY <1>1, FS_SUBSET
<1> QED
  BY <1>1, <1>2, FS_Singleton

-----------------------------------------------------------------------------
(* Demand *)

\* The demand of a child is a number of cells it may have.
LEMMA DemandType ==
  ASSUME NEW p \in Nat \ {0}
  PROVE  Demand(p) \in 0 .. MaxCells
<1>1. Weight * Scale \in Nat
  OBVIOUS
<1>2. (Weight * Scale) \div p \in Int
  BY <1>1
<1> QED
  BY <1>2 DEF Demand

\* The demand of several children is a natural number.
LEMMA TotalType ==
  ASSUME NEW n \in Nat, NEW p \in Nat \ {0}
  PROVE  Total(n, p) \in Nat
<1>1. Demand(p) \in Nat
  BY DemandType
<1> QED
  BY <1>1 DEF Total

LEMMA TotalFalls ==
  ASSUME NEW n \in Nat, NEW p \in Nat \ {0}, NEW r \in Nat \ {0}, p <= r
  PROVE  Total(n, r) <= Total(n, p)
<1>1. Demand(r) \in Nat /\ Demand(p) \in Nat /\ Demand(r) <= Demand(p)
  BY DemandType, DemandFalls
<1>2. Demand(r) * n <= Demand(p) * n
  BY <1>1, ProductMonotone
<1> QED
  BY <1>1, <1>2 DEF Total

\* The middle of an interval of positive prices lies in it.
LEMMA MiddleInside ==
  ASSUME NEW i \in [lo : Nat \ {0}, hi : Nat \ {0}], i.lo <= i.hi
  PROVE  /\ Middle(i) \in Nat \ {0}
         /\ i.lo <= Middle(i) /\ Middle(i) <= i.hi
BY DEF Middle

\* At the first upper end no child demands a cell: it is so high that one cell
\* costs all that all children may weigh.
LEMMA FirstUpperEnd ==
  ASSUME NEW n \in Nat \ {0}
  PROVE  /\ n * Weight * Scale \in Nat \ {0}
         /\ Demand(n * Weight * Scale) = 0
<1> DEFINE x == Weight * Scale
           y == n * Weight * Scale
           q == x \div y
<1>1. x \in Nat \ {0}
  OBVIOUS
<1>2. y = n * x /\ y \in Nat \ {0} /\ x <= y
  OBVIOUS
<1>3. q \in Nat /\ q * y <= x
  BY <1>1, <1>2
<1>4. q <= 1
  BY <1>1, <1>2, <1>3
<1> QED
  BY <1>2, <1>3, <1>4 DEF Demand

Inv == TypeOK /\ Bracketed

LEMMA InitInv == Init => Inv
<1> SUFFICES ASSUME Init PROVE Inv
  OBVIOUS
<1>1. children \in Nat \ {0} /\ interval = [lo |-> 1, hi |-> children * Weight * Scale]
  BY DEF Init, FirstInterval
<1>2. interval.hi \in Nat \ {0} /\ Demand(interval.hi) = 0
  BY <1>1, FirstUpperEnd
<1>3. Total(children, interval.hi) = 0
  BY <1>1, <1>2 DEF Total
<1>4. Bracketed
  BY <1>1, <1>2, <1>3 DEF Init, Bracketed
<1> QED
  BY <1>1, <1>2, <1>4 DEF Init, Inv, TypeOK

LEMMA IterateInv ==
  ASSUME Inv, Iterate
  PROVE  Inv'
<1> DEFINE m == Middle(interval)
<1>1. interval \in [lo : Nat \ {0}, hi : Nat \ {0}] /\ interval.lo <= interval.hi
  BY DEF Inv, TypeOK, Bracketed
<1>2. m \in Nat \ {0} /\ interval.lo <= m /\ m <= interval.hi
  BY <1>1, MiddleInside
<1>3. Total(children, m) \in Nat /\ budget \in Nat
  BY <1>2, TotalType DEF Inv, TypeOK
<1>4. UNCHANGED <<children, budget, quota>> /\ iter' \in 0 .. Iterations
  BY DEF Iterate, Inv, TypeOK
<1>5. CASE Total(children, m) > budget
  <2>1. interval' = [interval EXCEPT !.lo = m]
    BY <1>5 DEF Iterate, Narrow
  <2>2. interval'.lo = m /\ interval'.hi = interval.hi
    BY <1>1, <2>1
  <2> QED
    BY <1>1, <1>2, <1>4, <1>5, <2>1, <2>2 DEF Inv, TypeOK, Bracketed
<1>6. CASE ~(Total(children, m) > budget)
  <2>1. interval' = [interval EXCEPT !.hi = m]
    BY <1>6 DEF Iterate, Narrow
  <2>2. interval'.lo = interval.lo /\ interval'.hi = m
    BY <1>1, <2>1
  <2>3. Total(children, m) <= budget
    BY <1>3, <1>6
  <2> QED
    BY <1>1, <1>2, <1>4, <2>1, <2>2, <2>3 DEF Inv, TypeOK, Bracketed
<1> QED
  BY <1>5, <1>6

LEMMA SetQuotaInv ==
  ASSUME Inv, SetQuota
  PROVE  Inv'
<1>1. Middle(interval) \in Nat \ {0}
  BY MiddleInside DEF Inv, TypeOK, Bracketed
<1>2. quota' \in 0 .. MaxCells
  BY <1>1, DemandType DEF SetQuota
<1> QED
  BY <1>2 DEF SetQuota, Inv, TypeOK, Bracketed

THEOREM InductiveInvariant == Spec => []Inv
<1>1. Inv /\ [Next]_vars => Inv'
  <2>1. CASE UNCHANGED vars
    BY <2>1 DEF vars, Inv, TypeOK, Bracketed
  <2> QED
    BY <2>1, IterateInv, SetQuotaInv DEF Next
<1> QED
  BY InitInv, <1>1, PTL DEF Spec

\* Prices stay positive, so that no iteration divides by zero, and quotas stay within
\* their limit.
THEOREM TypeCorrect == Spec => []TypeOK
<1>1. Inv => TypeOK
  BY DEF Inv
<1> QED
  BY InductiveInvariant, <1>1, PTL

\* At every iteration the upper end is a price that the budget covers, and the
\* lower end one that it does not, unless it never moved.
THEOREM AlwaysBracketed == Spec => []Bracketed
<1>1. Inv => Bracketed
  BY DEF Inv
<1> QED
  BY InductiveInvariant, <1>1, PTL

-----------------------------------------------------------------------------
(* The end of the search.  Each iteration halves the interval, so enough   *)
(* of them leave two neighboring prices; as the demand falls with the      *)
(* price, what holds of the lower one holds of all below.                  *)

\* The first interval has at most 2^Iterations prices.
EnoughIterations == MaxChildren * Weight * Scale <= 2^Iterations

\* Where a child demands less than its limit, a step of the price changes its
\* demand by at most one cell.
FineSteps == (MaxCells + 1) * (MaxCells + 1) <= Weight * Scale

\* The interval shrinks with the iterations, and strictly more if its lower end
\* was never evaluated.
SearchInv ==
  /\ interval.hi - interval.lo <= 2^(Iterations - iter)
  /\ Total(children, interval.lo) <= budget =>
       interval.hi - interval.lo < 2^(Iterations - iter)
  /\ quota # NoQuota => iter = Iterations /\ quota = Demand(Middle(interval))

LEMMA SearchInit ==
  ASSUME EnoughIterations, Init
  PROVE  SearchInv
<1>1. children \in Nat \ {0} /\ children <= MaxChildren
      /\ interval.lo = 1 /\ interval.hi = children * Weight * Scale
  BY DEF Init, FirstInterval
<1>2. 2^(Iterations - iter) = 2^Iterations /\ 2^Iterations \in Nat
  BY PowerOfTwo DEF Init
<1>3. children * Weight * Scale <= MaxChildren * Weight * Scale
      /\ children * Weight * Scale \in Nat /\ MaxChildren * Weight * Scale \in Nat
  <2> DEFINE c == Weight * Scale
  <2>1. c \in Nat
    OBVIOUS
  <2>2. children * c <= MaxChildren * c
    BY <1>1, <2>1, ProductMonotone
  <2>3. children * Weight * Scale = children * c /\ MaxChildren * Weight * Scale = MaxChildren * c
    BY <1>1
  <2> QED
    BY <1>1, <2>1, <2>2, <2>3
<1>4. interval.hi - interval.lo < 2^Iterations
  BY <1>1, <1>2, <1>3 DEF EnoughIterations
<1> QED
  BY <1>1, <1>2, <1>3, <1>4 DEF SearchInv, Init

LEMMA SearchIterate ==
  ASSUME Inv, SearchInv, Iterate
  PROVE  SearchInv'
<1> DEFINE m == Middle(interval)
           lo == interval.lo
           hi == interval.hi
           P == 2^(Iterations - iter')
<1>1. /\ interval \in [lo : Nat \ {0}, hi : Nat \ {0}] /\ lo <= hi
      /\ iter \in Nat /\ iter < Iterations /\ iter' = iter + 1
      /\ UNCHANGED <<children, budget, quota>>
  BY DEF Inv, TypeOK, Bracketed, Iterate
<1>2. P \in Nat \ {0} /\ 2^(Iterations - iter) = 2 * P
  <2>1. Iterations - iter' \in Nat /\ Iterations - iter = (Iterations - iter') + 1
    BY <1>1
  <2> QED
    BY <2>1, PowerOfTwo
<1>3. quota = NoQuota
  BY <1>1 DEF SearchInv
<1>4. m = (lo + hi) \div 2 /\ m \in Nat \ {0} /\ lo <= m /\ m <= hi
  BY <1>1 DEF Middle
<1>5. /\ hi - lo <= 2 * P
      /\ Total(children, lo) <= budget => hi - lo < 2 * P
  BY <1>2 DEF SearchInv
<1>6. Total(children, m) \in Nat /\ budget \in Nat
  BY <1>4, TotalType DEF Inv, TypeOK
<1> HIDE DEF P
<1>7. CASE Total(children, m) > budget
  <2>1. interval' = [interval EXCEPT !.lo = m]
    BY <1>7 DEF Iterate, Narrow
  <2>2. interval'.lo = m /\ interval'.hi = hi
    BY <1>1, <2>1
  <2>3. hi - m <= P
    BY <1>1, <1>2, <1>4, <1>5
  <2>4. ~(Total(children, m) <= budget)
    BY <1>6, <1>7
  <2> QED
    BY <1>1, <1>3, <2>2, <2>3, <2>4 DEF SearchInv, P
<1>8. CASE ~(Total(children, m) > budget)
  <2>1. interval' = [interval EXCEPT !.hi = m]
    BY <1>8 DEF Iterate, Narrow
  <2>2. interval'.lo = lo /\ interval'.hi = m
    BY <1>1, <2>1
  <2>3. m - lo <= P
    BY <1>1, <1>2, <1>4, <1>5
  <2>4. Total(children, lo) <= budget => m - lo < P
    BY <1>1, <1>2, <1>4, <1>5
  <2> QED
    BY <1>1, <1>3, <2>2, <2>3, <2>4 DEF SearchInv, P
<1> QED
  BY <1>7, <1>8

\* With enough iterations the interval shrinks to two neighboring prices.
THEOREM SearchShrinks == ASSUME EnoughIterations PROVE Spec => []SearchInv
<1>1. Init => SearchInv
  BY SearchInit
<1>2. Inv /\ SearchInv /\ [Next]_vars => SearchInv'
  <2>1. ASSUME Inv, SearchInv, SetQuota PROVE SearchInv'
    BY <2>1 DEF SetQuota, SearchInv
  <2>2. ASSUME SearchInv, UNCHANGED vars PROVE SearchInv'
    BY <2>2 DEF vars, SearchInv
  <2> QED
    BY <2>1, <2>2, SearchIterate DEF Next
<1> QED
  BY InductiveInvariant, <1>1, <1>2, PTL DEF Spec

\* After the last iteration the ends are equal or next to each other, and in the second
\* case the lower one is too cheap.
LEMMA SearchEnds ==
  ASSUME Inv, SearchInv, iter = Iterations
  PROVE  \/ interval.hi = interval.lo
         \/ interval.hi = interval.lo + 1 /\ Total(children, interval.lo) > budget
<1>1. /\ interval \in [lo : Nat \ {0}, hi : Nat \ {0}] /\ interval.lo <= interval.hi
      /\ budget \in Nat /\ children \in Nat
  BY DEF Inv, TypeOK, Bracketed
<1>2. Total(children, interval.lo) \in Nat
  BY <1>1, TotalType
<1>3. 2^(Iterations - iter) = 1
  BY PowerOfZero
<1> QED
  BY <1>1, <1>2, <1>3 DEF SearchInv

\* The search ends at the least price that the budget covers.
THEOREM FindsLeastPrice == ASSUME EnoughIterations PROVE Spec => []LeastPriceFound
<1>1. Inv /\ SearchInv => LeastPriceFound
  <2> SUFFICES ASSUME Inv, SearchInv, iter = Iterations,
                      NEW p \in 1 .. interval.hi - 1
               PROVE  Total(children, p) > budget
    BY DEF LeastPriceFound
  <2>1. /\ interval.lo \in Nat \ {0} /\ interval.hi \in Nat \ {0}
        /\ budget \in Nat /\ children \in Nat
    BY DEF Inv, TypeOK
  <2>2. p \in Nat \ {0} /\ p <= interval.lo /\ Total(children, interval.lo) > budget
    BY <2>1, SearchEnds DEF Inv, Bracketed
  <2>3. Total(children, interval.lo) <= Total(children, p)
    BY <2>1, <2>2, TotalFalls
  <2>4. Total(children, p) \in Nat /\ Total(children, interval.lo) \in Nat
    BY <2>1, <2>2, TotalType
  <2> QED
    BY <2>1, <2>2, <2>3, <2>4
<1> QED
  BY InductiveInvariant, SearchShrinks, <1>1, PTL

\* Neighboring prices demand nearly the same: a demand below the limit means a price
\* at which one cell more is at least one step of the price away.
LEMMA NeighborPrices ==
  ASSUME FineSteps, NEW p \in Nat \ {0}
  PROVE  Demand(p) <= Demand(p + 1) + 1
<1> DEFINE x == Weight * Scale
           M == MaxCells + 1
           q == x \div p
           r == x \div (p + 1)
<1>1. x \in Nat /\ M \in Nat \ {0} /\ M * M <= x /\ p + 1 \in Nat \ {0}
  BY DEF FineSteps
<1>2. /\ q \in Nat /\ q * p <= x
      /\ r \in Nat /\ x < (r + 1) * (p + 1)
  BY <1>1, Quotient
<1>3. CASE p + 1 <= M
  <2>1. M * (p + 1) <= M * M
    BY <1>1, <1>3, ProductMonotone
  <2>2. M * (p + 1) <= x
    BY <1>1, <2>1
  <2>3. M <= r
    BY <1>1, <2>2, QuotientAtLeast
  <2>4. Demand(p + 1) = MaxCells
    BY <1>1, <1>2, <2>3 DEF Demand
  <2> QED
    BY <2>4, DemandType
<1>4. CASE M <= p
  <2>1. CASE M <= r
    <3>1. Demand(p + 1) = MaxCells
      BY <1>1, <1>2, <2>1 DEF Demand
    <3> QED
      BY <3>1, DemandType
  <2>2. CASE r + 1 <= M
    <3>1. q <= r + 1
      <4> HIDE DEF q, r, x, M
      <4>1. (r + 1) * (p + 1) = (r + 1) * p + (r + 1)
        BY <1>2
      <4>2. q * p < (r + 2) * p
        <5>1. (r + 2) * p = (r + 1) * p + p
          BY <1>2
        <5> QED
          BY <1>1, <1>2, <1>4, <2>2, <4>1, <5>1
      <4>3. q < r + 2
        BY <1>2, <4>2, ProductCancel
      <4> QED
        BY <1>2, <4>3
    <3> QED
      BY <1>1, <1>2, <3>1 DEF Demand
  <2> QED
    BY <1>1, <1>2, <2>1, <2>2
<1> QED
  BY <1>1, <1>3, <1>4

\* The quotas exceed the budget by at most one cell per child: the price that sets
\* them is at most one step below one that the budget covers.
THEOREM OvershootAtMostOne ==
  ASSUME EnoughIterations, FineSteps
  PROVE  Spec => []OvershootBounded
<1>1. Inv /\ SearchInv => OvershootBounded
  <2> SUFFICES ASSUME Inv, SearchInv, quota # NoQuota
               PROVE  children * quota <= budget + children
    BY DEF OvershootBounded
  <2> DEFINE lo == interval.lo
             hi == interval.hi
  <2>1. /\ lo \in Nat \ {0} /\ hi \in Nat \ {0} /\ lo <= hi
        /\ budget \in Nat /\ children \in Nat /\ Total(children, hi) <= budget
    BY DEF Inv, TypeOK, Bracketed
  <2>2. iter = Iterations /\ quota = Demand(Middle(interval))
    BY DEF SearchInv
  <2>3. hi = lo \/ hi = lo + 1
    BY <2>2, SearchEnds
  <2>4. Middle(interval) = lo
    BY <2>1, <2>3 DEF Middle
  <2>5. Demand(lo) \in Nat /\ Demand(hi) \in Nat /\ Demand(lo) <= Demand(hi) + 1
    <3>1. Demand(lo) \in Nat /\ Demand(hi) \in Nat
      BY <2>1, DemandType
    <3>2. CASE hi = lo
      BY <3>1, <3>2
    <3>3. CASE hi = lo + 1
      BY <2>1, <3>1, <3>3, NeighborPrices
    <3> QED
      BY <2>3, <3>1, <3>2, <3>3
  <2>6. Demand(lo) * children <= (Demand(hi) + 1) * children
    BY <2>1, <2>5, ProductMonotone
  <2>7. (Demand(hi) + 1) * children = Total(children, hi) + children
    BY <2>1, <2>5 DEF Total
  <2>8. Total(children, hi) \in Nat
    BY <2>1, TotalType
  <2> HIDE DEF lo, hi
  <2> QED
    BY <2>1, <2>2, <2>4, <2>5, <2>6, <2>7, <2>8
<1> QED
  BY InductiveInvariant, SearchShrinks, <1>1, PTL

-----------------------------------------------------------------------------
(* Induction over the natural numbers, from a fact of the library: the     *)
(* strict subset relation is well-founded on finite sets, such as 0 .. n.  *)

\* Every set of natural numbers that is not empty has a least element.
LEMMA LeastElement ==
  ASSUME NEW T \in SUBSET Nat, T # {}
  PROVE  \E x \in T : \A y \in T : x <= y
<1> DEFINE F == {0 .. n : n \in T}
<1>1. F # {}
  OBVIOUS
<1>2. F \subseteq FiniteSubsetsOf(Nat)
  <2>1. ASSUME NEW n \in T PROVE 0 .. n \in FiniteSubsetsOf(Nat)
    <3>1. n \in Nat /\ 0 \in Int /\ n \in Int
      OBVIOUS
    <3>2. IsFiniteSet(0 .. n)
      BY <3>1, FS_Interval
    <3> QED
      BY <3>1, <3>2 DEF FiniteSubsetsOf
  <2> QED
    BY <2>1
<1>3. IsWellFoundedOn(StrictSubsetOrdering(Nat), FiniteSubsetsOf(Nat))
  BY FS_StrictSubsetOrderingWellFounded
<1>4. PICK I \in F : \A J \in F : <<J, I>> \notin StrictSubsetOrdering(Nat)
  <2> HIDE DEF F
  <2> QED
    BY <1>1, <1>2, <1>3, WFMin
<1>5. PICK x \in T : I = 0 .. x
  OBVIOUS
<1>6. ASSUME NEW y \in T, y < x PROVE FALSE
  <2>1. 0 .. y \subseteq 0 .. x /\ 0 .. y # 0 .. x
    BY <1>6
  <2>2. 0 .. y \in SUBSET Nat /\ 0 .. x \in SUBSET Nat
    BY <1>6
  <2>3. <<0 .. y, 0 .. x>> \in StrictSubsetOrdering(Nat)
    BY <2>1, <2>2 DEF StrictSubsetOrdering
  <2> QED
    BY <1>4, <1>5, <2>3
<1> QED
  BY <1>6

\* A set with 0 and the successors of its numbers holds every number.
LEMMA Induction ==
  ASSUME NEW S, 0 \in S, \A n \in Nat : n \in S => n + 1 \in S
  PROVE  \A n \in Nat : n \in S
<1> SUFFICES ASSUME Nat \ S # {} PROVE FALSE
  OBVIOUS
<1>1. PICK x \in Nat \ S : \A y \in Nat \ S : x <= y
  BY LeastElement
<1>2. x # 0 /\ x - 1 \in Nat
  BY <1>1
<1>3. x - 1 \in S
  BY <1>1, <1>2
<1> QED
  BY <1>1, <1>2, <1>3

-----------------------------------------------------------------------------
(* The loop computes the operator Quota of EaseQuota, a recursive          *)
(* function over the iterations, which EaseNode uses.                      *)

\* The intervals of the search, as the recursive function of Quota.
Intervals(n, B) ==
  LET narrowed[k \in 0 .. Iterations] ==
        IF k = 0 THEN FirstInterval(n) ELSE Narrow(n, B, narrowed[k - 1])
  IN  narrowed

\* g is the recursive function as far as index k.
Unfolds(g, n, B, k) ==
  g = [i \in 0 .. k |-> IF i = 0 THEN FirstInterval(n) ELSE Narrow(n, B, g[i - 1])]

\* There is such a function: the first k values extend to the first k + 1.
LEMMA IntervalsUnfold ==
  ASSUME NEW n, NEW B
  PROVE  Unfolds(Intervals(n, B), n, B, Iterations)
<1> DEFINE S == {k \in Nat : \E g : Unfolds(g, n, B, k)}
<1>1. 0 \in S
  <2>1. Unfolds([i \in 0 .. 0 |-> FirstInterval(n)], n, B, 0)
    BY DEF Unfolds
  <2> QED
    BY <2>1
<1>2. ASSUME NEW k \in Nat, k \in S PROVE k + 1 \in S
  <2>1. PICK g : Unfolds(g, n, B, k)
    BY <1>2
  <2> DEFINE h == [i \in 0 .. k + 1 |-> IF i = k + 1 THEN Narrow(n, B, g[k]) ELSE g[i]]
  <2>2. ASSUME NEW i \in 0 .. k + 1
        PROVE  h[i] = IF i = 0 THEN FirstInterval(n) ELSE Narrow(n, B, h[i - 1])
    BY <2>1 DEF Unfolds
  <2>3. Unfolds(h, n, B, k + 1)
    BY <2>2 DEF Unfolds
  <2> QED
    BY <2>3
<1> HIDE DEF S
<1>3. Iterations \in S
  BY <1>1, <1>2, Induction
<1>4. PICK g : Unfolds(g, n, B, Iterations)
  BY <1>3 DEF S
<1> QED
  BY <1>4 DEF Intervals, Unfolds

\* The interval after iter iterations is the value of that function.
LoopInv ==
  /\ interval = Intervals(children, budget)[iter]
  /\ quota # NoQuota => quota = Quota(children, budget)

LEMMA LoopInit == Init => LoopInv
<1> SUFFICES ASSUME Init PROVE LoopInv
  OBVIOUS
<1>1. Intervals(children, budget)[0] = FirstInterval(children)
  BY IntervalsUnfold DEF Unfolds
<1> QED
  BY <1>1 DEF Init, LoopInv

LEMMA LoopStep ==
  ASSUME Inv, LoopInv, [Next]_vars
  PROVE  LoopInv'
<1> DEFINE f == Intervals(children, budget)
<1>1. CASE Iterate
  <2>1. /\ iter \in Nat /\ iter + 1 \in 1 .. Iterations /\ iter' = iter + 1
        /\ UNCHANGED <<children, budget, quota>>
    BY <1>1 DEF Iterate, Inv, TypeOK
  <2>2. f[iter + 1] = Narrow(children, budget, f[iter])
    <3>1. f = [k \in 0 .. Iterations |->
                 IF k = 0 THEN FirstInterval(children)
                 ELSE Narrow(children, budget, f[k - 1])]
      BY IntervalsUnfold DEF Unfolds
    <3>2. iter + 1 \in 0 .. Iterations /\ iter + 1 # 0 /\ (iter + 1) - 1 = iter
      BY <2>1
    <3> HIDE DEF f
    <3> QED
      BY <3>1, <3>2
  <2>3. interval' = Narrow(children, budget, interval)
    BY <1>1 DEF Iterate
  <2> QED
    BY <2>1, <2>2, <2>3 DEF LoopInv
<1>2. CASE SetQuota
  <2>1. interval = f[Iterations]
    BY <1>2 DEF SetQuota, LoopInv
  <2>2. Quota(children, budget) = Demand(Middle(f[Iterations]))
    BY DEF Quota, Intervals
  <2> QED
    BY <1>2, <2>1, <2>2 DEF SetQuota, LoopInv
<1>3. CASE UNCHANGED vars
  BY <1>3 DEF vars, LoopInv
<1> QED
  BY <1>1, <1>2, <1>3 DEF Next

\* What the loop leaves as the quota is Quota(children, budget).
THEOREM LoopComputesQuota ==
  Spec => [](quota # NoQuota => quota = Quota(children, budget))
<1>1. Inv /\ LoopInv /\ [Next]_vars => LoopInv'
  BY LoopStep
<1>2. LoopInv => (quota # NoQuota => quota = Quota(children, budget))
  BY DEF LoopInv
<1> QED
  BY InductiveInvariant, LoopInit, <1>1, <1>2, PTL DEF Spec
=============================================================================
