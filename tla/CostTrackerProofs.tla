------------------------- MODULE CostTrackerProofs -------------------------
(***************************************************************************)
(* The run budget holds for every number of callers, every cap and every   *)
(* set of estimates, and the tracker implements the escrow account.  First *)
(* the facts about sums over a finite set that the budget proofs cite,     *)
(* from the cardinality of unions and products.                            *)
(***************************************************************************)
EXTENDS CostTracker, FiniteSetTheorems, TLAPS

\* The units of one member: as many as its value.
LEMMA RowSize ==
    ASSUME NEW x, NEW n \in Nat
    PROVE  /\ IsFiniteSet({x} \X (1..n))
           /\ Cardinality({x} \X (1..n)) = n
<1>1. IsFiniteSet(1..n) /\ Cardinality(1..n) = n
  BY FS_Interval
<1>2. IsFiniteSet({x}) /\ Cardinality({x}) = 1
  BY FS_Singleton
<1>3. /\ IsFiniteSet({x} \X (1..n))
      /\ Cardinality({x} \X (1..n)) = Cardinality({x}) * Cardinality(1..n)
  BY <1>1, <1>2, FS_Product
<1> QED BY <1>1, <1>2, <1>3

\* A sum of naturals over a finite set is a natural.
LEMMA TotalType ==
    ASSUME NEW S, IsFiniteSet(S), NEW f \in [S -> Nat]
    PROVE  /\ IsFiniteSet(Units(S, f))
           /\ Total(S, f) \in Nat
<1> DEFINE Rows == {{x} \X (1..f[x]) : x \in S}
           row == [x \in S |-> {x} \X (1..f[x])]
<1>1. row \in Surjection(S, Rows)
  BY DEF Surjection
<1>2. IsFiniteSet(Rows)
  BY <1>1, FS_Surjection
<1>3. ASSUME NEW x \in S
      PROVE  IsFiniteSet({x} \X (1..f[x]))
  <2>1. f[x] \in Nat
    OBVIOUS
  <2> QED BY <2>1, RowSize
<1>4. IsFiniteSet(UNION Rows)
  <2>1. \A R \in Rows : IsFiniteSet(R)
    BY <1>3
  <2> QED BY <1>2, <2>1, FS_UNION
<1> QED BY <1>4, FS_CardinalityType DEF Units, Total

\* Taking one member out takes its value out.
LEMMA TotalSplit ==
    ASSUME NEW S, IsFiniteSet(S), NEW f \in [S -> Nat], NEW y \in S
    PROVE  /\ IsFiniteSet(Units(S, f) \ ({y} \X (1..f[y])))
           /\ Total(S, f) = Cardinality(Units(S, f) \ ({y} \X (1..f[y]))) + f[y]
<1> DEFINE Row == {y} \X (1..f[y])
<1>1. IsFiniteSet(Units(S, f)) /\ Total(S, f) \in Nat
  BY TotalType
<1>2. Row \subseteq Units(S, f)
  BY DEF Units
<1>3. Units(S, f) \cap Row = Row
  BY <1>2
<1>4. Cardinality(Row) = f[y]
  BY RowSize
<1>5. /\ IsFiniteSet(Units(S, f) \ Row)
      /\ Cardinality(Units(S, f) \ Row)
            = Cardinality(Units(S, f)) - Cardinality(Units(S, f) \cap Row)
  BY <1>1, FS_Difference
<1>6. Cardinality(Units(S, f) \ Row) = Total(S, f) - f[y]
  BY <1>3, <1>4, <1>5 DEF Total
<1>7. f[y] \in Nat
  OBVIOUS
<1> HIDE DEF Row
<1>8. Total(S, f) = Cardinality(Units(S, f) \ Row) + f[y]
  BY <1>1, <1>6, <1>7
<1> QED BY <1>5, <1>8 DEF Row

\* Changing one value changes the sum by the difference.
LEMMA TotalUpdate ==
    ASSUME NEW S, IsFiniteSet(S), NEW f \in [S -> Nat], NEW g \in [S -> Nat], NEW y \in S,
           \A x \in S \ {y} : g[x] = f[x]
    PROVE  Total(S, g) = Total(S, f) - f[y] + g[y]
<1>1. Units(S, g) \ ({y} \X (1..g[y])) = Units(S, f) \ ({y} \X (1..f[y]))
  <2>1. ASSUME NEW h \in [S -> Nat]
        PROVE  Units(S, h) \ ({y} \X (1..h[y])) = UNION {{x} \X (1..h[x]) : x \in S \ {y}}
    BY DEF Units
  <2>2. {{x} \X (1..g[x]) : x \in S \ {y}} = {{x} \X (1..f[x]) : x \in S \ {y}}
    OBVIOUS
  <2> QED BY <2>1, <2>2
<1>2. Total(S, g) = Cardinality(Units(S, g) \ ({y} \X (1..g[y]))) + g[y]
  BY TotalSplit
<1>3. Total(S, f) = Cardinality(Units(S, f) \ ({y} \X (1..f[y]))) + f[y]
  BY TotalSplit
<1>4. /\ Cardinality(Units(S, f) \ ({y} \X (1..f[y]))) \in Nat
      /\ f[y] \in Nat /\ g[y] \in Nat
  BY TotalSplit, FS_CardinalityType
<1>5. Total(S, g) = Total(S, f) - f[y] + g[y]
  <2> DEFINE rest == Cardinality(Units(S, f) \ ({y} \X (1..f[y])))
  <2>1. Total(S, g) = rest + g[y] /\ Total(S, f) = rest + f[y]
    BY <1>1, <1>2, <1>3
  <2>2. rest \in Nat /\ f[y] \in Nat /\ g[y] \in Nat
    BY <1>4
  <2> HIDE DEF rest
  <2> QED BY <2>1, <2>2
<1> QED BY <1>5

\* The sum of zeros is zero.
LEMMA TotalZero ==
    ASSUME NEW S
    PROVE  Total(S, [x \in S |-> 0]) = 0
<1>1. Units(S, [x \in S |-> 0]) = {}
  BY DEF Units
<1> QED BY <1>1, FS_EmptySet DEF Total

\* A sum grows with its terms.
LEMMA TotalMonotone ==
    ASSUME NEW S, IsFiniteSet(S), NEW f \in [S -> Nat], NEW g \in [S -> Nat],
           \A x \in S : f[x] <= g[x]
    PROVE  Total(S, f) <= Total(S, g)
<1>1. Units(S, f) \subseteq Units(S, g)
  BY DEF Units
<1>2. IsFiniteSet(Units(S, g))
  BY TotalType
<1> QED BY <1>1, <1>2, FS_Subset DEF Total

\* A sum of terms that are at most k is at most k for every term.
LEMMA TotalBound ==
    ASSUME NEW S, IsFiniteSet(S), NEW f \in [S -> Nat], NEW k \in Nat,
           \A x \in S : f[x] <= k
    PROVE  Total(S, f) <= Cardinality(S) * k
<1>1. Units(S, f) \subseteq S \X (1..k)
  BY DEF Units
<1>2. IsFiniteSet(1..k) /\ Cardinality(1..k) = k
  BY FS_Interval
<1>3. /\ IsFiniteSet(S \X (1..k))
      /\ Cardinality(S \X (1..k)) = Cardinality(S) * k
  BY <1>2, FS_Product
<1> QED BY <1>1, <1>3, FS_Subset DEF Total

\* When one of the terms is zero, the others alone make up the sum.
LEMMA TotalBoundOthers ==
    ASSUME NEW S, IsFiniteSet(S), NEW f \in [S -> Nat], NEW k \in Nat, NEW y \in S,
           f[y] = 0, \A x \in S : f[x] <= k
    PROVE  /\ Total(S, f) <= (Cardinality(S) - 1) * k
           /\ (Cardinality(S) - 1) * k \in Nat
<1>1. Units(S, f) \subseteq (S \ {y}) \X (1..k)
  BY DEF Units
<1>2. IsFiniteSet(1..k) /\ Cardinality(1..k) = k
  BY FS_Interval
<1>3. IsFiniteSet(S \ {y}) /\ Cardinality(S \ {y}) = Cardinality(S) - 1
  BY FS_RemoveElement
<1>4. /\ IsFiniteSet((S \ {y}) \X (1..k))
      /\ Cardinality((S \ {y}) \X (1..k)) = (Cardinality(S) - 1) * k
  <2>1. /\ IsFiniteSet((S \ {y}) \X (1..k))
        /\ Cardinality((S \ {y}) \X (1..k)) = Cardinality(S \ {y}) * Cardinality(1..k)
    BY <1>2, <1>3, FS_Product
  <2> QED BY <1>2, <1>3, <2>1
<1>5. Total(S, f) <= (Cardinality(S) - 1) * k
  BY <1>1, <1>4, FS_Subset DEF Total
<1> QED BY <1>4, <1>5, FS_CardinalityType

\* A member of a sum is at most the sum.
LEMMA TotalAtLeast ==
    ASSUME NEW S, IsFiniteSet(S), NEW f \in [S -> Nat], NEW y \in S
    PROVE  f[y] <= Total(S, f)
<1>1. Cardinality(Units(S, f) \ ({y} \X (1..f[y]))) \in Nat
  BY TotalSplit, FS_CardinalityType
<1> QED BY <1>1, TotalSplit

\* The support is a subset of the domain, with at most as many members.
LEMMA SupportType ==
    ASSUME NEW S, IsFiniteSet(S), NEW f \in [S -> Nat]
    PROVE  /\ IsFiniteSet(Support(S, f))
           /\ Cardinality(Support(S, f)) \in Nat
           /\ Cardinality(S) \in Nat
           /\ Cardinality(Support(S, f)) <= Cardinality(S)
BY FS_Subset, FS_CardinalityType DEF Support

\* Setting a positive value to zero takes one member out of the support.
LEMMA SupportClear ==
    ASSUME NEW S, IsFiniteSet(S), NEW f \in [S -> Nat], NEW g \in [S -> Nat], NEW y \in S,
           f[y] > 0, g[y] = 0, \A x \in S \ {y} : g[x] = f[x]
    PROVE  Cardinality(Support(S, g)) = Cardinality(Support(S, f)) - 1
<1>1. Support(S, g) = Support(S, f) \ {y} /\ y \in Support(S, f)
  BY DEF Support
<1> QED BY <1>1, SupportType, FS_RemoveElement
-----------------------------------------------------------------------------

\* A caller holds an estimate exactly while it is inside a reserve block.
EstMatchesPc == \A c \in Callers : (pc[c] = "idle") <=> (est[c] = 0)

\* What is spent plus what calls in flight may still cost.
Exposed ==
    total + Total(Callers, InFlight) + Cardinality(Support(Callers, InFlight)) * Overrun
        <= MaxUsd + Cardinality(Callers) * Overrun

\* The inductive invariant: the counter of reservations is the sum it stands
\* for, and the exposure is bounded.  The bound on the total alone is not
\* inductive: a Record adds to it whatever was in flight.
IInv ==
    /\ TypeOK
    /\ EstMatchesPc
    /\ ReservationsExact
    /\ Exposed

\* Products with the overrun keep the order of their other factor.
LEMMA TimesOverrun ==
    ASSUME NEW a \in Nat, NEW b \in Nat
    PROVE  /\ a * Overrun \in Nat
           /\ a <= b => a * Overrun <= b * Overrun
           /\ a > 0 => (a - 1) * Overrun = a * Overrun - Overrun
<1>1. Overrun \in Nat
  BY CostTrackerAssumption
<1>2. \A k \in Nat : k * Overrun \in Nat
  BY <1>1
<1>3. ASSUME a <= b
      PROVE  a * Overrun <= b * Overrun
  <2>1. b - a \in Nat
    BY <1>3
  <2>2. b * Overrun = a * Overrun + (b - a) * Overrun
    BY <1>1, <2>1
  <2>3. (b - a) * Overrun \in Nat /\ a * Overrun \in Nat
    BY <1>2, <2>1
  <2> QED BY <2>2, <2>3
<1>4. a > 0 => (a - 1) * Overrun = a * Overrun - Overrun
  BY <1>1
<1> QED BY <1>2, <1>3, <1>4

\* The sums and the support of a function of amounts held by the callers.
LEMMA Amounts ==
    ASSUME NEW f \in [Callers -> Nat]
    PROVE  /\ Total(Callers, f) \in Nat
           /\ Cardinality(Support(Callers, f)) \in Nat
           /\ Cardinality(Callers) \in Nat
           /\ Cardinality(Support(Callers, f)) * Overrun \in Nat
           /\ Cardinality(Callers) * Overrun \in Nat
           /\ Cardinality(Support(Callers, f)) * Overrun <= Cardinality(Callers) * Overrun
BY CostTrackerAssumption, TotalType, SupportType, TimesOverrun

\* Initially nothing is spent, reserved or in flight.
LEMMA InitEstablishes == Init => IInv
<1> SUFFICES ASSUME Init
             PROVE  IInv
  OBVIOUS
<1>1. TypeOK /\ EstMatchesPc
  BY DEF Init, TypeOK, Steps, EstMatchesPc
<1>2. est = [c \in Callers |-> 0] /\ InFlight = [c \in Callers |-> 0]
  BY DEF Init, InFlight
<1>3. Total(Callers, est) = 0 /\ Total(Callers, InFlight) = 0
  BY <1>2, TotalZero
<1>4. ReservationsExact
  BY <1>3 DEF Init, ReservationsExact
<1>5. InFlight \in [Callers -> Nat] /\ total = 0 /\ MaxUsd \in Nat
  BY <1>2, CostTrackerAssumption DEF Init
<1>6. Exposed
  BY <1>3, <1>5, Amounts DEF Exposed
<1> QED BY <1>1, <1>4, <1>6 DEF IInv

\* A reservation is granted only when everything in flight and e fit the cap, so
\* at worst every caller then overruns.
LEMMA ReserveKeeps ==
    ASSUME IInv, NEW c \in Callers, NEW e \in Estimates, Reserve(c, e)
    PROVE  IInv'
<1>1. e \in Nat /\ e > 0 /\ MaxUsd \in Nat /\ IsFiniteSet(Callers)
  BY CostTrackerAssumption
<1>2. TypeOK /\ EstMatchesPc /\ ReservationsExact
  BY DEF IInv
<1>3. TypeOK' /\ EstMatchesPc'
  BY <1>1, <1>2 DEF Reserve, TypeOK, Steps, EstMatchesPc
<1>4. /\ est \in [Callers -> Nat]
      /\ est[c] = 0
      /\ est' = [est EXCEPT ![c] = e]
  BY <1>2 DEF Reserve, EstMatchesPc, TypeOK
<1>5. /\ Total(Callers, est') = Total(Callers, est) + e
      /\ Total(Callers, est) \in Nat
      /\ Total(Callers, est') \in Nat
  <2>1. Total(Callers, est') = Total(Callers, est) - est[c] + est'[c]
    <3>1. /\ est \in [Callers -> Nat]
          /\ est' \in [Callers -> Nat]
          /\ \A d \in Callers \ {c} : est'[d] = est[d]
      BY <1>1, <1>4
    <3> QED BY <1>1, <3>1, TotalUpdate
  <2>2. Total(Callers, est) \in Nat
    BY <1>4, Amounts
  <2> QED BY <1>1, <1>4, <2>1, <2>2
<1>6. ReservationsExact'
  BY <1>2, <1>5 DEF Reserve, ReservationsExact
<1>7. /\ InFlight' \in [Callers -> Nat]
      /\ Total(Callers, InFlight') <= Total(Callers, est')
  <2>1. /\ InFlight' \in [Callers -> Nat]
        /\ est' \in [Callers -> Nat]
        /\ \A d \in Callers : InFlight'[d] <= est'[d]
    BY <1>3 DEF TypeOK, InFlight
  <2> QED BY <1>1, <2>1, TotalMonotone
<1>8. total' + Total(Callers, est') <= MaxUsd /\ total' \in Nat
  BY <1>1, <1>2, <1>5 DEF Reserve, Fits, ReservationsExact, TypeOK
<1>9. Exposed'
  BY <1>1, <1>5, <1>7, <1>8, Amounts DEF Exposed
<1> QED BY <1>3, <1>6, <1>9 DEF IInv

\* A refused call leaves the money as it is.
LEMMA RefuseKeeps ==
    ASSUME IInv, NEW c \in Callers, NEW e \in Estimates, Refuse(c, e)
    PROVE  IInv'
<1>1. TypeOK' /\ EstMatchesPc' /\ ReservationsExact'
  BY DEF IInv, Refuse, vars, TypeOK, Steps, EstMatchesPc, ReservationsExact
<1>2. InFlight' = InFlight /\ total' = total
  BY DEF Refuse, vars, InFlight
<1>3. Exposed'
  BY <1>2 DEF IInv, Exposed
<1> QED BY <1>1, <1>3 DEF IInv

\* Sending the request leaves the money as it is.
LEMMA RequestKeeps ==
    ASSUME IInv, NEW c \in Callers, Request(c)
    PROVE  IInv'
<1>1. TypeOK' /\ EstMatchesPc' /\ ReservationsExact'
  BY DEF IInv, Request, TypeOK, Steps, EstMatchesPc, ReservationsExact
<1>2. InFlight' = InFlight /\ total' = total
  BY DEF IInv, Request, InFlight, TypeOK
<1>3. Exposed'
  BY <1>2 DEF IInv, Exposed
<1> QED BY <1>1, <1>3 DEF IInv

\* What leaves the calls in flight when c's call returns: its estimate and its
\* allowance of one overrun.
LEMMA CallReturns ==
    ASSUME TypeOK, EstMatchesPc, NEW c \in Callers, pc[c] = "sending",
           InFlight' \in [Callers -> Nat],
           InFlight'[c] = 0,
           \A d \in Callers \ {c} : InFlight'[d] = InFlight[d]
    PROVE  /\ Total(Callers, InFlight') = Total(Callers, InFlight) - est[c]
           /\ Cardinality(Support(Callers, InFlight')) * Overrun
                = Cardinality(Support(Callers, InFlight)) * Overrun - Overrun
           /\ InFlight \in [Callers -> Nat]
<1>1. IsFiniteSet(Callers)
  BY CostTrackerAssumption
<1>2. /\ InFlight \in [Callers -> Nat]
      /\ InFlight[c] = est[c]
      /\ est[c] \in Nat
      /\ est[c] > 0
  BY DEF TypeOK, EstMatchesPc, InFlight
<1>3. Total(Callers, InFlight) \in Nat
  BY <1>2, Amounts
<1>4. Total(Callers, InFlight') = Total(Callers, InFlight) - InFlight[c] + InFlight'[c]
  BY <1>1, <1>2, TotalUpdate
<1>5. /\ Cardinality(Support(Callers, InFlight'))
            = Cardinality(Support(Callers, InFlight)) - 1
      /\ Cardinality(Support(Callers, InFlight)) > 0
  <2>1. /\ Cardinality(Support(Callers, InFlight'))
            = Cardinality(Support(Callers, InFlight)) - 1
    BY <1>1, <1>2, SupportClear
  <2>2. /\ Cardinality(Support(Callers, InFlight)) \in Nat
        /\ Cardinality(Support(Callers, InFlight')) \in Nat
    BY <1>2, Amounts
  <2> QED BY <2>1, <2>2
<1>6. Cardinality(Support(Callers, InFlight)) \in Nat
  BY <1>2, Amounts
<1>7. Cardinality(Support(Callers, InFlight')) * Overrun
        = Cardinality(Support(Callers, InFlight)) * Overrun - Overrun
  BY <1>5, <1>6, TimesOverrun
<1>8. Total(Callers, InFlight') = Total(Callers, InFlight) - est[c]
  BY <1>2, <1>3, <1>4
<1> QED BY <1>2, <1>7, <1>8

\* A recorded cost replaces an estimate and one overrun that were exposed already.
LEMMA RecordKeeps ==
    ASSUME IInv, NEW c \in Callers, NEW u \in 1..(est[c] + Overrun), Record(c, u)
    PROVE  IInv'
<1>1. /\ TypeOK /\ EstMatchesPc /\ ReservationsExact /\ Exposed
      /\ Overrun \in Nat /\ MaxUsd \in Nat
  BY CostTrackerAssumption DEF IInv
<1>2. est[c] \in Nat /\ total \in Nat
  BY <1>1 DEF TypeOK
<1>3. u \in Nat /\ u <= est[c] + Overrun
  BY <1>1, <1>2
<1>4. total' = total + u /\ total' \in Nat /\ pc[c] = "sending"
  BY <1>2, <1>3 DEF Record
<1>5. TypeOK' /\ EstMatchesPc'
  BY <1>1, <1>4 DEF Record, TypeOK, Steps, EstMatchesPc
<1>6. ReservationsExact'
  BY <1>1 DEF Record, ReservationsExact
<1>7. /\ InFlight' \in [Callers -> Nat]
      /\ InFlight'[c] = 0
      /\ \A d \in Callers \ {c} : InFlight'[d] = InFlight[d]
  BY <1>1, <1>5 DEF Record, InFlight, TypeOK
<1>8. Exposed'
  <2>1. /\ Total(Callers, InFlight') = Total(Callers, InFlight) - est[c]
        /\ Cardinality(Support(Callers, InFlight')) * Overrun
             = Cardinality(Support(Callers, InFlight)) * Overrun - Overrun
        /\ InFlight \in [Callers -> Nat]
    BY <1>1, <1>4, <1>7, CallReturns
  <2>2. /\ Total(Callers, InFlight) \in Nat
        /\ Cardinality(Support(Callers, InFlight)) * Overrun \in Nat
        /\ Cardinality(Callers) * Overrun \in Nat
    BY <2>1, Amounts
  <2> QED BY <1>1, <1>2, <1>3, <1>4, <2>1, <2>2 DEF Exposed
<1> QED BY <1>5, <1>6, <1>8 DEF IInv

\* Giving c's reservation back takes exactly its estimate off the counter: the
\* max(..., 0) of the code is never needed.
LEMMA GiveBackExact ==
    ASSUME TypeOK, ReservationsExact, NEW c \in Callers, GiveBack(c)
    PROVE  ReservationsExact' /\ reserved' \in Nat
<1>1. IsFiniteSet(Callers) /\ est \in [Callers -> Nat] /\ est[c] \in Nat
  BY CostTrackerAssumption DEF TypeOK
<1>2. est[c] <= Total(Callers, est) /\ Total(Callers, est) \in Nat
  BY <1>1, TotalAtLeast, Amounts
<1>3. /\ Total(Callers, est') = Total(Callers, est) - est[c] + est'[c]
      /\ est'[c] = 0
  <2>1. /\ est' \in [Callers -> Nat]
        /\ est'[c] = 0
        /\ \A d \in Callers \ {c} : est'[d] = est[d]
    BY <1>1 DEF GiveBack
  <2> QED BY <1>1, <2>1, TotalUpdate
<1>4. reserved = Total(Callers, est)
  BY DEF ReservationsExact
<1>5. reserved' = reserved - est[c]
  BY <1>1, <1>2, <1>4 DEF GiveBack
<1>6. reserved' = Total(Callers, est') /\ reserved' \in Nat
  BY <1>1, <1>2, <1>3, <1>4, <1>5
<1> QED BY <1>6 DEF ReservationsExact

\* Leaving the reserve block after a record exposes nothing more.
LEMMA ReleaseKeeps ==
    ASSUME IInv, NEW c \in Callers, Release(c)
    PROVE  IInv'
<1>1. ReservationsExact' /\ reserved' \in Nat
  BY GiveBackExact DEF IInv, Release
<1>2. TypeOK' /\ EstMatchesPc'
  BY <1>1 DEF IInv, Release, GiveBack, TypeOK, Steps, EstMatchesPc
<1>3. InFlight' = InFlight /\ total' = total
  BY DEF IInv, Release, GiveBack, InFlight, TypeOK
<1>4. Exposed'
  BY <1>3 DEF IInv, Exposed
<1> QED BY <1>1, <1>2, <1>4 DEF IInv

\* A failed call takes its estimate and its overrun out of the exposure.
LEMMA ApiErrorKeeps ==
    ASSUME IInv, NEW c \in Callers, ApiError(c)
    PROVE  IInv'
<1>1. ReservationsExact' /\ reserved' \in Nat
  BY GiveBackExact DEF IInv, ApiError
<1>2. TypeOK' /\ EstMatchesPc'
  BY <1>1 DEF IInv, ApiError, GiveBack, TypeOK, Steps, EstMatchesPc
<1>3. /\ InFlight' \in [Callers -> Nat]
      /\ InFlight'[c] = 0
      /\ \A d \in Callers \ {c} : InFlight'[d] = InFlight[d]
      /\ total' = total
      /\ pc[c] = "sending"
  BY DEF IInv, ApiError, GiveBack, InFlight, TypeOK
<1>4. /\ TypeOK /\ EstMatchesPc /\ Exposed
      /\ est[c] \in Nat /\ total \in Nat /\ Overrun \in Nat /\ MaxUsd \in Nat
  BY CostTrackerAssumption DEF IInv, TypeOK
<1>5. Exposed'
  <2>1. /\ Total(Callers, InFlight') = Total(Callers, InFlight) - est[c]
        /\ Cardinality(Support(Callers, InFlight')) * Overrun
             = Cardinality(Support(Callers, InFlight)) * Overrun - Overrun
        /\ InFlight \in [Callers -> Nat]
    BY <1>3, <1>4, CallReturns
  <2>2. /\ Total(Callers, InFlight) \in Nat
        /\ Cardinality(Support(Callers, InFlight)) * Overrun \in Nat
        /\ Cardinality(Callers) * Overrun \in Nat
    BY <2>1, Amounts
  <2> QED BY <1>3, <1>4, <2>1, <2>2 DEF Exposed
<1> QED BY <1>1, <1>2, <1>5 DEF IInv

\* Every step keeps the inductive invariant.
LEMMA NextKeeps == IInv /\ [Next]_vars => IInv'
<1> SUFFICES ASSUME IInv, [Next]_vars
             PROVE  IInv'
  OBVIOUS
<1>1. ASSUME NEW c \in Callers, NEW e \in Estimates, Reserve(c, e)
      PROVE  IInv'
  BY <1>1, ReserveKeeps
<1>2. ASSUME NEW c \in Callers, NEW e \in Estimates, Refuse(c, e)
      PROVE  IInv'
  BY <1>2, RefuseKeeps
<1>3. ASSUME NEW c \in Callers, Step(c)
      PROVE  IInv'
  BY <1>3, RequestKeeps, RecordKeeps, ReleaseKeeps, ApiErrorKeeps DEF Step
<1>4. ASSUME UNCHANGED vars
      PROVE  IInv'
  BY <1>4 DEF vars, IInv, TypeOK, EstMatchesPc, ReservationsExact, Exposed, InFlight
<1> QED BY <1>1, <1>2, <1>3, <1>4 DEF Next

\* The inductive invariant holds in every reachable state.
LEMMA Inductive == Init /\ [][Next]_vars => []IInv
BY InitEstablishes, NextKeeps, PTL

\* Every variable keeps its type: in particular the counter of reservations stays
\* a natural number, without the help of max(..., 0) (costs.py:130).
THEOREM TypeCorrect == Spec => []TypeOK
<1>1. IInv => TypeOK
  BY DEF IInv
<1> QED BY <1>1, Inductive, PTL DEF Spec

\* The counter of reservations is always the sum of the estimates in flight
\* (costs.py:119-130).
THEOREM ReservationsCorrect == Spec => []ReservationsExact
<1>1. IInv => ReservationsExact
  BY DEF IInv
<1> QED BY <1>1, Inductive, PTL DEF Spec

\* What the invariant says of the exposure bounds the total.
LEMMA InvariantBounds == IInv => SpendBounded
<1> SUFFICES ASSUME IInv
             PROVE  SpendBounded
  OBVIOUS
<1>1. InFlight \in [Callers -> Nat] /\ total \in Nat /\ MaxUsd \in Nat
  BY CostTrackerAssumption DEF IInv, TypeOK, InFlight
<1> QED BY <1>1, Amounts DEF IInv, Exposed, SpendBounded

\* The recorded total passes the cap by at most one overrun per caller, for any
\* number of threads in any interleaving (costs.py:103-130).
THEOREM CapHolds == Spec => []SpendBounded
BY InvariantBounds, Inductive, PTL DEF Spec

\* Every step of the tracker is a step of the account or leaves it unchanged.
LEMMA StepRefines == IInv /\ [Next]_vars => [Account!Next]_(Account!vars)
<1> SUFFICES ASSUME IInv, [Next]_vars
             PROVE  Account!Next \/ UNCHANGED <<total, InFlight>>
  BY DEF Account!vars
<1>1. /\ TypeOK /\ EstMatchesPc /\ ReservationsExact
      /\ InFlight \in [Callers -> Nat]
      /\ IsFiniteSet(Callers)
  BY CostTrackerAssumption DEF IInv, TypeOK, InFlight
<1>2. ASSUME NEW c \in Callers, NEW e \in Estimates, Reserve(c, e)
      PROVE  Account!Grant(c, e)
  <2>1. Total(Callers, InFlight) <= Total(Callers, est)
    <3>1. est \in [Callers -> Nat] /\ \A d \in Callers : InFlight[d] <= est[d]
      BY <1>1 DEF TypeOK, InFlight
    <3> QED BY <1>1, <3>1, TotalMonotone
  <2>2. total + Total(Callers, InFlight) + e <= MaxUsd
    <3>1. total \in Nat /\ e \in Nat /\ MaxUsd \in Nat
      BY <1>1, CostTrackerAssumption DEF TypeOK
    <3>2. Total(Callers, InFlight) \in Nat /\ Total(Callers, est) \in Nat
      BY <1>1, Amounts DEF TypeOK
    <3>3. total + Total(Callers, est) + e <= MaxUsd
      BY <1>1, <1>2 DEF Reserve, Fits, ReservationsExact
    <3> QED BY <2>1, <3>1, <3>2, <3>3
  <2>3. InFlight[c] = 0 /\ InFlight' = [InFlight EXCEPT ![c] = e]
    BY <1>1, <1>2 DEF Reserve, InFlight, TypeOK
  <2>4. UNCHANGED total
    BY <1>2 DEF Reserve
  <2> QED BY <2>2, <2>3, <2>4 DEF Account!Grant
<1>3. ASSUME NEW c \in Callers, NEW u \in 1..(est[c] + Overrun), Record(c, u)
      PROVE  u \in 0..(InFlight[c] + Overrun) /\ Account!Settle(c, u)
  <2>1. /\ InFlight[c] = est[c]
        /\ est[c] \in Nat
        /\ est[c] > 0
        /\ Overrun \in Nat
    BY <1>1, <1>3, CostTrackerAssumption DEF Record, InFlight, TypeOK, EstMatchesPc
  <2>2. InFlight' = [InFlight EXCEPT ![c] = 0] /\ total' = total + u
    BY <1>1, <1>3 DEF Record, InFlight, TypeOK
  <2> QED BY <2>1, <2>2 DEF Account!Settle
<1>4. ASSUME NEW c \in Callers, Release(c)
      PROVE  UNCHANGED <<total, InFlight>>
  BY <1>1, <1>4 DEF Release, GiveBack, InFlight, TypeOK
<1>5. ASSUME NEW c \in Callers, ApiError(c)
      PROVE  Account!Cancel(c)
  <2>1. InFlight' = [InFlight EXCEPT ![c] = 0]
    BY <1>1, <1>5 DEF ApiError, GiveBack, InFlight, TypeOK
  <2>2. InFlight[c] > 0
    BY <1>1, <1>5 DEF ApiError, InFlight, TypeOK, EstMatchesPc
  <2>3. UNCHANGED total
    BY <1>5 DEF ApiError, GiveBack
  <2> QED BY <2>1, <2>2, <2>3 DEF Account!Cancel
<1>6. ASSUME NEW c \in Callers, NEW e \in Estimates, Refuse(c, e)
      PROVE  UNCHANGED <<total, InFlight>>
  BY <1>6 DEF Refuse, vars, InFlight
<1>7. ASSUME UNCHANGED vars
      PROVE  UNCHANGED <<total, InFlight>>
  BY <1>7 DEF vars, InFlight
<1>8. ASSUME NEW c \in Callers, Request(c)
      PROVE  UNCHANGED <<total, InFlight>>
  BY <1>1, <1>8 DEF Request, InFlight, TypeOK
<1> QED BY <1>2, <1>3, <1>4, <1>5, <1>6, <1>7, <1>8 DEF Next, Step, Account!Next

\* The tracker, with its lock, its counter and its finally clause, implements the
\* escrow account (costs.py:92-173, llm.py:313-342).
THEOREM TrackerImplementsEscrow == Spec => ImplementsEscrow
<1>1. Init => Account!Init
  BY DEF Init, Account!Init, InFlight
<1> QED BY <1>1, StepRefines, Inductive, PTL DEF Spec, ImplementsEscrow, Account!Spec
=============================================================================
