------------------------- MODULE SpendScopeProofs --------------------------
(***************************************************************************)
(* Scopes leave the run budget as it is, and what the calls made under one *)
(* cost is bounded, for every number of scoped and unscoped callers.       *)
(***************************************************************************)
EXTENDS SpendScope, CostTrackerProofs

\* Every estimate the model knows came from the callers' set, and a caller the
\* scope has let through has not sent anything yet.
Offered ==
    /\ \A c \in Callers : est[c] \in Estimates \cup {0}
    /\ \A c \in Scoped : /\ cleared[c] \in Estimates \cup {0}
                         /\ cleared[c] > 0 => pc[c] = "idle"

\* The scope sees at least what its own calls have cost; before it exists none of
\* its callers is active.
OwnSeen ==
    /\ open => start <= total /\ own <= total - start
    /\ ~ open => own = 0 /\ \A c \in Scoped : pc[c] = "idle" /\ cleared[c] = 0

\* What each scoped caller has got past the scope and not paid yet.
Committed == [c \in Scoped |-> IF pc[c] \in {"reserved", "sending"} THEN est[c] ELSE cleared[c]]

\* What the scope's calls have cost plus what those it let through may still cost.
OwnExposed ==
    own + Total(Scoped, Committed) + Cardinality(Support(Scoped, Committed)) * Overrun
        <= ScopeUsd + (Cardinality(Scoped) - 1) * MaxEstimate + Cardinality(Scoped) * Overrun

\* The inductive invariant, above the tracker's own.  The bound on own alone is not
\* inductive: each of several callers past the test adds its cost to it.
ScopeInv ==
    /\ ScopeTypeOK
    /\ EstMatchesPc
    /\ Offered
    /\ OwnSeen
    /\ OwnExposed

\* The scoped callers are finitely many.
LEMMA ScopedFinite ==
    /\ IsFiniteSet(Scoped)
    /\ Scoped \subseteq Callers
    /\ Cardinality(Scoped) \in Nat
    /\ Overrun \in Nat
    /\ Cardinality(Scoped) * Overrun \in Nat
    /\ ScopeUsd \in Nat
    /\ MaxEstimate \in Nat
    /\ (Cardinality(Scoped) - 1) * MaxEstimate \in Nat
<1>1. IsFiniteSet(Scoped) /\ Scoped \subseteq Callers
  BY CostTrackerAssumption, SpendScopeAssumption, FS_Subset
<1>2. Cardinality(Scoped) \in Nat /\ Overrun \in Nat /\ ScopeUsd \in Nat /\ MaxEstimate \in Nat
  BY <1>1, CostTrackerAssumption, SpendScopeAssumption, FS_CardinalityType
<1>3. Cardinality(Scoped) * Overrun \in Nat
  BY <1>2, TimesOverrun
<1>4. (Cardinality(Scoped) - 1) * MaxEstimate \in Nat
  <2>1. PICK c \in Scoped : TRUE
    BY SpendScopeAssumption
  <2> DEFINE zero == [d \in Scoped |-> 0]
  <2>2. zero \in [Scoped -> Nat] /\ zero[c] = 0 /\ \A d \in Scoped : zero[d] <= MaxEstimate
    BY <1>2, <2>1
  <2> HIDE DEF zero
  <2> QED BY <1>1, <1>2, <2>1, <2>2, TotalBoundOthers
<1> QED BY <1>1, <1>2, <1>3, <1>4

\* The sums and the support of a function of amounts held by the scoped callers.
LEMMA ScopedAmounts ==
    ASSUME NEW f \in [Scoped -> Nat]
    PROVE  /\ Total(Scoped, f) \in Nat
           /\ Cardinality(Support(Scoped, f)) \in Nat
           /\ Cardinality(Support(Scoped, f)) * Overrun \in Nat
           /\ Cardinality(Support(Scoped, f)) * Overrun <= Cardinality(Scoped) * Overrun
BY ScopedFinite, TotalType, SupportType, TimesOverrun

\* What every use of the invariant needs to know of the amounts it speaks of.
LEMMA CommittedType ==
    ASSUME ScopeTypeOK, Offered
    PROVE  /\ Committed \in [Scoped -> Nat]
           /\ \A c \in Scoped : Committed[c] <= MaxEstimate
<1>1. \A e \in Estimates \cup {0} : e \in Nat /\ e <= MaxEstimate
  BY CostTrackerAssumption, SpendScopeAssumption
<1>2. \A c \in Scoped : Committed[c] \in Estimates \cup {0}
  BY ScopedFinite DEF Offered, Committed
<1> QED BY <1>1, <1>2 DEF Committed

\* When a positive commitment is cleared, its amount and one overrun go with it.
LEMMA CommitmentCleared ==
    ASSUME NEW f \in [Scoped -> Nat], NEW g \in [Scoped -> Nat], NEW c \in Scoped,
           f[c] > 0, g[c] = 0, \A d \in Scoped \ {c} : g[d] = f[d]
    PROVE  Total(Scoped, g) + Cardinality(Support(Scoped, g)) * Overrun
             = Total(Scoped, f) + Cardinality(Support(Scoped, f)) * Overrun - f[c] - Overrun
<1>1. Total(Scoped, g) = Total(Scoped, f) - f[c] + g[c]
  BY ScopedFinite, TotalUpdate
<1>2. Cardinality(Support(Scoped, g)) = Cardinality(Support(Scoped, f)) - 1
  BY ScopedFinite, SupportClear
<1>3. /\ Cardinality(Support(Scoped, f)) \in Nat
      /\ Cardinality(Support(Scoped, g)) \in Nat
      /\ Total(Scoped, f) \in Nat
      /\ Cardinality(Support(Scoped, f)) * Overrun \in Nat
  BY ScopedAmounts
<1>4. Cardinality(Support(Scoped, f)) > 0
  BY <1>2, <1>3
<1>5. Cardinality(Support(Scoped, g)) * Overrun
        = Cardinality(Support(Scoped, f)) * Overrun - Overrun
  BY <1>2, <1>3, <1>4, TimesOverrun
<1> QED BY <1>1, <1>3, <1>5, ScopedFinite

\* Initially the scope is not open and nothing is committed.
LEMMA ScopeInitEstablishes == ScopeInit => ScopeInv
<1> SUFFICES ASSUME ScopeInit
             PROVE  ScopeInv
  OBVIOUS
<1>1. ScopeTypeOK /\ EstMatchesPc /\ Offered /\ OwnSeen
  BY ScopedFinite DEF ScopeInit, Init, ScopeTypeOK, TypeOK, Steps, EstMatchesPc, Offered, OwnSeen
<1>2. Committed = [c \in Scoped |-> 0] /\ own = 0
  BY ScopedFinite DEF ScopeInit, Init, Committed
<1>3. Total(Scoped, Committed) = 0 /\ Committed \in [Scoped -> Nat]
  BY <1>2, TotalZero
<1>4. OwnExposed
  BY <1>2, <1>3, ScopedAmounts, ScopedFinite DEF OwnExposed
<1> QED BY <1>1, <1>4 DEF ScopeInv

\* Every step of the scoped system is a step of the tracker or leaves it unchanged.
LEMMA ScopeStepIsTrackerStep == ScopeInv /\ [ScopeNext]_allVars => [Next]_vars
<1> SUFFICES ASSUME ScopeInv, [ScopeNext]_allVars
             PROVE  Next \/ UNCHANGED vars
  OBVIOUS
<1>1. ASSUME Open
      PROVE  UNCHANGED vars
  BY <1>1 DEF Open, vars
<1>2. ASSUME NEW c \in Scoped, NEW e \in Estimates, ScopeCheck(c, e) \/ ScopeRefuse(c, e)
      PROVE  UNCHANGED vars
  BY <1>2 DEF ScopeCheck, ScopeRefuse, allVars, vars
<1>3. ASSUME NEW c \in Scoped, ConverseReserve(c)
      PROVE  Next
  <2>1. cleared[c] \in Estimates /\ c \in Callers
    BY <1>3, ScopedFinite DEF ScopeInv, Offered, ConverseReserve
  <2> QED BY <1>3, <2>1 DEF ConverseReserve, Next
<1>4. ASSUME NEW c \in Callers, Return(c)
      PROVE  Next
  BY <1>4 DEF Return, Next
<1>5. ASSUME NEW c \in Callers, NEW e \in Estimates, Unscoped(c, e)
      PROVE  Next
  BY <1>5 DEF Unscoped, Next
<1>6. ASSUME UNCHANGED allVars
      PROVE  UNCHANGED vars
  BY <1>6 DEF allVars, vars
<1> QED BY <1>1, <1>2, <1>3, <1>4, <1>5, <1>6 DEF ScopeNext

\* Opening the scope: from here on it sees everything that is recorded.
LEMMA OpenKeeps ==
    ASSUME ScopeInv, Open
    PROVE  ScopeInv'
<1>1. total \in Nat
  BY DEF ScopeInv, ScopeTypeOK, TypeOK
<1>2. ScopeTypeOK' /\ EstMatchesPc' /\ Offered' /\ OwnSeen'
  BY <1>1 DEF ScopeInv, Open, ScopeTypeOK, TypeOK, Steps, EstMatchesPc, Offered, OwnSeen
<1>3. Committed' = Committed /\ own' = own
  BY DEF Open, Committed
<1>4. OwnExposed'
  BY <1>3 DEF ScopeInv, OwnExposed
<1> QED BY <1>2, <1>4 DEF ScopeInv

\* A caller passes the test: what the scope's calls have cost leaves room for its
\* estimate, and of the others at worst each has one estimate outstanding.
LEMMA ScopeCheckKeeps ==
    ASSUME ScopeInv, NEW c \in Scoped, NEW e \in Estimates, ScopeCheck(c, e)
    PROVE  ScopeInv'
<1>1. /\ ScopeTypeOK /\ EstMatchesPc /\ Offered /\ OwnSeen
      /\ total \in Nat /\ start \in Nat /\ own \in Nat
  BY DEF ScopeInv, ScopeTypeOK, TypeOK
<1>2. e \in Nat /\ e <= MaxEstimate
  BY CostTrackerAssumption, SpendScopeAssumption
<1>3. ScopeTypeOK' /\ EstMatchesPc' /\ Offered' /\ OwnSeen'
  BY <1>1, <1>2 DEF ScopeCheck, ScopeTypeOK, TypeOK, Steps, EstMatchesPc, Offered, OwnSeen
<1>4. own + e <= ScopeUsd /\ own' = own
  BY <1>1, <1>2, ScopedFinite DEF ScopeCheck, Spent, OwnSeen
<1>5. /\ Committed \in [Scoped -> Nat]
      /\ Committed' \in [Scoped -> Nat]
      /\ \A d \in Scoped : Committed[d] <= MaxEstimate
  <2>1. Committed \in [Scoped -> Nat] /\ \A d \in Scoped : Committed[d] <= MaxEstimate
    BY <1>1, CommittedType
  <2>2. Committed' \in [Scoped -> Nat]
    BY <1>3, ScopedFinite DEF ScopeTypeOK, TypeOK, Committed
  <2> QED BY <2>1, <2>2
<1>6. /\ Committed[c] = 0
      /\ Committed'[c] = e
      /\ \A d \in Scoped \ {c} : Committed'[d] = Committed[d]
  BY <1>1 DEF ScopeCheck, Committed, ScopeTypeOK
<1>7. Total(Scoped, Committed) <= (Cardinality(Scoped) - 1) * MaxEstimate
  BY <1>5, <1>6, ScopedFinite, TotalBoundOthers
<1>8. Total(Scoped, Committed') = Total(Scoped, Committed) - 0 + e
  BY <1>5, <1>6, ScopedFinite, TotalUpdate
<1>9. OwnExposed'
  <2>1. /\ Total(Scoped, Committed) \in Nat
        /\ Cardinality(Support(Scoped, Committed')) * Overrun \in Nat
        /\ Cardinality(Support(Scoped, Committed')) * Overrun <= Cardinality(Scoped) * Overrun
    BY <1>5, ScopedAmounts
  <2> QED BY <1>1, <1>2, <1>4, <1>7, <1>8, <2>1, ScopedFinite DEF OwnExposed
<1> QED BY <1>3, <1>9 DEF ScopeInv

\* A reservation turns what c was cleared for into what it has in flight; a refusal
\* by the run budget gives it up.
LEMMA ConverseReserveKeeps ==
    ASSUME ScopeInv, NEW c \in Scoped, ConverseReserve(c)
    PROVE  ScopeInv'
<1>1. /\ ScopeTypeOK /\ EstMatchesPc /\ Offered /\ OwnSeen /\ OwnExposed
      /\ own \in Nat /\ cleared[c] \in Estimates /\ cleared[c] \in Nat /\ cleared[c] > 0
      /\ c \in Callers /\ pc[c] = "idle"
  BY ScopedFinite, CostTrackerAssumption
     DEF ScopeInv, ScopeTypeOK, ConverseReserve, Offered
<1>2. /\ own' = own /\ open' = open /\ start' = start /\ total' = total
      /\ cleared' = [cleared EXCEPT ![c] = 0]
  BY DEF ConverseReserve, Reserve, Refuse, vars
<1>3. CASE Reserve(c, cleared[c])
  <2>1. ScopeTypeOK' /\ EstMatchesPc' /\ Offered' /\ OwnSeen'
    BY <1>1, <1>2, <1>3, ScopedFinite, CostTrackerAssumption
       DEF Reserve, ScopeTypeOK, TypeOK, Steps, EstMatchesPc, Offered, OwnSeen
  <2>2. Committed' = Committed
    BY <1>1, <1>2, <1>3, ScopedFinite DEF Reserve, Committed, ScopeTypeOK, TypeOK
  <2>3. OwnExposed'
    BY <1>1, <1>2, <2>2 DEF OwnExposed
  <2> QED BY <2>1, <2>3 DEF ScopeInv
<1>4. CASE Refuse(c, cleared[c])
  <2>1. UNCHANGED <<total, reserved, pc, est>>
    BY <1>4 DEF Refuse, vars
  <2>2. ScopeTypeOK' /\ EstMatchesPc' /\ Offered' /\ OwnSeen'
    BY <1>1, <1>2, <2>1, ScopedFinite
       DEF ScopeTypeOK, TypeOK, Steps, EstMatchesPc, Offered, OwnSeen
  <2>3. /\ Committed \in [Scoped -> Nat]
        /\ Committed' \in [Scoped -> Nat]
        /\ Committed[c] > 0
        /\ Committed'[c] = 0
        /\ \A d \in Scoped \ {c} : Committed'[d] = Committed[d]
    BY <1>1, <1>2, <2>1, <2>2, CommittedType, ScopedFinite
       DEF Committed, ScopeTypeOK, TypeOK
  <2>4. Total(Scoped, Committed') + Cardinality(Support(Scoped, Committed')) * Overrun
          = Total(Scoped, Committed) + Cardinality(Support(Scoped, Committed)) * Overrun
              - Committed[c] - Overrun
    BY <2>3, CommitmentCleared
  <2>5. OwnExposed'
    <3>1. /\ Total(Scoped, Committed) \in Nat /\ Total(Scoped, Committed') \in Nat
          /\ Cardinality(Support(Scoped, Committed)) * Overrun \in Nat
          /\ Cardinality(Support(Scoped, Committed')) * Overrun \in Nat
          /\ Committed[c] \in Nat
      BY <2>3, ScopedAmounts
    <3> QED BY <1>1, <1>2, <2>4, <3>1, ScopedFinite DEF OwnExposed
  <2> QED BY <2>2, <2>5 DEF ScopeInv
<1> QED BY <1>3, <1>4 DEF ConverseReserve

\* A call of an unscoped thread neither commits nor spends anything of the scope's.
LEMMA UnscopedKeeps ==
    ASSUME ScopeInv, NEW c \in Callers, NEW e \in Estimates, Unscoped(c, e)
    PROVE  ScopeInv'
<1>1. e \in Nat /\ e > 0
  BY CostTrackerAssumption
<1>2. ScopeTypeOK' /\ EstMatchesPc' /\ Offered' /\ OwnSeen'
  BY <1>1, ScopedFinite DEF ScopeInv, Unscoped, Reserve, Refuse, vars, scopeVars,
     ScopeTypeOK, TypeOK, Steps, EstMatchesPc, Offered, OwnSeen
<1>3. Committed' = Committed /\ own' = own
  BY ScopedFinite DEF ScopeInv, Unscoped, Reserve, Refuse, vars, scopeVars,
     ScopeTypeOK, TypeOK, Committed
<1>4. OwnExposed'
  BY <1>3 DEF ScopeInv, OwnExposed
<1> QED BY <1>2, <1>4 DEF ScopeInv

\* A scoped call that comes back: its cost was committed, up to one overrun.
LEMMA ReturnKeeps ==
    ASSUME ScopeInv, NEW c \in Callers, Return(c)
    PROVE  ScopeInv'
<1>1. /\ ScopeTypeOK /\ EstMatchesPc /\ Offered /\ OwnSeen /\ OwnExposed
      /\ own \in Nat /\ total \in Nat /\ start \in Nat /\ est[c] \in Nat /\ Overrun \in Nat
      /\ reserved \in Nat
  BY ScopedFinite DEF ScopeInv, ScopeTypeOK, TypeOK
<1>2. /\ open' = open /\ start' = start /\ cleared' = cleared
      /\ own' = IF c \in Scoped THEN own + (total' - total) ELSE own
  BY DEF Return
<1>3. \/ /\ pc[c] = "sending"
         /\ \E u \in 1..(est[c] + Overrun) :
              total' = total + u /\ own' = IF c \in Scoped THEN own + u ELSE own
         /\ est' = est /\ reserved' = reserved
         /\ \E s \in {"recorded", "raising"} : pc' = [pc EXCEPT ![c] = s]
      \/ /\ pc[c] = "reserved" /\ total' = total /\ own' = own
         /\ est' = est /\ reserved' = reserved
         /\ pc' = [pc EXCEPT ![c] = "sending"]
      \/ /\ pc[c] \notin {"idle", "reserved"} /\ total' = total /\ own' = own
         /\ pc' = [pc EXCEPT ![c] = "idle"]
         /\ est' = [est EXCEPT ![c] = 0]
         /\ reserved' = IF est[c] <= reserved THEN reserved - est[c] ELSE 0
  <2>1. ASSUME NEW u \in 1..(est[c] + Overrun), Record(c, u)
        PROVE  /\ pc[c] = "sending" /\ est' = est /\ reserved' = reserved
               /\ total' = total + u /\ own' = IF c \in Scoped THEN own + u ELSE own
               /\ \E s \in {"recorded", "raising"} : pc' = [pc EXCEPT ![c] = s]
    BY <1>1, <1>2, <2>1 DEF Record
  <2>2. ASSUME Release(c) \/ ApiError(c)
        PROVE  /\ pc[c] \notin {"idle", "reserved"} /\ total' = total /\ own' = own
               /\ pc' = [pc EXCEPT ![c] = "idle"]
               /\ est' = [est EXCEPT ![c] = 0]
               /\ reserved' = IF est[c] <= reserved THEN reserved - est[c] ELSE 0
    BY <1>1, <1>2, <2>2 DEF Release, ApiError, GiveBack
  <2>3. \/ \E u \in 1..(est[c] + Overrun) : Record(c, u)
        \/ Release(c) \/ ApiError(c) \/ Request(c)
    BY DEF Return, Step
  <2>4. CASE \E u \in 1..(est[c] + Overrun) : Record(c, u)
    BY <2>1, <2>4
  <2>5. CASE Request(c)
    BY <1>1, <1>2, <2>5 DEF Request
  <2> QED BY <2>2, <2>3, <2>4, <2>5
<1>4. /\ total' \in Nat /\ own' \in Nat /\ reserved' \in Nat
      /\ total' >= total
      /\ c \in Scoped => own' - own = total' - total
      /\ c \notin Scoped => own' = own
      /\ pc[c] # "idle"
  BY <1>1, <1>2, <1>3
<1>5. ScopeTypeOK' /\ EstMatchesPc' /\ Offered'
  <2>1. ScopeTypeOK'
    <3>1. pc' \in [Callers -> Steps]
      BY <1>1, <1>3 DEF ScopeTypeOK, TypeOK, Steps
    <3>2. est' \in [Callers -> Nat]
      BY <1>1, <1>3 DEF ScopeTypeOK, TypeOK
    <3> QED BY <1>1, <1>2, <1>4, <3>1, <3>2 DEF ScopeTypeOK, TypeOK
  <2>2. EstMatchesPc'
    BY <1>1, <1>3 DEF ScopeTypeOK, TypeOK, EstMatchesPc
  <2>3. Offered'
    BY <1>1, <1>2, <1>3, ScopedFinite DEF ScopeTypeOK, TypeOK, Offered
  <2> QED BY <2>1, <2>2, <2>3
<1>6. OwnSeen'
  <2>1. ASSUME open
        PROVE  start <= total' /\ own' <= total' - start
    <3>1. start <= total /\ own <= total - start
      BY <1>1, <2>1 DEF OwnSeen
    <3>2. PICK u \in Nat : total' = total + u /\ (own' = own + u \/ own' = own)
      <4>1. CASE total' = total /\ own' = own
        BY <1>1, <4>1
      <4>2. CASE \E u \in 1..(est[c] + Overrun) :
                   total' = total + u /\ own' = IF c \in Scoped THEN own + u ELSE own
        BY <1>1, <4>2
      <4> QED BY <1>3, <4>1, <4>2
    <3> QED BY <1>1, <3>1, <3>2
  <2>2. ASSUME ~ open
        PROVE  own' = 0 /\ \A d \in Scoped : pc'[d] = "idle" /\ cleared[d] = 0
    <3>1. c \notin Scoped /\ own = 0 /\ \A d \in Scoped : pc[d] = "idle" /\ cleared[d] = 0
      BY <1>1, <1>4, <2>2 DEF OwnSeen
    <3>2. \A d \in Scoped : pc'[d] = pc[d]
      BY <1>1, <1>3, <3>1, ScopedFinite DEF ScopeTypeOK, TypeOK
    <3> QED BY <1>4, <3>1, <3>2
  <2> QED BY <1>2, <2>1, <2>2 DEF OwnSeen
<1>7. CASE c \in Scoped /\ pc[c] = "sending"
  <2>1. /\ Committed \in [Scoped -> Nat]
        /\ Committed[c] = est[c]
        /\ est[c] > 0 /\ cleared[c] = 0
    BY <1>1, <1>7, CommittedType DEF Committed, EstMatchesPc, Offered, ScopeTypeOK
  <2>2. /\ Committed' \in [Scoped -> Nat]
        /\ Committed'[c] = 0
        /\ \A d \in Scoped \ {c} : Committed'[d] = Committed[d]
    BY <1>1, <1>2, <1>3, <1>7, <2>1, ScopedFinite DEF Committed, ScopeTypeOK, TypeOK
  <2>3. Total(Scoped, Committed') + Cardinality(Support(Scoped, Committed')) * Overrun
          = Total(Scoped, Committed) + Cardinality(Support(Scoped, Committed)) * Overrun
              - Committed[c] - Overrun
    BY <1>7, <2>1, <2>2, CommitmentCleared
  <2>4. /\ Total(Scoped, Committed) \in Nat /\ Total(Scoped, Committed') \in Nat
        /\ Cardinality(Support(Scoped, Committed)) * Overrun \in Nat
        /\ Cardinality(Support(Scoped, Committed')) * Overrun \in Nat
    BY <2>1, <2>2, ScopedAmounts
  <2>5. own' <= own + est[c] + Overrun
    BY <1>1, <1>3, <1>4, <1>7
  <2>6. OwnExposed'
    BY <1>1, <1>4, <2>1, <2>3, <2>4, <2>5, ScopedFinite DEF OwnExposed
  <2> QED BY <1>5, <1>6, <2>6 DEF ScopeInv
<1>8. CASE ~ (c \in Scoped /\ pc[c] = "sending")
  <2>1. Committed' = Committed
    BY <1>1, <1>2, <1>3, <1>8, ScopedFinite DEF Committed, ScopeTypeOK, TypeOK
  <2>2. own' = own
    BY <1>3, <1>4, <1>8
  <2>3. OwnExposed'
    BY <1>1, <2>1, <2>2 DEF OwnExposed
  <2> QED BY <1>5, <1>6, <2>3 DEF ScopeInv
<1> QED BY <1>7, <1>8

\* Every step of the scoped system keeps the invariant.
LEMMA ScopeNextKeeps == ScopeInv /\ [ScopeNext]_allVars => ScopeInv'
<1> SUFFICES ASSUME ScopeInv, [ScopeNext]_allVars
             PROVE  ScopeInv'
  OBVIOUS
<1>1. CASE Open
  BY <1>1, OpenKeeps
<1>2. ASSUME NEW c \in Scoped, NEW e \in Estimates, ScopeCheck(c, e)
      PROVE  ScopeInv'
  BY <1>2, ScopeCheckKeeps
<1>3. ASSUME UNCHANGED allVars
      PROVE  ScopeInv'
  BY <1>3 DEF allVars, ScopeInv, ScopeTypeOK, TypeOK, EstMatchesPc, Offered, OwnSeen,
     OwnExposed, Committed
<1>4. ASSUME NEW c \in Scoped, NEW e \in Estimates, ScopeRefuse(c, e)
      PROVE  ScopeInv'
  BY <1>3, <1>4 DEF ScopeRefuse
<1>5. ASSUME NEW c \in Scoped, ConverseReserve(c)
      PROVE  ScopeInv'
  BY <1>5, ConverseReserveKeeps
<1>6. ASSUME NEW c \in Callers, Return(c)
      PROVE  ScopeInv'
  BY <1>6, ReturnKeeps
<1>7. ASSUME NEW c \in Callers, NEW e \in Estimates, Unscoped(c, e)
      PROVE  ScopeInv'
  BY <1>7, UnscopedKeeps
<1> QED BY <1>1, <1>2, <1>3, <1>4, <1>5, <1>6, <1>7 DEF ScopeNext

\* The invariant holds in every reachable state of the scoped system.
LEMMA ScopeInductive == ScopeSpec => []ScopeInv
BY ScopeInitEstablishes, ScopeNextKeeps, PTL DEF ScopeSpec

\* Scopes and converse leave the tracker's behaviour as it is: whatever is proved of
\* the run budget holds beside them (costs.py:195-229, llm.py:391-398).
THEOREM ScopeImplementsTracker == ScopeSpec => ImplementsTracker
<1>1. ScopeInit => Init
  BY DEF ScopeInit
<1> QED BY <1>1, ScopeStepIsTrackerStep, ScopeInductive, PTL DEF ScopeSpec, ImplementsTracker

\* Every variable of the scoped system keeps its type.
THEOREM ScopeTypeCorrect == ScopeSpec => []ScopeTypeOK
<1>1. ScopeInv => ScopeTypeOK
  BY DEF ScopeInv
<1> QED BY <1>1, ScopeInductive, PTL

\* What the calls of a scope cost passes its budget by at most one estimate for each
\* other scoped caller and one overrun for each, for any number of callers: a scope
\* with a single caller keeps its budget but for an overrun (costs.py:222-229).
THEOREM ScopeBudgetHolds == ScopeSpec => []OwnSpendBounded
<1>1. ScopeInv => OwnSpendBounded
  <2> SUFFICES ASSUME ScopeInv
               PROVE  OwnSpendBounded
    OBVIOUS
  <2>1. Committed \in [Scoped -> Nat] /\ own \in Nat
    BY CommittedType DEF ScopeInv, ScopeTypeOK
  <2>2. /\ Total(Scoped, Committed) \in Nat
        /\ Cardinality(Support(Scoped, Committed)) * Overrun \in Nat
    BY <2>1, ScopedAmounts
  <2> QED BY <2>1, <2>2, ScopedFinite DEF ScopeInv, OwnExposed, OwnSpendBounded
<1> QED BY <1>1, ScopeInductive, PTL

\* The cap of the run holds beside any use of scopes.
THEOREM ScopedCapHolds == ScopeSpec => []SpendBounded
<1>1. IInv => SpendBounded
  BY InvariantBounds
<1> QED BY <1>1, ScopeImplementsTracker, Inductive, PTL DEF ImplementsTracker
=============================================================================
