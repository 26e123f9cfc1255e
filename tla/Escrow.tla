------------------------------- MODULE Escrow -------------------------------
(***************************************************************************)
(* What the run budget promises, without its lock, its counter of          *)
(* reservations or the moments between two critical sections: an account   *)
(* from which every caller sets aside the worst case of a call before the  *)
(* call, and which the call's true cost then replaces in one step.  The    *)
(* true cost may pass the amount set aside by at most Overrun.             *)
(***************************************************************************)
EXTENDS Naturals

CONSTANTS Callers,  \* the threads that may have a call in flight
          Limit,    \* what the account may commit
          Estimates, \* the worst cases a caller may ask for
          Overrun,  \* how far a true cost may pass its estimate
          Sum(_, _) \* Sum(S, f): the sum of f over the set S

VARIABLES spent,  \* settled so far
          hold    \* what each caller has set aside, 0 when it has no call in flight

vars == <<spent, hold>>

TypeOK == spent \in Nat /\ hold \in [Callers -> Nat]

Init == spent = 0 /\ hold = [c \in Callers |-> 0]

Grant(c, e) ==
    /\ hold[c] = 0
    /\ spent + Sum(Callers, hold) + e <= Limit
    /\ hold' = [hold EXCEPT ![c] = e]
    /\ UNCHANGED spent

Settle(c, u) ==
    /\ hold[c] > 0
    /\ spent' = spent + u
    /\ hold' = [hold EXCEPT ![c] = 0]

Cancel(c) ==
    /\ hold[c] > 0
    /\ hold' = [hold EXCEPT ![c] = 0]
    /\ UNCHANGED spent

Next == \E c \in Callers :
            \/ \E e \in Estimates : Grant(c, e)
            \/ \E u \in 0..(hold[c] + Overrun) : Settle(c, u)
            \/ Cancel(c)

Spec == Init /\ [][Next]_vars
=============================================================================
