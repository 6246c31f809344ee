---------------------------- MODULE OrderLedger ----------------------------
(***************************************************************************)
(* What the order-service promises about one order, whatever its handlers  *)
(* interleave: where its status may go, and when its books go back to the  *)
(* shelf.  A borrower's cancellation takes a PENDING order to CANCELED and *)
(* earns one round of restocking (a release call for each of its books); a *)
(* return takes any order to RETURNED and earns one round.  A round that   *)
(* was earned is started once, or forfeited when its handler dies.  Nothing*)
(* else starts one.  A manager may set any status.                         *)
(***************************************************************************)
EXTENDS Naturals

CONSTANTS OrderIds, Statuses, Absent

VARIABLES
    status,     \* of each order
    earned,     \* rounds of restocking an order has earned and not yet started
    restocked   \* rounds of restocking that were started

vars == <<status, earned, restocked>>

Init ==
    /\ status = [o \in OrderIds |-> Absent]
    /\ earned = [o \in OrderIds |-> 0]
    /\ restocked = [o \in OrderIds |-> 0]

Place(o) ==
    /\ status[o] = Absent
    /\ status' = [status EXCEPT ![o] = "PENDING"]
    /\ UNCHANGED <<earned, restocked>>

Cancel(o) ==
    /\ status[o] = "PENDING"
    /\ status' = [status EXCEPT ![o] = "CANCELED"]
    /\ earned' = [earned EXCEPT ![o] = @ + 1]
    /\ UNCHANGED restocked

Return(o) ==
    /\ status[o] # Absent
    /\ status' = [status EXCEPT ![o] = "RETURNED"]
    /\ earned' = [earned EXCEPT ![o] = @ + 1]
    /\ UNCHANGED restocked

Decide(o, s) ==
    /\ status[o] # Absent
    /\ s # "RETURNED"
    /\ status' = [status EXCEPT ![o] = s]
    /\ UNCHANGED <<earned, restocked>>

Restock(o) ==
    /\ earned[o] > 0
    /\ earned' = [earned EXCEPT ![o] = @ - 1]
    /\ restocked' = [restocked EXCEPT ![o] = @ + 1]
    /\ UNCHANGED status

Forfeit(o) ==
    /\ earned[o] > 0
    /\ earned' = [earned EXCEPT ![o] = @ - 1]
    /\ UNCHANGED <<status, restocked>>

Next ==
    \E o \in OrderIds :
        \/ Place(o) \/ Cancel(o) \/ Return(o) \/ Restock(o) \/ Forfeit(o)
        \/ \E s \in Statuses : Decide(o, s)

Spec == Init /\ [][Next]_vars
=============================================================================
