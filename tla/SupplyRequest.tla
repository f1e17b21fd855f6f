---------------------------- MODULE SupplyRequest ----------------------------
(***************************************************************************)
(* What QuarterMaster promises: it asks for a depot only when it waits for *)
(* none, and from then on a depot is on its way until one the bot has not  *)
(* seen before begins; nothing else ends the wait.  Depots somebody else   *)
(* needs count as well.                                                    *)
(***************************************************************************)
CONSTANT Depot

VARIABLES
    asked,    \* QuarterMaster waits for a depot
    coming,   \* some depot is ordered and has not been announced yet
    seen      \* the depots that have been announced

Init == ~asked /\ ~coming /\ seen = {}

Ask == ~asked /\ asked' /\ coming' /\ UNCHANGED seen
Require == coming' /\ UNCHANGED <<asked, seen>>
Begin == /\ coming /\ coming' \in BOOLEAN
         /\ ~asked'
         /\ \E d \in Depot \ seen : seen' = seen \cup {d}

Next == Ask \/ Require \/ Begin

Spec == Init /\ [][Next]_<<asked, coming, seen>>
=============================================================================
