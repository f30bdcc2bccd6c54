------------------------------ MODULE ChipUse -------------------------------
(***************************************************************************)
(* What wl1271_ps_elp_wakeup and wl1271_ps_elp_sleep promise: one user of   *)
(* the chip at a time, who finds it awake and keeps it awake.               *)
(***************************************************************************)
CONSTANTS Users, NoUser
VARIABLES user, awake

Init == user = NoUser /\ awake = TRUE

Acquire(u) == user = NoUser /\ awake /\ user' = u /\ UNCHANGED awake
Release == user # NoUser /\ user' = NoUser /\ UNCHANGED awake
Doze == user = NoUser /\ awake' = FALSE /\ UNCHANGED user
Rouse == awake' = TRUE /\ UNCHANGED user

Next == (\E u \in Users : Acquire(u)) \/ Release \/ Doze \/ Rouse

Spec == Init /\ [][Next]_<<user, awake>>
=============================================================================
