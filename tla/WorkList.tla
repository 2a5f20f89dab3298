------------------------------ MODULE WorkList ------------------------------
(* What the work list promises the dispatcher: a list is one reading of the    *)
(* orders, it carries a time at or before that reading, it appears at once,    *)
(* and the times of the lists do not go back.                                  *)
EXTENDS Naturals

CONSTANTS NoReading, Readings
VARIABLES clock, orders, reading, list

WorkListInit ==
    /\ orders \in Readings
    /\ reading = NoReading
    /\ list \in [stamp : {0}, rows : Readings]

\* The TOS changes the orders, the clock goes on.
Change ==
    /\ orders' \in Readings /\ clock' >= clock
    /\ UNCHANGED <<reading, list>>

Read ==
    /\ \E s \in list.stamp..clock : reading' = [stamp |-> s, rows |-> orders]
    /\ UNCHANGED <<clock, orders, list>>

Land ==
    /\ reading # NoReading
    /\ list' = reading
    /\ UNCHANGED <<clock, orders, reading>>

\* The reading is used up or given up.
Forget ==
    /\ reading' = NoReading
    /\ UNCHANGED <<clock, orders, list>>

WorkListNext == Change \/ Read \/ Land \/ Forget

WorkListSpec == WorkListInit /\ [][WorkListNext]_<<clock, orders, reading, list>>
=============================================================================
