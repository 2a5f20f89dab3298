-------------------------------- MODULE MCTwin --------------------------------
(* One truck whose boxes are followed on their own: the feed names one box, in *)
(* either slot.                                                                *)
EXTENDS TruckCycle

VARIABLE aboard     \* the boxes on the truck, with the time each one came

Empty == [c1 |-> "none", c2 |-> "none", topos |-> "none", job |-> "none",
          arrived |-> FALSE, moving |-> TRUE, step |-> 2, loc |-> "none",
          near |-> 0, plc |-> FALSE, arr |-> {}]
MCBlockOf == [x \in {"07F-06"} |-> "07F"]
MCMessages == {Empty, [Empty EXCEPT !.c1 = "A"], [Empty EXCEPT !.c2 = "A"]}

Init == now = Start /\ CycleInit /\ aboard = <<>>

Next ==
    /\ CycleNext
    /\ aboard' = [b \in {p'.c1, p'.c2} \ {No} |->
                     IF b \in DOMAIN aboard THEN aboard[b] ELSE now']

Spec == Init /\ [][Next]_<<now, cycleVars, aboard>>

\* "a delivery requires the box was carried >= 30s": a box that is delivered has
\* been on the truck, in one slot or the other, for MIN_LOADED.
BoxCarried ==
    [][cycle'.dropped > 0 => cycle'.dropped - aboard[p.c1] >= MinLoaded]_<<now, cycleVars, aboard>>
===============================================================================
