----------------------------- MODULE MCConsole ------------------------------
(* The keyboard and the screen, one in each behaviour: neither touches the *)
(* state of the other, so their states are added up and not multiplied.    *)
EXTENDS Console, Screen

VARIABLE side

Init == side \in {"keyboard", "screen"} /\ con_init /\ ScreenInit

Next ==
    /\ UNCHANGED side
    /\ \/ side = "keyboard" /\ ConNext /\ UNCHANGED scrvars
       \/ side = "screen" /\ ScreenNext /\ UNCHANGED convars

Spec == Init /\ [][Next]_<<side, convars, scrvars>>

\* A reader that is ready runs, interrupts are taken, and somebody types.
FairSpec ==
    /\ Spec
    /\ \A t \in Reader :
            WF_convars(side = "keyboard" /\ ~ spoiled /\ ConReads(t))
    /\ WF_convars(side = "keyboard" /\ ~ spoiled /\ kbd_intr)
    /\ WF_convars(side = "keyboard" /\ ~ spoiled /\ Strikes)
=============================================================================
