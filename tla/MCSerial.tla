------------------------------ MODULE MCSerial ------------------------------
(* The receiving and the sending side of a serial port, one in each        *)
(* behaviour: neither touches the state of the other, so their states are  *)
(* added up and not multiplied.                                            *)
EXTENDS Tty, TtyXmit

VARIABLE side

Init == side \in {"receive", "send"} /\ TtyInit /\ XmitInit

Next ==
    /\ UNCHANGED side
    /\ \/ side = "receive" /\ TtyNext /\ UNCHANGED xmitvars
       \/ side = "send" /\ XmitNext /\ UNCHANGED ttyvars

Spec == Init /\ [][Next]_<<side, ttyvars, xmitvars>>

\* A task that is ready runs, interrupts are taken, the line sends what the
\* transmitter holds, and somebody keeps typing.
FairSpec ==
    /\ Spec
    /\ \A t \in Task : WF_ttyvars(side = "receive" /\ Reads(t))
    /\ WF_ttyvars(side = "receive" /\ Receives)
    /\ \A t \in Writer : WF_xmitvars(side = "send" /\ Followed /\ Runs(t))
    /\ WF_xmitvars(side = "send" /\ Followed /\ EchoRuns)
    /\ WF_xmitvars(side = "send" /\ Followed /\ tty_intr)
    /\ WF_xmitvars(side = "send" /\ Followed /\ Sends)
    /\ WF_xmitvars(side = "send" /\ Followed /\ Types)

\* Neither a reader nor the echo task sleeps for ever while somebody types.
SleepersWake == ReaderWakes /\ EchoTaskWakes
=============================================================================
