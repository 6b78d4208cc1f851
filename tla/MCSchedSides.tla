---------------------------- MODULE MCSchedSides ----------------------------
(* The scheduler seen from two sides, one in each behaviour: semaphores    *)
(* that tasks and handlers share and a wait queue, without sleepers; and   *)
(* nested interrupts over sleepers, without semaphores and wait queue.     *)
(* All of both together has too many states.                               *)
EXTENDS MCSched

VARIABLE side

Semaphores == INSTANCE Sched WITH SleepTicks <- {}, TickMod <- 1,
                                  MaxTick <- 1
Interrupts == INSTANCE Sched WITH Sema <- {}, WaitQ <- {},
                                  IrqSema <- {}

MCInit == Init /\ side \in {"semaphores", "interrupts"}
MCNext == /\ UNCHANGED side
          /\ \/ side = "semaphores" /\ Semaphores!Next
             \/ side = "interrupts" /\ Interrupts!Next
MCSpec == MCInit /\ [][MCNext]_<<vars, side>>
=============================================================================
