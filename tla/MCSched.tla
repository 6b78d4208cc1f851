------------------------------ MODULE MCSched -------------------------------
(* The scheduler with a handful of tasks.  Which queues, semaphores and    *)
(* interrupts there are is chosen by the configurations.                   *)
EXTENDS Sched, TLC
CONSTANTS main, idle, a, b, c, s1, s2, w1, w2, sleeping

MCQueue == Pri \cup Sema \cup WaitQ \cup {Sleeping}

FiveTasks == {main, idle, a, b, c}
FourTasks == {main, idle, a, b}
RestABC == <<a, b, c>>
RestAB == <<a, b>>
ThreeTasks == {main, idle, a}
RestA == <<a>>

=============================================================================
