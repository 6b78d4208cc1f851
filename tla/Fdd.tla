-------------------------------- MODULE Fdd ---------------------------------
(***************************************************************************)
(* The floppy driver, kernel/fdd/FDD.C, with dma_setup of kernel/dma.c.    *)
(*                                                                         *)
(* One task at a time is in the driver (fdd_init, then the owner of        *)
(* fdd_cs); `at' is where.  Against it run the interrupt's task, the motor *)
(* task and the hardware.  A command with its bytes is sent in one step,   *)
(* an interrupt handler runs in one step: its task has a higher priority   *)
(* than the others here.  The controller and the drives are modelled from  *)
(* how the driver uses them.                                               *)
(***************************************************************************)
EXTENDS Naturals, Sequences

CONSTANTS
    Unit,       \* the drives that CMOS reports
    Client,     \* the tasks that call fdd_read and fdd_write
    Cyl,        \* cylinders; the blocks of one are not told apart
    FDD_RETRY,  \* also recal_retry: 3
    Tmo,        \* motoff_tmo, in quanta of the motor task
    Slow,       \* where the controller may take longer than two ticks;
                \* "lost": what is sent to it then may not reach it
    MaxFaults,  \* bound: errors of drives and controller
    MaxCalls,   \* bound: calls
    None

Block == Unit \X Cyl
Val == Client \cup {"old"}

ASSUME FddAssumption ==
    /\ Unit \subseteq Nat /\ 0 \in Cyl /\ Cyl \subseteq Nat
    /\ FDD_RETRY \in Nat \ {0} /\ Tmo \in Nat \ {0}
    /\ Slow \subseteq {"specify", "sense", "result", "lost"}
    /\ MaxFaults \in Nat /\ MaxCalls \in Nat
    /\ Unit # {} /\ None \notin Nat \cup Client

VARIABLES
    \* the driver
    at, job, fdd_cs, calls,
    ctrl_state, iounit, unit, seldrive, motor_bits, motor_task, late,
    \* the hardware: the DOR, the DMA controller, the floppy controller,
    \* what the drives do and where their heads are
    dor, dma, fdc, head,
    \* the outside
    disk, buf, result, faults

driver == <<at, job, fdd_cs, calls, ctrl_state, iounit, unit, seldrive,
            motor_bits, motor_task, late, result>>
vars == <<driver, dor, dma, fdc, head, disk, buf, faults>>

\* Where the task in the driver waits; elsewhere it runs.
Waits == {"free", "reset", "spinup", "recalwait", "seekwait", "iowait"}

\* fdc.phase: "command", ready for one; "exec", busy; "result", it has result
\* bytes to be read; "locked", it has locked up.  fdc.seeks: the drives that
\* seek, and where to.  fdc.irq: what it interrupts for.  fdc.info: what the
\* result bytes say.  ctrl_state: without STATE, which nobody reads, and with
\* TIMEOUT only where fdd_ctrl_reset will read it.
NoJob == [c |-> None, u |-> None, cyl |-> 0, doread |-> TRUE,
          recal |-> 0, seeks |-> 0, ops |-> 0, need_recal |-> FALSE,
          moved |-> FALSE]

NewJob(c, u, cyl, doread) ==
    [NoJob EXCEPT !.c = c, !.u = u, !.cyl = cyl, !.doread = doread]

FirstUnit == CHOOSE u \in Unit : \A v \in Unit : u <= v

\* fdd_init up to the block in fdd_ctrl_reset
Init ==
    /\ at = "reset" /\ job = NoJob /\ fdd_cs = <<>> /\ calls = 0
    /\ ctrl_state = {"RESET"} /\ iounit = None
    /\ unit = [u \in Unit |-> [tmo |-> 0, state |-> "idle", res |-> None]]
    /\ seldrive = None /\ motor_bits = {} /\ motor_task = FALSE /\ late = 0
    /\ dor = [sel |-> 0, on |-> {}]
    /\ dma = [c |-> None, write |-> FALSE]
    /\ fdc = [phase |-> "command", seeks |-> [u \in Unit |-> None],
              irq |-> "reset", info |-> None, arg |-> None]
    /\ head = [u \in Unit |-> 0]
    /\ disk = [b \in Block |-> "old"] /\ buf = [c \in Client |-> "old"]
    /\ result = [c \in Client |-> "none"] /\ faults = 0

Fault == faults < MaxFaults /\ faults' = faults + 1

\* fdd_wait_for_rqm returns the register as it is when the time is up.  A
\* sender gives up if that is 0 and a reader if it says nothing is to be
\* read; otherwise both go on without RQM, as if they were in time, and the
\* controller may lock up ("lost").
TimesOut(what) == what \in Slow /\ Fault

LocksUp(c) == TimesOut("lost") /\ fdc' = [c EXCEPT !.phase = "locked"]

\* fdd_send_command: the controller does not want a result read first
TakesCommand == fdc.phase = "command"

\* fdd_read_bytes, of the sense command: there is something to report
HasSense == fdc.info # None /\ TakesCommand
-----------------------------------------------------------------------------
(* The callers                                                             *)

Calling(c) == \E i \in DOMAIN fdd_cs : fdd_cs[i].c = c

\* fdd_read, fdd_write: wait for fdd_cs
fdd_rw(c) ==
    /\ at \notin {"reset", "recal"} /\ ~ Calling(c) /\ calls < MaxCalls
    /\ \E u \in Unit, y \in Cyl, doread \in BOOLEAN :
        /\ fdd_cs' = Append(fdd_cs, NewJob(c, u, y, doread))
        /\ buf' = [buf EXCEPT ![c] = IF doread THEN "old" ELSE c]
    /\ calls' = calls + 1
    /\ result' = [result EXCEPT ![c] = "none"]
    /\ UNCHANGED <<at, job, ctrl_state, iounit, unit, seldrive, motor_bits,
                   motor_task, late, dor, dma, fdc, head, disk, faults>>

\* the next owner of fdd_cs starts with fdd_op
fdd_op ==
    /\ at = "free" /\ fdd_cs # <<>>
    /\ job' = Head(fdd_cs) /\ at' = "seldrive"
    /\ UNCHANGED <<fdd_cs, calls, ctrl_state, iounit, unit, seldrive,
                   motor_bits, motor_task, late, result, dor, dma, fdc, head,
                   disk, buf, faults>>

\* the call returns
Returns(res) ==
    /\ result' = [result EXCEPT ![job.c] = res]
    /\ fdd_cs' = Tail(fdd_cs) /\ job' = NoJob /\ at' = "free"

\* the unit that fdd_init recalibrates after the one of job
NextUnit == {u \in Unit : u > job.u /\ \A v \in Unit : v > job.u => u <= v}

\* the end of fdd_recalibrate: the outer loop of fdd_op goes on, or fdd_init
\* with the next unit
NextSeek(j) ==
    IF j.seeks + 1 < FDD_RETRY
    THEN /\ job' = [j EXCEPT !.seeks = @ + 1, !.recal = 0, !.ops = 0]
         /\ at' = "seldrive" /\ UNCHANGED <<fdd_cs, result>>
    ELSE Returns("error")

NextRecal ==
    \/ /\ NextUnit = {} /\ at' = "free" /\ job' = NoJob
    \/ \E u \in NextUnit :
        at' = "seldrive" /\ job' = [NoJob EXCEPT !.u = u, !.recal = 1]

\* a try of fdd_recalibrate failed, or fdd_seldrive did
TryAgain ==
    IF job.recal \in 1 .. FDD_RETRY - 1
    THEN /\ job' = [job EXCEPT !.recal = @ + 1] /\ at' = "seldrive"
         /\ UNCHANGED <<fdd_cs, result>>
    ELSE IF job.c = None THEN NextRecal /\ UNCHANGED <<fdd_cs, result>>
    ELSE NextSeek(job)
-----------------------------------------------------------------------------
(* Selecting the drive                                                     *)

Selected(u) == seldrive = u /\ u \in motor_bits

\* fault: the timeout runs on
KeepsMotorOn_not(u, state) == [unit EXCEPT ![u].state = state]

KeepsMotorOn(u, state) == [unit EXCEPT ![u].tmo = Tmo, ![u].state = state]

\* fdd_seldrive up to the sleep, which holds motor_cs
fdd_seldrive ==
    LET u == job.u IN
    /\ at = "seldrive"
    /\ motor_bits' = motor_bits \cup {u} /\ seldrive' = u
    /\ IF Selected(u)
       THEN /\ at' = "specify" /\ unit' = KeepsMotorOn(u, unit[u].state)
            /\ late' = 0 /\ UNCHANGED dor
       ELSE /\ at' = "spinup" /\ dor' = [sel |-> u, on |-> motor_bits']
            /\ UNCHANGED <<unit, late>>
    /\ UNCHANGED <<job, fdd_cs, calls, ctrl_state, iounit, motor_task, result,
                   dma, fdc, head, disk, buf, faults>>

fdd_spun_up ==
    /\ at = "spinup" /\ at' = "specify"
    /\ unit' = KeepsMotorOn(job.u, unit[job.u].state) /\ late' = 0
    /\ UNCHANGED <<job, fdd_cs, calls, ctrl_state, iounit, seldrive,
                   motor_bits, motor_task, result, dor, dma, fdc, head, disk,
                   buf, faults>>

\* what follows when the bytes are sent
SpecifySent ==
    /\ IF job.recal > 0 THEN at' = "recal" /\ UNCHANGED <<job, unit>>
       ELSE /\ unit' = [unit EXCEPT ![job.u].state = "idle"]
            /\ IF job.need_recal
               THEN /\ job' = [job EXCEPT !.recal = 1]
                    /\ at' = "seldrive"
               ELSE at' = "seek" /\ UNCHANGED job
    /\ UNCHANGED <<fdd_cs, result>>

\* fdd_specify in fdd_seldrive.  It fails if the controller has a result
\* that nobody read, or shows nothing in time.
fdd_specify ==
    /\ at = "specify"
    /\ \/ /\ TakesCommand /\ SpecifySent
          /\ UNCHANGED <<fdc, faults>> \/ LocksUp(fdc)
       \/ /\ \/ fdc.phase = "result" /\ UNCHANGED faults
             \/ TakesCommand /\ TimesOut("specify")
          /\ TryAgain /\ UNCHANGED <<unit, fdc>>
    /\ UNCHANGED <<calls, ctrl_state, iounit, seldrive, motor_bits, motor_task,
                   late, dor, dma, head, disk, buf>>
-----------------------------------------------------------------------------
(* Recalibrating and seeking.  The controller takes the command: it has    *)
(* taken the one of fdd_specify just before.                               *)

Moves(u, cyl) == fdc' = [fdc EXCEPT !.seeks[u] = cyl]

\* fdd_recalibrate: interrupts are off from the flags to the block
fdd_recalibrate ==
    /\ at = "recal" /\ TakesCommand
    /\ unit' = [unit EXCEPT ![job.u].state = "seeking"]
    /\ ctrl_state' = ctrl_state \cup {"SEEKING"}
    /\ Moves(job.u, 0) /\ at' = "recalwait"
    /\ UNCHANGED <<job, fdd_cs, calls, iounit, seldrive, motor_bits,
                   motor_task, late, result, dor, dma, head, disk, buf, faults>>

\* fdd_recalibrate looks at the result
fdd_recalibrated ==
    /\ at = "recaldone"
    /\ IF unit[job.u].res # [ic |-> "ok", cyl |-> 0] THEN TryAgain
       ELSE IF job.c = None THEN NextRecal /\ UNCHANGED <<fdd_cs, result>>
       ELSE /\ job' = [job EXCEPT !.recal = 0, !.need_recal = FALSE]
            /\ at' = "seek" /\ UNCHANGED <<fdd_cs, result>>
    /\ UNCHANGED <<calls, ctrl_state, iounit, unit, seldrive, motor_bits,
                   motor_task, late, dor, dma, fdc, head, disk, buf, faults>>

fdd_seek ==
    /\ at = "seek" /\ TakesCommand
    /\ unit' = [unit EXCEPT ![job.u].state = "seeking"]
    /\ ctrl_state' = ctrl_state \cup {"SEEKING"}
    /\ Moves(job.u, job.cyl) /\ at' = "seekwait"
    /\ UNCHANGED <<job, fdd_cs, calls, iounit, seldrive, motor_bits,
                   motor_task, late, result, dor, dma, head, disk, buf, faults>>
-----------------------------------------------------------------------------
(* Reading and writing                                                     *)

\* fault: transfers go the other way
Mode_swapped(j) == j.doread

\* does the DMA controller read memory?
Mode(j) == ~ j.doread

\* dma_setup, and the read or write data command, interrupts off up to the
\* block.  The block is one sector, in the caller's buffer or copied there
\* from and to the work buffer.
fdd_startio ==
    /\ at = "io" /\ TakesCommand
    /\ dma' = [c |-> job.c, write |-> Mode(job)]
    /\ iounit' = job.u
    /\ unit' = [unit EXCEPT ![job.u].state = "io"]
    /\ fdc' = [fdc EXCEPT !.phase = "exec", !.arg = <<job.u, job.cyl>>]
    /\ at' = "iowait"
    /\ UNCHANGED <<job, fdd_cs, calls, ctrl_state, seldrive, motor_bits,
                   motor_task, late, result, dor, head, disk, buf, faults>>

\* the command cannot be sent: a result is still to be read
fdd_startio_fails ==
    /\ at = "io" /\ ~ TakesCommand
    /\ iounit' = job.u
    /\ unit' = [unit EXCEPT ![job.u].state = "io"]
    /\ IF job.ops + 1 < FDD_RETRY
       THEN /\ job' = [job EXCEPT !.ops = @ + 1]
            /\ UNCHANGED <<at, fdd_cs, result>>
       ELSE NextSeek(job)
    /\ dma' = [c |-> job.c, write |-> Mode(job)]
    /\ UNCHANGED <<calls, ctrl_state, seldrive, motor_bits, motor_task, late,
                   dor, fdc, head, disk, buf, faults>>

Succeeds(res) == res # None /\ res.ic = "ok"

\* fdd_op looks at the result bytes
fdd_io_done ==
    LET res == unit[job.u].res IN
    /\ at = "iodone"
    /\ IF Succeeds(res)
       THEN /\ unit' = [unit EXCEPT ![job.u].state = "idle"]
            /\ Returns("ok")
       ELSE /\ IF res # None /\ res.ic = "wrongcyl"
               THEN NextSeek([job EXCEPT !.need_recal = TRUE])
               ELSE IF job.ops + 1 < FDD_RETRY
               THEN /\ job' = [job EXCEPT !.ops = @ + 1] /\ at' = "io"
                    /\ UNCHANGED <<fdd_cs, result>>
               ELSE NextSeek(job)
            /\ UNCHANGED unit
    /\ UNCHANGED <<calls, ctrl_state, iounit, seldrive, motor_bits,
                   motor_task, late, dor, dma, fdc, head, disk, buf, faults>>
-----------------------------------------------------------------------------
(* The interrupt                                                           *)

\* fdd_intr_reset, and fdd_ctrl_reset that it wakes: either fdd_init goes on
\* with the motor task and the first drive, or it gives up: any wait for the
\* controller that was too long stops it, the one of its fdd_specify only
\* if the register is 0
fdd_intr_reset ==
    LET taken == [fdc EXCEPT !.irq = "none"] IN
    /\ fdc.irq # "none" /\ "RESET" \in ctrl_state
    /\ \/ /\ at' = "seldrive" /\ motor_task' = TRUE
          /\ job' = [NoJob EXCEPT !.u = FirstUnit, !.recal = 1]
          /\ ctrl_state' = (ctrl_state \ {"RESET"}) \cup {"CONFIG"}
          /\ (fdc' = taken /\ UNCHANGED faults) \/ LocksUp(taken)
       \/ /\ TimesOut("specify") /\ fdc' = taken
          /\ at' = "free" /\ UNCHANGED <<job, motor_task>>
          /\ ctrl_state' = (ctrl_state \ {"RESET"}) \cup {"TIMEOUT"}
    /\ UNCHANGED <<fdd_cs, calls, iounit, unit, seldrive, motor_bits, late,
                   result, dor, dma, head, disk, buf>>

\* fault: the flag stays
SeekFlag_stays(U) == ctrl_state

\* fdd_set_seeking
SeekFlag(U) == IF \E u \in Unit : U[u].state = "seeking"
               THEN ctrl_state \cup {"SEEKING"}
               ELSE ctrl_state \ {"SEEKING"}

Woken == CASE at = "recalwait" -> "recaldone" [] at = "seekwait" -> "io"
           [] at = "iowait" -> "iodone" [] OTHER -> at

\* fdd_intr_seek: sense the interrupt; the drive it names is done
fdd_intr_seek ==
    /\ fdc.irq # "none" /\ "RESET" \notin ctrl_state
    /\ "SEEKING" \in ctrl_state
    /\ \/ /\ HasSense
          /\ LET u == fdc.info.u IN
             /\ unit' = [unit EXCEPT ![u].state = "seekdone",
                         ![u].res = [ic |-> fdc.info.ic, cyl |-> fdc.info.cyl]]
             /\ ctrl_state' = SeekFlag(unit')
             /\ at' = IF u = job.u THEN Woken ELSE at
          /\ fdc' = [fdc EXCEPT !.irq = "none", !.info = None]
          /\ UNCHANGED faults
       \* too slow, or a result is to be read: nobody is woken
       \/ /\ \/ ~ TakesCommand /\ UNCHANGED faults
             \/ TimesOut("sense")
          /\ fdc' = [fdc EXCEPT !.irq = "none"]
          /\ UNCHANGED <<unit, ctrl_state, at>>
    /\ UNCHANGED <<job, fdd_cs, calls, iounit, seldrive, motor_bits,
                   motor_task, late, result, dor, dma, head, disk, buf>>

\* the rest of fdd_intr: read the result of the I/O, or give up and leave
\* the controller with it
fdd_intr_io ==
    /\ fdc.irq # "none" /\ ctrl_state \cap {"RESET", "SEEKING"} = {}
    /\ iounit # None
    /\ \/ /\ unit' = [unit EXCEPT ![iounit].res = fdc.info]
          /\ fdc' = [fdc EXCEPT !.irq = "none", !.info = None,
                                !.phase = "command"]
          /\ UNCHANGED faults
       \/ /\ TimesOut("result")
          /\ unit' = [unit EXCEPT ![iounit].res = None]
          /\ fdc' = [fdc EXCEPT !.irq = "none"]
    /\ at' = IF iounit = job.u THEN Woken ELSE at
    /\ iounit' = None
    /\ UNCHANGED <<job, fdd_cs, calls, ctrl_state, seldrive, motor_bits,
                   motor_task, late, result, dor, dma, head, disk, buf>>
-----------------------------------------------------------------------------
(* The motor task                                                          *)

\* fault: the selected drive is spared
MayStop_others(u) == /\ u \in motor_bits /\ unit[u].tmo <= 1
                     /\ unit[u].state = "idle" /\ u # seldrive

MayStop(u) == u \in motor_bits /\ unit[u].tmo <= 1 /\ unit[u].state = "idle"

\* One turn of the loop, at most Tmo - 1 times between fdd_seldrive and the
\* next wait of the driver: a quantum is 220 ms.  The write to the DOR
\* selects the drive whose motor stops.
fdd_motor_task ==
    LET off == {u \in Unit : MayStop(u)} IN
    /\ motor_task /\ at # "spinup" /\ motor_bits # {}
    /\ at \in Waits \/ late < Tmo - 1
    /\ late' = IF at \in Waits THEN 0 ELSE late + 1
    /\ unit' = [u \in Unit |->
                    IF u \in motor_bits /\ unit[u].tmo > 0
                    THEN [unit[u] EXCEPT !.tmo = @ - 1] ELSE unit[u]]
    /\ motor_bits' = motor_bits \ off
    /\ \/ off = {} /\ UNCHANGED dor
       \/ \E u \in off : /\ \A v \in off : v <= u
                         /\ dor' = [sel |-> u, on |-> motor_bits']
    /\ UNCHANGED <<at, job, fdd_cs, calls, ctrl_state, iounit, seldrive,
                   motor_task, result, dma, fdc, head, disk, buf, faults>>
-----------------------------------------------------------------------------
(* The hardware                                                            *)

\* a drive arrives where it should, elsewhere, or says that it has failed
SeekEnds(u) ==
    /\ fdc.seeks[u] # None /\ fdc.irq = "none"
    /\ \/ head' = [head EXCEPT ![u] = fdc.seeks[u]] /\ UNCHANGED faults
       \/ Fault /\ \E y \in Cyl : head' = [head EXCEPT ![u] = y]
    /\ \E ic \in {"ok", "abort"} :
        /\ ic = "abort" => faults' # faults
        /\ fdc' = [fdc EXCEPT !.seeks[u] = None, !.irq = "seek",
                    !.info = [u |-> u, ic |-> ic, cyl |-> head'[u]]]
    /\ UNCHANGED <<driver, dor, dma, disk, buf>>

\* the data goes between the selected drive and where the DMA controller
\* was told, with the copy of fdd_op if that is the work buffer
Moved ==
    LET b == <<dor.sel, fdc.arg[2]>> IN
    /\ IF dma.write
       THEN disk' = [disk EXCEPT ![b] = buf[dma.c]] /\ UNCHANGED buf
       ELSE buf' = [buf EXCEPT ![dma.c] = disk[b]] /\ UNCHANGED disk
    /\ job' = [job EXCEPT !.moved = TRUE]

IoEnds ==
    /\ fdc.phase = "exec"
    /\ \E ic \in {"ok", "abort", "wrongcyl"} :
        /\ fdc' = [fdc EXCEPT !.phase = "result", !.irq = "io",
                              !.info = [ic |-> ic]]
        /\ ic = "wrongcyl" <=> head[dor.sel] # fdc.arg[2]
        /\ IF ic = "abort" THEN Fault ELSE UNCHANGED faults
        /\ IF ic = "ok" THEN Moved ELSE UNCHANGED <<disk, buf, job>>
    /\ UNCHANGED <<at, fdd_cs, calls, ctrl_state, iounit, unit, seldrive,
                   motor_bits, motor_task, late, result, dor, dma, head>>
-----------------------------------------------------------------------------
Driver == \/ fdd_op \/ fdd_seldrive \/ fdd_spun_up \/ fdd_specify
          \/ fdd_recalibrate \/ fdd_recalibrated \/ fdd_seek
          \/ fdd_startio \/ fdd_startio_fails \/ fdd_io_done
Interrupt == fdd_intr_reset \/ fdd_intr_seek \/ fdd_intr_io
Hardware == (\E u \in Unit : SeekEnds(u)) \/ IoEnds

Next == \/ \E c \in Client : fdd_rw(c)
        \/ Driver \/ Interrupt \/ fdd_motor_task \/ Hardware

Spec == Init /\ [][Next]_vars

\* The task in the driver runs whenever it can, interrupts are taken, the
\* motor task wakes again and again, and the drives do something.
FairSpec == /\ Spec /\ WF_vars(Driver) /\ WF_vars(Interrupt)
            /\ WF_vars(fdd_motor_task) /\ WF_vars(Hardware)
-----------------------------------------------------------------------------
\* An interrupt is taken for what it is: the flags that fdd_intr looks at
\* agree with the command that is under way.
InterruptUnderstood ==
    /\ fdc.irq = "seek" => ctrl_state \cap {"RESET", "SEEKING"} = {"SEEKING"}
    /\ fdc.irq = "io" => /\ ctrl_state \cap {"RESET", "SEEKING"} = {}
                         /\ iounit # None

\* A drive that seeks or transfers is selected and its motor runs.
DriveRuns ==
    \A u \in Unit :
        fdc.seeks[u] # None \/ (fdc.phase = "exec" /\ fdc.arg[1] = u)
            => dor.sel = u /\ u \in dor.on

\* The driver does what a block device promises.
Device == INSTANCE BlockDevice WITH
    queue <- [i \in DOMAIN fdd_cs |->
                [c |-> fdd_cs[i].c, b |-> <<fdd_cs[i].u, fdd_cs[i].cyl>>,
                 doread |-> fdd_cs[i].doread,
                 moved |-> i = 1 /\ job.c = fdd_cs[i].c /\ job.moved]]

ImplementsDevice == Device!DevSpec

\* Every call returns, whatever the drives report, as long as the controller
\* does not lock up.
CallsReturn ==
    \A c \in Client : Calling(c) ~> (~ Calling(c) \/ fdc.phase = "locked")

\* A drive that stays idle is switched off.
MotorStops ==
    \A u \in Unit : motor_task /\ unit[u].state = "idle"
        ~> u \notin motor_bits \/ unit[u].state # "idle" \/ at # "free"
=============================================================================
