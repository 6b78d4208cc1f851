----------------------------- MODULE Fdd_proofs -----------------------------
(***************************************************************************)
(* The floppy driver, for any number of drives, callers and retries.       *)
(***************************************************************************)
EXTENDS Fdd, SequenceTheorems, WellFoundedInduction, TLAPS

-----------------------------------------------------------------------------
(* The inductive invariant                                                 *)

\* What result bytes say: of a seek, and of a transfer.
Ic       == {"ok", "abort", "wrongcyl"}
SeekInfo == [u : Unit, ic : Ic, cyl : Cyl]
IoInfo   == [ic : Ic]

JobRecord  == [c : Client \cup {None}, u : Unit \cup {None}, cyl : Cyl,
               doread : BOOLEAN, recal : Nat, seeks : Nat, ops : Nat,
               need_recal : BOOLEAN, moved : BOOLEAN]
UnitState  == {"idle", "seeking", "seekdone", "io"}
UnitResult == [ic : Ic, cyl : Cyl] \cup IoInfo \cup {None}
UnitRecord == [tmo : Nat, state : UnitState, res : UnitResult]
FdcRecord  == [phase : {"command", "exec", "result", "locked"},
               seeks : [Unit -> Cyl \cup {None}],
               irq : {"none", "reset", "seek", "io"},
               info : SeekInfo \cup IoInfo \cup {None},
               arg : (Unit \X Cyl) \cup {None}]

\* Where nothing is under way, where a drive is being served, where it
\* moves, and where it is served for a call.
Resting == {"free", "reset"}
Working == {"seldrive", "spinup", "specify", "recal", "recalwait", "recaldone",
            "seek", "seekwait", "io", "iowait", "iodone"}
Moving  == {"recalwait", "seekwait"}
Serving == {"seek", "seekwait", "io", "iowait", "iodone"}

\* A call that waits has not been worked on.
Call(q) == q.c \in Client /\ q.u \in Unit /\ q.recal = 0 /\ q.moved = FALSE

FddTypeOK ==
    /\ at \in Resting \cup Working /\ job \in JobRecord /\ fdd_cs \in Seq(JobRecord)
    /\ \A i \in DOMAIN fdd_cs : Call(fdd_cs[i])
    /\ iounit \in Unit \cup {None} /\ unit \in [Unit -> UnitRecord]
    /\ fdc \in FdcRecord /\ head \in [Unit -> Cyl]

\* The flags that fdd_intr looks at agree with where the driver is.
Flags ==
    /\ "RESET" \in ctrl_state <=> at = "reset"
    /\ "SEEKING" \in ctrl_state <=> at \in Moving
    /\ \A u \in Unit : unit[u].state = "seeking" => at \in Moving /\ u = job.u

\* So does the controller.
Commands ==
    /\ fdc.irq = "reset" => at = "reset"
    /\ at \in Moving => fdc.phase = "command"
    /\ \A u \in Unit : fdc.seeks[u] # None =>
                            at \in Moving /\ u = job.u /\ fdc.irq = "none"
    /\ fdc.irq = "seek" =>
            at \in Moving /\ fdc.info \in SeekInfo /\ fdc.info.u = job.u
    /\ fdc.phase = "exec" => at = "iowait" /\ fdc.irq = "none"
    /\ fdc.irq = "io" =>
            at = "iowait" /\ fdc.phase = "result" /\ fdc.info \in IoInfo
    /\ at = "iowait" => iounit = job.u /\ (fdc.phase = "exec" \/ fdc.irq = "io")

\* The job is the call of the owner of fdd_cs, or the recalibration that
\* fdd_init asks for.
SameCall(j, q) == /\ q.c = j.c /\ q.u = j.u /\ q.cyl = j.cyl
                  /\ (q.doread <=> j.doread)
Jobs ==
    /\ at \in Resting => job = NoJob
    /\ at \in Working => job.u \in Unit
    /\ at \in Working /\ job.c = None => job.recal > 0
    /\ at \in Serving => job.c # None
    /\ job.c # None => fdd_cs # <<>> /\ SameCall(job, Head(fdd_cs))

FddInv == FddTypeOK /\ Flags /\ Commands /\ Jobs

-----------------------------------------------------------------------------
LEMMA LeastUnit == FirstUnit \in Unit
<1>1. Unit \subseteq Nat /\ Unit # {}
  BY FddAssumption
<1> DEFINE R == OpToRel(<, Nat)
<1>2. IsWellFoundedOn(R, Nat)
  BY NatLessThanWellFounded
<1>3. \A i, j \in Nat : i < j => <<i, j>> \in R
  BY DEF OpToRel
<1> HIDE DEF R
<1>4. PICK x \in Unit : \A y \in Unit : ~ (<<y, x>> \in R)
  BY <1>1, <1>2, WFMin
<1>5. \A y \in Unit : ~ (y < x)
  <2> SUFFICES ASSUME NEW y \in Unit, y < x PROVE FALSE
    OBVIOUS
  <2>1. x \in Nat /\ y \in Nat
    BY <1>1
  <2>2. <<y, x>> \in R
    BY <2>1, <1>3
  <2> QED
    BY <2>2, <1>4
<1>6. \A y \in Unit : x <= y
  <2>1. \A i, k \in Nat : ~ (k < i) => i <= k
    OBVIOUS
  <2> QED
    BY <1>1, <1>5, <2>1
<1> QED
  BY <1>6 DEF FirstUnit

LEMMA NoJobIs ==
    /\ NoJob \in JobRecord /\ NoJob.c = None /\ NoJob.recal = 0 /\ NoJob.moved = FALSE
    /\ None \notin Client /\ None \notin Unit
BY FddAssumption DEF NoJob, JobRecord

LEMMA InitInv == Init => FddInv
<1> SUFFICES ASSUME Init PROVE FddInv
  OBVIOUS
<1>1. FddTypeOK
  <2>1. fdc \in FdcRecord
    BY DEF Init, FdcRecord
  <2>2. unit \in [Unit -> UnitRecord]
    BY DEF Init, UnitRecord, UnitState, UnitResult
  <2>3. head \in [Unit -> Cyl]
    BY FddAssumption DEF Init
  <2> QED
    BY <2>1, <2>2, <2>3, NoJobIs DEF Init, FddTypeOK, Resting
<1>2. Flags
  BY DEF Init, Flags, Moving
<1>3. Commands
  BY DEF Init, Commands, Moving
<1>4. Jobs
  BY NoJobIs DEF Init, Jobs, Resting, Working, Serving
<1> QED
  BY <1>1, <1>2, <1>3, <1>4 DEF FddInv

\* The state of a drive is set.
StateSet(U, V, u, s) ==
    /\ V \in [Unit -> UnitRecord]
    /\ \A v \in Unit : v # u => V[v] = U[v]
    /\ V[u].state = s /\ V[u].tmo = U[u].tmo /\ V[u].res = U[u].res

LEMMA SetState ==
    ASSUME NEW U \in [Unit -> UnitRecord], NEW u \in Unit, NEW s \in UnitState,
           NEW V, V = [U EXCEPT ![u].state = s]
    PROVE  StateSet(U, V, u, s)
<1> DEFINE r == [U[u] EXCEPT !.state = s]
<1>1. U[u] \in UnitRecord
  OBVIOUS
<1>2. r \in UnitRecord /\ r.state = s /\ r.tmo = U[u].tmo /\ r.res = U[u].res
  BY <1>1 DEF UnitRecord
<1>3. V = [U EXCEPT ![u] = r]
  OBVIOUS
<1> HIDE DEF r
<1>4. V \in [Unit -> UnitRecord] /\ V[u] = r /\ \A v \in Unit : v # u => V[v] = U[v]
  BY <1>2, <1>3
<1> QED
  BY <1>2, <1>4 DEF StateSet

\* fdd_seldrive has started the motor: the timeout is set, nothing else.
LEMMA KeepMotorOn ==
    ASSUME NEW u \in Unit, unit \in [Unit -> UnitRecord],
           NEW V, V = KeepsMotorOn(u, unit[u].state)
    PROVE  /\ V \in [Unit -> UnitRecord] /\ V[u].tmo = Tmo
           /\ \A v \in Unit : V[v].state = unit[v].state
<1> DEFINE r == [[unit[u] EXCEPT !.tmo = Tmo] EXCEPT !.state = unit[u].state]
<1>1. unit[u] \in UnitRecord /\ Tmo \in Nat
  BY FddAssumption
<1>2. r \in UnitRecord /\ r.state = unit[u].state /\ r.tmo = Tmo
  BY <1>1 DEF UnitRecord
<1>3. V = [unit EXCEPT ![u] = r]
  BY DEF KeepsMotorOn
<1> HIDE DEF r
<1> QED
  BY <1>2, <1>3

\* The calls of fdd_cs but the last one.
LEMMA RwStep ==
    ASSUME FddInv, NEW c \in Client, fdd_rw(c)
    PROVE  FddInv'
<1>1. PICK u \in Unit, y \in Cyl, doread \in BOOLEAN :
        fdd_cs' = Append(fdd_cs, NewJob(c, u, y, doread))
  BY Zenon DEF fdd_rw
<1>0. PICK q : q = NewJob(c, u, y, doread)
  OBVIOUS
<1>2. q \in JobRecord /\ Call(q)
  BY <1>0, FddAssumption DEF NewJob, JobRecord, NoJob, Call
<1>3. fdd_cs' = Append(fdd_cs, q)
  BY <1>0, <1>1
<1>4. /\ fdd_cs' \in Seq(JobRecord) /\ \A i \in DOMAIN fdd_cs' : Call(fdd_cs'[i])
      /\ fdd_cs # <<>> => Head(fdd_cs') = Head(fdd_cs)
      /\ fdd_cs' # <<>>
  BY <1>2, <1>3 DEF FddInv, FddTypeOK
<1>5. UNCHANGED <<at, job, ctrl_state, iounit, unit, fdc, head>>
  BY DEF fdd_rw
<1>6. FddTypeOK'
  BY <1>4, <1>5 DEF FddInv, FddTypeOK
<1>7. Flags' /\ Commands' /\ Jobs'
  BY <1>4, <1>5 DEF FddInv, Flags, Commands, Jobs
<1> QED
  BY <1>6, <1>7 DEF FddInv

\* The next job is the call of the new owner.
LEMMA OpStep ==
    ASSUME FddInv, fdd_op
    PROVE  FddInv'
<1>1. /\ at = "free" /\ fdd_cs # <<>> /\ job' = Head(fdd_cs) /\ at' = "seldrive"
      /\ UNCHANGED <<fdd_cs, ctrl_state, iounit, unit, fdc, head>>
  BY DEF fdd_op
<1>2. job' \in JobRecord /\ Call(job')
  BY <1>1 DEF FddInv, FddTypeOK
<1>3. FddTypeOK'
  BY <1>1, <1>2 DEF FddInv, FddTypeOK, Working
<1>4. Flags'
  BY <1>1 DEF FddInv, Flags, Moving
<1>5. Commands'
  BY <1>1 DEF FddInv, Commands, Moving
<1>6. Jobs'
  BY <1>1, <1>2, NoJobIs DEF Jobs, Resting, Working, Serving, Call, SameCall
<1> QED
  BY <1>3, <1>4, <1>5, <1>6 DEF FddInv

\* fdd_recalibrate or fdd_op starts anew, or gives up: the job is the same
\* call or another recalibration, or there is none, and its call has failed.
Restarts ==
    /\ job' \in JobRecord
    /\ \/ /\ at' = "seldrive" /\ job'.u \in Unit /\ job'.c = job.c
          /\ job.c = None => job'.recal > 0
          /\ job.c # None => SameCall(job', job)
          /\ job.c # None => job'.moved = job.moved
          /\ UNCHANGED <<fdd_cs, result>>
       \/ /\ at' = "free" /\ job' = NoJob
          /\ \/ job.c = None /\ UNCHANGED <<fdd_cs, result>>
             \/ /\ job.c # None /\ fdd_cs' = Tail(fdd_cs)
                /\ result' = [result EXCEPT ![job.c] = "error"]

LEMMA NextSeekRestarts ==
    ASSUME job \in JobRecord, job.u \in Unit, job.c # None,
           NEW j \in JobRecord, SameCall(j, job), j.c = job.c, j.moved = job.moved,
           NextSeek(j)
    PROVE  Restarts
<1>1. CASE j.seeks + 1 < FDD_RETRY
  <2>1. /\ job' = [j EXCEPT !.seeks = @ + 1, !.recal = 0, !.ops = 0]
        /\ at' = "seldrive" /\ UNCHANGED <<fdd_cs, result>>
    BY <1>1 DEF NextSeek
  <2>2. /\ job'.c = j.c /\ job'.u = j.u /\ job'.cyl = j.cyl
        /\ (job'.doread <=> j.doread) /\ job'.moved = j.moved
    BY <2>1 DEF JobRecord
  <2>3. job' \in JobRecord
    <3>1. PICK k : k = [j EXCEPT !.seeks = @ + 1]
      OBVIOUS
    <3>2. k \in JobRecord
      BY <3>1 DEF JobRecord
    <3>3. PICK l : l = [k EXCEPT !.recal = 0]
      OBVIOUS
    <3>4. l \in JobRecord
      BY <3>2, <3>3 DEF JobRecord
    <3>5. job' = [l EXCEPT !.ops = 0]
      BY <2>1, <3>1, <3>3
    <3> QED
      BY <3>4, <3>5 DEF JobRecord
  <2>4. SameCall(job', job) /\ job'.u \in Unit
    BY <2>2 DEF SameCall
  <2> QED
    BY <2>1, <2>2, <2>3, <2>4 DEF Restarts
<1>2. CASE ~ (j.seeks + 1 < FDD_RETRY)
  BY <1>2, NoJobIs DEF NextSeek, Returns, Restarts
<1> QED
  BY <1>1, <1>2

LEMMA NextRecalRestarts ==
    ASSUME job.c = None, NextRecal, UNCHANGED <<fdd_cs, result>>
    PROVE  Restarts
<1>1. CASE at' = "free" /\ job' = NoJob
  BY <1>1, NoJobIs DEF Restarts
<1>2. ASSUME NEW u \in NextUnit, at' = "seldrive", job' = [NoJob EXCEPT !.u = u, !.recal = 1]
      PROVE  Restarts
  <2>1. u \in Unit
    BY <1>2 DEF NextUnit
  <2>2. job' \in JobRecord /\ job'.u = u /\ job'.c = None /\ job'.recal = 1
    BY <1>2, <2>1, FddAssumption DEF JobRecord, NoJob
  <2> QED
    BY <1>2, <2>1, <2>2 DEF Restarts
<1> QED
  BY <1>1, <1>2 DEF NextRecal

LEMMA TryAgainRestarts ==
    ASSUME job \in JobRecord, job.u \in Unit, TryAgain
    PROVE  Restarts
<1>1. CASE job.recal \in 1 .. FDD_RETRY - 1
  <2>1. /\ job' = [job EXCEPT !.recal = @ + 1] /\ at' = "seldrive"
        /\ UNCHANGED <<fdd_cs, result>>
    BY <1>1 DEF TryAgain
  <2>2. /\ job' \in JobRecord /\ job'.c = job.c /\ SameCall(job', job)
        /\ job'.u \in Unit /\ job'.moved = job.moved /\ job'.recal > 0
    BY <2>1 DEF JobRecord, SameCall
  <2> QED
    BY <2>1, <2>2 DEF Restarts
<1>2. CASE ~ (job.recal \in 1 .. FDD_RETRY - 1) /\ job.c = None
  BY <1>2, NextRecalRestarts DEF TryAgain
<1>3. CASE ~ (job.recal \in 1 .. FDD_RETRY - 1) /\ job.c # None
  <2>1. NextSeek(job)
    BY <1>3 DEF TryAgain
  <2>2. SameCall(job, job)
    BY DEF SameCall
  <2> QED
    BY <1>3, <2>1, <2>2, NextSeekRestarts
<1> QED
  BY <1>1, <1>2, <1>3

\* After that the job is right, and its place.
LEMMA RestartedJob ==
    ASSUME FddInv, Restarts
    PROVE  /\ at' \in {"seldrive", "free"} /\ job' \in JobRecord
           /\ fdd_cs' \in Seq(JobRecord) /\ \A i \in DOMAIN fdd_cs' : Call(fdd_cs'[i])
           /\ Jobs'
<1>1. CASE /\ at' = "seldrive" /\ job'.u \in Unit /\ job'.c = job.c
           /\ job.c = None => job'.recal > 0
           /\ job.c # None => SameCall(job', job)
           /\ UNCHANGED <<fdd_cs, result>>
  <2>1. job'.c # None => fdd_cs' # <<>> /\ SameCall(job', Head(fdd_cs'))
    BY <1>1 DEF FddInv, Jobs, SameCall
  <2> QED
    BY <1>1, <2>1 DEF Restarts, FddInv, FddTypeOK, Jobs, Resting, Working, Serving
<1>2. CASE at' = "free" /\ job' = NoJob /\ UNCHANGED fdd_cs
  BY <1>2, NoJobIs DEF FddInv, FddTypeOK, Jobs, Resting, Working, Serving
<1>3. CASE at' = "free" /\ job' = NoJob /\ job.c # None /\ fdd_cs' = Tail(fdd_cs)
  <2>1. fdd_cs # <<>> /\ fdd_cs \in Seq(JobRecord) /\ \A i \in DOMAIN fdd_cs : Call(fdd_cs[i])
    BY <1>3 DEF FddInv, FddTypeOK, Jobs
  <2>2. fdd_cs' \in Seq(JobRecord) /\ \A i \in DOMAIN fdd_cs' : Call(fdd_cs'[i])
    BY <1>3, <2>1
  <2> QED
    BY <1>3, <2>2, NoJobIs DEF Jobs, Resting, Working, Serving
<1> QED
  BY <1>1, <1>2, <1>3 DEF Restarts

\* The controller has been given a drive to move, or has ended its move.
SeeksSet(F, G, u, y) ==
    /\ G \in FdcRecord /\ G.seeks[u] = y /\ \A v \in Unit : v # u => G.seeks[v] = F.seeks[v]
    /\ G.phase = F.phase /\ G.irq = F.irq /\ G.info = F.info /\ G.arg = F.arg

LEMMA SetSeeks ==
    ASSUME NEW F \in FdcRecord, NEW u \in Unit, NEW y \in Cyl \cup {None},
           NEW G, G = [F EXCEPT !.seeks[u] = y]
    PROVE  SeeksSet(F, G, u, y)
<1> DEFINE r == [F.seeks EXCEPT ![u] = y]
<1>1. F.seeks \in [Unit -> Cyl \cup {None}]
  BY DEF FdcRecord
<1>2. /\ r \in [Unit -> Cyl \cup {None}] /\ r[u] = y
      /\ \A v \in Unit : v # u => r[v] = F.seeks[v]
  BY <1>1
<1>3. G = [F EXCEPT !.seeks = r]
  OBVIOUS
<1> HIDE DEF r
<1>4. /\ G \in FdcRecord /\ G.seeks = r
      /\ G.phase = F.phase /\ G.irq = F.irq /\ G.info = F.info /\ G.arg = F.arg
  BY <1>2, <1>3 DEF FdcRecord
<1> QED
  BY <1>2, <1>4 DEF SeeksSet

-----------------------------------------------------------------------------
(* One lemma for each step of the driver.                                  *)

LEMMA SeldriveStep ==
    ASSUME FddInv, fdd_seldrive
    PROVE  FddInv'
<1>1. /\ at = "seldrive" /\ at' \in {"specify", "spinup"}
      /\ unit' = unit \/ unit' = KeepsMotorOn(job.u, unit[job.u].state)
      /\ UNCHANGED <<job, fdd_cs, ctrl_state, iounit, fdc, head>>
  BY DEF fdd_seldrive
<1>2. job.u \in Unit /\ unit \in [Unit -> UnitRecord]
  BY <1>1 DEF FddInv, FddTypeOK, Jobs, Working
<1>3. unit' \in [Unit -> UnitRecord] /\ \A v \in Unit : unit'[v].state = unit[v].state
  BY <1>1, <1>2, KeepMotorOn
<1>4. FddTypeOK'
  BY <1>1, <1>3 DEF FddInv, FddTypeOK, Working
<1>5. Flags'
  BY <1>1, <1>3 DEF FddInv, Flags, Moving
<1>6. Commands'
  BY <1>1 DEF FddInv, Commands, Moving
<1>7. Jobs'
  BY <1>1 DEF FddInv, Jobs, Resting, Working, Serving
<1> QED
  BY <1>4, <1>5, <1>6, <1>7 DEF FddInv

LEMMA SpunUpStep ==
    ASSUME FddInv, fdd_spun_up
    PROVE  FddInv'
<1>1. /\ at = "spinup" /\ at' = "specify"
      /\ unit' = KeepsMotorOn(job.u, unit[job.u].state)
      /\ UNCHANGED <<job, fdd_cs, ctrl_state, iounit, fdc, head>>
  BY DEF fdd_spun_up
<1>2. job.u \in Unit /\ unit \in [Unit -> UnitRecord]
  BY <1>1 DEF FddInv, FddTypeOK, Jobs, Working
<1>3. unit' \in [Unit -> UnitRecord] /\ \A v \in Unit : unit'[v].state = unit[v].state
  BY <1>1, <1>2, KeepMotorOn
<1>4. FddTypeOK'
  BY <1>1, <1>3 DEF FddInv, FddTypeOK, Working
<1>5. Flags'
  BY <1>1, <1>3 DEF FddInv, Flags, Moving
<1>6. Commands'
  BY <1>1 DEF FddInv, Commands, Moving
<1>7. Jobs'
  BY <1>1 DEF FddInv, Jobs, Resting, Working, Serving
<1> QED
  BY <1>4, <1>5, <1>6, <1>7 DEF FddInv

\* The controller is as it was, or it locks up.
SameFdc(F, G) == \/ G = F
                 \/ G = [F EXCEPT !.phase = "locked"]

LEMMA FdcKept ==
    ASSUME NEW F \in FdcRecord, NEW G, SameFdc(F, G)
    PROVE  /\ G \in FdcRecord /\ G.seeks = F.seeks /\ G.irq = F.irq
           /\ G.info = F.info /\ G.arg = F.arg
           /\ G.phase \in {F.phase, "locked"}
BY DEF SameFdc, FdcRecord

SpecifyFailed == TryAgain /\ UNCHANGED unit

LEMMA SpecifyIs ==
    fdd_specify => /\ at = "specify" /\ (SpecifySent \/ SpecifyFailed)
                   /\ SameFdc(fdc, fdc')
                   /\ UNCHANGED <<calls, ctrl_state, iounit, seldrive, motor_bits,
                                  motor_task, late, dor, dma, head, disk, buf>>
<1> SUFFICES ASSUME fdd_specify
             PROVE  /\ at = "specify" /\ (SpecifySent \/ SpecifyFailed)
                    /\ SameFdc(fdc, fdc')
                    /\ UNCHANGED <<calls, ctrl_state, iounit, seldrive, motor_bits,
                                   motor_task, late, dor, dma, head, disk, buf>>
  OBVIOUS
<1>1. SameFdc(fdc, fdc')
  BY Zenon DEF fdd_specify, LocksUp, SameFdc
<1>2. SpecifySent \/ SpecifyFailed
  BY Zenon DEF fdd_specify, SpecifyFailed
<1> QED
  BY <1>1, <1>2, Zenon DEF fdd_specify

LEMMA SpecifyStep ==
    ASSUME FddInv, fdd_specify
    PROVE  FddInv'
<1>1. /\ at = "specify" /\ (SpecifySent \/ SpecifyFailed)
      /\ UNCHANGED <<ctrl_state, iounit, head>> /\ SameFdc(fdc, fdc')
  BY SpecifyIs
<1>0. /\ fdc' \in FdcRecord /\ fdc'.seeks = fdc.seeks /\ fdc'.irq = fdc.irq
      /\ fdc'.info = fdc.info /\ fdc'.phase \in {fdc.phase, "locked"}
  BY <1>1, FdcKept DEF FddInv, FddTypeOK
<1>2. /\ job.u \in Unit /\ unit \in [Unit -> UnitRecord] /\ job \in JobRecord
      /\ job.c = None => job.recal > 0
  BY <1>1 DEF FddInv, FddTypeOK, Jobs, Working
<1>3. CASE SpecifySent
  <2>1. unit' \in [Unit -> UnitRecord] /\ \A v \in Unit :
            unit'[v].state = unit[v].state \/ unit'[v].state = "idle"
    <3>1. CASE job.recal > 0
      BY <1>2, <1>3, <3>1 DEF SpecifySent
    <3>2. CASE ~ (job.recal > 0)
      <4>1. unit' = [unit EXCEPT ![job.u].state = "idle"]
        BY <1>3, <3>2 DEF SpecifySent
      <4>2. "idle" \in UnitState
        BY DEF UnitState
      <4>3. StateSet(unit, unit', job.u, "idle")
        BY <1>2, <4>1, <4>2, SetState
      <4> QED
        BY <4>3 DEF StateSet
    <3> QED
      BY <3>1, <3>2
  <2>2. /\ job' \in JobRecord /\ job'.u = job.u /\ job'.c = job.c /\ SameCall(job', job)
        /\ at' \in {"recal", "seldrive", "seek"}
        /\ at' = "seek" => ~ (job.recal > 0)
        /\ at' # "seek" => job'.recal > 0
        /\ UNCHANGED fdd_cs
    BY <1>2, <1>3 DEF SpecifySent, JobRecord, SameCall
  <2>3. FddTypeOK'
    BY <1>0, <1>1, <2>1, <2>2 DEF FddInv, FddTypeOK, Working
  <2>4. Flags'
    BY <1>1, <2>1, <2>2 DEF FddInv, Flags, Moving
  <2>5. Commands'
    BY <1>0, <1>1, <2>2 DEF FddInv, Commands, Moving
  <2>6. Jobs'
    <3>1. job'.c # None => fdd_cs' # <<>> /\ SameCall(job', Head(fdd_cs'))
      BY <2>2 DEF FddInv, Jobs, SameCall
    <3> QED
      BY <1>2, <2>2, <3>1 DEF Jobs, Resting, Working, Serving
  <2> QED
    BY <2>3, <2>4, <2>5, <2>6 DEF FddInv
<1>4. CASE SpecifyFailed
  <2>1. Restarts
    BY <1>2, <1>4, TryAgainRestarts DEF SpecifyFailed
  <2>2. /\ at' \in {"seldrive", "free"} /\ job' \in JobRecord
        /\ fdd_cs' \in Seq(JobRecord) /\ \A i \in DOMAIN fdd_cs' : Call(fdd_cs'[i])
        /\ Jobs'
    BY <2>1, RestartedJob
  <2>3. UNCHANGED unit
    BY <1>4 DEF SpecifyFailed
  <2>4. FddTypeOK'
    BY <1>0, <1>1, <2>2, <2>3 DEF FddInv, FddTypeOK, Working, Resting
  <2>5. Flags'
    BY <1>1, <2>2, <2>3 DEF FddInv, Flags, Moving
  <2>6. Commands'
    BY <1>0, <1>1, <2>2 DEF FddInv, Commands, Moving
  <2> QED
    BY <2>2, <2>4, <2>5, <2>6 DEF FddInv
<1> QED
  BY <1>1, <1>3, <1>4

\* fdd_recalibrate and fdd_seek: the drive moves.
LEMMA MoveStep ==
    ASSUME FddInv, NEW y \in Cyl, NEW place \in Moving,
           at \in {"recal", "seek"}, at = "recal" => place = "recalwait",
           TakesCommand, at' = place,
           unit' = [unit EXCEPT ![job.u].state = "seeking"],
           ctrl_state' = ctrl_state \cup {"SEEKING"}, Moves(job.u, y),
           UNCHANGED <<job, fdd_cs, iounit, head>>
    PROVE  FddInv'
<1>1. job.u \in Unit /\ unit \in [Unit -> UnitRecord] /\ fdc \in FdcRecord
  BY DEF FddInv, FddTypeOK, Jobs, Working
<1>2. StateSet(unit, unit', job.u, "seeking")
  <2>1. "seeking" \in UnitState
    BY DEF UnitState
  <2> QED
    BY <1>1, <2>1, SetState
<1>3. SeeksSet(fdc, fdc', job.u, y)
  BY <1>1, SetSeeks DEF Moves
<1>4. place \in {"recalwait", "seekwait"} /\ at \notin Moving /\ at # "iowait" /\ at # "reset"
  BY DEF Moving
<1>5. /\ fdc.phase = "command" /\ fdc.irq = "none"
      /\ \A u \in Unit : fdc.seeks[u] = None /\ unit[u].state # "seeking"
  BY <1>1, <1>4 DEF TakesCommand, FddInv, Commands, Flags, FdcRecord
<1>6. FddTypeOK'
  BY <1>2, <1>3, <1>4 DEF FddInv, FddTypeOK, StateSet, SeeksSet, Working
<1>7. Flags'
  BY <1>2, <1>4, <1>5 DEF FddInv, Flags, StateSet, Moving
<1>8. Commands'
  BY <1>3, <1>4, <1>5 DEF Commands, SeeksSet, Moving
<1>9. Jobs'
  BY <1>4 DEF FddInv, Jobs, Resting, Working, Serving
<1> QED
  BY <1>6, <1>7, <1>8, <1>9 DEF FddInv

LEMMA RecalibrateStep ==
    ASSUME FddInv, fdd_recalibrate
    PROVE  FddInv'
<1>1. 0 \in Cyl /\ "recalwait" \in Moving
  BY FddAssumption DEF Moving
<1> QED
  BY <1>1, MoveStep DEF fdd_recalibrate

LEMMA SeekStep ==
    ASSUME FddInv, fdd_seek
    PROVE  FddInv'
<1>1. job.cyl \in Cyl /\ "seekwait" \in Moving
  BY DEF Moving, FddInv, FddTypeOK, JobRecord
<1> QED
  BY <1>1, MoveStep DEF fdd_seek

\* fdd_recalibrated, fdd_startio_fails and fdd_io_done end in Restarts.
LEMMA RestartStep ==
    ASSUME FddInv, Restarts, at \in Working \ (Moving \cup {"iowait"}),
           unit' \in [Unit -> UnitRecord],
           \A u \in Unit : unit'[u].state = "seeking" => unit[u].state = "seeking",
           ctrl_state' \in {ctrl_state, ctrl_state \cup {"STATE"}},
           iounit' \in Unit \cup {None}, UNCHANGED <<fdc, head>>
    PROVE  FddInv'
<1>1. /\ at' \in {"seldrive", "free"} /\ job' \in JobRecord
      /\ fdd_cs' \in Seq(JobRecord) /\ \A i \in DOMAIN fdd_cs' : Call(fdd_cs'[i])
      /\ Jobs'
  BY RestartedJob
<1>2. at \notin Moving /\ at # "iowait" /\ at # "reset"
  BY DEF Working
<1>3. FddTypeOK'
  BY <1>1 DEF FddInv, FddTypeOK, Working, Resting
<1>4. Flags'
  BY <1>1, <1>2 DEF FddInv, Flags, Moving
<1>5. Commands'
  BY <1>1, <1>2 DEF FddInv, Commands, Moving
<1> QED
  BY <1>1, <1>3, <1>4, <1>5 DEF FddInv

\* The driver takes another step of the same job.
LEMMA SameJobStep ==
    ASSUME FddInv, at \in Working \ (Moving \cup {"iowait"}),
           at' \in {"seek", "io"}, job' \in JobRecord,
           job'.u = job.u, job'.c = job.c, job.c # None, SameCall(job', job),
           unit' \in [Unit -> UnitRecord],
           \A u \in Unit : unit'[u].state = "seeking" => unit[u].state = "seeking",
           ctrl_state' \in {ctrl_state, ctrl_state \cup {"STATE"}},
           iounit' \in Unit \cup {None}, UNCHANGED <<fdc, head, fdd_cs>>
    PROVE  FddInv'
<1>1. at \notin Moving /\ at # "iowait" /\ at # "reset"
  BY DEF Working
<1>2. FddTypeOK'
  BY DEF FddInv, FddTypeOK, Working
<1>3. Flags'
  BY <1>1 DEF FddInv, Flags, Moving
<1>4. Commands'
  BY <1>1 DEF FddInv, Commands, Moving
<1>5. Jobs'
  <2>1. job'.c # None => fdd_cs' # <<>> /\ SameCall(job', Head(fdd_cs'))
    BY DEF FddInv, Jobs, SameCall
  <2> QED
    BY <2>1 DEF FddInv, Jobs, Resting, Working, Serving
<1> QED
  BY <1>2, <1>3, <1>4, <1>5 DEF FddInv

LEMMA RecalibratedStep ==
    ASSUME FddInv, fdd_recalibrated
    PROVE  FddInv'
<1>1. at = "recaldone" /\ UNCHANGED <<unit, ctrl_state, iounit, fdc, head>>
  BY DEF fdd_recalibrated
<1>2. job \in JobRecord /\ job.u \in Unit /\ unit \in [Unit -> UnitRecord]
  BY <1>1 DEF FddInv, FddTypeOK, Jobs, Working
<1>3. at \in Working \ (Moving \cup {"iowait"}) /\ iounit \in Unit \cup {None}
  BY <1>1 DEF Working, Moving, FddInv, FddTypeOK
<1>4. CASE unit[job.u].res # [ic |-> "ok", cyl |-> 0]
  BY <1>1, <1>2, <1>3, <1>4, TryAgainRestarts, RestartStep DEF fdd_recalibrated
<1>5. CASE unit[job.u].res = [ic |-> "ok", cyl |-> 0] /\ job.c = None
  <2>1. NextRecal /\ UNCHANGED <<fdd_cs, result>>
    BY <1>5 DEF fdd_recalibrated
  <2> QED
    BY <1>1, <1>2, <1>3, <1>5, <2>1, NextRecalRestarts, RestartStep
<1>6. CASE unit[job.u].res = [ic |-> "ok", cyl |-> 0] /\ job.c # None
  <2>1. /\ job' = [job EXCEPT !.recal = 0, !.need_recal = FALSE]
        /\ at' = "seek" /\ UNCHANGED <<fdd_cs, result>>
    BY <1>6 DEF fdd_recalibrated
  <2>2. job' \in JobRecord /\ job'.u = job.u /\ job'.c = job.c /\ SameCall(job', job)
    BY <1>2, <2>1 DEF JobRecord, SameCall
  <2> QED
    BY <1>1, <1>2, <1>3, <1>6, <2>1, <2>2, SameJobStep
<1> QED
  BY <1>4, <1>5, <1>6

LEMMA StartioStep ==
    ASSUME FddInv, fdd_startio
    PROVE  FddInv'
<1>1. /\ at = "io" /\ TakesCommand /\ iounit' = job.u /\ at' = "iowait"
      /\ unit' = [unit EXCEPT ![job.u].state = "io"]
      /\ fdc' = [fdc EXCEPT !.phase = "exec", !.arg = <<job.u, job.cyl>>]
      /\ UNCHANGED <<job, fdd_cs, ctrl_state, head>>
  BY DEF fdd_startio
<1>2. /\ job.u \in Unit /\ job.cyl \in Cyl /\ unit \in [Unit -> UnitRecord]
      /\ fdc \in FdcRecord
  BY <1>1 DEF FddInv, FddTypeOK, Jobs, Working, JobRecord
<1>3. StateSet(unit, unit', job.u, "io")
  <2>1. "io" \in UnitState
    BY DEF UnitState
  <2> QED
    BY <1>1, <1>2, <2>1, SetState
<1>4. /\ fdc' \in FdcRecord /\ fdc'.phase = "exec" /\ fdc'.irq = fdc.irq
      /\ fdc'.seeks = fdc.seeks
  BY <1>1, <1>2 DEF FdcRecord
<1>5. at \notin Moving /\ at # "iowait" /\ at # "reset" /\ at' \notin Moving /\ at' # "reset"
  BY <1>1 DEF Moving
<1>6. fdc.irq = "none" /\ \A u \in Unit : fdc.seeks[u] = None
  BY <1>1, <1>2, <1>5 DEF FddInv, Commands, FdcRecord
<1>7. FddTypeOK'
  BY <1>1, <1>2, <1>3, <1>4 DEF FddInv, FddTypeOK, StateSet, Working
<1>8. Flags'
  BY <1>1, <1>3, <1>5 DEF FddInv, Flags, StateSet
<1>9. Commands'
  BY <1>1, <1>4, <1>5, <1>6 DEF Commands
<1>10. Jobs'
  BY <1>1 DEF FddInv, Jobs, Resting, Working, Serving
<1> QED
  BY <1>7, <1>8, <1>9, <1>10 DEF FddInv

LEMMA StartioFailsStep ==
    ASSUME FddInv, fdd_startio_fails
    PROVE  FddInv'
<1>1. /\ at = "io" /\ iounit' = job.u /\ UNCHANGED ctrl_state
      /\ unit' = [unit EXCEPT ![job.u].state = "io"] /\ UNCHANGED <<fdc, head>>
  BY DEF fdd_startio_fails
<1>2. /\ job \in JobRecord /\ job.u \in Unit /\ job.c # None
      /\ unit \in [Unit -> UnitRecord]
  BY <1>1 DEF FddInv, FddTypeOK, Jobs, Working, Serving
<1>3. unit' \in [Unit -> UnitRecord] /\ \A u \in Unit :
            unit'[u].state = "seeking" => unit[u].state = "seeking"
  <2>1. "io" \in UnitState
    BY DEF UnitState
  <2>2. StateSet(unit, unit', job.u, "io")
    BY <1>1, <1>2, <2>1, SetState
  <2> QED
    BY <2>2 DEF StateSet
<1>4. at \in Working \ (Moving \cup {"iowait"})
  BY <1>1 DEF Working, Moving
<1>5. CASE job.ops + 1 < FDD_RETRY
  <2>1. job' = [job EXCEPT !.ops = @ + 1] /\ UNCHANGED <<at, fdd_cs, result>>
    BY <1>5 DEF fdd_startio_fails
  <2>2. job' \in JobRecord /\ job'.u = job.u /\ job'.c = job.c /\ SameCall(job', job)
    BY <1>2, <2>1 DEF JobRecord, SameCall
  <2> QED
    BY <1>1, <1>2, <1>3, <1>4, <2>1, <2>2, SameJobStep
<1>6. CASE ~ (job.ops + 1 < FDD_RETRY)
  <2>1. NextSeek(job) /\ SameCall(job, job)
    BY <1>6 DEF fdd_startio_fails, SameCall
  <2>2. Restarts
    BY <1>2, <2>1, NextSeekRestarts
  <2> QED
    BY <1>1, <1>2, <1>3, <1>4, <2>2, RestartStep
<1> QED
  BY <1>5, <1>6

LEMMA IoDoneStep ==
    ASSUME FddInv, fdd_io_done
    PROVE  FddInv'
<1>1. at = "iodone" /\ UNCHANGED <<ctrl_state, iounit, fdc, head>>
  BY DEF fdd_io_done
<1>2. /\ job \in JobRecord /\ job.u \in Unit /\ job.c # None
      /\ unit \in [Unit -> UnitRecord] /\ iounit \in Unit \cup {None}
  BY <1>1 DEF FddInv, FddTypeOK, Jobs, Working, Serving
<1>3. at \in Working \ (Moving \cup {"iowait"})
  BY <1>1 DEF Working, Moving
<1>4. PICK res : res = unit[job.u].res
  OBVIOUS
<1>5. CASE Succeeds(res)
  <2>1. unit' = [unit EXCEPT ![job.u].state = "idle"] /\ Returns("ok")
    BY <1>4, <1>5 DEF fdd_io_done
  <2>2. unit' \in [Unit -> UnitRecord] /\ \A u \in Unit :
            unit'[u].state = "seeking" => unit[u].state = "seeking"
    <3>1. "idle" \in UnitState
      BY DEF UnitState
    <3>2. StateSet(unit, unit', job.u, "idle")
      BY <1>2, <2>1, <3>1, SetState
    <3> QED
      BY <3>2 DEF StateSet
  <2>3. at' = "free" /\ job' = NoJob /\ fdd_cs' = Tail(fdd_cs)
    BY <2>1 DEF Returns
  <2>4. fdd_cs # <<>> /\ fdd_cs \in Seq(JobRecord) /\ \A i \in DOMAIN fdd_cs : Call(fdd_cs[i])
    BY <1>2 DEF FddInv, FddTypeOK, Jobs
  <2>5. fdd_cs' \in Seq(JobRecord) /\ \A i \in DOMAIN fdd_cs' : Call(fdd_cs'[i])
    BY <2>3, <2>4
  <2>6. FddTypeOK'
    BY <1>1, <2>2, <2>3, <2>5, NoJobIs DEF FddInv, FddTypeOK, Resting
  <2>7. Flags'
    BY <1>1, <2>2, <2>3 DEF FddInv, Flags, Moving
  <2>8. Commands'
    BY <1>1, <2>3 DEF FddInv, Commands, Moving
  <2>9. Jobs'
    BY <2>3, NoJobIs DEF Jobs, Resting, Working, Serving
  <2> QED
    BY <2>6, <2>7, <2>8, <2>9 DEF FddInv
<1>6. CASE ~ Succeeds(res) /\ res # None /\ res.ic = "wrongcyl"
  <2>1. PICK j : j = [job EXCEPT !.need_recal = TRUE]
    OBVIOUS
  <2>2. NextSeek(j) /\ UNCHANGED unit
    BY <1>4, <1>6, <2>1 DEF fdd_io_done
  <2>3. j \in JobRecord /\ j.c = job.c /\ SameCall(j, job) /\ j.moved = job.moved
    BY <1>2, <2>1 DEF JobRecord, SameCall
  <2>4. Restarts
    BY <1>2, <2>2, <2>3, NextSeekRestarts
  <2> QED
    BY <1>1, <1>2, <1>3, <2>2, <2>4, RestartStep
<1>7. CASE ~ Succeeds(res) /\ ~ (res # None /\ res.ic = "wrongcyl") /\ job.ops + 1 < FDD_RETRY
  <2>1. /\ job' = [job EXCEPT !.ops = @ + 1] /\ at' = "io"
        /\ UNCHANGED <<fdd_cs, result, unit>>
    BY <1>4, <1>7 DEF fdd_io_done
  <2>2. job' \in JobRecord /\ job'.u = job.u /\ job'.c = job.c /\ SameCall(job', job)
    BY <1>2, <2>1 DEF JobRecord, SameCall
  <2> QED
    BY <1>1, <1>2, <1>3, <2>1, <2>2, SameJobStep
<1>8. CASE ~ Succeeds(res) /\ ~ (res # None /\ res.ic = "wrongcyl") /\ ~ (job.ops + 1 < FDD_RETRY)
  <2>1. NextSeek(job) /\ SameCall(job, job) /\ UNCHANGED unit
    BY <1>4, <1>8 DEF fdd_io_done, SameCall
  <2>2. Restarts
    BY <1>2, <2>1, NextSeekRestarts
  <2> QED
    BY <1>1, <1>2, <1>3, <2>1, <2>2, RestartStep
<1> QED
  BY <1>5, <1>6, <1>7, <1>8

-----------------------------------------------------------------------------
(* The interrupt                                                           *)

LEMMA IntrResetStep ==
    ASSUME FddInv, fdd_intr_reset
    PROVE  FddInv'
<1>1. /\ "RESET" \in ctrl_state /\ SameFdc([fdc EXCEPT !.irq = "none"], fdc')
      /\ UNCHANGED <<fdd_cs, iounit, unit, head>>
  BY DEF fdd_intr_reset, LocksUp, SameFdc
<1>2. at = "reset" /\ job = NoJob /\ fdc \in FdcRecord /\ "SEEKING" \notin ctrl_state
  BY <1>1 DEF FddInv, FddTypeOK, Flags, Jobs, Resting, Moving
<1>3. /\ fdc' \in FdcRecord /\ fdc'.irq = "none"
      /\ fdc'.phase \in {fdc.phase, "locked"} /\ fdc'.seeks = fdc.seeks
  <2>1. PICK F : F = [fdc EXCEPT !.irq = "none"]
    OBVIOUS
  <2>2. F \in FdcRecord /\ F.irq = "none" /\ F.phase = fdc.phase /\ F.seeks = fdc.seeks
    BY <1>2, <2>1 DEF FdcRecord
  <2> QED
    BY <1>1, <2>1, <2>2, FdcKept
<1>4. \/ at' = "free" /\ job' = job /\ ctrl_state' = (ctrl_state \ {"RESET"}) \cup {"TIMEOUT"}
      \/ /\ at' = "seldrive" /\ ctrl_state' = (ctrl_state \ {"RESET"}) \cup {"CONFIG"}
         /\ job' = [NoJob EXCEPT !.u = FirstUnit, !.recal = 1]
  BY DEF fdd_intr_reset
<1>5. at' = "seldrive" => job' \in JobRecord /\ job'.c = None /\ job'.recal = 1 /\ job'.u \in Unit
  <2> SUFFICES ASSUME at' = "seldrive"
               PROVE  job' \in JobRecord /\ job'.c = None /\ job'.recal = 1 /\ job'.u \in Unit
    OBVIOUS
  <2>1. job' = [NoJob EXCEPT !.u = FirstUnit, !.recal = 1]
    BY <1>4
  <2> QED
    BY <2>1, LeastUnit, FddAssumption DEF JobRecord, NoJob
<1>6. FddTypeOK'
  BY <1>1, <1>2, <1>3, <1>4, <1>5, NoJobIs DEF FddInv, FddTypeOK, Working, Resting
<1>7. Flags'
  BY <1>1, <1>2, <1>4 DEF FddInv, Flags, Moving
<1>8. Commands'
  BY <1>2, <1>3, <1>4 DEF FddInv, Commands, Moving
<1>9. Jobs'
  BY <1>2, <1>4, <1>5, NoJobIs DEF Jobs, Resting, Working, Serving
<1> QED
  BY <1>6, <1>7, <1>8, <1>9 DEF FddInv

\* Only the drive that moves can interrupt then, and the flag is taken back.
LEMMA IntrSeekStep ==
    ASSUME FddInv, fdd_intr_seek
    PROVE  FddInv'
<1>1. /\ fdc.irq # "none" /\ "SEEKING" \in ctrl_state
      /\ UNCHANGED <<job, fdd_cs, iounit, head>>
  BY DEF fdd_intr_seek
<1>2. /\ at \in Moving /\ fdc \in FdcRecord /\ unit \in [Unit -> UnitRecord]
      /\ job.u \in Unit
  BY <1>1 DEF FddInv, FddTypeOK, Flags, Jobs, Working, Moving
<1>3. /\ fdc.irq = "seek" /\ fdc.phase = "command" /\ "RESET" \notin ctrl_state
      /\ fdc.info \in SeekInfo /\ fdc.info.u = job.u
      /\ \A u \in Unit : fdc.seeks[u] = None
  BY <1>1, <1>2 DEF FddInv, Commands, Flags, FdcRecord, Moving
<1>4. CASE /\ HasSense /\ fdc' = [fdc EXCEPT !.irq = "none", !.info = None]
           /\ unit' = [unit EXCEPT ![fdc.info.u].state = "seekdone",
                         ![fdc.info.u].res = [ic |-> fdc.info.ic, cyl |-> fdc.info.cyl]]
           /\ ctrl_state' = SeekFlag(unit')
           /\ at' = IF fdc.info.u = job.u THEN Woken ELSE at
  <2>1. fdc' \in FdcRecord /\ fdc'.irq = "none" /\ fdc'.phase = "command" /\ fdc'.seeks = fdc.seeks
    BY <1>2, <1>3, <1>4 DEF FdcRecord
  <2>2. PICK r : r = [ic |-> fdc.info.ic, cyl |-> fdc.info.cyl]
    OBVIOUS
  <2>3. r \in UnitResult
    BY <1>3, <2>2 DEF SeekInfo, UnitResult
  <2>4. PICK v : v = [unit[job.u] EXCEPT !.state = "seekdone", !.res = r]
    OBVIOUS
  <2>5. v \in UnitRecord /\ v.state = "seekdone"
    BY <1>2, <2>3, <2>4 DEF UnitRecord, UnitState
  <2>6. unit' = [unit EXCEPT ![job.u] = v]
    BY <1>2, <1>3, <1>4, <2>2, <2>4
  <2>7. unit' \in [Unit -> UnitRecord] /\ \A u \in Unit : unit'[u].state # "seeking"
    BY <1>2, <2>5, <2>6 DEF FddInv, Flags
  <2>8. at' \in {"recaldone", "io"} /\ (at = "seekwait" <=> at' = "io")
    BY <1>2, <1>3, <1>4 DEF Woken, Moving
  <2>9. ctrl_state' = ctrl_state \ {"SEEKING"}
    BY <1>4, <2>7 DEF SeekFlag
  <2>10. FddTypeOK'
    BY <1>1, <2>1, <2>7, <2>8 DEF FddInv, FddTypeOK, Working
  <2>11. Flags'
    BY <1>3, <2>7, <2>8, <2>9 DEF Flags, Moving
  <2>12. Commands'
    BY <1>3, <2>1, <2>8 DEF Commands, Moving
  <2>13. Jobs'
    BY <1>1, <1>2, <2>8 DEF FddInv, Jobs, Resting, Working, Serving, Moving
  <2> QED
    BY <2>10, <2>11, <2>12, <2>13 DEF FddInv
<1>5. CASE fdc' = [fdc EXCEPT !.irq = "none"] /\ UNCHANGED <<unit, ctrl_state, at>>
  <2>1. fdc' \in FdcRecord /\ fdc'.irq = "none" /\ fdc'.phase = "command" /\ fdc'.seeks = fdc.seeks
    BY <1>2, <1>3, <1>5 DEF FdcRecord
  <2>2. FddTypeOK'
    BY <1>1, <1>5, <2>1 DEF FddInv, FddTypeOK
  <2>3. Flags' /\ Jobs'
    BY <1>1, <1>5 DEF FddInv, Flags, Jobs
  <2>4. Commands'
    BY <1>2, <1>3, <1>5, <2>1 DEF Commands, Moving
  <2> QED
    BY <2>2, <2>3, <2>4 DEF FddInv
<1> QED
  BY <1>4, <1>5 DEF fdd_intr_seek

LEMMA IntrIoStep ==
    ASSUME FddInv, fdd_intr_io
    PROVE  FddInv'
<1>1. /\ fdc.irq # "none" /\ ctrl_state \cap {"RESET", "SEEKING"} = {}
      /\ at' = IF iounit = job.u THEN Woken ELSE at
      /\ iounit' = None /\ UNCHANGED <<job, fdd_cs, ctrl_state, head>>
  BY DEF fdd_intr_io
<1>2. /\ at # "reset" /\ at \notin Moving /\ fdc \in FdcRecord
      /\ unit \in [Unit -> UnitRecord]
  BY <1>1 DEF FddInv, FddTypeOK, Flags
<1>3. fdc.irq = "io"
  BY <1>1, <1>2 DEF FddInv, Commands, FdcRecord
<1>4. at = "iowait" /\ fdc.phase = "result" /\ fdc.info \in IoInfo /\ iounit = job.u
  BY <1>3 DEF FddInv, Commands
<1>5. job.u \in Unit /\ job.c # None /\ at' = "iodone"
  BY <1>1, <1>4 DEF FddInv, Jobs, Working, Serving, Woken
<1>6. \A u \in Unit : fdc.seeks[u] = None /\ unit[u].state # "seeking"
  BY <1>2 DEF FddInv, Flags, Commands
<1>7. PICK r : r \in {fdc.info, None} /\ unit' = [unit EXCEPT ![iounit].res = r]
  BY DEF fdd_intr_io
<1>8. r \in UnitResult
  BY <1>4, <1>7 DEF UnitResult
<1>9. PICK v : v = [unit[job.u] EXCEPT !.res = r]
  OBVIOUS
<1>10. v \in UnitRecord /\ v.state = unit[job.u].state
  BY <1>2, <1>5, <1>8, <1>9 DEF UnitRecord
<1>11. unit' = [unit EXCEPT ![job.u] = v]
  BY <1>2, <1>4, <1>7, <1>9
<1>12. unit' \in [Unit -> UnitRecord] /\ \A u \in Unit : unit'[u].state # "seeking"
  BY <1>2, <1>5, <1>6, <1>10, <1>11
<1>13. \/ fdc' = [fdc EXCEPT !.irq = "none", !.info = None, !.phase = "command"]
       \/ fdc' = [fdc EXCEPT !.irq = "none"]
  BY DEF fdd_intr_io
<1>14. /\ fdc' \in FdcRecord /\ fdc'.irq = "none" /\ fdc'.phase # "exec"
       /\ fdc'.seeks = fdc.seeks
  BY <1>2, <1>4, <1>13 DEF FdcRecord
<1>15. FddTypeOK'
  BY <1>1, <1>5, <1>12, <1>14 DEF FddInv, FddTypeOK, Working
<1>16. Flags'
  BY <1>1, <1>5, <1>12 DEF Flags, Moving
<1>17. Commands'
  BY <1>5, <1>6, <1>14 DEF Commands, Moving
<1>18. Jobs'
  BY <1>1, <1>5 DEF FddInv, Jobs, Resting, Working, Serving
<1> QED
  BY <1>15, <1>16, <1>17, <1>18 DEF FddInv

-----------------------------------------------------------------------------
(* The motor task and the hardware                                         *)

\* The motor task counts down timeouts, nothing else of a drive.
LEMMA CountDown ==
    ASSUME unit \in [Unit -> UnitRecord], fdd_motor_task
    PROVE  /\ unit' \in [Unit -> UnitRecord]
           /\ \A u \in Unit : unit'[u].state = unit[u].state
           /\ \A u \in Unit : unit'[u].res = unit[u].res
           /\ \A u \in Unit : unit'[u].tmo \in {unit[u].tmo, unit[u].tmo - 1}
<1>1. unit' = [u \in Unit |-> IF u \in motor_bits /\ unit[u].tmo > 0
                              THEN [unit[u] EXCEPT !.tmo = @ - 1] ELSE unit[u]]
  BY DEF fdd_motor_task
<1>2. ASSUME NEW u \in Unit
      PROVE  /\ unit'[u] \in UnitRecord /\ unit'[u].state = unit[u].state
             /\ unit'[u].res = unit[u].res
             /\ unit'[u].tmo \in {unit[u].tmo, unit[u].tmo - 1}
  <2>1. unit[u] \in UnitRecord
    OBVIOUS
  <2>2. CASE u \in motor_bits /\ unit[u].tmo > 0
    <3>1. unit'[u] = [unit[u] EXCEPT !.tmo = @ - 1]
      BY <1>1, <2>2
    <3> QED
      BY <2>1, <2>2, <3>1 DEF UnitRecord
  <2>3. CASE ~ (u \in motor_bits /\ unit[u].tmo > 0)
    BY <1>1, <2>1, <2>3
  <2> QED
    BY <2>2, <2>3
<1> QED
  BY <1>1, <1>2

LEMMA MotorStep ==
    ASSUME FddInv, fdd_motor_task
    PROVE  FddInv'
<1>1. unit' \in [Unit -> UnitRecord] /\ \A u \in Unit : unit'[u].state = unit[u].state
  BY CountDown DEF FddInv, FddTypeOK
<1>2. UNCHANGED <<at, job, fdd_cs, ctrl_state, iounit, fdc, head>>
  BY DEF fdd_motor_task
<1>3. FddTypeOK'
  BY <1>1, <1>2 DEF FddInv, FddTypeOK
<1>4. Flags'
  BY <1>1, <1>2 DEF FddInv, Flags
<1>5. Commands' /\ Jobs'
  BY <1>2 DEF FddInv, Commands, Jobs
<1> QED
  BY <1>3, <1>4, <1>5 DEF FddInv

\* The drive that has been told to move interrupts.
LEMMA SeekEndsStep ==
    ASSUME FddInv, NEW u \in Unit, SeekEnds(u)
    PROVE  FddInv'
<1>1. /\ fdc.seeks[u] # None
      /\ UNCHANGED <<at, job, fdd_cs, ctrl_state, iounit, unit>>
  BY DEF SeekEnds, driver
<1>2. /\ at \in Moving /\ u = job.u /\ fdc \in FdcRecord /\ head \in [Unit -> Cyl]
      /\ fdc.phase = "command"
  BY <1>1 DEF FddInv, FddTypeOK, Commands
<1>3. PICK y \in Cyl : head' = [head EXCEPT ![u] = y]
  BY <1>1, <1>2 DEF SeekEnds, FdcRecord
<1>4. head' \in [Unit -> Cyl] /\ head'[u] = y
  BY <1>2, <1>3
<1>5. PICK ic \in {"ok", "abort"} :
        fdc' = [fdc EXCEPT !.seeks[u] = None, !.irq = "seek",
                           !.info = [u |-> u, ic |-> ic, cyl |-> head'[u]]]
  BY DEF SeekEnds
<1>6. PICK n : n = [u |-> u, ic |-> ic, cyl |-> y]
  OBVIOUS
<1>7. n \in SeekInfo /\ n.u = job.u
  BY <1>2, <1>6 DEF SeekInfo, Ic
<1>8. PICK F : F = [fdc EXCEPT !.seeks[u] = None]
  OBVIOUS
<1>9. SeeksSet(fdc, F, u, None)
  BY <1>2, <1>8, SetSeeks
<1>10. fdc' = [F EXCEPT !.irq = "seek", !.info = n]
  BY <1>4, <1>5, <1>6, <1>8
<1>11. /\ fdc' \in FdcRecord /\ fdc'.irq = "seek" /\ fdc'.info = n /\ fdc'.phase = "command"
       /\ fdc'.seeks = F.seeks
  BY <1>2, <1>7, <1>9, <1>10 DEF SeeksSet, FdcRecord
<1>12. \A v \in Unit : fdc'.seeks[v] = None
  BY <1>2, <1>9, <1>11 DEF SeeksSet, FddInv, Commands
<1>13. FddTypeOK'
  BY <1>1, <1>4, <1>11 DEF FddInv, FddTypeOK
<1>14. Flags' /\ Jobs'
  BY <1>1 DEF FddInv, Flags, Jobs
<1>15. Commands'
  BY <1>1, <1>2, <1>7, <1>11, <1>12 DEF Commands, Moving
<1> QED
  BY <1>13, <1>14, <1>15 DEF FddInv

\* The transfer ends with an interrupt, and its data may have been moved.
LEMMA IoEndsStep ==
    ASSUME FddInv, IoEnds
    PROVE  FddInv'
<1>1. /\ fdc.phase = "exec"
      /\ UNCHANGED <<at, fdd_cs, ctrl_state, iounit, unit, head>>
      /\ job' \in {job, [job EXCEPT !.moved = TRUE]}
  BY DEF IoEnds, Moved
<1>2. PICK ic \in Ic : fdc' = [fdc EXCEPT !.phase = "result", !.irq = "io", !.info = [ic |-> ic]]
  BY DEF IoEnds, Ic
<1>3. /\ at = "iowait" /\ fdc.irq = "none" /\ iounit = job.u /\ fdc \in FdcRecord
      /\ job \in JobRecord /\ job.c # None /\ \A u \in Unit : fdc.seeks[u] = None
  BY <1>1 DEF FddInv, FddTypeOK, Commands, Jobs, Serving, Moving
<1>4. PICK n : n = [ic |-> ic]
  OBVIOUS
<1>5. n \in IoInfo
  BY <1>4 DEF IoInfo
<1>6. /\ fdc' \in FdcRecord /\ fdc'.irq = "io" /\ fdc'.info = n /\ fdc'.phase = "result"
      /\ fdc'.seeks = fdc.seeks
  BY <1>2, <1>3, <1>4, <1>5 DEF FdcRecord
<1>7. job' \in JobRecord /\ job'.u = job.u /\ job'.c = job.c /\ SameCall(job', job)
  BY <1>1, <1>3 DEF JobRecord, SameCall
<1>8. FddTypeOK'
  BY <1>1, <1>6, <1>7 DEF FddInv, FddTypeOK
<1>9. Flags'
  BY <1>1, <1>7 DEF FddInv, Flags
<1>10. Commands'
  BY <1>1, <1>3, <1>5, <1>6, <1>7 DEF Commands, Moving
<1>11. Jobs'
  <2>1. job'.c # None => fdd_cs' # <<>> /\ SameCall(job', Head(fdd_cs'))
    BY <1>1, <1>7 DEF FddInv, Jobs, SameCall
  <2> QED
    BY <1>1, <1>3, <1>7, <2>1 DEF FddInv, Jobs, Resting, Working, Serving
<1> QED
  BY <1>8, <1>9, <1>10, <1>11 DEF FddInv

LEMMA StutterStep ==
    ASSUME FddInv, UNCHANGED vars
    PROVE  FddInv'
BY DEF FddInv, FddTypeOK, Flags, Commands, Jobs, vars, driver

LEMMA NextStep ==
    ASSUME FddInv, [Next]_vars
    PROVE  FddInv'
BY RwStep, OpStep, SeldriveStep, SpunUpStep, SpecifyStep, RecalibrateStep,
   RecalibratedStep, SeekStep, StartioStep, StartioFailsStep, IoDoneStep,
   IntrResetStep, IntrSeekStep, IntrIoStep, MotorStep, SeekEndsStep, IoEndsStep,
   StutterStep
DEF Next, Driver, Interrupt, Hardware

\* The flags that fdd_intr looks at agree with the command under way, for any
\* number of drives and however slow the controller is.
THEOREM InterruptsUnderstood == Spec => []InterruptUnderstood
<1>1. Init => FddInv
  BY InitInv
<1>2. FddInv /\ [Next]_vars => FddInv'
  BY NextStep
<1>3. FddInv => InterruptUnderstood
  <2> SUFFICES ASSUME FddInv PROVE InterruptUnderstood
    OBVIOUS
  <2>1. fdc.irq = "seek" => ctrl_state \cap {"RESET", "SEEKING"} = {"SEEKING"}
    BY DEF FddInv, Flags, Commands, Moving
  <2>2. fdc.irq = "io" => ctrl_state \cap {"RESET", "SEEKING"} = {} /\ iounit # None
    BY NoJobIs DEF FddInv, Flags, Commands, Moving, Jobs, Working
  <2> QED
    BY <2>1, <2>2 DEF InterruptUnderstood
<1> QED
  BY <1>1, <1>2, <1>3, PTL DEF Spec

-----------------------------------------------------------------------------
(* What becomes of a call                                                  *)

\* Nothing, for now; or it returns.
Goes ==
    /\ UNCHANGED <<fdd_cs, result>> /\ job'.c = job.c
    /\ job.c # None => job'.moved = job.moved
Ends(res) ==
    /\ job.c # None /\ fdd_cs' = Tail(fdd_cs) /\ job' = NoJob
    /\ result' = [result EXCEPT ![job.c] = res]
Done == at = "iodone" /\ Succeeds(unit[job.u].res)

LEMMA RestartsEnds == Restarts => Goes \/ Ends("error")
BY NoJobIs DEF Restarts, Goes, Ends

\* A step of the driver other than fdd_op.
DriverGoes ==
    /\ Goes \/ Ends("error") \/ (Ends("ok") /\ Done)
    /\ at' # "iodone"
    /\ at' = "iowait" => fdd_startio
    /\ UNCHANGED <<disk, buf>>

LEMMA SpecifyGoes == ASSUME FddInv, fdd_specify PROVE DriverGoes
<1>1. at = "specify" /\ (SpecifySent \/ SpecifyFailed) /\ UNCHANGED <<disk, buf>>
  BY SpecifyIs
<1>2. job \in JobRecord /\ job.u \in Unit
  BY <1>1 DEF FddInv, FddTypeOK, Jobs, Working
<1>3. CASE SpecifySent
  <2>1. at' \in {"recal", "seldrive", "seek"} /\ UNCHANGED <<fdd_cs, result>>
    BY <1>3 DEF SpecifySent
  <2>2. job'.c = job.c /\ job'.moved = job.moved
    BY <1>2, <1>3 DEF SpecifySent, JobRecord
  <2> QED
    BY <1>1, <2>1, <2>2 DEF DriverGoes, Goes
<1>4. CASE SpecifyFailed
  <2>1. Restarts
    BY <1>2, <1>4, TryAgainRestarts DEF SpecifyFailed
  <2> QED
    BY <1>1, <2>1, RestartsEnds DEF DriverGoes, Restarts
<1> QED
  BY <1>1, <1>3, <1>4

LEMMA RecalibratedGoes == ASSUME FddInv, fdd_recalibrated PROVE DriverGoes
<1>1. at = "recaldone" /\ UNCHANGED <<disk, buf>>
  BY DEF fdd_recalibrated
<1>2. job \in JobRecord /\ job.u \in Unit
  BY <1>1 DEF FddInv, FddTypeOK, Jobs, Working
<1>3. CASE unit[job.u].res # [ic |-> "ok", cyl |-> 0]
  <2>1. Restarts
    BY <1>2, <1>3, TryAgainRestarts DEF fdd_recalibrated
  <2> QED
    BY <1>1, <2>1, RestartsEnds DEF DriverGoes, Restarts
<1>4. CASE unit[job.u].res = [ic |-> "ok", cyl |-> 0] /\ job.c = None
  <2>1. Restarts
    BY <1>4, NextRecalRestarts DEF fdd_recalibrated
  <2> QED
    BY <1>1, <2>1, RestartsEnds DEF DriverGoes, Restarts
<1>5. CASE unit[job.u].res = [ic |-> "ok", cyl |-> 0] /\ job.c # None
  <2>1. /\ job' = [job EXCEPT !.recal = 0, !.need_recal = FALSE]
        /\ at' = "seek" /\ UNCHANGED <<fdd_cs, result>>
    BY <1>5 DEF fdd_recalibrated
  <2>2. job'.c = job.c /\ job'.moved = job.moved
    BY <1>2, <2>1 DEF JobRecord
  <2> QED
    BY <1>1, <2>1, <2>2 DEF DriverGoes, Goes
<1> QED
  BY <1>3, <1>4, <1>5

LEMMA StartioFailsGoes == ASSUME FddInv, fdd_startio_fails PROVE DriverGoes
<1>1. at = "io" /\ UNCHANGED <<disk, buf>>
  BY DEF fdd_startio_fails
<1>2. job \in JobRecord /\ job.u \in Unit /\ job.c # None
  BY <1>1 DEF FddInv, FddTypeOK, Jobs, Working, Serving
<1>3. CASE job.ops + 1 < FDD_RETRY
  <2>1. job' = [job EXCEPT !.ops = @ + 1] /\ UNCHANGED <<at, fdd_cs, result>>
    BY <1>3 DEF fdd_startio_fails
  <2>2. job'.c = job.c /\ job'.moved = job.moved
    BY <1>2, <2>1 DEF JobRecord
  <2> QED
    BY <1>1, <2>1, <2>2 DEF DriverGoes, Goes
<1>4. CASE ~ (job.ops + 1 < FDD_RETRY)
  <2>1. NextSeek(job) /\ SameCall(job, job)
    BY <1>4 DEF fdd_startio_fails, SameCall
  <2>2. Restarts
    BY <1>2, <2>1, NextSeekRestarts
  <2> QED
    BY <1>1, <2>2, RestartsEnds DEF DriverGoes, Restarts
<1> QED
  BY <1>3, <1>4

LEMMA IoDoneGoes == ASSUME FddInv, fdd_io_done PROVE DriverGoes
<1>1. at = "iodone" /\ UNCHANGED <<disk, buf>>
  BY DEF fdd_io_done
<1>2. job \in JobRecord /\ job.u \in Unit /\ job.c # None
  BY <1>1 DEF FddInv, FddTypeOK, Jobs, Working, Serving
<1>3. PICK res : res = unit[job.u].res
  OBVIOUS
<1>4. CASE Succeeds(res)
  <2>1. Returns("ok")
    BY <1>3, <1>4 DEF fdd_io_done
  <2> QED
    BY <1>1, <1>2, <1>3, <1>4, <2>1 DEF DriverGoes, Returns, Ends, Done
<1>5. CASE ~ Succeeds(res) /\ res # None /\ res.ic = "wrongcyl"
  <2>1. PICK j : j = [job EXCEPT !.need_recal = TRUE]
    OBVIOUS
  <2>2. NextSeek(j)
    BY <1>3, <1>5, <2>1 DEF fdd_io_done
  <2>3. j \in JobRecord /\ j.c = job.c /\ SameCall(j, job) /\ j.moved = job.moved
    BY <1>2, <2>1 DEF JobRecord, SameCall
  <2>4. Restarts
    BY <1>2, <2>2, <2>3, NextSeekRestarts
  <2> QED
    BY <1>1, <2>4, RestartsEnds DEF DriverGoes, Restarts
<1>6. CASE ~ Succeeds(res) /\ ~ (res # None /\ res.ic = "wrongcyl") /\ job.ops + 1 < FDD_RETRY
  <2>1. /\ job' = [job EXCEPT !.ops = @ + 1] /\ at' = "io"
        /\ UNCHANGED <<fdd_cs, result>>
    BY <1>3, <1>6 DEF fdd_io_done
  <2>2. job'.c = job.c /\ job'.moved = job.moved
    BY <1>2, <2>1 DEF JobRecord
  <2> QED
    BY <1>1, <2>1, <2>2 DEF DriverGoes, Goes
<1>7. CASE ~ Succeeds(res) /\ ~ (res # None /\ res.ic = "wrongcyl") /\ ~ (job.ops + 1 < FDD_RETRY)
  <2>1. NextSeek(job) /\ SameCall(job, job)
    BY <1>3, <1>7 DEF fdd_io_done, SameCall
  <2>2. Restarts
    BY <1>2, <2>1, NextSeekRestarts
  <2> QED
    BY <1>1, <2>2, RestartsEnds DEF DriverGoes, Restarts
<1> QED
  BY <1>4, <1>5, <1>6, <1>7

LEMMA DriverStep == ASSUME FddInv, Driver, ~ fdd_op PROVE DriverGoes
<1>1. CASE fdd_seldrive
  BY <1>1 DEF fdd_seldrive, DriverGoes, Goes
<1>2. CASE fdd_spun_up
  BY <1>2 DEF fdd_spun_up, DriverGoes, Goes
<1>3. CASE fdd_recalibrate
  BY <1>3 DEF fdd_recalibrate, DriverGoes, Goes
<1>4. CASE fdd_seek
  BY <1>4 DEF fdd_seek, DriverGoes, Goes
<1>5. CASE fdd_startio
  BY <1>5 DEF fdd_startio, DriverGoes, Goes
<1> QED
  BY <1>1, <1>2, <1>3, <1>4, <1>5, SpecifyGoes, RecalibratedGoes, StartioFailsGoes,
     IoDoneGoes DEF Driver

-----------------------------------------------------------------------------
(* The transfer under way is the one of the job, and a job whose transfer  *)
(* has succeeded has moved its data.                                       *)

DmaOfJob ==
    /\ dma.c = job.c /\ (dma.write <=> ~ job.doread)
    /\ fdc.arg = <<job.u, job.cyl>>

Transfers ==
    /\ at = "iowait" => DmaOfJob
    /\ at = "iowait" /\ fdc.irq = "io" /\ fdc.info.ic = "ok" => job.moved
    /\ Done => job.moved

LEMMA NoTransfer ==
    ASSUME at' \notin {"iowait", "iodone"}
    PROVE  Transfers'
BY DEF Transfers, Done

LEMMA StartioTransfers == ASSUME FddInv, Transfers, fdd_startio PROVE Transfers'
<1>1. /\ at = "io" /\ at' = "iowait" /\ UNCHANGED <<job, fdd_cs>>
      /\ dma' = [c |-> job.c, write |-> Mode(job)]
      /\ fdc' = [fdc EXCEPT !.phase = "exec", !.arg = <<job.u, job.cyl>>]
  BY DEF fdd_startio
<1>2. fdc \in FdcRecord
  BY DEF FddInv, FddTypeOK
<1>3. fdc'.arg = <<job.u, job.cyl>> /\ fdc'.irq = fdc.irq
  BY <1>1, <1>2 DEF FdcRecord
<1>4. fdc.irq # "io"
  BY <1>1 DEF FddInv, Commands
<1>5. DmaOfJob'
  BY <1>1, <1>3 DEF DmaOfJob, Mode
<1> QED
  BY <1>1, <1>3, <1>4, <1>5 DEF Transfers, Done

\* The interrupt hands the result over.
LEMMA IntrIoTransfers == ASSUME FddInv, Transfers, fdd_intr_io PROVE Transfers'
<1>1. /\ fdc.irq # "none" /\ ctrl_state \cap {"RESET", "SEEKING"} = {}
      /\ at' = IF iounit = job.u THEN Woken ELSE at
      /\ UNCHANGED <<job, fdd_cs>>
  BY DEF fdd_intr_io
<1>2. fdc.irq = "io" /\ unit \in [Unit -> UnitRecord]
  BY <1>1 DEF FddInv, FddTypeOK, Flags, Commands, FdcRecord
<1>3. at = "iowait" /\ iounit = job.u /\ at' = "iodone" /\ job.u \in Unit
  BY <1>1, <1>2 DEF FddInv, Commands, Woken, Jobs, Working
<1>4. PICK r : r \in {fdc.info, None} /\ unit' = [unit EXCEPT ![iounit].res = r]
  BY DEF fdd_intr_io
<1>5. PICK v : v = [unit[job.u] EXCEPT !.res = r]
  OBVIOUS
<1>6. v.res = r
  BY <1>2, <1>3, <1>5 DEF UnitRecord
<1>7. unit' = [unit EXCEPT ![job.u] = v]
  BY <1>2, <1>3, <1>4, <1>5
<1>8. unit'[job.u].res = r
  BY <1>2, <1>3, <1>6, <1>7
<1>9. Done' => job.moved
  BY <1>1, <1>2, <1>3, <1>4, <1>8 DEF Done, Succeeds, Transfers
<1> QED
  BY <1>1, <1>3, <1>9 DEF Transfers

LEMMA IoEndsTransfers == ASSUME FddInv, Transfers, IoEnds PROVE Transfers'
<1>1. /\ fdc.phase = "exec" /\ UNCHANGED <<at, fdd_cs, dma>>
      /\ job' \in {job, [job EXCEPT !.moved = TRUE]}
  BY DEF IoEnds, Moved
<1>2. PICK ic \in Ic : /\ fdc' = [fdc EXCEPT !.phase = "result", !.irq = "io", !.info = [ic |-> ic]]
                       /\ ic = "ok" => job' = [job EXCEPT !.moved = TRUE]
  BY DEF IoEnds, Ic, Moved
<1>3. at = "iowait" /\ fdc \in FdcRecord /\ job \in JobRecord
  BY <1>1 DEF FddInv, FddTypeOK, Commands
<1>4. fdc'.arg = fdc.arg /\ fdc'.info.ic = ic
  BY <1>2, <1>3 DEF FdcRecord
<1>5. /\ job'.u = job.u /\ job'.c = job.c /\ job'.cyl = job.cyl
      /\ (job'.doread <=> job.doread)
      /\ ic = "ok" => job'.moved
  BY <1>1, <1>2, <1>3 DEF JobRecord
<1>6. DmaOfJob'
  BY <1>1, <1>3, <1>4, <1>5 DEF DmaOfJob, Transfers
<1> QED
  BY <1>1, <1>3, <1>4, <1>5, <1>6 DEF Transfers, Done

LEMMA RwTransfers ==
    ASSUME Transfers, NEW c \in Client, fdd_rw(c)
    PROVE  Transfers'
<1>1. UNCHANGED <<at, job, unit, fdc, dma>>
  BY DEF fdd_rw
<1> QED
  BY <1>1 DEF Transfers, DmaOfJob, Done

LEMMA MotorTransfers == ASSUME FddInv, Transfers, fdd_motor_task PROVE Transfers'
<1>1. UNCHANGED <<at, job, fdd_cs, fdc, dma>>
  BY DEF fdd_motor_task
<1>2. \A u \in Unit : unit'[u].res = unit[u].res
  BY CountDown DEF FddInv, FddTypeOK
<1>3. Done' <=> Done
  BY <1>1, <1>2 DEF Done, Succeeds, FddInv, Jobs, Working
<1> QED
  BY <1>1, <1>3 DEF Transfers, DmaOfJob

LEMMA SeekEndsTransfers ==
    ASSUME FddInv, Transfers, NEW u \in Unit, SeekEnds(u)
    PROVE  Transfers'
<1>1. at \in Moving /\ UNCHANGED <<at, fdd_cs>>
  BY DEF SeekEnds, driver, FddInv, Commands
<1>2. at' \notin {"iowait", "iodone"}
  BY <1>1 DEF Moving
<1> QED
  BY <1>1, <1>2, NoTransfer

LEMMA TransfersStep ==
    ASSUME FddInv, Transfers, [Next]_vars
    PROVE  Transfers'
<1>1. CASE fdd_op
  <2>1. at' = "seldrive" /\ fdd_cs' = fdd_cs
    BY <1>1 DEF fdd_op
  <2> QED
    BY <2>1, NoTransfer
<1>2. CASE Driver /\ ~ fdd_op /\ ~ fdd_startio
  <2>1. at' \notin {"iowait", "iodone"} /\ (Goes \/ Ends("error") \/ Ends("ok"))
    BY <1>2, DriverStep DEF DriverGoes
  <2>2. fdd_cs' = fdd_cs \/ (fdd_cs # <<>> /\ fdd_cs' = Tail(fdd_cs))
    BY <2>1 DEF Goes, Ends, FddInv, Jobs
  <2> QED
    BY <2>1, <2>2, NoTransfer
<1>3. CASE fdd_intr_reset
  <2>1. at' \in {"seldrive", "free"} /\ fdd_cs' = fdd_cs
    BY <1>3 DEF fdd_intr_reset
  <2> QED
    BY <2>1, NoTransfer
<1>4. CASE fdd_intr_seek
  <2>1. fdd_cs' = fdd_cs /\ at \in Moving /\ at' \in {at, Woken}
    BY <1>4 DEF fdd_intr_seek, FddInv, Flags
  <2>2. at' \notin {"iowait", "iodone"}
    BY <2>1 DEF Woken, Moving
  <2> QED
    BY <2>1, <2>2, NoTransfer
<1>5. CASE UNCHANGED vars
  BY <1>5 DEF vars, driver, Transfers, DmaOfJob, Done
<1> QED
  BY <1>1, <1>2, <1>3, <1>4, <1>5, StartioTransfers, IntrIoTransfers, IoEndsTransfers,
     RwTransfers, MotorTransfers, SeekEndsTransfers
  DEF Next, Driver, Interrupt, Hardware

-----------------------------------------------------------------------------
(* With one drive, the one that is selected is the one of the job, and its *)
(* motor runs until the driver is through with it.  With more drives the   *)
(* motor task selects others behind the driver's back.                     *)

OneDrive == \A u, v \in Unit : u = v

\* Where the motor has been started for the job.
Ran   == Working \ {"seldrive", "spinup"}
Waited == Moving \cup {"iowait"}

MotorTypeOK ==
    /\ seldrive \in Unit \cup {None} /\ motor_bits \subseteq Unit /\ late \in Nat
    /\ dor \in [sel : Nat, on : SUBSET Unit]

\* The motor task cannot come often enough to stop the drive while the
\* driver runs, and spares a drive that is not idle while the driver waits.
Motors ==
    /\ MotorTypeOK
    /\ motor_bits = dor.on
    /\ seldrive # None => dor.sel = seldrive
    /\ at \in Ran \cup {"spinup"} => seldrive = job.u /\ job.u \in dor.on
    /\ at = "specify" => unit[job.u].tmo + late >= Tmo
    /\ at \in Ran \ Waited /\ unit[job.u].state = "idle" => unit[job.u].tmo + late >= Tmo
    /\ at \in Waited => unit[job.u].state # "idle"

\* The driver goes on with the drive, or is through with it.
LEMMA MotorsKept ==
    ASSUME FddInv, Motors, UNCHANGED <<seldrive, motor_bits, dor, late>>,
           at' \in Ran \cup {"spinup"} =>
                /\ job'.u = job.u
                /\ \/ /\ at' = at /\ unit'[job.u].tmo = unit[job.u].tmo
                      /\ unit'[job.u].state = unit[job.u].state
                   \/ /\ at \in Ran /\ at' \in Ran \ (Waited \cup {"specify"})
                      /\ unit'[job.u].state = "idle" =>
                            /\ unit'[job.u].tmo = unit[job.u].tmo
                            /\ \/ at = "specify"
                               \/ at \notin Waited /\ unit[job.u].state = "idle"
                   \/ /\ at \in Ran /\ at' \in Waited
                      /\ unit'[job.u].state # "idle"
    PROVE  Motors'
<1>1. MotorTypeOK' /\ motor_bits' = dor'.on /\ (seldrive' # None => dor'.sel = seldrive')
  BY DEF Motors, MotorTypeOK
<1>2. CASE at' \notin Ran \cup {"spinup"}
  BY <1>1, <1>2 DEF Motors, Ran, Waited, Moving, Working
<1>3. CASE at' \in Ran \cup {"spinup"}
  BY <1>1, <1>3 DEF Motors, Ran, Waited, Moving, Working
<1> QED
  BY <1>2, <1>3

LEMMA SeldriveMotors == ASSUME FddInv, Motors, fdd_seldrive PROVE Motors'
<1>1. /\ at = "seldrive" /\ motor_bits' = motor_bits \cup {job.u} /\ seldrive' = job.u
      /\ UNCHANGED job
  BY DEF fdd_seldrive
<1>2. job.u \in Unit /\ job.u \in Nat /\ unit \in [Unit -> UnitRecord] /\ Tmo \in Nat
  BY <1>1, FddAssumption DEF FddInv, FddTypeOK, Jobs, Working
<1>3. CASE Selected(job.u)
  <2>1. /\ at' = "specify" /\ unit' = KeepsMotorOn(job.u, unit[job.u].state)
        /\ late' = 0 /\ UNCHANGED dor
    BY <1>3 DEF fdd_seldrive
  <2>2. motor_bits' = motor_bits /\ job.u \in motor_bits /\ seldrive = job.u
    BY <1>1, <1>3 DEF Selected
  <2>3. unit'[job.u].tmo = Tmo
    BY <1>2, <2>1, KeepMotorOn
  <2>4. MotorTypeOK'
    BY <1>1, <2>1, <2>2 DEF Motors, MotorTypeOK
  <2> QED
    BY <1>1, <1>2, <2>1, <2>2, <2>3, <2>4, NoJobIs DEF Motors, Ran, Waited, Moving, Working
<1>4. CASE ~ Selected(job.u)
  <2>1. at' = "spinup" /\ dor' = [sel |-> job.u, on |-> motor_bits'] /\ UNCHANGED <<unit, late>>
    BY <1>1, <1>4 DEF fdd_seldrive
  <2>2. dor'.sel = job.u /\ dor'.on = motor_bits'
    BY <2>1
  <2>3. MotorTypeOK'
    BY <1>1, <1>2, <2>1 DEF Motors, MotorTypeOK
  <2> QED
    BY <1>1, <2>1, <2>2, <2>3 DEF Motors, Ran, Waited, Moving, Working
<1> QED
  BY <1>3, <1>4

LEMMA SpunUpMotors == ASSUME FddInv, Motors, fdd_spun_up PROVE Motors'
<1>1. /\ at = "spinup" /\ at' = "specify" /\ late' = 0
      /\ unit' = KeepsMotorOn(job.u, unit[job.u].state)
      /\ UNCHANGED <<job, seldrive, motor_bits, dor>>
  BY DEF fdd_spun_up
<1>2. job.u \in Unit /\ unit \in [Unit -> UnitRecord] /\ Tmo \in Nat
  BY <1>1, FddAssumption DEF FddInv, FddTypeOK, Jobs, Working
<1>3. unit'[job.u].tmo = Tmo
  BY <1>1, <1>2, KeepMotorOn
<1>4. MotorTypeOK'
  BY <1>1 DEF Motors, MotorTypeOK
<1> QED
  BY <1>1, <1>2, <1>3, <1>4 DEF Motors, Ran, Waited, Moving, Working

LEMMA SpecifyMotors == ASSUME FddInv, Motors, fdd_specify PROVE Motors'
<1>1. /\ at = "specify" /\ (SpecifySent \/ SpecifyFailed)
      /\ UNCHANGED <<seldrive, motor_bits, dor, late>>
  BY SpecifyIs
<1>2. job.u \in Unit /\ unit \in [Unit -> UnitRecord] /\ job \in JobRecord
  BY <1>1 DEF FddInv, FddTypeOK, Jobs, Working
<1>3. CASE SpecifySent
  <2>1. CASE job.recal > 0
    <3>1. at' = "recal" /\ UNCHANGED <<job, unit>>
      BY <1>3, <2>1 DEF SpecifySent
    <3> QED
      BY <1>1, <3>1, MotorsKept DEF Ran, Waited, Moving, Working
  <2>2. CASE ~ (job.recal > 0) /\ job.need_recal
    <3>1. at' = "seldrive"
      BY <1>3, <2>2 DEF SpecifySent
    <3> QED
      BY <1>1, <3>1, MotorsKept DEF Ran
  <2>3. CASE ~ (job.recal > 0) /\ ~ job.need_recal
    <3>1. /\ at' = "seek" /\ UNCHANGED job
          /\ unit' = [unit EXCEPT ![job.u].state = "idle"]
      BY <1>3, <2>3 DEF SpecifySent
    <3>2. "idle" \in UnitState
      BY DEF UnitState
    <3>3. StateSet(unit, unit', job.u, "idle")
      BY <1>2, <3>1, <3>2, SetState
    <3>4. unit'[job.u].tmo = unit[job.u].tmo
      BY <3>3 DEF StateSet
    <3> QED
      BY <1>1, <3>1, <3>4, MotorsKept DEF Ran, Waited, Moving, Working
  <2> QED
    BY <2>1, <2>2, <2>3
<1>4. CASE SpecifyFailed
  <2>1. Restarts
    BY <1>2, <1>4, TryAgainRestarts DEF SpecifyFailed
  <2>2. at' \notin Ran \cup {"spinup"}
    BY <2>1 DEF Restarts, Ran, Working
  <2> QED
    BY <1>1, <2>2, MotorsKept
<1> QED
  BY <1>1, <1>3, <1>4

\* A drive that moves or transfers is not idle.
LEMMA StartMotors ==
    ASSUME FddInv, Motors, NEW s \in UnitState \ {"idle"}, at \in Ran,
           at' \in Waited, unit' = [unit EXCEPT ![job.u].state = s],
           UNCHANGED <<job, seldrive, motor_bits, dor, late>>
    PROVE  Motors'
<1>1. job.u \in Unit /\ unit \in [Unit -> UnitRecord]
  BY DEF FddInv, FddTypeOK, Jobs, Ran
<1>2. StateSet(unit, unit', job.u, s)
  BY <1>1, SetState
<1>3. unit'[job.u].state # "idle"
  BY <1>2 DEF StateSet
<1> QED
  BY <1>3, MotorsKept

LEMMA RecalibratedMotors == ASSUME FddInv, Motors, fdd_recalibrated PROVE Motors'
<1>1. at = "recaldone" /\ UNCHANGED <<unit, seldrive, motor_bits, dor, late>>
  BY DEF fdd_recalibrated
<1>2. job \in JobRecord /\ job.u \in Unit
  BY <1>1 DEF FddInv, FddTypeOK, Jobs, Working
<1>3. CASE Restarts
  BY <1>1, <1>3, MotorsKept DEF Restarts, Ran, Working
<1>4. CASE /\ job' = [job EXCEPT !.recal = 0, !.need_recal = FALSE]
           /\ at' = "seek"
  <2>1. job'.u = job.u
    BY <1>2, <1>4 DEF JobRecord
  <2> QED
    BY <1>1, <1>4, <2>1, MotorsKept DEF Ran, Waited, Moving, Working
<1>5. TryAgain => Restarts
  BY <1>2, TryAgainRestarts
<1>6. job.c = None /\ NextRecal /\ UNCHANGED <<fdd_cs, result>> => Restarts
  BY NextRecalRestarts
<1> QED
  BY <1>3, <1>4, <1>5, <1>6 DEF fdd_recalibrated

LEMMA StartioFailsMotors == ASSUME FddInv, Motors, fdd_startio_fails PROVE Motors'
<1>1. /\ at = "io" /\ unit' = [unit EXCEPT ![job.u].state = "io"]
      /\ UNCHANGED <<seldrive, motor_bits, dor, late>>
  BY DEF fdd_startio_fails
<1>2. /\ job \in JobRecord /\ job.u \in Unit /\ job.c # None
      /\ unit \in [Unit -> UnitRecord]
  BY <1>1 DEF FddInv, FddTypeOK, Jobs, Working, Serving
<1>3. unit'[job.u].state # "idle"
  <2>1. "io" \in UnitState
    BY DEF UnitState
  <2>2. StateSet(unit, unit', job.u, "io")
    BY <1>1, <1>2, <2>1, SetState
  <2> QED
    BY <2>2 DEF StateSet
<1>4. CASE job.ops + 1 < FDD_RETRY
  <2>1. job' = [job EXCEPT !.ops = @ + 1] /\ UNCHANGED at
    BY <1>4 DEF fdd_startio_fails
  <2>2. job'.u = job.u
    BY <1>2, <2>1 DEF JobRecord
  <2> QED
    BY <1>1, <1>3, <2>1, <2>2, MotorsKept DEF Ran, Waited, Moving, Working
<1>5. CASE ~ (job.ops + 1 < FDD_RETRY)
  <2>1. NextSeek(job) /\ SameCall(job, job)
    BY <1>5 DEF fdd_startio_fails, SameCall
  <2>2. Restarts
    BY <1>2, <2>1, NextSeekRestarts
  <2> QED
    BY <1>1, <2>2, MotorsKept DEF Restarts, Ran, Working
<1> QED
  BY <1>4, <1>5

LEMMA IoDoneMotors == ASSUME FddInv, Motors, fdd_io_done PROVE Motors'
<1>1. at = "iodone" /\ UNCHANGED <<seldrive, motor_bits, dor, late>>
  BY DEF fdd_io_done
<1>2. job \in JobRecord /\ job.u \in Unit /\ job.c # None
  BY <1>1 DEF FddInv, FddTypeOK, Jobs, Working, Serving
<1>3. CASE at' = "io" /\ job' = [job EXCEPT !.ops = @ + 1] /\ UNCHANGED unit
  <2>1. job'.u = job.u
    BY <1>2, <1>3 DEF JobRecord
  <2> QED
    BY <1>1, <1>3, <2>1, MotorsKept DEF Ran, Waited, Moving, Working
<1>4. CASE at' \in {"free", "seldrive"}
  BY <1>1, <1>4, MotorsKept DEF Ran, Working
<1>5. \/ at' \in {"free", "seldrive"}
      \/ at' = "io" /\ job' = [job EXCEPT !.ops = @ + 1] /\ UNCHANGED unit
  BY DEF fdd_io_done, NextSeek, Returns
<1> QED
  BY <1>3, <1>4, <1>5

LEMMA IntrSeekMotors == ASSUME FddInv, Motors, fdd_intr_seek PROVE Motors'
<1>1. /\ fdc.irq # "none" /\ "SEEKING" \in ctrl_state
      /\ UNCHANGED <<job, seldrive, motor_bits, dor, late>>
  BY DEF fdd_intr_seek
<1>2. /\ at \in Moving /\ fdc \in FdcRecord /\ unit \in [Unit -> UnitRecord]
      /\ job.u \in Unit
  BY <1>1 DEF FddInv, FddTypeOK, Flags, Jobs, Working, Moving
<1>3. fdc.info.u = job.u
  BY <1>1, <1>2 DEF FddInv, Commands, FdcRecord, Moving
<1>4. CASE /\ at' = IF fdc.info.u = job.u THEN Woken ELSE at
           /\ unit' = [unit EXCEPT ![fdc.info.u].state = "seekdone",
                         ![fdc.info.u].res = [ic |-> fdc.info.ic, cyl |-> fdc.info.cyl]]
  <2>1. PICK r : r = [ic |-> fdc.info.ic, cyl |-> fdc.info.cyl]
    OBVIOUS
  <2>2. PICK v : v = [unit[job.u] EXCEPT !.state = "seekdone", !.res = r]
    OBVIOUS
  <2>3. v.state = "seekdone"
    BY <1>2, <2>2 DEF UnitRecord
  <2>4. unit' = [unit EXCEPT ![job.u] = v]
    BY <1>2, <1>3, <1>4, <2>1, <2>2
  <2>5. unit'[job.u].state = "seekdone"
    BY <1>2, <2>3, <2>4
  <2>6. at' \in {"recaldone", "io"}
    BY <1>2, <1>3, <1>4 DEF Woken, Moving
  <2> QED
    BY <1>1, <1>2, <2>5, <2>6, MotorsKept DEF Ran, Waited, Moving, Working
<1>5. CASE UNCHANGED <<unit, at>>
  BY <1>1, <1>5, MotorsKept
<1> QED
  BY <1>4, <1>5 DEF fdd_intr_seek

LEMMA IntrIoMotors == ASSUME FddInv, Motors, fdd_intr_io PROVE Motors'
<1>1. /\ fdc.irq # "none" /\ ctrl_state \cap {"RESET", "SEEKING"} = {}
      /\ at' = IF iounit = job.u THEN Woken ELSE at
      /\ UNCHANGED <<job, seldrive, motor_bits, dor, late>>
  BY DEF fdd_intr_io
<1>2. fdc.irq = "io" /\ unit \in [Unit -> UnitRecord]
  BY <1>1 DEF FddInv, FddTypeOK, Flags, Commands, FdcRecord
<1>3. at = "iowait" /\ iounit = job.u /\ at' = "iodone" /\ job.u \in Unit
  BY <1>1, <1>2 DEF FddInv, Commands, Woken, Jobs, Working
<1>4. PICK r : unit' = [unit EXCEPT ![iounit].res = r]
  BY DEF fdd_intr_io
<1>5. PICK v : v = [unit[job.u] EXCEPT !.res = r]
  OBVIOUS
<1>6. v.state = unit[job.u].state
  BY <1>2, <1>3, <1>5 DEF UnitRecord
<1>7. unit' = [unit EXCEPT ![job.u] = v]
  BY <1>2, <1>3, <1>4, <1>5
<1>8. unit'[job.u].state # "idle"
  BY <1>2, <1>3, <1>6, <1>7 DEF Motors, Waited
<1> QED
  BY <1>1, <1>3, <1>8, MotorsKept DEF Ran, Waited, Moving, Working

\* The motor task does not stop a drive that the driver has started.
LEMMA MotorMotors ==
    ASSUME OneDrive, FddInv, Motors, fdd_motor_task
    PROVE  Motors'
<1> DEFINE off == {u \in Unit : MayStop(u)}
<1>1. /\ at # "spinup" /\ (at \in Waits \/ late < Tmo - 1)
      /\ late' = IF at \in Waits THEN 0 ELSE late + 1
      /\ motor_bits' = motor_bits \ off
      /\ \/ off = {} /\ dor' = dor
         \/ \E u \in off : dor' = [sel |-> u, on |-> motor_bits']
      /\ UNCHANGED <<at, job, seldrive>>
  BY DEF fdd_motor_task
<1>2. \A u \in off : u \in Unit /\ MayStop(u)
  OBVIOUS
<1> HIDE DEF off
<1>3. /\ unit \in [Unit -> UnitRecord] /\ unit' \in [Unit -> UnitRecord]
      /\ \A u \in Unit : unit'[u].state = unit[u].state
      /\ \A u \in Unit : unit'[u].tmo \in {unit[u].tmo, unit[u].tmo - 1}
  BY CountDown DEF FddInv, FddTypeOK
<1>4. Tmo \in Nat /\ late \in Nat /\ Unit \subseteq Nat
  BY FddAssumption DEF Motors, MotorTypeOK
<1>5. /\ dor'.on = motor_bits' /\ dor' \in [sel : Nat, on : SUBSET Unit]
      /\ dor'.sel = dor.sel \/ dor'.sel \in Unit
  <2>1. motor_bits' \subseteq Unit
    BY <1>1 DEF Motors, MotorTypeOK
  <2>2. CASE off = {} /\ dor' = dor
    BY <1>1, <2>2 DEF Motors, MotorTypeOK
  <2>3. ASSUME NEW u \in off, dor' = [sel |-> u, on |-> motor_bits']
        PROVE  dor'.on = motor_bits' /\ dor' \in [sel : Nat, on : SUBSET Unit] /\ dor'.sel \in Unit
    <3>1. u \in Unit /\ u \in Nat
      BY <1>2, <1>4, <2>3
    <3> QED
      BY <2>1, <2>3, <3>1
  <2> QED
    BY <1>1, <2>2, <2>3
<1>6. MotorTypeOK'
  BY <1>1, <1>4, <1>5 DEF Motors, MotorTypeOK
<1>7. seldrive' # None => dor'.sel = seldrive'
  BY <1>1, <1>5 DEF OneDrive, Motors, MotorTypeOK
<1>8. CASE at \notin Ran
  BY <1>1, <1>5, <1>6, <1>7, <1>8 DEF Motors, Ran, Waited, Moving, Working
<1>9. CASE at \in Ran
  <2>1. job.u \in Unit /\ seldrive = job.u /\ job.u \in motor_bits
    BY <1>9 DEF FddInv, Jobs, Ran, Motors
  <2>2. unit[job.u].tmo \in Nat /\ unit'[job.u].tmo \in Nat
    BY <1>3, <2>1 DEF UnitRecord
  <2>3. CASE at \in Waited
    <3>1. unit[job.u].state # "idle"
      BY <2>3 DEF Motors
    <3>2. job.u \notin off
      BY <1>2, <3>1 DEF MayStop
    <3>3. job.u \in dor'.on
      BY <1>1, <1>5, <2>1, <3>2
    <3>4. unit'[job.u].state # "idle"
      BY <1>3, <2>1, <3>1
    <3> QED
      BY <1>1, <1>5, <1>6, <1>7, <2>1, <2>3, <3>3, <3>4 DEF Motors, Waited, Moving
  <2>4. CASE at \notin Waited
    <3>1. at \notin Waits /\ late < Tmo - 1 /\ late' = late + 1
      BY <1>1, <1>9, <2>4 DEF Waits, Waited, Moving, Ran, Working
    <3>2. at = "specify" \/ unit[job.u].state = "idle" => unit[job.u].tmo + late >= Tmo
      BY <1>9, <2>4 DEF Motors
    <3>3. job.u \notin off
      BY <1>2, <1>4, <2>2, <3>1, <3>2 DEF MayStop
    <3>4. job.u \in dor'.on
      BY <1>1, <1>5, <2>1, <3>3
    <3>5. \/ at # "specify" /\ unit'[job.u].state # "idle"
          \/ unit'[job.u].tmo + late' >= Tmo
      <4>1. /\ unit'[job.u].tmo \in {unit[job.u].tmo, unit[job.u].tmo - 1}
            /\ unit'[job.u].state = unit[job.u].state
        BY <1>3, <2>1
      <4>2. \A t, n \in Nat : n \in {t, t - 1} /\ t + late >= Tmo => n + (late + 1) >= Tmo
        BY <1>4
      <4>3. unit[job.u].tmo + late >= Tmo => unit'[job.u].tmo + late' >= Tmo
        BY <2>2, <3>1, <4>1, <4>2
      <4> QED
        BY <3>2, <4>1, <4>3
    <3> QED
      BY <1>1, <1>5, <1>6, <1>7, <2>1, <2>4, <3>4, <3>5 DEF Motors
  <2> QED
    BY <2>3, <2>4
<1> QED
  BY <1>8, <1>9

LEMMA MotorsStep ==
    ASSUME OneDrive, FddInv, Motors, [Next]_vars
    PROVE  Motors'
<1>1. ASSUME NEW c \in Client, fdd_rw(c) PROVE Motors'
  BY <1>1, MotorsKept DEF fdd_rw
<1>2. CASE fdd_op
  BY <1>2, MotorsKept DEF fdd_op, Ran
<1>3. CASE fdd_recalibrate
  <2>1. "seeking" \in UnitState \ {"idle"} /\ at \in Ran /\ at' \in Waited
    BY <1>3 DEF UnitState, fdd_recalibrate, Ran, Working, Waited, Moving
  <2> QED
    BY <1>3, <2>1, StartMotors DEF fdd_recalibrate
<1>4. CASE fdd_seek
  <2>1. "seeking" \in UnitState \ {"idle"} /\ at \in Ran /\ at' \in Waited
    BY <1>4 DEF UnitState, fdd_seek, Ran, Working, Waited, Moving
  <2> QED
    BY <1>4, <2>1, StartMotors DEF fdd_seek
<1>5. CASE fdd_startio
  <2>1. "io" \in UnitState \ {"idle"} /\ at \in Ran /\ at' \in Waited
    BY <1>5 DEF UnitState, fdd_startio, Ran, Working, Waited, Moving
  <2> QED
    BY <1>5, <2>1, StartMotors DEF fdd_startio
<1>6. CASE fdd_intr_reset
  <2>1. at' \in {"seldrive", "free"} /\ UNCHANGED <<seldrive, motor_bits, dor, late>>
    BY <1>6 DEF fdd_intr_reset
  <2> QED
    BY <2>1, MotorsKept DEF Ran, Working
<1>7. ASSUME NEW u \in Unit, SeekEnds(u) PROVE Motors'
  BY <1>7, MotorsKept DEF SeekEnds, driver
<1>8. CASE IoEnds
  <2>1. /\ UNCHANGED <<at, unit, seldrive, motor_bits, dor, late>>
        /\ job' \in {job, [job EXCEPT !.moved = TRUE]}
    BY <1>8 DEF IoEnds, Moved
  <2>2. job'.u = job.u
    BY <2>1 DEF FddInv, FddTypeOK, JobRecord
  <2> QED
    BY <2>1, <2>2, MotorsKept
<1>9. CASE UNCHANGED vars
  BY <1>9, MotorsKept DEF vars, driver
<1> QED
  BY <1>1, <1>2, <1>3, <1>4, <1>5, <1>6, <1>7, <1>8, <1>9, SeldriveMotors, SpunUpMotors,
     SpecifyMotors, RecalibratedMotors, StartioFailsMotors, IoDoneMotors, IntrSeekMotors,
     IntrIoMotors, MotorMotors
  DEF Next, Driver, Interrupt, Hardware

LEMMA InitMotors == Init => Motors
<1> SUFFICES ASSUME Init PROVE Motors
  OBVIOUS
<1>1. MotorTypeOK
  BY DEF Init, MotorTypeOK
<1> QED
  BY <1>1 DEF Init, Motors, Ran, Waited, Moving, Working

\* A drive that seeks or transfers is selected and its motor runs, on a
\* machine with one drive: the motor task never comes between.
THEOREM DriveIsRunning == OneDrive => (Spec => []DriveRuns)
<1> SUFFICES ASSUME OneDrive PROVE Spec => []DriveRuns
  OBVIOUS
<1>1. Init => FddInv /\ Motors /\ Transfers
  <2>1. Init => Transfers
    BY DEF Init, Transfers, Done
  <2> QED
    BY <2>1, InitInv, InitMotors
<1>2. FddInv /\ Motors /\ Transfers /\ [Next]_vars => (FddInv /\ Motors /\ Transfers)'
  BY NextStep, MotorsStep, TransfersStep
<1>3. FddInv /\ Motors /\ Transfers => DriveRuns
  <2> SUFFICES ASSUME FddInv, Motors, Transfers, NEW u \in Unit,
                      fdc.seeks[u] # None \/ (fdc.phase = "exec" /\ fdc.arg[1] = u)
               PROVE  dor.sel = u /\ u \in dor.on
    BY DEF DriveRuns
  <2>1. at \in Waited /\ job.u = u
    BY DEF FddInv, Commands, Transfers, DmaOfJob, Waited
  <2>2. seldrive = u /\ u \in dor.on
    BY <2>1 DEF Motors, Waited, Moving, Ran, Working
  <2> QED
    BY <2>2, NoJobIs DEF Motors
<1> QED
  BY <1>1, <1>2, <1>3, PTL DEF Spec

-----------------------------------------------------------------------------
(* The driver does what a block device promises, with one drive.           *)

\* The calls as the device sees them: see Device in Fdd.
QueueOf(cs, j) == [i \in DOMAIN cs |->
                    [c |-> cs[i].c, b |-> <<cs[i].u, cs[i].cyl>>,
                     doread |-> cs[i].doread,
                     moved |-> i = 1 /\ j.c = cs[i].c /\ j.moved]]
Queue == QueueOf(fdd_cs, job)
CallRecord == [c : Client, b : Block, doread : BOOLEAN, moved : BOOLEAN]

\* The call of the job has moved its data.
HasMoved(j) == j.c # None /\ j.moved

Entry(r, q, moved) ==
    /\ r \in CallRecord /\ r.c = q.c /\ r.b = <<q.u, q.cyl>>
    /\ (r.doread <=> q.doread) /\ (r.moved <=> moved)
IsQueue(Q, cs, j) ==
    /\ Q \in Seq(CallRecord) /\ Len(Q) = Len(cs)
    /\ \A i \in 1 .. Len(cs) : Entry(Q[i], cs[i], i = 1 /\ HasMoved(j))

LEMMA SameCalls ==
    ASSUME NEW r \in CallRecord, NEW s \in CallRecord,
           r.c = s.c, r.b = s.b, r.doread <=> s.doread, r.moved <=> s.moved
    PROVE  r = s
BY DEF CallRecord

LEMMA QueueIs ==
    ASSUME NEW cs \in Seq(JobRecord), \A i \in DOMAIN cs : Call(cs[i]),
           NEW j \in JobRecord, j.c # None => cs # <<>> /\ SameCall(j, Head(cs))
    PROVE  IsQueue(QueueOf(cs, j), cs, j)
<1>1. PICK Q : Q = QueueOf(cs, j)
  OBVIOUS
<1>2. DOMAIN cs = 1 .. Len(cs) /\ Len(cs) \in Nat
  OBVIOUS
<1>3. ASSUME NEW i \in 1 .. Len(cs)
      PROVE  Entry(Q[i], cs[i], i = 1 /\ HasMoved(j))
  <2>1. cs[i] \in JobRecord /\ Call(cs[i])
    BY <1>2
  <2>2. <<cs[i].u, cs[i].cyl>> \in Block
    BY <2>1 DEF Call, JobRecord, Block
  <2>3. i = 1 /\ j.c = cs[i].c /\ j.moved <=> i = 1 /\ HasMoved(j)
    <3>1. cs[i].c # None
      BY <2>1, NoJobIs DEF Call
    <3>2. j.c # None => cs[1].c = j.c
      BY DEF SameCall
    <3> QED
      BY <3>1, <3>2 DEF HasMoved
  <2>4. Q[i] = [c |-> cs[i].c, b |-> <<cs[i].u, cs[i].cyl>>, doread |-> cs[i].doread,
                moved |-> i = 1 /\ j.c = cs[i].c /\ j.moved]
    BY <1>1, <1>2 DEF QueueOf
  <2>5. PICK m \in BOOLEAN : m <=> i = 1 /\ j.c = cs[i].c /\ j.moved
    OBVIOUS
  <2>6. Q[i] = [c |-> cs[i].c, b |-> <<cs[i].u, cs[i].cyl>>, doread |-> cs[i].doread,
                moved |-> m]
    BY <2>4, <2>5
  <2>7. Q[i] \in CallRecord
    <3>1. cs[i].c \in Client /\ cs[i].doread \in BOOLEAN
      BY <2>1 DEF Call, JobRecord
    <3> QED
      BY <2>2, <2>6, <3>1 DEF CallRecord
  <2>8. /\ Q[i].c = cs[i].c /\ Q[i].b = <<cs[i].u, cs[i].cyl>>
        /\ Q[i].doread = cs[i].doread /\ Q[i].moved = m
    BY <2>6
  <2>9. Q[i].moved <=> i = 1 /\ HasMoved(j)
    BY <2>3, <2>5, <2>8
  <2> QED
    BY <2>7, <2>8, <2>9 DEF Entry
<1>4. Q = [i \in 1 .. Len(cs) |-> Q[i]]
  BY <1>1, <1>2 DEF QueueOf
<1>5. \A i \in 1 .. Len(cs) : Q[i] \in CallRecord
  BY <1>3 DEF Entry
<1>6. Q \in Seq(CallRecord) /\ Len(Q) = Len(cs)
  BY <1>2, <1>4, <1>5
<1> QED
  BY <1>1, <1>3, <1>6 DEF IsQueue

LEMMA QueueNow == ASSUME FddInv PROVE IsQueue(Queue, fdd_cs, job)
BY QueueIs DEF FddInv, FddTypeOK, Jobs, Queue

LEMMA QueueThen == ASSUME FddInv' PROVE IsQueue(Queue', fdd_cs', job')
BY QueueIs DEF FddInv, FddTypeOK, Jobs, Queue

\* Two queues with the same calls are the same.
LEMMA QueuesEqual ==
    ASSUME NEW Q \in Seq(CallRecord), NEW R \in Seq(CallRecord), Len(Q) = Len(R),
           NEW q, \A i \in 1 .. Len(R) : \E m \in BOOLEAN :
                        Entry(Q[i], q[i], m) /\ Entry(R[i], q[i], m)
    PROVE  Q = R
<1>1. ASSUME NEW i \in 1 .. Len(Q) PROVE Q[i] = R[i]
  <2>1. PICK m \in BOOLEAN : Entry(Q[i], q[i], m) /\ Entry(R[i], q[i], m)
    OBVIOUS
  <2> QED
    BY <2>1, SameCalls DEF Entry
<1> QED
  BY <1>1, SeqEqual

LEMMA QueueSame ==
    ASSUME FddInv, FddInv', fdd_cs' = fdd_cs, HasMoved(job') <=> HasMoved(job)
    PROVE  Queue' = Queue
<1>1. PICK Q : Q = Queue
  OBVIOUS
<1>2. PICK R : R = Queue'
  OBVIOUS
<1>3. PICK q : q = fdd_cs
  OBVIOUS
<1>4. IsQueue(Q, q, job) /\ IsQueue(R, q, job')
  BY <1>1, <1>2, <1>3, QueueNow, QueueThen
<1>5. ASSUME NEW i \in 1 .. Len(R)
      PROVE  \E m \in BOOLEAN : Entry(Q[i], q[i], m) /\ Entry(R[i], q[i], m)
  <2>1. Entry(Q[i], q[i], i = 1 /\ HasMoved(job)) /\ Entry(R[i], q[i], i = 1 /\ HasMoved(job'))
    BY <1>4 DEF IsQueue
  <2>2. PICK m \in BOOLEAN : m <=> i = 1 /\ HasMoved(job)
    OBVIOUS
  <2> QED
    BY <2>1, <2>2 DEF Entry
<1>6. Q = R
  BY <1>4, <1>5, QueuesEqual DEF IsQueue
<1> QED
  BY <1>1, <1>2, <1>6

\* A call that returns leaves the queue at its head.
LEMMA QueueEnds ==
    ASSUME FddInv, FddInv', job.c # None, fdd_cs' = Tail(fdd_cs), job' = NoJob
    PROVE  /\ Queue # <<>> /\ Queue' = Tail(Queue)
           /\ Head(Queue).c = job.c
           /\ Head(Queue).moved <=> job.moved
<1>1. PICK Q : Q = Queue
  OBVIOUS
<1>2. PICK R : R = Queue'
  OBVIOUS
<1>3. PICK q : q = fdd_cs'
  OBVIOUS
<1>4. /\ fdd_cs # <<>> /\ fdd_cs \in Seq(JobRecord) /\ SameCall(job, Head(fdd_cs))
      /\ IsQueue(Q, fdd_cs, job) /\ IsQueue(R, q, NoJob)
  BY <1>1, <1>2, <1>3, QueueNow, QueueThen DEF FddInv, FddTypeOK, Jobs
<1>5. /\ Len(fdd_cs) \in Nat /\ Len(fdd_cs) > 0 /\ Len(q) = Len(fdd_cs) - 1
      /\ fdd_cs[1] = Head(fdd_cs)
      /\ \A i \in 1 .. Len(q) : q[i] = fdd_cs[i + 1]
  BY <1>3, <1>4
<1>6. /\ Q \in Seq(CallRecord) /\ R \in Seq(CallRecord) /\ Len(Q) = Len(fdd_cs)
      /\ Len(R) = Len(q)
  BY <1>4 DEF IsQueue
<1>7. /\ Tail(Q) \in Seq(CallRecord) /\ Len(Tail(Q)) = Len(R) /\ Q # <<>> /\ Head(Q) = Q[1]
      /\ \A i \in 1 .. Len(R) : Tail(Q)[i] = Q[i + 1]
  BY <1>5, <1>6
<1>8. ASSUME NEW i \in 1 .. Len(R)
      PROVE  \E m \in BOOLEAN : Entry(R[i], q[i], m) /\ Entry(Tail(Q)[i], q[i], m)
  <2>1. PICK k : k = i + 1
    OBVIOUS
  <2>2. k \in 1 .. Len(fdd_cs) /\ k # 1 /\ Tail(Q)[i] = Q[k] /\ q[i] = fdd_cs[k]
    BY <1>5, <1>6, <1>7, <2>1
  <2>3. Entry(Q[k], fdd_cs[k], FALSE)
    BY <1>4, <2>2 DEF IsQueue, Entry
  <2>4. Entry(R[i], q[i], FALSE)
    BY <1>4, <1>6, NoJobIs DEF IsQueue, Entry, HasMoved
  <2> QED
    BY <2>2, <2>3, <2>4
<1>9. R = Tail(Q)
  <2>1. PICK T : T = Tail(Q)
    OBVIOUS
  <2>2. T \in Seq(CallRecord) /\ Len(R) = Len(T)
    BY <1>7, <2>1
  <2>3. \A i \in 1 .. Len(T) : \E m \in BOOLEAN : Entry(R[i], q[i], m) /\ Entry(T[i], q[i], m)
    BY <1>8, <2>1, <2>2
  <2>4. R = T
    BY <1>6, <2>2, <2>3, QueuesEqual
  <2> QED
    BY <2>1, <2>4
<1>10. Head(Q).c = job.c /\ (Head(Q).moved <=> job.moved)
  <2>1. Entry(Q[1], fdd_cs[1], 1 = 1 /\ HasMoved(job))
    BY <1>4, <1>5 DEF IsQueue
  <2> QED
    BY <1>4, <1>5, <1>7, <2>1 DEF Entry, HasMoved, SameCall
<1> QED
  BY <1>1, <1>2, <1>7, <1>9, <1>10

\* A call that is asked for goes to the end of the queue.
LEMMA QueueAsks ==
    ASSUME FddInv, FddInv', NEW r \in JobRecord, Call(r), r.doread \in BOOLEAN,
           fdd_cs' = Append(fdd_cs, r), job' = job
    PROVE  Queue' = Append(Queue, [c |-> r.c, b |-> <<r.u, r.cyl>>,
                                   doread |-> r.doread, moved |-> FALSE])
<1>1. PICK Q : Q = Queue
  OBVIOUS
<1>2. PICK R : R = Queue'
  OBVIOUS
<1>3. PICK q : q = fdd_cs'
  OBVIOUS
<1>4. PICK e : e = [c |-> r.c, b |-> <<r.u, r.cyl>>, doread |-> r.doread, moved |-> FALSE]
  OBVIOUS
<1>5. Entry(e, r, FALSE)
  BY <1>4 DEF Entry, CallRecord, Call, JobRecord, Block
<1>6. /\ fdd_cs \in Seq(JobRecord) /\ IsQueue(Q, fdd_cs, job) /\ IsQueue(R, q, job)
      /\ job.c # None => fdd_cs # <<>>
  BY <1>1, <1>2, <1>3, QueueNow, QueueThen DEF FddInv, FddTypeOK, Jobs
<1>7. /\ Len(fdd_cs) \in Nat /\ Len(q) = Len(fdd_cs) + 1 /\ q[Len(q)] = r
      /\ \A i \in 1 .. Len(fdd_cs) : q[i] = fdd_cs[i]
      /\ fdd_cs # <<>> => Len(fdd_cs) > 0
  BY <1>3, <1>6
<1>8. /\ Q \in Seq(CallRecord) /\ R \in Seq(CallRecord) /\ Len(Q) = Len(fdd_cs)
      /\ Len(R) = Len(q)
  BY <1>6 DEF IsQueue
<1>9. PICK T : T = Append(Q, e)
  OBVIOUS
<1>10. /\ T \in Seq(CallRecord) /\ Len(T) = Len(R) /\ T[Len(q)] = e
       /\ \A i \in 1 .. Len(fdd_cs) : T[i] = Q[i]
  BY <1>5, <1>7, <1>8, <1>9 DEF Entry
<1>11. ASSUME NEW i \in 1 .. Len(T)
       PROVE  \E m \in BOOLEAN : Entry(R[i], q[i], m) /\ Entry(T[i], q[i], m)
  <2>1. Entry(R[i], q[i], i = 1 /\ HasMoved(job))
    BY <1>6, <1>8, <1>10 DEF IsQueue
  <2>2. CASE i = Len(q)
    <3>1. ~ (i = 1 /\ HasMoved(job))
      BY <1>6, <1>7, <2>2 DEF HasMoved
    <3>2. Entry(R[i], q[i], FALSE) /\ Entry(T[i], q[i], FALSE)
      BY <1>5, <1>7, <1>10, <2>1, <2>2, <3>1 DEF Entry
    <3> QED
      BY <3>2
  <2>3. CASE i # Len(q)
    <3>1. i \in 1 .. Len(fdd_cs)
      BY <1>7, <1>8, <1>10, <2>3
    <3>2. Entry(Q[i], fdd_cs[i], i = 1 /\ HasMoved(job))
      BY <1>6, <3>1 DEF IsQueue
    <3>3. Entry(T[i], q[i], i = 1 /\ HasMoved(job))
      BY <1>7, <1>10, <3>1, <3>2
    <3>4. PICK m \in BOOLEAN : m <=> i = 1 /\ HasMoved(job)
      OBVIOUS
    <3> QED
      BY <2>1, <3>3, <3>4 DEF Entry
  <2> QED
    BY <2>2, <2>3
<1>12. R = T
  BY <1>8, <1>10, <1>11, QueuesEqual
<1> QED
  BY <1>1, <1>2, <1>4, <1>9, <1>12

\* The call of the job moves its data.
LEMMA QueueMoves ==
    ASSUME FddInv, FddInv', job.c # None, fdd_cs' = fdd_cs, job'.c # None, job'.moved = TRUE
    PROVE  /\ Queue # <<>> /\ Queue' = [Queue EXCEPT ![1].moved = TRUE]
           /\ Entry(Head(Queue), Head(fdd_cs), HasMoved(job))
<1>1. PICK Q : Q = Queue
  OBVIOUS
<1>2. PICK R : R = Queue'
  OBVIOUS
<1>3. PICK q : q = fdd_cs
  OBVIOUS
<1>4. /\ q # <<>> /\ q \in Seq(JobRecord) /\ IsQueue(Q, q, job) /\ IsQueue(R, q, job')
      /\ HasMoved(job')
  BY <1>1, <1>2, <1>3, QueueNow, QueueThen DEF FddInv, FddTypeOK, Jobs, HasMoved
<1>5. /\ Q \in Seq(CallRecord) /\ R \in Seq(CallRecord) /\ Len(Q) = Len(q)
      /\ Len(R) = Len(q) /\ Len(q) \in Nat /\ Len(q) > 0 /\ Head(q) = q[1]
      /\ Q # <<>> /\ Head(Q) = Q[1]
  BY <1>4 DEF IsQueue
<1>6. Entry(Q[1], q[1], 1 = 1 /\ HasMoved(job)) /\ Q[1] \in CallRecord
  BY <1>4, <1>5 DEF IsQueue
<1>7. PICK e : e = [Q[1] EXCEPT !.moved = TRUE]
  OBVIOUS
<1>8. Entry(e, q[1], TRUE)
  BY <1>6, <1>7 DEF Entry, CallRecord
<1>9. PICK T : T = [Q EXCEPT ![1] = e]
  OBVIOUS
<1>10. T = [Q EXCEPT ![1].moved = TRUE]
  BY <1>7, <1>9
<1>11. /\ T \in Seq(CallRecord) /\ Len(T) = Len(R) /\ T[1] = e
       /\ \A i \in 1 .. Len(q) : i # 1 => T[i] = Q[i]
  BY <1>5, <1>8, <1>9 DEF Entry
<1>12. ASSUME NEW i \in 1 .. Len(T)
       PROVE  \E m \in BOOLEAN : Entry(R[i], q[i], m) /\ Entry(T[i], q[i], m)
  <2>1. Entry(R[i], q[i], i = 1 /\ HasMoved(job'))
    BY <1>4, <1>5, <1>11 DEF IsQueue
  <2>2. CASE i = 1
    <3>1. Entry(R[i], q[i], TRUE) /\ Entry(T[i], q[i], TRUE)
      BY <1>4, <1>8, <1>11, <2>1, <2>2 DEF Entry
    <3> QED
      BY <3>1
  <2>3. CASE i # 1
    <3>1. Entry(Q[i], q[i], i = 1 /\ HasMoved(job)) /\ T[i] = Q[i]
      BY <1>4, <1>5, <1>11, <2>3 DEF IsQueue
    <3>2. Entry(R[i], q[i], FALSE) /\ Entry(T[i], q[i], FALSE)
      BY <2>1, <2>3, <3>1 DEF Entry
    <3> QED
      BY <3>2
  <2> QED
    BY <2>2, <2>3
<1>13. R = T
  BY <1>5, <1>11, <1>12, QueuesEqual
<1>14. Entry(Head(Q), Head(q), HasMoved(job))
  BY <1>5, <1>6 DEF Entry
<1> QED
  BY <1>1, <1>2, <1>3, <1>5, <1>10, <1>13, <1>14

DeviceStep == [Device!DevNext]_<<disk, buf, Queue, result>>

LEMMA AskStep ==
    ASSUME FddInv, FddInv', NEW c \in Client, fdd_rw(c)
    PROVE  DeviceStep
<1>1. PICK u \in Unit, y \in Cyl, doread \in BOOLEAN :
        /\ fdd_cs' = Append(fdd_cs, NewJob(c, u, y, doread))
        /\ buf' = [buf EXCEPT ![c] = IF doread THEN "old" ELSE c]
  BY Zenon DEF fdd_rw
<1>2. PICK r : r = NewJob(c, u, y, doread)
  OBVIOUS
<1>3. /\ r \in JobRecord /\ Call(r) /\ r.c = c /\ r.u = u /\ r.cyl = y
      /\ r.doread = doread
  BY <1>2, FddAssumption DEF NewJob, JobRecord, NoJob, Call
<1>4. fdd_cs' = Append(fdd_cs, r) /\ job' = job
  BY <1>1, <1>2 DEF fdd_rw
<1>5. Queue' = Append(Queue, [c |-> r.c, b |-> <<r.u, r.cyl>>,
                              doread |-> r.doread, moved |-> FALSE])
  BY <1>3, <1>4, QueueAsks
<1>6. Queue' = Append(Queue, [c |-> c, b |-> <<u, y>>, doread |-> doread, moved |-> FALSE])
  BY <1>3, <1>5
<1>7. \A i \in DOMAIN Queue : Queue[i].c # c
  <2>1. \A i \in DOMAIN fdd_cs : fdd_cs[i].c # c
    BY DEF fdd_rw, Calling
  <2> QED
    BY <2>1 DEF Queue, QueueOf
<1>8. PICK v \in Val : buf' = [buf EXCEPT ![c] = v]
  BY <1>1 DEF Val
<1>9. result' = [result EXCEPT ![c] = "none"] /\ UNCHANGED disk
  BY DEF fdd_rw
<1>10. <<u, y>> \in Block
  BY DEF Block
<1>11. Device!Ask(c, <<u, y>>, doread, v)
  BY <1>6, <1>7, <1>8, <1>9 DEF Device!Ask, Device!Calling, Queue, QueueOf
<1> QED
  BY <1>10, <1>11 DEF DeviceStep, Device!DevNext

LEMMA AnswerStep ==
    ASSUME FddInv, FddInv', NEW res \in {"ok", "error"}, Ends(res),
           res = "ok" => job.moved, UNCHANGED <<disk, buf>>
    PROVE  DeviceStep
<1>1. /\ job.c # None /\ fdd_cs' = Tail(fdd_cs) /\ job' = NoJob
      /\ result' = [result EXCEPT ![job.c] = res]
  BY DEF Ends
<1>2. /\ Queue # <<>> /\ Queue' = Tail(Queue) /\ Head(Queue).c = job.c
      /\ Head(Queue).moved <=> job.moved
  BY <1>1, QueueEnds
<1>3. result' = [result EXCEPT ![Head(Queue).c] = res] /\ (res = "ok" => Head(Queue).moved)
  BY <1>1, <1>2
<1>4. Device!Answer(res)
  BY <1>2, <1>3 DEF Device!Answer, Queue, QueueOf
<1> QED
  BY <1>4 DEF DeviceStep, Device!DevNext

LEMMA SameStep ==
    ASSUME FddInv, FddInv', fdd_cs' = fdd_cs, HasMoved(job') <=> HasMoved(job),
           UNCHANGED <<disk, buf, result>>
    PROVE  DeviceStep
<1>1. Queue' = Queue
  BY QueueSame
<1> QED
  BY <1>1 DEF DeviceStep

\* The data goes where the call says: the drive is the one of the job.
LEMMA MoveDataStep ==
    ASSUME FddInv, FddInv', Motors, Transfers, IoEnds
    PROVE  DeviceStep
<1>1. fdc.phase = "exec" /\ UNCHANGED <<fdd_cs, result>>
  BY DEF IoEnds
<1>2. /\ at = "iowait" /\ DmaOfJob /\ job.c # None /\ job \in JobRecord
      /\ fdd_cs # <<>> /\ SameCall(job, Head(fdd_cs))
  BY <1>1 DEF FddInv, FddTypeOK, Commands, Transfers, Jobs, Serving
<1>3. dor.sel = job.u
  BY <1>2, NoJobIs DEF Motors, Ran, Working, FddInv, Jobs
<1>4. CASE Moved
  <2>1. job'.c # None /\ job'.moved = TRUE
    BY <1>2, <1>4 DEF Moved, JobRecord
  <2>2. /\ Queue # <<>> /\ Queue' = [Queue EXCEPT ![1].moved = TRUE]
        /\ Entry(Head(Queue), Head(fdd_cs), HasMoved(job))
    BY <1>1, <1>2, <2>1, QueueMoves
  <2>3. PICK b : b = <<dor.sel, fdc.arg[2]>>
    OBVIOUS
  <2>4. Head(Queue).b = b /\ Head(Queue).c = dma.c /\ (Head(Queue).doread <=> ~ dma.write)
    BY <1>2, <1>3, <2>2, <2>3 DEF Entry, SameCall, DmaOfJob
  <2>5. IF dma.write
        THEN disk' = [disk EXCEPT ![b] = buf[dma.c]] /\ UNCHANGED buf
        ELSE buf' = [buf EXCEPT ![dma.c] = disk[b]] /\ UNCHANGED disk
    BY <1>4, <2>3 DEF Moved
  <2>6. IF Head(Queue).doread
        THEN buf' = [buf EXCEPT ![Head(Queue).c] = disk[Head(Queue).b]] /\ UNCHANGED disk
        ELSE disk' = [disk EXCEPT ![Head(Queue).b] = buf[Head(Queue).c]] /\ UNCHANGED buf
    BY <2>4, <2>5
  <2>7. Device!Move
    BY <1>1, <2>2, <2>6 DEF Device!Move, Queue, QueueOf
  <2> QED
    BY <2>7 DEF DeviceStep, Device!DevNext
<1>5. CASE UNCHANGED <<disk, buf, job>>
  BY <1>1, <1>5, SameStep
<1> QED
  BY <1>4, <1>5 DEF IoEnds

LEMMA DeviceSteps ==
    ASSUME FddInv, FddInv', Motors, Transfers, [Next]_vars
    PROVE  DeviceStep
<1>1. CASE fdd_op
  <2>1. /\ at = "free" /\ fdd_cs # <<>> /\ job' = Head(fdd_cs)
        /\ UNCHANGED <<fdd_cs, disk, buf, result>>
    BY <1>1 DEF fdd_op
  <2>2. ~ HasMoved(job) /\ ~ HasMoved(job')
    BY <2>1, NoJobIs DEF FddInv, FddTypeOK, Jobs, Resting, Call, HasMoved
  <2> QED
    BY <2>1, <2>2, SameStep
<1>2. CASE Driver /\ ~ fdd_op
  <2>1. DriverGoes
    BY <1>2, DriverStep
  <2>2. CASE Goes
    <3>1. HasMoved(job') <=> HasMoved(job)
      BY <2>2 DEF Goes, HasMoved
    <3> QED
      BY <2>1, <2>2, <3>1, SameStep DEF Goes, DriverGoes
  <2>3. CASE Ends("error")
    BY <2>1, <2>3, AnswerStep DEF DriverGoes
  <2>4. CASE Ends("ok") /\ Done
    BY <2>1, <2>4, AnswerStep DEF DriverGoes, Transfers
  <2> QED
    BY <2>1, <2>2, <2>3, <2>4 DEF DriverGoes
<1>3. CASE fdd_intr_reset
  <2>1. UNCHANGED <<fdd_cs, disk, buf, result>> /\ "RESET" \in ctrl_state
        /\ job' \in {job, [NoJob EXCEPT !.u = FirstUnit, !.recal = 1]}
    BY <1>3 DEF fdd_intr_reset
  <2>2. job = NoJob
    BY <2>1 DEF FddInv, Flags, Jobs, Resting
  <2>3. job.c = None /\ job'.c = None
    BY <2>1, <2>2, NoJobIs DEF JobRecord
  <2> QED
    BY <2>1, <2>3, SameStep DEF HasMoved
<1>4. CASE fdd_intr_seek \/ fdd_intr_io \/ fdd_motor_task \/ UNCHANGED vars
  <2>1. UNCHANGED <<fdd_cs, job, disk, buf, result>>
    BY <1>4 DEF fdd_intr_seek, fdd_intr_io, fdd_motor_task, vars, driver
  <2> QED
    BY <2>1, SameStep
<1>5. ASSUME NEW u \in Unit, SeekEnds(u) PROVE DeviceStep
  BY <1>5, SameStep DEF SeekEnds, driver
<1> QED
  BY <1>1, <1>2, <1>3, <1>4, <1>5, AskStep, MoveDataStep DEF Next, Interrupt, Hardware

LEMMA InitDevice == Init => Device!DevInit
<1> SUFFICES ASSUME Init PROVE Device!DevInit
  OBVIOUS
<1>1. IsQueue(Queue, fdd_cs, job) /\ fdd_cs = <<>>
  BY InitInv, QueueNow DEF Init
<1>2. Queue = <<>>
  BY <1>1 DEF IsQueue
<1>3. disk \in [Block -> Val] /\ buf \in [Client -> Val]
  BY DEF Init, Val
<1> QED
  BY <1>2, <1>3 DEF Init, Device!DevInit, Queue, QueueOf

\* On a machine with one drive fdd_read and fdd_write serve one call after
\* the other, and one that reports success has moved its block.
THEOREM DriveServes == OneDrive => (Spec => ImplementsDevice)
<1> SUFFICES ASSUME OneDrive PROVE Spec => ImplementsDevice
  OBVIOUS
<1> DEFINE Inv == FddInv /\ Motors /\ Transfers
<1>1. Init => Inv /\ Device!DevInit
  <2>1. Init => Transfers
    BY DEF Init, Transfers, Done
  <2> QED
    BY <2>1, InitInv, InitMotors, InitDevice
<1>2. Inv /\ [Next]_vars => Inv'
  BY NextStep, MotorsStep, TransfersStep
<1>3. Inv /\ [Next]_vars => DeviceStep
  BY <1>2, DeviceSteps
<1> QED
  BY <1>1, <1>2, <1>3, PTL DEF Spec, ImplementsDevice, Device!DevSpec, DeviceStep, Queue, QueueOf
=============================================================================
