-------------------------- MODULE DaemonizeProofs --------------------------
(***************************************************************************)
(* Proofs about Daemonize, for any number of overlapping launches and any  *)
(* set of faults.                                                          *)
(***************************************************************************)
EXTENDS Daemonize, TLAPS

(* The daemon has the lock on the PID file it opened. *)
LockSteps == {"truncate", "write", "config", "init", "notify", "check", "poll"}
PidSteps == {"config", "init", "notify", "check", "poll"}

(* What keeps two daemons off one PID file: who is past lockf() holds the  *)
(* lock on the file it opened, and the file has its pid once it is written.*)
LockInv ==
  /\ dmn \in [Launches -> StepNames \cup {"none", "exited"}]
  /\ pidFile \in Somebody
  /\ opened \in [Launches -> Somebody]
  /\ locked \in [Launches -> Somebody]
  /\ content \in [Launches -> Somebody]
  /\ \A l \in Launches : dmn[l] \in {"lock"} \cup LockSteps => opened[l] \in Launches
  /\ \A l \in Launches : dmn[l] \in LockSteps => locked[opened[l]] = l
  /\ \A l \in Launches : dmn[l] \in PidSteps => content[opened[l]] = l

(* A daemon that ends leaves every other one's lock and file alone. *)
LEMMA ExitKeepsLockInv ==
  ASSUME NEW l \in Launches, LockInv, Exit(l)
  PROVE  LockInv'
<1>1. /\ dmn' = [dmn EXCEPT ![l] = "exited"]
      /\ locked' = [f \in Launches |-> IF locked[f] = l THEN "nobody" ELSE locked[f]]
      /\ pidFile' = pidFile /\ opened' = opened /\ content' = content
  BY DEF Exit
<1>2. ASSUME NEW k \in Launches, dmn'[k] \in {"lock"} \cup LockSteps
      PROVE  k # l /\ dmn[k] = dmn'[k]
  BY <1>1, <1>2 DEF LockInv, LockSteps
<1>3. locked' \in [Launches -> Somebody]
  BY <1>1 DEF LockInv, Somebody
<1>4. \A k \in Launches : dmn'[k] \in LockSteps => locked'[opened'[k]] = k
  BY <1>1, <1>2 DEF LockInv
<1>5. \A k \in Launches : dmn'[k] \in PidSteps => content'[opened'[k]] = k
  BY <1>1, <1>2 DEF LockInv, PidSteps, LockSteps
<1> QED
  BY <1>1, <1>2, <1>3, <1>4, <1>5 DEF LockInv

(* A daemon that goes on to a step which promises no more than the one it  *)
(* is at, and leaves the files alone, keeps the invariant.                 *)
LEMMA MoveKeepsLockInv ==
  ASSUME NEW l \in Launches, LockInv, NEW step \in StepNames, GoTo(l, step),
         UNCHANGED <<pidFile, opened, locked, content>>,
         step \in {"lock"} \cup LockSteps => dmn[l] \in {"lock"} \cup LockSteps,
         step \in LockSteps => dmn[l] \in LockSteps,
         step \in PidSteps => dmn[l] \in PidSteps
  PROVE  LockInv'
<1>1. dmn' = [dmn EXCEPT ![l] = step]
  BY DEF GoTo
<1> QED
  BY <1>1 DEF LockInv

(* Every step of the system keeps LockInv. *)
LEMMA LockInvStep == LockInv /\ [Next]_vars => LockInv'
<1> SUFFICES ASSUME LockInv, [Next]_vars PROVE LockInv'
  OBVIOUS
<1>1. CASE UNCHANGED <<dmn, pidFile, opened, locked, content>>
  BY <1>1 DEF LockInv
<1>2. ASSUME NEW l \in Launches, ChildForks(l) PROVE LockInv'
  <2>1. UNCHANGED <<pidFile, opened, locked, content>>
    BY <1>2 DEF ChildForks, fileVars
  <2>2. dmn' = dmn \/ dmn' = [dmn EXCEPT ![l] = "stdio"]
    BY <1>2 DEF ChildForks
  <2> QED
    BY <2>1, <2>2 DEF LockInv, LockSteps, PidSteps, StepNames
<1>3. ASSUME NEW l \in Launches, OpenPidFile(l) PROVE LockInv'
  <2>1. /\ dmn' = [dmn EXCEPT ![l] = "lock"]
        /\ pidFile' \in Launches
        /\ opened' = [opened EXCEPT ![l] = pidFile']
        /\ UNCHANGED <<locked, content>>
    BY <1>3 DEF OpenPidFile, GoTo, LockInv, Somebody
  <2> QED
    BY <2>1 DEF LockInv, LockSteps, PidSteps, StepNames, Somebody
<1>4. ASSUME NEW l \in Launches, LockPidFile(l) PROVE LockInv'
  <2>1. CASE Exit(l)
    BY <2>1, ExitKeepsLockInv
  <2>2. CASE ~Exit(l)
    <3>1. /\ dmn' = [dmn EXCEPT ![l] = "truncate"]
          /\ locked[opened[l]] = "nobody"
          /\ locked' = [locked EXCEPT ![opened[l]] = l]
          /\ UNCHANGED <<pidFile, opened, content>>
      BY <1>4, <2>2 DEF LockPidFile, GoTo, CanLock
    <3>2. \A k \in Launches : dmn[k] \in LockSteps => opened[k] # opened[l]
      BY <3>1, DaemonizeAssumption DEF LockInv
    <3>3. \A k \in Launches : dmn'[k] \in LockSteps => locked'[opened'[k]] = k
      <4> SUFFICES ASSUME NEW k \in Launches, dmn'[k] \in LockSteps
                   PROVE  locked'[opened'[k]] = k
        OBVIOUS
      <4>1. CASE k = l
        BY <3>1, <4>1, <1>4 DEF LockInv, LockPidFile
      <4>2. CASE k # l
        BY <3>1, <3>2, <4>2 DEF LockInv
      <4> QED
        BY <4>1, <4>2
    <3>4. opened[l] \in Launches
      BY <1>4 DEF LockInv, LockPidFile
    <3> QED
      BY <3>1, <3>3, <3>4 DEF LockInv, LockSteps, PidSteps, StepNames, Somebody
  <2> QED
    BY <2>1, <2>2
<1>5. ASSUME NEW l \in Launches, TruncatePidFile(l) PROVE LockInv'
  <2>1. /\ dmn[l] = "truncate"
        /\ dmn' = [dmn EXCEPT ![l] = "write"]
        /\ content' = [content EXCEPT ![opened[l]] = "nobody"]
        /\ UNCHANGED <<pidFile, opened, locked>>
    BY <1>5 DEF TruncatePidFile, GoTo
  <2>2. \A k \in Launches : k # l /\ dmn[k] \in LockSteps => opened[k] # opened[l]
    BY <2>1 DEF LockInv, LockSteps
  <2>3. \A k \in Launches : dmn'[k] \in PidSteps => content'[opened'[k]] = k
    BY <2>1, <2>2 DEF LockInv, LockSteps, PidSteps
  <2>4. content' \in [Launches -> Somebody]
    BY <2>1 DEF LockInv, Somebody
  <2> QED
    BY <2>1, <2>3, <2>4 DEF LockInv, LockSteps, StepNames
<1>6. ASSUME NEW l \in Launches, WritePidFile(l) PROVE LockInv'
  <2>1. /\ dmn[l] = "write"
        /\ dmn' = [dmn EXCEPT ![l] = "config"]
        /\ content' = [content EXCEPT ![opened[l]] = l]
        /\ UNCHANGED <<pidFile, opened, locked>>
    BY <1>6 DEF WritePidFile, GoTo
  <2>2. \A k \in Launches : k # l /\ dmn[k] \in LockSteps => opened[k] # opened[l]
    BY <2>1 DEF LockInv, LockSteps
  <2>3. opened[l] \in Launches
    BY <2>1 DEF LockInv, LockSteps
  <2>4. \A k \in Launches : dmn'[k] \in PidSteps => content'[opened'[k]] = k
    BY <2>1, <2>2, <2>3 DEF LockInv, LockSteps, PidSteps
  <2>5. content' \in [Launches -> Somebody]
    BY <2>1 DEF LockInv, Somebody
  <2> QED
    BY <2>1, <2>4, <2>5 DEF LockInv, LockSteps, StepNames
<1>7. ASSUME NEW l \in Launches,
             RedirectStdio(l) \/ LoadConfig(l) \/ PollReturns(l)
      PROVE  LockInv'
  BY <1>7, MoveKeepsLockInv
  DEF RedirectStdio, LoadConfig, PollReturns, GoTo, fileVars, StepNames, LockSteps, PidSteps
<1>8. ASSUME NEW l \in Launches,
             InitEngine(l) \/ NotifyInitComplete(l) \/ CheckLoop(l)
      PROVE  LockInv'
  <2>1. CASE Exit(l)
    BY <2>1, ExitKeepsLockInv
  <2>2. CASE ~Exit(l)
    BY <1>8, <2>2, MoveKeepsLockInv
    DEF InitEngine, NotifyInitComplete, CheckLoop, GoTo, fileVars, StepNames, LockSteps, PidSteps
  <2> QED
    BY <2>1, <2>2
<1>9. ASSUME NEW l \in Launches, StepFails(l) \/ Crash(l) PROVE LockInv'
  BY <1>9, ExitKeepsLockInv DEF StepFails, Crash
<1>10. ASSUME NEW l \in Launches,
              \/ Start(l) \/ OriginalForks(l) \/ OriginalReads(l) \/ OriginalInterrupted(l)
              \/ ChildCrash(l) \/ Signal(l)
       PROVE  UNCHANGED <<dmn, pidFile, opened, locked, content>>
  BY <1>10
  DEF Start, OriginalForks, OriginalReads, OriginalInterrupted, ChildCrash, Signal, fileVars
<1>11. CASE StopSignals
  BY <1>11 DEF StopSignals, fileVars, LockInv
<1>12. CASE StopRemoves
  BY <1>12 DEF StopRemoves, procVars, LockInv, Somebody
<1>13. CASE UNCHANGED vars
  BY <1>13, <1>1 DEF vars, procVars, fileVars
<1> QED
  BY <1>1, <1>2, <1>3, <1>4, <1>5, <1>6, <1>7, <1>8, <1>9, <1>10, <1>11, <1>12, <1>13
  DEF Next, DaemonStep

(* A living daemon's PID file has its pid, whatever other launches do at   *)
(* the same time (step_12_create_pid_file locks before it truncates).      *)
THEOREM PidFilesAreKept == Spec => []PidFileIsKept
<1>1. Init => LockInv
  BY DEF Init, LockInv, LockSteps, PidSteps, StepNames, Somebody
<1>2. LockInv => PidFileIsKept
  BY DEF LockInv, PidFileIsKept, PidSteps
<1> QED
  BY <1>1, <1>2, LockInvStep, PTL DEF Spec

-----------------------------------------------------------------------------
(* Only an initialized daemon is told of on the pipe. *)
PipeInv ==
  /\ dmn \in [Launches -> StepNames \cup {"none", "exited"}]
  /\ pipe \in [Launches -> Seq({"error", "init_complete"})]
  /\ \A l \in Launches : dmn[l] \in {"notify", "check", "poll"} => l \in ready
  /\ \A l \in Launches : \A i \in 1 .. Len(pipe[l]) : pipe[l][i] = "init_complete" => l \in ready
  /\ orig \in [Launches -> {"none", "refused", "starting", "waiting", "ok", "failed"}]
  /\ \A l \in Launches : orig[l] = "ok" => l \in ready

(* What Written does to the pipes. *)
LEMMA WrittenPipe ==
  ASSUME NEW l \in Launches, PipeInv, NEW msg \in {"error", "init_complete"},
         msg = "init_complete" => l \in ready,
         pipe' = Written(l, msg), ready \subseteq ready'
  PROVE  /\ pipe' \in [Launches -> Seq({"error", "init_complete"})]
         /\ \A k \in Launches : \A i \in 1 .. Len(pipe'[k]) :
              pipe'[k][i] = "init_complete" => k \in ready'
<1>1. CASE pipe' = pipe
  BY <1>1 DEF PipeInv
<1>2. CASE pipe' = [pipe EXCEPT ![l] = Append(pipe[l], msg)]
  <2>1. pipe[l] \in Seq({"error", "init_complete"})
    BY DEF PipeInv
  <2>2. Append(pipe[l], msg) \in Seq({"error", "init_complete"})
    BY <2>1
  <2>3. ASSUME NEW i \in 1 .. Len(Append(pipe[l], msg)),
               Append(pipe[l], msg)[i] = "init_complete"
        PROVE  l \in ready
    BY <2>1, <2>3 DEF PipeInv
  <2> QED
    BY <1>2, <2>2, <2>3 DEF PipeInv
<1> QED
  BY <1>1, <1>2 DEF Written

(* Every step of the system keeps PipeInv. *)
LEMMA PipeInvStep == PipeInv /\ [Next]_vars => PipeInv'
<1> SUFFICES ASSUME PipeInv, [Next]_vars PROVE PipeInv'
  OBVIOUS
<1>1. CASE UNCHANGED <<dmn, pipe, orig, ready>>
  BY <1>1 DEF PipeInv
<1>2. ASSUME NEW l \in Launches, Start(l) \/ OriginalForks(l) \/ OriginalInterrupted(l)
      PROVE  PipeInv'
  <2>1. PICK status \in {"starting", "refused", "waiting", "failed"} :
            orig' = [orig EXCEPT ![l] = status]
    BY <1>2 DEF Start, OriginalForks, OriginalInterrupted
  <2>2. UNCHANGED <<dmn, pipe, ready>>
    BY <1>2 DEF Start, OriginalForks, OriginalInterrupted
  <2>3. /\ orig' \in [Launches -> {"none", "refused", "starting", "waiting", "ok", "failed"}]
        /\ \A k \in Launches : orig'[k] = "ok" => k \in ready'
    BY <2>1, <2>2 DEF PipeInv
  <2> QED
    BY <2>2, <2>3 DEF PipeInv
<1>3. ASSUME NEW l \in Launches, OriginalReads(l) PROVE PipeInv'
  <2>1. /\ orig' = [orig EXCEPT ![l] = ExitStatus(pipe[l])]
        /\ UNCHANGED <<dmn, pipe, ready>>
    BY <1>3 DEF OriginalReads
  <2>2. ExitStatus(pipe[l]) = "ok" => l \in ready
    <3> SUFFICES ASSUME pipe[l] = <<"init_complete">> PROVE l \in ready
      BY DEF ExitStatus
    <3>1. 1 \in 1 .. Len(pipe[l]) /\ pipe[l][1] = "init_complete"
      OBVIOUS
    <3> QED
      BY <3>1 DEF PipeInv
  <2>3. ExitStatus(pipe[l]) \in {"ok", "failed"}
    BY DEF ExitStatus
  <2>4. /\ orig' \in [Launches -> {"none", "refused", "starting", "waiting", "ok", "failed"}]
        /\ \A k \in Launches : orig'[k] = "ok" => k \in ready'
    BY <2>1, <2>2, <2>3 DEF PipeInv
  <2> QED
    BY <2>1, <2>4 DEF PipeInv
<1>4. ASSUME NEW l \in Launches, ChildForks(l) PROVE PipeInv'
  <2>1. orig' = orig /\ ready' = ready
    BY <1>4 DEF ChildForks
  <2>2. CASE dmn' = [dmn EXCEPT ![l] = "stdio"] /\ pipe' = pipe
    BY <2>1, <2>2 DEF PipeInv, StepNames
  <2>3. CASE dmn' = dmn /\ pipe' = Written(l, "error")
    BY <2>1, <2>3, WrittenPipe DEF PipeInv
  <2> QED
    BY <1>4, <2>2, <2>3 DEF ChildForks
<1>5. ASSUME NEW l \in Launches, Exit(l), pipe' = pipe \/ pipe' = Written(l, "error")
      PROVE  PipeInv'
  <2>1. /\ dmn' = [dmn EXCEPT ![l] = "exited"]
        /\ orig' = orig /\ ready' = ready
    BY <1>5 DEF Exit
  <2>2. CASE pipe' = pipe
    BY <2>1, <2>2 DEF PipeInv
  <2>3. CASE pipe' = Written(l, "error")
    BY <2>1, <2>3, WrittenPipe DEF PipeInv
  <2> QED
    BY <1>5, <2>2, <2>3
<1>6. ASSUME NEW l \in Launches, NEW step \in StepNames, GoTo(l, step),
             step \in {"notify", "check", "poll"} => l \in ready',
             UNCHANGED <<orig, pipe>>, ready \subseteq ready'
      PROVE  PipeInv'
  BY <1>6 DEF GoTo, PipeInv
<1>7. ASSUME NEW l \in Launches, dmn[l] = "notify", GoTo(l, "check"),
             pipe' = Written(l, "init_complete"), UNCHANGED <<orig, ready>>
      PROVE  PipeInv'
  <2>1. /\ dmn' = [dmn EXCEPT ![l] = "check"]
        /\ pipe' = Written(l, "init_complete")
        /\ orig' = orig /\ ready' = ready
        /\ dmn[l] = "notify"
    BY <1>7 DEF GoTo
  <2>2. l \in ready
    BY <2>1 DEF PipeInv
  <2> QED
    BY <2>1, <2>2, WrittenPipe DEF PipeInv, StepNames
<1>8. ASSUME NEW l \in Launches, DaemonStep(l) PROVE PipeInv'
  <2>1. CASE RedirectStdio(l) \/ LoadConfig(l)
    BY <2>1, <1>6 DEF RedirectStdio, LoadConfig, StepNames, GoTo
  <2>2. CASE OpenPidFile(l) \/ TruncatePidFile(l) \/ WritePidFile(l)
    BY <2>2, <1>6 DEF OpenPidFile, TruncatePidFile, WritePidFile, StepNames, GoTo
  <2>3. CASE LockPidFile(l)
    BY <2>3, <1>5, <1>6 DEF LockPidFile, StepNames, GoTo
  <2>4. CASE InitEngine(l)
    <3>1. CASE Exit(l)
      BY <2>4, <3>1, <1>5 DEF InitEngine, Exit
    <3>2. CASE ~Exit(l)
      <4>1. GoTo(l, "notify") /\ ready' = ready \cup {l} /\ UNCHANGED <<orig, pipe>>
        BY <2>4, <3>2 DEF InitEngine
      <4> QED
        BY <4>1, <1>6 DEF StepNames
    <3> QED
      BY <3>1, <3>2
  <2>5. CASE NotifyInitComplete(l)
    BY <2>5, <1>5, <1>7 DEF NotifyInitComplete
  <2>6. CASE CheckLoop(l)
    BY <2>6, <1>5, <1>6 DEF CheckLoop, StepNames, GoTo, PipeInv
  <2>7. CASE PollReturns(l)
    BY <2>7, <1>6 DEF PollReturns, StepNames, GoTo, PipeInv
  <2> QED
    BY <1>8, <2>1, <2>2, <2>3, <2>4, <2>5, <2>6, <2>7 DEF DaemonStep
<1>9. ASSUME NEW l \in Launches, StepFails(l) \/ Crash(l) PROVE PipeInv'
  BY <1>9, <1>5 DEF StepFails, Crash
<1>10. ASSUME NEW l \in Launches, Signal(l) \/ ChildCrash(l) PROVE PipeInv'
  BY <1>10, <1>1 DEF Signal, ChildCrash
<1>11. CASE StopSignals \/ StopRemoves
  BY <1>11, <1>1 DEF StopSignals, StopRemoves, procVars
<1>12. CASE UNCHANGED vars
  BY <1>12, <1>1 DEF vars, procVars
<1> QED
  BY <1>2, <1>3, <1>4, <1>8, <1>9, <1>10, <1>11, <1>12 DEF Next

(* The original process exits with success only after the daemon's engine  *)
(* was initialized, whatever fails, crashes or is signalled on the way     *)
(* (step_14_notify_init_complete, step_15_exit_org_process).               *)
THEOREM SuccessIsEarned == Spec => []SuccessMeansReady
<1>1. Init => PipeInv
  BY DEF Init, PipeInv, StepNames
<1>2. PipeInv => SuccessMeansReady
  BY DEF PipeInv, SuccessMeansReady
<1> QED
  BY <1>1, <1>2, PipeInvStep, PTL DEF Spec

-----------------------------------------------------------------------------
(* The types that neither of the two invariants above needs. *)
RestTypes ==
  /\ child \in [Launches -> {"none", "running", "exited"}]
  /\ writers \in [Launches -> SUBSET {"original", "child", "daemon"}]
  /\ term \subseteq Launches
  /\ ready \subseteq Launches
  /\ bound \in Somebody
  /\ script \in {"idle", "signalled", "stopped"}

(* Every step of the system keeps them. *)
LEMMA RestTypesStep == RestTypes /\ LockInv /\ [Next]_vars => RestTypes'
<1> SUFFICES ASSUME RestTypes, LockInv, [Next]_vars PROVE RestTypes'
  OBVIOUS
<1>1. CASE UNCHANGED <<child, writers, term, ready, bound, script>>
  BY <1>1 DEF RestTypes
<1>2. ASSUME NEW l \in Launches, OriginalForks(l) PROVE RestTypes'
  BY <1>2 DEF OriginalForks, WritersAfterFork, fileVars, RestTypes
<1>3. ASSUME NEW l \in Launches, OriginalReads(l) \/ OriginalInterrupted(l) PROVE RestTypes'
  BY <1>3 DEF OriginalReads, OriginalInterrupted, fileVars, RestTypes
<1>4. ASSUME NEW l \in Launches, ChildForks(l) PROVE RestTypes'
  <2>1. child' \in [Launches -> {"none", "running", "exited"}]
    BY <1>4 DEF ChildForks, RestTypes
  <2>2. writers' \in [Launches -> SUBSET {"original", "child", "daemon"}]
    BY <1>4 DEF ChildForks, RestTypes
  <2> QED
    BY <1>4, <2>1, <2>2 DEF ChildForks, fileVars, RestTypes
<1>13. ASSUME NEW l \in Launches, ChildCrash(l) PROVE RestTypes'
  BY <1>13 DEF ChildCrash, fileVars, RestTypes
<1>5. ASSUME NEW l \in Launches, Exit(l) PROVE RestTypes'
  BY <1>5 DEF Exit, RestTypes, Somebody
<1>6. ASSUME NEW l \in Launches, DaemonStep(l), ~Exit(l) PROVE RestTypes'
  <2>1. CASE InitEngine(l)
    BY <1>6, <2>1 DEF InitEngine, RestTypes, Somebody
  <2>2. CASE NotifyInitComplete(l)
    BY <1>6, <2>2 DEF NotifyInitComplete, fileVars, RestTypes
  <2>3. CASE OpenPidFile(l) \/ LockPidFile(l) \/ TruncatePidFile(l) \/ WritePidFile(l)
    BY <1>1, <1>6, <2>3 DEF OpenPidFile, LockPidFile, TruncatePidFile, WritePidFile
  <2>4. CASE RedirectStdio(l) \/ LoadConfig(l) \/ CheckLoop(l) \/ PollReturns(l)
    BY <1>1, <1>6, <2>4 DEF RedirectStdio, LoadConfig, CheckLoop, PollReturns, fileVars
  <2> QED
    BY <1>6, <2>1, <2>2, <2>3, <2>4 DEF DaemonStep
<1>7. ASSUME NEW l \in Launches, Start(l) PROVE RestTypes'
  BY <1>1, <1>7 DEF Start, fileVars
<1>8. ASSUME NEW l \in Launches, StepFails(l) \/ Crash(l) PROVE RestTypes'
  BY <1>5, <1>8 DEF StepFails, Crash
<1>9. ASSUME NEW l \in Launches, Signal(l) PROVE RestTypes'
  BY <1>9 DEF Signal, fileVars, RestTypes
<1>10. CASE StopSignals
  <2>1. pidFile \in Launches /\ content[pidFile] \in Somebody
    BY <1>10 DEF StopSignals, LockInv, Somebody
  <2>2. term' \subseteq Launches
    BY <1>10, <2>1 DEF StopSignals, RestTypes, Somebody
  <2> QED
    BY <1>10, <2>2 DEF StopSignals, fileVars, RestTypes
<1>11. CASE StopRemoves
  BY <1>11 DEF StopRemoves, procVars, RestTypes
<1>12. CASE UNCHANGED vars
  BY <1>1, <1>12 DEF vars, procVars, fileVars
<1> QED
  BY <1>2, <1>3, <1>4, <1>5, <1>6, <1>7, <1>8, <1>9, <1>10, <1>11, <1>12, <1>13 DEF Next

(* The processes, the pipe and the PID file stay in their types: a process *)
(* that exits always has one of the exit statuses of main.                 *)
THEOREM DaemonizeTypeCorrect == Spec => []TypeOK
<1>1. Init => LockInv
  BY DEF Init, LockInv, LockSteps, PidSteps, StepNames, Somebody
<1>2. Init => PipeInv
  BY DEF Init, PipeInv, StepNames
<1>3. Init => RestTypes
  BY DEF Init, RestTypes, Somebody
<1>4. LockInv /\ PipeInv /\ RestTypes => TypeOK
  BY DEF LockInv, PipeInv, RestTypes, TypeOK
<1> QED
  BY <1>1, <1>2, <1>3, <1>4, LockInvStep, PipeInvStep, RestTypesStep, PTL DEF Spec

=============================================================================
