----------------------------- MODULE Daemonize -----------------------------
(***************************************************************************)
(* How the daemon comes up and goes down (src/daemon/main.cpp), and the    *)
(* script that starts and stops it (init.d/ocvsmd).                        *)
(*                                                                         *)
(* A launch is three processes: the original one, which waits on a pipe for*)
(* the outcome, its child, and the grandchild that becomes the daemon. The *)
(* PID file is known by the launch that created it; a file that was removed*)
(* lives on for those who have it open.                                    *)
(***************************************************************************)
EXTENDS Naturals, Sequences

CONSTANTS
  Launches,  \* the invocations of the daemon's binary; also the pid of its daemon
  Faults     \* the failures this instance allows

ASSUME DaemonizeAssumption ==
  /\ "nobody" \notin Launches
  /\ Faults \subseteq {"stepFail", "crash", "signal", "stop"}

VARIABLES
  orig,     \* original process: "none", "refused" (by the script), "starting", "waiting",
            \* "ok" or "failed" (its exit status)
  child,    \* first child: "none", "running" or "exited"
  dmn,      \* the daemon: "none", the step it is at, or "exited"
  writers,  \* processes that have the write end of the launch's pipe open
  pipe,     \* what was written to the pipe
  term,     \* launches whose daemon has g_running = 0
  ready,    \* history: launches whose engine was initialized
  pidFile,  \* the file at /var/run/ocvsmd.pid
  opened,   \* the PID file a daemon has open
  locked,   \* who has the lock on each PID file
  content,  \* the pid in each PID file
  bound,    \* who has bound the IPC address
  script    \* `init.d/ocvsmd stop`: "idle", "signalled" or "stopped"

procVars == <<orig, child, dmn, writers, pipe, term, ready>>
fileVars == <<pidFile, opened, locked, content, bound>>
vars == <<procVars, fileVars, script>>

Somebody == Launches \cup {"nobody"}

(* The steps of the daemon, in their order; "check" and "poll" are those of*)
(* Engine::runWhile.                                                       *)
StepNames == {"stdio", "open", "lock", "truncate", "write", "config", "init", "notify",
              "check", "poll"}

Init ==
  /\ orig = [l \in Launches |-> "none"]
  /\ child = [l \in Launches |-> "none"]
  /\ dmn = [l \in Launches |-> "none"]
  /\ writers = [l \in Launches |-> {}]
  /\ pipe = [l \in Launches |-> <<>>]
  /\ term = {}
  /\ ready = {}
  /\ pidFile = "nobody"
  /\ opened = [l \in Launches |-> "nobody"]
  /\ locked = [l \in Launches |-> "nobody"]
  /\ content = [l \in Launches |-> "nobody"]
  /\ bound = "nobody"
  /\ script = "idle"

(* Every variable has its type. *)
TypeOK ==
  /\ orig \in [Launches -> {"none", "refused", "starting", "waiting", "ok", "failed"}]
  /\ child \in [Launches -> {"none", "running", "exited"}]
  /\ dmn \in [Launches -> StepNames \cup {"none", "exited"}]
  /\ writers \in [Launches -> SUBSET {"original", "child", "daemon"}]
  /\ pipe \in [Launches -> Seq({"error", "init_complete"})]
  /\ term \subseteq Launches
  /\ ready \subseteq Launches
  /\ pidFile \in Somebody
  /\ opened \in [Launches -> Somebody]
  /\ locked \in [Launches -> Somebody]
  /\ content \in [Launches -> Somebody]
  /\ bound \in Somebody
  /\ script \in {"idle", "signalled", "stopped"}

Alive(l) == dmn[l] \in StepNames

-----------------------------------------------------------------------------
(* `init.d/ocvsmd start`, or the binary run by hand. *)
Start(l) ==
  /\ orig[l] = "none"
  /\ \/ orig' = [orig EXCEPT ![l] = "starting"]
     \/ pidFile # "nobody" /\ orig' = [orig EXCEPT ![l] = "refused"]
  /\ UNCHANGED <<child, dmn, writers, pipe, term, ready, fileVars, script>>

(* The write ends left once the original process has forked. *)
MutOriginalKeepsIt == {"original", "child"}  \* mutant: close() in the parent missing
WritersAfterFork == {"child"}

(* Steps 1 to 5: the pipe is made and the original process forks. *)
OriginalForks(l) ==
  /\ orig[l] = "starting"
  /\ \/ /\ orig' = [orig EXCEPT ![l] = "waiting"]
        /\ child' = [child EXCEPT ![l] = "running"]
        /\ writers' = [writers EXCEPT ![l] = WritersAfterFork]
     \/ /\ "stepFail" \in Faults
        /\ orig' = [orig EXCEPT ![l] = "failed"]
        /\ UNCHANGED <<child, writers>>
  /\ UNCHANGED <<dmn, pipe, term, ready, fileVars, script>>

(* The exit status that follows from what was read from the pipe. *)
MutEofIsSuccess(msg) == IF msg \in {<<>>, <<"init_complete">>} THEN "ok" ELSE "failed"  \* mutant
ExitStatus(msg) == IF msg = <<"init_complete">> THEN "ok" ELSE "failed"

(* Step 15: one read(), which returns what there is, or nothing once every *)
(* write end is closed.                                                    *)
OriginalReads(l) ==
  /\ orig[l] = "waiting"
  /\ pipe[l] # <<>> \/ writers[l] = {}
  /\ orig' = [orig EXCEPT ![l] = ExitStatus(pipe[l])]
  /\ writers' = [writers EXCEPT ![l] = @ \ {"original"}]
  /\ UNCHANGED <<child, dmn, pipe, term, ready, fileVars, script>>

(* The handlers of step 3 are installed without SA_RESTART: a signal makes *)
(* the read() fail.                                                        *)
OriginalInterrupted(l) ==
  /\ "signal" \in Faults
  /\ orig[l] = "waiting"
  /\ orig' = [orig EXCEPT ![l] = "failed"]
  /\ writers' = [writers EXCEPT ![l] = @ \ {"original"}]
  /\ UNCHANGED <<child, dmn, pipe, term, ready, fileVars, script>>

-----------------------------------------------------------------------------
(* What a process writes to the pipe is lost, and the process killed by    *)
(* SIGPIPE, when the original process is gone.                             *)
Written(l, msg) == IF orig[l] = "waiting" THEN [pipe EXCEPT ![l] = Append(@, msg)] ELSE pipe

(* Steps 6 to 8: the child makes a session, forks and exits. *)
ChildForks(l) ==
  /\ child[l] = "running"
  /\ child' = [child EXCEPT ![l] = "exited"]
  /\ \/ /\ dmn' = [dmn EXCEPT ![l] = "stdio"]
        /\ writers' = [writers EXCEPT ![l] = (@ \ {"child"}) \cup {"daemon"}]
        /\ UNCHANGED pipe
     \/ /\ "stepFail" \in Faults
        /\ pipe' = Written(l, "error")
        /\ writers' = [writers EXCEPT ![l] = @ \ {"child"}]
        /\ UNCHANGED dmn
  /\ UNCHANGED <<orig, term, ready, fileVars, script>>

(* A signal nobody handles, before the second fork. *)
ChildCrash(l) ==
  /\ "crash" \in Faults
  /\ child[l] = "running"
  /\ child' = [child EXCEPT ![l] = "exited"]
  /\ writers' = [writers EXCEPT ![l] = @ \ {"child"}]
  /\ UNCHANGED <<orig, dmn, pipe, term, ready, fileVars, script>>

(* A process that ends gives back the lock, the address and the pipe. *)
Exit(l) ==
  /\ dmn' = [dmn EXCEPT ![l] = "exited"]
  /\ writers' = [writers EXCEPT ![l] = @ \ {"daemon"}]
  /\ locked' = [f \in Launches |-> IF locked[f] = l THEN "nobody" ELSE locked[f]]
  /\ bound' = IF bound = l THEN "nobody" ELSE bound
  /\ UNCHANGED <<orig, child, term, ready, pidFile, opened, content, script>>

GoTo(l, step) == dmn' = [dmn EXCEPT ![l] = step]

(* exitWithFailure, and the failures reported by loadConfig, setupLogging  *)
(* and main.                                                               *)
StepFails(l) ==
  /\ "stepFail" \in Faults
  /\ dmn[l] \in {"stdio", "open", "lock", "truncate", "write", "config", "init"}
  /\ pipe' = Written(l, "error")
  /\ Exit(l)

(* Steps 9 to 11. *)
RedirectStdio(l) ==
  /\ dmn[l] = "stdio"
  /\ GoTo(l, "open")
  /\ UNCHANGED <<orig, child, writers, pipe, term, ready, fileVars, script>>

(* Step 12, first open(O_CREAT) ... *)
OpenPidFile(l) ==
  /\ dmn[l] = "open"
  /\ pidFile' = IF pidFile = "nobody" THEN l ELSE pidFile
  /\ opened' = [opened EXCEPT ![l] = pidFile']
  /\ GoTo(l, "lock")
  /\ UNCHANGED <<orig, child, writers, pipe, term, ready, locked, content, bound, script>>

(* ... then lockf(F_TLOCK) ... *)
MutCanLock(f) == TRUE  \* mutant: the result of lockf() is not looked at
CanLock(f) == locked[f] = "nobody"

LockPidFile(l) ==
  /\ dmn[l] = "lock"
  /\ \/ /\ CanLock(opened[l])
        /\ locked' = [locked EXCEPT ![opened[l]] = l]
        /\ GoTo(l, "truncate")
        /\ UNCHANGED <<orig, child, writers, pipe, term, ready, pidFile, opened, content, bound,
                       script>>
     \/ /\ ~CanLock(opened[l])
        /\ pipe' = Written(l, "error")
        /\ Exit(l)

(* ... then ftruncate() and write(). *)
TruncatePidFile(l) ==
  /\ dmn[l] = "truncate"
  /\ content' = [content EXCEPT ![opened[l]] = "nobody"]
  /\ GoTo(l, "write")
  /\ UNCHANGED <<orig, child, writers, pipe, term, ready, pidFile, opened, locked, bound, script>>

WritePidFile(l) ==
  /\ dmn[l] = "write"
  /\ content' = [content EXCEPT ![opened[l]] = l]
  /\ GoTo(l, "config")
  /\ UNCHANGED <<orig, child, writers, pipe, term, ready, pidFile, opened, locked, bound, script>>

(* loadConfig and setupLogging. *)
LoadConfig(l) ==
  /\ dmn[l] = "config"
  /\ GoTo(l, "init")
  /\ UNCHANGED <<orig, child, writers, pipe, term, ready, fileVars, script>>

(* Engine::init, which ends in binding and listening. *)
InitEngine(l) ==
  /\ dmn[l] = "init"
  /\ \/ /\ bound = "nobody"
        /\ bound' = l
        /\ ready' = ready \cup {l}
        /\ GoTo(l, "notify")
        /\ UNCHANGED <<orig, child, writers, pipe, term, pidFile, opened, locked, content, script>>
     \/ /\ bound # "nobody"
        /\ pipe' = Written(l, "error")
        /\ Exit(l)

(* Step 14. *)
NotifyInitComplete(l) ==
  /\ dmn[l] = "notify"
  /\ \/ /\ orig[l] = "waiting"
        /\ pipe' = Written(l, "init_complete")
        /\ writers' = [writers EXCEPT ![l] = @ \ {"daemon"}]
        /\ GoTo(l, "check")
        /\ UNCHANGED <<orig, child, term, ready, fileVars, script>>
     \/ /\ orig[l] # "waiting"
        /\ Exit(l)
        /\ UNCHANGED pipe

(* Engine::runWhile. A signal between the look at g_running and the poll is*)
(* seen when the poll returns, after a second at most.                     *)
MutLoopPredicate(l) == TRUE  \* mutant: g_running is never looked at
LoopPredicate(l) == l \notin term

CheckLoop(l) ==
  /\ dmn[l] = "check"
  /\ \/ /\ LoopPredicate(l)
        /\ GoTo(l, "poll")
        /\ UNCHANGED <<orig, child, writers, pipe, term, ready, fileVars, script>>
     \/ /\ ~LoopPredicate(l)
        /\ Exit(l)
        /\ UNCHANGED pipe

PollReturns(l) ==
  /\ dmn[l] = "poll"
  /\ GoTo(l, "check")
  /\ UNCHANGED <<orig, child, writers, pipe, term, ready, fileVars, script>>

(* A signal or an exception nobody handles: the daemon ends without a word.*)
Crash(l) ==
  /\ "crash" \in Faults
  /\ Alive(l)
  /\ Exit(l)
  /\ UNCHANGED pipe

-----------------------------------------------------------------------------
(* SIGTERM or SIGINT to the daemon. *)
Signal(l) ==
  /\ "signal" \in Faults
  /\ Alive(l)
  /\ term' = term \cup {l}
  /\ UNCHANGED <<orig, child, dmn, writers, pipe, ready, fileVars, script>>

(* `init.d/ocvsmd stop` signals the process named in the PID file ... *)
StopSignals ==
  /\ "stop" \in Faults
  /\ script = "idle"
  /\ pidFile # "nobody"
  /\ script' = "signalled"
  /\ LET pid == content[pidFile] IN
       term' = IF pid # "nobody" /\ Alive(pid) THEN term \cup {pid} ELSE term
  /\ UNCHANGED <<orig, child, dmn, writers, pipe, ready, fileVars>>

(* ... and removes the file. *)
StopRemoves ==
  /\ script = "signalled"
  /\ script' = "stopped"
  /\ pidFile' = "nobody"
  /\ UNCHANGED <<procVars, opened, locked, content, bound>>

-----------------------------------------------------------------------------
DaemonStep(l) ==
  \/ RedirectStdio(l)
  \/ OpenPidFile(l)
  \/ LockPidFile(l)
  \/ TruncatePidFile(l)
  \/ WritePidFile(l)
  \/ LoadConfig(l)
  \/ InitEngine(l)
  \/ NotifyInitComplete(l)
  \/ CheckLoop(l)
  \/ PollReturns(l)

Next ==
  \/ \E l \in Launches : Start(l)
  \/ \E l \in Launches : OriginalForks(l)
  \/ \E l \in Launches : OriginalReads(l)
  \/ \E l \in Launches : OriginalInterrupted(l)
  \/ \E l \in Launches : ChildForks(l)
  \/ \E l \in Launches : ChildCrash(l)
  \/ \E l \in Launches : DaemonStep(l)
  \/ \E l \in Launches : StepFails(l)
  \/ \E l \in Launches : Crash(l)
  \/ \E l \in Launches : Signal(l)
  \/ StopSignals
  \/ StopRemoves

Spec == Init /\ [][Next]_vars

(* The operating system runs every process, and none of the steps blocks   *)
(* for ever.                                                               *)
Fairness ==
  \A l \in Launches :
    /\ WF_vars(OriginalForks(l))
    /\ WF_vars(OriginalReads(l))
    /\ WF_vars(ChildForks(l))
    /\ WF_vars(DaemonStep(l))

FairSpec == Spec /\ Fairness

-----------------------------------------------------------------------------
(* The original process reports success only for a daemon whose engine was *)
(* initialized, whichever process of the launch fails or crashes on the way*)
(* (main.cpp:236).                                                         *)
SuccessMeansReady == \A l \in Launches : orig[l] = "ok" => l \in ready

(* A daemon's PID file keeps the daemon's pid for as long as it lives: no  *)
(* other launch truncates it or writes to it, however the two overlap.     *)
PidFileIsKept ==
  \A l \in Launches :
    dmn[l] \in {"config", "init", "notify", "check", "poll"} => content[opened[l]] = l

(* The original process does not wait for ever, also when the processes it *)
(* waits for die without a word.                                           *)
LauncherReturns ==
  \A l \in Launches : orig[l] = "starting" ~> orig[l] \in {"ok", "failed"}

(* A daemon that was told to terminate does, whenever the signal comes.    *)
SignalledDaemonExits == \A l \in Launches : l \in term ~> dmn[l] = "exited"

=============================================================================
