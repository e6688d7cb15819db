------------------------------- MODULE Server -------------------------------
(***************************************************************************)
(* The persistent backend: serve.sh over scripts/server_state.py,          *)
(* scripts/server_guard.py and scripts/process_utils.sh.  Controllers are  *)
(* runs of serve.sh; they share one state file, the process table and the  *)
(* ports.  The control lock is the run lock of RunLock with no more than   *)
(* what ExclusiveUnlessOverlap proves of it there: it excludes the others  *)
(* as long as nobody takes or drops it while another run does; from then   *)
(* on it may let in anybody and refuse anybody.  One helper command of     *)
(* serve.sh, with all it reads and writes, is one step.                    *)
(*                                                                         *)
(* The launched process is first a copy of the shell ("fork"), then nohup  *)
(* and env ("wrapper", whose command line already names the server's       *)
(* binary), then llama-server, which binds its port at once and answers    *)
(* when the model is loaded.  Its identity is its start time and command   *)
(* line, so it changes when the wrapper executes the server.               *)
(***************************************************************************)
EXTENDS Naturals, FiniteSets

CONSTANTS Controllers,  \* runs of serve.sh
          Pids,         \* process ids the backend may get
          Ports,        \* SERVER_PORT values (a configuration)
          None,
          MayDie,       \* may a run be killed or interrupted?
          MayMisread,   \* may begin see the wrapper's command line?
          MayRecycle,   \* may an unrelated process get a free id?
          QuickRecycle, \* ... even while a run is about to signal that id?
          MaxRuns,      \* bound: runs of serve.sh in one behaviour
          MaxAliens     \* bound: births past MaxRuns, of unrelated processes

ASSUME ServerAssumption ==
  /\ IsFiniteSet(Controllers) /\ IsFiniteSet(Pids)
  /\ None \notin Controllers \cup Pids \cup Ports
  /\ {MayDie, MayMisread, MayRecycle, QuickRecycle} \subseteq BOOLEAN
  /\ MaxRuns \in Nat /\ MaxAliens \in Nat

Stages == {"free", "fork", "wrapper", "loading", "serving", "doomed", "alien"}

PcStates == {"idle", "lock", "look", "clear", "prepare", "port", "spawn", "begin",
             "wait", "failed", "kill", "ready",
             "owner", "stopping", "term", "unmark", "unlock"}

\* What status_report calls stopped: no file, status "stopped", or a file it
\* cannot read (lines 97-103, with load_state).
NoState == [status |-> "stopped", pid |-> None, birth |-> 0, image |-> "none", port |-> None]

Free == [stage |-> "free", birth |-> 0, port |-> None]

VARIABLES pc,      \* per controller: where it is in serve.sh
          op,      \* per controller: "start" or "stop"
          port,    \* per controller: the configured port
          child,   \* per controller: the pid it launched or means to stop
          seen,    \* per controller: the status it read
          lock,    \* the run that took the control lock last, until it drops it
          overlap, \* history: two runs were taking or dropping the lock at once
          state,   \* the server state file
          proc,    \* per pid: stage, birth (start time) and port
          births,  \* processes born so far
          runs,    \* runs of serve.sh so far
          died,    \* history: a run was killed or interrupted
          misread, \* history: begin recorded the wrapper's identity
          misfired \* history: a process that is no backend was signalled

locals == <<pc, op, port, child, seen>>
control == <<lock, overlap>>
history == <<runs, died, misread, misfired>>
vars == <<locals, control, state, proc, births, history>>

-----------------------------------------------------------------------------
Live == {p \in Pids : proc[p].stage \in {"fork", "wrapper", "loading", "serving"}}

Bound(at) == \E p \in Pids : proc[p].stage \in {"loading", "serving", "doomed"} /\ proc[p].port = at

Healthy(at) == \E p \in Pids : proc[p].stage = "serving" /\ proc[p].port = at

\* The command line of a process, as proc_identity hashes it (38-52).
Image(p) == CASE proc[p].stage = "free" -> "none"
              [] proc[p].stage \in {"loading", "serving", "doomed"} -> "server"
              [] OTHER -> proc[p].stage

\* Faulty variant: any live process with the recorded id is ours.
OwnedById == state.pid # None /\ proc[state.pid].stage # "free"

\* state_owned (66-73)
Owned == /\ state.pid # None
         /\ proc[state.pid].stage # "free"
         /\ proc[state.pid].birth = state.birth
         /\ Image(state.pid) = state.image

\* status_report (95-119)
Status == CASE state.pid = None -> "stopped"
            [] state.pid # None /\ ~Owned -> "stale"
            [] Owned /\ state.status # "ready" -> state.status
            [] Owned /\ state.status = "ready" ->
                 IF Healthy(state.port) THEN "ready" ELSE "degraded"

Goto(c, there) == pc' = [pc EXCEPT ![c] = there]

\* What a run knew dies with it.
Forget(c) ==
  /\ op' = [op EXCEPT ![c] = "start"]
  /\ port' = [port EXCEPT ![c] = None]
  /\ child' = [child EXCEPT ![c] = None]
  /\ seen' = [seen EXCEPT ![c] = "stopped"]

\* A run that is taking or dropping the lock.
Locking(c) == pc[c] \in {"lock", "unlock"}

\* A run begins to take or to drop the lock.
Meet(c) == overlap' = (overlap \/ \E d \in Controllers \ {c} : Locking(d))

\* Nobody holds the lock, or a run that is no more.
LockFree(c) == \A d \in Controllers \ {c} : lock = d => pc[d] \in {"idle", "lock"}

\* The run ends: its EXIT trap has the lock to release (54).
Exit(c) ==
  /\ Goto(c, "unlock")
  /\ Meet(c)
  /\ Forget(c)
  /\ UNCHANGED lock

Proceed(c, there) == Goto(c, there) /\ UNCHANGED <<control, op, port, child, seen>>

Become(p, stage) == proc' = [proc EXCEPT ![p] = IF stage = "free" THEN Free ELSE [@ EXCEPT !.stage = stage]]

Signal(p) == misfired' = (misfired \/ proc[p].stage = "alien")

\* terminate_process of a process that is not the caller's child (4-18): it
\* is gone, or it has been sent KILL and nobody waits for it.
Terminate(p) ==
  /\ Signal(p)
  /\ \/ Become(p, "free")
     \/ proc[p].stage # "free" /\ Become(p, "doomed")

\* Of the caller's own child: the final wait returns when it is gone.
TerminateChild(p) == Signal(p) /\ Become(p, "free")

-----------------------------------------------------------------------------
Invoke(c) ==
  /\ pc[c] = "idle"
  /\ runs < MaxRuns
  /\ runs' = runs + 1
  /\ \/ \E at \in Ports : port' = [port EXCEPT ![c] = at] /\ UNCHANGED op
     \/ op' = [op EXCEPT ![c] = "stop"] /\ UNCHANGED port
  /\ Goto(c, "lock")
  /\ Meet(c)
  /\ UNCHANGED <<child, seen, lock, state, proc, births, died, misread, misfired>>

\* Faulty variant: the lock is not looked at.
LockAnyway(c) ==
  /\ pc[c] = "lock"
  /\ lock' = c
  /\ Goto(c, "look")
  /\ UNCHANGED <<child, seen, op, port, overlap, state, proc, births, history>>

\* acquire_control_lock (40-46): a lock with a live owner is respected and one
\* with a dead owner taken over, unless its id is in use again.  A run that is
\* refused has no lock to release.
AcquireLock(c) ==
  /\ pc[c] = "lock"
  /\ \/ /\ LockFree(c) \/ overlap
        /\ lock' = c
        /\ Goto(c, "look")
        /\ UNCHANGED <<op, port, child, seen>>
     \/ /\ lock # None \/ overlap
        /\ Goto(c, "idle")
        /\ Forget(c)
        /\ UNCHANGED lock
  /\ UNCHANGED <<overlap, state, proc, births, history>>

\* release_control_lock (48-54)
Release(c) ==
  /\ pc[c] = "unlock"
  /\ lock' = IF lock = c THEN None ELSE lock
  /\ Goto(c, "idle")
  /\ UNCHANGED <<op, port, child, seen, overlap, state, proc, births, history>>

\* 132-158 and 336-342.  An owned server is never joined by another: a ready
\* one is accepted or refused, the others refused.
Look(c) ==
  /\ pc[c] = "look"
  /\ \/ /\ op[c] = "start" /\ Status \in {"ready", "starting", "degraded", "stopping"}
        /\ Exit(c)
     \/ /\ op[c] = "start" /\ Status = "stale"
        /\ Proceed(c, "clear")
     \/ /\ op[c] = "start" /\ Status = "stopped"
        /\ Proceed(c, "prepare")
     \/ /\ op[c] = "stop" /\ Status = "stopped"
        /\ Exit(c)
     \/ /\ op[c] = "stop" /\ Status # "stopped"
        /\ seen' = [seen EXCEPT ![c] = Status]
        /\ Goto(c, "owner")
        /\ UNCHANGED <<control, op, port, child>>
  /\ UNCHANGED <<state, proc, births, history>>

\* clear-stale (230-240), which refuses to drop an owned record.
ClearStale(c) ==
  /\ pc[c] = "clear"
  /\ \/ /\ Owned
        /\ Exit(c)
        /\ UNCHANGED state
     \/ /\ ~Owned
        /\ state' = NoState
        /\ IF op[c] = "start" THEN Proceed(c, "prepare") ELSE Exit(c)
  /\ UNCHANGED <<proc, births, history>>

\* 160-270: contract, source, runtime, models and GPUs; any may fail.
Prepare(c) ==
  /\ pc[c] = "prepare"
  /\ Proceed(c, "port") \/ Exit(c)
  /\ UNCHANGED <<state, proc, births, history>>

\* port-free (272)
CheckPort(c) ==
  /\ pc[c] = "port"
  /\ IF Bound(port[c]) THEN Exit(c) ELSE Proceed(c, "spawn")
  /\ UNCHANGED <<state, proc, births, history>>

\* 306-307; the shell gives up when it cannot fork.
Spawn(c) ==
  /\ pc[c] = "spawn"
  /\ \/ \E p \in Pids :
          /\ proc[p].stage = "free"
          /\ proc' = [proc EXCEPT ![p] = [stage |-> "fork", birth |-> births + 1, port |-> port[c]]]
          /\ child' = [child EXCEPT ![c] = p]
          /\ births' = births + 1
          /\ Goto(c, "begin")
          /\ UNCHANGED <<control, op, port, seen>>
     \/ /\ \A p \in Pids : proc[p].stage # "free"
        /\ Exit(c)
        /\ UNCHANGED <<proc, births>>
  /\ UNCHANGED <<state, history>>

\* begin (308-313, server_state 142-176): the first command line that names
\* the binary becomes the identity; without one the child is terminated.
Begin(c) ==
  LET p == child[c] IN
  /\ pc[c] = "begin"
  /\ \/ /\ Image(p) = "server" \/ (Image(p) = "wrapper" /\ MayMisread)
        /\ state' = [status |-> "starting", pid |-> p, birth |-> proc[p].birth,
                     image |-> Image(p), port |-> port[c]]
        /\ misread' = (misread \/ Image(p) = "wrapper")
        /\ Proceed(c, "wait")
        /\ UNCHANGED <<proc, misfired>>
     \/ /\ Image(p) \in {"none", "fork", "alien"}
        /\ TerminateChild(p)
        /\ Exit(c)
        /\ UNCHANGED <<state, misread>>
  /\ UNCHANGED <<births, runs, died>>

\* Faulty variant: no readiness timeout.
WaitForever(c) ==
  LET p == child[c] IN
  /\ pc[c] = "wait"
  /\ \/ proc[p].stage # "free" /\ Healthy(port[c]) /\ Proceed(c, "ready")
     \/ proc[p].stage = "free" /\ Proceed(c, "failed")
  /\ UNCHANGED <<state, proc, births, history>>

\* wait-ready (315, server_guard 49-70): anything healthy on the port will
\* do.  The launch is assumed to reach llama-server before the timeout.
Wait(c) ==
  LET p == child[c] IN
  /\ pc[c] = "wait"
  /\ \/ proc[p].stage # "free" /\ Healthy(port[c]) /\ Proceed(c, "ready")
     \/ proc[p].stage \notin {"fork", "wrapper"} /\ Proceed(c, "failed")
  /\ UNCHANGED <<state, proc, births, history>>

\* 322: the child is terminated only if the state still proves it ours.
Failed(c) ==
  /\ pc[c] = "failed"
  /\ Proceed(c, IF Owned THEN "kill" ELSE "unmark")
  /\ UNCHANGED <<state, proc, births, history>>

\* Faulty variant: a server that failed to get ready is left running.
LeaveChild(c) ==
  /\ pc[c] = "kill"
  /\ Proceed(c, "unmark")
  /\ UNCHANGED <<state, proc, births, history>>

\* 323
KillChild(c) ==
  /\ pc[c] = "kill"
  /\ TerminateChild(child[c])
  /\ Proceed(c, "unmark")
  /\ UNCHANGED <<state, births, runs, died, misread>>

\* mark-ready (328), refused unless the record is owned
MarkReady(c) ==
  /\ pc[c] = "ready"
  /\ state' = IF Owned THEN [state EXCEPT !.status = "ready"] ELSE state
  /\ Exit(c)
  /\ UNCHANGED <<proc, births, history>>

\* Faulty variant: the pid that was proved ours is not kept.
OwnedPidForgotten(c) ==
  /\ pc[c] = "owner"
  /\ IF Owned THEN Proceed(c, "stopping") ELSE Exit(c)
  /\ UNCHANGED <<state, proc, births, history>>

\* owned-pid (343-352)
OwnedPid(c) ==
  /\ pc[c] = "owner"
  /\ \/ /\ Owned
        /\ child' = [child EXCEPT ![c] = state.pid]
        /\ Goto(c, "stopping")
        /\ UNCHANGED <<control, op, port, seen>>
     \/ ~Owned /\ seen[c] = "stale" /\ Proceed(c, "clear")
     \/ ~Owned /\ seen[c] # "stale" /\ Exit(c)
  /\ UNCHANGED <<state, proc, births, history>>

\* mark-stopping (353)
MarkStopping(c) ==
  /\ pc[c] = "stopping"
  /\ \/ /\ Owned
        /\ state' = [state EXCEPT !.status = "stopping"]
        /\ Proceed(c, "term")
     \/ /\ ~Owned
        /\ Exit(c)
        /\ UNCHANGED state
  /\ UNCHANGED <<proc, births, history>>

\* Faulty variant: the run ends without marking the state.
TermAndExit(c) ==
  /\ pc[c] = "term"
  /\ Terminate(child[c])
  /\ Exit(c)
  /\ UNCHANGED <<state, births, runs, died, misread>>

\* 355
Term(c) ==
  /\ pc[c] = "term"
  /\ Terminate(child[c])
  /\ Proceed(c, "unmark")
  /\ UNCHANGED <<state, births, runs, died, misread>>

\* mark-stopped (325, 356), whatever the file says
MarkStopped(c) ==
  /\ pc[c] = "unmark"
  /\ state' = NoState
  /\ Exit(c)
  /\ UNCHANGED <<proc, births, history>>

-----------------------------------------------------------------------------
(* The processes and the environment. *)

Launch(p) ==
  /\ \/ proc[p].stage = "fork" /\ Become(p, "wrapper")
     \/ /\ proc[p].stage = "wrapper"
        /\ Become(p, IF Bound(proc[p].port) THEN "free" ELSE "loading")
     \/ proc[p].stage = "loading" /\ Become(p, "serving")
     \/ proc[p].stage = "doomed" /\ Become(p, "free")
  /\ UNCHANGED <<locals, control, state, births, history>>

\* The server exits, or stops answering.
Fail(p) ==
  /\ \/ p \in Live /\ Become(p, "free")
     \/ proc[p].stage = "serving" /\ Become(p, "loading")
  /\ UNCHANGED <<locals, control, state, births, history>>

\* An unrelated process comes and goes.
Alien(p) ==
  /\ MayRecycle
  /\ QuickRecycle \/ \A c \in Controllers : child[c] # p
  /\ \/ /\ proc[p].stage = "free" /\ births < MaxRuns + MaxAliens
        /\ proc' = [proc EXCEPT ![p] = [stage |-> "alien", birth |-> births + 1, port |-> None]]
        /\ births' = births + 1
     \/ /\ proc[p].stage = "alien"
        /\ Become(p, "free")
        /\ UNCHANGED births
  /\ UNCHANGED <<locals, control, state, history>>

\* SIGKILL leaves the lock, and so does any signal before the run knows that it
\* has it or while it removes it; other signals run the EXIT trap.
Die(c) ==
  /\ MayDie
  /\ pc[c] # "idle"
  /\ died' = TRUE
  /\ \/ ~Locking(c) /\ Exit(c)
     \/ /\ Goto(c, "idle")
        /\ Forget(c)
        /\ \/ UNCHANGED lock
           \/ pc[c] = "lock" /\ (LockFree(c) \/ overlap) /\ lock' = c
           \/ pc[c] = "unlock" /\ lock = c /\ lock' = None
        /\ UNCHANGED overlap
  /\ UNCHANGED <<state, proc, births, runs, misread, misfired>>

Init ==
  /\ pc = [c \in Controllers |-> "idle"]
  /\ op = [c \in Controllers |-> "start"]
  /\ port = [c \in Controllers |-> None]
  /\ child = [c \in Controllers |-> None]
  /\ seen = [c \in Controllers |-> "stopped"]
  /\ lock = None
  /\ overlap = FALSE
  /\ state = NoState
  /\ proc = [p \in Pids |-> Free]
  /\ births = 0
  /\ runs = 0
  /\ died = FALSE
  /\ misread = FALSE
  /\ misfired = FALSE

Step(c) ==
  \/ AcquireLock(c) \/ Look(c) \/ ClearStale(c) \/ Prepare(c) \/ CheckPort(c)
  \/ Spawn(c) \/ Begin(c) \/ Wait(c) \/ Failed(c) \/ KillChild(c) \/ MarkReady(c)
  \/ OwnedPid(c) \/ MarkStopping(c) \/ Term(c) \/ MarkStopped(c) \/ Release(c)

Next ==
  \/ \E c \in Controllers : Invoke(c) \/ Step(c) \/ Die(c)
  \/ \E p \in Pids : Launch(p) \/ Fail(p) \/ Alien(p)

Spec == Init /\ [][Next]_vars

\* A run goes on until it exits (its waits have timeouts), a launched program
\* gets to its next stage unless it fails, and a killed one goes.
Fairness ==
  /\ \A c \in Controllers : WF_vars(Step(c))
  /\ \A p \in Pids : WF_vars(Launch(p))

FairSpec == Spec /\ Fairness

-----------------------------------------------------------------------------
\* Types; a run that is to watch or to signal a process knows which.
TypeOK ==
  /\ pc \in [Controllers -> PcStates]
  /\ op \in [Controllers -> {"start", "stop"}]
  /\ port \in [Controllers -> Ports \cup {None}]
  /\ child \in [Controllers -> Pids \cup {None}]
  /\ seen \in [Controllers -> {"stopped", "stale", "starting", "ready", "degraded", "stopping"}]
  /\ lock \in Controllers \cup {None}
  /\ state \in [status : {"stopped", "starting", "ready", "stopping"}, pid : Pids \cup {None},
                birth : Nat, image : {"none", "wrapper", "server"}, port : Ports \cup {None}]
  /\ proc \in [Pids -> [stage : Stages, birth : Nat, port : Ports \cup {None}]]
  /\ births \in Nat /\ runs \in Nat
  /\ {overlap, died, misread, misfired} \subseteq BOOLEAN
  /\ \A c \in Controllers :
       pc[c] \in {"begin", "wait", "failed", "kill", "ready", "stopping", "term"} => child[c] # None

(***************************************************************************)
(* Every backend that runs is the one of the state file or is about to be  *)
(* recorded by the run that launched it, so that stop can find it          *)
(* (serve.sh:306-328, 343-356).  There are three exceptions: a run was     *)
(* killed half way, begin has recorded the wrapper, or two runs were at    *)
(* the lock at once, so that both may be inside (RunLock, run_lock_race).  *)
(***************************************************************************)
NoOrphan ==
  ~died /\ ~misread /\ ~overlap =>
    \A p \in Live :
      \/ state.pid = p /\ state.birth = proc[p].birth
      \/ \E c \in Controllers : child[c] = p /\ pc[c] = "begin"

(***************************************************************************)
(* "... instead of spawning a duplicate" (serve.sh:153): two backends      *)
(* never run at once, under the same three exceptions.                     *)
(***************************************************************************)
OneBackend == ~died /\ ~misread /\ ~overlap => Cardinality(Live) <= 1

(***************************************************************************)
(* "PID-reuse-safe ownership checks" (server_state.py:2): no process but a *)
(* backend is ever signalled, whoever died and whoever got its id, if ids  *)
(* are not given away in the seconds of the signalling itself.             *)
(***************************************************************************)
SignalsOnlyBackends == misfired => QuickRecycle

\* A stop that has begun ends with the record cleared (353-356).
StopCompletes == state.status = "stopping" ~> state.status # "stopping" \/ died

\* Every run of serve.sh ends: it waits for nobody without a bound.
RunsReturn == \A c \in Controllers : pc[c] # "idle" ~> pc[c] = "idle"
=============================================================================
