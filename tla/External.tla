------------------------------ MODULE External ------------------------------
(***************************************************************************)
(* The orchestrator: runs of external.sh start, stop and stop-all, which   *)
(* call serve.sh and expose.sh and roll back what a failed start has done, *)
(* beside runs of serve.sh by hand, the clean-up of the Kaggle notebook, a *)
(* backend and an ingress that die or hang, and a reader of                *)
(* operator_status.py.  Nothing excludes two runs of external.sh from each *)
(* other; runs of serve.sh share its lock, which excludes them unless two  *)
(* take or drop it at the same time (RunLock).                             *)
(*                                                                         *)
(* One command that external.sh calls is one step, but a start of the      *)
(* backend and a start of the ingress have one for every process that they *)
(* launch and one that records it, so that a run may be killed in between. *)
(* What may happen between two commands is the subject here; Server and    *)
(* Exposure have serve.sh and expose.sh in full, with the time between the *)
(* look at a port and its binding.  A server that answers is the recorded  *)
(* one.  A tunnel is the mode "quick"; "named" behaves alike at this level.*)
(***************************************************************************)
EXTENDS Naturals, FiniteSets

CONSTANTS Runs,      \* runs of external.sh and serve.sh
          None,
          Profiles,  \* SERVE_PROFILE: "dflash2" and "baseline", or one of them
          MayAbandon, \* may a run be killed?
          MaxRuns,   \* bound: runs and readings of the status in one behaviour
          MaxFaults  \* bound: deaths and hangs in one behaviour

ASSUME ExternalAssumption ==
  /\ IsFiniteSet(Runs) /\ None \notin Runs
  /\ Profiles \subseteq {"dflash2", "baseline"}
  /\ MayAbandon \in BOOLEAN
  /\ MaxRuns \in Nat /\ MaxFaults \in Nat

VARIABLES pc,       \* per run: the next command
          job,      \* per run: command, EXPOSURE_MODE, SERVE_PROFILE, and the
                    \* flags backend_started_here and exposure_was_stopped
          backend,  \* server.json and the life of the process it names
          ingress,  \* exposure.json and which of its processes live
          stray,    \* processes that no state file names, each with the run that
                    \* is about to record it, or None
          reader,   \* operator_status.py: what it has read
          history,  \* counters, and per run what only the properties look at
          watch     \* history of a reading

vars == <<pc, job, backend, ingress, stray, reader, history, watch>>

Modes == {"proxy", "quick"}

NoBackend == [status |-> "stopped", life |-> "down", profile |-> "dflash2"]

Closed == [status |-> "stopped", mode |-> "proxy", proxy |-> FALSE, tunnel |-> FALSE]

Kinds == {"server", "proxy", "tunnel"}

Commands == {"start", "stop", "stop-all", "muse-stop", "serve-start", "serve-stop"}

NoJob == [cmd |-> "none", mode |-> "proxy", profile |-> "dflash2", ok |-> TRUE,
          startedHere |-> FALSE, wasStopped |-> FALSE]

-----------------------------------------------------------------------------
(* What the status commands say. *)

\* server_state.py status_report
BackendStatus ==
  CASE backend.status = "stopped" -> "stopped"
    [] backend.status # "stopped" /\ backend.life = "down" -> "stale"
    [] backend.status = "ready" /\ backend.life \in {"loading", "hung"} -> "degraded"
    [] OTHER -> backend.status

\* backend_ready_ok and backend_starting_ok: a baseline server is not canonical.
CanonicalReady == BackendStatus = "ready" /\ backend.profile = "dflash2"

CanonicalStarting == BackendStatus = "starting" /\ backend.profile = "dflash2"

\* exposure_state.py status_report; "ready" stands for proxy-ready as well.
IngressStatus ==
  CASE ingress.status = "stopped" -> "stopped"
    [] ingress.status # "stopped" /\ ingress.proxy /\ (ingress.tunnel <=> ingress.mode # "proxy") ->
         ingress.status
    [] OTHER -> "stale"

IngressReady == IngressStatus = "ready"

-----------------------------------------------------------------------------
(* Bookkeeping. *)

Busy(c) == pc[c] # "idle"

Goto(c, there) == pc' = [pc EXCEPT ![c] = there]

\* A command that changes nothing but where the run stands.
Proceed(c, there) == Goto(c, there) /\ UNCHANGED job

\* A command returns; the clean-up of the notebook goes on whatever its stop-all says.
Ends(c, ok) ==
  /\ Goto(c, IF job[c].cmd = "muse-stop" THEN "sweep" ELSE "done")
  /\ job' = [job EXCEPT ![c].ok = ok]

StopsAll == {"stop-all", "muse-stop"}

Frame == UNCHANGED <<reader, history>>

Forgotten(c) ==
  [history EXCEPT !.overlapped = @ \ {c}, !.faulted = @ \ {c},
     !.launched = {l \in @ : l[1] # c}]

\* if backend_started_here, serve.sh stop; then the error is returned.
RollBack(c) ==
  /\ Goto(c, IF job[c].startedHere THEN "unserve" ELSE "done")
  /\ job' = [job EXCEPT ![c].ok = FALSE]

\* No other run has worked at the same time; the properties are about such runs,
\* and of others nothing more is remembered.
Alone(c) == c \notin history.overlapped

\* The launches of this run, for the properties.
Launches(c, what) ==
  history' = [history EXCEPT !.launched = IF Alone(c) THEN @ \cup {<<c, what>>} ELSE @]

\* A run starts; it overlaps every run that is at work.
Invoke(c) ==
  /\ ~Busy(c) /\ history.runs < MaxRuns
  /\ \E cmd \in Commands,
        m \in Modes, p \in Profiles :
       /\ cmd # "start" => m = "proxy"
       /\ cmd \notin {"start", "serve-start"} => p = CHOOSE q \in Profiles : TRUE
       /\ job' = [job EXCEPT ![c] = [NoJob EXCEPT !.cmd = cmd, !.mode = m, !.profile = p]]
       /\ Goto(c, CASE cmd = "start" -> "gate"
                    [] cmd \in {"stop"} \cup StopsAll -> "close"
                    [] cmd = "serve-start" -> "serve"
                    [] OTHER -> "unserve")
  /\ LET others == {d \in Runs \ {c} : Busy(d)}
     IN history' = [history EXCEPT !.runs = @ + 1,
                      !.overlapped = IF others = {} THEN @ ELSE @ \cup others \cup {c},
                      !.faulted = @ \ others,
                      !.launched = {l \in @ : l[1] \notin others}]
  /\ UNCHANGED <<backend, ingress, stray, reader>>

Leave(c) ==
  /\ pc[c] = "done"
  /\ Goto(c, "idle")
  /\ job' = [job EXCEPT ![c] = NoJob]
  /\ history' = Forgotten(c)
  /\ UNCHANGED <<backend, ingress, stray, reader>>

-----------------------------------------------------------------------------
(* external.sh start: the backend. *)

\* validate_preflight and run_readiness_gate, which only look
Gate(c) ==
  /\ pc[c] = "gate"
  /\ Proceed(c, "look") \/ Ends(c, FALSE)
  /\ UNCHANGED <<backend, ingress, stray>> /\ Frame

\* Faulty variant: a backend that is reused counts as started here.
LookClaims(c) ==
  /\ pc[c] = "look"
  /\ \/ /\ CanonicalReady /\ Goto(c, "ingress")
        /\ job' = [job EXCEPT ![c].startedHere = TRUE]
     \/ CanonicalStarting /\ Proceed(c, "wait")
     \/ BackendStatus = "stopped" /\ Proceed(c, "serve")
     \/ ~CanonicalReady /\ ~CanonicalStarting /\ BackendStatus # "stopped" /\ Ends(c, FALSE)
  /\ UNCHANGED <<backend, ingress, stray>> /\ Frame

\* 465-491: reuse, wait, start, or refuse.
Look(c) ==
  /\ pc[c] = "look"
  /\ \/ CanonicalReady /\ Proceed(c, "ingress")
     \/ CanonicalStarting /\ Proceed(c, "wait")
     \/ BackendStatus = "stopped" /\ Proceed(c, "serve")
     \/ ~CanonicalReady /\ ~CanonicalStarting /\ BackendStatus # "stopped" /\ Ends(c, FALSE)
  /\ UNCHANGED <<backend, ingress, stray>> /\ Frame

\* Faulty variant: no deadline.
WaitForever(c) ==
  /\ pc[c] = "wait"
  /\ \/ CanonicalReady /\ Proceed(c, "ingress")
     \/ ~CanonicalReady /\ ~CanonicalStarting /\ Ends(c, FALSE)
  /\ UNCHANGED <<backend, ingress, stray>> /\ Frame

\* wait_backend_ready: ready, no longer canonical (31), or too late (36)
WaitReady(c) ==
  /\ pc[c] = "wait"
  /\ \/ CanonicalReady /\ Proceed(c, "ingress")
     \/ ~CanonicalReady /\ Ends(c, FALSE)
  /\ UNCHANGED <<backend, ingress, stray>> /\ Frame

\* What follows serve.sh start
Served(c, ok) ==
  IF job[c].cmd = "start" /\ ok
  THEN /\ Goto(c, "recheck")
       /\ job' = [job EXCEPT ![c].startedHere = TRUE]
  ELSE Ends(c, ok)

\* A run of serve.sh takes or drops its lock; from then on two may be inside of
\* it if another one does the same at this time (run_lock.sh:6-17).
Meets(c) == \E d \in Runs \ {c} : pc[d] \in {"serve", "unserve"}

AtTheLock(c) == history' = [history EXCEPT !.raced = @ \/ Meets(c)]

Inside(c) == pc[c] \in {"prepare", "begin", "loading", "unserving"}

\* Another run may have been inside of the lock with this one; then the record
\* may be of its server.
Raced(c) == history.raced /\ ~Alone(c)

\* acquire_run_lock: a live owner is respected, a dead one replaced.
MayEnter(c) == Raced(c) \/ \A d \in Runs \ {c} : ~Inside(d)

MayBeRefused(c) == Raced(c) \/ Meets(c) \/ \E d \in Runs \ {c} : Inside(d)

\* A live server of whose record another takes the place
Lost == IF backend.life = "down" THEN {} ELSE {<<None, "server">>}

Own(c) == {s \in stray : s[1] = c}

\* Faulty variant: the lock is not asked for.
ServeUnlocked(c) ==
  /\ pc[c] = "serve"
  /\ \/ /\ BackendStatus \in {"stopped", "stale"}
        /\ backend' = NoBackend
        /\ Proceed(c, "prepare")
     \/ /\ BackendStatus \notin {"stopped", "stale"}
        /\ Served(c, BackendStatus = "ready" /\ backend.profile = job[c].profile)
        /\ UNCHANGED backend
  /\ UNCHANGED <<ingress, stray>> /\ Frame

\* serve.sh start up to its preparation: another run is inside, what it finds is
\* already right or refused (12), or a stale record is cleared.
Serve(c) ==
  /\ pc[c] = "serve"
  /\ \/ /\ MayEnter(c) /\ BackendStatus \in {"stopped", "stale"}
        /\ backend' = NoBackend
        /\ Proceed(c, "prepare")
     \/ /\ MayEnter(c) /\ BackendStatus \notin {"stopped", "stale"}
        /\ Served(c, BackendStatus = "ready" /\ backend.profile = job[c].profile)
        /\ UNCHANGED backend
     \/ MayBeRefused(c) /\ Served(c, FALSE) /\ UNCHANGED backend
  /\ AtTheLock(c)
  /\ UNCHANGED <<ingress, stray, reader>>

\* The preparation fails, or the server is launched on a free port; one that
\* still loads may not listen yet.
Prepare(c) ==
  /\ pc[c] = "prepare"
  /\ \/ Served(c, FALSE) /\ AtTheLock(c) /\ UNCHANGED stray
     \/ /\ backend.life \notin {"up", "hung"}
        /\ stray' = stray \cup {<<c, "server">>}
        /\ Launches(c, "backend")
        /\ Proceed(c, "begin")
  /\ UNCHANGED <<backend, ingress, reader>>

\* 307-313: the server is recorded, or cannot be identified and is terminated.
Begin(c) ==
  /\ pc[c] = "begin"
  /\ \/ /\ <<c, "server">> \in stray
        /\ backend' = [status |-> "starting", life |-> "loading", profile |-> job[c].profile]
        /\ stray' = (stray \ Own(c)) \cup Lost
        /\ Proceed(c, "loading")
        /\ UNCHANGED history
     \/ /\ Served(c, FALSE)
        /\ stray' = stray \ Own(c)
        /\ AtTheLock(c)
        /\ UNCHANGED backend
  /\ UNCHANGED <<ingress, reader>>

\* wait-ready (315-328): marked ready; terminated and marked stopped; or gone
\* before it is marked, which is refused.
Loaded(c) ==
  /\ pc[c] = "loading"
  /\ \/ /\ backend.life = "up" \/ (Raced(c) /\ backend.life # "down")
        /\ backend' = [backend EXCEPT !.status = "ready"]
        /\ Served(c, TRUE)
        /\ UNCHANGED stray
     \/ /\ backend' = NoBackend
        /\ Served(c, FALSE)
        /\ \/ UNCHANGED stray
           \/ Raced(c) /\ stray' \in {stray \cup Lost, (stray \ {<<None, "server">>}) \cup Lost}
     \/ backend.life = "down" /\ Served(c, FALSE) /\ UNCHANGED <<backend, stray>>
  /\ AtTheLock(c)
  /\ UNCHANGED <<ingress, reader>>

\* 480-485
Recheck(c) ==
  /\ pc[c] = "recheck"
  /\ IF CanonicalReady THEN Proceed(c, "ingress") ELSE RollBack(c)
  /\ UNCHANGED <<backend, ingress, stray>> /\ Frame

-----------------------------------------------------------------------------
(* external.sh start: the ingress. *)

\* endpoint_exposure (expose.sh 432-447)
HasEndpoint == IngressReady /\ ingress.mode # "proxy"

\* 494-516: a ready ingress is reused if it has the mode that is asked for;
\* otherwise only what this run has done to the backend is undone.
Find(c) ==
  /\ pc[c] = "ingress"
  /\ IF IngressReady
     THEN IF ingress.mode # job[c].mode THEN RollBack(c)
          ELSE IF job[c].mode = "proxy" THEN Ends(c, TRUE) ELSE Proceed(c, "reuse")
     ELSE /\ job' = [job EXCEPT ![c].wasStopped = IngressStatus = "stopped"]
          /\ Goto(c, "expose")
  /\ UNCHANGED <<backend, ingress, stray>> /\ Frame

\* 502-510: the endpoint of what is reused
Reuse(c) ==
  /\ pc[c] = "reuse"
  /\ IF HasEndpoint THEN Ends(c, TRUE) ELSE RollBack(c)
  /\ UNCHANGED <<backend, ingress, stray>> /\ Frame

\* expose.sh start: its configuration, then backend_gate, which takes a
\* baseline server too and closes the ingress when it fails.
ExposeGate(c) ==
  /\ pc[c] = "expose"
  /\ \/ Proceed(c, "undo") /\ UNCHANGED ingress
     \/ BackendStatus = "ready" /\ Proceed(c, "launch") /\ UNCHANGED ingress
     \/ BackendStatus # "ready" /\ Proceed(c, "undo") /\ ingress' = Closed
  /\ UNCHANGED <<backend, stray>> /\ Frame

\* expose.sh start: another mode is refused, the same one confirmed; what is
\* not right is stopped, and the gateway launched if its port is free.
ExposeLaunch(c) ==
  LET m == job[c].mode
  IN /\ pc[c] = "launch"
     /\ \/ /\ IngressReady
           /\ Proceed(c, IF ingress.mode = m THEN "confirm" ELSE "undo")
           /\ UNCHANGED <<ingress, stray, history>>
        \/ /\ IngressReady => ingress.mode = m
           /\ ingress' = Closed
           /\ \/ Proceed(c, "undo") /\ UNCHANGED <<stray, history>>
              \/ /\ \A s \in stray : s[2] # "proxy"
                 /\ stray' = stray \cup {<<c, "proxy">>}
                 /\ Launches(c, "ingress")
                 /\ Proceed(c, "gateway")
     /\ UNCHANGED <<backend, reader>>

\* begin of exposure_state.py: what the run has launched is on record.
Records(c) ==
  /\ ingress' = [status |-> "starting", mode |-> job[c].mode, proxy |-> TRUE,
                 tunnel |-> job[c].mode # "proxy"]
  /\ stray' = stray \ Own(c)
  /\ Proceed(c, "mark")

\* Faulty variant: only what is on record is stopped.
CleansUpRecorded(c) ==
  /\ ingress' = Closed
  /\ UNCHANGED stray
  /\ Proceed(c, "undo")

\* cleanup_partial: what is on record is stopped, and what this run has launched.
CleansUp(c) ==
  /\ ingress' = Closed
  /\ stray' = stray \ Own(c)
  /\ Proceed(c, "undo")

\* wait_local_proxy, through to the backend; then the gateway is recorded or the
\* tunnel launched.
Gateway(c) ==
  /\ pc[c] = "gateway"
  /\ \/ /\ <<c, "proxy">> \in stray /\ backend.life = "up"
        /\ \/ job[c].mode = "proxy" /\ Records(c)
           \/ /\ job[c].mode # "proxy"
              /\ stray' = stray \cup {<<c, "tunnel">>}
              /\ Proceed(c, "tunnel")
              /\ UNCHANGED ingress
     \/ CleansUp(c)
  /\ UNCHANGED backend /\ Frame

\* wait_quick_url; then both are recorded, if both live.
Tunnel(c) ==
  /\ pc[c] = "tunnel"
  /\ ({<<c, "proxy">>, <<c, "tunnel">>} \subseteq stray /\ Records(c)) \/ CleansUp(c)
  /\ UNCHANGED backend /\ Frame

\* wait_public_auth, through to the backend; then the record is marked ready.
ExposeMark(c) ==
  /\ pc[c] = "mark"
  /\ \/ /\ IngressStatus \in {"starting", "ready"} /\ ingress.mode = job[c].mode
        /\ job[c].mode = "proxy" \/ backend.life = "up"
        /\ ingress' = [ingress EXCEPT !.status = "ready"]
        /\ Proceed(c, "confirm")
        /\ UNCHANGED stray
     \/ CleansUp(c)
  /\ UNCHANGED backend /\ Frame

\* 529-545: success is checked, and for a tunnel its endpoint.
Confirm(c) ==
  /\ pc[c] = "confirm"
  /\ IF IngressReady /\ (job[c].mode = "proxy" \/ HasEndpoint) THEN Ends(c, TRUE)
     ELSE /\ job' = [job EXCEPT ![c].wasStopped = TRUE]
          /\ Goto(c, "undo")
  /\ UNCHANGED <<backend, ingress, stray>> /\ Frame

\* Faulty variant: the backend is left running.
UndoIngress(c) ==
  /\ pc[c] = "undo"
  /\ ingress' = IF job[c].wasStopped THEN Closed ELSE ingress
  /\ Ends(c, FALSE)
  /\ UNCHANGED <<backend, stray>> /\ Frame

\* 524-526: the ingress is stopped if it was when this run came.
Undo(c) ==
  /\ pc[c] = "undo"
  /\ ingress' = IF job[c].wasStopped THEN Closed ELSE ingress
  /\ RollBack(c)
  /\ UNCHANGED <<backend, stray>> /\ Frame

-----------------------------------------------------------------------------
(* serve.sh stop, external.sh stop and stop-all. *)

\* What follows serve.sh stop: a rollback ignores its error.
Unserved(c, ok) ==
  IF job[c].cmd \in StopsAll /\ ok THEN Proceed(c, "gone") ELSE Ends(c, ok /\ job[c].ok)

Unserve(c) ==
  /\ pc[c] = "unserve"
  /\ \/ MayBeRefused(c) /\ Unserved(c, FALSE) /\ UNCHANGED backend
     \/ /\ MayEnter(c) /\ BackendStatus \in {"stopped", "stale"}
        /\ backend' = NoBackend
        /\ Unserved(c, TRUE)
     \/ /\ MayEnter(c) /\ BackendStatus \notin {"stopped", "stale"}
        /\ backend' = [backend EXCEPT !.status = "stopping"]
        /\ Proceed(c, "unserving")
  /\ AtTheLock(c)
  /\ UNCHANGED <<ingress, stray, reader>>

Unserving(c) ==
  /\ pc[c] = "unserving"
  /\ backend' = NoBackend
  /\ UNCHANGED stray \/ (Raced(c) /\ stray' = stray \cup Lost)
  /\ Unserved(c, TRUE)
  /\ AtTheLock(c)
  /\ UNCHANGED <<ingress, reader>>

\* Faulty variant: the backend comes first.
CloseLater(c) ==
  /\ pc[c] = "close"
  /\ Proceed(c, IF job[c].cmd = "stop" THEN "closed" ELSE "backend")
  /\ ingress' = IF job[c].cmd = "stop" THEN Closed ELSE ingress
  /\ UNCHANGED <<backend, stray>> /\ Frame

\* expose.sh stop
Close(c) ==
  /\ pc[c] = "close"
  /\ ingress' = Closed
  /\ Proceed(c, "closed")
  /\ UNCHANGED <<backend, stray>> /\ Frame

\* exposure_stopped_ok, or 62
CheckClosed(c) ==
  /\ pc[c] = "closed"
  /\ IF IngressStatus # "stopped" THEN Ends(c, FALSE)
     ELSE IF job[c].cmd = "stop" THEN Ends(c, TRUE) ELSE Proceed(c, "backend")
  /\ UNCHANGED <<backend, ingress, stray>> /\ Frame

\* 571-589: what is neither down nor canonical is refused (31).
StopBackend(c) ==
  /\ pc[c] = "backend"
  /\ \/ BackendStatus = "stopped" /\ Proceed(c, "gone")
     \/ (CanonicalReady \/ CanonicalStarting) /\ Proceed(c, "unserve")
     \/ BackendStatus # "stopped" /\ ~CanonicalReady /\ ~CanonicalStarting /\ Ends(c, FALSE)
  /\ UNCHANGED <<backend, ingress, stray>> /\ Frame

\* 590-596
CheckGone(c) ==
  /\ pc[c] = "gone"
  /\ Ends(c, BackendStatus = "stopped")
  /\ UNCHANGED <<backend, ingress, stray>> /\ Frame

-----------------------------------------------------------------------------
(* The notebook's muse_stop, after its stop-all, and the clean-up gate.      *)

Recorded == {k \in Kinds : CASE k = "server" -> backend.life # "down"
                             [] k = "proxy" -> ingress.proxy
                             [] OTHER -> ingress.tunnel}

Unrecorded == {s[2] : s \in stray}

\* Faulty variant: a server without a draft is not recognised.
MatchedDraft ==
  Unrecorded \cup {k \in Recorded : k = "server" => backend.profile = "dflash2"}

\* list_muse_demo_processes: by the command line, whatever any record says.
Matched == Unrecorded \cup Recorded

\* TERM, five seconds, KILL; the records stay as they are.
Sweep(c) ==
  /\ pc[c] = "sweep"
  /\ backend' = IF "server" \in Matched THEN [backend EXCEPT !.life = "down"] ELSE backend
  /\ ingress' = [ingress EXCEPT !.proxy = @ /\ "proxy" \notin Matched,
                                !.tunnel = @ /\ "tunnel" \notin Matched]
  /\ stray' = {s \in stray : s[2] \notin Matched}
  /\ Proceed(c, "survey")
  /\ Frame

\* Nothing is matched any more and both ports are free (a server that loads may
\* not listen yet): MUSE_STOP=PASS; or the assertions fail.
Survey(c) ==
  /\ pc[c] = "survey"
  /\ \/ Matched = {} /\ backend.life \notin {"up", "hung"} /\ ~ingress.proxy /\ Proceed(c, "swept")
     \/ /\ Matched # {} \/ backend.life # "down" \/ ingress.proxy
        /\ Goto(c, "done")
        /\ job' = [job EXCEPT ![c].ok = FALSE]
  /\ UNCHANGED <<backend, ingress, stray>> /\ Frame

\* The clean-up has failed all the same if stop-all has.
CleanupGate(c) ==
  /\ pc[c] = "swept"
  /\ Proceed(c, "done")
  /\ UNCHANGED <<backend, ingress, stray>> /\ Frame

-----------------------------------------------------------------------------
(* The world. *)

ServerStrays == {s \in stray : s[2] = "server"}

\* A server comes up; the port is its own.
Loads ==
  /\ backend.life = "loading" /\ ServerStrays = {}
  /\ backend' = [backend EXCEPT !.life = "up"]
  /\ UNCHANGED <<pc, job, ingress, stray>> /\ Frame

\* Of two servers one does not get the port, and ends.
Clash ==
  /\ \/ /\ \E s \in ServerStrays :
             /\ backend.life # "down" \/ ServerStrays # {s}
             /\ stray' = stray \ {s}
        /\ UNCHANGED backend
     \/ /\ backend.life = "loading" /\ ServerStrays # {}
        /\ backend' = [backend EXCEPT !.life = "down"]
        /\ UNCHANGED stray
  /\ UNCHANGED <<pc, job, ingress>> /\ Frame

\* Something dies or hangs: the backend, the gateway or the tunnel.
Fault ==
  /\ history.faults < MaxFaults
  /\ history' = [history EXCEPT !.faults = @ + 1, !.faulted = @ \cup {c \in Runs : Busy(c) /\ Alone(c)}]
  /\ \/ /\ backend.life # "down"
        /\ \E l \in {"down", "hung"} \ {backend.life} : backend' = [backend EXCEPT !.life = l]
        /\ UNCHANGED <<ingress, stray>>
     \/ /\ \/ ingress.proxy /\ ingress' = [ingress EXCEPT !.proxy = FALSE]
           \/ ingress.tunnel /\ ingress' = [ingress EXCEPT !.tunnel = FALSE]
        /\ UNCHANGED <<backend, stray>>
     \/ /\ \E s \in stray : stray' = stray \ {s}
        /\ UNCHANGED <<backend, ingress>>
  /\ UNCHANGED <<pc, job, reader>>

\* A run is killed with the command it has called: what it has launched and not
\* recorded goes on, and nobody knows of it; its lock is taken over (run_lock.sh).
Abandon(c) ==
  /\ MayAbandon
  /\ Busy(c)
  /\ Goto(c, "idle")
  /\ job' = [job EXCEPT ![c] = NoJob]
  /\ stray' = (stray \ Own(c)) \cup {<<None, s[2]>> : s \in Own(c)}
  /\ history' = [Forgotten(c) EXCEPT !.cut = @ \/ Own(c) # {}]
  /\ UNCHANGED <<backend, ingress, reader>>

-----------------------------------------------------------------------------
(* operator_status.py: external.sh status reads the backend, the exposure   *)
(* and its endpoint, serve.sh status the backend again.                     *)

NoReading == [at |-> "idle", external |-> "none", answer |-> "none"]

\* normalized_status_env, as far as the first reading of the backend decides
Combined(before) ==
  CASE before = "ready" /\ IngressReady -> IF ingress.mode = "proxy" THEN "proxy-ready" ELSE "ready"
    [] before = "ready" /\ IngressStatus = "stopped" -> "backend-only"
    [] ~(before = "ready" /\ IngressStatus \in {"ready", "stopped"})
         /\ (before = "starting" \/ IngressStatus = "starting") -> "starting"
    [] before = "stopped" /\ IngressStatus = "stopped" -> "stopped"
    [] OTHER -> "degraded"

\* A baseline server is ready and proven, but not for external.sh.
BackendSeen == IF BackendStatus = "ready" /\ ~CanonicalReady THEN "baseline" ELSE BackendStatus

\* Faulty variant: serve.sh is not asked again.
ClassifyOnce(external, seen) ==
  IF external = "ready" THEN "public-ready" ELSE external

\* classify: both readings have to agree with the answer.
Classify(external, seen) ==
  CASE external = "degraded" \/ seen = "stale" -> "degraded"
    [] external = "stopped" /\ seen = "stopped" -> "stopped"
    [] external \in {"backend-only", "proxy-ready"} /\ seen \in {"ready", "baseline"} -> external
    [] external = "ready" /\ seen \in {"ready", "baseline"} -> "public-ready"
    [] \/ external = "starting" /\ seen # "stale"
       \/ external # "degraded" /\ seen = "starting" -> "starting"
    [] OTHER -> "degraded"

\* What is so now; "degraded" claims nothing.
Truths ==
  {"degraded"} \cup
  {a \in {"stopped", "backend-only", "proxy-ready", "public-ready", "starting"} :
     CASE a = "stopped" -> BackendStatus = "stopped" /\ IngressStatus = "stopped"
       [] a = "backend-only" -> BackendStatus = "ready" /\ IngressStatus = "stopped"
       [] a = "proxy-ready" -> BackendStatus = "ready" /\ IngressReady /\ ingress.mode = "proxy"
       [] a = "public-ready" -> BackendStatus = "ready" /\ IngressReady /\ ingress.mode # "proxy"
       [] OTHER -> BackendStatus = "starting" \/ IngressStatus = "starting"}

ReadBackend ==
  /\ reader.at = "idle" /\ history.runs < MaxRuns
  /\ reader' = [reader EXCEPT !.at = "exposure", !.external = BackendSeen]
  /\ history' = [history EXCEPT !.runs = @ + 1]
  /\ UNCHANGED <<pc, job, backend, ingress, stray>>

ReadExposure ==
  /\ reader.at = "exposure"
  /\ LET e == Combined(reader.external)
     IN reader' = [reader EXCEPT !.external = e,
                     !.at = IF e \in {"ready", "proxy-ready"} THEN "endpoint" ELSE "again"]
  /\ UNCHANGED <<pc, job, backend, ingress, stray, history>>

\* safe_endpoint or safe_local_endpoint, which read the exposure again
ReadEndpoint ==
  /\ reader.at = "endpoint"
  /\ reader' = [reader EXCEPT !.at = "again",
       !.external = IF IngressReady /\ (@ = "proxy-ready" <=> ingress.mode = "proxy") THEN @ ELSE "degraded"]
  /\ UNCHANGED <<pc, job, backend, ingress, stray, history>>

ReadAgain ==
  /\ reader.at = "again"
  /\ reader' = [at |-> "answered", external |-> "none", answer |-> Classify(reader.external, BackendSeen)]
  /\ UNCHANGED <<pc, job, backend, ingress, stray, history>>

Answered ==
  /\ reader.at = "answered"
  /\ reader' = NoReading
  /\ UNCHANGED <<pc, job, backend, ingress, stray, history>>

Read == <<BackendSeen, IngressStatus, ingress.mode>>

Unwatched == [changes |-> 0, truths |-> {}]

\* What became true while the reader reads, and how often things changed.
Watch ==
  watch' = IF reader'.at = "idle" THEN Unwatched
           ELSE IF reader.at = "idle" THEN [changes |-> 0, truths |-> Truths]
           ELSE IF reader.at = "answered" \/ Read' = Read THEN watch
           ELSE [changes |-> IF watch.changes = 4 THEN 4 ELSE watch.changes + 1,
                 truths |-> watch.truths \cup Truths']

-----------------------------------------------------------------------------
\* What earlier runs may have left, one of them killed while its server loaded.
Init ==
  /\ pc = [c \in Runs |-> "idle"]
  /\ job = [c \in Runs |-> NoJob]
  /\ backend \in {NoBackend}
       \cup [status : {"ready", "starting"}, life : {"up"}, profile : Profiles]
  /\ ingress \in {Closed}
       \cup {[status |-> "ready", mode |-> m, proxy |-> TRUE, tunnel |-> m # "proxy"] : m \in Modes}
  /\ stray = {}
  /\ reader = NoReading
  /\ history = [runs |-> 0, faults |-> 0, overlapped |-> {}, faulted |-> {}, launched |-> {},
               raced |-> FALSE, cut |-> FALSE]
  /\ watch = Unwatched

Step(c) ==
  \/ Gate(c) \/ Look(c) \/ WaitReady(c) \/ Serve(c) \/ Prepare(c) \/ Begin(c) \/ Loaded(c)
  \/ Recheck(c) \/ Find(c) \/ Reuse(c) \/ ExposeGate(c) \/ ExposeLaunch(c) \/ Gateway(c)
  \/ Tunnel(c) \/ ExposeMark(c) \/ Confirm(c)
  \/ Undo(c) \/ Unserve(c) \/ Unserving(c) \/ Close(c) \/ CheckClosed(c) \/ StopBackend(c)
  \/ CheckGone(c) \/ Sweep(c) \/ Survey(c) \/ CleanupGate(c) \/ Leave(c)

Act ==
  \/ \E c \in Runs : Invoke(c) \/ Step(c) \/ Abandon(c)
  \/ Loads \/ Clash \/ Fault
  \/ ReadBackend \/ ReadExposure \/ ReadEndpoint \/ ReadAgain \/ Answered

Next == Act /\ Watch

Spec == Init /\ [][Next]_vars

\* Every wait of external.sh, serve.sh and expose.sh has a deadline.
FairSpec == Spec /\ \A c \in Runs : WF_vars(Step(c) /\ Watch)

-----------------------------------------------------------------------------
(* Properties. *)

PcStates == {"idle", "gate", "look", "wait", "serve", "prepare", "begin", "loading", "recheck",
             "ingress", "reuse", "expose", "launch", "gateway", "tunnel", "mark", "confirm",
             "undo", "unserve", "unserving", "close", "closed", "backend", "gone", "sweep", "survey", "swept", "done"}

\* Where a run has launched something that it has not recorded yet
Launching(k) ==
  CASE k = "server" -> {"begin"}
    [] k = "proxy" -> {"gateway", "tunnel"}
    [] OTHER -> {"tunnel"}

\* The variables have their types.  Two runs are inside of the lock of serve.sh
\* only after two have taken or dropped it at the same time, and what no state
\* file names belongs to a run that is about to record it, or to none.
TypeOK ==
  /\ pc \in [Runs -> PcStates]
  /\ job \in [Runs -> [cmd : Commands \cup {"none"},
                       mode : Modes, profile : {"dflash2", "baseline"}, ok : BOOLEAN,
                       startedHere : BOOLEAN, wasStopped : BOOLEAN]]
  /\ backend \in [status : {"stopped", "starting", "ready", "stopping"},
                  life : {"down", "loading", "up", "hung"}, profile : {"dflash2", "baseline"}]
  /\ ingress \in [status : {"stopped", "starting", "ready"}, mode : Modes,
                  proxy : BOOLEAN, tunnel : BOOLEAN]
  /\ reader.at \in {"idle", "exposure", "endpoint", "again", "answered"}
  /\ watch.changes \in 0..4
  /\ stray \subseteq (Runs \cup {None}) \X Kinds
  /\ \A c, d \in Runs : c # d /\ Inside(c) /\ Inside(d) => history.raced
  /\ \A c \in Runs, k \in Kinds : <<c, k>> \in stray =>
       pc[c] \in Launching(k)

Undisturbed(c) == Alone(c) /\ c \notin history.faulted

Finished(c, cmd, ok) == pc[c] = "done" /\ job[c].cmd = cmd /\ job[c].ok = ok

\* A start that fails has undone its own launches, even when the backend or
\* the ingress has died or hung under it: what it launched is down again, whether
\* it had recorded it or not.
FailedStartUndone ==
  \A c \in Runs : Alone(c) /\ Finished(c, "start", FALSE) =>
    /\ <<c, "backend">> \in history.launched => backend.life = "down"
    /\ <<c, "ingress">> \in history.launched => ingress = Closed
    /\ Own(c) = {}

\* A start that says it has succeeded, when nothing died while it ran, has a
\* canonical backend that is ready and a ready ingress in the mode it was
\* asked for.  A stop has no ingress, and a stop-all nothing at all, but for what
\* a run that was killed between a launch and its record has left (history.cut),
\* or two runs in the lock of serve.sh (history.raced): stop and stop-all go by the
\* records.  The notebook's clean-up leaves nothing, whoever was killed.
KeepsItsWord ==
  \A c \in Runs : Undisturbed(c) =>
    /\ Finished(c, "start", TRUE) => CanonicalReady /\ IngressReady /\ ingress.mode = job[c].mode
    /\ Finished(c, "stop", TRUE) =>
         ingress = Closed /\ (Unrecorded \subseteq {"server"} \/ history.cut)
    /\ \A cmd \in StopsAll : Finished(c, cmd, TRUE) =>
         ingress = Closed /\ backend = NoBackend /\ (stray = {} \/ history.cut \/ history.raced)
    /\ Finished(c, "muse-stop", TRUE) => stray = {}

\* MUSE_STOP=PASS is true of the processes, whatever the records say or do not say
\* and although stop-all may have refused a stale, hung or baseline backend:
\* nothing runs.
MuseStopIsTrue ==
  \A c \in Runs : pc[c] = "swept" /\ Alone(c) =>
    backend.life = "down" /\ ~ingress.proxy /\ ~ingress.tunnel /\ stray = {}

\* A rollback stops no backend but the one that its run has launched: one that
\* it found ready and reused stays up, whatever fails later.
RollsBackOwn ==
  [][\A c \in Runs :
       pc[c] = "unserving" /\ pc'[c] = "done" /\ job[c].cmd = "start" /\ Alone(c)
       => <<c, "backend">> \in history.launched]_vars

\* "stop exposure first, then stop the owned canonical backend": the backend
\* is not taken away from under an ingress that is on record, as long as no other
\* run works.
IngressFirst ==
  [][\A c \in Runs :
       pc[c] = "unserving" /\ backend'.life = "down" /\ job[c].cmd \in StopsAll /\ Alone(c)
       => ingress = Closed]_vars

\* What operator_status.py answers was so at some instant while it read, if
\* the backend and the exposure together changed at most three times meanwhile;
\* it takes four changes to slip between its readings.
AnswerWasTrue ==
  reader.at = "answered" /\ watch.changes < 4 => reader.answer \in watch.truths

\* Every run comes to an end.
RunsEnd == \A c \in Runs : Busy(c) ~> ~Busy(c)
=============================================================================
