------------------------------ MODULE Exposure ------------------------------
(***************************************************************************)
(* The ingress: expose.sh over scripts/exposure_state.py.  Runs of         *)
(* expose.sh start and stop the gateway (auth_proxy.py, on one port) and,  *)
(* unless the mode is "proxy", a tunnel from the Internet to it.  Nothing  *)
(* excludes two runs from each other: they share the state file and the    *)
(* port.  One helper command is one step, but stop-owned is three: it      *)
(* loads the records, terminates them, and writes the file it had loaded.  *)
(*                                                                         *)
(* A process is named by its incarnation (pid, start time, command line),  *)
(* which is what record_owned compares.  A tunnel is "quick" or "named";   *)
(* these differ in where the public URL comes from, which is not modelled. *)
(***************************************************************************)
EXTENDS Naturals, FiniteSets

CONSTANTS Runs,      \* runs of expose.sh
          Procs,     \* bound: processes launched in one behaviour
          Modes,     \* EXPOSURE_MODE: "proxy", "quick" and "named", or some
          None,
          MayAbandon, \* may a signal end a run without its cleanup?
          MaxRuns    \* bound: runs of expose.sh in one behaviour

ASSUME ExposureAssumption ==
  /\ IsFiniteSet(Runs) /\ IsFiniteSet(Procs)
  /\ None \notin Procs \cup Runs
  /\ Modes \subseteq {"proxy", "quick", "named"}
  /\ MayAbandon \in BOOLEAN
  /\ MaxRuns \in Nat

PcStates == {"idle", "gate", "look", "relook", "reuse", "recheck", "port", "proxy", "local",
             "tunnel", "url", "begin", "public", "mark", "fail", "killown", "closed",
             "load", "term", "write"}

VARIABLES pc,      \* per run: where it is in expose.sh
          mode,    \* per run: EXPOSURE_MODE
          mine,    \* per run: PROXY_PID and TUNNEL_PID
          loaded,  \* per run: the records stop-owned works on
          next,    \* per run: what follows stop-owned
          state,   \* the exposure state file; status "none" is no file
          proc,    \* per process: what it is, its life, the run that launched it
          runs,    \* runs so far
          overlap, \* history: two runs were at work at once
          abandoned \* history: a signal ended a run without its cleanup

history == <<runs, overlap, abandoned>>
vars == <<pc, mode, mine, loaded, next, state, proc, history>>

Nothing == [proxy |-> None, tunnel |-> None]

Stopped == [status |-> "stopped", mode |-> "proxy", proxy |-> None, tunnel |-> None]

-----------------------------------------------------------------------------
Unborn == [role |-> "none", life |-> "unborn", by |-> None]

Running(p) == p # None /\ proc[p].life \in {"starting", "up"}

\* record_owned (62-71): a process that has been sent KILL may still count.
Owned(p) == p # None /\ proc[p].life \in {"starting", "up", "doomed"}

Live == {p \in Procs : Running(p)}

\* Somebody listens on the gateway's port.
Bound == \E p \in Procs : proc[p].role = "proxy" /\ proc[p].life \in {"up", "doomed"}

Answering == \E p \in Procs : proc[p].role = "proxy" /\ proc[p].life = "up"

\* status_report (74-99)
Status ==
  CASE state.status \in {"none", "stopped"} -> "stopped"
    [] state.status \notin {"none", "stopped"} /\ state.mode = "proxy" ->
         IF Owned(state.proxy) /\ ~Owned(state.tunnel) /\ state.status # "ready"
         THEN state.status ELSE "stale"
    [] OTHER ->
         IF Owned(state.proxy) /\ Owned(state.tunnel) /\ state.status # "proxy-ready"
         THEN state.status ELSE "stale"

Goto(c, there) == pc' = [pc EXCEPT ![c] = there]

Keep(c) == UNCHANGED <<mode, mine, loaded, next>>

Proceed(c, there) == Goto(c, there) /\ Keep(c)

\* The run ends and forgets.
Exit(c) ==
  /\ Goto(c, "idle")
  /\ mode' = [mode EXCEPT ![c] = "proxy"]
  /\ mine' = [mine EXCEPT ![c] = Nothing]
  /\ loaded' = [loaded EXCEPT ![c] = Nothing]
  /\ next' = [next EXCEPT ![c] = "idle"]

\* exposure_state.py stop-owned, and then ...
StopOwned(c, then) ==
  /\ Goto(c, "load")
  /\ next' = [next EXCEPT ![c] = then]
  /\ UNCHANGED <<mode, mine, loaded>>

\* A bounded termination: TERM, and KILL for a process that outlives it.
Terminated(ps) ==
  \E fate \in [ps -> {"dead", "doomed"}] :
    proc' = [p \in Procs |-> IF p \in ps THEN [proc[p] EXCEPT !.life = fate[p]] ELSE proc[p]]

\* nohup ... & of a run that knows of these processes so far
Launched(c, role, known) ==
  /\ \E p \in Procs : proc[p] = Unborn
  /\ LET p == CHOOSE p \in Procs : proc[p] = Unborn
     IN /\ proc' = [proc EXCEPT ![p] = [role |-> role, life |-> "starting", by |-> c]]
        /\ mine' = [mine EXCEPT ![c] = [known EXCEPT ![role] = p]]
  /\ UNCHANGED <<mode, loaded, next>>

-----------------------------------------------------------------------------
(* start_exposure, stop_exposure *)

Invoke(c) ==
  /\ pc[c] = "idle"
  /\ runs < MaxRuns
  /\ runs' = runs + 1
  /\ overlap' = (overlap \/ \E d \in Runs \ {c} : pc[d] # "idle")
  /\ \/ /\ Goto(c, "gate")
        /\ \E m \in Modes : mode' = [mode EXCEPT ![c] = m]
        /\ UNCHANGED <<mine, loaded, next>>
     \/ /\ state.status # "none"                        \* stop, 420-430
        /\ StopOwned(c, "idle")
  /\ UNCHANGED <<state, proc, abandoned>>

\* Faulty variant: a backend that is not proven leaves the ingress open.
GateLeavesOpen(c) ==
  /\ pc[c] = "gate"
  /\ Proceed(c, "look") \/ Proceed(c, "closed")
  /\ UNCHANGED <<state, proc, history>>

\* backend_gate (305-312): READY and proven, or else any ingress is closed.
Gate(c) ==
  /\ pc[c] = "gate"
  /\ \/ Proceed(c, "look")
     \/ IF state.status = "none" THEN Proceed(c, "closed") ELSE StopOwned(c, "closed")
  /\ UNCHANGED <<state, proc, history>>

\* 338-353: what is ready is looked at again, what is neither ready nor
\* stopped is stopped.
Reconsider(c) ==
  \/ /\ Status = "ready"
     /\ mine' = [mine EXCEPT ![c] = [proxy |-> state.proxy, tunnel |-> state.tunnel]]
     /\ Goto(c, "recheck")
     /\ UNCHANGED <<mode, loaded, next>>
  \/ Status \notin {"ready", "stopped"} /\ StopOwned(c, "port")
  \/ Status = "stopped" /\ Proceed(c, "port")

\* 317-327: another mode is refused, a proxy that is ready is looked at.
Look(c) ==
  /\ pc[c] = "look"
  /\ \/ Status \in {"ready", "proxy-ready"} /\ state.mode # mode[c] /\ Exit(c)
     \/ /\ Status = "proxy-ready" /\ state.mode = mode[c]
        /\ mine' = [mine EXCEPT ![c] = [proxy |-> state.proxy, tunnel |-> None]]
        /\ Goto(c, "reuse")
        /\ UNCHANGED <<mode, loaded, next>>
     \/ /\ Status # "proxy-ready" /\ (Status = "ready" => state.mode = mode[c])
        /\ Reconsider(c)
  /\ UNCHANGED <<state, proc, history>>

\* wait_local_proxy (144-170): whatever answers on the port will do, as long
\* as the proxy the run has in mind has not exited.
LocalReady(c) == proc[mine[c].proxy].life # "dead" /\ Answering

\* 328-334
Reuse(c) ==
  /\ pc[c] = "reuse"
  /\ \/ LocalReady(c) /\ Exit(c)
     \/ StopOwned(c, "relook")
  /\ UNCHANGED <<state, proc, history>>

\* 335
Relook(c) ==
  /\ pc[c] = "relook"
  /\ Reconsider(c)
  /\ UNCHANGED <<state, proc, history>>

\* 342-350
Recheck(c) ==
  /\ pc[c] = "recheck"
  /\ \/ Answering /\ Running(mine[c].tunnel) /\ Exit(c)
     \/ StopOwned(c, "port")
  /\ UNCHANGED <<state, proc, history>>

\* 355-362; a listener of somebody else's also makes the run give up.
CheckPort(c) ==
  /\ pc[c] = "port"
  /\ \/ ~Bound /\ (\E p \in Procs : proc[p] = Unborn) /\ Proceed(c, "proxy")
     \/ Exit(c)
  /\ UNCHANGED <<state, proc, history>>

\* Faulty variant: TUNNEL_PID is not cleared (365).
SpawnKeepsTunnel(c) ==
  /\ pc[c] = "proxy"
  /\ \/ Launched(c, "proxy", mine[c]) /\ Goto(c, "local")
     \/ (\A p \in Procs : proc[p] # Unborn) /\ Exit(c) /\ UNCHANGED proc
  /\ UNCHANGED <<state, history>>

\* 364-372; the second disjunct is the bound on Procs.
SpawnProxy(c) ==
  /\ pc[c] = "proxy"
  /\ \/ Launched(c, "proxy", Nothing) /\ Goto(c, "local")
     \/ (\A p \in Procs : proc[p] # Unborn) /\ Exit(c) /\ UNCHANGED proc
  /\ UNCHANGED <<state, history>>

\* 373
WaitLocal(c) ==
  /\ pc[c] = "local"
  /\ \/ /\ LocalReady(c)
        /\ Proceed(c, IF mode[c] = "proxy" THEN "begin" ELSE "tunnel")
     \/ Proceed(c, "fail")
  /\ UNCHANGED <<state, proc, history>>

\* 387-405; a named tunnel without its token or its URL is not launched.
SpawnTunnel(c) ==
  /\ pc[c] = "tunnel"
  /\ \/ Launched(c, "tunnel", mine[c]) /\ Goto(c, "url")
     \/ Proceed(c, "fail") /\ UNCHANGED proc
  /\ UNCHANGED <<state, history>>

\* wait_quick_url (172-198), or the checks of a named tunnel
WaitUrl(c) ==
  /\ pc[c] = "url"
  /\ (Running(mine[c].tunnel) /\ Proceed(c, "begin")) \/ Proceed(c, "fail")
  /\ UNCHANGED <<state, proc, history>>

\* Faulty variant: the two pids are passed in the wrong order.
BeginSwapped(c) ==
  /\ pc[c] = "begin"
  /\ state' = [status |-> "starting", mode |-> mode[c],
               proxy |-> mine[c].tunnel, tunnel |-> mine[c].proxy]
  /\ Proceed(c, IF mode[c] = "proxy" THEN "mark" ELSE "public")
  /\ UNCHANGED <<proc, history>>

\* begin (376-379 and 407-411; exposure_state 122-142)
Begin(c) ==
  /\ pc[c] = "begin"
  /\ \/ /\ Owned(mine[c].proxy) /\ (mode[c] # "proxy" => Owned(mine[c].tunnel))
        /\ state' = [status |-> "starting", mode |-> mode[c],
                     proxy |-> mine[c].proxy, tunnel |-> mine[c].tunnel]
        /\ Proceed(c, IF mode[c] = "proxy" THEN "mark" ELSE "public")
     \/ /\ ~(Owned(mine[c].proxy) /\ (mode[c] # "proxy" => Owned(mine[c].tunnel)))
        /\ Proceed(c, "fail")
        /\ UNCHANGED state
  /\ UNCHANGED <<proc, history>>

\* wait_public_auth (413, 200-248)
WaitPublic(c) ==
  /\ pc[c] = "public"
  /\ \/ Running(mine[c].tunnel) /\ Answering /\ Proceed(c, "mark")
     \/ Proceed(c, "fail")
  /\ UNCHANGED <<state, proc, history>>

\* mark-proxy-ready or mark-ready (380, 414; exposure_state 146-174), which
\* look at the records of the file, not at the processes of this run.
Mark(c) ==
  LET sound == /\ (state.mode = "proxy" <=> mode[c] = "proxy")
               /\ Owned(state.proxy) /\ (Owned(state.tunnel) <=> mode[c] # "proxy")
  IN /\ pc[c] = "mark"
     /\ \/ /\ sound
           /\ state' = [state EXCEPT !.status = IF mode[c] = "proxy" THEN "proxy-ready" ELSE "ready"]
           /\ Exit(c)
        \/ /\ ~sound
           /\ Proceed(c, "fail")
           /\ UNCHANGED state
     /\ UNCHANGED <<proc, history>>

\* cleanup_partial (279-291) of a start that has launched something: first
\* whatever the state file names ...
Cleanup(c) ==
  /\ pc[c] = "fail"
  /\ IF state.status = "none" THEN Proceed(c, "killown") ELSE StopOwned(c, "killown")
  /\ UNCHANGED <<state, proc, history>>

\* Faulty variant: only what the state file names is terminated.
KillNothing(c) ==
  /\ pc[c] = "killown"
  /\ Exit(c)
  /\ UNCHANGED <<state, proc, history>>

\* ... then the processes this run launched (288-289).
KillOwn(c) ==
  /\ pc[c] = "killown"
  /\ Terminated({p \in Live : p \in {mine[c].proxy, mine[c].tunnel}})
  /\ Exit(c)
  /\ UNCHANGED <<state, history>>

\* The gate's error is returned (311).
Closed(c) ==
  /\ pc[c] = "closed"
  /\ Exit(c)
  /\ UNCHANGED <<state, proc, history>>

-----------------------------------------------------------------------------
(* stop-owned (exposure_state 197-210) *)

Load(c) ==
  /\ pc[c] = "load"
  /\ loaded' = [loaded EXCEPT ![c] = [proxy |-> state.proxy, tunnel |-> state.tunnel]]
  /\ state' = [state EXCEPT !.status = "stopping"]
  /\ Goto(c, "term")
  /\ UNCHANGED <<mode, mine, next, proc, history>>

\* terminate_records (183-194)
Term(c) ==
  /\ pc[c] = "term"
  /\ Terminated({p \in Live : p \in {loaded[c].proxy, loaded[c].tunnel}})
  /\ Proceed(c, "write")
  /\ UNCHANGED <<state, history>>

Write(c) ==
  /\ pc[c] = "write"
  /\ state' = Stopped
  /\ IF next[c] = "idle" THEN Exit(c) ELSE Proceed(c, next[c])
  /\ UNCHANGED <<proc, history>>

-----------------------------------------------------------------------------
(* Processes and signals. *)

\* A proxy binds its port or fails; a tunnel comes up; a killed process goes.
Launch(p) ==
  /\ proc[p].life \in {"starting", "doomed"}
  /\ proc' = [proc EXCEPT ![p].life =
                IF @ = "doomed" \/ (proc[p].role = "proxy" /\ Bound) THEN "dead" ELSE "up"]
  /\ UNCHANGED <<pc, mode, mine, loaded, next, state, history>>

Fail(p) ==
  /\ p \in Live
  /\ proc' = [proc EXCEPT ![p].life = "dead"]
  /\ UNCHANGED <<pc, mode, mine, loaded, next, state, history>>

\* STARTING=1: the run has launched something and is not marked (367-415).
Starting == {"local", "tunnel", "url", "begin", "public", "mark"}

\* A signal that finds $? # 0: the EXIT trap cleans up (293-297).
Interrupt(c) ==
  /\ pc[c] \in Starting
  /\ Proceed(c, "fail")
  /\ UNCHANGED <<state, proc, history>>

\* A signal that finds $? = 0, as one does that arrives while a command of
\* the script runs after one that succeeded: on_exit then leaves without
\* cleaning up (295).  Or KILL.
Abandon(c) ==
  /\ MayAbandon
  /\ pc[c] # "idle"
  /\ Exit(c)
  /\ abandoned' = TRUE
  /\ UNCHANGED <<state, proc, runs, overlap>>

Init ==
  /\ pc = [c \in Runs |-> "idle"]
  /\ mode = [c \in Runs |-> "proxy"]
  /\ mine = [c \in Runs |-> Nothing]
  /\ loaded = [c \in Runs |-> Nothing]
  /\ next = [c \in Runs |-> "idle"]
  /\ state = [Stopped EXCEPT !.status = "none"]
  /\ proc = [p \in Procs |-> Unborn]
  /\ runs = 0
  /\ overlap = FALSE
  /\ abandoned = FALSE

Step(c) ==
  \/ Gate(c) \/ Look(c) \/ Reuse(c) \/ Relook(c) \/ Recheck(c) \/ CheckPort(c)
  \/ SpawnProxy(c) \/ WaitLocal(c) \/ SpawnTunnel(c) \/ WaitUrl(c) \/ Begin(c)
  \/ WaitPublic(c) \/ Mark(c) \/ Cleanup(c) \/ KillOwn(c) \/ Closed(c)
  \/ Load(c) \/ Term(c) \/ Write(c)

Next ==
  \/ \E c \in Runs : Invoke(c) \/ Step(c) \/ Interrupt(c) \/ Abandon(c)
  \/ \E p \in Procs : Launch(p) \/ Fail(p)

Spec == Init /\ [][Next]_vars

-----------------------------------------------------------------------------
(* Properties. *)

ProcOrNone == Procs \cup {None}

Records == [proxy : ProcOrNone, tunnel : ProcOrNone]

\* The variables have their types, and a process that the state file or a run
\* has down as the gateway or as the tunnel was launched as just that.
TypeOK ==
  /\ pc \in [Runs -> PcStates]
  /\ mode \in [Runs -> {"proxy", "quick", "named"}]
  /\ mine \in [Runs -> Records]
  /\ loaded \in [Runs -> Records]
  /\ next \in [Runs -> {"idle", "closed", "relook", "port", "killown"}]
  /\ state \in [status : {"none", "starting", "ready", "proxy-ready", "stopping", "stopped"},
                mode : {"proxy", "quick", "named"}, proxy : ProcOrNone, tunnel : ProcOrNone]
  /\ proc \in [Procs -> [role : {"none", "proxy", "tunnel"},
                         life : {"unborn", "starting", "up", "doomed", "dead"},
                         by : Runs \cup {None}]]
  /\ runs \in 0..MaxRuns
  /\ overlap \in BOOLEAN /\ abandoned \in BOOLEAN
  /\ \A role \in {"proxy", "tunnel"} :
       \A p \in {state[role]} \cup {mine[c][role] : c \in Runs} :
         p # None => proc[p].role = role

\* Runs that come one after the other, and are let finish or fail, lose track
\* of no gateway and no tunnel: each that is alive is in the state file, where
\* stop finds it, or is known to the run at work, which will clean it up.
IngressAccounted ==
  ~overlap /\ ~abandoned =>
    \A p \in Live :
      \/ p \in {state.proxy, state.tunnel}
      \/ \E c \in Runs : p \in {mine[c].proxy, mine[c].tunnel}

\* A start that finds the backend unproven returns its error only with all
\* ingress closed: "close ingress fail-closed" (expose.sh 309).
FailClosed ==
  ~overlap /\ ~abandoned =>
    \A c \in Runs : pc[c] = "closed" => Live = {}

\* The run is between its first launch and being marked or cleaned up.
AtLaunch(c) == pc[c] \in Starting \cup {"fail", "killown"} \/ next[c] = "killown"

\* Whatever runs overlap, the processes that a run will terminate directly in
\* its cleanup are its own launches, which makes that safe (expose.sh 286-287).
CleanupOfOwn ==
  \A c \in Runs : AtLaunch(c) =>
    \A p \in {mine[c].proxy, mine[c].tunnel} \ {None} : proc[p].by = c

\* What stop says when it is done: with nobody at work, an exposure that is
\* down as STOPPED has no gateway and no tunnel alive.  Violated.
StoppedMeansClosed ==
  Status = "stopped" /\ (\A c \in Runs : pc[c] = "idle") => Live = {}
=============================================================================
