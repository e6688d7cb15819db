--------------------------- MODULE ExposureProofs ---------------------------
(***************************************************************************)
(* What expose.sh guarantees to any number of runs and of processes: runs  *)
(* that come one after the other lose track of no gateway and no tunnel,   *)
(* and a clean-up terminates, beyond what is on record, its own launches.  *)
(***************************************************************************)
EXTENDS Exposure, TLAPS

OnRecord == {state.proxy, state.tunnel}

Own(c) == {mine[c].proxy, mine[c].tunnel}

Stopping == {"load", "term", "write"}

\* At these places the run has found, or has made sure, that nothing is alive.
AllDown == {"relook", "port", "proxy", "closed"}

\* At these places what is alive is what the run has launched.
Launching == Starting \cup {"fail", "killown"}

\* A record is empty exactly when it says so.
EmptyRecord == state.status \in {"none", "stopped"} => OnRecord = {None}

\* While runs come one after the other, at most one is at work.
OneRun == ~overlap => \A c, d \in Runs : pc[c] # "idle" /\ pc[d] # "idle" => c = d

\* Where the processes that are alive are known, by the place of the one run.
Known(c) ==
  CASE pc[c] \in {"gate", "look", "reuse", "recheck"} -> Live \subseteq OnRecord
    [] pc[c] \in AllDown -> Live = {}
    [] pc[c] \in Launching -> Live \subseteq Own(c)
    [] pc[c] \in Stopping /\ next[c] = "killown" -> Live \subseteq Own(c)
    [] pc[c] = "load" /\ next[c] # "killown" -> Live \subseteq OnRecord
    [] pc[c] = "term" /\ next[c] # "killown" ->
         Live \subseteq OnRecord \cap {loaded[c].proxy, loaded[c].tunnel}
    [] OTHER -> pc[c] = "write" => Live = {}

Tracked ==
  ~overlap /\ ~abandoned =>
    /\ \A c \in Runs :
         /\ pc[c] # "idle" => Known(c)
         /\ pc[c] \in {"local", "tunnel"} => mine[c].tunnel = None
         /\ pc[c] \in {"public", "mark"} => state.proxy = mine[c].proxy /\ state.tunnel = mine[c].tunnel
    /\ (\A c \in Runs : pc[c] = "idle") => Live \subseteq OnRecord

\* What follows stop-owned is remembered until it is done; only a clean-up comes
\* back to the processes of its run.
Returning == \A c \in Runs : next[c] = "killown" => pc[c] \in Stopping \cup {"killown"}

ExposureInv == TypeOK /\ EmptyRecord /\ OneRun /\ Tracked /\ Returning /\ CleanupOfOwn

-----------------------------------------------------------------------------
(* Types. *)

Modelled == {"proxy", "quick", "named"}

Shape ==
  /\ pc \in [Runs -> PcStates]
  /\ mode \in [Runs -> Modelled]
  /\ mine \in [Runs -> Records]
  /\ loaded \in [Runs -> Records]
  /\ next \in [Runs -> {"idle", "closed", "relook", "port", "killown"}]
  /\ state \in [status : {"none", "starting", "ready", "proxy-ready", "stopping", "stopped"},
                mode : Modelled, proxy : ProcOrNone, tunnel : ProcOrNone]
  /\ proc \in [Procs -> [role : {"none", "proxy", "tunnel"},
                         life : {"unborn", "starting", "up", "doomed", "dead"},
                         by : Runs \cup {None}]]
  /\ runs \in 0..MaxRuns
  /\ overlap \in BOOLEAN /\ abandoned \in BOOLEAN

RolesKept ==
  /\ state.proxy # None => proc[state.proxy].role = "proxy"
  /\ state.tunnel # None => proc[state.tunnel].role = "tunnel"
  /\ \A c \in Runs : /\ mine[c].proxy # None => proc[mine[c].proxy].role = "proxy"
                     /\ mine[c].tunnel # None => proc[mine[c].tunnel].role = "tunnel"

LEMMA TypeParts ==
  /\ TypeOK <=> Shape /\ RolesKept
  /\ TypeOK' <=> (Shape /\ RolesKept)'
<1>1. TypeOK <=> Shape /\ RolesKept
  BY DEF TypeOK, Shape, RolesKept, Modelled
<1>2. TypeOK' <=> (Shape /\ RolesKept)'
  BY DEF TypeOK, Shape, RolesKept, Modelled
<1>. QED BY <1>1, <1>2

\* The one thing a launch does to the processes.
Born(c, role, p) ==
  /\ proc[p] = Unborn
  /\ proc' = [proc EXCEPT ![p] = [role |-> role, life |-> "starting", by |-> c]]

LEMMA LaunchedBorn ==
  ASSUME NEW c \in Runs, NEW role, NEW known, Launched(c, role, known)
  PROVE  \E p \in Procs : /\ Born(c, role, p)
                          /\ mine' = [mine EXCEPT ![c] = [known EXCEPT ![role] = p]]
BY DEF Launched, Born

\* A termination changes nothing but the life of what it terminates.
LEMMA TerminatedEffect ==
  ASSUME Shape, NEW ps \in SUBSET Procs, Terminated(ps)
  PROVE  /\ \A p \in Procs \ ps : proc'[p] = proc[p]
         /\ \A p \in ps : proc'[p].life \in {"dead", "doomed"}
         /\ \A p \in Procs : proc'[p].role = proc[p].role /\ proc'[p].by = proc[p].by
         /\ proc' \in [Procs -> [role : {"none", "proxy", "tunnel"},
                                 life : {"unborn", "starting", "up", "doomed", "dead"},
                                 by : Runs \cup {None}]]
<1>1. PICK fate \in [ps -> {"dead", "doomed"}] :
        proc' = [p \in Procs |-> IF p \in ps THEN [proc[p] EXCEPT !.life = fate[p]] ELSE proc[p]]
  BY DEF Terminated
<1>. QED BY <1>1 DEF Shape


NextStops == {"idle", "closed", "relook", "port", "killown"}

\* What a run keeps to itself.
Locals ==
  /\ pc \in [Runs -> PcStates]
  /\ mode \in [Runs -> Modelled]
  /\ mine \in [Runs -> Records]
  /\ loaded \in [Runs -> Records]
  /\ next \in [Runs -> NextStops]

Moves(c) ==
  \/ Exit(c)
  \/ \E there \in PcStates : Proceed(c, there)
  \/ \E then \in NextStops : StopOwned(c, then)

\* A run that ends, goes on, or is to stop what is on record, has no new process
\* in mind.
LEMMA MoveTypes ==
  ASSUME Locals, NEW c \in Runs, Moves(c)
  PROVE  Locals' /\ \A d \in Runs : mine'[d] \in {mine[d], Nothing}
<1>. USE DEF Locals, Goto
<1>1. CASE Exit(c)
  BY <1>1 DEF Exit, PcStates, NextStops, Records, ProcOrNone, Nothing, Modelled
<1>2. ASSUME NEW there \in PcStates, Proceed(c, there)
      PROVE  Locals' /\ \A d \in Runs : mine'[d] \in {mine[d], Nothing}
  BY <1>2 DEF Proceed, Keep
<1>3. ASSUME NEW then \in NextStops, StopOwned(c, then)
      PROVE  Locals' /\ \A d \in Runs : mine'[d] \in {mine[d], Nothing}
  BY <1>3 DEF StopOwned, PcStates
<1>. QED BY <1>1, <1>2, <1>3 DEF Moves

LEMMA ShapeLocals == Shape => Locals
BY DEF Shape, Locals, NextStops

LEMMA MoveKeepsTypes ==
  ASSUME TypeOK, NEW c \in Runs, Moves(c), UNCHANGED <<state, proc, runs, overlap>>,
         abandoned' \in {abandoned, TRUE}
  PROVE  TypeOK'
<1>1. Shape /\ RolesKept
  BY TypeParts
<1>2. Locals' /\ \A d \in Runs : mine'[d] \in {mine[d], Nothing}
  BY <1>1, ShapeLocals, MoveTypes
<1>3. Shape'
  BY <1>1, <1>2 DEF Shape, Locals, NextStops
<1>4. RolesKept'
  BY <1>1, <1>2 DEF RolesKept, Nothing
<1>. QED BY <1>3, <1>4, TypeParts

\* A run turns to the processes on record.
LEMMA AdoptKeepsTypes ==
  ASSUME TypeOK, NEW c \in Runs, NEW tunnel \in {None, state.tunnel}, NEW there \in PcStates,
         mine' = [mine EXCEPT ![c] = [proxy |-> state.proxy, tunnel |-> tunnel]],
         Goto(c, there), UNCHANGED <<mode, loaded, next, state, proc, history>>
  PROVE  TypeOK'
<1>1. Shape /\ RolesKept
  BY TypeParts
<1>2. Shape'
  BY <1>1 DEF Shape, Goto, history, Records, ProcOrNone
<1>3. RolesKept'
  BY <1>1 DEF RolesKept, Shape
<1>. QED BY <1>2, <1>3, TypeParts

\* A run launches its gateway, or its tunnel.
LEMMA LaunchKeepsTypes ==
  ASSUME TypeOK, NEW c \in Runs, NEW role \in {"proxy", "tunnel"}, NEW p \in Procs,
         Born(c, role, p), NEW known \in {Nothing, mine[c]}, NEW there \in PcStates,
         mine' = [mine EXCEPT ![c] = [known EXCEPT ![role] = p]],
         Goto(c, there), UNCHANGED <<mode, loaded, next, state, history>>
  PROVE  TypeOK'
<1>1. Shape /\ RolesKept
  BY TypeParts
<1>p. p # None
  BY ExposureAssumption DEF ExposureAssumption
<1>2. known \in Records
  BY <1>1 DEF Shape, Records, ProcOrNone, Nothing
<1>3. [known EXCEPT ![role] = p] \in Records
  BY <1>2 DEF Records, ProcOrNone
<1>4. Shape'
  BY <1>1, <1>3 DEF Shape, Born, Goto, history
<1>5. \A q \in Procs : q # p => proc'[q] = proc[q]
  BY <1>1 DEF Shape, Born
<1>6. proc'[p].role = role
  BY <1>1 DEF Shape, Born
<1>7. proc[p].role = "none"
  BY DEF Born, Unborn
<1>8. \A d \in Runs : d # c => mine'[d] = mine[d]
  BY <1>1 DEF Shape
<1>9. /\ mine'[c][role] = p
      /\ \A r \in {"proxy", "tunnel"} : r # role => mine'[c][r] = known[r]
  BY <1>1, <1>2 DEF Shape, Records
<1>10. /\ state.proxy # p /\ state.tunnel # p
       /\ \A d \in Runs : mine[d].proxy # p /\ mine[d].tunnel # p
  BY <1>1, <1>7, <1>p DEF RolesKept
<1>11. known.proxy # p /\ known.tunnel # p
  BY <1>10, <1>p DEF Nothing
<1>12. /\ known.proxy # None => proc[known.proxy].role = "proxy"
       /\ known.tunnel # None => proc[known.tunnel].role = "tunnel"
  BY <1>1 DEF RolesKept, Nothing
<1>13. RolesKept'
  <2>1. \A d \in Runs \ {c} : /\ mine'[d].proxy # None => proc'[mine'[d].proxy].role = "proxy"
                              /\ mine'[d].tunnel # None => proc'[mine'[d].tunnel].role = "tunnel"
    BY <1>1, <1>5, <1>8, <1>10 DEF RolesKept, Shape, Records, ProcOrNone
  <2>2. /\ mine'[c].proxy # None => proc'[mine'[c].proxy].role = "proxy"
        /\ mine'[c].tunnel # None => proc'[mine'[c].tunnel].role = "tunnel"
    BY <1>2, <1>5, <1>6, <1>9, <1>11, <1>12 DEF Records, ProcOrNone
  <2>3. /\ state'.proxy # None => proc'[state'.proxy].role = "proxy"
        /\ state'.tunnel # None => proc'[state'.tunnel].role = "tunnel"
    BY <1>1, <1>5, <1>10 DEF RolesKept, Shape, ProcOrNone
  <2>. QED BY <2>1, <2>2, <2>3 DEF RolesKept
<1>. QED BY <1>4, <1>13, TypeParts

\* What is terminated keeps its role.
LEMMA TerminateKeepsTypes ==
  ASSUME TypeOK, NEW c \in Runs, NEW ps \in SUBSET Procs, Terminated(ps), Moves(c),
         UNCHANGED <<state, history>>
  PROVE  TypeOK'
<1>1. Shape /\ RolesKept
  BY TypeParts
<1>2. Locals' /\ \A d \in Runs : mine'[d] \in {mine[d], Nothing}
  BY <1>1, ShapeLocals, MoveTypes
<1>3. Shape'
  BY <1>1, <1>2, TerminatedEffect DEF Shape, Locals, NextStops, history
<1>4. \A p \in Procs : proc'[p].role = proc[p].role
  BY <1>1, TerminatedEffect
<1>5. RolesKept'
  BY <1>1, <1>2, <1>4 DEF RolesKept, Shape, Nothing, Records, ProcOrNone
<1>. QED BY <1>3, <1>5, TypeParts

\* A record is written with a gateway and a tunnel that were launched as such.
LEMMA RecordKeepsTypes ==
  ASSUME TypeOK, NEW c \in Runs, Moves(c), UNCHANGED <<proc, history>>,
         state' \in [status : {"none", "starting", "ready", "proxy-ready", "stopping", "stopped"},
                     mode : Modelled, proxy : {None, state.proxy, mine[c].proxy},
                     tunnel : {None, state.tunnel, mine[c].tunnel}]
  PROVE  TypeOK'
<1>1. Shape /\ RolesKept
  BY TypeParts
<1>2. Locals' /\ \A d \in Runs : mine'[d] \in {mine[d], Nothing}
  BY <1>1, ShapeLocals, MoveTypes
<1>3. Shape'
  BY <1>1, <1>2 DEF Shape, Locals, NextStops, history, Records, ProcOrNone
<1>4. RolesKept'
  BY <1>1, <1>2 DEF RolesKept, Nothing
<1>. QED BY <1>3, <1>4, TypeParts

LEMMA StepTypes ==
  ASSUME TypeOK, NEW c \in Runs, Step(c)
  PROVE  TypeOK'
<1>t. Shape /\ RolesKept
  BY TypeParts
<1>. USE DEF Moves, PcStates, NextStops
<1>1. CASE Gate(c) \/ Closed(c) \/ CheckPort(c) \/ WaitLocal(c) \/ WaitUrl(c) \/ WaitPublic(c) \/ Cleanup(c)
  <2>1. Moves(c) /\ UNCHANGED <<state, proc, history>>
    BY <1>1 DEF Gate, Closed, CheckPort, WaitLocal, WaitUrl, WaitPublic, Cleanup
  <2>. QED BY <2>1, MoveKeepsTypes DEF history
<1>2. ASSUME Reconsider(c), UNCHANGED <<state, proc, history>>
      PROVE  TypeOK'
  <2>1. CASE StopOwned(c, "port") \/ Proceed(c, "port")
    BY <1>2, <2>1, MoveKeepsTypes DEF history
  <2>2. CASE /\ mine' = [mine EXCEPT ![c] = [proxy |-> state.proxy, tunnel |-> state.tunnel]]
             /\ Goto(c, "recheck")
             /\ UNCHANGED <<mode, loaded, next>>
    BY <1>2, <2>2, AdoptKeepsTypes
  <2>. QED BY <1>2, <2>1, <2>2 DEF Reconsider
<1>3. CASE Look(c)
  <2>1. UNCHANGED <<state, proc, history>>
    BY <1>3 DEF Look
  <2>2. CASE Exit(c)
    BY <2>1, <2>2, MoveKeepsTypes DEF history
  <2>3. CASE /\ mine' = [mine EXCEPT ![c] = [proxy |-> state.proxy, tunnel |-> None]]
             /\ Goto(c, "reuse")
             /\ UNCHANGED <<mode, loaded, next>>
    BY <2>1, <2>3, AdoptKeepsTypes
  <2>. QED BY <1>2, <1>3, <2>1, <2>2, <2>3 DEF Look
<1>4. CASE Relook(c)
  BY <1>2, <1>4 DEF Relook
<1>5. CASE Reuse(c) \/ Recheck(c)
  <2>1. Moves(c) /\ UNCHANGED <<state, proc, history>>
    BY <1>5 DEF Reuse, Recheck
  <2>. QED BY <2>1, MoveKeepsTypes DEF history
<1>6. CASE SpawnProxy(c)
  <2>1. CASE Exit(c) /\ UNCHANGED proc
    BY <1>6, <2>1, MoveKeepsTypes DEF SpawnProxy, history
  <2>2. CASE Launched(c, "proxy", Nothing) /\ Goto(c, "local")
    <3>1. PICK p \in Procs : /\ Born(c, "proxy", p)
                             /\ mine' = [mine EXCEPT ![c] = [Nothing EXCEPT !["proxy"] = p]]
      BY <2>2, LaunchedBorn
    <3>. QED BY <1>6, <2>2, <3>1, LaunchKeepsTypes DEF SpawnProxy, Launched
  <2>. QED BY <1>6, <2>1, <2>2 DEF SpawnProxy
<1>7. CASE SpawnTunnel(c)
  <2>1. CASE Proceed(c, "fail") /\ UNCHANGED proc
    BY <1>7, <2>1, MoveKeepsTypes DEF SpawnTunnel, history
  <2>2. CASE Launched(c, "tunnel", mine[c]) /\ Goto(c, "url")
    <3>1. PICK p \in Procs : /\ Born(c, "tunnel", p)
                             /\ mine' = [mine EXCEPT ![c] = [mine[c] EXCEPT !["tunnel"] = p]]
      BY <2>2, LaunchedBorn
    <3>. QED BY <1>7, <2>2, <3>1, LaunchKeepsTypes DEF SpawnTunnel, Launched
  <2>. QED BY <1>7, <2>1, <2>2 DEF SpawnTunnel
<1>8. CASE Begin(c)
  <2>1. Moves(c) /\ UNCHANGED <<proc, history>>
    BY <1>8 DEF Begin
  <2>2. CASE UNCHANGED state
    BY <2>1, <2>2, MoveKeepsTypes DEF history
  <2>3. CASE state' = [status |-> "starting", mode |-> mode[c],
                       proxy |-> mine[c].proxy, tunnel |-> mine[c].tunnel]
    BY <1>t, <2>1, <2>3, RecordKeepsTypes DEF Shape
  <2>. QED BY <1>8, <2>2, <2>3 DEF Begin
<1>9. CASE Mark(c)
  <2>1. Moves(c) /\ UNCHANGED <<proc, history>>
    BY <1>9 DEF Mark
  <2>2. CASE UNCHANGED state
    BY <2>1, <2>2, MoveKeepsTypes DEF history
  <2>3. CASE state' = [state EXCEPT !.status = IF mode[c] = "proxy" THEN "proxy-ready" ELSE "ready"]
    BY <1>t, <2>1, <2>3, RecordKeepsTypes DEF Shape
  <2>. QED BY <1>9, <2>2, <2>3 DEF Mark
<1>10. CASE KillOwn(c) \/ Term(c)
  BY <1>10, TerminateKeepsTypes DEF KillOwn, Term, Live
<1>11. CASE Load(c)
  <2>1. Shape'
    BY <1>t, <1>11 DEF Load, Shape, Goto, Records, history
  <2>2. RolesKept'
    BY <1>t, <1>11 DEF Load, RolesKept, Shape
  <2>. QED BY <2>1, <2>2, TypeParts
<1>12. CASE Write(c)
  <2>1. next[c] \in NextStops
    BY <1>t DEF Shape
  <2>2. Moves(c) /\ UNCHANGED <<proc, history>>
    BY <1>12, <2>1 DEF Write
  <2>. QED BY <1>12, <2>2, RecordKeepsTypes DEF Write, Stopped, Modelled
<1>. QED BY <1>1, <1>3, <1>4, <1>5, <1>6, <1>7, <1>8, <1>9, <1>10, <1>11, <1>12 DEF Step

LEMMA TypeStep == TypeOK /\ [Next]_vars => TypeOK'
<1>. SUFFICES ASSUME TypeOK, [Next]_vars
              PROVE  TypeOK'
  OBVIOUS
<1>t. Shape /\ RolesKept
  BY TypeParts
<1>1. ASSUME NEW c \in Runs, Invoke(c)
      PROVE  TypeOK'
  <2>1. Shape'
    <3>1. runs' \in 0..MaxRuns /\ overlap' \in BOOLEAN
      BY <1>t, <1>1, ExposureAssumption DEF Invoke, Shape, ExposureAssumption
    <3>2. Locals' /\ UNCHANGED <<mine, loaded>>
      BY <1>t, <1>1, ExposureAssumption DEF Invoke, Shape, Locals, Goto, StopOwned, PcStates, NextStops,
         ExposureAssumption, Modelled
    <3>. QED BY <1>t, <1>1, <3>1, <3>2 DEF Invoke, Shape, Locals, NextStops
  <2>2. RolesKept'
    BY <1>t, <1>1 DEF Invoke, RolesKept, StopOwned
  <2>. QED BY <2>1, <2>2, TypeParts
<1>2. ASSUME NEW c \in Runs, Interrupt(c) \/ Abandon(c)
      PROVE  TypeOK'
  <2>1. Moves(c)
    BY <1>2 DEF Interrupt, Abandon, Moves, PcStates
  <2>2. UNCHANGED <<state, proc, runs, overlap>> /\ abandoned' \in {abandoned, TRUE}
    BY <1>2 DEF Interrupt, Abandon, history
  <2>. QED BY <2>1, <2>2, MoveKeepsTypes
<1>3. ASSUME NEW p \in Procs, Launch(p) \/ Fail(p)
      PROVE  TypeOK'
  <2>1. /\ UNCHANGED <<pc, mode, mine, loaded, next, state, history>>
        /\ \E l \in {"dead", "up"} : proc' = [proc EXCEPT ![p].life = l]
    BY <1>3 DEF Launch, Fail
  <2>2. Shape'
    BY <1>t, <2>1 DEF Shape, history
  <2>3. RolesKept'
    BY <1>t, <2>1 DEF Shape, RolesKept
  <2>. QED BY <2>2, <2>3, TypeParts
<1>4. CASE UNCHANGED vars
  BY <1>t, <1>4, TypeParts DEF vars, history, Shape, RolesKept
<1>. QED BY <1>1, <1>2, <1>3, <1>4, StepTypes DEF Next

-----------------------------------------------------------------------------
(* Runs that come one after the other. *)

\* A run moves nobody but itself.
LEMMA StepFrame ==
  ASSUME TypeOK, NEW c \in Runs, Step(c) \/ Interrupt(c)
  PROVE  /\ pc[c] # "idle" /\ UNCHANGED history
         /\ \A d \in Runs \ {c} : pc'[d] = pc[d] /\ mine'[d] = mine[d] /\ next'[d] = next[d]
<1>t. Shape
  BY TypeParts
<1>. USE DEF Exit, Proceed, StopOwned, Goto, Keep, Starting, Shape
<1>1. CASE Gate(c) \/ Closed(c) \/ CheckPort(c) \/ WaitLocal(c) \/ WaitUrl(c) \/ WaitPublic(c)
           \/ Cleanup(c) \/ Interrupt(c)
  BY <1>t, <1>1 DEF Gate, Closed, CheckPort, WaitLocal, WaitUrl, WaitPublic, Cleanup, Interrupt
<1>2. CASE Look(c) \/ Reuse(c) \/ Relook(c) \/ Recheck(c)
  BY <1>t, <1>2 DEF Look, Reuse, Relook, Recheck, Reconsider
<1>3. CASE SpawnProxy(c) \/ SpawnTunnel(c)
  BY <1>t, <1>3 DEF SpawnProxy, SpawnTunnel, Launched
<1>4. CASE Begin(c) \/ Mark(c) \/ KillOwn(c)
  BY <1>t, <1>4 DEF Begin, Mark, KillOwn
<1>5. CASE Load(c) \/ Term(c) \/ Write(c)
  BY <1>t, <1>5 DEF Load, Term, Write
<1>. QED BY <1>1, <1>2, <1>3, <1>4, <1>5 DEF Step

LEMMA StepOneRun ==
  ASSUME TypeOK, OneRun, NEW c \in Runs, Step(c) \/ Interrupt(c)
  PROVE  OneRun'
BY StepFrame DEF OneRun, history

LEMMA StepEmptyRecord ==
  ASSUME TypeOK, EmptyRecord, NEW c \in Runs, Step(c)
  PROVE  EmptyRecord'
<1>. USE DEF EmptyRecord, OnRecord
<1>t. Shape
  BY TypeParts
<1>1. CASE UNCHANGED state
  BY <1>1
<1>2. CASE state'.status \notin {"none", "stopped"} \/ state' = Stopped
  BY <1>2 DEF Stopped
<1>3. CASE Begin(c) \/ Mark(c)
  BY <1>1, <1>2, <1>3, <1>t DEF Begin, Mark, Shape
<1>5. CASE Load(c) \/ Write(c)
  BY <1>2, <1>5, <1>t DEF Load, Write, Shape
<1>4. CASE Gate(c) \/ Closed(c) \/ CheckPort(c) \/ WaitLocal(c) \/ WaitUrl(c) \/ WaitPublic(c)
           \/ Cleanup(c) \/ Look(c) \/ Reuse(c) \/ Relook(c) \/ Recheck(c) \/ SpawnProxy(c)
           \/ SpawnTunnel(c) \/ KillOwn(c) \/ Term(c)
  BY <1>1, <1>4 DEF Gate, Closed, CheckPort, WaitLocal, WaitUrl, WaitPublic, Cleanup, Look, Reuse,
     Relook, Recheck, SpawnProxy, SpawnTunnel, KillOwn, Term
<1>. QED BY <1>3, <1>4, <1>5 DEF Step

LEMMA StepReturning ==
  ASSUME TypeOK, Returning, NEW c \in Runs, Step(c) \/ Interrupt(c)
  PROVE  Returning'
<1>t. Shape
  BY TypeParts
<1>1. SUFFICES next'[c] = "killown" => pc'[c] \in Stopping \cup {"killown"}
  BY StepFrame DEF Returning
<1>. USE DEF Exit, Proceed, StopOwned, Goto, Keep, Starting, Shape, Returning, Stopping
<1>2. CASE Gate(c) \/ Closed(c) \/ CheckPort(c) \/ WaitLocal(c) \/ WaitUrl(c) \/ WaitPublic(c)
           \/ Cleanup(c) \/ Interrupt(c)
  BY <1>t, <1>2 DEF Gate, Closed, CheckPort, WaitLocal, WaitUrl, WaitPublic, Cleanup, Interrupt
<1>3. CASE Look(c) \/ Reuse(c) \/ Relook(c) \/ Recheck(c)
  BY <1>t, <1>3 DEF Look, Reuse, Relook, Recheck, Reconsider
<1>4. CASE SpawnProxy(c) \/ SpawnTunnel(c)
  BY <1>t, <1>4 DEF SpawnProxy, SpawnTunnel, Launched
<1>5. CASE Begin(c) \/ Mark(c) \/ KillOwn(c)
  BY <1>t, <1>5 DEF Begin, Mark, KillOwn
<1>6. CASE Load(c) \/ Term(c) \/ Write(c)
  BY <1>t, <1>6 DEF Load, Term, Write
<1>. QED BY <1>2, <1>3, <1>4, <1>5, <1>6 DEF Step

-----------------------------------------------------------------------------
(* Whose processes a clean-up terminates. *)

LEMMA StepCleanup ==
  ASSUME TypeOK, Returning, CleanupOfOwn, NEW c \in Runs, Step(c) \/ Interrupt(c)
  PROVE  CleanupOfOwn'
<1>t. Shape /\ RolesKept
  BY TypeParts
<1>a. \A p \in Procs : proc[p].role # "none" => proc'[p].by = proc[p].by
  <2>1. CASE UNCHANGED proc
    BY <2>1
  <2>2. CASE KillOwn(c) \/ Term(c)
    BY <1>t, <2>2, TerminatedEffect DEF KillOwn, Term, Live
  <2>3. CASE SpawnProxy(c) \/ SpawnTunnel(c)
    BY <1>t, <2>3 DEF SpawnProxy, SpawnTunnel, Launched, Unborn, Shape
  <2>. QED BY <2>1, <2>2, <2>3 DEF Step, Gate, Closed, CheckPort, WaitLocal, WaitUrl, WaitPublic, Cleanup,
         Interrupt, Look, Reuse, Relook, Recheck, Begin, Mark, Load, Write
<1>b. \A d \in Runs : \A p \in Own(d) \ {None} : p \in Procs /\ proc[p].role # "none"
  BY <1>t DEF Own, RolesKept, Shape, Records, ProcOrNone
<1>c. \A d \in Runs \ {c} : AtLaunch(d)' => \A p \in Own(d)' \ {None} : proc'[p].by = d
  BY <1>a, <1>b, StepFrame DEF CleanupOfOwn, AtLaunch, Own
<1>d. ASSUME AtLaunch(c)' PROVE \A p \in Own(c)' \ {None} : proc'[p].by = c
  <2>1. CASE AtLaunch(c) /\ mine'[c] = mine[c]
    BY <1>a, <1>b, <2>1 DEF CleanupOfOwn, Own
  <2>2. CASE SpawnProxy(c) /\ pc'[c] = "local"
    <3>1. PICK p \in Procs : /\ Born(c, "proxy", p)
                             /\ mine' = [mine EXCEPT ![c] = [Nothing EXCEPT !["proxy"] = p]]
      BY <1>t, <2>2, LaunchedBorn DEF SpawnProxy, Exit, Goto, Shape
    <3>. QED BY <1>t, <3>1 DEF Born, Own, Nothing, Shape
  <2>3. CASE SpawnTunnel(c) /\ pc'[c] = "url"
    <3>1. PICK p \in Procs : /\ Born(c, "tunnel", p)
                             /\ mine' = [mine EXCEPT ![c] = [mine[c] EXCEPT !["tunnel"] = p]]
      BY <1>t, <2>3, LaunchedBorn DEF SpawnTunnel, Proceed, Goto, Shape
    <3>2. mine'[c].proxy = mine[c].proxy /\ mine'[c].tunnel = p
      BY <1>t, <3>1 DEF Shape, Records
    <3>3. proc'[p].by = c
      BY <1>t, <3>1 DEF Born, Shape
    <3>4. AtLaunch(c)
      BY <2>3 DEF SpawnTunnel, AtLaunch, Starting
    <3>5. mine[c].proxy # None => proc'[mine[c].proxy].by = c
      BY <1>a, <1>b, <3>4 DEF CleanupOfOwn, Own
    <3>. QED BY <3>2, <3>3, <3>5 DEF Own
  <2>4. (AtLaunch(c) /\ mine'[c] = mine[c]) \/ (SpawnProxy(c) /\ pc'[c] = "local")
        \/ (SpawnTunnel(c) /\ pc'[c] = "url")
    <3>. USE DEF AtLaunch, Starting, Exit, Proceed, StopOwned, Goto, Keep, Shape
    <3>1. CASE Gate(c) \/ Closed(c) \/ CheckPort(c) \/ WaitLocal(c) \/ WaitUrl(c) \/ WaitPublic(c)
               \/ Cleanup(c) \/ Interrupt(c)
      BY <1>t, <1>d, <3>1 DEF Gate, Closed, CheckPort, WaitLocal, WaitUrl, WaitPublic, Cleanup, Interrupt
    <3>2. CASE Look(c) \/ Reuse(c) \/ Relook(c) \/ Recheck(c)
      BY <1>t, <1>d, <3>2 DEF Look, Reuse, Relook, Recheck, Reconsider, Returning, Stopping
    <3>3. CASE SpawnProxy(c) \/ SpawnTunnel(c)
      BY <1>t, <1>d, <3>3 DEF SpawnProxy, SpawnTunnel
    <3>4. CASE Begin(c) \/ Mark(c) \/ KillOwn(c)
      BY <1>t, <1>d, <3>4 DEF Begin, Mark, KillOwn
    <3>5. CASE Load(c) \/ Term(c) \/ Write(c)
      BY <1>t, <1>d, <3>5 DEF Load, Term, Write
    <3>. QED BY <3>1, <3>2, <3>3, <3>4, <3>5 DEF Step
  <2>. QED BY <2>1, <2>2, <2>3, <2>4
<1>. QED BY <1>c, <1>d DEF CleanupOfOwn, Own

-----------------------------------------------------------------------------
(* Nothing that is alive is lost. *)

\* A process that is terminated is not alive, and nothing else changes.
LEMMA TerminatedLive ==
  ASSUME TypeOK, NEW ps \in SUBSET Procs, Terminated(ps)
  PROVE  Live' = Live \ ps
<1>1. Shape
  BY TypeParts
<1>. QED BY <1>1, TerminatedEffect, ExposureAssumption DEF Live, Running, ExposureAssumption

LEMMA BornLive ==
  ASSUME TypeOK, NEW c \in Runs, NEW role \in {"proxy", "tunnel"}, NEW p \in Procs, Born(c, role, p)
  PROVE  Live' = Live \cup {p}
<1>1. Shape
  BY TypeParts
<1>. QED BY <1>1, ExposureAssumption DEF Live, Running, Born, Shape, ExposureAssumption

LEMMA StepTracked ==
  ASSUME ExposureInv, NEW c \in Runs, Step(c) \/ Interrupt(c)
  PROVE  Tracked'
<1>i. TypeOK /\ EmptyRecord /\ OneRun /\ Tracked /\ Returning
  BY DEF ExposureInv
<1>t. Shape /\ RolesKept
  BY <1>i, TypeParts
<1>. SUFFICES ASSUME ~overlap', ~abandoned'
              PROVE  (/\ \A d \in Runs :
                           /\ pc[d] # "idle" => Known(d)
                           /\ pc[d] \in {"local", "tunnel"} => mine[d].tunnel = None
                           /\ pc[d] \in {"public", "mark"} =>
                                state.proxy = mine[d].proxy /\ state.tunnel = mine[d].tunnel
                      /\ (\A d \in Runs : pc[d] = "idle") => Live \subseteq OnRecord)'
  BY DEF Tracked
<1>f. /\ pc[c] # "idle" /\ ~overlap /\ ~abandoned
      /\ \A d \in Runs \ {c} : pc'[d] = pc[d]
  BY <1>i, StepFrame DEF history
<1>o. \A d \in Runs \ {c} : pc[d] = "idle"
  BY <1>i, <1>f DEF OneRun
<1>k. /\ Known(c)
      /\ pc[c] \in {"local", "tunnel"} => mine[c].tunnel = None
      /\ pc[c] \in {"public", "mark"} => state.proxy = mine[c].proxy /\ state.tunnel = mine[c].tunnel
  BY <1>i, <1>f DEF Tracked
<1>. SUFFICES (/\ pc[c] # "idle" => Known(c)
               /\ pc[c] \in {"local", "tunnel"} => mine[c].tunnel = None
               /\ pc[c] \in {"public", "mark"} => state.proxy = mine[c].proxy /\ state.tunnel = mine[c].tunnel
               /\ pc[c] = "idle" => Live \subseteq OnRecord)'
  BY <1>f, <1>o
<1>e. state.status \in {"none", "stopped"} => Live \cap OnRecord = {}
  BY <1>i DEF EmptyRecord, Live, Running
<1>. USE <1>k, <1>t DEF Known, OnRecord, Own, AllDown, Launching, Starting, Stopping, Shape, PcStates,
         Exit, Proceed, StopOwned, Goto, Keep
<1>a. ASSUME NEW role, NEW known, Launched(c, role, known)
      PROVE  ~UNCHANGED proc
  <2>1. PICK p \in Procs : Born(c, role, p)
    BY <1>a, LaunchedBorn
  <2>. QED BY <2>1 DEF Born, Unborn
<1>1. CASE UNCHANGED proc /\ ~KillOwn(c) /\ ~Term(c)
  <2>l. Live' = Live
    BY <1>1 DEF Live, Running
  <2>1. CASE Gate(c) \/ Closed(c) \/ CheckPort(c)
    BY <1>e, <2>l, <2>1 DEF Gate, Closed, CheckPort
  <2>2. CASE WaitLocal(c) \/ WaitUrl(c) \/ WaitPublic(c) \/ Cleanup(c) \/ Interrupt(c)
    BY <1>e, <2>l, <2>2 DEF WaitLocal, WaitUrl, WaitPublic, Cleanup, Interrupt
  <2>3. CASE Look(c)
    BY <1>e, <2>l, <2>3 DEF Look, Reconsider, Status
  <2>4. CASE Reuse(c) \/ Relook(c) \/ Recheck(c)
    BY <1>e, <2>l, <2>4 DEF Reuse, Relook, Recheck, Reconsider
  <2>5. CASE Begin(c)
    BY <2>l, <2>5 DEF Begin
  <2>6. CASE Mark(c)
    BY <2>l, <2>6 DEF Mark
  <2>7. CASE Load(c)
    <3>1. /\ pc[c] = "load" /\ pc'[c] = "term" /\ next' = next /\ mine' = mine
          /\ loaded'[c].proxy = state.proxy /\ loaded'[c].tunnel = state.tunnel
          /\ state'.proxy = state.proxy /\ state'.tunnel = state.tunnel
      BY <2>7 DEF Load
    <3>. QED BY <2>l, <3>1
  <2>8. CASE Write(c)
    <3>1. CASE next[c] = "killown"
      BY <2>l, <2>8, <3>1 DEF Write
    <3>2. CASE next[c] # "killown"
      <4>1. Live = {}
        BY <2>8, <3>2 DEF Write
      <4>. QED BY <2>l, <2>8, <3>2, <4>1 DEF Write
    <3>. QED BY <3>1, <3>2
  <2>9. CASE SpawnProxy(c) /\ Exit(c)
    <3>1. pc'[c] = "idle" /\ Live = {}
      BY <2>9 DEF SpawnProxy
    <3>. QED BY <2>l, <3>1
  <2>10. CASE SpawnTunnel(c) /\ Proceed(c, "fail")
    BY <2>l, <2>10 DEF SpawnTunnel
  <2>. QED BY <1>1, <1>a, <2>1, <2>2, <2>3, <2>4, <2>5, <2>6, <2>7, <2>8, <2>9, <2>10 DEF Step, SpawnProxy, SpawnTunnel
<1>2. CASE SpawnProxy(c) /\ Launched(c, "proxy", Nothing) /\ Goto(c, "local")
  <2>1. PICK p \in Procs : /\ Born(c, "proxy", p)
                           /\ mine' = [mine EXCEPT ![c] = [Nothing EXCEPT !["proxy"] = p]]
    BY <1>2, LaunchedBorn
  <2>2. Live' = Live \cup {p}
    BY <1>i, <2>1, BornLive
  <2>. QED BY <1>2, <2>1, <2>2 DEF SpawnProxy, Nothing
<1>3. CASE SpawnTunnel(c) /\ Launched(c, "tunnel", mine[c]) /\ Goto(c, "url")
  <2>1. PICK p \in Procs : /\ Born(c, "tunnel", p)
                           /\ mine' = [mine EXCEPT ![c] = [mine[c] EXCEPT !["tunnel"] = p]]
    BY <1>3, LaunchedBorn
  <2>2. Live' = Live \cup {p}
    BY <1>i, <2>1, BornLive
  <2>3. mine'[c].proxy = mine[c].proxy /\ mine'[c].tunnel = p /\ pc'[c] = "url"
    BY <1>3, <2>1 DEF Records
  <2>4. None \notin Live
    BY DEF Live, Running
  <2>5. Live \subseteq {mine[c].proxy}
    BY <1>3, <2>4 DEF SpawnTunnel
  <2>. QED BY <2>2, <2>3, <2>5
<1>4. CASE KillOwn(c)
  <2>1. Live' = Live \ {p \in Live : p \in Own(c)}
    BY <1>i, <1>4, TerminatedLive DEF KillOwn, Live
  <2>. QED BY <1>4, <2>1 DEF KillOwn
<1>5. CASE Term(c)
  <2>1. Live' = Live \ {p \in Live : p \in {loaded[c].proxy, loaded[c].tunnel}}
    BY <1>i, <1>5, TerminatedLive DEF Term, Live
  <2>. QED BY <1>5, <2>1 DEF Term
<1>. QED BY <1>1, <1>2, <1>3, <1>4, <1>5 DEF Step, Gate, Closed, CheckPort, WaitLocal, WaitUrl, WaitPublic,
         Cleanup, Interrupt, Look, Reuse, Relook, Recheck, Begin, Mark, Load, Write, SpawnProxy, SpawnTunnel

\* A run that begins while another is at work makes the runs overlap; one that
\* is alone finds whatever is alive on record.
LEMMA InvokeInv ==
  ASSUME ExposureInv, NEW c \in Runs, Invoke(c)
  PROVE  ExposureInv'
<1>i. TypeOK /\ EmptyRecord /\ OneRun /\ Tracked /\ Returning /\ CleanupOfOwn
  BY DEF ExposureInv
<1>t. Shape
  BY <1>i, TypeParts
<1>1. TypeOK'
  BY <1>i, TypeStep DEF Next
<1>2. /\ pc[c] = "idle" /\ UNCHANGED <<state, proc, mine, abandoned>>
      /\ \A d \in Runs \ {c} : pc'[d] = pc[d] /\ next'[d] = next[d]
      /\ \/ pc'[c] = "gate" /\ next' = next
         \/ pc'[c] = "load" /\ next'[c] = "idle"
      /\ ~overlap' => ~overlap /\ \A d \in Runs \ {c} : pc[d] = "idle"
  BY <1>t DEF Invoke, Goto, StopOwned, Shape
<1>3. EmptyRecord' /\ OneRun' /\ Returning'
  BY <1>i, <1>2 DEF EmptyRecord, OnRecord, OneRun, Returning, Stopping
<1>4. CleanupOfOwn'
  BY <1>i, <1>2 DEF CleanupOfOwn, AtLaunch, Starting, Returning, Stopping
<1>5. Tracked'
  <2>1. Live' = Live /\ OnRecord' = OnRecord
    BY <1>2 DEF Live, Running, OnRecord
  <2>2. SUFFICES ASSUME ~overlap', ~abandoned'
                 PROVE  /\ Known(c)' /\ pc'[c] \notin {"local", "tunnel", "public", "mark", "idle"}
                        /\ \A d \in Runs \ {c} : pc'[d] = "idle"
    BY DEF Tracked
  <2>3. Live \subseteq OnRecord
    BY <1>i, <1>2, <2>2 DEF Tracked
  <2>4. Known(c)'
    BY <1>i, <1>2, <2>1, <2>3 DEF Known, AllDown, Launching, Starting, Stopping, Returning
  <2>. QED BY <1>2, <2>2, <2>4
<1>. QED BY <1>1, <1>3, <1>4, <1>5 DEF ExposureInv

\* After a run that was ended without its clean-up nothing is promised about
\* what is alive; what a clean-up terminates stays the run's own.
LEMMA AbandonInv ==
  ASSUME ExposureInv, NEW c \in Runs, Abandon(c)
  PROVE  ExposureInv'
<1>i. TypeOK /\ EmptyRecord /\ OneRun /\ Tracked /\ Returning /\ CleanupOfOwn
  BY DEF ExposureInv
<1>t. Shape
  BY <1>i, TypeParts
<1>1. TypeOK'
  BY <1>i, TypeStep DEF Next
<1>2. /\ UNCHANGED <<state, proc, overlap>> /\ abandoned'
      /\ pc'[c] = "idle" /\ next'[c] = "idle"
      /\ \A d \in Runs \ {c} : pc'[d] = pc[d] /\ next'[d] = next[d] /\ mine'[d] = mine[d]
  BY <1>t DEF Abandon, Exit, Goto, Shape
<1>3. EmptyRecord' /\ OneRun' /\ Returning' /\ Tracked'
  BY <1>i, <1>2 DEF EmptyRecord, OnRecord, OneRun, Returning, Tracked
<1>4. CleanupOfOwn'
  BY <1>i, <1>2 DEF CleanupOfOwn, AtLaunch, Starting
<1>. QED BY <1>1, <1>3, <1>4 DEF ExposureInv

\* By itself a process only goes on living or dies.
LEMMA ProcessInv ==
  ASSUME ExposureInv, NEW p \in Procs, Launch(p) \/ Fail(p)
  PROVE  ExposureInv'
<1>i. TypeOK /\ EmptyRecord /\ OneRun /\ Tracked /\ Returning /\ CleanupOfOwn
  BY DEF ExposureInv
<1>t. Shape /\ RolesKept
  BY <1>i, TypeParts
<1>1. TypeOK'
  BY <1>i, TypeStep DEF Next
<1>2. UNCHANGED <<pc, mode, mine, loaded, next, state, overlap, abandoned>>
  BY DEF Launch, Fail, history
<1>3. Live' \subseteq Live /\ \A q \in Procs : proc'[q].by = proc[q].by
  BY <1>t DEF Launch, Fail, Live, Running, Shape
<1>4. EmptyRecord' /\ OneRun' /\ Returning'
  BY <1>i, <1>2 DEF EmptyRecord, OnRecord, OneRun, Returning
<1>5. CleanupOfOwn'
  BY <1>i, <1>t, <1>2, <1>3 DEF CleanupOfOwn, AtLaunch, Shape, Records, ProcOrNone
<1>6. Tracked'
  <2>1. \A c \in Runs : Known(c) => Known(c)'
    BY <1>2, <1>3 DEF Known, OnRecord, Own
  <2>. QED BY <1>i, <1>2, <1>3, <2>1 DEF Tracked, OnRecord
<1>. QED BY <1>1, <1>4, <1>5, <1>6 DEF ExposureInv

LEMMA StepInv ==
  ASSUME ExposureInv, NEW c \in Runs, Step(c) \/ Interrupt(c)
  PROVE  ExposureInv'
<1>i. TypeOK /\ EmptyRecord /\ OneRun /\ Returning /\ CleanupOfOwn
  BY DEF ExposureInv
<1>1. TypeOK'
  BY <1>i, TypeStep DEF Next
<1>2. EmptyRecord'
  BY <1>i, StepEmptyRecord DEF Interrupt, EmptyRecord, OnRecord
<1>. QED BY <1>i, <1>1, <1>2, StepOneRun, StepTracked, StepReturning, StepCleanup DEF ExposureInv

LEMMA ExposureInit == Init => ExposureInv
<1>. SUFFICES ASSUME Init
              PROVE  ExposureInv
  OBVIOUS
<1>1. Shape /\ RolesKept
  <2>1. /\ state = [status |-> "none", mode |-> "proxy", proxy |-> None, tunnel |-> None]
        /\ \A c \in Runs : mine[c] = [proxy |-> None, tunnel |-> None]
    BY DEF Init, Stopped, Nothing
  <2>2. RolesKept
    BY <2>1 DEF RolesKept
  <2>3. /\ pc \in [Runs -> PcStates] /\ mode \in [Runs -> Modelled]
        /\ mine \in [Runs -> Records] /\ loaded \in [Runs -> Records]
        /\ next \in [Runs -> {"idle", "closed", "relook", "port", "killown"}]
    BY DEF Init, PcStates, Modelled, Records, ProcOrNone, Nothing
  <2>4. runs \in 0..MaxRuns /\ overlap \in BOOLEAN /\ abandoned \in BOOLEAN
    <3>1. MaxRuns \in Nat
      BY ExposureAssumption DEF ExposureAssumption
    <3>2. runs = 0 /\ overlap = FALSE /\ abandoned = FALSE
      BY DEF Init
    <3>3. runs \in 0..MaxRuns
      BY <3>1, <3>2
    <3>. QED BY <3>2, <3>3
  <2>5. proc \in [Procs -> [role : {"none", "proxy", "tunnel"},
                           life : {"unborn", "starting", "up", "doomed", "dead"},
                           by : Runs \cup {None}]]
    BY DEF Init, Unborn
  <2>. QED BY <2>1, <2>2, <2>3, <2>4, <2>5 DEF Shape, ProcOrNone, Modelled
<1>2. Live = {}
  BY DEF Init, Live, Running, Unborn
<1>3. EmptyRecord /\ OneRun /\ Returning /\ CleanupOfOwn
  BY DEF Init, EmptyRecord, OnRecord, OneRun, Returning, CleanupOfOwn, AtLaunch, Starting, Stopped
<1>4. Tracked
  BY <1>2 DEF Init, Tracked
<1>. QED BY <1>1, <1>3, <1>4, TypeParts DEF ExposureInv

LEMMA ExposureStep == ExposureInv /\ [Next]_vars => ExposureInv'
<1>1. ASSUME ExposureInv, UNCHANGED vars
      PROVE  ExposureInv'
  <2>1. TypeOK'
    BY <1>1, TypeStep DEF ExposureInv
  <2>. QED BY <1>1, <2>1 DEF ExposureInv, EmptyRecord, OnRecord, OneRun, Tracked, Returning, CleanupOfOwn,
       AtLaunch, Known, Live, Running, Own, vars, history
<1>. QED BY <1>1, InvokeInv, AbandonInv, ProcessInv, StepInv DEF Next

LEMMA ExposureInvariant == Spec => []ExposureInv
BY ExposureInit, ExposureStep, PTL DEF Spec

-----------------------------------------------------------------------------
(* Theorems. *)

\* Whatever runs overlap and however they end, what the state file, or a run,
\* has down as the gateway was launched as a gateway, and a tunnel as a tunnel.
THEOREM ExposureTypes == Spec => []TypeOK
<1>1. ExposureInv => TypeOK
  BY DEF ExposureInv
<1>. QED BY <1>1, ExposureInvariant, PTL

\* The clean-up of a start terminates, besides what is on record, processes of
\* its own (expose.sh 286-289), also when the runs overlap or one was abandoned.
THEOREM CleanupTerminatesOwn == Spec => []CleanupOfOwn
<1>1. ExposureInv => CleanupOfOwn
  BY DEF ExposureInv
<1>. QED BY <1>1, ExposureInvariant, PTL

\* Runs that do not overlap, and clean up, lose track of no gateway and of no
\* tunnel: each is in the state file or known to the run at work.
THEOREM IngressNeverLost == Spec => []IngressAccounted
<1>1. ExposureInv => IngressAccounted
  <2>1. SUFFICES ASSUME ExposureInv, ~overlap, ~abandoned, NEW p \in Live
                 PROVE  p \in OnRecord \/ \E c \in Runs : p \in Own(c)
    BY DEF IngressAccounted, OnRecord, Own
  <2>t. Shape
    BY <2>1, TypeParts DEF ExposureInv
  <2>2. CASE \A c \in Runs : pc[c] = "idle"
    BY <2>1, <2>2 DEF ExposureInv, Tracked
  <2>3. ASSUME NEW c \in Runs, pc[c] # "idle"
        PROVE  p \in OnRecord \/ p \in Own(c)
    <3>1. Known(c)
      BY <2>1, <2>3 DEF ExposureInv, Tracked
    <3>. QED BY <2>1, <2>3, <2>t, <3>1 DEF Known, AllDown, Launching, Starting, Stopping, Shape, PcStates
  <2>. QED BY <2>2, <2>3
<1>. QED BY <1>1, ExposureInvariant, PTL

\* A start that finds the backend unproven returns that error only after every
\* gateway and every tunnel is down (backend_gate, expose.sh 305-312).
THEOREM UnprovenBackendClosesIngress == Spec => []FailClosed
<1>1. ExposureInv => FailClosed
  <2>1. SUFFICES ASSUME ExposureInv, ~overlap, ~abandoned, NEW c \in Runs, pc[c] = "closed"
                 PROVE  Live = {}
    BY DEF FailClosed
  <2>2. Known(c)
    BY <2>1 DEF ExposureInv, Tracked
  <2>. QED BY <2>1, <2>2 DEF Known, AllDown, Launching, Starting, Stopping
<1>. QED BY <1>1, ExposureInvariant, PTL
=============================================================================
