---------------------------- MODULE ServerProofs ----------------------------
(***************************************************************************)
(* What the control lock, the state file and the identity of a process     *)
(* guarantee to any number of runs of serve.sh over any set of process ids *)
(* and ports: the backend that runs is the one on record, there is no      *)
(* other, and nothing else is signalled.  Of the lock no more is used than *)
(* that it excludes until two runs are at it at once.                      *)
(***************************************************************************)
EXTENDS Server, FiniteSetTheorems, TLAPS

\* A run at any other place has taken the lock.
Outside == {"idle", "lock"}

\* At these places a run works on the backend that the file has on record.
Recorded == {"wait", "failed", "kill", "ready", "stopping", "term"}

\* At these places no backend runs: a run has found that there is none, or has
\* ended it.
Down == {"prepare", "port", "spawn", "unmark"}

LockHeld == ~overlap => \A c \in Controllers : pc[c] \notin Outside => lock = c

OwnRecord ==
  ~overlap => \A c \in Controllers :
    pc[c] \in Recorded => child[c] = state.pid

\* Start times are never given twice, and only an empty record says stopped.
Births ==
  /\ state.status = "stopped" => state.pid = None
  /\ state.birth <= births
  /\ \A p \in Pids : proc[p].birth <= births

\* A record with the start time of a process that runs is of its server, not of
\* what was there before it was executed.
Identified ==
  ~misread =>
    /\ state.pid # None => state.image = "server"
    /\ \A p \in Live : state.pid = p /\ state.birth = proc[p].birth
                       => proc[p].stage \in {"loading", "serving"}

OnRecord(p) == state.pid = p /\ state.birth = proc[p].birth

AllFound ==
  ~died /\ ~misread /\ ~overlap =>
    /\ NoOrphan
    /\ \A c \in Controllers :
         /\ pc[c] \in Down => Live = {}
         /\ pc[c] = "begin" => Live \subseteq {child[c]}

\* The process that a run watches is not replaced by an unrelated one.
KnownChild ==
  ~QuickRecycle =>
    /\ ~misfired
    /\ \A c \in Controllers : child[c] # None => proc[child[c]].stage # "alien"

ServerInv ==
  /\ TypeOK /\ LockHeld /\ OwnRecord
  /\ Births /\ Identified /\ AllFound
  /\ KnownChild

-----------------------------------------------------------------------------
LocalTypes ==
  /\ pc \in [Controllers -> PcStates]
  /\ op \in [Controllers -> {"start", "stop"}]
  /\ port \in [Controllers -> Ports \cup {None}]
  /\ child \in [Controllers -> Pids \cup {None}]
  /\ seen \in [Controllers -> {"stopped", "stale", "starting", "ready", "degraded", "stopping"}]
  /\ lock \in Controllers \cup {None} /\ overlap \in BOOLEAN
  /\ \A c \in Controllers :
       pc[c] \in {"begin", "wait", "failed", "kill", "ready", "stopping", "term"} => child[c] # None

WorldTypes ==
  /\ state \in [status : {"stopped", "starting", "ready", "stopping"}, pid : Pids \cup {None},
                birth : Nat, image : {"none", "wrapper", "server"}, port : Ports \cup {None}]
  /\ proc \in [Pids -> [stage : Stages, birth : Nat, port : Ports \cup {None}]]
  /\ births \in Nat

HistoryTypes == runs \in Nat /\ {died, misread, misfired} \subseteq BOOLEAN

LEMMA TypeParts ==
  /\ TypeOK <=> LocalTypes /\ WorldTypes /\ HistoryTypes
  /\ TypeOK' <=> (LocalTypes /\ WorldTypes /\ HistoryTypes)'
BY DEF TypeOK, LocalTypes, WorldTypes, HistoryTypes

LEMMA ExitTypes == ASSUME LocalTypes, NEW c \in Controllers, Exit(c) PROVE LocalTypes'
BY DEF LocalTypes, Exit, Meet, Goto, Forget, PcStates

LEMMA ProceedTypes ==
  ASSUME LocalTypes, NEW c \in Controllers, NEW there \in PcStates, Proceed(c, there),
         there \in {"begin", "wait", "failed", "kill", "ready", "stopping", "term"} => child[c] # None
  PROVE  LocalTypes'
BY DEF LocalTypes, Proceed, Goto, control

LEMMA BecomeTypes ==
  ASSUME WorldTypes, NEW p \in Pids, NEW stage \in Stages, Become(p, stage),
         UNCHANGED <<state, births>>
  PROVE  WorldTypes'
BY DEF WorldTypes, Become, Free, Stages

LEMMA SignalTypes ==
  ASSUME HistoryTypes, NEW p \in Pids, Signal(p)
  PROVE  misfired' \in BOOLEAN
BY DEF Signal, HistoryTypes

LEMMA TerminateTypes ==
  ASSUME WorldTypes, HistoryTypes, NEW p \in Pids, Terminate(p) \/ TerminateChild(p),
         UNCHANGED <<state, births, runs, died, misread>>
  PROVE  WorldTypes' /\ HistoryTypes'
<1>1. WorldTypes'
  BY BecomeTypes DEF Terminate, TerminateChild, Stages
<1>2. HistoryTypes'
  BY SignalTypes DEF Terminate, TerminateChild, HistoryTypes
<1>. QED BY <1>1, <1>2

\* What a run does under the lock.
LEMMA StepTypes ==
  ASSUME TypeOK, NEW c \in Controllers, Step(c)
  PROVE  TypeOK'
<1>t. LocalTypes /\ WorldTypes /\ HistoryTypes
  BY TypeParts
<1>c. pc[c] \in {"begin", "wait", "failed", "kill", "ready", "stopping", "term"}
      => child[c] \in Pids
  BY <1>t DEF LocalTypes
<1>. USE DEF PcStates
<1>1. CASE AcquireLock(c)
  <2>1. UNCHANGED <<state, proc, births, history>>
    BY <1>1 DEF AcquireLock
  <2>2. LocalTypes'
    <3>1. CASE Goto(c, "idle") /\ Forget(c) /\ UNCHANGED lock
      BY <1>t, <1>1, <3>1 DEF AcquireLock, LocalTypes, Goto, Forget
    <3>2. CASE lock' = c /\ Goto(c, "look") /\ UNCHANGED <<op, port, child, seen>>
      BY <1>t, <1>1, <3>2 DEF AcquireLock, LocalTypes, Goto
    <3>. QED BY <1>1, <3>1, <3>2 DEF AcquireLock
  <2>. QED BY <1>t, <2>1, <2>2, TypeParts DEF WorldTypes, HistoryTypes, history
<1>2. CASE Look(c)
  <2>1. UNCHANGED <<state, proc, births, history>>
    BY <1>2 DEF Look
  <2>2. LocalTypes'
    <3>1. CASE Exit(c)
      BY <1>t, <3>1, ExitTypes
    <3>2. CASE Proceed(c, "clear") \/ Proceed(c, "prepare")
      BY <1>t, <3>2, ProceedTypes
    <3>3. CASE /\ seen' = [seen EXCEPT ![c] = Status]
               /\ Goto(c, "owner")
               /\ UNCHANGED <<control, op, port, child>>
      <4>1. Status \in {"stopped", "stale", "starting", "ready", "degraded", "stopping"}
        BY <1>t DEF Status, Owned, WorldTypes
      <4>. QED BY <1>t, <3>3, <4>1 DEF LocalTypes, Goto, control
    <3>. QED BY <1>2, <3>1, <3>2, <3>3 DEF Look
  <2>. QED BY <1>t, <2>1, <2>2, TypeParts DEF WorldTypes, HistoryTypes, history
<1>3. CASE ClearStale(c) \/ Prepare(c) \/ CheckPort(c) \/ Failed(c)
  <2>1. UNCHANGED <<proc, births, history>> /\ state' \in {state, NoState}
    BY <1>3 DEF ClearStale, Prepare, CheckPort, Failed
  <2>2. Exit(c) \/ Proceed(c, "prepare") \/ Proceed(c, "port") \/ Proceed(c, "spawn")
        \/ (pc[c] = "failed" /\ (Proceed(c, "kill") \/ Proceed(c, "unmark")))
    BY <1>3 DEF ClearStale, Prepare, CheckPort, Failed
  <2>3. LocalTypes'
    BY <1>t, <1>c, <2>2, ExitTypes, ProceedTypes, ServerAssumption DEF ServerAssumption
  <2>. QED BY <1>t, <2>1, <2>3, TypeParts DEF WorldTypes, HistoryTypes, history, NoState
<1>4. CASE Spawn(c)
  <2>1. UNCHANGED <<state, history>>
    BY <1>4 DEF Spawn
  <2>2. CASE Exit(c) /\ UNCHANGED <<proc, births>>
    BY <1>t, <2>1, <2>2, ExitTypes, TypeParts DEF WorldTypes, HistoryTypes, history
  <2>3. ASSUME NEW p \in Pids,
               proc' = [proc EXCEPT ![p] = [stage |-> "fork", birth |-> births + 1, port |-> port[c]]],
               child' = [child EXCEPT ![c] = p],
               births' = births + 1,
               Goto(c, "begin"),
               UNCHANGED <<control, op, port, seen>>
        PROVE  TypeOK'
    <3>1. LocalTypes'
      BY <1>t, <2>3, ServerAssumption DEF LocalTypes, Goto, control, ServerAssumption
    <3>2. WorldTypes'
      BY <1>t, <2>1, <2>3 DEF WorldTypes, LocalTypes, Stages
    <3>. QED BY <1>t, <2>1, <3>1, <3>2, TypeParts DEF HistoryTypes, history
  <2>. QED BY <1>4, <2>2, <2>3 DEF Spawn
<1>5. CASE Begin(c)
  <2>1. child[c] \in Pids
    BY <1>5, <1>c DEF Begin
  <2>2. CASE /\ Image(child[c]) \in {"server", "wrapper"}
             /\ state' = [status |-> "starting", pid |-> child[c], birth |-> proc[child[c]].birth,
                          image |-> Image(child[c]), port |-> port[c]]
             /\ misread' = (misread \/ Image(child[c]) = "wrapper")
             /\ Proceed(c, "wait")
             /\ UNCHANGED <<proc, misfired>>
    <3>1. LocalTypes'
      BY <1>t, <1>c, <2>1, <2>2, ProceedTypes, ServerAssumption DEF ServerAssumption
    <3>2. WorldTypes'
      BY <1>t, <1>5, <2>1, <2>2 DEF Begin, WorldTypes, LocalTypes
    <3>3. HistoryTypes'
      BY <1>t, <1>5, <2>2 DEF Begin, HistoryTypes
    <3>. QED BY <3>1, <3>2, <3>3, TypeParts
  <2>3. CASE TerminateChild(child[c]) /\ Exit(c) /\ UNCHANGED <<state, misread>>
    BY <1>t, <1>5, <2>1, <2>3, TerminateTypes, ExitTypes, TypeParts DEF Begin
  <2>. QED BY <1>5, <2>2, <2>3 DEF Begin
<1>6. CASE Wait(c)
  <2>1. UNCHANGED <<state, proc, births, history>> /\ child[c] # None
    BY <1>6, <1>c, ServerAssumption DEF Wait, ServerAssumption
  <2>2. LocalTypes'
    BY <1>t, <1>6, <2>1, ProceedTypes DEF Wait
  <2>. QED BY <1>t, <2>1, <2>2, TypeParts DEF WorldTypes, HistoryTypes, history
<1>7. CASE KillChild(c) \/ Term(c)
  <2>1. LocalTypes'
    BY <1>t, <1>7, ProceedTypes DEF KillChild, Term
  <2>. QED BY <1>t, <1>7, <1>c, <2>1, TerminateTypes, TypeParts DEF KillChild, Term
<1>8. CASE MarkReady(c) \/ MarkStopped(c)
  <2>1. LocalTypes'
    BY <1>t, <1>8, ExitTypes DEF MarkReady, MarkStopped
  <2>2. WorldTypes'
    BY <1>t, <1>8 DEF MarkReady, MarkStopped, WorldTypes, NoState
  <2>. QED BY <1>t, <1>8, <2>1, <2>2, TypeParts DEF MarkReady, MarkStopped, HistoryTypes, history
<1>9. CASE OwnedPid(c)
  <2>1. UNCHANGED <<state, proc, births, history>>
    BY <1>9 DEF OwnedPid
  <2>2. LocalTypes'
    <3>1. CASE Proceed(c, "clear") \/ Exit(c)
      BY <1>t, <3>1, ExitTypes, ProceedTypes
    <3>2. CASE /\ Owned
               /\ child' = [child EXCEPT ![c] = state.pid]
               /\ Goto(c, "stopping")
               /\ UNCHANGED <<control, op, port, seen>>
      BY <1>t, <3>2 DEF LocalTypes, WorldTypes, Goto, control, Owned
    <3>. QED BY <1>9, <3>1, <3>2 DEF OwnedPid
  <2>. QED BY <1>t, <2>1, <2>2, TypeParts DEF WorldTypes, HistoryTypes, history
<1>10. CASE MarkStopping(c)
  <2>1. child[c] # None
    BY <1>10, <1>c, ServerAssumption DEF MarkStopping, ServerAssumption
  <2>2. LocalTypes'
    BY <1>t, <1>10, <2>1, ExitTypes, ProceedTypes DEF MarkStopping
  <2>3. WorldTypes'
    BY <1>t, <1>10 DEF MarkStopping, WorldTypes
  <2>. QED BY <1>t, <1>10, <2>2, <2>3, TypeParts DEF MarkStopping, HistoryTypes, history
<1>11. CASE Release(c)
  <2>1. LocalTypes'
    BY <1>t, <1>11 DEF Release, LocalTypes, Goto
  <2>. QED BY <1>t, <1>11, <2>1, TypeParts DEF Release, WorldTypes, HistoryTypes, history
<1>. QED BY <1>1, <1>2, <1>3, <1>4, <1>5, <1>6, <1>7, <1>8, <1>9, <1>10, <1>11 DEF Step

LEMMA TypeStep == TypeOK /\ [Next]_vars => TypeOK'
<1>. SUFFICES ASSUME TypeOK, [Next]_vars
              PROVE  TypeOK'
  OBVIOUS
<1>t. LocalTypes /\ WorldTypes /\ HistoryTypes
  BY TypeParts
<1>1. ASSUME NEW c \in Controllers, Invoke(c)
      PROVE  TypeOK'
  <2>1. LocalTypes'
    BY <1>t, <1>1 DEF Invoke, Meet, LocalTypes, Goto, PcStates
  <2>. QED BY <1>t, <1>1, <2>1, TypeParts DEF Invoke, WorldTypes, HistoryTypes
<1>2. ASSUME NEW c \in Controllers, Die(c)
      PROVE  TypeOK'
  <2>1. LocalTypes'
    BY <1>t, <1>2, ExitTypes DEF Die, LocalTypes, Goto, Forget, PcStates
  <2>. QED BY <1>t, <1>2, <2>1, TypeParts DEF Die, WorldTypes, HistoryTypes
<1>3. ASSUME NEW p \in Pids, Launch(p) \/ Fail(p)
      PROVE  TypeOK'
  <2>1. WorldTypes'
    BY <1>t, <1>3, BecomeTypes DEF Launch, Fail, Stages
  <2>. QED BY <1>t, <1>3, <2>1, TypeParts DEF Launch, Fail, locals, control, history, LocalTypes, HistoryTypes
<1>4. ASSUME NEW p \in Pids, Alien(p)
      PROVE  TypeOK'
  <2>1. WorldTypes'
    <3>1. CASE Become(p, "free") /\ UNCHANGED births
      BY <1>t, <1>4, <3>1, BecomeTypes DEF Alien, Stages
    <3>2. CASE /\ proc' = [proc EXCEPT ![p] = [stage |-> "alien", birth |-> births + 1, port |-> None]]
               /\ births' = births + 1
      BY <1>t, <1>4, <3>2 DEF Alien, WorldTypes, Stages
    <3>. QED BY <1>4, <3>1, <3>2 DEF Alien
  <2>. QED BY <1>t, <1>4, <2>1, TypeParts DEF Alien, locals, control, history, LocalTypes, HistoryTypes
<1>5. CASE UNCHANGED vars
  BY <1>t, <1>5, TypeParts DEF vars, locals, control, history, LocalTypes, WorldTypes, HistoryTypes
<1>. QED BY <1>1, <1>2, <1>3, <1>4, <1>5, StepTypes DEF Next

-----------------------------------------------------------------------------
(* The lock, and the record that its holder works on.                        *)

LEMMA HolderAlone ==
  ASSUME TypeOK, LockHeld, ~overlap, NEW c \in Controllers, pc[c] \notin Outside
  PROVE  \A d \in Controllers \ {c} : pc[d] \in Outside
BY DEF LockHeld

\* A run moves nobody but itself, and it touches no more than its own place
\* unless it is inside the lock.
LEMMA StepFrame ==
  ASSUME TypeOK, NEW c \in Controllers, Step(c)
  PROVE  /\ \A d \in Controllers \ {c} : pc'[d] = pc[d] /\ child'[d] = child[d]
         /\ UNCHANGED died
         /\ overlap => overlap'
         /\ \/ pc[c] \notin Outside
            \/ AcquireLock(c) /\ UNCHANGED <<state, proc, births, misread, misfired>>
<1>. USE DEF TypeOK, Outside, Exit, Meet, Proceed, Goto, Forget, control, history
<1>1. CASE AcquireLock(c) \/ Look(c) \/ ClearStale(c) \/ Prepare(c) \/ CheckPort(c) \/ Spawn(c)
  BY <1>1 DEF AcquireLock, Look, ClearStale, Prepare, CheckPort, Spawn
<1>2. CASE Begin(c) \/ Wait(c) \/ Failed(c) \/ KillChild(c) \/ MarkReady(c)
  BY <1>2 DEF Begin, Wait, Failed, KillChild, MarkReady
<1>3. CASE OwnedPid(c) \/ MarkStopping(c) \/ Term(c) \/ MarkStopped(c) \/ Release(c)
  BY <1>3 DEF OwnedPid, MarkStopping, Term, MarkStopped, Release
<1>. QED BY <1>1, <1>2, <1>3 DEF Step

LEMMA StepLock ==
  ASSUME TypeOK, LockHeld, NEW c \in Controllers, Step(c)
  PROVE  LockHeld'
<1>. SUFFICES ASSUME ~overlap'
              PROVE  (\A d \in Controllers : pc[d] \notin Outside => lock = d)'
  BY DEF LockHeld
<1>1. ~overlap /\ \A d \in Controllers \ {c} : pc'[d] = pc[d]
  BY StepFrame
<1>2. CASE AcquireLock(c)
  <2>1. CASE Goto(c, "idle") /\ UNCHANGED lock
    BY <1>1, <2>1 DEF Goto, LockHeld, TypeOK, Outside
  <2>2. CASE LockFree(c) /\ lock' = c
    BY <1>1, <2>2 DEF LockFree, LockHeld, Outside
  <2>. QED BY <1>1, <1>2, <2>1, <2>2 DEF AcquireLock
<1>3. CASE pc[c] \notin Outside
  <2>1. \A d \in Controllers \ {c} : pc[d] \in Outside
    BY <1>1, <1>3, HolderAlone
  <2>2. pc'[c] \in Outside \/ lock' = lock
    <3>. USE DEF TypeOK, Outside, Exit, Proceed, Goto, control
    <3>1. CASE Look(c) \/ ClearStale(c) \/ Prepare(c) \/ CheckPort(c) \/ Spawn(c)
      BY <3>1 DEF Look, ClearStale, Prepare, CheckPort, Spawn
    <3>2. CASE Begin(c) \/ Wait(c) \/ Failed(c) \/ KillChild(c) \/ MarkReady(c)
      BY <3>2 DEF Begin, Wait, Failed, KillChild, MarkReady
    <3>3. CASE OwnedPid(c) \/ MarkStopping(c) \/ Term(c) \/ MarkStopped(c) \/ Release(c)
      BY <3>3 DEF OwnedPid, MarkStopping, Term, MarkStopped, Release
    <3>. QED BY <1>3, <3>1, <3>2, <3>3 DEF Step, AcquireLock
  <2>3. lock = c
    BY <1>1, <1>3 DEF LockHeld
  <2>. QED BY <1>1, <2>1, <2>2, <2>3
<1>. QED BY <1>2, <1>3, StepFrame

LEMMA StepOwnRecord ==
  ASSUME TypeOK, LockHeld, OwnRecord, NEW c \in Controllers, Step(c)
  PROVE  OwnRecord'
<1>. SUFFICES ASSUME ~overlap'
              PROVE  (\A d \in Controllers : pc[d] \in Recorded => child[d] = state.pid)'
  BY DEF OwnRecord
<1>1. ~overlap /\ \A d \in Controllers \ {c} : pc'[d] = pc[d] /\ child'[d] = child[d]
  BY StepFrame
<1>2. \A d \in Controllers \ {c} : pc[d] \in Outside \/ UNCHANGED state
  BY <1>1, StepFrame, HolderAlone
<1>3. pc'[c] \in Recorded => child'[c] = state'.pid
  <2>. USE <1>1 DEF TypeOK, OwnRecord, Recorded, Exit, Proceed, Goto, Forget
  <2>1. CASE AcquireLock(c) \/ Look(c) \/ ClearStale(c) \/ Prepare(c) \/ CheckPort(c) \/ Spawn(c)
    BY <2>1 DEF AcquireLock, Look, ClearStale, Prepare, CheckPort, Spawn
  <2>2. CASE Begin(c) \/ Wait(c) \/ Failed(c) \/ KillChild(c)
    BY <2>2 DEF Begin, Wait, Failed, KillChild
  <2>3. CASE MarkReady(c) \/ OwnedPid(c) \/ MarkStopping(c) \/ Term(c) \/ MarkStopped(c) \/ Release(c)
    BY <2>3 DEF MarkReady, OwnedPid, MarkStopping, Term, MarkStopped, Release
  <2>. QED BY <2>1, <2>2, <2>3 DEF Step
<1>. QED BY <1>1, <1>2, <1>3 DEF OwnRecord, Recorded, Outside

-----------------------------------------------------------------------------
(* Start times and the identity on record.                                   *)

LEMMA StepBirths ==
  ASSUME TypeOK, Births, NEW c \in Controllers, Step(c)
  PROVE  Births'
<1>. USE DEF TypeOK, Births
<1>1. CASE UNCHANGED <<state, proc, births>>
  BY <1>1
<1>2. CASE Spawn(c)
  BY <1>2 DEF Spawn
<1>3. CASE Begin(c)
  <2>1. child[c] \in Pids
    BY <1>3, ServerAssumption DEF Begin, ServerAssumption
  <2>2. CASE /\ state' = [status |-> "starting", pid |-> child[c], birth |-> proc[child[c]].birth,
                          image |-> Image(child[c]), port |-> port[c]]
             /\ UNCHANGED proc
    BY <1>3, <2>1, <2>2 DEF Begin
  <2>3. CASE TerminateChild(child[c]) /\ UNCHANGED state
    BY <1>3, <2>1, <2>3 DEF Begin, TerminateChild, Become, Free
  <2>. QED BY <1>3, <2>2, <2>3 DEF Begin
<1>4. CASE KillChild(c) \/ Term(c)
  <2>1. child[c] \in Pids
    BY <1>4, ServerAssumption DEF KillChild, Term, ServerAssumption
  <2>. QED BY <1>4, <2>1 DEF KillChild, Term, Terminate, TerminateChild, Become, Free
<1>5. CASE ClearStale(c) \/ MarkReady(c) \/ MarkStopping(c) \/ MarkStopped(c)
  BY <1>5 DEF ClearStale, MarkReady, MarkStopping, MarkStopped, NoState
<1>6. CASE AcquireLock(c) \/ Look(c) \/ Prepare(c) \/ CheckPort(c) \/ Wait(c) \/ Failed(c) \/ OwnedPid(c)
           \/ Release(c)
  BY <1>1, <1>6 DEF AcquireLock, Look, Prepare, CheckPort, Wait, Failed, OwnedPid, Release
<1>. QED BY <1>2, <1>3, <1>4, <1>5, <1>6 DEF Step

LEMMA StepIdentified ==
  ASSUME TypeOK, Births, Identified, NEW c \in Controllers, Step(c)
  PROVE  Identified'
<1>. USE DEF TypeOK, Identified, Live
<1>1. CASE UNCHANGED <<state, proc, misread>>
  BY <1>1
<1>2. CASE Spawn(c)
  <2>1. CASE UNCHANGED proc
    BY <1>1, <1>2, <2>1 DEF Spawn, history
  <2>2. ASSUME NEW p \in Pids,
               proc' = [proc EXCEPT ![p] = [stage |-> "fork", birth |-> births + 1, port |-> port[c]]]
        PROVE  Identified'
    <3>1. proc'[p].birth > state.birth /\ \A q \in Pids \ {p} : proc'[q] = proc[q]
      BY <2>2 DEF Births
    <3>2. UNCHANGED <<state, misread>>
      BY <1>2 DEF Spawn, history
    <3>. QED BY <3>1, <3>2 DEF Births
  <2>. QED BY <1>2, <2>1, <2>2 DEF Spawn
<1>3. CASE Begin(c)
  <2>1. child[c] \in Pids
    BY <1>3, ServerAssumption DEF Begin, ServerAssumption
  <2>2. CASE /\ state' = [status |-> "starting", pid |-> child[c], birth |-> proc[child[c]].birth,
                          image |-> Image(child[c]), port |-> port[c]]
             /\ Image(child[c]) \in {"server", "wrapper"}
             /\ misread' = (misread \/ Image(child[c]) = "wrapper")
             /\ UNCHANGED proc
    BY <2>1, <2>2 DEF Image
  <2>3. CASE TerminateChild(child[c]) /\ UNCHANGED <<state, misread>>
    BY <2>1, <2>3 DEF TerminateChild, Become, Free
  <2>. QED BY <1>3, <2>2, <2>3 DEF Begin
<1>4. CASE KillChild(c) \/ Term(c)
  <2>1. child[c] \in Pids
    BY <1>4, ServerAssumption DEF KillChild, Term, ServerAssumption
  <2>. QED BY <1>4, <2>1 DEF KillChild, Term, Terminate, TerminateChild, Become, Free
<1>5. CASE ClearStale(c) \/ MarkReady(c) \/ MarkStopping(c) \/ MarkStopped(c)
  <2>1. /\ UNCHANGED <<proc, misread>>
        /\ state'.pid = None \/ (state'.pid = state.pid /\ state'.birth = state.birth
                                 /\ state'.image = state.image)
    BY <1>5 DEF ClearStale, MarkReady, MarkStopping, MarkStopped, NoState, history
  <2>. QED BY <2>1, ServerAssumption DEF ServerAssumption
<1>6. CASE AcquireLock(c) \/ Look(c) \/ Prepare(c) \/ CheckPort(c) \/ Wait(c) \/ Failed(c) \/ OwnedPid(c)
           \/ Release(c)
  BY <1>1, <1>6 DEF AcquireLock, Look, Prepare, CheckPort, Wait, Failed, OwnedPid, Release, history
<1>. QED BY <1>2, <1>3, <1>4, <1>5, <1>6 DEF Step

-----------------------------------------------------------------------------
(* Every backend that runs can be found.                                     *)

\* While no run is about to record what it has launched, no owned record means
\* no backend.
LEMMA NotOwnedDown ==
  ASSUME TypeOK, Identified, NoOrphan, ~died, ~misread, ~overlap,
         \A c \in Controllers : pc[c] # "begin", ~Owned
  PROVE  Live = {}
<1>. SUFFICES ASSUME NEW p \in Live PROVE FALSE
  OBVIOUS
<1>1. p \in Pids /\ OnRecord(p)
  BY DEF NoOrphan, Live, OnRecord
<1>2. proc[p].stage \in {"loading", "serving"} /\ state.image = "server" /\ state.pid # None
  BY <1>1, ServerAssumption DEF Identified, OnRecord, ServerAssumption
<1>3. Owned
  BY <1>1, <1>2 DEF Owned, OnRecord, Image
<1>. QED BY <1>3

\* A backend on record stays on record while its record does.
LEMMA StepFound ==
  ASSUME ServerInv, NEW c \in Controllers, Step(c)
  PROVE  AllFound'
<1>. SUFFICES ASSUME ~died', ~misread', ~overlap'
              PROVE  (/\ NoOrphan
                      /\ \A d \in Controllers :
                           /\ pc[d] \in Down => Live = {}
                           /\ pc[d] = "begin" => Live \subseteq {child[d]})'
  BY DEF AllFound
<1>t. TypeOK /\ OwnRecord /\ Identified /\ LockHeld
  BY DEF ServerInv
<1>h. ~died /\ ~misread /\ ~overlap
  <2>1. died' = died /\ (overlap => overlap')
    BY <1>t, StepFrame
  <2>2. ~misread' => ~misread
    BY <1>t DEF TypeOK, Step, Outside, AcquireLock, Look, ClearStale, Prepare, CheckPort, Spawn,
       Begin, Wait, Failed, KillChild, MarkReady, OwnedPid, MarkStopping, Term, MarkStopped, Release, history
  <2>. QED BY <2>1, <2>2
<1>i. /\ NoOrphan
      /\ \A d \in Controllers : /\ pc[d] \in Down => Live = {}
                                /\ pc[d] = "begin" => Live \subseteq {child[d]}
  BY <1>h DEF ServerInv, AllFound
<1>f. \A d \in Controllers \ {c} : pc'[d] = pc[d] /\ child'[d] = child[d]
  BY <1>t, StepFrame
<1>1. CASE AcquireLock(c)
  <2>1. pc'[c] \in {"idle", "look"} /\ UNCHANGED <<state, proc>> /\ pc[c] = "lock"
    BY <1>t, <1>1 DEF AcquireLock, Goto, TypeOK
  <2>2. Live' = Live
    BY <2>1 DEF Live
  <2>. QED BY <1>h, <1>i, <1>f, <2>1, <2>2 DEF NoOrphan, Down
<1>2. CASE pc[c] \notin Outside
  <2>o. \A d \in Controllers \ {c} : pc[d] \notin Down \cup {"begin"}
    BY <1>t, <1>h, <1>2, HolderAlone DEF Outside, Down
  <2>. SUFFICES (/\ \A p \in Live : OnRecord(p) \/ (child[c] = p /\ pc[c] = "begin")
                 /\ pc[c] \in Down => Live = {}
                 /\ pc[c] = "begin" => Live \subseteq {child[c]})'
    BY <1>f, <2>o DEF NoOrphan, OnRecord
  <2>i. \A p \in Live : OnRecord(p) \/ (child[c] = p /\ pc[c] = "begin")
    BY <1>h, <1>i, <2>o DEF NoOrphan, OnRecord
  <2>n. pc[c] # "begin" /\ ~Owned => Live = {}
    BY <1>t, <1>h, <1>i, <2>o, NotOwnedDown
  <2>r. pc[c] \in Recorded => child[c] = state.pid
    BY <1>t, <1>h DEF OwnRecord
  <2>. USE <1>2 DEF Live, OnRecord, Down, Recorded, Exit, Proceed, Goto, Forget, TypeOK
  <2>1. CASE Look(c)
    <3>1. pc'[c] = "prepare" => ~Owned
      BY <1>t, <2>1 DEF Look, Status, Owned, ServerInv, Births
    <3>. QED BY <1>t, <2>1, <2>i, <2>n, <3>1 DEF Look
  <2>2. CASE ClearStale(c)
    BY <1>t, <2>2, <2>i, <2>n DEF ClearStale
  <2>3. CASE Prepare(c) \/ CheckPort(c)
    BY <1>t, <1>i, <2>3, <2>i DEF Prepare, CheckPort
  <2>4. CASE Spawn(c)
    BY <1>t, <1>i, <2>4, <2>i DEF Spawn
  <2>5. CASE Begin(c)
    BY <1>t, <1>i, <2>5, <2>i DEF Begin, TerminateChild, Become, Free
  <2>6. CASE Wait(c) \/ Failed(c)
    BY <1>t, <2>6, <2>i, <2>n DEF Wait, Failed
  <2>7. CASE KillChild(c) \/ Term(c)
    BY <1>t, <2>7, <2>i, <2>r DEF KillChild, Term, Terminate, TerminateChild, Become, Free
  <2>8. CASE MarkReady(c) \/ MarkStopping(c)
    BY <1>t, <2>8, <2>i DEF MarkReady, MarkStopping
  <2>9. CASE MarkStopped(c)
    BY <1>t, <1>i, <2>9, <2>i DEF MarkStopped, NoState
  <2>10. CASE OwnedPid(c) \/ Release(c)
    BY <1>t, <2>10, <2>i DEF OwnedPid, Release
  <2>. QED BY <2>1, <2>2, <2>3, <2>4, <2>5, <2>6, <2>7, <2>8, <2>9, <2>10
           DEF Step, AcquireLock, Outside
<1>. QED BY <1>1, <1>2, <1>t, StepFrame

-----------------------------------------------------------------------------
(* Only backends are signalled.                                              *)

LEMMA StepKnown ==
  ASSUME TypeOK, KnownChild, NEW c \in Controllers, Step(c)
  PROVE  KnownChild'
<1>. SUFFICES ASSUME ~QuickRecycle
              PROVE  (/\ ~misfired
                      /\ \A d \in Controllers : child[d] # None => proc[child[d]].stage # "alien")'
  BY DEF KnownChild
<1>i. /\ ~misfired
      /\ \A d \in Controllers : child[d] # None => proc[child[d]].stage # "alien"
  BY DEF KnownChild
<1>f. \A d \in Controllers \ {c} : child'[d] = child[d]
  BY StepFrame
<1>. USE DEF TypeOK, Exit, Proceed, Forget
<1>1. CASE UNCHANGED <<proc, misfired>> /\ child'[c] \in {child[c], None}
  BY <1>i, <1>f, <1>1
<1>2. CASE OwnedPid(c)
  <2>1. CASE Owned /\ child' = [child EXCEPT ![c] = state.pid]
    <3>1. state.pid \in Pids /\ proc[state.pid].stage # "alien"
      BY <2>1 DEF Owned, Image
    <3>. QED BY <1>i, <1>2, <2>1, <3>1 DEF OwnedPid, history
  <2>. QED BY <1>1, <1>2, <2>1 DEF OwnedPid, history
<1>3. CASE Spawn(c)
  BY <1>1, <1>i, <1>3 DEF Spawn, history
<1>4. CASE Begin(c)
  <2>1. child[c] \in Pids
    BY <1>4, ServerAssumption DEF Begin, ServerAssumption
  <2>. QED BY <1>1, <1>i, <1>f, <1>4, <2>1, ServerAssumption
           DEF Begin, TerminateChild, Become, Signal, Free, ServerAssumption
<1>5. CASE KillChild(c) \/ Term(c)
  <2>1. child[c] \in Pids
    BY <1>5, ServerAssumption DEF KillChild, Term, ServerAssumption
  <2>. QED BY <1>i, <1>f, <1>5, <2>1 DEF KillChild, Term, Terminate, TerminateChild, Become, Signal, Free
<1>6. CASE AcquireLock(c) \/ Look(c) \/ ClearStale(c) \/ Prepare(c) \/ CheckPort(c)
  BY <1>1, <1>6 DEF AcquireLock, Look, ClearStale, Prepare, CheckPort, history
<1>7. CASE Wait(c) \/ Failed(c) \/ MarkReady(c) \/ MarkStopping(c) \/ MarkStopped(c) \/ Release(c)
  BY <1>1, <1>7 DEF Wait, Failed, MarkReady, MarkStopping, MarkStopped, Release, history
<1>. QED BY <1>2, <1>3, <1>4, <1>5, <1>6, <1>7 DEF Step

-----------------------------------------------------------------------------
(* The other actions.                                                        *)

LEMMA RunComesOrDies ==
  ASSUME ServerInv, NEW c \in Controllers, Invoke(c) \/ Die(c)
  PROVE  ServerInv'
<1>t. TypeOK /\ TypeOK'
  BY TypeStep DEF ServerInv, Next
<1>1. /\ UNCHANGED <<state, proc, births, misread, misfired>>
      /\ \A d \in Controllers \ {c} : pc'[d] = pc[d] /\ child'[d] = child[d]
      /\ child'[c] \in {child[c], None}
      /\ overlap => overlap'
      /\ \/ pc'[c] \in Outside
         \/ pc'[c] = "unlock" /\ pc[c] \notin Outside /\ lock' = lock
      /\ lock' = lock \/ pc[c] = "lock" \/ (lock = c /\ lock' = None)
  BY <1>t DEF TypeOK, Invoke, Die, Locking, Exit, Meet, Goto, Forget, Outside
<1>2. LockHeld' /\ OwnRecord'
  <2>1. CASE Die(c) /\ pc[c] = "lock" /\ (LockFree(c) \/ overlap) /\ lock' = c
    BY <1>1, <2>1 DEF ServerInv, LockHeld, OwnRecord, LockFree, Outside, Recorded
  <2>2. CASE lock' = lock \/ (lock = c /\ lock' = None)
    BY <1>1, <2>2 DEF ServerInv, LockHeld, OwnRecord, Outside, Recorded
  <2>. QED BY <1>1, <2>1, <2>2 DEF Invoke, Die, Exit, Locking
<1>3. Births' /\ Identified'
  BY <1>1 DEF ServerInv, Births, Identified, Live
<1>4. KnownChild'
  BY <1>1 DEF ServerInv, KnownChild
<1>5. AllFound'
  <2>1. CASE Die(c)
    BY <2>1 DEF Die, AllFound
  <2>2. CASE Invoke(c)
    <3>1. Live' = Live /\ died' = died /\ pc[c] = "idle"
      BY <1>1, <2>2 DEF Live, Invoke
    <3>. QED BY <1>1, <3>1 DEF ServerInv, AllFound, NoOrphan, Outside, Down
  <2>. QED BY <2>1, <2>2
<1>. QED BY <1>t, <1>2, <1>3, <1>4, <1>5 DEF ServerInv

LEMMA ProcessMoves ==
  ASSUME ServerInv, NEW p \in Pids, Launch(p) \/ Fail(p) \/ Alien(p)
  PROVE  ServerInv'
<1>t. TypeOK /\ TypeOK'
  BY TypeStep DEF ServerInv, Next
<1>1. UNCHANGED <<pc, child, lock, overlap, state, died, misread, misfired>>
  BY DEF Launch, Fail, Alien, locals, control, history
<1>2. \A q \in Pids \ {p} : proc'[q] = proc[q]
  BY <1>t DEF TypeOK, Launch, Fail, Alien, Become
<1>3. births' >= births
  BY <1>t DEF TypeOK, Launch, Fail, Alien
<1>4. \/ proc'[p].stage \notin {"fork", "wrapper", "loading", "serving", "alien"}
      \/ /\ proc'[p].birth = proc[p].birth /\ p \in Live
         /\ proc'[p].stage # "alien"
         /\ proc[p].stage \in {"loading", "serving"} => proc'[p].stage \in {"loading", "serving"}
      \/ Alien(p) /\ proc'[p].stage = "alien"
  BY <1>t DEF TypeOK, Launch, Fail, Alien, Become, Free, Live
<1>5. LockHeld' /\ OwnRecord'
  BY <1>1 DEF ServerInv, LockHeld, OwnRecord
<1>6. Births'
  <2>1. proc'[p].birth \in {0, proc[p].birth, births'}
    BY <1>t DEF TypeOK, Launch, Fail, Alien, Become, Free
  <2>. QED BY <1>t, <1>1, <1>2, <1>3, <2>1 DEF ServerInv, Births, TypeOK
<1>7. Live' \subseteq Live
  BY <1>2, <1>4 DEF Live
<1>8. \A q \in Live' : proc'[q].birth = proc[q].birth
  BY <1>2, <1>4 DEF Live
<1>9. Identified'
  BY <1>1, <1>2, <1>4, <1>7, <1>8 DEF ServerInv, Identified, Live
<1>10. AllFound'
  BY <1>1, <1>7, <1>8 DEF ServerInv, AllFound, NoOrphan
<1>11. KnownChild'
  <2>. SUFFICES ASSUME ~QuickRecycle, NEW d \in Controllers, child[d] # None
                PROVE  proc'[child[d]].stage # "alien"
    BY <1>1 DEF ServerInv, KnownChild
  <2>1. child[d] \in Pids /\ proc[child[d]].stage # "alien"
    BY <1>t DEF ServerInv, KnownChild, TypeOK
  <2>2. Alien(p) => child[d] # p
    BY DEF Alien
  <2>. QED BY <1>2, <1>4, <2>1, <2>2
<1>. QED BY <1>t, <1>5, <1>6, <1>9, <1>10, <1>11 DEF ServerInv

LEMMA ServerStep == ServerInv /\ [Next]_vars => ServerInv'
<1>. SUFFICES ASSUME ServerInv, [Next]_vars
              PROVE  ServerInv'
  OBVIOUS
<1>1. ASSUME NEW c \in Controllers, Step(c)
      PROVE  ServerInv'
  <2>1. TypeOK'
    BY <1>1, TypeStep DEF ServerInv, Next
  <2>. QED BY <1>1, <2>1, StepLock, StepOwnRecord, StepBirths, StepIdentified, StepFound, StepKnown
           DEF ServerInv
<1>2. CASE UNCHANGED vars
  <2>1. UNCHANGED <<pc, child, lock, overlap, state, proc, births, died, misread, misfired>>
    BY <1>2 DEF vars, locals, control, history
  <2>2. TypeOK'
    BY TypeStep DEF ServerInv
  <2>. QED BY <2>1, <2>2 DEF ServerInv, LockHeld, OwnRecord, Births, Identified, AllFound, KnownChild,
              NoOrphan, Live
<1>. QED BY <1>1, <1>2, RunComesOrDies, ProcessMoves DEF Next

LEMMA ServerInit == Init => ServerInv
<1>. SUFFICES ASSUME Init PROVE ServerInv
  OBVIOUS
<1>. USE DEF Init, NoState, Free
<1>1. TypeOK
  BY DEF TypeOK, PcStates, Stages
<1>2. Live = {}
  BY DEF Live
<1>3. LockHeld /\ OwnRecord /\ Births /\ KnownChild
  BY DEF LockHeld, OwnRecord, Births, KnownChild, Outside, Recorded
<1>4. Identified /\ AllFound
  BY <1>2 DEF Identified, AllFound, NoOrphan
<1>. QED BY <1>1, <1>3, <1>4 DEF ServerInv

-----------------------------------------------------------------------------
\* The variables of the backend keep their types, and a run that is to watch or to
\* signal a process knows which one (serve.sh:306-356).
THEOREM ServerTypes == Spec => []TypeOK
<1>1. ServerInv => TypeOK
  BY DEF ServerInv
<1>. QED BY <1>1, ServerInit, ServerStep, PTL DEF Spec

\* Any number of runs, of deaths of the backend and of recycled process ids leave
\* no backend that stop could not find, unless a run was killed, has recorded the
\* identity of the wrapper, or was at the control lock at the same time as another
\* (serve.sh:306-328, server_state.py:142-176, run_lock.sh:6-22).
THEOREM NothingOrphaned == Spec => []NoOrphan
<1>1. ServerInv => NoOrphan
  BY DEF ServerInv, AllFound, NoOrphan
<1>. QED BY <1>1, ServerInit, ServerStep, PTL DEF Spec

\* Under the same exceptions two backends never run at once, on whatever ports
\* (serve.sh:132-158).
THEOREM NeverTwoBackends == Spec => []OneBackend
<1>1. ServerInv => OneBackend
  <2>. SUFFICES ASSUME ServerInv, ~died, ~misread, ~overlap
                PROVE  Cardinality(Live) <= 1
    BY DEF OneBackend
  <2>1. PICK p : Live \subseteq {p}
    <3>1. CASE \E c \in Controllers : pc[c] = "begin"
      BY <3>1 DEF ServerInv, AllFound
    <3>2. CASE \A c \in Controllers : pc[c] # "begin"
      BY <3>2 DEF ServerInv, AllFound, NoOrphan
    <3>. QED BY <3>1, <3>2
  <2>2. IsFiniteSet({p}) /\ Cardinality({p}) = 1
    BY FS_Singleton
  <2>. QED BY <2>1, <2>2, FS_Subset, FS_CardinalityType
<1>. QED BY <1>1, ServerInit, ServerStep, PTL DEF Spec

\* No process but a backend is signalled, whoever was killed and whoever has got
\* which id, unless an id is given away in the seconds between the check of its
\* owner and the signal (server_state.py:66-73, serve.sh:322, 343-355).
THEOREM OnlyBackendsSignalled == Spec => []SignalsOnlyBackends
<1>1. ServerInv => SignalsOnlyBackends
  BY DEF ServerInv, KnownChild, SignalsOnlyBackends
<1>. QED BY <1>1, ServerInit, ServerStep, PTL DEF Spec
=============================================================================
