--------------------------- MODULE ExternalProofs ---------------------------
(***************************************************************************)
(* What external.sh keeps to, for any number of runs, readings and faults: *)
(* a run that nobody interferes with undoes what it has launched, ends in  *)
(* what it says, and takes the ingress down before the backend.            *)
(***************************************************************************)
EXTENDS External, TLAPS

\* Where a run of external.sh start may be, besides the start of the backend
Starting == {"gate", "look", "wait", "recheck", "ingress", "reuse", "expose", "launch", "gateway",
             "tunnel", "mark", "confirm", "undo"}

\* Where it has a backend that is right
Serving == {"ingress", "reuse", "expose", "launch", "gateway", "tunnel", "mark", "confirm"}

\* From where a start that has launched its backend may still roll it back
Responsible == Serving \cup {"recheck", "undo", "unserve", "unserving", "done"}

Stops == {"stop"} \cup StopsAll

HasLaunched(c, what) == <<c, what>> \in history.launched

Histories == [runs : Nat, faults : Nat, overlapped : SUBSET Runs, faulted : SUBSET Runs,
              launched : SUBSET (Runs \X {"backend", "ingress"}), raced : BOOLEAN, cut : BOOLEAN]

Logged == history \in Histories

\* Who is inside of the lock of serve.sh is so alone, and finds no backend until
\* it has recorded its own.
Apart == \A c, d \in Runs : c # d /\ Inside(c) /\ Inside(d) => history.raced

Cleared == \A c \in Runs : pc[c] \in {"prepare", "begin"} => backend = NoBackend \/ history.raced

\* What is not on record is about to be, or its run was killed or has lost its
\* record to another one.
StrayTypes == stray \subseteq (Runs \cup {None}) \X Kinds

Placed == \A c \in Runs, k \in Kinds : <<c, k>> \in stray => pc[c] \in Launching(k)

Explained ==
  \A k \in Kinds : <<None, k>> \in stray => history.cut \/ (k = "server" /\ history.raced)

StrayInv == Apart /\ Cleared /\ StrayTypes /\ Placed /\ Explained

\* Two runs that are at work know that they are not alone.
Sole == \A c, d \in Runs : c # d /\ Busy(c) /\ Busy(d) => ~Alone(c)

\* A run that is not at work has launched nothing yet.
Fresh == \A c \in Runs : ~Busy(c) => ~HasLaunched(c, "backend") /\ ~HasLaunched(c, "ingress")

\* A record that says stopped is empty.
NothingLeft == backend.status = "stopped" => backend = NoBackend

\* A run is only where its command takes it; a start comes to a stop of the
\* backend only after it has started that and has failed.
Fits(c) ==
  LET cmd == job[c].cmd
  IN /\ pc[c] \in Starting => cmd = "start"
     /\ pc[c] \in {"serve", "prepare", "begin", "loading"} => cmd \in {"start", "serve-start"}
     /\ pc[c] \in {"close", "closed"} => cmd \in Stops
     /\ pc[c] \in {"backend", "gone"} => cmd \in StopsAll
     /\ pc[c] \in {"sweep", "survey", "swept"} => cmd = "muse-stop"
     /\ pc[c] \in {"unserve", "unserving"} =>
          \/ cmd \in StopsAll \cup {"serve-stop"}
          \/ cmd = "start" /\ job[c].startedHere /\ ~job[c].ok
     /\ job[c].startedHere => cmd = "start" /\ pc[c] \in Responsible

\* What becomes of the backend that a start launches
OwnBackend(c) ==
  /\ (pc[c] = "serve" /\ job[c].cmd = "start") \/ pc[c] \in {"prepare", "begin"} => backend = NoBackend
  /\ pc[c] \in {"begin", "loading"} \/ job[c].startedHere => HasLaunched(c, "backend")
  /\ HasLaunched(c, "backend") /\ job[c].cmd = "start" /\ ~job[c].startedHere =>
       pc[c] \in {"begin", "loading"} \/ (pc[c] = "done" /\ backend.life = "down")
  /\ pc[c] = "done" /\ job[c].startedHere /\ ~job[c].ok => backend = NoBackend

\* What becomes of the ingress that a start launches
OwnIngress(c) ==
  HasLaunched(c, "ingress") =>
    /\ job[c].cmd = "start"
    /\ \/ pc[c] \in {"gateway", "tunnel", "mark", "confirm"}
       \/ pc[c] = "undo" /\ (job[c].wasStopped \/ ingress = Closed)
       \/ pc[c] \in {"unserve", "unserving"} /\ ingress = Closed
       \/ pc[c] = "done" /\ (job[c].ok \/ ingress = Closed)

\* A stop has closed the ingress before it turns to the backend.
StopsInOrder(c) ==
  /\ job[c].cmd \in Stops /\ pc[c] \in {"closed", "backend", "gone", "unserve", "unserving"} =>
       ingress = Closed
  /\ Finished(c, "stop", TRUE) => ingress = Closed
  /\ job[c].cmd \in StopsAll /\ pc[c] \in {"sweep", "survey", "swept", "done"} /\ job[c].ok =>
       ingress = Closed /\ backend = NoBackend
  /\ pc[c] = "swept" => backend.life = "down" /\ ~ingress.proxy /\ ~ingress.tunnel
  /\ pc[c] = "swept" \/ Finished(c, "muse-stop", TRUE) => stray = {}

\* What a start has found or made stays, unless something dies.
StartsRight(c) ==
  c \notin history.faulted =>
    /\ pc[c] \in Serving \/ Finished(c, "start", TRUE) => CanonicalReady
    /\ pc[c] \in {"reuse", "confirm"} \/ Finished(c, "start", TRUE) => ingress.mode = job[c].mode
    /\ Finished(c, "start", TRUE) => IngressReady

Unaided(c) == OwnBackend(c) /\ OwnIngress(c) /\ StopsInOrder(c) /\ StartsRight(c)

RunInv == \A c \in Runs : Fits(c) /\ (Busy(c) /\ Alone(c) => Unaided(c))

ExternalInv == TypeOK /\ Logged /\ StrayInv /\ Sole /\ Fresh /\ NothingLeft /\ RunInv

-----------------------------------------------------------------------------
(* Types. *)

Jobs == [cmd : Commands \cup {"none"}, mode : Modes, profile : {"dflash2", "baseline"},
         ok : BOOLEAN, startedHere : BOOLEAN, wasStopped : BOOLEAN]

RunTypes == pc \in [Runs -> PcStates] /\ job \in [Runs -> Jobs]

Backends == [status : {"stopped", "starting", "ready", "stopping"},
             life : {"down", "loading", "up", "hung"}, profile : {"dflash2", "baseline"}]

Ingresses == [status : {"stopped", "starting", "ready"}, mode : Modes,
              proxy : BOOLEAN, tunnel : BOOLEAN]

WorldTypes == backend \in Backends /\ ingress \in Ingresses

Types == RunTypes /\ WorldTypes

ReaderTypes ==
  /\ reader.at \in {"idle", "exposure", "endpoint", "again", "answered"}
  /\ watch.changes \in 0..4

LEMMA TypeParts ==
  /\ TypeOK <=> Types /\ StrayTypes /\ Apart /\ Placed /\ ReaderTypes
  /\ TypeOK' <=> (Types /\ StrayTypes /\ Apart /\ Placed /\ ReaderTypes)'
<1>1. TypeOK <=> Types /\ StrayTypes /\ Apart /\ Placed /\ ReaderTypes
  BY DEF TypeOK, Types, RunTypes, WorldTypes, Jobs, Backends, Ingresses, StrayTypes, Apart, Placed, ReaderTypes
<1>2. TypeOK' <=> (Types /\ StrayTypes /\ Apart /\ Placed /\ ReaderTypes)'
  BY DEF TypeOK, Types, RunTypes, WorldTypes, Jobs, Backends, Ingresses, StrayTypes, Apart, Placed, ReaderTypes
<1>. QED BY <1>1, <1>2

\* A run goes on, its command returns, or it rolls back.
LEMMA MoveTypes ==
  ASSUME RunTypes, NEW c \in Runs, NEW there \in PcStates, NEW ok \in BOOLEAN,
         Proceed(c, there) \/ Ends(c, ok) \/ RollBack(c)
  PROVE  RunTypes'
<1>1. CASE Proceed(c, there)
  BY <1>1 DEF Proceed, Goto, RunTypes
<1>2. ASSUME NEW t \in PcStates, NEW k \in BOOLEAN, Goto(c, t), job' = [job EXCEPT ![c].ok = k]
      PROVE  RunTypes'
  BY <1>2 DEF Goto, RunTypes, Jobs
<1>3. CASE Ends(c, ok)
  BY <1>2, <1>3 DEF Ends, PcStates
<1>4. CASE RollBack(c)
  BY <1>2, <1>4 DEF RollBack, PcStates
<1>. QED BY <1>1, <1>3, <1>4

\* A run notes a fact about what it has found or done.
LEMMA NoteTypes ==
  ASSUME RunTypes, NEW c \in Runs, NEW there \in PcStates, NEW b \in BOOLEAN, Goto(c, there),
         \/ job' = [job EXCEPT ![c].wasStopped = b]
         \/ job' = [job EXCEPT ![c].startedHere = b]
         \/ job' = [job EXCEPT ![c].ok = b]
         \/ job' = [job EXCEPT ![c] = NoJob]
  PROVE  RunTypes'
<1>. USE DEF RunTypes, Goto, Jobs
<1>1. CASE job' = [job EXCEPT ![c].wasStopped = b]
  BY <1>1
<1>2. CASE job' = [job EXCEPT ![c].startedHere = b]
  BY <1>2
<1>3. CASE job' = [job EXCEPT ![c].ok = b]
  BY <1>3
<1>4. CASE job' = [job EXCEPT ![c] = NoJob]
  BY <1>4 DEF NoJob, Modes, Commands
<1>. QED BY <1>1, <1>2, <1>3, <1>4

LEMMA StepRunTypes ==
  ASSUME RunTypes, NEW c \in Runs, Step(c)
  PROVE  RunTypes'
<1>j. job[c] \in Jobs
  BY DEF RunTypes
<1>. USE DEF PcStates
<1>s. ASSUME NEW ok \in BOOLEAN, Served(c, ok)
      PROVE  RunTypes'
  BY <1>s, MoveTypes, NoteTypes DEF Served
<1>u. ASSUME NEW ok \in BOOLEAN, Unserved(c, ok)
      PROVE  RunTypes'
  <2>1. (ok /\ job[c].ok) \in BOOLEAN
    BY <1>j DEF Jobs
  <2>. QED BY <1>u, <2>1, MoveTypes DEF Unserved
<1>1. CASE Gate(c) \/ Look(c) \/ WaitReady(c) \/ Recheck(c)
  BY <1>1, MoveTypes DEF Gate, Look, WaitReady, Recheck
<1>2. CASE Serve(c) \/ Prepare(c) \/ Begin(c) \/ Loaded(c)
  BY <1>2, <1>s, MoveTypes DEF Serve, Prepare, Begin, Loaded
<1>3. CASE Find(c) \/ Reuse(c)
  BY <1>3, MoveTypes, NoteTypes DEF Find, Reuse
<1>4. CASE Confirm(c) \/ Undo(c)
  BY <1>4, MoveTypes, NoteTypes DEF Confirm, Undo
<1>5. CASE ExposeGate(c) \/ ExposeMark(c)
  BY <1>5, MoveTypes DEF ExposeGate, ExposeMark, CleansUp
<1>6. CASE ExposeLaunch(c) \/ Gateway(c) \/ Tunnel(c)
  BY <1>6, MoveTypes DEF ExposeLaunch, Gateway, Tunnel, Records, CleansUp
<1>7. CASE Unserve(c) \/ Unserving(c)
  BY <1>7, <1>u, MoveTypes DEF Unserve, Unserving
<1>8. CASE Close(c) \/ CheckClosed(c) \/ StopBackend(c) \/ CheckGone(c)
  BY <1>8, MoveTypes DEF Close, CheckClosed, StopBackend, CheckGone
<1>9. CASE Sweep(c) \/ Survey(c) \/ CleanupGate(c)
  BY <1>9, MoveTypes, NoteTypes DEF Sweep, Survey, CleanupGate
<1>10. CASE Leave(c)
  BY <1>10, NoteTypes DEF Leave
<1>. QED BY <1>1, <1>2, <1>3, <1>4, <1>5, <1>6, <1>7, <1>8, <1>9, <1>10 DEF Step

LEMMA StepWorldTypes ==
  ASSUME RunTypes, WorldTypes, NEW c \in Runs, Step(c)
  PROVE  WorldTypes'
<1>j. job[c].mode \in Modes /\ job[c].profile \in {"dflash2", "baseline"}
  BY DEF RunTypes, Jobs
<1>c. Closed \in Ingresses
  BY DEF Ingresses, Closed, Modes
<1>b. NoBackend \in Backends
  BY DEF Backends, NoBackend
<1>. USE <1>b, <1>c DEF WorldTypes
<1>1. CASE Gate(c) \/ Look(c) \/ WaitReady(c) \/ Recheck(c) \/ Find(c) \/ Reuse(c) \/ Confirm(c)
           \/ CheckClosed(c) \/ StopBackend(c) \/ CheckGone(c) \/ Survey(c) \/ CleanupGate(c) \/ Leave(c)
  BY <1>1 DEF Gate, Look, WaitReady, Recheck, Find, Reuse, Confirm, CheckClosed, StopBackend, CheckGone,
     Survey, CleanupGate, Leave
<1>2. CASE Serve(c) \/ Unserving(c) \/ Close(c) \/ Undo(c) \/ ExposeGate(c)
  BY <1>2 DEF Serve, Unserving, Close, Undo, ExposeGate
<1>3. CASE Prepare(c) \/ Begin(c)
  <2>1. [status |-> "starting", life |-> "loading", profile |-> job[c].profile] \in Backends
    BY <1>j DEF Backends
  <2>. QED BY <1>3, <2>1 DEF Prepare, Begin
<1>4. CASE Loaded(c) \/ Unserve(c)
  <2>1. [backend EXCEPT !.status = "ready"] \in Backends /\ [backend EXCEPT !.status = "stopping"] \in Backends
    BY DEF Backends
  <2>. QED BY <1>4, <2>1 DEF Loaded, Unserve
<1>5. CASE ExposeLaunch(c) \/ Gateway(c) \/ Tunnel(c) \/ ExposeMark(c)
  <2>1. [status |-> "starting", mode |-> job[c].mode, proxy |-> TRUE, tunnel |-> job[c].mode # "proxy"]
          \in Ingresses
    BY <1>j DEF Ingresses
  <2>2. [ingress EXCEPT !.status = "ready"] \in Ingresses
    BY DEF Ingresses
  <2>. QED BY <1>5, <2>1, <2>2 DEF ExposeLaunch, Gateway, Tunnel, ExposeMark, Records, CleansUp
<1>6. CASE Sweep(c)
  BY <1>6 DEF Sweep, Backends, Ingresses
<1>. QED BY <1>1, <1>2, <1>3, <1>4, <1>5, <1>6 DEF Step

-----------------------------------------------------------------------------
(* What a run does to itself, and to the memory of who has launched what. *)

\* A step of a run leaves the others alone; it may log a launch, and its end
\* erases what was logged for it.
LEMMA StepFrame ==
  ASSUME RunTypes, history \in Histories, NEW c \in Runs, Step(c)
  PROVE  /\ Busy(c) /\ UNCHANGED reader
         /\ \A d \in Runs \ {c} : pc'[d] = pc[d] /\ job'[d] = job[d]
<1>. USE DEF RunTypes, Busy, Goto, Proceed, Ends, RollBack, Served, Unserved, Frame
<1>1. CASE Gate(c) \/ Look(c) \/ WaitReady(c) \/ Recheck(c) \/ Find(c) \/ Reuse(c)
  BY <1>1 DEF Gate, Look, WaitReady, Recheck, Find, Reuse
<1>2. CASE Serve(c) \/ Prepare(c) \/ Begin(c) \/ Loaded(c)
  BY <1>2 DEF Serve, Prepare, Begin, Loaded
<1>3. CASE ExposeGate(c) \/ ExposeLaunch(c) \/ Gateway(c) \/ Tunnel(c) \/ ExposeMark(c) \/ Confirm(c) \/ Undo(c)
  BY <1>3 DEF ExposeGate, ExposeLaunch, Gateway, Tunnel, ExposeMark, Confirm, Undo, Records, CleansUp
<1>4. CASE Unserve(c) \/ Unserving(c)
  BY <1>4 DEF Unserve, Unserving
<1>5. CASE Close(c) \/ CheckClosed(c) \/ StopBackend(c) \/ CheckGone(c)
  BY <1>5 DEF Close, CheckClosed, StopBackend, CheckGone
<1>6. CASE Sweep(c) \/ Survey(c) \/ CleanupGate(c) \/ Leave(c)
  BY <1>6 DEF Sweep, Survey, CleanupGate, Leave
<1>. QED BY <1>1, <1>2, <1>3, <1>4, <1>5, <1>6 DEF Step

\* A run that ends is forgotten.
LEMMA ForgetEffect ==
  ASSUME history \in Histories, NEW c \in Runs, NEW h, h = Forgotten(c)
  PROVE  /\ h \in Histories /\ h.raced = history.raced /\ h.cut = history.cut
         /\ h.overlapped = history.overlapped \ {c}
         /\ h.faulted = history.faulted \ {c}
         /\ h.launched = {l \in history.launched : l[1] # c}
BY DEF Forgotten, Histories

LEMMA ForgetsOne ==
  ASSUME history \in Histories, NEW c \in Runs,
         history'.overlapped = history.overlapped \ {c},
         history'.faulted = history.faulted \ {c},
         history'.launched = {l \in history.launched : l[1] # c}
  PROVE  /\ \A d \in Runs \ {c} : (Alone(d)' <=> Alone(d)) /\ (d \in history'.faulted <=> d \in history.faulted)
         /\ \A d \in Runs \ {c}, what \in {"backend", "ingress"} : (HasLaunched(d, what)' <=> HasLaunched(d, what))
         /\ \A what \in {"backend", "ingress"} : ~HasLaunched(c, what)'
BY DEF Alone, HasLaunched

\* A launch is logged for the run that launches, while that is alone.
LEMMA LaunchesEffect ==
  ASSUME history \in Histories, NEW c \in Runs, NEW what \in {"backend", "ingress"}, Launches(c, what)
  PROVE  /\ history' \in Histories /\ history'.raced = history.raced /\ history'.cut = history.cut
         /\ \A d \in Runs : (Alone(d)' <=> Alone(d)) /\ (d \in history'.faulted <=> d \in history.faulted)
         /\ \A d \in Runs, w \in {"backend", "ingress"} :
              HasLaunched(d, w)' <=> HasLaunched(d, w) \/ (d = c /\ w = what /\ Alone(c))
<1>1. /\ history'.overlapped = history.overlapped
      /\ history'.faulted = history.faulted
      /\ history'.launched = IF Alone(c) THEN history.launched \cup {<<c, what>>} ELSE history.launched
      /\ history'.raced = history.raced /\ history'.cut = history.cut
      /\ history' \in Histories
  BY DEF Launches, Histories
<1>. QED BY <1>1 DEF Alone, HasLaunched

\* At the lock it is noted whether somebody else is there.
LEMMA LockEffect ==
  ASSUME history \in Histories, NEW c \in Runs, AtTheLock(c)
  PROVE  /\ history' \in Histories /\ (history'.raced <=> history.raced \/ Meets(c)) /\ history'.cut = history.cut
         /\ \A d \in Runs : (Alone(d)' <=> Alone(d)) /\ (d \in history'.faulted <=> d \in history.faulted)
         /\ \A d \in Runs, w \in {"backend", "ingress"} : HasLaunched(d, w)' <=> HasLaunched(d, w)
<1>1. PICK met \in BOOLEAN : met = Meets(c)
  BY DEF Meets
<1>2. PICK b \in BOOLEAN : b = (history.raced \/ met)
  OBVIOUS
<1>3. history' = [history EXCEPT !.raced = b]
  BY <1>1, <1>2 DEF AtTheLock
<1>. HIDE DEF Meets
<1>4. /\ history' \in Histories /\ history'.raced = b /\ history'.cut = history.cut
      /\ history'.overlapped = history.overlapped /\ history'.faulted = history.faulted
      /\ history'.launched = history.launched
  BY <1>3 DEF Histories
<1>. QED BY <1>1, <1>2, <1>4 DEF Alone, HasLaunched

\* What a step of a run remembers: nothing new, whom it met at the lock, a launch
\* of its own, or nothing at all about itself any more.
LEMMA StepHistory ==
  ASSUME NEW c \in Runs, Step(c)
  PROVE  \/ UNCHANGED history /\ ~Leave(c)
         \/ AtTheLock(c) /\ ~Leave(c)
         \/ Prepare(c) /\ Launches(c, "backend") /\ pc[c] = "prepare" /\ Proceed(c, "begin")
         \/ ExposeLaunch(c) /\ Launches(c, "ingress") /\ pc[c] = "launch" /\ Proceed(c, "gateway")
         \/ Leave(c) /\ history' = Forgotten(c)
<1>1. CASE Leave(c)
  BY <1>1 DEF Leave
<1>2. CASE ~Leave(c)
  BY <1>2 DEF Step, Frame, Gate, Look, WaitReady, Recheck, Find, Reuse, Serve, Prepare, Begin, Loaded,
     ExposeGate, ExposeLaunch, Gateway, Tunnel, ExposeMark, Confirm, Undo, Unserve, Unserving, Close,
     CheckClosed, StopBackend, CheckGone, Sweep, Survey, CleanupGate
<1>. QED BY <1>1, <1>2

\* Only its last step takes a run away.
LEMMA StepStays ==
  ASSUME RunTypes, NEW c \in Runs, Step(c), ~Leave(c)
  PROVE  pc'[c] # "idle"
<1>. USE DEF RunTypes, Goto, Proceed, Ends, RollBack, Served, Unserved
<1>1. CASE Gate(c) \/ Look(c) \/ WaitReady(c) \/ Recheck(c) \/ Find(c) \/ Reuse(c)
  BY <1>1 DEF Gate, Look, WaitReady, Recheck, Find, Reuse
<1>2. CASE Serve(c) \/ Prepare(c) \/ Begin(c) \/ Loaded(c)
  BY <1>2 DEF Serve, Prepare, Begin, Loaded
<1>3. CASE ExposeGate(c) \/ ExposeLaunch(c) \/ Gateway(c) \/ Tunnel(c) \/ ExposeMark(c) \/ Confirm(c) \/ Undo(c)
  BY <1>3 DEF ExposeGate, ExposeLaunch, Gateway, Tunnel, ExposeMark, Confirm, Undo, Records, CleansUp
<1>4. CASE Unserve(c) \/ Unserving(c)
  BY <1>4 DEF Unserve, Unserving
<1>5. CASE Close(c) \/ CheckClosed(c) \/ StopBackend(c) \/ CheckGone(c)
  BY <1>5 DEF Close, CheckClosed, StopBackend, CheckGone
<1>6. CASE Sweep(c) \/ Survey(c) \/ CleanupGate(c)
  BY <1>6 DEF Sweep, Survey, CleanupGate
<1>. QED BY <1>1, <1>2, <1>3, <1>4, <1>5, <1>6 DEF Step

LEMMA StepRemembers ==
  ASSUME RunTypes, history \in Histories, NEW c \in Runs, Step(c)
  PROVE  /\ history' \in Histories
         /\ (history.raced => history'.raced) /\ history'.cut = history.cut
         /\ \A d \in Runs \ {c} : (Alone(d)' <=> Alone(d)) /\ (d \in history'.faulted <=> d \in history.faulted)
         /\ \A d \in Runs \ {c}, what \in {"backend", "ingress"} : (HasLaunched(d, what)' <=> HasLaunched(d, what))
         /\ pc'[c] = "idle" => \A what \in {"backend", "ingress"} : ~HasLaunched(c, what)'
         /\ pc'[c] # "idle" => /\ (Alone(c)' <=> Alone(c)) /\ (c \in history'.faulted <=> c \in history.faulted)
<1>1. CASE UNCHANGED history /\ ~Leave(c)
  BY <1>1, StepStays DEF Alone, HasLaunched
<1>2. CASE AtTheLock(c) /\ ~Leave(c)
  BY <1>2, StepStays, LockEffect
<1>3. CASE Launches(c, "backend") /\ Proceed(c, "begin")
  <2>1. pc'[c] # "idle"
    BY <1>3 DEF Proceed, Goto, RunTypes
  <2>. QED BY <1>3, <2>1, LaunchesEffect
<1>4. CASE Launches(c, "ingress") /\ Proceed(c, "gateway")
  <2>1. pc'[c] # "idle"
    BY <1>4 DEF Proceed, Goto, RunTypes
  <2>. QED BY <1>4, <2>1, LaunchesEffect
<1>5. CASE Leave(c) /\ history' = Forgotten(c)
  <2>1. pc'[c] = "idle"
    BY <1>5 DEF Leave, Goto, RunTypes
  <2>. QED BY <1>5, <2>1, ForgetEffect, ForgetsOne
<1>. QED BY <1>1, <1>2, <1>3, <1>4, <1>5, StepHistory

LEMMA StepNothingLeft ==
  ASSUME Types, NothingLeft, NEW c \in Runs, Step(c)
  PROVE  NothingLeft'
<1>. USE DEF NothingLeft, Types, WorldTypes, Backends
<1>1. CASE UNCHANGED backend \/ backend' = NoBackend
  BY <1>1
<1>2. CASE Begin(c)
  <2>1. CASE UNCHANGED backend
    BY <1>1, <2>1
  <2>2. CASE backend' = [status |-> "starting", life |-> "loading", profile |-> job[c].profile]
    BY <2>2
  <2>. QED BY <1>2, <2>1, <2>2 DEF Begin
<1>3. CASE Loaded(c) \/ Unserve(c)
  BY <1>1, <1>3 DEF Loaded, Unserve
<1>4. CASE Sweep(c)
  BY <1>4 DEF Sweep, NoBackend
<1>. QED BY <1>1, <1>2, <1>3, <1>4 DEF Step, Gate, Look, WaitReady, Recheck, Find, Reuse, Serve, Prepare,
         ExposeGate, ExposeLaunch, Gateway, Tunnel, ExposeMark, Confirm, Undo, Unserving, Close, CheckClosed, StopBackend, CheckGone,
         Survey, CleanupGate, Leave

LEMMA StepSoleFresh ==
  ASSUME RunTypes, history \in Histories, Sole, Fresh, NEW c \in Runs, Step(c)
  PROVE  Sole' /\ Fresh'
<1>1. Sole'
  BY StepFrame, StepRemembers DEF Sole, Busy
<1>2. Fresh'
  BY StepFrame, StepRemembers DEF Fresh, Busy
<1>. QED BY <1>1, <1>2

\* A run gets only where its command takes it.
LEMMA StepFits ==
  ASSUME RunTypes, NEW c \in Runs, Fits(c), Step(c)
  PROVE  Fits(c)'
<1>. USE DEF Fits, RunTypes, Jobs, Goto, Proceed, Ends, RollBack, Served, Unserved, Starting, Serving,
         Responsible, Stops, StopsAll
<1>1. CASE Gate(c) \/ Look(c) \/ WaitReady(c) \/ Recheck(c)
  BY <1>1 DEF Gate, Look, WaitReady, Recheck
<1>2. CASE Find(c) \/ Reuse(c)
  BY <1>2 DEF Find, Reuse
<1>3. CASE Serve(c)
  BY <1>3 DEF Serve
<1>4. CASE Prepare(c) \/ Begin(c)
  BY <1>4 DEF Prepare, Begin
<1>5. CASE Loaded(c)
  BY <1>5 DEF Loaded
<1>6. CASE ExposeGate(c) \/ ExposeLaunch(c) \/ Gateway(c) \/ Tunnel(c) \/ ExposeMark(c)
  BY <1>6 DEF ExposeGate, ExposeLaunch, Gateway, Tunnel, ExposeMark, Records, CleansUp
<1>7. CASE Confirm(c) \/ Undo(c)
  BY <1>7 DEF Confirm, Undo
<1>8. CASE Unserve(c)
  BY <1>8 DEF Unserve
<1>9. CASE Unserving(c)
  BY <1>9 DEF Unserving
<1>10. CASE Close(c) \/ CheckClosed(c) \/ StopBackend(c) \/ CheckGone(c)
  BY <1>10 DEF Close, CheckClosed, StopBackend, CheckGone
<1>11. CASE Sweep(c) \/ Survey(c) \/ CleanupGate(c)
  BY <1>11 DEF Sweep, Survey, CleanupGate
<1>12. CASE Leave(c)
  BY <1>12 DEF Leave, NoJob
<1>. QED BY <1>1, <1>2, <1>3, <1>4, <1>5, <1>6, <1>7, <1>8, <1>9, <1>10, <1>11, <1>12 DEF Step

-----------------------------------------------------------------------------
(* The lock of serve.sh, and what is not on record. *)

\* Nobody gets into the lock where another one is, unless two have met there.
LEMMA StepApart ==
  ASSUME RunTypes, Logged, Apart, NEW c \in Runs, Step(c)
  PROVE  Apart'
<1>f. \A d \in Runs \ {c} : (Inside(d)' <=> Inside(d))
  BY StepFrame DEF Inside, Logged
<1>h. (history.raced => history'.raced) /\ history \in Histories
  BY StepRemembers DEF Logged
<1>1. Inside(c)' => Inside(c) \/ MayEnter(c)
  <2>. USE DEF RunTypes, Goto, Proceed, Ends, RollBack, Served, Unserved, Inside
  <2>1. CASE Gate(c) \/ Look(c) \/ WaitReady(c) \/ Recheck(c) \/ Find(c) \/ Reuse(c)
    BY <2>1 DEF Gate, Look, WaitReady, Recheck, Find, Reuse
  <2>2. CASE Serve(c) \/ Unserve(c)
    BY <2>2 DEF Serve, Unserve
  <2>3. CASE Prepare(c) \/ Begin(c) \/ Loaded(c) \/ Unserving(c)
    BY <2>3 DEF Prepare, Begin, Loaded, Unserving
  <2>4. CASE ExposeGate(c) \/ ExposeLaunch(c) \/ Gateway(c) \/ Tunnel(c) \/ ExposeMark(c) \/ Confirm(c) \/ Undo(c)
    BY <2>4 DEF ExposeGate, ExposeLaunch, Gateway, Tunnel, ExposeMark, Confirm, Undo, Records, CleansUp
  <2>5. CASE Close(c) \/ CheckClosed(c) \/ StopBackend(c) \/ CheckGone(c)
    BY <2>5 DEF Close, CheckClosed, StopBackend, CheckGone
  <2>6. CASE Sweep(c) \/ Survey(c) \/ CleanupGate(c) \/ Leave(c)
    BY <2>6 DEF Sweep, Survey, CleanupGate, Leave
  <2>. QED BY <2>1, <2>2, <2>3, <2>4, <2>5, <2>6 DEF Step
<1>2. ASSUME NEW d \in Runs \ {c}, Inside(d), Inside(c)'
      PROVE  history.raced
  BY <1>1, <1>2 DEF MayEnter, Raced, Apart
<1>. QED BY <1>f, <1>h, <1>2 DEF Apart

\* A run that launches a server has the record for itself.
LEMMA StepCleared ==
  ASSUME Types, Logged, Apart, Cleared, NEW c \in Runs, Step(c)
  PROVE  Cleared'
<1>h. RunTypes /\ history \in Histories /\ (history.raced => history'.raced)
  BY StepRemembers DEF Types, Logged
<1>f. \A d \in Runs \ {c} : pc'[d] = pc[d]
  BY <1>h, StepFrame
<1>1. CASE UNCHANGED backend /\ (pc'[c] \in {"prepare", "begin"} => pc[c] \in {"prepare", "begin"})
  BY <1>h, <1>f, <1>1 DEF Cleared
<1>2. CASE backend' = NoBackend
  BY <1>2 DEF Cleared
<1>3. CASE pc'[c] \notin {"prepare", "begin"} /\ (Inside(c) \/ MayEnter(c))
  <2>1. ASSUME NEW d \in Runs \ {c}, pc[d] \in {"prepare", "begin"}
        PROVE  history.raced
    <3>1. Inside(d)
      BY <2>1 DEF Inside
    <3>. QED BY <1>3, <3>1 DEF Apart, MayEnter, Raced
  <2>. QED BY <1>h, <1>f, <1>3, <2>1 DEF Cleared
<1>. USE <1>h DEF RunTypes, Goto, Proceed, Ends, RollBack, Served, Unserved
<1>4. CASE Gate(c) \/ Look(c) \/ WaitReady(c) \/ Recheck(c) \/ Find(c) \/ Reuse(c)
  BY <1>1, <1>4 DEF Gate, Look, WaitReady, Recheck, Find, Reuse
<1>5. CASE Serve(c)
  BY <1>1, <1>2, <1>5 DEF Serve
<1>6. CASE Prepare(c)
  BY <1>1, <1>6 DEF Prepare
<1>7. CASE Begin(c) \/ Loaded(c) \/ Unserving(c)
  BY <1>3, <1>7 DEF Begin, Loaded, Unserving, Inside
<1>8. CASE Unserve(c)
  BY <1>1, <1>3, <1>8 DEF Unserve
<1>9. CASE ExposeGate(c) \/ ExposeLaunch(c) \/ Gateway(c) \/ Tunnel(c) \/ ExposeMark(c) \/ Confirm(c) \/ Undo(c)
  BY <1>1, <1>9 DEF ExposeGate, ExposeLaunch, Gateway, Tunnel, ExposeMark, Confirm, Undo, Records, CleansUp
<1>10. CASE Close(c) \/ CheckClosed(c) \/ StopBackend(c) \/ CheckGone(c)
  BY <1>1, <1>10 DEF Close, CheckClosed, StopBackend, CheckGone
<1>11. CASE Sweep(c)
  <2>1. backend = NoBackend => backend' = NoBackend
    BY <1>11 DEF Sweep, NoBackend
  <2>2. pc'[c] = "survey"
    BY <1>11 DEF Sweep
  <2>. QED BY <1>f, <2>1, <2>2 DEF Cleared
<1>12. CASE Survey(c) \/ CleanupGate(c) \/ Leave(c)
  BY <1>1, <1>12 DEF Survey, CleanupGate, Leave
<1>. QED BY <1>4, <1>5, <1>6, <1>7, <1>8, <1>9, <1>10, <1>11, <1>12 DEF Step

\* A run adds to what is not on record only what it launches itself, and where it
\* means to record that; what it leaves behind is a server, of a record that was lost.
LEMMA StepStray ==
  ASSUME Types, Logged, StrayInv, NEW c \in Runs, Step(c)
  PROVE  StrayTypes' /\ Placed' /\ Explained'
<1>h. RunTypes /\ history \in Histories /\ (history.raced => history'.raced) /\ history'.cut = history.cut
  BY StepRemembers DEF Types, Logged
<1>f. \A d \in Runs \ {c} : pc'[d] = pc[d]
  BY <1>h, StepFrame
<1>n. None \notin Runs
  BY ExternalAssumption DEF ExternalAssumption
<1>o. \A k \in Kinds : <<c, k>> \in Own(c) <=> <<c, k>> \in stray
  BY DEF Own
<1>l. Lost \subseteq {<<None, "server">>}
  BY DEF Lost
<1>a. ASSUME StrayTypes',
             \A d \in Runs \ {c}, k \in Kinds : <<d, k>> \in stray' => <<d, k>> \in stray,
             \A k \in Kinds : <<c, k>> \in stray' => pc'[c] \in Launching(k),
             \A k \in Kinds : <<None, k>> \in stray' =>
               <<None, k>> \in stray \/ (k = "server" /\ history.raced)
      PROVE  StrayTypes' /\ Placed' /\ Explained'
  BY <1>h, <1>f, <1>n, <1>a DEF StrayInv, Placed, Explained
<1>b. ASSUME stray' \subseteq stray \ Own(c)
             \/ (stray' \subseteq stray /\ pc[c] \notin {"begin", "gateway", "tunnel"})
      PROVE  StrayTypes' /\ Placed' /\ Explained'
  <2>1. \A k \in Kinds : <<c, k>> \notin stray'
    BY <1>o, <1>b DEF StrayInv, Placed, Launching
  <2>2. StrayTypes'
    BY <1>b DEF StrayInv, StrayTypes
  <2>. QED BY <1>a, <1>b, <2>1, <2>2
<1>c. ASSUME stray' \subseteq stray \cup {<<None, "server">>}, history.raced, pc[c] \notin {"begin", "gateway", "tunnel"}
      PROVE  StrayTypes' /\ Placed' /\ Explained'
  <2>1. \A k \in Kinds : <<c, k>> \notin stray'
    BY <1>n, <1>c DEF StrayInv, Placed, Launching
  <2>2. StrayTypes'
    BY <1>c DEF StrayInv, StrayTypes, Kinds
  <2>. QED BY <1>a, <1>c, <1>n, <2>1, <2>2
<1>d. ASSUME NEW k \in Kinds, stray' = stray \cup {<<c, k>>}, pc'[c] \in Launching(k),
             \A l \in Kinds : pc[c] \in Launching(l) => pc'[c] \in Launching(l)
      PROVE  StrayTypes' /\ Placed' /\ Explained'
  <2>1. \A l \in Kinds : <<c, l>> \in stray' => pc'[c] \in Launching(l)
    BY <1>d DEF StrayInv, Placed
  <2>2. StrayTypes'
    BY <1>d DEF StrayInv, StrayTypes
  <2>. QED BY <1>a, <1>d, <1>n, <2>1, <2>2
<1>. USE <1>h DEF RunTypes, Proceed, Goto
<1>1. CASE Gate(c) \/ Look(c) \/ WaitReady(c) \/ Recheck(c) \/ Find(c) \/ Reuse(c)
  BY <1>1, <1>b DEF Gate, Look, WaitReady, Recheck, Find, Reuse
<1>2. CASE Serve(c) \/ Unserve(c)
  BY <1>2, <1>b DEF Serve, Unserve
<1>3. CASE Prepare(c)
  <2>1. CASE UNCHANGED stray
    BY <1>3, <1>b, <2>1 DEF Prepare
  <2>2. CASE stray' = stray \cup {<<c, "server">>} /\ Proceed(c, "begin")
    <3>1. pc'[c] = "begin" /\ pc[c] = "prepare"
      BY <1>3, <2>2 DEF Prepare
    <3>. QED BY <1>d, <2>2, <3>1 DEF Launching, Kinds
  <2>. QED BY <1>3, <2>1, <2>2 DEF Prepare
<1>4. CASE Begin(c)
  <2>1. pc[c] = "begin" /\ (stray' = (stray \ Own(c)) \cup Lost \/ stray' = stray \ Own(c))
    BY <1>4 DEF Begin
  <2>2. backend = NoBackend \/ history.raced
    BY <2>1 DEF StrayInv, Cleared
  <2>3. CASE Lost = {}
    BY <1>b, <2>1, <2>3
  <2>4. CASE history.raced
    <3>1. \A k \in Kinds : <<c, k>> \notin stray'
      BY <1>l, <1>n, <1>o, <2>1
    <3>2. stray' \subseteq stray \cup {<<None, "server">>}
      BY <1>l, <2>1
    <3>3. StrayTypes'
      BY <3>2 DEF StrayInv, StrayTypes, Kinds
    <3>. QED BY <1>a, <1>n, <2>4, <3>1, <3>2, <3>3
  <2>. QED BY <2>2, <2>3, <2>4 DEF Lost, NoBackend
<1>5. CASE Loaded(c) \/ Unserving(c)
  <2>1. /\ pc[c] \notin {"begin", "gateway", "tunnel"}
        /\ stray' = stray \/ (history.raced /\ stray' \subseteq stray \cup {<<None, "server">>})
    BY <1>5, <1>l DEF Loaded, Unserving, Raced
  <2>. QED BY <1>b, <1>c, <2>1
<1>6. CASE ExposeLaunch(c)
  <2>1. pc[c] = "launch"
    BY <1>6 DEF ExposeLaunch
  <2>2. CASE UNCHANGED stray
    BY <1>b, <2>1, <2>2
  <2>3. CASE stray' = stray \cup {<<c, "proxy">>} /\ Proceed(c, "gateway")
    BY <1>d, <2>1, <2>3 DEF Launching, Kinds
  <2>. QED BY <1>6, <2>2, <2>3 DEF ExposeLaunch
<1>7. CASE Gateway(c)
  <2>1. CASE stray' = stray \ Own(c)
    BY <1>b, <2>1
  <2>2. CASE stray' = stray \cup {<<c, "tunnel">>} /\ Proceed(c, "tunnel")
    <3>1. pc[c] = "gateway" /\ pc'[c] = "tunnel"
      BY <1>7, <2>2 DEF Gateway
    <3>. QED BY <1>d, <2>2, <3>1 DEF Launching, Kinds
  <2>. QED BY <1>7, <2>1, <2>2 DEF Gateway, Records, CleansUp
<1>8. CASE Tunnel(c)
  BY <1>8, <1>b DEF Tunnel, Records, CleansUp
<1>9. CASE ExposeGate(c) \/ ExposeMark(c) \/ Confirm(c) \/ Undo(c)
  BY <1>9, <1>b DEF ExposeGate, ExposeMark, Confirm, Undo, CleansUp
<1>10. CASE Close(c) \/ CheckClosed(c) \/ StopBackend(c) \/ CheckGone(c)
  BY <1>10, <1>b DEF Close, CheckClosed, StopBackend, CheckGone
<1>11. CASE Sweep(c) \/ Survey(c) \/ CleanupGate(c) \/ Leave(c)
  BY <1>11, <1>b DEF Sweep, Survey, CleanupGate, Leave
<1>. QED BY <1>1, <1>2, <1>3, <1>4, <1>5, <1>6, <1>7, <1>8, <1>9, <1>10, <1>11 DEF Step

-----------------------------------------------------------------------------
(* A run that nobody interferes with. *)

\* With no other run at work
Quiet(c) ==
  /\ Types /\ Logged /\ NothingLeft /\ Fresh /\ Fits(c)
  /\ Busy(c) /\ Alone(c) /\ Busy(c)' /\ Alone(c)'
  /\ \A d \in Runs \ {c} : ~Busy(d)

LEMMA QuietLock ==
  ASSUME NEW c \in Runs, Quiet(c)
  PROVE  ~Raced(c) /\ MayEnter(c) /\ ~MayBeRefused(c)
BY DEF Quiet, Busy, Raced, MayEnter, MayBeRefused, Meets, Inside

\* Only the launch of a backend, or of an ingress, is logged as such.
LEMMA LogBackend ==
  ASSUME NEW c \in Runs, Quiet(c), Step(c)
  PROVE  HasLaunched(c, "backend")' <=> HasLaunched(c, "backend") \/ (pc[c] = "prepare" /\ pc'[c] = "begin")
<1>n. RunTypes /\ history \in Histories /\ Alone(c) /\ pc'[c] # "idle"
  BY DEF Quiet, Types, Logged, Busy
<1>. USE <1>n DEF RunTypes, Goto, Proceed, Served, Ends
<1>1. CASE Prepare(c)
  <2>1. CASE Launches(c, "backend") /\ pc'[c] = "begin"
    BY <1>1, <2>1, LaunchesEffect DEF Prepare
  <2>2. CASE AtTheLock(c) /\ pc'[c] # "begin"
    BY <1>1, <2>2, LockEffect
  <2>. QED BY <1>1, <2>1, <2>2 DEF Prepare
<1>2. ASSUME ~Prepare(c) PROVE pc[c] # "prepare" /\ ~Leave(c)
  <2>1. ~Leave(c)
    BY DEF Leave
  <2>2. pc[c] # "prepare"
    BY <1>2, <2>1 DEF Step, Gate, Look, WaitReady, Recheck, Find, Reuse, Serve, Begin, Loaded, ExposeGate,
       ExposeLaunch, Gateway, Tunnel, ExposeMark, Confirm, Undo, Unserve, Unserving, Close, CheckClosed,
       StopBackend, CheckGone, Sweep, Survey, CleanupGate
  <2>. QED BY <2>1, <2>2
<1>3. CASE ExposeLaunch(c) /\ Launches(c, "ingress") /\ pc[c] = "launch"
  BY <1>3, LaunchesEffect
<1>4. CASE AtTheLock(c) /\ ~Prepare(c)
  BY <1>2, <1>4, LockEffect
<1>. QED BY <1>1, <1>2, <1>3, <1>4, StepHistory DEF HasLaunched

LEMMA LogIngress ==
  ASSUME NEW c \in Runs, Quiet(c), Step(c)
  PROVE  HasLaunched(c, "ingress")' <=> HasLaunched(c, "ingress") \/ (pc[c] = "launch" /\ pc'[c] = "gateway")
<1>n. RunTypes /\ history \in Histories /\ Alone(c) /\ pc'[c] # "idle"
  BY DEF Quiet, Types, Logged, Busy
<1>. USE <1>n DEF RunTypes, Goto, Proceed
<1>1. CASE ExposeLaunch(c)
  <2>1. CASE Launches(c, "ingress") /\ pc'[c] = "gateway"
    BY <1>1, <2>1, LaunchesEffect DEF ExposeLaunch
  <2>2. CASE UNCHANGED history /\ pc'[c] # "gateway"
    BY <1>1, <2>2 DEF HasLaunched
  <2>. QED BY <1>1, <2>1, <2>2 DEF ExposeLaunch
<1>2. ASSUME ~ExposeLaunch(c) PROVE pc[c] # "launch" /\ ~Leave(c)
  <2>1. ~Leave(c)
    BY DEF Leave
  <2>2. pc[c] # "launch"
    BY <1>2, <2>1 DEF Step, Gate, Look, WaitReady, Recheck, Find, Reuse, Serve, Prepare, Begin, Loaded,
       ExposeGate, Gateway, Tunnel, ExposeMark, Confirm, Undo, Unserve, Unserving, Close, CheckClosed,
       StopBackend, CheckGone, Sweep, Survey, CleanupGate
  <2>. QED BY <2>1, <2>2
<1>3. CASE Launches(c, "backend") /\ pc[c] = "prepare"
  BY <1>3, LaunchesEffect
<1>4. CASE AtTheLock(c) /\ ~ExposeLaunch(c)
  BY <1>2, <1>4, LockEffect
<1>. QED BY <1>1, <1>2, <1>3, <1>4, StepHistory DEF HasLaunched, ExposeLaunch

LEMMA StepOwnBackend ==
  ASSUME NEW c \in Runs, Quiet(c), OwnBackend(c), Step(c)
  PROVE  OwnBackend(c)'
<1>n. None \notin Runs /\ RunTypes /\ history \in Histories /\ Fits(c) /\ NothingLeft
  BY ExternalAssumption DEF ExternalAssumption, Quiet, Types, Logged
<1>l. HasLaunched(c, "backend")' <=> HasLaunched(c, "backend") \/ (pc[c] = "prepare" /\ pc'[c] = "begin")
  BY LogBackend
<1>q. ~Raced(c) /\ MayEnter(c) /\ ~MayBeRefused(c)
  BY QuietLock
<1>. USE <1>n, <1>l, <1>q DEF OwnBackend, Fits, RunTypes, Jobs, Goto, Proceed, Ends, RollBack, Served, Unserved,
         Starting, Serving, Responsible, Stops, StopsAll, NothingLeft
<1>1. CASE Gate(c) \/ Look(c) \/ WaitReady(c) \/ Recheck(c)
  BY <1>1 DEF Gate, Look, WaitReady, Recheck, BackendStatus, CanonicalReady, CanonicalStarting
<1>2. CASE Find(c) \/ Reuse(c)
  BY <1>2 DEF Find, Reuse
<1>3. CASE Serve(c)
  BY <1>3 DEF Serve, BackendStatus, NoBackend
<1>4. CASE Prepare(c) \/ Begin(c)
  BY <1>4 DEF Prepare, Begin, NoBackend
<1>5. CASE Loaded(c)
  BY <1>5 DEF Loaded, NoBackend
<1>6. CASE ExposeGate(c) \/ ExposeLaunch(c) \/ Gateway(c) \/ Tunnel(c) \/ ExposeMark(c)
  BY <1>6 DEF ExposeGate, ExposeLaunch, Gateway, Tunnel, ExposeMark, Records, CleansUp
<1>7. CASE Confirm(c) \/ Undo(c)
  BY <1>7 DEF Confirm, Undo
<1>8. CASE Unserve(c)
  BY <1>8 DEF Unserve
<1>9. CASE Unserving(c)
  BY <1>9 DEF Unserving
<1>10. CASE Close(c) \/ CheckClosed(c) \/ StopBackend(c) \/ CheckGone(c)
  BY <1>10 DEF Close, CheckClosed, StopBackend, CheckGone
<1>11. CASE Sweep(c) \/ Survey(c) \/ CleanupGate(c)
  BY <1>11 DEF Sweep, Survey, CleanupGate
<1>12. CASE Leave(c)
  BY <1>12 DEF Leave, Quiet, Busy
<1>. QED BY <1>1, <1>2, <1>3, <1>4, <1>5, <1>6, <1>7, <1>8, <1>9, <1>10, <1>11, <1>12 DEF Step

LEMMA StepOwnIngress ==
  ASSUME NEW c \in Runs, Quiet(c), OwnIngress(c), Step(c)
  PROVE  OwnIngress(c)'
<1>n. RunTypes /\ Fits(c)
  BY DEF Quiet, Types
<1>l. HasLaunched(c, "ingress")' <=> HasLaunched(c, "ingress") \/ (pc[c] = "launch" /\ pc'[c] = "gateway")
  BY LogIngress
<1>. USE <1>n, <1>l DEF OwnIngress, Fits, RunTypes, Jobs, Goto, Proceed, Ends, RollBack, Served, Unserved,
         Starting, Serving, Stops, StopsAll
<1>1. CASE Gate(c) \/ Look(c) \/ WaitReady(c) \/ Recheck(c)
  BY <1>1 DEF Gate, Look, WaitReady, Recheck
<1>2. CASE Find(c) \/ Reuse(c)
  BY <1>2 DEF Find, Reuse
<1>3. CASE Serve(c)
  BY <1>3 DEF Serve
<1>4. CASE Prepare(c) \/ Begin(c)
  BY <1>4 DEF Prepare, Begin
<1>5. CASE Loaded(c)
  BY <1>5 DEF Loaded
<1>6. CASE ExposeGate(c) \/ ExposeLaunch(c) \/ Gateway(c) \/ Tunnel(c) \/ ExposeMark(c)
  BY <1>6 DEF ExposeGate, ExposeLaunch, Gateway, Tunnel, ExposeMark, Records, CleansUp
<1>7. CASE Confirm(c) \/ Undo(c)
  BY <1>7 DEF Confirm, Undo
<1>8. CASE Unserve(c)
  BY <1>8 DEF Unserve
<1>9. CASE Unserving(c)
  BY <1>9 DEF Unserving
<1>10. CASE Close(c) \/ CheckClosed(c) \/ StopBackend(c) \/ CheckGone(c)
  BY <1>10 DEF Close, CheckClosed, StopBackend, CheckGone
<1>11. CASE Sweep(c) \/ Survey(c) \/ CleanupGate(c)
  BY <1>11 DEF Sweep, Survey, CleanupGate, Matched
<1>12. CASE Leave(c)
  BY <1>12 DEF Leave, Quiet, Busy
<1>. QED BY <1>1, <1>2, <1>3, <1>4, <1>5, <1>6, <1>7, <1>8, <1>9, <1>10, <1>11, <1>12 DEF Step

\* What lives is matched, on record or not.
LEMMA MatchedAll ==
  /\ backend.life # "down" => "server" \in Matched
  /\ ingress.proxy => "proxy" \in Matched
  /\ ingress.tunnel => "tunnel" \in Matched
  /\ Matched = {} => backend.life = "down" /\ ~ingress.proxy /\ ~ingress.tunnel /\ stray = {}
<1>1. Recorded \subseteq Matched /\ \A s \in stray : s[2] \in Matched
  BY DEF Matched, Unrecorded
<1>2. /\ backend.life # "down" => "server" \in Recorded
      /\ ingress.proxy => "proxy" \in Recorded
      /\ ingress.tunnel => "tunnel" \in Recorded
  BY DEF Recorded, Kinds
<1>. QED BY <1>1, <1>2

\* To sweep where nothing is changes nothing.
LEMMA SweepClosed ==
  ASSUME NEW c \in Runs, Sweep(c), ingress = Closed
  PROVE  ingress' = Closed
<1>1. ingress' = [ingress EXCEPT !.proxy = @ /\ "proxy" \notin Matched, !.tunnel = @ /\ "tunnel" \notin Matched]
  BY DEF Sweep
<1>2. ingress.proxy = FALSE /\ ingress.tunnel = FALSE
  BY DEF Closed
<1>3. (ingress.proxy /\ "proxy" \notin Matched) = FALSE /\ (ingress.tunnel /\ "tunnel" \notin Matched) = FALSE
  BY <1>2
<1>4. ingress' = [ingress EXCEPT !.proxy = FALSE, !.tunnel = FALSE]
  BY <1>1, <1>3
<1>. QED BY <1>4 DEF Closed

\* A stop goes on to the backend only when the ingress is down.
LEMMA StepStopsInOrder ==
  ASSUME NEW c \in Runs, Quiet(c), StopsInOrder(c), Step(c)
  PROVE  StopsInOrder(c)'
<1>n. RunTypes /\ WorldTypes /\ Fits(c) /\ NothingLeft
  BY DEF Quiet, Types
<1>r. BackendStatus = "stopped" => backend = NoBackend
  BY <1>n DEF BackendStatus, NothingLeft
<1>q. ~Raced(c) /\ MayEnter(c) /\ ~MayBeRefused(c)
  BY QuietLock
<1>. USE <1>n, <1>r, <1>q DEF StopsInOrder, Finished, Fits, RunTypes, Jobs, Goto, Proceed, Ends, RollBack, Served,
         Unserved, Starting, Serving, Stops, StopsAll, Closed, NoBackend, WorldTypes, Backends, Ingresses
<1>1. CASE Gate(c) \/ Look(c) \/ WaitReady(c) \/ Recheck(c)
  BY <1>1 DEF Gate, Look, WaitReady, Recheck
<1>2. CASE Find(c) \/ Reuse(c)
  BY <1>2 DEF Find, Reuse
<1>3. CASE Serve(c)
  BY <1>3 DEF Serve
<1>4. CASE Prepare(c) \/ Begin(c)
  BY <1>4 DEF Prepare, Begin
<1>5. CASE Loaded(c)
  BY <1>5 DEF Loaded
<1>6. CASE ExposeGate(c) \/ ExposeLaunch(c) \/ Gateway(c) \/ Tunnel(c) \/ ExposeMark(c)
  BY <1>6 DEF ExposeGate, ExposeLaunch, Gateway, Tunnel, ExposeMark, Records, CleansUp
<1>7. CASE Confirm(c) \/ Undo(c)
  BY <1>7 DEF Confirm, Undo
<1>8. CASE Unserve(c)
  BY <1>8 DEF Unserve
<1>9. CASE Unserving(c)
  BY <1>9 DEF Unserving
<1>10. CASE Close(c) \/ CheckClosed(c) \/ StopBackend(c) \/ CheckGone(c)
  BY <1>10 DEF Close, CheckClosed, StopBackend, CheckGone
<1>11. CASE Sweep(c) \/ Survey(c) \/ CleanupGate(c)
  <2>1. CASE Sweep(c)
    <3>1. ingress = Closed => ingress' = Closed
      BY <2>1, SweepClosed
    <3>2. backend = NoBackend => backend' = NoBackend
      BY <2>1 DEF Sweep
    <3>. QED BY <2>1, <3>1, <3>2 DEF Sweep
  <2>2. CASE Survey(c)
    <3>1. Matched = {} => backend.life = "down" /\ ~ingress.proxy /\ ~ingress.tunnel /\ stray = {}
      BY MatchedAll
    <3>2. UNCHANGED <<backend, ingress, stray>> /\ pc[c] = "survey"
      BY <2>2 DEF Survey
    <3>3. CASE pc' = [pc EXCEPT ![c] = "swept"] /\ UNCHANGED job /\ Matched = {}
      BY <3>1, <3>2, <3>3
    <3>4. CASE pc' = [pc EXCEPT ![c] = "done"] /\ job' = [job EXCEPT ![c].ok = FALSE]
      BY <3>2, <3>4
    <3>. QED BY <2>2, <3>3, <3>4 DEF Survey
  <2>3. CASE CleanupGate(c)
    BY <2>3 DEF CleanupGate
  <2>. QED BY <1>11, <2>1, <2>2, <2>3
<1>12. CASE Leave(c)
  BY <1>12 DEF Leave, Quiet, Busy
<1>. QED BY <1>1, <1>2, <1>3, <1>4, <1>5, <1>6, <1>7, <1>8, <1>9, <1>10, <1>11, <1>12 DEF Step

\* A start that goes on has looked at what it goes on with.
LEMMA StepStartsRight ==
  ASSUME NEW c \in Runs, Quiet(c), StartsRight(c), Step(c)
  PROVE  StartsRight(c)'
<1>n. RunTypes /\ WorldTypes /\ Fits(c) /\ history \in Histories /\ pc'[c] # "idle"
  BY DEF Quiet, Types, Logged, Busy
<1>f. c \in history'.faulted <=> c \in history.faulted
  BY <1>n, StepRemembers
<1>b. UNCHANGED backend => (CanonicalReady' <=> CanonicalReady)
  BY DEF CanonicalReady, BackendStatus
<1>i. UNCHANGED ingress => (IngressReady' <=> IngressReady)
  BY DEF IngressReady, IngressStatus
<1>. USE <1>n, <1>f, <1>b, <1>i DEF StartsRight, Finished, Fits, RunTypes, Jobs, Goto, Proceed, Ends, RollBack,
         Served, Unserved, Starting, Serving, Stops, StopsAll
<1>1. CASE Gate(c) \/ Look(c) \/ WaitReady(c) \/ Recheck(c)
  BY <1>1 DEF Gate, Look, WaitReady, Recheck
<1>2. CASE Find(c) \/ Reuse(c)
  BY <1>2 DEF Find, Reuse, HasEndpoint
<1>3. CASE Serve(c)
  <2>1. CASE Proceed(c, "prepare")
    BY <1>3, <2>1 DEF Serve
  <2>2. ASSUME NEW ok \in BOOLEAN, Served(c, ok)
        PROVE  pc'[c] \notin Serving \cup {"reuse", "confirm"} /\ ~Finished(c, "start", TRUE)'
    BY <1>3, <2>2 DEF Serve
  <2>. QED BY <1>3, <2>1, <2>2 DEF Serve
<1>4. CASE Prepare(c) \/ Begin(c)
  BY <1>4 DEF Prepare, Begin
<1>5. CASE Loaded(c)
  BY <1>5 DEF Loaded
<1>6. CASE ExposeGate(c) \/ ExposeLaunch(c) \/ Gateway(c) \/ Tunnel(c)
  BY <1>6 DEF ExposeGate, ExposeLaunch, Gateway, Tunnel, Records, CleansUp
<1>7. CASE ExposeMark(c)
  BY <1>7 DEF ExposeMark, CleansUp, WorldTypes, Ingresses
<1>8. CASE Confirm(c) \/ Undo(c)
  BY <1>8 DEF Confirm, Undo
<1>9. CASE Unserve(c)
  BY <1>9 DEF Unserve
<1>10. CASE Unserving(c)
  BY <1>10 DEF Unserving
<1>11. CASE Close(c) \/ CheckClosed(c) \/ StopBackend(c) \/ CheckGone(c)
  BY <1>11 DEF Close, CheckClosed, StopBackend, CheckGone
<1>12. CASE Sweep(c) \/ Survey(c) \/ CleanupGate(c) \/ Leave(c)
  BY <1>12 DEF Sweep, Survey, CleanupGate, Leave
<1>. QED BY <1>1, <1>2, <1>3, <1>4, <1>5, <1>6, <1>7, <1>8, <1>9, <1>10, <1>11, <1>12 DEF Step

\* The step of one run, seen from every run
LEMMA StepInv ==
  ASSUME ExternalInv, ReaderTypes', NEW c \in Runs, Step(c)
  PROVE  ExternalInv'
<1>i. Types /\ StrayInv /\ Logged /\ Sole /\ Fresh /\ NothingLeft /\ RunInv
  BY TypeParts DEF ExternalInv
<1>h. RunTypes /\ WorldTypes /\ history \in Histories
  BY <1>i DEF Types, Logged
<1>8. StrayInv'
  BY <1>i, <1>h, StepApart, StepCleared, StepStray DEF StrayInv
<1>1. TypeOK'
  BY <1>i, <1>h, <1>8, StepRunTypes, StepWorldTypes, TypeParts DEF Types, StrayInv
<1>2. Logged'
  BY <1>h, StepRemembers DEF Logged
<1>3. Sole' /\ Fresh' /\ NothingLeft'
  BY <1>i, <1>h, StepSoleFresh, StepNothingLeft
<1>4. ASSUME NEW d \in Runs, d # c
      PROVE  Fits(d)' /\ (Busy(d)' => ~Alone(d)')
  <2>1. pc'[d] = pc[d] /\ job'[d] = job[d] /\ Busy(c) /\ (Alone(d)' <=> Alone(d))
    BY <1>h, <1>4, StepFrame, StepRemembers
  <2>2. Fits(d)'
    BY <1>i, <2>1 DEF RunInv, Fits
  <2>. QED BY <1>i, <1>4, <2>1, <2>2 DEF Sole, Busy
<1>5. Fits(c)'
  BY <1>i, <1>h, StepFits DEF RunInv
<1>6. ASSUME Busy(c)', Alone(c)'
      PROVE  Unaided(c)'
  <2>1. Busy(c) /\ Alone(c)
    BY <1>h, <1>6, StepFrame, StepRemembers DEF Busy
  <2>2. \A d \in Runs \ {c} : ~Busy(d)
    BY <1>i, <2>1 DEF Sole
  <2>3. Quiet(c) /\ Unaided(c)
    BY <1>i, <1>6, <2>1, <2>2 DEF Quiet, RunInv
  <2>. QED BY <2>3, StepOwnBackend, StepOwnIngress, StepStopsInOrder, StepStartsRight DEF Unaided
<1>7. RunInv'
  BY <1>4, <1>5, <1>6 DEF RunInv
<1>. QED BY <1>1, <1>2, <1>3, <1>7, <1>8 DEF ExternalInv

\* A run that comes while another is at work makes both not alone.
LEMMA InvokeInv ==
  ASSUME ExternalInv, ReaderTypes', NEW c \in Runs, Invoke(c)
  PROVE  ExternalInv'
<1>i. Types /\ StrayInv /\ Logged /\ Sole /\ Fresh /\ NothingLeft /\ RunInv
  BY TypeParts DEF ExternalInv
<1>h. RunTypes /\ WorldTypes /\ history \in Histories
  BY <1>i DEF Types, Logged
<1>. DEFINE others == {d \in Runs \ {c} : Busy(d)}
<1>1. PICK cmd \in Commands, m \in Modes, p \in Profiles :
        /\ job' = [job EXCEPT ![c] = [NoJob EXCEPT !.cmd = cmd, !.mode = m, !.profile = p]]
        /\ Goto(c, CASE cmd = "start" -> "gate"
                     [] cmd \in {"stop"} \cup StopsAll -> "close"
                     [] cmd = "serve-start" -> "serve"
                     [] OTHER -> "unserve")
  BY DEF Invoke
<1>p. p \in {"dflash2", "baseline"}
  BY ExternalAssumption DEF ExternalAssumption
<1>2. /\ pc'[c] = CASE cmd = "start" -> "gate"
                    [] cmd \in {"stop"} \cup StopsAll -> "close"
                    [] cmd = "serve-start" -> "serve"
                    [] OTHER -> "unserve"
      /\ pc'[c] \in {"gate", "close", "serve", "unserve"}
      /\ \A d \in Runs \ {c} : pc'[d] = pc[d] /\ job'[d] = job[d]
      /\ pc' \in [Runs -> PcStates]
  BY <1>h, <1>1 DEF Goto, RunTypes, PcStates, StopsAll, Commands
<1>3. /\ job'[c] = [cmd |-> cmd, mode |-> m, profile |-> p, ok |-> TRUE, startedHere |-> FALSE, wasStopped |-> FALSE]
      /\ job' \in [Runs -> Jobs]
  BY <1>h, <1>1, <1>p DEF NoJob, RunTypes, Jobs
<1>4. /\ pc[c] = "idle" /\ UNCHANGED <<backend, ingress, stray>>
      /\ history' \in Histories
      /\ history'.overlapped = IF others = {} THEN history.overlapped ELSE history.overlapped \cup others \cup {c}
      /\ history'.faulted = history.faulted \ others
      /\ history'.launched = {l \in history.launched : l[1] \notin others}
      /\ history'.raced = history.raced /\ history'.cut = history.cut
  <2>1. history' = [history EXCEPT !.runs = @ + 1,
                      !.overlapped = IF others = {} THEN @ ELSE @ \cup others \cup {c},
                      !.faulted = @ \ others,
                      !.launched = {l \in @ : l[1] \notin others}]
    BY DEF Invoke
  <2>2. others \subseteq Runs
    OBVIOUS
  <2>3. pc[c] = "idle" /\ UNCHANGED <<backend, ingress, stray>>
    BY DEF Invoke, Busy
  <2>. HIDE DEF others
  <2>4. /\ history'.overlapped = IF others = {} THEN history.overlapped ELSE history.overlapped \cup others \cup {c}
        /\ history'.faulted = history.faulted \ others
        /\ history'.launched = {l \in history.launched : l[1] \notin others}
        /\ history'.raced = history.raced /\ history'.cut = history.cut
    BY <1>h, <2>1 DEF Histories
  <2>5. history' \in Histories
    <3>1. /\ history.runs + 1 \in Nat
          /\ (IF others = {} THEN history.overlapped ELSE history.overlapped \cup others \cup {c}) \in SUBSET Runs
          /\ history.faulted \ others \in SUBSET Runs
          /\ {l \in history.launched : l[1] \notin others} \in SUBSET (Runs \X {"backend", "ingress"})
      BY <1>h, <2>2 DEF Histories
    <3>. QED BY <1>h, <2>1, <3>1 DEF Histories
  <2>. QED BY <2>3, <2>4, <2>5
<1>5. TypeOK' /\ StrayInv' /\ Logged' /\ NothingLeft'
  <2>1. Types'
    BY <1>i, <1>2, <1>3, <1>4 DEF Types, RunTypes, WorldTypes
  <2>2. Logged' /\ NothingLeft'
    BY <1>i, <1>4 DEF Logged, NothingLeft
  <2>3. \A d \in Runs : pc'[d] = pc[d] \/ (d = c /\ pc[d] = "idle" /\ pc'[d] \in {"gate", "close", "serve", "unserve"})
    BY <1>2, <1>4
  <2>4. Apart' /\ Cleared'
    BY <1>i, <1>4, <2>3 DEF StrayInv, Apart, Cleared, Inside
  <2>5. StrayTypes' /\ Placed' /\ Explained'
    BY <1>i, <1>4, <2>3 DEF StrayInv, StrayTypes, Placed, Explained, Launching
  <2>. QED BY <2>1, <2>2, <2>4, <2>5, TypeParts DEF StrayInv
<1>6. \A d \in Runs \ {c} : Busy(d)' => Busy(d) /\ ~Alone(d)' /\ ~Alone(c)'
  BY <1>2, <1>4 DEF Busy, Alone
<1>7. Sole'
  <2>1. \A d, e \in Runs : Busy(d) /\ Busy(e) /\ d # e => ~Alone(d)'
    BY <1>i, <1>4 DEF Sole, Alone
  <2>. QED BY <1>6, <2>1 DEF Sole
<1>8. Fresh'
  BY <1>i, <1>2, <1>4 DEF Fresh, Busy, HasLaunched
<1>9. RunInv'
  <2>1. \A d \in Runs \ {c} : Fits(d)'
    BY <1>i, <1>2 DEF RunInv, Fits
  <2>2. Fits(c)'
    BY <1>2, <1>3 DEF Fits, Starting, Stops, StopsAll, Commands
  <2>3. ASSUME Alone(c)' PROVE Unaided(c)'
    <3>1. others = {} /\ ~HasLaunched(c, "backend")' /\ ~HasLaunched(c, "ingress")'
      BY <1>i, <1>4, <2>3 DEF Fresh, Busy, HasLaunched, Alone
    <3>2. pc'[c] = "serve" => cmd # "start"
      BY <1>2
    <3>. QED BY <1>2, <1>3, <3>1, <3>2 DEF Unaided, OwnBackend, OwnIngress, StopsInOrder, StartsRight, Finished,
         Serving, Stops, StopsAll
  <2>. QED BY <1>6, <2>1, <2>2, <2>3 DEF RunInv
<1>. QED BY <1>5, <1>7, <1>8, <1>9 DEF ExternalInv

\* A run that is killed is forgotten; what it held is free again.
LEMMA AbandonInv ==
  ASSUME ExternalInv, ReaderTypes', NEW c \in Runs, Abandon(c)
  PROVE  ExternalInv'
<1>i. Types /\ StrayInv /\ Logged /\ Sole /\ Fresh /\ NothingLeft /\ RunInv
  BY TypeParts DEF ExternalInv
<1>h. RunTypes /\ WorldTypes /\ history \in Histories /\ None \notin Runs
  BY <1>i, ExternalAssumption DEF Types, Logged, ExternalAssumption
<1>1. /\ Busy(c) /\ pc'[c] = "idle" /\ job'[c] = NoJob
      /\ \A d \in Runs \ {c} : pc'[d] = pc[d] /\ job'[d] = job[d]
      /\ UNCHANGED <<backend, ingress>>
      /\ stray' = (stray \ Own(c)) \cup {<<None, s[2]>> : s \in Own(c)}
  BY <1>h DEF Abandon, Goto, RunTypes
<1>2. RunTypes'
  BY <1>h, NoteTypes DEF Abandon, PcStates
<1>3. /\ history' \in Histories
      /\ history'.raced = history.raced /\ (history'.cut <=> history.cut \/ Own(c) # {})
      /\ \A d \in Runs \ {c} : (Alone(d)' <=> Alone(d))
      /\ \A d \in Runs \ {c}, what \in {"backend", "ingress"} : (HasLaunched(d, what)' <=> HasLaunched(d, what))
      /\ \A what \in {"backend", "ingress"} : ~HasLaunched(c, what)'
  <2>1. PICK h : h = Forgotten(c)
    OBVIOUS
  <2>2. PICK b \in BOOLEAN : b <=> history.cut \/ Own(c) # {}
    OBVIOUS
  <2>3. /\ h \in Histories /\ h.raced = history.raced /\ h.cut = history.cut
        /\ h.overlapped = history.overlapped \ {c}
        /\ h.faulted = history.faulted \ {c}
        /\ h.launched = {l \in history.launched : l[1] # c}
    BY <1>h, <2>1, ForgetEffect
  <2>4. history' = [h EXCEPT !.cut = b]
    <3>1. history' = [h EXCEPT !.cut = h.cut \/ Own(c) # {}]
      BY <2>1 DEF Abandon
    <3>2. (h.cut \/ Own(c) # {}) = b
      BY <2>2, <2>3
    <3>. QED BY <3>1, <3>2
  <2>5. /\ history' \in Histories /\ history'.raced = history.raced /\ history'.cut = b
        /\ history'.overlapped = history.overlapped \ {c}
        /\ history'.faulted = history.faulted \ {c}
        /\ history'.launched = {l \in history.launched : l[1] # c}
    BY <2>3, <2>4 DEF Histories
  <2>. QED BY <1>h, <2>2, <2>5, ForgetsOne
<1>4. TypeOK' /\ StrayInv' /\ Logged' /\ NothingLeft'
  <2>1. Apart' /\ Cleared'
    BY <1>i, <1>1, <1>3 DEF StrayInv, Apart, Cleared, Inside
  <2>2. Logged' /\ NothingLeft' /\ WorldTypes'
    BY <1>i, <1>h, <1>1, <1>3 DEF Logged, NothingLeft, WorldTypes
  <2>3. StrayTypes' /\ Placed' /\ Explained'
    <3>1. \A k \in Kinds, d \in Runs : <<d, k>> \in stray' => d # c /\ <<d, k>> \in stray
      BY <1>h, <1>1 DEF Own
    <3>2. \A k \in Kinds : <<None, k>> \in stray' => <<None, k>> \in stray \/ Own(c) # {}
      BY <1>1
    <3>3. StrayTypes'
      <4>1. \A s \in Own(c) : s[2] \in Kinds
        BY <1>i DEF StrayInv, StrayTypes, Own
      <4>. QED BY <1>i, <1>1, <4>1 DEF StrayInv, StrayTypes
    <3>. QED BY <1>i, <1>1, <1>3, <3>1, <3>2, <3>3 DEF StrayInv, Placed, Explained
  <2>. QED BY <1>2, <2>1, <2>2, <2>3, TypeParts DEF Types, StrayInv
<1>5. Sole' /\ Fresh'
  BY <1>i, <1>1, <1>3 DEF Sole, Fresh, Busy
<1>6. RunInv'
  <2>1. \A d \in Runs \ {c} : Fits(d)' /\ (Busy(d)' => ~Alone(d)')
    BY <1>i, <1>1, <1>3 DEF RunInv, Fits, Sole, Busy
  <2>2. Fits(c)' /\ ~Busy(c)'
    BY <1>1 DEF Fits, Busy, NoJob, Starting
  <2>. QED BY <2>1, <2>2 DEF RunInv
<1>. QED BY <1>4, <1>5, <1>6 DEF ExternalInv

\* A server comes up, or does not get its port: nothing that a run relies on is
\* about a server that loads, or that nobody knows of.
LEMMA ServersInv ==
  ASSUME ExternalInv, ReaderTypes', Loads \/ Clash
  PROVE  ExternalInv'
<1>i. Types /\ StrayInv /\ Logged /\ Sole /\ Fresh /\ NothingLeft /\ RunInv
  BY TypeParts DEF ExternalInv
<1>1. /\ UNCHANGED <<pc, job, ingress, history>>
      /\ stray' \subseteq stray
      /\ \/ UNCHANGED backend
         \/ /\ backend.life = "loading"
            /\ \E l \in {"up", "down"} : backend' = [backend EXCEPT !.life = l]
  BY DEF Loads, Clash, Frame
<1>2. /\ Types' /\ NothingLeft' /\ (backend = NoBackend => backend' = NoBackend)
      /\ backend.life = "down" => backend'.life = "down"
      /\ CanonicalReady => CanonicalReady'
  <2>1. CASE UNCHANGED backend
    BY <1>i, <1>1, <2>1 DEF Types, RunTypes, WorldTypes, NothingLeft, CanonicalReady, BackendStatus
  <2>2. ASSUME NEW l \in {"up", "down"}, backend.life = "loading", backend' = [backend EXCEPT !.life = l]
        PROVE  /\ Types' /\ NothingLeft' /\ (backend = NoBackend => backend' = NoBackend)
               /\ backend.life = "down" => backend'.life = "down"
               /\ CanonicalReady => CanonicalReady'
    BY <1>i, <1>1, <2>2 DEF Types, RunTypes, WorldTypes, Backends, NothingLeft, NoBackend, CanonicalReady, BackendStatus
  <2>. QED BY <1>1, <2>1, <2>2
<1>3. StrayInv' /\ Logged' /\ Sole' /\ Fresh'
  BY <1>i, <1>1, <1>2 DEF StrayInv, Apart, Cleared, StrayTypes, Placed, Explained, Inside, Logged, Sole, Fresh,
     Busy, Alone, HasLaunched
<1>4. IngressReady' <=> IngressReady
  BY <1>1 DEF IngressReady, IngressStatus
<1>5. ASSUME NEW c \in Runs, Unaided(c)
      PROVE  Unaided(c)'
  <2>1. OwnBackend(c)'
    BY <1>1, <1>2, <1>5 DEF Unaided, OwnBackend, HasLaunched
  <2>2. OwnIngress(c)'
    BY <1>1, <1>5 DEF Unaided, OwnIngress, HasLaunched
  <2>3. StopsInOrder(c)'
    BY <1>1, <1>2, <1>5 DEF Unaided, StopsInOrder, Finished
  <2>4. StartsRight(c)'
    BY <1>1, <1>2, <1>4, <1>5 DEF Unaided, StartsRight, Finished
  <2>. QED BY <2>1, <2>2, <2>3, <2>4 DEF Unaided
<1>6. RunInv'
  BY <1>i, <1>1, <1>5 DEF RunInv, Fits, Busy, Alone
<1>. QED BY <1>2, <1>3, <1>6, TypeParts DEF ExternalInv, StrayInv

\* What is down cannot die; of a run that has seen something die nothing is
\* promised that depends on it.
LEMMA FaultInv ==
  ASSUME ExternalInv, ReaderTypes', Fault
  PROVE  ExternalInv'
<1>i. Types /\ StrayInv /\ Logged /\ Sole /\ Fresh /\ NothingLeft /\ RunInv
  BY TypeParts DEF ExternalInv
<1>h. RunTypes /\ WorldTypes /\ history \in Histories
  BY <1>i DEF Types, Logged
<1>1. /\ UNCHANGED <<pc, job>> /\ stray' \subseteq stray
      /\ history' \in Histories
      /\ history'.raced = history.raced /\ history'.cut = history.cut
      /\ history'.overlapped = history.overlapped /\ history'.launched = history.launched
      /\ history'.faulted = history.faulted \cup {c \in Runs : Busy(c) /\ Alone(c)}
  <2>1. /\ UNCHANGED <<pc, job>> /\ stray' \subseteq stray
        /\ history' = [history EXCEPT !.faults = @ + 1, !.faulted = @ \cup {c \in Runs : Busy(c) /\ Alone(c)}]
    BY DEF Fault
  <2>. DEFINE witnesses == {c \in Runs : Busy(c) /\ Alone(c)}
  <2>2. witnesses \subseteq Runs /\ history' = [history EXCEPT !.faults = @ + 1, !.faulted = @ \cup witnesses]
    BY <2>1
  <2>. HIDE DEF witnesses
  <2>3. /\ history'.overlapped = history.overlapped /\ history'.launched = history.launched
        /\ history'.faulted = history.faulted \cup witnesses
        /\ history'.raced = history.raced /\ history'.cut = history.cut
    BY <1>h, <2>2 DEF Histories
  <2>4. history' \in Histories
    <3>1. history.faults + 1 \in Nat /\ history.faulted \cup witnesses \in SUBSET Runs
      BY <1>h, <2>2 DEF Histories
    <3>. QED BY <1>h, <2>2, <3>1 DEF Histories
  <2>. QED BY <2>1, <2>3, <2>4 DEF witnesses
<1>2. /\ backend = NoBackend => backend' = NoBackend
      /\ backend.life = "down" => backend'.life = "down"
      /\ backend' \in Backends /\ NothingLeft'
  BY <1>i, <1>h DEF Fault, NoBackend, NothingLeft, WorldTypes, Backends
<1>3. /\ ingress = Closed => ingress' = Closed
      /\ ~ingress.proxy => ~ingress'.proxy
      /\ ~ingress.tunnel => ~ingress'.tunnel
      /\ ingress' \in Ingresses
  <2>1. CASE UNCHANGED ingress
    BY <1>h, <2>1 DEF WorldTypes
  <2>2. CASE ingress.proxy /\ ingress' = [ingress EXCEPT !.proxy = FALSE]
    <3>1. ingress'.proxy = FALSE /\ ingress'.tunnel = ingress.tunnel
      BY <1>h, <2>2 DEF WorldTypes, Ingresses
    <3>2. ingress' \in Ingresses
      BY <1>h, <2>2 DEF WorldTypes, Ingresses
    <3>3. ingress # Closed
      BY <2>2 DEF Closed
    <3>. QED BY <3>1, <3>2, <3>3
  <2>3. CASE ingress.tunnel /\ ingress' = [ingress EXCEPT !.tunnel = FALSE]
    <3>1. ingress'.tunnel = FALSE /\ ingress'.proxy = ingress.proxy
      BY <1>h, <2>3 DEF WorldTypes, Ingresses
    <3>2. ingress' \in Ingresses
      BY <1>h, <2>3 DEF WorldTypes, Ingresses
    <3>3. ingress # Closed
      BY <2>3 DEF Closed
    <3>. QED BY <3>1, <3>2, <3>3
  <2>. QED BY <2>1, <2>2, <2>3 DEF Fault
<1>4. Types' /\ StrayInv' /\ Logged' /\ Sole' /\ Fresh'
  <2>1. Types' /\ Logged' /\ Sole' /\ Fresh'
    BY <1>i, <1>1, <1>2, <1>3 DEF Types, RunTypes, WorldTypes, Logged, Sole, Fresh, Busy, Alone, HasLaunched
  <2>2. StrayInv'
    BY <1>i, <1>1, <1>2 DEF StrayInv, Apart, Cleared, StrayTypes, Placed, Explained, Inside
  <2>. QED BY <2>1, <2>2
<1>5. ASSUME NEW c \in Runs, Busy(c), Alone(c), Unaided(c)
      PROVE  Unaided(c)'
  <2>1. OwnBackend(c)'
    BY <1>1, <1>2, <1>5 DEF Unaided, OwnBackend, HasLaunched
  <2>2. OwnIngress(c)'
    BY <1>1, <1>3, <1>5 DEF Unaided, OwnIngress, HasLaunched
  <2>3. StopsInOrder(c)'
    BY <1>1, <1>2, <1>3, <1>5 DEF Unaided, StopsInOrder, Finished
  <2>4. StartsRight(c)'
    BY <1>1, <1>5 DEF StartsRight
  <2>. QED BY <2>1, <2>2, <2>3, <2>4 DEF Unaided
<1>6. RunInv'
  BY <1>i, <1>1, <1>5 DEF RunInv, Fits, Busy, Alone
<1>. QED BY <1>2, <1>4, <1>6, TypeParts DEF ExternalInv, StrayInv

\* Everything but the reader and what it has seen
system == <<pc, job, backend, ingress, stray, history.overlapped, history.faulted, history.launched,
            history.raced, history.cut>>

LEMMA ReadingInv ==
  ASSUME ExternalInv, ReaderTypes', history' \in Histories, UNCHANGED system
  PROVE  ExternalInv'
<1>i. Types /\ StrayInv /\ Logged /\ Sole /\ Fresh /\ NothingLeft /\ RunInv
  BY TypeParts DEF ExternalInv
<1>1. Types' /\ StrayInv' /\ Logged' /\ Sole' /\ Fresh' /\ NothingLeft'
  BY <1>i DEF system, Types, RunTypes, WorldTypes, StrayInv, Apart, Cleared, StrayTypes, Placed, Explained, Inside,
     Logged, Sole, Fresh, Busy, Alone, HasLaunched, NothingLeft
<1>2. ASSUME NEW c \in Runs, Unaided(c)
      PROVE  Unaided(c)'
  <2>1. OwnBackend(c)' /\ OwnIngress(c)' /\ StopsInOrder(c)'
    BY <1>2 DEF system, Unaided, OwnBackend, OwnIngress, StopsInOrder, Finished, HasLaunched
  <2>2. (CanonicalReady' <=> CanonicalReady) /\ (IngressReady' <=> IngressReady)
    BY DEF system, CanonicalReady, BackendStatus, IngressReady, IngressStatus
  <2>3. StartsRight(c)'
    BY <1>2, <2>2 DEF system, Unaided, StartsRight, Finished
  <2>. QED BY <2>1, <2>3 DEF Unaided
<1>3. RunInv'
  BY <1>i, <1>2 DEF system, RunInv, Fits, Busy, Alone
<1>. QED BY <1>1, <1>3, TypeParts DEF ExternalInv, StrayInv

-----------------------------------------------------------------------------
(* The reader of operator_status.py.                                         *)
(*                                                                           *)
(* An answer other than "degraded" and "starting" claims something of the    *)
(* backend and something of the ingress.  The reader has seen the backend,   *)
(* the ingress and the backend again, in this order; that the two claims     *)
(* never held at the same time means that one has ended before the other     *)
(* began, before the ingress was read and once more after it: four changes.  *)

Claims == {"stopped", "backend-only", "proxy-ready", "public-ready"}

\* This reading of the backend agrees with the answer.
Proves(a, seen) == IF a = "stopped" THEN seen = "stopped" ELSE seen \in {"ready", "baseline"}

\* The ingress agrees with the answer now.
Shows(a) ==
  CASE a \in {"stopped", "backend-only"} -> IngressStatus = "stopped"
    [] a = "proxy-ready" -> IngressReady /\ ingress.mode = "proxy"
    [] a = "public-ready" -> IngressReady /\ ingress.mode # "proxy"

\* What external.sh has said leaves open only this answer.
Heads(external, a) == IF a = "public-ready" THEN external = "ready" ELSE external = a

\* How much must have changed, if the answer has not been true yet, before the
\* ingress is read and after it
MissedBefore(a) ==
  Proves(a, BackendSeen) \/ watch.changes >= (IF Shows(a) THEN 2 ELSE 1)

MissedAfter(a) ==
  watch.changes >= (IF Proves(a, BackendSeen) THEN 4 ELSE IF Shows(a) THEN 2 ELSE 3)

Reading == reader.at \in {"exposure", "endpoint", "again"}

Statuses == {"stopped", "stale", "degraded", "baseline", "ready", "starting", "stopping"}

Answers == Claims \cup {"degraded", "starting"}

ReaderOK ==
  /\ reader \in [at : {"idle", "exposure", "endpoint", "again", "answered"},
                 external : Statuses \cup Answers \cup {"none"}, answer : Answers \cup {"none"}]
  /\ watch \in [changes : 0..4, truths : SUBSET Answers]

ReaderInv ==
  /\ ReaderOK
  /\ reader.at # "idle" => "degraded" \in watch.truths
  /\ Reading => Truths \subseteq watch.truths
  /\ Reading /\ reader.external = "starting" => "starting" \in watch.truths
  /\ \A a \in Claims \ watch.truths :
       /\ reader.at = "exposure" /\ Proves(a, reader.external) => MissedBefore(a)
       /\ reader.at \in {"endpoint", "again"} /\ Heads(reader.external, a) => MissedAfter(a)
  /\ AnswerWasTrue

\* What is true now is what the two parts say.
TruthParts ==
  /\ BackendSeen \in Statuses
  /\ \A st \in {"stopped", "starting"} : BackendSeen = st <=> BackendStatus = st
  /\ \A a \in Claims : a \in Truths <=> Proves(a, BackendSeen) /\ Shows(a)
  /\ "starting" \in Truths <=> BackendSeen = "starting" \/ IngressStatus = "starting"
  /\ "degraded" \in Truths /\ Truths \subseteq Answers

LEMMA TruthsNow == Types => TruthParts
<1>. SUFFICES ASSUME Types
              PROVE  TruthParts
  OBVIOUS
<1>1. BackendStatus \in {"stopped", "stale", "degraded", "starting", "ready", "stopping"}
  BY DEF Types, WorldTypes, Backends, BackendStatus
<1>2. /\ BackendSeen \in Statuses
      /\ BackendSeen \in {"ready", "baseline"} <=> BackendStatus = "ready"
      /\ \A st \in {"stopped", "starting"} : BackendSeen = st <=> BackendStatus = st
  BY <1>1 DEF BackendSeen, Statuses
<1>3. \A a \in Claims : a \in Truths <=> Proves(a, BackendSeen) /\ Shows(a)
  BY <1>2 DEF Truths, Claims, Proves, Shows
<1>4. /\ "starting" \in Truths <=> BackendSeen = "starting" \/ IngressStatus = "starting"
      /\ "degraded" \in Truths /\ Truths \subseteq Answers
  BY <1>2 DEF Truths, Answers, Claims
<1>. QED BY <1>2, <1>3, <1>4 DEF TruthParts

LEMMA TruthsThen == Types' => TruthParts'
BY TruthsNow, PTL

\* No step changes what is seen of both the backend and the ingress, but for the
\* sweep of the notebook, which leaves both records stale.
LEMMA OneAtATime ==
  ASSUME Types, NothingLeft, Act
  PROVE  \/ BackendSeen' = BackendSeen
         \/ IngressStatus' = IngressStatus /\ ingress'.mode = ingress.mode
         \/ BackendSeen' = "stale" /\ IngressStatus' = "stale"
<1>1. CASE UNCHANGED backend
  BY <1>1 DEF BackendSeen, BackendStatus, CanonicalReady
<1>2. CASE UNCHANGED ingress
  BY <1>2 DEF IngressStatus
<1>3. ASSUME NEW c \in Runs, Sweep(c)
      PROVE  \/ BackendSeen' = BackendSeen
             \/ IngressStatus' = IngressStatus /\ ingress'.mode = ingress.mode
             \/ BackendSeen' = "stale" /\ IngressStatus' = "stale"
  <2>1. BackendSeen' = BackendSeen \/ BackendSeen' = "stale"
    <3>1. CASE backend.life = "down"
      BY <1>3, <3>1 DEF Sweep, BackendSeen, BackendStatus, CanonicalReady
    <3>2. CASE backend.life # "down"
      <4>1. backend.status # "stopped" /\ backend'.status = backend.status /\ backend'.life = "down"
        <5>1. "server" \in Matched
          BY <3>2, MatchedAll
        <5>2. backend.status # "stopped"
          BY <3>2 DEF NothingLeft, NoBackend
        <5>. QED BY <1>3, <5>1, <5>2 DEF Sweep, Types, WorldTypes, Backends
      <4>2. BackendStatus' = "stale"
        BY <4>1 DEF BackendStatus
      <4>. QED BY <4>2 DEF BackendSeen
    <3>. QED BY <3>1, <3>2
  <2>2. ingress'.mode = ingress.mode /\ (IngressStatus' = IngressStatus \/ IngressStatus' = "stale")
    <3>1. ingress'.mode = ingress.mode /\ ingress'.status = ingress.status /\ ~ingress'.proxy
      BY <1>3, MatchedAll DEF Sweep, Types, WorldTypes, Ingresses
    <3>. QED BY <3>1 DEF IngressStatus
  <2>. QED BY <2>1, <2>2
<1>4. ASSUME NEW c \in Runs, Step(c), ~Sweep(c)
      PROVE  UNCHANGED backend \/ UNCHANGED ingress
  BY <1>4 DEF Step, Gate, Look, WaitReady, Recheck, Find, Reuse, Serve, Prepare, Begin, Loaded, ExposeGate,
     ExposeLaunch, Gateway, Tunnel, ExposeMark, Confirm, Undo, Unserve, Unserving, Close, CheckClosed, StopBackend, CheckGone, Survey,
     CleanupGate, Leave
<1>. QED BY <1>1, <1>2, <1>3, <1>4 DEF Act, Invoke, Abandon, Loads, Clash, Fault, ReadBackend, ReadExposure,
         ReadEndpoint, ReadAgain, Answered

\* While the reader reads, and something else happens
LEMMA ChangeWatched ==
  ASSUME Types, Types', NothingLeft, ReaderInv, Act, Watch, UNCHANGED reader
  PROVE  ReaderInv'
<1>1. ReaderOK /\ (reader.at \notin {"idle", "answered"} <=> Reading)
  BY DEF ReaderInv, ReaderOK, Reading
<1>2. CASE ~Reading
  BY <1>1, <1>2 DEF ReaderInv, ReaderOK, Reading, Watch, Unwatched, AnswerWasTrue
<1>3. CASE Reading /\ Read' = Read
  <2>1. watch' = watch
    BY <1>3 DEF Watch, Reading
  <2>2. BackendSeen' = BackendSeen /\ IngressStatus' = IngressStatus /\ ingress'.mode = ingress.mode
    BY <1>3 DEF Read
  <2>3. \A a \in Claims : (Shows(a)' <=> Shows(a)) /\ (Proves(a, BackendSeen)' <=> Proves(a, BackendSeen))
    BY <2>2 DEF Shows, Proves, Claims, IngressReady
  <2>4. Truths' \subseteq Truths
    BY <2>2, <2>3, TruthsNow, TruthsThen DEF TruthParts, Answers
  <2>5. \A a \in Claims : (MissedBefore(a)' <=> MissedBefore(a)) /\ (MissedAfter(a)' <=> MissedAfter(a))
    BY <2>1, <2>2, <2>3 DEF MissedBefore, MissedAfter
  <2>. QED BY <1>1, <1>3, <2>1, <2>4, <2>5 DEF ReaderInv, ReaderOK, Reading, AnswerWasTrue
<1>4. CASE Reading /\ Read' # Read
  <2>1. /\ watch'.truths = watch.truths \cup Truths'
        /\ watch'.changes = IF watch.changes = 4 THEN 4 ELSE watch.changes + 1
        /\ watch' \in [changes : 0..4, truths : SUBSET Answers]
    <3>1. watch' = [changes |-> IF watch.changes = 4 THEN 4 ELSE watch.changes + 1,
                    truths |-> watch.truths \cup Truths']
      BY <1>4 DEF Watch, Reading
    <3>2. watch.changes \in 0..4 /\ watch.truths \in SUBSET Answers /\ Truths' \subseteq Answers
      BY <1>1, TruthsThen DEF ReaderOK, TruthParts
    <3>. QED BY <3>1, <3>2
  <2>2. \A a \in Claims \ watch'.truths :
          /\ a \notin watch.truths
          /\ ~(Proves(a, BackendSeen) /\ Shows(a)) /\ ~(Proves(a, BackendSeen)' /\ Shows(a)')
    BY <1>4, <2>1, TruthsNow, TruthsThen DEF TruthParts, ReaderInv
  <2>3. \A a \in Claims : \/ Proves(a, BackendSeen)' <=> Proves(a, BackendSeen)
                          \/ Shows(a)' <=> Shows(a)
                          \/ ~Proves(a, BackendSeen)' /\ ~Shows(a)'
    BY OneAtATime DEF Proves, Shows, Claims, IngressReady
  <2>4. ReaderOK'
    BY <1>1, <2>1 DEF ReaderOK
  <2>5. reader' = reader /\ Reading'
    BY <1>4 DEF Reading
  <2>6. /\ "degraded" \in watch'.truths
        /\ Truths' \subseteq watch'.truths
        /\ reader.external = "starting" => "starting" \in watch'.truths
    BY <1>4, <2>1 DEF ReaderInv, Reading
  <2>7. ASSUME NEW a \in Claims \ watch'.truths
        PROVE  /\ reader.at = "exposure" /\ Proves(a, reader.external) => MissedBefore(a)'
               /\ reader.at \in {"endpoint", "again"} /\ Heads(reader.external, a) => MissedAfter(a)'
    <3>1. a \in Claims \ watch.truths
      BY <2>2
    <3>2. /\ reader.at = "exposure" /\ Proves(a, reader.external) => MissedBefore(a)
          /\ reader.at \in {"endpoint", "again"} /\ Heads(reader.external, a) => MissedAfter(a)
      BY <3>1 DEF ReaderInv
    <3>3. MissedBefore(a) => MissedBefore(a)'
      BY <1>1, <2>1, <2>2, <2>3 DEF MissedBefore, ReaderOK
    <3>4. MissedAfter(a) => MissedAfter(a)'
      BY <1>1, <2>1, <2>2, <2>3 DEF MissedAfter, ReaderOK
    <3>. QED BY <3>2, <3>3, <3>4
  <2>8. AnswerWasTrue'
    BY <2>5 DEF Reading, AnswerWasTrue
  <2>. QED BY <2>4, <2>5, <2>6, <2>7, <2>8 DEF ReaderInv
<1>. QED BY <1>1, <1>2, <1>3, <1>4

\* A reading does not change what is read.
LEMMA ReadFrame ==
  ASSUME UNCHANGED <<backend, ingress>>
  PROVE  /\ BackendSeen' = BackendSeen /\ IngressStatus' = IngressStatus /\ Read' = Read
         /\ Truths' = Truths
         /\ \A a \in Claims : (Shows(a)' <=> Shows(a)) /\ (Proves(a, BackendSeen)' <=> Proves(a, BackendSeen))
<1>1. BackendSeen' = BackendSeen /\ IngressStatus' = IngressStatus /\ BackendStatus' = BackendStatus
  BY DEF BackendSeen, BackendStatus, CanonicalReady, IngressStatus
<1>2. Truths' = Truths
  BY <1>1 DEF Truths, IngressReady
<1>. QED BY <1>1, <1>2 DEF Read, Shows, Proves, Claims, IngressReady

LEMMA ReadsRight ==
  ASSUME Types, NothingLeft, ReaderInv, Watch,
         ReadBackend \/ ReadExposure \/ ReadEndpoint \/ ReadAgain \/ Answered
  PROVE  ReaderInv'
<1>1. ReaderOK
  BY DEF ReaderInv
<1>2. UNCHANGED <<backend, ingress>>
  BY DEF ReadBackend, ReadExposure, ReadEndpoint, ReadAgain, Answered
<1>f. /\ BackendSeen' = BackendSeen /\ Read' = Read /\ Truths' = Truths
      /\ \A a \in Claims : (Shows(a)' <=> Shows(a)) /\ (Proves(a, BackendSeen)' <=> Proves(a, BackendSeen))
  BY <1>2, ReadFrame
<1>t. TruthParts
  BY TruthsNow
<1>3. CASE ReadBackend
  <2>1. reader' = [reader EXCEPT !.at = "exposure", !.external = BackendSeen] /\ reader.at = "idle"
    BY <1>3 DEF ReadBackend
  <2>2. reader'.at = "exposure" /\ reader'.external = BackendSeen
    BY <1>1, <2>1 DEF ReaderOK
  <2>3. watch' = [changes |-> 0, truths |-> Truths]
    BY <2>1, <2>2 DEF Watch
  <2>4. ReaderOK'
    <3>1. BackendSeen \in Statuses \cup Answers \cup {"none"} /\ Truths \in SUBSET Answers
      BY <1>t DEF TruthParts
    <3>2. reader' \in [at : {"idle", "exposure", "endpoint", "again", "answered"},
                       external : Statuses \cup Answers \cup {"none"}, answer : Answers \cup {"none"}]
      BY <1>1, <2>1, <3>1 DEF ReaderOK
    <3>3. watch' \in [changes : 0..4, truths : SUBSET Answers]
      BY <2>3, <3>1
    <3>. QED BY <3>2, <3>3 DEF ReaderOK
  <2>5. \A a \in Claims \ watch'.truths : Proves(a, BackendSeen) => MissedBefore(a)'
    BY <1>f DEF MissedBefore
  <2>. QED BY <1>f, <1>t, <2>2, <2>3, <2>4, <2>5 DEF ReaderInv, AnswerWasTrue, TruthParts, Reading
<1>4. CASE ReadExposure
  <2>1. /\ reader.at = "exposure"
        /\ reader' = [reader EXCEPT !.external = Combined(reader.external),
                        !.at = IF Combined(reader.external) \in {"ready", "proxy-ready"} THEN "endpoint" ELSE "again"]
    BY <1>4 DEF ReadExposure
  <2>2. reader'.at \in {"endpoint", "again"} /\ reader'.external = Combined(reader.external)
    BY <1>1, <2>1 DEF ReaderOK
  <2>3. watch' = watch
    BY <1>f, <2>1, <2>2 DEF Watch
  <2>. DEFINE e == reader.external
  <2>4. /\ Combined(e) \in {"ready", "proxy-ready", "backend-only", "starting", "stopped", "degraded"}
        /\ \A a \in Claims : Heads(Combined(e), a) => Proves(a, e) /\ Shows(a)
        /\ Combined(e) = "starting" => e = "starting" \/ IngressStatus = "starting"
    BY DEF Combined, Claims, Heads, Proves, Shows, IngressReady
  <2>5. ReaderOK'
    BY <1>1, <2>1, <2>3, <2>4 DEF ReaderOK, Statuses, Answers, Claims
  <2>6. \A a \in Claims \ watch.truths : Heads(Combined(e), a) => MissedAfter(a)'
    <3>1. SUFFICES ASSUME NEW a \in Claims \ watch.truths, Proves(a, e), Shows(a)
                   PROVE  MissedAfter(a)'
      BY <2>4
    <3>2. MissedBefore(a) /\ ~Proves(a, BackendSeen)
      BY <1>t, <2>1, <3>1 DEF ReaderInv, Reading, TruthParts
    <3>. QED BY <1>1, <1>f, <2>3, <3>1, <3>2 DEF MissedBefore, MissedAfter, ReaderOK
  <2>7. Combined(e) = "starting" => "starting" \in watch.truths
    BY <1>t, <2>1, <2>4 DEF ReaderInv, Reading, TruthParts
  <2>8. "degraded" \in watch.truths /\ Truths \subseteq watch.truths
    BY <2>1 DEF ReaderInv, Reading
  <2>. QED BY <1>f, <2>2, <2>3, <2>5, <2>6, <2>7, <2>8 DEF ReaderInv, AnswerWasTrue, Reading
<1>5. CASE ReadEndpoint
  <2>1. /\ reader.at = "endpoint" /\ reader'.at = "again" /\ reader'.external \in {reader.external, "degraded"}
        /\ ReaderOK' /\ watch' = watch
    <3>1. PICK x \in {reader.external, "degraded"} : reader' = [reader EXCEPT !.at = "again", !.external = x]
      BY <1>5 DEF ReadEndpoint
    <3>2. reader.at = "endpoint" /\ reader'.at = "again" /\ reader'.external = x
      BY <1>1, <1>5, <3>1 DEF ReadEndpoint, ReaderOK
    <3>3. watch' = watch
      BY <1>f, <3>2 DEF Watch
    <3>. QED BY <1>1, <3>1, <3>2, <3>3 DEF ReaderOK, Answers
  <2>2. \A a \in Claims : ~Heads("degraded", a)
    BY DEF Claims, Heads
  <2>3. \A a \in Claims : MissedAfter(a)' <=> MissedAfter(a)
    BY <1>f, <2>1 DEF MissedAfter
  <2>4. \A a \in Claims \ watch.truths : Heads(reader.external, a) => MissedAfter(a)
    BY <2>1 DEF ReaderInv
  <2>5. /\ "degraded" \in watch.truths /\ Truths \subseteq watch.truths
        /\ reader.external = "starting" => "starting" \in watch.truths
    BY <2>1 DEF ReaderInv, Reading
  <2>. QED BY <1>f, <2>1, <2>2, <2>3, <2>4, <2>5 DEF ReaderInv, AnswerWasTrue, Reading
<1>6. CASE ReadAgain
  <2>1. /\ reader.at = "again"
        /\ reader' = [at |-> "answered", external |-> "none", answer |-> Classify(reader.external, BackendSeen)]
    BY <1>6 DEF ReadAgain
  <2>2. watch' = watch
    BY <1>f, <2>1 DEF Watch
  <2>. DEFINE e == reader.external
              answer == Classify(e, BackendSeen)
  <2>3. /\ answer \in Answers
        /\ answer \in Claims => Heads(e, answer) /\ Proves(answer, BackendSeen)
        /\ answer = "starting" => e = "starting" \/ BackendSeen = "starting"
    BY DEF Classify, Answers, Claims, Heads, Proves
  <2>4. ReaderOK'
    BY <1>1, <2>1, <2>2, <2>3 DEF ReaderOK
  <2>5. answer \in watch.truths \/ watch.changes >= 4
    <3>1. CASE answer \in Claims
      BY <2>1, <2>3, <3>1 DEF ReaderInv, MissedAfter
    <3>2. CASE answer = "starting"
      BY <1>t, <2>1, <2>3, <3>2 DEF ReaderInv, Reading, TruthParts
    <3>3. CASE answer = "degraded"
      BY <2>1, <3>3 DEF ReaderInv
    <3>. QED BY <2>3, <3>1, <3>2, <3>3 DEF Answers
  <2>6. AnswerWasTrue'
    BY <1>1, <2>1, <2>2, <2>5 DEF AnswerWasTrue, ReaderOK
  <2>7. "degraded" \in watch.truths
    BY <2>1 DEF ReaderInv
  <2>. QED BY <2>1, <2>2, <2>4, <2>6, <2>7 DEF ReaderInv, Reading
<1>7. CASE Answered
  <2>1. reader' = NoReading
    BY <1>7 DEF Answered
  <2>2. watch' = Unwatched
    BY <2>1 DEF Watch, NoReading
  <2>. QED BY <2>1, <2>2 DEF ReaderInv, ReaderOK, Reading, NoReading, Unwatched, AnswerWasTrue
<1>. QED BY <1>3, <1>4, <1>5, <1>6, <1>7

-----------------------------------------------------------------------------
(* Theorems. *)

Invariant == ExternalInv /\ ReaderInv

LEMMA InitInvariant == Init => Invariant
<1>. SUFFICES ASSUME Init
              PROVE  Invariant
  OBVIOUS
<1>n. None \notin Runs /\ Profiles \subseteq {"dflash2", "baseline"}
  BY ExternalAssumption DEF ExternalAssumption
<1>1. RunTypes
  BY DEF Init, RunTypes, Jobs, NoJob, PcStates, Commands, Modes
<1>2. backend \in Backends /\ NothingLeft
  <2>1. NoBackend \in Backends
    BY DEF NoBackend, Backends
  <2>2. CASE backend = NoBackend
    BY <2>1, <2>2 DEF NoBackend, NothingLeft
  <2>3. CASE backend # NoBackend
    <3>1. backend \in [status : {"ready", "starting"}, life : {"up"}, profile : Profiles]
      BY <2>3 DEF Init
    <3>2. /\ backend = [status |-> backend.status, life |-> backend.life, profile |-> backend.profile]
          /\ backend.status \in {"ready", "starting"} /\ backend.life = "up"
          /\ backend.profile \in Profiles
      BY <3>1
    <3>3. backend.profile \in {"dflash2", "baseline"}
      BY <1>n, <3>2
    <3>. QED BY <3>2, <3>3 DEF Backends, NothingLeft
  <2>. QED BY <2>2, <2>3
<1>3. ingress \in Ingresses
  <2>1. Closed \in Ingresses
    BY DEF Closed, Ingresses, Modes
  <2>2. \A m \in Modes : [status |-> "ready", mode |-> m, proxy |-> TRUE, tunnel |-> m # "proxy"] \in Ingresses
    BY DEF Ingresses
  <2>. QED BY <2>1, <2>2 DEF Init
<1>4. StrayInv /\ Logged
  BY DEF Init, StrayInv, Apart, Cleared, StrayTypes, Placed, Explained, Inside, Logged, Histories
<1>5. ReaderInv /\ ReaderTypes
  BY DEF Init, ReaderInv, ReaderTypes, ReaderOK, NoReading, Unwatched, Reading, AnswerWasTrue
<1>6. Sole /\ Fresh
  BY DEF Init, Sole, Fresh, Busy, HasLaunched
<1>7. RunInv
  BY DEF Init, RunInv, Fits, Busy, NoJob, Starting
<1>. QED BY <1>1, <1>2, <1>3, <1>4, <1>5, <1>6, <1>7, TypeParts DEF Invariant, ExternalInv, Types, WorldTypes, StrayInv

LEMMA NextInvariant == Invariant /\ [Next]_vars => Invariant'
<1>. SUFFICES ASSUME Invariant, [Next]_vars
              PROVE  Invariant'
  OBVIOUS
<1>i. ExternalInv /\ ReaderInv /\ Types /\ NothingLeft /\ history \in Histories
  BY TypeParts DEF Invariant, ExternalInv, Logged
<1>1. CASE UNCHANGED vars
  <2>1. ReaderInv'
    <3>1. Truths' = Truths /\ \A a \in Claims : Shows(a)' <=> Shows(a)
      BY <1>1, ReadFrame DEF vars
    <3>2. BackendSeen' = BackendSeen
      BY <1>1, ReadFrame DEF vars
    <3>3. reader' = reader /\ watch' = watch
      BY <1>1 DEF vars
    <3>. QED BY <1>i, <3>1, <3>2, <3>3 DEF ReaderInv, ReaderOK, Reading, AnswerWasTrue, MissedBefore, MissedAfter
  <2>2. ReaderTypes'
    BY <2>1 DEF ReaderInv, ReaderOK, ReaderTypes
  <2>3. UNCHANGED system /\ history' \in Histories
    BY <1>i, <1>1 DEF vars, system
  <2>. QED BY <1>i, <2>1, <2>2, <2>3, ReadingInv DEF Invariant
<1>2. ASSUME Next, ReadBackend \/ ReadExposure \/ ReadEndpoint \/ ReadAgain \/ Answered
      PROVE  Invariant'
  <2>1. ReaderInv'
    BY <1>i, <1>2, ReadsRight DEF Next
  <2>2. ReaderTypes'
    BY <2>1 DEF ReaderInv, ReaderOK, ReaderTypes
  <2>3. UNCHANGED system /\ history' \in Histories
    BY <1>i, <1>2 DEF ReadBackend, ReadExposure, ReadEndpoint, ReadAgain, Answered, system, Histories
  <2>. QED BY <1>i, <2>1, <2>2, <2>3, ReadingInv DEF Invariant
<1>3. ASSUME Next, Loads \/ Clash \/ Fault \/ \E c \in Runs : Invoke(c) \/ Step(c) \/ Abandon(c)
      PROVE  Invariant'
  <2>1. reader' = reader
    BY <1>i, <1>3, StepFrame DEF Loads, Clash, Fault, Invoke, Abandon, Frame, Types
  <2>2. ReaderTypes'
    <3>1. watch.changes \in 0..4 /\ reader'.at \in {"idle", "exposure", "endpoint", "again", "answered"}
      BY <1>i, <2>1 DEF ReaderInv, ReaderOK
    <3>2. watch'.changes \in 0..4
      BY <1>3, <3>1 DEF Next, Watch, Unwatched
    <3>. QED BY <3>1, <3>2 DEF ReaderTypes
  <2>3. ExternalInv'
    BY <1>i, <1>3, <2>2, ServersInv, FaultInv, InvokeInv, StepInv, AbandonInv
  <2>4. Types'
    BY <2>3, TypeParts DEF ExternalInv
  <2>. QED BY <1>i, <1>3, <2>1, <2>3, <2>4, ChangeWatched DEF Invariant, Next
<1>. QED BY <1>1, <1>2, <1>3 DEF Next, Act

LEMMA ExternalInvariant == Spec => []Invariant
BY InitInvariant, NextInvariant, PTL DEF Spec

\* A run that has come to its end has left nothing to be recorded.
LEMMA NothingOwnLeft ==
  ASSUME StrayTypes, Placed, NEW c \in Runs, pc[c] = "done"
  PROVE  Own(c) = {}
<1>1. ASSUME NEW s \in Own(c) PROVE FALSE
  <2>1. s = <<c, s[2]>> /\ s[2] \in Kinds /\ s \in stray
    BY <1>1 DEF Own, StrayTypes
  <2>2. pc[c] \in Launching(s[2])
    BY <2>1 DEF Placed
  <2>. QED BY <2>2 DEF Launching
<1>. QED BY <1>1

\* Two runs are inside of the lock of serve.sh only after two have taken or dropped
\* it at the same time; a process that is not on record belongs to a run that is
\* about to record it, or to none; and every variable has its type.
THEOREM ExternalTypes == Spec => []TypeOK
<1>1. Invariant => TypeOK
  BY DEF Invariant, ExternalInv
<1>. QED BY <1>1, ExternalInvariant, PTL

\* What a start that fails has launched is down again (external.sh 524-526), also
\* when the backend or the ingress died or hung under it.
THEOREM FailuresUndone == Spec => []FailedStartUndone
<1>1. Invariant => FailedStartUndone
  <2>1. SUFFICES ASSUME Invariant, NEW c \in Runs, Alone(c), Finished(c, "start", FALSE)
                 PROVE  /\ <<c, "backend">> \in history.launched => backend.life = "down"
                        /\ <<c, "ingress">> \in history.launched => ingress = Closed
                        /\ Own(c) = {}
    BY DEF FailedStartUndone
  <2>2. OwnBackend(c) /\ OwnIngress(c)
    BY <2>1 DEF Invariant, ExternalInv, RunInv, Unaided, Finished, Busy
  <2>3. Own(c) = {}
    BY <2>1, NothingOwnLeft DEF Invariant, ExternalInv, StrayInv, Finished
  <2>. QED BY <2>1, <2>2, <2>3 DEF OwnBackend, OwnIngress, Finished, HasLaunched, NoBackend
<1>. QED BY <1>1, ExternalInvariant, PTL

\* A start, a stop, a stop-all and the clean-up of the notebook say that they have
\* succeeded only of what is so.
THEOREM WordsKept == Spec => []KeepsItsWord
<1>1. Invariant => KeepsItsWord
  <2>1. SUFFICES ASSUME Invariant, NEW c \in Runs, Undisturbed(c), pc[c] = "done"
                 PROVE  /\ Finished(c, "start", TRUE) => CanonicalReady /\ IngressReady /\ ingress.mode = job[c].mode
                        /\ Finished(c, "stop", TRUE) =>
                             ingress = Closed /\ (Unrecorded \subseteq {"server"} \/ history.cut)
                        /\ \A cmd \in StopsAll : Finished(c, cmd, TRUE) =>
                             ingress = Closed /\ backend = NoBackend /\ (stray = {} \/ history.cut \/ history.raced)
                        /\ Finished(c, "muse-stop", TRUE) => stray = {}
    BY DEF KeepsItsWord, Finished
  <2>2. StopsInOrder(c) /\ StartsRight(c)
    BY <2>1 DEF Invariant, ExternalInv, RunInv, Unaided, Undisturbed, Busy
  <2>3. StrayInv /\ Sole
    BY <2>1 DEF Invariant, ExternalInv
  <2>4. ASSUME NEW s \in stray
        PROVE  history.cut \/ (s[2] = "server" /\ history.raced)
    <3>1. s = <<s[1], s[2]>> /\ s[1] \in Runs \cup {None} /\ s[2] \in Kinds
      BY <2>3 DEF StrayInv, StrayTypes
    <3>2. s[1] \notin Runs
      <4>1. s[1] \in Runs => pc[s[1]] \in Launching(s[2])
        BY <2>3, <3>1 DEF StrayInv, Placed
      <4>2. \A d \in Runs : pc[d] \in Launching(s[2]) => d # c /\ Busy(d)
        BY <2>1, <3>1 DEF Launching, Busy
      <4>3. \A d \in Runs \ {c} : ~Busy(d)
        BY <2>1, <2>3 DEF Sole, Undisturbed, Busy
      <4>. QED BY <4>1, <4>2, <4>3
    <3>. QED BY <2>3, <3>1, <3>2 DEF StrayInv, Explained
  <2>5. /\ Unrecorded \subseteq {"server"} \/ history.cut
        /\ stray = {} \/ history.cut \/ history.raced
    BY <2>4 DEF Unrecorded
  <2>. QED BY <2>1, <2>2, <2>5 DEF StopsInOrder, StartsRight, Undisturbed, Finished
<1>. QED BY <1>1, ExternalInvariant, PTL

\* When the notebook's clean-up prints MUSE_STOP=PASS nothing runs any more, whatever
\* the records say and whatever stop-all has refused.
THEOREM MuseStopTrue == Spec => []MuseStopIsTrue
<1>1. Invariant => MuseStopIsTrue
  BY DEF Invariant, ExternalInv, RunInv, Unaided, StopsInOrder, MuseStopIsTrue, Busy
<1>. QED BY <1>1, ExternalInvariant, PTL

\* operator_status.py looks at the backend, the exposure and the backend again,
\* and so its answer was true at one instant, unless four changes slip between.
THEOREM AnswersTrue == Spec => []AnswerWasTrue
<1>1. Invariant => AnswerWasTrue
  BY DEF Invariant, ReaderInv
<1>. QED BY <1>1, ExternalInvariant, PTL

\* A rollback (480-526) stops only a backend that its own run has launched.
THEOREM RollbackOfOwn == Spec => RollsBackOwn
<1>1. Invariant /\ [Next]_vars =>
        [\A c \in Runs :
           pc[c] = "unserving" /\ pc'[c] = "done" /\ job[c].cmd = "start" /\ Alone(c)
           => <<c, "backend">> \in history.launched]_vars
  BY DEF Invariant, ExternalInv, RunInv, Fits, Unaided, OwnBackend, HasLaunched, Busy, StopsAll
<1>. QED BY <1>1, ExternalInvariant, PTL DEF Spec, RollsBackOwn

\* stop-all (548-600) takes the backend down only after the ingress.
THEOREM IngressGoesFirst == Spec => IngressFirst
<1>1. Invariant /\ [Next]_vars =>
        [\A c \in Runs :
           pc[c] = "unserving" /\ backend'.life = "down" /\ job[c].cmd \in StopsAll /\ Alone(c)
           => ingress = Closed]_vars
  BY DEF Invariant, ExternalInv, RunInv, Unaided, StopsInOrder, Busy, Stops
<1>. QED BY <1>1, ExternalInvariant, PTL DEF Spec, IngressFirst
=============================================================================
