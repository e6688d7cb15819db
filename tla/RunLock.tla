------------------------------ MODULE RunLock ------------------------------
(***************************************************************************)
(* The lock directory of scripts/run_lock.sh, which serve.sh takes around  *)
(* every start and stop (serve.sh:40-54).  A run is a shell process; the   *)
(* file system gives it mkdir, a file owner.pid and an rm -rf that unlinks *)
(* the file and then removes the directory if nothing has appeared in it.  *)
(* Runs are named by their process ids, which later runs may get again.    *)
(***************************************************************************)
EXTENDS Naturals

CONSTANTS Runs,        \* process ids of runs
          Nobody,      \* the content of owner.pid when there is none
          MayCrash,    \* may a run be killed without its EXIT trap?
          MayRecycle,  \* may an unrelated process get the id of a finished run?
          MaxStarts    \* bound: runs started in one behaviour

ASSUME LockAssumption ==
  /\ Nobody \notin Runs
  /\ MayCrash \in BOOLEAN /\ MayRecycle \in BOOLEAN
  /\ MaxStarts \in Nat

VARIABLES pc,       \* per run: where it is in run_lock.sh ("none": not running)
          seen,     \* per run: the owner it read
          dir,      \* the lock directory exists
          owner,    \* the content of owner.pid, Nobody if there is no file
          alien,    \* ids in use by unrelated processes
          started,  \* runs started so far
          overlap,  \* history: two lock operations were in progress at once
          crashed,  \* history: a run was killed
          rivals    \* history: runs that had another process to reckon with

disk == <<dir, owner>>
vars == <<pc, seen, disk, alien, started, overlap, crashed, rivals>>

Acquiring == {"mkdir", "record", "read", "judge", "unlink", "rmdir", "remake", "rerecord"}

Releasing == {"release", "drop", "dropdir"}

PcStates == {"none", "held", "refused"} \cup Acquiring \cup Releasing

\* A lock operation of another run is in progress.
Busy(p) == \E q \in Runs \ {p} : pc[q] \in Acquiring \cup Releasing

\* kill -0
Alive(p) == pc[p] # "none" \/ p \in alien

Holders == {p \in Runs : pc[p] = "held"}

Goto(p, there) == pc' = [pc EXCEPT ![p] = there]

environment == <<alien, started, crashed, rivals>>

-----------------------------------------------------------------------------
(* acquire_run_lock *)

Start(p) ==
  /\ ~Alive(p)
  /\ started < MaxStarts
  /\ Goto(p, "mkdir")
  /\ started' = started + 1
  /\ overlap' = (overlap \/ Busy(p))
  /\ LET others == {q \in Runs \ {p} : Alive(q)}
     IN rivals' = (rivals \ {p}) \cup others
                   \cup (IF others # {} \/ owner = p THEN {p} ELSE {})
  /\ UNCHANGED <<seen, disk, alien, crashed>>

\* Line 6.
MakeDir(p) ==
  /\ pc[p] = "mkdir"
  /\ Goto(p, IF dir THEN "read" ELSE "record")
  /\ dir' = TRUE
  /\ UNCHANGED <<seen, owner, overlap, environment>>

\* Faulty variant: the file is written wherever the directory is.
RecordAnyway(p) ==
  /\ pc[p] = "record"
  /\ owner' = p
  /\ Goto(p, "held")
  /\ UNCHANGED <<seen, dir, overlap, environment>>

\* Lines 7-8: errexit is off under `if`, so a printf into a directory that is
\* gone does not matter.
Record(p) ==
  /\ pc[p] = "record"
  /\ owner' = IF dir THEN p ELSE owner
  /\ Goto(p, "held")
  /\ UNCHANGED <<seen, dir, overlap, environment>>

\* Line 11.
ReadOwner(p) ==
  /\ pc[p] = "read"
  /\ seen' = [seen EXCEPT ![p] = owner]
  /\ Goto(p, "judge")
  /\ UNCHANGED <<disk, overlap, environment>>

\* Faulty variant: any recorded owner is taken for dead.
JudgeAllDead(p) ==
  /\ pc[p] = "judge"
  /\ Goto(p, "unlink")
  /\ UNCHANGED <<seen, disk, overlap, environment>>

\* Faulty variant: any recorded owner is taken for alive.
JudgeAllAlive(p) ==
  /\ pc[p] = "judge"
  /\ Goto(p, IF seen[p] = Nobody THEN "unlink" ELSE "refused")
  /\ UNCHANGED <<seen, disk, overlap, environment>>

\* Lines 12-15.
Judge(p) ==
  /\ pc[p] = "judge"
  /\ Goto(p, IF seen[p] # Nobody /\ Alive(seen[p]) THEN "refused" ELSE "unlink")
  /\ UNCHANGED <<seen, disk, overlap, environment>>

\* Line 17, rm -rf: the file goes first ...
Unlink(p) ==
  /\ pc[p] = "unlink"
  /\ owner' = Nobody
  /\ Goto(p, "rmdir")
  /\ UNCHANGED <<seen, dir, overlap, environment>>

\* ... then the directory, unless a file has appeared in it.
RemoveDir(p) ==
  /\ pc[p] = "rmdir"
  /\ dir' = (dir /\ owner # Nobody)
  /\ Goto(p, "remake")
  /\ UNCHANGED <<seen, owner, overlap, environment>>

\* Lines 18-21.
Remake(p) ==
  /\ pc[p] = "remake"
  /\ Goto(p, IF dir THEN "refused" ELSE "rerecord")
  /\ dir' = TRUE
  /\ UNCHANGED <<seen, owner, overlap, environment>>

\* Line 22: here the status of printf is the status of the function.
Rerecord(p) ==
  /\ pc[p] = "rerecord"
  /\ owner' = IF dir THEN p ELSE owner
  /\ Goto(p, IF dir THEN "held" ELSE "refused")
  /\ UNCHANGED <<seen, dir, overlap, environment>>

\* serve.sh:44, exit 12.
Refused(p) ==
  /\ pc[p] = "refused"
  /\ Goto(p, "none")
  /\ UNCHANGED <<seen, disk, overlap, environment>>

-----------------------------------------------------------------------------
(* release_run_lock, called by the EXIT trap of a run that holds the lock. *)

Finish(p) ==
  /\ pc[p] = "held"
  /\ Goto(p, "release")
  /\ overlap' = (overlap \/ Busy(p))
  /\ UNCHANGED <<seen, disk, environment>>

\* Faulty variant: the directory is removed only when nobody is recorded.
ReleaseForeign(p) ==
  /\ pc[p] = "release"
  /\ Goto(p, IF dir /\ owner = Nobody THEN "drop" ELSE "none")
  /\ UNCHANGED <<seen, disk, overlap, environment>>

\* Lines 27-29.
ReleaseRead(p) ==
  /\ pc[p] = "release"
  /\ Goto(p, IF dir /\ owner \in {Nobody, p} THEN "drop" ELSE "none")
  /\ UNCHANGED <<seen, disk, overlap, environment>>

\* Line 30, in the two steps of rm -rf.
Drop(p) ==
  /\ pc[p] = "drop"
  /\ owner' = Nobody
  /\ Goto(p, "dropdir")
  /\ UNCHANGED <<seen, dir, overlap, environment>>

DropDir(p) ==
  /\ pc[p] = "dropdir"
  /\ dir' = (dir /\ owner # Nobody)
  /\ Goto(p, "none")
  /\ UNCHANGED <<seen, owner, overlap, environment>>

-----------------------------------------------------------------------------
(* The environment. *)

Crash(p) ==
  /\ MayCrash
  /\ pc[p] # "none"
  /\ Goto(p, "none")
  /\ crashed' = TRUE
  /\ UNCHANGED <<seen, disk, alien, started, overlap, rivals>>

\* An unrelated process gets the id of a run that is no more.
Recycle(p) ==
  /\ MayRecycle
  /\ ~Alive(p)
  /\ alien' = alien \cup {p}
  /\ rivals' = rivals \cup {q \in Runs : pc[q] # "none"}
  /\ UNCHANGED <<pc, seen, disk, started, overlap, crashed>>

AlienExit(p) ==
  /\ p \in alien
  /\ alien' = alien \ {p}
  /\ UNCHANGED <<pc, seen, disk, started, overlap, crashed, rivals>>

Init ==
  /\ pc = [p \in Runs |-> "none"]
  /\ seen = [p \in Runs |-> Nobody]
  /\ dir = FALSE
  /\ owner = Nobody
  /\ alien = {}
  /\ started = 0
  /\ overlap = FALSE
  /\ crashed = FALSE
  /\ rivals = {}

Operate(p) ==
  \/ MakeDir(p) \/ Record(p) \/ ReadOwner(p) \/ Judge(p) \/ Unlink(p)
  \/ RemoveDir(p) \/ Remake(p) \/ Rerecord(p) \/ Refused(p)
  \/ Finish(p) \/ ReleaseRead(p) \/ Drop(p) \/ DropDir(p)

Next == \E p \in Runs : Start(p) \/ Operate(p) \/ Crash(p) \/ Recycle(p) \/ AlienExit(p)

Spec == Init /\ [][Next]_vars

-----------------------------------------------------------------------------
\* Types; owner.pid is nowhere but in the directory.
TypeOK ==
  /\ pc \in [Runs -> PcStates]
  /\ seen \in [Runs -> Runs \cup {Nobody}]
  /\ dir \in BOOLEAN
  /\ owner \in Runs \cup {Nobody}
  /\ owner # Nobody => dir
  /\ alien \in SUBSET Runs
  /\ started \in Nat
  /\ overlap \in BOOLEAN
  /\ crashed \in BOOLEAN
  /\ rivals \in SUBSET Runs

(***************************************************************************)
(* "another Muse-Glimmer run owns lock" (run_lock.sh:13): two runs never   *)
(* hold the lock at once.                                                  *)
(***************************************************************************)
MutualExclusion == \A p, q \in Holders : p = q

(***************************************************************************)
(* The lock excludes as long as no two lock operations overlap in time,    *)
(* whatever crashed before and whoever has its process id now: a stale     *)
(* lock is taken over, a live one never is (run_lock.sh:11-22).            *)
(***************************************************************************)
ExclusiveUnlessOverlap == ~overlap => MutualExclusion

(***************************************************************************)
(* A run is turned away only by another process: one that ran while it was *)
(* starting, or one whose id it was given.  No crash, at any point of      *)
(* taking or dropping the lock, leaves a directory that shuts everybody    *)
(* out for good (run_lock.sh:11-21).                                       *)
(***************************************************************************)
RefusedOnlyByRival == \A p \in Runs : pc[p] = "refused" => p \in rivals

(***************************************************************************)
(* Runs that end in order, one lock operation at a time, leave no lock     *)
(* behind (run_lock.sh:25-32, serve.sh:48-54).                             *)
(***************************************************************************)
CleanExit ==
  (~overlap /\ ~crashed /\ \A p \in Runs : pc[p] = "none") => ~dir
=============================================================================
