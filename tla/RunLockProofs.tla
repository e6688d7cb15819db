--------------------------- MODULE RunLockProofs ---------------------------
(***************************************************************************)
(* What the lock directory guarantees to any number of runs, crashes and   *)
(* recycled process ids, while lock operations do not overlap in time.     *)
(***************************************************************************)
EXTENDS RunLock, TLAPS

\* A run at these places owns the directory: it has recorded itself and has
\* not begun to remove anything.
Owning == {"held", "release", "drop"}

\* A run at these places has found that nobody owns the directory.
Taking == {"record", "unlink", "rmdir", "remake", "rerecord"}

OneOperation ==
  \A p, q \in Runs :
    pc[p] \in Acquiring \cup Releasing /\ pc[q] \in Acquiring \cup Releasing => p = q

OwnersRecorded == \A p \in Runs : pc[p] \in Owning => dir /\ owner = p

TakersAlone ==
  \A p \in Runs :
    /\ pc[p] \in Taking => \A q \in Runs : pc[q] \notin Owning
    /\ pc[p] \in {"record", "rerecord"} => dir

JudgeSawOwner ==
  \A p, q \in Runs : pc[p] = "judge" /\ pc[q] \in Owning => seen[p] = q

SerialInv == ~overlap => OneOperation /\ OwnersRecorded /\ TakersAlone /\ JudgeSawOwner

\* Without crashes a directory always has a run that will remove it.
Accounted ==
  ~overlap /\ ~crashed =>
    /\ dir => \E p \in Runs : pc[p] \in Owning \cup {"record", "dropdir"}
    /\ \A p \in Runs : /\ pc[p] \in {"read", "judge"} => \E q \in Runs : pc[q] = "held"
                       /\ pc[p] \notin {"unlink", "rmdir", "remake", "rerecord"}
                       /\ pc[p] = "dropdir" => owner = Nobody

LockInv == TypeOK /\ SerialInv /\ Accounted

-----------------------------------------------------------------------------
LEMMA TypeStep == TypeOK /\ [Next]_vars => TypeOK'
<1>. SUFFICES ASSUME TypeOK, [Next]_vars
              PROVE  TypeOK'
  OBVIOUS
<1>. USE LockAssumption DEF LockAssumption, TypeOK, PcStates, Acquiring, Releasing,
       Goto, disk, environment
<1>1. ASSUME NEW p \in Runs, Start(p) \/ Crash(p) \/ Recycle(p) \/ AlienExit(p)
      PROVE  TypeOK'
  <2>1. pc' \in [Runs -> PcStates]
    BY <1>1 DEF Start, Crash, Recycle, AlienExit
  <2>2. alien' \in SUBSET Runs
    BY <1>1 DEF Start, Crash, Recycle, AlienExit
  <2>3. rivals' \in SUBSET Runs
    BY <1>1 DEF Start, Crash, Recycle, AlienExit
  <2>4. started' \in Nat
    BY <1>1 DEF Start, Crash, Recycle, AlienExit
  <2>5. crashed' \in BOOLEAN
    <3>1. crashed' = crashed \/ crashed' = TRUE
      BY <1>1 DEF Start, Crash, Recycle, AlienExit
    <3>. QED BY <3>1
  <2>6. overlap' \in BOOLEAN
    <3>1. overlap' = overlap \/ overlap' = (overlap \/ Busy(p))
      BY <1>1 DEF Start, Crash, Recycle, AlienExit
    <3>. QED BY <3>1 DEF Busy
  <2>7. UNCHANGED <<seen, dir, owner>>
    BY <1>1 DEF Start, Crash, Recycle, AlienExit
  <2>. QED BY <2>1, <2>2, <2>3, <2>4, <2>5, <2>6, <2>7
<1>2. ASSUME NEW p \in Runs, Operate(p)
      PROVE  TypeOK'
  <2>1. pc' \in [Runs -> PcStates] /\ seen' \in [Runs -> Runs \cup {Nobody}]
    BY <1>2 DEF Operate, MakeDir, Record, ReadOwner, Judge, Unlink, RemoveDir, Remake,
       Rerecord, Refused, Finish, ReleaseRead, Drop, DropDir
  <2>2. dir' \in BOOLEAN /\ overlap' \in BOOLEAN /\ owner' \in Runs \cup {Nobody}
        /\ (owner' # Nobody => dir')
    BY <1>2 DEF Operate, MakeDir, Record, ReadOwner, Judge, Unlink, RemoveDir, Remake,
       Rerecord, Refused, Finish, ReleaseRead, Drop, DropDir
  <2>3. UNCHANGED <<alien, started, crashed, rivals>>
    BY <1>2 DEF Operate, MakeDir, Record, ReadOwner, Judge, Unlink, RemoveDir, Remake,
       Rerecord, Refused, Finish, ReleaseRead, Drop, DropDir
  <2>. QED BY <2>1, <2>2, <2>3
<1>3. CASE UNCHANGED vars
  BY <1>3 DEF vars
<1>. QED BY <1>1, <1>2, <1>3 DEF Next

\* Crashes and the environment touch neither the disk nor what runs have
\* seen, and every place a run can be thrown to claims less.
LEMMA EnvironmentKeeps ==
  ASSUME LockInv, NEW p \in Runs, Crash(p) \/ Recycle(p) \/ AlienExit(p)
  PROVE  SerialInv' /\ Accounted'
<1>1. UNCHANGED <<seen, dir, owner, overlap>>
  BY DEF Crash, Recycle, AlienExit, disk
<1>2. CASE Crash(p)
  <2>1. crashed' /\ pc' = [pc EXCEPT ![p] = "none"]
    BY <1>2 DEF Crash, Goto
  <2>2. Accounted'
    BY <2>1 DEF Accounted
  <2>3. SerialInv'
    BY <1>1, <2>1 DEF LockInv, TypeOK, SerialInv, OneOperation, OwnersRecorded, TakersAlone,
       JudgeSawOwner, Acquiring, Releasing, Owning, Taking
  <2>. QED BY <2>2, <2>3
<1>3. CASE Recycle(p) \/ AlienExit(p)
  <2>1. UNCHANGED <<pc, crashed>>
    BY <1>3 DEF Recycle, AlienExit
  <2>. QED BY <1>1, <2>1 DEF LockInv, SerialInv, Accounted, OneOperation, OwnersRecorded,
              TakersAlone, JudgeSawOwner
<1>. QED BY <1>2, <1>3

\* Every operation of a run keeps the disk and the runs in agreement.
LEMMA OperationKeeps ==
  ASSUME LockInv, NEW p \in Runs, Start(p) \/ Operate(p)
  PROVE  SerialInv' /\ Accounted'
<1>t. TypeOK /\ TypeOK'
  <2>1. [Next]_vars
    BY DEF Next
  <2>. QED BY <2>1, TypeStep DEF LockInv
<1>p. pc \in [Runs -> PcStates] /\ seen \in [Runs -> Runs \cup {Nobody}] /\ dir \in BOOLEAN
  BY <1>t DEF TypeOK
<1>. SUFFICES ASSUME ~overlap'
              PROVE  /\ OneOperation' /\ OwnersRecorded' /\ TakersAlone' /\ JudgeSawOwner'
                     /\ ~crashed' => Accounted'
  BY DEF SerialInv, Accounted
<1>o. ~overlap
  BY <1>t DEF TypeOK, Start, Operate, MakeDir, Record, ReadOwner, Judge, Unlink, RemoveDir,
     Remake, Rerecord, Refused, Finish, ReleaseRead, Drop, DropDir
<1>i. OneOperation /\ OwnersRecorded /\ TakersAlone /\ JudgeSawOwner /\ Accounted
  BY <1>o DEF LockInv, SerialInv
<1>a. LockAssumption
  BY LockAssumption
<1>. USE <1>t, <1>p, <1>o, <1>i DEF Goto, disk, environment, Acquiring, Releasing, Owning, Taking,
       OneOperation, OwnersRecorded, TakersAlone, JudgeSawOwner, Accounted
<1>1. CASE Start(p)
  <2>1. /\ pc[p] = "none" /\ pc' = [pc EXCEPT ![p] = "mkdir"]
        /\ UNCHANGED <<seen, dir, owner, crashed>>
        /\ \A q \in Runs : q # p => pc[q] \notin Acquiring \cup Releasing
    BY <1>1 DEF Start, Busy, Alive
  <2>2. OneOperation'
    BY <2>1
  <2>3. OwnersRecorded' /\ TakersAlone' /\ JudgeSawOwner'
    BY <2>1
  <2>4. ~crashed' => Accounted'
    BY <2>1
  <2>. QED BY <2>2, <2>3, <2>4
<1>2. CASE MakeDir(p)
  <2>1. /\ pc[p] = "mkdir" /\ dir'
        /\ \/ ~dir /\ pc' = [pc EXCEPT ![p] = "record"]
           \/ dir /\ pc' = [pc EXCEPT ![p] = "read"]
        /\ UNCHANGED <<seen, owner, overlap, crashed>>
    BY <1>2 DEF MakeDir
  <2>2. OneOperation' /\ JudgeSawOwner'
    BY <2>1
  <2>3. OwnersRecorded'
    BY <2>1
  <2>4. TakersAlone'
    BY <2>1
  <2>5. ~crashed' => Accounted'
    BY <2>1
  <2>. QED BY <2>2, <2>3, <2>4, <2>5
<1>3. CASE Record(p)
  BY <1>3 DEF Record
<1>4. CASE ReadOwner(p)
  BY <1>4 DEF ReadOwner
<1>5. CASE Judge(p)
  BY <1>5, <1>a DEF Judge, Alive, LockAssumption
<1>6. CASE Unlink(p)
  BY <1>6 DEF Unlink
<1>7. CASE RemoveDir(p)
  BY <1>7 DEF RemoveDir
<1>8. CASE Remake(p)
  BY <1>8 DEF Remake
<1>9. CASE Rerecord(p)
  BY <1>9 DEF Rerecord
<1>10. CASE Refused(p)
  BY <1>10 DEF Refused
<1>11. CASE Finish(p)
  BY <1>11 DEF Finish, Busy
<1>12. CASE ReleaseRead(p)
  BY <1>12 DEF ReleaseRead
<1>13. CASE Drop(p)
  BY <1>13 DEF Drop
<1>14. CASE DropDir(p)
  <2>1. /\ pc[p] = "dropdir" /\ pc' = [pc EXCEPT ![p] = "none"]
        /\ dir' = (dir /\ owner # Nobody)
        /\ UNCHANGED <<seen, owner, overlap, crashed>>
    BY <1>14 DEF DropDir
  <2>2. OneOperation' /\ JudgeSawOwner'
    BY <2>1
  <2>3. OwnersRecorded'
    BY <2>1, LockAssumption DEF LockAssumption
  <2>4. TakersAlone'
    BY <2>1
  <2>5. ASSUME ~crashed' PROVE Accounted'
    <3>1. ~crashed /\ owner = Nobody
      BY <2>1, <2>5
    <3>2. ~dir'
      BY <2>1, <3>1
    <3>. QED BY <2>1, <3>1, <3>2
  <2>. QED BY <2>2, <2>3, <2>4, <2>5
<1>. QED BY <1>1, <1>2, <1>3, <1>4, <1>5, <1>6, <1>7, <1>8, <1>9, <1>10, <1>11,
            <1>12, <1>13, <1>14 DEF Operate

LEMMA LockStep == LockInv /\ [Next]_vars => LockInv'
<1>. SUFFICES ASSUME LockInv, [Next]_vars
              PROVE  LockInv'
  OBVIOUS
<1>1. TypeOK'
  BY TypeStep DEF LockInv
<1>2. ASSUME NEW p \in Runs, Start(p) \/ Operate(p) \/ Crash(p) \/ Recycle(p) \/ AlienExit(p)
      PROVE  SerialInv' /\ Accounted'
  BY <1>2, EnvironmentKeeps, OperationKeeps
<1>3. CASE UNCHANGED vars
  <2>1. UNCHANGED <<pc, seen, dir, owner, overlap, crashed>>
    BY <1>3 DEF vars, disk
  <2>2. SerialInv'
    BY <2>1 DEF LockInv, SerialInv, OneOperation, OwnersRecorded, TakersAlone, JudgeSawOwner
  <2>3. Accounted'
    BY <2>1 DEF LockInv, Accounted
  <2>. QED BY <1>1, <2>2, <2>3 DEF LockInv
<1>. QED BY <1>1, <1>2, <1>3 DEF Next, LockInv

LEMMA LockInit == Init => LockInv
<1>. SUFFICES ASSUME Init PROVE LockInv
  OBVIOUS
<1>1. pc = [p \in Runs |-> "none"] /\ ~dir /\ owner = Nobody
  BY DEF Init
<1>2. TypeOK
  BY <1>1 DEF Init, TypeOK, PcStates
<1>3. SerialInv
  BY <1>1 DEF SerialInv, OneOperation, OwnersRecorded, TakersAlone, JudgeSawOwner,
     Acquiring, Releasing, Owning, Taking
<1>4. Accounted
  BY <1>1 DEF Accounted
<1>. QED BY <1>2, <1>3, <1>4 DEF LockInv

-----------------------------------------------------------------------------
\* Runs whose lock operations do not overlap exclude each other, whatever
\* crashed before and whoever has its process id now (run_lock.sh:4-32).
THEOREM LockExclusive == Spec => []ExclusiveUnlessOverlap
<1>1. LockInv => ExclusiveUnlessOverlap
  BY DEF LockInv, SerialInv, OwnersRecorded, Owning, ExclusiveUnlessOverlap,
     MutualExclusion, Holders
<1>. QED BY <1>1, LockInit, LockStep, PTL DEF Spec

\* Such runs, when none is killed, leave no lock directory (run_lock.sh:25-32).
THEOREM LockCleanedUp == Spec => []CleanExit
<1>1. LockInv => CleanExit
  BY DEF LockInv, Accounted, Owning, CleanExit
<1>. QED BY <1>1, LockInit, LockStep, PTL DEF Spec

-----------------------------------------------------------------------------
(* Who is turned away.  A run that no other process has crossed has the      *)
(* directory to itself, and only remainders of dead runs in its way.         *)

Crossed(p) == p \in rivals

UncrossedInv ==
  \A p \in Runs : pc[p] # "none" /\ ~Crossed(p) =>
    /\ \A q \in Runs : q # p => ~Alive(q)
    /\ pc[p] \in {"mkdir", "read"} => owner # p
    /\ pc[p] = "judge" => seen[p] # p
    /\ pc[p] = "rmdir" => owner = Nobody
    /\ pc[p] = "remake" => ~dir
    /\ pc[p] = "rerecord" => dir
    /\ pc[p] # "refused"

RivalInv == TypeOK /\ UncrossedInv

\* A run that starts counts as crossed unless it is alone and its id unused.
LEMMA StartUncrossed ==
  ASSUME RivalInv, NEW p \in Runs, Start(p)
  PROVE  UncrossedInv'
<1>1. /\ pc[p] = "none" /\ pc' = [pc EXCEPT ![p] = "mkdir"]
      /\ UNCHANGED <<seen, dir, owner, alien>>
      /\ \A q \in Runs \ {p} : Alive(q) => q \in rivals' /\ p \in rivals'
      /\ owner = p => p \in rivals'
      /\ \A q \in Runs \ {p} : q \in rivals => q \in rivals'
  BY DEF Start, Alive, Goto, disk
<1>2. \A q \in Runs : q # p => pc'[q] = pc[q] /\ Alive(q)' = Alive(q)
  BY <1>1 DEF RivalInv, TypeOK, Alive
<1>3. \A q \in Runs : q # p /\ pc'[q] # "none" => Crossed(q)'
  BY <1>1, <1>2 DEF Alive, Crossed
<1>4. pc'[p] = "mkdir"
  BY <1>1 DEF RivalInv, TypeOK
<1>5. ~Crossed(p)' => owner' # p /\ \A q \in Runs : q # p => ~Alive(q)'
  BY <1>1, <1>2 DEF Crossed
<1>. QED BY <1>3, <1>4, <1>5 DEF UncrossedInv

\* A run that is alone is the only one whose operations change the disk.
LEMMA OperateUncrossed ==
  ASSUME RivalInv, NEW p \in Runs, Operate(p)
  PROVE  UncrossedInv'
<1>1. /\ UNCHANGED <<rivals, alien>> /\ pc[p] # "none"
      /\ \A q \in Runs : q # p => pc'[q] = pc[q] /\ seen'[q] = seen[q]
  BY DEF RivalInv, TypeOK, Operate, MakeDir, Record, ReadOwner, Judge, Unlink, RemoveDir, Remake,
     Rerecord, Refused, Finish, ReleaseRead, Drop, DropDir, Goto, environment
<1>2. \A q \in Runs : q # p => (pc'[q] # "none" => Crossed(q)')
  BY <1>1 DEF RivalInv, UncrossedInv, Crossed, Alive
<1>3. SUFFICES ASSUME pc'[p] # "none", ~Crossed(p)
               PROVE  /\ \A q \in Runs : q # p => ~Alive(q)'
                      /\ pc'[p] \in {"mkdir", "read"} => owner' # p
                      /\ pc'[p] = "judge" => seen'[p] # p
                      /\ pc'[p] = "rmdir" => owner' = Nobody
                      /\ pc'[p] = "remake" => ~dir'
                      /\ pc'[p] = "rerecord" => dir'
                      /\ pc'[p] # "refused"
  BY <1>1, <1>2 DEF UncrossedInv, Crossed
<1>4. /\ \A q \in Runs : q # p => ~Alive(q)
      /\ pc[p] \in {"mkdir", "read"} => owner # p
      /\ pc[p] = "judge" => seen[p] # p
      /\ pc[p] = "rmdir" => owner = Nobody
      /\ pc[p] = "remake" => ~dir
      /\ pc[p] = "rerecord" => dir
      /\ pc[p] # "refused"
  BY <1>1, <1>3 DEF RivalInv, UncrossedInv
<1>5. \A q \in Runs : q # p => ~Alive(q)'
  BY <1>1, <1>4 DEF Alive
<1>6. TypeOK
  BY DEF RivalInv
<1>7. CASE Judge(p)
  <2>1. seen[p] # Nobody => ~Alive(seen[p])
    BY <1>4, <1>6, <1>7 DEF Judge, TypeOK
  <2>. QED BY <1>5, <1>6, <1>7, <2>1 DEF Judge, TypeOK, Goto
<1>8. CASE MakeDir(p) \/ Record(p) \/ ReadOwner(p) \/ Unlink(p) \/ Finish(p)
  BY <1>4, <1>5, <1>6, <1>8, LockAssumption DEF LockAssumption, MakeDir, Record, ReadOwner, Unlink,
     Finish, TypeOK, Goto, disk
<1>9. CASE RemoveDir(p) \/ Remake(p) \/ Rerecord(p) \/ Refused(p)
  BY <1>3, <1>4, <1>5, <1>6, <1>9 DEF RemoveDir, Remake, Rerecord, Refused, TypeOK, Goto
<1>10. CASE ReleaseRead(p) \/ Drop(p) \/ DropDir(p)
  BY <1>3, <1>4, <1>5, <1>6, <1>10 DEF ReleaseRead, Drop, DropDir, TypeOK, Goto
<1>. QED BY <1>7, <1>8, <1>9, <1>10 DEF Operate

LEMMA RivalStep == RivalInv /\ [Next]_vars => RivalInv'
<1>. SUFFICES ASSUME RivalInv, [Next]_vars
              PROVE  UncrossedInv'
  BY TypeStep DEF RivalInv
<1>1. ASSUME NEW p \in Runs, Crash(p) \/ AlienExit(p)
      PROVE  UncrossedInv'
  <2>1. /\ UNCHANGED <<seen, dir, owner, rivals>>
        /\ \A q \in Runs : pc'[q] \in {pc[q], "none"} /\ (Alive(q)' => Alive(q))
    BY <1>1 DEF RivalInv, TypeOK, Crash, AlienExit, Alive, Goto, disk
  <2>. QED BY <2>1 DEF RivalInv, UncrossedInv, Crossed
<1>2. ASSUME NEW p \in Runs, Recycle(p)
      PROVE  UncrossedInv'
  BY <1>2 DEF RivalInv, UncrossedInv, Crossed, Recycle
<1>3. CASE UNCHANGED vars
  BY <1>3 DEF RivalInv, UncrossedInv, Crossed, Alive, vars, disk
<1>. QED BY <1>1, <1>2, <1>3, StartUncrossed, OperateUncrossed DEF Next

-----------------------------------------------------------------------------
\* The variables of the lock keep their types, and owner.pid exists only inside
\* the directory (run_lock.sh:4-32).
THEOREM LockTypes == Spec => []TypeOK
<1>1. LockInv => TypeOK
  BY DEF LockInv
<1>. QED BY <1>1, LockInit, LockStep, PTL DEF Spec

\* However many runs there are and wherever they are killed, none is turned away
\* but by a process that lived beside it or has left its own id in owner.pid: no
\* remainder of a dead run shuts the others out (run_lock.sh:11-22).
THEOREM RefusalHasRival == Spec => []RefusedOnlyByRival
<1>1. Init => RivalInv
  <2>1. Init => TypeOK
    BY LockInit DEF LockInv
  <2>2. Init => UncrossedInv
    BY DEF Init, UncrossedInv
  <2>. QED BY <2>1, <2>2 DEF RivalInv
<1>2. RivalInv => RefusedOnlyByRival
  BY DEF RivalInv, UncrossedInv, Crossed, RefusedOnlyByRival
<1>. QED BY <1>1, <1>2, RivalStep, PTL DEF Spec
=============================================================================
