--------------------------- MODULE GatewayProofs ---------------------------
(***************************************************************************)
(* The gateway's admission and rate limit for any number of handlers, any  *)
(* requests and any bucket.  The inductive invariant is GatewayInv.        *)
(***************************************************************************)
EXTENDS Gateway, FiniteSetTheorems, TLAPS

\* Handlers at these places have acquired and cannot have released.
InsidePcs == {"refill", "store", "consume", "shed", "admit", "validate"}

\* At these places an inference has acquired and cannot have released.
ServingPcs == {"connect", "headers", "stream", "finish"}

Owns ==
  \A h \in Handlers :
    /\ pc[h] \in InsidePcs => h \in holding
    /\ pc[h] \in ServingPcs /\ IsInference(req[h]) => h \in holding
    /\ pc[h] = "note" => ~IsInference(req[h])

\* The outermost error handler is reached only through a failed write.
OuterNeedsVanish == \A h \in Handlers : pc[h] = "outer" => MayVanish

\* No refill, stored or pending, is for an instant to come.
InstantsInv ==
  /\ last <= now
  /\ \A h \in Handlers : refill[h].at <= now

\* While the slot is exact, a pending refill is about the bucket as it is.
RefillFresh ==
  ~stolen =>
    \A h \in Handlers :
      pc[h] = "store" => /\ refill[h].at >= last
                         /\ refill[h].level <= tokens + (refill[h].at - last) * Rate

RateBudget == ~stolen => granted * Cost + tokens <= Capacity + Rate * last

TypeInv == TypeOK /\ InstantsInv

SlotInv == TypeInv /\ Owns /\ OuterNeedsVanish /\ TheftNeedsVanishedClient
             /\ ExactUnlessStolen

GatewayInv == SlotInv /\ RefillFresh /\ RateBudget

-----------------------------------------------------------------------------
\* A refill computes a level the bucket can hold, at most what it held plus
\* what the elapsed time adds (demo_policy.py:239).
LEMMA LevelRange ==
  ASSUME NEW held \in 0..Capacity, NEW since \in Nat, NEW at \in Nat,
         since <= at
  PROVE  /\ Level(held, since, at) \in 0..Capacity
         /\ Level(held, since, at) <= held + (at - since) * Rate
<1>1. (at - since) * Rate \in Nat
  BY GatewayAssumption DEF GatewayAssumption
<1>. QED BY <1>1, GatewayAssumption DEF GatewayAssumption, Level

\* What the helpers of the actions do to the variables they write.
LEMMA ReleaseType ==
  ASSUME TypeOK, NEW h \in Handlers, Release(h)
  PROVE  slot' \in BOOLEAN /\ holding' \in SUBSET Handlers /\ stolen' \in BOOLEAN
BY DEF TypeOK, Release

LEMMA NoteType ==
  ASSUME TypeOK, NEW c \in Counters, Note(c)
  PROVE  tel' \in [Counters -> Nat]
BY DEF TypeOK, Note

LEMMA MoveType ==
  ASSUME TypeOK, NEW h \in Handlers, NEW there \in PcStates, Move(h, there)
  PROVE  pc' \in [Handlers -> PcStates] /\ req' \in [Handlers -> Request]
BY DEF TypeOK, Move, Goto

LEMMA NoRequestType == NoRequest \in Request
BY DEF NoRequest, Request, NoBody, Body

LEMMA DoneType ==
  ASSUME TypeOK, NEW h \in Handlers, Done(h)
  PROVE  pc' \in [Handlers -> PcStates] /\ req' \in [Handlers -> Request]
BY NoRequestType DEF TypeOK, Done, Goto, PcStates

LEMMA ReleaseIfAdmittedType ==
  ASSUME TypeOK, NEW h \in Handlers, ReleaseIfAdmitted(h)
  PROVE  slot' \in BOOLEAN /\ holding' \in SUBSET Handlers /\ stolen' \in BOOLEAN
BY ReleaseType DEF TypeOK, ReleaseIfAdmitted

\* The steps of a handler keep the types and never refer to the future.
LEMMA ServeType ==
  ASSUME TypeInv, NEW h \in Handlers, Serve(h)
  PROVE  TypeInv'
<1>. TypeOK /\ InstantsInv
  BY DEF TypeInv
<1>a. \A p \in PcStates : Move(h, p) =>
        pc' \in [Handlers -> PcStates] /\ req' \in [Handlers -> Request]
  BY MoveType
<1>b. Done(h) => pc' \in [Handlers -> PcStates] /\ req' \in [Handlers -> Request]
  BY DoneType
<1>c. \A c \in Counters : Note(c) => tel' \in [Counters -> Nat]
  BY NoteType
<1>d. Release(h) \/ ReleaseIfAdmitted(h) =>
        slot' \in BOOLEAN /\ holding' \in SUBSET Handlers /\ stolen' \in BOOLEAN
  BY ReleaseType, ReleaseIfAdmittedType
<1>e. NoRefill \in [level : 0..Capacity, at : Nat] /\ NoRefill.at = 0
  BY GatewayAssumption DEF GatewayAssumption, NoRefill
<1>. USE DEF TypeInv, TypeOK, InstantsInv, bucket, telemetry, history, PcStates, Counters
<1>1. CASE TryAcquire(h)
  BY <1>1, <1>a, <1>b, <1>c DEF TryAcquire
<1>2. CASE RefillRead(h)
  <2>1. Level(tokens, last, now) \in 0..Capacity
    BY LevelRange
  <2>2. [level |-> Level(tokens, last, now), at |-> now]
          \in [level : 0..Capacity, at : Nat]
    BY <2>1
  <2>3. refill' \in [Handlers -> [level : 0..Capacity, at : Nat]]
    BY <1>2, <2>2 DEF RefillRead
  <2>4. \A g \in Handlers : refill'[g].at <= now
    BY <1>2 DEF RefillRead
  <2>. QED BY <1>2, <1>a, <2>3, <2>4 DEF RefillRead
<1>3. CASE RefillStore(h)
  BY <1>3, <1>a DEF RefillStore
<1>4. CASE Consume(h)
  BY <1>4, <1>a, <1>e, GatewayAssumption DEF Consume, GatewayAssumption
<1>5. CASE Shed(h)
  BY <1>5, <1>b, <1>c, <1>d DEF Shed
<1>6. CASE NoteAdmitted(h)
  BY <1>6, <1>a, <1>c DEF NoteAdmitted
<1>7. CASE NoteRequest(h)
  BY <1>7, <1>a, <1>c DEF NoteRequest
<1>8. CASE ServeReady(h)
  BY <1>8, <1>b, <1>c DEF ServeReady
<1>9. CASE Validate(h)
  BY <1>9, <1>a, <1>b, <1>c, <1>d DEF Validate
<1>10. CASE Connect(h)
  BY <1>10, <1>a, <1>c, <1>d DEF Connect
<1>11. CASE Answer502(h)
  BY <1>11, <1>a, <1>b DEF Answer502
<1>12. CASE SendHeaders(h)
  BY <1>12, <1>a DEF SendHeaders
<1>13. CASE Stream(h)
  BY <1>13, <1>a, <1>c DEF Stream
<1>14. CASE Finish(h)
  BY <1>14, <1>a, <1>d DEF Finish
<1>15. CASE NoteCompleted(h)
  BY <1>15, <1>b DEF NoteCompleted
<1>16. CASE OuterError(h)
  BY <1>16, <1>b, <1>c, <1>d DEF OuterError
<1>. QED
  BY <1>1, <1>2, <1>3, <1>4, <1>5, <1>6, <1>7, <1>8, <1>9, <1>10, <1>11, <1>12,
     <1>13, <1>14, <1>15, <1>16 DEF Serve

LEMMA TypeStep == TypeInv /\ [Next]_vars => TypeInv'
<1>. SUFFICES ASSUME TypeInv, [Next]_vars
              PROVE  TypeInv'
  OBVIOUS
<1>1. ASSUME NEW h \in Handlers, Receive(h)
      PROVE  TypeInv'
  <2>1. PICK r \in Requests :
          \/ /\ Goto(h, IF IsInference(r) THEN "acquire" ELSE "note")
             /\ req' = [req EXCEPT ![h] = r]
             /\ UNCHANGED tel
          \/ /\ (Note("requests") \/ UNCHANGED tel)
             /\ UNCHANGED <<pc, req>>
    BY <1>1 DEF Receive
  <2>2. r \in Request
    BY GatewayAssumption DEF GatewayAssumption
  <2>3. tel' \in [Counters -> Nat]
    BY <2>1, NoteType DEF TypeInv, TypeOK, Counters
  <2>4. pc' \in [Handlers -> PcStates] /\ req' \in [Handlers -> Request]
    BY <2>1, <2>2 DEF TypeInv, TypeOK, Goto, PcStates
  <2>. QED BY <1>1, <2>3, <2>4 DEF Receive, TypeInv, TypeOK, InstantsInv, bucket
<1>2. ASSUME NEW h \in Handlers, Serve(h)
      PROVE  TypeInv'
  BY <1>2, ServeType
<1>3. CASE Tick
  BY <1>3 DEF Tick, TypeInv, TypeOK, InstantsInv, telemetry, history
<1>4. CASE UNCHANGED vars
  BY <1>4 DEF vars, TypeInv, TypeOK, InstantsInv, bucket, telemetry, history
<1>. QED BY <1>1, <1>2, <1>3, <1>4 DEF Next

-----------------------------------------------------------------------------
\* Only the step's own handler changes place; the others keep what they hold.
LEMMA OwnsFrame ==
  ASSUME TypeOK, Owns, NEW h \in Handlers, NEW there \in PcStates,
         pc' = [pc EXCEPT ![h] = there],
         \A g \in Handlers : g # h => /\ req'[g] = req[g]
                                      /\ g \in holding => g \in holding',
         there \in InsidePcs => h \in holding',
         there \in ServingPcs /\ IsInference(req'[h]) => h \in holding',
         there = "note" => ~IsInference(req'[h])
  PROVE  Owns'
<1>. SUFFICES ASSUME NEW g \in Handlers
              PROVE  /\ pc'[g] \in InsidePcs => g \in holding'
                     /\ pc'[g] \in ServingPcs /\ IsInference(req'[g]) => g \in holding'
                     /\ pc'[g] = "note" => ~IsInference(req'[g])
  BY DEF Owns, IsInference
<1>1. CASE g = h
  BY <1>1 DEF TypeOK
<1>2. CASE g # h
  BY <1>2 DEF TypeOK, Owns
<1>. QED BY <1>1, <1>2

\* A release by a handler that holds the slot keeps the slot exact and takes
\* nothing from anyone; one by a handler that does not either finds the slot
\* free or is recorded as a theft (AdmissionSlot.release, lines 208-210).
LEMMA ReleaseExact ==
  ASSUME TypeOK, ExactUnlessStolen, NEW h \in Handlers, Release(h)
  PROVE  /\ ExactUnlessStolen'
         /\ h \in holding => stolen' = stolen
         /\ \A g \in Handlers : g # h /\ g \in holding => g \in holding'
BY DEF TypeOK, ExactUnlessStolen, SingleInference, Release

LEMMA ReleaseIfAdmittedExact ==
  ASSUME TypeOK, ExactUnlessStolen, NEW h \in Handlers, ReleaseIfAdmitted(h)
  PROVE  /\ ExactUnlessStolen'
         /\ IsInference(req[h]) => (h \in holding => stolen' = stolen)
         /\ ~IsInference(req[h]) => stolen' = stolen
         /\ \A g \in Handlers : g # h /\ g \in holding => g \in holding'
<1>1. CASE IsInference(req[h])
  BY <1>1, ReleaseExact DEF ReleaseIfAdmitted
<1>2. CASE ~IsInference(req[h])
  BY <1>2 DEF ReleaseIfAdmitted, ExactUnlessStolen, SingleInference
<1>. QED BY <1>1, <1>2

\* A handler's step keeps every inference's ownership.
LEMMA ServeOwns ==
  ASSUME SlotInv, NEW h \in Handlers, Serve(h)
  PROVE  Owns'
<1>. TypeOK /\ Owns /\ ExactUnlessStolen
  BY DEF SlotInv, TypeInv
<1>p. pc[h] \in PcStates /\ req \in [Handlers -> Request]
  BY DEF TypeOK
<1>r. Release(h) \/ ReleaseIfAdmitted(h) =>
        \A g \in Handlers : g # h /\ g \in holding => g \in holding'
  BY ReleaseExact, ReleaseIfAdmittedExact
<1>s. ReleaseIfAdmitted(h) /\ ~IsInference(req[h]) => holding' = holding
  BY DEF ReleaseIfAdmitted
<1>. USE <1>p, OwnsFrame DEF Move, Done, Goto, InsidePcs, ServingPcs, PcStates, history
<1>1. CASE TryAcquire(h)
  <2>1. \A g \in holding : g \in holding'
    BY <1>1 DEF TryAcquire
  <2>2. pc[h] = "acquire" /\ holding' \subseteq holding \cup {h}
    BY <1>1 DEF TryAcquire
  <2>3. CASE pc' = [pc EXCEPT ![h] = "idle"] /\ req' = [req EXCEPT ![h] = NoRequest]
    BY <2>1, <2>3
  <2>4. CASE pc' = [pc EXCEPT ![h] = "refill"] /\ req' = req /\ h \in holding'
    BY <2>1, <2>4
  <2>. QED BY <1>1, <2>3, <2>4 DEF TryAcquire
<1>2. CASE RefillRead(h)
  BY <1>2 DEF RefillRead, Owns
<1>3. CASE RefillStore(h)
  BY <1>3 DEF RefillStore, Owns
<1>4. CASE Consume(h)
  BY <1>4 DEF Consume, Owns
<1>5. CASE Shed(h)
  BY <1>5, <1>r DEF Shed
<1>6. CASE NoteAdmitted(h)
  BY <1>6 DEF NoteAdmitted, Owns
<1>7. CASE NoteRequest(h)
  BY <1>7 DEF NoteRequest, Owns
<1>8. CASE ServeReady(h)
  BY <1>8 DEF ServeReady
<1>9. CASE Validate(h)
  BY <1>9, <1>r DEF Validate, Owns
<1>10. CASE Connect(h)
  <2>1. IsInference(req[h]) => h \in holding
    BY <1>10 DEF Connect, Owns
  <2>2. CASE Move(h, "headers") /\ UNCHANGED holding
    BY <2>1, <2>2
  <2>3. CASE Move(h, "dead") /\ UNCHANGED holding
    BY <2>3
  <2>4. CASE Move(h, "answer502") /\ ReleaseIfAdmitted(h)
    BY <2>4, <1>r
  <2>. QED BY <1>10, <2>2, <2>3, <2>4 DEF Connect
<1>11. CASE Answer502(h)
  BY <1>11 DEF Answer502
<1>12. CASE SendHeaders(h)
  BY <1>12 DEF SendHeaders, Owns
<1>13. CASE Stream(h)
  BY <1>13 DEF Stream, Owns
<1>14. CASE Finish(h)
  BY <1>14, <1>r DEF Finish
<1>15. CASE NoteCompleted(h)
  BY <1>15 DEF NoteCompleted
<1>16. CASE OuterError(h)
  BY <1>16, <1>r DEF OuterError
<1>. QED
  BY <1>1, <1>2, <1>3, <1>4, <1>5, <1>6, <1>7, <1>8, <1>9, <1>10, <1>11, <1>12,
     <1>13, <1>14, <1>15, <1>16 DEF Serve

\* A handler's step keeps the slot exact, and a theft needs a client that
\* went away: every other release is by a handler that holds the slot.
LEMMA ServeSlot ==
  ASSUME SlotInv, NEW h \in Handlers, Serve(h)
  PROVE  OuterNeedsVanish' /\ TheftNeedsVanishedClient' /\ ExactUnlessStolen'
<1>. TypeOK /\ Owns /\ OuterNeedsVanish /\ TheftNeedsVanishedClient /\ ExactUnlessStolen
  BY DEF SlotInv, TypeInv
<1>p. pc \in [Handlers -> PcStates]
  BY DEF TypeOK
<1>r. Release(h) /\ h \in holding => ExactUnlessStolen' /\ stolen' = stolen
  BY ReleaseExact
<1>s. ReleaseIfAdmitted(h) /\ (IsInference(req[h]) => h \in holding)
        => ExactUnlessStolen' /\ stolen' = stolen
  BY ReleaseIfAdmittedExact
<1>t. ReleaseIfAdmitted(h) => ExactUnlessStolen'
  BY ReleaseIfAdmittedExact
<1>o. pc[h] \in InsidePcs => h \in holding
  BY DEF Owns
<1>q. pc[h] \in ServingPcs /\ IsInference(req[h]) => h \in holding
  BY DEF Owns
<1>u. UNCHANGED <<slot, holding, stolen>> => ExactUnlessStolen' /\ stolen' = stolen
  BY DEF ExactUnlessStolen, SingleInference
<1>v. ASSUME NEW p \in PcStates, pc' = [pc EXCEPT ![h] = p], p = "outer" => MayVanish
      PROVE  OuterNeedsVanish'
  BY <1>p, <1>v DEF OuterNeedsVanish
<1>w. stolen' = stolen => TheftNeedsVanishedClient'
  BY DEF TheftNeedsVanishedClient
<1>. USE DEF Move, Done, Goto, InsidePcs, ServingPcs, PcStates, history
<1>1. CASE TryAcquire(h)
  <2>1. OuterNeedsVanish' /\ TheftNeedsVanishedClient'
    BY <1>1, <1>v, <1>w DEF TryAcquire
  <2>2. CASE ~slot /\ slot' = TRUE /\ holding' = holding \cup {h} /\ stolen' = stolen
    <3>1. ~stolen => holding = {}
      BY <2>2 DEF ExactUnlessStolen
    <3>2. ExactUnlessStolen'
      BY <2>2, <3>1 DEF ExactUnlessStolen, SingleInference
    <3>. QED BY <2>1, <3>2
  <2>3. CASE UNCHANGED <<slot, holding, stolen>>
    BY <2>1, <2>3, <1>u
  <2>. QED BY <1>1, <2>1, <2>2, <2>3 DEF TryAcquire
<1>2. CASE RefillRead(h)
  BY <1>2, <1>u, <1>v, <1>w DEF RefillRead
<1>3. CASE RefillStore(h)
  BY <1>3, <1>u, <1>v, <1>w DEF RefillStore
<1>4. CASE Consume(h)
  <2>1. UNCHANGED <<slot, holding, stolen>>
    BY <1>4 DEF Consume
  <2>2. OuterNeedsVanish'
    BY <1>4, <1>v DEF Consume
  <2>. QED BY <2>1, <2>2, <1>u, <1>w
<1>5. CASE Shed(h)
  BY <1>5, <1>o, <1>r, <1>v, <1>w DEF Shed
<1>6. CASE NoteAdmitted(h)
  BY <1>6, <1>u, <1>v, <1>w DEF NoteAdmitted
<1>7. CASE NoteRequest(h)
  BY <1>7, <1>u, <1>v, <1>w DEF NoteRequest
<1>8. CASE ServeReady(h)
  BY <1>8, <1>u, <1>v, <1>w DEF ServeReady
<1>9. CASE Validate(h)
  <2>1. OuterNeedsVanish'
    BY <1>9, <1>v DEF Validate
  <2>2. CASE UNCHANGED <<slot, holding, stolen>>
    BY <2>1, <2>2, <1>u, <1>w
  <2>3. CASE Release(h) /\ pc[h] = "validate"
    BY <2>1, <2>3, <1>o, <1>r, <1>w
  <2>. QED BY <1>9, <2>2, <2>3 DEF Validate
<1>10. CASE Connect(h)
  <2>1. OuterNeedsVanish'
    BY <1>10, <1>v DEF Connect
  <2>2. CASE UNCHANGED <<slot, holding, stolen>>
    BY <2>1, <2>2, <1>u, <1>w
  <2>3. CASE ReleaseIfAdmitted(h) /\ pc[h] = "connect"
    BY <2>1, <2>3, <1>q, <1>s, <1>w
  <2>. QED BY <1>10, <2>2, <2>3 DEF Connect
<1>11. CASE Answer502(h)
  BY <1>11, <1>u, <1>v, <1>w DEF Answer502
<1>12. CASE SendHeaders(h)
  BY <1>12, <1>u, <1>v, <1>w DEF SendHeaders
<1>13. CASE Stream(h)
  <2>1. pc' = pc \/ pc' = [pc EXCEPT ![h] = "finish"]
    BY <1>13 DEF Stream
  <2>2. OuterNeedsVanish'
    BY <2>1, <1>v DEF OuterNeedsVanish
  <2>. QED BY <1>13, <2>2, <1>u, <1>w DEF Stream
<1>14. CASE Finish(h)
  BY <1>14, <1>q, <1>s, <1>v, <1>w DEF Finish
<1>15. CASE NoteCompleted(h)
  BY <1>15, <1>u, <1>v, <1>w DEF NoteCompleted
<1>16. CASE OuterError(h)
  <2>1. MayVanish
    BY <1>16 DEF OuterError, OuterNeedsVanish
  <2>. QED BY <1>16, <2>1, <1>t, <1>v DEF OuterError, TheftNeedsVanishedClient
<1>. QED
  BY <1>1, <1>2, <1>3, <1>4, <1>5, <1>6, <1>7, <1>8, <1>9, <1>10, <1>11, <1>12,
     <1>13, <1>14, <1>15, <1>16 DEF Serve

LEMMA SlotStep == SlotInv /\ [Next]_vars => SlotInv'
<1>. SUFFICES ASSUME SlotInv, [Next]_vars
              PROVE  SlotInv'
  OBVIOUS
<1>1. TypeInv'
  BY TypeStep DEF SlotInv
<1>2. ASSUME NEW h \in Handlers, Receive(h)
      PROVE  SlotInv'
  <2>1. UNCHANGED <<slot, holding, stolen>> /\ pc[h] = "idle"
    BY <1>2 DEF Receive
  <2>2. PICK r \in Requests :
          \/ /\ pc' = [pc EXCEPT ![h] = IF IsInference(r) THEN "acquire" ELSE "note"]
             /\ req' = [req EXCEPT ![h] = r]
          \/ UNCHANGED <<pc, req>>
    BY <1>2 DEF Receive, Goto
  <2>3. CASE UNCHANGED <<pc, req>>
    BY <1>1, <2>1, <2>3 DEF SlotInv, Owns, OuterNeedsVanish,
       TheftNeedsVanishedClient, ExactUnlessStolen, SingleInference, IsInference
  <2>4. CASE /\ pc' = [pc EXCEPT ![h] = IF IsInference(r) THEN "acquire" ELSE "note"]
             /\ req' = [req EXCEPT ![h] = r]
    <3>1. Owns'
      BY <2>1, <2>4 DEF SlotInv, TypeInv, TypeOK, Owns, IsInference, InsidePcs, ServingPcs
    <3>2. OuterNeedsVanish'
      BY <2>4 DEF SlotInv, TypeInv, TypeOK, OuterNeedsVanish
    <3>. QED BY <1>1, <2>1, <3>1, <3>2 DEF SlotInv, TheftNeedsVanishedClient,
                ExactUnlessStolen, SingleInference
  <2>. QED BY <2>2, <2>3, <2>4
<1>3. ASSUME NEW h \in Handlers, Serve(h)
      PROVE  SlotInv'
  BY <1>1, <1>3, ServeOwns, ServeSlot DEF SlotInv
<1>4. CASE UNCHANGED <<pc, req, slot, history>>
  BY <1>1, <1>4 DEF SlotInv, Owns, OuterNeedsVanish, TheftNeedsVanishedClient,
     ExactUnlessStolen, SingleInference, IsInference, history
<1>5. CASE Tick
  BY <1>4, <1>5 DEF Tick
<1>6. CASE UNCHANGED vars
  BY <1>4, <1>6 DEF vars
<1>. QED BY <1>2, <1>3, <1>5, <1>6 DEF Next

LEMMA SlotInit == Init => SlotInv
<1>. SUFFICES ASSUME Init PROVE SlotInv
  OBVIOUS
<1>1. TypeInv
  <2>1. NoRequest \in Request
    BY NoRequestType
  <2>2. NoRefill \in [level : 0..Capacity, at : Nat] /\ NoRefill.at = 0
    BY GatewayAssumption DEF GatewayAssumption, NoRefill
  <2>3. tokens \in 0..Capacity
    BY GatewayAssumption DEF GatewayAssumption, Init
  <2>4. slot \in BOOLEAN /\ active \in BOOLEAN /\ stolen \in BOOLEAN
        /\ holding \in SUBSET Handlers
    BY DEF Init
  <2>5. /\ pc \in [Handlers -> PcStates]
        /\ req \in [Handlers -> Request]
        /\ refill \in [Handlers -> [level : 0..Capacity, at : Nat]]
        /\ relayed \in [Handlers -> Nat]
        /\ tel \in [Counters -> Nat]
    BY <2>1, <2>2 DEF Init, PcStates
  <2>6. last = 0 /\ now = 0 /\ arrived = 0 /\ granted = 0
        /\ \A h \in Handlers : refill[h].at = 0
    BY <2>2 DEF Init
  <2>. QED BY <2>3, <2>4, <2>5, <2>6 DEF TypeInv, TypeOK, InstantsInv
<1>2. Owns /\ OuterNeedsVanish
  BY DEF Init, Owns, OuterNeedsVanish, InsidePcs, ServingPcs
<1>3. TheftNeedsVanishedClient /\ ExactUnlessStolen
  BY DEF Init, TheftNeedsVanishedClient, ExactUnlessStolen, SingleInference
<1>. QED BY <1>1, <1>2, <1>3 DEF SlotInv

-----------------------------------------------------------------------------
\* Arithmetic of the budget, for the provers.
LEMMA RateArithmetic ==
  ASSUME NEW a \in Nat, NEW b \in Nat, a <= b
  PROVE  /\ Rate * a + (b - a) * Rate = Rate * b
         /\ Rate * a <= Rate * b
<1>1. Rate \in Nat
  BY GatewayAssumption DEF GatewayAssumption
<1>2. PICK d \in Nat : b = a + d
  <2>1. b - a \in Nat /\ b = a + (b - a)
    OBVIOUS
  <2>. QED BY <2>1
<1>3. Rate * (a + d) = Rate * a + Rate * d /\ d * Rate = Rate * d /\ Rate * d \in Nat
      /\ Rate * a \in Nat
  BY <1>1
<1>. QED BY <1>2, <1>3

LEMMA GrantArithmetic ==
  ASSUME NEW g \in Nat
  PROVE  g * Cost \in Nat /\ (g + 1) * Cost = g * Cost + Cost
<1>1. Cost \in Nat
  BY GatewayAssumption DEF GatewayAssumption
<1>. QED BY <1>1

\* A theft is never undone.
LEMMA TheftStays == SlotInv /\ [Next]_vars => (stolen => stolen')
<1>. SUFFICES ASSUME SlotInv, [Next]_vars, stolen
              PROVE  stolen'
  OBVIOUS
<1>1. stolen \in BOOLEAN
  BY DEF SlotInv, TypeInv, TypeOK
<1>2. ASSUME NEW h \in Handlers, Release(h) \/ ReleaseIfAdmitted(h)
      PROVE  stolen'
  BY <1>2 DEF Release, ReleaseIfAdmitted
<1>3. stolen' = stolen \/ \E h \in Handlers : Release(h) \/ ReleaseIfAdmitted(h)
  BY DEF Next, vars, history, bucket, telemetry, Receive, Serve, Tick, TryAcquire,
     RefillRead, RefillStore, Consume, Shed, NoteAdmitted, NoteRequest, ServeReady,
     Validate, Connect, Answer502, SendHeaders, Stream, Finish, NoteCompleted,
     OuterError
<1>. QED BY <1>1, <1>2, <1>3

\* While the slot is exact, one handler at most is inside try_consume.
LEMMA OneRefills ==
  ASSUME SlotInv, ~stolen, NEW g \in Handlers, NEW h \in Handlers,
         pc[g] \in {"refill", "store", "consume"},
         pc[h] \in {"refill", "store", "consume"}
  PROVE  g = h
<1>1. g \in holding /\ h \in holding
  BY DEF SlotInv, Owns, InsidePcs
<1>. QED BY <1>1 DEF SlotInv, ExactUnlessStolen, SingleInference

\* Steps that leave the bucket alone keep both facts, if they send no
\* handler to "store".
LEMMA RateFrame ==
  ASSUME GatewayInv, stolen => stolen',
         UNCHANGED <<tokens, last, granted>>,
         \A g \in Handlers : pc'[g] = "store" =>
            pc[g] = "store" /\ refill'[g] = refill[g]
  PROVE  RefillFresh' /\ RateBudget'
BY DEF GatewayInv, RefillFresh, RateBudget

LEMMA RateStep == GatewayInv /\ [Next]_vars => RefillFresh' /\ RateBudget'
<1>. SUFFICES ASSUME GatewayInv, [Next]_vars
              PROVE  RefillFresh' /\ RateBudget'
  OBVIOUS
<1>i. SlotInv /\ RefillFresh /\ RateBudget /\ TypeOK /\ InstantsInv
  BY DEF GatewayInv, SlotInv, TypeInv
<1>t. stolen => stolen'
  BY <1>i, TheftStays
<1>g. granted \in Nat /\ last \in Nat /\ now \in Nat /\ tokens \in 0..Capacity
  BY <1>i DEF TypeOK
<1>1. ASSUME NEW h \in Handlers, RefillRead(h)
      PROVE  RefillFresh' /\ RateBudget'
  <2>1. /\ refill' = [refill EXCEPT ![h] = [level |-> Level(tokens, last, now), at |-> now]]
        /\ pc' = [pc EXCEPT ![h] = "store"]
        /\ pc[h] = "refill"
        /\ UNCHANGED <<tokens, last, granted, stolen>>
    BY <1>1 DEF RefillRead, Move, Goto, history, bucket
  <2>2. last <= now /\ Level(tokens, last, now) <= tokens + (now - last) * Rate
    BY <1>i, <1>g, LevelRange DEF InstantsInv
  <2>3. refill'[h].at = now /\ refill'[h].level = Level(tokens, last, now)
    BY <1>i, <2>1 DEF TypeOK
  <2>4. ASSUME ~stolen', NEW g \in Handlers, pc'[g] = "store"
        PROVE  /\ refill'[g].at >= last'
               /\ refill'[g].level <= tokens' + (refill'[g].at - last') * Rate
    <3>1. g = h \/ pc[g] = "store"
      BY <2>1, <2>4, <1>i DEF TypeOK
    <3>2. g = h
      BY <3>1, <2>1, <2>4, <1>i, <1>t, OneRefills
    <3>. QED BY <3>2, <2>1, <2>2, <2>3, <1>g
  <2>. QED BY <2>1, <2>4, <1>i DEF RefillFresh, RateBudget
<1>2. ASSUME NEW h \in Handlers, RefillStore(h)
      PROVE  RefillFresh' /\ RateBudget'
  <2>1. /\ pc[h] = "store" /\ pc' = [pc EXCEPT ![h] = "consume"]
        /\ tokens' = refill[h].level /\ last' = refill[h].at
        /\ UNCHANGED <<granted, stolen>>
    BY <1>2 DEF RefillStore, Move, Goto, history
  <2>2. ASSUME ~stolen', NEW g \in Handlers, pc'[g] = "store"
        PROVE  FALSE
    <3>1. g # h /\ pc[g] = "store"
      BY <2>1, <2>2, <1>i DEF TypeOK
    <3>. QED BY <3>1, <2>1, <2>2, <1>i, OneRefills
  <2>3. ASSUME ~stolen'
        PROVE  granted' * Cost + tokens' <= Capacity + Rate * last'
    <3>1. refill[h].at \in Nat /\ refill[h].level \in Nat
      BY <1>i, GatewayAssumption DEF TypeOK, GatewayAssumption
    <3>2. /\ last <= refill[h].at
          /\ refill[h].level <= tokens + (refill[h].at - last) * Rate
      BY <2>1, <2>3, <1>i, <1>g, <3>1 DEF RefillFresh
    <3>3. Rate * last + (refill[h].at - last) * Rate = Rate * refill[h].at
      BY <3>1, <3>2, <1>g, RateArithmetic
    <3>4. granted * Cost + tokens <= Capacity + Rate * last
      BY <2>1, <2>3, <1>i DEF RateBudget
    <3>5. /\ granted * Cost \in Nat /\ Capacity \in Nat
          /\ Rate * last \in Nat /\ (refill[h].at - last) * Rate \in Int
      BY <1>g, <3>1, GatewayAssumption DEF GatewayAssumption
    <3>6. granted * Cost + refill[h].level <= Capacity + Rate * refill[h].at
      BY <3>1, <3>2, <3>3, <3>4, <3>5, <1>g
    <3>. QED BY <2>1, <3>6
  <2>. QED BY <2>2, <2>3 DEF RefillFresh, RateBudget
<1>3. ASSUME NEW h \in Handlers, Consume(h)
      PROVE  RefillFresh' /\ RateBudget'
  <2>1. /\ pc[h] = "consume" /\ last' = last /\ stolen' = stolen
        /\ \/ tokens' = tokens - Cost /\ granted' = granted + 1
           \/ UNCHANGED <<tokens, granted>>
        /\ pc' = [pc EXCEPT ![h] = "admit"] \/ pc' = [pc EXCEPT ![h] = "shed"]
    BY <1>3 DEF Consume, Move, Goto
  <2>2. ASSUME ~stolen', NEW g \in Handlers, pc'[g] = "store"
        PROVE  FALSE
    <3>1. g # h /\ pc[g] = "store"
      BY <2>1, <2>2, <1>i DEF TypeOK
    <3>. QED BY <3>1, <2>1, <2>2, <1>i, OneRefills
  <2>3. granted' * Cost + tokens' = granted * Cost + tokens
    <3>1. Cost \in Nat
      BY GatewayAssumption DEF GatewayAssumption
    <3>2. CASE tokens' = tokens - Cost /\ granted' = granted + 1
      BY <3>1, <3>2, <1>g, GrantArithmetic
    <3>3. CASE UNCHANGED <<tokens, granted>>
      BY <3>3
    <3>. QED BY <2>1, <3>2, <3>3
  <2>. QED BY <2>1, <2>2, <2>3, <1>i DEF RefillFresh, RateBudget
<1>4. ASSUME NEW h \in Handlers,
             \/ Receive(h) \/ TryAcquire(h) \/ Shed(h) \/ NoteAdmitted(h)
             \/ NoteRequest(h) \/ ServeReady(h) \/ Validate(h) \/ Connect(h)
             \/ Answer502(h) \/ SendHeaders(h) \/ Stream(h) \/ Finish(h)
             \/ NoteCompleted(h) \/ OuterError(h)
      PROVE  RefillFresh' /\ RateBudget'
  <2>1. UNCHANGED <<tokens, last, granted, refill>>
    BY <1>4 DEF history, bucket, telemetry, Receive, TryAcquire, Shed, NoteAdmitted,
       NoteRequest, ServeReady, Validate, Connect, Answer502,
       SendHeaders, Stream, Finish, NoteCompleted, OuterError
  <2>2. \/ pc' = pc
        \/ \E p \in PcStates \ {"store"} : pc' = [pc EXCEPT ![h] = p]
    BY <1>4 DEF Receive, TryAcquire, Shed, NoteAdmitted,
       NoteRequest, ServeReady, Validate, Connect, Answer502,
       SendHeaders, Stream, Finish, NoteCompleted, OuterError, Move, Done, Goto, PcStates
  <2>3. \A g \in Handlers : pc'[g] = "store" => pc[g] = "store"
    BY <2>2, <1>i DEF TypeOK
  <2>. QED BY <2>1, <2>3, <1>t, RateFrame
<1>5. CASE Tick \/ UNCHANGED vars
  <2>1. UNCHANGED <<pc, tokens, last, granted, refill>>
    BY <1>5 DEF Tick, vars, bucket, history
  <2>. QED BY <2>1, <1>t, RateFrame
<1>. QED BY <1>1, <1>2, <1>3, <1>4, <1>5 DEF Next, Serve

-----------------------------------------------------------------------------
\* The types of the gateway's shared and local state (_proxy, 266-488).
THEOREM TypeCorrect == Spec => []TypeOK
<1>1. SlotInv => TypeOK
  BY DEF SlotInv, TypeInv
<1>. QED BY <1>1, SlotInit, SlotStep, PTL DEF Spec

\* One inference at a time, and a slot taken exactly while it runs, until a
\* release frees another handler's admission (327-349 and every release).
THEOREM SlotExact == Spec => []ExactUnlessStolen
<1>1. SlotInv => ExactUnlessStolen
  BY DEF SlotInv
<1>. QED BY <1>1, SlotInit, SlotStep, PTL DEF Spec

\* That needs a client that went away while it was being answered.
THEOREM TheftCause == Spec => []TheftNeedsVanishedClient
<1>1. SlotInv => TheftNeedsVanishedClient
  BY DEF SlotInv
<1>. QED BY <1>1, SlotInit, SlotStep, PTL DEF Spec

\* What the backend works on was admitted (382-453), whatever was stolen.
THEOREM ForwardingAdmitted == Spec => []ForwardingIsAdmitted
<1>1. SlotInv => ForwardingIsAdmitted
  BY DEF SlotInv, Owns, ForwardingIsAdmitted, InsidePcs, ServingPcs
<1>. QED BY <1>1, SlotInit, SlotStep, PTL DEF Spec

\* With clients that stay, the documented promise holds without condition
\* (README.md:394, "one request at a time").
THEOREM OneAtATime == ~MayVanish => (Spec => []SingleInference)
<1>. SUFFICES ASSUME ~MayVanish
              PROVE  Spec => []SingleInference
  OBVIOUS
<1>1. SlotInv => SingleInference
  <2>1. SlotInv => ~stolen
    BY DEF SlotInv, TheftNeedsVanishedClient
  <2>2. SlotInv /\ ~stolen => SingleInference
    BY DEF SlotInv, ExactUnlessStolen
  <2>. QED BY <2>1, <2>2
<1>. QED BY <1>1, SlotInit, SlotStep, PTL DEF Spec

\* With clients that stay, the handlers implement the abstract admission:
\* one enters only when nobody is inside, and each leaves by itself.
THEOREM AdmissionRefined == ~MayVanish => (Spec => AdmissionImplemented)
<1>. SUFFICES ASSUME ~MayVanish
              PROVE  Spec => AdmissionImplemented
  OBVIOUS
<1>1. Init => Promise!AdmissionInit
  BY DEF Init, Promise!AdmissionInit
<1>2. SlotInv /\ [Next]_vars => [Promise!AdmissionNext]_holding
  <2>. SUFFICES ASSUME SlotInv, [Next]_vars, holding' # holding
                PROVE  Promise!AdmissionNext
    OBVIOUS
  <2>1. PICK h \in Handlers :
          \/ TryAcquire(h) /\ ~slot /\ holding' = holding \cup {h}
          \/ Release(h)
    BY DEF Next, vars, history, bucket, telemetry, Receive, Serve, Tick, TryAcquire,
       RefillRead, RefillStore, Consume, Shed, NoteAdmitted, NoteRequest, ServeReady,
       Validate, Connect, Answer502, SendHeaders, Stream, Finish, NoteCompleted,
       OuterError, ReleaseIfAdmitted
  <2>2. ~stolen => (slot <=> holding # {})
    BY DEF SlotInv, ExactUnlessStolen
  <2>3. ~stolen
    BY DEF SlotInv, TheftNeedsVanishedClient
  <2>4. CASE TryAcquire(h) /\ ~slot /\ holding' = holding \cup {h}
    BY <2>2, <2>3, <2>4 DEF Promise!AdmissionNext, Promise!Enter
  <2>5. CASE Release(h)
    BY <2>5 DEF Release, Promise!AdmissionNext, Promise!Leave
  <2>. QED BY <2>1, <2>4, <2>5
<1>. QED BY <1>1, <1>2, SlotInit, SlotStep, PTL
            DEF Spec, AdmissionImplemented, Promise!AdmissionSpec

\* Over any time the gateway grants no more than one bucket and the refill of
\* the time gone by, although the bucket has no lock (demo_policy.py:235-247).
THEOREM GatewayRate == Spec => []RateBound
<1>1. Init => GatewayInv
  <2>1. Init => RefillFresh
    BY DEF Init, RefillFresh
  <2>2. Init => RateBudget
    BY GatewayAssumption DEF Init, RateBudget, GatewayAssumption
  <2>. QED BY <2>1, <2>2, SlotInit DEF GatewayInv
<1>2. GatewayInv /\ [Next]_vars => GatewayInv'
  BY SlotStep, RateStep DEF GatewayInv
<1>3. GatewayInv => RateBound
  <2>. SUFFICES ASSUME GatewayInv, ~stolen
                PROVE  granted * Cost + tokens <= Capacity + Rate * now
    BY DEF RateBound
  <2>1. /\ granted \in Nat /\ last \in Nat /\ now \in Nat /\ tokens \in Nat /\ last <= now
        /\ granted * Cost + tokens <= Capacity + Rate * last
    BY GatewayAssumption DEF GatewayInv, SlotInv, TypeInv, TypeOK, InstantsInv,
       RateBudget, GatewayAssumption
  <2>2. Rate * last <= Rate * now
    BY <2>1, RateArithmetic
  <2>3. granted * Cost \in Nat /\ Capacity \in Nat /\ Rate * last \in Nat /\ Rate * now \in Nat
    BY <2>1, GatewayAssumption DEF GatewayAssumption
  <2>. QED BY <2>1, <2>2, <2>3
<1>. QED BY <1>1, <1>2, <1>3, PTL DEF Spec

-----------------------------------------------------------------------------
(* The refinement of the bucket. *)

\* While the slot is exact, a pending refill is the one that the bucket as it is
\* would have, and a grant uses the refill that the same handler has stored; both
\* are recent.
PendingIsCurrent ==
  ~stolen =>
    \A h \in Handlers :
      /\ pc[h] = "store" => /\ refill[h].level = Level(tokens, last, refill[h].at)
                            /\ refill[h].at >= last
                            /\ refill[h].at + MaxStall >= now
      /\ pc[h] = "consume" => refill[h].at = last /\ last + MaxStall >= now

LEMMA PendingStep == SlotInv /\ PendingIsCurrent /\ [Next]_vars => PendingIsCurrent'
<1>. SUFFICES ASSUME SlotInv, PendingIsCurrent, [Next]_vars, ~stolen', NEW g \in Handlers,
                     pc'[g] \in {"store", "consume"}
              PROVE  /\ pc'[g] = "store" => /\ refill'[g].level = Level(tokens', last', refill'[g].at)
                                            /\ refill'[g].at >= last'
                                            /\ refill'[g].at + MaxStall >= now'
                     /\ pc'[g] = "consume" => refill'[g].at = last' /\ last' + MaxStall >= now'
  BY DEF PendingIsCurrent, Level
<1>t. ~stolen
  BY TheftStays
<1>i. /\ pc \in [Handlers -> PcStates] /\ refill \in [Handlers -> [level : 0..Capacity, at : Nat]]
      /\ last \in Nat /\ now \in Nat /\ last <= now /\ MaxStall \in Nat
  BY GatewayAssumption DEF SlotInv, TypeInv, TypeOK, InstantsInv, GatewayAssumption
<1>g. /\ pc[g] = "store" => /\ refill[g].level = Level(tokens, last, refill[g].at)
                            /\ refill[g].at >= last
                            /\ refill[g].at + MaxStall >= now
      /\ pc[g] = "consume" => refill[g].at = last /\ last + MaxStall >= now
  BY <1>t DEF PendingIsCurrent
<1>1. ASSUME NEW h \in Handlers, RefillRead(h)
      PROVE  pc'[g] = "store" /\ /\ refill'[g].level = Level(tokens', last', refill'[g].at)
                                 /\ refill'[g].at >= last'
                                 /\ refill'[g].at + MaxStall >= now'
  <2>1. /\ refill' = [refill EXCEPT ![h] = [level |-> Level(tokens, last, now), at |-> now]]
        /\ pc' = [pc EXCEPT ![h] = "store"] /\ pc[h] = "refill"
        /\ UNCHANGED <<tokens, last, now>>
    BY <1>1 DEF RefillRead, Move, Goto, bucket
  <2>2. g = h
    BY <2>1, <1>i, <1>t, OneRefills
  <2>3. refill'[g].level = Level(tokens, last, now) /\ refill'[g].at = now /\ pc'[g] = "store"
    BY <2>1, <2>2, <1>i
  <2>. QED BY <2>1, <2>3, <1>i
<1>2. ASSUME NEW h \in Handlers, RefillStore(h)
      PROVE  pc'[g] = "consume" /\ refill'[g].at = last' /\ last' + MaxStall >= now'
  <2>1. /\ pc[h] = "store" /\ pc' = [pc EXCEPT ![h] = "consume"]
        /\ last' = refill[h].at /\ UNCHANGED <<refill, now>>
    BY <1>2 DEF RefillStore, Move, Goto
  <2>2. g = h
    BY <2>1, <1>i, <1>t, OneRefills
  <2>. QED BY <2>1, <2>2, <1>i, <1>g
<1>3. ASSUME NEW h \in Handlers, Consume(h)
      PROVE  FALSE
  <2>1. /\ pc[h] = "consume"
        /\ pc' = [pc EXCEPT ![h] = "admit"] \/ pc' = [pc EXCEPT ![h] = "shed"]
    BY <1>3 DEF Consume, Move, Goto
  <2>2. g # h /\ pc[g] \in {"store", "consume"}
    BY <2>1, <1>i
  <2>. QED BY <2>1, <2>2, <1>t, OneRefills
<1>4. ASSUME NEW h \in Handlers,
             \/ Receive(h) \/ TryAcquire(h) \/ Shed(h) \/ NoteAdmitted(h)
             \/ NoteRequest(h) \/ ServeReady(h) \/ Validate(h) \/ Connect(h)
             \/ Answer502(h) \/ SendHeaders(h) \/ Stream(h) \/ Finish(h)
             \/ NoteCompleted(h) \/ OuterError(h)
      PROVE  pc'[g] = pc[g] /\ UNCHANGED <<refill, tokens, last, now>>
  <2>1. UNCHANGED <<tokens, last, now, refill>>
    BY <1>4 DEF history, bucket, telemetry, Receive, TryAcquire, Shed, NoteAdmitted,
       NoteRequest, ServeReady, Validate, Connect, Answer502,
       SendHeaders, Stream, Finish, NoteCompleted, OuterError
  <2>2. \/ pc' = pc
        \/ \E p \in PcStates \ {"store", "consume"} : pc' = [pc EXCEPT ![h] = p]
    BY <1>4 DEF Receive, TryAcquire, Shed, NoteAdmitted,
       NoteRequest, ServeReady, Validate, Connect, Answer502,
       SendHeaders, Stream, Finish, NoteCompleted, OuterError, Move, Done, Goto, PcStates
  <2>. QED BY <2>1, <2>2, <1>i
<1>5. CASE Tick
  <2>1. /\ pc[g] \in {"store", "consume"} => now < refill[g].at + MaxStall
        /\ now' = now + 1 /\ UNCHANGED <<pc, refill, tokens, last>>
    BY <1>5 DEF Tick
  <2>. QED BY <2>1, <1>g, <1>i
<1>6. CASE UNCHANGED vars
  BY <1>6, <1>g DEF vars, bucket
<1>. QED BY <1>1, <1>2, <1>3, <1>4, <1>5, <1>6, <1>g DEF Next, Serve

\* A handler is between its refill and its grant.
Calling == \E h \in Handlers : pc[h] = "consume"

\* With clients that stay, the unlocked bucket that handlers share step by step is
\* the bucket of one caller at a time (demo_policy.py:235-251), with all that
\* TokenBucketProofs shows of that.
THEOREM BucketRefined == ~MayVanish => (Spec => BucketImplemented)
<1>. SUFFICES ASSUME ~MayVanish
              PROVE  Spec => BucketImplemented
  OBVIOUS
<1>1. Init => Bucket!BucketInit /\ PendingIsCurrent
  <2>. SUFFICES ASSUME Init
                PROVE  Bucket!BucketInit /\ PendingIsCurrent
    OBVIOUS
  <2>1. \A h \in Handlers : pc[h] = "idle"
    BY DEF Init
  <2>2. ~\E h \in Handlers : pc[h] = "consume"
    BY <2>1
  <2>3. Bucket!BucketInit
    BY <2>2 DEF Init, Bucket!BucketInit
  <2>. QED BY <2>1, <2>3 DEF PendingIsCurrent
<1>2. SlotInv /\ PendingIsCurrent /\ [Next]_vars => [Bucket!BucketNext]_(Bucket!bucketVars)
  <2>. SUFFICES ASSUME SlotInv, PendingIsCurrent, [Next]_vars
                PROVE  Bucket!BucketNext \/ UNCHANGED <<tokens, last, now, Calling, granted>>
    BY DEF Bucket!bucketVars, Calling
  <2>s. ~stolen
    BY DEF SlotInv, TheftNeedsVanishedClient
  <2>i. /\ pc \in [Handlers -> PcStates] /\ refill \in [Handlers -> [level : 0..Capacity, at : Nat]]
        /\ last \in Nat /\ now \in Nat /\ \A h \in Handlers : refill[h].at <= now
    BY DEF SlotInv, TypeInv, TypeOK, InstantsInv
  <2>1. ASSUME NEW h \in Handlers, RefillStore(h)
        PROVE  Bucket!BucketNext
    <3>1. /\ pc[h] = "store" /\ pc' = [pc EXCEPT ![h] = "consume"]
          /\ tokens' = refill[h].level /\ last' = refill[h].at
          /\ UNCHANGED <<now, granted>>
      BY <2>1 DEF RefillStore, Move, Goto, history
    <3>2. ~\E g \in Handlers : pc[g] = "consume"
      BY <3>1, <2>s, OneRefills
    <3>3. \E g \in Handlers : pc'[g] = "consume"
      BY <3>1, <2>i
    <3>4. /\ refill[h].at \in last .. now /\ refill[h].at + MaxStall >= now
          /\ refill[h].level = Level(tokens, last, refill[h].at)
      BY <3>1, <2>i, <2>s DEF PendingIsCurrent
    <3>5. PICK n \in last .. now : n = refill[h].at
      BY <3>4
    <3>6. Bucket!Refill(n)
      BY <3>1, <3>2, <3>3, <3>4, <3>5 DEF Bucket!Refill, Bucket!Level, Bucket!Stamp, Level
    <3>7. \E m \in last .. now : Bucket!Refill(m)
      BY <3>6
    <3>. QED BY <3>7 DEF Bucket!BucketNext
  <2>2. ASSUME NEW h \in Handlers, Consume(h)
        PROVE  Bucket!BucketNext
    <3>1. /\ pc[h] = "consume" /\ UNCHANGED <<last, now>>
          /\ \/ tokens >= Cost /\ tokens' = tokens - Cost /\ granted' = granted + 1
             \/ tokens < Cost /\ UNCHANGED <<tokens, granted>>
          /\ pc' = [pc EXCEPT ![h] = "admit"] \/ pc' = [pc EXCEPT ![h] = "shed"]
      BY <2>2 DEF Consume, Move, Goto
    <3>2. ~\E g \in Handlers : pc'[g] = "consume"
      <4>. SUFFICES ASSUME NEW g \in Handlers, pc'[g] = "consume"
                    PROVE  FALSE
        OBVIOUS
      <4>1. g # h /\ pc[g] = "consume"
        BY <3>1, <2>i
      <4>. QED BY <3>1, <4>1, <2>s, OneRefills
    <3>3. \E g \in Handlers : pc[g] = "consume"
      BY <3>1
    <3>. QED BY <3>1, <3>2, <3>3 DEF Bucket!BucketNext, Bucket!Grant, Bucket!Refuse
  <2>3. ASSUME NEW h \in Handlers,
               \/ Receive(h) \/ TryAcquire(h) \/ RefillRead(h) \/ Shed(h) \/ NoteAdmitted(h)
               \/ NoteRequest(h) \/ ServeReady(h) \/ Validate(h) \/ Connect(h)
               \/ Answer502(h) \/ SendHeaders(h) \/ Stream(h) \/ Finish(h)
               \/ NoteCompleted(h) \/ OuterError(h)
        PROVE  UNCHANGED <<tokens, last, now, Calling, granted>>
    <3>1. UNCHANGED <<tokens, last, now, granted>>
      BY <2>3 DEF history, bucket, telemetry, Receive, TryAcquire, RefillRead, Shed, NoteAdmitted,
         NoteRequest, ServeReady, Validate, Connect, Answer502,
         SendHeaders, Stream, Finish, NoteCompleted, OuterError
    <3>2. \/ pc' = pc
          \/ pc[h] # "consume" /\ \E p \in PcStates \ {"consume"} : pc' = [pc EXCEPT ![h] = p]
      BY <2>3 DEF Receive, TryAcquire, RefillRead, Shed, NoteAdmitted,
         NoteRequest, ServeReady, Validate, Connect, Answer502,
         SendHeaders, Stream, Finish, NoteCompleted, OuterError, Move, Done, Goto, PcStates
    <3>3. \A g \in Handlers : pc'[g] = "consume" <=> pc[g] = "consume"
      BY <3>2, <2>i
    <3>4. Calling' <=> Calling
      BY <3>3 DEF Calling
    <3>. QED BY <3>1, <3>4 DEF Calling
  <2>4. CASE Tick
    <3>1. /\ now < MaxTime /\ now' = now + 1 /\ UNCHANGED <<pc, tokens, last, granted>>
          /\ \A h \in Handlers : pc[h] = "consume" => now < refill[h].at + MaxStall
      BY <2>4 DEF Tick, history
    <3>2. (\E h \in Handlers : pc[h] = "consume") => now < last + MaxStall
      BY <3>1, <2>s DEF PendingIsCurrent
    <3>. QED BY <3>1, <3>2 DEF Bucket!BucketNext, Bucket!Tick
  <2>5. CASE UNCHANGED vars
    BY <2>5 DEF vars, bucket, history, Calling
  <2>. QED BY <2>1, <2>2, <2>3, <2>4, <2>5 DEF Next, Serve
<1>. QED BY <1>1, <1>2, SlotInit, SlotStep, PendingStep, PTL
            DEF Spec, BucketImplemented, Bucket!BucketSpec

-----------------------------------------------------------------------------
\* What has been validated stays with its handler while it is forwarded; a
\* handler before "connect" either validates or serves no inference.
Validated ==
  \A h \in Handlers :
    /\ pc[h] \in {"connect", "headers", "stream"} /\ IsInference(req[h])
         => req[h].length = "zero" \/ Verdict(req[h].body) = "ok"
    /\ pc[h] = "note" => ~IsInference(req[h])

\* A body with the verdict "ok" is within every limit: if no prefix of its
\* messages is too long together, the whole is not (demo_policy.py:150-190).
LEMMA VerdictIsSound ==
  ASSUME NEW body \in Body, Verdict(body) = "ok"
  PROVE  WithinLimits(body)
<1>. DEFINE messages == body.messages
<1>1. messages \in Seq(Nat \cup {Malformed})
  BY DEF Body
<1>2. /\ body.json = "object" /\ messages # << >> /\ Len(messages) <= MaxMessages
      /\ Faulty(messages) = {} /\ body.tokens \in 1 .. MaxTokens
  <2>1. body.json # "nested"
    BY DEF Verdict
  <2>2. body.json = "object" /\ messages # << >>
    BY <2>1 DEF Verdict
  <2>3. ~(Len(messages) > MaxMessages)
    BY <2>1, <2>2 DEF Verdict
  <2>6. Len(messages) <= MaxMessages
    BY <1>1, <2>3, PayloadAssumption DEF PayloadAssumption
  <2>4. Faulty(messages) = {}
    BY <2>1, <2>2, <2>3 DEF Verdict
  <2>5. body.tokens \in 1 .. MaxTokens
    BY <2>1, <2>2, <2>3, <2>4 DEF Verdict
  <2>. QED BY <2>2, <2>4, <2>5, <2>6
<1>3. Len(messages) \in 1 .. MaxMessages /\ DOMAIN messages = 1 .. Len(messages)
  BY <1>1, <1>2, PayloadAssumption DEF PayloadAssumption
<1>4. \A i \in DOMAIN messages :
        /\ messages[i] # Malformed /\ ~(messages[i] > MaxSingle)
        /\ ~(Aggregate(messages)[i] > MaxAggregate)
  BY <1>2 DEF Faulty
<1>5. \A i \in DOMAIN messages : messages[i] \in 0 .. MaxSingle
  BY <1>1, <1>3, <1>4, PayloadAssumption DEF PayloadAssumption
<1>6. ~(Aggregate(messages)[Len(messages)] > MaxAggregate)
  BY <1>3, <1>4
<1>. QED BY <1>2, <1>3, <1>5, <1>6 DEF WithinLimits

LEMMA ValidatedStep ==
  ASSUME TypeOK, Validated, [Next]_vars
  PROVE  Validated'
<1>1. ASSUME NEW h \in Handlers, Receive(h)
      PROVE  Validated'
  <2>1. \/ UNCHANGED <<pc, req>>
        \/ \E r \in Requests :
             /\ pc' = [pc EXCEPT ![h] = IF IsInference(r) THEN "acquire" ELSE "note"]
             /\ req' = [req EXCEPT ![h] = r]
    BY <1>1 DEF Receive, Goto
  <2>. QED BY <2>1 DEF TypeOK, Validated, IsInference
<1>2. ASSUME NEW h \in Handlers, Serve(h)
      PROVE  Validated'
  <2>1. \A g \in Handlers \ {h} : pc'[g] = pc[g] /\ req'[g] = req[g]
    BY <1>2 DEF TypeOK, Serve, TryAcquire, RefillRead, RefillStore, Consume, Shed, NoteAdmitted,
       NoteRequest, ServeReady, Validate, Connect, Answer502, SendHeaders, Stream,
       Finish, NoteCompleted, OuterError, Move, Goto, Done
  <2>2. \/ pc'[h] \notin {"connect", "headers", "stream", "note"}
        \/ /\ req' = req
           /\ \/ pc[h] = "note" /\ pc'[h] = "connect"
              \/ pc[h] = "connect" /\ pc'[h] = "headers"
              \/ pc[h] = "headers" /\ pc'[h] = "stream"
              \/ pc[h] = "stream" /\ pc'[h] = "stream"
              \/ /\ pc[h] = "validate" /\ pc'[h] = "connect"
                 /\ req[h].length = "zero" \/ Verdict(req[h].body) = "ok"
    BY <1>2 DEF TypeOK, Serve, TryAcquire, RefillRead, RefillStore, Consume, Shed, NoteAdmitted,
       NoteRequest, ServeReady, Validate, Connect, Answer502, SendHeaders, Stream,
       Finish, NoteCompleted, OuterError, Move, Goto, Done
  <2>. QED BY <2>1, <2>2 DEF Validated, IsInference
<1>3. CASE UNCHANGED <<pc, req>>
  BY <1>3 DEF Validated, IsInference
<1>. QED BY <1>1, <1>2, <1>3 DEF Next, Tick, vars

\* Nothing goes to the backend with a body that exceeds a limit of the policy,
\* whatever the limits and whoever interferes (auth_proxy.py:355-374).
THEOREM ForwardedWithinLimits == Spec => []ForwardedIsWithinLimits
<1>1. Init => SlotInv /\ Validated
  BY SlotInit DEF Init, Validated
<1>2. SlotInv /\ Validated /\ [Next]_vars => (SlotInv /\ Validated)'
  BY SlotStep, ValidatedStep DEF SlotInv, TypeInv
<1>3. SlotInv /\ Validated => ForwardedIsWithinLimits
  <2>. SUFFICES ASSUME SlotInv, Validated, NEW h \in Handlers,
                       pc[h] \in {"connect", "headers", "stream"}, IsInference(req[h]),
                       req[h].length # "zero"
                PROVE  WithinLimits(req[h].body)
    BY DEF ForwardedIsWithinLimits
  <2>1. req[h].body \in Body
    BY DEF SlotInv, TypeInv, TypeOK, Request
  <2>2. Verdict(req[h].body) = "ok"
    BY DEF Validated
  <2>. QED BY <2>1, <2>2, VerdictIsSound
<1>. QED BY <1>1, <1>2, <1>3, PTL DEF Spec

-----------------------------------------------------------------------------
\* The handlers that are admitted and not yet counted.
Uncounted == {h \in Handlers : pc[h] = "admit"}

LEMMA GrantsStep ==
  ASSUME TypeOK, GrantsAreAdmissions, [Next]_vars
  PROVE  GrantsAreAdmissions'
<1>. DEFINE Same == /\ Uncounted' = Uncounted
                    /\ granted' = granted /\ tel'["admitted"] = tel["admitted"]
<1>f. IsFiniteSet(Uncounted) /\ Cardinality(Uncounted) \in Nat
  BY GatewayAssumption, FS_Subset, FS_CardinalityType DEF GatewayAssumption, Uncounted
<1>t. granted \in Nat /\ tel["admitted"] \in Nat /\ tel \in [Counters -> Nat]
  BY DEF TypeOK, Counters
<1>s. Same => GrantsAreAdmissions'
  BY DEF GrantsAreAdmissions, Uncounted
<1>1. ASSUME NEW h \in Handlers, Consume(h)
      PROVE  GrantsAreAdmissions'
  <2>1. pc[h] = "consume" /\ UNCHANGED tel
    BY <1>1 DEF Consume, telemetry
  <2>2. CASE granted' = granted + 1 /\ Move(h, "admit")
    <3>1. Uncounted' = Uncounted \cup {h} /\ h \notin Uncounted
      BY <2>1, <2>2 DEF Move, Goto, Uncounted, TypeOK
    <3>2. Cardinality(Uncounted') = Cardinality(Uncounted) + 1
      BY <1>f, <3>1, FS_AddElement
    <3>. QED BY <1>f, <1>t, <2>1, <2>2, <3>2 DEF GrantsAreAdmissions, Uncounted
  <2>3. CASE granted' = granted /\ Move(h, "shed")
    BY <1>s, <2>1, <2>3 DEF Move, Goto, Uncounted, TypeOK
  <2>. QED BY <1>1, <2>2, <2>3 DEF Consume
<1>2. ASSUME NEW h \in Handlers, NoteAdmitted(h)
      PROVE  GrantsAreAdmissions'
  <2>1. Uncounted' = Uncounted \ {h} /\ h \in Uncounted
    BY <1>2 DEF NoteAdmitted, Move, Goto, Uncounted, TypeOK
  <2>2. granted' = granted /\ tel'["admitted"] = tel["admitted"] + 1
    BY <1>2, <1>t DEF NoteAdmitted, Note, history, Counters
  <2>3. Cardinality(Uncounted') = Cardinality(Uncounted) - 1
    BY <1>f, <2>1, FS_RemoveElement
  <2>. QED BY <1>f, <1>t, <2>2, <2>3 DEF GrantsAreAdmissions, Uncounted
<1>3. ASSUME NEW h \in Handlers, Serve(h), ~Consume(h), ~NoteAdmitted(h)
      PROVE  Same
  BY <1>3, <1>t DEF TypeOK, Serve, TryAcquire, RefillRead, RefillStore, Shed, NoteRequest,
     ServeReady, Validate, Connect, Answer502, SendHeaders, Stream, Finish,
     NoteCompleted, OuterError, Move, Goto, Done, Note, Counters, Uncounted,
     telemetry, history
<1>4. ASSUME NEW h \in Handlers, Receive(h)
      PROVE  Same
  <2>1. \/ UNCHANGED pc
        \/ \E r \in Requests :
             pc' = [pc EXCEPT ![h] = IF IsInference(r) THEN "acquire" ELSE "note"]
    BY <1>4 DEF Receive, Goto
  <2>2. pc[h] = "idle" /\ granted' = granted
    BY <1>4 DEF Receive
  <2>3. Uncounted' = Uncounted
    BY <2>1, <2>2 DEF TypeOK, Uncounted
  <2>4. tel' = tel \/ Note("requests")
    BY <1>4 DEF Receive
  <2>. QED BY <1>t, <2>2, <2>3, <2>4 DEF Note, Counters
<1>5. ASSUME Tick \/ UNCHANGED vars
      PROVE  Same
  BY <1>5 DEF Tick, vars, telemetry, history, Uncounted
<1>. QED BY <1>s, <1>1, <1>2, <1>3, <1>4, <1>5 DEF Next

\* The counters the operator sees are exact: every token taken from the bucket
\* is one admitted inference (auth_proxy.py:336-349), even after a theft.
THEOREM GrantsCounted == Spec => []GrantsAreAdmissions
<1>1. Init => SlotInv /\ GrantsAreAdmissions
  <2>. SUFFICES ASSUME Init PROVE GrantsAreAdmissions
    BY SlotInit
  <2>1. Uncounted = {}
    BY DEF Init, Uncounted
  <2>. QED BY <2>1, FS_EmptySet DEF Init, GrantsAreAdmissions, Uncounted, Counters
<1>2. SlotInv /\ GrantsAreAdmissions /\ [Next]_vars => (SlotInv /\ GrantsAreAdmissions)'
  BY SlotStep, GrantsStep DEF SlotInv, TypeInv
<1>. QED BY <1>1, <1>2, PTL DEF Spec
=============================================================================
