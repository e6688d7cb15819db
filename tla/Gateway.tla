------------------------------ MODULE Gateway ------------------------------
(***************************************************************************)
(* The authenticated gateway: scripts/auth_proxy.py over the policy of     *)
(* scripts/demo_policy.py.  ThreadingHTTPServer runs one handler thread    *)
(* per connection; the threads share the admission slot, the token bucket  *)
(* and the telemetry snapshot of the server object.  A handler's program   *)
(* counter names the next place of AuthProxyHandler._proxy (266-488) where *)
(* it touches shared state or waits for a peer.                            *)
(*                                                                         *)
(* AdmissionSlot has no lock: test and set are separate bytecodes of one   *)
(* method without a call or a backward jump in between, so CPython 3.12    *)
(* (the version ci.yml pins) never switches threads there, and TryAcquire  *)
(* and Release are single steps.  TokenBucket has calls in the middle of   *)
(* _refill, so a refill is two steps and the test-and-subtract a third.    *)
(***************************************************************************)
EXTENDS Payload, FiniteSets

CONSTANTS Handlers,     \* handler threads (a thread is reused by later requests)
          Requests,     \* the requests clients send, a set of Request records
          MayVanish,    \* may a client close while a response is written?
          MaxRequests,  \* bound: requests received in one behaviour
          Deadline,     \* chunks relayed before the hard deadline expires
          Capacity, Cost, Rate, MaxStall, MaxTime   \* as in TokenBucket

\* What _proxy can tell apart of a request before it touches shared state.
Request == [auth   : {"missing", "wrong", "good"},
            target : {"malformed", "absolute", "origin", "nonascii"},
            method : {"GET", "POST", "HEAD"},
            path   : {"/health", "/ready", "/v1/models",
                      "/v1/chat/completions", "/other"},
            chunked: BOOLEAN,
            length : {"bad", "huge", "zero", "fits"},
            body   : Body]

ASSUME GatewayAssumption ==
  /\ IsFiniteSet(Handlers)
  /\ Requests \subseteq Request
  /\ MayVanish \in BOOLEAN
  /\ MaxRequests \in Nat
  /\ Deadline \in Nat
  /\ Capacity \in Nat /\ Cost \in Nat /\ Rate \in Nat
  /\ MaxStall \in Nat /\ MaxTime \in Nat

\* The value of req for a handler that serves nothing.
NoRequest == [auth |-> "missing", target |-> "malformed", method |-> "GET",
              path |-> "/other", chunked |-> FALSE, length |-> "bad",
              body |-> NoBody]

NoRefill == [level |-> 0, at |-> 0]

VARIABLES pc,        \* per handler: where it is in _proxy
          req,       \* per handler: the request it serves
          refill,    \* per handler: what its pending _refill computed
          relayed,   \* per handler: chunks relayed of the current stream
          slot,      \* AdmissionSlot._active
          tokens,    \* TokenBucket._tokens
          last,      \* TokenBucket._last
          now,       \* the monotonic clock
          active,    \* telemetry: active_inference
          tel,       \* telemetry: the *_total counters
          arrived,   \* requests received so far
          granted,   \* history: tokens granted so far
          holding,   \* history: handlers that acquired and have not released
          stolen     \* history: a release has freed another handler's slot

bucket == <<tokens, last, now>>
telemetry == <<active, tel>>
history == <<arrived, granted, holding, stolen>>
vars == <<pc, req, refill, relayed, slot, bucket, telemetry, history>>

Counters == {"requests", "admitted", "busy", "limited", "timeout", "errors"}

PcStates == {"idle", "acquire", "refill", "store", "consume", "shed", "admit",
             "note", "ready", "validate", "connect", "answer502", "headers",
             "stream", "finish", "complete", "outer", "dead"}

-----------------------------------------------------------------------------
(* Screening: the early returns that precede every shared access.          *)

Routes == {<<"GET", "/health">>, <<"GET", "/ready">>, <<"GET", "/v1/models">>,
           <<"POST", "/v1/chat/completions">>}

IsInference(r) == r.method = "POST" /\ r.path = "/v1/chat/completions"

RouteAllowed(r) == <<r.method, r.path>> \in Routes

\* The request passes 401, the two 400s of the target, 404/405, the framing
\* 400s and 413.
PassesScreen(r) ==
  /\ r.auth = "good"
  /\ r.target \in {"origin", "nonascii"}
  /\ RouteAllowed(r)
  /\ ~r.chunked
  /\ r.length \notin {"bad", "huge"}

-----------------------------------------------------------------------------
Goto(h, there) == pc' = [pc EXCEPT ![h] = there]

Move(h, there) == Goto(h, there) /\ UNCHANGED req

\* The handler returns; its thread takes the next connection.
Done(h) ==
  /\ Goto(h, "idle")
  /\ req' = [req EXCEPT ![h] = NoRequest]

Note(counter) == tel' = [tel EXCEPT ![counter] = @ + 1]

\* AdmissionSlot.release: it clears the flag whoever the caller is.
Release(h) ==
  /\ slot' = FALSE
  /\ holding' = holding \ {h}
  /\ stolen' = (stolen \/ (slot /\ h \notin holding))

\* Faulty variant: the slot stays taken after an inference.
ForgetRelease(h) == UNCHANGED <<slot, holding, stolen>>

\* `if admitted_here: self.server.admission.release()`
ReleaseIfAdmitted(h) ==
  IF IsInference(req[h]) THEN Release(h)
                         ELSE UNCHANGED <<slot, holding, stolen>>

\* min(capacity, tokens + elapsed * refill_per_sec)
Level(held, since, at) ==
  LET full == held + (at - since) * Rate
  IN IF full < Capacity THEN full ELSE Capacity

-----------------------------------------------------------------------------
(* One action per step of _proxy.                                          *)

\* A request is read and screened; unauthorized() counts a 401, the other
\* rejections touch nothing.
Receive(h) ==
  /\ pc[h] = "idle"
  /\ arrived < MaxRequests
  /\ arrived' = arrived + 1
  /\ \E r \in Requests :
       \/ /\ PassesScreen(r)
          /\ Goto(h, IF IsInference(r) THEN "acquire" ELSE "note")
          /\ req' = [req EXCEPT ![h] = r]
          /\ UNCHANGED tel
       \/ /\ ~PassesScreen(r)
          /\ IF r.auth # "good" THEN Note("requests") ELSE UNCHANGED tel
          /\ UNCHANGED <<pc, req>>
  /\ UNCHANGED <<refill, relayed, slot, bucket, active, granted, holding, stolen>>

\* Faulty variant: the flag is set without being tested.
AcquireUntested(h) ==
  /\ pc[h] = "acquire"
  /\ slot' = TRUE
  /\ holding' = holding \cup {h}
  /\ Move(h, "refill")
  /\ UNCHANGED <<refill, relayed, bucket, telemetry, arrived, granted, stolen>>

\* try_acquire; a busy gateway answers 429 at once (no queue).
TryAcquire(h) ==
  /\ pc[h] = "acquire"
  /\ \/ /\ slot
        /\ Note("busy")
        /\ Done(h)
        /\ UNCHANGED <<slot, holding>>
     \/ /\ ~slot
        /\ slot' = TRUE
        /\ holding' = holding \cup {h}
        /\ Move(h, "refill")
        /\ UNCHANGED tel
  /\ UNCHANGED <<refill, relayed, bucket, active, arrived, granted, stolen>>

\* try_consume -> _refill up to the computation of the new level.
RefillRead(h) ==
  /\ pc[h] = "refill"
  /\ refill' = [refill EXCEPT ![h] = [level |-> Level(tokens, last, now), at |-> now]]
  /\ Move(h, "store")
  /\ UNCHANGED <<relayed, slot, bucket, telemetry, history>>

\* Faulty variant: `self._last = now` is missing.
RefillForgetsLast(h) ==
  /\ pc[h] = "store"
  /\ tokens' = refill[h].level
  /\ Move(h, "consume")
  /\ UNCHANGED <<refill, relayed, slot, last, now, telemetry, history>>

\* _refill's two stores (when no time has passed they store what is there).
RefillStore(h) ==
  /\ pc[h] = "store"
  /\ tokens' = refill[h].level
  /\ last' = refill[h].at
  /\ Move(h, "consume")
  /\ UNCHANGED <<refill, relayed, slot, now, telemetry, history>>

\* Faulty variant: the balance is tested after the subtraction.
ConsumeFirst(h) ==
  /\ pc[h] = "consume"
  /\ tokens' = tokens - Cost
  /\ granted' = granted + 1
  /\ Move(h, "admit")
  /\ refill' = [refill EXCEPT ![h] = NoRefill]
  /\ UNCHANGED <<relayed, slot, last, now, telemetry, arrived, holding, stolen>>

\* The test-and-subtract of try_consume.
Consume(h) ==
  /\ pc[h] = "consume"
  /\ \/ /\ tokens >= Cost
        /\ tokens' = tokens - Cost
        /\ granted' = granted + 1
        /\ Move(h, "admit")
     \/ /\ tokens < Cost
        /\ Move(h, "shed")
        /\ UNCHANGED <<tokens, granted>>
  /\ refill' = [refill EXCEPT ![h] = NoRefill]
  /\ UNCHANGED <<relayed, slot, last, now, telemetry, arrived, holding, stolen>>

\* Rate limited: the slot is given back, then 429.
Shed(h) ==
  /\ pc[h] = "shed"
  /\ Release(h)
  /\ Note("limited")
  /\ Done(h)
  /\ UNCHANGED <<refill, relayed, bucket, active, arrived, granted>>

\* Faulty variant: the admission is not counted.
NoteAdmittedUncounted(h) ==
  /\ pc[h] = "admit"
  /\ active' = TRUE
  /\ Move(h, "validate")
  /\ UNCHANGED <<tel, refill, relayed, slot, bucket, history>>

NoteAdmitted(h) ==
  /\ pc[h] = "admit"
  /\ Note("admitted")
  /\ active' = TRUE
  /\ Move(h, "validate")
  /\ UNCHANGED <<refill, relayed, slot, bucket, history>>

\* A request that is not an inference is only counted.
NoteRequest(h) ==
  /\ pc[h] = "note"
  /\ Note("requests")
  /\ Move(h, IF req[h].path = "/ready" THEN "ready" ELSE "connect")
  /\ UNCHANGED <<refill, relayed, slot, bucket, active, history>>

\* _serve_ready probes the backend's /health and always notes completion,
\* unless the client goes away while the 200 is written.
ServeReady(h) ==
  /\ pc[h] = "ready"
  /\ \/ Note("errors") /\ active' = FALSE          \* backend down or not 2xx
     \/ active' = FALSE /\ UNCHANGED tel           \* 200 written
     \/ MayVanish /\ UNCHANGED telemetry           \* 200 not written
  /\ Done(h)
  /\ UNCHANGED <<refill, relayed, slot, bucket, history>>

\* Faulty variant: the slot is given back once the payload is known to be good.
ValidateAndRelease(h) ==
  /\ pc[h] = "validate"
  /\ Release(h)
  /\ Move(h, "connect")
  /\ UNCHANGED <<refill, relayed, bucket, telemetry, arrived, granted>>

\* Payload validation of an admitted inference.  An empty body is not looked
\* at; an exception json.loads raises other than ValueError ends the thread.
Validate(h) ==
  LET verdict == IF req[h].length = "zero" THEN "ok" ELSE Verdict(req[h].body)
  IN /\ pc[h] = "validate"
     /\ \/ /\ verdict = "ok"
           /\ Move(h, "connect")
           /\ UNCHANGED <<slot, holding, stolen, tel>>
        \/ /\ verdict \notin {"ok", "uncaught"}
           /\ Release(h)
           /\ Note("errors")
           /\ Done(h)
        \/ /\ verdict = "uncaught"
           /\ Move(h, "dead")
           /\ UNCHANGED <<slot, holding, stolen, tel>>
     /\ UNCHANGED <<refill, relayed, bucket, active, arrived, granted>>

\* The request is sent and the response headers awaited, each under the
\* backend timeout.  http.client raises UnicodeEncodeError, which nothing
\* catches, for a query string it cannot encode.
Connect(h) ==
  /\ pc[h] = "connect"
  /\ \/ /\ req[h].target = "origin"
        /\ Move(h, "headers")
        /\ UNCHANGED <<slot, holding, stolen, tel>>
     \/ /\ req[h].target = "nonascii"
        /\ Move(h, "dead")
        /\ UNCHANGED <<slot, holding, stolen, tel>>
     \/ /\ req[h].target = "origin"
        /\ ReleaseIfAdmitted(h)
        /\ Note("errors")
        /\ Move(h, "answer502")
  /\ UNCHANGED <<refill, relayed, bucket, active, arrived, granted>>

\* Faulty variant: the `return` after the 502 is missing.
Answer502FallsThrough(h) ==
  /\ pc[h] = "answer502"
  /\ Move(h, "finish")
  /\ UNCHANGED <<refill, relayed, slot, bucket, telemetry, history>>

\* _reject_json(502) inside the outer try: a client that has gone raises.
Answer502(h) ==
  /\ pc[h] = "answer502"
  /\ \/ Done(h)
     \/ MayVanish /\ Move(h, "outer")
  /\ UNCHANGED <<refill, relayed, slot, bucket, telemetry, history>>

\* The response headers are written to the client.
SendHeaders(h) ==
  /\ pc[h] = "headers"
  /\ \/ Move(h, "stream")
     \/ MayVanish /\ Move(h, "outer")
  /\ UNCHANGED <<refill, relayed, slot, bucket, telemetry, history>>

\* Faulty variant: a stream without the hard deadline.
StreamForever(h) ==
  /\ pc[h] = "stream"
  /\ \/ /\ relayed' = [relayed EXCEPT ![h] = 1 - @]
        /\ UNCHANGED <<pc, req, tel>>
     \/ /\ relayed' = [relayed EXCEPT ![h] = 0]
        /\ Move(h, "finish")
        /\ UNCHANGED tel
  /\ UNCHANGED <<refill, slot, bucket, active, history>>

\* The relay loop: a chunk, the end, a timeout (hard deadline or a silent
\* peer), or a broken connection on either side.
Stream(h) ==
  /\ pc[h] = "stream"
  /\ \/ /\ relayed[h] < Deadline
        /\ relayed' = [relayed EXCEPT ![h] = @ + 1]
        /\ UNCHANGED <<pc, req, tel>>
     \/ /\ UNCHANGED tel \/ Note("timeout") \/ Note("errors")
        /\ relayed' = [relayed EXCEPT ![h] = 0]
        /\ Move(h, "finish")
  /\ UNCHANGED <<refill, slot, bucket, active, history>>

\* The finally block releases first and notes completion second.
Finish(h) ==
  /\ pc[h] = "finish"
  /\ ReleaseIfAdmitted(h)
  /\ Move(h, "complete")
  /\ UNCHANGED <<refill, relayed, bucket, telemetry, arrived, granted>>

NoteCompleted(h) ==
  /\ pc[h] = "complete"
  /\ active' = FALSE
  /\ Done(h)
  /\ UNCHANGED <<refill, relayed, slot, bucket, tel, history>>

\* The outermost handler releases whatever happened before it was reached.
OuterError(h) ==
  /\ pc[h] = "outer"
  /\ ReleaseIfAdmitted(h)
  /\ Note("errors")
  /\ Done(h)
  /\ UNCHANGED <<refill, relayed, bucket, active, arrived, granted>>

\* Time passes; a refill in progress is not preempted for ever.
Tick ==
  /\ now < MaxTime
  /\ \A h \in Handlers :
       pc[h] \in {"store", "consume"} => now < refill[h].at + MaxStall
  /\ now' = now + 1
  /\ UNCHANGED <<pc, req, refill, relayed, slot, tokens, last, telemetry, history>>

-----------------------------------------------------------------------------
Init ==
  /\ pc = [h \in Handlers |-> "idle"]
  /\ req = [h \in Handlers |-> NoRequest]
  /\ refill = [h \in Handlers |-> NoRefill]
  /\ relayed = [h \in Handlers |-> 0]
  /\ slot = FALSE
  /\ tokens = Capacity
  /\ last = 0
  /\ now = 0
  /\ active = FALSE
  /\ tel = [c \in Counters |-> 0]
  /\ arrived = 0
  /\ granted = 0
  /\ holding = {}
  /\ stolen = FALSE

\* Everything a handler does once it has a request.
Serve(h) ==
  \/ TryAcquire(h) \/ RefillRead(h) \/ RefillStore(h) \/ Consume(h) \/ Shed(h)
  \/ NoteAdmitted(h) \/ NoteRequest(h) \/ ServeReady(h) \/ Validate(h)
  \/ Connect(h) \/ Answer502(h) \/ SendHeaders(h) \/ Stream(h) \/ Finish(h)
  \/ NoteCompleted(h) \/ OuterError(h)

Next ==
  \/ \E h \in Handlers : Receive(h) \/ Serve(h)
  \/ Tick

Spec == Init /\ [][Next]_vars

\* A handler thread is scheduled again and again, and each of its waits is
\* bounded by a socket timeout; clients need not send anything.
Fairness == \A h \in Handlers : WF_vars(Serve(h))

FairSpec == Spec /\ Fairness

-----------------------------------------------------------------------------
TypeOK ==
  /\ pc \in [Handlers -> PcStates]
  /\ req \in [Handlers -> Request]
  /\ refill \in [Handlers -> [level : 0..Capacity, at : Nat]]
  /\ relayed \in [Handlers -> Nat]
  /\ slot \in BOOLEAN
  /\ tokens \in 0..Capacity
  /\ last \in Nat
  /\ now \in Nat
  /\ active \in BOOLEAN
  /\ tel \in [Counters -> Nat]
  /\ arrived \in Nat
  /\ granted \in Nat
  /\ holding \in SUBSET Handlers
  /\ stolen \in BOOLEAN

(***************************************************************************)
(* "The demo accepts one request at a time ... enforced by an exact slot   *)
(* lock" (README.md:394-412, class AdmissionSlot): never two inferences    *)
(* between their admission and their own release.                          *)
(***************************************************************************)
SingleInference == \A g, h \in holding : g = h

(***************************************************************************)
(* The slot is exact, that is taken exactly while one handler is inside,   *)
(* as long as no release has freed another handler's admission: that is    *)
(* the only way it can fail, whatever the order of the handlers' steps,    *)
(* failures and disconnects (auth_proxy.py:327-349 and every release).     *)
(***************************************************************************)
ExactUnlessStolen ==
  ~stolen => /\ SingleInference
             /\ slot <=> holding # {}

(***************************************************************************)
(* A release frees another handler's slot only after a client went away    *)
(* while a response was written to it (the path 389-396 -> 467-469).       *)
(***************************************************************************)
TheftNeedsVanishedClient == stolen => MayVanish

(***************************************************************************)
(* Whatever reaches the backend as an inference does so under its own      *)
(* admission, even after a theft (auth_proxy.py:382-453).                  *)
(***************************************************************************)
ForwardingIsAdmitted ==
  \A h \in Handlers :
    pc[h] \in {"validate", "connect", "headers", "stream"} /\ IsInference(req[h])
      => h \in holding

(***************************************************************************)
(* The unlocked bucket never grants beyond one bucket plus the refill of   *)
(* the elapsed time, because the slot serialises its callers: it needs no  *)
(* lock of its own as long as the slot is exact (336, demo_policy 235-247).*)
(***************************************************************************)
RateBound == ~stolen => granted * Cost + tokens <= Capacity + Rate * now

(***************************************************************************)
(* Each token taken from the bucket is one admitted inference of the       *)
(* telemetry, counted or about to be (auth_proxy.py:336-349).              *)
(***************************************************************************)
GrantsAreAdmissions ==
  granted = tel["admitted"] + Cardinality({h \in Handlers : pc[h] = "admit"})

(***************************************************************************)
(* "Validate JSON payload for chat/completions before forwarding"          *)
(* (auth_proxy.py:355): no body goes to the backend but one within all the *)
(* limits of the policy.  A chat request without a body is forwarded too.  *)
(***************************************************************************)
ForwardedIsWithinLimits ==
  \A h \in Handlers :
    pc[h] \in {"connect", "headers", "stream"} /\ IsInference(req[h])
      => req[h].length = "zero" \/ WithinLimits(req[h].body)

(***************************************************************************)
(* "While a request is in flight you receive 429" (README.md:394): the     *)
(* slot is taken only while some handler is still serving.                 *)
(***************************************************************************)
BusyMeansInFlight == slot => \E h \in holding : pc[h] # "dead"

\* An admitted inference always ends and gives the slot back: no silent
\* backend and no stalled client keeps the gateway busy (433-466).
SlotFreed == slot ~> ~slot

\* Every request ends; in particular a stream ends by its hard deadline.
HandlersReturn == \A h \in Handlers : pc[h] # "idle" ~> pc[h] = "idle"

\* The gateway implements the admission it promises.
Promise == INSTANCE Admission WITH inside <- holding

AdmissionImplemented == Promise!AdmissionSpec

\* The bucket the handlers share step by step behaves as the bucket of one
\* caller at a time, whose rate limit is that of TokenBucket.
Bucket == INSTANCE TokenBucket
            WITH calling <- \E h \in Handlers : pc[h] = "consume",
                 opened <- 0

BucketImplemented == Bucket!BucketSpec
=============================================================================
