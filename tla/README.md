# A TLA+ model of Muse-Glimmer's serving stack

The repository serves one 30B model behind an authenticated gateway. Three
layers of processes are involved, each with its own persistent state and its
own ways to go wrong:

    client --> tunnel --> gateway (auth_proxy.py) --> backend (llama-server)
                 ^            ^                           ^
                 |  expose.sh |                           | serve.sh
                 +------------+------ external.sh --------+

The specifications here describe the parts in which several actors interact:
handler threads that share a slot and a bucket, shell runs that share a lock
directory, state files, ports and the process table, an orchestrator that calls
them and undoes what it did, and a long preparation in a world that may change.
They are checked by TLC on small instances. Every safety property that a passing
run checks, the two refinements included, is also proved with TLAPS for every
value of the constants; liveness is model-checked.

## Inventory

| Part | State | Operations | Interaction | Correct when |
|---|---|---|---|---|
| Gateway: `scripts/auth_proxy.py`, `scripts/demo_policy.py` | admission slot, token bucket, telemetry | one handler thread per connection: screen, admit, consume, validate, forward, relay, release | threads share all three; the backend and the client may fail at any read or write | one inference at a time; the slot always comes back; the rate limit holds; the counters agree |
| Run lock: `scripts/run_lock.sh` | a directory with `owner.pid` | acquire, take over from a dead owner, release | runs of `serve.sh`, by the file system and `kill -0` | one holder; no lock that outlives everybody |
| Backend lifecycle: `serve.sh`, `scripts/server_state.py`, `server_guard.py`, `process_utils.sh` | `server.json`, the process | start, stop, restart, status | state file, process table, port, run lock | one backend; none lost; nothing else signalled; a stop completes |
| Exposure: `expose.sh`, `scripts/exposure_state.py`, `exposure_guard.py` | `exposure.json`, two processes | start (quick, named, proxy), stop, restart, endpoint | state file, process table, port, backend status; no lock | no gateway or tunnel lost; ingress closed when the backend is not proven |
| External orchestrator: `external.sh` | its log | start, stop, stop-all, status | calls the two above and rolls back; no lock of its own | a failed start undoes what it did and nothing else; success is true; ingress is closed first |
| Operator status: `operator_status.py`, `operator_doctor.py` | none | read, classify | reads the statuses one after another while runs go on | what it answers was so while it read |
| Notebook: `muse_stop` and the clean-up cell of `kaggle-production.ipynb` | none | stop-all, then TERM and KILL by command line | the process table, without the records | PASS means that nothing runs |
| Readiness: `readiness.py` | none | probe, assess, advise | looks at what a start will look at | a clean PASS is reliable, a blocker is real, the advice ends |
| Runtime and model resolution: `setup.sh`, `download_model.sh`, `resolve_*.sh`, `kaggle_runtime.py`, `runtime_manifest.py`, `gpu_probe.py` | `model.env`, `llama.env`, the runtime cache | find, verify, build | called by a start; the state files outlive it | exact artifacts only, and never those of an earlier start |
| Smoke tests, release, rest of the notebook, CI | none | - | - | - |

What is hard to test in this code, line by line, is the list of hazards in
`PROJECT.json`; each names the properties that guard it, or says why none does.
The hard behaviours are: threads that interleave around a slot without a lock;
one failure inside the handling of another; a lock built from `mkdir` and a
file; a process id that outlives its process; runs killed or signalled between
a launch and its record; a stop that reports before the process is gone; a
rollback that must know whose processes it undoes; an assessment that is minutes
old when the start relies on it.

## Modules

| Module | Models |
|---|---|
| `TokenBucket` | the bucket as its callers may rely on it: refill and grant as two steps, each possibly delayed by a preemption |
| `Admission` | the abstract promise about inference: enter when nobody is inside, leave |
| `Gateway` | handler threads step by step through `_proxy`; uses `Admission` and `TokenBucket` as abstract specifications by refinement |
| `Payload` | the limits on the body of a chat request, as operators; extended by `Gateway` |
| `RunLock` | `run_lock.sh`, one file-system operation per step |
| `Server` | runs of `serve.sh` over state file, processes and ports, one helper command per step |
| `Exposure` | runs of `expose.sh`, one helper command per step, `stop-owned` in three |
| `External` | runs of `external.sh` over backend and ingress, one command of `serve.sh` or `expose.sh` in one to five steps, the launch of a process and its record apart, with `serve.sh` by hand, `muse_stop`, deaths and hangs, kills, and a reader of the operator's status |
| `Readiness` | discovery of attached inputs, probes and `assess`, as operators on a world |
| `Preparation` | a start from the readiness gate to the launch, one script per step; extends `Readiness` |
| `TokenBucketProofs`, `GatewayProofs`, `RunLockProofs`, `ServerProofs`, `ExposureProofs`, `ExternalProofs`, `PreparationProofs` | theorems about the module of that name, with their inductive invariants |
| `MC*` | instances for TLC |

**Gateway.** `pc[h]` is where handler `h` is in `_proxy`. A step ends where the
code touches shared state or waits for a peer. `slot` is
`AdmissionSlot._active`, `tokens` and `last` the bucket, `active` and `tel` the
telemetry. A request is a record of what `_proxy` can tell apart: the outcome of
the token check, the kind of target, method, path, framing and the body. A body
is its kind of JSON, the lengths of its messages and `max_tokens`: what
`validate_payload` looks at. `Verdict` is that function with its early returns
in their order; `WithinLimits` is the reference that `ForwardedIsWithinLimits`
compares it with.
`AdmissionSlot` has no lock; its test-and-set is one step because CPython 3.12,
which the CI pins, switches threads only at calls and backward jumps and the
method has neither between test and set. `_refill` does have a call (`min`), and
is two steps. `holding` and `stolen` are history: who has acquired without yet
releasing, and whether a release has ever freed another handler's slot.
`MayVanish` says whether a client may close its connection while an answer is
written to it.

**RunLock.** `rm -rf` is two steps, the file and then the directory, which stays
if a file has appeared in it. Under `if`, errexit is off in
`acquire_run_lock`, so a failed write at line 7 is ignored; at line 22 it is the
status of the function. Process ids are reused by later runs and by unrelated
processes. `rivals` is history: the runs that had another live process, or
their own recycled id, to reckon with while they took the lock.

**Server.** A process is its stage, its birth (start time) and its port: first a
fork of the shell, then `nohup env`, then llama-server, which binds, loads and
answers. The identity that `server_state.py` records is birth and command line,
so `begin` may record the wrapper's (`misread`). To take or to drop the lock is
one step, but a run is at it (`Locking`) for a while; when another one comes
meanwhile, that is an `overlap`, and from then on the lock may let in anybody and
refuse anybody, which covers whatever the races of `RunLock` lead to. Before
that, it is exactly as exclusive as `LockExclusive` proves `run_lock.sh` to be.
`doomed` is a process that has been sent KILL and still exists.

**Exposure.** Processes are named by incarnation, which is what
`record_owned` compares. The modes are `Modes`; quick and named differ in the
source of the public URL, which is not modelled. `overlap` and `abandoned` are history: whether two
runs were ever at work at once, and whether a signal ended one without its
cleanup. A signal runs the EXIT trap with the `$?` of the last command; only
with a status other than 0 does `on_exit` clean up.

**External.** `Server` and `Exposure` have the commands in full; here one
command of them is one to five steps, split where another run, a death or a
reader can come in between, and where a kill would leave a process without a
record: the launch of server, gateway or tunnel and the step that records it are
apart. `stray` has the processes that no state file names, each with the run that
is about to record it, or with nobody, once that run was killed or another run has
overwritten the record. The lock is as in `Server`: `history.raced` says that two
runs were at it at once, from when on runs that overlap may both be inside.
`history.cut` says that a run was killed in between a launch and its record. `backend` is `server.json` together with the life of
the process that it names (`loading`, `up`, `hung`, `down`), `ingress` is
`exposure.json` together with which of its two processes live; `BackendStatus`
and `IngressStatus` are the two `status_report`s. `job[c]` holds the shell
variables that the rollback depends on: `startedHere` is `backend_started_here`,
`wasStopped` is `exposure_was_stopped`. The backend gate of `expose.sh` looks at
the backend here, where `Exposure` leaves it a choice, and accepts a baseline
server, which `external.sh` does not call canonical. `history.launched` says
what a run has launched, `overlapped` and `faulted` whether another run or a
fault came in between: the properties about one run's word need that nobody else
changed things. The operator's status is read in four steps; `watch` collects
what was true between the first and the last, and counts the changes.
`muse_stop` is a run whose stop-all may fail and who then goes by what lives,
not by what is recorded.

**Readiness and Preparation.** A world is what may be attached and exported: the
source tree, the GPUs, for each asset a function from where it is mounted to
what is there, and the settings of the exposure. Digests are compared, never
computed: `bytes` says whether a file is the pinned one, one of the same size or
another. `Assess` is the whole of `readiness.py`; `Preparation` runs the scripts
of a start on the same world, each looking at it anew as the scripts do, and
keeps `model.env` and `llama.env` from start to start. With
`FORCE_MODEL_DOWNLOAD=1`, which `serve.sh` leaves as it is, `download_model.sh`
passes over what is attached and fetches the target from Hugging Face into
`$MODELS_DIR` (`cache`), where it is verified like any other. The world may change
between any two steps, with the one restriction that a path does not change its
content under a running start, because the inputs of Kaggle are read-only.
`download_model.sh` by hand may rewrite `model.env`, and replace the file in
`$MODELS_DIR`, at any moment, since it takes no lock. `config.layout` says where
Kaggle mounts what the operator attaches: every place that the discovery knows.
Starts do not overlap here: two at once are the subject of `RunLock` and
`Server`.

## Runs

| Run | Bounds | Shows |
|---|---|---|
| `token_bucket` | capacity of two grants, a window opened at any instant | the rate limit over every window |
| `gateway` | 2 handlers, 4 requests of the kinds in `MCGateway`, with bodies at and just past each limit (2 messages, 2 and 3 characters, 2 tokens), clients may vanish; 3.1 million states | exactness of the slot up to a stolen release; forwarding only when admitted and within the limits; rate; counters |
| `gateway_reliable` | 2 handlers, 3 requests, clients stay | refinement of `Admission` and `TokenBucket`; the slot comes back; requests end |
| `gateway_double_release` | as `gateway` | *violation*: two inferences at once |
| `gateway_slot_leak` | with the requests that end in an uncaught exception | *violation*: busy with nobody in flight |
| `run_lock` | 3 ids, 4 starts, crashes, recycled ids | exclusion without overlap, no lasting lock-out, clean exit |
| `run_lock_race` | 2 ids, 2 starts, no crash | *violation*: two holders |
| `server` | 2 runs of `serve.sh`, 2 ids, 1 port, misread identities, kills, overlaps at the lock, recycled ids; 330 000 states | no orphan, one backend, signals; a stop completes, runs return |
| `exposure` | 2 runs at a time, 3 in all, 3 processes, signals | nothing lost in sequence, fail closed, cleanup of own launches |
| `exposure_interrupted` | one run at a time | *violation*: STOPPED with the gateway listening |
| `external` | 2 runs, 2 commands or readings in all after any canonical past, 1 death or hang, kills, both profiles; 560 000 states | a failed start undoes its own launches and no other; success, stop and `MUSE_STOP=PASS` are true; ingress first; the status was true; every run ends |
| `preparation` | 63 worlds, 17 configurations with attachments mounted in each kind of place, 2 starts, 1 change or download by hand; 990 000 states | only pinned and fresh artifacts are launched; PASS is reliable, blockers are real; the advice helps, unless an asset is mounted at several places |

Why the bounds are enough to be interesting: the double release needs a handler
that fails, a second that is admitted and a third that joins it, which two
threads and four requests produce because a thread is reused; a stale lock with
a takeover and a rival needs three ids; losing a backend needs a start, a
failure and a second start; two servers need two runs at the lock, and a stop over
a stray process a start that is killed and the stop, so two commands; taking an
old tunnel for one's own needs a ready exposure and a second start over it; a wrong rollback of `external.sh` needs one
run over what `Init` says an earlier run has left, and one fault or one rival; a
wrong answer of the operator's status needs four changes between its readings,
which a start gives; a stale `model.env` needs a second start; readiness and the
start differ in one input at a time, so `MCWorlds` varies the pinned world in one
place and adds the pairs in which two mounts compete. `CHECK_DEADLOCK FALSE` is there because
each bound on requests, starts or runs stops the system in the end, and because
clients and operators need not do anything.

**Fairness.** Weak fairness on the steps of a handler (each of its socket
operations has a timeout, 433-444), of a run of `serve.sh` and of `external.sh`
(their waits have deadlines), and on the stages of a launched process. In
`External` the fair step is `Step(c) /\ Watch`, since the history of the reader
changes with every step. Nothing is assumed of clients, operators, failures or signals. `Preparation` has
no fairness: that following the advice comes to an end is the action property
`AdviceIsGood`, which has every step of it leave fewer blockers.

Handlers, runs of the scripts and process ids are told apart by nothing but their
progress; the TLC runs `gateway`, `run_lock` and `exposure` use that symmetry.

**Findings.** Each *violation* run checks what a document, comment or message of
the repository says and ends in a counterexample: an `outer` error handler that
releases a second time; an exception type nothing catches; the window between
`mkdir` and `owner.pid`; a trap that looks at `$?` after a signal. `PROJECT.json` quotes the lines.

Further disagreements that the models show and that have no run of their own:

- A chat request without a body is admitted and sent on without validation,
  although the comment at `auth_proxy.py:355` says otherwise.
- `serve.sh stop` writes STOPPED for a server it has sent KILL while that process
  may still exist, because `wait` does not wait for a process that is no child
  (`process_utils.sh:17`).
- A run of `serve.sh` or `expose.sh` that is killed between a launch and its record
  leaves a process that `stop` and `stop-all` do not know of: they report success
  beside it. Only `muse_stop` and the port checks of later starts meet it.
- A target that a start has downloaded (`FORCE_MODEL_DOWNLOAD=1`) may be replaced in
  `$MODELS_DIR` by a download by hand before the launch; nobody hashes it again.
- With `VERIFY_MODEL_SHA256=0` the target is not hashed, but `model.env` and the
  status say the canonical digest; `README.md:187` says that every start verifies
  it.
- With inputs of the required name by two owners attached, the report says
  TARGET_MODEL_MISSING and advises to attach the Kaggle Model. Where `README.md:171`
  has it mounted, below `models/`, `_select_dataset_root` has three candidates and
  still chooses none (`kaggle_runtime.py:55`): the same report and the same advice,
  however often they are followed. `AdviceIsGood` holds but for this case.
- A stale or hung backend makes `external.sh start` and `stop-all` refuse (31);
  only `serve.sh stop` clears it. The notebook's `muse_stop` leaves such records.
- `external.sh` calls a backend its own that `serve.sh start` found already
  running, and a rollback then stops it, when another run has started it in
  between.
- `readiness.py` passes, with a warning, what the start then refuses: only a
  source snapshot attached (`serve.sh:213`), a single GGUF under another name
  (`download_model.sh:72`); and, without one, a public URL that ends with a slash
  (`external.sh:264`), a SHA256SUMS that cannot be read, and a runtime without a
  required manifest. It blocks what a start accepts: an untrusted prebuilt
  runtime when an upstream build is possible, a third small GPU, a draft whose
  SHA256SUMS entry is wrong. `PassIsReliable` and `BlockerIsReal` name these
  cases, and hold but for them.

## Proofs

All theorems hold for every value of the constants that satisfies the named
assumptions of the modules, which TLC evaluates on each instance:

| Assumption | Says | Because |
|---|---|---|
| `GatewayAssumption`, `PayloadAssumption`, `BucketAssumption` | handlers are finitely many, bounds and limits are natural numbers, `MAX_TOKENS` at least 1 | they are counts, lengths and a rate |
| `LockAssumption`, `ServerAssumption`, `ExposureAssumption`, `ExternalAssumption` | nobody and nothing are no run, process or port; bounds are natural numbers | empty values of the shell |
| `ReadinessAssumption` | at least one GPU is required | `default.env` says 2 and `test_public_contract.py:263-270` insists; with 0, `readiness.py` would pass a machine without `nvidia-smi` that `gpu_probe.py` refuses |
| `PreparationAssumption` | the configurations and worlds have their types; a missing file is no file; at most one change | the proofs do not use the last, which bounds TLC's instance |

Each inductive invariant was checked by TLC on the instance of its component's
run before it was proved. The bounds of the instances (starts, runs, changes) are
constants too, so the theorems hold for any number of them.

- **`GatewayProofs`.** `ExactUnlessStolen` is not inductive: that a
  release frees only one's own slot depends on where each handler is. `Owns`
  ties `holding` to the program counters; `OuterNeedsVanish` says that the outer
  handler is reached only after a client vanished. Their conjunction with the
  types, `SlotInv`, is inductive. From it follow `SlotExact`, `TheftCause`,
  `ForwardingAdmitted`, and, under `~MayVanish`, `OneAtATime` and the refinement
  `AdmissionRefined`. `GatewayRate` adds `RefillFresh` (a pending refill is for
  an instant between `last` and `now`) and `RateBudget` (grants and balance come
  out of one budget at `last`), which need the exact slot: only one handler is
  between refill and grant. `BucketRefined` maps the bucket's caller to "some
  handler is about to consume"; the read of the clock is a stutter and the store
  is the abstract refill, which needs `PendingIsCurrent`: what a handler has read
  is still what the bucket holds when it stores. `ForwardedWithinLimits` goes
  through `VerdictIsSound`: whatever passes the checks in the order of the code is
  within the limits, for any number and lengths of messages. `GrantsCounted`
  counts the handlers between grant and counter and shows, action by action, that
  their number makes up the difference.
- **`TokenBucketProofs`.** `WindowBudget` strengthens `WindowBound`: once a call of
  the window has refilled, grants and balance come from a budget that grows with
  the refill instant and not with the clock. With `BucketRefined`, the shared
  bucket of the gateway has this bound as well.
- **`RunLockProofs`.** For exclusion: without overlap at most one run is in the
  middle of a lock operation, and the invariant says what the directory and its
  file are at each of that run's steps. For `RefusalHasRival`, which is about any
  overlap and any crash: `UncrossedInv` says that a run without rivals has been
  the only one alive since it started, and that its own id is not the owner it reads.
- **`ServerProofs`.** `NoOrphan` alone says nothing of a run between its look at
  the record and its launch. `ServerInv` adds that, as long as no two runs were at
  the lock at once, only its holder is past it (`LockHeld`) and works on the
  process on record (`OwnRecord`), that no backend runs where a run is about to
  launch one (`AllFound`), and that a record whose birth matches a live process is
  of its server (`Births`, `Identified`). `SignalsOnlyBackends`, which holds after
  an overlap as well, needs `KnownChild`: what a run watches or is about to signal
  has not been replaced by an alien.
- **`ExposureProofs`.** There is no lock, so the invariant is about runs in
  sequence (`OneRun`) and gives, by the place of the one run, the set in which
  every live process must be (`Known`): the record, the run's own launches, or
  nothing. That `stop-owned` is a subroutine which three places call makes the
  return address part of it (`Returning`). `CleanupOfOwn` holds for runs that
  overlap in any way and needs only its own step.
- **`ExternalProofs`.** `RunInv` says of each run where its command may have
  brought it (`Fits`) and, as long as it is alone, what it has launched and what
  has become of that (`OwnBackend`, `OwnIngress`), what a stop has already closed
  (`StopsInOrder`) and, without faults, that what a start has found stays right
  (`StartsRight`). `StrayInv` accounts for every process without a record: it
  belongs to a run that is between the launch and the record (`Placed`), or a kill
  or two runs in the lock explain it (`Explained`); two runs are inside only
  after two have met (`Apart`), and one that is about to launch has cleared the
  record (`Cleared`). The reader's invariant says at each of its four steps which of
  the moments since it began, with at most three changes between them, its
  readings can come from.
- **`PreparationProofs`.** The invariant says at each script what the two state
  files are known to be: honest whoever wrote them (`Honest`), of this start once
  a script of it has written them (`Fresh`), exact once loaded (`Loaded`). For the
  promises of `readiness.py`, `Current` says that a report in a calm world is the
  report of this world, `Checked` what a start has passed and still holds, and
  `Kept` that a start with a clean PASS is on no path to a refusal but the
  deferred ones. The lemmas on the way say that the selection of an attached asset
  finds one of its mounts, and which conditions put which blocker in the report. For
  `AdviceIsGood`, `HeedingHelps` goes through the advices: each touches what one
  blocker is about, and `AttachedIsFound` says that discovery finds what was
  attached unless other mounts compete with it.

Only model-checked: the liveness properties `SlotFreed`, `HandlersReturn`,
`StopCompletes`, `RunsReturn` and `RunsEnd`, because liveness
under fairness and ENABLED are outside of the prover's reach; and the
counterexamples of the *violation* runs, which are TLC's.

## Not modelled

- Formatting, headers, logs and the wording of answers; the telemetry file, which
  `expose.sh` never enables; floats (the bucket counts integer units).
- State files that cannot be parsed: they are written by rename, and only two
  writers of one temporary name or a full disk could leave one.
- In a start: the virtual environment and the network behind `pip`, the CUDA
  toolkit and the paths of the NVIDIA driver. A build is one step that may fail, a
  download from Hugging Face one step that may bring nothing or anything. An
  attached file that is verified is taken to be the file that is loaded later. Two
  starts at once.
- In `External`: named tunnels, which `muse_stop` does not recognise because they
  have no `--url`; a `ps` that fails; the time between a look at a port and its
  binding, and signals that find `$?` = 0, which are in `Server` and `Exposure`. A
  server that answers is the one on record.
- `operator_doctor.py` beyond what it shares with `operator_status.py`.
- The smoke tests: a client without shared state. Release, packaging and source
  fingerprints: sequential programs about the text of files. The rest of the
  notebook: a linear script of installations, measurements and reports; its
  recovery cell removes the worktree, also under scripts that may still run.
- The waits of `expose.sh` are bounded by deadlines, read from the code and not
  checked.

## Plan

1. Done: gateway with its payload limits, bucket, run lock, backend lifecycle,
   exposure, orchestrator with the operator's status and the notebook's clean-up,
   readiness and preparation; every safety property of them as a theorem.
2. `Server` over the steps of `RunLock`, to say which of its promises survive
   an overlap at the lock; the backend gate of `Exposure` as the statuses
   that `Server` can give.
3. A client that retries, composed with `Admission`.
