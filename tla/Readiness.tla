------------------------------ MODULE Readiness ------------------------------
(***************************************************************************)
(* What readiness.py says of a Kaggle notebook, and the discovery of       *)
(* attached assets, the check of GPUs and the trust in a prebuilt runtime  *)
(* that it shares with the scripts of a start.  Pure operators: the world  *)
(* and the configuration are arguments.  Module Preparation runs a start   *)
(* against the same world.                                                 *)
(*                                                                         *)
(* A world is a record: tree (the source tree), smi and gpus (nvidia-smi   *)
(* and the memory in MiB it lists), target, draft and runtime (an asset:   *)
(* from where it is mounted to what is there) and door (what is exported   *)
(* for the exposure).  A digest is what it is the digest of.               *)
(***************************************************************************)
EXTENDS Naturals, Sequences, FiniteSets

CONSTANTS None,
          GpuRequiredCount,  \* GPU_REQUIRED_COUNT
          GpuMinVram         \* GPU_MIN_VRAM_MIB

-----------------------------------------------------------------------------
(* What may be attached. *)

\* /kaggle/input/<slug>, /kaggle/input/datasets/<owner>/<slug>, deeper down
Owners == {"owner1", "owner2"}
Mounts == Owners \cup {"exact", "nested"}

\* default.env asks for two GPUs of 14000 MiB, and test_public_contract.py 263-270
\* insists on both.
ASSUME ReadinessAssumption ==
  GpuRequiredCount \in Nat \ {0} /\ GpuMinVram \in Nat /\ None \notin Mounts

\* A model: is the GGUF found by its name, as the only one, or not at all; are
\* its bytes the pinned ones; what does SHA256SUMS list for it?
Models == [name: {"exact", "single", "none"},
           bytes: {"canonical", "same_size", "other"},
           sums: {"none", "canonical", "other", "unreadable"}]

\* A runtime: do its binaries run, in place or only as an executable copy; is
\* the manifest of the pinned commit and of these binaries; is there a source?
Runtimes == [bins: {"none", "run", "need_copy", "broken"},
             manifest: {"canonical", "other"},
             source: {"none", "pinned", "other"},
             readable: BOOLEAN]

IsAsset(asset, Contents) ==
  /\ DOMAIN asset \subseteq Mounts
  /\ \A m \in DOMAIN asset : asset[m] \in Contents

Doors == [mode: {"proxy", "quick", "named"},
          token: {"ok", "missing", "weak", "not_ascii"},
          cloudflared: BOOLEAN, tunnelToken: BOOLEAN,
          url: {"clean", "slash", "bad"}]

IsWorld(w) ==
  /\ DOMAIN w = {"tree", "smi", "gpus", "target", "draft", "runtime", "door"}
  /\ w.tree \in {"intact", "changed", "no_manifest"}
  /\ w.smi \in {"ok", "absent", "broken"}
  /\ w.gpus \in Seq(Nat)
  /\ IsAsset(w.target, Models) /\ IsAsset(w.draft, Models)
  /\ IsAsset(w.runtime, Runtimes)
  /\ w.door \in Doors

-----------------------------------------------------------------------------
(* kaggle_runtime.py, runtime_manifest.py and gpu_probe.py *)

Only(S) == IF Cardinality(S) = 1 THEN CHOOSE x \in S : TRUE ELSE None

\* Faulty variant: the owner's before the exact place.
SelectRootByOwner(asset) ==
  LET owned == DOMAIN asset \cap Owners
  IN IF Cardinality(owned) = 1 THEN Only(owned)
     ELSE IF "exact" \in DOMAIN asset THEN "exact" ELSE Only(DOMAIN asset)

\* The exact place, else the only owner's, else the only one at all.
SelectRoot(asset) ==
  LET owned == DOMAIN asset \cap Owners
  IN IF "exact" \in DOMAIN asset THEN "exact"
     ELSE IF Cardinality(owned) = 1 THEN Only(owned)
     ELSE Only(DOMAIN asset)

\* discover_runtime raises when SHA256SUMS cannot be read
ModelUnreadable(asset) ==
  LET root == SelectRoot(asset) IN root # None /\ asset[root].sums = "unreadable"

ModelFound(asset) ==
  LET root == SelectRoot(asset) IN root # None /\ asset[root].name # "none"

RuntimeAt(w) ==
  LET root == SelectRoot(w.runtime)
  IN IF root # None THEN w.runtime[root]
     ELSE [bins |-> "none", manifest |-> "other", source |-> "none", readable |-> TRUE]

\* verify_manifest, when the manifest is required
RuntimeTrusted(w, requireManifest) ==
  requireManifest => RuntimeAt(w).manifest = "canonical"

\* Faulty variant: GPUs are only counted.
GpusCounted(w) == w.smi = "ok" /\ Len(w.gpus) >= GpuRequiredCount

\* gpu_probe.py validate_gpus looks at the first GpuRequiredCount GPUs only.
GpusValid(w) ==
  /\ w.smi = "ok"
  /\ Len(w.gpus) >= GpuRequiredCount
  /\ \A i \in 1 .. GpuRequiredCount : w.gpus[i] >= GpuMinVram

-----------------------------------------------------------------------------
(* readiness.py: assessment *)

\* probe_gpu takes the least of all GPUs; no nvidia-smi at all is zero GPUs.
GpuTopologyFails(w) ==
  /\ w.smi # "broken"
  /\ LET seen == IF w.smi = "ok" THEN w.gpus ELSE << >>
     IN \/ Len(seen) < GpuRequiredCount
        \/ \E i \in DOMAIN seen : seen[i] < GpuMinVram

\* Faulty variant: SHA256SUMS is not consulted.
ModelStatusBySize(asset) ==
  IF ModelUnreadable(asset) THEN "ERROR"
  ELSE IF ~ModelFound(asset) THEN "MISSING"
  ELSE IF asset[SelectRoot(asset)].bytes = "other" THEN "IDENTITY_FAIL" ELSE "PRESENT"

\* probe_model and _model_status
ModelStatus(asset) ==
  IF ModelUnreadable(asset) THEN "ERROR"
  ELSE IF ~ModelFound(asset) THEN "MISSING"
  ELSE LET model == asset[SelectRoot(asset)]
       IN IF model.bytes = "other" \/ model.sums = "other" THEN "IDENTITY_FAIL" ELSE "PRESENT"

NonExact(asset) ==
  ModelStatus(asset) = "PRESENT" /\ asset[SelectRoot(asset)].name # "exact"

\* An unreadable model dataset is not an error of the assessment: its status is
\* ERROR and it neither blocks nor warns.
IsError(w) == w.tree = "no_manifest" \/ w.smi = "broken" \/ ~RuntimeAt(w).readable

RuntimeUntrusted(w, requireManifest) ==
  LET runtime == RuntimeAt(w)
  IN runtime.readable /\ runtime.bins # "none" /\ ~RuntimeTrusted(w, requireManifest)

If(condition, blocker) == IF condition THEN <<blocker>> ELSE << >>

Blockers(w, requireManifest) ==
  If(w.tree = "changed", "SOURCE_MANIFEST")
  \o If(GpuTopologyFails(w), "GPU_TOPOLOGY")
  \o If(ModelStatus(w.target) = "MISSING", "TARGET_MODEL_MISSING")
  \o If(ModelStatus(w.target) = "IDENTITY_FAIL", "TARGET_IDENTITY")
  \o If(ModelStatus(w.draft) = "MISSING", "DFLASH_MODEL_MISSING")
  \o If(ModelStatus(w.draft) = "IDENTITY_FAIL", "DFLASH_IDENTITY")
  \o If(RuntimeUntrusted(w, requireManifest), "RUNTIME_UNAVAILABLE")
  \o If(w.door.token = "missing", "API_TOKEN_MISSING")
  \o If(w.door.token \in {"weak", "not_ascii"}, "API_TOKEN_WEAK")
  \o If(w.door.mode # "proxy" /\ ~w.door.cloudflared, "CLOUDFLARED_MISSING")
  \o If(w.door.mode = "named" /\ ~w.door.tunnelToken, "NAMED_MODE_TOKEN")
  \o If(w.door.mode = "named" /\ w.door.url = "bad", "NAMED_MODE_PUBLIC_URL")

\* The source mode that readiness sees is that of default.env, auto: a missing
\* prebuilt runtime is never a blocker.
Warnings(w) ==
  {warning \in {"TARGET_NON_EXACT_SELECTION", "DFLASH_NON_EXACT_SELECTION",
                "FAST_START_RUNTIME_NOT_ATTACHED"} :
     CASE warning = "TARGET_NON_EXACT_SELECTION" -> NonExact(w.target)
       [] warning = "DFLASH_NON_EXACT_SELECTION" -> NonExact(w.draft)
       [] OTHER -> RuntimeAt(w).readable /\ RuntimeAt(w).bins = "none"}

\* _next_action
Advice == [SOURCE_MANIFEST |-> "FIX_SOURCE_MANIFEST", GPU_TOPOLOGY |-> "ATTACH_GPU",
           TARGET_MODEL_MISSING |-> "ATTACH_TARGET_MODEL",
           TARGET_IDENTITY |-> "ATTACH_TARGET_MODEL",
           DFLASH_MODEL_MISSING |-> "ATTACH_DFLASH_MODEL",
           DFLASH_IDENTITY |-> "ATTACH_DFLASH_MODEL",
           RUNTIME_UNAVAILABLE |-> "ATTACH_RUNTIME",
           API_TOKEN_MISSING |-> "FIX_API_TOKEN", API_TOKEN_WEAK |-> "FIX_API_TOKEN",
           CLOUDFLARED_MISSING |-> "ATTACH_CLOUDFLARED",
           NAMED_MODE_TOKEN |-> "FIX_NAMED_MODE", NAMED_MODE_PUBLIC_URL |-> "FIX_NAMED_MODE"]

Verdict(error, blockers) ==
  IF error THEN "ERROR" ELSE IF blockers # << >> THEN "FAIL" ELSE "PASS"

NextAction(error, blockers) ==
  IF blockers # << >> THEN Advice[Head(blockers)]
  ELSE IF error THEN "RERUN_AFTER_RESOLUTION" ELSE "RUN_EXTERNAL_START"

Assess(w, requireManifest) ==
  LET blockers == Blockers(w, requireManifest)
  IN [verdict |-> Verdict(IsError(w), blockers),
      blockers |-> {blockers[i] : i \in DOMAIN blockers},
      warnings |-> Warnings(w),
      next |-> NextAction(IsError(w), blockers)]
=============================================================================
