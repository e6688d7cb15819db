----------------------------- MODULE Preparation -----------------------------
(***************************************************************************)
(* A start of the backend up to the launch of llama-server: the readiness  *)
(* gate, the check of the source tree, setup.sh with the resolution of the *)
(* runtime, download_model.sh, the checks of serve.sh and the resolution   *)
(* of the draft.  Each command is a step that looks at the world anew; the *)
(* world may change in between, and model.env and llama.env outlive the    *)
(* run that has written them.                                              *)
(*                                                                         *)
(* While a start runs, a path below /kaggle/input keeps its content or     *)
(* vanishes: the inputs are read-only.  The file that download_model.sh    *)
(* gets from Hugging Face may be replaced.  One start runs at a time, as   *)
(* the lock of serve.sh ensures unless two runs are at it at once (module  *)
(* RunLock); download_model.sh by hand takes no lock.                      *)
(***************************************************************************)
EXTENDS Readiness

CONSTANTS Worlds,      \* the worlds to look at
          Configs,     \* the configurations to look at
          MaxStarts,   \* bound: starts in one behaviour
          MaxChanges   \* bound: changes of the world and downloads by hand

Assets == {"target", "draft", "runtime"}

\* What config/default.env, the caller's environment and this Kaggle decide.
ConfigType ==
  [integrity: {"strict", "warn", "off"},       \* SOURCE_INTEGRITY_MODE
   source: {"auto", "kaggle", "build"},        \* LLAMA_SOURCE_MODE
   copy: {"auto", "never", "always"},          \* KAGGLE_RUNTIME_COPY_MODE
   manifest: BOOLEAN,                          \* KAGGLE_RUNTIME_REQUIRE_MANIFEST
   verify: BOOLEAN,                            \* VERIFY_MODEL_SHA256
   force: BOOLEAN,                             \* FORCE_MODEL_DOWNLOAD
   frozen: BOOLEAN,                            \* do the settings keep to the frozen contract?
   draftPath: Mounts \cup {None},              \* DFLASH_MODEL_PATH
   layout: [Assets -> Mounts],                 \* where an input is mounted that is attached
   profile: {"dflash2", "baseline"}]           \* SERVE_PROFILE

\* $MODELS_DIR, where download_model.sh puts what it downloads.
ModelsDir == "models_dir"

\* What model.env and llama.env say; name, bytes and genuine are of the file and of
\* the runtime that are meant, mount is where they are and start the writer: 0 is a
\* download by hand.
ModelStates ==
  [mount: Mounts \cup {ModelsDir}, name: {"exact", "single", "none"},
   bytes: {"canonical", "same_size", "other"}, digest: {"canonical", "same_size", "other"},
   start: Nat]

RuntimeStates ==
  [kind: {"kaggle_prebuilt", "kaggle_prebuilt_copy", "kaggle_source_build", "local_build"},
   commit: {"pinned", "other", "none"}, verified: BOOLEAN, genuine: BOOLEAN,
   mount: Mounts \cup {None}, start: Nat]

Launches ==
  [target: ModelStates, runtime: RuntimeStates,
   draft: {None, "canonical", "same_size", "other"}]

ASSUME PreparationAssumption ==
  /\ Configs \subseteq ConfigType
  /\ \A w \in Worlds : IsWorld(w)
  /\ None \notin ModelStates /\ None \notin RuntimeStates /\ None \notin Launches
  /\ MaxStarts \in Nat /\ MaxChanges \in Nat /\ MaxChanges <= 1

VARIABLES config, world,
          run,       \* pc; by external.sh or by serve.sh; what serve.sh has loaded
          model,     \* model.env, or None
          cache,     \* the target in $MODELS_DIR; has a download by hand, since the
                     \* start began, left one there that fails its verification?
          llama,     \* llama.env, or None
          launched,  \* what llama-server has been launched with, or None
          report,    \* the last readiness report, and whether all is as it was then
          count      \* starts and changes so far

vars == <<config, world, run, model, cache, llama, launched, report, count>>

NoReport == [verdict |-> "none", blockers |-> {}, warnings |-> {},
             next |-> "none", calm |-> FALSE]

Idle == [pc |-> "idle", by |-> "serve", model |-> None, llama |-> None]

Report(w) ==
  LET result == Assess(w, config.manifest)
  IN [verdict |-> result.verdict, blockers |-> result.blockers,
      warnings |-> result.warnings, next |-> result.next, calm |-> TRUE]

Goto(there) == run' = [run EXCEPT !.pc = there]

Refuse == Goto("refused")

Looks == UNCHANGED <<config, world, model, cache, llama, launched, report, count>>

\* Is the file that was found at this mount still there?
Present(asset, mount) == mount \in DOMAIN asset

TargetThere(mount) ==
  IF mount = ModelsDir THEN cache.bytes # "none" ELSE Present(world.target, mount)

-----------------------------------------------------------------------------
(* external.sh start, up to serve.sh start; or serve.sh start by itself,     *)
(* after readiness.sh by hand, whatever it says.                             *)

Begin(by) ==
  /\ run.pc = "idle" /\ count.starts < MaxStarts
  /\ run' = [Idle EXCEPT !.pc = IF by = "external" THEN "preflight" ELSE "readiness", !.by = by]
  /\ launched' = None
  /\ count' = [count EXCEPT !.starts = @ + 1]
  /\ cache' = [cache EXCEPT !.spoiled = FALSE]
  /\ UNCHANGED <<config, world, model, llama, report>>

\* The token check is of control characters in the C locale; a public URL may
\* not end with a slash.
PreflightPasses ==
  LET door == world.door
  IN /\ door.token \in {"ok", "not_ascii"}
     /\ door.mode = "named" => door.tunnelToken /\ door.url = "clean"
     /\ door.mode # "proxy" => door.cloudflared

Preflight ==
  /\ run.pc = "preflight"
  /\ IF PreflightPasses THEN Goto("readiness") ELSE Refuse
  /\ Looks

Readied ==
  /\ run.pc = "readiness"
  /\ report' = Report(world)
  /\ IF run.by = "external" /\ report'.verdict # "PASS" THEN Refuse ELSE Goto("source")
  /\ UNCHANGED <<config, world, model, cache, llama, launched, count>>

-----------------------------------------------------------------------------
(* serve.sh start *)

\* assert_persistent_contract and check-bind, then verify_source.sh
VerifySource ==
  /\ run.pc = "source"
  /\ IF config.frozen /\ (config.integrity = "strict" => world.tree = "intact")
     THEN Goto("setup") ELSE Refuse
  /\ Looks

\* resolve_nvidia_runtime and gpu_probe.py; that the locked Python packages can
\* be installed (setup.sh 40-46) is taken for granted.
Setup ==
  /\ run.pc = "setup"
  /\ IF ~GpusValid(world) THEN Refuse
     ELSE Goto(IF config.source = "build" THEN "fallback" ELSE "resolve")
  /\ Looks

Prebuilt == RuntimeAt(world).bins # "none" /\ RuntimeTrusted(world, config.manifest)

RunsDirect == config.copy # "always" /\ RuntimeAt(world).bins = "run"

RunsCopied == config.copy # "never" /\ RuntimeAt(world).bins \in {"run", "need_copy"}

\* Without a required manifest the commit of a prebuilt runtime is "".
PrebuiltState(kind) ==
  [kind |-> kind, commit |-> IF config.manifest THEN "pinned" ELSE "none",
   verified |-> config.manifest, genuine |-> RuntimeAt(world).manifest = "canonical",
   mount |-> IF kind = "kaggle_prebuilt" THEN SelectRoot(world.runtime) ELSE None,
   start |-> count.starts]

BuiltState(kind, commit) ==
  [kind |-> kind, commit |-> commit, verified |-> FALSE, genuine |-> commit = "pinned",
   mount |-> None, start |-> count.starts]

Resolved(state) == llama' = state /\ Goto("download")

\* resolve_kaggle_llama.sh exits with an error other than 26.
Unresolved ==
  /\ IF config.source = "kaggle" THEN Refuse ELSE Goto("fallback")
  /\ UNCHANGED llama

\* resolve_kaggle_llama.sh: a prebuilt runtime in place, else a copy of it, else
\* a build of the attached source, which may lack a tool (22-25) or CUDA (26).
Resolve ==
  /\ run.pc = "resolve"
  /\ LET runtime == RuntimeAt(world)
     IN IF ~runtime.readable THEN Unresolved
        ELSE IF Prebuilt /\ RunsDirect THEN Resolved(PrebuiltState("kaggle_prebuilt"))
        ELSE IF Prebuilt /\ RunsCopied THEN Resolved(PrebuiltState("kaggle_prebuilt_copy"))
        ELSE \/ runtime.source # "none" /\ Resolved(BuiltState("kaggle_source_build", runtime.source))
             \/ runtime.source # "none" /\ Refuse /\ UNCHANGED llama
             \/ Unresolved
  /\ UNCHANGED <<config, world, model, cache, launched, report, count>>

\* The upstream clone of the pinned commit, which needs a network and tools.
Fallback ==
  /\ run.pc = "fallback"
  /\ \/ Resolved(BuiltState("local_build", "pinned"))
     \/ Refuse /\ UNCHANGED llama
  /\ UNCHANGED <<config, world, model, cache, launched, report, count>>

\* download_model.sh with MODEL_SOURCE_MODE=kaggle: may what it finds be used?
Downloadable(exactOnly, verify) ==
  /\ ModelFound(world.target) /\ ~ModelUnreadable(world.target)
  /\ LET file == world.target[SelectRoot(world.target)]
         listed == file.sums
     IN IF file.name = "exact"
        THEN /\ listed # "other"
             /\ file.bytes # "other"
             /\ verify => file.bytes = "canonical"
        ELSE /\ ~exactOnly
             /\ verify => /\ listed # "none"
                          /\ (listed = "canonical") <=> (file.bytes = "canonical")

\* model.env: the digest is the expected one, computed or not.
ModelState(start) ==
  LET root == SelectRoot(world.target)
      file == world.target[root]
  IN [mount |-> root, name |-> file.name, bytes |-> file.bytes,
      digest |-> IF file.name = "exact" \/ file.sums = "canonical" THEN "canonical" ELSE file.bytes,
      start |-> start]

\* verify_file of the exact file
Accepts(bytes) ==
  bytes \in {"canonical", "same_size"} /\ (config.verify => bytes = "canonical")

CachedState(bytes, start) ==
  [mount |-> ModelsDir, name |-> "exact", bytes |-> bytes, digest |-> "canonical",
   start |-> start]

\* Attached inputs are passed over, the file is removed and fetched anew from
\* Hugging Face, which may bring nothing or anything.
ForcedDownload ==
  \E bytes \in {"canonical", "same_size", "other", "none"} :
    /\ cache' = [cache EXCEPT !.bytes = bytes]
    /\ IF Accepts(bytes)
       THEN model' = CachedState(bytes, count.starts) /\ Goto("recheck")
       ELSE Refuse /\ UNCHANGED model

\* Faulty variant: a model.env that is there is good enough.
DownloadOnce ==
  /\ run.pc = "download"
  /\ IF model # None THEN Goto("recheck") /\ UNCHANGED model
     ELSE IF Downloadable(TRUE, config.verify)
     THEN model' = ModelState(count.starts) /\ Goto("recheck")
     ELSE Refuse /\ UNCHANGED model
  /\ UNCHANGED <<config, world, cache, llama, launched, report, count>>

\* Faulty variant: a candidate that fails is only reported.
DownloadGoesOn ==
  /\ run.pc = "download"
  /\ Goto("recheck")
  /\ IF Downloadable(TRUE, config.verify) THEN model' = ModelState(count.starts)
     ELSE UNCHANGED model
  /\ UNCHANGED <<config, world, cache, llama, launched, report, count>>

\* serve.sh insists on an attached exact target, but leaves the caller's
\* FORCE_MODEL_DOWNLOAD as it is.
Download ==
  /\ run.pc = "download"
  /\ \/ config.force /\ ForcedDownload
     \/ /\ ~config.force
        /\ IF Downloadable(TRUE, config.verify)
           THEN model' = ModelState(count.starts) /\ Goto("recheck")
           ELSE Refuse /\ UNCHANGED model
        /\ UNCHANGED cache
  /\ UNCHANGED <<config, world, llama, launched, report, count>>

\* The identity of the target in model.env, and that of the runtime in llama.env.
TargetProven ==
  /\ TargetThere(model.mount)
  /\ model.name = "exact" /\ model.bytes # "other" /\ model.digest = "canonical"

RuntimeProven ==
  /\ llama.mount # None => Present(world.runtime, llama.mount)
  /\ llama.commit = "pinned"
  /\ \/ llama.kind \in {"kaggle_prebuilt", "kaggle_prebuilt_copy"} /\ llama.verified
     \/ llama.kind = "local_build"

\* Faulty variant: what download_model.sh has written needs no second look.
RuntimeProvenOnly ==
  RuntimeProven /\ TargetThere(model.mount)

\* load_runtime_state, then the checks of what it has loaded
TargetAndRuntimeProven == TargetProven /\ RuntimeProven

Recheck ==
  /\ run.pc = "recheck"
  /\ run' = [run EXCEPT !.pc = IF TargetAndRuntimeProven THEN "draft" ELSE "refused",
                        !.model = model, !.llama = llama]
  /\ Looks

\* resolve_dflash_model.sh: an explicit path as it is, else the exact file; its
\* bytes are always hashed.
DraftMount ==
  IF config.draftPath # None THEN config.draftPath
  ELSE IF ModelFound(world.draft) /\ ~ModelUnreadable(world.draft)
            /\ world.draft[SelectRoot(world.draft)].name = "exact"
  THEN SelectRoot(world.draft) ELSE None

DraftProven ==
  /\ DraftMount # None /\ Present(world.draft, DraftMount)
  /\ world.draft[DraftMount].bytes = "canonical"

\* gpu_probe.py once more, then the draft; a runtime of the pinned commit has the
\* options that speculative_utils.py asks for.
Draft ==
  /\ run.pc = "draft"
  /\ IF GpusValid(world) /\ (config.profile = "dflash2" => DraftProven)
     THEN Goto("launch") ELSE Refuse
  /\ Looks

\* What is at the path of model.env now; nobody hashes it again.
Target ==
  [run.model EXCEPT !.bytes = IF run.model.mount = ModelsDir THEN cache.bytes ELSE @]

\* A server whose binary or whose models have vanished does not get ready.
Launch ==
  /\ run.pc = "launch"
  /\ LET draft == IF config.profile = "dflash2" THEN DraftMount ELSE None
         there == /\ TargetThere(run.model.mount)
                  /\ run.llama.mount # None => Present(world.runtime, run.llama.mount)
                  /\ config.profile = "dflash2" => DraftProven
     IN IF there
        THEN /\ launched' = [target |-> Target, runtime |-> run.llama,
                             draft |-> IF draft = None THEN None ELSE world.draft[draft].bytes]
             /\ Goto("started")
        ELSE Refuse /\ UNCHANGED launched
  /\ UNCHANGED <<config, world, model, cache, llama, report, count>>

Leave ==
  /\ run.pc \in {"refused", "started"}
  /\ run' = Idle
  /\ Looks

-----------------------------------------------------------------------------
(* The environment. *)

\* No path gets another content.
KeepsPaths(v) ==
  \A a \in Assets : \A m \in DOMAIN world[a] \cap DOMAIN v[a] : v[a][m] = world[a][m]

\* An asset is attached or detached, a GPU is lost, the tree or the exports change.
Change ==
  /\ count.changes < MaxChanges
  /\ \E v \in Worlds :
       /\ \E key \in DOMAIN world : v = [world EXCEPT ![key] = v[key]]
       /\ v # world
       /\ run.pc # "idle" => KeepsPaths(v)
       /\ world' = v
  /\ report' = [report EXCEPT !.calm = FALSE]
  /\ count' = [count EXCEPT !.changes = @ + 1]
  /\ UNCHANGED <<config, run, model, cache, llama, launched>>

\* download_model.sh by hand: with an attached file, as the fallback policy of
\* default.env has it or for another MODEL_FILE of the same dataset; or with the
\* file in $MODELS_DIR, as it is or from Hugging Face.
DownloadByHand ==
  /\ count.changes < MaxChanges
  /\ \/ /\ Downloadable(FALSE, config.verify)
        /\ model' = ModelState(0)
        /\ UNCHANGED cache
     \/ /\ ModelFound(world.target)
        /\ model' = [mount |-> SelectRoot(world.target), name |-> "single", bytes |-> "other",
                     digest |-> "other", start |-> 0]
        /\ UNCHANGED cache
     \/ \E bytes \in {"canonical", "same_size", "other", "none"} :
          /\ cache' = [bytes |-> bytes, spoiled |-> cache.spoiled \/ ~Accepts(bytes)]
          /\ model' = IF Accepts(bytes) THEN CachedState(bytes, 0) ELSE model
  /\ report' = [report EXCEPT !.calm = FALSE]
  /\ count' = [count EXCEPT !.changes = @ + 1]
  /\ UNCHANGED <<config, world, run, llama, launched>>

\* The operator attaches the right thing, which Kaggle mounts where it likes
\* (README.md 168-176).
Attached(a, content) ==
  [m \in DOMAIN world[a] \cup {config.layout[a]} |->
     IF m = config.layout[a] THEN content ELSE world[a][m]]

GoodModel == [name |-> "exact", bytes |-> "canonical", sums |-> "canonical"]

GoodRuntime == [bins |-> "run", manifest |-> "canonical", source |-> "none", readable |-> TRUE]

Heeded(advice) ==
  CASE advice = "FIX_SOURCE_MANIFEST" -> [world EXCEPT !.tree = "intact"]
    [] advice = "ATTACH_GPU" ->
         [world EXCEPT !.smi = "ok", !.gpus = [i \in 1 .. GpuRequiredCount |-> GpuMinVram]]
    [] advice = "ATTACH_TARGET_MODEL" -> [world EXCEPT !.target = Attached("target", GoodModel)]
    [] advice = "ATTACH_DFLASH_MODEL" -> [world EXCEPT !.draft = Attached("draft", GoodModel)]
    [] advice = "ATTACH_RUNTIME" -> [world EXCEPT !.runtime = Attached("runtime", GoodRuntime)]
    [] advice = "FIX_API_TOKEN" -> [world EXCEPT !.door.token = "ok"]
    [] advice = "ATTACH_CLOUDFLARED" -> [world EXCEPT !.door.cloudflared = TRUE]
    [] advice = "FIX_NAMED_MODE" -> [world EXCEPT !.door.tunnelToken = TRUE, !.door.url = "clean"]

\* What the report tells to do first is done, "then rerun ./readiness.sh".
Heed ==
  /\ run.pc = "idle" /\ report.verdict = "FAIL"
  /\ world' = Heeded(report.next)
  /\ report' = Report(world')
  /\ UNCHANGED <<config, run, model, cache, llama, launched, count>>

-----------------------------------------------------------------------------
Init ==
  /\ config \in Configs /\ world \in Worlds
  /\ run = Idle /\ model = None /\ llama = None /\ launched = None
  /\ cache = [bytes |-> "none", spoiled |-> FALSE]
  /\ report = NoReport
  /\ count = [starts |-> 0, changes |-> 0]

Step ==
  \/ Preflight \/ Readied \/ VerifySource \/ Setup \/ Resolve \/ Fallback
  \/ Download \/ Recheck \/ Draft \/ Launch \/ Leave

Next ==
  \/ \E by \in {"external", "serve"} : Begin(by)
  \/ Step \/ Change \/ DownloadByHand \/ Heed

Spec == Init /\ [][Next]_vars

-----------------------------------------------------------------------------
(* Properties. *)

TypeOK ==
  /\ config \in ConfigType /\ IsWorld(world)
  /\ run \in [pc: {"idle", "preflight", "readiness", "source", "setup", "resolve", "fallback",
                   "download", "recheck", "draft", "launch", "started", "refused"},
              by: {"external", "serve"},
              model: ModelStates \cup {None}, llama: RuntimeStates \cup {None}]
  /\ model \in ModelStates \cup {None} /\ llama \in RuntimeStates \cup {None}
  /\ launched \in Launches \cup {None}
  /\ cache \in [bytes: {"canonical", "same_size", "other", "none"}, spoiled: BOOLEAN]
  /\ count \in [starts: Nat, changes: Nat]
  /\ (launched # None) => run.pc \in {"started", "idle"}
  /\ run.pc \in {"download", "recheck", "draft", "launch", "started"} => llama # None
  /\ run.pc \in {"recheck", "draft", "launch", "started"} => model # None
  /\ report.verdict \in {"none", "PASS", "FAIL", "ERROR"}
  /\ report.verdict = "FAIL" => report.next \in {Advice[b] : b \in DOMAIN Advice}

\* Whatever llama-server is launched with is the pinned target, the pinned draft
\* and a runtime of the pinned commit (README.md 176-190), whatever earlier starts
\* and downloads have left behind and whatever is attached or detached meanwhile.
\* With VERIFY_MODEL_SHA256=0 the target is only known by name and size.  The one
\* exception is a downloaded target that a download by hand has replaced, during
\* the start, by one that fails its verification.
LaunchedIsExact ==
  launched # None =>
    /\ launched.target.name = "exact"
    /\ \/ /\ launched.target.bytes # "other"
          /\ config.verify => launched.target.bytes = "canonical"
       \/ launched.target.mount = ModelsDir /\ cache.spoiled
    /\ launched.runtime.genuine
    /\ launched.draft = IF config.profile = "dflash2" THEN "canonical" ELSE None

\* The launch uses state that this start itself has written, or a download by hand
\* beside it: never model.env or llama.env of an earlier start.
LaunchedIsFresh ==
  launched # None =>
    launched.runtime.start = count.starts /\ launched.target.start \in {count.starts, 0}

\* May the content of the files, which readiness.py does not look at, or the
\* execution of the binaries still refuse a start?
Deferred ==
  \/ \E asset \in {world.target, world.draft} :
       ModelFound(asset) /\ asset[SelectRoot(asset)].bytes # "canonical"
  \/ ~RunsDirect /\ ~RunsCopied

\* A clean PASS is a promise (readiness.py 3-5): while nothing changes, a start is
\* then refused only for what readiness defers.  It presumes what the report shows
\* or readiness does not read: a required manifest, no forced upstream build or
\* model download, no explicit draft, settings within the frozen contract, models
\* whose probe has not failed, no slash after the URL.
PassIsReliable ==
  run.pc = "refused" /\ report.calm /\ report.verdict = "PASS" /\ report.warnings = {}
    /\ config.manifest /\ config.source # "build" /\ config.draftPath = None
    /\ ~config.force /\ config.frozen
    /\ ~ModelUnreadable(world.target) /\ ~ModelUnreadable(world.draft)
    /\ world.door.url # "slash"
  => Deferred

\* When is a start possible although readiness.sh reports this blocker?
Excused(blocker) ==
  CASE blocker = "SOURCE_MANIFEST" -> config.integrity # "strict"
    [] blocker = "GPU_TOPOLOGY" -> Len(world.gpus) > GpuRequiredCount
    [] blocker = "DFLASH_MODEL_MISSING" -> config.profile = "baseline" \/ config.draftPath # None
    [] blocker = "DFLASH_IDENTITY" ->
         \/ config.profile = "baseline" \/ config.draftPath # None
         \/ world.draft[SelectRoot(world.draft)].sums = "other"
    [] blocker = "RUNTIME_UNAVAILABLE" -> launched.runtime.kind = "local_build"
    [] blocker \in {"TARGET_MODEL_MISSING", "TARGET_IDENTITY"} -> config.force
    [] OTHER -> TRUE

\* And a blocker is no false alarm: serve.sh by itself, in the same world, is
\* refused as well, but for the listed excuses (the exposure's blockers are none of
\* serve.sh's business).
BlockerIsReal ==
  run.pc = "started" /\ report.calm => \A b \in report.blockers : Excused(b)

\* The advice that has an asset attached.
Attachment == [target |-> "ATTACH_TARGET_MODEL", draft |-> "ATTACH_DFLASH_MODEL",
               runtime |-> "ATTACH_RUNTIME"]

\* An asset is mounted at several places, and what is at the exact one, which is
\* the first choice, is not what the advice brings.
Crowded(asset) ==
  /\ Cardinality(DOMAIN asset) > 1
  /\ "exact" \in DOMAIN asset => asset.exact \notin {GoodModel, GoodRuntime}

\* Doing what the report of this world says first takes its blocker away and brings
\* no other, so that to do it "then rerun ./readiness.sh" (readiness.py 634) again
\* and again comes to an end, wherever Kaggle mounts what is attached.  The one
\* exception is an asset that the advice leaves mounted at several places.
AdviceIsGood ==
  [][Heed /\ report.calm =>
       \/ report'.blockers \subseteq report.blockers /\ report'.blockers # report.blockers
       \/ \E a \in Assets : report.next = Attachment[a] /\ Crowded(world'[a])]_vars
=============================================================================
