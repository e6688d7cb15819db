-------------------------- MODULE PreparationProofs --------------------------
(***************************************************************************)
(* What a start of the backend guarantees for any worlds, configurations   *)
(* and numbers of starts: only pinned artifacts that this start has found  *)
(* are launched, a clean PASS of readiness.sh is kept and a blocker is     *)
(* real.                                                                   *)
(***************************************************************************)
EXTENDS Preparation, FiniteSetTheorems, SequenceTheorems, TLAPS

Prebuilts == {"kaggle_prebuilt", "kaggle_prebuilt_copy"}

\* A state file that claims the pinned artifact has been written for it.
HonestModel(m) ==
  m.name = "exact" => m.bytes # "other" /\ (config.verify => m.bytes = "canonical")

HonestRuntime(l) == l.commit = "pinned" => l.genuine

Honest ==
  /\ model # None => HonestModel(model)
  /\ llama # None => HonestRuntime(llama)

\* The state files of a start that has come this far are its own.
Fresh ==
  /\ run.pc \in {"download", "recheck"} => llama.start = count.starts
  /\ run.pc = "recheck" => model.start \in {count.starts, 0}

\* What serve.sh has loaded and found to be exact.
Proven(m, l) ==
  /\ m.name = "exact" /\ HonestModel(m) /\ l.genuine
  /\ l.start = count.starts /\ m.start \in {count.starts, 0}

Loaded ==
  run.pc \in {"draft", "launch"} =>
    /\ run.model \in ModelStates /\ run.llama \in RuntimeStates
    /\ Proven(run.model, run.llama)

Started == run.pc = "started" => launched # None

\* A downloaded target is one that its verification accepts, unless a download by
\* hand has taken its place.
Sound(mount) ==
  mount = ModelsDir => cache.bytes = "none" \/ Accepts(cache.bytes) \/ cache.spoiled

Cached ==
  /\ run.pc = "recheck" => Sound(model.mount)
  /\ run.pc \in {"draft", "launch"} => Sound(run.model.mount)

\* A report that nothing has happened since is about the world as it is.
Current == report.calm => report = Report(world)

\* A prebuilt runtime is of a trusted root; others have been built.
FromTrusted(l) == l.kind \in Prebuilts => RuntimeTrusted(world, config.manifest)

Accepted(l) == FromTrusted(l) /\ l.kind \in Prebuilts \cup {"local_build"}

\* What a start has passed still holds while nothing changes.
Checked ==
  report.calm =>
    /\ run.pc \in {"setup", "resolve", "fallback", "download", "recheck", "draft", "launch",
                   "started"} =>
         (config.integrity = "strict" => world.tree = "intact")
    /\ run.pc \in {"download", "recheck"} => FromTrusted(llama)
    /\ run.pc \in {"recheck", "draft", "launch", "started"} =>
         config.force \/ Downloadable(TRUE, config.verify)
    /\ run.pc \in {"draft", "launch"} => Accepted(run.llama)
    /\ run.pc \in {"launch", "started"} => GpusValid(world)
    /\ run.pc = "started" =>
         Accepted(launched.runtime) /\ (config.profile = "dflash2" => DraftProven)

\* A clean PASS, under the presumptions of PassIsReliable.
Promised ==
  /\ report.calm /\ report.verdict = "PASS" /\ report.warnings = {}
  /\ config.manifest /\ config.source # "build" /\ config.draftPath = None
  /\ ~config.force /\ config.frozen
  /\ ~ModelUnreadable(world.target) /\ ~ModelUnreadable(world.draft)
  /\ world.door.url # "slash"

RuntimeThere(l) == l.mount # None => Present(world.runtime, l.mount)

\* While a clean PASS stands, only what readiness defers stands in the way.
Kept ==
  Promised =>
    \/ Deferred
    \/ /\ run.pc \notin {"fallback", "refused"}
       /\ run.pc \in {"download", "recheck"} => RuntimeProven
       /\ run.pc = "recheck" => TargetProven
       /\ run.pc \in {"draft", "launch"} =>
            TargetThere(run.model.mount) /\ RuntimeThere(run.llama)

PreparationInv ==
  /\ TypeOK
  /\ Honest /\ Fresh /\ Loaded /\ Started /\ Cached
  /\ Current /\ Checked /\ Kept
  /\ LaunchedIsExact /\ LaunchedIsFresh

-----------------------------------------------------------------------------
(* The operators of Readiness. *)

LEMMA OnlyMember ==
  ASSUME NEW S, Only(S) # None
  PROVE  Only(S) \in S
<1>1. Cardinality(S) = 1
  BY DEF Only
<1>2. S # {}
  BY <1>1, FS_EmptySet
<1>. QED BY <1>1, <1>2 DEF Only

\* Discovery finds one of the places where something is mounted, or nothing.
LEMMA RootMounted ==
  ASSUME NEW asset, SelectRoot(asset) # None
  PROVE  SelectRoot(asset) \in DOMAIN asset
BY OnlyMember DEF SelectRoot

LEMMA FoundModel ==
  ASSUME NEW asset, IsAsset(asset, Models), ModelFound(asset)
  PROVE  /\ SelectRoot(asset) \in DOMAIN asset /\ SelectRoot(asset) \in Mounts
         /\ SelectRoot(asset) # None
         /\ asset[SelectRoot(asset)] \in Models
BY RootMounted DEF ModelFound, IsAsset

LEMMA RuntimeType ==
  ASSUME NEW w, IsWorld(w)
  PROVE  RuntimeAt(w) \in Runtimes
<1>1. CASE SelectRoot(w.runtime) # None
  BY <1>1, RootMounted DEF RuntimeAt, IsWorld, IsAsset
<1>2. CASE SelectRoot(w.runtime) = None
  BY <1>2 DEF RuntimeAt, Runtimes
<1>. QED BY <1>1, <1>2

Listed(s) == {s[i] : i \in DOMAIN s}

Names == DOMAIN Advice

\* A list of blockers that has one more at its end.
LEMMA OneMore ==
  ASSUME NEW s \in Seq(Names), NEW b \in Names
  PROVE  s \o <<b>> \in Seq(Names) /\ Listed(s \o <<b>>) = Listed(s) \cup {b}
<1>. DEFINE t == s \o <<b>>
<1>1. <<b>> \in Seq(Names) /\ Len(<<b>>) = 1 /\ <<b>>[1] = b
  OBVIOUS
<1>2. /\ t \in Seq(Names) /\ Len(t) = Len(s) + 1
      /\ \A i \in 1 .. Len(t) : t[i] = IF i <= Len(s) THEN s[i] ELSE <<b>>[i - Len(s)]
  BY <1>1, ConcatProperties
<1>3. DOMAIN t = 1 .. Len(t) /\ DOMAIN s = 1 .. Len(s) /\ Len(s) \in Nat
  BY <1>2
<1>. HIDE DEF t
<1>4. t[Len(s) + 1] = b
  BY <1>1, <1>2, <1>3
<1>5. Listed(t) = Listed(s) \cup {b}
  BY <1>2, <1>3, <1>4 DEF Listed
<1>. QED BY <1>2, <1>5 DEF t

\* When readiness.py reports this blocker.
Blocks(w, manifest, b) ==
  \/ w.tree = "changed" /\ b = "SOURCE_MANIFEST"
  \/ GpuTopologyFails(w) /\ b = "GPU_TOPOLOGY"
  \/ ModelStatus(w.target) = "MISSING" /\ b = "TARGET_MODEL_MISSING"
  \/ ModelStatus(w.target) = "IDENTITY_FAIL" /\ b = "TARGET_IDENTITY"
  \/ ModelStatus(w.draft) = "MISSING" /\ b = "DFLASH_MODEL_MISSING"
  \/ ModelStatus(w.draft) = "IDENTITY_FAIL" /\ b = "DFLASH_IDENTITY"
  \/ RuntimeUntrusted(w, manifest) /\ b = "RUNTIME_UNAVAILABLE"
  \/ w.door.token = "missing" /\ b = "API_TOKEN_MISSING"
  \/ w.door.token \in {"weak", "not_ascii"} /\ b = "API_TOKEN_WEAK"
  \/ w.door.mode # "proxy" /\ ~w.door.cloudflared /\ b = "CLOUDFLARED_MISSING"
  \/ w.door.mode = "named" /\ ~w.door.tunnelToken /\ b = "NAMED_MODE_TOKEN"
  \/ w.door.mode = "named" /\ w.door.url = "bad" /\ b = "NAMED_MODE_PUBLIC_URL"

LEMMA BlockersListed ==
  ASSUME NEW w, NEW manifest
  PROVE  /\ Blockers(w, manifest) \in Seq(Names)
         /\ \A b : b \in Listed(Blockers(w, manifest)) <=> Blocks(w, manifest, b)
<1>. DEFINE s1 == If(w.tree = "changed", "SOURCE_MANIFEST")
            s2 == s1 \o If(GpuTopologyFails(w), "GPU_TOPOLOGY")
            s3 == s2 \o If(ModelStatus(w.target) = "MISSING", "TARGET_MODEL_MISSING")
            s4 == s3 \o If(ModelStatus(w.target) = "IDENTITY_FAIL", "TARGET_IDENTITY")
            s5 == s4 \o If(ModelStatus(w.draft) = "MISSING", "DFLASH_MODEL_MISSING")
            s6 == s5 \o If(ModelStatus(w.draft) = "IDENTITY_FAIL", "DFLASH_IDENTITY")
            s7 == s6 \o If(RuntimeUntrusted(w, manifest), "RUNTIME_UNAVAILABLE")
            s8 == s7 \o If(w.door.token = "missing", "API_TOKEN_MISSING")
            s9 == s8 \o If(w.door.token \in {"weak", "not_ascii"}, "API_TOKEN_WEAK")
            s10 == s9 \o If(w.door.mode # "proxy" /\ ~w.door.cloudflared, "CLOUDFLARED_MISSING")
            s11 == s10 \o If(w.door.mode = "named" /\ ~w.door.tunnelToken, "NAMED_MODE_TOKEN")
            s12 == s11 \o If(w.door.mode = "named" /\ w.door.url = "bad", "NAMED_MODE_PUBLIC_URL")
<1>0. Blockers(w, manifest) = s12
  BY DEF Blockers
<1>n. Names = {"SOURCE_MANIFEST", "GPU_TOPOLOGY", "TARGET_MODEL_MISSING",
               "TARGET_IDENTITY", "DFLASH_MODEL_MISSING", "DFLASH_IDENTITY",
               "RUNTIME_UNAVAILABLE", "API_TOKEN_MISSING", "API_TOKEN_WEAK",
               "CLOUDFLARED_MISSING", "NAMED_MODE_TOKEN", "NAMED_MODE_PUBLIC_URL"}
  BY DEF Names, Advice
<1>1. s1 \in Seq(Names) /\ \A b : b \in Listed(s1) <=> w.tree = "changed" /\ b = "SOURCE_MANIFEST"
  <2>1. s1 = IF w.tree = "changed" THEN <<"SOURCE_MANIFEST">> ELSE << >>
    BY DEF If
  <2>2. <<"SOURCE_MANIFEST">> \in Seq(Names) /\ Listed(<<"SOURCE_MANIFEST">>) = {"SOURCE_MANIFEST"}
    BY <1>n DEF Listed
  <2>3. << >> \in Seq(Names) /\ Listed(<< >>) = {}
    BY DEF Listed
  <2>. HIDE DEF s1
  <2>. QED BY <2>1, <2>2, <2>3
<1>. HIDE DEF s1
<1>2. /\ s2 \in Seq(Names)
      /\ \A b : b \in Listed(s2) <=>
           b \in Listed(s1) \/ (GpuTopologyFails(w) /\ b = "GPU_TOPOLOGY")
  <2>1. s2 = IF GpuTopologyFails(w) THEN s1 \o <<"GPU_TOPOLOGY">> ELSE s1
    BY <1>1, ConcatEmptySeq DEF If
  <2>2. /\ s1 \o <<"GPU_TOPOLOGY">> \in Seq(Names)
        /\ Listed(s1 \o <<"GPU_TOPOLOGY">>) = Listed(s1) \cup {"GPU_TOPOLOGY"}
    BY <1>1, <1>n, OneMore
  <2>. HIDE DEF s2
  <2>. QED BY <1>1, <2>1, <2>2
<1>. HIDE DEF s2
<1>3. /\ s3 \in Seq(Names)
      /\ \A b : b \in Listed(s3) <=>
           b \in Listed(s2) \/ (ModelStatus(w.target) = "MISSING" /\ b = "TARGET_MODEL_MISSING")
  <2>1. s3 = IF ModelStatus(w.target) = "MISSING" THEN s2 \o <<"TARGET_MODEL_MISSING">> ELSE s2
    BY <1>2, ConcatEmptySeq DEF If
  <2>2. /\ s2 \o <<"TARGET_MODEL_MISSING">> \in Seq(Names)
        /\ Listed(s2 \o <<"TARGET_MODEL_MISSING">>) = Listed(s2) \cup {"TARGET_MODEL_MISSING"}
    BY <1>2, <1>n, OneMore
  <2>. HIDE DEF s3
  <2>. QED BY <1>2, <2>1, <2>2
<1>. HIDE DEF s3
<1>4. /\ s4 \in Seq(Names)
      /\ \A b : b \in Listed(s4) <=>
           b \in Listed(s3) \/ (ModelStatus(w.target) = "IDENTITY_FAIL" /\ b = "TARGET_IDENTITY")
  <2>1. s4 = IF ModelStatus(w.target) = "IDENTITY_FAIL" THEN s3 \o <<"TARGET_IDENTITY">> ELSE s3
    BY <1>3, ConcatEmptySeq DEF If
  <2>2. /\ s3 \o <<"TARGET_IDENTITY">> \in Seq(Names)
        /\ Listed(s3 \o <<"TARGET_IDENTITY">>) = Listed(s3) \cup {"TARGET_IDENTITY"}
    BY <1>3, <1>n, OneMore
  <2>. HIDE DEF s4
  <2>. QED BY <1>3, <2>1, <2>2
<1>. HIDE DEF s4
<1>5. /\ s5 \in Seq(Names)
      /\ \A b : b \in Listed(s5) <=>
           b \in Listed(s4) \/ (ModelStatus(w.draft) = "MISSING" /\ b = "DFLASH_MODEL_MISSING")
  <2>1. s5 = IF ModelStatus(w.draft) = "MISSING" THEN s4 \o <<"DFLASH_MODEL_MISSING">> ELSE s4
    BY <1>4, ConcatEmptySeq DEF If
  <2>2. /\ s4 \o <<"DFLASH_MODEL_MISSING">> \in Seq(Names)
        /\ Listed(s4 \o <<"DFLASH_MODEL_MISSING">>) = Listed(s4) \cup {"DFLASH_MODEL_MISSING"}
    BY <1>4, <1>n, OneMore
  <2>. HIDE DEF s5
  <2>. QED BY <1>4, <2>1, <2>2
<1>. HIDE DEF s5
<1>6. /\ s6 \in Seq(Names)
      /\ \A b : b \in Listed(s6) <=>
           b \in Listed(s5) \/ (ModelStatus(w.draft) = "IDENTITY_FAIL" /\ b = "DFLASH_IDENTITY")
  <2>1. s6 = IF ModelStatus(w.draft) = "IDENTITY_FAIL" THEN s5 \o <<"DFLASH_IDENTITY">> ELSE s5
    BY <1>5, ConcatEmptySeq DEF If
  <2>2. /\ s5 \o <<"DFLASH_IDENTITY">> \in Seq(Names)
        /\ Listed(s5 \o <<"DFLASH_IDENTITY">>) = Listed(s5) \cup {"DFLASH_IDENTITY"}
    BY <1>5, <1>n, OneMore
  <2>. HIDE DEF s6
  <2>. QED BY <1>5, <2>1, <2>2
<1>. HIDE DEF s6
<1>7. /\ s7 \in Seq(Names)
      /\ \A b : b \in Listed(s7) <=>
           b \in Listed(s6) \/ (RuntimeUntrusted(w, manifest) /\ b = "RUNTIME_UNAVAILABLE")
  <2>1. s7 = IF RuntimeUntrusted(w, manifest) THEN s6 \o <<"RUNTIME_UNAVAILABLE">> ELSE s6
    BY <1>6, ConcatEmptySeq DEF If
  <2>2. /\ s6 \o <<"RUNTIME_UNAVAILABLE">> \in Seq(Names)
        /\ Listed(s6 \o <<"RUNTIME_UNAVAILABLE">>) = Listed(s6) \cup {"RUNTIME_UNAVAILABLE"}
    BY <1>6, <1>n, OneMore
  <2>. HIDE DEF s7
  <2>. QED BY <1>6, <2>1, <2>2
<1>. HIDE DEF s7
<1>8. /\ s8 \in Seq(Names)
      /\ \A b : b \in Listed(s8) <=>
           b \in Listed(s7) \/ (w.door.token = "missing" /\ b = "API_TOKEN_MISSING")
  <2>1. s8 = IF w.door.token = "missing" THEN s7 \o <<"API_TOKEN_MISSING">> ELSE s7
    BY <1>7, ConcatEmptySeq DEF If
  <2>2. /\ s7 \o <<"API_TOKEN_MISSING">> \in Seq(Names)
        /\ Listed(s7 \o <<"API_TOKEN_MISSING">>) = Listed(s7) \cup {"API_TOKEN_MISSING"}
    BY <1>7, <1>n, OneMore
  <2>. HIDE DEF s8
  <2>. QED BY <1>7, <2>1, <2>2
<1>. HIDE DEF s8
<1>9. /\ s9 \in Seq(Names)
      /\ \A b : b \in Listed(s9) <=>
           b \in Listed(s8) \/ (w.door.token \in {"weak", "not_ascii"} /\ b = "API_TOKEN_WEAK")
  <2>1. s9 = IF w.door.token \in {"weak", "not_ascii"} THEN s8 \o <<"API_TOKEN_WEAK">> ELSE s8
    BY <1>8, ConcatEmptySeq DEF If
  <2>2. /\ s8 \o <<"API_TOKEN_WEAK">> \in Seq(Names)
        /\ Listed(s8 \o <<"API_TOKEN_WEAK">>) = Listed(s8) \cup {"API_TOKEN_WEAK"}
    BY <1>8, <1>n, OneMore
  <2>. HIDE DEF s9
  <2>. QED BY <1>8, <2>1, <2>2
<1>. HIDE DEF s9
<1>10. /\ s10 \in Seq(Names)
      /\ \A b : b \in Listed(s10) <=>
           b \in Listed(s9) \/ (w.door.mode # "proxy" /\ ~w.door.cloudflared /\ b = "CLOUDFLARED_MISSING")
  <2>1. s10 = IF w.door.mode # "proxy" /\ ~w.door.cloudflared THEN s9 \o <<"CLOUDFLARED_MISSING">> ELSE s9
    BY <1>9, ConcatEmptySeq DEF If
  <2>2. /\ s9 \o <<"CLOUDFLARED_MISSING">> \in Seq(Names)
        /\ Listed(s9 \o <<"CLOUDFLARED_MISSING">>) = Listed(s9) \cup {"CLOUDFLARED_MISSING"}
    BY <1>9, <1>n, OneMore
  <2>. HIDE DEF s10
  <2>. QED BY <1>9, <2>1, <2>2
<1>. HIDE DEF s10
<1>11. /\ s11 \in Seq(Names)
      /\ \A b : b \in Listed(s11) <=>
           b \in Listed(s10) \/ (w.door.mode = "named" /\ ~w.door.tunnelToken /\ b = "NAMED_MODE_TOKEN")
  <2>1. s11 = IF w.door.mode = "named" /\ ~w.door.tunnelToken THEN s10 \o <<"NAMED_MODE_TOKEN">> ELSE s10
    BY <1>10, ConcatEmptySeq DEF If
  <2>2. /\ s10 \o <<"NAMED_MODE_TOKEN">> \in Seq(Names)
        /\ Listed(s10 \o <<"NAMED_MODE_TOKEN">>) = Listed(s10) \cup {"NAMED_MODE_TOKEN"}
    BY <1>10, <1>n, OneMore
  <2>. HIDE DEF s11
  <2>. QED BY <1>10, <2>1, <2>2
<1>. HIDE DEF s11
<1>12. /\ s12 \in Seq(Names)
      /\ \A b : b \in Listed(s12) <=>
           b \in Listed(s11) \/ (w.door.mode = "named" /\ w.door.url = "bad" /\ b = "NAMED_MODE_PUBLIC_URL")
  <2>1. s12 = IF w.door.mode = "named" /\ w.door.url = "bad" THEN s11 \o <<"NAMED_MODE_PUBLIC_URL">> ELSE s11
    BY <1>11, ConcatEmptySeq DEF If
  <2>2. /\ s11 \o <<"NAMED_MODE_PUBLIC_URL">> \in Seq(Names)
        /\ Listed(s11 \o <<"NAMED_MODE_PUBLIC_URL">>) = Listed(s11) \cup {"NAMED_MODE_PUBLIC_URL"}
    BY <1>11, <1>n, OneMore
  <2>. HIDE DEF s12
  <2>. QED BY <1>11, <2>1, <2>2
<1>. HIDE DEF s12
<1>. QED BY <1>0, <1>1, <1>2, <1>3, <1>4, <1>5, <1>6, <1>7, <1>8, <1>9, <1>10, <1>11, <1>12 DEF Blocks

\* What a report says, and when.
LEMMA Reported ==
  ASSUME NEW w
  PROVE  /\ Report(w).verdict \in {"PASS", "FAIL", "ERROR"}
         /\ Report(w).verdict = "FAIL" => Report(w).next \in {Advice[b] : b \in DOMAIN Advice}
         /\ \A b : b \in Report(w).blockers <=> Blocks(w, config.manifest, b)
         /\ Report(w).verdict = "PASS" => ~IsError(w) /\ \A b : ~Blocks(w, config.manifest, b)
<1>. DEFINE blockers == Blockers(w, config.manifest)
<1>1. blockers \in Seq(Names) /\ \A b : b \in Listed(blockers) <=> Blocks(w, config.manifest, b)
  BY BlockersListed
<1>2. /\ Report(w).verdict = Verdict(IsError(w), blockers)
      /\ Report(w).blockers = Listed(blockers)
      /\ Report(w).next = NextAction(IsError(w), blockers)
  BY DEF Report, Assess, Listed
<1>. HIDE DEF blockers
<1>3. blockers = << >> => \A b : b \notin Listed(blockers)
  BY DEF Listed
<1>4. ASSUME blockers # << >>
      PROVE  Head(blockers) \in Listed(blockers)
  BY <1>1, <1>4 DEF Listed
<1>5. \A b : Blocks(w, config.manifest, b) => b \in DOMAIN Advice
  BY DEF Blocks, Advice
<1>6. /\ Verdict(IsError(w), blockers) \in {"PASS", "FAIL", "ERROR"}
      /\ Verdict(IsError(w), blockers) = "PASS" => ~IsError(w) /\ blockers = << >>
      /\ Verdict(IsError(w), blockers) = "FAIL" => ~IsError(w) /\ blockers # << >>
  BY DEF Verdict
<1>7. blockers # << >> => NextAction(IsError(w), blockers) = Advice[Head(blockers)]
  BY DEF NextAction
<1>. QED BY <1>1, <1>2, <1>3, <1>4, <1>5, <1>6, <1>7

-----------------------------------------------------------------------------
(* What a clean PASS says of the world. *)

LEMMA PassFacts ==
  ASSUME TypeOK, Current, Promised
  PROVE  /\ PreflightPasses /\ world.tree = "intact" /\ GpusValid(world)
         /\ RuntimeAt(world).readable /\ Prebuilt
         /\ ModelStatus(world.target) = "PRESENT" /\ ~NonExact(world.target)
         /\ ModelStatus(world.draft) = "PRESENT" /\ ~NonExact(world.draft)
<1>w. /\ world.tree \in {"intact", "changed", "no_manifest"}
      /\ world.smi \in {"ok", "absent", "broken"} /\ world.gpus \in Seq(Nat)
      /\ world.door \in Doors /\ RuntimeAt(world) \in Runtimes
  BY RuntimeType DEF TypeOK, IsWorld
<1>1. ~IsError(world) /\ \A b : ~Blocks(world, config.manifest, b)
  BY Reported DEF Current, Promised
<1>2. Warnings(world) = {}
  BY DEF Current, Promised, Report, Assess
<1>3. ~NonExact(world.target) /\ ~NonExact(world.draft)
      /\ ~(RuntimeAt(world).readable /\ RuntimeAt(world).bins = "none")
  BY <1>2 DEF Warnings
<1>4. world.tree = "intact" /\ world.smi # "broken" /\ RuntimeAt(world).readable
  BY <1>w, <1>1 DEF IsError, Blocks, Runtimes
<1>5. GpusValid(world)
  <2>1. ~GpuTopologyFails(world)
    BY <1>1 DEF Blocks
  <2>2. world.smi = "ok"
    BY <1>w, <1>4, <2>1, ReadinessAssumption DEF GpuTopologyFails
  <2>. QED BY <1>w, <2>1, <2>2, ReadinessAssumption DEF GpuTopologyFails, GpusValid
<1>6. Prebuilt
  <2>1. RuntimeAt(world).bins # "none" /\ ~RuntimeUntrusted(world, config.manifest)
    BY <1>1, <1>3, <1>4 DEF Blocks
  <2>. QED BY <1>4, <2>1 DEF RuntimeUntrusted, Prebuilt
<1>7. PreflightPasses
  <2>1. world.door.token = "ok"
    BY <1>w, <1>1 DEF Blocks, Doors
  <2>2. world.door.mode = "named" => world.door.tunnelToken /\ world.door.url = "clean"
    BY <1>w, <1>1 DEF Blocks, Doors, Promised
  <2>3. world.door.mode # "proxy" => world.door.cloudflared
    BY <1>1 DEF Blocks
  <2>. QED BY <2>1, <2>2, <2>3 DEF PreflightPasses
<1>8. ModelStatus(world.target) = "PRESENT" /\ ModelStatus(world.draft) = "PRESENT"
  <2>1. ModelStatus(world.target) \notin {"MISSING", "IDENTITY_FAIL"}
        /\ ModelStatus(world.draft) \notin {"MISSING", "IDENTITY_FAIL"}
    BY <1>1 DEF Blocks
  <2>. QED BY <2>1 DEF ModelStatus, Promised
<1>. QED BY <1>3, <1>4, <1>5, <1>6, <1>7, <1>8

\* The one model that is found by name and passes readiness is a candidate.
LEMMA PresentModel ==
  ASSUME NEW asset, IsAsset(asset, Models), ModelStatus(asset) = "PRESENT", ~NonExact(asset)
  PROVE  /\ ModelFound(asset) /\ ~ModelUnreadable(asset)
         /\ asset[SelectRoot(asset)].name = "exact" /\ asset[SelectRoot(asset)].bytes # "other"
         /\ asset[SelectRoot(asset)].sums # "other"
BY DEF ModelStatus, NonExact

\* What serve.sh does with the models then depends on their content only.
LEMMA PassCarries ==
  ASSUME TypeOK, Current, Promised, ~Deferred
  PROVE  /\ RunsDirect \/ RunsCopied
         /\ Downloadable(TRUE, config.verify)
         /\ DraftProven
<1>1. IsAsset(world.target, Models) /\ IsAsset(world.draft, Models)
  BY DEF TypeOK, IsWorld
<1>t. /\ ModelFound(world.target) /\ ~ModelUnreadable(world.target)
      /\ world.target[SelectRoot(world.target)].name = "exact"
      /\ world.target[SelectRoot(world.target)].sums # "other"
  BY <1>1, PassFacts, PresentModel
<1>d. /\ ModelFound(world.draft) /\ ~ModelUnreadable(world.draft)
      /\ world.draft[SelectRoot(world.draft)].name = "exact"
  BY <1>1, PassFacts, PresentModel
<1>2. world.target[SelectRoot(world.target)].bytes = "canonical"
  BY <1>t DEF Deferred
<1>3. world.draft[SelectRoot(world.draft)].bytes = "canonical"
  BY <1>d DEF Deferred
<1>4. Downloadable(TRUE, config.verify)
  BY <1>t, <1>2 DEF Downloadable
<1>5. DraftMount = SelectRoot(world.draft)
  BY <1>d DEF DraftMount, Promised
<1>6. DraftProven
  BY <1>1, <1>d, <1>3, <1>5, FoundModel DEF DraftProven, Present
<1>. QED BY <1>4, <1>6 DEF Deferred

-----------------------------------------------------------------------------
(* What the commands of a start write. *)

LEMMA ModelWritten ==
  ASSUME TypeOK, ModelFound(world.target), NEW start \in Nat
  PROVE  /\ ModelState(start) \in ModelStates
         /\ ModelState(start).mount = SelectRoot(world.target)
         /\ ModelState(start).name = world.target[SelectRoot(world.target)].name
         /\ ModelState(start).bytes = world.target[SelectRoot(world.target)].bytes
         /\ ModelState(start).name = "exact" => ModelState(start).digest = "canonical"
         /\ ModelState(start).start = start
         /\ ModelState(start).mount # ModelsDir /\ TargetThere(ModelState(start).mount)
<1>1. SelectRoot(world.target) \in DOMAIN world.target \cap Mounts
      /\ world.target[SelectRoot(world.target)] \in Models
  BY FoundModel DEF TypeOK, IsWorld
<1>. DEFINE file == world.target[SelectRoot(world.target)]
            digest == IF file.name = "exact" \/ file.sums = "canonical" THEN "canonical" ELSE file.bytes
<1>2. ModelState(start) = [mount |-> SelectRoot(world.target), name |-> file.name,
                           bytes |-> file.bytes, digest |-> digest, start |-> start]
  BY DEF ModelState
<1>3. /\ file.name \in {"exact", "single", "none"}
      /\ file.bytes \in {"canonical", "same_size", "other"}
      /\ digest \in {"canonical", "same_size", "other"} /\ (file.name = "exact" => digest = "canonical")
  BY <1>1 DEF Models
<1>. HIDE DEF file, digest
<1>4. ModelState(start) \in ModelStates
  BY <1>1, <1>2, <1>3 DEF ModelStates
<1>5. ModelsDir \notin Mounts
  BY DEF ModelsDir, Mounts, Owners
<1>. QED BY <1>1, <1>2, <1>3, <1>4, <1>5 DEF file, Present, TargetThere

\* What download_model.sh accepts is honest, whatever its policy.
LEMMA DownloadHonest ==
  ASSUME TypeOK, NEW only \in BOOLEAN, Downloadable(only, config.verify), NEW start \in Nat
  PROVE  ModelFound(world.target) /\ HonestModel(ModelState(start))
<1>1. ModelFound(world.target)
  BY DEF Downloadable
<1>2. ModelState(start).name = "exact" =>
        /\ ModelState(start).bytes # "other"
        /\ config.verify => ModelState(start).bytes = "canonical"
  BY <1>1, ModelWritten DEF Downloadable
<1>. QED BY <1>1, <1>2 DEF HonestModel

LEMMA CachedWritten ==
  ASSUME NEW bytes \in {"canonical", "same_size"}, Accepts(bytes), NEW start \in Nat
  PROVE  /\ CachedState(bytes, start) \in ModelStates /\ HonestModel(CachedState(bytes, start))
         /\ CachedState(bytes, start).start = start
         /\ CachedState(bytes, start).mount = ModelsDir
BY DEF CachedState, ModelStates, HonestModel, Accepts

LEMMA PrebuiltWritten ==
  ASSUME TypeOK, Prebuilt, NEW kind \in Prebuilts
  PROVE  /\ PrebuiltState(kind) \in RuntimeStates
         /\ HonestRuntime(PrebuiltState(kind)) /\ FromTrusted(PrebuiltState(kind))
         /\ PrebuiltState(kind).start = count.starts
         /\ PrebuiltState(kind).kind = kind
         /\ config.manifest => /\ PrebuiltState(kind).commit = "pinned"
                               /\ PrebuiltState(kind).verified
         /\ RuntimeThere(PrebuiltState(kind))
<1>. DEFINE state == PrebuiltState(kind)
<1>t. config.manifest \in BOOLEAN /\ count.starts \in Nat
  BY DEF TypeOK, ConfigType
<1>1. /\ state.kind = kind /\ state.commit = IF config.manifest THEN "pinned" ELSE "none"
      /\ state.verified = config.manifest
      /\ state.genuine = (RuntimeAt(world).manifest = "canonical")
      /\ state.mount = IF kind = "kaggle_prebuilt" THEN SelectRoot(world.runtime) ELSE None
      /\ state.start = count.starts
  BY DEF PrebuiltState
<1>2. state = [kind |-> state.kind, commit |-> state.commit, verified |-> state.verified,
               genuine |-> state.genuine, mount |-> state.mount, start |-> state.start]
  BY DEF PrebuiltState
<1>. HIDE DEF state
<1>3. /\ state.kind \in {"kaggle_prebuilt", "kaggle_prebuilt_copy"}
      /\ state.commit \in {"pinned", "none"} /\ state.start \in Nat
  BY <1>t, <1>1 DEF Prebuilts
<1>4. state.verified \in BOOLEAN
  BY <1>t, <1>1
<1>5. state.genuine \in BOOLEAN
  BY <1>1
<1>6. /\ state.mount \in Mounts \cup {None}
      /\ state.mount # None => state.mount \in DOMAIN world.runtime
  <2>1. CASE SelectRoot(world.runtime) = None
    BY <1>1, <2>1
  <2>2. CASE SelectRoot(world.runtime) # None
    BY <1>1, <2>2, RootMounted DEF TypeOK, IsWorld, IsAsset
  <2>. QED BY <2>1, <2>2
<1>7. state \in RuntimeStates
  BY <1>2, <1>3, <1>4, <1>5, <1>6 DEF RuntimeStates
<1>8. HonestRuntime(state)
  BY <1>1, <1>t DEF HonestRuntime, Prebuilt, RuntimeTrusted
<1>9. FromTrusted(state)
  BY DEF FromTrusted, Prebuilt
<1>. QED BY <1>1, <1>t, <1>6, <1>7, <1>8, <1>9 DEF state, RuntimeThere, Present

LEMMA BuiltWritten ==
  ASSUME TypeOK, NEW kind \in {"kaggle_source_build", "local_build"},
         NEW commit \in {"pinned", "other"}
  PROVE  /\ BuiltState(kind, commit) \in RuntimeStates
         /\ HonestRuntime(BuiltState(kind, commit)) /\ FromTrusted(BuiltState(kind, commit))
         /\ BuiltState(kind, commit).start = count.starts
<1>1. count.starts \in Nat
  BY DEF TypeOK
<1>2. BuiltState(kind, commit) \in RuntimeStates
  BY <1>1 DEF BuiltState, RuntimeStates
<1>3. HonestRuntime(BuiltState(kind, commit))
  BY DEF BuiltState, HonestRuntime
<1>4. FromTrusted(BuiltState(kind, commit))
  BY DEF BuiltState, FromTrusted, Prebuilts
<1>. QED BY <1>2, <1>3, <1>4 DEF BuiltState

-----------------------------------------------------------------------------
(* Steps. *)

\* A world in which nothing happens is judged alike before and after the step.
LEMMA SameWorld ==
  ASSUME UNCHANGED <<config, world>>
  PROVE  /\ (Deferred' <=> Deferred) /\ (DraftProven' <=> DraftProven)
         /\ (Downloadable(TRUE, config.verify)' <=> Downloadable(TRUE, config.verify))
         /\ (GpusValid(world)' <=> GpusValid(world))
         /\ Report(world)' = Report(world)
         /\ ModelUnreadable(world.target)' = ModelUnreadable(world.target)
<1>1. (RunsDirect' <=> RunsDirect) /\ (RunsCopied' <=> RunsCopied)
  BY DEF RunsDirect, RunsCopied
<1>2. Deferred' <=> Deferred
  BY <1>1 DEF Deferred
<1>3. DraftMount' = DraftMount
  BY DEF DraftMount
<1>4. DraftProven' <=> DraftProven
  BY <1>3 DEF DraftProven
<1>5. Downloadable(TRUE, config.verify)' <=> Downloadable(TRUE, config.verify)
  BY DEF Downloadable
<1>. QED BY <1>2, <1>4, <1>5 DEF Report

\* What is presumed of a clean PASS does not depend on how far the start is.
LEMMA SamePromise ==
  ASSUME UNCHANGED <<config, world, report>>
  PROVE  Promised' <=> Promised
BY DEF Promised

\* A command that only goes on to another place, before or after the launch.
LEMMA GotoKeeps ==
  ASSUME PreparationInv, Looks, NEW there, Goto(there), run.pc \notin {"idle", "started"},
         \/ there \in {"readiness", "source", "setup", "resolve", "fallback", "refused"}
         \/ there = "launch" /\ run.pc = "draft"
  PROVE  /\ TypeOK' /\ Honest' /\ Fresh' /\ Loaded' /\ Started' /\ Cached' /\ Current'
         /\ LaunchedIsExact' /\ LaunchedIsFresh'
<1>1. UNCHANGED <<config, world, model, cache, llama, launched, report, count>>
      /\ run' = [run EXCEPT !.pc = there]
  BY DEF Looks, Goto
<1>2. launched = None
  BY DEF PreparationInv, TypeOK
<1>3. TypeOK'
  BY <1>1, <1>2 DEF PreparationInv, TypeOK
<1>4. Honest'
  BY <1>1 DEF PreparationInv, Honest, HonestModel, HonestRuntime
<1>5. run'.pc = there /\ run'.model = run.model /\ run'.llama = run.llama
  BY <1>1 DEF PreparationInv, TypeOK
<1>6. Fresh' /\ Started'
  BY <1>5 DEF Fresh, Started
<1>7. Loaded'
  BY <1>1, <1>5 DEF PreparationInv, Loaded, Proven, HonestModel
<1>8. Current'
  BY <1>1, SameWorld DEF PreparationInv, Current
<1>9. LaunchedIsExact' /\ LaunchedIsFresh'
  BY <1>1, <1>2 DEF LaunchedIsExact, LaunchedIsFresh
<1>10. Cached'
  BY <1>1, <1>5 DEF PreparationInv, Cached, Sound, Accepts
<1>. QED BY <1>3, <1>4, <1>6, <1>7, <1>8, <1>9, <1>10

LEMMA PreflightKeeps == PreparationInv /\ Preflight => PreparationInv'
<1>. SUFFICES ASSUME PreparationInv, Preflight
              PROVE  PreparationInv'
  OBVIOUS
<1>. DEFINE there == IF PreflightPasses THEN "readiness" ELSE "refused"
<1>1. Looks /\ Goto(there) /\ run.pc = "preflight"
  BY DEF Preflight, Refuse
<1>2. UNCHANGED <<config, world, report>> /\ run'.pc = there
  BY <1>1 DEF Looks, Goto, PreparationInv, TypeOK
<1>3. there \in {"readiness", "refused"}
  OBVIOUS
<1>4. Checked'
  BY <1>2, <1>3 DEF Checked
<1>5. Promised => there = "readiness"
  BY PassFacts DEF PreparationInv
<1>6. Kept'
  BY <1>2, <1>5, SamePromise DEF Kept
<1>. HIDE DEF there
<1>. QED BY <1>1, <1>3, <1>4, <1>6, GotoKeeps DEF PreparationInv

LEMMA ReadiedKeeps == PreparationInv /\ Readied => PreparationInv'
<1>. SUFFICES ASSUME PreparationInv, Readied
              PROVE  PreparationInv'
  OBVIOUS
<1>1. /\ UNCHANGED <<config, world, model, cache, llama, launched, count>> /\ run.pc = "readiness"
      /\ report' = Report(world)
  BY DEF Readied
<1>2. PICK there \in {"refused", "source"} :
        run' = [run EXCEPT !.pc = there] /\ (there = "refused" => report'.verdict # "PASS")
  BY DEF Readied, Refuse, Goto
<1>3. run'.pc = there
  BY <1>2 DEF PreparationInv, TypeOK
<1>4. launched = None
  BY <1>1 DEF PreparationInv, TypeOK
<1>5. TypeOK'
  BY <1>1, <1>2, <1>3, <1>4, Reported DEF PreparationInv, TypeOK
<1>6. Honest'
  BY <1>1 DEF PreparationInv, Honest, HonestModel, HonestRuntime
<1>7. Fresh' /\ Loaded' /\ Started' /\ Cached' /\ Checked'
  BY <1>3 DEF Fresh, Loaded, Started, Cached, Checked
<1>8. Current'
  BY <1>1, SameWorld DEF Current
<1>9. Kept'
  BY <1>2, <1>3 DEF Kept, Promised
<1>10. LaunchedIsExact' /\ LaunchedIsFresh'
  BY <1>1, <1>4 DEF LaunchedIsExact, LaunchedIsFresh
<1>. QED BY <1>5, <1>6, <1>7, <1>8, <1>9, <1>10 DEF PreparationInv

LEMMA VerifySourceKeeps == PreparationInv /\ VerifySource => PreparationInv'
<1>. SUFFICES ASSUME PreparationInv, VerifySource
              PROVE  PreparationInv'
  OBVIOUS
<1>. DEFINE there == IF config.frozen /\ (config.integrity = "strict" => world.tree = "intact")
                     THEN "setup" ELSE "refused"
<1>1. Looks /\ Goto(there) /\ run.pc = "source"
  BY DEF VerifySource, Refuse
<1>2. UNCHANGED <<config, world, report>> /\ run'.pc = there
  BY <1>1 DEF Looks, Goto, PreparationInv, TypeOK
<1>3. there \in {"setup", "refused"}
  OBVIOUS
<1>4. Checked'
  BY <1>2, <1>3 DEF Checked
<1>5. Promised => there = "setup"
  BY PassFacts DEF PreparationInv, Promised
<1>6. Kept'
  BY <1>2, <1>5, SamePromise DEF Kept
<1>. HIDE DEF there
<1>. QED BY <1>1, <1>3, <1>4, <1>6, GotoKeeps DEF PreparationInv

LEMMA SetupKeeps == PreparationInv /\ Setup => PreparationInv'
<1>. SUFFICES ASSUME PreparationInv, Setup
              PROVE  PreparationInv'
  OBVIOUS
<1>. DEFINE there == IF ~GpusValid(world) THEN "refused"
                     ELSE IF config.source = "build" THEN "fallback" ELSE "resolve"
<1>1. Looks /\ Goto(there) /\ run.pc = "setup"
  BY DEF Setup, Refuse
<1>2. UNCHANGED <<config, world, report>> /\ run'.pc = there
  BY <1>1 DEF Looks, Goto, PreparationInv, TypeOK
<1>3. there \in {"resolve", "fallback", "refused"}
  OBVIOUS
<1>4. Checked'
  BY <1>1, <1>2, <1>3 DEF PreparationInv, Checked
<1>5. Promised => there = "resolve"
  BY PassFacts DEF PreparationInv, Promised
<1>6. Kept'
  BY <1>2, <1>5, SamePromise DEF Kept
<1>. HIDE DEF there
<1>. QED BY <1>1, <1>3, <1>4, <1>6, GotoKeeps DEF PreparationInv

LEMMA DraftKeeps == PreparationInv /\ Draft => PreparationInv'
<1>. SUFFICES ASSUME PreparationInv, Draft
              PROVE  PreparationInv'
  OBVIOUS
<1>. DEFINE passes == GpusValid(world) /\ (config.profile = "dflash2" => DraftProven)
            there == IF passes THEN "launch" ELSE "refused"
<1>1. Looks /\ Goto(there) /\ run.pc = "draft"
  BY DEF Draft, Refuse
<1>2. /\ UNCHANGED <<config, world, report>>
      /\ run'.pc = there /\ run'.model = run.model /\ run'.llama = run.llama
  BY <1>1 DEF Looks, Goto, PreparationInv, TypeOK
<1>3. there \in {"launch", "refused"} /\ (there = "launch" => GpusValid(world))
  OBVIOUS
<1>5. Promised => Deferred \/ there = "launch"
  BY PassFacts, PassCarries DEF PreparationInv
<1>. HIDE DEF there
<1>4. Checked'
  BY <1>1, <1>2, <1>3, SameWorld DEF PreparationInv, Checked, Accepted, FromTrusted
<1>6. Kept'
  BY <1>1, <1>2, <1>5, SamePromise, SameWorld
     DEF PreparationInv, Kept, Looks, Present, TargetThere, RuntimeThere
<1>. QED BY <1>1, <1>3, <1>4, <1>6, GotoKeeps DEF PreparationInv

LEMMA BeginKeeps ==
  ASSUME PreparationInv, NEW by \in {"external", "serve"}, Begin(by)
  PROVE  PreparationInv'
<1>1. /\ UNCHANGED <<config, world, model, llama, report>>
      /\ cache' = [cache EXCEPT !.spoiled = FALSE]
      /\ launched' = None /\ count' = [count EXCEPT !.starts = @ + 1]
  BY DEF Begin
<1>2. PICK there \in {"preflight", "readiness"} :
        run' = [pc |-> there, by |-> by, model |-> None, llama |-> None]
  BY DEF Begin, Idle
<1>3. TypeOK'
  <2>1. cache' \in [bytes: {"canonical", "same_size", "other", "none"}, spoiled: BOOLEAN]
    BY <1>1 DEF PreparationInv, TypeOK
  <2>2. count' \in [starts: Nat, changes: Nat]
    BY <1>1 DEF PreparationInv, TypeOK
  <2>. QED BY <1>1, <1>2, <2>1, <2>2 DEF PreparationInv, TypeOK
<1>4. Honest'
  BY <1>1 DEF PreparationInv, Honest, HonestModel, HonestRuntime
<1>5. Fresh' /\ Loaded' /\ Started' /\ Cached' /\ Checked' /\ Kept'
  BY <1>2 DEF Fresh, Loaded, Started, Cached, Checked, Kept
<1>6. Current'
  BY <1>1, SameWorld DEF PreparationInv, Current
<1>7. LaunchedIsExact' /\ LaunchedIsFresh'
  BY <1>1 DEF LaunchedIsExact, LaunchedIsFresh
<1>. QED BY <1>3, <1>4, <1>5, <1>6, <1>7 DEF PreparationInv

LEMMA LeaveKeeps == PreparationInv /\ Leave => PreparationInv'
<1>. SUFFICES ASSUME PreparationInv, Leave
              PROVE  PreparationInv'
  OBVIOUS
<1>1. /\ UNCHANGED <<config, world, model, cache, llama, launched, report, count>>
      /\ run' = [pc |-> "idle", by |-> "serve", model |-> None, llama |-> None]
  BY DEF Leave, Looks, Idle
<1>2. TypeOK'
  BY <1>1 DEF PreparationInv, TypeOK
<1>3. Honest'
  BY <1>1 DEF PreparationInv, Honest, HonestModel, HonestRuntime
<1>4. Fresh' /\ Loaded' /\ Started' /\ Cached' /\ Checked' /\ Kept'
  BY <1>1 DEF Fresh, Loaded, Started, Cached, Checked, Kept
<1>5. Current'
  BY <1>1, SameWorld DEF PreparationInv, Current
<1>6. LaunchedIsExact' /\ LaunchedIsFresh'
  BY <1>1 DEF PreparationInv, LaunchedIsExact, LaunchedIsFresh
<1>. QED BY <1>2, <1>3, <1>4, <1>5, <1>6 DEF PreparationInv

\* The three ways in which resolve_kaggle_llama.sh, or setup.sh after it, ends.
LEMMA ResolveOutcome ==
  ASSUME TypeOK, Resolve
  PROVE  \/ \E kind \in Prebuilts : /\ Prebuilt /\ Goto("download")
                                    /\ llama' = PrebuiltState(kind)
         \/ /\ ~Prebuilt \/ (~RunsDirect /\ ~RunsCopied)
            /\ \E commit \in {"pinned", "other"} :
                 llama' = BuiltState("kaggle_source_build", commit) /\ Goto("download")
         \/ /\ ~RuntimeAt(world).readable \/ ~Prebuilt \/ (~RunsDirect /\ ~RunsCopied)
            /\ UNCHANGED llama /\ \E there \in {"fallback", "refused"} : Goto(there)
<1>1. RuntimeAt(world) \in Runtimes
  BY RuntimeType DEF TypeOK
<1>. DEFINE runtime == RuntimeAt(world)
<1>2. CASE ~runtime.readable
  BY <1>2 DEF Resolve, Unresolved, Refuse
<1>3. CASE runtime.readable /\ Prebuilt /\ RunsDirect
  BY <1>3 DEF Resolve, Resolved, Prebuilts
<1>4. CASE runtime.readable /\ Prebuilt /\ ~RunsDirect /\ RunsCopied
  BY <1>4 DEF Resolve, Resolved, Prebuilts
<1>5. CASE runtime.readable /\ (~Prebuilt \/ (~RunsDirect /\ ~RunsCopied))
  <2>1. \/ runtime.source # "none" /\ Resolved(BuiltState("kaggle_source_build", runtime.source))
        \/ UNCHANGED llama /\ (Refuse \/ Goto("fallback"))
    BY <1>5 DEF Resolve, Unresolved
  <2>2. runtime.source # "none" => runtime.source \in {"pinned", "other"}
    BY <1>1 DEF Runtimes
  <2>3. CASE runtime.source # "none" /\ Resolved(BuiltState("kaggle_source_build", runtime.source))
    BY <1>5, <2>2, <2>3 DEF Resolved
  <2>4. CASE UNCHANGED llama /\ (Refuse \/ Goto("fallback"))
    BY <1>5, <2>4 DEF Refuse
  <2>. QED BY <2>1, <2>3, <2>4
<1>. QED BY <1>2, <1>3, <1>4, <1>5

\* A runtime is recorded, and the model is looked for next.
LEMMA ResolvedKeeps ==
  ASSUME PreparationInv, UNCHANGED <<config, world, model, cache, launched, report, count>>,
         run.pc \in {"resolve", "fallback"}, Goto("download"),
         llama' \in RuntimeStates, HonestRuntime(llama'), FromTrusted(llama'),
         llama'.start = count.starts,
         Promised => Deferred \/ RuntimeProven'
  PROVE  PreparationInv'
<1>1. run' = [run EXCEPT !.pc = "download"] /\ run'.pc = "download"
  BY DEF Goto, PreparationInv, TypeOK
<1>2. launched = None /\ llama' # None
  BY PreparationAssumption DEF PreparationInv, TypeOK
<1>3. TypeOK'
  BY <1>1, <1>2 DEF PreparationInv, TypeOK
<1>4. Honest' /\ Fresh'
  BY <1>1 DEF PreparationInv, Honest, HonestModel, HonestRuntime, Fresh
<1>5. Loaded' /\ Started' /\ Cached'
  BY <1>1 DEF Loaded, Started, Cached
<1>6. Current'
  BY SameWorld DEF PreparationInv, Current
<1>7. Checked'
  BY <1>1 DEF PreparationInv, Checked, FromTrusted
<1>8. Kept'
  BY <1>1, SamePromise, SameWorld DEF Kept
<1>9. LaunchedIsExact' /\ LaunchedIsFresh'
  BY <1>2 DEF LaunchedIsExact, LaunchedIsFresh
<1>. QED BY <1>3, <1>4, <1>5, <1>6, <1>7, <1>8, <1>9 DEF PreparationInv

\* No runtime is recorded.
LEMMA UnresolvedKeeps ==
  ASSUME PreparationInv, Looks, run.pc \in {"resolve", "fallback"},
         NEW there \in {"fallback", "refused"}, Goto(there), Promised => Deferred
  PROVE  PreparationInv'
<1>1. UNCHANGED <<config, world, report>> /\ run'.pc = there
  BY DEF Looks, Goto, PreparationInv, TypeOK
<1>2. Checked'
  BY <1>1 DEF PreparationInv, Checked
<1>3. Kept'
  BY <1>1, SamePromise, SameWorld DEF Kept
<1>. QED BY <1>2, <1>3, GotoKeeps DEF PreparationInv

LEMMA ResolveKeeps == PreparationInv /\ Resolve => PreparationInv'
<1>. SUFFICES ASSUME PreparationInv, Resolve
              PROVE  PreparationInv'
  OBVIOUS
<1>t. TypeOK /\ UNCHANGED <<config, world, model, cache, launched, report, count>> /\ run.pc = "resolve"
  BY DEF PreparationInv, Resolve
<1>p. Promised => Prebuilt /\ config.manifest /\ RuntimeAt(world).readable
  BY PassFacts DEF PreparationInv, Promised
<1>1. ASSUME NEW kind \in Prebuilts, Prebuilt, Goto("download"), llama' = PrebuiltState(kind)
      PROVE  PreparationInv'
  <2>1. /\ llama' \in RuntimeStates /\ HonestRuntime(llama') /\ FromTrusted(llama')
        /\ llama'.start = count.starts /\ llama'.kind = kind
        /\ config.manifest => llama'.commit = "pinned" /\ llama'.verified
        /\ RuntimeThere(llama')
    BY <1>t, <1>1, PrebuiltWritten
  <2>2. Promised => RuntimeProven'
    BY <1>t, <1>p, <2>1 DEF RuntimeProven, RuntimeThere, Present, Prebuilts
  <2>. QED BY <1>t, <1>1, <2>1, <2>2, ResolvedKeeps
<1>2. ASSUME ~Prebuilt \/ (~RunsDirect /\ ~RunsCopied), NEW commit \in {"pinned", "other"},
             llama' = BuiltState("kaggle_source_build", commit), Goto("download")
      PROVE  PreparationInv'
  <2>1. Promised => Deferred
    BY <1>p, <1>2 DEF Deferred
  <2>2. /\ llama' \in RuntimeStates /\ HonestRuntime(llama') /\ FromTrusted(llama')
        /\ llama'.start = count.starts
    BY <1>t, <1>2, BuiltWritten
  <2>. QED BY <1>t, <1>2, <2>1, <2>2, ResolvedKeeps
<1>3. ASSUME ~RuntimeAt(world).readable \/ ~Prebuilt \/ (~RunsDirect /\ ~RunsCopied),
             UNCHANGED llama, NEW there \in {"fallback", "refused"}, Goto(there)
      PROVE  PreparationInv'
  <2>1. Promised => Deferred
    BY <1>p, <1>3 DEF Deferred
  <2>. QED BY <1>t, <1>3, <2>1, UnresolvedKeeps DEF Looks
<1>. QED BY <1>t, <1>1, <1>2, <1>3, ResolveOutcome

LEMMA FallbackKeeps == PreparationInv /\ Fallback => PreparationInv'
<1>. SUFFICES ASSUME PreparationInv, Fallback
              PROVE  PreparationInv'
  OBVIOUS
<1>t. TypeOK /\ UNCHANGED <<config, world, model, cache, launched, report, count>> /\ run.pc = "fallback"
  BY DEF PreparationInv, Fallback
<1>p. Promised => Deferred
  BY <1>t DEF PreparationInv, Kept
<1>1. CASE Resolved(BuiltState("local_build", "pinned"))
  <2>1. llama' = BuiltState("local_build", "pinned") /\ Goto("download")
    BY <1>1 DEF Resolved
  <2>2. /\ llama' \in RuntimeStates /\ HonestRuntime(llama') /\ FromTrusted(llama')
        /\ llama'.start = count.starts
    BY <1>t, <2>1, BuiltWritten
  <2>. QED BY <1>t, <1>p, <2>1, <2>2, ResolvedKeeps
<1>2. CASE Refuse /\ UNCHANGED llama
  BY <1>t, <1>p, <1>2, UnresolvedKeeps DEF Refuse, Looks
<1>. QED BY <1>1, <1>2 DEF Fallback

\* A model is recorded, of which serve.sh takes a second look next.
LEMMA ModelRecorded ==
  ASSUME PreparationInv, UNCHANGED <<config, world, llama, launched, report, count>>,
         run.pc = "download", Goto("recheck"),
         model' \in ModelStates, HonestModel(model'), model'.start = count.starts,
         cache' \in [bytes: {"canonical", "same_size", "other", "none"}, spoiled: BOOLEAN],
         Sound(model.mount)',
         config.force \/ Downloadable(TRUE, config.verify),
         Promised => TargetProven'
  PROVE  PreparationInv'
<1>t. TypeOK /\ launched = None /\ llama # None /\ model' # None
  BY PreparationAssumption DEF PreparationInv, TypeOK
<1>1. run' = [run EXCEPT !.pc = "recheck"] /\ run'.pc = "recheck"
  BY <1>t DEF Goto, TypeOK
<1>2. TypeOK'
  BY <1>t, <1>1 DEF TypeOK
<1>3. Honest' /\ Fresh'
  BY <1>t, <1>1 DEF PreparationInv, Honest, HonestModel, HonestRuntime, Fresh
<1>4. Loaded' /\ Started' /\ Cached'
  BY <1>1 DEF Loaded, Started, Cached
<1>5. Current'
  BY SameWorld DEF PreparationInv, Current
<1>6. Checked'
  BY <1>t, <1>1, SameWorld DEF PreparationInv, Checked, FromTrusted
<1>7. RuntimeProven' <=> RuntimeProven
  BY DEF RuntimeProven, Present
<1>8. Kept'
  BY <1>1, <1>7, SamePromise, SameWorld DEF PreparationInv, Kept
<1>9. LaunchedIsExact' /\ LaunchedIsFresh'
  BY <1>t DEF LaunchedIsExact, LaunchedIsFresh
<1>. QED BY <1>2, <1>3, <1>4, <1>5, <1>6, <1>8, <1>9 DEF PreparationInv

\* download_model.sh fails.
LEMMA DownloadRefused ==
  ASSUME PreparationInv, UNCHANGED <<config, world, model, llama, launched, report, count>>,
         run.pc = "download", Goto("refused"), Promised => Deferred,
         cache' \in [bytes: {"canonical", "same_size", "other", "none"}, spoiled: BOOLEAN]
  PROVE  PreparationInv'
<1>t. TypeOK /\ launched = None
  BY DEF PreparationInv, TypeOK
<1>1. run' = [run EXCEPT !.pc = "refused"] /\ run'.pc = "refused"
  BY <1>t DEF Goto, TypeOK
<1>2. TypeOK'
  BY <1>t, <1>1 DEF TypeOK
<1>3. Honest'
  BY DEF PreparationInv, Honest, HonestModel, HonestRuntime
<1>4. Fresh' /\ Loaded' /\ Started' /\ Cached'
  BY <1>1 DEF Fresh, Loaded, Started, Cached
<1>5. Current'
  BY SameWorld DEF PreparationInv, Current
<1>6. Checked'
  BY <1>1, SameWorld DEF PreparationInv, Checked
<1>7. Kept'
  BY <1>1, SamePromise, SameWorld DEF Kept
<1>8. LaunchedIsExact' /\ LaunchedIsFresh'
  BY <1>t DEF LaunchedIsExact, LaunchedIsFresh
<1>. QED BY <1>2, <1>3, <1>4, <1>5, <1>6, <1>7, <1>8 DEF PreparationInv

LEMMA DownloadKeeps == PreparationInv /\ Download => PreparationInv'
<1>. SUFFICES ASSUME PreparationInv, Download
              PROVE  PreparationInv'
  OBVIOUS
<1>t. /\ TypeOK /\ UNCHANGED <<config, world, llama, launched, report, count>>
      /\ run.pc = "download" /\ count.starts \in Nat
  BY DEF PreparationInv, Download, TypeOK
<1>1. CASE config.force /\ ForcedDownload
  <2>1. ~Promised
    BY <1>1 DEF Promised
  <2>2. PICK bytes \in {"canonical", "same_size", "other", "none"} :
          /\ cache' = [cache EXCEPT !.bytes = bytes]
          /\ IF Accepts(bytes)
             THEN model' = CachedState(bytes, count.starts) /\ Goto("recheck")
             ELSE Refuse /\ UNCHANGED model
    BY <1>1 DEF ForcedDownload
  <2>3. /\ cache' \in [bytes: {"canonical", "same_size", "other", "none"}, spoiled: BOOLEAN]
        /\ cache'.bytes = bytes
    BY <1>t, <2>2 DEF TypeOK
  <2>4. CASE Accepts(bytes)
    <3>1. model' = CachedState(bytes, count.starts) /\ Goto("recheck")
      BY <2>2, <2>4
    <3>2. bytes \in {"canonical", "same_size"}
      BY <2>4 DEF Accepts
    <3>3. model' \in ModelStates /\ HonestModel(model') /\ model'.start = count.starts
      BY <1>t, <2>4, <3>1, <3>2, CachedWritten
    <3>4. Sound(model.mount)'
      BY <1>t, <2>3, <2>4 DEF Sound, Accepts
    <3>. QED BY <1>t, <1>1, <2>1, <2>3, <3>1, <3>3, <3>4, ModelRecorded
  <2>5. CASE ~Accepts(bytes)
    BY <1>t, <2>1, <2>2, <2>3, <2>5, DownloadRefused DEF Refuse
  <2>. QED BY <2>4, <2>5
<1>2. CASE ~config.force /\ UNCHANGED cache /\ Downloadable(TRUE, config.verify)
  <2>1. model' = ModelState(count.starts) /\ Goto("recheck")
    BY <1>2 DEF Download
  <2>2. ModelFound(world.target) /\ HonestModel(model')
    BY <1>t, <1>2, <2>1, DownloadHonest
  <2>3. /\ model' \in ModelStates /\ model'.start = count.starts
        /\ model'.name = world.target[SelectRoot(world.target)].name
        /\ model'.name = "exact" => model'.digest = "canonical"
        /\ model'.mount # ModelsDir /\ TargetThere(model'.mount)
    BY <1>t, <2>1, <2>2, ModelWritten
  <2>4. Promised => model'.name = "exact"
    BY <2>3, PassFacts, PresentModel DEF PreparationInv, TypeOK, IsWorld
  <2>5. Promised => TargetProven'
    BY <1>t, <1>2, <2>2, <2>3, <2>4 DEF TargetProven, HonestModel, TargetThere, Present
  <2>6. Sound(model.mount)'
    BY <2>3 DEF Sound
  <2>. QED BY <1>t, <1>2, <2>1, <2>2, <2>3, <2>5, <2>6, ModelRecorded DEF TypeOK
<1>3. CASE ~config.force /\ UNCHANGED cache /\ ~Downloadable(TRUE, config.verify)
  <2>1. Goto("refused") /\ UNCHANGED model
    BY <1>3 DEF Download, Refuse
  <2>2. Promised => Deferred
    BY <1>3, PassCarries DEF PreparationInv
  <2>. QED BY <1>t, <1>3, <2>1, <2>2, DownloadRefused DEF TypeOK
<1>. QED BY <1>1, <1>2, <1>3 DEF Download

LEMMA RecheckKeeps == PreparationInv /\ Recheck => PreparationInv'
<1>. SUFFICES ASSUME PreparationInv, Recheck
              PROVE  PreparationInv'
  OBVIOUS
<1>. DEFINE there == IF TargetAndRuntimeProven THEN "draft" ELSE "refused"
<1>t. /\ TypeOK /\ UNCHANGED <<config, world, model, cache, llama, launched, report, count>>
      /\ run.pc = "recheck" /\ launched = None
      /\ model \in ModelStates /\ llama \in RuntimeStates /\ model # None /\ llama # None
  BY DEF PreparationInv, Recheck, Looks, TypeOK
<1>1. /\ run'.pc = there /\ run'.model = model /\ run'.llama = llama /\ run'.by = run.by
      /\ run' = [pc |-> there, by |-> run.by, model |-> model, llama |-> llama]
  BY <1>t DEF Recheck, TypeOK
<1>2. there \in {"draft", "refused"} /\ (there = "draft" => TargetProven /\ RuntimeProven)
      /\ (there = "refused" => ~TargetProven \/ ~RuntimeProven)
  BY DEF TargetAndRuntimeProven
<1>. HIDE DEF there
<1>3. TypeOK'
  BY <1>t, <1>1, <1>2 DEF TypeOK
<1>4. Honest'
  BY <1>t DEF PreparationInv, Honest, HonestModel, HonestRuntime
<1>5. Fresh' /\ Started'
  BY <1>1, <1>2 DEF Fresh, Started
<1>6. Loaded'
  <2>1. TargetProven => model.name = "exact"
    BY DEF TargetProven
  <2>2. RuntimeProven => llama.genuine
    BY <1>t DEF RuntimeProven, PreparationInv, Honest, HonestRuntime
  <2>3. HonestModel(model) /\ llama.start = count.starts /\ model.start \in {count.starts, 0}
    BY <1>t DEF PreparationInv, Honest, Fresh
  <2>. QED BY <1>t, <1>1, <1>2, <2>1, <2>2, <2>3 DEF Loaded, Proven, HonestModel
<1>7. Current'
  BY <1>t, SameWorld DEF PreparationInv, Current
<1>8. Checked'
  <2>1. RuntimeProven => llama.kind \in Prebuilts \cup {"local_build"}
    BY DEF RuntimeProven, Prebuilts
  <2>. QED BY <1>t, <1>1, <1>2, <2>1, SameWorld DEF PreparationInv, Checked, FromTrusted, Accepted
<1>9. Kept'
  <2>1. Promised => Deferred \/ (TargetProven /\ RuntimeProven)
    BY <1>t DEF PreparationInv, Kept
  <2>2. TargetProven /\ RuntimeProven => TargetThere(model.mount) /\ RuntimeThere(llama)
    BY DEF TargetProven, RuntimeProven, RuntimeThere
  <2>. QED BY <1>t, <1>1, <1>2, <2>1, <2>2, SamePromise, SameWorld
           DEF Kept, Present, TargetThere, RuntimeThere
<1>10. LaunchedIsExact' /\ LaunchedIsFresh'
  BY <1>t DEF LaunchedIsExact, LaunchedIsFresh
<1>11. Cached'
  BY <1>t, <1>1, <1>2 DEF PreparationInv, Cached, Sound, Accepts
<1>. QED BY <1>3, <1>4, <1>5, <1>6, <1>7, <1>8, <1>9, <1>10, <1>11 DEF PreparationInv

\* The server is started with what has been loaded and proven.
LEMMA LaunchKeeps == PreparationInv /\ Launch => PreparationInv'
<1>. SUFFICES ASSUME PreparationInv, Launch
              PROVE  PreparationInv'
  OBVIOUS
<1>. DEFINE draft == IF config.profile = "dflash2" THEN DraftMount ELSE None
            there == /\ TargetThere(run.model.mount)
                     /\ run.llama.mount # None => Present(world.runtime, run.llama.mount)
                     /\ config.profile = "dflash2" => DraftProven
<1>t. /\ TypeOK /\ UNCHANGED <<config, world, model, cache, llama, report, count>>
      /\ run.pc = "launch" /\ llama # None /\ model # None
      /\ run.model \in ModelStates /\ run.llama \in RuntimeStates
      /\ Proven(run.model, run.llama)
  BY DEF PreparationInv, Launch, TypeOK, Loaded
<1>1. CASE ~there
  <2>1. Looks /\ Goto("refused")
    BY <1>t, <1>1 DEF Launch, Refuse, Looks
  <2>2. run'.pc = "refused"
    BY <2>1, <1>t DEF Goto, TypeOK
  <2>3. Promised => Deferred
    <3>1. Promised /\ ~Deferred => /\ TargetThere(run.model.mount)
                                   /\ RuntimeThere(run.llama) /\ DraftProven
      BY <1>t, PassCarries DEF PreparationInv, Kept
    <3>. QED BY <1>1, <3>1 DEF RuntimeThere
  <2>4. Checked'
    BY <1>t, <2>2 DEF Checked
  <2>5. Kept'
    BY <1>t, <2>2, <2>3, SamePromise, SameWorld DEF Kept
  <2>. QED BY <1>t, <2>1, <2>4, <2>5, GotoKeeps DEF PreparationInv
<1>2. CASE there
  <2>. DEFINE bytes == IF draft = None THEN None ELSE world.draft[draft].bytes
  <2>1. /\ launched' = [target |-> Target, runtime |-> run.llama, draft |-> bytes]
        /\ run' = [run EXCEPT !.pc = "started"] /\ run'.pc = "started"
    BY <1>t, <1>2 DEF Launch, Goto, TypeOK
  <2>m. /\ Target \in ModelStates /\ Target.name = "exact" /\ Target.mount = run.model.mount
        /\ Target.start = run.model.start
        /\ Target.bytes = IF run.model.mount = ModelsDir THEN cache.bytes ELSE run.model.bytes
    <3>1. run.model.mount = ModelsDir => cache.bytes \in {"canonical", "same_size", "other"}
      BY <1>t, <1>2 DEF TargetThere, TypeOK
    <3>. QED BY <1>t, <3>1 DEF Target, ModelStates, Proven
  <2>s. run.model.mount = ModelsDir => Accepts(cache.bytes) \/ cache.spoiled
    BY <1>t, <1>2 DEF PreparationInv, Cached, Sound, TargetThere
  <2>2. config.profile = "dflash2" => DraftProven
    BY <1>2
  <2>3. bytes = IF config.profile = "dflash2" THEN "canonical" ELSE None
    BY <2>2 DEF DraftProven
  <2>. HIDE DEF bytes, draft, there
  <2>4. launched' \in Launches
    BY <1>t, <2>1, <2>3, <2>m DEF Launches
  <2>5. launched' # None
    BY <2>4, PreparationAssumption
  <2>6. TypeOK'
    BY <1>t, <2>1, <2>4 DEF TypeOK
  <2>7. launched'.target = Target /\ launched'.runtime = run.llama /\ launched'.draft = bytes
    BY <2>1
  <2>8. Honest'
    BY <1>t DEF PreparationInv, Honest, HonestModel, HonestRuntime
  <2>9. Fresh' /\ Loaded' /\ Started' /\ Cached'
    BY <2>1, <2>5 DEF Fresh, Loaded, Started, Cached
  <2>10. Current'
    BY <1>t, SameWorld DEF PreparationInv, Current
  <2>11. Checked'
    BY <1>t, <2>1, <2>2, <2>7, SameWorld DEF PreparationInv, Checked, Accepted, FromTrusted
  <2>12. Kept'
    BY <2>1 DEF Kept
  <2>13. LaunchedIsExact'
    BY <1>t, <2>3, <2>7, <2>m, <2>s DEF LaunchedIsExact, Proven, HonestModel, Accepts
  <2>14. LaunchedIsFresh'
    BY <1>t, <2>7, <2>m DEF LaunchedIsFresh, Proven
  <2>. QED BY <2>6, <2>8, <2>9, <2>10, <2>11, <2>12, <2>13, <2>14 DEF PreparationInv
<1>. QED BY <1>1, <1>2

-----------------------------------------------------------------------------
(* The environment. *)

\* What happens beside the start: no claim about the report is left.
LEMMA ChangeKeeps == PreparationInv /\ Change => PreparationInv'
<1>. SUFFICES ASSUME PreparationInv, Change
              PROVE  PreparationInv'
  OBVIOUS
<1>1. /\ UNCHANGED <<config, run, model, cache, llama, launched>>
      /\ report' = [report EXCEPT !.calm = FALSE]
      /\ count' = [count EXCEPT !.changes = @ + 1]
      /\ world' \in Worlds
  BY DEF Change
<1>2. count' \in [starts: Nat, changes: Nat] /\ count'.starts = count.starts
  BY <1>1 DEF PreparationInv, TypeOK
<1>3. IsWorld(world')
  BY <1>1, PreparationAssumption
<1>4. ~report'.calm /\ report'.verdict = report.verdict /\ report'.next = report.next
  BY <1>1 DEF PreparationInv, TypeOK
<1>5. TypeOK'
  BY <1>1, <1>2, <1>3, <1>4 DEF PreparationInv, TypeOK
<1>6. Honest' /\ Fresh' /\ Loaded' /\ Started' /\ Cached'
  BY <1>1, <1>2 DEF PreparationInv, Honest, HonestModel, HonestRuntime, Fresh, Loaded, Proven,
     Started, Cached, Sound, Accepts
<1>7. Current' /\ Checked' /\ Kept'
  BY <1>4 DEF Current, Checked, Kept, Promised
<1>8. LaunchedIsExact' /\ LaunchedIsFresh'
  BY <1>1, <1>2 DEF PreparationInv, LaunchedIsExact, LaunchedIsFresh
<1>. QED BY <1>5, <1>6, <1>7, <1>8 DEF PreparationInv

LEMMA DownloadByHandKeeps == PreparationInv /\ DownloadByHand => PreparationInv'
<1>. SUFFICES ASSUME PreparationInv, DownloadByHand
              PROVE  PreparationInv'
  OBVIOUS
<1>1. /\ UNCHANGED <<config, world, run, llama, launched>>
      /\ report' = [report EXCEPT !.calm = FALSE]
      /\ count' = [count EXCEPT !.changes = @ + 1]
      /\ TypeOK
  BY DEF DownloadByHand, PreparationInv
<1>2. count' \in [starts: Nat, changes: Nat] /\ count'.starts = count.starts
  BY <1>1 DEF TypeOK
<1>. DEFINE Outcome ==
       /\ cache' \in [bytes: {"canonical", "same_size", "other", "none"}, spoiled: BOOLEAN]
       /\ \/ UNCHANGED cache
          \/ (Accepts(cache.bytes) \/ cache.spoiled)'
       /\ cache.spoiled => cache'.spoiled
       /\ \/ UNCHANGED model
          \/ /\ model' \in ModelStates /\ HonestModel(model') /\ model'.start = 0
             /\ model'.mount = ModelsDir => (Accepts(cache.bytes) \/ cache.spoiled)'
<1>3. Outcome
  <2>1. CASE Downloadable(FALSE, config.verify) /\ model' = ModelState(0) /\ UNCHANGED cache
    BY <1>1, <2>1, DownloadHonest, ModelWritten DEF TypeOK
  <2>2. CASE /\ ModelFound(world.target) /\ UNCHANGED cache
             /\ model' = [mount |-> SelectRoot(world.target), name |-> "single",
                          bytes |-> "other", digest |-> "other", start |-> 0]
    <3>1. SelectRoot(world.target) \in Mounts /\ ModelsDir \notin Mounts
      BY <1>1, <2>2, FoundModel DEF TypeOK, IsWorld, Mounts, Owners, ModelsDir
    <3>2. model' \in ModelStates /\ model'.name = "single" /\ model'.start = 0
          /\ model'.mount # ModelsDir
      BY <2>2, <3>1 DEF ModelStates
    <3>. QED BY <1>1, <2>2, <3>2 DEF TypeOK, HonestModel
  <2>3. ASSUME NEW bytes \in {"canonical", "same_size", "other", "none"},
               cache' = [bytes |-> bytes, spoiled |-> cache.spoiled \/ ~Accepts(bytes)],
               model' = IF Accepts(bytes) THEN CachedState(bytes, 0) ELSE model
        PROVE  Outcome
    <3>1. cache'.bytes = bytes /\ cache'.spoiled = (cache.spoiled \/ ~Accepts(bytes))
      BY <2>3
    <3>2. (Accepts(cache.bytes) \/ cache.spoiled)'
      BY <1>1, <3>1 DEF Accepts
    <3>3. CASE ~Accepts(bytes)
      BY <1>1, <2>3, <3>1, <3>2, <3>3 DEF TypeOK
    <3>4. CASE Accepts(bytes)
      <4>1. bytes \in {"canonical", "same_size"}
        BY <3>4 DEF Accepts
      <4>2. model' = CachedState(bytes, 0)
        BY <2>3, <3>4
      <4>3. model' \in ModelStates /\ HonestModel(model') /\ model'.start = 0
        BY <3>4, <4>1, <4>2, CachedWritten
      <4>4. cache' \in [bytes: {"canonical", "same_size", "other", "none"}, spoiled: BOOLEAN]
        BY <1>1, <2>3, <3>4 DEF TypeOK
      <4>. QED BY <3>1, <3>2, <4>3, <4>4
    <3>. QED BY <3>3, <3>4
  <2>. QED BY <2>1, <2>2, <2>3 DEF DownloadByHand
<1>4. ~report'.calm /\ report'.verdict = report.verdict /\ report'.next = report.next
  BY <1>1 DEF PreparationInv, TypeOK
<1>5. TypeOK'
  BY <1>1, <1>2, <1>3, <1>4, PreparationAssumption DEF TypeOK
<1>6. Honest'
  BY <1>1, <1>3 DEF PreparationInv, Honest, HonestModel, HonestRuntime
<1>7. Fresh' /\ Loaded' /\ Started'
  BY <1>1, <1>2, <1>3 DEF PreparationInv, HonestModel, Fresh, Loaded, Proven, Started
<1>8. Cached'
  <2>1. \A mount : Sound(mount) => Sound(mount)'
    BY <1>1, <1>3 DEF Sound, Accepts
  <2>. QED BY <1>1, <1>3, <2>1 DEF PreparationInv, Cached, Sound
<1>9. Current' /\ Checked' /\ Kept'
  BY <1>4 DEF Current, Checked, Kept, Promised
<1>10. LaunchedIsExact' /\ LaunchedIsFresh'
  BY <1>1, <1>2, <1>3 DEF PreparationInv, LaunchedIsExact, LaunchedIsFresh
<1>. QED BY <1>5, <1>6, <1>7, <1>8, <1>9, <1>10 DEF PreparationInv

\* Whatever readiness.sh advises leads to a world again.
LEMMA HeededWorld ==
  ASSUME IsWorld(world), config \in ConfigType, NEW advice \in {Advice[b] : b \in DOMAIN Advice}
  PROVE  IsWorld(Heeded(advice))
<1>l. \A a \in Assets : config.layout[a] \in Mounts
  BY DEF ConfigType
<1>1. advice \in {"FIX_SOURCE_MANIFEST", "ATTACH_GPU", "ATTACH_TARGET_MODEL",
                  "ATTACH_DFLASH_MODEL", "ATTACH_RUNTIME", "FIX_API_TOKEN",
                  "ATTACH_CLOUDFLARED", "FIX_NAMED_MODE"}
  BY DEF Advice
<1>2. CASE advice = "FIX_SOURCE_MANIFEST"
  BY <1>2 DEF Heeded, IsWorld
<1>3. CASE advice = "ATTACH_GPU"
  <2>1. [i \in 1 .. GpuRequiredCount |-> GpuMinVram] \in Seq(Nat)
    BY ReadinessAssumption
  <2>2. Heeded(advice) = [world EXCEPT !.smi = "ok", !.gpus = [i \in 1 .. GpuRequiredCount |-> GpuMinVram]]
    BY <1>3 DEF Heeded
  <2>. QED BY <2>1, <2>2 DEF IsWorld
<1>4. CASE advice = "ATTACH_TARGET_MODEL"
  <2>1. IsAsset(Attached("target", GoodModel), Models)
    BY <1>l DEF IsWorld, IsAsset, Attached, Assets, GoodModel, Models
  <2>2. Heeded(advice) = [world EXCEPT !.target = Attached("target", GoodModel)]
    BY <1>4 DEF Heeded
  <2>. QED BY <2>1, <2>2 DEF IsWorld
<1>5. CASE advice = "ATTACH_DFLASH_MODEL"
  <2>1. IsAsset(Attached("draft", GoodModel), Models)
    BY <1>l DEF IsWorld, IsAsset, Attached, Assets, GoodModel, Models
  <2>2. Heeded(advice) = [world EXCEPT !.draft = Attached("draft", GoodModel)]
    BY <1>5 DEF Heeded
  <2>. QED BY <2>1, <2>2 DEF IsWorld
<1>6. CASE advice = "ATTACH_RUNTIME"
  <2>1. IsAsset(Attached("runtime", GoodRuntime), Runtimes)
    BY <1>l DEF IsWorld, IsAsset, Attached, Assets, GoodRuntime, Runtimes
  <2>2. Heeded(advice) = [world EXCEPT !.runtime = Attached("runtime", GoodRuntime)]
    BY <1>6 DEF Heeded
  <2>. QED BY <2>1, <2>2 DEF IsWorld
<1>7. CASE advice = "FIX_API_TOKEN"
  <2>1. Heeded(advice) = [world EXCEPT !.door = [world.door EXCEPT !.token = "ok"]]
    BY <1>7 DEF Heeded
  <2>2. [world.door EXCEPT !.token = "ok"] \in Doors
    BY DEF IsWorld, Doors
  <2>. QED BY <2>1, <2>2 DEF IsWorld
<1>8. CASE advice = "ATTACH_CLOUDFLARED"
  <2>1. Heeded(advice) = [world EXCEPT !.door = [world.door EXCEPT !.cloudflared = TRUE]]
    BY <1>8 DEF Heeded
  <2>2. [world.door EXCEPT !.cloudflared = TRUE] \in Doors
    BY DEF IsWorld, Doors
  <2>. QED BY <2>1, <2>2 DEF IsWorld
<1>9. CASE advice = "FIX_NAMED_MODE"
  <2>1. Heeded(advice) =
          [world EXCEPT !.door = [world.door EXCEPT !.tunnelToken = TRUE, !.url = "clean"]]
    BY <1>9 DEF Heeded
  <2>2. [world.door EXCEPT !.tunnelToken = TRUE, !.url = "clean"] \in Doors
    BY DEF IsWorld, Doors
  <2>. QED BY <2>1, <2>2 DEF IsWorld
<1>. QED BY <1>1, <1>2, <1>3, <1>4, <1>5, <1>6, <1>7, <1>8, <1>9

\* The advice is of a blocker that is there.
LEMMA AdviceHasBlocker ==
  ASSUME NEW w, Report(w).verdict = "FAIL"
  PROVE  \E b : Blocks(w, config.manifest, b) /\ Report(w).next = Advice[b]
<1>. DEFINE blockers == Blockers(w, config.manifest)
<1>1. blockers \in Seq(Names) /\ \A b : b \in Listed(blockers) <=> Blocks(w, config.manifest, b)
  BY BlockersListed
<1>2. /\ Report(w).verdict = Verdict(IsError(w), blockers)
      /\ Report(w).next = NextAction(IsError(w), blockers)
  BY DEF Report, Assess
<1>. HIDE DEF blockers
<1>3. blockers # << >>
  BY <1>2 DEF Verdict
<1>4. Head(blockers) \in Listed(blockers)
  BY <1>1, <1>3 DEF Listed
<1>. QED BY <1>1, <1>2, <1>3, <1>4 DEF NextAction

\* What is attached is found, unless other mounts of the same name compete with it.
LEMMA AttachedIsFound ==
  ASSUME NEW a \in Assets, NEW content, config \in ConfigType,
         DOMAIN world[a] \subseteq Mounts,
         content \in {GoodModel, GoodRuntime}, ~Crowded(Attached(a, content))
  PROVE  /\ SelectRoot(Attached(a, content)) # None
         /\ Attached(a, content)[SelectRoot(Attached(a, content))] \in {GoodModel, GoodRuntime}
<1>. DEFINE asset == Attached(a, content)
            mount == config.layout[a]
<1>1. mount \in Mounts /\ None \notin Mounts
  BY ReadinessAssumption DEF ConfigType
<1>2. DOMAIN asset = DOMAIN world[a] \cup {mount} /\ asset[mount] = content
  BY DEF Attached
<1>3. IsFiniteSet(DOMAIN asset)
  <2>1. IsFiniteSet(Mounts)
    <3>1. Mounts = ({"owner1"} \cup {"owner2"}) \cup ({"exact"} \cup {"nested"})
      BY DEF Mounts, Owners
    <3>2. \A x : IsFiniteSet({x})
      BY FS_Singleton
    <3>. QED BY <3>1, <3>2, FS_Union
  <2>. QED BY <1>1, <1>2, <2>1, FS_Subset
<1>4. ~Crowded(asset)
  OBVIOUS
<1>. HIDE DEF asset
<1>5. CASE "exact" \in DOMAIN asset /\ asset["exact"] \in {GoodModel, GoodRuntime}
  <2>1. SelectRoot(asset) = "exact" /\ None # "exact"
    BY <1>1, <1>5 DEF SelectRoot, Mounts
  <2>. QED BY <1>5, <2>1 DEF asset
<1>6. CASE ~("exact" \in DOMAIN asset /\ asset["exact"] \in {GoodModel, GoodRuntime})
  <2>1. ~(Cardinality(DOMAIN asset) > 1)
    BY <1>4, <1>6 DEF Crowded
  <2>2. Cardinality(DOMAIN asset) = 1
    <3>1. Cardinality(DOMAIN asset) \in Nat
      BY <1>3, FS_CardinalityType
    <3>2. Cardinality(DOMAIN asset) # 0
      BY <1>2, <1>3, FS_EmptySet
    <3>. QED BY <2>1, <3>1, <3>2
  <2>3. DOMAIN asset = {mount}
    BY <1>2, <1>3, <2>2, FS_Singleton
  <2>4. Only(DOMAIN asset) = mount
    BY <2>2, <2>3 DEF Only
  <2>5. SelectRoot(asset) = mount
    <3>1. "exact" \notin DOMAIN asset
      BY <1>2, <1>6, <2>3
    <3>2. CASE mount \in Owners
      BY <2>2, <2>3, <2>4, <3>1, <3>2, DOMAIN asset \cap Owners = DOMAIN asset DEF SelectRoot
    <3>3. CASE mount \notin Owners
      <4>1. DOMAIN asset \cap Owners = {}
        BY <2>3, <3>3
      <4>. QED BY <2>4, <3>1, <4>1, FS_EmptySet DEF SelectRoot
    <3>. QED BY <3>2, <3>3
  <2>. QED BY <1>1, <1>2, <2>5 DEF asset
<1>. QED BY <1>5, <1>6

LEMMA GoodModelPasses ==
  ASSUME NEW asset, SelectRoot(asset) # None,
         asset[SelectRoot(asset)] \in {GoodModel, GoodRuntime}, IsAsset(asset, Models)
  PROVE  ModelStatus(asset) = "PRESENT"
<1>1. asset[SelectRoot(asset)] \in Models
  BY RootMounted DEF IsAsset
<1>2. GoodRuntime \notin Models
  BY DEF GoodRuntime, Models
<1>3. asset[SelectRoot(asset)] = GoodModel
  BY <1>1, <1>2
<1>. QED BY <1>3 DEF ModelStatus, ModelFound, ModelUnreadable, GoodModel

\* The models, the runtime and the rest are blockers of their own: what is advised
\* touches one of them, and takes its blocker away.
LEMMA HeedingHelps ==
  ASSUME IsWorld(world), config \in ConfigType,
         NEW b, Blocks(world, config.manifest, b),
         NEW v, v = Heeded(Advice[b]),
         \A a \in Assets : Advice[b] = Attachment[a] => ~Crowded(v[a])
  PROVE  /\ \A c : Blocks(v, config.manifest, c) => Blocks(world, config.manifest, c)
         /\ ~Blocks(v, config.manifest, b)
<1>w. /\ DOMAIN world = {"tree", "smi", "gpus", "target", "draft", "runtime", "door"}
      /\ IsAsset(world.target, Models) /\ IsAsset(world.draft, Models)
      /\ IsAsset(world.runtime, Runtimes) /\ world.door \in Doors
      /\ config.manifest \in BOOLEAN /\ \A a \in Assets : config.layout[a] \in Mounts
  BY DEF IsWorld, ConfigType
<1>b. b \in DOMAIN Advice
  BY DEF Blocks, Advice
<1>g. v.smi = world.smi /\ v.gpus = world.gpus => (GpuTopologyFails(v) <=> GpuTopologyFails(world))
  BY DEF GpuTopologyFails
<1>r. v.runtime = world.runtime =>
        (RuntimeUntrusted(v, config.manifest) <=> RuntimeUntrusted(world, config.manifest))
  BY DEF RuntimeUntrusted, RuntimeTrusted, RuntimeAt
<1>1. CASE b = "SOURCE_MANIFEST"
  <2>1. v = [world EXCEPT !.tree = "intact"]
    BY <1>1 DEF Advice, Heeded
  <2>. QED BY <1>1, <1>w, <1>g, <1>r, <2>1 DEF Blocks
<1>2. CASE b = "GPU_TOPOLOGY"
  <2>1. v = [world EXCEPT !.smi = "ok", !.gpus = [i \in 1 .. GpuRequiredCount |-> GpuMinVram]]
    BY <1>2 DEF Advice, Heeded
  <2>2. ~GpuTopologyFails(v)
    BY <1>w, <2>1, ReadinessAssumption DEF GpuTopologyFails
  <2>. QED BY <1>2, <1>w, <1>g, <1>r, <2>1, <2>2 DEF Blocks
<1>3. CASE b \in {"TARGET_MODEL_MISSING", "TARGET_IDENTITY"}
  <2>1. v = [world EXCEPT !.target = Attached("target", GoodModel)]
    BY <1>3 DEF Advice, Heeded
  <2>2. ModelStatus(v.target) = "PRESENT"
    <3>1. Advice[b] = Attachment["target"]
      BY <1>3 DEF Advice, Attachment
    <3>2. IsAsset(v.target, Models)
      BY <1>w, <2>1 DEF Attached, IsAsset, Assets, GoodModel, Models
    <3>. QED BY <1>w, <2>1, <3>1, <3>2, AttachedIsFound, GoodModelPasses DEF Assets, IsAsset
  <2>. QED BY <1>3, <1>w, <1>g, <1>r, <2>1, <2>2 DEF Blocks
<1>4. CASE b \in {"DFLASH_MODEL_MISSING", "DFLASH_IDENTITY"}
  <2>1. v = [world EXCEPT !.draft = Attached("draft", GoodModel)]
    BY <1>4 DEF Advice, Heeded
  <2>2. ModelStatus(v.draft) = "PRESENT"
    <3>1. Advice[b] = Attachment["draft"]
      BY <1>4 DEF Advice, Attachment
    <3>2. IsAsset(v.draft, Models)
      BY <1>w, <2>1 DEF Attached, IsAsset, Assets, GoodModel, Models
    <3>. QED BY <1>w, <2>1, <3>1, <3>2, AttachedIsFound, GoodModelPasses DEF Assets, IsAsset
  <2>. QED BY <1>4, <1>w, <1>g, <1>r, <2>1, <2>2 DEF Blocks
<1>5. CASE b = "RUNTIME_UNAVAILABLE"
  <2>1. v = [world EXCEPT !.runtime = Attached("runtime", GoodRuntime)]
    BY <1>5 DEF Advice, Heeded
  <2>2. ~RuntimeUntrusted(v, config.manifest)
    <3>1. Advice[b] = Attachment["runtime"]
      BY <1>5 DEF Advice, Attachment
    <3>2. IsAsset(v.runtime, Runtimes)
      BY <1>w, <2>1 DEF Attached, IsAsset, Assets, GoodRuntime, Runtimes
    <3>3. /\ SelectRoot(v.runtime) # None
          /\ v.runtime[SelectRoot(v.runtime)] \in {GoodModel, GoodRuntime}
      BY <1>w, <2>1, <3>1, AttachedIsFound DEF Assets, IsAsset
    <3>4. v.runtime[SelectRoot(v.runtime)] \in Runtimes /\ GoodModel \notin Runtimes
      BY <3>2, <3>3, RootMounted DEF IsAsset, GoodModel, Runtimes
    <3>5. RuntimeAt(v) = GoodRuntime
      BY <3>3, <3>4 DEF RuntimeAt
    <3>. QED BY <3>5 DEF RuntimeUntrusted, RuntimeTrusted, GoodRuntime
  <2>. QED BY <1>5, <1>w, <1>g, <1>r, <2>1, <2>2 DEF Blocks
<1>6. CASE b \in {"API_TOKEN_MISSING", "API_TOKEN_WEAK"}
  <2>1. v = [world EXCEPT !.door = [world.door EXCEPT !.token = "ok"]]
    BY <1>6 DEF Advice, Heeded
  <2>. QED BY <1>6, <1>w, <1>g, <1>r, <2>1 DEF Blocks, Doors
<1>7. CASE b = "CLOUDFLARED_MISSING"
  <2>1. v = [world EXCEPT !.door = [world.door EXCEPT !.cloudflared = TRUE]]
    BY <1>7 DEF Advice, Heeded
  <2>. QED BY <1>7, <1>w, <1>g, <1>r, <2>1 DEF Blocks, Doors
<1>8. CASE b \in {"NAMED_MODE_TOKEN", "NAMED_MODE_PUBLIC_URL"}
  <2>1. v = [world EXCEPT !.door = [world.door EXCEPT !.tunnelToken = TRUE, !.url = "clean"]]
    <3>1. Advice[b] = "FIX_NAMED_MODE"
      BY <1>8 DEF Advice
    <3>. QED BY <1>w, <3>1 DEF Heeded, Doors
  <2>2. v.door.tunnelToken /\ v.door.url = "clean" /\ v.door.mode = world.door.mode
        /\ v.door.token = world.door.token /\ v.door.cloudflared = world.door.cloudflared
    BY <1>w, <2>1 DEF Doors
  <2>. QED BY <1>8, <1>w, <1>g, <1>r, <2>1, <2>2 DEF Blocks
<1>9. b \in {"SOURCE_MANIFEST", "GPU_TOPOLOGY", "TARGET_MODEL_MISSING", "TARGET_IDENTITY",
             "DFLASH_MODEL_MISSING", "DFLASH_IDENTITY", "RUNTIME_UNAVAILABLE",
             "API_TOKEN_MISSING", "API_TOKEN_WEAK", "CLOUDFLARED_MISSING",
             "NAMED_MODE_TOKEN", "NAMED_MODE_PUBLIC_URL"}
  BY <1>b DEF Advice
<1>. QED BY <1>1, <1>2, <1>3, <1>4, <1>5, <1>6, <1>7, <1>8, <1>9

LEMMA HeedKeeps == PreparationInv /\ Heed => PreparationInv'
<1>. SUFFICES ASSUME PreparationInv, Heed
              PROVE  PreparationInv'
  OBVIOUS
<1>1. /\ UNCHANGED <<config, run, model, cache, llama, launched, count>> /\ run.pc = "idle"
      /\ world' = Heeded(report.next) /\ report' = Report(world')
      /\ report.next \in {Advice[b] : b \in DOMAIN Advice} /\ IsWorld(world)
      /\ config \in ConfigType
  BY DEF Heed, PreparationInv, TypeOK
<1>2. IsWorld(world')
  BY <1>1, HeededWorld
<1>3. TypeOK'
  BY <1>1, <1>2, Reported DEF PreparationInv, TypeOK
<1>4. Honest'
  BY <1>1 DEF PreparationInv, Honest, HonestModel, HonestRuntime
<1>5. Fresh' /\ Loaded' /\ Started' /\ Cached' /\ Checked' /\ Kept'
  BY <1>1 DEF Fresh, Loaded, Started, Cached, Checked, Kept
<1>6. Current'
  BY <1>1 DEF Current, Report
<1>7. LaunchedIsExact' /\ LaunchedIsFresh'
  BY <1>1 DEF PreparationInv, LaunchedIsExact, LaunchedIsFresh
<1>. QED BY <1>3, <1>4, <1>5, <1>6, <1>7 DEF PreparationInv

-----------------------------------------------------------------------------
(* Theorems. *)

LEMMA InitPreparation == Init => PreparationInv
<1>. SUFFICES ASSUME Init
              PROVE  PreparationInv
  OBVIOUS
<1>1. config \in ConfigType /\ IsWorld(world)
  BY PreparationAssumption DEF Init
<1>2. run.pc = "idle" /\ ~report.calm
  BY DEF Init, Idle, NoReport
<1>3. TypeOK
  BY <1>1 DEF Init, TypeOK, Idle, NoReport
<1>4. /\ Honest /\ Fresh /\ Loaded /\ Started /\ Cached /\ Current /\ Checked /\ Kept
      /\ LaunchedIsExact /\ LaunchedIsFresh
  BY <1>2 DEF Init, Honest, Fresh, Loaded, Started, Cached, Current, Checked, Kept,
     LaunchedIsExact, LaunchedIsFresh
<1>. QED BY <1>3, <1>4 DEF PreparationInv

LEMMA StutterKeeps == PreparationInv /\ UNCHANGED vars => PreparationInv'
<1>. SUFFICES ASSUME PreparationInv, UNCHANGED vars
              PROVE  PreparationInv'
  OBVIOUS
<1>1. UNCHANGED <<config, world, run, model, cache, llama, launched, report, count>>
  BY DEF vars
<1>2. TypeOK' /\ Honest' /\ Fresh' /\ Loaded' /\ Started'
  BY <1>1 DEF PreparationInv, TypeOK, Honest, HonestModel, HonestRuntime, Fresh, Loaded, Proven,
     Started
<1>3. Current' /\ LaunchedIsExact' /\ LaunchedIsFresh'
  BY <1>1, SameWorld DEF PreparationInv, Current, LaunchedIsExact, LaunchedIsFresh
<1>4. Checked'
  BY <1>1, SameWorld DEF PreparationInv, Checked, Accepted, FromTrusted
<1>5. (RuntimeProven' <=> RuntimeProven) /\ (TargetProven' <=> TargetProven)
  BY <1>1 DEF RuntimeProven, TargetProven, TargetThere, Present
<1>6. Kept'
  BY <1>1, <1>5, SamePromise, SameWorld
     DEF PreparationInv, Kept, Present, TargetThere, RuntimeThere
<1>7. Cached'
  BY <1>1 DEF PreparationInv, Cached, Sound, Accepts
<1>. QED BY <1>2, <1>3, <1>4, <1>6, <1>7 DEF PreparationInv

LEMMA NextPreparation == PreparationInv /\ [Next]_vars => PreparationInv'
BY BeginKeeps, PreflightKeeps, ReadiedKeeps, VerifySourceKeeps, SetupKeeps, ResolveKeeps,
   FallbackKeeps, DownloadKeeps, RecheckKeeps, DraftKeeps, LaunchKeeps, LeaveKeeps,
   ChangeKeeps, DownloadByHandKeeps, HeedKeeps, StutterKeeps
   DEF Next, Step

THEOREM PreparationInvariant == Spec => []PreparationInv
<1>1. Init => PreparationInv
  BY InitPreparation
<1>2. PreparationInv /\ [Next]_vars => PreparationInv'
  BY NextPreparation
<1>. QED BY <1>1, <1>2, PTL DEF Spec

\* Every value keeps to its type; a start that has come this far has written its
\* state files, and a report that says FAIL advises something
\* (readiness.py 623-643).
THEOREM PreparationTypes == Spec => []TypeOK
<1>1. PreparationInv => TypeOK
  BY DEF PreparationInv
<1>. QED BY <1>1, PreparationInvariant, PTL

\* Whatever earlier starts, downloads by hand and detached inputs have left
\* behind, serve.sh (196-229, 272-327) launches the pinned target, a genuine
\* runtime and the pinned draft.
THEOREM LaunchesExact == Spec => []LaunchedIsExact
<1>1. PreparationInv => LaunchedIsExact
  BY DEF PreparationInv
<1>. QED BY <1>1, PreparationInvariant, PTL

\* serve.sh (180-189) launches what this very start has resolved, or what a
\* download by hand has put in its place meanwhile.
THEOREM LaunchesFresh == Spec => []LaunchedIsFresh
<1>1. PreparationInv => LaunchedIsFresh
  BY DEF PreparationInv
<1>. QED BY <1>1, PreparationInvariant, PTL

\* While nothing happens, a start that follows a clean PASS of readiness.sh
\* (readiness.py 683-712) is refused for nothing that readiness looks at.
THEOREM PassIsKept == Spec => []PassIsReliable
<1>1. PreparationInv => PassIsReliable
  BY DEF PreparationInv, Kept, Promised, PassIsReliable
<1>. QED BY <1>1, PreparationInvariant, PTL

\* Neither does a start get through serve.sh (124-331) in spite of a blocker that
\* readiness.sh has reported and that is not excused.
THEOREM BlockersAreReal == Spec => []BlockerIsReal
<1>1. ASSUME PreparationInv
      PROVE  BlockerIsReal
  <2>. SUFFICES ASSUME run.pc = "started", report.calm, NEW b \in report.blockers
                PROVE  Excused(b)
    BY DEF BlockerIsReal
  <2>t. TypeOK /\ launched # None /\ launched \in Launches
    BY <1>1 DEF PreparationInv, Started, TypeOK
  <2>1. Blocks(world, config.manifest, b)
    BY <1>1, Reported DEF PreparationInv, Current
  <2>2. /\ config.integrity = "strict" => world.tree = "intact"
        /\ config.force \/ Downloadable(TRUE, config.verify)
        /\ Accepted(launched.runtime)
        /\ GpusValid(world) /\ (config.profile = "dflash2" => DraftProven)
    BY <1>1 DEF PreparationInv, Checked
  <2>3. CASE b = "SOURCE_MANIFEST"
    BY <2>1, <2>2, <2>3 DEF Blocks, Excused
  <2>4. CASE b = "GPU_TOPOLOGY"
    <3>1. GpuTopologyFails(world)
      BY <2>1, <2>4 DEF Blocks
    <3>2. world.gpus \in Seq(Nat)
      BY <2>t DEF TypeOK, IsWorld
    <3>3. Len(world.gpus) > GpuRequiredCount
      BY <2>2, <3>1, <3>2, ReadinessAssumption DEF GpuTopologyFails, GpusValid
    <3>. QED BY <2>4, <3>3 DEF Excused
  <2>5. CASE b \in {"TARGET_MODEL_MISSING", "TARGET_IDENTITY"}
    <3>1. CASE config.force
      BY <2>5, <3>1 DEF Excused
    <3>2. CASE ~config.force
      <4>1. ModelFound(world.target) /\ ~ModelUnreadable(world.target)
        BY <2>2, <3>2 DEF Downloadable
      <4>2. /\ world.target[SelectRoot(world.target)].bytes # "other"
            /\ world.target[SelectRoot(world.target)].sums # "other"
        BY <2>2, <3>2 DEF Downloadable
      <4>3. ModelStatus(world.target) = "PRESENT"
        BY <4>1, <4>2 DEF ModelStatus
      <4>. QED BY <2>1, <2>5, <4>3 DEF Blocks
    <3>. QED BY <3>1, <3>2
  <2>6. CASE b = "DFLASH_MODEL_MISSING"
    <3>1. ModelStatus(world.draft) = "MISSING"
      BY <2>1, <2>6 DEF Blocks
    <3>2. ~ModelFound(world.draft)
      BY <3>1 DEF ModelStatus
    <3>3. config.profile = "baseline" \/ config.draftPath # None
      BY <2>t, <2>2, <3>2 DEF DraftProven, DraftMount, TypeOK, ConfigType
    <3>. QED BY <2>6, <3>3 DEF Excused
  <2>7. CASE b = "DFLASH_IDENTITY"
    <3>1. ModelStatus(world.draft) = "IDENTITY_FAIL"
      BY <2>1, <2>7 DEF Blocks
    <3>2. \/ world.draft[SelectRoot(world.draft)].bytes = "other"
          \/ world.draft[SelectRoot(world.draft)].sums = "other"
      BY <3>1 DEF ModelStatus
    <3>3. \/ config.profile = "baseline" \/ config.draftPath # None
          \/ world.draft[SelectRoot(world.draft)].sums = "other"
      BY <2>t, <2>2, <3>2 DEF DraftProven, DraftMount, TypeOK, ConfigType
    <3>. QED BY <2>7, <3>3 DEF Excused
  <2>8. CASE b = "RUNTIME_UNAVAILABLE"
    <3>1. ~RuntimeTrusted(world, config.manifest)
      BY <2>1, <2>8 DEF Blocks, RuntimeUntrusted
    <3>2. launched.runtime.kind = "local_build"
      BY <2>2, <3>1 DEF Accepted, FromTrusted
    <3>. QED BY <2>8, <3>2 DEF Excused
  <2>9. CASE b \notin {"SOURCE_MANIFEST", "GPU_TOPOLOGY", "DFLASH_MODEL_MISSING",
                       "DFLASH_IDENTITY", "RUNTIME_UNAVAILABLE", "TARGET_MODEL_MISSING",
                       "TARGET_IDENTITY"}
    BY <2>9 DEF Excused
  <2>. QED BY <2>3, <2>4, <2>5, <2>6, <2>7, <2>8, <2>9
<1>. QED BY <1>1, PreparationInvariant, PTL

\* To do what a report of this world advises first (readiness.py 532-555, 623-643)
\* takes its blocker away and brings no other, unless discovery cannot choose the
\* input that was attached.
THEOREM AdviceHelps == Spec => AdviceIsGood
<1>1. ASSUME PreparationInv, Heed, report.calm,
             \A a \in Assets : report.next = Attachment[a] => ~Crowded(world'[a])
      PROVE  report'.blockers \subseteq report.blockers /\ report'.blockers # report.blockers
  <2>1. /\ report = Report(world) /\ report.verdict = "FAIL"
        /\ world' = Heeded(report.next) /\ report' = Report(world') /\ config' = config
        /\ IsWorld(world) /\ config \in ConfigType
    BY <1>1 DEF Heed, PreparationInv, Current, TypeOK
  <2>2. PICK b : Blocks(world, config.manifest, b) /\ report.next = Advice[b]
    BY <2>1, AdviceHasBlocker
  <2>3. /\ \A c : Blocks(world', config.manifest, c) => Blocks(world, config.manifest, c)
        /\ ~Blocks(world', config.manifest, b)
    BY <1>1, <2>1, <2>2, HeedingHelps
  <2>4. \A c : c \in report.blockers <=> Blocks(world, config.manifest, c)
    BY <2>1, Reported
  <2>5. \A c : c \in report'.blockers <=> Blocks(world', config.manifest, c)
    <3>1. \A w : \A c : c \in Report(w).blockers <=> Blocks(w, config.manifest, c)
      BY Reported
    <3>. QED BY <2>1, <3>1
  <2>. QED BY <2>2, <2>3, <2>4, <2>5
<1>2. PreparationInv /\ [Next]_vars =>
        [Heed /\ report.calm =>
           \/ report'.blockers \subseteq report.blockers /\ report'.blockers # report.blockers
           \/ \E a \in Assets : report.next = Attachment[a] /\ Crowded(world'[a])]_vars
  BY <1>1
<1>. QED BY <1>2, PreparationInvariant, PTL DEF Spec, AdviceIsGood
=============================================================================
