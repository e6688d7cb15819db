--------------------------- MODULE MCPreparation ---------------------------
(* The pinned inputs with one thing about them out of order, and some pairs. *)
EXTENDS Preparation, TLC

File(name, bytes, sums) == [name |-> name, bytes |-> bytes, sums |-> sums]
Good == File("exact", "canonical", "none")
Binaries(bins, manifest, source) ==
  [bins |-> bins, manifest |-> manifest, source |-> source, readable |-> TRUE]

Pinned ==
  [tree |-> "intact", smi |-> "ok", gpus |-> <<15, 15>>,
   target |-> "nested" :> Good, draft |-> "nested" :> Good,
   runtime |-> "owner1" :> Binaries("run", "canonical", "none"),
   door |-> [mode |-> "quick", token |-> "ok", cloudflared |-> TRUE,
             tunnelToken |-> TRUE, url |-> "clean"]]

Nothing == [m \in {} |-> None]

ModelAssets ==
  {"nested" :> File("exact", bytes, sums) :
     bytes \in {"canonical", "same_size", "other"}, sums \in {"none", "canonical", "other"}}
  \cup {Nothing,
        "nested" :> File("none", "other", "none"),
        "nested" :> File("single", "canonical", "canonical"),
        "nested" :> File("single", "same_size", "other"),
        "exact" :> File("exact", "canonical", "unreadable"),
        "owner1" :> Good @@ "owner2" :> Good,
        "owner1" :> File("exact", "same_size", "none") @@ "nested" :> Good}

RuntimeAssets ==
  {"owner1" :> Binaries(bins, manifest, source) :
     bins \in {"run", "need_copy", "broken"}, manifest \in {"canonical", "other"},
     source \in {"none", "pinned"}}
  \cup {"owner1" :> Binaries("none", "other", source) : source \in {"none", "pinned", "other"}}
  \cup {Nothing, "owner1" :> [Binaries("run", "canonical", "none") EXCEPT !.readable = FALSE]}

DoorsTried ==
  {[Pinned.door EXCEPT !.token = t] : t \in {"missing", "weak", "not_ascii"}}
  \cup {[Pinned.door EXCEPT !.cloudflared = FALSE, !.mode = m] : m \in {"quick", "proxy"}}
  \cup {[Pinned.door EXCEPT !.mode = "named", !.url = u, !.tunnelToken = t] :
          u \in {"slash", "bad"}, t \in BOOLEAN}

MCWorlds ==
  {[Pinned EXCEPT !.tree = t] : t \in {"intact", "changed", "no_manifest"}}
  \cup {[Pinned EXCEPT !.smi = s, !.gpus = << >>] : s \in {"absent", "broken"}}
  \cup {[Pinned EXCEPT !.gpus = g] : g \in {<<15>>, <<15, 8>>, <<15, 15, 8>>}}
  \cup {[Pinned EXCEPT !.target = a] : a \in ModelAssets}
  \cup {[Pinned EXCEPT !.draft = a] : a \in ModelAssets}
  \cup {[Pinned EXCEPT !.runtime = a] : a \in RuntimeAssets}
  \cup {[Pinned EXCEPT !.door = d] : d \in DoorsTried}

\* Where models and where datasets are mounted: README.md 168-176 has the former
\* deep down and the latter under their owners, but "may vary".
Layout(models, datasets) ==
  [a \in Assets |-> IF a = "runtime" THEN datasets ELSE models]

Default ==
  [integrity |-> "strict", source |-> "auto", copy |-> "auto", manifest |-> TRUE,
   verify |-> TRUE, force |-> FALSE, frozen |-> TRUE, draftPath |-> None,
   layout |-> Layout("nested", "owner1"), profile |-> "dflash2"]

MCConfigs ==
  {Default, [Default EXCEPT !.integrity = "off"], [Default EXCEPT !.source = "kaggle"],
   [Default EXCEPT !.source = "build"], [Default EXCEPT !.copy = "never"],
   [Default EXCEPT !.copy = "always"], [Default EXCEPT !.manifest = FALSE],
   [Default EXCEPT !.verify = FALSE], [Default EXCEPT !.force = TRUE],
   [Default EXCEPT !.force = TRUE, !.verify = FALSE], [Default EXCEPT !.frozen = FALSE],
   [Default EXCEPT !.draftPath = "owner2"],
   [Default EXCEPT !.profile = "baseline", !.integrity = "warn"]}
  \cup {[Default EXCEPT !.layout = Layout(m, d)] :
          m \in {"exact", "owner2"}, d \in {"exact", "nested"}}
=============================================================================
