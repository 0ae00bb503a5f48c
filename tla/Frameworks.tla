---------------------------- MODULE Frameworks ----------------------------
(***************************************************************************)
(* The compliance cross-reference (framework.rs), whose controls the texts *)
(* of L10n label: loading the installed framework directories, the forward *)
(* and reverse indices, the lint, and the reports.                         *)
(*                                                                         *)
(* A framework directory is [root, id, link, dimension, provides, files,   *)
(* bad, controls, texts]: files is a sequence of [layer, map, broken] with *)
(* map from permission ids to the control ids per polarity, bad names the  *)
(* manifest or controls file when that one does not parse, controls is a   *)
(* function from control ids to "owned?" and texts is a sequence of text   *)
(* files [locale, map, broken].                                            *)
(***************************************************************************)
EXTENDS L10n

CONSTANTS FwLayers   \* OsTarget::layer_names, most general first

Polarities == {"satisfies", "risk", "related"}
NoControls == [p \in Polarities |-> {}]
KnownProvides == {"crossref", "controls"}
Dimensions == {"flat", "os-layered"}

(***************************************************************************)
(* Loading.                                                                *)
(***************************************************************************)
MergeMappings(into, map) ==
  [p \in DOMAIN into \cup DOMAIN map |->
     [q \in Polarities |-> (IF p \in DOMAIN into THEN into[p][q] ELSE {})
                           \cup (IF p \in DOMAIN map THEN map[p][q] ELSE {})]]

\* The files of a framework that apply to this device, in load order.
MappingFiles(d) ==
  IF d.dimension = "flat" THEN SelectSeq(d.files, LAMBDA f : f.layer = "none")
  ELSE FlattenSeq([i \in DOMAIN FwLayers |-> SelectSeq(d.files, LAMBDA f : f.layer = FwLayers[i])])

LoadError(e) == [ok |-> FALSE, err |-> e]
NoFrameworks == [ok |-> TRUE, frameworks |-> <<>>, forward |-> <<>>, controls |-> <<>>,
                 texts |-> <<>>, mappings |-> {}, warnings |-> {}]
Put(f, k, v) == [x \in DOMAIN f \cup {k} |-> IF x = k THEN v ELSE f[x]]
Get(f, k, default) == IF k \in DOMAIN f THEN f[k] ELSE default

\* What the files of a framework map, and the entry of each one in the index.
Mapped(d) == FoldLeft(LAMBDA m, f : MergeMappings(m, f.map), <<>>, MappingFiles(d))
Entries(d) == UNION {{<<d.id, p, f.layer, f.map[p]>> : p \in DOMAIN f.map} : f \in Range(MappingFiles(d))}
Forward(forward, id, map) ==
  [p \in DOMAIN forward \cup DOMAIN map |->
     IF p \in DOMAIN map THEN Put(Get(forward, p, <<>>), id, map[p]) ELSE forward[p]]
Installed(out, d) ==
  [out EXCEPT !.frameworks = Put(@, d.id, d.provides),
              !.forward = Forward(@, d.id, Mapped(d)),
              !.mappings = @ \cup Entries(d),
              !.controls = IF d.controls = <<>> THEN @ ELSE Put(@, d.id, d.controls),
              !.texts = Put(@, d.id, d.texts)]

\* A framework this build does not know how to read.
Unsupported(d) == d.dimension \notin Dimensions \/ ~(d.provides \subseteq KnownProvides)
BadFiles(d) == d.bad = "controls" \/ \E f \in Range(MappingFiles(d)) : f.broken

\* Mutant: a second framework of the same id replaces the first.
LoadOneFramework_Override(out, d) == IF ~out.ok \/ d.link \/ Unsupported(d) THEN out ELSE Installed(out, d)

LoadOneFramework(out, d) ==
  CASE ~out.ok \/ d.link -> out
    [] out.ok /\ ~d.link /\ d.bad = "manifest" -> LoadError("TomlParse")
    [] out.ok /\ ~d.link /\ d.bad # "manifest" /\ Unsupported(d) ->
         [out EXCEPT !.warnings = @ \cup {<<"skipped", d.id, d.root>>}]
    [] OTHER ->
         IF d.id \in DOMAIN out.frameworks THEN LoadError("IdCollision")
         ELSE IF BadFiles(d) THEN LoadError("TomlParse")
         ELSE Installed(out, d)

\* load_frameworks: the directories of each root in name order, lowest root first.
LoadFrameworks(dirs) ==
  LET loaded[k \in 0..Len(dirs)] == IF k = 0 THEN NoFrameworks ELSE LoadOneFramework(loaded[k - 1], dirs[k])
  IN loaded[Len(dirs)]

ControlsFor(loaded, perm, fw) == Get(Get(loaded.forward, perm, <<>>), fw, NoControls)

\* invert_forward: the permissions behind a control, by polarity.
InvertForward(loaded, polarity, fw) ==
  LET controls == UNION {ControlsFor(loaded, p, fw)[polarity] : p \in DOMAIN loaded.forward}
  IN [c \in controls |-> {p \in DOMAIN loaded.forward : c \in ControlsFor(loaded, p, fw)[polarity]}]

(***************************************************************************)
(* Lint and reports.                                                       *)
(***************************************************************************)
Defined(loaded, fw) == DOMAIN Get(loaded.controls, fw, <<>>)
Finding(code, severity, what) == [code |-> code, severity |-> severity, what |-> what]

\* A mapping of a permission the catalog does not have.
OrphanedMappings(loaded, known) ==
  UNION {{Finding("orphaned-mapping", "warning", <<fw, p>>) : fw \in DOMAIN loaded.forward[p]} :
           p \in DOMAIN loaded.forward \ known}

\* A framework that says it provides controls and defines none, or the reverse.
ProvidesDesync(loaded) ==
  {Finding("provides-desync", "warning", <<fw>>) :
     fw \in {g \in DOMAIN loaded.frameworks :
              ("controls" \in loaded.frameworks[g]) # (Defined(loaded, g) # {})}}

\* A mapping to a control its framework does not define.
UnknownControls(loaded) ==
  LET used(fw) == UNION {DOMAIN InvertForward(loaded, q, fw) : q \in Polarities}
  IN UNION {{Finding("mapping-unknown-control", "warning", <<fw, c>>) :
               c \in IF Defined(loaded, fw) = {} THEN {} ELSE used(fw) \ Defined(loaded, fw)} :
              fw \in DOMAIN loaded.frameworks}

\* A permission that both satisfies and endangers a control.
SatisfiesAndRisks(loaded, perm, fw) ==
  ControlsFor(loaded, perm, fw)["satisfies"] \cap ControlsFor(loaded, perm, fw)["risk"]
RiskConflicts(loaded) ==
  UNION {{Finding("satisfies-risk-conflict", "error", <<x[2], x[1], c>>) : c \in SatisfiesAndRisks(loaded, x[1], x[2])} :
           x \in (DOMAIN loaded.forward) \X (DOMAIN loaded.frameworks)}

LintLoaded(loaded, known) ==
  OrphanedMappings(loaded, known) \cup ProvidesDesync(loaded) \cup UnknownControls(loaded) \cup RiskConflicts(loaded)

\* Mutant: a title missing in one locale is enough.
ControlsMissingTitle_Any(texts, ids) ==
  {id \in ids : \E l \in AvailableLocales(texts) \cup {DefaultLocale} :
                  <<l, id>> \in MissingTranslations(texts, {l}, ids)}

ControlsMissingTitle(texts, ids) ==
  {id \in ids : \A l \in AvailableLocales(texts) \cup {DefaultLocale} :
                  <<l, id>> \in MissingTranslations(texts, {l}, ids)}

\* run_framework_lint: a collision is a finding, any other load error ends it.
RunFrameworkLint(dirs, known) ==
  LET loaded == LoadFrameworks(dirs)
      titles == UNION {{Finding("control-missing-title", "warning", <<fw, c>>) :
                          c \in ControlsMissingTitle(loaded.texts[fw], Defined(loaded, fw))} :
                         fw \in DOMAIN loaded.frameworks}
      findings == IF loaded.ok THEN LintLoaded(loaded, known) \cup titles
                  ELSE {Finding("id-collision", "error", <<>>)}
  IN IF ~loaded.ok /\ loaded.err # "IdCollision" THEN [exit |-> "failure", findings |-> {}]
     ELSE [exit |-> IF \E f \in findings : f.severity = "error" THEN "failure" ELSE "success",
           findings |-> findings]

\* compute_framework_coverage, and the counts of framework show over it.
FrameworkCoverage(loaded, fw) ==
  LET defs == Get(loaded.controls, fw, <<>>)
      satisfied == DOMAIN InvertForward(loaded, "satisfies", fw)
      owned == {c \in DOMAIN defs : defs[c]}
  IN [covered |-> owned \cap satisfied, gap |-> owned \ satisfied, out_of_domain |-> DOMAIN defs \ owned]

OwnedCoverageStats(loaded, fw) ==
  LET c == FrameworkCoverage(loaded, fw)
  IN [total |-> Cardinality(c.covered \cup c.gap), covered |-> Cardinality(c.covered),
      uncovered |-> Cardinality(c.covered \cup c.gap) - Cardinality(c.covered)]

FrameworkRisk(loaded, fw) == InvertForward(loaded, "risk", fw)
=============================================================================
