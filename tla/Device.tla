------------------------------- MODULE Device -------------------------------
(***************************************************************************)
(* The commands that only read the device: the audits of Audit and the     *)
(* framework cross-reference commands (cli/framework.rs), one process at a *)
(* time.  A framework command line is [what, sub, dirs, fw, known, env]:   *)
(* the framework directories it finds in load order, the framework it      *)
(* names, the permission ids of the catalog and the locale settings.       *)
(***************************************************************************)
EXTENDS Audit, Frameworks

CONSTANTS FrameworkCalls   \* the framework command lines

\* No title of a control spells just the id of that control.
TitlesAreWords(loaded) ==
    \A fw \in DOMAIN loaded.frameworks : \A c \in Defined(loaded, fw) :
      \A l \in AvailableLocales(loaded.texts[fw]) \cup {DefaultLocale} :
        LET m == LoadLocale(loaded.texts[fw], l)
        IN c \in DOMAIN m /\ "title" \in DOMAIN m[c] => m[c]["title"] # c

ASSUME DeviceAssumption ==
    /\ \A o \in Invocations : o.what # "framework"
    /\ \A c \in FrameworkCalls :
         /\ c = [what |-> c.what, sub |-> c.sub, dirs |-> c.dirs, fw |-> c.fw, known |-> c.known, env |-> c.env]
         /\ c.dirs \in Seq(Range(c.dirs))
    /\ \A c \in FrameworkCalls : LoadFrameworks(c.dirs).ok => TitlesAreWords(LoadFrameworks(c.dirs))

Refused == [exit |-> "failure", findings |-> {}]

\* resolve_control_title for the locale asked for.
ControlTitle(loaded, fw, c, lang) == ResolveText(loaded.texts[fw], lang, c).title

\* framework show: every defined control, whether it is owned and covered, and
\* its title; and how many of the owned ones are covered.
FrameworkShow(loaded, fw, lang) ==
    LET defs == Get(loaded.controls, fw, <<>>)
        satisfied == DOMAIN InvertForward(loaded, "satisfies", fw)
    IN {[controls |-> {[id |-> c, owned |-> defs[c], covered |-> c \in satisfied,
                        title |-> ControlTitle(loaded, fw, c, lang)] : c \in DOMAIN defs},
         stats |-> OwnedCoverageStats(loaded, fw)]}

\* framework risk: a control without a definition keeps its bare id.
FrameworkRiskView(loaded, fw, lang) ==
    {[id |-> c, by |-> FrameworkRisk(loaded, fw)[c],
      title |-> IF c \in Defined(loaded, fw) THEN ControlTitle(loaded, fw, c, lang) ELSE c] :
       c \in DOMAIN FrameworkRisk(loaded, fw)}

RunFramework(c) ==
    LET loaded == LoadFrameworks(c.dirs)
        report == CASE c.sub = "list" -> DOMAIN loaded.frameworks
                    [] c.sub = "show" -> FrameworkShow(loaded, c.fw, LangFromEnv(c.env))
                    [] c.sub = "coverage" -> {FrameworkCoverage(loaded, c.fw)}
                    [] c.sub = "risk" -> FrameworkRiskView(loaded, c.fw, LangFromEnv(c.env))
    IN CASE c.sub = "lint" -> RunFrameworkLint(c.dirs, c.known)
         [] c.sub # "lint" /\ ~loaded.ok -> Refused
         [] OTHER -> IF c.sub # "list" /\ c.fw \notin DOMAIN loaded.frameworks THEN Refused
                     ELSE [exit |-> "success", findings |-> report]

FrameworkCommand(c) ==
    /\ at = "start"
    /\ at' = "done" /\ cmd' = c
    /\ out' = RunFramework(c)
    /\ UNCHANGED <<fs, swaps, walk, index, unread>>

DeviceNext == AuditNext \/ \E c \in FrameworkCalls : FrameworkCommand(c)
DeviceSpec == AuditInit /\ [][DeviceNext]_auditVars

-----------------------------------------------------------------------------
(* Properties.                                                             *)

AfterFramework == at = "done" /\ cmd.what = "framework"

\* Which root a framework directory lies in, and where its name sorts, has no
\* influence on what the commands know: in any order the same directories load
\* or are refused together, and every command reports the same.  A framework
\* installed twice is never resolved by picking one (load_one_framework's
\* IdCollision), unlike a permission.
FrameworksOrderFree ==
    AfterFramework =>
      LET loaded == LoadFrameworks(cmd.dirs)
      IN \A p \in Bijection(DOMAIN cmd.dirs, DOMAIN cmd.dirs) :
           LET other == [cmd EXCEPT !.dirs = [i \in DOMAIN @ |-> @[p[i]]]]
           IN /\ LoadFrameworks(other.dirs).ok = loaded.ok
              /\ loaded.ok => RunFramework(other) = out

\* The lint reports a control as untitled exactly when no display locale the
\* framework ships, nor the fallback, can show anything but its bare id
\* (controls_missing_title against resolve_text).
TitleLintExact ==
    AfterFramework /\ LoadFrameworks(cmd.dirs).ok =>
      LET loaded == LoadFrameworks(cmd.dirs)
          untitled == {f.what : f \in {g \in RunFrameworkLint(cmd.dirs, cmd.known).findings :
                                         g.code = "control-missing-title"}}
      IN \A fw \in DOMAIN loaded.frameworks : \A c \in Defined(loaded, fw) :
           <<fw, c>> \in untitled
             <=> \A l \in AvailableLocales(loaded.texts[fw]) \cup {DefaultLocale} :
                    ControlTitle(loaded, fw, c, l) = c
=============================================================================
