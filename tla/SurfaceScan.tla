---------------------------- MODULE SurfaceScan ----------------------------
(***************************************************************************)
(* `census catalog coverage` over a live device (LiveSurface::scan and     *)
(* run_coverage): the classes are enumerated one after the other, three of *)
(* them through an external tool (module Capture), the setuid files by a   *)
(* walk, the owners of what was found by `dpkg -S` in batches; then the    *)
(* report is made and the gate decides.                                    *)
(*                                                                         *)
(* A host is [bins, tools, lists, dropins, groups, capdirs, tree, owner]:  *)
(*   bins[d]  = [readable, entries], an entry [path, real, resolves]       *)
(*   tools[t] = a record of ToolCall; lists[t] = the lines it has to print *)
(*   groups   = [readable, lines];  capdirs = is there a directory to scan *)
(*   tree[n]  = [kind, dev, readable, virtual, key, kids]                  *)
(*   owner    = the class of the package that owns a path, by path         *)
(* A line is [good, key]: one the parser takes, or one it skips.           *)
(***************************************************************************)
EXTENDS Coverage, Capture

CONSTANTS Hosts,       \* the devices
          Root,        \* the node where the walk starts
          Chunk,       \* DPKG_SEARCH_CHUNK
          Requested,   \* the choices of --class
          Installed,   \* the catalog
          Slice,       \* the composition of the role slice
          MinCoverage

ListTools == {"dpkg-query", "systemctl", "getcap"}

\* A device is finite, a tool has as many lines to print as there are, and `dpkg`
\* may be asked about any batch.
HostOK(h) ==
  /\ h.tools \in [ListTools \cup {"dpkg"} -> Tools]
  /\ \A t \in ListTools : h.tools[t].out = Len(h.lists[t])
  /\ \A n \in 0..Chunk, s \in BOOLEAN : [h.tools["dpkg"] EXCEPT !.out = n, !.success = s] \in Tools
  /\ Len(h.groups.lines) \in Nat /\ IsFiniteSet(h.dropins)
  /\ IsFiniteSet(DOMAIN h.bins) /\ \A d \in DOMAIN h.bins : IsFiniteSet(h.bins[d].entries)
  /\ Root \in DOMAIN h.tree /\ h.tree[Root].kind = "dir"
  /\ \A n \in DOMAIN h.tree : h.tree[n].kind # "dir" => h.tree[n].kids = {}
  /\ \A n \in DOMAIN h.tree : h.tree[n].kids \subseteq DOMAIN h.tree /\ IsFiniteSet(h.tree[n].kids)

ASSUME ScanAssumption == Chunk \in Nat /\ \A h \in Hosts : HostOK(h)

VARIABLES host, classes,
          step,        \* the class being scanned, then Provenance, Report, End
          asked,       \* a tool has been called and not yet answered
          objects, degraded,
          stack,       \* directories the walk has still to read
          lookup,      \* resolve_provenance has begun
          paths,       \* paths still to look up
          known,       \* paths whose owner has been read
          silent,      \* owned paths whose batch was not answered for them (history)
          exit

scanVars == <<host, classes, step, asked, objects, degraded, stack, lookup, paths, known, silent, exit>>
allVars == <<scanVars, capVars>>

After ==
  [s \in AllClasses \cup {"Provenance", "Report"} |->
     CASE s = "SudoBin" -> "Config" [] s = "Config" -> "Unit" [] s = "Unit" -> "Group"
       [] s = "Group" -> "CapFile" [] s = "CapFile" -> "Setuid" [] s = "Setuid" -> "Provenance"
       [] s = "Provenance" -> "Report" [] s = "Report" -> "End"]

ToolOf == [c \in {"Config", "Unit", "CapFile", "Provenance"} |->
             CASE c = "Config" -> "dpkg-query" [] c = "Unit" -> "systemctl"
               [] c = "CapFile" -> "getcap" [] c = "Provenance" -> "dpkg"]

\* parse_dpkg_conffiles, parse_systemctl_units, parse_etc_group, parse_getcap:
\* a line the parser cannot read names no object.
Parse(lines, n) == {lines[i].key : i \in {j \in 1..n : lines[j].good}}

Found(class, keys) == {Object(class, k, "orphan") : k \in keys}

Init ==
  /\ host \in Hosts /\ classes \in Requested
  /\ step = "SudoBin" /\ asked = FALSE
  /\ objects = {} /\ degraded = {}
  /\ stack = <<Root>> /\ lookup = FALSE /\ paths = {} /\ known = {} /\ silent = {} /\ exit = "none"
  /\ CaptureInit /\ request = [tool |-> host.tools["dpkg"], partial |-> FALSE]

Abort == exit' = "failure" /\ step' = "End"
Go(next) == step' = next /\ UNCHANGED exit

\* A class that was not asked for.
Skip ==
  /\ step \in AllClasses \ classes
  /\ Go(After[step])
  /\ UNCHANGED <<host, classes, asked, objects, degraded, stack, lookup, paths, known, silent, capVars>>

\* scan_sudo_bins: a directory that cannot be read is passed over, unless all are.
ScanSudoBins ==
  /\ step = "SudoBin" /\ step \in classes
  /\ LET dirs == {d \in DOMAIN host.bins : host.bins[d].readable}
         keys == UNION {{IF e.resolves THEN e.real ELSE e.path : e \in host.bins[d].entries} : d \in dirs}
     IN IF dirs = {}
        THEN Abort /\ UNCHANGED objects
        ELSE Go(After[step]) /\ objects' = objects \cup Found("SudoBin", keys)
  /\ UNCHANGED <<host, classes, asked, degraded, stack, lookup, paths, known, silent, capVars>>

AskTool ==
  /\ step \in {"Config", "Unit", "CapFile"} \cap classes /\ ~asked
  /\ step = "CapFile" => host.capdirs
  /\ Call([tool |-> host.tools[ToolOf[step]], partial |-> FALSE])
  /\ asked' = TRUE
  /\ UNCHANGED <<host, classes, step, objects, degraded, stack, lookup, paths, known, silent, exit>>

\* Mutant: a tool that fails is taken for one that is not installed.
TakeTool_Lenient ==
  /\ asked /\ at = "done" /\ step \in {"Config", "Unit", "CapFile"}
  /\ LET listed == IF result.kind = "ok" THEN Parse(host.lists[ToolOf[step]], result.lines) ELSE {}
         dropins == IF step = "Config" THEN host.dropins ELSE {}
     IN objects' = objects \cup Found(step, listed \cup dropins)
  /\ UNCHANGED degraded
  /\ asked' = FALSE /\ Go(After[step])
  /\ UNCHANGED <<host, classes, stack, lookup, paths, known, silent, capVars>>

\* scan_configs, scan_units, scan_capfiles: what the answer is turned into.
TakeTool ==
  /\ asked /\ at = "done" /\ step \in {"Config", "Unit", "CapFile"}
  /\ LET listed == IF result.kind = "ok" THEN Parse(host.lists[ToolOf[step]], result.lines) ELSE {}
         dropins == IF step = "Config" THEN host.dropins ELSE {}
     IN objects' = objects \cup Found(step, listed \cup dropins)
  /\ degraded' = IF result.kind = "degraded" THEN degraded \cup {step} ELSE degraded
  /\ asked' = FALSE /\ Go(After[step])
  /\ UNCHANGED <<host, classes, stack, lookup, paths, known, silent, capVars>>

\* No standard binary directory: getcap is not run.
NoCapDirs ==
  /\ step = "CapFile" /\ step \in classes /\ ~host.capdirs
  /\ Go(After[step])
  /\ UNCHANGED <<host, classes, asked, objects, degraded, stack, lookup, paths, known, silent, capVars>>

ScanGroups ==
  /\ step = "Group" /\ step \in classes
  /\ IF host.groups.readable
     THEN Go(After[step]) /\ objects' = objects \cup Found("Group", Parse(host.groups.lines, Len(host.groups.lines)))
     ELSE Abort /\ UNCHANGED objects
  /\ UNCHANGED <<host, classes, asked, degraded, stack, lookup, paths, known, silent, capVars>>

\* Mutant: an unreadable or virtual directory ends the walk.
WalkDir_Stop ==
  /\ step = "Setuid" /\ step \in classes /\ stack # <<>>
  /\ LET n == host.tree[Last(stack)]
         kids == {k \in n.kids : host.tree[k].dev = host.tree[Root].dev}
     IN IF n.virtual \/ ~n.readable
        THEN stack' = <<>> /\ UNCHANGED objects
        ELSE /\ stack' = Front(stack) \o SetToSeq({k \in kids : host.tree[k].kind = "dir"})
             /\ objects' = objects \cup Found("Setuid", {host.tree[k].key : k \in {j \in kids : host.tree[j].kind = "suid"}})
  /\ UNCHANGED <<host, classes, step, asked, degraded, lookup, paths, known, silent, exit, capVars>>

\* scan_setuid, one directory: virtual and unreadable ones are passed over, and
\* nothing on another device is looked at.
WalkDir ==
  /\ step = "Setuid" /\ step \in classes /\ stack # <<>>
  /\ LET n == host.tree[Last(stack)]
         kids == {k \in n.kids : host.tree[k].dev = host.tree[Root].dev}
     IN IF n.virtual \/ ~n.readable
        THEN stack' = Front(stack) /\ UNCHANGED objects
        ELSE /\ stack' = Front(stack) \o SetToSeq({k \in kids : host.tree[k].kind = "dir"})
             /\ objects' = objects \cup Found("Setuid", {host.tree[k].key : k \in {j \in kids : host.tree[j].kind = "suid"}})
  /\ UNCHANGED <<host, classes, step, asked, degraded, lookup, paths, known, silent, exit, capVars>>

WalkEnds ==
  /\ step = "Setuid" /\ step \in classes /\ stack = <<>>
  /\ Go(After[step])
  /\ UNCHANGED <<host, classes, asked, objects, degraded, stack, lookup, paths, known, silent, capVars>>

\* resolve_provenance: the paths of what was found, in lookup, paths of Chunk.
StartOwners ==
  /\ step = "Provenance" /\ ~lookup
  /\ paths' = {o.key : o \in {p \in objects : p.key.abs}}
  /\ lookup' = TRUE
  /\ UNCHANGED <<host, classes, step, asked, objects, degraded, stack, known, silent, exit, capVars>>

Batch ==
  CHOOSE b \in SUBSET paths : Cardinality(b) = IF Cardinality(paths) < Chunk THEN Cardinality(paths) ELSE Chunk
Owned == SetToSeq(Batch \cap DOMAIN host.owner)
AskOwners ==
  /\ step = "Provenance" /\ lookup /\ paths # {} /\ ~asked
  /\ Call([tool |-> [host.tools["dpkg"] EXCEPT !.out = Len(Owned), !.success = Len(Owned) = Cardinality(Batch)],
           partial |-> TRUE])
  /\ asked' = TRUE
  /\ UNCHANGED <<host, classes, step, objects, degraded, stack, lookup, paths, known, silent, exit>>

\* Mutant: the first batch that fails ends the pass.
TakeOwners_Break ==
  /\ asked /\ at = "done" /\ step = "Provenance"
  /\ LET read == IF result.kind = "ok" THEN result.lines ELSE 0
     IN /\ known' = known \cup {Owned[i] : i \in 1..read}
        /\ silent' = silent \cup {Owned[i] : i \in (read + 1)..Len(Owned)}
  /\ asked' = FALSE
  /\ paths' = IF result.kind = "ok" THEN paths \ Batch ELSE {}
  /\ UNCHANGED <<host, classes, step, objects, degraded, stack, lookup, exit, capVars>>

\* The answer to a batch; an unanswered one leaves its own paths unowned.
TakeOwners ==
  /\ asked /\ at = "done" /\ step = "Provenance"
  /\ LET read == IF result.kind = "ok" THEN result.lines ELSE 0
     IN /\ known' = known \cup {Owned[i] : i \in 1..read}
        /\ silent' = silent \cup {Owned[i] : i \in (read + 1)..Len(Owned)}
  /\ asked' = FALSE
  /\ paths' = paths \ Batch
  /\ UNCHANGED <<host, classes, step, objects, degraded, stack, lookup, exit, capVars>>

\* merge_dpkg_owners and classify_owner: what is known goes into the objects.
OwnersRead ==
  /\ step = "Provenance" /\ lookup /\ paths = {} /\ ~asked
  /\ objects' = {IF o.key \in known THEN [o EXCEPT !.prov = host.owner[o.key]] ELSE o : o \in objects}
  /\ Go(After[step])
  /\ UNCHANGED <<host, classes, asked, degraded, stack, lookup, paths, known, silent, capVars>>

Granted == BuildCoveredSet(Installed, {ResolveRole(Installed, Slice)}, [strict |-> TRUE, bound |-> {}])

\* run_coverage: the report and the gate.
Report ==
  /\ step = "Report"
  /\ step' = "End"
  /\ \E c \in {Granted} : exit' = CoverageExit(ReportOn(objects, c, FALSE), MinCoverage, degraded # {})
  /\ UNCHANGED <<host, classes, asked, objects, degraded, stack, lookup, paths, known, silent, capVars>>

Scan == \/ Skip \/ ScanSudoBins \/ AskTool \/ TakeTool \/ NoCapDirs \/ ScanGroups
        \/ WalkDir \/ WalkEnds \/ StartOwners \/ AskOwners \/ TakeOwners \/ OwnersRead \/ Report
Running == CaptureStep /\ UNCHANGED scanVars

Next == Scan \/ Running

\* Census and its thread keep running and the kernel carries out a kill; the
\* tool itself owes nothing.
Fairness ==
  /\ WF_allVars(Scan)
  /\ WF_allVars((Spawn \/ Poll \/ Kill \/ Wait \/ JoinKilled \/ Join) /\ UNCHANGED scanVars)
  /\ WF_allVars((ReaderDrain \/ ReaderEof) /\ UNCHANGED scanVars)
  /\ WF_allVars(Die /\ UNCHANGED scanVars)

Spec == Init /\ [][Next]_allVars /\ Fairness

(***************************************************************************)
(* Properties.                                                             *)
(***************************************************************************)
\* What the device holds, class by class; a tool that is not installed has
\* nothing to list.
Listing(t) == IF host.tools[t].state = "absent" THEN {} ELSE Parse(host.lists[t], Len(host.lists[t]))
AdminBins(dirs) == UNION {{IF e.resolves THEN e.real ELSE e.path : e \in host.bins[d].entries} : d \in dirs}
Holds(dirs) ==
  [c \in GrantClasses |->
     CASE c = "SudoBin" -> AdminBins(dirs)
       [] c = "Config" -> Listing("dpkg-query") \cup host.dropins
       [] c = "Unit" -> Listing("systemctl")
       [] c = "Group" -> Parse(host.groups.lines, Len(host.groups.lines))
       [] c = "CapFile" -> IF host.capdirs THEN Listing("getcap") ELSE {}]
TrueSurface(dirs) == UNION {Found(c, Holds(dirs)[c]) : c \in GrantClasses \cap classes}

\* A passing gate means that the device, not the part of it that was read, meets
\* the threshold: a tool that fails, hangs or is cut off never shrinks the surface
\* unseen (coverage.rs:108).  Admin directories that cannot be read are left out
\* of this statement: the scan passes over them.
GateSound ==
  exit = "success" =>
    LET dirs == {d \in DOMAIN host.bins : host.bins[d].readable}
        seen == {[o EXCEPT !.prov = "orphan"] : o \in objects}
    IN /\ TrueSurface(dirs) \subseteq seen
       /\ \A c \in {Granted} : ~WeightedBelow(ReportOn(TrueSurface(dirs), c, FALSE), MinCoverage)

\* The walk finds every setuid file that lies under readable directories of the
\* root device outside the virtual ones, and no other (coverage.rs:1794).  What
\* lies under a node is in every set that has the node and, with each directory
\* that can be walked, what that directory holds on the device.
Open(n) == host.tree[n].readable /\ ~host.tree[n].virtual
OnDevice(n) == {k \in host.tree[n].kids : host.tree[k].dev = host.tree[Root].dev}
Closed(S) == \A n \in S : Open(n) => OnDevice(n) \subseteq S
Under(n) ==
  LET closed == {S \in SUBSET DOMAIN host.tree : n \in S /\ Closed(S)}
  IN {k \in DOMAIN host.tree : \A S \in closed : k \in S}
SuidIn(S) == {host.tree[k].key : k \in {j \in S : host.tree[j].kind = "suid"}}
WalkExact ==
  step \in {"Provenance", "Report"} /\ "Setuid" \in classes =>
    {o.key : o \in {p \in objects : p.class = "Setuid"}} = SuidIn(Under(Root))

\* A path that a package owns is reported without an owner only if dpkg did not
\* answer for it: a batch that fails takes no other batch with it (coverage.rs:1857).
OwnersKept ==
  step \in {"Report", "End"} /\ exit # "failure" =>
    \A o \in objects : o.key.abs /\ o.key \in DOMAIN host.owner =>
      o.prov = (IF o.key \in known THEN host.owner[o.key] ELSE "orphan") /\ o.key \in known \cup silent

\* The audit ends, whatever the tools do (coverage.rs:1976, a hung tool does not
\* stall it).
ScanEnds == <>(step = "End")
=============================================================================
