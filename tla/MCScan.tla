------------------------------- MODULE MCScan -------------------------------
(***************************************************************************)
(* Three devices: a healthy one, one where a package tool fails and an     *)
(* admin directory cannot be read, and a bare one without the tools.       *)
(***************************************************************************)
EXTENDS SurfaceScan

MCIds == {"tools", "caps"}
MCNamespace == [i \in MCIds |-> "top"]
MCLayers == <<"linux">>
MCFile(def) == [root |-> 1, layer |-> "linux", subdir |-> "top", link |-> FALSE, def |-> def]
Path(atoms) == Text(TRUE, atoms, {})
MCInstalled ==
  {MCFile([BlankDef("tools") EXCEPT !.sudo = AppendList({Lit("lpr")}), !.groups = AppendList({Word("adm")})])}
MCSlice ==
  [BlankComp EXCEPT !.sudo = {Text(TRUE, <<"systemctl", "nginx">>, {})},
                    !.files = {[path |-> Path(<<"etc", "nginx">>), access |-> {"read", "traverse"}, recursive |-> TRUE]}]

Empty == {}
MCServiceName == [w \in {"nginx.service"} |-> "nginx"]
MCSystemctl == {"systemctl"}
MCVerbs == {"restart"}
MCSuggested == [w \in {"lpr"} |-> "tools"]
MCSecurityRelevant == {Path(<<"etc", "ssh">>)}
MCNonGrantable == {Path(<<"etc">>)}

Tool(name, state, out, success) ==
  [name |-> name, state |-> state, out |-> out, success |-> success, utf8 |-> TRUE]
MCTools ==
  [name : {"dpkg-query", "systemctl", "getcap", "dpkg"}, state : {"absent", "broken", "present"},
   out : 0..2, success : BOOLEAN, utf8 : BOOLEAN]
Line(key) == [good |-> TRUE, key |-> key]
Noise == [good |-> FALSE, key |-> Word("listed")]
Node(kind, dev, key, kids) ==
  [kind |-> kind, dev |-> dev, readable |-> TRUE, virtual |-> FALSE, key |-> Path(<<key>>), kids |-> kids]
BinEntry(w) == [path |-> Path(<<w>>), real |-> Lit(w), resolves |-> TRUE]

Healthy ==
  [bins |-> [d \in {"sbin", "usrsbin"} |->
               [readable |-> TRUE, entries |-> {BinEntry("lpr"), IF d = "sbin" THEN BinEntry("sudo") ELSE BinEntry("lpr")}]],
   tools |-> [t \in {"dpkg-query", "systemctl", "getcap", "dpkg"} |->
                IF t = "getcap" THEN Tool(t, "present", 1, TRUE) ELSE Tool(t, "present", 2, TRUE)],
   lists |-> [t \in {"dpkg-query", "systemctl", "getcap"} |->
                CASE t = "dpkg-query" -> <<Line(Path(<<"etc", "nginx", "conf">>)), Line(Path(<<"etc", "motd">>))>>
                  [] t = "systemctl" -> <<Line(Unit("nginx", TRUE)), Noise>>
                  [] t = "getcap" -> <<Line(Lit("ping"))>>],
   dropins |-> {Path(<<"etc", "ssh", "conf.d">>)},
   groups |-> [readable |-> TRUE, lines |-> <<Noise, Line(Word("adm"))>>],
   capdirs |-> TRUE,
   tree |-> [n \in {"root", "proc", "a", "nfs", "su", "up", "far"} |->
               CASE n = "root" -> Node("dir", 1, "root", {"proc", "a", "nfs", "up"})
                 [] n = "proc" -> [Node("dir", 1, "proc", {"far"}) EXCEPT !.virtual = TRUE]
                 [] n = "a" -> Node("dir", 1, "a", {"su"})
                 [] n = "nfs" -> Node("dir", 2, "nfs", {"far"})
                 [] n = "su" -> Node("suid", 1, "su", {})
                 [] n = "up" -> Node("suid", 1, "up", {})
                 [] n = "far" -> Node("suid", 2, "far", {})],
   owner |-> [k \in {Lit("lpr"), Lit("ping"), Path(<<"up">>)} |-> IF k = Lit("ping") THEN "addon" ELSE "vendor"]]

Sick ==
  [Healthy EXCEPT !.bins["sbin"].readable = FALSE,
                  !.bins["usrsbin"].entries = {[BinEntry("lpr") EXCEPT !.resolves = FALSE]},
                  !.tools["dpkg-query"].success = FALSE, !.tools["getcap"].utf8 = FALSE,
                  !.tools["systemctl"].state = "broken", !.tree["a"].readable = FALSE]
BareHost ==
  [Healthy EXCEPT !.bins = [d \in {"sbin"} |-> [readable |-> FALSE, entries |-> {}]],
                  !.tools = [t \in DOMAIN @ |-> [@[t] EXCEPT !.state = "absent"]],
                  !.groups.readable = FALSE, !.capdirs = FALSE, !.dropins = {}]
MCHosts == {Healthy, Sick, BareHost}
MCRequested ==
  {AllClasses, {"SudoBin", "Config", "Unit"}, {"Group", "CapFile"}, {"Unit", "CapFile", "Setuid"}, {"Config", "CapFile"}, {"Unit"}}
=============================================================================
