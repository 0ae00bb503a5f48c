----------------------------- MODULE MCLibrary -----------------------------
(***************************************************************************)
(* A small catalog: two roots, two layers, two leaves with and without a   *)
(* label, a leaf with a parameter, and a bundle in several forms.          *)
(***************************************************************************)
EXTENDS Library

MCParams == {"u", "a"}
MCIds == {"svc", "logs", "shell", "ops"}
MCNamespace == [i \in MCIds |-> IF i = "shell" THEN "tools" ELSE "top"]
MCLayers == <<"linux", "linux-debian">>
MCNames == {"app"}

Path(atoms) == Text(TRUE, atoms, {})
Dir(atoms) == [Path(atoms) EXCEPT !.slash = TRUE]
nginx == Word("nginx")
bad == Text(FALSE, <<"u">>, {"meta"})
inst == Text(FALSE, <<"inst">>, {"at"})
up == Text(FALSE, <<"..">>, {})
MCValues == {nginx, bad, inst, up}

MCRootEquivalent == {Path(<<"etc", "ssh">>), Path(<<"bin">>)}
MCSecretPaths == {Path(<<"etc", "shadow">>)}
MCHostKeyDir == Path(<<"etc", "ssh">>)
MCHostKeyNames == {"ssh_host_key"}
MCShellSpawners == {"bash", "systemctl"}

token == Constraint("token", {}, {}, "unset", NoBound)
segment == Constraint("segment", {}, {}, "unset", NoBound)
token256 == Constraint("token", {}, {}, "unset", DefaultMaxLen)
Param(p, c) == [n \in {p} |-> c]

File(root, layer, def) ==
  [root |-> root, layer |-> layer, subdir |-> MCNamespace[def.id], link |-> FALSE, def |-> def]
Restart(w) == Text(TRUE, <<"systemctl", w>>, {})
bash == Lit("bash")

svc == [BlankDef("svc") EXCEPT !.sudo = AppendList({Restart("u")}), !.risk = "contained",
          !.params = Param("u", segment), !.runas = "app",
          !.files = {Grant(Text(TRUE, <<"etc", "u">>, {}), {"read"}, FALSE)}]
svcSite == [svc EXCEPT !.sudo = ReplaceList({Restart("all")}), !.params = Param("u", token)]
logs == [BlankDef("logs") EXCEPT !.groups = AppendList({Word("adm")}), !.risk = "contained",
           !.files = {Grant(Path(<<"var", "log">>), {"read", "traverse"}, TRUE)},
           !.limits = [nofile |-> 5, nproc |-> NoLimit]]
logsDebian == [BlankDef("logs") EXCEPT !.replace = TRUE, !.sudo = ReplaceList({bash}), !.runas = "app",
                 !.files = {Grant(Path(<<"etc">>), {"write"}, FALSE)}]
logsLoop == [BlankDef("logs") EXCEPT !.includes = <<Bare("ops")>>]
shell == [BlankDef("shell") EXCEPT !.sudo = AppendList({bash, Text(TRUE, <<"cat", "nginx">>, {})}), !.category = "tools"]
shellDebian == [BlankDef("shell") EXCEPT !.risk = "contained", !.runas = "app"]
opsBare == [BlankDef("ops") EXCEPT !.includes = <<Bare("logs"), Bare("shell")>>,
              !.sudo = AppendList({Lit("lpr")})]
opsLow == [BlankDef("ops") EXCEPT !.risk = "contained", !.cats = <<"tools">>]
opsBound == [BlankDef("ops") EXCEPT !.params = Param("a", token256), !.risk = "contained",
               !.includes = <<[id |-> "svc", bindings |-> [n \in {"u"} |-> Text(FALSE, <<"a">>, {})]], Bare("logs")>>]
opsLiteral == [BlankDef("ops") EXCEPT !.includes = <<[id |-> "svc", bindings |-> [n \in {"u"} |-> nginx]]>>]

MCDrafts ==
  {File(1, "linux", svc), File(2, "linux", svcSite), File(1, "linux", logs),
   File(1, "linux-debian", logsDebian), File(1, "linux-debian", logsLoop),
   File(1, "linux", shell), File(1, "linux-debian", shellDebian),
   File(1, "linux", opsBare), File(1, "linux-debian", opsLow), File(2, "linux-debian", opsBound),
   File(1, "linux", opsLiteral), [File(1, "linux", svcSite) EXCEPT !.link = TRUE],
   [File(2, "linux", shell) EXCEPT !.subdir = "top"]}

MCServiceName == [w \in {"nginx.service"} |-> "nginx"]
MCSystemctl == {"systemctl"}
MCSystemctlVerbs == {"all"}
MCSecurityRelevant == {Path(<<"etc", "ssh">>)}
MCNonGrantable == {Path(<<"etc">>)}
MCExcludedBins == {"sudo"}
MCExcludedGroups == {Word("wheel")}
MCSuggested == [w \in {"lpr", "adm"} |-> "ops"]
MCSurface ==
  {Object("SudoBin", Lit(b), "vendor") : b \in {"bash", "systemctl", "lpr", "sudo"}}
  \cup {Object("Config", Path(p), "vendor") : p \in {<<"etc", "nginx">>, <<"etc", "ssh", "key">>, <<"var", "log", "x">>}}
  \cup {Object("Unit", Unit("nginx", TRUE), "orphan"), Object("Group", Word("adm"), "orphan"),
        Object("Group", Word("wheel"), "orphan"), Object("CapFile", Lit("ping"), "orphan"),
        Object("Setuid", Lit("sudo"), "vendor")}

MCComps ==
  {[BlankComp EXCEPT !.perms = <<Ref("ops", <<>>)>>, !.limits = [nofile |-> NoLimit, nproc |-> 3]],
   [BlankComp EXCEPT !.perms = <<Ref("ops", [n \in {"a"} |-> List(<<nginx, inst>>)])>>],
   [BlankComp EXCEPT !.perms = <<Ref("svc", [n \in {"u", "a"} |-> Scalar(IF n = "u" THEN inst ELSE bad)]), Ref("logs", <<>>)>>,
                     !.sudo = {bash}, !.groups = {Word("adm")}],
   [BlankComp EXCEPT !.perms = <<Ref("logs", <<>>), Ref("shell", <<>>)>>,
                     !.files = {Grant(Dir(<<"etc">>), {"read"}, TRUE)}],
   [BlankComp EXCEPT !.perms = <<Ref("ops", [n \in {"a"} |-> Scalar(bad)])>>],
   [BlankComp EXCEPT !.perms = <<Ref("ops", [n \in {"a"} |-> Scalar(up)])>>],
   [BlankComp EXCEPT !.perms = <<Ref("svc", [n \in {"u"} |-> Other])>>],
   [BlankComp EXCEPT !.perms = <<Ref("svc", [n \in {"u"} |-> Scalar(up)])>>, !.sudo = {Restart("x")}]}

MCSafeLocales == {"en", "ru", "zh"}
MCTexts ==
  <<[locale |-> "ru", map |-> [i \in {"svc", "gone"} |-> [f \in {"title"} |-> i]], broken |-> FALSE],
    [locale |-> "ru", map |-> [i \in {"logs"} |-> [f \in {"body"} |-> i]], broken |-> FALSE]>>
=============================================================================
