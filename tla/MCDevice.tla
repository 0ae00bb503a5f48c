------------------------------ MODULE MCDevice ------------------------------
(***************************************************************************)
(* A small device: /srv is mounted a second time as /bnd, /mnt and /share  *)
(* are two mount points of one network file system, /etc holds a cron file *)
(* and a key with extended ACLs, and /srv a world-writable binary, a       *)
(* setuid one and a home directory.  Three framework directories may be    *)
(* installed, two of them under one id.                                    *)
(***************************************************************************)
EXTENDS Device, TLC

MCDigits(n) == ToString(n)

Perms(d, s, o, g, w) == [dir |-> d, setid |-> s, owner |-> o, group |-> g, other |-> w]
RX == {"r", "x"}
RW == {"r", "w"}
DirNode(uid, gid, group, other, entries) ==
  [kind |-> "dir", listable |-> TRUE, uid |-> uid, gid |-> gid, mode |-> Perms(TRUE, FALSE, AllPerms, group, other),
   acl |-> <<>>, entries |-> entries, target |-> 0]
FileNode(uid, gid, setid, group, other, acl) ==
  [kind |-> "file", listable |-> FALSE, uid |-> uid, gid |-> gid, mode |-> Perms(FALSE, setid, RW, group, other),
   acl |-> acl, entries |-> <<>>, target |-> 0]
Acl(tag, who, perms) == [tag |-> tag, who |-> who, perms |-> perms]

MCTree ==
  [i \in 1..10 |->
     CASE i = 1 -> DirNode(0, 0, RX, RX, [n \in {"etc", "srv", "bnd", "mnt", "share"} |->
                                            CASE n = "etc" -> 2 [] n \in {"mnt", "share"} -> 4 [] OTHER -> 3])
       [] i = 2 -> DirNode(0, 0, RX, RX, [n \in {"cron", "key"} |-> IF n = "cron" THEN 5 ELSE 6])
       [] i = 3 -> DirNode(0, 0, RX, RX, [n \in {"bin", "su", "home"} |-> IF n = "bin" THEN 7 ELSE IF n = "su" THEN 8 ELSE 9])
       [] i = 4 -> DirNode(0, 0, RX, RX, [n \in {"key"} |-> 10])
       [] i = 5 -> FileNode(0, 10, FALSE, {"r"}, {},
                     <<Acl("user_obj", NoName, RW), Acl("user", "bob", RW), Acl("group_obj", NoName, RW),
                       Acl("default", NoName, AllPerms), Acl("mask", NoName, {"r"}), Acl("other", NoName, {})>>)
       [] i = 6 -> FileNode(0, 10, FALSE, RW, {"r"},
                     <<Acl("user_obj", NoName, RW), Acl("group_obj", NoName, {}), Acl("group", "ops", RW),
                       Acl("mask", NoName, RW), Acl("other", NoName, {"r"})>>)
       [] i = 7 -> FileNode(0, 11, FALSE, RW, RW, <<>>)
       [] i = 8 -> FileNode(150, 10, TRUE, AllPerms, RX, <<>>)
       [] i = 10 -> FileNode(0, 0, FALSE, {}, {}, <<>>)
       [] OTHER -> [DirNode(100, 100, {}, {"w"}, <<>>) EXCEPT !.listable = FALSE]]

MCPseudoRoots == {<<"proc">>}
MCSkipMounts == {<<"mnt">>, <<"share">>}
MCHigh == <<<<<<{"etc"}, {"cron"}>>, "Cron">>, <<<<AnyDepth, {"bin"}>>, "PathBinary">>>>
MCLow == <<<<<<{"etc"}, {"key"}>>, "Secret">>>>
MCSecurityRelevant == {<<"etc">>}

MCPasswd ==
  [n \in {"root", "alice", "bob"} |->
     CASE n = "root" -> [uid |-> 0, gid |-> 0, home |-> <<>>, groups |-> <<>>]
       [] n = "alice" -> [uid |-> 100, gid |-> 100, home |-> <<"srv", "home">>, groups |-> <<"staff", "gone">>]
       [] OTHER -> [uid |-> 101, gid |-> 101, home |-> <<>>, groups |-> <<"ops">>]]
MCGroupDb == [g \in {"root", "staff", "ops"} |-> IF g = "root" THEN 0 ELSE IF g = "staff" THEN 10 ELSE 11]
MCRegistry ==
  [accounts |-> {[name |-> "alice", uid |-> 100, grants |-> {[path |-> <<"srv", "bin">>, recursive |-> FALSE]}],
                 [name |-> "old", uid |-> 150, grants |-> {[path |-> <<>>, recursive |-> TRUE]}]},
   groups |-> {"staff"}]
MCProviders ==
  {NullMac,
   [active |-> TRUE, labels |-> [q \in {<<"srv", "bin">>, <<"etc", "key">>} |-> IF q = <<"etc", "key">> THEN "key_t" ELSE "bin_t"],
    contexts |-> [u \in {101, 150} |-> IF u = 101 THEN {"user_t", "ops_t"} ELSE {"user_t"}],
    permits |-> {<<"ops_t", "bin_t", "write">>, <<"user_t", "key_t", "read">>}]}

Config == [file |-> "absent", scan_roots |-> <<<<"proc">>, <<"srv">>>>,
           secret_globs |-> <<<<AnyDepth, {"home"}>>>>, broad_groups |-> {"staff"}]
Call == [what |-> "fs", roots |-> <<>>, full |-> FALSE, prompt |-> <<>>, mac |-> FALSE,
         who |-> [numeric |-> FALSE, uid |-> 0, name |-> NoName], config |-> Config]
Expose4(who) == [Call EXCEPT !.what = "expose", !.who = who]
User(n) == [numeric |-> FALSE, uid |-> 0, name |-> n]
Uid(u) == [numeric |-> TRUE, uid |-> u, name |-> NoName]
MCInvocations ==
  {[Call EXCEPT !.full = TRUE], Call,
   [Expose4(User("alice")) EXCEPT !.roots = <<<<"etc">>, <<"srv">>>>],
   [Expose4(User("bob")) EXCEPT !.prompt = <<<<"mnt">>, <<"bnd">>>>],
   [Expose4(Uid(150)) EXCEPT !.full = TRUE],
   Expose4(User("root")),
   Expose4(User("ghost")), [Call EXCEPT !.mac = TRUE], [Call EXCEPT !.roots = <<<<".">>>>],
   [Call EXCEPT !.config.file = "bad"]}

MCFwLayers == <<"linux", "debian">>
MCSafeLocales == {"en", "ru"}
Maps(perm, s, r) == [p \in {perm} |-> [q \in Polarities |-> CASE q = "satisfies" -> s [] q = "risk" -> r [] OTHER -> {}]]
FwFile(layer, map) == [layer |-> layer, map |-> map, broken |-> FALSE]
FwDir(root, id, dim, files, controls, texts) ==
  [root |-> root, id |-> id, link |-> FALSE, dimension |-> dim, provides |-> {"crossref", "controls"},
   files |-> files, bad |-> "none", controls |-> controls, texts |-> texts]
Words(locale, id, field) == [locale |-> locale, broken |-> FALSE, map |-> [i \in {id} |-> [f \in {field} |-> "words"]]]
Owned(ids, mine) == [c \in ids |-> c \in mine]
Cis == FwDir(1, "cis", "os-layered",
             <<FwFile("debian", Maps("net", {"c1"}, {"c2"})), FwFile("linux", Maps("net", {"c2"}, {})), FwFile("rhel", Maps("net", {"c3"}, {}))>>,
             Owned({"c1", "c2", "c3"}, {"c1", "c3"}), <<Words("ru", "c1", "title"), Words("en", "c2", "body"), Words("zz", "c3", "title")>>)
CisSite == FwDir(2, "cis", "flat", <<FwFile("none", Maps("disk", {"c1"}, {}))>>, Owned({"c1"}, {}), <<>>)
Pci == FwDir(2, "pci", "flat", <<FwFile("none", Maps("net", {"p1"}, {"p9"})), FwFile("none", Maps("lost", {}, {"p1"}))>>,
             Owned({"p1"}, {"p1"}), <<Words("en", "p1", "title")>>)
Future == [Pci EXCEPT !.id = "nist", !.dimension = "per-host"]
Broken == [Pci EXCEPT !.bad = "controls"]
Linked == [CisSite EXCEPT !.link = TRUE]
MCDirs == {<<Cis, Pci>>, <<Cis, CisSite>>, <<CisSite, Cis, Pci>>, <<Cis, Broken>>, <<Cis, Future, Linked>>, <<>>,
           <<[Cis EXCEPT !.bad = "manifest"], CisSite>>}
MCFrameworkCalls ==
  [what : {"framework"}, sub : {"list", "lint", "show", "coverage", "risk"}, dirs : MCDirs,
   fw : {"cis"}, known : {{"net"}}, env : [explicit : {"", "ru_RU"}, lc_messages : {Unset, <<"ru", "_RU.UTF-8">>}, lang : {<<"en", "_US.UTF-8">>}]]
=============================================================================
