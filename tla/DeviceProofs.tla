---------------------------- MODULE DeviceProofs ----------------------------
(***************************************************************************)
(* The commands that only read the device, for every tree, every command   *)
(* line and every set of frameworks: what a directory replaced during the  *)
(* walk cannot do to the listing, that the lint of the titles and their    *)
(* display agree, that the order of the framework directories is of no     *)
(* consequence, that the posture map misses nothing that anyone at all     *)
(* could do, and that a principal's report is what the kernel allows it.   *)
(***************************************************************************)
EXTENDS Device, SequenceLemmas

-----------------------------------------------------------------------------
(* The walk.  Its second look at a directory compares inode numbers, so it *)
(* proves something only of a tree that changes once: when the number is   *)
(* the admitted one, either nothing has changed since the directory was    *)
(* admitted, or nothing has since it was opened.                           *)

OneSwap == MaxSwaps \in {0, 1}

\* The stack holds directories that were admitted.
Frames == {[path |-> a[1], ino |-> a[2]] : a \in admitted}

\* What was admitted is a directory still, wherever its name leads by now.
StillDirs ==
    \A a \in admitted : a = <<a[1], a[2]>> /\ a[2] \in DOMAIN Tree /\ IsDir(fs, a[2])

\* What has been opened is what was admitted, or what the name leads to at last.
OpenedAs ==
    at = "recheck" =>
       /\ <<reading.path, reading.exp>> \in admitted
       /\ reading.dir = reading.exp \/ (swaps # 0 /\ reading.dir = Follow(fs, Lstat(reading.path)))

WalkInv ==
    /\ swaps \in {0, 1} /\ swaps <= MaxSwaps
    /\ swaps = 0 => fs = Tree /\ \A a \in admitted : Lstat(a[1]) = a[2]
    /\ swaps = 1 => DOMAIN fs = DOMAIN Tree \cup {Spare}  /\ IsLink(fs, Spare)
    /\ StillDirs
    /\ stack \in Seq(Frames)
    /\ OpenedAs
    /\ ListingKept

USE DEF Lstat

LEMMA InitWalk == ASSUME OneSwap, AuditInit PROVE WalkInv
BY DEF AuditInit, OneSwap, WalkInv, StillDirs, Frames, OpenedAs, ListingKept

\* A step that leaves the tree and the walk alone.
LEMMA WalkKept ==
    ASSUME WalkInv, UNCHANGED <<fs, swaps, stack, reading, admitted, listed>>, at' # "recheck" \/ at' = at
    PROVE  WalkInv'
BY DEF WalkInv, StillDirs, Frames, OpenedAs, ListingKept, IsDir, IsLink, Follow

\* An admitted directory is one whatever happened before, and its name leads to
\* it as long as nothing has.
LEMMA Admit ==
    ASSUME WalkInv, NEW p, IsDir(fs, Lstat(p))
    PROVE  Lstat(p) \in DOMAIN Tree
BY DEF WalkInv, IsDir, IsLink

LEMMA WalkAdmits ==
    ASSUME WalkInv, NEW p, IsDir(fs, Lstat(p)), admitted' = admitted \cup {<<p, Lstat(p)>>},
           stack' \in Seq(Frames'), UNCHANGED <<fs, swaps, listed>>, at' # "recheck"
    PROVE  WalkInv'
<1>1. Lstat(p) \in DOMAIN Tree BY Admit
<1>2. StillDirs' BY <1>1 DEF WalkInv, StillDirs, IsDir
<1>. QED BY <1>1, <1>2 DEF WalkInv, OpenedAs, ListingKept, IsDir, IsLink

LEMMA FramesGrow == ASSUME admitted \subseteq admitted', stack \in Seq(Frames) PROVE stack \in Seq(Frames')
BY DEF Frames

LEMMA FrameOf ==
    ASSUME NEW p, NEW i, <<p, i>> \in admitted'
    PROVE  [path |-> p, ino |-> i] \in Frames'
<1>. DEFINE a == <<p, i>>
<1>1. a \in admitted' /\ a[1] = p /\ a[2] = i OBVIOUS
<1>2. [path |-> a[1], ino |-> a[2]] \in Frames' BY <1>1 DEF Frames
<1>. QED BY <1>1, <1>2

LEMMA EnterRootWalk == ASSUME WalkInv, EnterRoot PROVE WalkInv'
<1>. DEFINE r == Head(rootsLeft)
<1>1. CASE IsDir(fs, Lstat(r))
  <2>1. /\ stack' = <<[path |-> r, ino |-> Lstat(r)]>> /\ admitted' = admitted \cup {<<r, Lstat(r)>>}
        /\ UNCHANGED <<fs, swaps, listed>> /\ at' # "recheck"
    BY <1>1 DEF EnterRoot
  <2>2. [path |-> r, ino |-> Lstat(r)] \in Frames'
    BY <2>1, FrameOf
  <2>3. stack' \in Seq(Frames') BY <2>1, <2>2
  <2>. QED BY <1>1, <2>1, <2>3, WalkAdmits
<1>2. CASE ~IsDir(fs, Lstat(r))
  <2>1. UNCHANGED <<fs, swaps, stack, reading, admitted, listed>> /\ at' # "recheck"
    BY <1>2 DEF EnterRoot
  <2>. QED BY <2>1, WalkKept
<1>. QED BY <1>1, <1>2

LEMMA ReadEntryWalk == ASSUME WalkInv, NEW n, ReadEntry(n) PROVE WalkInv'
<1>. DEFINE p == Append(reading.path, n)
<1>1. UNCHANGED <<fs, swaps, at, listed>> /\ at # "recheck" BY DEF ReadEntry
<1>2. CASE UNCHANGED <<stack, admitted>>
  <2>1. Frames' = Frames BY <1>2 DEF Frames
  <2>. QED BY <1>1, <1>2, <2>1 DEF WalkInv, StillDirs, OpenedAs, ListingKept, IsDir, IsLink
<1>3. CASE ~UNCHANGED <<stack, admitted>>
  <2>1. IsDir(fs, Lstat(p)) /\ Descend(p, Lstat(p)) BY <1>3 DEF ReadEntry
  <2>2. /\ stack' = Append(stack, [path |-> p, ino |-> Lstat(p)])
        /\ admitted' = admitted \cup {<<p, Lstat(p)>>}
    BY <1>3, <2>1 DEF Descend
  <2>3. [path |-> p, ino |-> Lstat(p)] \in Frames' BY <2>2, FrameOf
  <2>4. stack \in Seq(Frames') BY <2>2, FramesGrow DEF WalkInv
  <2>5. stack' \in Seq(Frames') BY <2>2, <2>3, <2>4
  <2>. QED BY <1>1, <2>1, <2>2, <2>5, WalkAdmits
<1>. QED BY <1>2, <1>3

LEMMA OpenDirWalk == ASSUME WalkInv, OpenDir PROVE WalkInv'
<1>. DEFINE top == Last(stack)  d == Follow(fs, Lstat(top.path))
<1>1. /\ stack # <<>> /\ stack' = Front(stack) /\ at = "descend"
      /\ UNCHANGED <<fs, swaps, admitted, listed>>
  BY DEF OpenDir
<1>2. stack \in Seq(Frames) BY DEF WalkInv
<1>3. Frames' = Frames BY <1>1 DEF Frames
<1>4. stack' \in Seq(Frames') /\ top \in Frames
  BY <1>1, <1>2, <1>3 DEF Front, Last
<1>5. <<top.path, top.ino>> \in admitted
  <2>1. PICK a \in admitted : top = [path |-> a[1], ino |-> a[2]] BY <1>4 DEF Frames
  <2>2. a = <<a[1], a[2]>> BY DEF WalkInv, StillDirs
  <2>3. top.path = a[1] /\ top.ino = a[2] BY <2>1
  <2>. QED BY <2>2, <2>3
<1>6. CASE at' = "recheck"
  <2>1. /\ reading'.path = top.path /\ reading'.exp = top.ino /\ reading'.dir = d
    BY <1>1, <1>6 DEF OpenDir
  <2>2. swaps = 0 => d = top.ino
    BY <1>5 DEF WalkInv, StillDirs, IsDir, Follow, IsLink
  <2>3. OpenedAs' BY <1>1, <1>5, <2>1, <2>2 DEF OpenedAs, Follow, IsLink
  <2>. QED BY <1>1, <1>4, <2>3 DEF WalkInv, StillDirs, ListingKept, IsDir, IsLink
<1>7. CASE at' # "recheck"
  BY <1>1, <1>4, <1>7 DEF WalkInv, StillDirs, ListingKept, IsDir, IsLink, OpenedAs
<1>. QED BY <1>6, <1>7

LEMMA RecheckWalk == ASSUME WalkInv, Recheck PROVE WalkInv'
<1>1. /\ at = "recheck" /\ at' # "recheck" /\ UNCHANGED <<fs, swaps, stack, admitted>>
  BY DEF Recheck
<1>2. CASE Lstat(reading.path) = reading.exp
  <2>1. listed' = listed \cup {<<reading.path, reading.dir>>} BY <1>2 DEF Recheck
  <2>2. <<reading.path, reading.exp>> \in admitted BY <1>1 DEF WalkInv, OpenedAs
  <2>3. IsDir(fs, reading.exp) BY <2>2 DEF WalkInv, StillDirs
  <2>4. reading.dir = reading.exp
    BY <1>1, <1>2, <2>3 DEF WalkInv, OpenedAs, Follow, IsLink, IsDir
  <2>5. ListingKept' BY <1>1, <2>1, <2>2, <2>4 DEF WalkInv, ListingKept
  <2>. QED BY <1>1, <2>5 DEF WalkInv, StillDirs, Frames, OpenedAs, IsDir, IsLink
<1>3. CASE Lstat(reading.path) # reading.exp
  <2>1. listed' = listed BY <1>3 DEF Recheck
  <2>. QED BY <1>1, <2>1 DEF WalkInv, StillDirs, Frames, OpenedAs, ListingKept, IsDir, IsLink
<1>. QED BY <1>2, <1>3

\* The link takes a free inode, so whatever was admitted is left a directory.
LEMMA SwapWalk ==
    ASSUME OneSwap, WalkInv, NEW d \in Dirs, NEW n \in DOMAIN fs[d].entries, NEW t \in Dirs, SwapDir(d, n, t)
    PROVE  WalkInv'
<1>1. /\ swaps = 0 /\ swaps' = 1 /\ MaxSwaps = 1 /\ fs = Tree
      /\ UNCHANGED <<at, stack, reading, admitted, listed>>
  BY DEF SwapDir, OneSwap, WalkInv, walk
<1>2. /\ DOMAIN fs' = DOMAIN Tree \cup {Spare}
      /\ fs'[Spare] = [fs[RootIno] EXCEPT !.kind = "link", !.entries = <<>>, !.target = t]
  BY <1>1 DEF SwapDir
<1>3. ASSUME NEW i \in DOMAIN Tree PROVE fs'[i].kind = fs[i].kind
  <2>1. i # Spare /\ "kind" \in DOMAIN fs[i] BY <1>1, AuditAssumption
  <2>2. CASE i = d
    <3>1. fs'[i] = [fs[i] EXCEPT !.entries[n] = Spare] BY <1>1, <2>1, <2>2 DEF SwapDir
    <3>. QED BY <2>1, <3>1
  <2>3. CASE i # d
    <3>1. fs'[i] = fs[i] BY <1>1, <2>1, <2>3 DEF SwapDir
    <3>. QED BY <3>1
  <2>. QED BY <2>2, <2>3
<1>4. StillDirs' BY <1>1, <1>2, <1>3 DEF WalkInv, StillDirs, IsDir
<1>5. OpenedAs' BY <1>1 DEF WalkInv, OpenedAs
<1>6. IsLink(fs, Spare)'
  <2>1. "kind" \in DOMAIN fs[RootIno] BY <1>1, AuditAssumption
  <2>2. fs'[Spare].kind = "link" BY <1>2, <2>1
  <2>. QED BY <1>2, <2>2 DEF IsLink
<1>7. Frames' = Frames /\ ListingKept' BY <1>1 DEF Frames, WalkInv, ListingKept
<1>. QED BY <1>1, <1>2, <1>4, <1>5, <1>6, <1>7 DEF WalkInv

LEMMA NextWalk == ASSUME OneSwap, WalkInv, [DeviceNext]_auditVars PROVE WalkInv'
<1>1. CASE EnterRoot BY <1>1, EnterRootWalk
<1>2. CASE OpenDir BY <1>2, OpenDirWalk
<1>3. CASE Recheck BY <1>3, RecheckWalk
<1>4. CASE \E n \in reading.names : ReadEntry(n) BY <1>4, ReadEntryWalk
<1>5. CASE \E d \in Dirs : \E n \in DOMAIN fs[d].entries, t \in Dirs : SwapDir(d, n, t)
  BY <1>5, SwapWalk
<1>6. CASE EntriesDone
  <2>1. UNCHANGED <<fs, swaps, stack, admitted, listed>> /\ at' = "descend" BY <1>6 DEF EntriesDone
  <2>. QED BY <2>1 DEF WalkInv, StillDirs, Frames, OpenedAs, ListingKept, IsDir, IsLink
<1>7. CASE \/ \E o \in Invocations : StartAudit(o)
           \/ SkipRoot \/ RootFails \/ RootDone \/ ReadAcls \/ ReportAudit \/ ReportFails
           \/ \E c \in FrameworkCalls : FrameworkCommand(c)
           \/ UNCHANGED auditVars
  <2>1. UNCHANGED <<fs, swaps, stack, reading, admitted, listed>> /\ (at' # "recheck" \/ at' = at)
    BY <1>7 DEF StartAudit, SkipRoot, RootFails, RootDone, ReadAcls, ReportAudit, ReportFails,
                FrameworkCommand, auditVars, walk
  <2>. QED BY <2>1, WalkKept
<1>. QED BY <1>1, <1>2, <1>3, <1>4, <1>5, <1>6, <1>7 DEF DeviceNext, AuditNext, WalkStep

\* However a directory on the way is moved aside and replaced by a link while the
\* walk is under way, once, no name is enumerated through the link: what is listed
\* under a path is the very inode that was admitted there (dir_inode_unchanged).
THEOREM ListingIsKept == OneSwap => (DeviceSpec => []ListingKept)
<1> SUFFICES ASSUME OneSwap PROVE DeviceSpec => []ListingKept
  OBVIOUS
<1>1. AuditInit => WalkInv BY InitWalk
<1>2. WalkInv /\ [DeviceNext]_auditVars => WalkInv' BY NextWalk
<1>3. WalkInv => ListingKept BY DEF WalkInv
<1>. QED BY <1>1, <1>2, <1>3, PTL DEF DeviceSpec

-----------------------------------------------------------------------------
(* Titles.  The lint looks at every locale on its own, the display falls   *)
(* back from the locale asked for to English: that they agree rests on     *)
(* English being among the locales the lint looks at.                      *)

\* The texts of one locale have no title for the control.
Untitled(texts, l, c) ==
    LET m == LoadLocale(texts, l) IN c \notin DOMAIN m \/ "title" \notin DOMAIN m[c]

LEMMA MissingMeansUntitled ==
    ASSUME NEW texts, NEW ids, NEW c \in ids
    PROVE  c \in ControlsMissingTitle(texts, ids)
             <=> \A l \in AvailableLocales(texts) \cup {DefaultLocale} : Untitled(texts, l, c)
<1>1. ASSUME NEW l
      PROVE  <<l, c>> \in MissingTranslations(texts, {l}, ids) <=> Untitled(texts, l, c)
  <2>1. <<l, c>> \in {l} \X ids /\ <<l, c>>[1] = l /\ <<l, c>>[2] = c OBVIOUS
  <2>. QED BY <2>1 DEF MissingTranslations, Untitled
<1>. QED BY <1>1 DEF ControlsMissingTitle

\* What of(l) in ResolveText stands for.
TextOf(texts, l, c) == LET m == LoadLocale(texts, l) IN IF c \in DOMAIN m THEN m[c] ELSE <<>>

LEMMA UntitledText ==
    ASSUME NEW texts, NEW l, NEW c
    PROVE  /\ Untitled(texts, l, c) <=> "title" \notin DOMAIN TextOf(texts, l, c)
           /\ ~Untitled(texts, l, c) => TextOf(texts, l, c) = LoadLocale(texts, l)[c]
<1>1. DOMAIN <<>> = {} OBVIOUS
<1>. QED BY <1>1 DEF Untitled, TextOf

LEMMA ShownTitle ==
    ASSUME NEW texts, NEW l, NEW c,
           \A k \in {l, DefaultLocale} : ~Untitled(texts, k, c) => LoadLocale(texts, k)[c]["title"] # c
    PROVE  ResolveText(texts, l, c).title = c <=> Untitled(texts, l, c) /\ Untitled(texts, DefaultLocale, c)
<1>. DEFINE d == Overlay(TextOf(texts, DefaultLocale, c), TextOf(texts, l, c))
<1>1. ResolveText(texts, l, c).title = IF "title" \in DOMAIN d THEN d["title"] ELSE c
  BY DEF ResolveText, TextOf
<1>2. DOMAIN d = DOMAIN TextOf(texts, DefaultLocale, c) \cup DOMAIN TextOf(texts, l, c)
  BY DEF Overlay
<1>3. ASSUME "title" \in DOMAIN d
      PROVE  d["title"] = IF "title" \in DOMAIN TextOf(texts, l, c) THEN TextOf(texts, l, c)["title"]
                          ELSE TextOf(texts, DefaultLocale, c)["title"]
  BY <1>3 DEF Overlay
<1>. HIDE DEF d
<1>. QED BY <1>1, <1>2, <1>3, UntitledText

LEMMA TitlesAgree ==
    ASSUME NEW loaded, TitlesAreWords(loaded), NEW fw \in DOMAIN loaded.frameworks, NEW c \in Defined(loaded, fw)
    PROVE  c \in ControlsMissingTitle(loaded.texts[fw], Defined(loaded, fw))
             <=> \A l \in AvailableLocales(loaded.texts[fw]) \cup {DefaultLocale} :
                    ControlTitle(loaded, fw, c, l) = c
<1>. DEFINE texts == loaded.texts[fw]
            locales == AvailableLocales(texts) \cup {DefaultLocale}
<1>1. \A k \in locales : ~Untitled(texts, k, c) => LoadLocale(texts, k)[c]["title"] # c
  BY DEF TitlesAreWords, Untitled
<1>2. DefaultLocale \in locales OBVIOUS
<1>. HIDE DEF locales
<1>3. \A l \in locales : ResolveText(texts, l, c).title = c
                           <=> Untitled(texts, l, c) /\ Untitled(texts, DefaultLocale, c)
  BY <1>1, <1>2, ShownTitle
<1>4. (\A l \in locales : ResolveText(texts, l, c).title = c) <=> \A l \in locales : Untitled(texts, l, c)
  BY <1>2, <1>3
<1>5. c \in ControlsMissingTitle(texts, Defined(loaded, fw)) <=> \A l \in locales : Untitled(texts, l, c)
  BY MissingMeansUntitled DEF locales
<1>. QED BY <1>4, <1>5 DEF locales, ControlTitle

\* Nothing else of the lint is reported under that code.
LEMMA OtherCodes ==
    ASSUME NEW loaded, NEW known, NEW f \in LintLoaded(loaded, known)
    PROVE  f.code # "control-missing-title"
<1>1. CASE f \in OrphanedMappings(loaded, known) BY <1>1 DEF OrphanedMappings, Finding
<1>2. CASE f \in ProvidesDesync(loaded) BY <1>2 DEF ProvidesDesync, Finding
<1>3. CASE f \in UnknownControls(loaded) BY <1>3 DEF UnknownControls, Finding
<1>4. CASE f \in RiskConflicts(loaded) BY <1>4 DEF RiskConflicts, Finding
<1>. QED BY <1>1, <1>2, <1>3, <1>4 DEF LintLoaded

LEMMA LintedTitles ==
    ASSUME NEW dirs, NEW known, LoadFrameworks(dirs).ok, NEW fw, NEW c
    PROVE  <<fw, c>> \in {f.what : f \in {g \in RunFrameworkLint(dirs, known).findings :
                                            g.code = "control-missing-title"}}
             <=> /\ fw \in DOMAIN LoadFrameworks(dirs).frameworks
                 /\ c \in ControlsMissingTitle(LoadFrameworks(dirs).texts[fw], Defined(LoadFrameworks(dirs), fw))
<1>. DEFINE loaded == LoadFrameworks(dirs)
            missing(w) == ControlsMissingTitle(loaded.texts[w], Defined(loaded, w))
            titles == UNION {{Finding("control-missing-title", "warning", <<w, x>>) : x \in missing(w)} :
                               w \in DOMAIN loaded.frameworks}
            findings == RunFrameworkLint(dirs, known).findings
<1>1. findings = LintLoaded(loaded, known) \cup titles
  BY DEF RunFrameworkLint
<1>2. ASSUME fw \in DOMAIN loaded.frameworks, c \in missing(fw)
      PROVE  \E f \in findings : f.code = "control-missing-title" /\ f.what = <<fw, c>>
  <2>1. Finding("control-missing-title", "warning", <<fw, c>>) \in titles BY <1>2
  <2>. QED BY <1>1, <2>1 DEF Finding
<1>3. ASSUME NEW f \in findings, f.code = "control-missing-title", f.what = <<fw, c>>
      PROVE  fw \in DOMAIN loaded.frameworks /\ c \in missing(fw)
  <2>1. f \in titles BY <1>1, <1>3, OtherCodes
  <2>2. PICK w \in DOMAIN loaded.frameworks : \E x \in missing(w) : f = Finding("control-missing-title", "warning", <<w, x>>)
    BY <2>1
  <2>3. PICK x \in missing(w) : f = Finding("control-missing-title", "warning", <<w, x>>)
    BY <2>2
  <2>4. <<w, x>> = <<fw, c>> BY <1>3, <2>3 DEF Finding
  <2>5. w = fw /\ x = c BY <2>4
  <2>. QED BY <2>3, <2>5
<1>. HIDE DEF findings, loaded, missing
<1>4. <<fw, c>> \in {f.what : f \in {g \in findings : g.code = "control-missing-title"}}
        <=> fw \in DOMAIN loaded.frameworks /\ c \in missing(fw)
  BY <1>2, <1>3
<1>. QED BY <1>4 DEF findings, loaded, missing

\* A framework command is one of those that can be given.
Commanded == at # "start" => cmd \in Invocations \cup FrameworkCalls

LEMMA NextCommanded == ASSUME Commanded, [DeviceNext]_auditVars PROVE Commanded'
<1>1. CASE \E o \in Invocations : StartAudit(o) BY <1>1 DEF StartAudit, Commanded
<1>2. CASE \E c \in FrameworkCalls : FrameworkCommand(c) BY <1>2 DEF FrameworkCommand, Commanded
<1>3. CASE \/ WalkStep \/ RootFails \/ ReadAcls \/ ReportAudit \/ ReportFails
           \/ \E d \in Dirs : \E n \in DOMAIN fs[d].entries, t \in Dirs : SwapDir(d, n, t)
           \/ UNCHANGED auditVars
  <2>1. cmd' = cmd /\ (at' # "start" => at # "start")
    BY <1>3 DEF WalkStep, SkipRoot, EnterRoot, OpenDir, Recheck, EntriesDone, RootDone, ReadEntry,
                RootFails, ReadAcls, ReportAudit, ReportFails, SwapDir, auditVars
  <2>. QED BY <2>1 DEF Commanded
<1>. QED BY <1>1, <1>2, <1>3 DEF DeviceNext, AuditNext

\* framework lint names a control as untitled exactly when the display, in any
\* locale the framework ships and in English, can show nothing but its id.
THEOREM TitleLintIsExact == DeviceSpec => []TitleLintExact
<1>1. AuditInit => Commanded BY DEF AuditInit, Commanded
<1>2. Commanded /\ [DeviceNext]_auditVars => Commanded' BY NextCommanded
<1>3. Commanded => TitleLintExact
  <2> SUFFICES ASSUME Commanded, AfterFramework, LoadFrameworks(cmd.dirs).ok,
                      NEW fw \in DOMAIN LoadFrameworks(cmd.dirs).frameworks,
                      NEW c \in Defined(LoadFrameworks(cmd.dirs), fw)
               PROVE  <<fw, c>> \in {f.what : f \in {g \in RunFrameworkLint(cmd.dirs, cmd.known).findings :
                                                       g.code = "control-missing-title"}}
                        <=> \A l \in AvailableLocales(LoadFrameworks(cmd.dirs).texts[fw]) \cup {DefaultLocale} :
                               ControlTitle(LoadFrameworks(cmd.dirs), fw, c, l) = c
    BY DEF TitleLintExact
  <2>1. cmd \in FrameworkCalls BY DeviceAssumption DEF Commanded, AfterFramework
  <2>2. TitlesAreWords(LoadFrameworks(cmd.dirs)) BY <2>1, DeviceAssumption
  <2>. QED BY <2>2, TitlesAgree, LintedTitles
<1>. QED BY <1>1, <1>2, <1>3, PTL DEF DeviceSpec

-----------------------------------------------------------------------------
(* What the framework directories load to, in closed form.                 *)

\* A directory that is loaded, one that ends the load, one that is passed over.
Counts(d) == ~d.link /\ d.bad # "manifest" /\ ~Unsupported(d)
Faulty(d) == ~d.link /\ (d.bad = "manifest" \/ (Counts(d) /\ BadFiles(d)))
Passed(d) == ~d.link /\ d.bad # "manifest" /\ Unsupported(d)

IdsIn(S) == {d.id : d \in S}
Holding(S, k) == {d \in S : d.id = k}
TheOne(S, k) == CHOOSE d : d \in Holding(S, k)
Having(S, p) == {d \in S : p \in DOMAIN Mapped(d)}
Defining(S) == {d \in S : d.controls # <<>>}
PermsOf(S) == UNION {DOMAIN Mapped(d) : d \in S}

FrameworksOf(S) == [k \in IdsIn(S) |-> TheOne(S, k).provides]
TextsOf(S) == [k \in IdsIn(S) |-> TheOne(S, k).texts]
ControlsOf(S) == [k \in IdsIn(Defining(S)) |-> TheOne(S, k).controls]
ForwardOf(S) == [p \in PermsOf(S) |-> [k \in IdsIn(Having(S, p)) |-> Mapped(TheOne(S, k))[p]]]
EntriesOf(S) == UNION {Entries(d) : d \in S}
WarningsOf(S) == {<<"skipped", d.id, d.root>> : d \in S}

Counted(D) == {d \in D : Counts(d)}
PassedIn(D) == {d \in D : Passed(d)}
Known(S, W) ==
    [ok |-> TRUE, frameworks |-> FrameworksOf(S), forward |-> ForwardOf(S), controls |-> ControlsOf(S),
     texts |-> TextsOf(S), mappings |-> EntriesOf(S), warnings |-> WarningsOf(W)]
KnownBy(D) == Known(Counted(D), PassedIn(D))

LEMMA TheOneStays ==
    ASSUME NEW S, NEW d, d.id \notin IdsIn(S), NEW T, T = S \cup {d}
    PROVE  /\ TheOne(T, d.id) = d
           /\ \A k : k # d.id => TheOne(T, k) = TheOne(S, k)
<1>1. Holding(T, d.id) = {d}
  BY DEF Holding, IdsIn
<1>2. TheOne(T, d.id) = d
  BY <1>1 DEF TheOne
<1>3. ASSUME NEW k, k # d.id PROVE TheOne(T, k) = TheOne(S, k)
  <2>1. Holding(T, k) = Holding(S, k)
    BY <1>3 DEF Holding
  <2> QED
    BY <2>1 DEF TheOne
<1> QED
  BY <1>2, <1>3

LEMMA IdsGrow == ASSUME NEW S, NEW d PROVE IdsIn(S \cup {d}) = IdsIn(S) \cup {d.id}
BY DEF IdsIn

LEMMA FrameworksGrow ==
    ASSUME NEW S, NEW d, d.id \notin IdsIn(S)
    PROVE  FrameworksOf(S \cup {d}) = Put(FrameworksOf(S), d.id, d.provides)
<1> DEFINE T == S \cup {d}
<1>1. IdsIn(T) = IdsIn(S) \cup {d.id}
  BY IdsGrow
<1>2. TheOne(T, d.id) = d /\ \A k : k # d.id => TheOne(T, k) = TheOne(S, k)
  BY TheOneStays
<1> HIDE DEF T
<1> QED
  BY <1>1, <1>2 DEF FrameworksOf, Put, T

LEMMA TextsGrow ==
    ASSUME NEW S, NEW d, d.id \notin IdsIn(S)
    PROVE  TextsOf(S \cup {d}) = Put(TextsOf(S), d.id, d.texts)
<1> DEFINE T == S \cup {d}
<1>1. IdsIn(T) = IdsIn(S) \cup {d.id}
  BY IdsGrow
<1>2. TheOne(T, d.id) = d /\ \A k : k # d.id => TheOne(T, k) = TheOne(S, k)
  BY TheOneStays
<1> HIDE DEF T
<1> QED
  BY <1>1, <1>2 DEF TextsOf, Put, T

LEMMA ControlsGrow ==
    ASSUME NEW S, NEW d, d.id \notin IdsIn(S)
    PROVE  ControlsOf(S \cup {d}) = IF d.controls = <<>> THEN ControlsOf(S) ELSE Put(ControlsOf(S), d.id, d.controls)
<1> DEFINE T == S \cup {d}
<1>1. TheOne(T, d.id) = d /\ \A k : k # d.id => TheOne(T, k) = TheOne(S, k)
  BY TheOneStays
<1>2. IdsIn(Defining(S)) \subseteq IdsIn(S)
  BY DEF IdsIn, Defining
<1>3. CASE d.controls = <<>>
  <2>1. Defining(T) = Defining(S)
    BY <1>3 DEF Defining
  <2> HIDE DEF T
  <2>2. ControlsOf(T) = ControlsOf(S)
    BY <1>1, <1>2, <2>1 DEF ControlsOf
  <2> QED
    BY <1>3, <2>2 DEF T
<1>4. CASE d.controls # <<>>
  <2>1. Defining(T) = Defining(S) \cup {d}
    BY <1>4 DEF Defining
  <2>2. IdsIn(Defining(T)) = IdsIn(Defining(S)) \cup {d.id}
    BY <2>1, IdsGrow
  <2> HIDE DEF T
  <2>3. ControlsOf(T) = Put(ControlsOf(S), d.id, d.controls)
    BY <1>1, <1>2, <2>2 DEF ControlsOf, Put
  <2> QED
    BY <1>4, <2>3 DEF T
<1> QED
  BY <1>3, <1>4

LEMMA EntriesGrow == ASSUME NEW S, NEW d PROVE EntriesOf(S \cup {d}) = EntriesOf(S) \cup Entries(d)
BY DEF EntriesOf

LEMMA WarningsGrow ==
    ASSUME NEW S, NEW d PROVE WarningsOf(S \cup {d}) = WarningsOf(S) \cup {<<"skipped", d.id, d.root>>}
BY DEF WarningsOf

LEMMA ForwardGrows ==
    ASSUME NEW S, NEW d, d.id \notin IdsIn(S)
    PROVE  ForwardOf(S \cup {d}) = Forward(ForwardOf(S), d.id, Mapped(d))
<1> DEFINE T == S \cup {d}
<1> DEFINE row(U, p) == [k \in IdsIn(Having(U, p)) |-> Mapped(TheOne(U, k))[p]]
<1>1. TheOne(T, d.id) = d /\ \A k : k # d.id => TheOne(T, k) = TheOne(S, k)
  BY TheOneStays
<1>2. ASSUME NEW p PROVE IdsIn(Having(S, p)) \subseteq IdsIn(S)
  BY DEF IdsIn, Having
<1>3. PermsOf(T) = PermsOf(S) \cup DOMAIN Mapped(d)
  BY DEF PermsOf
<1>4. ASSUME NEW p, p \in DOMAIN Mapped(d) PROVE row(T, p) = Put(row(S, p), d.id, Mapped(d)[p])
  <2>1. Having(T, p) = Having(S, p) \cup {d}
    BY <1>4 DEF Having
  <2>2. IdsIn(Having(T, p)) = IdsIn(Having(S, p)) \cup {d.id}
    BY <2>1, IdsGrow
  <2> HIDE DEF T
  <2> QED
    BY <1>1, <1>2, <2>2 DEF Put
<1>5. ASSUME NEW p, p \notin DOMAIN Mapped(d) PROVE row(T, p) = row(S, p)
  <2>1. Having(T, p) = Having(S, p)
    BY <1>5 DEF Having
  <2> HIDE DEF T
  <2> QED
    BY <1>1, <1>2, <2>1
<1>6. ASSUME NEW p, p \notin PermsOf(S) PROVE row(S, p) = <<>>
  <2>1. Having(S, p) = {}
    BY <1>6 DEF Having, PermsOf
  <2>2. IdsIn(Having(S, p)) = {}
    BY <2>1 DEF IdsIn
  <2> QED
    BY <2>2
<1>7. ForwardOf(T) = [p \in PermsOf(T) |-> row(T, p)] /\ ForwardOf(S) = [p \in PermsOf(S) |-> row(S, p)]
  BY DEF ForwardOf
<1> HIDE DEF T, row
<1> DEFINE old == ForwardOf(S)
<1>8. ASSUME NEW p PROVE Get(old, p, <<>>) = row(S, p)
  BY <1>6, <1>7 DEF Get
<1>9. \A p \in PermsOf(T) : row(T, p) = IF p \in DOMAIN Mapped(d) THEN Put(Get(old, p, <<>>), d.id, Mapped(d)[p]) ELSE old[p]
  <2> TAKE p \in PermsOf(T)
  <2>1. CASE p \in DOMAIN Mapped(d)
    BY <2>1, <1>4, <1>8
  <2>2. CASE p \notin DOMAIN Mapped(d)
    <3>1. p \in PermsOf(S)
      BY <2>2, <1>3
    <3>2. old[p] = row(S, p)
      BY <3>1, <1>7
    <3> QED
      BY <2>2, <3>2, <1>5
  <2> QED
    BY <2>1, <2>2
<1>10. DOMAIN old = PermsOf(S)
  BY <1>7
<1> HIDE DEF old
<1>11. ForwardOf(T) = Forward(old, d.id, Mapped(d))
  BY <1>3, <1>7, <1>9, <1>10 DEF Forward
<1> QED
  BY <1>11 DEF T, old

LEMMA KnownFields ==
    ASSUME NEW S, NEW W
    PROVE  /\ Known(S, W).ok /\ Known(S, W).frameworks = FrameworksOf(S)
           /\ DOMAIN Known(S, W).frameworks = IdsIn(S)
BY DEF Known, FrameworksOf

\* Two records of what is loaded are the same when their fields are.
LoadFields == {"ok", "frameworks", "forward", "controls", "texts", "mappings", "warnings"}
IsLoaded(r) == r = [x \in LoadFields |-> r[x]]

LEMMA SameLoaded ==
    ASSUME NEW r, NEW s, IsLoaded(r), IsLoaded(s), r.ok = s.ok, r.frameworks = s.frameworks, r.forward = s.forward,
           r.controls = s.controls, r.texts = s.texts, r.mappings = s.mappings, r.warnings = s.warnings
    PROVE  r = s
<1>1. \A x \in LoadFields : r[x] = s[x]
  BY DEF LoadFields
<1>2. [x \in LoadFields |-> r[x]] = [x \in LoadFields |-> s[x]]
  BY <1>1
<1> QED
  BY <1>2, Zenon DEF IsLoaded

LEMMA KnownIsLoaded == ASSUME NEW S, NEW W PROVE IsLoaded(Known(S, W))
BY DEF IsLoaded, Known, LoadFields

LEMMA InstallFields ==
    ASSUME NEW r, NEW d, IsLoaded(r)
    PROVE  /\ IsLoaded(Installed(r, d))
           /\ Installed(r, d).ok = r.ok
           /\ Installed(r, d).frameworks = Put(r.frameworks, d.id, d.provides)
           /\ Installed(r, d).forward = Forward(r.forward, d.id, Mapped(d))
           /\ Installed(r, d).mappings = r.mappings \cup Entries(d)
           /\ Installed(r, d).controls = IF d.controls = <<>> THEN r.controls ELSE Put(r.controls, d.id, d.controls)
           /\ Installed(r, d).texts = Put(r.texts, d.id, d.texts)
           /\ Installed(r, d).warnings = r.warnings
<1>1. DOMAIN r = {"ok", "frameworks", "forward", "controls", "texts", "mappings", "warnings"}
  BY DEF IsLoaded, LoadFields
<1>2. IsLoaded(Installed(r, d))
  BY DEF IsLoaded, Installed
<1> DEFINE s == Installed(r, d)
<1>3. s.ok = r.ok /\ s.warnings = r.warnings
  BY <1>1 DEF Installed
<1>4. s.frameworks = Put(r.frameworks, d.id, d.provides)
  BY <1>1 DEF Installed
<1>5. s.forward = Forward(r.forward, d.id, Mapped(d))
  BY <1>1 DEF Installed
<1>6. s.mappings = r.mappings \cup Entries(d)
  BY <1>1 DEF Installed
<1>7. s.controls = IF d.controls = <<>> THEN r.controls ELSE Put(r.controls, d.id, d.controls)
  BY <1>1 DEF Installed
<1>8. s.texts = Put(r.texts, d.id, d.texts)
  BY <1>1 DEF Installed
<1> QED
  BY <1>2, <1>3, <1>4, <1>5, <1>6, <1>7, <1>8

LEMMA FieldsOfKnown ==
    ASSUME NEW S, NEW W
    PROVE  /\ Known(S, W).ok = TRUE /\ Known(S, W).frameworks = FrameworksOf(S) /\ Known(S, W).forward = ForwardOf(S)
           /\ Known(S, W).controls = ControlsOf(S) /\ Known(S, W).texts = TextsOf(S)
           /\ Known(S, W).mappings = EntriesOf(S) /\ Known(S, W).warnings = WarningsOf(W)
BY DEF Known

LEMMA InstallGrows ==
    ASSUME NEW S, NEW W, NEW d, d.id \notin IdsIn(S)
    PROVE  Installed(Known(S, W), d) = Known(S \cup {d}, W)
<1> DEFINE T == S \cup {d}
<1> DEFINE r == Installed(Known(S, W), d)
<1> DEFINE s == Known(T, W)
<1>1. /\ FrameworksOf(T) = Put(FrameworksOf(S), d.id, d.provides)
      /\ ForwardOf(T) = Forward(ForwardOf(S), d.id, Mapped(d))
      /\ ControlsOf(T) = IF d.controls = <<>> THEN ControlsOf(S) ELSE Put(ControlsOf(S), d.id, d.controls)
      /\ TextsOf(T) = Put(TextsOf(S), d.id, d.texts)
      /\ EntriesOf(T) = EntriesOf(S) \cup Entries(d)
  BY FrameworksGrow, ForwardGrows, ControlsGrow, TextsGrow, EntriesGrow
<1> HIDE DEF T
<1> DEFINE o == Known(S, W)
<1>2. IsLoaded(o) /\ IsLoaded(s)
  BY KnownIsLoaded
<1>6. /\ o.ok = TRUE /\ o.frameworks = FrameworksOf(S) /\ o.forward = ForwardOf(S)
      /\ o.controls = ControlsOf(S) /\ o.texts = TextsOf(S)
      /\ o.mappings = EntriesOf(S) /\ o.warnings = WarningsOf(W)
  BY FieldsOfKnown
<1> HIDE DEF o
<1>7. /\ IsLoaded(r) /\ r.ok = o.ok
      /\ r.frameworks = Put(o.frameworks, d.id, d.provides)
      /\ r.forward = Forward(o.forward, d.id, Mapped(d))
      /\ r.mappings = o.mappings \cup Entries(d)
      /\ r.controls = IF d.controls = <<>> THEN o.controls ELSE Put(o.controls, d.id, d.controls)
      /\ r.texts = Put(o.texts, d.id, d.texts)
      /\ r.warnings = o.warnings
  BY <1>2, InstallFields DEF o
<1> HIDE DEF r
<1>3. /\ IsLoaded(r) /\ r.ok = TRUE
      /\ r.frameworks = Put(FrameworksOf(S), d.id, d.provides)
      /\ r.forward = Forward(ForwardOf(S), d.id, Mapped(d))
      /\ r.mappings = EntriesOf(S) \cup Entries(d)
      /\ r.controls = IF d.controls = <<>> THEN ControlsOf(S) ELSE Put(ControlsOf(S), d.id, d.controls)
      /\ r.texts = Put(TextsOf(S), d.id, d.texts)
      /\ r.warnings = WarningsOf(W)
  BY <1>6, <1>7
<1>4. /\ s.ok = TRUE /\ s.frameworks = FrameworksOf(T) /\ s.forward = ForwardOf(T)
      /\ s.controls = ControlsOf(T) /\ s.texts = TextsOf(T)
      /\ s.mappings = EntriesOf(T) /\ s.warnings = WarningsOf(W)
  BY FieldsOfKnown
<1> HIDE DEF r, s
<1>5. r = s
  BY <1>1, <1>2, <1>3, <1>4, SameLoaded
<1> QED
  BY <1>5 DEF T, r, s

Warned(o, d) == [o EXCEPT !.warnings = @ \cup {<<"skipped", d.id, d.root>>}]

LEMMA WarningAdded ==
    ASSUME NEW S, NEW W, NEW d
    PROVE  Warned(Known(S, W), d) = Known(S, W \cup {d})
<1> DEFINE o == Known(S, W)
<1> DEFINE w == {<<"skipped", d.id, d.root>>}
<1> DEFINE r == [o EXCEPT !.warnings = @ \cup w]
<1> DEFINE s == Known(S, W \cup {d})
<1>1. WarningsOf(W \cup {d}) = WarningsOf(W) \cup w
  BY WarningsGrow
<1>2. IsLoaded(o) /\ IsLoaded(s)
  BY KnownIsLoaded
<1>3. /\ o.ok = TRUE /\ o.frameworks = FrameworksOf(S) /\ o.forward = ForwardOf(S)
      /\ o.controls = ControlsOf(S) /\ o.texts = TextsOf(S)
      /\ o.mappings = EntriesOf(S) /\ o.warnings = WarningsOf(W)
  BY FieldsOfKnown
<1>4. /\ s.ok = TRUE /\ s.frameworks = FrameworksOf(S) /\ s.forward = ForwardOf(S)
      /\ s.controls = ControlsOf(S) /\ s.texts = TextsOf(S)
      /\ s.mappings = EntriesOf(S) /\ s.warnings = WarningsOf(W) \cup w
  BY <1>1, FieldsOfKnown
<1> HIDE DEF o, w, s
<1>5. IsLoaded(r)
  BY <1>2 DEF IsLoaded
<1>6. DOMAIN o = {"ok", "frameworks", "forward", "controls", "texts", "mappings", "warnings"}
  BY <1>2 DEF IsLoaded, LoadFields
<1>7. /\ r.ok = o.ok /\ r.frameworks = o.frameworks /\ r.forward = o.forward /\ r.controls = o.controls
      /\ r.texts = o.texts /\ r.mappings = o.mappings /\ r.warnings = o.warnings \cup w
  BY <1>6
<1> HIDE DEF r
<1>8. r = s
  BY <1>2, <1>3, <1>4, <1>5, <1>7, SameLoaded
<1> QED
  BY <1>8 DEF r, s, o, w, Warned

\* One directory, when all before it have loaded.
LEMMA OneMore ==
    ASSUME NEW D, NEW d, NEW n, n = LoadOneFramework(KnownBy(D), d)
    PROVE  IF ~Faulty(d) /\ (Counts(d) => d.id \notin IdsIn(Counted(D)))
           THEN n = KnownBy(D \cup {d}) ELSE n.ok = FALSE
<1> DEFINE known == KnownBy(D)
<1> DEFINE S == Counted(D)
<1> DEFINE W == PassedIn(D)
<1>1. known = Known(S, W) /\ known.ok /\ DOMAIN known.frameworks = IdsIn(S)
  BY KnownFields DEF KnownBy
<1>2. /\ Counted(D \cup {d}) = IF Counts(d) THEN S \cup {d} ELSE S
      /\ PassedIn(D \cup {d}) = IF Passed(d) THEN W \cup {d} ELSE W
  BY DEF Counted, PassedIn
<1>3. KnownBy(D \cup {d}) = Known(Counted(D \cup {d}), PassedIn(D \cup {d}))
  BY DEF KnownBy
<1>4. \A e : LoadError(e).ok = FALSE
  BY DEF LoadError
<1> HIDE DEF known, S, W
<1>5. CASE d.link
  <2>1. n = known
    BY <1>5 DEF LoadOneFramework, known
  <2>2. ~Faulty(d) /\ ~Counts(d) /\ ~Passed(d)
    BY <1>5 DEF Faulty, Counts, Passed
  <2> QED
    BY <2>1, <2>2, <1>1, <1>2, <1>3
<1>6. CASE ~d.link /\ d.bad = "manifest"
  <2>1. n = LoadError("TomlParse")
    BY <1>1, <1>6 DEF LoadOneFramework, known
  <2>2. Faulty(d)
    BY <1>6 DEF Faulty
  <2> QED
    BY <2>1, <2>2, <1>4
<1>7. CASE ~d.link /\ d.bad # "manifest" /\ Unsupported(d)
  <2>1. n = Warned(known, d)
    BY <1>1, <1>7 DEF LoadOneFramework, known, Warned
  <2>2. ~Faulty(d) /\ ~Counts(d) /\ Passed(d)
    BY <1>7 DEF Faulty, Counts, Passed
  <2>3. n = Known(S, W \cup {d})
    BY <2>1, <1>1, WarningAdded
  <2> QED
    BY <2>2, <2>3, <1>2, <1>3
<1>8. CASE ~d.link /\ d.bad # "manifest" /\ ~Unsupported(d)
  <2>1. n = IF d.id \in IdsIn(S) THEN LoadError("IdCollision")
            ELSE IF BadFiles(d) THEN LoadError("TomlParse") ELSE Installed(known, d)
    BY <1>1, <1>8 DEF LoadOneFramework, known
  <2>2. Counts(d) /\ ~Passed(d) /\ (Faulty(d) <=> BadFiles(d))
    BY <1>8 DEF Faulty, Counts, Passed
  <2>3. CASE d.id \in IdsIn(S) \/ BadFiles(d)
    BY <2>1, <2>2, <2>3, <1>4 DEF S
  <2>4. CASE d.id \notin IdsIn(S) /\ ~BadFiles(d)
    <3>1. n = Known(S \cup {d}, W)
      BY <2>1, <2>4, <1>1, InstallGrows
    <3> QED
      BY <3>1, <2>2, <2>4, <1>2, <1>3 DEF S
  <2> QED
    BY <2>3, <2>4
<1> QED
  BY <1>5, <1>6, <1>7, <1>8

LEMMA NothingKnown == KnownBy({}) = NoFrameworks
<1>1. Counted({}) = {} /\ PassedIn({}) = {}
  BY DEF Counted, PassedIn
<1>2. IdsIn({}) = {} /\ PermsOf({}) = {} /\ Defining({}) = {} /\ EntriesOf({}) = {} /\ WarningsOf({}) = {}
  BY DEF IdsIn, PermsOf, Defining, EntriesOf, WarningsOf
<1>3. FrameworksOf({}) = <<>>
  BY <1>2 DEF FrameworksOf
<1>4. TextsOf({}) = <<>>
  BY <1>2 DEF TextsOf
<1>5. ControlsOf({}) = <<>>
  <2>1. IdsIn(Defining({})) = {}
    BY <1>2
  <2> QED
    BY <2>1 DEF ControlsOf
<1>6. ForwardOf({}) = <<>>
  BY <1>2 DEF ForwardOf
<1> QED
  BY <1>1, <1>2, <1>3, <1>4, <1>5, <1>6 DEF KnownBy, Known, NoFrameworks

-----------------------------------------------------------------------------
(* The directories, loaded one after the other.                            *)

LoadTo(dirs, f, k) == IF k = 0 THEN NoFrameworks ELSE LoadOneFramework(f[k - 1], dirs[k])
Loading(dirs, f, n) == f = [k \in 0..n |-> LoadTo(dirs, f, k)]

LEMMA LoadingAt ==
    ASSUME NEW dirs, NEW f, NEW n, Loading(dirs, f, n)
    PROVE  \A k \in 0..n : f[k] = LoadTo(dirs, f, k)
BY Zenon DEF Loading

LEMMA LoadingExists ==
    ASSUME NEW dirs, NEW n \in Nat
    PROVE  \E f : Loading(dirs, f, n)
<1> DEFINE P == {m \in Nat : \E f : Loading(dirs, f, m)}
<1>1. 0 \in P
  <2> DEFINE f == [k \in 0..0 |-> NoFrameworks]
  <2>1. \A k \in 0..0 : NoFrameworks = LoadTo(dirs, f, k)
    BY DEF LoadTo
  <2>2. f = [k \in 0..0 |-> LoadTo(dirs, f, k)]
    BY <2>1
  <2> HIDE DEF f
  <2>3. Loading(dirs, f, 0)
    BY <2>2 DEF Loading
  <2> QED
    BY <2>3
<1>2. ASSUME NEW m \in Nat, m \in P PROVE m + 1 \in P
  <2>1. PICK f : Loading(dirs, f, m)
    BY <1>2
  <2> DEFINE g == [k \in 0..(m + 1) |-> IF k <= m THEN f[k] ELSE LoadTo(dirs, f, k)]
  <2>2. ASSUME NEW k \in 0..(m + 1) PROVE g[k] = LoadTo(dirs, g, k)
    <3>1. k # 0 => g[k - 1] = f[k - 1]
      OBVIOUS
    <3>2. g[k] = LoadTo(dirs, f, k)
      <4>1. CASE k <= m
        <5>1. f[k] = LoadTo(dirs, f, k)
          BY <4>1, <2>1, LoadingAt
        <5> QED
          BY <5>1, <4>1
      <4>2. CASE ~(k <= m)
        BY <4>2
      <4> QED
        BY <4>1, <4>2
    <3> HIDE DEF g
    <3> QED
      BY <3>1, <3>2, Zenon DEF LoadTo
  <2>3. g = [k \in 0..(m + 1) |-> LoadTo(dirs, g, k)]
    BY <2>2
  <2> HIDE DEF g
  <2>4. Loading(dirs, g, m + 1)
    BY <2>3 DEF Loading
  <2> QED
    BY <2>4
<1> HIDE DEF P
<1>3. Nat \subseteq P
  BY <1>1, <1>2, SetInduction
<1> QED
  BY <1>3 DEF P

LEMMA LoadSteps ==
    ASSUME NEW dirs, Len(dirs) \in Nat
    PROVE  \E f : /\ f[0] = NoFrameworks
                  /\ \A k \in 1..Len(dirs) : f[k] = LoadOneFramework(f[k - 1], dirs[k])
                  /\ LoadFrameworks(dirs) = f[Len(dirs)]
<1> DEFINE n == Len(dirs)
<1> DEFINE f == CHOOSE g : Loading(dirs, g, n)
<1>1. LoadFrameworks(dirs) = f[n]
  BY DEF LoadFrameworks, Loading, LoadTo
<1>2. Loading(dirs, f, n)
  BY LoadingExists
<1>3. n = Len(dirs) /\ n \in Nat
  OBVIOUS
<1> HIDE DEF f, n
<1>4. \A k \in 0..n : f[k] = LoadTo(dirs, f, k)
  BY <1>2, LoadingAt
<1>5. f[0] = NoFrameworks
  <2>1. 0 \in 0..n
    BY <1>3
  <2> QED
    BY <2>1, <1>4, Zenon DEF LoadTo
<1>6. ASSUME NEW k \in 1..n PROVE f[k] = LoadOneFramework(f[k - 1], dirs[k])
  <2>1. k \in 0..n /\ k # 0
    BY <1>3
  <2> QED
    BY <2>1, <1>4, Zenon DEF LoadTo
<1> QED
  BY <1>1, <1>3, <1>5, <1>6

\* The first n directories load: none of them is faulty, and no two that count
\* have one id.
DirsOf(dirs, n) == {dirs[i] : i \in 1..n}
Clash(dirs, i, j) == i # j /\ Counts(dirs[i]) /\ Counts(dirs[j]) /\ dirs[i].id = dirs[j].id
Loads(dirs, n) == (\A i \in 1..n : ~Faulty(dirs[i])) /\ \A i, j \in 1..n : ~Clash(dirs, i, j)
Outcome(dirs, n, known) == IF Loads(dirs, n) THEN known = KnownBy(DirsOf(dirs, n)) ELSE known.ok = FALSE

LEMMA LoadsMore ==
    ASSUME NEW dirs, NEW n \in Nat
    PROVE  Loads(dirs, n + 1) <=> /\ Loads(dirs, n) /\ ~Faulty(dirs[n + 1])
                                  /\ Counts(dirs[n + 1]) => dirs[n + 1].id \notin IdsIn(Counted(DirsOf(dirs, n)))
<1> DEFINE d == dirs[n + 1]
<1>1. \A i : i \in 1..(n + 1) <=> i \in 1..n \/ i = n + 1
  OBVIOUS
<1>2. n + 1 \notin 1..n
  OBVIOUS
<1>3. (\A i \in 1..(n + 1) : ~Faulty(dirs[i])) <=> (\A i \in 1..n : ~Faulty(dirs[i])) /\ ~Faulty(d)
  BY <1>1, Zenon
<1>4. (\A i, j \in 1..(n + 1) : ~Clash(dirs, i, j))
        <=> (\A i, j \in 1..n : ~Clash(dirs, i, j)) /\ \A i \in 1..n : ~Clash(dirs, i, n + 1)
  <2>1. \A i, j : Clash(dirs, i, j) => i # j /\ Clash(dirs, j, i)
    BY DEF Clash
  <2> QED
    BY <2>1, <1>1, Zenon
<1>5. (\A i \in 1..n : ~Clash(dirs, i, n + 1)) <=> (Counts(d) => d.id \notin IdsIn(Counted(DirsOf(dirs, n))))
  BY <1>2 DEF Clash, IdsIn, Counted, DirsOf
<1> QED
  BY <1>3, <1>4, <1>5 DEF Loads

LEMMA OutcomeStep ==
    ASSUME NEW dirs, NEW n \in Nat, NEW known, Outcome(dirs, n, known)
    PROVE  Outcome(dirs, n + 1, LoadOneFramework(known, dirs[n + 1]))
<1> DEFINE d == dirs[n + 1]
<1> DEFINE D == DirsOf(dirs, n)
<1> DEFINE next == LoadOneFramework(known, d)
<1>1. DirsOf(dirs, n + 1) = D \cup {d}
  BY DEF DirsOf
<1>2. CASE ~Loads(dirs, n)
  <2>1. known.ok = FALSE
    BY <1>2 DEF Outcome
  <2>2. next = known
    BY <2>1 DEF LoadOneFramework
  <2>3. ~Loads(dirs, n + 1)
    BY <1>2, LoadsMore
  <2> QED
    BY <2>1, <2>2, <2>3 DEF Outcome
<1>3. CASE Loads(dirs, n)
  <2>1. known = KnownBy(D)
    BY <1>3 DEF Outcome
  <2>2. next = LoadOneFramework(KnownBy(D), d)
    BY <2>1
  <2> HIDE DEF next, D, d
  <2>3. IF ~Faulty(d) /\ (Counts(d) => d.id \notin IdsIn(Counted(D)))
        THEN next = KnownBy(D \cup {d}) ELSE next.ok = FALSE
    BY <2>2, OneMore
  <2>4. Loads(dirs, n + 1) <=> ~Faulty(d) /\ (Counts(d) => d.id \notin IdsIn(Counted(D)))
    BY <1>3, LoadsMore DEF d, D
  <2>5. Outcome(dirs, n + 1, next)
    BY <1>1, <2>3, <2>4 DEF Outcome
  <2> QED
    BY <2>5 DEF next, d
<1> QED
  BY <1>2, <1>3

LEMMA LoadOutcome ==
    ASSUME NEW dirs, Len(dirs) \in Nat
    PROVE  Outcome(dirs, Len(dirs), LoadFrameworks(dirs))
<1> DEFINE n == Len(dirs)
<1>1. PICK f : /\ f[0] = NoFrameworks
               /\ \A k \in 1..n : f[k] = LoadOneFramework(f[k - 1], dirs[k])
               /\ LoadFrameworks(dirs) = f[n]
  BY LoadSteps
<1> DEFINE P == {m \in Nat : m <= n => Outcome(dirs, m, f[m])}
<1>2. 0 \in P
  <2>1. DirsOf(dirs, 0) = {} /\ Loads(dirs, 0)
    BY DEF DirsOf, Loads
  <2>2. Outcome(dirs, 0, f[0])
    BY <2>1, <1>1, NothingKnown DEF Outcome
  <2> QED
    BY <2>2
<1>3. ASSUME NEW m \in Nat, m \in P PROVE m + 1 \in P
  <2> SUFFICES ASSUME m + 1 <= n PROVE Outcome(dirs, m + 1, f[m + 1])
    OBVIOUS
  <2>1. m <= n /\ m + 1 \in 1..n /\ (m + 1) - 1 = m
    OBVIOUS
  <2>2. Outcome(dirs, m, f[m])
    BY <2>1, <1>3
  <2>3. f[m + 1] = LoadOneFramework(f[m], dirs[m + 1])
    BY <2>1, <1>1
  <2>4. Outcome(dirs, m + 1, LoadOneFramework(f[m], dirs[m + 1]))
    BY <2>2, OutcomeStep
  <2> QED
    BY <2>3, <2>4
<1>4. n \in Nat /\ n <= n
  OBVIOUS
<1> HIDE DEF P
<1>5. n \in P
  BY <1>2, <1>3, <1>4, SetInduction
<1> QED
  BY <1>1, <1>4, <1>5 DEF P

\* The directories in another order.
Shuffled(dirs, p) == [i \in DOMAIN dirs |-> dirs[p[i]]]

LEMMA OrderIsOneToOne ==
    ASSUME NEW S, NEW p \in Bijection(S, S)
    PROVE  /\ \A i \in S : p[i] \in S
           /\ \A i, j \in S : p[i] = p[j] => i = j
           /\ \A k \in S : \E i \in S : p[i] = k
BY DEF Bijection, Surjection, Injection, IsInjective

LEMMA SameInterval == ASSUME NEW a \in Nat, NEW b \in Nat, 1..a = 1..b PROVE a = b
<1>1. ASSUME a < b PROVE FALSE
  <2>1. b \in 1..b /\ b \notin 1..a
    BY <1>1
  <2> QED
    BY <2>1
<1>2. ASSUME b < a PROVE FALSE
  <2>1. a \in 1..a /\ a \notin 1..b
    BY <1>2
  <2> QED
    BY <2>1
<1> QED
  BY <1>1, <1>2

LEMMA ShuffledLoads ==
    ASSUME NEW dirs, Len(dirs) \in Nat, DOMAIN dirs = 1..Len(dirs), NEW p \in Bijection(DOMAIN dirs, DOMAIN dirs)
    PROVE  /\ LoadFrameworks(Shuffled(dirs, p)).ok = LoadFrameworks(dirs).ok
           /\ LoadFrameworks(dirs).ok => LoadFrameworks(Shuffled(dirs, p)) = LoadFrameworks(dirs)
<1> DEFINE n == Len(dirs)
<1> DEFINE o == Shuffled(dirs, p)
<1>1. /\ \A i \in 1..n : p[i] \in 1..n
      /\ \A i, j \in 1..n : p[i] = p[j] => i = j
      /\ \A k \in 1..n : \E i \in 1..n : p[i] = k
  <2> DEFINE S == 1..n
  <2>1. p \in Bijection(S, S)
    OBVIOUS
  <2> HIDE DEF S
  <2>2. /\ \A i \in S : p[i] \in S
        /\ \A i, j \in S : p[i] = p[j] => i = j
        /\ \A k \in S : \E i \in S : p[i] = k
    BY <2>1, OrderIsOneToOne
  <2> QED
    BY <2>2 DEF S
<1>2. DOMAIN o = 1..n /\ \A i \in 1..n : p[i] \in 1..n /\ o[i] = dirs[p[i]]
  BY <1>1 DEF Shuffled
<1>3. n \in Nat /\ Len(o) = n
  <2>1. o \in Seq({o[i] : i \in 1..n})
    BY <1>2 DEF Shuffled
  <2> HIDE DEF o
  <2>2. DOMAIN o = 1..Len(o) /\ Len(o) \in Nat
    BY <2>1
  <2>3. 1..Len(o) = 1..n /\ n \in Nat
    BY <2>2, <1>2
  <2> QED
    BY <2>2, <2>3, SameInterval
<1> HIDE DEF o, n
<1>4. DirsOf(o, n) = DirsOf(dirs, n)
  <2>1. ASSUME NEW d \in DirsOf(o, n) PROVE d \in DirsOf(dirs, n)
    BY <1>2 DEF DirsOf
  <2>2. ASSUME NEW d \in DirsOf(dirs, n) PROVE d \in DirsOf(o, n)
    BY <1>1, <1>2 DEF DirsOf
  <2> QED
    BY <2>1, <2>2
<1>5. (\A i \in 1..n : ~Faulty(o[i])) <=> \A i \in 1..n : ~Faulty(dirs[i])
  <2>1. \A i \in 1..n : Faulty(o[i]) <=> Faulty(dirs[p[i]])
    BY <1>2
  <2>2. ASSUME \A i \in 1..n : ~Faulty(o[i]), NEW k \in 1..n PROVE ~Faulty(dirs[k])
    BY <1>1, <2>1, <2>2
  <2>3. ASSUME \A i \in 1..n : ~Faulty(dirs[i]), NEW k \in 1..n PROVE ~Faulty(o[k])
    BY <1>1, <2>1, <2>3
  <2> QED
    BY <2>2, <2>3
<1>6. (\A i, j \in 1..n : ~Clash(o, i, j)) <=> \A i, j \in 1..n : ~Clash(dirs, i, j)
  <2>1. \A i, j \in 1..n : Clash(o, i, j) <=> Clash(dirs, p[i], p[j])
    BY <1>1, <1>2 DEF Clash
  <2>2. ASSUME \A i, j \in 1..n : ~Clash(o, i, j), NEW k \in 1..n, NEW l \in 1..n PROVE ~Clash(dirs, k, l)
    <3>1. PICK i \in 1..n : p[i] = k
      BY <1>1
    <3>2. PICK j \in 1..n : p[j] = l
      BY <1>1
    <3> QED
      BY <2>1, <2>2, <3>1, <3>2
  <2>3. ASSUME \A i, j \in 1..n : ~Clash(dirs, i, j), NEW k \in 1..n, NEW l \in 1..n PROVE ~Clash(o, k, l)
    BY <1>1, <2>1, <2>3
  <2> QED
    BY <2>2, <2>3
<1>7. Loads(o, n) <=> Loads(dirs, n)
  BY <1>5, <1>6 DEF Loads
<1>8. Outcome(o, n, LoadFrameworks(o)) /\ Outcome(dirs, n, LoadFrameworks(dirs))
  BY <1>3, LoadOutcome DEF n
<1>9. \A D : KnownBy(D).ok = TRUE
  BY FieldsOfKnown DEF KnownBy
<1>10. CASE Loads(dirs, n)
  <2>1. LoadFrameworks(o) = KnownBy(DirsOf(dirs, n)) /\ LoadFrameworks(dirs) = KnownBy(DirsOf(dirs, n))
    BY <1>4, <1>7, <1>8, <1>10 DEF Outcome
  <2> QED
    BY <2>1 DEF o
<1>11. CASE ~Loads(dirs, n)
  <2>1. LoadFrameworks(o).ok = FALSE /\ LoadFrameworks(dirs).ok = FALSE
    BY <1>7, <1>8, <1>11 DEF Outcome
  <2> QED
    BY <2>1 DEF o
<1> QED
  BY <1>10, <1>11

\* A command sees the directories through what they load to.
LEMMA SameReport ==
    ASSUME NEW c, NEW e, c.sub = e.sub, c.fw = e.fw, c.known = e.known, c.env = e.env,
           LoadFrameworks(c.dirs) = LoadFrameworks(e.dirs)
    PROVE  RunFramework(c) = RunFramework(e)
<1> DEFINE l == LoadFrameworks(c.dirs)
<1>1. l = LoadFrameworks(e.dirs)
  OBVIOUS
<1> QED
  BY <1>1 DEF RunFramework, RunFrameworkLint

\* What a framework command has printed; while an audit runs the command is it.
Printed ==
    /\ AfterFramework => cmd \in FrameworkCalls /\ out = RunFramework(cmd)
    /\ at \notin {"start", "done"} => cmd \in Invocations

LEMMA NextPrinted == ASSUME Printed, [DeviceNext]_auditVars PROVE Printed'
<1>1. CASE \E o \in Invocations : StartAudit(o)
  <2>1. cmd' \in Invocations
    BY <1>1 DEF StartAudit
  <2> QED
    BY <2>1, DeviceAssumption DEF Printed, AfterFramework
<1>2. CASE \E c \in FrameworkCalls : FrameworkCommand(c)
  BY <1>2 DEF FrameworkCommand, Printed
<1>3. CASE \/ WalkStep \/ RootFails \/ ReadAcls \/ ReportAudit \/ ReportFails
           \/ \E d \in Dirs : \E n \in DOMAIN fs[d].entries, t \in Dirs : SwapDir(d, n, t)
  <2>1. cmd' = cmd /\ at \notin {"start", "done"}
    BY <1>3 DEF WalkStep, SkipRoot, EnterRoot, OpenDir, Recheck, EntriesDone, RootDone, ReadEntry,
                RootFails, ReadAcls, ReportAudit, ReportFails, SwapDir
  <2> QED
    BY <2>1, DeviceAssumption DEF Printed, AfterFramework
<1>4. CASE UNCHANGED auditVars
  BY <1>4 DEF auditVars, Printed, AfterFramework
<1> QED
  BY <1>1, <1>2, <1>3, <1>4 DEF DeviceNext, AuditNext

\* For every sequence of framework directories: a command that loads them prints
\* what it would print had load_frameworks met them in any other order.
THEOREM FrameworksLoadInAnyOrder == DeviceSpec => []FrameworksOrderFree
<1>1. AuditInit => Printed
  BY DEF AuditInit, Printed, AfterFramework
<1>2. Printed /\ [DeviceNext]_auditVars => Printed'
  BY NextPrinted
<1>3. Printed => FrameworksOrderFree
  <2> SUFFICES ASSUME Printed, AfterFramework, NEW p \in Bijection(DOMAIN cmd.dirs, DOMAIN cmd.dirs)
               PROVE  LET loaded == LoadFrameworks(cmd.dirs)
                          other == [cmd EXCEPT !.dirs = [i \in DOMAIN @ |-> @[p[i]]]]
                      IN /\ LoadFrameworks(other.dirs).ok = loaded.ok
                         /\ loaded.ok => RunFramework(other) = out
    BY DEF FrameworksOrderFree
  <2> DEFINE other == [cmd EXCEPT !.dirs = [i \in DOMAIN @ |-> @[p[i]]]]
  <2>1. cmd \in FrameworkCalls /\ out = RunFramework(cmd)
    BY DEF Printed
  <2>2. /\ cmd = [what |-> cmd.what, sub |-> cmd.sub, dirs |-> cmd.dirs, fw |-> cmd.fw, known |-> cmd.known, env |-> cmd.env]
        /\ cmd.dirs \in Seq(Range(cmd.dirs))
    BY <2>1, DeviceAssumption
  <2>3. DOMAIN cmd = {"what", "sub", "dirs", "fw", "known", "env"}
    BY <2>2
  <2>4. /\ other.sub = cmd.sub /\ other.fw = cmd.fw /\ other.known = cmd.known /\ other.env = cmd.env
        /\ other.dirs = Shuffled(cmd.dirs, p)
    BY <2>3 DEF Shuffled
  <2>5. Len(cmd.dirs) \in Nat /\ DOMAIN cmd.dirs = 1..Len(cmd.dirs)
    BY <2>2
  <2> HIDE DEF other
  <2>6. /\ LoadFrameworks(other.dirs).ok = LoadFrameworks(cmd.dirs).ok
        /\ LoadFrameworks(cmd.dirs).ok => LoadFrameworks(other.dirs) = LoadFrameworks(cmd.dirs)
    BY <2>4, <2>5, ShuffledLoads
  <2>7. LoadFrameworks(cmd.dirs).ok => RunFramework(other) = out
    BY <2>1, <2>4, <2>6, SameReport
  <2> QED
    BY <2>6, <2>7 DEF other
<1> QED
  BY <1>1, <1>2, <1>3, PTL DEF DeviceSpec

-----------------------------------------------------------------------------
(* What the index holds.                                                   *)

\* The environment moves names about: modes and ACLs stay, and it adds a link.
TreeKept ==
    /\ DOMAIN Tree \subseteq DOMAIN fs /\ DOMAIN fs \subseteq DOMAIN Tree \cup {Spare}
    /\ Spare \in DOMAIN fs => fs[Spare].kind = "link"
    /\ \A i \in DOMAIN Tree : /\ {"kind", "mode", "acl", "entries", "target"} \subseteq DOMAIN fs[i]
                              /\ fs[i].mode = Tree[i].mode /\ fs[i].acl = Tree[i].acl
StatsKept == \A q \in DOMAIN stats : stats[q].ino \in DOMAIN Tree /\ stats[q].mode = Tree[stats[q].ino].mode
RecordOk(rec) == AclOk(rec.acl, rec.mode) /\ rec.class \in ObjectClasses
IndexKept == \A q \in DOMAIN index : RecordOk(index[q])
IndexInv == TreeKept /\ StatsKept /\ IndexKept

LEMMA ClassifiedAs == ASSUME NEW globs, NEW path, NEW mode PROVE Classify(globs, path, mode) \in ObjectClasses
<1> DEFINE table(g) == Chosen(g, {i \in DOMAIN g : GlobMatch(g[i][1], path)})
<1>1. ASSUME NEW g, IsSeq(g), table(g) # <<>> PROVE Head(table(g)) \in Range(g)
  <2> DEFINE I == {i \in DOMAIN g : GlobMatch(g[i][1], path)}
  <2> HIDE DEF I
  <2> DEFINE t == Chosen(g, I)
  <2>1. IsSeq(t) /\ Range(t) = {g[i] : i \in I \cap DOMAIN g}
    BY <1>1, ChosenAre
  <2>2. t # <<>>
    BY <1>1 DEF I
  <2> HIDE DEF t
  <2>3. Head(t) \in Range(t)
    BY <2>1, <2>2, HeadOf
  <2>4. Head(t) \in Range(g)
    BY <2>1, <2>3 DEF Range
  <2> QED
    BY <2>4 DEF t, I
<1>2. table(HighGlobs) # <<>> => Head(table(HighGlobs))[2] \in ObjectClasses
  BY <1>1, ExposureAssumption
<1>3. table(LowGlobs) # <<>> => Head(table(LowGlobs))[2] \in ObjectClasses
  BY <1>1, ExposureAssumption
<1> HIDE DEF table
<1>4. {"SetuidBinary", "Secret", "Config", "Generic"} \subseteq ObjectClasses
  BY DEF ObjectClasses
<1> QED
  BY <1>2, <1>3, <1>4 DEF Classify, table

Enforced == {"user_obj", "user", "group_obj", "group", "mask", "other"}

LEMMA ParsedAre ==
  ASSUME NEW acl, IsSeq(acl)
  PROVE  /\ IsSeq(ParseGetfacl(acl)) /\ Range(ParseGetfacl(acl)) = {e \in Range(acl) : e.tag \in Enforced}
         /\ IsExtended(ParseGetfacl(acl)) <=> IsExtended(acl)
<1> DEFINE I == {i \in DOMAIN acl : acl[i].tag \in Enforced}
<1>1. {acl[i] : i \in I \cap DOMAIN acl} = {e \in Range(acl) : e.tag \in Enforced}
  BY DEF Range
<1>2. ParseGetfacl(acl) = Chosen(acl, I)
  BY DEF ParseGetfacl, Enforced
<1> HIDE DEF I
<1>3. IsSeq(ParseGetfacl(acl)) /\ Range(ParseGetfacl(acl)) = {e \in Range(acl) : e.tag \in Enforced}
  BY <1>1, <1>2, ChosenAre
<1>4. {"user", "group", "mask"} \subseteq Enforced BY DEF Enforced
<1>5. IsExtended(ParseGetfacl(acl)) <=> IsExtended(acl)
  BY <1>3, <1>4 DEF IsExtended
<1> QED BY <1>3, <1>5

LEMMA ParsedOk == ASSUME NEW acl, NEW mode, AclOk(acl, mode) PROVE AclOk(ParseGetfacl(acl), mode) /\ AclOk(<<>>, mode)
<1> DEFINE a == ParseGetfacl(acl)
<1>1. IsSeq(acl) BY DEF AclOk
<1>2. IsSeq(a) /\ Range(a) = {e \in Range(acl) : e.tag \in Enforced} /\ (IsExtended(a) <=> IsExtended(acl))
  BY <1>1, ParsedAre
<1>3. IsSeq(<<>>) /\ Range(<<>>) = {} BY Singles
<1>4. AclOk(<<>>, mode) BY <1>3 DEF AclOk
<1> HIDE DEF a
<1>5. a # <<>> => \E e \in Range(a) : e.tag = "group_obj"
  <2>1. SUFFICES ASSUME a # <<>> PROVE \E e \in Range(a) : e.tag = "group_obj"
    OBVIOUS
  <2>2. Range(a) # {} BY <1>2, <2>1, EmptyOnes
  <2>3. acl # <<>> BY <1>2, <1>3, <2>2
  <2>4. PICK e \in Range(acl) : e.tag = "group_obj" BY <2>3 DEF AclOk
  <2> QED BY <1>2, <2>4 DEF Enforced
<1>6. Range(a) \subseteq Range(acl) BY <1>2
<1>7. AclOk(a, mode)
  BY <1>2, <1>5, <1>6 DEF AclOk
<1> QED BY <1>4, <1>7 DEF a

LEMMA StatPushed ==
    ASSUME IndexInv, NEW path, NEW i, i \in DOMAIN fs, ~IsLink(fs, i), stats' = PushStat(path, i)
    PROVE  StatsKept'
<1>1. i \in DOMAIN Tree
  BY DEF IndexInv, TreeKept, IsLink
<1>2. StatOf(i).ino = i /\ StatOf(i).mode = Tree[i].mode
  BY <1>1 DEF IndexInv, TreeKept, StatOf
<1>3. DOMAIN stats' = DOMAIN stats \cup {path} /\ \A q \in DOMAIN stats' : stats'[q] = IF q = path THEN StatOf(i) ELSE stats[q]
  BY DEF PushStat
<1> QED
  BY <1>1, <1>2, <1>3 DEF IndexInv, StatsKept

LEMMA SwapTree ==
    ASSUME IndexInv, NEW d \in Dirs, NEW n \in DOMAIN fs[d].entries, NEW t \in Dirs, SwapDir(d, n, t)
    PROVE  TreeKept'
<1>1. DOMAIN fs' = DOMAIN fs \cup {Spare} /\ RootIno \in DOMAIN fs /\ Spare \notin DOMAIN Tree /\ RootIno \in DOMAIN Tree
  BY AuditAssumption DEF SwapDir, IndexInv, TreeKept
<1>2. fs'[Spare] = [fs[RootIno] EXCEPT !.kind = "link", !.entries = <<>>, !.target = t]
  BY <1>1 DEF SwapDir
<1>3. fs'[Spare].kind = "link"
  <2>1. "kind" \in DOMAIN fs[RootIno]
    BY <1>1 DEF IndexInv, TreeKept
  <2> QED
    BY <1>2, <2>1
<1>4. ASSUME NEW i \in DOMAIN Tree
      PROVE  /\ {"kind", "mode", "acl", "entries", "target"} \subseteq DOMAIN fs'[i]
             /\ fs'[i].mode = Tree[i].mode /\ fs'[i].acl = Tree[i].acl
  <2>1. /\ {"kind", "mode", "acl", "entries", "target"} \subseteq DOMAIN fs[i]
        /\ fs[i].mode = Tree[i].mode /\ fs[i].acl = Tree[i].acl /\ i \in DOMAIN fs
    BY DEF IndexInv, TreeKept
  <2>2. i # Spare
    BY <1>1
  <2>3. fs'[i] = IF i = d THEN [fs[i] EXCEPT !.entries[n] = Spare] ELSE fs[i]
    BY <1>1, <2>1, <2>2 DEF SwapDir
  <2>4. CASE i = d
    BY <2>1, <2>3, <2>4
  <2>5. CASE i # d
    BY <2>1, <2>3, <2>5
  <2> QED
    BY <2>4, <2>5
<1> QED
  BY <1>1, <1>3, <1>4 DEF IndexInv, TreeKept

LEMMA IndexBuilt == ASSUME IndexInv, ReadAcls PROVE IndexKept'
<1>1. PICK lost : index' = [q \in DOMAIN stats |->
                        [uid |-> stats[q].uid, gid |-> stats[q].gid, mode |-> stats[q].mode,
                         acl |-> LET a == ParseGetfacl(fs[stats[q].ino].acl)
                                 IN IF q \notin lost /\ IsExtended(a) THEN a ELSE <<>>,
                         class |-> Classify(cmd.config.secret_globs, q, stats[q].mode)]]
  BY DEF ReadAcls
<1> SUFFICES ASSUME NEW q \in DOMAIN stats PROVE RecordOk(index'[q])
  BY <1>1 DEF IndexKept
<1> DEFINE i == stats[q].ino
<1> DEFINE a == ParseGetfacl(fs[i].acl)
<1>2. i \in DOMAIN Tree /\ stats[q].mode = Tree[i].mode /\ fs[i].acl = Tree[i].acl
  BY DEF IndexInv, StatsKept, TreeKept
<1>3. AclOk(Tree[i].acl, Tree[i].mode)
  BY <1>2, AuditAssumption
<1>4. AclOk(a, stats[q].mode) /\ AclOk(<<>>, stats[q].mode)
  BY <1>2, <1>3, ParsedOk
<1> HIDE DEF a, i
<1>5. /\ index'[q].mode = stats[q].mode
      /\ index'[q].acl = IF q \notin lost /\ IsExtended(a) THEN a ELSE <<>>
      /\ index'[q].class = Classify(cmd.config.secret_globs, q, stats[q].mode)
  BY <1>1 DEF a, i
<1>6. index'[q].class \in ObjectClasses
  BY <1>5, ClassifiedAs
<1>7. AclOk(index'[q].acl, index'[q].mode)
  BY <1>4, <1>5
<1> QED
  BY <1>6, <1>7 DEF RecordOk

LEMMA NextIndexInv == ASSUME IndexInv, [DeviceNext]_auditVars PROVE IndexInv'
<1>1. CASE EnterRoot
  <2>1. UNCHANGED <<fs, index>> BY <1>1 DEF EnterRoot
  <2>2. CASE stats' = stats
    BY <2>1, <2>2 DEF IndexInv, TreeKept, StatsKept, IndexKept
  <2>3. CASE stats' # stats
    <3>1. Lstat(Head(rootsLeft)) \in DOMAIN fs /\ ~IsLink(fs, Lstat(Head(rootsLeft)))
          /\ stats' = PushStat(Head(rootsLeft), Lstat(Head(rootsLeft)))
      BY <1>1, <2>3 DEF EnterRoot, Ignored
    <3>2. StatsKept' BY <3>1, StatPushed
    <3> QED BY <2>1, <3>2 DEF IndexInv, TreeKept, IndexKept
  <2> QED BY <2>2, <2>3
<1>2. CASE \E n \in reading.names : ReadEntry(n)
  <2>1. PICK n \in reading.names : ReadEntry(n) BY <1>2
  <2>2. UNCHANGED <<fs, index>> BY <2>1 DEF ReadEntry
  <2>3. CASE stats' = stats
    BY <2>2, <2>3 DEF IndexInv, TreeKept, StatsKept, IndexKept
  <2>4. CASE stats' # stats
    <3> DEFINE p == Append(reading.path, n)
    <3>1. Lstat(p) \in DOMAIN fs /\ ~IsLink(fs, Lstat(p)) /\ stats' = PushStat(p, Lstat(p))
      BY <2>1, <2>4 DEF ReadEntry
    <3> HIDE DEF p
    <3>2. StatsKept' BY <3>1, StatPushed
    <3> QED BY <2>2, <3>2 DEF IndexInv, TreeKept, IndexKept
  <2> QED BY <2>3, <2>4
<1>3. CASE \E d \in Dirs : \E n \in DOMAIN fs[d].entries, t \in Dirs : SwapDir(d, n, t)
  <2>1. UNCHANGED <<stats, index>> BY <1>3 DEF SwapDir, walk
  <2>2. TreeKept' BY <1>3, SwapTree
  <2> QED BY <2>1, <2>2 DEF IndexInv, StatsKept, IndexKept
<1>4. CASE ReadAcls
  <2>1. UNCHANGED <<fs, stats>> BY <1>4 DEF ReadAcls, walk
  <2>2. IndexKept' BY <1>4, IndexBuilt
  <2> QED BY <2>1, <2>2 DEF IndexInv, TreeKept, StatsKept
<1>5. CASE \/ \E o \in Invocations : StartAudit(o)
           \/ SkipRoot \/ RootFails \/ RootDone \/ OpenDir \/ Recheck \/ EntriesDone \/ ReportAudit \/ ReportFails
           \/ \E c \in FrameworkCalls : FrameworkCommand(c)
           \/ UNCHANGED auditVars
  <2>1. UNCHANGED <<fs, stats, index>>
    BY <1>5 DEF StartAudit, SkipRoot, RootFails, RootDone, OpenDir, Recheck, EntriesDone, ReportAudit, ReportFails,
                FrameworkCommand, auditVars, walk
  <2> QED BY <2>1 DEF IndexInv, TreeKept, StatsKept, IndexKept
<1> QED BY <1>1, <1>2, <1>3, <1>4, <1>5 DEF DeviceNext, AuditNext, WalkStep

LEMMA InitIndex == AuditInit => IndexInv
<1> SUFFICES ASSUME AuditInit PROVE IndexInv
  OBVIOUS
<1>1. fs = Tree /\ DOMAIN stats = {} /\ DOMAIN index = {}
  BY DEF AuditInit
<1>2. TreeKept
  BY <1>1, AuditAssumption DEF TreeKept
<1> QED
  BY <1>1, <1>2 DEF IndexInv, StatsKept, IndexKept

-----------------------------------------------------------------------------
(* What anyone at all may do.                                              *)

Anyone == [name |-> NoName, uid |-> Nobody, groups |-> <<>>, home |-> <<>>]

LEMMA AnyoneIs ==
  /\ Anyone.name = NoName /\ Anyone.uid = Nobody /\ Anyone.uid # 0 /\ Anyone.groups = <<>>
  /\ \A gid : ~MemberOf(Anyone, gid)
<1>1. Range(<<>>) = {} BY Singles
<1> QED BY <1>1 DEF Anyone, Nobody, MemberOf

LEMMA NoneNamed ==
  ASSUME NEW acl, IsSeq(acl), NEW tag, NEW names, \A e \in Range(acl) : e.tag = tag => e.who \notin names
  PROVE  Named(acl, tag, names) = <<>>
<1> DEFINE I == {i \in DOMAIN acl : acl[i].tag = tag /\ acl[i].who \in names}
<1>1. I = {} BY DEF Range
<1> HIDE DEF I
<1>2. IsSeq(Chosen(acl, I)) /\ Range(Chosen(acl, I)) = {acl[i] : i \in I \cap DOMAIN acl}
  BY ChosenAre
<1>3. Range(Chosen(acl, I)) = {} BY <1>1, <1>2
<1>4. Chosen(acl, I) = <<>> BY <1>2, <1>3, EmptyOnes
<1> QED BY <1>4 DEF Named, I

LEMMA OtherPerms ==
  ASSUME NEW acl, NEW mode, AclOk(acl, mode)
  PROVE  FindPerms(acl, "other", mode.other) = mode.other
<1> DEFINE I == {i \in DOMAIN acl : acl[i].tag = "other"}
<1>0. IsSeq(acl) /\ \A e \in Range(acl) : e.tag = "other" => e.perms = mode.other BY DEF AclOk
<1>a. \A i \in I : acl[i].perms = mode.other BY <1>0 DEF Range
<1> HIDE DEF I
<1> DEFINE t == Chosen(acl, I)
<1>1. IsSeq(t) /\ Range(t) = {acl[i] : i \in I \cap DOMAIN acl}
  BY <1>0, ChosenAre
<1> HIDE DEF t
<1>2. ASSUME t # <<>> PROVE Head(t).perms = mode.other
  <2>1. Head(t) \in Range(t) BY <1>1, <1>2, HeadOf
  <2> QED BY <1>a, <1>1, <2>1
<1>3. FindPerms(acl, "other", mode.other) = IF t = <<>> THEN mode.other ELSE Head(t).perms
  BY DEF FindPerms, Tagged, t, I
<1> QED BY <1>2, <1>3

LEMMA NothingApplies == ASSUME NEW rec, IsSeq(rec.acl) PROVE Applying(rec, Anyone) = <<>>
<1>1. {g.name : g \in Range(Anyone.groups)} = {}
  <2>1. Range(<<>>) = {} BY Singles
  <2> QED BY <2>1, AnyoneIs
<1>2. Named(rec.acl, "group", {}) = <<>> BY NoneNamed
<1>3. [i \in DOMAIN <<>> |-> Effectively(<<>>[i].perms, Via("acl_group", <<>>[i].who))] = <<>>
  OBVIOUS
<1>4. <<>> \o <<>> = <<>> OBVIOUS
<1>5. ~MemberOf(Anyone, rec.gid) BY AnyoneIs
<1> QED BY <1>1, <1>2, <1>3, <1>4, <1>5 DEF Applying

\* It gets the bits for others, whatever the ACL.
LEMMA AnyoneGets ==
  ASSUME NEW rec, RecordOk(rec), rec.uid # Nobody
  PROVE  Effective(rec, Anyone).access = rec.mode.other
<1>0. AclOk(rec.acl, rec.mode) /\ IsSeq(rec.acl) BY DEF RecordOk, AclOk
<1>1. EffectiveMode(rec, Anyone).access = rec.mode.other
  BY AnyoneIs DEF EffectiveMode, Effectively
<1>2. EffectiveAcl(rec, Anyone).access = rec.mode.other
  <2>1. \A e \in Range(rec.acl) : e.tag = "user" => e.who \notin {NoName} BY <1>0 DEF AclOk
  <2>2. Named(rec.acl, "user", {NoName}) = <<>> BY <1>0, <2>1, NoneNamed
  <2>3. Named(rec.acl, "user", {Anyone.name}) = <<>> BY <2>2, AnyoneIs
  <2>4. EffectiveAcl(rec, Anyone) = Effectively(FindPerms(rec.acl, "other", rec.mode.other), Via("other_bits", NoName))
    BY <1>0, <2>3, AnyoneIs, NothingApplies DEF EffectiveAcl
  <2> QED BY <1>0, <2>4, OtherPerms DEF Effectively
<1> QED BY <1>1, <1>2, AnyoneIs DEF Effective

LEMMA Severest ==
  ASSUME NEW F, \A f \in F : f.severity \in 1..3, NEW f \in F
  PROVE  \E g \in KeepSeverest(F) : g.path = f.path /\ g.risk = f.risk
<1> DEFINE S == {g \in F : g.path = f.path /\ g.via = f.via /\ g.risk = f.risk}
<1>1. ASSUME NEW g \in S, \A h \in S : h.severity <= g.severity
      PROVE  \E k \in KeepSeverest(F) : k.path = f.path /\ k.risk = f.risk
  <2>1. g \in F /\ g.path = f.path /\ g.via = f.via /\ g.risk = f.risk OBVIOUS
  <2>2. g \in KeepSeverest(F) BY <1>1, <2>1 DEF KeepSeverest
  <2> QED BY <2>1, <2>2
<1>2. f \in S /\ \A h \in S : h.severity \in 1..3 OBVIOUS
<1> HIDE DEF S
<1>3. \E g \in S : \A h \in S : h.severity <= g.severity
  <2>1. CASE \E g \in S : g.severity = 3 BY <1>2, <2>1
  <2>2. CASE (\A g \in S : g.severity # 3) /\ \E g \in S : g.severity = 2 BY <1>2, <2>2
  <2>3. CASE \A g \in S : g.severity # 3 /\ g.severity # 2 BY <1>2, <2>3
  <2> QED BY <2>1, <2>2, <2>3
<1> QED BY <1>1, <1>3

\* One object's findings in the posture map.
PostureOn(q, ctx, broad) ==
  WorldWritable(q, index[q], ctx) \cup CollectSetuid(q, index[q]) \cup WorldReadableSecret(q, index[q], ctx)
    \cup BroadGroupWritable(q, index[q], ctx, broad, GroupDb)

LEMMA FoundFor ==
  ASSUME NEW path, NEW class, NEW access, NEW via, NEW ctx
  PROVE  /\ \A f \in FindingFor(path, class, access, via, ctx) :
               f.severity \in 1..3 /\ f.path = path /\ f.class = class /\ f.risk = DeriveRisk(access, class) /\ f.risk # "none"
         /\ DeriveRisk(access, class) # "none" => FindingFor(path, class, access, via, ctx) # {}
<1> DEFINE risk == DeriveRisk(access, class)
           found == [path |-> path, class |-> class, access |-> access, via |-> via, risk |-> risk,
                     severity |-> DeriveSeverity(class, risk), remediation |-> Remediation(via, path, ctx),
                     mac |-> {}]
<1>1. DeriveSeverity(class, risk) \in 1..3
  BY DEF DeriveSeverity
<1>2. FindingFor(path, class, access, via, ctx) = IF risk = "none" THEN {} ELSE {found}
  BY DEF FindingFor
<1>3. found.severity = DeriveSeverity(class, risk) /\ found.path = path /\ found.class = class /\ found.risk = risk
  OBVIOUS
<1> HIDE DEF found, risk
<1>4. \A f \in FindingFor(path, class, access, via, ctx) : f = found /\ risk # "none"
  BY <1>2
<1>5. risk # "none" => found \in FindingFor(path, class, access, via, ctx)
  BY <1>2
<1> QED
  BY <1>1, <1>3, <1>4, <1>5 DEF risk

LEMMA OnSeverity ==
  ASSUME NEW q, NEW ctx, NEW broad, NEW f \in PostureOn(q, ctx, broad)
  PROVE  f.severity \in 1..3
<1>1. CASE f \in WorldWritable(q, index[q], ctx) BY <1>1, FoundFor DEF WorldWritable
<1>2. CASE f \in CollectSetuid(q, index[q]) BY <1>2 DEF CollectSetuid
<1>3. CASE f \in WorldReadableSecret(q, index[q], ctx) BY <1>3, FoundFor DEF WorldReadableSecret
<1>4. CASE f \in BroadGroupWritable(q, index[q], ctx, broad, GroupDb)
  <2>1. PICK n : f \in FindingFor(q, index[q].class, OwningGroupPerms(index[q]), Via("group", n), ctx)
    BY <1>4 DEF BroadGroupWritable
  <2> QED BY <2>1, FoundFor
<1> QED BY <1>1, <1>2, <1>3, <1>4 DEF PostureOn

\* What the bits for others amount to is among the object's findings.
LEMMA OnCovers ==
  ASSUME NEW q, NEW ctx, NEW broad, index[q].class \in ObjectClasses, index[q].class # "Generic",
         DeriveRisk(index[q].mode.other, index[q].class) # "none"
  PROVE  \E g \in PostureOn(q, ctx, broad) :
            g.path = q /\ g.risk = DeriveRisk(index[q].mode.other, index[q].class)
<1> DEFINE class == index[q].class  other == index[q].mode.other
<1>1. CASE "w" \in other /\ class = "SetuidBinary"
  <2>1. DeriveRisk(other, class) = "escalation" BY <1>1 DEF DeriveRisk, Privileged
  <2>2. \E g \in CollectSetuid(q, index[q]) : g.path = q /\ g.risk = "escalation" BY <1>1 DEF CollectSetuid
  <2> QED BY <2>1, <2>2 DEF PostureOn
<1>2. CASE "w" \in other /\ class # "SetuidBinary"
  <2>1. class \in SensitiveWritable BY <1>2 DEF ObjectClasses, SensitiveWritable
  <2>2. WorldWritable(q, index[q], ctx) = FindingFor(q, class, other, Via("other_bits", NoName), ctx)
    BY <1>2, <2>1 DEF WorldWritable
  <2>3. \E g \in WorldWritable(q, index[q], ctx) : g.path = q /\ g.risk = DeriveRisk(other, class)
    BY <2>2, FoundFor
  <2> QED BY <2>3 DEF PostureOn
<1>3. CASE "w" \notin other
  <2>1. "r" \in other /\ class = "Secret" /\ DeriveRisk(other, class) = "leak" BY <1>3 DEF DeriveRisk
  <2>2. WorldReadableSecret(q, index[q], ctx) = FindingFor(q, class, {"r"}, Via("other_bits", NoName), ctx)
    BY <2>1 DEF WorldReadableSecret
  <2>3. DeriveRisk({"r"}, class) = "leak" BY <2>1 DEF DeriveRisk
  <2>4. \E g \in WorldReadableSecret(q, index[q], ctx) : g.path = q /\ g.risk = "leak"
    BY <2>2, <2>3, FoundFor
  <2> QED BY <2>1, <2>4 DEF PostureOn
<1> QED BY <1>1, <1>2, <1>3

LEMMA PostureIs ==
  ASSUME NEW reg, NEW broad
  PROVE  AuditFs(index, reg, broad, GroupDb, NullMac)
           = KeepSeverest(UNION {PostureOn(q, GlobalContext(reg), broad) : q \in DOMAIN index})
<1>1. ASSUME NEW F PROVE AnnotatePosture(F, NullMac) = F
  BY DEF AnnotatePosture, NullMac
<1> QED BY <1>1 DEF AuditFs, PostureOn

LEMMA IndexCovers == ASSUME IndexInv PROVE PostureCovers
<1> DEFINE ctx == GlobalContext(Registry)
           posture == AuditFs(index, Registry, cmd.config.broad_groups, GroupDb, NullMac)
<1> SUFFICES ASSUME \A q \in DOMAIN index : index[q].uid # Nobody,
                    NEW f \in Expose(index, Anyone, Range(ScanRoots(cmd)), ctx), f.class # "Generic"
             PROVE  \E g \in posture : g.path = f.path /\ g.risk = f.risk
  BY DEF PostureCovers, Anyone
<1> DEFINE on(q) == PostureOn(q, ctx, cmd.config.broad_groups)
           F == UNION {on(q) : q \in DOMAIN index}
<1>1. PICK q \in DOMAIN index : f \in FindingFor(q, index[q].class, Effective(index[q], Anyone).access,
                                                   Effective(index[q], Anyone).via, ctx)
  BY DEF Expose, Reachable
<1>2. RecordOk(index[q]) /\ Effective(index[q], Anyone).access = index[q].mode.other
  BY AnyoneGets DEF IndexInv, IndexKept
<1>3. f.path = q /\ f.class = index[q].class /\ f.risk = DeriveRisk(index[q].mode.other, index[q].class) /\ f.risk # "none"
  BY <1>1, <1>2, FoundFor
<1>4. index[q].class \in ObjectClasses BY <1>2 DEF RecordOk
<1>5. PICK g \in on(q) : g.path = q /\ g.risk = f.risk
  BY <1>3, <1>4, OnCovers
<1>6. \A h \in F : h.severity \in 1..3 BY OnSeverity
<1>7. g \in F OBVIOUS
<1>8. posture = KeepSeverest(F) BY PostureIs
<1> HIDE DEF F, posture
<1>9. \E h \in KeepSeverest(F) : h.path = g.path /\ h.risk = g.risk
  BY <1>6, <1>7, Severest
<1> QED BY <1>3, <1>5, <1>8, <1>9

\* Whatever a principal without files, accounts, groups or ACL entries of its own
\* could do to a classified object of any tree, with any ACLs and any mistakes of
\* getfacl, the posture map reports under that path and risk (the three collectors
\* of audit fs and dedup_keep_severest against effective_acl and finding_for).
THEOREM PostureMissesNothing == DeviceSpec => []PostureCovers
<1>1. AuditInit => IndexInv BY InitIndex
<1>2. IndexInv /\ [DeviceNext]_auditVars => IndexInv' BY NextIndexInv
<1>3. IndexInv => PostureCovers BY IndexCovers
<1> QED BY <1>1, <1>2, <1>3, PTL DEF DeviceSpec

-----------------------------------------------------------------------------
(* What the kernel would say of a record.                                  *)

LEMMA NamedAre ==
  ASSUME NEW acl, IsSeq(acl), NEW tag, NEW names
  PROVE  /\ IsSeq(Named(acl, tag, names))
         /\ Range(Named(acl, tag, names)) = {e \in Range(acl) : e.tag = tag /\ e.who \in names}
<1> DEFINE I == {i \in DOMAIN acl : acl[i].tag = tag /\ acl[i].who \in names}
<1>1. {acl[i] : i \in I \cap DOMAIN acl} = {e \in Range(acl) : e.tag = tag /\ e.who \in names}
  BY DEF Range
<1>2. Named(acl, tag, names) = Chosen(acl, I) BY DEF Named
<1> HIDE DEF I
<1> QED BY <1>1, <1>2, ChosenAre

LEMMA TaggedAre ==
  ASSUME NEW acl, IsSeq(acl), NEW tag
  PROVE  /\ IsSeq(Tagged(acl, tag))
         /\ Range(Tagged(acl, tag)) = {e \in Range(acl) : e.tag = tag}
<1> DEFINE I == {i \in DOMAIN acl : acl[i].tag = tag}
<1>1. {acl[i] : i \in I \cap DOMAIN acl} = {e \in Range(acl) : e.tag = tag}
  BY DEF Range
<1>2. Tagged(acl, tag) = Chosen(acl, I) BY DEF Tagged
<1> HIDE DEF I
<1> QED BY <1>1, <1>2, ChosenAre

\* find_perms where the entries of the tag agree, as those of a kernel do.
LEMMA Found ==
  ASSUME NEW acl, IsSeq(acl), NEW tag, NEW default, NEW e \in Range(acl), e.tag = tag,
         \A f \in Range(acl) : f.tag = tag => f.perms = e.perms
  PROVE  FindPerms(acl, tag, default) = e.perms
<1> DEFINE t == Tagged(acl, tag)
<1>1. IsSeq(t) /\ Range(t) = {f \in Range(acl) : f.tag = tag} BY TaggedAre
<1>2. FindPerms(acl, tag, default) = IF t = <<>> THEN default ELSE Head(t).perms BY DEF FindPerms
<1> HIDE DEF t
<1>3. t # <<>> BY <1>1, Singles
<1>4. Head(t) \in Range(t) BY <1>1, <1>3, HeadOf
<1> QED BY <1>1, <1>2, <1>3, <1>4

LEMMA NotFound ==
  ASSUME NEW acl, IsSeq(acl), NEW tag, NEW default, \A f \in Range(acl) : f.tag # tag
  PROVE  FindPerms(acl, tag, default) = default
<1> DEFINE t == Tagged(acl, tag)
<1>1. IsSeq(t) /\ Range(t) = {} BY TaggedAre
<1>2. FindPerms(acl, tag, default) = IF t = <<>> THEN default ELSE Head(t).perms BY DEF FindPerms
<1> HIDE DEF t
<1> QED BY <1>1, <1>2, EmptyOnes

LEMMA MaskIs ==
  ASSUME NEW acl, NEW mode, AclOk(acl, mode), NEW perm \in AllPerms
  PROVE  perm \in AclMask(acl) <=> \A m \in Range(acl) : m.tag = "mask" => perm \in m.perms
<1>0. IsSeq(acl) BY DEF AclOk
<1>1. CASE \A m \in Range(acl) : m.tag # "mask"
  BY <1>0, <1>1, NotFound DEF AclMask
<1>2. ASSUME NEW m \in Range(acl), m.tag = "mask"
      PROVE  perm \in AclMask(acl) <=> \A x \in Range(acl) : x.tag = "mask" => perm \in x.perms
  <2>1. \A f \in Range(acl) : f.tag = "mask" => f.perms = m.perms BY <1>2 DEF AclOk
  <2>2. FindPerms(acl, "mask", AllPerms) = m.perms BY <1>0, <1>2, <2>1, Found
  <2> QED BY <1>2, <2>1, <2>2 DEF AclMask
<1> QED BY <1>1, <1>2

\* The entries of the group class that are about p.
OfGroups(acl, gid, p) ==
  {e \in Range(acl) : \/ e.tag = "group" /\ InNamedGroup(p, e.who)
                      \/ e.tag = "group_obj" /\ MemberOf(p, gid)}

LEMMA ApplyingAre ==
  ASSUME NEW rec, AclOk(rec.acl, rec.mode), NEW p
  PROVE  /\ Applying(rec, p) = <<>> <=> OfGroups(rec.acl, rec.gid, p) = {}
         /\ {a.access : a \in Range(Applying(rec, p))} = {e.perms : e \in OfGroups(rec.acl, rec.gid, p)}
<1> DEFINE acl == rec.acl
           names == {g.name : g \in Range(p.groups)}
           named == Named(acl, "group", names)
           obj == Tagged(acl, "group_obj")
           via == Via("group", GroupNameFor(p, rec.gid))
           perms == FindPerms(acl, "group_obj", {})
           own == IF MemberOf(p, rec.gid) THEN [i \in DOMAIN obj |-> Effectively(perms, via)] ELSE <<>>
           rest == [i \in DOMAIN named |-> Effectively(named[i].perms, Via("acl_group", named[i].who))]
<1>0. IsSeq(acl) BY DEF AclOk
<1>1. Applying(rec, p) = own \o rest BY DEF Applying
<1>2. IsSeq(named) /\ Range(named) = {e \in Range(acl) : e.tag = "group" /\ e.who \in names}
  BY <1>0, NamedAre
<1>3. IsSeq(obj) /\ Range(obj) = {e \in Range(acl) : e.tag = "group_obj"} BY <1>0, TaggedAre
<1>4. \A e \in Range(obj) : e.perms = perms
  <2> SUFFICES ASSUME NEW e \in Range(obj) PROVE e.perms = perms OBVIOUS
  <2>1. e \in Range(acl) /\ e.tag = "group_obj" BY <1>3
  <2>2. \A f \in Range(acl) : f.tag = "group_obj" => f.perms = e.perms BY <2>1 DEF AclOk
  <2> HIDE DEF obj
  <2> QED BY <1>0, <2>1, <2>2, Found
<1>5. \A w : w \in names <=> InNamedGroup(p, w) BY DEF InNamedGroup
<1> HIDE DEF acl, names, named, obj, perms, via
<1>6. IsSeq(rest) /\ Len(rest) = Len(named) /\ DOMAIN rest = DOMAIN named
      /\ \A i \in DOMAIN named : rest[i].access = named[i].perms
  <2>1. Len(named) \in Nat /\ DOMAIN named = 1..Len(named) BY <1>2 DEF IsSeq
  <2>2. DOMAIN rest = 1..Len(named) /\ rest = [i \in 1..Len(named) |-> rest[i]] BY <2>1
  <2>3. \A i \in DOMAIN named : rest[i].access = named[i].perms BY DEF Effectively
  <2> QED BY <2>1, <2>2, <2>3, FunctionSeq
<1>7. {a.access : a \in Range(rest)} = {e.perms : e \in Range(named)}
  BY <1>6 DEF Range
<1>8. IsSeq(own) /\ {a.access : a \in Range(own)} = {e.perms : e \in {f \in Range(obj) : MemberOf(p, rec.gid)}}
  <2>1. CASE ~MemberOf(p, rec.gid)
    BY <2>1, Singles
  <2>2. CASE MemberOf(p, rec.gid)
    <3> DEFINE o == [i \in DOMAIN obj |-> Effectively(perms, via)]
    <3>1. Len(obj) \in Nat /\ DOMAIN obj = 1..Len(obj) BY <1>3 DEF IsSeq
    <3>2. DOMAIN o = 1..Len(obj) /\ o = [i \in 1..Len(obj) |-> o[i]] BY <3>1
    <3>3. IsSeq(o) BY <3>1, <3>2, FunctionSeq
    <3>4. \A i \in DOMAIN obj : o[i].access = perms /\ obj[i].perms = perms
      BY <1>4 DEF Effectively, Range
    <3>5. {a.access : a \in Range(o)} = {e.perms : e \in Range(obj)}
      BY <3>4 DEF Range
    <3> QED BY <2>2, <3>3, <3>5
  <2> QED BY <2>1, <2>2
<1> HIDE DEF own, rest
<1>9. IsSeq(own \o rest) /\ Range(own \o rest) = Range(own) \cup Range(rest)
  BY <1>6, <1>8, Concatenated
<1>10. OfGroups(rec.acl, rec.gid, p) = Range(named) \cup {f \in Range(obj) : MemberOf(p, rec.gid)}
  BY <1>2, <1>3, <1>5 DEF OfGroups, acl
<1>11. {a.access : a \in Range(own \o rest)} = {e.perms : e \in OfGroups(rec.acl, rec.gid, p)}
  <2> DEFINE K == {f \in Range(obj) : MemberOf(p, rec.gid)}
  <2>1. {a.access : a \in Range(own \o rest)} = {a.access : a \in Range(own)} \cup {a.access : a \in Range(rest)}
    BY <1>9
  <2>2. {e.perms : e \in OfGroups(rec.acl, rec.gid, p)} = {e.perms : e \in Range(named)} \cup {e.perms : e \in K}
    BY <1>10
  <2> HIDE DEF K
  <2>3. {a.access : a \in Range(own)} = {e.perms : e \in K} BY <1>8 DEF K
  <2> QED BY <1>7, <2>1, <2>2, <2>3
<1>12. own \o rest = <<>> <=> Range(own \o rest) = {}
  BY <1>9, Singles, EmptyOnes
<1> QED BY <1>1, <1>11, <1>12

\* What the record of an inode holds once its ACL has been read.
RecordOf(i) ==
  [uid |-> fs[i].uid, gid |-> fs[i].gid, mode |-> fs[i].mode,
   acl |-> LET a == ParseGetfacl(fs[i].acl) IN IF IsExtended(a) THEN a ELSE <<>>]
Reads(rec, i) ==
  /\ rec.uid = RecordOf(i).uid /\ rec.gid = RecordOf(i).gid /\ rec.mode = RecordOf(i).mode /\ rec.acl = RecordOf(i).acl

\* The user and group entries that apply, as the kernel and as the audit take them.
Users(acl, p) == {e \in Range(acl) : e.tag = "user" /\ e.who = p.name}
Grants(acl, S, perm) == (\E e \in S : perm \in e.perms) /\ \A m \in Range(acl) : m.tag = "mask" => perm \in m.perms

LEMMA KernelSays ==
  ASSUME NEW i, NEW p, NEW perm, NEW acl, acl = fs[i].acl
  PROVE  KernelAllows(i, p, perm) <=>
           \/ p.uid = 0
           \/ p.uid = fs[i].uid /\ perm \in fs[i].mode.owner
           \/ p.uid # fs[i].uid /\
              IF acl = <<>> THEN perm \in IF MemberOf(p, fs[i].gid) THEN fs[i].mode.group ELSE fs[i].mode.other
              ELSE IF Users(acl, p) # {} THEN Grants(acl, Users(acl, p), perm)
              ELSE IF OfGroups(acl, fs[i].gid, p) # {} THEN Grants(acl, OfGroups(acl, fs[i].gid, p), perm)
              ELSE perm \in fs[i].mode.other
<1> DEFINE users == {x \in Range(acl) : x.tag = "user" /\ x.who = p.name}
           groups == {x \in Range(acl) : \/ x.tag = "group" /\ InNamedGroup(p, x.who)
                                         \/ x.tag = "group_obj" /\ MemberOf(p, fs[i].gid)}
           masked(S) == {x \in S : \A m \in Range(acl) : m.tag = "mask" => perm \in m.perms}
           grants(S) == \E x \in masked(S) : perm \in x.perms
<1>1. users = Users(acl, p) /\ groups = OfGroups(acl, fs[i].gid, p) BY DEF Users, OfGroups
<1>2. \A S : grants(S) <=> Grants(acl, S, perm) BY DEF Grants
<1> HIDE DEF masked
<1>3. KernelAllows(i, p, perm) <=>
           \/ p.uid = 0
           \/ p.uid = fs[i].uid /\ perm \in fs[i].mode.owner
           \/ p.uid # fs[i].uid /\
              IF acl = <<>> THEN perm \in IF MemberOf(p, fs[i].gid) THEN fs[i].mode.group ELSE fs[i].mode.other
              ELSE IF users # {} THEN grants(users)
              ELSE IF groups # {} THEN grants(groups)
              ELSE perm \in fs[i].mode.other
  BY DEF KernelAllows, masked
<1> HIDE DEF users, groups, grants
<1> QED BY <1>1, <1>2, <1>3

\* Without an extended ACL.
LEMMA ModeAgrees ==
  ASSUME NEW i, NEW p, NEW rec, NEW perm \in AllPerms, p.uid # 0,
         AclOk(fs[i].acl, fs[i].mode), Reads(rec, i), ~IsExtended(fs[i].acl)
  PROVE  perm \in EffectiveMode(rec, p).access <=> KernelAllows(i, p, perm)
<1> DEFINE acl == fs[i].acl
<1>0. rec.uid = fs[i].uid /\ rec.gid = fs[i].gid /\ rec.mode = fs[i].mode BY DEF Reads, RecordOf
<1>1. EffectiveMode(rec, p).access =
        IF p.uid = rec.uid THEN rec.mode.owner ELSE IF MemberOf(p, rec.gid) THEN rec.mode.group ELSE rec.mode.other
  BY DEF EffectiveMode, Effectively
<1>2. IsSeq(acl) /\ \A e \in Range(acl) : e.tag \notin {"user", "group", "mask"} BY DEF AclOk, IsExtended
<1>3. ASSUME acl # <<>>
      PROVE  /\ Users(acl, p) = {}
             /\ MemberOf(p, fs[i].gid) => /\ OfGroups(acl, fs[i].gid, p) # {}
                                          /\ Grants(acl, OfGroups(acl, fs[i].gid, p), perm) <=> perm \in fs[i].mode.group
             /\ ~MemberOf(p, fs[i].gid) => OfGroups(acl, fs[i].gid, p) = {}
  <2>1. Users(acl, p) = {} BY <1>2 DEF Users
  <2>2. ~MemberOf(p, fs[i].gid) => OfGroups(acl, fs[i].gid, p) = {} BY <1>2 DEF OfGroups
  <2>3. PICK e \in Range(acl) : e.tag = "group_obj" BY <1>3 DEF AclOk
  <2>4. \A f \in Range(acl) : f.tag = "group_obj" => f.perms = fs[i].mode.group BY DEF AclOk
  <2>5. ASSUME MemberOf(p, fs[i].gid)
        PROVE  e \in OfGroups(acl, fs[i].gid, p) /\ \A f \in OfGroups(acl, fs[i].gid, p) : f.perms = fs[i].mode.group
    BY <1>2, <2>3, <2>4, <2>5 DEF OfGroups
  <2>6. MemberOf(p, fs[i].gid) => (Grants(acl, OfGroups(acl, fs[i].gid, p), perm) <=> perm \in fs[i].mode.group)
    BY <1>2, <2>5 DEF Grants
  <2> QED BY <2>1, <2>2, <2>5, <2>6
<1> HIDE DEF acl
<1>4. KernelAllows(i, p, perm) <=>
           \/ p.uid = fs[i].uid /\ perm \in fs[i].mode.owner
           \/ p.uid # fs[i].uid /\ perm \in IF MemberOf(p, fs[i].gid) THEN fs[i].mode.group ELSE fs[i].mode.other
  BY <1>3, KernelSays DEF acl
<1> QED BY <1>0, <1>1, <1>4

LEMMA AclAgrees ==
  ASSUME NEW i, NEW p, NEW rec, NEW perm \in AllPerms, p.uid # 0,
         AclOk(fs[i].acl, fs[i].mode), Reads(rec, i), IsExtended(fs[i].acl)
  PROVE  perm \in EffectiveAcl(rec, p).access <=> KernelAllows(i, p, perm)
<1> DEFINE acl == fs[i].acl
           a == ParseGetfacl(acl)
<1>1. IsSeq(acl) BY DEF AclOk
<1>2. IsSeq(a) /\ Range(a) = {e \in Range(acl) : e.tag \in Enforced} /\ IsExtended(a) BY <1>1, ParsedAre
<1>3. rec.uid = fs[i].uid /\ rec.gid = fs[i].gid /\ rec.mode = fs[i].mode /\ rec.acl = a
  BY <1>2 DEF Reads, RecordOf
<1>4. AclOk(a, fs[i].mode) BY ParsedOk
<1>5. acl # <<>> BY Singles DEF IsExtended
<1> DEFINE mask == AclMask(a)
           user == Named(a, "user", {p.name})
           applying == Applying(rec, p)
           groups == OfGroups(acl, fs[i].gid, p)
<1>6. IsSeq(user) /\ Range(user) = Users(acl, p)
  <2>1. {e \in Range(a) : e.tag = "user" /\ e.who \in {p.name}} = Users(acl, p) BY <1>2 DEF Users, Enforced
  <2> QED BY <1>2, <2>1, NamedAre
<1>7. OfGroups(a, fs[i].gid, p) = groups BY <1>2 DEF OfGroups, Enforced
<1>8. perm \in mask <=> \A m \in Range(acl) : m.tag = "mask" => perm \in m.perms
  <2>1. perm \in mask <=> \A m \in Range(a) : m.tag = "mask" => perm \in m.perms BY <1>4, MaskIs
  <2> QED BY <1>2, <2>1 DEF Enforced
<1>9. (applying = <<>> <=> groups = {}) /\ {x.access : x \in Range(applying)} = {e.perms : e \in groups}
  BY <1>3, <1>4, <1>7, ApplyingAre
<1>10. FindPerms(a, "user_obj", fs[i].mode.owner) = fs[i].mode.owner
  <2>1. CASE \A f \in Range(a) : f.tag # "user_obj" BY <1>2, <2>1, NotFound
  <2>2. ASSUME NEW e \in Range(a), e.tag = "user_obj" PROVE FindPerms(a, "user_obj", fs[i].mode.owner) = fs[i].mode.owner
    <3>1. \A f \in Range(a) : f.tag = "user_obj" => f.perms = fs[i].mode.owner BY <1>4 DEF AclOk
    <3> HIDE DEF a
    <3>2. e.perms = fs[i].mode.owner /\ \A f \in Range(a) : f.tag = "user_obj" => f.perms = e.perms BY <2>2, <3>1
    <3> QED BY <1>2, <2>2, <3>2, Found
  <2> QED BY <2>1, <2>2
<1>11. FindPerms(a, "other", fs[i].mode.other) = fs[i].mode.other BY <1>4, OtherPerms
<1> HIDE DEF a, acl, mask, user, applying, groups
<1>12. EffectiveAcl(rec, p).access =
         IF p.uid = rec.uid THEN fs[i].mode.owner
         ELSE IF user # <<>> THEN Head(user).perms \cap mask
         ELSE IF applying # <<>> THEN GroupClass(applying, mask).access
         ELSE fs[i].mode.other
  BY <1>3, <1>10, <1>11 DEF EffectiveAcl, Effectively, mask, user, applying
<1>13. user # <<>> <=> Users(acl, p) # {} BY <1>6, Singles, EmptyOnes
<1>14. ASSUME user # <<>> PROVE perm \in Head(user).perms \cap mask <=> Grants(acl, Users(acl, p), perm)
  <2>1. Head(user) \in Users(acl, p) BY <1>6, <1>14, HeadOf
  <2>2. \A e \in Users(acl, p) : e.perms = Head(user).perms
    BY <2>1 DEF AclOk, Users, acl
  <2> QED BY <1>8, <2>1, <2>2 DEF Grants
<1>15. perm \in GroupClass(applying, mask).access <=> Grants(acl, groups, perm)
  <2>1. GroupClass(applying, mask).access = UNION {x.access \cap mask : x \in Range(applying)}
    BY DEF GroupClass, Effectively
  <2>2. perm \in GroupClass(applying, mask).access <=>
          perm \in mask /\ \E S \in {x.access : x \in Range(applying)} : perm \in S
    BY <2>1
  <2>3. (\E S \in {e.perms : e \in groups} : perm \in S) <=> \E e \in groups : perm \in e.perms OBVIOUS
  <2> QED BY <1>8, <1>9, <2>2, <2>3 DEF Grants
<1>16. KernelAllows(i, p, perm) <=>
           \/ p.uid = fs[i].uid /\ perm \in fs[i].mode.owner
           \/ p.uid # fs[i].uid /\
              IF Users(acl, p) # {} THEN Grants(acl, Users(acl, p), perm)
              ELSE IF groups # {} THEN Grants(acl, groups, perm)
              ELSE perm \in fs[i].mode.other
  BY <1>5, KernelSays DEF acl, groups
<1> QED BY <1>3, <1>9, <1>12, <1>13, <1>14, <1>15, <1>16

\* The access check is the kernel's, permission by permission.
LEMMA AccessAgrees ==
  ASSUME NEW i, NEW p, NEW rec, NEW perm \in AllPerms,
         AclOk(fs[i].acl, fs[i].mode), Reads(rec, i)
  PROVE  perm \in Effective(rec, p).access <=> KernelAllows(i, p, perm)
<1>1. IsSeq(fs[i].acl) BY DEF AclOk
<1>2. IsExtended(ParseGetfacl(fs[i].acl)) <=> IsExtended(fs[i].acl) BY <1>1, ParsedAre
<1>3. ~IsExtended(<<>>) BY Singles DEF IsExtended
<1>4. IsExtended(rec.acl) <=> IsExtended(fs[i].acl) BY <1>2, <1>3 DEF Reads, RecordOf
<1>5. CASE p.uid = 0
  BY <1>5 DEF Effective, Effectively, KernelAllows
<1>6. CASE p.uid # 0 /\ IsExtended(fs[i].acl)
  BY <1>4, <1>6, AclAgrees DEF Effective
<1>7. CASE p.uid # 0 /\ ~IsExtended(fs[i].acl)
  BY <1>4, <1>7, ModeAgrees DEF Effective
<1> QED BY <1>5, <1>6, <1>7

-----------------------------------------------------------------------------
(* Where the index comes from.                                             *)

\* A path is at or under a root, with every name on the way from there.
Held(q, r, S) == IsSeq(r) /\ AtOrUnder(r, q) /\ \A k \in Len(r)..Len(q) : SubSeq(q, 1, k) \in S
Anchored(q) == IsSeq(q) /\ \E r \in Range(ScanRoots(cmd)) : Held(q, r, DOMAIN stats)

LEMMA RootHeld ==
  ASSUME NEW r, IsSeq(r), NEW S, r \in S PROVE Held(r, r, S)
<1>1. r \in Seq(Range(r)) /\ Len(r) \in Nat BY DEF IsSeq
<1>2. SubSeq(r, 1, Len(r)) = r BY <1>1
<1>3. \A k \in Len(r)..Len(r) : k = Len(r) BY <1>1
<1>4. AtOrUnder(r, r) BY <1>1 DEF AtOrUnder, IsPrefix
<1> QED BY <1>2, <1>3, <1>4 DEF Held

LEMMA ChildHeld ==
  ASSUME NEW q, IsSeq(q), NEW r, NEW S, NEW T, NEW n, Held(q, r, S), T = S \cup {Append(q, n)}
  PROVE  IsSeq(Append(q, n)) /\ Held(Append(q, n), r, T)
<1> DEFINE c == Append(q, n)
<1>1. q \in Seq(Range(q)) /\ Len(q) \in Nat BY DEF IsSeq
<1>2. IsSeq(c) /\ Len(c) = Len(q) + 1 /\ Len(c) \in Nat
  <2>1. IsSeq(c) BY AppendOf
  <2> QED BY <1>1, <2>1
<1>3. \A k \in 0..Len(q) : SubSeq(c, 1, k) = SubSeq(q, 1, k)
  BY <1>1
<1>4. SubSeq(c, 1, Len(c)) = c
  <2>1. c \in Seq(Range(c)) BY <1>2 DEF IsSeq
  <2> QED BY <2>1, <1>2
<1>5. Len(r) \in Nat /\ Len(r) <= Len(q) /\ SubSeq(r, 1, Len(r)) = SubSeq(q, 1, Len(r))
  BY <1>1 DEF Held, AtOrUnder, IsPrefix, IsSeq
<1> HIDE DEF c
<1>6. AtOrUnder(r, c) BY <1>1, <1>2, <1>3, <1>5 DEF AtOrUnder, IsPrefix
<1>7. ASSUME NEW k \in Len(r)..Len(c) PROVE SubSeq(c, 1, k) \in T
  <2>1. CASE k = Len(c) BY <1>4, <2>1 DEF c
  <2>2. CASE k # Len(c)
    <3>1. k \in Len(r)..Len(q) /\ k \in 0..Len(q) BY <1>1, <1>2, <1>5, <2>2
    <3> QED BY <1>3, <3>1 DEF Held
  <2> QED BY <2>1, <2>2
<1> QED BY <1>2, <1>6, <1>7 DEF Held, c

Built ==
  swaps = 0 /\ unread = {} =>
    DOMAIN index = DOMAIN stats /\ \A q \in DOMAIN index : Reads(index[q], Lookup(fs, q))

StatsTrue == \A q \in DOMAIN stats : Anchored(q) /\ (swaps = 0 => Lookup(fs, q) \in DOMAIN fs /\ stats[q] = StatOf(Lookup(fs, q)))
Walking ==
  /\ IsSeq(stack) /\ \A f \in Range(stack) : f.path \in DOMAIN stats
  /\ at \in {"recheck", "entries"} => reading.path \in DOMAIN stats
Asked ==
  at \notin {"start", "done"} =>
    cmd \in Invocations /\ IsSeq(rootsLeft) /\ Range(rootsLeft) \subseteq Range(ScanRoots(cmd))
ReportInv ==
  /\ swaps \in Nat /\ (swaps = 0 => fs = Tree)
  /\ at = "start" => DOMAIN stats = {}
  /\ Asked /\ StatsTrue /\ Walking
  /\ at = "report" => Built

LEMMA InitReport == ASSUME AuditInit PROVE ReportInv
<1>1. IsSeq(<<>>) /\ Range(<<>>) = {} BY Singles
<1>2. DOMAIN stats = {} /\ stack = <<>> /\ at = "start" /\ swaps = 0 /\ fs = Tree BY DEF AuditInit
<1> QED BY <1>1, <1>2 DEF ReportInv, Asked, StatsTrue, Walking

\* One more entry of the walk.
LEMMA Pushed ==
  ASSUME ReportInv, NEW q, stats' = PushStat(q, Lookup(fs, q)), Lookup(fs, q) \in DOMAIN fs,
         UNCHANGED <<fs, swaps, cmd>>, Anchored(q)'
  PROVE  StatsTrue' /\ DOMAIN stats' = DOMAIN stats \cup {q}
<1>1. DOMAIN stats' = DOMAIN stats \cup {q}
      /\ \A x \in DOMAIN stats' : stats'[x] = IF x = q THEN StatOf(Lookup(fs, q)) ELSE stats[x]
  BY DEF PushStat
<1>2. ASSUME NEW x \in DOMAIN stats PROVE Anchored(x)'
  BY <1>1, <1>2 DEF ReportInv, StatsTrue, Anchored, Held
<1>3. ASSUME NEW x \in DOMAIN stats', swaps' = 0
      PROVE  Lookup(fs', x) \in DOMAIN fs' /\ stats'[x] = StatOf(Lookup(fs, x))'
  <2>1. \A i : StatOf(i)' = StatOf(i) BY DEF StatOf
  <2>2. x # q => Lookup(fs, x) \in DOMAIN fs /\ stats[x] = StatOf(Lookup(fs, x))
    BY <1>1, <1>3 DEF ReportInv, StatsTrue
  <2>3. StatOf(Lookup(fs, x))' = StatOf(Lookup(fs, x)) BY DEF StatOf
  <2> QED BY <1>1, <2>2, <2>3
<1> QED BY <1>1, <1>2, <1>3 DEF StatsTrue

LEMMA ReportedRoot == ASSUME ReportInv, EnterRoot PROVE ReportInv'
<1>0. PICK r : r = Head(rootsLeft) OBVIOUS
<1>1. /\ at = "roots" /\ at' = "descend" /\ UNCHANGED <<fs, swaps, cmd, reading, index, unread>>
      /\ rootsLeft # <<>> /\ rootsLeft' = Tail(rootsLeft) /\ Lookup(fs, r) \in DOMAIN fs
      /\ stats' = PushStat(r, Lookup(fs, r))
  BY <1>0 DEF EnterRoot, Ignored
<1>2. cmd \in Invocations /\ IsSeq(rootsLeft) /\ Range(rootsLeft) \subseteq Range(ScanRoots(cmd))
  BY <1>1 DEF ReportInv, Asked
<1>3. r \in Range(ScanRoots(cmd)) BY <1>0, <1>1, <1>2, HeadOf
<1>4. IsSeq(r) BY <1>2, <1>3, InvocationAssumption
<1>5. stack' = stack \/ stack' = <<[path |-> r, ino |-> Lookup(fs, r)]>> BY <1>0 DEF EnterRoot
<1>6. r \in DOMAIN stats' BY <1>1 DEF PushStat
<1>7. Held(r, r, DOMAIN stats') BY <1>4, <1>6, RootHeld
<1>8. Anchored(r)' BY <1>1, <1>3, <1>4, <1>7 DEF Anchored
<1>9. StatsTrue' /\ DOMAIN stats' = DOMAIN stats \cup {r} BY <1>1, <1>8, Pushed
<1>10. Asked' BY <1>1, <1>2, TailOf DEF Asked
<1>11. IsSeq(stack') /\ \A f \in Range(stack') : f.path \in DOMAIN stats'
  <2>1. CASE stack' = stack BY <1>9, <2>1 DEF ReportInv, Walking
  <2>2. CASE stack' = <<[path |-> r, ino |-> Lookup(fs, r)]>>
    <3>1. IsSeq(stack') /\ Range(stack') = {[path |-> r, ino |-> Lookup(fs, r)]} BY <2>2, Singles
    <3> QED BY <1>6, <3>1
  <2> QED BY <1>5, <2>1, <2>2
<1>12. Walking' BY <1>1, <1>11 DEF Walking
<1> QED BY <1>1, <1>9, <1>10, <1>12 DEF ReportInv

LEMMA ReportedEntry == ASSUME ReportInv, NEW n, ReadEntry(n) PROVE ReportInv'
<1>0. PICK q : q = Append(reading.path, n) OBVIOUS
<1>1. /\ at = "entries" /\ UNCHANGED <<fs, swaps, at, cmd, rootsLeft, index, unread>>
      /\ reading' = [reading EXCEPT !.names = @ \ {n}]
      /\ UNCHANGED <<stats, stack>> \/ (Lookup(fs, q) \in DOMAIN fs /\ stats' = PushStat(q, Lookup(fs, q)))
      /\ stack' = stack \/ (stats' = PushStat(q, Lookup(fs, q)) /\ stack' = Append(stack, [path |-> q, ino |-> Lookup(fs, q)]))
  BY <1>0 DEF ReadEntry, Descend
<1>2. reading'.path = reading.path BY <1>1
<1>3. Asked' BY <1>1 DEF ReportInv, Asked
<1>4. reading.path \in DOMAIN stats BY <1>1 DEF ReportInv, Walking
<1>5. PICK r \in Range(ScanRoots(cmd)) : Held(reading.path, r, DOMAIN stats)
  BY <1>4 DEF ReportInv, StatsTrue, Anchored
<1>6. IsSeq(reading.path) BY <1>4 DEF ReportInv, StatsTrue, Anchored
<1>7. IsSeq(q) /\ Held(q, r, DOMAIN stats \cup {q}) BY <1>0, <1>5, <1>6, ChildHeld
<1>8. CASE UNCHANGED <<stats, stack>>
  <2>1. StatsTrue'
    <3>1. \A x : StatOf(x)' = StatOf(x) BY <1>1 DEF StatOf
    <3>2. \A x : Anchored(x)' <=> Anchored(x) BY <1>1, <1>8 DEF Anchored
    <3>3. ASSUME NEW x \in DOMAIN stats, swaps = 0
          PROVE  Lookup(fs', x) \in DOMAIN fs' /\ stats'[x] = StatOf(Lookup(fs, x))'
      <4>1. StatOf(Lookup(fs, x))' = StatOf(Lookup(fs, x)) BY <1>1 DEF StatOf
      <4> QED BY <1>1, <1>8, <3>3, <4>1 DEF ReportInv, StatsTrue
    <3> QED BY <1>1, <1>8, <3>2, <3>3 DEF ReportInv, StatsTrue
  <2> QED BY <1>1, <1>2, <1>3, <1>8, <2>1 DEF ReportInv, Walking
<1>9. CASE Lookup(fs, q) \in DOMAIN fs /\ stats' = PushStat(q, Lookup(fs, q))
  <2>1. DOMAIN stats' = DOMAIN stats \cup {q} BY <1>9 DEF PushStat
  <2>2. Anchored(q)' BY <1>1, <1>5, <1>7, <2>1 DEF Anchored
  <2>3. StatsTrue' BY <1>1, <1>9, <2>2, Pushed
  <2>4. IsSeq(stack') /\ \A f \in Range(stack') : f.path \in DOMAIN stats'
    <3>1. IsSeq(stack) /\ \A f \in Range(stack) : f.path \in DOMAIN stats BY DEF ReportInv, Walking
    <3>2. CASE stack' = stack BY <2>1, <3>1, <3>2
    <3>3. CASE stack' = Append(stack, [path |-> q, ino |-> Lookup(fs, q)])
      <4>1. IsSeq(stack') /\ Range(stack') = Range(stack) \cup {[path |-> q, ino |-> Lookup(fs, q)]}
        BY <3>1, <3>3, AppendOf
      <4> QED BY <2>1, <3>1, <4>1
    <3> QED BY <1>1, <3>2, <3>3
  <2>5. Walking' BY <1>2, <1>4, <2>1, <2>4 DEF Walking
  <2> QED BY <1>1, <1>3, <2>3, <2>5 DEF ReportInv
<1> QED BY <1>1, <1>8, <1>9

LEMMA StatsStay ==
  ASSUME ReportInv, UNCHANGED <<fs, swaps, cmd, stats>> PROVE StatsTrue'
<1>1. \A x : Anchored(x)' <=> Anchored(x) BY DEF Anchored
<1>2. ASSUME NEW x \in DOMAIN stats, swaps = 0
      PROVE  Lookup(fs', x) \in DOMAIN fs' /\ stats'[x] = StatOf(Lookup(fs, x))'
  <2>1. StatOf(Lookup(fs, x))' = StatOf(Lookup(fs, x)) BY DEF StatOf
  <2> QED BY <1>2, <2>1 DEF ReportInv, StatsTrue
<1> QED BY <1>1, <1>2 DEF ReportInv, StatsTrue

LEMMA ReportedOpen == ASSUME ReportInv, OpenDir PROVE ReportInv'
<1>1. /\ at = "descend" /\ at' \in {"descend", "recheck"} /\ stack # <<>> /\ stack' = Front(stack)
      /\ UNCHANGED <<fs, swaps, cmd, rootsLeft, stats, index, unread>>
      /\ at' = "recheck" => reading'.path = Last(stack).path
  BY DEF OpenDir
<1>2. StatsTrue' BY <1>1, StatsStay
<1>3. Asked' BY <1>1 DEF ReportInv, Asked
<1>4. IsSeq(stack) /\ \A f \in Range(stack) : f.path \in DOMAIN stats BY DEF ReportInv, Walking
<1>5. IsSeq(stack') /\ Range(stack') \subseteq Range(stack) /\ Last(stack) \in Range(stack)
  BY <1>1, <1>4, FrontOf
<1>6. Walking' BY <1>1, <1>4, <1>5 DEF Walking
<1> QED BY <1>1, <1>2, <1>3, <1>6 DEF ReportInv

LEMMA ReportedBuilt == ASSUME ReportInv, ReadAcls PROVE Built'
<1>1. PICK lost : /\ unread' = lost
                  /\ index' = [q \in DOMAIN stats |->
                        [uid |-> stats[q].uid, gid |-> stats[q].gid, mode |-> stats[q].mode,
                         acl |-> LET a == ParseGetfacl(fs[stats[q].ino].acl)
                                 IN IF q \notin lost /\ IsExtended(a) THEN a ELSE <<>>,
                         class |-> Classify(cmd.config.secret_globs, q, stats[q].mode)]]
  BY DEF ReadAcls
<1>2. UNCHANGED <<fs, swaps, stats>> BY DEF ReadAcls, walk
<1> SUFFICES ASSUME swaps = 0, lost = {}, NEW q \in DOMAIN stats PROVE Reads(index[q], Lookup(fs, q))'
  BY <1>1, <1>2 DEF Built
<1>3. PICK i : i = Lookup(fs, q) OBVIOUS
<1>4. stats[q] = StatOf(i) BY <1>3 DEF ReportInv, StatsTrue
<1>5. stats[q].ino = i /\ stats[q].uid = fs[i].uid /\ stats[q].gid = fs[i].gid /\ stats[q].mode = fs[i].mode
  BY <1>4 DEF StatOf
<1>6. PICK a : a = ParseGetfacl(fs[i].acl) OBVIOUS
<1>7. /\ index'[q].uid = fs[i].uid /\ index'[q].gid = fs[i].gid /\ index'[q].mode = fs[i].mode
      /\ index'[q].acl = IF IsExtended(a) THEN a ELSE <<>>
  BY <1>1, <1>5, <1>6
<1>8. /\ RecordOf(i)'.uid = fs[i].uid /\ RecordOf(i)'.gid = fs[i].gid /\ RecordOf(i)'.mode = fs[i].mode
      /\ RecordOf(i)'.acl = IF IsExtended(a) THEN a ELSE <<>>
  BY <1>2, <1>6 DEF RecordOf
<1>9. Lookup(fs', q) = i BY <1>2, <1>3
<1> QED BY <1>7, <1>8, <1>9 DEF Reads

LEMMA NextReport == ASSUME ReportInv, [DeviceNext]_auditVars PROVE ReportInv'
<1>1. CASE EnterRoot BY <1>1, ReportedRoot
<1>2. CASE \E n \in reading.names : ReadEntry(n) BY <1>2, ReportedEntry
<1>3. CASE OpenDir BY <1>3, ReportedOpen
<1>4. CASE ReadAcls
  <2>1. /\ at = "roots" /\ at' = "report" /\ UNCHANGED <<fs, swaps, cmd, stats, rootsLeft, stack>>
    BY <1>4 DEF ReadAcls, walk
  <2>2. StatsTrue' BY <2>1, StatsStay
  <2>3. Asked' BY <2>1 DEF ReportInv, Asked
  <2>4. Walking' BY <2>1 DEF ReportInv, Walking
  <2> QED BY <1>4, <2>1, <2>2, <2>3, <2>4, ReportedBuilt DEF ReportInv
<1>5. CASE \E d \in Dirs : \E n \in DOMAIN fs[d].entries, t \in Dirs : SwapDir(d, n, t)
  <2>1. /\ at \notin {"start", "report", "done"} /\ swaps' = swaps + 1
        /\ UNCHANGED <<at, cmd, rootsLeft, stack, reading, stats>>
    BY <1>5 DEF SwapDir, walk
  <2>2. swaps' \in Nat /\ swaps' # 0 BY <2>1 DEF ReportInv
  <2>3. StatsTrue'
    <3>1. \A x : Anchored(x)' <=> Anchored(x) BY <2>1 DEF Anchored
    <3> QED BY <2>1, <2>2, <3>1 DEF ReportInv, StatsTrue
  <2>4. Asked' BY <2>1 DEF ReportInv, Asked
  <2>5. Walking' BY <2>1 DEF ReportInv, Walking
  <2> QED BY <2>1, <2>2, <2>3, <2>4, <2>5 DEF ReportInv
<1>6. CASE SkipRoot
  <2>1. /\ at = "roots" /\ at' = at /\ rootsLeft # <<>> /\ rootsLeft' = Tail(rootsLeft)
        /\ UNCHANGED <<fs, swaps, cmd, stats, stack, reading>>
    BY <1>6 DEF SkipRoot
  <2>2. StatsTrue' BY <2>1, StatsStay
  <2>3. Asked' BY <2>1, TailOf DEF ReportInv, Asked
  <2>4. Walking' BY <2>1 DEF ReportInv, Walking
  <2> QED BY <2>1, <2>2, <2>3, <2>4 DEF ReportInv
<1>7. CASE Recheck \/ EntriesDone \/ RootDone
  <2>1. /\ at \in {"recheck", "entries", "descend"} /\ at' \in {"descend", "roots", "entries"}
        /\ UNCHANGED <<fs, swaps, cmd, stats, stack, rootsLeft>>
        /\ at' = "entries" => at = "recheck" /\ reading' = reading
    BY <1>7 DEF Recheck, EntriesDone, RootDone, walk
  <2>2. StatsTrue' BY <2>1, StatsStay
  <2>3. Asked' BY <2>1 DEF ReportInv, Asked
  <2>4. Walking' BY <2>1 DEF ReportInv, Walking
  <2> QED BY <2>1, <2>2, <2>3, <2>4 DEF ReportInv
<1>8. CASE RootFails \/ ReportAudit \/ ReportFails
  <2>1. at' = "done" /\ UNCHANGED <<fs, swaps, cmd, stats, stack>>
    BY <1>8 DEF RootFails, ReportAudit, ReportFails, walk
  <2>2. StatsTrue' BY <2>1, StatsStay
  <2>3. Walking' BY <2>1 DEF ReportInv, Walking
  <2> QED BY <2>1, <2>2, <2>3 DEF ReportInv, Asked
<1>9. CASE \E o \in Invocations : StartAudit(o)
  <2>1. PICK o \in Invocations : StartAudit(o) BY <1>9
  <2>2. /\ at = "start" /\ at' \in {"roots", "done"} /\ cmd' = o /\ UNCHANGED <<fs, swaps, stats, stack>>
        /\ at' = "roots" => rootsLeft' = ScanRoots(o)
    BY <2>1 DEF StartAudit
  <2>3. DOMAIN stats' = {} BY <2>2 DEF ReportInv
  <2>4. IsSeq(ScanRoots(o)) BY InvocationAssumption
  <2>5. Asked' BY <2>2, <2>4 DEF Asked
  <2>6. StatsTrue' BY <2>3 DEF StatsTrue
  <2>7. Walking' BY <2>2 DEF ReportInv, Walking
  <2> QED BY <2>2, <2>5, <2>6, <2>7 DEF ReportInv
<1>10. CASE \E c \in FrameworkCalls : FrameworkCommand(c)
  <2>1. at = "start" /\ at' = "done" /\ UNCHANGED <<fs, swaps, stats, stack>>
    BY <1>10 DEF FrameworkCommand, walk
  <2>2. DOMAIN stats' = {} BY <2>1 DEF ReportInv
  <2>3. StatsTrue' BY <2>2 DEF StatsTrue
  <2>4. Walking' BY <2>1 DEF ReportInv, Walking
  <2> QED BY <2>1, <2>3, <2>4 DEF ReportInv, Asked
<1>11. CASE UNCHANGED auditVars
  <2>1. UNCHANGED <<fs, swaps, at, cmd, rootsLeft, stack, reading, stats, index, unread>> BY <1>11 DEF auditVars, walk
  <2>2. StatsTrue' BY <2>1, StatsStay
  <2>3. Asked' BY <2>1 DEF ReportInv, Asked
  <2>4. Walking' BY <2>1 DEF ReportInv, Walking
  <2>5. at = "report" => Built'
    <3>1. \A r, i : Reads(r, i)' <=> Reads(r, i) BY <2>1 DEF Reads, RecordOf
    <3> QED BY <2>1, <3>1 DEF ReportInv, Built
  <2> QED BY <2>1, <2>2, <2>3, <2>4, <2>5 DEF ReportInv
<1> QED BY <1>1, <1>2, <1>3, <1>4, <1>5, <1>6, <1>7, <1>8, <1>9, <1>10, <1>11 DEF DeviceNext, AuditNext, WalkStep

-----------------------------------------------------------------------------
(* The report and the kernel's view.                                       *)

\* No scan root of a command lies inside another: what an ignored outer root
\* leaves out is no obstacle on the way to the inner one.
RootsApart == \A o \in Invocations : \A r, s \in Range(ScanRoots(o)) : AtOrUnder(r, s) => r = s

\* managed.toml names each account and each uid once.
AccountsApart == \A a, b \in Registry.accounts : a.name = b.name \/ a.uid = b.uid => a = b

\* Everybody may search "/".
RootOpen ==
  LET top == Tree[Lookup(Tree, <<>>)]
  IN top.acl = <<>> /\ "x" \in top.mode.owner /\ "x" \in top.mode.group /\ "x" \in top.mode.other

AtReport == ReportInv /\ at = "report" /\ swaps = 0 /\ unread = {}

LEMMA IndexedAs ==
  ASSUME AtReport
  PROVE  /\ fs = Tree /\ cmd \in Invocations /\ DOMAIN index = DOMAIN stats
         /\ \A q \in DOMAIN index : /\ Anchored(q) /\ Reads(index[q], Lookup(fs, q)) /\ Lookup(fs, q) \in DOMAIN fs
                                    /\ AclOk(fs[Lookup(fs, q)].acl, fs[Lookup(fs, q)].mode)
<1>1. /\ fs = Tree /\ cmd \in Invocations /\ DOMAIN index = DOMAIN stats
      /\ \A q \in DOMAIN index : /\ Anchored(q) /\ Reads(index[q], Lookup(fs, q)) /\ Lookup(fs, q) \in DOMAIN fs
  BY DEF AtReport, ReportInv, Asked, StatsTrue, Built
<1> QED BY <1>1, AuditAssumption

LEMMA IndexAgrees ==
  ASSUME AtReport, NEW q \in DOMAIN index, NEW p, NEW perm \in AllPerms
  PROVE  perm \in Effective(index[q], p).access <=> KernelAllows(Lookup(fs, q), p, perm)
BY IndexedAs, AccessAgrees

LEMMA HarmIs ==
  ASSUME AtReport, NEW q \in DOMAIN index, NEW p
  PROVE  DeriveRisk(Effective(index[q], p).access, index[q].class) = Harm(q, p)
<1>1. {"r", "w"} \subseteq AllPerms BY DEF AllPerms
<1>2. /\ "r" \in Effective(index[q], p).access <=> KernelAllows(Lookup(fs, q), p, "r")
      /\ "w" \in Effective(index[q], p).access <=> KernelAllows(Lookup(fs, q), p, "w")
  BY <1>1, IndexAgrees
<1> QED BY <1>2 DEF DeriveRisk, Harm

LEMMA PrefixesMeet ==
  ASSUME NEW q, IsSeq(q), NEW r, IsSeq(r), NEW s, IsSeq(s), AtOrUnder(r, q), AtOrUnder(s, q), Len(r) <= Len(s)
  PROVE  AtOrUnder(r, s)
<1>1. /\ q \in Seq(Range(q)) /\ r \in Seq(Range(r)) /\ s \in Seq(Range(s))
      /\ Len(q) \in Nat /\ Len(r) \in Nat /\ Len(s) \in Nat
  BY DEF IsSeq
<1>2. /\ Len(r) <= Len(q) /\ SubSeq(r, 1, Len(r)) = SubSeq(q, 1, Len(r))
      /\ Len(s) <= Len(q) /\ SubSeq(s, 1, Len(s)) = SubSeq(q, 1, Len(s))
  BY DEF AtOrUnder, IsPrefix
<1>3. \A i \in 1..Len(s) : s[i] = q[i]
  <2> SUFFICES ASSUME NEW i \in 1..Len(s) PROVE s[i] = q[i] OBVIOUS
  <2>1. SubSeq(s, 1, Len(s))[i] = s[i] /\ SubSeq(q, 1, Len(s))[i] = q[i] BY <1>1, <1>2
  <2> QED BY <1>2, <2>1
<1>4. SubSeq(s, 1, Len(r)) = SubSeq(q, 1, Len(r)) BY <1>1, <1>2, <1>3
<1> QED BY <1>2, <1>4 DEF AtOrUnder, IsPrefix

\* A prefix of an indexed path that is in the scope of the scan is indexed.
LEMMA WayIsIndexed ==
  ASSUME AtReport, RootsApart, NEW q \in DOMAIN index, NEW k \in 0..Len(q),
         WithinScope(SubSeq(q, 1, k), Range(ScanRoots(cmd)))
  PROVE  SubSeq(q, 1, k) \in DOMAIN index
<1> DEFINE d == SubSeq(q, 1, k)
           roots == Range(ScanRoots(cmd))
<1>1. IsSeq(q) /\ cmd \in Invocations /\ DOMAIN index = DOMAIN stats BY IndexedAs DEF Anchored
<1>2. PICK r \in roots : Held(q, r, DOMAIN stats) BY IndexedAs DEF Anchored
<1>3. PICK s \in roots : AtOrUnder(s, d) BY DEF WithinScope
<1>4. IsSeq(r) /\ IsSeq(s) BY <1>1, InvocationAssumption
<1>5. /\ q \in Seq(Range(q)) /\ r \in Seq(Range(r)) /\ s \in Seq(Range(s))
      /\ Len(q) \in Nat /\ Len(r) \in Nat /\ Len(s) \in Nat /\ k \in Nat /\ k <= Len(q)
  BY <1>1, <1>4 DEF IsSeq
<1>6. Len(d) = k BY <1>5
<1>7. Len(s) <= k /\ AtOrUnder(s, q)
  <2>1. Len(s) <= k /\ SubSeq(s, 1, Len(s)) = SubSeq(d, 1, Len(s)) BY <1>3, <1>6 DEF AtOrUnder, IsPrefix
  <2>2. SubSeq(d, 1, Len(s)) = SubSeq(q, 1, Len(s)) BY <1>5, <2>1
  <2> QED BY <1>5, <2>1, <2>2 DEF AtOrUnder, IsPrefix
<1>8. AtOrUnder(r, q) BY <1>2 DEF Held
<1>9. r = s
  <2>1. CASE Len(r) <= Len(s) BY <1>1, <1>4, <1>7, <1>8, <2>1, PrefixesMeet DEF RootsApart
  <2>2. CASE Len(s) <= Len(r) BY <1>1, <1>4, <1>7, <1>8, <2>2, PrefixesMeet DEF RootsApart
  <2> QED BY <1>5, <2>1, <2>2
<1>10. k \in Len(r)..Len(q) BY <1>5, <1>7, <1>9
<1> QED BY <1>1, <1>2, <1>10 DEF Held

LEMMA ReachAgrees ==
  ASSUME AtReport, RootsApart, RootOpen, NEW q \in DOMAIN index, NEW p
  PROVE  ReachableDir(index, p, Range(ScanRoots(cmd)), ParentOf(q)) <=> KernelReaches(q, p, Range(ScanRoots(cmd)))
<1> DEFINE roots == Range(ScanRoots(cmd))
<1>1. IsSeq(q) BY IndexedAs DEF Anchored
<1>2. q \in Seq(Range(q)) /\ Len(q) \in Nat BY <1>1 DEF IsSeq
<1>3. "x" \in AllPerms BY DEF AllPerms
<1>4. CASE q = <<>>
  <2>1. ParentOf(q) = <<>> /\ Len(q) = 0 BY <1>4 DEF ParentOf
  <2>2. KernelReaches(q, p, roots) BY <2>1 DEF KernelReaches
  <2>3. KernelAllows(Lookup(fs, <<>>), p, "x")
    <3>1. fs = Tree BY IndexedAs
    <3> QED BY <3>1 DEF KernelAllows, RootOpen
  <2>4. HasSearch(index, p, <<>>) BY <1>3, <1>4, <2>3, IndexAgrees DEF HasSearch
  <2>5. \A n \in 0..Len(<<>>) : SubSeq(<<>>, 1, n) = <<>> OBVIOUS
  <2>6. ReachableDir(index, p, roots, <<>>) BY <2>4, <2>5 DEF ReachableDir
  <2> QED BY <2>1, <2>2, <2>6
<1>5. CASE q # <<>>
  <2> DEFINE dir == Front(q)
  <2>1. Len(q) # 0 /\ ParentOf(q) = dir BY <1>2, <1>5 DEF ParentOf
  <2>2. Len(dir) = Len(q) - 1 /\ \A n \in 0..(Len(q) - 1) : SubSeq(dir, 1, n) = SubSeq(q, 1, n)
    <3>1. dir \in Seq(Range(q)) /\ Len(dir) = Len(q) - 1 /\ \A i \in 1..(Len(q) - 1) : dir[i] = q[i]
      BY <1>1, <1>5, FrontOf
    <3> HIDE DEF dir
    <3> SUFFICES ASSUME NEW n \in 0..(Len(q) - 1) PROVE SubSeq(dir, 1, n) = SubSeq(q, 1, n)
      BY <3>1
    <3> QED BY <1>2, <3>1
  <2>3. ASSUME NEW n \in 0..(Len(q) - 1), WithinScope(SubSeq(q, 1, n), roots)
        PROVE  HasSearch(index, p, SubSeq(q, 1, n)) <=> KernelAllows(Lookup(fs, SubSeq(q, 1, n)), p, "x")
    <3>1. n \in 0..Len(q) BY <1>2
    <3>2. SubSeq(q, 1, n) \in DOMAIN index BY <2>3, <3>1, WayIsIndexed
    <3> QED BY <1>3, <3>2, IndexAgrees DEF HasSearch
  <2> HIDE DEF roots, dir
  <2>4. ReachableDir(index, p, roots, dir) <=>
          \A n \in 0..(Len(q) - 1) : WithinScope(SubSeq(q, 1, n), roots) => HasSearch(index, p, SubSeq(q, 1, n))
    BY <2>2 DEF ReachableDir
  <2>5. KernelReaches(q, p, roots) <=>
          \A n \in 0..(Len(q) - 1) : WithinScope(SubSeq(q, 1, n), roots) => KernelAllows(Lookup(fs, SubSeq(q, 1, n)), p, "x")
    BY DEF KernelReaches
  <2>6. ReachableDir(index, p, roots, dir) <=> KernelReaches(q, p, roots) BY <2>3, <2>4, <2>5
  <2> QED BY <2>1, <2>6 DEF roots
<1> QED BY <1>4, <1>5

\* What an account may do by design, whichever way it is bound to the principal.
LEMMA BoundOnce ==
  ASSUME AccountsApart, NEW p, NEW a \in Bound(Registry.accounts, p), NEW b \in Bound(Registry.accounts, p)
  PROVE  a = b
BY DEF AccountsApart, Bound

LEMMA BaselineIs ==
  ASSUME AccountsApart, NEW p, NEW q, IsSeq(q)
  PROVE  Covers(ForPrincipal(Registry, p).baseline, q) <=> Intended(q, p)
<1> DEFINE bound == Bound(Registry.accounts, p)
           chosen == CHOOSE x \in bound : TRUE
<1>0. AtOrUnder(q, q)
  <2>1. Len(q) \in Nat BY DEF IsSeq
  <2> QED BY <2>1 DEF AtOrUnder, IsPrefix
<1>1. CASE bound = {}
  BY <1>1 DEF ForPrincipal, Covers, Intended
<1>2. CASE bound # {}
  <2>1. chosen \in bound BY <1>2
  <2>2. \A a \in bound : a = chosen BY <2>1, BoundOnce
  <2>3. ForPrincipal(Registry, p).baseline = Baseline(chosen, p) BY <1>2 DEF ForPrincipal
  <2> HIDE DEF chosen, bound
  <2>4. Baseline(chosen, p) =
          {g \in chosen.grants \cup {[path |-> p.home, recursive |-> TRUE]} : g.path # <<>>}
    BY DEF Baseline, ValidPrefixes
  <2> DEFINE home == [path |-> p.home, recursive |-> TRUE]
             kept == {g \in chosen.grants \cup {home} : g.path # <<>>}
             covers(g) == g.path = q \/ (g.recursive /\ AtOrUnder(g.path, q))
  <2>a. home.path = p.home /\ home.recursive OBVIOUS
  <2>b. Covers(kept, q) <=> \E g \in kept : covers(g) BY DEF Covers
  <2>c. Baseline(chosen, p) = kept BY <2>4
  <2> HIDE DEF home
  <2>d. (\E g \in kept : covers(g)) <=> (home.path # <<>> /\ covers(home)) \/ \E g \in chosen.grants : g.path # <<>> /\ covers(g)
    OBVIOUS
  <2>5. Covers(Baseline(chosen, p), q) <=>
          \/ p.home # <<>> /\ (p.home = q \/ AtOrUnder(p.home, q))
          \/ \E g \in chosen.grants : g.path # <<>> /\ (g.path = q \/ (g.recursive /\ AtOrUnder(g.path, q)))
    BY <2>a, <2>b, <2>c, <2>d
  <2>6. Intended(q, p) <=>
          \/ p.home # <<>> /\ AtOrUnder(p.home, q)
          \/ \E g \in chosen.grants : g.path # <<>> /\ (g.path = q \/ (g.recursive /\ AtOrUnder(g.path, q)))
    BY <2>1, <2>2 DEF Intended, bound
  <2> QED BY <1>0, <2>3, <2>5, <2>6
<1> QED BY <1>1, <1>2

\* What is raised: a finding for each harm, with the fields of one.
IsFinding(f) == {"path", "risk", "mac"} \subseteq DOMAIN f
Raised(p) == Expose(index, p, Range(ScanRoots(cmd)), ForPrincipal(Registry, p))
InReach(q, p) == p.uid = 0 \/ KernelReaches(q, p, Range(ScanRoots(cmd)))

LEMMA FindingIs ==
  ASSUME NEW path, NEW class, NEW access, NEW via, NEW ctx
  PROVE  \A f \in FindingFor(path, class, access, via, ctx) : IsFinding(f)
BY DEF FindingFor, IsFinding

LEMMA RaisedAre ==
  ASSUME AtReport, RootsApart, RootOpen, NEW p
  PROVE  /\ \A f \in Raised(p) : /\ IsFinding(f) /\ f.path \in DOMAIN index /\ f.risk = Harm(f.path, p)
                                 /\ f.risk # "none" /\ InReach(f.path, p)
         /\ \A q \in DOMAIN index : Harm(q, p) # "none" /\ InReach(q, p) =>
               \E f \in Raised(p) : f.path = q /\ f.risk = Harm(q, p)
<1> DEFINE roots == Range(ScanRoots(cmd))
           ctx == ForPrincipal(Registry, p)
           on(q) == FindingFor(q, index[q].class, Effective(index[q], p).access, Effective(index[q], p).via, ctx)
<1>1. \A q \in DOMAIN index : q \in Reachable(index, p, roots) <=> InReach(q, p)
  BY ReachAgrees DEF Reachable, InReach
<1>2. \A q \in DOMAIN index : WithinScope(q, roots) BY IndexedAs DEF Anchored, Held, WithinScope
<1>3. Reachable(index, p, roots) \subseteq DOMAIN index BY DEF Reachable
<1>4. Raised(p) = UNION {on(q) : q \in {r \in Reachable(index, p, roots) : WithinScope(r, roots)}}
  BY DEF Raised, Expose
<1>5. ASSUME NEW q \in DOMAIN index
      PROVE  /\ \A f \in on(q) : IsFinding(f) /\ f.path = q /\ f.risk = Harm(q, p) /\ f.risk # "none"
             /\ Harm(q, p) # "none" => on(q) # {}
  <2>1. DeriveRisk(Effective(index[q], p).access, index[q].class) = Harm(q, p) BY HarmIs
  <2> QED BY <2>1, FoundFor, FindingIs
<1> HIDE DEF on, roots, ctx
<1>6. \A f \in Raised(p) : \E q \in DOMAIN index : f \in on(q) /\ InReach(q, p) BY <1>1, <1>3, <1>4
<1>7. \A q \in DOMAIN index : InReach(q, p) => on(q) \subseteq Raised(p) BY <1>1, <1>2, <1>4
<1>8. ASSUME NEW f \in Raised(p)
      PROVE  /\ IsFinding(f) /\ f.path \in DOMAIN index /\ f.risk = Harm(f.path, p)
             /\ f.risk # "none" /\ InReach(f.path, p)
  BY <1>5, <1>6
<1>9. ASSUME NEW q \in DOMAIN index, Harm(q, p) # "none", InReach(q, p)
      PROVE  \E f \in Raised(p) : f.path = q /\ f.risk = Harm(q, p)
  BY <1>5, <1>7, <1>9
<1> QED BY <1>8, <1>9

\* What the MAC provider takes out.
Harms(F) == {<<f.path, f.risk>> : f \in F}
Unruled(F, p, mac) == {g \in F : ~Ruled(g.path, p, g.risk, mac)}
LEMMA RefinedAre ==
  ASSUME NEW F, \A f \in F : IsFinding(f), NEW p, NEW mac
  PROVE  Harms(RefineWithMac(F, p.uid, mac)) = Harms(Unruled(F, p, mac))
<1> DEFINE contexts == IF p.uid \in DOMAIN mac.contexts THEN mac.contexts[p.uid] ELSE {}
           labelled(f) == f.path \in DOMAIN mac.labels
           reachableIn(f) == {c \in contexts : <<c, mac.labels[f.path], MacKind(f.risk)>> \in mac.permits}
           kept == {f \in F : ~labelled(f)}
           noted == {g \in F : labelled(g) /\ reachableIn(g) # {}}
<1>1. CASE ~mac.active \/ contexts = {}
  <2>1. RefineWithMac(F, p.uid, mac) = F BY <1>1 DEF RefineWithMac
  <2>2. \A f \in F : ~Ruled(f.path, p, f.risk, mac) BY <1>1 DEF Ruled
  <2>3. Unruled(F, p, mac) = F BY <2>2 DEF Unruled
  <2> QED BY <2>1, <2>3
<1>2. CASE mac.active /\ contexts # {}
  <2>1. RefineWithMac(F, p.uid, mac) = kept \cup {[f EXCEPT !.mac = reachableIn(f)] : f \in noted}
    BY <1>2 DEF RefineWithMac
  <2>2. \A f \in F : Ruled(f.path, p, f.risk, mac) <=> labelled(f) /\ reachableIn(f) = {}
    BY <1>2 DEF Ruled, MacKind
  <2>3. Unruled(F, p, mac) = kept \cup noted BY <2>2 DEF Unruled
  <2>4. \A f \in noted : [f EXCEPT !.mac = reachableIn(f)].path = f.path /\ [f EXCEPT !.mac = reachableIn(f)].risk = f.risk
    BY DEF IsFinding
  <2> DEFINE marked(f) == [f EXCEPT !.mac = reachableIn(f)]
  <2>5. \A f \in noted : marked(f).path = f.path /\ marked(f).risk = f.risk BY <2>4
  <2>6. RefineWithMac(F, p.uid, mac) = kept \cup {marked(f) : f \in noted} BY <2>1
  <2> HIDE DEF marked, kept, noted
  <2>7. Harms(kept \cup {marked(f) : f \in noted}) = Harms(kept \cup noted)
    BY <2>5 DEF Harms
  <2> QED BY <2>3, <2>6, <2>7
<1> QED BY <1>1, <1>2

LEMMA ReportIsExact ==
  ASSUME AtReport, RootsApart, AccountsApart, RootOpen, NEW p, NEW mac
  PROVE  {<<f.path, f.risk>> : f \in ExposureReport(index, p, Range(ScanRoots(cmd)), Registry, mac).findings}
           = {<<q, Harm(q, p)>> : q \in
               {x \in DOMAIN index : /\ Harm(x, p) # "none" /\ (p.uid = 0 \/ KernelReaches(x, p, Range(ScanRoots(cmd))))
                                     /\ ~Intended(x, p) /\ ~Ruled(x, p, Harm(x, p), mac)}}
<1> DEFINE F == {f \in Raised(p) : ~Covers(ForPrincipal(Registry, p).baseline, f.path)}
           G == {g \in F : ~Ruled(g.path, p, g.risk, mac)}
           X == {x \in DOMAIN index : /\ Harm(x, p) # "none" /\ InReach(x, p)
                                      /\ ~Intended(x, p) /\ ~Ruled(x, p, Harm(x, p), mac)}
<1>1. ExposureReport(index, p, Range(ScanRoots(cmd)), Registry, mac).findings = RefineWithMac(F, p.uid, mac)
  BY DEF ExposureReport, Raised
<1>2. \A f \in F : IsFinding(f) BY RaisedAre
<1>3. Harms(RefineWithMac(F, p.uid, mac)) = Harms(G)
  <2>1. G = Unruled(F, p, mac) BY DEF Unruled
  <2> HIDE DEF F, G
  <2> QED BY <1>2, <2>1, RefinedAre
<1>4. \A q \in DOMAIN index : Covers(ForPrincipal(Registry, p).baseline, q) <=> Intended(q, p)
  BY IndexedAs, BaselineIs DEF Anchored
<1>5. \A f \in G : f.path \in X /\ f.risk = Harm(f.path, p) BY <1>4, RaisedAre
<1>6. \A x \in X : \E f \in G : f.path = x /\ f.risk = Harm(x, p) BY <1>4, RaisedAre
<1>7. X = {x \in DOMAIN index : /\ Harm(x, p) # "none" /\ (p.uid = 0 \/ KernelReaches(x, p, Range(ScanRoots(cmd))))
                                /\ ~Intended(x, p) /\ ~Ruled(x, p, Harm(x, p), mac)}
  BY DEF InReach
<1> HIDE DEF F, G, X
<1>8. Harms(G) = {<<q, Harm(q, p)>> : q \in X} BY <1>5, <1>6 DEF Harms
<1> QED BY <1>1, <1>3, <1>7, <1>8 DEF Harms

\* For every tree, ACLs, accounts, labels and command line: with no directory
\* replaced and no ACL unread, the report for a principal names exactly the harm
\* the kernel would let it do on what was scanned, less what is intended and what
\* a label rules out (effective_acl, reachable_dir, for_principal, refine_with_mac).
THEOREM ReportSeesWhatTheKernelAllows == RootsApart /\ AccountsApart /\ RootOpen => (DeviceSpec => []ExposureExact)
<1> SUFFICES ASSUME RootsApart, AccountsApart, RootOpen PROVE DeviceSpec => []ExposureExact
  OBVIOUS
<1>1. AuditInit => ReportInv BY InitReport
<1>2. ReportInv /\ [DeviceNext]_auditVars => ReportInv' BY NextReport
<1>3. ReportInv => ExposureExact
  BY ReportIsExact DEF ExposureExact, AtReport
<1> QED BY <1>1, <1>2, <1>3, PTL DEF DeviceSpec
=============================================================================
