---------------------------- MODULE MCRpmbuild -----------------------------
(***************************************************************************)
(* What rpmbuild does, with small instances of each part: expressions,     *)
(* versions, boolean dependencies, the parser of spec files, file lists,   *)
(* dependency generation, the writing of a package and of its payload, and *)
(* the course of the build.  A behaviour is one of these, named by unit;   *)
(* the other variables stay as they are.                                   *)
(***************************************************************************)
EXTENDS SpecParser, SequencesExt, TLC

VARIABLES unit,
    at, in, todo, rc,       \* several of them have these, and some of SpecParser's
    root, opts, pkgs, n, f, maindbg, deplink, checked, src,
    deps, nerrors, fahash, color, fileDeps, said, ddict, fddict,
    format, nfiles, pc, hdr, file, there, dig, alt, payloadStart, payloadEnd, hdrStart,
    argi, targets, ti, amount, child, what, missing, tasks, order, prc, signs, packed, removed, brbad,
    tree,
    pkg, room, itype, arc, avail, cpio, i, found, tell, hardlink, got

ofSpecParser == <<alpha, text, left, files, glue, rl, part, spec, macros, archs, kids, status, freed, seen>>
ofBuildFiles == <<root, opts, pkgs, n, f, maindbg, deplink, checked, src>>
ofPkgDeps == <<deps, nerrors, fahash, color, fileDeps, said, ddict, fddict>>
ofPack == <<format, nfiles, pc, hdr, file, there, dig, alt, payloadStart, payloadEnd, hdrStart>>
ofBuild == <<argi, targets, ti, amount, child, what, missing, tasks, order, prc, signs, packed, removed, brbad>>
ofPayload == <<pkg, room, itype, arc, avail, cpio, i, found, tell, hardlink, got>>
mcVars == <<unit, stage, done, at, in, todo, rc, ofSpecParser, ofBuildFiles, ofPkgDeps, ofPack, ofBuild, tree, ofPayload>>

\* Commands: the stages and options of rpmbuild, for a spec of three packages of
\* which q has no files
ASpec(arch, narchs, br) ==
    [arch |-> arch, archs |-> narchs, buildrequires |-> br, pkgs |-> <<"p", "q", "r">>, nofiles |-> {"q"}]
ABuild ==
    [mode |-> "b", char |-> "a", short |-> FALSE, noDeps |-> FALSE, force |-> FALSE, inPlace |-> FALSE,
     extra |-> {}, no |-> {}, targets |-> <<>>, specs |-> <<ASpec("", 0, TRUE)>>]
Tarball == [ABuild EXCEPT !.mode = "B", !.specs = <<ASpec("", 0, FALSE)>>]
RmSpec == [ABuild EXCEPT !.char = "-", !.extra = {"RMSPEC"}]
BuildCommands ==
    {[ABuild EXCEPT !.char = c] : c \in {"a", "b", "k", "i", "c", "f", "p", "s", "r", "d", "l"}}
    \cup {[ABuild EXCEPT !.char = c, !.short = TRUE] : c \in {"b", "i", "r"}}
    \cup {[Tarball EXCEPT !.char = "b", !.specs = <<ASpec("noarch", 0, FALSE), ASpec("", 0, FALSE)>>],
          [Tarball EXCEPT !.targets = <<"i386", "x86_64">>],
          [Tarball EXCEPT !.char = "s", !.specs = <<ASpec("", 2, FALSE)>>],
          [ABuild EXCEPT !.extra = {"RMSOURCE", "RMSPEC"}, !.no = {"CHECK", "CLEAN"}, !.specs = <<ASpec("", 2, FALSE)>>],
          RmSpec, [RmSpec EXCEPT !.targets = <<"i386", "x86_64">>],
          [ABuild EXCEPT !.extra = {"NOBUILD"}, !.noDeps = TRUE], [ABuild EXCEPT !.force = TRUE, !.inPlace = TRUE]}

----------------------------------------------------------------------------
\* File lists: lines of up to three directives and paths
Abs(p) == [k |-> "path", v |-> p, rel |-> FALSE, slash |-> FALSE]
Slash(p) == [Abs(p) EXCEPT !.slash = TRUE]
Rel(p) == [Abs(p) EXCEPT !.rel = TRUE]
FlagWord(v) == [k |-> "flag", v |-> v]
FLine(dirs, words) == [dirs |-> dirs, words |-> words]
Bare(p) == FLine(<<>>, <<Abs(p)>>)
Flagged(flag, w) == FLine(<<>>, <<FlagWord(flag), w>>)
Given(dirs, p) == FLine(dirs, <<Abs(p)>>)

\* A build root with a hard linked pair, a link, an unreadable directory and a file
FileA == <<"d", "a">>
FileB == <<"d", "b">>
FileAX == <<"d", "a.x">>
ANode(kind) ==
    [kind |-> kind, mode |-> "", ino |-> 0, nlink |-> 1, size |-> 0, x |-> FALSE, elf |-> <<>>, to |-> <<>>,
     readable |-> TRUE]
ADir == ANode("dir")
AReg(ino, nlink, size) == [ANode("reg") EXCEPT !.mode = "644", !.ino = ino, !.nlink = nlink, !.size = size]
RootTree ==
    <<"d">> :> ADir @@ <<"e">> :> ADir @@ FileA :> AReg(1, 2, 3) @@ FileB :> AReg(1, 2, 3) @@
    <<"e", "u">> :> [ADir EXCEPT !.readable = FALSE] @@ <<"d", "l">> :> [ANode("lnk") EXCEPT !.to = FileA] @@
    <<"e", "x">> :> AReg(2, 1, 9)
FileOpts ==
    [dupesFail |-> FALSE, strictDoc |-> FALSE, unpackagedFail |-> TRUE, check |-> TRUE, install |-> TRUE,
     debug |-> FALSE, links |-> "compat", missingIds |-> FALSE, subpackages |-> TRUE, unique |-> "",
     debugsource |-> FALSE, format |-> 4, huge |-> 9,
     sources |-> <<[path |-> <<"p.spec">>, no |-> FALSE, exists |-> TRUE], [path |-> <<"s">>, no |-> TRUE, exists |-> TRUE]>>,
     lines |-> {}, maxLines |-> 3]
APackage(name) ==
    [name |-> name, arch |-> "x86_64", has |-> TRUE, spec |-> TRUE, list |-> <<>>, strip |-> <<>>, files |-> <<>>,
     excluded |-> {}, renamed |-> {}, size |-> 0, feats |-> {}, reqs |-> {}, recs |-> {}]

\* what every package has, attributes of every kind, and lines that are odd or wrong
CoreLines ==
    {Bare(FileA), Bare(FileB), Flagged("exclude", Abs(FileA)), Bare(<<"d", "*">>),
     Given([attr |-> <<"755", "bin", "-">>], FileA), FLine([defattr |-> <<"600", "sys", "sys", "700">>], <<>>),
     Flagged("exclude", Abs(<<"d", "l">>))}
AttrLines ==
    {Bare(FileA), Bare(FileB), Flagged("exclude", Abs(FileA)), Bare(<<"d", "*">>), Bare(<<"d">>),
     Flagged("dir", Abs(<<"d">>)), FLine(<<>>, <<Slash(<<"d">>)>>),
     Given([attr |-> <<"755", "bin", "-">>], FileA), Given([attr |-> <<"700", "adm", "adm">>], FileA),
     FLine([defattr |-> <<"600", "sys", "sys", "700">>], <<>>), Given([verify |-> <<"not", "size">>], FileA),
     FLine([defverify |-> <<"mode">>], <<>>), Flagged("ghost", Abs(<<"g">>)), Flagged("ghost", Slash(<<"h">>)),
     Given([config |-> <<"noreplace">>, lang |-> <<"C">>], FileA), Given([caps |-> <<"cap">>], FileA),
     Given([dev |-> <<"b", "1", "1">>], FileB)}
OddLines ==
    {Flagged("doc", Rel(<<"README">>)), Flagged("doc", Rel(<<"none">>)), Flagged("license", Rel(<<"README">>)),
     Flagged("doc", Abs(<<"none">>)), FLine(<<>>, <<Rel(<<"README">>), FlagWord("doc")>>),
     Flagged("docdir", Abs(<<"doc">>)), Flagged("pubkey", Rel(<<"key">>)), Flagged("pubkey", Abs(FileA)),
     FLine(<<>>, <<Abs(FileA), Abs(FileB)>>), Given([attr |-> <<"nonoctal", "-", "-">>], FileA),
     Given([verify |-> <<"unclosed">>], FileA), FLine(<<>>, <<[k |-> "quote"]>>),
     Given([config |-> <<"unclosed">>], FileA), Bare(<<"ctrl">>), Bare(<<"e">>), Bare(<<"e", "*">>), Bare(<<"d">>),
     Bare(<<"e", "x">>), FLine([config |-> <<>>], <<FlagWord("doc"), Rel(<<"README">>)>>)}

CoreInput ==
    [root |-> [p \in {p \in DOMAIN RootTree : p[1] = "d"} |-> RootTree[p]], pkgs |-> <<APackage("p")>>,
     opts |-> [FileOpts EXCEPT !.lines = CoreLines]]
OddInput ==
    [root |-> RootTree, pkgs |-> <<APackage("p")>>, opts |-> [FileOpts EXCEPT !.lines = OddLines, !.maxLines = 2]]
\* files that lose the ending .x, one of them a hard link
StripInput ==
    [root |-> <<"d">> :> ADir @@ FileA :> AReg(1, 1, 1) @@ FileAX :> AReg(2, 2, 1) @@ FileB :> AReg(2, 2, 1),
     pkgs |-> <<[APackage("p") EXCEPT !.strip = "a.x" :> "a"]>>,
     opts |-> [FileOpts EXCEPT !.lines = {Bare(FileA), Bare(FileAX), Bare(FileB), Flagged("exclude", Abs(FileA)),
                                         Flagged("exclude", Abs(FileAX))}]]

\* Two copies of a program with its debug files, and one without a build-id
Elf(id) == [ANode("reg") EXCEPT !.mode = "755", !.x = TRUE, !.elf = id]
BinA == <<"bin", "a">>
BinB == <<"bin", "b">>
LibDebug == <<"usr", "lib", "debug">>
SrcDebug == <<"usr", "src", "debug">>
Programs ==
    [p \in {<<"bin">>, <<"usr">>, <<"usr", "lib">>, LibDebug, LibDebug \o <<"bin">>, LibDebug \o <<".dwz">>,
            <<"usr", "src">>, SrcDebug} |-> ADir]
    @@ [p \in {BinA, BinB} |-> Elf(<<"aa", "1">>)]
    @@ [p \in {LibDebug \o <<"bin", "a.debug">>, LibDebug \o <<"bin", "b.debug">>} |->
            [ANode("reg") EXCEPT !.elf = <<"aa", "1">>]]
    @@ SrcDebug \o <<"s">> :> ANode("reg")
Listing(name, p) == [APackage(name) EXCEPT !.spec = FALSE, !.list = <<Bare(p)>>]
SourcePkg == Listing("p-debugsource", SrcDebug)
BinLines == {Bare(BinA), Bare(BinB), Flagged("exclude", Abs(BinA))}
DebugInput ==
    [root |-> Programs, pkgs |-> <<APackage("p"), APackage("p-s"), Listing("p-debuginfo", LibDebug)>>,
     opts |-> [FileOpts EXCEPT !.debug = TRUE, !.lines = BinLines, !.maxLines = 2]]
BinAX == <<"bin", "a.x">>
StripDebugInput ==
    [DebugInput EXCEPT !.root = BinAX :> Elf(<<"aa", "2">>) @@ LibDebug \o <<"bin", "a.x.debug">> :> ANode("reg") @@ Programs,
                       !.pkgs[2].strip = "a.x" :> "a", !.opts.lines = {Bare(BinA), Bare(BinB), Bare(BinAX)}]
FileInputs ==
    {CoreInput, [CoreInput EXCEPT !.opts.dupesFail = TRUE],
     [CoreInput EXCEPT !.opts.lines = AttrLines, !.opts.maxLines = 2],
     OddInput, [OddInput EXCEPT !.opts.strictDoc = TRUE, !.opts.format = 6],
     [OddInput EXCEPT !.opts.sources[2].exists = FALSE], [OddInput EXCEPT !.opts.sources[2].path = <<"x", "p.spec">>],
     StripInput, [StripInput EXCEPT !.opts.dupesFail = TRUE], StripDebugInput,
     [DebugInput EXCEPT !.opts.subpackages = FALSE, !.pkgs = Append(@, SourcePkg)],
     [DebugInput EXCEPT !.root = <<"bin", "c">> :> Elf(<<"none">>) @@ Programs, !.pkgs = Append(@, SourcePkg),
                        !.opts.debugsource = TRUE, !.opts.missingIds = TRUE,
                        !.opts.lines = BinLines \cup {Bare(<<"bin", "*">>)}, !.opts.maxLines = 1],
     [DebugInput EXCEPT !.pkgs[2].arch = "noarch"],
     [DebugInput EXCEPT !.root = [p \in {p \in DOMAIN Programs : ~IsStrictPrefix(LibDebug, p)} |-> Programs[p]],
                        !.opts.links = "none"]}
    \cup {[DebugInput EXCEPT !.opts.links = l, !.opts.dupesFail = (l = "separate")] :
            l \in {"separate", "compat", "alldebug"}}

----------------------------------------------------------------------------
\* Dependency generators: three files, one generator that is told of all files at
\* once and one that is called for each, with all they may say
DFile(path, type, x, elf) ==
    [path |-> path, type |-> type, x |-> x, elf |-> elf, config |-> FALSE, user |-> 0, group |-> 0]
Rule(magic, path, flags) == [magic |-> magic, path |-> path, flags |-> flags]
Dep(name, evr) == [n |-> name, evr |-> evr, ok |-> TRUE, rich |-> FALSE]
BadDep == [n |-> 4, evr |-> 0, ok |-> FALSE, rich |-> FALSE]
RichDep == [n |-> 5, evr |-> 0, ok |-> TRUE, rich |-> TRUE]
Says(words) == [k |-> "deps", words |-> words]
Of(no) == [k |-> "path", file |-> no]
Sayings ==
    {<<>>, <<Says(<<Dep(4, 0)>>)>>, <<Says(<<Dep(4, 1)>>), Says(<<Dep(10, 0)>>)>>,
     <<Says(<<Dep(4, 2), BadDep>>), Says(<<Dep(1, 0)>>)>>}
SaidOf(no, words) == IF words = <<>> THEN <<>> ELSE <<Of(no)>> \o words
Multi ==
    {SaidOf(1, a) \o SaidOf(3, b) : a, b \in Sayings}
    \cup {<<Of(2), Says(<<Dep(4, 0)>>)>>, <<Of(3), Of(1)>>, <<Says(<<Dep(4, 0)>>)>>}
ElfAttr ==
    [incl |-> Rule("elf", "", {"exeonly"}), excl |-> Rule("", "/no", {}), proto |-> "multifile",
     prints |-> [requires |-> [no \in {0} |-> Multi],
                 recommends |-> [no \in {0} |-> {<<>>, <<Of(3), Says(<<Dep(4, 0), Dep(4, 1)>>)>>}]]]
AnyAttr ==
    [incl |-> Rule("text", "/bin/c", {}), excl |-> Rule("", "", {}), proto |-> "singlefile",
     prints |-> [provides |-> [no \in 1..3 |-> {<<>>, <<Says(<<Dep(1, 1), RichDep>>)>>}],
                 requires |-> [no \in 1..3 |-> {<<>>, <<Says(<<Dep(4, 0), Dep(11, 3)>>)>>, <<Says(<<RichDep>>)>>}]]]
DepInput ==
    [files |-> <<DFile("/bin/a", "elf", TRUE, 2), DFile("/lib/b", "text", FALSE, 0), DFile("/bin/c", "elf", TRUE, 1)>>,
     attrs |-> <<ElfAttr, AnyAttr>>,
     deps |-> [provides |-> <<>>, recommends |-> <<>>,
               requires |-> <<[tag |-> "requires", n |-> 4, evr |-> 3, flags |-> 1]>>],
     autoReq |-> TRUE, autoProv |-> TRUE, internal |-> TRUE, format |-> 4, ugTag |-> "requires", configName |-> 2,
     exclude |-> {}, excludeFrom |-> {}, find |-> [requires |-> <<Dep(4, 0), RichDep>>], noarch |-> FALSE,
     terminate |-> FALSE, payload |-> "zstd", tilde |-> 3, richNames |-> {5}, cheating |-> FALSE]
DepInputs ==
    {DepInput,
     [DepInput EXCEPT !.files[1].config = TRUE, !.files[3].user = 11, !.files[3].group = 3,
                      !.exclude = {<<"requires", 10>>}, !.payload = "gzip", !.ugTag = "recommends"],
     [DepInput EXCEPT !.files[3].elf = 2, !.cheating = TRUE], [DepInput EXCEPT !.autoReq = FALSE, !.payload = "unknown"],
     [DepInput EXCEPT !.autoProv = FALSE, !.files[1].path = "/no"],
     [DepInput EXCEPT !.internal = FALSE], [DepInput EXCEPT !.internal = FALSE, !.format = 6],
     [DepInput EXCEPT !.files = <<>>], [DepInput EXCEPT !.attrs = <<>>], [DepInput EXCEPT !.attrs[2].proto = "other"], [DepInput EXCEPT !.files[1].type = "unknown"],
     [DepInput EXCEPT !.noarch = TRUE, !.terminate = TRUE, !.excludeFrom = {<<"requires", "/bin/a">>}]}
DepTags == <<"provides", "requires", "recommends">>
RpmlibNames == [PayloadIsZstd |-> 6, RichDependencies |-> 7, ShortCircuited |-> 8, TildeInVersions |-> 9]

----------------------------------------------------------------------------
\* Payloads: single files, links, directories and %ghosts around up to two sets of
\* hard links, in plain and in stripped archives
Member(type, size, ghost, ino) == [type |-> type, size |-> size, ghost |-> ghost, ino |-> ino]
Reg(size, ino) == Member("reg", size, FALSE, ino)
Ghost(ino) == Member("reg", 1, TRUE, ino)
DirMember == Member("dir", 1, FALSE, 0)
LinkMember == Member("link", 3, FALSE, 0)
PayloadPackages ==
    [stripped : BOOLEAN,
     files : {<<>>, <<DirMember, Reg(0, 0), Reg(2, 0)>>, <<Reg(1, 1), LinkMember, Reg(1, 1)>>,
              <<Reg(2, 1), Reg(1, 2), Reg(2, 1), Reg(1, 2)>>, <<Reg(0, 1), Reg(1, 0), Reg(0, 1), LinkMember>>,
              <<Reg(3, 1), Ghost(1), Reg(3, 1), Reg(3, 1)>>, <<Ghost(0), Reg(1, 1), Reg(5, 0)>>}]

----------------------------------------------------------------------------
\* Expressions of up to three operators
Lf(t) == <<"leaf", t>>
FewLeaves == {Lf(<<"int", 0>>), Lf(<<"mac", 2>>), Lf(<<"str", <<1>>>>), Lf(<<"word", 0>>)}
AllLeaves == FewLeaves \cup {Lf(<<"int", 1>>), Lf(<<"str", <<>>>>), Lf(<<"ver", 1>>)}
OneOperator(L) ==
    {<<op, a, b>> : op \in {"*", "/", "+", "-", "==", "<=", "&&", "||"}, a \in L, b \in L}
    \cup {<<u, a>> : u \in {"!", "neg"}, a \in L} \cup {<<"lua", a, name>> : a \in L, name \in {0, 7}} \cup {<<"?", a, b, c>> : a \in L, b \in L, c \in L}
ExprTrees ==
    OneOperator(AllLeaves)
    \cup {<<op, a, b>> : op \in {"-", "/", "<=", "&&", "||"}, a \in OneOperator(FewLeaves), b \in FewLeaves}
    \cup {<<op, a, b>> : op \in {"-", "/", "&&", "||"}, a \in FewLeaves, b \in OneOperator(FewLeaves)}
    \cup {<<"?", c, b, a>> : c \in OneOperator(FewLeaves), a \in FewLeaves, b \in FewLeaves}
    \cup {<<"?", c, b, a>> : a \in OneOperator(FewLeaves), c \in FewLeaves, b \in FewLeaves}
    \cup {<<"?", c, <<"lua", a, 7>>, b>> : a \in OneOperator(AllLeaves), c \in FewLeaves, b \in FewLeaves}

\* Boolean dependencies of up to three operands in up to three levels
RichOps == {"and", "or", "if", "unless", "else", "with", "without"}
Branch(operators, args) == [name |-> <<>>, ops |-> operators, args |-> args]
Pair(op, a, b) == Branch(<<op>>, <<a, b>>)
Three(o1, o2, a, b, c) == Branch(<<o1, o2>>, <<a, b, c>>)
Simple(name) == [name |-> name, ops |-> <<>>, args |-> <<>>]
OpA == Simple(<<"a">>)
OpB == Simple(<<"b", "=", "1">>)
OpC == Simple(<<"and">>)
OnePair == {Pair(op, OpA, OpB) : op \in RichOps}
IfElse == {Three(op, "else", OpA, OpB, OpC) : op \in {"if", "unless"}}
Parenthesised == {Branch(<<>>, <<x>>) : x \in OnePair}
DeepPair == {Pair(op, x, OpC) : op \in RichOps, x \in OnePair}
RichTrees ==
    OnePair \cup IfElse \cup Parenthesised
    \cup {Pair(op, x, OpC) : op \in RichOps, x \in OnePair \cup IfElse \cup Parenthesised}
    \cup {Pair(op, OpC, x) : op \in RichOps, x \in OnePair \cup IfElse}
    \cup {Three(o1, o2, OpA, OpB, OpC) : o1, o2 \in RichOps}
    \cup {Three(op, "else", OpA, OpB, x) : op \in {"if", "unless"}, x \in OnePair \cup DeepPair}
    \cup {Three(op, "else", OpA, x, OpC) : op \in {"if", "unless"}, x \in OnePair \cup DeepPair}
    \cup {Three(op, op, x, OpB, y) : op \in {"and", "or", "with"}, x, y \in OnePair}
    \cup {Pair(op, x, OpA) : op \in RichOps, x \in DeepPair} \cup {Pair(op, OpA, x) : op \in RichOps, x \in DeepPair}
RichInstalled == {g \in [{"a", "b", "and"} -> {{}, {1}, {2}}] : g["a"] # {2}}

\* Versions of up to three characters, ranges between a few versions, of which some
\* versions and releases lie in between, and sorted sets of dependencies
VersionStrings == BoundedSeq({".", "0", "1", "^", "a", "~"}, 3) \cup {<<"b">>, <<"a", "b">>, <<"b", "a">>}
FullVersions ==
    [e : {<<"0">>, <<"1">>}, v : {<<"0">>, <<"1">>, <<"1", ".", "0">>, <<"1", ".", "1">>, <<"1", "0">>},
     r : {<<"0">>, <<"1">>, <<"1", "0">>}]
RangeEnds == [e : {<<"none">>, <<"0">>, <<"1">>}, v : {<<"1">>, <<"1", ".", "1">>}, r : {<<"none">>, <<"1">>}]
VersionRanges == [v : RangeEnds, f : SUBSET {"<", "=", ">"} \ {{}, {"<", ">"}, {"<", "=", ">"}}]
Versioned(name, evr, flags) == [name |-> name, evr |-> evr, flags |-> flags]
SortedDeps ==
    <<Versioned("a", <<>>, {}), Versioned("a", <<"0">>, {"="}), Versioned("a", <<"1", "-", "1">>, {"="}),
      Versioned("b", <<"0">>, {"<", "="}), Versioned("b", <<"1">>, {"="}), Versioned("~", <<"0">>, {"="})>>
DepSets == {SelectSeq(SortedDeps, LAMBDA d : d \in S) : S \in SUBSET ToSet(SortedDeps)}
WantedDeps == [name : {"a", "b", "~", "0"}, evr : {<<"1">>}, flags : {{}, {"="}, {"<"}, {">", "="}}]
VersionCases ==
    [part : {"cmp"}, x : VersionStrings] \cup [part : {"overlap"}, x : VersionRanges]
    \cup [part : {"search"}, x : DepSets] \cup [part : {"evr"}, x : RangeEnds]

----------------------------------------------------------------------------
\* Spec files: lines about conditionals, packages, the build and scripts, each kind
\* after the lines a spec file begins with
If(k, c) == [k |-> k, c |-> c]
Tag(t, v) == [k |-> "tag", t |-> t, v |-> v]
TagSet(ts) == [k |-> "tags", ts |-> ts]
SpecPart(name, subpackage, mode, dep) ==
    [k |-> "part", part |-> name, pkg |-> subpackage, mode |-> mode, dep |-> dep]
Named(name) == SpecPart(name, "", "", "")
Just(k) == [k |-> k]
CondLines ==
    {If("if", "true"), If("if", "m"), If("ifarch", "noarch"), If("elif", "true"), If("elifarch","x86_64"),
     If("if","bad"), Just("else"), Just("endif"), Just("include"), Just("define"), Just("open"), Just("close"),
     Tag("BuildArch", <<"noarch", "x86_64">>)}
PackageLines ==
    {TagSet(RequiredTags), TagSet({"Summary"}), TagSet({"License"}), SpecPart("preamble", "sub", "", ""),
     SpecPart("description", "sub", "", ""), Named("description"), SpecPart("files", "sub", "", ""), Named("files"),
     Just("text"), Tag("BuildArch", <<"noarch">>), Tag("BuildArch", <<"ppc">>), Tag("ExclusiveArch", <<"noarch">>),
     Tag("ExcludeArch", <<"noarch">>), Named("end")}
SectionLines ==
    {Named("sourcelist"), Named("prep"), Named("build"), SpecPart("build", "", "append", ""),
     SpecPart("build", "", "prepend", ""), Just("patch"), Named("changelog"), [k |-> "entry", v |-> 1],
     [k |-> "entry", v |-> 2]}
BuildLines ==
    SectionLines \cup
    {Tag("Patch", "auto"), Tag("Source", "zero"), Tag("Source", "auto"), Tag("NoSource", "zero"),
     Tag("BuildSystem", "auto")}
ScriptLines ==
    {TagSet(RequiredTags), Named("description"), SpecPart("triggerin", "", "", "foo"), SpecPart("triggerin", "", "", "bar"),
     SpecPart("filetriggerin", "", "", "path"), Named("post"), SpecPart("triggerin", "", "", "rich"),
     SpecPart("triggerin", "", "", "none"),
     Tag("Requires", "rich"), Tag("Requires", "noversion")}
Text(first, lines) == [first |-> first, lines |-> lines]
MCTexts ==
    {Text(<<TagSet(RequiredTags)>>, CondLines), Text(<<>>, PackageLines),
     Text(<<TagSet(RequiredTags), SpecPart("preamble", "sub", "", "")>>, PackageLines),
     Text(<<TagSet(RequiredTags)>>, BuildLines), Text(<<TagSet(RequiredTags), Named("description")>>, SectionLines),
     Text(<<TagSet(RequiredTags), Named("description")>>, ScriptLines)}

\* The other parts; Pack with packages on either
\* side of the size that needs other tags
Bf == INSTANCE BuildFiles WITH Inputs <- FileInputs, DocSources <- {"README"}, PubKeys <- {"key"}
Pd == INSTANCE PkgDeps WITH Inputs <- DepInputs, Tags <- DepTags, Rpmlib <- RpmlibNames
Pk == INSTANCE Pack WITH Files <- {0, 1, 3, 4}, Big <- 7, Reserved <- 3
Py == INSTANCE Payload WITH Packages <- PayloadPackages, FileMax <- 5, Room <- {5, 30, 47, 150, 2000}
Bd == INSTANCE Build WITH Commands <- BuildCommands, Host <- "x86_64"
Ex == INSTANCE Expression WITH IntMax <- 3
Vs == INSTANCE Versions
Rd == INSTANCE RichDeps

VersionsAgree(c) ==
    CASE c.part = "cmp" -> Vs!VercmpAgrees(c.x, VersionStrings)
      [] c.part = "overlap" -> Vs!OverlapAgrees(c.x, VersionRanges, FullVersions)
      [] c.part = "search" -> \A o \in WantedDeps : Vs!SearchAgrees(c.x, o)
      [] c.part = "evr" -> Vs!EvrReadBack(c.x)

----------------------------------------------------------------------------
NoSpecParser ==
    /\ alpha = "" /\ text = "" /\ left = "" /\ files = "" /\ glue = "" /\ rl = ""
    /\ part = "" /\ spec = "" /\ macros = "" /\ archs = "" /\ kids = "" /\ status = ""
    /\ freed = "" /\ seen = ""
NoBuildFiles ==
    /\ root = "" /\ opts = "" /\ pkgs = "" /\ n = "" /\ f = "" /\ maindbg = ""
    /\ deplink = "" /\ checked = "" /\ src = ""
NoPkgDeps ==
    /\ deps = "" /\ nerrors = "" /\ fahash = "" /\ color = "" /\ fileDeps = "" /\ said = ""
    /\ ddict = "" /\ fddict = ""
NoPack ==
    /\ format = "" /\ nfiles = "" /\ pc = "" /\ hdr = "" /\ file = "" /\ there = ""
    /\ dig = "" /\ alt = "" /\ payloadStart = "" /\ payloadEnd = "" /\ hdrStart = ""
NoBuild ==
    /\ argi = "" /\ targets = "" /\ ti = "" /\ amount = "" /\ child = "" /\ what = ""
    /\ missing = "" /\ tasks = "" /\ order = "" /\ prc = "" /\ signs = "" /\ packed = ""
    /\ removed = "" /\ brbad = ""
NoPayload ==
    /\ pkg = "" /\ room = "" /\ itype = "" /\ arc = "" /\ avail = "" /\ cpio = ""
    /\ i = "" /\ found = "" /\ tell = "" /\ hardlink = "" /\ got = ""

MCInit ==
    \/ /\ unit = "spec" /\ Init /\ tree = <<>>
       /\ at = "" /\ in = "" /\ todo = "" /\ rc = ""
       /\ NoBuildFiles /\ NoPkgDeps /\ NoPack /\ NoBuild /\ NoPayload
    \/ /\ unit = "files" /\ Bf!Init /\ tree = <<>>
       /\ done = "" /\ in = "" /\ todo = "" /\ rc = ""
       /\ NoSpecParser /\ NoPkgDeps /\ NoPack /\ NoBuild /\ NoPayload
    \/ /\ unit = "deps" /\ Pd!Init /\ tree = <<>>
       /\ done = ""
       /\ NoSpecParser /\ NoBuildFiles /\ NoPack /\ NoBuild /\ NoPayload
    \/ /\ unit = "pack" /\ Pk!Init /\ tree = <<>>
       /\ stage = "" /\ done = "" /\ at = "" /\ in = "" /\ todo = ""
       /\ NoSpecParser /\ NoBuildFiles /\ NoPkgDeps /\ NoBuild /\ NoPayload
    \/ /\ unit = "build" /\ Bd!Init /\ tree = <<>>
       /\ at = ""
       /\ NoSpecParser /\ NoBuildFiles /\ NoPkgDeps /\ NoPack /\ NoPayload
    \/ /\ \/ unit = "expr" /\ tree \in ExprTrees
          \/ unit = "version" /\ tree \in VersionCases
          \/ unit = "rich" /\ tree \in RichTrees
       /\ stage = "" /\ done = "" /\ at = "" /\ in = "" /\ todo = "" /\ rc = ""
       /\ NoSpecParser /\ NoBuildFiles /\ NoPkgDeps /\ NoPack /\ NoBuild /\ NoPayload
    \/ /\ unit = "payload" /\ Py!Init /\ tree = <<>>
       /\ stage = "" /\ done = "" /\ at = "" /\ in = "" /\ todo = ""
       /\ format = "" /\ nfiles = "" /\ hdr = "" /\ file = "" /\ there = ""
       /\ dig = "" /\ alt = "" /\ payloadStart = "" /\ payloadEnd = "" /\ hdrStart = ""
       /\ NoSpecParser /\ NoBuildFiles /\ NoPkgDeps /\ NoBuild

MCNext ==
    \/ /\ unit = "spec" /\ Next
       /\ UNCHANGED <<unit, at, in, todo, rc, ofBuildFiles, ofPkgDeps, ofPack, ofBuild, tree, ofPayload>>
    \/ /\ unit = "files" /\ Bf!Next
       /\ UNCHANGED <<unit, done, in, todo, rc, ofSpecParser, ofPkgDeps, ofPack, ofBuild, tree, ofPayload>>
    \/ /\ unit = "deps" /\ Pd!Next
       /\ UNCHANGED <<unit, done, ofSpecParser, ofBuildFiles, ofPack, ofBuild, tree, ofPayload>>
    \/ /\ unit = "pack" /\ Pk!Next
       /\ UNCHANGED <<unit, stage, done, at, in, todo, ofSpecParser, ofBuildFiles, ofPkgDeps, ofBuild, tree, ofPayload>>
    \/ /\ unit = "build" /\ Bd!Next
       /\ UNCHANGED <<unit, at, ofSpecParser, ofBuildFiles, ofPkgDeps, ofPack, tree, ofPayload>>
    \/ /\ unit = "payload" /\ Py!Next
       /\ UNCHANGED <<unit, stage, done, at, in, todo, ofSpecParser, ofBuildFiles, ofPkgDeps, ofBuild, tree>>
       /\ UNCHANGED <<format, nfiles, hdr, file, there, dig, alt, payloadStart, payloadEnd, hdrStart>>

MCSpec == MCInit /\ [][MCNext]_mcVars
\* the generation of dependencies alone
DepsSpec == unit = "deps" /\ MCInit /\ [][MCNext]_mcVars

----------------------------------------------------------------------------
\* What is written in a spec file means what its grammar says.  The parser of
\* expressions gives a tree whose numbers fit an int its value, refuses what has no
\* type or fails in a part that counts, and expands the macros and calls the functions
\* of those parts only, once each and in order (expression.cc).  rpmvercmp() is an
\* order, ranges of versions overlap when they have a version in common, and the
\* search in a dependency set misses no match (rpmver.cc, rpmds.cc).  A boolean dependency is accepted if its operators may
\* stand together, and taking it apart gives its value (rpmds.cc, depends.cc), where
\* A unless B is "A AND NOT(B)" as the comment in unsatisfiedDepend() has it and not
\* A or B as rpm-dependencies(7) does.
LanguagesAgree ==
    /\ unit = "expr" => Ex!ExprAgrees(tree)
    /\ unit = "version" => VersionsAgree(tree)
    /\ unit = "rich" => Rd!RichDepsAgree(tree, RichInstalled)

\* A line of a spec file counts exactly when every conditional around it, across
\* included files, is in the first branch whose condition holds (readLine()).
\* The macros pushed for an open file, for %prep and for %files are popped however
\* the parse ends, %{_target_cpu} unless the parse for an architecture fails (those
\* that tags of the preamble define stay and are not meant).  What goes on to be
\* packaged has unique names and source numbers, all of its tags, and triggers
\* that name scripts of their kind (finalizeSpec(), addTriggerIndex()).
SpecParsed == unit = "spec" => BranchesFollowed /\ MacrosRestored /\ FinalIsComplete

\* A build that succeeds has every file of the build root in some package's
\* header or set aside by an %exclude; in a header, files have the same inode
\* number exactly when they are hard links of one another, unless two files were
\* listed as one path; every identified ELF file has a build-id link in its own
\* package, which leads to it unless it was renamed; and the debug file of a
\* program is in the debuginfo packages of those that have the program and in no
\* others (build/files.cc).
FilesPackaged ==
    unit = "files" =>
        Bf!NothingForgotten /\ Bf!InodesTellLinks /\ Bf!BuildIdsLinked /\ Bf!DebugFollowsProgram

\* When the dictionary of file dependencies is made its positions lead to each
\* file's own dependencies; and nothing a generator said of a file is lost: the
\* package has it, or the versioned form of it that a file of the same colour
\* asked for (rpmfcApplyInternal(), rpmfcNormalizeFDeps()).
GeneratedDependenciesKept == unit = "deps" => Pd!FileDepsNamed /\ Pd!NothingSaidLost

\* In the package that is written, too, the dictionary leads to dependencies of the
\* package that each file has (rpmfcGenerateDepends(), then processScriptFiles()
\* and the rpmlib() dependencies).
FileDepsInPackage == unit = "deps" => Pd!FileDepsInPackage

\* Whoever reads a package that was reported as written finds two headers and a
\* payload, and every digest and size of what is stored in the file is right,
\* although they were written over placeholders; those of the uncompressed payload
\* are right exactly if all of the archive was written, which is not known where the
\* package is reported as written (writeRPM(), cpio_doio()).  The archive in it
\* ends for a reader exactly when all of it is there, and gives back every file
\* that was written, once, and the content of hard links with one of them
\* (iterWriteArchiveNext(), iterReadArchiveNext()).
PackageDescribesItself ==
    /\ unit = "pack" => Pk!PackageDescribesItself
    /\ unit = "payload" => Py!PayloadReadBack

\* When packaging goes on to its end every package with files was written and
\* signed, whichever task ran it and failed (packageBinaries()); and the sources
\* are removed only once nothing of the spec is left to be built, for any target
\* or architecture (rpmSpecBuild()).
BuildComplete == unit = "build" => Bd!AllPackagesOrFailure /\ Bd!SourcesKeptUntilDone
=============================================================================
