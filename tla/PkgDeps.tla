------------------------------- MODULE PkgDeps -------------------------------
(***************************************************************************)
(* The dependencies of one package while it is built: the file classifier  *)
(* and the dependency generators (build/rpmfc.cc), the parser of what they *)
(* print (build/parseReqs.cc), the sorted dependency sets they are merged  *)
(* into (lib/rpmds.cc, build/reqprov.cc), and what build/pack.cc still     *)
(* adds before the sets go into the header.                                *)
(*                                                                         *)
(* Names and versions are numbers, in the order of strcmp(); version 0 is  *)
(* no version.  A set of dependencies is a sequence sorted by name,        *)
(* version and flags.                                                      *)
(***************************************************************************)
EXTENDS Integers, Sequences, FiniteSets, SequencesExt

CONSTANTS
    Inputs,         \* packages: files, attributes, what their generators may print
    Tags,           \* the dependency types, in the order of applyDepTable[]
    Rpmlib          \* [feature -> the name of its rpmlib() dependency]

VARIABLES
    in,         \* the package and the build's settings
    deps,       \* pkg->dependencies: tag -> sorted set
    todo,       \* files no thread has classified yet
    nerrors,
    fahash,     \* pairs <<attribute, file>>
    color,      \* fc->fcolor
    at,         \* the generator to run next: <<tag, attribute, file>>
    fileDeps,   \* fc->fileDeps
    said,       \* every file dependency a generator gave, kept or not
    ddict,      \* fc->ddictx: pairs <<tag, position>>
    fddict,     \* fc->fddictx, fc->fddictn: file -> <<start, number>>
    rc,
    stage

vars == <<in, deps, todo, nerrors, fahash, color, at, fileDeps, said, ddict, fddict, rc, stage>>

Files == 1..Len(in.files)
Attrs == 1..Len(in.attrs)

-----------------------------------------------------------------------------
(* rpmds *)

Ds(tag, name, evr, flags) == [tag |-> tag, n |-> name, evr |-> evr, flags |-> flags]
Versioned(d) == d.evr # 0

\* the comparison of doFind()
Before(a, b) ==
    \/ a.n < b.n
    \/ a.n = b.n /\ a.evr < b.evr
    \/ a.n = b.n /\ a.evr = b.evr /\ a.flags < b.flags

\* doFind(): where an entry is, counted from 0, or -1
Find(ds, d) == IF \E i \in DOMAIN ds : ds[i] = d THEN Cardinality({i \in DOMAIN ds : Before(ds[i], d)}) ELSE -1

\* rpmdsMerge(): into its place, once
Merge(ds, d) ==
    IF Find(ds, d) >= 0 THEN ds
    ELSE InsertAt(ds, 1 + Cardinality({i \in DOMAIN ds : Before(ds[i], d)}), d)

MergeInto(all, d) == [all EXCEPT ![d.tag] = Merge(@, d)]
NeedsFeature(all, feature) == MergeInto(all, Ds("requires", Rpmlib[feature], 1, 0))

-----------------------------------------------------------------------------
(* rpmfcGenerateDepends() up to the classifier *)

Init ==
    /\ in \in Inputs
    /\ deps = in.deps
    /\ todo = {} /\ nerrors = 0 /\ fahash = {} /\ color = <<>> /\ at = <<1, 1, 1>>
    /\ fileDeps = <<>> /\ said = {} /\ ddict = <<>> /\ fddict = <<>>
    /\ rc = "ok" /\ stage = "start"

UserGroup(f) == IF in.autoReq THEN SelectSeq(<<f.user, f.group>>, LAMBDA u : u # 0) ELSE <<>>

\* user() and group() of files that are not root's, config() of packages with %config files
Begin ==
    /\ stage = "start"
    /\ IF in.files = <<>>
       THEN stage' = "generated" /\ UNCHANGED <<deps, todo, color>>
       ELSE LET owners == FlattenSeq([i \in Files |-> UserGroup(in.files[i])])
                d1 == FoldLeft(LAMBDA all, u : MergeInto(all, Ds(in.ugTag, u, 0, 0)), deps, owners)
                config == \E i \in Files : in.files[i].config
                d2 == IF in.autoProv /\ config THEN MergeInto(d1, Ds("provides", in.configName, 1, 0)) ELSE d1
            IN /\ deps' = IF in.autoReq /\ config THEN MergeInto(d2, Ds("requires", in.configName, 1, 0)) ELSE d2
               /\ todo' = IF in.attrs = <<>> THEN {} ELSE Files
               /\ color' = [i \in Files |-> 0]
               /\ stage' = "classify"
    /\ UNCHANGED <<in, nerrors, fahash, at, fileDeps, said, ddict, fddict, rc>>

-----------------------------------------------------------------------------
(* rpmfcClassify(): files are shared out among threads, in any order *)

\* matches(): mime replaces magic; both kinds of pattern, or either
Matches(rule, f) ==
    /\ "exeonly" \in rule.flags => f.x
    /\ IF rule.magic # "" /\ rule.path # "" /\ "magic_and_path" \in rule.flags
       THEN rule.magic = f.type /\ rule.path = f.path
       ELSE (rule.magic # "" /\ rule.magic = f.type) \/ (rule.path # "" /\ rule.path = f.path)

\* rpmfcAttributes()
Attributes(ix) ==
    {<<a, ix>> : a \in {a \in Attrs :
        ~Matches(in.attrs[a].excl, in.files[ix]) /\ Matches(in.attrs[a].incl, in.files[ix])}}

\* a file libmagic cannot tell is an error if it can be run, and data if not
Classify(ix) ==
    /\ stage = "classify" /\ ix \in todo
    /\ todo' = todo \ {ix}
    /\ nerrors' = IF in.files[ix].type = "unknown" /\ in.files[ix].x THEN nerrors + 1 ELSE nerrors
    /\ fahash' = fahash \cup Attributes(ix)
    /\ color' = [color EXCEPT ![ix] = IF in.files[ix].x THEN in.files[ix].elf ELSE 0]
    /\ UNCHANGED <<in, deps, at, fileDeps, said, ddict, fddict, rc, stage>>

Skipped(tag) == (tag = "provides" /\ ~in.autoProv) \/ (tag # "provides" /\ ~in.autoReq)

\* no attributes at all are an error; so is the external generator for a v6 package
Classified ==
    /\ stage = "classify" /\ todo = {}
    /\ IF in.attrs = <<>> \/ nerrors > 0 \/ (~in.internal /\ in.format >= 6)
       THEN rc' = "fail" /\ stage' = "done"
       ELSE stage' = (IF in.internal THEN "apply" ELSE "external") /\ UNCHANGED rc
    /\ fddict' = [i \in Files |-> <<0, 0>>]
    /\ UNCHANGED <<in, deps, todo, nerrors, fahash, color, at, fileDeps, said, ddict>>

-----------------------------------------------------------------------------
(* rpmfcApplyInternal(): a generator for every type and attribute *)

\* fnx: the files of an attribute that %__TYPE_exclude_from leaves, sorted
Fnx(tag, a) ==
    SelectSeq([i \in Files |-> i],
              LAMBDA i : <<a, i>> \in fahash /\ <<tag, in.files[i].path>> \notin in.excludeFrom)

\* addReqProvFc(): a dependency %__TYPE_exclude matches is dropped
Excluded(d) == <<d.tag, d.n>> \in in.exclude

\* parseRCPOT(): the dependencies of a line up to the first that is not well formed
Parse(line, tag) ==
    LET good == SelectInSeq(line, LAMBDA w : ~w.ok \/ (w.rich /\ tag = "provides"))
        words == IF good = 0 THEN line ELSE SubSeq(line, 1, good - 1)
    IN [ok |-> good = 0, deps |-> [i \in DOMAIN words |-> Ds(tag, words[i].n, words[i].evr, 0)]]

FileDep(ix, d) == [ix |-> ix, dep |-> d]

\* genDeps() on one line: g.fx is the file the dependencies belong to, counted from 0.  A
\* path line looks ahead in paths[]; past its last entry is the NULL that ends it, which
\* rstreq() cannot compare; before the first path line there is no file to give them to.
GenLine(g, line, tag, fnx) ==
    IF g.undefined \/ g.stop THEN g
    ELSE IF line.k = "path"
    THEN LET later == {x \in (g.fx + 1)..(Len(fnx) - 1) : fnx[x + 1] = line.file}
         IN IF g.fx + 1 >= Len(fnx) THEN [g EXCEPT !.undefined = TRUE]
            ELSE IF later = {} THEN [g EXCEPT !.fx = Len(fnx) - 1, !.rc = @ + 1, !.stop = TRUE]
            ELSE [g EXCEPT !.fx = Min(later)]
    ELSE LET p == Parse(line.words, tag)
         IN IF g.fx < 0 THEN [g EXCEPT !.undefined = TRUE]
            ELSE [g EXCEPT !.rc = IF p.ok THEN @ ELSE @ + 1,
                           !.deps = @ \o [i \in DOMAIN p.deps |-> FileDep(fnx[g.fx + 1], p.deps[i])]]

GenDeps(lines, tag, fnx, fx) ==
    FoldLeft(LAMBDA g, line : GenLine(g, line, tag, fnx),
             [fx |-> fx, rc |-> 0, deps |-> <<>>, stop |-> FALSE, undefined |-> FALSE], lines)

AfterCall(a3) ==
    LET fnx == Fnx(Tags[a3[1]], a3[2])
    IN IF in.attrs[a3[2]].proto = "singlefile" /\ a3[3] < Len(fnx) THEN <<a3[1], a3[2], a3[3] + 1>>
       ELSE IF a3[2] < Len(in.attrs) THEN <<a3[1], a3[2] + 1, 1>>
       ELSE <<a3[1] + 1, 1, 1>>

\* applyAttr(), rpmfcHelper(): one call of a generator, with all files or with one.  A
\* generator that fails counts as one that printed nothing; a protocol that is neither
\* of the two is an error.
RunGenerator ==
    /\ stage = "apply" /\ at[1] <= Len(Tags)
    /\ LET tag == Tags[at[1]]
           attr == in.attrs[at[2]]
           fnx == Fnx(tag, at[2])
           runs == ~Skipped(tag) /\ tag \in DOMAIN attr.prints /\ \E i \in Files : <<at[2], i>> \in fahash
           single == attr.proto = "singlefile"
           unknown == attr.proto \notin {"singlefile", "multifile"}
       IN \E lines \in IF ~runs \/ unknown \/ (single /\ fnx = <<>>) THEN {<<>>}
                       ELSE attr.prints[tag][IF single THEN fnx[at[3]] ELSE 0] :
            LET g == GenDeps(lines, tag, fnx, IF single THEN at[3] - 1 ELSE -1)
                kept == SelectSeq(g.deps, LAMBDA fd : ~Excluded(fd.dep))
            IN /\ fileDeps' = fileDeps \o kept
               /\ said' = said \cup ToSet(kept)
               /\ rc' = IF g.rc > 0 \/ (runs /\ unknown) THEN "fail" ELSE rc
               /\ stage' = IF g.undefined THEN "undefined" ELSE stage
    /\ at' = AfterCall(at)
    /\ UNCHANGED <<in, deps, todo, nerrors, fahash, color, ddict, fddict>>

NormalizedTags == {"requires", "recommends", "suggests"}

\* rpmfcNormalizeFDeps(): versioned ones first; an unversioned one stays only if no
\* versioned one has its type, its name and the colour of its file
Normalize(fds) ==
    LET Key(fd) == <<color[fd.ix], fd.dep.tag, fd.dep.n>>
        first == SelectSeq(fds, LAMBDA fd : Versioned(fd.dep)) \o SelectSeq(fds, LAMBDA fd : ~Versioned(fd.dep))
    IN SelectSeq(first, LAMBDA fd :
        \/ fd.dep.tag \notin NormalizedTags \/ Versioned(fd.dep)
        \/ ~\E i \in DOMAIN fds : Versioned(fds[i].dep) /\ Key(fds[i]) = Key(fd))

\* std::sort() by file; the order of a file's own dependencies does not matter
ByFile(fds) == FlattenSeq([i \in Files |-> SelectSeq(fds, LAMBDA fd : fd.ix = i)])

\* the per-file indices into the package's dependencies
IndexOf(all, fd) == <<fd.dep.tag, Find(all[fd.dep.tag], fd.dep)>>

\* indices taken while the dependencies are still being merged
IndexAsMerged(all, fds) ==
    FoldLeft(LAMBDA a, fd : LET now == MergeInto(a.deps, fd.dep)
                            IN [deps |-> now, dict |-> Append(a.dict, IndexOf(now, fd))],
             [deps |-> all, dict |-> <<>>], fds)

IndexAll(all, fds) ==
    LET merged == FoldLeft(LAMBDA a, fd : MergeInto(a, fd.dep), all, fds)
    IN [deps |-> merged, dict |-> [i \in DOMAIN fds |-> IndexOf(merged, fds[i])]]

\* the rest of rpmfcApplyInternal(), which runs whatever the generators returned
ApplyInternal ==
    /\ stage = "apply" /\ at[1] > Len(Tags)
    /\ LET fds == ByFile(Normalize(fileDeps))
           ix == IndexAll(deps, fds)
           Own(i) == {x \in DOMAIN fds : fds[x].ix = i}
       IN /\ fileDeps' = fds
          /\ deps' = ix.deps
          /\ ddict' = ix.dict
          /\ fddict' = [i \in Files |-> IF Own(i) = {} THEN <<0, 0>> ELSE <<Min(Own(i)) - 1, Cardinality(Own(i))>>]
    /\ stage' = IF rc = "ok" THEN "color" ELSE "done"
    /\ UNCHANGED <<in, todo, nerrors, fahash, color, at, said, rc>>

\* rpmfcApplyExternal(): %__find_provides and the like, for all files at once, per package
ApplyExternal ==
    /\ stage = "external"
    /\ IF at[1] > Len(Tags)
       THEN stage' = "color" /\ UNCHANGED <<deps, rc, at>>
       ELSE LET tag == Tags[at[1]]
            IN \E out \in IF Skipped(tag) \/ tag \notin DOMAIN in.find THEN {"none"} ELSE {"fails", "prints"} :
                 LET p == Parse(IF out = "prints" THEN in.find[tag] ELSE <<>>, tag)
                     failed == out = "fails" \/ ~p.ok
                 IN /\ deps' = FoldLeft(MergeInto, deps, p.deps)
                    /\ at' = <<at[1] + 1, 1, 1>>
                    /\ rc' = IF failed THEN "fail" ELSE rc
                    /\ stage' = IF failed THEN "done" ELSE stage
    /\ UNCHANGED <<in, todo, nerrors, fahash, color, fileDeps, said, ddict, fddict>>

\* rpmfcCheckPackageColor(); the dictionaries are in the header by now
CheckPackageColor ==
    /\ stage = "color"
    /\ LET binaries == \E i \in Files : color[i] # 0
       IN rc' = IF in.noarch /\ binaries /\ in.terminate THEN "fail" ELSE rc
    /\ stage' = IF rc' = "ok" THEN "generated" ELSE "done"
    /\ UNCHANGED <<in, deps, todo, nerrors, fahash, color, at, fileDeps, said, ddict, fddict>>

-----------------------------------------------------------------------------
(* build/pack.cc: packageBinary(), getIOFlags(), finalizeDeps() *)

HaveVersion(v) == \E t \in DOMAIN deps : \E i \in DOMAIN deps[t] : deps[t][i].evr = v
HaveRich == \E t \in DOMAIN deps : \E i \in DOMAIN deps[t] : deps[t][i].n \in in.richNames

\* the features the payload's compression, '~' in a version and rich dependencies need
FinalizeDeps ==
    /\ stage = "generated"
    /\ \/ /\ in.payload = "unknown" /\ rc' = "fail" /\ UNCHANGED deps
       \/ /\ in.payload # "unknown" /\ UNCHANGED rc
          /\ LET Need(all, f, when) == IF when THEN NeedsFeature(all, f) ELSE all
                 d1 == Need(deps, "ShortCircuited", in.cheating)
                 d2 == Need(d1, "PayloadIsZstd", in.payload = "zstd")
                 d3 == Need(d2, "TildeInVersions", HaveVersion(in.tilde))
             IN deps' = Need(d3, "RichDependencies", HaveRich)
    /\ stage' = "done"
    /\ UNCHANGED <<in, todo, nerrors, fahash, color, at, fileDeps, said, ddict, fddict>>

Next ==
    \/ Begin \/ (\E ix \in todo : Classify(ix)) \/ Classified
    \/ RunGenerator \/ ApplyInternal \/ ApplyExternal \/ CheckPackageColor \/ FinalizeDeps
Spec == Init /\ [][Next]_vars

-----------------------------------------------------------------------------

Slice(i) == SubSeq(ddict, fddict[i][1] + 1, fddict[i][1] + fddict[i][2])
Named(i) == {deps[Slice(i)[k][1]][Slice(i)[k][2] + 1] : k \in DOMAIN Slice(i)}
Given(i) == {fd.dep : fd \in {fd \in ToSet(fileDeps) : fd.ix = i}}

(* The dictionary goes into the header as positions: when it does, the     *)
(* entries of every file lead to that file's own dependencies, however     *)
(* many attributes, generators and earlier entries there were.             *)
FileDepsNamed ==
    stage \in {"color", "generated"} /\ in.internal =>
      \A i \in Files : fddict # <<>> => Named(i) = Given(i)

(* Nothing a generator said of a file is lost: the package has it, or the  *)
(* versioned form of it that a file of the same colour asked for.          *)
NothingSaidLost ==
    stage = "generated" =>
      \A fd \in said :
         \/ Find(deps[fd.dep.tag], fd.dep) >= 0
         \/ \E o \in said : /\ o.dep.tag = fd.dep.tag /\ o.dep.n = fd.dep.n /\ Versioned(o.dep)
                            /\ color[o.ix] = color[fd.ix]
                            /\ Find(deps[o.dep.tag], o.dep) >= 0

(* What a finished package says of a file's dependencies ("Per file        *)
(* dependency capabilities required by the corresponding files",           *)
(* docs/manual/tags.md): the dictionary's positions are those of the       *)
(* dependencies in its header.                                             *)
FileDepsInPackage ==
    stage = "done" /\ rc = "ok" /\ in.internal /\ ddict # <<>> =>
      \A i \in Files : Named(i) = Given(i)

=============================================================================
