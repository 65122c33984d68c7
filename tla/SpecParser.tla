----------------------------- MODULE SpecParser -----------------------------
(***************************************************************************)
(* Parsing a spec file: build/parseSpec.cc with the parsers of its         *)
(* sections (parsePreamble.cc, parseScript.cc, parseSimpleScript.cc,       *)
(* parseFiles.cc, parseDescription.cc, parseChangelog.cc, parseList.cc,    *)
(* parsePolicies.cc, parsePrep.cc, parseReqs.cc, reqprov.cc, spec.cc).     *)
(*                                                                         *)
(* A step is one readLine() with what the section at hand does with the    *)
(* line.  The text is any sequence of lines; the lines read so far are     *)
(* kept, for BuildArch makes the parser start again from the first.        *)
(***************************************************************************)
EXTENDS Integers, Sequences, FiniteSets, SequencesExt, FiniteSetsExt

CONSTANTS
    Texts,          \* how a text begins, and the lines it goes on with
    MaxLines,       \* lines a text goes on with
    Compatible,     \* architectures rpmMachineScore() accepts
    Arch            \* %{_target_cpu} at the start

IfLines == {"if", "ifarch"}
ElifLines == {"elif", "elifarch"}
Conditionals == IfLines \cup ElifLines \cup {"else", "endif"}
RequiredForBuild == {"Name", "Version", "Release"}
RequiredTags == RequiredForBuild \cup {"Summary", "License"}
Inherited == {"Epoch", "Version", "Release", "License"}     \* copyTagsDuringParse
PrebuildTags == {"Source", "Patch", "NoSource", "ExclusiveArch", "ExcludeArch", "BuildSystem"}
BuildScripts == {"prep", "build", "install"}
PrebuildParts == {"sourcelist"} \cup BuildScripts
Triggers == {"triggerin", "filetriggerin"}
SpecTags == RequiredTags \cup {"Epoch"}

VARIABLES
    alpha,      \* the lines of this text
    text,       \* file -> the lines known so far
    left,       \* how many more there may be
    done,       \* the files that end after the lines known
    files,      \* file stack: file and position
    glue,       \* a macro or a continued line is not complete yet
    rl,         \* read stack: reading, readable, last conditional
    part,       \* the section at hand and the line that opened it
    spec,       \* the spec being built
    macros,     \* macros pushed: name -> depth of its stack
    stage,      \* "specfile", "generated"
    archs,      \* BuildArch: architectures still to parse for; <<"">> before
    kids,       \* specs parsed for BuildArch
    status,     \* "parsing", "parsed", "final", "failed", "undefined"
    freed,      \* the spec the caller holds is gone
    seen        \* history: the conditionals read, with their values

vars == <<alpha, text, left, done, files, glue, rl, part, spec, macros, stage, archs,
          kids, status, freed, seen>>

MacroNames == {"__file_name", "setup", "license", "_target_cpu", "m"}

NewPackage(name) ==
    [name |-> name, tags |-> [t \in SpecTags |-> 0], descr |-> FALSE, noarch |-> FALSE,
     files |-> <<>>, hasfiles |-> FALSE, scripts |-> {}, trigs |-> <<>>, deps |-> <<>>,
     arch |-> ""]

\* newSpec(), with the main package parsePreamble() makes
NewSpec ==
    [pkgs |-> <<NewPackage("")>>, sources |-> {}, auto |-> [Source |-> -1, Patch |-> -1],
     sect |-> [s \in BuildScripts |-> <<>>], has |-> {}, ops |-> [s \in BuildScripts |-> <<>>],
     buildsystem |-> FALSE, banames |-> <<>>, exclusive |-> {}, exclude |-> {}, log |-> <<>>, initial |-> TRUE,
     src |-> [tags |-> [t \in SpecTags |-> 0], sources |-> {}, nosrc |-> FALSE, provides |-> {}]]

Level(reading, readable, last) == [reading |-> reading, readable |-> readable, last |-> last]

\* A section: its name, package, mode or trigger condition, its lines
Section(l) == [part |-> l.part, pkg |-> l.pkg, mode |-> l.mode, dep |-> l.dep, body |-> <<>>, read |-> FALSE]
Preamble == Section([part |-> "preamble", pkg |-> "", mode |-> "", dep |-> ""])

Init ==
    /\ \E t \in Texts :
          /\ alpha = t.lines
          /\ text = [f \in {"spec", "inc", "gen"} |-> IF f = "spec" THEN t.first ELSE <<>>]
    /\ left = MaxLines /\ done = {}
    /\ files = <<[f |-> "spec", at |-> 0]>>
    /\ rl = <<Level(TRUE, TRUE, "endif")>> /\ glue = FALSE
    /\ part = Preamble
    /\ spec = NewSpec
    /\ macros = [m \in MacroNames |-> IF m = "__file_name" THEN 1 ELSE 0]
    /\ stage = "specfile" /\ archs = <<"">> /\ kids = <<>>
    /\ status = "parsing" /\ freed = FALSE /\ seen = <<>>

----------------------------------------------------------------------------
(* readLine(): conditionals and includes. *)

Reading == Last(rl).reading
TargetArch == IF macros["_target_cpu"] > 0 THEN archs[1] ELSE Arch

\* The value of a condition: a constant, a macro, an architecture
Holds(l) ==
    IF l.k \in {"ifarch", "elifarch"} THEN l.c = TargetArch
    ELSE l.c = "true" \/ (l.c = "m" /\ macros["m"] > 0)

\* wrongPrecursors
Misplaced(l) ==
    \/ l.k \in {"else"} \cup ElifLines /\ Last(rl).last \in {"endif", "else"}
    \/ l.k = "endif" /\ Last(rl).last = "endif"

\* A condition is looked at where it can matter; an error in it counts there
\* only.
Looked(l) ==
    \/ l.k \in {"ifarch", "elifarch"}
    \/ l.k = "if" /\ Reading
    \/ l.k = "elif" /\ Last(rl).readable

Match(l) == Looked(l) /\ Holds(l)

\* Mutant: an %elif may follow a branch that was taken.
ReadLevelsElifAgain(l) ==
    LET top == Last(rl)
    IN CASE l.k \in IfLines ->
              Append(rl, Level(top.reading /\ Match(l), top.reading /\ ~Match(l), l.k))
         [] l.k \in ElifLines -> [rl EXCEPT ![Len(rl)].reading = top.readable /\ Match(l)]
         [] l.k = "else" -> [rl EXCEPT ![Len(rl)].reading = rl[Len(rl) - 1].reading /\ top.readable,
                                       ![Len(rl)].last = "else"]
         [] l.k = "endif" -> Front(rl)

ReadLevels(l) ==
    LET top == Last(rl)
    IN CASE l.k \in IfLines ->
              Append(rl, Level(top.reading /\ Match(l), top.reading /\ ~Match(l), l.k))
         [] l.k \in ElifLines ->
              [rl EXCEPT ![Len(rl)].reading = top.readable /\ Match(l),
                         ![Len(rl)].readable = top.readable /\ ~Match(l)]
         [] l.k = "else" -> [rl EXCEPT ![Len(rl)].reading = rl[Len(rl) - 1].reading /\ top.readable,
                                       ![Len(rl)].last = "else"]
         [] l.k = "endif" -> Front(rl)

----------------------------------------------------------------------------
(* Sections: what a line adds, and what the first and the last line of a   *)
(* section do.  A result is the spec, or Failed.                           *)

Failed == [failed |-> TRUE]
IsFailed(s) == "failed" \in DOMAIN s

\* lookupPackage(): the index of the package, 0 if there is none
Lookup(s, name) ==
    LET at == {i \in DOMAIN s.pkgs : s.pkgs[i].name = name}
    IN IF name = "" THEN 1 ELSE IF at = {} THEN 0 ELSE Min(at)

Current(s) == IF part.pkg = "" THEN 1 ELSE Lookup(s, part.pkg)
FindSource(s, num, kind) == \E x \in s.sources : x.num = num /\ x.kind = kind

\* addSource(): a number of its own or the next one
AddSource(s, kind, num) ==
    LET n == IF num = "auto" THEN s.auto[kind] + 1 ELSE IF num = "zero" THEN 0 ELSE 1
    IN IF FindSource(s, n, kind) THEN Failed
       ELSE [s EXCEPT !.sources = @ \cup {[num |-> n, kind |-> kind, no |-> FALSE]},
                      !.auto[kind] = Max({@, n})]

\* parseRCPOT(), checkDep(): what a kind of dependency may look like
RichAllowed(tag, dep) == dep = "rich" => tag \notin {"filetriggerin", "triggerin", "Obsoletes"}
DepForm(tag, dep) ==
    /\ tag = "filetriggerin" => dep = "path"
    /\ tag = "Obsoletes" => dep # "path"
    /\ dep # "noversion"
DepAllowed(tag, dep) ==
    RichAllowed(tag, dep) /\ DepForm(tag, dep) /\ dep \notin {"badname", "pathversion"}

\* A trigger may be fired by a package once; a file trigger any number of times
TriggerTaken(pkg, l) ==
    l.part = "triggerin" /\ \E i \in DOMAIN pkg.deps : pkg.deps[i].tag = l.part /\ pkg.deps[i].dep = l.dep

\* addReqProv()
AddDep(s, i, tag, dep, index) ==
    [s EXCEPT !.pkgs[i].deps = Append(@, [tag |-> tag, dep |-> dep, index |-> index])]

\* parseNoSource(): of a source there is
NoSource(s, num) ==
    IF FindSource(s, num, "Source")
    THEN [s EXCEPT !.sources = {IF x.num = num /\ x.kind = "Source" THEN [x EXCEPT !.no = TRUE] ELSE x : x \in @}]
    ELSE Failed

\* handlePreambleTag(): the tags that fill the spec
SpecTag(s, i, l) ==
    CASE l.t \in {"Source", "Patch"} -> AddSource(s, l.t, l.v)
      [] l.t = "NoSource" -> NoSource(s, 0)
      [] l.t = "ExclusiveArch" -> [s EXCEPT !.exclusive = @ \cup {l.v[j] : j \in DOMAIN l.v}]
      [] l.t = "ExcludeArch" -> [s EXCEPT !.exclude = @ \cup {l.v[j] : j \in DOMAIN l.v}]
      [] l.t = "BuildSystem" -> [s EXCEPT !.buildsystem = TRUE]
      [] l.t = "Requires" -> IF DepAllowed(l.t, l.v) THEN AddDep(s, i, l.t, l.v, 0) ELSE Failed
      [] l.t = "BuildArch" ->
           IF i = 1
           THEN IF s.banames # <<>> \/ (stage = "generated" /\ l.v # <<"noarch">>) THEN Failed
                ELSE [s EXCEPT !.banames = l.v]
           ELSE IF l.v # <<"noarch">> THEN Failed
                ELSE [s EXCEPT !.pkgs[i].noarch = TRUE]

\* addLangTag(): Summary has a language and replaces the one there; License
\* has none and is added once more.
LanguageTag(t, n) == IF t = "Summary" THEN 1 ELSE n + 1

\* The tags that go into the header
HeaderTags(s, i, ts) ==
    [s EXCEPT !.pkgs[i].tags = [t \in SpecTags |-> IF t \in ts THEN LanguageTag(t, @[t]) ELSE @[t]],
              !.pkgs[i].name = IF i = 1 /\ "Name" \in ts THEN "main" ELSE @]

\* A line of a preamble
PreambleLine(s, l) ==
    IF l.k \notin {"tag", "tags"} THEN Failed                     \* unknown tag
    ELSE IF l.k = "tags" THEN HeaderTags(s, Current(s), l.ts)
    ELSE IF stage = "generated" /\ l.t \in PrebuildTags THEN Failed
    ELSE SpecTag(s, Current(s), l)

\* checkForValidArchitectures()
ValidArch(s) ==
    LET arch == IF TargetArch = "noarch" THEN Arch ELSE TargetArch
    IN /\ arch \notin s.exclude
       /\ s.exclusive = {} \/ arch \in s.exclusive

\* The end of a preamble
EndPreamble(s) ==
    IF \/ s.initial /\ \E t \in RequiredForBuild : s.pkgs[1].tags[t] = 0
       \/ ~ValidArch(s)
    THEN Failed ELSE [s EXCEPT !.initial = FALSE]

\* addChangelog(): the entries before the first that is wrong.  Lines after
\* an entry are its text.
AddChangelog(s, body) ==
    LET entries == SelectSeq(body, LAMBDA l : l.k = "entry")
        wrong == {i \in DOMAIN entries : i > 1 /\ entries[i - 1].v < entries[i].v}
    IN [s EXCEPT !.log = IF body # <<>> /\ body[1].k # "entry" THEN <<>>
                         ELSE IF wrong = {} THEN entries
                         ELSE SubSeq(entries, 1, Min(wrong) - 1)]

\* addTriggerIndex(): the position among the scripts of the same kind
TriggerIndex(pkg, kind) == Len(SelectSeq(pkg.trigs, LAMBDA t : t.kind = kind))

\* parseScript(): the script, and its trigger with the index of the script.  A
\* condition that is nothing but commas ("none") gives a script that no
\* trigger names.
EndScript(s) ==
    LET i == Current(s)
        added == [s EXCEPT !.pkgs[i].trigs = Append(@, [kind |-> part.part, cond |-> part.dep])]
    IN IF part.part \notin Triggers
       THEN [s EXCEPT !.pkgs[i].scripts = @ \cup {part.part}]
       ELSE IF part.dep = "none" THEN added
       ELSE IF ~DepAllowed(part.part, part.dep) \/ TriggerTaken(s.pkgs[i], part) THEN Failed
       ELSE AddDep(added, i, part.part, part.dep, TriggerIndex(s.pkgs[i], part.part))

\* parseSimpleScript() and parseBuildScript(): a section, or one more part of
\* it.  A section is there once a line was read after the one that opens it,
\* be it the first line of the next section; the end of the text is none.
EndBuildScript(s, more) ==
    CASE part.mode = "" /\ (part.read \/ more) -> [s EXCEPT !.sect[part.part] = part.body, !.has = @ \cup {part.part}]
      [] part.mode = "" -> s
      [] OTHER -> [s EXCEPT !.ops[part.part] = Append(@, [mode |-> part.mode, body |-> part.body])]

\* parseList(): the result of addSource() is not looked at
AddList(s, body) ==
    FoldLeft(LAMBDA acc, l : LET r == AddSource(acc, "Source", "auto") IN IF IsFailed(r) THEN acc ELSE r, s, body)

EndDescription(s) == [s EXCEPT !.pkgs[Current(s)].descr = TRUE]
EndFiles(s) == [s EXCEPT !.pkgs[Current(s)].files = part.body, !.pkgs[Current(s)].hasfiles = TRUE]

\* What the end of the section at hand does: at a line that opens another one
\* (more), or at the end of the text
EndPart(s, more) ==
    CASE part.part = "preamble" -> EndPreamble(s)
      [] part.part = "changelog" -> AddChangelog(s, part.body)
      [] part.part = "description" -> EndDescription(s)
      [] part.part \in BuildScripts -> EndBuildScript(s, more)
      [] part.part \in {"post"} \cup Triggers -> EndScript(s)
      [] part.part = "files" -> EndFiles(s)
      [] part.part = "sourcelist" -> AddList(s, part.body)
      [] part.part = "end" -> s

\* The line that opens a section: what it needs to be there, or not
BeginPreamble(s, l) ==
    IF Lookup(s, l.pkg) # 0 THEN Failed
    ELSE [s EXCEPT !.pkgs = Append(@, [NewPackage(l.pkg) EXCEPT !.tags["Name"] = 1])]
BeginBuildScript(s, l) == IF l.part \in s.has /\ l.mode = "" THEN Failed ELSE s
BeginScript(s, l) ==
    LET i == Lookup(s, l.pkg)
    IN IF i = 0 THEN Failed ELSE IF l.part \in s.pkgs[i].scripts THEN Failed ELSE s
BeginEnd(s) == IF part.part = "end" THEN Failed ELSE s

\* checkPart(), and the parser of the section
BeginPart(s, l) ==
    CASE stage = "generated" /\ l.part \in PrebuildParts -> Failed
      [] l.part = "preamble" -> BeginPreamble(s, l)
      [] l.part \in BuildScripts /\ stage # "generated" -> BeginBuildScript(s, l)
      [] l.part = "sourcelist" /\ stage # "generated" -> s
      [] l.part = "changelog" -> IF s.log # <<>> THEN Failed ELSE s
      [] l.part \in {"post"} \cup Triggers -> BeginScript(s, l)
      [] l.part = "end" -> BeginEnd(s)
      [] l.part \in {"description", "files"} -> IF Lookup(s, l.pkg) = 0 THEN Failed ELSE s

----------------------------------------------------------------------------
(* How parsing ends. *)

Recursing == archs # <<"">>

Less(m, names) == [n \in MacroNames |-> IF n \in names THEN m[n] - 1 ELSE m[n]]
More(m, names) == [n \in MacroNames |-> IF n \in names THEN m[n] + 1 ELSE m[n]]
OwnMacros(p) == IF p = "prep" THEN {"setup"} ELSE IF p = "files" THEN {"license"} ELSE {}

\* closeSpec(): popOFI() for every file
Closed(m) == [m EXCEPT !["__file_name"] = @ - Len(files)]

\* An error: the section's macros go with the section, the files with the
\* spec.  %{_target_cpu} stays pushed.
Fail ==
    /\ status' = "failed"
    /\ macros' = Closed(Less(macros, OwnMacros(part.part)))
    /\ files' = <<>>
    /\ UNCHANGED <<rl, part, spec, stage, archs, kids, freed>>

\* parseSpec() from the first line, for the architecture archs'[1]
StartOver(m) ==
    /\ files' = <<[f |-> "spec", at |-> 0]>>
    /\ rl' = <<Level(TRUE, TRUE, "endif")>>
    /\ part' = Preamble /\ spec' = NewSpec /\ stage' = "specfile" /\ status' = "parsing"
    /\ macros' = More(m, {"__file_name", "_target_cpu"})

\* PART_BUILDARCHITECTURES.  A part generated by the build that names an
\* architecture frees the spec its caller goes on with.
BuildArchs(s) ==
    LET fit == SelectSeq(s.banames, LAMBDA a : a \in Compatible)
    IN IF fit = <<>> THEN Fail
       ELSE /\ StartOver(Closed(macros))
            /\ archs' = fit /\ kids' = <<>>
            /\ freed' = (freed \/ stage = "generated")

\* parseBuildsystem(): the sections the spec does not have
Buildsystem(s) ==
    IF s.buildsystem
    THEN [s EXCEPT !.sect = [x \in BuildScripts |-> IF x \in s.has THEN @[x] ELSE <<[k |-> "default"]>>],
                   !.has = BuildScripts]
    ELSE s

\* applyAppendPrepend()
ApplyOps(s) ==
    [s EXCEPT !.sect = [x \in BuildScripts |->
                  FoldLeft(LAMBDA acc, o : IF o.mode = "append" THEN acc \o o.body ELSE o.body \o acc,
                           s.sect[x], s.ops[x])],
              !.has = @ \cup {x \in BuildScripts : s.ops[x] # <<>>}]

\* addArch()
AddArch(s) ==
    [s EXCEPT !.pkgs = [i \in DOMAIN @ |->
                  [@[i] EXCEPT !.arch = IF @ # "" THEN @
                                        ELSE IF s.pkgs[i].noarch THEN "noarch" ELSE TargetArch]]]

\* parseSpecSection() after the last section
Parsed(s) == AddArch(IF stage = "specfile" THEN ApplyOps(Buildsystem(s)) ELSE s)

\* initSourceHeader(): once, from what the spec itself says
SourceHeader(s) ==
    IF s.src.tags["Name"] > 0 THEN s
    ELSE IF \E t \in RequiredTags : s.pkgs[1].tags[t] = 0 THEN Failed
    ELSE [s EXCEPT !.src.tags = s.pkgs[1].tags, !.src.sources = s.sources,
                   !.src.nosrc = \E x \in s.sources : x.no]

\* The end of the text
EndText ==
    LET end == EndPart(spec, FALSE)
        s == IF IsFailed(end) THEN end
             ELSE IF stage = "specfile" THEN SourceHeader(Parsed(end)) ELSE Parsed(end)
        m == Closed(Less(macros, OwnMacros(part.part)))
    IN IF Len(rl) > 1 \/ glue \/ IsFailed(s) THEN Fail
       ELSE IF ~Recursing \/ stage = "generated"
       THEN /\ status' = "parsed" /\ spec' = s /\ files' = <<>> /\ macros' = m
            /\ UNCHANGED <<rl, part, stage, archs, kids, freed>>
       ELSE IF Len(archs) > 1
       THEN /\ StartOver(Less(m, {"_target_cpu"}))
            /\ archs' = Tail(archs) /\ kids' = Append(kids, s) /\ UNCHANGED freed
       ELSE /\ status' = "parsed" /\ files' = <<>> /\ macros' = Less(m, {"_target_cpu"})
            /\ kids' = Append(kids, s) /\ spec' = kids'[1]
            /\ UNCHANGED <<rl, part, stage, archs, freed>>

----------------------------------------------------------------------------
(* One line. *)

\* %patch, while the macro is there: the commands for a patch there is
PatchMacro(num) == IF FindSource(spec, num, "Patch") THEN <<num>> ELSE <<>>

\* The part of readLine() that ends in the parser of the section
Content(l) ==
    LET s == IF part.part = "preamble" THEN PreambleLine(spec, l) ELSE spec
        bad == \/ IsFailed(s)
               \/ part.part = "end"
               \/ part.part = "prep" /\ l.k = "patch" /\ PatchMacro(0) = <<>>
    IN IF bad THEN Fail
       ELSE IF part.part = "preamble" /\ s.banames # <<>> /\ ~Recursing THEN BuildArchs(s)
       ELSE /\ spec' = s
            /\ part' = [part EXCEPT !.read = TRUE, !.body = IF part.part = "preamble" THEN @ ELSE Append(@, l)]
            /\ UNCHANGED <<rl, macros, stage, archs, kids, status, freed>>

NextPart(l) ==
    LET ended == EndPart(spec, TRUE)
        s == IF IsFailed(ended) THEN ended ELSE BeginPart(ended, l)
    IN IF IsFailed(s) THEN Fail
       ELSE /\ spec' = s /\ part' = Section(l)
            /\ macros' = More(Less(macros, OwnMacros(part.part)), OwnMacros(l.part))
            /\ UNCHANGED <<rl, stage, archs, kids, status, freed>>

Define ==
    /\ macros' = More(macros, {"m"}) /\ part' = [part EXCEPT !.read = TRUE]
    /\ UNCHANGED <<rl, spec, stage, archs, kids, status, freed>>

Skip ==
    /\ part' = [part EXCEPT !.read = TRUE]
    /\ UNCHANGED <<rl, spec, macros, stage, archs, kids, status, freed>>

Condition(l) ==
    IF Misplaced(l) \/ (l.k \in {"if", "elif"} /\ Looked(l) /\ l.c = "bad") THEN Fail
    ELSE /\ rl' = ReadLevels(l)
         /\ part' = [part EXCEPT !.read = TRUE]
         /\ UNCHANGED <<spec, macros, stage, archs, kids, status, freed>>

Top == Last(files)
Advanced == [files EXCEPT ![Len(files)].at = @ + 1]

\* The next line of a file: one known from an earlier parse, or any.  A file
\* that includes itself has no end and is left out.
Known == Top.at < Len(text[Top.f])
NextLines ==
    IF Known THEN {text[Top.f][Top.at + 1]}
    ELSE IF Top.f \in done \/ left = 0 THEN {}
    ELSE {l \in alpha : l.k = "include" => Top.f # "inc"}

\* pushOFI()
OpenFile(f, stack) ==
    /\ macros' = More(macros, {"__file_name"})
    /\ files' = Append(stack, [f |-> f, at |-> 0])

Include ==
    /\ OpenFile("inc", Advanced)
    /\ UNCHANGED <<rl, part, spec, stage, archs, kids, status, freed, seen>>

\* copyNextLineFromOFI(): whether one more line is needed after this one
Glued(l) == l.k = "open" \/ (glue /\ l.k # "close")

ReadLine ==
    /\ status = "parsing"
    /\ \E l \in NextLines :
          /\ text' = IF Known THEN text ELSE [text EXCEPT ![Top.f] = Append(@, l)]
          /\ left' = IF Known THEN left ELSE left - 1
          /\ glue' = Glued(l)
          /\ \/ /\ glue'
                /\ files' = Advanced
                /\ UNCHANGED <<rl, part, spec, macros, stage, archs, kids, status, freed, seen>>
             \/ /\ ~glue' /\ l.k \in Conditionals
                /\ Condition(l)
                /\ files' = IF status' = "failed" THEN <<>> ELSE Advanced
                /\ seen' = Append(seen, [k |-> l.k, holds |-> l.k \notin {"else", "endif"} /\ Holds(l)])
             \/ /\ ~glue' /\ l.k \notin Conditionals /\ ~Reading
                /\ Skip /\ files' = Advanced /\ UNCHANGED seen
             \/ /\ ~glue' /\ l.k = "define" /\ Reading
                /\ Define /\ files' = Advanced /\ UNCHANGED seen
             \/ /\ ~glue' /\ l.k = "part" /\ Reading
                /\ NextPart(l) /\ UNCHANGED seen
                /\ files' = IF status' = "failed" THEN <<>> ELSE Advanced
             \/ ~glue' /\ l.k = "include" /\ Reading /\ Include
             \/ /\ ~glue' /\ l.k \notin Conditionals \cup {"define", "part", "include"} /\ Reading
                /\ Content(l)
                /\ files' = IF status' = "failed" THEN <<>>
                            ELSE IF archs' # archs THEN <<[f |-> "spec", at |-> 0]>> ELSE Advanced
                /\ seen' = IF archs' = archs THEN seen ELSE <<>>
    /\ UNCHANGED <<alpha, done>>

\* readLineFromOFI() at the end of a file: back to the one that includes it
EndFile ==
    /\ status = "parsing" /\ ~Known
    /\ done' = done \cup {Top.f}
    /\ IF Len(files) > 1
       THEN /\ files' = Front(files) /\ macros' = Less(macros, {"__file_name"})
            /\ UNCHANGED <<rl, part, spec, stage, archs, kids, status, freed, seen>>
       ELSE /\ EndText
            /\ seen' = IF status' = "parsing" THEN <<>> ELSE seen
    /\ UNCHANGED <<alpha, text, left, glue>>

\* parseGeneratedSpecs(): the parts the build wrote, for the same spec
ParseGenerated ==
    /\ status = "parsed" /\ stage = "specfile" /\ ~freed
    /\ stage' = "generated" /\ status' = "parsing"
    /\ OpenFile("gen", <<>>)
    /\ part' = Preamble /\ spec' = [spec EXCEPT !.initial = TRUE]
    /\ UNCHANGED <<alpha, text, left, done, glue, rl, archs, kids, freed, seen>>

\* copyInheritedTags(), checkForRequired(), checkForDuplicates()
Inherit(s, pkg) ==
    [pkg EXCEPT !.tags = [t \in SpecTags |->
        IF @[t] = 0 /\ t \in Inherited THEN s.pkgs[1].tags[t] ELSE @[t]]]

Complete(pkg) ==
    /\ \A t \in RequiredTags : pkg.tags[t] > 0
    /\ pkg.descr
    /\ \A t \in SpecTags : pkg.tags[t] <= 1

\* finalizeSourceHeader(): the source package provides what will be built
FinalSource(s) == [s EXCEPT !.src.provides = {i \in DOMAIN s.pkgs : s.pkgs[i].hasfiles}]

\* finalizeSpec()
FinalizeSpec ==
    /\ status = "parsed" /\ (stage = "generated" \/ freed)
    /\ LET s == [spec EXCEPT !.pkgs = [i \in DOMAIN @ |-> IF i = 1 THEN @[i] ELSE Inherit(spec, @[i])]]
       IN /\ spec' = FinalSource(s)
          /\ status' = IF freed THEN "undefined"
                       ELSE IF \A i \in DOMAIN s.pkgs : Complete(s.pkgs[i]) THEN "final" ELSE "failed"
    /\ UNCHANGED <<alpha, text, left, done, files, glue, rl, part, macros, stage, archs, kids, freed, seen>>

Next == ReadLine \/ EndFile \/ ParseGenerated \/ FinalizeSpec

Spec == Init /\ [][Next]_vars

----------------------------------------------------------------------------
(* Properties. *)

\* The branches of the conditionals seen: for every group still open, whether
\* the branch at hand is the first whose condition holds.
Branches ==
    FoldLeft(LAMBDA st, l :
        CASE l.k \in IfLines -> Append(st, [in |-> l.holds, any |-> l.holds])
          [] l.k \in ElifLines ->
               Append(Front(st), [in |-> l.holds /\ ~Last(st).any, any |-> l.holds \/ Last(st).any])
          [] l.k = "else" -> Append(Front(st), [in |-> ~Last(st).any, any |-> TRUE])
          [] l.k = "endif" -> Front(st),
        <<>>, seen)

\* A line counts exactly when every conditional around it, across included
\* files, is in the first branch whose condition holds: reading and readable
\* of the read stack say no more than that.
BranchesFollowed ==
    status = "parsing" => Reading = \A i \in DOMAIN Branches : Branches[i].in

\* Four macros the parser pushes are popped when parsing ends: the file name,
\* %setup of %prep and %license of %files however it ends, %{_target_cpu} of
\* the parse for an architecture unless that parse fails; while parsing,
\* there is one %{__file_name} for every open file.  The macros a line of the
\* preamble defines (%{name}, %{SOURCE0}, %{_docdir}) stay, and are not meant.
MacrosRestored ==
    /\ macros["__file_name"] = Len(files)
    /\ status \in {"parsed", "final", "failed"} => macros["setup"] = 0 /\ macros["license"] = 0
    /\ status \in {"parsed", "final"} => macros["_target_cpu"] = 0

\* What goes on to be packaged: package names and source numbers are unique,
\* every package has its tags once and a description, every trigger names a
\* script of its kind by its index, and a trigger script is without a trigger
\* only where the section named nothing (parseScript() refuses no condition
\* at all, and lets one of nothing but commas pass).
FinalIsComplete ==
    status = "final" =>
        /\ \A i, j \in DOMAIN spec.pkgs : i # j => spec.pkgs[i].name # spec.pkgs[j].name
        /\ \A x, y \in spec.sources : x.num = y.num /\ x.kind = y.kind => x = y
        /\ \A i \in DOMAIN spec.pkgs :
              LET pkg == spec.pkgs[i]
                  Scripts(kind) == SelectSeq(pkg.trigs, LAMBDA t : t.kind = kind)
              IN /\ Complete(pkg) /\ pkg.arch # ""
                 /\ \A kind \in Triggers :
                       {pkg.deps[d].index : d \in {x \in DOMAIN pkg.deps : pkg.deps[x].tag = kind}}
                           = {n - 1 : n \in {x \in DOMAIN Scripts(kind) : Scripts(kind)[x].cond # "none"}}
=============================================================================
