-------------------------------- MODULE Build --------------------------------
(***************************************************************************)
(* rpmbuild: which stages a command runs for which spec, target and        *)
(* architecture (tools/rpmbuild.cc, buildSpec() of build/build.cc), and    *)
(* the packages written at the end by parallel tasks                       *)
(* (packageBinaries() of build/pack.cc).  Every stage can fail.            *)
(***************************************************************************)
EXTENDS Integers, Sequences, FiniteSets, SequencesExt

CONSTANTS
    Commands,       \* commands with the specs they name
    Host            \* the architecture rpm was configured for

VARIABLES
    in,             \* the command
    argi,           \* which of its specs is being built
    targets,        \* build_targets
    ti,             \* the target being built for; 0: the first try, for the host
    amount,         \* ba->buildAmount
    child,          \* which of a spec's BuildArchs; 0: the spec itself
    what, todo,     \* what buildSpec() is to do, and the stages of it still to come
    missing,        \* missing_buildreqs
    tasks,          \* binary package -> what its task has done
    order,          \* packages without a task yet, largest first
    prc,            \* rc of packageBinaries(), shared by the tasks
    signs,          \* packages still to be signed
    done,           \* what was done: <<spec, target, child, stage>>
    packed,         \* how often a spec's sources were packaged for a target
    removed,        \* what was unlinked of a spec
    brbad,          \* a generated BuildRequires could not be parsed
    rc, stage

vars == <<in, argi, targets, ti, amount, child, what, todo, missing, tasks, order, prc, signs,
          done, packed, removed, brbad, rc, stage>>

Stages == <<"CHECKBUILDREQUIRES", "MKBUILDDIR", "PREP", "BUILDREQUIRES", "CONF", "BUILD", "INSTALL",
            "SPECPARTS", "CHECK", "SOURCEFILES", "BINARYFILES", "POLICIES", "PACKAGESOURCE",
            "PACKAGEBINARY", "CLEAN", "RMBUILD">>
Cleanup == {"RMSOURCE", "RMSPEC"}

-----------------------------------------------------------------------------
(* main() *)

\* the fall-through of main(): a stage asks for the ones before it, but --short-circuit
\* stops at the one named
FallThrough == <<"a", "b", "k", "i", "c", "f", "p">>
AmountOf(c) ==
    CASE c = "a" -> {"PACKAGESOURCE"}
      [] c = "b" -> {"PACKAGEBINARY", "CLEAN"}
      [] c = "k" -> {"CHECK"}
      [] c = "i" -> {"INSTALL", "CHECK"}
      [] c = "c" -> {"BUILD"}
      [] c = "f" -> {"CONF"}
      [] c = "p" -> {"PREP"} \cup (IF in.noDeps THEN {} ELSE {"CHECKBUILDREQUIRES"})
                    \cup (IF in.short THEN {} ELSE {"MKBUILDDIR"})

\* what a case adds once --short-circuit did not stop there
BelowOf(c) ==
    CASE c = "b" -> {"RMBUILD"}
      [] c = "f" -> {"BUILDREQUIRES"} \cup (IF in.noDeps THEN {} ELSE {"DUMPBUILDREQUIRES", "CHECKBUILDREQUIRES"})
      [] OTHER -> {}

Reached(c) ==
    LET from == SelectInSeq(FallThrough, LAMBDA x : x = c)
        stops == in.short /\ c \in {"b", "k", "i", "c", "f"}
    IN IF from = 0 THEN {} ELSE IF stops THEN AmountOf(c)
       ELSE UNION {AmountOf(FallThrough[i]) \cup BelowOf(FallThrough[i]) : i \in from..Len(FallThrough)}

SourceOnly ==
    LET deps == {"BUILDREQUIRES", "DUMPBUILDREQUIRES"} \cup (IF in.noDeps THEN {} ELSE {"CHECKBUILDREQUIRES"})
                \cup (IF in.short THEN {} ELSE {"PREP", "MKBUILDDIR"})
    IN CASE in.char = "s" -> {"PACKAGESOURCE"}
         [] in.char = "r" -> deps \cup {"PACKAGESOURCE"}
         [] in.char = "d" -> deps
         [] in.char = "l" -> {"FILECHECK"}
         [] OTHER -> {}

\* --rebuild cleans up after itself unless it stops at a stage
BuildAmount ==
    LET asked == in.extra \cup (Reached(in.char) \cup SourceOnly)
        rebuild == in.mode = "B" /\ in.char \in {"a", "b", "s", "r", "d"}
    IN (asked \cup (IF rebuild THEN {"RMSOURCE", "RMSPEC", "RMBUILD"} ELSE {})) \ in.no

Init ==
    /\ in \in Commands
    /\ argi = 1 /\ targets = in.targets /\ ti = 0 /\ amount = BuildAmount
    /\ child = 0 /\ what = {} /\ todo = <<>> /\ missing = FALSE
    /\ tasks = <<>> /\ order = <<>> /\ prc = "ok" /\ signs = <<>>
    /\ done = {} /\ packed = {} /\ removed = {} /\ brbad = FALSE
    /\ rc = "ok" /\ stage = "arg"

Spec1 == in.specs[argi]
Target == IF ti = 0 THEN Host ELSE targets[ti]
\* the architecture a spec is parsed for: its own BuildArch, or the target's
ArchOf(spec, target) == IF spec.arch = "" THEN target ELSE spec.arch
Test == "NOBUILD" \in amount

-----------------------------------------------------------------------------
(* build(), buildForTarget() *)

\* with --rebuild the source package is installed first; a spec that asks for another
\* architecture than the host's is only parsed, and built for that target instead; one
\* that is only to be removed is not parsed
StartArg ==
    /\ stage = "arg"
    /\ LET other == targets = <<>> /\ amount # {"RMSPEC"} /\ ArchOf(Spec1, Host) # Host
       IN \/ /\ in.mode = "B" \/ other
             /\ rc' = "fail" /\ stage' = "exit" /\ UNCHANGED <<targets, ti>>
          \/ /\ targets' = IF other THEN <<ArchOf(Spec1, Host)>> ELSE targets
             /\ ti' = IF targets' = <<>> THEN 0 ELSE 1
             /\ stage' = "target" /\ UNCHANGED rc
    /\ UNCHANGED <<in, argi, amount, child, what, todo, missing, tasks, order, prc, signs, done, packed, removed, brbad>>

\* the flags build() puts back for the last target
CleanFlags(t) == IF t = Len(targets) THEN BuildAmount \cap Cleanup ELSE {}

\* the spec is parsed for the target; buildSpec() of a spec with several BuildArchs calls
\* itself for each of them, without RMSOURCE
BuildTarget ==
    /\ stage = "target"
    /\ amount' = IF ti > 0 THEN (amount \ Cleanup) \cup CleanFlags(ti) ELSE amount
    /\ \/ /\ rc' = "fail" /\ stage' = "exit" /\ UNCHANGED <<child, what, removed>>
       \/ /\ amount' = {"RMSPEC"}
          /\ removed' = removed \cup {<<argi, "RMSPEC">>}
          /\ stage' = "next" /\ UNCHANGED <<child, what, rc>>
       \/ /\ amount' # {"RMSPEC"}
          /\ child' = IF Spec1.archs > 0 THEN 1 ELSE 0
          /\ what' = IF Spec1.archs > 0 THEN amount' \ {"RMSOURCE"} ELSE amount'
          /\ stage' = "plan" /\ UNCHANGED <<rc, removed>>
    /\ UNCHANGED <<in, argi, targets, ti, todo, missing, tasks, order, prc, signs, done, packed, brbad>>

-----------------------------------------------------------------------------
(* buildSpec() *)

\* which flags a stage runs for
Wants(w, s) ==
    CASE s \in {"SPECPARTS", "BINARYFILES"} -> w \cap {"INSTALL", "PACKAGEBINARY", "FILECHECK"} # {}
      [] s = "POLICIES" -> w \cap {"INSTALL", "PACKAGEBINARY"} # {}
      [] s = "SOURCEFILES" -> "PACKAGESOURCE" \in w
      [] s \in {"PACKAGESOURCE", "PACKAGEBINARY"} -> s \in w /\ "NOBUILD" \notin w
      [] OTHER -> s \in w

\* what is asked for, less what a source-only or in-place build leaves out, and the
\* build directory that was not made is not removed
Plan ==
    /\ stage = "plan"
    /\ LET srconly == "PACKAGESOURCE" \in what /\ what \cap {"CONF", "BUILD", "INSTALL", "PACKAGEBINARY"} = {}
           w1 == IF srconly /\ ~Spec1.buildrequires THEN what \ {"PREP", "MKBUILDDIR"} ELSE what
           built == what \cap {"PREP", "CONF", "BUILD", "INSTALL"} # {}
           w2 == IF in.inPlace THEN (w1 \cup (IF built THEN {"MKBUILDDIR"} ELSE {})) \ {"PREP", "RMBUILD"} ELSE w1
           w3 == IF "MKBUILDDIR" \in w2 THEN w2 ELSE w2 \ {"RMBUILD"}
       IN /\ what' = w3
          /\ todo' = SelectSeq(Stages, LAMBDA s : Wants(w3, s))
    /\ missing' = FALSE /\ brbad' = FALSE /\ stage' = "build"
    /\ UNCHANGED <<in, argi, targets, ti, amount, child, tasks, order, prc, signs, done, packed, removed, rc>>

Doing == todo[1]
Done(s) == <<argi, Target, child, s>>

\* doScript(): with --nobuild the script is written and not run
ScriptResults == IF Test THEN {"ok"} ELSE {"ok", "fail"}
StageResults == IF Doing \in {"CHECKBUILDREQUIRES", "SPECPARTS", "SOURCEFILES", "BINARYFILES", "POLICIES"}
                THEN {"ok", "fail"} ELSE ScriptResults

\* a stage that is not one of the three below
Stage ==
    /\ stage = "build" /\ todo # <<>> /\ Doing \notin {"BUILDREQUIRES", "PACKAGESOURCE", "PACKAGEBINARY"}
    /\ \/ /\ "ok" \in StageResults
          /\ todo' = Tail(todo) /\ done' = done \cup {Done(Doing)} /\ UNCHANGED <<rc, stage>>
       \/ /\ "fail" \in StageResults
          /\ rc' = "fail" /\ stage' = "exit" /\ UNCHANGED <<todo, done>>
    /\ UNCHANGED <<in, argi, targets, ti, amount, child, what, missing, tasks, order, prc, signs, packed, removed, brbad>>

\* doBuildRequires() and what follows it: a script that fails fails; a line that cannot be
\* parsed is the return code of the script, which is OK; requirements that are not installed
\* turn the build into one of a package that lists them
BuildRequires ==
    /\ stage = "build" /\ todo # <<>> /\ Doing = "BUILDREQUIRES"
    /\ \E out \in IF Spec1.buildrequires THEN (IF Test THEN {"none"} ELSE {"fails", "bad", "installed", "missing"}) ELSE {"ok"} :
         LET lacks == out = "missing" \/ (out \in {"installed", "none"} /\ "CHECKBUILDREQUIRES" \notin what)
             dumps == lacks /\ "DUMPBUILDREQUIRES" \in what /\ ~in.force
         IN /\ rc' = IF out = "fails" THEN "fail" ELSE rc
            /\ stage' = IF out = "fails" THEN "exit" ELSE stage
            /\ brbad' = (out = "bad")
            /\ missing' = dumps
            /\ what' = IF dumps THEN {"PACKAGESOURCE"} ELSE what
            /\ todo' = IF dumps THEN SelectSeq(Stages, LAMBDA s : s = "SOURCEFILES" \/ (s = "PACKAGESOURCE" /\ ~Test))
                       ELSE Tail(todo)
    /\ done' = done \cup {Done(Doing)}
    /\ UNCHANGED <<in, argi, targets, ti, amount, child, tasks, order, prc, signs, packed, removed>>

\* packageSources(): written, checked, signed
PackageSources ==
    /\ stage = "build" /\ todo # <<>> /\ Doing = "PACKAGESOURCE"
    /\ \/ /\ packed' = packed \cup {<<argi, Target, child>>}
          /\ todo' = Tail(todo) /\ done' = done \cup {Done(Doing)} /\ UNCHANGED <<rc, stage>>
       \/ rc' = "fail" /\ stage' = "exit" /\ UNCHANGED <<packed, todo, done>>
    /\ UNCHANGED <<in, argi, targets, ti, amount, child, what, missing, tasks, order, prc, signs, removed, brbad>>

-----------------------------------------------------------------------------
(* packageBinaries(): one thread makes the tasks, any thread runs them *)

StartTasks ==
    /\ stage = "build" /\ todo # <<>> /\ Doing = "PACKAGEBINARY"
    /\ tasks' = [p \in ToSet(Spec1.pkgs) |-> "none"]
    /\ order' = Spec1.pkgs /\ prc' = "ok" /\ signs' = <<>> /\ stage' = "tasks"
    /\ UNCHANGED <<in, argi, targets, ti, amount, child, what, todo, missing, done, packed, removed, brbad, rc>>

\* the loop ends at the first package for which it sees a failure
CreateTask ==
    /\ stage = "tasks" /\ order # <<>>
    /\ tasks' = [tasks EXCEPT ![Head(order)] = "made"]
    /\ \E seen \in {prc, "ok"} : order' = IF seen = "fail" THEN <<>> ELSE Tail(order)
    /\ UNCHANGED <<in, argi, targets, ti, amount, child, what, todo, missing, prc, signs, done, packed, removed, brbad, rc, stage>>

TaskResultLast(r) == r
\* pkg->rc goes into the shared rc only if it is an error
TaskResult(r) == IF r = "fail" THEN "fail" ELSE prc

\* packageBinary(): nothing to do without %files; a package that is written and then fails
\* its check stays where it is
RunTask(p) ==
    /\ stage = "tasks" /\ tasks[p] = "made"
    /\ \E r \in IF p \in Spec1.nofiles THEN {"nothing"} ELSE {"written", "badcheck", "failed"} :
         /\ tasks' = [tasks EXCEPT ![p] = r]
         /\ prc' = TaskResult(IF r \in {"badcheck", "failed"} THEN "fail" ELSE "ok")
    /\ UNCHANGED <<in, argi, targets, ti, amount, child, what, todo, missing, order, signs, done, packed, removed, brbad, rc, stage>>

\* the end of the parallel region, then the check of the whole set
EndTasks ==
    /\ stage = "tasks" /\ order = <<>> /\ \A p \in DOMAIN tasks : tasks[p] # "made"
    /\ \E set \in {"ok", "fail"} :
         IF prc = "fail" \/ set = "fail"
         THEN rc' = "fail" /\ stage' = "exit" /\ UNCHANGED signs
         ELSE /\ signs' = SelectSeq(Spec1.pkgs, LAMBDA p : tasks[p] = "written")
              /\ stage' = "sign" /\ UNCHANGED rc
    /\ UNCHANGED <<in, argi, targets, ti, amount, child, what, todo, missing, tasks, order, prc, done, packed, removed, brbad>>

\* one after the other: signing is not thread-safe
Sign ==
    /\ stage = "sign"
    /\ IF signs = <<>>
       THEN /\ todo' = Tail(todo) /\ done' = done \cup {Done(Doing)} /\ stage' = "build"
            /\ UNCHANGED <<tasks, signs, rc>>
       ELSE \/ /\ tasks' = [tasks EXCEPT ![Head(signs)] = "signed"] /\ signs' = Tail(signs)
               /\ UNCHANGED <<todo, done, rc, stage>>
            \/ rc' = "fail" /\ stage' = "exit" /\ UNCHANGED <<todo, done, tasks, signs>>
    /\ UNCHANGED <<in, argi, targets, ti, amount, child, what, missing, order, prc, packed, removed, brbad>>

-----------------------------------------------------------------------------
(* the end of buildSpec(), of a target, of an argument *)

Removes(w) == {<<argi, c>> : c \in {c \in Cleanup : c \in w}}

\* one BuildArch after the other; after the last the spec's own RMSOURCE and RMSPEC
EndSpec ==
    /\ stage = "build" /\ todo = <<>>
    /\ IF child > 0 /\ child < Spec1.archs
       THEN /\ removed' = removed \cup Removes(what)
            /\ child' = child + 1 /\ what' = amount \ {"RMSOURCE"}
            /\ rc' = IF missing THEN "missing" ELSE rc
            /\ stage' = IF missing THEN "exit" ELSE "plan"
       ELSE /\ removed' = removed \cup Removes(what) \cup (IF missing THEN {} ELSE Removes(amount))
            /\ child' = 0 /\ UNCHANGED what
            /\ rc' = IF missing THEN "missing" ELSE rc
            /\ stage' = IF missing THEN "exit" ELSE "next"
    /\ UNCHANGED <<in, argi, targets, ti, amount, todo, missing, tasks, order, prc, signs, done, packed, brbad>>

NextTarget ==
    /\ stage = "next"
    /\ IF ti > 0 /\ ti < Len(targets)
       THEN ti' = ti + 1 /\ stage' = "target" /\ UNCHANGED <<argi, amount>>
       ELSE /\ ti' = 0 /\ argi' = IF argi < Len(in.specs) THEN argi + 1 ELSE argi
            /\ amount' = BuildAmount
            /\ stage' = IF argi < Len(in.specs) THEN "arg" ELSE "exit"
    /\ UNCHANGED <<in, targets, child, what, todo, missing, tasks, order, prc, signs, done, packed, removed, brbad, rc>>

Next ==
    \/ StartArg \/ BuildTarget \/ Plan \/ Stage \/ BuildRequires \/ PackageSources
    \/ StartTasks \/ CreateTask \/ (\E p \in DOMAIN tasks : RunTask(p)) \/ EndTasks \/ Sign
    \/ EndSpec \/ NextTarget
Spec == Init /\ [][Next]_vars

-----------------------------------------------------------------------------

(* When packaging goes on to its end, every package with files was written *)
(* and signed, whichever thread ran its task and in whatever order the     *)
(* tasks failed or succeeded.                                              *)
AllPackagesOrFailure ==
    stage = "build" /\ tasks # <<>> /\ Done("PACKAGEBINARY") \in done =>
      \A p \in ToSet(Spec1.pkgs) \ Spec1.nofiles : tasks[p] = "signed"

(* The sources are removed only once nothing of the spec is left to be     *)
(* built, for any target or architecture: after that the build of the spec *)
(* does not fail.                                                          *)
SourcesKeptUntilDone ==
    <<argi, "RMSOURCE">> \in removed => stage \in {"next", "exit"} /\ rc = "ok" /\ (ti = 0 \/ ti = Len(targets))
=============================================================================
