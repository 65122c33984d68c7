-------------------------- MODULE MCRpmLockClients -------------------------
(***************************************************************************)
(* What has to come to an end, with small instances of each: the users of  *)
(* the lock files, a scriptlet, a dependency generator and the expansion   *)
(* of macros.  A behaviour is one of these, named by part; the variables   *)
(* of the others stay as they are.                                         *)
(***************************************************************************)
EXTENDS RpmLockClients, TLC

\* Two privileged processes, both ready to wait for a lock, and a user process
\* that neither waits nor may write.
CONSTANTS root1, root2, user

MCProcs == {root1, root2, user}
MCFiles == {TxnFile, KeyFile}
MCAccess == [p \in MCProcs |-> IF p = user THEN "ro" ELSE "rw"]
MCTty == {root1, root2}

VARIABLES part,
    pc, left, child,                                                \* two of them have these
    script, rc, scriptError, chrootDone, away, hooked, tmp, orphan, pipe, writer, status, lua, went, runs,
    nb, ready, myerrno, toProg, fromProg, sb, failNonZero, ret,
    tab, ctx, stk, res, bad, expansions

shared == <<pc, left, child>>
ofScriptlet == <<script, rc, scriptError, chrootDone, away, hooked, tmp, orphan, pipe, writer, status, lua, went, runs>>
ofGenerator == <<nb, ready, myerrno, toProg, fromProg, sb, failNonZero, ret>>
ofMacros == <<tab, ctx, stk, res, bad, expansions>>
mcVars == <<clientVars, part, shared, ofScriptlet, ofGenerator, ofMacros>>

\* Shell and Lua scriptlets, with files to be fed or none; the pipe holds fewer
MCScripts == [lua : BOOLEAN, critical : BOOLEAN, body : BOOLEAN, files : {0, 3}, prefix : {TRUE}, rpmver : {TRUE}]
Sc == INSTANCE Scriptlet WITH Scripts <- MCScripts, Plugins <- {"p", "q"}, Capacity <- 2, MaxRuns <- 2

\* More to write and to read than the pipes hold
Gn == INSTANCE Generator WITH Input <- 4, Output <- 4, PipeSize <- 2, PipeBuf <- 1
ASSUME Gn!InputAssumption

\* Macros that refer to each other and to themselves: pieces of text, the bodies of
\* %a and of the parametric %p, and what is expanded
Word(w) == [t |-> "word", w |-> w]
CallWith(n, args) == [t |-> "call", n |-> n, args |-> args]
Call(n) == CallWith(n, <<>>)
Cond(n, neg, g) == [t |-> "test", n |-> n, negate |-> neg, g |-> g]
Define(n, body, opts, global) ==
    [t |-> "define", n |-> n, body |-> body, opts |-> opts, flags |-> {}, global |-> global, expand |-> global]
Undefine(n) == [t |-> "undefine", n |-> n]
Bad == [t |-> "error"]
Outside(g) == [t |-> "outside", g |-> g]

Bodies == {<<Word("x")>>, <<Call("1")>>, <<Call("p")>>, <<Call("a")>>, <<Bad>>, <<Outside(<<Call("p")>>)>>}
ParBodies ==
    {<<Call("1"), Call("a")>>,
     <<Define("a", <<Call("1")>>, FALSE, FALSE), CallWith("p", <<Word("w")>>)>>,
     <<Cond("-f", FALSE, <<Call("*")>>), Cond("1", TRUE, <<Bad>>)>>,
     <<Outside(<<Call("1"), Define("a", <<Call("#")>>, FALSE, TRUE), Call("a")>>)>>,
     <<Define("a", <<Call("1")>>, FALSE, FALSE),
       Define("a", <<Call("1"), Word("y")>>, FALSE, TRUE), Call("a")>>}
Entry(body, opts, flags) == <<[body |-> body, opts |-> opts, flags |-> flags, level |-> 0]>>
MacroTables ==
    {[a |-> Entry(b, FALSE, flags), p |-> Entry(q, TRUE, {})] :
        b \in Bodies, q \in ParBodies, flags \in {{}, {"ONESHOT"}, {"LITERAL"}}}
MacroSources ==
    {<<Call("a"), Call("a")>>, <<CallWith("p", <<Word("w")>>)>>,
     <<CallWith("p", <<Word("-f"), Call("a")>>), Call("1")>>,
     <<CallWith("p", <<Word("-x"), Word("w")>>)>>, <<Undefine("a"), CallWith("p", <<Call("a"), Word("v")>>)>>,
     <<Define("p", <<Call("1"), Call("a")>>, TRUE, TRUE), Call("p")>>,
     <<Define("1", <<Word("x")>>, FALSE, FALSE)>>, <<Undefine("1")>>,
     <<Cond("a", FALSE, <<>>), Cond("a", TRUE, <<>>)>>, <<Outside(<<Call("p")>>), Call("1")>>}
MacroFiles == [a |-> <<Call("p")>>]
MacroCli == [a |-> <<Word("c")>>, p |-> <<Word("d")>>]
Mc == INSTANCE Macros WITH
        MacroNames <- {"a", "p"}, Tables <- MacroTables, Sources <- MacroSources,
        Files <- MacroFiles, Cli <- MacroCli, MaxMacroDepth <- 4, MaxExpansions <- 2,
        todo <- expansions

NoShared == pc = "" /\ left = 0 /\ child = ""
NoScriptlet ==
    /\ script = "" /\ rc = "" /\ scriptError = FALSE /\ chrootDone = 0 /\ away = FALSE /\ hooked = {}
    /\ tmp = FALSE /\ orphan = FALSE /\ pipe = 0 /\ writer = "" /\ status = "" /\ lua = "" /\ went = FALSE /\ runs = 0
NoGenerator ==
    /\ nb = 0 /\ ready = {} /\ myerrno = FALSE /\ toProg = "" /\ fromProg = "" /\ sb = 0
    /\ failNonZero = FALSE /\ ret = 0
NoMacros == tab = "" /\ ctx = "" /\ stk = <<>> /\ res = "" /\ bad = FALSE /\ expansions = 0

MCInit ==
    /\ ClientInit
    /\ \/ part = "locks" /\ NoShared /\ NoScriptlet /\ NoGenerator /\ NoMacros
       \/ part = "scriptlet" /\ Sc!Init /\ NoGenerator /\ NoMacros
       \/ part = "generator" /\ Gn!Init /\ NoScriptlet /\ NoMacros
       \/ part = "macros" /\ Mc!Init /\ NoShared /\ NoScriptlet /\ NoGenerator

OnlyLocks == part = "locks" /\ UNCHANGED <<part, shared, ofScriptlet, ofGenerator, ofMacros>>
OnlyScriptlet == part = "scriptlet" /\ UNCHANGED <<part, clientVars, ofGenerator, ofMacros>>
OnlyGenerator == part = "generator" /\ UNCHANGED <<part, clientVars, ofScriptlet, ofMacros>>
OnlyMacros == part = "macros" /\ UNCHANGED <<part, clientVars, shared, ofScriptlet, ofGenerator>>

MCNext ==
    \/ OnlyLocks /\ ClientNext
    \/ OnlyScriptlet /\ Sc!Next
    \/ OnlyGenerator /\ Gn!Next
    \/ OnlyMacros /\ Mc!Next

\* The fairness of each, see there
MCSpec ==
    /\ MCInit /\ [][MCNext]_mcVars
    /\ \A p \in Procs : WF_clientVars(Step(p))
    /\ WF_<<shared, ofScriptlet>>(part = "scriptlet" /\ Sc!Rpm)
    /\ WF_<<shared, ofScriptlet>>(part = "scriptlet" /\ Sc!ScriptExec)
    /\ WF_<<shared, ofScriptlet>>(part = "scriptlet" /\ Sc!ChildReads)
    /\ WF_<<shared, ofScriptlet>>(part = "scriptlet" /\ Sc!ChildEnds)
    /\ WF_<<shared, ofGenerator>>(part = "generator" /\ Gn!ParentNext)
    /\ WF_<<shared, ofGenerator>>(part = "generator" /\ Gn!ChildNext)
    /\ WF_ofMacros(part = "macros" /\ Mc!Step)

----------------------------------------------------------------------------
\* What a child process did is what rpm takes it for.  A scriptlet that did not
\* run to success is an error of the transaction, and stops its element exactly
\* when it is critical (runScript()).  A dependency generator succeeds if and
\* only if it was written all of the input and all it said was read
\* (getOutputFrom(), rpmfcExec()).  Between two scriptlets what was set up for the
\* last one is undone: its temporary file, the pipe, the plugins' second hook, the
\* chroot, the process's directory, umask and Lua globals (runExtScript(),
\* runLuaScript(), rpmChrootOut()).  The exceptions are a chroot that could not be
\* left, and, always with a scriptlet error, a directory that could not be returned
\* to and a temporary file that writeScript() made and could not fill.
ChildrenHeard ==
    /\ part = "scriptlet" => Sc!ChildrenHeard
    /\ part = "generator" => Gn!ChildrenHeard

\* The arguments of a parametric macro are those of the innermost call that is
\* being expanded, and none outlives its call (freeArgs()); an expansion in
\* which anything went wrong reports an error and leaves the context as it was.
MacroScopes == part = "macros" => Mc!ArgumentsInScope /\ Mc!ErrorsReported

\* A scriptlet and a generator come to an end: rpm does not wait for a program
\* that waits for rpm, however much there is to be written and read
\* (runExtScript(), getOutputFrom()).  And however macros refer to each other,
\* their expansion ends (expandMacro()).
ProgramsEnd ==
    []<>CASE part = "scriptlet" -> pc = "idle"
          [] part = "generator" -> pc = "done"
          [] part = "macros" -> stk = <<>>
          [] OTHER -> TRUE
=============================================================================
