----------------------------- MODULE MCDepends -----------------------------
(***************************************************************************)
(* How a transaction set comes about: by requests, and by the commands     *)
(* that make requests.  A behaviour is one of these, named by part; the    *)
(* variables of the other one stay as they are.                            *)
(***************************************************************************)
EXTENDS Depends, TLC

VARIABLES part, cmd, pc, queue, files, cleanup, rpms, srpms, elems, left, done, numFailed, mishap, vsflags

ofInstall == <<cmd, pc, queue, files, cleanup, rpms, srpms, elems, left, done, numFailed, mishap, vsflags>>

MCPackages == {"a1", "a2", "b1", "c1"}
MCName == [p \in MCPackages |-> CASE p \in {"a1", "a2"} -> "a" [] p = "b1" -> "b" [] p = "c1" -> "c"]
MCVer == [p \in MCPackages |-> IF p = "a2" THEN 2 ELSE 1]

At(n, vs) == [n |-> n, vs |-> vs]
None == At("none", {})
One(a) == [op |-> "one", a |-> a, b |-> None, c |-> None]
Rich(op, a, b, c) == [op |-> op, a |-> a, b |-> b, c |-> c]
A1 == At("a", {1})
A == At("a", {1, 2})
B == At("b", {1, 2})
C == At("c", {1, 2})
X == At("x", {1, 2})

Sets(S) == {{}} \cup {{d} : d \in S}
Own == [p \in MCPackages |-> {<<MCName[p], MCVer[p]>>}]
Nothing == [p \in MCPackages |-> {}]

Require(rb, rc, cc) ==
    [prov |-> [Own EXCEPT !["a1"] = @ \cup {<<"x", 1>>}],
     req |-> [Nothing EXCEPT !["b1"] = rb, !["c1"] = rc],
     con |-> [Nothing EXCEPT !["c1"] = cc],
     obs |-> Nothing]

\* Requirements: every form of rich one, on what a1 provides in addition
MCRequire ==
    {Require(rb, {One(X)}, {}) :
        rb \in Sets({Rich("or", X, C, None), Rich("and", A, C, None), Rich("ifelse", X, C, A1)})}
    \cup {Require(rb, {Rich("if", B, X, None)}, cc) : rb \in Sets({One(A1)}), cc \in Sets({B, A1})}

\* Obsoletes: of one version, in a circle, of two packages, and by the newer of two
\* versions
Obsolete(oa, ob, oc) ==
    [prov |-> Own, req |-> Nothing, con |-> Nothing,
     obs |-> [Nothing EXCEPT !["a2"] = oa, !["b1"] = ob, !["c1"] = oc]]
MCObsolete ==
    {Obsolete({}, ob, oc) : ob \in {{A1}, {C}}, oc \in {{}, {A, B}}} \cup {Obsolete({B}, {}, {})}

MCUniverses == MCRequire \cup MCObsolete

----------------------------------------------------------------------------
\* Commands: one or two arguments of every kind, with every option that changes
\* what becomes of them
Local(name) == [url |-> "no", name |-> name]
Http(name) == [url |-> "http", name |-> name]
FileUrl(name) == [url |-> "file", name |-> name]
FileKinds ==
    "a" :> "binary" @@ "b" :> "binary" @@ "s" :> "source" @@ "m" :> "manifest" @@ "n" :> "manifest" @@
    "junk" :> "junk" @@ "bad" :> "corrupt" @@ "none" :> "missing" @@ "*" :> "missing" @@ "loop" :> "manifest"
FileLists ==
    "m" :> <<Local("a"), Local("s")>> @@ "n" :> <<Local("m"), Local("b")>> @@
    "loop" :> <<Local("a"), Local("loop")>>
FileGlobs == "*" :> <<Local("a"), Local("b")>>
FileLabels == [n \in DOMAIN FileKinds |-> CASE n = "a" -> {"a"} [] n = "b" -> {"a", "b"} [] OTHER -> {}]

Command(mode, args, opts) == [mode |-> mode, args |-> args, opts |-> opts]
OneOrTwo(S) == {<<x>> : x \in S} \cup (S \X S)
Locals(N) == {Local(n) : n \in N}
UrlCommands == {Command("upgrade", <<arg, Local("b")>>, {}) : arg \in {Local("a"), Http("a"), FileUrl("a")}}
MCCommands ==
    UrlCommands
    \cup {Command("install", args, {}) :
            args \in OneOrTwo(Locals(DOMAIN FileKinds \ {"loop"}) \cup {Http("a"), Http("m"), Http("bad")})}
    \cup {Command("upgrade", args, {o}) :
            args \in OneOrTwo(Locals({"a", "n", "s", "*", "none"}) \cup {Http("b")}),
            o \in {"test", "noglob", "nomanifest", "prefix"}}
    \cup {Command("freshen", args, {}) : args \in OneOrTwo(Locals({"a", "b", "n", "s", "bad"}))}
    \cup {Command(mode, args, opts) :
            mode \in {"erase", "restore"}, args \in OneOrTwo(Locals({"a", "b", "s"})),
            opts \in {{}, {"allmatches"}, {"test"}}}
    \cup {Command("query", <<x, y>>, {}) : x \in Locals(DOMAIN FileKinds), y \in Locals(DOMAIN FileKinds)}
In == INSTANCE Install WITH
        Commands <- MCCommands, Is <- FileKinds, Lists <- FileLists, Globs <- FileGlobs,
        Newer <- {"a"}, Fixed <- {"b"}, Labels <- FileLabels, MaxLevels <- 3

NoInstall ==
    /\ cmd = "" /\ pc = "" /\ queue = "" /\ files = "" /\ cleanup = "" /\ rpms = "" /\ srpms = "" /\ elems = ""
    /\ left = "" /\ done = "" /\ numFailed = 0 /\ mishap = FALSE /\ vsflags = ""
NoDepends ==
    /\ u = [prov |-> Own, req |-> Nothing, con |-> Nothing, obs |-> Nothing] /\ inst = {} /\ order = <<>> /\ last = 0
    /\ requests = <<>> /\ checked = FALSE /\ problems = {}

MCInit ==
    \/ part = "depends" /\ Init /\ NoInstall
    \/ part = "install" /\ In!Init /\ NoDepends

MCNext ==
    \/ part = "depends" /\ Next /\ UNCHANGED <<part, ofInstall>>
    \/ part = "install" /\ In!Next /\ UNCHANGED <<part, vars>>
MCSpec == MCInit /\ [][MCNext]_<<part, vars, ofInstall>>
\* packages named by path and by URL
UrlSpec == part = "install" /\ MCInit /\ cmd \in UrlCommands /\ [][MCNext]_<<part, vars, ofInstall>>

\* However requests replace, repeat and undo each other in addPackage() and
\* removePackage(), the elements they leave agree with one another.  And the
\* commands that make the requests tell the truth: the status of rpmInstall(),
\* rpmErase() and rpmRestore() is zero if and only if all that the arguments stand
\* for was done, nothing is done if an argument is bad, and the transaction set is
\* as it was before; a query of the same arguments, rpmgiNext(), sees the same
\* packages.
RequestsAgree ==
    /\ part = "depends" => ElementsAgree
    /\ part = "install" => In!StatusTrue /\ In!SetLeftClean /\ (pc = "args" => In!QueriesAgree)

\* rpmInstall() unlinks no file but its temporary ones: the ones that it fetched
\* from a URL.
OnlyTemporaryRemoved == part = "install" => In!OnlyTemporaryRemoved
=============================================================================
