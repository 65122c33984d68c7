------------------------------ MODULE Depends ------------------------------
(***************************************************************************)
(* How a transaction set comes about and is checked (lib/depends.cc,       *)
(* lib/rpmal.cc): rpmtsAddInstallElement(), rpmtsAddReinstallElement() and *)
(* rpmtsAddEraseElement() decide what is added, replaced, skipped and      *)
(* erased; rpmtsCheck() looks for problems.                                *)
(*                                                                         *)
(* A package has a name and a version, and a universe says what packages   *)
(* provide, require, conflict with and obsolete.  A dependency is an atom  *)
(* (a name with a set of versions), or a rich one made of atoms.  Packages *)
(* have no color, files no role, and there is no solver callback.          *)
(***************************************************************************)
EXTENDS Integers, FiniteSets, Sequences, Functions

CONSTANTS
    Packages,       \* packages
    Name, Ver,      \* their names and versions
    Universes,      \* records with the functions prov, req, con and obs
    MaxRequests     \* bound on the number of requests

ASSUME DependsAssumption ==
    /\ IsFiniteSet(Packages)
    /\ DOMAIN Name = Packages /\ Ver \in [Packages -> Nat]
    /\ MaxRequests \in Nat
    /\ \A w \in Universes, p \in Packages :
          /\ \A d \in w.req[p] : d.op \in {"one", "or", "and", "if", "ifelse"}
          /\ <<Name[p], Ver[p]>> \in w.prov[p]

VARIABLES
    u,          \* the universe
    inst,       \* installed packages
    order,      \* the elements of the set, tsmem->order
    last,       \* the number of the install element created last
    requests,   \* history: the requests
    checked,    \* rpmtsCheck() has been called
    problems    \* what it found

vars == <<u, inst, order, last, requests, checked, problems>>

Elements == {order[i] : i \in DOMAIN order}
AddedTes == {e \in Elements : e.type = "added"}
Added == {e.pkg : e \in AddedTes}           \* addedPackages
Removed == {e.pkg : e \in Elements \ AddedTes}  \* removedPackages
Kept == inst \ Removed                      \* rpmtsPrunedIterator()
Result == Kept \cup Added

\* rpmdsCompareIndex(), rpmdsMatches(): on provides, or on the package's own name
Match(w, a, p) == \E v \in a.vs : <<a.n, v>> \in w.prov[p]
NameMatch(a, p) == Name[p] = a.n /\ Ver[p] \in a.vs

Provided(w, a, S) == \E p \in S : Match(w, a, p)

\* unsatisfiedDepend(), when S is what can be matched
Satisfied(w, d, S) ==
    \/ d.op = "one" /\ Provided(w, d.a, S)
    \/ d.op = "or" /\ (Provided(w, d.a, S) \/ Provided(w, d.b, S))
    \/ d.op = "and" /\ Provided(w, d.a, S) /\ Provided(w, d.b, S)
    \/ d.op = "if" /\ (Provided(w, d.a, S) \/ ~Provided(w, d.b, S))
    \/ d.op = "ifelse" /\ IF Provided(w, d.b, S) THEN Provided(w, d.a, S) ELSE Provided(w, d.c, S)

\* No requirement is open, nothing conflicts with or obsoletes another.
Closed(w, S) ==
    \A p \in S :
        /\ \A d \in w.req[p] : Satisfied(w, d, S)
        /\ \A a \in w.con[p] : ~Provided(w, a, S \ {p})
        /\ \A a \in w.obs[p] : \A q \in S \ {p} : ~NameMatch(a, q)

Init ==
    /\ u \in Universes
    /\ inst \in SUBSET Packages /\ Closed(u, inst)
    /\ order = <<>> /\ last = 0 /\ requests = <<>>
    /\ checked = FALSE /\ problems = {}

----------------------------------------------------------------------------
\* Building the set

Element(type, p, id, dep) == [type |-> type, pkg |-> p, id |-> id, dep |-> dep]

\* The members of a set, one after the other
Listing(S) == CHOOSE t \in Injection(1 .. Cardinality(S), S) : TRUE

\* removePackage() for the packages in S, on behalf of element dep: erasures that
\* are there already get the new reason, the others are appended.
Erase(o, S, dep) ==
    LET there == {o[i].pkg : i \in {j \in DOMAIN o : o[j].type = "removed"}}
        new == Listing(S \ there)
    IN [i \in DOMAIN o |-> IF o[i].type = "removed" /\ o[i].pkg \in S /\ dep # 0
                           THEN [o[i] EXCEPT !.dep = dep] ELSE o[i]]
       \o [i \in DOMAIN new |-> Element("removed", new[i], 0, dep)]

\* Mutant: only older versions go.
SelfErasuresOlder(p, op) == {q \in inst : Name[q] = Name[p] /\ Ver[q] < Ver[p]}

\* addSelfErasures() and addObsoleteErasures(), which does not see what is erased
\* already.
SelfErasures(p, op) ==
    {q \in inst : Name[q] = Name[p] /\ (op = "upgrade" \/ Ver[q] = Ver[p])}
ObsoleteErasures(p) == {q \in inst : \E a \in u.obs[p] : NameMatch(a, q)}

AddErasures(o, p, op, id) ==
    LET self == IF op = "install" THEN o ELSE Erase(o, SelfErasures(p, op), id)
        there == {self[i].pkg : i \in {j \in DOMAIN self : self[j].type = "removed"}}
    IN IF op = "upgrade" THEN Erase(self, ObsoleteErasures(p) \ there, id) ELSE self

\* checkObsoleted() and the checkAdded() calls of findPos()
ObsoletedBy(p) == {e \in AddedTes : \E a \in u.obs[e.pkg] : NameMatch(a, p)}
Obsoleting(p) == {e \in AddedTes : \E a \in u.obs[p] : NameMatch(a, e.pkg)}
SameAdded(p) == {e \in AddedTes : Name[e.pkg] = Name[p] /\ Ver[e.pkg] = Ver[p]}
NewerAdded(p) == {e \in AddedTes : Name[e.pkg] = Name[p] /\ Ver[e.pkg] > Ver[p]}
OlderAdded(p) == {e \in AddedTes : Name[e.pkg] = Name[p] /\ Ver[e.pkg] < Ver[p]}

\* findPos(): none, the element to replace, or all of them if it is a new one
Skipped(p, op) ==
    \/ ObsoletedBy(p) # {}
    \/ Obsoleting(p) = {} /\ (SameAdded(p) # {} \/ (op = "upgrade" /\ NewerAdded(p) # {}))
Replaceable(p, op) ==
    IF Obsoleting(p) # {} THEN Obsoleting(p)
    ELSE IF op = "upgrade" THEN OlderAdded(p) ELSE {}

Request(r) ==
    /\ Len(requests) < MaxRequests
    /\ requests' = Append(requests, r)
    /\ checked' = FALSE /\ problems' = {}
    /\ UNCHANGED <<u, inst>>

\* addPackage()
AddPackage(p, op) ==
    /\ Request([op |-> op, pkg |-> p])
    /\ LET e == Element("added", p, last + 1, 0)
       IN \/ Skipped(p, op) /\ UNCHANGED <<order, last>>
          \/ /\ ~Skipped(p, op)
             /\ \/ /\ Replaceable(p, op) = {}
                   /\ order' = AddErasures(Append(order, e), p, op, e.id)
                \/ \E i \in DOMAIN order :
                      /\ order[i] \in Replaceable(p, op)
                      /\ order' = AddErasures([order EXCEPT ![i] = e], p, op, e.id)
             /\ last' = e.id

AddInstallElement ==
    \E p \in Packages, op \in {"install", "upgrade"} : AddPackage(p, op)

AddReinstallElement == \E p \in Packages : AddPackage(p, "reinstall")

\* removePackage()
AddEraseElement ==
    \E p \in inst :
        /\ Request([op |-> "erase", pkg |-> p])
        /\ order' = Erase(order, {p}, 0)
        /\ UNCHANGED last

----------------------------------------------------------------------------
\* rpmtsCheck()

\* Mutant: conditions are not in the index.
NegKeysNone(d) == {}

\* The names under which a requirement is in the database's index, and those with
\* a "!": updateRichDepCB()
Keys(d) ==
    {d.a.n} \cup (IF d.op \in {"or", "and", "ifelse"} THEN {d.b.n} ELSE {})
            \cup (IF d.op = "ifelse" THEN {d.c.n} ELSE {})
NegKeys(d) == IF d.op \in {"if", "ifelse"} THEN {d.b.n} ELSE {}

\* checkDS() on an added package, which its own dependencies do not match
AddedProblems(p) ==
    {<<p, d>> : d \in {d \in u.req[p] : ~Satisfied(u, d, Result)}}
    \cup {<<p, a>> : a \in {a \in u.con[p] : \E q \in Kept \cup (Added \ {p}) : Match(u, a, q)}}
    \cup {<<p, a>> : a \in {a \in u.obs[p] : \E q \in Kept \cup (Added \ {p}) : NameMatch(a, q)}}

\* checkInstDeps(): conflicts with what is added, requirements with conditions
\* that become true, obsoletes of its name
InstalledAgainstAdded(p) ==
    UNION {
        {<<q, a>> : a \in {a \in u.con[q] : Match(u, a, p)}}
        \cup {<<q, d>> : d \in {d \in u.req[q] :
                            (\E c \in u.prov[p] : c[1] \in NegKeys(d)) /\ ~Satisfied(u, d, Result)}}
        \cup {<<q, a>> : a \in {a \in u.obs[q] : NameMatch(a, p)}}
        : q \in Kept}

\* checkInstDeps(): requirements on what is removed
InRange(d, c) == d.op = "one" => c[2] \in d.a.vs
InstalledAgainstRemoved(p) ==
    UNION {
        {<<q, d>> : d \in {d \in u.req[q] :
                            (\E c \in u.prov[p] : c[1] \in Keys(d) /\ InRange(d, c))
                            /\ ~Satisfied(u, d, Result)}}
        : q \in Kept}

AdditionProblems == UNION {AddedProblems(p) \cup InstalledAgainstAdded(p) : p \in Added}
RemovalProblems == UNION {InstalledAgainstRemoved(p) : p \in Removed}

Check ==
    /\ ~checked /\ order # <<>>
    /\ checked' = TRUE
    /\ problems' = AdditionProblems \cup RemovalProblems
    /\ UNCHANGED <<u, inst, order, last, requests>>

Next == AddInstallElement \/ AddReinstallElement \/ AddEraseElement \/ Check

Spec == Init /\ [][Next]_vars

----------------------------------------------------------------------------
TypeOK ==
    /\ u \in Universes /\ inst \subseteq Packages /\ Removed \subseteq inst
    /\ order \in Seq([type : {"added", "removed"}, pkg : Packages,
                      id : 0..last, dep : 0..last])
    /\ last \in 0..MaxRequests /\ checked \in BOOLEAN
    /\ requests \in Seq([op : {"install", "upgrade", "reinstall", "erase"}, pkg : Packages])

\* What rpmtsCheck() finds no problem with leaves the system as it was before: no
\* requirement open, no conflict, nothing obsoleted.  It only looks at
\* dependencies of installed packages that the index finds for a name that is
\* added or removed.
CheckSound == checked /\ problems = {} => Closed(u, Result)

\* An installed package is erased once, however many elements and requests ask
\* for it.
ErasedOnce ==
    \A i, j \in DOMAIN order :
        order[i].type = "removed" /\ order[j].type = "removed" /\ order[i].pkg = order[j].pkg
            => i = j

\* If all requests are upgrades and there was one version of everything, in
\* whatever order they come, there will be, in one element.  Except that an
\* upgrade which obsoletes an added package takes its place, and findPos() then
\* does not look for an older version of itself.
UpgradesOnly == \A i \in DOMAIN requests : requests[i].op = "upgrade"
OneVersion(S) == \A p, q \in S : Name[p] = Name[q] => p = q
ObsoletesRequested(n) ==
    \E i, j \in DOMAIN requests :
        /\ Name[requests[i].pkg] = n /\ Name[requests[j].pkg] # n
        /\ \E a \in u.obs[requests[i].pkg] : NameMatch(a, requests[j].pkg)
UpgradeKeepsOneVersion ==
    UpgradesOnly /\ OneVersion(inst) =>
        /\ \A p, q \in Result : Name[p] = Name[q] => p = q \/ ObsoletesRequested(Name[p])
        /\ \A i, j \in DOMAIN order :
              order[i].type = "added" /\ order[j].type = "added" /\ Name[order[i].pkg] = Name[order[j].pkg]
                  => i = j \/ ObsoletesRequested(Name[order[i].pkg])

\* However requests replace, repeat and undo each other in addPackage() and
\* removePackage(), the elements they leave agree with one another.
ElementsAgree == TypeOK /\ ErasedOnce /\ UpgradeKeepsOneVersion
=============================================================================
