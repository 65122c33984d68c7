--------------------------- MODULE MCTransaction ---------------------------
(***************************************************************************)
(* rpmtsRun() and rpmtsOrder() on small transaction sets.  A behaviour of  *)
(* MCSpec is one of these, named by part; the variables of the other stay  *)
(* as they are.                                                            *)
(***************************************************************************)
EXTENDS Transaction, TLC

(* Two instances of Transaction.  "Upgrade" is one package replacing its   *)
(* old version, under many flags and in a chroot that may fail; "Mixed"    *)
(* adds a package that replaces itself, a plain erasure and a restored     *)
(* element.                                                                *)

CONSTANTS new, old, again, gone, back

UpgradeOrder == <<new, old>>
MixedOrder == <<back, again, new, gone, old>>

MCKind == [e \in Elems |->
             CASE e \in {new, again} -> "added"
               [] e \in {old, gone} -> "removed"
               [] e = back -> "restored"]
MCDependsOn == [e \in Elems |-> IF e = old THEN new ELSE NoElem]
MCName == [e \in Elems |->
             CASE e \in {new, old} -> "pkg"
               [] e = again -> "again"
               [] e = gone -> "gone"
               [] e = back -> "back"]

PlainFlagSets == {{}}
AllFlagSets ==
    {{}, {"TEST"}, {"BUILD_PROBS"}, {"NOSCRIPTS"}, {"NOTRIGGERS"}, {"JUSTDB"},
     {"NODB"}, {"NOPRE", "NOPOSTTRANS"}, {"NOPOSTUN", "NOSYSUSERS"}}

-----------------------------------------------------------------------------
(* Transaction sets of four packages for Order *)

Members == 1..4
Dep(on, tag, pre) == [op |-> "", on |-> on, tag |-> tag, pre |-> pre]
Plain(on) == Dep(on, "require", {})
Uncolored == [p \in Members |-> 0]
All(type) == [p \in Members |-> type]
Asc(S) == SelectSeq([i \in Members |-> i], LAMBDA p : p \in S)

\* Dependencies on the elements of S, in order, of which those in P are qualified
Requires(S, P, pre) == [k \in 1..Cardinality(S) |->
    LET on == Asc(S)[k] IN Dep(on, "require", IF on \in P THEN pre ELSE {})]

\* Graphs on packages that are installed, of which two require up to two others and two
\* up to one, without a pre-requisite and with one
Graphs == {r \in [Members -> SUBSET Members] :
              \A p \in Members : p \notin r[p] /\ Cardinality(r[p]) <= IF p % 2 = 1 THEN 2 ELSE 1}
Installs(r, f) == [type |-> All("added"), color |-> Uncolored,
                  deps |-> [p \in Members |-> Requires(r[p], {q \in r[p] : <<p, q>> = f}, {"install"})]]
InstallSets == {Installs(r, f) : r \in Graphs, f \in {<<1, 1>>, <<4, 1>>}}

\* Three packages that are installed, erased or restored, with colors and all kinds of
\* dependencies on each other, and one that is just installed.  Nothing that is
\* installed provides what a restored package requires.
Lists(p) ==
    LET o == (p % 3) + 1
        l == (o % 3) + 1
        rich(op) == [op |-> op, ds1 |-> Plain(o), ds2 |-> Plain(l)]
        common == {<<>>, <<Plain(l)>>, <<Plain(o), Plain(o)>>,
                   <<Dep(o, "require", {"install", "erase"}), Plain(l)>>, <<rich("and")>>}
        others == {<<rich("with")>>,
                   <<Dep(o, "recommend", {})>>, <<Dep(o, "recommend", {"install"}), Plain(l)>>,
                   <<Plain(o), Dep(l, "supplement", {"erase", "install"})>>,
                   <<Dep(l, "order", {})>>, <<Dep(l, "require", {"none"})>>}
    IN IF p = 4 THEN {<<>>} ELSE IF p = 3 THEN common ELSE common \cup others
Types == {f \in [Members -> {"added", "removed", "restored"}] :
            /\ f[1] # "restored" /\ f[2] = f[3] /\ f[4] = "added"
            /\ f[2] = "restored" => f[1] = "removed"}
MixedSets == {[type |-> ty, color |-> <<1, 2, 0, 0>>, deps |-> <<d1, d2, d3, <<>> >>]
            : ty \in Types, d1 \in Lists(1), d2 \in Lists(2), d3 \in Lists(3)}

TranSets == InstallSets \cup MixedSets

\* Two packages that require each other, one of them for its %preun, are erased.
EraseSets ==
    {[type |-> All("removed"), color |-> Uncolored,
      deps |-> [p \in Members |-> IF p > 2 THEN <<>>
                  ELSE <<Dep(3 - p, "require", IF p = f THEN {"erase"} ELSE {})>>]]
     : f \in {1, 2}}

-----------------------------------------------------------------------------
VARIABLES part,
    t, at, relations, forward, count, SccIdx, Lowlink, SCCs, queue, inner, cur, newOrder

ofOrder == <<t, at, relations, forward, count, SccIdx, Lowlink, SCCs, queue, inner, cur, newOrder>>
mcVars == <<part, vars, ofOrder>>

Od == INSTANCE Order WITH N <- 4, TranSets <- TranSets, pc <- at
Oe == INSTANCE Order WITH N <- 4, TranSets <- EraseSets, pc <- at

NoOrder ==
    /\ t = "" /\ at = "" /\ relations = "" /\ forward = "" /\ count = "" /\ SccIdx = "" /\ Lowlink = ""
    /\ SCCs = "" /\ queue = "" /\ inner = "" /\ cur = "" /\ newOrder = ""

MCInit ==
    /\ Init
    /\ \/ part = "run" /\ NoOrder
       \/ part = "order" /\ Od!Init

MCNext ==
    \/ part = "run" /\ Next /\ UNCHANGED <<part, ofOrder>>
    \/ part = "order" /\ Od!Next /\ UNCHANGED <<part, vars>>

MCSpec == MCInit /\ [][MCNext]_mcVars

\* Only rpmtsRun(), which ends: every step of it is taken in time
RunInit == part = "run" /\ MCInit

RunSpec == RunInit /\ [][MCNext]_mcVars /\ WF_mcVars(MCNext)

\* Only the erasure of two packages that require each other
EraseInit == Init /\ part = "order" /\ Oe!Init

EraseSpec == EraseInit /\ [][MCNext]_mcVars

----------------------------------------------------------------------------
\* rpmtsOrder() places every element of a transaction set once, behind what it
\* requires unless they require each other; it finds the loops, and breaks those of
\* two installed packages at the pre-requisite (tarjan(), collectSCC()).
OrderSound == part = "order" => Od!OrderSound

\* Every step of the sort makes its variant smaller: it comes to an end.
OrderEnds == [][part = "order" => Od!Variant' < Od!Variant]_mcVars

\* "An otherwise equal A <-> B loop can be broken one way or the other by an
\* ordered qualifier (eg. *pre*, *post*, *preun* or *postun*)": two packages that
\* require each other are erased in the order that the qualifier asks for
\* (addSingleRelation()).
EraseLoopsBroken == part = "order" => Od!EraseLoopsBroken
=============================================================================
