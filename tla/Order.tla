------------------------------- MODULE Order -------------------------------
(***************************************************************************)
(* rpmtsOrder() (lib/order.cc): dependencies between the elements of a     *)
(* transaction set are recorded as relations, and the elements are sorted  *)
(* topologically, strongly connected components being taken apart.         *)
(*                                                                         *)
(* A dependency is a record: the element "on" that rpmalSatisfiesDepend()  *)
(* finds for it, its tag, and the phases its qualifiers make it a          *)
(* pre-requisite for ({"install"} for pre and post, {"erase"} for preun    *)
(* and postun, both for a legacy PreReq, and "none" for a dependency that  *)
(* is not ordered, like meta).  A rich one has an operator and operands.   *)
(***************************************************************************)
EXTENDS Integers, SequencesExt, FiniteSetsExt, Relation

CONSTANTS
    N,          \* number of elements
    TranSets    \* transaction sets: type, color and dependencies of each element

Elems == 1..N
INTMAX == N + 1     \* more than any distance in a component
PrefColor == 2

VARIABLES
    t,              \* the transaction set
    pc,             \* the phase and the element or run it is at
    relations,      \* tsi_relations: what requires an element
    forward,        \* tsi_forward_relations: what it requires
    count,          \* tsi_count
    SccIdx,         \* tsi_SccIdx: 1 for trivial components, 0 once collected
    Lowlink,        \* tsi_SccLowlink, as dijkstra() sets it
    SCCs,           \* members and count of each component, number 2 first
    queue,          \* the queue of rpmtsOrder(); its head is the element at hand
    inner,          \* the queue of collectSCC()
    cur,            \* the component being taken apart, or 0
    newOrder        \* the result

graph == <<t, relations, forward>>
vars == <<t, pc, relations, forward, count, SccIdx, Lowlink, SCCs, queue, inner, cur, newOrder>>

Init ==
    /\ t \in TranSets
    /\ pc = <<"record", 1>>
    /\ relations = [p \in Elems |-> <<>>]
    /\ forward = [p \in Elems |-> <<>>]
    /\ count = [p \in Elems |-> 0]
    /\ SccIdx = [p \in Elems |-> 0]
    /\ Lowlink = [p \in Elems |-> 0]
    /\ SCCs = <<>>
    /\ queue = <<>> /\ inner = <<>> /\ cur = 0 /\ newOrder = <<>>

----------------------------------------------------------------------------
\* "Calculate count for the SCC", "Subtract internal relations"
ExternalCount(rels, cnt, members) ==
    MapThenSumSet(LAMBDA m : cnt[m] - Len(SelectSeq(rels[m],
                                  LAMBDA r : r.rel_suc # m /\ r.rel_suc \in members)),
                  members)

\* v is the root of a component: the component is what lies above it on the stack.
\* 1 marks a trivial component.
PopComponent(rels, cnt, sd, v) ==
    LET at == CHOOSE i \in DOMAIN sd.stack : sd.stack[i] = v
        members == Reverse(SubSeq(sd.stack, at, Len(sd.stack)))
        nr == IF Len(members) = 1 THEN 1 ELSE Len(sd.SCCs) + 2
        found == [members |-> members, count |-> ExternalCount(rels, cnt, ToSet(members))]
    IN [sd EXCEPT !.stack = SubSeq(@, 1, at - 1),
                  !.SccIdx = [x \in DOMAIN @ |-> IF x \in ToSet(members) THEN nr ELSE @[x]],
                  !.SCCs = IF nr = 1 THEN @ ELSE Append(@, found)]

\* tarjan() and detectSCCs(): the strongly connected components of the rels,
\* in the order and with the members in the order in which the depth first search
\* finds them.  rels and cnt are tsi_relations and tsi_count.  Index numbers are
\* negative while the search is on, so a lowlink grows.
RECURSIVE TarjanFrom(_, _, _, _)
TarjanFrom(rels, cnt, sd, v) ==
    LET i == sd.index - 1
        pushed == [sd EXCEPT !.index = i, !.SccIdx[v] = i, !.Lowlink[v] = i,
                             !.stack = Append(@, v)]
        Consider(s, rel) ==
            LET q == rel.rel_suc
            IN CASE s.SccIdx[q] > 0 -> s
                 [] s.SccIdx[q] = 0 ->
                      LET below == TarjanFrom(rels, cnt, s, q)
                      IN [below EXCEPT !.Lowlink[v] = Max({@, below.Lowlink[q]})]
                 [] s.SccIdx[q] < 0 -> [s EXCEPT !.Lowlink[v] = Max({@, s.SccIdx[q]})]
        searched == FoldLeft(Consider, pushed, rels[v])
    IN IF searched.Lowlink[v] = searched.SccIdx[v]
       THEN PopComponent(rels, cnt, searched, v)
       ELSE searched

DetectSCCs(n, rels, cnt) ==
    FoldLeft(LAMBDA sd, v : IF sd.SccIdx[v] = 0 THEN TarjanFrom(rels, cnt, sd, v) ELSE sd,
             [index |-> 0, stack |-> <<>>, SCCs |-> <<>>,
              SccIdx |-> [v \in 1..n |-> 0], Lowlink |-> [v \in 1..n |-> 0]],
             [i \in 1..n |-> i])

----------------------------------------------------------------------------
\* rpmalSatisfiesDepend() on the index of the added or of the erased packages
Satisfies(p, dep) ==
    dep.on # p /\ t.type[dep.on] = IF t.type[p] = "removed" THEN "removed" ELSE "added"

\* Recommends and Supplements (and Suggests and Enhances) are weak, ordering hints
\* are not demoted.
IsWeak(dep) == dep.tag \in {"recommend", "supplement"}
IsPreReq(p, dep) == (IF t.type[p] = "removed" THEN "erase" ELSE "install") \in dep.pre
IsReversedSwapped(p, dep) == (dep.tag = "supplement") = (t.type[p] = "removed")
IsReversed(p, dep) == (dep.tag = "supplement") # (t.type[p] = "removed")
Ignored(p, dep) == "none" \in dep.pre \/ ~Satisfies(p, dep) \/ (IsWeak(dep) /\ ~IsPreReq(p, dep))

\* "if relation got already added just update the flags": the flags of the first
\* entry for suc
UpdateFlags(list, suc, flags) ==
    LET at == SelectInSeq(list, LAMBDA r : r.rel_suc = suc)
    IN [list EXCEPT ![at].rel_flags = @ \/ flags]

\* addSingleRelation(): rel and fwd are the lists so far
AddSingleRelation(s, p0, dep) ==
    LET flags == IsPreReq(p0, dep) /\ ~IsWeak(dep)
        reversed == IsReversed(p0, dep)
        p == IF reversed THEN dep.on ELSE p0
        q == IF reversed THEN p0 ELSE dep.on
        latest == IF reversed THEN s.fwd[q] ELSE s.rel[q]
    IN IF latest # <<>> /\ Head(latest).rel_suc = p
       THEN IF reversed
            THEN [fwd |-> [s.fwd EXCEPT ![q] = UpdateFlags(@, p, flags)],
                  rel |-> [s.rel EXCEPT ![p] = UpdateFlags(@, q, flags)]]
            ELSE [rel |-> [s.rel EXCEPT ![q] = UpdateFlags(@, p, flags)],
                  fwd |-> [s.fwd EXCEPT ![p] = UpdateFlags(@, q, flags)]]
       ELSE [rel |-> [s.rel EXCEPT ![q] = <<[rel_suc |-> p, rel_flags |-> flags]>> \o @],
             fwd |-> [s.fwd EXCEPT ![p] = <<[rel_suc |-> q, rel_flags |-> flags]>> \o @]]

\* addRelation(): the operands of a rich dependency that are visited.  The second
\* rpmdsParseRichDep() parses the dependency itself again, not its second operand.
Visited(dep) ==
    CASE dep.op \in {"and", "or"} -> <<dep.ds1, dep.ds2>>
      [] dep.op \in {"if", "with"} -> <<dep.ds1>>
      [] dep.op = "else" -> <<>>
      [] dep.op = "" -> <<dep>>

AddRelation(s, p, dep) ==
    FoldLeft(LAMBDA r, d : IF Ignored(p, d) THEN r ELSE AddSingleRelation(r, p, d), s, Visited(dep))

\* "Record relations", then detectSCCs() and "Restored items first"
Record ==
    /\ pc[1] = "record" /\ pc[2] <= N
    /\ LET s == FoldLeft(LAMBDA r, dep : AddRelation(r, pc[2], dep),
                         [rel |-> relations, fwd |-> forward], t.deps[pc[2]])
       IN /\ relations' = s.rel
          /\ forward' = s.fwd
          /\ count' = [p \in Elems |-> Len(s.fwd[p])]
    /\ pc' = <<"record", pc[2] + 1>>
    /\ UNCHANGED <<t, SccIdx, Lowlink, SCCs, queue, inner, cur, newOrder>>

Detect ==
    /\ pc = <<"record", N + 1>>
    /\ LET sd == DetectSCCs(N, relations, count)
       IN SccIdx' = sd.SccIdx /\ SCCs' = sd.SCCs /\ Lowlink' = sd.Lowlink
    /\ newOrder' = SelectSeq([i \in Elems |-> i], LAMBDA p : t.type[p] = "restored")
    /\ pc' = <<"start", "added">>
    /\ UNCHANGED <<graph, count, queue, inner, cur>>

----------------------------------------------------------------------------
Qcnt(q) == Len(relations[q])

\* addQ(): in front of the first element that no more packages require; the
\* preferred color goes to the head on install and to the tail on erase
AddQ(s, p) ==
    LET tailcond == t.color[p] # 0 /\ (t.type[p] = "added") # (t.color[p] = PrefColor)
        behind == {i \in DOMAIN s : /\ ~(tailcond /\ t.color[p] # t.color[s[i]])
                                    /\ Qcnt(s[i]) <= Qcnt(p)}
    IN InsertAt(s, IF behind = {} THEN Len(s) + 1 ELSE Min(behind), p)

\* "Scan for zeroes and add them to the queue", "Add one member of each leaf SCC"
Start ==
    /\ pc[1] = "start"
    /\ LET zeros == SelectSeq([i \in Elems |-> i],
                              LAMBDA p : t.type[p] = pc[2] /\ count[p] = 0)
           leaves == SelectSeq(SCCs, LAMBDA c : c.count = 0 /\ t.type[c.members[1]] = pc[2])
       IN queue' = FoldLeft(AddQ, <<>>, zeros \o [i \in DOMAIN leaves |-> leaves[i].members[1]])
    /\ pc' = <<"collect", pc[2]>>
    /\ UNCHANGED <<graph, count, SccIdx, Lowlink, SCCs, inner, cur, newOrder>>

\* collectTE(): one relation of q is erased.  "here" is the queue q is in, "out"
\* the one around the component at hand.
EraseRelation(s, q, p) ==
    LET out == cur # 0 /\ SccIdx[p] # cur
        left == s.count[p] - 1
        loop == SccIdx[p] > 1 /\ SccIdx[p] # SccIdx[q]
        ready == s.SCCs[SccIdx[p] - 1].count = 1
        adding == (IF left = 0 THEN <<p>> ELSE <<>>) \o (IF loop /\ ready THEN <<p>> ELSE <<>>)
    IN IF p = q \/ SccIdx[p] = 0 THEN s
       ELSE [count |-> [s.count EXCEPT ![p] = left],
             SCCs |-> IF loop THEN [s.SCCs EXCEPT ![SccIdx[p] - 1].count = @ - 1] ELSE s.SCCs,
             here |-> IF out THEN s.here ELSE FoldLeft(AddQ, s.here, adding),
             out |-> IF out THEN FoldLeft(AddQ, s.out, adding) ELSE s.out]

CollectTE(q, here, out) ==
    FoldLeft(LAMBDA s, r : EraseRelation(s, q, r.rel_suc),
             [count |-> count, SCCs |-> SCCs, here |-> here, out |-> out], relations[q])

Collect(q) ==
    /\ newOrder' = Append(newOrder, q)
    /\ SccIdx' = [SccIdx EXCEPT ![q] = 0]
    /\ UNCHANGED <<graph, pc, Lowlink>>

CollectSingle ==
    /\ pc[1] = "collect" /\ cur = 0 /\ queue # <<>> /\ SccIdx[queue[1]] <= 1
    /\ LET s == CollectTE(queue[1], Tail(queue), <<>>)
       IN queue' = s.here /\ count' = s.count /\ SCCs' = s.SCCs
    /\ Collect(queue[1])
    /\ UNCHANGED <<cur, inner>>

\* dijkstra(): the distance from the members that have a pre-requisite in the
\* component, along what is required
Dijkstra(c) ==
    LET members == {m \in Elems : SccIdx[m] = c}
        Needs(m, S) == \E i \in DOMAIN forward[m] : forward[m][i].rel_suc \in S
        within[k \in 0..N] ==
            IF k = 0
            THEN {m \in members : \E i \in DOMAIN forward[m] :
                                     forward[m][i].rel_flags /\ forward[m][i].rel_suc \in members}
            ELSE within[k - 1] \cup {q \in members : \E m \in within[k - 1] : Needs(m, {q})}
    IN [m \in Elems |-> IF m \notin members THEN Lowlink[m]
                        ELSE IF m \in within[N] THEN Min({k \in 0..N : m \in within[k]})
                        ELSE INTMAX]

\* collectSCC()
StartSCC ==
    /\ pc[1] = "collect" /\ cur = 0 /\ queue # <<>> /\ SccIdx[queue[1]] > 1
    /\ cur' = SccIdx[queue[1]]
    /\ queue' = Tail(queue)
    /\ Lowlink' = Dijkstra(SccIdx[queue[1]])
    /\ UNCHANGED <<graph, pc, SccIdx, count, SCCs, inner, newOrder>>

\* "select best candidate to start with": the last one of the farthest
BestMember(members) ==
    LET left == SelectSeq(members, LAMBDA m : SccIdx[m] # 0)
        farthest == Max({Lowlink[left[i]] : i \in DOMAIN left})
    IN left[SelectLastInSeq(left, LAMBDA m : Lowlink[m] = farthest)]

SelectBest ==
    /\ cur # 0 /\ inner = <<>>
    /\ IF \A m \in ToSet(SCCs[cur - 1].members) : SccIdx[m] = 0
       THEN cur' = 0 /\ UNCHANGED inner
       ELSE inner' = <<BestMember(SCCs[cur - 1].members)>> /\ UNCHANGED cur
    /\ UNCHANGED <<graph, pc, newOrder, queue, SccIdx, count, SCCs, Lowlink>>

CollectInner ==
    /\ inner # <<>>
    /\ LET s == CollectTE(inner[1], Tail(inner), queue)
       IN inner' = s.here /\ queue' = s.out /\ count' = s.count /\ SCCs' = s.SCCs
    /\ Collect(inner[1])
    /\ UNCHANGED cur

\* Mutant: the first run is repeated.
NextRunRepeats ==
    /\ pc[1] = "collect" /\ cur = 0 /\ queue = <<>>
    /\ pc' = IF Len(newOrder) < N THEN <<"start", "added">> ELSE <<"done", 0>>
    /\ UNCHANGED <<graph, newOrder, queue, cur, inner, SccIdx, count, SCCs, Lowlink>>

\* "Do two separate runs: installs first - then erases"
NextRun ==
    /\ pc[1] = "collect" /\ cur = 0 /\ queue = <<>>
    /\ pc' = IF pc[2] = "added" THEN <<"start", "removed">> ELSE <<"done", 0>>
    /\ UNCHANGED <<graph, newOrder, queue, cur, inner, SccIdx, count, SCCs, Lowlink>>

Done == pc[1] = "done" /\ UNCHANGED vars

Next ==
    \/ Record \/ Detect \/ Start \/ CollectSingle \/ StartSCC \/ SelectBest
    \/ CollectInner \/ NextRun \/ Done

Spec == Init /\ [][Next]_vars

----------------------------------------------------------------------------
\* What the dependencies ask for: <<q, p>> when q has to come before p.  A rich
\* dependency (a if b else c) is on a or on c.
Operands(dep) ==
    IF dep.op = "if" /\ dep.ds2.op = "else" THEN {dep.ds1, dep.ds2.ds2} ELSE ToSet(Visited(dep))
Ordered(p) == {d \in UNION {Operands(t.deps[p][i]) : i \in DOMAIN t.deps[p]} : ~Ignored(p, d)}
First(p, d) == IF (d.tag = "supplement") = (t.type[p] = "removed") THEN <<d.on, p>> ELSE <<p, d.on>>
Wanted == UNION {{First(p, d) : d \in Ordered(p)} : p \in Elems}
PreRequired == UNION {{First(p, d) : d \in {e \in Ordered(p) : IsPreReq(p, e) /\ ~IsWeak(e)}}
                      : p \in Elems}

\* Elements that are on a loop of the relation R
Loops(R) ==
    LET reach == ReflexiveTransitiveClosure([x, y \in Elems |-> <<x, y>> \in R], Elems)
    IN [p \in Elems |-> {q \in Elems : reach[p, q] /\ reach[q, p]}]
Position(p) == SelectInSeq(newOrder, LAMBDA q : q = p)

\* tarjan() finds the strongly connected components, and counts the relations that
\* come from outside.
ComponentsFound ==
    pc = <<"start", "added">> =>
        LET R == UNION {{<<q, relations[q][i].rel_suc>> : i \in DOMAIN relations[q]} : q \in Elems}
            loops == Loops(R)
        IN /\ {ToSet(SCCs[i].members) : i \in DOMAIN SCCs} =
                  {loops[p] : p \in {q \in Elems : loops[q] # {q}}}
           /\ \A i \in DOMAIN SCCs :
                 LET c == ToSet(SCCs[i].members)
                     outside(p) == Len(SelectSeq(forward[p], LAMBDA r : r.rel_suc \notin c))
                 IN /\ \A p \in c : SccIdx[p] = i + 1
                    /\ SCCs[i].count = MapThenSumSet(outside, c)

\* No element is collected or queued twice, though elements move between the queues
\* while a component is taken apart; a component is queued by one member, and in the
\* end none is missing: assert(newOrder.size() == tsmem->order.size()).
QueuedOnce ==
    LET all == newOrder \o inner \o queue
    IN /\ \A i, j \in DOMAIN all : all[i] = all[j] => i = j
       /\ \A i, j \in DOMAIN queue :
             SccIdx[queue[i]] > 1 /\ SccIdx[queue[i]] = SccIdx[queue[j]] => i = j
       /\ pc[1] = "done" => Len(newOrder) = N

\* "any Requires of a package must be present at the time of its install and erase":
\* an element comes after what it requires, and is erased before it, unless they
\* require each other; erasures come after installs.
RequiredFirst ==
    pc[1] = "done" =>
        /\ LET loops == Loops(Wanted)
           IN \A e \in Wanted : e[1] \notin loops[e[2]] => Position(e[1]) < Position(e[2])
        /\ \A p, q \in Elems :
              t.type[p] = "added" /\ t.type[q] = "removed" => Position(p) < Position(q)

\* "An otherwise equal A <-> B loop can be broken one way or the other by an ordered
\* qualifier": in a loop of two the pre-requisite comes first.
LoopsBroken(types) ==
    pc[1] = "done" =>
        LET loops == Loops(Wanted)
        IN \A e \in PreRequired :
              /\ t.type[e[1]] \in types
              /\ loops[e[1]] = {e[1], e[2]}
              /\ <<e[2], e[1]>> \notin PreRequired
              => Position(e[1]) < Position(e[2])
\* dijkstra() and the choice of the best member see to it for packages that are
\* installed,
InstallLoopsBroken == LoopsBroken({"added"})
\* and for packages that are erased.
EraseLoopsBroken == LoopsBroken({"removed"})

\* rpmtsOrder() places every element once, behind what it requires, with loops found
\* and broken as intended.
OrderSound == ComponentsFound /\ QueuedOnce /\ RequiredFirst /\ InstallLoopsBroken

\* The sort comes to an end: it is never stuck before it is done (deadlock), and every
\* step makes this variant smaller, the loop in collectSCC() and the queues that
\* collectTE() fills while they are emptied included.
Phase == CASE pc[1] = "record" -> N + 6 - pc[2]
           [] pc = <<"start", "added">> -> 4
           [] pc = <<"collect", "added">> -> 3
           [] pc = <<"start", "removed">> -> 2
           [] pc = <<"collect", "removed">> -> 1
           [] pc[1] = "done" -> 0
Stage == CASE cur = 0 -> 2
           [] inner # <<>> -> 0
           [] OTHER -> IF \A m \in ToSet(SCCs[cur - 1].members) : SccIdx[m] = 0 THEN 3 ELSE 1
Variant == Phase * 4 * (N + 1) + 4 * (N - Len(newOrder)) + Stage
=============================================================================
