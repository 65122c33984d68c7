--------------------------- MODULE DependsProofs ---------------------------
(***************************************************************************)
(* rpmtsCheck() is sound, and the elements of a transaction set agree, for *)
(* all packages, dependencies and requests.                                *)
(***************************************************************************)
EXTENDS Depends, FiniteSetTheorems, TLAPS

\* A requirement that is satisfied by S and not by T: something that S has and T
\* has not is found under one of its keys, or something T has and S has not is a
\* condition of it.
LEMMA LostRequirement ==
    ASSUME NEW S, NEW T, NEW d,
           Satisfied(u, d, S), ~Satisfied(u, d, T)
    PROVE  \/ \E p \in S \ T : \E c \in u.prov[p] : c[1] \in Keys(d) /\ InRange(d, c)
           \/ \E p \in T \ S : \E c \in u.prov[p] : c[1] \in NegKeys(d)
<1> DEFINE Lost(a) == \E p \in S \ T : \E v \in a.vs : <<a.n, v>> \in u.prov[p]
           Gained(a) == \E p \in T \ S : \E v \in a.vs : <<a.n, v>> \in u.prov[p]
<1>1. ASSUME NEW a, Provided(u, a, S), ~Provided(u, a, T) PROVE Lost(a)
  BY <1>1 DEF Provided, Match
<1>2. ASSUME NEW a, ~Provided(u, a, S), Provided(u, a, T) PROVE Gained(a)
  BY <1>2 DEF Provided, Match
<1>3. ASSUME NEW a, Lost(a), a.n \in Keys(d), d.op = "one" => a = d.a
      PROVE  \E p \in S \ T : \E c \in u.prov[p] : c[1] \in Keys(d) /\ InRange(d, c)
  <2>1. PICK p \in S \ T, v \in a.vs : <<a.n, v>> \in u.prov[p]
    BY <1>3
  <2>2. <<a.n, v>>[1] \in Keys(d) /\ InRange(d, <<a.n, v>>)
    BY <1>3 DEF InRange
  <2> QED BY <2>1, <2>2
<1>4. ASSUME NEW a, Gained(a), a.n \in NegKeys(d)
      PROVE  \E p \in T \ S : \E c \in u.prov[p] : c[1] \in NegKeys(d)
  <2>1. PICK p \in T \ S, v \in a.vs : <<a.n, v>> \in u.prov[p]
    BY <1>4
  <2>2. <<a.n, v>>[1] \in NegKeys(d)
    BY <1>4
  <2> QED BY <2>1, <2>2
<1> HIDE DEF Lost, Gained
<1>5. CASE d.op = "one"
  <2>1. Lost(d.a) BY <1>1, <1>5 DEF Satisfied
  <2> QED BY <2>1, <1>3, <1>5 DEF Keys
<1>6. CASE d.op = "or"
  <2>1. Lost(d.a) \/ Lost(d.b) BY <1>1, <1>6 DEF Satisfied
  <2>2. d.a.n \in Keys(d) /\ d.b.n \in Keys(d) BY <1>6 DEF Keys
  <2> QED BY <2>1, <2>2, <1>3, <1>6
<1>7. CASE d.op = "and"
  <2>1. Lost(d.a) \/ Lost(d.b) BY <1>1, <1>7 DEF Satisfied
  <2>2. d.a.n \in Keys(d) /\ d.b.n \in Keys(d) BY <1>7 DEF Keys
  <2> QED BY <2>1, <2>2, <1>3, <1>7
<1>8. CASE d.op = "if"
  <2>1. Lost(d.a) \/ Gained(d.b) BY <1>1, <1>2, <1>8 DEF Satisfied
  <2>2. d.a.n \in Keys(d) /\ d.b.n \in NegKeys(d) BY <1>8 DEF Keys, NegKeys
  <2> QED BY <2>1, <2>2, <1>3, <1>4, <1>8
<1>9. CASE d.op = "ifelse"
  <2>1. Lost(d.a) \/ Lost(d.b) \/ Gained(d.b) \/ Lost(d.c)
    BY <1>1, <1>2, <1>9 DEF Satisfied
  <2>2. d.a.n \in Keys(d) /\ d.b.n \in Keys(d) /\ d.c.n \in Keys(d) /\ d.b.n \in NegKeys(d)
    BY <1>9 DEF Keys, NegKeys
  <2> QED BY <2>1, <2>2, <1>3, <1>4, <1>9
<1> QED BY <1>5, <1>6, <1>7, <1>8, <1>9 DEF Satisfied

\* The problems that rpmtsCheck() reports
AllProblems == AdditionProblems \cup RemovalProblems

\* If the installed packages are closed and rpmtsCheck() reports nothing, the
\* result is closed.
LEMMA NoProblemsClosed ==
    ASSUME Closed(u, inst), AllProblems = {}
    PROVE  Closed(u, Result)
<1> SUFFICES ASSUME NEW p \in Result
             PROVE  /\ \A d \in u.req[p] : Satisfied(u, d, Result)
                    /\ \A a \in u.con[p] : ~Provided(u, a, Result \ {p})
                    /\ \A a \in u.obs[p] : \A q \in Result \ {p} : ~NameMatch(a, q)
  BY DEF Closed
<1>1. \A q \in Added : AddedProblems(q) = {} /\ InstalledAgainstAdded(q) = {}
  <2> SUFFICES ASSUME NEW q \in Added, NEW x \in AddedProblems(q) \cup InstalledAgainstAdded(q)
               PROVE  FALSE
    OBVIOUS
  <2>1. x \in AdditionProblems
    BY DEF AdditionProblems
  <2>2. x \in AllProblems
    BY <2>1 DEF AllProblems
  <2> QED BY <2>2
<1>2. \A q \in Removed : InstalledAgainstRemoved(q) = {}
  <2> SUFFICES ASSUME NEW q \in Removed, NEW x \in InstalledAgainstRemoved(q) PROVE FALSE
    OBVIOUS
  <2>1. x \in RemovalProblems
    BY DEF RemovalProblems
  <2>2. x \in AllProblems
    BY <2>1 DEF AllProblems
  <2> QED BY <2>2
<1>3. ASSUME p \in Added
      PROVE  /\ \A d \in u.req[p] : Satisfied(u, d, Result)
             /\ \A a \in u.con[p] : ~Provided(u, a, Result \ {p})
             /\ \A a \in u.obs[p] : \A q \in Result \ {p} : ~NameMatch(a, q)
  <2>1. \A d \in u.req[p] : Satisfied(u, d, Result)
    BY <1>1, <1>3, Zenon DEF AddedProblems
  <2>2. \A a \in u.con[p] : ~Provided(u, a, Result \ {p})
    BY <1>1, <1>3, ZenonT(30) DEF AddedProblems, Provided, Result
  <2>3. \A a \in u.obs[p] : \A q \in Result \ {p} : ~NameMatch(a, q)
    BY <1>1, <1>3, ZenonT(30) DEF AddedProblems, Result
  <2> QED BY <2>1, <2>2, <2>3
<1>4. ASSUME p \in Kept
      PROVE  /\ \A d \in u.req[p] : Satisfied(u, d, Result)
             /\ \A a \in u.con[p] : ~Provided(u, a, Result \ {p})
             /\ \A a \in u.obs[p] : \A q \in Result \ {p} : ~NameMatch(a, q)
  <2>0. p \in inst
    BY <1>4 DEF Kept
  <2>1. ASSUME NEW d \in u.req[p], ~Satisfied(u, d, Result) PROVE FALSE
    <3>1. Satisfied(u, d, inst)
      BY <2>0, Zenon DEF Closed
    <3>2. CASE \E q \in inst \ Result : \E c \in u.prov[q] : c[1] \in Keys(d) /\ InRange(d, c)
      <4>1. PICK q \in inst \ Result : \E c \in u.prov[q] : c[1] \in Keys(d) /\ InRange(d, c)
        BY <3>2
      <4>2. q \in Removed
        BY <4>1 DEF Result, Kept
      <4>3. <<p, d>> \in InstalledAgainstRemoved(q)
        BY <1>4, <2>1, <4>1 DEF InstalledAgainstRemoved
      <4> QED BY <1>2, <4>2, <4>3
    <3>3. CASE \E q \in Result \ inst : \E c \in u.prov[q] : c[1] \in NegKeys(d)
      <4>1. PICK q \in Result \ inst : \E c \in u.prov[q] : c[1] \in NegKeys(d)
        BY <3>3
      <4>2. q \in Added
        BY <4>1 DEF Result, Kept
      <4>3. <<p, d>> \in InstalledAgainstAdded(q)
        BY <1>4, <2>1, <4>1 DEF InstalledAgainstAdded
      <4> QED BY <1>1, <4>2, <4>3
    <3> QED BY <2>1, <3>1, <3>2, <3>3, LostRequirement
  <2>2. ASSUME NEW a \in u.con[p], Provided(u, a, Result \ {p}) PROVE FALSE
    <3>1. PICK q \in Result \ {p} : Match(u, a, q)
      BY <2>2 DEF Provided
    <3>2. q \notin Added
      <4>1. <<p, a>> \in InstalledAgainstAdded(q)
        BY <1>4, <3>1 DEF InstalledAgainstAdded
      <4> QED BY <1>1, <4>1
    <3>3. q \in inst \ {p}
      BY <3>1, <3>2 DEF Result, Kept
    <3> QED BY <2>0, <3>1, <3>3 DEF Closed, Provided
  <2>3. ASSUME NEW a \in u.obs[p], NEW q \in Result \ {p}, NameMatch(a, q) PROVE FALSE
    <3>1. q \notin Added
      <4>1. <<p, a>> \in InstalledAgainstAdded(q)
        BY <1>4, <2>3 DEF InstalledAgainstAdded
      <4> QED BY <1>1, <4>1
    <3>2. q \in inst \ {p}
      BY <3>1 DEF Result, Kept
    <3> QED BY <2>0, <2>3, <3>2, Zenon DEF Closed
  <2> QED BY <2>1, <2>2, <2>3
<1> QED BY <1>3, <1>4, SMTT(20) DEF Result

\* The inductive invariant: what is installed stays closed while the set is built.
IInv == Closed(u, inst) /\ CheckSound

\* rpmtsCheck() is sound: a set of any size, built by any requests, that it finds
\* no problem with leaves no requirement open, no conflict and no obsoleted
\* package, if there was none before.
THEOREM CheckIsSound == Spec => []CheckSound
<1>1. Init => IInv
  BY DEF Init, IInv, CheckSound
<1>2. IInv /\ [Next]_vars => IInv'
  <2> SUFFICES ASSUME IInv, [Next]_vars PROVE IInv'
    OBVIOUS
  <2>1. CASE UNCHANGED vars
    <3>1. u' = u /\ inst' = inst /\ order' = order /\ checked' = checked /\ problems' = problems
      BY <2>1 DEF vars
    <3> QED BY <3>1, Zenon DEF IInv, CheckSound,
                Result, Kept, Added, Removed, AddedTes, Elements
  <2>2. ASSUME NEW p, NEW op, AddPackage(p, op) PROVE IInv'
    <3>1. u' = u /\ inst' = inst /\ checked' = FALSE
      BY <2>2 DEF AddPackage, Request
    <3> QED BY <3>1, Zenon DEF IInv, CheckSound
  <2>3. CASE AddEraseElement
    <3>1. u' = u /\ inst' = inst /\ checked' = FALSE
      BY <2>3 DEF AddEraseElement, Request
    <3> QED BY <3>1, Zenon DEF IInv, CheckSound
  <2>4. CASE Check
    <3>0. u' = u /\ inst' = inst /\ order' = order
      BY <2>4 DEF Check
    <3>1. Closed(u, inst)'
      BY <3>0, Zenon DEF IInv
    <3>2. problems' = AllProblems
      BY <2>4 DEF Check, AllProblems
    <3>3. problems' = {} => Closed(u, Result)
      BY <3>2, NoProblemsClosed DEF IInv
    <3>4. Closed(u, Result) => Closed(u, Result)'
      BY <3>0, Zenon DEF Result, Kept, Added, Removed, AddedTes, Elements
    <3> QED BY <3>1, <3>3, <3>4 DEF IInv, CheckSound
  <2> QED BY <2>1, <2>2, <2>3, <2>4 DEF Next, AddInstallElement, AddReinstallElement
<1>3. IInv => CheckSound
  BY DEF IInv
<1> QED BY <1>1, <1>2, <1>3, PTL DEF Spec

----------------------------------------------------------------------------
\* Listing() lists the elements of a finite set, each once.
LEMMA SetListed ==
    ASSUME NEW S, IsFiniteSet(S), NEW t, t = Listing(S)
    PROVE  /\ t \in Seq(S)
           /\ \A i, j \in DOMAIN t : t[i] = t[j] => i = j
           /\ \A x \in S : \E i \in DOMAIN t : t[i] = x
<1> DEFINE n == Cardinality(S)
<1>1. n \in Nat /\ ExistsBijection(1 .. n, S)
  BY FS_CardinalityType, Zenon
<1>2. t \in Injection(1 .. n, S)
  BY <1>1, Zenon DEF Listing, ExistsBijection, Bijection
<1>3. t \in [1 .. n -> S] /\ IsInjective(t)
  BY <1>2, Zenon DEF Injection
<1>4. Cardinality(1 .. n) = n
  BY <1>1, FS_Interval
<1>5. t \in Surjection(1 .. n, S)
  BY <1>2, <1>4, FS_Injection, Zenon
<1>6. t \in Seq(S) /\ DOMAIN t = 1 .. n
  BY <1>1, <1>3
<1> QED BY <1>3, <1>5, <1>6, Zenon DEF IsInjective, Surjection

\* Elements with numbers up to n, the packages a set erases, and that it erases each once
ElementType(n) == [type : {"added", "removed"}, pkg : Packages, id : 0 .. n, dep : 0 .. n]
RemovedIn(o) == {o[i].pkg : i \in {j \in DOMAIN o : o[j].type = "removed"}}
Once(o) ==
    \A i, j \in DOMAIN o :
        o[i].type = "removed" /\ o[j].type = "removed" /\ o[i].pkg = o[j].pkg => i = j

\* r is o with erasures of packages of S appended
Grown(o, r, S) ==
    /\ DOMAIN o \subseteq DOMAIN r
    /\ \A i \in DOMAIN o : r[i].type = o[i].type /\ r[i].pkg = o[i].pkg
    /\ \A i \in DOMAIN r \ DOMAIN o : r[i].type = "removed" /\ r[i].pkg \in S

\* removePackage() for the packages of S appends what is not there yet: afterwards
\* all of S is erased, and still nothing twice.
LEMMA EraseGrows ==
    ASSUME NEW n \in Nat, NEW o \in Seq(ElementType(n)), NEW S \in SUBSET Packages, NEW dep \in 0 .. n,
           IsFiniteSet(Packages), Once(o), NEW r, r = Erase(o, S, dep)
    PROVE  /\ r \in Seq(ElementType(n))
           /\ Grown(o, r, S) /\ Once(r) /\ S \subseteq RemovedIn(r)
<1> DEFINE new == Listing(S \ RemovedIn(o))
           k == Len(o)
           l == Len(new)
           head == [i \in DOMAIN o |-> IF o[i].type = "removed" /\ o[i].pkg \in S /\ dep # 0
                                        THEN [o[i] EXCEPT !.dep = dep] ELSE o[i]]
           tail == [i \in DOMAIN new |-> Element("removed", new[i], 0, dep)]
<1>1. IsFiniteSet(S \ RemovedIn(o))
  BY FS_Subset, Zenon
<1>2. /\ new \in Seq(S \ RemovedIn(o))
      /\ \A i, j \in DOMAIN new : new[i] = new[j] => i = j
      /\ \A x \in S \ RemovedIn(o) : \E i \in DOMAIN new : new[i] = x
  BY <1>1, SetListed, Zenon
<1>3. r = head \o tail
  BY Zenon DEF Erase, RemovedIn
<1> HIDE DEF new
<1>4. k \in Nat /\ DOMAIN o = 1 .. k /\ l \in Nat /\ DOMAIN new = 1 .. l
  BY <1>2
<1>5. head \in Seq(ElementType(n)) /\ Len(head) = k
  <2>1. \A i \in 1 .. k : o[i] \in ElementType(n)
    BY <1>4
  <2>2. \A e \in ElementType(n) : [e EXCEPT !.dep = dep] \in ElementType(n)
    BY DEF ElementType
  <2>3. head \in [1 .. k -> ElementType(n)]
    BY <1>4, <2>1, <2>2
  <2> QED BY <1>4, <2>3
<1>6. tail \in Seq(ElementType(n)) /\ Len(tail) = l
  <2>1. \A i \in 1 .. l : new[i] \in Packages
    BY <1>2, <1>4
  <2>2. tail \in [1 .. l -> ElementType(n)]
    BY <1>4, <2>1 DEF ElementType, Element
  <2> QED BY <1>4, <2>2
<1>7. /\ \A i \in 1 .. k : head[i].type = o[i].type /\ head[i].pkg = o[i].pkg
      /\ \A i \in 1 .. l : tail[i].type = "removed" /\ tail[i].pkg = new[i]
  BY <1>4 DEF ElementType, Element
<1> HIDE DEF head, tail, k, l
<1>8. /\ r \in Seq(ElementType(n)) /\ Len(r) = k + l
      /\ \A i \in 1 .. k + l : r[i] = IF i <= k THEN head[i] ELSE tail[i - k]
  BY <1>3, <1>5, <1>6
<1>9. DOMAIN r = 1 .. k + l
  BY <1>8
<1>10. /\ \A i \in 1 .. k : r[i].type = o[i].type /\ r[i].pkg = o[i].pkg
       /\ \A i \in k + 1 .. k + l : i - k \in 1 .. l /\ r[i].type = "removed" /\ r[i].pkg = new[i - k]
  <2>1. ASSUME NEW i \in 1 .. k PROVE r[i] = head[i]
    BY <1>4, <1>8
  <2>2. ASSUME NEW i \in k + 1 .. k + l PROVE i - k \in 1 .. l /\ r[i] = tail[i - k]
    <3>1. i \in 1 .. k + l /\ ~(i <= k) /\ i - k \in 1 .. l
      BY <1>4
    <3> QED BY <1>8, <3>1
  <2> QED BY <1>7, <2>1, <2>2
<1>11. Grown(o, r, S)
  <2>1. \A i \in 1 .. l : new[i] \in S
    BY <1>2, <1>4
  <2> QED BY <1>4, <1>9, <1>10, <2>1 DEF Grown
<1>12. Once(r)
  <2> SUFFICES ASSUME NEW i \in 1 .. k + l, NEW j \in 1 .. k + l,
                      r[i].type = "removed", r[j].type = "removed", r[i].pkg = r[j].pkg
               PROVE  i = j
    BY <1>9 DEF Once
  <2>1. \A x \in 1 .. k : r[x].type = "removed" => r[x].pkg \in RemovedIn(o)
    BY <1>4, <1>10, SMTT(20) DEF RemovedIn
  <2>2. \A x \in k + 1 .. k + l : r[x].pkg \notin RemovedIn(o)
    <3>1. \A x \in 1 .. l : new[x] \notin RemovedIn(o)
      BY <1>2, <1>4
    <3> QED BY <1>10, <3>1
  <2>3. CASE i <= k /\ j <= k
    BY <1>4, <1>10, <2>3 DEF Once
  <2>4. CASE i > k /\ j > k
    <3>1. i \in k + 1 .. k + l /\ j \in k + 1 .. k + l
      BY <1>4, <2>4
    <3>2. i - k \in DOMAIN new /\ j - k \in DOMAIN new /\ new[i - k] = new[j - k]
      BY <1>4, <1>10, <3>1
    <3>3. i - k = j - k
      BY <1>2, <3>2, Zenon
    <3> QED BY <1>4, <3>3
  <2> QED BY <1>4, <2>1, <2>2, <2>3, <2>4
<1>13. S \subseteq RemovedIn(r)
  <2> SUFFICES ASSUME NEW x \in S PROVE \E i \in DOMAIN r : r[i].type = "removed" /\ r[i].pkg = x
    BY DEF RemovedIn
  <2>1. CASE x \in RemovedIn(o)
    BY <1>4, <1>9, <1>10, <2>1 DEF RemovedIn
  <2>2. CASE x \notin RemovedIn(o)
    <3>1. PICK i \in 1 .. l : new[i] = x
      BY <1>2, <1>4, <2>2
    <3>2. k + i \in k + 1 .. k + l /\ (k + i) - k = i
      BY <1>4
    <3>3. k + i \in DOMAIN r /\ r[k + i].type = "removed" /\ r[k + i].pkg = x
      BY <1>4, <1>9, <1>10, <3>1, <3>2
    <3> QED BY <3>3, Zenon
  <2> QED BY <2>1, <2>2
<1> QED BY <1>8, <1>11, <1>12, <1>13

\* So do two calls.
LEMMA GrownTwice ==
    ASSUME NEW o, NEW r, NEW z, NEW S, NEW T, Grown(o, r, S), Grown(r, z, T)
    PROVE  Grown(o, z, S \cup T)
  BY DEF Grown

\* What was erased still is, and nothing but S comes in addition.
LEMMA GrownRemoves ==
    ASSUME NEW o, NEW r, NEW S, Grown(o, r, S)
    PROVE  RemovedIn(o) \subseteq RemovedIn(r) /\ RemovedIn(r) \subseteq RemovedIn(o) \cup S
  BY DEF Grown, RemovedIn

\* addSelfErasures() and addObsoleteErasures() only append erasures of installed
\* packages, and after an upgrade no version of it is left out.
LEMMA ErasuresGrow ==
    ASSUME NEW n \in Nat, NEW o \in Seq(ElementType(n)), NEW id \in 0 .. n, NEW p, NEW op,
           IsFiniteSet(Packages), inst \subseteq Packages, Once(o), NEW r, r = AddErasures(o, p, op, id)
    PROVE  /\ r \in Seq(ElementType(n))
           /\ Grown(o, r, inst) /\ Once(r)
           /\ op = "upgrade" => \A q \in inst : Name[q] = Name[p] => q \in RemovedIn(r)
<1> DEFINE self == IF op = "install" THEN o ELSE Erase(o, SelfErasures(p, op), id)
           more == ObsoleteErasures(p) \ RemovedIn(self)
<1>1. /\ self \in Seq(ElementType(n)) /\ Once(self) /\ Grown(o, self, inst)
      /\ op = "upgrade" => SelfErasures(p, op) \subseteq RemovedIn(self)
  <2>1. CASE op = "install"
    BY <2>1 DEF Grown
  <2>2. CASE op # "install"
    <3>1. SelfErasures(p, op) \in SUBSET Packages /\ SelfErasures(p, op) \subseteq inst
      BY DEF SelfErasures
    <3>2. /\ self \in Seq(ElementType(n)) /\ Once(self) /\ Grown(o, self, SelfErasures(p, op))
          /\ SelfErasures(p, op) \subseteq RemovedIn(self)
      BY <2>2, <3>1, EraseGrows, Zenon
    <3> HIDE DEF self
    <3>3. Grown(o, self, inst)
      BY <3>1, <3>2 DEF Grown
    <3> QED BY <3>2, <3>3
  <2> QED BY <2>1, <2>2
<1>2. r = IF op = "upgrade" THEN Erase(self, more, id) ELSE self
  BY Zenon DEF AddErasures, RemovedIn
<1>3. more \in SUBSET Packages /\ more \subseteq inst
  BY DEF ObsoleteErasures
<1> HIDE DEF self, more
<1>4. CASE op = "upgrade"
  <2>1. /\ r \in Seq(ElementType(n)) /\ Grown(self, r, more) /\ Once(r)
    BY <1>1, <1>2, <1>3, <1>4, EraseGrows, Zenon
  <2>2. Grown(o, r, inst)
    <3>1. Grown(o, r, inst \cup more)
      BY <1>1, <2>1, GrownTwice, Zenon
    <3> QED BY <1>3, <3>1 DEF Grown
  <2>3. SelfErasures(p, op) \subseteq RemovedIn(r)
    BY <1>1, <1>4, <2>1, GrownRemoves
  <2>4. ASSUME NEW q \in inst, Name[q] = Name[p] PROVE q \in RemovedIn(r)
    BY <1>4, <2>3, <2>4 DEF SelfErasures
  <2> QED BY <2>1, <2>2, <2>4
<1>5. CASE op # "upgrade"
  BY <1>1, <1>2, <1>5
<1> QED BY <1>4, <1>5

----------------------------------------------------------------------------
(***************************************************************************)
(* The elements agree.  In a set that only upgrades made, an element that  *)
(* stands twice for a name is one that took the place of an obsoleted one, *)
(* and what is installed under the name of an element is erased.  To carry *)
(* that through a request, the packages of the elements must be known to   *)
(* be requested: the obsoleted one is what findPos() was led astray by.    *)
(***************************************************************************)

Requested(p) == \E k \in DOMAIN requests : requests[k].pkg = p

OneElement ==
    \A i, j \in DOMAIN order :
        order[i].type = "added" /\ order[j].type = "added" /\ Name[order[i].pkg] = Name[order[j].pkg]
            => i = j \/ ObsoletesRequested(Name[order[i].pkg])
AddedReplaces ==
    \A i \in DOMAIN order, q \in inst :
        order[i].type = "added" /\ Name[order[i].pkg] = Name[q] => q \in Removed

\* The inductive invariant.
SetInv ==
    /\ TypeOK /\ ErasedOnce
    /\ last <= Len(requests) /\ Len(requests) <= MaxRequests
    /\ \A i \in DOMAIN order : order[i].type = "added" => Requested(order[i].pkg)
    /\ UpgradesOnly => OneElement /\ AddedReplaces

RequestType == [op : {"install", "upgrade", "reinstall", "erase"}, pkg : Packages]

\* What one more request makes true, and what it does not make false.
LEMMA RequestMade ==
    ASSUME requests \in Seq(RequestType), NEW r \in RequestType, Request(r)
    PROVE  /\ requests' \in Seq(RequestType) /\ Len(requests') = Len(requests) + 1 /\ Len(requests) \in Nat
           /\ UpgradesOnly' => UpgradesOnly /\ r.op = "upgrade"
           /\ \A n : ObsoletesRequested(n) => ObsoletesRequested(n)'
           /\ \A p : Requested(p) => Requested(p)'
           /\ Requested(r.pkg)'
           /\ \A p : Requested(p) /\ Name[p] # Name[r.pkg] /\ (\E a \in u.obs[r.pkg] : NameMatch(a, p))
                    => ObsoletesRequested(Name[r.pkg])'
<1> DEFINE l == Len(requests) + 1
<1>1. requests' = Append(requests, r) /\ u' = u
  BY DEF Request
<1>2. /\ requests' \in Seq(RequestType) /\ Len(requests') = l /\ Len(requests) \in Nat
      /\ DOMAIN requests = 1 .. Len(requests) /\ DOMAIN requests' = 1 .. l
      /\ \A k \in 1 .. Len(requests) : requests'[k] = requests[k]
      /\ requests'[l] = r
  BY <1>1
<1>3. /\ \A k \in DOMAIN requests : k \in DOMAIN requests' /\ requests'[k] = requests[k]
      /\ l \in DOMAIN requests'
  BY <1>2
<1> HIDE DEF l
<1>4. UpgradesOnly' => UpgradesOnly /\ r.op = "upgrade"
  BY <1>2, <1>3 DEF UpgradesOnly
<1>5. \A n : ObsoletesRequested(n) => ObsoletesRequested(n)'
  BY <1>1, <1>3, Zenon DEF ObsoletesRequested
<1>6. (\A p : Requested(p) => Requested(p)') /\ Requested(r.pkg)'
  BY <1>2, <1>3, Zenon DEF Requested
<1>7. ASSUME NEW p, Requested(p), Name[p] # Name[r.pkg], \E a \in u.obs[r.pkg] : NameMatch(a, p)
      PROVE  ObsoletesRequested(Name[r.pkg])'
  <2>1. PICK k \in DOMAIN requests : requests[k].pkg = p
    BY <1>7 DEF Requested
  <2>2. /\ l \in DOMAIN requests' /\ k \in DOMAIN requests'
        /\ requests'[l].pkg = r.pkg /\ requests'[k].pkg = p
    BY <1>2, <1>3, <2>1
  <2> QED BY <1>1, <1>7, <2>2, Zenon DEF ObsoletesRequested
<1> QED BY <1>2, <1>4, <1>5, <1>6, <1>7 DEF l

\* e stands at place i of o, which has the elements of the set at the others
Placed(o, i, e) ==
    /\ DOMAIN o = DOMAIN order \cup {i} /\ o[i] = e
    /\ \A j \in DOMAIN order \ {i} : o[j] = order[j]

\* addPackage() places the new element at the end or where findPos() says.
LEMMA ElementPlaced ==
    ASSUME SetInv, NEW p \in Packages, NEW op, NEW e, e = Element("added", p, last + 1, 0),
           ~Skipped(p, op), AddPackage(p, op)
    PROVE  \E o, i :
             /\ o \in Seq(ElementType(last + 1)) /\ Placed(o, i, e)
             /\ order' = AddErasures(o, p, op, last + 1)
             /\ \/ i \in DOMAIN order /\ order[i] \in Replaceable(p, op)
                \/ i \notin DOMAIN order /\ Replaceable(p, op) = {}
<1>1. /\ order \in Seq(ElementType(last)) /\ last \in Nat
  BY DEF SetInv, TypeOK, ElementType
<1>2. e \in ElementType(last + 1) /\ e.id = last + 1
  BY <1>1 DEF ElementType, Element
<1>3. order \in Seq(ElementType(last + 1))
  <2>1. ElementType(last) \subseteq ElementType(last + 1)
    BY <1>1 DEF ElementType
  <2> QED BY <1>1, <2>1
<1>4. Len(order) \in Nat /\ DOMAIN order = 1 .. Len(order)
  BY <1>1
<1>5. CASE Replaceable(p, op) = {} /\ order' = AddErasures(Append(order, e), p, op, e.id)
  <2> DEFINE o == Append(order, e)
             i == Len(order) + 1
  <2>1. /\ o \in Seq(ElementType(last + 1)) /\ DOMAIN o = 1 .. i /\ o[i] = e
        /\ \A j \in 1 .. Len(order) : o[j] = order[j]
    BY <1>2, <1>3, <1>4
  <2> HIDE DEF o
  <2>2. Placed(o, i, e) /\ i \notin DOMAIN order
    BY <1>4, <2>1 DEF Placed
  <2>3. order' = AddErasures(o, p, op, last + 1)
    BY <1>2, <1>5 DEF o
  <2> HIDE DEF i
  <2> QED BY <1>5, <2>1, <2>2, <2>3, Zenon
<1>6. CASE \E i \in DOMAIN order :
              /\ order[i] \in Replaceable(p, op)
              /\ order' = AddErasures([order EXCEPT ![i] = e], p, op, e.id)
  <2>1. PICK i \in DOMAIN order :
          /\ order[i] \in Replaceable(p, op)
          /\ order' = AddErasures([order EXCEPT ![i] = e], p, op, e.id)
    BY <1>6
  <2> DEFINE o == [order EXCEPT ![i] = e]
  <2>2. o \in Seq(ElementType(last + 1)) /\ DOMAIN o = DOMAIN order /\ o[i] = e
    BY <1>2, <1>3
  <2>3. \A j \in DOMAIN order \ {i} : o[j] = order[j]
    OBVIOUS
  <2>4. order' = AddErasures(o, p, op, last + 1)
    BY <1>2, <2>1
  <2> HIDE DEF o
  <2>5. Placed(o, i, e)
    BY <2>2, <2>3, Zenon DEF Placed
  <2> QED BY <2>1, <2>2, <2>4, <2>5, Zenon
<1> QED BY <1>5, <1>6 DEF AddPackage

\* The erased packages of a set, defined in two ways.
LEMMA RemovedView ==
    ASSUME NEW n, NEW o \in Seq(ElementType(n))
    PROVE  LET es == {o[i] : i \in DOMAIN o}
           IN {e.pkg : e \in es \ {e \in es : e.type = "added"}} = RemovedIn(o)
<1>1. \A i \in DOMAIN o : o[i].type # "added" <=> o[i].type = "removed"
  <2>1. \A i \in DOMAIN o : o[i] \in ElementType(n)
    OBVIOUS
  <2>2. \A e \in ElementType(n) : e.type \in {"added", "removed"}
    BY DEF ElementType
  <2> QED BY <2>1, <2>2
<1> QED BY <1>1 DEF RemovedIn

\* If an upgrade is placed and another element has its name, either one of that
\* name took the place of an obsoleted package before, or this one does now.
LEMMA SameNameAdded ==
    ASSUME SetInv, UpgradesOnly, NEW p \in Packages, ~Skipped(p, "upgrade"), NEW i, NEW j \in DOMAIN order, i # j,
           Request([op |-> "upgrade", pkg |-> p]),
           \/ i \in DOMAIN order /\ order[i] \in Replaceable(p, "upgrade")
           \/ i \notin DOMAIN order /\ Replaceable(p, "upgrade") = {},
           order[j].type = "added", Name[order[j].pkg] = Name[p]
    PROVE  ObsoletesRequested(Name[p])'
<1> DEFINE r == [op |-> "upgrade", pkg |-> p]
<1>1. /\ order \in Seq(ElementType(last)) /\ requests \in Seq(RequestType) /\ r \in RequestType
  BY DEF SetInv, TypeOK, ElementType, RequestType
<1>2. /\ \A n : ObsoletesRequested(n) => ObsoletesRequested(n)'
      /\ \A q : Requested(q) /\ Name[q] # Name[p] /\ (\E a \in u.obs[p] : NameMatch(a, q))
               => ObsoletesRequested(Name[p])'
  BY <1>1, RequestMade, Zenon
<1>3. order[j] \in AddedTes /\ order[j].pkg \in Packages
  <2>1. order[j] \in ElementType(last)
    BY <1>1
  <2> QED BY <2>1 DEF AddedTes, Elements, ElementType
<1>4. Ver[order[j].pkg] \in Nat /\ Ver[p] \in Nat
  BY <1>3, DependsAssumption
<1>5. CASE i \notin DOMAIN order /\ Replaceable(p, "upgrade") = {}
  <2>1. Obsoleting(p) = {} /\ OlderAdded(p) = {}
    BY <1>5 DEF Replaceable
  <2>2. SameAdded(p) = {} /\ NewerAdded(p) = {}
    BY <2>1 DEF Skipped
  <2>3. ~(Ver[order[j].pkg] < Ver[p]) /\ ~(Ver[order[j].pkg] > Ver[p]) /\ Ver[order[j].pkg] # Ver[p]
    BY <1>3, <2>1, <2>2 DEF OlderAdded, SameAdded, NewerAdded
  <2> QED BY <1>4, <2>3
<1>6. CASE i \in DOMAIN order /\ order[i] \in Replaceable(p, "upgrade")
  <2>1. order[i].type = "added" /\ Requested(order[i].pkg)
    <3>1. order[i] \in AddedTes
      BY <1>6 DEF Replaceable, Obsoleting, OlderAdded
    <3> QED BY <1>6, <3>1 DEF AddedTes, SetInv
  <2>2. CASE Name[order[i].pkg] = Name[p]
    <3>1. OneElement
      BY DEF SetInv
    <3>2. ObsoletesRequested(Name[p])
      BY <1>6, <2>1, <2>2, <3>1, Zenon DEF OneElement
    <3> QED BY <1>2, <3>2, Zenon
  <2>3. CASE Name[order[i].pkg] # Name[p]
    <3>1. order[i] \in Obsoleting(p)
      BY <1>6, <2>3 DEF Replaceable, OlderAdded
    <3>2. \E a \in u.obs[p] : NameMatch(a, order[i].pkg)
      BY <3>1, Zenon DEF Obsoleting
    <3> QED BY <1>2, <2>1, <2>3, <3>2, Zenon
  <2> QED BY <2>2, <2>3
<1> QED BY <1>5, <1>6

\* addPackage() of a package that is not skipped.
LEMMA PlacedInv ==
    ASSUME SetInv, NEW p \in Packages, NEW op \in {"install", "upgrade", "reinstall"},
           ~Skipped(p, op), AddPackage(p, op)
    PROVE  SetInv'
<1> DEFINE e == Element("added", p, last + 1, 0)
           r == [op |-> op, pkg |-> p]
           n == last + 1
<1>1. /\ order \in Seq(ElementType(last)) /\ requests \in Seq(RequestType) /\ r \in RequestType
      /\ last \in Nat /\ MaxRequests \in Nat /\ IsFiniteSet(Packages) /\ inst \subseteq Packages
      /\ Removed \subseteq inst /\ Once(order) /\ u \in Universes
  BY DependsAssumption DEF SetInv, TypeOK, ElementType, RequestType, ErasedOnce, Once
<1>2. PICK o, i :
        /\ o \in Seq(ElementType(n)) /\ Placed(o, i, e)
        /\ order' = AddErasures(o, p, op, n)
        /\ \/ i \in DOMAIN order /\ order[i] \in Replaceable(p, op)
           \/ i \notin DOMAIN order /\ Replaceable(p, op) = {}
  BY ElementPlaced, Zenon
<1>3. e.type = "added" /\ e.pkg = p
  BY DEF Element
<1> HIDE DEF e
<1>4. RemovedIn(o) = RemovedIn(order) /\ Once(o)
  <2>1. i \in DOMAIN order => order[i].type = "added"
    BY <1>2 DEF Replaceable, Obsoleting, OlderAdded, AddedTes
  <2>2. \A j \in DOMAIN o : o[j].type = "removed" => j \in DOMAIN order /\ o[j] = order[j]
    BY <1>2, <1>3 DEF Placed
  <2>3. \A j \in DOMAIN order : order[j].type = "removed" => j \in DOMAIN o /\ o[j] = order[j]
    BY <1>2, <2>1 DEF Placed
  <2>4. RemovedIn(o) = RemovedIn(order)
    BY <2>2, <2>3 DEF RemovedIn
  <2>5. Once(o)
    BY <1>1, <2>2 DEF Once
  <2> QED BY <2>4, <2>5
<1>5. /\ order' \in Seq(ElementType(n)) /\ Grown(o, order', inst) /\ Once(order')
      /\ op = "upgrade" => \A q \in inst : Name[q] = Name[p] => q \in RemovedIn(order')
  BY <1>1, <1>2, <1>4, ErasuresGrow
<1>6. /\ u' = u /\ inst' = inst /\ last' = n /\ checked' = FALSE /\ Len(requests) < MaxRequests
      /\ Request(r)
  BY <1>3 DEF AddPackage, Request, Element, e
<1>7. /\ requests' \in Seq(RequestType) /\ Len(requests') = Len(requests) + 1 /\ Len(requests) \in Nat
      /\ UpgradesOnly' => UpgradesOnly /\ op = "upgrade"
      /\ \A x : ObsoletesRequested(x) => ObsoletesRequested(x)'
      /\ \A q : Requested(q) => Requested(q)'
      /\ Requested(p)'
  BY <1>1, <1>6, RequestMade
<1>8. Removed' = RemovedIn(order') /\ Removed = RemovedIn(order)
  <2>1. Removed = RemovedIn(order)
    BY <1>1, RemovedView, Zenon DEF Removed, AddedTes, Elements
  <2>2. Removed' = RemovedIn(order')
    BY <1>5, RemovedView, Zenon DEF Removed, AddedTes, Elements
  <2> QED BY <2>1, <2>2
<1>9. RemovedIn(order) \subseteq RemovedIn(order') /\ RemovedIn(order') \subseteq inst
  BY <1>1, <1>4, <1>5, <1>8, GrownRemoves
<1>10. TypeOK' /\ ErasedOnce' /\ (last <= Len(requests) /\ Len(requests) <= MaxRequests)'
  <2>0. last <= Len(requests)
    BY Zenon DEF SetInv
  <2>1. last' \in 0 .. MaxRequests /\ last' <= Len(requests') /\ Len(requests') <= MaxRequests
    BY <1>1, <1>6, <1>7, <2>0
  <2>2. TypeOK'
    BY <1>1, <1>5, <1>6, <1>7, <1>8, <1>9, <2>1, Zenon DEF TypeOK, ElementType, RequestType
  <2> QED BY <1>5, <2>1, <2>2 DEF ErasedOnce, Once
<1>11. ASSUME NEW j \in DOMAIN order', order'[j].type = "added"
       PROVE  \/ j = i /\ order'[j].pkg = p
              \/ j # i /\ j \in DOMAIN order /\ order[j].type = "added" /\ order'[j].pkg = order[j].pkg
  <2>1. j \in DOMAIN o /\ o[j].type = "added" /\ o[j].pkg = order'[j].pkg
    BY <1>5, <1>11 DEF Grown
  <2> QED BY <1>2, <1>3, <2>1 DEF Placed
<1>12. ASSUME NEW j \in DOMAIN order', order'[j].type = "added", NEW q, q = order'[j].pkg
       PROVE  Requested(q)'
  BY <1>7, <1>11, <1>12 DEF SetInv
<1>13. ASSUME UpgradesOnly' PROVE OneElement'
  <2> SUFFICES ASSUME NEW j \in DOMAIN order', NEW k \in DOMAIN order', j # k,
                      order'[j].type = "added", order'[k].type = "added",
                      NEW x, x = Name[order'[j].pkg], x = Name[order'[k].pkg]
               PROVE  ObsoletesRequested(x)'
    BY DEF OneElement, ObsoletesRequested
  <2>1. UpgradesOnly /\ op = "upgrade"
    BY <1>7, <1>13
  <2>2. ASSUME NEW y \in DOMAIN order, y # i, order[y].type = "added", Name[order[y].pkg] = Name[p]
        PROVE  ObsoletesRequested(Name[p])'
    BY <1>2, <1>6, <2>1, <2>2, SameNameAdded, Zenon
  <2>3. CASE j # i /\ k # i
    <3>1. ObsoletesRequested(x)
      BY <1>11, <2>1, <2>3, Zenon DEF SetInv, OneElement
    <3> QED BY <1>7, <3>1, Zenon
  <2>4. CASE j = i
    BY <1>11, <2>2, <2>4, Zenon
  <2>5. CASE k = i
    BY <1>11, <2>2, <2>5, Zenon
  <2> QED BY <2>3, <2>4, <2>5
<1>14. ASSUME UpgradesOnly' PROVE AddedReplaces'
  <2> SUFFICES ASSUME NEW j \in DOMAIN order', NEW q \in inst, order'[j].type = "added",
                      Name[order'[j].pkg] = Name[q]
               PROVE  q \in RemovedIn(order')
    BY <1>6, <1>8 DEF AddedReplaces
  <2>1. UpgradesOnly /\ op = "upgrade"
    BY <1>7, <1>14
  <2>2. CASE j = i
    BY <1>5, <1>11, <2>1, <2>2
  <2>3. CASE j # i
    <3>1. q \in Removed
      BY <1>11, <2>1, <2>3 DEF SetInv, AddedReplaces
    <3> QED BY <1>8, <1>9, <3>1
  <2> QED BY <2>2, <2>3
<1>15. (\A j \in DOMAIN order : order[j].type = "added" => Requested(order[j].pkg))'
  BY <1>12 DEF Requested
<1> QED BY <1>10, <1>13, <1>14, <1>15 DEF SetInv

\* A package that findPos() skips changes nothing but the requests.
LEMMA SkippedInv ==
    ASSUME SetInv, NEW r \in RequestType, Request(r), UNCHANGED <<order, last>>
    PROVE  SetInv'
<1>1. requests \in Seq(RequestType) /\ last \in Nat /\ MaxRequests \in Nat
  BY DependsAssumption DEF SetInv, TypeOK, RequestType
<1>2. /\ requests' \in Seq(RequestType) /\ Len(requests') = Len(requests) + 1 /\ Len(requests) \in Nat
      /\ UpgradesOnly' => UpgradesOnly
      /\ \A x : ObsoletesRequested(x) => ObsoletesRequested(x)'
      /\ \A q : Requested(q) => Requested(q)'
  BY <1>1, RequestMade
<1>3. u' = u /\ inst' = inst /\ checked' = FALSE /\ Len(requests) < MaxRequests
  BY DEF Request
<1>4. Removed' = Removed
  BY DEF Removed, AddedTes, Elements
<1>5. TypeOK' /\ ErasedOnce' /\ (last <= Len(requests) /\ Len(requests) <= MaxRequests)'
  <2>1. TypeOK'
    BY <1>2, <1>3, <1>4, Zenon DEF SetInv, TypeOK, RequestType
  <2>2. ErasedOnce'
    BY DEF SetInv, ErasedOnce
  <2>3. last' <= Len(requests') /\ Len(requests') <= MaxRequests
    BY <1>1, <1>2, <1>3 DEF SetInv
  <2> QED BY <2>1, <2>2, <2>3
<1>6. (\A i \in DOMAIN order : order[i].type = "added" => Requested(order[i].pkg))'
  <2>1. \A i \in DOMAIN order : order[i].type = "added" => Requested(order[i].pkg)'
    BY <1>2 DEF SetInv
  <2> QED BY <2>1 DEF Requested
<1>7. ASSUME UpgradesOnly' PROVE OneElement' /\ AddedReplaces'
  <2>1. OneElement /\ AddedReplaces
    BY <1>2, <1>7 DEF SetInv
  <2>2. AddedReplaces'
    BY <1>3, <1>4, <2>1 DEF AddedReplaces
  <2>3. ASSUME NEW i \in DOMAIN order, NEW j \in DOMAIN order, i # j, order[i].type = "added",
               order[j].type = "added", NEW x, x = Name[order[i].pkg], x = Name[order[j].pkg]
        PROVE  ObsoletesRequested(x)'
    BY <1>2, <2>1, <2>3, Zenon DEF OneElement
  <2>4. OneElement'
    BY <2>3 DEF OneElement, ObsoletesRequested
  <2> QED BY <2>2, <2>4
<1> QED BY <1>5, <1>6, <1>7 DEF SetInv

\* removePackage() on request.
LEMMA EraseInv ==
    ASSUME SetInv, AddEraseElement
    PROVE  SetInv'
<1>1. PICK p \in inst :
        /\ Request([op |-> "erase", pkg |-> p])
        /\ order' = Erase(order, {p}, 0)
        /\ UNCHANGED last
  BY DEF AddEraseElement
<1> DEFINE r == [op |-> "erase", pkg |-> p]
<1>2. /\ order \in Seq(ElementType(last)) /\ requests \in Seq(RequestType) /\ r \in RequestType
      /\ last \in Nat /\ MaxRequests \in Nat /\ IsFiniteSet(Packages) /\ inst \subseteq Packages
      /\ Removed \subseteq inst /\ Once(order) /\ u \in Universes
  BY DependsAssumption DEF SetInv, TypeOK, ElementType, RequestType, ErasedOnce, Once
<1>3. order' \in Seq(ElementType(last)) /\ Grown(order, order', {p}) /\ Once(order')
  <2>1. {p} \in SUBSET Packages /\ 0 \in 0 .. last
    BY <1>2
  <2> QED BY <1>1, <1>2, <2>1, EraseGrows, Zenon
<1>4. /\ requests' \in Seq(RequestType) /\ Len(requests') = Len(requests) + 1 /\ Len(requests) \in Nat
      /\ ~UpgradesOnly'
      /\ \A q : Requested(q) => Requested(q)'
  BY <1>1, <1>2, RequestMade
<1>5. u' = u /\ inst' = inst /\ last' = last /\ checked' = FALSE /\ Len(requests) < MaxRequests
  BY <1>1 DEF Request
<1>6. Removed' \subseteq inst
  <2>1. Removed = RemovedIn(order)
    BY <1>2, RemovedView, Zenon DEF Removed, AddedTes, Elements
  <2>2. Removed' = RemovedIn(order')
    BY <1>3, RemovedView, Zenon DEF Removed, AddedTes, Elements
  <2> QED BY <1>1, <1>2, <1>3, <2>1, <2>2, GrownRemoves
<1>7. TypeOK' /\ ErasedOnce' /\ (last <= Len(requests) /\ Len(requests) <= MaxRequests)'
  <2>0. last <= Len(requests)
    BY Zenon DEF SetInv
  <2>1. last' <= Len(requests') /\ Len(requests') <= MaxRequests
    BY <1>2, <1>4, <1>5, <2>0
  <2>2. TypeOK'
    BY <1>2, <1>3, <1>4, <1>5, <1>6, Zenon DEF SetInv, TypeOK, ElementType, RequestType
  <2> QED BY <1>3, <2>1, <2>2 DEF ErasedOnce, Once
<1>8. (\A i \in DOMAIN order : order[i].type = "added" => Requested(order[i].pkg))'
  <2>1. ASSUME NEW i \in DOMAIN order', order'[i].type = "added", NEW q, q = order'[i].pkg PROVE Requested(q)'
    <3>1. i \in DOMAIN order /\ order[i].type = "added" /\ order[i].pkg = q
      BY <1>3, <2>1 DEF Grown
    <3> QED BY <1>4, <3>1 DEF SetInv
  <2> QED BY <2>1 DEF Requested
<1> QED BY <1>4, <1>7, <1>8 DEF SetInv

\* Every request, and rpmtsCheck(), keeps the invariant.
LEMMA NextSetInv == SetInv /\ [Next]_vars => SetInv'
<1> SUFFICES ASSUME SetInv, [Next]_vars PROVE SetInv'
  OBVIOUS
<1>1. ASSUME NEW p \in Packages, NEW op \in {"install", "upgrade", "reinstall"}, AddPackage(p, op)
      PROVE  SetInv'
  <2>1. CASE Skipped(p, op)
    <3>1. [op |-> op, pkg |-> p] \in RequestType /\ Request([op |-> op, pkg |-> p]) /\ UNCHANGED <<order, last>>
      BY <1>1, <2>1 DEF AddPackage, RequestType
    <3> QED BY <3>1, SkippedInv
  <2>2. CASE ~Skipped(p, op)
    BY <1>1, <2>2, PlacedInv
  <2> QED BY <2>1, <2>2
<1>2. CASE AddEraseElement
  BY <1>2, EraseInv
<1>3. CASE Check \/ UNCHANGED vars
  <2>1. /\ u' = u /\ inst' = inst /\ order' = order /\ last' = last /\ requests' = requests
        /\ checked' \in BOOLEAN
    BY <1>3, Zenon DEF Check, vars, SetInv, TypeOK
  <2>2. Removed' = Removed
    BY <2>1 DEF Removed, AddedTes, Elements
  <2>3. TypeOK'
    BY <2>1, <2>2 DEF SetInv, TypeOK
  <2>4. ErasedOnce' /\ (last <= Len(requests) /\ Len(requests) <= MaxRequests)'
    BY <2>1 DEF SetInv, ErasedOnce
  <2>5. (\A i \in DOMAIN order : order[i].type = "added" => Requested(order[i].pkg))'
    BY <2>1 DEF SetInv, Requested
  <2>6. (UpgradesOnly => OneElement /\ AddedReplaces)'
    BY <2>1, <2>2 DEF SetInv, UpgradesOnly, OneElement, AddedReplaces, ObsoletesRequested
  <2> QED BY <2>3, <2>4, <2>5, <2>6 DEF SetInv
<1> QED BY <1>1, <1>2, <1>3 DEF Next, AddInstallElement, AddReinstallElement

\* An empty set.
LEMMA InitSetInv == Init => SetInv
<1> SUFFICES ASSUME Init PROVE SetInv
  OBVIOUS
<1>1. order = <<>> /\ requests = <<>> /\ last = 0 /\ MaxRequests \in Nat
  BY DependsAssumption DEF Init
<1>2. DOMAIN order = {} /\ Len(requests) = 0
  BY <1>1
<1>3. Removed = {}
  BY <1>2 DEF Removed, AddedTes, Elements
<1>4. TypeOK
  <2>1. u \in Universes /\ inst \subseteq Packages /\ Removed \subseteq inst /\ checked \in BOOLEAN
    BY <1>3, Zenon DEF Init
  <2>2. \A S : order \in Seq(S) /\ requests \in Seq(S)
    BY <1>1
  <2>3. last \in 0 .. MaxRequests
    BY <1>1
  <2> QED BY <2>1, <2>2, <2>3, Zenon DEF TypeOK
<1>5. last <= Len(requests) /\ Len(requests) <= MaxRequests
  BY <1>1, <1>2
<1>6. \A i : i \notin DOMAIN order
  BY <1>2
<1> QED BY <1>4, <1>5, <1>6, Zenon DEF SetInv, ErasedOnce, OneElement, AddedReplaces

\* The invariant is what the elements agree on.
LEMMA SetInvAgrees == SetInv => ElementsAgree
<1> SUFFICES ASSUME SetInv, UpgradesOnly, OneVersion(inst) PROVE
        /\ OneElement
        /\ \A p, q \in Result : Name[p] = Name[q] => p = q \/ ObsoletesRequested(Name[p])
  BY DEF ElementsAgree, UpgradeKeepsOneVersion, OneElement, SetInv
<1>1. OneElement /\ AddedReplaces
  BY DEF SetInv
<1>2. \A p \in Added : \E i \in DOMAIN order : order[i].type = "added" /\ order[i].pkg = p
  BY DEF Added, AddedTes, Elements
<1>3. ASSUME NEW p \in Added, NEW q \in Kept PROVE Name[p] # Name[q]
  BY <1>1, <1>2, <1>3 DEF AddedReplaces, Kept
<1>4. ASSUME NEW p \in Added, NEW q \in Added, Name[p] = Name[q], p # q
      PROVE  ObsoletesRequested(Name[p])
  BY <1>1, <1>2, <1>4 DEF OneElement
<1>5. ASSUME NEW p \in Kept, NEW q \in Kept, Name[p] = Name[q] PROVE p = q
  BY <1>5 DEF Kept, OneVersion
<1> QED BY <1>1, <1>3, <1>4, <1>5 DEF Result

\* Whatever is requested by rpmtsAddInstallElement(), rpmtsAddReinstallElement()
\* and rpmtsAddEraseElement(), and however often: an installed package is erased
\* once, and upgrades leave one version and one element of each name, except where
\* a package obsoletes another that was requested.
THEOREM ElementsAlwaysAgree == Spec => []ElementsAgree
<1> QED BY InitSetInv, NextSetInv, SetInvAgrees, PTL DEF Spec
=============================================================================
