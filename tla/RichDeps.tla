------------------------------ MODULE RichDeps -----------------------------
(***************************************************************************)
(* Boolean ("rich") dependencies: the parser of lib/rpmds.cc, how it takes *)
(* a dependency apart into two operands, and how lib/depends.cc decides    *)
(* with that whether the dependency is satisfied.  A dependency is a       *)
(* sequence of words and parentheses, as SKIPNONWHITEX tells them apart.   *)
(***************************************************************************)
EXTENDS Integers, Sequences, FiniteSets, SequencesExt

Ops == {"and", "or", "if", "unless", "else", "with", "without"}
Comparisons == {"<", "=", ">="}

Word(ts, p) == IF p \in DOMAIN ts THEN ts[p] ELSE ""
Failed == [ok |-> FALSE, p |-> 0, check |-> {}, items |-> <<>>]

\* parseSimpleDep(): where the dependency that starts at p ends, 0 on an error
SimpleDep(ts, p) ==
    IF Word(ts, p) = "" THEN 0
    ELSE IF Word(ts, p + 1) \notin Comparisons THEN p + 1
    ELSE IF Word(ts, p + 2) \in {"", ")"} THEN 0 ELSE p + 3

\* rpmrichParseCheck(): is the operator allowed above what check tells of?
CheckOk(op, check) ==
    /\ ~(op \in {"with", "without"} /\ "NO_WITH" \in check)
    /\ "CHECK" \in check =>
          /\ ~(op \in {"and", "if"} /\ "NO_AND" \in check)
          /\ ~(op \in {"or", "unless"} /\ "NO_OR" \in check)

\* What a level tells the one above it
CheckAfter(firstop, op, check) ==
    LET context == check \cup (IF firstop = "if" THEN {"NO_OR"} ELSE {})
                         \cup (IF firstop = "unless" THEN {"NO_AND"} ELSE {})
    IN (IF op \in {"and", "or"} THEN context \ {"NO_AND", "NO_OR"} ELSE context)
       \cup (IF op \in {"", "with", "without", "or"} THEN {} ELSE {"NO_WITH"})

\* Which operator may follow in a chain
MayFollow(op, chainop) ==
    LET chain == IF op = "else" /\ chainop \in {"if", "unless"} THEN "" ELSE chainop
    IN chain # "" => op = chain /\ op \in {"and", "or", "with"}

RECURSIVE ParseRich(_, _, _), ParseOperands(_, _)

\* rpmrichParseInternal(): items are the operands and operators of this level that the
\* callback is told of, [from, to] of the operands
ParseRich(ts, p, check) ==
    IF Word(ts, p) # "(" THEN Failed
    ELSE ParseOperands(ts, [p |-> p + 1, op |-> "", firstop |-> "", chainop |-> "",
                            check |-> check, items |-> <<>>])
ParseOperands(ts, s) ==
    LET Next(end, op, check, items) ==
            IF Word(ts, s.p) = ")" \/ end = 0 \/ op = "" THEN Failed
            ELSE IF op = ")"
            THEN IF CheckOk(s.firstop, check)
                 THEN [ok |-> TRUE, p |-> end + 1, check |-> CheckAfter(s.firstop, s.op, check), items |-> items]
                 ELSE Failed
            ELSE IF op \notin Ops \/ ~MayFollow(op, s.chainop) THEN Failed
            ELSE ParseOperands(ts, [p |-> end + 1, op |-> op,
                                    firstop |-> IF s.firstop = "" THEN op ELSE s.firstop,
                                    chainop |-> op, check |-> check,
                                    items |-> Append(items, [op |-> op])])
        After(sub) ==
            Next(sub.p, Word(ts, sub.p),
                 s.check \cup (IF s.op \in {"if", "unless"}
                               THEN sub.check \ {"NO_AND", "NO_OR"} ELSE sub.check),
                 Append(s.items, [from |-> s.p, to |-> sub.p - 1]))
    IN After(IF Word(ts, s.p) = "(" THEN ParseRich(ts, s.p, s.check \cap {"CHECK"})
             ELSE [Failed EXCEPT !.p = SimpleDep(ts, s.p)])

\* rpmrichParseForTag(), and nothing may follow
ParseForTag(ts, tag) ==
    LET Accepted(r) ==
            /\ r.ok /\ r.p = Len(ts) + 1
            /\ CheckOk(IF tag \in {"Conflicts", "Supplements", "Enhances"} THEN "or" ELSE "and", r.check)
    IN Accepted(ParseRich(ts, 1, {"CHECK"}))

\* rpmdsParseRichDep(): the first operand, and the second or, in a chain, all the others
\* as a dependency of their own
Split(ts) ==
    LET Part(item) == SubSeq(ts, item.from, item.to)
        Parts(r) ==
            IF ~r.ok \/ r.p # Len(ts) + 1 THEN [ok |-> FALSE]
            ELSE IF Len(r.items) = 1
            THEN [ok |-> TRUE, op |-> "", left |-> Part(r.items[1]), right |-> <<>>]
            ELSE [ok |-> TRUE, op |-> r.items[2].op, left |-> Part(r.items[1]),
                  right |-> IF Len(r.items) = 3 THEN Part(r.items[3])
                            ELSE <<"(">> \o SubSeq(ts, r.items[3].from, Len(ts))]
    IN Parts(ParseRich(ts, 1, {}))

----------------------------------------------------------------------------
\* Packages by what they provide: the first word of a simple dependency is looked up.
IsRich(ts) == ts[1] = "("

RECURSIVE DependSet(_, _), Unsatisfied(_, _)

\* unsatisfiedDependSet()
DependSet(ts, providers) ==
    LET Of(s) ==
            CASE ~s.ok -> {}
              [] s.ok /\ s.op = "" -> DependSet(s.left, providers)
              [] s.ok /\ s.op = "with" -> DependSet(s.left, providers) \cap DependSet(s.right, providers)
              [] s.ok /\ s.op = "without" -> DependSet(s.left, providers) \ DependSet(s.right, providers)
              [] s.ok /\ s.op = "or" -> DependSet(s.left, providers) \cup DependSet(s.right, providers)
              [] OTHER -> {}
    IN IF IsRich(ts) THEN Of(Split(ts)) ELSE providers[ts[1]]

\* unsatisfiedDepend() of a requirement of a new package
Unsatisfied(ts, providers) ==
    LET Conditional(s, s2, else) ==
            LET cond == ~Unsatisfied(IF else THEN s2.left ELSE s.right, providers)
            IN IF cond <=> s.op = "if" THEN Unsatisfied(s.left, providers)
               ELSE IF else THEN Unsatisfied(s2.right, providers) ELSE cond
        WithElse(s, s2) == Conditional(s, s2, s2.ok /\ s2.op = "else")
        Of(s) ==
            CASE ~s.ok -> TRUE
              [] s.ok /\ s.op \in {"with", "without"} -> DependSet(ts, providers) = {}
              [] s.ok /\ s.op \in {"if", "unless"} ->
                    WithElse(s, IF IsRich(s.right) THEN Split(s.right) ELSE [ok |-> FALSE])
              [] s.ok /\ s.op = "or" -> Unsatisfied(s.left, providers) /\ Unsatisfied(s.right, providers)
              [] s.ok /\ s.op = "and" -> Unsatisfied(s.left, providers) \/ Unsatisfied(s.right, providers)
              [] OTHER -> Unsatisfied(s.left, providers)
    IN IF IsRich(ts) THEN Of(Split(ts)) ELSE providers[ts[1]] = {}

----------------------------------------------------------------------------
(* Reference: a dependency as a tree [ops, args]; a leaf has no operators. *)
IsLeaf(t) == t.args = <<>>
Op(t) == IF t.ops = <<>> THEN "" ELSE t.ops[1]

RECURSIVE Render(_), Chained(_), Reaches(_, _), InContext(_, _), SetMode(_), Means(_, _), Providers(_, _)
Render(t) ==
    IF IsLeaf(t) THEN t.name
    ELSE <<"(">> \o FlattenSeq([k \in DOMAIN t.args |->
             (IF k = 1 THEN <<>> ELSE <<t.ops[k - 1]>>) \o Render(t.args[k])]) \o <<")">>

\* "The operators and and or may be chained", and with; a condition may have an else
Chained(t) ==
    /\ \/ Len(t.ops) < 2
       \/ Cardinality(Range(t.ops)) = 1 /\ t.ops[1] \in {"and", "or", "with"}
       \/ t.ops \in {<<"if", "else">>, <<"unless", "else">>}
    /\ \A k \in DOMAIN t.args : Chained(t.args[k])

\* Operands other than the condition
Branches(t) == IF Op(t) \in {"if", "unless"} THEN DOMAIN t.args \ {2} ELSE DOMAIN t.args

\* Is there an operator op in t with no "and" and no "or" around it?
Reaches(t, op) ==
    /\ ~IsLeaf(t) /\ Op(t) \notin {"and", "or"}
    /\ Op(t) = op \/ \E k \in Branches(t) : Reaches(t.args[k], op)

\* "the if operators cannot be used in the same context with or, and the unless
\* operators cannot be used in the same context with and"
Clash(t, around) ==
    \/ around \in {"or", "unless"} /\ Reaches(t, "if")
    \/ around \in {"and", "if"} /\ Reaches(t, "unless")
InContext(t, around) ==
    /\ ~Clash(t, around)
    /\ \A k \in DOMAIN t.args : InContext(t.args[k], IF k \in Branches(t) THEN Op(t) ELSE "")

\* with and without are about the same package
SetMode(t) == Op(t) \in {"", "with", "without", "or"} /\ \A k \in DOMAIN t.args : SetMode(t.args[k])
RECURSIVE WithSets(_)
WithSets(t) ==
    IF Op(t) \in {"with", "without"} THEN \A k \in DOMAIN t.args : SetMode(t.args[k])
    ELSE \A k \in DOMAIN t.args : WithSets(t.args[k])

Providers(t, providers) ==
    LET of(k) == Providers(t.args[k], providers)
    IN IF IsLeaf(t) THEN providers[t.name[1]]
       ELSE CASE Op(t) = "with" -> {p \in of(1) : \A k \in DOMAIN t.args : p \in of(k)}
              [] Op(t) = "without" -> of(1) \ of(2)
              [] Op(t) = "or" -> UNION {of(k) : k \in DOMAIN t.args}
              [] OTHER -> of(1)

\* A lone else is its first operand, and a condition that is one is taken apart.
Means(t, providers) ==
    LET is(k) == Means(t.args[k], providers)
        lone == Op(t) \in {"if", "unless"} /\ Len(t.args) = 2 /\ t.args[2].ops = <<"else">>
        three == IF lone THEN t.args[2].args ELSE SubSeq(t.args, 2, Len(t.args))
        is3(k) == Means(three[k], providers)
    IN IF IsLeaf(t) THEN providers[t.name[1]] # {}
       ELSE CASE Op(t) \in {"with", "without"} -> Providers(t, providers) # {}
              [] Op(t) = "and" -> \A k \in DOMAIN t.args : is(k)
              [] Op(t) = "or" -> \E k \in DOMAIN t.args : is(k)
              [] Op(t) = "if" -> IF is3(1) THEN is(1) ELSE Len(three) = 2 => is3(2)
              [] Op(t) = "unless" -> IF is3(1) THEN Len(three) = 2 /\ is3(2) ELSE is(1)
              [] OTHER -> is(1)

Tags == {"Requires", "Conflicts"}

\* A dependency is accepted exactly when its chains, its contexts and the operands of
\* with and without are as the manual has them (rpm-dependencies(7)); and one that is
\* accepted, taken apart operand by operand, is satisfied exactly when it is true.
RichDepsAgree(t, installed) ==
    /\ \A tag \in Tags :
          ParseForTag(Render(t), tag) <=>
             /\ Chained(t) /\ WithSets(t)
             /\ InContext(t, IF tag = "Conflicts" THEN "or" ELSE "and")
    /\ Chained(t) /\ WithSets(t) =>
          \A providers \in installed : Unsatisfied(Render(t), providers) <=> ~Means(t, providers)
=============================================================================
