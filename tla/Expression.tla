----------------------------- MODULE Expression -----------------------------
(***************************************************************************)
(* %[...] and %if expressions: rpmio/expression.cc, a recursive-descent    *)
(* parser that evaluates as it reads, one token ahead.  Operands that a    *)
(* logical operator or ?: leaves out are still parsed, with                *)
(* RPMEXPR_DISCARD set: their macros are not expanded.                     *)
(*                                                                         *)
(* A token is <<kind>> for operators, <<"int", n>>, <<"str", s>> and       *)
(* <<"ver", n>> for literals, <<"mac", n>>, a macro that expands to the    *)
(* number n, or <<"word", n>>, one that expands to a bare word, and        *)
(* <<"lua", n>>, the name and parenthesis of a call of a Lua function that *)
(* returns a string, or fails when n is 0.                                 *)
(***************************************************************************)
EXTENDS Integers, Sequences, SequencesExt

CONSTANT IntMax     \* INT_MAX

\* int arithmetic: the build asks for -fno-strict-overflow
Wrap(n) == ((n + IntMax + 1) % (2 * (IntMax + 1))) - IntMax - 1

ExprErr == <<"error">>
IsErr(r) == r.v = ExprErr

\* Parser state: text to come, lookahead token and its value, flags, and the
\* macros expanded and functions called so far
ExprState(toks) ==
    [in |-> toks, tok |-> "", v |-> <<>>, discard |-> FALSE, log |-> <<>>, ok |-> TRUE]

\* getValuebuf(): nothing in discard mode
TokenValue(h, discard) ==
    CASE h[1] = "int" -> <<"int", IF discard THEN 0 ELSE h[2]>>
      [] h[1] \in {"mac", "word"} -> <<"int", IF discard THEN 0 ELSE h[2]>>
      [] h[1] = "str" -> <<"str", IF discard THEN <<>> ELSE h[2]>>
      [] h[1] = "ver" -> <<"ver", IF discard THEN 0 ELSE h[2]>>
      [] h[1] = "lua" -> h
      [] OTHER -> <<>>

RdToken(st) ==
    IF st.in = <<>> THEN [st EXCEPT !.tok = "EOF"]
    ELSE LET h == Head(st.in)
             live == h[1] \in {"mac", "word"} /\ ~st.discard
         IN [st EXCEPT !.in = Tail(@),
                       !.tok = IF h[1] \in {"int", "mac", "word"} THEN "int"
                               ELSE IF h[1] \in {"str", "ver"} THEN "str" ELSE h[1],
                       !.v = TokenValue(h, st.discard),
                       !.log = IF live THEN Append(@, h[2]) ELSE @,
                       !.ok = ~(live /\ h[1] = "word")]

\* boolifyValue(): versions count as false
Boolify(v) == (v[1] = "int" /\ v[2] # 0) \/ (v[1] = "str" /\ v[2] # <<>>)
BoolInt(b) == <<"int", IF b THEN 1 ELSE 0>>

Ret(v, st) == [v |-> v, st |-> st]
Err(st) == [v |-> ExprErr, st |-> st]

\* C's division truncates towards zero
Quot(a, b) ==
    LET Abs(n) == IF n < 0 THEN -n ELSE n
        q == Abs(a) \div Abs(b)
    IN IF (a < 0) = (b < 0) THEN q ELSE -q

\* strcmp()
StrLess(s, t) ==
    \E i \in 1..Len(t) :
        /\ i <= Len(s) + 1
        /\ \A j \in 1..(i - 1) : s[j] = t[j]
        /\ i <= Len(s) => s[i] < t[i]

\* valueCmpInteger() subtracts; valueCmpString(), valueCmpVersion()
ValueCmp(a, b) ==
    CASE a[1] = "int" -> Wrap(a[2] - b[2])
      [] a[1] = "ver" -> a[2] - b[2]
      [] OTHER -> IF StrLess(a[2], b[2]) THEN -1 ELSE IF a = b THEN 0 ELSE 1

Relation(op, a, b) ==
    CASE op = "==" -> ValueCmp(a, b) = 0
      [] op = "!=" -> ValueCmp(a, b) # 0
      [] op = "<"  -> ValueCmp(a, b) < 0
      [] op = "<=" -> ValueCmp(a, b) <= 0
      [] op = ">"  -> ValueCmp(a, b) > 0
      [] op = ">=" -> ValueCmp(a, b) >= 0

MulOps == {"*", "/"}
AddOps == {"+", "-"}
RelOps == {"==", "!=", "<", "<=", ">", ">="}
LogOps == {"&&", "||"}

\* One binary operation on the values of the operands; ExprErr if it is refused
MulDiv(op, a, b, discard) ==
    IF a[1] # "int" THEN ExprErr
    ELSE IF discard THEN a
    ELSE IF op = "*" THEN <<"int", Wrap(a[2] * b[2])>>
    ELSE IF b[2] = 0 THEN ExprErr ELSE <<"int", Wrap(Quot(a[2], b[2]))>>

AddSub(op, a, b) ==
    CASE a[1] = "int" -> <<"int", Wrap(IF op = "+" THEN a[2] + b[2] ELSE a[2] - b[2])>>
      [] a[1] = "str" /\ op = "+" -> <<"str", a[2] \o b[2]>>
      [] OTHER -> ExprErr

RECURSIVE DoTernary(_), DoLogical(_), LogicalTail(_, _), DoRelational(_), RelationalTail(_),
          DoAddSubtract(_), AddTail(_), DoMultiplyDivide(_), MulTail(_), DoPrimary(_),
          FunctionArgs(_, _)

\* The arguments of a function, up to and with the closing parenthesis
FunctionArgs(st, args) ==
    IF ~st.ok THEN Err(st)
    ELSE IF st.tok = ")" THEN Ret(args, RdToken(st))
    ELSE LET After(a, next) ==
                 CASE IsErr(a) -> a
                   [] ~IsErr(a) /\ a.st.tok = ")" -> Ret(Append(args, a.v), next)
                   [] ~IsErr(a) /\ a.st.tok = "," /\ next.tok # ")" ->
                         FunctionArgs(next, Append(args, a.v))
                   [] OTHER -> Err(a.st)
             Argument(a) == After(a, RdToken(a.st))
         IN Argument(DoTernary(st))

\* doLuaFunction(): not called in discard mode, nor with a version
DoLuaFunction(name, args, st) ==
    CASE st.discard -> Ret(<<"str", <<>>>>, st)
      [] ~st.discard /\ (\E i \in DOMAIN args : args[i][1] = "ver") -> Err(st)
      [] OTHER -> [v |-> IF name = 0 THEN ExprErr ELSE <<"str", <<name>>>>,
                   st |-> [st EXCEPT !.log = Append(@, name)]]

\* doPrimary(), doFunction(): the caller gives up when rdToken() failed
DoPrimary(st) ==
    LET Called(r) ==
            IF IsErr(r) \/ ~r.st.ok THEN Err(r.st) ELSE DoLuaFunction(st.v[2], r.v, r.st)
        Closed(r, next) ==
            IF r.st.tok # ")" \/ ~next.ok \/ IsErr(r) THEN Err(r.st) ELSE Ret(r.v, next)
        Grouped(r) == Closed(r, RdToken(r.st))
        Negated(r) ==
            CASE IsErr(r) -> r
              [] ~IsErr(r) /\ st.tok = "!" -> Ret(BoolInt(~Boolify(r.v)), r.st)
              [] ~IsErr(r) /\ st.tok = "-" /\ r.v[1] = "int" -> Ret(<<"int", Wrap(-r.v[2])>>, r.st)
              [] OTHER -> Err(r.st)
        Primary(next) ==
            CASE st.tok \in {"int", "str"} -> IF next.ok THEN Ret(st.v, next) ELSE Err(next)
              [] st.tok = "lua" -> Called(FunctionArgs(next, <<>>))
              [] st.tok = "(" -> Grouped(DoTernary(next))
              [] st.tok \in {"-", "!"} -> Negated(DoPrimary(next))
              [] OTHER -> Err(st)
    IN IF st.ok THEN Primary(RdToken(st)) ELSE Err(st)

\* The loop of each binary level: r is the left operand
MulTail(r) ==
    IF IsErr(r) \/ r.st.tok \notin MulOps THEN r
    ELSE LET Apply(b) == IF IsErr(b) \/ b.v[1] # r.v[1] THEN Err(b.st)
                         ELSE MulTail(Ret(MulDiv(r.st.tok, r.v, b.v, b.st.discard), b.st))
         IN Apply(DoPrimary(RdToken(r.st)))

DoMultiplyDivide(st) == MulTail(DoPrimary(st))

AddTail(r) ==
    IF IsErr(r) \/ r.st.tok \notin AddOps THEN r
    ELSE LET Apply(b) == IF IsErr(b) \/ b.v[1] # r.v[1] THEN Err(b.st)
                         ELSE AddTail(Ret(AddSub(r.st.tok, r.v, b.v), b.st))
         IN Apply(DoMultiplyDivide(RdToken(r.st)))

DoAddSubtract(st) == AddTail(DoMultiplyDivide(st))

RelationalTail(r) ==
    IF IsErr(r) \/ r.st.tok \notin RelOps THEN r
    ELSE LET Apply(b) == IF IsErr(b) \/ b.v[1] # r.v[1] THEN Err(b.st)
                         ELSE RelationalTail(Ret(BoolInt(Relation(r.st.tok, r.v, b.v)), b.st))
         IN Apply(DoAddSubtract(RdToken(r.st)))

DoRelational(st) == RelationalTail(DoAddSubtract(st))

\* Mutant: the discard flag stays set after the operand.
LogicalTailStuck(r, flags) ==
    IF IsErr(r) \/ r.st.tok \notin LogOps THEN r
    ELSE LET skip == (r.st.tok = "&&") # Boolify(r.v)
             Apply(b) == IF IsErr(b) \/ b.v[1] # r.v[1] THEN Err(b.st)
                         ELSE LogicalTail(Ret(IF skip THEN r.v ELSE b.v, b.st), flags)
         IN Apply(DoRelational(RdToken([r.st EXCEPT !.discard = @ \/ skip])))

\* && and || are on one level; flags are the ones on entry
LogicalTail(r, flags) ==
    IF IsErr(r) \/ r.st.tok \notin LogOps
    THEN [r EXCEPT !.st.discard = IF IsErr(r) THEN flags ELSE @]
    ELSE LET skip == (r.st.tok = "&&") # Boolify(r.v)
             Apply(b) ==
                 IF IsErr(b) \/ b.v[1] # r.v[1] THEN Err([b.st EXCEPT !.discard = flags])
                 ELSE LogicalTail(Ret(IF skip THEN r.v ELSE b.v, [b.st EXCEPT !.discard = flags]),
                                  flags)
         IN Apply(DoRelational(RdToken([r.st EXCEPT !.discard = @ \/ skip])))

DoLogical(st) == LogicalTail(DoRelational(st), st.discard)

DoTernary(st) ==
    LET Chosen(c, a, b) ==
            IF IsErr(a) \/ a.st.tok # ":" \/ IsErr(b) \/ a.v[1] # b.v[1]
            THEN Err([c.st EXCEPT !.discard = st.discard])
            ELSE Ret(IF Boolify(c.v) THEN a.v ELSE b.v, [b.st EXCEPT !.discard = st.discard])
        Second(c, a) ==
            Chosen(c, a, DoTernary(RdToken([a.st EXCEPT !.discard = st.discard \/ Boolify(c.v)])))
        First(c) ==
            IF IsErr(c) \/ c.st.tok # "?" THEN c
            ELSE Second(c, DoTernary(RdToken([c.st EXCEPT !.discard = @ \/ ~Boolify(c.v)])))
    IN First(DoLogical(st))

\* rpmExprStrFlags(), rpmExprBoolFlags(): the value, the macros expanded and the
\* functions called
RpmExpr(toks) ==
    LET Result(r) == [v |-> IF r.st.tok = "EOF" THEN r.v ELSE ExprErr, log |-> r.st.log]
    IN Result(DoTernary(RdToken(ExprState(toks))))
----------------------------------------------------------------------------
(* The reference: expressions as trees, with a static type and a lazy value *)
(* in the integers.  A Lua call is <<"lua", argument, function>>.           *)

\* Binding strength, from ?: to the operands
Strength(e) ==
    CASE e[1] = "?" -> 0
      [] e[1] \in LogOps -> 1
      [] e[1] \in RelOps -> 2
      [] e[1] \in AddOps -> 3
      [] e[1] \in MulOps -> 4
      [] OTHER -> 5

RECURSIVE Unparse(_, _), TypeOf(_), Eval(_)

\* The text of a tree, with parentheses where its place binds tighter
Unparse(e, place) ==
    LET s == Strength(e)
        text ==
            CASE e[1] = "?" -> Unparse(e[2], 1) \o <<<<"?">>>> \o Unparse(e[3], 0)
                               \o <<<<":">>>> \o Unparse(e[4], 0)
              [] e[1] = "leaf" -> <<e[2]>>
              [] e[1] \in {"!", "neg"} ->
                    <<<<IF e[1] = "neg" THEN "-" ELSE "!">>>> \o Unparse(e[2], 5)
              [] e[1] = "lua" -> <<<<"lua", e[3]>>>> \o Unparse(e[2], 0) \o <<<<")">>>>
              [] OTHER -> Unparse(e[2], s) \o <<<<e[1]>>>> \o Unparse(e[3], s + 1)
    IN IF s < place THEN <<<<"(">>>> \o text \o <<<<")">>>> ELSE text

\* The type of a tree, or "error"
TypeOf(e) ==
    LET T(i) == TypeOf(e[i])
    IN CASE e[1] = "leaf" -> IF e[2][1] \in {"mac", "word"} THEN "int" ELSE e[2][1]
         [] e[1] = "!" -> IF T(2) = "error" THEN "error" ELSE "int"
         [] e[1] = "neg" -> IF T(2) = "int" THEN "int" ELSE "error"
         [] e[1] = "lua" -> IF T(2) = "error" THEN "error" ELSE "str"
         [] e[1] = "?" -> IF T(2) # "error" /\ T(3) = T(4) THEN T(3) ELSE "error"
         [] e[1] \in MulOps -> IF T(2) = "int" /\ T(3) = "int" THEN "int" ELSE "error"
         [] e[1] \in AddOps ->
              IF T(2) = T(3) /\ (T(2) = "int" \/ (T(2) = "str" /\ e[1] = "+"))
              THEN T(2) ELSE "error"
         [] e[1] \in RelOps ->
              IF T(2) = T(3) /\ T(2) # "error" THEN "int" ELSE "error"
         [] OTHER -> IF T(2) = T(3) THEN T(2) ELSE "error"

\* A number, if an int can hold it
TooLarge == <<"too large">>
Number(n) == IF n \in (-IntMax - 1)..IntMax THEN <<"int", n>> ELSE TooLarge
Failed(v) == v \in {ExprErr, TooLarge}

Arithmetic(op, m, n) ==
    CASE op = "*" -> Number(m * n)
      [] op = "/" -> IF n = 0 THEN ExprErr ELSE Number(Quot(m, n))
      [] op = "+" -> Number(m + n)
      [] op = "-" -> Number(m - n)

Before(a, b) == IF a[1] = "str" THEN StrLess(a[2], b[2]) ELSE a[2] < b[2]
Compared(op, a, b) ==
    IF a[1] = "int" /\ Number(a[2] - b[2]) = TooLarge THEN TooLarge
    ELSE BoolInt(CASE op = "==" -> a = b
                   [] op = "!=" -> a # b
                   [] op = "<"  -> Before(a, b)
                   [] op = "<=" -> ~Before(b, a)
                   [] op = ">"  -> Before(b, a)
                   [] op = ">=" -> ~Before(a, b))

\* The value of a well-typed tree, the macros it needs and the functions it calls, from
\* left to right
Eval(e) ==
    LET a == Eval(e[2])
        b == Eval(e[3])
        Then(x) == [x EXCEPT !.log = a.log \o @]
        Both(v) == [v |-> v, log |-> a.log \o b.log]
    IN IF e[1] = "leaf" THEN [v |-> IF e[2][1] = "word" THEN ExprErr ELSE TokenValue(e[2], FALSE),
                              log |-> IF e[2][1] = "mac" THEN <<e[2][2]>> ELSE <<>>]
       ELSE IF Failed(a.v) THEN a
       ELSE CASE e[1] = "!" -> [a EXCEPT !.v = BoolInt(~Boolify(a.v))]
              [] e[1] = "neg" -> [a EXCEPT !.v = Number(-a.v[2])]
              [] e[1] = "lua" -> [v |-> IF a.v[1] = "ver" \/ e[3] = 0 THEN ExprErr ELSE <<"str", <<e[3]>>>>,
                                  log |-> Append(a.log, e[3])]
              [] e[1] = "?" -> Then(IF Boolify(a.v) THEN b ELSE Eval(e[4]))
              [] e[1] \in LogOps -> IF (e[1] = "&&") = Boolify(a.v) THEN Then(b) ELSE a
              [] OTHER -> IF Failed(b.v) THEN b
                          ELSE Both(CASE e[1] \in RelOps -> Compared(e[1], a.v, b.v)
                                      [] a.v[1] = "str" -> <<"str", a.v[2] \o b.v[2]>>
                                      [] OTHER -> Arithmetic(e[1], a.v[2], b.v[2]))

\* The parser gives a tree its value, refuses what has no type or fails in a
\* part that counts, and expands the macros and calls the functions of those
\* parts only, once each and in order.  Nothing is said of a tree in which a
\* number, or the difference of two that are compared, does not fit an int:
\* expressions have no check for that, and valueCmpInteger() then has the wrong
\* number for the smaller one.
ExprAgrees(e) ==
    LET Agree(r, value) ==
            CASE TypeOf(e) = "error" \/ value.v = ExprErr -> r.v = ExprErr
              [] value.v = TooLarge -> TRUE
              [] OTHER -> r = value
    IN Agree(RpmExpr(Unparse(e, 0)), Eval(e))
=============================================================================
