------------------------------- MODULE Macros -------------------------------
(***************************************************************************)
(* Macro expansion: rpmio/macro.cc.                                        *)
(*                                                                         *)
(* A text is a sequence of tokens: words, macro calls with their           *)
(* conditions (%{?n:...}, %{!?n:...}) and arguments, the built-ins that    *)
(* change the table, and %[...] or %{lua:...}, which come back into the    *)
(* macro engine from outside (rpmExpand()).  A call of expandMacro() is a  *)
(* frame; it works on the buffer (mb) of its caller, or, in expandThis()   *)
(* and from outside, on one of its own.                                    *)
(***************************************************************************)
EXTENDS Integers, Sequences, FiniteSets, SequencesExt

CONSTANTS
    MacroNames,     \* names users define
    Tables,         \* macro tables to start from: name -> stack of entries
    Sources,        \* texts to expand
    Files, Cli,     \* name -> body: what the macro files and the command line define
    MaxMacroDepth,  \* max_macro_depth
    MaxExpansions   \* texts expanded in a behaviour

AutoNames == {"0", "1", "*", "**", "#", "-f"}
GlobalLevel == 0    \* RMIL_GLOBAL
CmdlineLevel == -7  \* RMIL_CMDLINE
FilesLevel == -13   \* RMIL_MACROFILES

VARIABLES
    tab,    \* name -> stack of entries, the last one counts
    ctx,    \* depth and level in the context (mc), for calls from outside
    stk,    \* frames
    res,    \* the result of the last expansion: text and error
    bad,    \* history: something went wrong in the present expansion
    todo    \* expansions left

vars == <<tab, ctx, stk, res, bad, todo>>

Entry(body, opts, flags, level) ==
    [body |-> body, opts |-> opts, flags |-> flags, level |-> level]

Word(w) == [t |-> "word", w |-> w]

Defined(t, n) == n \in DOMAIN t /\ t[n] # <<>>

\* pushMacroAny(), popMacro()
PushMacro(t, n, e) == [t EXCEPT ![n] = Append(@, e)]
PopMacro(t, n) == IF Defined(t, n) THEN [t EXCEPT ![n] = Front(@)] ELSE t

mb == Last(stk).mb
SetTop(f) == [stk EXCEPT ![Len(stk)] = f]
Rest(f) == [f EXCEPT !.src = Tail(@)]

Init ==
    /\ tab \in {[n \in MacroNames \cup AutoNames |->
                    IF n \in DOMAIN t THEN t[n] ELSE <<>>] : t \in Tables}
    /\ ctx = [depth |-> 0, level |-> 0]
    /\ stk = <<>> /\ bad = FALSE
    /\ res = [buf |-> <<>>, err |-> FALSE]
    /\ todo = MaxExpansions

----------------------------------------------------------------------------
(* The automatic macros of parametric ones. *)

\* findEntry() and the check for automatic macros that are out of scope; at
\* most one entry
FindEntry(n) ==
    IF ~Defined(tab, n) THEN <<>>
    ELSE LET me == Last(tab[n])
         IN IF "AUTO" \in me.flags /\ mb.level > me.level THEN <<>> ELSE <<me>>

\* setupArgs(): %0, %**, then the options, then %#, %1 and %*.  An unknown
\* option is an error and leaves the latter out.
SetupArgs(t, n, me, args, level) ==
    LET Auto(u, a, body) ==
            PushMacro(u, a, Entry(body, FALSE, {"AUTO", "LITERAL"}, level))
        all == Auto(Auto(t, "0", <<Word(n)>>), "**", args)
        f == IF Contains(args, Word("-f")) THEN Auto(all, "-f", <<Word("-f")>>) ELSE all
        plain == SelectSeq(args, LAMBDA x : x \notin {Word("-f"), Word("-x")})
        counted == Auto(f, "#", <<Word(ToString(Len(plain)))>>)
        first == IF plain = <<>> THEN counted ELSE Auto(counted, "1", <<Head(plain)>>)
    IN IF Contains(args, Word("-x")) THEN f ELSE Auto(first, "*", plain)

\* Mutant: the macros of the scope itself stay.
FreeArgsDeeper(t, level) ==
    [n \in DOMAIN t |->
        LET keep == {i \in 1..Len(t[n]) : t[n][i].level <= level}
        IN SubSeq(t[n], 1, IF keep = {} THEN 0 ELSE Max(keep))]

\* freeArgs(): entries of this level and deeper ones go while they are on top
FreeArgs(t, level) ==
    [n \in DOMAIN t |->
        LET keep == {i \in 1..Len(t[n]) : t[n][i].level < level}
        IN SubSeq(t[n], 1, IF keep = {} THEN 0 ELSE Max(keep))]

----------------------------------------------------------------------------
(* expandMacro(): one token at a time. *)

\* A new frame; mbInit() refuses it when it is too deep.
Enter(caller, src, newmb, ret) ==
    IF newmb.depth + 1 > MaxMacroDepth
    THEN /\ stk' = SetTop([caller EXCEPT !.mb.err = TRUE])
         /\ bad' = TRUE
    ELSE /\ stk' = Append(SetTop(caller),
                          [src |-> src, ret |-> ret, mb |-> [newmb EXCEPT !.depth = @ + 1]])
         /\ bad' = bad

EnterDepth(newmb) == [ctx EXCEPT !.depth = IF newmb.depth + 1 > MaxMacroDepth THEN 0 ELSE @]

\* doMacro() for a macro without arguments
DoMacro(f, n, me) ==
    IF "LITERAL" \in me.flags \/ me.body = <<>>
    THEN /\ stk' = SetTop([f EXCEPT !.mb.buf = @ \o me.body])
         /\ UNCHANGED <<ctx, bad>>
    ELSE /\ Enter(f, me.body, f.mb, [k |-> "body", n |-> n, me |-> me,
                                     args |-> FALSE, from |-> Len(f.mb.buf)])
         /\ ctx' = EnterDepth(f.mb)

Expanding(t) ==
    /\ stk # <<>> /\ ~mb.err
    /\ Last(stk).src # <<>>
    /\ Head(Last(stk).src).t = t

Token == Head(Last(stk).src)

Text ==
    /\ Expanding("word")
    /\ stk' = SetTop([Rest(Last(stk)) EXCEPT !.mb.buf = Append(@, Token)])
    /\ UNCHANGED <<tab, ctx, res, bad, todo>>

\* %{?n}, %{!?n:g}: g is expanded, or the macro itself
Conditional ==
    /\ Expanding("test")
    /\ LET me == FindEntry(Token.n)
           f == Rest(Last(stk))
       IN IF (me = <<>>) # Token.negate
          THEN stk' = SetTop(f) /\ UNCHANGED <<ctx, bad>>
          ELSE IF Token.g # <<>>
          THEN /\ Enter(f, Token.g, f.mb, [k |-> "plain"])
               /\ ctx' = EnterDepth(f.mb)
          ELSE IF me # <<>> THEN DoMacro(f, Token.n, me[1])
          ELSE stk' = SetTop(f) /\ UNCHANGED <<ctx, bad>>
    /\ UNCHANGED <<tab, res, todo>>

\* %n and %{n args}: unknown ones stay as they are; arguments are expanded in a
\* buffer of their own first.
Call ==
    /\ Expanding("call")
    /\ LET me == FindEntry(Token.n)
           f == Rest(Last(stk))
       IN IF me = <<>>
          THEN /\ stk' = SetTop([f EXCEPT !.mb.buf = Append(@, Word("unknown"))])
               /\ UNCHANGED <<ctx, bad>>
          ELSE IF ~me[1].opts
          THEN DoMacro(f, Token.n, me[1])
          ELSE /\ Enter(f, Token.args, [f.mb EXCEPT !.buf = <<>>],
                        [k |-> "args", n |-> Token.n, me |-> me[1]])
               /\ ctx' = EnterDepth(f.mb)
    /\ UNCHANGED <<tab, res, todo>>

\* %define and %global, the latter with the body expanded first: doDefine().  Automatic
\* macros and built-ins cannot be redefined (validName()).
Define ==
    /\ Expanding("define")
    /\ LET f == Rest(Last(stk))
           ok == Token.n \in MacroNames /\ Token.body # <<>>
           level == IF Token.global THEN GlobalLevel ELSE f.mb.level
       IN IF ~ok
          THEN /\ stk' = SetTop([f EXCEPT !.mb.err = TRUE])
               /\ bad' = TRUE /\ UNCHANGED <<tab, ctx>>
          ELSE IF Token.expand /\ "LITERAL" \notin Token.flags
          THEN /\ Enter(f, Token.body, [f.mb EXCEPT !.buf = <<>>],
                        [k |-> "define", n |-> Token.n, opts |-> Token.opts,
                         flags |-> Token.flags, level |-> level])
               /\ ctx' = EnterDepth(f.mb) /\ UNCHANGED tab
          ELSE /\ tab' = PushMacro(tab, Token.n,
                                   Entry(Token.body, Token.opts, Token.flags, level))
               /\ stk' = SetTop(f) /\ UNCHANGED <<ctx, bad>>
    /\ UNCHANGED <<res, todo>>

\* undefineMacro()
Undefine ==
    /\ Expanding("undefine")
    /\ IF Token.n \in MacroNames
       THEN /\ tab' = PopMacro(tab, Token.n)
            /\ stk' = SetTop(Rest(Last(stk))) /\ bad' = bad
       ELSE /\ stk' = SetTop([Rest(Last(stk)) EXCEPT !.mb.err = TRUE])
            /\ bad' = TRUE /\ UNCHANGED tab
    /\ UNCHANGED <<ctx, res, todo>>

\* %{error:...}
Error ==
    /\ Expanding("error")
    /\ stk' = SetTop([Rest(Last(stk)) EXCEPT !.mb.err = TRUE])
    /\ bad' = TRUE
    /\ UNCHANGED <<tab, ctx, res, todo>>

\* %[...] and %{lua:...}: the context takes the depth and the level of this
\* buffer along for rpmExpand() calls that come back.
Outside ==
    /\ Expanding("outside")
    /\ LET f == Rest(Last(stk))
           newmb == [buf |-> <<>>, depth |-> mb.depth, level |-> mb.level, err |-> FALSE]
       IN /\ Enter(f, Token.g, newmb, [k |-> "outside", octx |-> ctx])
          /\ ctx' = IF Len(stk') = Len(stk) THEN ctx
                    ELSE [depth |-> mb.depth, level |-> mb.level]
    /\ UNCHANGED <<tab, res, todo>>

\* The end of an expandMacro(): mbFini(), and what its caller does next.
Done(k) ==
    /\ stk # <<>>
    /\ Last(stk).src = <<>> \/ mb.err
    /\ Last(stk).ret.k = k

Caller == stk[Len(stk) - 1]
BackTo(f) == Append(SubSeq(stk, 1, Len(stk) - 2), f)
SameBuffer == [mb EXCEPT !.depth = @ - 1]

EndPlain ==
    /\ Done("plain")
    /\ stk' = BackTo([Caller EXCEPT !.mb = SameBuffer])
    /\ UNCHANGED <<tab, ctx, res, bad, todo>>

\* doMacro() after the body: freeArgs(), and the expansion of a one-shot macro
\* on top of it
EndBody ==
    /\ Done("body")
    /\ LET r == Last(stk).ret
           t == IF r.args THEN FreeArgs(tab, mb.level) ELSE tab
           text == SubSeq(mb.buf, r.from + 1, Len(mb.buf))
       IN /\ tab' = IF "ONESHOT" \notin r.me.flags THEN t
                    ELSE PushMacro(t, r.n, Entry(text, r.me.opts,
                             (r.me.flags \ {"ONESHOT"}) \cup {"LITERAL"}, r.me.level))
          /\ stk' = BackTo([Caller EXCEPT !.mb =
                               IF r.args THEN [SameBuffer EXCEPT !.level = @ - 1]
                                         ELSE SameBuffer])
    /\ UNCHANGED <<ctx, res, bad, todo>>

\* grabArgs() and on: the macro is entered even if its arguments had an error,
\* which keeps the body from being expanded.
EndArgs ==
    /\ Done("args")
    /\ LET r == Last(stk).ret
           caller == [Caller EXCEPT !.mb.err = @ \/ mb.err]
           level == caller.mb.level + 1
           unknown == Contains(mb.buf, Word("-x"))
           inner == [caller.mb EXCEPT !.level = level, !.depth = @ + 1,
                                      !.err = @ \/ unknown]
       IN IF "LITERAL" \in r.me.flags
          THEN /\ stk' = BackTo([caller EXCEPT !.mb.buf = @ \o r.me.body])
               /\ UNCHANGED <<tab, bad>>
          ELSE /\ tab' = SetupArgs(tab, r.n, r.me, mb.buf, level)
               /\ stk' = Append(BackTo(caller),
                     [src |-> r.me.body, mb |-> inner,
                      ret |-> [k |-> "body", n |-> r.n, me |-> r.me, args |-> TRUE,
                               from |-> Len(caller.mb.buf)]])
               /\ bad' = (bad \/ unknown)
    /\ UNCHANGED <<ctx, res, todo>>

\* doDefine() after the body has been expanded
EndDefine ==
    /\ Done("define")
    /\ LET r == Last(stk).ret
       IN tab' = IF mb.err THEN tab
                 ELSE PushMacro(tab, r.n, Entry(mb.buf, r.opts, r.flags, r.level))
    /\ stk' = BackTo([Caller EXCEPT !.mb.err = @ \/ mb.err])
    /\ UNCHANGED <<ctx, res, bad, todo>>

\* doExpressionExpansion(), doLua()
EndOutside ==
    /\ Done("outside")
    /\ ctx' = Last(stk).ret.octx
    /\ stk' = BackTo(IF mb.err THEN [Caller EXCEPT !.mb.err = TRUE]
                     ELSE [Caller EXCEPT !.mb.buf = @ \o mb.buf])
    /\ UNCHANGED <<tab, res, bad, todo>>

EndExpansion ==
    /\ Done("top")
    /\ res' = [buf |-> mb.buf, err |-> mb.err]
    /\ stk' = <<>>
    /\ UNCHANGED <<tab, ctx, bad, todo>>

----------------------------------------------------------------------------
(* The interface. *)

\* doExpandMacros()
Expand(src) ==
    /\ stk = <<>> /\ todo > 0
    /\ todo' = todo - 1
    /\ bad' = FALSE
    /\ stk' = <<[src |-> src, ret |-> [k |-> "top"],
                 mb |-> [buf |-> <<>>, depth |-> ctx.depth + 1,
                         level |-> ctx.level, err |-> FALSE]]>>
    /\ UNCHANGED <<tab, ctx, res>>

\* rpmFreeMacros() and rpmInitMacros(): the files, then the command line again
Reload ==
    /\ stk = <<>> /\ todo > 0
    /\ todo' = todo - 1
    /\ tab' = [n \in DOMAIN tab |->
                  (IF n \in DOMAIN Files
                   THEN <<Entry(Files[n], FALSE, {}, FilesLevel)>> ELSE <<>>)
                  \o (IF n \in DOMAIN Cli
                      THEN <<Entry(Cli[n], FALSE, {}, CmdlineLevel)>> ELSE <<>>)]
    /\ UNCHANGED <<ctx, stk, res, bad>>

Step == Text \/ Conditional \/ Call \/ Define \/ Undefine \/ Error \/ Outside
     \/ EndPlain \/ EndBody \/ EndArgs \/ EndDefine \/ EndOutside \/ EndExpansion

Next == Step \/ Reload \/ \E src \in Sources : Expand(src)

Spec == Init /\ [][Next]_vars /\ WF_vars(Step)

----------------------------------------------------------------------------

Level == IF stk = <<>> THEN ctx.level ELSE mb.level

\* The arguments of a parametric macro (%1, %*, %#, %{-f}) are those of the
\* innermost call that is being expanded: the ones of an outer call are not
\* seen in it, and none outlives its call, however the expansion ends.
ArgumentsInScope ==
    /\ \A n \in AutoNames : Defined(tab, n) => Last(tab[n]).level <= Level
    /\ stk # <<>> => \A n \in AutoNames :
          FindEntry(n) # <<>> => FindEntry(n)[1].level = mb.level

\* An expansion in which anything went wrong, at any depth and on either side
\* of a call from outside, reports an error; and the context is as it was.
ErrorsReported ==
    stk = <<>> => /\ ctx = [depth |-> 0, level |-> 0]
                  /\ bad => res.err

=============================================================================
