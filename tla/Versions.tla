------------------------------ MODULE Versions -----------------------------
(***************************************************************************)
(* Versions as sequences of characters: rpmvercmp() (rpmio/rpmvercmp.cc),  *)
(* [epoch:]version[-release] and the overlap of ranges (rpmio/rpmver.cc),  *)
(* and the search for a match in a sorted dependency set (lib/rpmds.cc).   *)
(***************************************************************************)
EXTENDS Integers, Sequences, FiniteSets, FiniteSetsExt, SequencesExt

Ascii == <<"-", ".", "0", "1", ":", "^", "a", "b", "~">>       \* in the order of strcmp()
Code(c) == CHOOSE k \in DOMAIN Ascii : Ascii[k] = c
IsDigit(c) == c \in {"0", "1"}
IsAlpha(c) == c \in {"a", "b"}
None == <<"none">>                     \* a NULL pointer
Present(s) == s # None /\ s # <<>>

At(s, i) == IF i \in DOMAIN s THEN s[i] ELSE ""
\* The first position from i on where P does not hold
Skip(s, i, P(_)) == Min({k \in i..Len(s) : ~P(s[k])} \cup {Len(s) + 1})

\* The sign of strcmp()
StrCmp(s, t) ==
    LET Differ(at) ==
            IF at > Len(s) THEN -1 ELSE IF at > Len(t) THEN 1
            ELSE IF Code(s[at]) < Code(t[at]) THEN -1 ELSE 1
    IN IF s = t THEN 0
       ELSE Differ(Min({k \in 1..Max({Len(s), Len(t)}) : At(s, k) # At(t, k)}))

\* Two segments of the same kind: numbers without their leading zeros
CompareSegments(s, t, isnum) ==
    LET Value(x) == IF isnum THEN SubSeq(x, Skip(x, 1, LAMBDA c : c = "0"), Len(x)) ELSE x
        Sign(one, two) ==
            IF isnum /\ Len(one) # Len(two) THEN (IF Len(one) > Len(two) THEN 1 ELSE -1)
            ELSE StrCmp(one, two)
    IN Sign(Value(s), Value(t))

RECURSIVE VercmpFrom(_, _, _, _)
AfterSegment(rc, a, i, b, j) == IF rc # 0 THEN rc ELSE VercmpFrom(a, i, b, j)
Segment(a, one, str1, b, two, str2, isnum) ==
    IF str2 = two THEN (IF isnum THEN 1 ELSE -1)
    ELSE AfterSegment(CompareSegments(SubSeq(a, one, str1 - 1), SubSeq(b, two, str2 - 1), isnum),
                      a, str1, b, str2)
\* The loop once the separators are skipped: c1 and c2 are the characters found
Compared(a, one, c1, b, two, c2) ==
    LET isnum == IsDigit(c1)
        inside(c) == IF isnum THEN IsDigit(c) ELSE IsAlpha(c)
    IN IF "~" \in {c1, c2}
       THEN IF c1 # "~" THEN 1 ELSE IF c2 # "~" THEN -1 ELSE VercmpFrom(a, one + 1, b, two + 1)
       ELSE IF "^" \in {c1, c2}
       THEN IF c1 = "" THEN -1 ELSE IF c2 = "" THEN 1
            ELSE IF c1 # "^" THEN 1 ELSE IF c2 # "^" THEN -1 ELSE VercmpFrom(a, one + 1, b, two + 1)
       ELSE IF c1 = "" \/ c2 = "" THEN (IF c1 = c2 THEN 0 ELSE IF c1 = "" THEN -1 ELSE 1)
       ELSE Segment(a, one, Skip(a, one, inside), b, two, Skip(b, two, inside), isnum)
FromSegment(a, one, b, two) == Compared(a, one, At(a, one), b, two, At(b, two))
VercmpFrom(a, i, b, j) ==
    LET separates(c) == ~IsDigit(c) /\ ~IsAlpha(c) /\ c # "~" /\ c # "^"
    IN FromSegment(a, Skip(a, i, separates), b, Skip(b, j, separates))

Vercmp(a, b) == IF a = b THEN 0 ELSE VercmpFrom(a, 1, b, 1)

----------------------------------------------------------------------------
\* parseEVR(): digits before a colon are the epoch, what follows the last dash is the
\* release
ParseEVR(evr) ==
    LET Parts(s, dash) ==
            [e |-> IF At(evr, s) # ":" THEN None ELSE IF s = 1 THEN <<"0">> ELSE SubSeq(evr, 1, s - 1),
             v |-> SubSeq(evr, IF At(evr, s) = ":" THEN s + 1 ELSE 1,
                          IF dash = 0 THEN Len(evr) ELSE dash - 1),
             r |-> IF dash = 0 THEN None ELSE SubSeq(evr, dash + 1, Len(evr))]
        LastDash(s) == Max({k \in s..Len(evr) : evr[k] = "-"} \cup {0})
        From(s) == Parts(s, LastDash(s))
    IN From(Skip(evr, 1, IsDigit))

\* rpmverEVR()
EVR(v) == (IF v.e = None THEN <<>> ELSE v.e \o <<":">>) \o v.v \o (IF v.r = None THEN <<>> ELSE <<"-">> \o v.r)

\* rpmverOverlap(); flags are sets of "<", "=" and ">"
Atol(s) == FoldLeft(LAMBDA n, c : 2 * n + IF c = "1" THEN 1 ELSE 0, 0, s)
EpochSense(v1, v2) ==
    IF Present(v1.e) /\ Present(v2.e) THEN Vercmp(v1.e, v2.e)
    ELSE IF Present(v1.e) /\ Atol(v1.e) > 0 THEN 1
    ELSE IF Present(v2.e) /\ Atol(v2.e) > 0 THEN -1 ELSE 0
Overlap(v1, f1, v2, f2) ==
    LET Meet(versions, sense) ==
            \/ /\ versions = 0 /\ ~(Present(v1.r) /\ Present(v2.r))
               /\ (Present(v1.r) /\ "=" \in f2) \/ (Present(v2.r) /\ "=" \in f1)
            \/ sense < 0 /\ (">" \in f1 \/ "<" \in f2)
            \/ sense > 0 /\ ("<" \in f1 \/ ">" \in f2)
            \/ sense = 0 /\ f1 \cap f2 # {}
        Releases(versions) ==
            Meet(versions, IF versions = 0 /\ Present(v1.r) /\ Present(v2.r)
                           THEN Vercmp(v1.r, v2.r) ELSE versions)
        Versions(epochs) == Releases(IF epochs # 0 THEN epochs ELSE Vercmp(v1.v, v2.v))
    IN Versions(EpochSense(v1, v2))

\* rpmverCmp()
CompareValues(s, t) ==
    IF s = None /\ t = None THEN 0 ELSE IF t = None THEN 1 ELSE IF s = None THEN -1 ELSE Vercmp(s, t)
VerCmp(v1, v2) ==
    LET epoch(v) == IF v.e = None THEN <<"0">> ELSE v.e
        First(e, v, r) == IF e # 0 THEN e ELSE IF v # 0 THEN v ELSE r
    IN First(CompareValues(epoch(v1), epoch(v2)), CompareValues(v1.v, v2.v),
             CompareValues(v1.r, v2.r))

----------------------------------------------------------------------------
\* rpmdsCompareIndex() of dependencies [name, evr, flags]
Compare(a, b) ==
    /\ a.name = b.name
    /\ \/ a.flags = {} \/ b.flags = {} \/ a.evr = <<>> \/ b.evr = <<>>
       \/ Overlap(ParseEVR(a.evr), a.flags, ParseEVR(b.evr), b.flags)

\* rpmdsSearch(): positions are from 0 as in the code.  A binary search for the name,
\* which gives [l, u), and then one after the other.
NameAt(ds, k) == ds[k + 1].name
RECURSIVE NameRange(_, _, _, _)
NameRange(ds, name, l, u) ==
    LET i == (l + u) \div 2
        n == Len(ds)
        low == IF NameAt(ds, l) = name THEN l ELSE i
        first == Min({k \in 0..low : \A m \in k..low : NameAt(ds, m) = name})
        high == IF u >= n \/ NameAt(ds, u) # name THEN i ELSE u
        after == Min({k \in (high + 1)..n : k = n \/ NameAt(ds, k) # name})
    IN IF l >= u THEN <<l, u>>
       ELSE IF NameAt(ds, i) = name THEN <<first, after>>
       ELSE IF StrCmp(<<name>>, <<NameAt(ds, i)>>) < 0 THEN NameRange(ds, name, l, i)
       ELSE NameRange(ds, name, i + 1, u)
Search(ds, o) ==
    LET First(hits) == IF hits = {} THEN -1 ELSE Min(hits)
        In(range) == First({k \in range[1]..(range[2] - 1) : Compare(o, ds[k + 1])})
    IN In(NameRange(ds, o.name, 0, Len(ds)))

----------------------------------------------------------------------------
(* Reference: a version is a list of segments, which are compared one by   *)
(* one: a tilde is less than the end, the end less than a caret, that less *)
(* than letters, and letters less than numbers.                            *)
Segments(s) ==
    LET add(acc, c) ==
          LET kind == CASE c = "~" -> 0 [] c = "^" -> 2 [] IsAlpha(c) -> 3 [] IsDigit(c) -> 4 [] OTHER -> 5
          IN IF kind = acc.last /\ kind > 2
             THEN [acc EXCEPT !.segs[Len(acc.segs)].text = Append(@, c)]
             ELSE [last |-> kind, segs |-> Append(acc.segs, [kind |-> kind, text |-> <<c>>])]
        value(seg) == IF seg.kind = 4 THEN Atol(seg.text)
                      ELSE FoldLeft(LAMBDA n, k : 10 * n + (IF k \in DOMAIN seg.text THEN Code(seg.text[k]) ELSE 0),
                                    0, <<1, 2, 3, 4, 5>>)
        Values(kept) == [k \in DOMAIN kept |-> <<kept[k].kind, value(kept[k])>>] \o <<<<1, 0>>>>
    IN Values(SelectSeq(FoldLeft(add, [last |-> 1, segs |-> <<>>], s).segs,
                        LAMBDA g : g.kind # 5))
RefCmp(a, b) ==
    LET Less(x, y) == x[1] < y[1] \/ (x[1] = y[1] /\ x[2] < y[2])
        Differ(s, t, k) == IF Less(s[k], t[k]) THEN -1 ELSE 1
        Sign(s, t) ==
            IF s = t THEN 0 ELSE Differ(s, t, Min({n \in DOMAIN s \cap DOMAIN t : s[n] # t[n]}))
    IN Sign(Segments(a), Segments(b))

\* Does the full version x = [e, v, r] lie in the range of a dependency?
InRange(x, d, flags) ==
    LET First(e, v, r) == IF e # 0 THEN e ELSE IF v # 0 THEN v ELSE r
        In(sense) ==
            CASE sense < 0 -> "<" \in flags [] sense = 0 -> "=" \in flags [] OTHER -> ">" \in flags
    IN In(First(RefCmp(x.e, IF d.e = None THEN <<"0">> ELSE d.e), RefCmp(x.v, d.v),
                IF d.r = None THEN 0 ELSE RefCmp(x.r, d.r)))

\* rpmvercmp() is the order of the lists of segments, and so an order.
VercmpAgrees(a, versions) == \A b \in versions : Vercmp(a, b) = RefCmp(a, b)

\* What rpmverEVR() writes parseEVR() reads, if no part has a separator in it.
EvrReadBack(v) == ParseEVR(EVR(v)) = v

\* Two ranges overlap exactly when a version lies in both, where versions are dense; and
\* rpmverCmp() of full versions is 0 exactly when each is in the range of the other.
OverlapAgrees(a, ranges, xs) ==
    \A b \in ranges :
        /\ Overlap(a.v, a.f, b.v, b.f) <=> \E x \in xs : InRange(x, a.v, a.f) /\ InRange(x, b.v, b.f)
        /\ Present(a.v.r) /\ Present(b.v.r) =>
              (VerCmp(a.v, b.v) = 0 <=> Overlap(a.v, {"="}, b.v, {"="}))

\* The search in a sorted set finds the first entry that matches, if there is one.
SearchAgrees(ds, o) ==
    LET First(hits) == IF hits = {} THEN -1 ELSE Min(hits) - 1
    IN Search(ds, o) = First({k \in DOMAIN ds : Compare(o, ds[k])})
=============================================================================
