-------------------------------- MODULE Rpmdb --------------------------------
(***************************************************************************)
(* The database handle of lib/rpmdb.cc over a backend with savepoints      *)
(* (lib/backend/sqlite.cc): packages and the indexes computed from them,   *)
(* lookups by key, label and file, match iterators that skip damaged and   *)
(* filtered headers and write changed ones back, and the one caller that   *)
(* writes (markReplacedFiles() of lib/psm.cc).  The process may be killed  *)
(* at any point.                                                           *)
(***************************************************************************)
EXTENDS Integers, Sequences, FiniteSets, SequencesExt, FiniteSetsExt, TLC

CONSTANTS
    HeaderOf,       \* header id -> its tags
    Queries,        \* what iterators are made for
    Replacements,   \* lists of shared files, as the transaction found them
    MaxOps          \* bound on additions, removals, iterations and crashes

VARIABLES
    disk,           \* what is committed: packages, index records, the last number given out
    mem,            \* what the connection sees
    saves,          \* savepoints held
    op,             \* the addition or removal going on
    checked,        \* db_checked
    it,             \* the match iterator
    sfi,            \* shared files still to be marked
    out,            \* what the iterator returned: <<offset, header id>>
    iofail,         \* an index update failed
    ops             \* how much was done

vars == <<disk, mem, saves, op, checked, it, sfi, out, iofail, ops>>

Ids == DOMAIN HeaderOf
Tags == <<"NAME", "BASENAMES", "GROUP", "REQUIRENAME", "TRIGGERNAME", "FILETRIGGERNAME">>
NoOp == [kind |-> "none", off |-> 0, id |-> "", todo |-> <<>>]
NoIter == [pc |-> "none", set |-> <<>>, all |-> FALSE, setx |-> 0, off |-> 0, prev |-> 0, h |-> <<>>,
           modified |-> FALSE, write |-> FALSE, re |-> {}, sorted |-> FALSE, chk |-> FALSE]

Init ==
    /\ disk = [pkgs |-> <<>>, idx |-> {}, last |-> 0] /\ mem = disk /\ saves = 0
    /\ op = NoOp /\ checked = {} /\ it = NoIter /\ sfi = <<>> /\ out = <<>>
    /\ iofail = FALSE /\ ops = 0

-----------------------------------------------------------------------------
(* tag2index(): the keys of a header, each with its place in the tag *)

Each(values, Key(_)) == FlattenSeq([i \in DOMAIN values |-> Key(i)])

\* not the ones needed only while installing; a rich one also under the names in it
RequireKeys(h) ==
    Each(h.requires, LAMBDA i : IF h.requires[i].transient THEN <<>>
                                ELSE [j \in 1..(1 + Len(h.requires[i].rich)) |->
                                        <<IF j = 1 THEN h.requires[i].name ELSE h.requires[i].rich[j - 1], i - 1>>])

IndexKeys(id, tag) ==
    LET h == HeaderOf[id]
    IN CASE tag = "NAME" -> <<<<h.name, 0>>>>
         [] tag = "BASENAMES" -> [i \in DOMAIN h.files |-> <<h.files[i].base, i - 1>>]
         [] tag = "GROUP" -> <<<<IF h.group = "" THEN "Unknown" ELSE h.group, 0>>>>
         [] tag = "REQUIRENAME" -> RequireKeys(h)
         [] tag = "TRIGGERNAME" -> Each(h.triggers, LAMBDA i : IF \E j \in 1..(i - 1) : h.triggers[j] = h.triggers[i]
                                                             THEN <<>> ELSE <<<<h.triggers[i], i - 1>>>>)
         [] tag = "FILETRIGGERNAME" -> [i \in DOMAIN h.filetriggers |-> <<h.filetriggers[i].name, h.filetriggers[i].index>>]

Records(off, id, tag) == {[tag |-> tag, key |-> IndexKeys(id, tag)[k][1], off |-> off, num |-> IndexKeys(id, tag)[k][2]] : k \in DOMAIN IndexKeys(id, tag)}

-----------------------------------------------------------------------------
(* dbiIndexSet *)

Before(a, b) == a.off < b.off \/ (a.off = b.off /\ a.num < b.num)
Sorted(set) == SortSeq(set, Before)
Uniq(set) == LET s == Sorted(set) IN [k \in 1..Cardinality({r.off : r \in ToSet(s)}) |->
                                        s[CHOOSE j \in DOMAIN s : Cardinality({s[i].off : i \in 1..j}) = k
                                                                   /\ \A i \in 1..(j - 1) : s[i].off # s[j].off]]
Enum(S) == FoldSet(LAMBDA x, seq : Append(seq, x), <<>>, S)
Item(r) == [off |-> r.off, num |-> r.num]

\* indexGet(): the records of a key
IndexGet(tag, key) == Enum({Item(r) : r \in {r \in mem.idx : r.tag = tag /\ r.key = key}})
\* all of an index, key by key
IndexAll(tag) == LET keys == Enum({r.key : r \in {r \in mem.idx : r.tag = tag}})
                 IN FlattenSeq([k \in DOMAIN keys |-> IndexGet(tag, keys[k])])

Stored(off) == off \in DOMAIN mem.pkgs
IdAt(off) == mem.pkgs[off].id

\* dbiFindMatches(): the packages of a name, less those with another epoch, version, release, arch
Agrees(off, epoch, version, release, arch) ==
    /\ Stored(off)
    /\ LET h == HeaderOf[IdAt(off)]
       IN /\ version \in {"", "*", h.version} /\ release \in {"", "*", h.release} /\ arch \in {"", "*", h.arch}
          /\ epoch < 0 \/ epoch = (IF h.epoch < 0 THEN 0 ELSE h.epoch)
FindMatches(name, epoch, version, release, arch) ==
    LET named == IndexGet("NAME", name)
    IN IF epoch < 0 /\ version = "" /\ release = "" /\ arch = "" THEN named
       ELSE Sorted(SelectSeq(named, LAMBDA r : Agrees(r.off, epoch, version, release, arch)))

\* dbiFindByLabelArch(): a name, a name-[epoch:]version, a name-[epoch:]version-release
Join(words) == FoldLeft(LAMBDA s, w : IF s = "" THEN w.text ELSE s \o "-" \o w.text, "", words)
FindByLabelArch(words, arch) ==
    LET n == Len(words)
        First(asName, asVersion, asRelease) == IF asName # <<>> THEN asName ELSE IF asVersion # <<>> THEN asVersion ELSE asRelease
    IN First(FindMatches(Join(words), -1, "", "", arch),
             IF n < 2 THEN <<>> ELSE FindMatches(Join(SubSeq(words, 1, n - 1)), words[n].epoch, words[n].version, "", arch),
             IF n < 3 THEN <<>> ELSE FindMatches(Join(SubSeq(words, 1, n - 2)), words[n - 1].epoch, words[n - 1].version, words[n].text, arch))

\* dbiFindByLabel(): as it is, then with what follows the last dot as the architecture
Dotted(label) == IF label.arch = "" THEN label.words
                 ELSE [label.words EXCEPT ![Len(label.words)] =
                         [@ EXCEPT !.text = @ \o "." \o label.arch, !.version = @ \o "." \o label.arch]]
FindByLabel(label) ==
    LET Or(whole) == IF whole # <<>> \/ label.arch = "" THEN whole ELSE FindByLabelArch(label.words, label.arch)
    IN Or(FindByLabelArch(Dotted(label), ""))

\* rpmdbFindByFile(): the files of a basename whose directory is the same one, and that are
\* installed if the states count
FindByFile(base, dir, usestate) ==
    SelectSeq(IndexGet("BASENAMES", base), LAMBDA r :
      /\ Stored(r.off)
      /\ HeaderOf[IdAt(r.off)].files[r.num + 1].dir = dir
      /\ usestate => mem.pkgs[r.off].states[r.num + 1] = "normal")

-----------------------------------------------------------------------------
(* Savepoints: the outermost release commits *)

Commit(m, n) == disk' = IF n = 0 THEN m ELSE disk

Idle == op.kind = "none" /\ it.pc = "none" /\ ops < MaxOps

NoLock == saves' = saves
Lock == saves' = saves + 1

\* rpmdbAdd(): a header that lacks a tag is refused
RpmdbAdd(id) ==
    /\ Idle /\ HeaderOf[id].valid /\ ~\E o \in DOMAIN mem.pkgs : IdAt(o) = id
    /\ op' = [kind |-> "add", off |-> mem.last + 1, id |-> id, todo |-> Tags]
    /\ Lock /\ ops' = ops + 1
    /\ LET m == [mem EXCEPT !.last = @ + 1, !.pkgs = @ @@ ((mem.last + 1) :> [id |-> id, states |-> [i \in DOMAIN HeaderOf[id].files |-> "normal"]])]
       IN mem' = m /\ Commit(m, saves')
    /\ UNCHANGED <<checked, it, sfi, out, iofail>>

RpmdbRemove(off) ==
    /\ Idle /\ off \in DOMAIN mem.pkgs
    /\ op' = [kind |-> "remove", off |-> off, id |-> IdAt(off), todo |-> Tags]
    /\ Lock /\ ops' = ops + 1
    /\ LET m == [mem EXCEPT !.pkgs = [o \in DOMAIN mem.pkgs \ {off} |-> mem.pkgs[o]]]
       IN mem' = m /\ Commit(m, saves')
    /\ UNCHANGED <<checked, it, sfi, out, iofail>>

\* one index after the other; one that cannot be opened or written does not stop the rest
UpdateIndex ==
    /\ op.todo # <<>>
    /\ LET recs == Records(op.off, op.id, Head(op.todo))
           m == [mem EXCEPT !.idx = IF op.kind = "add" THEN @ \cup recs ELSE {r \in @ : r.tag # Head(op.todo) \/ r.off # op.off}]
       IN \/ mem' = m /\ Commit(m, saves) /\ UNCHANGED iofail
          \/ recs # {} /\ ~iofail /\ iofail' = TRUE /\ UNCHANGED <<mem, disk>>
    /\ op' = [op EXCEPT !.todo = Tail(@)]
    /\ UNCHANGED <<saves, checked, it, sfi, out, ops>>

\* the release, and what is known of checked headers is forgotten when a key was added
EndUpdate ==
    /\ op.kind # "none" /\ op.todo = <<>>
    /\ saves' = (IF saves > 0 THEN saves - 1 ELSE 0) /\ Commit(mem, saves')
    /\ checked' = IF op.kind = "add" /\ HeaderOf[op.id].pubkeys /\ ~iofail THEN {} ELSE checked
    /\ op' = NoOp
    /\ UNCHANGED <<mem, it, sfi, out, iofail, ops>>

\* the process is killed: what was not committed is gone
Crash ==
    /\ ops < MaxOps /\ ops' = ops + 1
    /\ mem' = disk /\ saves' = 0 /\ op' = NoOp /\ it' = NoIter /\ sfi' = <<>> /\ out' = <<>> /\ checked' = {}
    /\ UNCHANGED <<disk, iofail>>

-----------------------------------------------------------------------------
(* Match iterators *)

\* the records of a query; no iterator when there are none
SetOf(q) ==
    CASE q.tag = "LABEL" -> FindByLabel(q.label)
      [] q.tag = "FILE" -> FindByFile(q.key, q.dir, FALSE)
      [] q.tag = "INSTFILE" -> FindByFile(q.key, q.dir, TRUE)
      [] q.key = "" -> IndexAll(q.tag)
      [] OTHER -> IndexGet(q.tag, q.key)
\* sorted when made for a key, until extended by another; then sorted again or reduced to one
\* record a package by those who ask for it
Extended(q, set) == set \o FlattenSeq([k \in DOMAIN q.more |-> IndexGet(q.tag, q.more[k])])
Pruned(q, set) == IF q.prune = {} THEN set ELSE Sorted(SelectSeq(set, LAMBDA r : r.off \notin q.prune))

\* rpmdbSetIteratorRE(), rpmdbSetHdrChk(): the selectors and the check of the caller
Selecting(i, q) == [i EXCEPT !.re = q.re, !.chk = q.chk]

InitIterator(q) ==
    /\ Idle /\ q.tag # "PACKAGES"
    /\ \E set \in {SetOf(q)} :
       LET kept == Pruned(q, IF q.more = <<>> /\ (q.key # "" \/ q.tag = "LABEL") THEN Sorted(set) ELSE Extended(q, set))
       IN /\ set # <<>>
          /\ it' = Selecting([NoIter EXCEPT !.pc = "top", !.set = IF q.uniq THEN Uniq(kept) ELSE kept,
                                            !.sorted = q.uniq \/ (q.more = <<>> /\ (q.key # "" \/ q.tag = "LABEL"))], q)
    /\ out' = <<>> /\ ops' = ops + 1
    /\ UNCHANGED <<disk, mem, saves, op, checked, sfi, iofail>>

\* over all packages, with a cursor
InitPackages(q) ==
    /\ Idle /\ q.tag = "PACKAGES"
    /\ it' = Selecting([NoIter EXCEPT !.pc = "top", !.all = TRUE, !.sorted = TRUE], q)
    /\ out' = <<>> /\ ops' = ops + 1
    /\ UNCHANGED <<disk, mem, saves, op, checked, sfi, iofail>>

\* markReplacedFiles(): an iterator over the packages of a list, in the list's order; its
\* cursor writes, so it holds a savepoint
MarkReplaced(list) ==
    /\ Idle /\ \A k \in DOMAIN list : Stored(list[k].off) /\ list[k].num < Len(mem.pkgs[list[k].off].states)
    /\ LET offs == SelectSeq([k \in DOMAIN list |-> [off |-> list[k].off, num |-> 0, first |-> k = 1 \/ list[k].off # list[k - 1].off]],
                             LAMBDA r : r.first)
       IN it' = [NoIter EXCEPT !.pc = "top", !.set = [k \in DOMAIN offs |-> [off |-> offs[k].off, num |-> 0]],
                               !.write = TRUE, !.chk = TRUE]
    /\ sfi' = list /\ out' = <<>> /\ Lock /\ ops' = ops + 1
    /\ UNCHANGED <<disk, mem, op, checked, iofail>>

Value(id, tag) == CASE tag = "EPOCH" -> IF HeaderOf[id].epoch = 1 THEN {"1"} ELSE {"0"}
                    [] tag = "VERSION" -> {HeaderOf[id].version}
                    [] tag = "ARCH" -> {HeaderOf[id].arch} \ {""}
                    [] tag = "BASENAMES" -> {HeaderOf[id].files[i].base : i \in DOMAIN HeaderOf[id].files}
\* mireSkip(): any pattern of a tag, all of the tags; a tag that is not there matches nothing,
\* but no epoch is epoch 0
Passes(mire, v) == (mire.pattern = v) # mire.notmatch
MireSkip(i, id) ==
    LET tags == {m.tag : m \in i.re}
        matched == {t \in tags : \E m \in i.re : m.tag = t /\ \E v \in Value(id, t) : Passes(m, v)}
    IN tags # matched

Later(i) == {o \in DOMAIN mem.pkgs : o > i.off}
\* the next record of the set, or of the cursor; 0: no more
NextOffset(i) ==
    IF i.all THEN (IF Later(i) = {} THEN 0 ELSE Min(Later(i)))
    ELSE IF i.setx < Len(i.set) THEN i.set[i.setx + 1].off ELSE 0

WriteBackHere(i) ==
    IF i.h # <<>> /\ i.write /\ i.modified /\ NextOffset(i) # 0 /\ HeaderOf[i.h[1].id].good
    THEN [mem EXCEPT !.pkgs[NextOffset(i)] = i.h[1]] ELSE mem
\* miFreeHeader(): the header held is written to where the last one returned came from
WriteBack(i) ==
    IF i.h # <<>> /\ i.write /\ i.modified /\ i.prev # 0 /\ HeaderOf[i.h[1].id].good
    THEN [mem EXCEPT !.pkgs[i.prev] = i.h[1]] ELSE mem

\* miVerifyHeader(): one that was found good is not looked at again
Fails(i, off) == i.chk /\ off \notin checked /\ ~HeaderOf[IdAt(off)].good

\* mi_prevoffset is only set for a header that is returned
Returned(i, off, skip) == IF skip THEN i.prev ELSE off

\* one turn of rpmdbNextIterator()
NextIterator ==
    /\ it.pc = "top"
    /\ LET off == NextOffset(it)
           i == [it EXCEPT !.off = off, !.setx = @ + 1]
       IN IF off = 0 \/ ~Stored(off)
          THEN /\ it' = [it EXCEPT !.pc = "end"]
               /\ UNCHANGED <<mem, disk, checked, out>>
          ELSE IF it.prev # 0 /\ off = it.prev
          THEN /\ it' = [i EXCEPT !.pc = IF it.h = <<>> THEN "end" ELSE "client"]
               /\ out' = IF it.h = <<>> THEN out ELSE Append(out, <<off, it.h[1].id>>)
               /\ UNCHANGED <<mem, disk, checked>>
          ELSE LET m == WriteBack(it)
                   h == mem.pkgs[off]
                   bad == Fails(it, off)
                   skip == bad \/ MireSkip(it, h.id)
               IN /\ mem' = m /\ Commit(m, saves)
                  /\ checked' = IF it.chk /\ ~bad THEN checked \cup {off} ELSE checked
                  /\ it' = [i EXCEPT !.h = IF bad THEN <<>> ELSE <<h>>,
                                     !.prev = Returned(it, off, skip),
                                     !.modified = IF skip THEN @ ELSE FALSE,
                                     !.pc = IF skip THEN "top" ELSE "client"]
                  /\ out' = IF skip THEN out ELSE Append(out, <<off, h.id>>)
    /\ UNCHANGED <<saves, op, sfi, iofail, ops>>

\* the caller has its header and asks for the next
Continue ==
    /\ it.pc = "client" /\ ~it.write
    /\ it' = [it EXCEPT !.pc = "top"]
    /\ UNCHANGED <<disk, mem, saves, op, checked, sfi, out, iofail, ops>>

\* the shared files of this package are marked, and the header is written with the next turn
Mark ==
    /\ it.pc = "client" /\ it.write
    /\ LET n == CHOOSE n \in 0..Len(sfi) : /\ \A k \in 1..n : sfi[k].off = it.off
                                          /\ n < Len(sfi) => sfi[n + 1].off # it.off
           these == SubSeq(sfi, 1, n)
           marked == FoldLeft(LAMBDA h, s : [h EXCEPT !.states[s.num + 1] = s.state], it.h[1], these)
       IN /\ it' = [it EXCEPT !.pc = "top", !.h = <<marked>>, !.modified = @ \/ marked # it.h[1]]
          /\ sfi' = SubSeq(sfi, n + 1, Len(sfi))
    /\ UNCHANGED <<disk, mem, saves, op, checked, out, iofail, ops>>

\* the iterator is freed at its end, or by a caller that has what it wanted
FreeIterator ==
    /\ it.pc = "end" \/ (it.pc = "client" /\ ~it.write)
    /\ saves' = IF it.write THEN saves - 1 ELSE saves
    /\ mem' = WriteBack(it) /\ Commit(mem', saves')
    /\ it' = NoIter
    /\ UNCHANGED <<op, checked, sfi, out, iofail, ops>>

Next ==
    \/ (\E id \in Ids : RpmdbAdd(id)) \/ (\E off \in 1..mem.last : RpmdbRemove(off)) \/ UpdateIndex \/ EndUpdate \/ Crash
    \/ (\E q \in Queries : InitIterator(q) \/ InitPackages(q)) \/ (\E l \in Replacements : MarkReplaced(l))
    \/ NextIterator \/ Continue \/ Mark \/ FreeIterator
Spec == Init /\ [][Next]_vars

-----------------------------------------------------------------------------

(* Whatever was added or removed, and wherever the process was killed, the *)
(* indexes hold the keys of the packages that are stored and of no other,  *)
(* unless an index could not be written: the savepoint that rpmdbAdd() and *)
(* rpmdbRemove() take makes the package and its index records one change.  *)
IndexFollowsPackages ==
    op.kind = "none" /\ ~iofail =>
      \A d \in {disk, mem} :
        d.idx = UNION {Records(o, d.pkgs[o].id, Tags[t]) : o \in DOMAIN d.pkgs, t \in DOMAIN Tags}

Whole(i) == IF i.all THEN Sorted(Enum({[off |-> o, num |-> 0] : o \in DOMAIN mem.pkgs})) ELSE i.set
Wanted(i) == SelectSeq(Whole(i), LAMBDA r : (i.chk => HeaderOf[IdAt(r.off)].good \/ r.off \in checked)
                                           /\ ~MireSkip(i, IdAt(r.off)))
(* An iterator over a sorted set returns, for every record of a header     *)
(* that is good and passes the selectors, that header and no other, in     *)
(* order, whatever it had to skip in between (rpmdbNextIterator); a stale  *)
(* record of the index, left by an update that failed, would end it early. *)
IterationExact ==
    it.pc = "end" /\ it.sorted /\ (\A k \in DOMAIN it.set : Stored(it.set[k].off)) =>
      out = [k \in DOMAIN Wanted(it) |-> <<Wanted(it)[k].off, IdAt(Wanted(it)[k].off)>>]

KeepsPackage == \A o \in DOMAIN mem.pkgs \cap DOMAIN mem'.pkgs : mem'.pkgs[o].id = mem.pkgs[o].id
(* The header an iterator writes back goes to the record it was read from, *)
(* though the iterator has moved on when it writes (miFreeHeader): a       *)
(* record never becomes another package's.                                 *)
RecordKeepsPackage == [][KeepsPackage]_vars
=============================================================================
