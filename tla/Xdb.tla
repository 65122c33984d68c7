---------------------------------- MODULE Xdb ----------------------------------
(***************************************************************************)
(* The blobs of Index.db, lib/backend/ndb/rpmxdb.c: pages with a table of  *)
(* slots in front, grown, shrunk, moved and renamed in place while other   *)
(* processes have them mapped.                                             *)
(*                                                                         *)
(* An operation is a function from a state of the file and of the process  *)
(* to the states its writes leave the file in, the last one being where it *)
(* ends: a process that is killed leaves one of them behind.  Every        *)
(* operation runs under the exclusive lock of Packages.db (NdbIndex).      *)
(*                                                                         *)
(* The chain of used slots is a sequence, in the order of their pages;     *)
(* slots[0], the table itself, is before its first element, and the slot   *)
(* of the end of the file is after its last one.                           *)
(***************************************************************************)
EXTENDS Integers, Sequences, FiniteSets, SequencesExt, FiniteSetsExt, TLC

CONSTANTS
    Procs, First,   \* processes; the one that has the blobs of the first file mapped
    TagOrder,   \* what names a blob, its tag and subtag; the first SPP of them are in the first file
    SPP,        \* slots of a page (the code: 16 or more)
    MaxCnt,     \* bound: pages of a blob
    Gap,        \* free pages of the first file
    MaxOps,     \* bound: operations
    MaxKill,    \* bound: operations that can be killed
    Wrap        \* stands for 2^32: a number of pages no file has

VARIABLES
    disk,       \* the file: generation, npages, slots and pages (page n is pages[n + 1])
    mem,        \* mem[p]: what p has read and computed of it, NoMem if nothing
    blob,       \* history: tag -> the contents its pages have to have
    before,     \* history: the same, before the operation that was killed
    victim,     \* history: the blob that operation deletes
    crashed,    \* a process was killed and nobody has opened the file since
    ops

vars == <<disk, mem, blob, before, victim, crashed, ops>>

Tags == ToSet(TagOrder)
None == [tag |-> "", start |-> 0, cnt |-> 0]
NoMem == [gen |-> -1]
Unmapped == <<-1, 0>>
\* where a blob is mapped to; one without pages is not, but follows when it gets some
Mapped(start, cnt) == IF cnt = 0 THEN <<0, 0>> ELSE <<start, cnt>>

-----------------------------------------------------------------------------
(* The file *)

\* rpmxdbReadHeader(): used slots by their pages, which may not overlap; empty ones count as right after the table
Sorted(d) ==
    LET At(i) == IF d.slots[i].cnt = 0 THEN d.npages ELSE d.slots[i].start
        Before(i, j) == At(i) < At(j) \/ (At(i) = At(j) /\ d.slots[i].cnt < d.slots[j].cnt)
                         \/ (At(i) = At(j) /\ d.slots[i].cnt = d.slots[j].cnt /\ i < j)
    IN SortSeq(SelectSeq([i \in 1..Len(d.slots) |-> i], LAMBDA i : d.slots[i].start # 0), Before)
Readable(d) ==
    LET o == Sorted(d)
        End(k) == IF k = 0 \/ d.slots[o[k]].cnt = 0 THEN d.npages ELSE d.slots[o[k]].start + d.slots[o[k]].cnt
    IN \A k \in DOMAIN o : d.slots[o[k]].cnt > 0 => d.slots[o[k]].start >= End(k - 1)
Parsed(d) ==
    [gen |-> d.gen, npages |-> d.npages, chain |-> Sorted(d), tail |-> Len(d.pages),
     free |-> SelectSeq([i \in 1..Len(d.slots) |-> i], LAMBDA i : d.slots[i].start = 0),
     used |-> Cardinality(UNION {{i} \X (1..d.slots[i].cnt) : i \in DOMAIN d.slots}),
     slots |-> [i \in DOMAIN d.slots |->
                  [d.slots[i] EXCEPT !.start = IF @ # 0 /\ d.slots[i].cnt = 0 THEN d.npages ELSE @]],
     map |-> [i \in DOMAIN d.slots |-> Unmapped]]

\* Mutant: a blob counts as moved only if it has another size.
SyncedBySize(old, new) ==
    IF old = NoMem THEN new
    ELSE [new EXCEPT !.map = [i \in DOMAIN @ |->
            IF /\ i \in DOMAIN old.map /\ old.map[i] # Unmapped
               /\ new.slots[i].start # 0 /\ new.slots[i].tag = old.slots[i].tag
            THEN IF new.slots[i].cnt = old.slots[i].cnt THEN old.map[i] ELSE Mapped(new.slots[i].start, new.slots[i].cnt)
            ELSE Unmapped]]

\* the rest of it: what the process has mapped stays so if its slot is the same, and follows it if it moved
Synced(old, new) ==
    IF old = NoMem THEN new
    ELSE [new EXCEPT !.map = [i \in DOMAIN @ |->
            IF /\ i \in DOMAIN old.map /\ old.map[i] # Unmapped
               /\ new.slots[i].start # 0 /\ new.slots[i].tag = old.slots[i].tag
            THEN Mapped(new.slots[i].start, new.slots[i].cnt) ELSE Unmapped]]
ReadHeader(p) == IF mem[p].gen = disk.gen THEN mem[p] ELSE Synced(mem[p], Parsed(disk))

-----------------------------------------------------------------------------
(* Writes: s.d, s.m are the file and the process, s.log the files so far, s.ok *)

Put(s, d) == [s EXCEPT !.d = d, !.log = Append(@, d)]
\* what is done unless something failed
Then(s, F(_)) == IF s.ok THEN F(s) ELSE s
Overlay(pages, at, new) ==
    [i \in 1..Max({Len(pages), at + Len(new)}) |->
        IF i > at /\ i <= at + Len(new) THEN new[i - at] ELSE IF i <= Len(pages) THEN pages[i] ELSE "0"]
\* pwrite(); s.left of them succeed
PWrite(s, at, new) ==
    IF new = <<>> \/ ~s.ok THEN s
    ELSE IF s.left = 0 THEN [s EXCEPT !.ok = FALSE]
    ELSE Put([s EXCEPT !.left = @ - 1], [s.d EXCEPT !.pages = Overlay(@, at, new)])
WriteEmptyPages(s, at, count) == PWrite(s, at, [i \in 1..count |-> "0"])
WriteSlotPage(s, at) == PWrite(s, at, <<"slots">>)

\* rpmxdbUpdateSlot(), of the header that is mapped
UpdateSlot(s, i) ==
    Put([s EXCEPT !.m.gen = @ + 1],
        [s.d EXCEPT !.gen = s.m.gen + 1,
                    !.slots[i] = [s.m.slots[i] EXCEPT !.start = IF @ # 0 /\ s.m.slots[i].cnt = 0 THEN 1 ELSE @]])

-----------------------------------------------------------------------------
(* Free pages: after the k-th slot of the chain *)

EndOf(m, k) == IF k = 0 THEN m.npages ELSE m.slots[m.chain[k]].start + m.slots[m.chain[k]].cnt
NextStart(m, k) == IF k = Len(m.chain) THEN m.tail ELSE m.slots[m.chain[k + 1]].start
Room(m, k) == (NextStart(m, k) - EndOf(m, k)) % Wrap
Place(m, i) == IF \E k \in DOMAIN m.chain : m.chain[k] = i THEN CHOOSE k \in DOMAIN m.chain : m.chain[k] = i ELSE 0
Unchain(chain, i) == SelectSeq(chain, LAMBDA j : j # i)
ChainAfter(chain, i, k) ==
    IF (k > 0 /\ chain[k] = i) \/ (k < Len(chain) /\ chain[k + 1] = i) THEN chain
    ELSE Unchain(SubSeq(chain, 1, k), i) \o <<i>> \o Unchain(SubSeq(chain, k + 1, Len(chain)), i)

\* moveblobto(): the content first, then the slot
ContentFirst(s, i, to, n) ==
    LET old == s.m.slots[i]
        content == SubSeq(s.d.pages, old.start + 1, old.start + Min({n, old.cnt}))
    IN Then(WriteEmptyPages(PWrite(s, to, content), to + old.cnt, Max({0, n - old.cnt})),
            LAMBDA t : UpdateSlot([t EXCEPT !.m.slots[i].start = to, !.m.slots[i].cnt = n], i))
MoveBlobTo(s, i, k, n) ==
    LET to == EndOf(s.m, k)
    IN IF n > Room(s.m, k) THEN [s EXCEPT !.ok = FALSE]
       ELSE Then(ContentFirst(s, i, to, n),
                 LAMBDA t : [t EXCEPT !.m.used = @ - s.m.slots[i].cnt + n, !.m.chain = ChainAfter(@, i, k),
                                      !.m.map[i] = IF @ = Unmapped THEN Unmapped ELSE Mapped(to, n)])
\* moveblob(): to the first place that is large enough, or to the end of the file
MoveBlob(s, i, n) ==
    LET k == Min({j \in 0..Len(s.m.chain) : Room(s.m, j) >= n} \cup {Len(s.m.chain)})
        missing == Max({0, n - Room(s.m, k)})
    IN Then(WriteEmptyPages(s, s.m.tail, missing), LAMBDA t : MoveBlobTo([t EXCEPT !.m.tail = @ + missing], i, k, n))

\* moveblobstofront(): the two last blobs, the larger one first
ToFront(s, i, k) == IF i = 0 THEN s ELSE MoveBlobTo(s, i, k, s.m.slots[i].cnt)
Fits(s, i, from, room) == i # 0 /\ s.m.slots[i].cnt \in 1..room /\ s.m.slots[i].start > from
Fitting(s, i, from, room) == IF Fits(s, i, from, room) THEN i ELSE 0
SecondToFront(s, first, second, k, from, room) ==
    LET cnt == IF first = 0 THEN 0 ELSE s.m.slots[first].cnt
    IN ToFront(s, Fitting(s, second, from + cnt, room - cnt), IF first = 0 THEN k ELSE Place(s.m, first))
BothToFront(s, first, second, k, from, room) ==
    Then(ToFront(s, first, k), LAMBDA t : SecondToFront(t, first, second, k, from, room))
MoveBlobsToFront(s, k) ==
    LET c == s.m.chain
        FromEnd(n) == IF Len(c) > n THEN c[Len(c) - n] ELSE 0
        swap == FromEnd(1) # 0 /\ s.m.slots[FromEnd(0)].cnt < s.m.slots[FromEnd(1)].cnt
        from == EndOf(s.m, k)
        room == Room(s.m, k)
    IN BothToFront(s, Fitting(s, FromEnd(IF swap THEN 1 ELSE 0), from, room), FromEnd(IF swap THEN 0 ELSE 1), k, from, room)

-----------------------------------------------------------------------------
(* Operations *)

\* addslotpage(): the blob behind the table makes room
AddSlotPage(s) ==
    LET full == SelectSeq(s.m.chain, LAMBDA i : s.m.slots[i].cnt # 0)
        moved == IF full # <<>> /\ s.m.slots[full[1]].start = s.m.npages
                 THEN MoveBlob(s, full[1], s.m.slots[full[1]].cnt) ELSE s
        n == s.m.npages + 1
        More(m) ==
            [m EXCEPT !.npages = n, !.gen = @ + 1, !.free = [i \in 1..SPP |-> Len(m.slots) + i],
                      !.slots = [i \in 1..Len(@) + SPP |-> IF i > Len(@) THEN None
                                   ELSE IF @[i].start # 0 /\ @[i].start < n THEN [@[i] EXCEPT !.start = n] ELSE @[i]],
                      !.map = @ \o [i \in 1..SPP |-> Unmapped]]
    IN Then(WriteSlotPage(moved, s.m.npages),
            LAMBDA u : Put([u EXCEPT !.m = More(@)],
                           [u.d EXCEPT !.npages = n, !.gen = u.m.gen + 1, !.slots = @ \o [i \in 1..SPP |-> None]]))

CreateBlob(s, tag) ==
    LET Take(t, i) ==
            UpdateSlot([t EXCEPT !.m.slots[i] = [tag |-> tag, start |-> t.m.npages, cnt |-> 0],
                                 !.m.free = Tail(@), !.m.chain = <<i>> \o @], i)
    IN Then(IF s.m.free = <<>> THEN AddSlotPage(s) ELSE s, LAMBDA t : Take(t, Head(t.m.free)))

\* rpmxdbDelBlob(): the last blobs move to the front if much is free; the file is cut if a quarter of it is
CutAt(s, end) ==
    IF end < (s.m.tail \div 4) * 3
    THEN Put([s EXCEPT !.m.tail = end], [s.d EXCEPT !.pages = SubSeq(Overlay(@, end, <<>>), 1, end)]) ELSE s
Cut(s) == CutAt(s, EndOf(s.m, Len(s.m.chain)))
Released(s, i) == [UpdateSlot([s EXCEPT !.ok = TRUE, !.m.slots[i] = None], i) EXCEPT !.m.free = <<i>> \o @]
DelBlob(s, i) ==
    LET old == s.m.slots[i]
        t == [s EXCEPT !.m.map[i] = Unmapped, !.m.chain = Unchain(@, i), !.m.used = @ - old.cnt]
        sparse == (s.m.used - old.cnt) * 2 < s.m.tail /\ (old.start + old.cnt) * 2 < s.m.tail
    IN Cut(Released(IF sparse THEN MoveBlobsToFront(t, Place(s.m, i) - 1) ELSE t, i))

\* rpmxdbResizeBlob(), to n pages; rpmidx.c asks for whole pages, so that there is no rest of
\* a page to be zeroed
ResizeBlob(s, i, n) ==
    LET old == s.m.slots[i]
        k == Place(s.m, i)
        zero == [s EXCEPT !.m.slots[i].cnt = 0, !.m.slots[i].start = s.m.npages, !.m.used = @ - old.cnt,
                          !.m.chain = <<i>> \o Unchain(@, i), !.m.map[i] = IF @ = Unmapped THEN @ ELSE Mapped(0, 0)]
    IN IF n = old.cnt THEN s
       ELSE IF n = 0 THEN UpdateSlot(zero, i)
       ELSE IF n > (NextStart(s.m, k) - old.start) % Wrap THEN MoveBlob(s, i, n)
       ELSE Then(WriteEmptyPages(s, old.start + old.cnt, Max({0, n - old.cnt})),
                 LAMBDA t : UpdateSlot([t EXCEPT !.m.slots[i].cnt = n, !.m.used = @ - old.cnt + n,
                                                 !.m.map[i] = IF @ = Unmapped THEN @ ELSE Mapped(old.start, n)], i))

LookupBlob(m, tag) == LET s == SelectSeq(m.chain, LAMBDA i : m.slots[i].tag = tag) IN IF s = <<>> THEN 0 ELSE s[1]

\* rpmxdbRenameBlob(): a blob of that name is deleted, and its slot taken
TakeOver(s, i, other, tag) ==
    UpdateSlot([s EXCEPT !.m.slots[other] = [s.m.slots[i] EXCEPT !.tag = tag], !.m.map[other] = s.m.map[i],
                         !.m.chain = [k \in DOMAIN @ |-> IF @[k] = i THEN other ELSE @[k]]], other)
GiveUp(s, i) == UpdateSlot([s EXCEPT !.m.slots[i] = None, !.m.map[i] = Unmapped, !.m.free = <<i>> \o Tail(@)], i)
RenameBlob(s, i, tag) ==
    LET other == LookupBlob(s.m, tag)
    IN IF s.m.slots[i].tag = tag THEN s
       ELSE IF other = 0 THEN UpdateSlot([s EXCEPT !.m.slots[i].tag = tag], i)
       ELSE GiveUp(TakeOver(DelBlob(s, other), i, other, tag), i)

Content(d, slot) == SubSeq(d.pages, slot.start + 1, slot.start + slot.cnt)
Without(f, t) == [u \in DOMAIN f \ {t} |-> f[u]]
Resized(c, n) == [i \in 1..n |-> IF i <= Len(c) THEN c[i] ELSE "0"]

\* The generation only tells whether a process has seen the last change
Settle(p, d, m) ==
    /\ disk' = [d EXCEPT !.gen = 0]
    /\ mem' = [q \in Procs |-> IF q = p THEN (IF m = NoMem THEN m ELSE [m EXCEPT !.gen = 0])
                               ELSE IF d.gen # disk.gen THEN [mem[q] EXCEPT !.gen = -1] ELSE mem[q]]
\* An operation of a process that runs to its end, with pwrite() failing or not, or is killed after a write
Operate(p, Run(_), result, gone) ==
    /\ ~crashed /\ ops < MaxOps
    /\ \E s \in {Run([d |-> disk, m |-> ReadHeader(p), log |-> <<>>, left |-> n, ok |-> TRUE]) : n \in {0, 1, MaxCnt + 2}} :
         /\ blob' = IF s.ok THEN result ELSE blob
         /\ \/ Settle(p, s.d, s.m) /\ ops' = ops + 1 /\ UNCHANGED <<before, victim, crashed>>
            \/ ops < MaxKill /\ \E k \in DOMAIN s.log : Settle(p, s.log[k], NoMem) /\ before' = blob /\ victim' = gone /\ crashed' = TRUE /\ ops' = MaxOps

Create(p, t) == t \notin DOMAIN blob /\ Operate(p, LAMBDA s : CreateBlob(s, t), (t :> <<>>) @@ blob, "")
Resize(p, t, n) ==
    t \in DOMAIN blob /\ Operate(p, LAMBDA s : ResizeBlob(s, LookupBlob(s.m, t), n), (t :> Resized(blob[t], n)) @@ blob, "")
Delete(p, t) == t \in DOMAIN blob /\ Operate(p, LAMBDA s : DelBlob(s, LookupBlob(s.m, t)), Without(blob, t), t)
Rename(p, t, to) ==
    t \in DOMAIN blob /\ t # to /\ Operate(p, LAMBDA s : RenameBlob(s, LookupBlob(s.m, t), to), (to :> blob[t]) @@ Without(blob, t), to)

\* rpmxdbMapBlob(), rpmxdbUnmapBlob()
Map(p, t) ==
    LET m == ReadHeader(p)
        i == LookupBlob(m, t)
    IN /\ ~crashed /\ ops < MaxOps /\ ops' = ops + 1 /\ i # 0 /\ m.map[i] = Unmapped
       /\ mem' = [mem EXCEPT ![p] = [m EXCEPT !.gen = 0, !.map[i] = Mapped(m.slots[i].start, m.slots[i].cnt)]]
       /\ UNCHANGED <<disk, blob, before, victim, crashed>>
Unmap(p, t) ==
    LET m == ReadHeader(p)
        i == LookupBlob(m, t)
    IN /\ ~crashed /\ ops < MaxOps /\ ops' = ops + 1 /\ i # 0 /\ m.map[i] # Unmapped
       /\ mem' = [mem EXCEPT ![p] = [m EXCEPT !.gen = 0, !.map[i] = Unmapped]]
       /\ UNCHANGED <<disk, blob, before, victim, crashed>>
\* what rpmidx.c writes to a blob it has mapped
Fill(p, t) ==
    LET m == ReadHeader(p)
        i == LookupBlob(m, t)
        new == [j \in 1..m.slots[i].cnt |-> t]
    IN /\ ~crashed /\ ops < MaxOps /\ ops' = ops + 1 /\ i # 0 /\ m.map[i] # Unmapped /\ m.map[i][2] # 0
       /\ disk' = [disk EXCEPT !.pages = Overlay(@, m.map[i][1], [j \in 1..m.map[i][2] |-> t])]
       /\ blob' = [blob EXCEPT ![t] = [j \in DOMAIN @ |-> t]] /\ mem' = [mem EXCEPT ![p] = [m EXCEPT !.gen = 0]]
       /\ UNCHANGED <<before, victim, crashed>>

\* rpmxdbDelAllBlobs(), of an index that is out of date or cannot be read
Fresh == [gen |-> 0, npages |-> 1, slots |-> [i \in 1..SPP |-> None], pages |-> <<"slots">>]
DelAllBlobs(p) ==
    /\ crashed /\ crashed' = FALSE /\ blob' = <<>> /\ before' = <<>> /\ victim' = "" /\ disk' = Fresh /\ UNCHANGED ops
    /\ mem' = [q \in Procs |-> IF q = p THEN NoMem ELSE [mem[q] EXCEPT !.gen = -1]]
\* the next process finds the file as it is
Reopen ==
    /\ crashed /\ Readable(disk) /\ crashed' = FALSE /\ before' = <<>> /\ victim' = ""
    /\ LET m == Parsed(disk) IN blob' = [t \in {m.slots[i].tag : i \in ToSet(m.chain)} |-> Content(disk, m.slots[LookupBlob(m, t)])]
    /\ UNCHANGED <<disk, mem, ops>>

\* A file others have left: a blob of cnt[i] pages in the i-th slot, Gap free pages before one of them; one process
\* has them mapped
Laid(cnt, at) ==
    LET n == Len(cnt)
        Start(i) == 1 + FoldLeft(LAMBDA x, y : x + y, IF at <= i THEN Gap ELSE 0, SubSeq(cnt, 1, i - 1))
        Page(k) == LET own == {i \in 1..n : k >= Start(i) /\ k < Start(i) + cnt[i]}
                   IN IF own = {} THEN "0" ELSE TagOrder[CHOOSE i \in own : TRUE]
    IN [Fresh EXCEPT !.pages = [k \in 1..Start(n + 1) |-> IF k = 1 THEN "slots" ELSE Page(k - 1)],
                     !.slots = [i \in DOMAIN @ |-> IF i > n THEN None
                                  ELSE [tag |-> TagOrder[i], start |-> IF cnt[i] = 0 THEN 1 ELSE Start(i), cnt |-> cnt[i]]]]
\* at most one blob without pages; the free pages before the first or the last blob, or none
Counts == {cnt \in [1..SPP -> 0..MaxCnt] : Cardinality({i \in 1..SPP : cnt[i] = 0}) <= 1}
Layouts == {Laid(cnt, at) : cnt \in Counts, at \in {1, SPP, SPP + 2}}
Init ==
    /\ disk \in Layouts \cup {Fresh} /\ before = <<>> /\ victim = "" /\ crashed = FALSE /\ ops = 0
    /\ LET m == Parsed(disk)
       IN /\ mem = [p \in Procs |-> IF p # First THEN NoMem
                      ELSE [m EXCEPT !.map = [i \in DOMAIN @ |-> IF m.slots[i].start = 0 THEN Unmapped ELSE Mapped(m.slots[i].start, m.slots[i].cnt)]]]
          /\ blob = [t \in {m.slots[i].tag : i \in ToSet(m.chain)} |-> Content(disk, m.slots[LookupBlob(m, t)])]

Next ==
    \/ \E p \in Procs, t \in Tags :
         \/ Create(p, t) \/ Delete(p, t) \/ Map(p, t) \/ Unmap(p, t) \/ Fill(p, t)
         \/ \E n \in 0..MaxCnt : Resize(p, t, n)
         \/ \E u \in Tags : Rename(p, t, u)
    \/ \E p \in Procs : DelAllBlobs(p)
    \/ Reopen
Spec == Init /\ [][Next]_vars

-----------------------------------------------------------------------------

(* Whatever blobs are created, grown, shrunk, moved, renamed and deleted,  *)
(* by whichever process, each one has the content that was written to it,  *)
(* and what a process has mapped of it is where it is (moveblobto,         *)
(* rpmxdbReadHeader).                                                      *)
BlobsIntact ==
    ~crashed => \A p \in Procs :
        LET m == ReadHeader(p)
        IN /\ {m.slots[i].tag : i \in ToSet(m.chain)} = DOMAIN blob
           /\ \A i \in ToSet(m.chain) :
                /\ Content(disk, m.slots[i]) = blob[m.slots[i].tag]
                /\ m.map[i] \in {Unmapped, Mapped(m.slots[i].start, m.slots[i].cnt)}

(* A process that is killed in an operation leaves every blob as it was    *)
(* before or as the operation makes it, but for the one it deletes:        *)
(* content is written before the slot that points to it (moveblobto,       *)
(* rpmxdbResizeBlob, addslotpage).                                         *)
KilledHarmless ==
    crashed =>
        LET m == Parsed(disk)
        IN \A i \in {j \in ToSet(m.chain) : m.slots[j].tag # victim} :
             Content(disk, m.slots[i]) \in {f[m.slots[i].tag] : f \in {g \in {blob, before} : m.slots[i].tag \in DOMAIN g}}

===============================================================================
