------------------------------ MODULE PkgFile ------------------------------
(***************************************************************************)
(* The package database file of the ndb backend (lib/backend/ndb/          *)
(* rpmpkg.c): slots, blobs and free blocks, as rpmpkgPut() and             *)
(* rpmpkgDel() write them under the exclusive lock.                        *)
(*                                                                         *)
(* A request is a sequence of disk writes.  The process may die, or a      *)
(* write fail, at each of them, leaving any part of that write on disk;    *)
(* the next request starts from what is there.                             *)
(*                                                                         *)
(* The file is counted in blocks; a slot is as large as a block.  A blob   *)
(* fills as many blocks as its value says; a block of it records whose it  *)
(* is and which one, so that a blob with a good checksum is one whose      *)
(* blocks belong together.                                                 *)
(***************************************************************************)
EXTENDS Integers, FiniteSets, SequencesExt, FiniteSetsExt

CONSTANTS
    Pkgs,           \* package numbers
    Vals, NoVal,    \* blobs
    BlobBlks,       \* their sizes in blocks
    PageBlks,       \* PAGE_SIZE / BLK_SIZE
    SlotStart,      \* SLOT_START
    SizeModulus,    \* blocks that a 32 bit file size can count
    MaxPages,       \* PKGDB_MAX_SLOTNPAGES
    MaxBlks,        \* the largest file
    MaxOps, MaxFaults,  \* bounds on requests and failures,
    MaxEvents           \* and on both together

PkgFileAssumption ==
    /\ Pkgs \subseteq Nat \ {0}
    /\ BlobBlks \in [Vals -> Nat \ {0, 1}]
    /\ PageBlks \in Nat /\ SlotStart \in 1..(PageBlks - 1)
    /\ SizeModulus \in Nat \ {0}

VARIABLES
    hdr,        \* the header: number of slot pages, generation, next number
    slots,      \* the slots, by number
    blk,        \* the blocks
    size,       \* the file size in blocks ...
    ragged,     \* ... and whether there is a part of a block more
    req,        \* the request being served
    applied,    \* history: it has taken effect
    mem,        \* the process's copy of header and slots
    todo,       \* writes to be done
    cont,       \* what is done after them
    ops,        \* number of requests so far
    faults,     \* number of failures so far
    refused     \* history: a request failed, and no write had failed

file == <<hdr, slots, blk, size, ragged>>
proc == <<req, applied, mem, todo, cont>>
vars == <<file, proc, ops, faults, refused>>

SlotNos == SlotStart..(MaxPages * PageBlks - 1)
Blocks == 0..(MaxBlks - 1)
NoSlot == [idx |-> 0, off |-> 0, cnt |-> 0]
Zero == [idx |-> 0, gen |-> 0, val |-> NoVal, k |-> 0]
SlotPage == [Zero EXCEPT !.k = 1]
NoReq == [kind |-> "none", idx |-> 0, val |-> NoVal]
NoMem == [gen |-> 0, pages |-> 0, next |-> 0, free |-> 0, size |-> 0,
          slots |-> <<>>, goff |-> 0, gcnt |-> 0]

Area(off, cnt) == {b \in Blocks : off <= b /\ b < off + cnt}
Active == {n \in SlotNos : n < hdr.pages * PageBlks}
Used == {n \in Active : slots[n].off # 0}

\* rpmpkgVerifyblob()
ValidBlob(idx, off, cnt) ==
    /\ off + cnt <= size
    /\ blk[off].idx = idx /\ blk[off].val \in Vals /\ cnt = BlobBlks[blk[off].val]
    /\ \A b \in Area(off, cnt) : blk[b] = [blk[off] EXCEPT !.k = b - off + 1]

\* rpmpkgInitInternal(): an empty database has one page of slots.
Init ==
    /\ hdr = [pages |-> 1, gen |-> 1, next |-> 1]
    /\ slots = [n \in SlotNos |-> NoSlot]
    /\ blk = [b \in Blocks |-> IF b < PageBlks THEN SlotPage ELSE Zero]
    /\ size = PageBlks /\ ragged = FALSE
    /\ req = NoReq /\ applied = FALSE /\ mem = NoMem /\ todo = <<>> /\ cont = "idle"
    /\ ops = 0 /\ faults = 0 /\ refused = FALSE

----------------------------------------------------------------------------
\* Memory: the slots as a sequence ordered by offset, rpmpkgOrderSlots()

Ordered(S) == SetToSortSeq(S, LAMBDA s, t : s.off < t.off)
InUse(ms) == {s \in ToSet(ms) : s.off # 0}
End(s) == s.off + s.cnt

\* rpmpkgReadSlots() accepts the file.
Readable ==
    /\ ~ragged
    /\ \A n \in Used : End(slots[n]) <= size /\ slots[n].off >= hdr.pages * PageBlks

\* rpmpkgReadHeader() and rpmpkgReadSlots()
ReadSlots ==
    LET free == {n \in Active : slots[n].off = 0}
    IN [gen |-> hdr.gen, pages |-> hdr.pages, next |-> hdr.next,
        free |-> IF free = {} THEN 0 ELSE Min(free),
        size |-> size,
        slots |-> Ordered({[idx |-> slots[n].idx, off |-> slots[n].off,
                            cnt |-> slots[n].cnt, no |-> n] : n \in Used}),
        goff |-> 0, gcnt |-> 0]

\* "eek, slots overlap!", "eek, two slots with our pkgid !"
Consistent(ms, pages) ==
    \A i \in DOMAIN ms :
        /\ ms[i].off >= IF i = 1 THEN pages * PageBlks ELSE End(ms[i - 1])
        /\ \A j \in DOMAIN ms : ms[i].idx = ms[j].idx => i = j

\* rpmpkgFindEmptyOffset(): the smallest free area that is large enough, or the
\* end; on request not the area before the first blob.
FindEmptyOffset(ms, pages, cnt, dontprepend) ==
    LET start(i) == IF i > 1 THEN End(ms[i - 1])
                    ELSE IF dontprepend /\ ms # <<>> THEN ms[1].off
                    ELSE pages * PageBlks
        free(i) == ms[i].off - start(i)
        fits == {i \in DOMAIN ms : free(i) >= cnt}
    IN IF fits = {} THEN start(Len(ms) + 1)
       ELSE start(CHOOSE i \in fits : \A j \in fits :
                    free(i) < free(j) \/ (free(i) = free(j) /\ i <= j))

\* rpmpkgNeighbourCheck(): the blobs on both sides are in good shape.
NeighbourCheck(ms, pages, off, cnt) ==
    LET left == {s \in InUse(ms) : s.off < off}
        right == {s \in InUse(ms) : s.off >= off}
        l == CHOOSE s \in left : \A t \in left : t.off <= s.off
        r == CHOOSE s \in right : \A t \in right : t.off >= s.off
    IN /\ IF left = {} THEN off = pages * PageBlks
          ELSE End(l) = off /\ ValidBlob(l.idx, l.off, l.cnt)
       /\ right # {} => r.off >= off + cnt /\ ValidBlob(r.idx, r.off, r.cnt)

\* The area it then declares free
FreeBlks(ms, off, cnt) ==
    LET right == {s.off : s \in {t \in InUse(ms) : t.off >= off}}
    IN IF right = {} THEN cnt ELSE Min(right) - off

\* rpmpkgValidateZeroCheck()
IsZero(off, cnt) == \A b \in Area(off, cnt) : b < size => blk[b] = Zero

\* rpmpkgValidateZero(): the writes it does.  "auto-repair interrupted
\* transactions".
ValidateZero(ms, pages, off, cnt) ==
    IF off <= size /\ IsZero(off, cnt) THEN <<>>
    ELSE IF NeighbourCheck(ms, pages, off, cnt)
    THEN <<[a |-> "zero", idx |-> 0, off |-> off, cnt |-> FreeBlks(ms, off, cnt), to |-> 0]>>
    ELSE <<[a |-> "refuse"]>>

\* rpmpkgWriteBlob(), rpmpkgWriteslot(), rpmpkgDelBlob()
BlobWrite(idx, off, val, gen) ==
    [a |-> "blob", idx |-> idx, off |-> off, val |-> val, gen |-> gen]
SlotWrite(no, idx, off, cnt, own) ==
    [a |-> "slot", no |-> no, slot |-> [idx |-> idx, off |-> off, cnt |-> cnt],
     own |-> own]
BlobZero(s, to) == [a |-> "zero", idx |-> s.idx, off |-> s.off, cnt |-> s.cnt, to |-> to]

\* Mutant: the blob is erased before the slot points to the new one.
MoveBlobEarly(s, to) ==
    <<BlobWrite(s.idx, to, blk[s.off].val, blk[s.off].gen), BlobZero(s, to),
      SlotWrite(s.no, s.idx, to, s.cnt, FALSE)>>

\* rpmpkgMoveBlob()
MoveBlob(s, to) ==
    <<BlobWrite(s.idx, to, blk[s.off].val, blk[s.off].gen),
      SlotWrite(s.no, s.idx, to, s.cnt, FALSE),
      BlobZero(s, to)>>


----------------------------------------------------------------------------
\* Requests.  Each plans writes and says where to continue after them.

Plan(writes, then) == todo' = writes /\ cont' = then

Return == req' = NoReq /\ applied' = FALSE /\ mem' = NoMem /\ Plan(<<>>, "idle")

\* A request that fails because of what it finds in the file
Refuse == Return /\ refused' = TRUE

Start(r) ==
    /\ cont = "idle" /\ ops < MaxOps /\ ops + faults < MaxEvents
    /\ ops' = ops + 1
    /\ IF Readable
       THEN req' = r /\ mem' = ReadSlots /\ UNCHANGED <<applied, refused>>
       ELSE Refuse
    /\ UNCHANGED <<file, faults>>

OldSlot == {i \in DOMAIN mem.slots : mem.slots[i].idx = req.idx}

\* rpmpkgPut(): a new package number may need a new page for its slot.
Put ==
    \E i \in Pkgs, v \in Vals :
        /\ Start([kind |-> "put", idx |-> i, val |-> v])
        /\ Readable => Plan(<<>>, "slot")

PutSlot ==
    /\ todo = <<>> /\ cont = "slot"
    /\ IF ~Consistent(mem.slots, mem.pages) THEN Refuse
       ELSE /\ Plan(<<>>, IF OldSlot = {} /\ mem.free = 0 THEN "addpage" ELSE "place")
            /\ UNCHANGED <<req, applied, mem, refused>>
    /\ UNCHANGED <<file, ops, faults>>

\* rpmpkgAddSlotPage(): blobs are moved out of the way, one by one.
AddSlotPage ==
    /\ todo = <<>> /\ cont = "addpage"
    /\ LET ms == Ordered(ToSet(mem.slots))
           start == mem.pages * PageBlks
           to == FindEmptyOffset(ms, mem.pages, ms[1].cnt, TRUE)
           move == ms[1].off < start + PageBlks
       IN IF mem.pages >= MaxPages \/ (move /\ to + ms[1].cnt > MaxBlks) THEN Return
          ELSE /\ mem' = [mem EXCEPT !.slots = ms]
               /\ IF move THEN Plan(MoveBlob(ms[1], to), "addpage")
                  ELSE Plan(ValidateZero(ms, mem.pages, start, PageBlks)
                            \o <<[a |-> "page"], [a |-> "announce"]>>, "place")
               /\ UNCHANGED <<req, applied>>
    /\ UNCHANGED <<file, ops, faults, refused>>

\* rpmpkgPutInternal(): the blob, the slot, and then the old blob
PutPlace ==
    /\ todo = <<>> /\ cont = "place"
    /\ LET cnt == BlobBlks[req.val]
           off == FindEmptyOffset(mem.slots, mem.pages, cnt, FALSE)
           old == {mem.slots[i] : i \in OldSlot}
       IN IF off + cnt > MaxBlks THEN Return
          ELSE /\ mem' = [mem EXCEPT !.next = Max({@, req.idx + 1})]
               /\ Plan(ValidateZero(mem.slots, mem.pages, off, cnt)
                       \o <<BlobWrite(req.idx, off, req.val, mem.gen)>>
                       \o IF old = {} THEN <<SlotWrite(mem.free, req.idx, off, cnt, TRUE)>>
                          ELSE LET s == CHOOSE s \in old : TRUE
                               IN <<SlotWrite(s.no, req.idx, off, cnt, TRUE),
                                    BlobZero(s, 0)>>,
                       "done")
               /\ UNCHANGED <<req, applied>>
    /\ UNCHANGED <<file, ops, faults, refused>>

\* Mutant: the last slot is taken if the package is not found.
DelLast ==
    \E i \in Pkgs :
        /\ Start([kind |-> "del", idx |-> i, val |-> NoVal])
        /\ Readable =>
             IF mem'.slots = <<>> THEN Plan(<<>>, "done")
             ELSE Plan(<<SlotWrite(Last(mem'.slots).no, 0, 0, 0, TRUE),
                         BlobZero(Last(mem'.slots), 0)>>, "done")

\* rpmpkgDel(): the slot, then the blob
Del ==
    \E i \in Pkgs :
        /\ Start([kind |-> "del", idx |-> i, val |-> NoVal])
        /\ Readable =>
             LET s == {t \in ToSet(mem'.slots) : t.idx = i}
                 d == CHOOSE t \in s : TRUE
             IN IF s = {} THEN Plan(<<>>, "done")
                ELSE Plan(<<SlotWrite(d.no, 0, 0, 0, TRUE), BlobZero(d, 0)>>, "gap")

\* "we freed a blob in the first half of our data. do some extra work"
DelGap ==
    /\ todo = <<>> /\ cont = "gap"
    /\ LET n == Len(mem.slots)
           d == CHOOSE i \in OldSlot : TRUE
           goff == IF d = 1 THEN mem.pages * PageBlks ELSE End(mem.slots[d - 1])
           gend == IF d < n THEN mem.slots[d + 1].off ELSE End(mem.slots[d])
           half == n > 1 /\ mem.slots[d].off < mem.size \div 2
       IN /\ mem' = [mem EXCEPT !.slots[d].off = 0, !.slots[d].cnt = 0,
                                !.goff = goff, !.gcnt = gend - goff]
          /\ Plan(<<>>, IF half THEN "move1" ELSE "truncate")
    /\ UNCHANGED <<file, req, applied, ops, faults, refused>>

\* "try to move the last two slots, the bigger one first"
DelMove ==
    /\ todo = <<>> /\ cont \in {"move1", "move2"}
    /\ LET n == Len(mem.slots)
           bigger == IF mem.slots[n - 1].cnt < mem.slots[n].cnt THEN n ELSE n - 1
           c == IF cont = "move1" THEN bigger ELSE (n - 1) + (n - bigger)
           s == mem.slots[c]
           move == /\ s.off # 0 /\ s.off >= mem.goff
                   /\ s.off >= mem.size \div 2 /\ s.cnt <= mem.gcnt
       IN /\ mem' = IF move THEN [mem EXCEPT !.goff = @ + s.cnt, !.gcnt = @ - s.cnt]
                    ELSE mem
          /\ Plan(IF move THEN MoveBlob(s, mem.goff) ELSE <<>>,
                  IF cont = "move1" THEN "move2" ELSE "truncate")
    /\ UNCHANGED <<file, req, applied, ops, faults, refused>>

\* "check if we can truncate the file"
DelTruncate ==
    /\ todo = <<>> /\ cont = "truncate"
    /\ LET end == Max({mem.pages * PageBlks} \cup {End(s) : s \in InUse(mem.slots)})
           clear == ValidateZero(Ordered(InUse(mem.slots)), mem.pages, end, mem.size - end)
       IN Plan(IF end < (mem.size \div 4) * 3 /\ clear # <<[a |-> "refuse"]>>
               THEN clear \o <<[a |-> "trunc", off |-> end]>> ELSE <<>>,
               "done")
    /\ UNCHANGED <<file, req, applied, mem, ops, faults, refused>>

Done ==
    /\ todo = <<>> /\ cont = "done"
    /\ Return
    /\ UNCHANGED <<file, ops, faults, refused>>

----------------------------------------------------------------------------
\* The writes

Piece(w, b) == [idx |-> w.idx, gen |-> w.gen, val |-> w.val, k |-> b - w.off + 1]
Fill(w, S) == [b \in Blocks |-> IF b \in S THEN Piece(w, b) ELSE blk[b]]
Clear(S) == [b \in Blocks |-> IF b \in S THEN Zero ELSE blk[b]]
Grow(S) == size' = Max({size} \cup {b + 1 : b \in S})
PageArea == Area(mem.pages * PageBlks, PageBlks)
NewHeader(pages, gen) == hdr' = [pages |-> pages, gen |-> gen, next |-> mem.next]

\* ftruncate(pkgdb->fd, blkoff * BLK_SIZE), a 32 bit product
Truncate(off) == off % SizeModulus

WriteBlob(w) ==
    /\ w.a = "blob"
    /\ blk' = Fill(w, Area(w.off, BlobBlks[w.val]))
    /\ Grow(Area(w.off, BlobBlks[w.val]))
    /\ mem' = [mem EXCEPT !.size = size']
    /\ UNCHANGED <<hdr, slots, ragged, applied>>

\* rpmpkgWriteslot() ends with rpmpkgWriteHeader().
WriteSlot(w) ==
    /\ w.a = "slot"
    /\ slots' = [slots EXCEPT ![w.no] = w.slot]
    /\ NewHeader(mem.pages, mem.gen + 1)
    /\ mem' = [mem EXCEPT !.gen = @ + 1]
    /\ applied' = (applied \/ w.own)
    /\ UNCHANGED <<blk, size, ragged>>

\* A move is complete in memory when the old blob is gone.
WriteZero(w) ==
    /\ w.a = "zero"
    /\ blk' = Clear(Area(w.off, w.cnt))
    /\ Grow(Area(w.off, w.cnt))
    /\ mem' = [mem EXCEPT !.size = size',
                !.slots = [i \in DOMAIN @ |->
                    IF w.to # 0 /\ @[i].off = w.off THEN [@[i] EXCEPT !.off = w.to] ELSE @[i]]]
    /\ UNCHANGED <<hdr, slots, ragged, applied>>

\* rpmpkgWriteEmptySlotpage()
WritePage(w) ==
    /\ w.a = "page"
    /\ blk' = [b \in Blocks |-> IF b \in PageArea THEN SlotPage ELSE blk[b]]
    /\ slots' = [n \in SlotNos |-> IF n \in PageArea THEN NoSlot ELSE slots[n]]
    /\ UNCHANGED <<hdr, size, ragged, mem, applied>>

\* "announce free page"
Announce(w) ==
    /\ w.a = "announce"
    /\ NewHeader(mem.pages + 1, mem.gen + 1)
    /\ mem' = [mem EXCEPT !.pages = @ + 1, !.gen = @ + 1, !.free = mem.pages * PageBlks]
    /\ UNCHANGED <<slots, blk, size, ragged, applied>>

WriteTruncate(w) ==
    /\ w.a = "trunc"
    /\ size' = Truncate(w.off)
    /\ blk' = Clear({b \in Blocks : b >= size'})
    /\ ragged' = FALSE
    /\ UNCHANGED <<hdr, slots, mem, applied>>

\* ValidateZero() did not give up, and a blob to be erased is the right one.
Sound(w) ==
    /\ w.a # "refuse"
    /\ w.a = "zero" /\ w.idx # 0 => ValidBlob(w.idx, w.off, w.cnt)

Write ==
    /\ todo # <<>>
    /\ IF Sound(todo[1])
       THEN /\ \/ WriteBlob(todo[1]) \/ WriteSlot(todo[1]) \/ WriteZero(todo[1])
               \/ WritePage(todo[1]) \/ Announce(todo[1]) \/ WriteTruncate(todo[1])
            /\ Plan(Tail(todo), cont)
            /\ UNCHANGED <<req, refused>>
       ELSE Refuse /\ UNCHANGED file
    /\ UNCHANGED <<ops, faults>>

\* What an interrupted write leaves: nothing, or any part of it.  A blob is written
\* with several calls that do not end where blocks do.  Slot and header are synced
\* together.
Part(w) ==
    \/ /\ \/ w.a = "blob" /\ \E S \in SUBSET Area(w.off, BlobBlks[w.val]) :
                /\ blk' = Fill(w, S) /\ Grow(S)
                /\ ragged' \in {FALSE, S # {} /\ size' < w.off + BlobBlks[w.val]}
          \/ w.a = "zero" /\ \E S \in SUBSET Area(w.off, w.cnt) :
                /\ Sound(w)
                /\ blk' = Clear(S) /\ Grow(S) /\ UNCHANGED ragged
       /\ UNCHANGED <<hdr, slots>>
    \/ /\ w.a = "slot"
       /\ slots' \in {slots, [slots EXCEPT ![w.no] = w.slot]}
       /\ hdr' \in {hdr, [pages |-> mem.pages, gen |-> mem.gen + 1, next |-> mem.next]}
       /\ UNCHANGED <<blk, size, ragged>>
    \/ /\ w.a = "page"
       /\ \E S \in SUBSET PageArea :
             blk' = [b \in Blocks |-> IF b \in S THEN SlotPage ELSE blk[b]]
       /\ UNCHANGED <<hdr, slots, size, ragged>>
    \/ w.a \in {"announce", "trunc"} /\ UNCHANGED file

\* The process dies.
Crash ==
    /\ cont # "idle" /\ faults < MaxFaults /\ ops + faults < MaxEvents
    /\ faults' = faults + 1
    /\ IF todo = <<>> THEN UNCHANGED file ELSE Part(todo[1])
    /\ Return
    /\ UNCHANGED <<ops, refused>>

\* A write fails: the request does, unless it was about a blob that rpmpkgDel()
\* would have liked to move, or about the truncation.
WriteFails ==
    /\ todo # <<>> /\ faults < MaxFaults /\ ops + faults < MaxEvents
    /\ faults' = faults + 1
    /\ Part(todo[1])
    /\ IF req.kind = "del" /\ cont \in {"move2", "truncate", "done"}
       THEN /\ Plan(<<>>, cont)
            /\ mem' = IF slots' = slots THEN mem ELSE [mem EXCEPT !.gen = @ + 1]
            /\ UNCHANGED <<req, applied>>
       ELSE Return
    /\ UNCHANGED <<ops, refused>>

Idle == cont = "idle" /\ (ops = MaxOps \/ ops + faults = MaxEvents) /\ UNCHANGED vars

Next ==
    \/ Put \/ PutSlot \/ AddSlotPage \/ PutPlace
    \/ Del \/ DelGap \/ DelMove \/ DelTruncate \/ Done
    \/ Write \/ Crash \/ WriteFails \/ Idle

Spec == Init /\ [][Next]_vars

----------------------------------------------------------------------------
TypeOK ==
    /\ hdr \in [pages : 1..MaxPages, gen : Nat, next : Nat]
    /\ slots \in [SlotNos -> [idx : Pkgs \cup {0}, off : Blocks, cnt : 0..MaxBlks]]
    /\ blk \in [Blocks -> [idx : Pkgs \cup {0}, gen : Nat, val : Vals \cup {NoVal},
                          k : 0..MaxBlks]]
    /\ size \in 0..MaxBlks /\ ragged \in BOOLEAN
    /\ req.idx \in Pkgs \cup {0} /\ applied \in BOOLEAN
    /\ cont \in {"idle", "slot", "addpage", "place", "gap", "move1", "move2",
                 "truncate", "done"}
    /\ mem.free \in SlotNos \cup {0} /\ mem.size \in 0..MaxBlks

\* Whatever is interrupted, every slot in use points to an intact blob of its
\* package that no other slot's blob overlaps, behind the slot pages, and no
\* package has two slots: what rpmpkgReadSlots() and rpmpkgFindEmptyOffset()
\* call an error ("eek") never arises.
SlotsIntact ==
    \A n \in Used :
        /\ slots[n].off >= hdr.pages * PageBlks
        /\ ValidBlob(slots[n].idx, slots[n].off, slots[n].cnt)
        /\ \A m \in Used \ {n} :
              /\ slots[m].idx # slots[n].idx
              /\ End(slots[m]) <= slots[n].off \/ End(slots[n]) <= slots[m].off

\* "auto-repair interrupted transactions": the one thing an interrupted request
\* can leave for which later ones are refused is a file that ends inside of a block,
\* an append cut off between the calls of rpmpkgWriteBlob().  Nobody repairs that:
\* rpmpkgReadSlots() refuses such a size before anything is looked at.
Repaired == refused => ragged

\* The file is well formed after every write, crash and write error, and usable
\* unless an append was cut off inside of a block; also then the slots and their
\* blobs are as they were.
FileSound == TypeOK /\ SlotsIntact /\ Repaired

\* The file as the abstract store: the blobs that the slots point to
Store == INSTANCE PkgStore WITH
    store <- [i \in Pkgs |-> IF \E n \in Used : slots[n].idx = i
                             THEN blk[slots[CHOOSE n \in Used : slots[n].idx = i].off].val
                             ELSE NoVal]

\* rpmpkgPut() and rpmpkgDel() are atomic with respect to crashes and errors,
\* have taken effect when they return success, and moving blobs about changes
\* nothing.
StoreSpec == Store!Spec

\* rpmpkgSalvage() looks for blobs, block by block, and jumps over those found.
Found ==
    LET cnt(b) == BlobBlks[blk[b].val]
        head(b) == blk[b].idx # 0 /\ blk[b].k = 1 /\ ValidBlob(blk[b].idx, b, cnt(b))
        scan[b \in 0..MaxBlks] ==
            IF b >= size THEN {}
            ELSE IF head(b)
            THEN {[idx |-> blk[b].idx, off |-> b, gen |-> blk[b].gen]} \cup scan[b + cnt(b)]
            ELSE scan[b + 1]
    IN scan[1]

Rivals(f) == {g \in Found : g.idx = f.idx}

\* Mutant: of several blobs of a package the oldest is taken.
OldestBlob(f) == \A g \in Rivals(f) : g.gen > f.gen \/ (g.gen = f.gen /\ g.off >= f.off)

\* salvage_latest_blob(): the latest generation.  If several blobs have it the last
\* of them is taken, but if there are no others the first.
LatestBlob(f) ==
    LET same == {g \in Rivals(f) : g.gen = f.gen}
    IN /\ \A g \in Rivals(f) : g.gen <= f.gen
       /\ f.off = IF same = Rivals(f) THEN Min({g.off : g \in same})
                  ELSE Max({g.off : g \in same})

\* "now strip duplicate entries"
Salvaged == IF Cardinality(Found) > 1 THEN {f \in Found : LatestBlob(f)} ELSE {}

\* Every valid blob that rpmpkgSalvage() finds ("found a valid blob, add to
\* salvaged list") and a slot points to is in the salvaged database, with its
\* value or one that an interrupted request wrote later.
SalvageComplete ==
    cont = "idle" =>
        \A n \in Used : \E f \in Salvaged :
            /\ f.idx = slots[n].idx
            /\ \/ blk[f.off].val = blk[slots[n].off].val
               \/ f.gen > blk[slots[n].off].gen

\* The same when a request is interrupted for the first time, and there are
\* several blobs: their generations tell old from new at whatever write it was.
SalvageAfterCrash ==
    [][faults = 0 /\ faults' = 1 /\ (Cardinality(Found) > 1)' => SalvageComplete']_vars
=============================================================================
