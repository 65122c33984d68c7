------------------------------ MODULE Generator ------------------------------
(***************************************************************************)
(* A dependency generator is a child process: rpm writes the file names to *)
(* its standard input and reads dependencies from its standard output,     *)
(* both through pipes of limited size, with one select() loop              *)
(* (build/rpmfc.cc: getOutputFrom(), rpmfcExec()).  The child is any       *)
(* program that ends: it reads, writes, closes and exits as it likes, and  *)
(* is stuck in a read of an empty pipe and in a write to a full one.       *)
(* Amounts are counted in blocks of the 1024 bytes rpm writes at a time.   *)
(***************************************************************************)
EXTENDS Integers, TLAPS

CONSTANTS
    Input,      \* blocks of file names rpm has to write
    Output,     \* blocks the child has to say at most
    PipeSize,   \* what a pipe holds
    PipeBuf     \* what select() promises room for

VARIABLES
    pc,         \* where getOutputFrom() is
    left,       \* writeBytesLeft
    nb,         \* what the write() under way still has to place
    ready,      \* descriptors select() reported
    myerrno,    \* whether an error ended the loop
    toProg,     \* the pipe to the child: what it holds, who has it open
    fromProg,   \* the pipe from the child
    sb,         \* what was appended to sb_stdout
    child,      \* the child process
    failNonZero,
    ret         \* what getOutputFrom() returned

vars == <<pc, left, nb, ready, myerrno, toProg, fromProg, sb, child, failNonZero, ret>>

Pipe == [held |-> 0, reader |-> TRUE, writer |-> TRUE]
Room(pipe) == PipeSize - pipe.held

Init ==
    /\ pc = "start" /\ left = Input /\ nb = 0 /\ ready = {} /\ myerrno = FALSE
    /\ toProg = Pipe /\ fromProg = Pipe /\ sb = 0 /\ ret = 1
    /\ child = [at |-> "none", read |-> 0, said |-> 0, eof |-> FALSE, status |-> 0]
    /\ failNonZero \in BOOLEAN

-----------------------------------------------------------------------------
(* the child: any program *)

\* fork() and execvp(), or neither pipe() nor fork() worked
Start ==
    /\ pc = "start"
    /\ \/ /\ pc' = "select"
          /\ child' = [child EXCEPT !.at = "runs"]
          /\ UNCHANGED <<toProg, fromProg, ret>>
       \/ /\ pc' = "done" /\ ret' = -1
          /\ UNCHANGED <<child, toProg, fromProg>>
    /\ UNCHANGED <<left, nb, ready, myerrno, sb, failNonZero>>

ChildChooses ==
    /\ child.at = "runs"
    /\ \/ ~child.eof /\ toProg.reader /\ child' = [child EXCEPT !.at = "reads"]
       \/ child.said < Output /\ fromProg.writer /\ child' = [child EXCEPT !.at = "writes"]
    /\ UNCHANGED <<pc, left, nb, ready, myerrno, toProg, fromProg, sb, failNonZero, ret>>

ChildReads ==
    /\ child.at = "reads"
    /\ \/ /\ toProg.held > 0
          /\ toProg' = [toProg EXCEPT !.held = @ - 1]
          /\ child' = [child EXCEPT !.at = "runs", !.read = child.read + 1]
       \/ /\ toProg.held = 0 /\ ~toProg.writer
          /\ child' = [child EXCEPT !.at = "runs", !.eof = TRUE]
          /\ UNCHANGED toProg
    /\ UNCHANGED <<pc, left, nb, ready, myerrno, fromProg, sb, failNonZero, ret>>

Exited(status) == [child EXCEPT !.at = "zombie", !.status = status]

\* a write to a pipe nobody reads is the end of the child: SIGPIPE is at its default there
ChildWrites ==
    /\ child.at = "writes"
    /\ \/ /\ fromProg.reader /\ Room(fromProg) > 0
          /\ fromProg' = [fromProg EXCEPT !.held = @ + 1]
          /\ child' = [child EXCEPT !.at = "runs", !.said = child.said + 1]
          /\ UNCHANGED toProg
       \/ /\ ~fromProg.reader
          /\ child' = Exited(1)
          /\ fromProg' = [fromProg EXCEPT !.writer = FALSE]
          /\ toProg' = [toProg EXCEPT !.reader = FALSE]
    /\ UNCHANGED <<pc, left, nb, ready, myerrno, sb, failNonZero, ret>>

ChildCloses ==
    /\ child.at = "runs"
    /\ \/ toProg.reader /\ toProg' = [toProg EXCEPT !.reader = FALSE] /\ UNCHANGED fromProg
       \/ fromProg.writer /\ fromProg' = [fromProg EXCEPT !.writer = FALSE] /\ UNCHANGED toProg
    /\ UNCHANGED <<pc, left, nb, ready, myerrno, sb, child, failNonZero, ret>>

ChildExits ==
    /\ child.at = "runs"
    /\ \E status \in {0, 1} : child' = Exited(status)
    /\ toProg' = [toProg EXCEPT !.reader = FALSE]
    /\ fromProg' = [fromProg EXCEPT !.writer = FALSE]
    /\ UNCHANGED <<pc, left, nb, ready, myerrno, sb, failNonZero, ret>>

-----------------------------------------------------------------------------
(* getOutputFrom() *)

\* select() says a pipe can be written when PIPE_BUF bytes fit, or when nobody reads it
Writable == left > 0 /\ (Room(toProg) >= PipeBuf \/ ~toProg.reader)
Readable == fromProg.held > 0 \/ ~fromProg.writer

\* the top of the loop: nothing more to write closes the pipe, which is the child's EOF
CloseInput ==
    /\ pc = "select" /\ left = 0 /\ toProg.writer
    /\ toProg' = [toProg EXCEPT !.writer = FALSE]
    /\ UNCHANGED <<pc, left, nb, ready, myerrno, fromProg, sb, child, failNonZero, ret>>

\* one write() is of 1024 bytes at most, which a pipe reported as writable takes at once
WriteSize == IF left < 1 THEN left ELSE 1

Select ==
    /\ pc = "select" /\ (left > 0 \/ ~toProg.writer)
    /\ Writable \/ Readable
    /\ ready' = {fd \in {"to", "from"} : IF fd = "to" THEN Writable ELSE Readable}
    /\ pc' = IF Writable THEN "write" ELSE "read"
    /\ nb' = IF Writable THEN WriteSize ELSE 0
    /\ UNCHANGED <<left, myerrno, toProg, fromProg, sb, child, failNonZero, ret>>

\* the descriptor blocks: write() returns when all of its data is in the pipe
Write ==
    /\ pc = "write"
    /\ \/ /\ ~toProg.reader                             \* EPIPE
          /\ myerrno' = TRUE /\ pc' = "cleanup"
          /\ UNCHANGED <<left, nb, toProg>>
       \/ /\ toProg.reader /\ Room(toProg) > 0
          /\ toProg' = [toProg EXCEPT !.held = @ + 1]
          /\ nb' = nb - 1 /\ left' = left - 1
          /\ pc' = IF nb = 1 THEN (IF "from" \in ready THEN "read" ELSE "select") ELSE "write"
          /\ UNCHANGED myerrno
    /\ UNCHANGED <<ready, fromProg, sb, child, failNonZero, ret>>

Read ==
    /\ pc = "read"
    /\ IF fromProg.held = 0
       THEN pc' = "cleanup" /\ UNCHANGED <<fromProg, sb>>      \* EOF
       ELSE /\ fromProg' = [fromProg EXCEPT !.held = 0]
            /\ sb' = sb + fromProg.held
            /\ pc' = "select"
    /\ UNCHANGED <<left, nb, ready, myerrno, toProg, child, failNonZero, ret>>

Cleanup ==
    /\ pc = "cleanup"
    /\ toProg' = [toProg EXCEPT !.writer = FALSE]
    /\ fromProg' = [fromProg EXCEPT !.reader = FALSE]
    /\ pc' = "wait"
    /\ UNCHANGED <<left, nb, ready, myerrno, sb, child, failNonZero, ret>>

ReturnCode ==
    IF failNonZero /\ child.status # 0 THEN 1
    ELSE IF left > 0 \/ myerrno THEN 1 ELSE 0

\* waitpid(); rpmfcExec() hands the output on only if the return code is 0
Reap ==
    /\ pc = "wait" /\ child.at = "zombie"
    /\ child' = [child EXCEPT !.at = "reaped"]
    /\ ret' = ReturnCode
    /\ sb' = IF ReturnCode = 0 THEN sb ELSE 0
    /\ pc' = "done"
    /\ UNCHANGED <<left, nb, ready, myerrno, toProg, fromProg, failNonZero>>

ChildNext == ChildChooses \/ ChildReads \/ ChildWrites \/ ChildCloses \/ ChildExits
ParentNext == Start \/ CloseInput \/ Select \/ Write \/ Read \/ Cleanup \/ Reap

\* what the child does is finite; once it is not stuck it goes on to its end
Next == ChildNext \/ ParentNext
Fairness == WF_vars(ParentNext) /\ WF_vars(ChildNext)
Spec == Init /\ [][Next]_vars /\ Fairness

-----------------------------------------------------------------------------
(* Success means that the whole input was written and the whole output     *)
(* read; and a child that read all of its input and left with status 0 is  *)
(* always a success, with whatever it said.                                *)
ChildrenHeard ==
    pc = "done" =>
      /\ ret = 0 => left = 0 /\ sb = child.said
      /\ child.read = Input /\ child.status = 0 /\ ret >= 0 => ret = 0

-----------------------------------------------------------------------------
(* ChildrenHeard for every amount of input and output and every size of   *)
(* the pipes: no block is lost between the two sides, and the loop ends    *)
(* only when the child is heard to the end or cannot be written to.        *)

InputAssumption == Input \in Nat

Pipes == [held : Nat, reader : BOOLEAN, writer : BOOLEAN]
Children == [at : {"none", "runs", "reads", "writes", "zombie", "reaped"}, read : Nat, said : Nat,
             eof : BOOLEAN, status : {0, 1}]
HeardTypeOK ==
    /\ pc \in {"start", "select", "write", "read", "cleanup", "wait", "done"}
    /\ left \in Nat /\ nb \in Nat /\ sb \in Nat /\ ret \in {-1, 0, 1}
    /\ myerrno \in BOOLEAN /\ ready \subseteq {"to", "from"}
    /\ toProg \in Pipes /\ fromProg \in Pipes /\ child \in Children

\* What was written is in the pipe or read, what was said is in the pipe or in sb
Written == child.read + toProg.held + left = Input
Said == pc # "done" => child.said = sb + fromProg.held

\* A write that is under way has something left to write: EPIPE is an unfinished input
Unfinished ==
    /\ pc = "write" => nb = 1 /\ left > 0
    /\ myerrno => left > 0 /\ pc \in {"cleanup", "wait", "done"}
\* A descriptor reported as readable stays so until it is read, and the end of the
\* output is the end: the child that closed it says nothing more
HeardOut ==
    /\ pc = "start" => child.at = "none"
    /\ child.at = "writes" => fromProg.writer
    /\ pc = "read" \/ (pc = "write" /\ "from" \in ready) => fromProg.held > 0 \/ ~fromProg.writer
    /\ pc \in {"cleanup", "wait"} /\ ~myerrno => fromProg.held = 0 /\ ~fromProg.writer
Outcome ==
    pc = "done" =>
      /\ ret = 0 => left = 0 /\ sb = child.said
      /\ left = 0 => ret # 1 \/ child.status = 1
      /\ child.at \in {"none", "reaped"}
HeardInv == HeardTypeOK /\ Written /\ Said /\ Unfinished /\ HeardOut /\ Outcome

\* Pipes and children after the changes that the steps make
LEMMA PipeHolds ==
    ASSUME NEW p \in Pipes, NEW n \in Nat
    PROVE  LET q == [p EXCEPT !.held = n]
           IN q \in Pipes /\ q.held = n /\ q.reader = p.reader /\ q.writer = p.writer
  BY DEF Pipes

LEMMA ChildHasRead ==
    ASSUME NEW c \in Children, NEW n \in Nat
    PROVE  LET d == [c EXCEPT !.at = "runs", !.read = n]
           IN d \in Children /\ d.at = "runs" /\ d.read = n /\ d.said = c.said
  BY DEF Children

LEMMA ChildHasWritten ==
    ASSUME NEW c \in Children, NEW n \in Nat
    PROVE  LET d == [c EXCEPT !.at = "runs", !.said = n]
           IN d \in Children /\ d.at = "runs" /\ d.said = n /\ d.read = c.read
  BY DEF Children

LEMMA HeardInitially ==
    ASSUME InputAssumption PROVE Init => HeardInv
<1> SUFFICES ASSUME Init PROVE HeardInv
  OBVIOUS
<1>1. Pipe \in Pipes /\ Pipe.held = 0
  BY DEF Pipe, Pipes
<1>2. child \in Children /\ child.read = 0 /\ child.said = 0 /\ child.at = "none"
  BY DEF Init, Children
<1>3. HeardTypeOK
  BY <1>1, <1>2 DEF InputAssumption, Init, HeardTypeOK
<1>4. Written /\ Said
  BY <1>1, <1>2 DEF InputAssumption, Init, Written, Said
<1> QED
  BY <1>2, <1>3, <1>4 DEF Init, HeardInv, Unfinished, HeardOut, Outcome

LEMMA HeardStep ==
    ASSUME InputAssumption PROVE HeardInv /\ [Next]_vars => HeardInv'
<1> SUFFICES ASSUME HeardInv, [Next]_vars PROVE HeardInv'
  OBVIOUS
<1> USE DEF HeardInv
<1>1. CASE Start
  <2>1. HeardTypeOK'
    BY <1>1 DEF Start, HeardTypeOK, Pipes, Children, Unfinished
  <2>2. Written'
    BY <1>1, InputAssumption DEF Start, HeardTypeOK, Pipes, Children, Written, Unfinished, InputAssumption
  <2>3. Said'
    BY <1>1 DEF Start, HeardTypeOK, Pipes, Children, Said
  <2>4. Unfinished'
    BY <1>1 DEF Start, HeardTypeOK, Unfinished
  <2>5. HeardOut'
    BY <1>1 DEF Start, HeardTypeOK, Pipes, Children, HeardOut
  <2>6. Outcome'
    BY <1>1 DEF Start, HeardTypeOK, Pipes, Children, Said, Unfinished, HeardOut, Outcome
  <2> QED
    BY <2>1, <2>2, <2>3, <2>4, <2>5, <2>6
<1>2. CASE ChildChooses
  <2>1. HeardTypeOK'
    BY <1>2 DEF ChildChooses, HeardTypeOK, Pipes, Children, Unfinished
  <2>2. Written'
    BY <1>2, InputAssumption DEF ChildChooses, HeardTypeOK, Pipes, Children, Written, Unfinished, InputAssumption
  <2>3. Said'
    BY <1>2 DEF ChildChooses, HeardTypeOK, Pipes, Children, Said
  <2>4. Unfinished'
    BY <1>2 DEF ChildChooses, HeardTypeOK, Unfinished
  <2>5. HeardOut'
    BY <1>2 DEF ChildChooses, HeardTypeOK, Pipes, Children, HeardOut
  <2>6. Outcome'
    BY <1>2 DEF ChildChooses, HeardTypeOK, Pipes, Children, Said, Unfinished, HeardOut, Outcome
  <2> QED
    BY <2>1, <2>2, <2>3, <2>4, <2>5, <2>6
<1>3. CASE ChildReads
  <2>1. CASE /\ toProg.held > 0 /\ toProg' = [toProg EXCEPT !.held = @ - 1]
             /\ child' = [child EXCEPT !.at = "runs", !.read = child.read + 1]
    <3>1. toProg.held - 1 \in Nat /\ child.read + 1 \in Nat
      BY <2>1 DEF HeardTypeOK, Pipes, Children
    <3>2. toProg' \in Pipes /\ toProg'.held = toProg.held - 1
      BY <2>1, <3>1, PipeHolds DEF HeardTypeOK
    <3>3. PICK n \in Nat : n = child.read + 1
      BY <3>1
    <3>4. child' \in Children /\ child'.at = "runs" /\ child'.read = child.read + 1 /\ child'.said = child.said
      <4>1. child \in Children /\ child' = [child EXCEPT !.at = "runs", !.read = n]
        BY <2>1, <3>3 DEF HeardTypeOK
      <4> QED
        BY <3>3, <4>1, ChildHasRead
    <3>5. toProg.held \in Nat /\ child.read \in Nat
      BY DEF HeardTypeOK, Pipes, Children
    <3>6. HeardTypeOK' /\ Written'
      BY <1>3, <3>2, <3>4, <3>5 DEF ChildReads, HeardTypeOK, Written
    <3> QED
      BY <1>3, <3>4, <3>6 DEF ChildReads, HeardTypeOK, Said, Unfinished, HeardOut, Outcome
  <2>2. CASE child' = [child EXCEPT !.at = "runs", !.eof = TRUE] /\ UNCHANGED toProg
    <3>1. child' \in Children /\ child'.at = "runs" /\ child'.read = child.read /\ child'.said = child.said
      BY <2>2 DEF HeardTypeOK, Children
    <3> QED
      BY <1>3, <2>2, <3>1 DEF ChildReads, HeardTypeOK, Written, Said, Unfinished, HeardOut, Outcome
  <2> QED
    BY <1>3, <2>1, <2>2 DEF ChildReads
<1>4. CASE ChildWrites
  <2>1. CASE /\ fromProg' = [fromProg EXCEPT !.held = @ + 1] /\ UNCHANGED toProg
             /\ child' = [child EXCEPT !.at = "runs", !.said = child.said + 1]
    <3>1. fromProg.held \in Nat /\ child.said \in Nat
      BY DEF HeardTypeOK, Pipes, Children
    <3>2. fromProg.held + 1 \in Nat /\ child.said + 1 \in Nat
      BY <3>1
    <3>3. /\ fromProg' \in Pipes /\ fromProg'.held = fromProg.held + 1
          /\ fromProg'.writer = fromProg.writer
      BY <2>1, <3>2, PipeHolds DEF HeardTypeOK
    <3>4. PICK n \in Nat : n = child.said + 1
      BY <3>2
    <3>5. child' \in Children /\ child'.at = "runs" /\ child'.said = child.said + 1 /\ child'.read = child.read
      <4>1. child \in Children /\ child' = [child EXCEPT !.at = "runs", !.said = n]
        BY <2>1, <3>4 DEF HeardTypeOK
      <4> QED
        BY <3>4, <4>1, ChildHasWritten
    <3>6. HeardTypeOK' /\ Written' /\ Said'
      BY <1>4, <2>1, <3>1, <3>3, <3>5 DEF ChildWrites, HeardTypeOK, Written, Said
    <3>7. HeardOut'
      BY <1>4, <2>1, <3>1, <3>3, <3>5 DEF ChildWrites, HeardTypeOK, HeardOut
    <3> QED
      BY <1>4, <3>5, <3>6, <3>7 DEF ChildWrites, HeardTypeOK, Unfinished, Outcome
  <2>2. CASE /\ child' = Exited(1) /\ fromProg' = [fromProg EXCEPT !.writer = FALSE]
             /\ toProg' = [toProg EXCEPT !.reader = FALSE]
    <3>1. /\ child' \in Children /\ child'.at = "zombie"
          /\ child'.said = child.said /\ child'.read = child.read
      BY <2>2 DEF HeardTypeOK, Children, Exited
    <3>2. /\ fromProg' \in Pipes /\ fromProg'.held = fromProg.held /\ ~fromProg'.writer
          /\ toProg' \in Pipes /\ toProg'.held = toProg.held
      BY <2>2 DEF HeardTypeOK, Pipes
    <3> QED
      BY <1>4, <3>1, <3>2 DEF ChildWrites, HeardTypeOK, Written, Said, Unfinished, HeardOut, Outcome
  <2> QED
    BY <1>4, <2>1, <2>2 DEF ChildWrites
<1>5. CASE ChildCloses
  <2>1. HeardTypeOK'
    BY <1>5 DEF ChildCloses, HeardTypeOK, Pipes, Children, Unfinished
  <2>2. Written'
    BY <1>5, InputAssumption DEF ChildCloses, HeardTypeOK, Pipes, Children, Written, Unfinished, InputAssumption
  <2>3. Said'
    BY <1>5 DEF ChildCloses, HeardTypeOK, Pipes, Children, Said
  <2>4. Unfinished'
    BY <1>5 DEF ChildCloses, HeardTypeOK, Unfinished
  <2>5. HeardOut'
    BY <1>5 DEF ChildCloses, HeardTypeOK, Pipes, Children, HeardOut
  <2>6. Outcome'
    BY <1>5 DEF ChildCloses, HeardTypeOK, Pipes, Children, Said, Unfinished, HeardOut, Outcome
  <2> QED
    BY <2>1, <2>2, <2>3, <2>4, <2>5, <2>6
<1>6. CASE ChildExits
  <2>1. HeardTypeOK'
    BY <1>6 DEF ChildExits, Exited, HeardTypeOK, Pipes, Children, Unfinished
  <2>2. Written'
    BY <1>6, InputAssumption DEF ChildExits, Exited, HeardTypeOK, Pipes, Children, Written, Unfinished, InputAssumption
  <2>3. Said'
    BY <1>6 DEF ChildExits, Exited, HeardTypeOK, Pipes, Children, Said
  <2>4. Unfinished'
    BY <1>6 DEF ChildExits, Exited, HeardTypeOK, Unfinished
  <2>5. HeardOut'
    BY <1>6 DEF ChildExits, Exited, HeardTypeOK, Pipes, Children, HeardOut
  <2>6. Outcome'
    BY <1>6 DEF ChildExits, Exited, HeardTypeOK, Pipes, Children, Said, Unfinished, HeardOut, Outcome
  <2> QED
    BY <2>1, <2>2, <2>3, <2>4, <2>5, <2>6
<1>7. CASE CloseInput
  <2>1. HeardTypeOK'
    BY <1>7 DEF CloseInput, HeardTypeOK, Pipes, Children, Unfinished
  <2>2. Written'
    BY <1>7, InputAssumption DEF CloseInput, HeardTypeOK, Pipes, Children, Written, Unfinished, InputAssumption
  <2>3. Said'
    BY <1>7 DEF CloseInput, HeardTypeOK, Pipes, Children, Said
  <2>4. Unfinished'
    BY <1>7 DEF CloseInput, HeardTypeOK, Unfinished
  <2>5. HeardOut'
    BY <1>7 DEF CloseInput, HeardTypeOK, Pipes, Children, HeardOut
  <2>6. Outcome'
    BY <1>7 DEF CloseInput, HeardTypeOK, Pipes, Children, Said, Unfinished, HeardOut, Outcome
  <2> QED
    BY <2>1, <2>2, <2>3, <2>4, <2>5, <2>6
<1>8. CASE Select
  <2>1. HeardTypeOK'
    BY <1>8 DEF Select, Readable, Writable, WriteSize, HeardTypeOK, Pipes, Children, Unfinished
  <2>2. Written'
    BY <1>8, InputAssumption DEF Select, Readable, Writable, WriteSize, HeardTypeOK, Pipes, Children, Written, Unfinished, InputAssumption
  <2>3. Said'
    BY <1>8 DEF Select, Readable, Writable, WriteSize, HeardTypeOK, Pipes, Children, Said
  <2>4. Unfinished'
    BY <1>8 DEF Select, Readable, Writable, WriteSize, HeardTypeOK, Unfinished
  <2>5. HeardOut'
    BY <1>8 DEF Select, Readable, Writable, WriteSize, HeardTypeOK, Pipes, Children, HeardOut
  <2>6. Outcome'
    BY <1>8 DEF Select, Readable, Writable, WriteSize, HeardTypeOK, Pipes, Children, Said, Unfinished, HeardOut, Outcome
  <2> QED
    BY <2>1, <2>2, <2>3, <2>4, <2>5, <2>6
<1>9. CASE Write
  <2>1. toProg.held + 1 \in Nat /\ left - 1 \in Nat /\ nb - 1 \in Nat
    BY <1>9 DEF Write, HeardTypeOK, Pipes, Unfinished
  <2>2. HeardTypeOK'
    BY <1>9, <2>1, PipeHolds DEF Write, HeardTypeOK
  <2>3. Written'
    BY <1>9, InputAssumption DEF Write, HeardTypeOK, Pipes, Children, Written, Unfinished, InputAssumption
  <2>4. Said'
    BY <1>9 DEF Write, HeardTypeOK, Pipes, Children, Said
  <2>5. Unfinished'
    BY <1>9 DEF Write, HeardTypeOK, Unfinished
  <2>6. HeardOut'
    BY <1>9 DEF Write, HeardTypeOK, Pipes, Children, HeardOut
  <2>7. Outcome'
    BY <1>9 DEF Write, HeardTypeOK, Pipes, Children, Said, Unfinished, HeardOut, Outcome
  <2> QED
    BY <2>2, <2>3, <2>4, <2>5, <2>6, <2>7
<1>10. CASE Read
  <2>1. HeardTypeOK'
    BY <1>10 DEF Read, HeardTypeOK, Pipes, Children, Unfinished
  <2>2. Written'
    BY <1>10, InputAssumption DEF Read, HeardTypeOK, Pipes, Children, Written, Unfinished, InputAssumption
  <2>3. Said'
    BY <1>10 DEF Read, HeardTypeOK, Pipes, Children, Said
  <2>4. Unfinished'
    BY <1>10 DEF Read, HeardTypeOK, Unfinished
  <2>5. HeardOut'
    BY <1>10 DEF Read, HeardTypeOK, Pipes, Children, HeardOut
  <2>6. Outcome'
    BY <1>10 DEF Read, HeardTypeOK, Pipes, Children, Said, Unfinished, HeardOut, Outcome
  <2> QED
    BY <2>1, <2>2, <2>3, <2>4, <2>5, <2>6
<1>11. CASE Cleanup
  <2>1. HeardTypeOK'
    BY <1>11 DEF Cleanup, HeardTypeOK, Pipes, Children, Unfinished
  <2>2. Written'
    BY <1>11, InputAssumption DEF Cleanup, HeardTypeOK, Pipes, Children, Written, Unfinished, InputAssumption
  <2>3. Said'
    BY <1>11 DEF Cleanup, HeardTypeOK, Pipes, Children, Said
  <2>4. Unfinished'
    BY <1>11 DEF Cleanup, HeardTypeOK, Unfinished
  <2>5. HeardOut'
    BY <1>11 DEF Cleanup, HeardTypeOK, Pipes, Children, HeardOut
  <2>6. Outcome'
    BY <1>11 DEF Cleanup, HeardTypeOK, Pipes, Children, Said, Unfinished, HeardOut, Outcome
  <2> QED
    BY <2>1, <2>2, <2>3, <2>4, <2>5, <2>6
<1>12. CASE Reap
  <2>1. HeardTypeOK'
    BY <1>12 DEF Reap, ReturnCode, HeardTypeOK, Pipes, Children, Unfinished
  <2>2. Written'
    BY <1>12, InputAssumption DEF Reap, ReturnCode, HeardTypeOK, Pipes, Children, Written, Unfinished, InputAssumption
  <2>3. Said'
    BY <1>12 DEF Reap, ReturnCode, HeardTypeOK, Pipes, Children, Said
  <2>4. Unfinished'
    BY <1>12 DEF Reap, ReturnCode, HeardTypeOK, Unfinished
  <2>5. HeardOut'
    BY <1>12 DEF Reap, ReturnCode, HeardTypeOK, Pipes, Children, HeardOut
  <2>6. Outcome'
    BY <1>12 DEF Reap, ReturnCode, HeardTypeOK, Pipes, Children, Said, Unfinished, HeardOut, Outcome
  <2> QED
    BY <2>1, <2>2, <2>3, <2>4, <2>5, <2>6
<1>13. CASE UNCHANGED vars
  BY <1>13 DEF vars, HeardTypeOK, Written, Said, Unfinished, HeardOut, Outcome
<1> QED
  BY <1>1, <1>2, <1>3, <1>4, <1>5, <1>6, <1>7, <1>8, <1>9, <1>10, <1>11, <1>12, <1>13 DEF Next, ChildNext, ParentNext

\* getOutputFrom() hears a dependency generator to its end, for every amount of
\* input and output and every size of the pipes, or reports a failure.
THEOREM GeneratorIsHeard == ASSUME InputAssumption PROVE Spec => []ChildrenHeard
<1>1. HeardInv => ChildrenHeard
  BY DEF HeardInv, HeardTypeOK, Pipes, Children, Written, Outcome, ChildrenHeard, InputAssumption
<1> QED
  BY HeardInitially, HeardStep, <1>1, PTL DEF Spec
===============================================================================
