----------------------------- MODULE FileRules -----------------------------
(***************************************************************************)
(* What lib/rpmfi.cc and lib/transaction.cc decide about one file from its *)
(* descriptions in one or two packages and from what is on the disk.       *)
(*                                                                         *)
(* A file of a package is a record: path (its fingerprint: the place on    *)
(* the disk), what (its type), dig (its digest and size, or link target),  *)
(* meta (mode and owner), flags, color (a set of ELF classes) and policy   *)
(* (why options of the transaction exclude it: "netshared", "excluded" or  *)
(* "none").  What is on the disk is a type and a dig.                      *)
(***************************************************************************)
EXTENDS Integers, Sequences, FiniteSets, SequencesExt

CONSTANTS
    DirOf,      \* the directory each path is in
    DirLinks    \* the digs of symbolic links that lead to a directory

Nothing == [what |-> "none", dig |-> "none"]

Content(f) == [what |-> f.what, dig |-> f.dig]

\* stat(2) says it is a directory
LeadsToDir(c) == c.what = "XDIR" \/ (c.what = "LINK" /\ c.dig \in DirLinks)

XFA_SKIPPING(a) == a \in {"SKIP", "SKIPNSTATE", "SKIPNETSHARED", "SKIPCOLOR"}

XFA_CREATING(a) == a \in {"CREATE", "BACKUP", "SAVE", "ALTNAME"}

\* rpmfilesCompare(): a difference between two descriptions of a path
Compare(a, b) ==
    /\ "GHOST" \notin a.flags \cup b.flags
    /\ Content(a) # Content(b) \/ a.meta # b.meta

\* rpmfileContentsEqual(): the old file, the new one and the disk agree
ContentsEqual(o, n, d) ==
    /\ d.what \in {"REG", "LINK"}
    /\ d.what = n.what /\ d.what = o.what
    /\ d.dig = n.dig
    /\ d.what = "REG" => o.dig = n.dig

\* Mutant: a modified file is taken for an unmodified one.
DecideFateForgetsUser(o, n, skipMissing, d) ==
    IF d = Content(n) THEN "TOUCH" ELSE "CREATE"

\* rpmfilesDecideFate(): what to do with a %config file n, o being the
\* installed one and d what is on the disk
DecideFate(o, n, skipMissing, d) ==
    IF "GHOST" \in n.flags THEN "SKIP"
    ELSE IF d = Nothing
    THEN IF skipMissing /\ "MISSINGOK" \in n.flags THEN "SKIP" ELSE "CREATE"
    ELSE IF o.what \notin {"REG", "LINK"} THEN "CREATE"
    ELSE IF d.what = o.what /\ d = Content(n) THEN "TOUCH"
    ELSE IF d = Content(o) THEN "CREATE"
    ELSE IF "CONFIG" \notin n.flags THEN "SAVE"
    ELSE IF Content(o) = Content(n) THEN "SKIP"
    ELSE IF "NOREPLACE" \in n.flags THEN "ALTNAME" ELSE "SAVE"

\* rpmfilesConfigConflict(): a %config file that is not what is on the disk
ConfigConflict(f, d) ==
    /\ "CONFIG" \in f.flags
    /\ f.what \in {"REG", "LINK"}
    /\ d # Nothing
    /\ "GHOST" \in f.flags \/ d # Content(f)

\* handleRemovalConflict(): f replaces o, whose package is being removed
RemovalConflict(f, o, d) ==
    /\ \/ o.what = "XDIR" /\ f.what # "XDIR"
       \/ /\ o.what = "LINK" /\ f.what = "XDIR"
          /\ LeadsToDir(d)
    /\ d # Nothing
    /\ d.what # f.what

\* handleColorConflict(): act and oact are the actions of the two files, oact
\* being "none" when the other file is an installed one (no ofs).
ColorConflict(tscolor, prefcolor, f, act, o, oact) ==
    LET fcolor == f.color \cap tscolor
        ocolor == o.color \cap tscolor
        Result(conflict, a, oa) == [conflict |-> conflict, act |-> a,
                                    oact |-> IF oact = "none" THEN oact ELSE oa]
    IN IF fcolor = {} \/ ocolor = {} \/ fcolor = ocolor
       THEN Result(TRUE, act, oact)
       ELSE IF fcolor \cap prefcolor # {}
       THEN Result(FALSE, "CREATE",
                   IF XFA_SKIPPING(act) THEN oact ELSE "SKIPCOLOR")
       ELSE IF ocolor \cap prefcolor # {}
       THEN Result(FALSE, "SKIPCOLOR",
                   IF XFA_SKIPPING(act) THEN "CREATE" ELSE oact)
       ELSE Result(TRUE, act, oact)

\* The action skipInstallFiles() gives a file by itself, a being the one it
\* has (--excludepath).  Languages, %config, %doc and %artifact files are
\* "excluded"; a %license file never is.
PolicyAction(f, a, tscolor) ==
    IF XFA_SKIPPING(a) THEN a
    ELSE IF tscolor # {} /\ f.color # {} /\ tscolor \cap f.color = {}
    THEN "SKIPCOLOR"
    ELSE IF f.policy = "netshared" THEN "SKIPNETSHARED"
    ELSE IF f.policy = "excluded" /\ "LICENSE" \notin f.flags THEN "SKIPNSTATE"
    ELSE a

\* skipInstallFiles(): files the options exclude, then the directories of the
\* package that have nothing left in them because of it, subdirectories first
\* (dirs: the directories of the list, parents before children).
SkipInstallFiles(files, acts, tscolor, dirs) ==
    LET skipped == [i \in DOMAIN files |->
                       PolicyAction(files[i], acts[i], tscolor)]
        Emptied(d, a) == \A i \in DOMAIN files :
                             DirOf[files[i].path] = d => XFA_SKIPPING(a[i])
        Exclude(d, a) ==
            LET own == {i \in DOMAIN files :
                           /\ ~XFA_SKIPPING(a[i])
                           /\ files[i].what = "XDIR" /\ files[i].path = d}
            IN IF Emptied(d, a) /\ own # {}
               THEN [a EXCEPT ![CHOOSE i \in own : \A j \in own : i <= j] =
                                  "SKIPNSTATE"]
               ELSE a
    IN FoldRight(Exclude, dirs, skipped)

\* skipEraseFiles()
SkipEraseFiles(files, acts) ==
    [i \in DOMAIN files |->
        IF files[i].policy = "netshared" THEN "SKIPNETSHARED" ELSE acts[i]]

\* rpmfsResetActions()
ResetActions(acts) ==
    [i \in DOMAIN acts |->
        IF acts[i] = "SKIPNSTATE" THEN "SKIPNSTATE" ELSE "UNKNOWN"]

\* setFileState(): what the database will say of a file
FileState(a) ==
    CASE a = "SKIPNSTATE" -> "NOTINSTALLED"
      [] a = "SKIPNETSHARED" -> "NETSHARED"
      [] a = "SKIPCOLOR" -> "WRONGCOLOR"
      [] OTHER -> "NORMAL"
=============================================================================
