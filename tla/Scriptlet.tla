----------------------------- MODULE Scriptlet ------------------------------
(***************************************************************************)
(* Running a scriptlet: runScript (lib/transaction.cc), rpmScriptRun,      *)
(* runExtScript and runLuaScript (lib/rpmscript.cc), the scriptlet hooks   *)
(* of lib/rpmplugins.cc and the counted chroot of lib/rpmchroot.cc.  An    *)
(* external scriptlet is a child process that may be fed a list of files   *)
(* through a pipe; a Lua one runs in rpm's own process.                    *)
(*                                                                         *)
(* A scriptlet is [lua, critical, body, files, prefix, rpmver]: files is   *)
(* the number of lines it is fed, the last three say whether it has a      *)
(* script text, install prefixes and a builder version.                    *)
(***************************************************************************)
EXTENDS Integers, TLAPS

CONSTANTS
    Scripts,    \* the scriptlets that may be run
    Plugins,    \* loaded plugins with scriptlet hooks
    Capacity,   \* lines the pipe and the stdio buffer hold
    MaxRuns     \* bound: scriptlets run one after the other

VARIABLES
    pc,         \* where rpm is
    script,     \* the scriptlet being run
    rc,         \* "OK", "FAIL", "NOTFOUND"
    scriptError,\* ts->scriptError
    chrootDone, \* rootState.chrootDone
    away,       \* history: the chroot could not be left
    hooked,     \* plugins between scriptlet_pre and scriptlet_post
    tmp,        \* the temporary file with the script text exists
    orphan,     \* one that could not be written is there, under a name nobody has
    left,       \* lines still to be written
    pipe,       \* lines in the pipe; the write end is open while "open"
    writer,     \* rpm's end of the pipe: "none", "open", "closed"
    child,      \* "none", "forked", "running", "deaf" (closed stdin), "dead"
    status,     \* how the child ended: "ok", "exit", "signal"
    lua,        \* [cwd, umask, next_file, prefix, rpmver] of rpm's process
    went,       \* history: did the scriptlet run to success
    runs

vars == <<pc, script, rc, scriptError, chrootDone, away, hooked, tmp, orphan, left, pipe, writer, child,
          status, lua, went, runs>>
Home == [cwd |-> "home", umask |-> "022", next_file |-> FALSE, prefix |-> FALSE, rpmver |-> FALSE]

Init ==
    /\ pc = "idle" /\ script \in Scripts /\ rc = "OK" /\ scriptError = FALSE /\ chrootDone = 0 /\ away = FALSE
    /\ hooked = {} /\ tmp = FALSE /\ orphan = FALSE /\ left = 0 /\ pipe = 0 /\ writer = "none" /\ child = "none"
    /\ status = "ok" /\ lua = Home /\ went = FALSE /\ runs = 0

Ext == <<tmp, left, pipe, writer, child, status>>
Result == <<rc, scriptError, went>>
Lasting == <<chrootDone, away, orphan>>

-----------------------------------------------------------------------------
(* rpmChrootIn() and rpmChrootOut() nest: only the first and the last of   *)
(* them change the root, and only these can fail, which leaves the count.  *)
ChrootIn(n) == IF n > 0 THEN {n + 1} ELSE {0, 1}
ChrootOut(n) == IF n > 1 THEN {n - 1} ELSE {0, 1}

(* runScript: enter the chroot; when that fails nothing is run.            *)
RunScript(s) ==
    /\ pc = "idle" /\ runs < MaxRuns
    /\ script' = s /\ runs' = runs + 1 /\ went' = FALSE
    /\ chrootDone' \in ChrootIn(chrootDone)
    /\ IF chrootDone' = chrootDone THEN rc' = "FAIL" /\ pc' = "idle"
                                 ELSE rc' = "OK" /\ pc' = "pre"
    /\ UNCHANGED <<scriptError, away, hooked, orphan, Ext, lua>>

(* rpmpluginsCallScriptletPre: every plugin is asked, one refusal is       *)
(* enough.                                                                 *)
ScriptletPre ==
    /\ pc = "pre"
    /\ hooked' = Plugins
    /\ \E refusing \in SUBSET Plugins :
         IF refusing = {}
         THEN /\ rc' = "FAIL"           \* runExtScript and runLuaScript assume failure
              /\ pc' = IF script.lua THEN "lua" ELSE "write"
         ELSE rc' = "FAIL" /\ pc' = "post"
    /\ UNCHANGED <<script, scriptError, Lasting, Ext, lua, went, runs>>

-----------------------------------------------------------------------------
(* runExtScript.  writeScript, pipe and the descriptor for its output.     *)
(* writeScript that fails to write has made the file all the same; it      *)
(* forgets the name, so the exit below has nothing to remove.              *)
WriteScript ==
    /\ pc = "write"
    /\ \/ /\ tmp' = script.body /\ UNCHANGED orphan
          /\ \/ pc' = "fork" /\ writer' = "open"
             \/ pc' = "exit" /\ UNCHANGED writer    \* no pipe
             \/ pc' = "exit" /\ writer' = "open"    \* no descriptor
       \/ /\ script.body /\ pc' = "exit"
          /\ orphan' \in {orphan, TRUE}            \* no file, or one that cannot be written
          /\ UNCHANGED <<tmp, writer>>
    /\ left' = script.files /\ pipe' = 0
    /\ UNCHANGED <<script, chrootDone, away, hooked, child, status, lua, Result, runs>>

Fork ==
    /\ pc = "fork"
    /\ \/ pc' = "exit" /\ UNCHANGED child
       \/ pc' = "feed" /\ child' = "forked"
    /\ UNCHANGED <<script, Lasting, hooked, tmp, left, pipe, writer, status, lua, Result, runs>>

(* The child: scriptlet_fork_post hooks, doScriptExec; then it is whatever *)
(* program the package named: it may read, close its input, end or be      *)
(* killed.                                                                 *)
ScriptExec ==
    /\ child = "forked"
    /\ \/ child' = "running" /\ UNCHANGED status
       \/ child' = "dead" /\ status' = "exit"       \* 126 or 127
    /\ UNCHANGED <<pc, script, Lasting, hooked, tmp, left, pipe, writer, lua, Result, runs>>

ChildReads ==
    /\ child = "running" /\ pipe > 0
    /\ pipe' = pipe - 1
    /\ UNCHANGED <<pc, script, Lasting, hooked, tmp, left, writer, child, status, lua, Result, runs>>

ChildDeaf ==
    /\ child = "running"
    /\ child' = "deaf"
    /\ UNCHANGED <<pc, script, Lasting, hooked, tmp, left, pipe, writer, status, lua, Result, runs>>

(* A program that reads its input ends when it has seen the end of it.     *)
ChildEnds ==
    /\ child = "deaf" \/ (child = "running" /\ pipe = 0 /\ writer # "open")
    /\ child' = "dead" /\ status' \in {"ok", "exit"}
    /\ UNCHANGED <<pc, script, Lasting, hooked, tmp, left, pipe, writer, lua, Result, runs>>

ChildKilled ==
    /\ child \in {"running", "deaf"}
    /\ child' = "dead" /\ status' = "signal"
    /\ UNCHANGED <<pc, script, Lasting, hooked, tmp, left, pipe, writer, lua, Result, runs>>

(* The files, one fwrite each: blocked while the pipe is full, EPIPE when  *)
(* nobody reads, any other error gives up without waiting for the child.   *)
Feed ==
    /\ pc = "feed" /\ left > 0
    /\ \/ /\ child \in {"forked", "running"} /\ pipe < Capacity
          /\ pipe' = pipe + 1 /\ left' = left - 1 /\ UNCHANGED pc
       \/ /\ child \in {"deaf", "dead"}
          /\ left' = 0 /\ UNCHANGED <<pc, pipe>>
       \/ /\ pc' = "exit" /\ UNCHANGED <<left, pipe>>
    /\ UNCHANGED <<script, rc, scriptError, Lasting, hooked, tmp, writer, child, status, lua, went, runs>>

(* Mutant: waiting before the write end is closed.                         *)
FeedEndOpen ==
    /\ pc = "feed" /\ left = 0
    /\ pc' = "wait"
    /\ UNCHANGED <<script, Lasting, hooked, tmp, left, pipe, writer, child, status, lua, Result, runs>>

FeedEnd ==
    /\ pc = "feed" /\ left = 0
    /\ writer' = "closed" /\ pc' = "wait"
    /\ UNCHANGED <<script, Lasting, hooked, tmp, left, pipe, child, status, lua, Result, runs>>

(* WIFEXITED(status) and WEXITSTATUS(status) = 0.                          *)
Exited(st) == st = "ok"

Wait ==
    /\ pc = "wait" /\ child = "dead"
    /\ rc' = IF Exited(status) THEN "OK" ELSE "FAIL"
    /\ went' = (status = "ok")
    /\ child' = "none" /\ pc' = "exit"
    /\ UNCHANGED <<script, scriptError, Lasting, hooked, tmp, left, pipe, writer, status, lua, runs>>

(* exit: close what is open, remove the temporary file.  A child that was  *)
(* given up on (see Feed) is left to itself.                               *)
ExtExit ==
    /\ pc = "exit"
    /\ writer' = "none" /\ tmp' = FALSE /\ left' = 0 /\ pipe' = 0
    /\ child' = "none" /\ status' = "ok"
    /\ pc' = "post"
    /\ UNCHANGED <<script, Lasting, hooked, lua, Result, runs>>

-----------------------------------------------------------------------------
(* Mutant: only the directory is given back.                               *)
RestoreCwd(l, from) == [l EXCEPT !.cwd = from.cwd]
(* runLuaScript gives back the working directory and the umask, and clears *)
(* what it had set for the script.  RPM_PACKAGE_RPMVERSION stays in the    *)
(* registry: the table is indexed with the version, not with the name.     *)
Restore(l, from) ==
    [l EXCEPT !.cwd = from.cwd, !.umask = from.umask, !.prefix = FALSE, !.next_file = FALSE]

(* What a Lua scriptlet finds: rpm's process with the globals it is given; *)
(* what it leaves: it may change directory and umask.                      *)
LuaGlobals(l, s) == [l EXCEPT !.next_file = IF s.files > 0 THEN TRUE ELSE FALSE, !.prefix = s.prefix]
LuaRan(l, s, dir, mask) ==
    [LuaGlobals(l, s) EXCEPT !.cwd = dir, !.umask = mask, !.rpmver = IF s.rpmver THEN TRUE ELSE @]

(* Without the descriptor of the current directory the script is not run.  *)
LuaScript ==
    /\ pc = "lua"
    /\ \/ /\ lua' = [LuaGlobals(lua, script) EXCEPT !.next_file = FALSE, !.prefix = FALSE]
          /\ UNCHANGED <<rc, went>>
       \/ \E dir \in {"home", "else"}, mask \in {"022", "else"}, ok \in BOOLEAN :
            \/ /\ lua' = Restore(LuaRan(lua, script, dir, mask), lua)
               /\ rc' = (IF ok THEN "OK" ELSE "FAIL") /\ went' = ok
            \/ /\ lua' = [Restore(LuaRan(lua, script, dir, mask), lua) EXCEPT !.cwd = dir] \* fchdir fails
               /\ rc' = "NOTFOUND" /\ went' = FALSE
    /\ pc' = "post"
    /\ UNCHANGED <<script, scriptError, Lasting, hooked, Ext, runs>>

-----------------------------------------------------------------------------
(* rpmpluginsCallScriptletPost, whatever happened; then the rest of        *)
(* runScript: a scriptlet that is not critical fails with a warning only.  *)
ScriptletPost ==
    /\ pc = "post"
    /\ hooked' = {} /\ pc' = "stop"
    /\ UNCHANGED <<script, Lasting, Ext, lua, Result, runs>>

ScriptStop ==
    /\ pc = "stop"
    /\ scriptError' = (scriptError \/ rc # "OK")
    /\ rc' = IF script.critical THEN rc ELSE "OK"
    /\ chrootDone' \in ChrootOut(chrootDone)       \* a failure is not looked at
    /\ away' = IF chrootDone' = chrootDone THEN TRUE ELSE away
    /\ pc' = "idle"
    /\ UNCHANGED <<script, hooked, orphan, Ext, lua, went, runs>>

Rpm == ScriptletPre \/ WriteScript \/ Fork \/ Feed \/ FeedEnd \/ Wait \/ ExtExit \/ LuaScript \/ ScriptletPost \/ ScriptStop
Child == ScriptExec \/ ChildReads \/ ChildDeaf \/ ChildEnds \/ ChildKilled
Next == (\E s \in Scripts : RunScript(s)) \/ Rpm \/ Child

(* rpm goes on when it can.  A program that can read or has reached the    *)
(* end of its input goes on too; nothing says that it stops reading early. *)
Spec == Init /\ [][Next]_vars
        /\ WF_vars(Rpm) /\ WF_vars(ScriptExec) /\ WF_vars(ChildReads) /\ WF_vars(ChildEnds)

-----------------------------------------------------------------------------
(* A scriptlet that did not run to success is an error of the transaction, *)
(* and stops its element exactly when it is critical; one that did is not. *)
FailureReported ==
    pc = "idle" /\ runs > 0 =>
      /\ ~went => scriptError \/ rc = "FAIL"
      /\ ~went /\ script.critical => rc # "OK"
      /\ went => rc = "OK"

(* Between two scriptlets what was set up for the last one is undone: no   *)
(* temporary file that rpm has the name of, no open pipe, no plugin        *)
(* waiting for scriptlet_post, the chroot is left as often as it was       *)
(* entered (unless leaving it failed), and the process has its umask and   *)
(* Lua globals again.  Two things may stay, and only in a transaction that *)
(* has a scriptlet error: a directory that could not be returned to, and a *)
(* temporary file that could not be written.  (With -vv the file is kept   *)
(* on purpose; a program that could not be fed is not waited for.)         *)
SetupUndone ==
    pc = "idle" =>
      /\ ~tmp /\ writer = "none" /\ hooked = {} /\ chrootDone = (IF away THEN 1 ELSE 0)
      /\ lua.umask = "022" /\ ~lua.next_file /\ ~lua.prefix
      /\ lua.cwd # "home" \/ orphan => scriptError

(* runScript as its caller sees it.                                        *)
ChildrenHeard == FailureReported /\ SetupUndone

-----------------------------------------------------------------------------
(* Both for every set of scriptlets and of plugins.                        *)

LuaStates == [cwd : {"home", "else"}, umask : {"022", "else"}, next_file : BOOLEAN, prefix : BOOLEAN,
              rpmver : BOOLEAN]
ScriptTypeOK ==
    /\ pc \in {"idle", "pre", "lua", "write", "fork", "feed", "wait", "exit", "post", "stop"}
    /\ rc \in {"OK", "FAIL", "NOTFOUND"} /\ went \in BOOLEAN /\ scriptError \in BOOLEAN
    /\ chrootDone \in {0, 1, 2} /\ away \in BOOLEAN /\ lua \in LuaStates

\* runExtScript() and runLuaScript() assume failure until the scriptlet succeeded
FailureAssumed ==
    /\ pc \in {"write", "lua", "fork", "feed", "wait"} => ~went /\ rc = "FAIL"
    /\ pc = "pre" => ~went
    /\ pc \in {"exit", "post", "stop"} => (went <=> rc = "OK")
\* The resources of each phase are gone when it is over
ResourcesFreed ==
    /\ pc \in {"idle", "pre", "write", "lua", "post", "stop"} => ~tmp /\ writer = "none"
    /\ pc \in {"idle", "pre", "stop"} => hooked = {}
    /\ chrootDone = IF pc = "idle" THEN (IF away THEN 1 ELSE 0) ELSE (IF away THEN 2 ELSE 1)
\* rpm's own process keeps its umask and its Lua globals; it keeps its directory, and
\* leaves no file it cannot name, unless an error was or will be reported
ProcessRestored ==
    /\ lua.umask = "022" /\ ~lua.next_file /\ ~lua.prefix
    /\ lua.cwd # "home" \/ orphan => scriptError \/ (pc \in {"exit", "post", "stop"} /\ rc # "OK")
ScriptInv == ScriptTypeOK /\ FailureAssumed /\ ResourcesFreed /\ ProcessRestored /\ FailureReported

\* rpm's process as a Lua scriptlet leaves it, whatever the script did
LuaRestored(l, from) == l \in LuaStates /\ l.umask = from.umask /\ ~l.next_file /\ ~l.prefix
LEMMA LuaGivenBack ==
    ASSUME NEW l \in LuaStates, NEW s, NEW dir \in {"home", "else"}, NEW mask
    PROVE  /\ LuaRestored(Restore(LuaRan(l, s, dir, mask), l), l)
           /\ Restore(LuaRan(l, s, dir, mask), l).cwd = l.cwd
           /\ LuaRestored([Restore(LuaRan(l, s, dir, mask), l) EXCEPT !.cwd = dir], l)
  BY DEF LuaStates, Restore, LuaRan, LuaGlobals, LuaRestored

LEMMA LuaNotRun ==
    ASSUME NEW l \in LuaStates, NEW s
    PROVE  LET back == [LuaGlobals(l, s) EXCEPT !.next_file = FALSE, !.prefix = FALSE]
           IN LuaRestored(back, l) /\ back.cwd = l.cwd
  BY DEF LuaStates, LuaGlobals, LuaRestored

LEMMA ScriptInitially == Init => ScriptInv
<1> SUFFICES ASSUME Init PROVE ScriptInv
  OBVIOUS
<1>1. lua \in LuaStates /\ ProcessRestored
  BY DEF Init, Home, LuaStates, ProcessRestored
<1>2. ScriptTypeOK
  BY <1>1 DEF Init, ScriptTypeOK
<1> QED
  BY <1>1, <1>2 DEF Init, ScriptInv, FailureAssumed, ResourcesFreed, FailureReported

LEMMA ScriptStep == ScriptInv /\ [Next]_vars => ScriptInv'
<1> SUFFICES ASSUME ScriptInv, [Next]_vars PROVE ScriptInv'
  OBVIOUS
<1> USE DEF ScriptInv
<1>1. ASSUME NEW s \in Scripts, RunScript(s) PROVE ScriptInv'
  <2>1. /\ chrootDone' = IF pc' = "idle" THEN (IF away THEN 1 ELSE 0) ELSE (IF away THEN 2 ELSE 1)
        /\ chrootDone' \in {0, 1, 2} /\ away' = away
    <3>1. CASE away
      BY <1>1, <3>1 DEF RunScript, ChrootIn, ResourcesFreed
    <3>2. CASE ~away
      BY <1>1, <3>2 DEF RunScript, ChrootIn, ResourcesFreed
    <3> QED
      BY <3>1, <3>2
  <2>2. ScriptTypeOK'
    BY <1>1, <2>1 DEF RunScript, ScriptTypeOK
  <2>3. FailureAssumed' /\ FailureReported'
    BY <1>1 DEF RunScript, FailureAssumed, FailureReported
  <2>4. ResourcesFreed'
    BY <1>1, <2>1 DEF RunScript, Ext, ResourcesFreed
  <2>5. ProcessRestored'
    BY <1>1 DEF RunScript, ProcessRestored
  <2> QED
    BY <2>2, <2>3, <2>4, <2>5
<1>2. CASE ScriptletPre
  <2>1. ScriptTypeOK'
    BY <1>2 DEF ScriptletPre, Lasting, Ext, ScriptTypeOK
  <2>2. FailureAssumed' /\ FailureReported'
    BY <1>2 DEF ScriptletPre, Lasting, Ext, FailureAssumed, FailureReported
  <2>3. ResourcesFreed'
    BY <1>2 DEF ScriptletPre, Lasting, Ext, ResourcesFreed
  <2>4. ProcessRestored'
    BY <1>2 DEF ScriptletPre, Lasting, Ext, ProcessRestored
  <2> QED
    BY <2>1, <2>2, <2>3, <2>4
<1>3. CASE WriteScript
  <2>1. ScriptTypeOK'
    BY <1>3 DEF WriteScript, Result, ScriptTypeOK
  <2>2. FailureAssumed' /\ FailureReported'
    BY <1>3 DEF WriteScript, Result, FailureAssumed, FailureReported
  <2>3. ResourcesFreed'
    BY <1>3 DEF WriteScript, Result, ResourcesFreed
  <2>4. ProcessRestored'
    <3>1. /\ rc = "FAIL" /\ rc' = rc /\ scriptError' = scriptError /\ lua' = lua /\ pc = "write"
          /\ UNCHANGED orphan \/ pc' = "exit"
      BY <1>3 DEF WriteScript, Result, FailureAssumed
    <3>2. CASE UNCHANGED orphan
      BY <3>1, <3>2 DEF ProcessRestored
    <3>3. CASE pc' = "exit"
      BY <3>1, <3>3 DEF ProcessRestored
    <3> QED
      BY <3>1, <3>2, <3>3
  <2> QED
    BY <2>1, <2>2, <2>3, <2>4
<1>4. CASE Fork
  <2>1. ScriptTypeOK'
    BY <1>4 DEF Fork, Lasting, Result, ScriptTypeOK
  <2>2. FailureAssumed' /\ FailureReported'
    BY <1>4 DEF Fork, Lasting, Result, FailureAssumed, FailureReported
  <2>3. ResourcesFreed'
    BY <1>4 DEF Fork, Lasting, Result, ResourcesFreed
  <2>4. ProcessRestored'
    BY <1>4 DEF Fork, Lasting, Result, ProcessRestored
  <2> QED
    BY <2>1, <2>2, <2>3, <2>4
<1>5. CASE Feed
  <2>1. ScriptTypeOK'
    BY <1>5 DEF Feed, Lasting, ScriptTypeOK
  <2>2. FailureAssumed' /\ FailureReported'
    BY <1>5 DEF Feed, Lasting, FailureAssumed, FailureReported
  <2>3. ResourcesFreed'
    BY <1>5 DEF Feed, Lasting, ResourcesFreed
  <2>4. ProcessRestored'
    BY <1>5 DEF Feed, Lasting, ProcessRestored
  <2> QED
    BY <2>1, <2>2, <2>3, <2>4
<1>6. CASE FeedEnd
  <2>1. ScriptTypeOK'
    BY <1>6 DEF FeedEnd, Lasting, Result, ScriptTypeOK
  <2>2. FailureAssumed' /\ FailureReported'
    BY <1>6 DEF FeedEnd, Lasting, Result, FailureAssumed, FailureReported
  <2>3. ResourcesFreed'
    BY <1>6 DEF FeedEnd, Lasting, Result, ResourcesFreed
  <2>4. ProcessRestored'
    BY <1>6 DEF FeedEnd, Lasting, Result, ProcessRestored
  <2> QED
    BY <2>1, <2>2, <2>3, <2>4
<1>7. CASE Wait
  <2>1. ScriptTypeOK'
    BY <1>7 DEF Wait, Exited, Lasting, ScriptTypeOK
  <2>2. FailureAssumed' /\ FailureReported'
    BY <1>7 DEF Wait, Exited, Lasting, FailureAssumed, FailureReported
  <2>3. ResourcesFreed'
    BY <1>7 DEF Wait, Exited, Lasting, ResourcesFreed
  <2>4. ProcessRestored'
    BY <1>7 DEF Wait, Exited, Lasting, ProcessRestored
  <2> QED
    BY <2>1, <2>2, <2>3, <2>4
<1>8. CASE ExtExit
  <2>1. ScriptTypeOK'
    BY <1>8 DEF ExtExit, Lasting, Result, ScriptTypeOK
  <2>2. FailureAssumed' /\ FailureReported'
    BY <1>8 DEF ExtExit, Lasting, Result, FailureAssumed, FailureReported
  <2>3. ResourcesFreed'
    BY <1>8 DEF ExtExit, Lasting, Result, ResourcesFreed
  <2>4. ProcessRestored'
    BY <1>8 DEF ExtExit, Lasting, Result, ProcessRestored
  <2> QED
    BY <2>1, <2>2, <2>3, <2>4
<1>9. CASE LuaScript
  <2> DEFINE Ended ==
        /\ LuaRestored(lua', lua) /\ rc' \in {"OK", "FAIL", "NOTFOUND"} /\ went' \in BOOLEAN
        /\ lua'.cwd = lua.cwd \/ rc' = "NOTFOUND"
        /\ went' <=> rc' = "OK"
  <2>1. Ended
    <3>1. lua \in LuaStates /\ rc = "FAIL" /\ ~went /\ went \in BOOLEAN
      BY <1>9 DEF LuaScript, ScriptTypeOK, FailureAssumed
    <3>2. CASE /\ lua' = [LuaGlobals(lua, script) EXCEPT !.next_file = FALSE, !.prefix = FALSE]
               /\ UNCHANGED <<rc, went>>
      BY <3>1, <3>2, LuaNotRun
    <3>3. ASSUME NEW dir \in {"home", "else"}, NEW mask \in {"022", "else"}, NEW ok \in BOOLEAN,
                 lua' = Restore(LuaRan(lua, script, dir, mask), lua),
                 rc' = IF ok THEN "OK" ELSE "FAIL", went' = ok
          PROVE  Ended
      BY <3>1, <3>3, LuaGivenBack
    <3>4. ASSUME NEW dir \in {"home", "else"}, NEW mask \in {"022", "else"},
                 lua' = [Restore(LuaRan(lua, script, dir, mask), lua) EXCEPT !.cwd = dir],
                 rc' = "NOTFOUND", went' = FALSE
          PROVE  Ended
      BY <3>1, <3>4, LuaGivenBack
    <3> QED
      BY <1>9, <3>2, <3>3, <3>4 DEF LuaScript
  <2>2. ScriptTypeOK' /\ FailureAssumed' /\ FailureReported'
    BY <1>9, <2>1 DEF LuaScript, Lasting, LuaRestored, ScriptTypeOK, FailureAssumed, FailureReported
  <2>3. ResourcesFreed'
    BY <1>9 DEF LuaScript, Lasting, Ext, ResourcesFreed
  <2>4. ProcessRestored'
    BY <1>9, <2>1 DEF LuaScript, Lasting, LuaRestored, ProcessRestored
  <2> QED
    BY <2>2, <2>3, <2>4
<1>10. CASE ScriptletPost
  <2>1. ScriptTypeOK'
    BY <1>10 DEF ScriptletPost, Lasting, Ext, Result, ScriptTypeOK
  <2>2. FailureAssumed' /\ FailureReported'
    BY <1>10 DEF ScriptletPost, Lasting, Ext, Result, FailureAssumed, FailureReported
  <2>3. ResourcesFreed'
    BY <1>10 DEF ScriptletPost, Lasting, Ext, Result, ResourcesFreed
  <2>4. ProcessRestored'
    BY <1>10 DEF ScriptletPost, Lasting, Ext, Result, ProcessRestored
  <2> QED
    BY <2>1, <2>2, <2>3, <2>4
<1>11. CASE ScriptStop
  <2>1. /\ chrootDone' = IF away' THEN 1 ELSE 0
        /\ chrootDone' \in {0, 1, 2} /\ away' \in BOOLEAN
    <3>1. CASE away
      BY <1>11, <3>1 DEF ScriptStop, ChrootOut, ResourcesFreed
    <3>2. CASE ~away
      <4>1. chrootDone = 1 /\ chrootDone' \in {0, 1}
        BY <1>11, <3>2 DEF ScriptStop, ChrootOut, ResourcesFreed
      <4>2. CASE chrootDone' = 1
        BY <1>11, <4>1, <4>2 DEF ScriptStop
      <4>3. CASE chrootDone' = 0
        BY <1>11, <3>2, <4>1, <4>3 DEF ScriptStop, ScriptTypeOK
      <4> QED
        BY <4>1, <4>2, <4>3
    <3> QED
      BY <3>1, <3>2
  <2>2. ScriptTypeOK'
    BY <1>11, <2>1 DEF ScriptStop, ScriptTypeOK
  <2>3. FailureAssumed' /\ FailureReported'
    BY <1>11 DEF ScriptStop, ScriptTypeOK, FailureAssumed, FailureReported
  <2>4. ResourcesFreed'
    BY <1>11, <2>1 DEF ScriptStop, Ext, ResourcesFreed
  <2>5. ProcessRestored'
    BY <1>11 DEF ScriptStop, ProcessRestored
  <2> QED
    BY <2>2, <2>3, <2>4, <2>5
<1>12. CASE ScriptExec
  <2>1. ScriptTypeOK'
    BY <1>12 DEF ScriptExec, Lasting, Result, ScriptTypeOK
  <2>2. FailureAssumed' /\ FailureReported'
    BY <1>12 DEF ScriptExec, Lasting, Result, FailureAssumed, FailureReported
  <2>3. ResourcesFreed'
    BY <1>12 DEF ScriptExec, Lasting, Result, ResourcesFreed
  <2>4. ProcessRestored'
    BY <1>12 DEF ScriptExec, Lasting, Result, ProcessRestored
  <2> QED
    BY <2>1, <2>2, <2>3, <2>4
<1>13. CASE ChildReads
  <2>1. ScriptTypeOK'
    BY <1>13 DEF ChildReads, Lasting, Result, ScriptTypeOK
  <2>2. FailureAssumed' /\ FailureReported'
    BY <1>13 DEF ChildReads, Lasting, Result, FailureAssumed, FailureReported
  <2>3. ResourcesFreed'
    BY <1>13 DEF ChildReads, Lasting, Result, ResourcesFreed
  <2>4. ProcessRestored'
    BY <1>13 DEF ChildReads, Lasting, Result, ProcessRestored
  <2> QED
    BY <2>1, <2>2, <2>3, <2>4
<1>14. CASE ChildDeaf
  <2>1. ScriptTypeOK'
    BY <1>14 DEF ChildDeaf, Lasting, Result, ScriptTypeOK
  <2>2. FailureAssumed' /\ FailureReported'
    BY <1>14 DEF ChildDeaf, Lasting, Result, FailureAssumed, FailureReported
  <2>3. ResourcesFreed'
    BY <1>14 DEF ChildDeaf, Lasting, Result, ResourcesFreed
  <2>4. ProcessRestored'
    BY <1>14 DEF ChildDeaf, Lasting, Result, ProcessRestored
  <2> QED
    BY <2>1, <2>2, <2>3, <2>4
<1>15. CASE ChildEnds
  <2>1. ScriptTypeOK'
    BY <1>15 DEF ChildEnds, Lasting, Result, ScriptTypeOK
  <2>2. FailureAssumed' /\ FailureReported'
    BY <1>15 DEF ChildEnds, Lasting, Result, FailureAssumed, FailureReported
  <2>3. ResourcesFreed'
    BY <1>15 DEF ChildEnds, Lasting, Result, ResourcesFreed
  <2>4. ProcessRestored'
    BY <1>15 DEF ChildEnds, Lasting, Result, ProcessRestored
  <2> QED
    BY <2>1, <2>2, <2>3, <2>4
<1>16. CASE ChildKilled
  <2>1. ScriptTypeOK'
    BY <1>16 DEF ChildKilled, Lasting, Result, ScriptTypeOK
  <2>2. FailureAssumed' /\ FailureReported'
    BY <1>16 DEF ChildKilled, Lasting, Result, FailureAssumed, FailureReported
  <2>3. ResourcesFreed'
    BY <1>16 DEF ChildKilled, Lasting, Result, ResourcesFreed
  <2>4. ProcessRestored'
    BY <1>16 DEF ChildKilled, Lasting, Result, ProcessRestored
  <2> QED
    BY <2>1, <2>2, <2>3, <2>4
<1>17. CASE UNCHANGED vars
  BY <1>17 DEF vars, ScriptTypeOK, FailureAssumed, ResourcesFreed, ProcessRestored, FailureReported
<1> QED
  BY <1>1, <1>2, <1>3, <1>4, <1>5, <1>6, <1>7, <1>8, <1>9, <1>10, <1>11, <1>12, <1>13, <1>14, <1>15, <1>16, <1>17 DEF Next, Rpm, Child

\* runScript() reports what became of a scriptlet and undoes what it set up for it,
\* whatever the program does with the files it is fed; what it cannot undo (a script
\* text half written, a directory that cannot be returned to) is never left silently.
THEOREM ScriptletIsHeard == Spec => []ChildrenHeard
<1>1. ScriptInv => ChildrenHeard
  BY DEF ScriptInv, ScriptTypeOK, ResourcesFreed, ProcessRestored, ChildrenHeard, SetupUndone
<1> QED
  BY ScriptInitially, ScriptStep, <1>1, PTL DEF Spec
=============================================================================
