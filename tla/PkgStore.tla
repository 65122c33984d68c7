------------------------------ MODULE PkgStore ------------------------------
(***************************************************************************)
(* What rpmpkgPut() and rpmpkgDel() promise: one request at a time, each   *)
(* takes effect at once or not at all, has taken effect when success is    *)
(* returned, and a crash or an error never leaves anything in between.     *)
(***************************************************************************)
CONSTANTS Pkgs, Vals, NoVal

VARIABLES
    store,      \* the blob of each package number, NoVal if there is none
    req,        \* the request being served
    applied     \* it has taken effect

vars == <<store, req, applied>>

NoReq == [kind |-> "none", idx |-> 0, val |-> NoVal]
Requests == [kind : {"put"}, idx : Pkgs, val : Vals]
            \cup [kind : {"del"}, idx : Pkgs, val : {NoVal}]

Init == store = [i \in Pkgs |-> NoVal] /\ req = NoReq /\ applied = FALSE

Begin(r) == req = NoReq /\ req' = r /\ UNCHANGED <<store, applied>>

Apply ==
    /\ req # NoReq /\ ~applied
    /\ applied' = TRUE
    /\ store' = [store EXCEPT ![req.idx] = req.val]
    /\ UNCHANGED req

\* Removing what is not there succeeds.
Return ==
    /\ req # NoReq
    /\ applied \/ store[req.idx] = req.val
    /\ req' = NoReq /\ applied' = FALSE /\ UNCHANGED store

\* The request fails, or its process dies.
Abort == req # NoReq /\ req' = NoReq /\ applied' = FALSE /\ UNCHANGED store

\* ... in the very moment it takes effect.
ApplyAbort ==
    /\ req # NoReq /\ ~applied
    /\ store' = [store EXCEPT ![req.idx] = req.val]
    /\ req' = NoReq /\ applied' = FALSE

Next ==
    \/ \E r \in Requests : Begin(r)
    \/ Apply \/ Return \/ Abort \/ ApplyAbort

Spec == Init /\ [][Next]_vars
=============================================================================
