------------------------------ MODULE CheckBatch ------------------------------
(***************************************************************************)
(* What a caller of CCheckQueueControl is promised (checkqueue.h), with no  *)
(* threads in sight: a control object is constructed on an idle queue,      *)
(* batches of checks are added to it, and Wait answers TRUE exactly when no *)
(* added check fails.  A control that is destroyed without a Wait still     *)
(* finishes all its checks; its answer is dropped.                          *)
(***************************************************************************)
CONSTANTS Checks,      \* the verifications (CScriptCheck objects)
          BadChecks    \* those whose operator() returns false

VARIABLES phase,   \* "out": no control object; "adding"; "waiting"
          added,   \* checks handed to Add since the control was constructed
          ret      \* the answer of the last Wait

vars == <<phase, added, ret>>

AllGood(S) == S \cap BadChecks = {}

Init ==
    /\ phase = "out"
    /\ added = {}
    /\ ret = TRUE

Construct ==
    /\ phase = "out"
    /\ phase' = "adding"
    /\ added' = {}
    /\ UNCHANGED ret

Add ==
    /\ phase = "adding"
    /\ added' \in SUBSET Checks
    /\ added \subseteq added'
    /\ UNCHANGED <<phase, ret>>

Wait ==
    /\ phase = "adding"
    /\ phase' = "waiting"
    /\ UNCHANGED <<added, ret>>

Return ==
    /\ phase = "waiting"
    /\ phase' = "out"
    /\ ret' = AllGood(added)
    /\ UNCHANGED added

Next == Construct \/ Add \/ Wait \/ Return

Spec == Init /\ [][Next]_vars
===============================================================================
