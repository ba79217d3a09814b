----------------------------- MODULE ArchiveJob -----------------------------
(***************************************************************************)
(* What those who asked for an archive are promised, with the workflow,    *)
(* its session, the workers and their disks hidden: a job that runs, and   *)
(* the object that its URL will lead to.                                   *)
(*                                                                         *)
(*   - A job ends at most once, and stays as it ended.                     *)
(*   - It completes only over an object that has every file whole, or that *)
(*     an abandoned attempt has spoiled, and sends nothing from then on.   *)
(*   - What it had sent before may still be stored after that, but it is   *)
(*     such an object too; where nothing spoiled was stored or is due, the *)
(*     object stays whole.                                                 *)
(*   - About the object of a job that runs or failed nothing is promised.  *)
(***************************************************************************)
VARIABLES
    status,    \* "running", "completed" or "failed"
    archive,   \* the object: "none", "whole", "spoiled" or "broken"
    due        \* the bodies sent that may be stored yet, though they were given up

vars == <<status, archive, due>>

Sent == {"whole", "spoiled", "broken"}

Finished == {"whole", "spoiled"}

Init == status = "running" /\ archive = "none" /\ due = {}

(* An attempt uploads what it has, or leaves it to be stored later.        *)
Put ==
    /\ status # "completed"
    /\ archive' \in {archive} \cup Sent
    /\ due' \in SUBSET Sent
    /\ UNCHANGED status

(* What was sent is stored; more than one attempt may have sent the same.  *)
Store ==
    \E body \in due :
        /\ archive' = body
        /\ due' \in {due, due \ {body}}
        /\ UNCHANGED status

Complete ==
    /\ status = "running" /\ archive \in Finished /\ due \subseteq Finished
    /\ status' = "completed"
    /\ UNCHANGED <<archive, due>>

Fail ==
    /\ status = "running"
    /\ status' = "failed"
    /\ UNCHANGED <<archive, due>>

Next == Put \/ Store \/ Complete \/ Fail

Spec == Init /\ [][Next]_vars

=============================================================================
