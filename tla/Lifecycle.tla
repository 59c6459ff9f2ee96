----------------------------- MODULE Lifecycle -----------------------------
(***************************************************************************)
(* What a client that keeps asking GET /api/analysis/{id} may be told about *)
(* an analysis, whatever the workers, the disk and other clients do. It is  *)
(* the abstract specification that JobService implements.                   *)
(*                                                                         *)
(* An analysis that was accepted is queued, then running; its answer can be *)
(* unreadable while the report is being written, and is then final. It can  *)
(* vanish at any time (a delete, a restart), and one that vanished before    *)
(* its run was over can come back, once, with its report.                   *)
(***************************************************************************)
CONSTANT Ids

VARIABLES
    visible,   \* the answer: a status, "unreadable" (a 500) or "unknown" (a 404)
    run        \* "new", "pending" until the run is over, then "over"

lifecycleVars == <<visible, run>>

Final == {"completed", "failed"}

LifecycleInit ==
    /\ visible = [i \in Ids |-> "unknown"]
    /\ run = [i \in Ids |-> "new"]

Show(i, v) == visible' = [visible EXCEPT ![i] = v]

Accept(i) ==
    /\ run[i] = "new"
    /\ Show(i, "queued")
    /\ run' = [run EXCEPT ![i] = "pending"]

\* The answers of a run in progress.
Advance(i) ==
    /\ run[i] = "pending"
    /\ \/ visible[i] = "queued" /\ Show(i, "running")
       \/ visible[i] \in {"running", "unknown"} /\ Show(i, "unreadable")
       \/ visible[i] = "unreadable" /\ \E s \in Final : Show(i, s)
    /\ UNCHANGED run

Finish(i) ==
    /\ run[i] = "pending"
    /\ run' = [run EXCEPT ![i] = "over"]
    /\ UNCHANGED visible

Vanish(i) ==
    /\ Show(i, "unknown")
    /\ UNCHANGED run

\* A restart ends every run; what is on disk, whole or torn, stays.
Reset ==
    /\ visible' = [i \in Ids |-> IF visible[i] \in Final \cup {"unreadable"}
                                 THEN visible[i] ELSE "unknown"]
    /\ run' = [i \in Ids |-> IF run[i] = "pending" THEN "over" ELSE run[i]]

LifecycleNext ==
    \/ \E i \in Ids : Accept(i) \/ Advance(i) \/ Finish(i) \/ Vanish(i)
    \/ Reset

LifecycleSpec == LifecycleInit /\ [][LifecycleNext]_lifecycleVars
=============================================================================
