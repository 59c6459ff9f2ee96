---------------------------- MODULE ProcessTree ----------------------------
(***************************************************************************)
(* The process tree of build_process_signals (signals.py). The events of    *)
(* all stages are joined by pid, and pids repeat from one sandbox to the    *)
(* next: a pid's node is that of its first exec, its parent that of the     *)
(* last fork that named it, and the parents can go round in a circle.       *)
(*                                                                          *)
(* An event is [type, pid, child]; pid 0 stands for None.                   *)
(***************************************************************************)
EXTENDS Naturals, Sequences, FiniteSets, SequencesExt

NoPid == 0

\* The pids of the tree in the order of their first exec.
Nodes(events) ==
    LET seen[k \in 0..Len(events)] ==
            IF k = 0 THEN <<>>
            ELSE LET e == events[k] IN
                 IF e.type = "exec" /\ e.pid # NoPid /\ e.pid \notin ToSet(seen[k - 1])
                 THEN Append(seen[k - 1], e.pid) ELSE seen[k - 1]
    IN  seen[Len(events)]

\* The node each node hangs below; NoPid when it has none, or none that exec'd.
Parents(events) ==
    LET nodes == ToSet(Nodes(events))
        lastFork == FoldLeft(LAMBDA f, e : IF e.type = "fork" /\ e.child \in nodes
                                           THEN [f EXCEPT ![e.child] = e.pid] ELSE f,
                             [n \in nodes |-> NoPid], events)
    IN  [n \in nodes |-> IF lastFork[n] \in nodes THEN lastFork[n] ELSE NoPid]

Unknown == [known |-> FALSE, value |-> 0]
Known(d) == [known |-> TRUE, value |-> d]

\* resolve() of _tree_depths: the depths known after asking for a pid, with the
\* pids seen on the way to it.
Resolve(parent, depth, pid, seen) ==
    LET walk[up \in SUBSET DOMAIN parent] == [p \in DOMAIN parent |->
            IF depth[p].known THEN depth
            ELSE IF parent[p] = NoPid \/ parent[p] \in up
            THEN [depth EXCEPT ![p] = Known(0)]
            ELSE LET after == walk[up \cup {parent[p]}][parent[p]] IN
                 [after EXCEPT ![p] = Known(after[parent[p]].value + 1)]]
    IN  walk[seen][pid]

\* Mistake: the walk starts without the pid it starts from.
TreeDepthsUnseen(events) ==
    LET parent == Parents(events)
        order == Nodes(events)
        depths[k \in 0..Len(order)] ==
            IF k = 0 THEN [n \in DOMAIN parent |-> Unknown]
            ELSE Resolve(parent, depths[k - 1], order[k], {})
    IN  [n \in DOMAIN parent |-> depths[Len(order)][n].value]

\* _tree_depths.
TreeDepths(events) ==
    LET parent == Parents(events)
        order == Nodes(events)
        depths[k \in 0..Len(order)] ==
            IF k = 0 THEN [n \in DOMAIN parent |-> Unknown]
            ELSE Resolve(parent, depths[k - 1], order[k], {order[k]})
    IN  [n \in DOMAIN parent |-> depths[Len(order)][n].value]
=============================================================================
