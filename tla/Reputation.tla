----------------------------- MODULE Reputation -----------------------------
(***************************************************************************)
(* What the host finds out about a package from its name and its releases:  *)
(* the most similar popular name (typosquat_check of registry.py), the      *)
(* history of releases that is kept of the registry's answer                *)
(* (fetch_registry_meta), the release before the analyzed one and the       *)
(* comparison with it (static_scan.py).                                     *)
(*                                                                          *)
(* Names are sequences of letters and separators. Versions are numbers in   *)
(* their order; a version packaging cannot parse is no release here.        *)
(***************************************************************************)
EXTENDS Naturals, Sequences, FiniteSets, SequencesExt

CONSTANTS
    Separator,     \* '-', '_' and '.'
    KeptReleases,  \* releases of the history that are kept: 20
    NoVersion

ASSUME KeptAssumption == KeptReleases \in Nat \ {0}

Least(S) == CHOOSE n \in S : \A k \in S : n <= k
Greatest(S) == CHOOSE n \in S : \A k \in S : n >= k

---------------------------------------------------------------------------
(* Names.                                                                   *)

\* _normalize; case is left out.
Normalize(name) ==
    LET kept[i \in 0..Len(name)] ==
            IF i = 0 THEN <<>>
            ELSE IF name[i] = Separator THEN kept[i - 1] ELSE Append(kept[i - 1], name[i])
    IN  kept[Len(name)]

\* Mistake: a replaced letter costs nothing.
NextRowFree(a, b, i, prev) ==
    LET cur[j \in 0..Len(b)] ==
            IF j = 0 THEN i ELSE Least({prev[j] + 1, cur[j - 1] + 1, prev[j - 1]})
    IN  cur

\* The row of _levenshtein's table for the first i letters of a, from the row
\* before: cur[j] is their distance from the first j letters of b.
NextRow(a, b, i, prev) ==
    LET cur[j \in 0..Len(b)] ==
            IF j = 0 THEN i
            ELSE Least({prev[j] + 1, cur[j - 1] + 1,
                        prev[j - 1] + (IF a[i] # b[j] THEN 1 ELSE 0)})
    IN  cur

\* _levenshtein.
Levenshtein(a, b) ==
    LET row[i \in 0..Len(a)] ==
            IF i = 0 THEN [j \in 0..Len(b) |-> j] ELSE NextRow(a, b, i, row[i - 1])
    IN  row[Len(a)][Len(b)]

NoCandidate == [exact |-> FALSE, place |-> 0, distance |-> 0]

\* typosquat_check on a list that could be read: the candidate is given by its
\* place in the list. An exact match ends the search where it is met.
Typosquat(name, popular) ==
    LET own == Normalize(name)
        distance == [i \in 1..Len(popular) |-> Levenshtein(own, Normalize(popular[i]))]
        near == {i \in 1..Len(popular) : distance[i] <= 2}
        nearest == {i \in near : \A k \in near : distance[i] <= distance[k]}
    IN  IF \E i \in near : distance[i] = 0 THEN [exact |-> TRUE, place |-> 0, distance |-> 0]
        ELSE IF near = {} THEN NoCandidate
        ELSE [exact |-> FALSE, place |-> Least(nearest), distance |-> distance[Least(nearest)]]

---------------------------------------------------------------------------
(* Releases: [Versions -> [uploaded, files]]. uploaded is the time of the    *)
(* first file, 0 when the registry does not say; ties keep the answer's      *)
(* order, here that of the versions.                                        *)

Later(releases, v, w) ==
    \/ releases[v].uploaded > releases[w].uploaded
    \/ releases[v].uploaded = releases[w].uploaded /\ v > w

\* Mistake: the oldest are kept.
HistoryOldest(releases) ==
    {v \in DOMAIN releases : releases[v].files /\
        Cardinality({w \in DOMAIN releases : releases[w].files /\ Later(releases, v, w)})
            < KeptReleases}

\* release_history of fetch_registry_meta: releases without files are left
\* out, and of the rest the last ones uploaded are kept.
History(releases) ==
    {v \in DOMAIN releases : releases[v].files /\
        Cardinality({w \in DOMAIN releases : releases[w].files /\ Later(releases, w, v)})
            < KeptReleases}

\* _previous_version.
PreviousVersion(current, history) ==
    LET older == {v \in history : v < current}
    IN  IF older = {} THEN NoVersion ELSE Greatest(older)

---------------------------------------------------------------------------
(* Source trees: functions from paths to contents. A path is <<root, file>>: *)
(* an sdist keeps all of its files in a directory named for its version.    *)

Tree(kind, version, contents) ==
    LET root == IF kind = "sdist" THEN version ELSE 0
    IN  [path \in {<<root, f>> : f \in DOMAIN contents} |-> contents[path[2]]]

\* The comparison at the end of diff_against_previous_release.
Diff(previous, current) ==
    [added |-> DOMAIN current \ DOMAIN previous,
     removed |-> DOMAIN previous \ DOMAIN current,
     changed |-> {p \in DOMAIN current \cap DOMAIN previous : current[p] # previous[p]}]
=============================================================================
