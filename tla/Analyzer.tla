------------------------------ MODULE Analyzer ------------------------------
(***************************************************************************)
(* analyze (analyzer.py): the findings of a list of events, their score and  *)
(* severity, and the chain of behaviour.                                     *)
(*                                                                          *)
(* An event is [type, stage, exe, pip, barred]: what an exec runs, whether   *)
(* its arguments name pip, and whether a connection is to the metadata       *)
(* address or was blocked.                                                  *)
(***************************************************************************)
EXTENDS Naturals, Sequences, SequencesExt

\* _SCORES.
Scores == [INFO |-> 0, LOW |-> 10, MEDIUM |-> 25, HIGH |-> 45, CRITICAL |-> 70]

\* The branches of the loop.
Rule(e) ==
    CASE e.type = "process.exec" /\ e.exe = "shell" -> "process.shell_or_downloader"
      [] e.type = "process.exec" /\ (e.exe = "pip" \/ (e.exe = "python" /\ e.pip)) ->
            "python.runtime_install"
      [] e.type = "file.read" -> "file.sensitive_read"
      [] e.type = "network.connect" /\ e.barred -> "network.metadata_or_blocked"
      [] e.type = "privilege.change" -> "privilege.change_attempt"
      [] e.type = "sandbox.escape_syscall" -> "sandbox.escape_syscall"
      [] OTHER -> "none"

SeverityOf(rule) ==
    CASE rule \in {"process.shell_or_downloader", "privilege.change_attempt"} -> "MEDIUM"
      [] rule \in {"python.runtime_install", "file.sensitive_read",
                   "network.metadata_or_blocked"} -> "HIGH"
      [] rule = "sandbox.escape_syscall" -> "CRITICAL"

\* Mistake: the harness's stages are exempted from every rule.
ExemptStage(e) == e.stage \in {"build", "install"}

\* The harness itself calls pip in these stages.
Exempt(e) == e.stage \in {"build", "install"} /\ Rule(e) = "python.runtime_install"

\* The places of the events with findings.
Found(events) ==
    {i \in 1..Len(events) : Rule(events[i]) # "none" /\ ~Exempt(events[i])}

Score(events) ==
    LET sum == MapThenSumSet(LAMBDA i : Scores[SeverityOf(Rule(events[i]))], Found(events))
    IN  IF sum < 100 THEN sum ELSE 100

Severity(score) ==
    IF score >= 80 THEN "CRITICAL" ELSE IF score >= 60 THEN "HIGH"
    ELSE IF score >= 40 THEN "MEDIUM" ELSE IF score >= 20 THEN "LOW" ELSE "INFO"

\* The places of the first sensitive read and the first connection found, <<>>
\* when there are not both.
Chain(events) ==
    LET Places(rule) == {i \in Found(events) : Rule(events[i]) = rule}
        First(rule) == CHOOSE i \in Places(rule) : \A k \in Places(rule) : i <= k
        both == {"file.sensitive_read", "network.metadata_or_blocked"}
    IN  IF \E rule \in both : Places(rule) = {} THEN <<>>
        ELSE <<First("file.sensitive_read"), First("network.metadata_or_blocked")>>

Analyze(events) ==
    [found |-> Found(events), score |-> Score(events),
     severity |-> Severity(Score(events)), chain |-> Chain(events)]
=============================================================================
