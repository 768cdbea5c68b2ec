------------------------------ MODULE MCDashboard ------------------------------
(* Small instances of Dashboard for TLC. *)
EXTENDS Dashboard, TLC

Check(parser, gating, disabled) ==
    [parser |-> parser, gating |-> gating, disabled |-> disabled,
     probed |-> parser \notin {"exit", "gotest"}]

\* A gate whose parser goes by the exit code, by both, by the document only when it has
\* the right form, or by any document; a gate that was turned off next to an advisory
\* scanner; and a file that does not parse.
MCConfigs == {<<Check(parser, TRUE, FALSE)>> : parser \in {"exit", "gitleaks", "sarif", "npm-audit"}}
             \cup {<<Check("exit", TRUE, TRUE), Check("gosec-json", FALSE, FALSE)>>, Torn}

\* Of security/config.json: govulncheck as a gate, npm audit for advice.
VulnAndNpm == {<<Check("govulncheck", TRUE, FALSE), Check("npm-audit", FALSE, FALSE)>>}

\* A review that was due on an agreed date, and one on a date nobody can read.
MCTasks ==
    [review |-> [status |-> "pending", lastRun |-> None, nextDue |-> 0,
                 cadenceDays |-> 1, intervalDays |-> 0],
     drill  |-> [status |-> "", lastRun |-> Bad, nextDue |-> None,
                 cadenceDays |-> 0, intervalDays |-> 0]]

Symmetry == Permutations(Procs)
=============================================================================
