---------------------------- MODULE MCDashboardInit ----------------------------
(* Small instances of DashboardInit for TLC. *)
EXTENDS DashboardInit

At(dir, name) == [dir |-> dir, name |-> name]

Hand(key, dir, command, parser) ==
    [key |-> <<key, dir>>, dir |-> dir, tool |-> "", command |-> command, parser |-> parser,
     source |-> "", disabled |-> FALSE, extra |-> TRUE]

\* A Go module, a Node and a Ruby project below it, and one that came with a dependency.
MCFiles == {At("", "go.mod"), At("web", "package.json"), At("lib", "Gemfile"),
            At("vendor", "package.json")}

\* A Python project whose root gets a package.json.
MixedRoot == {At("", "requirements.txt"), At("", "package.json")}

\* A narrower test suite, and a check that runs in the Node project.
MCHandChecks == {Hand("unit", "", {"go test"}, "gotest"), Hand("lint", "web", {"lint"}, "exit")}
================================================================================
