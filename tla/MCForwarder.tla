----------------------------- MODULE MCForwarder -----------------------------
(* Small instances of Forwarder for TLC. *)
EXTENDS Forwarder

Given(mode, pattern) ==
    RawConfig(RequiredStrings, mode, pattern, 0, [n \in DOMAIN Default |-> 0])

\* Rough rotation in the default mode, gentle in one that rejects lines; a file
\* that Validate rejects starts nothing.
MCSettings == {[raw |-> Given("", ""), gentle |-> FALSE],
               [raw |-> Given(" json ", ""), gentle |-> TRUE],
               [raw |-> Given("Regex", "invalid"), gentle |-> TRUE]}

Rough == {[raw |-> Given("", ""), gentle |-> FALSE]}

MCKinds == <<"json", "text", "blank">>
Two     == <<"json", "text">>
=============================================================================
