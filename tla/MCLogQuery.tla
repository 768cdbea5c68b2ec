------------------------------ MODULE MCLogQuery ------------------------------
(* Small instances of LogQuery for TLC. *)
EXTENDS LogQuery

Limits(default, max, offset) == [default |-> default, max |-> max, offset |-> offset]

MCDefaults == Limits(2, 3, 2)

\* Nothing set; a default above the maximum; values that fall back.
MCEnvironments == {Limits(None, None, None), Limits(3, 1, 1), Limits(Bad, 0, -1)}
=============================================================================
