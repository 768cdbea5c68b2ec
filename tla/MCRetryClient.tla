----------------------------- MODULE MCRetryClient -----------------------------
(* Small instances of RetryClient for TLC: every strategy in both languages,  *)
(* with zero, negative, crossing and sane values for each number, and what    *)
(* the log forwarder makes of such numbers in its config file.  One unit of   *)
(* time is 50 ms, so that half of the default jitter is not nothing.          *)
EXTENDS RetryClient, ForwarderConfig

Plain == [lang : {"go", "node"}, maxAttempts : {-1, 2, 3}, initialBackoff : {0, 1, 2},
          maxBackoff : {0, 1, 3}, maxJitter : {-1, 0, 3}, strategy : Strategies,
          timeout : {0}, deadline : {0}]

ForwarderNumbers == {[[n \in DOMAIN Default |-> 0] EXCEPT
                         !.retry_max_attempts = attempts, !.retry_initial_backoff = initial,
                         !.retry_max_backoff = max, !.request_timeout = 250] :
                       attempts \in {0, 3}, initial \in {0, 20, 150}, max \in {0, 50, 100}}

\* Milliseconds in units of 50 ms, rounded up: what is positive stays positive.
Units(ms) == (ms + 49) \div 50
InUnits(k) == [k EXCEPT !.initialBackoff = Units(@), !.maxBackoff = Units(@),
                        !.maxJitter = Units(@), !.timeout = Units(@), !.deadline = Units(@)]

FromForwarder ==
    LET loaded == {applyDefaults(RawConfig(RequiredStrings, "", "", 0, n)) : n \in ForwarderNumbers}
    IN  {InUnits(ClientConfig(c)) : c \in {c \in loaded : Accepted(c, TRUE)}}

MCConfigs == Plain \cup FromForwarder
=============================================================================
