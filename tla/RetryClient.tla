------------------------------ MODULE RetryClient ------------------------------
(***************************************************************************)
(* One call of the client libraries: WriteLog of clients/go-lib and        *)
(* writeLog of clients/node-lib, against a server and a network that may   *)
(* lose a request or its answer, or deliver a request after the client has *)
(* given up on it.  The server stores one entry for each request it        *)
(* accepts: it knows no idempotency key.                                   *)
(*                                                                         *)
(* Durations are small numbers.  The two libraries differ in how they read *)
(* their configuration and in the Go caller's context, which may end the   *)
(* call.  The log forwarder gives that context a deadline: the time that   *)
(* attempts and sleeps take is counted for such calls.                     *)
(***************************************************************************)
EXTENDS Integers, FiniteSets, FiniteSetsExt

CONSTANTS Configs,  \* retry configurations: lang, maxAttempts, initialBackoff,
                    \* maxBackoff, maxJitter and strategy, as the caller gave them;
                    \* timeout of one request and deadline of the call (0: none)
          DefaultDelay,      \* 100 ms: the initial backoff, and Node's jitter
          DefaultMaxBackoff  \* 2 s

Strategies == {"full", "equal", "decorrelated"}

\* A number that is not positive counts as not given.
Positive(n, default) == IF n > 0 THEN n ELSE default

\* Only the log forwarder sets a deadline, and it starts only with a maximal
\* backoff that is not below the initial one (Validate; the theorem
\* ForwarderConfigsFit shows that its configurations meet this assumption).
IsConfig(c) ==
    /\ {c.maxAttempts, c.initialBackoff, c.maxBackoff, c.maxJitter} \subseteq Int
    /\ {c.timeout, c.deadline} \subseteq Nat
    /\ c.lang \in {"go", "node"}
    /\ c.deadline > 0 =>
         /\ c.lang = "go" /\ c.timeout \in 1..c.deadline
         /\ Positive(c.initialBackoff, DefaultDelay) <= Positive(c.maxBackoff, DefaultMaxBackoff)

ASSUME ConfigsAssumption == \A c \in Configs : IsConfig(c)
ASSUME DefaultsAssumption == DefaultDelay \in Nat \ {0} /\ DefaultMaxBackoff \in Nat \ {0}

VARIABLES
    cfg,            \* the configuration of the client
    pc,             \* where the call is
    attempt, backoff, previousDelay,
    delay,          \* the delay it sleeps
    retryable,      \* the mark of the error that the catch is looking at (Node)
    ctxDone,        \* the caller's context was cancelled (Go)
    spent,          \* time since the call began, where there is a deadline
    hung,           \* history: attempts that got no answer in the time of a request
    inflight,       \* attempts whose request may still reach the server
    answer,         \* the response to the current attempt
    stored,         \* attempts the server stored an entry for
    unsure,         \* history: attempts that failed though they may be stored
    refused,        \* history: a final refusal was received
    result
vars == <<cfg, pc, attempt, backoff, previousDelay, delay, retryable, ctxDone, spent,
          hung, inflight, answer, stored, unsure, refused, result>>

net   == <<inflight, answer, stored>>
pause == <<backoff, previousDelay, delay>>
time  == <<spent, hung>>

-----------------------------------------------------------------------------
(* The configuration as the loop uses it. *)

MaxAttempts    == Positive(cfg.maxAttempts, 1)
InitialBackoff == Positive(cfg.initialBackoff, DefaultDelay)
MaxBackoff     == Positive(cfg.maxBackoff, DefaultMaxBackoff)
\* A negative jitter is none for Go and the default for Node.
GoJitter       == IF cfg.maxJitter < 0 THEN 0 ELSE cfg.maxJitter
NodeJitter     == IF cfg.maxJitter >= 0 THEN cfg.maxJitter ELSE DefaultDelay
MaxJitter      == IF cfg.lang = "go" THEN GoJitter ELSE NodeJitter
Strategy       == IF cfg.strategy \in {"equal", "decorrelated"} THEN cfg.strategy ELSE "full"

Smaller(a, b) == IF a < b THEN a ELSE b

\* randomJitter and randomDuration: the values they may return.
randomJitter(max) == IF max <= 0 THEN {0} ELSE 0..max
randomDuration(min, max) == IF max <= min THEN {min} ELSE min..max

\* The jitter does not narrow the decorrelated delay.
DecorrelatedCapWide ==
    Smaller(IF previousDelay * 3 < InitialBackoff THEN InitialBackoff ELSE previousDelay * 3,
            MaxBackoff)

\* The largest delay of the decorrelated strategy (computeRetryDelay of Go).
DecorrelatedCap ==
    LET grown  == IF previousDelay * 3 < InitialBackoff THEN InitialBackoff ELSE previousDelay * 3
        capped == Smaller(grown, MaxBackoff)
    IN  IF GoJitter > 0 THEN Smaller(capped, InitialBackoff + GoJitter) ELSE capped

\* The delays Go may choose.
computeRetryDelay ==
    LET half == GoJitter \div 2
    IN  CASE Strategy = "equal" -> {backoff + half + j : j \in randomJitter(half)}
          [] Strategy = "decorrelated" -> randomDuration(InitialBackoff, DecorrelatedCap)
          [] OTHER -> {backoff + j : j \in randomJitter(GoJitter)}

\* The delays Node may choose.
computeRetryDelayMs ==
    LET half  == NodeJitter \div 2
        upper == Min({MaxBackoff, Max({InitialBackoff, previousDelay * 3})})
    IN  CASE Strategy = "equal" -> {backoff + half + j : j \in randomJitter(half)}
          [] Strategy = "decorrelated" ->
               randomDuration(InitialBackoff, IF NodeJitter > 0
                                              THEN Min({upper, InitialBackoff + NodeJitter})
                                              ELSE upper)
          [] OTHER -> {backoff + j : j \in randomJitter(NodeJitter)}

-----------------------------------------------------------------------------
Init == /\ cfg \in Configs
        /\ pc = "attempt" /\ attempt = 1
        /\ backoff = InitialBackoff /\ previousDelay = InitialBackoff /\ delay = 0 /\ retryable = TRUE
        /\ ctxDone = FALSE /\ spent = 0 /\ hung = {}
        /\ inflight = {} /\ answer = "none" /\ stored = {}
        /\ unsure = {} /\ refused = FALSE
        /\ result = "none"

Return(r) == pc' = "returned" /\ result' = r /\ UNCHANGED retryable

Timed   == cfg.deadline > 0
CtxDone == ctxDone \/ (Timed /\ spent = cfg.deadline)

\* A request ends after at most its own time and what is left of the call's.
Elapse ==
    IF Timed
    THEN \E took \in 0..Smaller(cfg.timeout, cfg.deadline - spent) : spent' = spent + took
    ELSE UNCHANGED spent

Send ==
    /\ pc = "attempt" /\ ~CtxDone
    /\ inflight' = inflight \cup {attempt}
    /\ answer' = "none"
    /\ pc' = "wait"
    /\ UNCHANGED <<cfg, attempt, pause, retryable, ctxDone, time, stored, unsure, refused, result>>

\* The attempt failed in a way that is retried: the error after the last attempt,
\* otherwise the delay.
Retry ==
    IF attempt = MaxAttempts
    THEN Return("error") /\ UNCHANGED delay
    ELSE /\ pc' = "sleep"
         /\ delay' \in (IF cfg.lang = "go" THEN computeRetryDelay ELSE computeRetryDelayMs)
         /\ UNCHANGED <<retryable, result>>

\* Node throws its error inside the try block: the catch below decides.
Throw(mark) == pc' = "catch" /\ retryable' = mark /\ UNCHANGED <<delay, result>>

\* HTTPClient.Do, or reading the body, fails: the connection broke, the client
\* timed out, or the context ended.
DoFails ==
    /\ pc = "wait"
    /\ Elapse
    /\ hung' = IF Timed /\ spent' = spent + cfg.timeout THEN hung \cup {attempt} ELSE hung
    /\ unsure' = unsure \cup {attempt}
    /\ IF cfg.lang = "go" THEN Retry ELSE Throw(TRUE)
    /\ UNCHANGED <<cfg, attempt, backoff, previousDelay, ctxDone, net, refused>>

\* With its context done a request is not even sent.
DoCancelled ==
    /\ pc = "attempt" /\ CtxDone
    /\ Retry
    /\ UNCHANGED <<cfg, attempt, backoff, previousDelay, ctxDone, time, net, unsure, refused>>

\* A body that does not parse is retried.
ReceiveCreatedRetries ==
    /\ pc = "wait" /\ answer \in {"created", "garbled"}
    /\ IF answer = "garbled" THEN Retry ELSE Return("ok") /\ UNCHANGED delay
    /\ Elapse
    /\ UNCHANGED <<cfg, attempt, backoff, previousDelay, ctxDone, hung, net, unsure, refused>>

\* 2xx: Go needs a JSON body, Node takes any.
ReceiveCreated ==
    /\ pc = "wait" /\ answer \in {"created", "garbled"}
    /\ Return(IF answer = "garbled" /\ cfg.lang = "go" THEN "error" ELSE "ok")
    /\ Elapse
    /\ UNCHANGED <<cfg, attempt, pause, ctxDone, hung, net, unsure, refused>>

\* Node's error is not marked.
ReceiveRefusedUnmarked ==
    /\ pc = "wait" /\ answer = "refused"
    /\ refused' = TRUE
    /\ Elapse
    /\ IF cfg.lang = "go" THEN Return("error") /\ UNCHANGED delay ELSE Throw(TRUE)
    /\ UNCHANGED <<cfg, attempt, backoff, previousDelay, ctxDone, hung, net, unsure>>

\* Any failure status that shouldRetryStatus does not name: Go returns, Node throws
\* an error that it marks.
ReceiveRefused ==
    /\ pc = "wait" /\ answer = "refused"
    /\ refused' = TRUE
    /\ Elapse
    /\ IF cfg.lang = "go" THEN Return("error") /\ UNCHANGED delay ELSE Throw(FALSE)
    /\ UNCHANGED <<cfg, attempt, backoff, previousDelay, ctxDone, hung, net, unsure>>

\* 429 and 5xx.  Node throws after the last attempt only.
ReceiveBusy ==
    /\ pc = "wait" /\ answer = "busy"
    /\ unsure' = unsure \cup {attempt}
    /\ Elapse
    /\ IF cfg.lang = "node" /\ attempt = MaxAttempts THEN Throw(TRUE) ELSE Retry
    /\ UNCHANGED <<cfg, attempt, backoff, previousDelay, ctxDone, hung, net, refused>>

\* Node's catch meets every error of the try block, marked or not.
Catch ==
    /\ pc = "catch"
    /\ IF retryable THEN Retry ELSE Return("error") /\ UNCHANGED delay
    /\ UNCHANGED <<cfg, attempt, backoff, previousDelay, ctxDone, time, net, unsure, refused>>

\* The sleep is over: the backoff doubles up to its cap.
SleptFor(doubled) ==
    /\ pc = "sleep"
    /\ spent' = IF Timed THEN spent + delay ELSE spent
    /\ attempt' = attempt + 1
    /\ previousDelay' = delay
    /\ backoff' = doubled
    /\ pc' = "attempt"
    /\ UNCHANGED <<cfg, delay, retryable, ctxDone, hung, net, unsure, refused, result>>

InTime == Timed => spent + delay <= cfg.deadline

\* The backoff doubles without its cap.
WakeUncapped == InTime /\ SleptFor(backoff * 2)

\* The sleep does not watch the context.
WakeLate == SleptFor(Smaller(backoff * 2, MaxBackoff))

\* The attempt is not counted.
WakeUncounted ==
    /\ pc = "sleep"
    /\ pc' = "attempt"
    /\ UNCHANGED <<cfg, attempt, pause, retryable, ctxDone, time, net, unsure, refused, result>>

\* sleepWithContext returns because its timer fires.
Wake == InTime /\ SleptFor(Smaller(backoff * 2, MaxBackoff))

\* sleepWithContext returns because the context ends.
SleepCancelled ==
    /\ pc = "sleep"
    /\ \/ ctxDone /\ UNCHANGED spent
       \/ Timed /\ spent + delay >= cfg.deadline /\ spent' = cfg.deadline
    /\ Return("error")
    /\ UNCHANGED <<cfg, attempt, pause, ctxDone, hung, net, unsure, refused>>

ContextEnds ==
    /\ cfg.lang = "go" /\ ~ctxDone /\ pc # "returned"
    /\ ctxDone' = TRUE
    /\ UNCHANGED <<cfg, pc, attempt, pause, retryable, time, net, unsure, refused, result>>

-----------------------------------------------------------------------------
(* Network and server.  An answer reaches the client only while it waits for *)
(* that very attempt.  A 5xx may follow a commit whose outcome was lost.     *)

Answers(a, r) == IF pc = "wait" /\ a = attempt THEN answer' \in {answer, r} ELSE UNCHANGED answer

Serve(a) ==
    /\ inflight' = inflight \ {a}
    /\ \/ /\ stored' = stored \cup {a}
          /\ \E r \in {"created", "garbled", "busy"} : Answers(a, r)
       \/ /\ \E r \in {"refused", "busy"} : Answers(a, r)
          /\ UNCHANGED stored
    /\ UNCHANGED <<cfg, pc, attempt, pause, retryable, ctxDone, time, unsure, refused, result>>

RequestLost(a) ==
    /\ inflight' = inflight \ {a}
    /\ UNCHANGED <<cfg, pc, attempt, pause, retryable, ctxDone, time, answer, stored, unsure,
                   refused, result>>

-----------------------------------------------------------------------------
ClientStep == Send \/ DoFails \/ DoCancelled \/ ReceiveCreated \/ ReceiveRefused
                \/ ReceiveBusy \/ Catch \/ Wake \/ SleepCancelled

Next == \/ ClientStep
        \/ ContextEnds
        \/ \E a \in inflight : Serve(a) \/ RequestLost(a)

Spec == Init /\ [][Next]_vars

\* The HTTP client of either library ends a request that gets no answer.
FairSpec == Spec /\ WF_vars(ClientStep)

-----------------------------------------------------------------------------
(* Properties *)

TypeOK ==
    /\ cfg \in Configs
    /\ pc \in {"attempt", "wait", "catch", "sleep", "returned"}
    /\ attempt \in 1..MaxAttempts
    /\ retryable \in BOOLEAN
    /\ {backoff, previousDelay, delay, spent} \subseteq Nat /\ hung \subseteq 1..attempt
    /\ inflight \subseteq 1..attempt /\ stored \subseteq 1..attempt /\ unsure \subseteq 1..attempt
    /\ answer \in {"none", "created", "garbled", "refused", "busy"}
    /\ result \in {"none", "ok", "error"}

\* What a returned call says of the log: after success the entry is stored by
\* the attempt that was answered, and one stored twice takes an attempt whose
\* outcome the client could not know: every other stored attempt ended in a lost
\* answer or a 5xx.
DuplicatesOnlyWhenUnsure ==
    /\ result = "ok" => attempt \in stored
    /\ stored \ {attempt} \subseteq unsure

\* A refusal (a 401 above all) is final: it is returned as an error, in Node on its
\* way through the catch that retries every other error, and nothing is sent again.
RefusalIsFinal == refused => pc = "catch" \/ (pc = "returned" /\ result = "error")

\* With a sane configuration, and every one that the log forwarder accepts is,
\* each delay lies between the initial backoff and the maximal backoff plus
\* jitter, for every strategy and at every attempt.
DelaysBounded ==
    (pc = "sleep" /\ (InitialBackoff <= MaxBackoff \/ Timed)) =>
      delay \in InitialBackoff..(MaxBackoff + MaxJitter)

\* A call with a deadline never outlives it, whatever its attempts meet, so the
\* forwarder spends at most request_timeout_ms on a line.  And since it gives
\* one request all of that time, a request that hangs is the last: it is never
\* retried, whatever retry_max_attempts says.
DeadlineHolds ==
    Timed => /\ spent <= cfg.deadline
             /\ cfg.timeout = cfg.deadline /\ hung # {} => hung = {attempt}

\* With the numbers read by each library's own rules, both choose from the same
\* delays, for every strategy and for zero, negative and crossing numbers.  The one
\* exception is a negative jitter: WriteLog then waits without any (client.go:108),
\* writeLog with the default (index.mjs:43).
LibrariesAgree == cfg.maxJitter >= 0 => computeRetryDelay = computeRetryDelayMs

\* The call returns: by an answer, the last attempt or the end of its context.
CallReturns == <>(pc = "returned")
=============================================================================
