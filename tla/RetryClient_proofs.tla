---------------------------- MODULE RetryClient_proofs ----------------------------
(***************************************************************************)
(* Proofs about RetryClient: what one call of a client library does to the *)
(* log and how long it takes, for every configuration, any number of       *)
(* attempts and any behaviour of the network and the server.               *)
(***************************************************************************)
EXTENDS RetryClient, ForwarderConfig, TLAPS

-----------------------------------------------------------------------------
(* The delays *)

LEMMA MaxOfTwo ==
  ASSUME NEW a \in Int, NEW b \in Int
  PROVE  Max({a, b}) = IF a < b THEN b ELSE a
BY DEF Max

LEMMA MinOfTwo ==
  ASSUME NEW a \in Int, NEW b \in Int
  PROVE  Min({a, b}) = IF a < b THEN a ELSE b
BY DEF Min

\* The loop's own reading of any configuration is usable.
LEMMA ConfigUsable ==
  ASSUME cfg \in Configs
  PROVE  /\ MaxAttempts \in Nat \ {0} /\ InitialBackoff \in Nat \ {0}
         /\ MaxBackoff \in Nat \ {0}
         /\ GoJitter \in Nat /\ NodeJitter \in Nat /\ MaxJitter \in {GoJitter, NodeJitter}
         /\ cfg.timeout \in Nat /\ cfg.deadline \in Nat
         /\ Timed => cfg.timeout \in 1..cfg.deadline /\ InitialBackoff <= MaxBackoff
BY ConfigsAssumption, DefaultsAssumption
DEF IsConfig, MaxAttempts, InitialBackoff, MaxBackoff, GoJitter, NodeJitter, MaxJitter, Positive, Timed

\* Node's upper limit of a decorrelated delay, computed by minima and maxima, is the
\* one Go computes by cases.
LEMMA NodeUpper ==
  ASSUME cfg \in Configs, previousDelay \in Nat
  PROVE  /\ Min({MaxBackoff, Max({InitialBackoff, previousDelay * 3})})
              = Smaller(IF previousDelay * 3 < InitialBackoff THEN InitialBackoff
                        ELSE previousDelay * 3, MaxBackoff)
         /\ Min({MaxBackoff, Max({InitialBackoff, previousDelay * 3})}) \in Int
         /\ \A limit \in Int :
              Min({Min({MaxBackoff, Max({InitialBackoff, previousDelay * 3})}), limit})
                = Smaller(Min({MaxBackoff, Max({InitialBackoff, previousDelay * 3})}), limit)
<1> DEFINE upper == Min({MaxBackoff, Max({InitialBackoff, previousDelay * 3})})
           grown == IF previousDelay * 3 < InitialBackoff THEN InitialBackoff
                    ELSE previousDelay * 3
<1>1. MaxBackoff \in Int /\ InitialBackoff \in Int /\ previousDelay * 3 \in Int
  BY ConfigUsable
<1>2. Max({InitialBackoff, previousDelay * 3}) = grown
  BY <1>1, MaxOfTwo
<1>3. upper = Smaller(grown, MaxBackoff) /\ upper \in Int
  BY <1>1, <1>2, MinOfTwo DEF Smaller
<1>4. ASSUME NEW limit \in Int PROVE Min({upper, limit}) = Smaller(upper, limit)
  <2> HIDE DEF upper
  <2> QED BY <1>3, MinOfTwo DEF Smaller
<1> QED BY <1>3, <1>4

\* Where both libraries read the same jitter they choose from the same delays.
LEMMA DelaysAgree ==
  ASSUME cfg \in Configs, previousDelay \in Nat, GoJitter = NodeJitter
  PROVE  computeRetryDelay = computeRetryDelayMs
<1> DEFINE upper == Min({MaxBackoff, Max({InitialBackoff, previousDelay * 3})})
<1>1. InitialBackoff + NodeJitter \in Int
  BY ConfigUsable
<1>2. /\ upper = Smaller(IF previousDelay * 3 < InitialBackoff THEN InitialBackoff
                         ELSE previousDelay * 3, MaxBackoff)
      /\ Min({upper, InitialBackoff + NodeJitter}) = Smaller(upper, InitialBackoff + NodeJitter)
  BY <1>1, NodeUpper
<1>3. DecorrelatedCap = IF NodeJitter > 0 THEN Min({upper, InitialBackoff + NodeJitter}) ELSE upper
  BY <1>2 DEF DecorrelatedCap
<1> QED BY <1>3 DEF computeRetryDelay, computeRetryDelayMs

\* What a strategy draws is positive, and bounded where the configuration is sane.
LEMMA DrawRange ==
  ASSUME cfg \in Configs, backoff \in Nat \ {0}, NEW jitter \in Nat, NEW cap \in Int,
         cap <= MaxBackoff,
         NEW d \in CASE Strategy = "equal" ->
                        {backoff + (jitter \div 2) + j : j \in randomJitter(jitter \div 2)}
                     [] Strategy = "decorrelated" -> randomDuration(InitialBackoff, cap)
                     [] OTHER -> {backoff + j : j \in randomJitter(jitter)}
  PROVE  /\ d \in Nat \ {0}
         /\ (InitialBackoff <= MaxBackoff /\ backoff \in InitialBackoff..MaxBackoff)
              => d \in InitialBackoff..(MaxBackoff + jitter)
<1> DEFINE half == jitter \div 2
<1>1. /\ MaxBackoff \in Nat \ {0} /\ InitialBackoff \in Nat \ {0}
      /\ half \in Nat /\ 2 * half <= jitter
  BY ConfigUsable
<1>2. CASE Strategy = "equal"
  <2>1. PICK j \in randomJitter(half) : d = backoff + half + j
    BY <1>2
  <2>2. j \in 0..half
    BY <1>1 DEF randomJitter
  <2> HIDE DEF half
  <2> QED BY <1>1, <2>1, <2>2
<1>3. CASE Strategy = "decorrelated"
  <2>1. d \in randomDuration(InitialBackoff, cap)
    BY <1>3
  <2> QED BY <1>1, <2>1 DEF randomDuration
<1>4. CASE Strategy \notin {"equal", "decorrelated"}
  <2>1. PICK j \in randomJitter(jitter) : d = backoff + j
    BY <1>4
  <2> QED BY <1>1, <2>1 DEF randomJitter
<1> QED BY <1>2, <1>3, <1>4

\* Each library's delays, read by its own rules.
LEMMA DelayRange ==
  ASSUME cfg \in Configs, previousDelay \in Nat, backoff \in Nat \ {0},
         NEW d \in IF cfg.lang = "go" THEN computeRetryDelay ELSE computeRetryDelayMs
  PROVE  /\ d \in Nat \ {0}
         /\ (InitialBackoff <= MaxBackoff /\ backoff \in InitialBackoff..MaxBackoff)
              => d \in InitialBackoff..(MaxBackoff + MaxJitter)
<1>1. /\ MaxBackoff \in Nat \ {0} /\ InitialBackoff \in Nat \ {0}
      /\ GoJitter \in Nat /\ NodeJitter \in Nat
  BY ConfigUsable
<1>2. CASE cfg.lang = "go"
  <2>1. DecorrelatedCap \in Int /\ DecorrelatedCap <= MaxBackoff
    BY <1>1 DEF DecorrelatedCap, Smaller
  <2>2. d \in CASE Strategy = "equal" ->
                    {backoff + (GoJitter \div 2) + j : j \in randomJitter(GoJitter \div 2)}
                 [] Strategy = "decorrelated" -> randomDuration(InitialBackoff, DecorrelatedCap)
                 [] OTHER -> {backoff + j : j \in randomJitter(GoJitter)}
    BY <1>2 DEF computeRetryDelay
  <2>3. MaxJitter = GoJitter
    BY <1>2 DEF MaxJitter
  <2> HIDE DEF DecorrelatedCap
  <2> QED BY <1>1, <2>1, <2>2, <2>3, DrawRange
<1>3. CASE cfg.lang # "go"
  <2> DEFINE upper == Min({MaxBackoff, Max({InitialBackoff, previousDelay * 3})})
             cap == IF NodeJitter > 0 THEN Min({upper, InitialBackoff + NodeJitter}) ELSE upper
  <2>1. upper \in Int /\ upper <= MaxBackoff
    <3>1. upper = Smaller(IF previousDelay * 3 < InitialBackoff THEN InitialBackoff
                          ELSE previousDelay * 3, MaxBackoff)
      BY NodeUpper
    <3> HIDE DEF upper
    <3> QED BY <1>1, <3>1 DEF Smaller
  <2>2. cap \in Int /\ cap <= MaxBackoff
    <3>1. InitialBackoff + NodeJitter \in Int
      BY <1>1
    <3>2. Min({upper, InitialBackoff + NodeJitter}) = Smaller(upper, InitialBackoff + NodeJitter)
      BY <3>1, NodeUpper
    <3> HIDE DEF upper
    <3> QED BY <1>1, <2>1, <3>1, <3>2 DEF Smaller
  <2>3. d \in CASE Strategy = "equal" ->
                    {backoff + (NodeJitter \div 2) + j : j \in randomJitter(NodeJitter \div 2)}
                 [] Strategy = "decorrelated" -> randomDuration(InitialBackoff, cap)
                 [] OTHER -> {backoff + j : j \in randomJitter(NodeJitter)}
    BY <1>3 DEF computeRetryDelayMs
  <2>4. MaxJitter = NodeJitter
    BY <1>3 DEF MaxJitter
  <2> HIDE DEF cap
  <2> QED BY <1>1, <2>2, <2>3, <2>4, DrawRange
<1> QED BY <1>2, <1>3

-----------------------------------------------------------------------------
(* The inductive invariant *)

\* An attempt that is not the current one was given up on, and the current one
\* reaches the server only after it is sent.
SentInv ==
    /\ (inflight \cup stored) \ {attempt} \subseteq unsure
    /\ pc = "attempt" => attempt \notin inflight \cup stored
    /\ pc = "sleep" \/ (pc = "catch" /\ retryable) =>
         attempt \in unsure \/ attempt \notin inflight \cup stored
    /\ (pc = "wait" /\ answer \in {"created", "garbled"}) => attempt \in stored

\* How the call ended.
ResultInv ==
    /\ pc = "returned" <=> result # "none"
    /\ result = "ok" => attempt \in stored
    /\ refused => result = "error" \/ (pc = "catch" /\ ~retryable)

\* The pause before the next attempt.
PauseInv ==
    /\ backoff > 0
    /\ InitialBackoff <= MaxBackoff => backoff \in InitialBackoff..MaxBackoff
    /\ pc = "sleep" => /\ attempt < MaxAttempts /\ delay > 0
                       /\ InitialBackoff <= MaxBackoff
                            => delay \in InitialBackoff..(MaxBackoff + MaxJitter)

\* A request that took all the time of the call was the only one, and no time is
\* left for a pause after it.
TimeInv ==
    Timed => /\ spent <= cfg.deadline
             /\ cfg.timeout = cfg.deadline /\ hung # {} =>
                  hung = {attempt} /\ spent = cfg.deadline /\ pc \in {"catch", "sleep", "returned"}

IInv == TypeOK /\ SentInv /\ ResultInv /\ PauseInv /\ TimeInv

LEMMA InitIInv == Init => IInv
<1> SUFFICES ASSUME Init PROVE IInv
  OBVIOUS
<1>1. cfg \in Configs
  BY DEF Init
<1>2. TypeOK
  BY <1>1, ConfigUsable DEF Init, TypeOK
<1>3. SentInv /\ ResultInv
  BY DEF Init, SentInv, ResultInv
<1>4. PauseInv /\ TimeInv
  BY <1>1, ConfigUsable DEF Init, PauseInv, TimeInv
<1> QED BY <1>2, <1>3, <1>4 DEF IInv

\* The configuration stays what it is, and so does what the loop makes of it.
LEMMA ConfigFixed ==
  ASSUME cfg' = cfg
  PROVE  /\ MaxAttempts' = MaxAttempts /\ InitialBackoff' = InitialBackoff
         /\ MaxBackoff' = MaxBackoff /\ MaxJitter' = MaxJitter /\ Timed' = Timed
BY DEF MaxAttempts, InitialBackoff, MaxBackoff, MaxJitter, GoJitter, NodeJitter, Timed

\* A failed attempt returns the error, or sleeps before another one.
LEMMA RetryEffect ==
  ASSUME IInv, Retry, UNCHANGED <<cfg, attempt, backoff>>
  PROVE  /\ \/ pc' = "returned" /\ result' = "error"
            \/ pc' = "sleep" /\ result' = result
         /\ delay' \in Nat /\ retryable' = retryable
         /\ PauseInv'
<1> USE DEF IInv, TypeOK
<1>1. CASE attempt = MaxAttempts
  BY <1>1, ConfigFixed DEF Retry, Return, PauseInv
<1>2. CASE attempt # MaxAttempts
  <2>1. /\ pc' = "sleep" /\ result' = result /\ retryable' = retryable
        /\ delay' \in (IF cfg.lang = "go" THEN computeRetryDelay ELSE computeRetryDelayMs)
    BY <1>2 DEF Retry
  <2>2. backoff \in Nat \ {0} /\ previousDelay \in Nat /\ attempt < MaxAttempts
    BY <1>2, ConfigUsable DEF PauseInv
  <2>3. /\ delay' \in Nat \ {0}
        /\ (InitialBackoff <= MaxBackoff /\ backoff \in InitialBackoff..MaxBackoff)
              => delay' \in InitialBackoff..(MaxBackoff + MaxJitter)
    BY <2>1, <2>2, DelayRange
  <2>4. PauseInv'
    BY <2>1, <2>2, <2>3, ConfigFixed DEF PauseInv
  <2> QED BY <2>1, <2>3, <2>4
<1> QED BY <1>1, <1>2

\* Node's error is on its way to the catch: nothing of the pause changes.
LEMMA ThrowEffect ==
  ASSUME IInv, NEW mark \in BOOLEAN, Throw(mark), UNCHANGED <<cfg, attempt, backoff>>
  PROVE  /\ pc' = "catch" /\ result' = result /\ delay' \in Nat /\ retryable' = mark
         /\ PauseInv'
BY ConfigFixed DEF Throw, IInv, TypeOK, PauseInv

\* An answer comes within what is left of the call's time.
LEMMA ElapseEffect ==
  ASSUME IInv, Elapse, cfg' = cfg
  PROVE  /\ spent' \in Nat /\ spent' >= spent
         /\ Timed => spent' <= cfg.deadline /\ spent' <= spent + cfg.timeout
<1>1. cfg.timeout \in Nat /\ cfg.deadline \in Nat /\ spent \in Nat
  BY ConfigUsable DEF IInv, TypeOK
<1> QED BY <1>1 DEF Elapse, Smaller, IInv, TimeInv

LEMMA NextIInv == IInv /\ [Next]_vars => IInv'
<1> SUFFICES ASSUME IInv, [Next]_vars PROVE IInv'
  OBVIOUS
<1> USE DEF IInv
<1>c. /\ cfg \in Configs /\ MaxAttempts \in Nat \ {0} /\ InitialBackoff \in Nat \ {0}
      /\ MaxBackoff \in Nat \ {0} /\ MaxJitter \in Nat /\ retryable \in BOOLEAN
      /\ cfg.timeout \in Nat /\ cfg.deadline \in Nat
      /\ Timed => cfg.timeout \in 1..cfg.deadline /\ InitialBackoff <= MaxBackoff
  BY ConfigUsable DEF TypeOK
<1>t. /\ attempt \in Nat /\ spent \in Nat /\ delay \in Nat /\ backoff \in Nat
      /\ previousDelay \in Nat /\ attempt \in 1..MaxAttempts
  BY <1>c DEF TypeOK
<1>1. CASE Send
  <2>1. cfg' = cfg
    BY <1>1 DEF Send
  <2>2. TypeOK'
    BY <1>1, <1>t, <2>1, ConfigFixed DEF TypeOK, Send, pause, time
  <2>3. SentInv' /\ ResultInv'
    BY <1>1 DEF SentInv, ResultInv, Send
  <2>4. PauseInv' /\ TimeInv'
    BY <1>1, <2>1, ConfigFixed DEF PauseInv, TimeInv, Send, pause, time
  <2> QED BY <2>2, <2>3, <2>4
<1>2. CASE DoFails
  <2>1. /\ cfg' = cfg /\ attempt' = attempt /\ backoff' = backoff /\ Elapse
        /\ Retry \/ Throw(TRUE)
    BY <1>2 DEF DoFails
  <2>2. /\ \/ pc' = "returned" /\ result' = "error"
           \/ pc' = "sleep" /\ result' = result
           \/ pc' = "catch" /\ result' = result /\ retryable'
        /\ delay' \in Nat /\ retryable' \in BOOLEAN /\ PauseInv'
    BY <1>c, <2>1, RetryEffect, ThrowEffect
  <2>3. /\ spent' \in Nat /\ spent' >= spent
        /\ Timed => spent' <= cfg.deadline /\ spent' <= spent + cfg.timeout
    BY <2>1, ElapseEffect
  <2>4. TypeOK'
    BY <1>2, <1>t, <2>1, <2>2, <2>3, ConfigFixed DEF TypeOK, DoFails, net
  <2>5. SentInv'
    BY <1>2, <2>1, <2>2 DEF SentInv, DoFails, net
  <2>6. ResultInv'
    BY <1>2, <2>1, <2>2 DEF ResultInv, DoFails, net
  <2>7. TimeInv'
    <3>1. (Timed /\ cfg.timeout = cfg.deadline) => hung = {}
      BY <1>2 DEF TimeInv, DoFails
    <3>2. hung' = IF Timed /\ spent' = spent + cfg.timeout THEN hung \cup {attempt} ELSE hung
      BY <1>2 DEF DoFails
    <3>3. ASSUME Timed, cfg.timeout = cfg.deadline, hung' # {}
          PROVE  hung' = {attempt} /\ spent' = cfg.deadline
      BY <1>c, <1>t, <2>3, <3>1, <3>2, <3>3
    <3> QED BY <2>1, <2>2, <2>3, <3>3, ConfigFixed DEF TimeInv
  <2> QED BY <2>2, <2>4, <2>5, <2>6, <2>7
<1>3. CASE DoCancelled
  <2>1. cfg' = cfg /\ attempt' = attempt /\ backoff' = backoff /\ Retry
    BY <1>3 DEF DoCancelled
  <2>2. /\ \/ pc' = "returned" /\ result' = "error"
           \/ pc' = "sleep" /\ result' = result
        /\ delay' \in Nat /\ retryable' = retryable /\ PauseInv'
    BY <2>1, RetryEffect
  <2>3. TypeOK'
    BY <1>3, <1>c, <1>t, <2>1, <2>2, ConfigFixed DEF TypeOK, DoCancelled, net, time
  <2>4. SentInv' /\ ResultInv'
    BY <1>3, <2>1, <2>2 DEF SentInv, ResultInv, DoCancelled, net
  <2>5. TimeInv'
    BY <1>3, <2>1, <2>2, ConfigFixed DEF TimeInv, DoCancelled, time
  <2> QED BY <2>2, <2>3, <2>4, <2>5
<1>4. CASE ReceiveCreated \/ ReceiveRefused
  <2>1. /\ cfg' = cfg /\ Elapse /\ pc = "wait"
        /\ UNCHANGED <<attempt, backoff, previousDelay, delay, hung, inflight, answer, stored, unsure>>
    BY <1>4 DEF ReceiveCreated, ReceiveRefused, Return, Throw, pause, net
  <2>2. \/ /\ pc' = "returned" /\ retryable' = retryable /\ result' \in {"ok", "error"}
           /\ result' = "ok" => attempt \in stored /\ refused' = refused
           /\ refused' = refused \/ (refused' = TRUE /\ result' = "error")
        \/ pc' = "catch" /\ retryable' = FALSE /\ result' = result /\ refused' = TRUE
    BY <1>4 DEF ReceiveCreated, ReceiveRefused, Return, Throw, SentInv
  <2>3. /\ spent' \in Nat /\ spent' >= spent
        /\ Timed => spent' <= cfg.deadline /\ spent' <= spent + cfg.timeout
    BY <2>1, ElapseEffect
  <2>4. retryable' \in BOOLEAN /\ pc' \in {"catch", "returned"} /\ result' \in {"none", "ok", "error"}
    BY <1>c, <2>2 DEF TypeOK
  <2>5. TypeOK'
    BY <1>t, <2>1, <2>3, <2>4, ConfigFixed DEF TypeOK
  <2>6. SentInv'
    BY <2>1, <2>2 DEF SentInv
  <2>7. ResultInv'
    BY <2>1, <2>2 DEF ResultInv
  <2>8. PauseInv' /\ TimeInv'
    BY <1>c, <1>t, <2>1, <2>3, <2>4, ConfigFixed DEF PauseInv, TimeInv
  <2> QED BY <2>5, <2>6, <2>7, <2>8
<1>5. CASE ReceiveBusy
  <2>1. /\ cfg' = cfg /\ attempt' = attempt /\ backoff' = backoff /\ Elapse
        /\ Retry \/ Throw(TRUE)
    BY <1>5 DEF ReceiveBusy
  <2>2. /\ \/ pc' = "returned" /\ result' = "error"
           \/ pc' = "sleep" /\ result' = result
           \/ pc' = "catch" /\ result' = result /\ retryable'
        /\ delay' \in Nat /\ retryable' \in BOOLEAN /\ PauseInv'
    BY <1>c, <2>1, RetryEffect, ThrowEffect
  <2>3. /\ spent' \in Nat /\ spent' >= spent
        /\ Timed => spent' <= cfg.deadline /\ spent' <= spent + cfg.timeout
    BY <2>1, ElapseEffect
  <2>4. TypeOK'
    BY <1>5, <1>t, <2>1, <2>2, <2>3, ConfigFixed DEF TypeOK, ReceiveBusy, net
  <2>5. SentInv' /\ ResultInv'
    BY <1>5, <2>1, <2>2 DEF SentInv, ResultInv, ReceiveBusy, net
  <2>6. TimeInv'
    BY <1>5, <1>c, <1>t, <2>1, <2>2, <2>3, ConfigFixed DEF TimeInv, ReceiveBusy
  <2> QED BY <2>2, <2>4, <2>5, <2>6
<1>0. CASE Catch
  <2>1. /\ cfg' = cfg /\ attempt' = attempt /\ backoff' = backoff /\ pc = "catch"
        /\ UNCHANGED <<previousDelay, time, net, unsure, refused>>
    BY <1>0 DEF Catch
  <2>2. /\ \/ pc' = "returned" /\ result' = "error"
           \/ pc' = "sleep" /\ result' = result /\ retryable
        /\ delay' \in Nat /\ retryable' = retryable /\ PauseInv'
    <3>1. CASE retryable
      BY <1>0, <2>1, <3>1, RetryEffect DEF Catch
    <3>2. CASE ~retryable
      BY <1>0, <1>t, <2>1, <3>2, ConfigFixed DEF Catch, Return, PauseInv
    <3> QED BY <3>1, <3>2
  <2>3. TypeOK'
    BY <1>c, <1>t, <2>1, <2>2, ConfigFixed DEF TypeOK, net, time
  <2>4. SentInv' /\ ResultInv'
    BY <2>1, <2>2 DEF SentInv, ResultInv, net
  <2>5. TimeInv'
    BY <2>1, <2>2, ConfigFixed DEF TimeInv, time
  <2> QED BY <2>2, <2>3, <2>4, <2>5
<1>6. CASE Wake
  <2>1. /\ cfg' = cfg /\ attempt' = attempt + 1 /\ pc = "sleep" /\ pc' = "attempt"
        /\ attempt < MaxAttempts /\ delay > 0 /\ previousDelay' = delay
        /\ backoff' = Smaller(backoff * 2, MaxBackoff)
        /\ UNCHANGED <<delay, retryable, hung, net, unsure, refused, result>>
    BY <1>6 DEF Wake, SleptFor, PauseInv
  <2>2. spent' \in Nat /\ (Timed => spent' = spent + delay /\ spent' <= cfg.deadline)
    BY <1>6, <1>t, <1>c DEF Wake, SleptFor, InTime
  <2>3. backoff' \in Nat /\ PauseInv'
    BY <1>c, <1>t, <2>1, ConfigFixed DEF PauseInv, Smaller
  <2>4. attempt' \in 1..MaxAttempts /\ 1..attempt \subseteq 1..attempt' /\ attempt' \notin 1..attempt
    BY <1>c, <1>t, <2>1
  <2>5. TypeOK'
    BY <1>t, <2>1, <2>2, <2>3, <2>4, ConfigFixed DEF TypeOK, net
  <2>6. SentInv' /\ ResultInv'
    BY <2>1, <2>4 DEF SentInv, ResultInv, net, TypeOK
  <2>7. TimeInv'
    <3>1. (Timed /\ cfg.timeout = cfg.deadline) => hung = {}
      BY <1>c, <1>t, <2>1, <2>2 DEF TimeInv
    <3> QED BY <2>1, <2>2, <3>1, ConfigFixed DEF TimeInv
  <2> QED BY <2>3, <2>5, <2>6, <2>7
<1>7. CASE SleepCancelled
  <2>1. /\ cfg' = cfg /\ pc = "sleep" /\ pc' = "returned" /\ result' = "error"
        /\ UNCHANGED <<attempt, pause, retryable, hung, net, unsure, refused>>
        /\ spent' = spent \/ (Timed /\ spent' = cfg.deadline)
    BY <1>7 DEF SleepCancelled, Return
  <2>2. TypeOK'
    BY <1>c, <1>t, <2>1, ConfigFixed DEF TypeOK, net, pause
  <2>3. SentInv' /\ ResultInv'
    BY <2>1 DEF SentInv, ResultInv, net
  <2>4. PauseInv' /\ TimeInv'
    BY <1>c, <1>t, <2>1, ConfigFixed DEF PauseInv, TimeInv, pause
  <2> QED BY <2>2, <2>3, <2>4
<1>8. CASE ContextEnds \/ UNCHANGED vars
  <2>1. UNCHANGED <<cfg, pc, attempt, pause, retryable, time, net, unsure, refused, result>>
    BY <1>8 DEF ContextEnds, vars, pause, time, net
  <2>2. TypeOK'
    BY <2>1, ConfigFixed DEF TypeOK, net, pause, time
  <2>3. SentInv' /\ ResultInv'
    BY <2>1 DEF SentInv, ResultInv, net
  <2>4. PauseInv' /\ TimeInv'
    BY <2>1, ConfigFixed DEF PauseInv, TimeInv, pause, time
  <2> QED BY <2>2, <2>3, <2>4
<1>9. ASSUME NEW a \in inflight, Serve(a) \/ RequestLost(a) PROVE IInv'
  <2>1. /\ UNCHANGED <<cfg, pc, attempt, pause, retryable, time, unsure, refused, result>>
        /\ inflight' = inflight \ {a} /\ stored' \in {stored, stored \cup {a}}
    BY <1>9 DEF Serve, RequestLost
  <2>2. answer' \in {"none", "created", "garbled", "refused", "busy"}
    BY <1>9 DEF Serve, RequestLost, Answers, TypeOK
  <2>3. (pc = "wait" /\ answer' \in {"created", "garbled"}) => attempt \in stored'
    BY <1>9 DEF Serve, RequestLost, Answers, SentInv
  <2>4. TypeOK'
    BY <2>1, <2>2, ConfigFixed DEF TypeOK, pause, time
  <2>5. SentInv' /\ ResultInv'
    BY <2>1, <2>3 DEF SentInv, ResultInv
  <2>6. PauseInv' /\ TimeInv'
    BY <2>1, ConfigFixed DEF PauseInv, TimeInv, pause, time
  <2> QED BY <2>4, <2>5, <2>6
<1> QED
  BY <1>0, <1>1, <1>2, <1>3, <1>4, <1>5, <1>6, <1>7, <1>8, <1>9 DEF Next, ClientStep

LEMMA IInvHolds == Spec => []IInv
BY InitIInv, NextIInv, PTL DEF Spec

-----------------------------------------------------------------------------
(* What follows from it *)

\* Every attempt is numbered within maxAttempts and only sent attempts are served.
THEOREM TypeCorrect == Spec => []TypeOK
<1>1. IInv => TypeOK
  BY DEF IInv
<1> QED BY <1>1, IInvHolds, PTL

\* A call that succeeds has stored its entry, and a second copy takes an attempt
\* whose outcome the client could not know, however late the network delivers.
THEOREM DuplicatesExplained == Spec => []DuplicatesOnlyWhenUnsure
<1>1. IInv => DuplicatesOnlyWhenUnsure
  BY DEF IInv, SentInv, ResultInv, DuplicatesOnlyWhenUnsure
<1> QED BY <1>1, IInvHolds, PTL

\* No attempt follows a refusal.
THEOREM RefusalReturned == Spec => []RefusalIsFinal
<1>1. IInv => RefusalIsFinal
  BY DEF IInv, ResultInv, RefusalIsFinal
<1> QED BY <1>1, IInvHolds, PTL

\* Every delay lies between the initial backoff and the maximum plus jitter, for
\* every strategy, attempt and sane configuration.
THEOREM DelaysInRange == Spec => []DelaysBounded
<1>1. IInv => DelaysBounded
  <2>1. IInv => (Timed => InitialBackoff <= MaxBackoff)
    BY ConfigUsable DEF IInv, TypeOK
  <2> QED BY <2>1 DEF IInv, PauseInv, DelaysBounded
<1> QED BY <1>1, IInvHolds, PTL

\* A call with a deadline ends within it, and a request that hangs for all of it
\* is never retried.
THEOREM DeadlineKept == Spec => []DeadlineHolds
<1>1. IInv => DeadlineHolds
  BY DEF IInv, TimeInv, DeadlineHolds
<1> QED BY <1>1, IInvHolds, PTL

\* computeRetryDelay of Go and computeRetryDelayMs of Node, each with the numbers as
\* its own library reads them, draw from the same delays at every point of every
\* call, for every configuration whose jitter is not negative.
THEOREM SameDelays == Spec => []LibrariesAgree
<1>1. IInv => LibrariesAgree
  <2> SUFFICES ASSUME IInv, cfg.maxJitter >= 0 PROVE computeRetryDelay = computeRetryDelayMs
    BY DEF LibrariesAgree
  <2>1. cfg \in Configs /\ previousDelay \in Nat /\ cfg.maxJitter \in Int
    BY ConfigsAssumption DEF IInv, TypeOK, IsConfig
  <2>2. GoJitter = NodeJitter
    BY <2>1 DEF GoJitter, NodeJitter
  <2> QED BY <2>1, <2>2, DelaysAgree
<1> QED BY <1>1, IInvHolds, PTL

\* Every config file the log forwarder starts with, whatever numbers it gives, makes
\* a client configuration that RetryClient assumes: it has a deadline, that of one
\* request, and its maximal backoff is not below the initial one.
THEOREM ForwarderConfigsFit ==
  ASSUME NEW c, c.numbers \in [DOMAIN Default -> Int], NEW sourceExists \in BOOLEAN,
         Accepted(c, sourceExists)
  PROVE  IsConfig(ClientConfig(c)) /\ ClientConfig(c).deadline > 0
<1> DEFINE n == c.numbers
           k == ClientConfig(c)
           unset == {name \in DOMAIN Default \ {"retry_max_backoff"} : c.numbers[name] <= 0}
           crossed == {p \in {"retry_max_backoff"} :
                         c.numbers.retry_max_backoff < c.numbers.retry_initial_backoff}
<1>1. /\ n.retry_max_attempts \in Int /\ n.retry_initial_backoff \in Int
      /\ n.retry_max_backoff \in Int /\ n.request_timeout \in Int
      /\ {"retry_initial_backoff", "request_timeout"} \subseteq DOMAIN Default
  BY DEF Default
<1>2. unset = {} /\ crossed = {}
  <2>1. unset \subseteq Problems(c, sourceExists) /\ crossed \subseteq Problems(c, sourceExists)
    BY DEF Problems
  <2> QED BY <2>1, Zenon DEF Accepted
<1>3. n.retry_max_backoff >= n.retry_initial_backoff
  <2>1. ~(c.numbers.retry_max_backoff < c.numbers.retry_initial_backoff)
    BY <1>2
  <2> QED BY <1>1, <2>1
<1>4. n.retry_initial_backoff > 0 /\ n.request_timeout > 0
  <2>1. ~(c.numbers["retry_initial_backoff"] <= 0) /\ ~(c.numbers["request_timeout"] <= 0)
    BY <1>1, <1>2
  <2> QED BY <1>1, <2>1
<1>5. /\ k.maxAttempts = n.retry_max_attempts /\ k.initialBackoff = n.retry_initial_backoff
      /\ k.maxBackoff = n.retry_max_backoff /\ k.maxJitter = 100 /\ k.lang = "go"
      /\ k.timeout = n.request_timeout /\ k.deadline = n.request_timeout
  BY DEF ClientConfig
<1> HIDE DEF k, n
<1>6. Positive(k.initialBackoff, DefaultDelay) <= Positive(k.maxBackoff, DefaultMaxBackoff)
  BY <1>1, <1>3, <1>4, <1>5 DEF Positive
<1>7. IsConfig(k) /\ k.deadline > 0
  BY <1>1, <1>4, <1>5, <1>6 DEF IsConfig
<1> QED BY <1>7 DEF k

=============================================================================
