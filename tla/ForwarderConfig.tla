---------------------------- MODULE ForwarderConfig ----------------------------
(***************************************************************************)
(* The configuration of cmd/log-forwarder and what follows from it: which  *)
(* files start the process, what its parser makes of a line, and how its   *)
(* client retries.                                                         *)
(*                                                                         *)
(* Of a line only its kind matters: "json" (an object), "pattern" (it      *)
(* matches regex_pattern), "text" (neither) or "blank".                    *)
(***************************************************************************)
EXTENDS Integers

Kinds == {"json", "pattern", "text", "blank"}

\* The strings that must be given, the numbers in milliseconds (or counts).
RequiredStrings == {"server_url", "auth_bearer_token", "source_file", "app_name", "timestamp_field"}

Default == [poll_interval |-> 250, batch_size |-> 1, flush_interval |-> 1000,
            retry_max_attempts |-> 5, retry_initial_backoff |-> 200, retry_max_backoff |-> 5000,
            request_timeout |-> 10000, metrics_report_interval |-> 30000, verify_interval |-> 60000]

\* A config file: the required strings it gives, parser_mode as it is spelled,
\* regex_pattern ("" , "valid" or "invalid"), metrics_port and the numbers.
RawConfig(strings, mode, pattern, port, numbers) ==
    [strings |-> strings, parser_mode |-> mode, regex_pattern |-> pattern,
     metrics_port |-> port, numbers |-> numbers]

\* strings.ToLower(strings.TrimSpace(mode)), for the spellings in use.
LowerTrim(mode) ==
    CASE mode \in {"json", "JSON", " json "}       -> "json"
      [] mode \in {"regex", "Regex"}               -> "regex"
      [] mode \in {"custom", "Custom"}             -> "custom"
      [] mode \in {"", " "}                        -> ""
      [] OTHER                                     -> mode

\* Numbers that are zero or negative count as not given; metrics_port does not.
applyDefaults(raw) ==
    [raw EXCEPT
       !.parser_mode = IF LowerTrim(@) = "" THEN "custom" ELSE LowerTrim(@),
       !.numbers     = [n \in DOMAIN Default |-> IF @[n] <= 0 THEN Default[n] ELSE @[n]]]

\* The problems of Validate, with the source file there or not.
Problems(c, sourceExists) ==
    (RequiredStrings \ c.strings)
      \cup {n \in DOMAIN Default \ {"retry_max_backoff"} : c.numbers[n] <= 0}
      \cup {p \in {"retry_max_backoff"} :
              c.numbers.retry_max_backoff < c.numbers.retry_initial_backoff}
      \cup {p \in {"metrics_port"} : c.metrics_port < 0 \/ c.metrics_port > 65535}
      \cup {p \in {"parser_mode"} : c.parser_mode \notin {"json", "regex", "custom"}}
      \cup {p \in {"regex_pattern"} : c.parser_mode = "regex" /\ c.regex_pattern # "valid"}
      \cup {p \in {"source_file_inaccessible"} : "source_file" \in c.strings /\ ~sourceExists}

\* LoadConfig succeeds: the process starts.
Accepted(c, sourceExists) == Problems(c, sourceExists) = {}

-----------------------------------------------------------------------------
(* LineParser *)

\* NewLineParser compiles the pattern in mode regex only.
Compiled(c) == c.parser_mode = "regex"

tryJSON(kind)     == kind = "json"
tryRegex(c, kind) == Compiled(c) /\ kind = "pattern"

\* An event, an event without a message (which WriteLog refuses to send), or an
\* error.
Parse(c, kind) ==
    CASE c.parser_mode = "json"  -> IF tryJSON(kind) THEN "event" ELSE "error"
      [] c.parser_mode = "regex" -> IF tryRegex(c, kind) THEN "event" ELSE "error"
      [] OTHER -> IF tryJSON(kind) \/ tryRegex(c, kind) \/ kind # "blank" THEN "event" ELSE "empty"

-----------------------------------------------------------------------------
(* The retrying client that main configures, in milliseconds.  One request and *)
(* one delivery with all its attempts have the same time to live.               *)

ClientConfig(c) ==
    [lang |-> "go", maxAttempts |-> c.numbers.retry_max_attempts,
     initialBackoff |-> c.numbers.retry_initial_backoff,
     maxBackoff |-> c.numbers.retry_max_backoff,
     maxJitter |-> 100, strategy |-> "full",
     timeout |-> c.numbers.request_timeout, deadline |-> c.numbers.request_timeout]
=============================================================================
