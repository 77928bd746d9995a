------------------------------- MODULE Config -------------------------------
(***************************************************************************)
(* The environment variables of the process (cmd/server/main.go): what     *)
(* loadConfig makes of them, and the port the --healthcheck mode, which    *)
(* reads PORT by itself, probes.                                           *)
(*                                                                         *)
(* The text of a variable is what the code reads in it: nothing, a number, *)
(* a word or something it cannot parse.  Durations are numbers, in a unit  *)
(* of which Second make a second.                                          *)
(***************************************************************************)
EXTENDS Integers

CONSTANTS Unset,     \* a variable that is unset or empty
          Garbage,   \* text that is neither a number nor a known word
          Lower,     \* word -> the word in lower case
          Second     \* a second, in the unit of the durations

ASSUME ConfigAssumption ==
    /\ {Unset, Garbage} \cap (Int \cup DOMAIN Lower) = {}
    /\ Second \in Nat \ {0}

Numbers == {"PORT", "SCRAPE_TIMEOUT", "MAX_CONCURRENT_SCRAPES",
            "MAX_SERIES_PER_REQUEST", "SHUTDOWN_GRACE"}
Words == {"LOG_LEVEL", "LOG_FORMAT"}

Default == [PORT |-> 8080, SCRAPE_TIMEOUT |-> 30 * Second, MAX_CONCURRENT_SCRAPES |-> 16,
            MAX_SERIES_PER_REQUEST |-> 10000, SHUTDOWN_GRACE |-> 10 * Second,
            LOG_LEVEL |-> "info", LOG_FORMAT |-> "json"]

Known == [LOG_LEVEL |-> {"debug", "info", "warn", "error"}, LOG_FORMAT |-> {"json", "text"}]

\* An environment maps the variables to texts.
Env == [numbers : [Numbers -> Int \cup {Unset, Garbage}],
        words : [Words -> DOMAIN Lower \cup {Unset, Garbage}]]

MaxPort == 65535

InRange(v, n) == n > 0 /\ (v = "PORT" => n <= MaxPort)

AcceptsNumber(v, text) ==
    \/ text = Unset
    \/ text \notin {Unset, Garbage} /\ InRange(v, text)

AcceptsWord(v, text) ==
    \/ text = Unset
    \/ text \notin {Unset, Garbage} /\ Lower[text] \in Known[v]

Valid(env) == /\ \A v \in Numbers : AcceptsNumber(v, env.numbers[v])
              /\ \A v \in Words : AcceptsWord(v, env.words[v])

\* The configuration of an environment that is valid; with any other one the
\* process logs an error and exits with 1.
loadConfig(env) ==
    [numbers |-> [v \in Numbers |-> IF env.numbers[v] = Unset THEN Default[v] ELSE env.numbers[v]],
     words |-> [v \in Words |-> IF env.words[v] = Unset THEN Default[v] ELSE Lower[env.words[v]]]]

\* The healthcheck does not complain: what it cannot use it takes for unset.
HealthcheckPort(env) ==
    LET text == env.numbers["PORT"]
    IN  IF text \notin {Unset, Garbage} /\ InRange("PORT", text) THEN text ELSE Default["PORT"]
=============================================================================
