------------------------------ MODULE MCServer ------------------------------
(***************************************************************************)
(* One slot per endpoint; one request to /metrics, for the default account *)
(* or none, and two to /gmp-metrics, one more than its slot; one signal.   *)
(* That is enough for requests before, during and after the drain, for a   *)
(* client built while Close waits for the mutex or after it has returned,  *)
(* and for a listener that fails at any moment.                            *)
(*                                                                         *)
(* The slots are those that loadConfig makes of an environment in which    *)
(* MAX_CONCURRENT_SCRAPES is 1 and LOG_LEVEL is spelt in capitals.         *)
(***************************************************************************)
EXTENDS Server, Config

CONSTANTS r1, g1, g2, alice

OneRequest == {r1}
TwoGmpRequests == {g1, g2}
OneSA == {alice}

LowerWords == [w \in {"DEBUG", "debug"} |-> "debug"]

Environment ==
    [numbers |-> [v \in Numbers |-> IF v = "MAX_CONCURRENT_SCRAPES" THEN 1 ELSE Unset],
     words   |-> [v \in Words |-> IF v = "LOG_LEVEL" THEN "DEBUG" ELSE Unset]]

ASSUME Environment \in Env /\ Valid(Environment)

ConfiguredSlots == loadConfig(Environment).numbers["MAX_CONCURRENT_SCRAPES"]
=============================================================================
