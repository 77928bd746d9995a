--------------------------- MODULE MCClientCache ----------------------------
(***************************************************************************)
(* Goroutines that call Get again and again for two keys, and main closing *)
(* the cache once: enough for a hit, a build another caller waits for, a   *)
(* failed build that is retried, and a Get on each side of Close.  Nothing *)
(* needs a bound: a client is built at most twice for a key.               *)
(***************************************************************************)
EXTENDS ClientCache

CONSTANTS c1, c2, alice

TwoCallers == {c1, c2}
MCSAs == {alice}
=============================================================================
