-------------------------- MODULE MCScrapeHandler ---------------------------
(***************************************************************************)
(* Three requests, each of which is served once, and two slots: one more   *)
(* request than the gate lets in, so that 429 occurs, and two that can     *)
(* share a client, wait for one another's build and outlive one another.   *)
(* The configured default account is alice, so that a request for alice    *)
(* and one that names nobody meet; bob is an account that is not the       *)
(* default, used where two principals at a time matter.                    *)
(***************************************************************************)
EXTENDS ScrapeHandler, TLC

CONSTANTS r1, r2, r3, alice, bob

TwoRequests == {r1, r2}
ThreeRequests == {r1, r2, r3}
OneSA == {alice}
TwoSAs == {alice, bob}

\* Requests are interchangeable; used for safety only.
RequestSymmetry == Permutations(ThreeRequests)
=============================================================================
