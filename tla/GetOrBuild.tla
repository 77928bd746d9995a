----------------------------- MODULE GetOrBuild -----------------------------
(***************************************************************************)
(* What a per-key client cache promises to the goroutines that call it,    *)
(* with no mutex and no intermediate step: a call for a key shares the     *)
(* client the table holds for it, or builds the only one, or fails without *)
(* leaving anything behind, in one indivisible step.  Closing the cache    *)
(* empties the table in one step as well.                                  *)
(*                                                                         *)
(* Clients are numbered in the order in which they are built; 0 stands for *)
(* "no client".  ClientCache is shown to implement this specification.     *)
(***************************************************************************)
EXTENDS Naturals

CONSTANTS Callers,   \* the goroutines that call Get
          Keys       \* the keys of the table

VARIABLES table,     \* the client of each key, 0 when there is none
          stage,     \* "idle", "asking" or "answered", per caller
          key,       \* the key of a caller's last call
          answer,    \* the client a caller was given, 0 for an error
          built      \* how many clients have been built

vars == <<table, stage, key, answer, built>>

Empty == [k \in Keys |-> 0]

Init == /\ table = Empty
        /\ stage = [c \in Callers |-> "idle"]
        /\ key \in [Callers -> Keys]
        /\ answer = [c \in Callers |-> 0]
        /\ built = 0

Ask(c, k) == /\ stage[c] = "idle"
             /\ stage' = [stage EXCEPT ![c] = "asking"]
             /\ key' = [key EXCEPT ![c] = k]
             /\ UNCHANGED <<table, answer, built>>

\* The outcome of a call: c is given client i.
Give(c, i) == /\ stage[c] = "asking"
              /\ stage' = [stage EXCEPT ![c] = "answered"]
              /\ answer' = [answer EXCEPT ![c] = i]
              /\ UNCHANGED key

\* A key that has a client is always answered with that client.
Share(c) == /\ table[key[c]] # 0
            /\ Give(c, table[key[c]])
            /\ UNCHANGED <<table, built>>

\* Only a key without a client gets a new one, and everyone after shares it.
Build(c) == /\ table[key[c]] = 0
            /\ Give(c, built + 1)
            /\ built' = built + 1
            /\ table' = [table EXCEPT ![key[c]] = built + 1]

\* A failed construction leaves the table as it was.
Fail(c) == /\ table[key[c]] = 0
           /\ Give(c, 0)
           /\ UNCHANGED <<table, built>>

\* The caller goes on with the answer and may call again.
Take(c) == /\ stage[c] = "answered"
           /\ stage' = [stage EXCEPT ![c] = "idle"]
           /\ answer' = [answer EXCEPT ![c] = 0]
           /\ UNCHANGED <<table, key, built>>

Close == /\ table' = Empty
         /\ UNCHANGED <<stage, key, answer, built>>

Next == \/ Close
        \/ \E c \in Callers : \/ \E k \in Keys : Ask(c, k)
                              \/ Share(c)
                              \/ Build(c)
                              \/ Fail(c)
                              \/ Take(c)

Spec == Init /\ [][Next]_vars
=============================================================================
