-------------------------- MODULE ClientCacheProofs -------------------------
(***************************************************************************)
(* The safety of ClientCache, for any number of callers and keys.          *)
(*                                                                         *)
(* None of the properties is inductive by itself.  What makes them so is   *)
(* that the mutex is held by exactly the goroutine that is inside Get or   *)
(* Close (Exclusive), and that the key a caller is building for is still   *)
(* absent when the client is there (StillAbsent).                          *)
(***************************************************************************)
EXTENDS ClientCache, TLAPS

Exclusive ==
    /\ \A c \in Callers : phase[c] \in {"locked", "dialing"} <=> mu = c
    /\ closing = "sweeping" <=> mu = Closer

StillAbsent == \A c \in Callers : phase[c] = "dialing" => clients[want[c]] = 0

\* The table and the set of open clients agree, entry by entry.
TableSound ==
    /\ \A k \in Keys : clients[k] # 0 => /\ clients[k] \in open
                                         /\ made[clients[k]].key = k
    /\ \A i \in open : clients[made[i].key] = i

MadeSound == \A i \in 1..Len(made) : made[i].as = Principal(made[i].key)

GotSound ==
    \A c \in Callers : got[c] # 0 => /\ phase[c] = "returned"
                                     /\ got[c] \in 1..Len(made)
                                     /\ made[got[c]].key = want[c]

CacheInv == /\ CacheTypeOK
            /\ Exclusive
            /\ StillAbsent
            /\ TableSound
            /\ MadeSound
            /\ GotSound

-----------------------------------------------------------------------------

\* Appending a client leaves the earlier ones where they were.
LEMMA AppendClient ==
    ASSUME NEW s \in Seq(Client), NEW x \in Client
    PROVE  /\ Append(s, x) \in Seq(Client)
           /\ Len(s) \in Nat
           /\ Len(Append(s, x)) = Len(s) + 1
           /\ Append(s, x)[Len(s) + 1] = x
           /\ \A i \in 1..Len(s) : Append(s, x)[i] = s[i] /\ s[i] \in Client
  OBVIOUS

\* A client that has been built is cached under a key of the table.
LEMMA MadeKey ==
    ASSUME CacheTypeOK, NEW i \in 1..Len(made)
    PROVE  made[i] \in Client /\ made[i].key \in Keys
  <1>1. made[i] \in Client
    BY DEF CacheTypeOK
  <1> QED BY <1>1 DEF Client

\* Whatever is asked for, the principal is an account or none.
LEMMA PrincipalType == \A k \in Keys : Principal(k) \in Keys
  BY CacheAssumption DEF Principal, Keys

\* The inductive invariant holds initially.
LEMMA CacheInvInit == CacheInit => CacheInv
  <1> SUFFICES ASSUME CacheInit
               PROVE  CacheInv
    OBVIOUS
  <1> USE CacheAssumption DEF CacheInit
  <1>1. made = <<>> /\ <<>> \in Seq(Client) /\ Len(made) = 0 /\ 1..Len(made) = {}
    OBVIOUS
  <1>2. CacheTypeOK
    BY <1>1 DEF CacheTypeOK, Keys
  <1>3. Exclusive /\ StillAbsent
    BY DEF Exclusive, StillAbsent
  <1>4. TableSound /\ MadeSound /\ GotSound
    BY <1>1 DEF TableSound, MadeSound, GotSound
  <1> QED BY <1>2, <1>3, <1>4 DEF CacheInv

\* Every step preserves the inductive invariant.
LEMMA CacheInvNext == CacheInv /\ [CacheNext]_cacheVars => CacheInv'
  <1> SUFFICES ASSUME CacheInv, [CacheNext]_cacheVars
               PROVE  CacheInv'
    OBVIOUS
  <1> USE CacheAssumption
      DEF CacheInv, CacheTypeOK, Exclusive, StillAbsent, TableSound, MadeSound, GotSound
  <1>1. ASSUME NEW c \in Callers, NEW k \in Keys, GetCalled(c, k)
        PROVE  CacheInv'
    BY <1>1 DEF GetCalled
  <1>2. ASSUME NEW c \in Callers, GetLocks(c)
        PROVE  CacheInv'
    BY <1>2 DEF GetLocks
  <1>3. ASSUME NEW c \in Callers, GetHits(c)
        PROVE  CacheInv'
    BY <1>3 DEF GetHits, GetReturns
  <1>4. ASSUME NEW c \in Callers, TokenSourceFails(c)
        PROVE  CacheInv'
    BY <1>4 DEF TokenSourceFails, GetReturns
  <1>5. ASSUME NEW c \in Callers, TokenSourceBuilt(c)
        PROVE  CacheInv'
    BY <1>5 DEF TokenSourceBuilt
  <1>6. ASSUME NEW c \in Callers, DialFails(c)
        PROVE  CacheInv'
    BY <1>6 DEF DialFails, GetReturns
  <1>7. ASSUME NEW c \in Callers, Dialed(c)
        PROVE  CacheInv'
    <2> DEFINE n == Len(made) + 1
               x == [key |-> want[c], as |-> Principal(want[c]), ctx |-> c]
    <2>1. /\ x \in Client
          /\ x.key = want[c] /\ x.as = Principal(want[c])
      BY PrincipalType DEF Client
    <2>2. /\ made' = Append(made, x) /\ open' = open \cup {n}
          /\ clients' = [clients EXCEPT ![want[c]] = n]
          /\ phase[c] = "dialing" /\ mu' = Nobody
          /\ phase' = [phase EXCEPT ![c] = "returned"]
          /\ got' = [got EXCEPT ![c] = n]
          /\ UNCHANGED <<want, closing, closeErr>>
      BY <1>7 DEF Dialed, GetReturns
    <2>3. /\ made' \in Seq(Client) /\ Len(made) \in Nat /\ Len(made') = n
          /\ made'[n] = x
          /\ \A i \in 1..Len(made) : made'[i] = made[i] /\ made[i] \in Client
      BY <2>1, <2>2, AppendClient
    <2> HIDE DEF x
    <2>4. /\ n \in Nat /\ n # 0 /\ n \notin open /\ n \notin 1..Len(made)
          /\ 1..n = 1..Len(made) \cup {n}
          /\ clients[want[c]] = 0
      BY <2>2, <2>3
    <2>5. CacheTypeOK'
      <3>1. open' \subseteq 1..Len(made')
        BY <2>2, <2>3, <2>4
      <3> QED BY <2>2, <2>3, <2>4, <3>1
    <2>6. Exclusive' /\ StillAbsent'
      BY <2>2, <2>4
    <2>7. TableSound'
      <3>1. ASSUME NEW k \in Keys, clients'[k] # 0
            PROVE  clients'[k] \in open' /\ made'[clients'[k]].key = k
        <4>1. CASE k = want[c]
          BY <4>1, <2>1, <2>2, <2>3, <2>4
        <4>2. CASE k # want[c]
          <5>1. clients'[k] = clients[k] /\ clients[k] \in open /\ clients[k] \in 1..Len(made)
            BY <4>2, <3>1, <2>2
          <5> QED BY <5>1, <3>1, <2>2, <2>3
        <4> QED BY <4>1, <4>2
      <3>2. ASSUME NEW i \in open'
            PROVE  clients'[made'[i].key] = i
        <4>1. CASE i = n
          BY <4>1, <2>1, <2>2, <2>3
        <4>2. CASE i # n
          <5>1. i \in open /\ i \in 1..Len(made) /\ i # 0 /\ made'[i] = made[i]
            BY <4>2, <2>2, <2>3
          <5>2. clients[made[i].key] = i /\ made[i].key \in Keys
            BY <5>1, <2>3 DEF Client
          <5>3. made[i].key # want[c]
            BY <5>1, <5>2, <2>4
          <5> QED BY <5>1, <5>2, <5>3, <2>2
        <4> QED BY <4>1, <4>2
      <3> QED BY <3>1, <3>2
    <2>8. MadeSound'
      <3>1. ASSUME NEW i \in 1..n
            PROVE  made'[i].as = Principal(made'[i].key)
        <4>1. CASE i = n
          BY <4>1, <2>1, <2>3
        <4>2. CASE i # n
          <5>1. i \in 1..Len(made) /\ made'[i] = made[i]
            BY <4>2, <2>3, <2>4
          <5>2. made[i].as = Principal(made[i].key)
            BY <5>1
          <5> QED BY <5>1, <5>2
        <4> QED BY <4>1, <4>2
      <3> QED BY <3>1, <2>3 DEF Principal
    <2>9. GotSound'
      BY <2>1, <2>2, <2>3, <2>4
    <2> QED BY <2>5, <2>6, <2>7, <2>8, <2>9
  <1>8. ASSUME NEW c \in Callers, GetTaken(c)
        PROVE  CacheInv'
    BY <1>8 DEF GetTaken
  <1>9. CASE CloseCalled
    BY <1>9 DEF CloseCalled
  <1>10. CASE CloseLocks
    BY <1>10 DEF CloseLocks
  <1>11. ASSUME NEW k \in Keys, CloseOne(k)
         PROVE  CacheInv'
    <2>1. \A c \in Callers : phase[c] \notin {"locked", "dialing"}
      BY <1>11 DEF CloseOne
    <2>2. CacheTypeOK' /\ Exclusive' /\ StillAbsent' /\ MadeSound' /\ GotSound'
      BY <1>11, <2>1 DEF CloseOne
    <2>3. TableSound'
      <3>1. /\ clients' = [clients EXCEPT ![k] = 0] /\ made' = made
            /\ open' = open \ {clients[k]} /\ clients[k] # 0
            /\ \A i \in open : i \in 1..Len(made) /\ made[i].key \in Keys
        BY <1>11, MadeKey DEF CloseOne
      <3>2. ASSUME NEW j \in Keys, clients'[j] # 0
            PROVE  clients'[j] \in open' /\ made'[clients'[j]].key = j
        <4>1. j # k /\ clients'[j] = clients[j]
          BY <3>1, <3>2
        <4>2. clients[j] \in open /\ made[clients[j]].key = j /\ made[clients[k]].key = k
          BY <4>1, <3>1, <3>2
        <4> QED BY <4>1, <4>2, <3>1
      <3>3. ASSUME NEW i \in open'
            PROVE  clients'[made'[i].key] = i
        <4>1. i \in open /\ i # clients[k] /\ clients[made[i].key] = i /\ made[i].key \in Keys
          BY <3>1, <3>3
        <4> QED BY <4>1, <3>1
      <3> QED BY <3>2, <3>3
    <2> QED BY <2>2, <2>3
  <1>12. CASE CloseReturns
    BY <1>12 DEF CloseReturns
  <1>13. CASE UNCHANGED cacheVars
    BY <1>13 DEF cacheVars
  <1> QED
    BY <1>1, <1>2, <1>3, <1>4, <1>5, <1>6, <1>7, <1>8, <1>9, <1>10, <1>11, <1>12, <1>13
    DEF CacheNext, GetStep, Build, CloseStep, Sweep

\* The inductive invariant holds throughout.
THEOREM CacheInvariant == CacheSpec => []CacheInv
  BY CacheInvInit, CacheInvNext, PTL DEF CacheSpec

\* The cache's variables keep their types.
THEOREM CacheTypeCorrect == CacheSpec => []CacheTypeOK
  <1>1. CacheInv => CacheTypeOK
    BY DEF CacheInv
  <1> QED BY <1>1, CacheInvariant, PTL

\* Never two open clients for one key, nor one that the table does not hold.
THEOREM OneClientPerKeyHolds == CacheSpec => []OneClientPerKey
  <1>1. ASSUME CacheInv
        PROVE  OneClientPerKey
    <2>1. \A i \in open : i \in 1..Len(made) /\ made[i].key \in Keys /\ clients[made[i].key] = i
      <3>1. CacheTypeOK /\ open \subseteq 1..Len(made)
        BY <1>1 DEF CacheInv, CacheTypeOK
      <3> QED BY <1>1, <3>1, MadeKey DEF CacheInv, TableSound
    <2>2. open = {clients[k] : k \in Keys} \ {0}
      <3>1. ASSUME NEW i \in open
            PROVE  i \in {clients[k] : k \in Keys} \ {0}
        BY <2>1
      <3>2. ASSUME NEW k \in Keys, clients[k] # 0
            PROVE  clients[k] \in open
        BY <1>1, <3>2 DEF CacheInv, TableSound
      <3> QED BY <3>1, <3>2
    <2>3. \A i, j \in open : made[i].key = made[j].key => i = j
      BY <2>1
    <2> QED BY <2>2, <2>3 DEF OneClientPerKey
  <1> QED BY <1>1, CacheInvariant, PTL

\* Get never hands out a client of another principal.
THEOREM RightPrincipalHolds == CacheSpec => []RightPrincipal
  <1>1. CacheInv => RightPrincipal
    BY DEF CacheInv, MadeSound, GotSound, RightPrincipal
  <1> QED BY <1>1, CacheInvariant, PTL

\* When Close returns, every client is closed.
THEOREM CloseReleasesAllHolds == CacheSpec => CloseReleasesAll
  <1>1. ASSUME CacheInv, [CacheNext]_cacheVars, closing = "sweeping", closing' = "done"
        PROVE  open' = {}
    <2>1. CloseReturns
      BY <1>1
      DEF CacheNext, GetStep, Build, CloseStep, Sweep, cacheVars, GetCalled, GetLocks,
          GetHits, TokenSourceFails, TokenSourceBuilt, DialFails, Dialed, GetReturns,
          GetTaken, CloseCalled, CloseLocks, CloseOne
    <2>2. \A k \in Keys : clients[k] = 0
      BY <2>1 DEF CloseReturns
    <2>3. ASSUME NEW i \in open
          PROVE  FALSE
      <3>1. CacheTypeOK /\ i \in 1..Len(made)
        BY <1>1 DEF CacheInv, CacheTypeOK
      <3>2. i # 0 /\ made[i].key \in Keys
        BY <3>1, MadeKey
      <3> QED BY <1>1, <2>2, <3>2 DEF CacheInv, TableSound
    <2> QED BY <2>1, <2>3 DEF CloseReturns
  <1>2. CacheInv /\ [CacheNext]_cacheVars
          => [closing = "sweeping" /\ closing' = "done" => open' = {}]_cacheVars
    BY <1>1
  <1> QED BY <1>2, CacheInvariant, PTL DEF CacheSpec, CloseReleasesAll

-----------------------------------------------------------------------------
(* The cache implements GetOrBuild. *)

\* The abstract initial state.
LEMMA AbstractInit == CacheInit => Abstract!Init
  BY CacheAssumption
  DEF CacheInit, Abstract!Init, Abstract!Empty, Table, Stage, Keys

\* The last step of Get is the indivisible step of the abstract cache: a hit
\* shares, a client that is dialed is built, an error fails.  Close takes
\* effect when it gets the mutex.  The other steps change nothing one can see.
LEMMA AbstractStep == CacheInv /\ [CacheNext]_cacheVars => [Abstract!Next]_Abstract!vars
  <1> SUFFICES ASSUME CacheInv, [CacheNext]_cacheVars
               PROVE  [Abstract!Next]_Abstract!vars
    OBVIOUS
  <1> USE CacheAssumption DEF CacheInv, CacheTypeOK, Table, Stage
  <1>1. ASSUME NEW c \in Callers, NEW k \in Keys, GetCalled(c, k)
        PROVE  Abstract!Ask(c, k)
    BY <1>1 DEF GetCalled, Abstract!Ask
  <1>2. ASSUME NEW c \in Callers, GetLocks(c)
        PROVE  UNCHANGED Abstract!vars
    BY <1>2 DEF GetLocks, Abstract!vars
  <1>3. ASSUME NEW c \in Callers, GetHits(c)
        PROVE  Abstract!Share(c)
    BY <1>3 DEF GetHits, GetReturns, Exclusive, Abstract!Share, Abstract!Give
  <1>4. ASSUME NEW c \in Callers, TokenSourceFails(c)
        PROVE  Abstract!Fail(c)
    BY <1>4 DEF TokenSourceFails, GetReturns, Exclusive, Abstract!Fail, Abstract!Give
  <1>5. ASSUME NEW c \in Callers, TokenSourceBuilt(c)
        PROVE  UNCHANGED Abstract!vars
    BY <1>5 DEF TokenSourceBuilt, Abstract!vars
  <1>6. ASSUME NEW c \in Callers, DialFails(c)
        PROVE  Abstract!Fail(c)
    BY <1>6 DEF DialFails, GetReturns, Exclusive, StillAbsent, Abstract!Fail, Abstract!Give
  <1>7. ASSUME NEW c \in Callers, Dialed(c)
        PROVE  Abstract!Build(c)
    <2>1. Len(made') = Len(made) + 1
      <3>1. [key |-> want[c], as |-> Principal(want[c]), ctx |-> c] \in Client
        BY PrincipalType DEF Client
      <3> QED BY <1>7, <3>1, AppendClient DEF Dialed
    <2>2. closing # "sweeping" /\ clients[want[c]] = 0
      BY <1>7 DEF Dialed, Exclusive, StillAbsent
    <2> QED BY <1>7, <2>1, <2>2 DEF Dialed, GetReturns, Abstract!Build, Abstract!Give
  <1>8. ASSUME NEW c \in Callers, GetTaken(c)
        PROVE  Abstract!Take(c)
    BY <1>8 DEF GetTaken, Abstract!Take
  <1>9. CASE CloseCalled
    BY <1>9 DEF CloseCalled, Abstract!vars
  <1>10. CASE CloseLocks
    <2>1. Abstract!Close
      BY <1>10 DEF CloseLocks, Abstract!Close, Abstract!Empty
    <2> QED BY <2>1 DEF Abstract!Next
  <1>11. ASSUME NEW k \in Keys, CloseOne(k)
         PROVE  UNCHANGED Abstract!vars
    BY <1>11 DEF CloseOne, Abstract!vars
  <1>12. CASE CloseReturns
    <2>1. \A k \in Keys : clients[k] = 0 /\ clients'[k] = 0
      BY <1>12 DEF CloseReturns
    <2> QED BY <1>12, <2>1 DEF CloseReturns, Abstract!vars
  <1>13. CASE UNCHANGED cacheVars
    BY <1>13 DEF cacheVars, Abstract!vars
  <1> QED
    BY <1>1, <1>2, <1>3, <1>4, <1>5, <1>6, <1>7, <1>8, <1>9, <1>10, <1>11, <1>12, <1>13
    DEF CacheNext, GetStep, Build, CloseStep, Sweep, Abstract!Next

\* To its callers the cache is a table whose operations are indivisible.
THEOREM CacheImplementsGetOrBuild == CacheSpec => ImplementsGetOrBuild
  BY AbstractInit, AbstractStep, CacheInvariant, PTL
  DEF CacheSpec, ImplementsGetOrBuild, Abstract!Spec
=============================================================================
