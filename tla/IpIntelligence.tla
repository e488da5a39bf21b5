--------------------------- MODULE IpIntelligence ---------------------------
(* IpIntelligenceService.lookup of one public address (addresses share no cache entry) by         *)
(* evaluations that run at the same time: the cache, with Redis or in memory, the provider, the   *)
(* fallback, and what an outage of both means.  A provider says what the address is when it is    *)
(* asked, an instant after which the address may change hands.                                    *)
EXTENDS Naturals

CONSTANTS
  Lookup,       \* lookups that may run at the same time
  CacheTtl,          \* the values of cache_ttl_seconds
  LongestTtl,
  Nothing,
  MaxInstant, MaxLookups, MaxTurnsOfIp   \* bounds: the clock, lookups, changes of address and settings

Answers == {"ip-api", "ippriv"}
Failures == {"ip-api failed", "ippriv failed", "fail_open", "fail_closed"}

\* provider: who said so; risky: a VPN, a proxy or Tor; and, as history, whether it was cached at a
\* later instant than it was decided at.
IpResult == [provider : Answers \cup Failures \cup {"disabled"}, risky : BOOLEAN, slow : BOOLEAN]
Result(provider, risky) == [provider |-> provider, risky |-> risky, slow |-> FALSE]

ASSUME IpAssumption ==
  /\ CacheTtl \subseteq 1..LongestTtl /\ LongestTtl \in Nat
  /\ Nothing \notin IpResult /\ Nothing \notin [result : IpResult, until : Nat]
  /\ {MaxInstant, MaxLookups, MaxTurnsOfIp} \subseteq Nat

VARIABLES
  instant,
  anonymous,    \* whether the address is a proxy's, and since when it is what it is
  ipIntel,      \* the configuration: enabled, fail_open, the ttl; and since when fail_open is that
  cache,        \* the result that is cached and when it expires
  lookups,      \* what each evaluation looks up: the call it is at, the result, when it began
  lookupsMade, turnsOfIp

ipVars == <<instant, anonymous, ipIntel, cache, lookups, lookupsMade, turnsOfIp>>

IdleLookup == [at |-> "idle", result |-> Nothing, began |-> 0]

GoOn(l, call, result) == lookups' = [lookups EXCEPT ![l].at = call, ![l].result = result]

-----------------------------------------------------------------------------
\* A result that has expired is dropped: Redis drops it, in memory it is not looked at again.  An
\* evaluation that has its result goes its way.
TickInstant ==
  /\ instant < MaxInstant /\ instant' = instant + 1
  /\ cache' = IF cache # Nothing /\ cache.until <= instant' THEN Nothing ELSE cache
  /\ lookups' = [l \in Lookup |->
                   CASE lookups[l].at = "store" -> [lookups[l] EXCEPT !.result.slow = TRUE]
                     [] lookups[l].at = "answered" -> IdleLookup
                     [] OTHER -> lookups[l]]
  /\ UNCHANGED <<anonymous, ipIntel, lookupsMade, turnsOfIp>>

Turn == turnsOfIp < MaxTurnsOfIp /\ turnsOfIp' = turnsOfIp + 1

ChangeHands ==
  /\ Turn
  /\ anonymous' = [is |-> ~anonymous.is, since |-> instant]
  /\ UNCHANGED <<instant, ipIntel, cache, lookups, lookupsMade>>

ChangeIpIntel(enabled, failOpen, ttl) ==
  /\ Turn
  /\ ipIntel' = [enabled |-> enabled, failOpen |-> failOpen, ttl |-> ttl,
                 since |-> IF failOpen = ipIntel.failOpen THEN ipIntel.since ELSE instant]
  /\ ipIntel' # ipIntel
  /\ UNCHANGED <<instant, anonymous, cache, lookups, lookupsMade>>

-----------------------------------------------------------------------------
BeginWith(l, kept) ==
  /\ lookups[l].at \in {"idle", "answered"} /\ lookupsMade < MaxLookups
  /\ lookupsMade' = lookupsMade + 1
  /\ lookups' = [lookups EXCEPT ![l] =
       [began |-> instant,
        at |-> IF ~ipIntel.enabled \/ cache # Nothing THEN "answered" ELSE "primary",
        result |-> IF ~ipIntel.enabled THEN Result("disabled", FALSE)
                   ELSE IF cache # Nothing THEN cache.result ELSE Nothing]]
  /\ cache' = kept
  /\ UNCHANGED <<instant, anonymous, ipIntel, turnsOfIp>>

\* Mutated: a result that is used is kept for as long again.
BeginLookupRenews(l) ==
  BeginWith(l, IF cache = Nothing THEN cache
               ELSE [cache EXCEPT !.until = instant + ipIntel.ttl])

\* lookup: disabled, or the cached result, or a live one.
BeginLookup(l) == BeginWith(l, cache)

\* _lookup_ip_api: an answer, or anything else, which leads to the fallback.
AskPrimary(l) ==
  /\ lookups[l].at = "primary"
  /\ \/ GoOn(l, "store", Result("ip-api", anonymous.is))
     \/ GoOn(l, "fallback", Nothing)
  /\ UNCHANGED <<instant, anonymous, ipIntel, cache, lookupsMade, turnsOfIp>>

\* Mutated: fail closed reports no risk.
FallbackRaisesQuiet ==
  IF ipIntel.failOpen THEN Result("fail_open", FALSE) ELSE Result("fail_closed", FALSE)

\* _lookup_ippriv: an answer, an error status, which is a failed result, or an exception, of which
\* the configuration says what it means.
FallbackRaises ==
  IF ipIntel.failOpen THEN Result("fail_open", FALSE) ELSE Result("fail_closed", TRUE)

AskFallback(l) ==
  /\ lookups[l].at = "fallback"
  /\ \E result \in {Result("ippriv", anonymous.is), Result("ippriv failed", FALSE),
                    FallbackRaises} : GoOn(l, "store", result)
  /\ UNCHANGED <<instant, anonymous, ipIntel, cache, lookupsMade, turnsOfIp>>

\* _set_cached, whatever the result, and whatever another lookup has cached.
StoreResult(l) ==
  /\ lookups[l].at = "store"
  /\ cache' = [result |-> lookups[l].result, until |-> instant + ipIntel.ttl]
  /\ GoOn(l, "answered", lookups[l].result)
  /\ UNCHANGED <<instant, anonymous, ipIntel, lookupsMade, turnsOfIp>>

-----------------------------------------------------------------------------
IpInit ==
  /\ instant = 0 /\ cache = Nothing
  /\ anonymous \in [is : BOOLEAN, since : {0}]
  /\ ipIntel \in [enabled : {TRUE}, failOpen : BOOLEAN, ttl : CacheTtl, since : {0}]
  /\ lookups = [l \in Lookup |-> IdleLookup]
  /\ lookupsMade = 0 /\ turnsOfIp = 0

IpNext ==
  \/ TickInstant \/ ChangeHands
  \/ \E enabled, failOpen \in BOOLEAN, ttl \in CacheTtl : ChangeIpIntel(enabled, failOpen, ttl)
  \/ \E l \in Lookup : BeginLookup(l) \/ AskPrimary(l) \/ AskFallback(l) \/ StoreResult(l)

IpSpec == IpInit /\ [][IpNext]_ipVars

-----------------------------------------------------------------------------
\* A lookup was made so long after an instant that nothing cached before it is left.
LongAfter(l, since) ==
  lookups[l].at = "answered" /\ ~lookups[l].result.slow /\ lookups[l].began >= since + LongestTtl

\* An address that changes hands is found out at the latest when what is cached has expired, whoever
\* else looks it up: a provider's answer is not kept beyond it, however often it is used.  Except
\* one that was slow to be cached.
ChangeFoundOut ==
  \A l \in Lookup :
    /\ LongAfter(l, anonymous.since)
    /\ lookups[l].result.provider \in Answers
    => lookups[l].result.risky = anonymous.is

\* Once fail_open has been off for as long as results are kept, an outage of both providers is never
\* taken for a clean address, the results of earlier outages included.  Except that a fallback
\* which answers with an error status is not an outage for the code.
OutageNotClean ==
  \A l \in Lookup :
    /\ LongAfter(l, ipIntel.since) /\ ~ipIntel.failOpen
    /\ lookups[l].result.provider \in Failures \ {"ippriv failed"}
    => lookups[l].result.risky
=============================================================================
