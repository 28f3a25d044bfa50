------------------------------ MODULE PolicyChain ------------------------------
(***************************************************************************)
(* ChainedPolicyBackend over Redis, HTTP, config and defaults, for one     *)
(* policy in one context.  Lookups await backend after backend while the   *)
(* policy changes, is cached, and Redis and the service come and go.       *)
(***************************************************************************)
EXTENDS Integers, Sequences

CONSTANTS
    Lookups,         \* calls of ChainedPolicyBackend.get_policy()
    Ttl,             \* ttl of RedisPolicyBackend
    ConfigHas,       \* the orchestrator's config names the policy
    MaxVersion,      \* bound: versions of the policy
    MaxClock         \* bound: the clock stops there

\* SETEX refuses a ttl of 0.
ASSUME PolicyChainAssumption == Ttl \in Nat \ {0} /\ MaxVersion \in Nat /\ MaxClock \in Nat

VARIABLES
    clock,
    version,         \* the policy in force at the service
    replaced,        \* history: old versions, and when each was replaced
    cache,           \* the Redis key: at most one [version, expires]
    connection,      \* _redis: "none", "untested" until the ping, "open"
    lookup
chainVars == <<clock, version, replaced, cache, connection, lookup>>

Backends == <<"redis", "http", "config", "default">>
Source(l) == Backends[lookup[l].backend]

PolicyChainTypeOK ==
    /\ clock \in 0..MaxClock /\ version \in 0..MaxVersion
    /\ connection \in {"none", "untested", "open"}
    /\ \A e \in cache : e.version \in 0..version /\ e.expires <= clock + Ttl
    /\ \A l \in Lookups :
          /\ lookup[l].at \in {"new", "asking", "pinging", "answered"}
          /\ lookup[l].backend \in DOMAIN Backends /\ lookup[l].version \in -1..version

PolicyChainInit ==
    /\ clock = 0 /\ version = 0 /\ replaced = <<>> /\ cache = {} /\ connection = "none"
    /\ lookup = [l \in Lookups |-> [at |-> "new", backend |-> 1, version |-> -1, began |-> 0]]

Cached == {e.version : e \in {c \in cache : clock < c.expires}}

GetPolicyBegins(l) ==
    /\ lookup[l].at = "new"
    /\ lookup' = [lookup EXCEPT ![l].at = "asking", ![l].began = clock]
    /\ UNCHANGED <<clock, version, replaced, cache, connection>>

\* What ChainedPolicyBackend does with a backend's answer, {} if that is empty.
Answered(l, versions) ==
    lookup' = [lookup EXCEPT ![l] =
        IF versions # {}
        THEN [lookup[l] EXCEPT !.at = "answered", !.version = CHOOSE v \in versions : TRUE]
        ELSE [lookup[l] EXCEPT !.at = "asking", !.backend = lookup[l].backend + 1]]

\* _ensure_connection(): another lookup may use the client before its ping.
EnsureConnection(l) ==
    /\ lookup[l].at = "asking" /\ Source(l) = "redis" /\ connection = "none"
    /\ connection' = "untested" /\ lookup' = [lookup EXCEPT ![l].at = "pinging"]
    /\ UNCHANGED <<clock, version, replaced, cache>>

Ping(l) ==
    /\ lookup[l].at = "pinging"
    /\ \E up \in BOOLEAN :
          /\ connection' = IF ~up THEN "none" ELSE IF connection = "untested" THEN "open" ELSE connection
          /\ IF up /\ connection # "none"
             THEN lookup' = [lookup EXCEPT ![l].at = "asking"]
             ELSE Answered(l, {})
    /\ UNCHANGED <<clock, version, replaced, cache>>

AskRedis(l) ==
    /\ lookup[l].at = "asking" /\ Source(l) = "redis" /\ connection # "none"
    /\ \E up \in BOOLEAN : Answered(l, IF up THEN Cached ELSE {})
    /\ UNCHANGED <<clock, version, replaced, cache, connection>>

AskHttp(l) ==
    /\ lookup[l].at = "asking" /\ Source(l) = "http"
    /\ \E up \in BOOLEAN : Answered(l, IF up THEN {version} ELSE {})
    /\ UNCHANGED <<clock, version, replaced, cache, connection>>

\* Config and defaults do not change with the service; -1 stands for theirs.
AskLocal(l) ==
    /\ lookup[l].at = "asking" /\ Source(l) \in {"config", "default"}
    /\ Answered(l, IF Source(l) = "default" \/ ConfigHas THEN {-1} ELSE {})
    /\ UNCHANGED <<clock, version, replaced, cache, connection>>

\* set_policy(), by whoever caches the policy in force
SetPolicy_mut_noExpiry ==
    /\ connection # "none"
    /\ cache' = {[version |-> version, expires |-> MaxClock + 1]}
    /\ UNCHANGED <<clock, version, replaced, connection, lookup>>
SetPolicy ==
    /\ connection # "none"
    /\ cache' = {[version |-> version, expires |-> clock + Ttl]}
    /\ UNCHANGED <<clock, version, replaced, connection, lookup>>

CloseRedis ==
    /\ connection = "open" /\ connection' = "none"
    /\ UNCHANGED <<clock, version, replaced, cache, lookup>>

PolicyChanges ==
    /\ version < MaxVersion /\ version' = version + 1
    /\ replaced' = Append(replaced, clock)
    /\ UNCHANGED <<clock, cache, connection, lookup>>

ClockTick ==
    clock < MaxClock /\ clock' = clock + 1
    /\ UNCHANGED <<version, replaced, cache, connection, lookup>>

PolicyChainNext ==
    \/ \E l \in Lookups : GetPolicyBegins(l) \/ EnsureConnection(l) \/ Ping(l) \/ AskRedis(l)
                          \/ AskHttp(l) \/ AskLocal(l)
    \/ SetPolicy \/ CloseRedis \/ PolicyChanges \/ ClockTick

-----------------------------------------------------------------------------
(* Properties *)

\* Whatever changes, expires or fails between the awaits of a lookup, its answer
\* was in force not longer than the cache's ttl before the lookup began.
AnswersAreRecent ==
    \A l \in Lookups : lookup[l].at = "answered" /\ lookup[l].version \in 0..(version - 1) =>
        replaced[lookup[l].version + 1] > lookup[l].began - Ttl
=============================================================================
