----------------------------- MODULE RateLimiter -----------------------------
(***************************************************************************)
(* The per-key token buckets of the HTTP API (api/src/main.rs).  Time is   *)
(* counted in the ticks in which one token is restored.                    *)
(***************************************************************************)
EXTENDS Integers, FiniteSets

CONSTANTS
    Clients,     \* hashed API keys
    Capacity,    \* RATE_LIMIT_CAPACITY
    EvictAfter,  \* RATE_LIMIT_EVICT_AFTER, in ticks
    MaxBuckets,  \* RATE_LIMIT_MAX_BUCKETS
    MaxNow       \* bound: the clock

\* Constants of the program: 60 tokens are restored in 6 s, far below the hour
\* after which a bucket may be evicted.
ASSUME LimiterAssumption ==
    /\ Capacity \in Nat \ {0} /\ EvictAfter \in Nat /\ MaxBuckets \in Nat /\ MaxNow \in Nat
    /\ EvictAfter >= Capacity

VARIABLES
    now,      \* Instant::now()
    tracked,  \* keys of the map
    tokens,   \* tokens[k]: tokens of a bucket when it was last used
    used,     \* used[k]: last_used and last_refill, always equal
    start,    \* history: where an observer's window starts; -1 before
    since     \* since[k]: requests admitted since then

limVars == <<now, tracked, tokens, used, start, since>>

LimInit ==
    /\ now = 0
    /\ tracked = {}
    /\ tokens = [k \in Clients |-> Capacity]
    /\ used = [k \in Clients |-> 0]
    /\ start = -1
    /\ since = [k \in Clients |-> 0]

\* Mutant: every bucket is dropped when the map is full.
KeptNone == IF Cardinality(tracked) >= MaxBuckets THEN {} ELSE tracked

\* The buckets that survive the eviction of the stale ones.
Kept == IF Cardinality(tracked) >= MaxBuckets
        THEN {k \in tracked : used[k] > now - EvictAfter} ELSE tracked

\* Tokens of a bucket after its refill.
Refill(k) == IF tokens[k] + (now - used[k]) < Capacity THEN tokens[k] + (now - used[k]) ELSE Capacity

\* try_acquire: evict, find or insert, refill, and take a token if there is one.
TryAcquire(k) ==
    LET level == IF k \in Kept THEN Refill(k) ELSE Capacity
    IN /\ tracked' = Kept \cup {k}
       /\ used' = [used EXCEPT ![k] = now]
       /\ tokens' = [tokens EXCEPT ![k] = IF level >= 1 THEN level - 1 ELSE level]
       /\ since' = [since EXCEPT ![k] = IF level >= 1 /\ start >= 0 THEN @ + 1 ELSE @]
       /\ UNCHANGED <<now, start>>

Tick == now < MaxNow /\ now' = now + 1 /\ UNCHANGED <<tracked, tokens, used, start, since>>

\* The observer opens its window.
Observe == start = -1 /\ start' = now /\ UNCHANGED <<now, tracked, tokens, used, since>>

LimNext == Tick \/ Observe \/ \E k \in Clients : TryAcquire(k)

LimSpec == LimInit /\ [][LimNext]_limVars

-----------------------------------------------------------------------------
(* Properties *)

LimTypeOK ==
    /\ now \in Nat /\ tracked \subseteq Clients
    /\ tokens \in [Clients -> 0..Capacity]
    /\ used \in [Clients -> Nat] /\ \A k \in Clients : used[k] <= now
    /\ start \in Nat \cup {-1} /\ start <= now
    /\ since \in [Clients -> Nat]

\* "requests allowed per key before throttling" and "tokens restored per second": in
\* every window no key has more requests admitted than the capacity and the tokens
\* restored in it, whatever is evicted and inserted again meanwhile.
RateIsBounded == start >= 0 => \A k \in Clients : since[k] <= Capacity + (now - start)

-----------------------------------------------------------------------------
(* The inductive invariant: what was admitted and what is left fit into the window. *)

\* Tokens a request of the key finds.
Level(k) == IF k \in tracked THEN Refill(k) ELSE Capacity

\* What a key was admitted in the window and what it could still be admitted now fit
\* into the capacity and the tokens restored: eviction gives nothing away.
LimInv ==
    /\ LimTypeOK
    /\ start = -1 => since = [k \in Clients |-> 0]
    /\ start >= 0 => \A k \in Clients : since[k] + Level(k) <= Capacity + (now - start)
=============================================================================
