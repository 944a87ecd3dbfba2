------------------------------ MODULE Providers ------------------------------
(***************************************************************************)
(* From the configuration file to the endpoint a worker reads: the         *)
(* effective provider configuration (core/src/config.rs), the registry     *)
(* built from it at start (core/src/provider.rs), the preflight checks of  *)
(* the handlers that accept work (api/src/main.rs), and the endpoint each  *)
(* connector takes from the registry of the process that runs the work.    *)
(*                                                                         *)
(* Accepted work is durable and the registry is not: a process restarted   *)
(* with another configuration runs what its predecessor accepted.  Retries *)
(* of a job are those of IngestionJobs: here a failed attempt leaves the   *)
(* work as it is, to be tried again.                                       *)
(***************************************************************************)
EXTENDS Naturals, Sequences, SequencesExt, FiniteSets

CONSTANTS
    Configs,      \* the configurations an operator installs
    Families,     \* Families[n]: chain_family of a row of the networks table
    Serves,       \* Serves[u]: the network the endpoint u really serves
    NoUrl,        \* an optional endpoint that is not set, or an empty string
    Names,        \* names of networks, kinds and capabilities a file may hold
    MaxKnown,     \* bound: targets registered
    MaxWork       \* bound: pieces of work accepted

ASSUME ProvidersAssumption ==
    /\ Families \in [DOMAIN Families -> {"solana", "evm", "hyperliquid"}]
    /\ {"solana-mainnet", "ethereum-mainnet", "hypercore-mainnet"} \subseteq DOMAIN Families
    /\ NoUrl \notin DOMAIN Serves /\ MaxKnown \in Nat /\ MaxWork \in Nat

Urls == DOMAIN Serves \cup {NoUrl}

VARIABLES
    up,        \* the process runs
    config,    \* its configuration
    registry,  \* its ProviderRegistry
    known,     \* rows <<network, kind>> of index_targets
    work       \* ingestion jobs and stream subscriptions: the endpoint they read,
               \* and as history the configuration they were accepted under, the
               \* one they ran under, and whether an attempt under the former
               \* found no endpoint to read

pvVars == <<up, config, registry, known, work>>

-----------------------------------------------------------------------------
(* The effective configuration. *)

ProviderKinds == {"rpc", "grpc", "ws", "trace", "rest"}
Capabilities == {"historical", "balances", "stream", "logs", "receipts", "debug_trace_transaction"}
Provider(n, k, u, p, c) == [network |-> n, kind |-> k, url |-> u, priority |-> p, caps |-> c]

HlInfoUrl == "hl_rest"
HlWsUrl == "hl_ws"

AlwaysEnabled == {"solana-mainnet", "ethereum-mainnet", "hypercore-mainnet"}

\* What the file format lets an operator write: any name of a network, a kind and
\* a capability, known or not, a priority that is a u32, and no section at all.
ProviderEntries == [network : Names, kind : Names, url : Urls, priority : Nat, caps : SUBSET Names]

ASSUME ConfigsAssumption ==
    /\ ProviderKinds \cup Capabilities \cup AlwaysEnabled \subseteq Names
    /\ {HlInfoUrl, HlWsUrl} \subseteq DOMAIN Serves
    /\ \A c \in Configs :
          /\ c.networks \in [DOMAIN c.networks -> BOOLEAN]
          /\ c.providers \in Seq(ProviderEntries)
          /\ {c.solanaRpc, c.evmRpc, c.grpc, c.traceRpc} \subseteq Urls

FirstOf(a, b) == IF a = NoUrl THEN b ELSE a

\* The entries made up from the legacy fields of a configuration.
Synthesized(c) ==
    <<Provider("solana-mainnet", "rpc", c.solanaRpc, 1, {"historical", "balances"})>>
    \o (IF c.grpc = NoUrl THEN <<>>
        ELSE <<Provider("solana-mainnet", "grpc", c.grpc, 1, {"stream"})>>)
    \o <<Provider("ethereum-mainnet", "rpc", c.evmRpc, 1, {"historical", "logs", "receipts", "balances"})>>
    \o (IF c.trace
        THEN <<Provider("ethereum-mainnet", "trace", FirstOf(c.traceRpc, c.evmRpc), 2, {"debug_trace_transaction"})>>
        ELSE <<>>)
    \o <<Provider("hypercore-mainnet", "rest", HlInfoUrl, 1, {"historical"}),
         Provider("hypercore-mainnet", "ws", HlWsUrl, 1, {"stream"})>>

\* An entry before position i has its network, kind and url.
Dominated(all, i) ==
    \E j \in 1 .. (i - 1) : /\ all[j].network = all[i].network /\ all[j].kind = all[i].kind
                           /\ all[j].url = all[i].url

\* The positions of the synthesized entries and of the written ones that are
\* merged with them: a written entry that repeats another is left out.
Merged(c) ==
    LET all == Synthesized(c) \o c.providers
    IN  {i \in DOMAIN all : i \in DOMAIN Synthesized(c) \/ ~Dominated(all, i)}

\* Both sections given: they replace the synthesized entries.
Structured(c) == DOMAIN c.networks # {} /\ c.providers # <<>>

EffectiveNetworks(c) ==
    IF Structured(c) THEN {n \in DOMAIN c.networks : c.networks[n]}
    ELSE AlwaysEnabled \cup {n \in DOMAIN c.networks : c.networks[n]}

\* The entries in force, each at its position.
EffectiveProviders(c) ==
    IF Structured(c) THEN c.providers
    ELSE [i \in Merged(c) |-> (Synthesized(c) \o c.providers)[i]]

-----------------------------------------------------------------------------
(* The registry. *)

WellFormed(p) ==
    p.url # NoUrl /\ p.caps # {} /\ p.caps \subseteq Capabilities /\ p.kind \in ProviderKinds

\* sort_by_key is stable: a provider goes behind those of its own priority that
\* are written before it.
Precedes(ps, i, j) == \/ ps[i].priority < ps[j].priority
                      \/ ps[i].priority = ps[j].priority /\ i < j

\* The entries at some positions, the smallest priority first.
ByPriority(ps, at) ==
    [k \in 1 .. Cardinality(at) |->
        ps[CHOOSE i \in at : Cardinality({j \in at : Precedes(ps, j, i)}) = k - 1]]

FromConfig(c) ==
    [enabled |-> EffectiveNetworks(c),
     providers |-> [n \in EffectiveNetworks(c) |->
        LET ps == EffectiveProviders(c)
        IN  ByPriority(ps, {i \in DOMAIN ps : ps[i].network = n})]]

\* Providers of networks that are not enabled are skipped before they are checked.
Accepts(c) ==
    \A p \in ToSet(EffectiveProviders(c)) : p.network \in EffectiveNetworks(c) => WellFormed(p)

\* The URL of the first provider of n with the capability, or NoUrl.
Resolve(r, n, cap) ==
    LET ps == r.providers[n]
        i == SelectInSeq(ps, LAMBDA p : cap \in p.caps)
    IN  IF i = 0 THEN NoUrl ELSE ps[i].url

\* NetworkContext::from_registry gives a context.
Configured(r, n) == n \in r.enabled

Url(r, n, cap) == IF Configured(r, n) THEN Resolve(r, n, cap) ELSE NoUrl

-----------------------------------------------------------------------------
(* Targets and the connectors that serve them. *)

Kinds == {"wallet", "contract", "program", "account", "topic_filter", "market", "pool", "protocol"}

ValidForChainFamily(kind, family) ==
    \/ kind = "wallet"
    \/ kind \in {"contract", "topic_filter"} /\ family = "evm"
    \/ kind = "program" /\ family = "solana"
    \/ kind \in {"account", "pool", "protocol"} /\ family # "hyperliquid"
    \/ kind = "market" /\ family = "hyperliquid"

\* An address for the simple kinds, a filter for the others.
ValidateTarget(kind, family, address, filter) ==
    /\ ValidForChainFamily(kind, family)
    /\ IF kind \in {"topic_filter", "protocol"} THEN filter ELSE address

\* target_supports_public_ingest
SupportsPublicIngest(kind, family) ==
    kind = "wallet" \/ (kind = "market" /\ family = "hyperliquid")

\* The kinds a connector's backfill serves; the worker sends it no others.
ConnectorServes(kind, family) ==
    \/ kind = "wallet"
    \/ kind = "market" /\ family = "hyperliquid"
    \/ kind \in {"contract", "topic_filter"} /\ family = "evm"

DefaultNetworkOf(family) ==
    CASE family = "solana" -> "solana-mainnet"
      [] family = "evm" -> "ethereum-mainnet"
      [] family = "hyperliquid" -> "hypercore-mainnet"

\* Mutant: a network that is not configured takes the endpoint of the legacy fields.
BackfillUrlLegacy(r, n, c) ==
    CASE Families[n] = "solana" -> FirstOf(Url(r, n, "historical"), c.solanaRpc)
      [] Families[n] = "evm" -> FirstOf(Url(r, n, "historical"), c.evmRpc)
      [] Families[n] = "hyperliquid" -> FirstOf(Url(r, n, "historical"), HlInfoUrl)

\* from_network_context: the endpoint of the connector's adapter.
BackfillUrl(r, n, c) ==
    CASE ~Configured(r, n) -> NoUrl
      [] Configured(r, n) /\ Families[n] = "solana" -> Url(r, n, "historical")
      [] Configured(r, n) /\ Families[n] = "evm" ->
            FirstOf(Url(r, n, "historical"), Url(r, n, "logs"))
      [] Configured(r, n) /\ Families[n] = "hyperliquid" ->
            FirstOf(Url(r, n, "historical"), HlInfoUrl)

StreamUrl(r, n, c) ==
    FirstOf(Url(r, n, "stream"), IF Families[n] = "solana" THEN c.grpc ELSE HlWsUrl)

\* confirmed_head: an EVM endpoint is asked for its chain before anything is read.
RightChain(n, u) == Families[n] = "evm" => Serves[u] = n

-----------------------------------------------------------------------------
\* Types; and the accepted streams are of chain families that have a stream.
PvTypeOK ==
    /\ up \in BOOLEAN /\ config \in Configs
    /\ registry.enabled = DOMAIN registry.providers
    /\ \A n \in registry.enabled : registry.providers[n] \in Seq(ProviderEntries)
    /\ known \subseteq (DOMAIN Families) \X Kinds
    /\ work \subseteq [what : {"job", "stream"}, network : DOMAIN Families, kind : Kinds, chainOnly : BOOLEAN,
                     url : Urls, asked : Configs, ran : Configs, missed : BOOLEAN]
    /\ \A w \in work : w.what = "stream" => Families[w.network] # "evm"

PvInit ==
    /\ up = FALSE
    /\ config \in Configs
    /\ registry = [enabled |-> {}, providers |-> <<>>]
    /\ known = {} /\ work = {}

\* main: a configuration that does not make a registry stops the start.
StartApi ==
    \E c \in Configs :
        /\ ~up /\ Accepts(c)
        /\ up' = TRUE /\ config' = c /\ registry' = FromConfig(c)
        /\ UNCHANGED <<known, work>>

\* A crash or a deployment.  What runs is taken up again from its row.
StopApi ==
    /\ up /\ up' = FALSE
    /\ work' = {[w EXCEPT !.url = IF w.what = "stream" THEN NoUrl ELSE @,
                          !.ran = IF w.what = "stream" THEN w.asked ELSE @] : w \in work}
    /\ UNCHANGED <<config, registry, known>>

RegisterTarget ==
    \E n \in DOMAIN Families, kind \in Kinds, address \in BOOLEAN, filter \in BOOLEAN :
        /\ up /\ ValidateTarget(kind, Families[n], address, filter)
        /\ Cardinality(known) < MaxKnown /\ known' = known \cup {<<n, kind>>}
        /\ UNCHANGED <<up, config, registry, work>>

Accepted(what, n, kind, chainOnly) ==
    /\ Cardinality(work) < MaxWork
    /\ work' = work \cup {[what |-> what, network |-> n, kind |-> kind, chainOnly |-> chainOnly,
                           url |-> NoUrl, asked |-> config, ran |-> config, missed |-> FALSE]}
    /\ UNCHANGED <<up, config, registry, known>>

TriggerTargetIngest ==
    \E t \in known :
        /\ up /\ SupportsPublicIngest(t[2], Families[t[1]])
        /\ Configured(registry, t[1])
        /\ Accepted("job", t[1], t[2], FALSE)

\* A network that is named is checked against the registry, a chain is not.
TriggerIngest ==
    \/ \E n \in DOMAIN Families : /\ up /\ Configured(registry, n)
                                  /\ Accepted("job", n, "wallet", FALSE)
    \/ \E f \in {"solana", "evm", "hyperliquid"} :
           up /\ Accepted("job", DefaultNetworkOf(f), "wallet", TRUE)

\* start_stream refuses what no stream task could connect to.
StreamPreflight(n) ==
    /\ Families[n] # "evm"
    /\ Families[n] = "solana" => Url(registry, n, "stream") # NoUrl \/ config.grpc # NoUrl

StartStream ==
    \/ \E n \in DOMAIN Families : /\ up /\ Configured(registry, n) /\ StreamPreflight(n)
                                  /\ Accepted("stream", n, "wallet", FALSE)
    \/ \E f \in {"solana", "hyperliquid"} :
           /\ up /\ StreamPreflight(DefaultNetworkOf(f))
           /\ Accepted("stream", DefaultNetworkOf(f), "wallet", TRUE)

\* run_connector_backfill, or a stream task.
EndpointOf(w) ==
    IF w.what = "stream" THEN StreamUrl(registry, w.network, config)
    ELSE IF ConnectorServes(w.kind, Families[w.network]) THEN BackfillUrl(registry, w.network, config)
    ELSE NoUrl

Reads(w, u) == u # NoUrl /\ (w.what = "job" => RightChain(w.network, u))

RunWork ==
    \E w \in work :
        LET u == EndpointOf(w)
        IN  /\ up /\ w.url = NoUrl
            /\ work' = (work \ {w}) \cup
                 {IF Reads(w, u) THEN [w EXCEPT !.url = u, !.ran = config]
                  ELSE [w EXCEPT !.missed = @ \/ config = w.asked]}
            /\ UNCHANGED <<up, config, registry, known>>

PvNext == StartApi \/ StopApi \/ RegisterTarget \/ TriggerTargetIngest \/ TriggerIngest \/ StartStream \/ RunWork

PvSpec == PvInit /\ [][PvNext]_pvVars

-----------------------------------------------------------------------------
Lists(c, n, cap, u) ==
    n \in EffectiveNetworks(c)
    /\ \E p \in ToSet(EffectiveProviders(c)) : p.network = n /\ p.url = u /\ cap \in p.caps

Listed(c, n, cap) == \E u \in DOMAIN Serves : Lists(c, n, cap, u)

\* The registry of a running process follows its configuration: a network
\* written as disabled is off, unless it is one of the three that are always
\* synthesized because a section is missing; and a capability resolves to a
\* provider listed for that network, of the best priority there is, whatever
\* the order of the file.
RegistryFollowsConfig ==
    up =>
    /\ \A n \in DOMAIN config.networks :
           Configured(registry, n) <=> \/ config.networks[n]
                                       \/ ~Structured(config) /\ n \in AlwaysEnabled
    /\ \A n \in registry.enabled, cap \in Capabilities :
           LET of == {p \in ToSet(EffectiveProviders(config)) : p.network = n /\ cap \in p.caps}
               u == Resolve(registry, n, cap)
           IN  IF of = {} THEN u = NoUrl
               ELSE \E p \in of : p.url = u /\ \A q \in of : p.priority <= q.priority

\* Data is read from the network it is stored under.  An endpoint that serves
\* another one is read only for Solana and Hyperliquid, whose connectors do not
\* ask the endpoint what it serves, and only when the configuration in force
\* lists it for that network, or lists none and the connector's own default
\* (the Hyperliquid mainnet, the legacy gRPC endpoint) takes its place.
OwnNetwork(w) ==
    LET cap == IF w.what = "stream" THEN "stream" ELSE "historical"
    IN  w.url # NoUrl /\ Serves[w.url] # w.network =>
        /\ Families[w.network] # "evm"
        /\ \/ Lists(w.ran, w.network, cap, w.url)
           \/ /\ ~Listed(w.ran, w.network, cap)
              /\ \/ Families[w.network] = "hyperliquid" /\ w.url \in {HlInfoUrl, HlWsUrl}
                 \/ w.what = "stream" /\ Families[w.network] = "solana" /\ w.url = w.ran.grpc

FetchFromOwnNetwork == \A w \in work : OwnNetwork(w)

\* A preflight check speaks for the worker: work accepted under a configuration
\* finds its endpoint under that configuration.  A stream always does; a job
\* misses only when it named a chain whose network is off, or its network has no
\* provider of history, or an EVM endpoint serves another chain.
MayMiss(w) ==
    /\ w.what = "job"
    /\ \/ w.chainOnly /\ w.network \notin EffectiveNetworks(w.asked)
       \/ ~Listed(w.asked, w.network, "historical")
       \/ /\ Families[w.network] = "evm"
          /\ \E u \in DOMAIN Serves :
                Lists(w.asked, w.network, "historical", u) /\ Serves[u] # w.network

PreflightHolds == \A w \in work : w.missed => MayMiss(w)

\* Work is served as the configuration says, over restarts with another one: the
\* registry follows the file, what a preflight accepted finds its endpoint, and
\* the endpoint read is one of the network the data is stored under.
ProvidersFollowConfig == RegistryFollowsConfig /\ FetchFromOwnNetwork /\ PreflightHolds

-----------------------------------------------------------------------------
\* What a preflight check has established for a piece of work under the
\* configuration it was accepted under.
Preflighted(w) ==
    /\ w.what = "job" => /\ SupportsPublicIngest(w.kind, Families[w.network])
                         /\ w.chainOnly \/ w.network \in EffectiveNetworks(w.asked)
    /\ w.what = "stream" /\ Families[w.network] = "solana" =>
           Url(FromConfig(w.asked), w.network, "stream") # NoUrl \/ w.asked.grpc # NoUrl

\* The inductive invariant.
PvInv ==
    /\ PvTypeOK
    /\ up => Accepts(config) /\ registry = FromConfig(config)
    /\ \A w \in work : Preflighted(w) /\ OwnNetwork(w) /\ (w.missed => MayMiss(w))
=============================================================================
