---------------------------- MODULE MCNormalize ----------------------------
(* A small instance for TLC of the command line's ingest and normalize, of what
   they make of one payload, and of the configuration that names the endpoints
   the payloads come from.  The three share no variable, so each is explored on
   its own while the others rest in an initial state. *)
EXTENDS CommandLine, TLC

VARIABLE part  \* the part that runs

vars == <<part, dwVars, slVars, pvVars>>

\* Blocks 1 and 2 exist on one network, block 3 on the other.
MCOnChain == {<<"ethereum", "a", 1>>, <<"ethereum", "a", 2>>, <<"base", "a", 3>>}

-----------------------------------------------------------------------------
(* Payloads. *)

\* Wrapped SOL is booked under the symbol of the native balance, and the
\* contracts "t" and "u" under one symbol, with decimals of their own; the mint "m"
\* and the contract "v" are in no table.
MCSymbol == [x \in {"wsol"} |-> "SOL"] @@ [x \in {"t", "u"} |-> "USDC"] @@ [x \in {"m", "v"} |-> x]
MCTableDecimals == [x \in {"t"} |-> 1] @@ [x \in {"wsol", "m", "u", "v"} |-> 2]
MCQuanta == [d \in {0} |-> 4] @@ [d \in {1} |-> 2] @@ [d \in {2} |-> 1]

\* Two token accounts, each missing or held by the wallet or another: one of
\* wrapped SOL, the other of that or of another mint.
AcctStates(i, held) == {<<>>} \cup {<<[acct |-> i, mint |-> h[1], owner |-> h[2], amt |-> h[3]]>> : h \in held}
TokenSides == {s \o t : <<s, t>> \in
                 AcctStates(1, {<<"wsol", "w", 1>>, <<"wsol", "w", 3>>, <<"wsol", "x", 2>>, <<"wsol", "none", 1>>})
                 \X AcctStates(2, {<<"wsol", "w", 1>>, <<"wsol", "w", 3>>, <<"m", "w", 2>>, <<"wsol", "x", 2>>})}

SolanaPayloads ==
    {[chain |-> "solana", failed |-> FALSE, fee |-> 1, parsed |-> m.parsed, keys |-> m.keys,
      loaded |-> m.loaded, pre |-> <<4, 4, 1>>, post |-> l, tpre |-> b, tpost |-> a,
      instrs |-> <<"p", "p">>, inner |-> <<"p">>] :
        m \in {[parsed |-> TRUE, keys |-> <<"w", "x", "y">>, loaded |-> <<>>],
               [parsed |-> TRUE, keys |-> <<"x", "w", "y">>, loaded |-> <<>>],
               [parsed |-> FALSE, keys |-> <<"x">>, loaded |-> <<"y", "w">>]},
        l \in {<<3, 4, 1>>, <<1, 6, 1>>, <<3, 3, 2>>},
        b \in TokenSides, a \in TokenSides}
    \cup
    {[chain |-> "solana", failed |-> TRUE, fee |-> 1, parsed |-> TRUE, keys |-> k,
      loaded |-> <<>>, pre |-> <<4, 4>>, post |-> <<3, 4>>, tpre |-> b, tpost |-> b,
      instrs |-> <<"p">>, inner |-> <<>>] :
        k \in {<<"w", "x">>, <<"x", "w">>}, b \in TokenSides}

Log(t, f, o) == [token |-> t.token, sig |-> t.sig, topics |-> t.topics, from |-> f, to |-> o, data |-> t.data]
Logs == {Log(t, f, o) :
           t \in {[token |-> "t", sig |-> "transfer", topics |-> 3, data |-> Num(2)],
                  [token |-> "u", sig |-> "transfer", topics |-> 3, data |-> Num(1)],
                  [token |-> "v", sig |-> "transfer", topics |-> 3, data |-> Num(1)],
                  [token |-> "t", sig |-> "transfer", topics |-> 4, data |-> Num(0)]},
           f \in {"w", "x"}, o \in {"w", "x"}}
        \cup {Log([token |-> "t", sig |-> "approval", topics |-> 3, data |-> Num(5)], "w", "x")}
Indexed(log, i) == [token |-> log.token, sig |-> log.sig, topics |-> log.topics, from |-> log.from,
                    to |-> log.to, data |-> log.data, index |-> i]
LogLists == {<<Indexed(a, Num(7)), Indexed(b, Num(9))>> : <<a, b>> \in Logs \X Logs}
            \cup {<<Indexed(a, Absent), Indexed(b, Absent)>> : <<a, b>> \in Logs \X Logs}

\* No contract has answered; one of the table has, as the table has it or not;
\* one that is in no table has; an answer makes no sense.
Answers == {<<>>, "u" :> Num(2), "u" :> Num(0), "v" :> Num(1), "v" :> Malformed}

EvmPayloads ==
    {[chain |-> "evm", failed |-> FALSE, single |-> FALSE, decimals |-> "u" :> Num(0), from |-> f, to |-> o,
      value |-> v, gas |-> Num(1), logs |-> l] :
        f \in {"w", "x"}, o \in {"w", "x"}, v \in {Num(0), Num(3)}, l \in LogLists}
    \cup
    {[chain |-> "evm", failed |-> TRUE, single |-> FALSE, decimals |-> <<>>, from |-> f, to |-> o,
      value |-> v, gas |-> Num(1), logs |-> <<>>] :
        f \in {"w", "x"}, o \in {"w", "x"}, v \in {Num(3), Malformed}}
    \cup
    {[chain |-> "evm", failed |-> FALSE, single |-> TRUE, decimals |-> d, from |-> "none", to |-> "none",
      value |-> Num(0), gas |-> Num(0), logs |-> <<Indexed(a, Absent)>>] : a \in Logs, d \in Answers}

HlPayloads ==
    {[chain |-> "hyperliquid", type |-> "fill", coin |-> "BTC", side |-> s, sz |-> z, px |-> x,
      pnl |-> n, fee |-> f, feeToken |-> t, usdc |-> Absent] :
        s \in {"A", "B"}, z \in {Num(2), Malformed}, x \in {Num(5), Malformed},
        n \in {Absent, Malformed, Num(0), Num(3), Num(-2)}, f \in {Absent, Malformed, Num(1), Num(-1)},
        t \in {"none", "USDC", "PURR"}}
    \cup
    {[chain |-> "hyperliquid", type |-> y, coin |-> "BTC", side |-> "A", sz |-> z, px |-> Num(5),
      pnl |-> Absent, fee |-> Absent, feeToken |-> "none", usdc |-> u] :
        y \in {"funding", "deposit", "withdraw", "liquidation", "funding_rate"},
        z \in {Num(0), Num(1)}, u \in {Malformed, Num(0), Num(2), Num(-2)}}

MCPayloads == SolanaPayloads \cup EvmPayloads \cup HlPayloads

\* A payload for the parts that do not look at it.
RestingPayload == CHOOSE p \in HlPayloads : p.type = "funding_rate"

-----------------------------------------------------------------------------
(* Configurations: the legacy fields only; networks without providers, one of
   them a network that is always synthesized; providers without networks; both,
   with an endpoint of the wrong chain first; both, with an endpoint of another
   network; both, with an unknown capability. *)

MCFamilies == [n \in {"solana-mainnet", "solana-devnet"} |-> "solana"]
              @@ [n \in {"ethereum-mainnet", "base-mainnet"} |-> "evm"]
              @@ [n \in {"hypercore-mainnet", "hypercore-testnet"} |-> "hyperliquid"]

MCServes == [u \in {"sol", "sol2", "grpc"} |-> "solana-mainnet"]
            @@ [u \in {"dev"} |-> "solana-devnet"]
            @@ [u \in {"eth", "eth2"} |-> "ethereum-mainnet"]
            @@ [u \in {"base"} |-> "base-mainnet"]
            @@ [u \in {"hl_rest", "hl_ws"} |-> "hypercore-mainnet"]
            @@ [u \in {"hlt_ws"} |-> "hypercore-testnet"]

\* The names the program knows, and a capability it does not.
MCNames == DOMAIN MCFamilies \cup ProviderKinds \cup Capabilities \cup {"history"}

Conf(networks, providers, grpc) ==
    [networks |-> networks, providers |-> providers, grpc |-> grpc,
     solanaRpc |-> "sol", evmRpc |-> "eth", trace |-> providers # <<>>,
     traceRpc |-> IF grpc = "grpc" THEN "eth2" ELSE "none"]

MCConfigs ==
    {Conf(<<>>, <<>>, "none"),
     Conf("solana-devnet" :> TRUE @@ "ethereum-mainnet" :> FALSE @@ "hypercore-testnet" :> TRUE,
          <<>>, "grpc"),
     Conf(<<>>,
          <<Provider("ethereum-mainnet", "rpc", "eth2", 0, {"historical"}),
            Provider("base-mainnet", "rpc", "none", 1, {}),
            Provider("hypercore-mainnet", "rest", "hl_rest", 0, {"stream"})>>, "grpc"),
     Conf("base-mainnet" :> TRUE @@ "ethereum-mainnet" :> FALSE @@ "solana-devnet" :> TRUE
          @@ "hypercore-testnet" :> TRUE,
          <<Provider("base-mainnet", "rpc", "base", 2, {"logs", "historical"}),
            Provider("base-mainnet", "rpc", "eth", 1, {"historical"}),
            Provider("solana-devnet", "rpc", "sol2", 3, {"historical"}),
            Provider("solana-devnet", "rpc", "dev", 2, {"historical", "stream"}),
            Provider("hypercore-testnet", "ws", "hlt_ws", 1, {"stream"})>>, "none"),
     Conf("base-mainnet" :> TRUE @@ "solana-mainnet" :> TRUE,
          <<Provider("base-mainnet", "rpc", "base", 1, {"logs"}),
            Provider("solana-mainnet", "rpc", "dev", 1, {"historical"})>>, "none"),
     Conf("base-mainnet" :> TRUE,
          <<Provider("base-mainnet", "rpc", "base", 1, {"history"})>>, "none")}

-----------------------------------------------------------------------------
Init ==
    /\ part \in {"commands", "payload", "config"}
    /\ DwInit /\ SlInit /\ PvInit
    /\ part # "payload" => payload = RestingPayload
    /\ part # "config" => config = Conf(<<>>, <<>>, "none")

Next ==
    \/ part = "commands" /\ DwNext /\ UNCHANGED <<part, slVars, pvVars>>
    \/ part = "payload" /\ SlNext /\ UNCHANGED <<part, dwVars, pvVars>>
    \/ part = "config" /\ PvNext /\ UNCHANGED <<part, dwVars, slVars>>

Spec == Init /\ [][Next]_vars

MCSymmetry == Permutations(Procs)
=============================================================================
