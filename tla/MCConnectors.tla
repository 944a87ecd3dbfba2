---------------------------- MODULE MCConnectors ----------------------------
(* A small instance of the three connectors for TLC.  They share no state, so
   each is explored on its own while the others rest in an initial state. *)
EXTENDS SolanaHistory, EvmBackfill, HyperliquidBackfill, TLC

VARIABLE connector  \* the connector that runs

connVars == <<connector, vars, evmVars, hlVars>>

MCQueries == <<"incoming", "native">>
MCStartBlocks == {-1, 0}
\* Forks differ in which queries see a block's transaction.
MCMatch == [b \in Blocks |-> [f \in Forks |->
    CASE (b + f) % 3 = 0 -> {"incoming", "native"}
      [] (b + f) % 3 = 1 -> {"incoming"}
      [] OTHER -> {"native"}]]

MCWalletKinds == <<"fill", "funding">>
MCPageCap == [k \in {"fill", "funding", "funding_rate"} |-> IF k = "fill" THEN 4 ELSE 2]

ConnInit ==
    /\ connector \in {"solana", "evm", "hyperliquid"}
    /\ Init /\ EvmInit /\ HlInit
    /\ connector # "solana" => tip = 0
    /\ connector # "evm" => fromBlock = 0
    /\ connector # "hyperliquid" => targetKind = "wallet"

ConnNext ==
    \/ connector = "solana" /\ Next /\ UNCHANGED <<connector, evmVars, hlVars>>
    \/ connector = "evm" /\ EvmNext /\ UNCHANGED <<connector, vars, hlVars>>
    \/ connector = "hyperliquid" /\ HlNext /\ UNCHANGED <<connector, vars, evmVars>>

ConnSpec == ConnInit /\ [][ConnNext]_connVars /\ Fairness /\ EvmFairness /\ HlFairness

\* A target whose jobs keep being asked for is ingested in the end, by each of the
\* connectors: no cursor comes to rest before its history does.
BackfillsDrain == HistoryDrains /\ EvmScanDrains /\ HlEventsDrain
=============================================================================
