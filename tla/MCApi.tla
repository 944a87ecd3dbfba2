------------------------------- MODULE MCApi -------------------------------
(* A small instance for TLC of the HTTP API: the requests of tenants, the rate
   limiter in front of them, and the analytics that requests are answered with.
   They share no variable, so each is explored on its own while the others rest
   in their initial state. *)
EXTENDS ApiService, TLC

CONSTANTS k1, k2, t1, t2, a1, a2

VARIABLE part  \* the part that runs

vars == <<part, serviceVars>>

\* Each tenant has a key, a target with a transaction and an ingestion job; the
\* second also has a materialization run and an export, and its transaction moves
\* the first one's wallet too.
MCInitKeys == [k \in Keys |-> CASE k = k1 -> t1 [] k = k2 -> t2 [] OTHER -> Admin]
MCTxAddrs == [x \in Txs |-> IF x = 1 THEN {a1} ELSE {a1, a2}]
MCInitTgts == <<Row(t1, a1), Row(t2, a2)>>
MCInitJobs == <<Job("ingest", 1, a1, t1), Job("ingest", 2, a2, t2),
                Job("normalize", 2, a2, t2), Job("export", 2, a2, t2)>>
MCInitIndexed == {<<1, 1>>, <<1, 2>>, <<2, 2>>}

-----------------------------------------------------------------------------
(* Hyperliquid fills and funding. *)

Fill(w, c, t, d, n, has, p) ==
    [wallet |-> w, coin |-> c, time |-> t, dir |-> d, size |-> n, px |-> 2, has |-> has, pnl |-> p, fee |-> 1]
MCFillOf == <<Fill("v", "BTC", 1, "Open", 1, FALSE, 0), Fill("v", "BTC", 2, "Close", 1, TRUE, 3),
              Fill("u", "ETH", 1, "none", 1, TRUE, 0)>>
MCPaymentOf == <<[wallet |-> "u", coin |-> "BTC", time |-> 2, amt |-> 2]>>

-----------------------------------------------------------------------------
(* Ledger rows, decoded events and pool snapshots. *)

MCLedgerOf == <<[net |-> "n1", asset |-> "SOL", type |-> "transfer", amt |-> 3, cp |-> "x"],
                [net |-> "n1", asset |-> "SOL", type |-> "transfer", amt |-> -1, cp |-> "x"],
                [net |-> "n2", asset |-> "ETH", type |-> "fee", amt |-> -1, cp |-> "nobody"],
                [net |-> "n2", asset |-> "ETH", type |-> "transfer", amt |-> 0, cp |-> "y"],
                [net |-> "n2", asset |-> "t", type |-> "transfer", amt |-> 2, cp |-> "z"]>>
MCEventOf == <<[contract |-> "c", name |-> {"swap", "transfer"}, at |-> 2, who |-> {"x"}],
               [contract |-> "c", name |-> {}, at |-> 1, who |-> {"x", "y"}],
               [contract |-> "d", name |-> {"deposit"}, at |-> 1, who |-> {}]>>
MCSnapshotOf == <<[pool |-> "p", protocol |-> "c", at |-> 1, known |-> TRUE, tvl |-> 5],
                  [pool |-> "p", protocol |-> "c", at |-> 2, known |-> TRUE, tvl |-> 7],
                  [pool |-> "q", protocol |-> "c", at |-> 2, known |-> FALSE, tvl |-> 0],
                  [pool |-> "q", protocol |-> "d", at |-> 2, known |-> TRUE, tvl |-> 2]>>

-----------------------------------------------------------------------------
Init == part \in {"requests", "limiter", "analytics", "activity"} /\ ServiceInit

Next ==
    \/ part = "requests" /\ ApiNext /\ UNCHANGED <<part, limVars, anVars, acVars>>
    \/ part = "limiter" /\ LimNext /\ UNCHANGED <<part, apiVars, anVars, acVars>>
    \/ part = "analytics" /\ AnNext /\ UNCHANGED <<part, apiVars, limVars, acVars>>
    \/ part = "activity" /\ AcNext /\ UNCHANGED <<part, apiVars, limVars, anVars>>

Spec == Init /\ [][Next]_vars

MCSymmetry == Permutations(Reqs)
=============================================================================
