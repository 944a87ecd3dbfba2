---------------------------- MODULE SilverLedger ----------------------------
(***************************************************************************)
(* One raw payload of each chain on its way to a wallet's ledger:          *)
(* validation, Silver extraction and the unique keys of the Silver tables, *)
(* the gold wallet ledger and balance history, and the two parsers of V1   *)
(* ledger entries, the direct one and the one derived from Silver.         *)
(* A token is kept by its address and booked under its symbol.  A text     *)
(* field is absent, malformed or a number; a normalized amount is counted  *)
(* in quanta, small enough that dividing by 10^decimals leaves an integer. *)
(***************************************************************************)
EXTENDS Integers, Sequences, FiniteSets, FiniteSetsExt, SequencesExt, Functions

CONSTANTS
    Payloads,   \* raw_metadata values the connectors and imports produce
    Wallet,     \* the wallet the ledger is about
    Assets,     \* asset symbols that occur
    Tokens,     \* token contracts and mints
    Symbol,     \* token_symbol, spl_token_symbol: an unknown token has its address
    TableDecimals, \* token_decimals, with a default for unknown tokens
    Quanta,     \* quanta in a raw unit of a token of so many decimals
    MaxPasses   \* bound: materializations of the payload

VARIABLES
    payload,    \* the payload
    step,       \* where the current materialization is
    passes,     \* materializations begun
    rows,       \* Silver rows extracted by the current materialization
    silver,     \* the Silver tables, each with its rows
    ledger,     \* wallet_ledger, keyed by its deterministic id
    balances,   \* balance_history, keyed
    entries,    \* V1 ledger entries of the payload
    derived     \* ledger entries derived from its Silver rows

slVars == <<payload, step, passes, rows, silver, ledger, balances, entries, derived>>

-----------------------------------------------------------------------------
(* Text fields and sequences. *)

Absent == [is |-> "absent", n |-> 0]
Malformed == [is |-> "bad", n |-> 0]
Num(n) == [is |-> "num", n |-> n]

Parses(f) == f.is # "bad"
Mul(s, n) == IF s THEN n ELSE -n

\* Filtering a list keeps the positions of what stays ...
NonZero(f) == Restrict(f, {i \in DOMAIN f : f[i].amt # 0})

\* ... until it is listed again: the values in the order of their positions.
InOrder(f) ==
    [k \in 1 .. Cardinality(DOMAIN f) |->
        f[CHOOSE i \in DOMAIN f : Cardinality({j \in DOMAIN f : j < i}) = k - 1]]

\* The amounts of an asset in a list of entries, and in a table of them, added up.
SeqNet(f, asset) == SumFunction([i \in {j \in DOMAIN f : f[j].asset = asset} |-> f[i].amt])
NetOf(table, asset) == SumFunction([x \in {y \in table : y.asset = asset} |-> x.amt])

\* The tables of Silver.
Tables == {"transfers", "deltas", "events", "fills", "funding", "positions"}

\* Inserts keyed rows into a table: on a conflict the stored one stays (DO NOTHING) ...
InsertNew(table, f) ==
    table \cup {f[i] : i \in {k \in DOMAIN f :
                    /\ \A x \in table : x.key # f[k].key
                    /\ \A j \in DOMAIN f : j < k => f[j].key # f[k].key}}

\* ... or the later one wins (DO UPDATE).
Latest(f) == {f[i] : i \in {k \in DOMAIN f : \A j \in DOMAIN f : j > k => f[j].key # f[k].key}}

\* Transfer rows: from, to, token, transfer_index are the unique key.
Transfer(from, to, token, symbol, amt, known, index) ==
    [key |-> <<from, to, token, index>>, from |-> from, to |-> to, token |-> token,
     symbol |-> symbol, amt |-> amt, known |-> known, index |-> index]

Delta(account, token, amt, payer) ==
    [key |-> <<account, token>>, account |-> account, token |-> token,
     amt |-> amt, payer |-> payer]

Event(contract, index) == [key |-> index, contract |-> contract]

NoRows == [transfers |-> <<>>, deltas |-> <<>>, events |-> <<>>, fills |-> <<>>,
           funding |-> <<>>, positions |-> <<>>]

-----------------------------------------------------------------------------
(* Solana.  Token balances are [acct, mint, owner, amt]; owner may be missing.
   A mint's balances all come with its decimals: amt is counted in quanta. *)

TokenKey(b) == <<b.acct, b.mint, b.owner>>

\* The amount of the first balance of that account, mint and owner.
Held(side, b) ==
    LET same == {i \in DOMAIN side : TokenKey(side[i]) = TokenKey(b)}
    IN IF same = {} THEN 0 ELSE side[Min(same)].amt

Change(p, b) == Held(p.tpost, b) - Held(p.tpre, b)

\* Mutant: only the accounts that still exist after the transaction.
TokenEntriesPost(p) == p.tpost

\* Both sides, since closed accounts are only in the first and a change of owner
\* debits one and credits the other.
TokenEntries(p) == p.tpost \o p.tpre

\* The first entry of each account, mint and owner, unless nothing has changed.
Moved(p) ==
    LET all == TokenEntries(p)
    IN {i \in DOMAIN all : /\ all[i].owner # "none" /\ Change(p, all[i]) # 0
                           /\ \A j \in 1 .. (i - 1) : TokenKey(all[j]) # TokenKey(all[i])}

\* Sender and receiver.
Parties(p, b) == IF Change(p, b) > 0 THEN <<"unknown", b.owner>> ELSE <<b.owner, "unknown">>

\* Mutant: every transfer of a group has index 0.
GroupIndexZero(p, i) == 0

\* Earlier transfers with the same sender, receiver and mint.
GroupIndex(p, i) ==
    LET all == TokenEntries(p)
    IN Cardinality({j \in Moved(p) : /\ j < i /\ all[j].mint = all[i].mint
                                     /\ Parties(p, all[j]) = Parties(p, all[i])})

SolanaTransfers(p) ==
    [i \in IF p.failed THEN {} ELSE Moved(p) |->
        LET b == TokenEntries(p)[i]
            c == Change(p, b)
        IN Transfer(Parties(p, b)[1], Parties(p, b)[2], b.mint, Symbol[b.mint],
                    IF c > 0 THEN c ELSE -c, TRUE, GroupIndex(p, i))]

\* Account keys of a parsed message, or the static and the loaded ones of a raw one.
AccountKeys(p) == IF p.parsed THEN p.keys ELSE p.keys \o p.loaded

LamportChange(p, i) ==
    (IF i \in DOMAIN p.post THEN p.post[i] ELSE 0) - (IF i \in DOMAIN p.pre THEN p.pre[i] ELSE 0)

\* Failed transactions are kept: their payer still paid.
SolanaDeltas(p) ==
    LET keys == AccountKeys(p)
    IN [i \in {k \in DOMAIN keys : LamportChange(p, k) # 0} |->
          Delta(keys[i], "SOL", LamportChange(p, i), i = 1)]

\* Instructions of a parsed message, then the inner ones, numbered in one sequence.
SolanaEvents(p) ==
    LET all == (IF p.parsed THEN p.instrs ELSE <<>>) \o p.inner
    IN IF p.failed THEN <<>> ELSE [i \in 1 .. Len(all) |-> Event(all[i], i - 1)]

-----------------------------------------------------------------------------
(* EVM.  A payload is one log ("single") or a transaction with its logs, and
   with the decimals the contracts themselves have answered. *)

Decimals == DOMAIN Quanta
Normalized(raw, decimals) == raw * Quanta[decimals]

Hinted(p, token) == token \in DOMAIN p.decimals /\ p.decimals[token].is = "num"

\* What the contract answered, else the table, if the token is in it.
HasDecimals(p, token) == Hinted(p, token) \/ Symbol[token] # token
DecimalsOf(p, token) == IF Hinted(p, token) THEN p.decimals[token].n ELSE TableDecimals[token]

\* The raw amount is kept when the decimals are not known.
LogAmount(p, log) == Normalized(log.data.n, IF HasDecimals(p, log.token) THEN DecimalsOf(p, log.token) ELSE 0)

IsTransfer(log) == log.topics = 3 /\ log.sig = "transfer" /\ Parses(log.data)

\* logIndex, or the position of the log when the node gives none.
LogIndex(log, position) == IF log.index.is = "num" THEN log.index.n ELSE position

EvmTransfers(p) ==
    [i \in {k \in DOMAIN p.logs : ~p.failed /\ IsTransfer(p.logs[k])} |->
        LET log == p.logs[i]
        IN Transfer(log.from, log.to, log.token, Symbol[log.token], LogAmount(p, log),
                    HasDecimals(p, log.token), IF p.single THEN 0 ELSE LogIndex(log, i - 1))]

EvmEvents(p) == [i \in 1 .. Len(p.logs) |-> Event(p.logs[i].token, LogIndex(p.logs[i], i - 1))]

\* native_flows: the value and the gas of a transaction; an error drops both.
ValueFlow(p) ==
    IF (p.from = Wallet) # (p.to = Wallet) /\ ~p.failed THEN Mul(p.to = Wallet, p.value.n) ELSE 0

GasFlow(p) == IF p.from = Wallet THEN -p.gas.n ELSE 0

HasFlows(p) == p.chain = "evm" /\ p.from # "none" /\ Parses(p.value) /\ Parses(p.gas)

-----------------------------------------------------------------------------
(* Hyperliquid. *)

HlTransfers(p) ==
    IF p.type \notin {"deposit", "withdraw"} \/ ~Parses(p.usdc) \/ p.usdc.n = 0 THEN <<>>
    ELSE IF p.type = "deposit"
    THEN <<Transfer("external", Wallet, "USDC", "USDC", p.usdc.n, TRUE, 0)>>
    ELSE <<Transfer(Wallet, "external", "USDC", "USDC",
                    IF p.usdc.n > 0 THEN p.usdc.n ELSE -p.usdc.n, TRUE, 0)>>

Settlement(p) == IF p.type = "fill" THEN p.pnl.n - p.fee.n ELSE p.usdc.n

HlDeltas(p) ==
    LET amt == Settlement(p)
        ok == CASE p.type = "fill" -> Parses(p.pnl) /\ Parses(p.fee)
                [] p.type = "funding" -> Parses(p.usdc)
                [] OTHER -> FALSE
    IN IF ok /\ amt # 0 THEN <<Delta(Wallet, "USDC", amt, p.type = "fill")>> ELSE <<>>

\* A malformed fee or PnL is stored as absent.
Optional(f) == IF Parses(f) THEN f ELSE Absent

HlFills(p) ==
    IF p.type = "fill" /\ Parses(p.px) /\ Parses(p.sz)
    THEN <<[key |-> <<p.coin, p.side>>, coin |-> p.coin, side |-> p.side, size |-> p.sz.n,
            pnl |-> Optional(p.pnl), fee |-> Optional(p.fee), feeToken |-> p.feeToken]>>
    ELSE <<>>

HlFunding(p) ==
    IF p.type = "funding" /\ Parses(p.usdc) THEN <<[key |-> p.coin, coin |-> p.coin, amt |-> p.usdc.n]>>
    ELSE <<>>

HlPositions(p) ==
    IF p.type \in {"fill", "liquidation"} /\ Parses(p.px) /\ Parses(p.sz)
       /\ (p.type = "liquidation" => p.sz.n # 0)
    THEN <<[key |-> <<p.coin, p.side, p.type>>, delta |-> Mul(p.side = "B", p.sz.n)]>>
    ELSE <<>>

-----------------------------------------------------------------------------
(* Validation and Silver. *)

ValidImport(p) ==
    /\ p.chain = "solana" => Len(p.pre) = Len(p.post)
    /\ p.chain = "evm" => /\ Parses(p.value) /\ Parses(p.gas)
                          /\ \A i \in DOMAIN p.logs : Parses(p.logs[i].data)
                          /\ \A t \in DOMAIN p.decimals : p.decimals[t].is = "num"
    /\ p.chain = "hyperliquid" =>
         /\ p.type = "fill" => \A f \in {p.px, p.sz, p.fee, p.pnl} : Parses(f)
         /\ p.type \in {"funding", "deposit", "withdraw"} => p.usdc.is = "num"

Extracted(p) ==
    CASE p.chain = "solana" -> [NoRows EXCEPT !.transfers = SolanaTransfers(p),
                                              !.deltas = SolanaDeltas(p), !.events = SolanaEvents(p)]
      [] p.chain = "evm" -> [NoRows EXCEPT !.transfers = EvmTransfers(p), !.events = EvmEvents(p)]
      [] OTHER -> [NoRows EXCEPT !.transfers = HlTransfers(p), !.deltas = HlDeltas(p),
                                 !.fills = HlFills(p), !.funding = HlFunding(p),
                                 !.positions = HlPositions(p)]

-----------------------------------------------------------------------------
(* The gold ledger and the balance history. *)

\* Ids are hashes of strings: the kind of an entry, and what tells two of a kind apart.
Entry(kind, id, asset, amt) == [key |-> <<kind, id>>, asset |-> asset, amt |-> amt]

\* Transfers with unknown units, or to oneself, are left to Silver.
Sides(t) == t.known /\ (t.from = Wallet) # (t.to = Wallet)

TransferEntries(r) ==
    [i \in {k \in DOMAIN r.transfers : Sides(r.transfers[k])} |->
        LET t == r.transfers[i]
        IN Entry("transfer", <<t.token, t.index, t.to = Wallet>>, t.symbol, Mul(t.to = Wallet, t.amt))]

\* A payer's balance change is split into value movement and fee.
PayerFee(p, d) == IF d.payer THEN p.fee ELSE 0

OwnDeltas(p, r) == {i \in DOMAIN r.deltas : r.deltas[i].account = Wallet /\ p.chain = "solana"}

NativeMoves(p, r) ==
    [i \in OwnDeltas(p, r) |->
        LET d == r.deltas[i] IN Entry("native", d.account, d.token, d.amt + PayerFee(p, d))]

NativeFees(p, r) ==
    [i \in OwnDeltas(p, r) |->
        LET d == r.deltas[i] IN Entry("native_fee", d.account, d.token, -PayerFee(p, d))]

FeeAsset(f) == IF f.feeToken = "none" THEN "USDC" ELSE f.feeToken

\* The position quantity of a fill, then its settlement cash flows.
FillTrades(r) ==
    [i \in DOMAIN r.fills |->
        LET f == r.fills[i] IN Entry("fill", f.coin, f.coin, Mul(f.side = "B", f.size))]

FillFees(r) ==
    [i \in DOMAIN r.fills |-> LET f == r.fills[i] IN Entry("fill_fee", f.coin, FeeAsset(f), -f.fee.n)]

FillIncome(r) ==
    [i \in DOMAIN r.fills |-> LET f == r.fills[i] IN Entry("fill_income", f.coin, "USDC", f.pnl.n)]

FundingEntries(r) ==
    [i \in DOMAIN r.funding |-> LET f == r.funding[i] IN Entry("funding", f.coin, "USDC", f.amt)]

FlowEntries(p) ==
    IF HasFlows(p) THEN <<Entry("evm", "transfer", "ETH", ValueFlow(p)), Entry("evm", "fee", "ETH", GasFlow(p))>>
    ELSE <<>>

\* The records of each kind.
LedgerRecords(p, r) ==
    <<TransferEntries(r), NonZero(NativeMoves(p, r)), NonZero(NativeFees(p, r)), FillTrades(r),
      NonZero(FillFees(r)), NonZero(FillIncome(r)), FundingEntries(r), NonZero(FlowEntries(p))>>

TransferBalances(r) ==
    [i \in {k \in DOMAIN r.transfers : r.transfers[k].known /\ Wallet \in {r.transfers[k].from, r.transfers[k].to}} |->
        LET t == r.transfers[i]
        IN Entry("transfer", <<t.token, t.from, t.to, t.index>>, t.symbol,
                 IF t.from = t.to THEN 0 ELSE Mul(t.to = Wallet, t.amt))]

NativeBalances(r) ==
    [i \in {k \in DOMAIN r.deltas : r.deltas[k].account = Wallet} |->
        LET d == r.deltas[i] IN Entry("native", <<d.account, d.token>>, d.token, d.amt)]

FlowBalances(p) ==
    IF HasFlows(p) THEN <<Entry("evm", "net", "ETH", ValueFlow(p) + GasFlow(p))>> ELSE <<>>

BalanceEvents(p, r) == <<TransferBalances(r), NativeBalances(r), NonZero(FlowBalances(p))>>

\* The records that a write of several lists leaves.
Written(lists) == UNION {Latest(lists[k]) : k \in DOMAIN lists}

-----------------------------------------------------------------------------
(* V1 ledger entries, parsed directly and derived from Silver. *)

V1(asset, amt, type) == [asset |-> asset, amt |-> amt, type |-> type]

ParseSolana(p) ==
    LET at == {i \in DOMAIN p.keys : p.keys[i] = Wallet}
        idx == Min(at)
        sol == IF at = {} \/ ~p.parsed THEN <<>>
               ELSE (IF idx = 1 THEN <<V1("SOL", -p.fee, "fee")>> ELSE <<>>)
                 \o (IF p.failed THEN <<>>
                     ELSE <<V1("SOL", LamportChange(p, idx) + (IF idx = 1 THEN p.fee ELSE 0), "transfer")>>)
        Before(b) == LET same == {i \in DOMAIN p.tpre : p.tpre[i].acct = b.acct}
                     IN IF same = {} THEN 0 ELSE p.tpre[Min(same)].amt
        spl == InOrder([i \in {k \in DOMAIN p.tpost : p.tpost[k].owner = Wallet} |->
                         V1(Symbol[p.tpost[i].mint], p.tpost[i].amt - Before(p.tpost[i]), "transfer")])
    IN InOrder(NonZero(sol \o (IF p.failed THEN <<>> ELSE spl)))

\* The table's decimals or its default; the answers of the contracts are not read.
ParseEvm(p) ==
    LET log == p.logs[1]
        amt == Normalized(log.data.n, TableDecimals[log.token])
        erc20 == IF p.single /\ log.sig = "transfer" /\ log.topics >= 3 /\ Parses(log.data)
                 THEN (IF log.from = Wallet THEN <<V1(Symbol[log.token], -amt, "transfer")>> ELSE <<>>)
                   \o (IF log.to = Wallet THEN <<V1(Symbol[log.token], amt, "transfer")>> ELSE <<>>)
                 ELSE <<>>
        value == IF Parses(p.value) /\ p.value.n > 0
                 THEN (IF p.from = Wallet THEN <<V1("ETH", -p.value.n, "transfer")>> ELSE <<>>)
                   \o (IF p.to = Wallet THEN <<V1("ETH", p.value.n, "transfer")>> ELSE <<>>)
                 ELSE <<>>
        gas == IF p.gas.n > 0 THEN <<V1("ETH", -p.gas.n, "fee")>> ELSE <<>>
    IN erc20 \o value \o gas

V1Fill(coin, side, size, fee, feeToken, pnl) ==
    <<V1(coin, Mul(side = "B", size), "trade")>>
    \o InOrder(NonZero(<<V1(IF feeToken = "none" THEN "USDC" ELSE feeToken, -fee.n, "fee"),
                        V1("USDC", pnl.n, "income")>>))

V1Funding(amt) == <<V1("USDC", amt, IF amt > 0 THEN "income" ELSE "fee")>>

ParseHyperliquid(p) ==
    CASE p.type = "fill" /\ Parses(p.sz) /\ Parses(p.px) ->
           V1Fill(p.coin, p.side, p.sz.n, p.fee, p.feeToken, p.pnl)
      [] p.type = "funding" /\ Parses(p.usdc) -> V1Funding(p.usdc.n)
      [] p.type = "deposit" /\ Parses(p.usdc) -> <<V1("USDC", p.usdc.n, "transfer")>>
      [] p.type = "withdraw" /\ Parses(p.usdc) ->
           <<V1("USDC", IF p.usdc.n > 0 THEN -p.usdc.n ELSE p.usdc.n, "transfer")>>
      [] p.type = "liquidation" /\ Parses(p.usdc) -> <<V1("USDC", p.usdc.n, "trade")>>
      [] OTHER -> <<>>

ParseV1(p) == CASE p.chain = "solana" -> ParseSolana(p)
                [] p.chain = "evm" -> ParseEvm(p)
                [] OTHER -> ParseHyperliquid(p)

\* One list after the other, for each position of f.
Flat(f) == FlattenSeq(InOrder(f))

DeriveTransfers(r) ==
    Flat([i \in DOMAIN r.transfers |->
      LET t == r.transfers[i]
      IN (IF t.from = Wallet THEN <<V1(t.symbol, -t.amt, "transfer")>> ELSE <<>>)
      \o (IF t.to = Wallet THEN <<V1(t.symbol, t.amt, "transfer")>> ELSE <<>>)])

DeriveNative(r) ==
    InOrder([i \in {k \in DOMAIN r.deltas : r.deltas[k].account = Wallet} |->
      LET d == r.deltas[i] IN V1(d.token, d.amt, IF d.payer THEN "fee" ELSE "transfer")])

DeriveFills(r) ==
    Flat([i \in DOMAIN r.fills |->
      LET f == r.fills[i] IN V1Fill(f.coin, f.side, f.size, f.fee, f.feeToken, f.pnl)])

DeriveFunding(r) == Flat([i \in DOMAIN r.funding |-> V1Funding(r.funding[i].amt)])

DeriveAll(p, r) == CASE p.chain = "solana" -> DeriveNative(r) \o DeriveTransfers(r)
                     [] p.chain = "evm" -> DeriveTransfers(r)
                     [] OTHER -> DeriveFills(r) \o DeriveFunding(r)

-----------------------------------------------------------------------------
(* The library's derivation of the gold ledger from one transaction's Silver
   rows, which the pipeline does not call: it has its own. *)

Wl(asset, amt, type, party) == [asset |-> asset, amt |-> amt, type |-> type, party |-> party]

DeriveWalletTransfers(r) ==
    Flat([i \in DOMAIN r.transfers |->
      LET t == r.transfers[i]
      IN (IF t.from = Wallet THEN <<Wl(t.symbol, -t.amt, "transfer", t.to)>> ELSE <<>>)
      \o (IF t.to = Wallet THEN <<Wl(t.symbol, t.amt, "transfer", t.from)>> ELSE <<>>)])

WalletDelta(d) == Wl(d.token, d.amt, IF d.payer THEN "fee" ELSE "transfer", "none")

\* Mutant: the payer's change is left out, as if it were only the fee.
DeriveWalletNativeUnpaid(r) ==
    LET own == {i \in DOMAIN r.deltas : r.deltas[i].account = Wallet /\ ~r.deltas[i].payer}
    IN InOrder(NonZero([i \in own |-> WalletDelta(r.deltas[i])]))

DeriveWalletNative(r) ==
    LET own == {i \in DOMAIN r.deltas : r.deltas[i].account = Wallet}
    IN InOrder(NonZero([i \in own |-> WalletDelta(r.deltas[i])]))

DeriveWalletFills(r) ==
    Flat([i \in DOMAIN r.fills |->
      LET f == r.fills[i]
      IN <<Wl(f.coin, Mul(f.side = "B", f.size), "trade", "none")>>
         \o InOrder(NonZero(<<Wl(FeeAsset(f), -f.fee.n, "fee", "none"),
                             Wl("USDC", f.pnl.n, "income", "none")>>))])

DeriveWalletFunding(r) ==
    [i \in 1 .. Len(r.funding) |-> Wl("USDC", r.funding[i].amt, "funding", "none")]

DeriveAllWallet(p, r) ==
    CASE p.chain = "solana" -> DeriveWalletNative(r) \o DeriveWalletTransfers(r)
      [] p.chain = "evm" -> DeriveWalletTransfers(r)
      [] OTHER -> DeriveWalletFills(r) \o DeriveWalletFunding(r)

\* The running balances of one asset, a snapshot for each of its records.
DeriveBalanceHistory(records, asset) ==
    LET own == InOrder(Restrict(records, {i \in DOMAIN records : records[i].asset = asset}))
    IN [i \in 1 .. Len(own) |-> SumFunctionOnSet([j \in DOMAIN own |-> own[j].amt], 1 .. i)]

-----------------------------------------------------------------------------
(* The payloads the connectors and imports produce. *)

Fields == {f \in [is : {"absent", "bad", "num"}, n : Int] : f.is # "num" => f.n = 0}

\* The keys of a message are distinct, and so are the accounts on each side; a
\* failed transaction has moved no token, and of the native balances only the fee
\* of its payer.
SolanaOK(p) ==
    /\ p.failed \in BOOLEAN /\ p.parsed \in BOOLEAN /\ p.fee \in Int
    /\ p.pre \in Seq(Int) /\ p.post \in Seq(Int)
    /\ p.keys \in Seq(STRING) /\ p.loaded \in Seq(STRING)
    /\ p.instrs \in Seq(STRING) /\ p.inner \in Seq(STRING)
    /\ \A i, j \in DOMAIN AccountKeys(p) : AccountKeys(p)[i] = AccountKeys(p)[j] => i = j
    /\ \A side \in {p.tpre, p.tpost} :
          /\ side \in Seq([acct : Nat, mint : Tokens, owner : STRING, amt : Int])
          /\ \A i, j \in DOMAIN side : side[i].acct = side[j].acct => i = j
    /\ p.failed => /\ p.tpost = p.tpre
                   /\ \A i \in DOMAIN AccountKeys(p) : LamportChange(p, i) = IF i = 1 THEN -p.fee ELSE 0

\* Log indices are distinct; a log alone names no sender and no receiver.
EvmOK(p) ==
    /\ p.failed \in BOOLEAN /\ p.single \in BOOLEAN /\ p.value \in Fields /\ p.gas \in Fields
    /\ p.logs \in Seq([token : Tokens, sig : STRING, topics : Nat, from : STRING, to : STRING,
                       data : Fields, index : Fields])
    /\ \A i, j \in DOMAIN p.logs : LogIndex(p.logs[i], i - 1) = LogIndex(p.logs[j], j - 1) => i = j
    /\ p.single => Len(p.logs) = 1
    /\ \A t \in DOMAIN p.decimals : p.decimals[t].is = "num" => p.decimals[t].n \in Decimals
    /\ p.from = "none" => p.to = "none"

HyperliquidOK(p) ==
    /\ p.type \in {"fill", "funding", "deposit", "withdraw", "liquidation", "funding_rate"}
    /\ p.coin \in Assets /\ p.side \in {"A", "B"} /\ p.feeToken \in Assets \cup {"none"}
    /\ {p.sz, p.px, p.pnl, p.fee, p.usdc} \subseteq Fields

ASSUME PayloadsAssumption ==
    /\ MaxPasses \in Nat /\ {"SOL", "ETH", "USDC"} \subseteq Assets
    /\ Wallet \in STRING \ {"none", "unknown", "external"}
    /\ Symbol \in [Tokens -> Assets]
    /\ 0 \in Decimals /\ Quanta \in [Decimals -> Int] /\ TableDecimals \in [Tokens -> Decimals]
    /\ \A p \in Payloads : \/ p.chain = "solana" /\ SolanaOK(p)
                           \/ p.chain = "evm" /\ EvmOK(p)
                           \/ p.chain = "hyperliquid" /\ HyperliquidOK(p)

-----------------------------------------------------------------------------
SlInit ==
    /\ payload \in Payloads
    /\ step = "idle" /\ passes = 0
    /\ rows = NoRows /\ silver = [t \in Tables |-> {}] /\ ledger = {} /\ balances = {}
    /\ entries = <<>> /\ derived = <<>>

\* An invalid payload aborts the materialization before any write.
Validate ==
    /\ step = "idle" /\ passes < MaxPasses
    /\ passes' = passes + 1
    /\ step' = IF ValidImport(payload) THEN "valid" ELSE "rejected"
    /\ UNCHANGED <<payload, rows, silver, ledger, balances, entries, derived>>

SaveSilverRows ==
    /\ step = "valid"
    /\ rows' = Extracted(payload)
    /\ silver' = [t \in Tables |-> InsertNew(silver[t], rows'[t])]
    /\ step' = "silver"
    /\ UNCHANGED <<payload, passes, ledger, balances, entries, derived>>

\* The input's old records are deleted first.
WriteWalletLedger ==
    /\ step = "silver"
    /\ ledger' = Written(LedgerRecords(payload, rows))
    /\ step' = "ledger"
    /\ UNCHANGED <<payload, passes, rows, silver, balances, entries, derived>>

WriteBalanceHistory ==
    /\ step = "ledger"
    /\ LET new == Written(BalanceEvents(payload, rows))
       IN balances' = {x \in balances : \A y \in new : y.key # x.key} \cup new
    /\ step' = "done"
    /\ UNCHANGED <<payload, passes, rows, silver, ledger, entries, derived>>

\* The run is materialized again.
Rematerialize ==
    /\ step = "done" /\ passes < MaxPasses
    /\ step' = "idle" /\ rows' = NoRows
    /\ UNCHANGED <<payload, passes, silver, ledger, balances, entries, derived>>

\* V1 normalization and its Silver counterpart see the payload unvalidated.
NormalizeV1 ==
    /\ entries = <<>> /\ derived = <<>>
    /\ entries' = ParseV1(payload)
    /\ derived' = DeriveAll(payload, Extracted(payload))
    /\ UNCHANGED <<payload, step, passes, rows, silver, ledger, balances>>

SlNext == Validate \/ SaveSilverRows \/ WriteWalletLedger \/ WriteBalanceHistory
          \/ Rematerialize \/ NormalizeV1

SlSpec == SlInit /\ [][SlNext]_slVars

-----------------------------------------------------------------------------
(* What the chain says happened to the wallet. *)

\* Lamports are booked as SOL, and so is the wrapped mint: the change of an asset
\* is that of the native balance and of every mint of the symbol.
SolanaChange(p, asset) ==
    LET keys == AccountKeys(p)
        Owned(side) == SumFunction([i \in {j \in DOMAIN side : Symbol[side[j].mint] = asset /\ side[j].owner = Wallet} |->
                                      side[i].amt])
    IN (IF asset = "SOL"
        THEN SumFunction([i \in {j \in DOMAIN keys : keys[j] = Wallet} |-> LamportChange(p, i)])
        ELSE 0)
       + (Owned(p.tpost) - Owned(p.tpre))

\* Value and gas, and the normalized amounts of every contract of the symbol
\* whose decimals are known.
EvmChange(p, asset) ==
    LET Paid(log) == (IF log.to = Wallet THEN LogAmount(p, log) ELSE 0)
                     - (IF log.from = Wallet THEN LogAmount(p, log) ELSE 0)
        Booked(log) == Symbol[log.token] = asset /\ HasDecimals(p, log.token) /\ IsTransfer(log)
        Native == (IF p.failed THEN 0
                   ELSE (IF p.to = Wallet THEN p.value.n ELSE 0)
                        - (IF p.from = Wallet THEN p.value.n ELSE 0))
                  - (IF p.from = Wallet THEN p.gas.n ELSE 0)
    IN (IF asset = "ETH" THEN Native ELSE 0)
       + (IF p.failed THEN 0
          ELSE SumFunction([i \in {j \in DOMAIN p.logs : Booked(p.logs[j])} |-> Paid(p.logs[i])]))

HlChange(p, asset) ==
    LET Usdc(n) == IF asset = "USDC" THEN n ELSE 0
    IN CASE p.type = "fill" -> (IF asset = p.coin THEN Mul(p.side = "B", p.sz.n) ELSE 0)
                               + Usdc(p.pnl.n) - (IF asset = FeeAsset(p) THEN p.fee.n ELSE 0)
         [] p.type = "funding" -> Usdc(p.usdc.n)
         [] p.type = "deposit" -> Usdc(p.usdc.n)
         [] p.type = "withdraw" -> Usdc(IF p.usdc.n > 0 THEN -p.usdc.n ELSE p.usdc.n)
         [] OTHER -> 0

NetChange(p, asset) == CASE p.chain = "solana" -> SolanaChange(p, asset)
                         [] p.chain = "evm" -> EvmChange(p, asset)
                         [] OTHER -> HlChange(p, asset)

-----------------------------------------------------------------------------
(* Properties. *)

\* Types of the rows of every table.
SlTypeOK ==
    /\ step \in {"idle", "valid", "rejected", "silver", "ledger", "done"}
    /\ passes \in 0 .. MaxPasses
    /\ \A e \in ledger \cup balances : e.asset \in Assets /\ e.amt \in Int
    /\ \A i \in DOMAIN entries : entries[i].asset \in Assets
    /\ step = "rejected" => ledger = {} /\ balances = {} /\ \A t \in Tables : silver[t] = {}

\* The gold wallet ledger of a payload adds up, per symbol, to what the payload
\* did to the wallet: through failed transactions, closed and reassigned token
\* accounts, transfers to oneself, several accounts of a mint, several tokens of
\* a symbol, each with decimals of its own, and after any number of
\* materializations.  What is booked as SOL is the lamports and the wrapped SOL
\* together; a token of unknown decimals is not booked.  dual_write.rs, the wallet
\* ledger of materialize_gold; solana_parser.rs, evm_parser.rs.
LedgerIsNetChange ==
    step \in {"ledger", "done"} => \A a \in Assets : NetOf(ledger, a) = NetChange(payload, a)

\* No Silver row of a payload is lost to the unique key of its table: the
\* inserts are ON CONFLICT DO NOTHING, so a collision would vanish silently.
SilverIsWhole ==
    step \in {"silver", "ledger", "done"} =>
        \A t \in Tables : Cardinality(silver[t]) = Cardinality(DOMAIN rows[t])

\* Fees on Hyperliquid are paid in the settlement currency.
UsdcFee(p) == p.chain = "hyperliquid" /\ p.type = "fill" => FeeAsset(p) = "USDC"

\* A fill's coin is a position of the ledger and no balance.
Position(p, asset) == p.chain = "hyperliquid" /\ p.type = "fill" /\ asset = p.coin

\* The two gold datasets agree: the balance history moves an asset by what the
\* ledger books for it, though one uses Hyperliquid's aggregate deltas and net
\* EVM flows and the other their parts.  dual_write.rs, the balance history of
\* materialize_gold.
BalancesFollowLedger ==
    step = "done" /\ UsdcFee(payload) =>
        \A a \in Assets : ~Position(payload, a) => NetOf(balances, a) = NetOf(ledger, a)

\* Payloads on which the Silver path promises the output of V1: no closed or
\* reassigned token account, a parsed message; one ERC-20 log without value or
\* gas; fills and funding.
Comparable(p) ==
    CASE p.chain = "solana" -> /\ p.parsed
                               /\ \A b \in Range(p.tpre) : \E c \in Range(p.tpost) :
                                     TokenKey(b) = TokenKey(c)
      [] p.chain = "evm" -> /\ p.single /\ ~p.failed /\ p.value.n = 0 /\ p.gas.n = 0
                            /\ p.logs[1].topics = 3
      [] OTHER -> p.type \in {"fill", "funding"}

\* Quanta in a raw unit of the log's token, as Silver has it and as V1 has it: Silver
\* asks the contract's answer, then the table, and otherwise leaves the amount raw;
\* V1 asks only the table, where a token it does not know has a default.
SilverUnit(p) ==
    IF p.chain = "evm"
    THEN LET t == p.logs[1].token IN Quanta[IF HasDecimals(p, t) THEN DecimalsOf(p, t) ELSE 0]
    ELSE 1
V1Unit(p) == IF p.chain = "evm" THEN Quanta[TableDecimals[p.logs[1].token]] ELSE 1

\* Ledger entries derived from Silver are those of the V1 parsers: the same
\* entries in the same order for Hyperliquid, malformed fees included, and the
\* same net amounts on the other chains, where an amount of a token is one of its
\* raw units and each path has normalized it in its own way.  Where the units
\* differ, so do the ledgers, by that factor.  ledger_derivation.rs:1-5.
DerivedMatchesV1 ==
    Comparable(payload) =>
        /\ \A a \in Assets :
              SeqNet(derived, a) * V1Unit(payload) = SeqNet(entries, a) * SilverUnit(payload)
        /\ payload.chain = "hyperliquid" => derived = entries

\* Payloads on which the library's ledger and the pipeline's are about the same
\* records: the library has no EVM value or gas, no Hyperliquid deposits, and
\* books tokens whose decimals are unknown.
LibraryCovers(p, asset) ==
    /\ asset # "ETH"
    /\ p.chain = "evm" => \A i \in DOMAIN p.logs :
                            Symbol[p.logs[i].token] = asset => HasDecimals(p, p.logs[i].token)
    /\ p.chain = "hyperliquid" => p.type \notin {"deposit", "withdraw"}

\* The two derivations of the gold ledger have not drifted apart: the last
\* balance of the library's history is what the pipeline's ledger adds up to,
\* through transfers to oneself, which one books twice and the other not at all,
\* and fee payers, whose change one splits and the other does not.
LibraryMatchesPipeline ==
    step = "ledger" =>
        \A a \in {x \in Assets : LibraryCovers(payload, x)} :
            LET history == DeriveBalanceHistory(DeriveAllWallet(payload, rows), a)
            IN  (IF history = <<>> THEN 0 ELSE Last(history)) = NetOf(ledger, a)

\* The places that derive what a wallet holds agree about every payload: the
\* pipeline's ledger and balance history, V1 parsers and entries derived from Silver
\* (each in its units), and the library's balance history.
DerivationsAgree == BalancesFollowLedger /\ DerivedMatchesV1 /\ LibraryMatchesPipeline

-----------------------------------------------------------------------------
\* What a payload leaves in each table.
SilverOf(p) == [t \in Tables |-> Range(Extracted(p)[t])]
LedgerOf(p) == Written(LedgerRecords(p, Extracted(p)))
BalancesOf(p) == Written(BalanceEvents(p, Extracted(p)))
EmptySilver == [t \in Tables |-> {}]

\* The inductive invariant: each table is empty or has what the payload makes of
\* it, and it is empty if the payload is invalid.
SlInv ==
    /\ payload \in Payloads /\ passes \in 0 .. MaxPasses
    /\ step \in {"idle", "valid", "rejected", "silver", "ledger", "done"}
    /\ silver \in {EmptySilver, SilverOf(payload)}
    /\ ledger \in {{}, LedgerOf(payload)}
    /\ balances \in {{}, BalancesOf(payload)}
    /\ \/ entries = <<>> /\ derived = <<>>
       \/ entries = ParseV1(payload) /\ derived = DeriveAll(payload, Extracted(payload))
    /\ step \in {"idle", "rejected"} \/ ValidImport(payload)
    /\ ValidImport(payload) \/ (silver = EmptySilver /\ ledger = {} /\ balances = {})
    /\ step = "rejected" => ~ValidImport(payload)
    /\ step \in {"silver", "ledger", "done"} => rows = Extracted(payload) /\ silver = SilverOf(payload)
    /\ step \in {"ledger", "done"} => ledger = LedgerOf(payload)
    /\ step = "done" => balances = BalancesOf(payload)
=============================================================================
