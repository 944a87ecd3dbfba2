-------------------------- MODULE ActivityAnalytics --------------------------
(***************************************************************************)
(* Aggregates that API requests compute over exported gold rows: forensics *)
(* activity (adapters/src/ledger_derivation.rs), protocol activity and TVL *)
(* (adapters/src/protocol_analytics.rs).  Gold materialization stores rows *)
(* one at a time; a request sees the rows stored when it reads.            *)
(***************************************************************************)
EXTENDS Integers, Sequences, FiniteSets, FiniteSetsExt, SequencesExt

CONSTANTS
    LedgerIds,    \* ids of wallet_ledger rows
    LedgerOf,     \* LedgerOf[i]: [net, asset, type, amt, cp]
    EventIds,     \* ids of decoded events
    EventOf,      \* EventOf[e]: [contract, name, at, who], who the addresses it names
    SnapshotIds,  \* ids of pool_snapshots rows
    SnapshotOf,   \* SnapshotOf[s]: [pool, protocol, at, known, tvl]
    NoParty       \* counterparty_address IS NULL

ASSUME ActivityAssumption ==
    /\ IsFiniteSet(LedgerIds) /\ IsFiniteSet(EventIds) /\ IsFiniteSet(SnapshotIds)
    /\ \A i \in LedgerIds : LedgerOf[i].amt \in Int
    /\ \A e \in EventIds : EventOf[e].at \in Nat
    /\ \A s \in SnapshotIds : SnapshotOf[s].at \in Nat /\ SnapshotOf[s].known \in BOOLEAN /\ SnapshotOf[s].tvl \in Int

VARIABLES
    ledgerRows,   \* wallet_ledger rows as an export returns them
    protocolRows, \* protocol_events
    snapshotRows  \* pool_snapshots

acVars == <<ledgerRows, protocolRows, snapshotRows>>

-----------------------------------------------------------------------------
(* build_forensics_activity *)

Inflow(i) == IF LedgerOf[i].amt > 0 THEN LedgerOf[i].amt ELSE 0

Outflow(i) == IF LedgerOf[i].amt > 0 THEN 0 ELSE -LedgerOf[i].amt

\* Count, inflow and outflow of each counterparty, before the report is cut to
\* the 20 most active.
Parties(rows) ==
    LET of == {i \in rows : LedgerOf[i].cp # NoParty}
    IN [p \in {LedgerOf[i].cp : i \in of} |->
          LET own == {i \in of : LedgerOf[i].cp = p}
          IN [count |-> Cardinality(own), inflow |-> SumFunction([i \in own |-> Inflow(i)]),
              outflow |-> SumFunction([i \in own |-> Outflow(i)]),
              networks |-> {LedgerOf[i].net : i \in own}]]

NetworkActivity(rows) ==
    [n \in {LedgerOf[i].net : i \in rows} |->
       LET own == {i \in rows : LedgerOf[i].net = n}
       IN [count |-> Cardinality(own), assets |-> {LedgerOf[i].asset : i \in own},
           parties |-> {LedgerOf[i].cp : i \in own} \ {NoParty}]]

TypeBreakdown(rows) ==
    [t \in {LedgerOf[i].type : i \in rows} |->
       LET own == {i \in rows : LedgerOf[i].type = t}
       IN [count |-> Cardinality(own), total |-> SumFunction([i \in own |-> Inflow(i) + Outflow(i)])]]

-----------------------------------------------------------------------------
(* Protocol events and their activity. *)

\* classify_event: the first pattern in this order that the name contains.
Patterns == <<{"swap"}, {"mint"}, {"burn"}, {"add", "deposit"}, {"remove", "withdraw"}, {"transfer"}>>
Types == <<"swap", "mint", "burn", "liquidity_added", "liquidity_removed", "transfer">>

Classify(name) ==
    LET hits == {k \in 1 .. Len(Patterns) : Patterns[k] \cap name # {}}
    IN IF hits = {} THEN "other" ELSE Types[CHOOSE k \in hits : \A j \in hits : k <= j]

\* The id of a protocol event is a hash of the decoded event's.
RowId(e) == e

ProtocolEvent(e) == [id |-> RowId(e), event |-> e, protocol |-> EventOf[e].contract, type |-> Classify(EventOf[e].name),
                     at |-> EventOf[e].at,
                     who |-> EventOf[e].who]

\* build_protocol_activity
ProtocolActivity(p, rows) ==
    LET own == {r \in rows : r.protocol = p}
        count == [t \in {r.type : r \in own} |-> Cardinality({r \in own : r.type = t})]
    IN [counts |-> count, participants |-> UNION {r.who : r \in own},
        total |-> SumFunction(count),
        first |-> IF own = {} THEN 0 ELSE Min({r.at : r \in own}),
        last |-> IF own = {} THEN 0 ELSE Max({r.at : r \in own})]

-----------------------------------------------------------------------------
(* build_tvl_analytics *)

Newer(a, b) == SnapshotOf[a].at > SnapshotOf[b].at

\* A row takes the place of an older one of its pool: of equal ones the first stays.
Keep(acc, s) ==
    LET same == {x \in acc : SnapshotOf[x].pool = SnapshotOf[s].pool}
    IN IF same = {} THEN acc \cup {s}
       ELSE IF \A x \in same : Newer(s, x) THEN (acc \ same) \cup {s} ELSE acc

\* The latest snapshot of each pool, over the rows in the order they are read.
LatestByPool(rows) ==
    LET upTo[k \in 0 .. Len(rows)] == IF k = 0 THEN {} ELSE Keep(upTo[k - 1], rows[k])
    IN upTo[Len(rows)]

\* Unpriced pools are left out of a total.
Priced(pools) == {s \in pools : SnapshotOf[s].known}

Tvl(pools) == SumFunction([s \in Priced(pools) |-> SnapshotOf[s].tvl])

ProtocolTvl(rows) ==
    LET latest == LatestByPool(rows)
    IN [p \in {SnapshotOf[s].protocol : s \in latest} |->
          LET pools == {s \in latest : SnapshotOf[s].protocol = p}
          IN [pools |-> Cardinality(pools), priced |-> Priced(pools) # {}, tvl |-> Tvl(pools)]]

\* Only the pools themselves: each reports its own tvl_usd.
TotalTvl(rows) ==
    SumFunction([s \in {x \in LatestByPool(rows) : SnapshotOf[x].known} |-> SnapshotOf[s].tvl])

-----------------------------------------------------------------------------
AcInit == ledgerRows = {} /\ protocolRows = {} /\ snapshotRows = <<>>

StoreLedgerRow(i) ==
    /\ i \notin ledgerRows
    /\ ledgerRows' = ledgerRows \cup {i}
    /\ UNCHANGED <<protocolRows, snapshotRows>>

\* compute_protocol_events of the decoded events of a batch, stored by event id.
StoreProtocolEvents(batch) ==
    /\ protocolRows' = {r \in protocolRows : \A e \in batch : r.id # RowId(e)} \cup {ProtocolEvent(e) : e \in batch}
    /\ UNCHANGED <<ledgerRows, snapshotRows>>

StoreSnapshot(s) ==
    /\ s \notin Range(snapshotRows)
    /\ snapshotRows' = Append(snapshotRows, s)
    /\ UNCHANGED <<ledgerRows, protocolRows>>

AcNext ==
    \/ \E i \in LedgerIds : StoreLedgerRow(i)
    \/ \E batch \in SUBSET EventIds \ {{}} : StoreProtocolEvents(batch)
    \/ \E s \in SnapshotIds : StoreSnapshot(s)

AcSpec == AcInit /\ [][AcNext]_acVars

-----------------------------------------------------------------------------
(* Properties. *)

\* A forensics report covers every exported row once in each of its parts, and
\* what its counterparties received and sent is the net of the rows that name
\* one.
ForensicsAddsUp ==
    LET all == Parties(ledgerRows)
        net == NetworkActivity(ledgerRows)
        type == TypeBreakdown(ledgerRows)
    IN /\ SumFunction([n \in DOMAIN net |-> net[n].count]) = Cardinality(ledgerRows)
       /\ SumFunction([t \in DOMAIN type |-> type[t].count]) = Cardinality(ledgerRows)
       /\ SumFunction([p \in DOMAIN all |-> all[p].inflow - all[p].outflow]) =
          SumFunction([i \in {x \in ledgerRows : LedgerOf[x].cp # NoParty} |-> LedgerOf[i].amt])

\* Materializing a decoded event again never counts it twice: a protocol's
\* activity has one event per stored decoded event.
ActivityCountsOnce ==
    \A p \in {EventOf[e].contract : e \in EventIds} :
        ProtocolActivity(p, protocolRows).total =
          Cardinality({e \in EventIds : EventOf[e].contract = p /\ \E r \in protocolRows : r.event = e})

\* Whatever the order of the rows, each pool counts with a snapshot that none of
\* its others is newer than, and the protocols' totals add up to the overall one.
TvlIsLatest ==
    LET latest == LatestByPool(snapshotRows)
        of == ProtocolTvl(snapshotRows)
        stored == Range(snapshotRows)
    IN /\ \A s \in stored : \E l \in latest : SnapshotOf[l].pool = SnapshotOf[s].pool
                                              /\ SnapshotOf[l].at >= SnapshotOf[s].at
       /\ SumFunction([p \in DOMAIN of |-> of[p].pools]) = Cardinality({SnapshotOf[s].pool : s \in stored})
       /\ SumFunction([p \in DOMAIN of |-> of[p].tvl]) = TotalTvl(snapshotRows)

-----------------------------------------------------------------------------
\* The inductive invariant: the rows are rows of what exists, and a protocol
\* event is stored under the id of the decoded event it was made from.
AcInv ==
    /\ ledgerRows \subseteq LedgerIds
    /\ protocolRows \subseteq {ProtocolEvent(e) : e \in EventIds}
    /\ snapshotRows \in Seq(SnapshotIds)
=============================================================================
