------------------------------ MODULE DualWrite ------------------------------
(***************************************************************************)
(* The command line's ingest and normalize (cli/src/main.rs) over the V1   *)
(* tables and their V2 shadow (adapters/src/dual_write.rs, repo.rs): V1 is *)
(* written first, V2 best effort, and normalize heals V2 from V1.          *)
(*                                                                         *)
(* Modelled for the one chain that has several networks: V1 rows, keyed by *)
(* chain, do not say which network they came from.  A transaction is named *)
(* by its block, and the same hash may exist on two networks.              *)
(***************************************************************************)
EXTENDS Integers, FiniteSets, FiniteSetsExt

CONSTANTS
    Procs,        \* command-line processes
    Wallets,
    Networks,     \* the chain's networks: V1 calls all of them "ethereum"
    Foreign,      \* networks of other chain families
    DefaultNetwork,  \* chain_to_default_network
    NoNetwork,    \* --network is not given
    OnChain,      \* triples <<network, wallet, block>>
    Limit,        \* --limit: blocks an ingest without a checkpoint looks back
    Buffer,       \* finality_buffer
    NormLimit,    \* rows get_transactions_by_wallet returns
    MaxCommands,  \* bound: commands started, and rows stored by the API
    MaxCliFaults  \* bound: failed statements and crashes

Blocks == {t[3] : t \in OnChain}

ASSUME DualWriteAssumption ==
    /\ DefaultNetwork \in Networks /\ NoNetwork \notin Networks \cup Foreign
    /\ OnChain \subseteq (Networks \cup Foreign) \X Wallets \X Nat /\ IsFiniteSet(OnChain)
    /\ \A t \in OnChain : t[3] > 0
    /\ IsFiniteSet(Procs) /\ IsFiniteSet(Networks \cup Foreign)
    /\ Limit \in Nat \ {0} /\ Buffer \in Nat /\ NormLimit \in Nat /\ MaxCommands \in Nat /\ MaxCliFaults \in Nat

VARIABLES
    v1,        \* pairs <<wallet, block>> in transactions
    v1cp,      \* v1cp[w]: last_block of indexer_checkpoints, or NoCheckpoint
    raw,       \* pairs <<network, block>> in raw_transactions
    targets,   \* rows <<network, wallet, owner, copy>> of index_targets
    matches,   \* pairs <<target, raw transaction>> in target_matches
    v2cp,      \* v2cp[target]: last_block of checkpoints, or NoCheckpoint
    dwSilver,  \* raw transactions with their Silver rows
    orphans,   \* orphans[b]: copies of Silver rows without a raw_transaction_id
    cpc,       \* per process: the statement it is at
    cmd,       \* per process: wallet and network of its command
    seen,      \* per process: the blocks it carries: events, or V1 transactions
    tid,       \* per process: the target it uses
    ids,       \* per process: raw_id_map
    cliFault,  \* per process: a statement of this command has failed
    named,     \* history: <<network, wallet>> of commands with --network, and
               \* of ingests without it
    told,      \* history: <<network, wallet>> of normalize commands with --network
    origin,    \* origin[w]: history: the highest block of the default network at
               \* which an ingest of the wallet without a checkpoint has started
    commands,  \* commands started, and rows stored by the API
    cliFaults  \* failed statements and crashes

dwTables == <<v1, v1cp, raw, targets, matches, v2cp, dwSilver, orphans>>
dwLocals == <<cmd, seen, tid, ids, cliFault>>
dwHistory == <<named, told, origin, commands>>
dwVars == <<dwTables, cpc, dwLocals, dwHistory, cliFaults>>

Owners == {"user", "none"}
NoTarget == <<>>
NoCheckpoint == -1
\* An id that create_index_target returned though another row was kept.
Ghost == <<"ghost">>
Copies == 1..Cardinality(Procs)
TargetRows == (Networks \cup Foreign) \X Wallets \X Owners \X Copies

DwInit ==
    /\ v1 = {} /\ raw = {} /\ targets = {} /\ matches = {} /\ dwSilver = {}
    /\ v1cp = [w \in Wallets |-> NoCheckpoint]
    /\ v2cp = [t \in TargetRows |-> NoCheckpoint]
    /\ orphans = [b \in Blocks |-> 0]
    /\ cpc = [p \in Procs |-> "idle"]
    /\ cmd = [p \in Procs |-> <<>>]
    /\ seen = [p \in Procs |-> {}]
    /\ tid = [p \in Procs |-> NoTarget]
    /\ ids = [p \in Procs |-> {}]
    /\ cliFault = [p \in Procs |-> FALSE]
    /\ origin = [w \in Wallets |-> 0]
    /\ named = {} /\ told = {} /\ commands = 0 /\ cliFaults = 0

CmdWallet(p) == cmd[p][1]
Option(p) == cmd[p][2]
\* The network of a raw row or a target: --network, or the chain's default.
Stamp(p) == IF Option(p) = NoNetwork THEN DefaultNetwork ELSE Option(p)

At(p, l) == cpc[p] = l
Go(p, l) == cpc' = [cpc EXCEPT ![p] = l]
CliFault(p) ==
    /\ cliFaults < MaxCliFaults
    /\ cliFaults' = cliFaults + 1
    /\ cliFault' = [cliFault EXCEPT ![p] = TRUE]
NoCliFault == UNCHANGED <<cliFault, cliFaults>>

\* The command ends, with success or with an error.
EndCommand(p) ==
    /\ Go(p, "idle")
    /\ cmd' = [cmd EXCEPT ![p] = <<>>]
    /\ seen' = [seen EXCEPT ![p] = {}]
    /\ tid' = [tid EXCEPT ![p] = NoTarget]
    /\ ids' = [ids EXCEPT ![p] = {}]
    /\ cliFault' = [cliFault EXCEPT ![p] = FALSE]

-----------------------------------------------------------------------------
(* index_targets *)

Rows(n, w, o) == {t \in targets : t[1] = n /\ t[2] = w /\ t[3] = o}

\* get_index_target_by_address: any of the rows, of the owner or of nobody.
Lookup(n, w, o) == IF Rows(n, w, o) = {} THEN {NoTarget} ELSE Rows(n, w, o)

\* create_index_target: an owned row that exists is kept, and the caller goes on
\* with the id of the row that was not stored.  NULL owners are distinct, so an
\* unowned row is always stored.
CreateIndexTarget(n, w, o) ==
    IF o # "none" /\ Rows(n, w, o) # {} THEN <<targets, Ghost>>
    ELSE LET row == <<n, w, o, Cardinality(Rows(n, w, o)) + 1>>
         IN <<targets \cup {row}, row>>

\* ensure_wallet_target: the insert after a lookup that found nothing.
EnsureTarget(p, o, next) ==
    LET created == CreateIndexTarget(Stamp(p), CmdWallet(p), o)
    IN /\ targets' = created[1]
       /\ tid' = [tid EXCEPT ![p] = created[2]]
       /\ Go(p, next)

-----------------------------------------------------------------------------
(* ingest *)

\* get_checkpoint, and v2_checkpoint_to_v1: the block of a target's cursor.
ResumeV1(w) == v1cp[w]
ResumeV2(t) == IF t = NoTarget THEN NoCheckpoint ELSE v2cp[t]

\* The checkpoint an ingest resumes from: the V2 one of the unowned target when
\* the network is named, the V1 one of the wallet otherwise.
ResumeFrom(w, opt) ==
    IF opt = NoNetwork THEN {ResumeV1(w)}
    ELSE {ResumeV2(t) : t \in Lookup(opt, w, "none")}

\* default_from_block and next_block_after_i64
FirstBlock(cp, head) ==
    IF cp # NoCheckpoint THEN cp + 1
    ELSE IF head < Limit THEN 0 ELSE head - (Limit - 1)

\* fetch_history: the wallet's transactions from a block to the head.
FetchHistory(n, w, from, head) ==
    {b \in Blocks : <<n, w, b>> \in OnChain /\ from <= b /\ b <= head}

\* The checkpoint is read and the history after it fetched, as far as a head.
StartIngest(p, w, opt) ==
    /\ At(p, "idle")
    /\ commands < MaxCommands
    /\ commands' = commands + 1
    /\ cmd' = [cmd EXCEPT ![p] = <<w, opt>>]
    /\ LET n == IF opt = NoNetwork THEN DefaultNetwork ELSE opt
       IN /\ named' = named \cup {<<n, w>>}
          /\ \E cp \in ResumeFrom(w, opt), head \in Blocks :
                LET from == FirstBlock(cp, head)
                IN /\ seen' = [seen EXCEPT ![p] = FetchHistory(n, w, from, head)]
                   /\ origin' = IF n = DefaultNetwork /\ cp = NoCheckpoint /\ from > origin[w]
                                THEN [origin EXCEPT ![w] = from] ELSE origin
    /\ Go(p, "lookup")
    /\ UNCHANGED <<dwTables, tid, ids, cliFault, cliFaults, told>>

\* ensure_wallet_target for the user: the lookup.  A failure leaves V2 out.
FindTarget(p) ==
    /\ At(p, "lookup")
    /\ \/ /\ \E t \in Lookup(Stamp(p), CmdWallet(p), "user") :
                /\ tid' = [tid EXCEPT ![p] = t]
                /\ Go(p, IF t = NoTarget THEN "create" ELSE "v1")
          /\ NoCliFault
       \/ CliFault(p) /\ Go(p, "v1") /\ UNCHANGED tid
    /\ UNCHANGED <<dwTables, cmd, seen, ids, dwHistory>>

CreateUserTarget(p) ==
    /\ At(p, "create")
    /\ \/ EnsureTarget(p, "user", "v1") /\ NoCliFault
       \/ CliFault(p) /\ Go(p, "v1") /\ UNCHANGED <<targets, tid>>
    /\ UNCHANGED <<v1, v1cp, raw, matches, v2cp, dwSilver, orphans, cmd, seen, ids, dwHistory>>

\* Mutant: no buffer, and a checkpoint beyond what was fetched.
BuildCheckpointNext(es) == Max(es) + 1

\* build_checkpoint
BuildCheckpoint(es) == IF Max(es) > Buffer THEN Max(es) - Buffer ELSE 0

\* save_transactions_and_checkpoint: one transaction, and the command fails with
\* it.  Without events there is no checkpoint and nothing to write.
SaveV1(p) ==
    /\ At(p, "v1")
    /\ \/ seen[p] = {} /\ EndCommand(p) /\ UNCHANGED <<v1, v1cp, cliFaults>>
       \/ /\ seen[p] # {}
          /\ v1' = v1 \cup ({CmdWallet(p)} \X seen[p])
          /\ v1cp' = [v1cp EXCEPT ![CmdWallet(p)] = BuildCheckpoint(seen[p])]
          /\ IF tid[p] = NoTarget THEN EndCommand(p)
             ELSE Go(p, "raw") /\ UNCHANGED <<cmd, seen, tid, ids, cliFault>>
          /\ UNCHANGED cliFaults
       \/ /\ seen[p] # {} /\ cliFaults < MaxCliFaults
          /\ cliFaults' = cliFaults + 1
          /\ EndCommand(p)
          /\ UNCHANGED <<v1, v1cp>>
    /\ UNCHANGED <<raw, targets, matches, v2cp, dwSilver, orphans, dwHistory>>

\* v1_tx_to_v2_raw, build_target_matches and v1_checkpoint_to_v2_with_network: the
\* V2 rows of the command's V1 rows.
RawOf(p) == {Stamp(p)} \X seen[p]

MatchesOf(p) == {tid[p]} \X RawOf(p)

CursorOf(p) == BuildCheckpoint(seen[p])

\* v2_write_transactions: the deduplicated upsert, then the matches.
WriteRaw(p) ==
    /\ At(p, "raw")
    /\ \/ raw' = raw \cup RawOf(p) /\ Go(p, "matches") /\ NoCliFault
       \/ CliFault(p) /\ Go(p, "cursor") /\ UNCHANGED raw
    /\ UNCHANGED <<v1, v1cp, targets, matches, v2cp, dwSilver, orphans, cmd, seen, tid, ids, dwHistory>>

\* A ghost target violates the foreign key.
WriteMatches(p) ==
    /\ At(p, "matches")
    /\ \/ /\ tid[p] # Ghost
          /\ matches' = matches \cup MatchesOf(p)
          /\ NoCliFault
       \/ tid[p] = Ghost /\ UNCHANGED matches /\ NoCliFault
       \/ CliFault(p) /\ UNCHANGED matches
    /\ Go(p, "cursor")
    /\ UNCHANGED <<v1, v1cp, raw, targets, v2cp, dwSilver, orphans, cmd, seen, tid, ids, dwHistory>>

\* The V2 checkpoint is written whether or not the V2 rows were.
WriteCursor(p) ==
    /\ At(p, "cursor")
    /\ \/ /\ tid[p] # Ghost
          /\ v2cp' = [v2cp EXCEPT ![tid[p]] = CursorOf(p)]
          /\ UNCHANGED cliFaults
       \/ tid[p] = Ghost /\ UNCHANGED <<v2cp, cliFaults>>
       \/ cliFaults < MaxCliFaults /\ cliFaults' = cliFaults + 1 /\ UNCHANGED v2cp
    /\ EndCommand(p)
    /\ UNCHANGED <<v1, v1cp, raw, targets, matches, dwSilver, orphans, dwHistory>>

-----------------------------------------------------------------------------
(* normalize: materialize_silver_datasets *)

\* The oldest rows of the wallet, as many as a page holds.
Page(w) == {b \in Blocks : <<w, b>> \in v1
              /\ Cardinality({c \in Blocks : <<w, c>> \in v1 /\ c < b}) < NormLimit}

StartNormalize(p, w, opt) ==
    /\ At(p, "idle")
    /\ commands < MaxCommands
    /\ commands' = commands + 1
    /\ told' = IF opt = NoNetwork THEN told ELSE told \cup {<<opt, w>>}
    /\ cmd' = [cmd EXCEPT ![p] = <<w, opt>>]
    /\ seen' = [seen EXCEPT ![p] = Page(w)]
    /\ Go(p, "networks")
    /\ UNCHANGED <<dwTables, tid, ids, cliFault, cliFaults, named, origin>>

BronzeNetworks(b) == {n \in Networks \cup Foreign : <<n, b>> \in raw}

\* Mutant: a transaction without a Bronze row gets the chain's default network.
ResolveNetworkDefault(opt, bronze) ==
    IF opt # NoNetwork THEN {opt}
    ELSE IF Cardinality(bronze) = 1 THEN bronze ELSE {DefaultNetwork}

\* resolve_effective_network: the network, or none when it would be a guess.
ResolveNetwork(opt, bronze) ==
    CASE opt # NoNetwork -> {opt}
      [] opt = NoNetwork /\ Cardinality(bronze) = 1 -> bronze
      [] opt = NoNetwork /\ Cardinality(bronze) # 1 ->
            IF Cardinality(bronze \cap Networks) = 1 THEN bronze \cap Networks ELSE {}

\* The transactions of the command with their networks; a failed lookup of the
\* Bronze networks leaves only the ones of an explicit network.
ResolveNetworks(p) ==
    /\ At(p, "networks")
    /\ LET Keep(found) == [ids EXCEPT ![p] = UNION {ResolveNetwork(Option(p),
                               IF found THEN BronzeNetworks(b) ELSE {}) \X {b} : b \in seen[p]}]
       IN \/ ids' = Keep(TRUE) /\ NoCliFault
          \/ Option(p) = NoNetwork /\ CliFault(p) /\ ids' = Keep(FALSE)
    /\ Go(p, "heal")
    /\ UNCHANGED <<dwTables, cmd, seen, tid, dwHistory>>

\* Mutant: the rows that were missing are inserted and not looked up again.
HealRawBlind(p) ==
    /\ At(p, "heal")
    /\ raw' = raw \cup ids[p]
    /\ seen' = [seen EXCEPT ![p] = {r[2] : r \in ids[p] \ raw}]
    /\ Go(p, "owner")
    /\ NoCliFault
    /\ UNCHANGED <<v1, v1cp, targets, matches, v2cp, dwSilver, orphans, cmd, tid, ids, dwHistory>>

\* lookup_raw_transaction_ids: what is missing in raw_transactions is inserted
\* and looked up again.  seen becomes the transactions left without an id; a
\* failed first lookup makes all of them missing, and the second finds them.
HealRaw(p) ==
    /\ At(p, "heal")
    /\ \/ raw' = raw \cup ids[p] /\ seen' = [seen EXCEPT ![p] = {}] /\ NoCliFault
       \/ /\ CliFault(p)
          /\ raw' \in {raw, raw \cup ids[p]}
          /\ \E lost \in {ids[p], ids[p] \ raw} : seen' = [seen EXCEPT ![p] = {r[2] : r \in lost}]
    /\ Go(p, "owner")
    /\ UNCHANGED <<v1, v1cp, targets, matches, v2cp, dwSilver, orphans, cmd, tid, ids, dwHistory>>

\* Mutant: every resolved transaction counts as one with an id.
ResolvedAll(p) == ids[p]

\* The rows whose id is known.
Resolved(p) == {r \in ids[p] : r[2] \notin seen[p]}

\* The networks of the command's transactions, one wallet group each.
Groups(p) == {r[1] : r \in ids[p]}

\* The unowned target of each group is looked up; a lookup that fails skips its group.
FindOwners(p) ==
    /\ At(p, "owner")
    /\ \E gs \in SUBSET Groups(p) :
        /\ tid' \in {[tid EXCEPT ![p] = t] : t \in
               {f \in [gs -> targets \cup {NoTarget}] : \A n \in gs : f[n] \in Lookup(n, CmdWallet(p), "none")}}
        /\ IF gs = Groups(p) THEN NoCliFault ELSE CliFault(p)
    /\ Go(p, "owned")
    /\ UNCHANGED <<dwTables, cmd, seen, ids, dwHistory>>

\* Missing targets are created, and each group's matches stored or skipped.
HealMatches(p) ==
    /\ At(p, "owned")
    /\ \E gs \in SUBSET DOMAIN tid[p] :
        LET Owner(n) == IF tid[p][n] # NoTarget THEN tid[p][n] ELSE CreateIndexTarget(n, CmdWallet(p), "none")[2]
        IN /\ targets' = targets \cup {Owner(n) : n \in gs}
           /\ matches' = matches \cup {<<Owner(r[1]), r>> : r \in {q \in Resolved(p) : q[1] \in gs}}
           /\ IF gs = DOMAIN tid[p] THEN NoCliFault ELSE CliFault(p)
    /\ tid' = [tid EXCEPT ![p] = NoTarget]
    /\ Go(p, "silver")
    /\ UNCHANGED <<v1, v1cp, raw, v2cp, dwSilver, orphans, cmd, seen, ids, dwHistory>>

\* The Silver rows: with an id they are inserted unless present, without one they
\* are inserted again by every command.  The completeness rows follow.
WriteSilver(p) ==
    /\ At(p, "silver")
    /\ \/ /\ dwSilver' = dwSilver \cup Resolved(p)
          /\ orphans' = [b \in Blocks |->
                IF b \in seen[p] THEN orphans[b] + Cardinality({r \in ids[p] : r[2] = b}) ELSE orphans[b]]
          /\ NoCliFault
       \/ CliFault(p) /\ UNCHANGED <<dwSilver, orphans>>
    /\ Go(p, "done")
    /\ UNCHANGED <<v1, v1cp, raw, targets, matches, v2cp, cmd, seen, tid, ids, dwHistory>>

EndNormalize(p) ==
    /\ At(p, "done")
    /\ EndCommand(p)
    /\ UNCHANGED <<dwTables, cliFaults, dwHistory>>

\* The API's own ingestion stores a raw transaction.
ApiIngest(n, b) ==
    /\ \E w \in Wallets : <<n, w, b>> \in OnChain
    /\ commands < MaxCommands
    /\ commands' = commands + 1
    /\ raw' = raw \cup {<<n, b>>}
    /\ UNCHANGED <<v1, v1cp, targets, matches, v2cp, dwSilver, orphans, cpc, dwLocals, named, told, origin,
                   cliFaults>>

CrashCli(p) ==
    /\ ~At(p, "idle")
    /\ cliFaults < MaxCliFaults
    /\ cliFaults' = cliFaults + 1
    /\ EndCommand(p)
    /\ UNCHANGED <<dwTables, dwHistory>>

DwNext ==
    \E p \in Procs :
        \/ \E w \in Wallets, opt \in Networks \cup {NoNetwork} :
              StartIngest(p, w, opt) \/ StartNormalize(p, w, opt)
        \/ FindTarget(p) \/ CreateUserTarget(p) \/ SaveV1(p)
        \/ WriteRaw(p) \/ WriteMatches(p) \/ WriteCursor(p)
        \/ ResolveNetworks(p) \/ HealRaw(p) \/ FindOwners(p) \/ HealMatches(p) \/ WriteSilver(p)
        \/ EndNormalize(p) \/ CrashCli(p)
        \/ \E n \in Networks \cup Foreign, b \in Blocks : ApiIngest(n, b)

DwSpec == DwInit /\ [][DwNext]_dwVars

-----------------------------------------------------------------------------
(* Properties *)

\* Types of the tables and of the processes; Silver rows and matches refer to raw
\* transactions and targets that exist, their foreign keys.
DwTypeOK ==
    /\ v1 \subseteq Wallets \X Blocks /\ v1cp \in [Wallets -> Nat \cup {NoCheckpoint}]
    /\ raw \subseteq (Networks \cup Foreign) \X Blocks /\ dwSilver \subseteq raw
    /\ targets \subseteq TargetRows /\ matches \subseteq targets \X raw
    /\ v2cp \in [TargetRows -> Nat \cup {NoCheckpoint}] /\ orphans \in [Blocks -> Nat]
    /\ \A p \in Procs : ids[p] \subseteq (Networks \cup Foreign) \X Blocks /\ seen[p] \subseteq Blocks
    /\ \A p \in Procs : At(p, "idle") <=> cmd[p] = <<>>

\* "skipped rather than attached to a guessed network": after lost V2 writes, races
\* and healing, a row in raw_transactions or Silver is on a network where its
\* transaction happened, unless a normalize of its wallet named the network.
NetworkIsReal ==
    \A r \in raw : \E w \in Wallets : \/ <<r[1], w, r[2]>> \in OnChain
                                      \/ <<r[1], w>> \in told /\ <<w, r[2]>> \in v1

\* V1 is authoritative: whatever of V2 failed, the transactions of a wallet up to a
\* checkpoint an ingest may resume from are in V1, so that normalize can heal V2;
\* the first ingest looks back only Limit blocks, and older ones are not promised.
\* The V1 checkpoint belongs to the chain: it says nothing once an ingest of the
\* wallet has named another network.
CheckpointIsInV1 ==
    \A w \in Wallets : {n \in Networks : <<n, w>> \in named} \subseteq {DefaultNetwork} =>
        \A b \in Blocks : <<DefaultNetwork, w, b>> \in OnChain /\ origin[w] <= b =>
            /\ b <= v1cp[w] => <<w, b>> \in v1
            /\ \A t \in targets : t[1] = DefaultNetwork /\ t[2] = w /\ b <= v2cp[t] => <<w, b>> \in v1

\* "so target-scoped dataset queries ... can see V1-only data": a normalize none of
\* whose statements failed leaves each transaction it resolved in raw_transactions,
\* in Silver with its provenance, and matched to a target of the wallet.
HealedIsVisible ==
    \A p \in Procs : At(p, "done") /\ ~cliFault[p] =>
        \A r \in ids[p] :
            /\ r \in dwSilver
            /\ \E t \in targets : t[1] = r[1] /\ t[2] = CmdWallet(p) /\ <<t, r>> \in matches

-----------------------------------------------------------------------------
(* The inductive invariant: what holds at each statement of a command *)

Ingesting == {"lookup", "create", "v1", "raw", "matches", "cursor"}
Normalizing == {"networks", "heal", "owner", "owned", "silver", "done"}

\* What the processes hold.
ProcsOK ==
    /\ cpc \in [Procs -> {"idle"} \cup Ingesting \cup Normalizing]
    /\ cmd = [p \in Procs |-> cmd[p]] /\ tid = [p \in Procs |-> tid[p]]
    /\ seen \in [Procs -> SUBSET Blocks]
    /\ ids \in [Procs -> SUBSET ((Networks \cup Foreign) \X Blocks)]
    /\ cliFault \in [Procs -> BOOLEAN]
    /\ origin \in [Wallets -> Nat]
    /\ \A p \in Procs :
          IF At(p, "idle") THEN cmd[p] = <<>> /\ tid[p] = NoTarget
          ELSE cmd[p] \in Wallets \X (Networks \cup {NoNetwork})

\* A row on a network where its transaction happened, or which a user named for it.
Real(r) == \E w \in Wallets : \/ <<r[1], w, r[2]>> \in OnChain
                              \/ <<r[1], w>> \in told /\ <<w, r[2]>> \in v1

\* Nothing but the default network was named for the wallet.
DefaultOnly(w) == {n \in Networks : <<n, w>> \in named} \subseteq {DefaultNetwork}

\* What an ingest carries, with what V1 has, leaves no gap below its last block.
Carries(p) ==
    DefaultOnly(CmdWallet(p)) =>
        \A b \in Blocks, c \in seen[p] :
            /\ <<DefaultNetwork, CmdWallet(p), b>> \in OnChain
            /\ origin[CmdWallet(p)] <= b /\ b <= c
            => b \in seen[p] \/ <<CmdWallet(p), b>> \in v1

IngestOK(p) ==
    /\ <<Stamp(p), CmdWallet(p)>> \in named
    /\ \A b \in seen[p] : <<Stamp(p), CmdWallet(p), b>> \in OnChain
    /\ tid[p] \in {NoTarget, Ghost} \cup Rows(Stamp(p), CmdWallet(p), "user")
    /\ Carries(p)
    /\ cpc[p] \in {"raw", "matches", "cursor"} =>
          /\ tid[p] # NoTarget /\ seen[p] # {}
          /\ \A b \in seen[p] : <<CmdWallet(p), b>> \in v1
    /\ At(p, "matches") => RawOf(p) \subseteq raw

\* A row is matched to a target of the wallet on the row's network.
Matched(r, w) == \E t \in targets : t[1] = r[1] /\ t[2] = w /\ <<t, r>> \in matches

\* What each statement of normalize leaves behind; the promises end with a fault.
NormalizeOK(p) ==
    /\ At(p, "networks") =>
          /\ \A b \in seen[p] : <<CmdWallet(p), b>> \in v1
          /\ Option(p) # NoNetwork => <<Option(p), CmdWallet(p)>> \in told
    /\ cpc[p] \in {"owner", "owned", "silver", "done"} =>
          Resolved(p) \subseteq raw /\ (~cliFault[p] => seen[p] = {})
    /\ At(p, "owned") =>
          /\ tid[p] = [n \in DOMAIN tid[p] |-> tid[p][n]]
          /\ DOMAIN tid[p] \subseteq Networks \cup Foreign
          /\ \A n \in DOMAIN tid[p] : tid[p][n] \in {NoTarget} \cup Rows(n, CmdWallet(p), "none")
          /\ ~cliFault[p] => DOMAIN tid[p] = Groups(p)
    /\ cpc[p] \in {"silver", "done"} /\ ~cliFault[p] => \A r \in ids[p] : Matched(r, CmdWallet(p))
    /\ At(p, "done") /\ ~cliFault[p] => ids[p] \subseteq dwSilver

\* The processes about to create an unowned target that was missing at their lookup.
Creators(n, w) ==
    {p \in Procs : At(p, "owned") /\ CmdWallet(p) = w /\ n \in DOMAIN tid[p] /\ tid[p][n] = NoTarget}

\* Each of the unowned rows of a wallet was created by a process of its own.
CopiesOK ==
    \A n \in Networks \cup Foreign, w \in Wallets :
        Cardinality(Rows(n, w, "none")) + Cardinality(Creators(n, w)) <= Cardinality(Procs)

DwInv ==
    /\ DwTypeOK /\ ProcsOK /\ CopiesOK
    /\ \A r \in raw : Real(r)
    /\ \A p \in Procs : \A r \in ids[p] : Real(r)
    /\ CheckpointIsInV1
    /\ \A t \in TargetRows \ targets : v2cp[t] = NoCheckpoint
    /\ \A p \in Procs : cpc[p] \in Ingesting => IngestOK(p)
    /\ \A p \in Procs : NormalizeOK(p)
=============================================================================
