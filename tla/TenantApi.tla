------------------------------ MODULE TenantApi ------------------------------
(***************************************************************************)
(* The HTTP API (api/src/main.rs, workbench.rs): the requests of tenants   *)
(* and of the administrator over the shared tables.  A handler is a        *)
(* sequence of database statements, and those of two requests interleave.  *)
(*                                                                         *)
(* A target is named by its position in tgts; NoRow is an id without a row.*)
(* A transaction may move several wallets, of several tenants: its row is  *)
(* stored once and matched to each of their targets.  It stands for itself *)
(* and the rows that are read like it; ledger and balance rows are also of *)
(* a wallet.                                                               *)
(***************************************************************************)
EXTENDS Integers, Sequences, FiniteSets

CONSTANTS
    Reqs,       \* connections, each with one request at a time
    Tenants,    \* owner ids
    Admin,      \* AuthenticatedOwner(None), and a NULL owner_id
    Stranger,   \* the fresh owner id of an administrator's ingest
    LegacyKey,  \* the key of the configuration
    Keys,       \* API keys that may be created
    InitKeys,   \* InitKeys[k]: the tenant of a key that exists, or Admin
    InitTgts, InitJobs, InitIndexed,  \* rows that earlier requests have left
    Addrs,      \* wallet addresses
    Allowed,    \* allowed_wallets
    BadUrl,     \* addresses whose request has a bad callback or network
    Global,     \* the address of the global gRPC stream
    Txs, TxAddrs, \* transactions, and the wallets that each moves
    MaxTargets, MaxJobs,  \* bounds: rows of index_targets and of the job tables
    MaxRequests,          \* bound: requests authenticated
    MaxApiFaults          \* bound: failed statements

Owners == Tenants \cup {Admin, Stranger}
Places == Addrs \cup {Global}
TargetRow == [owner : Owners, addr : Places]
JobKinds == {"ingest", "normalize", "export"}
JobRow == [kind : JobKinds, target : Nat, addr : Places, owner : Owners]

\* The rows that exist already satisfy their foreign keys.
ASSUME ApiAssumption ==
    /\ Admin \notin Tenants \cup {Stranger} /\ Stranger \notin Tenants
    /\ LegacyKey \notin Keys /\ Global \notin Addrs
    /\ InitKeys \in [Keys -> Tenants \cup {Admin}]
    /\ Allowed \subseteq Addrs /\ BadUrl \subseteq Addrs
    /\ TxAddrs \in [Txs -> SUBSET Addrs]
    /\ MaxTargets \in Nat /\ MaxJobs \in Nat /\ MaxRequests \in Nat /\ MaxApiFaults \in Nat
    /\ InitTgts \in Seq(TargetRow) /\ Len(InitTgts) <= MaxTargets
    /\ InitJobs \in Seq(JobRow) /\ \A j \in 1..Len(InitJobs) : InitJobs[j].target <= Len(InitTgts)
    /\ InitIndexed \subseteq {p \in (1..Len(InitTgts)) \X Txs : InitTgts[p[1]].addr \in TxAddrs[p[2]]}

VARIABLES
    keyOwner,  \* keyOwner[k]: the owner in api_keys; Admin when there is no row
    revoked,   \* keys with a revoked_at
    tgts,      \* rows of index_targets: owner and address
    subs,      \* subs[id]: desired status of the target's subscription
    jobs,      \* rows of ingestion_jobs, materialization_runs and export_jobs
    indexed,   \* pairs <<target, transaction>> in target_matches
    rpc,       \* per request: the statement it is at
    tok,       \* per request: its key
    caller,    \* per request: the authenticated owner
    op, arg,   \* per request: its route and its parameter; of an ingest the owner
    todo,      \* per request: the wallets of an ingest left to queue
    tgt,       \* per request: the target it found or created
    reply,     \* per request: the rows of its answer
    requests,  \* requests authenticated
    apiFaults  \* failed statements

apiTables == <<keyOwner, revoked, tgts, subs, jobs, indexed>>
apiLocals == <<tok, caller, op, arg, todo, tgt, reply>>
apiVars == <<apiTables, rpc, apiLocals, requests, apiFaults>>

NoRow == 0
Ids == 1..Len(tgts)
Row(o, a) == [owner |-> o, addr |-> a]
Job(kind, id, a, o) == [kind |-> kind, target |-> id, addr |-> a, owner |-> o]

ApiInit ==
    /\ keyOwner = InitKeys /\ revoked = {}
    /\ tgts = InitTgts /\ jobs = InitJobs /\ indexed = InitIndexed
    /\ subs = [i \in 1..MaxTargets |-> "none"]
    /\ rpc = [r \in Reqs |-> "idle"]
    /\ tok = [r \in Reqs |-> LegacyKey] /\ caller = [r \in Reqs |-> Admin]
    /\ op = [r \in Reqs |-> "none"] /\ arg = [r \in Reqs |-> NoRow]
    /\ todo = [r \in Reqs |-> <<>>] /\ tgt = [r \in Reqs |-> NoRow]
    /\ reply = [r \in Reqs |-> {}]
    /\ requests = 0 /\ apiFaults = 0

Step(r, l) == rpc' = [rpc EXCEPT ![r] = l]
Find(r, i) == tgt' = [tgt EXCEPT ![r] = i]

ApiFault == apiFaults < MaxApiFaults /\ apiFaults' = apiFaults + 1

\* The connection is free again.
Close(r) ==
    /\ Step(r, "idle")
    /\ tok' = [tok EXCEPT ![r] = LegacyKey] /\ caller' = [caller EXCEPT ![r] = Admin]
    /\ op' = [op EXCEPT ![r] = "none"] /\ arg' = [arg EXCEPT ![r] = NoRow]
    /\ todo' = [todo EXCEPT ![r] = <<>>] /\ tgt' = [tgt EXCEPT ![r] = NoRow]
    /\ reply' = [reply EXCEPT ![r] = {}]

\* The request succeeds with these rows, or fails with an error.
Answer(r, rows) ==
    /\ Step(r, "done")
    /\ reply' = [reply EXCEPT ![r] = @ \cup rows]
    /\ UNCHANGED <<tok, caller, op, arg, todo, tgt>>
Refuse(r) == Close(r) /\ UNCHANGED apiTables

-----------------------------------------------------------------------------
(* Authentication *)

\* Mutant: a failed lookup of the key is taken for the administrator's key.
AuthenticateOpen(k, dbOk) ==
    IF k \in Keys /\ dbOk THEN IF keyOwner[k] # Admin /\ k \notin revoked THEN {keyOwner[k]} ELSE {}
    ELSE {Admin}

\* require_auth: the owner of a key that is not revoked, otherwise the key of the
\* configuration; a failed lookup counts as no such key.
Authenticate(k, dbOk) ==
    IF dbOk /\ k \in Keys /\ keyOwner[k] # Admin /\ k \notin revoked THEN {keyOwner[k]}
    ELSE IF k = LegacyKey THEN {Admin} ELSE {}

TargetRoutes == {"read", "ingest_target", "export", "normalize", "stop", "import"}
WalletRoutes == {"wallet", "register", "stream", "demo"}

\* A request of a route with its parameter; a batch is a sequence of wallets, and
\* each is validated before the first is queued.
Parameters(o) ==
    CASE o \in TargetRoutes -> Ids \cup {NoRow}
      [] o \in WalletRoutes -> Allowed \cup (IF o = "stream" THEN {Global} ELSE {})
      [] o = "ingest" -> {<<a>> : a \in Allowed} \cup (Allowed \X Allowed)
      [] o = "job" -> 1..Len(jobs)
      [] o \in {"create_key", "revoke_key"} -> Keys
      [] o = "list" -> {NoRow}

Routes == TargetRoutes \cup WalletRoutes \cup {"ingest", "job", "create_key", "revoke_key", "list"}

Request(r, k, o, a) ==
    /\ rpc[r] = "idle"
    /\ requests < MaxRequests
    /\ requests' = requests + 1
    /\ \E dbOk \in BOOLEAN :
        /\ IF dbOk THEN UNCHANGED apiFaults ELSE ApiFault
        /\ \E c \in Authenticate(k, dbOk) :
            /\ caller' = [caller EXCEPT ![r] = c]
            /\ arg' = [arg EXCEPT ![r] = IF o = "ingest" THEN c ELSE a]
    /\ tok' = [tok EXCEPT ![r] = k]
    /\ op' = [op EXCEPT ![r] = o]
    /\ todo' = [todo EXCEPT ![r] = IF o = "ingest" THEN a ELSE <<>>]
    /\ Step(r, "check")
    /\ UNCHANGED <<apiTables, tgt, reply>>

-----------------------------------------------------------------------------
(* Ownership *)

\* check_target_owner
OwnsTarget(c, i) == c = Admin \/ (i \in Ids /\ tgts[i].owner = c)

\* check_wallet_owner
OwnsWallet(c, a) == c = Admin \/ \E i \in Ids : tgts[i].owner = c /\ tgts[i].addr = a

\* get_job_status and get_export_job_status
OwnsJob(c, j) ==
    \/ c = Admin
    \/ j.kind = "ingest" /\ j.target # NoRow /\ OwnsTarget(c, j.target)
    \/ j.kind = "normalize" /\ OwnsWallet(c, j.addr)
    \/ j.kind = "export" /\ j.owner = c

\* get_index_target_by_address: one of the rows, or none.
Existing(o, a) ==
    LET rows == {i \in Ids : tgts[i] = Row(o, a)} IN IF rows = {} THEN {NoRow} ELSE rows

\* Mutant: the id that was not stored is used like one that was.
CreateRowFresh(r, o, a) ==
    IF o # Admin /\ \E i \in Ids : tgts[i] = Row(o, a)
    THEN Find(r, Len(tgts) + 1) /\ UNCHANGED tgts
    ELSE Len(tgts) < MaxTargets /\ tgts' = Append(tgts, Row(o, a)) /\ Find(r, Len(tgts) + 1)

\* create_index_target: a row of the same owner is kept, and the id of the row that
\* was not stored is returned; without an owner every row is stored.
CreateRow(r, o, a) ==
    IF o # Admin /\ \E i \in Ids : tgts[i] = Row(o, a)
    THEN Find(r, NoRow) /\ UNCHANGED tgts
    ELSE /\ Len(tgts) < MaxTargets
         /\ tgts' = Append(tgts, Row(o, a))
         /\ Find(r, Len(tgts) + 1)

\* A job row, with its owner; materialization_runs does not store the owner.
Enqueue(j) ==
    /\ Len(jobs) < MaxJobs
    /\ jobs' = Append(jobs, j)

-----------------------------------------------------------------------------
(* Handlers of a target: query_dataset_records, tax_export, the analytics, *)
(* get_target; trigger_target_ingest; create_export_job; trigger_normalize; *)
(* stop_stream.                                                            *)

\* Only the administrator may leave out the target, where a route has it optional,
\* and import unverified records.
CheckTarget(r) ==
    /\ rpc[r] = "check" /\ op[r] \in TargetRoutes
    /\ IF /\ OwnsTarget(caller[r], arg[r])
          /\ arg[r] \in Ids \/ op[r] \in {"read", "export"}
          /\ op[r] = "import" => caller[r] = Admin
          /\ op[r] = "ingest_target" => tgts[arg[r]].addr \in Allowed
       THEN Step(r, "act") /\ UNCHANGED <<apiTables, apiLocals>>
       ELSE Refuse(r)
    /\ UNCHANGED <<requests, apiFaults>>

\* The transactions matched to a target, or to any.
Matched(i) == {p[2] : p \in {q \in indexed : i \in {NoRow, q[1]}}}

\* The wallets' ledger: a transaction has rows of each wallet it was indexed for.
LedgerRows == {q \in Txs \X Addrs : \E i \in Ids : <<i, q[1]>> \in indexed /\ tgts[i].addr = q[2]}

\* build_dataset_filter_query joins the rows of a dataset with the target's matches:
\* the ledger rows of a transaction are those of every wallet in it.
TargetLedger(i) == {q \in LedgerRows : q[1] \in Matched(i)}

\* build_balance_history_target_filter_query also asks for the target's address.
TargetBalances(i) == {q \in TargetLedger(i) : i = NoRow \/ q[2] = tgts[i].addr}

ReadTarget(r) ==
    /\ rpc[r] = "act" /\ op[r] = "read"
    /\ Answer(r, {<<"target", i>> : i \in Ids \cap {arg[r]}} \cup ({"tx"} \X Matched(arg[r]))
            \cup ({"ledger"} \X TargetLedger(arg[r])) \cup ({"balance"} \X TargetBalances(arg[r])))
    /\ UNCHANGED <<apiTables, requests, apiFaults>>

\* The wallet to normalize is given by the client, the run's target is checked.
QueueForTarget(r) ==
    /\ rpc[r] = "act" /\ op[r] \in {"ingest_target", "export", "normalize"}
    /\ \E a \in IF op[r] = "normalize" THEN Allowed ELSE {IF arg[r] = NoRow THEN Global ELSE tgts[arg[r]].addr} :
        Enqueue(Job(IF op[r] = "ingest_target" THEN "ingest" ELSE op[r], arg[r], a, caller[r]))
    /\ Answer(r, {<<"job", Len(jobs) + 1>>})
    /\ UNCHANGED <<keyOwner, revoked, tgts, subs, indexed, requests, apiFaults>>

StopStream(r) ==
    /\ rpc[r] = "act" /\ op[r] = "stop"
    /\ IF subs[arg[r]] = "none" THEN Refuse(r)
       ELSE /\ subs' = [subs EXCEPT ![arg[r]] = "stopped"]
            /\ Answer(r, {})
            /\ UNCHANGED <<keyOwner, revoked, tgts, jobs, indexed>>
    /\ UNCHANGED <<requests, apiFaults>>

-----------------------------------------------------------------------------
(* Handlers of a wallet: get_transactions, get_ledger, export_ledger,      *)
(* get_balances, get_single_transaction, get_wallet_stats.                 *)

CheckWallet(r) ==
    /\ rpc[r] = "check" /\ op[r] = "wallet"
    /\ IF OwnsWallet(caller[r], arg[r])
       THEN Step(r, "act") /\ UNCHANGED <<apiTables, apiLocals>>
       ELSE Refuse(r)
    /\ UNCHANGED <<requests, apiFaults>>

\* get_wallet_transactions_v2: the transactions matched to the caller's targets.
WalletTransactions(c, a) ==
    {x \in Txs : \E i \in Ids : <<i, x>> \in indexed /\ tgts[i].addr = a /\ c \in {Admin, tgts[i].owner}}

\* get_wallet_ledger_v2: the ledger rows of the wallet, whoever had them indexed, for
\* a caller that has registered it.
WalletLedger(c, a) == {q \in LedgerRows : q[2] = a /\ OwnsWallet(c, a)}

\* get_wallet_stats_v2 counts both.
ReadWallet(r) ==
    /\ rpc[r] = "act" /\ op[r] = "wallet"
    /\ Answer(r, ({"tx"} \X WalletTransactions(caller[r], arg[r])) \cup ({"ledger"} \X WalletLedger(caller[r], arg[r])))
    /\ UNCHANGED <<apiTables, requests, apiFaults>>

-----------------------------------------------------------------------------
(* Handlers that create a target: trigger_ingest and its batch,            *)
(* start_stream, register_target, demo.                                    *)

Creates == {"ingest", "stream", "register", "demo"}
Address(r) == IF op[r] = "ingest" THEN Head(todo[r]) ELSE arg[r]

\* The owner of the target: the caller; an administrator's ingest takes the user_id
\* of the request, or a fresh one.
NewOwner(r) == IF caller[r] = Admin /\ op[r] = "ingest" THEN Tenants \cup {Stranger} ELSE {caller[r]}

\* The lookup.  An ingest validates its callback and network first, a tenant may not
\* start the global stream, and a registration does not look.
LookupTarget(r) ==
    /\ rpc[r] = "check" /\ op[r] \in Creates
    /\ \/ /\ \/ op[r] = "ingest" /\ Address(r) \in BadUrl
             \/ op[r] = "stream" /\ arg[r] = Global /\ caller[r] # Admin
          /\ Refuse(r) /\ UNCHANGED apiFaults
       \/ /\ ~(op[r] = "ingest" /\ Address(r) \in BadUrl)
          /\ ~(op[r] = "stream" /\ arg[r] = Global /\ caller[r] # Admin)
          /\ \E o \in NewOwner(r), i \in 0..Len(tgts) :
                /\ i \in IF op[r] = "register" THEN {NoRow} ELSE Existing(o, Address(r))
                /\ Find(r, i)
                /\ Step(r, IF i = NoRow THEN "create" ELSE "queue")
                /\ arg' = [arg EXCEPT ![r] = IF op[r] = "ingest" THEN o ELSE @]
          /\ UNCHANGED <<apiTables, tok, caller, op, todo, reply, apiFaults>>
    /\ UNCHANGED requests

\* An ingest goes on without a target when the statement fails; demo looks again.
CreateTarget(r) ==
    /\ rpc[r] = "create"
    /\ \/ CreateRow(r, IF op[r] = "ingest" THEN arg[r] ELSE caller[r], Address(r))
          /\ Step(r, "queue")
          /\ UNCHANGED <<keyOwner, revoked, subs, jobs, indexed, tok, caller, op, arg, todo, reply, apiFaults>>
       \/ /\ ApiFault
          /\ IF op[r] = "ingest"
             THEN Step(r, "queue_none") /\ UNCHANGED <<apiTables, apiLocals>>
             ELSE IF op[r] = "demo" /\ Existing(caller[r], arg[r]) # {NoRow}
             THEN /\ \E i \in Existing(caller[r], arg[r]) : Find(r, i)
                  /\ Step(r, "queue")
                  /\ UNCHANGED <<apiTables, tok, caller, op, arg, todo, reply>>
             ELSE Refuse(r)
    /\ UNCHANGED requests

\* Mutant: the job takes the id of the target without its foreign key.
QueueIngestAny(r) ==
    /\ rpc[r] \in {"queue", "queue_none"} /\ op[r] = "ingest"
    /\ Enqueue(Job("ingest", tgt[r], Address(r), arg[r]))
    /\ Answer(r, {<<"job", Len(jobs) + 1>>})
    /\ UNCHANGED <<keyOwner, revoked, tgts, subs, indexed, requests, apiFaults>>

\* enqueue_ingestion_job, for this wallet of the batch.  An error ends the batch:
\* the jobs before it stay queued and are not reported.
QueueIngest(r) ==
    /\ rpc[r] \in {"queue", "queue_none"} /\ op[r] = "ingest"
    /\ IF rpc[r] = "queue" /\ tgt[r] = NoRow THEN Refuse(r)
       ELSE /\ Enqueue(Job("ingest", tgt[r], Address(r), arg[r]))
            /\ Step(r, IF Len(todo[r]) = 1 THEN "done" ELSE "check")
            /\ reply' = [reply EXCEPT ![r] = @ \cup {<<"job", Len(jobs) + 1>>}]
            /\ todo' = [todo EXCEPT ![r] = Tail(@)]
            /\ Find(r, NoRow)
            /\ UNCHANGED <<keyOwner, revoked, tgts, subs, indexed, tok, caller, op, arg>>
    /\ UNCHANGED <<requests, apiFaults>>

\* upsert_stream_subscription: one row per target.
UpsertStream(r) ==
    /\ rpc[r] = "queue" /\ op[r] = "stream"
    /\ IF tgt[r] = NoRow THEN Refuse(r)
       ELSE /\ subs' = [subs EXCEPT ![tgt[r]] = "active"]
            /\ Answer(r, {<<"stream", tgt[r]>>})
            /\ UNCHANGED <<keyOwner, revoked, tgts, jobs, indexed>>
    /\ UNCHANGED <<requests, apiFaults>>

RegisterTarget(r) ==
    /\ rpc[r] = "queue" /\ op[r] = "register"
    /\ Answer(r, {<<"target", tgt[r]>>})
    /\ UNCHANGED <<apiTables, requests, apiFaults>>

\* import_raw_records: the matches, and a materialization run for a wallet.
ImportRaw(id, o) ==
    /\ indexed' = indexed \cup ({id} \X {x \in Txs : tgts[id].addr \in TxAddrs[x]})
    /\ IF tgts[id].addr = Global THEN UNCHANGED jobs
       ELSE Enqueue(Job("normalize", id, tgts[id].addr, o))

\* Of the bundled sample, or of an administrator's file; a target of no wallet passes
\* the allow list.
Import(r) ==
    /\ \/ rpc[r] = "queue" /\ op[r] = "demo"
       \/ rpc[r] = "act" /\ op[r] = "import"
    /\ LET id == IF op[r] = "demo" THEN tgt[r] ELSE arg[r]
       IN IF id = NoRow THEN Refuse(r)
          ELSE IF tgts[id].addr \notin Allowed \cup {Global} THEN Refuse(r)
          ELSE /\ ImportRaw(id, caller[r])
               /\ Answer(r, {<<"target", id>>}
                        \cup {<<"job", j>> : j \in (Len(jobs) + 1)..Len(jobs')})
               /\ UNCHANGED <<keyOwner, revoked, tgts, subs>>
    /\ UNCHANGED <<requests, apiFaults>>

-----------------------------------------------------------------------------
(* Job status, listings, API keys *)

ReadJob(r) ==
    /\ rpc[r] = "check" /\ op[r] = "job"
    /\ IF OwnsJob(caller[r], jobs[arg[r]])
       THEN Answer(r, {<<"job", arg[r]>>}) /\ UNCHANGED apiTables
       ELSE Refuse(r)
    /\ UNCHANGED <<requests, apiFaults>>

\* list_workbench_jobs: the jobs of the owner's targets, exports with their owner.
ListedJobs(c) ==
    {j \in 1..Len(jobs) :
        \/ c = Admin /\ (jobs[j].kind = "ingest" => jobs[j].target # NoRow)
        \/ /\ jobs[j].target # NoRow /\ tgts[jobs[j].target].owner = c
           /\ jobs[j].kind = "export" => jobs[j].owner = c}

\* list_index_targets_by_owner
ListedTargets(c) == {i \in Ids : OwnsTarget(c, i)}

\* list_stream_subscriptions
ListedStreams(c) == {i \in Ids : subs[i] = "active" /\ OwnsTarget(c, i)}

\* list_api_keys
ListedKeys(c) == {k \in Keys \ revoked : keyOwner[k] # Admin /\ c \in {Admin, keyOwner[k]}}

\* The listings, completeness and status.
List(r) ==
    /\ rpc[r] = "check" /\ op[r] = "list"
    /\ Answer(r, ({"target"} \X ListedTargets(caller[r])) \cup ({"stream"} \X ListedStreams(caller[r]))
            \cup ({"job"} \X ListedJobs(caller[r])) \cup ({"key"} \X ListedKeys(caller[r])))
    /\ UNCHANGED <<apiTables, requests, apiFaults>>

\* A tenant's key is its own, an administrator's key is for a given tenant.
CreateKey(r) ==
    /\ rpc[r] = "check" /\ op[r] = "create_key" /\ keyOwner[arg[r]] = Admin
    /\ \E o \in IF caller[r] = Admin THEN Tenants ELSE {caller[r]} : keyOwner' = [keyOwner EXCEPT ![arg[r]] = o]
    /\ Answer(r, {<<"key", arg[r]>>})
    /\ UNCHANGED <<revoked, tgts, subs, jobs, indexed, requests, apiFaults>>

\* Mutant: a key is revoked by its id alone.
RevokedByAnyone(c, k) == revoked \cup {k}

\* revoke_api_key, with the owner in its WHERE, and revoke_api_key_admin.
Revoked(c, k) == IF c = Admin \/ keyOwner[k] = c THEN revoked \cup {k} ELSE revoked

RevokeKey(r) ==
    /\ rpc[r] = "check" /\ op[r] = "revoke_key" /\ keyOwner[arg[r]] # Admin
    /\ revoked' = Revoked(caller[r], arg[r])
    /\ Answer(r, {})
    /\ UNCHANGED <<keyOwner, tgts, subs, jobs, indexed, requests, apiFaults>>

Respond(r) == rpc[r] = "done" /\ Close(r) /\ UNCHANGED <<apiTables, requests, apiFaults>>

\* The rate limit, the timeout of the server or a failed statement of a check.
Fail(r) ==
    /\ rpc[r] \notin {"idle", "done"}
    /\ ApiFault
    /\ Refuse(r)
    /\ UNCHANGED requests

\* A worker stores a transaction of a target that has a job or a stream.
Index(i, x) ==
    /\ i \in Ids /\ tgts[i].addr \in TxAddrs[x]
    /\ subs[i] = "active" \/ \E j \in 1..Len(jobs) : jobs[j].kind = "ingest" /\ jobs[j].target = i
    /\ indexed' = indexed \cup {<<i, x>>}
    /\ UNCHANGED <<keyOwner, revoked, tgts, subs, jobs, rpc, apiLocals, requests, apiFaults>>

Handle(r) ==
    \/ CheckTarget(r) \/ ReadTarget(r) \/ QueueForTarget(r) \/ StopStream(r)
    \/ CheckWallet(r) \/ ReadWallet(r)
    \/ LookupTarget(r) \/ CreateTarget(r) \/ QueueIngest(r) \/ UpsertStream(r)
    \/ RegisterTarget(r) \/ Import(r)
    \/ ReadJob(r) \/ List(r) \/ CreateKey(r) \/ RevokeKey(r)
    \/ Respond(r) \/ Fail(r)

ApiNext ==
    \/ \E r \in Reqs, k \in Keys \cup {LegacyKey}, o \in Routes : \E a \in Parameters(o) : Request(r, k, o, a)
    \/ \E r \in Reqs : Handle(r)
    \/ \E i \in Ids, x \in Txs : Index(i, x)

ApiSpec == ApiInit /\ [][ApiNext]_apiVars

-----------------------------------------------------------------------------
(* Properties *)

\* Types of the tables and of the requests; jobs, subscriptions and matches refer to
\* targets that exist, their foreign keys.
ApiTypeOK ==
    /\ keyOwner \in [Keys -> Tenants \cup {Admin}] /\ revoked \subseteq Keys
    /\ tgts \in Seq(TargetRow) /\ Len(tgts) <= MaxTargets
    /\ subs \in [1..MaxTargets -> {"none", "active", "stopped"}]
    /\ \A i \in 1..MaxTargets : subs[i] # "none" => i \in Ids
    /\ jobs \in Seq(JobRow) /\ \A j \in 1..Len(jobs) : jobs[j].target \in Ids \cup {NoRow}
    /\ indexed \subseteq Ids \X Txs
    /\ \A r \in Reqs : caller[r] \in Tenants \cup {Admin} /\ tgt[r] \in Ids \cup {NoRow}
    /\ requests \in 0..MaxRequests /\ apiFaults \in 0..MaxApiFaults

\* Who sent the request, by the key it was sent with.
Principal(r) == IF tok[r] = LegacyKey THEN Admin ELSE keyOwner[tok[r]]

\* A wallet of the tenant takes part in the transaction.
TakesPart(t, x) == \E i \in Ids : tgts[i].owner = t /\ tgts[i].addr \in TxAddrs[x]

\* A row a tenant may see.  A ledger row of a transaction that the tenant takes part
\* in may be another wallet's; a balance is of a wallet that it has registered.
VisibleTo(t, row) ==
    /\ row[1] = "target" => (row[2] \in Ids => tgts[row[2]].owner = t)
    /\ row[1] = "stream" => tgts[row[2]].owner = t
    /\ row[1] = "tx" => TakesPart(t, row[2])
    /\ row[1] = "ledger" => TakesPart(t, row[2][1])
    /\ row[1] = "balance" => \E i \in Ids : tgts[i].owner = t /\ tgts[i].addr = row[2][2]
    /\ row[1] = "job" =>
        \/ jobs[row[2]].owner = t
        \/ jobs[row[2]].target # NoRow /\ tgts[jobs[row[2]].target].owner = t
        \/ \E i \in Ids : tgts[i].owner = t /\ tgts[i].addr = jobs[row[2]].addr
    /\ row[1] = "key" => keyOwner[row[2]] = t

\* "Tenant isolation": whatever other requests do between the statements of its own,
\* a tenant's answer holds only its targets, streams, jobs and keys, transactions that
\* a wallet it has registered takes part in, ledger rows of those transactions and
\* balances of its wallets.
TenantSeesOwn ==
    \A r \in Reqs : rpc[r] = "done" /\ Principal(r) # Admin =>
        \A row \in reply[r] : VisibleTo(Principal(r), row)

\* What the tables hold of a tenant.
RowsOf(t) ==
    <<{k \in Keys : keyOwner[k] = t}, {k \in revoked : keyOwner[k] = t},
      {i \in Ids : tgts[i].owner = t}, {i \in Ids : tgts[i].owner = t /\ subs[i] = "active"},
      {j \in 1..Len(jobs) : jobs[j].target # NoRow /\ tgts[jobs[j].target].owner = t}>>

\* The keys, targets, streams and jobs of a tenant change only by a request sent with
\* a key of that tenant or of the administrator.
TenantRowsAreOwn ==
    [][\A t \in Tenants : RowsOf(t)' # RowsOf(t) =>
          \E r \in Reqs : rpc'[r] # rpc[r] /\ Principal(r) \in {t, Admin}]_apiVars

\* "Job queued": each job an answer names can be read by who got the answer, unless a
\* statement failed or the client had another wallet normalized than its target's.
AnsweredJobIsReadable ==
    \A r \in Reqs : rpc[r] = "done" /\ apiFaults = 0 =>
        \A row \in reply[r] : row[1] = "job" =>
            \/ OwnsJob(Principal(r), jobs[row[2]])
            \/ jobs[row[2]].kind = "normalize" /\ jobs[row[2]].addr # tgts[jobs[row[2]].target].addr

-----------------------------------------------------------------------------
(* The inductive invariant behind tenant isolation *)

ApiLabels == {"idle", "check", "act", "create", "queue", "queue_none", "done"}

\* A row of an answer that no later request can make invisible to the tenant.
Granted(t, row) ==
    \/ \E i \in Ids \cup {NoRow} : row = <<"target", i>> /\ (i # NoRow => tgts[i].owner = t)
    \/ \E i \in Ids : row = <<"stream", i>> /\ tgts[i].owner = t
    \/ \E x \in Txs : row = <<"tx", x>> /\ TakesPart(t, x)
    \/ \E q \in Txs \X Addrs : row = <<"ledger", q>> /\ TakesPart(t, q[1])
    \/ \E q \in Txs \X Addrs : row = <<"balance", q>> /\ \E i \in Ids : tgts[i].owner = t /\ tgts[i].addr = q[2]
    \/ \E k \in Keys : row = <<"key", k>> /\ keyOwner[k] = t
    \/ \E j \in 1..Len(jobs) : row = <<"job", j>> /\
            \/ jobs[j].owner = t
            \/ jobs[j].target # NoRow /\ tgts[jobs[j].target].owner = t
            \/ \E i \in Ids : tgts[i].owner = t /\ tgts[i].addr = jobs[j].addr

\* A job of an answer whose status the caller can ask for.
Readable(c, row) ==
    row[1] = "job" =>
        /\ row[2] \in 1..Len(jobs)
        /\ \/ OwnsJob(c, jobs[row[2]])
           \/ /\ jobs[row[2]].kind = "normalize" /\ jobs[row[2]].target # NoRow
              /\ jobs[row[2]].addr # tgts[jobs[row[2]].target].addr

\* The caller is who the key belongs to, whatever is created or revoked meanwhile.
CallerOK(r) ==
    /\ tok[r] \in Keys \cup {LegacyKey} /\ caller[r] \in Tenants \cup {Admin}
    /\ caller[r] = Principal(r) /\ (tok[r] \in Keys => caller[r] # Admin)

\* The parameter is what the route takes, and a target was checked before the handler acts.
ParameterOK(r) ==
    /\ op[r] \in TargetRoutes => arg[r] \in Ids \cup {NoRow}
    /\ op[r] \in WalletRoutes => arg[r] \in Places
    /\ op[r] = "job" => arg[r] \in 1..Len(jobs)
    /\ op[r] \in {"create_key", "revoke_key"} => arg[r] \in Keys
    /\ op[r] = "ingest" =>
        /\ arg[r] \in Owners /\ (caller[r] # Admin => arg[r] = caller[r])
        /\ todo[r] \in Seq(Addrs) /\ (rpc[r] # "done" => todo[r] # <<>>)
    /\ rpc[r] = "act" /\ op[r] \in TargetRoutes =>
        OwnsTarget(caller[r], arg[r]) /\ (arg[r] # NoRow \/ op[r] \in {"read", "export"})

\* A handler that creates a target holds a row of its own caller, or none.
FoundOK(r) ==
    /\ rpc[r] \in {"create", "queue", "queue_none"} => op[r] \in Creates
    /\ tgt[r] \in Ids \cup {NoRow}
    /\ tgt[r] # NoRow /\ caller[r] # Admin => tgts[tgt[r]].owner = caller[r]
    /\ rpc[r] \in {"idle", "create", "queue_none"} => tgt[r] = NoRow
    /\ rpc[r] = "queue_none" => op[r] = "ingest" /\ apiFaults > 0

ReplyOK(r) ==
    /\ rpc[r] = "idle" => reply[r] = {}
    /\ caller[r] # Admin => \A row \in reply[r] : Granted(caller[r], row)
    /\ apiFaults = 0 => \A row \in reply[r] : Readable(caller[r], row)

RequestOK(r) == CallerOK(r) /\ ParameterOK(r) /\ FoundOK(r) /\ ReplyOK(r)

\* Each connection has its variables.
LocalsOK ==
    /\ rpc \in [Reqs -> ApiLabels] /\ op \in [Reqs -> Routes \cup {"none"}]
    /\ DOMAIN tok = Reqs /\ DOMAIN caller = Reqs /\ DOMAIN arg = Reqs
    /\ DOMAIN todo = Reqs /\ DOMAIN tgt = Reqs /\ DOMAIN reply = Reqs

\* A match is of a transaction that its target's wallet takes part in.
MatchesOK == \A q \in indexed : tgts[q[1]].addr \in TxAddrs[q[2]]

ApiInv == ApiTypeOK /\ LocalsOK /\ MatchesOK /\ \A r \in Reqs : RequestOK(r)
=============================================================================
