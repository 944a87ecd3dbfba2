------------------------------ MODULE ApiProofs ------------------------------
(***************************************************************************)
(* Proofs about the HTTP API: tenant isolation of the requests (TenantApi) *)
(* and the limiter in front of them (RateLimiter).                         *)
(*                                                                         *)
(* The argument for isolation: the tables only grow (TablesGrow), so what  *)
(* a statement of a request has established (the caller, the checked       *)
(* target, the rows of the answer) still holds after whatever statements   *)
(* of other requests come in between; and each statement of the request    *)
(* itself establishes RequestOK again.                                     *)
(***************************************************************************)
EXTENDS ApiService, CountingLemmas

-----------------------------------------------------------------------------
(* The tables grow *)

\* The part of the invariant that is about the tables.
TablesOK ==
    /\ keyOwner \in [Keys -> Tenants \cup {Admin}] /\ revoked \subseteq Keys
    /\ tgts \in Seq(TargetRow) /\ Len(tgts) <= MaxTargets
    /\ subs \in [1..MaxTargets -> {"none", "active", "stopped"}]
    /\ \A i \in 1..MaxTargets : subs[i] # "none" => i \in Ids
    /\ jobs \in Seq(JobRow) /\ \A j \in 1..Len(jobs) : jobs[j].target \in Ids \cup {NoRow}
    /\ indexed \subseteq Ids \X Txs
    /\ requests \in 0..MaxRequests /\ apiFaults \in 0..MaxApiFaults
    /\ MatchesOK

\* Rows of targets and jobs stay, and so does the owner of a key once it has one.
TablesGrow ==
    /\ Len(tgts) <= Len(tgts') /\ \A i \in Ids : tgts'[i] = tgts[i]
    /\ Len(jobs) <= Len(jobs') /\ \A j \in 1..Len(jobs) : jobs'[j] = jobs[j]
    /\ \A k \in Keys : keyOwner[k] # Admin => keyOwner'[k] = keyOwner[k]
    /\ apiFaults <= apiFaults'

\* A step of request r: what its locals become, and that no other request's change.
Others(r) ==
    \A s \in Reqs \ {r} :
        /\ rpc'[s] = rpc[s] /\ tok'[s] = tok[s] /\ caller'[s] = caller[s] /\ op'[s] = op[s]
        /\ arg'[s] = arg[s] /\ todo'[s] = todo[s] /\ tgt'[s] = tgt[s] /\ reply'[s] = reply[s]

\* The invariant is that of the tables and that of every request.
LEMMA InvParts == ApiInv <=> TablesOK /\ LocalsOK /\ \A r \in Reqs : RequestOK(r)
  <1>1. ApiInv => TablesOK /\ LocalsOK /\ \A r \in Reqs : RequestOK(r)
    BY DEF ApiInv, ApiTypeOK, TablesOK
  <1>2. ASSUME \A r \in Reqs : RequestOK(r)
        PROVE  \A r \in Reqs : caller[r] \in Tenants \cup {Admin} /\ tgt[r] \in Ids \cup {NoRow}
    BY <1>2 DEF RequestOK, CallerOK, FoundOK
  <1> QED
    BY <1>1, <1>2 DEF ApiInv, ApiTypeOK, TablesOK

\* The targets and the jobs that a growing table had it still has.
LEMMA IdsGrow ==
    ASSUME TablesOK, TablesOK', TablesGrow
    PROVE  /\ Ids \subseteq Ids' /\ 1..Len(jobs) \subseteq 1..Len(jobs')
           /\ \A i \in Ids : i # NoRow
  <1>1. Len(tgts) \in Nat /\ Len(tgts') \in Nat /\ Len(jobs) \in Nat /\ Len(jobs') \in Nat
    BY DEF TablesOK
  <1> QED
    BY <1>1 DEF TablesGrow, Ids, NoRow

\* A row granted to a tenant stays granted.
LEMMA GrantedStays ==
    ASSUME TablesOK, TablesOK', TablesGrow, NEW t, t # Admin, NEW row, Granted(t, row)
    PROVE  Granted(t, row)'
  <1>1. Ids \subseteq Ids' /\ 1..Len(jobs) \subseteq 1..Len(jobs') /\ \A i \in Ids : tgts'[i] = tgts[i] /\ i # NoRow
    BY IdsGrow DEF TablesGrow
  <1>2. CASE \E i \in Ids \cup {NoRow} : row = <<"target", i>> /\ (i # NoRow => tgts[i].owner = t)
    BY <1>1, <1>2 DEF Granted, NoRow
  <1>3. CASE \E i \in Ids : row = <<"stream", i>> /\ tgts[i].owner = t
    BY <1>1, <1>3 DEF Granted
  <1>4. \A x : TakesPart(t, x) => TakesPart(t, x)'
    BY <1>1 DEF TakesPart
  <1>7. CASE \E x \in Txs : row = <<"tx", x>> /\ TakesPart(t, x)
    BY <1>4, <1>7 DEF Granted
  <1>8. CASE \E q \in Txs \X Addrs : row = <<"ledger", q>> /\ TakesPart(t, q[1])
    BY <1>4, <1>8 DEF Granted
  <1>9. CASE \E q \in Txs \X Addrs : row = <<"balance", q>> /\ \E i \in Ids : tgts[i].owner = t /\ tgts[i].addr = q[2]
    BY <1>1, <1>9 DEF Granted
  <1>5. CASE \E k \in Keys : row = <<"key", k>> /\ keyOwner[k] = t
    BY <1>5 DEF Granted, TablesGrow
  <1>6. ASSUME NEW j \in 1..Len(jobs), row = <<"job", j>>,
               \/ jobs[j].owner = t
               \/ jobs[j].target # NoRow /\ tgts[jobs[j].target].owner = t
               \/ \E i \in Ids : tgts[i].owner = t /\ tgts[i].addr = jobs[j].addr
        PROVE  Granted(t, row)'
    <2>1. j \in 1..Len(jobs') /\ jobs'[j] = jobs[j] /\ jobs[j].target \in Ids \cup {NoRow}
      BY <1>1 DEF TablesGrow, TablesOK
    <2>2. \/ jobs'[j].owner = t
          \/ jobs'[j].target # NoRow /\ tgts'[jobs'[j].target].owner = t
          \/ \E i \in Ids' : tgts'[i].owner = t /\ tgts'[i].addr = jobs'[j].addr
      BY <1>1, <1>6, <2>1
    <2> QED
      BY <2>1, <2>2, <1>6 DEF Granted, NoRow
  <1> QED
    BY <1>2, <1>3, <1>5, <1>6, <1>7, <1>8, <1>9 DEF Granted

\* Nor does a step change it that leaves the tables alone.
LEMMA GrantedSame ==
    ASSUME keyOwner' = keyOwner, tgts' = tgts, jobs' = jobs, Ids' = Ids, NEW t, NEW row, Granted(t, row)
    PROVE  Granted(t, row)'
  <1>1. CASE \E i \in Ids \cup {NoRow} : row = <<"target", i>> /\ (i # NoRow => tgts[i].owner = t)
    BY <1>1 DEF Granted, NoRow
  <1>2. CASE \E i \in Ids : row = <<"stream", i>> /\ tgts[i].owner = t
    BY <1>2 DEF Granted
  <1>3. \A x : TakesPart(t, x) => TakesPart(t, x)'
    BY DEF TakesPart
  <1>4. CASE \E x \in Txs : row = <<"tx", x>> /\ TakesPart(t, x)
    BY <1>3, <1>4 DEF Granted
  <1>5. CASE \E q \in Txs \X Addrs : row = <<"ledger", q>> /\ TakesPart(t, q[1])
    BY <1>3, <1>5 DEF Granted
  <1>6. CASE \E q \in Txs \X Addrs : row = <<"balance", q>> /\ \E i \in Ids : tgts[i].owner = t /\ tgts[i].addr = q[2]
    BY <1>6 DEF Granted
  <1>7. CASE \E k \in Keys : row = <<"key", k>> /\ keyOwner[k] = t
    BY <1>7 DEF Granted
  <1>8. CASE \E j \in 1..Len(jobs) : row = <<"job", j>> /\
                  \/ jobs[j].owner = t
                  \/ jobs[j].target # NoRow /\ tgts[jobs[j].target].owner = t
                  \/ \E i \in Ids : tgts[i].owner = t /\ tgts[i].addr = jobs[j].addr
    BY <1>8 DEF Granted, NoRow
  <1> QED
    BY <1>1, <1>2, <1>4, <1>5, <1>6, <1>7, <1>8 DEF Granted

\* What a caller owns it keeps.
LEMMA OwnershipStays ==
    ASSUME TablesOK, TablesOK', TablesGrow, NEW c
    PROVE  /\ \A i : OwnsTarget(c, i) => OwnsTarget(c, i)'
           /\ \A a : OwnsWallet(c, a) => OwnsWallet(c, a)'
           /\ \A j \in JobRow : OwnsJob(c, j) => OwnsJob(c, j)'
  <1>1. Ids \subseteq Ids' /\ \A i \in Ids : tgts'[i] = tgts[i]
    BY IdsGrow DEF TablesGrow
  <1>2. \A i : OwnsTarget(c, i) => OwnsTarget(c, i)'
    BY <1>1 DEF OwnsTarget
  <1>3. \A a : OwnsWallet(c, a) => OwnsWallet(c, a)'
    BY <1>1 DEF OwnsWallet
  <1>4. \A j \in JobRow : OwnsJob(c, j) => OwnsJob(c, j)'
    BY <1>2, <1>3 DEF OwnsJob, JobRow, JobKinds, NoRow
  <1> QED
    BY <1>2, <1>3, <1>4

\* A job that can be asked for stays so.
LEMMA ReadableStays ==
    ASSUME TablesOK, TablesOK', TablesGrow, NEW c, NEW row, Readable(c, row)
    PROVE  Readable(c, row)'
  <1> SUFFICES ASSUME row[1] = "job" PROVE Readable(c, row)'
    BY DEF Readable
  <1> DEFINE j == jobs[row[2]]
  <1>1. row[2] \in 1..Len(jobs) /\ row[2] \in 1..Len(jobs') /\ jobs'[row[2]] = j
    BY IdsGrow DEF Readable, TablesGrow
  <1>2. j \in JobRow /\ j.target \in Ids \cup {NoRow}
    BY <1>1 DEF TablesOK
  <1>3. OwnsJob(c, j) => OwnsJob(c, j)'
    BY <1>1, <1>2, OwnershipStays
  <1>4. j.target # NoRow => tgts'[j.target] = tgts[j.target]
    BY <1>2 DEF TablesGrow
  <1> QED
    BY <1>1, <1>2, <1>3, <1>4 DEF Readable, OwnsJob, OwnsTarget, OwnsWallet, NoRow

\* A request is not disturbed by the statements of others.
LEMMA RequestStays ==
    ASSUME TablesOK, TablesOK', TablesGrow, NEW s \in Reqs, RequestOK(s),
           rpc'[s] = rpc[s], tok'[s] = tok[s], caller'[s] = caller[s], op'[s] = op[s],
           arg'[s] = arg[s], todo'[s] = todo[s], tgt'[s] = tgt[s], reply'[s] = reply[s]
    PROVE  RequestOK(s)'
  <1>1. Ids \subseteq Ids' /\ 1..Len(jobs) \subseteq 1..Len(jobs') /\ \A i \in Ids : tgts'[i] = tgts[i] /\ i # NoRow
    BY IdsGrow DEF TablesGrow
  <1>2. CallerOK(s)'
    BY DEF RequestOK, CallerOK, Principal, TablesGrow
  <1>3. ParameterOK(s)'
    BY <1>1, OwnershipStays DEF RequestOK, ParameterOK, NoRow
  <1>4. FoundOK(s)'
    <2>1. apiFaults > 0 => apiFaults' > 0
      BY DEF TablesGrow, TablesOK
    <2> QED
      BY <1>1, <2>1 DEF RequestOK, FoundOK, NoRow
  <1>5. ReplyOK(s)'
    <2>1. apiFaults' = 0 => apiFaults = 0
      BY ApiAssumption DEF TablesGrow, TablesOK
    <2> QED
      BY <2>1, GrantedStays, ReadableStays DEF RequestOK, ReplyOK
  <1> QED
    BY <1>2, <1>3, <1>4, <1>5 DEF RequestOK

\* A statement of r keeps the invariant when it keeps the tables' and r's own part.
LEMMA StepOfRequest ==
    ASSUME ApiInv, NEW r \in Reqs, TablesOK', LocalsOK', TablesGrow, Others(r), RequestOK(r)'
    PROVE  ApiInv'
  <1>1. TablesOK /\ \A s \in Reqs : RequestOK(s)
    BY InvParts
  <1>2. ASSUME NEW s \in Reqs \ {r} PROVE RequestOK(s)'
    BY <1>1, RequestStays DEF Others
  <1>3. \A s \in Reqs : RequestOK(s)'
    BY <1>2
  <1>4. \A s \in Reqs : caller'[s] \in Tenants \cup {Admin} /\ tgt'[s] \in Ids' \cup {NoRow}
    BY <1>3 DEF RequestOK, CallerOK, FoundOK, NoRow
  <1> QED
    BY <1>3, <1>4 DEF ApiInv, ApiTypeOK, TablesOK, NoRow

-----------------------------------------------------------------------------
(* How a handler ends *)

\* Statements that write no table.
LEMMA TablesRest ==
    ASSUME TablesOK, UNCHANGED apiTables, requests' \in 0..MaxRequests,
           apiFaults' \in 0..MaxApiFaults, apiFaults <= apiFaults'
    PROVE  TablesOK' /\ TablesGrow
  <1>1. /\ keyOwner' = keyOwner /\ revoked' = revoked /\ tgts' = tgts
        /\ subs' = subs /\ jobs' = jobs /\ indexed' = indexed
    BY DEF apiTables
  <1>2. Len(tgts) \in Nat /\ Len(jobs) \in Nat
    BY DEF TablesOK
  <1> QED
    BY <1>1, <1>2 DEF TablesOK, TablesGrow, MatchesOK, Ids, NoRow

\* A counter of faults that stays or takes one more.
LEMMA FaultRange ==
    ASSUME TablesOK, ApiFault \/ UNCHANGED apiFaults
    PROVE  apiFaults' \in 0..MaxApiFaults /\ apiFaults <= apiFaults'
  BY ApiAssumption DEF TablesOK, ApiFault

\* A refusal closes the connection and forgets the request.
LEMMA RefuseStep ==
    ASSUME ApiInv, NEW r \in Reqs, Refuse(r), UNCHANGED requests, ApiFault \/ UNCHANGED apiFaults
    PROVE  ApiInv'
  <1>1. TablesOK /\ LocalsOK
    BY InvParts
  <1>2. TablesOK' /\ TablesGrow
    BY <1>1, TablesRest, FaultRange DEF Refuse, TablesOK
  <1>3. /\ rpc'[r] = "idle" /\ tok'[r] = LegacyKey /\ caller'[r] = Admin /\ op'[r] = "none"
        /\ tgt'[r] = NoRow /\ reply'[r] = {}
    BY <1>1 DEF Refuse, Close, Step, LocalsOK
  <1>4. LocalsOK' /\ Others(r)
    BY <1>1 DEF Refuse, Close, Step, LocalsOK, ApiLabels, Others
  <1>5. RequestOK(r)'
    BY <1>3, ApiAssumption DEF RequestOK, CallerOK, Principal, ParameterOK, FoundOK, ReplyOK, TargetRoutes, WalletRoutes, NoRow
  <1> QED
    BY <1>2, <1>4, <1>5, StepOfRequest

\* An answer keeps the invariant when its rows are the caller's.
LEMMA AnswerStep ==
    ASSUME ApiInv, NEW r \in Reqs, NEW rows, Answer(r, rows), TablesOK', TablesGrow,
           \A row \in rows : /\ caller[r] # Admin => Granted(caller[r], row)'
                             /\ apiFaults' = 0 => Readable(caller[r], row)'
    PROVE  ApiInv'
  <1>1. TablesOK /\ LocalsOK /\ RequestOK(r)
    BY InvParts
  <1>2. /\ rpc'[r] = "done" /\ reply'[r] = reply[r] \cup rows
        /\ tok' = tok /\ caller' = caller /\ op' = op /\ arg' = arg /\ todo' = todo /\ tgt' = tgt
    BY <1>1 DEF Answer, Step, LocalsOK
  <1>3. LocalsOK' /\ Others(r)
    BY <1>1 DEF Answer, Step, LocalsOK, ApiLabels, Others
  <1>4. Ids \subseteq Ids' /\ 1..Len(jobs) \subseteq 1..Len(jobs') /\ \A i \in Ids : tgts'[i] = tgts[i] /\ i # NoRow
    BY <1>1, IdsGrow DEF TablesGrow
  <1>5. CallerOK(r)'
    BY <1>1, <1>2 DEF RequestOK, CallerOK, Principal, TablesGrow
  <1>6. ParameterOK(r)'
    BY <1>1, <1>2, <1>4 DEF RequestOK, ParameterOK, NoRow
  <1>7. FoundOK(r)'
    BY <1>1, <1>2, <1>4 DEF RequestOK, FoundOK, NoRow
  <1>8. ReplyOK(r)'
    <2>1. apiFaults' = 0 => apiFaults = 0
      BY <1>1, ApiAssumption DEF TablesGrow, TablesOK
    <2>2. ASSUME NEW row \in reply[r], caller[r] # Admin PROVE Granted(caller[r], row)'
      BY <2>2, <1>1, <1>2, GrantedStays DEF RequestOK, ReplyOK
    <2>3. ASSUME NEW row \in reply[r], apiFaults' = 0 PROVE Readable(caller[r], row)'
      BY <2>1, <2>3, <1>1, <1>2, ReadableStays DEF RequestOK, ReplyOK
    <2> QED
      BY <2>2, <2>3, <1>2 DEF ReplyOK
  <1> QED
    BY <1>3, <1>5, <1>6, <1>7, <1>8, StepOfRequest DEF RequestOK

-----------------------------------------------------------------------------
(* Arrival, and the workers *)

\* The caller of a new request is the owner of its key.
LEMMA RequestStep ==
    ASSUME ApiInv, NEW r \in Reqs, NEW k \in Keys \cup {LegacyKey}, NEW o \in Routes,
           NEW a \in Parameters(o), Request(r, k, o, a)
    PROVE  ApiInv'
  <1>1. TablesOK /\ LocalsOK /\ RequestOK(r)
    BY InvParts
  <1>2. PICK c : /\ c \in UNION {Authenticate(k, dbOk) : dbOk \in BOOLEAN}
                 /\ caller' = [caller EXCEPT ![r] = c]
                 /\ arg' = [arg EXCEPT ![r] = IF o = "ingest" THEN c ELSE a]
    BY DEF Request
  <1>3. /\ rpc[r] = "idle" /\ rpc'[r] = "check" /\ tok'[r] = k /\ caller'[r] = c /\ op'[r] = o
        /\ arg'[r] = IF o = "ingest" THEN c ELSE a
        /\ todo'[r] = IF o = "ingest" THEN a ELSE <<>>
        /\ tgt'[r] = tgt[r] /\ reply'[r] = reply[r]
    BY <1>1, <1>2 DEF Request, Step, LocalsOK
  <1>4. LocalsOK' /\ Others(r)
    BY <1>1, <1>2 DEF Request, Step, LocalsOK, ApiLabels, Others
  <1>5. TablesOK' /\ TablesGrow
    <2>1. apiFaults' \in 0..MaxApiFaults /\ apiFaults <= apiFaults'
      BY <1>1, FaultRange DEF Request
    <2>2. requests' \in 0..MaxRequests
      BY <1>1, ApiAssumption DEF Request, TablesOK
    <2> QED
      BY <1>1, <2>1, <2>2, TablesRest DEF Request
  <1>6. apiTables' = apiTables /\ keyOwner' = keyOwner /\ tgts' = tgts /\ jobs' = jobs /\ Ids' = Ids
    BY DEF Request, apiTables, Ids
  <1>7. CallerOK(r)'
    <2>1. \/ k \in Keys /\ c = keyOwner[k] /\ c # Admin
          \/ k = LegacyKey /\ c = Admin
      BY <1>2, ApiAssumption DEF Authenticate
    <2>2. c \in Tenants \cup {Admin}
      BY <2>1, <1>1 DEF TablesOK
    <2> QED
      BY <2>1, <2>2, <1>3, <1>6, ApiAssumption DEF CallerOK, Principal
  <1>8. ParameterOK(r)'
    <2>1. CASE o \in TargetRoutes
      BY <2>1, <1>3, <1>6 DEF ParameterOK, Parameters, TargetRoutes, WalletRoutes, NoRow
    <2>2. CASE o \in WalletRoutes
      BY <2>2, <1>3, <1>6, ApiAssumption DEF ParameterOK, Parameters, TargetRoutes, WalletRoutes, Places
    <2>3. CASE o = "ingest"
      <3>1. a \in {<<b>> : b \in Allowed} \cup (Allowed \X Allowed)
        BY <2>3 DEF Parameters, TargetRoutes, WalletRoutes
      <3>2. ASSUME NEW b \in Allowed PROVE <<b>> \in Seq(Addrs) /\ <<b>> # <<>>
        BY ApiAssumption
      <3>3. ASSUME NEW b \in Allowed, NEW d \in Allowed PROVE <<b, d>> \in Seq(Addrs) /\ <<b, d>> # <<>>
        BY ApiAssumption
      <3>4. a \in Seq(Addrs) /\ a # <<>>
        <4>1. CASE a \in {<<b>> : b \in Allowed}
          BY <4>1, <3>2
        <4>2. CASE a \in Allowed \X Allowed
          <5>1. PICK b \in Allowed, d \in Allowed : a = <<b, d>>
            BY <4>2
          <5> QED
            BY <5>1, <3>3
        <4> QED
          BY <3>1, <4>1, <4>2
      <3>5. c \in Owners
        BY <1>7, <1>3 DEF CallerOK, Owners
      <3> QED
        BY <2>3, <3>4, <3>5, <1>3, <1>6 DEF ParameterOK, TargetRoutes, WalletRoutes
    <2>4. CASE o = "job"
      BY <2>4, <1>3, <1>6 DEF ParameterOK, Parameters, TargetRoutes, WalletRoutes
    <2>5. CASE o \in {"create_key", "revoke_key"}
      BY <2>5, <1>3, <1>6 DEF ParameterOK, Parameters, TargetRoutes, WalletRoutes
    <2>6. CASE o = "list"
      BY <2>6, <1>3, <1>6 DEF ParameterOK, TargetRoutes, WalletRoutes
    <2> QED
      BY <2>1, <2>2, <2>3, <2>4, <2>5, <2>6 DEF Routes
  <1>9. FoundOK(r)' /\ ReplyOK(r)'
    BY <1>1, <1>3, <1>6 DEF RequestOK, FoundOK, ReplyOK, NoRow
  <1> QED
    BY <1>4, <1>5, <1>7, <1>8, <1>9, StepOfRequest DEF RequestOK

\* A worker adds a match of the target's own wallet.
LEMMA IndexStep ==
    ASSUME ApiInv, NEW i \in Ids, NEW x \in Txs, Index(i, x)
    PROVE  ApiInv'
  <1>1. TablesOK /\ LocalsOK /\ \A s \in Reqs : RequestOK(s)
    BY InvParts
  <1>2. TablesOK' /\ TablesGrow
    <2>1. Len(tgts) \in Nat /\ Len(jobs) \in Nat
      BY <1>1 DEF TablesOK
    <2> QED
      <3>1. /\ i \in Ids /\ tgts[i].addr \in TxAddrs[x] /\ indexed' = indexed \cup {<<i, x>>}
            /\ UNCHANGED <<keyOwner, revoked, tgts, subs, jobs, requests, apiFaults>> /\ Ids' = Ids
        BY DEF Index, Ids
      <3>2. MatchesOK' /\ indexed' \subseteq Ids' \X Txs
        BY <1>1, <3>1 DEF TablesOK, MatchesOK
      <3>3. TablesOK'
        BY <1>1, <3>1, <3>2 DEF TablesOK
      <3>4. apiFaults \in Int
        BY <1>1, ApiAssumption DEF TablesOK
      <3>5. TablesGrow
        BY <2>1, <3>1, <3>4 DEF TablesGrow
      <3> QED
        BY <3>3, <3>5
  <1>3. ASSUME NEW s \in Reqs PROVE RequestOK(s)'
    BY <1>1, <1>2, RequestStays DEF Index, apiLocals
  <1>4. LocalsOK'
    BY <1>1 DEF LocalsOK, Index, apiLocals
  <1>5. \A s \in Reqs : caller'[s] \in Tenants \cup {Admin} /\ tgt'[s] \in Ids' \cup {NoRow}
    BY <1>3 DEF RequestOK, CallerOK, FoundOK, NoRow
  <1> QED
    BY <1>2, <1>3, <1>4, <1>5 DEF ApiInv, ApiTypeOK, TablesOK, NoRow

-----------------------------------------------------------------------------
(* Statements that read *)

\* An answer read from tables that stay as they are.
LEMMA ReadStep ==
    ASSUME ApiInv, NEW r \in Reqs, NEW rows, Answer(r, rows), UNCHANGED <<apiTables, requests, apiFaults>>,
           \A row \in rows : /\ caller[r] # Admin => Granted(caller[r], row)
                             /\ apiFaults = 0 => Readable(caller[r], row)
    PROVE  ApiInv'
  <1>1. TablesOK
    BY InvParts
  <1>2. TablesOK' /\ TablesGrow
    <2>1. requests' \in 0..MaxRequests /\ apiFaults' \in 0..MaxApiFaults /\ apiFaults <= apiFaults'
      BY <1>1, ApiAssumption DEF TablesOK
    <2> QED
      BY <1>1, <2>1, TablesRest
  <1>3. caller' = caller /\ apiFaults' = apiFaults
    BY DEF Answer
  <1>4. \A row \in rows : /\ caller[r] # Admin => Granted(caller[r], row)'
                          /\ apiFaults' = 0 => Readable(caller[r], row)'
    BY <1>1, <1>2, <1>3, GrantedStays, ReadableStays
  <1> QED
    BY <1>2, <1>4, AnswerStep

\* The check of a target: its answer still holds when the handler acts on it.
LEMMA CheckTargetStep ==
    ASSUME ApiInv, NEW r \in Reqs, CheckTarget(r)
    PROVE  ApiInv'
  <1>1. TablesOK /\ LocalsOK /\ RequestOK(r)
    BY InvParts
  <1>2. CASE Refuse(r)
    BY <1>2, RefuseStep DEF CheckTarget
  <1>3. CASE ~Refuse(r)
    <2>1. /\ Step(r, "act") /\ UNCHANGED <<apiTables, apiLocals, requests, apiFaults>>
          /\ OwnsTarget(caller[r], arg[r]) /\ (arg[r] \in Ids \/ op[r] \in {"read", "export"})
          /\ op[r] \in TargetRoutes
      BY <1>3 DEF CheckTarget
    <2>2. TablesOK' /\ TablesGrow
      <3>1. requests' \in 0..MaxRequests /\ apiFaults' \in 0..MaxApiFaults /\ apiFaults <= apiFaults'
        BY <1>1, <2>1, ApiAssumption DEF TablesOK
      <3> QED
        BY <1>1, <2>1, <3>1, TablesRest
    <2>3. LocalsOK' /\ Others(r) /\ rpc'[r] = "act"
      BY <1>1, <2>1 DEF Step, LocalsOK, ApiLabels, Others, apiLocals
    <2>4. /\ tok' = tok /\ caller' = caller /\ op' = op /\ arg' = arg /\ todo' = todo /\ tgt' = tgt /\ reply' = reply
          /\ keyOwner' = keyOwner /\ tgts' = tgts /\ jobs' = jobs /\ Ids' = Ids /\ apiFaults' = apiFaults
      BY <2>1 DEF apiLocals, apiTables, Ids
    <2>5. CallerOK(r)' /\ FoundOK(r)' /\ ReplyOK(r)'
      <3>1. CallerOK(r)' /\ FoundOK(r)'
        BY <1>1, <2>3, <2>4 DEF RequestOK, CallerOK, Principal, FoundOK, NoRow
      <3>2. \A row \in reply[r] : Granted(caller[r], row) => Granted(caller[r], row)'
        BY <2>4, GrantedSame
      <3>3. \A row \in reply[r] : Readable(caller[r], row) => Readable(caller[r], row)'
        BY <2>4 DEF Readable, OwnsJob, OwnsTarget, OwnsWallet, NoRow
      <3> QED
        BY <1>1, <2>3, <2>4, <3>1, <3>2, <3>3 DEF RequestOK, ReplyOK
    <2>6. ParameterOK(r)'
      <3>1. \A i \in Ids : i # NoRow
        BY <1>1 DEF TablesOK, Ids, NoRow
      <3> QED
        BY <1>1, <2>1, <2>3, <2>4, <3>1 DEF RequestOK, ParameterOK, OwnsTarget, TargetRoutes, WalletRoutes, NoRow
    <2> QED
      BY <2>2, <2>3, <2>5, <2>6, StepOfRequest DEF RequestOK
  <1> QED
    BY <1>2, <1>3

\* The check of a wallet; what is read after it is filtered by the caller once more.
LEMMA CheckWalletStep ==
    ASSUME ApiInv, NEW r \in Reqs, CheckWallet(r)
    PROVE  ApiInv'
  <1>1. TablesOK /\ LocalsOK /\ RequestOK(r)
    BY InvParts
  <1>2. CASE Refuse(r)
    BY <1>2, RefuseStep DEF CheckWallet
  <1>3. CASE ~Refuse(r)
    <2>1. Step(r, "act") /\ UNCHANGED <<apiTables, apiLocals, requests, apiFaults>> /\ op[r] = "wallet"
      BY <1>3 DEF CheckWallet
    <2>2. TablesOK' /\ TablesGrow
      <3>1. requests' \in 0..MaxRequests /\ apiFaults' \in 0..MaxApiFaults /\ apiFaults <= apiFaults'
        BY <1>1, <2>1, ApiAssumption DEF TablesOK
      <3> QED
        BY <1>1, <2>1, <3>1, TablesRest
    <2>3. LocalsOK' /\ Others(r) /\ rpc'[r] = "act"
      BY <1>1, <2>1 DEF Step, LocalsOK, ApiLabels, Others, apiLocals
    <2>4. /\ tok' = tok /\ caller' = caller /\ op' = op /\ arg' = arg /\ todo' = todo /\ tgt' = tgt /\ reply' = reply
          /\ keyOwner' = keyOwner /\ tgts' = tgts /\ jobs' = jobs /\ Ids' = Ids /\ apiFaults' = apiFaults
      BY <2>1 DEF apiLocals, apiTables, Ids
    <2>5. CallerOK(r)' /\ FoundOK(r)' /\ ParameterOK(r)'
      BY <1>1, <2>1, <2>3, <2>4 DEF RequestOK, CallerOK, Principal, FoundOK, ParameterOK, TargetRoutes, WalletRoutes, NoRow
    <2>6. \A row \in reply[r] : Granted(caller[r], row) => Granted(caller[r], row)'
      BY <2>4, GrantedSame
    <2>7. \A row \in reply[r] : Readable(caller[r], row) => Readable(caller[r], row)'
      BY <2>4 DEF Readable, OwnsJob, OwnsTarget, OwnsWallet, NoRow
    <2>8. ReplyOK(r)'
      BY <1>1, <2>3, <2>4, <2>6, <2>7 DEF RequestOK, ReplyOK
    <2> QED
      BY <2>2, <2>3, <2>5, <2>8, StepOfRequest DEF RequestOK
  <1> QED
    BY <1>2, <1>3

\* A ledger row is of a wallet that takes part in its transaction.
LEMMA LedgerRowsAre ==
    ASSUME TablesOK, NEW q \in LedgerRows
    PROVE  q \in Txs \X Addrs /\ q[2] \in TxAddrs[q[1]]
  <1>1. PICK i \in Ids : <<i, q[1]>> \in indexed /\ tgts[i].addr = q[2]
    BY DEF LedgerRows
  <1> QED
    BY <1>1 DEF LedgerRows, TablesOK, MatchesOK

\* A tenant's read of a target answers with transactions that the target's wallet
\* takes part in, with the ledger of these and with balances of that wallet.
LEMMA ReadTargetStep ==
    ASSUME ApiInv, NEW r \in Reqs, ReadTarget(r)
    PROVE  ApiInv'
  <1> DEFINE rows == {<<"target", i>> : i \in Ids \cap {arg[r]}} \cup ({"tx"} \X Matched(arg[r]))
                 \cup ({"ledger"} \X TargetLedger(arg[r])) \cup ({"balance"} \X TargetBalances(arg[r]))
  <1>1. TablesOK /\ RequestOK(r)
    BY InvParts
  <1>2. ASSUME caller[r] # Admin PROVE arg[r] \in Ids /\ tgts[arg[r]].owner = caller[r] /\ arg[r] # NoRow
    <2>1. OwnsTarget(caller[r], arg[r])
      BY <1>1 DEF ReadTarget, RequestOK, ParameterOK, TargetRoutes
    <2> QED
      BY <2>1, <1>1, <1>2 DEF OwnsTarget, Ids, NoRow, TablesOK
  <1>3. ASSUME NEW x \in Matched(arg[r]), caller[r] # Admin PROVE x \in Txs /\ TakesPart(caller[r], x)
    <2>1. PICK q \in indexed : x = q[2] /\ arg[r] \in {NoRow, q[1]}
      BY DEF Matched
    <2>2. q[2] \in Txs /\ q[1] = arg[r] /\ tgts[q[1]].addr \in TxAddrs[q[2]]
      BY <2>1, <1>1, <1>2, <1>3 DEF TablesOK, MatchesOK
    <2> QED
      BY <2>1, <2>2, <1>2, <1>3 DEF TakesPart
  <1>4. ASSUME NEW row \in rows, caller[r] # Admin PROVE Granted(caller[r], row)
    <2>1. CASE row \in {<<"target", i>> : i \in Ids \cap {arg[r]}}
      BY <2>1, <1>2, <1>4 DEF Granted
    <2>2. CASE row \in {"tx"} \X Matched(arg[r])
      BY <2>2, <1>3, <1>4 DEF Granted
    <2>3. CASE row \in {"ledger"} \X TargetLedger(arg[r])
      <3>1. PICK q \in LedgerRows : row = <<"ledger", q>> /\ q[1] \in Matched(arg[r])
        BY <2>3 DEF TargetLedger
      <3> QED
        BY <3>1, <1>1, <1>3, <1>4, LedgerRowsAre DEF Granted
    <2>4. CASE row \in {"balance"} \X TargetBalances(arg[r])
      <3>1. PICK q \in LedgerRows : row = <<"balance", q>> /\ (arg[r] = NoRow \/ q[2] = tgts[arg[r]].addr)
        BY <2>4 DEF TargetBalances, TargetLedger
      <3> QED
        BY <3>1, <1>1, <1>2, <1>4, LedgerRowsAre DEF Granted
    <2> QED
      BY <2>1, <2>2, <2>3, <2>4
  <1>5. \A row \in rows : Readable(caller[r], row)
    BY DEF Readable
  <1> QED
    BY <1>4, <1>5, ReadStep DEF ReadTarget

\* A tenant's read of a wallet answers with transactions and the ledger of a wallet
\* that it registered.
LEMMA ReadWalletStep ==
    ASSUME ApiInv, NEW r \in Reqs, ReadWallet(r)
    PROVE  ApiInv'
  <1> DEFINE rows == ({"tx"} \X WalletTransactions(caller[r], arg[r])) \cup ({"ledger"} \X WalletLedger(caller[r], arg[r]))
  <1>1. TablesOK
    BY InvParts
  <1>2. ASSUME NEW row \in rows, caller[r] # Admin PROVE Granted(caller[r], row)
    <2>1. CASE row \in {"tx"} \X WalletTransactions(caller[r], arg[r])
      <3>1. PICK x \in WalletTransactions(caller[r], arg[r]) : row = <<"tx", x>>
        BY <2>1
      <3>2. x \in Txs /\ TakesPart(caller[r], x)
        BY <3>1, <1>1, <1>2 DEF WalletTransactions, TablesOK, MatchesOK, TakesPart
      <3> QED
        BY <3>1, <3>2 DEF Granted
    <2>2. CASE row \in {"ledger"} \X WalletLedger(caller[r], arg[r])
      <3>1. PICK q \in LedgerRows : row = <<"ledger", q>> /\ q[2] = arg[r] /\ OwnsWallet(caller[r], arg[r])
        BY <2>2 DEF WalletLedger
      <3>2. q \in Txs \X Addrs /\ TakesPart(caller[r], q[1])
        BY <3>1, <1>1, <1>2, LedgerRowsAre DEF OwnsWallet, TakesPart
      <3> QED
        BY <3>1, <3>2 DEF Granted
    <2> QED
      BY <2>1, <2>2
  <1>3. \A row \in rows : Readable(caller[r], row)
    BY DEF Readable
  <1> QED
    BY <1>2, <1>3, ReadStep DEF ReadWallet

\* A job is shown to who owns it.
LEMMA ReadJobStep ==
    ASSUME ApiInv, NEW r \in Reqs, ReadJob(r)
    PROVE  ApiInv'
  <1>1. TablesOK /\ RequestOK(r)
    BY InvParts
  <1>2. CASE ~OwnsJob(caller[r], jobs[arg[r]])
    BY <1>2, RefuseStep DEF ReadJob
  <1>3. CASE OwnsJob(caller[r], jobs[arg[r]])
    <2>1. arg[r] \in 1..Len(jobs)
      BY <1>1 DEF ReadJob, RequestOK, ParameterOK
    <2>2. caller[r] # Admin => Granted(caller[r], <<"job", arg[r]>>)
      BY <1>3, <2>1 DEF OwnsJob, OwnsTarget, OwnsWallet, Granted
    <2>3. Readable(caller[r], <<"job", arg[r]>>)
      BY <1>3, <2>1 DEF Readable
    <2>4. Answer(r, {<<"job", arg[r]>>}) /\ UNCHANGED <<apiTables, requests, apiFaults>>
      BY <1>3 DEF ReadJob
    <2> QED
      BY <2>2, <2>3, <2>4, ReadStep
  <1> QED
    BY <1>2, <1>3

\* The listings are filtered by the owner.
LEMMA ListStep ==
    ASSUME ApiInv, NEW r \in Reqs, List(r)
    PROVE  ApiInv'
  <1> DEFINE c == caller[r]
             rows == ({"target"} \X ListedTargets(c)) \cup ({"stream"} \X ListedStreams(c))
                         \cup ({"job"} \X ListedJobs(c)) \cup ({"key"} \X ListedKeys(c))
  <1>1. TablesOK
    BY InvParts
  <1>2. ASSUME NEW row \in rows, c # Admin PROVE Granted(c, row)
    <2>1. CASE row \in {"target"} \X ListedTargets(c)
      BY <2>1, <1>2 DEF ListedTargets, OwnsTarget, Granted
    <2>2. CASE row \in {"stream"} \X ListedStreams(c)
      BY <2>2, <1>2 DEF ListedStreams, OwnsTarget, Granted
    <2>3. CASE row \in {"job"} \X ListedJobs(c)
      <3>1. PICK j \in ListedJobs(c) : row = <<"job", j>>
        BY <2>3
      <3>2. j \in 1..Len(jobs) /\ jobs[j].target # NoRow /\ tgts[jobs[j].target].owner = c
        BY <3>1, <1>2 DEF ListedJobs
      <3> QED
        BY <3>1, <3>2 DEF Granted
    <2>4. CASE row \in {"key"} \X ListedKeys(c)
      BY <2>4, <1>2 DEF ListedKeys, Granted
    <2> QED
      BY <2>1, <2>2, <2>3, <2>4
  <1>3. ASSUME NEW row \in rows, row[1] = "job" PROVE Readable(c, row)
    <2>1. PICK j \in ListedJobs(c) : row = <<"job", j>>
      BY <1>3
    <2>2. j \in 1..Len(jobs) /\ jobs[j] \in JobRow /\ jobs[j].target \in Ids \cup {NoRow}
      BY <2>1, <1>1 DEF ListedJobs, TablesOK
    <2>3. CASE c = Admin
      BY <2>1, <2>2, <2>3 DEF Readable, OwnsJob
    <2>4. CASE c # Admin
      <3>1. /\ jobs[j].target # NoRow /\ tgts[jobs[j].target].owner = c
            /\ jobs[j].kind = "export" => jobs[j].owner = c
        BY <2>1, <2>4 DEF ListedJobs
      <3>2. jobs[j].kind \in {"ingest", "normalize", "export"} /\ jobs[j].target \in Ids
        BY <2>2, <3>1 DEF JobRow, JobKinds
      <3> QED
        BY <2>1, <2>2, <2>4, <3>1, <3>2 DEF Readable, OwnsJob, OwnsTarget, OwnsWallet
    <2> QED
      BY <2>3, <2>4
  <1>4. \A row \in rows : Readable(c, row)
    BY <1>3 DEF Readable
  <1> QED
    BY <1>2, <1>4, ReadStep DEF List

-----------------------------------------------------------------------------
(* Statements that write *)

\* A job of an existing target, or of none, is appended; matches may come with it.
LEMMA EnqueueTables ==
    ASSUME TablesOK, NEW j \in JobRow, j.target \in Ids \cup {NoRow}, Enqueue(j),
           UNCHANGED <<keyOwner, revoked, tgts, subs, requests, apiFaults>>,
           indexed' \subseteq Ids \X Txs, \A q \in indexed' : tgts[q[1]].addr \in TxAddrs[q[2]]
    PROVE  /\ TablesOK' /\ TablesGrow
           /\ Len(jobs') = Len(jobs) + 1 /\ jobs'[Len(jobs) + 1] = j
  <1>1. Len(tgts) \in Nat /\ Len(jobs) \in Nat /\ jobs \in Seq(JobRow)
    BY DEF TablesOK
  <1>2. /\ jobs' \in Seq(JobRow) /\ Len(jobs') = Len(jobs) + 1 /\ jobs'[Len(jobs) + 1] = j
        /\ \A k \in 1..Len(jobs) : jobs'[k] = jobs[k]
    BY <1>1, SMTT(20) DEF Enqueue
  <1>3. Ids' = Ids
    BY DEF Ids
  <1>4. \A k \in 1..Len(jobs') : jobs'[k].target \in Ids' \cup {NoRow}
    BY <1>1, <1>2, <1>3 DEF TablesOK
  <1>5. TablesOK'
    BY <1>1, <1>2, <1>3, <1>4 DEF TablesOK, MatchesOK, NoRow
  <1>6. TablesGrow
    BY <1>1, <1>2, ApiAssumption DEF TablesOK, TablesGrow, Ids
  <1> QED
    BY <1>2, <1>5, <1>6

\* What a handler queues for the target it has checked.
LEMMA QueueForTargetStep ==
    ASSUME ApiInv, NEW r \in Reqs, QueueForTarget(r)
    PROVE  ApiInv'
  <1> DEFINE kind == IF op[r] = "ingest_target" THEN "ingest" ELSE op[r]
             c == caller[r]
  <1>1. TablesOK /\ RequestOK(r)
    BY InvParts
  <1>2. PICK a : /\ a \in IF op[r] = "normalize" THEN Allowed
                          ELSE {IF arg[r] = NoRow THEN Global ELSE tgts[arg[r]].addr}
                 /\ Enqueue(Job(kind, arg[r], a, c))
    BY DEF QueueForTarget
  <1>3. /\ arg[r] \in Ids \cup {NoRow} /\ OwnsTarget(c, arg[r])
        /\ arg[r] # NoRow \/ op[r] \in {"read", "export"}
        /\ op[r] \in {"ingest_target", "export", "normalize"}
    BY <1>1 DEF QueueForTarget, RequestOK, ParameterOK, TargetRoutes
  <1>4. c \in Tenants \cup {Admin}
    BY <1>1 DEF RequestOK, CallerOK
  <1>5. arg[r] \in Ids => tgts[arg[r]] \in TargetRow
    BY <1>1 DEF TablesOK, Ids
  <1>6. a \in Places
    BY <1>2, <1>3, <1>5, ApiAssumption DEF Places, TargetRow
  <1>7. arg[r] \in Nat
    BY <1>3, <1>1 DEF Ids, NoRow, TablesOK
  <1>8. Job(kind, arg[r], a, c) \in JobRow
    BY <1>3, <1>4, <1>6, <1>7 DEF Job, JobRow, JobKinds, Owners
  <1>9. Job(kind, arg[r], a, c).target \in Ids \cup {NoRow}
    BY <1>3 DEF Job
  <1>10. /\ TablesOK' /\ TablesGrow
         /\ Len(jobs') = Len(jobs) + 1 /\ jobs'[Len(jobs) + 1] = Job(kind, arg[r], a, c)
    <2>1. indexed' \subseteq Ids \X Txs /\ \A q \in indexed' : tgts[q[1]].addr \in TxAddrs[q[2]]
      BY <1>1 DEF QueueForTarget, TablesOK, MatchesOK
    <2> QED
      BY <1>1, <1>2, <1>8, <1>9, <2>1, EnqueueTables DEF QueueForTarget
  <1>11. PICK n : n = Len(jobs) + 1
    OBVIOUS
  <1>12. n \in 1..Len(jobs') /\ tgts' = tgts /\ Ids' = Ids /\ caller' = caller
    BY <1>1, <1>10, <1>11 DEF TablesOK, QueueForTarget, Ids, Answer
  <1>13. Granted(c, <<"job", n>>)'
    BY <1>10, <1>11, <1>12 DEF Granted, Job
  <1>14. Readable(c, <<"job", n>>)'
    <2> DEFINE j == Job(kind, arg[r], a, c)
    <2>1. j.kind = kind /\ j.target = arg[r] /\ j.addr = a /\ j.owner = c
      BY DEF Job
    <2>2. jobs'[n] = j /\ n \in 1..Len(jobs')
      BY <1>10, <1>11, <1>12
    <2> HIDE DEF j
    <2>3. CASE op[r] = "export"
      BY <2>1, <2>2, <2>3, <1>12 DEF Readable, OwnsJob
    <2>4. CASE op[r] # "export"
      <3>1. arg[r] # NoRow /\ arg[r] \in Ids /\ (c = Admin \/ tgts[arg[r]].owner = c)
        BY <2>4, <1>3 DEF OwnsTarget
      <3>2. CASE op[r] = "ingest_target"
        BY <2>1, <2>2, <3>1, <3>2, <1>12 DEF Readable, OwnsJob, OwnsTarget, NoRow
      <3>3. CASE op[r] = "normalize"
        BY <2>1, <2>2, <3>1, <3>3, <1>12 DEF Readable, OwnsJob, OwnsWallet, NoRow
      <3> QED
        BY <2>4, <3>2, <3>3, <1>3
    <2> QED
      BY <2>3, <2>4
  <1> QED
    BY <1>10, <1>11, <1>13, <1>14, AnswerStep DEF QueueForTarget

\* The stream of a target is stopped.
LEMMA StopStreamStep ==
    ASSUME ApiInv, NEW r \in Reqs, StopStream(r)
    PROVE  ApiInv'
  <1>1. TablesOK /\ RequestOK(r)
    BY InvParts
  <1>2. CASE subs[arg[r]] = "none"
    BY <1>2, RefuseStep DEF StopStream
  <1>3. CASE subs[arg[r]] # "none"
    <2>1. arg[r] \in Ids
      BY <1>1 DEF StopStream, RequestOK, ParameterOK, TargetRoutes
    <2>2. TablesOK' /\ TablesGrow
      <3>1. Len(tgts) \in Nat /\ Len(jobs) \in Nat
        BY <1>1 DEF TablesOK
      <3>2. Ids' = Ids
        BY <1>3 DEF StopStream, Ids
      <3>3. /\ subs' = [subs EXCEPT ![arg[r]] = "stopped"]
            /\ UNCHANGED <<keyOwner, revoked, tgts, jobs, indexed, requests, apiFaults>>
        BY <1>3 DEF StopStream
      <3>4. subs' \in [1..MaxTargets -> {"none", "active", "stopped"}]
        BY <1>1, <3>3 DEF TablesOK
      <3>5. \A i \in 1..MaxTargets : subs'[i] # "none" => i \in Ids'
        BY <1>1, <2>1, <3>2, <3>3 DEF TablesOK
      <3>6. MatchesOK'
        BY <1>1, <3>2, <3>3 DEF TablesOK, MatchesOK
      <3>7. TablesOK'
        BY <1>1, <3>2, <3>3, <3>4, <3>5, <3>6 DEF TablesOK
      <3>8. apiFaults \in Int
        BY <1>1, ApiAssumption DEF TablesOK
      <3>9. TablesGrow
        BY <3>1, <3>3, <3>8 DEF TablesGrow
      <3> QED
        BY <3>7, <3>9
    <2> QED
      BY <1>3, <2>2, AnswerStep DEF StopStream
  <1> QED
    BY <1>2, <1>3

\* The stream of a target the caller has found or created.
LEMMA UpsertStreamStep ==
    ASSUME ApiInv, NEW r \in Reqs, UpsertStream(r)
    PROVE  ApiInv'
  <1>1. TablesOK /\ RequestOK(r)
    BY InvParts
  <1>2. CASE tgt[r] = NoRow
    BY <1>2, RefuseStep DEF UpsertStream
  <1>3. CASE tgt[r] # NoRow
    <2>1. tgt[r] \in Ids /\ (caller[r] # Admin => tgts[tgt[r]].owner = caller[r])
      BY <1>1, <1>3 DEF RequestOK, FoundOK
    <2>2. Ids' = Ids /\ tgts' = tgts
      BY <1>3 DEF UpsertStream, Ids
    <2>3. TablesOK' /\ TablesGrow
      <3>1. Len(tgts) \in Nat /\ Len(jobs) \in Nat
        BY <1>1 DEF TablesOK
      <3>2. subs' = [subs EXCEPT ![tgt[r]] = "active"] /\ tgt[r] \in 1..MaxTargets
        BY <1>1, <1>3, <2>1, <3>1, ApiAssumption DEF UpsertStream, TablesOK, Ids
      <3>3. /\ subs' \in [1..MaxTargets -> {"none", "active", "stopped"}]
            /\ \A i \in 1..MaxTargets : subs'[i] # "none" => i \in Ids
        BY <1>1, <2>1, <3>2 DEF TablesOK
      <3>4. UNCHANGED <<keyOwner, revoked, tgts, jobs, indexed, requests, apiFaults>>
        BY <1>3 DEF UpsertStream
      <3>5. TablesOK'
        BY <1>1, <2>2, <3>3, <3>4 DEF TablesOK, MatchesOK, NoRow
      <3>6. TablesGrow
        BY <1>1, <3>1, <3>4, ApiAssumption DEF TablesOK, TablesGrow
      <3> QED
        BY <3>5, <3>6
    <2>4. PICK i : i = tgt[r]
      OBVIOUS
    <2>5. caller[r] # Admin => Granted(caller[r], <<"stream", i>>)'
      BY <1>3, <2>1, <2>2, <2>4 DEF Granted, UpsertStream, Answer
    <2>6. Readable(caller[r], <<"stream", i>>)'
      BY DEF Readable
    <2> QED
      BY <1>3, <2>3, <2>4, <2>5, <2>6, AnswerStep DEF UpsertStream
  <1> QED
    BY <1>2, <1>3

\* The lookup finds a row of the owner it looks for.
LEMMA LookupTargetStep ==
    ASSUME ApiInv, NEW r \in Reqs, LookupTarget(r)
    PROVE  ApiInv'
  <1>1. TablesOK /\ LocalsOK /\ RequestOK(r)
    BY InvParts
  <1>2. CASE Refuse(r) /\ UNCHANGED apiFaults
    BY <1>2, RefuseStep DEF LookupTarget
  <1>3. CASE ~(Refuse(r) /\ UNCHANGED apiFaults)
    <2>1. PICK o \in NewOwner(r), i \in 0..Len(tgts) :
            /\ i \in IF op[r] = "register" THEN {NoRow} ELSE Existing(o, Address(r))
            /\ Find(r, i)
            /\ Step(r, IF i = NoRow THEN "create" ELSE "queue")
            /\ arg' = [arg EXCEPT ![r] = IF op[r] = "ingest" THEN o ELSE @]
            /\ UNCHANGED <<apiTables, tok, caller, op, todo, reply, apiFaults>>
      BY <1>3 DEF LookupTarget
    <2>2. TablesOK' /\ TablesGrow
      <3>1. requests' \in 0..MaxRequests /\ apiFaults' \in 0..MaxApiFaults /\ apiFaults <= apiFaults'
        BY <1>1, <2>1, ApiAssumption DEF LookupTarget, TablesOK
      <3> QED
        BY <1>1, <2>1, <3>1, TablesRest
    <2>3. LocalsOK' /\ Others(r)
      BY <1>1, <2>1 DEF Step, Find, LocalsOK, ApiLabels, Others
    <2>4. /\ rpc[r] = "check" /\ rpc'[r] = IF i = NoRow THEN "create" ELSE "queue"
          /\ tgt'[r] = i /\ arg'[r] = IF op[r] = "ingest" THEN o ELSE arg[r]
          /\ op[r] \in Creates
      BY <1>1, <2>1 DEF LookupTarget, Step, Find, LocalsOK
    <2>5. /\ tok' = tok /\ caller' = caller /\ op' = op /\ todo' = todo /\ reply' = reply
          /\ keyOwner' = keyOwner /\ tgts' = tgts /\ jobs' = jobs /\ Ids' = Ids /\ apiFaults' = apiFaults
      BY <2>1 DEF apiTables, Ids
    <2>6. /\ o \in Owners /\ (caller[r] # Admin => o = caller[r])
          /\ i \in Ids \cup {NoRow} /\ (i # NoRow => tgts[i].owner = o)
      <3>1. caller[r] \in Tenants \cup {Admin}
        BY <1>1 DEF RequestOK, CallerOK
      <3>2. o \in Owners /\ (caller[r] # Admin => o = caller[r])
        BY <3>1, <2>1 DEF NewOwner, Owners
      <3>3. i = NoRow \/ (i \in Ids /\ tgts[i] = Row(o, Address(r)))
        BY <2>1 DEF Existing
      <3> QED
        BY <3>2, <3>3 DEF Row
    <2>7. CallerOK(r)' /\ ParameterOK(r)' /\ FoundOK(r)'
      <3>1. CallerOK(r)'
        BY <1>1, <2>5 DEF RequestOK, CallerOK, Principal
      <3>2. ParameterOK(r)'
        BY <1>1, <2>4, <2>5, <2>6 DEF RequestOK, ParameterOK, TargetRoutes, WalletRoutes, Creates, NoRow
      <3>3. FoundOK(r)'
        BY <2>4, <2>5, <2>6 DEF FoundOK, NoRow
      <3> QED
        BY <3>1, <3>2, <3>3
    <2>8. \A row \in reply[r] : Granted(caller[r], row) => Granted(caller[r], row)'
      BY <2>5, GrantedSame
    <2>9. \A row \in reply[r] : Readable(caller[r], row) => Readable(caller[r], row)'
      BY <2>5 DEF Readable, OwnsJob, OwnsTarget, OwnsWallet, NoRow
    <2>10. ReplyOK(r)'
      BY <1>1, <2>4, <2>5, <2>8, <2>9 DEF RequestOK, ReplyOK, NoRow
    <2> QED
      BY <2>2, <2>3, <2>7, <2>10, StepOfRequest DEF RequestOK
  <1> QED
    BY <1>2, <1>3

\* The wallet of a handler that creates a target.
LEMMA AddressOK ==
    ASSUME NEW r \in Reqs, RequestOK(r), op[r] \in Creates, rpc[r] # "done"
    PROVE  Address(r) \in Places
  <1>1. CASE op[r] = "ingest"
    <2>1. todo[r] \in Seq(Addrs) /\ todo[r] # <<>>
      BY <1>1 DEF RequestOK, ParameterOK
    <2>2. Head(todo[r]) \in Addrs
      BY <2>1
    <2> QED
      BY <1>1, <2>2 DEF Address, Places
  <1>2. CASE op[r] # "ingest"
    BY <1>2 DEF RequestOK, ParameterOK, Creates, WalletRoutes, Address
  <1> QED
    BY <1>1, <1>2

\* A new target is the caller's, or the owner's whom the administrator names.
LEMMA CreateRowTables ==
    ASSUME TablesOK, NEW o \in Owners, NEW a \in Places, NEW r \in Reqs, CreateRow(r, o, a),
           UNCHANGED <<keyOwner, revoked, subs, jobs, indexed, requests, apiFaults>>
    PROVE  /\ TablesOK' /\ TablesGrow
           /\ \E i \in Ids' \cup {NoRow} : Find(r, i) /\ (i # NoRow => tgts'[i].owner = o)
  <1>1. Len(tgts) \in Nat /\ Len(jobs) \in Nat /\ tgts \in Seq(TargetRow)
    BY DEF TablesOK
  <1>2. CASE Find(r, NoRow) /\ UNCHANGED tgts
    <2>1. UNCHANGED apiTables
      BY <1>2 DEF apiTables
    <2>2. requests' \in 0..MaxRequests /\ apiFaults' \in 0..MaxApiFaults /\ apiFaults <= apiFaults'
      BY ApiAssumption DEF TablesOK
    <2> QED
      BY <1>2, <2>1, <2>2, TablesRest
  <1>3. CASE Len(tgts) < MaxTargets /\ tgts' = Append(tgts, Row(o, a)) /\ Find(r, Len(tgts) + 1)
    <2>1. Row(o, a) \in TargetRow /\ Row(o, a).owner = o
      BY DEF Row, TargetRow
    <2>2. /\ tgts' \in Seq(TargetRow) /\ Len(tgts') = Len(tgts) + 1 /\ tgts'[Len(tgts) + 1] = Row(o, a)
          /\ \A i \in 1..Len(tgts) : tgts'[i] = tgts[i]
      BY <1>1, <1>3, <2>1
    <2>3. Ids \subseteq Ids' /\ Len(tgts) + 1 \in Ids' /\ \A i \in Ids : tgts'[i] = tgts[i]
      BY <1>1, <2>2 DEF Ids
    <2>4. MatchesOK' /\ indexed' \subseteq Ids' \X Txs
      BY <2>3 DEF TablesOK, MatchesOK
    <2>5. TablesOK'
      BY <1>1, <1>3, <2>2, <2>3, <2>4, ApiAssumption, SMTT(20) DEF TablesOK, NoRow
    <2>6. TablesGrow
      BY <1>1, <2>2, <2>3, ApiAssumption DEF TablesOK, TablesGrow
    <2> QED
      BY <1>3, <2>1, <2>2, <2>3, <2>5, <2>6
  <1> QED
    BY <1>2, <1>3 DEF CreateRow

\* The step of r to its queue statement with a target of its own.
LEMMA FoundStep ==
    ASSUME ApiInv, NEW r \in Reqs, TablesOK', TablesGrow, rpc[r] = "create", Step(r, "queue"),
           UNCHANGED <<tok, caller, op, arg, todo, reply>>,
           NEW i \in Ids' \cup {NoRow}, Find(r, i),
           i # NoRow /\ caller[r] # Admin => tgts'[i].owner = caller[r]
    PROVE  ApiInv'
  <1>1. TablesOK /\ LocalsOK /\ RequestOK(r)
    BY InvParts
  <1>2. LocalsOK' /\ Others(r)
    BY <1>1 DEF Step, Find, LocalsOK, ApiLabels, Others
  <1>3. rpc'[r] = "queue" /\ tgt'[r] = i /\ op[r] \in Creates
    BY <1>1 DEF Step, Find, LocalsOK, RequestOK, FoundOK
  <1>4. Ids \subseteq Ids' /\ 1..Len(jobs) \subseteq 1..Len(jobs')
    BY <1>1, IdsGrow
  <1>5. CallerOK(r)'
    BY <1>1 DEF RequestOK, CallerOK, Principal, TablesGrow
  <1>6. ParameterOK(r)'
    BY <1>1, <1>3, <1>4 DEF RequestOK, ParameterOK, TargetRoutes, WalletRoutes, Creates, NoRow
  <1>7. FoundOK(r)'
    BY <1>3 DEF FoundOK, NoRow
  <1>8. ReplyOK(r)'
    <2>1. apiFaults' = 0 => apiFaults = 0
      BY <1>1, ApiAssumption DEF TablesGrow, TablesOK
    <2> QED
      BY <1>1, <1>3, <2>1, GrantedStays, ReadableStays DEF RequestOK, ReplyOK
  <1> QED
    BY <1>2, <1>5, <1>6, <1>7, <1>8, StepOfRequest DEF RequestOK

\* The statement that creates a target, and its failure.
LEMMA CreateTargetStep ==
    ASSUME ApiInv, NEW r \in Reqs, CreateTarget(r)
    PROVE  ApiInv'
  <1> DEFINE o == IF op[r] = "ingest" THEN arg[r] ELSE caller[r]
  <1>1. TablesOK /\ LocalsOK /\ RequestOK(r) /\ rpc[r] = "create" /\ UNCHANGED requests
    BY InvParts DEF CreateTarget
  <1>2. op[r] \in Creates /\ tgt[r] = NoRow /\ caller[r] \in Tenants \cup {Admin}
    BY <1>1 DEF RequestOK, FoundOK, CallerOK
  <1>3. o \in Owners /\ (caller[r] # Admin => o = caller[r])
    BY <1>1, <1>2 DEF RequestOK, ParameterOK, Owners
  <1>4. Address(r) \in Places
    BY <1>1, <1>2, AddressOK
  <1>5. CASE /\ CreateRow(r, o, Address(r)) /\ Step(r, "queue")
             /\ UNCHANGED <<keyOwner, revoked, subs, jobs, indexed, tok, caller, op, arg, todo, reply, apiFaults>>
    <2> HIDE DEF o
    <2>1. /\ TablesOK' /\ TablesGrow
          /\ \E i \in Ids' \cup {NoRow} : Find(r, i) /\ (i # NoRow => tgts'[i].owner = o)
      BY <1>1, <1>3, <1>4, <1>5, CreateRowTables
    <2>2. PICK i \in Ids' \cup {NoRow} : Find(r, i) /\ (i # NoRow => tgts'[i].owner = o)
      BY <2>1
    <2> QED
      BY <1>1, <1>3, <1>5, <2>1, <2>2, FoundStep
  <1>6. CASE ApiFault /\ Refuse(r)
    BY <1>1, <1>6, RefuseStep
  <1>7. CASE /\ ApiFault /\ Step(r, "queue")
             /\ \E i \in Existing(caller[r], arg[r]) : Find(r, i)
             /\ UNCHANGED <<apiTables, tok, caller, op, arg, todo, reply>>
    <2>1. TablesOK' /\ TablesGrow
      <3>1. requests' \in 0..MaxRequests /\ apiFaults' \in 0..MaxApiFaults /\ apiFaults <= apiFaults'
        BY <1>1, <1>7, FaultRange DEF TablesOK
      <3> QED
        BY <1>1, <1>7, <3>1, TablesRest
    <2>2. tgts' = tgts /\ Ids' = Ids
      BY <1>7 DEF apiTables, Ids
    <2>3. PICK i : i \in Ids \cup {NoRow} /\ Find(r, i) /\ (i # NoRow => tgts[i].owner = caller[r])
      BY <1>7 DEF Existing, Row
    <2> QED
      BY <1>1, <1>7, <2>1, <2>2, <2>3, FoundStep
  <1>8. CASE op[r] = "ingest" /\ ApiFault /\ Step(r, "queue_none") /\ UNCHANGED <<apiTables, apiLocals>>
    <2>1. TablesOK' /\ TablesGrow
      <3>1. requests' \in 0..MaxRequests /\ apiFaults' \in 0..MaxApiFaults /\ apiFaults <= apiFaults'
        BY <1>1, <1>8, FaultRange DEF TablesOK
      <3> QED
        BY <1>1, <1>8, <3>1, TablesRest
    <2>2. LocalsOK' /\ Others(r) /\ rpc'[r] = "queue_none"
      BY <1>1, <1>8 DEF Step, LocalsOK, ApiLabels, Others, apiLocals
    <2>3. /\ tok' = tok /\ caller' = caller /\ op' = op /\ arg' = arg /\ todo' = todo /\ tgt' = tgt /\ reply' = reply
          /\ keyOwner' = keyOwner /\ tgts' = tgts /\ jobs' = jobs /\ Ids' = Ids /\ apiFaults' > 0
      BY <1>1, <1>8 DEF apiLocals, apiTables, Ids, ApiFault, TablesOK
    <2>4. CallerOK(r)' /\ FoundOK(r)' /\ ParameterOK(r)'
      BY <1>1, <1>2, <1>8, <2>2, <2>3
         DEF RequestOK, CallerOK, Principal, FoundOK, ParameterOK, TargetRoutes, WalletRoutes, NoRow
    <2>5. \A row \in reply[r] : Granted(caller[r], row) => Granted(caller[r], row)'
      BY <2>3, GrantedSame
    <2>6. ReplyOK(r)'
      BY <1>1, <2>2, <2>3, <2>5 DEF RequestOK, ReplyOK
    <2> QED
      BY <2>1, <2>2, <2>4, <2>6, StepOfRequest DEF RequestOK
  <1> QED
    BY <1>5, <1>6, <1>7, <1>8 DEF CreateTarget

\* One wallet of a batch is queued: the job is the caller's, with or without target.
LEMMA QueueIngestStep ==
    ASSUME ApiInv, NEW r \in Reqs, QueueIngest(r)
    PROVE  ApiInv'
  <1> DEFINE j == Job("ingest", tgt[r], Address(r), arg[r])
             c == caller[r]
  <1>1. TablesOK /\ LocalsOK /\ RequestOK(r)
    BY InvParts
  <1>2. CASE rpc[r] = "queue" /\ tgt[r] = NoRow
    BY <1>2, RefuseStep DEF QueueIngest
  <1>3. CASE ~(rpc[r] = "queue" /\ tgt[r] = NoRow)
    <2>1. /\ rpc[r] \in {"queue", "queue_none"} /\ op[r] = "ingest" /\ Enqueue(j)
          /\ Step(r, IF Len(todo[r]) = 1 THEN "done" ELSE "check")
          /\ reply' = [reply EXCEPT ![r] = @ \cup {<<"job", Len(jobs) + 1>>}]
          /\ todo' = [todo EXCEPT ![r] = Tail(@)] /\ Find(r, NoRow)
          /\ UNCHANGED <<keyOwner, revoked, tgts, subs, indexed, tok, caller, op, arg, requests, apiFaults>>
      BY <1>3 DEF QueueIngest
    <2>2. /\ arg[r] \in Owners /\ (c # Admin => arg[r] = c)
          /\ todo[r] \in Seq(Addrs) /\ todo[r] # <<>>
      BY <1>1, <2>1 DEF RequestOK, ParameterOK
    <2>3. /\ Address(r) \in Places /\ Tail(todo[r]) \in Seq(Addrs)
          /\ Len(todo[r]) # 1 => Tail(todo[r]) # <<>>
      <3>1. Head(todo[r]) \in Addrs /\ Tail(todo[r]) \in Seq(Addrs) /\ Len(Tail(todo[r])) = Len(todo[r]) - 1
        BY <2>2
      <3>2. Len(todo[r]) # 1 => Tail(todo[r]) # <<>>
        <4>1. Len(todo[r]) \in Nat /\ Len(<<>>) = 0
          BY <2>2
        <4>2. Tail(todo[r]) = <<>> => Len(Tail(todo[r])) = Len(<<>>)
          BY Zenon
        <4> HIDE DEF j, c
        <4> QED
          BY <3>1, <4>1, <4>2
      <3>3. Address(r) = Head(todo[r])
        BY <2>1 DEF Address
      <3> QED
        BY <3>1, <3>2, <3>3 DEF Places
    <2>4. tgt[r] \in Ids \cup {NoRow} /\ tgt[r] \in Nat
      BY <1>1 DEF RequestOK, FoundOK, Ids, NoRow, TablesOK
    <2>5. j \in JobRow /\ j.target \in Ids \cup {NoRow} /\ j.kind = "ingest" /\ j.target = tgt[r] /\ j.owner = arg[r]
      BY <2>2, <2>3, <2>4 DEF Job, JobRow, JobKinds
    <2> HIDE DEF j
    <2>6. TablesOK' /\ TablesGrow /\ Len(jobs') = Len(jobs) + 1 /\ jobs'[Len(jobs) + 1] = j
      <3>1. indexed' \subseteq Ids \X Txs /\ \A q \in indexed' : tgts[q[1]].addr \in TxAddrs[q[2]]
        BY <1>1, <2>1 DEF TablesOK, MatchesOK
      <3> QED
        BY <1>1, <2>1, <2>5, <3>1, EnqueueTables
    <2>7. LocalsOK' /\ Others(r)
      BY <1>1, <2>1 DEF Step, Find, LocalsOK, ApiLabels, Others
    <2>8. PICK n : n = Len(jobs) + 1
      OBVIOUS
    <2>9. /\ rpc'[r] = IF Len(todo[r]) = 1 THEN "done" ELSE "check"
          /\ reply'[r] = reply[r] \cup {<<"job", n>>} /\ todo'[r] = Tail(todo[r]) /\ tgt'[r] = NoRow
          /\ tok' = tok /\ caller' = caller /\ op' = op /\ arg' = arg /\ keyOwner' = keyOwner
          /\ tgts' = tgts /\ Ids' = Ids /\ apiFaults' = apiFaults
      BY <1>1, <2>1, <2>8 DEF Step, Find, LocalsOK, Ids
    <2>10. n \in 1..Len(jobs') /\ jobs'[n] = j
      BY <1>1, <2>6, <2>8 DEF TablesOK
    <2>11. CallerOK(r)' /\ ParameterOK(r)' /\ FoundOK(r)'
      <3>1. CallerOK(r)'
        BY <1>1, <2>9 DEF RequestOK, CallerOK, Principal
      <3>2. ParameterOK(r)'
        BY <2>1, <2>2, <2>3, <2>9 DEF ParameterOK, TargetRoutes, WalletRoutes
      <3>3. FoundOK(r)'
        BY <2>9 DEF FoundOK, NoRow
      <3> QED
        BY <3>1, <3>2, <3>3
    <2>12. c # Admin => Granted(c, <<"job", n>>)'
      BY <2>2, <2>5, <2>9, <2>10 DEF Granted
    <2>13. apiFaults = 0 => Readable(c, <<"job", n>>)'
      <3>1. ASSUME apiFaults = 0
            PROVE  tgt[r] # NoRow /\ tgt[r] \in Ids /\ (c # Admin => tgts[tgt[r]].owner = c)
        BY <3>1, <1>1, <1>3, <2>1 DEF RequestOK, FoundOK
      <3> QED
        BY <3>1, <2>5, <2>9, <2>10 DEF Readable, OwnsJob, OwnsTarget, NoRow
    <2>14. \A row \in reply[r] : (c # Admin => Granted(c, row)') /\ (apiFaults = 0 => Readable(c, row)')
      BY <1>1, <2>6, <2>9, GrantedStays, ReadableStays DEF RequestOK, ReplyOK
    <2>15. ReplyOK(r)'
      BY <2>9, <2>12, <2>13, <2>14 DEF ReplyOK
    <2> QED
      BY <2>6, <2>7, <2>11, <2>15, StepOfRequest DEF RequestOK
  <1> QED
    BY <1>2, <1>3

\* A registration reports the target it created, or an id without a row.
LEMMA RegisterTargetStep ==
    ASSUME ApiInv, NEW r \in Reqs, RegisterTarget(r)
    PROVE  ApiInv'
  <1>1. RequestOK(r)
    BY InvParts
  <1>2. caller[r] # Admin => Granted(caller[r], <<"target", tgt[r]>>)
    BY <1>1 DEF RequestOK, FoundOK, Granted
  <1>3. Readable(caller[r], <<"target", tgt[r]>>)
    BY DEF Readable
  <1> QED
    BY <1>2, <1>3, ReadStep DEF RegisterTarget

\* An import matches the transactions of the target's own wallet and queues its run.
LEMMA ImportStep ==
    ASSUME ApiInv, NEW r \in Reqs, Import(r)
    PROVE  ApiInv'
  <1> DEFINE id == IF op[r] = "demo" THEN tgt[r] ELSE arg[r]
             c == caller[r]
             j == Job("normalize", id, tgts[id].addr, c)
             rows == {<<"target", id>>} \cup {<<"job", k>> : k \in (Len(jobs) + 1)..Len(jobs')}
  <1>1. TablesOK /\ RequestOK(r)
    BY InvParts
  <1>2. CASE Refuse(r)
    BY <1>2, RefuseStep DEF Import
  <1>3. CASE ~Refuse(r)
    <2>1. /\ id # NoRow /\ ImportRaw(id, c) /\ Answer(r, rows)
          /\ UNCHANGED <<keyOwner, revoked, tgts, subs, requests, apiFaults>>
          /\ (rpc[r] = "queue" /\ op[r] = "demo") \/ (rpc[r] = "act" /\ op[r] = "import")
      <3>1. id # NoRow /\ tgts[id].addr \in Allowed \cup {Global}
        BY <1>3, Zenon DEF Import
      <3>2. ImportRaw(id, c) /\ Answer(r, rows) /\ UNCHANGED <<keyOwner, revoked, tgts, subs>>
        BY <1>3, <3>1, Zenon DEF Import
      <3> QED
        BY <3>1, <3>2 DEF Import
    <2>2. id \in Ids /\ (c # Admin => tgts[id].owner = c)
      <3>1. CASE op[r] = "demo"
        BY <1>1, <2>1, <3>1 DEF RequestOK, FoundOK
      <3>2. CASE op[r] # "demo"
        BY <1>1, <2>1, <3>2 DEF RequestOK, ParameterOK, OwnsTarget, TargetRoutes
      <3> QED
        BY <3>1, <3>2
    <2> HIDE DEF id
    <2>3. tgts[id] \in TargetRow /\ id \in Nat /\ c \in Tenants \cup {Admin}
      BY <1>1, <2>2 DEF TablesOK, Ids, RequestOK, CallerOK
    <2>4. /\ indexed' \subseteq Ids \X Txs /\ \A q \in indexed' : tgts[q[1]].addr \in TxAddrs[q[2]]
      BY <1>1, <2>1, <2>2 DEF ImportRaw, TablesOK, MatchesOK
    <2>5. PICK i : i = id
      OBVIOUS
    <2>6. tgts' = tgts /\ Ids' = Ids /\ caller' = caller
      BY <2>1 DEF Ids, Answer
    <2>7. CASE UNCHANGED jobs
      <3>1. TablesOK' /\ TablesGrow
        <4>1. Len(tgts) \in Nat /\ Len(jobs) \in Nat
          BY <1>1 DEF TablesOK
        <4> QED
          BY <1>1, <2>1, <2>4, <2>6, <2>7, <4>1, ApiAssumption DEF TablesOK, TablesGrow, MatchesOK, NoRow
      <3>2. c # Admin => Granted(c, <<"target", i>>)'
        BY <2>2, <2>5, <2>6 DEF Granted
      <3>3. Readable(c, <<"target", i>>)'
        BY DEF Readable
      <3>4. rows = {<<"target", i>>}
        BY <1>1, <2>5, <2>7 DEF TablesOK
      <3> QED
        BY <2>1, <3>1, <3>2, <3>3, <3>4, AnswerStep
    <2>8. CASE Enqueue(j)
      <3>1. j \in JobRow /\ j.target \in Ids \cup {NoRow}
        BY <2>2, <2>3 DEF Job, JobRow, JobKinds, TargetRow, Owners
      <3>2. j.kind = "normalize" /\ j.target = id /\ j.addr = tgts[id].addr /\ j.owner = c
        BY DEF Job
      <3> HIDE DEF j
      <3>3. TablesOK' /\ TablesGrow /\ Len(jobs') = Len(jobs) + 1 /\ jobs'[Len(jobs) + 1] = j
        BY <1>1, <2>1, <2>4, <2>8, <3>1, EnqueueTables
      <3>4. PICK n : n = Len(jobs) + 1
        OBVIOUS
      <3>5. n \in 1..Len(jobs') /\ jobs'[n] = j
        BY <1>1, <3>3, <3>4 DEF TablesOK
      <3>6. rows = {<<"target", i>>, <<"job", n>>}
        <4>1. (Len(jobs) + 1)..Len(jobs') = {n}
          BY <1>1, <3>3, <3>4 DEF TablesOK
        <4> QED
          BY <4>1, <2>5
      <3>7. c # Admin => Granted(c, <<"target", i>>)' /\ Granted(c, <<"job", n>>)'
        BY <2>2, <2>5, <2>6, <3>2, <3>5 DEF Granted
      <3>8. Readable(c, <<"target", i>>)' /\ Readable(c, <<"job", n>>)'
        <4>1. Readable(c, <<"target", i>>)'
          BY DEF Readable
        <4>2. Readable(c, <<"job", n>>)'
          BY <2>2, <2>6, <3>2, <3>5 DEF Readable, OwnsJob, OwnsWallet
        <4> QED
          BY <4>1, <4>2
      <3> QED
        BY <2>1, <3>3, <3>6, <3>7, <3>8, AnswerStep
    <2> QED
      BY <2>1, <2>7, <2>8 DEF ImportRaw
  <1> QED
    BY <1>2, <1>3

\* A key is created for a key id that had no owner.
LEMMA CreateKeyStep ==
    ASSUME ApiInv, NEW r \in Reqs, CreateKey(r)
    PROVE  ApiInv'
  <1>1. TablesOK /\ RequestOK(r)
    BY InvParts
  <1>2. arg[r] \in Keys /\ caller[r] \in Tenants \cup {Admin}
    BY <1>1 DEF CreateKey, RequestOK, ParameterOK, CallerOK
  <1>3. PICK o : /\ o \in IF caller[r] = Admin THEN Tenants ELSE {caller[r]}
                 /\ keyOwner' = [keyOwner EXCEPT ![arg[r]] = o]
    BY DEF CreateKey
  <1>4. UNCHANGED <<revoked, tgts, subs, jobs, indexed, requests, apiFaults>> /\ Ids' = Ids
    BY DEF CreateKey, Ids
  <1>5. keyOwner' \in [Keys -> Tenants \cup {Admin}]
    BY <1>1, <1>2, <1>3 DEF TablesOK
  <1>6. TablesOK'
    BY <1>1, <1>4, <1>5 DEF TablesOK, MatchesOK, NoRow
  <1>7. TablesGrow
    <2>1. Len(tgts) \in Nat /\ Len(jobs) \in Nat /\ keyOwner \in [Keys -> Tenants \cup {Admin}] /\ apiFaults \in Nat
      BY <1>1, ApiAssumption DEF TablesOK
    <2> QED
      BY <1>2, <1>3, <1>4, <2>1 DEF TablesGrow, CreateKey
  <1>8. PICK k : k = arg[r]
    OBVIOUS
  <1>9. caller[r] # Admin => Granted(caller[r], <<"key", k>>)'
    <2>1. caller' = caller /\ keyOwner'[k] = o
      BY <1>1, <1>2, <1>3, <1>8 DEF CreateKey, Answer, TablesOK
    <2> QED
      BY <1>2, <1>3, <1>8, <2>1 DEF Granted
  <1>10. Readable(caller[r], <<"key", k>>)'
    BY DEF Readable
  <1> QED
    BY <1>6, <1>7, <1>8, <1>9, <1>10, AnswerStep DEF CreateKey

\* A key is revoked; its owner stays in the table.
LEMMA RevokeKeyStep ==
    ASSUME ApiInv, NEW r \in Reqs, RevokeKey(r)
    PROVE  ApiInv'
  <1>1. TablesOK /\ RequestOK(r)
    BY InvParts
  <1>2. arg[r] \in Keys
    BY <1>1 DEF RevokeKey, RequestOK, ParameterOK
  <1>3. revoked' \subseteq Keys
    BY <1>1, <1>2 DEF RevokeKey, Revoked, TablesOK
  <1>4. UNCHANGED <<keyOwner, tgts, subs, jobs, indexed, requests, apiFaults>> /\ Ids' = Ids
    BY DEF RevokeKey, Ids
  <1>5. TablesOK'
    BY <1>1, <1>3, <1>4 DEF TablesOK, MatchesOK, NoRow
  <1>6. TablesGrow
    <2>1. Len(tgts) \in Nat /\ Len(jobs) \in Nat /\ apiFaults \in Nat
      BY <1>1, ApiAssumption DEF TablesOK
    <2> QED
      BY <1>4, <2>1 DEF TablesGrow
  <1> QED
    BY <1>5, <1>6, AnswerStep DEF RevokeKey

\* Every statement of a request keeps the invariant.
LEMMA HandleStep ==
    ASSUME ApiInv, NEW r \in Reqs, Handle(r)
    PROVE  ApiInv'
  <1>1. CASE Respond(r)
    BY <1>1, RefuseStep DEF Respond, Refuse
  <1>2. CASE Fail(r)
    BY <1>2, RefuseStep DEF Fail
  <1> QED
    BY <1>1, <1>2, CheckTargetStep, ReadTargetStep, QueueForTargetStep, StopStreamStep, CheckWalletStep,
       ReadWalletStep, LookupTargetStep, CreateTargetStep, QueueIngestStep, UpsertStreamStep,
       RegisterTargetStep, ImportStep, ReadJobStep, ListStep, CreateKeyStep, RevokeKeyStep DEF Handle

\* ApiInv is inductive.
LEMMA ApiInvStep == ApiInv /\ [ApiNext]_apiVars => ApiInv'
  <1> SUFFICES ASSUME ApiInv, [ApiNext]_apiVars PROVE ApiInv'
    OBVIOUS
  <1>1. CASE UNCHANGED apiVars
    <2>1. /\ keyOwner' = keyOwner /\ revoked' = revoked /\ tgts' = tgts /\ subs' = subs /\ jobs' = jobs
          /\ indexed' = indexed /\ rpc' = rpc /\ tok' = tok /\ caller' = caller /\ op' = op /\ arg' = arg
          /\ todo' = todo /\ tgt' = tgt /\ reply' = reply /\ requests' = requests /\ apiFaults' = apiFaults
      BY <1>1 DEF apiVars, apiTables, apiLocals
    <2>2. Ids' = Ids
      BY <2>1 DEF Ids
    <2>3. ApiTypeOK' /\ LocalsOK' /\ MatchesOK'
      BY <2>1, <2>2 DEF ApiInv, ApiTypeOK, LocalsOK, MatchesOK, NoRow
    <2>4. TablesOK /\ \A s \in Reqs : RequestOK(s)
      BY InvParts
    <2>5. TablesOK' /\ TablesGrow
      <3>1. Len(tgts) \in Nat /\ Len(jobs) \in Nat /\ apiFaults \in Nat
        BY <2>4, ApiAssumption DEF TablesOK
      <3> QED
        BY <2>1, <2>2, <2>4, <3>1 DEF TablesOK, TablesGrow, MatchesOK, NoRow
    <2>6. \A s \in Reqs : RequestOK(s)'
      BY <2>1, <2>4, <2>5, RequestStays
    <2> QED
      BY <2>3, <2>6 DEF ApiInv
  <1> QED
    BY <1>1, RequestStep, HandleStep, IndexStep DEF ApiNext

\* The rows that exist at the start satisfy it.
LEMMA ApiInvInit == ApiInit => ApiInv
  <1> SUFFICES ASSUME ApiInit PROVE ApiInv
    OBVIOUS
  <1>1. TablesOK
    <2>1. Ids = 1..Len(InitTgts) /\ Len(InitTgts) \in Nat
      BY ApiAssumption DEF ApiInit, Ids
    <2>2. \A j \in 1..Len(InitJobs) : InitJobs[j].target \in Nat /\ InitJobs[j].target <= Len(InitTgts)
      <3>1. \A j \in 1..Len(InitJobs) : InitJobs[j] \in JobRow
        BY ApiAssumption
      <3> QED
        BY <3>1, ApiAssumption DEF JobRow
    <2>3. \A j \in 1..Len(InitJobs) : InitJobs[j].target \in Ids \cup {NoRow}
      BY <2>1, <2>2 DEF NoRow
    <2>4. MatchesOK /\ indexed \subseteq Ids \X Txs
      BY <2>1, ApiAssumption DEF ApiInit, MatchesOK
    <2> QED
      BY <2>1, <2>3, <2>4, ApiAssumption DEF ApiInit, TablesOK
  <1>2. LocalsOK
    BY DEF ApiInit, LocalsOK, ApiLabels
  <1>3. ASSUME NEW r \in Reqs PROVE RequestOK(r)
    BY ApiAssumption DEF ApiInit, RequestOK, CallerOK, Principal, ParameterOK, FoundOK, ReplyOK,
       TargetRoutes, WalletRoutes, NoRow
  <1> QED
    BY <1>1, <1>2, <1>3, InvParts

-----------------------------------------------------------------------------
(* Whose rows a statement writes *)

\* A step that leaves the keys, targets, streams and jobs alone.
LEMMA RowsRest ==
    ASSUME NEW t, UNCHANGED <<keyOwner, revoked, tgts, subs, jobs>>
    PROVE  RowsOf(t)' = RowsOf(t)
  BY DEF RowsOf, Ids, NoRow

\* The target named is not of the tenant.
NotOf(t, i) == i \in Ids /\ tgts[i].owner # t

\* A job for another tenant's target, or for none, is not among the tenant's.
LEMMA JobOfOther ==
    ASSUME TablesOK, NEW t, NEW j \in JobRow, Enqueue(j), j.target # NoRow => NotOf(t, j.target),
           UNCHANGED <<keyOwner, revoked, tgts, subs>>
    PROVE  RowsOf(t)' = RowsOf(t)
  <1> DEFINE mine(s, n) == {k \in 1..n : s[k].target # NoRow /\ tgts[s[k].target].owner = t}
  <1>1. Len(jobs) \in Nat /\ jobs \in Seq(JobRow)
    BY DEF TablesOK
  <1>2. /\ Len(jobs') = Len(jobs) + 1 /\ jobs'[Len(jobs) + 1] = j
        /\ \A k \in 1..Len(jobs) : jobs'[k] = jobs[k]
    BY <1>1 DEF Enqueue
  <1>3. mine(jobs', Len(jobs')) = mine(jobs, Len(jobs))
    BY <1>1, <1>2 DEF NotOf
  <1> QED
    BY <1>3 DEF RowsOf, Ids, NoRow

\* The stream of another tenant's target is not among the tenant's.
LEMMA StreamOfOther ==
    ASSUME TablesOK, NEW t, NEW i, NotOf(t, i), NEW x, subs' = [subs EXCEPT ![i] = x],
           UNCHANGED <<keyOwner, revoked, tgts, jobs>>
    PROVE  RowsOf(t)' = RowsOf(t)
  <1>1. \A k \in Ids : k \in 1..MaxTargets
    BY ApiAssumption DEF TablesOK, Ids
  <1>2. \A k \in Ids : tgts[k].owner = t => subs'[k] = subs[k]
    BY <1>1 DEF NotOf, TablesOK
  <1>3. {k \in Ids : tgts[k].owner = t /\ subs'[k] = "active"} = {k \in Ids : tgts[k].owner = t /\ subs[k] = "active"}
    BY <1>2
  <1> QED
    BY <1>3 DEF RowsOf, Ids, NoRow

\* A target created for another owner is not among the tenant's, and has no stream or
\* job yet.
LEMMA TargetOfOther ==
    ASSUME TablesOK, NEW t, NEW row \in TargetRow, row.owner # t, tgts' = Append(tgts, row),
           UNCHANGED <<keyOwner, revoked, subs, jobs>>
    PROVE  RowsOf(t)' = RowsOf(t)
  <1>1. Len(tgts) \in Nat /\ tgts \in Seq(TargetRow)
    BY DEF TablesOK
  <1>2. /\ Len(tgts') = Len(tgts) + 1 /\ tgts'[Len(tgts) + 1] = row
        /\ \A i \in Ids : tgts'[i] = tgts[i]
    BY <1>1 DEF Ids
  <1>3. Ids' = Ids \cup {Len(tgts) + 1}
    BY <1>1, <1>2 DEF Ids
  <1>4. {i \in Ids' : tgts'[i].owner = t} = {i \in Ids : tgts[i].owner = t}
    BY <1>2, <1>3
  <1>5. {i \in Ids' : tgts'[i].owner = t /\ subs[i] = "active"} = {i \in Ids : tgts[i].owner = t /\ subs[i] = "active"}
    BY <1>2, <1>3
  <1>6. {j \in 1..Len(jobs) : jobs[j].target # NoRow /\ tgts'[jobs[j].target].owner = t}
           = {j \in 1..Len(jobs) : jobs[j].target # NoRow /\ tgts[jobs[j].target].owner = t}
    <2>1. \A j \in 1..Len(jobs) : jobs[j].target # NoRow => tgts'[jobs[j].target] = tgts[jobs[j].target]
      BY <1>2 DEF TablesOK
    <2> QED
      BY <2>1
  <1> QED
    BY <1>4, <1>5, <1>6 DEF RowsOf, NoRow

\* A key created for another owner, out of an id without one, is not the tenant's.
LEMMA KeyOfOther ==
    ASSUME TablesOK, NEW t \in Tenants, NEW k \in Keys, keyOwner[k] = Admin, NEW o, o # t,
           keyOwner' = [keyOwner EXCEPT ![k] = o], UNCHANGED <<revoked, tgts, subs, jobs>>
    PROVE  RowsOf(t)' = RowsOf(t)
  <1>1. Admin # t
    BY ApiAssumption
  <1>2. \A h \in Keys : keyOwner'[h] = t <=> keyOwner[h] = t
    BY <1>1 DEF TablesOK
  <1>3. {h \in Keys : keyOwner'[h] = t} = {h \in Keys : keyOwner[h] = t}
    BY <1>2
  <1>4. {h \in revoked : keyOwner'[h] = t} = {h \in revoked : keyOwner[h] = t}
    BY <1>2 DEF TablesOK
  <1> QED
    BY <1>3, <1>4 DEF RowsOf, Ids, NoRow

\* A statement of another tenant's request writes no row of the tenant.
LEMMA HandleRows ==
    ASSUME ApiInv, NEW r \in Reqs, Handle(r), NEW t \in Tenants, caller[r] \notin {t, Admin}
    PROVE  RowsOf(t)' = RowsOf(t)
  <1> DEFINE c == caller[r]
  <1>1. TablesOK /\ RequestOK(r) /\ c \in Tenants /\ c # t /\ c # Admin
    BY InvParts DEF RequestOK, CallerOK
  <1>2. ASSUME Refuse(r) \/ UNCHANGED apiTables PROVE RowsOf(t)' = RowsOf(t)
    BY <1>2, RowsRest DEF Refuse, apiTables
  <1>3. CASE \/ CheckTarget(r) \/ ReadTarget(r) \/ CheckWallet(r) \/ ReadWallet(r) \/ LookupTarget(r)
             \/ RegisterTarget(r) \/ ReadJob(r) \/ List(r) \/ Respond(r) \/ Fail(r)
    <2>1. Refuse(r) \/ UNCHANGED apiTables
      BY <1>3 DEF CheckTarget, ReadTarget, CheckWallet, ReadWallet, LookupTarget, RegisterTarget, ReadJob,
                  List, Respond, Fail, apiTables
    <2> QED
      BY <1>2, <2>1
  <1>4. CASE QueueForTarget(r)
    <2> DEFINE kind == IF op[r] = "ingest_target" THEN "ingest" ELSE op[r]
    <2>1. PICK a : /\ a \in IF op[r] = "normalize" THEN Allowed
                            ELSE {IF arg[r] = NoRow THEN Global ELSE tgts[arg[r]].addr}
                   /\ Enqueue(Job(kind, arg[r], a, c))
      BY <1>4 DEF QueueForTarget
    <2>2. arg[r] \in Ids \cup {NoRow} /\ OwnsTarget(c, arg[r]) /\ kind \in JobKinds
      BY <1>1, <1>4 DEF QueueForTarget, RequestOK, ParameterOK, TargetRoutes, JobKinds
    <2>3. NotOf(t, arg[r])
      BY <1>1, <2>2 DEF NotOf, OwnsTarget
    <2>4. a \in Places /\ arg[r] \in Nat
      <3>1. arg[r] \in Ids => tgts[arg[r]].addr \in Places
        <4>1. arg[r] \in Ids => tgts[arg[r]] \in TargetRow
          BY <1>1 DEF TablesOK, Ids
        <4> QED
          BY <4>1 DEF TargetRow
      <3>2. arg[r] \in Nat
        BY <1>1, <2>2 DEF Ids, NoRow, TablesOK
      <3> QED
        BY <2>1, <2>2, <3>1, <3>2, ApiAssumption DEF Places
    <2>5. Job(kind, arg[r], a, c) \in JobRow /\ Job(kind, arg[r], a, c).target = arg[r]
      BY <1>1, <2>2, <2>4 DEF Job, JobRow, Owners
    <2>6. UNCHANGED <<keyOwner, revoked, tgts, subs>>
      BY <1>4 DEF QueueForTarget
    <2> HIDE DEF kind
    <2> QED
      BY <1>1, <2>1, <2>3, <2>5, <2>6, JobOfOther
  <1>5. CASE StopStream(r)
    <2>1. CASE Refuse(r)
      BY <1>2, <2>1
    <2>2. CASE subs' = [subs EXCEPT ![arg[r]] = "stopped"] /\ UNCHANGED <<keyOwner, revoked, tgts, jobs>>
      <3>1. NotOf(t, arg[r])
        BY <1>1, <1>5 DEF StopStream, RequestOK, ParameterOK, OwnsTarget, TargetRoutes, NotOf
      <3> QED
        BY <1>1, <2>2, <3>1, StreamOfOther
    <2> QED
      BY <1>5, <2>1, <2>2 DEF StopStream
  <1>6. CASE UpsertStream(r)
    <2>1. CASE Refuse(r)
      BY <1>2, <2>1
    <2>2. CASE ~Refuse(r)
      <3>1. /\ tgt[r] # NoRow /\ subs' = [subs EXCEPT ![tgt[r]] = "active"]
            /\ UNCHANGED <<keyOwner, revoked, tgts, jobs>>
        BY <1>6, <2>2 DEF UpsertStream
      <3>2. NotOf(t, tgt[r])
        BY <1>1, <3>1 DEF RequestOK, FoundOK, NotOf
      <3> QED
        BY <1>1, <3>1, <3>2, StreamOfOther
    <2> QED
      BY <2>1, <2>2
  <1>7. CASE CreateTarget(r)
    <2> DEFINE o == IF op[r] = "ingest" THEN arg[r] ELSE caller[r]
    <2>1. CASE CreateRow(r, o, Address(r)) /\ UNCHANGED <<keyOwner, revoked, subs, jobs>>
      <3>1. op[r] \in Creates /\ rpc[r] = "create"
        BY <1>1, <1>7 DEF CreateTarget, RequestOK, FoundOK
      <3>2. o = c
        BY <1>1 DEF RequestOK, ParameterOK
      <3>3. Address(r) \in Places
        BY <1>1, <3>1, AddressOK
      <3>4. Row(c, Address(r)) \in TargetRow /\ Row(c, Address(r)).owner = c
        BY <1>1, <3>3 DEF Row, TargetRow, Owners
      <3>5. CASE tgts' = Append(tgts, Row(c, Address(r)))
        BY <1>1, <2>1, <3>4, <3>5, TargetOfOther
      <3>6. CASE UNCHANGED tgts
        BY <2>1, <3>6, RowsRest
      <3> QED
        BY <2>1, <3>2, <3>5, <3>6 DEF CreateRow
    <2>2. CASE Refuse(r) \/ UNCHANGED apiTables
      BY <1>2, <2>2
    <2> QED
      BY <1>7, <2>1, <2>2 DEF CreateTarget
  <1>8. CASE QueueIngest(r)
    <2>1. CASE Refuse(r)
      BY <1>2, <2>1
    <2>2. CASE ~Refuse(r)
      <3>1. /\ Enqueue(Job("ingest", tgt[r], Address(r), arg[r]))
            /\ UNCHANGED <<keyOwner, revoked, tgts, subs>> /\ op[r] = "ingest" /\ rpc[r] \in {"queue", "queue_none"}
        BY <1>8, <2>2 DEF QueueIngest
      <3>2. tgt[r] \in Nat /\ (tgt[r] # NoRow => NotOf(t, tgt[r]))
        BY <1>1 DEF RequestOK, FoundOK, NotOf, Ids, NoRow, TablesOK
      <3>3. Address(r) \in Places /\ arg[r] \in Owners
        BY <1>1, <3>1, AddressOK DEF RequestOK, ParameterOK, Creates
      <3>4. /\ Job("ingest", tgt[r], Address(r), arg[r]) \in JobRow
            /\ Job("ingest", tgt[r], Address(r), arg[r]).target = tgt[r]
        BY <3>2, <3>3 DEF Job, JobRow, JobKinds
      <3> QED
        BY <1>1, <3>1, <3>2, <3>4, JobOfOther
    <2> QED
      BY <2>1, <2>2
  <1>9. CASE Import(r)
    <2> DEFINE id == IF op[r] = "demo" THEN tgt[r] ELSE arg[r]
    <2>1. CASE Refuse(r)
      BY <1>2, <2>1
    <2>2. CASE ~Refuse(r)
      <3>1. id # NoRow
        BY <1>9, <2>2, Zenon DEF Import
      <3>2. ImportRaw(id, c) /\ UNCHANGED <<keyOwner, revoked, tgts, subs>>
        BY <1>9, <2>2, <3>1, Zenon DEF Import
      <3>3. NotOf(t, id)
        <4>1. (rpc[r] = "queue" /\ op[r] = "demo") \/ (rpc[r] = "act" /\ op[r] = "import")
          BY <1>9 DEF Import
        <4>2. op[r] = "demo" => NotOf(t, id)
          BY <1>1, <3>1 DEF RequestOK, FoundOK, NotOf
        <4>3. op[r] # "demo" => NotOf(t, id)
          BY <1>1, <3>1, <4>1 DEF RequestOK, ParameterOK, OwnsTarget, TargetRoutes, NotOf
        <4> QED
          BY <4>2, <4>3
      <3> HIDE DEF id
      <3>4. CASE UNCHANGED jobs
        BY <3>2, <3>4, RowsRest
      <3>5. CASE Enqueue(Job("normalize", id, tgts[id].addr, c))
        <4>1. tgts[id] \in TargetRow /\ id \in Nat
          BY <1>1, <3>3 DEF NotOf, TablesOK, Ids
        <4>2. /\ Job("normalize", id, tgts[id].addr, c) \in JobRow
              /\ Job("normalize", id, tgts[id].addr, c).target = id
          BY <1>1, <4>1 DEF Job, JobRow, JobKinds, TargetRow, Owners
        <4> QED
          BY <1>1, <3>2, <3>3, <3>5, <4>2, JobOfOther
      <3> QED
        BY <3>2, <3>4, <3>5 DEF ImportRaw
    <2> QED
      BY <2>1, <2>2
  <1>10. CASE CreateKey(r)
    <2>1. arg[r] \in Keys /\ keyOwner[arg[r]] = Admin
      BY <1>1, <1>10 DEF CreateKey, RequestOK, ParameterOK
    <2>2. keyOwner' = [keyOwner EXCEPT ![arg[r]] = c] /\ UNCHANGED <<revoked, tgts, subs, jobs>>
      BY <1>1, <1>10 DEF CreateKey
    <2> QED
      BY <1>1, <2>1, <2>2, KeyOfOther
  <1>11. CASE RevokeKey(r)
    <2>1. UNCHANGED <<keyOwner, tgts, subs, jobs>> /\ revoked' = Revoked(c, arg[r])
      BY <1>11 DEF RevokeKey
    <2>2. {k \in revoked' : keyOwner[k] = t} = {k \in revoked : keyOwner[k] = t}
      BY <1>1, <2>1 DEF Revoked
    <2> QED
      BY <2>1, <2>2 DEF RowsOf, Ids, NoRow
  <1> QED
    BY <1>3, <1>4, <1>5, <1>6, <1>7, <1>8, <1>9, <1>10, <1>11 DEF Handle

\* Every statement moves its request on.
LEMMA HandleMoves ==
    ASSUME ApiInv, NEW r \in Reqs, Handle(r)
    PROVE  rpc'[r] # rpc[r]
  <1>1. LocalsOK
    BY InvParts
  <1>2. ASSUME NEW l, Step(r, l), l # rpc[r] PROVE rpc'[r] # rpc[r]
    BY <1>1, <1>2 DEF Step, LocalsOK
  <1>3. ASSUME Refuse(r), rpc[r] # "idle" PROVE rpc'[r] # rpc[r]
    BY <1>2, <1>3 DEF Refuse, Close
  <1>4. ASSUME NEW rows, Answer(r, rows), rpc[r] # "done" PROVE rpc'[r] # rpc[r]
    BY <1>2, <1>4 DEF Answer
  <1>5. CASE CheckTarget(r) \/ CheckWallet(r)
    BY <1>2, <1>3, <1>5 DEF CheckTarget, CheckWallet
  <1>6. CASE ReadTarget(r) \/ ReadWallet(r) \/ QueueForTarget(r) \/ RegisterTarget(r) \/ List(r) \/ CreateKey(r)
             \/ RevokeKey(r)
    <2>1. rpc[r] # "done" /\ Step(r, "done")
      BY <1>6 DEF ReadTarget, ReadWallet, QueueForTarget, RegisterTarget, List, CreateKey, RevokeKey, Answer
    <2> QED
      BY <1>2, <2>1
  <1>7. CASE StopStream(r) \/ UpsertStream(r) \/ ReadJob(r)
    <2>1. rpc[r] \notin {"done", "idle"} /\ (Step(r, "done") \/ Refuse(r))
      BY <1>7 DEF StopStream, UpsertStream, ReadJob, Answer
    <2> QED
      BY <1>2, <1>3, <2>1
  <1>8. CASE Import(r)
    <2>1. rpc[r] \notin {"done", "idle"}
      BY <1>8 DEF Import
    <2>2. Step(r, "done") \/ Refuse(r)
      BY <1>8, Zenon DEF Import, Answer
    <2> QED
      BY <1>2, <1>3, <2>1, <2>2
  <1>9. CASE LookupTarget(r) \/ CreateTarget(r)
    <2>1. rpc[r] # "idle" /\ rpc[r] \in {"check", "create"}
      BY <1>9 DEF LookupTarget, CreateTarget
    <2>2. LookupTarget(r) => rpc[r] = "check" /\ (Refuse(r) \/ Step(r, "create") \/ Step(r, "queue"))
      BY DEF LookupTarget
    <2>3. CreateTarget(r) => rpc[r] = "create" /\ (Refuse(r) \/ Step(r, "queue") \/ Step(r, "queue_none"))
      BY DEF CreateTarget
    <2> QED
      BY <1>2, <1>3, <1>9, <2>1, <2>2, <2>3
  <1>10. CASE QueueIngest(r)
    <2>1. rpc[r] \in {"queue", "queue_none"} /\ (Refuse(r) \/ Step(r, "done") \/ Step(r, "check"))
      BY <1>10 DEF QueueIngest
    <2> QED
      BY <1>2, <1>3, <2>1
  <1>11. CASE Respond(r) \/ Fail(r)
    <2>1. rpc[r] # "idle" /\ Step(r, "idle")
      BY <1>11 DEF Respond, Fail, Refuse, Close
    <2> QED
      BY <1>2, <2>1
  <1> QED
    BY <1>5, <1>6, <1>7, <1>8, <1>9, <1>10, <1>11 DEF Handle

-----------------------------------------------------------------------------
(* Theorems of the requests *)

\* Every reachable state satisfies the inductive invariant: the foreign keys of the
\* tables, the authenticated caller of each request, the check of its parameter, the
\* target it holds and the rows of its answer, for every number of connections,
\* tenants, keys, wallets and rows.
THEOREM ApiInvariant == ApiSpec => []ApiInv
  BY ApiInvInit, ApiInvStep, PTL DEF ApiSpec

\* The tables and the requests keep their types and foreign keys.
THEOREM ApiTypes == ApiSpec => []ApiTypeOK
  <1>1. ApiInv => ApiTypeOK
    BY DEF ApiInv
  <1> QED
    BY <1>1, ApiInvariant, PTL

\* A row granted to a tenant is one it may see.
LEMMA GrantedIsVisible ==
    ASSUME TablesOK, NEW t, NEW row, Granted(t, row)
    PROVE  VisibleTo(t, row)
  <1>1. \A i \in Ids : i # NoRow
    BY DEF TablesOK, Ids, NoRow
  <1>2. CASE \E i \in Ids \cup {NoRow} : row = <<"target", i>> /\ (i # NoRow => tgts[i].owner = t)
    BY <1>1, <1>2 DEF VisibleTo
  <1>3. CASE \E i \in Ids : row = <<"stream", i>> /\ tgts[i].owner = t
    BY <1>3 DEF VisibleTo
  <1>4. CASE \E x \in Txs : row = <<"tx", x>> /\ TakesPart(t, x)
    BY <1>4 DEF VisibleTo
  <1>7. CASE \E q \in Txs \X Addrs : row = <<"ledger", q>> /\ TakesPart(t, q[1])
    BY <1>7 DEF VisibleTo
  <1>8. CASE \E q \in Txs \X Addrs : row = <<"balance", q>> /\ \E i \in Ids : tgts[i].owner = t /\ tgts[i].addr = q[2]
    BY <1>8 DEF VisibleTo
  <1>5. CASE \E k \in Keys : row = <<"key", k>> /\ keyOwner[k] = t
    BY <1>5 DEF VisibleTo
  <1>6. CASE \E j \in 1..Len(jobs) : row = <<"job", j>> /\
                  \/ jobs[j].owner = t
                  \/ jobs[j].target # NoRow /\ tgts[jobs[j].target].owner = t
                  \/ \E i \in Ids : tgts[i].owner = t /\ tgts[i].addr = jobs[j].addr
    BY <1>6 DEF VisibleTo
  <1> QED
    BY <1>2, <1>3, <1>4, <1>5, <1>6, <1>7, <1>8 DEF Granted

\* Tenant isolation of what is read: whatever requests come in between and whoever else
\* a transaction moves, the answer to a tenant's key holds only its own targets,
\* streams, jobs, keys and balances, and transactions that it takes part in.
THEOREM TenantIsolation == ApiSpec => []TenantSeesOwn
  <1>1. ApiInv => TenantSeesOwn
    <2> SUFFICES ASSUME ApiInv, NEW r \in Reqs, Principal(r) # Admin, NEW row \in reply[r]
                 PROVE  VisibleTo(Principal(r), row)
      BY DEF TenantSeesOwn
    <2>1. TablesOK /\ RequestOK(r)
      BY InvParts
    <2>2. caller[r] = Principal(r) /\ Granted(caller[r], row)
      BY <2>1 DEF RequestOK, CallerOK, ReplyOK
    <2> QED
      BY <2>1, <2>2, GrantedIsVisible
  <1> QED
    BY <1>1, ApiInvariant, PTL

\* A job an answer names can be asked for by who got the answer, unless a statement
\* failed or the client had another wallet normalized than its target's.
THEOREM JobsReadable == ApiSpec => []AnsweredJobIsReadable
  <1>1. ApiInv => AnsweredJobIsReadable
    <2> SUFFICES ASSUME ApiInv, NEW r \in Reqs, apiFaults = 0, NEW row \in reply[r], row[1] = "job"
                 PROVE  \/ OwnsJob(Principal(r), jobs[row[2]])
                        \/ jobs[row[2]].kind = "normalize" /\ jobs[row[2]].addr # tgts[jobs[row[2]].target].addr
      BY DEF AnsweredJobIsReadable
    <2>1. RequestOK(r)
      BY InvParts
    <2>2. caller[r] = Principal(r) /\ Readable(caller[r], row)
      BY <2>1 DEF RequestOK, CallerOK, ReplyOK
    <2> QED
      BY <2>2 DEF Readable
  <1> QED
    BY <1>1, ApiInvariant, PTL

\* Tenant isolation of what is written: the keys, targets, streams and jobs of a tenant
\* change only by a request sent with a key of that tenant or of the administrator.
THEOREM TenantRows == ApiSpec => TenantRowsAreOwn
  <1>1. ASSUME ApiInv, [ApiNext]_apiVars, NEW t \in Tenants, RowsOf(t)' # RowsOf(t)
        PROVE  \E r \in Reqs : rpc'[r] # rpc[r] /\ Principal(r) \in {t, Admin}
    <2>1. ~UNCHANGED <<keyOwner, revoked, tgts, subs, jobs>>
      BY <1>1, RowsRest
    <2>2. PICK r \in Reqs : Handle(r)
      <3>1. ~UNCHANGED apiVars
        BY <2>1 DEF apiVars, apiTables
      <3>2. \A s, k, o, a : ~Request(s, k, o, a)
        BY <2>1 DEF Request, apiTables
      <3>3. \A i, x : ~Index(i, x)
        BY <2>1 DEF Index
      <3> QED
        BY <1>1, <3>1, <3>2, <3>3 DEF ApiNext
    <2>3. caller[r] \in {t, Admin}
      BY <1>1, <2>2, HandleRows
    <2>4. caller[r] = Principal(r)
      BY <1>1, InvParts DEF RequestOK, CallerOK
    <2> QED
      BY <1>1, <2>2, <2>3, <2>4, HandleMoves
  <1>2. ApiInv /\ [ApiNext]_apiVars =>
          [\A t \in Tenants : RowsOf(t)' # RowsOf(t) =>
              \E r \in Reqs : rpc'[r] # rpc[r] /\ Principal(r) \in {t, Admin}]_apiVars
    BY <1>1
  <1> QED
    BY <1>2, ApiInvariant, PTL DEF ApiSpec, TenantRowsAreOwn

-----------------------------------------------------------------------------
(* The rate limiter *)

\* A refilled bucket holds at most the capacity.
LEMMA RefillRange ==
    ASSUME LimTypeOK, NEW k \in Clients
    PROVE  Refill(k) \in 0..Capacity
  <1>1. tokens[k] \in 0..Capacity /\ used[k] \in Nat /\ used[k] <= now /\ now \in Nat
    BY DEF LimTypeOK
  <1> QED
    BY <1>1, LimiterAssumption DEF Refill

\* A bucket that is evicted had been refilled.
LEMMA EvictedIsFull ==
    ASSUME LimTypeOK, NEW k \in tracked, k \notin Kept
    PROVE  Refill(k) = Capacity
  <1>1. k \in Clients /\ tokens[k] \in 0..Capacity /\ used[k] \in Nat /\ now \in Nat
    BY DEF LimTypeOK
  <1>2. used[k] <= now - EvictAfter
    BY <1>1, LimiterAssumption DEF Kept
  <1> QED
    BY <1>1, <1>2, LimiterAssumption DEF Refill

\* What a request finds does not depend on the eviction before it.
LEMMA EvictionIsFree ==
    ASSUME LimTypeOK, NEW k \in Clients
    PROVE  (IF k \in Kept THEN Refill(k) ELSE Capacity) = Level(k)
  <1>1. Kept \subseteq tracked
    BY DEF Kept
  <1> QED
    BY <1>1, EvictedIsFull DEF Level

\* LimInv is inductive.
LEMMA LimInvStep == LimInv /\ [LimNext]_limVars => LimInv'
  <1> SUFFICES ASSUME LimInv, [LimNext]_limVars PROVE LimInv'
    OBVIOUS
  <1>0. LimTypeOK
    BY DEF LimInv
  <1>1. CASE Tick
    <2>1. LimTypeOK'
      BY <1>0, <1>1 DEF LimTypeOK, Tick
    <2>2. ASSUME NEW k \in Clients PROVE Level(k)' <= Level(k) + 1 /\ Level(k) \in Int /\ Level(k)' \in Int
      <3>1. tokens[k] \in 0..Capacity /\ used[k] \in Nat /\ now \in Nat
        BY <1>0 DEF LimTypeOK
      <3> QED
        BY <3>1, <1>1, LimiterAssumption DEF Level, Refill, Tick
    <2>3. (start >= 0 => \A k \in Clients : since[k] + Level(k) <= Capacity + (now - start))'
      <3> SUFFICES ASSUME start' >= 0, NEW k \in Clients
                   PROVE  since'[k] + Level(k)' <= Capacity + (now' - start')
        OBVIOUS
      <3>1. since[k] + Level(k) <= Capacity + (now - start)
        BY <1>1 DEF LimInv, Tick
      <3>2. since[k] \in Nat /\ now \in Nat /\ start \in Int
        BY <1>0 DEF LimTypeOK
      <3> QED
        BY <3>1, <3>2, <2>2, <1>1, LimiterAssumption DEF Tick
    <2> QED
      BY <2>1, <2>3, <1>1 DEF LimInv, Tick
  <1>2. CASE Observe
    <2>1. LimTypeOK'
      BY <1>0, <1>2 DEF LimTypeOK, Observe
    <2>2. ASSUME NEW k \in Clients PROVE since'[k] + Level(k)' <= Capacity + (now' - start')
      <3>1. since'[k] = 0 /\ now' = start' /\ now' \in Nat
        BY <1>0, <1>2 DEF LimInv, LimTypeOK, Observe
      <3>2. Level(k)' = Level(k)
        BY <1>2 DEF Level, Refill, Observe
      <3>3. Level(k) \in 0..Capacity
        BY <1>0, RefillRange, LimiterAssumption DEF Level
      <3> QED
        BY <3>1, <3>2, <3>3, LimiterAssumption
    <2>3. start' # -1
      BY <1>0, <1>2 DEF LimTypeOK, Observe
    <2> QED
      BY <2>1, <2>2, <2>3 DEF LimInv
  <1>3. ASSUME NEW c \in Clients, TryAcquire(c) PROVE LimInv'
    <2> DEFINE level == Level(c)
    <2>1. level \in 0..Capacity
      BY <1>0, RefillRange, LimiterAssumption DEF Level
    <2>2. /\ tracked' = Kept \cup {c} /\ used' = [used EXCEPT ![c] = now]
          /\ tokens' = [tokens EXCEPT ![c] = IF level >= 1 THEN level - 1 ELSE level]
          /\ since' = [since EXCEPT ![c] = IF level >= 1 /\ start >= 0 THEN @ + 1 ELSE @]
          /\ now' = now /\ start' = start
      BY <1>0, <1>3, EvictionIsFree DEF TryAcquire
    <2> HIDE DEF level
    <2>3. LimTypeOK'
      <3>1. tokens' \in [Clients -> 0..Capacity]
        BY <2>1, <2>2, <1>0, LimiterAssumption DEF LimTypeOK
      <3>2. used' \in [Clients -> Nat] /\ \A k \in Clients : used'[k] <= now'
        BY <2>2, <1>0 DEF LimTypeOK
      <3>3. since' \in [Clients -> Nat]
        BY <2>2, <1>0 DEF LimTypeOK
      <3>4. tracked' \subseteq Clients
        BY <2>2, <1>0 DEF LimTypeOK, Kept
      <3> QED
        BY <3>1, <3>2, <3>3, <3>4, <2>2, <1>0 DEF LimTypeOK
    <2>4. ASSUME start' = -1 PROVE since' = [k \in Clients |-> 0]
      <3>1. since = [k \in Clients |-> 0] /\ ~(start >= 0)
        BY <2>2, <2>4 DEF LimInv
      <3> QED
        BY <3>1, <2>2
    <2>5. ASSUME start' >= 0, NEW k \in Clients PROVE since'[k] + Level(k)' <= Capacity + (now' - start')
      <3>1. since[k] + Level(k) <= Capacity + (now - start)
        BY <2>2, <2>5 DEF LimInv
      <3>2. since[k] \in Nat /\ now \in Nat /\ start \in Int /\ tokens[k] \in 0..Capacity
        BY <1>0 DEF LimTypeOK
      <3>3. CASE k = c
        <4>1. Level(k)' = tokens'[c] /\ tokens'[c] = IF level >= 1 THEN level - 1 ELSE level
          <5>1. c \in tracked' /\ used'[c] = now' /\ tokens'[c] = IF level >= 1 THEN level - 1 ELSE level
            BY <2>2, <1>0 DEF LimTypeOK
          <5>2. tokens'[c] \in 0..Capacity /\ used'[c] \in Nat
            BY <2>3 DEF LimTypeOK
          <5> QED
            BY <5>1, <5>2, <3>3, <3>2, LimiterAssumption, <2>2 DEF Level, Refill
        <4>2. since'[k] = IF level >= 1 THEN since[k] + 1 ELSE since[k]
          BY <2>2, <2>5, <3>3, <1>0 DEF LimTypeOK
        <4>3. level = Level(k)
          BY <3>3 DEF level
        <4> QED
          BY <4>1, <4>2, <4>3, <3>1, <3>2, <2>1, <2>2, LimiterAssumption
      <3>4. CASE k # c
        <4>1. since'[k] = since[k] /\ tokens'[k] = tokens[k] /\ used'[k] = used[k]
          BY <2>2, <3>4, <1>0 DEF LimTypeOK
        <4>2. Level(k)' = IF k \in Kept THEN Refill(k) ELSE Capacity
          BY <4>1, <2>2, <3>4 DEF Level, Refill
        <4>3. Level(k)' = Level(k)
          BY <4>2, <1>0, EvictionIsFree
        <4> QED
          BY <4>1, <4>3, <3>1, <2>2
      <3> QED
        BY <3>3, <3>4
    <2> QED
      BY <2>3, <2>4, <2>5 DEF LimInv
  <1>4. CASE UNCHANGED limVars
    <2>1. /\ now' = now /\ tracked' = tracked /\ tokens' = tokens /\ used' = used
          /\ start' = start /\ since' = since
      BY <1>4 DEF limVars
    <2> QED
      BY <2>1 DEF LimInv, LimTypeOK, Level, Refill
  <1> QED
    BY <1>1, <1>2, <1>3, <1>4 DEF LimNext

\* The buckets and the observer's counters keep their types, and the rate limit holds
\* in every window, for every capacity, set of keys and size of the map.
THEOREM RateLimitHolds == LimSpec => [](LimTypeOK /\ RateIsBounded)
  <1>1. LimInit => LimInv
    BY LimiterAssumption DEF LimInit, LimInv, LimTypeOK
  <1>2. LimInv => LimTypeOK /\ RateIsBounded
    <2> SUFFICES ASSUME LimInv, start >= 0, NEW k \in Clients
                 PROVE  since[k] <= Capacity + (now - start)
      BY DEF LimInv, RateIsBounded
    <2>1. since[k] + Level(k) <= Capacity + (now - start)
      BY DEF LimInv
    <2>2. since[k] \in Nat /\ now \in Nat /\ start \in Int
      BY DEF LimInv, LimTypeOK
    <2>3. Level(k) \in 0..Capacity
      BY RefillRange, LimiterAssumption DEF Level, LimInv
    <2> QED
      BY <2>1, <2>2, <2>3, LimiterAssumption
  <1> QED
    BY <1>1, <1>2, LimInvStep, PTL DEF LimSpec

-----------------------------------------------------------------------------
(* Aggregates of gold rows *)

LEMMA AcInitInv == AcInit => AcInv
  BY DEF AcInit, AcInv

LEMMA AcStep == AcInv /\ [AcNext]_acVars => AcInv'
<1>1. SUFFICES ASSUME AcInv, [AcNext]_acVars PROVE AcInv'
  OBVIOUS
<1>2. CASE UNCHANGED acVars
  BY <1>1, <1>2 DEF AcInv, acVars
<1>3. CASE \E i \in LedgerIds : StoreLedgerRow(i)
  BY <1>1, <1>3 DEF AcInv, StoreLedgerRow
<1>4. CASE \E batch \in SUBSET EventIds \ {{}} : StoreProtocolEvents(batch)
  <2>1. PICK batch \in SUBSET EventIds : StoreProtocolEvents(batch)
    BY <1>4
  <2>2. protocolRows' \subseteq {ProtocolEvent(e) : e \in EventIds}
    BY <1>1, <2>1 DEF AcInv, StoreProtocolEvents
  <2> QED
    BY <1>1, <2>1, <2>2 DEF AcInv, StoreProtocolEvents
<1>5. CASE \E s \in SnapshotIds : StoreSnapshot(s)
  BY <1>1, <1>5 DEF AcInv, StoreSnapshot
<1> QED
  BY <1>1, <1>2, <1>3, <1>4, <1>5 DEF AcNext

\* build_forensics_activity: the parts of a report each cover the rows.
LEMMA ForensicsFromRows == AcInv => ForensicsAddsUp
<1>1. SUFFICES ASSUME AcInv PROVE ForensicsAddsUp
  OBVIOUS
<1>2. PICK R : R = ledgerRows
  OBVIOUS
<1>3. R \subseteq LedgerIds /\ IsFiniteSet(R)
  BY <1>1, <1>2, ActivityAssumption, FS_Subset DEF AcInv
<1>4. SumFunction([n \in DOMAIN NetworkActivity(R) |-> NetworkActivity(R)[n].count]) = Cardinality(R)
  <2>1. PICK k : k = [i \in R |-> LedgerOf[i].net]
    OBVIOUS
  <2>2. PICK C : C = {LedgerOf[i].net : i \in R}
    OBVIOUS
  <2>3. IsFiniteSet(C)
    <3>1. C = ImageOf(k, R)
      BY <2>1, <2>2 DEF ImageOf
    <3> QED
      BY <1>3, <3>1, ImageFinite
  <2>4. DOMAIN NetworkActivity(R) = C
    BY <2>2 DEF NetworkActivity
  <2>5. PICK g : g = [n \in C |-> NetworkActivity(R)[n].count]
    OBVIOUS
  <2>6. CountsOf(g, k, R, C)
    <3>1. ASSUME NEW n \in C PROVE g[n] = Cardinality(GroupOf(k, R, n))
      <4>1. GroupOf(k, R, n) = {i \in R : LedgerOf[i].net = n}
        BY <2>1 DEF GroupOf
      <4>2. g[n] = Cardinality({i \in R : LedgerOf[i].net = n})
        BY <2>2, <2>5 DEF NetworkActivity
      <4> QED
        BY <4>1, <4>2
    <3> QED
      BY <3>1 DEF CountsOf
  <2>7. Grouped(k, R, C)
    BY <2>1, <2>2 DEF Grouped
  <2>8. SumFunctionOnSet(g, C) = Cardinality(R)
    BY <1>3, <2>3, <2>6, <2>7, CountByGroup
  <2>9. SumFunction(g) = SumFunctionOnSet(g, C)
    BY <2>5 DEF SumFunction
  <2> QED
    BY <2>4, <2>5, <2>8, <2>9
<1>5. SumFunction([t \in DOMAIN TypeBreakdown(R) |-> TypeBreakdown(R)[t].count]) = Cardinality(R)
  <2>1. PICK k : k = [i \in R |-> LedgerOf[i].type]
    OBVIOUS
  <2>2. PICK C : C = {LedgerOf[i].type : i \in R}
    OBVIOUS
  <2>3. IsFiniteSet(C)
    <3>1. C = ImageOf(k, R)
      BY <2>1, <2>2 DEF ImageOf
    <3> QED
      BY <1>3, <3>1, ImageFinite
  <2>4. DOMAIN TypeBreakdown(R) = C
    BY <2>2 DEF TypeBreakdown
  <2>5. PICK g : g = [n \in C |-> TypeBreakdown(R)[n].count]
    OBVIOUS
  <2>6. CountsOf(g, k, R, C)
    <3>1. ASSUME NEW n \in C PROVE g[n] = Cardinality(GroupOf(k, R, n))
      <4>1. GroupOf(k, R, n) = {i \in R : LedgerOf[i].type = n}
        BY <2>1 DEF GroupOf
      <4>2. g[n] = Cardinality({i \in R : LedgerOf[i].type = n})
        BY <2>2, <2>5 DEF TypeBreakdown
      <4> QED
        BY <4>1, <4>2
    <3> QED
      BY <3>1 DEF CountsOf
  <2>7. Grouped(k, R, C)
    BY <2>1, <2>2 DEF Grouped
  <2>8. SumFunctionOnSet(g, C) = Cardinality(R)
    BY <1>3, <2>3, <2>6, <2>7, CountByGroup
  <2>9. SumFunction(g) = SumFunctionOnSet(g, C)
    BY <2>5 DEF SumFunction
  <2> QED
    BY <2>4, <2>5, <2>8, <2>9
<1>6. SumFunction([p \in DOMAIN Parties(R) |-> Parties(R)[p].inflow - Parties(R)[p].outflow]) =
      SumFunction([i \in {x \in R : LedgerOf[x].cp # NoParty} |-> LedgerOf[i].amt])
  <2>1. PICK of : of = {x \in R : LedgerOf[x].cp # NoParty}
    OBVIOUS
  <2>2. IsFiniteSet(of) /\ of \subseteq LedgerIds
    BY <1>3, <2>1, FS_Subset
  <2>3. PICK amt, in, out : /\ amt = [i \in of |-> LedgerOf[i].amt]
                            /\ in = [i \in of |-> Inflow(i)]
                            /\ out = [i \in of |-> Outflow(i)]
    OBVIOUS
  <2>4. ASSUME NEW i \in of PROVE amt[i] \in Int /\ in[i] \in Int /\ out[i] \in Int /\ in[i] = amt[i] + out[i]
    <3>1. LedgerOf[i].amt \in Int
      BY <2>2, ActivityAssumption
    <3> QED
      BY <2>3, <3>1 DEF Inflow, Outflow
  <2>5. IsCount(amt, of) /\ IsCount(in, of) /\ IsCount(out, of)
    BY <2>4 DEF IsCount
  <2>6. PICK C : C = {LedgerOf[i].cp : i \in of}
    OBVIOUS
  <2>7. PICK k : k = [i \in of |-> LedgerOf[i].cp]
    OBVIOUS
  <2>8. IsFiniteSet(C)
    <3>1. C = ImageOf(k, of)
      BY <2>6, <2>7 DEF ImageOf
    <3> QED
      BY <2>2, <3>1, ImageFinite
  <2>9. DOMAIN Parties(R) = C
    BY <2>1, <2>6 DEF Parties
  <2>10. PICK g : g = [p \in C |-> Parties(R)[p].inflow - Parties(R)[p].outflow]
    OBVIOUS
  <2>11. ASSUME NEW p \in C PROVE g[p] = SumFunctionOnSet(amt, GroupOf(k, of, p))
    <3>1. PICK T \in SUBSET of : T = {i \in of : LedgerOf[i].cp = p}
      OBVIOUS
    <3>2. GroupOf(k, of, p) = T
      BY <2>7, <3>1 DEF GroupOf
    <3>3. /\ Parties(R)[p].inflow = SumFunction([i \in T |-> Inflow(i)])
          /\ Parties(R)[p].outflow = SumFunction([i \in T |-> Outflow(i)])
      BY <2>1, <2>6, <3>1 DEF Parties
    <3>4. PICK u, v : u = [i \in T |-> Inflow(i)] /\ v = [i \in T |-> Outflow(i)]
      OBVIOUS
    <3>5. SumFunction(u) = SumFunctionOnSet(in, T)
      <4>1. DOMAIN u = T /\ \A i \in T : u[i] = in[i]
        BY <2>3, <3>4
      <4> QED
        BY <2>2, <2>5, <4>1, SumGiven
    <3>6. SumFunction(v) = SumFunctionOnSet(out, T)
      <4>1. DOMAIN v = T /\ \A i \in T : v[i] = out[i]
        BY <2>3, <3>4
      <4> QED
        BY <2>2, <2>5, <4>1, SumGiven
    <3>7. IsFiniteSet(T) /\ IsCount(amt, T) /\ IsCount(out, T) /\ \A i \in T : in[i] = amt[i] + out[i]
      BY <2>2, <2>4, FS_Subset DEF IsCount
    <3>8. SumFunctionOnSet(in, T) = SumFunctionOnSet(amt, T) + SumFunctionOnSet(out, T)
      BY <3>7, SumPlus
    <3>9. SumFunctionOnSet(amt, T) \in Int /\ SumFunctionOnSet(out, T) \in Int
      BY <3>7, SumType
    <3>10. g[p] = SumFunctionOnSet(in, T) - SumFunctionOnSet(out, T)
      BY <2>10, <3>3, <3>4, <3>5, <3>6
    <3>11. g[p] = SumFunctionOnSet(amt, T)
      BY <3>8, <3>9, <3>10
    <3> QED
      BY <3>2, <3>11
  <2>12. Grouped(k, of, C) /\ SumsOf(g, amt, k, of, C)
    BY <2>6, <2>7, <2>11 DEF Grouped, SumsOf
  <2>13. SumFunctionOnSet(g, C) = SumFunctionOnSet(amt, of)
    BY <2>2, <2>5, <2>8, <2>12, SumByGroup
  <2>14. SumFunction(g) = SumFunctionOnSet(g, C) /\ SumFunction(amt) = SumFunctionOnSet(amt, of)
    BY <2>3, <2>10 DEF SumFunction
  <2> QED
    BY <2>1, <2>3, <2>9, <2>10, <2>13, <2>14
<1> QED
  BY <1>2, <1>4, <1>5, <1>6, Zenon DEF ForensicsAddsUp

\* build_protocol_activity counts every stored decoded event once.
LEMMA ActivityFromRows == AcInv => ActivityCountsOnce
<1>1. SUFFICES ASSUME AcInv, NEW p
               PROVE  ProtocolActivity(p, protocolRows).total =
                        Cardinality({e \in EventIds : EventOf[e].contract = p /\ \E r \in protocolRows : r.event = e})
  BY Zenon DEF ActivityCountsOnce
<1>2. PICK own : own = {r \in protocolRows : r.protocol = p}
  OBVIOUS
<1>3. PICK E : E = {e \in EventIds : EventOf[e].contract = p /\ \E r \in protocolRows : r.event = e}
  OBVIOUS
<1>4. PICK b : b = [e \in E |-> ProtocolEvent(e)]
  OBVIOUS
<1>5. \A e : ProtocolEvent(e).event = e /\ ProtocolEvent(e).protocol = EventOf[e].contract
  BY DEF ProtocolEvent
<1>6. IsFiniteSet(E)
  BY <1>3, ActivityAssumption, FS_Subset
<1>7. OneToOne(b, E)
  BY <1>4, <1>5 DEF OneToOne
<1>8. own = ImageOf(b, E)
  <2>1. ASSUME NEW r \in own PROVE r \in ImageOf(b, E)
    <3>1. PICK e \in EventIds : r = ProtocolEvent(e)
      BY <1>1, <1>2 DEF AcInv
    <3>2. e \in E
      BY <1>2, <1>3, <1>5, <3>1
    <3> QED
      BY <1>4, <3>1, <3>2 DEF ImageOf
  <2>2. ASSUME NEW e \in E PROVE ProtocolEvent(e) \in own
    <3>1. PICK r \in protocolRows : r.event = e
      BY <1>3
    <3>2. PICK d \in EventIds : r = ProtocolEvent(d)
      BY <1>1 DEF AcInv
    <3>3. d = e
      BY <1>5, <3>1, <3>2
    <3> QED
      BY <1>2, <1>3, <1>5, <3>1, <3>2, <3>3
  <2> QED
    BY <1>4, <2>1, <2>2 DEF ImageOf
<1>9. IsFiniteSet(own) /\ Cardinality(own) = Cardinality(E)
  BY <1>6, <1>7, <1>8, CountMapped
<1>10. ProtocolActivity(p, protocolRows).total = Cardinality(own)
  <2>1. PICK k : k = [r \in own |-> r.type]
    OBVIOUS
  <2>2. PICK C : C = {r.type : r \in own}
    OBVIOUS
  <2>3. IsFiniteSet(C)
    <3>1. C = ImageOf(k, own)
      BY <2>1, <2>2 DEF ImageOf
    <3> QED
      BY <1>9, <3>1, ImageFinite
  <2>4. PICK g : g = [t \in C |-> Cardinality({r \in own : r.type = t})]
    OBVIOUS
  <2>5. ProtocolActivity(p, protocolRows).total = SumFunction(g)
    BY <1>2, <2>2, <2>4 DEF ProtocolActivity
  <2>6. Grouped(k, own, C)
    BY <2>1, <2>2 DEF Grouped
  <2>7. CountsOf(g, k, own, C)
    <3>1. ASSUME NEW t \in C PROVE g[t] = Cardinality(GroupOf(k, own, t))
      <4>1. GroupOf(k, own, t) = {r \in own : r.type = t}
        BY <2>1 DEF GroupOf
      <4> QED
        BY <2>4, <4>1
    <3> QED
      BY <3>1 DEF CountsOf
  <2>8. SumFunctionOnSet(g, C) = Cardinality(own)
    BY <1>9, <2>3, <2>6, <2>7, CountByGroup
  <2>9. SumFunction(g) = SumFunctionOnSet(g, C)
    BY <2>4 DEF SumFunction
  <2> QED
    BY <2>5, <2>8, <2>9
<1> QED
  BY <1>3, <1>9, <1>10

-----------------------------------------------------------------------------
(* build_tvl_analytics *)

\* The loop of LatestByPool, at each position.
RunsOver(f, rows) ==
    f = [k \in 0 .. Len(rows) |-> IF k = 0 THEN {} ELSE Keep(f[k - 1], rows[k])]

\* What it holds after the first k rows.
LatestOf(acc, rows, k) ==
    /\ \A x \in acc : \E j \in 1 .. k : x = rows[j]
    /\ \A x, y \in acc : SnapshotOf[x].pool = SnapshotOf[y].pool => x = y
    /\ \A j \in 1 .. k : \E x \in acc : /\ SnapshotOf[x].pool = SnapshotOf[rows[j]].pool
                                        /\ SnapshotOf[x].at >= SnapshotOf[rows[j]].at

LEMMA KeepStep ==
    ASSUME NEW rows \in Seq(SnapshotIds), NEW k \in 1 .. Len(rows), NEW acc, LatestOf(acc, rows, k - 1)
    PROVE  LatestOf(Keep(acc, rows[k]), rows, k)
<1>1. PICK s \in SnapshotIds : s = rows[k]
  OBVIOUS
<1>2. PICK same : same = {x \in acc : SnapshotOf[x].pool = SnapshotOf[s].pool}
  OBVIOUS
<1>3. PICK new : new = Keep(acc, s)
  OBVIOUS
<1>4. new = IF same = {} THEN acc \cup {s}
            ELSE IF \A x \in same : Newer(s, x) THEN (acc \ same) \cup {s} ELSE acc
  BY <1>2, <1>3 DEF Keep
<1>5. \A x \in acc : (\E j \in 1 .. k - 1 : x = rows[j]) /\ SnapshotOf[x].at \in Nat
  BY ActivityAssumption DEF LatestOf
<1>6. SnapshotOf[s].at \in Nat /\ \A j \in 1 .. k : SnapshotOf[rows[j]].at \in Nat
  BY <1>1, ActivityAssumption
<1>7. \A x, y \in same : x = y
  BY <1>2 DEF LatestOf
<1>8. \A x \in new : \E j \in 1 .. k : x = rows[j]
  <2>1. \A x \in new : x \in acc \/ x = s
    BY <1>4
  <2> QED
    BY <1>1, <1>5, <2>1
<1>9. \A x, y \in new : SnapshotOf[x].pool = SnapshotOf[y].pool => x = y
  BY <1>2, <1>4, <1>7 DEF LatestOf
<1>10. \E x \in new : SnapshotOf[x].pool = SnapshotOf[s].pool /\ SnapshotOf[x].at >= SnapshotOf[s].at
  BY <1>2, <1>4, <1>5, <1>6 DEF Newer
<1>11. \A y \in acc : \E x \in new : SnapshotOf[x].pool = SnapshotOf[y].pool /\ SnapshotOf[x].at >= SnapshotOf[y].at
  <2> SUFFICES ASSUME NEW y \in acc
               PROVE  \E x \in new : SnapshotOf[x].pool = SnapshotOf[y].pool /\ SnapshotOf[x].at >= SnapshotOf[y].at
    OBVIOUS
  <2>1. SnapshotOf[y].at \in Nat
    BY <1>5
  <2>2. CASE y \in new
    BY <2>1, <2>2
  <2>3. CASE y \notin new
    <3>1. same # {} /\ (\A x \in same : Newer(s, x)) /\ new = (acc \ same) \cup {s}
      BY <1>4, <2>3
    <3>2. y \in same /\ s \in new
      BY <2>3, <3>1
    <3>3. Newer(s, y) /\ SnapshotOf[s].pool = SnapshotOf[y].pool
      BY <1>2, <3>1, <3>2
    <3>4. SnapshotOf[s].at >= SnapshotOf[y].at
      BY <1>6, <2>1, <3>3 DEF Newer
    <3> QED
      BY <3>2, <3>3, <3>4
  <2> QED
    BY <2>2, <2>3
<1>12. ASSUME NEW j \in 1 .. k
       PROVE  \E x \in new : /\ SnapshotOf[x].pool = SnapshotOf[rows[j]].pool
                             /\ SnapshotOf[x].at >= SnapshotOf[rows[j]].at
  <2>1. CASE j = k
    BY <1>1, <1>10, <2>1
  <2>2. CASE j # k
    <3>1. j \in 1 .. k - 1
      BY <2>2
    <3>2. PICK y \in acc : SnapshotOf[y].pool = SnapshotOf[rows[j]].pool /\ SnapshotOf[y].at >= SnapshotOf[rows[j]].at
      BY <3>1 DEF LatestOf
    <3>3. PICK x \in new : SnapshotOf[x].pool = SnapshotOf[y].pool /\ SnapshotOf[x].at >= SnapshotOf[y].at
      BY <1>11
    <3>4. SnapshotOf[x].at \in Nat /\ SnapshotOf[y].at \in Nat /\ SnapshotOf[rows[j]].at \in Nat
      BY <1>5, <1>6, <1>8
    <3> QED
      BY <3>2, <3>3, <3>4
  <2> QED
    BY <2>1, <2>2
<1> QED
  BY <1>1, <1>3, <1>8, <1>9, <1>12 DEF LatestOf

LEMMA LatestChosen ==
    ASSUME NEW rows, \E f : RunsOver(f, rows)
    PROVE  \E f : RunsOver(f, rows) /\ LatestByPool(rows) = f[Len(rows)]
  BY Zenon DEF LatestByPool, RunsOver

LEMMA LatestIs ==
    ASSUME NEW rows \in Seq(SnapshotIds)
    PROVE  LatestOf(LatestByPool(rows), rows, Len(rows))
<1>1. PICK n \in Nat : n = Len(rows)
  OBVIOUS
<1>2. \E f : RunsOver(f, rows)
  <2>1. PICK S : S = SUBSET SnapshotIds
    OBVIOUS
  <2>2. PICK step : step = [p \in (1 .. n) \X S |-> Keep(p[2], rows[p[1]])]
    OBVIOUS
  <2>3. ASSUME NEW k \in 1 .. n, NEW x \in S PROVE step[<<k, x>>] = Keep(x, rows[k]) /\ step[<<k, x>>] \in S
    <3>1. step[<<k, x>>] = Keep(x, rows[k])
      BY <2>2
    <3>2. rows[k] \in SnapshotIds /\ x \in SUBSET SnapshotIds
      BY <1>1, <2>1
    <3>3. Keep(x, rows[k]) \in SUBSET SnapshotIds
      BY <3>2, Zenon DEF Keep
    <3> QED
      BY <2>1, <3>1, <3>3
  <2>4. {} \in S
    BY <2>1
  <2>5. PICK f : IsLoop(f, n, {}, step) /\ \A k \in 0 .. n : f[k] \in S
    <3>1. StepsIn(step, n, S)
      BY <2>3 DEF StepsIn
    <3> QED
      BY <2>4, <3>1, LoopRuns
  <2>6. ASSUME NEW k \in 0 .. n PROVE f[k] = IF k = 0 THEN {} ELSE Keep(f[k - 1], rows[k])
    <3>1. CASE k = 0
      BY <2>5, <3>1 DEF IsLoop
    <3>2. CASE k # 0
      <4>1. k \in 1 .. n /\ k - 1 \in 0 .. n
        BY <3>2
      <4>2. f[k] = step[<<k, f[k - 1]>>] /\ f[k - 1] \in S
        BY <2>5, <4>1 DEF IsLoop
      <4> QED
        BY <2>3, <3>2, <4>1, <4>2
    <3> QED
      BY <3>1, <3>2
  <2>7. f = [k \in 0 .. n |-> IF k = 0 THEN {} ELSE Keep(f[k - 1], rows[k])]
    <3>1. f = [k \in 0 .. n |-> f[k]]
      BY <2>5 DEF IsLoop
    <3> QED
      BY <2>6, <3>1
  <2> QED
    BY <1>1, <2>7 DEF RunsOver
<1>3. PICK f : RunsOver(f, rows) /\ LatestByPool(rows) = f[Len(rows)]
  BY <1>2, LatestChosen
<1> DEFINE G == {k \in 0 .. n : LatestOf(f[k], rows, k)}
<1>4. 0 \in G
  <2>1. f[0] = {}
    BY <1>1, <1>3 DEF RunsOver
  <2> QED
    BY <2>1 DEF LatestOf
<1>5. ASSUME NEW k \in 1 .. n, k - 1 \in G PROVE k \in G
  <2>1. f[k] = Keep(f[k - 1], rows[k])
    <3>1. k \in 0 .. Len(rows) /\ k # 0
      BY <1>1
    <3> QED
      BY <1>3, <3>1, Zenon DEF RunsOver
  <2>2. LatestOf(f[k - 1], rows, k - 1)
    BY <1>5
  <2>3. LatestOf(f[k], rows, k)
    BY <1>1, <2>1, <2>2, KeepStep
  <2> QED
    BY <2>3
<1>6. G = 0 .. n
  <2>1. G \in SUBSET (0 .. n)
    OBVIOUS
  <2> HIDE DEF G
  <2> QED
    BY <2>1, <1>4, <1>5, LoopKeeps
<1>7. n \in G
  BY <1>6
<1> QED
  BY <1>1, <1>3, <1>7

\* The protocols' totals add up to the overall one, over the latest of each pool.
LEMMA TvlFromRows == AcInv => TvlIsLatest
<1>1. SUFFICES ASSUME AcInv PROVE TvlIsLatest
  OBVIOUS
<1>2. PICK rows \in Seq(SnapshotIds) : rows = snapshotRows
  BY <1>1 DEF AcInv
<1>3. PICK latest : latest = LatestByPool(rows)
  OBVIOUS
<1>4. PICK stored : stored = Range(rows)
  OBVIOUS
<1>5. PICK of : of = ProtocolTvl(rows)
  OBVIOUS
<1>6. /\ \A s : s \in stored <=> \E j \in 1 .. Len(rows) : s = rows[j]
      /\ stored \subseteq SnapshotIds
  BY <1>4 DEF Range
<1>7. /\ latest \subseteq stored
      /\ \A x, y \in latest : SnapshotOf[x].pool = SnapshotOf[y].pool => x = y
      /\ \A s \in stored : \E l \in latest : /\ SnapshotOf[l].pool = SnapshotOf[s].pool
                                             /\ SnapshotOf[l].at >= SnapshotOf[s].at
  <2>1. LatestOf(latest, rows, Len(rows))
    BY <1>3, LatestIs
  <2>2. latest \subseteq stored
    BY <1>6, <2>1 DEF LatestOf
  <2>3. \A x, y \in latest : SnapshotOf[x].pool = SnapshotOf[y].pool => x = y
    BY <2>1 DEF LatestOf
  <2>4. ASSUME NEW s \in stored
        PROVE  \E l \in latest : SnapshotOf[l].pool = SnapshotOf[s].pool /\ SnapshotOf[l].at >= SnapshotOf[s].at
    <3>1. PICK j \in 1 .. Len(rows) : s = rows[j]
      BY <1>6
    <3> QED
      BY <2>1, <3>1 DEF LatestOf
  <2> QED
    BY <2>2, <2>3, <2>4
<1>8. IsFiniteSet(latest) /\ latest \subseteq SnapshotIds
  BY <1>6, <1>7, ActivityAssumption, FS_Subset
<1>9. PICK k : k = [s \in latest |-> SnapshotOf[s].protocol]
  OBVIOUS
<1>10. PICK C : C = {SnapshotOf[s].protocol : s \in latest}
  OBVIOUS
<1>11. IsFiniteSet(C) /\ Grouped(k, latest, C)
  <2>1. C = ImageOf(k, latest)
    BY <1>9, <1>10 DEF ImageOf
  <2> QED
    BY <1>8, <1>9, <1>10, <2>1, ImageFinite DEF Grouped
<1>12. /\ DOMAIN of = C
       /\ \A p \in C : /\ of[p].pools = Cardinality({s \in latest : SnapshotOf[s].protocol = p})
                       /\ of[p].tvl = Tvl({s \in latest : SnapshotOf[s].protocol = p})
  BY <1>3, <1>5, <1>10 DEF ProtocolTvl
<1>13. \A p \in C : GroupOf(k, latest, p) = {s \in latest : SnapshotOf[s].protocol = p}
  BY <1>9 DEF GroupOf
<1>14. SumFunction([p \in DOMAIN of |-> of[p].pools]) = Cardinality({SnapshotOf[s].pool : s \in stored})
  <2>1. PICK g : g = [p \in C |-> of[p].pools]
    OBVIOUS
  <2>2. CountsOf(g, k, latest, C)
    BY <1>12, <1>13, <2>1 DEF CountsOf
  <2>3. SumFunctionOnSet(g, C) = Cardinality(latest)
    BY <1>8, <1>11, <2>2, CountByGroup
  <2>4. SumFunction(g) = SumFunctionOnSet(g, C)
    BY <2>1 DEF SumFunction
  <2>5. PICK b : b = [s \in latest |-> SnapshotOf[s].pool]
    OBVIOUS
  <2>6. OneToOne(b, latest)
    BY <1>7, <2>5 DEF OneToOne
  <2>7. ImageOf(b, latest) = {SnapshotOf[s].pool : s \in stored}
    BY <1>7, <2>5 DEF ImageOf
  <2>8. Cardinality(ImageOf(b, latest)) = Cardinality(latest)
    BY <1>8, <2>6, CountMapped
  <2> QED
    BY <1>12, <2>1, <2>3, <2>4, <2>7, <2>8
<1>15. SumFunction([p \in DOMAIN of |-> of[p].tvl]) = TotalTvl(rows)
  <2>1. PICK priced \in SUBSET latest : priced = {x \in latest : SnapshotOf[x].known}
    OBVIOUS
  <2>2. PICK f : f = [s \in priced |-> SnapshotOf[s].tvl]
    OBVIOUS
  <2>3. IsFiniteSet(priced) /\ IsCount(f, priced)
    BY <1>8, <2>2, ActivityAssumption, FS_Subset DEF IsCount
  <2>4. Grouped(k, priced, C)
    BY <1>11 DEF Grouped
  <2>5. PICK g : g = [p \in C |-> of[p].tvl]
    OBVIOUS
  <2>6. ASSUME NEW p \in C PROVE g[p] = SumFunctionOnSet(f, GroupOf(k, priced, p))
    <3>1. PICK T \in SUBSET priced : T = GroupOf(k, priced, p)
      BY DEF GroupOf
    <3>2. T = Priced({s \in latest : SnapshotOf[s].protocol = p})
      BY <1>9, <2>1, <3>1 DEF GroupOf, Priced
    <3>3. PICK h : h = [s \in T |-> SnapshotOf[s].tvl]
      OBVIOUS
    <3>4. g[p] = SumFunction(h)
      BY <1>12, <2>5, <3>2, <3>3 DEF Tvl
    <3>5. DOMAIN h = T /\ \A s \in T : h[s] = f[s]
      BY <2>2, <3>3
    <3>6. SumFunction(h) = SumFunctionOnSet(f, T)
      BY <2>3, <3>5, SumGiven
    <3> QED
      BY <3>1, <3>4, <3>6
  <2>7. SumsOf(g, f, k, priced, C)
    BY <2>6 DEF SumsOf
  <2>8. SumFunctionOnSet(g, C) = SumFunctionOnSet(f, priced)
    BY <1>11, <2>3, <2>4, <2>7, SumByGroup
  <2>9. SumFunction(g) = SumFunctionOnSet(g, C) /\ SumFunction(f) = SumFunctionOnSet(f, priced)
    BY <2>2, <2>5 DEF SumFunction
  <2>10. TotalTvl(rows) = SumFunction(f)
    BY <1>3, <2>1, <2>2 DEF TotalTvl
  <2> QED
    BY <1>12, <2>5, <2>8, <2>9, <2>10
<1> QED
  BY <1>2, <1>3, <1>4, <1>5, <1>7, <1>14, <1>15, Zenon DEF TvlIsLatest

\* The inductive invariant of the stored gold rows.
THEOREM AcInvariant == AcSpec => []AcInv
  BY AcInitInv, AcStep, PTL DEF AcSpec

\* Forensics, protocol activity and TVL reports add up, whatever rows were
\* stored, in whatever order and how often.
THEOREM ActivityReports == AcSpec => [](ForensicsAddsUp /\ ActivityCountsOnce /\ TvlIsLatest)
<1>1. AcInv => ForensicsAddsUp /\ ActivityCountsOnce /\ TvlIsLatest
  BY ForensicsFromRows, ActivityFromRows, TvlFromRows
<1> QED
  BY <1>1, AcInvariant, PTL

-----------------------------------------------------------------------------
(* Hyperliquid analytics *)

LEMMA FillType ==
    ASSUME NEW f \in Fills
    PROVE  /\ FillOf[f].wallet \in Traders /\ FillOf[f].coin \in Coins /\ FillOf[f].time \in Nat
           /\ FillOf[f].dir \in {"Open", "Close", "Flip", "none"} /\ FillOf[f].has \in BOOLEAN
           /\ FillOf[f].pnl \in Int /\ FillOf[f].fee \in Int
           /\ Size(f) \in Nat \ {0} /\ Notional(f) \in Nat /\ Realized(f) \in Int
<1>1. FillOf[f] \in [wallet : Traders, coin : Coins, time : Nat, dir : {"Open", "Close", "Flip", "none"},
                     size : Nat \ {0}, px : Nat, has : BOOLEAN, pnl : Int, fee : Int]
  BY AnalyticsAssumption
<1>2. Realized(f) \in Int
  BY <1>1 DEF Realized
<1>3. \A a, b \in Nat : a * b \in Nat
  OBVIOUS
<1> QED
  BY <1>1, <1>2, <1>3 DEF Size, Notional

\* The rows a materialization reads, each fill once.
RowsOK(rows, w) ==
    /\ DOMAIN rows \in SUBSET Nat /\ IsFiniteSet(DOMAIN rows)
    /\ \A i \in DOMAIN rows : rows[i] \in Fills /\ FillOf[rows[i]].wallet = w
    /\ \A i, j \in DOMAIN rows : rows[i] = rows[j] => i = j

\* The fills of a wallet's coin, each once and the earliest first.
FillsOf(s, rows, w, c) ==
    /\ s \in Seq(Fills)
    /\ \A k \in 1 .. Len(s) : s[k] \in Range(rows) /\ FillOf[s[k]].coin = c /\ FillOf[s[k]].wallet = w
    /\ \A f \in Range(rows) : FillOf[f].coin = c => \E k \in 1 .. Len(s) : s[k] = f
    /\ \A k, l \in 1 .. Len(s) : s[k] = s[l] => k = l
    /\ \A k, l \in 1 .. Len(s) : k < l => FillOf[s[k]].time <= FillOf[s[l]].time

\* sort_by_key.
LEMMA CoinFillsIs ==
    ASSUME NEW rows, NEW w, RowsOK(rows, w), NEW c
    PROVE  FillsOf(CoinFills(rows, c), rows, w, c)
<1>1. PICK at : at = CoinRows(rows, c)
  OBVIOUS
<1>2. /\ at \in SUBSET Nat /\ at \in SUBSET DOMAIN rows
      /\ \A i \in at : /\ rows[i] \in Fills /\ rows[i] \in Range(rows)
                       /\ FillOf[rows[i]].coin = c /\ FillOf[rows[i]].wallet = w
      /\ \A i, j \in at : rows[i] = rows[j] => i = j
      /\ \A f \in Range(rows) : FillOf[f].coin = c => \E i \in at : rows[i] = f
  BY <1>1 DEF RowsOK, CoinRows, Range
<1>3. IsFiniteSet(at)
  BY <1>2, FS_Subset DEF RowsOK
<1>4. \A i \in at : i \in Nat /\ FillOf[rows[i]].time \in Nat
  BY <1>2, FillType
<1> DEFINE L == {e \in at \X at : Earlier(rows, e[1], e[2])}
           n == Cardinality(at)
<1>5. IsOrder(at, L)
  <2>1. \A i \in at : ~ Earlier(rows, i, i)
    BY <1>4 DEF Earlier
  <2>2. \A i, j \in at : i # j => Earlier(rows, i, j) \/ Earlier(rows, j, i)
    BY <1>4 DEF Earlier
  <2>3. ASSUME NEW i \in at, NEW j \in at, NEW k \in at, Earlier(rows, i, j), Earlier(rows, j, k)
        PROVE  Earlier(rows, i, k)
    <3>1. /\ i \in Nat /\ j \in Nat /\ k \in Nat
          /\ FillOf[rows[i]].time \in Nat /\ FillOf[rows[j]].time \in Nat /\ FillOf[rows[k]].time \in Nat
      BY <1>4
    <3> QED
      BY <2>3, <3>1 DEF Earlier
  <2>4. \A i, j \in at : <<i, j>> \in L <=> Earlier(rows, i, j)
    OBVIOUS
  <2> HIDE DEF L
  <2> QED
    BY <2>1, <2>2, <2>3, <2>4 DEF IsOrder
<1>6. \A i \in at : RankIn(at, L, i) = Cardinality({j \in at : Earlier(rows, j, i)})
  <2>1. \A i \in at : {j \in at : <<j, i>> \in L} = {j \in at : Earlier(rows, j, i)}
    OBVIOUS
  <2> QED
    BY <2>1 DEF RankIn
<1> DEFINE s == CoinFills(rows, c)
           pos == [k \in 1 .. n |-> CHOOSE i \in at : Cardinality({j \in at : Earlier(rows, j, i)}) = k - 1]
<1>7. ASSUME NEW k \in 1 .. n, \E i \in at : RankIn(at, L, i) = k - 1
      PROVE  pos[k] \in at /\ RankIn(at, L, pos[k]) = k - 1
  <2>1. \E i \in at : Cardinality({j \in at : Earlier(rows, j, i)}) = k - 1
    BY <1>6, <1>7
  <2>2. pos[k] \in at /\ Cardinality({j \in at : Earlier(rows, j, pos[k])}) = k - 1
    BY <2>1, Zenon
  <2> QED
    BY <1>6, <2>2
<1>8. s = [k \in 1 .. n |-> rows[pos[k]]]
  BY <1>1 DEF CoinFills, Sorted
<1>9. \A i, j \in at : <<i, j>> \in L => Earlier(rows, i, j)
  OBVIOUS
<1> HIDE DEF pos, L, s
<1>10. /\ n \in Nat
       /\ \A k \in 1 .. n : pos[k] \in at
       /\ \A i \in at : \E k \in 1 .. n : pos[k] = i
       /\ \A k, l \in 1 .. n : k < l => <<pos[k], pos[l]>> \in L
  BY <1>3, <1>5, <1>7, SortIs
<1>11. s \in Seq(Fills) /\ Len(s) = n
  <2>1. \A k \in 1 .. n : rows[pos[k]] \in Fills
    BY <1>2, <1>10
  <2>2. s \in [1 .. n -> Fills]
    BY <1>8, <2>1
  <2> QED
    BY <1>10, <2>2
<1>12. \A k \in 1 .. n : s[k] = rows[pos[k]] /\ pos[k] \in at
  BY <1>8, <1>10
<1>13. ASSUME NEW k \in 1 .. n
       PROVE  s[k] \in Range(rows) /\ FillOf[s[k]].coin = c /\ FillOf[s[k]].wallet = w
  <2>1. PICK i \in at : s[k] = rows[i]
    BY <1>12
  <2> QED
    BY <1>2, <2>1
<1>14. ASSUME NEW f \in Range(rows), FillOf[f].coin = c PROVE \E k \in 1 .. n : s[k] = f
  BY <1>2, <1>10, <1>12, <1>14
<1>15. ASSUME NEW k \in 1 .. n, NEW l \in 1 .. n, k < l
       PROVE  s[k] # s[l] /\ FillOf[s[k]].time <= FillOf[s[l]].time
  <2>1. PICK i \in at, j \in at : i = pos[k] /\ j = pos[l]
    BY <1>12
  <2>2. Earlier(rows, i, j)
    BY <1>9, <1>10, <1>15, <2>1
  <2>3. i \in Nat /\ j \in Nat /\ FillOf[rows[i]].time \in Nat /\ FillOf[rows[j]].time \in Nat
    BY <1>4
  <2>4. i # j /\ FillOf[rows[i]].time <= FillOf[rows[j]].time
    BY <2>2, <2>3 DEF Earlier
  <2>5. s[k] = rows[i] /\ s[l] = rows[j]
    BY <1>12, <2>1
  <2>6. rows[i] # rows[j]
    BY <1>2, <2>4
  <2> QED
    BY <2>4, <2>5, <2>6
<1>16. ASSUME NEW k \in 1 .. n, NEW l \in 1 .. n, s[k] = s[l] PROVE k = l
  <2>1. k < l \/ l < k \/ k = l
    BY <1>10
  <2> QED
    BY <1>15, <1>16, <2>1
<1> QED
  BY <1>11, <1>13, <1>14, <1>15, <1>16 DEF FillsOf, s

-----------------------------------------------------------------------------
(* build_trade_history *)

NoTrades == [opens |-> <<>>, trades |-> {}]

\* The loop of CoinTrades, at each position.
Pairs(up, s) == up = [k \in 0 .. Len(s) |-> IF k = 0 THEN NoTrades ELSE NextFill(up[k - 1], s[k])]

IsOpen(f) == FillOf[f].dir = "Open"
IsClose(f) == FillOf[f].dir = "Close"

\* f is one of the opens before position k + 1 that no close has ended.
StillOpen(f, s, k) == \E j \in 1 .. k : s[j] = f /\ IsOpen(f) /\ \A i \in 1 .. k : i > j => ~ IsClose(s[i])

\* The trade that a close ends.
Ended(opens, f) == IF opens = <<>> THEN Standalone(f) ELSE Paired(opens, f)

LEMMA NextFillIs ==
    ASSUME NEW f \in Fills, NEW opens \in Seq(Fills), NEW ts
    PROVE  LET a == [opens |-> opens, trades |-> ts]
           IN  /\ IsOpen(f) => NextFill(a, f) = [opens |-> Append(opens, f), trades |-> ts]
               /\ IsClose(f) => NextFill(a, f) = [opens |-> <<>>, trades |-> ts \cup {Ended(opens, f)}]
               /\ ~ IsOpen(f) /\ ~ IsClose(f) => NextFill(a, f) = a
<1>1. PICK a : a = [opens |-> opens, trades |-> ts]
  OBVIOUS
<1>2. PICK d \in {"Open", "Close", "Flip", "none"} : d = FillOf[f].dir
  BY FillType
<1>3. PICK e \in BOOLEAN : e <=> (opens = <<>>)
  OBVIOUS
<1>4. NextFill(a, f) =
        CASE d = "Open" -> [a EXCEPT !.opens = Append(@, f)]
          [] d = "Close" /\ ~ e -> [opens |-> AfterClose(a.opens), trades |-> a.trades \cup {Paired(a.opens, f)}]
          [] d = "Close" /\ e -> [a EXCEPT !.trades = @ \cup {Standalone(f)}]
          [] OTHER -> a
  <2>1. a.opens = opens
    BY <1>1
  <2> QED
    BY <1>2, <1>3, <2>1, Zenon DEF NextFill
<1>5. CASE d = "Open"
  <2>1. NextFill(a, f) = [a EXCEPT !.opens = Append(@, f)]
    BY <1>4, <1>5
  <2> QED
    BY <1>1, <1>2, <1>5, <2>1 DEF IsOpen, IsClose
<1>6. CASE d = "Close" /\ ~ e
  <2>1. NextFill(a, f) = [opens |-> AfterClose(a.opens), trades |-> a.trades \cup {Paired(a.opens, f)}]
    BY <1>4, <1>6
  <2> QED
    BY <1>1, <1>2, <1>3, <1>6, <2>1 DEF IsOpen, IsClose, AfterClose, Ended
<1>7. CASE d = "Close" /\ e
  <2>1. NextFill(a, f) = [a EXCEPT !.trades = @ \cup {Standalone(f)}]
    BY <1>4, <1>7
  <2>2. opens = <<>> /\ Ended(opens, f) = Standalone(f)
    BY <1>3, <1>7 DEF Ended
  <2> QED
    BY <1>1, <1>2, <1>7, <2>1, <2>2 DEF IsOpen, IsClose
<1>8. CASE d # "Open" /\ d # "Close"
  <2>1. NextFill(a, f) = a
    BY <1>2, <1>4, <1>8
  <2> QED
    BY <1>1, <1>2, <1>8, <2>1 DEF IsOpen, IsClose
<1> QED
  BY <1>2, <1>5, <1>6, <1>7, <1>8

LEMMA RangeOf ==
    ASSUME NEW s \in Seq(Fills)
    PROVE  /\ Range(s) \in SUBSET Fills
           /\ \A f : f \in Range(s) <=> \E k \in 1 .. Len(s) : s[k] = f
<1>1. \A f : f \in Range(s) <=> \E k \in 1 .. Len(s) : s[k] = f
  BY DEF Range
<1>2. \A k \in 1 .. Len(s) : s[k] \in Fills
  OBVIOUS
<1>3. ASSUME NEW f \in Range(s) PROVE f \in Fills
  BY <1>1, <1>2
<1> QED
  BY <1>1, <1>3

\* What is known of a trade from the fills it was made from.
AreOf(fs, w, c) == \A g \in fs : FillOf[g].wallet = w /\ FillOf[g].coin = c
IsTradeOf(t, fs, f, w, c) ==
    TradeOK(t) /\ t.wallet = w /\ t.coin = c /\ t.fills = fs /\ t.realized = Realized(f)

LEMMA EndedIs ==
    ASSUME NEW opens \in Seq(Fills), NEW f \in Fills, NEW w, NEW c, AreOf(Range(opens) \cup {f}, w, c)
    PROVE  IsTradeOf(Ended(opens, f), Range(opens) \cup {f}, f, w, c)
<1>1. PICK t : t = Ended(opens, f)
  OBVIOUS
<1>2. w \in Traders /\ c \in Coins /\ Realized(f) \in Int /\ FillOf[f].wallet = w /\ FillOf[f].coin = c
  BY FillType DEF AreOf
<1>3. PICK O \in SUBSET Fills : O = Range(opens)
  BY RangeOf
<1>4. CASE opens = <<>>
  <2>1. t = Standalone(f) /\ O = {}
    BY <1>1, <1>3, <1>4 DEF Ended, Range
  <2>2. Size(f) \in Nat \ {0} /\ Notional(f) \in Int
    BY FillType
  <2>3. /\ t.wallet = w /\ t.coin = c /\ t.fills = O \cup {f} /\ t.realized = Realized(f)
        /\ t.size = Size(f) /\ t.volume = Notional(f)
    BY <1>2, <2>1 DEF Standalone
  <2>4. TradeOK(t)
    BY <1>2, <1>3, <2>2, <2>3 DEF TradeOK, AreOf
  <2> QED
    BY <1>1, <1>3, <2>3, <2>4 DEF IsTradeOf
<1>5. CASE opens # <<>>
  <2>1. t = Paired(opens, f)
    BY <1>1, <1>5 DEF Ended
  <2>2. O # {} /\ IsFiniteSet(O)
    <3>1. opens[1] \in O
      BY <1>3, <1>5 DEF Range
    <3> QED
      BY <3>1, AnalyticsAssumption, FS_Subset
  <2>3. PICK sz, vo : sz = [g \in O |-> Size(g)] /\ vo = [g \in O |-> Notional(g)]
    OBVIOUS
  <2>4. \A g \in O : sz[g] \in Nat \ {0} /\ vo[g] \in Nat
    BY <2>3, FillType
  <2>5. SumFunctionOnSet(sz, O) \in Nat \ {0} /\ SumFunctionOnSet(vo, O) \in Nat
    BY <2>2, <2>4, SumPositive, SumNatural
  <2>6. SumFunction(sz) \in Nat \ {0} /\ SumFunction(vo) \in Nat
    BY <2>3, <2>5 DEF SumFunction
  <2>7. /\ t.wallet = w /\ t.coin = c /\ t.fills = O \cup {f} /\ t.realized = Realized(f)
        /\ t.size = SumFunction(sz) /\ t.volume = SumFunction(vo)
    BY <1>2, <1>3, <2>1, <2>3 DEF Paired, SumOf
  <2>8. TradeOK(t)
    BY <1>2, <1>3, <2>6, <2>7 DEF TradeOK, AreOf
  <2> QED
    BY <1>1, <1>3, <2>7, <2>8 DEF IsTradeOf
<1> QED
  BY <1>4, <1>5

\* The loop, as the position moves on: the opens it holds, and a trade for each
\* close it has passed.
PairedUpTo(up, s, k) ==
    /\ up[k] = [opens |-> up[k].opens, trades |-> up[k].trades]
    /\ up[k].opens \in Seq(Fills)
    /\ \A f : f \in Range(up[k].opens) <=> StillOpen(f, s, k)
    /\ up[k].trades = {Ended(up[d - 1].opens, s[d]) : d \in {e \in 1 .. k : IsClose(s[e])}}

LEMMA PairsChosen ==
    ASSUME NEW s, \E up : Pairs(up, s), Directed(s)
    PROVE  \E up : Pairs(up, s) /\ CoinTrades(s) = up[Len(s)].trades
  BY Zenon DEF CoinTrades, Pairs, NoTrades

LEMMA PairsExist ==
    ASSUME NEW s \in Seq(Fills)
    PROVE  \E up : Pairs(up, s)
<1>1. PICK n \in Nat : n = Len(s)
  OBVIOUS
<1>2. PICK T : T = {Ended(e[1], e[2]) : e \in Seq(Fills) \X Fills}
  OBVIOUS
<1>3. PICK S : S = [opens : Seq(Fills), trades : SUBSET T]
  OBVIOUS
<1>4. PICK step : step = [p \in (1 .. n) \X S |-> NextFill(p[2], s[p[1]])]
  OBVIOUS
<1>5. ASSUME NEW k \in 1 .. n, NEW x \in S PROVE step[<<k, x>>] = NextFill(x, s[k]) /\ step[<<k, x>>] \in S
  <2>1. step[<<k, x>>] = NextFill(x, s[k])
    BY <1>4
  <2>2. PICK f \in Fills : f = s[k]
    BY <1>1
  <2>3. PICK opens \in Seq(Fills), ts \in SUBSET T : x = [opens |-> opens, trades |-> ts]
    BY <1>3
  <2>4. Ended(opens, f) \in T
    <3>1. <<opens, f>> \in Seq(Fills) \X Fills
      OBVIOUS
    <3>2. Ended(opens, f) = Ended(<<opens, f>>[1], <<opens, f>>[2])
      OBVIOUS
    <3> QED
      BY <1>2, <3>1, <3>2, Zenon
  <2>5. \/ NextFill(x, f) = [opens |-> Append(opens, f), trades |-> ts]
        \/ NextFill(x, f) = [opens |-> <<>>, trades |-> ts \cup {Ended(opens, f)}]
        \/ NextFill(x, f) = x
    BY <2>3, NextFillIs
  <2>6. Append(opens, f) \in Seq(Fills) /\ <<>> \in Seq(Fills) /\ ts \cup {Ended(opens, f)} \in SUBSET T
    BY <2>4
  <2>7. NextFill(x, f) \in S
    <3>1. [opens |-> Append(opens, f), trades |-> ts] \in S
      BY <1>3, <2>6
    <3>2. [opens |-> <<>>, trades |-> ts \cup {Ended(opens, f)}] \in S
      BY <1>3, <2>6
    <3> QED
      BY <2>5, <3>1, <3>2
  <2> QED
    BY <2>1, <2>2, <2>7
<1>6. NoTrades \in S
  BY <1>3 DEF NoTrades
<1>7. PICK up : IsLoop(up, n, NoTrades, step) /\ \A k \in 0 .. n : up[k] \in S
  <2>1. StepsIn(step, n, S)
    BY <1>5 DEF StepsIn
  <2> QED
    BY <1>6, <2>1, LoopRuns
<1>8. ASSUME NEW k \in 0 .. n PROVE up[k] = IF k = 0 THEN NoTrades ELSE NextFill(up[k - 1], s[k])
  <2>1. CASE k = 0
    BY <1>7, <2>1 DEF IsLoop
  <2>2. CASE k # 0
    <3>1. k \in 1 .. n /\ k - 1 \in 0 .. n
      BY <2>2
    <3>2. up[k] = step[<<k, up[k - 1]>>] /\ up[k - 1] \in S
      BY <1>7, <3>1 DEF IsLoop
    <3> QED
      BY <1>5, <2>2, <3>1, <3>2
  <2> QED
    BY <2>1, <2>2
<1>9. up = [k \in 0 .. n |-> IF k = 0 THEN NoTrades ELSE NextFill(up[k - 1], s[k])]
  <2>1. up = [k \in 0 .. n |-> up[k]]
    BY <1>7 DEF IsLoop
  <2> QED
    BY <1>8, <2>1
<1> QED
  BY <1>1, <1>9 DEF Pairs

LEMMA PairsStep ==
    ASSUME NEW s \in Seq(Fills), NEW up, Pairs(up, s), NEW k \in 1 .. Len(s), PairedUpTo(up, s, k - 1)
    PROVE  PairedUpTo(up, s, k)
<1>1. PICK f \in Fills : f = s[k]
  OBVIOUS
<1>a. PICK opens \in Seq(Fills) : opens = up[k - 1].opens
  BY DEF PairedUpTo
<1>2. PICK ts : opens = up[k - 1].opens /\ ts = up[k - 1].trades /\ up[k - 1] = [opens |-> opens, trades |-> ts]
  BY <1>a DEF PairedUpTo
<1>3. up[k] = NextFill([opens |-> opens, trades |-> ts], f)
  <2>1. k \in 0 .. Len(s) /\ k # 0
    OBVIOUS
  <2>2. up[k] = NextFill(up[k - 1], s[k])
    BY <2>1, Zenon DEF Pairs
  <2> QED
    BY <1>1, <1>2, <2>2
<1>4. \A g : g \in Range(opens) <=> StillOpen(g, s, k - 1)
  BY <1>2 DEF PairedUpTo
<1>5. PICK D : D = {e \in 1 .. k - 1 : IsClose(s[e])}
  OBVIOUS
<1>6. ts = {Ended(up[d - 1].opens, s[d]) : d \in D}
  BY <1>2, <1>5 DEF PairedUpTo
<1>7. 1 .. k = (1 .. k - 1) \cup {k} /\ k \notin 1 .. k - 1
  OBVIOUS
<1>8. CASE IsOpen(f)
  <2>1. up[k] = [opens |-> Append(opens, f), trades |-> ts] /\ ~ IsClose(f)
    BY <1>3, <1>8, NextFillIs DEF IsOpen, IsClose
  <2>2. up[k].opens = Append(opens, f) /\ up[k].trades = ts
    BY <2>1
  <2>3. Append(opens, f) \in Seq(Fills)
    OBVIOUS
  <2>4. {e \in 1 .. k : IsClose(s[e])} = D
    BY <1>1, <1>5, <1>7, <2>1
  <2>5. \A g : g \in Range(Append(opens, f)) <=> g \in Range(opens) \/ g = f
    <3>1. PICK a \in Seq(Fills) : a = Append(opens, f)
      BY <2>3
    <3>2. PICK n \in Nat : n = Len(opens)
      OBVIOUS
    <3>3. Len(a) = n + 1 /\ (\A i \in 1 .. n : a[i] = opens[i]) /\ a[n + 1] = f
      BY <3>1, <3>2
    <3>4. \A g : g \in Range(a) <=> \E i \in 1 .. n + 1 : a[i] = g
      BY <3>3, RangeOf
    <3>5. \A g : g \in Range(opens) <=> \E i \in 1 .. n : opens[i] = g
      BY <3>2, RangeOf
    <3>6. 1 .. n + 1 = (1 .. n) \cup {n + 1}
      OBVIOUS
    <3> QED
      BY <3>1, <3>3, <3>4, <3>5, <3>6
  <2>6. \A g : StillOpen(g, s, k) <=> StillOpen(g, s, k - 1) \/ g = f
    <3>1. StillOpen(f, s, k)
      BY <1>1, <1>8 DEF StillOpen
    <3>2. ASSUME NEW g, StillOpen(g, s, k - 1) PROVE StillOpen(g, s, k)
      BY <1>1, <1>7, <2>1, <3>2 DEF StillOpen
    <3>3. ASSUME NEW g, StillOpen(g, s, k), g # f PROVE StillOpen(g, s, k - 1)
      BY <1>1, <1>7, <3>3 DEF StillOpen
    <3> QED
      BY <3>1, <3>2, <3>3
  <2>7. \A g : g \in Range(up[k].opens) <=> StillOpen(g, s, k)
    BY <1>4, <2>2, <2>5, <2>6
  <2>8. up[k].trades = {Ended(up[d - 1].opens, s[d]) : d \in {e \in 1 .. k : IsClose(s[e])}}
    BY <1>6, <2>2, <2>4
  <2> QED
    BY <2>1, <2>2, <2>3, <2>7, <2>8 DEF PairedUpTo
<1>9. CASE IsClose(f)
  <2>1. up[k] = [opens |-> <<>>, trades |-> ts \cup {Ended(opens, f)}]
    BY <1>3, <1>9, NextFillIs
  <2>2. up[k].opens = <<>> /\ up[k].trades = ts \cup {Ended(opens, f)}
    BY <2>1
  <2>3. {e \in 1 .. k : IsClose(s[e])} = D \cup {k}
    BY <1>1, <1>5, <1>7, <1>9
  <2>4. \A g : ~ StillOpen(g, s, k)
    <3>1. ASSUME NEW g, StillOpen(g, s, k) PROVE FALSE
      <4>1. PICK j \in 1 .. k : s[j] = g /\ IsOpen(g) /\ \A i \in 1 .. k : i > j => ~ IsClose(s[i])
        BY <3>1 DEF StillOpen
      <4>2. j # k
        BY <1>1, <1>9, <4>1 DEF IsOpen, IsClose
      <4>3. k \in 1 .. k /\ k > j
        BY <4>2
      <4> QED
        BY <1>1, <1>9, <4>1, <4>3
    <3> QED
      BY <3>1
  <2>5. \A g : g \in Range(up[k].opens) <=> StillOpen(g, s, k)
    BY <2>2, <2>4 DEF Range
  <2>6. Ended(opens, f) = Ended(up[k - 1].opens, s[k])
    BY <1>1, <1>2
  <2>7. up[k].trades = {Ended(up[d - 1].opens, s[d]) : d \in D \cup {k}}
    BY <1>6, <2>2, <2>6
  <2>8. up[k].trades = {Ended(up[d - 1].opens, s[d]) : d \in {e \in 1 .. k : IsClose(s[e])}}
    BY <2>3, <2>7
  <2>9. up[k].opens \in Seq(Fills) /\ up[k] = [opens |-> up[k].opens, trades |-> up[k].trades]
    BY <2>1, <2>2
  <2> QED
    BY <2>5, <2>8, <2>9, Zenon DEF PairedUpTo
<1>10. CASE ~ IsOpen(f) /\ ~ IsClose(f)
  <2>1. up[k] = [opens |-> opens, trades |-> ts]
    BY <1>3, <1>10, NextFillIs
  <2>2. up[k].opens = opens /\ up[k].trades = ts
    BY <2>1
  <2>3. {e \in 1 .. k : IsClose(s[e])} = D
    BY <1>1, <1>5, <1>7, <1>10
  <2>4. \A g : StillOpen(g, s, k) <=> StillOpen(g, s, k - 1)
    <3>1. ASSUME NEW g, StillOpen(g, s, k - 1) PROVE StillOpen(g, s, k)
      BY <1>1, <1>7, <1>10, <3>1 DEF StillOpen
    <3>2. ASSUME NEW g, StillOpen(g, s, k) PROVE StillOpen(g, s, k - 1)
      <4>1. PICK j \in 1 .. k : s[j] = g /\ IsOpen(g) /\ \A i \in 1 .. k : i > j => ~ IsClose(s[i])
        BY <3>2 DEF StillOpen
      <4>2. j # k
        BY <1>1, <1>10, <4>1
      <4>3. j \in 1 .. k - 1 /\ \A i \in 1 .. k - 1 : i \in 1 .. k
        BY <1>7, <4>2
      <4> QED
        BY <4>1, <4>3 DEF StillOpen
    <3> QED
      BY <3>1, <3>2
  <2>5. \A g : g \in Range(up[k].opens) <=> StillOpen(g, s, k)
    BY <1>4, <2>2, <2>4
  <2>6. up[k].trades = {Ended(up[d - 1].opens, s[d]) : d \in {e \in 1 .. k : IsClose(s[e])}}
    BY <1>6, <2>2, <2>3
  <2> QED
    BY <2>1, <2>2, <2>5, <2>6 DEF PairedUpTo
<1> QED
  BY <1>8, <1>9, <1>10

LEMMA PairsAre ==
    ASSUME NEW s \in Seq(Fills), NEW up, Pairs(up, s)
    PROVE  \A k \in 0 .. Len(s) : PairedUpTo(up, s, k)
<1>1. PICK n \in Nat : n = Len(s)
  OBVIOUS
<1> DEFINE G == {k \in 0 .. n : PairedUpTo(up, s, k)}
<1>2. 0 \in G
  <2>1. up[0] = NoTrades
    BY <1>1 DEF Pairs
  <2>2. up[0].opens = <<>> /\ up[0].trades = {}
    BY <2>1 DEF NoTrades
  <2>3. up[0] = [opens |-> up[0].opens, trades |-> up[0].trades] /\ up[0].opens \in Seq(Fills)
    BY <2>1, <2>2 DEF NoTrades
  <2>4. \A f : f \notin Range(up[0].opens) /\ ~ StillOpen(f, s, 0)
    BY <2>2 DEF Range, StillOpen
  <2>5. {e \in 1 .. 0 : IsClose(s[e])} = {}
    OBVIOUS
  <2>6. up[0].trades = {Ended(up[d - 1].opens, s[d]) : d \in {e \in 1 .. 0 : IsClose(s[e])}}
    BY <2>2, <2>5
  <2> QED
    BY <2>3, <2>4, <2>6 DEF PairedUpTo
<1>3. ASSUME NEW k \in 1 .. n, k - 1 \in G PROVE k \in G
  BY <1>1, <1>3, PairsStep
<1>4. G = 0 .. n
  <2>1. G \in SUBSET (0 .. n)
    OBVIOUS
  <2> HIDE DEF G
  <2> QED
    BY <2>1, <1>2, <1>3, LoopKeeps
<1> QED
  BY <1>1, <1>4

\* tr gives for each position in D a trade that the fill there ends, and they
\* have no fill in common.
Trades(tr, D, s, w, c) ==
    /\ D \in SUBSET (1 .. Len(s))
    /\ \A d \in D : /\ TradeOK(tr[d]) /\ tr[d].wallet = w /\ tr[d].coin = c
                    /\ tr[d].realized = Realized(s[d]) /\ s[d] \in tr[d].fills
    /\ \A d, e \in D : d # e => tr[d].fills \cap tr[e].fills = {}

\* The positions of the closes, each with the opens since the close before.
PairsCloses(tr, D, s) ==
    /\ D = {d \in 1 .. Len(s) : IsClose(s[d])}
    /\ \A d \in D : \A f : f \in tr[d].fills <=> StillOpen(f, s, d - 1) \/ f = s[d]

LEMMA DirectedTrades ==
    ASSUME NEW rows, NEW w, NEW c, NEW s, FillsOf(s, rows, w, c), Directed(s)
    PROVE  \E tr, D : Trades(tr, D, s, w, c) /\ CoinTrades(s) = ImageOf(tr, D) /\ PairsCloses(tr, D, s)
<1>1. s \in Seq(Fills) /\ \A k \in 1 .. Len(s) : s[k] \in Fills /\ FillOf[s[k]].wallet = w /\ FillOf[s[k]].coin = c
  BY DEF FillsOf
<1>2. \A k, l \in 1 .. Len(s) : s[k] = s[l] => k = l
  BY DEF FillsOf
<1>3. PICK up : Pairs(up, s) /\ CoinTrades(s) = up[Len(s)].trades
  BY <1>1, PairsExist, PairsChosen
<1>4. \A k \in 0 .. Len(s) : PairedUpTo(up, s, k)
  BY <1>1, <1>3, PairsAre
<1>5. PICK D \in SUBSET (1 .. Len(s)) : D = {d \in 1 .. Len(s) : IsClose(s[d])}
  OBVIOUS
<1>6. PICK tr : tr = [d \in D |-> Ended(up[d - 1].opens, s[d])]
  OBVIOUS
<1>7. CoinTrades(s) = ImageOf(tr, D)
  <2>1. PairedUpTo(up, s, Len(s))
    BY <1>1, <1>4
  <2>2. up[Len(s)].trades = {Ended(up[d - 1].opens, s[d]) : d \in D}
    BY <1>5, <2>1 DEF PairedUpTo
  <2>3. ImageOf(tr, D) = {Ended(up[d - 1].opens, s[d]) : d \in D}
    BY <1>6 DEF ImageOf
  <2> QED
    BY <1>3, <2>2, <2>3
<1>8. ASSUME NEW d \in D
      PROVE  /\ TradeOK(tr[d]) /\ tr[d].wallet = w /\ tr[d].coin = c
             /\ tr[d].realized = Realized(s[d]) /\ s[d] \in tr[d].fills
             /\ \A f : f \in tr[d].fills <=> StillOpen(f, s, d - 1) \/ f = s[d]
  <2>1. d \in 1 .. Len(s) /\ d - 1 \in 0 .. Len(s)
    BY <1>1, <1>5
  <2>2. PICK f \in Fills : f = s[d] /\ FillOf[f].wallet = w /\ FillOf[f].coin = c
    BY <1>1, <2>1
  <2>3. PICK opens \in Seq(Fills) : opens = up[d - 1].opens /\ \A g : g \in Range(opens) <=> StillOpen(g, s, d - 1)
    BY <1>4, <2>1 DEF PairedUpTo
  <2>4. ASSUME NEW g \in Range(opens) PROVE FillOf[g].wallet = w /\ FillOf[g].coin = c
    <3>1. PICK j \in 1 .. d - 1 : s[j] = g
      BY <2>3 DEF StillOpen
    <3>2. j \in 1 .. Len(s)
      BY <1>1, <2>1, <3>1
    <3> QED
      BY <1>1, <3>1, <3>2
  <2>5. AreOf(Range(opens) \cup {f}, w, c)
    BY <2>2, <2>4 DEF AreOf
  <2>6. PICK t : t = Ended(opens, f)
    OBVIOUS
  <2>7. TradeOK(t) /\ t.wallet = w /\ t.coin = c /\ t.fills = Range(opens) \cup {f} /\ t.realized = Realized(f)
    <3>1. IsTradeOf(t, Range(opens) \cup {f}, f, w, c)
      BY <2>5, <2>6, EndedIs
    <3> QED
      BY <3>1 DEF IsTradeOf
  <2>8. tr[d] = t
    BY <1>6, <2>2, <2>3, <2>6
  <2> QED
    BY <2>2, <2>3, <2>7, <2>8
<1>9. ASSUME NEW d \in D, NEW e \in D, d < e, NEW f, f \in tr[d].fills, f \in tr[e].fills PROVE FALSE
  <2>1. d \in 1 .. Len(s) /\ e \in 1 .. Len(s) /\ IsClose(s[d]) /\ IsClose(s[e])
    BY <1>5
  <2>2. \A k : StillOpen(f, s, k) => IsOpen(f)
    BY DEF StillOpen
  <2>3. ~ IsClose(f) \/ f = s[d]
    BY <1>8, <1>9, <2>2 DEF IsOpen, IsClose
  <2>4. ~ IsClose(f) \/ f = s[e]
    BY <1>8, <1>9, <2>2 DEF IsOpen, IsClose
  <2>5. s[d] # s[e]
    BY <1>2, <1>9, <2>1
  <2>6. StillOpen(f, s, d - 1) /\ StillOpen(f, s, e - 1)
    BY <1>8, <1>9, <2>1, <2>3, <2>4, <2>5
  <2>7. PICK i \in 1 .. d - 1 : s[i] = f
    BY <2>6 DEF StillOpen
  <2>8. PICK j \in 1 .. e - 1 : s[j] = f /\ \A l \in 1 .. e - 1 : l > j => ~ IsClose(s[l])
    BY <2>6 DEF StillOpen
  <2>9. i \in 1 .. Len(s) /\ j \in 1 .. Len(s)
    BY <1>1, <2>1, <2>7, <2>8
  <2>10. i = j
    BY <1>2, <2>7, <2>8, <2>9
  <2>11. d \in 1 .. e - 1 /\ d > j
    BY <1>9, <2>1, <2>7, <2>10
  <2> QED
    BY <2>1, <2>8, <2>11
<1>10. ASSUME NEW d \in D, NEW e \in D, d # e PROVE tr[d].fills \cap tr[e].fills = {}
  <2>1. d < e \/ e < d
    BY <1>5, <1>10
  <2> QED
    BY <1>9, <2>1
<1>11. Trades(tr, D, s, w, c) /\ PairsCloses(tr, D, s)
  BY <1>5, <1>8, <1>10 DEF Trades, PairsCloses
<1> QED
  BY <1>7, <1>11

LEMMA UndirectedTrades ==
    ASSUME NEW rows, NEW w, NEW c, NEW s, FillsOf(s, rows, w, c), ~ Directed(s)
    PROVE  \E tr, D : /\ Trades(tr, D, s, w, c) /\ CoinTrades(s) = ImageOf(tr, D)
                      /\ D = {d \in 1 .. Len(s) : FillOf[s[d]].has}
<1>1. s \in Seq(Fills) /\ \A k \in 1 .. Len(s) : s[k] \in Fills /\ FillOf[s[k]].wallet = w /\ FillOf[s[k]].coin = c
  BY DEF FillsOf
<1>2. \A k, l \in 1 .. Len(s) : s[k] = s[l] => k = l
  BY DEF FillsOf
<1>3. PICK D \in SUBSET (1 .. Len(s)) : D = {d \in 1 .. Len(s) : FillOf[s[d]].has}
  OBVIOUS
<1>4. PICK tr : tr = [d \in D |-> Standalone(s[d])]
  OBVIOUS
<1>5. CoinTrades(s) = {Standalone(f) : f \in {g \in Range(s) : FillOf[g].has}}
  BY Zenon DEF CoinTrades
<1>6. \A f : f \in Range(s) <=> \E k \in 1 .. Len(s) : s[k] = f
  BY <1>1, RangeOf
<1>7. CoinTrades(s) = ImageOf(tr, D)
  BY <1>3, <1>4, <1>5, <1>6 DEF ImageOf
<1>8. ASSUME NEW d \in D
      PROVE  /\ TradeOK(tr[d]) /\ tr[d].wallet = w /\ tr[d].coin = c
             /\ tr[d].realized = Realized(s[d]) /\ tr[d].fills = {s[d]}
  <2>1. PICK f \in Fills : f = s[d] /\ FillOf[f].wallet = w /\ FillOf[f].coin = c
    BY <1>1
  <2>2. PICK none \in Seq(Fills) : none = <<>>
    <3>1. <<>> \in Seq(Fills)
      OBVIOUS
    <3> QED
      BY <3>1, Zenon
  <2>3. Ended(none, f) = Standalone(f) /\ tr[d] = Standalone(f) /\ Range(none) = {}
    BY <1>4, <2>1, <2>2 DEF Ended, Range
  <2>4. AreOf(Range(none) \cup {f}, w, c)
    BY <2>1, <2>3 DEF AreOf
  <2>5. PICK t : t = Ended(none, f)
    OBVIOUS
  <2>6. TradeOK(t) /\ t.wallet = w /\ t.coin = c /\ t.fills = Range(none) \cup {f} /\ t.realized = Realized(f)
    <3>1. IsTradeOf(t, Range(none) \cup {f}, f, w, c)
      BY <2>4, <2>5, EndedIs
    <3> QED
      BY <3>1 DEF IsTradeOf
  <2> QED
    BY <2>1, <2>3, <2>5, <2>6
<1>9. ASSUME NEW d \in D, NEW e \in D, d # e PROVE tr[d].fills \cap tr[e].fills = {}
  BY <1>2, <1>8, <1>9
<1>10. Trades(tr, D, s, w, c)
  BY <1>8, <1>9 DEF Trades
<1> QED
  BY <1>3, <1>7, <1>10

\* In both cases: the fills that end no trade realize nothing, unless one that
\* is no close does.
LEMMA CoinTradesAre ==
    ASSUME NEW rows, NEW w, NEW c, NEW s, FillsOf(s, rows, w, c)
    PROVE  \E tr, D : /\ Trades(tr, D, s, w, c) /\ CoinTrades(s) = ImageOf(tr, D)
                      /\ \A d \in (1 .. Len(s)) \ D : IsClose(s[d]) => Realized(s[d]) = 0
                      /\ Directed(s) => PairsCloses(tr, D, s)
<1>1. CASE Directed(s)
  <2>1. PICK tr, D : Trades(tr, D, s, w, c) /\ CoinTrades(s) = ImageOf(tr, D) /\ PairsCloses(tr, D, s)
    BY <1>1, DirectedTrades
  <2>2. \A d \in (1 .. Len(s)) \ D : ~ IsClose(s[d])
    BY <2>1 DEF PairsCloses
  <2> QED
    BY <2>1, <2>2
<1>2. CASE ~ Directed(s)
  <2>1. PICK tr, D : /\ Trades(tr, D, s, w, c) /\ CoinTrades(s) = ImageOf(tr, D)
                     /\ D = {d \in 1 .. Len(s) : FillOf[s[d]].has}
    BY <1>2, UndirectedTrades
  <2>2. \A d \in (1 .. Len(s)) \ D : Realized(s[d]) = 0
    BY <2>1 DEF Realized
  <2> QED
    BY <1>2, <2>1, <2>2
<1> QED
  BY <1>1, <1>2

-----------------------------------------------------------------------------
(* The history of a wallet *)

\* compute the trades of every coin: rows of the wallet, and no fill in two.
LEMMA HistoryIs ==
    ASSUME NEW rows, NEW w, RowsOK(rows, w)
    PROVE  /\ TradesOK(TradeHistory(rows))
           /\ \A t \in TradeHistory(rows) : t.wallet = w
           /\ \A t, u \in TradeHistory(rows) : t # u => t.fills \cap u.fills = {}
           /\ \A c \in Coins : {t \in TradeHistory(rows) : t.coin = c} = CoinTrades(CoinFills(rows, c))
<1>1. PICK H : H = TradeHistory(rows)
  OBVIOUS
<1>2. PICK of : of = [c \in Coins |-> CoinTrades(CoinFills(rows, c))]
  OBVIOUS
<1>3. \A t : t \in H <=> \E c \in Coins : t \in of[c]
  BY <1>1, <1>2 DEF TradeHistory
<1>4. ASSUME NEW c \in Coins
      PROVE  /\ IsFiniteSet(of[c])
             /\ \A t \in of[c] : TradeOK(t) /\ t.wallet = w /\ t.coin = c /\ t.fills # {}
             /\ \A t, u \in of[c] : t # u => t.fills \cap u.fills = {}
  <2>1. PICK s : s = CoinFills(rows, c)
    OBVIOUS
  <2>2. FillsOf(s, rows, w, c)
    BY <2>1, CoinFillsIs
  <2>3. PICK tr, D : Trades(tr, D, s, w, c) /\ CoinTrades(s) = ImageOf(tr, D)
    BY <2>2, CoinTradesAre
  <2>4. of[c] = ImageOf(tr, D)
    BY <1>2, <2>1, <2>3
  <2>5. IsFiniteSet(D)
    <3>1. PICK n \in Nat : n = Len(s)
      BY <2>2 DEF FillsOf
    <3>2. IsFiniteSet(1 .. n)
      BY FS_Interval
    <3> QED
      BY <2>3, <3>1, <3>2, FS_Subset DEF Trades
  <2>6. IsFiniteSet(of[c])
    BY <2>4, <2>5, ImageFinite
  <2>7. \A t \in of[c] : \E d \in D : t = tr[d]
    BY <2>4 DEF ImageOf
  <2>8. \A t \in of[c] : TradeOK(t) /\ t.wallet = w /\ t.coin = c /\ t.fills # {}
    BY <2>3, <2>7 DEF Trades
  <2>9. ASSUME NEW t \in of[c], NEW u \in of[c], t # u PROVE t.fills \cap u.fills = {}
    <3>1. PICK d \in D, e \in D : t = tr[d] /\ u = tr[e]
      BY <2>7
    <3> QED
      BY <2>3, <2>9, <3>1 DEF Trades
  <2> QED
    BY <2>6, <2>8, <2>9
<1>5. IsFiniteSet(H)
  <2>1. PICK F : F = ImageOf(of, Coins)
    OBVIOUS
  <2>2. IsFiniteSet(F)
    BY <2>1, AnalyticsAssumption, ImageFinite
  <2>3. \A T \in F : IsFiniteSet(T)
    BY <1>4, <2>1 DEF ImageOf
  <2>4. H = UNION F
    BY <1>3, <2>1 DEF ImageOf
  <2> QED
    BY <2>2, <2>3, <2>4, FS_UNION
<1>6. \A t \in H : TradeOK(t) /\ t.wallet = w
  BY <1>3, <1>4
<1>7. ASSUME NEW t \in H, NEW u \in H, t # u PROVE t.fills \cap u.fills = {}
  <2>1. PICK c \in Coins, d \in Coins : t \in of[c] /\ u \in of[d]
    BY <1>3
  <2>2. CASE c = d
    BY <1>4, <1>7, <2>1, <2>2
  <2>3. CASE c # d
    <3>1. t.coin = c /\ u.coin = d /\ TradeOK(t) /\ TradeOK(u)
      BY <1>4, <2>1
    <3> QED
      BY <2>3, <3>1 DEF TradeOK
  <2> QED
    BY <2>2, <2>3
<1>8. ASSUME NEW c \in Coins PROVE {t \in H : t.coin = c} = CoinTrades(CoinFills(rows, c))
  <2>1. \A t \in of[c] : t \in H /\ t.coin = c
    BY <1>3, <1>4
  <2>2. ASSUME NEW t \in H, t.coin = c PROVE t \in of[c]
    BY <1>3, <1>4, <2>2
  <2>3. of[c] = CoinTrades(CoinFills(rows, c))
    BY <1>2
  <2> QED
    BY <2>1, <2>2, <2>3
<1> QED
  BY <1>1, <1>5, <1>6, <1>7, <1>8 DEF TradesOK

\* What the fills of a coin realize.
ClosedIn(fs, c) == SumOf({f \in {g \in fs : FillOf[g].coin = c} : FillOf[f].has}, LAMBDA f : FillOf[f].pnl)

\* Where only closes realize PnL, the trades of a coin realize what its fills do.
LEMMA TradesRealize ==
    ASSUME NEW rows, NEW w, RowsOK(rows, w), NEW c \in Coins,
           \A f \in Range(rows) : FillOf[f].coin = c /\ Realized(f) # 0 => IsClose(f)
    PROVE  SumOf(CoinTrades(CoinFills(rows, c)), LAMBDA t : t.realized) = ClosedIn(Range(rows), c)
<1>1. PICK s : s = CoinFills(rows, c)
  OBVIOUS
<1>2. FillsOf(s, rows, w, c)
  BY <1>1, CoinFillsIs
<1>3. PICK tr, D : /\ Trades(tr, D, s, w, c) /\ CoinTrades(s) = ImageOf(tr, D)
                   /\ \A d \in (1 .. Len(s)) \ D : IsClose(s[d]) => Realized(s[d]) = 0
  BY <1>2, CoinTradesAre
<1>4. PICK n \in Nat : n = Len(s)
  BY <1>2 DEF FillsOf
<1>5. PICK P : P = 1 .. n
  OBVIOUS
<1>6. IsFiniteSet(P) /\ D \in SUBSET P /\ IsFiniteSet(D)
  <2>1. IsFiniteSet(P)
    BY <1>5, FS_Interval
  <2>2. D \in SUBSET P
    BY <1>3, <1>4, <1>5 DEF Trades
  <2> QED
    BY <2>1, <2>2, FS_Subset
<1>7. \A k \in P : s[k] \in Fills /\ s[k] \in Range(rows) /\ FillOf[s[k]].coin = c
  BY <1>2, <1>4, <1>5 DEF FillsOf
<1>8. PICK re : re = [k \in P |-> Realized(s[k])]
  OBVIOUS
<1>9. IsCount(re, P) /\ IsCount(re, D)
  BY <1>6, <1>7, <1>8, FillType DEF IsCount
<1>10. \A k \in P \ D : re[k] = 0
  BY <1>3, <1>4, <1>5, <1>7, <1>8
<1>11. SumFunctionOnSet(re, P) = SumFunctionOnSet(re, D)
  BY <1>6, <1>9, <1>10, SumSkip
<1>12. SumOf(CoinTrades(s), LAMBDA t : t.realized) = SumFunctionOnSet(re, D)
  <2>1. PICK T : T = CoinTrades(s)
    OBVIOUS
  <2>2. PICK g : g = [t \in T |-> t.realized]
    OBVIOUS
  <2>3. OneToOne(tr, D)
    BY <1>3 DEF Trades, OneToOne
  <2>4. Carried(g, tr, re, D)
    <3>1. ASSUME NEW d \in D PROVE g[tr[d]] = re[d]
      <4>1. tr[d] \in T /\ tr[d].realized = Realized(s[d])
        BY <1>3, <2>1 DEF Trades, ImageOf
      <4>2. re[d] = Realized(s[d])
        BY <1>6, <1>8
      <4> QED
        BY <2>2, <4>1, <4>2
    <3> QED
      BY <3>1 DEF Carried
  <2>5. T = ImageOf(tr, D)
    BY <1>3, <2>1
  <2>6. SumFunctionOnSet(g, T) = SumFunctionOnSet(re, D)
    BY <1>6, <1>9, <2>3, <2>4, <2>5, SumReindex
  <2>7. SumFunction(g) = SumFunctionOnSet(g, T)
    BY <2>2 DEF SumFunction
  <2> QED
    BY <2>1, <2>2, <2>6, <2>7 DEF SumOf
<1>13. PICK own : own = {g \in Range(rows) : FillOf[g].coin = c}
  OBVIOUS
<1>14. PICK rz : rz = [f \in own |-> Realized(f)]
  OBVIOUS
<1>15. IsFiniteSet(own) /\ IsCount(rz, own) /\ SumFunctionOnSet(rz, own) = SumFunctionOnSet(re, P)
  <2>1. own = ImageOf(s, P)
    <3>1. \A f \in own : \E k \in P : s[k] = f
      BY <1>2, <1>4, <1>5, <1>13 DEF FillsOf
    <3>2. \A k \in P : s[k] \in own
      BY <1>7, <1>13
    <3> QED
      BY <3>1, <3>2 DEF ImageOf
  <2>2. OneToOne(s, P)
    BY <1>2, <1>4, <1>5 DEF FillsOf, OneToOne
  <2>3. Carried(rz, s, re, P)
    BY <1>7, <1>8, <1>13, <1>14 DEF Carried
  <2> QED
    BY <1>6, <1>9, <2>1, <2>2, <2>3, SumReindex
<1>16. PICK has \in SUBSET own : has = {f \in own : FillOf[f].has}
  OBVIOUS
<1>17. SumFunctionOnSet(rz, own) = SumFunctionOnSet(rz, has)
  <2>1. \A f \in own \ has : rz[f] = 0
    BY <1>14, <1>16 DEF Realized
  <2> QED
    BY <1>15, <2>1, SumSkip
<1>18. SumOf(has, LAMBDA f : FillOf[f].pnl) = SumFunctionOnSet(rz, has)
  <2>1. PICK h : h = [f \in has |-> FillOf[f].pnl]
    OBVIOUS
  <2>2. DOMAIN h = has /\ \A f \in has : h[f] = rz[f]
    BY <1>14, <1>16, <2>1 DEF Realized
  <2>3. SumFunction(h) = SumFunctionOnSet(rz, has)
    BY <1>15, <2>2, SumGiven
  <2> QED
    BY <2>1, <2>3 DEF SumOf
<1> QED
  BY <1>1, <1>11, <1>12, <1>13, <1>15, <1>16, <1>17, <1>18 DEF ClosedIn

-----------------------------------------------------------------------------
(* compute_pnl_summary *)

\* A row for coin c, where a and b are what the fills and the payments add up.
IsSummary(s, w, c, F, P, a, b) ==
    /\ s.wallet = w /\ s.coin = c /\ s.closed \in Int /\ s.net \in Int
    /\ s.closed = ClosedIn(F, c)
    /\ s.net = SumFunctionOnSet(a, {f \in F : FillOf[f].coin = c}) + SumFunctionOnSet(b, {p \in P : PaymentOf[p].coin = c})

\* The total of a coin: what its fills realized less fees, and its funding.
LEMMA CoinSummaryIs ==
    ASSUME NEW w, NEW c, NEW F \in SUBSET Fills, NEW P \in SUBSET Payments,
           NEW a, a = [f \in F |-> Realized(f) - FillOf[f].fee],
           NEW b, b = [p \in P |-> PaymentOf[p].amt]
    PROVE  IsSummary(CoinSummary(w, c, F, P), w, c, F, P, a, b)
<1>1. PICK own \in SUBSET F : own = {f \in F : FillOf[f].coin = c}
  OBVIOUS
<1>2. PICK paid \in SUBSET P : paid = {p \in P : PaymentOf[p].coin = c}
  OBVIOUS
<1>3. PICK has \in SUBSET own : has = {f \in own : FillOf[f].has}
  OBVIOUS
<1>4. IsFiniteSet(F) /\ IsFiniteSet(P) /\ IsFiniteSet(own) /\ IsFiniteSet(paid)
  BY AnalyticsAssumption, FS_Subset
<1>5. PICK rz, fee : rz = [f \in F |-> Realized(f)] /\ fee = [f \in F |-> FillOf[f].fee]
  OBVIOUS
<1>6. ASSUME NEW f \in F PROVE rz[f] \in Int /\ fee[f] \in Int /\ a[f] \in Int /\ rz[f] = a[f] + fee[f]
  <2>1. Realized(f) \in Int /\ FillOf[f].fee \in Int
    BY FillType
  <2> QED
    BY <1>5, <2>1
<1>7. IsCount(rz, F) /\ IsCount(fee, F) /\ IsCount(a, F) /\ IsCount(a, own) /\ IsCount(fee, own) /\ IsCount(rz, own)
  BY <1>6 DEF IsCount
<1>8. IsCount(b, P)
  BY AnalyticsAssumption DEF IsCount
<1>9. PICK A \in Int : A = SumFunctionOnSet(a, own)
  BY <1>4, <1>7, SumType
<1>10. PICK B \in Int : B = SumFunctionOnSet(b, paid)
  BY <1>4, <1>8, SumWithin
<1>11. PICK fees \in Int : fees = SumFunctionOnSet(fee, own)
  BY <1>4, <1>7, SumType
<1>12. SumFunctionOnSet(rz, own) = A + fees
  <2>1. \A f \in own : rz[f] = a[f] + fee[f]
    BY <1>6
  <2>2. SumFunctionOnSet(rz, own) = SumFunctionOnSet(a, own) + SumFunctionOnSet(fee, own)
    BY <1>4, <1>7, <2>1, SumPlus
  <2> QED
    BY <1>9, <1>11, <2>2
<1>13. SumOf(own, LAMBDA f : FillOf[f].fee) = fees
  <2>1. PICK h : h = [f \in own |-> FillOf[f].fee]
    OBVIOUS
  <2>2. DOMAIN h = own /\ \A f \in own : h[f] = fee[f]
    BY <1>5, <2>1
  <2>3. SumFunction(h) = fees
    BY <1>4, <1>7, <1>11, <2>2, SumGiven
  <2> QED
    BY <2>1, <2>3 DEF SumOf
<1>14. SumOf(paid, LAMBDA p : PaymentOf[p].amt) = B
  <2>1. PICK h : h = [p \in paid |-> PaymentOf[p].amt]
    OBVIOUS
  <2>2. DOMAIN h = paid /\ \A p \in paid : h[p] = b[p]
    BY <2>1
  <2>3. SumFunction(h) = SumFunctionOnSet(b, paid)
    BY <1>4, <1>8, <2>2, SumGiven
  <2> QED
    BY <1>10, <2>1, <2>3 DEF SumOf
<1>15. SumOf(has, LAMBDA f : FillOf[f].pnl) = A + fees
  <2>1. \A f \in own \ has : rz[f] = 0
    BY <1>3, <1>5 DEF Realized
  <2>2. SumFunctionOnSet(rz, own) = SumFunctionOnSet(rz, has)
    BY <1>4, <1>7, <2>1, SumSkip
  <2>3. PICK h : h = [f \in has |-> FillOf[f].pnl]
    OBVIOUS
  <2>4. DOMAIN h = has /\ \A f \in has : h[f] = rz[f]
    BY <1>1, <1>3, <1>5, <2>3 DEF Realized
  <2>5. SumFunction(h) = SumFunctionOnSet(rz, has)
    BY <1>4, <1>7, <2>4, SumGiven
  <2> QED
    BY <1>12, <2>2, <2>3, <2>5 DEF SumOf
<1>16. PICK s : s = CoinSummary(w, c, F, P)
  OBVIOUS
<1>17. /\ s.wallet = w /\ s.coin = c
       /\ s.closed = SumOf(has, LAMBDA f : FillOf[f].pnl)
       /\ s.net = SumOf(has, LAMBDA f : FillOf[f].pnl) + SumOf(paid, LAMBDA p : PaymentOf[p].amt)
                    - SumOf(own, LAMBDA f : FillOf[f].fee)
  BY <1>1, <1>2, <1>3, <1>16 DEF CoinSummary
<1>18. s.closed \in Int /\ s.net \in Int /\ s.net = A + B
  BY <1>13, <1>14, <1>15, <1>17
<1> QED
  BY <1>1, <1>2, <1>3, <1>9, <1>10, <1>16, <1>17, <1>18 DEF IsSummary, ClosedIn

NetOf(ps) == SumOf(ps, LAMBDA s : s.net)
Settled(F, P) == SumOf(F, LAMBDA f : Realized(f) - FillOf[f].fee) + SumOf(P, LAMBDA p : PaymentOf[p].amt)

\* The summaries of a wallet: a row per coin, that add up to what was settled.
LEMMA SummaryIs ==
    ASSUME NEW w \in Traders, NEW F \in SUBSET Fills, NEW P \in SUBSET Payments
    PROVE  /\ SummariesOK(PnlSummary(w, F, P))
           /\ \A s \in PnlSummary(w, F, P) : s.wallet = w /\ s.closed = ClosedIn(F, s.coin)
           /\ NetOf(PnlSummary(w, F, P)) = Settled(F, P)
<1>1. PICK a, b : a = [f \in F |-> Realized(f) - FillOf[f].fee] /\ b = [p \in P |-> PaymentOf[p].amt]
  OBVIOUS
<1>2. PICK C : C = SummaryCoins(F, P)
  OBVIOUS
<1>3. PICK row : row = [c \in C |-> CoinSummary(w, c, F, P)]
  OBVIOUS
<1>4. C \in SUBSET Coins /\ IsFiniteSet(C)
  <2>1. C \in SUBSET Coins
    BY <1>2, AnalyticsAssumption DEF SummaryCoins
  <2> QED
    BY <2>1, AnalyticsAssumption, FS_Subset
<1>5. IsFiniteSet(F) /\ IsFiniteSet(P) /\ IsCount(a, F) /\ IsCount(b, P)
  <2>1. \A f \in F : Realized(f) \in Int /\ FillOf[f].fee \in Int
    BY FillType
  <2> QED
    BY <1>1, <2>1, AnalyticsAssumption, FS_Subset DEF IsCount
<1>6. PICK kf, kp : kf = [f \in F |-> FillOf[f].coin] /\ kp = [p \in P |-> PaymentOf[p].coin]
  OBVIOUS
<1>7. Grouped(kf, F, C) /\ Grouped(kp, P, C)
  BY <1>2, <1>6 DEF Grouped, SummaryCoins
<1>8. \A c : GroupOf(kf, F, c) = {f \in F : FillOf[f].coin = c} /\ GroupOf(kp, P, c) = {p \in P : PaymentOf[p].coin = c}
  BY <1>6 DEF GroupOf
<1>9. ASSUME NEW c \in C
      PROVE  /\ row[c].wallet = w /\ row[c].coin = c /\ row[c].closed \in Int /\ row[c].net \in Int
             /\ row[c].closed = ClosedIn(F, c)
             /\ row[c].net = SumFunctionOnSet(a, GroupOf(kf, F, c)) + SumFunctionOnSet(b, GroupOf(kp, P, c))
  <2>1. row[c] = CoinSummary(w, c, F, P)
    BY <1>3
  <2>2. IsSummary(row[c], w, c, F, P, a, b)
    BY <1>1, <2>1, CoinSummaryIs
  <2> QED
    BY <1>8, <2>2 DEF IsSummary
<1>10. PICK S : S = PnlSummary(w, F, P)
  OBVIOUS
<1>11. S = ImageOf(row, C)
  BY <1>2, <1>3, <1>10 DEF PnlSummary, ImageOf
<1>12. \A s \in S : \E c \in C : s = row[c]
  BY <1>11 DEF ImageOf
<1>13. IsFiniteSet(S)
  BY <1>4, <1>11, ImageFinite
<1>14. ASSUME NEW s \in S
       PROVE  s.wallet = w /\ s.coin \in Coins /\ s.closed \in Int /\ s.net \in Int /\ s.closed = ClosedIn(F, s.coin)
  <2>1. PICK c \in C : s = row[c]
    BY <1>12
  <2>2. s.coin = c /\ c \in Coins
    BY <1>4, <1>9, <2>1
  <2> QED
    BY <1>9, <2>1, <2>2
<1>15. SummariesOK(S)
  BY <1>13, <1>14 DEF SummariesOK
<1>16. SumOf(S, LAMBDA s : s.net) = SumFunctionOnSet(a, F) + SumFunctionOnSet(b, P)
  <2>1. PICK ga, gb, gn : /\ ga = [c \in C |-> SumFunctionOnSet(a, GroupOf(kf, F, c))]
                          /\ gb = [c \in C |-> SumFunctionOnSet(b, GroupOf(kp, P, c))]
                          /\ gn = [c \in C |-> row[c].net]
    OBVIOUS
  <2>2. IsCount(ga, C) /\ SumFunctionOnSet(ga, C) = SumFunctionOnSet(a, F)
    <3>1. SumsOf(ga, a, kf, F, C)
      BY <2>1 DEF SumsOf
    <3> QED
      BY <1>4, <1>5, <1>7, <3>1, SumByGroup
  <2>3. IsCount(gb, C) /\ SumFunctionOnSet(gb, C) = SumFunctionOnSet(b, P)
    <3>1. SumsOf(gb, b, kp, P, C)
      BY <2>1 DEF SumsOf
    <3> QED
      BY <1>4, <1>5, <1>7, <3>1, SumByGroup
  <2>4. IsCount(gn, C) /\ SumFunctionOnSet(gn, C) = SumFunctionOnSet(ga, C) + SumFunctionOnSet(gb, C)
    <3>1. \A c \in C : gn[c] = ga[c] + gb[c]
      BY <1>9, <2>1
    <3> QED
      BY <1>4, <2>2, <2>3, <3>1, SumPlus
  <2>5. PICK h : h = [s \in S |-> s.net]
    OBVIOUS
  <2>6. OneToOne(row, C)
    BY <1>9 DEF OneToOne
  <2>7. Carried(h, row, gn, C)
    BY <1>11, <2>1, <2>5 DEF Carried, ImageOf
  <2>8. SumFunctionOnSet(h, S) = SumFunctionOnSet(gn, C)
    BY <1>4, <1>11, <2>4, <2>6, <2>7, SumReindex
  <2>9. SumFunction(h) = SumFunctionOnSet(h, S)
    BY <2>5 DEF SumFunction
  <2> QED
    BY <2>2, <2>3, <2>4, <2>5, <2>8, <2>9 DEF SumOf
<1>17. /\ SumOf(F, LAMBDA f : Realized(f) - FillOf[f].fee) = SumFunctionOnSet(a, F)
       /\ SumOf(P, LAMBDA p : PaymentOf[p].amt) = SumFunctionOnSet(b, P)
  BY <1>1 DEF SumOf, SumFunction
<1>18. NetOf(S) = Settled(F, P)
  BY <1>16, <1>17 DEF NetOf, Settled
<1> QED
  BY <1>10, <1>14, <1>15, <1>18

-----------------------------------------------------------------------------
(* The tables of summaries and trades while wallets are rebuilt *)

\* A table u that a replacement makes of t: rebuild r deletes what its statement
\* saw, and inserts new rows of wallet w.
Replaced(t, u, seen, r, w, new) ==
    /\ \A x \in u : (x \in t /\ x \notin seen) \/ \E s \in new : x = <<r, s>>
    /\ \A s \in new : <<r, s>> \in u
    /\ \A x \in t : x[2].wallet # w => x \in u
    /\ \A s \in new : s.wallet = w

\* TableOK of a table, its last replacements, n rebuilds and the wallets R that raced.
TableIn(t, by, n, R) ==
    /\ IsFiniteSet(t) /\ \A x \in t : x = <<x[1], x[2]>> /\ x[1] \in 1 .. n
    /\ by \in [Traders -> 0 .. n]
    /\ \A x \in t : x[2].wallet \notin R => x[1] = by[x[2].wallet]

LEMMA TablesIn ==
    /\ TableOK(pnl, pnlBy) <=> TableIn(pnl, pnlBy, rebuilds, raced)
    /\ TableOK(trades, tradesBy) <=> TableIn(trades, tradesBy, rebuilds, raced)
    /\ TableOK(pnl, pnlBy)' <=> TableIn(pnl', pnlBy', rebuilds', raced')
    /\ TableOK(trades, tradesBy)' <=> TableIn(trades', tradesBy', rebuilds', raced')
<1> QED
  BY DEF TableOK, TableIn

\* The rows of a table are finitely many.
LEMMA RowsFinite == ASSUME NEW t, IsFiniteSet(t) PROVE IsFiniteSet(Rows(t))
<1>1. PICK b : b = [x \in t |-> x[2]]
  OBVIOUS
<1>2. Rows(t) = ImageOf(b, t)
  BY <1>1 DEF Rows, ImageOf
<1> QED
  BY <1>2, ImageFinite

LEMMA ReplacedTable ==
    ASSUME NEW n \in Nat, NEW r \in 1 .. n, NEW w \in Traders, NEW t, NEW by, NEW R, TableIn(t, by, n, R),
           NEW u, NEW seen, NEW new, IsFiniteSet(new), Replaced(t, u, seen, r, w, new),
           NEW Q, R \subseteq Q, w \notin Q => \A x \in t : x[2].wallet = w => x \in seen
    PROVE  TableIn(u, [by EXCEPT ![w] = r], n, Q)
<1>1. PICK ins : ins = {<<r, s>> : s \in new}
  OBVIOUS
<1>2. IsFiniteSet(ins)
  <2>1. PICK b : b = [s \in new |-> <<r, s>>]
    OBVIOUS
  <2>2. ins = ImageOf(b, new)
    BY <1>1, <2>1 DEF ImageOf
  <2> QED
    BY <2>2, ImageFinite
<1>3. u \subseteq t \cup ins
  BY <1>1 DEF Replaced
<1>4. IsFiniteSet(u)
  <2>1. IsFiniteSet(t \cup ins)
    BY <1>2, FS_Union DEF TableIn
  <2> QED
    BY <1>3, <2>1, FS_Subset
<1>5. PICK b2 : b2 = [by EXCEPT ![w] = r]
  OBVIOUS
<1>6. b2 \in [Traders -> 0 .. n] /\ b2[w] = r /\ \A v \in Traders : v # w => b2[v] = by[v]
  BY <1>5 DEF TableIn
<1>7. ASSUME NEW x \in u PROVE x = <<x[1], x[2]>> /\ x[1] \in 1 .. n
  <2>1. CASE x \in t
    BY <2>1 DEF TableIn
  <2>2. CASE \E s \in new : x = <<r, s>>
    BY <2>2
  <2> QED
    BY <2>1, <2>2 DEF Replaced
<1>8. ASSUME NEW x \in u, x[2].wallet \notin Q PROVE x[1] = b2[x[2].wallet]
  <2>1. CASE x \in t /\ x \notin seen
    <3>1. x[2].wallet # w /\ x[1] = by[x[2].wallet]
      BY <1>8, <2>1 DEF TableIn
    <3> QED
      BY <1>5, <3>1 DEF TableIn
  <2>2. CASE \E s \in new : x = <<r, s>>
    BY <1>6, <2>2 DEF Replaced
  <2> QED
    BY <2>1, <2>2 DEF Replaced
<1> QED
  BY <1>4, <1>5, <1>6, <1>7, <1>8 DEF TableIn

LEMMA IdleTask == NoTask.step = "idle"
<1> QED
  BY DEF NoTask

LEMMA AnInitInv == AnInit => AnInv
<1> SUFFICES ASSUME AnInit PROVE AnInv
  OBVIOUS
<1>1. fillRows \in Seq(Fills) /\ \A i, j \in DOMAIN fillRows : fillRows[i] = fillRows[j] => i = j
  BY DEF AnInit
<1>2. funded \subseteq Payments /\ rebuilds \in 0 .. MaxRebuilds /\ raced \subseteq Traders
  BY AnalyticsAssumption DEF AnInit
<1>3. tasks = [r \in Rebuilds |-> tasks[r]] /\ \A r \in Rebuilds : tasks[r] = NoTask
  BY DEF AnInit
<1>4. TableOK(pnl, pnlBy) /\ TableOK(trades, tradesBy)
  BY FS_EmptySet DEF AnInit, TableOK
<1>5. SummariesOK(Rows(pnl)) /\ TradesOK(Rows(trades))
  BY FS_EmptySet DEF AnInit, SummariesOK, TradesOK, Rows
<1>6. LastAgree /\ \A x, y \in trades : x # y /\ x[1] = y[1] => x[2].fills \cap y[2].fills = {}
  BY DEF AnInit, LastAgree
<1>7. answer.step \in {"none", "summaries", "answered"} /\ AnswerOK
  BY DEF AnInit, NoReply, AnswerOK
<1> QED
  BY <1>1, <1>2, <1>3, <1>4, <1>5, <1>6, <1>7 DEF AnInv

\* The rows of a running materialization are rows of its wallet.
LEMMA TaskRows ==
    ASSUME AnInv, NEW r \in Rebuilds, tasks[r] # NoTask
    PROVE  /\ TaskOK(r) /\ TaskRowsOK(r) /\ RowsOK(tasks[r].fills, tasks[r].wallet)
           /\ Range(tasks[r].fills) \subseteq Range(fillRows) /\ Range(tasks[r].fills) \in SUBSET Fills
           /\ \A f \in Range(tasks[r].fills) : FillOf[f].wallet = tasks[r].wallet
<1>1. /\ TaskOK(r) /\ TaskRowsOK(r)
      /\ fillRows \in Seq(Fills) /\ \A i, j \in DOMAIN fillRows : fillRows[i] = fillRows[j] => i = j
  BY DEF AnInv
<1>2. PICK n \in Nat : n = Len(fillRows) /\ DOMAIN fillRows = 1 .. n
  BY <1>1
<1>3. PICK rows, w : rows = tasks[r].fills /\ w = tasks[r].wallet
  OBVIOUS
<1>4. DOMAIN rows \subseteq 1 .. n /\ \A i \in DOMAIN rows : rows[i] = fillRows[i] /\ FillOf[fillRows[i]].wallet = w
  BY <1>1, <1>2, <1>3 DEF TaskOK
<1>5. IsFiniteSet(DOMAIN rows)
  <2>1. IsFiniteSet(1 .. n)
    BY FS_Interval
  <2> QED
    BY <1>4, <2>1, FS_Subset
<1>6. \A i \in DOMAIN rows : rows[i] \in Fills /\ FillOf[rows[i]].wallet = w /\ rows[i] \in Range(fillRows)
  BY <1>1, <1>2, <1>4 DEF Range
<1>7. RowsOK(rows, w)
  <2>1. DOMAIN rows \in SUBSET Nat
    BY <1>4
  <2>2. \A i, j \in DOMAIN rows : rows[i] = rows[j] => i = j
    BY <1>1, <1>2, <1>4
  <2> QED
    BY <1>5, <1>6, <2>1, <2>2 DEF RowsOK
<1>8. Range(rows) \subseteq Range(fillRows) /\ Range(rows) \subseteq Fills /\ \A f \in Range(rows) : FillOf[f].wallet = w
  BY <1>6 DEF Range
<1> QED
  BY <1>1, <1>3, <1>7, <1>8

\* TaskOK and TaskRowsOK of a task r that holds j, in rows, n rebuilds and tables.
TaskIn(j, r, n, rows) ==
    /\ r <= n
    /\ j = [step |-> j.step, wallet |-> j.wallet, payments |-> j.payments, seen |-> j.seen, fills |-> j.fills]
    /\ j.step \in {"payments", "pnl", "insert pnl", "trades", "insert trades"}
    /\ j.wallet \in Traders /\ j.payments \subseteq Payments
    /\ DOMAIN j.fills \subseteq DOMAIN rows
    /\ \A i \in DOMAIN j.fills : j.fills[i] = rows[i] /\ FillOf[rows[i]].wallet = j.wallet
    /\ \A p \in j.payments : PaymentOf[p].wallet = j.wallet

RowsIn(j, r, ps, ts, pb, tb, R) ==
    LET own == {x \in OwnRows(ps, j.wallet) : x[1] = r}
        all == {<<r, s>> : s \in PnlSummary(j.wallet, Range(j.fills), j.payments)}
    IN /\ \A x \in j.seen : x[2].wallet = j.wallet
       /\ tb[j.wallet] # r /\ \A x \in ts : x[1] # r
       /\ j.step \in {"payments", "pnl", "insert pnl"} => pb[j.wallet] # r /\ \A x \in ps : x[1] # r
       /\ j.step \in {"trades", "insert trades"} => own \subseteq all /\ (pb[j.wallet] = r => own = all)
       /\ j.step = "insert pnl" /\ j.wallet \notin R => OwnRows(ps, j.wallet) \subseteq j.seen
       /\ j.step = "insert trades" /\ j.wallet \notin R => OwnRows(ts, j.wallet) \subseteq j.seen

LEMMA TasksIn ==
    ASSUME NEW r \in Rebuilds
    PROVE  /\ TaskOK(r) <=> TaskIn(tasks[r], r, rebuilds, fillRows)
           /\ TaskOK(r)' <=> TaskIn(tasks'[r], r, rebuilds', fillRows')
           /\ TaskRowsOK(r) <=> RowsIn(tasks[r], r, pnl, trades, pnlBy, tradesBy, raced)
           /\ TaskRowsOK(r)' <=> RowsIn(tasks'[r], r, pnl', trades', pnlBy', tradesBy', raced')
<1>1. TaskOK(r) <=> TaskIn(tasks[r], r, rebuilds, fillRows)
  BY Zenon DEF TaskOK, TaskIn
<1>2. TaskOK(r)' <=> TaskIn(tasks'[r], r, rebuilds', fillRows')
  BY Zenon DEF TaskOK, TaskIn
<1>3. TaskRowsOK(r) <=> RowsIn(tasks[r], r, pnl, trades, pnlBy, tradesBy, raced)
  BY Zenon DEF TaskRowsOK, RowsIn
<1>4. TaskRowsOK(r)' <=> RowsIn(tasks'[r], r, pnl', trades', pnlBy', tradesBy', raced')
  BY Zenon DEF TaskRowsOK, RowsIn
<1> QED
  BY <1>1, <1>2, <1>3, <1>4

\* A task that no step has touched keeps what it holds.
LEMMA TaskStays ==
    ASSUME UNCHANGED fillRows, rebuilds \in Nat, rebuilds' \in Nat, rebuilds <= rebuilds',
           NEW q \in Rebuilds, tasks'[q] = tasks[q], TaskOK(q)
    PROVE  TaskOK(q)'
<1>1. TaskIn(tasks[q], q, rebuilds, fillRows)
  BY TasksIn
<1>2. q <= rebuilds'
  <2>1. q \in Nat
    BY AnalyticsAssumption DEF Rebuilds
  <2>2. q <= rebuilds
    BY <1>1, Zenon DEF TaskIn
  <2> QED
    BY <2>1, <2>2
<1>3. TaskIn(tasks[q], q, rebuilds', fillRows)
  BY <1>1, <1>2, Zenon DEF TaskIn
<1> QED
  BY <1>3, TasksIn

\* One of the tasks moves on, and the others stay as they are.
LEMMA TaskMoves ==
    ASSUME AnInv, NEW r \in Rebuilds, NEW t, tasks' = [tasks EXCEPT ![r] = t]
    PROVE  (tasks = [q \in Rebuilds |-> tasks[q]])' /\ tasks'[r] = t /\ \A q \in Rebuilds \ {r} : tasks'[q] = tasks[q]
<1>1. tasks = [q \in Rebuilds |-> tasks[q]]
  BY DEF AnInv
<1> QED
  BY <1>1

\* A step that moves one task and writes nothing.
LEMMA TaskMovesKeeps ==
    ASSUME AnInv, NEW r \in Rebuilds, NEW t, tasks' = [tasks EXCEPT ![r] = t],
           UNCHANGED <<fillRows, funded, rebuilds, anTables, answer>>,
           (tasks[r] = NoTask \/ (TaskOK(r) /\ TaskRowsOK(r)))'
    PROVE  AnInv'
<1>1. UNCHANGED <<fillRows, funded, rebuilds, pnl, trades, pnlBy, tradesBy, raced, answer>>
  BY DEF anTables
<1>2. /\ (tasks = [q \in Rebuilds |-> tasks[q]])'
      /\ \A q \in Rebuilds \ {r} : tasks'[q] = tasks[q]
  BY TaskMoves
<1>3. ASSUME NEW q \in Rebuilds PROVE (tasks[q] = NoTask \/ (TaskOK(q) /\ TaskRowsOK(q)))'
  <2>1. CASE q = r
    BY <2>1
  <2>2. CASE q # r /\ tasks[q] = NoTask
    BY <1>2, <2>2 DEF NoTask
  <2>3. CASE q # r /\ tasks[q] # NoTask
    <3>1. TaskOK(q) /\ TaskRowsOK(q) /\ tasks'[q] = tasks[q]
      BY <1>2, <2>3 DEF AnInv
    <3>2. TaskOK(q)' /\ TaskRowsOK(q)'
      BY <1>1, <3>1, TasksIn
    <3> QED
      BY <3>2
  <2> QED
    BY <2>1, <2>2, <2>3
<1>4. (TableOK(pnl, pnlBy) /\ SummariesOK(Rows(pnl)) /\ TableOK(trades, tradesBy) /\ TradesOK(Rows(trades)))'
  BY <1>1 DEF AnInv, TableOK
<1>5. (\A x, y \in trades : x # y /\ x[1] = y[1] => x[2].fills \cap y[2].fills = {})'
  BY <1>1 DEF AnInv
<1>6. LastAgree'
  BY <1>1 DEF AnInv, LastAgree
<1>7. (answer.step \in {"none", "summaries", "answered"} /\ AnswerOK)'
  BY <1>1 DEF AnInv, AnswerOK
<1>8. (fillRows \in Seq(Fills) /\ \A i, j \in DOMAIN fillRows : fillRows[i] = fillRows[j] => i = j)'
  BY <1>1 DEF AnInv
<1>9. (funded \subseteq Payments /\ rebuilds \in 0 .. MaxRebuilds /\ raced \subseteq Traders)'
  BY <1>1 DEF AnInv
<1> QED
  BY <1>2, <1>3, <1>4, <1>5, <1>6, <1>7, <1>8, <1>9 DEF AnInv

LEMMA IndexFillKeeps == ASSUME AnInv, NEW f \in Fills, IndexFill(f) PROVE AnInv'
<1>1. fillRows \in Seq(Fills) /\ \A i, j \in DOMAIN fillRows : fillRows[i] = fillRows[j] => i = j
  BY DEF AnInv
<1>2. fillRows' = Append(fillRows, f) /\ f \notin Range(fillRows)
  BY DEF IndexFill
<1>3. UNCHANGED <<funded, tasks, rebuilds, pnl, trades, pnlBy, tradesBy, raced, answer>>
  BY DEF IndexFill, anTables
<1>4. PICK n \in Nat : n = Len(fillRows) /\ DOMAIN fillRows = 1 .. n
  BY <1>1
<1>5. /\ fillRows' \in Seq(Fills) /\ DOMAIN fillRows' = 1 .. (n + 1)
      /\ fillRows'[n + 1] = f /\ \A i \in 1 .. n : fillRows'[i] = fillRows[i]
  BY <1>1, <1>2, <1>4
<1>6. \A i \in 1 .. n : fillRows[i] # f
  BY <1>2, <1>4 DEF Range
<1>7. \A i, j \in DOMAIN fillRows' : fillRows'[i] = fillRows'[j] => i = j
  <2> SUFFICES ASSUME NEW i \in 1 .. (n + 1), NEW j \in 1 .. (n + 1), fillRows'[i] = fillRows'[j] PROVE i = j
    BY <1>5
  <2>1. CASE i \in 1 .. n /\ j \in 1 .. n
    BY <1>1, <1>4, <1>5, <2>1
  <2>2. CASE i = n + 1 \/ j = n + 1
    BY <1>5, <1>6, <2>2
  <2> QED
    BY <2>1, <2>2
<1>8. (tasks = [r \in Rebuilds |-> tasks[r]])' /\ \A r \in Rebuilds : (tasks[r] = NoTask \/ (TaskOK(r) /\ TaskRowsOK(r)))'
  <2>1. (tasks = [r \in Rebuilds |-> tasks[r]])'
    BY <1>3 DEF AnInv
  <2>2. ASSUME NEW r \in Rebuilds PROVE (tasks[r] = NoTask \/ (TaskOK(r) /\ TaskRowsOK(r)))'
    <3>1. CASE tasks[r] = NoTask
      BY <1>3, <3>1 DEF NoTask
    <3>2. CASE TaskOK(r) /\ TaskRowsOK(r)
      <4>1. /\ DOMAIN tasks[r].fills \subseteq 1 .. n
            /\ \A i \in DOMAIN tasks[r].fills : tasks[r].fills[i] = fillRows[i] /\ FillOf[fillRows[i]].wallet = tasks[r].wallet
        BY <1>4, <3>2 DEF TaskOK
      <4>2. /\ DOMAIN tasks[r].fills \subseteq DOMAIN fillRows'
            /\ \A i \in DOMAIN tasks[r].fills : tasks[r].fills[i] = fillRows'[i] /\ FillOf[fillRows'[i]].wallet = tasks[r].wallet
        BY <1>5, <4>1
      <4>3. TaskOK(r)'
        BY <1>3, <3>2, <4>2 DEF TaskOK
      <4>4. TaskRowsOK(r)'
        BY <1>3, <3>2 DEF TaskRowsOK
      <4> QED
        BY <4>3, <4>4
    <3> QED
      BY <3>1, <3>2 DEF AnInv
  <2> QED
    BY <2>1, <2>2
<1>9. LastAgree'
  <2>1. Range(fillRows) \subseteq Range(fillRows')
    BY <1>4, <1>5 DEF Range
  <2>2. \A s : OnlyClosesRealize(Range(fillRows'), s) => OnlyClosesRealize(Range(fillRows), s)
    BY <2>1 DEF OnlyClosesRealize
  <2> QED
    BY <1>3, <2>2 DEF AnInv, LastAgree
<1>10. (\A x, y \in trades : x # y /\ x[1] = y[1] => x[2].fills \cap y[2].fills = {})'
  BY <1>3 DEF AnInv
<1>11. (TableOK(pnl, pnlBy) /\ SummariesOK(Rows(pnl)) /\ TableOK(trades, tradesBy) /\ TradesOK(Rows(trades)))'
  BY <1>3 DEF AnInv, TableOK
<1>12. (funded \subseteq Payments /\ rebuilds \in 0 .. MaxRebuilds /\ raced \subseteq Traders)'
  BY <1>3 DEF AnInv
<1>13. (answer.step \in {"none", "summaries", "answered"} /\ AnswerOK)'
  BY <1>3 DEF AnInv, AnswerOK
<1> QED
  BY <1>5, <1>7, <1>8, <1>9, <1>10, <1>11, <1>12, <1>13 DEF AnInv

\* What the tasks and the tables hold does not depend on the rest.
LEMMA SameTables ==
    ASSUME AnInv, UNCHANGED <<fillRows, tasks, rebuilds, pnl, trades, pnlBy, tradesBy, raced>>, (funded \subseteq Payments)',
           (answer.step \in {"none", "summaries", "answered"} /\ AnswerOK)'
    PROVE  AnInv'
<1>1. (tasks = [r \in Rebuilds |-> tasks[r]])'
  BY DEF AnInv
<1>2. ASSUME NEW r \in Rebuilds PROVE (tasks[r] = NoTask \/ (TaskOK(r) /\ TaskRowsOK(r)))'
  <2>1. tasks[r] = NoTask \/ (TaskOK(r) /\ TaskRowsOK(r))
    BY DEF AnInv
  <2> QED
    BY <2>1, TasksIn DEF NoTask
<1>3. (TableOK(pnl, pnlBy) /\ SummariesOK(Rows(pnl)) /\ TableOK(trades, tradesBy) /\ TradesOK(Rows(trades)))'
  BY DEF AnInv, TableOK
<1>4. (\A x, y \in trades : x # y /\ x[1] = y[1] => x[2].fills \cap y[2].fills = {})'
  BY DEF AnInv
<1>5. LastAgree'
  BY DEF AnInv, LastAgree
<1>6. (fillRows \in Seq(Fills) /\ \A i, j \in DOMAIN fillRows : fillRows[i] = fillRows[j] => i = j)'
  BY DEF AnInv
<1>7. (rebuilds \in 0 .. MaxRebuilds /\ raced \subseteq Traders)'
  BY DEF AnInv
<1> QED
  BY <1>1, <1>2, <1>3, <1>4, <1>5, <1>6, <1>7 DEF AnInv

LEMMA IndexFundingKeeps == ASSUME AnInv, NEW p \in Payments, IndexFunding(p) PROVE AnInv'
<1>1. UNCHANGED <<fillRows, tasks, rebuilds, pnl, trades, pnlBy, tradesBy, raced, answer>>
  BY DEF IndexFunding, anTables
<1>2. (funded \subseteq Payments)'
  BY DEF AnInv, IndexFunding
<1>3. (answer.step \in {"none", "summaries", "answered"} /\ AnswerOK)'
  BY <1>1 DEF AnInv, AnswerOK
<1> QED
  BY <1>1, <1>2, <1>3, SameTables

\* A request keeps what it reads, and a step that is none of these nothing.
LEMMA AskKeeps == ASSUME AnInv, AskSummaries \/ AskTrades \/ UNCHANGED anVars PROVE AnInv'
<1>1. UNCHANGED <<fillRows, funded, tasks, rebuilds, pnl, trades, pnlBy, tradesBy, raced>>
  BY DEF AskSummaries, AskTrades, anVars, anTables
<1>2. (funded \subseteq Payments)'
  BY <1>1 DEF AnInv
<1>3. (answer.step \in {"none", "summaries", "answered"} /\ AnswerOK)'
  <2>1. CASE AskSummaries
    BY <2>1 DEF AskSummaries, AnInv, AnswerOK
  <2>2. CASE AskTrades
    BY <2>2 DEF AskTrades, AnInv, AnswerOK
  <2>3. CASE UNCHANGED anVars
    BY <2>3 DEF anVars, AnInv, AnswerOK
  <2> QED
    BY <2>1, <2>2, <2>3
<1> QED
  BY <1>1, <1>2, <1>3, SameTables

\* The inputs of a new task are the rows of one wallet.
LEMMA LoadFillsKeeps == ASSUME AnInv, NEW w \in Traders, LoadFills(w) PROVE AnInv'
<1>1. UNCHANGED <<fillRows, funded, pnl, trades, pnlBy, tradesBy, raced, answer>>
  BY DEF LoadFills, anTables
<1>2. /\ rebuilds \in Nat /\ rebuilds + 1 \in Rebuilds /\ rebuilds' = rebuilds + 1 /\ rebuilds' \in 0 .. MaxRebuilds
  BY AnalyticsAssumption DEF LoadFills, AnInv, Rebuilds
<1>3. PICK r \in Rebuilds : r = rebuilds + 1
  BY <1>2
<1>4. PICK t, fs : /\ fs = [i \in {j \in DOMAIN fillRows : FillOf[fillRows[j]].wallet = w} |-> fillRows[i]]
                   /\ t = [step |-> "payments", wallet |-> w, payments |-> {}, seen |-> {}, fills |-> fs]
                   /\ tasks' = [tasks EXCEPT ![r] = t]
  BY <1>3 DEF LoadFills
<1>5. (tasks = [q \in Rebuilds |-> tasks[q]])' /\ tasks'[r] = t /\ \A q \in Rebuilds \ {r} : tasks'[q] = tasks[q]
  BY <1>4, TaskMoves
<1>6. TaskOK(r)'
  <2>1. /\ DOMAIN fs \subseteq DOMAIN fillRows
        /\ \A i \in DOMAIN fs : fs[i] = fillRows[i] /\ FillOf[fillRows[i]].wallet = w
    BY <1>4
  <2>2. r <= rebuilds'
    BY <1>2, <1>3
  <2> QED
    BY <1>1, <1>4, <1>5, <2>1, <2>2 DEF TaskOK
<1>7. TaskRowsOK(r)'
  <2>1. \A n \in 0 .. rebuilds : n # r
    BY <1>2, <1>3
  <2>2. /\ (\A x \in trades : x[1] # r) /\ (\A x \in pnl : x[1] # r)
        /\ \A v \in Traders : pnlBy[v] # r /\ tradesBy[v] # r
    BY <1>2, <2>1 DEF AnInv, TableOK
  <2> QED
    BY <1>1, <1>4, <1>5, <2>2 DEF TaskRowsOK
<1>8. ASSUME NEW q \in Rebuilds PROVE (tasks[q] = NoTask \/ (TaskOK(q) /\ TaskRowsOK(q)))'
  <2>1. CASE q = r
    BY <1>6, <1>7, <2>1
  <2>2. CASE q # r /\ tasks[q] = NoTask
    BY <1>5, <2>2 DEF NoTask
  <2>3. CASE q # r /\ tasks[q] # NoTask
    <3>1. TaskOK(q) /\ TaskRowsOK(q) /\ tasks'[q] = tasks[q]
      BY <1>5, <2>3 DEF AnInv
    <3>2. TaskOK(q)'
      <4>1. rebuilds \in Nat /\ rebuilds' \in Nat /\ rebuilds <= rebuilds'
        BY <1>2
      <4> QED
        BY <1>1, <3>1, <4>1, TaskStays
    <3>3. TaskRowsOK(q)'
      BY <1>1, <3>1 DEF TaskRowsOK
    <3> QED
      BY <3>2, <3>3
  <2> QED
    BY <2>1, <2>2, <2>3
<1>9. (TableOK(pnl, pnlBy) /\ TableOK(trades, tradesBy))'
  BY <1>1, <1>2 DEF AnInv, TableOK
<1>10. (SummariesOK(Rows(pnl)) /\ TradesOK(Rows(trades)))'
  BY <1>1 DEF AnInv
<1>11. (\A x, y \in trades : x # y /\ x[1] = y[1] => x[2].fills \cap y[2].fills = {})'
  BY <1>1 DEF AnInv
<1>12. LastAgree'
  BY <1>1 DEF AnInv, LastAgree
<1>13. (answer.step \in {"none", "summaries", "answered"} /\ AnswerOK)'
  BY <1>1 DEF AnInv, AnswerOK
<1>14. (fillRows \in Seq(Fills) /\ \A i, j \in DOMAIN fillRows : fillRows[i] = fillRows[j] => i = j)'
  BY <1>1 DEF AnInv
<1>15. (funded \subseteq Payments /\ rebuilds \in 0 .. MaxRebuilds /\ raced \subseteq Traders)'
  BY <1>1, <1>2 DEF AnInv
<1> QED
  BY <1>5, <1>8, <1>9, <1>10, <1>11, <1>12, <1>13, <1>14, <1>15 DEF AnInv

LEMMA LoadPaymentsKeeps == ASSUME AnInv, NEW r \in Rebuilds, LoadPayments(r) PROVE AnInv'
<1>1. UNCHANGED <<fillRows, funded, rebuilds, anTables, answer>> /\ tasks[r].step = "payments"
  BY DEF LoadPayments
<1>2. TaskOK(r) /\ TaskRowsOK(r)
  BY <1>1, TaskRows DEF NoTask
<1>3. PICK ps, t : /\ ps = {p \in funded : PaymentOf[p].wallet = tasks[r].wallet}
                   /\ t = (IF DOMAIN tasks[r].fills = {} /\ ps = {} THEN NoTask
                           ELSE [tasks[r] EXCEPT !.step = "pnl", !.payments = ps])
                   /\ tasks' = [tasks EXCEPT ![r] = t]
  <2>1. tasks = [q \in Rebuilds |-> tasks[q]]
    BY DEF AnInv
  <2> QED
    BY <2>1 DEF LoadPayments
<1>4. tasks'[r] = t
  BY <1>3, TaskMoves
<1>5. CASE t = NoTask
  BY <1>1, <1>3, <1>4, <1>5, TaskMovesKeeps DEF NoTask
<1>6. CASE t = [tasks[r] EXCEPT !.step = "pnl", !.payments = ps]
  <2>1. t = [step |-> "pnl", wallet |-> tasks[r].wallet, payments |-> ps, seen |-> tasks[r].seen, fills |-> tasks[r].fills]
    BY <1>2, <1>6 DEF TaskOK
  <2>2. ps \subseteq Payments /\ \A p \in ps : PaymentOf[p].wallet = tasks[r].wallet
    BY <1>3 DEF AnInv
  <2>3. TaskOK(r)'
    BY <1>1, <1>2, <1>4, <2>1, <2>2 DEF TaskOK
  <2>4. TaskRowsOK(r)'
    BY <1>1, <1>2, <1>4, <2>1 DEF TaskRowsOK, anTables
  <2> QED
    BY <1>1, <1>3, <2>3, <2>4, TaskMovesKeeps
<1> QED
  BY <1>3, <1>5, <1>6

\* A statement that deletes, and sees all rows of the wallet that are committed.
LEMMA DeletesKeep == ASSUME AnInv, NEW r \in Rebuilds, DeleteSummaries(r) \/ DeleteHistory(r) PROVE AnInv'
<1>1. UNCHANGED <<fillRows, funded, rebuilds, anTables, answer>> /\ tasks[r].step \in {"pnl", "trades"}
  BY DEF DeleteSummaries, DeleteHistory
<1>2. TaskOK(r) /\ TaskRowsOK(r) /\ tasks = [q \in Rebuilds |-> tasks[q]]
  BY <1>1, TaskRows DEF NoTask, AnInv
<1>3. PICK w : w = tasks[r].wallet
  OBVIOUS
<1>4. PICK t, st, sn : /\ \/ tasks[r].step = "pnl" /\ st = "insert pnl" /\ sn = OwnRows(pnl, w)
                          \/ tasks[r].step = "trades" /\ st = "insert trades" /\ sn = OwnRows(trades, w)
                       /\ t = [tasks[r] EXCEPT !.step = st, !.seen = sn]
                       /\ tasks' = [tasks EXCEPT ![r] = t]
  <2>1. CASE DeleteSummaries(r)
    BY <1>2, <1>3, <2>1 DEF DeleteSummaries
  <2>2. CASE DeleteHistory(r)
    BY <1>2, <1>3, <2>2 DEF DeleteHistory
  <2> QED
    BY <2>1, <2>2
<1>5. tasks'[r] = t
  BY <1>4, TaskMoves
<1>6. t = [step |-> st, wallet |-> w, payments |-> tasks[r].payments, seen |-> sn, fills |-> tasks[r].fills]
  BY <1>2, <1>3, <1>4 DEF TaskOK
<1>7. TaskOK(r)'
  BY <1>1, <1>2, <1>3, <1>4, <1>5, <1>6 DEF TaskOK
<1>8. \A x \in sn : x[2].wallet = w
  BY <1>4 DEF OwnRows
<1>9. TaskRowsOK(r)'
  <2>1. UNCHANGED <<pnl, trades, pnlBy, tradesBy, raced>>
    BY <1>1 DEF anTables
  <2>2. PICK j : j = tasks[r]
    OBVIOUS
  <2>3. /\ t.step = st /\ t.wallet = w /\ t.seen = sn /\ t.payments = j.payments /\ t.fills = j.fills
        /\ w = j.wallet
    BY <1>3, <1>6, <2>2
  <2>4. RowsIn(j, r, pnl, trades, pnlBy, tradesBy, raced)
    BY <1>2, <2>2, TasksIn
  <2>5. CASE j.step = "pnl" /\ st = "insert pnl" /\ sn = OwnRows(pnl, w)
    <3>1. RowsIn(t, r, pnl, trades, pnlBy, tradesBy, raced)
      BY <1>8, <2>3, <2>4, <2>5 DEF RowsIn
    <3> QED
      BY <1>5, <2>1, <3>1, TasksIn
  <2>6. CASE j.step = "trades" /\ st = "insert trades" /\ sn = OwnRows(trades, w)
    <3>1. RowsIn(t, r, pnl, trades, pnlBy, tradesBy, raced)
      BY <1>8, <2>3, <2>4, <2>6 DEF RowsIn
    <3> QED
      BY <1>5, <2>1, <3>1, TasksIn
  <2> QED
    BY <1>4, <2>2, <2>5, <2>6
<1> QED
  BY <1>1, <1>4, <1>7, <1>9, TaskMovesKeeps

\* The task goes on to the trades without having inserted a summary, or stops.
LEMMA FailuresKeep == ASSUME AnInv, NEW r \in Rebuilds, SummariesFail(r) \/ TaskEnds(r) PROVE AnInv'
<1>1. UNCHANGED <<fillRows, funded, rebuilds, anTables, answer>>
  BY DEF SummariesFail, TaskEnds
<1>2. CASE tasks' = [tasks EXCEPT ![r] = NoTask]
  BY <1>1, <1>2, TaskMoves, TaskMovesKeeps
<1>3. CASE SummariesFail(r) /\ DOMAIN tasks[r].fills # {}
  <2>1. TaskOK(r) /\ TaskRowsOK(r) /\ tasks = [q \in Rebuilds |-> tasks[q]] /\ tasks[r].step \in {"pnl", "insert pnl"}
    <3>1. tasks[r].step \in {"pnl", "insert pnl"}
      BY <1>3 DEF SummariesFail
    <3>2. tasks[r] # NoTask
      BY <3>1, IdleTask
    <3> QED
      BY <3>1, <3>2, TaskRows DEF AnInv
  <2>2. PICK t : t = [tasks[r] EXCEPT !.step = "trades", !.seen = {}] /\ tasks' = [tasks EXCEPT ![r] = t]
    BY <1>3, <2>1 DEF SummariesFail, AfterPnl
  <2>3. tasks'[r] = t
    BY <2>2, TaskMoves
  <2>4. t = [step |-> "trades", wallet |-> tasks[r].wallet, payments |-> tasks[r].payments, seen |-> {}, fills |-> tasks[r].fills]
    BY <2>1, <2>2 DEF TaskOK
  <2>5. TaskOK(r)'
    <3>1. PICK j : j = tasks[r] /\ TaskIn(j, r, rebuilds, fillRows)
      BY <2>1, TasksIn
    <3>2. /\ t.step = "trades" /\ t.wallet = j.wallet /\ t.seen = {} /\ t.payments = j.payments /\ t.fills = j.fills
          /\ t = [step |-> t.step, wallet |-> t.wallet, payments |-> t.payments, seen |-> t.seen, fills |-> t.fills]
      BY <2>4, <3>1
    <3>3. TaskIn(t, r, rebuilds, fillRows)
      BY <3>1, <3>2 DEF TaskIn
    <3> QED
      BY <1>1, <2>3, <3>3, TasksIn
  <2>6. TaskRowsOK(r)'
    <3>1. UNCHANGED <<pnl, trades, pnlBy, tradesBy, raced>>
      BY <1>1 DEF anTables
    <3>2. {x \in OwnRows(pnl, tasks[r].wallet) : x[1] = r} = {} /\ pnlBy[tasks[r].wallet] # r
      BY <2>1 DEF TaskRowsOK, OwnRows
    <3>3. PICK j : j = tasks[r] /\ RowsIn(j, r, pnl, trades, pnlBy, tradesBy, raced)
      BY <2>1, TasksIn
    <3>4. t.step = "trades" /\ t.wallet = j.wallet /\ t.seen = {} /\ t.payments = j.payments /\ t.fills = j.fills
      BY <2>4, <3>3
    <3>5. {x \in OwnRows(pnl, j.wallet) : x[1] = r} = {} /\ pnlBy[j.wallet] # r
      BY <3>2, <3>3
    <3>6. RowsIn(t, r, pnl, trades, pnlBy, tradesBy, raced)
      BY <3>3, <3>4, <3>5 DEF RowsIn
    <3> QED
      BY <2>3, <3>1, <3>6, TasksIn
  <2> QED
    BY <1>1, <2>2, <2>5, <2>6, TaskMovesKeeps
<1>4. CASE SummariesFail(r) /\ DOMAIN tasks[r].fills = {}
  <2>1. tasks' = [tasks EXCEPT ![r] = NoTask]
    BY <1>4 DEF SummariesFail, AfterPnl, AnInv
  <2> QED
    BY <1>2, <2>1
<1>5. CASE TaskEnds(r)
  BY <1>2, <1>5 DEF TaskEnds
<1> QED
  BY <1>3, <1>4, <1>5

\* The summaries of the wallet are replaced.
LEMMA ReplaceSummariesKeeps == ASSUME AnInv, NEW r \in Rebuilds, ReplaceSummaries(r) PROVE AnInv'
<1>1. UNCHANGED <<fillRows, funded, rebuilds, trades, tradesBy, answer>> /\ tasks[r].step = "insert pnl"
  BY DEF ReplaceSummaries
<1>2. TaskOK(r) /\ TaskRowsOK(r) /\ Range(tasks[r].fills) \in SUBSET Fills /\ tasks = [q \in Rebuilds |-> tasks[q]]
  <2>1. tasks[r] # NoTask
    BY <1>1, IdleTask
  <2> QED
    BY <2>1, TaskRows DEF AnInv
<1>3. PICK w, S, seen : /\ w = tasks[r].wallet /\ S = PnlSummary(w, Range(tasks[r].fills), tasks[r].payments)
                        /\ seen = tasks[r].seen /\ w \in Traders
  BY <1>2 DEF TaskOK
<1>4. SummariesOK(S) /\ \A s \in S : s.wallet = w
  <2>1. PICK F \in SUBSET Fills, P \in SUBSET Payments : F = Range(tasks[r].fills) /\ P = tasks[r].payments
    BY <1>2 DEF TaskOK
  <2>2. S = PnlSummary(w, F, P)
    BY <1>3, <2>1
  <2>3. SummariesOK(PnlSummary(w, F, P)) /\ \A s \in PnlSummary(w, F, P) : s.wallet = w
    BY <1>3, SummaryIs
  <2> QED
    BY <2>2, <2>3
<1>5. Replaced(pnl, pnl', seen, r, w, S)
  <2>1. PICK gone : gone = {x \in pnl : \E s \in S : <<s.wallet, s.coin, s.period>> = <<x[2].wallet, x[2].coin, x[2].period>>}
    OBVIOUS
  <2>2. pnl' = {x \in pnl \ seen : x \notin gone} \cup {<<r, s>> : s \in S}
    BY <1>3, <2>1 DEF ReplaceSummaries, Committed
  <2>3. \A x \in gone : x[2].wallet = w
    BY <1>4, <2>1
  <2>4. \A x \in seen : x[2].wallet = w
    BY <1>2, <1>3 DEF TaskRowsOK
  <2> QED
    BY <1>4, <2>2, <2>3, <2>4 DEF Replaced
<1>6. pnlBy' = [pnlBy EXCEPT ![w] = r] /\ raced' = raced \cup Overlapped(r) /\ Overlapped(r) \subseteq Traders
  BY <1>3 DEF ReplaceSummaries, Overlapped
<1>7. rebuilds \in Nat /\ r \in 1 .. rebuilds
  <2>1. rebuilds \in Nat /\ r \in 1 .. MaxRebuilds
    BY AnalyticsAssumption DEF AnInv, Rebuilds
  <2>2. r <= rebuilds
    BY <1>2 DEF TaskOK
  <2> QED
    BY <2>1, <2>2
<1>8. TableOK(pnl, pnlBy)'
  <2>1. w \notin raced' => \A x \in pnl : x[2].wallet = w => x \in seen
    BY <1>1, <1>2, <1>3, <1>6 DEF TaskRowsOK, OwnRows
  <2>2. IsFiniteSet(S) /\ raced \subseteq raced' /\ TableIn(pnl, pnlBy, rebuilds, raced)
    BY <1>4, <1>6, TablesIn DEF SummariesOK, AnInv
  <2>3. TableIn(pnl', [pnlBy EXCEPT ![w] = r], rebuilds, raced')
    BY <1>3, <1>5, <1>7, <2>1, <2>2, ReplacedTable
  <2> QED
    BY <1>1, <1>6, <2>3, TablesIn
<1>9. SummariesOK(Rows(pnl))'
  <2>1. IsFiniteSet(Rows(pnl'))
    BY <1>8, RowsFinite DEF TableOK
  <2>2. \A s \in Rows(pnl') : s \in Rows(pnl) \/ s \in S
    BY <1>5 DEF Rows, Replaced
  <2> QED
    BY <1>4, <2>1, <2>2 DEF AnInv, SummariesOK
<1>10. TableOK(trades, tradesBy)'
  BY <1>1, <1>6 DEF AnInv, TableOK
<1>11. \A v \in Traders \ {w} : pnlBy'[v] = pnlBy[v]
  BY <1>6 DEF AnInv, TableOK
<1>12. pnlBy'[w] = r
  BY <1>3, <1>6 DEF AnInv, TableOK
<1>13. LastAgree'
  <2> SUFFICES ASSUME NEW x \in pnl', NEW v, v = x[2].wallet, x[1] = pnlBy'[v], pnlBy'[v] = tradesBy[v],
                      OnlyClosesRealize(Range(fillRows), x[2])
               PROVE  RealizedBy(Rows({y \in trades : y[1] = tradesBy[v]}), x[2]) = x[2].closed
    BY <1>1 DEF LastAgree
  <2>1. v # w
    BY <1>2, <1>3, <1>12 DEF TaskRowsOK
  <2>2. x \in pnl
    BY <1>4, <1>5, <2>1 DEF Replaced
  <2>3. v \in Traders
    BY <2>2 DEF AnInv, SummariesOK, Rows
  <2>4. pnlBy'[v] = pnlBy[v]
    BY <1>11, <2>1, <2>3
  <2> QED
    BY <2>2, <2>4 DEF AnInv, LastAgree
<1>14. (\A x, y \in trades : x # y /\ x[1] = y[1] => x[2].fills \cap y[2].fills = {})'
  BY <1>1 DEF AnInv
<1>15. PICK t : t = AfterPnl(tasks[r]) /\ tasks' = [tasks EXCEPT ![r] = t]
  BY <1>2 DEF ReplaceSummaries
<1>16. (tasks = [q \in Rebuilds |-> tasks[q]])' /\ tasks'[r] = t /\ \A q \in Rebuilds \ {r} : tasks'[q] = tasks[q]
  BY <1>15, TaskMoves
<1>17. ASSUME t # NoTask PROVE TaskOK(r)' /\ TaskRowsOK(r)'
  <2>1. t = [step |-> "trades", wallet |-> w, payments |-> tasks[r].payments, seen |-> {}, fills |-> tasks[r].fills]
    BY <1>2, <1>3, <1>15, <1>17 DEF AfterPnl, TaskOK
  <2>2. TaskOK(r)'
    <3>1. PICK j : j = tasks[r] /\ TaskIn(j, r, rebuilds, fillRows)
      BY <1>2, TasksIn
    <3>2. /\ t.step = "trades" /\ t.wallet = j.wallet /\ t.seen = {} /\ t.payments = j.payments /\ t.fills = j.fills
          /\ t = [step |-> t.step, wallet |-> t.wallet, payments |-> t.payments, seen |-> t.seen, fills |-> t.fills]
      BY <1>3, <2>1, <3>1
    <3>3. TaskIn(t, r, rebuilds, fillRows)
      BY <3>1, <3>2 DEF TaskIn
    <3> QED
      BY <1>1, <1>16, <3>3, TasksIn
  <2>3. {x \in OwnRows(pnl', w) : x[1] = r} = {<<r, s>> : s \in S}
    <3>1. \A x \in pnl : x[1] # r
      BY <1>1, <1>2 DEF TaskRowsOK
    <3>2. ASSUME NEW x \in OwnRows(pnl', w), x[1] = r PROVE \E s \in S : x = <<r, s>>
      BY <1>5, <3>1, <3>2 DEF OwnRows, Replaced
    <3>3. ASSUME NEW s \in S PROVE <<r, s>> \in OwnRows(pnl', w)
      BY <1>5 DEF OwnRows, Replaced
    <3> QED
      BY <3>2, <3>3
  <2>4. /\ tasks'[r].step = "trades" /\ tasks'[r].wallet = w /\ tasks'[r].seen = {}
        /\ tasks'[r].fills = tasks[r].fills /\ tasks'[r].payments = tasks[r].payments
    BY <1>16, <2>1
  <2>5. tradesBy'[w] # r /\ \A x \in trades' : x[1] # r
    BY <1>1, <1>2, <1>3 DEF TaskRowsOK
  <2>6. {x \in OwnRows(pnl', w) : x[1] = r} = {<<r, s>> : s \in PnlSummary(w, Range(tasks'[r].fills), tasks'[r].payments)}
    BY <1>3, <2>3, <2>4
  <2>7. TaskRowsOK(r)'
    BY <2>4, <2>5, <2>6 DEF TaskRowsOK
  <2> QED
    BY <2>2, <2>7
<1>18. ASSUME NEW q \in Rebuilds \ {r}, TaskOK(q), TaskRowsOK(q) PROVE TaskOK(q)' /\ TaskRowsOK(q)'
  <2>1. tasks'[q] = tasks[q]
    BY <1>16
  <2>2. TaskOK(q)'
    <3>1. UNCHANGED <<rebuilds, fillRows>>
      BY <1>1
    <3>2. rebuilds' \in Nat /\ rebuilds <= rebuilds'
      BY <1>7, <3>1
    <3> QED
      BY <1>7, <1>18, <2>1, <3>1, <3>2, TaskStays
  <2>3. PICK v : v = tasks[q].wallet /\ v \in Traders
    BY <1>18 DEF TaskOK
  <2>4. \A x \in pnl' : x \in pnl \/ (x[1] = r /\ x[2].wallet = w)
    BY <1>5 DEF Replaced
  <2>5. pnlBy'[v] = q => v # w /\ pnlBy[v] = q
    BY <1>11, <1>12, <2>3
  <2>6. pnlBy[v] # q => pnlBy'[v] # q
    BY <2>5
  <2>7. (\A x \in pnl : x[1] # q) => \A x \in pnl' : x[1] # q
    BY <2>4
  <2>8. PICK own, own2, all : /\ own = {x \in OwnRows(pnl, v) : x[1] = q} /\ own2 = {x \in OwnRows(pnl', v) : x[1] = q}
                              /\ all = {<<q, s>> : s \in PnlSummary(v, Range(tasks[q].fills), tasks[q].payments)}
    OBVIOUS
  <2>9. own2 \subseteq own
    BY <2>4, <2>8 DEF OwnRows
  <2>10. v # w => own \subseteq own2
    BY <1>5, <2>8 DEF OwnRows, Replaced
  <2>11. tasks[q].step \in {"trades", "insert trades"} => own2 \subseteq all /\ (pnlBy'[v] = q => own2 = all)
    <3>1. tasks[q].step \in {"trades", "insert trades"} => own \subseteq all /\ (pnlBy[v] = q => own = all)
      BY <1>18, <2>3, <2>8 DEF TaskRowsOK
    <3> QED
      BY <2>5, <2>9, <2>10, <3>1
  <2>12. tasks[q].step = "insert pnl" /\ v \notin raced' => OwnRows(pnl', v) \subseteq tasks[q].seen
    <3> SUFFICES ASSUME tasks[q].step = "insert pnl", v \notin raced' PROVE OwnRows(pnl', v) \subseteq tasks[q].seen
      OBVIOUS
    <3>1. v # w
      <4>1. CASE v = w
        <5>1. w \in Overlapped(r)
          BY <1>1, <1>3, <2>3, <4>1 DEF Overlapped
        <5> QED
          BY <1>6, <4>1, <5>1
      <4> QED
        BY <4>1
    <3>2. OwnRows(pnl', v) \subseteq OwnRows(pnl, v)
      BY <2>4, <3>1 DEF OwnRows
    <3>3. v \notin raced
      BY <1>6
    <3> QED
      BY <1>18, <2>3, <3>2, <3>3 DEF TaskRowsOK
  <2>13. /\ \A x \in tasks[q].seen : x[2].wallet = v
         /\ tradesBy[v] # q /\ \A x \in trades : x[1] # q
         /\ tasks[q].step \in {"payments", "pnl", "insert pnl"} => pnlBy[v] # q /\ \A x \in pnl : x[1] # q
         /\ tasks[q].step = "insert trades" /\ v \notin raced => OwnRows(trades, v) \subseteq tasks[q].seen
    BY <1>18, <2>3 DEF TaskRowsOK
  <2>14. v \notin raced' => v \notin raced
    BY <1>6
  <2>15. TaskRowsOK(q)'
    BY <1>1, <2>1, <2>3, <2>6, <2>7, <2>8, <2>11, <2>12, <2>13, <2>14 DEF TaskRowsOK
  <2> QED
    BY <2>2, <2>15
<1>19. ASSUME NEW q \in Rebuilds PROVE (tasks[q] = NoTask \/ (TaskOK(q) /\ TaskRowsOK(q)))'
  <2>1. CASE q = r
    BY <1>16, <1>17, <2>1 DEF NoTask
  <2>2. CASE q # r /\ tasks[q] = NoTask
    BY <1>16, <2>2 DEF NoTask
  <2>3. CASE q # r /\ tasks[q] # NoTask
    <3>1. TaskOK(q) /\ TaskRowsOK(q)
      BY <2>3 DEF AnInv
    <3> QED
      BY <1>18, <2>3, <3>1
  <2> QED
    BY <2>1, <2>2, <2>3
<1>20. (TradesOK(Rows(trades)))'
  BY <1>1 DEF AnInv
<1>21. (answer.step \in {"none", "summaries", "answered"} /\ AnswerOK)'
  BY <1>1 DEF AnInv, AnswerOK
<1>22. (fillRows \in Seq(Fills) /\ \A i, j \in DOMAIN fillRows : fillRows[i] = fillRows[j] => i = j)'
  BY <1>1 DEF AnInv
<1>23. (funded \subseteq Payments /\ rebuilds \in 0 .. MaxRebuilds /\ raced \subseteq Traders)'
  BY <1>1, <1>6 DEF AnInv
<1> QED
  BY <1>8, <1>9, <1>10, <1>13, <1>14, <1>16, <1>19, <1>20, <1>21, <1>22, <1>23 DEF AnInv

\* The trades of the wallet are replaced, and realize what the summaries of the
\* same rebuild say, if these are still there.
LEMMA ReplaceHistoryKeeps == ASSUME AnInv, NEW r \in Rebuilds, ReplaceHistory(r) PROVE AnInv'
<1>1. UNCHANGED <<fillRows, funded, rebuilds, pnl, pnlBy, answer>> /\ tasks[r].step = "insert trades"
  BY DEF ReplaceHistory
<1>2. /\ TaskOK(r) /\ TaskRowsOK(r) /\ RowsOK(tasks[r].fills, tasks[r].wallet) /\ tasks = [q \in Rebuilds |-> tasks[q]]
      /\ Range(tasks[r].fills) \subseteq Range(fillRows) /\ Range(tasks[r].fills) \in SUBSET Fills
      /\ \A f \in Range(tasks[r].fills) : FillOf[f].wallet = tasks[r].wallet
  <2>1. tasks[r] # NoTask
    BY <1>1, IdleTask
  <2> QED
    BY <2>1, TaskRows DEF AnInv
<1>3. PICK w, rows, H, ps, seen : /\ w = tasks[r].wallet /\ rows = tasks[r].fills /\ H = TradeHistory(rows)
                                  /\ ps = tasks[r].payments /\ seen = tasks[r].seen /\ w \in Traders
  BY <1>2 DEF TaskOK
<1>4. /\ TradesOK(H) /\ \A t \in H : t.wallet = w
      /\ \A t, u \in H : t # u => t.fills \cap u.fills = {}
      /\ \A c \in Coins : {t \in H : t.coin = c} = CoinTrades(CoinFills(rows, c))
  BY <1>2, <1>3, HistoryIs
<1>5. Replaced(trades, trades', seen, r, w, H)
  <2>1. PICK gone : gone = {x \in trades : \E t \in H : <<t.wallet, t.coin, t.fills>> = <<x[2].wallet, x[2].coin, x[2].fills>>}
    OBVIOUS
  <2>2. trades' = {x \in trades \ seen : x \notin gone} \cup {<<r, t>> : t \in H}
    BY <1>3, <2>1 DEF ReplaceHistory, Committed
  <2>3. \A x \in gone : x[2].wallet = w
    BY <1>4, <2>1
  <2>4. \A x \in seen : x[2].wallet = w
    BY <1>2, <1>3 DEF TaskRowsOK
  <2> QED
    BY <1>4, <2>2, <2>3, <2>4 DEF Replaced
<1>6. tradesBy' = [tradesBy EXCEPT ![w] = r] /\ raced' = raced \cup Overlapped(r) /\ Overlapped(r) \subseteq Traders
  BY <1>3 DEF ReplaceHistory, Overlapped
<1>7. rebuilds \in Nat /\ r \in 1 .. rebuilds
  <2>1. rebuilds \in Nat /\ r \in 1 .. MaxRebuilds
    BY AnalyticsAssumption DEF AnInv, Rebuilds
  <2>2. r <= rebuilds
    BY <1>2 DEF TaskOK
  <2> QED
    BY <2>1, <2>2
<1>8. TableOK(trades, tradesBy)'
  <2>1. w \notin raced' => \A x \in trades : x[2].wallet = w => x \in seen
    BY <1>1, <1>2, <1>3, <1>6 DEF TaskRowsOK, OwnRows
  <2>2. IsFiniteSet(H) /\ raced \subseteq raced' /\ TableIn(trades, tradesBy, rebuilds, raced)
    BY <1>4, <1>6, TablesIn DEF TradesOK, AnInv
  <2>3. TableIn(trades', [tradesBy EXCEPT ![w] = r], rebuilds, raced')
    BY <1>3, <1>5, <1>7, <2>1, <2>2, ReplacedTable
  <2> QED
    BY <1>1, <1>6, <2>3, TablesIn
<1>9. TradesOK(Rows(trades))'
  <2>1. IsFiniteSet(Rows(trades'))
    BY <1>8, RowsFinite DEF TableOK
  <2>2. \A t \in Rows(trades') : t \in Rows(trades) \/ t \in H
    BY <1>5 DEF Rows, Replaced
  <2>3. \A t \in Rows(trades') : TradeOK(t)
    BY <1>4, <2>2 DEF AnInv, TradesOK
  <2>4. TradesOK(Rows(trades'))
    BY <2>1, <2>3 DEF TradesOK
  <2> QED
    BY <2>4
<1>10. TableOK(pnl, pnlBy)'
  BY <1>1, <1>6 DEF AnInv, TableOK
<1>11. \A v \in Traders \ {w} : tradesBy'[v] = tradesBy[v]
  BY <1>6 DEF AnInv, TableOK
<1>12. tradesBy'[w] = r
  BY <1>3, <1>6 DEF AnInv, TableOK
<1>13. \A x \in trades : x[1] # r
  BY <1>2 DEF TaskRowsOK
<1>14. ASSUME NEW x \in trades', NEW y \in trades', x # y, x[1] = y[1] PROVE x[2].fills \cap y[2].fills = {}
  <2>1. CASE x[1] = r
    <3>1. PICK t \in H, u \in H : x = <<r, t>> /\ y = <<r, u>>
      BY <1>5, <1>13, <1>14, <2>1 DEF Replaced
    <3> QED
      BY <1>4, <1>14, <3>1
  <2>2. CASE x[1] # r
    <3>1. x \in trades /\ y \in trades
      BY <1>5, <1>14, <2>2 DEF Replaced
    <3> QED
      BY <1>14, <3>1 DEF AnInv
  <2> QED
    BY <2>1, <2>2
<1>15. ASSUME NEW x \in pnl, NEW v, v = x[2].wallet, x[1] = pnlBy[v], pnlBy[v] = tradesBy'[v],
              OnlyClosesRealize(Range(fillRows), x[2])
       PROVE  RealizedBy(Rows({y \in trades' : y[1] = tradesBy'[v]}), x[2]) = x[2].closed
  <2>1. x[2] \in Rows(pnl)
    BY DEF Rows
  <2>2. PICK s, c : s = x[2] /\ c = s.coin /\ c \in Coins /\ v \in Traders /\ s.wallet = v
    BY <1>15, <2>1 DEF AnInv, SummariesOK
  <2>3. CASE v # w
    <3>1. tradesBy'[v] = tradesBy[v]
      BY <1>11, <2>2, <2>3
    <3>2. PICK k, T, U : /\ k = tradesBy[v] /\ T = Rows({y \in trades : y[1] = k})
                         /\ U = Rows({y \in trades' : y[1] = k})
      OBVIOUS
    <3>3. {t \in U : t.wallet = s.wallet /\ t.coin = s.coin} = {t \in T : t.wallet = s.wallet /\ t.coin = s.coin}
      <4>1. ASSUME NEW t, t.wallet = v PROVE t \in U <=> t \in T
        <5>1. t \in U => t \in T
          <6> SUFFICES ASSUME NEW y \in trades', y[1] = k, t = y[2] PROVE y \in trades
            BY <3>2 DEF Rows
          <6> QED
            BY <1>4, <1>5, <2>3, <4>1 DEF Replaced
        <5>2. t \in T => t \in U
          <6> SUFFICES ASSUME NEW y \in trades, y[1] = k, t = y[2] PROVE y \in trades'
            BY <3>2 DEF Rows
          <6> QED
            BY <1>5, <2>3, <4>1 DEF Replaced
        <5> QED
          BY <5>1, <5>2
      <4> QED
        BY <2>2, <4>1
    <3>4. RealizedBy(U, s) = RealizedBy(T, s)
      BY <3>3 DEF RealizedBy
    <3>5. RealizedBy(T, s) = s.closed
      BY <1>15, <2>2, <3>1, <3>2 DEF AnInv, LastAgree
    <3> QED
      BY <2>2, <3>1, <3>2, <3>4, <3>5
  <2>4. CASE v = w
    <3>1. pnlBy[w] = r /\ x[1] = r /\ x = <<x[1], x[2]>>
      BY <1>12, <1>15, <2>4 DEF AnInv, TableOK
    <3>2. s \in PnlSummary(w, Range(rows), ps)
      <4>1. x \in {y \in OwnRows(pnl, w) : y[1] = r}
        BY <1>15, <2>4, <3>1 DEF OwnRows
      <4>2. x \in {<<r, z>> : z \in PnlSummary(w, Range(rows), ps)}
        BY <1>1, <1>2, <1>3, <4>1 DEF TaskRowsOK
      <4> QED
        BY <2>2, <3>1, <4>2
    <3>3. s.closed = ClosedIn(Range(rows), c)
      <4>1. w \in Traders /\ Range(rows) \in SUBSET Fills /\ ps \in SUBSET Payments
        BY <1>2, <1>3 DEF TaskOK
      <4> QED
        BY <2>2, <3>2, <4>1, SummaryIs
    <3>4. PICK U : U = Rows({y \in trades' : y[1] = r})
      OBVIOUS
    <3>5. U = H
      <4>1. \A y \in trades' : y[1] = r => \E t \in H : y = <<r, t>>
        BY <1>5, <1>13 DEF Replaced
      <4>2. \A t \in H : <<r, t>> \in trades'
        BY <1>5 DEF Replaced
      <4>3. \A u \in U : u \in H
        <5> SUFFICES ASSUME NEW y \in trades', y[1] = r PROVE y[2] \in H
          BY <3>4 DEF Rows
        <5> QED
          BY <4>1
      <4>4. \A t \in H : t \in U
        <5> SUFFICES ASSUME NEW t \in H PROVE \E y \in trades' : y[1] = r /\ t = y[2]
          BY <3>4 DEF Rows
        <5>1. PICK y : y = <<r, t>>
          OBVIOUS
        <5> QED
          BY <4>2, <5>1
      <4> QED
        BY <4>3, <4>4
    <3>6. {t \in U : t.wallet = s.wallet /\ t.coin = s.coin} = CoinTrades(CoinFills(rows, c))
      <4>1. {t \in U : t.wallet = s.wallet /\ t.coin = s.coin} = {t \in H : t.coin = c}
        BY <1>4, <2>2, <2>4, <3>5
      <4> QED
        BY <1>4, <2>2, <4>1
    <3>7. \A f \in Range(rows) : FillOf[f].coin = c /\ Realized(f) # 0 => IsClose(f)
      BY <1>2, <1>3, <1>15, <2>2, <2>4 DEF OnlyClosesRealize, IsClose
    <3>8. SumOf(CoinTrades(CoinFills(rows, c)), LAMBDA t : t.realized) = ClosedIn(Range(rows), c)
      BY <1>2, <1>3, <2>2, <3>7, TradesRealize
    <3>9. RealizedBy(U, s) = s.closed
      BY <3>3, <3>6, <3>8 DEF RealizedBy
    <3> QED
      BY <1>12, <2>2, <2>4, <3>4, <3>9
  <2> QED
    BY <2>3, <2>4
<1>16. LastAgree'
  BY <1>1, <1>15 DEF LastAgree
<1>17. tasks' = [tasks EXCEPT ![r] = NoTask]
  BY DEF ReplaceHistory
<1>18. (tasks = [q \in Rebuilds |-> tasks[q]])' /\ tasks'[r] = NoTask /\ \A q \in Rebuilds \ {r} : tasks'[q] = tasks[q]
  BY <1>17, TaskMoves
<1>19. ASSUME NEW q \in Rebuilds \ {r}, TaskOK(q), TaskRowsOK(q) PROVE TaskOK(q)' /\ TaskRowsOK(q)'
  <2>1. tasks'[q] = tasks[q]
    BY <1>18
  <2>2. TaskOK(q)'
    <3>1. UNCHANGED <<rebuilds, fillRows>>
      BY <1>1
    <3>2. rebuilds' \in Nat /\ rebuilds <= rebuilds'
      BY <1>7, <3>1
    <3> QED
      BY <1>7, <1>19, <2>1, <3>1, <3>2, TaskStays
  <2>3. PICK v : v = tasks[q].wallet /\ v \in Traders
    BY <1>19 DEF TaskOK
  <2>4. \A x \in trades' : x \in trades \/ (x[1] = r /\ x[2].wallet = w)
    BY <1>5 DEF Replaced
  <2>5. /\ \A x \in tasks[q].seen : x[2].wallet = v
        /\ tradesBy[v] # q /\ \A x \in trades : x[1] # q
        /\ tasks[q].step = "insert pnl" /\ v \notin raced => OwnRows(pnl, v) \subseteq tasks[q].seen
        /\ tasks[q].step = "insert trades" /\ v \notin raced => OwnRows(trades, v) \subseteq tasks[q].seen
    BY <1>19, <2>3 DEF TaskRowsOK
  <2>6. tradesBy'[v] # q /\ \A x \in trades' : x[1] # q
    BY <1>11, <1>12, <2>3, <2>4, <2>5
  <2>7. v \notin raced' => v \notin raced
    BY <1>6
  <2>8. tasks[q].step = "insert trades" /\ v \notin raced' => OwnRows(trades', v) \subseteq tasks[q].seen
    <3> SUFFICES ASSUME tasks[q].step = "insert trades", v \notin raced' PROVE OwnRows(trades', v) \subseteq tasks[q].seen
      OBVIOUS
    <3>1. v # w
      <4>1. CASE v = w
        <5>1. w \in Overlapped(r)
          BY <1>1, <1>3, <2>3, <4>1 DEF Overlapped
        <5> QED
          BY <1>6, <4>1, <5>1
      <4> QED
        BY <4>1
    <3>2. OwnRows(trades', v) \subseteq OwnRows(trades, v)
      BY <2>4, <3>1 DEF OwnRows
    <3> QED
      BY <2>5, <2>7, <3>2
  <2>9. TaskRowsOK(q)'
    BY <1>1, <1>19, <2>1, <2>3, <2>5, <2>6, <2>7, <2>8 DEF TaskRowsOK
  <2> QED
    BY <2>2, <2>9
<1>20. ASSUME NEW q \in Rebuilds PROVE (tasks[q] = NoTask \/ (TaskOK(q) /\ TaskRowsOK(q)))'
  <2>1. CASE q = r
    BY <1>18, <2>1 DEF NoTask
  <2>2. CASE q # r /\ tasks[q] = NoTask
    BY <1>18, <2>2 DEF NoTask
  <2>3. CASE q # r /\ tasks[q] # NoTask
    <3>1. TaskOK(q) /\ TaskRowsOK(q)
      BY <2>3 DEF AnInv
    <3> QED
      BY <1>19, <2>3, <3>1
  <2> QED
    BY <2>1, <2>2, <2>3
<1>21. (SummariesOK(Rows(pnl)))'
  BY <1>1 DEF AnInv
<1>22. (\A x, y \in trades : x # y /\ x[1] = y[1] => x[2].fills \cap y[2].fills = {})'
  BY <1>14
<1>23. (answer.step \in {"none", "summaries", "answered"} /\ AnswerOK)'
  BY <1>1 DEF AnInv, AnswerOK
<1>24. (fillRows \in Seq(Fills) /\ \A i, j \in DOMAIN fillRows : fillRows[i] = fillRows[j] => i = j)'
  BY <1>1 DEF AnInv
<1>25. (funded \subseteq Payments /\ rebuilds \in 0 .. MaxRebuilds /\ raced \subseteq Traders)'
  BY <1>1, <1>6 DEF AnInv
<1> QED
  BY <1>8, <1>9, <1>10, <1>16, <1>18, <1>20, <1>21, <1>22, <1>23, <1>24, <1>25 DEF AnInv

LEMMA AnStep == AnInv /\ [AnNext]_anVars => AnInv'
<1> SUFFICES ASSUME AnInv, [AnNext]_anVars PROVE AnInv'
  OBVIOUS
<1>1. CASE \E f \in Fills : IndexFill(f)
  BY <1>1, IndexFillKeeps
<1>2. CASE \E p \in Payments : IndexFunding(p)
  BY <1>2, IndexFundingKeeps
<1>3. CASE \E w \in Traders : LoadFills(w)
  BY <1>3, LoadFillsKeeps
<1>4. CASE \E r \in Rebuilds : Rebuild(r)
  <2>1. PICK r \in Rebuilds : Rebuild(r)
    BY <1>4
  <2>2. CASE LoadPayments(r)
    BY <2>2, LoadPaymentsKeeps
  <2>3. CASE DeleteSummaries(r) \/ DeleteHistory(r)
    BY <2>3, DeletesKeep
  <2>4. CASE ReplaceSummaries(r)
    BY <2>4, ReplaceSummariesKeeps
  <2>5. CASE ReplaceHistory(r)
    BY <2>5, ReplaceHistoryKeeps
  <2>6. CASE SummariesFail(r) \/ TaskEnds(r)
    BY <2>6, FailuresKeep
  <2> QED
    BY <2>1, <2>2, <2>3, <2>4, <2>5, <2>6 DEF Rebuild
<1>5. CASE AskSummaries \/ AskTrades \/ UNCHANGED anVars
  BY <1>5, AskKeeps
<1> QED
  BY <1>1, <1>2, <1>3, <1>4, <1>5 DEF AnNext

\* The inductive invariant of the wallet analytics: the rows of each rebuild are of one
\* read of the wallet's fills, however rebuilds interleave, overlap and fail.
THEOREM AnInvariant == AnSpec => []AnInv
<1> QED
  BY AnInitInv, AnStep, PTL DEF AnSpec

-----------------------------------------------------------------------------
(* What the tables and the answers report *)

FillsIn(rows, c) == {f \in Range(rows) : FillOf[f].coin = c}

\* With different times, the places of the fills are the order of the times.
LEMMA TimesAreOrder ==
    ASSUME NEW rows, NEW w, NEW c, NEW s, FillsOf(s, rows, w, c), NEW fs, fs = FillsIn(rows, c), Timed(fs)
    PROVE  /\ \A k \in 1 .. Len(s) : s[k] \in fs
           /\ \A f \in fs : \E k \in 1 .. Len(s) : s[k] = f
           /\ \A i, j \in 1 .. Len(s) : i < j <=> FillOf[s[i]].time < FillOf[s[j]].time
<1>1. PICK n \in Nat : n = Len(s)
  BY DEF FillsOf
<1>2. \A k \in 1 .. n : s[k] \in Fills /\ s[k] \in fs /\ FillOf[s[k]].time \in Nat
  <2> SUFFICES ASSUME NEW k \in 1 .. n PROVE s[k] \in Fills /\ s[k] \in fs /\ FillOf[s[k]].time \in Nat
    OBVIOUS
  <2>1. s[k] \in Fills /\ s[k] \in Range(rows) /\ FillOf[s[k]].coin = c
    BY <1>1 DEF FillsOf
  <2> QED
    BY <2>1, FillType DEF FillsIn
<1>3. \A i, j \in 1 .. n : i < j => s[i] # s[j] /\ FillOf[s[i]].time <= FillOf[s[j]].time
  BY <1>1 DEF FillsOf
<1>4. ASSUME NEW i \in 1 .. n, NEW j \in 1 .. n PROVE i < j <=> FillOf[s[i]].time < FillOf[s[j]].time
  <2>1. FillOf[s[i]].time = FillOf[s[j]].time => s[i] = s[j]
    BY <1>2 DEF Timed
  <2>2. PICK a \in Nat, b \in Nat : a = FillOf[s[i]].time /\ b = FillOf[s[j]].time
    BY <1>2
  <2>3. i < j => a < b
    BY <1>3, <2>1, <2>2
  <2>4. j < i => b <= a
    BY <1>3, <2>2
  <2>5. i = j => a = b
    BY <2>2
  <2> QED
    BY <2>2, <2>3, <2>4, <2>5
<1>5. \A f \in fs : \E k \in 1 .. n : s[k] = f
  BY <1>1 DEF FillsOf, FillsIn
<1>6. \A k \in 1 .. Len(s) : s[k] \in fs
  BY <1>1, <1>2
<1>7. \A f \in fs : \E k \in 1 .. Len(s) : s[k] = f
  BY <1>1, <1>5
<1>8. \A i, j \in 1 .. Len(s) : i < j <=> FillOf[s[i]].time < FillOf[s[j]].time
  BY <1>1, <1>4
<1> QED
  BY <1>6, <1>7, <1>8

\* The opens that a close finds are those since the close before, by time.
LEMMA OpenIsBefore ==
    ASSUME NEW rows, NEW w, NEW c, NEW s, FillsOf(s, rows, w, c), NEW fs, fs = FillsIn(rows, c), Timed(fs),
           NEW d \in 1 .. Len(s), NEW f
    PROVE  StillOpen(f, s, d - 1) <=> f \in OpensBefore(fs, s[d])
<1>1. PICK n \in Nat : n = Len(s)
  BY DEF FillsOf
<1>2. /\ \A k \in 1 .. n : s[k] \in fs
      /\ \A g \in fs : \E k \in 1 .. n : s[k] = g
      /\ \A i, j \in 1 .. n : i < j <=> FillOf[s[i]].time < FillOf[s[j]].time
  <2>1. /\ \A k \in 1 .. Len(s) : s[k] \in fs
        /\ \A g \in fs : \E k \in 1 .. Len(s) : s[k] = g
        /\ \A i, j \in 1 .. Len(s) : i < j <=> FillOf[s[i]].time < FillOf[s[j]].time
    BY TimesAreOrder
  <2> QED
    BY <1>1, <2>1
<1>3. ASSUME StillOpen(f, s, d - 1) PROVE f \in OpensBefore(fs, s[d])
  <2>1. PICK j \in 1 .. (d - 1) : s[j] = f /\ IsOpen(f) /\ \A i \in 1 .. (d - 1) : i > j => ~ IsClose(s[i])
    BY <1>3 DEF StillOpen
  <2>2. f \in fs /\ FillOf[f].time < FillOf[s[d]].time
    BY <1>1, <1>2, <2>1
  <2>3. ASSUME NEW g \in fs, IsClose(g), FillOf[g].time < FillOf[s[d]].time, FillOf[f].time < FillOf[g].time PROVE FALSE
    <3>1. PICK i \in 1 .. n : s[i] = g
      BY <1>2
    <3>2. i < d /\ j < i
      BY <1>1, <1>2, <2>1, <2>3, <3>1
    <3> QED
      BY <2>1, <2>3, <3>1, <3>2
  <2> QED
    BY <2>1, <2>2, <2>3 DEF OpensBefore, IsOpen, IsClose
<1>4. ASSUME f \in OpensBefore(fs, s[d]) PROVE StillOpen(f, s, d - 1)
  <2>1. /\ f \in fs /\ IsOpen(f) /\ FillOf[f].time < FillOf[s[d]].time
        /\ ~ \E g \in fs : IsClose(g) /\ FillOf[g].time < FillOf[s[d]].time /\ FillOf[f].time < FillOf[g].time
    BY <1>4 DEF OpensBefore, IsOpen, IsClose
  <2>2. PICK j \in 1 .. n : s[j] = f
    BY <1>2, <2>1
  <2>3. j < d /\ j \in 1 .. (d - 1)
    BY <1>1, <1>2, <2>1, <2>2
  <2>4. ASSUME NEW i \in 1 .. (d - 1), i > j PROVE ~ IsClose(s[i])
    <3>1. i \in 1 .. n /\ i < d /\ j < i
      BY <1>1, <2>4
    <3> QED
      BY <1>1, <1>2, <2>1, <2>2, <3>1
  <2> QED
    BY <2>1, <2>2, <2>3, <2>4 DEF StillOpen
<1> QED
  BY <1>3, <1>4

\* Each close of a coin's fills fs ends a trade of the opens before it.
ClosesPaired(fs, seq) ==
    {t.fills : t \in CoinTrades(seq)} = {OpensBefore(fs, d) \cup {d} : d \in {f \in fs : FillOf[f].dir = "Close"}}

LEMMA CoinArrival ==
    ASSUME NEW rows, NEW w, RowsOK(rows, w), NEW c \in Coins, NEW fs, fs = FillsIn(rows, c), Timed(fs),
           Directed(CoinFills(rows, c))
    PROVE  ClosesPaired(fs, CoinFills(rows, c))
<1>1. PICK s : s = CoinFills(rows, c)
  OBVIOUS
<1>3. FillsOf(s, rows, w, c)
  BY <1>1, CoinFillsIs
<1>4. PICK tr, D : Trades(tr, D, s, w, c) /\ CoinTrades(s) = ImageOf(tr, D) /\ PairsCloses(tr, D, s)
  BY <1>1, <1>3, DirectedTrades
<1>5. D = {d \in 1 .. Len(s) : IsClose(s[d])}
  BY <1>4 DEF PairsCloses
<1>6. ASSUME NEW d \in D PROVE tr[d].fills = OpensBefore(fs, s[d]) \cup {s[d]}
  <2>1. \A f : f \in tr[d].fills <=> StillOpen(f, s, d - 1) \/ f = s[d]
    BY <1>4 DEF PairsCloses
  <2>2. \A f : StillOpen(f, s, d - 1) <=> f \in OpensBefore(fs, s[d])
    BY <1>3, <1>5, OpenIsBefore
  <2> QED
    BY <2>1, <2>2
<1>7. PICK closes : closes = {f \in fs : FillOf[f].dir = "Close"}
  OBVIOUS
<1>8. closes = {s[d] : d \in D}
  <2>1. /\ \A k \in 1 .. Len(s) : s[k] \in fs
        /\ \A f \in fs : \E k \in 1 .. Len(s) : s[k] = f
    BY <1>3, TimesAreOrder
  <2> QED
    BY <1>5, <1>7, <2>1 DEF IsClose
<1>9. ASSUME NEW t \in CoinTrades(s) PROVE \E g \in closes : t.fills = OpensBefore(fs, g) \cup {g}
  <2>1. PICK d \in D : t = tr[d]
    BY <1>4 DEF ImageOf
  <2> QED
    BY <1>6, <1>8, <2>1
<1>10. ASSUME NEW g \in closes PROVE \E t \in CoinTrades(s) : t.fills = OpensBefore(fs, g) \cup {g}
  <2>1. PICK d \in D : g = s[d]
    BY <1>8
  <2>2. tr[d] \in CoinTrades(s)
    BY <1>4 DEF ImageOf
  <2> QED
    BY <1>6, <2>1, <2>2
<1>11. {t.fills : t \in CoinTrades(s)} = {OpensBefore(fs, g) \cup {g} : g \in closes}
  <2>1. PICK T, be : T = CoinTrades(s) /\ be = [g \in closes |-> OpensBefore(fs, g) \cup {g}]
    OBVIOUS
  <2>2. (\A t \in T : \E g \in closes : t.fills = be[g]) /\ (\A g \in closes : \E t \in T : t.fills = be[g])
    BY <1>9, <1>10, <2>1
  <2>3. {t.fills : t \in T} = {be[g] : g \in closes}
    BY <2>2
  <2>4. {be[g] : g \in closes} = {OpensBefore(fs, g) \cup {g} : g \in closes}
    BY <2>1
  <2> QED
    BY <2>1, <2>3, <2>4
<1> QED
  BY <1>1, <1>7, <1>11 DEF ClosesPaired

LEMMA ArrivalIgnored == AnInv => TradesIgnoreArrival
<1> SUFFICES ASSUME AnInv, NEW r \in Rebuilds, tasks[r].step = "trades", NEW c \in Coins,
                    Timed(FillsIn(tasks[r].fills, c)), Directed(CoinFills(tasks[r].fills, c))
             PROVE  ClosesPaired(FillsIn(tasks[r].fills, c), CoinFills(tasks[r].fills, c))
  BY Zenon DEF TradesIgnoreArrival, FillsIn, ClosesPaired
<1>1. RowsOK(tasks[r].fills, tasks[r].wallet)
  <2>1. tasks[r] # NoTask
    BY IdleTask
  <2> QED
    BY <2>1, TaskRows
<1>2. PICK rows, w, fs : rows = tasks[r].fills /\ w = tasks[r].wallet /\ fs = FillsIn(rows, c)
  OBVIOUS
<1>3. RowsOK(rows, w) /\ fs = FillsIn(rows, c) /\ Timed(fs) /\ Directed(CoinFills(rows, c))
  BY <1>1, <1>2
<1>4. ClosesPaired(fs, CoinFills(rows, c))
  BY <1>3, CoinArrival
<1> QED
  BY <1>2, <1>4

\* Where no two replacements overlapped, all trades of a wallet are of the rebuild
\* that replaced them last.
LEMMA PnlExplained == AnInv => TradesExplainPnl
<1> SUFFICES ASSUME AnInv, NEW w \in Traders \ raced, pnlBy[w] = tradesBy[w], NEW s \in Rows(OwnRows(pnl, w)),
                    OnlyClosesRealize(Range(fillRows), s)
             PROVE  RealizedBy(Rows(trades), s) = s.closed
  BY DEF TradesExplainPnl, Explained
<1>1. PICK x \in pnl : s = x[2] /\ s.wallet = w
  BY DEF Rows, OwnRows
<1>2. x[1] = pnlBy[w]
  BY <1>1 DEF AnInv, TableOK
<1>3. PICK T, U : T = Rows({y \in trades : y[1] = tradesBy[w]}) /\ U = Rows(trades)
  OBVIOUS
<1>4. RealizedBy(T, s) = s.closed
  BY <1>1, <1>2, <1>3 DEF AnInv, LastAgree
<1>5. {t \in U : t.wallet = s.wallet /\ t.coin = s.coin} = {t \in T : t.wallet = s.wallet /\ t.coin = s.coin}
  <2>1. \A y \in trades : y[2].wallet = w => y[1] = tradesBy[w]
    BY DEF AnInv, TableOK
  <2> QED
    BY <1>1, <1>3, <2>1 DEF Rows
<1>6. RealizedBy(U, s) = RealizedBy(T, s)
  BY <1>5 DEF RealizedBy
<1> QED
  BY <1>3, <1>4, <1>6

LEMMA FillsApart == AnInv => FillInOneTrade
<1> SUFFICES ASSUME AnInv, NEW x \in trades, NEW y \in trades, x # y, x[2].wallet \notin raced
             PROVE  x[2].fills \cap y[2].fills = {}
  BY DEF FillInOneTrade
<1>1. TradeOK(x[2]) /\ TradeOK(y[2])
  BY DEF AnInv, TradesOK, Rows
<1>2. CASE x[2].wallet = y[2].wallet
  BY <1>2 DEF AnInv, TableOK
<1>3. CASE x[2].wallet # y[2].wallet
  BY <1>1, <1>3 DEF TradeOK
<1> QED
  BY <1>2, <1>3

LEMMA TradesSound == AnInv => TradesAreSound
<1> QED
  BY ArrivalIgnored, PnlExplained, FillsApart DEF TradesAreSound

\* The types of the analytics rows follow.
LEMMA AnTyped == AnInv => AnTypeOK
<1> SUFFICES ASSUME AnInv PROVE AnTypeOK
  OBVIOUS
<1>1. Range(fillRows) \subseteq Fills /\ funded \subseteq Payments /\ rebuilds \in 0 .. MaxRebuilds /\ raced \subseteq Traders
  BY DEF AnInv, Range
<1>2. \A r \in Rebuilds : tasks[r].step \in {"idle", "payments", "pnl", "insert pnl", "trades", "insert trades"}
  <2> TAKE r \in Rebuilds
  <2>1. CASE tasks[r] = NoTask
    BY <2>1, IdleTask
  <2>2. CASE TaskOK(r)
    BY <2>2 DEF TaskOK
  <2> QED
    BY <2>1, <2>2 DEF AnInv
<1>3. \A s \in Rows(pnl) : s.wallet \in Traders /\ s.coin \in Coins
  BY DEF AnInv, SummariesOK
<1>4. \A t \in Rows(trades) : t.wallet \in Traders /\ t.coin \in Coins /\ t.size > 0
  BY DEF AnInv, TradesOK, TradeOK
<1>5. answer.step \in {"none", "summaries", "answered"}
  BY DEF AnInv
<1> QED
  BY <1>1, <1>2, <1>3, <1>4, <1>5 DEF AnTypeOK

\* The summaries of a wallet add up to what the exchange settled for it.
LEMMA NetSettled == AnInv => NetIsSettled
<1> SUFFICES ASSUME AnInv, NEW r \in Rebuilds, tasks[r].step = "trades", NEW w, w = tasks[r].wallet,
                    pnlBy[w] = r, w \notin raced
             PROVE  NetOf(Rows(OwnRows(pnl, w))) = Settled(Range(tasks[r].fills), tasks[r].payments)
  BY DEF NetIsSettled, NetOf, Settled
<1>1. tasks[r] # NoTask
  BY IdleTask
<1>2. TaskOK(r) /\ TaskRowsOK(r) /\ Range(tasks[r].fills) \in SUBSET Fills
  BY <1>1, TaskRows
<1>3. PICK F \in SUBSET Fills, P \in SUBSET Payments : w \in Traders /\ F = Range(tasks[r].fills) /\ P = tasks[r].payments
  BY <1>2 DEF TaskOK
<1>4. \A x \in OwnRows(pnl, w) : x[1] = r
  BY DEF AnInv, TableOK, OwnRows
<1>5. {x \in OwnRows(pnl, w) : x[1] = r} = {<<r, s>> : s \in PnlSummary(w, F, P)}
  BY <1>2, <1>3 DEF TaskRowsOK
<1>6. Rows(OwnRows(pnl, w)) = PnlSummary(w, F, P)
  <2>1. PICK O, S : O = OwnRows(pnl, w) /\ S = PnlSummary(w, F, P)
    OBVIOUS
  <2>2. O = {<<r, s>> : s \in S}
    BY <1>4, <1>5, <2>1
  <2>3. \A x \in O : x[2] \in S
    BY <2>2
  <2>4. \A s \in S : \E x \in O : x[2] = s
    <3> SUFFICES ASSUME NEW s \in S PROVE \E x \in O : x[2] = s
      OBVIOUS
    <3>1. PICK x : x = <<r, s>>
      OBVIOUS
    <3> QED
      BY <2>2, <3>1
  <2>5. Rows(O) = S
    BY <2>3, <2>4 DEF Rows
  <2> QED
    BY <2>1, <2>5
<1>7. NetOf(PnlSummary(w, F, P)) = Settled(F, P)
  BY <1>3, SummaryIs
<1> QED
  BY <1>3, <1>6, <1>7

OfWallet(S, w) == {x \in S : x.wallet = w}
OfCoin(S, c) == {x \in S : x.coin = c}
CoinsOf(ps, ts) == {s.coin : s \in ps} \cup {t.coin : t \in ts}
VolumeOf(ts) == SumOf(ts, LAMBDA t : t.volume)

\* The parts a market answer and a trader answer are made of.
IsMarket(m, ps, ts) ==
    /\ m.volume = VolumeOf(ts) /\ m.traders = Cardinality(UNION {MarketTraders(c, ps, ts) : c \in CoinsOf(ps, ts)})
    /\ DOMAIN m.coins = CoinsOf(ps, ts)
    /\ \A c \in CoinsOf(ps, ts) :
          /\ m.coins[c].traders = Cardinality(MarketTraders(c, ps, ts))
          /\ m.coins[c].trades = Cardinality(OfCoin(ts, c)) /\ m.coins[c].pnl = NetOf(OfCoin(ps, c))
IsTrader(r, ps, ts) ==
    /\ r.volume = VolumeOf(ts) /\ DOMAIN r.coins = CoinsOf(ps, ts)
    /\ \A c \in CoinsOf(ps, ts) :
          r.coins[c].net = NetOf(OfCoin(ps, c)) /\ r.coins[c].trades = Cardinality(OfCoin(ts, c))

\* MarketIsSumOfTraders of a market answer and the traders' answers.
AddsUp(m, one) ==
    /\ m.volume = SumOf(Traders, LAMBDA w : one[w].volume)
    /\ m.traders = Cardinality({w \in Traders : DOMAIN one[w].coins # {}})
    /\ \A c \in DOMAIN m.coins :
         LET in == {w \in Traders : c \in DOMAIN one[w].coins}
         IN /\ m.coins[c].pnl = SumOf(in, LAMBDA w : one[w].coins[c].net)
            /\ m.coins[c].trades = SumOf(in, LAMBDA w : one[w].coins[c].trades)
            /\ m.coins[c].traders = Cardinality(in)

LEMMA MarketIs == ASSUME NEW ps, NEW ts PROVE IsMarket(MarketAnalytics(ps, ts), ps, ts)
<1>1. PICK m, C : m = MarketAnalytics(ps, ts) /\ C = CoinsOf(ps, ts)
  OBVIOUS
<1>2. m = [coins |-> [c \in C |->
                     [volume |-> VolumeOf(OfCoin(ts, c)), traders |-> Cardinality(MarketTraders(c, ps, ts)),
                      trades |-> Cardinality(OfCoin(ts, c)), pnl |-> NetOf(OfCoin(ps, c))]],
           volume |-> VolumeOf(ts),
           traders |-> Cardinality(UNION {MarketTraders(c, ps, ts) : c \in C})]
  BY <1>1 DEF MarketAnalytics, CoinsOf, VolumeOf, OfCoin, NetOf
<1> QED
  BY <1>1, <1>2 DEF IsMarket

LEMMA TraderIs == ASSUME NEW w, NEW ps, NEW ts PROVE IsTrader(TraderAnalytics(w, ps, ts), ps, ts)
<1>1. PICK r, C : r = TraderAnalytics(w, ps, ts) /\ C = CoinsOf(ps, ts)
  OBVIOUS
<1>2. r = [net |-> NetOf(ps), volume |-> VolumeOf(ts), trades |-> Cardinality(ts),
           coins |-> [c \in C |-> [net |-> NetOf(OfCoin(ps, c)), volume |-> VolumeOf(OfCoin(ts, c)),
                                   trades |-> Cardinality(OfCoin(ts, c))]]]
  BY <1>1 DEF TraderAnalytics, CoinsOf, VolumeOf, OfCoin, NetOf
<1> QED
  BY <1>1, <1>2 DEF IsTrader

\* Sums over rows are the sums of the wallets' sums.
LEMMA NetByWallet ==
    ASSUME NEW Q, SummariesOK(Q), NEW W, IsFiniteSet(W), \A s \in Q : s.wallet \in W,
           NEW g, \A w \in W : g[w] = NetOf(OfWallet(Q, w))
    PROVE  IsCount(g, W) /\ SumFunctionOnSet(g, W) = NetOf(Q)
<1>1. PICK f, k : f = [s \in Q |-> s.net] /\ k = [s \in Q |-> s.wallet]
  OBVIOUS
<1>2. IsFiniteSet(Q) /\ IsCount(f, Q) /\ Grouped(k, Q, W)
  BY <1>1 DEF SummariesOK, IsCount, Grouped
<1>3. SumsOf(g, f, k, Q, W)
  <2>1. ASSUME NEW w \in W PROVE g[w] = SumFunctionOnSet(f, GroupOf(k, Q, w))
    <3>1. PICK R \in SUBSET Q : R = OfWallet(Q, w)
      BY DEF OfWallet
    <3>2. GroupOf(k, Q, w) = R
      BY <1>1, <3>1 DEF GroupOf, OfWallet
    <3>3. PICK h : h = [s \in R |-> s.net]
      OBVIOUS
    <3>4. DOMAIN h = R /\ \A s \in R : h[s] = f[s]
      BY <1>1, <3>3
    <3>5. SumFunction(h) = SumFunctionOnSet(f, R)
      BY <1>2, <3>4, SumGiven
    <3>6. NetOf(R) = SumFunction(h)
      BY <3>3 DEF NetOf, SumOf
    <3> QED
      BY <3>1, <3>2, <3>5, <3>6
  <2> QED
    BY <2>1 DEF SumsOf
<1>4. NetOf(Q) = SumFunctionOnSet(f, Q)
  BY <1>1 DEF NetOf, SumOf, SumFunction
<1> QED
  BY <1>2, <1>3, <1>4, SumByGroup

LEMMA VolumeByWallet ==
    ASSUME NEW Q, TradesOK(Q), NEW W, IsFiniteSet(W), \A t \in Q : t.wallet \in W,
           NEW g, \A w \in W : g[w] = VolumeOf(OfWallet(Q, w))
    PROVE  IsCount(g, W) /\ SumFunctionOnSet(g, W) = VolumeOf(Q)
<1>1. PICK f, k : f = [t \in Q |-> t.volume] /\ k = [t \in Q |-> t.wallet]
  OBVIOUS
<1>2. IsFiniteSet(Q) /\ IsCount(f, Q) /\ Grouped(k, Q, W)
  BY <1>1 DEF TradesOK, TradeOK, IsCount, Grouped
<1>3. SumsOf(g, f, k, Q, W)
  <2>1. ASSUME NEW w \in W PROVE g[w] = SumFunctionOnSet(f, GroupOf(k, Q, w))
    <3>1. PICK R \in SUBSET Q : R = OfWallet(Q, w)
      BY DEF OfWallet
    <3>2. GroupOf(k, Q, w) = R
      BY <1>1, <3>1 DEF GroupOf, OfWallet
    <3>3. PICK h : h = [t \in R |-> t.volume]
      OBVIOUS
    <3>4. DOMAIN h = R /\ \A t \in R : h[t] = f[t]
      BY <1>1, <3>3
    <3>5. SumFunction(h) = SumFunctionOnSet(f, R)
      BY <1>2, <3>4, SumGiven
    <3>6. VolumeOf(R) = SumFunction(h)
      BY <3>3 DEF VolumeOf, SumOf
    <3> QED
      BY <3>1, <3>2, <3>5, <3>6
  <2> QED
    BY <2>1 DEF SumsOf
<1>4. VolumeOf(Q) = SumFunctionOnSet(f, Q)
  BY <1>1 DEF VolumeOf, SumOf, SumFunction
<1> QED
  BY <1>2, <1>3, <1>4, SumByGroup

LEMMA TradesByWallet ==
    ASSUME NEW Q, TradesOK(Q), NEW W, IsFiniteSet(W), \A t \in Q : t.wallet \in W,
           NEW g, \A w \in W : g[w] = Cardinality(OfWallet(Q, w))
    PROVE  SumFunctionOnSet(g, W) = Cardinality(Q)
<1>1. PICK k : k = [t \in Q |-> t.wallet]
  OBVIOUS
<1>2. IsFiniteSet(Q) /\ Grouped(k, Q, W)
  BY <1>1 DEF TradesOK, Grouped
<1>3. \A w \in W : GroupOf(k, Q, w) = OfWallet(Q, w)
  BY <1>1 DEF GroupOf, OfWallet
<1>4. CountsOf(g, k, Q, W)
  BY <1>3 DEF CountsOf
<1> QED
  BY <1>2, <1>4, CountByGroup

\* The market of any two tables is the sum of the wallets in them.
LEMMA TablesAddUp ==
    ASSUME NEW ps, SummariesOK(ps), NEW ts, TradesOK(ts), NEW m, IsMarket(m, ps, ts),
           NEW one, \A w \in Traders : IsTrader(one[w], OfWallet(ps, w), OfWallet(ts, w))
    PROVE  AddsUp(m, one)
<1>1. IsFiniteSet(Traders) /\ \A s \in ps : s.wallet \in Traders
  BY AnalyticsAssumption DEF SummariesOK
<1>2. \A t \in ts : t.wallet \in Traders
  BY DEF TradesOK, TradeOK
<1>3. m.volume = SumOf(Traders, LAMBDA w : one[w].volume)
  <2>1. PICK g : g = [w \in Traders |-> one[w].volume]
    OBVIOUS
  <2>2. \A w \in Traders : g[w] = VolumeOf(OfWallet(ts, w))
    BY <2>1 DEF IsTrader
  <2>3. SumFunctionOnSet(g, Traders) = VolumeOf(ts)
    BY <1>1, <1>2, <2>2, VolumeByWallet
  <2> QED
    BY <2>1, <2>3 DEF IsMarket, SumOf, SumFunction
<1>4. \A c : MarketTraders(c, ps, ts) = {w \in Traders : c \in CoinsOf(OfWallet(ps, w), OfWallet(ts, w))}
  <2> TAKE c
  <2>1. PICK M, I : M = MarketTraders(c, ps, ts) /\ I = {w \in Traders : c \in CoinsOf(OfWallet(ps, w), OfWallet(ts, w))}
    OBVIOUS
  <2>2. \A w : w \in M <=> (\E s \in ps : s.coin = c /\ s.wallet = w) \/ (\E t \in ts : t.coin = c /\ t.wallet = w)
    BY <2>1 DEF MarketTraders
  <2>3. \A w : w \in I <=> /\ w \in Traders
                           /\ (\E s \in ps : s.coin = c /\ s.wallet = w) \/ (\E t \in ts : t.coin = c /\ t.wallet = w)
    BY <2>1 DEF CoinsOf, OfWallet
  <2>4. \A w : w \in M <=> w \in I
    BY <1>1, <1>2, <2>2, <2>3
  <2> QED
    BY <2>1, <2>4
<1>5. \A w \in Traders : DOMAIN one[w].coins = CoinsOf(OfWallet(ps, w), OfWallet(ts, w))
  BY DEF IsTrader
<1>6. m.traders = Cardinality({w \in Traders : DOMAIN one[w].coins # {}})
  <2>1. PICK U, A : U = UNION {MarketTraders(c, ps, ts) : c \in CoinsOf(ps, ts)} /\ A = {w \in Traders : DOMAIN one[w].coins # {}}
    OBVIOUS
  <2>2. \A w : w \in U <=> \E c \in CoinsOf(ps, ts) : w \in MarketTraders(c, ps, ts)
    BY <2>1
  <2>3. \A w : w \in A <=> w \in Traders /\ \E c : c \in CoinsOf(OfWallet(ps, w), OfWallet(ts, w))
    BY <1>5, <2>1
  <2>4. \A w, c : c \in CoinsOf(OfWallet(ps, w), OfWallet(ts, w)) => c \in CoinsOf(ps, ts)
    BY DEF CoinsOf, OfWallet
  <2>5. \A w : w \in U <=> w \in A
    BY <1>4, <2>2, <2>3, <2>4
  <2>6. U = A
    BY <2>5
  <2> QED
    BY <2>1, <2>6 DEF IsMarket
<1>7. ASSUME NEW c \in CoinsOf(ps, ts), NEW in, in = {w \in Traders : c \in DOMAIN one[w].coins}
      PROVE  /\ m.coins[c].pnl = SumOf(in, LAMBDA w : one[w].coins[c].net)
             /\ m.coins[c].trades = SumOf(in, LAMBDA w : one[w].coins[c].trades)
             /\ m.coins[c].traders = Cardinality(in)
  <2>1. in = MarketTraders(c, ps, ts)
    BY <1>4, <1>5, <1>7
  <2>2. IsFiniteSet(in)
    BY <1>1, <1>7, FS_Subset
  <2>3. m.coins[c].traders = Cardinality(in)
    BY <2>1 DEF IsMarket
  <2>4. \A w \in in : w \in Traders /\ c \in CoinsOf(OfWallet(ps, w), OfWallet(ts, w))
    BY <1>5, <1>7
  <2>5. ASSUME NEW w \in in
        PROVE  /\ one[w].coins[c].net = NetOf(OfCoin(OfWallet(ps, w), c))
               /\ one[w].coins[c].trades = Cardinality(OfCoin(OfWallet(ts, w), c))
    BY <2>4 DEF IsTrader
  <2>6. \A w : /\ OfCoin(OfWallet(ps, w), c) = OfWallet(OfCoin(ps, c), w)
               /\ OfCoin(OfWallet(ts, w), c) = OfWallet(OfCoin(ts, c), w)
    BY DEF OfCoin, OfWallet
  <2>7. PICK P, T : P = OfCoin(ps, c) /\ T = OfCoin(ts, c)
    OBVIOUS
  <2>8. P \subseteq ps /\ T \subseteq ts /\ (\A s \in P : s.wallet \in in) /\ (\A t \in T : t.wallet \in in)
    BY <2>1, <2>7 DEF OfCoin, MarketTraders
  <2>9. SummariesOK(P) /\ TradesOK(T)
    <3>1. IsFiniteSet(P) /\ IsFiniteSet(T)
      BY <2>8, FS_Subset DEF SummariesOK, TradesOK
    <3> QED
      BY <2>8, <3>1 DEF SummariesOK, TradesOK
  <2>10. m.coins[c].pnl = SumOf(in, LAMBDA w : one[w].coins[c].net)
    <3>1. PICK g : g = [w \in in |-> one[w].coins[c].net]
      OBVIOUS
    <3>2. \A w \in in : g[w] = NetOf(OfWallet(P, w))
      BY <2>5, <2>6, <2>7, <3>1
    <3>3. SumFunctionOnSet(g, in) = NetOf(P)
      BY <2>2, <2>8, <2>9, <3>2, NetByWallet
    <3>4. m.coins[c].pnl = NetOf(P)
      BY <2>7 DEF IsMarket
    <3> QED
      BY <3>1, <3>3, <3>4 DEF SumOf, SumFunction
  <2>11. m.coins[c].trades = SumOf(in, LAMBDA w : one[w].coins[c].trades)
    <3>1. PICK g : g = [w \in in |-> one[w].coins[c].trades]
      OBVIOUS
    <3>2. \A w \in in : g[w] = Cardinality(OfWallet(T, w))
      BY <2>5, <2>6, <2>7, <3>1
    <3>3. SumFunctionOnSet(g, in) = Cardinality(T)
      BY <2>2, <2>8, <2>9, <3>2, TradesByWallet
    <3>4. m.coins[c].trades = Cardinality(T)
      BY <2>7 DEF IsMarket
    <3> QED
      BY <3>1, <3>3, <3>4 DEF SumOf, SumFunction
  <2> QED
    BY <2>3, <2>10, <2>11
<1>8. DOMAIN m.coins = CoinsOf(ps, ts)
  BY DEF IsMarket
<1> QED
  BY <1>3, <1>6, <1>7, <1>8, Zenon DEF AddsUp

\* The market of an answer is the sum of its traders.
LEMMA MarketAddsUp == AnInv => MarketIsSumOfTraders
<1> SUFFICES ASSUME AnInv, answer.step = "answered"
             PROVE  AddsUp(MarketAnalytics(answer.pnl, answer.trades),
                           [w \in Traders |-> TraderAnalytics(w, {s \in answer.pnl : s.wallet = w},
                                                                {t \in answer.trades : t.wallet = w})])
  BY Zenon DEF MarketIsSumOfTraders, AddsUp
<1> PICK ps, ts : ps = answer.pnl /\ ts = answer.trades
  OBVIOUS
<1>1. SummariesOK(ps) /\ TradesOK(ts)
  BY DEF AnInv, AnswerOK
<1>2. PICK one : one = [w \in Traders |-> TraderAnalytics(w, {s \in ps : s.wallet = w}, {t \in ts : t.wallet = w})]
  OBVIOUS
<1>3. ASSUME NEW w \in Traders PROVE IsTrader(one[w], OfWallet(ps, w), OfWallet(ts, w))
  <2>1. PICK P, T : P = OfWallet(ps, w) /\ T = OfWallet(ts, w)
    OBVIOUS
  <2>2. one[w] = TraderAnalytics(w, P, T)
    BY <1>2, <2>1 DEF OfWallet
  <2> QED
    BY <2>1, <2>2, TraderIs
<1>4. AddsUp(MarketAnalytics(ps, ts), one)
  <2>1. PICK m : m = MarketAnalytics(ps, ts)
    OBVIOUS
  <2>2. IsMarket(m, ps, ts)
    BY <2>1, MarketIs
  <2> QED
    BY <1>1, <1>3, <2>1, <2>2, TablesAddUp
<1> QED
  BY <1>2, <1>4

\* Types of the analytics rows, in every state.
THEOREM AnTypes == AnSpec => []AnTypeOK
<1> QED
  BY AnInvariant, AnTyped, PTL

\* Trades account for the fills they are made from: each fill in one trade at
\* most, each close with the opens since the close before it, and together the
\* PnL that the summaries of the same rebuild report.
THEOREM TradesSoundAlways == AnSpec => []TradesAreSound
<1> QED
  BY AnInvariant, TradesSound, PTL

\* Answers add up though their tables are read one after the other.
THEOREM AnswersAddUp == AnSpec => [](MarketIsSumOfTraders /\ NetIsSettled)
<1>1. AnInv => MarketIsSumOfTraders /\ NetIsSettled
  BY MarketAddsUp, NetSettled
<1> QED
  BY <1>1, AnInvariant, PTL

-----------------------------------------------------------------------------
(* The service *)

\* A step of the service is a step or a stutter of each of its parts.
LEMMA ServiceSteps ==
    ASSUME [ServiceNext]_serviceVars
    PROVE  [ApiNext]_apiVars /\ [AnNext]_anVars /\ [AcNext]_acVars
<1>1. CASE ApiNext /\ UNCHANGED <<limVars, anVars, acVars>>
  BY <1>1
<1>2. CASE LimNext /\ UNCHANGED <<apiVars, anVars, acVars>>
  BY <1>2
<1>3. CASE AnNext /\ UNCHANGED <<apiVars, limVars, acVars>>
  BY <1>3
<1>4. CASE AcNext /\ UNCHANGED <<apiVars, limVars, anVars>>
  BY <1>4
<1>5. CASE UNCHANGED serviceVars
  BY <1>5 DEF serviceVars
<1> QED
  BY <1>1, <1>2, <1>3, <1>4, <1>5 DEF ServiceNext

\* The invariants of the parts hold side by side.
THEOREM ServiceInvariant == ServiceSpec => [](ApiInv /\ AnInv /\ AcInv)
<1>1. ServiceInit => ApiInv /\ AnInv /\ AcInv
  BY ApiInvInit, AnInitInv, AcInitInv DEF ServiceInit
<1>2. ApiInv /\ AnInv /\ AcInv /\ [ServiceNext]_serviceVars => (ApiInv /\ AnInv /\ AcInv)'
  BY ServiceSteps, ApiInvStep, AnStep, AcStep
<1> QED
  BY <1>1, <1>2, PTL DEF ServiceSpec

\* The tables of the requests and of the analytics keep their types and foreign keys.
THEOREM ServiceTypes == ServiceSpec => []TypesOK
<1>1. ApiInv /\ AnInv => TypesOK
  BY AnTyped DEF ApiInv, TypesOK
<1> QED
  BY <1>1, ServiceInvariant, PTL

\* Reports add up in every state of the service: the market is the sum of its
\* traders, a trader's total is what was settled, forensics, protocol activity and
\* TVL count each row once, for every number of rows and wallets.
THEOREM ReportsAlwaysAddUp == ServiceSpec => []ReportsAddUp
<1>1. AnInv /\ AcInv => ReportsAddUp
  BY MarketAddsUp, NetSettled, ForensicsFromRows, ActivityFromRows, TvlFromRows DEF ReportsAddUp
<1> QED
  BY <1>1, ServiceInvariant, PTL
=============================================================================
