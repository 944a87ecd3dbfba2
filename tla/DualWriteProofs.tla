-------------------------- MODULE DualWriteProofs --------------------------
(* Proofs about adapters/src/dual_write.rs and what it is built from: the
   command line's ingest and normalize, for any number of processes, wallets,
   networks and blocks; the configuration and its registry; and, with the ledger
   of a payload (MaterializationRunsProofs), the three as one program. *)
EXTENDS CommandLine, MaterializationRunsProofs

-----------------------------------------------------------------------------
(* The command line: one statement of one command *)

CommandStep(p) ==
    \/ \E w \in Wallets, opt \in Networks \cup {NoNetwork} :
          StartIngest(p, w, opt) \/ StartNormalize(p, w, opt)
    \/ FindTarget(p) \/ CreateUserTarget(p) \/ SaveV1(p)
    \/ WriteRaw(p) \/ WriteMatches(p) \/ WriteCursor(p)
    \/ ResolveNetworks(p) \/ HealRaw(p) \/ FindOwners(p) \/ HealMatches(p) \/ WriteSilver(p)
    \/ EndNormalize(p) \/ CrashCli(p)

LocalsOf(q) == <<cpc[q], cmd[q], seen[q], tid[q], ids[q], cliFault[q]>>

\* A process changes its own locals only.
LEMMA OtherProcs ==
    ASSUME ProcsOK, NEW p \in Procs, CommandStep(p), NEW q \in Procs, q # p
    PROVE  LocalsOf(q)' = LocalsOf(q)
<1>1. ASSUME NEW w \in Wallets, NEW opt \in Networks \cup {NoNetwork}, StartIngest(p, w, opt) PROVE LocalsOf(q)' = LocalsOf(q)
  BY <1>1 DEF StartIngest, Go, dwTables, LocalsOf, ProcsOK
<1>2. ASSUME NEW w \in Wallets, NEW opt \in Networks \cup {NoNetwork}, StartNormalize(p, w, opt) PROVE LocalsOf(q)' = LocalsOf(q)
  BY <1>2 DEF StartNormalize, Go, dwTables, LocalsOf, ProcsOK
<1>3. ASSUME FindTarget(p) PROVE LocalsOf(q)' = LocalsOf(q)
  BY <1>3 DEF FindTarget, NoCliFault, CliFault, Go, dwTables, dwHistory, LocalsOf, ProcsOK
<1>4. ASSUME CreateUserTarget(p) PROVE LocalsOf(q)' = LocalsOf(q)
  BY <1>4 DEF CreateUserTarget, EnsureTarget, CreateIndexTarget, NoCliFault, CliFault, Go, dwTables, dwHistory, LocalsOf, ProcsOK
<1>5. ASSUME SaveV1(p) PROVE LocalsOf(q)' = LocalsOf(q)
  BY <1>5 DEF SaveV1, EndCommand, Go, dwTables, dwHistory, LocalsOf, ProcsOK
<1>6. ASSUME WriteRaw(p) PROVE LocalsOf(q)' = LocalsOf(q)
  BY <1>6 DEF WriteRaw, NoCliFault, CliFault, Go, dwTables, dwHistory, LocalsOf, ProcsOK
<1>7. ASSUME WriteMatches(p) PROVE LocalsOf(q)' = LocalsOf(q)
  BY <1>7 DEF WriteMatches, NoCliFault, CliFault, Go, dwTables, dwHistory, LocalsOf, ProcsOK
<1>8. ASSUME WriteCursor(p) PROVE LocalsOf(q)' = LocalsOf(q)
  BY <1>8 DEF WriteCursor, EndCommand, Go, dwTables, dwHistory, LocalsOf, ProcsOK
<1>9. ASSUME ResolveNetworks(p) PROVE LocalsOf(q)' = LocalsOf(q)
  BY <1>9 DEF ResolveNetworks, NoCliFault, CliFault, Go, dwTables, dwHistory, LocalsOf, ProcsOK
<1>10. ASSUME HealRaw(p) PROVE LocalsOf(q)' = LocalsOf(q)
  BY <1>10 DEF HealRaw, NoCliFault, CliFault, Go, dwTables, dwHistory, LocalsOf, ProcsOK
<1>11. ASSUME FindOwners(p) PROVE LocalsOf(q)' = LocalsOf(q)
  BY <1>11 DEF FindOwners, NoCliFault, CliFault, Go, dwTables, dwHistory, LocalsOf, ProcsOK
<1>12. ASSUME HealMatches(p) PROVE LocalsOf(q)' = LocalsOf(q)
  BY <1>12 DEF HealMatches, NoCliFault, CliFault, Go, dwTables, dwHistory, LocalsOf, ProcsOK
<1>13. ASSUME WriteSilver(p) PROVE LocalsOf(q)' = LocalsOf(q)
  BY <1>13 DEF WriteSilver, NoCliFault, CliFault, Go, dwTables, dwHistory, LocalsOf, ProcsOK
<1>14. ASSUME EndNormalize(p) PROVE LocalsOf(q)' = LocalsOf(q)
  BY <1>14 DEF EndNormalize, EndCommand, Go, dwTables, dwHistory, LocalsOf, ProcsOK
<1>15. ASSUME CrashCli(p) PROVE LocalsOf(q)' = LocalsOf(q)
  BY <1>15 DEF CrashCli, EndCommand, Go, dwTables, dwHistory, LocalsOf, ProcsOK
<1> QED
  BY <1>1, <1>2, <1>3, <1>4, <1>5, <1>6, <1>7, <1>8, <1>9, <1>10, <1>11, <1>12, <1>13, <1>14, <1>15 DEF CommandStep

-----------------------------------------------------------------------------
(* Blocks and checkpoints *)

LEMMA BlocksFinite == IsFiniteSet(Blocks) /\ Blocks \in SUBSET Nat /\ \A b \in Blocks : b > 0
<1>1. Blocks \in SUBSET Nat /\ \A b \in Blocks : b > 0
  BY DualWriteAssumption DEF Blocks
<1> DEFINE f == [t \in OnChain |-> t[3]]
<1>2. f \in Surjection(OnChain, Blocks)
  BY DEF Surjection, Blocks
<1>3. IsFiniteSet(Blocks)
  BY <1>2, FS_Surjection, DualWriteAssumption
<1> QED
  BY <1>1, <1>3

\* The checkpoint of fetched blocks is at most the last of them, or zero.
LEMMA CheckpointType ==
    ASSUME NEW es \in SUBSET Blocks, es # {}
    PROVE  /\ BuildCheckpoint(es) \in Nat
           /\ BuildCheckpoint(es) = 0 \/ \E b \in es : BuildCheckpoint(es) <= b
<1>1. IsFiniteSet(es) /\ es \in SUBSET Nat
  BY BlocksFinite, FS_Subset
<1>2. Max(es) \in es
  BY <1>1, MaxIsGreatest
<1>3. PICK m \in es : m = Max(es) /\ m \in Nat
  BY <1>1, <1>2
<1> QED
  BY <1>3, DualWriteAssumption DEF BuildCheckpoint

LEMMA ResumeType ==
    ASSUME DwTypeOK, NEW w \in Wallets, NEW opt \in Networks \cup {NoNetwork}, NEW cp \in ResumeFrom(w, opt)
    PROVE  cp \in Nat \cup {NoCheckpoint}
<1>1. CASE opt = NoNetwork
  BY <1>1 DEF ResumeFrom, ResumeV1, DwTypeOK
<1>2. CASE opt # NoNetwork
  <2>1. PICK t \in Lookup(opt, w, "none") : cp = ResumeV2(t)
    BY <1>2 DEF ResumeFrom
  <2>2. t = NoTarget \/ t \in TargetRows
    BY <2>1 DEF Lookup, Rows, DwTypeOK
  <2> QED
    BY <2>1, <2>2 DEF ResumeV2, DwTypeOK
<1> QED
  BY <1>1, <1>2

LEMMA FirstBlockType ==
    ASSUME NEW cp \in Nat \cup {NoCheckpoint}, NEW head \in Blocks
    PROVE  FirstBlock(cp, head) \in Nat
<1>1. head \in Nat
  BY BlocksFinite
<1> QED
  BY <1>1, DualWriteAssumption DEF FirstBlock, NoCheckpoint

\* What is only ever added to.
Grows ==
    /\ v1 \subseteq v1' /\ raw \subseteq raw' /\ targets \subseteq targets' /\ matches \subseteq matches'
    /\ dwSilver \subseteq dwSilver' /\ named \subseteq named' /\ told \subseteq told'
    /\ \A w \in Wallets : origin[w] <= origin'[w]

LEMMA GrowsStep ==
    ASSUME DwTypeOK, ProcsOK, NEW p \in Procs, CommandStep(p)
    PROVE  Grows
<1>1. ASSUME NEW w \in Wallets, NEW opt \in Networks \cup {NoNetwork}, StartIngest(p, w, opt) PROVE Grows
  <2>1. PICK cp \in ResumeFrom(w, opt), head \in Blocks :
            LET n == IF opt = NoNetwork THEN DefaultNetwork ELSE opt
                from == FirstBlock(cp, head)
            IN  origin' = IF n = DefaultNetwork /\ cp = NoCheckpoint /\ from > origin[w]
                          THEN [origin EXCEPT ![w] = from] ELSE origin
    BY <1>1 DEF StartIngest
  <2>2. \A v \in Wallets : origin[v] <= origin[v] /\ origin[v] \in Nat
    BY DEF ProcsOK
  <2>4. CASE origin' = origin
    BY <1>1, <2>2, <2>4 DEF StartIngest, dwTables, Grows
  <2>5. ASSUME NEW from \in Nat, from > origin[w], origin' = [origin EXCEPT ![w] = from] PROVE Grows
    <3>1. \A v \in Wallets : origin[v] <= origin'[v]
      BY <2>2, <2>5 DEF ProcsOK
    <3> QED
      BY <1>1, <3>1 DEF StartIngest, dwTables, Grows
  <2> QED
    BY <2>1, <2>4, <2>5, ResumeType, FirstBlockType
<1>2. ASSUME NEW w \in Wallets, NEW opt \in Networks \cup {NoNetwork}, StartNormalize(p, w, opt) PROVE Grows
  BY <1>2 DEF StartNormalize, Go, dwTables, Grows, ProcsOK
<1>3. ASSUME FindTarget(p) PROVE Grows
  BY <1>3 DEF FindTarget, NoCliFault, CliFault, Go, dwTables, dwHistory, Grows, ProcsOK
<1>4. ASSUME CreateUserTarget(p) PROVE Grows
  BY <1>4 DEF CreateUserTarget, EnsureTarget, CreateIndexTarget, NoCliFault, CliFault, Go, dwTables, dwHistory, Grows, ProcsOK
<1>5. ASSUME SaveV1(p) PROVE Grows
  BY <1>5 DEF SaveV1, EndCommand, Go, dwTables, dwHistory, Grows, ProcsOK
<1>6. ASSUME WriteRaw(p) PROVE Grows
  BY <1>6 DEF WriteRaw, NoCliFault, CliFault, Go, dwTables, dwHistory, Grows, ProcsOK
<1>7. ASSUME WriteMatches(p) PROVE Grows
  BY <1>7 DEF WriteMatches, NoCliFault, CliFault, Go, dwTables, dwHistory, Grows, ProcsOK
<1>8. ASSUME WriteCursor(p) PROVE Grows
  BY <1>8 DEF WriteCursor, EndCommand, Go, dwTables, dwHistory, Grows, ProcsOK
<1>9. ASSUME ResolveNetworks(p) PROVE Grows
  BY <1>9 DEF ResolveNetworks, NoCliFault, CliFault, Go, dwTables, dwHistory, Grows, ProcsOK
<1>10. ASSUME HealRaw(p) PROVE Grows
  BY <1>10 DEF HealRaw, NoCliFault, CliFault, Go, dwTables, dwHistory, Grows, ProcsOK
<1>11. ASSUME FindOwners(p) PROVE Grows
  BY <1>11 DEF FindOwners, NoCliFault, CliFault, Go, dwTables, dwHistory, Grows, ProcsOK
<1>12. ASSUME HealMatches(p) PROVE Grows
  BY <1>12 DEF HealMatches, NoCliFault, CliFault, Go, dwTables, dwHistory, Grows, ProcsOK
<1>13. ASSUME WriteSilver(p) PROVE Grows
  BY <1>13 DEF WriteSilver, NoCliFault, CliFault, Go, dwTables, dwHistory, Grows, ProcsOK
<1>14. ASSUME EndNormalize(p) PROVE Grows
  BY <1>14 DEF EndNormalize, EndCommand, Go, dwTables, dwHistory, Grows, ProcsOK
<1>15. ASSUME CrashCli(p) PROVE Grows
  BY <1>15 DEF CrashCli, EndCommand, Go, dwTables, dwHistory, Grows, ProcsOK
<1> QED
  BY <1>1, <1>2, <1>3, <1>4, <1>5, <1>6, <1>7, <1>8, <1>9, <1>10, <1>11, <1>12, <1>13, <1>14, <1>15 DEF CommandStep

LEMMA GrowsApi ==
    ASSUME ProcsOK, NEW n \in Networks \cup Foreign, NEW b \in Blocks, ApiIngest(n, b)
    PROVE  Grows /\ \A q \in Procs : LocalsOf(q)' = LocalsOf(q)
  BY DEF ApiIngest, Grows, LocalsOf, ProcsOK, dwLocals

-----------------------------------------------------------------------------
(* What stays true of a process while the others work *)

LEMMA RealStays ==
    ASSUME Grows, NEW r, Real(r)
    PROVE  Real(r)'
  BY DEF Grows, Real

\* Naming more networks only ends the promise.
LEMMA DefaultOnlyBefore ==
    ASSUME Grows, NEW w, DefaultOnly(w)'
    PROVE  DefaultOnly(w)
  BY DEF Grows, DefaultOnly

\* A process that keeps its command and its blocks still carries them.
LEMMA CarriesStays ==
    ASSUME ProcsOK, ProcsOK', Grows, NEW q \in Procs, ~ At(q, "idle"),
           cmd'[q] = cmd[q], seen'[q] = seen[q], Carries(q)
    PROVE  Carries(q)'
<1>1. PICK w \in Wallets : w = CmdWallet(q)
  BY DEF ProcsOK, CmdWallet
<1>2. CmdWallet(q)' = w
  BY <1>1 DEF CmdWallet
<1>3. SUFFICES ASSUME DefaultOnly(w)', NEW b \in Blocks, NEW c \in seen[q],
                      <<DefaultNetwork, w, b>> \in OnChain, origin'[w] <= b, b <= c
               PROVE  b \in seen[q] \/ <<w, b>> \in v1'
  BY <1>2 DEF Carries
<1>4. DefaultOnly(w)
  BY <1>3, DefaultOnlyBefore
<1>5. origin[w] <= b
  <2>1. origin[w] \in Nat /\ origin'[w] \in Nat /\ b \in Nat /\ origin[w] <= origin'[w]
    BY BlocksFinite DEF ProcsOK, Grows
  <2> QED
    BY <1>3, <2>1
<1>6. b \in seen[q] \/ <<w, b>> \in v1
  BY <1>1, <1>3, <1>4, <1>5 DEF Carries
<1> QED
  BY <1>6 DEF Grows

LEMMA RowsGrow ==
    ASSUME Grows, NEW n, NEW w, NEW o
    PROVE  Rows(n, w, o) \subseteq Rows(n, w, o)'
  BY DEF Grows, Rows

LEMMA IngestStays ==
    ASSUME ProcsOK, ProcsOK', Grows, NEW q \in Procs, cpc[q] \in Ingesting, IngestOK(q), LocalsOf(q)' = LocalsOf(q)
    PROVE  IngestOK(q)'
<1>1. /\ cpc'[q] = cpc[q] /\ cmd'[q] = cmd[q] /\ seen'[q] = seen[q] /\ tid'[q] = tid[q]
  BY DEF LocalsOf
<1>2. Stamp(q)' = Stamp(q) /\ CmdWallet(q)' = CmdWallet(q)
  BY <1>1 DEF Stamp, Option, CmdWallet
<1>3. Carries(q)'
  BY <1>1, CarriesStays DEF IngestOK, At, Ingesting
<1>4. PICK n, w : n = Stamp(q) /\ w = CmdWallet(q)
  OBVIOUS
<1>5. Rows(n, w, "user") \subseteq Rows(n, w, "user")'
  BY RowsGrow
<1>6. tid'[q] \in {NoTarget, Ghost} \cup Rows(n, w, "user")'
  BY <1>1, <1>4, <1>5 DEF IngestOK
<1>7. Rows(Stamp(q), CmdWallet(q), "user")' = Rows(n, w, "user")'
  BY <1>2, <1>4 DEF Rows
<1>8. RawOf(q)' = RawOf(q)
  BY <1>1, <1>2 DEF RawOf
<1> QED
  BY <1>1, <1>2, <1>3, <1>6, <1>7, <1>8 DEF IngestOK, Grows, At

LEMMA NormalizeStays ==
    ASSUME Grows, NEW q \in Procs, NormalizeOK(q), LocalsOf(q)' = LocalsOf(q)
    PROVE  NormalizeOK(q)'
<1>1. /\ cpc'[q] = cpc[q] /\ cmd'[q] = cmd[q] /\ seen'[q] = seen[q] /\ tid'[q] = tid[q]
      /\ ids'[q] = ids[q] /\ cliFault'[q] = cliFault[q]
  BY DEF LocalsOf
<1>2. /\ Option(q)' = Option(q) /\ CmdWallet(q)' = CmdWallet(q)
      /\ Resolved(q)' = Resolved(q) /\ Groups(q)' = Groups(q)
  BY <1>1 DEF Option, CmdWallet, Resolved, Groups
<1>3. At(q, "networks")' =>
          /\ \A b \in seen'[q] : <<CmdWallet(q)', b>> \in v1'
          /\ Option(q)' # NoNetwork => <<Option(q)', CmdWallet(q)'>> \in told'
  BY <1>1, <1>2 DEF NormalizeOK, At, Grows
<1>4. cpc'[q] \in {"owner", "owned", "silver", "done"} =>
          Resolved(q)' \subseteq raw' /\ (~cliFault'[q] => seen'[q] = {})
  BY <1>1, <1>2 DEF NormalizeOK, Grows
<1>5. ASSUME At(q, "owned")'
      PROVE  /\ tid'[q] = [n \in DOMAIN tid'[q] |-> tid'[q][n]]
             /\ DOMAIN tid'[q] \subseteq Networks \cup Foreign
             /\ \A n \in DOMAIN tid'[q] : tid'[q][n] \in {NoTarget} \cup Rows(n, CmdWallet(q), "none")'
             /\ ~cliFault'[q] => DOMAIN tid'[q] = Groups(q)'
  <2>1. At(q, "owned")
    BY <1>1, <1>5 DEF At
  <2>2. \A n \in DOMAIN tid[q] : tid[q][n] \in {NoTarget} \cup Rows(n, CmdWallet(q), "none")
    BY <2>1 DEF NormalizeOK
  <2>3. \A n : Rows(n, CmdWallet(q), "none") \subseteq Rows(n, CmdWallet(q), "none")'
    BY <1>2 DEF Rows, Grows
  <2> QED
    BY <1>1, <1>2, <2>1, <2>2, <2>3 DEF NormalizeOK
<1>6. ASSUME cpc'[q] \in {"silver", "done"}, ~cliFault'[q], NEW r \in ids'[q]
      PROVE  Matched(r, CmdWallet(q))'
  <2>1. Matched(r, CmdWallet(q))
    BY <1>1, <1>6 DEF NormalizeOK
  <2> QED
    BY <1>2, <2>1 DEF Matched, Grows
<1>7. At(q, "done")' /\ ~cliFault'[q] => ids'[q] \subseteq dwSilver'
  BY <1>1 DEF NormalizeOK, At, Grows
<1> QED
  BY <1>3, <1>4, <1>5, <1>6, <1>7 DEF NormalizeOK

-----------------------------------------------------------------------------
(* Types of the processes *)

LEMMA EndCommandType ==
    ASSUME ProcsOK, NEW p \in Procs, EndCommand(p), origin' = origin
    PROVE  ProcsOK'
<1>1. /\ cpc' \in [Procs -> {"idle"} \cup Ingesting \cup Normalizing]
      /\ cmd' = [q \in Procs |-> cmd'[q]] /\ tid' = [q \in Procs |-> tid'[q]]
      /\ seen' \in [Procs -> SUBSET Blocks]
      /\ ids' \in [Procs -> SUBSET ((Networks \cup Foreign) \X Blocks)]
      /\ cliFault' \in [Procs -> BOOLEAN]
      /\ origin' \in [Wallets -> Nat]
  BY DEF ProcsOK, EndCommand, Go
<1>2. \A q \in Procs : IF cpc'[q] = "idle" THEN cmd'[q] = <<>> /\ tid'[q] = NoTarget
                       ELSE cmd'[q] \in Wallets \X (Networks \cup {NoNetwork})
  BY DEF ProcsOK, EndCommand, Go, At
<1> QED
  BY <1>1, <1>2 DEF ProcsOK, At

\* A process that goes on keeps its command.
LEMMA GoType ==
    ASSUME ProcsOK, NEW p \in Procs, ~ At(p, "idle"), NEW l \in Ingesting \cup Normalizing, Go(p, l), cmd' = cmd,
           seen' \in [Procs -> SUBSET Blocks],
           ids' \in [Procs -> SUBSET ((Networks \cup Foreign) \X Blocks)],
           cliFault' \in [Procs -> BOOLEAN], origin' = origin,
           tid' = tid \/ \E t : tid' = [tid EXCEPT ![p] = t]
    PROVE  ProcsOK'
<1>1. l # "idle"
  BY DEF Ingesting, Normalizing
<1>2. /\ cpc' \in [Procs -> {"idle"} \cup Ingesting \cup Normalizing]
      /\ cmd' = [q \in Procs |-> cmd'[q]] /\ tid' = [q \in Procs |-> tid'[q]]
      /\ origin' \in [Wallets -> Nat]
  BY DEF ProcsOK, Go
<1>3. \A q \in Procs : IF cpc'[q] = "idle" THEN cmd'[q] = <<>> /\ tid'[q] = NoTarget
                       ELSE cmd'[q] \in Wallets \X (Networks \cup {NoNetwork})
  BY <1>1 DEF ProcsOK, Go, At
<1> QED
  BY <1>2, <1>3 DEF ProcsOK, At

\* The networks of a transaction are known ones.
LEMMA ResolveType ==
    ASSUME NEW opt \in Networks \cup {NoNetwork}, NEW bronze \in SUBSET (Networks \cup Foreign)
    PROVE  /\ ResolveNetwork(opt, bronze) \in SUBSET (Networks \cup Foreign)
           /\ opt = NoNetwork => ResolveNetwork(opt, bronze) \subseteq bronze
           /\ opt # NoNetwork => ResolveNetwork(opt, bronze) = {opt}
  BY DEF ResolveNetwork

LEMMA CliFaultType ==
    ASSUME ProcsOK, NEW p \in Procs, CliFault(p) \/ NoCliFault
    PROVE  cliFault' \in [Procs -> BOOLEAN]
  BY DEF ProcsOK, CliFault, NoCliFault

LEMMA ProcsStep ==
    ASSUME DwTypeOK, ProcsOK, NEW p \in Procs, CommandStep(p)
    PROVE  ProcsOK'
<1>1. ASSUME NEW w \in Wallets, NEW opt \in Networks \cup {NoNetwork}, StartIngest(p, w, opt) PROVE ProcsOK'
  <2>1. PICK cp \in ResumeFrom(w, opt), head \in Blocks :
            LET n == IF opt = NoNetwork THEN DefaultNetwork ELSE opt
                from == FirstBlock(cp, head)
            IN  /\ seen' = [seen EXCEPT ![p] = FetchHistory(n, w, from, head)]
                /\ origin' = IF n = DefaultNetwork /\ cp = NoCheckpoint /\ from > origin[w]
                             THEN [origin EXCEPT ![w] = from] ELSE origin
    BY <1>1 DEF StartIngest
  <2>2. FirstBlock(cp, head) \in Nat
    BY ResumeType, FirstBlockType
  <2>3. origin' \in [Wallets -> Nat]
    BY <2>1, <2>2 DEF ProcsOK
  <2>4. seen' \in [Procs -> SUBSET Blocks]
    BY <2>1 DEF ProcsOK, FetchHistory
  <2>5. /\ cpc' = [cpc EXCEPT ![p] = "lookup"] /\ cmd' = [cmd EXCEPT ![p] = <<w, opt>>]
        /\ tid' = tid /\ ids' = ids /\ cliFault' = cliFault
    BY <1>1 DEF StartIngest, Go
  <2>6. \A q \in Procs : IF cpc'[q] = "idle" THEN cmd'[q] = <<>> /\ tid'[q] = NoTarget
                         ELSE cmd'[q] \in Wallets \X (Networks \cup {NoNetwork})
    BY <2>5 DEF ProcsOK, At
  <2>7. /\ cpc' \in [Procs -> {"idle"} \cup Ingesting \cup Normalizing]
        /\ cmd' = [q \in Procs |-> cmd'[q]]
    BY <2>5 DEF ProcsOK, Ingesting
  <2> QED
    BY <2>3, <2>4, <2>5, <2>6, <2>7 DEF ProcsOK, At
<1>2. ASSUME NEW w \in Wallets, NEW opt \in Networks \cup {NoNetwork}, StartNormalize(p, w, opt) PROVE ProcsOK'
  <2>1. /\ cpc' = [cpc EXCEPT ![p] = "networks"] /\ cmd' = [cmd EXCEPT ![p] = <<w, opt>>]
        /\ seen' = [seen EXCEPT ![p] = Page(w)]
        /\ tid' = tid /\ ids' = ids /\ cliFault' = cliFault /\ origin' = origin
    BY <1>2 DEF StartNormalize, Go
  <2>2. seen' \in [Procs -> SUBSET Blocks]
    BY <2>1 DEF ProcsOK, Page
  <2>3. \A q \in Procs : IF cpc'[q] = "idle" THEN cmd'[q] = <<>> /\ tid'[q] = NoTarget
                         ELSE cmd'[q] \in Wallets \X (Networks \cup {NoNetwork})
    BY <2>1 DEF ProcsOK, At
  <2>4. /\ cpc' \in [Procs -> {"idle"} \cup Ingesting \cup Normalizing]
        /\ cmd' = [q \in Procs |-> cmd'[q]]
    BY <2>1 DEF ProcsOK, Normalizing
  <2> QED
    BY <2>1, <2>2, <2>3, <2>4 DEF ProcsOK, At
<1>3. ASSUME FindTarget(p) PROVE ProcsOK'
  <2>1. PICK l \in {"create", "v1"} : Go(p, l)
    BY <1>3 DEF FindTarget
  <2>2. l \in Ingesting \cup Normalizing /\ ~ At(p, "idle")
    BY <1>3, <2>1 DEF Ingesting, FindTarget, At
  <2>3. cliFault' \in [Procs -> BOOLEAN]
    BY <1>3, CliFaultType DEF FindTarget
  <2>4. /\ cmd' = cmd /\ seen' = seen /\ ids' = ids /\ origin' = origin
        /\ tid' = tid \/ \E t : tid' = [tid EXCEPT ![p] = t]
    BY <1>3 DEF FindTarget, dwHistory
  <2> QED
    BY <2>1, <2>2, <2>3, <2>4, GoType DEF ProcsOK
<1>4. ASSUME CreateUserTarget(p) PROVE ProcsOK'
  <2>1. Go(p, "v1") /\ "v1" \in Ingesting \cup Normalizing /\ ~ At(p, "idle")
    BY <1>4 DEF CreateUserTarget, EnsureTarget, Ingesting, At
  <2>2. cliFault' \in [Procs -> BOOLEAN]
    BY <1>4, CliFaultType DEF CreateUserTarget
  <2>3. /\ cmd' = cmd /\ seen' = seen /\ ids' = ids /\ origin' = origin
        /\ tid' = tid \/ \E t : tid' = [tid EXCEPT ![p] = t]
    BY <1>4 DEF CreateUserTarget, EnsureTarget, dwHistory
  <2> QED
    BY <2>1, <2>2, <2>3, GoType DEF ProcsOK
<1>5. ASSUME SaveV1(p) PROVE ProcsOK'
  <2>1. CASE EndCommand(p)
    BY <1>5, <2>1, EndCommandType DEF SaveV1, dwHistory
  <2>2. CASE Go(p, "raw") /\ UNCHANGED <<cmd, seen, tid, ids, cliFault>>
    <3>1. ~ At(p, "idle") /\ "raw" \in Ingesting \cup Normalizing /\ origin' = origin
      BY <1>5 DEF SaveV1, dwHistory, Ingesting, At
    <3> QED
      BY <2>2, <3>1, GoType DEF ProcsOK
  <2> QED
    BY <1>5, <2>1, <2>2 DEF SaveV1
<1>6. ASSUME WriteRaw(p) PROVE ProcsOK'
  <2>1. PICK l \in {"matches", "cursor"} : Go(p, l)
    BY <1>6 DEF WriteRaw
  <2>2. l \in Ingesting \cup Normalizing /\ ~ At(p, "idle")
    BY <1>6, <2>1 DEF Ingesting, WriteRaw, At
  <2>3. cliFault' \in [Procs -> BOOLEAN]
    BY <1>6, CliFaultType DEF WriteRaw
  <2> QED
    BY <1>6, <2>1, <2>2, <2>3, GoType DEF ProcsOK, WriteRaw, dwHistory
<1>7. ASSUME WriteMatches(p) PROVE ProcsOK'
  <2>1. Go(p, "cursor") /\ "cursor" \in Ingesting \cup Normalizing /\ ~ At(p, "idle")
    BY <1>7 DEF Ingesting, WriteMatches, At
  <2>2. cliFault' \in [Procs -> BOOLEAN]
    BY <1>7, CliFaultType DEF WriteMatches
  <2> QED
    BY <1>7, <2>1, <2>2, GoType DEF ProcsOK, WriteMatches, dwHistory
<1>8. ASSUME WriteCursor(p) PROVE ProcsOK'
  BY <1>8, EndCommandType DEF WriteCursor, dwHistory
<1>9. ASSUME ResolveNetworks(p) PROVE ProcsOK'
  <2>1. Go(p, "heal") /\ "heal" \in Ingesting \cup Normalizing /\ ~ At(p, "idle")
    BY <1>9 DEF Normalizing, ResolveNetworks, At
  <2>2. cliFault' \in [Procs -> BOOLEAN]
    BY <1>9, CliFaultType DEF ResolveNetworks
  <2>3. Option(p) \in Networks \cup {NoNetwork}
    BY <2>1 DEF ProcsOK, Option
  <2>4. \A found \in BOOLEAN, b \in seen[p] :
          ResolveNetwork(Option(p), IF found THEN BronzeNetworks(b) ELSE {}) \in SUBSET (Networks \cup Foreign)
    BY <2>3, ResolveType DEF BronzeNetworks
  <2>5. \E found \in BOOLEAN :
          ids' = [ids EXCEPT ![p] = UNION {ResolveNetwork(Option(p),
                               IF found THEN BronzeNetworks(b) ELSE {}) \X {b} : b \in seen[p]}]
    BY <1>9 DEF ResolveNetworks
  <2>6. ids' \in [Procs -> SUBSET ((Networks \cup Foreign) \X Blocks)]
    <3>1. PICK found \in BOOLEAN :
          ids' = [ids EXCEPT ![p] = UNION {ResolveNetwork(Option(p),
                               IF found THEN BronzeNetworks(b) ELSE {}) \X {b} : b \in seen[p]}]
      BY <2>5
    <3>2. UNION {ResolveNetwork(Option(p), IF found THEN BronzeNetworks(b) ELSE {}) \X {b} : b \in seen[p]}
             \in SUBSET ((Networks \cup Foreign) \X Blocks)
      BY <2>4 DEF ProcsOK
    <3> QED
      BY <3>1, <3>2 DEF ProcsOK
  <2> QED
    BY <1>9, <2>1, <2>2, <2>6, GoType DEF ProcsOK, ResolveNetworks, dwHistory
<1>10. ASSUME HealRaw(p) PROVE ProcsOK'
  <2>1. Go(p, "owner") /\ "owner" \in Ingesting \cup Normalizing /\ ~ At(p, "idle")
    BY <1>10 DEF Normalizing, HealRaw, At
  <2>2. cliFault' \in [Procs -> BOOLEAN]
    BY <1>10, CliFaultType DEF HealRaw
  <2>3. seen' = [seen EXCEPT ![p] = {}]
        \/ \E lost \in {ids[p], ids[p] \ raw} : seen' = [seen EXCEPT ![p] = {r[2] : r \in lost}]
    BY <1>10 DEF HealRaw
  <2>4. \A lost \in SUBSET ids[p] : {r[2] : r \in lost} \in SUBSET Blocks
    BY DEF ProcsOK
  <2>5. seen' \in [Procs -> SUBSET Blocks]
    BY <2>3, <2>4 DEF ProcsOK
  <2> QED
    BY <1>10, <2>1, <2>2, <2>5, GoType DEF ProcsOK, HealRaw, dwHistory
<1>11. ASSUME FindOwners(p) PROVE ProcsOK'
  <2>1. Go(p, "owned") /\ "owned" \in Ingesting \cup Normalizing /\ ~ At(p, "idle")
    BY <1>11 DEF Normalizing, FindOwners, At
  <2>2. cliFault' \in [Procs -> BOOLEAN]
    BY <1>11, CliFaultType DEF FindOwners
  <2>3. \E t : tid' = [tid EXCEPT ![p] = t]
    BY <1>11 DEF FindOwners
  <2> QED
    BY <1>11, <2>1, <2>2, <2>3, GoType DEF ProcsOK, FindOwners, dwHistory
<1>12. ASSUME HealMatches(p) PROVE ProcsOK'
  <2>1. Go(p, "silver") /\ "silver" \in Ingesting \cup Normalizing /\ ~ At(p, "idle")
    BY <1>12 DEF Normalizing, HealMatches, At
  <2>2. cliFault' \in [Procs -> BOOLEAN]
    BY <1>12, CliFaultType DEF HealMatches
  <2> QED
    BY <1>12, <2>1, <2>2, GoType DEF ProcsOK, HealMatches, dwHistory
<1>13. ASSUME WriteSilver(p) PROVE ProcsOK'
  <2>1. Go(p, "done") /\ "done" \in Ingesting \cup Normalizing /\ ~ At(p, "idle")
    BY <1>13 DEF Normalizing, WriteSilver, At
  <2>2. cliFault' \in [Procs -> BOOLEAN]
    BY <1>13, CliFaultType DEF WriteSilver
  <2> QED
    BY <1>13, <2>1, <2>2, GoType DEF ProcsOK, WriteSilver, dwHistory
<1>14. ASSUME EndNormalize(p) PROVE ProcsOK'
  BY <1>14, EndCommandType DEF EndNormalize, dwHistory
<1>15. ASSUME CrashCli(p) PROVE ProcsOK'
  BY <1>15, EndCommandType DEF CrashCli, dwHistory
<1> QED
  BY <1>1, <1>2, <1>3, <1>4, <1>5, <1>6, <1>7, <1>8, <1>9, <1>10, <1>11, <1>12, <1>13, <1>14, <1>15 DEF CommandStep

-----------------------------------------------------------------------------
(* Which statement writes which table *)

Writers(p) ==
    /\ (v1' = v1 /\ v1cp' = v1cp) \/ SaveV1(p)
    /\ raw' = raw \/ WriteRaw(p) \/ HealRaw(p)
    /\ targets' = targets \/ CreateUserTarget(p) \/ HealMatches(p)
    /\ matches' = matches \/ WriteMatches(p) \/ HealMatches(p)
    /\ v2cp' = v2cp \/ WriteCursor(p)
    /\ (dwSilver' = dwSilver /\ orphans' = orphans) \/ WriteSilver(p)
    /\ (named' = named /\ origin' = origin)
       \/ \E w \in Wallets, opt \in Networks \cup {NoNetwork} : StartIngest(p, w, opt)
    /\ ids' = ids \/ ids' = [ids EXCEPT ![p] = {}] \/ ResolveNetworks(p)

LEMMA WritersStep ==
    ASSUME NEW p \in Procs, CommandStep(p)
    PROVE  Writers(p)
<1>1. ASSUME NEW w \in Wallets, NEW opt \in Networks \cup {NoNetwork}, StartIngest(p, w, opt) PROVE Writers(p)
  BY <1>1 DEF StartIngest, Go, dwTables, Writers
<1>2. ASSUME NEW w \in Wallets, NEW opt \in Networks \cup {NoNetwork}, StartNormalize(p, w, opt) PROVE Writers(p)
  BY <1>2 DEF StartNormalize, Go, dwTables, Writers
<1>3. ASSUME FindTarget(p) PROVE Writers(p)
  BY <1>3 DEF FindTarget, NoCliFault, CliFault, Go, dwTables, dwHistory, Writers
<1>4. ASSUME CreateUserTarget(p) PROVE Writers(p)
  BY <1>4 DEF CreateUserTarget, EnsureTarget, CreateIndexTarget, NoCliFault, CliFault, Go, dwTables, dwHistory, Writers
<1>5. ASSUME SaveV1(p) PROVE Writers(p)
  BY <1>5 DEF SaveV1, EndCommand, Go, dwTables, dwHistory, Writers
<1>6. ASSUME WriteRaw(p) PROVE Writers(p)
  BY <1>6 DEF WriteRaw, NoCliFault, CliFault, Go, dwTables, dwHistory, Writers
<1>7. ASSUME WriteMatches(p) PROVE Writers(p)
  BY <1>7 DEF WriteMatches, NoCliFault, CliFault, Go, dwTables, dwHistory, Writers
<1>8. ASSUME WriteCursor(p) PROVE Writers(p)
  BY <1>8 DEF WriteCursor, EndCommand, Go, dwTables, dwHistory, Writers
<1>9. ASSUME ResolveNetworks(p) PROVE Writers(p)
  BY <1>9 DEF ResolveNetworks, NoCliFault, CliFault, Go, dwTables, dwHistory, Writers
<1>10. ASSUME HealRaw(p) PROVE Writers(p)
  BY <1>10 DEF HealRaw, NoCliFault, CliFault, Go, dwTables, dwHistory, Writers
<1>11. ASSUME FindOwners(p) PROVE Writers(p)
  BY <1>11 DEF FindOwners, NoCliFault, CliFault, Go, dwTables, dwHistory, Writers
<1>12. ASSUME HealMatches(p) PROVE Writers(p)
  BY <1>12 DEF HealMatches, NoCliFault, CliFault, Go, dwTables, dwHistory, Writers
<1>13. ASSUME WriteSilver(p) PROVE Writers(p)
  BY <1>13 DEF WriteSilver, NoCliFault, CliFault, Go, dwTables, dwHistory, Writers
<1>14. ASSUME EndNormalize(p) PROVE Writers(p)
  BY <1>14 DEF EndNormalize, EndCommand, Go, dwTables, dwHistory, Writers
<1>15. ASSUME CrashCli(p) PROVE Writers(p)
  BY <1>15 DEF CrashCli, EndCommand, Go, dwTables, dwHistory, Writers
<1> QED
  BY <1>1, <1>2, <1>3, <1>4, <1>5, <1>6, <1>7, <1>8, <1>9, <1>10, <1>11, <1>12, <1>13, <1>14, <1>15 DEF CommandStep

LEMMA RowsFinite ==
    ASSUME DwTypeOK, NEW n, NEW w, NEW o
    PROVE  IsFiniteSet(Rows(n, w, o)) /\ Cardinality(Rows(n, w, o)) \in Nat
<1> DEFINE C == {t[4] : t \in Rows(n, w, o)}
           f == [k \in C |-> <<n, w, o, k>>]
<1>1. Rows(n, w, o) \in SUBSET TargetRows
  BY DEF Rows, DwTypeOK
<1>2. C \in SUBSET Copies
  BY <1>1 DEF TargetRows
<1>3. IsFiniteSet(Copies)
  BY FS_Interval, FS_CardinalityType, DualWriteAssumption DEF Copies
<1>4. IsFiniteSet(C)
  BY <1>2, <1>3, FS_Subset
<1>5. \A t \in Rows(n, w, o) : t = <<n, w, o, t[4]>>
  BY <1>1 DEF TargetRows, Rows
<1>6. f \in Surjection(C, Rows(n, w, o))
  BY <1>5 DEF Surjection
<1>7. IsFiniteSet(Rows(n, w, o))
  BY <1>4, <1>6, FS_Surjection
<1> QED
  BY <1>7, FS_CardinalityType

LEMMA RawFinite == \A S \in SUBSET ((Networks \cup Foreign) \X Blocks) : IsFiniteSet(S) /\ Cardinality(S) \in Nat
<1>1. IsFiniteSet((Networks \cup Foreign) \X Blocks)
  BY BlocksFinite, FS_Product, DualWriteAssumption
<1> QED
  BY <1>1, FS_Subset, FS_CardinalityType

-----------------------------------------------------------------------------
(* Networks *)

LEMMA CommandIs ==
    ASSUME ProcsOK, NEW p \in Procs, ~ At(p, "idle")
    PROVE  /\ CmdWallet(p) \in Wallets /\ Option(p) \in Networks \cup {NoNetwork} /\ Stamp(p) \in Networks
           /\ cmd[p] # <<>>
  BY DualWriteAssumption DEF ProcsOK, CmdWallet, Option, Stamp

LEMMA RawIsReal ==
    ASSUME DwInv, NEW p \in Procs, CommandStep(p)
    PROVE  \A r \in raw' : Real(r)'
<1> SUFFICES ASSUME NEW r \in raw' PROVE Real(r)'
  OBVIOUS
<1>1. Grows
  BY GrowsStep DEF DwInv
<1>2. SUFFICES Real(r)
  BY <1>1, RealStays
<1>3. CASE r \in raw
  BY <1>3 DEF DwInv
<1>4. ASSUME WriteRaw(p), r \in RawOf(p) PROVE Real(r)
  <2>1. At(p, "raw") /\ IngestOK(p)
    BY <1>4 DEF WriteRaw, DwInv, Ingesting, At
  <2>2. CmdWallet(p) \in Wallets
    BY <2>1, CommandIs DEF DwInv, At
  <2>3. PICK b \in seen[p] : r = <<Stamp(p), b>>
    BY <1>4 DEF RawOf
  <2>4. <<Stamp(p), CmdWallet(p), b>> \in OnChain
    BY <2>1, <2>3 DEF IngestOK
  <2> QED
    BY <2>2, <2>3, <2>4 DEF Real
<1>5. ASSUME HealRaw(p), r \in ids[p] PROVE Real(r)
  BY <1>5 DEF DwInv
<1>6. \/ r \in raw
      \/ WriteRaw(p) /\ r \in RawOf(p)
      \/ HealRaw(p) /\ r \in ids[p]
  <2>1. CASE raw' = raw
    BY <2>1
  <2>2. CASE WriteRaw(p)
    BY <2>2 DEF WriteRaw
  <2>3. CASE HealRaw(p)
    BY <2>3 DEF HealRaw
  <2> QED
    BY <2>1, <2>2, <2>3, WritersStep DEF Writers
<1> QED
  BY <1>3, <1>4, <1>5, <1>6

\* What normalize resolved: a network the user named, or one with a Bronze row.
LEMMA ResolvedIsReal ==
    ASSUME DwInv, NEW p \in Procs, ResolveNetworks(p), NEW r \in ids'[p]
    PROVE  Real(r)
<1>1. At(p, "networks") /\ NormalizeOK(p)
  BY DEF ResolveNetworks, DwInv
<1>2. CmdWallet(p) \in Wallets /\ Option(p) \in Networks \cup {NoNetwork}
  BY <1>1, CommandIs DEF DwInv, At
<1>3. PICK found \in BOOLEAN :
          ids' = [ids EXCEPT ![p] = UNION {ResolveNetwork(Option(p),
                               IF found THEN BronzeNetworks(b) ELSE {}) \X {b} : b \in seen[p]}]
  BY DEF ResolveNetworks
<1>4. ids'[p] = UNION {ResolveNetwork(Option(p),
                               IF found THEN BronzeNetworks(b) ELSE {}) \X {b} : b \in seen[p]}
  BY <1>3 DEF DwInv, ProcsOK
<1>5. \E b \in seen[p] : \E bronze \in {BronzeNetworks(b), {}} :
          r \in ResolveNetwork(Option(p), bronze) \X {b}
  BY <1>4
<1>6. PICK b \in seen[p] : \E bronze \in {BronzeNetworks(b), {}} :
          r \in ResolveNetwork(Option(p), bronze) \X {b}
  BY <1>5
<1>7. PICK bronze \in {BronzeNetworks(b), {}} : r \in ResolveNetwork(Option(p), bronze) \X {b}
  BY <1>6
<1>8. bronze \in SUBSET (Networks \cup Foreign)
  BY <1>7 DEF BronzeNetworks
<1>9. r = <<r[1], b>> /\ r[1] \in ResolveNetwork(Option(p), bronze) /\ r[2] = b
  BY <1>7
<1>10. CASE Option(p) # NoNetwork
  <2>1. r[1] = Option(p)
    BY <1>2, <1>8, <1>9, <1>10, ResolveType
  <2>2. <<Option(p), CmdWallet(p)>> \in told /\ <<CmdWallet(p), b>> \in v1
    BY <1>1, <1>6, <1>10 DEF NormalizeOK
  <2> QED
    BY <1>2, <1>9, <2>1, <2>2 DEF Real
<1>11. CASE Option(p) = NoNetwork
  <2>1. r[1] \in bronze
    BY <1>2, <1>8, <1>9, <1>11, ResolveType
  <2>2. r \in raw
    BY <1>7, <1>9, <2>1 DEF BronzeNetworks
  <2> QED
    BY <2>2 DEF DwInv
<1> QED
  BY <1>10, <1>11

LEMMA IdsAreReal ==
    ASSUME DwInv, NEW p \in Procs, CommandStep(p)
    PROVE  \A q \in Procs : \A r \in ids'[q] : Real(r)'
<1> SUFFICES ASSUME NEW q \in Procs, NEW r \in ids'[q] PROVE Real(r)'
  OBVIOUS
<1>1. Grows
  BY GrowsStep DEF DwInv
<1>2. SUFFICES Real(r)
  BY <1>1, RealStays
<1>3. CASE r \in ids[q]
  BY <1>3 DEF DwInv
<1>4. CASE ResolveNetworks(p)
  <2>1. CASE q = p
    BY <1>4, <2>1, ResolvedIsReal
  <2>2. CASE q # p
    BY <2>2, <1>3, OtherProcs DEF DwInv, LocalsOf
  <2> QED
    BY <2>1, <2>2
<1>5. CASE ids' = ids
  BY <1>3, <1>5
<1>6. CASE ids' = [ids EXCEPT ![p] = {}]
  BY <1>3, <1>6 DEF DwInv, ProcsOK
<1> QED
  BY <1>4, <1>5, <1>6, WritersStep DEF Writers

-----------------------------------------------------------------------------
(* Targets *)

\* The target normalize uses for a network: the one it found, or a new one.
OwnerOf(p, n) ==
    IF tid[p][n] # NoTarget THEN tid[p][n] ELSE CreateIndexTarget(n, CmdWallet(p), "none")[2]

LEMMA HealIs ==
    ASSUME NEW p \in Procs, HealMatches(p)
    PROVE  /\ At(p, "owned") /\ Go(p, "silver")
           /\ \E gs \in SUBSET DOMAIN tid[p] :
                 /\ targets' = targets \cup {OwnerOf(p, n) : n \in gs}
                 /\ matches' = matches \cup {<<OwnerOf(p, r[1]), r>> : r \in {q \in Resolved(p) : q[1] \in gs}}
                 /\ IF gs = DOMAIN tid[p] THEN NoCliFault ELSE CliFault(p)
  BY DEF HealMatches, OwnerOf

LEMMA CreatorsFinite ==
    \A n, w : IsFiniteSet(Creators(n, w)) /\ Cardinality(Creators(n, w)) \in Nat
<1>1. \A n, w : Creators(n, w) \in SUBSET Procs
  BY DEF Creators
<1> QED
  BY <1>1, FS_Subset, FS_CardinalityType, DualWriteAssumption

\* An unowned row that is created has its own number.
LEMMA OwnerType ==
    ASSUME DwInv, NEW p \in Procs, At(p, "owned"), NEW n \in DOMAIN tid[p]
    PROVE  /\ OwnerOf(p, n) \in TargetRows
           /\ OwnerOf(p, n)[1] = n /\ OwnerOf(p, n)[2] = CmdWallet(p) /\ OwnerOf(p, n)[3] = "none"
           /\ OwnerOf(p, n) \in targets \/ (p \in Creators(n, CmdWallet(p)))
<1>1. /\ n \in Networks \cup Foreign
      /\ tid[p][n] \in {NoTarget} \cup Rows(n, CmdWallet(p), "none")
  BY DEF DwInv, NormalizeOK
<1>2. CmdWallet(p) \in Wallets
  BY CommandIs DEF DwInv, At
<1>3. CASE tid[p][n] # NoTarget
  <2>1. OwnerOf(p, n) \in Rows(n, CmdWallet(p), "none")
    BY <1>1, <1>3 DEF OwnerOf
  <2>2. targets \in SUBSET TargetRows
    BY DEF DwInv, DwTypeOK
  <2> QED
    BY <2>1, <2>2 DEF Rows
<1>4. CASE tid[p][n] = NoTarget
  <2> DEFINE k == Cardinality(Rows(n, CmdWallet(p), "none"))
             c == Cardinality(Creators(n, CmdWallet(p)))
             N == Cardinality(Procs)
  <2>1. OwnerOf(p, n) = <<n, CmdWallet(p), "none", k + 1>>
    BY <1>4 DEF OwnerOf, CreateIndexTarget
  <2>2. p \in Creators(n, CmdWallet(p))
    BY <1>4 DEF Creators
  <2>3. c \in Nat /\ c # 0
    BY <2>2, CreatorsFinite, FS_EmptySet
  <2>4. k \in Nat /\ N \in Nat
    BY RowsFinite, FS_CardinalityType, DualWriteAssumption DEF DwInv
  <2>5. k + c <= N
    BY <1>1, <1>2 DEF DwInv, CopiesOK
  <2>6. k + 1 \in Copies
    <3> HIDE DEF k, c
    <3> QED
      BY <2>3, <2>4, <2>5 DEF Copies
  <2> HIDE DEF k
  <2> QED
    BY <1>1, <1>2, <2>1, <2>2, <2>6 DEF TargetRows, Owners
<1> QED
  BY <1>3, <1>4

\* What create_index_target returns for the user.
LEMMA UserRow ==
    ASSUME DwInv, NEW p \in Procs, CreateUserTarget(p)
    PROVE  \/ /\ targets' = targets
              /\ tid' = tid \/ tid' = [tid EXCEPT ![p] = Ghost]
           \/ \E t \in TargetRows :
                 /\ t[1] = Stamp(p) /\ t[2] = CmdWallet(p) /\ t[3] = "user"
                 /\ targets' = targets \cup {t} /\ tid' = [tid EXCEPT ![p] = t]
<1>1. CASE UNCHANGED <<targets, tid>>
  BY <1>1
<1>2. CASE EnsureTarget(p, "user", "v1")
  <2>1. CASE Rows(Stamp(p), CmdWallet(p), "user") # {}
    BY <1>2, <2>1 DEF EnsureTarget, CreateIndexTarget
  <2>2. CASE Rows(Stamp(p), CmdWallet(p), "user") = {}
    <3>1. CmdWallet(p) \in Wallets /\ Stamp(p) \in Networks
      BY CommandIs DEF DwInv, At, CreateUserTarget
    <3>2. Cardinality(Rows(Stamp(p), CmdWallet(p), "user")) = 0
      BY <2>2, FS_EmptySet
    <3>3. Cardinality(Procs) \in Nat /\ Cardinality(Procs) # 0
      BY FS_CardinalityType, FS_EmptySet, DualWriteAssumption
    <3>4. 0 + 1 \in Copies
      BY <3>3 DEF Copies
    <3>5. <<Stamp(p), CmdWallet(p), "user", 0 + 1>> \in TargetRows
      BY <3>1, <3>4 DEF TargetRows, Owners
    <3>6. PICK t : t = <<Stamp(p), CmdWallet(p), "user", 0 + 1>>
      OBVIOUS
    <3>7. CreateIndexTarget(Stamp(p), CmdWallet(p), "user") = <<targets \cup {t}, t>>
      BY <2>2, <3>2, <3>6 DEF CreateIndexTarget
    <3>8. targets' = targets \cup {t} /\ tid' = [tid EXCEPT ![p] = t]
      <4>1. /\ targets' = CreateIndexTarget(Stamp(p), CmdWallet(p), "user")[1]
            /\ tid' = [tid EXCEPT ![p] = CreateIndexTarget(Stamp(p), CmdWallet(p), "user")[2]]
        BY <1>2, Zenon DEF EnsureTarget
      <4>2. /\ CreateIndexTarget(Stamp(p), CmdWallet(p), "user")[1] = targets \cup {t}
            /\ CreateIndexTarget(Stamp(p), CmdWallet(p), "user")[2] = t
        BY <3>7
      <4> QED
        BY <4>1, <4>2
    <3>9. t[1] = Stamp(p) /\ t[2] = CmdWallet(p) /\ t[3] = "user" /\ t \in TargetRows
      BY <3>5, <3>6
    <3> QED
      BY <3>8, <3>9
  <2> QED
    BY <2>1, <2>2
<1> QED
  BY <1>1, <1>2 DEF CreateUserTarget

-----------------------------------------------------------------------------
(* Types of the tables *)

LEMMA V1Type ==
    ASSUME DwInv, NEW p \in Procs, CommandStep(p)
    PROVE  v1' \subseteq Wallets \X Blocks /\ v1cp' \in [Wallets -> Nat \cup {NoCheckpoint}]
<1>1. CASE v1' = v1 /\ v1cp' = v1cp
  BY <1>1 DEF DwInv, DwTypeOK
<1>2. CASE SaveV1(p)
  <2>1. CmdWallet(p) \in Wallets /\ seen[p] \in SUBSET Blocks
    BY <1>2, CommandIs DEF DwInv, SaveV1, At, ProcsOK
  <2>2. seen[p] # {} => BuildCheckpoint(seen[p]) \in Nat
    BY <2>1, CheckpointType
  <2>3. \/ v1' = v1 /\ v1cp' = v1cp
        \/ /\ seen[p] # {}
           /\ v1' = v1 \cup ({CmdWallet(p)} \X seen[p])
           /\ v1cp' = [v1cp EXCEPT ![CmdWallet(p)] = BuildCheckpoint(seen[p])]
    BY <1>2 DEF SaveV1
  <2> QED
    BY <2>1, <2>2, <2>3 DEF DwInv, DwTypeOK
<1> QED
  BY <1>1, <1>2, WritersStep DEF Writers

LEMMA RawType ==
    ASSUME DwInv, NEW p \in Procs, CommandStep(p)
    PROVE  raw' \subseteq (Networks \cup Foreign) \X Blocks /\ dwSilver' \subseteq raw'
<1>1. raw' \subseteq (Networks \cup Foreign) \X Blocks
  <2>1. CASE raw' = raw
    BY <2>1 DEF DwInv, DwTypeOK
  <2>2. CASE WriteRaw(p)
    <3>1. Stamp(p) \in Networks /\ seen[p] \in SUBSET Blocks
      BY <2>2, CommandIs DEF DwInv, WriteRaw, At, ProcsOK
    <3> QED
      BY <2>2, <3>1 DEF WriteRaw, RawOf, DwInv, DwTypeOK
  <2>3. CASE HealRaw(p)
    <3>1. ids[p] \in SUBSET ((Networks \cup Foreign) \X Blocks)
      BY DEF DwInv, ProcsOK
    <3> QED
      BY <2>3, <3>1 DEF HealRaw, DwInv, DwTypeOK
  <2> QED
    BY <2>1, <2>2, <2>3, WritersStep DEF Writers
<1>2. raw \subseteq raw'
  BY GrowsStep DEF Grows, DwInv
<1>3. CASE dwSilver' = dwSilver
  BY <1>1, <1>2, <1>3 DEF DwInv, DwTypeOK
<1>4. CASE WriteSilver(p)
  <2>1. Resolved(p) \subseteq raw
    BY <1>4 DEF DwInv, NormalizeOK, WriteSilver, At
  <2> QED
    BY <1>1, <1>2, <1>4, <2>1 DEF WriteSilver, DwInv, DwTypeOK
<1> QED
  BY <1>1, <1>3, <1>4, WritersStep DEF Writers

LEMMA TargetsType ==
    ASSUME DwInv, NEW p \in Procs, CommandStep(p)
    PROVE  targets' \subseteq TargetRows
<1>0. targets \in SUBSET TargetRows
  BY DEF DwInv, DwTypeOK
<1>1. CASE targets' = targets
  BY <1>0, <1>1
<1>2. CASE CreateUserTarget(p)
  BY <1>0, <1>2, UserRow
<1>3. CASE HealMatches(p)
  <2>1. At(p, "owned")
    BY <1>3, HealIs
  <2>2. PICK gs \in SUBSET DOMAIN tid[p] : targets' = targets \cup {OwnerOf(p, n) : n \in gs}
    BY <1>3, HealIs
  <2>3. \A n \in gs : OwnerOf(p, n) \in TargetRows
    BY <2>1, <2>2, OwnerType
  <2> QED
    BY <1>0, <2>2, <2>3
<1> QED
  BY <1>1, <1>2, <1>3, WritersStep DEF Writers

LEMMA MatchesType ==
    ASSUME DwInv, NEW p \in Procs, CommandStep(p)
    PROVE  matches' \subseteq targets' \X raw'
<1>0. matches \in SUBSET (targets \X raw) /\ targets \subseteq targets' /\ raw \subseteq raw'
  BY GrowsStep DEF DwInv, DwTypeOK, Grows
<1>1. CASE matches' = matches
  BY <1>0, <1>1
<1>2. CASE WriteMatches(p)
  <2>1. IngestOK(p) /\ At(p, "matches")
    BY <1>2 DEF WriteMatches, DwInv, At, Ingesting
  <2>2. tid[p] # Ghost => tid[p] \in targets
    BY <2>1 DEF IngestOK, At, Rows
  <2>3. RawOf(p) \subseteq raw
    BY <2>1 DEF IngestOK
  <2>4. matches' = matches \/ (tid[p] # Ghost /\ matches' = matches \cup MatchesOf(p))
    BY <1>2 DEF WriteMatches
  <2> QED
    BY <1>0, <2>2, <2>3, <2>4 DEF MatchesOf
<1>3. CASE HealMatches(p)
  <2>1. PICK gs \in SUBSET DOMAIN tid[p] :
                 /\ targets' = targets \cup {OwnerOf(p, n) : n \in gs}
                 /\ matches' = matches \cup {<<OwnerOf(p, r[1]), r>> : r \in {q \in Resolved(p) : q[1] \in gs}}
    BY <1>3, HealIs
  <2>2. Resolved(p) \subseteq raw
    BY <1>3, HealIs DEF DwInv, NormalizeOK, At
  <2>3. \A n \in gs : OwnerOf(p, n) \in targets'
    BY <2>1
  <2> QED
    BY <1>0, <2>1, <2>2, <2>3
<1> QED
  BY <1>1, <1>2, <1>3, WritersStep DEF Writers

LEMMA CursorType ==
    ASSUME DwInv, NEW p \in Procs, CommandStep(p)
    PROVE  /\ v2cp' \in [TargetRows -> Nat \cup {NoCheckpoint}]
           /\ \A t \in TargetRows \ targets' : v2cp'[t] = NoCheckpoint
<1>0. targets \subseteq targets' /\ targets \subseteq TargetRows
  BY GrowsStep DEF DwInv, DwTypeOK, Grows
<1>1. CASE v2cp' = v2cp
  BY <1>0, <1>1 DEF DwInv, DwTypeOK
<1>2. CASE WriteCursor(p)
  <2>1. IngestOK(p) /\ At(p, "cursor")
    BY <1>2 DEF WriteCursor, DwInv, At, Ingesting
  <2>2. tid[p] # Ghost => tid[p] \in targets
    BY <2>1 DEF IngestOK, At, Rows
  <2>3. seen[p] \in SUBSET Blocks /\ seen[p] # {}
    BY <2>1 DEF IngestOK, At, DwInv, ProcsOK
  <2>4. CursorOf(p) \in Nat
    BY <2>3, CheckpointType DEF CursorOf
  <2>5. v2cp' = v2cp \/ (tid[p] # Ghost /\ v2cp' = [v2cp EXCEPT ![tid[p]] = CursorOf(p)])
    BY <1>2 DEF WriteCursor
  <2> QED
    BY <1>0, <2>2, <2>4, <2>5 DEF DwInv, DwTypeOK
<1> QED
  BY <1>1, <1>2, WritersStep DEF Writers

LEMMA OrphansType ==
    ASSUME DwInv, NEW p \in Procs, CommandStep(p)
    PROVE  orphans' \in [Blocks -> Nat]
<1>1. CASE orphans' = orphans
  BY <1>1 DEF DwInv, DwTypeOK
<1>2. CASE WriteSilver(p)
  <2>1. ids[p] \in SUBSET ((Networks \cup Foreign) \X Blocks)
    BY DEF DwInv, ProcsOK
  <2>2. \A b \in Blocks : Cardinality({r \in ids[p] : r[2] = b}) \in Nat
    <3>1. \A b \in Blocks : {r \in ids[p] : r[2] = b} \in SUBSET ((Networks \cup Foreign) \X Blocks)
      BY <2>1
    <3> QED
      BY <3>1, RawFinite
  <2>3. \A b \in Blocks : orphans[b] \in Nat
    BY DEF DwInv, DwTypeOK
  <2> QED
    <3>1. CASE orphans' = [b \in Blocks |->
                IF b \in seen[p] THEN orphans[b] + Cardinality({r \in ids[p] : r[2] = b}) ELSE orphans[b]]
      <4> DEFINE more(b) == Cardinality({r \in ids[p] : r[2] = b})
      <4>1. \A b \in Blocks : more(b) \in Nat
        BY <2>2
      <4>2. orphans' = [b \in Blocks |-> IF b \in seen[p] THEN orphans[b] + more(b) ELSE orphans[b]]
        BY <3>1
      <4> HIDE DEF more
      <4> QED
        BY <2>3, <4>1, <4>2
    <3> QED
      BY <1>1, <1>2, <3>1 DEF WriteSilver
<1> QED
  BY <1>1, <1>2, WritersStep DEF Writers

LEMMA TypesStep ==
    ASSUME DwInv, NEW p \in Procs, CommandStep(p)
    PROVE  DwTypeOK'
<1>1. ProcsOK'
  BY ProcsStep DEF DwInv
<1>2. \A q \in Procs : ids'[q] \subseteq (Networks \cup Foreign) \X Blocks /\ seen'[q] \subseteq Blocks
  BY <1>1 DEF ProcsOK
<1>3. \A q \in Procs : At(q, "idle")' <=> cmd'[q] = <<>>
  <2> SUFFICES ASSUME NEW q \in Procs PROVE cpc'[q] = "idle" <=> cmd'[q] = <<>>
    BY DEF At
  <2>1. cpc'[q] = "idle" => cmd'[q] = <<>>
    BY <1>1 DEF ProcsOK, At
  <2>2. cpc'[q] # "idle" => cmd'[q] \in Wallets \X (Networks \cup {NoNetwork})
    BY <1>1 DEF ProcsOK, At
  <2>3. \A x \in Wallets \X (Networks \cup {NoNetwork}) : x # <<>>
    OBVIOUS
  <2> QED
    BY <2>1, <2>2, <2>3
<1> QED
  <2>1. /\ v1' \subseteq Wallets \X Blocks /\ v1cp' \in [Wallets -> Nat \cup {NoCheckpoint}]
        /\ raw' \subseteq (Networks \cup Foreign) \X Blocks /\ dwSilver' \subseteq raw'
    BY V1Type, RawType
  <2>2. targets' \subseteq TargetRows /\ matches' \subseteq targets' \X raw'
    BY TargetsType, MatchesType
  <2>3. v2cp' \in [TargetRows -> Nat \cup {NoCheckpoint}] /\ orphans' \in [Blocks -> Nat]
    BY CursorType, OrphansType
  <2> QED
    BY <1>2, <1>3, <2>1, <2>2, <2>3, Zenon DEF DwTypeOK, At

-----------------------------------------------------------------------------
(* Copies of unowned targets *)

LEMMA OnlyFindOwners ==
    ASSUME ProcsOK, NEW p \in Procs, CommandStep(p)
    PROVE  FindOwners(p) \/ cpc'[p] # "owned"
<1>1. ASSUME NEW w \in Wallets, NEW opt \in Networks \cup {NoNetwork}, StartIngest(p, w, opt) PROVE FindOwners(p) \/ cpc'[p] # "owned"
  BY <1>1 DEF StartIngest, Go, dwTables, ProcsOK
<1>2. ASSUME NEW w \in Wallets, NEW opt \in Networks \cup {NoNetwork}, StartNormalize(p, w, opt) PROVE FindOwners(p) \/ cpc'[p] # "owned"
  BY <1>2 DEF StartNormalize, Go, dwTables, ProcsOK
<1>3. ASSUME FindTarget(p) PROVE FindOwners(p) \/ cpc'[p] # "owned"
  BY <1>3 DEF FindTarget, NoCliFault, CliFault, Go, dwTables, dwHistory, ProcsOK
<1>4. ASSUME CreateUserTarget(p) PROVE FindOwners(p) \/ cpc'[p] # "owned"
  BY <1>4 DEF CreateUserTarget, EnsureTarget, CreateIndexTarget, NoCliFault, CliFault, Go, dwTables, dwHistory, ProcsOK
<1>5. ASSUME SaveV1(p) PROVE FindOwners(p) \/ cpc'[p] # "owned"
  BY <1>5 DEF SaveV1, EndCommand, Go, dwTables, dwHistory, ProcsOK
<1>6. ASSUME WriteRaw(p) PROVE FindOwners(p) \/ cpc'[p] # "owned"
  BY <1>6 DEF WriteRaw, NoCliFault, CliFault, Go, dwTables, dwHistory, ProcsOK
<1>7. ASSUME WriteMatches(p) PROVE FindOwners(p) \/ cpc'[p] # "owned"
  BY <1>7 DEF WriteMatches, NoCliFault, CliFault, Go, dwTables, dwHistory, ProcsOK
<1>8. ASSUME WriteCursor(p) PROVE FindOwners(p) \/ cpc'[p] # "owned"
  BY <1>8 DEF WriteCursor, EndCommand, Go, dwTables, dwHistory, ProcsOK
<1>9. ASSUME ResolveNetworks(p) PROVE FindOwners(p) \/ cpc'[p] # "owned"
  BY <1>9 DEF ResolveNetworks, NoCliFault, CliFault, Go, dwTables, dwHistory, ProcsOK
<1>10. ASSUME HealRaw(p) PROVE FindOwners(p) \/ cpc'[p] # "owned"
  BY <1>10 DEF HealRaw, NoCliFault, CliFault, Go, dwTables, dwHistory, ProcsOK
<1>11. ASSUME FindOwners(p) PROVE FindOwners(p) \/ cpc'[p] # "owned"
  BY <1>11 DEF FindOwners, NoCliFault, CliFault, Go, dwTables, dwHistory, ProcsOK
<1>12. ASSUME HealMatches(p) PROVE FindOwners(p) \/ cpc'[p] # "owned"
  BY <1>12 DEF HealMatches, NoCliFault, CliFault, Go, dwTables, dwHistory, ProcsOK
<1>13. ASSUME WriteSilver(p) PROVE FindOwners(p) \/ cpc'[p] # "owned"
  BY <1>13 DEF WriteSilver, NoCliFault, CliFault, Go, dwTables, dwHistory, ProcsOK
<1>14. ASSUME EndNormalize(p) PROVE FindOwners(p) \/ cpc'[p] # "owned"
  BY <1>14 DEF EndNormalize, EndCommand, Go, dwTables, dwHistory, ProcsOK
<1>15. ASSUME CrashCli(p) PROVE FindOwners(p) \/ cpc'[p] # "owned"
  BY <1>15 DEF CrashCli, EndCommand, Go, dwTables, dwHistory, ProcsOK
<1> QED
  BY <1>1, <1>2, <1>3, <1>4, <1>5, <1>6, <1>7, <1>8, <1>9, <1>10, <1>11, <1>12, <1>13, <1>14, <1>15 DEF CommandStep

\* The other processes are creators as before.
LEMMA OtherCreators ==
    ASSUME ProcsOK, NEW p \in Procs, CommandStep(p), NEW q \in Procs, q # p, NEW n, NEW w
    PROVE  q \in Creators(n, w)' <=> q \in Creators(n, w)
<1>1. cpc'[q] = cpc[q] /\ cmd'[q] = cmd[q] /\ tid'[q] = tid[q]
  BY OtherProcs DEF LocalsOf
<1> QED
  BY <1>1 DEF Creators, At, CmdWallet

LEMMA UnownedRows ==
    ASSUME DwInv, NEW p \in Procs, CommandStep(p), ~ HealMatches(p), NEW n, NEW w
    PROVE  Rows(n, w, "none")' = Rows(n, w, "none")
<1>1. CASE targets' = targets
  BY <1>1 DEF Rows
<1>2. CASE CreateUserTarget(p)
  <2>1. targets' = targets \/ \E t : t[3] = "user" /\ targets' = targets \cup {t}
    BY <1>2, UserRow
  <2> QED
    BY <2>1 DEF Rows
<1> QED
  BY <1>1, <1>2, WritersStep DEF Writers

LEMMA CopiesBound ==
    ASSUME NEW R, NEW C, IsFiniteSet(R), IsFiniteSet(C), NEW S \in SUBSET R, NEW D \in SUBSET C,
           NEW N \in Nat, Cardinality(R) + Cardinality(C) <= N
    PROVE  Cardinality(S) + Cardinality(D) <= N
<1>1. /\ Cardinality(R) \in Nat /\ Cardinality(C) \in Nat
      /\ Cardinality(S) \in Nat /\ Cardinality(D) \in Nat
      /\ Cardinality(S) <= Cardinality(R) /\ Cardinality(D) <= Cardinality(C)
  BY FS_Subset, FS_CardinalityType
<1> QED
  BY <1>1

LEMMA CopiesStep ==
    ASSUME DwInv, NEW p \in Procs, CommandStep(p)
    PROVE  CopiesOK'
<1>0. SUFFICES ASSUME NEW n \in Networks \cup Foreign, NEW w \in Wallets,
                      NEW R, R = Rows(n, w, "none"), NEW S, S = Rows(n, w, "none")',
                      NEW C, C = Creators(n, w), NEW D, D = Creators(n, w)',
                      NEW N, N = Cardinality(Procs)
               PROVE  Cardinality(S) + Cardinality(D) <= N
  BY DEF CopiesOK
<1>1. /\ IsFiniteSet(R) /\ IsFiniteSet(C) /\ N \in Nat /\ Cardinality(R) + Cardinality(C) <= N
      /\ Cardinality(R) \in Nat /\ Cardinality(C) \in Nat
  BY <1>0, RowsFinite, CreatorsFinite, FS_CardinalityType, DualWriteAssumption DEF DwInv, CopiesOK
<1>2. \A q \in Procs : q # p => (q \in D <=> q \in C)
  BY <1>0, OtherCreators DEF DwInv
<1>3. C \in SUBSET Procs /\ D \in SUBSET Procs
  BY <1>0 DEF Creators
<1>4. CASE p \notin D /\ ~ HealMatches(p)
  <2>1. D \in SUBSET C
    BY <1>2, <1>3, <1>4
  <2>2. S = R
    BY <1>4, <1>0, UnownedRows
  <2> QED
    BY <1>1, <2>1, <2>2, CopiesBound
<1>5. CASE p \in D /\ ~ HealMatches(p)
  <2>1. S = R
    BY <1>5, <1>0, UnownedRows
  <2>2. FindOwners(p)
    BY <1>0, <1>5, OnlyFindOwners DEF DwInv, Creators, At
  <2>3. cmd' = cmd /\ tid = [q \in Procs |-> tid[q]]
    BY <2>2 DEF FindOwners, DwInv, ProcsOK
  <2>4. PICK gs, t : /\ t \in [gs -> targets \cup {NoTarget}]
                     /\ \A m \in gs : t[m] \in Lookup(m, CmdWallet(p), "none")
                     /\ tid' = [tid EXCEPT ![p] = t]
    BY <2>2 DEF FindOwners
  <2>5. tid'[p] = t
    BY <2>3, <2>4
  <2>6. n \in gs /\ t[n] = NoTarget /\ CmdWallet(p) = w
    BY <1>0, <1>5, <2>3, <2>4, <2>5 DEF Creators, CmdWallet
  <2>7. NoTarget \in Lookup(n, w, "none")
    BY <2>4, <2>6
  <2>8. NoTarget \notin R
    BY <1>0 DEF DwInv, DwTypeOK, Rows, TargetRows, NoTarget
  <2>9. R = {}
    BY <1>0, <2>7, <2>8 DEF Lookup
  <2>10. Cardinality(R) = 0
    BY <2>9, FS_EmptySet
  <2>11. Cardinality(D) <= N /\ Cardinality(D) \in Nat
    BY <1>0, <1>3, FS_Subset, FS_CardinalityType, DualWriteAssumption
  <2> QED
    BY <1>1, <2>1, <2>10, <2>11
<1>6. CASE HealMatches(p)
  <2>1. At(p, "owned") /\ Go(p, "silver")
    BY <1>6, HealIs
  <2>2. PICK gs \in SUBSET DOMAIN tid[p] : targets' = targets \cup {OwnerOf(p, m) : m \in gs}
    BY <1>6, HealIs
  <2>3. p \notin D
    BY <1>0, <2>1 DEF Go, DwInv, ProcsOK, Creators, At
  <2>4. D \in SUBSET (C \ {p})
    BY <1>2, <1>3, <2>3
  <2>5. \A m \in gs : /\ OwnerOf(p, m)[1] = m /\ OwnerOf(p, m)[2] = CmdWallet(p)
                      /\ OwnerOf(p, m) \in targets \/ p \in Creators(m, CmdWallet(p))
    BY <2>1, <2>2, OwnerType
  <2>6. CASE S \in SUBSET R
    <3>1. D \in SUBSET C
      BY <2>4
    <3> QED
      BY <1>1, <2>6, <3>1, CopiesBound
  <2>7. CASE p \in C /\ S \in SUBSET (R \cup {OwnerOf(p, n)})
    <3> DEFINE T == R \cup {OwnerOf(p, n)}
               E == C \ {p}
    <3>1. IsFiniteSet(T) /\ Cardinality(T) \in Nat /\ Cardinality(T) <= Cardinality(R) + 1
      <4>1. IsFiniteSet(T) /\ (Cardinality(T) = Cardinality(R) \/ Cardinality(T) = Cardinality(R) + 1)
        BY <1>1, FS_AddElement
      <4> QED
        BY <1>1, <4>1
    <3>2. IsFiniteSet(E) /\ Cardinality(E) = Cardinality(C) - 1 /\ Cardinality(E) \in Nat
      BY <1>1, <2>7, FS_RemoveElement, FS_CardinalityType
    <3>3. Cardinality(T) + Cardinality(E) <= N
      BY <1>1, <3>1, <3>2
    <3>4. S \in SUBSET T /\ D \in SUBSET E
      BY <2>4, <2>7
    <3> HIDE DEF T, E
    <3> QED
      BY <1>1, <3>1, <3>2, <3>3, <3>4, CopiesBound
  <2>8. S \in SUBSET R \/ (p \in C /\ S \in SUBSET (R \cup {OwnerOf(p, n)}))
    <3>1. ASSUME NEW x \in S, x \notin R PROVE x = OwnerOf(p, n) /\ p \in C
      <4>1. PICK m \in gs : x = OwnerOf(p, m)
        BY <1>0, <2>2, <3>1 DEF Rows
      <4>2. x[1] = n /\ x[2] = w /\ x \notin targets
        BY <1>0, <3>1 DEF Rows
      <4>3. m = n /\ CmdWallet(p) = w
        BY <2>5, <4>1, <4>2
      <4> QED
        BY <1>0, <2>5, <4>1, <4>2, <4>3
    <3> QED
      BY <3>1
  <2> QED
    BY <2>6, <2>7, <2>8
<1> QED
  BY <1>4, <1>5, <1>6

-----------------------------------------------------------------------------
(* Checkpoints and V1 *)

LEMMA CheckpointSays ==
    ASSUME CheckpointIsInV1, NEW w \in Wallets, DefaultOnly(w), NEW b \in Blocks,
           <<DefaultNetwork, w, b>> \in OnChain, origin[w] <= b
    PROVE  /\ b <= v1cp[w] => <<w, b>> \in v1
           /\ \A t \in targets : t[1] = DefaultNetwork /\ t[2] = w /\ b <= v2cp[t] => <<w, b>> \in v1
  BY DEF CheckpointIsInV1, DefaultOnly

\* What is below the checkpoint an ingest computes was fetched, or is in V1.
LEMMA BelowCheckpoint ==
    ASSUME DwInv, NEW p \in Procs, cpc[p] \in Ingesting, seen[p] # {}, DefaultOnly(CmdWallet(p)),
           NEW b \in Blocks, <<DefaultNetwork, CmdWallet(p), b>> \in OnChain, origin[CmdWallet(p)] <= b,
           b <= BuildCheckpoint(seen[p])
    PROVE  b \in seen[p] \/ <<CmdWallet(p), b>> \in v1
<1>1. seen[p] \in SUBSET Blocks
  BY DEF DwInv, ProcsOK
<1>2. Carries(p)
  BY DEF DwInv, IngestOK
<1>3. b > 0 /\ b \in Nat /\ seen[p] \in SUBSET Nat
  BY <1>1, BlocksFinite
<1>4. PICK k \in Nat : k = BuildCheckpoint(seen[p]) /\ (k = 0 \/ \E c \in seen[p] : k <= c)
  BY <1>1, CheckpointType
<1>5. PICK c \in seen[p] : k <= c
  BY <1>3, <1>4
<1>6. b <= c
  BY <1>3, <1>4, <1>5
<1> QED
  BY <1>2, <1>6 DEF Carries

LEMMA CheckpointStep ==
    ASSUME DwInv, NEW p \in Procs, CommandStep(p)
    PROVE  CheckpointIsInV1'
<1>0. Grows /\ ProcsOK' /\ DwTypeOK'
  BY GrowsStep, ProcsStep, TypesStep DEF DwInv
<1>1. SUFFICES ASSUME NEW w \in Wallets, DefaultOnly(w)', NEW b \in Blocks,
                      <<DefaultNetwork, w, b>> \in OnChain, origin'[w] <= b
               PROVE  /\ b <= v1cp'[w] => <<w, b>> \in v1'
                      /\ \A t \in targets' : t[1] = DefaultNetwork /\ t[2] = w /\ b <= v2cp'[t] => <<w, b>> \in v1'
  BY DEF CheckpointIsInV1, DefaultOnly
<1>2. DefaultOnly(w)
  BY <1>0, <1>1, DefaultOnlyBefore
<1>3. origin[w] \in Nat /\ origin'[w] \in Nat /\ origin[w] <= origin'[w] /\ b \in Nat /\ b > 0
  BY <1>0, BlocksFinite DEF DwInv, ProcsOK, Grows
<1>4. origin[w] <= b
  BY <1>1, <1>3
<1>5. /\ b <= v1cp[w] => <<w, b>> \in v1
      /\ \A t \in targets : t[1] = DefaultNetwork /\ t[2] = w /\ b <= v2cp[t] => <<w, b>> \in v1
  BY <1>1, <1>2, <1>4, CheckpointSays DEF DwInv
<1>6. v1 \subseteq v1'
  BY <1>0 DEF Grows
<1>7. b <= v1cp'[w] => <<w, b>> \in v1'
  <2>1. CASE v1cp'[w] = v1cp[w]
    BY <1>5, <1>6, <2>1
  <2>2. ASSUME SaveV1(p), v1cp'[w] # v1cp[w], b <= v1cp'[w] PROVE <<w, b>> \in v1'
    <3>1. /\ seen[p] # {}
          /\ v1' = v1 \cup ({CmdWallet(p)} \X seen[p])
          /\ v1cp' = [v1cp EXCEPT ![CmdWallet(p)] = BuildCheckpoint(seen[p])]
      BY <2>2 DEF SaveV1
    <3>2. v1cp \in [Wallets -> Nat \cup {NoCheckpoint}]
      BY DEF DwInv, DwTypeOK
    <3>3. w = CmdWallet(p) /\ v1cp'[w] = BuildCheckpoint(seen[p])
      BY <2>2, <3>1, <3>2
    <3>4. cpc[p] \in Ingesting
      BY <2>2 DEF SaveV1, At, Ingesting
    <3>5. b \in seen[p] \/ <<w, b>> \in v1
      BY <1>1, <1>2, <1>4, <2>2, <3>1, <3>3, <3>4, BelowCheckpoint
    <3> QED
      BY <3>1, <3>3, <3>5
  <2> QED
    BY <2>1, <2>2, WritersStep DEF Writers
<1>8. ASSUME NEW t \in targets', t[1] = DefaultNetwork, t[2] = w, b <= v2cp'[t]
      PROVE  <<w, b>> \in v1'
  <2>0. t \in TargetRows
    BY <1>0, <1>8 DEF DwTypeOK
  <2>1. CASE v2cp'[t] = v2cp[t]
    <3>1. CASE t \in targets
      BY <1>5, <1>6, <1>8, <2>1, <3>1
    <3>2. CASE t \notin targets
      <4>1. v2cp[t] = NoCheckpoint
        BY <2>0, <3>2 DEF DwInv
      <4> QED
        BY <1>3, <1>8, <2>1, <4>1 DEF NoCheckpoint
    <3> QED
      BY <3>1, <3>2
  <2>2. CASE WriteCursor(p) /\ v2cp'[t] # v2cp[t]
    <3>1. v2cp' = [v2cp EXCEPT ![tid[p]] = CursorOf(p)] /\ tid[p] # Ghost
      BY <2>2 DEF WriteCursor
    <3>2. v2cp \in [TargetRows -> Nat \cup {NoCheckpoint}]
      BY DEF DwInv, DwTypeOK
    <3>3. t = tid[p] /\ v2cp'[t] = BuildCheckpoint(seen[p])
      BY <2>0, <2>2, <3>1, <3>2 DEF CursorOf
    <3>4. IngestOK(p) /\ At(p, "cursor") /\ cpc[p] \in Ingesting
      BY <2>2 DEF WriteCursor, DwInv, At, Ingesting
    <3>5. t \in Rows(Stamp(p), CmdWallet(p), "user") /\ seen[p] # {}
      BY <3>1, <3>3, <3>4 DEF IngestOK, At
    <3>6. CmdWallet(p) = w
      BY <1>8, <3>5 DEF Rows
    <3>7. b \in seen[p] \/ <<w, b>> \in v1
      BY <1>1, <1>2, <1>4, <1>8, <3>3, <3>4, <3>5, <3>6, BelowCheckpoint
    <3>8. \A c \in seen[p] : <<w, c>> \in v1
      BY <3>4, <3>6 DEF IngestOK, At
    <3> QED
      BY <1>6, <3>7, <3>8
  <2> QED
    BY <2>1, <2>2, WritersStep DEF Writers
<1> QED
  BY <1>7, <1>8

-----------------------------------------------------------------------------
(* The statements of an ingest *)

\* An ingest that starts continues where V1 ends.
LEMMA StartCarries ==
    ASSUME DwInv, NEW p \in Procs, NEW w \in Wallets, NEW opt \in Networks \cup {NoNetwork}, StartIngest(p, w, opt)
    PROVE  IngestOK(p)'
<1> DEFINE n == IF opt = NoNetwork THEN DefaultNetwork ELSE opt
<1>0. Grows /\ ProcsOK'
  BY GrowsStep, ProcsStep DEF DwInv, CommandStep
<1>1. PICK cp \in ResumeFrom(w, opt), head \in Blocks :
          /\ seen' = [seen EXCEPT ![p] = FetchHistory(n, w, FirstBlock(cp, head), head)]
          /\ origin' = IF n = DefaultNetwork /\ cp = NoCheckpoint /\ FirstBlock(cp, head) > origin[w]
                       THEN [origin EXCEPT ![w] = FirstBlock(cp, head)] ELSE origin
  BY DEF StartIngest
<1>2. PICK from \in Nat : from = FirstBlock(cp, head)
  BY ResumeType, FirstBlockType DEF DwInv
<1>3. /\ At(p, "idle") /\ cpc'[p] = "lookup" /\ cmd'[p] = <<w, opt>> /\ named' = named \cup {<<n, w>>}
      /\ tid'[p] = NoTarget /\ seen'[p] = FetchHistory(n, w, from, head)
      /\ v1' = v1
  BY <1>1, <1>2 DEF StartIngest, Go, dwTables, DwInv, ProcsOK
<1>4. CmdWallet(p)' = w /\ Stamp(p)' = n /\ n \in Networks
  BY <1>3, DualWriteAssumption DEF CmdWallet, Stamp, Option
<1>5. head \in Nat /\ origin[w] \in Nat /\ origin'[w] \in Nat /\ origin[w] <= origin'[w]
  BY <1>0, BlocksFinite DEF DwInv, ProcsOK, Grows
<1>6. cp = NoCheckpoint /\ n = DefaultNetwork => origin'[w] >= from
  <2>1. origin \in [Wallets -> Nat]
    BY DEF DwInv, ProcsOK
  <2> QED
    BY <1>1, <1>2, <1>5, <2>1
<1>7. cp # NoCheckpoint => cp \in Nat /\ from = cp + 1
  BY <1>2, ResumeType DEF FirstBlock, DwInv
<1>8. ASSUME DefaultOnly(w)', NEW b \in Blocks, NEW c \in seen'[p],
             <<DefaultNetwork, w, b>> \in OnChain, origin'[w] <= b, b <= c
      PROVE  b \in seen'[p] \/ <<w, b>> \in v1'
  <2>1. n = DefaultNetwork
    BY <1>3, <1>4, <1>8 DEF DefaultOnly
  <2>2. b \in Nat /\ c \in Nat /\ c <= head
    BY <1>0, <1>3, <1>8, BlocksFinite DEF FetchHistory, ProcsOK
  <2>3. b <= head /\ origin[w] <= b
    BY <1>5, <1>8, <2>2
  <2>4. CASE from <= b
    BY <1>3, <1>8, <2>1, <2>3, <2>4 DEF FetchHistory
  <2>5. CASE b < from
    <3>1. cp # NoCheckpoint
      BY <1>5, <1>6, <1>8, <2>1, <2>2, <2>5
    <3>2. cp \in Nat /\ b <= cp
      BY <1>7, <2>2, <2>5, <3>1
    <3>3. DefaultOnly(w)
      BY <1>0, <1>8, DefaultOnlyBefore
    <3>4. /\ b <= v1cp[w] => <<w, b>> \in v1
          /\ \A t \in targets : t[1] = DefaultNetwork /\ t[2] = w /\ b <= v2cp[t] => <<w, b>> \in v1
      BY <1>8, <2>3, <3>3, CheckpointSays DEF DwInv
    <3>5. CASE opt = NoNetwork
      <4>1. cp = v1cp[w]
        BY <1>1, <3>5 DEF ResumeFrom, ResumeV1
      <4> QED
        BY <1>3, <3>2, <3>4, <4>1
    <3>6. CASE opt # NoNetwork
      <4>1. PICK t \in Lookup(DefaultNetwork, w, "none") : cp = ResumeV2(t)
        BY <1>1, <2>1, <3>6 DEF ResumeFrom
      <4>2. t # NoTarget /\ cp = v2cp[t]
        BY <3>1, <4>1 DEF ResumeV2
      <4>3. t \in targets /\ t[1] = DefaultNetwork /\ t[2] = w
        BY <4>1, <4>2 DEF Lookup, Rows
      <4> QED
        BY <1>3, <3>2, <3>4, <4>2, <4>3
    <3> QED
      BY <3>5, <3>6
  <2> QED
    BY <2>2, <2>4, <2>5
<1>9. Carries(p)'
  BY <1>4, <1>8 DEF Carries
<1>10. \A b \in seen'[p] : <<n, w, b>> \in OnChain
  BY <1>3 DEF FetchHistory
<1>11. <<n, w>> \in named' /\ cpc'[p] \notin {"raw", "matches", "cursor"}
  BY <1>3
<1> HIDE DEF n
<1> QED
  BY <1>3, <1>4, <1>9, <1>10, <1>11 DEF IngestOK, At

\* An ingest that goes on with its command and its blocks.
LEMMA IngestGoes ==
    ASSUME DwInv, ProcsOK', Grows, NEW p \in Procs, cpc[p] \in Ingesting, cmd'[p] = cmd[p], seen'[p] = seen[p],
           tid'[p] \in {NoTarget, Ghost} \cup Rows(Stamp(p), CmdWallet(p), "user")',
           cpc'[p] \in {"raw", "matches", "cursor"} =>
              tid'[p] # NoTarget /\ seen[p] # {} /\ \A b \in seen[p] : <<CmdWallet(p), b>> \in v1',
           cpc'[p] = "matches" => RawOf(p) \subseteq raw'
    PROVE  IngestOK(p)'
<1>1. IngestOK(p) /\ ~ At(p, "idle")
  BY DEF DwInv, Ingesting, At
<1>2. CmdWallet(p)' = CmdWallet(p) /\ Stamp(p)' = Stamp(p) /\ RawOf(p)' = RawOf(p)
  BY DEF CmdWallet, Stamp, Option, RawOf
<1>3. Carries(p)'
  BY <1>1, CarriesStays DEF IngestOK, DwInv
<1>4. <<Stamp(p), CmdWallet(p)>> \in named'
  BY <1>1 DEF IngestOK, Grows
<1>5. \A b \in seen[p] : <<Stamp(p), CmdWallet(p), b>> \in OnChain
  BY <1>1 DEF IngestOK
<1> QED
  BY <1>2, <1>3, <1>4, <1>5 DEF IngestOK, At

\* Where a statement leads.
LEMMA EndsIdle ==
    ASSUME ProcsOK, NEW p \in Procs, EndCommand(p)
    PROVE  cpc'[p] = "idle"
  BY DEF ProcsOK, EndCommand, Go

LEMMA GoesTo ==
    ASSUME ProcsOK, NEW p \in Procs, NEW l, Go(p, l)
    PROVE  cpc'[p] = l
  BY DEF ProcsOK, Go

LEMMA IngestOwn ==
    ASSUME DwInv, NEW p \in Procs, CommandStep(p), cpc'[p] \in Ingesting
    PROVE  IngestOK(p)'
<1>0. Grows /\ ProcsOK' /\ ProcsOK
  BY GrowsStep, ProcsStep DEF DwInv
<1>n. \A l \in {"idle"} \cup Normalizing : cpc'[p] # l
  BY DEF Ingesting, Normalizing
<1>r. ASSUME cmd'[p] = cmd[p], NEW t \in targets', t[1] = Stamp(p), t[2] = CmdWallet(p), t[3] = "user"
      PROVE  t \in Rows(Stamp(p), CmdWallet(p), "user")'
  BY <1>r DEF Rows, Stamp, CmdWallet, Option
<1>k. ASSUME cmd'[p] = cmd[p], cpc[p] \in Ingesting, tid'[p] = tid[p]
      PROVE  tid'[p] \in {NoTarget, Ghost} \cup Rows(Stamp(p), CmdWallet(p), "user")'
  <2>1. tid[p] \in {NoTarget, Ghost} \cup Rows(Stamp(p), CmdWallet(p), "user")
    BY <1>k DEF DwInv, IngestOK
  <2> QED
    BY <1>0, <1>k, <1>r, <2>1 DEF Rows, Grows
<1>1. ASSUME NEW w \in Wallets, NEW opt \in Networks \cup {NoNetwork}, StartIngest(p, w, opt) PROVE IngestOK(p)'
  BY <1>1, StartCarries
<1>2. ASSUME NEW w \in Wallets, NEW opt \in Networks \cup {NoNetwork}, StartNormalize(p, w, opt) PROVE FALSE
  BY <1>0, <1>2, <1>n, GoesTo DEF StartNormalize, Normalizing
<1>3. ASSUME FindTarget(p) PROVE IngestOK(p)'
  <2>1. cpc[p] \in Ingesting /\ cmd' = cmd /\ seen' = seen /\ targets' = targets
    BY <1>3 DEF FindTarget, At, Ingesting, dwTables
  <2>2. cpc'[p] \notin {"raw", "matches", "cursor"}
    BY <1>0, <1>3, GoesTo DEF FindTarget
  <2>3. tid'[p] \in {NoTarget, Ghost} \cup Rows(Stamp(p), CmdWallet(p), "user")'
    <3>1. CASE tid' = tid
      BY <1>k, <2>1, <3>1
    <3>2. ASSUME NEW t \in Lookup(Stamp(p), CmdWallet(p), "user"), tid' = [tid EXCEPT ![p] = t]
          PROVE  tid'[p] \in {NoTarget, Ghost} \cup Rows(Stamp(p), CmdWallet(p), "user")'
      <4>1. tid'[p] = t
        BY <1>0, <3>2 DEF ProcsOK
      <4>2. t = NoTarget \/ t \in Rows(Stamp(p), CmdWallet(p), "user")
        BY <3>2 DEF Lookup
      <4> QED
        BY <1>r, <2>1, <4>1, <4>2 DEF Rows
    <3> QED
      BY <1>3, <3>1, <3>2 DEF FindTarget
  <2> QED
    BY <1>0, <2>1, <2>2, <2>3, IngestGoes
<1>4. ASSUME CreateUserTarget(p) PROVE IngestOK(p)'
  <2>1. cpc[p] \in Ingesting /\ cmd' = cmd /\ seen' = seen
    BY <1>4 DEF CreateUserTarget, At, Ingesting
  <2>2. cpc'[p] \notin {"raw", "matches", "cursor"}
    BY <1>0, <1>4, GoesTo DEF CreateUserTarget, EnsureTarget
  <2>3. tid'[p] \in {NoTarget, Ghost} \cup Rows(Stamp(p), CmdWallet(p), "user")'
    <3>1. CASE tid' = tid
      BY <1>k, <2>1, <3>1
    <3>2. CASE tid' = [tid EXCEPT ![p] = Ghost]
      BY <1>0, <3>2 DEF ProcsOK
    <3>3. ASSUME NEW t \in targets', t[1] = Stamp(p), t[2] = CmdWallet(p), t[3] = "user", tid' = [tid EXCEPT ![p] = t]
          PROVE  tid'[p] \in {NoTarget, Ghost} \cup Rows(Stamp(p), CmdWallet(p), "user")'
      <4>1. tid'[p] = t
        BY <1>0, <3>3 DEF ProcsOK
      <4> QED
        BY <1>r, <2>1, <3>3, <4>1
    <3> QED
      BY <1>4, <3>1, <3>2, <3>3, UserRow
  <2> QED
    BY <1>0, <2>1, <2>2, <2>3, IngestGoes
<1>5. ASSUME SaveV1(p) PROVE IngestOK(p)'
  <2>1. ~ EndCommand(p)
    BY <1>0, <1>n, EndsIdle
  <2>2. /\ seen[p] # {} /\ v1' = v1 \cup ({CmdWallet(p)} \X seen[p]) /\ tid[p] # NoTarget
        /\ Go(p, "raw") /\ cmd' = cmd /\ seen' = seen /\ tid' = tid
        /\ cpc[p] \in Ingesting
    BY <1>5, <2>1 DEF SaveV1, At, Ingesting
  <2>3. cpc'[p] = "raw"
    BY <1>0, <2>2, GoesTo
  <2>4. tid'[p] \in {NoTarget, Ghost} \cup Rows(Stamp(p), CmdWallet(p), "user")'
    BY <1>k, <2>2
  <2> QED
    BY <1>0, <2>2, <2>3, <2>4, IngestGoes
<1>6. ASSUME WriteRaw(p) PROVE IngestOK(p)'
  <2>1. /\ At(p, "raw") /\ cmd' = cmd /\ seen' = seen /\ tid' = tid /\ v1' = v1 /\ cpc[p] \in Ingesting
        /\ (raw' = raw \cup RawOf(p) /\ Go(p, "matches")) \/ Go(p, "cursor")
    BY <1>6 DEF WriteRaw, At, Ingesting
  <2>2. IngestOK(p)
    BY <2>1 DEF DwInv
  <2>3. tid[p] # NoTarget /\ seen[p] # {} /\ \A b \in seen[p] : <<CmdWallet(p), b>> \in v1'
    BY <2>1, <2>2 DEF IngestOK, At
  <2>4. cpc'[p] = "matches" => RawOf(p) \subseteq raw'
    BY <1>0, <2>1, GoesTo
  <2>5. tid'[p] \in {NoTarget, Ghost} \cup Rows(Stamp(p), CmdWallet(p), "user")'
    BY <1>k, <2>1
  <2> QED
    BY <1>0, <2>1, <2>3, <2>4, <2>5, IngestGoes
<1>7. ASSUME WriteMatches(p) PROVE IngestOK(p)'
  <2>1. /\ At(p, "matches") /\ cmd' = cmd /\ seen' = seen /\ tid' = tid /\ v1' = v1 /\ cpc[p] \in Ingesting
        /\ Go(p, "cursor")
    BY <1>7 DEF WriteMatches, At, Ingesting
  <2>2. IngestOK(p) /\ cpc'[p] = "cursor"
    BY <1>0, <2>1, GoesTo DEF DwInv
  <2>3. tid[p] # NoTarget /\ seen[p] # {} /\ \A b \in seen[p] : <<CmdWallet(p), b>> \in v1'
    BY <2>1, <2>2 DEF IngestOK, At
  <2>5. tid'[p] \in {NoTarget, Ghost} \cup Rows(Stamp(p), CmdWallet(p), "user")'
    BY <1>k, <2>1
  <2> QED
    BY <1>0, <2>1, <2>2, <2>3, <2>5, IngestGoes
<1>8. ASSUME WriteCursor(p) PROVE FALSE
  BY <1>0, <1>8, <1>n, EndsIdle DEF WriteCursor
<1>9. ASSUME ResolveNetworks(p) PROVE FALSE
  BY <1>0, <1>9, <1>n, GoesTo DEF ResolveNetworks, Normalizing
<1>10. ASSUME HealRaw(p) PROVE FALSE
  BY <1>0, <1>10, <1>n, GoesTo DEF HealRaw, Normalizing
<1>11. ASSUME FindOwners(p) PROVE FALSE
  BY <1>0, <1>11, <1>n, GoesTo DEF FindOwners, Normalizing
<1>12. ASSUME HealMatches(p) PROVE FALSE
  BY <1>0, <1>12, <1>n, GoesTo DEF HealMatches, Normalizing
<1>13. ASSUME WriteSilver(p) PROVE FALSE
  BY <1>0, <1>13, <1>n, GoesTo DEF WriteSilver, Normalizing
<1>14. ASSUME EndNormalize(p) PROVE FALSE
  BY <1>0, <1>14, <1>n, EndsIdle DEF EndNormalize
<1>15. ASSUME CrashCli(p) PROVE FALSE
  BY <1>0, <1>15, <1>n, EndsIdle DEF CrashCli
<1> QED
  BY <1>1, <1>2, <1>3, <1>4, <1>5, <1>6, <1>7, <1>8, <1>9, <1>10, <1>11, <1>12, <1>13, <1>14, <1>15 DEF CommandStep

-----------------------------------------------------------------------------
(* The statements of a normalize *)

LEMMA NotNormalizing ==
    ASSUME NEW p \in Procs, cpc'[p] \notin {"networks", "owner", "owned", "silver", "done"}
    PROVE  NormalizeOK(p)'
  BY DEF NormalizeOK, At

LEMMA FaultIs ==
    ASSUME ProcsOK, NEW p \in Procs
    PROVE  (CliFault(p) => cliFault'[p]) /\ (NoCliFault => cliFault'[p] = cliFault[p])
  BY DEF ProcsOK, CliFault, NoCliFault

LEMMA HealRawOwn ==
    ASSUME DwInv, NEW p \in Procs, HealRaw(p)
    PROVE  NormalizeOK(p)'
<1>0. ProcsOK
  BY DEF DwInv
<1>1. cpc'[p] = "owner" /\ ids' = ids
  BY <1>0, GoesTo DEF HealRaw
<1>2. CASE raw' = raw \cup ids[p] /\ seen' = [seen EXCEPT ![p] = {}] /\ NoCliFault
  <2>1. seen'[p] = {}
    BY <1>0, <1>2 DEF ProcsOK
  <2>2. Resolved(p)' \subseteq raw'
    BY <1>1, <1>2 DEF Resolved
  <2> QED
    BY <1>1, <2>1, <2>2 DEF NormalizeOK, At
<1>3. ASSUME CliFault(p), raw \subseteq raw', NEW lost \in {ids[p], ids[p] \ raw},
             seen' = [seen EXCEPT ![p] = {r[2] : r \in lost}]
      PROVE  NormalizeOK(p)'
  <2>1. seen'[p] = {r[2] : r \in lost}
    BY <1>0, <1>3 DEF ProcsOK
  <2>2. ASSUME NEW r \in Resolved(p)' PROVE r \in raw'
    <3>1. r \in ids[p] /\ r[2] \notin seen'[p]
      BY <1>1, <2>2 DEF Resolved
    <3>2. r \notin lost
      BY <2>1, <3>1
    <3> QED
      BY <1>3, <3>1, <3>2
  <2>3. cliFault'[p]
    BY <1>0, <1>3, FaultIs
  <2> QED
    BY <1>1, <2>2, <2>3 DEF NormalizeOK, At
<1> QED
  BY <1>2, <1>3 DEF HealRaw

LEMMA FindOwnersOwn ==
    ASSUME DwInv, NEW p \in Procs, FindOwners(p)
    PROVE  NormalizeOK(p)'
<1>0. ProcsOK /\ NormalizeOK(p)
  BY DEF DwInv
<1>1. /\ cpc[p] = "owner" /\ cpc'[p] = "owned" /\ ids' = ids /\ seen' = seen /\ cmd' = cmd
      /\ raw' = raw /\ targets' = targets
  BY <1>0, GoesTo DEF FindOwners, At, dwTables
<1>2. Resolved(p)' = Resolved(p) /\ Groups(p)' = Groups(p) /\ CmdWallet(p)' = CmdWallet(p)
  BY <1>1 DEF Resolved, Groups, CmdWallet
<1>3. PICK gs, t :
          /\ gs \in SUBSET Groups(p) /\ t \in [gs -> targets \cup {NoTarget}]
          /\ \A m \in gs : t[m] \in Lookup(m, CmdWallet(p), "none")
          /\ tid' = [tid EXCEPT ![p] = t]
          /\ IF gs = Groups(p) THEN NoCliFault ELSE CliFault(p)
  BY DEF FindOwners
<1>4. tid'[p] = t
  BY <1>0, <1>3 DEF ProcsOK
<1>5. DOMAIN t = gs /\ t = [n \in gs |-> t[n]]
  BY <1>3
<1>6. Groups(p) \subseteq Networks \cup Foreign
  BY <1>0 DEF Groups, ProcsOK
<1>7. \A n \in gs : t[n] \in {NoTarget} \cup Rows(n, CmdWallet(p), "none")
  BY <1>3 DEF Lookup
<1>8. \A n : Rows(n, CmdWallet(p), "none")' = Rows(n, CmdWallet(p), "none")
  BY <1>1, <1>2 DEF Rows
<1>9. ~cliFault'[p] => gs = Groups(p) /\ ~cliFault[p]
  BY <1>0, <1>3, FaultIs
<1>10. Resolved(p) \subseteq raw /\ (~cliFault[p] => seen[p] = {})
  BY <1>0, <1>1 DEF NormalizeOK
<1>11. Resolved(p)' \subseteq raw' /\ (~cliFault'[p] => seen'[p] = {})
  BY <1>1, <1>2, <1>9, <1>10
<1>12. /\ tid'[p] = [n \in DOMAIN tid'[p] |-> tid'[p][n]]
       /\ DOMAIN tid'[p] \subseteq Networks \cup Foreign
  BY <1>3, <1>4, <1>5, <1>6
<1>13. \A n \in DOMAIN tid'[p] : tid'[p][n] \in {NoTarget} \cup Rows(n, CmdWallet(p), "none")'
  BY <1>4, <1>5, <1>7, <1>8
<1>14. ~cliFault'[p] => DOMAIN tid'[p] = Groups(p)'
  BY <1>2, <1>4, <1>5, <1>9
<1> QED
  BY <1>1, <1>11, <1>12, <1>13, <1>14 DEF NormalizeOK, At

LEMMA HealMatchesOwn ==
    ASSUME DwInv, NEW p \in Procs, HealMatches(p)
    PROVE  NormalizeOK(p)'
<1>0. ProcsOK /\ NormalizeOK(p) /\ At(p, "owned")
  BY HealIs DEF DwInv
<1>1. /\ cpc[p] = "owned" /\ cpc'[p] = "silver" /\ ids' = ids /\ seen' = seen /\ cmd' = cmd /\ raw' = raw
  BY <1>0, GoesTo DEF HealMatches, At
<1>2. Resolved(p)' = Resolved(p) /\ CmdWallet(p)' = CmdWallet(p)
  BY <1>1 DEF Resolved, CmdWallet
<1>3. PICK gs \in SUBSET DOMAIN tid[p] :
                 /\ targets' = targets \cup {OwnerOf(p, n) : n \in gs}
                 /\ matches' = matches \cup {<<OwnerOf(p, r[1]), r>> : r \in {q \in Resolved(p) : q[1] \in gs}}
                 /\ IF gs = DOMAIN tid[p] THEN NoCliFault ELSE CliFault(p)
  BY HealIs
<1>4. ~cliFault'[p] => gs = DOMAIN tid[p] /\ ~cliFault[p]
  BY <1>0, <1>3, FaultIs
<1>5. Resolved(p) \subseteq raw /\ (~cliFault[p] => seen[p] = {} /\ DOMAIN tid[p] = Groups(p))
  BY <1>0, <1>1 DEF NormalizeOK
<1>6. ASSUME ~cliFault'[p], NEW r \in ids[p] PROVE Matched(r, CmdWallet(p))'
  <2>1. r \in Resolved(p) /\ r[1] \in gs
    BY <1>4, <1>5, <1>6 DEF Resolved, Groups
  <2>2. OwnerOf(p, r[1])[1] = r[1] /\ OwnerOf(p, r[1])[2] = CmdWallet(p)
    BY <1>0, <1>3, <2>1, OwnerType
  <2>3. OwnerOf(p, r[1]) \in targets' /\ <<OwnerOf(p, r[1]), r>> \in matches'
    BY <1>3, <2>1
  <2> QED
    BY <1>2, <2>2, <2>3 DEF Matched
<1> QED
  BY <1>1, <1>2, <1>4, <1>5, <1>6 DEF NormalizeOK, At

LEMMA WriteSilverOwn ==
    ASSUME DwInv, NEW p \in Procs, WriteSilver(p)
    PROVE  NormalizeOK(p)'
<1>0. ProcsOK /\ NormalizeOK(p)
  BY DEF DwInv
<1>1. /\ cpc[p] = "silver" /\ cpc'[p] = "done" /\ ids' = ids /\ seen' = seen /\ cmd' = cmd /\ raw' = raw
      /\ targets' = targets /\ matches' = matches
  BY <1>0, GoesTo DEF WriteSilver, At
<1>2. Resolved(p)' = Resolved(p) /\ CmdWallet(p)' = CmdWallet(p)
  BY <1>1 DEF Resolved, CmdWallet
<1>3. /\ Resolved(p) \subseteq raw /\ (~cliFault[p] => seen[p] = {})
      /\ ~cliFault[p] => \A r \in ids[p] : Matched(r, CmdWallet(p))
  BY <1>0, <1>1 DEF NormalizeOK
<1>4. ~cliFault'[p] => ~cliFault[p] /\ dwSilver' = dwSilver \cup Resolved(p)
  BY <1>0, FaultIs DEF WriteSilver
<1>5. ASSUME ~cliFault'[p] PROVE ids'[p] \subseteq dwSilver'
  BY <1>1, <1>3, <1>4, <1>5 DEF Resolved
<1>6. ASSUME ~cliFault'[p], NEW r \in ids'[p] PROVE Matched(r, CmdWallet(p))'
  <2>1. Matched(r, CmdWallet(p))
    BY <1>1, <1>3, <1>4, <1>6
  <2> QED
    BY <1>1, <1>2, <2>1 DEF Matched
<1> QED
  BY <1>1, <1>2, <1>3, <1>4, <1>5, <1>6 DEF NormalizeOK, At

LEMMA NormalizeOwn ==
    ASSUME DwInv, NEW p \in Procs, CommandStep(p)
    PROVE  NormalizeOK(p)'
<1>0. ProcsOK
  BY DEF DwInv
<1>1. ASSUME NEW w \in Wallets, NEW opt \in Networks \cup {NoNetwork}, StartIngest(p, w, opt) PROVE NormalizeOK(p)'
  BY <1>0, <1>1, GoesTo, NotNormalizing DEF StartIngest
<1>2. ASSUME NEW w \in Wallets, NEW opt \in Networks \cup {NoNetwork}, StartNormalize(p, w, opt) PROVE NormalizeOK(p)'
  <2>1. /\ cpc'[p] = "networks" /\ cmd'[p] = <<w, opt>> /\ seen'[p] = Page(w) /\ v1' = v1
        /\ opt # NoNetwork => <<opt, w>> \in told'
    BY <1>0, <1>2, GoesTo DEF StartNormalize, ProcsOK, dwTables
  <2>2. CmdWallet(p)' = w /\ Option(p)' = opt
    BY <2>1 DEF CmdWallet, Option
  <2>3. \A b \in seen'[p] : <<w, b>> \in v1'
    BY <2>1 DEF Page
  <2> QED
    BY <2>1, <2>2, <2>3 DEF NormalizeOK, At
<1>3. ASSUME FindTarget(p) PROVE NormalizeOK(p)'
  BY <1>0, <1>3, GoesTo, NotNormalizing DEF FindTarget
<1>4. ASSUME CreateUserTarget(p) PROVE NormalizeOK(p)'
  BY <1>0, <1>4, GoesTo, NotNormalizing DEF CreateUserTarget, EnsureTarget
<1>5. ASSUME SaveV1(p) PROVE NormalizeOK(p)'
  BY <1>0, <1>5, GoesTo, EndsIdle, NotNormalizing DEF SaveV1
<1>6. ASSUME WriteRaw(p) PROVE NormalizeOK(p)'
  BY <1>0, <1>6, GoesTo, NotNormalizing DEF WriteRaw
<1>7. ASSUME WriteMatches(p) PROVE NormalizeOK(p)'
  BY <1>0, <1>7, GoesTo, NotNormalizing DEF WriteMatches
<1>8. ASSUME WriteCursor(p) PROVE NormalizeOK(p)'
  BY <1>0, <1>8, EndsIdle, NotNormalizing DEF WriteCursor
<1>9. ASSUME ResolveNetworks(p) PROVE NormalizeOK(p)'
  BY <1>0, <1>9, GoesTo, NotNormalizing DEF ResolveNetworks
<1>10. ASSUME EndNormalize(p) PROVE NormalizeOK(p)'
  BY <1>0, <1>10, EndsIdle, NotNormalizing DEF EndNormalize
<1>11. ASSUME CrashCli(p) PROVE NormalizeOK(p)'
  BY <1>0, <1>11, EndsIdle, NotNormalizing DEF CrashCli
<1> QED
  BY <1>1, <1>2, <1>3, <1>4, <1>5, <1>6, <1>7, <1>8, <1>9, <1>10, <1>11,
     HealRawOwn, FindOwnersOwn, HealMatchesOwn, WriteSilverOwn DEF CommandStep

-----------------------------------------------------------------------------
(* The invariant *)

LEMMA DwInitially ==
    ASSUME DwInit
    PROVE  DwInv
<1>1. ProcsOK
  <2>1. /\ cpc \in [Procs -> {"idle"} \cup Ingesting \cup Normalizing]
        /\ cmd = [p \in Procs |-> cmd[p]] /\ tid = [p \in Procs |-> tid[p]]
        /\ seen \in [Procs -> SUBSET Blocks]
        /\ ids \in [Procs -> SUBSET ((Networks \cup Foreign) \X Blocks)]
        /\ cliFault \in [Procs -> BOOLEAN] /\ origin \in [Wallets -> Nat]
    BY DEF DwInit
  <2>2. \A p \in Procs : cpc[p] = "idle" /\ cmd[p] = <<>> /\ tid[p] = NoTarget
    BY DEF DwInit
  <2> QED
    BY <2>1, <2>2 DEF ProcsOK, At
<1>2. DwTypeOK
  BY DEF DwInit, DwTypeOK, At, NoCheckpoint
<1>3. CopiesOK
  <2> SUFFICES ASSUME NEW n \in Networks \cup Foreign, NEW w \in Wallets
               PROVE  Cardinality(Rows(n, w, "none")) + Cardinality(Creators(n, w)) <= Cardinality(Procs)
    BY DEF CopiesOK
  <2>1. Rows(n, w, "none") = {} /\ Creators(n, w) = {}
    BY DEF DwInit, Rows, Creators, At
  <2>2. /\ Cardinality(Rows(n, w, "none")) = 0 /\ Cardinality(Creators(n, w)) = 0
        /\ Cardinality(Procs) \in Nat
    BY <2>1, FS_EmptySet, FS_CardinalityType, DualWriteAssumption
  <2> QED
    BY <2>2
<1>4. CheckpointIsInV1
  <2>1. ASSUME NEW w \in Wallets, NEW b \in Blocks PROVE ~(b <= v1cp[w])
    <3>1. b \in Nat /\ v1cp[w] = -1
      BY BlocksFinite DEF DwInit, NoCheckpoint
    <3> QED
      BY <3>1
  <2> QED
    BY <2>1 DEF CheckpointIsInV1, DwInit
<1>5. /\ \A r \in raw : Real(r)
      /\ \A p \in Procs : \A r \in ids[p] : Real(r)
      /\ \A t \in TargetRows \ targets : v2cp[t] = NoCheckpoint
  BY DEF DwInit
<1>6. /\ \A p \in Procs : cpc[p] \in Ingesting => IngestOK(p)
      /\ \A p \in Procs : NormalizeOK(p)
  BY DEF DwInit, Ingesting, NormalizeOK, At
<1> QED
  BY <1>1, <1>2, <1>3, <1>4, <1>5, <1>6 DEF DwInv

LEMMA CommandKeeps ==
    ASSUME DwInv, NEW p \in Procs, CommandStep(p)
    PROVE  DwInv'
<1>0. Grows /\ ProcsOK' /\ ProcsOK
  BY GrowsStep, ProcsStep DEF DwInv
<1>1. \A q \in Procs : cpc'[q] \in Ingesting => IngestOK(q)'
  <2> SUFFICES ASSUME NEW q \in Procs, cpc'[q] \in Ingesting PROVE IngestOK(q)'
    OBVIOUS
  <2>1. CASE q = p
    BY <2>1, IngestOwn
  <2>2. CASE q # p
    <3>1. LocalsOf(q)' = LocalsOf(q)
      BY <1>0, <2>2, OtherProcs
    <3>2. cpc[q] \in Ingesting
      BY <3>1 DEF LocalsOf
    <3> QED
      BY <1>0, <3>1, <3>2, IngestStays DEF DwInv
  <2> QED
    BY <2>1, <2>2
<1>2. \A q \in Procs : NormalizeOK(q)'
  <2> SUFFICES ASSUME NEW q \in Procs PROVE NormalizeOK(q)'
    OBVIOUS
  <2>1. CASE q = p
    BY <2>1, NormalizeOwn
  <2>2. CASE q # p
    <3>1. LocalsOf(q)' = LocalsOf(q)
      BY <1>0, <2>2, OtherProcs
    <3> QED
      BY <1>0, <3>1, NormalizeStays DEF DwInv
  <2> QED
    BY <2>1, <2>2
<1>3. \A t \in TargetRows \ targets' : v2cp'[t] = NoCheckpoint
  BY CursorType
<1> QED
  BY <1>0, <1>1, <1>2, <1>3, TypesStep, CopiesStep, CheckpointStep, RawIsReal, IdsAreReal DEF DwInv

LEMMA ApiKeeps ==
    ASSUME DwInv, NEW n \in Networks \cup Foreign, NEW b \in Blocks, ApiIngest(n, b)
    PROVE  DwInv'
<1>0. Grows /\ ProcsOK /\ \A q \in Procs : LocalsOf(q)' = LocalsOf(q)
  BY GrowsApi DEF DwInv
<1>1. /\ v1' = v1 /\ v1cp' = v1cp /\ targets' = targets /\ matches' = matches /\ v2cp' = v2cp
      /\ dwSilver' = dwSilver /\ orphans' = orphans /\ cpc' = cpc /\ cmd' = cmd /\ seen' = seen /\ tid' = tid
      /\ ids' = ids /\ cliFault' = cliFault /\ named' = named /\ told' = told /\ origin' = origin
      /\ raw' = raw \cup {<<n, b>>}
  BY DEF ApiIngest, dwLocals
<1>2. ProcsOK'
  BY <1>0, <1>1 DEF ProcsOK, At
<1>3. DwTypeOK'
  <2>1. raw' \subseteq (Networks \cup Foreign) \X Blocks /\ dwSilver' \subseteq raw' /\ matches' \subseteq targets' \X raw'
    BY <1>1 DEF DwInv, DwTypeOK
  <2> QED
    BY <1>1, <2>1 DEF DwInv, DwTypeOK, At
<1>4. CopiesOK'
  <2>1. \A m, w : Rows(m, w, "none")' = Rows(m, w, "none") /\ Creators(m, w)' = Creators(m, w)
    BY <1>1 DEF Rows, Creators, At, CmdWallet
  <2> QED
    BY <2>1 DEF DwInv, CopiesOK
<1>5. ASSUME NEW r \in raw' PROVE Real(r)'
  <2>1. Real(r)
    <3>1. CASE r \in raw
      BY <3>1 DEF DwInv
    <3>2. CASE r = <<n, b>>
      BY <3>2 DEF ApiIngest, Real
    <3> QED
      BY <1>1, <1>5, <3>1, <3>2
  <2> QED
    BY <1>0, <2>1, RealStays
<1>6. \A q \in Procs : \A r \in ids'[q] : Real(r)'
  BY <1>0, <1>1, RealStays DEF DwInv
<1>7. CheckpointIsInV1' /\ \A t \in TargetRows \ targets' : v2cp'[t] = NoCheckpoint
  BY <1>1 DEF DwInv, CheckpointIsInV1
<1>8. \A q \in Procs : cpc'[q] \in Ingesting => IngestOK(q)'
  BY <1>0, <1>1, <1>2, IngestStays DEF DwInv
<1>9. \A q \in Procs : NormalizeOK(q)'
  BY <1>0, NormalizeStays DEF DwInv
<1> QED
  BY <1>2, <1>3, <1>4, <1>5, <1>6, <1>7, <1>8, <1>9 DEF DwInv

LEMMA DwStutters ==
    ASSUME DwInv, UNCHANGED dwVars
    PROVE  DwInv'
<1>1. /\ v1' = v1 /\ v1cp' = v1cp /\ raw' = raw /\ targets' = targets /\ matches' = matches /\ v2cp' = v2cp
      /\ dwSilver' = dwSilver /\ orphans' = orphans /\ cpc' = cpc /\ cmd' = cmd /\ seen' = seen /\ tid' = tid
      /\ ids' = ids /\ cliFault' = cliFault /\ named' = named /\ told' = told /\ origin' = origin
  BY DEF dwVars, dwTables, dwLocals, dwHistory
<1>2. ProcsOK' /\ DwTypeOK'
  BY <1>1 DEF DwInv, ProcsOK, DwTypeOK, At
<1>3. Grows /\ \A q \in Procs : LocalsOf(q)' = LocalsOf(q)
  BY <1>1 DEF Grows, LocalsOf, DwInv, ProcsOK
<1>4. CopiesOK'
  <2>1. \A m, w : Rows(m, w, "none")' = Rows(m, w, "none") /\ Creators(m, w)' = Creators(m, w)
    BY <1>1 DEF Rows, Creators, At, CmdWallet
  <2> QED
    BY <2>1 DEF DwInv, CopiesOK
<1>5. (\A r \in raw' : Real(r)') /\ \A q \in Procs : \A r \in ids'[q] : Real(r)'
  BY <1>1, <1>3, RealStays DEF DwInv
<1>6. CheckpointIsInV1' /\ \A t \in TargetRows \ targets' : v2cp'[t] = NoCheckpoint
  BY <1>1 DEF DwInv, CheckpointIsInV1
<1>7. \A q \in Procs : cpc'[q] \in Ingesting => IngestOK(q)'
  BY <1>1, <1>2, <1>3, IngestStays DEF DwInv
<1>8. \A q \in Procs : NormalizeOK(q)'
  BY <1>3, NormalizeStays DEF DwInv
<1> QED
  BY <1>2, <1>4, <1>5, <1>6, <1>7, <1>8 DEF DwInv

LEMMA DwStep == DwInv /\ [DwNext]_dwVars => DwInv'
<1>1. ASSUME DwInv, NEW p \in Procs, CommandStep(p) PROVE DwInv'
  BY <1>1, CommandKeeps
<1>2. ASSUME DwInv, NEW n \in Networks \cup Foreign, NEW b \in Blocks, ApiIngest(n, b) PROVE DwInv'
  BY <1>2, ApiKeeps
<1>3. ASSUME DwInv, UNCHANGED dwVars PROVE DwInv'
  BY <1>3, DwStutters
<1> QED
  BY <1>1, <1>2, <1>3 DEF DwNext, CommandStep

\* DwInv holds throughout, whatever commands run, race, fail and crash.
THEOREM DwInvariant == DwSpec => []DwInv
  BY DwInitially, DwStep, PTL DEF DwSpec

\* Types, and the foreign keys of Silver rows and of matches.
THEOREM DualWriteTypes == DwSpec => []DwTypeOK
<1>1. DwInv => DwTypeOK
  BY DEF DwInv
<1> QED
  BY <1>1, DwInvariant, PTL

\* Nothing that lost writes, races or healing leave in raw_transactions is on a
\* network nobody saw or named: resolve_effective_network skips, it never guesses.
THEOREM NetworksAreReal == DwSpec => []NetworkIsReal
<1>1. DwInv => NetworkIsReal
  BY DEF DwInv, NetworkIsReal, Real
<1> QED
  BY <1>1, DwInvariant, PTL

\* No checkpoint an ingest may resume from, V1's or a target's, skips a
\* transaction that V1 does not have: save_transactions_and_checkpoint comes first.
THEOREM CheckpointsAreInV1 == DwSpec => []CheckpointIsInV1
<1>1. DwInv => CheckpointIsInV1
  BY DEF DwInv
<1> QED
  BY <1>1, DwInvariant, PTL

\* A normalize without a failed statement leaves all it resolved visible to
\* target-scoped queries.
THEOREM HealedRows == DwSpec => []HealedIsVisible
<1>1. DwInv => HealedIsVisible
  <2> SUFFICES ASSUME DwInv, NEW p \in Procs, At(p, "done"), ~cliFault[p], NEW r \in ids[p]
               PROVE  /\ r \in dwSilver
                      /\ \E t \in targets : t[1] = r[1] /\ t[2] = CmdWallet(p) /\ <<t, r>> \in matches
    BY DEF HealedIsVisible
  <2>1. NormalizeOK(p)
    BY DEF DwInv
  <2>2. r \in dwSilver /\ Matched(r, CmdWallet(p))
    BY <2>1 DEF NormalizeOK, At
  <2> QED
    BY <2>2 DEF Matched
<1> QED
  BY <1>1, DwInvariant, PTL
-----------------------------------------------------------------------------
(* From the configuration to the registry *)

LEMMA SynthesizedType ==
    ASSUME NEW c \in Configs
    PROVE  Synthesized(c) \in Seq(ProviderEntries)
<1>1. {c.solanaRpc, c.evmRpc, c.grpc, c.traceRpc} \subseteq Urls /\ {HlInfoUrl, HlWsUrl} \subseteq Urls
  BY ConfigsAssumption DEF Urls
<1>2. ASSUME NEW n \in AlwaysEnabled, NEW k \in ProviderKinds, NEW u \in Urls, NEW p \in Nat, NEW caps \in SUBSET Capabilities
      PROVE  <<Provider(n, k, u, p, caps)>> \in Seq(ProviderEntries)
  <2>1. Provider(n, k, u, p, caps) \in ProviderEntries
    BY ConfigsAssumption DEF Provider, ProviderEntries
  <2> QED
    BY <2>1
<1>3. <<>> \in Seq(ProviderEntries)
  OBVIOUS
<1>4. <<Provider("solana-mainnet", "rpc", c.solanaRpc, 1, {"historical", "balances"})>> \in Seq(ProviderEntries)
  BY <1>1, <1>2 DEF AlwaysEnabled, ProviderKinds, Capabilities
<1>5. (IF c.grpc = NoUrl THEN <<>>
       ELSE <<Provider("solana-mainnet", "grpc", c.grpc, 1, {"stream"})>>) \in Seq(ProviderEntries)
  <2>1. <<Provider("solana-mainnet", "grpc", c.grpc, 1, {"stream"})>> \in Seq(ProviderEntries)
    BY <1>1, <1>2 DEF AlwaysEnabled, ProviderKinds, Capabilities
  <2> QED
    BY <1>3, <2>1, Zenon
<1>6. <<Provider("ethereum-mainnet", "rpc", c.evmRpc, 1, {"historical", "logs", "receipts", "balances"})>>
         \in Seq(ProviderEntries)
  BY <1>1, <1>2 DEF AlwaysEnabled, ProviderKinds, Capabilities
<1>7. (IF c.trace
       THEN <<Provider("ethereum-mainnet", "trace", FirstOf(c.traceRpc, c.evmRpc), 2, {"debug_trace_transaction"})>>
       ELSE <<>>) \in Seq(ProviderEntries)
  <2>1. FirstOf(c.traceRpc, c.evmRpc) \in Urls
    BY <1>1 DEF FirstOf
  <2>2. <<Provider("ethereum-mainnet", "trace", FirstOf(c.traceRpc, c.evmRpc), 2, {"debug_trace_transaction"})>>
           \in Seq(ProviderEntries)
    BY <2>1, <1>2 DEF AlwaysEnabled, ProviderKinds, Capabilities
  <2> QED
    BY <1>3, <2>2, Zenon
<1>8. <<Provider("hypercore-mainnet", "rest", HlInfoUrl, 1, {"historical"}),
        Provider("hypercore-mainnet", "ws", HlWsUrl, 1, {"stream"})>> \in Seq(ProviderEntries)
  <2>1. Provider("hypercore-mainnet", "rest", HlInfoUrl, 1, {"historical"}) \in ProviderEntries
    BY <1>1, ConfigsAssumption DEF Provider, ProviderEntries, AlwaysEnabled, ProviderKinds, Capabilities
  <2>2. Provider("hypercore-mainnet", "ws", HlWsUrl, 1, {"stream"}) \in ProviderEntries
    BY <1>1, ConfigsAssumption DEF Provider, ProviderEntries, AlwaysEnabled, ProviderKinds, Capabilities
  <2> QED
    BY <2>1, <2>2
<1>9. \A s, t \in Seq(ProviderEntries) : s \o t \in Seq(ProviderEntries)
  OBVIOUS
<1> QED
  BY <1>4, <1>5, <1>6, <1>7, <1>8, <1>9, Zenon DEF Synthesized

\* The entries in force are finitely many, each at a position.
LEMMA EffectiveType ==
    ASSUME NEW c \in Configs
    PROVE  /\ IsFiniteSet(DOMAIN EffectiveProviders(c)) /\ DOMAIN EffectiveProviders(c) \in SUBSET Nat
           /\ \A i \in DOMAIN EffectiveProviders(c) : EffectiveProviders(c)[i] \in ProviderEntries
<1>1. ASSUME NEW s \in Seq(ProviderEntries)
      PROVE  /\ IsFiniteSet(DOMAIN s) /\ DOMAIN s \in SUBSET Nat
             /\ \A i \in DOMAIN s : s[i] \in ProviderEntries
  <2>1. DOMAIN s = 1 .. Len(s) /\ Len(s) \in Nat
    OBVIOUS
  <2>2. IsFiniteSet(1 .. Len(s))
    BY <2>1, FS_Interval
  <2> QED
    BY <2>1, <2>2
<1>2. c.providers \in Seq(ProviderEntries)
  BY ConfigsAssumption
<1>3. CASE Structured(c)
  BY <1>1, <1>2, <1>3 DEF EffectiveProviders
<1>4. CASE ~ Structured(c)
  <2>1. PICK all \in Seq(ProviderEntries) : all = Synthesized(c) \o c.providers
    <3>1. \A s, t \in Seq(ProviderEntries) : s \o t \in Seq(ProviderEntries)
      OBVIOUS
    <3>2. Synthesized(c) \o c.providers \in Seq(ProviderEntries)
      BY <3>1, <1>2, SynthesizedType
    <3> QED
      BY <3>2
  <2>2. Merged(c) \in SUBSET DOMAIN all
    BY <2>1 DEF Merged
  <2>3. EffectiveProviders(c) = [i \in Merged(c) |-> all[i]]
    BY <1>4, <2>1 DEF EffectiveProviders
  <2>4. IsFiniteSet(Merged(c))
    BY <2>2, <1>1, FS_Subset
  <2> QED
    BY <1>1, <2>2, <2>3, <2>4
<1> QED
  BY <1>3, <1>4

\* sort_by_key gives a list of the entries it is given, in the order of priority.
LEMMA ByPriorityIs ==
    ASSUME NEW ps, NEW at \in SUBSET Nat, IsFiniteSet(at), \A i \in at : ps[i] \in ProviderEntries
    PROVE  /\ ByPriority(ps, at) \in Seq(ProviderEntries)
           /\ \A i \in at : \E k \in 1 .. Len(ByPriority(ps, at)) : ByPriority(ps, at)[k] = ps[i]
           /\ \A k \in 1 .. Len(ByPriority(ps, at)) : \E i \in at : ByPriority(ps, at)[k] = ps[i]
           /\ \A k, l \in 1 .. Len(ByPriority(ps, at)) :
                 k <= l => ByPriority(ps, at)[k].priority <= ByPriority(ps, at)[l].priority
<1> DEFINE L == {e \in at \X at : Precedes(ps, e[1], e[2])}
           n == Cardinality(at)
<1>1. \A i \in at : i \in Nat /\ ps[i].priority \in Nat
  BY DEF ProviderEntries
<1>2. IsOrder(at, L)
  <2>1. \A i \in at : ~ Precedes(ps, i, i)
    BY <1>1 DEF Precedes
  <2>2. \A i, j \in at : i # j => Precedes(ps, i, j) \/ Precedes(ps, j, i)
    BY <1>1 DEF Precedes
  <2>3. ASSUME NEW i \in at, NEW j \in at, NEW k \in at, Precedes(ps, i, j), Precedes(ps, j, k)
        PROVE  Precedes(ps, i, k)
    <3>1. /\ i \in Nat /\ j \in Nat /\ k \in Nat
          /\ ps[i].priority \in Nat /\ ps[j].priority \in Nat /\ ps[k].priority \in Nat
      BY <1>1
    <3> QED
      BY <2>3, <3>1 DEF Precedes
  <2>4. \A i, j \in at : <<i, j>> \in L <=> Precedes(ps, i, j)
    OBVIOUS
  <2> HIDE DEF L
  <2> QED
    BY <2>1, <2>2, <2>3, <2>4 DEF IsOrder
<1>3. \A i \in at : RankIn(at, L, i) = Cardinality({j \in at : Precedes(ps, j, i)})
  <2>1. \A i \in at : {j \in at : <<j, i>> \in L} = {j \in at : Precedes(ps, j, i)}
    OBVIOUS
  <2> QED
    BY <2>1 DEF RankIn
<1> DEFINE s == ByPriority(ps, at)
           pos == [k \in 1 .. n |-> CHOOSE i \in at : Cardinality({j \in at : Precedes(ps, j, i)}) = k - 1]
<1>4. ASSUME NEW k \in 1 .. n, \E i \in at : RankIn(at, L, i) = k - 1
      PROVE  pos[k] \in at /\ RankIn(at, L, pos[k]) = k - 1
  <2>1. \E i \in at : Cardinality({j \in at : Precedes(ps, j, i)}) = k - 1
    BY <1>3, <1>4
  <2>2. pos[k] \in at /\ Cardinality({j \in at : Precedes(ps, j, pos[k])}) = k - 1
    BY <2>1, Zenon
  <2> QED
    BY <1>3, <2>2
<1>5. s = [k \in 1 .. n |-> ps[pos[k]]]
  BY DEF ByPriority
<1> HIDE DEF pos, L, s
<1>6. /\ n \in Nat
      /\ \A k \in 1 .. n : pos[k] \in at
      /\ \A i \in at : \E k \in 1 .. n : pos[k] = i
      /\ \A k, l \in 1 .. n : k < l => <<pos[k], pos[l]>> \in L
  BY <1>2, <1>4, SortIs
<1>7. s \in Seq(ProviderEntries) /\ Len(s) = n
  <2>1. \A k \in 1 .. n : ps[pos[k]] \in ProviderEntries
    BY <1>6
  <2>2. s \in [1 .. n -> ProviderEntries]
    BY <1>5, <2>1
  <2> QED
    BY <1>6, <2>2
<1>8. ASSUME NEW i \in at PROVE \E k \in 1 .. Len(s) : s[k] = ps[i]
  BY <1>5, <1>6, <1>7
<1>9. ASSUME NEW k \in 1 .. Len(s) PROVE \E i \in at : s[k] = ps[i]
  BY <1>5, <1>6, <1>7
<1>10. ASSUME NEW k \in 1 .. Len(s), NEW l \in 1 .. Len(s), k <= l PROVE s[k].priority <= s[l].priority
  <2>1. k \in 1 .. n /\ l \in 1 .. n /\ s[k] = ps[pos[k]] /\ s[l] = ps[pos[l]] /\ pos[k] \in at /\ pos[l] \in at
    BY <1>5, <1>6, <1>7
  <2>2. ps[pos[k]].priority \in Nat /\ ps[pos[l]].priority \in Nat
    BY <1>1, <2>1
  <2>3. CASE k = l
    BY <2>1, <2>2, <2>3
  <2>4. CASE k # l
    <3>1. k < l
      BY <1>10, <1>7, <1>6, <2>4
    <3>2. <<pos[k], pos[l]>> \in L
      BY <1>6, <2>1, <3>1
    <3>3. Precedes(ps, pos[k], pos[l])
      BY <3>2 DEF L
    <3> QED
      BY <2>1, <2>2, <3>3 DEF Precedes
  <2> QED
    BY <2>3, <2>4
<1> QED
  BY <1>7, <1>8, <1>9, <1>10 DEF s

\* The providers the registry of a configuration holds for a network.
Of(c, n, cap) == {p \in ToSet(EffectiveProviders(c)) : p.network = n /\ cap \in p.caps}

\* The list s holds the providers of network n among ps, the best priority first.
ListsBest(s, ps, n) ==
    /\ \A i \in DOMAIN ps : ps[i].network = n => \E k \in 1 .. Len(s) : s[k] = ps[i]
    /\ \A k \in 1 .. Len(s) : \E i \in DOMAIN ps : s[k] = ps[i] /\ ps[i].network = n
    /\ \A k, l \in 1 .. Len(s) : k <= l => s[k].priority <= s[l].priority

\* from_config: what the registry of a configuration holds.
LEMMA RegistryIs ==
    ASSUME NEW c \in Configs
    PROVE  /\ FromConfig(c).enabled = EffectiveNetworks(c)
           /\ DOMAIN FromConfig(c).providers = EffectiveNetworks(c)
           /\ \A n \in EffectiveNetworks(c) :
                 /\ FromConfig(c).providers[n] \in Seq(ProviderEntries)
                 /\ ListsBest(FromConfig(c).providers[n], EffectiveProviders(c), n)
<1>1. PICK ps : ps = EffectiveProviders(c)
  OBVIOUS
<1>2. IsFiniteSet(DOMAIN ps) /\ DOMAIN ps \in SUBSET Nat /\ \A i \in DOMAIN ps : ps[i] \in ProviderEntries
  BY <1>1, EffectiveType
<1>3. /\ FromConfig(c).enabled = EffectiveNetworks(c)
      /\ DOMAIN FromConfig(c).providers = EffectiveNetworks(c)
      /\ \A n \in EffectiveNetworks(c) :
            FromConfig(c).providers[n] = ByPriority(ps, {i \in DOMAIN ps : ps[i].network = n})
  BY <1>1 DEF FromConfig
<1>4. ASSUME NEW n \in EffectiveNetworks(c), NEW s, s = FromConfig(c).providers[n]
      PROVE  s \in Seq(ProviderEntries) /\ ListsBest(s, ps, n)
  <2>1. PICK at : at = {i \in DOMAIN ps : ps[i].network = n}
    OBVIOUS
  <2>2. at \in SUBSET DOMAIN ps /\ at \in SUBSET Nat /\ \A i \in at : ps[i] \in ProviderEntries
    BY <1>2, <2>1
  <2>3. IsFiniteSet(at)
    BY <1>2, <2>2, FS_Subset
  <2>4. s = ByPriority(ps, at)
    BY <1>3, <1>4, <2>1
  <2>5. /\ s \in Seq(ProviderEntries)
        /\ \A i \in at : \E k \in 1 .. Len(s) : s[k] = ps[i]
        /\ \A k \in 1 .. Len(s) : \E i \in at : s[k] = ps[i]
        /\ \A k, l \in 1 .. Len(s) : k <= l => s[k].priority <= s[l].priority
    BY <2>2, <2>3, <2>4, ByPriorityIs
  <2> QED
    BY <2>1, <2>5 DEF ListsBest
<1> QED
  BY <1>1, <1>3, <1>4

\* resolve finds a provider of the best priority among those with the capability.
LEMMA ResolveIs ==
    ASSUME NEW c \in Configs, NEW n \in EffectiveNetworks(c), NEW cap
    PROVE  /\ Of(c, n, cap) = {} => Resolve(FromConfig(c), n, cap) = NoUrl
           /\ Of(c, n, cap) # {} =>
                 \E p \in Of(c, n, cap) : /\ p.url = Resolve(FromConfig(c), n, cap)
                                          /\ \A q \in Of(c, n, cap) : p.priority <= q.priority
<1>1. PICK s \in Seq(ProviderEntries) : s = FromConfig(c).providers[n]
  BY RegistryIs
<1>2. PICK ps : ps = EffectiveProviders(c)
  OBVIOUS
<1>3. /\ \A i \in DOMAIN ps : ps[i].network = n => \E k \in 1 .. Len(s) : s[k] = ps[i]
      /\ \A k \in 1 .. Len(s) : \E i \in DOMAIN ps : s[k] = ps[i] /\ ps[i].network = n
      /\ \A k, l \in 1 .. Len(s) : k <= l => s[k].priority <= s[l].priority
  <2>1. ListsBest(s, ps, n)
    BY <1>1, <1>2, RegistryIs
  <2> QED
    BY <2>1 DEF ListsBest
<1>4. PICK at : at = {k \in 1 .. Len(s) : cap \in s[k].caps}
  OBVIOUS
<1>5. Resolve(FromConfig(c), n, cap) = IF at # {} THEN s[Min(at)].url ELSE NoUrl
  <2>1. SelectInSeq(s, LAMBDA p : cap \in p.caps) = IF at # {} THEN Min(at) ELSE 0
    BY <1>4 DEF SelectInSeq
  <2>2. at \in SUBSET Nat /\ 0 \notin at
    BY <1>4
  <2>3. at # {} => Min(at) \in at
    BY <2>2, MinIsLeast
  <2>4. at # {} => Min(at) # 0
    BY <2>2, <2>3
  <2> QED
    BY <1>1, <2>1, <2>4, Zenon DEF Resolve
<1>6. \A p : p \in Of(c, n, cap) <=> \E k \in at : s[k] = p
  BY <1>2, <1>3, <1>4 DEF Of, ToSet
<1>7. CASE at = {}
  BY <1>5, <1>6, <1>7
<1>8. CASE at # {}
  <2>1. PICK m \in at : m = Min(at) /\ \A k \in at : m <= k
    <3>1. at \in SUBSET Nat
      BY <1>4
    <3> QED
      BY <3>1, <1>8, MinIsLeast
  <2>2. s[m] \in Of(c, n, cap) /\ s[m].url = Resolve(FromConfig(c), n, cap)
    BY <1>5, <1>6, <1>8, <2>1
  <2>3. ASSUME NEW q \in Of(c, n, cap) PROVE s[m].priority <= q.priority
    <3>1. PICK k \in at : s[k] = q
      BY <1>6
    <3>2. m \in 1 .. Len(s) /\ k \in 1 .. Len(s) /\ m <= k
      BY <1>4, <2>1
    <3> QED
      BY <1>3, <3>1, <3>2
  <2> QED
    BY <2>2, <2>3
<1> QED
  BY <1>7, <1>8

\* In a registry that was accepted, an endpoint is found exactly when the
\* configuration lists one, and it is one of those listed.
LEMMA UrlIs ==
    ASSUME NEW c \in Configs, Accepts(c), NEW n, NEW cap
    PROVE  /\ Url(FromConfig(c), n, cap) = NoUrl <=> ~ Listed(c, n, cap)
           /\ Url(FromConfig(c), n, cap) # NoUrl =>
                 /\ Url(FromConfig(c), n, cap) \in DOMAIN Serves
                 /\ Lists(c, n, cap, Url(FromConfig(c), n, cap))
<1>1. PICK u : u = Url(FromConfig(c), n, cap)
  OBVIOUS
<1>2. Configured(FromConfig(c), n) <=> n \in EffectiveNetworks(c)
  BY RegistryIs DEF Configured
<1>3. CASE n \notin EffectiveNetworks(c)
  <2>1. u = NoUrl
    BY <1>1, <1>2, <1>3 DEF Url
  <2>2. ~ Listed(c, n, cap)
    BY <1>3 DEF Listed, Lists
  <2> QED
    BY <1>1, <2>1, <2>2
<1>4. CASE n \in EffectiveNetworks(c)
  <2>1. u = Resolve(FromConfig(c), n, cap)
    BY <1>1, <1>2, <1>4 DEF Url
  <2>2. ASSUME NEW p \in Of(c, n, cap) PROVE p.url \in DOMAIN Serves /\ p.url # NoUrl
    <3>1. p \in ProviderEntries
      BY EffectiveType DEF Of, ToSet
    <3>2. WellFormed(p)
      BY <1>4 DEF Accepts, Of
    <3> QED
      BY <3>1, <3>2 DEF WellFormed, ProviderEntries, Urls
  <2>3. \A v : Lists(c, n, cap, v) <=> \E p \in Of(c, n, cap) : p.url = v
    BY <1>4 DEF Lists, Of
  <2>4. CASE Of(c, n, cap) = {}
    <3>1. u = NoUrl
      BY <2>1, <2>4, <1>4, ResolveIs
    <3>2. ~ Listed(c, n, cap)
      BY <2>3, <2>4 DEF Listed
    <3> QED
      BY <1>1, <3>1, <3>2
  <2>5. CASE Of(c, n, cap) # {}
    <3>1. PICK p \in Of(c, n, cap) : p.url = u
      BY <2>1, <2>5, <1>4, ResolveIs
    <3>2. u # NoUrl /\ u \in DOMAIN Serves /\ Lists(c, n, cap, u)
      BY <2>2, <2>3, <3>1
    <3>3. Listed(c, n, cap)
      BY <3>2 DEF Listed
    <3> QED
      BY <1>1, <3>2, <3>3
  <2> QED
    BY <2>4, <2>5
<1> QED
  BY <1>3, <1>4

-----------------------------------------------------------------------------
(* The steps. *)

Works == [what : {"job", "stream"}, network : DOMAIN Families, kind : Kinds, chainOnly : BOOLEAN,
          url : Urls, asked : Configs, ran : Configs, missed : BOOLEAN]

\* What a preflight check established, and what may miss, are about the request.
LEMMA SameRequest ==
    ASSUME NEW v, NEW w, v.what = w.what, v.network = w.network, v.kind = w.kind,
           v.chainOnly = w.chainOnly, v.asked = w.asked
    PROVE  (Preflighted(v) <=> Preflighted(w)) /\ (MayMiss(v) <=> MayMiss(w))
<1>1. Preflighted(v) <=> Preflighted(w)
  BY Zenon DEF Preflighted
<1>2. MayMiss(v) <=> MayMiss(w)
  BY Zenon DEF MayMiss
<1> QED
  BY <1>1, <1>2

LEMMA FamilyOf ==
    ASSUME NEW n \in DOMAIN Families
    PROVE  Families[n] \in {"solana", "evm", "hyperliquid"}
  BY ProvidersAssumption

LEMMA HyperliquidUrls == {HlInfoUrl, HlWsUrl} \subseteq DOMAIN Serves /\ HlInfoUrl # NoUrl /\ HlWsUrl # NoUrl
  BY ProvidersAssumption, ConfigsAssumption

\* The endpoints of a running process.
LEMMA UrlInForce ==
    ASSUME PvInv, up, NEW n, NEW cap
    PROVE  /\ Url(registry, n, cap) = NoUrl <=> ~ Listed(config, n, cap)
           /\ Url(registry, n, cap) # NoUrl =>
                 /\ Url(registry, n, cap) \in DOMAIN Serves
                 /\ Lists(config, n, cap, Url(registry, n, cap))
           /\ Configured(registry, n) <=> n \in EffectiveNetworks(config)
<1>1. config \in Configs /\ Accepts(config) /\ registry = FromConfig(config)
  BY DEF PvInv, PvTypeOK
<1>2. Configured(registry, n) <=> n \in EffectiveNetworks(config)
  BY <1>1, RegistryIs DEF Configured
<1> QED
  BY <1>1, <1>2, UrlIs

LEMMA BackfillUrlIs ==
    ASSUME NEW n \in DOMAIN Families, NEW r, NEW c
    PROVE  /\ ~ Configured(r, n) => BackfillUrl(r, n, c) = NoUrl
           /\ Configured(r, n) /\ Families[n] = "solana" => BackfillUrl(r, n, c) = Url(r, n, "historical")
           /\ Configured(r, n) /\ Families[n] = "evm" =>
                 BackfillUrl(r, n, c) = FirstOf(Url(r, n, "historical"), Url(r, n, "logs"))
           /\ Configured(r, n) /\ Families[n] = "hyperliquid" =>
                 BackfillUrl(r, n, c) = FirstOf(Url(r, n, "historical"), HlInfoUrl)
<1>1. PICK a \in BOOLEAN : a <=> Configured(r, n)
  OBVIOUS
<1>2. PICK f \in {"solana", "evm", "hyperliquid"} : f = Families[n]
  BY FamilyOf
<1>3. BackfillUrl(r, n, c) =
        CASE ~ a -> NoUrl
          [] a /\ f = "solana" -> Url(r, n, "historical")
          [] a /\ f = "evm" -> FirstOf(Url(r, n, "historical"), Url(r, n, "logs"))
          [] a /\ f = "hyperliquid" -> FirstOf(Url(r, n, "historical"), HlInfoUrl)
  BY <1>1, <1>2, Zenon DEF BackfillUrl
<1> QED
  BY <1>1, <1>2, <1>3

\* What a connector or a stream task reads is its own network's, or one of the
\* named exceptions.
LEMMA EndpointIsOwn ==
    ASSUME PvInv, up, NEW w \in work, Reads(w, EndpointOf(w))
    PROVE  LET u == EndpointOf(w)
               cap == IF w.what = "stream" THEN "stream" ELSE "historical"
           IN  /\ u \in DOMAIN Serves
               /\ Serves[u] # w.network =>
                     /\ Families[w.network] # "evm"
                     /\ \/ Lists(config, w.network, cap, u)
                        \/ /\ ~ Listed(config, w.network, cap)
                           /\ \/ Families[w.network] = "hyperliquid" /\ u \in {HlInfoUrl, HlWsUrl}
                              \/ w.what = "stream" /\ Families[w.network] = "solana" /\ u = config.grpc
<1>1. w \in Works /\ (w.what = "stream" => Families[w.network] # "evm") /\ config \in Configs
  BY DEF PvInv, PvTypeOK, Works
<1>2. PICK n \in DOMAIN Families : n = w.network
  BY <1>1 DEF Works
<1>3. PICK u : u = EndpointOf(w)
  OBVIOUS
<1>4. u # NoUrl /\ (w.what = "job" => RightChain(n, u))
  BY <1>2, <1>3 DEF Reads
<1>5. Families[n] \in {"solana", "evm", "hyperliquid"}
  BY FamilyOf
<1>6. CASE w.what = "stream"
  <2>1. PICK a : a = Url(registry, n, "stream")
    OBVIOUS
  <2>2. u = IF a = NoUrl THEN (IF Families[n] = "solana" THEN config.grpc ELSE HlWsUrl) ELSE a
    BY <1>2, <1>3, <1>6, <2>1 DEF EndpointOf, StreamUrl, FirstOf
  <2>3. /\ a = NoUrl <=> ~ Listed(config, n, "stream")
        /\ a # NoUrl => a \in DOMAIN Serves /\ Lists(config, n, "stream", a)
    BY <2>1, UrlInForce
  <2>4. config.grpc \in Urls
    BY <1>1, ConfigsAssumption
  <2>5. u \in DOMAIN Serves
    BY <1>4, <2>2, <2>3, <2>4, HyperliquidUrls DEF Urls
  <2>6. Families[n] # "evm"
    BY <1>1, <1>2, <1>6
  <2>7. \/ Lists(config, n, "stream", u)
        \/ /\ ~ Listed(config, n, "stream")
           /\ \/ Families[n] = "hyperliquid" /\ u \in {HlInfoUrl, HlWsUrl}
              \/ Families[n] = "solana" /\ u = config.grpc
    BY <1>5, <2>2, <2>3, <2>6
  <2> QED
    BY <1>2, <1>3, <1>6, <2>5, <2>6, <2>7
<1>7. CASE w.what = "job"
  <2>1. u = BackfillUrl(registry, n, config)
    BY <1>2, <1>3, <1>4, <1>7 DEF EndpointOf
  <2>2. Configured(registry, n)
    BY <1>4, <2>1, BackfillUrlIs
  <2>3. PICK a : a = Url(registry, n, "historical")
    OBVIOUS
  <2>4. /\ a = NoUrl <=> ~ Listed(config, n, "historical")
        /\ a # NoUrl => a \in DOMAIN Serves /\ Lists(config, n, "historical", a)
    BY <2>3, UrlInForce
  <2>5. CASE Families[n] = "solana"
    <3>1. u = a
      BY <2>1, <2>2, <2>3, <2>5, BackfillUrlIs
    <3> QED
      BY <1>2, <1>3, <1>4, <1>7, <2>4, <2>5, <3>1
  <2>6. CASE Families[n] = "evm"
    <3>1. Serves[u] = n
      BY <1>4, <1>7, <2>6 DEF RightChain
    <3>2. u = a \/ u = Url(registry, n, "logs")
      BY <2>1, <2>2, <2>3, <2>6, BackfillUrlIs DEF FirstOf
    <3>3. u \in DOMAIN Serves
      BY <1>4, <2>4, <3>2, UrlInForce
    <3> QED
      BY <1>2, <1>3, <3>1, <3>3
  <2>7. CASE Families[n] = "hyperliquid"
    <3>1. u = IF a = NoUrl THEN HlInfoUrl ELSE a
      BY <2>1, <2>2, <2>3, <2>7, BackfillUrlIs DEF FirstOf
    <3>2. u \in DOMAIN Serves
      BY <2>4, <3>1, HyperliquidUrls
    <3>3. \/ Lists(config, n, "historical", u)
          \/ ~ Listed(config, n, "historical") /\ u \in {HlInfoUrl, HlWsUrl}
      BY <2>4, <3>1
    <3> QED
      BY <1>2, <1>3, <1>7, <2>7, <3>2, <3>3
  <2> QED
    BY <1>5, <2>5, <2>6, <2>7
<1> QED
  BY <1>1, <1>6, <1>7 DEF Works

\* What was accepted under the configuration in force misses its endpoint only
\* where the preflight check does not ask.
LEMMA OnlyTheseMiss ==
    ASSUME PvInv, up, NEW w \in work, config = w.asked, ~ Reads(w, EndpointOf(w))
    PROVE  MayMiss(w)
<1>1. w \in Works /\ (w.what = "stream" => Families[w.network] # "evm") /\ Preflighted(w)
  BY DEF PvInv, PvTypeOK, Works
<1>2. PICK n \in DOMAIN Families : n = w.network
  BY <1>1 DEF Works
<1>3. PICK u : u = EndpointOf(w)
  OBVIOUS
<1>4. Families[n] \in {"solana", "evm", "hyperliquid"}
  BY FamilyOf
<1>5. registry = FromConfig(w.asked)
  BY DEF PvInv
<1>6. u = NoUrl \/ (w.what = "job" /\ ~ RightChain(n, u))
  BY <1>2, <1>3 DEF Reads
<1>7. w.what # "stream"
  <2>1. SUFFICES ASSUME w.what = "stream" PROVE FALSE
    OBVIOUS
  <2>2. PICK a : a = Url(registry, n, "stream")
    OBVIOUS
  <2>3. u = IF a = NoUrl THEN (IF Families[n] = "solana" THEN config.grpc ELSE HlWsUrl) ELSE a
    BY <1>2, <1>3, <2>1, <2>2 DEF EndpointOf, StreamUrl, FirstOf
  <2>4. u = NoUrl
    BY <1>6, <2>1
  <2>5. Families[n] = "solana" => a # NoUrl \/ config.grpc # NoUrl
    BY <1>1, <1>2, <1>5, <2>1, <2>2 DEF Preflighted
  <2> QED
    BY <2>3, <2>4, <2>5, HyperliquidUrls
<1>8. w.what = "job"
  BY <1>1, <1>7 DEF Works
<1>9. SupportsPublicIngest(w.kind, Families[n]) /\ (w.chainOnly \/ n \in EffectiveNetworks(w.asked))
  BY <1>1, <1>2, <1>8 DEF Preflighted
<1>10. u = BackfillUrl(registry, n, config)
  BY <1>2, <1>3, <1>8, <1>9 DEF EndpointOf, SupportsPublicIngest, ConnectorServes
<1>11. Configured(registry, n) <=> n \in EffectiveNetworks(w.asked)
  BY UrlInForce
<1>12. CASE n \notin EffectiveNetworks(w.asked)
  BY <1>2, <1>8, <1>9, <1>12 DEF MayMiss
<1>13. CASE n \in EffectiveNetworks(w.asked)
  <2>1. PICK a : a = Url(registry, n, "historical")
    OBVIOUS
  <2>2. /\ a = NoUrl <=> ~ Listed(w.asked, n, "historical")
        /\ a # NoUrl => a \in DOMAIN Serves /\ Lists(w.asked, n, "historical", a)
    BY <2>1, UrlInForce
  <2>3. SUFFICES ASSUME a # NoUrl
                 PROVE  Families[n] = "evm" /\ Serves[a] # n
    BY <1>2, <1>8, <2>2 DEF MayMiss
  <2>4. u = a
    BY <1>4, <1>10, <1>11, <1>13, <2>1, <2>3, BackfillUrlIs DEF FirstOf
  <2> QED
    BY <1>6, <2>3, <2>4 DEF RightChain
<1> QED
  BY <1>12, <1>13

LEMMA PvInitInv == PvInit => PvInv
<1>1. SUFFICES ASSUME PvInit PROVE PvInv
  OBVIOUS
<1>2. PvTypeOK
  <2>1. up \in BOOLEAN /\ config \in Configs /\ known = {} /\ work = {}
    BY <1>1 DEF PvInit
  <2>2. registry.enabled = {} /\ DOMAIN registry.providers = {}
    BY <1>1 DEF PvInit
  <2> QED
    BY <2>1, <2>2, Zenon DEF PvTypeOK
<1> QED
  BY <1>1, <1>2 DEF PvInit, PvInv

\* main: a start takes the registry of the configuration it reads.
LEMMA StartApiStep == PvInv /\ StartApi => PvInv'
<1>1. SUFFICES ASSUME PvInv, StartApi PROVE PvInv'
  OBVIOUS
<1>2. PICK c \in Configs : /\ Accepts(c)
                           /\ up' = TRUE /\ config' = c /\ registry' = FromConfig(c)
                           /\ known' = known /\ work' = work
  BY <1>1 DEF StartApi
<1>3. /\ registry'.enabled = DOMAIN registry'.providers
      /\ \A n \in registry'.enabled : registry'.providers[n] \in Seq(ProviderEntries)
  BY <1>2, RegistryIs
<1>4. PvTypeOK'
  BY <1>1, <1>2, <1>3 DEF PvInv, PvTypeOK
<1>5. Accepts(config)' /\ registry' = FromConfig(config)'
  BY <1>2
<1> QED
  BY <1>1, <1>2, <1>4, <1>5 DEF PvInv

\* A stop takes a stream back to its request and leaves a job's fetch alone.
LEMMA StopApiStep == PvInv /\ StopApi => PvInv'
<1>1. SUFFICES ASSUME PvInv, StopApi PROVE PvInv'
  OBVIOUS
<1>2. up' = FALSE /\ config' = config /\ registry' = registry /\ known' = known
  BY <1>1 DEF StopApi
<1>3. ASSUME NEW v \in work'
      PROVE  /\ v \in Works /\ (v.what = "stream" => Families[v.network] # "evm")
             /\ Preflighted(v) /\ OwnNetwork(v) /\ (v.missed => MayMiss(v))
  <2>1. PICK w \in work : v = [w EXCEPT !.url = IF w.what = "stream" THEN NoUrl ELSE @,
                                        !.ran = IF w.what = "stream" THEN w.asked ELSE @]
    BY <1>1 DEF StopApi
  <2>2. w \in Works /\ (w.what = "stream" => Families[w.network] # "evm")
    BY <1>1 DEF PvInv, PvTypeOK, Works
  <2>3. v \in Works
    BY <2>1, <2>2 DEF Works, Urls
  <2>4. /\ v.what = w.what /\ v.network = w.network /\ v.kind = w.kind
        /\ v.chainOnly = w.chainOnly /\ v.asked = w.asked /\ v.missed = w.missed
    BY <2>1, <2>2 DEF Works
  <2>5. v.url = NoUrl \/ v = w
    BY <2>1, <2>2 DEF Works
  <2>6. Preflighted(w) /\ OwnNetwork(w) /\ (w.missed => MayMiss(w))
    BY <1>1 DEF PvInv
  <2>7. OwnNetwork(v)
    <3>1. CASE v = w
      BY <2>6, <3>1
    <3>2. CASE v.url = NoUrl
      BY <3>2, Zenon DEF OwnNetwork
    <3> QED
      BY <2>5, <3>1, <3>2
  <2>8. Preflighted(v) /\ (v.missed => MayMiss(v))
    BY <2>4, <2>6, SameRequest
  <2> QED
    BY <2>2, <2>3, <2>4, <2>7, <2>8
<1>4. PvTypeOK'
  <2>1. work' \subseteq Works /\ \A w \in work' : w.what = "stream" => Families[w.network] # "evm"
    BY <1>3
  <2>2. /\ config \in Configs /\ registry.enabled = DOMAIN registry.providers
        /\ \A n \in registry.enabled : registry.providers[n] \in Seq(ProviderEntries)
        /\ known \subseteq (DOMAIN Families) \X Kinds
    BY <1>1 DEF PvInv, PvTypeOK
  <2> QED
    BY <1>2, <2>1, <2>2 DEF PvTypeOK, Works
<1>5. \A w \in work' : Preflighted(w) /\ OwnNetwork(w) /\ (w.missed => MayMiss(w))
  BY <1>3
<1> QED
  BY <1>2, <1>4, <1>5, Zenon DEF PvInv

\* A step that leaves the process alone and changes the work piece by piece.
LEMMA AcceptedWorkStep ==
    ASSUME PvInv, NEW v, up' = up, config' = config, registry' = registry, known' = known,
           work' \subseteq work \cup {v},
           v \in Works, v.what = "stream" => Families[v.network] # "evm",
           Preflighted(v), OwnNetwork(v), v.missed => MayMiss(v)
    PROVE  PvInv'
<1>1. work \subseteq Works /\ \A w \in work : w.what = "stream" => Families[w.network] # "evm"
  BY DEF PvInv, PvTypeOK, Works
<1>2. work' \subseteq Works /\ \A w \in work' : w.what = "stream" => Families[w.network] # "evm"
  BY <1>1
<1>3. PvTypeOK'
  <2>1. /\ up \in BOOLEAN /\ config \in Configs /\ registry.enabled = DOMAIN registry.providers
        /\ \A n \in registry.enabled : registry.providers[n] \in Seq(ProviderEntries)
        /\ known \subseteq (DOMAIN Families) \X Kinds
    BY DEF PvInv, PvTypeOK
  <2>2. up' \in BOOLEAN
    BY <2>1
  <2>3. work' \subseteq [what : {"job", "stream"}, network : DOMAIN Families, kind : Kinds, chainOnly : BOOLEAN,
                         url : Urls, asked : Configs, ran : Configs, missed : BOOLEAN]
    BY <1>2 DEF Works
  <2>4. config' \in Configs /\ registry'.enabled = DOMAIN registry'.providers
    BY <2>1
  <2>5. \A n \in registry'.enabled : registry'.providers[n] \in Seq(ProviderEntries)
    BY <2>1
  <2> QED
    BY <1>2, <2>1, <2>2, <2>3, <2>4, <2>5, Zenon DEF PvTypeOK
<1>4. up' => Accepts(config)' /\ registry' = FromConfig(config)'
  BY DEF PvInv
<1>5. \A w \in work : Preflighted(w) /\ OwnNetwork(w) /\ (w.missed => MayMiss(w))
  BY DEF PvInv
<1>6. \A w \in work' : Preflighted(w) /\ OwnNetwork(w) /\ (w.missed => MayMiss(w))
  BY <1>5, Zenon
<1> QED
  BY <1>3, <1>4, <1>6, Zenon DEF PvInv

LEMMA RegisterTargetStep == PvInv /\ RegisterTarget => PvInv'
<1>1. SUFFICES ASSUME PvInv, RegisterTarget PROVE PvInv'
  OBVIOUS
<1>2. /\ known' \subseteq (DOMAIN Families) \X Kinds
      /\ up' = up /\ config' = config /\ registry' = registry /\ work' = work
  BY <1>1 DEF RegisterTarget, PvInv, PvTypeOK
<1>3. PvTypeOK'
  BY <1>1, <1>2, Zenon DEF PvInv, PvTypeOK
<1> QED
  BY <1>1, <1>2, <1>3, Zenon DEF PvInv

\* What a handler accepts is durable, under the configuration in force.
LEMMA AcceptedStep ==
    ASSUME PvInv, NEW what \in {"job", "stream"}, NEW n \in DOMAIN Families, NEW kind \in Kinds,
           NEW chainOnly \in BOOLEAN, Accepted(what, n, kind, chainOnly), up,
           what = "job" => /\ SupportsPublicIngest(kind, Families[n])
                           /\ chainOnly \/ Configured(registry, n),
           what = "stream" => StreamPreflight(n)
    PROVE  PvInv'
<1>1. PICK v : v = [what |-> what, network |-> n, kind |-> kind, chainOnly |-> chainOnly,
                    url |-> NoUrl, asked |-> config, ran |-> config, missed |-> FALSE]
  OBVIOUS
<1>2. work' = work \cup {v} /\ up' = up /\ config' = config /\ registry' = registry /\ known' = known
  BY <1>1 DEF Accepted
<1>3. config \in Configs /\ registry = FromConfig(config)
  BY DEF PvInv, PvTypeOK
<1>4. v \in Works
  BY <1>1, <1>3 DEF Works, Urls
<1>5. /\ v.what = what /\ v.network = n /\ v.kind = kind /\ v.chainOnly = chainOnly
      /\ v.asked = config /\ v.url = NoUrl /\ v.missed = FALSE
  BY <1>1
<1>6. v.what = "stream" => Families[v.network] # "evm"
  BY <1>5 DEF StreamPreflight
<1>7. Preflighted(v)
  <2>1. what = "job" => SupportsPublicIngest(kind, Families[n]) /\ (chainOnly \/ n \in EffectiveNetworks(config))
    BY UrlInForce
  <2>2. what = "stream" /\ Families[n] = "solana" => Url(FromConfig(config), n, "stream") # NoUrl \/ config.grpc # NoUrl
    BY <1>3 DEF StreamPreflight
  <2> QED
    BY <1>5, <2>1, <2>2, Zenon DEF Preflighted
<1>8. OwnNetwork(v)
  BY <1>5, Zenon DEF OwnNetwork
<1>9. work' \subseteq work \cup {v}
  BY <1>2
<1>10. v.missed => MayMiss(v)
  BY <1>5
<1> QED
  BY <1>2, <1>4, <1>6, <1>7, <1>8, <1>9, <1>10, AcceptedWorkStep

LEMMA DefaultNetworks ==
    ASSUME NEW f \in {"solana", "evm", "hyperliquid"}
    PROVE  DefaultNetworkOf(f) \in DOMAIN Families
<1>1. DefaultNetworkOf(f) \in {"solana-mainnet", "ethereum-mainnet", "hypercore-mainnet"}
  BY DEF DefaultNetworkOf
<1> QED
  BY <1>1, ProvidersAssumption

LEMMA TriggerTargetIngestStep == PvInv /\ TriggerTargetIngest => PvInv'
<1>1. SUFFICES ASSUME PvInv, TriggerTargetIngest PROVE PvInv'
  OBVIOUS
<1>2. PICK t \in known : /\ up /\ SupportsPublicIngest(t[2], Families[t[1]])
                         /\ Configured(registry, t[1])
                         /\ Accepted("job", t[1], t[2], FALSE)
  BY <1>1 DEF TriggerTargetIngest
<1>3. PICK n \in DOMAIN Families, kind \in Kinds : n = t[1] /\ kind = t[2]
  BY <1>1 DEF PvInv, PvTypeOK
<1>4. up /\ SupportsPublicIngest(kind, Families[n]) /\ Configured(registry, n) /\ Accepted("job", n, kind, FALSE)
  BY <1>2, <1>3
<1> QED
  BY <1>1, <1>4, AcceptedStep

LEMMA TriggerIngestStep == PvInv /\ TriggerIngest => PvInv'
<1>1. SUFFICES ASSUME PvInv, TriggerIngest PROVE PvInv'
  OBVIOUS
<1>2. "wallet" \in Kinds
  BY DEF Kinds
<1>3. \A n : SupportsPublicIngest("wallet", Families[n])
  BY DEF SupportsPublicIngest
<1>4. CASE \E n \in DOMAIN Families : up /\ Configured(registry, n) /\ Accepted("job", n, "wallet", FALSE)
  BY <1>1, <1>2, <1>3, <1>4, AcceptedStep
<1>5. CASE \E f \in {"solana", "evm", "hyperliquid"} : up /\ Accepted("job", DefaultNetworkOf(f), "wallet", TRUE)
  <2>1. PICK f \in {"solana", "evm", "hyperliquid"} : up /\ Accepted("job", DefaultNetworkOf(f), "wallet", TRUE)
    BY <1>5
  <2>2. PICK n \in DOMAIN Families : n = DefaultNetworkOf(f)
    BY DefaultNetworks
  <2>3. up /\ Accepted("job", n, "wallet", TRUE)
    BY <2>1, <2>2
  <2> QED
    BY <1>1, <1>2, <1>3, <2>3, AcceptedStep
<1> QED
  BY <1>1, <1>4, <1>5 DEF TriggerIngest

LEMMA StartStreamStep == PvInv /\ StartStream => PvInv'
<1>1. SUFFICES ASSUME PvInv, StartStream PROVE PvInv'
  OBVIOUS
<1>2. "wallet" \in Kinds
  BY DEF Kinds
<1>3. CASE \E n \in DOMAIN Families : /\ up /\ Configured(registry, n) /\ StreamPreflight(n)
                                      /\ Accepted("stream", n, "wallet", FALSE)
  BY <1>1, <1>2, <1>3, AcceptedStep
<1>4. CASE \E f \in {"solana", "hyperliquid"} :
              /\ up /\ StreamPreflight(DefaultNetworkOf(f))
              /\ Accepted("stream", DefaultNetworkOf(f), "wallet", TRUE)
  <2>1. PICK f \in {"solana", "hyperliquid"} : /\ up /\ StreamPreflight(DefaultNetworkOf(f))
                                               /\ Accepted("stream", DefaultNetworkOf(f), "wallet", TRUE)
    BY <1>4
  <2>2. PICK n \in DOMAIN Families : n = DefaultNetworkOf(f)
    BY DefaultNetworks
  <2>3. up /\ StreamPreflight(n) /\ Accepted("stream", n, "wallet", TRUE)
    BY <2>1, <2>2
  <2> QED
    BY <1>1, <1>2, <2>3, AcceptedStep
<1> QED
  BY <1>1, <1>3, <1>4 DEF StartStream

LEMMA RunWorkStep == PvInv /\ RunWork => PvInv'
<1>1. SUFFICES ASSUME PvInv, RunWork PROVE PvInv'
  OBVIOUS
<1>2. PICK w \in work :
        /\ up /\ w.url = NoUrl
        /\ work' = (work \ {w}) \cup
             {IF Reads(w, EndpointOf(w)) THEN [w EXCEPT !.url = EndpointOf(w), !.ran = config]
              ELSE [w EXCEPT !.missed = @ \/ config = w.asked]}
        /\ up' = up /\ config' = config /\ registry' = registry /\ known' = known
  BY <1>1, Zenon DEF RunWork
<1>3. w \in Works /\ (w.what = "stream" => Families[w.network] # "evm") /\ config \in Configs
  BY <1>1 DEF PvInv, PvTypeOK, Works
<1>4. Preflighted(w) /\ OwnNetwork(w) /\ (w.missed => MayMiss(w))
  BY <1>1 DEF PvInv
<1>5. CASE Reads(w, EndpointOf(w))
  <2>1. PICK u : u = EndpointOf(w)
    OBVIOUS
  <2>2. PICK cap : cap = IF w.what = "stream" THEN "stream" ELSE "historical"
    OBVIOUS
  <2>3. /\ u \in DOMAIN Serves
        /\ Serves[u] # w.network =>
              /\ Families[w.network] # "evm"
              /\ \/ Lists(config, w.network, cap, u)
                 \/ /\ ~ Listed(config, w.network, cap)
                    /\ \/ Families[w.network] = "hyperliquid" /\ u \in {HlInfoUrl, HlWsUrl}
                       \/ w.what = "stream" /\ Families[w.network] = "solana" /\ u = config.grpc
    BY <1>1, <1>2, <1>5, <2>1, <2>2, EndpointIsOwn
  <2>4. PICK v : v = [w EXCEPT !.url = u, !.ran = config]
    OBVIOUS
  <2>5. v \in Works
    BY <1>3, <2>3, <2>4 DEF Works, Urls
  <2>6. /\ v.what = w.what /\ v.network = w.network /\ v.kind = w.kind /\ v.chainOnly = w.chainOnly
        /\ v.asked = w.asked /\ v.missed = w.missed /\ v.url = u /\ v.ran = config
    BY <1>3, <2>4 DEF Works
  <2>7. Preflighted(v) /\ (v.missed => MayMiss(v))
    BY <1>4, <2>6, SameRequest
  <2>8. OwnNetwork(v)
    BY <2>2, <2>3, <2>6, Zenon DEF OwnNetwork
  <2>9. work' \subseteq work \cup {v}
    BY <1>2, <1>5, <2>1, <2>4
  <2> QED
    BY <1>1, <1>2, <1>3, <2>5, <2>6, <2>7, <2>8, <2>9, AcceptedWorkStep
<1>6. CASE ~ Reads(w, EndpointOf(w))
  <2>1. PICK b \in BOOLEAN : b <=> (w.missed \/ config = w.asked)
    OBVIOUS
  <2>2. PICK v : v = [w EXCEPT !.missed = w.missed \/ config = w.asked]
    OBVIOUS
  <2>3. v \in Works
    BY <1>3, <2>2 DEF Works
  <2>4. /\ v.what = w.what /\ v.network = w.network /\ v.kind = w.kind /\ v.chainOnly = w.chainOnly
        /\ v.asked = w.asked /\ v.url = NoUrl /\ (v.missed <=> w.missed \/ config = w.asked)
    BY <1>2, <1>3, <2>2 DEF Works
  <2>5. v.missed => MayMiss(w)
    BY <1>1, <1>2, <1>4, <1>6, <2>4, OnlyTheseMiss
  <2>6. Preflighted(v) /\ (v.missed => MayMiss(v))
    BY <1>4, <2>4, <2>5, SameRequest
  <2>7. OwnNetwork(v)
    BY <2>4, Zenon DEF OwnNetwork
  <2>8. work' \subseteq work \cup {v}
    BY <1>2, <1>6, <2>2
  <2> QED
    BY <1>1, <1>2, <1>3, <2>3, <2>4, <2>6, <2>7, <2>8, AcceptedWorkStep
<1> QED
  BY <1>5, <1>6

LEMMA PvStep == PvInv /\ [PvNext]_pvVars => PvInv'
<1>1. SUFFICES ASSUME PvInv, [PvNext]_pvVars PROVE PvInv'
  OBVIOUS
<1>2. CASE UNCHANGED pvVars
  BY <1>1, <1>2, Zenon DEF PvInv, PvTypeOK, pvVars
<1> QED
  BY <1>1, <1>2, StartApiStep, StopApiStep, RegisterTargetStep, TriggerTargetIngestStep,
     TriggerIngestStep, StartStreamStep, RunWorkStep DEF PvNext

\* The inductive invariant of configuration, registry and accepted work.
THEOREM PvInvariant == PvSpec => []PvInv
  BY PvInitInv, PvStep, PTL DEF PvSpec

\* The registry of a running process follows its configuration file.
LEMMA RegistryFollows == PvInv => RegistryFollowsConfig
<1>1. SUFFICES ASSUME PvInv, up PROVE RegistryFollowsConfig
  BY DEF RegistryFollowsConfig
<1>2. config \in Configs /\ registry = FromConfig(config)
  BY <1>1 DEF PvInv, PvTypeOK
<1>3. registry.enabled = EffectiveNetworks(config)
  BY <1>2, RegistryIs
<1>4. ASSUME NEW n \in DOMAIN config.networks
      PROVE  Configured(registry, n) <=> (config.networks[n] \/ (~Structured(config) /\ n \in AlwaysEnabled))
  <2>1. n \in EffectiveNetworks(config) <=> (config.networks[n] \/ (~Structured(config) /\ n \in AlwaysEnabled))
    BY DEF EffectiveNetworks
  <2> QED
    BY <1>3, <2>1 DEF Configured
<1>5. ASSUME NEW n \in registry.enabled, NEW cap \in Capabilities
      PROVE  LET of == {p \in ToSet(EffectiveProviders(config)) : p.network = n /\ cap \in p.caps}
                 u == Resolve(registry, n, cap)
             IN  IF of = {} THEN u = NoUrl
                 ELSE \E p \in of : p.url = u /\ \A q \in of : p.priority <= q.priority
  <2>1. PICK of : of = Of(config, n, cap)
    OBVIOUS
  <2>2. of = {} => Resolve(registry, n, cap) = NoUrl
    BY <1>2, <1>3, <2>1, ResolveIs
  <2>3. of # {} => \E p \in of : p.url = Resolve(registry, n, cap) /\ \A q \in of : p.priority <= q.priority
    BY <1>2, <1>3, <2>1, ResolveIs
  <2>4. of = {p \in ToSet(EffectiveProviders(config)) : p.network = n /\ cap \in p.caps}
    BY <2>1 DEF Of
  <2> QED
    BY <2>2, <2>3, <2>4, Zenon
<1> QED
  BY <1>4, <1>5, Zenon DEF RegistryFollowsConfig

\* Types, of the configuration the process holds, its registry and the work.
THEOREM PvTypes == PvSpec => []PvTypeOK
<1>1. PvInv => PvTypeOK
  BY DEF PvInv
<1> QED
  BY <1>1, PvInvariant, PTL

\* Work is served as the configuration says, over restarts with another one.
THEOREM WorkFollowsConfig == PvSpec => []ProvidersFollowConfig
<1>1. PvInv => ProvidersFollowConfig
  BY RegistryFollows DEF PvInv, ProvidersFollowConfig, FetchFromOwnNetwork, PreflightHolds
<1> QED
  BY <1>1, PvInvariant, PTL

-----------------------------------------------------------------------------
(* The command line *)

LEMMA CliSteps ==
    ASSUME [CliNext]_cliVars
    PROVE  [DwNext]_dwVars /\ [SlNext]_slVars /\ [PvNext]_pvVars
<1>1. CASE DwNext /\ UNCHANGED <<slVars, pvVars>>
  BY <1>1
<1>2. CASE SlNext /\ UNCHANGED <<dwVars, pvVars>>
  BY <1>2
<1>3. CASE PvNext /\ UNCHANGED <<dwVars, slVars>>
  BY <1>3
<1>4. CASE UNCHANGED cliVars
  BY <1>4 DEF cliVars
<1> QED
  BY <1>1, <1>2, <1>3, <1>4 DEF CliNext

\* The invariants of the parts hold side by side.
THEOREM CliInvariant == CliSpec => [](DwInv /\ SlInv /\ PvInv)
<1>1. CliInit => DwInv /\ SlInv /\ PvInv
  BY DwInitially, SlInvInit, PvInitInv DEF CliInit
<1>2. DwInv /\ SlInv /\ PvInv /\ [CliNext]_cliVars => (DwInv /\ SlInv /\ PvInv)'
  BY CliSteps, DwStep, SlInvNext, PvStep
<1> QED
  BY <1>1, <1>2, PTL DEF CliSpec

\* The tables of the commands and of the payload, the configuration, its registry
\* and the work keep their types and foreign keys.
THEOREM CliTypes == CliSpec => []TypesOK
<1>1. DwInv /\ SlInv /\ PvInv => TypesOK
  BY SlInvTypes DEF DwInv, PvInv, TypesOK
<1> QED
  BY <1>1, CliInvariant, PTL
=============================================================================
