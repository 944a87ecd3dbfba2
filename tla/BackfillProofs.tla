--------------------------- MODULE BackfillProofs ---------------------------
(* Proofs about the EVM, Hyperliquid and Solana connectors, for any windows, page
   sizes, ingest limits, confirmation depths and overlap of jobs. *)
EXTENDS EvmBackfill, HyperliquidBackfill, SolanaHistory, FiniteSetTheorems, TLAPS

-----------------------------------------------------------------------------
(* EvmBackfill *)

LEMMA SettledType ==
    ASSUME EvmTypeOK
    PROVE  /\ Settled \in Blocks /\ Settled \in Nat /\ Settled <= height
           /\ height \in Nat /\ MaxBlock \in Nat /\ Confirmations \in Nat /\ height <= MaxBlock
  BY EvmAssumption DEF EvmTypeOK, Blocks, Settled, ConfirmedHead, Greater

\* Reorganisations stay above the settled blocks, and blocks stay settled.
LEMMA SettledStep ==
    ASSUME EvmTypeOK, [EvmNext]_evmVars
    PROVE  /\ Settled' \in Int /\ Settled <= Settled' /\ fromBlock' = fromBlock
           /\ \A b \in Blocks : b <= Settled => fork'[b] = fork[b]
<1> USE EvmAssumption DEF EvmTypeOK, Blocks, Settled, ConfirmedHead, Greater
<1>1. CASE MineBlock
  BY <1>1 DEF MineBlock
<1>2. ASSUME NEW d \in 1..MaxReorg, Reorganise(d)
      PROVE  /\ Settled' = Settled /\ fromBlock' = fromBlock
             /\ \A b \in Blocks : b <= Settled => fork'[b] = fork[b]
  <2>1. ASSUME NEW b \in Blocks, b <= Settled PROVE ~ (height - d < b /\ b <= height)
    BY <1>2, <2>1 DEF Reorganise
  <2> QED
    BY <1>2, <2>1 DEF Reorganise
<1>3. CASE ~ MineBlock /\ ~ (\E d \in 1..MaxReorg : Reorganise(d))
  <2>1. UNCHANGED <<height, fork, fromBlock>>
    BY <1>3 DEF EvmNext, StartScan, RunScan, ScanWindow, ScanChunk, Enrich, CommitScan,
       RetryRequest, FailScan, chainVars, evmVars
  <2> QED
    BY <2>1
<1> QED
  BY <1>1, <1>2, <1>3

\* What is ingested up to a settled block stays ingested.
LEMMA IngestedStep ==
    ASSUME EvmTypeOK, [EvmNext]_evmVars, NEW upTo \in Int,
           upTo <= Settled, IngestedUpTo(upTo)
    PROVE  fromBlock' # -1 => \A b \in Blocks : fromBlock' <= b /\ b <= upTo => Ingested(b)'
<1>1. rawRows \subseteq rawRows'
  BY DEF EvmNext, MineBlock, Reorganise, StartScan, RunScan, ScanWindow, ScanChunk, Enrich,
     CommitScan, RetryRequest, FailScan, tableVars, evmVars
<1>2. ASSUME NEW b \in Blocks, b <= upTo PROVE b <= Settled
  BY <1>2, SettledType DEF Blocks
<1> QED
  BY <1>1, <1>2, SettledStep DEF IngestedUpTo, Ingested

LEMMA EndScanTypes ==
    ASSUME EvmTypeOK, NEW x \in EvmJobs, EndScan(x)
    PROVE  /\ evmPc' \in [EvmJobs -> {"idle", "window", "scan", "enrich", "commit"}]
           /\ cursor' \in [EvmJobs -> Blocks \cup {-1}]
           /\ window' \in [EvmJobs -> [from : Nat, end : Nat]]
           /\ query' \in [EvmJobs -> 1..Len(Queries)]
           /\ start' \in [EvmJobs -> Nat]
           /\ found' \in [EvmJobs -> SUBSET (QueryNames \X Blocks \X Forks)]
           /\ attempt' \in [EvmJobs -> Nat]
  BY EvmAssumption DEF EvmTypeOK, EndScan

\* The hits of a request are <<query, block, fork>> of the chain as it is.
LEMMA HitsType ==
    ASSUME EvmTypeOK, NEW q \in QueryNames, NEW a \in Int, NEW b \in Int
    PROVE  Hits(q, a, b) \subseteq QueryNames \X Blocks \X Forks
<1> SUFFICES ASSUME NEW h \in Hits(q, a, b) PROVE h \in QueryNames \X Blocks \X Forks
  OBVIOUS
<1>1. PICK n \in Blocks : h = <<q, n, fork[n]>>
  BY DEF Hits
<1>2. fork[n] \in Forks
  BY DEF EvmTypeOK
<1> QED
  BY <1>1, <1>2

LEMMA EvmTypeStep == EvmInv /\ [EvmNext]_evmVars => EvmTypeOK'
<1> SUFFICES ASSUME EvmInv, [EvmNext]_evmVars PROVE EvmTypeOK'
  OBVIOUS
<1>0. EvmTypeOK
  BY DEF EvmInv
<1>1. CASE MineBlock
  BY <1>0, <1>1, EvmAssumption DEF EvmTypeOK, Blocks, MineBlock, tableVars, jobVars
<1>2. ASSUME NEW d \in 1..MaxReorg, Reorganise(d) PROVE EvmTypeOK'
  <2>1. reorgs' \in Forks /\ reorgs + 1 \in Forks
    BY <1>0, <1>2, EvmAssumption DEF EvmTypeOK, Forks, Reorganise
  <2>2. fork' \in [Blocks -> Forks]
    BY <1>0, <1>2, <2>1 DEF EvmTypeOK, Reorganise
  <2> QED
    BY <1>0, <1>2, <2>1, <2>2 DEF EvmTypeOK, Reorganise, tableVars, jobVars
<1>3. ASSUME NEW x \in EvmJobs, StartScan(x) PROVE EvmTypeOK'
  BY <1>0, <1>3 DEF EvmTypeOK, StartScan, chainVars, tableVars
<1>4. ASSUME NEW x \in EvmJobs, NEW lag \in 0..MaxLag, ScanWindow(x, lag) PROVE EvmTypeOK'
  <2> DEFINE safe == ConfirmedHead(height - lag)
             from == CursorToFromBlock(x, safe)
             w == [from |-> from, end |-> Lesser(safe, from + BlockLimit - 1)]
  <2>1. safe \in Nat
    BY <1>0, <1>4, SettledType, EvmAssumption DEF ConfirmedHead, Greater, ScanWindow
  <2>2. cursor[x] \in Blocks \cup {-1} /\ fromBlock \in Blocks \cup {-1}
    BY <1>0 DEF EvmTypeOK
  <2>3. from \in Nat
    <3>1. CASE cursor[x] # -1
      BY <2>2, <3>1, EvmAssumption DEF CursorToFromBlock, Blocks
    <3>2. CASE cursor[x] = -1 /\ fromBlock # -1
      BY <2>2, <3>2, EvmAssumption DEF CursorToFromBlock, Blocks
    <3>3. CASE cursor[x] = -1 /\ fromBlock = -1
      BY <2>1, <3>3, EvmAssumption DEF CursorToFromBlock, Greater
    <3> QED
      BY <3>1, <3>2, <3>3
  <2>4. w \in [from : Nat, end : Nat]
    <3>1. Lesser(safe, from + BlockLimit - 1) \in Nat
      BY <2>1, <2>3, EvmAssumption DEF Lesser
    <3> QED
      BY <2>3, <3>1
  <2>5. CASE NonEmpty(w)
    <3>1. /\ window' = [window EXCEPT ![x] = w] /\ start' = [start EXCEPT ![x] = from]
          /\ evmPc' = [evmPc EXCEPT ![x] = "scan"]
          /\ UNCHANGED <<cursor, query, found, attempt, chainVars, tableVars, evmErrors>>
      BY <1>4, <2>5 DEF ScanWindow
    <3> HIDE DEF w, from, safe
    <3> QED
      BY <1>0, <2>3, <2>4, <3>1 DEF EvmTypeOK, chainVars, tableVars
  <2>6. CASE ~ NonEmpty(w)
    <3>1. EndScan(x) /\ UNCHANGED <<chainVars, tableVars, evmErrors>>
      BY <1>4, <2>6 DEF ScanWindow
    <3> QED
      BY <1>0, <3>1, EndScanTypes DEF EvmTypeOK, chainVars, tableVars
  <2> QED
    BY <2>5, <2>6
<1>5. ASSUME NEW x \in EvmJobs, ScanChunk(x) PROVE EvmTypeOK'
  <2>1. /\ Queries[query[x]] \in QueryNames /\ start[x] \in Nat /\ query[x] \in 1..Len(Queries)
        /\ window[x].from \in Nat /\ window[x].end \in Nat
    BY <1>0 DEF EvmTypeOK, QueryNames
  <2>2. ChunkEnd(x) \in Int
    <3>1. BlockChunk \in Nat
      BY EvmAssumption
    <3>2. start[x] + BlockChunk - 1 \in Int
      BY <2>1, <3>1
    <3> QED
      BY <2>1, <3>2 DEF ChunkEnd, Lesser
  <2>3. found' \in [EvmJobs -> SUBSET (QueryNames \X Blocks \X Forks)]
    <3>1. Hits(Queries[query[x]], start[x], ChunkEnd(x)) \subseteq QueryNames \X Blocks \X Forks
      BY <1>0, <2>1, <2>2, HitsType
    <3>2. found' = [found EXCEPT ![x] = @ \cup Hits(Queries[query[x]], start[x], ChunkEnd(x))]
      BY <1>5 DEF ScanChunk
    <3> QED
      BY <1>0, <3>1, <3>2 DEF EvmTypeOK
  <2>4. /\ start' \in [EvmJobs -> Nat] /\ query' \in [EvmJobs -> 1..Len(Queries)]
        /\ evmPc' \in [EvmJobs -> {"idle", "window", "scan", "enrich", "commit"}]
    <3>1. CASE ChunkEnd(x) < window[x].end
      <4>1. ChunkEnd(x) = start[x] + BlockChunk - 1
        BY <2>1, <3>1, EvmAssumption DEF ChunkEnd, Lesser
      <4>2. NextStart(ChunkEnd(x)) \in Nat
        BY <2>1, <4>1, EvmAssumption DEF NextStart
      <4>3. start' = [start EXCEPT ![x] = NextStart(ChunkEnd(x))] /\ UNCHANGED <<evmPc, query>>
        BY <1>5, <3>1 DEF ScanChunk
      <4> QED
        BY <1>0, <4>2, <4>3 DEF EvmTypeOK
    <3>2. CASE ~ (ChunkEnd(x) < window[x].end) /\ query[x] < Len(Queries)
      <4>1. query[x] + 1 \in 1..Len(Queries)
        BY <2>1, <3>2, EvmAssumption
      <4>2. /\ query' = [query EXCEPT ![x] = @ + 1] /\ start' = [start EXCEPT ![x] = window[x].from]
            /\ UNCHANGED evmPc
        BY <1>5, <3>2 DEF ScanChunk
      <4> QED
        BY <1>0, <2>1, <4>1, <4>2 DEF EvmTypeOK
    <3>3. CASE ~ (ChunkEnd(x) < window[x].end) /\ ~ (query[x] < Len(Queries))
      BY <1>0, <1>5, <3>3 DEF EvmTypeOK, ScanChunk
    <3> QED
      BY <3>1, <3>2, <3>3
  <2>5. attempt' \in [EvmJobs -> Nat]
    BY <1>0, <1>5 DEF EvmTypeOK, ScanChunk
  <2> QED
    BY <1>0, <1>5, <2>3, <2>4, <2>5 DEF EvmTypeOK, ScanChunk, chainVars, tableVars
<1>6. ASSUME NEW x \in EvmJobs, RetryRequest(x) PROVE EvmTypeOK'
  <2>1. evmErrors' \in 0..MaxEvmErrors /\ UNCHANGED <<chainVars, tableVars>>
    BY <1>0, <1>6, EvmAssumption DEF EvmTypeOK, RetryRequest
  <2>2. CASE EndScan(x)
    BY <1>0, <2>1, <2>2, EndScanTypes DEF EvmTypeOK, chainVars, tableVars
  <2>3. CASE ~ EndScan(x)
    <3>1. /\ attempt' = [attempt EXCEPT ![x] = @ + 1]
          /\ UNCHANGED <<evmPc, cursor, window, query, start, found>>
      BY <1>6, <2>3 DEF RetryRequest
    <3> QED
      BY <1>0, <2>1, <3>1 DEF EvmTypeOK, chainVars, tableVars
  <2> QED
    BY <2>2, <2>3
<1>7. ASSUME NEW x \in EvmJobs, Enrich(x) PROVE EvmTypeOK'
  <2>1. UNCHANGED <<chainVars, tableVars, evmErrors>>
    BY <1>7 DEF Enrich
  <2>2. CASE EndScan(x)
    BY <1>0, <2>1, <2>2, EndScanTypes DEF EvmTypeOK, chainVars, tableVars
  <2>3. CASE ~ EndScan(x)
    BY <1>0, <1>7, <2>1, <2>3 DEF EvmTypeOK, Enrich, chainVars, tableVars
  <2> QED
    BY <2>2, <2>3
<1>8. ASSUME NEW x \in EvmJobs, CommitScan(x) PROVE EvmTypeOK'
  <2>1. EndScan(x) /\ UNCHANGED <<chainVars, evmErrors>>
    BY <1>8 DEF CommitScan
  <2>2. lastBlock' \in Blocks
    <3>1. ScanSound(x) /\ window[x].end \in Nat
      BY <1>8, <1>0 DEF EvmInv, CommitScan, EvmTypeOK
    <3> QED
      <4>1. lastBlock' = window[x].end /\ window[x].end <= Settled
        BY <1>8, <3>1 DEF CommitScan, ScanCheckpoint, ScanSound
      <4>2. Settled \in Nat /\ Settled <= MaxBlock /\ MaxBlock \in Nat
        BY <1>0, SettledType
      <4> QED
        BY <3>1, <4>1, <4>2 DEF Blocks
  <2>3. rawRows' \subseteq Blocks \X Forks
    <3>1. found[x] \subseteq QueryNames \X Blocks \X Forks /\ rawRows \subseteq Blocks \X Forks
      BY <1>0 DEF EvmTypeOK
    <3> QED
      BY <1>8, <3>1 DEF CommitScan, Records
  <2> QED
    BY <1>0, <2>1, <2>2, <2>3, EndScanTypes DEF EvmTypeOK, chainVars
<1>9. ASSUME NEW x \in EvmJobs, FailScan(x) PROVE EvmTypeOK'
  <2>1. EndScan(x) /\ UNCHANGED <<chainVars, tableVars>> /\ evmErrors' \in 0..MaxEvmErrors
    BY <1>0, <1>9, EvmAssumption DEF EvmTypeOK, FailScan
  <2> QED
    BY <1>0, <2>1, EndScanTypes DEF EvmTypeOK, chainVars, tableVars
<1>10. CASE UNCHANGED evmVars
  BY <1>0, <1>10 DEF EvmTypeOK, evmVars, chainVars, tableVars, jobVars
<1> QED
  BY <1>1, <1>2, <1>3, <1>4, <1>5, <1>6, <1>7, <1>8, <1>9, <1>10 DEF EvmNext, RunScan

\* A scan that is not at a request keeps what it found.
LEMMA ScanSoundStable ==
    ASSUME EvmInv, [EvmNext]_evmVars, NEW y \in EvmJobs,
           ScanSound(y),
           evmPc'[y] = evmPc[y] \/ (evmPc[y] # "scan" /\ evmPc'[y] # "scan"),
           cursor'[y] = cursor[y], window'[y] = window[y], query'[y] = query[y],
           start'[y] = start[y], found'[y] = found[y]
    PROVE  ScanSound(y)'
<1>0. EvmTypeOK
  BY DEF EvmInv
<1>1. /\ Settled \in Nat /\ Settled' \in Int /\ Settled <= Settled' /\ fromBlock' = fromBlock
      /\ \A b \in Blocks : b <= Settled => fork'[b] = fork[b]
  BY <1>0, SettledType, SettledStep
<1>2. /\ window[y].end \in Nat /\ window[y].from \in Nat /\ found[y] \subseteq QueryNames \X Blocks \X Forks
  BY <1>0 DEF EvmTypeOK
<1>3. window[y].end <= Settled'
  BY <1>1, <1>2 DEF ScanSound
<1>4. ASSUME NEW l \in found[y] PROVE l[2] <= Settled' /\ fork'[l[2]] = l[3]
  <2>1. l[2] \in Blocks /\ l[2] <= Settled /\ fork[l[2]] = l[3]
    BY <1>2 DEF ScanSound
  <2> QED
    BY <1>1, <2>1 DEF Blocks
<1>5. ASSUME NEW b \in Blocks, b <= window[y].end PROVE fork'[b] = fork[b]
  BY <1>1, <1>2, <1>5 DEF ScanSound, Blocks
<1> QED
  BY <1>1, <1>3, <1>4, <1>5 DEF ScanSound

\* A request adds what its query returns for the next blocks of the window.
LEMMA ScanChunkSound ==
    ASSUME EvmInv, NEW x \in EvmJobs, ScanChunk(x)
    PROVE  ScanSound(x)'
<1>0. EvmTypeOK /\ ScanSound(x) /\ evmPc[x] = "scan"
  BY DEF EvmInv, ScanChunk
<1>1. /\ UNCHANGED <<height, fork, fromBlock>> /\ Settled' = Settled
      /\ window'[x] = window[x] /\ cursor'[x] = cursor[x]
      /\ found'[x] = found[x] \cup Hits(Queries[query[x]], start[x], ChunkEnd(x))
  BY <1>0 DEF ScanChunk, chainVars, EvmTypeOK, Settled
<1>2. /\ start[x] \in Nat /\ query[x] \in 1..Len(Queries) /\ Len(Queries) \in Nat
      /\ window[x].from \in Nat /\ window[x].end \in Nat
  BY <1>0, EvmAssumption DEF EvmTypeOK
<1>3. /\ ChunkEnd(x) \in Int /\ ChunkEnd(x) <= window[x].end
      /\ ChunkEnd(x) < window[x].end => ChunkEnd(x) = start[x] + BlockChunk - 1
  BY <1>2, EvmAssumption DEF ChunkEnd, Lesser
<1>4. Settled \in Nat
  BY <1>0, SettledType
<1>5. ASSUME NEW l \in found'[x] PROVE l[2] <= Settled /\ fork[l[2]] = l[3]
  <2>1. CASE l \in found[x]
    BY <1>0, <2>1 DEF ScanSound
  <2>2. CASE l \in Hits(Queries[query[x]], start[x], ChunkEnd(x))
    <3>1. PICK n \in Blocks \cap start[x]..ChunkEnd(x) : l = <<Queries[query[x]], n, fork[n]>>
      BY <2>2 DEF Hits
    <3>2. n <= Settled
      BY <1>0, <1>2, <1>3, <1>4 DEF ScanSound, Blocks
    <3> QED
      BY <3>1, <3>2
  <2> QED
    BY <1>1, <1>5, <2>1, <2>2
<1>6. ASSUME NEW i \in 1..Len(Queries), NEW b \in Blocks,
             window[x].from <= b, b <= window[x].end,
             i < query[x] \/ (i = query[x] /\ b <= ChunkEnd(x)),
             Queries[i] \in Match[b][fork[b]]
      PROVE  <<Queries[i], b, fork[b]>> \in found'[x]
  <2>0. b \in Int
    BY EvmAssumption DEF Blocks
  <2>1. CASE i < query[x] \/ (i = query[x] /\ b < start[x])
    BY <1>0, <1>1, <1>6, <2>1 DEF ScanSound
  <2>2. CASE i = query[x] /\ ~ (b < start[x])
    <3>1. b \in Blocks \cap start[x]..ChunkEnd(x)
      BY <1>2, <1>3, <1>6, <2>0, <2>2
    <3> QED
      BY <1>1, <1>6, <2>2, <3>1 DEF Hits
  <2> QED
    BY <1>6, <2>1, <2>2
<1>7. ASSUME NEW i \in 1..Len(Queries), NEW b \in Blocks,
             window[x].from <= b, b <= window[x].end,
             evmPc'[x] # "scan" \/ i < query'[x] \/ (i = query'[x] /\ b < start'[x]),
             Queries[i] \in Match[b][fork[b]]
      PROVE  <<Queries[i], b, fork[b]>> \in found'[x]
  <2>0. b \in Int
    BY EvmAssumption DEF Blocks
  <2>1. CASE ChunkEnd(x) < window[x].end
    <3>1. evmPc'[x] = "scan" /\ query'[x] = query[x] /\ start'[x] = ChunkEnd(x) + 1
      BY <1>0, <2>1 DEF ScanChunk, NextStart, EvmTypeOK
    <3>2. i < query[x] \/ (i = query[x] /\ b <= ChunkEnd(x))
      BY <1>3, <1>7, <2>0, <3>1
    <3> QED
      BY <1>6, <1>7, <3>2
  <2>2. CASE ~ (ChunkEnd(x) < window[x].end) /\ query[x] < Len(Queries)
    <3>1. evmPc'[x] = "scan" /\ query'[x] = query[x] + 1 /\ start'[x] = window[x].from
      BY <1>0, <2>2 DEF ScanChunk, EvmTypeOK
    <3>2. i <= query[x] /\ b <= ChunkEnd(x)
      BY <1>2, <1>3, <1>7, <2>0, <2>2, <3>1
    <3>3. i < query[x] \/ i = query[x]
      BY <1>2, <3>2
    <3> QED
      BY <1>6, <1>7, <3>2, <3>3
  <2>3. CASE ~ (ChunkEnd(x) < window[x].end) /\ ~ (query[x] < Len(Queries))
    <3>1. i <= query[x] /\ b <= ChunkEnd(x)
      BY <1>2, <1>3, <1>7, <2>0, <2>3
    <3>2. i < query[x] \/ i = query[x]
      BY <1>2, <3>1
    <3> QED
      BY <1>6, <1>7, <3>1, <3>2
  <2> QED
    BY <2>1, <2>2, <2>3
<1>8. /\ window[x].end <= Settled /\ window[x].from <= window[x].end
      /\ fromBlock # -1 => window[x].from = IF cursor[x] # -1 THEN cursor[x] + 1 ELSE fromBlock
  BY <1>0 DEF ScanSound
<1> QED
  BY <1>1, <1>5, <1>7, <1>8 DEF ScanSound

\* A window begins where the checkpoint ends and ends in settled blocks.
LEMMA ScanWindowSound ==
    ASSUME EvmInv, NEW x \in EvmJobs, NEW lag \in 0..MaxLag, ScanWindow(x, lag),
           evmPc'[x] # "idle"
    PROVE  ScanSound(x)'
<1>0. EvmTypeOK /\ found[x] = {} /\ query[x] = 1
  BY DEF EvmInv, ScanWindow
<1> DEFINE safe == ConfirmedHead(height - lag)
           from == CursorToFromBlock(x, safe)
           w == [from |-> from, end |-> Lesser(safe, from + BlockLimit - 1)]
<1>1. NonEmpty(w)
  <2>1. CASE EndScan(x)
    BY <1>0, <2>1 DEF EndScan, EvmTypeOK
  <2>2. CASE ~ EndScan(x)
    BY <2>2 DEF ScanWindow
  <2> QED
    BY <2>1, <2>2
<1>2. /\ window'[x] = w /\ start'[x] = from /\ evmPc'[x] = "scan"
      /\ UNCHANGED <<cursor, query, found, height, fork, fromBlock>> /\ Settled' = Settled
  BY <1>0, <1>1 DEF ScanWindow, EvmTypeOK, chainVars, Settled
<1>3. safe \in Nat /\ safe <= Settled /\ Settled \in Nat
  BY <1>0, SettledType, EvmAssumption DEF ConfirmedHead, Greater, ScanWindow, Settled
<1>4. fromBlock # -1 => from = IF cursor[x] # -1 THEN cursor[x] + 1 ELSE fromBlock
  BY DEF CursorToFromBlock
<1>5. from \in Nat
  <2>1. cursor[x] \in Blocks \cup {-1} /\ fromBlock \in Blocks \cup {-1}
    BY <1>0 DEF EvmTypeOK
  <2>2. CASE cursor[x] # -1
    BY <2>1, <2>2, EvmAssumption DEF CursorToFromBlock, Blocks
  <2>3. CASE cursor[x] = -1 /\ fromBlock # -1
    BY <2>1, <2>3, EvmAssumption, SMTT(20) DEF CursorToFromBlock, Blocks
  <2>4. CASE cursor[x] = -1 /\ fromBlock = -1
    <3>1. BlockLimit \in Nat
      BY EvmAssumption
    <3>2. from = Greater(safe - (BlockLimit - 1), 0)
      BY <2>4 DEF CursorToFromBlock
    <3>3. safe - (BlockLimit - 1) \in Int
      BY <1>3, <3>1
    <3> QED
      BY <3>2, <3>3 DEF Greater
  <2> QED
    BY <2>2, <2>3, <2>4
<1> HIDE DEF safe, from
<1>6. w.from = from /\ w.end = Lesser(safe, from + BlockLimit - 1)
  OBVIOUS
<1>7. w.end <= Settled /\ w.from <= w.end /\ w.end \in Int
  BY <1>1, <1>3, <1>5, <1>6, EvmAssumption DEF Lesser, NonEmpty
<1> HIDE DEF w
<1>8. ASSUME NEW i \in 1..Len(Queries), NEW b \in Blocks, w.from <= b,
             i < 1 \/ (i = 1 /\ b < from)
      PROVE  FALSE
  <2>1. b \in Int
    BY EvmAssumption DEF Blocks
  <2> QED
    BY <1>5, <1>6, <1>8, <2>1
<1> QED
  BY <1>0, <1>2, <1>4, <1>6, <1>7, <1>8 DEF ScanSound

\* A commit covers the window that follows the checkpoint it was read for.
LEMMA CommitScanSound ==
    ASSUME EvmInv, NEW x \in EvmJobs, CommitScan(x)
    PROVE  /\ lastBlock' <= Settled' /\ IngestedUpTo(lastBlock)'
           /\ \A r \in rawRows' : r[1] <= Settled' /\ fork'[r[1]] = r[2]
<1>0. EvmTypeOK /\ ScanSound(x) /\ IngestedUpTo(cursor[x]) /\ evmPc[x] = "commit"
  BY DEF EvmInv, CommitScan
<1>1. /\ UNCHANGED <<height, fork, fromBlock>> /\ Settled' = Settled
      /\ lastBlock' = window[x].end /\ rawRows' = rawRows \cup Records(x)
  BY DEF CommitScan, chainVars, Settled, ScanCheckpoint
<1>2. /\ window[x].end \in Nat /\ window[x].from \in Nat /\ cursor[x] \in Int
      /\ fromBlock \in Int /\ Settled \in Nat
  BY <1>0, SettledType, EvmAssumption, SMTT(20) DEF EvmTypeOK, Blocks
<1>3. \A r \in rawRows' : r[1] <= Settled /\ fork[r[1]] = r[2]
  <2>1. ASSUME NEW r \in Records(x) PROVE r[1] <= Settled /\ fork[r[1]] = r[2]
    BY <1>0 DEF Records, ScanSound
  <2>2. \A r \in rawRows : r[1] <= Settled /\ fork[r[1]] = r[2]
    BY DEF EvmInv
  <2> QED
    BY <1>1, <2>1, <2>2
<1>4. ASSUME fromBlock # -1, NEW b \in Blocks, fromBlock <= b, b <= window[x].end,
             Match[b][fork[b]] # {}
      PROVE  <<b, fork[b]>> \in rawRows'
  <2>0. b \in Nat
    BY EvmAssumption DEF Blocks
  <2>1. CASE b < window[x].from
    <3>1. cursor[x] # -1 /\ window[x].from = cursor[x] + 1
      BY <1>0, <1>2, <1>4, <2>0, <2>1 DEF ScanSound
    <3>2. b <= cursor[x]
      BY <1>2, <2>0, <2>1, <3>1
    <3>3. Ingested(b)
      BY <1>0, <1>4, <3>2 DEF IngestedUpTo
    <3> QED
      BY <1>1, <1>4, <3>3 DEF Ingested
  <2>2. CASE window[x].from <= b
    <3>1. PICK q \in Match[b][fork[b]] : TRUE
      BY <1>4
    <3>2. q \in QueryNames
      <4>1. fork[b] \in Forks
        BY <1>0 DEF EvmTypeOK
      <4>2. Match[b][fork[b]] \in SUBSET QueryNames
        BY <4>1, EvmAssumption
      <4> QED
        BY <3>1, <4>2
    <3>3. PICK i \in 1..Len(Queries) : Queries[i] = q
      BY <3>2 DEF QueryNames
    <3>4. <<q, b, fork[b]>> \in found[x]
      BY <1>0, <1>4, <2>2, <3>1, <3>3 DEF ScanSound
    <3>5. <<b, fork[b]>> \in Records(x)
      BY <3>4 DEF Records
    <3> QED
      BY <1>1, <3>5
  <2> QED
    BY <1>2, <2>0, <2>1, <2>2
<1>5. window[x].end <= Settled
  BY <1>0 DEF ScanSound
<1> QED
  BY <1>1, <1>3, <1>4, <1>5 DEF IngestedUpTo, Ingested

LEMMA EvmInvStep == EvmInv /\ [EvmNext]_evmVars => EvmInv'
<1> SUFFICES ASSUME EvmInv, [EvmNext]_evmVars PROVE EvmInv'
  OBVIOUS
<1>0. EvmTypeOK /\ EvmTypeOK'
  BY EvmTypeStep DEF EvmInv
<1>1. /\ Settled \in Nat /\ Settled' \in Int /\ Settled <= Settled' /\ fromBlock' = fromBlock
      /\ \A b \in Blocks : b <= Settled => fork'[b] = fork[b]
  BY <1>0, SettledType, SettledStep
<1>2. /\ lastBlock' <= Settled' /\ IngestedUpTo(lastBlock)'
      /\ \A r \in rawRows' : r[1] <= Settled' /\ fork'[r[1]] = r[2]
  <2>1. CASE \E x \in EvmJobs : CommitScan(x)
    BY <2>1, CommitScanSound
  <2>2. CASE ~ \E x \in EvmJobs : CommitScan(x)
    <3>1. UNCHANGED <<lastBlock, rawRows>>
      BY <2>2 DEF EvmNext, MineBlock, Reorganise, StartScan, RunScan, ScanWindow, ScanChunk,
         Enrich, RetryRequest, FailScan, tableVars, evmVars
    <3>2. lastBlock \in Int /\ lastBlock <= Settled /\ IngestedUpTo(lastBlock)
      BY <1>0, EvmAssumption DEF EvmInv, EvmTypeOK, Blocks
    <3>3. ASSUME NEW r \in rawRows PROVE r[1] <= Settled' /\ fork'[r[1]] = r[2]
      <4>1. r[1] \in Blocks /\ r[1] <= Settled /\ fork[r[1]] = r[2]
        BY <1>0 DEF EvmInv, EvmTypeOK
      <4> QED
        BY <1>1, <4>1 DEF Blocks
    <3>4. lastBlock <= Settled'
      BY <1>1, <3>2
    <3>5. fromBlock' # -1 => \A b \in Blocks : fromBlock' <= b /\ b <= lastBlock => Ingested(b)'
      BY <1>0, <3>2, IngestedStep
    <3> QED
      BY <3>1, <3>3, <3>4, <3>5 DEF IngestedUpTo
  <2> QED
    BY <2>1, <2>2
<1>3. ASSUME NEW y \in EvmJobs
      PROVE  cursor'[y] <= Settled' /\ IngestedUpTo(cursor[y])'
  <2>1. cursor'[y] \in {cursor[y], lastBlock, -1}
    <3>1. cursor \in [EvmJobs -> Blocks \cup {-1}]
      BY <1>0 DEF EvmTypeOK
    <3> QED
      BY <3>1, ZenonT(40) DEF EvmNext, MineBlock, Reorganise, StartScan, RunScan, ScanWindow, ScanChunk,
         Enrich, CommitScan, RetryRequest, FailScan, EndScan, jobVars, evmVars
  <2>2. ASSUME NEW c \in Int, c <= Settled, IngestedUpTo(c), cursor'[y] = c
        PROVE  cursor'[y] <= Settled' /\ IngestedUpTo(cursor[y])'
    <3>1. c <= Settled'
      BY <1>1, <2>2
    <3>2. fromBlock' # -1 => \A b \in Blocks : fromBlock' <= b /\ b <= c => Ingested(b)'
      BY <1>0, <2>2, IngestedStep
    <3> QED
      BY <2>2, <3>1, <3>2 DEF IngestedUpTo
  <2>3. cursor[y] \in Int /\ cursor[y] <= Settled /\ IngestedUpTo(cursor[y])
    <3>1. cursor[y] \in Int
      BY <1>0, EvmAssumption DEF EvmTypeOK, Blocks
    <3> QED
      BY <1>0, <3>1 DEF EvmInv
  <2>4. lastBlock \in Int /\ lastBlock <= Settled /\ IngestedUpTo(lastBlock)
    BY <1>0, EvmAssumption DEF EvmInv, EvmTypeOK, Blocks
  <2>5. -1 <= Settled /\ IngestedUpTo(-1)
    <3>1. ASSUME fromBlock # -1, NEW b \in Blocks, fromBlock <= b, b <= -1 PROVE FALSE
      BY <3>1, EvmAssumption DEF Blocks
    <3> QED
      BY <1>1, <3>1 DEF IngestedUpTo
  <2> QED
    BY <2>1, <2>2, <2>3, <2>4, <2>5
<1>4. ASSUME NEW y \in EvmJobs
      PROVE  /\ evmPc'[y] = "idle" => cursor'[y] = -1
             /\ evmPc'[y] \in {"idle", "window"} => found'[y] = {} /\ query'[y] = 1
             /\ evmPc'[y] \in {"scan", "enrich", "commit"} => ScanSound(y)'
  <2> DEFINE Goal ==
             /\ evmPc'[y] = "idle" => cursor'[y] = -1
             /\ evmPc'[y] \in {"idle", "window"} => found'[y] = {} /\ query'[y] = 1
             /\ evmPc'[y] \in {"scan", "enrich", "commit"} => ScanSound(y)'
  <2> SUFFICES Goal
    OBVIOUS
  <2>0. /\ evmPc[y] = "idle" => cursor[y] = -1
        /\ evmPc[y] \in {"idle", "window"} => found[y] = {} /\ query[y] = 1
        /\ evmPc[y] \in {"scan", "enrich", "commit"} => ScanSound(y)
    BY DEF EvmInv
  <2>1. CASE /\ evmPc'[y] = evmPc[y] /\ cursor'[y] = cursor[y] /\ window'[y] = window[y]
             /\ query'[y] = query[y] /\ start'[y] = start[y] /\ found'[y] = found[y]
    <3>1. evmPc[y] \in {"scan", "enrich", "commit"} => ScanSound(y)'
      BY <2>0, <2>1, ScanSoundStable
    <3> QED
      BY <2>0, <2>1, <3>1
  <2>2. CASE EndScan(y)
    <3>1. evmPc'[y] = "idle" /\ cursor'[y] = -1 /\ found'[y] = {} /\ query'[y] = 1
      BY <1>0, <2>2 DEF EndScan, EvmTypeOK
    <3> QED
      BY <3>1
  <2>3. CASE StartScan(y)
    <3>1. /\ evmPc[y] = "idle" /\ evmPc'[y] = "window" /\ found'[y] = found[y] /\ query'[y] = query[y]
      BY <1>0, <2>3 DEF StartScan, EvmTypeOK
    <3> QED
      BY <2>0, <3>1
  <2>4. ASSUME NEW lag \in 0..MaxLag, ScanWindow(y, lag), ~ EndScan(y) PROVE Goal
    <3>1. evmPc'[y] = "scan"
      BY <1>0, <2>4 DEF ScanWindow, EvmTypeOK
    <3> QED
      BY <2>4, <3>1, ScanWindowSound
  <2>5. CASE ScanChunk(y)
    <3>1. evmPc'[y] \in {"scan", "enrich"}
      BY <1>0, <2>5 DEF ScanChunk, EvmTypeOK
    <3> QED
      BY <2>5, <3>1, ScanChunkSound
  <2>6. CASE Enrich(y) /\ ~ EndScan(y)
    <3>1. /\ evmPc[y] = "enrich" /\ evmPc'[y] = "commit" /\ cursor'[y] = cursor[y]
          /\ window'[y] = window[y] /\ query'[y] = query[y] /\ start'[y] = start[y]
          /\ found'[y] = found[y]
      BY <1>0, <2>6 DEF Enrich, EvmTypeOK
    <3> QED
      BY <2>0, <3>1, ScanSoundStable
  <2>7. ASSUME NEW x \in EvmJobs, x # y,
               StartScan(x) \/ RunScan(x) \/ RetryRequest(x) \/ FailScan(x)
        PROVE  /\ evmPc'[y] = evmPc[y] /\ cursor'[y] = cursor[y] /\ window'[y] = window[y]
               /\ query'[y] = query[y] /\ start'[y] = start[y] /\ found'[y] = found[y]
    <3>0. CASE EndScan(x)
      BY <1>0, <2>7, <3>0 DEF EndScan, EvmTypeOK
    <3>1. CASE StartScan(x)
      BY <1>0, <2>7, <3>1 DEF StartScan, EvmTypeOK
    <3>3. ASSUME NEW lag \in 0..MaxLag, ScanWindow(x, lag), ~ EndScan(x)
          PROVE  /\ evmPc'[y] = evmPc[y] /\ cursor'[y] = cursor[y] /\ window'[y] = window[y]
                 /\ query'[y] = query[y] /\ start'[y] = start[y] /\ found'[y] = found[y]
      BY <1>0, <2>7, <3>3 DEF ScanWindow, EvmTypeOK
    <3>4. CASE ScanChunk(x)
      BY <1>0, <2>7, <3>4, SMTT(20) DEF ScanChunk, EvmTypeOK
    <3>2. CASE Enrich(x) \/ CommitScan(x) \/ RetryRequest(x) \/ FailScan(x)
      BY <1>0, <2>7, <3>2 DEF Enrich, CommitScan, RetryRequest, FailScan, EndScan, EvmTypeOK
    <3> QED
      BY <2>7, <3>0, <3>1, <3>2, <3>3, <3>4 DEF RunScan
  <2>8. CASE MineBlock \/ (\E d \in 1..MaxReorg : Reorganise(d)) \/ UNCHANGED evmVars
    BY <2>1, <2>8 DEF MineBlock, Reorganise, jobVars, evmVars
  <2>9. CASE RetryRequest(y) /\ ~ EndScan(y)
    BY <2>1, <2>9 DEF RetryRequest
  <2>10. CommitScan(y) \/ FailScan(y) => EndScan(y)
    BY DEF CommitScan, FailScan
  <2> HIDE DEF Goal
  <2>11. ASSUME NEW x \in EvmJobs, StartScan(x) \/ RunScan(x) \/ RetryRequest(x) \/ FailScan(x)
         PROVE  Goal
    <3>1. CASE x # y
      BY <2>1, <2>7, <2>11, <3>1
    <3>2. CASE x = y
      <4>1. \/ StartScan(y) \/ ScanChunk(y) \/ Enrich(y) \/ RetryRequest(y)
            \/ CommitScan(y) \/ FailScan(y) \/ \E lag \in 0..MaxLag : ScanWindow(y, lag)
        BY <2>11, <3>2 DEF RunScan
      <4> QED
        BY <2>2, <2>3, <2>4, <2>5, <2>6, <2>9, <2>10, <4>1
    <3> QED
      BY <3>1, <3>2
  <2>12. Goal
    BY <2>8, <2>11 DEF EvmNext
  <2> QED
    BY <2>12
<1> QED
  BY <1>0, <1>2, <1>3, <1>4 DEF EvmInv

\* The inductive invariant of the EVM scan holds for every limit, chunk and
\* confirmation depth and any number of overlapping jobs.
THEOREM EvmInvariant == EvmSpec => []EvmInv
<1>1. EvmInit => EvmInv
  <2> SUFFICES ASSUME EvmInit PROVE EvmInv
    OBVIOUS
  <2>1. EvmTypeOK
    <3>0. 0 \in Blocks /\ 0 \in Forks /\ 0 \in 0..MaxEvmErrors
      BY EvmAssumption DEF Blocks, Forks
    <3>1. height \in Blocks /\ reorgs \in Forks /\ fork \in [Blocks -> Forks] /\ evmErrors \in 0..MaxEvmErrors
      BY <3>0 DEF EvmInit
    <3>2. fromBlock \in Blocks \cup {-1} /\ lastBlock \in Blocks \cup {-1} /\ rawRows = {}
      <4>1. StartBlocks \subseteq Blocks \cup {-1}
        BY EvmAssumption
      <4> QED
        BY <4>1 DEF EvmInit
    <3>3. /\ window \in [EvmJobs -> [from : Nat, end : Nat]] /\ query \in [EvmJobs -> 1..Len(Queries)]
          /\ start \in [EvmJobs -> Nat] /\ attempt \in [EvmJobs -> Nat]
      BY EvmAssumption DEF EvmInit
    <3> QED
      BY <3>1, <3>2, <3>3 DEF EvmInit, EvmTypeOK, Blocks
  <2>2. Settled \in Nat
    BY <2>1, SettledType
  <2>3. -1 <= Settled /\ IngestedUpTo(-1)
    <3>1. ASSUME NEW b \in Blocks, b <= -1 PROVE FALSE
      BY <3>1, EvmAssumption DEF Blocks
    <3> QED
      BY <2>2, <3>1 DEF IngestedUpTo
  <2> QED
    BY <2>1, <2>3 DEF EvmInit, EvmInv
<1> QED
  BY <1>1, EvmInvStep, PTL DEF EvmSpec

\* Every variable of EvmBackfill keeps its type.
THEOREM EvmTypes == EvmSpec => []EvmTypeOK
<1>1. EvmInv => EvmTypeOK
  BY DEF EvmInv
<1> QED
  BY <1>1, EvmInvariant, PTL

\* Up to an EVM checkpoint no block of a target with a start block is missing
\* (wallet_backfill, scan_window, commit_connector_batch).
THEOREM EvmCoverage == EvmSpec => []NoBlockSkipped
<1>1. EvmInv => NoBlockSkipped
  BY DEF EvmInv, NoBlockSkipped, IngestedUpTo
<1> QED
  BY <1>1, EvmInvariant, PTL

\* No stored EVM transaction is on a fork that was abandoned, when no
\* reorganisation is deeper than the confirmations waited for (confirmed_head).
THEOREM EvmCanonical == EvmSpec => []RowsCanonical
<1>1. EvmInv => RowsCanonical
  BY DEF EvmInv, RowsCanonical
<1> QED
  BY <1>1, EvmInvariant, PTL

-----------------------------------------------------------------------------
(* HyperliquidBackfill *)

LEMMA EventsFinite ==
    ASSUME HlTypeOK, NEW k \in KindNames, NEW p \in SUBSET history[k]
    PROVE  IsFiniteSet(p)
<1>0. 1 \in Int /\ MaxTime \in Int /\ MaxTies \in Int
  BY HlAssumption
<1>1. IsFiniteSet(1..MaxTime) /\ IsFiniteSet(1..MaxTies)
  BY <1>0, FS_Interval, Zenon
<1>2. IsFiniteSet(Events)
  BY <1>1, FS_Product DEF Events
<1>3. p \in SUBSET Events
  BY DEF HlTypeOK
<1> QED
  BY <1>2, <1>3, FS_Subset

LEMMA EventType ==
    ASSUME HlTypeOK, NEW k \in KindNames, NEW e \in history[k]
    PROVE  /\ e \in Events /\ e[1] \in 1..MaxTime /\ e[1] \in Nat /\ e[1] >= 1
           /\ e[2] \in 1..MaxTies /\ e = <<e[1], e[2]>>
<1>1. e \in Events
  BY DEF HlTypeOK
<1>2. e[1] \in 1..MaxTime /\ e[2] \in 1..MaxTies /\ e = <<e[1], e[2]>>
  BY <1>1 DEF Events
<1> QED
  BY <1>1, <1>2, HlAssumption

\* The two limits keep whole milliseconds: with an event they keep every older
\* one of the page, and the ones of its own millisecond.
LEMMA TakeLimitClosed ==
    ASSUME HlTypeOK, NEW k \in KindNames, NEW p \in SUBSET history[k],
           NEW e \in TakeLimit(p), NEW f \in p, f[1] <= e[1]
    PROVE  f \in TakeLimit(p)
<1> DEFINE E == {g \in p : g[1] < e[1]}
           F == {g \in p : g[1] < f[1]}
<1>1. \A g \in p : g[1] \in Nat
  BY EventType
<1>2. e \in p
  BY DEF TakeLimit
<1>3. F \in SUBSET E /\ E \in SUBSET history[k]
  BY <1>1, <1>2
<1>4. IsFiniteSet(E)
  BY <1>3, EventsFinite
<1>5. IsFiniteSet(F) /\ Cardinality(F) <= Cardinality(E)
  BY <1>3, <1>4, FS_Subset
<1>6. Cardinality(F) \in Nat /\ Cardinality(E) \in Nat
  BY <1>4, <1>5, FS_CardinalityType
<1>7. Cardinality(E) < EventLimit
  BY DEF TakeLimit
<1> HIDE DEF E, F
<1>8. Cardinality(F) < EventLimit
  BY <1>5, <1>6, <1>7, HlAssumption
<1> QED
  BY <1>8 DEF TakeLimit, F

LEMMA MarketWindowClosed ==
    ASSUME HlTypeOK, NEW k \in KindNames, NEW p \in SUBSET history[k],
           NEW e \in MarketWindow(p), NEW f \in p, f[1] <= e[1]
    PROVE  f \in MarketWindow(p)
<1> DEFINE E == {g \in p : g[1] <= e[1]}
           F == {g \in p : g[1] <= f[1]}
<1>1. \A g \in p : g[1] \in Nat
  BY EventType
<1>2. e \in p
  BY DEF MarketWindow
<1>3. F \in SUBSET E /\ E \in SUBSET history[k]
  BY <1>1, <1>2
<1>4. IsFiniteSet(E)
  BY <1>3, EventsFinite
<1>5. IsFiniteSet(F) /\ Cardinality(F) <= Cardinality(E)
  BY <1>3, <1>4, FS_Subset
<1>6. Cardinality(F) \in Nat /\ Cardinality(E) \in Nat
  BY <1>4, <1>5, FS_CardinalityType
<1>7. Cardinality(E) <= EventLimit
  BY DEF MarketWindow
<1> HIDE DEF E, F
<1>8. Cardinality(F) <= EventLimit
  BY <1>5, <1>6, <1>7, HlAssumption
<1> QED
  BY <1>8 DEF MarketWindow, F

\* Whatever page the provider cuts, the part that is kept holds every event
\* between the page's start and its own last event.
LEMMA WindowComplete ==
    ASSUME HlInv, NEW k \in KindNames, NEW ms \in Int, NEW p \in Answers(k, ms),
           NEW l \in Window(k, p), NEW e \in history[k], ms <= e[1], e[1] <= l[1]
    PROVE  e \in Window(k, p)
<1>0. HlTypeOK
  BY DEF HlInv
<1>1. p \in SUBSET history[k] /\ e \in Since(k, ms)
  BY DEF Answers, Since
<1>2. e[1] \in Nat /\ \A g \in p : g[1] \in Nat
  BY <1>0, <1>1, EventType
<1>3. CASE k = "funding_rate"
  <2>1. l \in MarketWindow(p) /\ l \in p
    BY <1>3 DEF Window, MarketWindow
  <2>2. e \in p
    <3>1. ASSUME e \notin p PROVE FALSE
      <4>1. l[1] <= e[1]
        BY <1>1, <2>1, <3>1 DEF Answers
      <4>2. l[1] = e[1] /\ l[2] = 1 /\ e[2] = 1
        BY <1>1, <1>2, <1>3, <2>1, <4>1 DEF HlInv
      <4>3. l = <<l[1], l[2]>> /\ e = <<e[1], e[2]>>
        BY <1>0, <1>1, <2>1, EventType
      <4> QED
        BY <2>1, <3>1, <4>2, <4>3
    <3> QED
      BY <3>1
  <2> QED
    BY <1>0, <1>1, <1>3, <2>1, <2>2, MarketWindowClosed DEF Window
<1>4. CASE k # "funding_rate" /\ Saturated(k, p)
  <2>1. l \in TakeLimit(WithoutLastTime(p)) /\ Window(k, p) = TakeLimit(WithoutLastTime(p))
    BY <1>4 DEF Window, BoundedTimeWindow
  <2>2. PICK f \in p : l[1] < f[1] /\ l \in p
    BY <2>1 DEF TakeLimit, WithoutLastTime
  <2>3. e \in p
    <3>1. ASSUME e \notin p PROVE FALSE
      <4>1. f[1] <= e[1]
        BY <1>1, <3>1 DEF Answers
      <4> QED
        BY <1>2, <2>2, <4>1
    <3> QED
      BY <3>1
  <2>4. e[1] < f[1]
    BY <1>2, <2>2
  <2>5. e \in WithoutLastTime(p)
    BY <2>3, <2>4 DEF WithoutLastTime
  <2>6. WithoutLastTime(p) \in SUBSET history[k]
    BY <1>1 DEF WithoutLastTime
  <2> QED
    BY <1>0, <2>1, <2>5, <2>6, TakeLimitClosed
<1>5. CASE k # "funding_rate" /\ ~ Saturated(k, p)
  <2>1. l \in TakeLimit(p) /\ Window(k, p) = TakeLimit(p)
    BY <1>5 DEF Window, BoundedTimeWindow
  <2>2. PageCap[k] \in Nat
    BY HlAssumption
  <2>3. ~ (Cardinality(p) >= PageCap[k])
    BY <1>5 DEF Saturated
  <2>4. Cardinality(p) # PageCap[k]
    BY <2>2, <2>3
  <2>5. p = Since(k, ms)
    BY <2>4 DEF Answers
  <2> QED
    BY <1>0, <1>1, <2>1, <2>5, TakeLimitClosed
<1> QED
  BY <1>3, <1>4, <1>5

LEMMA WindowType ==
    ASSUME HlTypeOK, NEW k \in KindNames, NEW ms \in Int, NEW p \in Answers(k, ms)
    PROVE  Window(k, p) \subseteq {e \in history[k] : e[1] >= ms}
  BY DEF Answers, Since, Window, MarketWindow, BoundedTimeWindow, TakeLimit, WithoutLastTime

LEMMA StreamNames ==
    ASSUME HlTypeOK, NEW i \in 1..Len(Streams[targetKind])
    PROVE  Streams[targetKind][i] \in KindNames
<1>1. CASE targetKind = "wallet"
  <2>1. Streams[targetKind] = WalletKinds
    BY <1>1 DEF Streams, TargetKinds
  <2> QED
    BY <2>1 DEF KindNames
<1>2. CASE targetKind = "market"
  <2>1. Streams[targetKind] = <<"funding_rate">>
    BY <1>2 DEF Streams, TargetKinds
  <2> QED
    BY <2>1 DEF KindNames
<1> QED
  BY <1>1, <1>2 DEF HlTypeOK, TargetKinds

LEMMA StreamCount ==
    ASSUME HlTypeOK
    PROVE  Len(Streams[targetKind]) \in Nat /\ 1 \in 1..Len(Streams[targetKind])
<1>1. CASE targetKind = "wallet"
  <2>1. Streams[targetKind] = WalletKinds
    BY <1>1 DEF Streams, TargetKinds
  <2> QED
    BY <2>1, HlAssumption
<1>2. CASE targetKind = "market"
  <2>1. Streams[targetKind] = <<"funding_rate">>
    BY <1>2 DEF Streams, TargetKinds
  <2> QED
    BY <2>1
<1> QED
  BY <1>1, <1>2 DEF HlTypeOK, TargetKinds

LEMMA EndBackfillTypes ==
    ASSUME HlTypeOK, NEW x \in HlJobs, EndBackfill(x), targetKind' = targetKind
    PROVE  /\ hlPc' \in [HlJobs -> {"idle", "page", "commit"}]
           /\ kindAt' \in [HlJobs -> 1..Len(Streams[targetKind])]
           /\ nextCursor' \in [HlJobs -> [KindNames -> 0..MaxTime]]
           /\ batch' \in [HlJobs -> SUBSET (KindNames \X (1..MaxTime) \X (1..MaxTies))]
<1>1. NoCursor \in [KindNames -> 0..MaxTime]
  BY HlAssumption DEF NoCursor
<1>2. 1 \in 1..Len(Streams[targetKind])
  BY StreamCount
<1>3. nextCursor' \in [HlJobs -> [KindNames -> 0..MaxTime]]
  BY <1>1 DEF HlTypeOK, EndBackfill
<1> QED
  BY <1>2, <1>3 DEF HlTypeOK, EndBackfill

LEMMA HlTypeStep == HlInv /\ [HlNext]_hlVars => HlTypeOK'
<1> SUFFICES ASSUME HlInv, [HlNext]_hlVars PROVE HlTypeOK'
  OBVIOUS
<1>0. HlTypeOK
  BY DEF HlInv
<1>1. ASSUME NEW i \in 1..Len(Streams[targetKind]), NEW n \in 1..MaxTies,
             Happen(Streams[targetKind][i], n)
      PROVE  HlTypeOK'
  <2>1. clock' \in 0..MaxTime /\ clock + 1 \in 1..MaxTime
    BY <1>0, <1>1, HlAssumption DEF HlTypeOK, Happen
  <2>2. {<<clock + 1, j>> : j \in 1..n} \subseteq Events
    BY <2>1, HlAssumption DEF Events
  <2>3. history' \in [KindNames -> SUBSET Events]
    BY <1>0, <1>1, <2>2 DEF HlTypeOK, Happen
  <2> QED
    BY <1>0, <1>1, <2>1, <2>3 DEF HlTypeOK, Happen, hlJobVars
<1>2. ASSUME NEW x \in HlJobs, StartBackfill(x) PROVE HlTypeOK'
  <2>1. nextCursor' \in [HlJobs -> [KindNames -> 0..MaxTime]]
    BY <1>0, <1>2 DEF HlTypeOK, StartBackfill
  <2>2. hlPc' \in [HlJobs -> {"idle", "page", "commit"}]
    BY <1>0, <1>2 DEF HlTypeOK, StartBackfill
  <2> QED
    BY <1>0, <1>2, <2>1, <2>2 DEF HlTypeOK, StartBackfill
<1>3. ASSUME NEW x \in HlJobs, FetchKind(x) PROVE HlTypeOK'
  <2>0. UNCHANGED <<targetKind, clock, history, hlCursor, hlRows, hlErrors>>
    BY <1>3 DEF FetchKind
  <2>1. CASE EndBackfill(x)
    BY <1>0, <2>0, <2>1, EndBackfillTypes DEF HlTypeOK
  <2>2. CASE ~ EndBackfill(x)
    <3> DEFINE k == Streams[targetKind][kindAt[x]]
    <3>1. k \in KindNames /\ kindAt[x] \in 1..Len(Streams[targetKind])
      BY <1>0, StreamNames DEF HlTypeOK
    <3>2. PICK p \in Answers(k, ResumeAfterMs(nextCursor[x][k])) :
               \E t \in Latest(nextCursor[x][k], Window(k, p)) :
                 /\ batch' = [batch EXCEPT ![x] = @ \cup {<<k, e[1], e[2]>> : e \in Window(k, p)}]
                 /\ nextCursor' = [nextCursor EXCEPT ![x][k] = t]
                 /\ IF kindAt[x] < Len(Streams[targetKind])
                    THEN /\ kindAt' = [kindAt EXCEPT ![x] = @ + 1]
                         /\ UNCHANGED hlPc
                    ELSE /\ hlPc' = [hlPc EXCEPT ![x] = "commit"]
                         /\ UNCHANGED kindAt
      BY <1>3, <2>2 DEF FetchKind
    <3>2a. PICK t \in Latest(nextCursor[x][k], Window(k, p)) :
                 /\ batch' = [batch EXCEPT ![x] = @ \cup {<<k, e[1], e[2]>> : e \in Window(k, p)}]
                 /\ nextCursor' = [nextCursor EXCEPT ![x][k] = t]
                 /\ IF kindAt[x] < Len(Streams[targetKind])
                    THEN /\ kindAt' = [kindAt EXCEPT ![x] = @ + 1]
                         /\ UNCHANGED hlPc
                    ELSE /\ hlPc' = [hlPc EXCEPT ![x] = "commit"]
                         /\ UNCHANGED kindAt
      BY <3>2
    <3> HIDE DEF k
    <3>3. nextCursor[x][k] \in 0..MaxTime
      BY <1>0, <3>1 DEF HlTypeOK
    <3>4. ResumeAfterMs(nextCursor[x][k]) \in Int
      BY <3>3, HlAssumption DEF ResumeAfterMs
    <3>5. Window(k, p) \subseteq history[k]
      BY <1>0, <3>1, <3>4, WindowType
    <3>6. \A e \in Window(k, p) : e[1] \in 1..MaxTime /\ e[2] \in 1..MaxTies
      BY <1>0, <3>1, <3>5, EventType
    <3>7. t \in 0..MaxTime
      BY <3>2a, <3>3, <3>6, HlAssumption DEF Latest
    <3>8. nextCursor' \in [HlJobs -> [KindNames -> 0..MaxTime]]
      BY <1>0, <3>1, <3>2a, <3>7 DEF HlTypeOK
    <3>9. {<<k, e[1], e[2]>> : e \in Window(k, p)} \subseteq KindNames \X (1..MaxTime) \X (1..MaxTies)
      BY <3>1, <3>6
    <3>10. batch' \in [HlJobs -> SUBSET (KindNames \X (1..MaxTime) \X (1..MaxTies))]
      BY <1>0, <3>2a, <3>9 DEF HlTypeOK
    <3>11. /\ kindAt' \in [HlJobs -> 1..Len(Streams[targetKind])]
           /\ hlPc' \in [HlJobs -> {"idle", "page", "commit"}]
      <4>1. Len(Streams[targetKind]) \in Nat
        BY <1>0, StreamCount
      <4>2. CASE kindAt[x] < Len(Streams[targetKind])
        <5>1. kindAt[x] + 1 \in 1..Len(Streams[targetKind])
          BY <3>1, <4>1, <4>2
        <5> QED
          BY <1>0, <3>2a, <4>2, <5>1 DEF HlTypeOK
      <4>3. CASE ~ (kindAt[x] < Len(Streams[targetKind]))
        BY <1>0, <3>2a, <4>3 DEF HlTypeOK
      <4> QED
        BY <4>2, <4>3
    <3> QED
      BY <1>0, <2>0, <3>8, <3>10, <3>11 DEF HlTypeOK
  <2> QED
    BY <2>1, <2>2
<1>4. ASSUME NEW x \in HlJobs, CommitBackfill(x) PROVE HlTypeOK'
  <2>1. EndBackfill(x) /\ UNCHANGED <<targetKind, clock, history, hlErrors>>
    BY <1>4 DEF CommitBackfill
  <2>2. hlCursor' \in [KindNames -> 0..MaxTime]
    BY <1>0, <1>4 DEF HlTypeOK, CommitBackfill
  <2>3. hlRows' \in [KindNames -> SUBSET Events]
    <3>1. ASSUME NEW k \in KindNames
          PROVE  hlRows[k] \cup {<<e[2], e[3]>> : e \in {e \in batch[x] : e[1] = k}} \in SUBSET Events
      <4>1. batch[x] \subseteq KindNames \X (1..MaxTime) \X (1..MaxTies) /\ hlRows[k] \subseteq Events
        BY <1>0 DEF HlTypeOK
      <4> QED
        BY <4>1 DEF Events
    <3> QED
      BY <1>4, <3>1 DEF CommitBackfill
  <2> QED
    BY <1>0, <2>1, <2>2, <2>3, EndBackfillTypes DEF HlTypeOK
<1>5. ASSUME NEW x \in HlJobs, FailBackfill(x) PROVE HlTypeOK'
  <2>1. /\ EndBackfill(x) /\ UNCHANGED <<targetKind, clock, history, hlCursor, hlRows>>
        /\ hlErrors' \in 0..MaxHlErrors
    BY <1>0, <1>5, HlAssumption DEF HlTypeOK, FailBackfill
  <2> QED
    BY <1>0, <2>1, EndBackfillTypes DEF HlTypeOK
<1>6. CASE UNCHANGED hlVars
  BY <1>0, <1>6 DEF HlTypeOK, hlVars, hlJobVars
<1> QED
  BY <1>1, <1>2, <1>3, <1>4, <1>5, <1>6 DEF HlNext, RunBackfill

\* A page extends what a backfill covers of its stream up to the new cursor.
LEMMA FetchKindCovers ==
    ASSUME HlInv, NEW x \in HlJobs, FetchKind(x), ~ EndBackfill(x), NEW j \in KindNames
    PROVE  /\ nextCursor'[x][j] <= clock
           /\ \A e \in history[j] : e[1] <= nextCursor'[x][j] =>
                e \in hlRows[j] \/ <<j, e[1], e[2]>> \in batch'[x]
<1>0. HlTypeOK
  BY DEF HlInv
<1> DEFINE k == Streams[targetKind][kindAt[x]]
<1>1. k \in KindNames
  BY <1>0, StreamNames DEF HlTypeOK
<1>2. PICK p \in Answers(k, ResumeAfterMs(nextCursor[x][k])) :
        \E t \in Latest(nextCursor[x][k], Window(k, p)) :
          /\ batch' = [batch EXCEPT ![x] = @ \cup {<<k, e[1], e[2]>> : e \in Window(k, p)}]
          /\ nextCursor' = [nextCursor EXCEPT ![x][k] = t]
  BY DEF FetchKind
<1>3. PICK t \in Latest(nextCursor[x][k], Window(k, p)) :
        /\ batch' = [batch EXCEPT ![x] = @ \cup {<<k, e[1], e[2]>> : e \in Window(k, p)}]
        /\ nextCursor' = [nextCursor EXCEPT ![x][k] = t]
  BY <1>2
<1> HIDE DEF k
<1>4. /\ batch'[x] = batch[x] \cup {<<k, e[1], e[2]>> : e \in Window(k, p)}
      /\ nextCursor'[x][k] = t
      /\ j # k => nextCursor'[x][j] = nextCursor[x][j]
  <2>1. batch \in [HlJobs -> SUBSET (KindNames \X (1..MaxTime) \X (1..MaxTies))]
        /\ nextCursor \in [HlJobs -> [KindNames -> 0..MaxTime]]
    BY <1>0 DEF HlTypeOK
  <2> QED
    BY <1>1, <1>3, <2>1
<1>5. ASSUME NEW i \in KindNames
      PROVE  /\ nextCursor[x][i] <= clock /\ nextCursor[x][i] \in Nat /\ clock \in Nat
             /\ \A e \in history[i] : e[1] <= clock /\ e[1] \in Nat
             /\ \A e \in history[i] : e[1] <= nextCursor[x][i] =>
                  e \in hlRows[i] \/ <<i, e[1], e[2]>> \in batch[x]
  <2>1. nextCursor[x][i] \in Nat /\ clock \in Nat
    BY <1>0, HlAssumption DEF HlTypeOK
  <2>2. \A e \in history[i] : e[1] \in Nat
    BY <1>0, EventType
  <2> QED
    BY <2>1, <2>2 DEF HlInv
<1>6. CASE j # k
  BY <1>4, <1>5, <1>6
<1>7. CASE j = k
  <2>1. ResumeAfterMs(nextCursor[x][k]) = nextCursor[x][k] + 1 /\ nextCursor[x][k] + 1 \in Int
    BY <1>1, <1>5 DEF ResumeAfterMs
  <2>2. Window(k, p) \subseteq history[k]
    BY <1>0, <1>1, <2>1, WindowType
  <2>3. CASE Window(k, p) = {}
    <3>1. t = nextCursor[x][k]
      BY <2>3 DEF Latest
    <3> QED
      BY <1>1, <1>4, <1>5, <1>7, <3>1
  <2>4. CASE Window(k, p) # {}
    <3>1. PICK l \in Window(k, p) : t = l[1]
      BY <2>4 DEF Latest
    <3>2. l \in history[k] /\ l[1] <= clock
      BY <1>1, <1>5, <2>2, <3>1
    <3>3. ASSUME NEW e \in history[k], e[1] <= t, ~ (e[1] <= nextCursor[x][k])
          PROVE  e \in Window(k, p)
      <4>1. e[1] \in Nat /\ nextCursor[x][k] + 1 <= e[1]
        BY <1>1, <1>5, <3>3
      <4> QED
        BY <1>1, <2>1, <3>1, <3>3, <4>1, WindowComplete
    <3>4. ASSUME NEW e \in history[k], e[1] <= t
          PROVE  e \in hlRows[k] \/ <<k, e[1], e[2]>> \in batch'[x]
      <4>1. CASE e[1] <= nextCursor[x][k]
        BY <1>1, <1>4, <1>5, <4>1
      <4>2. CASE ~ (e[1] <= nextCursor[x][k])
        BY <1>4, <3>3, <3>4, <4>2
      <4> QED
        BY <4>1, <4>2
    <3> QED
      BY <1>4, <1>7, <3>1, <3>2, <3>4
  <2> QED
    BY <2>3, <2>4
<1> QED
  BY <1>6, <1>7

LEMMA HlInvStep == HlInv /\ [HlNext]_hlVars => HlInv'
<1> SUFFICES ASSUME HlInv, [HlNext]_hlVars PROVE HlInv'
  OBVIOUS
<1>0. HlTypeOK /\ HlTypeOK'
  BY HlTypeStep DEF HlInv
<1>1. /\ clock \in Nat /\ clock' \in Nat /\ clock <= clock'
      /\ \A k \in KindNames : /\ hlRows[k] \subseteq hlRows'[k]
                              /\ hlCursor[k] \in Nat /\ hlCursor'[k] \in Nat
      /\ \A x \in HlJobs, k \in KindNames : nextCursor[x][k] \in Nat /\ nextCursor'[x][k] \in Nat
  <2>1. clock \in Nat /\ clock' \in Nat
    BY <1>0, HlAssumption DEF HlTypeOK
  <2>2. /\ \A k \in KindNames : hlCursor[k] \in Nat /\ hlCursor'[k] \in Nat
        /\ \A x \in HlJobs, k \in KindNames : nextCursor[x][k] \in Nat /\ nextCursor'[x][k] \in Nat
    BY <1>0, HlAssumption DEF HlTypeOK
  <2>3. clock <= clock'
    BY <2>1, SMTT(20) DEF HlNext, Happen, StartBackfill, RunBackfill, FetchKind, CommitBackfill,
       FailBackfill, hlVars
  <2>4. \A k \in KindNames : hlRows[k] \subseteq hlRows'[k]
    BY DEF HlNext, Happen, StartBackfill, RunBackfill, FetchKind, CommitBackfill,
       FailBackfill, hlVars
  <2> QED
    BY <2>1, <2>2, <2>3, <2>4
<1>2. /\ \A k \in KindNames : \A e \in history[k] : e[1] <= clock
      /\ \A e \in history["funding_rate"] : e[2] = 1
      /\ \A k \in KindNames : hlCursor[k] <= clock
      /\ \A k \in KindNames : \A e \in history[k] : e[1] <= hlCursor[k] => e \in hlRows[k]
      /\ \A x \in HlJobs, k \in KindNames :
          /\ nextCursor[x][k] <= clock
          /\ \A e \in history[k] : e[1] <= nextCursor[x][k] =>
              e \in hlRows[k] \/ <<k, e[1], e[2]>> \in batch[x]
  BY DEF HlInv, NoEventSkipped
<1>3. \A k \in KindNames : \A e \in history[k] : e[1] \in Nat
  BY <1>0, EventType
<1>4. CASE \E i \in 1..Len(Streams[targetKind]), n \in 1..MaxTies : Happen(Streams[targetKind][i], n)
  <2>1. PICK i \in 1..Len(Streams[targetKind]), n \in 1..MaxTies : Happen(Streams[targetKind][i], n)
    BY <1>4
  <2>2. /\ clock' = clock + 1 /\ UNCHANGED <<hlCursor, hlRows, nextCursor, batch>>
        /\ \A k \in KindNames : \A e \in history'[k] :
             e \in history[k] \/ (e[1] = clock + 1 /\ (k = "funding_rate" => e[2] = 1))
    <3>1. history' = [history EXCEPT ![Streams[targetKind][i]] = @ \cup {<<clock + 1, j>> : j \in 1..n}]
      BY <2>1 DEF Happen
    <3>2. Streams[targetKind][i] = "funding_rate" => n = 1
      BY <2>1, HlAssumption DEF Happen
    <3>3. ASSUME NEW k \in KindNames, NEW e \in history'[k], e \notin history[k]
          PROVE  e[1] = clock + 1 /\ (k = "funding_rate" => e[2] = 1)
      <4>1. k = Streams[targetKind][i] /\ e \in {<<clock + 1, j>> : j \in 1..n}
        BY <1>0, <3>1, <3>3 DEF HlTypeOK
      <4>2. PICK j \in 1..n : e = <<clock + 1, j>>
        BY <4>1
      <4> QED
        BY <3>2, <4>1, <4>2
    <3> QED
      BY <2>1, <3>3 DEF Happen, hlJobVars
  <2>3. "funding_rate" \in KindNames
    BY DEF KindNames
  <2> HIDE <1>4
  <2>4. \A k \in KindNames : \A e \in history'[k] : e[1] <= clock'
    BY <1>1, <1>2, <1>3, <2>2
  <2>5. \A e \in history'["funding_rate"] : e[2] = 1
    BY <1>2, <2>2, <2>3
  <2>6. \A k \in KindNames : \A e \in history'[k] : e[1] <= hlCursor'[k] => e \in hlRows'[k]
    BY <1>1, <1>2, <2>2
  <2>7. \A x \in HlJobs, k \in KindNames : \A e \in history'[k] : e[1] <= nextCursor'[x][k] =>
          e \in hlRows'[k] \/ <<k, e[1], e[2]>> \in batch'[x]
    BY <1>1, <1>2, <2>2
  <2>8. /\ \A k \in KindNames : hlCursor'[k] <= clock'
        /\ \A x \in HlJobs, k \in KindNames : nextCursor'[x][k] <= clock'
    BY <1>1, <1>2, <2>2
  <2> QED
    BY <1>0, <2>4, <2>5, <2>6, <2>7, <2>8 DEF HlInv, NoEventSkipped
<1>5. CASE UNCHANGED <<clock, history>>
  <2>1. /\ \A k \in KindNames : hlCursor'[k] <= clock'
        /\ \A k \in KindNames : \A e \in history[k] : e[1] <= hlCursor'[k] => e \in hlRows'[k]
    <3>1. CASE \E x \in HlJobs : CommitBackfill(x)
      <4>1. PICK x \in HlJobs : CommitBackfill(x)
        BY <3>1
      <4>2. hlCursor' = nextCursor[x]
        BY <4>1 DEF CommitBackfill
      <4>3. ASSUME NEW k \in KindNames, NEW e \in history[k], <<k, e[1], e[2]>> \in batch[x]
            PROVE  e \in hlRows'[k]
        <5>1. e = <<e[1], e[2]>>
          BY <1>0, EventType
        <5>2. <<e[1], e[2]>> \in {<<b[2], b[3]>> : b \in {b \in batch[x] : b[1] = k}}
          BY <4>3
        <5> QED
          BY <4>1, <5>1, <5>2 DEF CommitBackfill
      <4> QED
        BY <1>1, <1>2, <1>5, <4>2, <4>3
    <3>2. CASE ~ \E x \in HlJobs : CommitBackfill(x)
      <4>1. UNCHANGED <<hlCursor, hlRows>>
        BY <3>2 DEF HlNext, Happen, StartBackfill, RunBackfill, FetchKind, FailBackfill, hlVars
      <4> QED
        BY <1>2, <1>5, <4>1
    <3> QED
      BY <3>1, <3>2
  <2>2. ASSUME NEW y \in HlJobs, NEW k \in KindNames
        PROVE  /\ nextCursor'[y][k] <= clock'
               /\ \A e \in history[k] : e[1] <= nextCursor'[y][k] =>
                    e \in hlRows'[k] \/ <<k, e[1], e[2]>> \in batch'[y]
    <3>1. CASE nextCursor'[y] = nextCursor[y] /\ batch'[y] = batch[y]
      BY <1>1, <1>2, <1>5, <3>1
    <3>2. CASE StartBackfill(y)
      <4>1. nextCursor'[y] = hlCursor
        BY <1>0, <3>2 DEF StartBackfill, HlTypeOK
      <4> QED
        BY <1>1, <1>2, <1>5, <4>1
    <3>3. CASE EndBackfill(y)
      <4>1. nextCursor'[y][k] = 0
        BY <1>0, <3>3 DEF EndBackfill, HlTypeOK, NoCursor
      <4>2. \A e \in history[k] : e[1] >= 1
        BY <1>0, EventType
      <4> QED
        BY <1>1, <1>3, <4>1, <4>2
    <3>4. CASE FetchKind(y) /\ ~ EndBackfill(y)
      <4>1. /\ nextCursor'[y][k] <= clock
            /\ \A e \in history[k] : e[1] <= nextCursor'[y][k] =>
                 e \in hlRows[k] \/ <<k, e[1], e[2]>> \in batch'[y]
        BY <3>4, FetchKindCovers
      <4> QED
        BY <1>1, <1>5, <4>1
    <3>5. ASSUME NEW x \in HlJobs, x # y,
                 StartBackfill(x) \/ RunBackfill(x) \/ FailBackfill(x)
          PROVE  nextCursor'[y] = nextCursor[y] /\ batch'[y] = batch[y]
      BY <1>0, <3>5 DEF StartBackfill, RunBackfill, FetchKind, CommitBackfill, FailBackfill,
         EndBackfill, HlTypeOK
    <3>6. CommitBackfill(y) \/ FailBackfill(y) => EndBackfill(y)
      BY DEF CommitBackfill, FailBackfill
    <3>7. ~ \E i \in 1..Len(Streams[targetKind]), n \in 1..MaxTies : Happen(Streams[targetKind][i], n)
      BY <1>1, <1>5 DEF Happen
    <3>8. CASE UNCHANGED hlVars
      BY <3>1, <3>8 DEF hlVars, hlJobVars
    <3>9. ASSUME NEW x \in HlJobs, StartBackfill(x) \/ RunBackfill(x) \/ FailBackfill(x)
          PROVE  \/ nextCursor'[y] = nextCursor[y] /\ batch'[y] = batch[y]
                 \/ StartBackfill(y) \/ EndBackfill(y) \/ (FetchKind(y) /\ ~ EndBackfill(y))
      <4>1. CASE x # y
        BY <3>5, <3>9, <4>1
      <4>2. CASE x = y
        BY <3>6, <3>9, <4>2 DEF RunBackfill
      <4> QED
        BY <4>1, <4>2
    <3> QED
      BY <3>1, <3>2, <3>3, <3>4, <3>7, <3>8, <3>9 DEF HlNext
  <2> QED
    BY <1>0, <1>2, <1>5, <2>1, <2>2 DEF HlInv, NoEventSkipped
<1>6. \/ UNCHANGED <<clock, history>>
      \/ \E i \in 1..Len(Streams[targetKind]), n \in 1..MaxTies : Happen(Streams[targetKind][i], n)
  BY DEF HlNext, StartBackfill, RunBackfill, FetchKind, CommitBackfill, FailBackfill, hlVars
<1> QED
  BY <1>4, <1>5, <1>6

\* The inductive invariant of the Hyperliquid backfill holds for every page
\* size, limit and number of overlapping jobs.
THEOREM HlInvariant == HlSpec => []HlInv
<1>1. HlInit => HlInv
  <2> SUFFICES ASSUME HlInit PROVE HlInv
    OBVIOUS
  <2>1. NoCursor \in [KindNames -> 0..MaxTime] /\ 0 \in 0..MaxHlErrors /\ 0 \in 0..MaxTime
    BY HlAssumption DEF NoCursor
  <2>2. /\ targetKind \in TargetKinds /\ clock \in 0..MaxTime /\ hlErrors \in 0..MaxHlErrors
        /\ hlCursor \in [KindNames -> 0..MaxTime] /\ nextCursor \in [HlJobs -> [KindNames -> 0..MaxTime]]
    BY <2>1 DEF HlInit
  <2>3. /\ history \in [KindNames -> SUBSET Events] /\ hlRows \in [KindNames -> SUBSET Events]
        /\ hlPc \in [HlJobs -> {"idle", "page", "commit"}]
        /\ batch \in [HlJobs -> SUBSET (KindNames \X (1..MaxTime) \X (1..MaxTies))]
    BY DEF HlInit
  <2>4. kindAt \in [HlJobs -> 1..Len(Streams[targetKind])]
    <3>1. Len(Streams[targetKind]) \in Nat /\ Len(Streams[targetKind]) >= 1
      <4>1. CASE targetKind = "wallet"
        <5>1. Streams[targetKind] = WalletKinds
          BY <4>1 DEF Streams, TargetKinds
        <5> QED
          BY <5>1, HlAssumption
      <4>2. CASE targetKind = "market"
        <5>1. Streams[targetKind] = <<"funding_rate">>
          BY <4>2 DEF Streams, TargetKinds
        <5> QED
          BY <5>1
      <4> QED
        BY <2>2, <4>1, <4>2 DEF TargetKinds
    <3>2. 1 \in 1..Len(Streams[targetKind])
      BY <3>1
    <3> QED
      BY <3>2 DEF HlInit
  <2>5. HlTypeOK
    BY <2>2, <2>3, <2>4 DEF HlTypeOK
  <2>6. "funding_rate" \in KindNames
    BY DEF KindNames
  <2>7. \A k \in KindNames : history[k] = {} /\ hlCursor[k] = 0 /\ clock = 0
    BY DEF HlInit, NoCursor
  <2>8. \A x \in HlJobs, k \in KindNames : nextCursor[x][k] = 0
    BY DEF HlInit, NoCursor
  <2> QED
    BY <2>5, <2>6, <2>7, <2>8 DEF HlInv, NoEventSkipped
<1> QED
  BY <1>1, HlInvStep, PTL DEF HlSpec

\* Every variable of HyperliquidBackfill keeps its type.
THEOREM HlTypes == HlSpec => []HlTypeOK
<1>1. HlInv => HlTypeOK
  BY DEF HlInv
<1> QED
  BY <1>1, HlInvariant, PTL

\* No event up to a stream's cursor is ever missing (bounded_time_window,
\* wallet_backfill, market_backfill, commit_connector_batch).
THEOREM HlCoverage == HlSpec => []NoEventSkipped
<1>1. HlInv => NoEventSkipped
  BY DEF HlInv
<1> QED
  BY <1>1, HlInvariant, PTL

-----------------------------------------------------------------------------
(* SolanaHistory *)

\* The request bounds and the size of a page are numbers.
LEMMA BoundTypes ==
    ASSUME TypeOK, NEW x \in Executors
    PROVE  /\ Until(x) \in Nat /\ Cursor(x) \in Nat
           /\ Newest(x) \in Int /\ Available(x) \in Nat
           /\ Newest(x) >= 0
<1>1. Until(x) \in Nat /\ Cursor(x) \in Nat
  BY DEF TypeOK, Checkpoints, Until, Cursor, Modes
<1>2. tip \in Nat
  BY ConstantsAssumption DEF TypeOK
<1> QED
  BY <1>1, <1>2 DEF Newest, Available

LEMMA TypeStep == TypeOK /\ [Next]_vars => TypeOK'
<1> SUFFICES ASSUME TypeOK, [Next]_vars PROVE TypeOK'
  OBVIOUS
<1> USE ConstantsAssumption DEF TypeOK
<1>1. CASE NewTransaction
  BY <1>1 DEF NewTransaction, ckptVars, execVars
<1>2. ASSUME NEW x \in Executors, NEW m \in Modes, Start(x, m) PROVE TypeOK'
  BY <1>2 DEF Start, ckptVars, Checkpoints
<1>3. ASSUME NEW x \in Executors, FetchPage(x) PROVE TypeOK'
  <2> DEFINE asked == Min2(Limit - count[x], PageMax)
             got == Min2(asked, Available(x))
  <2>1. /\ asked \in Nat /\ got \in Nat /\ got <= asked /\ count[x] + got \in 0..Limit
        /\ got <= Available(x)
    BY BoundTypes DEF Min2
  <2>2. got > 0 => Newest(x) \in Nat /\ Newest(x) - got + 1 \in Nat
    BY <2>1, BoundTypes DEF Available
  <2>3. /\ count' = [count EXCEPT ![x] = @ + got]
        /\ first' = [first EXCEPT ![x] = IF count[x] = 0 /\ got > 0 THEN Newest(x) ELSE @]
        /\ last' = [last EXCEPT ![x] = IF got > 0 THEN Newest(x) - got + 1 ELSE @]
        /\ ended' = [ended EXCEPT ![x] = got < asked]
    BY <1>3 DEF FetchPage, Asked
  <2>4. count' \in [Executors -> 0..Limit]
    BY <2>1, <2>3
  <2>5. first' \in [Executors -> Nat] /\ last' \in [Executors -> Nat]
    BY <2>2, <2>3
  <2>6. ended' \in [Executors -> BOOLEAN]
    BY <2>3
  <2>7. pc' \in [Executors -> {"idle", "page", "probe", "commit"}]
    BY <1>3 DEF FetchPage, Asked
  <2> HIDE DEF asked, got
  <2> QED
    BY <1>3, <2>4, <2>5, <2>6, <2>7 DEF FetchPage, ckptVars
<1>4. ASSUME NEW x \in Executors, Probe(x) PROVE TypeOK'
  <2>1. CASE Available(x) > 0
    <3>1. Return(x) /\ UNCHANGED <<tip, stored, ckptVars, errors>>
      BY <1>4, <2>1 DEF Probe
    <3> QED
      BY <3>1 DEF Return, Checkpoints, Modes, ckptVars
  <2>2. CASE ~ (Available(x) > 0)
    BY <1>4, <2>2 DEF Probe, ckptVars
  <2> QED
    BY <2>1, <2>2
<1>5. ASSUME NEW x \in Executors, Commit(x) PROVE TypeOK'
  <2>1. NewHead(x) \in Nat /\ NewBefore(x) \in Nat
    BY DEF NewHead, NewBefore, Checkpoints, Modes
  <2>2. NewExhausted(x) \in BOOLEAN
    BY DEF NewExhausted, Checkpoints
  <2>3. stored' \subseteq Nat
    <3>1. last[x]..first[x] \subseteq Nat
      OBVIOUS
    <3> QED
      BY <1>5, <3>1 DEF Commit
  <2> QED
    BY <1>5, <2>1, <2>2, <2>3 DEF Commit, Return, Checkpoints, Modes
<1>6. ASSUME NEW x \in Executors, Fail(x) PROVE TypeOK'
  BY <1>6 DEF Fail, Return, Checkpoints, Modes, ckptVars
<1>7. CASE UNCHANGED vars
  BY <1>7 DEF vars, ckptVars, execVars
<1> QED
  BY <1>1, <1>2, <1>3, <1>4, <1>5, <1>6, <1>7 DEF Next, Execute

\* Stored positions are never dropped and the chain only grows, so what was
\* gapless stays gapless.
LEMMA GaplessStep ==
    ASSUME TypeOK, [Next]_vars, NEW h \in Nat, NEW b \in Nat, Gapless(h, b)
    PROVE  /\ h = 0 <=> b = 0
           /\ b <= h /\ h <= tip'
           /\ h # 0 => b..h \subseteq stored'
<1>1. stored \subseteq stored' /\ tip <= tip' /\ tip \in Nat /\ tip' \in Nat
  <2>1. TypeOK'
    BY TypeStep
  <2>2. stored \subseteq stored' /\ tip <= tip'
    BY ConstantsAssumption DEF TypeOK, Next, NewTransaction, Start, Execute, FetchPage, Probe,
       Commit, Fail, vars
  <2> QED
    BY <2>1, <2>2, ConstantsAssumption DEF TypeOK
<1> QED
  BY <1>1 DEF Gapless

\* One page extends a collected run downwards; a short page, or a full result
\* after which nothing is left, reaches the head it pages down to.
LEMMA PageStep ==
    ASSUME SInv, NEW x \in Executors, FetchPage(x)
    PROVE  Collected(x)'
<1> DEFINE asked == Min2(Limit - count[x], PageMax)
           got == Min2(asked, Available(x))
<1> USE ConstantsAssumption DEF SInv
<1>1. /\ asked \in Nat /\ got \in Nat /\ got <= asked /\ got <= Available(x)
      /\ got < asked => got = Available(x)
      /\ count[x] \in Nat
  BY BoundTypes DEF Min2, TypeOK
<1>2. /\ count'[x] = count[x] + got
      /\ first'[x] = IF count[x] = 0 /\ got > 0 THEN Newest(x) ELSE first[x]
      /\ last'[x] = IF got > 0 THEN Newest(x) - got + 1 ELSE last[x]
      /\ UNCHANGED <<mode, cp, tip>>
  BY DEF FetchPage, Asked, TypeOK
<1>3. pc'[x] = "commit" /\ RejectOverflow(x) => got < asked
  BY <1>1 DEF FetchPage, Asked, TypeOK
<1>4. /\ Until(x)' = Until(x) /\ RejectOverflow(x)' = RejectOverflow(x)
      /\ Until(x) \in Nat /\ Newest(x) \in Int /\ Newest(x) >= 0 /\ tip \in Nat
      /\ first[x] \in Nat /\ last[x] \in Nat /\ cp[x].before \in Nat /\ cp[x].head \in Nat
  BY <1>2, BoundTypes DEF Until, RejectOverflow, TypeOK, Checkpoints
<1>5. RejectOverflow(x) => Until(x) = cp[x].head
  BY DEF RejectOverflow, Until
<1>6. Collected(x) /\ Gapless(cp[x].head, cp[x].before)
  BY DEF FetchPage, Asked
<1>7. Available(x) > 0 <=> Newest(x) > Until(x)
  BY <1>4 DEF Available
<1>8. Available(x) = IF Newest(x) > Until(x) THEN Newest(x) - Until(x) ELSE 0
  BY DEF Available
<1>9. CASE count[x] = 0
  <2>1. /\ mode[x] = "backfill" /\ cp[x].before # 0 => Newest(x) = cp[x].before - 1
        /\ ~ (mode[x] = "backfill" /\ cp[x].before # 0) => Newest(x) = tip
    BY <1>9 DEF Newest, Cursor, TypeOK, Modes
  <2>2. Newest(x) <= tip
    BY <1>4, <1>6, <2>1 DEF Gapless
  <2> HIDE DEF asked, got
  <2>3. got > 0 => /\ first'[x] = Newest(x) /\ last'[x] = Newest(x) - got + 1
                   /\ count'[x] = got /\ Newest(x) - Until(x) >= got
    BY <1>1, <1>2, <1>4, <1>8, <1>9
  <2>4. count'[x] > 0 => got > 0
    BY <1>1, <1>2, <1>9
  <2>5. got > 0 /\ pc'[x] = "commit" /\ RejectOverflow(x) => last'[x] = cp[x].head + 1
    BY <1>1, <1>3, <1>4, <1>5, <1>8, <2>3
  <2> QED
    BY <1>1, <1>2, <1>4, <2>1, <2>2, <2>3, <2>4, <2>5 DEF Collected
<1>10. CASE count[x] > 0
  <2>1. /\ Until(x) < last[x] /\ last[x] <= first[x] /\ first[x] <= tip
        /\ count[x] = first[x] - last[x] + 1
        /\ mode[x] = "backfill" /\ cp[x].before # 0 => first[x] = cp[x].before - 1
    BY <1>6, <1>10 DEF Collected
  <2>2. Newest(x) = last[x] - 1
    BY <1>4, <1>10, <2>1 DEF Newest, Cursor
  <2> HIDE DEF asked, got
  <2>3. /\ first'[x] = first[x] /\ last'[x] = last[x] - got
        /\ last[x] - 1 - Until(x) >= got
    BY <1>1, <1>2, <1>4, <1>8, <1>10, <2>1, <2>2
  <2>4. ASSUME pc'[x] = "commit", RejectOverflow(x) PROVE last'[x] = cp[x].head + 1
    <3>1. got = Available(x)
      BY <1>1, <1>3, <2>4
    <3>2. Available(x) = last[x] - 1 - Until(x)
      BY <1>4, <1>8, <2>1, <2>2
    <3> QED
      BY <1>4, <1>5, <2>3, <2>4, <3>1, <3>2
  <2> QED
    BY <1>1, <1>2, <1>4, <1>10, <2>1, <2>3, <2>4 DEF Collected
<1> QED
  BY <1>1, <1>9, <1>10

\* The probe lets a full result through only when it reaches the head.
LEMMA ProbeStep ==
    ASSUME SInv, NEW x \in Executors, Probe(x), pc'[x] # "idle"
    PROVE  Collected(x)'
<1> USE DEF SInv
<1>1. Collected(x) /\ UNCHANGED <<mode, cp, tip, first, last, count>>
  BY DEF Probe, Return, TypeOK
<1>2. pc'[x] = "commit" => Available(x) = 0
  BY BoundTypes DEF Probe, Return, TypeOK
<1>3. /\ Until(x)' = Until(x) /\ RejectOverflow(x)' = RejectOverflow(x)
      /\ Until(x) \in Nat /\ Newest(x) \in Int /\ last[x] \in Nat /\ count[x] \in Nat
      /\ cp[x].head \in Nat
  BY <1>1, BoundTypes, ConstantsAssumption DEF Until, RejectOverflow, TypeOK, Checkpoints
<1>4. RejectOverflow(x) => Until(x) = cp[x].head
  BY DEF RejectOverflow, Until
<1>5. ASSUME count[x] > 0, pc'[x] = "commit", RejectOverflow(x) PROVE last[x] = cp[x].head + 1
  <2>1. Until(x) < last[x]
    BY <1>1, <1>5 DEF Collected
  <2>2. Newest(x) = last[x] - 1
    BY <1>3, <1>5, <2>1 DEF Newest, Cursor
  <2>3. ~ (Newest(x) > Until(x))
    BY <1>2, <1>3, <1>5 DEF Available
  <2> QED
    BY <1>3, <1>4, <1>5, <2>1, <2>2, <2>3
<1> QED
  BY <1>1, <1>3, <1>5 DEF Collected

\* The checkpoint a commit writes is gapless, for the run it stores joins up
\* with the stretch of the checkpoint it was fetched for.
LEMMA CommitStep ==
    ASSUME SInv, NEW x \in Executors, Commit(x)
    PROVE  NoHistorySkipped'
<1> USE DEF SInv
<1>1. Collected(x) /\ Gapless(cp[x].head, cp[x].before) /\ pc[x] = "commit"
  BY DEF Commit
<1>2. /\ cp[x].head \in Nat /\ cp[x].before \in Nat /\ first[x] \in Nat /\ last[x] \in Nat
      /\ count[x] \in Nat /\ tip \in Nat /\ mode[x] \in Modes
  BY ConstantsAssumption DEF TypeOK, Checkpoints
<1>3. head' = NewHead(x) /\ before' = NewBefore(x) /\ tip' = tip /\ stored \subseteq stored'
  BY DEF Commit
<1>4. CASE count[x] = 0
  <2>1. NewHead(x) = cp[x].head
    BY <1>4 DEF NewHead
  <2>2. NewBefore(x) = cp[x].before
    BY <1>1, <1>2, <1>4 DEF NewBefore, Gapless, Modes
  <2> QED
    BY <1>1, <1>2, <1>3, <2>1, <2>2 DEF Gapless, NoHistorySkipped
<1>5. CASE count[x] > 0
  <2>1. /\ Until(x) < last[x] /\ last[x] <= first[x] /\ first[x] <= tip /\ Until(x) \in Nat
        /\ last[x]..first[x] \subseteq stored'
    BY <1>1, <1>2, <1>5 DEF Collected, Commit, Until
  <2>2. CASE cp[x].head = 0
    <3>1. head' = first[x] /\ before' = last[x]
      BY <1>1, <1>2, <1>3, <1>5, <2>2 DEF NewHead, NewBefore, Gapless, Modes
    <3> QED
      BY <1>2, <1>3, <2>1, <3>1 DEF Gapless, NoHistorySkipped
  <2>3. CASE cp[x].head # 0 /\ mode[x] = "incremental"
    <3>1. last[x] = cp[x].head + 1
      BY <1>1, <1>5, <2>3 DEF Collected, RejectOverflow
    <3>2. head' = first[x] /\ before' = cp[x].before
      BY <1>1, <1>3, <1>5, <2>3 DEF NewHead, NewBefore, Gapless
    <3>3. \A p \in cp[x].before..first[x] :
            p \in cp[x].before..cp[x].head \/ p \in last[x]..first[x]
      BY <1>2, <2>1, <3>1
    <3>4. cp[x].before..first[x] \subseteq stored'
      BY <1>1, <1>3, <2>1, <2>3, <3>3 DEF Gapless
    <3> QED
      BY <1>1, <1>2, <1>3, <2>1, <2>3, <3>1, <3>2, <3>4 DEF Gapless, NoHistorySkipped
  <2>4. CASE cp[x].head # 0 /\ mode[x] = "backfill"
    <3>1. first[x] = cp[x].before - 1
      BY <1>1, <1>5, <2>4 DEF Collected, Gapless
    <3>2. head' = cp[x].head /\ before' = last[x]
      BY <1>3, <1>5, <2>4 DEF NewHead, NewBefore
    <3>3. \A p \in last[x]..cp[x].head :
            p \in cp[x].before..cp[x].head \/ p \in last[x]..first[x]
      BY <1>2, <2>1, <3>1
    <3>4. last[x]..cp[x].head \subseteq stored'
      BY <1>1, <1>3, <2>1, <2>4, <3>3 DEF Gapless
    <3> QED
      BY <1>1, <1>2, <1>3, <2>1, <2>4, <3>1, <3>2, <3>4 DEF Gapless, NoHistorySkipped
  <2> QED
    BY <1>2, <2>2, <2>3, <2>4 DEF Modes
<1> QED
  BY <1>2, <1>4, <1>5

LEMMA SInvStep == SInv /\ [Next]_vars => SInv'
<1> SUFFICES ASSUME SInv, [Next]_vars PROVE SInv'
  OBVIOUS
<1> USE DEF SInv
<1>1. TypeOK'
  BY TypeStep
<1>2. NoHistorySkipped'
  <2>1. CASE \E x \in Executors : Commit(x)
    BY <2>1, CommitStep
  <2>2. CASE ~ \E x \in Executors : Commit(x)
    <3>1. UNCHANGED <<head, before>>
      BY <2>2 DEF Next, NewTransaction, Start, Execute, FetchPage, Probe, Fail, vars, ckptVars
    <3>2. head \in Nat /\ before \in Nat
      BY DEF TypeOK
    <3> QED
      BY <3>1, <3>2, GaplessStep DEF NoHistorySkipped, Gapless
  <2> QED
    BY <2>1, <2>2
<1>3. ASSUME NEW y \in Executors, pc'[y] # "idle"
      PROVE  Gapless(cp[y].head, cp[y].before)' /\ Collected(y)'
  <2>1. ASSUME NEW x \in Executors, NEW m \in Modes, Start(x, m), x = y
        PROVE  Gapless(cp[y].head, cp[y].before)' /\ Collected(y)'
    <3>1. /\ cp'[y].head = head /\ cp'[y].before = before /\ count'[y] = 0
          /\ UNCHANGED <<tip, stored>>
      BY <2>1 DEF Start, TypeOK
    <3> QED
      BY <3>1 DEF NoHistorySkipped, Gapless, Collected
  <2>2. CASE ~ \E m \in Modes : Start(y, m)
    <3>1. pc[y] # "idle" /\ cp'[y] = cp[y] /\ mode'[y] = mode[y]
      BY <1>3, <2>2 DEF Next, NewTransaction, Start, Execute, FetchPage, Probe, Commit, Fail,
         Return, vars, execVars, TypeOK
    <3>2. cp[y].head \in Nat /\ cp[y].before \in Nat
      BY DEF TypeOK, Checkpoints
    <3>3. Gapless(cp[y].head, cp[y].before)'
      BY <3>1, <3>2, GaplessStep DEF Gapless
    <3>4. CASE FetchPage(y)
      BY <3>3, <3>4, PageStep
    <3>5. CASE Probe(y)
      BY <1>3, <3>3, <3>5, ProbeStep
    <3>6. CASE ~ FetchPage(y) /\ ~ Probe(y)
      <4>1. /\ pc'[y] = pc[y] /\ first'[y] = first[y] /\ last'[y] = last[y]
            /\ count'[y] = count[y] /\ tip <= tip' /\ tip \in Nat /\ tip' \in Nat
        <5>1. ASSUME NEW x \in Executors, Execute(x) \/ Fail(x) \/ (\E m \in Modes : Start(x, m))
              PROVE  /\ pc'[y] = pc[y] /\ first'[y] = first[y] /\ last'[y] = last[y]
                     /\ count'[y] = count[y] /\ tip = tip'
          BY <1>3, <2>2, <3>6, <5>1 DEF Start, Execute, FetchPage, Probe, Commit, Fail, Return, TypeOK
        <5>2. CASE NewTransaction \/ UNCHANGED vars
          BY <1>1, <5>2, ConstantsAssumption DEF NewTransaction, vars, execVars, TypeOK
        <5>3. tip \in Nat /\ tip' \in Nat
          BY <1>1, ConstantsAssumption DEF TypeOK
        <5> QED
          BY <5>1, <5>2, <5>3 DEF Next
      <4>2. Until(y)' = Until(y) /\ RejectOverflow(y)' = RejectOverflow(y)
        BY <3>1 DEF Until, RejectOverflow
      <4>3. Collected(y) /\ first[y] \in Nat
        BY <3>1 DEF TypeOK
      <4> QED
        BY <3>1, <3>3, <4>1, <4>2, <4>3 DEF Collected
    <3> QED
      BY <3>4, <3>5, <3>6
  <2> QED
    BY <2>1, <2>2
<1>4. ASSUME NEW y \in Executors, pc'[y] = "idle" PROVE count'[y] = 0
  BY <1>4 DEF Next, NewTransaction, Start, Execute, FetchPage, Probe, Commit, Fail, Return,
     vars, execVars, TypeOK
<1> QED
  BY <1>1, <1>2, <1>3, <1>4

\* The inductive invariant holds for every limit, page size and number of
\* overlapping executions.
THEOREM HistoryInvariant == Spec => []SInv
<1>1. Init => SInv
  <2> SUFFICES ASSUME Init PROVE SInv
    OBVIOUS
  <2>1. cp \in [Executors -> Checkpoints] /\ ended \in [Executors -> BOOLEAN]
    BY DEF Init, Checkpoints
  <2>2. TypeOK
    <3>1. /\ pc \in [Executors -> {"idle", "page", "probe", "commit"}]
          /\ mode \in [Executors -> Modes]
      BY DEF Init, Modes
    <3>2. /\ first \in [Executors -> Nat] /\ last \in [Executors -> Nat]
          /\ count \in [Executors -> 0..Limit] /\ errors \in 0..MaxErrors
      BY ConstantsAssumption DEF Init
    <3>3. tip \in 0..MaxTip /\ stored \subseteq Nat /\ head \in Nat /\ before \in Nat
      BY DEF Init
    <3>4. exhausted \in BOOLEAN
      BY DEF Init
    <3> QED
      BY <2>1, <3>1, <3>2, <3>3, <3>4 DEF TypeOK
  <2>3. NoHistorySkipped
    BY ConstantsAssumption DEF Init, NoHistorySkipped, Gapless
  <2> QED
    BY <2>2, <2>3 DEF Init, SInv
<1> QED
  BY <1>1, SInvStep, PTL DEF Spec

\* Every variable of SolanaHistory keeps its type.
THEOREM HistoryTypes == Spec => []TypeOK
<1>1. SInv => TypeOK
  BY DEF SInv
<1> QED
  BY <1>1, HistoryInvariant, PTL

\* Nothing between the two ends of a Solana checkpoint is ever missing from the
\* raw transactions (solana_history.rs, commit_connector_batch).
THEOREM HistorySafety == Spec => []NoHistorySkipped
<1>1. SInv => NoHistorySkipped
  BY DEF SInv
<1> QED
  BY <1>1, HistoryInvariant, PTL
=============================================================================
