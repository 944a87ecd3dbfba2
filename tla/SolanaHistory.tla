---------------------------- MODULE SolanaHistory ----------------------------
(***************************************************************************)
(* Signature paging and the two-ended checkpoint of the Solana wallet      *)
(* connector (adapters/src/solana_history.rs), driven by ingestion jobs    *)
(* (run_connector_backfill) that may overlap on one target.                *)
(*                                                                         *)
(* A wallet's signatures are the positions 1..tip, oldest first; 0 stands  *)
(* for None.  The checkpoint says that before..head has been ingested: an  *)
(* incremental job extends it at the head, a backfill job at the other     *)
(* end.  Fetched results are runs of consecutive positions, so a result is *)
(* kept as its newest and oldest position and its length.                  *)
(***************************************************************************)
EXTENDS Integers

CONSTANTS
    Executors,  \* job executions that may overlap
    Limit,      \* ingest_limit
    PageMax,    \* signatures per page (1000 in the code)
    MaxTip,     \* bound: signatures the chain will hold
    MaxErrors   \* bound: provider errors, lost leases and failed commits

ASSUME ConstantsAssumption ==
    /\ Limit \in Nat \ {0} /\ PageMax \in Nat \ {0}
    /\ MaxTip \in Nat /\ MaxErrors \in Nat

VARIABLES
    tip,        \* newest signature of the wallet
    stored,     \* the positions whose transaction is in raw_transactions
    head,       \* checkpoint: last_signature
    before,     \* checkpoint: before_signature
    exhausted,  \* checkpoint: history_exhausted
    pc, mode,   \* per execution: where it is, "incremental" or "backfill"
    cp,         \* per execution: the checkpoint it read
    first, last, count,  \* per execution: the signatures collected so far
    ended,      \* per execution: a short page was seen
    errors      \* errors so far

ckptVars == <<head, before, exhausted>>
execVars == <<pc, mode, cp, first, last, count, ended>>
vars == <<tip, stored, ckptVars, execVars, errors>>

Checkpoints == [head : Nat, before : Nat, exhausted : BOOLEAN]
Modes == {"incremental", "backfill"}

Init ==
    /\ tip \in 0..MaxTip
    /\ stored = {}
    /\ head = 0 /\ before = 0 /\ exhausted = FALSE
    /\ pc = [x \in Executors |-> "idle"]
    /\ mode = [x \in Executors |-> "backfill"]
    /\ cp = [x \in Executors |-> [head |-> 0, before |-> 0, exhausted |-> FALSE]]
    /\ first = [x \in Executors |-> 0]
    /\ last = [x \in Executors |-> 0]
    /\ count = [x \in Executors |-> 0]
    /\ ended = [x \in Executors |-> FALSE]
    /\ errors = 0

\* An execution is over: its local state is gone.
Return(x) ==
    /\ pc' = [pc EXCEPT ![x] = "idle"]
    /\ mode' = [mode EXCEPT ![x] = "backfill"]
    /\ cp' = [cp EXCEPT ![x] = [head |-> 0, before |-> 0, exhausted |-> FALSE]]
    /\ first' = [first EXCEPT ![x] = 0]
    /\ last' = [last EXCEPT ![x] = 0]
    /\ count' = [count EXCEPT ![x] = 0]
    /\ ended' = [ended EXCEPT ![x] = FALSE]

Min2(a, b) == IF a <= b THEN a ELSE b

\* The chain: the wallet signs a transaction.
NewTransaction ==
    /\ tip < MaxTip
    /\ tip' = tip + 1
    /\ UNCHANGED <<stored, ckptVars, execVars, errors>>

\* A job reads the checkpoint and sets cursor["incremental"] from its mode.
Start(x, m) ==
    /\ pc[x] = "idle"
    /\ pc' = [pc EXCEPT ![x] = "page"]
    /\ mode' = [mode EXCEPT ![x] = m]
    /\ cp' = [cp EXCEPT ![x] = [head |-> head, before |-> before, exhausted |-> exhausted]]
    /\ UNCHANGED <<tip, stored, ckptVars, first, last, count, ended, errors>>

-----------------------------------------------------------------------------
(* signatures(): the paging loop *)

\* Mutant: a backfill job stops at the stored head too.
UntilAlways(x) == cp[x].head

\* The exclusive bounds of the request: an incremental job pages from the tip
\* down to the stored head, a backfill job from its before cursor to the end.
Until(x) == IF mode[x] = "incremental" THEN cp[x].head ELSE 0

Cursor(x) ==
    IF count[x] > 0 THEN last[x]
    ELSE IF mode[x] = "backfill" THEN cp[x].before ELSE 0

\* Mutant: a full result is accepted without probing for more.
RejectOverflowNever(x) == FALSE

RejectOverflow(x) == mode[x] = "incremental" /\ cp[x].head # 0

\* External: getSignaturesForAddress answers with the newest signatures older
\* than the cursor and newer than until, as many as asked for if there are.
Newest(x) == IF Cursor(x) = 0 THEN tip ELSE Cursor(x) - 1
Available(x) == IF Newest(x) > Until(x) THEN Newest(x) - Until(x) ELSE 0

Asked(x) == Min2(Limit - count[x], PageMax)

FetchPage(x) ==
    /\ pc[x] = "page"
    /\ LET asked == Asked(x)
           got == Min2(asked, Available(x))
       IN
        /\ count' = [count EXCEPT ![x] = @ + got]
        /\ first' = [first EXCEPT ![x] = IF count[x] = 0 /\ got > 0 THEN Newest(x) ELSE @]
        /\ last' = [last EXCEPT ![x] = IF got > 0 THEN Newest(x) - got + 1 ELSE @]
        /\ ended' = [ended EXCEPT ![x] = got < asked]
        /\ pc' = [pc EXCEPT ![x] =
             CASE got < asked -> "commit"
               [] got = asked /\ count[x] + got = Limit ->
                    IF RejectOverflow(x) THEN "probe" ELSE "commit"
               [] OTHER -> "page"]
    /\ UNCHANGED <<tip, stored, ckptVars, mode, cp, errors>>

\* A full result is probed for one more signature; finding one is the error
\* "More new Solana activity than ingest_limit ... checkpoint was not advanced".
Probe(x) ==
    /\ pc[x] = "probe"
    /\ IF Available(x) > 0
       THEN Return(x)
       ELSE /\ pc' = [pc EXCEPT ![x] = "commit"]
            /\ UNCHANGED <<mode, cp, first, last, count, ended>>
    /\ UNCHANGED <<tip, stored, ckptVars, errors>>

-----------------------------------------------------------------------------
(* fetch(): the next checkpoint *)

NewHead(x) ==
    IF (mode[x] = "incremental" \/ cp[x].head = 0) /\ count[x] > 0
    THEN first[x] ELSE cp[x].head

NewBefore(x) ==
    IF count[x] > 0 /\ ~ (mode[x] = "incremental" /\ cp[x].before # 0)
    THEN last[x] ELSE cp[x].before

NewExhausted(x) == IF mode[x] = "incremental" THEN cp[x].exhausted ELSE ended[x]

\* Every transaction was fetched: commit_connector_batch stores them with the
\* checkpoint, whatever the checkpoint has become since it was read.
Commit(x) ==
    /\ pc[x] = "commit"
    /\ stored' = IF count[x] > 0 THEN stored \cup last[x]..first[x] ELSE stored
    /\ head' = NewHead(x)
    /\ before' = NewBefore(x)
    /\ exhausted' = NewExhausted(x)
    /\ Return(x)
    /\ UNCHANGED <<tip, errors>>

\* An RPC error, an unfetchable transaction, an oversized or repeated page, a
\* lost lease or a failed commit: nothing is written.
Fail(x) ==
    /\ pc[x] # "idle"
    /\ errors < MaxErrors
    /\ errors' = errors + 1
    /\ Return(x)
    /\ UNCHANGED <<tip, stored, ckptVars>>

Execute(x) == FetchPage(x) \/ Probe(x) \/ Commit(x)

Next ==
    \/ NewTransaction
    \/ \E x \in Executors : (\E m \in Modes : Start(x, m)) \/ Execute(x) \/ Fail(x)

Spec == Init /\ [][Next]_vars

\* Every request of an execution has a timeout, so it never hangs.  Nobody is
\* obliged to start one.
Fairness == \A x \in Executors : WF_vars(Execute(x))

-----------------------------------------------------------------------------
(* Properties *)

TypeOK ==
    /\ tip \in 0..MaxTip
    /\ stored \subseteq Nat
    /\ head \in Nat /\ before \in Nat /\ exhausted \in BOOLEAN
    /\ pc \in [Executors -> {"idle", "page", "probe", "commit"}]
    /\ mode \in [Executors -> Modes]
    /\ cp \in [Executors -> Checkpoints]
    /\ first \in [Executors -> Nat] /\ last \in [Executors -> Nat]
    /\ count \in [Executors -> 0..Limit]
    /\ ended \in [Executors -> BOOLEAN]
    /\ errors \in 0..MaxErrors

\* The checkpoint h, b stands for a stretch of history without holes.
Gapless(h, b) ==
    /\ h = 0 <=> b = 0
    /\ b <= h /\ h <= tip
    /\ h # 0 => b..h \subseteq stored

\* "incremental_overflow_fails_instead_of_skipping_history": whatever jobs
\* overlap on the target, fail, or overwrite each other's checkpoint, nothing
\* between the two ends of the checkpoint is missing.
NoHistorySkipped == Gapless(head, before)

\* One execution at a time.
Alone == \A x, y \in Executors : x # y => pc[x] = "idle" \/ pc[y] = "idle"

\* If backfills keep being asked for, one execution at a time, everything older
\* than the head of the checkpoint is fetched in the end, whatever incremental
\* jobs and errors come between.
HistoryDrains ==
    []Alone /\ []<><<\E x \in Executors : Start(x, "backfill")>>_vars =>
        []<>(1..head \subseteq stored)

-----------------------------------------------------------------------------
(* The inductive invariant behind NoHistorySkipped *)

\* What an execution has collected: a run of positions that joins up with the
\* end of the checkpoint it extends.
Collected(x) ==
    count[x] > 0 =>
        /\ Until(x) < last[x] /\ last[x] <= first[x] /\ first[x] <= tip
        /\ count[x] = first[x] - last[x] + 1
        /\ mode[x] = "backfill" /\ cp[x].before # 0 => first[x] = cp[x].before - 1
        /\ pc[x] = "commit" /\ RejectOverflow(x) => last[x] = cp[x].head + 1

\* Inductive: the checkpoint an execution read was gapless then and is now, for
\* stored positions are never dropped.
SInv ==
    /\ TypeOK
    /\ NoHistorySkipped
    /\ \A x \in Executors :
        /\ pc[x] = "idle" => count[x] = 0
        /\ pc[x] # "idle" => Gapless(cp[x].head, cp[x].before) /\ Collected(x)
=============================================================================
