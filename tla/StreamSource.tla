---------------------------- MODULE StreamSource ----------------------------
(***************************************************************************)
(* Where the messages of a stream come from: the task that holds the       *)
(* connection (adapters/src/solana_grpc.rs, hyperliquid_ws.rs) and the     *)
(* stream task that takes them off a bounded channel and stores them       *)
(* (api/src/stream_worker.rs), for one subscription and the tasks that     *)
(* follow one another on it.                                               *)
(*                                                                         *)
(* "grpc" is stream_transactions, "cursor" the stream of Connector, which  *)
(* starts at a stored cursor, and "ws" subscribe_user.  The repository has *)
(* no consumer of "cursor" yet; it is given the one of "grpc".             *)
(***************************************************************************)
EXTENDS Integers, Sequences, Functions

CONSTANTS
    MaxMessage,    \* bound: messages of the chain, numbered in order
    SlotOf,        \* SlotOf[i]: the slot of message i
    Unreadable,    \* messages convert_grpc_transaction rejects
    Sources,       \* the kinds of stream explored
    ChannelSize,   \* channel_capacity
    FlushSize,     \* BATCH_SIZE
    MaxRetries,    \* max_retries
    MaxStreams,    \* bound: tasks on the subscription
    MaxSrcFaults   \* bound: failed connections, statements and lost leases

ASSUME SourceAssumption ==
    /\ SlotOf \in [1 .. MaxMessage -> Nat \ {0}]
    /\ \A i, j \in 1 .. MaxMessage : i < j => SlotOf[i] <= SlotOf[j]
    /\ {ChannelSize, FlushSize, MaxStreams} \subseteq Nat \ {0}
    /\ MaxMessage \in Nat /\ MaxRetries \in Nat /\ MaxSrcFaults \in Nat

VARIABLES
    source,     \* the kind of stream
    emitted,    \* messages the chain has produced
    conn,       \* where the connection task is
    position,   \* the message the server sends next
    slot,       \* SlotCheckpoint
    held,       \* a message the connection task is sending; 0 when none
    retries,    \* retry_count
    queue,      \* the channel
    consumer,   \* where the stream task is
    unsaved,    \* received and not yet stored
    lastSlot,   \* slot of the last message received
    saved,      \* messages in raw_transactions
    storedSlot, \* last_slot of the stored cursor; 0 when there is none
    firstSent,  \* history: the first message delivered, since the last gap allowed
    reached,    \* history: the last one delivered
    streams,    \* tasks so far
    srcFaults

linkVars == <<conn, position, slot, held, retries>>
consumerVars == <<consumer, unsaved, lastSlot>>
pastVars == <<firstSent, reached, streams>>
sourceVars == <<source, emitted, linkVars, queue, consumerVars, saved, storedSlot, pastVars, srcFaults>>

SourceInit ==
    /\ source \in Sources /\ emitted = 0
    /\ conn = "ended" /\ position = 1 /\ slot = 0 /\ held = 0 /\ retries = 0
    /\ queue = <<>>
    /\ consumer = "ended" /\ unsaved = <<>> /\ lastSlot = 0
    /\ saved = {} /\ storedSlot = 0
    /\ firstSent = 0 /\ reached = 0 /\ streams = 0 /\ srcFaults = 0

SrcFault == srcFaults < MaxSrcFaults /\ srcFaults' = srcFaults + 1

\* The chain goes on, whoever listens.
Emit ==
    /\ emitted < MaxMessage
    /\ emitted' = emitted + 1
    /\ UNCHANGED <<source, linkVars, queue, consumerVars, saved, storedSlot, pastVars, srcFaults>>

-----------------------------------------------------------------------------
(* The connection task *)

\* cursor_to_from_slot: what the task was started with; 0 is none.
CursorSlot == IF source = "cursor" THEN storedSlot ELSE 0

\* Mutant: the slot after the last one seen.
FromSlotNext == IF slot > 0 THEN slot + 1 ELSE CursorSlot

\* The slot asked for: the checkpoint, or the cursor.
FromSlot == IF slot > 0 THEN slot ELSE CursorSlot

\* The server replays from the first message of the slot on, or sends what comes next.
Replay ==
    IF FromSlot = 0 THEN {emitted + 1}
    ELSE {p \in 1 .. emitted + 1 : \A i \in 1 .. emitted : SlotOf[i] < FromSlot <=> i < p}

\* connect_client and subscribe_once; a WebSocket has no replay.
Connect ==
    /\ conn = "connect"
    /\ conn' = "open"
    /\ position' \in IF source = "ws" THEN {emitted + 1} ELSE Replay
    /\ UNCHANGED <<source, emitted, slot, held, retries, queue, consumerVars, saved, storedSlot, pastVars, srcFaults>>

\* convert_grpc_transaction and build_raw_metadata.
Converts(i) == i \notin Unreadable

Delivered ==
    /\ position' = position + 1
    /\ firstSent' = IF firstSent = 0 THEN position ELSE firstSent
    /\ reached' = IF position > reached THEN position ELSE reached

\* run_stream: the slot is noted, then the message converted and sent.
Deliver ==
    /\ conn = "open" /\ source # "ws" /\ position <= emitted
    /\ slot' = IF SlotOf[position] > slot THEN SlotOf[position] ELSE slot
    /\ IF Converts(position) THEN held' = position /\ conn' = "send"
       ELSE UNCHANGED <<conn, held>>
    /\ Delivered
    /\ UNCHANGED <<source, emitted, retries, queue, consumerVars, saved, storedSlot, streams, srcFaults>>

\* The send waits for room, or until the task is aborted with its receiver.
Send ==
    /\ conn = "send"
    /\ Len(queue) < ChannelSize
    /\ queue' = Append(queue, held) /\ held' = 0
    /\ conn' = "open"
    /\ UNCHANGED <<source, emitted, position, slot, retries, consumerVars, saved, storedSlot, pastVars, srcFaults>>

\* on_message of subscribe_user: try_send, so that a full channel drops the message.
DeliverWs ==
    /\ conn = "open" /\ source = "ws" /\ position <= emitted
    /\ queue' = IF Len(queue) < ChannelSize THEN Append(queue, position) ELSE queue
    /\ Delivered
    /\ UNCHANGED <<source, emitted, conn, slot, held, retries, consumerVars, saved, storedSlot, streams, srcFaults>>

\* The count is of the life of the task, not of one outage.
GivesUp(n) == n > MaxRetries

\* The connection fails or breaks; a WebSocket that the server closes counts as one.
Break ==
    /\ conn \in {"connect", "open"}
    /\ SrcFault
    /\ retries' = retries + 1
    /\ conn' = IF GivesUp(retries + 1) THEN "ended" ELSE "backoff"
    /\ UNCHANGED <<source, emitted, position, slot, held, queue, consumerVars, saved, storedSlot, pastVars>>

\* An orderly end of a gRPC stream is not retried.
CloseByServer ==
    /\ conn = "open" /\ source # "ws"
    /\ SrcFault
    /\ conn' = "ended"
    /\ UNCHANGED <<source, emitted, position, slot, held, retries, queue, consumerVars, saved, storedSlot, pastVars>>

Backoff ==
    /\ conn = "backoff"
    /\ conn' = "connect"
    /\ UNCHANGED <<source, emitted, position, slot, held, retries, queue, consumerVars, saved, storedSlot, pastVars, srcFaults>>

-----------------------------------------------------------------------------
(* The stream task *)

\* The task returns: its connection task is aborted, the channel is gone.
ReturnStream ==
    /\ consumer' = "ended"
    /\ conn' = "ended" /\ held' = 0 /\ queue' = <<>> /\ unsaved' = <<>>
    /\ UNCHANGED <<position, slot, retries>>

\* A message joins the batch, which is flushed when it is full or old.
TakeMessage ==
    /\ consumer = "run" /\ queue # <<>>
    /\ queue' = Tail(queue)
    /\ unsaved' = Append(unsaved, Head(queue))
    /\ lastSlot' = SlotOf[Head(queue)]
    /\ consumer' \in IF Len(unsaved') >= FlushSize THEN {"flush"} ELSE {"flush", "run"}
    /\ UNCHANGED <<source, emitted, linkVars, saved, storedSlot, pastVars, srcFaults>>

\* flush_stream_batch: the upsert deduplicates what was replayed.  A failed one
\* keeps the batch for the next flush, or loses it when it was the last.
FlushBatch ==
    /\ consumer \in {"flush", "final"}
    /\ \/ /\ saved' = saved \cup Range(unsaved)
          /\ unsaved' = <<>>
          /\ consumer' = IF consumer = "flush" THEN "cursor" ELSE "finalCursor"
          /\ UNCHANGED <<linkVars, queue, srcFaults>>
       \/ /\ consumer = "flush" /\ SrcFault
          /\ consumer' = "run"
          /\ UNCHANGED <<linkVars, queue, unsaved, saved>>
       \/ /\ consumer = "final" /\ SrcFault
          /\ ReturnStream
          /\ UNCHANGED saved
    /\ UNCHANGED <<source, emitted, lastSlot, storedSlot, pastVars>>

\* update_stream_cursor, whose failure is only logged.
StoreCursor ==
    /\ consumer \in {"cursor", "finalCursor"}
    /\ \/ storedSlot' = lastSlot /\ UNCHANGED srcFaults
       \/ SrcFault /\ UNCHANGED storedSlot
    /\ \/ consumer = "finalCursor" /\ ReturnStream
       \/ consumer = "cursor" /\ consumer' = "run" /\ UNCHANGED <<linkVars, queue, unsaved>>
    /\ UNCHANGED <<source, emitted, lastSlot, saved, pastVars>>

\* What is left of the batch is flushed before the task returns.
LeaveStream ==
    \/ unsaved = <<>> /\ ReturnStream
    \/ unsaved # <<>> /\ consumer' = "final" /\ UNCHANGED <<linkVars, queue, unsaved>>

\* Mutant: a closed channel is waited on like an empty one.
SourceClosedIgnored ==
    /\ consumer = "run" /\ queue = <<>> /\ conn = "ended" /\ unsaved # <<>>
    /\ LeaveStream
    /\ UNCHANGED <<source, emitted, lastSlot, saved, storedSlot, pastVars, srcFaults>>

\* recv() returns None: the connection task ended and its messages were taken.
SourceClosed ==
    /\ consumer = "run" /\ queue = <<>> /\ conn = "ended"
    /\ LeaveStream
    /\ UNCHANGED <<source, emitted, lastSlot, saved, storedSlot, pastVars, srcFaults>>

CancelTask ==
    /\ consumer = "run" /\ SrcFault
    /\ LeaveStream
    /\ UNCHANGED <<source, emitted, lastSlot, saved, storedSlot, pastVars>>

\* A refused heartbeat, or the exit of the process: the batch is lost.
LoseStream ==
    /\ consumer # "ended" /\ SrcFault
    /\ ReturnStream
    /\ UNCHANGED <<source, emitted, lastSlot, saved, storedSlot, pastVars>>

\* The subscription is claimed, for the first time or again, with a new adapter.
\* A stream that does not start at the cursor leaves a gap.
NextTask ==
    /\ consumer = "ended" /\ streams < MaxStreams
    /\ streams' = streams + 1
    /\ conn' = "connect" /\ slot' = 0 /\ retries' = 0
    /\ consumer' = "run" /\ lastSlot' = storedSlot
    /\ IF source = "cursor" /\ storedSlot > 0 THEN UNCHANGED <<firstSent, reached>>
       ELSE firstSent' = 0 /\ reached' = 0
    /\ UNCHANGED <<source, emitted, position, held, queue, unsaved, saved, storedSlot, srcFaults>>

ConnStep == Connect \/ Deliver \/ Send \/ DeliverWs \/ Backoff
ConsumerStep == TakeMessage \/ FlushBatch \/ StoreCursor \/ SourceClosed

SourceNext ==
    \/ Emit \/ ConnStep \/ Break \/ CloseByServer
    \/ ConsumerStep \/ CancelTask \/ LoseStream \/ NextTask

\* Both tasks are scheduled by the runtime and none of their waits is on the other
\* for ever; the chain, the server and the leases promise nothing.
SourceFairness == WF_sourceVars(ConnStep) /\ WF_sourceVars(ConsumerStep)

SourceSpec == SourceInit /\ [][SourceNext]_sourceVars /\ SourceFairness

-----------------------------------------------------------------------------
(* Properties *)

\* Types, and the retries: the connection is tried again MaxRetries times at most.
SourceTypeOK ==
    /\ source \in Sources /\ emitted \in 0 .. MaxMessage
    /\ conn \in {"connect", "open", "send", "backoff", "ended"}
    /\ position \in 1 .. MaxMessage + 1 /\ held \in 0 .. MaxMessage
    /\ (conn = "send") = (held # 0)
    /\ Len(queue) <= ChannelSize /\ Range(queue) \subseteq 1 .. emitted
    /\ retries \in 0 .. MaxRetries + 1 /\ (retries > MaxRetries => conn = "ended")
    /\ consumer \in {"run", "flush", "cursor", "final", "finalCursor", "ended"}
    /\ saved \subseteq 1 .. emitted
    /\ source # "ws" => saved \cap Unreadable = {}

InHand == Range(queue) \cup Range(unsaved) \cup {held}

\* "resuming from the last checkpointed slot": over reconnections in the middle of a
\* slot, replays, failed flushes and full channels, every readable gRPC message
\* between the first and the last delivered to a task is stored or on its way.
\* With a cursor to start from this holds over the tasks as well.
NoMessageSkipped ==
    source # "ws" /\ firstSent > 0 /\ conn \in {"open", "send"} =>
        \A i \in firstSent .. emitted : i < position /\ Converts(i) => i \in saved \cup InHand

\* The stored cursor is a place to resume from: what was delivered in the slots
\* before it is stored, whatever was lost with the tasks after it.
CursorSlotIsStored ==
    source # "ws" /\ firstSent > 0 =>
        \A i \in firstSent .. reached : Converts(i) /\ SlotOf[i] < storedSlot => i \in saved

\* A stream can be resumed without loss, from the connection's own checkpoint and
\* from the stored cursor, within the bounds on retries and on the channel.
\* solana_grpc.rs connection loop, stream_worker.rs run_stream.
SourceConsistent == SourceTypeOK /\ NoMessageSkipped /\ CursorSlotIsStored

-----------------------------------------------------------------------------
(* The inductive invariant behind SourceConsistent, of the streams that replay. *)

\* What is on its way is of the chain, and readable; a task that returned holds nothing.
PipelineOK ==
    /\ queue \in Seq(1 .. emitted) /\ unsaved \in Seq(1 .. emitted) /\ held \in 0 .. emitted
    /\ position \in 1 .. emitted + 1
    /\ source # "ws" => (saved \cup InHand) \cap Unreadable \subseteq {0}
    /\ consumer \in {"cursor", "finalCursor", "ended"} => unsaved = <<>>
    /\ consumer = "ended" => conn = "ended" /\ queue = <<>>

\* A slot that was noted is the slot of a message the chain has produced.
Noted(s, last) == s \in Nat /\ (s > 0 => last > 0 /\ s <= SlotOf[last])

\* The checkpoint, the cursor and the batch refer to messages that were delivered.
SlotsOK ==
    /\ firstSent \in 0 .. reached /\ reached \in 0 .. emitted /\ (reached > 0 => firstSent > 0)
    /\ Noted(storedSlot, emitted) /\ Noted(lastSlot, emitted) /\ Noted(slot, reached)
    /\ (firstSent > 0 \/ source = "cursor") => Noted(storedSlot, reached)
    /\ consumer # "ended" =>
        /\ slot > 0 => lastSlot <= slot
        /\ slot = 0 => lastSlot = storedSlot /\ (CursorSlot = 0 => firstSent = 0)

\* Messages travel in the order of their slots, from the connection to the batch.
InSlotOrder ==
    /\ \A a \in 1 .. Len(queue) : lastSlot <= SlotOf[queue[a]] /\ SlotOf[queue[a]] <= slot
    /\ held # 0 => lastSlot <= SlotOf[held] /\ SlotOf[held] <= slot
    /\ \A a \in 1 .. Len(queue) :
        /\ \A b \in a .. Len(queue) : SlotOf[queue[a]] <= SlotOf[queue[b]]
        /\ held # 0 => SlotOf[queue[a]] <= SlotOf[held]

\* An open connection is past the slots before the one it asked for, and one without
\* a first message past the stored cursor.
ConnectionOK ==
    conn \in {"open", "send"} => \A i \in 1 .. emitted :
        /\ SlotOf[i] < FromSlot => i < position
        /\ firstSent = 0 /\ SlotOf[i] < storedSlot => i < position

\* What a reconnection will not ask for again is stored or on its way.
ResumeIsSafe ==
    consumer # "ended" /\ firstSent > 0 => \A i \in firstSent .. reached :
        SlotOf[i] < FromSlot /\ Converts(i) => i \in saved \cup InHand

SourceInv ==
    /\ SourceConsistent /\ PipelineOK
    /\ source # "ws" => SlotsOK /\ InSlotOrder /\ ConnectionOK /\ ResumeIsSafe

-----------------------------------------------------------------------------
(* Progress *)

\* "return an error so the worker marks the subscription as failed instead of silently
\* recycling it": when the connection task has given up, the stream task ends too.
SourceEndIsNoticed == (conn = "ended" /\ consumer # "ended") ~> (consumer = "ended")
=============================================================================
