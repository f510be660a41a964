------------------------------ MODULE PromptRuns ------------------------------
(***************************************************************************)
(* The log of model calls (prompting/runner.py, prompting/trace.py), the   *)
(* rows that name a call, the cap that deletes calls no row names (gc.py), *)
(* and the exchange of the log between devices (db_sync.py).               *)
(*                                                                         *)
(* A device compiles a source of its own in batches; a validated batch is  *)
(* staged beside the log and survives the compile (pipeline/               *)
(* graph_index.py).  Calls are numbered in the order in which they start,  *)
(* which is the order of created_at: clocks agree here.                    *)
(***************************************************************************)
EXTENDS Sequences, FiniteSets, Revisions

CONSTANTS
    Devices,
    Makers,       \* those that compile
    Batches,      \* of the source that a device compiles
    Keep,         \* gc.prompt_runs_keep
    MaxCalls,     \* bound: calls of all devices
    MaxPublishes  \* bound: publishes of a device

VARIABLES
    log,          \* prompt_runs, per device: the status of each call it knows
    buried,       \* tombstones of calls, per device
    cited,        \* calls that artifacts of a device name (synchronized)
    staged,       \* graph_batch_results: the call of a batch (device-local)
    memory,       \* the compile that runs: the call of each batch it has
    open,         \* the call that waits for its model, with its batch
    file,         \* the export of each device
    calls,        \* the devices that made the calls
    published,
    capped        \* deletions by the cap: device, call, in the compile's memory

vars == <<log, buried, cited, staged, memory, open, file, calls, published, capped>>

Closed == [call |-> 0]

Init ==
    /\ log = [d \in Devices |-> <<>>]
    /\ buried = [d \in Devices |-> {}]
    /\ cited = [d \in Devices |-> {}]
    /\ staged = [d \in Devices |-> <<>>]
    /\ memory = [d \in Devices |-> <<>>]
    /\ open = [d \in Devices |-> Closed]
    /\ file = [d \in Devices |-> [log |-> <<>>, buried |-> {}, cited |-> {}]]
    /\ calls = <<>>
    /\ published = [d \in Devices |-> 0]
    /\ capped = {}

-----------------------------------------------------------------------------
(* Calls and the rows that name them *)

(* Batches are taken in order. *)
NextBatch(d) == CHOOSE b \in Batches \ DOMAIN memory[d] : \A c \in Batches \ DOMAIN memory[d] : b <= c
Going(d) == open[d] = Closed /\ DOMAIN memory[d] # Batches

(* A staged batch is not asked again. *)
Reuse(d) ==
    LET batch == NextBatch(d) IN
    /\ Going(d) /\ batch \in DOMAIN staged[d]
    /\ memory' = [memory EXCEPT ![d] = Over([b \in {batch} |-> staged[d][b]], @)]
    /\ UNCHANGED <<log, buried, cited, staged, open, file, calls, published, capped>>

(* start_prompt_run: the row is there before the model is asked. *)
Start(d) ==
    /\ Going(d) /\ NextBatch(d) \notin DOMAIN staged[d]
    /\ Len(calls) < MaxCalls /\ published[d] < MaxPublishes
    /\ calls' = Append(calls, d)
    /\ log' = [log EXCEPT ![d] = Over([r \in {Len(calls) + 1} |-> "pending"], @)]
    /\ open' = [open EXCEPT ![d] = [call |-> Len(calls) + 1, batch |-> NextBatch(d)]]
    /\ UNCHANGED <<buried, cited, staged, memory, file, published, capped>>

(* finish_prompt_run updates the row, created_at stays; a row that is gone  *)
(* stays gone.                                                              *)
Closing(d, status) ==
    log' = [log EXCEPT ![d] = [r \in DOMAIN @ |-> IF r = open[d].call THEN status ELSE @[r]]]

(* An answer that validates, at once or repaired, is staged in a            *)
(* transaction of its own; if this fails it is only in memory.              *)
Answer(d) ==
    /\ open[d] # Closed
    /\ Closing(d, "ok")
    /\ memory' = [memory EXCEPT ![d] = Over([b \in {open[d].batch} |-> open[d].call], @)]
    /\ \/ staged' = [staged EXCEPT ![d] = Over([b \in {open[d].batch} |-> open[d].call], @)]
       \/ staged' = staged
    /\ open' = [open EXCEPT ![d] = Closed]
    /\ UNCHANGED <<buried, cited, file, calls, published, capped>>

(* An answer that does not, or an error: the batch may be asked again.      *)
Refuse(d) ==
    /\ open[d] # Closed
    /\ Closing(d, "failed")
    /\ open' = [open EXCEPT ![d] = Closed]
    /\ UNCHANGED <<buried, cited, staged, memory, file, calls, published, capped>>

(* The compile fails or its process ends. *)
Abandon(d) ==
    /\ open[d] # Closed \/ memory[d] # <<>>
    /\ open' = [open EXCEPT ![d] = Closed]
    /\ memory' = [memory EXCEPT ![d] = <<>>]
    /\ UNCHANGED <<log, buried, cited, staged, file, calls, published, capped>>

(* The publish writes the rows and drops what was staged, in one transaction. *)
Publish(d) ==
    /\ DOMAIN memory[d] = Batches /\ published[d] < MaxPublishes
    /\ cited' = [cited EXCEPT ![d] = @ \cup Range(memory[d])]
    /\ staged' = [staged EXCEPT ![d] = <<>>]
    /\ memory' = [memory EXCEPT ![d] = <<>>]
    /\ published' = [published EXCEPT ![d] = @ + 1]
    /\ UNCHANGED <<log, buried, open, file, calls, capped>>

-----------------------------------------------------------------------------
(* The cap *)

(* Mutant: staged batches are not among the rows that name a call.          *)
ReferencedByArtifacts(d) == cited[d]

Referenced(d) == cited[d] \cup Range(staged[d])

(* All but the newest Keep of the calls that no row names. *)
OverCap(d) ==
    LET unreferenced == DOMAIN log[d] \ Referenced(d)
    IN {r \in unreferenced : Cardinality({n \in unreferenced : n > r}) >= Keep}

(* Mutant: a deletion without a tombstone.                                  *)
BuriedNone(d, doomed) == buried

Buried(d, doomed) == [buried EXCEPT ![d] = @ \cup doomed]

Cap(d) ==
    LET doomed == OverCap(d)  held == Range(memory[d]) \cup {open[d].call} IN
    /\ doomed # {}
    /\ log' = [log EXCEPT ![d] = [r \in DOMAIN @ \ doomed |-> @[r]]]
    /\ buried' = Buried(d, doomed)
    /\ capped' = capped \cup {[device |-> d, call |-> r, held |-> r \in held] : r \in doomed}
    /\ UNCHANGED <<cited, staged, memory, open, file, calls, published>>

-----------------------------------------------------------------------------
(* The exchange *)

Shared(d) == [log |-> log[d], buried |-> buried[d], cited |-> cited[d]]

Export(d) ==
    /\ file[d] # Shared(d)
    /\ file' = [file EXCEPT ![d] = Shared(d)]
    /\ UNCHANGED <<log, buried, cited, staged, memory, open, calls, published, capped>>

(* Tombstones first; a row that is known is skipped: its revision is created_at. *)
Merged(d, in) ==
    LET dead == buried[d] \cup in.buried  met == Over(log[d], in.log)
    IN [log |-> [r \in DOMAIN met \ dead |-> met[r]], buried |-> dead, cited |-> cited[d] \cup in.cited]

Import(d, peer) ==
    LET merged == Merged(d, file[peer]) IN
    /\ d # peer
    /\ log' = [log EXCEPT ![d] = merged.log]
    /\ buried' = [buried EXCEPT ![d] = merged.buried]
    /\ cited' = [cited EXCEPT ![d] = merged.cited]
    /\ UNCHANGED <<staged, memory, open, file, calls, published, capped>>

Next ==
    \/ \E d \in Devices : Reuse(d)
    \/ \E d \in Makers : Start(d)
    \/ \E d \in Devices : Answer(d)
    \/ \E d \in Devices : Refuse(d)
    \/ \E d \in Devices : Abandon(d)
    \/ \E d \in Devices : Publish(d)
    \/ \E d \in Devices : Cap(d)
    \/ \E d \in Devices : Export(d)
    \/ \E d, peer \in Devices : Import(d, peer)

Spec == Init /\ [][Next]_vars

-----------------------------------------------------------------------------
(* Properties *)

(* A row of a device that names a call of the device which is not in the    *)
(* log any more: the call was deleted by the cap of another device, or by   *)
(* this one's while the compile had it only in memory.  The cap spares what *)
(* its own device names, from the moment a batch is staged, over failed     *)
(* compiles and resumptions, to the publish.                                *)
OwnCapSpares ==
    \A d \in Devices : \A r \in Referenced(d) \ DOMAIN log[d] : calls[r] = d =>
        \E c \in capped : c.call = r /\ (c.device # d \/ c.held)

(* What the cap deleted stays deleted on its device, whatever older export  *)
(* of a peer is imported.                                                   *)
CappedStayDeleted == \A c \in capped : c.call \notin DOMAIN log[c.device]

(* The cap on the log of calls spares what is cited, and its deletions last. *)
CapsHold == OwnCapSpares /\ CappedStayDeleted

(* Nothing is left to export or to import. *)
Settled == \A d, peer \in Devices : file[peer] = Shared(peer) /\ Merged(d, file[peer]) = Shared(d)

(* Rows that are changed need a clock that moves: once nothing is left to   *)
(* exchange, two devices tell the same of a call.  It fails for a call that *)
(* was exported while it was pending.                                       *)
FinishedArrives == Settled => \A d, peer \in Devices : log[d] = log[peer]
=============================================================================
