----------------------------- MODULE ContextPacks -----------------------------
(***************************************************************************)
(* The agent context service (context_service.py): a fetch packs what the  *)
(* retrieval found into a token budget and stores it in a query trace;     *)
(* later calls expand it, verify its items or give feedback on it.         *)
(*                                                                         *)
(* Each of the later calls reads the trace, works on what it read, and     *)
(* writes the whole row back.  Calls of several agents may overlap, and a  *)
(* process may end between its steps.  The snapshot that a caller names is *)
(* that of the pack, which never changes, so it always agrees.             *)
(***************************************************************************)
EXTENDS Naturals, SequencesExt

CONSTANTS
    Items,        \* what a retrieval may find
    Cost,         \* tokens of an item
    Limits,       \* budgets that callers ask for
    Reserved,     \* _DEFAULT_RESERVED_TOKENS
    Clients,
    MaxCalls      \* bound: calls on the pack

VARIABLES
    trace,        \* the row of query_traces, or NoTrace
    call,         \* per client: what it does and the trace it read
    insights,     \* feedback that has an insight candidate
    calls,        \* calls made so far
    told,         \* what callers were told was done
    overlapped    \* whether two calls were ever open at once

vars == <<trace, call, insights, calls, told, overlapped>>

NoTrace == [selected |-> <<>>, omitted |-> <<>>, actions |-> <<>>, limit |-> 0, fetched |-> {}]
Idle == [op |-> "none", seen |-> NoTrace, id |-> 0, wanted |-> {}, limit |-> 0, ready |-> TRUE]

Init ==
    /\ trace = NoTrace
    /\ call = [c \in Clients |-> Idle]
    /\ insights = {}
    /\ calls = 0
    /\ told = [events |-> {}, items |-> {}, most |-> 0]
    /\ overlapped = FALSE

(* A sequence taken up item by item. *)
Through(items, start, step) ==
    LET after[n \in 0..Len(items)] == IF n = 0 THEN start ELSE step[after[n - 1], items[n]]
    IN after[Len(items)]

Total(items) == Through(items, 0, [sum \in Nat, i \in Items |-> sum + Cost[i]])
Reserve(limit) == Min({Reserved, limit \div 4})

(* The items that fit, each beside the ones taken before it. *)
Packed(items, room, used) ==
    Through(items, <<>>, [taken \in Seq(Items), i \in Items |->
                             IF used + Total(taken) + Cost[i] <= room THEN Append(taken, i) ELSE taken])

Within(items, set) ==
    Through(items, <<>>, [kept \in Seq(Items), i \in Items |-> IF i \in set THEN Append(kept, i) ELSE kept])

Lacking(items, taken) == Within(items, Items \ ToSet(taken))

(* _apply_budget withholds a reserve, _budget_payloads spends it. *)
FetchRoom(limit) == limit - Reserve(limit)

(* Mutant: the reserve is withheld again.                                   *)
ExpandRoomReserved(limit) == limit - Reserve(limit)

ExpandRoom(limit) == limit

(* context_fetch. *)
Fetch(found, limit) ==
    LET selected == Packed(found, FetchRoom(limit), 0) IN
    /\ trace = NoTrace
    /\ trace' = [selected |-> selected, omitted |-> Lacking(found, selected), limit |-> limit,
                 actions |-> <<[type |-> "retrieval"], [type |-> "pack_assembly"], [type |-> "budget"]>>,
                 fetched |-> ToSet(found)]
    /\ told' = [events |-> told.events, items |-> told.items, most |-> limit]
    /\ UNCHANGED <<call, insights, calls, overlapped>>

-----------------------------------------------------------------------------
(* Calls on a pack *)

Open(c) == call[c].op # "none"

(* _find_context_pack: the row is read and its connection closed. *)
Read(c, op, wanted, limit, ready) ==
    /\ trace # NoTrace /\ ~ Open(c) /\ calls < MaxCalls
    /\ call' = [call EXCEPT ![c] = [op |-> op, seen |-> trace, id |-> calls + 1,
                                    wanted |-> wanted, limit |-> limit, ready |-> ready]]
    /\ calls' = calls + 1
    /\ overlapped' = (overlapped \/ \E other \in Clients : Open(other))
    /\ UNCHANGED <<trace, insights, told>>

(* Handles of items that are selected already match nothing. *)
ReadForExpand(c) ==
    \E wanted \in SUBSET trace.fetched \ {{}}, limit \in Limits : Read(c, "expansion", wanted, limit, TRUE)

(* Any item of the pack may be verified. *)
ReadForVerify(c) == trace.fetched # {} /\ Read(c, "verification", {}, 0, TRUE)

(* A new insight becomes a candidate before the event is written. *)
ReadForFeedback(c) == \E insight \in BOOLEAN : Read(c, "feedback", {}, 0, ~insight)

CreateInsight(c) ==
    /\ Open(c) /\ ~ call[c].ready
    /\ insights' = insights \cup {call[c].id}
    /\ call' = [call EXCEPT ![c] = [call[c] EXCEPT !.ready = TRUE]]
    /\ UNCHANGED <<trace, calls, told, overlapped>>

(* What a call adds to the selection of the pack it read. *)
Added(k) ==
    IF k.op # "expansion" THEN <<>>
    ELSE Packed(Within(k.seen.omitted, k.wanted), ExpandRoom(k.limit), Total(k.seen.selected))

(* Mutant: the updated selection is not handed on.                          *)
UpdatedActions(k) == [k.seen EXCEPT !.actions = Append(@, [type |-> k.op, id |-> k.id])]

(* Mutant: what was added stays among the omitted.                          *)
UpdatedSelection(k) ==
    [k.seen EXCEPT !.actions = Append(@, [type |-> k.op, id |-> k.id]), !.selected = @ \o Added(k)]

(* _append_context_action: the row as it was read, with one action more. *)
Updated(k) ==
    [selected |-> k.seen.selected \o Added(k), omitted |-> Lacking(k.seen.omitted, Added(k)),
     actions |-> Append(k.seen.actions, [type |-> k.op, id |-> k.id]),
     limit |-> k.seen.limit, fetched |-> k.seen.fetched]

(* The whole row is written; an expansion that adds nothing writes nothing. *)
Writes(k) == k.op = "expansion" => Added(k) # <<>>

Write(c) ==
    LET k == call[c] IN
    /\ Open(c) /\ k.ready
    /\ trace' = IF Writes(k) THEN Updated(k) ELSE trace
    /\ told' = [events |-> told.events \cup IF Writes(k) THEN {k.id} ELSE {},
                items |-> told.items \cup ToSet(Added(k)),
                most |-> IF Added(k) # <<>> THEN Max({told.most, k.limit}) ELSE told.most]
    /\ call' = [call EXCEPT ![c] = Idle]
    /\ UNCHANGED <<insights, calls, overlapped>>

(* The process of a call ends, or the call is cancelled. *)
Die(c) ==
    /\ Open(c)
    /\ call' = [call EXCEPT ![c] = Idle]
    /\ UNCHANGED <<trace, insights, calls, told, overlapped>>

Next ==
    \/ \E found \in SetToSeqs(Items), limit \in Limits : Fetch(found, limit)
    \/ \E c \in Clients : ReadForExpand(c)
    \/ \E c \in Clients : ReadForVerify(c)
    \/ \E c \in Clients : ReadForFeedback(c)
    \/ \E c \in Clients : CreateInsight(c)
    \/ \E c \in Clients : Write(c)
    \/ \E c \in Clients : Die(c)

Spec == Init /\ [][Next]_vars

-----------------------------------------------------------------------------
(* Properties *)

(* Every item that was fetched is selected or omitted, never both and never *)
(* twice, whatever calls did to the row, stale writes included; a selection *)
(* never costs more than the largest budget that somebody gave it.          *)
PackPartitioned ==
    /\ ToSet(trace.selected) \cup ToSet(trace.omitted) = trace.fetched
    /\ Len(trace.selected) + Len(trace.omitted) = Cardinality(trace.fetched)
    /\ Total(trace.selected) <= told.most

(* The reserve is spendable: until something was expanded, any omitted item *)
(* no larger than the reserve can be had within the budget of the fetch.    *)
HeadroomSpendable ==
    trace # NoTrace /\ (\A a \in ToSet(trace.actions) : a.type # "expansion") =>
        \A i \in ToSet(trace.omitted) :
            Cost[i] <= Reserve(trace.limit) =>
                Packed(<<i>>, ExpandRoom(trace.limit), Total(trace.selected)) = <<i>>

Events == {a.id : a \in {b \in ToSet(trace.actions) : b.type \notin {"retrieval", "pack_assembly", "budget"}}}

Kept == told.events \subseteq Events /\ told.items \subseteq ToSet(trace.selected)

(* While calls come one after the other, what a caller was told is in the   *)
(* trace: its action, and the items an expansion gave.                      *)
SerialCallsKept == ~ overlapped => Kept

(* What a pack promises, whatever calls expand, verify and judge it at once. *)
PacksHold == PackPartitioned /\ HeadroomSpendable /\ SerialCallsKept

(* Every candidate's event is in the trace, or its call is still open; this *)
(* fails for calls that overlap and for a process that ends in between.     *)
InsightsTraced == \A e \in insights : e \in Events \/ \E c \in Clients : Open(c) /\ call[c].id = e

=============================================================================
