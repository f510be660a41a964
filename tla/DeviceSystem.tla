----------------------------- MODULE DeviceSystem -----------------------------
(***************************************************************************)
(* What a device keeps for itself: the chain of the providers it asks, the *)
(* files of its settings, state and secrets, the caches of vaults that are *)
(* gone, the search index it derives, the questions it answers, and what   *)
(* was decided about contradictions.  These share no state.                *)
(***************************************************************************)
EXTENDS Failover

CONSTANTS
    Threads, Keys, MaxRequests,   \* of LocalState
    MaxChanges,                   \* of CacheSweep
    Refreshers, MaxIndexed, MaxRefreshes,  \* of SearchIndex
    Spans, SourceOf, RecordIds, Kind, Cites, Policies, Requests, MaxMeanwhile,   \* of QueryPath
    Atoms, Linked, MaxPairs, Actors, MaxRuns, MaxEdits   \* of Contradictions

VARIABLES
    local, secret, lock, doing, requests, meant, saves, commits, named,             \* LocalState
    there, root, database, journal, stamp, look, shown, phase, since, lost, other,  \* CacheSweep
    records, docs, chunks, embedded, model, refresh, revised, refreshes, mixed,     \* SearchIndex
    spans, graphed, indexed, sized, embedder, curate, happened, question,           \* QueryPath
    atoms, flagged, verified, store, proc, decided, raced, overtaken, runs, writings   \* Contradictions

Local == INSTANCE LocalState WITH file <- local, key <- secret, op <- doing, told <- named

Sweep == INSTANCE CacheSweep WITH vault <- root, at <- phase

Index == INSTANCE SearchIndex WITH
    MaxChanges <- MaxIndexed, rows <- records, vectors <- embedded, changes <- revised, overlapped <- mixed

Question == INSTANCE QueryPath WITH
    Records <- RecordIds, MaxChanges <- MaxMeanwhile,
    rows <- graphed, index <- indexed, vectors <- sized, provider <- embedder, changes <- happened, q <- question

Pairs == INSTANCE Contradictions WITH text <- atoms, edits <- writings

(* Settings, identity and secrets outlive concurrent updates, and only the *)
(* cache that the user was shown is deleted.                               *)
FilesHold == Local!FilesMeet /\ Sweep!SweepsWhatItShowed

(* The index is a true copy of what the records say, whoever rebuilds it.  *)
IndexTruthful == [][Index!Refreshing]_(Index!vars)

(* An answer is true about how it was found and from what.                 *)
AnswersTruthful == Question!AnswersTruthful

(* A decision about a pair lasts, is heeded, and costs no edit.            *)
DecisionsHold == [][Pairs!Deciding]_(Pairs!vars)
=============================================================================
