----------------------------- MODULE MCServices -----------------------------
(***************************************************************************)
(* Instances of the modules of the services for TLC: the provider chain,   *)
(* local files, the sweep of caches, the search index, questions and       *)
(* contradictions of DeviceSystem, and context packs.  They share no       *)
(* variable: a behaviour is about one of them, and the others stay as they *)
(* started.                                                                *)
(***************************************************************************)
EXTENDS DeviceSystem, TLC

CONSTANTS a, b, k1, k2, i1, i2, i3

VARIABLES
    about,
    trace, packCall, insights, packCalls, told, overlapped        \* ContextPacks

Packs == INSTANCE ContextPacks WITH
    Items <- {i1, i2, i3}, Cost <- (i1 :> 1 @@ i2 :> 3 @@ i3 :> 6), Limits <- {8, 12}, Reserved <- 3,
    Clients <- {a, b}, MaxCalls <- 3, call <- packCall, calls <- packCalls

(* Two sources, each cut into spans twice; an entity of one of them and a  *)
(* report of both; a policy that excludes the second and one that admits   *)
(* only the first.                                                         *)
Plan(include, exclude, routes, explore) ==
    [include |-> include, exclude |-> exclude, routes |-> routes, explore |-> explore]

Ask(mode, key, foreign, given, scraped) ==
    [mode |-> mode, key |-> key, foreign |-> foreign, given |-> given, scraped |-> scraped]

PlanSourceOf == ("p1" :> "P" @@ "p2" :> "P" @@ "q1" :> "Q" @@ "q2" :> "Q")
PlanKind == ("e" :> "entity" @@ "rep" :> "report")
PlanCites == ("e" :> {"p1"} @@ "rep" :> {"p1", "q1"})
TwoPolicies == {Plan({}, {"Q"}, {"local", "global", "explore"}, TRUE), Plan({"P"}, {}, {"explore"}, FALSE)}
FourRequests == {Ask("auto", "", FALSE, FALSE, TRUE), Ask("auto", "", TRUE, FALSE, FALSE),
                 Ask("auto", "Q", FALSE, FALSE, TRUE), Ask("global", "", TRUE, TRUE, TRUE)}

TwoLinked == << <<"x", "y">>, <<"y", "z">> >>

packs == <<trace, packCall, insights, packCalls, told, overlapped>>
files == <<local, secret, lock, doing, requests, meant, saves, commits, named>>
sweep == <<there, root, database, journal, stamp, look, shown, phase, since, lost, other>>
search == <<records, docs, chunks, embedded, model, refresh, revised, refreshes, mixed>>
query == <<spans, graphed, indexed, sized, embedder, curate, happened, question>>
pairs == <<atoms, flagged, verified, store, proc, decided, raced, overtaken, runs, writings>>

Parts == {"packs", "chain", "files", "sweep", "search", "query", "pairs"}

-----------------------------------------------------------------------------
(* The other parts start in one of their initial states.                   *)
Rest ==
    /\ IF about = "chain" THEN TRUE ELSE up = {0, 1}
    /\ IF about = "query" THEN TRUE ELSE
          /\ spans = {"p1", "q1"} /\ sized = "none" /\ embedder = "none"
          /\ curate = Plan({"P"}, {}, {"explore"}, FALSE)

AllInit ==
    /\ about \in Parts /\ Rest
    /\ Init /\ Local!Init /\ Sweep!Init /\ Index!Init /\ Packs!Init /\ Question!Init /\ Pairs!Init
    /\ about = "sweep" \/ (root /\ database = 0)
    /\ about = "query" \/ question.asked.mode = "global"

(* Only the part that the behaviour is about may step.                     *)
Still(part) ==
    /\ about = part /\ UNCHANGED about
    /\ IF part = "packs" THEN TRUE ELSE UNCHANGED packs
    /\ IF part = "chain" THEN TRUE ELSE UNCHANGED vars
    /\ IF part = "files" THEN TRUE ELSE UNCHANGED files
    /\ IF part = "sweep" THEN TRUE ELSE UNCHANGED sweep
    /\ IF part = "search" THEN TRUE ELSE UNCHANGED search
    /\ IF part = "query" THEN TRUE ELSE UNCHANGED query
    /\ IF part = "pairs" THEN TRUE ELSE UNCHANGED pairs

AllNext ==
    \/ Still("packs") /\ Packs!Next
    \/ Still("chain") /\ Next
    \/ Still("files") /\ Local!Next
    \/ Still("sweep") /\ Sweep!Next
    \/ Still("search") /\ Index!Next
    \/ Still("query") /\ Question!Next
    \/ Still("pairs") /\ Pairs!Next

Services == AllInit /\ [][AllNext]_<<about, vars, files, sweep, search, packs, query, pairs>>

Symmetry == Permutations({a, b})

-----------------------------------------------------------------------------
(* The properties of the other parts, under their names.                   *)
PacksHold == Packs!PacksHold
NothingOutOfScope == Question!NothingOutOfScope
=============================================================================
