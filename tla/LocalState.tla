------------------------------ MODULE LocalState ------------------------------
(***************************************************************************)
(* The durable local files of a device and their discipline                *)
(* (durable_io.py): settings (config.py, migrate.py), the sync state with  *)
(* the device's identity (db_sync.py), secrets and their key               *)
(* (secret_store.py).  Threads of several processes update them.           *)
(*                                                                         *)
(* A value is the number of the request that wrote it, 0 if the key is     *)
(* absent.  A thread holds at most one file; the thread lock of a process  *)
(* and the file lock of the machine are one lock here, which the same      *)
(* thread may take again.  A write replaces the file as a whole.           *)
(***************************************************************************)
EXTENDS Naturals, FiniteSets

CONSTANTS
    Threads,
    Keys,         \* of every file; the state also has "device_id"
    MaxRequests   \* bound

Files == {"settings", "state", "secrets"}
AllKeys == Keys \cup {"device_id"}

VARIABLES
    file,         \* content of each file
    key,          \* secret.key: 0 is missing
    lock,         \* per file: the threads that hold it, the outermost first
    op,           \* what a thread is doing
    requests,
    meant,        \* the last committed request that meant a key of the settings
    saves,        \* committed saves: the commits when it loaded and when it wrote
    commits,
    told          \* identities handed out

vars == <<file, key, lock, op, requests, meant, saves, commits, told>>

Idle == [kind |-> "none"]
Unread == [k \in AllKeys |-> 0]

FileOf(kind) ==
    IF kind \in {"set", "save"} THEN "settings" ELSE IF kind = "secret" THEN "secrets" ELSE "state"

Init ==
    /\ file = [f \in Files |-> Unread]
    /\ key = 0
    /\ lock = [f \in Files |-> {}]
    /\ op = [t \in Threads |-> Idle]
    /\ requests = 0
    /\ meant = [k \in Keys |-> [value |-> 0, at |-> 0]]
    /\ saves = {}
    /\ commits = 0
    /\ told = {}

(* "set" changes one key; "save" writes a configuration that was loaded     *)
(* before, without the lock; "export" records a checkpoint and asks for the *)
(* identity inside its transaction; "mint" only asks; "secret" stores one.  *)
Begin(t, kind, k) ==
    /\ op[t] = Idle /\ requests < MaxRequests
    /\ requests' = requests + 1
    /\ op' = [op EXCEPT ![t] = [kind |-> kind, k |-> k, at |-> "wait", stamp |-> requests + 1, read |-> Unread,
                                loaded |-> IF kind = "save" THEN file["settings"] ELSE Unread,
                                since |-> IF kind = "save" THEN commits ELSE 0]]
    /\ UNCHANGED <<file, key, lock, meant, saves, commits, told>>

(* Mutant: updates do not wait for each other.                              *)
FreeAlways(f) == TRUE

Free(f) == lock[f] = {}

At(t, at) == op[t].kind # "none" /\ op[t].at = at
Mine(t) == FileOf(op[t].kind)

(* The lock, and the file is read under it; a transaction of the state asks *)
(* for the identity again inside: it shares the outer one's dictionary.     *)
Enter(t) ==
    /\ At(t, "wait") /\ Free(Mine(t))
    /\ lock' = [lock EXCEPT ![Mine(t)] = @ \cup {t}]
    /\ op' = [op EXCEPT ![t].at = IF op[t].kind = "secret" THEN "key" ELSE "write", ![t].read = file[Mine(t)]]
    /\ UNCHANGED <<file, key, requests, meant, saves, commits, told>>

(* Mutant: a key is generated whenever a secret is stored.                  *)
KeyFresh(t) == op[t].stamp

KeyFor(t) == IF key = 0 THEN op[t].stamp ELSE key

(* _load_fernet writes the key before the store is read. *)
LoadKey(t) ==
    /\ At(t, "key")
    /\ key' = KeyFor(t)
    /\ op' = [op EXCEPT ![t].at = "write", ![t].read = file["secrets"]]
    /\ UNCHANGED <<file, lock, requests, meant, saves, commits, told>>

(* The mapping that is written: the one read, with the change; a save lays  *)
(* all keys of its configuration over it.                                   *)
Overlaid(o) == [k \in AllKeys |-> IF k = o.k THEN o.stamp ELSE IF o.loaded[k] # 0 THEN o.loaded[k] ELSE o.read[k]]

(* Mutant: the identity is made whether there is one or not.                *)
NamedAnew(o) == [o.read EXCEPT !["device_id"] = o.stamp]

Named(o) == [o.read EXCEPT !["device_id"] = IF @ = 0 THEN o.stamp ELSE @]

Updated(t) ==
    LET o == op[t] IN
    CASE o.kind = "set" -> [o.read EXCEPT ![o.k] = o.stamp]
      [] o.kind = "save" -> Overlaid(o)
      [] o.kind = "mint" -> Named(o)
      [] o.kind = "export" -> [Named(o) EXCEPT ![o.k] = o.stamp]
      [] o.kind = "secret" -> [o.read EXCEPT ![o.k] = key]

(* Replaced as a whole, the lock given back; who asked gets the identity.   *)
Commit(t) ==
    LET o == op[t]  new == Updated(t) IN
    /\ At(t, "write")
    /\ file' = [file EXCEPT ![Mine(t)] = new]
    /\ lock' = [lock EXCEPT ![Mine(t)] = @ \ {t}]
    /\ op' = [op EXCEPT ![t] = Idle]
    /\ commits' = commits + 1
    /\ meant' = IF Mine(t) = "settings" THEN [meant EXCEPT ![o.k] = [value |-> o.stamp, at |-> commits + 1]] ELSE meant
    /\ saves' = IF o.kind = "save" THEN saves \cup {[loaded |-> o.since, at |-> commits + 1]} ELSE saves
    /\ told' = IF Mine(t) = "state" THEN told \cup {new["device_id"]} ELSE told
    /\ UNCHANGED <<key, requests>>

(* The write fails, the file is corrupt, or the process ends: the old bytes *)
(* stay and the system gives the lock back.                                 *)
Fail(t) ==
    /\ op[t] # Idle
    /\ lock' = [lock EXCEPT ![Mine(t)] = @ \ {t}]
    /\ op' = [op EXCEPT ![t] = Idle]
    /\ UNCHANGED <<file, key, requests, meant, saves, commits, told>>

Next ==
    \/ \E t \in Threads, kind \in {"set", "save", "export", "mint", "secret"}, k \in Keys : Begin(t, kind, k)
    \/ \E t \in Threads : Enter(t)
    \/ \E t \in Threads : LoadKey(t)
    \/ \E t \in Threads : Commit(t)
    \/ \E t \in Threads : Fail(t)

Spec == Init /\ [][Next]_vars

-----------------------------------------------------------------------------
(* Properties *)

(* A setting has the value of the last request that meant it, unless a save *)
(* was loaded before that request and written after it.                     *)
ChangesMeet ==
    \A k \in Keys : file["settings"][k] # meant[k].value =>
        \E s \in saves : s.loaded < meant[k].at /\ meant[k].at < s.at

(* Two callers that find no identity do not each make one.                  *)
OneIdentity == \A id \in told : file["state"]["device_id"] = id

(* What is stored can be opened with the key that is there, whoever made    *)
(* the key and wherever a process ended.                                    *)
SecretsOpen == \A k \in Keys : file["secrets"][k] \in {0, key}

(* Threads and processes that share the local files see each other's writes. *)
FilesMeet == ChangesMeet /\ OneIdentity /\ SecretsOpen

(* Concurrent changes must preserve unrelated keys: each setting has the    *)
(* value of the last request that meant it.  It fails: a command that       *)
(* changes one key saves the configuration it loaded when it began.         *)
UnrelatedKeysSurvive == \A k \in Keys : file["settings"][k] = meant[k].value
=============================================================================
