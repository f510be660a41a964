------------------------------ MODULE Provisioning -----------------------------
(***************************************************************************)
(* Setting up a vault (`wiki init`) and a workspace in it (`wiki workspace *)
(* init`, `wiki mcp connect`, and what the MCP server does when an agent   *)
(* opens a session): files that belong to the program beside files that    *)
(* the user, the agents and Obsidian write too.                            *)
(*                                                                         *)
(* A command writes one file after the other.  It may be killed between    *)
(* two of them, or in the middle of one: nearly all are rewritten in place.*)
(* Commands may overlap, and the user edits meanwhile, also while a model  *)
(* is asked.  Of a file is kept: whether it can be read, the latest text   *)
(* of the user in it, and what the program put there.  --force-curate,     *)
(* which overwrites on request, is left out.                               *)
(***************************************************************************)
EXTENDS Naturals, SequencesExt

CONSTANTS
    Actors,       \* shells and agents' sessions
    Ops,          \* the commands that are run
    MaxRuns,      \* bound: commands started
    MaxEdits      \* bound: edits of the user, of all files

VARIABLES
    vault,        \* the files of the vault: "absent", "made" or "edited"
    owned,        \* what there is under .agents/curator
    file,         \* the files shared with the user
    typed,        \* the latest text of the user in each of them
    lost,         \* the files that lost text of the user, and why
    run,          \* what each actor does
    runs, edits

vars == <<vault, owned, file, typed, lost, run, runs, edits>>

VaultFiles == <<"topology", "config", "db", "index", "overview", "ledger", "log">>
OwnedFiles == <<"shared", "runtime", "workflows">>
Shared == {"rule", "curate", "settings", "plugin"}

Missing == [st |-> "none", user |-> 0, parts |-> {}]
Torn == [st |-> "torn", user |-> 0, parts |-> {}]

(* A file with the text that is in it, and one more part of the program's.  *)
With(c, part) == [st |-> "ok", user |-> c.user, parts |-> c.parts \cup {part}]

Idle == [op |-> "none", at |-> "end", alone |-> TRUE, integrated |-> FALSE, copy |-> Missing]

Init ==
    /\ \E st \in {"absent", "made"} : vault = [f \in ToSet(VaultFiles) |-> st]
    /\ owned = {}
    /\ \E theirs \in {{"plugin"}, {"plugin", "rule", "settings"}} :
           file = [f \in Shared |-> IF f \in theirs THEN [Missing EXCEPT !.st = "ok"] ELSE Missing]
    /\ typed = [f \in Shared |-> 0]
    /\ lost = {}
    /\ run = [a \in Actors |-> Idle]
    /\ runs = 0 /\ edits = 0

-----------------------------------------------------------------------------
Disturbed == [a \in Actors |-> [run[a] EXCEPT !.alone = run[a].at = "end"]]

(* The user edits a file, or leaves it unreadable; Obsidian saves the       *)
(* settings it holds, without what was added to its file meanwhile.         *)
Edit ==
    /\ edits < MaxEdits /\ edits' = edits + 1
    /\ \E f \in Shared, st \in {"ok", "torn"} :
           /\ file[f].st # "none"
           /\ st = "torn" => f \in {"settings", "plugin"}
           /\ file' = [file EXCEPT ![f] = [st |-> st, user |-> edits', parts |-> IF f = "plugin" THEN {} ELSE @.parts]]
           /\ typed' = [typed EXCEPT ![f] = edits']
    /\ run' = Disturbed
    /\ UNCHANGED <<vault, owned, lost, runs>>

EditVault ==
    /\ edits < MaxEdits /\ edits' = edits + 1
    /\ \E f \in {"overview", "ledger"} : vault[f] = "made" /\ vault' = [vault EXCEPT ![f] = "edited"]
    /\ UNCHANGED <<owned, file, typed, lost, run, runs>>

(* The vault is moved: no path in the files is that of the vault any more.  *)
Move ==
    /\ edits < MaxEdits /\ edits' = edits + 1
    /\ \A a \in Actors : run[a].at = "end"
    /\ file' = [f \in Shared |-> [file[f] EXCEPT !.parts = @ \ {"here"}]]
    /\ UNCHANGED <<vault, owned, typed, lost, run, runs>>

-----------------------------------------------------------------------------
Goto(a, at) == run' = [run EXCEPT ![a].at = at]

(* A session first reads curate.yml: without one it interviews the user,    *)
(* and one that is not valid is reported.  The rules it finds are installed *)
(* again at every session: it looks in them for the path of the vault, for  *)
(* which the templates have a variable.                                     *)
Begin(a, op) ==
    /\ run[a].at = "end" /\ runs < MaxRuns /\ runs' = runs + 1
    /\ op \in {"workspace", "connect", "session"} => vault["config"] # "absent"
    /\ op = "session" => file["curate"].st = "ok"
    /\ op = "persona" => file["curate"].st # "none"
    /\ run' = [Disturbed EXCEPT ![a] =
                  [Idle EXCEPT !.op = op, !.alone = \A b \in Actors : run[b].at = "end",
                      !.at = CASE op = "vault" -> "topology" [] op = "workspace" -> "scenario"
                               [] op = "plugin" -> "plugin" [] op = "persona" -> "ask persona" [] OTHER -> "curate"]]
    /\ UNCHANGED <<vault, owned, file, typed, lost, edits>>

Killed(a) ==
    /\ run[a].at # "end"
    /\ run' = [run EXCEPT ![a] = Idle]
    /\ UNCHANGED <<vault, owned, file, typed, lost, runs, edits>>

-----------------------------------------------------------------------------
(* Mutant: the files are written whether or not they are there.             *)
MadeAnew(f) == [vault EXCEPT ![f] = "made"]

Made(f) == [vault EXCEPT ![f] = IF @ = "absent" \/ f = "config" THEN "made" ELSE @]

(* wiki init: the directories; then, only if there is no configuration yet, *)
(* the configuration and the files that are missing, one after the other.   *)
InitVault(a, k) ==
    /\ run[a].op = "vault" /\ run[a].at = VaultFiles[k]
    /\ vault' = Made(VaultFiles[k])
    /\ Goto(a, IF k = 1 /\ vault["config"] # "absent" THEN "end"
               ELSE IF k = Len(VaultFiles) THEN "sync" ELSE VaultFiles[k + 1])
    /\ UNCHANGED <<owned, file, typed, lost, runs, edits>>

(* A file is rewritten in place: the write may be cut short.                *)
Lose(f, why) == lost' = lost \cup {<<f, why>>}
Whole(a, f, new, at) ==
    /\ file' = [file EXCEPT ![f] = new]
    /\ IF new.user >= file[f].user THEN UNCHANGED lost
       ELSE Lose(f, CASE file[f].st = "torn" -> "unread" [] run[a].copy.st = "ok" -> "overtaken" [] OTHER -> "replaced")
    /\ Goto(a, at)
CutShort(a, f) ==
    /\ file' = [file EXCEPT ![f] = Torn]
    /\ Lose(f, "cut")
    /\ run' = [run EXCEPT ![a] = Idle]
Write(a, f, new, at) == (Whole(a, f, new, at) \/ CutShort(a, f)) /\ UNCHANGED <<vault, owned, typed, runs, edits>>
Skip(a, at) == Goto(a, at) /\ UNCHANGED <<vault, owned, file, typed, lost, runs, edits>>

(* _sync_mcp_configs skips a file it cannot read.                           *)
Sync(a) ==
    /\ run[a].at = "sync"
    /\ IF file["settings"].st = "torn" THEN Skip(a, "end")
       ELSE Write(a, "settings", With(file["settings"], "here"), "end")

-----------------------------------------------------------------------------
(* The agent's own rule file, where there is one and the workspace is not   *)
(* set up: a model rewrites the text that was read, unless it fails, adds   *)
(* nothing or the user refuses.                                             *)
Scenario(a) ==
    /\ run[a].at = "scenario"
    /\ IF file["rule"].st # "ok" \/ (file["curate"].st # "none" /\ "runtime" \in owned)
       THEN Skip(a, "curate")
       ELSE /\ run' = [run EXCEPT ![a] = [@ EXCEPT !.at = "integrate", !.copy = file["rule"]]]
            /\ UNCHANGED <<vault, owned, file, typed, lost, runs, edits>>

Integrate(a) ==
    /\ run[a].at = "integrate"
    /\ \/ /\ run' = [run EXCEPT ![a] = [@ EXCEPT !.at = "curate", !.copy = Missing]]
          /\ UNCHANGED <<vault, owned, file, typed, lost, runs, edits>>
       \/ Write(a, "rule", With(run[a].copy, "hooks"), "integrated")

Integrated(a) ==
    /\ run[a].at = "integrated"
    /\ run' = [run EXCEPT ![a] = [@ EXCEPT !.at = "curate", !.integrated = TRUE, !.copy = Missing]]
    /\ UNCHANGED <<vault, owned, file, typed, lost, runs, edits>>

(* Mutant: a stale path is healed by writing the template again.            *)
HealedByTemplate(c) == [st |-> "ok", user |-> 0, parts |-> {"line", "here"}]

(* Only the line of the path is replaced, if there is one.                  *)
Healed(c) == IF "line" \in c.parts THEN With(c, "here") ELSE c

EnsureCurateYml(a) ==
    /\ run[a].at = "curate"
    /\ LET c == file["curate"]
           new == IF c.st = "none" THEN [st |-> "ok", user |-> 0, parts |-> {"line", "here"}] ELSE Healed(c)
       IN  IF "here" \in c.parts \/ new = c THEN Skip(a, OwnedFiles[1]) ELSE Write(a, "curate", new, OwnedFiles[1])

(* Mutant: rules are not written once there are some.                       *)
NextOwnedAtOnce(k) == "block"

NextOwned(k) == IF k = Len(OwnedFiles) THEN "block" ELSE OwnedFiles[k + 1]

(* The program's own rules are rewritten each time.                         *)
InstallRules(a, k) ==
    /\ run[a].at = OwnedFiles[k]
    /\ owned' = owned \cup {OwnedFiles[k]}
    /\ Goto(a, NextOwned(k))
    /\ UNCHANGED <<vault, file, typed, lost, runs, edits>>

AfterBlock(a) == IF run[a].op = "workspace" THEN "persona" ELSE "end"

(* The block is replaced, or put before the text that is there.             *)
UpsertManagedBlock(a) ==
    /\ run[a].at = "block"
    /\ IF run[a].integrated THEN Skip(a, AfterBlock(a))
       ELSE Write(a, "rule", With(file["rule"], "block"), AfterBlock(a))

(* What the interview found is added, if curate.yml can be read.            *)
SavePersona(a) ==
    /\ run[a].at = "persona"
    /\ \/ Skip(a, "settings")
       \/ file["curate"].st = "ok" /\ Write(a, "curate", With(file["curate"], "persona"), "settings")

(* merge_mcp_settings takes a file it cannot read for an empty one.         *)
MergeSettings(a) ==
    /\ run[a].at = "settings"
    /\ Write(a, "settings", With(IF file["settings"].st = "torn" THEN Missing ELSE file["settings"], "here"), "end")

-----------------------------------------------------------------------------
(* curator_update_artist_persona: the file as it was before the model was   *)
(* asked is written back.                                                   *)
AskPersona(a) ==
    /\ run[a].at = "ask persona"
    /\ IF file["curate"].st = "torn" THEN Skip(a, "end")
       ELSE /\ run' = [run EXCEPT ![a] = [@ EXCEPT !.at = "write persona", !.copy = file["curate"]]]
            /\ UNCHANGED <<vault, owned, file, typed, lost, runs, edits>>

WritePersona(a) ==
    /\ run[a].at = "write persona"
    /\ Write(a, "curate", With(run[a].copy, "persona"), "end")

(* Mutant: settings that cannot be parsed are taken for none.               *)
ReadableAlways(f) == TRUE

Readable(f) == f.st # "torn"

(* install_obsidian_mcp_server refuses what it cannot parse, and replaces   *)
(* the file at once.                                                        *)
InstallPlugin(a) ==
    /\ run[a].at = "plugin"
    /\ IF ~Readable(file["plugin"]) THEN Skip(a, "end")
       ELSE /\ file' = [file EXCEPT !["plugin"] = [st |-> "ok", user |-> IF @.st = "torn" THEN 0 ELSE @.user, parts |-> {"here"}]]
            /\ Goto(a, "end")
            /\ UNCHANGED <<vault, owned, typed, lost, runs, edits>>

Step(a) ==
    \/ \E op \in Ops : Begin(a, op)
    \/ Killed(a)
    \/ \E k \in DOMAIN VaultFiles : InitVault(a, k)
    \/ Sync(a)
    \/ Scenario(a) \/ Integrate(a) \/ Integrated(a)
    \/ EnsureCurateYml(a)
    \/ \E k \in DOMAIN OwnedFiles : InstallRules(a, k)
    \/ UpsertManagedBlock(a) \/ SavePersona(a) \/ MergeSettings(a)
    \/ AskPersona(a) \/ WritePersona(a)
    \/ InstallPlugin(a)

Next == (\E a \in Actors : Step(a)) \/ Edit \/ EditVault \/ Move

Spec == Init /\ [][Next]_vars

-----------------------------------------------------------------------------
(* Whatever the commands, the kills and the edits: the user's latest text   *)
(* is in each file, unless a write was cut short, a model's answer or a     *)
(* persona was written over a later edit, or settings could not be parsed   *)
(* when a workspace was set up.  Obsidian's file loses none of it.          *)
TextKept ==
    /\ \A f \in Shared : file[f].user = typed[f] \/ \E why \in {"cut", "overtaken", "unread"} : <<f, why>> \in lost
    /\ \A l \in lost : l[1] # "plugin" /\ (l[2] = "unread" => l[1] = "settings")

(* A setup that is run again after it was killed anywhere, or after the     *)
(* vault was moved, and is left alone until it ends, leaves the workspace   *)
(* complete: rules, hooks or the managed block, the path of this vault.     *)
RerunCompletes ==
    \A a \in Actors :
           run[a].op = "workspace" /\ run[a].alone /\ run[a].at = "settings" /\ run'[a].at = "end" /\ run'[a].op = "workspace" =>
               /\ ToSet(OwnedFiles) \subseteq owned'
               /\ {"block", "hooks"} \cap file'["rule"].parts # {}
               /\ "line" \in file'["curate"].parts => "here" \in file'["curate"].parts
               /\ "here" \in file'["settings"].parts

(* Setting up the vault overwrites nothing the user wrote, also when two    *)
(* run at once.                                                             *)
NothingOverwritten == \A f \in ToSet(VaultFiles) : vault[f] = "edited" => vault'[f] = "edited"

(* A setup completes what is missing and takes nothing from the user.       *)
SettingUp == TextKept' /\ RerunCompletes /\ NothingOverwritten
SetupKeeps == [][SettingUp]_vars

(* Not checked, and false: `wiki init` on what is there creates the missing *)
(* files of .curator (its docstring).  After a kill, or a deletion, a later *)
(* one finds the configuration and stops.                                   *)
InitCompletes ==
    [][\A a \in Actors : run[a].op = "vault" /\ run[a].at \in {"topology", "sync"} /\ run'[a].at = "end" /\ run'[a].op = "vault" =>
           \A f \in ToSet(VaultFiles) : vault'[f] # "absent"]_vars

(* Not checked, and false: "existing unrelated fields are preserved"        *)
(* (merge_mcp_settings).                                                    *)
UnrelatedFieldsKept == \A l \in lost : l[2] # "unread"

(* Not checked, and false: the managed block is for rules that no model     *)
(* integrated.  The next session adds it to those, too.                     *)
OneIntegration == ~({"block", "hooks"} \subseteq file["rule"].parts)
=============================================================================
