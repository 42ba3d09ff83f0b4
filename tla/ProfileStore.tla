------------------------------ MODULE ProfileStore ------------------------------
(***************************************************************************)
(* The dashboard's writing requests on the files of a profile: toggling a  *)
(* server (setServerEnabled, src/src/dashboard.ts) and writing the         *)
(* generated configuration (prepareProfileSwitch, src/src/profiles.ts).    *)
(* Both read the profile, back up the file they are about to replace and   *)
(* write it with fs.writeFile, which first truncates it; every step is an  *)
(* await, any file operation may fail, and the process may be killed.      *)
(*                                                                         *)
(* Of a profile the model keeps the set of its servers; inheritance is     *)
(* left to the resolution of profiles.                                     *)
(***************************************************************************)
EXTENDS Integers, FiniteSets

CONSTANTS
    Requests,  \* the HTTP requests
    Servers,   \* package names of servers, the keys of a profile
    Found,     \* the local server scanLocalServers finds under a name (its
               \* package name or that of its directory)
    Moments    \* milliseconds the computer's clock may show, in any order

ASSUME StoreAssumption == Found \in [DOMAIN Found -> Servers]

VARIABLES
    disk,     \* per file what it holds
    backups,  \* [file, ms, content]: the files in _backups, named by millisecond
    body,     \* per request what it asks for
    pc,       \* where it is
    profile,  \* the servers to write
    overlap,  \* some request has begun before another one had ended
    answer,   \* "none", "ok", "failed" or "lost" (with the process)
    (* What the properties speak of and no step depends on:                *)
    held,     \* per file the sound contents it has ever held
    replaced, \* the backups another one of the same name has replaced
    missed,   \* per request what its file held without its copying it:
              \* when its look was refused, or written after its copy
    latest,   \* the last sound content of the profile
    started   \* per request what that was when it read the profile

files == <<disk, backups, held, replaced, missed, latest>>
requests == <<body, profile, overlap, started>>
vars == <<files, requests, pc, answer>>

Files == {"profile", "output"}
Whole(S) == [state |-> "whole", servers |-> S]
Absent == [state |-> "absent", servers |-> {}]
Empty == [state |-> "empty", servers |-> {}]
Torn == [state |-> "torn", servers |-> {}]
Contents == {Absent, Empty, Torn} \union {Whole(S) : S \in SUBSET Servers}

(* "plan" and "write" are the generated configuration without and with     *)
(* write: true; they name no server.                                       *)
Names == Servers \union DOMAIN Found
Bodies == [op : {"enable", "disable", "plan", "write"}, server : Names, confirm : BOOLEAN]
Toggles == {"enable", "disable"}

File(r) == IF body[r].op \in Toggles THEN "profile" ELSE "output"

TypeOK ==
    /\ disk \in [Files -> Contents]
    /\ backups \subseteq [file : Files, ms : Moments, content : Contents]
    /\ \A a, b \in backups : a.file = b.file /\ a.ms = b.ms => a = b
    /\ replaced \subseteq [file : Files, ms : Moments, content : Contents]
    /\ missed \in [Requests -> SUBSET Contents]
    /\ latest \in SUBSET Servers
    /\ started \in [Requests -> SUBSET Servers]
    /\ held \in [Files -> SUBSET SUBSET Servers]
    /\ body \in [Requests -> Bodies]
    /\ pc \in [Requests -> {"idle", "read", "backup", "copy", "open", "write", "resolve", "done"}]
    /\ profile \in [Requests -> SUBSET Servers]
    /\ overlap \in BOOLEAN
    /\ answer \in [Requests -> {"none", "ok", "failed", "lost"}]

Init ==
    /\ \E S \in SUBSET Servers, f \in [Files -> BOOLEAN] :
         /\ f["profile"]
         /\ disk = [x \in Files |-> IF f[x] THEN Whole(S) ELSE Absent]
         /\ held = [x \in Files |-> IF f[x] THEN {S} ELSE {}]
         /\ latest = S
    /\ backups = {} /\ replaced = {}
    /\ missed = [r \in Requests |-> {}]
    /\ started = [r \in Requests |-> {}]
    /\ \E b \in Bodies : body = [r \in Requests |-> b]
    /\ pc = [r \in Requests |-> "idle"]
    /\ profile = [r \in Requests |-> {}]
    /\ overlap = FALSE
    /\ answer = [r \in Requests |-> "none"]

Active == {r \in Requests : pc[r] \notin {"idle", "done"}}

Goto(r, stage) == pc' = [pc EXCEPT ![r] = stage]
End(r, result) ==
    /\ Goto(r, "done")
    /\ answer' = [answer EXCEPT ![r] = result]
GoOn(r, stage) == Goto(r, stage) /\ UNCHANGED answer

-----------------------------------------------------------------------------
(* Operators named Broken... are plausible mistakes in the definition that *)
(* follows them; no specification uses them.                               *)

(* handleApi: a request that changes something must be confirmed.          *)
Receive(r) ==
    /\ pc[r] = "idle"
    /\ overlap' = (overlap \/ Active # {})
    /\ \E b \in Bodies :
        /\ body' = [body EXCEPT ![r] = b]
        /\ \/ b.op # "plan" /\ ~b.confirm /\ End(r, "failed")
           \/ (b.op # "plan" => b.confirm) /\ GoOn(r, "read")
    /\ UNCHANGED <<files, profile, started>>

BrokenEdited(r, S) ==
    CASE body[r].op = "enable" -> S \union {body[r].server}
      [] body[r].op = "disable" -> S \ {body[r].server}
      [] OTHER -> S

(* The profile as read, changed as asked for: enabling goes by either name *)
(* of a local server, disabling by the key in the profile.                 *)
Edited(r, S) ==
    CASE body[r].op = "enable" -> S \union {Found[body[r].server]}
      [] body[r].op = "disable" -> S \ {body[r].server}
      [] OTHER -> S

BrokenRead(r) ==
    /\ pc[r] = "read"
    /\ LET S == disk["profile"].servers
           unknown == body[r].op = "enable" /\ body[r].server \notin DOMAIN Found
           plan == body[r].op = "plan"
       IN  \/ unknown /\ End(r, "failed") /\ UNCHANGED profile
           \/ plan /\ End(r, "ok") /\ UNCHANGED profile
           \/ /\ ~unknown /\ ~plan
              /\ profile' = [profile EXCEPT ![r] = Edited(r, S)]
              /\ GoOn(r, "backup")
    /\ started' = [started EXCEPT ![r] = latest]
    /\ UNCHANGED <<files, body, overlap>>

(* readProfileJson throws unless the file holds one whole object.  A plan  *)
(* that is not to be written ends here; so does enabling a server that is  *)
(* not local.                                                              *)
Read(r) ==
    /\ pc[r] = "read"
    /\ LET S == disk["profile"].servers
           readable == disk["profile"].state = "whole"
           unknown == body[r].op = "enable" /\ body[r].server \notin DOMAIN Found
           plan == body[r].op = "plan"
       IN  \/ ~readable /\ End(r, "failed") /\ UNCHANGED profile
           \/ readable /\ unknown /\ End(r, "failed") /\ UNCHANGED profile
           \/ readable /\ plan /\ End(r, "ok") /\ UNCHANGED profile
           \/ /\ readable /\ ~unknown /\ ~plan
              /\ profile' = [profile EXCEPT ![r] = Edited(r, S)]
              /\ GoOn(r, "backup")
    /\ started' = [started EXCEPT ![r] = latest]
    /\ UNCHANGED <<files, body, overlap>>

BrokenBackup(r) ==
    /\ pc[r] = "backup"
    /\ GoOn(r, "open")
    /\ UNCHANGED <<files, requests>>

(* backupFileIfExists: a copy is due if there is a file.  pathExists takes *)
(* every error of its look for "there is none".                            *)
Backup(r) ==
    /\ pc[r] = "backup"
    /\ \/ disk[File(r)] = Absent /\ GoOn(r, "open") /\ UNCHANGED missed
       \/ disk[File(r)] # Absent /\ GoOn(r, "copy") /\ UNCHANGED missed
       \/ /\ disk[File(r)] # Absent /\ GoOn(r, "open")
          /\ missed' = [missed EXCEPT ![r] = @ \union {disk[File(r)]}]
    /\ UNCHANGED <<disk, backups, held, replaced, latest, requests>>

(* copyFile replaces a backup of the same millisecond.  It may break off   *)
(* after it has begun.                                                     *)
Copy(r) ==
    /\ pc[r] = "copy"
    /\ \E ms \in Moments, content \in {disk[File(r)], Torn} :
         LET same == {b \in backups : b.file = File(r) /\ b.ms = ms}
         IN  /\ backups' = (backups \ same)
                             \union {[file |-> File(r), ms |-> ms, content |-> content]}
             /\ replaced' = replaced \union same
             /\ \/ content = disk[File(r)] /\ GoOn(r, "open")
                \/ content = Torn /\ End(r, "failed")
    /\ UNCHANGED <<disk, held, missed, latest, requests>>

(* fs.writeFile, first half: open with truncation.                         *)
Open(r) ==
    /\ pc[r] = "open"
    /\ disk' = [disk EXCEPT ![File(r)] = Empty]
    /\ GoOn(r, "write")
    /\ UNCHANGED <<backups, held, replaced, missed, latest, requests>>

(* Second half.  If another request has written since, its bytes may reach *)
(* beyond the end of ours.                                                 *)
Write(r) ==
    /\ pc[r] = "write"
    /\ \/ /\ disk' = [disk EXCEPT ![File(r)] = Whole(profile[r])]
          /\ held' = [held EXCEPT ![File(r)] = @ \union {profile[r]}]
          /\ latest' = IF File(r) = "profile" THEN profile[r] ELSE latest
          /\ missed' = [q \in Requests |->
               IF q # r /\ File(q) = File(r) /\ pc[q] \in {"open", "write"}
               THEN missed[q] \union {Whole(profile[r])} ELSE missed[q]]
       \/ /\ disk[File(r)] \notin {Empty, Whole(profile[r])}
          /\ disk' = [disk EXCEPT ![File(r)] = Torn]
          /\ UNCHANGED <<held, latest, missed>>
    /\ \/ body[r].op = "write" /\ End(r, "ok")
       \/ body[r].op \in Toggles /\ GoOn(r, "resolve")
    /\ UNCHANGED <<backups, replaced, requests>>

(* setServerEnabled resolves the profile once more for its answer.         *)
Resolve(r) ==
    /\ pc[r] = "resolve"
    /\ \/ disk["profile"].state = "whole" /\ End(r, "ok")
       \/ disk["profile"].state # "whole" /\ End(r, "failed")
    /\ UNCHANGED <<files, requests>>

(* A file operation is refused (rights, space): the request fails.         *)
Fails(r) ==
    /\ r \in Active
    /\ End(r, "failed")
    /\ UNCHANGED <<files, requests>>

(* The process is killed; what was under way stays as it is on disk.       *)
Crash ==
    /\ Active # {}
    /\ pc' = [r \in Requests |-> IF r \in Active THEN "done" ELSE pc[r]]
    /\ answer' = [r \in Requests |-> IF r \in Active THEN "lost" ELSE answer[r]]
    /\ UNCHANGED <<files, requests>>

Step(r) ==
    \/ Receive(r) \/ Read(r) \/ Backup(r) \/ Copy(r)
    \/ Open(r) \/ Write(r) \/ Resolve(r) \/ Fails(r)
Next == Crash \/ \E r \in Requests : Step(r)

Spec == Init /\ [][Next]_vars

-----------------------------------------------------------------------------
Begun == {r \in Requests : pc[r] # "idle"}

(* "Write actions ... create a backup before overwriting an existing file" *)
(* (README.md:557): whatever a file has soundly held is still in it or in  *)
(* a backup, through failing operations, overlapping requests and a kill   *)
(* at any moment.  The code loses it in three cases only: a later copy of  *)
(* the same millisecond takes its backup's name, the look for the file was *)
(* refused, or another request wrote it after the copy was taken.          *)
NothingLost ==
    \A f \in Files : \A S \in held[f] :
        \/ disk[f] = Whole(S)
        \/ \E b \in backups \union replaced : b.file = f /\ b.content = Whole(S)
        \/ \E r \in Requests : File(r) = f /\ Whole(S) \in missed[r]

(* A request that reports success has done what it says, and the file is   *)
(* sound.  (For requests one at a time.)                                   *)
SuccessMeansDone ==
    [][\A r \in Requests : answer[r] = "none" /\ answer'[r] = "ok" /\ ~overlap =>
         /\ body[r].op = "write" =>
              disk'["output"].state = "whole" /\ disk'["output"].servers = disk'["profile"].servers
         /\ body[r].op \in Toggles =>
              /\ disk'["profile"].state = "whole"
              /\ body[r].op = "enable" => Found[body[r].server] \in disk'["profile"].servers
              /\ body[r].op = "disable" => body[r].server \notin disk'["profile"].servers]_vars

(* However requests overlap, the profile changes by writes of confirmed    *)
(* toggles only, and each of them changes what it names and nothing else   *)
(* of the profile it began from; in particular a file caught in the middle *)
(* of a write is not taken for an empty profile.  What others changed      *)
(* since it read may be undone (the lost update of overlapping toggles):   *)
(* a server it had not seen goes, or one it had seen comes back.           *)
OnlyRequestedChanges ==
    [][latest' # latest =>
         \E r \in Requests :
            /\ pc[r] = "write" /\ pc'[r] # "write"
            /\ body[r].op \in Toggles /\ body[r].confirm
            /\ \A s \in latest \ latest' :
                 s \in started[r] => body[r].op = "disable" /\ body[r].server = s
            /\ \A s \in latest' \ latest :
                 s \notin started[r] => body[r].op = "enable" /\ Found[body[r].server] = s]_vars

(* A generated configuration is one the profile has held, and more than    *)
(* the first only if writing it was confirmed.                             *)
OutputWasProfile ==
    /\ held["output"] \subseteq held["profile"]
    /\ Cardinality(held["output"]) > 1 =>
         \E r \in Begun : body[r].op = "write" /\ body[r].confirm
=============================================================================
