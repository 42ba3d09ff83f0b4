--------------------------- MODULE ProfileStore_proofs ---------------------------
(***************************************************************************)
(* Proofs about ProfileStore for every set of requests and servers: first  *)
(* what holds however requests overlap, then what holds of requests one at *)
(* a time.                                                                 *)
(***************************************************************************)
EXTENDS ProfileStore, FiniteSetTheorems, TLAPS

Writing == {"backup", "copy", "open", "write"}

(* What is about to be written is a profile that has been held, edited as  *)
(* a confirmed request asked for.                                          *)
EditsHeld ==
    \A r \in Requests :
        /\ pc[r] = "read" /\ body[r].op # "plan" => body[r].confirm
        /\ pc[r] \in Writing =>
             /\ body[r].op # "plan" /\ body[r].confirm
             /\ body[r].op = "enable" => body[r].server \in DOMAIN Found
             /\ started[r] \in held["profile"] /\ profile[r] = Edited(r, started[r])

DiskHeld == \A f \in Files : disk[f].state = "whole" => disk[f].servers \in held[f]

LatestOnDisk == disk["profile"].state = "whole" => disk["profile"].servers = latest

WriteWasConfirmed ==
    \/ \E S : held["output"] \subseteq {S}
    \/ \E r \in Begun : body[r].op = "write" /\ body[r].confirm

OutputHeld == held["output"] \subseteq held["profile"]

Inv == TypeOK /\ EditsHeld /\ DiskHeld /\ LatestOnDisk /\ OutputHeld /\ WriteWasConfirmed

-----------------------------------------------------------------------------
LEMMA SoundContents == \A S \in SUBSET Servers : Whole(S) \in Contents /\ Whole(S).servers = S
                      /\ Whole(S).state = "whole" /\ Whole(S) \notin {Absent, Empty, Torn}
  BY DEF Contents, Whole, Absent, Empty, Torn

LEMMA DiskShape ==
  ASSUME TypeOK, NEW f \in Files
  PROVE  /\ disk[f].servers \in SUBSET Servers
         /\ disk[f].state = "whole" => disk[f] = Whole(disk[f].servers)
         /\ disk[f].state = "absent" <=> disk[f] = Absent
  BY DEF TypeOK, Contents, Whole, Absent, Empty, Torn

LEMMA FileIsFile == \A r \in Requests : File(r) \in Files
  BY DEF File, Files

LEMMA EditedServers ==
  ASSUME TypeOK, NEW r \in Requests, NEW S \in SUBSET Servers,
         body[r].op = "enable" => body[r].server \in DOMAIN Found
  PROVE  Edited(r, S) \in SUBSET Servers
  BY StoreAssumption DEF Edited

LEMMA InitTypeOK == Init => TypeOK
<1> SUFFICES ASSUME Init PROVE TypeOK OBVIOUS
<1>1. \A S \in SUBSET Servers : Whole(S) \in Contents BY SoundContents
<1>2. Absent \in Contents BY DEF Contents
<1>3. PICK S \in SUBSET Servers, f \in [Files -> BOOLEAN] :
         /\ disk = [x \in Files |-> IF f[x] THEN Whole(S) ELSE Absent]
         /\ held = [x \in Files |-> IF f[x] THEN {S} ELSE {}]
         /\ latest = S
  BY DEF Init
<1>4. disk \in [Files -> Contents] BY <1>1, <1>2, <1>3
<1>5. held \in [Files -> SUBSET SUBSET Servers] BY <1>3
<1>6. body \in [Requests -> Bodies] BY DEF Init
<1> QED BY <1>3, <1>4, <1>5, <1>6 DEF Init, TypeOK

(* A step changes little; what an action leaves alone, by action.          *)
LEMMA TypeStep ==
  ASSUME TypeOK, EditsHeld, [Next]_vars
  PROVE  TypeOK'
<1> USE DEF TypeOK
<1>1. ASSUME NEW r \in Requests, Receive(r) PROVE TypeOK'
  BY <1>1 DEF Receive, End, GoOn, Goto, files
<1>2. ASSUME NEW r \in Requests, Read(r) PROVE TypeOK'
  <2>1. disk["profile"].servers \in SUBSET Servers BY DiskShape DEF Files
  <2>2. CASE UNCHANGED profile
    BY <1>2, <2>2 DEF Read, End, GoOn, Goto, files
  <2>3. CASE /\ profile' = [profile EXCEPT ![r] = Edited(r, disk["profile"].servers)]
             /\ body[r].op = "enable" => body[r].server \in DOMAIN Found
             /\ GoOn(r, "backup")
    <3>1. Edited(r, disk["profile"].servers) \in SUBSET Servers BY <2>1, <2>3, EditedServers
    <3> QED BY <1>2, <2>3, <3>1 DEF Read, GoOn, Goto, files
  <2> QED BY <1>2, <2>2, <2>3 DEF Read
<1>3. ASSUME NEW r \in Requests, Backup(r) PROVE TypeOK'
  <2>1. disk[File(r)] \in Contents BY FileIsFile
  <2>2. missed' \in [Requests -> SUBSET Contents] BY <1>3, <2>1 DEF Backup
  <2> QED BY <1>3, <2>2 DEF Backup, GoOn, Goto, requests
<1>4. ASSUME NEW r \in Requests, Copy(r) PROVE TypeOK'
  <2>1. disk[File(r)] \in Contents /\ Torn \in Contents /\ File(r) \in Files
    BY FileIsFile DEF Contents
  <2>2. PICK ms \in Moments, content \in {disk[File(r)], Torn} :
          /\ backups' = (backups \ {b \in backups : b.file = File(r) /\ b.ms = ms})
                          \union {[file |-> File(r), ms |-> ms, content |-> content]}
          /\ replaced' = replaced \union {b \in backups : b.file = File(r) /\ b.ms = ms}
    BY <1>4 DEF Copy
  <2>3. backups' \subseteq [file : Files, ms : Moments, content : Contents]
    BY <2>1, <2>2
  <2>4. replaced' \subseteq [file : Files, ms : Moments, content : Contents] BY <2>2
  <2>5. ASSUME NEW b \in backups', NEW c \in backups', b.file = c.file, b.ms = c.ms
        PROVE  b = c
    BY <2>2, <2>5
  <2>6. pc' \in [Requests -> {"idle", "read", "backup", "copy", "open", "write", "resolve", "done"}]
        /\ answer' \in [Requests -> {"none", "ok", "failed", "lost"}]
    BY <1>4 DEF Copy, End, GoOn, Goto
  <2> QED BY <1>4, <2>3, <2>4, <2>5, <2>6 DEF Copy, requests
<1>5. ASSUME NEW r \in Requests, Open(r) PROVE TypeOK'
  <2>1. Empty \in Contents BY DEF Contents
  <2> QED BY <1>5, <2>1 DEF Open, GoOn, Goto, requests
<1>6. ASSUME NEW r \in Requests, Write(r) PROVE TypeOK'
  <2>1. Torn \in Contents /\ Whole(profile[r]) \in Contents BY SoundContents DEF Contents
  <2>2. disk' \in [Files -> Contents] BY <1>6, <2>1 DEF Write
  <2>3. held' \in [Files -> SUBSET SUBSET Servers] BY <1>6 DEF Write
  <2>4. missed' \in [Requests -> SUBSET Contents] BY <1>6, <2>1 DEF Write
  <2>5. latest' \in SUBSET Servers BY <1>6 DEF Write
  <2>6. pc' \in [Requests -> {"idle", "read", "backup", "copy", "open", "write", "resolve", "done"}]
        /\ answer' \in [Requests -> {"none", "ok", "failed", "lost"}]
    BY <1>6 DEF Write, End, GoOn, Goto
  <2> QED BY <1>6, <2>2, <2>3, <2>4, <2>5, <2>6 DEF Write, requests
<1>7. ASSUME NEW r \in Requests, Resolve(r) PROVE TypeOK'
  BY <1>7 DEF Resolve, End, Goto, requests, files
<1>8. ASSUME NEW r \in Requests, Fails(r) PROVE TypeOK'
  BY <1>8 DEF Fails, End, Goto, requests, files
<1>9. CASE Crash BY <1>9 DEF Crash, requests, files
<1>10. CASE UNCHANGED vars BY <1>10 DEF vars, files, requests
<1> QED
  BY <1>1, <1>2, <1>3, <1>4, <1>5, <1>6, <1>7, <1>8, <1>9, <1>10 DEF Next, Step

LEMMA InitInv == Init => Inv
<1> SUFFICES ASSUME Init PROVE Inv OBVIOUS
<1>1. TypeOK BY InitTypeOK
<1>2. PICK S \in SUBSET Servers, f \in [Files -> BOOLEAN] :
         /\ f["profile"]
         /\ disk = [x \in Files |-> IF f[x] THEN Whole(S) ELSE Absent]
         /\ held = [x \in Files |-> IF f[x] THEN {S} ELSE {}]
         /\ latest = S
  BY DEF Init
<1>3. held["output"] \subseteq {S} /\ held["profile"] = {S} BY <1>2 DEF Files
<1>4. EditsHeld BY DEF Init, EditsHeld, Writing
<1>5. DiskHeld BY <1>2 DEF DiskHeld, Whole, Absent
<1>6. LatestOnDisk BY <1>2 DEF LatestOnDisk, Whole, Files
<1>7. OutputHeld BY <1>3 DEF OutputHeld
<1>8. WriteWasConfirmed BY <1>3 DEF WriteWasConfirmed
<1> QED BY <1>1, <1>4, <1>5, <1>6, <1>7, <1>8 DEF Inv

(* Nothing forgets what has been held or asked for.                        *)
LEMMA Remembers ==
  ASSUME TypeOK, [Next]_vars
  PROVE  /\ \A f \in Files : held[f] \subseteq held'[f]
         /\ \A r \in Begun : r \in Begun' /\ body'[r] = body[r]
<1> USE DEF TypeOK, Begun
<1>1. ASSUME NEW r \in Requests, Receive(r)
      PROVE  UNCHANGED held /\ \A q \in Begun : q \in Begun' /\ body'[q] = body[q]
  BY <1>1 DEF Receive, End, GoOn, Goto, files
<1>2. ASSUME NEW r \in Requests, Write(r)
      PROVE  /\ \A f \in Files : held[f] \subseteq held'[f]
             /\ \A q \in Begun : q \in Begun' /\ body'[q] = body[q]
  <2>1. File(r) \in Files BY FileIsFile
  <2> QED BY <1>2, <2>1 DEF Write, End, GoOn, Goto, requests
<1>3. ASSUME NEW r \in Requests, Read(r)
      PROVE  UNCHANGED <<held, body>> /\ Begun \subseteq Begun'
  BY <1>3 DEF Read, End, GoOn, Goto, files
<1>4. ASSUME NEW r \in Requests, Backup(r) \/ Copy(r) \/ Open(r) \/ Resolve(r) \/ Fails(r)
      PROVE  UNCHANGED <<held, body>> /\ Begun \subseteq Begun'
  BY <1>4 DEF Backup, Copy, Open, Resolve, Fails, Active, End, GoOn, Goto, requests, files
<1>5. CASE Crash BY <1>5 DEF Crash, Active, requests, files
<1>6. CASE UNCHANGED vars BY <1>6 DEF vars, files, requests
<1> QED BY <1>1, <1>2, <1>3, <1>4, <1>5, <1>6 DEF Next, Step

LEMMA EditsStep ==
  ASSUME Inv, [Next]_vars
  PROVE  EditsHeld'
<1> TypeOK /\ EditsHeld /\ DiskHeld /\ LatestOnDisk BY DEF Inv
<1>1. \A S \in held["profile"] : S \in held'["profile"] BY Remembers DEF Files
<1>2. ASSUME NEW r \in Requests, UNCHANGED <<body, profile, started>>,
             pc'[r] = pc[r] \/ pc'[r] \notin Writing \union {"read"}
                \/ (pc[r] \in Writing /\ pc'[r] \in Writing)
      PROVE  /\ pc'[r] = "read" /\ body'[r].op # "plan" => body'[r].confirm
             /\ pc'[r] \in Writing =>
                  /\ body'[r].op # "plan" /\ body'[r].confirm
                  /\ body'[r].op = "enable" => body'[r].server \in DOMAIN Found
                  /\ started'[r] \in held'["profile"] /\ profile'[r] = Edited(r, started[r])'
  BY <1>1, <1>2 DEF EditsHeld, Edited, Writing
<1>3. ASSUME NEW r \in Requests, Receive(r) PROVE EditsHeld'
  <2>1. \A q \in Requests : q # r => pc'[q] = pc[q] /\ body'[q] = body[q]
    BY <1>3 DEF Receive, End, GoOn, Goto, TypeOK
  <2>2. pc'[r] = "done" \/ (pc'[r] = "read" /\ (body'[r].op # "plan" => body'[r].confirm))
    BY <1>3 DEF Receive, End, GoOn, Goto, TypeOK
  <2>3. UNCHANGED <<profile, started, held>> BY <1>3 DEF Receive, files
  <2> QED BY <2>1, <2>2, <2>3 DEF EditsHeld, Edited, Writing
<1>4. ASSUME NEW r \in Requests, Read(r) PROVE EditsHeld'
  <2>1. \A q \in Requests : q # r => pc'[q] = pc[q] /\ profile'[q] = profile[q] /\ started'[q] = started[q]
    BY <1>4 DEF Read, End, GoOn, Goto, TypeOK
  <2>2. UNCHANGED <<body, held>> BY <1>4 DEF Read, files
  <2>3. \/ pc'[r] = "done"
        \/ /\ pc[r] = "read" /\ pc'[r] = "backup" /\ body[r].op # "plan"
           /\ body[r].op = "enable" => body[r].server \in DOMAIN Found
           /\ started'[r] \in held["profile"]
           /\ profile'[r] = Edited(r, started'[r])
    BY <1>4 DEF Read, End, GoOn, Goto, TypeOK, DiskHeld, LatestOnDisk, Files
  <2>4. ASSUME NEW q \in Requests, q # r PROVE
          /\ pc'[q] = "read" /\ body'[q].op # "plan" => body'[q].confirm
          /\ pc'[q] \in Writing =>
               /\ body'[q].op # "plan" /\ body'[q].confirm
               /\ body'[q].op = "enable" => body'[q].server \in DOMAIN Found
               /\ started'[q] \in held'["profile"] /\ profile'[q] = Edited(q, started[q])'
    BY <2>1, <2>2, <2>4 DEF EditsHeld, Edited
  <2>5. pc'[r] = "backup" =>
          started'[r] \in held'["profile"] /\ profile'[r] = Edited(r, started[r])'
    BY <2>2, <2>3 DEF Edited
  <2>6. /\ pc'[r] = "read" /\ body'[r].op # "plan" => body'[r].confirm
        /\ pc'[r] \in Writing =>
             /\ body'[r].op # "plan" /\ body'[r].confirm
             /\ body'[r].op = "enable" => body'[r].server \in DOMAIN Found
             /\ started'[r] \in held'["profile"] /\ profile'[r] = Edited(r, started[r])'
    BY <2>2, <2>3, <2>5 DEF EditsHeld, Writing
  <2> QED BY <2>4, <2>6 DEF EditsHeld
<1>5. ASSUME NEW r \in Requests,
             Backup(r) \/ Copy(r) \/ Open(r) \/ Write(r) \/ Resolve(r) \/ Fails(r)
      PROVE  EditsHeld'
  <2>1. UNCHANGED <<body, profile, started>>
    BY <1>5 DEF Backup, Copy, Open, Write, Resolve, Fails, requests
  <2>2. \A q \in Requests : q # r => pc'[q] = pc[q]
    BY <1>5 DEF Backup, Copy, Open, Write, Resolve, Fails, End, GoOn, Goto, TypeOK
  <2>3. \/ pc'[r] \in {"done", "resolve"}
        \/ pc[r] \in Writing /\ pc'[r] \in Writing
    BY <1>5 DEF Backup, Copy, Open, Write, Resolve, Fails, End, GoOn, Goto, TypeOK, Writing
  <2> QED BY <2>1, <2>2, <2>3, <1>2 DEF EditsHeld, Writing
<1>6. CASE Crash
  <2>1. \A r \in Requests : pc'[r] = pc[r] \/ pc'[r] = "done" BY <1>6 DEF Crash
  <2>2. UNCHANGED <<body, profile, started>> BY <1>6 DEF Crash, requests
  <2> QED BY <2>1, <2>2, <1>2 DEF EditsHeld, Writing
<1>7. CASE UNCHANGED vars
  BY <1>7, <1>2 DEF vars, files, requests, EditsHeld
<1> QED BY <1>3, <1>4, <1>5, <1>6, <1>7 DEF Next, Step

(* Only Write adds to what has been held.                                  *)
LEMMA HeldGrows ==
  ASSUME TypeOK, [Next]_vars
  PROVE  \/ UNCHANGED held
         \/ \E r \in Requests :
              /\ pc[r] = "write" /\ UNCHANGED <<body, profile>>
              /\ held' = [held EXCEPT ![File(r)] = @ \union {profile[r]}]
<1>1. ASSUME NEW r \in Requests, Write(r)
      PROVE  \/ UNCHANGED held
             \/ /\ pc[r] = "write" /\ UNCHANGED <<body, profile>>
                /\ held' = [held EXCEPT ![File(r)] = @ \union {profile[r]}]
  BY <1>1 DEF Write, requests
<1> QED
  BY <1>1 DEF Next, Step, Receive, Read, Backup, Copy, Open, Resolve, Fails, Crash, vars, files

LEMMA DiskStep ==
  ASSUME Inv, [Next]_vars
  PROVE  DiskHeld' /\ LatestOnDisk'
<1> TypeOK /\ DiskHeld /\ LatestOnDisk BY DEF Inv
<1>1. ASSUME UNCHANGED <<disk, latest>> PROVE DiskHeld' /\ LatestOnDisk'
  BY <1>1, Remembers DEF DiskHeld, LatestOnDisk
<1>2. ASSUME NEW r \in Requests, Open(r) PROVE DiskHeld' /\ LatestOnDisk'
  BY <1>2 DEF Open, DiskHeld, LatestOnDisk, TypeOK, Empty, File, Files
<1>3. ASSUME NEW r \in Requests, Write(r) PROVE DiskHeld' /\ LatestOnDisk'
  <2>1. File(r) \in Files BY FileIsFile
  <2>2. \A f \in Files : f # File(r) => disk'[f] = disk[f] BY <1>3, <2>1 DEF Write, TypeOK
  <2>3. disk'[File(r)].state = "whole" =>
          disk'[File(r)].servers \in held'[File(r)] /\ disk'[File(r)].servers = profile[r]
    BY <1>3, <2>1 DEF Write, TypeOK, Whole, Torn
  <2>4. DiskHeld' BY <2>2, <2>3, Remembers DEF DiskHeld
  <2>5. CASE File(r) = "profile"
    <3>1. CASE latest' = profile[r] BY <2>3, <2>4, <2>5, <3>1 DEF LatestOnDisk
    <3>2. CASE disk' = [disk EXCEPT ![File(r)] = Torn]
      BY <2>1, <2>4, <2>5, <3>2 DEF LatestOnDisk, TypeOK, Torn
    <3> QED BY <1>3, <2>5, <3>1, <3>2 DEF Write
  <2>6. CASE File(r) # "profile"
    BY <1>3, <2>2, <2>4, <2>6 DEF Write, LatestOnDisk, Files
  <2> QED BY <2>4, <2>5, <2>6
<1>4. ASSUME NEW r \in Requests, Receive(r) \/ Read(r) \/ Resolve(r) \/ Fails(r)
      PROVE  UNCHANGED <<disk, latest>>
  BY <1>4 DEF Receive, Read, Resolve, Fails, files
<1>5. ASSUME NEW r \in Requests, Backup(r) \/ Copy(r) PROVE UNCHANGED <<disk, latest>>
  BY <1>5 DEF Backup, Copy
<1>6. CASE Crash \/ UNCHANGED vars BY <1>1, <1>6 DEF Crash, vars, files
<1> QED BY <1>1, <1>2, <1>3, <1>4, <1>5, <1>6 DEF Next, Step

(* What a write makes of the profile differs from what its request read by *)
(* what the request asked for.                                             *)
LEMMA ChangesStep ==
  ASSUME Inv, [Next]_vars, latest' # latest
  PROVE  \E r \in Requests :
            /\ pc[r] = "write" /\ pc'[r] # "write"
            /\ body[r].op \in Toggles /\ body[r].confirm
            /\ \A s \in latest \ latest' :
                 s \in started[r] => body[r].op = "disable" /\ body[r].server = s
            /\ \A s \in latest' \ latest :
                 s \notin started[r] => body[r].op = "enable" /\ Found[body[r].server] = s
<1> TypeOK /\ EditsHeld BY DEF Inv
<1>1. PICK r \in Requests : Write(r)
  BY DEF Next, Step, Receive, Read, Backup, Copy, Open, Resolve, Fails, Crash, vars, files
<1>2. pc[r] = "write" /\ pc'[r] # "write" BY <1>1 DEF Write, End, GoOn, Goto, TypeOK
<1>3. File(r) = "profile" /\ latest' = profile[r] BY <1>1 DEF Write
<1>4. body[r].op \in Toggles BY <1>3 DEF File
<1>5. body[r].confirm /\ profile[r] = Edited(r, started[r])
  BY <1>2 DEF EditsHeld, Writing
<1> QED BY <1>2, <1>3, <1>4, <1>5 DEF Edited, Toggles

LEMMA OutputStep ==
  ASSUME Inv, [Next]_vars
  PROVE  OutputHeld' /\ WriteWasConfirmed'
<1> TypeOK /\ EditsHeld /\ OutputHeld /\ WriteWasConfirmed BY DEF Inv
<1>1. ASSUME UNCHANGED held["output"] PROVE OutputHeld' /\ WriteWasConfirmed'
  BY <1>1, Remembers DEF OutputHeld, WriteWasConfirmed, Files
<1>2. ASSUME NEW r \in Requests, pc[r] = "write", File(r) = "output", UNCHANGED <<body, profile>>,
             held' = [held EXCEPT ![File(r)] = @ \union {profile[r]}]
      PROVE  OutputHeld' /\ WriteWasConfirmed'
  <2>1. started[r] \in held["profile"] /\ profile[r] = Edited(r, started[r])
    BY <1>2 DEF EditsHeld, Writing
  <2>2. body[r].op = "write" /\ body[r].confirm
    BY <1>2 DEF EditsHeld, Writing, File, TypeOK, Bodies, Toggles
  <2>3. profile[r] \in held["profile"] BY <2>1, <2>2 DEF Edited
  <2>4. OutputHeld' BY <1>2, <2>3 DEF OutputHeld, TypeOK, Files
  <2>5. r \in Begun BY <1>2 DEF Begun
  <2> QED BY <2>2, <2>4, <2>5, Remembers DEF WriteWasConfirmed
<1>3. ASSUME NEW r \in Requests, pc[r] = "write", UNCHANGED <<body, profile>>,
             held' = [held EXCEPT ![File(r)] = @ \union {profile[r]}]
      PROVE  OutputHeld' /\ WriteWasConfirmed'
  BY <1>1, <1>2, <1>3 DEF File, TypeOK, Files
<1> QED BY <1>1, <1>3, HeldGrows

LEMMA InvStep == Inv /\ [Next]_vars => Inv'
  BY TypeStep, EditsStep, DiskStep, OutputStep DEF Inv

THEOREM Invariance == Spec => []Inv
  BY InitInv, InvStep, PTL DEF Spec

(* Files, backups and requests keep their types, and two backups of one    *)
(* file never share a name (backupFileIfExists, profiles.ts:152).          *)
THEOREM TypeCorrect == Spec => []TypeOK
<1> Inv => TypeOK BY DEF Inv
<1> QED BY Invariance, PTL

(* However many requests overlap, a write changes of the profile what its  *)
(* confirmed request asks for, or undoes what others have changed since it *)
(* read (setServerEnabled and requireConfirmed, dashboard.ts).             *)
THEOREM ChangesAreRequested == Spec => OnlyRequestedChanges
<1>1. UNCHANGED vars => latest' = latest BY DEF vars, files
<1>2. Inv /\ [Next]_vars =>
        [latest' # latest =>
         \E r \in Requests :
            /\ pc[r] = "write" /\ pc'[r] # "write"
            /\ body[r].op \in Toggles /\ body[r].confirm
            /\ \A s \in latest \ latest' :
                 s \in started[r] => body[r].op = "disable" /\ body[r].server = s
            /\ \A s \in latest' \ latest :
                 s \notin started[r] => body[r].op = "enable" /\ Found[body[r].server] = s]_vars
  BY ChangesStep
<1> QED BY <1>2, Invariance, PTL DEF Spec, OnlyRequestedChanges

-----------------------------------------------------------------------------
(* What NothingLost grants a content S that is not on disk.                *)
Covered(f, S) ==
    \/ \E b \in backups \union replaced : b.file = f /\ b.content = Whole(S)
    \/ \E r \in Requests : File(r) = f /\ Whole(S) \in missed[r]

(* A sound file about to be truncated or written is covered.               *)
CoveredFirst ==
    \A r \in Requests : pc[r] \in {"open", "write"} =>
        \A S \in SUBSET Servers : disk[File(r)] = Whole(S) => Covered(File(r), S)

NoneMissedYet == \A r \in Requests : pc[r] = "idle" => missed[r] = {}

Kept == CoveredFirst /\ NoneMissedYet /\ NothingLost

LEMMA InitKept == Init => Kept
<1> SUFFICES ASSUME Init PROVE Kept OBVIOUS
<1>1. NothingLost BY DEF Init, NothingLost, Files, Whole
<1> QED BY <1>1 DEF Init, Kept, CoveredFirst, NoneMissedYet

(* What is covered stays so.                                               *)
LEMMA StaysCovered ==
  ASSUME TypeOK, NoneMissedYet, [Next]_vars, NEW f, NEW S, Covered(f, S)
  PROVE  Covered(f, S)'
<1> USE DEF TypeOK
<1>1. ASSUME backups \union replaced \subseteq backups' \union replaced', UNCHANGED body,
             \A r \in Requests : missed[r] \subseteq missed'[r]
      PROVE  Covered(f, S)'
  BY <1>1 DEF Covered, File
<1>2. ASSUME NEW r \in Requests, Receive(r) PROVE Covered(f, S)'
  <2>1. missed[r] = {} BY <1>2 DEF NoneMissedYet, Receive
  <2>2. \A q \in Requests : q # r => body'[q] = body[q] BY <1>2 DEF Receive
  <2> QED BY <1>2, <2>1, <2>2 DEF Covered, File, Receive, files
<1>3. ASSUME NEW r \in Requests, Backup(r) PROVE Covered(f, S)'
  BY <1>1, <1>3 DEF Backup, requests
<1>4. ASSUME NEW r \in Requests, Copy(r) PROVE Covered(f, S)'
  <2>1. backups \union replaced \subseteq backups' \union replaced' BY <1>4 DEF Copy
  <2> QED BY <1>1, <1>4, <2>1 DEF Copy, requests
<1>5. ASSUME NEW r \in Requests, Write(r) PROVE Covered(f, S)'
  <2>1. \A q \in Requests : missed[q] \subseteq missed'[q] BY <1>5 DEF Write
  <2> QED BY <1>1, <1>5, <2>1 DEF Write, requests
<1>6. ASSUME NEW r \in Requests, Read(r) \/ Open(r) \/ Resolve(r) \/ Fails(r)
      PROVE  Covered(f, S)'
  BY <1>1, <1>6 DEF Read, Open, Resolve, Fails, files, requests
<1>7. CASE Crash \/ UNCHANGED vars BY <1>1, <1>7 DEF Crash, vars, files, requests
<1> QED BY <1>2, <1>3, <1>4, <1>5, <1>6, <1>7 DEF Next, Step

LEMMA NoneMissedStep ==
  ASSUME TypeOK, NoneMissedYet, [Next]_vars
  PROVE  NoneMissedYet'
<1> USE DEF TypeOK, NoneMissedYet
<1>1. ASSUME UNCHANGED missed, \A r \in Requests : pc'[r] = "idle" => pc[r] = "idle"
      PROVE  NoneMissedYet'
  BY <1>1
<1>2. ASSUME NEW r \in Requests, Receive(r) \/ Read(r) PROVE NoneMissedYet'
  BY <1>1, <1>2 DEF Receive, Read, End, GoOn, Goto, files
<1>3. ASSUME NEW r \in Requests, Backup(r) PROVE NoneMissedYet'
  BY <1>3 DEF Backup, GoOn, Goto
<1>4. ASSUME NEW r \in Requests, Copy(r) \/ Open(r) PROVE NoneMissedYet'
  BY <1>1, <1>4 DEF Copy, Open, End, GoOn, Goto
<1>5. ASSUME NEW r \in Requests, Write(r) PROVE NoneMissedYet'
  BY <1>5 DEF Write, End, GoOn, Goto
<1>6. ASSUME NEW r \in Requests, Resolve(r) \/ Fails(r) PROVE NoneMissedYet'
  BY <1>1, <1>6 DEF Resolve, Fails, End, Goto, files
<1>7. CASE Crash \/ UNCHANGED vars BY <1>1, <1>7 DEF Crash, vars, files
<1> QED BY <1>2, <1>3, <1>4, <1>5, <1>6, <1>7 DEF Next, Step

(* Only a content that is covered is taken off the disk.                   *)
LEMMA LossStep ==
  ASSUME TypeOK, Kept, [Next]_vars
  PROVE  NothingLost'
<1> CoveredFirst /\ NoneMissedYet /\ NothingLost BY DEF Kept
<1> USE DEF TypeOK
<1>1. \A f \in Files : \A S \in held[f] : disk[f] = Whole(S) \/ Covered(f, S)
  BY DEF NothingLost, Covered
<1>2. SUFFICES ASSUME NEW f \in Files, NEW S \in held'[f], ~Covered(f, S)'
               PROVE  disk'[f] = Whole(S)
  BY DEF NothingLost, Covered
<1>3. ~Covered(f, S) BY <1>2, StaysCovered
<1>4. S \in held[f] => disk[f] = Whole(S) /\ S \in SUBSET Servers BY <1>1, <1>3
<1>5. ASSUME UNCHANGED <<disk, held>> PROVE disk'[f] = Whole(S) BY <1>4, <1>5
<1>6. ASSUME NEW r \in Requests, Open(r) PROVE disk'[f] = Whole(S)
  <2>1. pc[r] = "open" /\ UNCHANGED held BY <1>6 DEF Open
  <2>2. f # File(r) BY <1>3, <1>4, <2>1 DEF CoveredFirst
  <2> QED BY <1>4, <1>6, <2>1, <2>2 DEF Open
<1>7. ASSUME NEW r \in Requests, Write(r) PROVE disk'[f] = Whole(S)
  <2>1. pc[r] = "write" BY <1>7 DEF Write
  <2>2. f = File(r) => S \notin held[f] BY <1>3, <1>4, <2>1 DEF CoveredFirst
  <2>3. CASE f = File(r) BY <1>2, <1>7, <2>2, <2>3 DEF Write
  <2>4. CASE f # File(r) BY <1>2, <1>4, <1>7, <2>4 DEF Write
  <2> QED BY <2>3, <2>4
<1>8. ASSUME NEW r \in Requests, Receive(r) \/ Read(r) \/ Resolve(r) \/ Fails(r)
      PROVE  disk'[f] = Whole(S)
  BY <1>5, <1>8 DEF Receive, Read, Resolve, Fails, files
<1>9. ASSUME NEW r \in Requests, Backup(r) \/ Copy(r) PROVE disk'[f] = Whole(S)
  BY <1>5, <1>9 DEF Backup, Copy
<1>10. CASE Crash \/ UNCHANGED vars BY <1>5, <1>10 DEF Crash, vars, files
<1> QED BY <1>6, <1>7, <1>8, <1>9, <1>10 DEF Next, Step

(* A request comes to open its file past its own look or copy, and what    *)
(* others write from then on it misses.                                    *)
LEMMA CoveredStep ==
  ASSUME TypeOK, Kept, [Next]_vars
  PROVE  CoveredFirst'
<1> CoveredFirst /\ NoneMissedYet BY DEF Kept
<1> USE DEF TypeOK
<1>1. SUFFICES ASSUME NEW q \in Requests, pc'[q] \in {"open", "write"}, NEW f, File(q)' = f,
                      NEW S \in SUBSET Servers, disk'[f] = Whole(S)
               PROVE  Covered(f, S)'
  BY DEF CoveredFirst, Covered
<1>2. ASSUME pc[q] \in {"open", "write"}, File(q) = f, disk'[f] = disk[f]
      PROVE  Covered(f, S)'
  <2>1. Covered(f, S) BY <1>1, <1>2 DEF CoveredFirst
  <2> QED BY <2>1, StaysCovered
<1>3. ASSUME NEW r \in Requests, Receive(r) PROVE Covered(f, S)'
  <2>1. q # r /\ pc'[q] = pc[q] BY <1>1, <1>3 DEF Receive, End, GoOn, Goto
  <2>2. body'[q] = body[q] /\ UNCHANGED disk BY <1>3, <2>1 DEF Receive, files
  <2> QED BY <1>1, <1>2, <2>1, <2>2 DEF File
<1>4. ASSUME NEW r \in Requests, Backup(r) PROVE Covered(f, S)'
  <2>1. UNCHANGED <<disk, body>> BY <1>4 DEF Backup, requests
  <2>2. File(q) = f BY <1>1, <2>1 DEF File
  <2>3. CASE q # r BY <1>1, <1>2, <1>4, <2>1, <2>2, <2>3 DEF Backup, GoOn, Goto
  <2>4. CASE q = r
    <3>1. disk[File(r)] = Whole(S) BY <1>1, <2>1, <2>2, <2>4
    <3>2. disk[File(r)] # Absent BY <3>1 DEF Whole, Absent
    <3>3. Whole(S) \in missed'[q] BY <1>1, <1>4, <2>4, <3>1, <3>2 DEF Backup, GoOn, Goto
    <3> QED BY <1>1, <3>3 DEF Covered
  <2> QED BY <2>3, <2>4
<1>5. ASSUME NEW r \in Requests, Copy(r) PROVE Covered(f, S)'
  <2>1. UNCHANGED <<disk, body>> BY <1>5 DEF Copy, requests
  <2>2. File(q) = f BY <1>1, <2>1 DEF File
  <2>3. CASE q # r
    <3>1. pc'[q] = pc[q] BY <1>5, <2>3 DEF Copy, End, GoOn, Goto
    <3> QED BY <1>1, <1>2, <2>1, <2>2, <3>1
  <2>4. CASE q = r
    <3>1. disk[File(r)] = Whole(S) BY <1>1, <2>1, <2>2, <2>4
    <3>2. PICK ms \in Moments, content \in {disk[File(r)], Torn} :
            /\ [file |-> File(r), ms |-> ms, content |-> content] \in backups'
            /\ content = disk[File(r)] \/ End(r, "failed")
      BY <1>5 DEF Copy
    <3>3. ~End(r, "failed") BY <1>1, <2>4 DEF End, Goto
    <3>4. [file |-> f, ms |-> ms, content |-> Whole(S)] \in backups'
      BY <2>2, <2>4, <3>1, <3>2, <3>3
    <3> QED BY <3>4 DEF Covered
  <2> QED BY <2>3, <2>4
<1>6. ASSUME NEW r \in Requests, Open(r) PROVE Covered(f, S)'
  <2>1. UNCHANGED body /\ pc[q] \in {"open", "write"}
    BY <1>1, <1>6 DEF Open, GoOn, Goto, requests
  <2>2. File(q) = f BY <1>1, <2>1 DEF File
  <2>3. f # File(r) BY <1>1, <1>6, FileIsFile DEF Open, Empty, Whole
  <2> QED BY <1>2, <1>6, <2>1, <2>2, <2>3 DEF Open
<1>7. ASSUME NEW r \in Requests, Write(r) PROVE Covered(f, S)'
  <2>1. UNCHANGED body /\ pc[q] \in {"open", "write"} /\ q # r
    BY <1>1, <1>7 DEF Write, End, GoOn, Goto, requests
  <2>2. File(q) = f BY <1>1, <2>1 DEF File
  <2>3. CASE f # File(r) BY <1>2, <1>7, <2>1, <2>2, <2>3, FileIsFile DEF Write
  <2>4. CASE f = File(r)
    <3>1. disk'[f] # Torn BY <1>1 DEF Whole, Torn
    <3>2. disk' = [disk EXCEPT ![File(r)] = Whole(profile[r])]
          /\ missed' = [p \in Requests |->
               IF p # r /\ File(p) = File(r) /\ pc[p] \in {"open", "write"}
               THEN missed[p] \union {Whole(profile[r])} ELSE missed[p]]
      BY <1>7, <2>4, <3>1, FileIsFile DEF Write
    <3>3. Whole(S) = Whole(profile[r]) BY <1>1, <2>4, <3>2, FileIsFile
    <3>4. Whole(S) \in missed'[q] BY <2>1, <2>2, <2>4, <3>2, <3>3
    <3> QED BY <1>1, <3>4 DEF Covered
  <2> QED BY <2>3, <2>4
<1>8. ASSUME NEW r \in Requests, Read(r) \/ Resolve(r) \/ Fails(r) PROVE Covered(f, S)'
  <2>1. UNCHANGED <<disk, body>> BY <1>8 DEF Read, Resolve, Fails, files, requests
  <2>2. pc[q] \in {"open", "write"}
    BY <1>1, <1>8 DEF Read, Resolve, Fails, End, GoOn, Goto
  <2> QED BY <1>1, <1>2, <2>1, <2>2 DEF File
<1>9. CASE Crash
  <2>1. pc[q] \in {"open", "write"} BY <1>1, <1>9 DEF Crash
  <2> QED BY <1>1, <1>2, <1>9, <2>1 DEF Crash, files, requests, File
<1>10. CASE UNCHANGED vars BY <1>1, <1>2, <1>10 DEF vars, files, requests, File
<1> QED BY <1>3, <1>4, <1>5, <1>6, <1>7, <1>8, <1>9, <1>10 DEF Next, Step

(* However requests overlap, fail or are killed, what a file has held is   *)
(* in it or in a backup, unless a copy of the same millisecond replaced    *)
(* that, the look for the file was refused, or it was written behind a     *)
(* copy (backupFileIfExists and writeEditableProfile, profiles.ts).        *)
THEOREM NothingIsLost == Spec => []NothingLost
<1>1. Inv /\ Kept /\ [Next]_vars => Kept'
  BY NoneMissedStep, LossStep, CoveredStep DEF Inv, Kept
<1>2. Kept => NothingLost BY DEF Kept
<1> QED BY <1>1, <1>2, InitKept, Invariance, PTL DEF Spec

(* However many requests overlap, a generated configuration is a profile   *)
(* that was held, written upon confirmation (prepareProfileSwitch).        *)
THEOREM OutputIsAProfile == Spec => []OutputWasProfile
<1>1. ASSUME NEW S, held["output"] \subseteq {S} PROVE ~(Cardinality(held["output"]) > 1)
  <2>1. Cardinality({S}) = 1 /\ IsFiniteSet({S}) BY FS_Singleton
  <2>2. Cardinality(held["output"]) <= 1 /\ Cardinality(held["output"]) \in Nat
    BY <1>1, <2>1, FS_Subset, FS_CardinalityType
  <2> QED BY <2>2
<1>2. Inv => OutputWasProfile
  BY <1>1 DEF Inv, OutputHeld, WriteWasConfirmed, OutputWasProfile
<1> QED BY <1>2, Invariance, PTL

-----------------------------------------------------------------------------
(* For requests one at a time.                                             *)
OneAtATime == \A r, q \in Active : r = q

TruncatedForOne == \A r \in Requests : pc[r] = "write" => disk[File(r)] = Empty

(* The profile stays what it was when the request read it, and is what the *)
(* request has written afterwards.                                         *)
ProfileAsKnown ==
    \A r \in Requests :
        /\ pc[r] \in Writing /\ body[r].op = "write" =>
             disk["profile"] = Whole(profile[r])
        /\ pc[r] = "resolve" =>
             /\ disk["profile"] = Whole(profile[r]) /\ body[r].op \in Toggles
             /\ body[r].op = "enable" => body[r].server \in DOMAIN Found
             /\ \E S \in SUBSET Servers : profile[r] = Edited(r, S)

Orderly == OneAtATime /\ TruncatedForOne /\ ProfileAsKnown
Safe == ~overlap => Orderly

LEMMA InitOrderly == Init => Orderly
<1> SUFFICES ASSUME Init PROVE Orderly OBVIOUS
<1>1. Active = {} BY DEF Init, Active
<1> QED
  BY <1>1 DEF Orderly, OneAtATime, TruncatedForOne, ProfileAsKnown, Init, Writing

(* While a request takes a step, the others have not begun or are done.    *)
LEMMA Alone ==
  ASSUME ~overlap, ~overlap', TypeOK, Orderly, NEW r \in Requests, Step(r), NEW q \in Requests, q # r
  PROVE  pc[q] \in {"idle", "done"} /\ pc'[q] = pc[q]
<1>1. CASE Receive(r)
  BY <1>1 DEF Receive, End, GoOn, Goto, Active, TypeOK
<1>2. CASE pc[r] \notin {"idle", "done"}
  <2>1. r \in Active BY <1>2 DEF Active
  <2>2. q \notin Active BY <2>1 DEF Orderly, OneAtATime
  <2>3. pc'[q] = pc[q]
    BY <1>2 DEF Step, Receive, Read, Backup, Copy, Open, Write, Resolve, Fails, End, GoOn, Goto, TypeOK
  <2> QED BY <2>2, <2>3 DEF Active
<1> QED
  BY <1>1, <1>2 DEF Step, Read, Backup, Copy, Open, Write, Resolve, Fails, Active

LEMMA AloneStep ==
  ASSUME ~overlap, ~overlap', TypeOK, Orderly, NEW r \in Requests, Step(r)
  PROVE  OneAtATime'
<1>1. \A q \in Requests : q # r => pc'[q] \in {"idle", "done"} BY Alone
<1> QED BY <1>1 DEF OneAtATime, Active

LEMMA TruncatedStep ==
  ASSUME ~overlap, ~overlap', TypeOK, Orderly, NEW r \in Requests, Step(r)
  PROVE  TruncatedForOne'
<1> USE DEF TypeOK
<1>1. \A q \in Requests : q # r => pc'[q] # "write" BY Alone
<1>2. CASE Open(r)
  <2>1. File(r)' = File(r) BY <1>2 DEF Open, requests, File
  <2>2. disk'[File(r)] = Empty BY <1>2, FileIsFile DEF Open
  <2> QED BY <1>1, <2>1, <2>2 DEF TruncatedForOne
<1>3. ASSUME pc'[r] # "write" PROVE TruncatedForOne'
  BY <1>1, <1>3 DEF TruncatedForOne
<1>4. CASE Receive(r) \/ Read(r) \/ Backup(r) \/ Copy(r)
  BY <1>3, <1>4 DEF Receive, Read, Backup, Copy, End, GoOn, Goto
<1>5. CASE Write(r) \/ Resolve(r) \/ Fails(r)
  BY <1>3, <1>5 DEF Write, Resolve, Fails, End, GoOn, Goto
<1> QED BY <1>2, <1>4, <1>5 DEF Step

(* Write meets the file its own request has truncated, so it writes whole. *)
LEMMA WritesWhole ==
  ASSUME TypeOK, Orderly, NEW r \in Requests, Write(r)
  PROVE  /\ pc[r] = "write" /\ disk[File(r)] = Empty
         /\ disk' = [disk EXCEPT ![File(r)] = Whole(profile[r])]
         /\ held' = [held EXCEPT ![File(r)] = @ \union {profile[r]}]
BY DEF Write, Orderly, TruncatedForOne

LEMMA ProfileStep ==
  ASSUME ~overlap, ~overlap', TypeOK, EditsHeld, Orderly, NEW r \in Requests, Step(r)
  PROVE  ProfileAsKnown'
<1> ProfileAsKnown BY DEF Orderly
<1> USE DEF TypeOK
<1> DEFINE Known == /\ pc[r] \in Writing /\ body[r].op = "write" =>
                        disk["profile"] = Whole(profile[r])
                    /\ pc[r] = "resolve" =>
                        /\ disk["profile"] = Whole(profile[r]) /\ body[r].op \in Toggles
                        /\ body[r].op = "enable" => body[r].server \in DOMAIN Found
                        /\ \E S \in SUBSET Servers : profile[r] = Edited(r, S)
<1>1. Known' => ProfileAsKnown'
  <2>1. \A q \in Requests : q # r => pc'[q] \in {"idle", "done"} BY Alone
  <2> QED BY <2>1 DEF ProfileAsKnown, Writing
<1>2. Known BY DEF ProfileAsKnown
<1>3. ASSUME pc'[r] \in {"idle", "read", "done"} PROVE Known'
  BY <1>3 DEF Writing
<1>4. CASE Receive(r) BY <1>1, <1>3, <1>4 DEF Receive, End, GoOn, Goto
<1>5. CASE Read(r)
  <2>1. \/ pc'[r] = "done"
        \/ /\ pc'[r] = "backup" /\ disk["profile"].state = "whole"
           /\ profile'[r] = Edited(r, disk["profile"].servers)
    BY <1>5 DEF Read, End, GoOn, Goto
  <2>2. UNCHANGED <<disk, body>> BY <1>5 DEF Read, files
  <2>3. CASE pc'[r] = "done" BY <1>1, <1>3, <2>3
  <2>4. CASE /\ pc'[r] = "backup" /\ disk["profile"].state = "whole"
             /\ profile'[r] = Edited(r, disk["profile"].servers)
    <3>1. disk["profile"] = Whole(disk["profile"].servers) BY <2>4, DiskShape DEF Files
    <3>2. body[r].op = "write" => profile'[r] = disk["profile"].servers BY <2>4 DEF Edited
    <3> QED BY <1>1, <2>2, <2>4, <3>1, <3>2
  <2> QED BY <2>1, <2>3, <2>4
<1>6. CASE Backup(r) \/ Copy(r)
  <2>1. pc[r] \in Writing /\ pc'[r] \in (Writing \ {"write"}) \union {"done"}
    BY <1>6 DEF Backup, Copy, End, GoOn, Goto, Writing
  <2>2. UNCHANGED <<disk, body, profile>> BY <1>6 DEF Backup, Copy, requests
  <2> QED BY <1>1, <1>2, <2>1, <2>2 DEF Writing
<1>7. CASE Open(r)
  <2>1. pc[r] \in Writing /\ pc'[r] = "write" /\ UNCHANGED <<body, profile>>
    BY <1>7 DEF Open, GoOn, Goto, Writing, requests
  <2>2. body[r].op = "write" => disk'["profile"] = disk["profile"]
    BY <1>7 DEF Open, File, Toggles
  <2> QED BY <1>1, <1>2, <2>1, <2>2
<1>8. CASE Write(r)
  <2>1. pc'[r] = "done" \/ (pc'[r] = "resolve" /\ body[r].op \in Toggles)
    BY <1>8 DEF Write, End, GoOn, Goto
  <2>2. UNCHANGED <<body, profile>> BY <1>8 DEF Write, requests
  <2>3. pc[r] \in Writing BY <1>8 DEF Write, Writing
  <2>4. body[r].op \in Toggles => disk'["profile"] = Whole(profile[r])
    BY <1>8, WritesWhole DEF File, Files
  <2>5. /\ body[r].op = "enable" => body[r].server \in DOMAIN Found
        /\ \E S \in SUBSET Servers : profile[r] = Edited(r, S)
    BY <2>3 DEF EditsHeld, Files
  <2>6. \E S \in SUBSET Servers : profile'[r] = Edited(r, S)' BY <2>2, <2>5 DEF Edited
  <2>7. pc'[r] = "resolve" => Known' BY <2>1, <2>2, <2>4, <2>5, <2>6 DEF Writing
  <2> QED BY <1>1, <1>3, <2>1, <2>7
<1>9. CASE Resolve(r) BY <1>1, <1>3, <1>9 DEF Resolve, End, Goto
<1>10. CASE Fails(r) BY <1>1, <1>3, <1>10 DEF Fails, End, Goto
<1> QED BY <1>4, <1>5, <1>6, <1>7, <1>8, <1>9, <1>10 DEF Step

(* The process is killed: no request is left at work.                      *)
LEMMA CrashOrderly ==
  ASSUME TypeOK, Orderly, Crash
  PROVE  Orderly'
<1>1. \A r \in Requests : pc'[r] \in {"idle", "done"} BY DEF Crash, Active
<1> QED
  BY <1>1 DEF Orderly, OneAtATime, Active, TruncatedForOne, ProfileAsKnown, Writing

LEMMA StutterOrderly ==
  ASSUME Orderly, UNCHANGED vars
  PROVE  Orderly'
<1>1. OneAtATime' BY DEF Orderly, OneAtATime, Active, vars
<1>2. TruncatedForOne' BY DEF Orderly, TruncatedForOne, File, vars, files, requests
<1>3. ProfileAsKnown' BY DEF Orderly, ProfileAsKnown, Edited, vars, files, requests
<1> QED BY <1>1, <1>2, <1>3 DEF Orderly

LEMMA SafeStep == Inv /\ Safe /\ [Next]_vars => Safe'
<1> SUFFICES ASSUME Inv, Safe, [Next]_vars, ~overlap' PROVE Orderly' BY DEF Safe
<1> ~overlap
  BY DEF Next, Step, Receive, Read, Backup, Copy, Open, Write, Resolve, Fails, Crash, vars, requests
<1> Orderly BY DEF Safe
<1> TypeOK /\ EditsHeld BY DEF Inv
<1>1. ASSUME NEW r \in Requests, Step(r) PROVE Orderly'
  BY <1>1, AloneStep, TruncatedStep, ProfileStep DEF Orderly
<1> QED BY <1>1, CrashOrderly, StutterOrderly DEF Next

(* A request that reports success, one at a time, has taken effect         *)
(* (setServerEnabled, dashboard.ts, and prepareProfileSwitch, profiles.ts).*)
THEOREM SuccessIsEffect == Spec => SuccessMeansDone
<1> DEFINE Done(r) ==
      /\ body[r].op = "write" =>
           disk'["output"].state = "whole" /\ disk'["output"].servers = disk'["profile"].servers
      /\ body[r].op \in Toggles =>
           /\ disk'["profile"].state = "whole"
           /\ body[r].op = "enable" => Found[body[r].server] \in disk'["profile"].servers
           /\ body[r].op = "disable" => body[r].server \notin disk'["profile"].servers
<1>1. ASSUME Inv, Orderly, NEW r \in Requests, NEW q \in Requests, Step(q),
             answer[r] = "none", answer'[r] = "ok"
      PROVE  r = q /\ (Read(r) \/ Write(r) \/ Resolve(r))
  BY <1>1 DEF Inv, TypeOK, Step, Receive, Read, Backup, Copy, Open, Write, Resolve, Fails, End,
     GoOn, Goto
<1>2. ASSUME Inv, Orderly, NEW r \in Requests, Read(r), answer'[r] = "ok", answer[r] = "none"
      PROVE  Done(r)
  BY <1>2 DEF Inv, TypeOK, Read, End, GoOn, Toggles
<1>3. ASSUME Inv, Orderly, NEW r \in Requests, Write(r), answer'[r] = "ok", answer[r] = "none"
      PROVE  Done(r)
  <2>1. TypeOK BY <1>3 DEF Inv
  <2>2. body[r].op = "write" BY <1>3, <2>1 DEF TypeOK, Write, End, GoOn
  <2>3. disk["profile"] = Whole(profile[r])
    BY <1>3, <2>2 DEF Write, Orderly, ProfileAsKnown, Writing
  <2>4. File(r) = "output" BY <2>2 DEF File, Toggles
  <2>5. disk' = [disk EXCEPT !["output"] = Whole(profile[r])] BY <1>3, <2>1, <2>4, WritesWhole
  <2> QED BY <2>1, <2>2, <2>3, <2>5 DEF TypeOK, Files, Whole, Toggles
<1>4. ASSUME Inv, Orderly, NEW r \in Requests, Resolve(r), answer'[r] = "ok", answer[r] = "none"
      PROVE  Done(r)
  <2>1. /\ disk["profile"] = Whole(profile[r]) /\ body[r].op \in Toggles
        /\ body[r].op = "enable" => body[r].server \in DOMAIN Found
    BY <1>4 DEF Resolve, Orderly, ProfileAsKnown
  <2>2. PICK S \in SUBSET Servers : profile[r] = Edited(r, S)
    BY <1>4 DEF Resolve, Orderly, ProfileAsKnown
  <2>3. UNCHANGED disk BY <1>4 DEF Resolve, files
  <2> QED BY <2>1, <2>2, <2>3 DEF Whole, Edited, Toggles
<1>5. Inv /\ Safe /\ [Next]_vars
        => [\A r \in Requests : answer[r] = "none" /\ answer'[r] = "ok" /\ ~overlap => Done(r)]_vars
  <2> HIDE DEF Done
  <2> SUFFICES ASSUME Inv, Safe, Next, NEW r \in Requests, answer[r] = "none", answer'[r] = "ok",
                      ~overlap
               PROVE  Done(r)
    OBVIOUS
  <2> Orderly BY DEF Safe
  <2>1. CASE Crash BY <2>1 DEF Crash, Inv, TypeOK
  <2> QED BY <2>1, <1>1, <1>2, <1>3, <1>4 DEF Next
<1>6. Init => Safe BY InitOrderly DEF Safe
<1> QED BY <1>5, <1>6, SafeStep, Invariance, PTL DEF Spec, SuccessMeansDone
=============================================================================
