-------------------------- MODULE ControlCenter_proofs --------------------------
(***************************************************************************)
(* What the answers promise, for every set of clients and calls and        *)
(* whatever the sources hold.  Three invariants say why, each of which has *)
(* the one before it as a part: Safe for build_catalog, Honest for the     *)
(* answers that tell what was read, Spoken for the language of the words.  *)
(*                                                                         *)
(* Safe:                                                                   *)
(* writers wait for their write and for nothing else; one that was told of *)
(* no other write is alone with the file; and an answer that no write has  *)
(* touched finds the file closed.  The parts are stated of the requests q  *)
(* and the file f, so that the lemmas about them hold of any two states.   *)
(***************************************************************************)
EXTENDS ControlCenter, SequenceTheorems, FiniteSetTheorems, TLAPS

Shape(q, f) ==
    /\ DOMAIN q = Clients
    /\ \A c \in Clients : DOMAIN q[c] = DOMAIN Idle
    /\ DOMAIN f = {"content", "torn", "writers", "mixed"}

(* A writer has read everything and has no answer yet.                     *)
Writing(r) == r.tool = "build_catalog" /\ r.page = <<>> /\ Remaining(r) = <<>>
WritersWait(q, f) == \A c \in f.writers : c \in Clients /\ Writing(q[c])

(* One that was told of no other write is the only one.                    *)
Alone(q, f) ==
    \A c \in f.writers : "write" \notin q[c].during => f.writers = {c} /\ ~f.mixed

Unmixed(f) == f.writers = {} => ~f.mixed

(* An answer that no write has touched is in the file, which is closed.    *)
Succeeded(r) == r.tool = "build_catalog" /\ r.page # <<>> /\ ~r.error /\ "write" \notin r.during
Stands(r, f) == f.writers = {} /\ ~f.torn /\ f.content = <<Payload(r)>>
Standing(q, f) == \A c \in Clients : Succeeded(q[c]) => Stands(q[c], f)

Kept(q, f) == Shape(q, f) /\ WritersWait(q, f) /\ Alone(q, f) /\ Unmixed(f) /\ Standing(q, f)
Safe == Kept(request, catalogFile)

--------------------------------------------------------------------------------
(* What is read and what was asked for decide the payload and what is      *)
(* still to be read.                                                       *)
LEMMA PayloadAsRead ==
  ASSUME NEW r, NEW s, s.args = r.args, s.read = r.read
  PROVE  Payload(s) = Payload(r)
BY DEF Payload, ServersOf, Definitions

LEMMA RemainingAsRead ==
  ASSUME NEW r, NEW s, s.tool = r.tool, s.args = r.args, s.read = r.read
  PROVE  Remaining(s) = Remaining(r)
BY DEF Remaining

(* A step that leaves the file alone, and every request in all that        *)
(* matters unless it is neither a writer nor a success afterwards.         *)
Same(r, s) ==
    /\ s.tool = r.tool /\ s.args = r.args /\ s.read = r.read /\ s.page = r.page
    /\ s.error = r.error /\ ("write" \in s.during <=> "write" \in r.during)

LEMMA FileLeftAlone ==
  ASSUME NEW q, NEW s, NEW f, Kept(q, f), Shape(s, f),
         \A c \in Clients : Same(q[c], s[c]) \/ (c \notin f.writers /\ ~Succeeded(s[c]))
  PROVE  Kept(s, f)
<1>1. WritersWait(s, f)
  <2> SUFFICES ASSUME NEW c \in f.writers PROVE c \in Clients /\ Writing(s[c])
    BY DEF WritersWait
  <2>1. c \in Clients /\ Writing(q[c]) BY DEF Kept, WritersWait
  <2>2. Same(q[c], s[c]) BY <2>1
  <2>3. Remaining(s[c]) = Remaining(q[c]) BY <2>2, RemainingAsRead DEF Same
  <2> QED BY <2>1, <2>2, <2>3 DEF Same, Writing
<1>2. Alone(s, f)
  BY DEF Kept, WritersWait, Alone, Same
<1>3. Standing(s, f)
  <2> SUFFICES ASSUME NEW c \in Clients, Succeeded(s[c]) PROVE Stands(s[c], f)
    BY DEF Standing
  <2>1. Same(q[c], s[c]) OBVIOUS
  <2>2. Stands(q[c], f) BY <2>1 DEF Kept, Standing, Succeeded, Same
  <2>3. Payload(s[c]) = Payload(q[c]) BY <2>1, PayloadAsRead DEF Same
  <2> QED BY <2>2, <2>3 DEF Stands
<1> QED BY <1>1, <1>2, <1>3 DEF Kept

(* An answer of a request that writes nothing.                             *)
LEMMA AnswerElsewhere ==
  ASSUME Safe, NEW c \in Clients, NEW tool, tool # "build_catalog", Ready(c, tool), NEW page,
         Reply(c, page) \/ ReplyError(c, page)
  PROVE  Safe'
<1> request[c].tool # "build_catalog" /\ catalogFile' = catalogFile
    /\ \/ request' = [request EXCEPT ![c].page = page]
       \/ request' = [request EXCEPT ![c].page = page, ![c].error = TRUE]
  BY DEF Ready, Reply, ReplyError
<1>1. c \notin catalogFile.writers BY DEF Safe, Kept, WritersWait, Writing
<1>2. Shape(request', catalogFile) /\ request'[c].tool # "build_catalog"
  BY DEF Safe, Kept, Shape, Idle
<1>3. \A d \in Clients \ {c} : request'[d] = request[d] BY DEF Safe, Kept, Shape
<1>4. Kept(request', catalogFile)
  BY <1>1, <1>2, <1>3, FileLeftAlone DEF Safe, Same, Succeeded
<1> QED BY <1>4 DEF Safe

(* A writer that is done, with success or without, leaves the file to the  *)
(* others; what is left to show is what its own answer says.               *)
LEMMA CloseKeeps ==
  ASSUME NEW q, NEW s, NEW f, NEW g, Kept(q, f), Shape(s, g), NEW c \in f.writers,
         g.writers = f.writers \ {c}, g.mixed = (f.mixed /\ f.writers # {c}),
         \A d \in Clients \ {c} : s[d] = q[d],
         Succeeded(s[c]) => Stands(s[c], g)
  PROVE  Kept(s, g)
<1>1. WritersWait(s, g) BY DEF Kept, WritersWait
<1>2. Alone(s, g) BY DEF Kept, Alone, WritersWait
<1>3. Unmixed(g) BY DEF Unmixed
<1>4. Standing(s, g)
  <2> SUFFICES ASSUME NEW d \in Clients, Succeeded(s[d]), d # c PROVE FALSE
    BY DEF Standing
  <2>1. Stands(q[d], f) BY DEF Kept, Standing
  <2> QED BY <2>1 DEF Stands
<1> QED BY <1>1, <1>2, <1>3, <1>4 DEF Kept

--------------------------------------------------------------------------------
(* At the start nobody writes and nobody has answered.                    *)
LEMMA InitSafe == Init => Safe
BY DEF Init, Safe, Kept, Shape, WritersWait, Alone, Unmixed, Standing, Succeeded, Idle

(* A new request has no answer yet and is no writer.                       *)
LEMMA BeginKeeps == ASSUME Safe, NEW c \in Clients, Begin(c) PROVE Safe'
<1>1. PICK call \in Offered[c] :
        request' = [request EXCEPT ![c] =
                      [Idle EXCEPT !.tool = call.tool, !.args = call.args, !.labels = language]]
  BY DEF Begin
<1>2. request[c].tool = "none" /\ catalogFile' = catalogFile BY DEF Begin
<1>3. c \notin catalogFile.writers BY <1>2 DEF Safe, Kept, WritersWait, Writing
<1>4. Shape(request', catalogFile) /\ request'[c].page = <<>>
  BY <1>1 DEF Safe, Kept, Shape, Idle
<1>5. \A d \in Clients \ {c} : request'[d] = request[d] BY <1>1 DEF Safe, Kept, Shape
<1>6. Kept(request', catalogFile)
  BY <1>3, <1>4, <1>5, FileLeftAlone DEF Safe, Same, Succeeded
<1> QED BY <1>2, <1>6 DEF Safe

(* A reading that fails is an error, any other leaves the page empty.      *)
LEMMA ReadKeeps == ASSUME Safe, NEW c \in Clients, Read(c) PROVE Safe'
<1>1. PICK read, ok, code :
        request' = [request EXCEPT ![c].read = read, ![c].error = ~ok,
                                   ![c].page = IF ok THEN <<>> ELSE Refused(code)]
  BY DEF Read
<1>2. Remaining(request[c]) # <<>> /\ catalogFile' = catalogFile BY DEF Read
<1>3. c \notin catalogFile.writers BY <1>2 DEF Safe, Kept, WritersWait, Writing
<1>4. Shape(request', catalogFile)
  BY <1>1 DEF Safe, Kept, Shape, Idle
<1>5. request'[c].page = (IF ok THEN <<>> ELSE Refused(code)) /\ request'[c].error = ~ok
  BY <1>1 DEF Safe, Kept, Shape, Idle
<1>6. \A d \in Clients \ {c} : request'[d] = request[d] BY <1>1 DEF Safe, Kept, Shape
<1>7. ~Succeeded(request'[c])
  <2>1. CASE ok BY <2>1, <1>5 DEF Succeeded
  <2>2. CASE ~ok BY <2>2, <1>5 DEF Succeeded
  <2> QED BY <2>1, <2>2
<1>8. \A d \in Clients \ {c} : Same(request[d], request'[d]) BY <1>6 DEF Same
<1>9. Kept(request', catalogFile) BY <1>3, <1>4, <1>7, <1>8, FileLeftAlone DEF Safe
<1> QED BY <1>2, <1>9 DEF Safe

(* What is noted of others' events changes no request otherwise.           *)
LEMMA NotedKeepsShape ==
  ASSUME Safe, NEW event, NEW own
  PROVE  /\ Shape(Noted(event, own), catalogFile)
         /\ \A d \in Clients :
              LET s == Noted(event, own)[d]
              IN  /\ s.tool = request[d].tool /\ s.args = request[d].args
                  /\ s.read = request[d].read /\ s.page = request[d].page
                  /\ s.error = request[d].error
                  /\ event # "write" => ("write" \in s.during <=> "write" \in request[d].during)
                  /\ event = "write" /\ request[d].tool # "none" /\ d \notin own
                        => "write" \in s.during
                  /\ d \in own => s = request[d]
BY DEF Noted, Safe, Kept, Shape, Idle

(* set_language notes itself with the others, which is no write.           *)
LEMMA SetLanguageKeeps == ASSUME Safe, NEW c \in Clients, SetLanguage(c) PROVE Safe'
<1> DEFINE noted == Noted("set_language", {c})
<1>1. PICK page : request' = [noted EXCEPT ![c].page = page] BY DEF SetLanguage
<1>2. request[c].tool = "set_language" /\ catalogFile' = catalogFile BY DEF SetLanguage, Ready
<1>3. c \notin catalogFile.writers BY <1>2 DEF Safe, Kept, WritersWait, Writing
<1>4. Shape(noted, catalogFile) /\ noted[c].tool = "set_language"
      /\ \A d \in Clients : Same(request[d], noted[d])
  BY <1>2, NotedKeepsShape DEF Same
<1>5. Shape(request', catalogFile) /\ request'[c].tool = "set_language"
      /\ \A d \in Clients \ {c} : request'[d] = noted[d]
  <2> HIDE DEF noted
  <2> QED BY <1>1, <1>4 DEF Shape, Idle
<1>6. ASSUME NEW d \in Clients
      PROVE  Same(request[d], request'[d]) \/ (d \notin catalogFile.writers /\ ~Succeeded(request'[d]))
  <2>1. CASE d = c BY <2>1, <1>3, <1>5 DEF Succeeded
  <2>2. CASE d # c BY <2>2, <1>4, <1>5 DEF Same
  <2> QED BY <2>1, <2>2
<1>7. Kept(request', catalogFile) BY <1>5, <1>6, FileLeftAlone DEF Safe
<1> QED BY <1>2, <1>7 DEF Safe

(* Nor is what happens to the host.                                        *)
LEMMA HappensKeeps ==
  ASSUME Safe, NEW event, event # "write", NEW changed, Happens(event, changed)
  PROVE  Safe'
<1>1. request' = Noted(event, {}) /\ catalogFile' = catalogFile BY DEF Happens
<1>2. Shape(request', catalogFile) /\ \A d \in Clients : Same(request[d], request'[d])
  BY <1>1, NotedKeepsShape DEF Same
<1>3. Kept(request', catalogFile) BY <1>2, FileLeftAlone DEF Safe
<1> QED BY <1>1, <1>3 DEF Safe

(* Who is delivered has answered, and no writer has.                       *)
LEMMA DeliveredKeeps == ASSUME Safe, NEW c \in Clients, Delivered(c) PROVE Safe'
<1>1. request[c].page # <<>> /\ request' = [request EXCEPT ![c] = Idle] /\ catalogFile' = catalogFile
  BY DEF Delivered
<1>2. c \notin catalogFile.writers BY <1>1 DEF Safe, Kept, WritersWait, Writing
<1>3. Shape(request', catalogFile) /\ request'[c].tool = "none"
      /\ \A d \in Clients \ {c} : request'[d] = request[d]
  BY <1>1 DEF Safe, Kept, Shape, Idle
<1>4. Kept(request', catalogFile)
  BY <1>2, <1>3, FileLeftAlone DEF Safe, Same, Succeeded
<1> QED BY <1>1, <1>4 DEF Safe

(* A crash leaves no request and no writer.                                *)
LEMMA CrashKeeps == ASSUME Safe, Crash PROVE Safe'
<1>1. /\ request' = [c \in Clients |-> Idle]
      /\ catalogFile' = [catalogFile EXCEPT !.writers = {}, !.mixed = FALSE]
  BY DEF Crash
<1>2. /\ DOMAIN catalogFile' = DOMAIN catalogFile /\ catalogFile'.writers = {}
      /\ ~catalogFile'.mixed
  BY <1>1 DEF Safe, Kept, Shape
<1>3. Kept(request', catalogFile')
  BY <1>1, <1>2 DEF Safe, Kept, Shape, WritersWait, Alone, Unmixed, Standing, Succeeded, Idle
<1> QED BY <1>3 DEF Safe

--------------------------------------------------------------------------------
(* The write of the catalog.  Who opens the file tells every other that    *)
(* waits or has answered; who opens it alone finds nobody to mix with.     *)
LEMMA WriteBeginKeeps == ASSUME Safe, NEW c \in Clients, WriteBegin(c) PROVE Safe'
<1> DEFINE noted == Noted("write", {c})
           told == IF catalogFile.writers = {} THEN {} ELSE {"write"}
<1>1. c \notin catalogFile.writers /\ Writing(request[c]) BY DEF WriteBegin, Ready, Writing
<1>2. CASE /\ catalogFile' = [content |-> <<>>, torn |-> TRUE,
                              writers |-> catalogFile.writers \union {c},
                              mixed   |-> catalogFile.mixed \/ catalogFile.writers # {}]
           /\ request' = [noted EXCEPT ![c].during = @ \union told]
  <2>1. /\ catalogFile'.writers = catalogFile.writers \union {c}
        /\ catalogFile'.mixed = (catalogFile.mixed \/ catalogFile.writers # {})
        /\ DOMAIN catalogFile' = {"content", "torn", "writers", "mixed"}
    BY <1>2
  <2>2. /\ Shape(noted, catalogFile)
        /\ noted[c] = request[c]
        /\ \A d \in Clients \ {c} :
              /\ noted[d].tool = request[d].tool /\ noted[d].args = request[d].args
              /\ noted[d].read = request[d].read /\ noted[d].page = request[d].page
              /\ request[d].tool # "none" => "write" \in noted[d].during
    BY NotedKeepsShape
  <2>3. /\ DOMAIN request' = Clients /\ \A d \in Clients : DOMAIN request'[d] = DOMAIN Idle
        /\ \A d \in Clients \ {c} : request'[d] = noted[d]
        /\ request'[c].tool = request[c].tool /\ request'[c].args = request[c].args
        /\ request'[c].read = request[c].read /\ request'[c].page = request[c].page
        /\ request'[c].during = request[c].during \union told
    <3> HIDE DEF noted, told
    <3> QED BY <1>2, <2>2 DEF Shape, Idle
  <2>4. \A d \in Clients \ {c} : request[d].tool = "build_catalog" => "write" \in request'[d].during
    BY <2>2, <2>3
  <2>5. WritersWait(request', catalogFile')
    <3> SUFFICES ASSUME NEW d \in catalogFile'.writers
                 PROVE  d \in Clients /\ Writing(request'[d])
      BY DEF WritersWait
    <3>1. d \in Clients /\ Writing(request[d]) BY <1>1, <2>1 DEF Safe, Kept, WritersWait
    <3>2. /\ request'[d].tool = request[d].tool /\ request'[d].args = request[d].args
          /\ request'[d].read = request[d].read /\ request'[d].page = request[d].page
      BY <2>2, <2>3, <3>1
    <3>3. Remaining(request'[d]) = Remaining(request[d]) BY <3>2, RemainingAsRead
    <3> QED BY <3>1, <3>2, <3>3 DEF Writing
  <2>6. Alone(request', catalogFile')
    <3> SUFFICES ASSUME NEW d \in catalogFile'.writers, "write" \notin request'[d].during
                 PROVE  catalogFile'.writers = {d} /\ ~catalogFile'.mixed
      BY DEF Alone
    <3>1. d \in Clients /\ request'[d].tool = "build_catalog" BY <2>5 DEF WritersWait, Writing
    <3>2. d = c BY <2>2, <2>3, <2>4, <3>1
    <3>3. catalogFile.writers = {} BY <2>3, <3>2
    <3> QED BY <2>1, <3>2, <3>3 DEF Safe, Kept, Unmixed
  <2>7. Unmixed(catalogFile') BY <2>1 DEF Unmixed
  <2>8. Standing(request', catalogFile')
    BY <1>1, <2>2, <2>3, <2>4 DEF Standing, Succeeded, Writing
  <2> QED BY <2>1, <2>3, <2>5, <2>6, <2>7, <2>8 DEF Safe, Kept, Shape
<1>3. CASE ReplyError(c, Refused("write-failed"))
  <2>1. /\ request' = [request EXCEPT ![c].page = Refused("write-failed"), ![c].error = TRUE]
        /\ catalogFile' = catalogFile
    BY <1>3 DEF ReplyError
  <2>2. Shape(request', catalogFile) /\ request'[c].error = TRUE
        /\ \A d \in Clients \ {c} : request'[d] = request[d]
    BY <2>1 DEF Safe, Kept, Shape, Idle
  <2>3. Kept(request', catalogFile)
    BY <1>1, <2>2, FileLeftAlone DEF Safe, Same, Succeeded
  <2> QED BY <2>1, <2>3 DEF Safe
<1> QED BY <1>2, <1>3 DEF WriteBegin

(* A success that was told of no other write closes the file it wrote.     *)
LEMMA WriteEndKeeps == ASSUME Safe, NEW c \in Clients, WriteEnd(c) PROVE Safe'
<1>1. c \in catalogFile.writers BY DEF WriteEnd
<1>2. PICK page : request' = [request EXCEPT ![c].page = page] BY DEF WriteEnd
<1>3. Shape(request', catalogFile) /\ request'[c].args = request[c].args
      /\ request'[c].read = request[c].read /\ request'[c].during = request[c].during
      /\ \A d \in Clients \ {c} : request'[d] = request[d]
  BY <1>2 DEF Safe, Kept, Shape, Idle
<1>4. /\ DOMAIN catalogFile' = {"content", "torn", "writers", "mixed"}
      /\ catalogFile'.writers = catalogFile.writers \ {c}
      /\ catalogFile'.mixed = (catalogFile.mixed /\ catalogFile.writers # {c})
      /\ ~catalogFile.mixed => catalogFile'.content = <<Payload(request[c])>> /\ ~catalogFile'.torn
  BY DEF WriteEnd, Closed, Safe, Kept, Shape
<1>5. ASSUME Succeeded(request'[c]) PROVE Stands(request'[c], catalogFile')
  <2>1. catalogFile.writers = {c} /\ ~catalogFile.mixed
    BY <1>1, <1>3, <1>5 DEF Safe, Kept, Alone, Succeeded
  <2>2. Payload(request'[c]) = Payload(request[c]) BY <1>3, PayloadAsRead
  <2> QED BY <1>4, <2>1, <2>2 DEF Stands
<1>6. Kept(request', catalogFile')
  BY <1>1, <1>3, <1>4, <1>5, CloseKeeps DEF Safe, Shape
<1> QED BY <1>6 DEF Safe

(* A failed write is no success.                                           *)
LEMMA WriteFailsKeeps == ASSUME Safe, NEW c \in Clients, WriteFails(c) PROVE Safe'
<1>1. c \in catalogFile.writers BY DEF WriteFails
<1>2. PICK page : request' = [request EXCEPT ![c].page = page, ![c].error = TRUE]
  BY DEF WriteFails
<1>3. Shape(request', catalogFile) /\ request'[c].error = TRUE
      /\ \A d \in Clients \ {c} : request'[d] = request[d]
  BY <1>2 DEF Safe, Kept, Shape, Idle
<1>4. /\ DOMAIN catalogFile' = {"content", "torn", "writers", "mixed"}
      /\ catalogFile'.writers = catalogFile.writers \ {c}
      /\ catalogFile'.mixed = (catalogFile.mixed /\ catalogFile.writers # {c})
  BY DEF WriteFails, Closed, Safe, Kept, Shape
<1>5. Kept(request', catalogFile')
  BY <1>1, <1>3, <1>4, CloseKeeps DEF Safe, Shape, Succeeded
<1> QED BY <1>5 DEF Safe

--------------------------------------------------------------------------------
(* No answer but build_catalog's touches the file.                         *)
LEMMA AnswerKeeps == ASSUME Safe, NEW c \in Clients, Answer(c) PROVE Safe'
<1>1. CASE GetLanguage(c) BY <1>1, AnswerElsewhere DEF GetLanguage
<1>2. CASE Status(c) BY <1>2, AnswerElsewhere DEF Status
<1>3. CASE ListLocalServers(c) BY <1>3, AnswerElsewhere DEF ListLocalServers
<1>4. CASE DescribeMcp(c) BY <1>4, AnswerElsewhere DEF DescribeMcp
<1>5. CASE ListTools(c) BY <1>5, AnswerElsewhere DEF ListTools
<1>6. CASE AssignToolBundles(c) BY <1>6, AnswerElsewhere DEF AssignToolBundles
<1>7. CASE ListBundles(c) BY <1>7, AnswerElsewhere DEF ListBundles
<1>8. CASE SuggestBundles(c) BY <1>8, AnswerElsewhere DEF SuggestBundles
<1>9. CASE ListProfiles(c) BY <1>9, AnswerElsewhere DEF ListProfiles
<1>10. CASE SuggestProfileFor(c) BY <1>10, AnswerElsewhere DEF SuggestProfileFor
<1>11. CASE ResolveProfile(c) BY <1>11, AnswerElsewhere DEF ResolveProfile
<1>12. CASE SwitchProfile(c) BY <1>12, AnswerElsewhere DEF SwitchProfile
<1>13. CASE AuditProfile(c) BY <1>13, AnswerElsewhere DEF AuditProfile
<1>14. CASE ListStacks(c) BY <1>14, AnswerElsewhere DEF ListStacks
<1>15. CASE DescribeStackFor(c) BY <1>15, AnswerElsewhere DEF DescribeStackFor
<1>16. CASE ContextPack(c) BY <1>16, AnswerElsewhere DEF ContextPack
<1>17. CASE FindCapability(c) BY <1>17, AnswerElsewhere DEF FindCapability
<1>18. CASE ToolOverview(c) BY <1>18, AnswerElsewhere DEF ToolOverview
<1>19. CASE ListSkills(c) BY <1>19, AnswerElsewhere DEF ListSkills
<1>20. CASE FindSkill(c) BY <1>20, AnswerElsewhere DEF FindSkill
<1>21. CASE SemanticRoute(c) BY <1>21, AnswerElsewhere DEF SemanticRoute
<1>22. CASE ListPlugins(c) BY <1>22, AnswerElsewhere DEF ListPlugins
<1>23. CASE ListLocksFor(c) BY <1>23, AnswerElsewhere DEF ListLocksFor
<1>24. CASE CheckLockFor(c) BY <1>24, AnswerElsewhere DEF CheckLockFor
<1>25. CASE EvaluatePermissionFor(c) BY <1>25, AnswerElsewhere DEF EvaluatePermissionFor
<1>26. CASE ListDecisionsFor(c) BY <1>26, AnswerElsewhere DEF ListDecisionsFor
<1>27. CASE ListGovernanceFor(c) BY <1>27, AnswerElsewhere DEF ListGovernanceFor
<1>28. CASE ListResourcesFor(c) BY <1>28, AnswerElsewhere DEF ListResourcesFor
<1>29. CASE DescribeResourceFor(c) BY <1>29, AnswerElsewhere DEF DescribeResourceFor
<1>30. CASE ListAvailableTools(c) BY <1>30, AnswerElsewhere DEF ListAvailableTools
<1>31. CASE Invoke(c) BY <1>31, AnswerElsewhere DEF Invoke
<1>32. CASE ActualSelfReceipt(c) BY <1>32, AnswerElsewhere DEF ActualSelfReceipt
<1>33. CASE SetLanguage(c) BY <1>33, SetLanguageKeeps
<1>34. CASE WriteBegin(c) BY <1>34, WriteBeginKeeps
<1>35. CASE WriteEnd(c) BY <1>35, WriteEndKeeps
<1>36. CASE WriteFails(c) BY <1>36, WriteFailsKeeps
<1> QED
  BY <1>1, <1>2, <1>3, <1>4, <1>5, <1>6, <1>7, <1>8, <1>9, <1>10, <1>11,
     <1>12, <1>13, <1>14, <1>15, <1>16, <1>17, <1>18, <1>19, <1>20, <1>21,
     <1>22, <1>23, <1>24, <1>25, <1>26, <1>27, <1>28, <1>29, <1>30, <1>31,
     <1>32, <1>33, <1>34, <1>35, <1>36 DEF Answer

(* Every step of the server, of a request or of the host keeps the         *)
(* invariant.                                                              *)
THEOREM SafeIsInductive == ASSUME Safe, [Next]_vars PROVE Safe'
<1>1. ASSUME NEW c \in Clients, Begin(c) PROVE Safe' BY <1>1, BeginKeeps
<1>2. ASSUME NEW c \in Clients, Read(c) PROVE Safe' BY <1>2, ReadKeeps
<1>3. ASSUME NEW c \in Clients, Answer(c) PROVE Safe' BY <1>3, AnswerKeeps
<1>4. ASSUME NEW c \in Clients, Delivered(c) PROVE Safe' BY <1>4, DeliveredKeeps
<1>5. CASE Crash BY <1>5, CrashKeeps
<1>6. CASE Upgrade BY <1>6, HappensKeeps DEF Upgrade
<1>7. CASE Decide BY <1>7, HappensKeeps DEF Decide
<1>8. CASE Reindex BY <1>8, HappensKeeps DEF Reindex
<1>9. CASE UNCHANGED vars BY <1>9 DEF vars, Safe
<1> QED BY <1>1, <1>2, <1>3, <1>4, <1>5, <1>6, <1>7, <1>8, <1>9 DEF Next

(* However requests, crashes and the host interleave: build_catalog says   *)
(* that it wrote the catalog only if the file holds what it read, unless   *)
(* another request has written the file at the same time or since          *)
(* (src/src/index.ts:1008).                                                *)
THEOREM SuccessIsWritten == Spec => []SuccessMeansWritten
<1>1. Safe => SuccessMeansWritten
  BY DEF Safe, Kept, Standing, Succeeded, Stands, SuccessMeansWritten, Answered
<1> QED BY <1>1, InitSafe, SafeIsInductive, PTL DEF Spec

--------------------------------------------------------------------------------
(* What orders a set and cuts a sequence.                                  *)
(* What comes before what is a strict order of all elements.               *)
Strict(S, before) ==
    /\ before \in [S -> SUBSET S]
    /\ \A x \in S : x \notin before[x]
    /\ \A x, y \in S : x \in before[y] => before[x] \subseteq before[y]
    /\ \A x, y \in S : x = y \/ x \in before[y] \/ y \in before[x]

(* The sequence t of the elements of S, in that order.                     *)
Arranges(t, S, before) ==
    /\ Cardinality(S) \in Nat
    /\ t \in Seq(S) /\ Len(t) = Cardinality(S)
    /\ \A i, j \in 1..Cardinality(S) : i < j => t[i] \in before[t[j]]
    /\ \A x \in S : \E i \in 1..Cardinality(S) : t[i] = x

(* Each number of elements that come before one is the place of just one  *)
(* element: the sequence that Ordered makes is the set in that order.      *)
LEMMA RanksAreAnOrder ==
  ASSUME NEW S, IsFiniteSet(S), NEW before, Strict(S, before), NEW t, t = Ordered(S, before)
  PROVE  Arranges(t, S, before)
<1> /\ before \in [S -> SUBSET S]
    /\ \A x \in S : x \notin before[x]
    /\ \A x, y \in S : x \in before[y] => before[x] \subseteq before[y]
    /\ \A x, y \in S : x = y \/ x \in before[y] \/ y \in before[x]
  BY DEF Strict
<1> PICK n : n = Cardinality(S) OBVIOUS
<1> DEFINE rank == [x \in S |-> Cardinality(before[x]) + 1]
<1> t = [i \in 1..n |-> CHOOSE x \in S : Cardinality(before[x]) = i - 1] BY DEF Ordered
<1>1. n \in Nat BY FS_CardinalityType
<1>2. \A x \in S : IsFiniteSet(before[x]) /\ Cardinality(before[x]) \in Nat
  BY FS_Subset, FS_CardinalityType
<1>3. ASSUME NEW x \in S, NEW y \in S, x \in before[y]
      PROVE  Cardinality(before[x]) < Cardinality(before[y])
  <2>1. before[x] \in SUBSET before[y] /\ before[x] # before[y] BY <1>3
  <2>2. IsFiniteSet(before[y]) BY <1>2
  <2>3. /\ Cardinality(before[x]) <= Cardinality(before[y])
        /\ Cardinality(before[x]) # Cardinality(before[y])
    BY <2>1, <2>2, FS_Subset
  <2> QED BY <1>2, <2>3
<1>4. \A x \in S : Cardinality(before[x]) < n
  <2> SUFFICES ASSUME NEW x \in S PROVE Cardinality(before[x]) < n OBVIOUS
  <2>1. before[x] \in SUBSET S /\ before[x] # S OBVIOUS
  <2>2. Cardinality(before[x]) <= n /\ Cardinality(before[x]) # n BY <2>1, FS_Subset
  <2> QED BY <1>1, <1>2, <2>2
<1>5. rank \in Injection(S, 1..n)
  <2>1. rank \in [S -> 1..n] BY <1>1, <1>2, <1>4
  <2>2. \A x, y \in S : rank[x] = rank[y] => x = y BY <1>2, <1>3
  <2> QED BY <2>1, <2>2 DEF Injection, IsInjective
<1>6. \A i \in 1..n : \E x \in S : rank[x] = i
  <2>1. IsFiniteSet(1..n) /\ Cardinality(1..n) = n BY <1>1, FS_Interval
  <2>2. rank \in Surjection(S, 1..n)
    <3> HIDE DEF rank
    <3> QED BY <1>5, <2>1, FS_Injection
  <2> QED BY <2>2 DEF Surjection
<1>7. \A i \in 1..n : t[i] \in S /\ Cardinality(before[t[i]]) = i - 1
  <2> SUFFICES ASSUME NEW i \in 1..n PROVE t[i] \in S /\ Cardinality(before[t[i]]) = i - 1 OBVIOUS
  <2>1. PICK x \in S : rank[x] = i BY <1>6
  <2>2. Cardinality(before[x]) = i - 1 BY <1>1, <1>2, <2>1
  <2>3. t[i] = CHOOSE y \in S : Cardinality(before[y]) = i - 1 OBVIOUS
  <2> QED BY <2>2, <2>3
<1>8. t \in Seq(S) /\ Len(t) = n
  <2>1. t = [i \in 1..n |-> t[i]] OBVIOUS
  <2> HIDE DEF rank
  <2> QED BY <1>1, <1>7, <2>1, IsASeq
<1>9. ASSUME NEW i \in 1..n, NEW j \in 1..n, i < j PROVE t[i] \in before[t[j]]
  <2>1. t[i] \in S /\ t[j] \in S BY <1>7
  <2>2. Cardinality(before[t[i]]) = i - 1 /\ Cardinality(before[t[j]]) = j - 1 BY <1>7
  <2>3. t[i] # t[j]
    <3>1. i - 1 # j - 1 BY <1>1, <1>9
    <3> QED BY <2>2, <3>1
  <2>4. t[j] \notin before[t[i]]
    <3> SUFFICES ASSUME t[j] \in before[t[i]] PROVE FALSE OBVIOUS
    <3>1. Cardinality(before[t[j]]) < Cardinality(before[t[i]]) BY <1>3, <2>1
    <3> QED BY <1>1, <1>9, <2>2, <3>1
  <2> QED BY <2>1, <2>3, <2>4
<1>10. ASSUME NEW x \in S PROVE \E i \in 1..n : t[i] = x
  <2>1. PICK i : i = Cardinality(before[x]) + 1 OBVIOUS
  <2>2. i \in 1..n BY <1>1, <1>2, <1>4, <2>1
  <2>3. t[i] \in S /\ Cardinality(before[t[i]]) = Cardinality(before[x]) BY <1>1, <1>2, <1>7, <2>1, <2>2
  <2>4. x \notin before[t[i]] /\ t[i] \notin before[x]
    <3>1. x \in before[t[i]] => Cardinality(before[x]) < Cardinality(before[t[i]]) BY <1>3, <2>3
    <3>2. t[i] \in before[x] => Cardinality(before[t[i]]) < Cardinality(before[x]) BY <1>3, <2>3
    <3> QED BY <1>2, <2>3, <3>1, <3>2
  <2> QED BY <2>2, <2>3, <2>4
<1> QED BY <1>1, <1>8, <1>9, <1>10 DEF Arranges

(* Finitely many numbers, the least first.                                 *)
LEMMA NumbersInOrder ==
  ASSUME NEW S \in SUBSET Int, IsFiniteSet(S), NEW t, t = Increasing(S)
  PROVE  /\ Cardinality(S) \in Nat
         /\ t \in Seq(S) /\ Len(t) = Cardinality(S)
         /\ \A i, j \in 1..Cardinality(S) : i < j => t[i] < t[j]
         /\ \A x \in S : \E i \in 1..Cardinality(S) : t[i] = x
<1> PICK before : before = [x \in S |-> {y \in S : y < x}] OBVIOUS
<1>1. before \in [S -> SUBSET S] OBVIOUS
<1>2. \A x \in S : before[x] = {y \in S : y < x} OBVIOUS
<1>3. \A x \in S : x \notin before[x] BY <1>2
<1>4. \A x, y \in S : x \in before[y] => before[x] \subseteq before[y]
  <2> SUFFICES ASSUME NEW x \in S, NEW y \in S, x \in before[y], NEW z \in before[x]
               PROVE  z \in before[y]
    OBVIOUS
  <2>1. z \in S /\ z < x /\ x < y BY <1>2
  <2>2. z < y BY <2>1
  <2> QED BY <1>2, <2>1, <2>2
<1>5. \A x, y \in S : x = y \/ x \in before[y] \/ y \in before[x] BY <1>2
<1>6. t = Ordered(S, before) BY DEF Increasing
<1>7. Arranges(t, S, before)
  <2>1. Strict(S, before) BY <1>1, <1>3, <1>4, <1>5 DEF Strict
  <2> QED BY <1>6, <2>1, RanksAreAnOrder
<1>8. \A i \in 1..Cardinality(S) : t[i] \in S BY <1>7, ElementOfSeq DEF Arranges
<1> QED BY <1>2, <1>7, <1>8 DEF Arranges

(* The entries at finitely many places of a sequence are a sequence of     *)
(* its entries.                                                            *)
LEMMA EntriesAtPlaces ==
  ASSUME NEW places \in SUBSET Int, IsFiniteSet(places), NEW s, NEW e, e = AtPlaces(s, places)
  PROVE  /\ Cardinality(places) \in Nat /\ DOMAIN e = 1..Cardinality(places)
         /\ \A k \in DOMAIN e : \E i \in places : e[k] = s[i]
<1> PICK t : t = Increasing(places) OBVIOUS
<1> PICK n : n = Cardinality(places) OBVIOUS
<1>1. n \in Nat /\ t \in Seq(places) /\ Len(t) = n BY NumbersInOrder
<1>2. e = [k \in 1..n |-> s[t[k]]] BY DEF AtPlaces
<1>3. \A k \in 1..n : t[k] \in places BY <1>1, ElementOfSeq
<1> QED BY <1>1, <1>2, <1>3

(* The smaller one of two numbers.                                         *)
LEMMA LeastOfTwo == \A a, b \in Int : Min({a, b}) = IF a <= b THEN a ELSE b
<1> SUFFICES ASSUME NEW a \in Int, NEW b \in Int PROVE Min({a, b}) = IF a <= b THEN a ELSE b
  OBVIOUS
<1> PICK m : m = IF a <= b THEN a ELSE b OBVIOUS
<1>1. m \in {a, b} /\ \A y \in {a, b} : m =< y OBVIOUS
<1>2. \A x \in {a, b} : (\A y \in {a, b} : x =< y) => x = m OBVIOUS
<1> QED BY <1>1, <1>2 DEF Min

(* And the larger one.                                                     *)
LEMMA MostOfTwo == \A a, b \in Int : Max({a, b}) = IF a <= b THEN b ELSE a
<1> SUFFICES ASSUME NEW a \in Int, NEW b \in Int PROVE Max({a, b}) = IF a <= b THEN b ELSE a
  OBVIOUS
<1> PICK m : m = IF a <= b THEN b ELSE a OBVIOUS
<1>1. m \in {a, b} /\ \A y \in {a, b} : m >= y OBVIOUS
<1>2. \A x \in {a, b} : (\A y \in {a, b} : x >= y) => x = m OBVIOUS
<1> QED BY <1>1, <1>2 DEF Max

(* A non-empty set of numbers has a least one.                             *)
LEMMA FirstOfNumbers == ASSUME NEW S \in SUBSET Nat, S # {} PROVE Min(S) \in S
<1> DEFINE R == {ss \in Nat \X Nat : ss[1] < ss[2]}
<1>1. IsWellFoundedOn(R, Nat) BY NatLessThanWellFounded, Zenon DEF OpToRel
<1>2. \A y, z \in Nat : y < z => <<y, z>> \in R OBVIOUS
<1> HIDE DEF R
<1>3. PICK x \in S : \A y \in S : <<y, x>> \notin R BY <1>1, WFMin
<1>4. \A y \in S : x <= y
  <2> TAKE y \in S
  <2>1. x \in Nat /\ y \in Nat OBVIOUS
  <2>2. ~(y < x) BY <1>2, <1>3, <2>1
  <2> QED BY <2>1, <2>2
<1> QED BY <1>4 DEF Min

(* The part of a sequence that a limit lets through.                       *)
LEMMA CutToLimit ==
  ASSUME NEW S, NEW s \in Seq(S), NEW limit \in Nat \ {0}, NEW part,
         part = SubSeq(s, 1, Min({limit, Len(s)}))
  PROVE  /\ Len(part) = IF Len(s) <= limit THEN Len(s) ELSE limit
         /\ Len(s) > 0 => part[1] = s[1]
<1> PICK n : n = Min({limit, Len(s)}) OBVIOUS
<1>1. Len(s) \in Nat /\ n \in Nat /\ n <= Len(s) /\ n = IF Len(s) <= limit THEN Len(s) ELSE limit
  BY LenProperties, LeastOfTwo
<1>2. \A i \in 1..n : s[i] \in S BY <1>1, ElementOfSeq
<1>3. /\ Len(part) = IF 1 <= n THEN n - 1 + 1 ELSE 0
      /\ \A i \in 1..(n - 1 + 1) : part[i] = s[1 + i - 1]
  BY <1>1, <1>2, SubSeqProperties
<1>4. Len(s) > 0 => 1 \in 1..(n - 1 + 1) BY <1>1
<1> QED BY <1>1, <1>3, <1>4

(* That part begins the sequence.                                          *)
Begins(part, s) == DOMAIN part = 1..Len(part) /\ \A i \in DOMAIN part : part[i] = s[i]

LEMMA FirstOfThem ==
  ASSUME NEW S, NEW s \in Seq(S), NEW limit \in Nat \ {0}, NEW part,
         part = SubSeq(s, 1, Min({limit, Len(s)}))
  PROVE  Begins(part, s)
<1> PICK n : n = Min({limit, Len(s)}) OBVIOUS
<1>1. n \in Nat /\ n <= Len(s) /\ Len(s) \in Nat BY LenProperties, LeastOfTwo
<1>2. \A i \in 1..n : s[i] \in S BY <1>1, ElementOfSeq
<1>3. SubSeq(s, 1, n) \in Seq(S)
  <2>1. 1 \in Int /\ n \in Int BY <1>1
  <2> QED BY <1>2, <2>1, SubSeqProperties, Zenon
<1>4. Len(SubSeq(s, 1, n)) = IF 1 <= n THEN n - 1 + 1 ELSE 0 BY <1>1, <1>2, SubSeqProperties
<1>5. \A i \in 1..(n - 1 + 1) : SubSeq(s, 1, n)[i] = s[1 + i - 1]
  BY <1>1, <1>2, SubSeqProperties
<1>6. part = SubSeq(s, 1, n) OBVIOUS
<1>7. DOMAIN part = 1..Len(part) BY <1>3, <1>6, LenProperties
<1>8. Len(part) = n BY <1>1, <1>4, <1>6
<1>9. ASSUME NEW i \in 1..n PROVE part[i] = s[i]
  <2>1. i \in 1..(n - 1 + 1) /\ 1 + i - 1 = i BY <1>1
  <2> QED BY <1>5, <1>6, <2>1
<1> QED BY <1>7, <1>8, <1>9 DEF Begins

(* The image of a finite set.                                              *)
LEMMA ImageIsFinite ==
  ASSUME NEW f, IsFiniteSet(DOMAIN f)
  PROVE  IsFiniteSet({f[x] : x \in DOMAIN f})
<1> PICK S, T, g : S = DOMAIN f /\ T = {f[x] : x \in DOMAIN f} /\ g = [x \in S |-> f[x]] OBVIOUS
<1>1. g \in Surjection(S, T) BY DEF Surjection
<1> QED BY <1>1, FS_Surjection

(* The entries of a sequence are finitely many.                            *)
LEMMA FewElements == ASSUME NEW S, NEW s \in Seq(S) PROVE IsFiniteSet(Elements(s)) /\ Elements(s) \subseteq S
<1>1. Len(s) \in Nat /\ DOMAIN s = 1..Len(s) BY LenProperties
<1>2. IsFiniteSet(DOMAIN s) BY <1>1, FS_Interval
<1>3. \A i \in DOMAIN s : s[i] \in S BY <1>1, ElementOfSeq
<1> QED BY <1>2, <1>3, ImageIsFinite DEF Elements

--------------------------------------------------------------------------------
(* A scan of locks that is told to be complete had an answer and reached   *)
(* every root in time.                                                     *)
LEMMA LocksAsTold ==
  ASSUME NEW roots, NEW scans, DOMAIN scans \subseteq Nat \ {0}, NEW bridge \in {"answered", "failed"},
         FormatLockList(ListLocks(roots, scans, bridge)).shows.complete
  PROVE  /\ bridge = "answered" /\ roots.state = "list"
         /\ \A s \in Elements(scans) : s.readable /\ ~s.late
<1>1. ListLocks(roots, scans, bridge).verdict = "complete"
  BY DEF FormatLockList, Plain, Part
<1>2. bridge = "answered" /\ CmdListLocks(roots, scans).verdict = "complete"
  BY <1>1 DEF ListLocks, Ask, Unknown
<1>3. roots.state = "list" /\ DOMAIN scans \ Scanned(scans) = {}
  BY <1>2 DEF CmdListLocks, Unknown
<1>4. \A i \in DOMAIN scans : scans[i].readable /\ \A j \in 1..i : ~scans[j].late
  BY <1>3 DEF Scanned
<1>5. \A i \in DOMAIN scans : i \in 1..i
  OBVIOUS
<1> QED BY <1>2, <1>3, <1>4, <1>5 DEF Elements

(* A path is told to be clear only on the word of the register.            *)
LEMMA CheckAsTold ==
  ASSUME NEW scripts, NEW reply, NEW bridge \in {"answered", "failed"},
         scripts.state \in {"unconfigured", "list"},
         Field(reply, "safe", FALSE) => reply.verdict = "clear",
         NEW told, told = FormatLockCheck(CheckLock(scripts, reply, bridge)).shows,
         told.safe \/ told.banner = "clear"
  PROVE  bridge = "answered" /\ scripts.state = "list" /\ reply.verdict = "clear"
BY DEF FormatLockCheck, CheckLock, Ask, Unknown, VerdictBanner, Field, Plain, Part

(* An action is told to be allowed only where a register says so.          *)
LEMMA PermissionAsTold ==
  ASSUME NEW scripts, NEW place, NEW bridge \in {"answered", "failed"},
         scripts.state \in {"unconfigured", "list"},
         FormatPermission(EvaluatePermission(scripts, place, bridge)).shows = "allow"
  PROVE  /\ bridge = "answered" /\ scripts.state = "list" /\ place.exists
         /\ \E r \in Elements(place.registers) : r = "allow"
<1>1. EvaluatePermission(scripts, place, bridge).verdict = "allow"
  BY DEF FormatPermission, Plain, Part
<1>2. bridge = "answered" /\ scripts.state = "list" /\ CmdEvaluatePermission(place).verdict = "allow"
  BY <1>1 DEF EvaluatePermission, Ask, Unknown
<1> QED BY <1>2 DEF CmdEvaluatePermission, Unknown, Elements

(* What may be the matter with the registers that a list is made of.       *)
IndexStates == {"unconfigured", "rootless", "absent", "unreadable", "list"}

RegisterStates == {"unconfigured", "unreadable", "invalid", "list"}

(* A list of decisions that is told to be current was read, from an index  *)
(* that has every decision of its sources.                                 *)
LEMMA DecisionsAsTold ==
  ASSUME NEW index, index.state \in IndexStates, NEW chain, NEW bridge, NEW limit, NEW told,
         told = FormatDecisions(ListDecisions(index, chain, bridge, limit)).shows,
         ~told.reason, ~told.stale
  PROVE  index.state = "list" /\ chain.decided <= chain.indexed
<1> DEFINE result == ListDecisions(index, chain, bridge, limit)
<1>1. result.verdict \in {"ok", "stale"} /\ result.verdict # "stale"
  <2>1. told.reason = (result.verdict \notin {"ok", "stale"}) /\ told.stale = (result.verdict = "stale")
    BY DEF FormatDecisions, Plain, Part
  <2> QED BY <2>1
<1>2. index.state # "unconfigured" /\ CmdListDecisions(index, chain, limit).verdict = "ok"
  BY <1>1 DEF ListDecisions, Ask, Unknown
<1> QED BY <1>2 DEF CmdListDecisions, Unknown, IndexStates

(* So is the one in an answer about governance, which is complete only     *)
(* when each of its three sources could be read.                           *)
LEMMA GovernanceAsTold ==
  ASSUME NEW index, index.state \in IndexStates, NEW chain, NEW registry, NEW plans,
         registry.state \in RegisterStates, plans.state \in RegisterStates,
         NEW bridge \in {"answered", "failed"}, NEW limit, NEW told,
         told = FormatGovernance(ListGovernance(index, chain, registry, plans, bridge, limit)).shows
  PROVE  /\ told.status["decisions"] = "available" /\ ~told.stale =>
              index.state = "list" /\ chain.decided <= chain.indexed
         /\ told.complete =>
              /\ bridge = "answered"
              /\ index.state = "list" /\ registry.state = "list" /\ plans.state = "list"
<1> DEFINE result == ListGovernance(index, chain, registry, plans, bridge, limit)
           decisions == GovernanceDecisions(index, chain, limit)
<1>1. told.complete = (result.verdict = "complete")
      /\ told.stale = Field(result.sources.decisions, "stale", FALSE)
      /\ told.status = [s \in DOMAIN result.sources |-> result.sources[s].status]
  BY DEF FormatGovernance, Plain, Part
<1>2. decisions.status = "available" =>
        /\ index.state = "list" /\ decisions.stale = (CmdListDecisions(index, chain, limit).verdict = "stale")
        /\ "stale" \in DOMAIN decisions
        /\ CmdListDecisions(index, chain, limit).verdict \in {"ok", "stale"}
  <2>1. index.state # "list" /\ index.state # "unconfigured" =>
           CmdListDecisions(index, chain, limit).verdict \notin {"ok", "stale"}
    BY DEF CmdListDecisions, Unknown, IndexStates
  <2> QED BY <2>1 DEF GovernanceDecisions, NotAvailable
<1>3. CmdListDecisions(index, chain, limit).verdict = "ok" /\ index.state = "list" =>
        chain.decided <= chain.indexed
  BY DEF CmdListDecisions
<1>4. /\ GovernanceRegistry(registry, limit).status = "available" => registry.state = "list"
      /\ GovernancePlans(plans, limit).status = "available" => plans.state = "list"
  BY DEF GovernanceRegistry, GovernancePlans, NotAvailable, RegisterStates
<1>5. CASE bridge = "failed" \/ {index.state, registry.state, plans.state} = {"unconfigured"}
  <2>1. result = EmptyGovernance(index, registry, plans) BY <1>5 DEF ListGovernance
  <2>2. result.verdict = "unknown" /\ "decisions" \in DOMAIN result.sources
        /\ result.sources["decisions"].status # "available"
    BY <2>1 DEF EmptyGovernance, NotAvailable
  <2> QED BY <1>1, <2>2
<1>6. CASE bridge # "failed" /\ {index.state, registry.state, plans.state} # {"unconfigured"}
  <2> DEFINE sources == [decisions |-> decisions, registry |-> GovernanceRegistry(registry, limit),
                         plans |-> GovernancePlans(plans, limit)]
             available == {s \in DOMAIN sources : sources[s].status = "available"}
  <2>1. result = CmdListGovernance(index, chain, registry, plans, limit) BY <1>6 DEF ListGovernance
  <2>2. result.sources = sources
        /\ result.verdict = (IF available = DOMAIN sources THEN "complete"
                             ELSE IF available # {} THEN "partial" ELSE "unknown")
    BY <2>1 DEF CmdListGovernance
  <2>3. DOMAIN sources = {"decisions", "registry", "plans"} /\ sources["decisions"] = decisions
        /\ sources["registry"] = GovernanceRegistry(registry, limit)
        /\ sources["plans"] = GovernancePlans(plans, limit)
    OBVIOUS
  <2> HIDE DEF result, decisions, sources
  <2>4. told.complete => \A s \in {"decisions", "registry", "plans"} : sources[s].status = "available"
    BY <1>1, <2>2, <2>3
  <2>5. told.status["decisions"] = decisions.status /\ result.sources.decisions = decisions
    BY <1>1, <2>2, <2>3
  <2>6. told.complete =>
           /\ bridge = "answered"
           /\ index.state = "list" /\ registry.state = "list" /\ plans.state = "list"
    BY <1>2, <1>4, <1>6, <2>3, <2>4
  <2>7. told.status["decisions"] = "available" /\ ~told.stale =>
           index.state = "list" /\ chain.decided <= chain.indexed
    BY <1>1, <1>2, <1>3, <2>5 DEF Field
  <2> QED BY <2>6, <2>7
<1> QED BY <1>5, <1>6

(* A complete listing of tools heard every server that was asked for.      *)
LEMMA GatewayAsTold ==
  ASSUME NEW scope, NEW asked, NEW name,
         FormatGatewayToolListing(ListGatewayTools(scope, asked, name)).shows.complete
  PROVE  /\ ~scope.error
         /\ \A s \in scope.targets : name \in {0, s} => asked[s].status = "ok"
<1>1. ListGatewayTools(scope, asked, name).complete
  BY DEF FormatGatewayToolListing, Plain, Part
<1>2. ~scope.error
  BY <1>1 DEF ListGatewayTools
<1>3. ASSUME NEW s \in scope.targets, name \in {0, s} PROVE asked[s].status = "ok"
  <2> DEFINE selected == IF name = 0 THEN scope.targets ELSE scope.targets \intersect {name}
             status(t) == IF asked[t].status \in {"ok", "unsupported"} THEN asked[t].status
                          ELSE "unreachable"
             row(t) == [server |-> t, status |-> status(t), tools |-> DOMAIN asked[t].tools,
                        toolCount |-> IF status(t) = "ok" THEN Cardinality(DOMAIN asked[t].tools) ELSE -1]
  <2>1. \A q \in {row(t) : t \in selected} : q.status = "ok"
    BY <1>1, <1>2 DEF ListGatewayTools
  <2>2. row(s) \in {row(t) : t \in selected} /\ row(s).status = status(s)
    BY <1>3
  <2>3. status(s) = "ok" BY <2>1, <2>2
  <2> QED BY <2>3
<1> QED BY <1>2, <1>3

(* What a receipt says, when its inputs were accepted.                     *)
LEMMA ReceiptAsTold ==
  ASSUME NEW config, NEW key, NEW version, NEW probe, NEW receipt,
         CheckConfig(config).ok, CheckKey(config, key).ok, CheckProbe(probe).ok,
         receipt = Plain("receipt", ProduceActualSelfReceipt(config, key, version, probe)).shows
  PROVE  /\ receipt.host = "native" /\ receipt.signedWith = config.pin
         /\ receipt.expiresAfter \in 1..MaxTtlSeconds
         /\ "controlcenter_actual_self_receipt" \in receipt.readback.tools
         /\ receipt.readback.version = version.release /\ receipt.probed = probe.release
BY DEF CheckConfig, ParseConfig, CheckKey, CheckProbe, ProduceActualSelfReceipt, Plain, Part, Ok, Error

(* The rule files the program may find.                                    *)
PolicyFile(file) ==
    /\ file.state \in {"absent", "unreadable", "notJson", "notList", "list"}
    /\ file.state = "list" =>
         \A e \in Elements(file.entries) : e.enabled \in {"unset", "bad", "true", "false"}

(* What a server matches is found, unless an accepted file switched the    *)
(* rule off.                                                               *)
LEMMA AuditAsTold ==
  ASSUME NEW servers, NEW file, PolicyFile(file), LoadPolicyRules(file).ok,
         NEW findings, findings = AuditResolvedProfile(servers, LoadPolicyRules(file).value),
         NEW s \in DOMAIN servers, NEW r \in Matches(servers[s])
  PROVE  \/ \E f \in findings : f.rule = r /\ f.server = s
         \/ /\ file.state = "list"
            /\ \A e \in Elements(file.entries) : e.id \in RuleIds
            /\ \E e \in Elements(file.entries) : e.id = r /\ e.enabled = "false"
<1> PICK rules : rules = LoadPolicyRules(file).value OBVIOUS
<1>1. r \in RuleIds BY DEF Matches, RuleIds
<1>2. CASE rules[r].enabled
  <2>1. Finding(rules, r, s) \in findings BY <1>1, <1>2 DEF AuditResolvedProfile
  <2> QED BY <2>1 DEF Finding
<1>3. CASE ~rules[r].enabled
  <2>1. \A q \in RuleIds : DefaultPolicyRules[q].enabled BY DEF DefaultPolicyRules
  <2>2. file.state = "list" /\ NormalizeOverrides(file.entries).ok
        /\ rules = ApplyOverrides(NormalizeOverrides(file.entries).value)
    BY <1>1, <1>3, <2>1 DEF LoadPolicyRules, PolicyFile, Ok, Error
  <2>3. NormalizeOverrides(file.entries) = Ok(file.entries)
        /\ \A i \in DOMAIN file.entries : ~Malformed(file.entries[i]) /\ file.entries[i].id \in RuleIds
    BY <2>2 DEF NormalizeOverrides, Error
  <2>4. rules = ApplyOverrides(file.entries) BY <2>2, <2>3 DEF Ok
  <2>5. PICK e \in Elements(file.entries) : e.id = r /\ rules[r] = Override(DefaultPolicyRules[r], e)
    BY <1>1, <1>3, <2>1, <2>4 DEF ApplyOverrides
  <2>6. e.enabled = "false"
    <3>1. e.enabled = "unset" => rules[r].enabled = DefaultPolicyRules[r].enabled
      BY <2>5 DEF Override
    <3>2. ASSUME e.enabled = "true" PROVE rules[r].enabled
      <4> DEFINE flag == IF e.enabled = "unset" THEN DefaultPolicyRules[r].enabled ELSE e.enabled = "true"
      <4>1. rules[r].enabled = flag BY <2>5 DEF Override
      <4>2. flag = TRUE BY <3>2
      <4> QED BY <4>1, <4>2
    <3>3. e.enabled \in {"unset", "bad", "true", "false"} BY <2>2 DEF PolicyFile
    <3>4. e.enabled # "bad" BY <2>3 DEF Malformed, Elements
    <3> QED BY <1>1, <1>3, <2>1, <3>1, <3>2, <3>3, <3>4
  <2> QED BY <2>2, <2>3, <2>5, <2>6 DEF Elements
<1> QED BY <1>2, <1>3

(* A name is verified by the one live skill that has it.                   *)
LEMMA VerifiedIsLive ==
  ASSUME NEW skills, NEW name, NEW s \in Verified(skills, name)
  PROVE  /\ s.deployed /\ s.hasSkillMd /\ Normalize(s.name) = Normalize(name)
         /\ \A o : (o \in skills /\ Normalize(o.name) = Normalize(s.name) /\ o.deployed /\ o.hasSkillMd)
                      <=> o = s
<1>1. s \in Live(skills, name) /\ Live(skills, name) = {s} BY DEF Verified
<1>2. s \in skills /\ s.hasSkillMd /\ s.deployed /\ Normalize(s.name) = Normalize(name)
  BY <1>1 DEF Live
<1>3. ASSUME NEW o \in skills, Normalize(o.name) = Normalize(s.name), o.deployed, o.hasSkillMd
      PROVE  o = s
  <2>1. o \in Live(skills, name) BY <1>2, <1>3 DEF Live
  <2> QED BY <1>1, <2>1
<1> QED BY <1>2, <1>3

(* A route's endpoints are verified skills, each declared by the chosen    *)
(* expert or the candidate of that expert that was confirmed.              *)
LEMMA RouteAsTold ==
  ASSUME NEW map, NEW skills, NEW options, NEW found, NEW route,
         found = ResolveSemanticRoute(map, skills, options), found.ok, route = found.value
  PROVE  /\ route.status = "resolved" <=> route.endpoints # {}
         /\ \A s \in route.endpoints : \E name :
              /\ s \in Verified(skills, name)
              /\ \/ name \in UNION {{d.skill : d \in Elements(e.endpoints)} : e \in route.selection.expert}
                 \/ /\ name = options.confirmed
                    /\ Normalize(name) \in {Normalize(n) :
                         n \in UNION {Elements(e.candidates) : e \in route.selection.expert}}
<1> PICK selection : selection = Selection(map, options) OBVIOUS
<1> PICK chosen : chosen = selection.value OBVIOUS
<1> DEFINE asked == selection.ok /\ chosen.expert # {} /\ options.confirmed # 0
           first == CHOOSE e \in chosen.expert : TRUE
<1>1. PICK confirmed :
        confirmed = IF asked THEN Confirmed(skills, first, options.confirmed) ELSE Ok({})
  OBVIOUS
<1>2. found = CASE ~selection.ok -> selection
                [] ~confirmed.ok -> confirmed
                [] OTHER -> Ok(RouteOf(map, skills, options, chosen, confirmed.value))
  BY <1>1 DEF ResolveSemanticRoute
<1>3. selection.ok /\ confirmed.ok /\ found = Ok(RouteOf(map, skills, options, chosen, confirmed.value))
  BY <1>2
<1>4. route = RouteOf(map, skills, options, chosen, confirmed.value) BY <1>3 DEF Ok
<1>5. PICK declared : declared = UNION {Elements(e.endpoints) : e \in chosen.expert} OBVIOUS
<1>6. route.selection = chosen BY <1>4 DEF RouteOf
<1>7. route.endpoints = (UNION {Verified(skills, d.skill) : d \in declared}) \union confirmed.value
  BY <1>4, <1>5 DEF RouteOf
<1>8. route.status = IF chosen.expert # {} THEN IF route.endpoints = {} THEN "gap" ELSE "resolved"
                     ELSE IF chosen.role # {} THEN "expert-selection-required"
                     ELSE "semantic-selection-required"
  BY <1>4, <1>5, <1>7 DEF RouteOf
<1>9. PICK offered :
        offered = UNION {{d.skill : d \in Elements(e.endpoints)} : e \in route.selection.expert}
  OBVIOUS
<1>10. PICK candidates :
         candidates = {Normalize(n) : n \in UNION {Elements(e.candidates) : e \in route.selection.expert}}
  OBVIOUS
<1>11. \A d \in declared : d.skill \in offered BY <1>5, <1>6, <1>9
<1>12. \A s \in confirmed.value :
         /\ s \in Verified(skills, options.confirmed) /\ Normalize(options.confirmed) \in candidates
         /\ chosen.expert # {}
  <2>1. CASE asked
    <3>1. first \in chosen.expert BY <2>1
    <3>2. confirmed = Confirmed(skills, first, options.confirmed) BY <1>1, <2>1
    <3> HIDE DEF first
    <3>3. /\ confirmed.value = Verified(skills, options.confirmed)
          /\ Normalize(options.confirmed) \in {Normalize(k) : k \in Elements(first.candidates)}
      BY <1>3, <3>2 DEF Confirmed, Ok, Error
    <3>4. Normalize(options.confirmed) \in candidates BY <1>6, <1>10, <3>1, <3>3
    <3> QED BY <2>1, <3>3, <3>4
  <2>2. CASE ~asked BY <1>1, <2>2 DEF Ok
  <2> QED BY <2>1, <2>2
<1>13. ASSUME NEW s \in route.endpoints
       PROVE  \E name : /\ s \in Verified(skills, name)
                        /\ name \in offered \/ (name = options.confirmed /\ Normalize(name) \in candidates)
  <2>1. CASE \E d \in declared : s \in Verified(skills, d.skill) BY <1>11, <2>1
  <2>2. CASE s \in confirmed.value BY <1>12, <2>2
  <2> QED BY <1>7, <1>13, <2>1, <2>2
<1>14. chosen.expert = {} => route.endpoints = {}
  <2>1. chosen.expert = {} => declared = {} BY <1>5
  <2> QED BY <1>7, <1>12, <2>1
<1>15. route.status = "resolved" <=> route.endpoints # {} BY <1>8, <1>14
<1> QED BY <1>9, <1>10, <1>13, <1>15

(* A list shows lines of its items, and counts those it leaves out.        *)
Counted(bullets, items) ==
    /\ Elements(bullets.shown) \subseteq Lines(items)
    /\ Cardinality(Lines(items) \ Elements(bullets.shown)) = bullets.omitted

LEMMA OmittedAreCounted ==
  ASSUME NEW items, IsFiniteSet(items), \A item \in items : item.line \in Nat,
         NEW bullets, bullets = BulletList(items)
  PROVE  Counted(bullets, items)
<1> PICK lines : lines = Lines(items) OBVIOUS
<1>1. IsFiniteSet(lines) /\ lines \in SUBSET Int
  <2> PICK f : f = [item \in items |-> EscapeMarkdown(item)] OBVIOUS
  <2>1. lines = {f[item] : item \in DOMAIN f} BY DEF Lines
  <2>2. IsFiniteSet(lines) BY <2>1, ImageIsFinite
  <2>3. \A item \in items : EscapeMarkdown(item) \in Int BY DEF EscapeMarkdown
  <2> QED BY <2>2, <2>3 DEF Lines
<1> PICK sorted : sorted = Increasing(lines) OBVIOUS
<1> PICK n : n = Cardinality(lines) OBVIOUS
<1>2. n \in Nat /\ sorted \in Seq(lines) /\ Len(sorted) = n BY <1>1, NumbersInOrder
<1>3. PICK part : part = SubSeq(sorted, 1, Min({MaxItemsPerGroup, Len(sorted)})) OBVIOUS
<1>4. PICK rest : rest = Max({0, Len(sorted) - MaxItemsPerGroup}) OBVIOUS
<1>5. bullets = [shown |-> part, omitted |-> rest] BY <1>3, <1>4 DEF BulletList
<1>6. bullets.shown = part /\ bullets.omitted = rest BY <1>5
<1>7. PICK k : k = IF n <= MaxItemsPerGroup THEN n ELSE MaxItemsPerGroup OBVIOUS
<1>8. k \in Nat /\ k <= n BY <1>2, <1>7, MaxItemsAssumption
<1>9. DOMAIN part = 1..k /\ \A i \in 1..k : part[i] = sorted[i]
  <2>1. MaxItemsPerGroup \in Nat \ {0} /\ sorted \in Seq(lines) BY <1>2, MaxItemsAssumption
  <2>2. Len(part) = IF Len(sorted) <= MaxItemsPerGroup THEN Len(sorted) ELSE MaxItemsPerGroup
    BY <1>3, <2>1, CutToLimit, Zenon
  <2>3. Begins(part, sorted) BY <1>3, <2>1, FirstOfThem, Zenon
  <2>4. Len(part) = k BY <1>2, <1>7, <2>2
  <2> QED BY <2>3, <2>4 DEF Begins
<1>10. rest = n - k
  <2>1. rest = IF 0 <= n - MaxItemsPerGroup THEN n - MaxItemsPerGroup ELSE 0
    BY <1>2, <1>4, MaxItemsAssumption, MostOfTwo
  <2> QED BY <1>2, <1>7, <2>1, MaxItemsAssumption
<1>11. PICK shown : shown = Elements(part) OBVIOUS
<1>12. shown = {sorted[i] : i \in 1..k} BY <1>9, <1>11 DEF Elements
<1>13. \A i \in 1..k : i \in 1..n BY <1>2, <1>8
<1>14. shown \subseteq lines BY <1>2, <1>12, <1>13, ElementOfSeq
<1>15. Cardinality(shown) = k
  <2>1. PICK f : f = [i \in 1..k |-> sorted[i]] OBVIOUS
  <2>2. \A i, j \in 1..k : sorted[i] = sorted[j] => i = j
    <3> SUFFICES ASSUME NEW i \in 1..k, NEW j \in 1..k, i # j PROVE sorted[i] # sorted[j]
      OBVIOUS
    <3>1. i < j \/ j < i BY <1>8
    <3>2. sorted[i] \in Int /\ sorted[j] \in Int BY <1>1, <1>12, <1>14
    <3>3. \A a, b \in 1..n : a < b => sorted[a] < sorted[b] BY <1>1, NumbersInOrder
    <3> QED BY <1>13, <3>1, <3>2, <3>3
  <2>3. f \in Bijection(1..k, shown)
    <3>1. f \in [1..k -> shown] BY <1>12, <2>1
    <3>2. \A i, j \in 1..k : f[i] = f[j] => i = j BY <2>1, <2>2
    <3>3. \A x \in shown : \E i \in 1..k : f[i] = x BY <1>12, <2>1
    <3> QED BY <3>1, <3>2, <3>3 DEF Bijection, Injection, Surjection, IsInjective
  <2>4. IsFiniteSet(1..k) /\ Cardinality(1..k) = k
    <3>1. IsFiniteSet(1..k) /\ Cardinality(1..k) = IF 1 > k THEN 0 ELSE k - 1 + 1
      BY <1>8, FS_Interval
    <3> QED BY <1>8, <3>1
  <2> QED BY <2>3, <2>4, FS_Bijection DEF ExistsBijection
<1>16. Cardinality(lines \ shown) = n - Cardinality(lines \intersect shown)
  BY <1>1, FS_Difference
<1>17. lines \intersect shown = shown BY <1>14
<1>18. Elements(bullets.shown) = shown /\ bullets.omitted = n - k BY <1>6, <1>10, <1>11
<1> QED BY <1>14, <1>15, <1>16, <1>17, <1>18 DEF Counted

(* The groups of a stack are lists of items.                               *)
LEMMA GroupsOfItems ==
  ASSUME NEW catalog \in Contents["stackCatalog"], NEW manifests \in Contents["manifests"], NEW id,
         NEW stack, stack = DescribeStack(id, catalog, manifests), stack.ok,
         NEW g \in DOMAIN stack.value.groups
  PROVE  /\ stack.value.groups[g] \in Seq(Elements(stack.value.groups[g]))
         /\ \A item \in Elements(stack.value.groups[g]) : item.line \in Nat
<1> PICK called : called = {i \in DOMAIN Entries(catalog) :
                              catalog.entries[i].object /\ catalog.entries[i].id = id}
  OBVIOUS
<1>1. /\ called # {}
      /\ stack = Ok(ReadStackEntry(catalog.entries[Min(called)], manifests[Min(called)]))
  BY DEF DescribeStack, Error, Ok
<1>2. catalog.state = "list" BY <1>1 DEF Entries
<1>3. called \subseteq DOMAIN catalog.entries BY <1>2 DEF Entries
<1>4. DOMAIN catalog.entries \subseteq Nat \intersect DOMAIN manifests BY <1>2, ContentsAssumption
<1> PICK i : i = Min(called) OBVIOUS
<1>5. i \in DOMAIN manifests BY <1>1, <1>3, <1>4, FirstOfNumbers
<1>6. stack.value.groups = DeclaredIn(manifests[i]).groups
  <2>1. PICK entry, manifest : entry = catalog.entries[i] /\ manifest = manifests[i] OBVIOUS
  <2>2. stack = Ok(ReadStackEntry(entry, manifest)) BY <1>1, <2>1
  <2>3. stack.value.groups = DeclaredIn(manifest).groups BY <2>2 DEF Ok, ReadStackEntry
  <2> QED BY <2>1, <2>3
<1>7. CASE manifests[i].object
  <2>1. stack.value.groups = manifests[i].groups BY <1>6, <1>7 DEF DeclaredIn
  <2> QED BY <1>5, <1>7, <2>1, ContentsAssumption
<1>8. CASE ~manifests[i].object BY <1>6, <1>8 DEF DeclaredIn
<1> QED BY <1>7, <1>8

(* A handoff counts what it leaves out.                                    *)
LEMMA PackAsTold ==
  ASSUME NEW catalog \in Contents["stackCatalog"], NEW manifests \in Contents["manifests"], NEW id,
         NEW stack, stack = DescribeStack(id, catalog, manifests), stack.ok, NEW level,
         NEW pack, pack = BuildStackContextPack(level, stack.value),
         NEW g \in DOMAIN stack.value.groups
  PROVE  Counted(pack.groups[g], Elements(stack.value.groups[g]))
<1> PICK items : items = Elements(stack.value.groups[g]) OBVIOUS
<1>1. IsFiniteSet(items) /\ \A item \in items : item.line \in Nat BY GroupsOfItems, FewElements
<1>2. pack.groups[g] = BulletList(items) BY DEF BuildStackContextPack
<1> QED BY <1>1, <1>2, OmittedAreCounted

(* All matching decisions are counted.                                     *)
LEMMA MatchesAsTold ==
  ASSUME NEW index, index.state \in IndexStates, NEW chain, NEW bridge, NEW limit, NEW told,
         told = FormatDecisions(ListDecisions(index, chain, bridge, limit)).shows, ~told.reason
  PROVE  told.matches = Len(index.entries)
<1> PICK listed : listed = ListDecisions(index, chain, bridge, limit) OBVIOUS
<1>1. /\ listed.verdict \in {"ok", "stale"}
      /\ told.matches = Field(listed, "matches", Len(Field(listed, "decisions", <<>>)))
  BY DEF FormatDecisions, Plain, Part
<1>2. listed = CmdListDecisions(index, chain, limit) BY <1>1 DEF ListDecisions, Ask, Unknown
<1>3. index.state \notin {"rootless", "absent", "unreadable"}
  <2>1. CASE index.state = "rootless" BY <1>1, <1>2, <2>1 DEF CmdListDecisions, Unknown
  <2>2. CASE index.state = "absent" \/ index.state = "unreadable"
    BY <1>1, <1>2, <2>2 DEF CmdListDecisions
  <2> QED BY <2>1, <2>2
<1>4. listed = [verdict |-> IF chain.readable /\ chain.decided <= chain.indexed THEN "ok" ELSE "stale",
                matches |-> Len(index.entries), decisions |-> Taken(index.entries, limit)]
  BY <1>2, <1>3 DEF CmdListDecisions
<1>5. "matches" \in DOMAIN listed /\ listed["matches"] = Len(index.entries) BY <1>4
<1> QED BY <1>1, <1>5 DEF Field

(* The places at which the bundles of a resolution declare components.     *)
PlacesIn(bundles) ==
    UNION {{<<i, j>> : j \in DOMAIN bundles[i].components} : i \in DOMAIN bundles}

(* A reference is one component.                                           *)
LEMMA ComponentsOfReferences ==
  ASSUME NEW file, NEW components, components = ClaimedNativeComponents(file), components.ok
  PROVE  /\ \A a \in components.value : \E p \in PlacesIn(file.bundles) :
              a.ref = file.bundles[p[1]].components[p[2]].ref
         /\ \A a, b \in components.value : a.ref = b.ref => a = b
<1> DEFINE bundles == file.bundles
           of(p) == bundles[p[1]].components[p[2]]
           declared == UNION {{<<i, j>> : j \in DOMAIN bundles[i].components} : i \in DOMAIN bundles}
           claimed == {p \in declared : Claims(of(p))}
           same(r) == {p \in claimed : of(p).ref = r}
           first(r) == of(CHOOSE p \in same(r) : \A q \in same(r) :
                             p[1] < q[1] \/ (p[1] = q[1] /\ p[2] <= q[2]))
           made(r) == [ref |-> r, type |-> first(r).type, role |-> first(r).role,
                       bundles  |-> {bundles[p[1]].id : p \in same(r)},
                       provides |-> UNION {of(p).provides : p \in same(r)},
                       consumes |-> UNION {of(p).consumes : p \in same(r)}]
           value == {made(r) : r \in {of(p).ref : p \in claimed}}
<1>1. components = Error("conflicting-bindings") \/ components = Ok(value)
  BY Zenon DEF ClaimedNativeComponents
<1>2. \A r : made(r).ref = r OBVIOUS
<1>3. \A p \in claimed : p \in PlacesIn(file.bundles) BY DEF PlacesIn
<1> HIDE DEF made
<1>4. \A a \in value : a.ref \in {of(p).ref : p \in claimed} /\ a = made(a.ref)
  BY <1>2
<1>5. components.value = value
  <2> HIDE DEF value
  <2> QED BY <1>1 DEF Ok, Error
<1> QED BY <1>3, <1>4, <1>5

(* A resolution that could be read declares finitely many components.      *)
LEMMA FewComponents ==
  ASSUME NEW file \in Contents["resolution"], file.state = "object",
         NEW components, components = ClaimedNativeComponents(file), components.ok
  PROVE  /\ IsFiniteSet(components.value)
         /\ \A a \in components.value : a.ref \in Nat
         /\ \A a, b \in components.value : a.ref = b.ref => a = b
<1> PICK bundles : bundles = file.bundles OBVIOUS
<1> PICK places : places = PlacesIn(bundles) OBVIOUS
<1> PICK S : S = components.value OBVIOUS
<1>1. /\ IsFiniteSet(DOMAIN bundles)
      /\ \A i \in DOMAIN bundles :
           /\ IsFiniteSet(DOMAIN bundles[i].components)
           /\ \A j \in DOMAIN bundles[i].components : bundles[i].components[j].ref \in Nat
  BY ContentsAssumption DEF Elements
<1>2. IsFiniteSet(places)
  <2>1. PICK f : f = [i \in DOMAIN bundles |-> {<<i, j>> : j \in DOMAIN bundles[i].components}] OBVIOUS
  <2>2. \A i \in DOMAIN bundles : IsFiniteSet(f[i])
    <3> SUFFICES ASSUME NEW i \in DOMAIN bundles PROVE IsFiniteSet(f[i]) OBVIOUS
    <3>1. PICK g : g = [j \in DOMAIN bundles[i].components |-> <<i, j>>] OBVIOUS
    <3>2. IsFiniteSet(DOMAIN g) /\ f[i] = {g[j] : j \in DOMAIN g} BY <1>1, <2>1, <3>1
    <3>3. IsFiniteSet({g[j] : j \in DOMAIN g}) BY <3>2, ImageIsFinite
    <3> QED BY <3>2, <3>3
  <2>3. IsFiniteSet({f[i] : i \in DOMAIN f})
    <3>1. IsFiniteSet(DOMAIN f) BY <1>1, <2>1
    <3> QED BY <3>1, ImageIsFinite
  <2>4. \A T \in {f[i] : i \in DOMAIN f} : IsFiniteSet(T) BY <2>1, <2>2
  <2>5. places = UNION {f[i] : i \in DOMAIN f} BY <2>1 DEF PlacesIn
  <2> QED BY <2>3, <2>4, <2>5, FS_UNION
<1>3. PICK g : g = [p \in places |-> bundles[p[1]].components[p[2]].ref] OBVIOUS
<1>4. PICK refs : refs = {g[p] : p \in places} OBVIOUS
<1>5. IsFiniteSet(refs) BY <1>2, <1>3, <1>4, ImageIsFinite
<1>6. refs \subseteq Nat BY <1>1, <1>3, <1>4 DEF PlacesIn
<1>7. /\ \A a \in S : a.ref \in refs
      /\ \A a, b \in S : a.ref = b.ref => a = b
  BY <1>3, <1>4, ComponentsOfReferences
<1>8. PICK h : h = [a \in S |-> a.ref] OBVIOUS
<1>9. h \in Injection(S, refs) BY <1>7, <1>8 DEF Injection, IsInjective
<1>10. IsFiniteSet(S) BY <1>5, <1>9, FS_Injection
<1> QED BY <1>6, <1>7, <1>10

(* Scores and numbers of matched terms are natural numbers.                *)
LEMMA ScoresAreNumbers ==
  ASSUME NEW query, IsFiniteSet(query), NEW a
  PROVE  Score(query, a) \in Nat /\ Cardinality(Matched(query, a)) \in Nat
<1>1. \A T : Cardinality(query \intersect T) \in Nat BY FS_Subset, FS_CardinalityType
<1>2. PICK x, y, z, w : /\ x = Cardinality(query \intersect {a.ref})
                        /\ y = Cardinality(query \intersect a.provides)
                        /\ z = Cardinality(query \intersect {a.role})
                        /\ w = Cardinality(query \intersect a.consumes)
  OBVIOUS
<1>3. Score(query, a) = 5 * x + 4 * y + 2 * z + w BY <1>2 DEF Score
<1>4. x \in Nat /\ y \in Nat /\ z \in Nat /\ w \in Nat BY <1>1, <1>2
<1> QED BY <1>1, <1>3, <1>4 DEF Matched

(* By score, then by the number of matched terms, then by reference.       *)
Above(query, a, b) ==
    \/ Score(query, a) > Score(query, b)
    \/ /\ Score(query, a) = Score(query, b)
       /\ \/ Cardinality(Matched(query, a)) > Cardinality(Matched(query, b))
          \/ /\ Cardinality(Matched(query, a)) = Cardinality(Matched(query, b))
             /\ a.ref < b.ref

(* That is the order of the ranks, compared place by place.                *)
LEMMA RankedAsAbove ==
  ASSUME NEW query, IsFiniteSet(query), NEW a, NEW b, a.ref \in Nat, b.ref \in Nat
  PROVE  RankedAbove(query, a, b) <=> Above(query, a, b)
<1>1. PICK sa, sb, ma, mb : /\ sa = Score(query, a) /\ sb = Score(query, b)
                            /\ ma = Cardinality(Matched(query, a))
                            /\ mb = Cardinality(Matched(query, b))
  OBVIOUS
<1>2. sa \in Nat /\ sb \in Nat /\ ma \in Nat /\ mb \in Nat BY <1>1, ScoresAreNumbers
<1>3. PICK x, y : x = <<sa, ma, -a.ref>> /\ y = <<sb, mb, -b.ref>> OBVIOUS
<1>4. RankedAbove(query, a, b) <=>
        \E i \in 1..3 : x[i] > y[i] /\ \A j \in 1..(i - 1) : x[j] = y[j]
  BY <1>1, <1>3 DEF RankedAbove
<1>5. /\ x[1] = sa /\ x[2] = ma /\ x[3] = -a.ref
      /\ y[1] = sb /\ y[2] = mb /\ y[3] = -b.ref
  BY <1>3
<1>6. (\E i \in 1..3 : x[i] > y[i] /\ \A j \in 1..(i - 1) : x[j] = y[j]) <=>
        \/ x[1] > y[1]
        \/ x[2] > y[2] /\ x[1] = y[1]
        \/ x[3] > y[3] /\ x[1] = y[1] /\ x[2] = y[2]
  <2>1. 1..3 = {1, 2, 3} /\ 1..(1 - 1) = {} /\ 1..(2 - 1) = {1} /\ 1..(3 - 1) = {1, 2} OBVIOUS
  <2> QED BY <2>1
<1>7. -a.ref > -b.ref <=> a.ref < b.ref OBVIOUS
<1> QED BY <1>1, <1>2, <1>4, <1>5, <1>6, <1>7 DEF Above

(* Components with references of their own are ranked strictly.            *)
LEMMA CandidatesAreRanked ==
  ASSUME NEW query, IsFiniteSet(query), NEW S, IsFiniteSet(S), \A a \in S : a.ref \in Nat,
         \A a, b \in S : a.ref = b.ref => a = b,
         NEW found, found = {a \in S : Score(query, a) > 0},
         NEW before, before = [c \in found |-> {d \in found : RankedAbove(query, d, c)}]
  PROVE  Arranges(Ranked(query, S), found, before)
<1>1. IsFiniteSet(found) BY FS_Subset
<1>2. \A a, b \in found : b \in before[a] <=> Above(query, b, a) BY RankedAsAbove
<1>3. \A a \in found : Score(query, a) \in Nat /\ Cardinality(Matched(query, a)) \in Nat
  BY ScoresAreNumbers
<1>4. before \in [found -> SUBSET found] OBVIOUS
<1>5. \A x \in found : x \notin before[x] BY <1>2, <1>3 DEF Above
<1>6. \A x, y \in found : x \in before[y] => before[x] \subseteq before[y]
  <2> SUFFICES ASSUME NEW x \in found, NEW y \in found, x \in before[y], NEW z \in before[x]
               PROVE  z \in before[y]
    OBVIOUS
  <2>1. z \in found BY <1>4
  <2>2. Above(query, z, x) /\ Above(query, x, y) BY <1>2, <2>1
  <2>3. Above(query, z, y) BY <1>3, <2>1, <2>2 DEF Above
  <2> QED BY <1>2, <2>1, <2>3
<1>7. \A x, y \in found : x = y \/ x \in before[y] \/ y \in before[x]
  BY <1>2, <1>3 DEF Above
<1>8. Strict(found, before) BY <1>4, <1>5, <1>6, <1>7 DEF Strict
<1>9. PICK t : t = Ranked(query, S) OBVIOUS
<1>10. t = Ordered(found, before) BY <1>9 DEF Ranked
<1>11. Arranges(t, found, before) BY <1>1, <1>8, <1>10, RanksAreAnOrder
<1> QED BY <1>9, <1>11

(* A first candidate that is not told to be ambiguous scores higher than   *)
(* every other component.                                                  *)
LEMMA FoundAsTold ==
  ASSUME NEW file \in Contents["resolution"], file.state = "object",
         NEW query, IsFiniteSet(query), NEW limit \in Nat \ {0},
         NEW found, found = FindCapabilities(query, file, limit), found.ok,
         found.value.status = "declared-not-observed",
         NEW S, S = ClaimedNativeComponents(file).value,
         NEW first, first = found.value.candidates[1]
  PROVE  \A other \in S \ {first} : Score(query, other) < Score(query, first)
<1>1. PICK components : components = ClaimedNativeComponents(file) OBVIOUS
<1>2. PICK ranked : ranked = Ranked(query, S) OBVIOUS
<1>3. components.ok
  <2> SUFFICES ASSUME ~components.ok PROVE FALSE OBVIOUS
  <2>1. found = components BY <1>1 DEF FindCapabilities
  <2> QED BY <2>1
<1>4. PICK part : part = SubSeq(ranked, 1, Min({limit, Len(ranked)})) OBVIOUS
<1>5. PICK status : status = (IF ranked = <<>> THEN "not-found"
                              ELSE IF Tied(query, ranked, limit) THEN "ambiguous"
                              ELSE "declared-not-observed")
  OBVIOUS
<1>6. found = Ok([candidates |-> part, status |-> status])
  BY <1>1, <1>2, <1>3, <1>4, <1>5 DEF FindCapabilities
<1>7. first = part[1] /\ status = "declared-not-observed" BY <1>6 DEF Ok
<1>8. ranked # <<>> /\ ~Tied(query, ranked, limit) BY <1>5, <1>7
<1>9. /\ IsFiniteSet(S) /\ \A a \in S : a.ref \in Nat
      /\ \A a, b \in S : a.ref = b.ref => a = b
  BY <1>1, <1>3, FewComponents
<1>10. PICK hits : hits = {a \in S : Score(query, a) > 0} OBVIOUS
<1>11. PICK before : before = [c \in hits |-> {d \in hits : RankedAbove(query, d, c)}] OBVIOUS
<1>12. Arranges(ranked, hits, before) BY <1>2, <1>9, <1>10, <1>11, CandidatesAreRanked
<1>13. PICK n : n = Cardinality(hits) OBVIOUS
<1>14. /\ n \in Nat /\ ranked \in Seq(hits) /\ Len(ranked) = n
       /\ \A i, j \in 1..n : i < j => ranked[i] \in before[ranked[j]]
       /\ \A x \in hits : \E i \in 1..n : ranked[i] = x
  BY <1>12, <1>13 DEF Arranges
<1>15. n > 0 BY <1>8, <1>14, EmptySeq
<1>16. first = ranked[1]
  <2>1. Len(ranked) > 0 => part[1] = ranked[1] BY <1>4, <1>14, CutToLimit
  <2> QED BY <1>7, <1>14, <1>15, <2>1
<1>17. first \in hits BY <1>14, <1>15, <1>16, ElementOfSeq
<1>18. \A a \in S : Score(query, a) \in Nat BY ScoresAreNumbers
<1>19. \A a, b \in hits : b \in before[a] => Score(query, b) >= Score(query, a)
  <2> SUFFICES ASSUME NEW a \in hits, NEW b \in hits, b \in before[a]
               PROVE  Score(query, b) >= Score(query, a)
    OBVIOUS
  <2>1. a \in S /\ b \in S /\ RankedAbove(query, b, a) BY <1>10, <1>11
  <2>2. Above(query, b, a) BY <1>9, <2>1, RankedAsAbove
  <2> QED BY <1>18, <2>1, <2>2 DEF Above
<1>20. ASSUME NEW other \in S \ {first} PROVE Score(query, other) < Score(query, first)
  <2>1. CASE other \notin hits BY <1>10, <1>17, <1>18, <2>1
  <2>2. CASE other \in hits
    <3>1. PICK i \in 1..n : ranked[i] = other BY <1>14, <2>2
    <3>2. i > 1 /\ n > 1 BY <1>14, <1>16, <3>1
    <3>3. ranked[2] \in hits BY <1>14, <3>2, ElementOfSeq
    <3>4. Score(query, ranked[2]) # Score(query, first) BY <1>8, <1>14, <1>16, <3>2 DEF Tied
    <3>5. Score(query, first) >= Score(query, ranked[2])
      <4>1. first \in before[ranked[2]] BY <1>14, <1>16, <3>2
      <4> QED BY <1>17, <1>19, <3>3, <4>1
    <3>6. Score(query, ranked[2]) >= Score(query, other)
      <4>1. CASE i = 2 BY <1>10, <1>18, <3>1, <3>3, <4>1
      <4>2. CASE i > 2
        <5>1. ranked[2] \in before[other] BY <1>14, <3>1, <3>2, <4>2
        <5> QED BY <1>19, <2>2, <3>3, <5>1
      <4> QED BY <3>2, <4>1, <4>2
    <3> QED BY <1>10, <1>17, <1>18, <2>2, <3>3, <3>4, <3>5, <3>6
  <2> QED BY <2>1, <2>2
<1> QED BY <1>20

--------------------------------------------------------------------------------
(* The answers whose truth is that of their readings: the second invariant *)
(* says that they tell what the readings hold, and that these, with the    *)
(* exception of what was noted, agree with the host as it is now. It is    *)
(* stated of a request r and the host h.                                   *)
ToldFromReadings ==
    {"list_locks", "check_lock", "evaluate_permission", "list_decisions", "list_governance",
     "list_available_tools", "audit_profile", "actual_self_receipt", "resolve_semantic_route",
     "context_pack", "find_capability", "list_tools", "assign_tool_bundles"}

(* Sources are read in the order of the handler.                           *)
Order(r) == Awaits(r.tool, r.args)
ReadInOrder(r) == \E k \in 0..Len(Order(r)) : DOMAIN r.read = {Order(r)[i] : i \in 1..k}

(* What a reading may have found.                                          *)
Possible(source, v) ==
    /\ source = "bridge" => v \in {"answered", "failed"}
    /\ source = "index" => v.state \in IndexStates
    /\ source = "chain" => v.decided \in Nat /\ v.indexed \in Nat
    /\ source \in {"registry", "plans"} => v.state \in RegisterStates
    /\ source = "lockScans" => DOMAIN v \subseteq Nat \ {0}
    /\ source = "lockScripts" => v.state \in {"unconfigured", "list"}
    /\ source = "lockReply" => (Field(v, "safe", FALSE) => v.verdict = "clear")
    /\ source = "policy" => PolicyFile(v)
    /\ source \in {"listing", "profile", "stackCatalog", "manifests", "resolution"} =>
         v \in Contents[source]

(* Nothing has been indexed since the index was read, nothing been         *)
(* installed since the version was.                                        *)
SameIndex(r, h) ==
    /\ "index" \in DOMAIN r.read /\ r.read["index"].state = "list" =>
         Len(r.read["index"].entries) = h.indexed
    /\ "chain" \in DOMAIN r.read => r.read["chain"].indexed = h.indexed

SameRelease(r, h) ==
    /\ "version" \in DOMAIN r.read => r.read["version"].release = h.release
    /\ "probe" \in DOMAIN r.read => r.read["probe"].release = h.release

RouteFor(r) == ResolveSemanticRoute(r.read["routingMap"], SkillsOf(r), r.args)
FoundFor(r) == FindCapabilities(r.args.query, r.read["resolution"], r.args.limit)

(* The answer is made of the readings.                                     *)
AsRead(r) ==
    /\ r.tool = "list_locks" =>
         r.page = <<FormatLockList(ListLocks(r.read["lockRoots"], r.read["lockScans"], r.read["bridge"]))>>
    /\ r.tool = "check_lock" =>
         r.page = <<FormatLockCheck(CheckLock(r.read["lockScripts"], r.read["lockReply"], r.read["bridge"]))>>
    /\ r.tool = "evaluate_permission" =>
         r.page = <<FormatPermission(EvaluatePermission(r.read["lockScripts"], r.read["place"],
                                                        r.read["bridge"]))>>
    /\ r.tool = "list_decisions" =>
         r.page = <<FormatDecisions(ListDecisions(r.read["index"], r.read["chain"], r.read["bridge"],
                                                  r.args.limit))>>
    /\ r.tool = "list_governance" =>
         r.page = <<FormatGovernance(ListGovernance(r.read["index"], r.read["chain"], r.read["registry"],
                                                    r.read["plans"], r.read["bridge"], r.args.limit))>>
    /\ r.tool = "list_available_tools" =>
         r.page = <<FormatGatewayToolListing(ListGatewayTools(r.read["gatewayScope"],
                                                              r.read["serverTools"], r.args.server))>>
    /\ r.tool = "audit_profile" =>
         r.page[2].shows = AuditResolvedProfile(r.read["profile"].value.servers,
                                                LoadPolicyRules(r.read["policy"]).value)
    /\ r.tool = "actual_self_receipt" =>
         r.page = <<Plain("receipt", ProduceActualSelfReceipt(r.read["receiptConfig"], r.read["key"],
                                                              r.read["version"], r.read["probe"]))>>
    /\ r.tool = "resolve_semantic_route" =>
         RouteFor(r).ok /\ r.page = <<Plain("route", RouteFor(r).value)>>
    /\ r.tool = "context_pack" =>
         /\ StackOf(r).ok
         /\ r.page = <<Plain("pack", BuildStackContextPack(r.args.level, StackOf(r).value))>>
    /\ r.tool = "find_capability" =>
         FoundFor(r).ok /\ r.page = <<Plain("found", FoundFor(r).value)>>

(* A query and a limit as a caller may give them.                          *)
Queried(r) ==
    r.tool = "find_capability" => IsFiniteSet(r.args.query) /\ r.args.limit \in Nat \ {0}

Sound(r, h) ==
    r.tool \in ToldFromReadings =>
        /\ Queried(r)
        /\ ReadInOrder(r)
        /\ \A s \in DOMAIN r.read : Possible(s, r.read[s])
        /\ ~r.error => \A s \in DOMAIN r.read : Loaded(r.read, s).ok
        /\ r.page = <<>> => ~r.error
        /\ "reindex" \notin r.during => SameIndex(r, h)
        /\ "upgrade" \notin r.during => SameRelease(r, h)
        /\ r.page # <<>> /\ ~r.error => DOMAIN r.read = Elements(Order(r)) /\ AsRead(r)

(* The host counts what happens to it.                                     *)
Hosts == [release : Nat, decided : Nat, indexed : Nat]
Honest == Safe /\ host \in Hosts /\ \A c \in Clients : Sound(request[c], host)

(* The sources of these answers, and how each handler orders its own: none *)
(* twice, the key after the configuration that pins it.                    *)
Sources ==
    {"lockRoots", "lockScans", "bridge", "lockScripts", "lockReply", "place", "index", "chain",
     "registry", "plans", "gatewayScope", "serverTools", "profile", "policy", "receiptConfig",
     "key", "version", "probe", "routingMap", "deployedSkills", "sourceSkills",
     "listing", "packages", "profileTools", "bundleConfig", "stackCatalog", "manifests", "resolution"}

InOrder(o) ==
    /\ o \in Seq(Sources)
    /\ \A i, j \in 1..Len(o) : o[i] = o[j] => i = j
    /\ \A i \in 1..Len(o) : o[i] = "key" => i > 1 /\ o[1] = "receiptConfig"

(* Short tuples put together.                                              *)
LEMMA JoinedTuples ==
  /\ \A a, b, d : <<a, b>> \o <<d>> = <<a, b, d>>
  /\ \A a, b, d, e : <<a, b, d>> \o <<e>> = <<a, b, d, e>>
<1>1. ASSUME NEW a, NEW b, NEW d PROVE <<a, b>> \o <<d>> = <<a, b, d>>
  <2> PICK S : S = {a, b, d} OBVIOUS
  <2>1. <<a, b>> \in Seq(S) /\ <<d>> \in Seq(S) /\ <<a, b, d>> \in Seq(S) OBVIOUS
  <2> PICK s, t, u : s = <<a, b>> /\ t = <<d>> /\ u = <<a, b, d>> OBVIOUS
  <2>2. s \o t \in Seq(S) /\ Len(s \o t) = 3 BY <2>1, ConcatProperties
  <2>3. \A i \in 1..3 : (s \o t)[i] = u[i] BY <2>1, ConcatProperties
  <2>4. s \o t = u BY <2>1, <2>2, <2>3, SeqEqual
  <2> QED BY <2>4
<1>2. ASSUME NEW a, NEW b, NEW d, NEW e PROVE <<a, b, d>> \o <<e>> = <<a, b, d, e>>
  <2> PICK S : S = {a, b, d, e} OBVIOUS
  <2>1. <<a, b, d>> \in Seq(S) /\ <<e>> \in Seq(S) /\ <<a, b, d, e>> \in Seq(S) OBVIOUS
  <2> PICK s, t, u : s = <<a, b, d>> /\ t = <<e>> /\ u = <<a, b, d, e>> OBVIOUS
  <2>2. s \o t \in Seq(S) /\ Len(s \o t) = 4 BY <2>1, ConcatProperties
  <2>3. \A i \in 1..4 : (s \o t)[i] = u[i] BY <2>1, ConcatProperties
  <2>4. s \o t = u BY <2>1, <2>2, <2>3, SeqEqual
  <2> QED BY <2>4
<1> QED BY <1>1, <1>2

(* The handlers, one by one.                                               *)
LEMMA OrderOfSources ==
  ASSUME NEW r, r.tool \in ToldFromReadings
  PROVE  InOrder(Order(r))
<1> PICK o : o = Order(r) OBVIOUS
<1>1. CASE r.tool = "list_locks"
  <2>1. o = <<"lockRoots", "lockScans", "bridge">> BY <1>1 DEF Order, Awaits
  <2>2. Len(o) = 3 BY <2>1
  <2>3. o[1] = "lockRoots" /\ o[2] = "lockScans" /\ o[3] = "bridge" BY <2>1
  <2>4. o \in Seq(Sources)
    <3>1. "lockRoots" \in Sources /\ "lockScans" \in Sources /\ "bridge" \in Sources BY DEF Sources
    <3> QED BY <2>1, <3>1
  <2>5. \A i \in 1..3 : i = 1 \/ i = 2 \/ i = 3 OBVIOUS
  <2> QED BY <2>2, <2>3, <2>4, <2>5 DEF InOrder
<1>2. CASE r.tool = "check_lock"
  <2>1. o = <<"lockScripts", "lockReply", "bridge">> BY <1>2 DEF Order, Awaits
  <2>2. Len(o) = 3 BY <2>1
  <2>3. o[1] = "lockScripts" /\ o[2] = "lockReply" /\ o[3] = "bridge" BY <2>1
  <2>4. o \in Seq(Sources)
    <3>1. "lockScripts" \in Sources /\ "lockReply" \in Sources /\ "bridge" \in Sources BY DEF Sources
    <3> QED BY <2>1, <3>1
  <2>5. \A i \in 1..3 : i = 1 \/ i = 2 \/ i = 3 OBVIOUS
  <2> QED BY <2>2, <2>3, <2>4, <2>5 DEF InOrder
<1>3. CASE r.tool = "evaluate_permission"
  <2>1. o = <<"lockScripts", "place", "bridge">> BY <1>3 DEF Order, Awaits
  <2>2. Len(o) = 3 BY <2>1
  <2>3. o[1] = "lockScripts" /\ o[2] = "place" /\ o[3] = "bridge" BY <2>1
  <2>4. o \in Seq(Sources)
    <3>1. "lockScripts" \in Sources /\ "place" \in Sources /\ "bridge" \in Sources BY DEF Sources
    <3> QED BY <2>1, <3>1
  <2>5. \A i \in 1..3 : i = 1 \/ i = 2 \/ i = 3 OBVIOUS
  <2> QED BY <2>2, <2>3, <2>4, <2>5 DEF InOrder
<1>4. CASE r.tool = "list_decisions"
  <2>1. o = <<"index", "chain", "bridge">> BY <1>4 DEF Order, Awaits
  <2>2. Len(o) = 3 BY <2>1
  <2>3. o[1] = "index" /\ o[2] = "chain" /\ o[3] = "bridge" BY <2>1
  <2>4. o \in Seq(Sources)
    <3>1. "index" \in Sources /\ "chain" \in Sources /\ "bridge" \in Sources BY DEF Sources
    <3> QED BY <2>1, <3>1
  <2>5. \A i \in 1..3 : i = 1 \/ i = 2 \/ i = 3 OBVIOUS
  <2> QED BY <2>2, <2>3, <2>4, <2>5 DEF InOrder
<1>5. CASE r.tool = "list_governance"
  <2>1. o = <<"index", "chain", "registry", "plans", "bridge">> BY <1>5 DEF Order, Awaits
  <2>2. Len(o) = 5 BY <2>1
  <2>3. o[1] = "index" /\ o[2] = "chain" /\ o[3] = "registry" /\ o[4] = "plans" /\ o[5] = "bridge" BY <2>1
  <2>4. o \in Seq(Sources)
    <3>1. "index" \in Sources /\ "chain" \in Sources /\ "registry" \in Sources
          /\ "plans" \in Sources /\ "bridge" \in Sources
      BY DEF Sources
    <3> QED BY <2>1, <3>1
  <2>5. \A i \in 1..5 : i = 1 \/ i = 2 \/ i = 3 \/ i = 4 \/ i = 5 OBVIOUS
  <2> QED BY <2>2, <2>3, <2>4, <2>5 DEF InOrder
<1>6. CASE r.tool = "list_available_tools"
  <2>1. o = <<"gatewayScope", "serverTools">> BY <1>6 DEF Order, Awaits
  <2>2. Len(o) = 2 BY <2>1
  <2>3. o[1] = "gatewayScope" /\ o[2] = "serverTools" BY <2>1
  <2>4. o \in Seq(Sources)
    <3>1. "gatewayScope" \in Sources /\ "serverTools" \in Sources BY DEF Sources
    <3> QED BY <2>1, <3>1
  <2>5. \A i \in 1..2 : i = 1 \/ i = 2 OBVIOUS
  <2> QED BY <2>2, <2>3, <2>4, <2>5 DEF InOrder
<1>7. CASE r.tool = "audit_profile"
  <2>1. o = <<"profile", "policy">> BY <1>7 DEF Order, Awaits
  <2>2. Len(o) = 2 BY <2>1
  <2>3. o[1] = "profile" /\ o[2] = "policy" BY <2>1
  <2>4. o \in Seq(Sources)
    <3>1. "profile" \in Sources /\ "policy" \in Sources BY DEF Sources
    <3> QED BY <2>1, <3>1
  <2>5. \A i \in 1..2 : i = 1 \/ i = 2 OBVIOUS
  <2> QED BY <2>2, <2>3, <2>4, <2>5 DEF InOrder
<1>8. CASE r.tool = "actual_self_receipt"
  <2>1. o = <<"receiptConfig", "key", "version", "probe">> BY <1>8 DEF Order, Awaits
  <2>2. Len(o) = 4 BY <2>1
  <2>3. o[1] = "receiptConfig" /\ o[2] = "key" /\ o[3] = "version" /\ o[4] = "probe" BY <2>1
  <2>4. o \in Seq(Sources)
    <3>1. "receiptConfig" \in Sources /\ "key" \in Sources
          /\ "version" \in Sources /\ "probe" \in Sources
      BY DEF Sources
    <3> QED BY <2>1, <3>1
  <2>5. \A i \in 1..4 : i = 1 \/ i = 2 \/ i = 3 \/ i = 4 OBVIOUS
  <2> QED BY <2>2, <2>3, <2>4, <2>5 DEF InOrder
<1>9. CASE r.tool = "resolve_semantic_route"
  <2>1. o = <<"routingMap", "deployedSkills", "sourceSkills">> BY <1>9 DEF Order, Awaits
  <2>2. Len(o) = 3 BY <2>1
  <2>3. o[1] = "routingMap" /\ o[2] = "deployedSkills" /\ o[3] = "sourceSkills" BY <2>1
  <2>4. o \in Seq(Sources)
    <3>1. "routingMap" \in Sources /\ "deployedSkills" \in Sources /\ "sourceSkills" \in Sources
      BY DEF Sources
    <3> QED BY <2>1, <3>1
  <2>5. \A i \in 1..3 : i = 1 \/ i = 2 \/ i = 3 OBVIOUS
  <2> QED BY <2>2, <2>3, <2>4, <2>5 DEF InOrder
<1>10. CASE r.tool = "context_pack"
  <2>1. o = <<"stackCatalog", "manifests">> BY <1>10 DEF Order, Awaits
  <2>2. Len(o) = 2 BY <2>1
  <2>3. o[1] = "stackCatalog" /\ o[2] = "manifests" BY <2>1
  <2>4. o \in Seq(Sources)
    <3>1. "stackCatalog" \in Sources /\ "manifests" \in Sources BY DEF Sources
    <3> QED BY <2>1, <3>1
  <2>5. \A i \in 1..2 : i = 1 \/ i = 2 OBVIOUS
  <2> QED BY <2>2, <2>3, <2>4, <2>5 DEF InOrder
<1>11. CASE r.tool = "find_capability"
  <2>1. o = <<"resolution">> BY <1>11 DEF Order, Awaits
  <2>2. Len(o) = 1 BY <2>1
  <2>3. o[1] = "resolution" BY <2>1
  <2>4. o \in Seq(Sources)
    <3>1. "resolution" \in Sources BY DEF Sources
    <3> QED BY <2>1, <3>1
  <2>5. \A i \in 1..1 : i = 1 OBVIOUS
  <2> QED BY <2>2, <2>3, <2>4, <2>5 DEF InOrder
<1>12. CASE r.tool = "list_tools" /\ r.args.profile # 0
  <2>1. o = <<"profile", "profileTools">> BY <1>12 DEF Order, Awaits, ToolCatalogSources
  <2>2. Len(o) = 2 BY <2>1
  <2>3. o[1] = "profile" /\ o[2] = "profileTools" BY <2>1
  <2>4. o \in Seq(Sources)
    <3>1. "profile" \in Sources /\ "profileTools" \in Sources BY DEF Sources
    <3> QED BY <2>1, <3>1
  <2>5. \A i \in 1..2 : i = 1 \/ i = 2 OBVIOUS
  <2> QED BY <2>2, <2>3, <2>4, <2>5 DEF InOrder
<1>13. CASE r.tool = "list_tools" /\ r.args.profile = 0
  <2>1. o = <<"listing", "packages", "serverTools">>
    BY <1>13, JoinedTuples DEF Order, Awaits, ToolCatalogSources, LocalServers
  <2>2. Len(o) = 3 BY <2>1
  <2>3. o[1] = "listing" /\ o[2] = "packages" /\ o[3] = "serverTools" BY <2>1
  <2>4. o \in Seq(Sources)
    <3>1. "listing" \in Sources /\ "packages" \in Sources /\ "serverTools" \in Sources BY DEF Sources
    <3> QED BY <2>1, <3>1
  <2>5. \A i \in 1..3 : i = 1 \/ i = 2 \/ i = 3 OBVIOUS
  <2> QED BY <2>2, <2>3, <2>4, <2>5 DEF InOrder
<1>14. CASE r.tool = "assign_tool_bundles" /\ r.args.profile # 0
  <2>1. o = <<"profile", "profileTools", "bundleConfig">>
    BY <1>14, JoinedTuples DEF Order, Awaits, ToolCatalogSources
  <2>2. Len(o) = 3 BY <2>1
  <2>3. o[1] = "profile" /\ o[2] = "profileTools" /\ o[3] = "bundleConfig" BY <2>1
  <2>4. o \in Seq(Sources)
    <3>1. "profile" \in Sources /\ "profileTools" \in Sources /\ "bundleConfig" \in Sources BY DEF Sources
    <3> QED BY <2>1, <3>1
  <2>5. \A i \in 1..3 : i = 1 \/ i = 2 \/ i = 3 OBVIOUS
  <2> QED BY <2>2, <2>3, <2>4, <2>5 DEF InOrder
<1>15. CASE r.tool = "assign_tool_bundles" /\ r.args.profile = 0
  <2>1. o = <<"listing", "packages", "serverTools", "bundleConfig">>
    <3>1. ToolCatalogSources(r.args) = <<"listing", "packages", "serverTools">>
      BY <1>15, JoinedTuples DEF ToolCatalogSources, LocalServers
    <3>2. o = ToolCatalogSources(r.args) \o <<"bundleConfig">> BY <1>15 DEF Order, Awaits
    <3> QED BY <3>1, <3>2, JoinedTuples
  <2>2. Len(o) = 4 BY <2>1
  <2>3. o[1] = "listing" /\ o[2] = "packages" /\ o[3] = "serverTools" /\ o[4] = "bundleConfig" BY <2>1
  <2>4. o \in Seq(Sources)
    <3>1. {"listing", "packages", "serverTools", "bundleConfig"} \subseteq Sources BY DEF Sources
    <3> QED BY <2>1, <3>1
  <2>5. \A i \in 1..4 : i = 1 \/ i = 2 \/ i = 3 \/ i = 4 OBVIOUS
  <2> QED BY <2>2, <2>3, <2>4, <2>5 DEF InOrder
<1> QED
  BY <1>1, <1>2, <1>3, <1>4, <1>5, <1>6, <1>7, <1>8, <1>9, <1>10, <1>11, <1>12, <1>13, <1>14, <1>15
  DEF ToldFromReadings

(* The first k elements of a sequence without repetitions are k.           *)
LEMMA FirstOnes ==
  ASSUME NEW S, NEW seq \in Seq(S), NEW k \in 0..Len(seq),
         \A i, j \in 1..Len(seq) : seq[i] = seq[j] => i = j
  PROVE  Cardinality({seq[i] : i \in 1..k}) = k
<1> DEFINE f == [i \in 1..k |-> seq[i]]
           T == {seq[i] : i \in 1..k}
<1>1. Len(seq) \in Nat /\ k \in Nat /\ \A i \in 1..k : i \in 1..Len(seq) BY LenProperties
<1>2. f \in Bijection(1..k, T)
  BY <1>1 DEF Bijection, Injection, Surjection, IsInjective
<1>3. IsFiniteSet(1..k) /\ Cardinality(1..k) = k BY <1>1, FS_Interval
<1>4. ExistsBijection(1..k, T) BY <1>2 DEF ExistsBijection
<1> HIDE DEF T
<1>5. Cardinality(T) = Cardinality(1..k) BY <1>3, <1>4, FS_Bijection
<1> QED BY <1>3, <1>5 DEF T

(* The next reading is a new one, and with it the readings are still the   *)
(* first ones of the order; when none remains all have been made.          *)
LEMMA NextReading ==
  ASSUME NEW r, r.tool \in ToldFromReadings, ReadInOrder(r)
  PROVE  /\ Remaining(r) # <<>> =>
              /\ Remaining(r)[1] \notin DOMAIN r.read
              /\ \E k \in 0..Len(Order(r)) :
                    DOMAIN r.read \union {Remaining(r)[1]} = {Order(r)[i] : i \in 1..k}
         /\ Remaining(r) = <<>> => DOMAIN r.read = Elements(Order(r))
         /\ "key" \in DOMAIN r.read => "receiptConfig" \in DOMAIN r.read
<1> PICK order \in Seq(Sources) : order = Order(r) BY OrderOfSources DEF InOrder
<1>1. \A i, j \in 1..Len(order) : order[i] = order[j] => i = j BY OrderOfSources DEF InOrder
<1> PICK n \in Nat : n = Len(order) /\ DOMAIN order = 1..n BY LenProperties
<1> PICK k \in 0..n : DOMAIN r.read = {order[i] : i \in 1..k} BY DEF ReadInOrder
<1>2. Cardinality(DOMAIN r.read) = k BY <1>1, FirstOnes
<1> PICK rest : rest = Remaining(r) OBVIOUS
<1>3. rest = SubSeq(order, k + 1, n) BY <1>2 DEF Remaining, Order
<1>4. \A i \in (k + 1)..n : order[i] \in Sources
  <2>1. \A i \in (k + 1)..n : i \in 1..n OBVIOUS
  <2> QED BY <2>1, ElementOfSeq
<1>5. /\ rest \in Seq(Sources)
      /\ Len(rest) = IF k + 1 <= n THEN n - k ELSE 0
      /\ \A i \in 1..(n - k) : rest[i] = order[k + i]
  <2>1. k + 1 \in Int /\ n \in Int /\ n - (k + 1) + 1 = n - k /\ \A i \in 1..(n - k) : (k + 1) + i - 1 = k + i
    OBVIOUS
  <2> QED BY <1>3, <1>4, <2>1, SubSeqProperties
<1>6. "key" \in DOMAIN r.read => "receiptConfig" \in DOMAIN r.read
  <2> SUFFICES ASSUME "key" \in DOMAIN r.read PROVE "receiptConfig" \in DOMAIN r.read OBVIOUS
  <2>1. PICK i \in 1..k : order[i] = "key" OBVIOUS
  <2>2. i \in 1..n BY <2>1
  <2>3. i > 1 /\ order[1] = "receiptConfig" BY <2>1, <2>2, OrderOfSources DEF InOrder
  <2>4. 1 \in 1..k BY <2>1, <2>3
  <2> QED BY <2>3, <2>4
<1>7. CASE k = n
  <2>1. rest = <<>> BY <1>5, <1>7, EmptySeq
  <2>2. DOMAIN r.read = Elements(order) BY <1>7 DEF Elements
  <2> QED BY <1>6, <2>1, <2>2
<1>8. CASE k < n
  <2>1. rest # <<>> /\ rest[1] = order[k + 1] /\ k + 1 \in 1..n BY <1>5, <1>8, EmptySeq
  <2>2. order[k + 1] \notin DOMAIN r.read
    <3>1. \A i \in 1..k : i \in 1..n /\ i # k + 1 OBVIOUS
    <3> QED BY <1>1, <2>1, <3>1
  <2>3. \A i : i \in 1..(k + 1) <=> i \in 1..k \/ i = k + 1 OBVIOUS
  <2>4. DOMAIN r.read \union {order[k + 1]} = {order[i] : i \in 1..(k + 1)} BY <2>3
  <2>5. k + 1 \in 0..Len(Order(r)) BY <2>1
  <2>6. \E j \in 0..Len(Order(r)) : DOMAIN r.read \union {order[k + 1]} = {Order(r)[i] : i \in 1..j}
    BY <2>4, <2>5
  <2> QED BY <1>6, <2>1, <2>2, <2>6
<1>9. k = n \/ k < n OBVIOUS
<1> QED BY <1>6, <1>7, <1>8, <1>9

--------------------------------------------------------------------------------
(* A request that is not touched by a step, but for what is noted with it. *)
Steady(r, s, h, g) ==
    /\ s.tool = r.tool /\ s.args = r.args /\ s.read = r.read /\ s.page = r.page /\ s.error = r.error
    /\ "reindex" \notin s.during => "reindex" \notin r.during /\ g.indexed = h.indexed
    /\ "upgrade" \notin s.during => "upgrade" \notin r.during /\ g.release = h.release

(* It remains as sound as it was.                                          *)
LEMMA SteadyIsSound ==
  ASSUME NEW r, NEW s, NEW h, NEW g, Sound(r, h), Steady(r, s, h, g)
  PROVE  Sound(s, g)
<1> SUFFICES ASSUME s.tool \in ToldFromReadings PROVE Sound(s, g) BY DEF Sound
<1>1. s.tool = r.tool /\ s.args = r.args /\ s.read = r.read /\ s.page = r.page /\ s.error = r.error
  BY DEF Steady
<1>2. Order(s) = Order(r) BY <1>1 DEF Order
<1>3. ReadInOrder(s) BY <1>1, <1>2 DEF Sound, ReadInOrder
<1>4. (\A x \in DOMAIN s.read : Possible(x, s.read[x]))
      /\ (~s.error => \A x \in DOMAIN s.read : Loaded(s.read, x).ok)
      /\ (s.page = <<>> => ~s.error)
  BY <1>1 DEF Sound
<1>5. "reindex" \notin s.during => SameIndex(s, g) BY <1>1 DEF Sound, Steady, SameIndex
<1>6. "upgrade" \notin s.during => SameRelease(s, g) BY <1>1 DEF Sound, Steady, SameRelease
<1>7. AsRead(r) => AsRead(s)
  <2>1. RouteFor(s) = RouteFor(r) BY <1>1 DEF RouteFor, SkillsOf
  <2>2. StackOf(s) = StackOf(r) /\ FoundFor(s) = FoundFor(r) BY <1>1 DEF StackOf, FoundFor
  <2> QED BY <1>1, <2>1, <2>2 DEF AsRead
<1>8. s.page # <<>> /\ ~s.error => DOMAIN s.read = Elements(Order(s)) /\ AsRead(s)
  BY <1>1, <1>2, <1>7 DEF Sound
<1>9. Queried(s) BY <1>1 DEF Sound, Queried
<1> QED BY <1>3, <1>4, <1>5, <1>6, <1>8, <1>9 DEF Sound

(* So a step has to be looked at only for the request that it is about.    *)
LEMMA HonestStep ==
  ASSUME Honest, Safe', host' \in Hosts,
         \A c \in Clients : \/ Steady(request[c], request'[c], host, host')
                            \/ request'[c].tool \notin ToldFromReadings
                            \/ Sound(request'[c], host')
  PROVE  Honest'
<1>1. ASSUME NEW c \in Clients PROVE Sound(request'[c], host')
  <2>1. Sound(request[c], host) BY DEF Honest
  <2>2. CASE Steady(request[c], request'[c], host, host') BY <2>1, <2>2, SteadyIsSound
  <2>3. CASE request'[c].tool \notin ToldFromReadings BY <2>3 DEF Sound
  <2> QED BY <2>2, <2>3
<1> QED BY <1>1 DEF Honest

(* At the start there is no request.                                       *)
LEMMA InitHonest == Init => Honest
<1> SUFFICES ASSUME Init PROVE Honest OBVIOUS
<1>1. Safe BY InitSafe
<1>2. host \in Hosts BY DEF Init, Hosts
<1>3. \A c \in Clients : request[c].tool = "none" BY DEF Init, Idle
<1> QED BY <1>1, <1>2, <1>3 DEF Honest, Sound, ToldFromReadings

(* A new one has read nothing.                                             *)
LEMMA BeginHonest == ASSUME Honest, Safe', NEW c \in Clients, Begin(c) PROVE Honest'
<1>1. PICK call \in Offered[c] :
        request' = [request EXCEPT ![c] =
                      [Idle EXCEPT !.tool = call.tool, !.args = call.args, !.labels = language]]
  BY DEF Begin
<1>2. host' = host /\ host' \in Hosts BY DEF Begin, Honest
<1>3. \A d \in Clients \ {c} : request'[d] = request[d]
  BY <1>1 DEF Honest, Safe, Kept, Shape
<1> PICK r : r = request'[c] OBVIOUS
<1>4. r.read = <<>> /\ r.page = <<>> /\ r.error = FALSE /\ r.during = {}
  BY <1>1 DEF Honest, Safe, Kept, Shape, Idle
<1>5. DOMAIN r.read = {} BY <1>4
<1>6. ASSUME r.tool \in ToldFromReadings PROVE Sound(r, host')
  <2>1. Len(Order(r)) \in Nat BY <1>6, OrderOfSources, LenProperties DEF InOrder
  <2>2. ReadInOrder(r)
    <3>1. 0 \in 0..Len(Order(r)) BY <2>1
    <3>2. {Order(r)[i] : i \in 1..0} = {} OBVIOUS
    <3> QED BY <1>5, <3>1, <3>2 DEF ReadInOrder
  <2>3. SameIndex(r, host') /\ SameRelease(r, host') BY <1>5 DEF SameIndex, SameRelease
  <2>4. Queried(r)
    <3>1. r.tool = call.tool /\ r.args = call.args
      BY <1>1 DEF Honest, Safe, Kept, Shape, Idle
    <3> QED BY <3>1, OfferedAssumption DEF Queried
  <2> QED BY <1>4, <1>5, <2>2, <2>3, <2>4 DEF Sound
<1>7. \A d \in Clients \ {c} : Steady(request[d], request'[d], host, host')
  BY <1>2, <1>3 DEF Steady
<1> QED BY <1>2, <1>6, <1>7, HonestStep

(* What is read is possible, and what follows the host is as it is now.    *)
LEMMA ReadingsArePossible ==
  ASSUME host \in Hosts, NEW source, NEW v \in Holds(source)
  PROVE  /\ Possible(source, v)
         /\ source = "index" => (v.state = "list" => Len(v.entries) = host.indexed)
         /\ source = "chain" => v.indexed = host.indexed
         /\ source \in {"version", "probe"} => v.release = host.release
<1> host.decided \in Nat /\ host.indexed \in Nat BY DEF Hosts
<1>1. CASE source = "version"
  <2>1. v.release = host.release BY <1>1 DEF Holds
  <2> QED BY <1>1, <2>1 DEF Possible
<1>2. CASE source = "probe"
  <2>1. v.release = host.release BY <1>2 DEF Holds
  <2> QED BY <1>2, <2>1 DEF Possible
<1>3. CASE source = "index"
  <2>1. PICK s \in Contents["index"] :
          v = [state |-> s, entries |-> IF s = "list"
                                        THEN [i \in 1..host.indexed |-> [id |-> i, valid |-> TRUE]]
                                        ELSE <<>>]
    BY <1>3 DEF Holds
  <2>2. v.state \in IndexStates BY <2>1, ContentsAssumption DEF IndexStates
  <2>3. v.state = "list" => v.entries = [i \in 1..host.indexed |-> [id |-> i, valid |-> TRUE]]
    BY <2>1
  <2>4. v.state = "list" => Len(v.entries) = host.indexed
    <3>1. Len([i \in 1..host.indexed |-> [id |-> i, valid |-> TRUE]]) = host.indexed
      OBVIOUS
    <3> QED BY <2>3, <3>1
  <2> QED BY <1>3, <2>2, <2>4 DEF Possible
<1>4. CASE source = "chain"
  <2>1. v.decided = host.decided /\ v.indexed = host.indexed BY <1>4 DEF Holds
  <2> QED BY <1>4, <2>1 DEF Possible
<1>5. CASE source \in {"bridge", "registry", "plans", "lockScans", "lockScripts", "lockReply", "policy"}
  <2>1. v \in Contents[source] BY <1>5 DEF Holds
  <2> QED BY <1>5, <2>1, ContentsAssumption DEF Possible, RegisterStates, PolicyFile
<1>6. CASE source \in {"listing", "profile", "stackCatalog", "manifests", "resolution"}
  <2>1. v \in Contents[source] BY <1>6 DEF Holds
  <2> QED BY <1>6, <2>1 DEF Possible
<1>7. CASE source \notin {"version", "probe", "index", "chain", "bridge", "registry", "plans",
                          "lockScans", "lockScripts", "lockReply", "policy", "listing", "profile",
                          "stackCatalog", "manifests", "resolution"}
  BY <1>7 DEF Possible
<1> QED BY <1>1, <1>2, <1>3, <1>4, <1>5, <1>6, <1>7

(* A further reading does not change what was made of the others.          *)
LEMMA LoadedAsRead ==
  ASSUME NEW read, NEW more, NEW s, more[s] = read[s],
         s = "key" => more["receiptConfig"] = read["receiptConfig"]
  PROVE  Loaded(more, s) = Loaded(read, s)
BY DEF Loaded

(* A reading adds one source, the next, and is refused or accepted.        *)
LEMMA ReadHonest == ASSUME Honest, Safe', NEW c \in Clients, Read(c) PROVE Honest'
<1> PICK r : r = request[c] OBVIOUS
<1> PICK source : source = Remaining(r)[1] OBVIOUS
<1>1. r.tool # "none" /\ r.page = <<>> /\ Remaining(r) # <<>> /\ host' = host BY DEF Read
<1>2. PICK v \in Holds(source) :
        LET read == WithSource(r.read, source, v)
            loaded == Loaded(read, source)
        IN  request' = [request EXCEPT ![c].read = read, ![c].error = ~loaded.ok,
                           ![c].page = IF loaded.ok THEN <<>> ELSE Refused(loaded.code)]
  BY DEF Read
<1> PICK read : read = WithSource(r.read, source, v) OBVIOUS
<1> PICK loaded : loaded = Loaded(read, source) OBVIOUS
<1>3. request' = [request EXCEPT ![c].read = read, ![c].error = ~loaded.ok,
                     ![c].page = IF loaded.ok THEN <<>> ELSE Refused(loaded.code)]
  BY <1>2
<1> PICK s : s = request'[c] OBVIOUS
<1>4. s.tool = r.tool /\ s.args = r.args /\ s.during = r.during /\ s.read = read
      /\ s.error = ~loaded.ok /\ s.page = IF loaded.ok THEN <<>> ELSE Refused(loaded.code)
  BY <1>3 DEF Honest, Safe, Kept, Shape, Idle
<1>5. \A d \in Clients \ {c} : request'[d] = request[d]
  BY <1>3 DEF Honest, Safe, Kept, Shape
<1>6. ASSUME s.tool \in ToldFromReadings PROVE Sound(s, host')
  <2>1. Sound(r, host) /\ r.tool \in ToldFromReadings BY <1>4, <1>6 DEF Honest
  <2>2. /\ source \notin DOMAIN r.read
        /\ \E k \in 0..Len(Order(r)) : DOMAIN r.read \union {source} = {Order(r)[i] : i \in 1..k}
        /\ "key" \in DOMAIN r.read => "receiptConfig" \in DOMAIN r.read
    BY <1>1, <2>1, NextReading DEF Sound
  <2>3. /\ DOMAIN read = DOMAIN r.read \union {source} /\ read[source] = v
        /\ \A x \in DOMAIN r.read : read[x] = r.read[x]
    BY <2>2 DEF WithSource
  <2>4. ReadInOrder(s) BY <1>4, <2>2, <2>3 DEF ReadInOrder, Order
  <2>5. host \in Hosts BY DEF Honest
  <2>6. \A x \in DOMAIN read : Possible(x, read[x])
    BY <2>1, <2>3, <2>5, ReadingsArePossible DEF Sound
  <2>7. ASSUME ~s.error, NEW x \in DOMAIN read PROVE Loaded(read, x).ok
    <3>1. CASE x = source BY <1>4, <2>7, <3>1
    <3>2. CASE x \in DOMAIN r.read
      <4>1. Loaded(r.read, x).ok BY <1>1, <2>1, <3>2 DEF Sound
      <4>2. Loaded(read, x) = Loaded(r.read, x) BY <2>2, <2>3, <3>2, LoadedAsRead
      <4> QED BY <4>1, <4>2
    <3> QED BY <2>3, <3>1, <3>2
  <2>8. loaded.ok => s.page = <<>> /\ ~s.error BY <1>4
  <2>9. ~loaded.ok => s.page # <<>> /\ s.error
    <3>1. Refused(loaded.code) # <<>> BY DEF Refused
    <3> QED BY <1>4, <3>1
  <2>10. "reindex" \notin s.during => SameIndex(s, host)
    <3>1. CASE source \in {"index", "chain"}
      BY <1>4, <2>1, <2>3, <2>5, <3>1, ReadingsArePossible DEF Sound, SameIndex
    <3>2. CASE source \notin {"index", "chain"} BY <1>4, <2>1, <2>3, <3>2 DEF Sound, SameIndex
    <3> QED BY <3>1, <3>2
  <2>11. "upgrade" \notin s.during => SameRelease(s, host)
    <3>1. CASE source \in {"version", "probe"}
      BY <1>4, <2>1, <2>3, <2>5, <3>1, ReadingsArePossible DEF Sound, SameRelease
    <3>2. CASE source \notin {"version", "probe"} BY <1>4, <2>1, <2>3, <3>2 DEF Sound, SameRelease
    <3> QED BY <3>1, <3>2
  <2>12. Queried(s) BY <1>4, <2>1 DEF Sound, Queried
  <2> QED BY <1>1, <1>4, <2>4, <2>6, <2>7, <2>8, <2>9, <2>10, <2>11, <2>12 DEF Sound
<1>7. \A d \in Clients \ {c} : Steady(request[d], request'[d], host, host')
  BY <1>1, <1>5 DEF Steady
<1>8. host' \in Hosts BY <1>1 DEF Honest
<1> QED BY <1>6, <1>7, <1>8, HonestStep

(* A request that is ready to be answered has read all of its sources, and *)
(* none was refused.                                                       *)
LEMMA ReadyIsRead ==
  ASSUME Honest, NEW c \in Clients, NEW tool \in ToldFromReadings, Ready(c, tool)
  PROVE  /\ request[c].tool = tool
         /\ DOMAIN request[c].read = Elements(Order(request[c]))
         /\ ~request[c].error
BY NextReading DEF Ready, Honest, Sound

(* The answer that follows tells what was read.                            *)
LEMMA AnswersAsRead ==
  ASSUME Honest, Safe', NEW c \in Clients, NEW tool \in ToldFromReadings, Ready(c, tool), NEW page,
         Reply(c, page), page # <<>>, AsRead([request[c] EXCEPT !.page = page])
  PROVE  Honest'
<1> PICK r : r = request[c] OBVIOUS
<1> PICK s : s = request'[c] OBVIOUS
<1>1. request' = [request EXCEPT ![c].page = page] /\ host' = host BY DEF Reply
<1>2. s = [r EXCEPT !.page = page] /\ \A d \in Clients \ {c} : request'[d] = request[d]
  BY <1>1 DEF Honest, Safe, Kept, Shape, Idle
<1>3. s.tool = r.tool /\ s.args = r.args /\ s.read = r.read /\ s.error = r.error
      /\ s.during = r.during /\ s.page = page
  BY <1>2 DEF Honest, Safe, Kept, Shape, Idle
<1>4. Sound(r, host) /\ r.tool \in ToldFromReadings /\ ~r.error
      /\ DOMAIN r.read = Elements(Order(r))
  BY ReadyIsRead DEF Honest
<1>5. AsRead(s) BY <1>2
<1>6. Order(s) = Order(r) BY <1>3 DEF Order
<1>7. Sound(s, host')
  <2>1. ReadInOrder(s) BY <1>3, <1>4, <1>6 DEF Sound, ReadInOrder
  <2>2. SameIndex(r, host) => SameIndex(s, host) BY <1>3 DEF SameIndex
  <2>3. SameRelease(r, host) => SameRelease(s, host) BY <1>3 DEF SameRelease
  <2>4. Queried(s) BY <1>3, <1>4 DEF Sound, Queried
  <2> QED BY <1>1, <1>3, <1>4, <1>5, <1>6, <2>1, <2>2, <2>3, <2>4 DEF Sound
<1>8. \A d \in Clients \ {c} : Steady(request[d], request'[d], host, host')
  BY <1>1, <1>2 DEF Steady
<1>9. host' \in Hosts BY <1>1 DEF Honest
<1> QED BY <1>7, <1>8, <1>9, HonestStep

(* A refusal tells nothing but that it is one.                             *)
LEMMA AnswersRefused ==
  ASSUME Honest, Safe', NEW c \in Clients, NEW tool \in ToldFromReadings, Ready(c, tool), NEW page,
         ReplyError(c, page), page # <<>>
  PROVE  Honest'
<1> PICK r : r = request[c] OBVIOUS
<1> PICK s : s = request'[c] OBVIOUS
<1>1. request' = [request EXCEPT ![c].page = page, ![c].error = TRUE] /\ host' = host
  BY DEF ReplyError
<1>2. s.tool = r.tool /\ s.args = r.args /\ s.read = r.read /\ s.error = TRUE
      /\ s.during = r.during /\ s.page = page /\ \A d \in Clients \ {c} : request'[d] = request[d]
  BY <1>1 DEF Honest, Safe, Kept, Shape, Idle
<1>3. Sound(r, host) /\ r.tool \in ToldFromReadings BY DEF Honest, Ready
<1>4. Order(s) = Order(r) BY <1>2 DEF Order
<1>5. Sound(s, host')
  <2>1. ReadInOrder(s) BY <1>2, <1>3, <1>4 DEF Sound, ReadInOrder
  <2>2. SameIndex(r, host) => SameIndex(s, host) BY <1>2 DEF SameIndex
  <2>3. SameRelease(r, host) => SameRelease(s, host) BY <1>2 DEF SameRelease
  <2>4. Queried(s) BY <1>2, <1>3 DEF Sound, Queried
  <2> QED BY <1>1, <1>2, <1>3, <2>1, <2>2, <2>3, <2>4 DEF Sound
<1>6. \A d \in Clients \ {c} : Steady(request[d], request'[d], host, host')
  BY <1>1, <1>2 DEF Steady
<1>7. host' \in Hosts BY <1>1 DEF Honest
<1> QED BY <1>5, <1>6, <1>7, HonestStep

(* The answers of other requests tell nothing of these sources.            *)
LEMMA AnswersElsewhere ==
  ASSUME Honest, Safe', NEW c \in Clients, NEW tool, tool \notin ToldFromReadings, Ready(c, tool),
         NEW page, Reply(c, page) \/ ReplyError(c, page)
  PROVE  Honest'
<1>1. host' = host /\ request[c].tool = tool
      /\ \/ request' = [request EXCEPT ![c].page = page]
         \/ request' = [request EXCEPT ![c].page = page, ![c].error = TRUE]
  BY DEF Ready, Reply, ReplyError
<1>2. request'[c].tool = tool /\ \A d \in Clients \ {c} : request'[d] = request[d]
  BY <1>1 DEF Honest, Safe, Kept, Shape, Idle
<1>3. \A d \in Clients \ {c} : Steady(request[d], request'[d], host, host')
  BY <1>1, <1>2 DEF Steady
<1> QED BY <1>1, <1>2, <1>3, HonestStep DEF Honest

(* What is noted leaves every request as it is otherwise.                  *)
LEMMA NotedIsSteady ==
  ASSUME Honest, NEW event, NEW own, NEW g,
         event # "reindex" => g.indexed = host.indexed,
         event # "upgrade" => g.release = host.release
  PROVE  /\ DOMAIN Noted(event, own) = Clients
         /\ \A d \in Clients : DOMAIN Noted(event, own)[d] = DOMAIN Idle
         /\ \A d \in Clients :
              LET s == Noted(event, own)[d]
              IN  \/ s.tool \notin ToldFromReadings /\ s.tool = request[d].tool
                  \/ d \in own /\ s = request[d]
                  \/ Steady(request[d], s, host, g)
<1> SUFFICES ASSUME NEW d \in Clients
             PROVE  LET s == Noted(event, own)[d]
                    IN  /\ DOMAIN s = DOMAIN Idle
                        /\ \/ s.tool \notin ToldFromReadings /\ s.tool = request[d].tool
                           \/ d \in own /\ s = request[d]
                           \/ Steady(request[d], s, host, g)
  BY DEF Noted
<1> PICK s : s = Noted(event, own)[d] OBVIOUS
<1>1. DOMAIN request[d] = DOMAIN Idle BY DEF Honest, Safe, Kept, Shape
<1>2. CASE request[d].tool = "none" BY <1>1, <1>2 DEF Noted, ToldFromReadings
<1>3. CASE d \in own BY <1>1, <1>3 DEF Noted
<1>4. CASE request[d].tool # "none" /\ d \notin own
  <2>1. s = [request[d] EXCEPT !.during = @ \union {event}] BY <1>4 DEF Noted
  <2>2. DOMAIN s = DOMAIN Idle BY <1>1, <2>1
  <2>3. s.during = request[d].during \union {event} /\ s.tool = request[d].tool
        /\ s.args = request[d].args /\ s.read = request[d].read /\ s.page = request[d].page
        /\ s.error = request[d].error
    BY <1>1, <2>1 DEF Idle
  <2> QED BY <2>2, <2>3 DEF Steady
<1> QED BY <1>2, <1>3, <1>4

(* What happens to the host is noted with every request that it makes      *)
(* stale.                                                                  *)
LEMMA HappensHonest ==
  ASSUME Honest, Safe', NEW event, NEW changed \in Hosts, Happens(event, changed),
         event # "reindex" => changed.indexed = host.indexed,
         event # "upgrade" => changed.release = host.release
  PROVE  Honest'
<1>1. host' = changed /\ request' = Noted(event, {}) BY DEF Happens
<1>2. \A d \in Clients : \/ request'[d].tool \notin ToldFromReadings
                         \/ Steady(request[d], request'[d], host, changed)
  BY <1>1, NotedIsSteady
<1> QED BY <1>1, <1>2, HonestStep

(* The three events of the host.                                           *)
LEMMA HostGoesOn ==
  ASSUME Honest, Safe', Upgrade \/ Decide \/ Reindex
  PROVE  Honest'
<1> host.release \in Nat /\ host.decided \in Nat /\ host.indexed \in Nat
    /\ host = [release |-> host.release, decided |-> host.decided, indexed |-> host.indexed]
  BY DEF Honest, Hosts
<1>1. CASE Upgrade
  <2> PICK changed : changed = [host EXCEPT !.release = @ + 1] OBVIOUS
  <2>1. changed \in Hosts /\ changed.indexed = host.indexed BY DEF Hosts
  <2> QED BY <1>1, <2>1, HappensHonest DEF Upgrade
<1>2. CASE Decide
  <2> PICK changed : changed = [host EXCEPT !.decided = @ + 1] OBVIOUS
  <2>1. changed \in Hosts /\ changed.indexed = host.indexed /\ changed.release = host.release
    BY DEF Hosts
  <2> QED BY <1>2, <2>1, HappensHonest DEF Decide
<1>3. CASE Reindex
  <2> PICK changed : changed = [host EXCEPT !.indexed = host.decided] OBVIOUS
  <2>1. changed \in Hosts /\ changed.release = host.release BY DEF Hosts
  <2> QED BY <1>3, <2>1, HappensHonest DEF Reindex
<1> QED BY <1>1, <1>2, <1>3

(* A crash leaves nothing to be honest about.                              *)
LEMMA CrashHonest == ASSUME Honest, Safe', Crash PROVE Honest'
<1>1. request' = [c \in Clients |-> Idle] /\ host' = host BY DEF Crash
<1>2. \A c \in Clients : request'[c].tool = "none" BY <1>1 DEF Idle
<1> QED BY <1>1, <1>2, HonestStep DEF Honest, ToldFromReadings

(* Nor does an answer that has been delivered.                             *)
LEMMA DeliveredHonest == ASSUME Honest, Safe', NEW c \in Clients, Delivered(c) PROVE Honest'
<1>1. request' = [request EXCEPT ![c] = Idle] /\ host' = host BY DEF Delivered
<1>2. request'[c].tool = "none" /\ \A d \in Clients \ {c} : request'[d] = request[d]
  BY <1>1 DEF Honest, Safe, Kept, Shape, Idle
<1>3. \A d \in Clients \ {c} : Steady(request[d], request'[d], host, host')
  BY <1>1, <1>2 DEF Steady
<1> QED BY <1>1, <1>2, <1>3, HonestStep DEF Honest, ToldFromReadings

(* A change of the language is noted and touches no reading.               *)
LEMMA SetLanguageHonest == ASSUME Honest, Safe', NEW c \in Clients, SetLanguage(c) PROVE Honest'
<1> PICK noted : noted = Noted("set_language", {c}) OBVIOUS
<1>1. PICK page : request' = [noted EXCEPT ![c].page = page] BY DEF SetLanguage
<1>2. request[c].tool = "set_language" /\ host' = host BY DEF SetLanguage, Ready
<1>3. /\ DOMAIN noted = Clients /\ \A d \in Clients : DOMAIN noted[d] = DOMAIN Idle
      /\ \A d \in Clients : \/ noted[d].tool \notin ToldFromReadings /\ noted[d].tool = request[d].tool
                            \/ d = c /\ noted[d] = request[d]
                            \/ Steady(request[d], noted[d], host, host)
  BY NotedIsSteady
<1>4. noted[c].tool = "set_language" BY <1>2, <1>3 DEF Steady
<1>5. request'[c].tool = "set_language" /\ \A d \in Clients \ {c} : request'[d] = noted[d]
  BY <1>1, <1>3, <1>4 DEF Idle
<1>6. \A d \in Clients : \/ request'[d].tool \notin ToldFromReadings
                         \/ Steady(request[d], request'[d], host, host')
  BY <1>2, <1>3, <1>5 DEF ToldFromReadings
<1>7. host' \in Hosts BY <1>2 DEF Honest
<1> QED BY <1>6, <1>7, HonestStep

(* Neither does the write of the catalog.                                  *)
LEMMA WriteHonest ==
  ASSUME Honest, Safe', NEW c \in Clients, WriteBegin(c) \/ WriteEnd(c) \/ WriteFails(c)
  PROVE  Honest'
<1>1. request[c].tool = "build_catalog"
  BY DEF WriteBegin, WriteEnd, WriteFails, Ready, Honest, Safe, Kept, WritersWait, Writing
<1>2. host' = host /\ host' \in Hosts
  BY DEF WriteBegin, WriteEnd, WriteFails, ReplyError, Honest
<1>3. CASE WriteEnd(c) \/ WriteFails(c) \/ ReplyError(c, Refused("write-failed"))
  <2>1. PICK page : \/ request' = [request EXCEPT ![c].page = page]
                    \/ request' = [request EXCEPT ![c].page = page, ![c].error = TRUE]
    BY <1>3 DEF WriteEnd, WriteFails, ReplyError
  <2>2. request'[c].tool = "build_catalog" /\ \A d \in Clients \ {c} : request'[d] = request[d]
    BY <1>1, <2>1 DEF Honest, Safe, Kept, Shape, Idle
  <2>3. \A d \in Clients \ {c} : Steady(request[d], request'[d], host, host')
    BY <1>2, <2>2 DEF Steady
  <2> QED BY <1>2, <2>2, <2>3, HonestStep DEF ToldFromReadings
<1>4. CASE WriteBegin(c) /\ ~ReplyError(c, Refused("write-failed"))
  <2> PICK noted : noted = Noted("write", {c}) OBVIOUS
  <2>1. PICK told : request' = [noted EXCEPT ![c].during = @ \union told]
    BY <1>4 DEF WriteBegin
  <2>2. /\ DOMAIN noted = Clients /\ \A d \in Clients : DOMAIN noted[d] = DOMAIN Idle
        /\ \A d \in Clients : \/ noted[d].tool \notin ToldFromReadings /\ noted[d].tool = request[d].tool
                              \/ d = c /\ noted[d] = request[d]
                              \/ Steady(request[d], noted[d], host, host)
    BY NotedIsSteady
  <2>3. noted[c].tool = "build_catalog" BY <1>1, <2>2 DEF Steady
  <2>4. request'[c].tool = "build_catalog" /\ \A d \in Clients \ {c} : request'[d] = noted[d]
    BY <2>1, <2>2, <2>3 DEF Idle
  <2>5. \A d \in Clients : \/ request'[d].tool \notin ToldFromReadings
                           \/ Steady(request[d], request'[d], host, host')
    BY <1>2, <2>2, <2>4 DEF ToldFromReadings
  <2> QED BY <1>2, <2>5, HonestStep
<1> QED BY <1>3, <1>4

(* Of the answers about tools the readings count, not their page.          *)
LEMMA ToolAnswersHonest ==
  ASSUME Honest, Safe', NEW c \in Clients, NEW tool \in {"list_tools", "assign_tool_bundles"},
         Ready(c, tool), NEW page, Reply(c, page)
  PROVE  Honest'
<1> PICK r : r = request[c] OBVIOUS
<1> PICK s : s = request'[c] OBVIOUS
<1>1. request' = [request EXCEPT ![c].page = page] /\ host' = host BY DEF Reply
<1>2. s.tool = r.tool /\ s.args = r.args /\ s.read = r.read /\ s.error = r.error
      /\ s.during = r.during /\ \A d \in Clients \ {c} : request'[d] = request[d]
  BY <1>1 DEF Honest, Safe, Kept, Shape, Idle
<1>3. Sound(r, host) /\ r.tool = tool /\ ~r.error /\ DOMAIN r.read = Elements(Order(r))
  BY ReadyIsRead DEF Honest, ToldFromReadings
<1>4. Order(s) = Order(r) BY <1>2 DEF Order
<1>5. AsRead(s) BY <1>2, <1>3 DEF AsRead
<1>6. Sound(s, host')
  <2>1. ReadInOrder(s) BY <1>2, <1>3, <1>4 DEF Sound, ReadInOrder, ToldFromReadings
  <2>2. SameIndex(r, host) => SameIndex(s, host) BY <1>2 DEF SameIndex
  <2>3. SameRelease(r, host) => SameRelease(s, host) BY <1>2 DEF SameRelease
  <2>4. Queried(s) BY <1>2, <1>3 DEF Queried
  <2> QED BY <1>1, <1>2, <1>3, <1>4, <1>5, <2>1, <2>2, <2>3, <2>4 DEF Sound, ToldFromReadings
<1>7. \A d \in Clients \ {c} : Steady(request[d], request'[d], host, host')
  BY <1>1, <1>2 DEF Steady
<1>8. host' \in Hosts BY <1>1 DEF Honest
<1> QED BY <1>6, <1>7, <1>8, HonestStep

(* Each of these answers is made of what its handler has read.             *)
LEMMA ToldAnswersHonest ==
  ASSUME Honest, Safe', NEW c \in Clients,
         \/ ListLocksFor(c) \/ CheckLockFor(c) \/ EvaluatePermissionFor(c) \/ ListDecisionsFor(c)
         \/ ListGovernanceFor(c) \/ ListAvailableTools(c) \/ AuditProfile(c) \/ ActualSelfReceipt(c)
         \/ SemanticRoute(c) \/ ContextPack(c) \/ FindCapability(c) \/ ListTools(c) \/ AssignToolBundles(c)
  PROVE  Honest'
<1> PICK r : r = request[c] OBVIOUS
<1>1. \A page, x : page = <<x>> => page # <<>> OBVIOUS
<1>2. DOMAIN r = DOMAIN Idle BY DEF Honest, Safe, Kept, Shape
<1>3. CASE ListLocksFor(c)
  <2> PICK page :
          page = <<FormatLockList(ListLocks(r.read["lockRoots"], r.read["lockScans"], r.read["bridge"]))>>
    OBVIOUS
  <2>1. Ready(c, "list_locks") /\ Reply(c, page) BY <1>3 DEF ListLocksFor
  <2>2. page # <<>> OBVIOUS
  <2> PICK s : s = [r EXCEPT !.page = page] OBVIOUS
  <2>3. s.tool = "list_locks" /\ s.args = r.args /\ s.read = r.read /\ s.page = page
    BY <1>2, <2>1 DEF Ready, Idle
  <2>4. AsRead(s) BY <2>3 DEF AsRead
  <2> QED BY <2>1, <2>2, <2>4, AnswersAsRead DEF ToldFromReadings
<1>4. CASE CheckLockFor(c)
  <2> PICK page :
          page = <<FormatLockCheck(CheckLock(r.read["lockScripts"], r.read["lockReply"], r.read["bridge"]))>>
    OBVIOUS
  <2>1. Ready(c, "check_lock") /\ Reply(c, page) BY <1>4 DEF CheckLockFor
  <2>2. page # <<>> OBVIOUS
  <2> PICK s : s = [r EXCEPT !.page = page] OBVIOUS
  <2>3. s.tool = "check_lock" /\ s.args = r.args /\ s.read = r.read /\ s.page = page
    BY <1>2, <2>1 DEF Ready, Idle
  <2>4. AsRead(s) BY <2>3 DEF AsRead
  <2> QED BY <2>1, <2>2, <2>4, AnswersAsRead DEF ToldFromReadings
<1>5. CASE EvaluatePermissionFor(c)
  <2> PICK page :
          page = <<FormatPermission(EvaluatePermission(r.read["lockScripts"], r.read["place"],
                                                       r.read["bridge"]))>>
    OBVIOUS
  <2>1. Ready(c, "evaluate_permission") /\ Reply(c, page) BY <1>5 DEF EvaluatePermissionFor
  <2>2. page # <<>> OBVIOUS
  <2> PICK s : s = [r EXCEPT !.page = page] OBVIOUS
  <2>3. s.tool = "evaluate_permission" /\ s.args = r.args /\ s.read = r.read /\ s.page = page
    BY <1>2, <2>1 DEF Ready, Idle
  <2>4. AsRead(s) BY <2>3 DEF AsRead
  <2> QED BY <2>1, <2>2, <2>4, AnswersAsRead DEF ToldFromReadings
<1>6. CASE ListDecisionsFor(c)
  <2> PICK page :
          page = <<FormatDecisions(ListDecisions(r.read["index"], r.read["chain"], r.read["bridge"],
                                                 r.args.limit))>>
    OBVIOUS
  <2>1. Ready(c, "list_decisions") /\ Reply(c, page) BY <1>6 DEF ListDecisionsFor
  <2>2. page # <<>> OBVIOUS
  <2> PICK s : s = [r EXCEPT !.page = page] OBVIOUS
  <2>3. s.tool = "list_decisions" /\ s.args = r.args /\ s.read = r.read /\ s.page = page
    BY <1>2, <2>1 DEF Ready, Idle
  <2>4. AsRead(s) BY <2>3 DEF AsRead
  <2> QED BY <2>1, <2>2, <2>4, AnswersAsRead DEF ToldFromReadings
<1>7. CASE ListGovernanceFor(c)
  <2> PICK page :
          page = <<FormatGovernance(ListGovernance(r.read["index"], r.read["chain"], r.read["registry"],
                                                   r.read["plans"], r.read["bridge"], r.args.limit))>>
    OBVIOUS
  <2>1. Ready(c, "list_governance") /\ Reply(c, page) BY <1>7 DEF ListGovernanceFor
  <2>2. page # <<>> OBVIOUS
  <2> PICK s : s = [r EXCEPT !.page = page] OBVIOUS
  <2>3. s.tool = "list_governance" /\ s.args = r.args /\ s.read = r.read /\ s.page = page
    BY <1>2, <2>1 DEF Ready, Idle
  <2>4. AsRead(s) BY <2>3 DEF AsRead
  <2> QED BY <2>1, <2>2, <2>4, AnswersAsRead DEF ToldFromReadings
<1>8. CASE ListAvailableTools(c)
  <2> PICK page :
          page = <<FormatGatewayToolListing(ListGatewayTools(r.read["gatewayScope"],
                                                             r.read["serverTools"], r.args.server))>>
    OBVIOUS
  <2>1. Ready(c, "list_available_tools") /\ Reply(c, page) BY <1>8 DEF ListAvailableTools
  <2>2. page # <<>> OBVIOUS
  <2> PICK s : s = [r EXCEPT !.page = page] OBVIOUS
  <2>3. s.tool = "list_available_tools" /\ s.args = r.args /\ s.read = r.read /\ s.page = page
    BY <1>2, <2>1 DEF Ready, Idle
  <2>4. AsRead(s) BY <2>3 DEF AsRead
  <2> QED BY <2>1, <2>2, <2>4, AnswersAsRead DEF ToldFromReadings
<1>9. CASE ActualSelfReceipt(c)
  <2> PICK page : page = <<Plain("receipt", ProduceActualSelfReceipt(r.read["receiptConfig"], r.read["key"],
                                                              r.read["version"], r.read["probe"]))>> OBVIOUS
  <2>1. Ready(c, "actual_self_receipt") /\ Reply(c, page) BY <1>9 DEF ActualSelfReceipt
  <2>2. page # <<>> OBVIOUS
  <2> PICK s : s = [r EXCEPT !.page = page] OBVIOUS
  <2>3. s.tool = "actual_self_receipt" /\ s.args = r.args /\ s.read = r.read /\ s.page = page
    BY <1>2, <2>1 DEF Ready, Idle
  <2>4. AsRead(s) BY <2>3 DEF AsRead
  <2> QED BY <2>1, <2>2, <2>4, AnswersAsRead DEF ToldFromReadings
<1>10. CASE AuditProfile(c)
  <2> PICK findings : findings = AuditResolvedProfile(r.read["profile"].value.servers,
                                                      LoadPolicyRules(r.read["policy"]).value)
    OBVIOUS
  <2>1. PICK first : Reply(c, <<first, Part(language, "findings", findings)>>)
    BY <1>10 DEF AuditProfile
  <2> PICK page : page = <<first, Part(language, "findings", findings)>> OBVIOUS
  <2>2. Ready(c, "audit_profile") /\ Reply(c, page) BY <1>10, <2>1 DEF AuditProfile
  <2>3. page # <<>> /\ page[2].shows = findings BY DEF Part
  <2> PICK s : s = [r EXCEPT !.page = page] OBVIOUS
  <2>4. s.tool = "audit_profile" /\ s.args = r.args /\ s.read = r.read /\ s.page = page
    BY <1>2, <2>2 DEF Ready, Idle
  <2>5. AsRead(s) BY <2>3, <2>4 DEF AsRead
  <2> QED BY <2>2, <2>3, <2>5, AnswersAsRead DEF ToldFromReadings
<1>11. CASE SemanticRoute(c)
  <2> PICK route : route = RouteFor(r) OBVIOUS
  <2>1. Ready(c, "resolve_semantic_route") BY <1>11 DEF SemanticRoute
  <2>2. CASE route.ok
    <3> PICK page : page = <<Plain("route", route.value)>> OBVIOUS
    <3>1. Reply(c, page) /\ page # <<>> BY <1>11, <2>2 DEF SemanticRoute, RouteFor
    <3> PICK s : s = [r EXCEPT !.page = page] OBVIOUS
    <3>2. s.tool = "resolve_semantic_route" /\ s.args = r.args /\ s.read = r.read /\ s.page = page
      BY <1>2, <2>1 DEF Ready, Idle
    <3>3. RouteFor(s) = route BY <3>2 DEF RouteFor, SkillsOf
    <3>4. AsRead(s) BY <2>2, <3>2, <3>3 DEF AsRead
    <3> QED BY <2>1, <3>1, <3>4, AnswersAsRead DEF ToldFromReadings
  <2>3. CASE ~route.ok
    <3>1. ReplyError(c, Refused(route.code)) BY <1>11, <2>3 DEF SemanticRoute, RouteFor
    <3>2. Refused(route.code) # <<>> BY DEF Refused
    <3> QED BY <2>1, <3>1, <3>2, AnswersRefused DEF ToldFromReadings
  <2> QED BY <2>2, <2>3
<1>12. CASE ContextPack(c)
  <2> PICK stack : stack = StackOf(r) OBVIOUS
  <2>1. Ready(c, "context_pack") BY <1>12 DEF ContextPack
  <2>2. CASE stack.ok
    <3> PICK page : page = <<Plain("pack", BuildStackContextPack(r.args.level, stack.value))>> OBVIOUS
    <3>1. Reply(c, page) /\ page # <<>> BY <1>12, <2>2 DEF ContextPack, StackOf
    <3> PICK s : s = [r EXCEPT !.page = page] OBVIOUS
    <3>2. s.tool = "context_pack" /\ s.args = r.args /\ s.read = r.read /\ s.page = page
      BY <1>2, <2>1 DEF Ready, Idle
    <3>3. StackOf(s) = stack BY <3>2 DEF StackOf
    <3>4. AsRead(s) BY <2>2, <3>2, <3>3 DEF AsRead
    <3> QED BY <2>1, <3>1, <3>4, AnswersAsRead DEF ToldFromReadings
  <2>3. CASE ~stack.ok
    <3>1. ReplyError(c, Refused(stack.code)) BY <1>12, <2>3 DEF ContextPack, StackOf
    <3>2. Refused(stack.code) # <<>> BY DEF Refused
    <3> QED BY <2>1, <3>1, <3>2, AnswersRefused DEF ToldFromReadings
  <2> QED BY <2>2, <2>3
<1>13. CASE FindCapability(c)
  <2> PICK found : found = FoundFor(r) OBVIOUS
  <2>1. Ready(c, "find_capability") BY <1>13 DEF FindCapability
  <2>2. CASE found.ok
    <3> PICK page : page = <<Plain("found", found.value)>> OBVIOUS
    <3>1. Reply(c, page) /\ page # <<>> BY <1>13, <2>2 DEF FindCapability, FoundFor
    <3> PICK s : s = [r EXCEPT !.page = page] OBVIOUS
    <3>2. s.tool = "find_capability" /\ s.args = r.args /\ s.read = r.read /\ s.page = page
      BY <1>2, <2>1 DEF Ready, Idle
    <3>3. FoundFor(s) = found BY <3>2 DEF FoundFor
    <3>4. AsRead(s) BY <2>2, <3>2, <3>3 DEF AsRead
    <3> QED BY <2>1, <3>1, <3>4, AnswersAsRead DEF ToldFromReadings
  <2>3. CASE ~found.ok
    <3>1. ReplyError(c, Refused(found.code)) BY <1>13, <2>3 DEF FindCapability, FoundFor
    <3>2. Refused(found.code) # <<>> BY DEF Refused
    <3> QED BY <2>1, <3>1, <3>2, AnswersRefused DEF ToldFromReadings
  <2> QED BY <2>2, <2>3
<1>14. CASE ListTools(c)
  <2>1. PICK page : Ready(c, "list_tools") /\ Reply(c, page) BY <1>14 DEF ListTools
  <2> QED BY <2>1, ToolAnswersHonest
<1>15. CASE AssignToolBundles(c)
  <2>1. PICK page : Ready(c, "assign_tool_bundles") /\ Reply(c, page) BY <1>15 DEF AssignToolBundles
  <2> QED BY <2>1, ToolAnswersHonest
<1> QED
  BY <1>3, <1>4, <1>5, <1>6, <1>7, <1>8, <1>9, <1>10, <1>11, <1>12, <1>13, <1>14, <1>15

(* No other answer has part in it.                                         *)
LEMMA AnswerHonest == ASSUME Honest, Safe', NEW c \in Clients, Answer(c) PROVE Honest'
<1>1. CASE GetLanguage(c) BY <1>1, AnswersElsewhere DEF GetLanguage, ToldFromReadings
<1>2. CASE Status(c) BY <1>2, AnswersElsewhere DEF Status, ToldFromReadings
<1>3. CASE ListLocalServers(c) BY <1>3, AnswersElsewhere DEF ListLocalServers, ToldFromReadings
<1>4. CASE DescribeMcp(c) BY <1>4, AnswersElsewhere DEF DescribeMcp, ToldFromReadings
<1>5. CASE ListBundles(c) BY <1>5, AnswersElsewhere DEF ListBundles, ToldFromReadings
<1>6. CASE SuggestBundles(c) BY <1>6, AnswersElsewhere DEF SuggestBundles, ToldFromReadings
<1>7. CASE ListProfiles(c) BY <1>7, AnswersElsewhere DEF ListProfiles, ToldFromReadings
<1>8. CASE SuggestProfileFor(c) BY <1>8, AnswersElsewhere DEF SuggestProfileFor, ToldFromReadings
<1>9. CASE ResolveProfile(c) BY <1>9, AnswersElsewhere DEF ResolveProfile, ToldFromReadings
<1>10. CASE SwitchProfile(c) BY <1>10, AnswersElsewhere DEF SwitchProfile, ToldFromReadings
<1>11. CASE ListStacks(c) BY <1>11, AnswersElsewhere DEF ListStacks, ToldFromReadings
<1>12. CASE DescribeStackFor(c) BY <1>12, AnswersElsewhere DEF DescribeStackFor, ToldFromReadings
<1>13. CASE ToolOverview(c) BY <1>13, AnswersElsewhere DEF ToolOverview, ToldFromReadings
<1>14. CASE ListSkills(c) BY <1>14, AnswersElsewhere DEF ListSkills, ToldFromReadings
<1>15. CASE FindSkill(c) BY <1>15, AnswersElsewhere DEF FindSkill, ToldFromReadings
<1>16. CASE ListPlugins(c) BY <1>16, AnswersElsewhere DEF ListPlugins, ToldFromReadings
<1>17. CASE ListResourcesFor(c) BY <1>17, AnswersElsewhere DEF ListResourcesFor, ToldFromReadings
<1>18. CASE DescribeResourceFor(c) BY <1>18, AnswersElsewhere DEF DescribeResourceFor, ToldFromReadings
<1>19. CASE Invoke(c) BY <1>19, AnswersElsewhere DEF Invoke, ToldFromReadings
<1>20. CASE \/ ListLocksFor(c) \/ CheckLockFor(c) \/ EvaluatePermissionFor(c) \/ ListDecisionsFor(c)
          \/ ListGovernanceFor(c) \/ ListAvailableTools(c) \/ AuditProfile(c) \/ ActualSelfReceipt(c)
          \/ SemanticRoute(c) \/ ContextPack(c) \/ FindCapability(c) \/ ListTools(c) \/ AssignToolBundles(c)
  BY <1>20, ToldAnswersHonest
<1>21. CASE SetLanguage(c) BY <1>21, SetLanguageHonest
<1>22. CASE WriteBegin(c) \/ WriteEnd(c) \/ WriteFails(c) BY <1>22, WriteHonest
<1> QED
  BY <1>1, <1>2, <1>3, <1>4, <1>5, <1>6, <1>7, <1>8, <1>9, <1>10, <1>11, <1>12, <1>13,
     <1>14, <1>15, <1>16, <1>17, <1>18, <1>19, <1>20, <1>21, <1>22 DEF Answer

(* Every step of the server, of a request or of the host keeps the second  *)
(* invariant.                                                              *)
THEOREM HonestIsInductive == ASSUME Honest, [Next]_vars PROVE Honest'
<1>1. Safe' BY SafeIsInductive DEF Honest
<1>2. ASSUME NEW c \in Clients, Begin(c) PROVE Honest' BY <1>1, <1>2, BeginHonest
<1>3. ASSUME NEW c \in Clients, Read(c) PROVE Honest' BY <1>1, <1>3, ReadHonest
<1>4. ASSUME NEW c \in Clients, Answer(c) PROVE Honest' BY <1>1, <1>4, AnswerHonest
<1>5. ASSUME NEW c \in Clients, Delivered(c) PROVE Honest' BY <1>1, <1>5, DeliveredHonest
<1>6. CASE Crash BY <1>1, <1>6, CrashHonest
<1>7. CASE Upgrade \/ Decide \/ Reindex BY <1>1, <1>7, HostGoesOn
<1>8. CASE UNCHANGED vars BY <1>8 DEF vars, Honest, Safe
<1> QED BY <1>2, <1>3, <1>4, <1>5, <1>6, <1>7, <1>8 DEF Next

--------------------------------------------------------------------------------
(* What the invariant says of an answer that was given.                    *)
LEMMA AnsweredAsRead ==
  ASSUME Honest, NEW c \in Clients, NEW tool \in ToldFromReadings, Answered(c, tool)
  PROVE  /\ request[c].tool = tool /\ AsRead(request[c])
         /\ DOMAIN request[c].read = Elements(Awaits(tool, request[c].args))
         /\ \A s \in DOMAIN request[c].read :
              Possible(s, request[c].read[s]) /\ Loaded(request[c].read, s).ok
         /\ "reindex" \notin request[c].during => SameIndex(request[c], host)
         /\ "upgrade" \notin request[c].during => SameRelease(request[c], host)
BY DEF Honest, Sound, Answered, Order

(* The elements of a short tuple, by name.                                 *)
LEMMA NamedElements ==
  /\ \A a, b : {a, b} \subseteq Elements(<<a, b>>)
  /\ \A a, b, d : {a, b, d} \subseteq Elements(<<a, b, d>>)
  /\ \A a, b, d, e : {a, b, d, e} \subseteq Elements(<<a, b, d, e>>)
  /\ \A a, b, d, e, f : {a, b, d, e, f} \subseteq Elements(<<a, b, d, e, f>>)
<1>1. \A a, b : {a, b} \subseteq Elements(<<a, b>>)
  <2> TAKE a, b
  <2> PICK s : s = <<a, b>> OBVIOUS
  <2>1. 1 \in DOMAIN s /\ 2 \in DOMAIN s /\ s[1] = a /\ s[2] = b OBVIOUS
  <2> QED BY <2>1 DEF Elements
<1>2. \A a, b, d : {a, b, d} \subseteq Elements(<<a, b, d>>)
  <2> TAKE a, b, d
  <2> PICK s : s = <<a, b, d>> OBVIOUS
  <2>1. {1, 2, 3} \subseteq DOMAIN s /\ s[1] = a /\ s[2] = b /\ s[3] = d OBVIOUS
  <2> QED BY <2>1 DEF Elements
<1>3. \A a, b, d, e : {a, b, d, e} \subseteq Elements(<<a, b, d, e>>)
  <2> TAKE a, b, d, e
  <2> PICK s : s = <<a, b, d, e>> OBVIOUS
  <2>1. {1, 2, 3, 4} \subseteq DOMAIN s /\ s[1] = a /\ s[2] = b /\ s[3] = d /\ s[4] = e OBVIOUS
  <2> QED BY <2>1 DEF Elements
<1>4. \A a, b, d, e, f : {a, b, d, e, f} \subseteq Elements(<<a, b, d, e, f>>)
  <2> TAKE a, b, d, e, f
  <2> PICK s : s = <<a, b, d, e, f>> OBVIOUS
  <2>1. {1, 2, 3, 4, 5} \subseteq DOMAIN s /\ s[1] = a /\ s[2] = b /\ s[3] = d /\ s[4] = e /\ s[5] = f
    OBVIOUS
  <2> QED BY <2>1 DEF Elements
<1> QED BY <1>1, <1>2, <1>3, <1>4

(* What is shown on a page of one part.                                    *)
LEMMA ShownAsRead ==
  ASSUME NEW c, NEW page, request[c].page = <<page>>
  PROVE  Shown(c, 1) = page.shows
BY DEF Shown

(* The properties follow: a list told to be current is as long as the      *)
(* index its age was compared with.                                        *)
LEMMA HonestIsFresh == ASSUME Honest PROVE StaleUnlessReindexed
<1> SUFFICES ASSUME NEW c \in Clients, "reindex" \notin request[c].during,
                    Answered(c, "list_decisions") \/ Answered(c, "list_governance"),
                    IF request[c].tool = "list_decisions" THEN ~Shown(c, 1).reason
                    ELSE Shown(c, 1).status["decisions"] = "available",
                    ~Shown(c, 1).stale
             PROVE  ~(Len(request[c].read["index"].entries) < request[c].read["chain"].decided)
  BY DEF StaleUnlessReindexed
<1> PICK r : r = request[c] OBVIOUS
<1> PICK told : told = Shown(c, 1) OBVIOUS
<1>1. PICK tool \in {"list_decisions", "list_governance"} : Answered(c, tool) OBVIOUS
<1>2. /\ r.tool = tool /\ AsRead(r) /\ SameIndex(r, host)
      /\ DOMAIN r.read = Elements(Awaits(tool, r.args))
      /\ \A s \in DOMAIN r.read : Possible(s, r.read[s])
  BY <1>1, AnsweredAsRead DEF ToldFromReadings
<1>3. /\ "index" \in DOMAIN r.read /\ "chain" \in DOMAIN r.read
      /\ tool = "list_governance" =>
           {"registry", "plans", "bridge"} \subseteq DOMAIN r.read
  BY <1>2, NamedElements DEF Awaits
<1>4. /\ r.read["index"].state \in IndexStates
      /\ r.read["chain"].decided \in Nat /\ r.read["chain"].indexed \in Nat
  BY <1>2, <1>3 DEF Possible
<1>5. r.read["index"].state = "list" /\ r.read["chain"].decided <= r.read["chain"].indexed
  <2>1. CASE tool = "list_decisions"
    <3>1. told = FormatDecisions(ListDecisions(r.read["index"], r.read["chain"], r.read["bridge"],
                                               r.args.limit)).shows
      BY <1>2, <2>1, ShownAsRead DEF AsRead
    <3>2. ~told.reason /\ ~told.stale BY <1>2, <2>1
    <3> QED BY <1>4, <3>1, <3>2, DecisionsAsTold
  <2>2. CASE tool = "list_governance"
    <3>1. told = FormatGovernance(ListGovernance(r.read["index"], r.read["chain"], r.read["registry"],
                                                 r.read["plans"], r.read["bridge"], r.args.limit)).shows
      BY <1>2, <2>2, ShownAsRead DEF AsRead
    <3>2. r.read["registry"].state \in RegisterStates /\ r.read["plans"].state \in RegisterStates
          /\ r.read["bridge"] \in {"answered", "failed"}
      BY <1>2, <1>3, <2>2 DEF Possible
    <3>3. told.status["decisions"] = "available" /\ ~told.stale BY <1>2, <2>2
    <3>9. PICK index, chain, registry, plans, bridge, limit :
          /\ index = r.read["index"] /\ chain = r.read["chain"] /\ registry = r.read["registry"]
          /\ plans = r.read["plans"] /\ bridge = r.read["bridge"] /\ limit = r.args.limit
      OBVIOUS
    <3>10. index.state \in IndexStates /\ registry.state \in RegisterStates
          /\ plans.state \in RegisterStates /\ bridge \in {"answered", "failed"}
      BY <1>4, <3>2, <3>9
    <3>11. told = FormatGovernance(ListGovernance(index, chain, registry, plans, bridge, limit)).shows
      BY <3>1, <3>9
    <3>4. told.status["decisions"] = "available" /\ ~told.stale =>
            index.state = "list" /\ chain.decided <= chain.indexed
      BY <3>10, <3>11, GovernanceAsTold
    <3> QED BY <3>3, <3>4, <3>9
  <2> QED BY <2>1, <2>2
<1>6. Len(r.read["index"].entries) = r.read["chain"].indexed
  BY <1>2, <1>3, <1>5 DEF SameIndex
<1> QED BY <1>4, <1>5, <1>6

(* What reassures was read.                                                *)
LEMMA HonestIsCertain == ASSUME Honest PROVE UnknownNeverReassures
<1> SUFFICES ASSUME NEW c \in Clients
             PROVE  LET read == request[c].read
                        told(tool) == Answered(c, tool)
                        asked == read["bridge"] = "answered"
                    IN  /\ told("list_locks") /\ Shown(c, 1).complete =>
                             /\ asked /\ read["lockRoots"].state = "list"
                             /\ \A s \in Elements(read["lockScans"]) : s.readable /\ ~s.late
                        /\ told("check_lock") /\ (Shown(c, 1).safe \/ Shown(c, 1).banner = "clear") =>
                             /\ asked /\ read["lockScripts"].state = "list"
                             /\ read["lockReply"].verdict = "clear"
                        /\ told("evaluate_permission") /\ Shown(c, 1) = "allow" =>
                             /\ asked /\ read["lockScripts"].state = "list" /\ read["place"].exists
                             /\ \E r \in Elements(read["place"].registers) : r = "allow"
                        /\ told("list_governance") /\ Shown(c, 1).complete =>
                             /\ asked /\ {read[s].state : s \in {"index", "registry", "plans"}} = {"list"}
                        /\ told("list_available_tools") /\ Shown(c, 1).complete =>
                             /\ ~read["gatewayScope"].error
                             /\ \A s \in read["gatewayScope"].targets :
                                  request[c].args.server \in {0, s} => read["serverTools"][s].status = "ok"
  BY DEF UnknownNeverReassures
<1> PICK q : q = request[c] OBVIOUS
<1> PICK told : told = Shown(c, 1) OBVIOUS
<1>1. ASSUME Answered(c, "list_locks"), told.complete
      PROVE  /\ q.read["bridge"] = "answered" /\ q.read["lockRoots"].state = "list"
             /\ \A s \in Elements(q.read["lockScans"]) : s.readable /\ ~s.late
  <2>1. /\ q.tool = "list_locks" /\ AsRead(q) /\ DOMAIN q.read = Elements(Awaits("list_locks", q.args))
        /\ \A s \in DOMAIN q.read : Possible(s, q.read[s])
    BY <1>1, AnsweredAsRead DEF ToldFromReadings
  <2>2. "bridge" \in DOMAIN q.read /\ "lockScans" \in DOMAIN q.read BY <2>1, NamedElements DEF Awaits
  <2>3. q.read["bridge"] \in {"answered", "failed"} /\ DOMAIN q.read["lockScans"] \subseteq Nat \ {0}
    BY <2>1, <2>2 DEF Possible
  <2>4. told = FormatLockList(ListLocks(q.read["lockRoots"], q.read["lockScans"], q.read["bridge"])).shows
    BY <2>1, ShownAsRead DEF AsRead
  <2> QED BY <1>1, <2>3, <2>4, LocksAsTold
<1>2. ASSUME Answered(c, "check_lock"), told.safe \/ told.banner = "clear"
      PROVE  /\ q.read["bridge"] = "answered" /\ q.read["lockScripts"].state = "list"
             /\ q.read["lockReply"].verdict = "clear"
  <2>1. /\ q.tool = "check_lock" /\ AsRead(q) /\ DOMAIN q.read = Elements(Awaits("check_lock", q.args))
        /\ \A s \in DOMAIN q.read : Possible(s, q.read[s])
    BY <1>2, AnsweredAsRead DEF ToldFromReadings
  <2>2. {"lockScripts", "lockReply", "bridge"} \subseteq DOMAIN q.read BY <2>1, NamedElements DEF Awaits
  <2>3. /\ q.read["bridge"] \in {"answered", "failed"}
        /\ q.read["lockScripts"].state \in {"unconfigured", "list"}
        /\ Field(q.read["lockReply"], "safe", FALSE) => q.read["lockReply"].verdict = "clear"
    BY <2>1, <2>2 DEF Possible
  <2>4. told = FormatLockCheck(CheckLock(q.read["lockScripts"], q.read["lockReply"], q.read["bridge"])).shows
    BY <2>1, ShownAsRead DEF AsRead
  <2>9. PICK scripts, reply, bridge :
        scripts = q.read["lockScripts"] /\ reply = q.read["lockReply"] /\ bridge = q.read["bridge"]
    OBVIOUS
  <2>5. /\ bridge \in {"answered", "failed"} /\ scripts.state \in {"unconfigured", "list"}
        /\ Field(reply, "safe", FALSE) => reply.verdict = "clear"
    BY <2>3, <2>9
  <2>6. told = FormatLockCheck(CheckLock(scripts, reply, bridge)).shows BY <2>4, <2>9
  <2>7. bridge = "answered" /\ scripts.state = "list" /\ reply.verdict = "clear"
    BY <1>2, <2>5, <2>6, CheckAsTold
  <2> QED BY <2>7, <2>9
<1>3. ASSUME Answered(c, "evaluate_permission"), told = "allow"
      PROVE  /\ q.read["bridge"] = "answered" /\ q.read["lockScripts"].state = "list"
             /\ q.read["place"].exists /\ \E r \in Elements(q.read["place"].registers) : r = "allow"
  <2>1. /\ q.tool = "evaluate_permission" /\ AsRead(q)
        /\ DOMAIN q.read = Elements(Awaits("evaluate_permission", q.args))
        /\ \A s \in DOMAIN q.read : Possible(s, q.read[s])
    BY <1>3, AnsweredAsRead DEF ToldFromReadings
  <2>2. {"lockScripts", "place", "bridge"} \subseteq DOMAIN q.read BY <2>1, NamedElements DEF Awaits
  <2>3. /\ q.read["bridge"] \in {"answered", "failed"}
        /\ q.read["lockScripts"].state \in {"unconfigured", "list"}
    BY <2>1, <2>2 DEF Possible
  <2>4. told = FormatPermission(EvaluatePermission(q.read["lockScripts"], q.read["place"],
                                                   q.read["bridge"])).shows
    BY <2>1, ShownAsRead DEF AsRead
  <2> QED BY <1>3, <2>3, <2>4, PermissionAsTold
<1>4. ASSUME Answered(c, "list_governance"), told.complete
      PROVE  /\ q.read["bridge"] = "answered"
             /\ {q.read[s].state : s \in {"index", "registry", "plans"}} = {"list"}
  <2>1. /\ q.tool = "list_governance" /\ AsRead(q)
        /\ DOMAIN q.read = Elements(Awaits("list_governance", q.args))
        /\ \A s \in DOMAIN q.read : Possible(s, q.read[s])
    BY <1>4, AnsweredAsRead DEF ToldFromReadings
  <2>2. {"index", "chain", "registry", "plans", "bridge"} \subseteq DOMAIN q.read
    BY <2>1, NamedElements DEF Awaits
  <2>3. /\ q.read["bridge"] \in {"answered", "failed"} /\ q.read["index"].state \in IndexStates
        /\ q.read["registry"].state \in RegisterStates /\ q.read["plans"].state \in RegisterStates
    BY <2>1, <2>2 DEF Possible
  <2>4. told = FormatGovernance(ListGovernance(q.read["index"], q.read["chain"], q.read["registry"],
                                               q.read["plans"], q.read["bridge"], q.args.limit)).shows
    BY <2>1, ShownAsRead DEF AsRead
  <2>5. /\ q.read["bridge"] = "answered"
        /\ {q.read["index"].state, q.read["registry"].state, q.read["plans"].state} = {"list"}
    <3>9. PICK index, chain, registry, plans, bridge, limit :
          /\ index = q.read["index"] /\ chain = q.read["chain"] /\ registry = q.read["registry"]
          /\ plans = q.read["plans"] /\ bridge = q.read["bridge"] /\ limit = q.args.limit
      OBVIOUS
    <3>10. index.state \in IndexStates /\ registry.state \in RegisterStates
          /\ plans.state \in RegisterStates /\ bridge \in {"answered", "failed"}
      BY <2>3, <3>9
    <3>11. told = FormatGovernance(ListGovernance(index, chain, registry, plans, bridge, limit)).shows
      BY <2>4, <3>9
    <3>1. /\ bridge = "answered"
          /\ index.state = "list" /\ registry.state = "list" /\ plans.state = "list"
      BY <1>4, <3>10, <3>11, GovernanceAsTold
    <3> QED BY <3>1, <3>9
  <2> QED BY <2>5
<1>5. ASSUME Answered(c, "list_available_tools"), told.complete
      PROVE  /\ ~q.read["gatewayScope"].error
             /\ \A s \in q.read["gatewayScope"].targets :
                  q.args.server \in {0, s} => q.read["serverTools"][s].status = "ok"
  <2>1. q.tool = "list_available_tools" /\ AsRead(q)
    BY <1>5, AnsweredAsRead DEF ToldFromReadings
  <2>2. told = FormatGatewayToolListing(ListGatewayTools(q.read["gatewayScope"], q.read["serverTools"],
                                                         q.args.server)).shows
    BY <2>1, ShownAsRead DEF AsRead
  <2> QED BY <1>5, <2>2, GatewayAsTold
<1> QED BY <1>1, <1>2, <1>3, <1>4, <1>5

(* What is matched is found or was switched off.                           *)
LEMMA HonestIsAudited == ASSUME Honest PROVE AuditNeverSilent
<1> SUFFICES ASSUME NEW c \in Clients, Answered(c, "audit_profile"),
                    NEW s \in DOMAIN request[c].read["profile"].value.servers,
                    NEW r \in Matches(request[c].read["profile"].value.servers[s])
             PROVE  \/ \E f \in Shown(c, 2) : f.rule = r /\ f.server = s
                    \/ /\ request[c].read["policy"].state = "list"
                       /\ \A e \in Elements(request[c].read["policy"].entries) : e.id \in RuleIds
                       /\ \E e \in Elements(request[c].read["policy"].entries) :
                            e.id = r /\ e.enabled = "false"
  BY DEF AuditNeverSilent
<1> PICK q : q = request[c] OBVIOUS
<1> PICK file : file = q.read["policy"] OBVIOUS
<1>1. /\ q.tool = "audit_profile" /\ AsRead(q) /\ DOMAIN q.read = Elements(Awaits("audit_profile", q.args))
      /\ \A x \in DOMAIN q.read : Possible(x, q.read[x]) /\ Loaded(q.read, x).ok
  BY AnsweredAsRead DEF ToldFromReadings
<1>2. "policy" \in DOMAIN q.read BY <1>1, NamedElements DEF Awaits
<1>3. PolicyFile(file) /\ LoadPolicyRules(file).ok
  BY <1>1, <1>2 DEF Possible, Loaded
<1>4. Shown(c, 2) = AuditResolvedProfile(q.read["profile"].value.servers, LoadPolicyRules(file).value)
  BY <1>1 DEF AsRead, Shown
<1> QED BY <1>3, <1>4, AuditAsTold

(* A receipt says what was accepted, of one release.                       *)
LEMMA HonestIsBacked == ASSUME Honest PROVE ReceiptBacked
<1> SUFFICES ASSUME NEW c \in Clients, Answered(c, "actual_self_receipt")
             PROVE  LET receipt == Shown(c, 1)
                        config == request[c].read["receiptConfig"]
                    IN  /\ receipt.host = "native" /\ receipt.signedWith = config.pin
                        /\ receipt.expiresAfter \in 1..MaxTtlSeconds
                        /\ "controlcenter_actual_self_receipt" \in receipt.readback.tools
                        /\ receipt.readback.version # receipt.probed => "upgrade" \in request[c].during
  BY DEF ReceiptBacked
<1> PICK q : q = request[c] OBVIOUS
<1> PICK receipt : receipt = Shown(c, 1) OBVIOUS
<1>1. /\ q.tool = "actual_self_receipt" /\ AsRead(q)
      /\ DOMAIN q.read = Elements(Awaits("actual_self_receipt", q.args))
      /\ \A x \in DOMAIN q.read : Loaded(q.read, x).ok
      /\ "upgrade" \notin q.during => SameRelease(q, host)
  BY AnsweredAsRead DEF ToldFromReadings
<1>2. {"receiptConfig", "key", "version", "probe"} \subseteq DOMAIN q.read
  BY <1>1, NamedElements DEF Awaits
<1>3. /\ CheckConfig(q.read["receiptConfig"]).ok /\ CheckKey(q.read["receiptConfig"], q.read["key"]).ok
      /\ CheckProbe(q.read["probe"]).ok
  BY <1>1, <1>2 DEF Loaded
<1>4. receipt = Plain("receipt", ProduceActualSelfReceipt(q.read["receiptConfig"], q.read["key"],
                                                          q.read["version"], q.read["probe"])).shows
  BY <1>1, ShownAsRead DEF AsRead
<1>5. /\ receipt.host = "native" /\ receipt.signedWith = q.read["receiptConfig"].pin
      /\ receipt.expiresAfter \in 1..MaxTtlSeconds
      /\ "controlcenter_actual_self_receipt" \in receipt.readback.tools
      /\ receipt.readback.version = q.read["version"].release /\ receipt.probed = q.read["probe"].release
  BY <1>3, <1>4, ReceiptAsTold
<1>6. "upgrade" \notin q.during => receipt.readback.version = receipt.probed
  BY <1>1, <1>2, <1>5 DEF SameRelease
<1> QED BY <1>5, <1>6

(* A route leads where the readings say.                                   *)
LEMMA HonestIsRouted == ASSUME Honest PROVE RouteVerified
<1> SUFFICES ASSUME NEW c \in Clients, Answered(c, "resolve_semantic_route")
             PROVE  LET route == Shown(c, 1)
                        skills == SkillsOf(request[c])
                        named(name) == {s \in skills : Normalize(s.name) = Normalize(name)}
                        offered == UNION {{d.skill : d \in Elements(e.endpoints)} : e \in route.selection.expert}
                        confirmed == UNION {Elements(e.candidates) : e \in route.selection.expert}
                    IN  /\ route.status = "resolved" <=> route.endpoints # {}
                        /\ \A s \in route.endpoints :
                             /\ s.deployed /\ s.hasSkillMd
                             /\ {o \in named(s.name) : o.deployed /\ o.hasSkillMd} = {s}
                             /\ \/ Normalize(s.name) \in {Normalize(n) : n \in offered}
                                \/ Normalize(s.name) = Normalize(request[c].args.confirmed)
                                   /\ Normalize(s.name) \in {Normalize(n) : n \in confirmed}
  BY DEF RouteVerified
<1> PICK q : q = request[c] OBVIOUS
<1> PICK route : route = Shown(c, 1) OBVIOUS
<1> PICK skills : skills = SkillsOf(q) OBVIOUS
<1>1. q.tool = "resolve_semantic_route" /\ AsRead(q) BY AnsweredAsRead DEF ToldFromReadings
<1>2. RouteFor(q).ok /\ route = RouteFor(q).value
  BY <1>1, ShownAsRead DEF AsRead, Plain, Part
<1>3. PICK offered, confirmed :
        /\ offered = UNION {{d.skill : d \in Elements(e.endpoints)} : e \in route.selection.expert}
        /\ confirmed = UNION {Elements(e.candidates) : e \in route.selection.expert}
  OBVIOUS
<1>4. /\ route.status = "resolved" <=> route.endpoints # {}
      /\ \A s \in route.endpoints : \E name :
           /\ s \in Verified(skills, name)
           /\ \/ name \in offered
              \/ name = q.args.confirmed /\ Normalize(name) \in {Normalize(n) : n \in confirmed}
  <2>1. PICK map, options, found :
          map = q.read["routingMap"] /\ options = q.args /\ found = ResolveSemanticRoute(map, skills, options)
    OBVIOUS
  <2>2. found = RouteFor(q) BY <2>1 DEF RouteFor
  <2>3. found.ok /\ route = found.value BY <1>2, <2>2
  <2>4. found = ResolveSemanticRoute(map, skills, options) BY <2>1
  <2>5. /\ route.status = "resolved" <=> route.endpoints # {}
        /\ \A s \in route.endpoints : \E name :
             /\ s \in Verified(skills, name)
             /\ \/ name \in UNION {{d.skill : d \in Elements(e.endpoints)} : e \in route.selection.expert}
                \/ /\ name = options.confirmed
                   /\ Normalize(name) \in {Normalize(n) :
                        n \in UNION {Elements(e.candidates) : e \in route.selection.expert}}
    BY <2>3, <2>4, RouteAsTold
  <2> QED BY <1>3, <2>1, <2>5
<1>5. ASSUME NEW s \in route.endpoints
      PROVE  /\ s.deployed /\ s.hasSkillMd
             /\ {o \in {t \in skills : Normalize(t.name) = Normalize(s.name)} : o.deployed /\ o.hasSkillMd} = {s}
             /\ \/ Normalize(s.name) \in {Normalize(n) : n \in offered}
                \/ Normalize(s.name) = Normalize(q.args.confirmed)
                   /\ Normalize(s.name) \in {Normalize(n) : n \in confirmed}
  <2>1. PICK name : /\ s \in Verified(skills, name)
                    /\ \/ name \in offered
                       \/ name = q.args.confirmed /\ Normalize(name) \in {Normalize(n) : n \in confirmed}
    BY <1>4, <1>5
  <2>2. /\ s.deployed /\ s.hasSkillMd /\ Normalize(s.name) = Normalize(name)
        /\ \A o : (o \in skills /\ Normalize(o.name) = Normalize(s.name) /\ o.deployed /\ o.hasSkillMd)
                      <=> o = s
    BY <2>1, VerifiedIsLive
  <2>3. {o \in {t \in skills : Normalize(t.name) = Normalize(s.name)} : o.deployed /\ o.hasSkillMd} = {s}
    BY <2>2
  <2> QED BY <2>1, <2>2, <2>3
<1> QED BY <1>3, <1>4, <1>5

(* What a limit cuts off is told.                                          *)
LEMMA HonestIsTold == ASSUME Honest PROVE CutsAreTold
<1>1. ASSUME NEW c \in Clients, Answered(c, "context_pack"),
             NEW g \in DOMAIN StackOf(request[c]).value.groups,
             NEW lines, lines = Lines(Elements(StackOf(request[c]).value.groups[g]))
      PROVE  /\ Elements(Shown(c, 1).groups[g].shown) \subseteq lines
             /\ Cardinality(lines \ Elements(Shown(c, 1).groups[g].shown))
                  = Shown(c, 1).groups[g].omitted
  <2>1. PICK r : r = request[c] OBVIOUS
  <2>2. PICK stack : stack = StackOf(r) OBVIOUS
  <2>3. PICK pack : pack = BuildStackContextPack(r.args.level, stack.value) OBVIOUS
  <2>4. /\ r.tool = "context_pack" /\ AsRead(r)
        /\ DOMAIN r.read = Elements(Awaits("context_pack", r.args))
        /\ \A s \in DOMAIN r.read : Possible(s, r.read[s])
    BY <1>1, <2>1, AnsweredAsRead DEF ToldFromReadings
  <2>5. "stackCatalog" \in DOMAIN r.read /\ "manifests" \in DOMAIN r.read
    BY <2>4, NamedElements DEF Awaits
  <2>6. r.read["stackCatalog"] \in Contents["stackCatalog"] /\ r.read["manifests"] \in Contents["manifests"]
    BY <2>4, <2>5 DEF Possible
  <2>7. stack.ok /\ r.page = <<Plain("pack", pack)>> BY <2>2, <2>3, <2>4 DEF AsRead
  <2>8. Shown(c, 1) = pack BY <2>1, <2>7, ShownAsRead DEF Plain, Part
  <2>9. stack = DescribeStack(r.args.name, r.read["stackCatalog"], r.read["manifests"])
    BY <2>2 DEF StackOf
  <2>10. g \in DOMAIN stack.value.groups BY <1>1, <2>1, <2>2
  <2>11. /\ Elements(pack.groups[g].shown) \subseteq lines
         /\ Cardinality(lines \ Elements(pack.groups[g].shown)) = pack.groups[g].omitted
    <3>1. PICK catalog, manifests, name, level :
            /\ catalog = r.read["stackCatalog"] /\ manifests = r.read["manifests"]
            /\ name = r.args.name /\ level = r.args.level
      OBVIOUS
    <3>2. catalog \in Contents["stackCatalog"] /\ manifests \in Contents["manifests"] BY <2>6, <3>1
    <3>3. stack = DescribeStack(name, catalog, manifests) /\ stack.ok BY <2>7, <2>9, <3>1
    <3>4. pack = BuildStackContextPack(level, stack.value) BY <2>3, <3>1
    <3>5. lines = Lines(Elements(stack.value.groups[g])) BY <1>1, <2>1, <2>2
    <3>6. Counted(pack.groups[g], Elements(stack.value.groups[g]))
      BY <2>10, <3>2, <3>3, <3>4, PackAsTold
    <3> QED BY <3>5, <3>6 DEF Counted
  <2> QED BY <2>1, <2>2, <2>8, <2>11
<1>2. ASSUME NEW c \in Clients, Answered(c, "find_capability"),
             Shown(c, 1).status = "declared-not-observed",
             NEW S, S = ClaimedNativeComponents(request[c].read["resolution"]).value,
             NEW query, query = request[c].args.query, NEW first, first = Shown(c, 1).candidates[1]
      PROVE  \A other \in S \ {first} : Score(query, other) < Score(query, first)
  <2>1. PICK r : r = request[c] OBVIOUS
  <2>2. PICK file : file = r.read["resolution"] OBVIOUS
  <2>3. PICK limit : limit = r.args.limit OBVIOUS
  <2>4. /\ r.tool = "find_capability" /\ AsRead(r) /\ Queried(r)
        /\ DOMAIN r.read = Elements(Awaits("find_capability", r.args))
        /\ \A s \in DOMAIN r.read : Possible(s, r.read[s]) /\ Loaded(r.read, s).ok
    <3>1. "find_capability" \in ToldFromReadings BY DEF ToldFromReadings
    <3>2. request[c].tool = "find_capability" BY <1>2 DEF Answered
    <3>3. Queried(request[c]) BY <3>1, <3>2 DEF Honest, Sound
    <3> QED BY <1>2, <2>1, <3>1, <3>3, AnsweredAsRead
  <2>5. "resolution" \in DOMAIN r.read
    <3>1. DOMAIN r.read = Elements(<<"resolution">>) BY <2>4 DEF Awaits
    <3> QED BY <3>1 DEF Elements
  <2>6. file \in Contents["resolution"] BY <2>2, <2>4, <2>5 DEF Possible
  <2>7. file.state = "object"
    <3>1. LoadSelfConsistentResolution(file).ok BY <2>2, <2>4, <2>5 DEF Loaded
    <3> QED BY <3>1 DEF LoadSelfConsistentResolution, Error
  <2>8. IsFiniteSet(query) /\ limit \in Nat \ {0} BY <1>2, <2>1, <2>3, <2>4 DEF Queried
  <2>9. PICK found : found = FindCapabilities(query, file, limit) OBVIOUS
  <2>10. FoundFor(r) = found BY <1>2, <2>1, <2>2, <2>3, <2>9 DEF FoundFor
  <2>11. found.ok /\ r.page = <<Plain("found", found.value)>> BY <2>4, <2>10 DEF AsRead
  <2>12. Shown(c, 1) = found.value BY <2>1, <2>11, ShownAsRead DEF Plain, Part
  <2>13. S = ClaimedNativeComponents(file).value BY <1>2, <2>1, <2>2
  <2>14. found.value.status = "declared-not-observed" /\ first = found.value.candidates[1]
    BY <1>2, <2>12
  <2> QED BY <2>6, <2>7, <2>8, <2>9, <2>11, <2>13, <2>14, FoundAsTold
<1>3. ASSUME NEW c \in Clients, Answered(c, "list_decisions"), ~Shown(c, 1).reason
      PROVE  Shown(c, 1).matches = Len(request[c].read["index"].entries)
  <2>1. PICK r : r = request[c] OBVIOUS
  <2>2. /\ r.tool = "list_decisions" /\ AsRead(r)
        /\ DOMAIN r.read = Elements(Awaits("list_decisions", r.args))
        /\ \A s \in DOMAIN r.read : Possible(s, r.read[s])
    BY <1>3, <2>1, AnsweredAsRead DEF ToldFromReadings
  <2>3. "index" \in DOMAIN r.read BY <2>2, NamedElements DEF Awaits
  <2>4. r.read["index"].state \in IndexStates BY <2>2, <2>3 DEF Possible
  <2>5. PICK told : told = Shown(c, 1) OBVIOUS
  <2>6. told = FormatDecisions(ListDecisions(r.read["index"], r.read["chain"], r.read["bridge"],
                                             r.args.limit)).shows
    BY <2>1, <2>2, <2>5, ShownAsRead DEF AsRead
  <2>7. told.matches = Len(r.read["index"].entries) BY <1>3, <2>4, <2>5, <2>6, MatchesAsTold
  <2> QED BY <2>1, <2>5, <2>7
<1> QED BY <1>1, <1>2, <1>3 DEF CutsAreTold

(* However requests, the language, the host's upgrades, decisions and      *)
(* index runs and crashes interleave: a list of decisions that lacks one   *)
(* made before its sources were looked at is told to be stale, unless the  *)
(* index was generated anew in between                                     *)
(* (src/scripts/controlroom_bridge.py:555).                                *)
THEOREM DecisionsAreFresh == Spec => []StaleUnlessReindexed
<1> QED BY HonestIsFresh, InitHonest, HonestIsInductive, PTL DEF Spec

(* No answer reassures on less than it read: complete scans, clear paths,  *)
(* allowed actions, complete governance and complete tool listings were    *)
(* read as such (src/src/index.ts:1265).                                   *)
THEOREM NothingUnknownReassures == Spec => []UnknownNeverReassures
<1> QED BY HonestIsCertain, InitHonest, HonestIsInductive, PTL DEF Spec

(* No trouble with the rule file silences a rule: what a server matches is *)
(* among the findings unless a file that was understood as a whole         *)
(* switched that rule off (src/src/policy.ts:221, src/src/index.ts:933).   *)
THEOREM AuditsAreNeverSilent == Spec => []AuditNeverSilent
<1> QED BY HonestIsAudited, InitHonest, HonestIsInductive, PTL DEF Spec

(* Every receipt is signed with the pinned key, for this host, for at most *)
(* the longest lifetime, of a probed process that listed the receipt tool, *)
(* and of the probed release unless an upgrade came in between             *)
(* (src/src/actualSelfReceipt.ts:207).                                     *)
THEOREM ReceiptsAreBacked == Spec => []ReceiptBacked
<1> QED BY HonestIsBacked, InitHonest, HonestIsInductive, PTL DEF Spec

(* A resolved route leads to deployed skills that have a SKILL.md and      *)
(* share their name with no other such skill, each declared by the chosen  *)
(* expert or confirmed by the caller (src/src/semanticRouting.ts:247).     *)
THEOREM RoutesAreVerified == Spec => []RouteVerified
<1> QED BY HonestIsRouted, InitHonest, HonestIsInductive, PTL DEF Spec

(* What a limit cuts off is told, whatever the limits: the omitted items   *)
(* of a handoff, a first candidate that another equals, and the matching   *)
(* decisions that are not shown (src/src/contextPack.ts:26,                *)
(* src/src/capabilityFinder.ts:243).                                       *)
THEOREM CutsAreAlwaysTold == Spec => []CutsAreTold
<1> QED BY HonestIsTold, InitHonest, HonestIsInductive, PTL DEF Spec

--------------------------------------------------------------------------------
(* The third invariant: the language of every part of a page is l, or its  *)
(* wording is fixed, or it is not translated at all.                       *)
Speaks(p, l) == p.of = "description" \/ p.in \in {l, "none"}
In(page, l) == \A i \in DOMAIN page : Speaks(page[i], l)

(* As long as no other request has changed the language, the labels, the   *)
(* targets of a profile and the page are in the language of the process.   *)
Worded(r, l) ==
    /\ r.tool = "none" => r.page = <<>>
    /\ "set_language" \notin r.during =>
         /\ r.tool \notin {"none", "set_language"} =>
              /\ r.labels = l
              /\ "profileTools" \in DOMAIN r.read => r.read["profileTools"].language = l
         /\ In(r.page, l)

Spoken == Honest /\ \A c \in Clients : Worded(request[c], language)

(* A part is in the language it is made in, a plain one in none.           *)
LEMMA PartSpeaks ==
  /\ \A l, of, shows : Speaks(Part(l, of, shows), l)
  /\ \A l, of, shows : Speaks(Plain(of, shows), l)
BY DEF Part, Plain, Speaks

(* The tables are in the language they are made in.                        *)
LEMMA FormatsSpeak ==
  /\ \A l, x : /\ Speaks(FormatServerTable(l, x), l) /\ Speaks(FormatCatalogNote(l, x), l)
               /\ Speaks(FormatProfileTable(l, x), l) /\ Speaks(FormatBundleTable(l, x), l)
               /\ Speaks(FormatToolCatalog(l, x), l) /\ Speaks(FormatBundleToolAssignments(l, x), l)
               /\ Speaks(FormatSkillsTable(l, x), l) /\ Speaks(FormatPluginsTable(l, x), l)
               /\ Speaks(FormatSkillMatches(l, x), l)
  /\ \A l, x : Speaks(BundleDescriptions(x), l)
  /\ \A l : Speaks(FormatLanguageReport(l), l)
BY PartSpeaks DEF FormatServerTable, FormatCatalogNote, FormatProfileTable, FormatBundleTable,
     FormatToolCatalog, FormatBundleToolAssignments, FormatSkillsTable, FormatPluginsTable,
     FormatSkillMatches, FormatLanguageReport, BundleDescriptions, Part, Speaks

(* What the bridge, the gateway and the register of stacks tell is worded  *)
(* once for all.                                                           *)
LEMMA RegistersSpeak ==
  \A l, x : /\ Speaks(FormatStackTable(x), l) /\ Speaks(FormatGatewayToolListing(x), l)
            /\ Speaks(FormatGatewayInvocation(x), l) /\ Speaks(FormatLockCheck(x), l)
            /\ Speaks(FormatLockList(x), l) /\ Speaks(FormatPermission(x), l)
            /\ Speaks(FormatDecisions(x), l) /\ Speaks(FormatGovernance(x), l)
            /\ Speaks(FormatResources(x), l) /\ Speaks(FormatResource(x), l)
BY PartSpeaks DEF FormatStackTable, FormatGatewayToolListing, FormatGatewayInvocation, FormatLockCheck,
     FormatLockList, FormatPermission, FormatDecisions, FormatGovernance, FormatResources, FormatResource

(* Pages of as many parts as the handlers reply.                           *)
LEMMA PagesOf ==
  ASSUME NEW l
  PROVE  /\ In(<<>>, l)
         /\ \A a : Speaks(a, l) => In(<<a>>, l)
         /\ \A a, b : Speaks(a, l) /\ Speaks(b, l) => In(<<a, b>>, l)
         /\ \A a, b, d : Speaks(a, l) /\ Speaks(b, l) /\ Speaks(d, l) => In(<<a, b, d>>, l)
         /\ \A a, b, d, e : Speaks(a, l) /\ Speaks(b, l) /\ Speaks(d, l) /\ Speaks(e, l) => In(<<a, b, d, e>>, l)
         /\ \A a, b, d, e, f : Speaks(a, l) /\ Speaks(b, l) /\ Speaks(d, l) /\ Speaks(e, l) /\ Speaks(f, l)
              => In(<<a, b, d, e, f>>, l)
         /\ \A a, b, d, e, f, g : Speaks(a, l) /\ Speaks(b, l) /\ Speaks(d, l) /\ Speaks(e, l) /\ Speaks(f, l)
              /\ Speaks(g, l) => In(<<a, b, d, e, f, g>>, l)
         /\ \A code : In(Refused(code), l)
<1>1. In(<<>>, l) BY DEF In
<1>2. \A a : Speaks(a, l) => In(<<a>>, l) BY DEF In
<1>3. \A a, b : Speaks(a, l) /\ Speaks(b, l) => In(<<a, b>>, l) BY DEF In
<1>4. \A a, b, d : Speaks(a, l) /\ Speaks(b, l) /\ Speaks(d, l) => In(<<a, b, d>>, l) BY DEF In
<1>5. \A a, b, d, e : Speaks(a, l) /\ Speaks(b, l) /\ Speaks(d, l) /\ Speaks(e, l) => In(<<a, b, d, e>>, l)
  BY DEF In
<1>6. \A a, b, d, e, f : Speaks(a, l) /\ Speaks(b, l) /\ Speaks(d, l) /\ Speaks(e, l) /\ Speaks(f, l)
        => In(<<a, b, d, e, f>>, l)
  BY DEF In
<1>7. \A a, b, d, e, f, g : Speaks(a, l) /\ Speaks(b, l) /\ Speaks(d, l) /\ Speaks(e, l) /\ Speaks(f, l)
        /\ Speaks(g, l) => In(<<a, b, d, e, f, g>>, l)
  BY DEF In
<1>8. \A code : In(Refused(code), l) BY <1>2, PartSpeaks DEF Refused
<1> QED BY <1>1, <1>2, <1>3, <1>4, <1>5, <1>6, <1>7, <1>8

(* Notes or tables that follow a page.                                     *)
LEMMA ConcatSpeaks ==
  ASSUME NEW l, NEW P, NEW p \in Seq(P), NEW q \in Seq(P), In(p, l), In(q, l)
  PROVE  In(p \o q, l)
<1>1. Len(p) \in Nat /\ Len(q) \in Nat /\ DOMAIN p = 1..Len(p) /\ DOMAIN q = 1..Len(q)
  BY LenProperties
<1>2. /\ DOMAIN (p \o q) = 1..(Len(p) + Len(q))
      /\ \A i \in 1..(Len(p) + Len(q)) : (p \o q)[i] = IF i <= Len(p) THEN p[i] ELSE q[i - Len(p)]
  BY ConcatProperties, LenProperties
<1>3. \A i \in 1..(Len(p) + Len(q)) : IF i <= Len(p) THEN i \in 1..Len(p) ELSE i - Len(p) \in 1..Len(q)
  BY <1>1
<1> QED BY <1>1, <1>2, <1>3 DEF In

(* The labels of a request and its profile's targets are in language l.    *)
Chosen(r, l) ==
    /\ r.labels = l
    /\ "profileTools" \in DOMAIN r.read => r.read["profileTools"].language = l

(* An answer that is in that language if they are.                         *)
Tells(c, page) ==
    /\ Reply(c, page) \/ ReplyError(c, page)
    /\ request[c].tool \notin {"none", "set_language"}
    /\ Chosen(request[c], language) => In(page, language)

(* A list of targets or of what they answered, each with a note in that    *)
(* language or with none.                                                  *)
Listing(catalog, l) ==
    /\ \E n \in Nat : DOMAIN catalog = 1..n
    /\ \A i \in DOMAIN catalog : catalog[i].note \in {l, "none"}

(* Some of its places are one again.                                       *)
LEMMA ListingAtPlaces ==
  ASSUME NEW catalog, NEW l, Listing(catalog, l), NEW places \in SUBSET DOMAIN catalog
  PROVE  Listing(AtPlaces(catalog, places), l)
<1>1. PICK n \in Nat : DOMAIN catalog = 1..n BY DEF Listing
<1>2. places \in SUBSET Int /\ IsFiniteSet(places)
  <2>1. IsFiniteSet(1..n) BY FS_Interval
  <2> QED BY <1>1, <2>1, FS_Subset
<1> PICK e : e = AtPlaces(catalog, places) OBVIOUS
<1>3. /\ Cardinality(places) \in Nat /\ DOMAIN e = 1..Cardinality(places)
      /\ \A k \in DOMAIN e : \E i \in places : e[k] = catalog[i]
  BY <1>2, EntriesAtPlaces
<1> QED BY <1>3 DEF Listing

(* Its notes are a page in that language.                                  *)
LEMMA NotesSpeak ==
  ASSUME NEW catalog, NEW l, Listing(catalog, l)
  PROVE  In(ProbeNotes(catalog), l) /\ \E S : ProbeNotes(catalog) \in Seq(S)
<1> PICK noted : noted = AtPlaces(catalog, {i \in DOMAIN catalog : catalog[i].note # "none"}) OBVIOUS
<1>1. Listing(noted, l) BY ListingAtPlaces
<1>2. PICK n \in Nat : DOMAIN noted = 1..n BY <1>1 DEF Listing
<1> PICK notes : notes = ProbeNotes(catalog) OBVIOUS
<1>3. notes = [i \in 1..n |-> Part(noted[i].note, "note", noted[i].server)] BY <1>2 DEF ProbeNotes
<1>4. In(notes, l) BY <1>1, <1>2, <1>3 DEF In, Speaks, Part, Listing
<1>5. PICK S : S = {notes[i] : i \in 1..n} OBVIOUS
<1>6. notes \in Seq(S)
  <2>1. notes = [i \in 1..n |-> notes[i]] /\ \A i \in 1..n : notes[i] \in S BY <1>3, <1>5
  <2> QED BY <2>1, IsASeq
<1> QED BY <1>4, <1>6

(* A server per directory at most.                                         *)
LEMMA FewServers ==
  ASSUME NEW listing \in Contents["listing"], NEW packages
  PROVE  IsFiniteSet(ScanLocalServers(listing, packages))
<1> PICK dirs : dirs = DiscoverLocalServerDirectories(listing) OBVIOUS
<1> PICK f : f = [d \in dirs |-> ReadLocalServerSummary(d, packages[d])] OBVIOUS
<1>1. IsFiniteSet(dirs)
  BY FS_EmptySet, ContentsAssumption DEF DiscoverLocalServerDirectories
<1>2. IsFiniteSet({f[d] : d \in dirs}) BY <1>1, ImageIsFinite
<1>3. \A T \in {f[d] : d \in dirs} : IsFiniteSet(T)
  <2> SUFFICES ASSUME NEW d \in dirs PROVE IsFiniteSet(f[d]) OBVIOUS
  <2>1. f[d] = {} \/ \E x : f[d] = {x} BY DEF ReadLocalServerSummary
  <2>2. CASE f[d] = {} BY <2>2, FS_EmptySet
  <2>3. CASE \E x : f[d] = {x} BY <2>3, FS_Singleton
  <2> QED BY <2>1, <2>2, <2>3
<1>4. ScanLocalServers(listing, packages) = UNION {f[d] : d \in dirs}
  BY DEF ScanLocalServers, Summaries
<1> QED BY <1>2, <1>3, <1>4, FS_UNION

(* What targets answered is told with their notes.                         *)
LEMMA ScannedListing ==
  ASSUME NEW targets, NEW l, Listing(targets, l), NEW asked
  PROVE  Listing(ScanTargets(targets, asked), l)
BY DEF Listing, ScanTargets

(* The tools of the servers of this host have no notes.                    *)
LEMMA LocalListing ==
  ASSUME NEW servers, IsFiniteSet(servers), NEW name, NEW asked, NEW l
  PROVE  Listing(BuildToolCatalog(servers, name, asked), l)
<1> PICK selected : selected = {s \in servers : name = 0 \/ name \in {s.dir, s.package}} OBVIOUS
<1> PICK order : order = Ordered(selected, [s \in selected |-> {t \in selected : t.dir < s.dir}]) OBVIOUS
<1> PICK targets : targets = [i \in DOMAIN order |-> CreateLocalServerToolTarget(order[i])] OBVIOUS
<1>1. Cardinality(selected) \in Nat BY FS_Subset, FS_CardinalityType
<1>2. DOMAIN targets = 1..Cardinality(selected) BY DEF Ordered
<1>3. Listing(targets, l) BY <1>1, <1>2 DEF Listing, CreateLocalServerToolTarget
<1>4. BuildToolCatalog(servers, name, asked) = ScanTargets(targets, asked) BY DEF BuildToolCatalog
<1> QED BY <1>3, <1>4, ScannedListing

(* Those of a profile have notes in the language its targets were made in. *)
LEMMA ProfileListing ==
  ASSUME NEW profile, IsFiniteSet(DOMAIN profile.servers), NEW name, NEW asked, NEW l
  PROVE  Listing(ScanProfileServerTools(profile, name, asked, l), l)
<1> PICK order : order = Increasing(DOMAIN profile.servers) OBVIOUS
<1> PICK targets : targets = CreateProfileToolCatalogTargets(profile, l) OBVIOUS
<1>1. Cardinality(DOMAIN profile.servers) \in Nat BY FS_CardinalityType
<1>2. DOMAIN targets = 1..Cardinality(DOMAIN profile.servers)
  BY DEF CreateProfileToolCatalogTargets, Increasing, Ordered
<1>3. \A i \in DOMAIN targets : targets[i].note \in {l, "none"}
  BY DEF CreateProfileToolCatalogTargets
<1>4. Listing(targets, l) BY <1>1, <1>2, <1>3 DEF Listing
<1>5. Listing(FilterTargetsForToolScan(targets, name), l)
  BY <1>4, ListingAtPlaces DEF FilterTargetsForToolScan
<1> QED BY <1>5, ScannedListing DEF ScanProfileServerTools

(* So the catalog that was asked for has notes in the language of its      *)
(* request.                                                                *)
LEMMA RequestedListing ==
  ASSUME Honest, NEW c \in Clients, NEW tool \in {"list_tools", "assign_tool_bundles"},
         Ready(c, tool), Chosen(request[c], language)
  PROVE  Listing(RequestedToolCatalog(request[c]), language)
<1> PICK r : r = request[c] OBVIOUS
<1>1. /\ r.tool = tool /\ DOMAIN r.read = Elements(Order(r)) /\ ~r.error
      /\ \A s \in DOMAIN r.read : Possible(s, r.read[s]) /\ Loaded(r.read, s).ok
  BY ReadyIsRead DEF ToldFromReadings, Honest, Sound
<1>2. CASE r.args.profile # 0
  <2>1. PICK profile, asked : profile = r.read["profile"] /\ asked = r.read["profileTools"].asked OBVIOUS
  <2>2. "profile" \in DOMAIN r.read /\ "profileTools" \in DOMAIN r.read
    <3>1. CASE tool = "list_tools"
      <4>1. Order(r) = <<"profile", "profileTools">>
        BY <1>1, <1>2, <3>1 DEF Order, Awaits, ToolCatalogSources
      <4> QED BY <1>1, <4>1, NamedElements
    <3>2. CASE tool = "assign_tool_bundles"
      <4>1. Order(r) = <<"profile", "profileTools", "bundleConfig">>
        BY <1>1, <1>2, <3>2, JoinedTuples DEF Order, Awaits, ToolCatalogSources
      <4> QED BY <1>1, <4>1, NamedElements
    <3> QED BY <3>1, <3>2
  <2>3. profile \in Contents["profile"] /\ profile.ok BY <1>1, <2>1, <2>2 DEF Possible, Loaded
  <2>4. IsFiniteSet(DOMAIN profile.value.servers) BY <2>3, ContentsAssumption
  <2>5. r.read["profileTools"].language = language BY <2>2 DEF Chosen
  <2>6. RequestedToolCatalog(r) = ScanProfileServerTools(profile.value, r.args.server, asked, language)
    BY <1>2, <2>1, <2>5 DEF RequestedToolCatalog
  <2>7. PICK value : value = profile.value OBVIOUS
  <2> QED BY <2>4, <2>6, <2>7, ProfileListing
<1>3. CASE r.args.profile = 0
  <2>1. "listing" \in DOMAIN r.read
    <3>1. ToolCatalogSources(r.args) = <<"listing", "packages", "serverTools">>
      BY <1>3, JoinedTuples DEF ToolCatalogSources, LocalServers
    <3>2. CASE tool = "list_tools"
      <4>1. Order(r) = <<"listing", "packages", "serverTools">> BY <1>1, <3>1, <3>2 DEF Order, Awaits
      <4> QED BY <1>1, <4>1, NamedElements
    <3>3. CASE tool = "assign_tool_bundles"
      <4>1. Order(r) = <<"listing", "packages", "serverTools", "bundleConfig">>
        BY <1>1, <3>1, <3>3, JoinedTuples DEF Order, Awaits
      <4> QED BY <1>1, <4>1, NamedElements
    <3> QED BY <3>2, <3>3
  <2>2. PICK listing \in Contents["listing"] : listing = r.read["listing"]
    BY <1>1, <2>1 DEF Possible
  <2>3. IsFiniteSet(ServersOf(r)) BY <2>2, FewServers DEF ServersOf
  <2>4. RequestedToolCatalog(r) = BuildToolCatalog(ServersOf(r), r.args.server, r.read["serverTools"])
    BY <1>3 DEF RequestedToolCatalog
  <2> QED BY <2>3, <2>4, LocalListing
<1> QED BY <1>2, <1>3

(* Four handlers reply a page to which other parts are added.              *)
LEMMA ListToolsSpeaks ==
  ASSUME Honest, NEW c \in Clients, ListTools(c) PROVE \E page : Tells(c, page)
<1> PICK r, catalog : r = request[c] /\ catalog = RequestedToolCatalog(r) OBVIOUS
<1> PICK a, b : a = Part(r.labels, "source", r.args) /\ b = FormatToolCatalog(language, catalog) OBVIOUS
<1>1. Ready(c, "list_tools") /\ Reply(c, <<a, b>> \o ProbeNotes(catalog)) BY DEF ListTools
<1>2. ASSUME Chosen(r, language) PROVE In(<<a, b>> \o ProbeNotes(catalog), language)
  <2>1. Listing(catalog, language) BY <1>1, <1>2, RequestedListing
  <2>2. PICK notes, S : notes = ProbeNotes(catalog) /\ notes \in Seq(S) /\ In(notes, language)
    BY <2>1, NotesSpeak
  <2>3. Speaks(a, language) /\ Speaks(b, language)
    BY <1>2, PartSpeaks, FormatsSpeak DEF Chosen
  <2>4. In(<<a, b>>, language) BY <2>3, PagesOf
  <2>5. notes \in Seq(S \union {a, b}) /\ <<a, b>> \in Seq(S \union {a, b}) BY <2>2
  <2> QED BY <2>2, <2>4, <2>5, ConcatSpeaks
<1> QED BY <1>1, <1>2 DEF Tells, Ready

(* The notes are those of the probes that failed.                          *)
LEMMA AssignSpeaks ==
  ASSUME Honest, NEW c \in Clients, AssignToolBundles(c) PROVE \E page : Tells(c, page)
<1> PICK r, catalog : r = request[c] /\ catalog = RequestedToolCatalog(r) OBVIOUS
<1> PICK failed : failed = AtPlaces(catalog, {i \in DOMAIN catalog : catalog[i].status # "ok"}) OBVIOUS
<1> PICK a, b : /\ a = Part(r.labels, "probes", [all |-> Len(catalog), failed |-> Len(failed)])
                /\ b = FormatBundleToolAssignments(language, BuildBundleToolAssignments(catalog, Definitions(r)))
  OBVIOUS
<1>1. Ready(c, "assign_tool_bundles") /\ Reply(c, <<a, b>> \o ProbeNotes(failed))
  BY DEF AssignToolBundles
<1>2. ASSUME Chosen(r, language) PROVE In(<<a, b>> \o ProbeNotes(failed), language)
  <2>1. Listing(failed, language) BY <1>1, <1>2, RequestedListing, ListingAtPlaces
  <2>2. PICK notes, S : notes = ProbeNotes(failed) /\ notes \in Seq(S) /\ In(notes, language)
    BY <2>1, NotesSpeak
  <2>3. Speaks(a, language) /\ Speaks(b, language)
    BY <1>2, PartSpeaks, FormatsSpeak DEF Chosen
  <2>4. In(<<a, b>>, language) BY <2>3, PagesOf
  <2>5. notes \in Seq(S \union {a, b}) /\ <<a, b>> \in Seq(S \union {a, b}) BY <2>2
  <2> QED BY <2>2, <2>4, <2>5, ConcatSpeaks
<1> QED BY <1>1, <1>2 DEF Tells, Ready

(* The second table is left out where only deployed skills are asked for.  *)
LEMMA ListSkillsSpeaks ==
  ASSUME NEW c, ListSkills(c) PROVE \E page : Tells(c, page)
<1> PICK r : r = request[c] OBVIOUS
<1> PICK deployed, rest :
      deployed = {s \in SkillsOf(r) : s.deployed} /\ rest = SkillsOf(r) \ deployed
  OBVIOUS
<1> PICK a, b, d, e : /\ a = Part(language, "title", 0)
                      /\ b = Part(r.labels, "total", <<Cardinality(deployed), Cardinality(rest)>>)
                      /\ d = FormatSkillsTable(language, deployed)
                      /\ e = FormatSkillsTable(language, rest)
  OBVIOUS
<1> PICK only : only = r.args.deployedOnly OBVIOUS
<1>1. /\ Ready(c, "list_skills")
      /\ Reply(c, <<a, b, d>> \o (IF only THEN <<>> ELSE <<e>>))
  BY DEF ListSkills
<1> PICK t : t = IF only THEN <<>> ELSE <<e>> OBVIOUS
<1>2. ASSUME Chosen(r, language) PROVE In(<<a, b, d>> \o t, language)
  <2>1. Speaks(a, language) /\ Speaks(b, language) /\ Speaks(d, language) /\ Speaks(e, language)
    BY <1>2, PartSpeaks, FormatsSpeak DEF Chosen
  <2>2. In(<<a, b, d>>, language) /\ In(t, language) BY <2>1, PagesOf
  <2>3. PICK P : P = {a, b, d, e} OBVIOUS
  <2>4. <<a, b, d>> \in Seq(P) /\ <<>> \in Seq(P) /\ <<e>> \in Seq(P) BY <2>3
  <2> QED BY <2>2, <2>4, ConcatSpeaks
<1> QED BY <1>1, <1>2 DEF Tells, Ready

(* Either of the two tables may be left out.                               *)
LEMMA ListPluginsSpeaks ==
  ASSUME NEW c, ListPlugins(c) PROVE \E page : Tells(c, page)
<1> PICK r : r = request[c] OBVIOUS
<1> PICK plugins, modules : /\ plugins = {p \in PluginsOf(r) : p.type = "plugin"}
                            /\ modules = {p \in PluginsOf(r) : p.type = "module"}
  OBVIOUS
<1> PICK a, b, d, e : /\ a = Part(language, "title", 0)
                      /\ b = Part(r.labels, "total", <<Cardinality(plugins), Cardinality(modules)>>)
                      /\ d = FormatPluginsTable(language, plugins)
                      /\ e = FormatPluginsTable(language, modules)
  OBVIOUS
<1> PICK t, u : /\ t = IF r.args.modulesOnly THEN <<>> ELSE <<d>>
                /\ u = IF r.args.pluginsOnly THEN <<>> ELSE <<e>>
  OBVIOUS
<1>1. Ready(c, "list_plugins") /\ Reply(c, <<a, b>> \o t \o u) BY DEF ListPlugins
<1>2. ASSUME Chosen(r, language) PROVE In(<<a, b>> \o t \o u, language)
  <2>1. Speaks(a, language) /\ Speaks(b, language) /\ Speaks(d, language) /\ Speaks(e, language)
    BY <1>2, PartSpeaks, FormatsSpeak DEF Chosen
  <2>2. In(<<a, b>>, language) /\ In(t, language) /\ In(u, language) BY <2>1, PagesOf
  <2>3. PICK P : P = {a, b, d, e} OBVIOUS
  <2>4. <<a, b>> \in Seq(P) /\ t \in Seq(P) /\ u \in Seq(P)
    <3>1. <<>> \in Seq(P) /\ <<d>> \in Seq(P) /\ <<e>> \in Seq(P) BY <2>3
    <3>2. <<a, b>> \in Seq(P) BY <2>3
    <3> QED BY <3>1, <3>2
  <2>5. <<a, b>> \o t \in Seq(P) /\ In(<<a, b>> \o t, language)
    BY <2>2, <2>4, ConcatSpeaks, ConcatProperties
  <2> QED BY <2>2, <2>4, <2>5, ConcatSpeaks
<1> QED BY <1>1, <1>2 DEF Tells, Ready

(* All answers but those that change the language or write the catalog.    *)
LEMMA AnswersSpeak ==
  ASSUME Honest, NEW c \in Clients, Answer(c),
         ~SetLanguage(c), ~WriteBegin(c), ~WriteEnd(c), ~WriteFails(c)
  PROVE  \E page : Tells(c, page)
<1> USE PartSpeaks, PagesOf DEF Tells, Ready, Chosen
<1>1. CASE GetLanguage(c) BY <1>1, FormatsSpeak DEF GetLanguage
<1>2. CASE Status(c) BY <1>2, FormatsSpeak DEF Status
<1>3. CASE ListLocalServers(c) BY <1>3, FormatsSpeak DEF ListLocalServers
<1>4. CASE DescribeMcp(c) BY <1>4, FormatsSpeak DEF DescribeMcp
<1>5. CASE ListBundles(c) BY <1>5, FormatsSpeak DEF ListBundles
<1>6. CASE SuggestBundles(c) BY <1>6, FormatsSpeak DEF SuggestBundles
<1>7. CASE ListProfiles(c) BY <1>7, FormatsSpeak DEF ListProfiles
<1>8. CASE SuggestProfileFor(c) BY <1>8, FormatsSpeak DEF SuggestProfileFor
<1>9. CASE ResolveProfile(c) BY <1>9, FormatsSpeak DEF ResolveProfile
<1>10. CASE SwitchProfile(c) BY <1>10, FormatsSpeak DEF SwitchProfile
<1>11. CASE AuditProfile(c) BY <1>11, FormatsSpeak DEF AuditProfile
<1>12. CASE ListStacks(c) BY <1>12, RegistersSpeak DEF ListStacks
<1>13. CASE DescribeStackFor(c) BY <1>13, FormatsSpeak DEF DescribeStackFor
<1>14. CASE ContextPack(c) BY <1>14, FormatsSpeak DEF ContextPack
<1>15. CASE FindCapability(c) BY <1>15, FormatsSpeak DEF FindCapability
<1>16. CASE ToolOverview(c) BY <1>16, FormatsSpeak DEF ToolOverview
<1>17. CASE FindSkill(c) BY <1>17, FormatsSpeak DEF FindSkill
<1>18. CASE SemanticRoute(c) BY <1>18, FormatsSpeak DEF SemanticRoute
<1>19. CASE ListLocksFor(c) BY <1>19, RegistersSpeak DEF ListLocksFor
<1>20. CASE CheckLockFor(c) BY <1>20, RegistersSpeak DEF CheckLockFor
<1>21. CASE EvaluatePermissionFor(c) BY <1>21, RegistersSpeak DEF EvaluatePermissionFor
<1>22. CASE ListDecisionsFor(c) BY <1>22, RegistersSpeak DEF ListDecisionsFor
<1>23. CASE ListGovernanceFor(c) BY <1>23, RegistersSpeak DEF ListGovernanceFor
<1>24. CASE ListResourcesFor(c) BY <1>24, RegistersSpeak DEF ListResourcesFor
<1>25. CASE DescribeResourceFor(c) BY <1>25, RegistersSpeak DEF DescribeResourceFor
<1>26. CASE ListAvailableTools(c) BY <1>26, RegistersSpeak DEF ListAvailableTools
<1>27. CASE Invoke(c) BY <1>27, RegistersSpeak DEF Invoke
<1>28. CASE ActualSelfReceipt(c) BY <1>28, FormatsSpeak DEF ActualSelfReceipt
<1>29. CASE ListTools(c) BY <1>29, ListToolsSpeaks
<1>30. CASE AssignToolBundles(c) BY <1>30, AssignSpeaks
<1>31. CASE ListSkills(c) BY <1>31, ListSkillsSpeaks
<1>32. CASE ListPlugins(c) BY <1>32, ListPluginsSpeaks
<1> HIDE PartSpeaks, PagesOf DEF Tells, Ready, Chosen
<1> QED
  BY <1>1, <1>2, <1>3, <1>4, <1>5, <1>6, <1>7, <1>8, <1>9, <1>10, <1>11, <1>12,
     <1>13, <1>14, <1>15, <1>16, <1>17, <1>18, <1>19, <1>20, <1>21, <1>22, <1>23,
     <1>24, <1>25, <1>26, <1>27, <1>28, <1>29, <1>30, <1>31, <1>32 DEF Answer

(* A step that leaves the language alone has to be looked at only for the  *)
(* requests that it changes.                                               *)
LEMMA SpokenStep ==
  ASSUME Spoken, Honest', language' = language,
         \A c \in Clients : request'[c] = request[c] \/ Worded(request'[c], language)
  PROVE  Spoken'
BY DEF Spoken

(* At the start there is no request.                                       *)
LEMMA InitSpoken == Init => Spoken
<1> SUFFICES ASSUME Init PROVE Spoken OBVIOUS
<1>1. \A c \in Clients : request[c] = Idle BY DEF Init
<1>2. \A c \in Clients : request[c].page = <<>> /\ request[c].tool = "none" BY <1>1 DEF Idle
<1>3. \A c \in Clients : Worded(request[c], language) BY <1>2, PagesOf DEF Worded
<1> QED BY <1>3, InitHonest DEF Spoken

(* The labels are in the language of the moment of the call.               *)
LEMMA BeginSpoken == ASSUME Spoken, Honest', NEW c \in Clients, Begin(c) PROVE Spoken'
<1>1. PICK call \in Offered[c] :
        request' = [request EXCEPT ![c] =
                      [Idle EXCEPT !.tool = call.tool, !.args = call.args, !.labels = language]]
  BY DEF Begin
<1> PICK r : r = request'[c] OBVIOUS
<1>2. /\ r.labels = language /\ r.read = <<>> /\ r.page = <<>>
      /\ \A d \in Clients \ {c} : request'[d] = request[d]
  BY <1>1 DEF Spoken, Honest, Safe, Kept, Shape, Idle
<1>3. DOMAIN r.read = {} BY <1>2
<1>4. Worded(r, language) BY <1>2, <1>3, PagesOf DEF Worded
<1>5. language' = language BY DEF Begin
<1> QED BY <1>2, <1>4, <1>5, SpokenStep

(* The targets of a profile are made in the language of that moment.       *)
LEMMA ReadSpoken == ASSUME Spoken, Honest', NEW c \in Clients, Read(c) PROVE Spoken'
<1> PICK r : r = request[c] OBVIOUS
<1> PICK source : source = Remaining(r)[1] OBVIOUS
<1>1. r.tool # "none" /\ r.page = <<>> /\ language' = language BY DEF Read
<1>2. PICK v \in Holds(source) :
        LET read == WithSource(r.read, source, v)
            loaded == Loaded(read, source)
        IN  request' = [request EXCEPT ![c].read = read, ![c].error = ~loaded.ok,
                           ![c].page = IF loaded.ok THEN <<>> ELSE Refused(loaded.code)]
  BY DEF Read
<1> PICK read : read = WithSource(r.read, source, v) OBVIOUS
<1>3. PICK ok, code :
        request' = [request EXCEPT ![c].read = read, ![c].error = ~ok,
                       ![c].page = IF ok THEN <<>> ELSE Refused(code)]
  BY <1>2
<1> PICK s : s = request'[c] OBVIOUS
<1>4. /\ s.tool = r.tool /\ s.labels = r.labels /\ s.during = r.during /\ s.read = read
      /\ s.page = IF ok THEN <<>> ELSE Refused(code)
      /\ \A d \in Clients \ {c} : request'[d] = request[d]
  BY <1>3 DEF Spoken, Honest, Safe, Kept, Shape, Idle
<1>5. In(s.page, language) BY <1>4, PagesOf
<1>6. /\ DOMAIN read = DOMAIN r.read \union {source} /\ read[source] = v
      /\ \A x \in DOMAIN r.read \ {source} : read[x] = r.read[x]
  BY DEF WithSource
<1>7. source = "profileTools" => v.language = language BY DEF Holds
<1>8. Worded(r, language) BY DEF Spoken
<1>9. ASSUME "set_language" \notin r.during, r.tool # "set_language", "profileTools" \in DOMAIN read
      PROVE  read["profileTools"].language = language
  BY <1>1, <1>6, <1>7, <1>8, <1>9 DEF Worded
<1>10. Worded(s, language) BY <1>1, <1>4, <1>5, <1>8, <1>9 DEF Worded
<1> QED BY <1>1, <1>4, <1>10, SpokenStep

(* An answer in the language of its labels keeps the invariant.            *)
LEMMA TellsSpoken ==
  ASSUME Spoken, Honest', NEW c \in Clients, NEW page, Tells(c, page)
  PROVE  Spoken'
<1> PICK r : r = request[c] OBVIOUS
<1> PICK s : s = request'[c] OBVIOUS
<1>1. /\ language' = language
      /\ \/ request' = [request EXCEPT ![c].page = page]
         \/ request' = [request EXCEPT ![c].page = page, ![c].error = TRUE]
  BY DEF Tells, Reply, ReplyError
<1>2. /\ s.tool = r.tool /\ s.labels = r.labels /\ s.during = r.during /\ s.read = r.read /\ s.page = page
      /\ \A d \in Clients \ {c} : request'[d] = request[d]
  BY <1>1 DEF Spoken, Honest, Safe, Kept, Shape, Idle
<1>3. r.tool \notin {"none", "set_language"} BY DEF Tells
<1>4. Worded(r, language) BY DEF Spoken
<1>5. "set_language" \notin r.during => In(page, language) BY <1>3, <1>4 DEF Worded, Chosen, Tells
<1>6. Worded(s, language) BY <1>2, <1>3, <1>4, <1>5 DEF Worded
<1> QED BY <1>1, <1>2, <1>6, SpokenStep

(* What happens is noted with every request that is there.                 *)
LEMMA NotedIsWorded ==
  ASSUME Spoken, NEW event, NEW own, NEW d \in Clients, NEW s, s = Noted(event, own)[d]
  PROVE  /\ DOMAIN s = DOMAIN Idle
         /\ Worded(s, language)
         /\ event = "set_language" /\ d \notin own => \A l : Worded(s, l)
         /\ s.tool = request[d].tool /\ s.labels = request[d].labels /\ s.read = request[d].read
         /\ s.page = request[d].page
<1> PICK r : r = request[d] OBVIOUS
<1>1. DOMAIN r = DOMAIN Idle /\ Worded(r, language) BY DEF Spoken, Honest, Safe, Kept, Shape
<1>2. CASE r.tool = "none"
  <2>1. s = r BY <1>2 DEF Noted
  <2>2. r.page = <<>> BY <1>1, <1>2 DEF Worded
  <2>3. \A l : Worded(r, l) BY <1>2, <2>2, PagesOf DEF Worded
  <2> QED BY <1>1, <2>1, <2>3
<1>3. CASE r.tool # "none" /\ d \in own
  <2>1. s = r BY <1>3 DEF Noted
  <2> QED BY <1>1, <1>3, <2>1
<1>4. CASE r.tool # "none" /\ d \notin own
  <2>1. s = [r EXCEPT !.during = @ \union {event}] BY <1>4 DEF Noted
  <2>2. /\ DOMAIN s = DOMAIN Idle /\ s.tool = r.tool /\ s.labels = r.labels /\ s.read = r.read
        /\ s.page = r.page /\ s.during = r.during \union {event}
    BY <1>1, <2>1 DEF Idle
  <2>3. Worded(s, language) BY <1>1, <2>2 DEF Worded
  <2>4. event = "set_language" => \A l : Worded(s, l) BY <1>4, <2>2 DEF Worded
  <2> QED BY <2>2, <2>3, <2>4
<1> QED BY <1>2, <1>3, <1>4

(* Who changes the language answers in the new one; all others are told.   *)
LEMMA SetLanguageSpoken == ASSUME Spoken, Honest', NEW c \in Clients, SetLanguage(c) PROVE Spoken'
<1> PICK noted : noted = Noted("set_language", {c}) OBVIOUS
<1> PICK chosen : chosen = request[c].args.language OBVIOUS
<1>1. /\ language' = chosen /\ request[c].tool = "set_language"
      /\ request' = [noted EXCEPT ![c].page = <<FormatLanguageReport(chosen)>>]
  BY DEF SetLanguage, Ready
<1>2. DOMAIN noted = Clients BY DEF Noted
<1>3. ASSUME NEW d \in Clients, d # c PROVE Worded(request'[d], chosen)
  <2>1. Worded(noted[d], chosen) BY <1>3, NotedIsWorded
  <2> QED BY <1>1, <1>2, <1>3, <2>1
<1>4. Worded(request'[c], chosen)
  <2> PICK r : r = noted[c] OBVIOUS
  <2> PICK s : s = request'[c] OBVIOUS
  <2>1. DOMAIN r = DOMAIN Idle /\ r.tool = "set_language" BY <1>1, NotedIsWorded
  <2>2. s.tool = "set_language" /\ s.page = <<FormatLanguageReport(chosen)>>
    BY <1>1, <1>2, <2>1 DEF Idle
  <2>3. Speaks(FormatLanguageReport(chosen), chosen) BY FormatsSpeak
  <2>4. In(<<FormatLanguageReport(chosen)>>, chosen) BY <2>3, PagesOf
  <2>5. In(s.page, chosen) BY <2>2, <2>4
  <2> QED BY <2>2, <2>5 DEF Worded
<1> QED BY <1>1, <1>3, <1>4 DEF Spoken

(* What happens to the host has no words.                                  *)
LEMMA HappensSpoken ==
  ASSUME Spoken, Honest', NEW event, NEW changed, Happens(event, changed) PROVE Spoken'
<1>1. request' = Noted(event, {}) /\ language' = language BY DEF Happens
<1>2. \A d \in Clients : Worded(request'[d], language) BY <1>1, NotedIsWorded
<1> QED BY <1>1, <1>2, SpokenStep

(* The answers about the written catalog are all labels.                   *)
LEMMA WriteSpoken ==
  ASSUME Spoken, Honest', NEW c \in Clients, WriteBegin(c) \/ WriteEnd(c) \/ WriteFails(c)
  PROVE  Spoken'
<1> PICK r : r = request[c] OBVIOUS
<1>1. r.tool = "build_catalog"
  BY DEF WriteBegin, WriteEnd, WriteFails, Ready, Spoken, Honest, Safe, Kept, WritersWait, Writing
<1>2. language' = language BY DEF WriteBegin, WriteEnd, WriteFails, ReplyError
<1>3. Worded(r, language) BY DEF Spoken
<1>4. CASE WriteEnd(c) \/ WriteFails(c) \/ ReplyError(c, Refused("write-failed"))
  <2>1. PICK page : /\ \/ request' = [request EXCEPT ![c].page = page]
                       \/ request' = [request EXCEPT ![c].page = page, ![c].error = TRUE]
                    /\ page = Refused("write-failed") \/ page = <<CatalogCreated(r)>>
    BY <1>4 DEF WriteEnd, WriteFails, ReplyError
  <2> PICK s : s = request'[c] OBVIOUS
  <2>2. /\ s.tool = r.tool /\ s.labels = r.labels /\ s.during = r.during /\ s.read = r.read
        /\ s.page = page /\ \A d \in Clients \ {c} : request'[d] = request[d]
    BY <2>1 DEF Spoken, Honest, Safe, Kept, Shape, Idle
  <2>3. r.labels = language => In(page, language)
    <3>1. In(Refused("write-failed"), language) BY PagesOf
    <3>2. r.labels = language => Speaks(CatalogCreated(r), language) BY PartSpeaks DEF CatalogCreated
    <3>3. r.labels = language => In(<<CatalogCreated(r)>>, language) BY <3>2, PagesOf
    <3> QED BY <2>1, <3>1, <3>3
  <2>4. Worded(s, language) BY <1>1, <1>3, <2>2, <2>3 DEF Worded
  <2> QED BY <1>2, <2>2, <2>4, SpokenStep
<1>5. CASE WriteBegin(c) /\ ~ReplyError(c, Refused("write-failed"))
  <2> PICK noted : noted = Noted("write", {c}) OBVIOUS
  <2>1. PICK told : request' = [noted EXCEPT ![c].during = @ \union told] BY <1>5 DEF WriteBegin
  <2>2. /\ DOMAIN noted = Clients
        /\ \A d \in Clients : DOMAIN noted[d] = DOMAIN Idle /\ Worded(noted[d], language)
    <3>1. DOMAIN noted = Clients BY DEF Noted
    <3> QED BY <3>1, NotedIsWorded
  <2> PICK s : s = request'[c] OBVIOUS
  <2>3. /\ s.tool = noted[c].tool /\ s.labels = noted[c].labels /\ s.read = noted[c].read
        /\ s.page = noted[c].page /\ s.during = noted[c].during \union told
        /\ \A d \in Clients \ {c} : request'[d] = noted[d]
    BY <2>1, <2>2 DEF Idle
  <2>4. Worded(s, language) BY <2>2, <2>3 DEF Worded
  <2> QED BY <1>2, <2>2, <2>3, <2>4, SpokenStep
<1> QED BY <1>4, <1>5

(* Every step keeps the third invariant.                                   *)
THEOREM SpokenIsInductive == ASSUME Spoken, [Next]_vars PROVE Spoken'
<1>1. Honest' BY HonestIsInductive DEF Spoken
<1>2. ASSUME NEW c \in Clients, Begin(c) PROVE Spoken' BY <1>1, <1>2, BeginSpoken
<1>3. ASSUME NEW c \in Clients, Read(c) PROVE Spoken' BY <1>1, <1>3, ReadSpoken
<1>4. ASSUME NEW c \in Clients, Answer(c) PROVE Spoken'
  <2>1. CASE SetLanguage(c) BY <1>1, <2>1, SetLanguageSpoken
  <2>2. CASE WriteBegin(c) \/ WriteEnd(c) \/ WriteFails(c) BY <1>1, <2>2, WriteSpoken
  <2>3. CASE ~SetLanguage(c) /\ ~WriteBegin(c) /\ ~WriteEnd(c) /\ ~WriteFails(c)
    <3>1. \E page : Tells(c, page) BY <1>4, <2>3, AnswersSpeak DEF Spoken
    <3> QED BY <1>1, <3>1, TellsSpoken
  <2> QED BY <2>1, <2>2, <2>3
<1>5. ASSUME NEW c \in Clients, Delivered(c) PROVE Spoken'
  <2>1. request' = [request EXCEPT ![c] = Idle] /\ language' = language BY <1>5 DEF Delivered
  <2>2. request'[c] = Idle /\ \A d \in Clients \ {c} : request'[d] = request[d]
    BY <2>1 DEF Spoken, Honest, Safe, Kept, Shape
  <2>3. Worded(request'[c], language) BY <2>2, PagesOf DEF Worded, Idle
  <2> QED BY <1>1, <2>1, <2>2, <2>3, SpokenStep
<1>6. CASE Crash
  <2>1. \A c \in Clients : request'[c] = Idle BY <1>6 DEF Crash
  <2>2. \A c \in Clients : Worded(request'[c], language')
    BY <2>1, PagesOf DEF Worded, Idle
  <2> QED BY <1>1, <2>2 DEF Spoken
<1>7. CASE Upgrade \/ Decide \/ Reindex
  BY <1>1, <1>7, HappensSpoken DEF Upgrade, Decide, Reindex
<1>8. CASE UNCHANGED vars BY <1>1, <1>8 DEF vars, Spoken
<1> QED BY <1>2, <1>3, <1>4, <1>5, <1>6, <1>7, <1>8 DEF Next

(* One language, if none has been chosen since.                            *)
LEMMA SpokenIsOne == ASSUME Spoken PROVE LanguageMixExplained
<1> SUFFICES ASSUME NEW c \in Clients, "set_language" \notin request[c].during
             PROVE  ~(Cardinality(LanguagesOf(c)) > 1)
  BY DEF LanguageMixExplained
<1>1. In(request[c].page, language) BY DEF Spoken, Worded
<1>2. LanguagesOf(c) \in SUBSET {language} BY <1>1 DEF LanguagesOf, Translated, In, Speaks
<1>3. IsFiniteSet({language}) /\ Cardinality({language}) = 1 BY FS_Singleton
<1>4. IsFiniteSet(LanguagesOf(c)) /\ Cardinality(LanguagesOf(c)) <= 1 BY <1>2, <1>3, FS_Subset
<1>5. Cardinality(LanguagesOf(c)) \in Nat BY <1>4, FS_CardinalityType
<1> QED BY <1>4, <1>5

(* An answer whose own words are in more than one language is one during   *)
(* which another request changed the language: without that, the labels    *)
(* chosen before the readings, the targets made between them and the       *)
(* tables worded after them are in the language of the process             *)
(* (src/src/i18n/index.ts:29).  Descriptions of bundles are not counted:   *)
(* those that the source defines are German (src/src/bundles.ts:75).       *)
THEOREM MixedAnswersExplained == Spec => []LanguageMixExplained
<1> QED BY SpokenIsOne, InitSpoken, SpokenIsInductive, PTL DEF Spec
================================================================================
