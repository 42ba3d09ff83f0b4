# ellmos Control Center: a TLA+ verification project

The Control Center is an MCP server (TypeScript, `src/src/`) that shows, audits and
routes to other MCP servers. It lists the servers and profiles of a machine, scans
their tools, forwards single tool calls to them (the *gateway*), switches profiles,
serves a small web dashboard, and asks a Python program
(`src/scripts/controlroom_bridge.py`) about locks, permissions and decisions kept
elsewhere. This directory holds TLA+ modules translated from that code, TLC
configurations for small instances and TLAPS proofs for every instance.

Paths such as `gateway.ts:793` are relative to `src/src/`.

## 1. Inventory

One Node process serves all MCP requests and, in dashboard mode, all HTTP requests.
JavaScript runs from one `await` to the next without interruption, so what can
interleave are the stretches between awaits. Several processes on one machine share
files: profiles, the gateway's policy and audit log, lock files.

| Part | State | Operations | Hard behaviour | What makes it correct |
|---|---|---|---|---|
| Gateway invocation (`gateway.ts`) | none between calls except limiter and audit log | `invokeGatewayTool`, `listGatewayTools` | calls interleave at every await; `finish()` runs beside `finally`; timeouts after the request was sent; policy and scope change between reads | what runs was cleared by every gate; what is reported is true; every call returns; nothing stays open |
| Concurrency budget (`gatewayHardening.ts:311`) | `active`, `waiting`, timers | `acquire`, timer callback, `release` | timer against release; a newcomer against the queue | no slot lost or granted twice, first come first served, nobody waits for ever |
| Payload budgets, redaction (`gatewayHardening.ts:81-254`) | none | `applyResponseBudget`, `redactDeep` | characters against bytes; nesting; truncation | the answer fits; no secret key keeps its value |
| Tool scan (`toolCatalog.ts:462-549`) | shared index and byte budget of one scan | workers, `readToolCatalogTarget`, `budgetedFetch` | probes share index and budget; answers arrive in pieces; a target that never answers | each successful answer is paid for, one final entry per target, a cut-off target is not shown as an empty one |
| Profiles (`profiles.ts`) | JSON files, `_backups`, `_generated` | resolve, list, read, write, prepare a switch | inheritance with cycles and diamonds; several awaits between read and write; non-atomic writes; backup names by the millisecond | resolution follows the documented order; what was there is kept in a backup |
| Dashboard (`dashboard.ts`) | none; works on profiles | overview, toggle a server, write a generated config, scan | overlapping toggles of one profile; confirmation | a confirmed toggle takes effect, an unconfirmed one does nothing |
| Control room client (`controlroom.ts`) | none; one child process per question | check and list locks, evaluate permission, list decisions and governance, list and describe resources | timeout against exit against spawn error; a killed child that answered | doubt is never reported as permission |
| Control room bridge (`controlroom_bridge.py`) | none; reads lock and decision stores | the seven commands | twin directories, incomplete walks, several registries | an incomplete search does not claim "no lock" |
| Entry point, languages (`index.ts`, `i18n/index.ts`) | the language of the process; `server-catalog.json` | 34 tools, each a handler | a handler is cut at every await: its labels and its values are of different ages; two writers of one file | an answer tells what was read, and what could not be read |
| Self receipt (`actualSelfReceipt.ts`) | none; configuration, key, package version, probe | `produceActualSelfReceipt` | four readings of different ages; errors without detail | a receipt only over fresh, fitting evidence |
| Policy audit (`policy.ts`) | rule file | audit of a resolved profile | an override file that cannot be understood | no trouble with the file silences a rule |
| Tool bundles (`bundles.ts`) | definition file | bundles of servers, suggestion, assignment of tools | keywords of several tokens or of none | every match is listed once |
| Stacks, context pack (`stacks.ts`, `contextPack.ts`) | catalog and manifests | list, describe, handoff | entries outside the root, broken manifests, cut groups | lines that are cut off are counted |
| Capability finder (`capabilityFinder.ts`) | resolution file | overview, ranked candidates | inconsistent files, ties behind the limit | a tie is told |
| Skills, semantic routing (`skills.ts`, `skillFinder.ts`, `semanticRouting.ts`) | two roots, a routing map | list, find, resolve a route | names deployed twice, a map that contradicts itself | a resolved route leads to live, unambiguous skills |
| MCP landscape (`catalog.ts`, `mcpCatalog.ts`) | listing, packages, hand-kept catalog | scan, join, describe | three readings of different ages, entries by id or by package name | an unreadable source is not an empty one |
| Plugins (`plugins.ts`) | three providers' trees, modules | list | manifests that differ, cached copies | each installation is listed |

Interaction: `index.ts` registers MCP tools; a handler awaits the readings of one or more
components and makes its answer of them when the last has come. The gateway
takes its targets from the tool catalog's readers (profiles or local directories),
creates its transports with `createTransport` of `toolCatalog.ts` and its budgets and
limiter from `gatewayHardening.ts`. The dashboard calls profiles, policy audit and the
tool scan. The control room client is the only caller of the bridge.

`PROJECT.json` lists every component with its status and every hazard with its line.

## 2. Modules

| Module | Models | Kind |
|---|---|---|
| `SlotPool` | what the concurrency budget promises: slots, strict queue | abstract specification |
| `ConcurrencyLimiter` | `ConcurrencyLimiter`: counter, array, timers | state machine, implements `SlotPool` |
| `GatewayPolicy` | loading and evaluating the policy file, transport policy, target lookup | operators |
| `GatewayInvoke` | `invokeGatewayTool`, any number of concurrent calls | state machine, composes `ConcurrencyLimiter` and `GatewayPolicy` |
| `ToolScan` | the workers of one scan, shared index and budget | state machine |
| `BridgeRun` | one question of the control room client: `runBridge`, `spawnBridge` | state machine |
| `LockCheck` | `cmd_check_lock` of the bridge | state machine |
| `ProfileStore` | the dashboard's writing requests on a profile's files | state machine |
| `ProfileResolve` | `resolveMcpProfile`: inheritance, cache, cycles | state machine against a reference definition |
| `Answers` | what an awaited function returns or throws | operators |
| `PolicyRules`, `ToolBundles`, `McpLandscape`, `SelfReceipt`, `Capabilities`, `SkillRouting`, `StackContext`, `Plugins`, `Profiles`, `ToolTargets` | what each component makes of what its sources hold | operators |
| `HostRegisters` | what the bridge and its client make of the host's registers | operators |
| `Wordings` | what an answer tells, and in which language | operators |
| `ControlCenter` | the server's own requests: every tool's handler, reading by reading | state machine, composes the operators above |
| `Ranks` | how far a program is from its end | operators of the proofs |
| `MC...` | values of the constants for TLC | instances |
| `..._proofs` | theorems and their proofs | TLAPS |

Operators named `Broken...` stand before the definition they are a plausible mistake
in. No specification uses them; the `mutants` of `PROJECT.json` name, for every checked
property, one that the property rejects when it takes the definition's place.

### ConcurrencyLimiter and SlotPool

`active`, `waiting` are the fields of the class; an entry of `waiting` is named by the
caller whose promise it holds, and `slot[c]` is what that promise came to. `GrantNow`
and `Enqueue` are the two paths of `acquire()`, `TimerFires` the timer callback,
`HandOver` and `Free` the two paths of `release()`. Each runs to completion in
JavaScript and is one action. `Settle` says that a promise settles once, so a slot
handed to an already refused entry would vanish; that this never happens is a result
(`SlotsAccounted`, `QueueMatchesPromises`), not an assumption of the model. The
refinement maps the callers that hold a slot to `holders` and the array to `queue`.

### GatewayPolicy and GatewayInvoke

A glob is the set of names it matches. The policy file is what a read of it may find:
a shape that is refused as a whole, or lists of raw rules and host entries, usable or
not, which the operators normalise as the code does. `GatewayInvoke` follows
`invokeGatewayTool` from await to await (`pc`): policy read, scope, slot, connect, list,
call, close, release, report. File and scope are chosen afresh at each read. `Finish`
starts the audit append, and from there `AppendAudit` runs beside `CloseConnection`
and `ReleaseSlot`, as `return finish(...)` inside `try` runs beside `finally`.
`TargetExecutes` is the target's own step: a remote target may run a request after the
gateway gave up on it, a stdio target dies with its connection.

The policy decides about the name the caller used; which of a target's names that is
does not matter to the code, and a rule for another name of the same target does not
apply. `ExecutedOnlyWhenCleared` therefore speaks of the requested name.

### ToolScan

`Probe`, `Skip` and `Exit` are the three ways through the head of a worker's loop,
`Traffic` a chunk of a remote body passing `budgetedFetch`, `Listed` the tool list,
`Fails` the catch block, `Close` the `finally` block and the store into `catalogs`.
`paid` is a history variable: which bytes of the budget the answer of a target was paid
with, the bytes of a failed or endless probe being lost to all.
What the MCP client library makes of a body cut off by the budget is its own affair;
the model allows every outcome the catch block distinguishes.

### BridgeRun and LockCheck

`BridgeRun` follows one question. The machine it runs on is part of the initial state:
what `spawn()` of each interpreter leads to. `Settle` is the `settled` flag that the
timer, `error` and `close` test; `Data` may deliver less than has been written. `Parse`
is the tail of `runBridge`. The child (`Write`, `Exit`) owes nothing: it may hang, die in
the middle of its output and outlive the signal.

`LockCheck` follows the walk through the directories, `agenda` being what the loops of
`cmd_check_lock` still have to do, while `PlaceLock` and `ReleaseLock` happen at any
moment. `constant` and `ever` remember which directories had a lock all the time or at
some time since the query began, since this is all a walk can be asked for. What the
host's canonical modules do (read a directory, find the main clone, know the twins) is
modelled by what they may return; each may fail. `FindTwins` may also fail in the middle
with some twins already found. The walk is that of a file; for a directory the canonical
module takes over part of it.

### ProfileStore and ProfileResolve

`ProfileStore` has one process per HTTP request, which stops at every await: read,
exists?, copy, open with truncation, write, resolve for the answer. A file is absent,
empty, torn or a whole profile, of which the set of servers is kept. Backups are named by
the millisecond, as in the code; `Moments` are the milliseconds the clock may show, in any
order, so that two copies may have the same name and the later one then replaces the
earlier one. `Backup` has the three ways of `backupFileIfExists`: no file, a file that is
copied, and a file whose look is refused (`pathExists` takes every error of `fs.access`
for absence), which is then overwritten without a copy. `Copy` may break off. Any file
operation may fail (`Fails`), and the process may be killed (`Crash`).

History variables remember what the properties speak of: `held`, the sound contents a
file has ever had; `replaced`, the backups another one has replaced; `missed`, what a
request overwrites without having copied it; `latest`, the last sound content of the
profile; `started`, what that was when a request read the profile. `NothingLost` and
`OnlyRequestedChanges` hold of overlapping requests too. The first excepts exactly the
cases in which the code does lose something, by `replaced` and `missed`; the second lets a
write undo what others changed since its request read the profile, and nothing else.
`overlap` remembers whether a request has ever begun before another one had ended:
`SuccessMeansDone` is about requests one at a time.

`ProfileResolve` keeps the recursion of `resolveMcpProfile` as an explicit stack, with
one action per way through `resolveRecursive`. `seen` remembers what each file held when
it was read. The reference, `Inherited`, says for one server where a profile gets it from,
given where its bases get it from, and `Origins` repeats that from nothing as often as
there are profiles, without cache, stack or order of the walk; the code merges whole maps
depth first. That the two agree, while files are rewritten between the reads, is
`ResolvedAsRead`. Toggling a server is
one step here; its own steps are those of `ProfileStore`.

### ControlCenter and the components' operators

A request is a tool, its arguments, the labels it took when it began, what it has read so
far, and its answer. `Awaits` lists, per tool, the readings of its handler in their order;
`Read` makes one of them and lets everything else go on in between: other requests, the
host, `set_language`. What a source may hold is the constant `Contents`; the installed
package and the decision index follow the variable `host`. A reading function that throws
(`Loaded`) ends the request with an error. When nothing is left to read, the action of
that tool makes the answer from the component's operators, in one step, since the code
awaits nothing more. Readings started together by `Promise.all` come one after the other
in the model: they do not influence each other, and which of two errors is reported makes
no difference to any property.

An answer is a sequence of parts; a part has a language and shows a value. A part that
the code words before its first await has the language of the call (`labels`), any other
the language of the moment. `during` is a history variable: which of the events
`set_language`, `write`, `upgrade`, `decide`, `reindex` happened while the request was
there. The properties that speak of the age of an answer are weakened by it and by
nothing else: what an interleaving can explain is allowed only if it took place.

`server-catalog.json` is truncated by `open` (`WriteBegin`), complete after `close`
(`WriteEnd`); writers that overlap may leave any mixture (`torn`). The server that runs
the handlers may be killed at any moment (`Crash`).

The components' operators keep the decisions and abstract the texts: names are numbers in
alphabetical order, a text is the set of its tokens, a file that can be in several states
says so in its field `state`. An item of a handoff is its line, that is its first 160
characters, and a rest: `Lines` drops repetitions after the cut, as the code does.
`BundleDescriptions` is a part of its own on the pages of `status` and `list_bundles`,
since the descriptions of the built-in bundles are German in every language. Where a
component has a state machine of its own
(`ToolScan`, `ProfileResolve`, `GatewayInvoke`, `BridgeRun`, `LockCheck`), its outcomes
are readings here. `Unknown` of `HostRegisters` is the fail-closed answer.

## 3. Runs

| Run | Question | Bounds |
|---|---|---|
| `limiter` | Are slots neither lost nor doubled, is the queue fair, does every caller leave it? | five callers, two slots: two holders, a queue of three, both release paths, timers anywhere in the queue; callers return any number of times |
| `gateway_invoke` | Does only what was cleared run, are the reports and the log true, does every call return, is anything left behind? | two calls, one slot; four requests (by package and by directory name, remote, oversized); five policy files (foreign schema, a rule without tool, deny, allowlist, host list); a failing scope and two scopes with local, remote and unsupported targets; audit required |
| `tool_scan` | Is every successful answer paid for with bytes of its own, does every target get one final truthful entry, does a worker close before it opens again, does the scan return? | five targets of all kinds, two workers, five bytes, answers of one or three bytes: the budget fits a few small answers or one large one and runs out in the middle |
| `bridge_run` | Is doubt ever reported as permission, is a child forgotten, does the question return? | two interpreters with four ways to start each, five kinds of output: everything `runBridge` distinguishes |
| `lock_check` | Is a lock missed that stood all the time, is `locked` invented, does the walk end? | a file in a worktree with a twin, a main clone whose twins are registered one level up: every branch of the search for twins, two ancestors per chain |
| `profile_store` | Is anything lost, does a reported success hold, may anything change that nobody asked for? | two requests with all interleavings of their awaits, one to disturb and one to be disturbed; two servers, one local and known by two names; two moments, so that backups with one name and with different names meet; all operations, failures, refused looks and kills |
| `profile_resolve` | Is the resolution the documented inheritance, are cycles reported where they are, does it end? | four profiles: chains, a diamond, cycles that do not pass through the profile asked for and ones that do, an unreadable file; one server, since servers do not influence each other; one rewrite at any moment, since no file is read twice |
| `requests` | Does any tool claim what it did not read, hide what it could not read, or mix what others changed meanwhile? | two clients: one calls every tool with two or three arguments each, beside the other only `set_language` or a second `build_catalog`; each source holds what is wanted of it or one of the ways it fails, chosen at each reading; two languages, one upgrade, one decision and its indexing, one group of a handoff with more lines than are shown, among its items a repeated one and two that share their line |

One slot is the hardest limit for the gateway: every pair of calls competes. The policy
is consulted per call, so two calls with different files show every interference there
is; the theorems of section 5 remove the bounds.

The `doc_...` runs state what the documentation says and end in a counterexample; they
are the findings of section 6.

**Fairness.** A timer that is due fires, a file operation settles, `close()` settles,
and `connect`, `listTools`, `callTool` carry a timeout (`Fails` is always open to them),
so each stage of a call is weakly fair. Nothing is assumed of targets: `Answer`,
`TargetExecutes`, `Listed` and `Traffic` are never owed, and the limiter's callers may
keep a slot for ever.
The control room client is as fair as its own steps and its timer, the child not at all.
`requests` assumes no fairness and checks no liveness: every reading may take for ever.
In it the second client is idle beside most tools, since only the language and the catalog
file are shared between requests; `Together` names the pairs that meet.
The lock check and the resolution of a profile are sequential programs that run on, with
every read settling somehow; the others, who place locks or rewrite files, may do so at
any moment, a bounded number of times in the case of profiles.

`CHECK_DEADLOCK FALSE` is given where the modelled activity ends: when all calls have
returned or the scan is over.

## 4. Properties

Type invariants are proved where a proof needs them and are in no run. Each property
relates several pieces of state or several actors. The comment above each one quotes or
names the code behaviour it is about, and `hazards` in `PROJECT.json` says which danger it
watches.

## 5. Proofs

Proved by TLAPS for every value of the constants that satisfies the module's `ASSUME`s:

- `ConcurrencyLimiter_proofs`: type correctness, `SlotsAccounted`, `AtMostLimit`,
  `QueuedOnlyWhenFull`, `QueueMatchesPromises`, and the refinement of `SlotPool`. The
  inductive invariant is the conjunction of them: that a hand-over needs no test of the
  limit rests on the queue holding exactly the unsettled promises, and that a newcomer
  overtakes nobody rests on a non-empty queue meaning `active = Limit`.
- `GatewayInvoke_proofs`: since a call asks for a slot only from `scope` and releases only
  from `release`, the gateway behaves towards its limiter as the limiter's specification
  has it (the lemma `CallsUseLimiter`, a matter of how the modules are composed), and the
  limiter's theorems are used by instantiation, without proving them again. The
  invariant ties the stage of a call to what has been decided (`pc`, `file`, `target`),
  to its slot and to its connection, and the audit entry to the verdict. From it follow
  all safety properties of the gateway run.
- `ToolScan_proofs`: the invariant `Shared` says that a target below the shared index
  has its entry or is in the hands of exactly one worker, and those above are
  untouched. Completeness, finality of entries and the bound on connections
  follow for every list of targets and every number of workers. That each `ok` has bytes of
  its own follows from the bytes of all answers, stored or about to be, being disjoint and
  below `used`, which stays within the budget (`BudgetKept`, a part of the invariant).
- `LockCheck_proofs`: as long as no source has failed, each directory asked about is on
  the agenda or its standing locks are found, each search for twins is on the agenda or
  its targets are, and what the walk has passed is free. Every answer of the check follows
  from that when the agenda is empty, for any tree of directories and any twins, while
  others place and lift locks.
- `ProfileResolve_proofs`: the open calls form a chain of inheritance in the versions
  read, the cache rests on itself alone and contains no circle, and the sources are
  the open and the cached profiles, each below one that leads to it. The sources are
  then complete when the last call returns, and a profile found open closes a circle.
  A second invariant, `IInherit`, says that each profile in the cache holds what
  `Inherited` makes of the cached bases (`Faithful`), and that each open call has gathered
  what the bases merged so far say. For `ResolvedAsRead` the recursive reference has to be
  dealt with first: `StepwiseExists` shows that the function `Origins` exists, and
  `AllReached` that with each step at least one more cached profile has its final value,
  since the cache contains no circle. Both look at the least number for which the claim
  would fail.
- `BridgeRun_proofs`: the invariant says which interpreters have been tried at which
  stage, that only the last child can be alive and only while it is waited for, and that
  reading never gets ahead of writing. The three safety properties follow for every set
  of interpreters and outputs.
- `ProfileStore_proofs`: for any number of overlapping requests, what is about to be
  written is always an edit of a profile once held (`EditsHeld`), namely of the one that
  was the last sound content when the request read it, so that each change of the profile
  is the one asked for or undoes what others wrote since. A whole file on disk is
  the last sound content (`LatestOnDisk`). What is sound on disk while a
  request is about to open or write it has been copied or is among what the request missed
  (`CoveredFirst`): that is why nothing is lost without one of the named reasons, and it has
  to be kept by the writes of all other requests. As long as no requests overlap, success is effect.
- `ControlCenter_proofs`: `SuccessMeansWritten` for any clients, calls and contents of
  the sources. It is not inductive: a writer that has not answered yet says nothing about
  it. The invariant adds that a writer waits for its write and for nothing else, that a
  writer who was told of no other is alone with the file, and that such an answer finds
  the file closed. Its parts are stated of two states, so that one lemma serves all
  actions that leave the file alone.
  A second invariant, `Honest`, is about the nine tools whose answer is only as true as
  its readings: the sources read so far are the first ones of the handler's order, none
  of them was refused, an index, its age and a version agree with the host as it is now
  unless an index run or an upgrade has been noted since, and the answer is made of
  exactly these readings. With a lemma for each operator that makes such an answer
  follow `StaleUnlessReindexed`, `UnknownNeverReassures`, `AuditNeverSilent`,
  `ReceiptBacked`, `RouteVerified` and `CutsAreTold`. None of them is inductive: before
  the answer they say nothing of what a request holds. `CutsAreTold` rests on what the
  sorting of candidates does for any number of them (`RanksAreAnOrder`, `RankedAsAbove`)
  and on counting the lines of a group (`OmittedAreCounted`).
  A third invariant, `Spoken`, gives `LanguageMixExplained`: until somebody sets the
  language, the labels of a request, the notes made while it reads and the parts of its
  answer are in the language of the process, the descriptions of bundles excepted. There is
  a lemma for every formatter.

The assumptions are the ranges the code enforces: a limit of at least one (`envInt` clamps
to 1..64), finite sets of calls and workers, `Cardinality(Workers) <= MaxParallel` (the
array of workers is cut to that length). `ContentsAssumption` says of the readings of
`ControlCenter` what the code makes of any file: which states a register is found in, that
an entry of a policy file has a flag that is set, not set or of another type, that what is
sorted is finite and ordered by number (the packages of a listing, the servers of a
profile, the components of a resolution), that the bridge calls a path safe only with the
verdict "clear" (scripts/controlroom_bridge.py:394). `OfferedAssumption` says that a query
has finitely many words and that its limit is at least one, as the argument schema has it.
`ResolveAssumption` has finitely many profiles.

Lists that the code sorts or filters are `Ordered` and `AtPlaces` of `Answers`, which say
which element comes at which place; the sorting operators of the community modules are
recursive, and nothing can be proved about them.

`AtMostLimit`, `QueuedOnlyWhenFull` (limiter), `NoTargetTwice` (scan),
`AbsentPythonIsNoReason` (bridge) and `OutputWasProfile` (profile files) are established
by these theorems alone and are in no run.

Of the liveness of the four programs that come to an end, the half that is no matter of
fairness is proved: `WalksComeToAnEnd`, `ChecksComeToAnEnd`, `ScansComeToAnEnd` and
`QuestionsComeToAnEnd`. Each gives its program a rank of five numbers (module `Ranks`)
that every step of the program lowers and no step of anyone else changes, so none of them
can be kept busy for ever: not by profiles that extend each other in a circle and are
rewritten meanwhile, by twins that add targets to the agenda, by a target that talks and
never answers, by an interpreter that is never found. That a rank cannot be lowered for
ever is the lemma `RanksAreFounded`, which is about numbers only. A resolution's rank
starts with the profiles it has not read, so that it rests on no file being read twice
(`FilesAreReadOnce`), whose invariant `Remembers` says that what was read is open or in
the cache; a check's with the searches on its agenda, by places counted from the end,
since targets are only added in front; a scan's with the targets nobody has taken, and its
last number are the bytes left; a question's with the stages and attempts ahead. What is
missing to the liveness properties is that a step can be taken until the end, which is
ENABLED, and is taken, which is fairness.

Only model-checked: liveness under fairness (`NotQueuedForever`, `EveryCallReturns`,
`ScanReturns`, `QuestionReturns`, `CheckEnds`, `ResolutionEnds`), which is out of the proof
system's reach like ENABLED. Every other property of a passing run is a theorem.

## 6. Findings

- **A required audit does not refuse the call** (`doc_audit_required`). The README of
  the program (line 384) promises a refused call; the entry is written after the target
  has run the tool, and only the answer is withheld.
- **`unreachable` targets may have been asked** (`doc_unreachable`). A `callTool` that
  times out after it was sent gets the outcome documented as "could not be asked".
- **A timeout need not yield `unknown`** (`doc_bridge_timeout`). Output that is complete
  when the timer fires is used, contrary to the module comment of `controlroom.ts`.
- **Disabling a server may not disable it** (`doc_disable`). A server that the profile
  inherits, or lists under `add` or `servers`, stays in the resolved profile after a
  successful request to disable it.

Others were met on the way and are visible in the modules, without a run of their own:

- Host entries of the wrong type in a policy file are dropped, where README.md:376
  promises that a malformed file refuses every call (`GatewayPolicy`).
- `spawn()` throws for some start failures, so that a query rejects where
  `controlroom.ts:145` promises a fail-closed result (`Spawn` of `BridgeRun`).
- Write actions do not always "create a backup before overwriting an existing file"
  (README.md:557). A look for the file that is refused counts as no file
  (`profiles.ts:139`); two backups of one millisecond have one name
  (`profiles.ts:152`); and of two overlapping dashboard requests the first one's output may
  be overwritten by the second, whose copy is older (`NothingLost` of `ProfileStore` names
  these three cases and no other).
- Of two overlapping toggles of a profile the later write undoes the earlier one, which
  has reported success or will (`dashboard.ts:148`; `OnlyRequestedChanges` excepts it).
- The built-in bundles are described in German in every language (`bundles.ts:75`,
  `index.ts:170`), where README.md:684 has maintained texts for tool output in all six; it
  excuses only bundles of custom files (`LanguageMixExplained` does not count them).
- Items of a handoff that share their first 160 characters become one line before the
  lines are counted, so that one of them is missing and nothing tells it
  (`contextPack.ts:26-30`; `CutsAreTold` counts lines).
- `lock_roots.json`, read a second time, may be unreadable; the twins are then not
  searched although `controlroom_bridge.py:34` promises `unknown`
  (`ClearMeansTwinsFree` of `LockCheck` excepts the case).
- `list-decisions` reads the index before it looks at its age
  (`controlroom_bridge.py:555`, 568): an index generated in between is listed as fresh in
  its old state (`StaleUnlessReindexed` excepts the case).
- An unconfigured or unavailable register is printed with `Matches: 0` or `Returned: 0`
  beside its state, although `index.ts:1352` and `:1405` say that it is not reported as
  zero (`FormatDecisions`, `FormatResources`).
- Governance is `complete` although the decisions it lists are stale or cut
  (`ListGovernance`).
- An inventory that cannot be opened ends `describe_resource` in an unassigned variable;
  the client then says `unknown` (`DescribeResource`).
- `describe_mcp` by package name finds a hand-kept entry without its installed server
  (`DescribeMcpServer`).
- A resolved route silently lacks an endpoint that is not live when another one is
  (`ResolveSemanticRoute`).
- `list_plugins` with a claude root alone scans `cache/` below the current directory for
  the codex provider (`PluginsOf`).
- The receipt's version is read before the probe: a package replaced in between is
  attested with the old version (`ReceiptBacked` excepts the case).

## 7. Plan

Done: the gateway with its limiter, the tool scan, the control room client, the lock
check, the profiles' files and their resolution, every tool of the server with the
components behind it. Next, in this order:

1. Response budget, truncation and redaction of the gateway, as functions over bounded
   inputs with a reference definition.
2. The dashboard's overviews and its confirmation dialogues.

Not modelled, with the reason: the gateway's payload budgets and redaction (they count
bytes and replace strings in values of any depth, which no small set of contents tells
apart); HTML of the dashboard, string tables, table layout and the MCP argument schemas
(wording and layout); the process supervisor and the target servers (external programs;
they appear as the choices their callers can observe).
