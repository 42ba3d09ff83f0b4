------------------------------- MODULE ToolScan -------------------------------
(***************************************************************************)
(* scanTargetsWithBudget and readToolCatalogTarget of                      *)
(* src/src/toolCatalog.ts: workers that take targets from a shared index,  *)
(* ask each for its tools and pay for the answers from one shared budget.  *)
(* Between two awaits a worker runs to completion.                         *)
(*                                                                         *)
(* What the MCP client library does with a response body cut off by the    *)
(* budget is its own affair: it may reject the request with the budget     *)
(* error, with an error of its own, or carry on with another response.     *)
(***************************************************************************)
EXTENDS Integers, SequencesExt

CONSTANTS
    Kinds,        \* the targets: a sequence of "stdio", "remote", "unsupported"
    Workers,      \* the workers that Promise.all waits for
    MaxParallel,  \* normalizeToolScanParallelism(options.maxParallelProbes)
    MaxBytes,     \* budget.maxResponseBytes
    Sizes         \* sizes of a response, in bytes

ASSUME ScanAssumption ==
    /\ Kinds \in Seq({"stdio", "remote", "unsupported"})
    /\ IsFiniteSet(Workers) /\ Workers # {}
    /\ MaxParallel \in Nat \ {0} /\ Cardinality(Workers) <= MaxParallel
    /\ MaxBytes \in Nat \ {0}
    /\ Sizes \subseteq Nat \ {0}

Targets == DOMAIN Kinds

VARIABLES
    nextIndex,  \* nextIndex, counted from 1
    used,       \* budget.usedResponseBytes
    at,         \* per worker: "loop", "probe", "close" or "done"
    index,      \* the target a worker is busy with
    pending,    \* the entry its probe will return
    conn,       \* the targets with an open connection
    entry,      \* catalogs: per target its status, "none" while unset
    paid        \* per target the bytes of the budget, by number, that its tool
                \* list took; no step depends on it

vars == <<nextIndex, used, at, index, pending, conn, entry, paid>>

Statuses == {"ok", "failed", "incomplete", "unsupported"}

TypeOK ==
    /\ nextIndex \in Nat \ {0}
    /\ used \in Nat
    /\ at \in [Workers -> {"loop", "probe", "close", "done"}]
    /\ index \in [Workers -> Nat]
    /\ pending \in [Workers -> Statuses]
    /\ conn \subseteq Targets
    /\ entry \in [Targets -> Statuses \union {"none"}]
    /\ paid \in [Targets -> SUBSET Nat]

Init ==
    /\ nextIndex = 1
    /\ used = 0
    /\ at = [w \in Workers |-> "loop"]
    /\ index = [w \in Workers |-> 0]
    /\ pending = [w \in Workers |-> "failed"]
    /\ conn = {}
    /\ entry = [i \in Targets |-> "none"]
    /\ paid = [i \in Targets |-> {}]

-----------------------------------------------------------------------------
Busy(w) == at[w] \in {"probe", "close"}

Exhausted == used >= MaxBytes
Fits(bytes) == used + bytes <= MaxBytes

(* reserveResponseBytes, granted.                                          *)
Reserve(bytes) == Fits(bytes) /\ used' = used + bytes

(* reserveResponseBytes, refused: nothing is counted.                      *)
RefuseBytes(bytes) == ~Fits(bytes) /\ UNCHANGED used

Record(i, status) == entry' = [entry EXCEPT ![i] = status]

(* The probe has its result; the `finally` block comes next.               *)
Ends(w, status) ==
    /\ at' = [at EXCEPT ![w] = "close"]
    /\ pending' = [pending EXCEPT ![w] = status]

-----------------------------------------------------------------------------
(* Operators named Broken... are plausible mistakes in the definition that *)
(* follows them; no specification uses them.                               *)
BrokenProbeNoIncrement(w) ==
    /\ at[w] = "loop"
    /\ nextIndex \in Targets
    /\ Kinds[nextIndex] # "unsupported"
    /\ ~Exhausted
    /\ index' = [index EXCEPT ![w] = nextIndex]
    /\ conn' = conn \union {nextIndex}
    /\ at' = [at EXCEPT ![w] = "probe"]
    /\ UNCHANGED <<nextIndex, used, pending, entry, paid>>

(* A worker takes the next target and, unless it needs no connection,      *)
(* creates its transport, all before the first await.                      *)
Probe(w) ==
    /\ at[w] = "loop"
    /\ nextIndex \in Targets
    /\ Kinds[nextIndex] # "unsupported"
    /\ ~Exhausted
    /\ nextIndex' = nextIndex + 1
    /\ index' = [index EXCEPT ![w] = nextIndex]
    /\ \/ /\ conn' = conn \union {nextIndex}
          /\ at' = [at EXCEPT ![w] = "probe"]
          /\ UNCHANGED pending
       \/ Ends(w, "failed") /\ UNCHANGED conn     \* createTransport throws
    /\ UNCHANGED <<used, entry, paid>>

BrokenSkip(w) ==
    /\ at[w] = "loop"
    /\ nextIndex \in Targets
    /\ nextIndex' = nextIndex + 1
    /\ Kinds[nextIndex] = "unsupported" \/ Exhausted
    /\ IF Kinds[nextIndex] = "unsupported" THEN Record(nextIndex, "unsupported") ELSE UNCHANGED entry
    /\ UNCHANGED <<used, at, index, pending, conn, paid>>

(* A target without a start form, or one the budget has no byte left for,  *)
(* gets its entry without being asked.                                     *)
Skip(w) ==
    /\ at[w] = "loop"
    /\ nextIndex \in Targets
    /\ nextIndex' = nextIndex + 1
    /\ \/ Kinds[nextIndex] = "unsupported" /\ Record(nextIndex, "unsupported")
       \/ Kinds[nextIndex] # "unsupported" /\ Exhausted /\ Record(nextIndex, "incomplete")
    /\ UNCHANGED <<used, at, index, pending, conn, paid>>

Exit(w) ==
    /\ at[w] = "loop"
    /\ nextIndex \notin Targets
    /\ nextIndex' = nextIndex + 1
    /\ at' = [at EXCEPT ![w] = "done"]
    /\ UNCHANGED <<used, index, pending, conn, entry, paid>>

BrokenListed(w) ==
    /\ at[w] = "probe"
    /\ \E bytes \in Sizes :
        \/ Reserve(bytes) /\ Ends(w, "ok")
        \/ RefuseBytes(bytes) /\ Ends(w, "ok")
    /\ paid' = [paid EXCEPT ![index[w]] = (used + 1)..used']
    /\ UNCHANGED <<nextIndex, index, conn, entry>>

(* The tool list arrives.  A stdio answer is measured after it was read, a *)
(* remote one passes budgetedFetch on its way in.                          *)
Listed(w) ==
    /\ at[w] = "probe"
    /\ \E bytes \in Sizes :
        \/ Reserve(bytes) /\ Ends(w, "ok")
        \/ RefuseBytes(bytes) /\ Ends(w, "incomplete")
        \/ RefuseBytes(bytes) /\ Kinds[index[w]] = "remote" /\ Ends(w, "failed")
    /\ paid' = [paid EXCEPT ![index[w]] = (used + 1)..used']
    /\ UNCHANGED <<nextIndex, index, conn, entry>>

(* Any other response of a remote target: the handshake, an event stream,  *)
(* which may still deliver while the connection is being closed.           *)
Traffic(w) ==
    /\ Busy(w) /\ index[w] \in conn
    /\ Kinds[index[w]] = "remote"
    /\ \E bytes \in Sizes :
        \/ Reserve(bytes) /\ UNCHANGED <<at, pending>>
        \/ /\ at[w] = "probe"
           /\ RefuseBytes(bytes)
           /\ \E status \in {"incomplete", "failed"} : Ends(w, status)
    /\ UNCHANGED <<nextIndex, index, conn, entry, paid>>

BrokenFailsIncomplete(w) ==
    /\ at[w] = "probe"
    /\ Ends(w, "incomplete")
    /\ UNCHANGED <<nextIndex, used, index, conn, entry, paid>>

BrokenNoTimeout(w) == at[w] = "probe" /\ UNCHANGED vars

(* connect or listTools rejects: its timeout, a crash, a protocol error.   *)
Fails(w) ==
    /\ at[w] = "probe"
    /\ Ends(w, "failed")
    /\ UNCHANGED <<nextIndex, used, index, conn, entry, paid>>

BrokenClose(w) ==
    /\ at[w] = "close"
    /\ Record(index[w], pending[w])
    /\ at' = [at EXCEPT ![w] = "loop"]
    /\ UNCHANGED <<nextIndex, used, index, pending, conn, paid>>

(* The connection is closed, whatever that throws, and the entry stored.   *)
Close(w) ==
    /\ at[w] = "close"
    /\ conn' = conn \ {index[w]}
    /\ Record(index[w], pending[w])
    /\ at' = [at EXCEPT ![w] = "loop"]
    /\ UNCHANGED <<nextIndex, used, index, pending, paid>>

Step(w) ==
    \/ Probe(w) \/ Skip(w) \/ Exit(w)
    \/ Listed(w) \/ Traffic(w) \/ Fails(w) \/ Close(w)

Next == \E w \in Workers : Step(w)

(* The requests carry a timeout, close() settles, the loop runs on.  The   *)
(* targets owe nothing.                                                    *)
Fairness ==
    \A w \in Workers :
        /\ WF_vars(Probe(w) \/ Skip(w) \/ Exit(w)) /\ WF_vars(Close(w))
        /\ WF_vars(Fails(w))

Spec == Init /\ [][Next]_vars
FairSpec == Spec /\ Fairness

-----------------------------------------------------------------------------
Returned == \A w \in Workers : at[w] = "done"

(* The targets are shared out: no two workers have the same one, and none  *)
(* is taken up again once it has its entry.                                *)
NoTargetTwice ==
    \A w \in Workers : Busy(w) =>
        /\ entry[index[w]] = "none"
        /\ \A v \in Workers \ {w} : Busy(v) => index[v] # index[w]

(* The scan returns an entry for every target, in particular for those     *)
(* nobody had a byte left for, and no connection stays open.               *)
EveryTargetReported ==
    Returned => (\A i \in Targets : entry[i] # "none") /\ conn = {}

(* "applies finite defaults of four concurrent probes" (README.md:724): a  *)
(* worker whose probe failed or was cut off has closed its connection      *)
(* before it opens the next one.                                           *)
ProbesBounded == Cardinality(conn) <= MaxParallel

(* "a 1 MiB aggregate response budget ... it is never reported as a        *)
(* successful empty server" (README.md:724): every `ok` entry rests on a   *)
(* tool list paid for from the budget, with bytes of its own that no other *)
(* `ok` rests on, however the answers of concurrent probes interleave.     *)
OkMeansPaid ==
    \A i \in Targets : entry[i] = "ok" =>
        /\ paid[i] # {} /\ paid[i] \subseteq 1..MaxBytes
        /\ \A j \in Targets \ {i} : entry[j] = "ok" => paid[i] \intersect paid[j] = {}

(* `incomplete` blames the budget; it does so only when the budget could   *)
(* not take one more answer of the largest size.                           *)
IncompleteMeansShort ==
    \A i \in Targets : entry[i] = "incomplete" =>
        \E bytes \in Sizes : used + bytes > MaxBytes

(* An entry is final.                                                      *)
EntriesFinal == [][\A i \in Targets : entry[i] # "none" => entry'[i] = entry[i]]_vars

(* The scan returns although a target may never answer.                    *)
ScanReturns == <>Returned
=============================================================================
