------------------------------- MODULE BridgeRun -------------------------------
(***************************************************************************)
(* One question to the control room bridge: the query functions, runBridge *)
(* and spawnBridge of src/src/controlroom.ts.  The child process, its      *)
(* output pipe and the timer race; the first of timer, `error` and `close` *)
(* settles the promise with the output read so far, later ones find it     *)
(* settled.                                                                *)
(*                                                                         *)
(* The bridge prints one JSON object at its end; of its output the model   *)
(* keeps how much there is: nothing, a part (no JSON) or all of it.        *)
(***************************************************************************)
EXTENDS Integers, Sequences

CONSTANTS
    Interpreters,  \* names that may be tried, "python" and "python3" among them
    Answers        \* what a bridge prints: its verdict, "no-verdict" or "no-json"

ASSUME BridgeAssumption ==
    /\ {"python", "python3"} \subseteq Interpreters
    /\ {"clear", "locked", "unknown", "no-verdict", "no-json"} \subseteq Answers

VARIABLES
    python,     \* config.python
    configured, \* the register's environment variable is set
    spawning,   \* what spawn() of each interpreter leads to on this machine
    tried,      \* the interpreters spawned so far
    stage,      \* "ask", "spawn", "wait", "decide" or "done"
    child,      \* per interpreter: "none", "failed", "alive", "killed" or "exited"
    answer,     \* what the child is going to print
    written,    \* how much of it it has written
    stdout,     \* how much of it has been read
    settled,    \* what settled the promise: "no", "timeout", "error" or "close"
    result      \* what the caller gets, as <<v>>

machine == <<python, configured, spawning>>
process == <<child, answer, written, stdout>>
vars == <<machine, tried, stage, process, settled, result>>

Amounts == {"nothing", "part", "all"}
Verdicts == Answers \ {"no-verdict", "no-json"}

TypeOK ==
    /\ python \in Interpreters /\ configured \in BOOLEAN
    /\ spawning \in [Interpreters -> {"starts", "ENOENT", "other", "throws"}]
    /\ tried \in Seq(Interpreters)
    /\ stage \in {"ask", "spawn", "wait", "decide", "done"}
    /\ child \in [Interpreters -> {"none", "failed", "alive", "killed", "exited"}]
    /\ answer \in Answers /\ written \in Amounts /\ stdout \in Amounts
    /\ settled \in {"no", "timeout", "error", "close"}
    /\ result \in {<<>>} \union {<<v>> : v \in Verdicts \union {"rejected"}}

Init ==
    /\ python \in Interpreters
    /\ configured \in BOOLEAN
    /\ spawning \in [Interpreters -> {"starts", "ENOENT", "other", "throws"}]
    /\ tried = <<>>
    /\ stage = "ask"
    /\ child = [i \in Interpreters |-> "none"]
    /\ answer = "unknown" /\ written = "nothing" /\ stdout = "nothing"
    /\ settled = "no"
    /\ result = <<>>

Current == tried[Len(tried)]
Running == stage # "ask" /\ tried # <<>> /\ child[Current] \in {"alive", "killed"}

Give(v) == result' = <<v>> /\ stage' = "done"
FailClosed == Give("unknown")

-----------------------------------------------------------------------------
(* Operators named Broken... are plausible mistakes in the definition that *)
(* follows them; no specification uses them.                               *)
(* A register that is not configured is never asked.                       *)
Ask ==
    /\ stage = "ask"
    /\ \/ configured /\ stage' = "spawn" /\ UNCHANGED result
       \/ ~configured /\ FailClosed
    /\ UNCHANGED <<machine, tried, process, settled>>

(* The interpreter to try: the configured one, then "python3".             *)
Candidate == IF tried = <<>> THEN python ELSE "python3"

(* spawn() returns a child, schedules an `error` event, or throws.         *)
Spawn ==
    /\ stage = "spawn"
    /\ tried' = Append(tried, Candidate)
    /\ settled' = "no" /\ written' = "nothing" /\ stdout' = "nothing"
    /\ LET outcome == spawning[Candidate]
           becomes(state) == child' = [child EXCEPT ![Candidate] = state]
       IN  \/ /\ outcome = "starts" /\ becomes("alive")
              /\ answer' \in Answers
              /\ stage' = "wait" /\ UNCHANGED result
           \/ /\ outcome \in {"ENOENT", "other"} /\ becomes("failed")
              /\ stage' = "wait" /\ UNCHANGED <<answer, result>>
           \/ /\ outcome = "throws" /\ becomes("failed")
              /\ Give("rejected") /\ UNCHANGED answer
    /\ UNCHANGED machine

-----------------------------------------------------------------------------
(* The child, which may hang anywhere, die anywhere and outlive a kill().  *)
Write ==
    /\ Running
    /\ \/ written = "nothing" /\ written' \in {"part", "all"}
       \/ written = "part" /\ written' = "all"
    /\ UNCHANGED <<machine, tried, stage, child, answer, stdout, settled, result>>

Exit ==
    /\ Running
    /\ child' = [child EXCEPT ![Current] = "exited"]
    /\ UNCHANGED <<machine, tried, stage, answer, written, stdout, settled, result>>

(* A `data` event; more than was read so far, at most what was written.    *)
Data ==
    /\ stage = "wait"
    /\ stdout # written
    /\ stdout' \in {written, IF written = "all" THEN "part" ELSE written}
    /\ stdout' # stdout
    /\ UNCHANGED <<machine, tried, stage, child, answer, written, settled, result>>

-----------------------------------------------------------------------------
Settle(how) == stage = "wait" /\ settled = "no" /\ settled' = how /\ stage' = "decide"

BrokenTimeout ==
    /\ Settle("timeout")
    /\ child[Current] # "failed"
    /\ UNCHANGED <<machine, tried, process, result>>

BrokenNoTimer == stage = "ask" /\ stage # "ask" /\ UNCHANGED vars

(* The timer: whatever state the child is in, it is told to stop.          *)
Timeout ==
    /\ Settle("timeout")
    /\ child[Current] # "failed"
    /\ child' = [child EXCEPT ![Current] = IF @ = "alive" THEN "killed" ELSE @]
    /\ UNCHANGED <<machine, tried, answer, written, stdout, result>>

(* Emitted before any timer of the same turn can run.                      *)
ErrorEvent ==
    /\ Settle("error")
    /\ child[Current] = "failed"
    /\ UNCHANGED <<machine, tried, process, result>>

(* `close` comes when the child has exited and its pipes are read empty.   *)
CloseEvent ==
    /\ Settle("close")
    /\ child[Current] = "exited" /\ stdout = written
    /\ UNCHANGED <<machine, tried, process, result>>

NotFound == settled = "error" /\ spawning[Current] = "ENOENT"
Retries == NotFound /\ python = "python" /\ Len(tried) = 1

(* "python" is not found: once more with "python3".                        *)
Retry ==
    /\ stage = "decide" /\ Retries
    /\ stage' = "spawn"
    /\ UNCHANGED <<machine, tried, process, settled, result>>

BrokenParse ==
    /\ stage = "decide" /\ ~Retries
    /\ IF settled = "close" /\ stdout = "nothing" THEN Give("clear")
       ELSE IF stdout = "all" /\ answer \in Verdicts THEN Give(answer)
       ELSE FailClosed
    /\ UNCHANGED <<machine, tried, process, settled>>

(* What runBridge makes of the output; neither the exit code nor a timeout *)
(* is looked at when the output parses.                                    *)
Parse ==
    /\ stage = "decide" /\ ~Retries
    /\ LET parsed == /\ settled # "error"
                     /\ stdout = "all"
                     /\ answer \in Verdicts
       IN  \/ parsed /\ Give(answer)
           \/ ~parsed /\ FailClosed
    /\ UNCHANGED <<machine, tried, process, settled>>

Next ==
    \/ Ask \/ Spawn \/ Write \/ Exit \/ Data
    \/ Timeout \/ ErrorEvent \/ CloseEvent \/ Retry \/ Parse

(* The parent's own steps and its timer.  The child owes nothing.          *)
Fairness ==
    /\ WF_vars(Ask) /\ WF_vars(Spawn) /\ WF_vars(Retry) /\ WF_vars(Parse)
    /\ WF_vars(Timeout) /\ WF_vars(ErrorEvent)

Spec == Init /\ [][Next]_vars
FairSpec == Spec /\ Fairness

-----------------------------------------------------------------------------
Done == stage = "done"

(* "Uncertainty reads as locked ... never a reassuring `clear`"            *)
(* (controlroom.ts:20): `clear` is what a bridge of this very attempt      *)
(* printed in full, not a default, a fragment or the word of a first try.  *)
ClearWasSaid ==
    result = <<"clear">> =>
        /\ configured /\ spawning[Current] = "starts"
        /\ answer = "clear" /\ written = "all"

(* However the race of timer, exit and error ends, no child is left that   *)
(* was neither told to stop nor has ended.                                 *)
NoChildForgotten ==
    Done => \A i \in Interpreters : child[i] # "alive"

(* "`python` is frequently absent on POSIX hosts that only ship `python3`" *)
(* (controlroom.ts:164): with the default setting an absent `python` never *)
(* is the reason that a question stays unanswered.                         *)
AbsentPythonIsNoReason ==
    Done /\ configured /\ python = "python" /\ spawning["python"] = "ENOENT"
      => "python3" \in {tried[i] : i \in DOMAIN tried}

(* Every question is answered, also if the child hangs and ignores kill(). *)
QuestionReturns == <>Done

-----------------------------------------------------------------------------
(* What the comments say and the code does not do.                         *)

(* "a timeout all yield `unknown`" (controlroom.ts:20-22): the output of a *)
(* bridge that ran into the timeout is used if it is complete.             *)
TimeoutIsUnknown == Done /\ settled = "timeout" => result = <<"unknown">>
=============================================================================
