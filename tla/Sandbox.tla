--------------------------------- MODULE Sandbox ---------------------------------
(***************************************************************************)
(* One native run of a target in a container (verify/sandbox.py): the      *)
(* thread that waits for the runtime's client, the threads that feed its   *)
(* stdin and drain its stdout and stderr, the client, the container that   *)
(* the runtime's daemon keeps, and the target in it.                       *)
(*                                                                         *)
(* The client and everything behind it are external; they are modelled by  *)
(* what run_sandboxed relies on.  A pipe holds a number of chunks.         *)
(***************************************************************************)
EXTENDS Naturals, FiniteSets

CONSTANTS
    PipeSize,      \* chunks a pipe holds
    OutputLimit,   \* SandboxOptions.output_limit
    MaxOutput,     \* bound: chunks the target writes to each stream
    InputSize      \* chunks of stdin

ASSUME SandboxAssumption ==
    PipeSize \in Nat \ {0} /\ OutputLimit \in Nat /\ MaxOutput \in Nat /\ InputSize \in Nat

VARIABLES
    waiter,        \* the thread in run_sandboxed
    worker,        \* the three threads of _run_bounded
    exit,          \* status of the client as the waiter has it
    client,        \* the runtime's client, with its exit status when it has ended
    container,     \* what the daemon has under the name of this run
    pipe,          \* chunks in the pipes to and from the client
    left,          \* chunks not fed yet
    written,       \* chunks the target wrote while it was attached
    kept           \* chunks the drains kept

sandboxVars == <<waiter, worker, exit, client, container, pipe, left, written, kept>>

Outputs == {"stdout", "stderr"}
Streams == Outputs \cup {"stdin"}
RuntimeFailure == "125"
Exits == {"0", "1", RuntimeFailure}

Least(a, b) == IF a < b THEN a ELSE b

SandboxInit ==
    /\ waiter = "idle" /\ exit = "none" /\ client = "none" /\ container = "none"
    /\ worker = [s \in Streams |-> "none"]
    /\ pipe = [s \in Streams |-> 0] /\ left = InputSize
    /\ written = [s \in Outputs |-> 0] /\ kept = [s \in Outputs |-> 0]

-----------------------------------------------------------------------------
(* The waiting thread.                                                      *)

\* _run_bounded: the client and the workers start, with fresh pipes.
StartRun ==
    /\ waiter' = "waiting" /\ exit' = "none" /\ client' = "running"
    /\ worker' = [s \in Streams |-> "running"]
    /\ pipe' = [s \in Streams |-> 0] /\ left' = InputSize
    /\ written' = [s \in Outputs |-> 0] /\ kept' = [s \in Outputs |-> 0]
    /\ UNCHANGED container

WaitReturns ==
    /\ waiter = "waiting" /\ client \in Exits
    /\ waiter' = "joining" /\ exit' = client
    /\ UNCHANGED <<worker, client, container, pipe, left, written, kept>>

WaitTimesOut ==
    /\ waiter = "waiting" /\ client = "running"
    /\ waiter' = "killing"
    /\ UNCHANGED <<worker, exit, client, container, pipe, left, written, kept>>

\* The client may have ended by itself since the wait gave up: the run is timed out all the same.
KillClient ==
    /\ waiter = "killing"
    /\ client' = IF client = "running" THEN "killed" ELSE client
    /\ waiter' = "joining" /\ exit' = "timeout"
    /\ UNCHANGED <<worker, container, pipe, left, written, kept>>

Join ==
    /\ waiter = "joining" /\ \A s \in Streams : worker[s] = "done"
    /\ waiter' = IF exit = "timeout" THEN "removing"
                 ELSE IF exit = RuntimeFailure /\ kept["stdout"] = 0 THEN "raised" ELSE "ended"
    /\ UNCHANGED <<worker, exit, client, container, pipe, left, written, kept>>

\* Mutant: the container is taken to end with its client.
RemoveNothing ==
    /\ waiter = "removing"
    /\ waiter' = "ended"
    /\ UNCHANGED <<worker, exit, client, container, pipe, left, written, kept>>

\* _stop_container: `rm --force` of what is there under the name.
RemoveContainer ==
    /\ waiter = "removing"
    /\ container' = IF container = "requested" THEN container ELSE "none"
    /\ waiter' = "ended"
    /\ UNCHANGED <<worker, exit, client, pipe, left, written, kept>>

\* The runtime does not answer in 30 seconds.
RemoveTimesOut ==
    /\ waiter = "removing"
    /\ waiter' = "raised"
    /\ UNCHANGED <<worker, exit, client, container, pipe, left, written, kept>>

-----------------------------------------------------------------------------
(* The workers.                                                             *)

\* _feed, up to the close of the stream or a broken pipe.
Feed ==
    /\ worker["stdin"] = "running"
    /\ IF client # "running" \/ left = 0
       THEN worker' = [worker EXCEPT !["stdin"] = "done"] /\ UNCHANGED <<pipe, left>>
       ELSE /\ pipe["stdin"] < PipeSize
            /\ pipe' = [pipe EXCEPT !["stdin"] = @ + 1] /\ left' = left - 1
            /\ UNCHANGED worker
    /\ UNCHANGED <<waiter, exit, client, container, written, kept>>

\* Mutant: a drain stops at its limit.
DrainToLimit(s) ==
    /\ worker[s] = "running"
    /\ \/ /\ pipe[s] > 0 /\ kept[s] < OutputLimit
          /\ pipe' = [pipe EXCEPT ![s] = @ - 1]
          /\ kept' = [kept EXCEPT ![s] = @ + 1]
          /\ UNCHANGED worker
       \/ /\ pipe[s] = 0 /\ client # "running"
          /\ worker' = [worker EXCEPT ![s] = "done"]
          /\ UNCHANGED <<pipe, kept>>
    /\ UNCHANGED <<waiter, exit, client, container, left, written>>

\* _drain: reads on behind the limit; the stream ends when nobody holds its other end.
Drain(s) ==
    /\ worker[s] = "running"
    /\ \/ /\ pipe[s] > 0
          /\ pipe' = [pipe EXCEPT ![s] = @ - 1]
          /\ kept' = [kept EXCEPT ![s] = Least(@ + 1, OutputLimit)]
          /\ UNCHANGED worker
       \/ /\ pipe[s] = 0 /\ client # "running"
          /\ worker' = [worker EXCEPT ![s] = "done"]
          /\ UNCHANGED <<pipe, kept>>
    /\ UNCHANGED <<waiter, exit, client, container, left, written>>

-----------------------------------------------------------------------------
(* The runtime and the target.                                              *)

\* `docker run` asks the daemon to create the container and, when told it is there, to start it.
RequestContainer ==
    /\ client = "running" /\ container = "none" /\ written = [s \in Outputs |-> 0]
    /\ container' = "requested"
    /\ UNCHANGED <<waiter, worker, exit, client, pipe, left, written, kept>>

CreateContainer ==
    /\ container = "requested"
    /\ container' = "created"
    /\ UNCHANGED <<waiter, worker, exit, client, pipe, left, written, kept>>

StartContainer ==
    /\ client = "running" /\ container = "created"
    /\ container' = "running"
    /\ UNCHANGED <<waiter, worker, exit, client, pipe, left, written, kept>>

RuntimeFails ==
    /\ client = "running" /\ container \in {"none", "created"}
    /\ container' = "none" /\ client' = RuntimeFailure
    /\ UNCHANGED <<waiter, worker, exit, pipe, left, written, kept>>

TargetReads ==
    /\ container = "running" /\ client = "running" /\ pipe["stdin"] > 0
    /\ pipe' = [pipe EXCEPT !["stdin"] = @ - 1]
    /\ UNCHANGED <<waiter, worker, exit, client, container, left, written, kept>>

TargetWrites(s) ==
    /\ container = "running" /\ client = "running" /\ pipe[s] < PipeSize /\ written[s] < MaxOutput
    /\ pipe' = [pipe EXCEPT ![s] = @ + 1] /\ written' = [written EXCEPT ![s] = @ + 1]
    /\ UNCHANGED <<waiter, worker, exit, client, container, left, kept>>

\* --rm: the daemon removes it; the client, if it is still there, passes the status on.
TargetEnds ==
    /\ container = "running"
    /\ container' = "none"
    /\ IF client = "running" THEN \E status \in Exits : client' = status ELSE UNCHANGED client
    /\ UNCHANGED <<waiter, worker, exit, pipe, left, written, kept>>

-----------------------------------------------------------------------------

Waiting == WaitReturns \/ WaitTimesOut \/ KillClient \/ Join \/ RemoveContainer \/ RemoveTimesOut
Working == Feed \/ \E s \in Outputs : Drain(s)
Runtime == RequestContainer \/ CreateContainer \/ StartContainer \/ RuntimeFails
Target == TargetReads \/ TargetEnds \/ \E s \in Outputs : TargetWrites(s)

\* The operating system runs the threads; a target runs for as long as it likes.
SandboxFairness ==
    /\ WF_sandboxVars(Waiting) /\ WF_sandboxVars(Feed) /\ \A s \in Outputs : WF_sandboxVars(Drain(s))

-----------------------------------------------------------------------------

SandboxTypeOK ==
    /\ waiter \in {"idle", "waiting", "killing", "joining", "removing", "ended", "raised"}
    /\ worker \in [Streams -> {"none", "running", "done"}]
    /\ exit \in Exits \cup {"none", "timeout"}
    /\ client \in Exits \cup {"none", "running", "killed"}
    /\ container \in {"none", "requested", "created", "running"}
    /\ pipe \in [Streams -> 0..PipeSize] /\ left \in 0..InputSize
    /\ written \in [Outputs -> 0..MaxOutput] /\ kept \in [Outputs -> 0..MaxOutput]

\* When run_sandboxed is over, the target does not run any more, unless the runtime did not
\* answer to the removal.
NothingRuns ==
    waiter = "ended" \/ (waiter = "raised" /\ exit # "timeout") => container # "running"

\* A run that was not stopped keeps all of its output up to the limit, each chunk once.
OutputKept ==
    waiter \in {"ended", "raised"} /\ exit # "timeout" =>
        \A s \in Outputs : kept[s] = Least(written[s], OutputLimit)
=============================================================================
