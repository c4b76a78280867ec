-------------------------- MODULE SubprocessRunner --------------------------
(***************************************************************************)
(* engine/subprocess_runner.py: run_query_isolated and the child it forks. *)
(* The child puts its result in a multiprocessing.Queue, whose feeder      *)
(* thread writes it to a pipe, and a child does not exit before its feeder *)
(* has written everything.  The parent waits for the child and only then   *)
(* looks into the queue.                                                   *)
(*                                                                         *)
(* The pipe holds Capacity writes.  A small item is one write, one of more *)
(* than 16 KiB is two (its length, its bytes), and one that is larger than *)
(* the pipe is written as the reader makes room.  The parent has the write *)
(* end open too: when the child is gone, reading a part of an item waits   *)
(* for ever, get_nowait or not.                                            *)
(*                                                                         *)
(* The proofs about this module and Datasets share one, so what both have  *)
(* (vars, TypeOK, Init, Next, Spec) has Runner in its name here.           *)
(***************************************************************************)
EXTENDS Naturals

CONSTANTS
    Capacity,       \* writes that fit into the pipe
    Size            \* writes that the result of a statement may take

ASSUME SubprocessAssumption == Capacity \in Nat \ {0} /\ Size \subseteq Nat \ {0}

VARIABLES
    call,       \* the arguments: [memory, cpu, timeout: given or not], and the
                \* statement: its size, whether it ends by itself
    parent,     \* [at, timedOut, verdict]
    child,      \* [at, exit, item, left]: left writes of the item are to be done
    pipe        \* writes in the pipe

runnerVars == <<call, parent, child, pipe>>

Calls == [memory : BOOLEAN, cpu : BOOLEAN, timeout : BOOLEAN, size : Size, ends : BOOLEAN]
NoChild == [at |-> "none", exit |-> "none", item |-> "none", left |-> 0]

RunnerTypeOK ==
    /\ call \in Calls
    /\ parent \in [at : {"idle", "joining", "killing", "reading", "done"}, timedOut : BOOLEAN,
                   verdict : {"none", "ok", "error", "cpu", "memory", "killed"}]
    /\ child \in [at : {"none", "running", "flushing", "dead"},
                  exit : {"none", "0", "SIGKILL", "SIGXCPU", "SIGABRT"},
                  item : {"none", "ok", "error"}, left : Nat]
    /\ pipe \in 0 .. Capacity

RunnerInit ==
    /\ call \in Calls
    /\ parent = [at |-> "idle", timedOut |-> FALSE, verdict |-> "none"]
    /\ child = NoChild
    /\ pipe = 0

Alive == child.at \in {"running", "flushing"}

\* The item can be had from the queue.
Complete == child.item # "none" /\ child.left = 0 /\ pipe > 0

\* A wall-clock limit: timeout_seconds, or the CPU limit and five seconds.
Wall == call.timeout \/ call.cpu
-----------------------------------------------------------------------------
Start ==
    /\ parent.at = "idle"
    /\ parent' = [parent EXCEPT !.at = "joining"]
    /\ child' = [NoChild EXCEPT !.at = "running"]
    /\ UNCHANGED <<call, pipe>>

Put(item, size) ==
    child' = [child EXCEPT !.at = "flushing", !.item = item, !.left = size]

Exit(code) == child' = [child EXCEPT !.at = "dead", !.exit = code]

\* _worker: the statement has a result, or raises.
WorkerPuts ==
    /\ child.at = "running" /\ call.ends
    /\ Put("ok", call.size) \/ Put("error", 1)
    /\ UNCHANGED <<call, parent, pipe>>

\* The child is gone without a word: short of memory, the put of the exception fails
\* too; DuckDB aborts; or the kernel kills it, limits or not.
WorkerVanishes ==
    /\ \/ child.at = "running" /\ call.memory /\ Exit("0")
       \/ child.at = "running" /\ Exit("SIGABRT")
       \/ Alive /\ Exit("SIGKILL")
    /\ UNCHANGED <<call, parent, pipe>>

\* RLIMIT_CPU: Linux sends SIGKILL when the hard limit is no higher than the soft
\* one, other systems SIGXCPU.
CpuLimit ==
    /\ Alive /\ call.cpu
    /\ Exit("SIGKILL") \/ Exit("SIGXCPU")
    /\ UNCHANGED <<call, parent, pipe>>

\* The feeder thread; the process exits behind it.
Flush ==
    /\ child.at = "flushing"
    /\ IF child.left > 0
       THEN /\ pipe < Capacity
            /\ pipe' = pipe + 1
            /\ child' = [child EXCEPT !.left = @ - 1]
       ELSE Exit("0") /\ UNCHANGED pipe
    /\ UNCHANGED <<call, parent>>

FaultyJoin ==       \* timeout_seconds does not get to join
    /\ parent.at = "joining"
    /\ ~Alive \/ call.cpu
    /\ parent' = [parent EXCEPT !.at = IF Alive THEN "killing" ELSE "reading",
                                !.timedOut = Alive]
    /\ UNCHANGED <<call, child, pipe>>

\* join returns, by itself or by the limit; is_alive tells.
Join ==
    /\ parent.at = "joining"
    /\ ~Alive \/ Wall
    /\ parent' = [parent EXCEPT !.at = IF Alive THEN "killing" ELSE "reading",
                                !.timedOut = Alive]
    /\ UNCHANGED <<call, child, pipe>>

\* kill and join(5); the child may have exited just before.
Kill ==
    /\ parent.at = "killing"
    /\ parent' = [parent EXCEPT !.at = "reading"]
    /\ IF Alive THEN Exit("SIGKILL") ELSE UNCHANGED child
    /\ UNCHANGED <<call, pipe>>

\* The queue is not empty: get_nowait.  With a part of an item it does not return.
Read ==
    /\ parent.at = "reading"
    /\ Complete
    /\ parent' = [parent EXCEPT !.at = "done", !.verdict = child.item]
    /\ UNCHANGED <<call, child, pipe>>

FaultyRaise ==      \* without asking whether the queue is empty
    /\ parent.at = "reading"
    /\ parent.timedOut \/ pipe = 0
    /\ parent' = [parent EXCEPT !.at = "done", !.verdict =
            IF parent.timedOut \/ child.exit = "SIGXCPU" THEN "cpu"
            ELSE IF call.memory THEN "memory"
            ELSE IF call.cpu THEN "cpu"
            ELSE "killed"]
    /\ UNCHANGED <<call, child, pipe>>

\* The queue is empty: what to raise.
Raise ==
    /\ parent.at = "reading"
    /\ pipe = 0
    /\ parent' = [parent EXCEPT !.at = "done", !.verdict =
            IF parent.timedOut \/ child.exit = "SIGXCPU" THEN "cpu"
            ELSE IF call.memory THEN "memory"
            ELSE IF call.cpu THEN "cpu"
            ELSE "killed"]
    /\ UNCHANGED <<call, child, pipe>>

RunnerNext ==
    \/ Start \/ Join \/ Kill \/ Read \/ Raise
    \/ WorkerPuts \/ WorkerVanishes \/ CpuLimit \/ Flush

\* The operating system runs both processes; a limit is reached when time passes.
\* Nothing makes a statement end that does not (WorkerPuts asks for call.ends).
Fairness ==
    /\ WF_runnerVars(Start) /\ WF_runnerVars(Join) /\ WF_runnerVars(Kill)
    /\ WF_runnerVars(Read) /\ WF_runnerVars(Raise)
    /\ WF_runnerVars(WorkerPuts) /\ WF_runnerVars(Flush)

RunnerSpec == RunnerInit /\ [][RunnerNext]_runnerVars /\ Fairness
-----------------------------------------------------------------------------
\* A call says that its child was killed, or had no memory or time, only when there
\* is no result, though the limit may strike while the result is being put.
NothingLost ==
    parent.verdict \in {"cpu", "memory", "killed"} => ~Complete

\* The child was killed in the middle of an item that takes several writes.
Torn == child.at = "dead" /\ child.left > 0 /\ pipe > 0

\* A call ends, with its statement if the result fits into the pipe, else by its
\* limit, whatever becomes of the child; but for one that leaves a part of an item,
\* which the parent then reads in vain.  (Without a limit, a child whose result does
\* not fit waits for a reader and the parent for the child.)
CallsEnd == (Wall \/ (call.ends /\ call.size <= Capacity)) ~> (parent.at = "done" \/ Torn)
=============================================================================
