------------------------------ MODULE JobService ------------------------------
(***************************************************************************)
(* What the client promises the server about jobs, as the server sees it:  *)
(* a run_task message is either refused because the device is busy, or     *)
(* accepted; an accepted job works through its task items in order, comes  *)
(* to an end with a verdict and is reported once.  No two accepted jobs    *)
(* overlap, and "completed" is only ever the verdict of a job whose every  *)
(* item was carried out.  JobRun, the model of handler.go and wrapper.go,  *)
(* implements this specification.                                          *)
(***************************************************************************)
EXTENDS Naturals

CONSTANTS Runs,    \* the run_task messages of a behaviour
          Loads    \* the numbers of task items a message may carry, a subset of Nat

VARIABLES phase,     \* how far each message has come
          load,      \* number of items of an accepted job
          progress,  \* items carried out so far
          verdict    \* what task_completed says

vars == <<phase, load, progress, verdict>>

Phases == {"unseen", "busy", "running", "ended", "reported"}

Init ==
    /\ phase = [r \in Runs |-> "unseen"]
    /\ load = [r \in Runs |-> 0]
    /\ progress = [r \in Runs |-> 0]
    /\ verdict = [r \in Runs |-> "none"]

(* Refused at once with status "failed" (the device is busy). *)
Reject(r) ==
    /\ phase[r] = "unseen"
    /\ \E q \in Runs : phase[q] = "running"
    /\ phase' = [phase EXCEPT ![r] = "busy"]
    /\ UNCHANGED <<load, progress, verdict>>

Accept(r) ==
    /\ phase[r] = "unseen"
    /\ \A q \in Runs : phase[q] # "running"
    /\ phase' = [phase EXCEPT ![r] = "running"]
    /\ \E n \in Loads : load' = [load EXCEPT ![r] = n]
    /\ UNCHANGED <<progress, verdict>>

Work(r) ==
    /\ phase[r] = "running"
    /\ progress[r] < load[r]
    /\ progress' = [progress EXCEPT ![r] = @ + 1]
    /\ UNCHANGED <<phase, load, verdict>>

(* The job frees the device; only a finished job may be called completed. *)
End(r) ==
    /\ phase[r] = "running"
    /\ \E v \in {"completed", "failed"} :
         /\ v = "completed" => progress[r] = load[r]
         /\ verdict' = [verdict EXCEPT ![r] = v]
    /\ phase' = [phase EXCEPT ![r] = "ended"]
    /\ UNCHANGED <<load, progress>>

Report(r) ==
    /\ phase[r] = "ended"
    /\ phase' = [phase EXCEPT ![r] = "reported"]
    /\ UNCHANGED <<load, progress, verdict>>

Next == \E r \in Runs : Reject(r) \/ Accept(r) \/ Work(r) \/ End(r) \/ Report(r)

Spec == Init /\ [][Next]_vars
===============================================================================
