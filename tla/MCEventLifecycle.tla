-------------------------- MODULE MCEventLifecycle --------------------------
(* Instances of EventLifecycle: one process, or two that share the jobs.    *)
EXTENDS EventLifecycle, TLC

ProcSymmetry == Permutations(Procs)

\* A bound: the start job is scheduled when the finish job is, and from the start
\* on nothing else goes on before it is done; until then, a late send meets one busy
\* dispatcher and no crash.
StartFirst ==
    /\ (job["start"].status = "none") = (job["finish"].status = "none")
    /\ clock = 3 => job["start"].status # "pending"
    /\ clock >= 2 /\ job["start"].status \in {"pending", "running", "failed"} =>
          /\ sends = 0 /\ orphans = {}
          /\ \A p \in Procs : run[p].job \in {"none", "start"}
    /\ clock < 2 /\ sends > 0 =>
          /\ orphans = {}
          /\ \E p \in Procs : run[p] = NoRun /\ batch[p] = {}
=============================================================================
