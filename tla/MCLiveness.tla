----------------------------- MODULE MCLiveness -----------------------------
(***************************************************************************)
(* What must eventually happen to a custom: its jobs settle while it is    *)
(* alive, and it goes when it is old.  EventLifecycle and Retention share  *)
(* no state, so a behaviour is one of either, `part`.                      *)
(***************************************************************************)
EXTENDS EventLifecycle, TLC

CONSTANTS Processes, Reports, EventRetention, RoomRetention, Horizon, MaxEntries,
          MaxVerdicts, MaxFailures, Never  \* Retention

VARIABLES
    part,                                   \* the component looked at
    v1, v2, v3, v4, v5, v6, v7, v8, v9, v10  \* the variables of Retention

Purges == INSTANCE Retention WITH
    clock <- v1, starts <- v2, room <- v3, job <- v4, report <- v5, rows <- v6, loop <- v7,
    tx <- v8, failures <- v9, moved <- v10

ASSUME RetentionOfInstance == Purges!RetentionConstants

all10 == <<v1, v2, v3, v4, v5, v6, v7, v8, v9, v10>>

allVars == <<part, vars, all10>>

InitOfPart ==
    /\ Init
    /\ \/ /\ part = "lifecycle"
          /\ v1 = 0 /\ v2 = 0 /\ v3 = 0 /\ v4 = 0 /\ v5 = 0
          /\ v6 = 0 /\ v7 = 0 /\ v8 = 0 /\ v9 = 0 /\ v10 = 0
       \/ part = "retention" /\ Purges!Init

NextOfPart ==
    \/ part = "lifecycle" /\ Next /\ UNCHANGED <<part, all10>>
    \/ part = "retention" /\ Purges!Next /\ UNCHANGED <<part, vars>>

Of(component, step) == part = component /\ step

\* The fairness of either, for the part looked at.
FairSpecOfPart ==
    /\ InitOfPart /\ [][NextOfPart]_allVars
    /\ WF_allVars(Of("lifecycle", Advance /\ UNCHANGED <<part, all10>>))
    /\ \A j \in JobIds : WF_allVars(Of("lifecycle", RetryDue(j) /\ UNCHANGED <<part, all10>>))
    /\ \A p \in Procs :
          /\ WF_allVars(Of("lifecycle", Dispatch(p) /\ UNCHANGED <<part, all10>>))
          /\ WF_allVars(Of("lifecycle", End(p) /\ UNCHANGED <<part, all10>>))
    /\ \A p \in Processes :
          /\ WF_allVars(Of("retention", Purges!Purge(p) /\ UNCHANGED <<part, vars>>))
          /\ WF_allVars(Of("retention", Purges!Blanking(p) /\ UNCHANGED <<part, vars>>))
          /\ WF_allVars(Of("retention", Purges!Ending(p) /\ UNCHANGED <<part, vars>>))

\* One handler at a time beside the two purges.
Few == part = "retention" => Purges!Few /\ Cardinality({p \in Processes : v8[p] # Purges!NoTx}) <= 1

-----------------------------------------------------------------------------
(* Properties; those of EventLifecycle are as it states them               *)

\* A custom that is old goes, or gets another time (purge_old_events).
Old == part = "retention" /\ Purges!Old

OldGoes == Old ~> ~Old
=============================================================================
