-------------------------------- MODULE Prune --------------------------------
(***************************************************************************)
(* How a restore deletes what the ResourceSet selects and the archive does *)
(* not hold: prune, pruneClusterScopedResources and deleteResources.  Two  *)
(* passes hand the victims to a pool of workers; the second one removes    *)
(* finalizers before it deletes.  One step is one call of one worker.      *)
(***************************************************************************)
EXTENDS ObjectRestore

CONSTANTS
  Selected,     \* what the ResourceSet in the archive selects
  Times,        \* Times[o]: how many of its selectors select o
  Workers       \* WorkerThreads

ASSUME PruneAssumption ==
  /\ Selected \subseteq Objects
  /\ Times \in [Objects -> Nat]
  /\ \A o \in Selected : Times[o] > 0
  /\ Workers # {} /\ IsFiniteSet(Workers)
  /\ Workers \subseteq Holders \ {Restorer}

VARIABLES
  victims,      \* resourcesToDelete
  queue,        \* queue[o]: how often o is still in the channel of this pass
  pass,         \* 1, and 2 with removeFinalizers
  job           \* job[w]: the call a worker does next, and its object

pool == <<victims, queue, pass, job>>

Idle == [call |-> "next", on |-> Nothing]

PruneTypeOK ==
  /\ victims \subseteq Objects
  /\ queue \in [Objects -> Nat]
  /\ \A o \in Objects : queue[o] > 0 => o \in victims /\ queue[o] <= Times[o]
  /\ pass \in 0..2
  /\ job \in [Workers -> [call : {"next", "get", "update", "delete"},
                          on : Objects \cup {Nothing}]]

PruneInit ==
  /\ victims = {}
  /\ queue = [o \in Objects |-> 0]
  /\ pass = 0
  /\ job = [w \in Workers |-> Idle]

-----------------------------------------------------------------------------
\* A bug: a pass takes what is selected, whether it was archived or not.
QueuedAll(S) == Times

Queued(S) == [o \in Objects |-> IF o \in S THEN Times[o] ELSE 0]

\* GatherResources finds the objects that are in the cluster; an object that
\* two selectors select is found, and queued, twice.
Gather ==
  /\ pc = "prune"
  /\ pass = 0
  /\ \/ /\ victims' = {o \in Selected : live[o].there} \ loaded
        /\ queue' = Queued(victims')
        /\ pass' = 1
        /\ UNCHANGED <<cluster, pc, restoring, failed, job>>
     \/ Refused /\ Abort /\ UNCHANGED pool

\* A bug: both passes only delete.
FirstCallAlways == "delete"

FirstCall == IF pass = 2 THEN "get" ELSE "delete"

Take(w, o) ==
  /\ pc = "prune"
  /\ pass > 0
  /\ job[w] = Idle
  /\ queue[o] > 0
  /\ queue' = [queue EXCEPT ![o] = @ - 1]
  /\ job' = [job EXCEPT ![w] = [call |-> FirstCall, on |-> o]]
  /\ UNCHANGED <<cluster, pc, restoring, failed, victims, pass>>

Calls(w, call) == pc = "prune" /\ job[w].call = call

Done(w) == job' = [job EXCEPT ![w] = Idle]

Goes(w, call) == job' = [job EXCEPT ![w].call = call]

\* The error of one victim is collected; the worker takes the next one.
Errs(w) == Done(w) /\ failed' = TRUE

\* What Get and Delete say of an object that is gone is no error.
GetVictim(w) ==
  /\ Calls(w, "get")
  /\ \/ /\ live[job[w].on].there
        /\ Read(w, job[w].on)
        /\ Goes(w, "update")
        /\ UNCHANGED <<failed, faulted>>
     \/ ~live[job[w].on].there /\ Done(w) /\ UNCHANGED <<copy, failed, faulted>>
     \/ Refused /\ Errs(w) /\ UNCHANGED copy
  /\ UNCHANGED <<live, crd, touched, late, changes, pc, restoring, victims,
                 queue, pass>>

\* The Update that removes the finalizers: that the object changed, or is gone,
\* since the Get is an error.
UpdateVictim(w) ==
  /\ Calls(w, "update")
  /\ LET o == job[w].on IN
     \/ /\ live[o].there /\ copy[w] = o
        /\ Store(w, o, [live[o] EXCEPT !.final = FALSE])
        /\ \/ Goes(w, "delete") /\ UNCHANGED <<failed, faulted>>
           \/ "lost" \in Faults /\ faulted' = TRUE /\ Errs(w)
     \/ /\ ~(live[o].there /\ copy[w] = o)
        /\ Errs(w)
        /\ UNCHANGED <<live, copy, faulted>>
     \/ Refused /\ Errs(w) /\ UNCHANGED <<live, copy>>
  /\ UNCHANGED <<crd, touched, late, changes, pc, restoring, victims, queue, pass>>

DeleteVictim(w) ==
  /\ Calls(w, "delete")
  /\ LET o == job[w].on IN
     \/ /\ IF live[o].there THEN Remove(o) ELSE UNCHANGED <<live, copy>>
        /\ \/ Done(w) /\ UNCHANGED <<failed, faulted>>
           \/ "lost" \in Faults /\ faulted' = TRUE /\ Errs(w)
     \/ Refused /\ Errs(w) /\ UNCHANGED <<live, copy>>
  /\ UNCHANGED <<crd, touched, late, changes, pc, restoring, victims, queue, pass>>

PassOver ==
  /\ pass > 0
  /\ \A w \in Workers : job[w] = Idle
  /\ \A o \in Objects : queue[o] = 0

\* The errors of the first pass are dropped; after the time-out the second one
\* has the same victims.
SecondPass ==
  /\ pc = "prune" /\ PassOver /\ pass = 1
  /\ queue' = Queued(victims)
  /\ pass' = 2
  /\ failed' = FALSE
  /\ late' = {}
  /\ UNCHANGED <<live, crd, copy, touched, faulted, changes, pc, restoring,
                 victims, job>>

Pruned ==
  /\ pc = "prune" /\ PassOver /\ pass = 2
  /\ pc' = IF failed THEN "failed" ELSE "done"
  /\ UNCHANGED <<cluster, restoring, failed, pool>>

Worker(w) ==
  (\E o \in Objects : Take(w, o)) \/ GetVictim(w) \/ UpdateVictim(w) \/ DeleteVictim(w)

PruneNext == Gather \/ SecondPass \/ Pruned \/ \E w \in Workers : Worker(w)
=============================================================================
