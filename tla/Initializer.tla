---------------------------- MODULE Initializer ----------------------------
(***************************************************************************)
(* util.Initializer, with which the process keeps the chart's namespace    *)
(* and the dev mode: InitOnce sets a value once, WaitForInit waits for it  *)
(* on a condition variable, WaitForInitContext does so in a goroutine and  *)
(* waits for that or for its context.                                      *)
(*                                                                         *)
(* One step is what a goroutine does between two operations on sync.Once,  *)
(* the mutex and the condition variable.                                   *)
(***************************************************************************)
CONSTANTS
  Procs,        \* goroutines that call the Initializer, one call at a time
  Values,       \* what may be set
  Impatient     \* those that wait with a context

Unset == "unset"
GaveUp == "gave up"     \* ctx.Err()
None == "none"

ASSUME InitializerAssumption ==
  /\ Values \cap {Unset, GaveUp} = {}
  /\ None \notin Procs
  /\ Impatient \subseteq Procs

VARIABLES
  cond,         \* initCond, by who made it
  lock,         \* lock[c]: who holds the mutex of the condition variable c
  initialized,
  value,        \* the variable that f sets
  at,           \* at[p]: the next step of the call of p, "out" if there is none
  arg,          \* arg[p]: what it sets, Unset if it waits
  mine,         \* mine[p]: the condition variable it has locked or waits on
  answer        \* answer[p]: what its last call to wait has returned

initializer == <<cond, lock, initialized, value, at, arg, mine, answer>>

TypeOK ==
  /\ cond \in Procs \cup {None}
  /\ lock \in [Procs -> Procs \cup {None}]
  /\ initialized \in BOOLEAN
  /\ value \in Values \cup {Unset}
  /\ at \in [Procs -> {"out", "setup", "lock", "check", "flag", "broadcast",
                       "loop", "parked", "unlock", "done"}]
  /\ arg \in [Procs -> Values \cup {Unset}]
  /\ mine \in [Procs -> Procs \cup {None}]
  /\ answer \in [Procs -> Values \cup {Unset, GaveUp}]

Init ==
  /\ cond = None
  /\ lock = [p \in Procs |-> None]
  /\ initialized = FALSE
  /\ value = Unset
  /\ at = [p \in Procs |-> "out"]
  /\ arg = [p \in Procs |-> Unset]
  /\ mine = [p \in Procs |-> None]
  /\ answer = [p \in Procs |-> Unset]

-----------------------------------------------------------------------------
Goto(p, step) == at' = [at EXCEPT ![p] = step]

\* A call to InitOnce, or, with Unset, to one of the functions that wait.
Call(p, v) ==
  /\ at[p] = "out"
  /\ Goto(p, "setup")
  /\ arg' = [arg EXCEPT ![p] = v]
  /\ answer' = [answer EXCEPT ![p] = Unset]
  /\ UNCHANGED <<cond, lock, initialized, value, mine>>

\* A bug: without the Once each call makes a condition variable.
MadeAnew(p) == p

\* setupCondOnce: the first call makes it, and others wait until it has.
Made(p) == IF cond = None THEN p ELSE cond

Setup(p) ==
  /\ at[p] = "setup"
  /\ cond' = Made(p)
  /\ Goto(p, "lock")
  /\ UNCHANGED <<lock, initialized, value, arg, mine, answer>>

Lock(p) ==
  /\ at[p] = "lock"
  /\ LET c == IF mine[p] = None THEN cond ELSE mine[p] IN
       /\ lock[c] = None
       /\ lock' = [lock EXCEPT ![c] = p]
       /\ mine' = [mine EXCEPT ![p] = c]
  /\ Goto(p, IF arg[p] = Unset THEN "loop" ELSE "check")
  /\ UNCHANGED <<cond, initialized, value, arg, answer>>

\* A bug: InitOnce sets the value every time.
KeepsNever == FALSE

\* Somebody else was first.
Keeps == initialized

\* InitOnce: f sets the value, ...
Check(p) ==
  /\ at[p] = "check"
  /\ IF Keeps THEN Goto(p, "unlock") /\ UNCHANGED value
     ELSE Goto(p, "flag") /\ value' = arg[p]
  /\ UNCHANGED <<cond, lock, initialized, arg, mine, answer>>

\* ... initialized is set, ...
Flag(p) ==
  /\ at[p] = "flag"
  /\ initialized' = TRUE
  /\ Goto(p, "broadcast")
  /\ UNCHANGED <<cond, lock, value, arg, mine, answer>>

Parked(c) == {p \in Procs : at[p] = "parked" /\ mine[p] = c}

\* A bug: Signal, which wakes one of those that wait.
WokenOne(c) == IF Parked(c) = {} THEN {} ELSE {CHOOSE p \in Parked(c) : TRUE}

\* Whom Broadcast wakes.
Woken(c) == Parked(c)

\* ... and all that wait are woken: each has to get the lock again.
Broadcast(p) ==
  /\ at[p] = "broadcast"
  /\ at' = [q \in Procs |-> IF q = p THEN "unlock"
                            ELSE IF q \in Woken(mine[p]) THEN "lock" ELSE at[q]]
  /\ UNCHANGED <<cond, lock, initialized, value, arg, mine, answer>>

\* The loop of WaitForInit.  Wait frees the lock and parks in one step.
Loop(p) ==
  /\ at[p] = "loop"
  /\ IF initialized THEN Goto(p, "unlock") /\ UNCHANGED lock
     ELSE Goto(p, "parked") /\ lock' = [lock EXCEPT ![mine[p]] = None]
  /\ UNCHANGED <<cond, initialized, value, arg, mine, answer>>

Unlock(p) ==
  /\ at[p] = "unlock"
  /\ lock' = [lock EXCEPT ![mine[p]] = None]
  /\ mine' = [mine EXCEPT ![p] = None]
  /\ Goto(p, IF arg[p] = Unset THEN "done" ELSE "out")
  /\ UNCHANGED <<cond, initialized, value, arg, answer>>

\* The value is read without the lock, by a caller that has not given up.
Return(p) ==
  /\ at[p] = "done"
  /\ Goto(p, "out")
  /\ answer' = [answer EXCEPT ![p] = IF @ = GaveUp THEN @ ELSE value]
  /\ UNCHANGED <<cond, lock, initialized, value, arg, mine>>

\* The context ends first, or is found to have ended at the same time: select
\* takes either.  The goroutine stays.
GiveUp(p) ==
  /\ p \in Impatient
  /\ at[p] # "out" /\ arg[p] = Unset
  /\ answer[p] = Unset
  /\ answer' = [answer EXCEPT ![p] = GaveUp]
  /\ UNCHANGED <<cond, lock, initialized, value, at, arg, mine>>

Works(p) ==
  \/ Setup(p) \/ Lock(p) \/ Check(p) \/ Flag(p) \/ Broadcast(p)
  \/ Loop(p) \/ Unlock(p) \/ Return(p)

\* A goroutine that is called runs; a mutex of Go starves nobody.
Running ==
  \A p \in Procs :
    /\ WF_initializer(Works(p))
    /\ SF_initializer(Lock(p))

Next ==
  \E p \in Procs :
    \/ \E v \in Values \cup {Unset} : Call(p, v)
    \/ Works(p)
    \/ GiveUp(p)

Spec == Init /\ [][Next]_initializer /\ Running

-----------------------------------------------------------------------------
(* Properties                                                              *)

Register == INSTANCE WriteOnce WITH
  Readers <- Procs, value <- IF initialized THEN value ELSE Unset

\* Once, mutex, flag, condition variable and a read without the lock make a
\* value that is set once: no reader sees it before it is set, or half set, or
\* another one than the first.
ImplementsRegister == Register!Spec
=============================================================================
