--------------------------- MODULE OperatorStart ---------------------------
(***************************************************************************)
(* How the process starts: main sets the dev mode and calls Run, which     *)
(* validates its options, finds the default storage location, starts the   *)
(* metrics and registers the handlers.  Run waits for the dev mode on its  *)
(* way; programs that embed the operator may set it too, and the handlers  *)
(* ask for it with a deadline of 5 ms.                                     *)
(***************************************************************************)
EXTENDS Initializer, Metrics

CONSTANTS
  main,         \* the goroutine of main
  Embedders,    \* goroutines that set the dev mode
  Faults        \* which steps of the start may fail, see FaultKinds

FaultKinds ==
  {"clients",   \* a client cannot be made, or the caches do not start
   "disk",      \* the local directory cannot be made
   "read",      \* the Secret of the default S3, or kube-system, is not read
   "port"}      \* the metrics cannot be served, or no longer

Dev == "dev"
NoDev == "no dev"

ASSUME StartAssumption ==
  /\ main \in Procs \ Impatient
  /\ Embedders \subseteq Procs \ {main}
  /\ Values = {Dev, NoDev}
  /\ Faults \subseteq FaultKinds

Nowhere == "nowhere"

VARIABLES
  stage,        \* what main does next
  options,      \* RunOptions
  mount,        \* defaultMountPath
  s3            \* defaultS3

vars == <<initializer, metrics, stage, options, mount, s3>>

\* Each option given or not; path is LocalDriverPath, port stands for a valid
\* metrics port and interval.
RunOptions == [namespace : BOOLEAN, pvc : BOOLEAN, s3 : BOOLEAN, path : BOOLEAN,
               metrics : BOOLEAN, port : BOOLEAN]

StartTypeOK ==
  /\ TypeOK
  /\ MetricsTypeOK
  /\ stage \in {"dev", "validate", "ports", "setup", "storage", "metrics",
                "register", "start", "running", "exited"}
  /\ options \in RunOptions
  /\ mount \in {Nowhere, "local", "volume"}
  /\ s3 \in {Nowhere, "bucket"}

StartInit ==
  /\ Init
  /\ MetricsInit
  /\ stage \in {"dev", "validate"}
  /\ options \in RunOptions
  /\ mount = Nowhere
  /\ s3 = Nowhere

-----------------------------------------------------------------------------
Then(next) == stage' = next

\* main goes on when its call to the Initializer has returned.
Main(current) == stage = current /\ at[main] = "out"

\* SetDevMode(CATTLE_DEV_MODE != "").  A program that embeds the operator calls
\* Run, and sets the dev mode at another time.
SetDevMode(v) ==
  /\ Main("dev")
  /\ Call(main, v)
  /\ Then("validate")
  /\ UNCHANGED <<metrics, options, mount, s3>>

\* DevMode(), where it is asked for.
AskDevMode(asked) == IF asked THEN Call(main, Unset) ELSE UNCHANGED initializer

\* What Validate does not refuse, before it asks and after.
Valid(o) == o.namespace /\ ~(o.pvc /\ o.s3)
ValidMetrics(o) == o.metrics => o.port

Validate ==
  /\ Main("validate")
  /\ IF Valid(options) THEN AskDevMode(options.pvc) /\ Then("ports")
     ELSE Then("exited") /\ UNCHANGED initializer
  /\ UNCHANGED <<metrics, options, mount, s3>>

ValidateMetrics ==
  /\ Main("ports")
  /\ Then(IF ValidMetrics(options) THEN "setup" ELSE "exited")
  /\ UNCHANGED <<initializer, metrics, options, mount, s3>>

Fault(kind) == kind \in Faults /\ Then("exited")

\* setup, and then shouldUseLocalDriver.
MakeClients ==
  /\ Main("setup")
  /\ \/ AskDevMode(~options.pvc) /\ Then("storage")
     \/ Fault("clients") /\ UNCHANGED initializer
  /\ UNCHANGED <<metrics, options, mount, s3>>

\* What the operator found: shouldUseLocalDriver.
LocalDriver == ~options.pvc /\ answer[main] = Dev

\* A bug: S3 is set up whatever else is.
UsesS3Anyway == options.s3

\* The third branch of the choice in Run.
UsesS3 == ~LocalDriver /\ ~options.pvc /\ options.s3

\* The first branch, which has no place if a path is given or the working
\* directory is not known, the second, and the third.
Storage ==
  /\ Main("storage")
  /\ \/ /\ mount' \in IF LocalDriver THEN (IF options.path THEN {Nowhere} ELSE {"local", Nowhere})
                      ELSE IF options.pvc THEN {"volume"} ELSE {Nowhere}
        /\ s3' = IF UsesS3 THEN "bucket" ELSE Nowhere
        /\ Then("metrics")
     \/ /\ LocalDriver /\ ~options.path /\ Fault("disk") /\ UNCHANGED <<mount, s3>>
     \/ /\ UsesS3 /\ Fault("read") /\ UNCHANGED <<mount, s3>>
  /\ UNCHANGED <<initializer, metrics, options>>

\* The histogram is made before the metrics are served and the loops started.
StartMetrics ==
  /\ Main("metrics")
  /\ Then("register")
  /\ IF options.metrics THEN StartLoop ELSE UNCHANGED metrics
  /\ UNCHANGED <<initializer, options, mount, s3>>

\* Register of both packages: that of the Backups reads the UID of kube-system.
RegisterHandlers ==
  /\ Main("register")
  /\ Then("start") \/ Fault("read")
  /\ UNCHANGED <<initializer, metrics, options, mount, s3>>

StartAll ==
  /\ Main("start")
  /\ Then("running") \/ Fault("clients")
  /\ UNCHANGED <<initializer, metrics, options, mount, s3>>

MainStep ==
  \/ \E v \in Values : SetDevMode(v)
  \/ Validate \/ ValidateMetrics \/ MakeClients \/ Storage
  \/ StartMetrics \/ RegisterHandlers \/ StartAll

-----------------------------------------------------------------------------
\* Other goroutines: those of a program that embeds the operator set the dev
\* mode, or make clients of object stores, as the handlers do.
Others ==
  /\ \/ \E p \in Embedders, v \in Values : Call(p, v)
     \/ \E p \in Procs \ (Embedders \cup {main}) : Call(p, Unset)
  /\ UNCHANGED <<metrics, stage, options, mount, s3>>

Initializing ==
  /\ \E p \in Procs : Works(p) \/ GiveUp(p)
  /\ UNCHANGED <<metrics, stage, options, mount, s3>>

Measuring ==
  /\ step # "off"
  /\ Collect \/ \E c \in CRs, s \in States : s # crs[c] /\ Changes(c, s)
  /\ UNCHANGED <<initializer, stage, options, mount, s3>>

\* InitMetricsServer, which ends the process if ListenAndServe does.
ServerFails ==
  /\ step # "off"
  /\ Fault("port")
  /\ UNCHANGED <<initializer, metrics, options, mount, s3>>

StartNext ==
  /\ stage # "exited"
  /\ MainStep \/ Others \/ Initializing \/ Measuring \/ ServerFails

\* Goroutines run, and the process lives until it exits.
StartFairness ==
  /\ \A p \in Procs :
       /\ WF_vars(Works(p) /\ stage # "exited" /\ UNCHANGED <<metrics, stage, options, mount, s3>>)
       /\ SF_vars(Lock(p) /\ stage # "exited" /\ UNCHANGED <<metrics, stage, options, mount, s3>>)
  /\ WF_vars(MainStep)

StartSpec == StartInit /\ [][StartNext]_vars /\ StartFairness

-----------------------------------------------------------------------------
(* Properties                                                              *)

\* Where a Backup without storageLocation is stored, and where a Restore without
\* one looks: the volume is preferred by the one, the bucket by the other.
StoresAt == IF mount # Nowhere THEN mount ELSE s3
LooksAt == IF s3 # Nowhere THEN s3 ELSE mount

\* Backup and Restore prefer different defaults; they agree since the choice in
\* Run leaves one at most, with dev mode or without, whatever options are given.
DefaultsAgree == stage = "running" => StoresAt = LooksAt

\* A reader parked between the check of the flag and the Broadcast, or on a
\* condition variable of its own, would sleep for good, and Run with it: whoever
\* waits when the value is set, or later, returns.
WaitersReturn ==
  \A p \in Procs :
    (initialized /\ at[p] # "out") ~> (at[p] = "out" \/ stage = "exited")
=============================================================================
