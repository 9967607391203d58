------------------------------- MODULE Startup -------------------------------
(***************************************************************************)
(* The start of the multicluster controller manager, from the registration *)
(* of providers in init functions to the manager that blocks in Start, and *)
(* the ways in which it stops before: an error of the command, klog.Fatal  *)
(* or a panic.  A stopped process is started again with the same flags and *)
(* the same provider packages.                                             *)
(***************************************************************************)
EXTENDS ControllerContext, Integers

CONSTANTS
  Providers,         \* names under which packages register a provider
  MaxRegistrations,  \* bound on the number of registrations
  Clouds,            \* the providers a factory may make
  NoProvider,        \* nil
  FactoryError,      \* an error of the factory
  MaxFaults          \* bound on the failures of the world around the process

CloudType == [lb : {"unsupported", "nil", "ok"}, mcs : {"unsupported", "nil", "ok"}]

ASSUME StartupAssumption ==
  /\ {"multiclusteringress", "multiclusterservice"} \subseteq Names
  /\ IsFiniteSet(Names)
  /\ Clouds \subseteq CloudType
  /\ Clouds \cap {NoProvider, FactoryError} = {}
  /\ MaxFaults \in Nat

VARIABLES
  opts,           \* the flags, "" for an empty one
  registrations,  \* the registrations that init functions make, in order
  cloud,          \* what the factory of the chosen provider answers
  pc,             \* where the process is, or how it ended
  done,           \* number of registrations made
  provider,       \* the result of cloudInitializer
  indexed,        \* the indexes of MCI the cache knows
  todo,           \* controllers StartControllers has not visited
  started,        \* controllers set up with the manager
  faults

config == <<opts, registrations, cloud>>
vars == <<config, pc, done, provider, indexed, todo, started, faults>>

OptionsSet == [name : Providers \cup {""}, class : {"", "ours"},
               file : {"", "readable", "missing"}]
Indexes == {"service", "secret"}
Ended == {"invalid", "failed", "fatal"}

Init ==
  /\ opts \in OptionsSet
  /\ registrations \in BoundedSeq(Providers, MaxRegistrations)
  /\ cloud \in Clouds \cup {NoProvider, FactoryError}
  /\ pc = "register" /\ done = 0 /\ provider = NoProvider
  /\ indexed = {} /\ todo = Names /\ started = {}
  /\ faults = 0

-----------------------------------------------------------------------------
\* The map providers after the first n registrations.
Registered(n) == {registrations[i] : i \in 1 .. n}

RegisterMultiClusterProvider ==
  /\ pc = "register"
  /\ done < Len(registrations)
  /\ IF registrations[done + 1] \in Registered(done)
     THEN pc' = "fatal" /\ UNCHANGED done
     ELSE done' = done + 1 /\ UNCHANGED pc
  /\ UNCHANGED <<config, provider, indexed, todo, started, faults>>

\* main, up to the command it runs.
NewControllerManagerCommand ==
  /\ pc = "register"
  /\ done = Len(registrations)
  /\ pc' = "validate"
  /\ UNCHANGED <<config, done, provider, indexed, todo, started, faults>>

\* Mutant: a configuration file is required as well.
Validate_FileRequired ==
  /\ pc = "validate"
  /\ pc' = IF opts.name = "" \/ opts.class = "" \/ opts.file = "" THEN "invalid" ELSE "provider"
  /\ UNCHANGED <<config, done, provider, indexed, todo, started, faults>>

Validate ==
  /\ pc = "validate"
  /\ pc' = IF opts.name = "" \/ opts.class = "" THEN "invalid" ELSE "provider"
  /\ UNCHANGED <<config, done, provider, indexed, todo, started, faults>>

createMultiClusterProvider(name) == IF name \in Registered(done) THEN cloud ELSE NoProvider

\* A provider, or what makes the caller give up: a file that cannot be opened,
\* an error of the factory, or nil (no name, or an unknown one).
InitMultiClusterProvider(name, file) ==
  IF name = "" THEN NoProvider
  ELSE IF file = "missing" THEN FactoryError
  ELSE createMultiClusterProvider(name)

cloudInitializer ==
  LET p == InitMultiClusterProvider(opts.name, opts.file)
  IN  /\ pc = "provider"
      /\ IF p \in Clouds THEN pc' = "manager" /\ provider' = p
                         ELSE pc' = "fatal" /\ UNCHANGED provider
      /\ UNCHANGED <<config, done, indexed, todo, started, faults>>

NewManager ==
  /\ pc = "manager"
  /\ pc' = "indexService"
  /\ UNCHANGED <<config, done, provider, indexed, todo, started, faults>>

SetupServiceIndexesForMCI ==
  /\ pc = "indexService"
  /\ indexed' = indexed \cup {"service"}
  /\ pc' = "indexSecret"
  /\ UNCHANGED <<config, done, provider, todo, started, faults>>

SetupSecretIndexesForMCI ==
  /\ pc = "indexSecret"
  /\ indexed' = indexed \cup {"secret"}
  /\ pc' = "controllers"
  /\ UNCHANGED <<config, done, provider, todo, started, faults>>

\* The options name every controller, without a minus.
ControllerNames == SetToSeq({On(n) : n \in Names})

\* Whether the start function of a controller gets past its provider.
Supported(name) ==
  CASE name = "multiclusteringress" -> provider.lb = "ok"
    [] name = "multiclusterservice" -> provider.mcs = "ok"
    [] OTHER -> TRUE

\* Mutant: a controller that cannot be started is skipped.
StartController_Skips(name) ==
  /\ pc = "controllers"
  /\ name \in todo
  /\ todo' = todo \ {name}
  /\ started' = IF Supported(name) THEN started \cup {name} ELSE started
  /\ UNCHANGED <<config, pc, done, provider, indexed, faults>>

\* One turn of the loop over the map of controllers, in any order.
StartController(name) ==
  /\ pc = "controllers"
  /\ name \in todo
  /\ IF ~IsControllerEnabled(name, ControllerNames, {})
     THEN todo' = todo \ {name} /\ UNCHANGED <<pc, started>>
     ELSE IF ~Supported(name)
     THEN pc' = "fatal" /\ UNCHANGED <<todo, started>>
     ELSE /\ todo' = todo \ {name}
          /\ started' = started \cup {name}
          /\ UNCHANGED pc
  /\ UNCHANGED <<config, done, provider, indexed, faults>>

ControllersStarted ==
  /\ pc = "controllers"
  /\ todo = {}
  /\ pc' = "start"
  /\ UNCHANGED <<config, done, provider, indexed, todo, started, faults>>

\* The manager syncs its caches, becomes the leader and runs the controllers.
Start ==
  /\ pc = "start"
  /\ pc' = "running"
  /\ UNCHANGED <<config, done, provider, indexed, todo, started, faults>>

\* Any step that talks to the world may fail: before setupControllers and in
\* Start the command returns the error (or panics), in setupControllers it is
\* fatal.
Fault ==
  /\ faults < MaxFaults
  /\ faults' = faults + 1
  /\ \/ pc \in {"manager", "start", "running"} /\ pc' = "failed"
     \/ pc \in {"indexService", "indexSecret"} /\ pc' = "fatal"
     \/ pc = "controllers" /\ todo # {} /\ pc' = "fatal"
  /\ UNCHANGED <<config, done, provider, indexed, todo, started>>

\* The pod starts its container again.
Restart ==
  /\ pc \in Ended
  /\ pc' = "register" /\ done' = 0 /\ provider' = NoProvider
  /\ indexed' = {} /\ todo' = Names /\ started' = {}
  /\ UNCHANGED <<config, faults>>

Step ==
  \/ RegisterMultiClusterProvider \/ NewControllerManagerCommand
  \/ Validate \/ cloudInitializer
  \/ NewManager \/ SetupServiceIndexesForMCI \/ SetupSecretIndexesForMCI
  \/ \E name \in Names : StartController(name)
  \/ ControllersStarted \/ Start

Next == Step \/ Fault \/ Restart

\* The process is sequential and does not stop by itself; that a container
\* which ended is started again is the Deployment's restart policy.
Spec == Init /\ [][Next]_vars /\ WF_vars(Step) /\ WF_vars(Restart)

-----------------------------------------------------------------------------
\* The flags and provider packages a manager can work with: a class, a provider
\* that one package registered, and no name registered twice; a factory that
\* makes a provider with both load balancers; a readable file or none.
Usable ==
  /\ opts.class # "" /\ opts.name # "" /\ opts.file # "missing"
  /\ \E i \in 1 .. Len(registrations) : registrations[i] = opts.name
  /\ \A i, j \in 1 .. Len(registrations) : i # j => registrations[i] # registrations[j]
  /\ cloud \in Clouds /\ cloud.lb = "ok" /\ cloud.mcs = "ok"

\* "Any error returned will cause the controller process to `Fatal`"
\* (context.go:59): a manager that runs was started with usable flags and runs
\* every controller with the chosen provider, on a cache that has both indexes.
\* It never runs with some of them, whatever failed and in whatever order the
\* map of controllers was walked.
NoPartialStart ==
  pc = "running" =>
    /\ Usable
    /\ provider = cloud
    /\ started = Names
    /\ indexed = Indexes

\* A manager with usable flags runs in the end, once the world around it stops
\* failing: no error path of the start is a dead end.
EventuallyRuns == Usable => <>[](pc = "running")

=============================================================================
