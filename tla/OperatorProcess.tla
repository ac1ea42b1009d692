-------------------------- MODULE OperatorProcess --------------------------
(***************************************************************************)
(* The operator's process: main.go, the TLS settings it takes from its     *)
(* flags or from the OpenShift cluster profile, the watcher that restarts  *)
(* it when the profile changes, and the memory its four controllers share, *)
(* the ReconciliationTracker and the resource metrics.                     *)
(*                                                                         *)
(* The process starts, reads its flags, fetches the profile, sets up the   *)
(* manager and runs; it exits on the first error, is cancelled by the      *)
(* watcher or dies, and the kubelet starts it again.  Meanwhile profile    *)
(* and objects change.  What a pass of a controller does to the cluster is *)
(* in PersesController and ResourceSync: here it is what it reports and,   *)
(* of a Perses, the TLS arguments its pods get.                            *)
(*                                                                         *)
(* Abstracted: a list of cipher suites is the set of their names; all      *)
(* namespaced objects live in one namespace; one replica, so that leader   *)
(* election only delays a start; logging, ports and HTTP/2.                *)
(***************************************************************************)
EXTENDS Naturals

CONSTANTS
    FlagSets,       \* command lines: [selectorParses, clusterProfile, configureOperands, settings]
    Profiles,       \* TLS profiles of the APIServer resource: [min, ciphers]
    Missing,        \* no APIServer resource, no profile, nothing at all
    Versions,       \* TLS versions k8s.io/component-base knows
    CipherSuites,   \* cipher suites it knows
    IANA,           \* OpenSSL names of library-go and their IANA names
    Kinds,          \* kinds of custom resources
    Names,          \* names of objects
    Budgets         \* how often the environment may do each thing, one entry per scenario

EnvironmentMoves == {"profile", "edit", "fault"}

ASSUME KindsAssumption ==
    Kinds \subseteq {"Perses", "PersesDashboard", "PersesDatasource", "PersesGlobalDatasource"}
ASSUME BudgetsAssumption == Budgets \subseteq [EnvironmentMoves -> Nat]
ASSUME FlagSetsAssumption ==
    FlagSets \subseteq [selectorParses : BOOLEAN,  \* --watch-secret-labels is a selector
                        clusterProfile : BOOLEAN, configureOperands : BOOLEAN,
                        settings : [min : STRING, ciphers : SUBSET STRING]]

VARIABLES
    flags,          \* the command line
    profile,        \* the cluster's TLS profile
    phase,          \* how far main() has come
    settings,       \* tlsMinVersion and tlsCipherSuites of main()
    initial,        \* SecurityProfileWatcher.InitialTLSProfileSpec
    view,           \* the profile of the informer cache
    watcher,        \* the watcher has a request
    objects,        \* custom resources that exist, as <<kind, name>>
    queue,          \* requests of the four work queues, as <<kind, name>>
    worker,         \* the worker of each kind
    begun,          \* names of the Perses objects that have their first condition
    operand,        \* TLS arguments of the pods of each Perses
    statusByObject, \* ReconciliationTracker.statusByObject
    resources,      \* Metrics.resources, as <<kind, state, key>>
    created,        \* history: objects there ever were
    budget          \* what is left of the scenario's moves

clusterVars == <<profile, objects, begun, operand, created>>
mainVars == <<phase, settings, initial>>
watchVars == <<view, watcher>>
metricVars == <<statusByObject, resources>>
workVars == <<queue, worker, metricVars>>
vars == <<flags, clusterVars, mainVars, watchVars, workVars, budget>>

NoSettings == [min |-> "", ciphers |-> {}]
Objects == Kinds \X Names
Idle == [pc |-> "idle", name |-> Missing, ok |-> FALSE]

\* Faulty variant: the name alone.
nameOnly(o) == <<"", o[2]>>

\* req.String(): a global datasource has no namespace.
objKey(o) == IF o[1] = "PersesGlobalDatasource" THEN <<"", o[2]>> ELSE <<"ns", o[2]>>

Keys == {objKey(o) : o \in Objects}

-----------------------------------------------------------------------------
(***************************************************************************)
(* TLS settings.                                                           *)
(***************************************************************************)

\* What parses; nothing given is fine and leaves Go's defaults.
ParseTLSVersion(version) == version = "" \/ version \in Versions
ParseCipherSuites(ciphers) == ciphers \subseteq CipherSuites
Parses(s) == ParseTLSVersion(s.min) /\ ParseCipherSuites(s.ciphers)

\* Names that library-go does not know are dropped.
FetchTLSProfile(p) ==
    [min |-> p.min, ciphers |-> {IANA[c] : c \in p.ciphers \cap DOMAIN IANA}]

ProfileUsable == profile # Missing /\ Parses(FetchTLSProfile(profile))

\* The TLS arguments of GetPersesArgs.
GetPersesArgs(s) == IF flags.configureOperands THEN s ELSE NoSettings

-----------------------------------------------------------------------------
(***************************************************************************)
(* The environment.                                                        *)
(***************************************************************************)
Spend(move) ==
    /\ budget[move] > 0
    /\ budget' = [budget EXCEPT ![move] = @ - 1]

ChangeProfile(p) ==
    /\ Spend("profile")
    /\ profile # p
    /\ profile' = p
    /\ UNCHANGED <<flags, objects, begun, operand, created, mainVars, watchVars, workVars>>

\* An event of an object enqueues it, if anybody is there to hear of it.
Notify(o) == queue' = IF phase \in {"running", "stopping"} THEN queue \cup {o} ELSE queue

CreateObject(o) ==
    /\ Spend("edit")
    /\ o \notin objects
    /\ objects' = objects \cup {o}
    /\ created' = created \cup {o}
    /\ Notify(o)
    /\ UNCHANGED <<flags, profile, begun, operand, mainVars, watchVars, worker, metricVars>>

DeleteObject(o) ==
    /\ Spend("edit")
    /\ o \in objects
    /\ objects' = objects \ {o}
    /\ IF o[1] = "Perses"
          THEN begun' = begun \ {o[2]} /\ operand' = [operand EXCEPT ![o[2]] = Missing]
          ELSE UNCHANGED <<begun, operand>>
    /\ Notify(o)
    /\ UNCHANGED <<flags, profile, created, mainVars, watchVars, worker, metricVars>>

-----------------------------------------------------------------------------
(***************************************************************************)
(* main().                                                                 *)
(***************************************************************************)
Goto(p) == phase' = p /\ UNCHANGED <<settings, initial>>

\* os.Exit, the return from main() or the end of the container: what was in
\* memory is gone.
Exit ==
    /\ phase' = "down"
    /\ settings' = NoSettings
    /\ initial' = Missing
    /\ view' = Missing
    /\ watcher' = FALSE
    /\ queue' = {}
    /\ worker' = [k \in Kinds |-> Idle]
    /\ statusByObject' = [k \in Keys |-> "none"]
    /\ resources' = {}

StartContainer ==
    /\ phase = "down"
    /\ Goto("flags")
    /\ UNCHANGED <<flags, clusterVars, watchVars, workVars, budget>>

\* The flags must parse, those too that the cluster profile or --watch-all-secrets
\* will override.
FlagsParse == flags.selectorParses /\ Parses(flags.settings)

ParseFlags ==
    /\ phase = "flags"
    /\ IF FlagsParse
          THEN /\ phase' = IF flags.clusterProfile THEN "fetch" ELSE "setup"
               /\ settings' = flags.settings
               /\ UNCHANGED <<initial, watchVars, workVars>>
          ELSE Exit
    /\ UNCHANGED <<flags, clusterVars, budget>>

\* Faulty variant: the settings of the cluster are not parsed.
FetchProfileUnchecked ==
    /\ phase = "fetch"
    /\ profile # Missing
    /\ phase' = "setup"
    /\ settings' = [min |-> profile.min, ciphers |-> profile.ciphers]
    /\ initial' = profile
    /\ UNCHANGED <<flags, clusterVars, watchVars, workVars, budget>>

\* A direct read; the manager and its caches do not exist yet.
FetchProfile ==
    /\ phase = "fetch"
    /\ \/ /\ ProfileUsable
          /\ phase' = "setup"
          /\ settings' = FetchTLSProfile(profile)
          /\ initial' = profile
          /\ UNCHANGED <<watchVars, workVars, budget>>
       \/ ~ ProfileUsable /\ Exit /\ UNCHANGED budget
       \/ Spend("fault") /\ Exit
    /\ UNCHANGED <<flags, clusterVars>>

\* Faulty variant: the watcher compares with what it sees first.
SetupManagerInitialFromCluster ==
    /\ phase = "setup"
    /\ phase' = "start"
    /\ initial' = IF flags.clusterProfile THEN profile ELSE Missing
    /\ UNCHANGED <<flags, settings, clusterVars, watchVars, workVars, budget>>

\* NewManager, SetupProfileWatcher, the controllers, webhooks and checks.
SetupManager ==
    /\ phase = "setup"
    /\ \/ Goto("start") /\ UNCHANGED <<watchVars, workVars, budget>>
       \/ Spend("fault") /\ Exit
    /\ UNCHANGED <<flags, clusterVars>>

\* Faulty variant: the watcher hears of updates only.
StartManagerUpdatesOnly ==
    /\ phase = "start"
    /\ Goto("running")
    /\ view' = IF flags.clusterProfile THEN profile ELSE Missing
    /\ queue' = objects
    /\ UNCHANGED <<flags, clusterVars, watcher, worker, metricVars, budget>>

\* mgr.Start: the caches are listed, every object of the lists is a request.
StartManager ==
    /\ phase = "start"
    /\ \/ /\ Goto("running")
          /\ view' = IF flags.clusterProfile THEN profile ELSE Missing
          /\ watcher' = flags.clusterProfile
          /\ queue' = objects
          /\ UNCHANGED <<worker, metricVars, budget>>
       \/ Spend("fault") /\ Exit
    /\ UNCHANGED <<flags, clusterVars>>

\* The cancelled manager stops: the running passes end, or their time is up.
StopManager ==
    /\ phase = "stopping"
    /\ Exit
    /\ UNCHANGED <<flags, clusterVars, budget>>

Crash ==
    /\ phase \in {"running", "stopping"}
    /\ Spend("fault")
    /\ Exit
    /\ UNCHANGED <<flags, clusterVars>>

-----------------------------------------------------------------------------
(***************************************************************************)
(* The profile watcher.                                                    *)
(***************************************************************************)
ObserveProfile ==
    /\ phase \in {"running", "stopping"}
    /\ flags.clusterProfile
    /\ view # profile
    /\ view' = profile
    /\ watcher' = TRUE
    /\ UNCHANGED <<flags, clusterVars, mainVars, workVars, budget>>

\* cancelOnce: a second change while the manager stops changes nothing.
OnProfileChange == phase' = "stopping"

\* SecurityProfileWatcher.Reconcile remembers the profile it has reported.
CheckProfile ==
    /\ phase = "running"
    /\ watcher
    /\ watcher' = FALSE
    /\ IF view # initial
          THEN OnProfileChange /\ initial' = view
          ELSE UNCHANGED <<phase, initial>>
    /\ UNCHANGED <<flags, settings, clusterVars, view, workVars, budget>>

-----------------------------------------------------------------------------
(***************************************************************************)
(* The workers.  Tracker and metrics have a mutex each, so that workers of *)
(* other kinds come in between.                                            *)
(***************************************************************************)
SetStatus(key, ok) ==
    statusByObject' = [statusByObject EXCEPT ![key] = IF ok THEN "ok" ELSE "failed"]

setResources(kind, key, ok) ==
    resources' = resources \cup {<<kind, IF ok THEN "synced" ELSE "failed", key>>}

ForgetTracked(key) == statusByObject' = [statusByObject EXCEPT ![key] = "none"]

\* Faulty variant: forgets the resource of one kind only in one state.
ForgetSynced(key) == resources' = {r \in resources : r[3] # key \/ r[2] # "synced"}

ForgetResources(key) == resources' = {r \in resources : r[3] # key}

\* A request is taken and its object read; one that is gone is forgotten.  A read
\* that fails reports nothing and brings the request back: it is not taken here.
BeginPass(o) ==
    LET k == o[1] IN
    /\ phase = "running"
    /\ o \in queue
    /\ worker[k] = Idle
    /\ queue' = queue \ {o}
    /\ IF o \in objects
          THEN /\ worker' = [worker EXCEPT ![k] = [pc |-> "pass", name |-> o[2], ok |-> FALSE]]
               /\ UNCHANGED statusByObject
          ELSE /\ worker' = [worker EXCEPT ![k] = [pc |-> "forget", name |-> o[2], ok |-> FALSE]]
               /\ ForgetTracked(objKey(o))
    /\ UNCHANGED <<flags, clusterVars, mainVars, watchVars, resources, budget>>

\* The metrics forget it, too; the deletion in the backends may fail and is
\* then repeated from the start.
EndDeletion(k) ==
    LET o == <<k, worker[k].name>> IN
    /\ worker[k].pc = "forget"
    /\ ForgetResources(objKey(o))
    /\ worker' = [worker EXCEPT ![k] = Idle]
    /\ \/ UNCHANGED <<queue, budget>>
       \/ k # "Perses" /\ Spend("fault") /\ queue' = queue \cup {o}
    /\ UNCHANGED <<flags, clusterVars, mainVars, watchVars, statusByObject>>

\* A Perses pass without error.  The first one over an object halts once it has
\* written the first condition, with the requeue it asks for dropped; the event of that
\* write brings another.  A later one leaves pods with the arguments of this process.
PersesPassed(o) ==
    IF o[2] \in begun
       THEN /\ operand' = [operand EXCEPT ![o[2]] = GetPersesArgs(settings)]
            /\ UNCHANGED <<begun, queue>>
       ELSE /\ begun' = begun \cup {o[2]}
            /\ queue' = queue \cup {o}
            /\ UNCHANGED operand

\* The sub-reconcilers have run.  The SetReasonAndMessage that follows a success is part
\* of the step: it adds words to the entry and leaves or makes it what SetStatus made it.
ReportStatus(k) ==
    LET o == <<k, worker[k].name>> IN
    /\ worker[k].pc = "pass"
    /\ \E ok \in BOOLEAN :
         /\ IF ok THEN UNCHANGED budget ELSE Spend("fault")
         /\ worker' = [worker EXCEPT ![k].pc = "count", ![k].ok = ok]
         /\ SetStatus(objKey(o), ok)
         /\ IF ok /\ k = "Perses" /\ o \in objects
               THEN PersesPassed(o)
               ELSE UNCHANGED <<begun, operand, queue>>
    /\ UNCHANGED <<flags, profile, objects, created, mainVars, watchVars, resources>>

\* A failed pass is requeued.
ReportResources(k) ==
    LET o == <<k, worker[k].name>> IN
    /\ worker[k].pc = "count"
    /\ setResources(k, objKey(o), worker[k].ok)
    /\ worker' = [worker EXCEPT ![k] = Idle]
    /\ queue' = IF worker[k].ok THEN queue ELSE queue \cup {o}
    /\ UNCHANGED <<flags, clusterVars, mainVars, watchVars, statusByObject, budget>>

-----------------------------------------------------------------------------
Init ==
    /\ flags \in FlagSets
    /\ profile \in Profiles \cup {Missing}
    /\ phase = "down"
    /\ settings = NoSettings
    /\ initial = Missing
    /\ view = Missing
    /\ watcher = FALSE
    /\ objects = {}
    /\ queue = {}
    /\ worker = [k \in Kinds |-> Idle]
    /\ begun = {}
    /\ operand = [n \in Names |-> Missing]
    /\ statusByObject = [k \in Keys |-> "none"]
    /\ resources = {}
    /\ created = {}
    /\ budget \in Budgets

EnvironmentStep ==
    \/ \E p \in Profiles : ChangeProfile(p)
    \/ \E o \in Objects : CreateObject(o) \/ DeleteObject(o)

MainStep ==
    \/ StartContainer
    \/ ParseFlags
    \/ FetchProfile
    \/ SetupManager
    \/ StartManager
    \/ StopManager

WorkerStep(k) ==
    \/ \E n \in Names : BeginPass(<<k, n>>)
    \/ EndDeletion(k)
    \/ ReportStatus(k)
    \/ ReportResources(k)

Next ==
    \/ EnvironmentStep
    \/ MainStep
    \/ Crash
    \/ ObserveProfile
    \/ CheckProfile
    \/ \E k \in Kinds : WorkerStep(k)

Spec == Init /\ [][Next]_vars

\* The kubelet restarts the container and main() goes on; the watch delivers;
\* the goroutines of the watcher and of the four workers run.  A work queue is
\* first-in first-out, so every request is taken some time.
Fairness ==
    /\ WF_vars(MainStep)
    /\ WF_vars(ObserveProfile)
    /\ WF_vars(CheckProfile)
    /\ \A k \in Kinds : WF_vars(WorkerStep(k))
    /\ \A o \in Objects : SF_vars(BeginPass(o))
FairSpec == Spec /\ Fairness

-----------------------------------------------------------------------------
(***************************************************************************)
(* Properties.                                                             *)
(***************************************************************************)

\* Type invariant; main() goes on only with settings that Go can use.
TypeOK ==
    /\ flags \in FlagSets
    /\ profile \in Profiles \cup {Missing}
    /\ phase \in {"down", "flags", "fetch", "setup", "start", "running", "stopping"}
    /\ settings \in [min : Versions \cup {""}, ciphers : SUBSET CipherSuites]
    /\ initial \in Profiles \cup {Missing}
    /\ view \in Profiles \cup {Missing}
    /\ watcher \in BOOLEAN
    /\ created \subseteq Objects /\ objects \subseteq created /\ queue \subseteq created
    /\ worker \in [Kinds -> [pc : {"idle", "pass", "forget", "count"},
                             name : Names \cup {Missing}, ok : BOOLEAN]]
    /\ \A k \in Kinds : worker[k].pc = "idle" \/ worker[k].name \in Names
    /\ begun \subseteq Names /\ DOMAIN operand = Names
    /\ statusByObject \in [Keys -> {"none", "ok", "failed"}]
    /\ resources \subseteq Kinds \X {"synced", "failed"} \X Keys
    /\ budget \in [EnvironmentMoves -> Nat]

\* No request waits or runs, and the watcher knows the cluster's profile.
Quiet ==
    /\ phase = "running"
    /\ queue = {} /\ worker = [k \in Kinds |-> Idle]
    /\ flags.clusterProfile => view = profile /\ ~ watcher

\* The settings the process should run with.
Wanted == IF flags.clusterProfile THEN FetchTLSProfile(profile) ELSE flags.settings

\* main() reads the profile before there is a watch.  Still the process never
\* comes to rest with the settings of a profile that has changed, be it
\* between the read and the list, before or after the watcher has started;
\* neither do the pods it configures.
SettledMeansFollowed ==
    Quiet =>
        /\ settings = Wanted
        /\ \A n \in Names : <<"Perses", n>> \in objects => operand[n] = GetPersesArgs(Wanted)

\* At rest the resource gauge counts, under any kind and state, only objects
\* that exist, and the tracker only keys of objects that exist, although
\* other kinds with the same key report in between the two ForgetObject calls.
SettledMeansNoGhosts ==
    Quiet =>
        /\ \A r \in resources : \E o \in objects : o[1] = r[1] /\ objKey(o) = r[3]
        /\ \A key \in Keys : statusByObject[key] # "none" =>
              \E o \in objects : objKey(o) = key

Namespaced(o) == o[1] # "PersesGlobalDatasource"

\* No other object there ever was has had the key of this one.
OwnKey(o) ==
    \A other \in created \ {o} : other[2] = o[2] => Namespaced(other) # Namespaced(o)

\* The kinds share their keys: deleting a dashboard forgets the status of the
\* datasource of that name.  An object whose key no other kind has ever had
\* is counted at rest, and its last result is a success; a global datasource
\* has keys of its own.
SettledMeansCounted ==
    Quiet => \A o \in objects :
        OwnKey(o) =>
            /\ statusByObject[objKey(o)] = "ok"
            /\ <<o[1], "synced", objKey(o)>> \in resources

\* The command line and the profile are good for a process to start with.
Usable ==
    /\ FlagsParse
    /\ flags.clusterProfile => ProfileUsable

\* If command line and profile are usable in the end, then the process ends up
\* running with those settings, and so do the pods it configures: no sequence
\* of profile changes, failing starts and crashes leaves it down or behind.
FollowsProfile == <>[]Usable => <>[](Quiet /\ settings = Wanted)

-----------------------------------------------------------------------------
(***************************************************************************)
(* The inductive invariant.  The properties above speak of states in which *)
(* nothing is under way; these say for all states which request or pass    *)
(* will still make up for what is missing.                                 *)
(***************************************************************************)
Up == phase \in {"running", "stopping"}

\* The worker of the object's kind is working on it, and has come this far.
At(o, pcs) == worker[o[1]].pc \in pcs /\ worker[o[1]].name = o[2]

\* A worker's request was made for an object there ever was; while it reports, the
\* object exists or another request is waiting, for its deletion makes one; and so
\* does its creation while the former object of its name is being forgotten.
WorkersOnObjects ==
    \A k \in Kinds :
        /\ worker[k].pc = "idle" => worker[k] = Idle
        /\ worker[k].pc # "idle" => <<k, worker[k].name>> \in created
        /\ worker[k].pc \in {"pass", "count"} => <<k, worker[k].name>> \in objects \cup queue
        /\ worker[k].pc = "forget" => <<k, worker[k].name>> \notin objects \ queue

\* A process that does not run remembers nothing.
DownIsEmpty ==
    ~ Up =>
        /\ queue = {} /\ worker = [k \in Kinds |-> Idle]
        /\ statusByObject = [k \in Keys |-> "none"] /\ resources = {}

\* The settings are those of the profile main() read, which the watcher has
\* compared with all it has seen, or still has a request to.
SettingsFollow ==
    /\ phase = "fetch" => flags.clusterProfile
    /\ phase \in {"setup", "start", "running", "stopping"} /\ ~ flags.clusterProfile =>
          settings = flags.settings
    /\ phase \in {"setup", "start", "running"} /\ flags.clusterProfile =>
          settings = FetchTLSProfile(initial)
    /\ phase = "running" /\ flags.clusterProfile => view = initial \/ watcher

\* A pass that will set the pods' arguments, or will be repeated, is under way
\* or has been requested.
Due(o) == o \in queue \/ At(o, {"pass"}) \/ (At(o, {"count"}) /\ ~ worker[o[1]].ok)

\* The pods of every other Perses have the arguments of this process.
OperandsFollow ==
    Up => \A n \in Names :
        <<"Perses", n>> \in objects /\ ~ Due(<<"Perses", n>>) =>
            operand[n] = GetPersesArgs(settings)

\* What is remembered is of an object that exists or is going to be forgotten.
NoGhosts ==
    /\ \A r \in resources : \E o \in Objects :
          /\ o[1] = r[1] /\ objKey(o) = r[3]
          /\ o \in objects \cup queue \/ At(o, {"forget"})
    /\ \A key \in Keys : statusByObject[key] # "none" =>
          \E o \in Objects : objKey(o) = key /\ o \in objects \cup queue

\* An object with a key of its own is counted as soon as nothing is due for it.
Counted ==
    Up => \A o \in objects : OwnKey(o) /\ ~ Due(o) =>
        /\ statusByObject[objKey(o)] = "ok"
        /\ ~ At(o, {"count"}) => <<o[1], "synced", objKey(o)>> \in resources

\* The invariant the proofs rest on.
ProcessInv ==
    /\ TypeOK
    /\ WorkersOnObjects
    /\ DownIsEmpty
    /\ SettingsFollow
    /\ OperandsFollow
    /\ NoGhosts
    /\ Counted
=============================================================================
