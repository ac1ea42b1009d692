---------------------------- MODULE ResourceSync ----------------------------
(***************************************************************************)
(* One of the three controllers that copy a custom resource into every     *)
(* selected Perses instance: PersesDashboard, PersesDatasource or          *)
(* PersesGlobalDatasource (constant Kind).  The three are the same code    *)
(* but for the calls of one instance: a global datasource has no project,  *)
(* a dashboard has no secret.                                              *)
(*                                                                         *)
(* Modelled: the watches and the work queue, the single reconcile worker   *)
(* with one step per call to the API server or to a Perses backend (but    *)
(* for the lookup of a secret, which is one with its write), the           *)
(* status conditions, the reconciliation tracker and the resource metrics, *)
(* failing calls, a restart of the operator, and the users and controllers *)
(* that change the cluster meanwhile.                                      *)
(*                                                                         *)
(* Abstracted: the spec.config and the tags of an object are one value;    *)
(* spec.client is whether there is a secret config; credentials are a      *)
(* version number; condition messages follow from their reasons; the       *)
(* objects live in one namespace, so a backend has one project.            *)
(***************************************************************************)
EXTENDS Naturals, FiniteSets

CONSTANTS
    Kind,           \* the controller that is modelled
    Objects,        \* keys of the custom resources
    Instances,      \* keys of the Perses objects
    Values,         \* contents of an object
    InvalidValues,  \* the ones the backend's validation rejects
    Labels,         \* labels of Perses objects
    Selectors,      \* instanceSelectors users write: sets of labels, or BadSelector
    BadSelector,    \* a selector LabelSelectorAsSelector refuses
    Absent,         \* nothing stored under a key
    Budgets         \* how often the environment may do each thing, one entry per scenario

Kinds == {"PersesDashboard", "PersesDatasource", "PersesGlobalDatasource"}
EnvironmentMoves ==
    {"edit", "perses", "relabel", "fault", "restart", "loss", "credential", "project"}

ASSUME KindAssumption == Kind \in Kinds
ASSUME ValuesAssumption == InvalidValues \subseteq Values /\ Values # {}
ASSUME SelectorsAssumption == Selectors \subseteq (SUBSET Labels) \cup {BadSelector} /\ Selectors # {}
ASSUME AbsentAssumption ==
    /\ Absent \notin Values \cup Nat \cup Objects \cup Instances
    /\ Absent \notin [value : Values, selector : Selectors, client : BOOLEAN]
ASSUME BudgetsAssumption == Budgets \subseteq [EnvironmentMoves -> Nat]

VARIABLES
    cr,             \* the custom resources of the API server, with their status
    perses,         \* the Perses objects of the API server
    credential,     \* version of the K8s data an object's client config names; 0: missing
    pcache,         \* the Perses objects of the operator's informer cache
    known,          \* the objects of the operator's metadata cache
    pending,        \* objects with a change the watch has not delivered
    queue,          \* the controller's work queue
    work,           \* the reconcile worker
    project,        \* instances that have the namespace's project
    stored,         \* the objects of each backend
    secret,         \* the secrets of each backend
    tracked,        \* ReconciliationTracker: the last sync status of a key
    reported,       \* Metrics: the resource states a key is counted under
    lost,           \* history: deletions a restart came in between
    unnoticed,      \* history: instances with a change no event tells of
    budget          \* what is left of the scenario's moves

clusterVars == <<cr, perses, credential>>
watchVars == <<pcache, known, pending>>
backendVars == <<project, stored, secret>>
metricVars == <<tracked, reported>>
historyVars == <<lost, unnoticed>>
vars == <<clusterVars, watchVars, queue, work, backendVars, metricVars, historyVars, budget>>

Reasons == {"PersesMissing", "ConnectionFailed", "BackendError",
            "ValidationFailed", "InvalidConfiguration"}

NoStatus == [available |-> "none", degraded |-> "none", reason |-> "none"]
Status == [available : {"none", "Unknown", "True", "False"},
           degraded : {"none", "True", "False"},
           reason : Reasons \cup {"none", "Reconciling", "Reconciled"}]

Resource == [exists : BOOLEAN, value : Values, selector : Selectors,
             client : BOOLEAN, status : Status]
Perses == [exists : BOOLEAN, available : BOOLEAN, label : Labels]

\* Faulty variant: the secret is left out.
syncWithoutSecret ==
    [client |-> "project", project |-> "get", validate |-> "write"]

\* The calls of one instance, in the order each controller makes them.
syncPersesDatasource ==
    [client |-> "project", project |-> "get", validate |-> "secret"]
syncPersesDashboard ==
    [client |-> "project", project |-> "get", validate |-> "write"]
syncPersesGlobalDatasource ==
    [client |-> "get", project |-> "get", validate |-> "secret"]

deleteDatasource ==
    [client |-> "delProject", delete |-> "delSecret"]
deleteDashboard ==
    [client |-> "delProject", delete |-> "next"]

\* Faulty variants of the last one: the secret stays behind; or the project is
\* asked for, as for the namespaced kinds.
deleteLeavingSecret ==
    [client |-> "delete", delete |-> "next"]
deleteAskingForProject ==
    [client |-> "delProject", delete |-> "delSecret"]

deleteGlobalDatasource ==
    [client |-> "delete", delete |-> "delSecret"]

SyncFlow == CASE Kind = "PersesDatasource" -> syncPersesDatasource
              [] Kind = "PersesDashboard" -> syncPersesDashboard
              [] Kind = "PersesGlobalDatasource" -> syncPersesGlobalDatasource
DeleteFlow == CASE Kind = "PersesDatasource" -> deleteDatasource
                [] Kind = "PersesDashboard" -> deleteDashboard
                [] Kind = "PersesGlobalDatasource" -> deleteGlobalDatasource

\* A dashboard has no spec.client.
ClientConfigs == IF Kind = "PersesDashboard" THEN {FALSE} ELSE BOOLEAN

\* The worker's locals: the key, the spec its Get returned, whether this is a
\* deletion pass, the listed instances still to do and the current one, the
\* notFound flag, the credentials read, and the reason to report.  "listed" is
\* history: the instances the pass set out to sync that kept their storage.
IdleWork == [pc |-> "idle", obj |-> Absent, spec |-> Absent, deleting |-> FALSE,
             todo |-> {}, inst |-> Absent, notFound |-> FALSE, cred |-> 0,
             reason |-> "none", listed |-> {}]

-----------------------------------------------------------------------------
(***************************************************************************)
(* The environment: the users of the cluster, the Perses controller, the   *)
(* other resource controllers, and faults.                                 *)
(***************************************************************************)
Spend(move) ==
    /\ budget[move] > 0
    /\ budget' = [budget EXCEPT ![move] = @ - 1]

CreateResource(o) ==
    /\ Spend("edit")
    /\ ~ cr[o].exists
    /\ \E v \in Values, s \in Selectors, c \in ClientConfigs :
         cr' = [cr EXCEPT ![o] = [exists |-> TRUE, value |-> v, selector |-> s,
                                  client |-> c, status |-> NoStatus]]
    /\ pending' = pending \cup {o}
    /\ lost' = lost \ {o}
    /\ UNCHANGED <<perses, credential, pcache, known, queue, work, backendVars, metricVars, unnoticed>>

EditResource(o) ==
    /\ Spend("edit")
    /\ cr[o].exists
    /\ \E v \in Values, s \in Selectors, c \in ClientConfigs :
         cr' = [cr EXCEPT ![o].value = v, ![o].selector = s, ![o].client = c]
    /\ cr' # cr
    /\ pending' = pending \cup {o}
    /\ UNCHANGED <<perses, credential, pcache, known, queue, work, backendVars, metricVars, historyVars>>

DeleteResource(o) ==
    /\ Spend("edit")
    /\ cr[o].exists
    /\ cr' = [cr EXCEPT ![o].exists = FALSE]
    /\ pending' = pending \cup {o}
    /\ UNCHANGED <<perses, credential, pcache, known, queue, work, backendVars, metricVars, historyVars>>

RotateCredential(o) ==
    /\ Spend("credential")
    /\ credential' = [credential EXCEPT ![o] = @ + 1]
    /\ UNCHANGED <<cr, perses, watchVars, queue, work, backendVars, metricVars, historyVars>>

\* The backend of an instance starts over with nothing: its Perses object and
\* its storage were deleted, or an emptyDir went with its pod.  A claim that
\* outlives its StatefulSet, which sets no retention policy, and a SQL database
\* are not modelled: an instance created again never finds what it held before.
Wipe(i) ==
    /\ project' = project \ {i}
    /\ stored' = [stored EXCEPT ![i] = [o \in Objects |-> Absent]]
    /\ secret' = [secret EXCEPT ![i] = [o \in Objects |-> Absent]]
    /\ work' = [work EXCEPT !.listed = @ \ {i}]

\* The Perses controller deploys a server for an object it finds in the same
\* informer cache; the server goes with the object.
Running(i) == perses[i].exists /\ pcache[i].exists

\* The Perses objects.  Every change reaches the cache before the next one of
\* the same object: the watch delivers each of them.
ChangePerses(i, p) ==
    /\ Spend("perses")
    /\ pcache[i] = perses[i]
    /\ perses' = [perses EXCEPT ![i] = p]
    /\ UNCHANGED <<cr, credential, watchVars, queue, metricVars, lost>>

CreatePerses(i) ==
    /\ ~ perses[i].exists
    /\ ChangePerses(i, [perses[i] EXCEPT !.exists = TRUE, !.available = FALSE])
    /\ UNCHANGED <<backendVars, work, unnoticed>>

SetAvailable(i, b) ==
    /\ perses[i].exists
    /\ perses[i].available # b
    /\ ChangePerses(i, [perses[i] EXCEPT !.available = b])
    /\ unnoticed' = IF b THEN unnoticed \ {i} ELSE unnoticed
    /\ UNCHANGED <<backendVars, work>>

DeletePerses(i) ==
    /\ perses[i].exists
    /\ ChangePerses(i, [perses[i] EXCEPT !.exists = FALSE, !.available = FALSE])
    /\ Wipe(i)
    /\ UNCHANGED unnoticed

RelabelPerses(i, l) ==
    /\ Spend("relabel")
    /\ perses[i].exists
    /\ perses[i].label # l
    /\ pcache[i] = perses[i]
    /\ perses' = [perses EXCEPT ![i].label = l]
    /\ unnoticed' = unnoticed \cup {i}
    /\ UNCHANGED <<cr, credential, watchVars, queue, work, backendVars, metricVars, lost>>

LoseBackend(i) ==
    /\ Spend("loss")
    /\ perses[i].exists
    /\ Wipe(i)
    /\ unnoticed' = unnoticed \cup {i}
    /\ UNCHANGED <<clusterVars, watchVars, queue, metricVars, lost>>

\* Another controller creates the namespace's project.
CreateProjectElsewhere(i) ==
    /\ Spend("project")
    /\ Running(i)
    /\ project' = project \cup {i}
    /\ UNCHANGED <<clusterVars, watchVars, queue, work, stored, secret, metricVars, historyVars>>

-----------------------------------------------------------------------------
(***************************************************************************)
(* Watches.                                                                *)
(***************************************************************************)

\* An event of an object enqueues its key.
ObserveResource(o) ==
    /\ o \in pending
    /\ pending' = pending \ {o}
    /\ known' = IF cr[o].exists THEN known \cup {o} ELSE known \ {o}
    /\ queue' = queue \cup {o}
    /\ UNCHANGED <<clusterVars, pcache, work, backendVars, metricVars, historyVars, budget>>

\* Faulty variant: reacts to every update except the transition itself.
PersesStaysAvailable(old, new) == old.available /\ new.available

PersesBecameAvailable(old, new) == ~ old.available /\ new.available

\* The mapper of the watch: a request for every object of the metadata cache.
MetadataListToRequests == known

\* Only an update of a Perses object that became available passes the
\* predicate; creations and deletions do not.
ObservePerses(i) ==
    /\ pcache[i] # perses[i]
    /\ pcache' = [pcache EXCEPT ![i] = perses[i]]
    /\ queue' = IF /\ pcache[i].exists /\ perses[i].exists
                   /\ PersesBecameAvailable(pcache[i], perses[i])
                   THEN queue \cup MetadataListToRequests
                   ELSE queue
    /\ UNCHANGED <<clusterVars, known, pending, work, backendVars, metricVars, historyVars, budget>>

\* The operator stops anywhere and starts again: caches are listed afresh,
\* every existing object is enqueued, what was in memory is gone.
Restart ==
    /\ Spend("restart")
    /\ pcache' = perses
    /\ known' = {o \in Objects : cr[o].exists}
    /\ queue' = known'
    /\ pending' = {}
    /\ work' = IdleWork
    /\ tracked' = [o \in Objects |-> "none"]
    /\ reported' = [o \in Objects |-> {}]
    /\ lost' = lost \cup {o \in pending \cup queue \cup {work.obj} : o \in Objects /\ ~ cr[o].exists}
    /\ unnoticed' = {}
    /\ UNCHANGED <<clusterVars, backendVars>>

-----------------------------------------------------------------------------
(***************************************************************************)
(* The reconcile worker.  A request that fails is put back (the rate       *)
(* limiter only delays it); "halt without error" is never put back.        *)
(***************************************************************************)
Goto(pc) == work' = [work EXCEPT !.pc = pc]

\* The tracker keeps one result per key; the metrics keep one entry per state
\* and key, and setting one state leaves the other alone.
SetStatus(o, result) == tracked' = [tracked EXCEPT ![o] = result]
setResources(o, state) == reported' = [reported EXCEPT ![o] = @ \cup {state}]
SetSyncedResources(o) == setResources(o, "synced")
SetFailedResources(o) == setResources(o, "failed")
ForgetTracked(o) == tracked' = [tracked EXCEPT ![o] = "none"]
ForgetReported(o) == reported' = [reported EXCEPT ![o] = {}]

\* Faulty variant: the error does not bring the request back.
EndFailedNotRequeued(o) ==
    /\ SetStatus(o, "failed")
    /\ SetFailedResources(o)
    /\ work' = IdleWork
    /\ UNCHANGED queue

\* End of a reconciliation, with an error or without: tracker, metrics, queue.
EndFailed(o) ==
    /\ SetStatus(o, "failed")
    /\ SetFailedResources(o)
    /\ queue' = queue \cup {o}
    /\ work' = IdleWork

EndOK(o) ==
    /\ SetStatus(o, "ok")
    /\ SetSyncedResources(o)
    /\ work' = IdleWork
    /\ UNCHANGED queue

\* Faulty variant: a deleted object stays tracked.
ReconcileNeverForgets(o) ==
    /\ work.pc = "idle"
    /\ o \in queue
    /\ queue' = queue \ {o}
    /\ work' = IF cr[o].exists
                  THEN [IdleWork EXCEPT !.pc = "unknown", !.obj = o,
                         !.spec = [value |-> cr[o].value, selector |-> cr[o].selector,
                                   client |-> cr[o].client]]
                  ELSE [IdleWork EXCEPT !.pc = "list", !.obj = o, !.deleting = TRUE]
    /\ UNCHANGED <<metricVars, budget>>
    /\ UNCHANGED <<clusterVars, watchVars, backendVars, historyVars>>

\* Get the object: reconcile it, or forget it and delete it everywhere.
Reconcile(o) ==
    /\ work.pc = "idle"
    /\ o \in queue
    /\ \/ /\ cr[o].exists
          /\ queue' = queue \ {o}
          /\ work' = [IdleWork EXCEPT !.pc = "unknown", !.obj = o,
                        !.spec = [value |-> cr[o].value, selector |-> cr[o].selector,
                                  client |-> cr[o].client]]
          /\ UNCHANGED <<metricVars, budget>>
       \/ /\ ~ cr[o].exists
          /\ queue' = queue \ {o}
          /\ ForgetTracked(o)
          /\ ForgetReported(o)
          /\ work' = [IdleWork EXCEPT !.pc = "list", !.obj = o, !.deleting = TRUE]
          /\ UNCHANGED budget
       \/ /\ Spend("fault")              \* get_failed: requeued as it is
          /\ UNCHANGED <<queue, work, metricVars>>
    /\ UNCHANGED <<clusterVars, watchVars, backendVars, historyVars>>

ConditionsChanged(before, after) == before # after

\* updateStatus with a fresh copy, retried on conflict: it either writes the
\* conditions it computed from the current ones, or finds the object gone, or
\* fails.  A write that changes nothing is not sent.
WriteStatus(o, status) ==
    /\ cr[o].exists
    /\ cr' = [cr EXCEPT ![o].status = status]
    /\ pending' = IF ConditionsChanged(cr[o].status, status) THEN pending \cup {o} ELSE pending
    /\ UNCHANGED budget

StatusGone(o) == ~ cr[o].exists /\ UNCHANGED <<cr, pending, budget>>
StatusFails == Spend("fault") /\ UNCHANGED <<cr, pending>>

setStatusToUnknown ==
    LET o == work.obj
        unknown == [available |-> "Unknown", degraded |-> "none", reason |-> "Reconciling"] IN
    /\ work.pc = "unknown"
    /\ \/ /\ WriteStatus(o, IF cr[o].status = NoStatus THEN unknown ELSE cr[o].status)
          /\ Goto("list")
          /\ UNCHANGED <<queue, metricVars>>
       \/ StatusGone(o) /\ EndOK(o)
       \/ StatusFails /\ EndFailed(o)
    /\ UNCHANGED <<perses, credential, pcache, known, backendVars, historyVars>>

setStatusToComplete ==
    LET o == work.obj
        complete == [available |-> "True", degraded |-> "False", reason |-> "Reconciled"] IN
    /\ work.pc = "complete"
    /\ \/ (WriteStatus(o, complete) \/ StatusGone(o)) /\ EndOK(o)
       \/ StatusFails /\ EndFailed(o)
    /\ UNCHANGED <<perses, credential, pcache, known, backendVars, historyVars>>

setStatusToDegraded ==
    LET o == work.obj
        degraded == [available |-> "False", degraded |-> "True", reason |-> work.reason] IN
    /\ work.pc = "degrade"
    /\ WriteStatus(o, degraded) \/ StatusGone(o) \/ StatusFails
    /\ EndFailed(o)
    /\ UNCHANGED <<perses, credential, pcache, known, backendVars, historyVars>>

\* Faulty variant: a deletion that fails reports its status, too.
AbortAlwaysDegrades(reason) ==
    /\ work' = [work EXCEPT !.pc = "degrade", !.reason = reason]
    /\ UNCHANGED queue

\* What stops a pass: a reconciliation reports the reason first, a deletion
\* goes straight back into the queue.
Abort(reason) ==
    IF work.deleting
       THEN /\ queue' = queue \cup {work.obj}
            /\ work' = IdleWork
       ELSE /\ work' = [work EXCEPT !.pc = "degrade", !.reason = reason]
            /\ UNCHANGED queue

\* List the selected instances; keep the available ones.
reconcileInAllInstances ==
    LET listed == {i \in Instances : pcache[i].exists /\ pcache[i].label \in work.spec.selector} IN
    /\ work.pc = "list"
    /\ ~ work.deleting
    /\ \/ /\ work.spec.selector = BadSelector
          /\ EndFailed(work.obj)
          /\ UNCHANGED budget
       \/ /\ work.spec.selector # BadSelector
          /\ listed = {}
          /\ Abort("PersesMissing")
          /\ UNCHANGED <<metricVars, budget>>
       \/ /\ work.spec.selector # BadSelector
          /\ listed # {}
          /\ LET available == {i \in listed : pcache[i].available} IN
               work' = [work EXCEPT !.pc = "next", !.todo = available, !.listed = available]
          /\ UNCHANGED <<queue, metricVars, budget>>
       \/ /\ work.spec.selector # BadSelector
          /\ Spend("fault")
          /\ Abort("PersesMissing")
          /\ UNCHANGED metricVars
    /\ UNCHANGED <<clusterVars, watchVars, backendVars, historyVars>>

\* Faulty variant: deletes only where the instance is available.
deleteInAvailableInstances ==
    LET listed == {i \in Instances : pcache[i].exists /\ pcache[i].available} IN
    /\ work.pc = "list"
    /\ work.deleting
    /\ work' = [work EXCEPT !.pc = "next", !.todo = listed]
    /\ UNCHANGED <<queue, budget>>
    /\ UNCHANGED <<clusterVars, watchVars, backendVars, metricVars, historyVars>>

\* List every instance, selected or not, available or not.
deleteInAllInstances ==
    LET listed == {i \in Instances : pcache[i].exists} IN
    /\ work.pc = "list"
    /\ work.deleting
    /\ \/ /\ work' = [work EXCEPT !.pc = "next", !.todo = listed]
          /\ UNCHANGED <<queue, budget>>
       \/ Spend("fault") /\ Abort("none")
    /\ UNCHANGED <<clusterVars, watchVars, backendVars, metricVars, historyVars>>

\* The loop over the list, whose order the informer cache leaves open.
NextInstance(i) ==
    /\ work.pc = "next"
    /\ i \in work.todo
    /\ work' = [work EXCEPT !.pc = "client", !.inst = i, !.todo = @ \ {i}]
    /\ UNCHANGED <<clusterVars, watchVars, queue, backendVars, metricVars, historyVars, budget>>

AllInstancesDone ==
    /\ work.pc = "next"
    /\ work.todo = {}
    /\ IF work.deleting THEN work' = IdleWork ELSE Goto("complete")
    /\ UNCHANGED <<clusterVars, watchVars, queue, backendVars, metricVars, historyVars, budget>>

-----------------------------------------------------------------------------
(***************************************************************************)
(* The calls of one instance.  A call to a backend that is not running     *)
(* fails, any other may.                                                   *)
(***************************************************************************)
Flow == IF work.deleting THEN DeleteFlow ELSE SyncFlow

Answers == Running(work.inst) /\ UNCHANGED budget
Fails == \/ ~ Running(work.inst) /\ UNCHANGED budget
         \/ Spend("fault")

CreateClient ==
    /\ work.pc = "client"
    /\ \/ Goto(Flow.client) /\ UNCHANGED <<queue, budget>>
       \/ Spend("fault") /\ Abort("ConnectionFailed")
    /\ UNCHANGED <<clusterVars, watchVars, backendVars, metricVars, historyVars>>

getProject ==
    /\ work.pc = "project"
    /\ \/ /\ Answers
          /\ Goto(IF work.inst \in project THEN SyncFlow.project ELSE "createProject")
          /\ UNCHANGED queue
       \/ Fails /\ Abort("BackendError")
    /\ UNCHANGED <<clusterVars, watchVars, backendVars, metricVars, historyVars>>

\* Somebody else may have created it since the Get: a conflict is an error.
createProject ==
    /\ work.pc = "createProject"
    /\ \/ /\ Answers
          /\ work.inst \notin project
          /\ project' = project \cup {work.inst}
          /\ Goto(SyncFlow.project)
          /\ UNCHANGED queue
       \/ /\ Fails \/ (Answers /\ work.inst \in project)
          /\ Abort("BackendError")
          /\ UNCHANGED project
    /\ UNCHANGED <<clusterVars, watchVars, stored, secret, metricVars, historyVars>>

\* Faulty variant: an object that is there counts as in sync.
FoundIsInSync(existing, value) == existing # Absent

\* DashboardInSync, DatasourceInSync, GlobalDatasourceInSync of a found object.
InSync(existing, value) == existing = value

\* Faulty variant: syncs the secret before it validates.
getExistingThenSecret ==
    LET existing == stored[work.inst][work.obj] IN
    /\ work.pc = "get"
    /\ Answers
    /\ work' = IF InSync(existing, work.spec.value)
                  THEN [work EXCEPT !.pc = "next"]
                  ELSE [work EXCEPT !.pc = IF work.spec.client THEN "secret" ELSE "validate",
                                    !.notFound = (existing = Absent)]
    /\ UNCHANGED <<clusterVars, watchVars, queue, backendVars, metricVars, historyVars>>

getExisting ==
    LET existing == stored[work.inst][work.obj] IN
    /\ work.pc = "get"
    /\ \/ /\ Answers
          /\ work' = IF InSync(existing, work.spec.value)
                        THEN [work EXCEPT !.pc = "next"]
                        ELSE [work EXCEPT !.pc = "validate", !.notFound = (existing = Absent)]
          /\ UNCHANGED queue
       \/ Fails /\ Abort("BackendError")
    /\ UNCHANGED <<clusterVars, watchVars, backendVars, metricVars, historyVars>>

validate ==
    /\ work.pc = "validate"
    /\ \/ /\ Answers
          /\ work.spec.value \notin InvalidValues
          /\ Goto(IF work.spec.client THEN SyncFlow.validate ELSE "write")
          /\ UNCHANGED queue
       \/ Answers /\ work.spec.value \in InvalidValues /\ Abort("ValidationFailed")
       \/ Fails /\ Abort("BackendError")
    /\ UNCHANGED <<clusterVars, watchVars, backendVars, metricVars, historyVars>>

\* GetBasicAuthData, GetOAuthData and GetTLSCertData find what spec.client names:
\* the Secret or ConfigMap, and in it the keys.
CredentialFound(o) == credential[o] # 0

\* syncPersesSecret reads the credentials first (missing or unreadable ones
\* are an invalid configuration) ...
readCredential ==
    /\ work.pc = "secret"
    /\ \/ /\ CredentialFound(work.obj)
          /\ work' = [work EXCEPT !.pc = "writeSecret", !.cred = credential[work.obj]]
          /\ UNCHANGED <<queue, budget>>
       \/ /\ (~ CredentialFound(work.obj) /\ UNCHANGED budget) \/ Spend("fault")
          /\ Abort("InvalidConfiguration")
    /\ UNCHANGED <<clusterVars, watchVars, backendVars, metricVars, historyVars>>

\* What the backend refuses: anything in a project it does not have.
Accepts(i) == Kind = "PersesGlobalDatasource" \/ i \in project

\* ... and then creates or updates the secret.  The lookup that decides which is
\* part of the step: were the backend to lose its storage in between, the write
\* would fail as one that gets no answer does.
writeSecret ==
    LET i == work.inst IN
    /\ work.pc = "writeSecret"
    /\ \/ /\ Answers /\ Accepts(i)
          /\ secret' = [secret EXCEPT ![i][work.obj] = work.cred]
          /\ Goto("write")
          /\ UNCHANGED queue
       \/ /\ Fails \/ (Answers /\ ~ Accepts(i))
          /\ Abort("BackendError")
          /\ UNCHANGED secret
    /\ UNCHANGED <<clusterVars, watchVars, project, stored, metricVars, historyVars>>

\* Faulty variant: goes on to the next instance when the write fails.
writeObjectIgnoringErrors ==
    LET i == work.inst
        expected == Accepts(i) /\ (work.notFound <=> stored[i][work.obj] = Absent) IN
    /\ work.pc = "write"
    /\ \/ /\ Answers /\ expected
          /\ stored' = [stored EXCEPT ![i][work.obj] = work.spec.value]
       \/ /\ Fails \/ (Answers /\ ~ expected)
          /\ UNCHANGED stored
    /\ Goto("next")
    /\ UNCHANGED <<clusterVars, watchVars, queue, project, secret, metricVars, historyVars>>

\* Faulty variant: writes what the object holds now, and not what the pass has
\* compared, validated and read the credentials for.
writeCurrentObject ==
    LET i == work.inst
        expected == Accepts(i) /\ (work.notFound <=> stored[i][work.obj] = Absent) IN
    /\ work.pc = "write"
    /\ Answers /\ expected
    /\ stored' = [stored EXCEPT ![i][work.obj] = cr[work.obj].value]
    /\ Goto("next")
    /\ UNCHANGED <<clusterVars, watchVars, queue, project, secret, metricVars, historyVars>>

\* Create what the Get did not find, update what it found.
writeObject ==
    LET i == work.inst
        expected == Accepts(i) /\ (work.notFound <=> stored[i][work.obj] = Absent) IN
    /\ work.pc = "write"
    /\ \/ /\ Answers /\ expected
          /\ stored' = [stored EXCEPT ![i][work.obj] = work.spec.value]
          /\ Goto("next")
          /\ UNCHANGED queue
       \/ /\ Fails \/ (Answers /\ ~ expected)
          /\ Abort("BackendError")
          /\ UNCHANGED stored
    /\ UNCHANGED <<clusterVars, watchVars, project, secret, metricVars, historyVars>>

\* Deletion: the project must be there, whatever the instance ever held.
getProjectToDelete ==
    /\ work.pc = "delProject"
    /\ \/ Answers /\ work.inst \in project /\ Goto("delete") /\ UNCHANGED queue
       \/ (Fails \/ (Answers /\ work.inst \notin project)) /\ Abort("none")
    /\ UNCHANGED <<clusterVars, watchVars, backendVars, metricVars, historyVars>>

\* NotFound is as good as deleted.
deleteObject ==
    /\ work.pc = "delete"
    /\ \/ /\ Answers
          /\ stored' = [stored EXCEPT ![work.inst][work.obj] = Absent]
          /\ Goto(DeleteFlow.delete)
          /\ UNCHANGED queue
       \/ Fails /\ Abort("none") /\ UNCHANGED stored
    /\ UNCHANGED <<clusterVars, watchVars, project, secret, metricVars, historyVars>>

deleteSecret ==
    /\ work.pc = "delSecret"
    /\ \/ /\ Answers
          /\ secret' = [secret EXCEPT ![work.inst][work.obj] = Absent]
          /\ Goto("next")
          /\ UNCHANGED queue
       \/ Fails /\ Abort("none") /\ UNCHANGED secret
    /\ UNCHANGED <<clusterVars, watchVars, project, stored, metricVars, historyVars>>

-----------------------------------------------------------------------------
Init ==
    /\ cr = [o \in Objects |-> [exists |-> FALSE, value |-> CHOOSE v \in Values : TRUE,
                                selector |-> CHOOSE s \in Selectors : TRUE,
                                client |-> FALSE, status |-> NoStatus]]
    /\ perses \in [Instances -> {p \in Perses : p.available => p.exists}]
    /\ credential \in [Objects -> IF Kind = "PersesDashboard" THEN {0} ELSE {0, 1}]
    /\ pcache = perses
    /\ known = {}
    /\ pending = {}
    /\ queue = {}
    /\ work = IdleWork
    /\ project = {}
    /\ stored = [i \in Instances |-> [o \in Objects |-> Absent]]
    /\ secret = [i \in Instances |-> [o \in Objects |-> Absent]]
    /\ tracked = [o \in Objects |-> "none"]
    /\ reported = [o \in Objects |-> {}]
    /\ lost = {}
    /\ unnoticed = {}
    /\ budget \in Budgets

UserStep ==
    \/ \E o \in Objects :
        \/ CreateResource(o)
        \/ EditResource(o)
        \/ DeleteResource(o)
        \/ RotateCredential(o)
    \/ \E i \in Instances :
        \/ CreatePerses(i)
        \/ \E b \in BOOLEAN : SetAvailable(i, b)
        \/ DeletePerses(i)
        \/ \E l \in Labels : RelabelPerses(i, l)
        \/ LoseBackend(i)
        \/ CreateProjectElsewhere(i)

WatchStep ==
    \/ \E o \in Objects : ObserveResource(o)
    \/ \E i \in Instances : ObservePerses(i)

\* The calls the worker makes for the current instance.
InstanceStep ==
    \/ CreateClient
    \/ getProject
    \/ createProject
    \/ getExisting
    \/ validate
    \/ readCredential
    \/ writeSecret
    \/ writeObject
    \/ getProjectToDelete
    \/ deleteObject
    \/ deleteSecret

WorkerStep ==
    \/ \E o \in Objects : Reconcile(o)
    \/ setStatusToUnknown
    \/ setStatusToComplete
    \/ setStatusToDegraded
    \/ reconcileInAllInstances
    \/ deleteInAllInstances
    \/ \E i \in Instances : NextInstance(i)
    \/ AllInstancesDone
    \/ InstanceStep

Next == UserStep \/ WatchStep \/ Restart \/ WorkerStep

Spec == Init /\ [][Next]_vars

\* The worker goroutine runs; watches deliver; the queue is first-in
\* first-out, so a key in it is taken some time.  Nothing is assumed of the
\* order of the instances, which the informer cache lists in the random order
\* of a map, and nothing obliges a user, a fault or a restart to happen.
Fairness ==
    /\ WF_vars(WorkerStep)
    /\ \A o \in Objects : SF_vars(Reconcile(o)) /\ WF_vars(ObserveResource(o))
    /\ \A i \in Instances : WF_vars(ObservePerses(i))
FairSpec == Spec /\ Fairness

-----------------------------------------------------------------------------
(***************************************************************************)
(* Properties.                                                             *)
(***************************************************************************)
SpecSnapshot == [value : Values, selector : Selectors, client : BOOLEAN]
InstancePhases == {"client", "project", "createProject", "get", "validate", "secret",
                   "writeSecret", "write", "delProject", "delete", "delSecret"}
Phases == {"idle", "unknown", "list", "next", "complete", "degrade"} \cup InstancePhases
Work == [pc : Phases, obj : Objects \cup {Absent}, spec : SpecSnapshot \cup {Absent},
         deleting : BOOLEAN, todo : SUBSET Instances,
         inst : Instances \cup {Absent}, notFound : BOOLEAN, cred : Nat,
         reason : Reasons \cup {"none"}, listed : SUBSET Instances]

\* Type invariant of the controller, its caches and its environment.
TypeOK ==
    /\ cr \in [Objects -> Resource]
    /\ perses \in [Instances -> Perses]
    /\ pcache \in [Instances -> Perses]
    /\ credential \in [Objects -> Nat]
    /\ known \subseteq Objects /\ pending \subseteq Objects /\ queue \subseteq Objects
    /\ work \in Work
    /\ work.pc # "idle" => work.obj \in Objects /\ (work.deleting <=> work.spec = Absent)
    /\ work.pc \in InstancePhases => work.inst \in Instances
    /\ work.pc = "degrade" => work.reason \in Reasons
    /\ project \subseteq Instances
    /\ stored \in [Instances -> [Objects -> Values \cup {Absent}]]
    /\ secret \in [Instances -> [Objects -> Nat \cup {Absent}]]
    /\ tracked \in [Objects -> {"none", "ok", "failed"}]
    /\ reported \in [Objects -> SUBSET {"synced", "failed"}]
    /\ lost \subseteq Objects /\ unnoticed \subseteq Instances
    /\ budget \in [EnvironmentMoves -> Nat]

\* Nothing is under way: no event is undelivered, no request waits or runs.
Quiet ==
    /\ work.pc = "idle"
    /\ queue = {}
    /\ pending = {}
    /\ pcache = perses

\* The instances an object has to be copied to.  No event tells of a Perses
\* object that is relabelled or has lost its storage: those are left out until
\* the instance becomes available again or the operator starts again.
Targets(o) ==
    {i \in Instances \ unnoticed :
        /\ perses[i].exists /\ perses[i].available
        /\ cr[o].selector # BadSelector
        /\ perses[i].label \in cr[o].selector}

\* Whatever edits, deletions, availability changes and failures came in
\* whatever order, the controllers never come to rest with an object missing
\* or outdated in an available instance its selector names: a change that a
\* running pass does not see always brings another pass.
SettledMeansSynced ==
    Quiet => \A o \in Objects : cr[o].exists =>
        \A i \in Targets(o) : stored[i][o] = cr[o].value

\* They never come to rest with an object unreported either: it is Available,
\* not Degraded, and the tracker says ok.
SettledMeansReported ==
    Quiet => \A o \in Objects : cr[o].exists =>
        /\ cr[o].status.available = "True" /\ cr[o].status.degraded = "False"
        /\ tracked[o] = "ok" /\ "synced" \in reported[o]

\* A deleted object, and its secret, are gone from every instance when the
\* controllers come to rest, also when the deletion overtook a pass that was
\* writing the object.  Excepted is a deletion that a restart of the operator
\* came in between, for nothing remembers it; and the instances are those whose
\* storage goes with their Perses object (Wipe), for a pass that deletes does not
\* reach an instance that is away.
SettledMeansDeleted ==
    Quiet => \A o \in Objects : (~ cr[o].exists /\ o \notin lost) =>
        \A i \in Instances : stored[i][o] = Absent /\ secret[i][o] = Absent

\* The tracker and the metrics forget a deleted object for good, also when
\* the pass that was running as it was deleted reports it once more.
SettledMeansForgotten ==
    Quiet => \A o \in Objects : ~ cr[o].exists =>
        tracked[o] = "none" /\ reported[o] = {}

\* A pass reports success only after every instance it listed as available
\* holds the spec the pass started from (unless it has lost its storage).
CompleteMeansHeld ==
    work.pc = "complete" => \A i \in work.listed : stored[i][work.obj] = work.spec.value

\* A datasource that is about to be written with a secret config finds its
\* secret in the backend, with the credentials this pass has read (unless the
\* instance has lost its storage since the pass began).
SecretBeforeDatasource ==
    (work.pc = "write" /\ work.spec.client /\ work.inst \in work.listed) =>
        secret[work.inst][work.obj] = work.cred

\* Secrets only ever hold credentials of an object that passed validation:
\* no pass over an invalid value writes one.
NoSecretForInvalid ==
    [][(secret' # secret /\ \E i \in Instances, o \in Objects :
            secret'[i][o] # secret[i][o] /\ secret'[i][o] # Absent)
          => work.spec.value \notin InvalidValues]_vars

\* With finitely many edits and faults, every valid object reaches every
\* available instance it selects and stays there.
Converges ==
    <>[](\A o \in Objects : (cr[o].exists /\ cr[o].value \notin InvalidValues
                              /\ (cr[o].client => credential[o] # 0)) =>
            \A i \in Targets(o) : stored[i][o] = cr[o].value)

\* A deletion request comes to an end: the object is gone from every instance
\* and its key is not retried any more (or it has been created again, or a
\* restart has made the operator forget the deletion).
DeletionSettles ==
    \A o \in Objects : ~ cr[o].exists ~>
        \/ cr[o].exists
        \/ o \in lost
        \/ /\ \A i \in Instances : stored[i][o] = Absent /\ secret[i][o] = Absent
           /\ o \notin queue /\ work.obj # o

-----------------------------------------------------------------------------
(***************************************************************************)
(* The inductive invariant.  The properties above speak of states in which *)
(* nothing is under way; these speak of all states, and say what the pass  *)
(* under way has done so far and which objects another pass is due for.    *)
(***************************************************************************)
Busy(o) == work.pc # "idle" /\ work.obj = o
Due(o) == o \in pending \cup queue
Clean(i, o) == stored[i][o] = Absent /\ secret[i][o] = Absent

\* The pass has listed its instances; these it has not come to the end of.
Looping == work.pc \in {"next", "complete"} \cup InstancePhases
ToVisit == work.todo \cup (IF work.pc \in InstancePhases THEN {work.inst} ELSE {})

\* The calls of a deletion and those of a reconciliation do not mix; a secret is
\* synced only for a spec that has one and has passed validation.
PassPhases ==
    /\ work.pc \in {"delProject", "delete", "delSecret"} => work.deleting
    /\ work.pc \in {"unknown", "project", "createProject", "get", "validate", "secret",
                    "writeSecret", "write", "complete", "degrade"} => ~ work.deleting
    /\ work.pc \in {"secret", "writeSecret"} => work.spec.client
    /\ work.pc \in {"secret", "writeSecret", "write"} => work.spec.value \notin InvalidValues
    /\ work.pc = "complete" => work.todo = {}
    /\ work.deleting => work.listed = {}

\* Dashboards have no secrets.
NoDashboardSecrets ==
    Kind = "PersesDashboard" =>
        /\ \A o \in Objects : ~ cr[o].client
        /\ work.pc # "idle" /\ ~ work.deleting => ~ work.spec.client
        /\ \A i \in Instances, o \in Objects : secret[i][o] = Absent

\* What the informer caches hold: of a Perses object at most the last change is
\* missing, and an object without an undelivered event is known if it exists.
CachesFollow ==
    /\ \A i \in Instances :
          /\ i \notin unnoticed => pcache[i].label = perses[i].label
          /\ perses[i].available => perses[i].exists /\ pcache[i].exists
          /\ pcache[i].available => pcache[i].exists
    /\ \A o \in Objects : o \notin pending => (o \in known <=> cr[o].exists)

\* A backend that does not run has nothing.
StoppedIsEmpty == \A i \in Instances : ~ Running(i) => \A o \in Objects : Clean(i, o)

\* The instances the pass has done hold its spec, or nothing if it deletes.
DoneSoFar ==
    Looping =>
        IF work.deleting
           THEN /\ \A i \in Instances \ ToVisit : Clean(i, work.obj)
                /\ work.pc = "delSecret" => stored[work.inst][work.obj] = Absent
           ELSE \A i \in work.listed \ ToVisit : stored[i][work.obj] = work.spec.value

\* Unless another pass is due, the pass works with what its object is now.
PassIsCurrent ==
    work.pc # "idle" /\ ~ Due(work.obj) =>
        /\ work.deleting <=> ~ cr[work.obj].exists
        /\ ~ work.deleting => /\ cr[work.obj].value = work.spec.value
                              /\ cr[work.obj].selector = work.spec.selector

\* The operator sees the instance as available, and it has not changed unnoticed.
Seen(i) ==
    /\ i \notin unnoticed
    /\ perses[i].exists /\ pcache[i].exists /\ pcache[i].available

\* The instances that have to have an object with this selector, as far as the
\* operator can know.
Reachable(selector) ==
    {i \in Instances : Seen(i) /\ selector # BadSelector /\ pcache[i].label \in selector}

\* Unless another pass is due, the pass has listed all of them ...
ListedAll ==
    Looping /\ ~ work.deleting /\ ~ Due(work.obj) =>
        Reachable(work.spec.selector) \subseteq work.listed

\* ... and an object without a pass under way or due is in all of them, or gone.
RestingAt(o) ==
    ~ Due(o) =>
        /\ cr[o].exists /\ ~ Busy(o) =>
              /\ \A i \in Reachable(cr[o].selector) : stored[i][o] = cr[o].value
              /\ cr[o].status.available = "True" /\ cr[o].status.degraded = "False"
              /\ tracked[o] = "ok" /\ "synced" \in reported[o]
        /\ ~ cr[o].exists => tracked[o] = "none" /\ reported[o] = {}
        /\ ~ cr[o].exists /\ ~ Busy(o) /\ o \notin lost =>
              \A i \in Instances : Clean(i, o)
RestingObjects == \A o \in Objects : RestingAt(o)

\* The invariant the proofs rest on: what the operator knows, what its worker has
\* done so far and which objects a pass is still due for account for every copy.
SyncInv ==
    /\ TypeOK
    /\ PassPhases
    /\ NoDashboardSecrets
    /\ CachesFollow
    /\ StoppedIsEmpty
    /\ DoneSoFar
    /\ SecretBeforeDatasource
    /\ PassIsCurrent
    /\ ListedAll
    /\ RestingObjects

-----------------------------------------------------------------------------
(***************************************************************************)
(* The abstract specification of the controllers.                          *)
(***************************************************************************)
Snapshot ==
    IF work.pc = "idle"
       THEN [obj |-> Absent, value |-> Absent]
       ELSE [obj |-> work.obj, value |-> IF work.deleting THEN Absent ELSE work.spec.value]

Mirror == INSTANCE ResourceMirror WITH
    wanted <- [o \in Objects |-> IF cr[o].exists THEN cr[o].value ELSE Absent],
    snapshot <- Snapshot,
    copy <- stored

\* Every call, event, fault and restart of the controllers is a step of the
\* abstract mirror or changes nothing of it: whatever happens to the object
\* meanwhile, a pass writes exactly what it read at its start, deletes only
\* what it found gone, and touches no other object's copy.
ImplementsMirror == Mirror!Spec
=============================================================================
